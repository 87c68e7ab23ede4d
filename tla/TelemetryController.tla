------------------------ MODULE TelemetryController ------------------------
(***************************************************************************)
(* _AdaptiveTelemetryController (src/lite_frequency_v4/telemetry.py): the  *)
(* control tick that chooses the physical chunk, enters and leaves         *)
(* overload, and certifies the lane as healthy again.  A tick is one       *)
(* control interval; windows and the settle time are counted in ticks.     *)
(* Every call of decide measures the safe size again; only the first of an *)
(* interval is a tick and moves the chunk.  Rates, costs and depths are    *)
(* measurements: a call takes any of them.                                 *)
(***************************************************************************)
EXTENDS Integers, FiniteSetsExt

CONSTANTS
  PhysicalMax,     \* physical_max_chunk
  UpWindows,       \* _UP_HEADROOM_WINDOWS
  EnterWindows,    \* _OVERLOAD_ENTER_WINDOWS
  ExitWindows,     \* _OVERLOAD_EXIT_WINDOWS
  HealthyWindows,  \* _RECOVERY_HEALTHY_WINDOWS
  RateWindow,      \* _RATE_WINDOW_S
  Settle           \* _RECOVERY_SETTLE_S, at least the rate window

ASSUME ControllerAssumption ==
  /\ {PhysicalMax, UpWindows, EnterWindows, ExitWindows, HealthyWindows, RateWindow}
       \subseteq Nat \ {0}
  /\ Settle \in Nat /\ Settle > 1

VARIABLES
  selected,       \* selected_chunk
  safe,           \* deadline_safe_chunk
  deadlineCap,    \* _active_deadline_cap, PhysicalMax if None
  headroom,       \* _headroom_streak, UpWindows - 1 at most
  overload,       \* _overload_reason, "none" while inactive
  enterStreak, exitStreak,
  settledFor,     \* ticks since _settled_since
  healthyStreak,  \* _healthy_streak
  sinceLoss,      \* ticks since rows were lost, Saturation at most
  calmFor,        \* ticks in a row that found the queue bounded: history
  tickSafe        \* what the last tick, or a miss since, allowed: history

controllerVars == <<selected, safe, deadlineCap, headroom, overload,
  enterStreak, exitStreak, settledFor, healthyStreak, sinceLoss, calmFor,
  tickSafe>>

Saturation == RateWindow + Settle + HealthyWindows

\* Depth against the marks: low_water, high_water and the hard capacity
Depths == {"low", "middle", "high", "full"}

ControllerInit ==
  /\ selected \in 1..PhysicalMax /\ safe = selected /\ tickSafe = selected
  /\ deadlineCap = PhysicalMax
  /\ headroom = 0
  /\ overload = "none" /\ enterStreak = 0 /\ exitStreak = 0
  /\ settledFor = 0 /\ healthyStreak = 0
  /\ sinceLoss = Saturation
  /\ calmFor = 0

\* recovery_view: the whole ticks before this one.  The tick has observed its
\* own depth by then, which took the ring's slot of the oldest of RateWindow.
LossInWindow == sinceLoss \in 1..(RateWindow - 1)

\* deadline_safe_capacity over the measured cost of a transaction, never above
\* the cap a missed deadline left while it stands; the call that finds the cap
\* expired drops it
Measured(newSafe) ==
  /\ deadlineCap' \in {deadlineCap, PhysicalMax}
  /\ newSafe \in 1..deadlineCap'

\* required_rows_per_dispatch: the sentinel PhysicalMax + 1 cannot be served.
RequiredRows == 1..(PhysicalMax + 1)

\* max(1, ceil(chunk * _UP_STEP_FRACTION))
GrowthStep(chunk) == Max({1, (chunk + 3) \div 4})

\* A chunk is raised to the floor the queue's depth calls for.
Floor(newSafe, chunk, streak) ==
  {[chunk |-> Max({chunk, Min({required, newSafe})}),
    streak |-> IF chunk < Min({required, newSafe}) THEN 0 ELSE streak] :
     required \in RequiredRows}

\* Room above, but no step yet: the row of clean ticks goes on or starts again.
KeptChunk(newSafe) ==
  UNION {Floor(newSafe, selected, Min({clean, UpWindows - 1})) :
           clean \in {0, 1, headroom + 1}}

GrownChunk(newSafe) ==
  IF headroom + 1 < UpWindows THEN {}
  ELSE Floor(newSafe, Min({newSafe, selected + GrowthStep(selected)}), 0)

\* What a tick may make of the chunk: a smaller safe size shrinks it at once,
\* the throughput floor within the safe size always applies, and it grows a
\* step once UpWindows ticks in a row were clean with room above and the last
\* step is long enough ago; a gap between ticks starts the row again.  Whatever
\* it makes of it, _controller_safe holds of the tick's own choice.
ChunkChoices(newSafe) ==
  IF newSafe <= selected THEN Floor(newSafe, newSafe, 0)
  ELSE KeptChunk(newSafe) \cup GrownChunk(newSafe)

\* What a tick may make of overload: entered at the high-water mark or after
\* EnterWindows ticks of pressure, left after ExitWindows calm ticks in a row
\* (below the low-water mark, no pressure, a falling queue, no failed batch).
OverloadChoices(depth) ==
  LET entering(pressure) ==
        IF pressure THEN Min({enterStreak + 1, EnterWindows}) ELSE 0
      Outcome(pressure, calm) ==
        IF depth \in {"high", "full"}
        THEN [reason |-> "queue_high_water", enter |-> entering(pressure),
              exit |-> 0]
        ELSE IF entering(pressure) = EnterWindows
        THEN [reason |-> "throughput", enter |-> EnterWindows, exit |-> 0]
        ELSE IF overload = "none"
        THEN [reason |-> "none", enter |-> entering(pressure),
              exit |-> exitStreak]
        ELSE IF ~calm
        THEN [reason |-> overload, enter |-> entering(pressure), exit |-> 0]
        ELSE [reason |-> IF exitStreak + 1 = ExitWindows THEN "none"
                         ELSE overload,
              enter |-> 0, exit |-> (exitStreak + 1) % ExitWindows]
  IN  {Outcome(TRUE, FALSE), Outcome(FALSE, FALSE)} \cup
      IF depth = "low" /\ ~LossInWindow THEN {Outcome(FALSE, TRUE)} ELSE {}

\* A tick that finds the queue below its capacity and not accumulating, and every
\* row of the window accounted for
Calm(depth, accumulating) ==
  IF depth = "full" \/ accumulating THEN 0 ELSE Min({calmFor + 1, Saturation})

\* decide between ticks (for a snapshot, or again in the same interval): the safe
\* size follows the measurement, the chunk does not
Remeasure ==
  \E newSafe \in 1..PhysicalMax :
    /\ Measured(newSafe)
    /\ safe' = newSafe
    /\ UNCHANGED <<selected, headroom, overload, enterStreak, exitStreak,
                   settledFor, healthyStreak, sinceLoss, calmFor, tickSafe>>

\* decide on a new control tick
ControlTick ==
  \E newSafe \in 1..PhysicalMax, depth \in Depths, accumulating \in BOOLEAN :
  \E size \in ChunkChoices(newSafe), next \in OverloadChoices(depth) :
    LET setback == /\ LossInWindow
                   /\ \/ size.chunk < selected /\ newSafe < safe
                      \/ overload = "none" /\ next.reason = "queue_high_water"
        settledNow == IF setback THEN 0 ELSE Min({settledFor + 1, Settle})
        blocked == \/ settledNow < Settle \/ LossInWindow
                   \/ accumulating \/ depth = "full"
    IN  /\ Measured(newSafe)
        /\ selected' = size.chunk /\ safe' = newSafe /\ headroom' = size.streak
        /\ tickSafe' = newSafe
        /\ overload' = next.reason
        /\ enterStreak' = next.enter /\ exitStreak' = next.exit
        /\ settledFor' = settledNow
        /\ healthyStreak' = IF blocked THEN 0
                            ELSE Min({healthyStreak + 1, HealthyWindows})
        /\ sinceLoss' = Min({sinceLoss + 1, Saturation})
        /\ calmFor' = Calm(depth, accumulating)

\* observe_deadline_miss: the chunk is halved and capped for the cost window.
DeadlineMiss ==
  \E rows \in 1..PhysicalMax :
    LET cap == Max({1, Min({selected, rows}) \div 2})
    IN  /\ deadlineCap' = cap
        /\ selected' = Min({selected, cap}) /\ safe' = Min({safe, cap})
        /\ tickSafe' = Min({tickSafe, cap})
        /\ headroom' = 0
        /\ UNCHANGED <<overload, enterStreak, exitStreak, settledFor,
                       healthyStreak, sinceLoss, calmFor>>

\* add: rows lost or overflowing outside policy restart the settle clock.
RowsLost ==
  /\ settledFor' = 0 /\ healthyStreak' = 0 /\ sinceLoss' = 0
  /\ UNCHANGED <<selected, safe, deadlineCap, headroom, overload, enterStreak,
                 exitStreak, calmFor, tickSafe>>

ControllerNext == Remeasure \/ ControlTick \/ DeadlineMiss \/ RowsLost

ControllerSpec == ControllerInit /\ [][ControllerNext]_controllerVars

-----------------------------------------------------------------------------
(* Properties *)

ControllerTypeOK ==
  /\ selected \in 1..PhysicalMax /\ safe \in 1..PhysicalMax
  /\ deadlineCap \in 1..PhysicalMax
  /\ headroom \in 0..(UpWindows - 1)
  /\ overload \in {"none", "queue_high_water", "throughput"}
  /\ enterStreak \in 0..EnterWindows /\ exitStreak \in 0..(ExitWindows - 1)
  /\ settledFor \in 0..Settle /\ healthyStreak \in 0..HealthyWindows
  /\ sinceLoss \in 0..Saturation
  /\ calmFor \in 0..Saturation
  /\ tickSafe \in 1..PhysicalMax

\* current_operational_healthy
Healthy == healthyStreak = HealthyWindows

\* The lane is certified healthy only after the settle time and the healthy
\* windows have both passed without a lost row, with every healthy window
\* bounded.
RecoveryEarned ==
  Healthy => /\ sinceLoss >= Settle - 1 + HealthyWindows
             /\ sinceLoss >= RateWindow - 1 + HealthyWindows
             /\ calmFor >= HealthyWindows

\* The chunk is never above what the last tick found safe, nor above what a missed
\* deadline left since: so each tick that counts a healthy window does it with a
\* chunk its deadline allows (_controller_safe).  Between ticks the safe size may
\* fall below the chunk, certified or not; the next tick takes the chunk down.
ChunkFollows == selected <= tickSafe

\* No standing blocker: once no row was lost and the queue was bounded for the
\* rate window, the settle time and the healthy windows, the lane is healthy,
\* although deadlines are still missed and overload may never end (decide).
RecoversInTime == sinceLoss = Saturation /\ calmFor = Saturation => Healthy

\* The certification of the lane is earned, and comes once it is.
HealthCertified ==
  ControllerTypeOK /\ RecoveryEarned /\ ChunkFollows /\ RecoversInTime
=============================================================================
