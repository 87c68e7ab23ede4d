------------------------- MODULE MaintenancePlanner -------------------------
(***************************************************************************)
(* Checkpoints and retention: decide_checkpoint and the bounded pass       *)
(* (src/lite_frequency_v4/maintenance.py), and the engine's loop, which    *)
(* samples a snapshot, hands the pass to the maintenance worker and folds  *)
(* its result into the reclamation state (engine.py).                      *)
(*                                                                         *)
(* A tick is the pressure interval.  The size of the WAL counts by the     *)
(* thresholds it has passed: 1 the trigger, 2 the restart trigger, 3 the   *)
(* size from which lag defers nothing.  Writers, readers and other load    *)
(* are the environment: a snapshot takes any consistent value.             *)
(***************************************************************************)
EXTENDS Integers, FiniteSetsExt

CONSTANTS
  MinInterval,   \* checkpoint_min_interval_ms, in ticks
  Threshold,     \* no_progress_escalation_threshold
  MaxSetbacks    \* bound on how often the wall clock is set back

ASSUME MaintenanceAssumption ==
  {MinInterval, Threshold} \subseteq Nat \ {0} /\ MaxSetbacks \in Nat

VARIABLES
  walCache,        \* _wal_size_cache, as a level
  noProgress,      \* _consecutive_no_progress_passive
  sinceAttempt,    \* ticks since the last recorded attempt of any mode
  sinceEscalation, \* ticks since the last recorded escalation
  pass,            \* the maintenance pass under way
  favourable,      \* the last snapshot allowed a live reclaim, its size aside
  sinceReclaim,    \* ticks since a reclaim really started: history
  lapses,          \* timed-out passes and clock setbacks: history
  setbacks

maintenanceVars == <<walCache, noProgress, sinceAttempt, sinceEscalation, pass,
  favourable, sinceReclaim, lapses, setbacks>>

clocks == <<sinceAttempt, sinceEscalation, sinceReclaim, setbacks, lapses>>

NoPass == [at |-> "idle"]
Reclaiming == {"RESTART", "TRUNCATE"}

\* No attempt is recorded at the start; the first pass arms the escalation clock.
MaintenanceInit ==
  /\ walCache = 0 /\ noProgress = 0
  /\ sinceAttempt = MinInterval /\ sinceEscalation = 0 /\ sinceReclaim = MinInterval
  /\ pass = NoPass /\ favourable = FALSE /\ lapses = 0 /\ setbacks = 0

-----------------------------------------------------------------------------
(* The decision *)

\* What the pass samples: critical commands queued, another reason to close
\* the gate, a lagging event loop, a long reader, a healthy database, and a
\* runtime quiet enough to restart the log.
Snapshots ==
  {s \in [critical : BOOLEAN, gated : BOOLEAN, lagging : BOOLEAN, longReader : BOOLEAN,
          healthy : BOOLEAN, quiescent : BOOLEAN] :
     /\ s.quiescent => ~s.critical /\ ~s.gated /\ ~s.longReader /\ s.healthy
     /\ ~s.healthy => s.gated}

\* maintenance_gate
GateClosed(s) == s.critical \/ s.gated

\* _live_reclaim_is_safe, its size and progress terms aside
Favourable(s) == ~s.longReader /\ ~s.critical /\ s.healthy

LiveReclaimIsSafe(s) ==
  /\ noProgress >= Threshold
  /\ walCache >= 2
  /\ ~(s.lagging /\ walCache < 3)
  /\ Favourable(s)

RestartIsSafe(s) == walCache >= 2 /\ s.quiescent

EscalationDue == sinceEscalation >= MinInterval

\* Seeded fault: the gate comes before the pressure of the log.
DecideBehindGate(s) ==
  IF walCache = 0 \/ sinceAttempt < 1 \/ GateClosed(s) THEN "none"
  ELSE IF LiveReclaimIsSafe(s) /\ EscalationDue THEN "TRUNCATE" ELSE "PASSIVE"

\* decide_checkpoint; the running program never takes its stopped branch.
DecideCheckpoint(s) ==
  IF walCache = 0 \/ sinceAttempt < 1 THEN "none"
  ELSE IF sinceAttempt < MinInterval
  THEN IF EscalationDue /\ LiveReclaimIsSafe(s) THEN "TRUNCATE" ELSE "PASSIVE"
  ELSE IF LiveReclaimIsSafe(s) THEN "TRUNCATE"
  ELSE IF GateClosed(s) THEN IF walCache >= 2 THEN "PASSIVE" ELSE "none"
  ELSE IF RestartIsSafe(s) THEN "RESTART"
  ELSE "PASSIVE"

-----------------------------------------------------------------------------
(* A pass *)

BeginPass ==
  \E s \in Snapshots :
    /\ pass = NoPass
    /\ pass' = [at |-> "submitted", mode |-> DecideCheckpoint(s)]
    /\ favourable' = Favourable(s)
    /\ UNCHANGED <<walCache, noProgress, clocks>>

\* perform_checkpoint on the worker: the write gate refuses it, also after the
\* bounded retries of an urgent one, or it runs.  The size before and after is
\* read again there; only a TRUNCATE is sure to give bytes back, unless busy.
\* The retention that may follow changes nothing of the reclamation state.
RunCheckpoint ==
  /\ pass.at = "submitted" /\ pass.mode # "none"
  /\ \E status \in {"SKIPPED", "BUSY", "FAILED", "SUCCESS"}, after \in 0..3, reclaimed \in BOOLEAN :
       /\ reclaimed => status # "SKIPPED" /\ after < 3
       /\ status = "SUCCESS" /\ pass.mode = "TRUNCATE" => after = 0
       /\ pass' = [at |-> "done", mode |-> pass.mode, ran |-> status # "SKIPPED",
                   after |-> after, reclaimed |-> reclaimed, age |-> 0]
  /\ sinceReclaim' = IF pass.mode \in Reclaiming THEN 0 ELSE sinceReclaim
  /\ UNCHANGED <<walCache, noProgress, sinceAttempt, sinceEscalation, favourable,
                 lapses, setbacks>>

PassWithoutCheckpoint ==
  /\ pass.at = "submitted" /\ pass.mode = "none"
  /\ pass' = NoPass
  /\ UNCHANGED <<walCache, noProgress, favourable, clocks>>

\* Seeded fault: a deferred reclaim consumes no slot.
ApplyExecuted ==
  /\ pass.at = "done"
  /\ noProgress' = IF pass.reclaimed THEN 0
                   ELSE IF pass.ran /\ pass.mode = "PASSIVE"
                   THEN Min({noProgress + 1, Threshold}) ELSE noProgress
  /\ walCache' = pass.after
  /\ sinceAttempt' = pass.age
  /\ sinceEscalation' = IF pass.mode \in Reclaiming /\ pass.ran THEN pass.age
                        ELSE sinceEscalation
  /\ pass' = NoPass
  /\ UNCHANGED <<favourable, sinceReclaim, lapses, setbacks>>

\* _apply_checkpoint_result
ApplyResult ==
  /\ pass.at = "done"
  /\ LET counted == Min({noProgress + 1, Threshold})
     IN  IF pass.reclaimed THEN noProgress' = 0
         ELSE IF ~pass.ran \/ pass.mode # "PASSIVE" THEN UNCHANGED noProgress
         ELSE noProgress' = counted \/ (pass.after = 0 /\ UNCHANGED noProgress)
  /\ walCache' = pass.after
  /\ sinceAttempt' = pass.age
  /\ sinceEscalation' = IF pass.mode \in Reclaiming THEN pass.age ELSE sinceEscalation
  /\ pass' = NoPass
  /\ UNCHANGED <<favourable, sinceReclaim, lapses, setbacks>>

\* The engine waits no longer than maintenance_worker_timeout_s: whatever the
\* worker did or will do, its result is not applied.
PassTimesOut ==
  /\ pass # NoPass
  /\ pass' = NoPass
  /\ lapses' = 1
  /\ UNCHANGED <<walCache, noProgress, sinceAttempt, sinceEscalation, favourable,
                 sinceReclaim, setbacks>>

-----------------------------------------------------------------------------
(* Time and load *)

\* _refresh_resource_metrics
MeasureWal ==
  /\ \E level \in 0..3 : walCache' = level
  /\ UNCHANGED <<noProgress, pass, favourable, clocks>>

Later(n) == Min({n + 1, MinInterval})

Tick ==
  /\ sinceAttempt' = Later(sinceAttempt)
  /\ sinceEscalation' = Later(sinceEscalation)
  /\ sinceReclaim' = Later(sinceReclaim)
  /\ pass' = IF pass.at = "done" THEN [pass EXCEPT !.age = Later(@)] ELSE pass
  /\ UNCHANGED <<walCache, noProgress, favourable, lapses, setbacks>>

\* A recorded attempt may then lie in the future.
ClockSetBack ==
  /\ setbacks < MaxSetbacks
  /\ setbacks' = setbacks + 1 /\ lapses' = 1
  /\ sinceAttempt' = -1 /\ sinceEscalation' = -1
  /\ UNCHANGED <<walCache, noProgress, pass, favourable, sinceReclaim>>

MaintenanceNext ==
  \/ BeginPass \/ RunCheckpoint \/ PassWithoutCheckpoint \/ ApplyResult
  \/ PassTimesOut \/ MeasureWal \/ Tick \/ ClockSetBack

\* _maintenance_loop runs pass after pass; not every pass times out before the worker
\* takes it, nor before its result comes back.
MaintenanceFairness ==
  /\ WF_maintenanceVars(BeginPass)
  /\ SF_maintenanceVars(RunCheckpoint)
  /\ WF_maintenanceVars(PassWithoutCheckpoint)
  /\ SF_maintenanceVars(ApplyResult)
  /\ WF_maintenanceVars(Tick)

MaintenanceSpec ==
  MaintenanceInit /\ [][MaintenanceNext]_maintenanceVars /\ MaintenanceFairness

-----------------------------------------------------------------------------
(* Properties *)

MaintenanceTypeOK ==
  /\ walCache \in 0..3 /\ noProgress \in 0..Threshold
  /\ {sinceAttempt, sinceEscalation, sinceReclaim} \subseteq -1..MinInterval
  /\ pass.at \in {"idle", "submitted", "done"}
  /\ favourable \in BOOLEAN /\ lapses \in {0, 1} /\ setbacks \in 0..MaxSetbacks

\* "every decided reclamation consumes a slot whether it ran, returned BUSY, or
\* was deferred": two reclaims start no closer than the routine interval, while
\* no pass timed out and the clock ran on (_apply_checkpoint_result).
ReclaimsApart ==
  pass.at = "submitted" /\ pass.mode \in Reclaiming /\ lapses = 0 =>
    sinceReclaim >= MinInterval

\* "a busy or degraded runtime must not be able to defer it indefinitely": an
\* oversized log is checkpointed again and again, whatever closes the gate.
PressureRelieved ==
  <>[](walCache >= 2) => []<>(pass.at = "done")

\* Reclamation is reached: a log that stays past the last threshold although
\* backfills run is truncated at last, lag or closed gate notwithstanding, if
\* snapshots keep finding no long reader and no critical command.
ReclaimReached ==
  <>[](walCache = 3 /\ favourable /\ (pass.at = "done" => pass.ran /\ ~pass.reclaimed))
    => []<>(pass.at = "done" /\ pass.mode \in Reclaiming)

\* Reclamation is neither hurried nor put off for ever.
PlannerSound == MaintenanceTypeOK /\ ReclaimsApart
ReliefComes == PressureRelieved /\ ReclaimReached
=============================================================================
