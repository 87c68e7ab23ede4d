-------------------------- MODULE TelemetryWindow --------------------------
(***************************************************************************)
(* _RollingTelemetryWindow (src/lite_frequency_v4/telemetry.py): a ring of *)
(* one-second buckets that forgets by overwriting, the opening snapshot of *)
(* every observed second, and the cached views the control tick reads.     *)
(* Callers read the clock before they take the lane's lock, so a call may  *)
(* carry the second before the newest one.  The five identity counters are *)
(* an inflow and an outflow; the lane's rows are kept beside them, and a   *)
(* fault moves one of the two without the other.                           *)
(***************************************************************************)
EXTENDS Integers, FiniteSetsExt, Functions

CONSTANTS
  WindowSize,   \* window_s, at least 3
  MaxSecond,    \* bound: seconds the clock reaches
  MaxHeld,      \* bound: rows the lane holds
  MaxAdmitted,  \* bound: rows ever admitted
  MaxFaults     \* bound: rows that vanish or are counted twice

ASSUME WindowAssumption == WindowSize \in Nat /\ WindowSize >= 3 /\ MaxSecond \in Nat

VARIABLES
  second,       \* floor of the monotonic clock
  ring,         \* _buckets
  came, gone,   \* _identity_totals: admitted + aggregated, and the outflows
  held,         \* rows the lane holds: queued_logical + inflight_logical
  opening,      \* _conservation
  cached,       \* _view_cache, by include_current: the entry whose revision is
                \* still the ring's, NoView otherwise
  happened,     \* second -> outflow counted in it: history
  firstGap,     \* observed second -> gap at its first observation: history
  faults

windowVars == <<second, ring, came, gone, held, opening, cached, happened,
                firstGap, faults>>

Bucket(tick) == [tick |-> tick, gone |-> 0, low |-> -1]
NoView == [latest |-> -2, view |-> {}]
NoViews == [current \in BOOLEAN |-> NoView]

WindowInit ==
  /\ second = 0
  /\ ring = [i \in 0..(WindowSize - 1) |-> Bucket(-1)]
  /\ came = 0 /\ gone = 0 /\ held = 0
  /\ opening = <<>> /\ cached = NoViews
  /\ happened = [t \in 0..MaxSecond |-> 0]
  /\ firstGap = <<>> /\ faults = 0

\* The seconds a caller may carry
Times == {second, Max({0, second - 1})}

Slot(at) == at % WindowSize

\* _bucket: a slot of another second is recycled, which bumps the revision.
Claimed(at) == IF ring[Slot(at)].tick = at THEN ring[Slot(at)] ELSE Bucket(at)
Recycles(at) == ring[Slot(at)].tick # at

\* observe_depth: the second's floor stands for its depth statistics, and bumps
\* the revision when it moves.
WithDepth(bucket, depth) ==
  [bucket EXCEPT !.low = IF @ = -1 \/ depth < @ THEN depth ELSE @]

\* add of `out` outflow rows in second `at`, which bumps the revision, then
\* observe_depth
Counting(at, out, depth) ==
  /\ ring' = [ring EXCEPT ![Slot(at)] =
                 WithDepth([Claimed(at) EXCEPT !.gone = @ + out], depth)]
  /\ cached' = NoViews
  /\ gone' = gone + out
  /\ happened' = [happened EXCEPT ![at] = @ + out]

RowAdmitted(at) ==
  /\ held < MaxHeld /\ came < MaxAdmitted
  /\ came' = came + 1 /\ held' = held + 1
  /\ Counting(at, 0, held + 1)
  /\ UNCHANGED <<second, opening, firstGap, faults>>

RowResolved(at) ==
  /\ held > 0 /\ held' = held - 1
  /\ Counting(at, 1, held - 1)
  /\ UNCHANGED <<second, came, opening, firstGap, faults>>

\* A row leaves the lane with no outcome counted, or is counted once more.
RowVanishes ==
  /\ faults < MaxFaults /\ held > 0
  /\ held' = held - 1 /\ faults' = faults + 1
  /\ UNCHANGED <<second, ring, came, gone, opening, cached, happened, firstGap>>
RowCountedTwice(at) ==
  /\ faults < MaxFaults /\ came > 0
  /\ faults' = faults + 1 /\ Counting(at, 1, held)
  /\ UNCHANGED <<second, came, held, opening, firstGap>>

Reading == [came |-> came, gone |-> gone, inventory |-> held]
Gap(snapshot) == snapshot.came - snapshot.gone - snapshot.inventory

\* record_conservation: the first observation of a second stays; more than two
\* spare seconds prune those before the window and its spare second.
Recorded(at) ==
  LET kept == IF at \in DOMAIN opening THEN opening
              ELSE [t \in DOMAIN opening \cup {at} |->
                      IF t = at THEN Reading ELSE opening[t]]
  IN  IF Cardinality(DOMAIN kept) > WindowSize + 2
      THEN Restrict(kept, {t \in DOMAIN kept : t >= at - WindowSize - 1})
      ELSE kept

\* conservation: against the oldest opening inside the window, the lane's origin
\* if no second of it was observed
Residual(at, snapshots) ==
  LET inside == {t \in DOMAIN snapshots : t \in (at - WindowSize + 1)..at}
  IN  Gap(Reading) - IF inside = {} THEN 0 ELSE Gap(snapshots[Min(inside)])

\* view: the buckets of the window's seconds
Built(buckets, latest) ==
  {b \in Range(buckets) : b.tick \in (latest - WindowSize + 1)..latest}
Latest(at, current) == IF current THEN at ELSE at - 1
Served(entry, buckets, latest) ==
  IF entry.latest = latest THEN entry
  ELSE [latest |-> latest, view |-> Built(buckets, latest)]

\* decide: the depth, the conservation reading, then both views
Observe(at) ==
  LET bucket == Claimed(at)
      buckets == [ring EXCEPT ![Slot(at)] = WithDepth(bucket, held)]
      valid == IF Recycles(at) \/ WithDepth(bucket, held) # bucket THEN NoViews
               ELSE cached
  IN  /\ ring' = buckets
      /\ opening' = Recorded(at)
      /\ cached' = [current \in BOOLEAN |->
           Served(valid[current], buckets, Latest(at, current))]
      /\ firstGap' = IF at \in DOMAIN firstGap THEN firstGap
                     ELSE [t \in DOMAIN firstGap \cup {at} |->
                             IF t = at THEN Gap(Reading) ELSE firstGap[t]]
      /\ UNCHANGED <<second, came, gone, held, happened, faults>>

\* The clock moves on, by any number of seconds while the lane is silent.
SecondsPass ==
  /\ \E t \in (second + 1)..MaxSecond : second' = t
  /\ UNCHANGED <<ring, came, gone, held, opening, cached, happened, firstGap,
                 faults>>

WindowNext ==
  \/ SecondsPass \/ RowVanishes
  \/ \E at \in Times :
       RowAdmitted(at) \/ RowResolved(at) \/ RowCountedTwice(at) \/ Observe(at)

WindowSpec == WindowInit /\ [][WindowNext]_windowVars

-----------------------------------------------------------------------------
(* Properties *)

\* The residual of the conservation identity counts exactly the rows that went
\* unaccounted since the window's oldest observed second was opened: pruning
\* and later observations of a second never move that boundary.
ResidualExact ==
  \A at \in Times :
    LET inside == {t \in DOMAIN firstGap : t \in (at - WindowSize + 1)..at}
    IN  Residual(at, opening) = came - gone - held
          - IF inside = {} THEN 0 ELSE firstGap[Min(inside)]

\* The buckets of a view with the current second count every row of its seconds
\* and no other, each second once, whatever was recycled.  The view of whole
\* seconds only is that of the seconds whose slot no newer second took: the
\* tick's own depth takes the oldest one's.
RingExact ==
  \A current \in BOOLEAN :
    LET latest == Latest(second, current)
        view == Built(ring, latest)
        covered == {t \in (latest - WindowSize + 1)..latest :
                      t >= 0 /\ ring[Slot(t)].tick <= t}
    IN  /\ {<<b.tick, b.gone>> : b \in {x \in view : x.gone > 0}}
             = {<<t, happened[t]>> : t \in {u \in covered : happened[u] > 0}}
        /\ \A b, c \in view : b.tick = c.tick => b = c
        /\ current => covered = Max({0, latest - WindowSize + 1})..latest

\* A cached view that would be served is the view the ring would give now.
CacheFresh ==
  \A current \in BOOLEAN :
    cached[current] # NoView =>
      cached[current].view = Built(ring, cached[current].latest)

\* The opening snapshots stay bounded by the window and its spare seconds.
OpeningBounded == Cardinality(DOMAIN opening) <= WindowSize + 3

WindowSound == ResidualExact /\ RingExact /\ CacheFresh /\ OpeningBounded
=============================================================================
