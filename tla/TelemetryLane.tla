--------------------------- MODULE TelemetryLane ---------------------------
(***************************************************************************)
(* V4TelemetryWriter (src/lite_frequency_v4/telemetry.py): admission by    *)
(* the engine, the aggregation thread that takes one batch at a time to    *)
(* the sink, the retries of a batch the sink rolled back, and both kinds   *)
(* of stop.  Every step is one section under the writer's lock; the call   *)
(* of the sink lies between TakeBatch and the step that settles it.        *)
(*                                                                         *)
(* A queued row is its logical count, the suppression entries it wrote and *)
(* its retries.  Rows are of three kinds, by the way they coalesce: events *)
(* carry a dedupe key, states carry a value of one state key, buckets      *)
(* merge into the queued bucket of the same time.  The rates that decide   *)
(* when the lane is under pressure and the size of a physical chunk belong *)
(* to TelemetryController; here both are free.                             *)
(***************************************************************************)
EXTENDS Integers, Sequences, FiniteSetsExt

CONSTANTS
  EventKeys,    \* dedupe keys
  StateValues,  \* signatures of the one state key
  Capacity,     \* rows the queue may hold
  HighWater,    \* depth from which the lane is under pressure
  MaxChunk,     \* physical_batch_size
  RetryBudget,  \* _MAX_PRIORITY_REQUEUE_ATTEMPTS
  MaxRows       \* bound on submitted rows

ASSUME LaneAssumption ==
  RetryBudget \in Nat /\ MaxRows \in Nat /\ MaxChunk \in Nat \ {0}

VARIABLES
  queue,        \* pending rows, oldest first
  inflight,     \* the batch handed to the sink
  eventSeen,    \* _dedupe_seen
  stateSeen,    \* _state_seen of the one state key
  stored,       \* what the sink has committed: event keys and state values
  count,        \* the lane's counters
  ceiling,      \* _physical_batch_ceiling, set by the controller
  isolation,    \* _duplicate_isolation_ceiling, 0 if None
  unattempted,  \* rows dropped that no sink transaction had attempted
  stopMode,     \* "no", "drain" or "force"
  laneThread    \* "running" or "stopped"

laneRows == <<queue, inflight, eventSeen, stateSeen, stored>>
telemetryVars == <<laneRows, count, ceiling, isolation, unattempted, stopMode,
                   laneThread>>

\* No suppression entry of its kind
None == "none"

Counters == {"submitted", "admitted", "aggregated", "coalesced",
             "deduplicated", "sampled", "deferred", "refused", "written",
             "lostAdmitted", "policyResolved"}

TelemetryInit ==
  /\ queue = << >> /\ inflight = << >>
  /\ eventSeen = {}
  /\ stateSeen = [value |-> None, token |-> 0]
  /\ stored = {}
  /\ count = [c \in Counters |-> 0]
  /\ ceiling = MaxChunk /\ isolation = 0 /\ unattempted = 0
  /\ stopMode = "no" /\ laneThread = "running"

\* The counters of C go up by n.
Counted(C, n) == [c \in Counters |-> count[c] + IF c \in C THEN n ELSE 0]

Total(numbers) ==
  LET sum[n \in 0..Len(numbers)] == IF n = 0 THEN 0 ELSE sum[n - 1] + numbers[n]
  IN  sum[Len(numbers)]

LogicalRows(rows) == Total([i \in DOMAIN rows |-> rows[i].logical])

-----------------------------------------------------------------------------
(* submit, path by path, in the order of the code *)

Offer ==
  /\ count.submitted < MaxRows
  /\ UNCHANGED <<inflight, stored, ceiling, isolation, unattempted, stopMode,
                 laneThread>>

Token == count.submitted + 1

\* Refused before admission: after a stop, by a merge hook that raises, or at
\* the hard bound outside every policy.
SubmitAfterStop ==
  /\ Offer
  /\ stopMode # "no"
  /\ count' = Counted({"submitted", "refused"}, 1)
  /\ UNCHANGED <<queue, eventSeen, stateSeen>>

SubmitDuplicate ==
  /\ Offer
  /\ stopMode = "no"
  /\ eventSeen # {}
  /\ count' = Counted({"submitted", "coalesced", "deduplicated"}, 1)
  /\ UNCHANGED <<queue, eventSeen, stateSeen>>

SubmitRepeatedState ==
  /\ Offer
  /\ stopMode = "no"
  /\ stateSeen.value # None
  /\ count' = Counted({"submitted", "coalesced"}, 1)
  /\ UNCHANGED <<queue, eventSeen, stateSeen>>

OpenBucket == {i \in DOMAIN queue : queue[i].bucket}

\* A bucket row merges into the queued row of its time, or the merge raises.
SubmitMerged ==
  /\ Offer
  /\ stopMode = "no"
  /\ \E i \in OpenBucket :
       \/ /\ queue' = [queue EXCEPT ![i].logical = @ + 1]
          /\ count' = Counted({"submitted", "aggregated", "coalesced"}, 1)
       \/ /\ count' = Counted({"submitted", "refused"}, 1)
          /\ UNCHANGED queue
  /\ UNCHANGED <<eventSeen, stateSeen>>

\* The row and the suppression entries it writes
EventRow(e) == [token |-> Token, logical |-> 1, events |-> {e}, state |-> None,
                bucket |-> FALSE, tries |-> 0]
StateRow(v) == [token |-> Token, logical |-> 1, events |-> {}, state |-> v,
                bucket |-> FALSE, tries |-> 0]
BucketRow == [token |-> Token, logical |-> 1, events |-> {}, state |-> None,
              bucket |-> TRUE, tries |-> 0]

OfferedRows ==
  {EventRow(e) : e \in EventKeys \ eventSeen}
    \cup {StateRow(v) : v \in StateValues \ {stateSeen.value}}
    \cup IF OpenBucket = {} THEN {BucketRow} ELSE {}

UnderPressure == Len(queue) >= HighWater

\* Under pressure a state row replaces the queued one instead.
Admissible ==
  {row \in OfferedRows :
     UnderPressure /\ row.state # None =>
       \A i \in DOMAIN queue : queue[i].state = None}

\* Overload may also be active below the high-water mark, so a policy may
\* apply at any depth and must apply from the mark on (SAMPLE keeps some).
\* LATEST: the newest queued state row carries the new value instead.
SubmitLatest ==
  /\ Offer
  /\ stopMode = "no"
  /\ \E v \in StateValues \ {stateSeen.value} :
       LET states == {i \in DOMAIN queue : queue[i].state # None}
       IN  /\ states # {}
           /\ queue' = [queue EXCEPT ![Max(states)].state = v]
           /\ stateSeen' = [value |-> v, token |-> queue[Max(states)].token]
  /\ count' = Counted({"submitted", "coalesced"}, 1)
  /\ UNCHANGED eventSeen

\* SAMPLE and DEFER resolve an event row without admitting it.
SubmitShed ==
  /\ Offer
  /\ stopMode = "no"
  /\ eventSeen # EventKeys
  /\ \E policy \in {"sampled", "deferred"} :
       count' = Counted({"submitted", policy}, 1)
  /\ UNCHANGED <<queue, eventSeen, stateSeen>>

SubmitOverflow ==
  /\ Offer
  /\ stopMode = "no"
  /\ Admissible # {}
  /\ Len(queue) >= Capacity
  /\ count' = Counted({"submitted", "refused"}, 1)
  /\ UNCHANGED <<queue, eventSeen, stateSeen>>

SubmitAdmitted ==
  /\ Offer
  /\ stopMode = "no"
  /\ Len(queue) < Capacity
  /\ \E row \in Admissible :
       /\ queue' = Append(queue, row)
       /\ eventSeen' = eventSeen \cup row.events
       /\ stateSeen' = IF row.state = None THEN stateSeen
                       ELSE [value |-> row.state, token |-> row.token]
  /\ count' = Counted({"submitted", "admitted"}, 1)

\* The caches are bounded and the coalescing interval ends.
ForgetEvent ==
  /\ \E e \in eventSeen : eventSeen' = eventSeen \ {e}
  /\ UNCHANGED <<queue, inflight, stateSeen, stored, count, ceiling, isolation,
                 unattempted, stopMode, laneThread>>

ForgetState ==
  /\ stateSeen.value # None
  /\ stateSeen' = [value |-> None, token |-> 0]
  /\ UNCHANGED <<queue, inflight, eventSeen, stored, count, ceiling, isolation,
                 unattempted, stopMode, laneThread>>

\* _sync_controller_locked, run by any submission: a new chunk size
Resize ==
  /\ \E c \in 1..MaxChunk : ceiling' = c
  /\ UNCHANGED <<laneRows, count, isolation, unattempted, stopMode, laneThread>>

-----------------------------------------------------------------------------
(* The aggregation thread *)

DispatchCeiling ==
  IF isolation = 0 THEN ceiling ELSE Min({ceiling, isolation})

\* _run up to _take_batch_locked.  Until a stop, a batch may wait for more
\* rows or for a backoff to end, so any number of queued rows up to the
\* ceiling is taken.
TakeBatch ==
  /\ laneThread = "running"
  /\ inflight = << >> /\ queue # << >>
  /\ stopMode # "force"
  /\ LET n == Min({DispatchCeiling, Len(queue)})
     IN  /\ inflight' = SubSeq(queue, 1, n)
         /\ queue' = SubSeq(queue, n + 1, Len(queue))
  /\ UNCHANGED <<eventSeen, stateSeen, stored, count, ceiling, isolation,
                 unattempted, stopMode, laneThread>>

\* Seeded fault: the state entry of a lost row stays.
RollbackEvents(rows) ==
  /\ eventSeen' = eventSeen \ UNION {rows[i].events : i \in DOMAIN rows}
  /\ UNCHANGED stateSeen

\* _rollback_admission_locked: the entries the lost rows wrote are forgotten,
\* a state only while the entry is still theirs.
Rollback(rows) ==
  /\ eventSeen' = eventSeen \ UNION {rows[i].events : i \in DOMAIN rows}
  /\ stateSeen' =
       IF \E i \in DOMAIN rows : /\ rows[i].state = stateSeen.value
                                 /\ rows[i].token = stateSeen.token
       THEN [value |-> None, token |-> 0]
       ELSE stateSeen

Entries(rows) ==
  UNION {rows[i].events \cup ({rows[i].state} \ {None}) : i \in DOMAIN rows}

\* The chunks before the failing one are committed: the first w rows.
Written(w) == SubSeq(inflight, 1, w)
Failed(w) == SubSeq(inflight, w + 1, Len(inflight))

\* Seeded fault: no retry is consumed.
RequeueAlways(w, consume) ==
  LET kept == IF stopMode = "force" THEN << >> ELSE Failed(w)
      abandoned == IF stopMode = "force" THEN Failed(w) ELSE << >>
  IN  /\ queue' = [i \in DOMAIN kept |-> [kept[i] EXCEPT !.bucket = FALSE]] \o queue
      /\ Rollback(abandoned)
      /\ count' = [Counted({"lostAdmitted"}, LogicalRows(abandoned)) EXCEPT
                     !.written = @ + LogicalRows(Written(w))]
      /\ UNCHANGED unattempted

\* The rows at some places, in their order
Picked(rows, places) ==
  LET picked[n \in 0..Len(rows)] ==
        IF n = 0 THEN << >>
        ELSE IF n \in places THEN Append(picked[n - 1], rows[n]) ELSE picked[n - 1]
  IN  picked[Len(rows)]

\* _requeue_locked: rows with retries left return to the head of the queue
\* as rows of their own, the others are lost.
Requeue(w, consume) ==
  LET rows == Failed(w)
      gone == {i \in DOMAIN rows :
                 stopMode = "force" \/ (consume /\ rows[i].tries >= RetryBudget)}
      kept == Picked(rows, DOMAIN rows \ gone)
      abandoned == Picked(rows, gone)
      again(i) == [kept[i] EXCEPT !.bucket = FALSE,
                                  !.tries = IF consume THEN @ + 1 ELSE @]
  IN  /\ queue' = [i \in DOMAIN kept |-> again(i)] \o queue
      /\ Rollback(abandoned)
      /\ count' = [Counted({"lostAdmitted"}, LogicalRows(abandoned)) EXCEPT
                     !.written = @ + LogicalRows(Written(w))]
      /\ UNCHANGED unattempted

\* Rows that leave the lane: all those behind the failing chunk included
DropFailed(w, chunk, counter) ==
  /\ Rollback(Failed(w))
  /\ count' = [Counted({counter}, LogicalRows(Failed(w))) EXCEPT
                 !.written = @ + LogicalRows(Written(w))]
  /\ unattempted' =
       unattempted + LogicalRows(SubSeq(inflight, w + chunk + 1, Len(inflight)))
  /\ UNCHANGED queue

SettleRows(w) ==
  /\ inflight # << >>
  /\ inflight' = << >>
  /\ stored' = stored \cup Entries(Written(w))
  /\ UNCHANGED <<ceiling, stopMode, laneThread>>

Committed ==
  /\ SettleRows(Len(inflight))
  /\ count' = Counted({"written"}, LogicalRows(inflight))
  /\ isolation' = 0
  /\ UNCHANGED <<queue, eventSeen, stateSeen, unattempted>>

\* _dispatch reads the ceiling again, after the batch was taken: w rows went
\* in whole chunks and chunk rows are in the one that failed.
FailsAt(w, chunk) ==
  /\ w < Len(inflight)
  /\ w % DispatchCeiling = 0
  /\ chunk = Min({DispatchCeiling, Len(inflight) - w})

\* The sink yields to critical work, or a batch misses its deadline.
Yielded ==
  \E w \in 0..MaxChunk, chunk \in 1..MaxChunk :
    /\ FailsAt(w, chunk)
    /\ SettleRows(w)
    /\ Requeue(w, TRUE)
    /\ UNCHANGED isolation

\* A batch deferred to a checkpoint consumes no retry.
DeferredToCheckpoint ==
  \E w \in 0..MaxChunk, chunk \in 1..MaxChunk :
    /\ FailsAt(w, chunk)
    /\ SettleRows(w)
    /\ Requeue(w, FALSE)
    /\ UNCHANGED isolation

\* A collision with a stored row: a proven duplicate, or a conflict over the
\* evidence.  A chunk of several rows is bisected first.
Collided ==
  \E w \in 0..MaxChunk, chunk \in 1..MaxChunk, proven \in BOOLEAN :
    /\ FailsAt(w, chunk)
    /\ SettleRows(w)
    /\ IF chunk > 1 /\ stopMode # "force"
       THEN Requeue(w, TRUE) /\ isolation' = chunk \div 2
       ELSE /\ DropFailed(w, chunk,
                          IF proven THEN "policyResolved" ELSE "lostAdmitted")
            /\ UNCHANGED isolation

SinkFailed ==
  \E w \in 0..MaxChunk, chunk \in 1..MaxChunk :
    /\ FailsAt(w, chunk)
    /\ SettleRows(w)
    /\ DropFailed(w, chunk, "lostAdmitted")
    /\ UNCHANGED isolation

LaneEnds ==
  /\ laneThread = "running"
  /\ inflight = << >>
  /\ stopMode = "force" \/ (stopMode = "drain" /\ queue = << >>)
  /\ laneThread' = "stopped"
  /\ UNCHANGED <<laneRows, count, ceiling, isolation, unattempted, stopMode>>

-----------------------------------------------------------------------------
(* stop *)

StopDraining ==
  /\ stopMode = "no"
  /\ stopMode' = "drain"
  /\ UNCHANGED <<laneRows, count, ceiling, isolation, unattempted, laneThread>>

\* A first stop, or the escalation of a draining one while the thread lives
StopForced ==
  /\ stopMode # "force" /\ laneThread = "running"
  /\ stopMode' = "force"
  /\ queue' = << >>
  /\ Rollback(queue)
  /\ count' = Counted({"lostAdmitted"}, LogicalRows(queue))
  /\ UNCHANGED <<inflight, stored, ceiling, isolation, unattempted, laneThread>>

SinkAnswers == Committed \/ Yielded \/ Collided \/ SinkFailed

TelemetryNext ==
  \/ SubmitAfterStop \/ SubmitDuplicate \/ SubmitRepeatedState \/ SubmitMerged
  \/ SubmitLatest \/ SubmitShed \/ SubmitOverflow \/ SubmitAdmitted
  \/ ForgetEvent \/ ForgetState \/ Resize
  \/ TakeBatch \/ SinkAnswers \/ DeferredToCheckpoint \/ LaneEnds
  \/ StopDraining \/ StopForced

TelemetrySpec == TelemetryInit /\ [][TelemetryNext]_telemetryVars

-----------------------------------------------------------------------------
(* Properties *)

PendingRows ==
  [token : 1..MaxRows, logical : 1..MaxRows, events : SUBSET EventKeys,
   state : StateValues \cup {None}, bucket : BOOLEAN, tries : 0..RetryBudget]

TelemetryTypeOK ==
  /\ queue \in Seq(PendingRows) /\ inflight \in Seq(PendingRows)
  /\ Len(inflight) <= MaxChunk
  /\ eventSeen \subseteq EventKeys
  /\ stateSeen \in [value : StateValues \cup {None}, token : 0..MaxRows]
  /\ stored \subseteq EventKeys \cup StateValues
  /\ count \in [Counters -> Nat]
  /\ ceiling \in 1..MaxChunk /\ isolation \in 0..MaxChunk
  /\ unattempted \in Nat
  /\ stopMode \in {"no", "drain", "force"}
  /\ laneThread \in {"running", "stopped"}

Inventory == LogicalRows(queue) + LogicalRows(inflight)

\* Every row that entered the lane is committed, lost, resolved by a policy
\* or still held, at every instant the lock is free, whatever was requeued,
\* written in part, merged or discarded (_ConservationSnapshot.gap: "Zero in
\* a correct lane at every instant").
Conserved ==
  count.admitted + count.aggregated =
    count.written + count.lostAdmitted + count.policyResolved + Inventory

\* _reconcile_locked, with the sign of the code's mismatch
Mismatch ==
  count.submitted -
    (count.written + Inventory + count.sampled + count.coalesced
      + count.policyResolved + count.deduplicated + count.deferred
      + count.lostAdmitted + count.refused - count.aggregated)

\* reconcile: every submitted row is in exactly one terminal or in-flight
\* state, so the mismatch is zero.
Reconciles == Mismatch = 0

\* A row the lane suppresses because it has seen it before is stored or is
\* still on its way: losing a row forgets the entries it wrote
\* (_rollback_admission_locked), so a later copy of it gets through.
SuppressionBacked ==
  /\ eventSeen \subseteq stored \cup Entries(queue) \cup Entries(inflight)
  /\ stateSeen.value # None =>
       stateSeen.value \in stored \cup Entries(queue) \cup Entries(inflight)

\* No row is lost without being counted, nor suppressed for a copy that was.
RowsAccounted == TelemetryTypeOK /\ Conserved /\ SuppressionBacked

\* A failure of the sink costs only rows of the one physical chunk it rolled
\* back ("a single failure can never destroy rows it did not attempt").
OnlyAttemptedLost == unattempted = 0

\* What a stop still has to wait for: the retries left to the rows held
RetriesLeft(rows) == Total([i \in DOMAIN rows |-> RetryBudget - rows[i].tries + 1])

\* A stop comes to an end: every answer of the sink, a refusal too, uses up a
\* retry or a row, and nothing comes in (stop, _requeue_locked).
StopProgresses ==
  [][stopMode # "no" /\ SinkAnswers =>
       RetriesLeft(queue') + RetriesLeft(inflight') <
         RetriesLeft(queue) + RetriesLeft(inflight)]_telemetryVars
=============================================================================
