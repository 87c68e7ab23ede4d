----------------------------- MODULE StoreWorker -----------------------------
(***************************************************************************)
(* _DedicatedStoreWorker (src/lite_frequency_v4/workers.py): one bounded   *)
(* queue, one thread that owns a store, clients that wait for a result no  *)
(* longer than their deadline, and a stop that drains.  Every worker of    *)
(* the runtime is one of these: reads, reports, integrity, maintenance and *)
(* runtime files.                                                          *)
(***************************************************************************)
EXTENDS Integers, Sequences, SequencesExt, FiniteSets

CONSTANTS
  Jobs,       \* calls of submit
  JobCapacity    \* queue_capacity

\* _STOP, which no caller can submit
Stop == "STOP"

ASSUME WorkerAssumption ==
  JobCapacity \in Nat \ {0} /\ Stop \notin Jobs

VARIABLES
  state,      \* _state
  accepting,  \* _accepting
  jobQueue,      \* _queue, of jobs and Stop
  thread,     \* where _thread_main is
  future,     \* what a job's future holds
  client,     \* what its caller sees
  expired,    \* jobs whose deadline has passed
  stopping,   \* no call of stop, one seeking admission, given up, or _stop_enqueued
  overtaken,  \* history: the thread set RUNNING over the STOPPING of a stop
  tally       \* _submitted, _completed, _failed, _cancelled

workerVars == <<state, accepting, jobQueue, thread, future, client, expired,
                stopping, overtaken, tally>>

ThreadIdle == [at |-> "idle"]
ResolvedFutures == {"result", "error", "cancelled"}

WorkerInit ==
  /\ state = "NEW" /\ accepting = FALSE /\ jobQueue = << >>
  /\ thread = [at |-> "none"]
  /\ future = [j \in Jobs |-> "none"] /\ client = [j \in Jobs |-> "none"]
  /\ expired = {} /\ stopping = "no" /\ overtaken = FALSE
  /\ tally = [submitted |-> 0, completed |-> 0, failed |-> 0, cancelled |-> 0]

-----------------------------------------------------------------------------
(* Clients *)

\* _begin_start
Start ==
  /\ state = "NEW"
  /\ state' = "STARTING" /\ thread' = [at |-> "opening"]
  /\ UNCHANGED <<accepting, jobQueue, future, client, expired, stopping, overtaken, tally>>

\* submit: a full queue or a worker that does not accept raises
Submit(j) ==
  /\ client[j] = "none"
  /\ IF state = "RUNNING" /\ accepting /\ Len(jobQueue) < JobCapacity
     THEN /\ jobQueue' = Append(jobQueue, j)
          /\ future' = [future EXCEPT ![j] = "pending"]
          /\ client' = [client EXCEPT ![j] = "waiting"]
          /\ tally' = [tally EXCEPT !.submitted = @ + 1]
     ELSE /\ client' = [client EXCEPT ![j] = "refused"]
          /\ UNCHANGED <<jobQueue, future, tally>>
  /\ UNCHANGED <<state, accepting, thread, expired, stopping, overtaken>>

\* The deadline starts when the job is queued
Expire(j) ==
  /\ future[j] \in {"pending", "running"} /\ j \notin expired
  /\ expired' = expired \cup {j}
  /\ UNCHANGED <<state, accepting, jobQueue, thread, future, client, stopping, overtaken, tally>>

\* _await_result and _sync_result.  The client's own wait begins after the job
\* is queued, so it ends no earlier than the deadline.
Answer(j) ==
  /\ client[j] = "waiting" /\ future[j] \in ResolvedFutures
  /\ client' = [client EXCEPT ![j] = future[j]]
  /\ UNCHANGED <<state, accepting, jobQueue, thread, future, expired, stopping, overtaken, tally>>

GiveUp(j) ==
  /\ client[j] = "waiting" /\ j \in expired /\ future[j] \notin ResolvedFutures
  /\ client' = [client EXCEPT ![j] = "timed out"]
  /\ UNCHANGED <<state, accepting, jobQueue, thread, future, expired, stopping, overtaken, tally>>

\* A client without a timeout is cancelled with its future, while it is queued
Cancel(j) ==
  /\ client[j] = "waiting" /\ future[j] = "pending" /\ j \notin expired
  /\ future' = [future EXCEPT ![j] = "cancelled"]
  /\ client' = [client EXCEPT ![j] = "cancelled"]
  /\ UNCHANGED <<state, accepting, jobQueue, thread, expired, stopping, overtaken, tally>>

\* _mark_stopping, in any state but the last two, STARTING too
MarkStopping ==
  /\ state \notin {"STOPPED", "FAILED"}
  /\ state' = IF state = "NEW" THEN "STOPPED" ELSE "STOPPING"
  /\ accepting' = FALSE
  /\ stopping' = IF state = "NEW" THEN "given up"
                 ELSE IF stopping = "enqueued" THEN "enqueued" ELSE "calling"
  /\ UNCHANGED <<jobQueue, thread, future, client, expired, overtaken, tally>>

\* _enqueue_stop: once, when the queue has room
EnqueueStop ==
  /\ stopping = "calling" /\ thread.at # "stopped" /\ Len(jobQueue) < JobCapacity
  /\ jobQueue' = Append(jobQueue, Stop) /\ stopping' = "enqueued"
  /\ UNCHANGED <<state, accepting, thread, future, client, expired, overtaken, tally>>

\* The deadline passes with the queue full, or the thread has ended without the
\* stop.  Nothing enqueues the stop again, unless stop is called again.
StopGivesUp ==
  /\ stopping = "calling" /\ (Len(jobQueue) >= JobCapacity \/ thread.at = "stopped")
  /\ stopping' = "given up"
  /\ UNCHANGED <<state, accepting, jobQueue, thread, future, client, expired, overtaken, tally>>

-----------------------------------------------------------------------------
(* The thread *)

\* The store is open.  What a stop did to the state meanwhile is overwritten.
Opened ==
  /\ thread.at = "opening"
  /\ state' = "RUNNING" /\ accepting' = TRUE /\ thread' = ThreadIdle
  /\ overtaken' = (state = "STOPPING")
  /\ UNCHANGED <<jobQueue, future, client, expired, stopping, tally>>

\* The factory raises, or later the loop itself does
Crash ==
  /\ thread.at \in {"opening", "idle"}
  /\ state' = "FAILED" /\ accepting' = FALSE /\ thread' = [at |-> "closing"]
  /\ UNCHANGED <<jobQueue, future, client, expired, stopping, overtaken, tally>>

\* Seeded fault: a cancelled job leaves the queue uncounted.
TakeJobUncounted ==
  /\ thread.at = "idle" /\ jobQueue # << >> /\ Head(jobQueue) # Stop
  /\ jobQueue' = Tail(jobQueue)
  /\ LET j == Head(jobQueue)
     IN  IF future[j] = "cancelled"
         THEN UNCHANGED <<thread, future>>
         ELSE /\ future' = [future EXCEPT ![j] = "running"]
              /\ thread' = [at |-> IF j \in expired THEN "late" ELSE "running", job |-> j]
  /\ UNCHANGED <<state, accepting, client, expired, stopping, overtaken, tally>>

\* _execute_item up to the operation: a job cancelled in the queue is skipped,
\* and one past its deadline is not started
TakeJob ==
  /\ thread.at = "idle" /\ jobQueue # << >> /\ Head(jobQueue) # Stop
  /\ jobQueue' = Tail(jobQueue)
  /\ LET j == Head(jobQueue)
     IN  IF future[j] = "cancelled"
         THEN /\ tally' = [tally EXCEPT !.cancelled = @ + 1]
              /\ UNCHANGED <<thread, future>>
         ELSE /\ future' = [future EXCEPT ![j] = "running"]
              /\ thread' = [at |-> IF j \in expired THEN "late" ELSE "running", job |-> j]
              /\ UNCHANGED tally
  /\ UNCHANGED <<state, accepting, client, expired, stopping, overtaken>>

\* The rest of _execute_item: the operation returned or raised, the deadline
\* passed meanwhile, or a leaked transaction was rolled back
FinishJob ==
  /\ thread.at \in {"running", "late"}
  /\ \E outcome \in IF thread.at = "late" \/ thread.job \in expired
                    THEN {"error"} ELSE {"result", "error"} :
       /\ future' = [future EXCEPT ![thread.job] = outcome]
       /\ tally' = IF outcome = "result" THEN [tally EXCEPT !.completed = @ + 1]
                   ELSE [tally EXCEPT !.failed = @ + 1]
  /\ thread' = ThreadIdle
  /\ UNCHANGED <<state, accepting, jobQueue, client, expired, stopping, overtaken>>

TakeStop ==
  /\ thread.at = "idle" /\ jobQueue # << >> /\ Head(jobQueue) = Stop
  /\ jobQueue' = Tail(jobQueue) /\ thread' = [at |-> "closing"]
  /\ UNCHANGED <<state, accepting, future, client, expired, stopping, overtaken, tally>>

\* Seeded fault: what is queued behind a stop is dropped.
DropPending ==
  /\ thread.at = "closing"
  /\ jobQueue' = << >> /\ thread' = [at |-> "closed"]
  /\ UNCHANGED <<state, accepting, future, client, expired, stopping, overtaken, tally>>

\* _fail_pending empties the queue; the state is settled in a step of its own
FailPending ==
  /\ thread.at = "closing"
  /\ future' = [j \in Jobs |->
       IF j \in ToSet(jobQueue) /\ future[j] = "pending" THEN "error" ELSE future[j]]
  /\ jobQueue' = << >> /\ thread' = [at |-> "closed"]
  /\ UNCHANGED <<state, accepting, client, expired, stopping, overtaken, tally>>

ThreadEnds ==
  /\ thread.at = "closed"
  /\ \E closed \in BOOLEAN :
       state' = IF closed /\ state # "FAILED" THEN "STOPPED" ELSE "FAILED"
  /\ accepting' = FALSE /\ thread' = [at |-> "stopped"]
  /\ UNCHANGED <<jobQueue, future, client, expired, stopping, overtaken, tally>>

ThreadStep == Opened \/ TakeJob \/ FinishJob \/ TakeStop \/ FailPending \/ ThreadEnds

WorkerNext ==
  \/ Start \/ MarkStopping \/ EnqueueStop \/ StopGivesUp
  \/ \E j \in Jobs : Submit(j) \/ Expire(j) \/ Answer(j) \/ GiveUp(j) \/ Cancel(j)
  \/ ThreadStep \/ Crash

\* The thread runs, and a call of stop tries until its deadline
WorkerFairness ==
  /\ WF_workerVars(ThreadStep)
  /\ WF_workerVars(EnqueueStop \/ StopGivesUp)

WorkerSpec == WorkerInit /\ [][WorkerNext]_workerVars /\ WorkerFairness

-----------------------------------------------------------------------------
(* Properties *)

WorkerTypeOK ==
  /\ state \in {"NEW", "STARTING", "RUNNING", "STOPPING", "STOPPED", "FAILED"}
  /\ {accepting, overtaken} \subseteq BOOLEAN
  /\ stopping \in {"no", "calling", "given up", "enqueued"}
  /\ Len(jobQueue) <= JobCapacity /\ ToSet(jobQueue) \subseteq Jobs \cup {Stop}
  /\ future \in [Jobs -> {"none", "pending", "running"} \cup ResolvedFutures]
  /\ expired \subseteq Jobs

\* A job whose caller has given up on it does not start: only work begun before
\* the deadline can still end unseen (_execute_item).
AbandonedNeverStarts ==
  [][\A j \in Jobs :
       client[j] \in {"timed out", "cancelled"} =>
         ~(thread'.at = "running" /\ thread'.job = j /\ thread.at = "idle")]_workerVars

\* Every job admitted is counted once: queued, running, or ended in one way.
\* Those a stop or a crash leaves in the queue end uncounted.
JobsCounted ==
  LET ended == tally.completed + tally.failed + tally.cancelled
      held == Cardinality({j \in Jobs : j \in ToSet(jobQueue)})
              + (IF thread.at \in {"running", "late"} THEN 1 ELSE 0)
  IN  IF thread.at \in {"closed", "stopped"} THEN ended <= tally.submitted
      ELSE tally.submitted = ended + held

\* A future is left pending by a thread that is through only if a stop came while
\* the store was being opened: RUNNING then overwrites STOPPING (_thread_main), and
\* a job can be admitted after the thread has emptied its queue for the last time.
NoneLeftBehind ==
  \A j \in Jobs :
    future[j] = "pending" /\ thread.at \in {"closed", "stopped"} => overtaken

\* "Reject new jobs" (stop): once a stop was called no job is admitted, with the
\* same exception.
StopRejects ==
  [][stopping # "no" /\ ~overtaken => tally'.submitted = tally.submitted]_workerVars

\* "drain accepted jobs": a job that is pending while the thread has its queue yet
\* to empty is resolved in the end, by the thread or by its stop or crash.
EveryJobResolved ==
  \A j \in Jobs :
    future[j] = "pending" /\ thread.at \notin {"closed", "stopped"}
      ~> future[j] \in ResolvedFutures

\* A call of stop ends: it gives up on a full queue at its deadline, or the thread
\* stops, whatever is queued before the stop, running or failing.
StopCompletes ==
  stopping = "calling" \/ Stop \in ToSet(jobQueue)
    ~> stopping = "given up" \/ thread.at = "stopped"

\* Jobs are counted at every moment, none starts for nobody, and a stop that is
\* not overtaken admits no job and leaves none behind.
WorkerSound ==
  [](WorkerTypeOK /\ JobsCounted /\ NoneLeftBehind) /\ AbandonedNeverStarts /\ StopRejects

\* Nobody waits for ever: neither the clients of the jobs nor of the stop.
WorkerAnswers == EveryJobResolved /\ StopCompletes

=============================================================================
