------------------------- MODULE PersistenceWriter -------------------------
(***************************************************************************)
(* V4PersistenceWriter (lite_frequency_v4/persistence.py): the bounded     *)
(* scheduler, the durable command journal and the writer thread that turns *)
(* each accepted command into one SQLite transaction.                      *)
(*                                                                         *)
(* A command is a submission: it has its own command id and shares an      *)
(* idempotency key with its resubmissions.  Journal rows survive a crash;  *)
(* queue, counters, registry, gate and futures do not.  Each transaction   *)
(* and each block under _metrics_lock is one step, so that submitting      *)
(* threads interleave with the writer thread where the code lets them.  The *)
(* critical lane's calls of the write gate are made here; the other lanes  *)
(* are those of WriteLanes.                                                *)
(*                                                                         *)
(* A busy error means that nothing was applied, except at the mutation's   *)
(* commit, where the code prepares for an acknowledgement that is lost.    *)
(* The counters of all commands move with those of the trade-critical ones *)
(* and are left out, as are rates, latencies and payload compaction.       *)
(***************************************************************************)
EXTENDS WriteGate, Sequences, FiniteSets

CONSTANTS
  Commands,       \* submissions
  Keys,           \* idempotency keys
  OrderingKeys,
  Idem,           \* [Commands -> Keys]
  Content,        \* what is hashed: method and payload
  OrderingKey,    \* [Commands -> OrderingKeys]
  Priority,       \* [Commands -> Nat], lower first
  TradeCritical,  \* the commands _is_trade_critical holds of
  MaxAttempts,    \* V4PersistenceCommand.max_attempts
  Capacity,       \* writer queue capacity
  MaxFaults,      \* bound: database errors per behaviour
  MaxCrashes      \* bound: crashes per behaviour

ASSUME CommandsAssumption ==
  /\ IsFiniteSet(Commands)
  /\ Idem \in [Commands -> Keys]
  /\ OrderingKey \in [Commands -> OrderingKeys]
  /\ Priority \in [Commands -> Nat]
  /\ DOMAIN Content = Commands
  /\ TradeCritical \subseteq Commands
  /\ "none" \notin Commands
ASSUME BoundsAssumption ==
  /\ MaxAttempts \in Nat \ {0}
  /\ Capacity \in Nat \ {0}
  /\ MaxFaults \in Nat
  /\ MaxCrashes \in Nat

VARIABLES
  journal,    \* persistence_commands: key -> row, status NONE if absent
  applied,    \* commands whose mutation is durable, in commit order
  submitPc,   \* progress of each call of submit
  future,     \* what each command's future holds
  ticket,     \* envelope sequence number, 0 before it is drawn
  accepted,   \* commands in the order put accepted them (history)
  queue,      \* ordering key -> waiting commands
  closing,    \* the scheduler refuses commands
  ready,      \* start-up finished: submit may proceed
  state,      \* published writer state
  held,       \* _queued_trade_critical
  unconfirmed,\* journal-side trade-critical counter
  inflight,   \* _inflight_commands
  writerPc, current, attempt,
  local,      \* locals of _process: replay, journalOpen, hold, known, final
  faults, crashes

durable == <<journal, applied>>
submitVars == <<submitPc, ticket, accepted>>
countVars == <<held, unconfirmed, inflight, state>>
writerVars == <<writerPc, current, attempt, local>>
vars == <<gateVars, durable, submitVars, future, queue, closing, ready,
          countVars, writerVars, faults, crashes>>

SubmitStates == {"new", "registered", "put", "accounted", "refused", "lost"}
FutureStates ==
  {"none", "pending", "result", "failed", "unknown", "dropped", "lost"}
WriterStates ==
  {"start", "recover", "reconcile", "idle", "acquire", "journal", "unhold", "replay", "check",
   "commit", "ack", "finalize", "unholdFailed", "fail", "release",
   "failing", "dead", "stopped"}
StartStates == {"start", "recover", "reconcile"}
OpenStatuses == {"SUBMITTED", "EXECUTING"}
Statuses == {"NONE", "SUBMITTED", "EXECUTING", "COMMITTED", "FAILED"}

NoLocals == [replay |-> FALSE, journalOpen |-> FALSE, hold |-> FALSE,
             known |-> FALSE, final |-> FALSE]
NoRow == [status |-> "NONE", cmd |-> "none"]

Row(c) == journal[Idem[c]]
InScheduler == UNION {{queue[k][i] : i \in DOMAIN queue[k]} : k \in OrderingKeys}
Depth == Cardinality(InScheduler)
CountTC(c) == IF c \in TradeCritical THEN 1 ELSE 0

\* a database error other than a business rejection
Fault == faults < MaxFaults /\ faults' = faults + 1

Init ==
  /\ GateInit
  /\ journal = [k \in Keys |-> NoRow]
  /\ applied = <<>>
  /\ submitPc = [c \in Commands |-> "new"]
  /\ future = [c \in Commands |-> "none"]
  /\ ticket = [c \in Commands |-> 0]
  /\ accepted = <<>>
  /\ queue = [k \in OrderingKeys |-> <<>>]
  /\ closing = FALSE
  /\ ready = FALSE
  /\ state = "NEW"
  /\ held = 0
  /\ unconfirmed = 0
  /\ inflight = {}
  /\ writerPc = "start"
  /\ current = {}
  /\ attempt = 0
  /\ local = NoLocals
  /\ faults = 0
  /\ crashes = 0

-----------------------------------------------------------------------------
(* submit, on the caller's thread *)

Submit(c, from, to) ==
  /\ submitPc[c] = from
  /\ submitPc' = [submitPc EXCEPT ![c] = to]
  /\ UNCHANGED <<durable, closing, ready, writerVars, faults, crashes>>

\* draw a sequence number, then register with the gate
Register(c) ==
  /\ ready
  /\ Submit(c, "new", "registered")
  /\ ticket' = [ticket EXCEPT ![c] =
                  1 + Cardinality({d \in Commands : ticket[d] > 0})]
  /\ RegisterCritical
  /\ UNCHANGED <<accepted, future, queue, countVars>>

\* Seeded fault: the newest command of a key goes first.
PutFront(c) ==
  /\ ~closing
  /\ Depth < Capacity
  /\ Submit(c, "registered", "put")
  /\ queue' = [queue EXCEPT ![OrderingKey[c]] = <<c>> \o @]
  /\ accepted' = Append(accepted, c)
  /\ future' = [future EXCEPT ![c] = "pending"]
  /\ UNCHANGED <<gateVars, ticket, countVars>>

Put(c) ==
  /\ ~closing
  /\ Depth < Capacity
  /\ Submit(c, "registered", "put")
  /\ queue' = [queue EXCEPT ![OrderingKey[c]] = Append(@, c)]
  /\ accepted' = Append(accepted, c)
  /\ future' = [future EXCEPT ![c] = "pending"]
  /\ UNCHANGED <<gateVars, ticket, countVars>>

Refuse(c) ==
  /\ closing \/ Depth >= Capacity
  /\ Submit(c, "registered", "refused")
  /\ CancelCritical
  /\ UNCHANGED <<accepted, ticket, future, queue, countVars>>

\* after put returned: the submission counters and the in-flight registry
Account(c) ==
  /\ Submit(c, "put", "accounted")
  /\ held' = held + CountTC(c)
  /\ inflight' = inflight \cup {c}
  /\ UNCHANGED <<gateVars, accepted, ticket, future, queue, unconfirmed, state>>

Close ==
  /\ ~closing
  /\ closing' = TRUE
  /\ UNCHANGED <<gateVars, durable, submitVars, future, queue, ready,
                 countVars, writerVars, faults, crashes>>
-----------------------------------------------------------------------------
(* the writer thread: start-up and the scheduler *)

Goto(from, to) == writerPc = from /\ writerPc' = to

\* what no step of the writer between two commands' boundaries touches
CallerSide == <<submitVars, queue, closing, ready, crashes>>

\* the database is open: RUNNING is published, and nothing is recovered yet
Announce ==
  /\ Goto("start", "recover")
  /\ state' = "RUNNING"
  /\ UNCHANGED <<gateVars, durable, future, held, unconfirmed, inflight,
                 current, attempt, local, faults, CallerSide>>

\* _recover_incomplete: what a crash left open is failed, never replayed
Recover ==
  /\ Goto("recover", "reconcile")
  /\ journal' = [k \in Keys |->
       IF journal[k].status \in OpenStatuses
       THEN [journal[k] EXCEPT !.status = "FAILED"] ELSE journal[k]]
  /\ unconfirmed' = 0
  /\ UNCHANGED <<gateVars, applied, future, held, inflight, state, current,
                 attempt, local, faults, CallerSide>>

\* reconciliation found the tables consistent: submit may proceed
Ready ==
  /\ Goto("reconcile", "idle")
  /\ ready' = TRUE
  /\ UNCHANGED <<gateVars, durable, submitVars, future, queue, closing, countVars,
                 current, attempt, local, faults, crashes>>

\* the best head: the least (priority, sequence) over the ordering keys
Before(c, d) ==
  \/ Priority[c] < Priority[d]
  \/ Priority[c] = Priority[d] /\ ticket[c] < ticket[d]

Heads == {queue[k][1] : k \in {k \in OrderingKeys : queue[k] # <<>>}}

Get(c) ==
  /\ Goto("idle", "acquire")
  /\ c \in Heads
  /\ \A d \in Heads \ {c} : Before(c, d)
  /\ queue' = [queue EXCEPT ![OrderingKey[c]] = Tail(@)]
  /\ current' = {c}
  /\ UNCHANGED <<gateVars, durable, submitVars, future, closing, ready,
                 countVars, attempt, local, faults, crashes>>

Acquire(c) ==
  /\ c \in current
  /\ Goto("acquire", "journal")
  /\ AcquireCritical
  /\ attempt' = 1
  /\ local' = [NoLocals EXCEPT !.hold = (c \in TradeCritical)]
  /\ UNCHANGED <<durable, future, countVars, current, faults, CallerSide>>

Release ==
  /\ Goto("release", "idle")
  /\ ReleaseCritical
  /\ current' = {}
  /\ attempt' = 0
  /\ local' = NoLocals
  /\ UNCHANGED <<durable, future, countVars, faults, CallerSide>>

Stop ==
  /\ closing /\ InScheduler = {}
  /\ Goto("idle", "stopped")
  /\ state' = "STOPPED"
  /\ UNCHANGED <<gateVars, durable, future, held, unconfirmed, inflight,
                 current, attempt, local, faults, CallerSide>>

-----------------------------------------------------------------------------
(* _process: journal admission *)

Quiet == UNCHANGED <<gateVars, future, countVars, current, CallerSide>>

\* _existing_result: a row of this key that is not a replayable commit
Blocked(c) ==
  /\ Row(c).status # "NONE"
  /\ \/ Content[Row(c).cmd] # Content[c]
     \/ Row(c).status # "COMMITTED"

JournalKnown(c) ==
  /\ c \in current
  /\ Blocked(c)
  /\ Goto("journal", "finalize")
  /\ local' = [local EXCEPT !.known = TRUE]
  /\ UNCHANGED <<durable, attempt, faults>>
  /\ Quiet

JournalReplay(c) ==
  /\ c \in current
  /\ Row(c).status = "COMMITTED" /\ ~Blocked(c)
  /\ Goto("journal", "unhold")
  /\ local' = [local EXCEPT !.replay = TRUE]
  /\ UNCHANGED <<durable, attempt, faults>>
  /\ Quiet

JournalInsert(c) ==
  /\ c \in current
  /\ Row(c).status = "NONE"
  /\ Goto("journal", "unhold")
  /\ journal' = [journal EXCEPT ![Idem[c]] = [status |-> "SUBMITTED", cmd |-> c]]
  /\ unconfirmed' = unconfirmed + CountTC(c)
  /\ local' = [local EXCEPT !.journalOpen = TRUE]
  /\ attempt' = 1
  /\ UNCHANGED <<gateVars, applied, future, held, inflight, state, current,
                 faults, CallerSide>>

JournalBusy(c) ==
  /\ c \in current
  /\ Row(c).status = "NONE"
  /\ Fault
  /\ IF attempt < MaxAttempts
     THEN Goto("journal", "journal") /\ attempt' = attempt + 1
     ELSE Goto("journal", "finalize") /\ UNCHANGED attempt
  /\ UNCHANGED <<durable, local>>
  /\ Quiet

\* an error that is not retryable; the insert may have been applied
JournalError(c) ==
  /\ c \in current
  /\ Row(c).status = "NONE"
  /\ Fault
  /\ Goto("journal", "finalize")
  /\ \/ UNCHANGED journal
     \/ journal' = [journal EXCEPT ![Idem[c]] =
                      [status |-> "SUBMITTED", cmd |-> c]]
  /\ UNCHANGED <<applied, attempt, local>>
  /\ Quiet

\* release_queue_hold: the queue-side hold ends once the journal counts
DropHold(c) ==
  held' = IF local.hold THEN DecToZero(held) ELSE held

Unhold(c) ==
  /\ c \in current
  /\ Goto("unhold", IF local.replay THEN "replay" ELSE "check")
  /\ DropHold(c)
  /\ local' = [local EXCEPT !.hold = FALSE]
  /\ UNCHANGED <<gateVars, durable, future, unconfirmed, inflight, state,
                 current, attempt, faults, CallerSide>>

Replay(c) ==
  /\ c \in current
  /\ Goto("replay", "release")
  /\ inflight' = inflight \ {c}
  /\ future' = [future EXCEPT ![c] = "result"]
  /\ UNCHANGED <<gateVars, durable, held, unconfirmed, state, current, attempt,
                 local, faults, CallerSide>>

-----------------------------------------------------------------------------
(* _process: execution attempts *)

\* a busy error starts the next attempt, or leaves the loop after the last
RetryFrom(pc) ==
  IF attempt < MaxAttempts
  THEN Goto(pc, "check") /\ attempt' = attempt + 1
  ELSE Goto(pc, "finalize") /\ UNCHANGED attempt

\* an earlier attempt's commit was durable after all: acknowledge it
CheckCommitted(c) ==
  /\ c \in current
  /\ Row(c).status = "COMMITTED"
  /\ Goto("check", "ack")
  /\ UNCHANGED <<durable, attempt, local, faults>>
  /\ Quiet

MarkExecuting(c) ==
  /\ c \in current
  /\ Row(c).status \in {"SUBMITTED", "EXECUTING"}
  /\ Goto("check", "commit")
  /\ journal' = [journal EXCEPT ![Idem[c]].status = "EXECUTING"]
  /\ UNCHANGED <<applied, attempt, local, faults>>
  /\ Quiet

MarkExecutingFails(c) ==
  /\ c \in current
  /\ Row(c).status \in {"SUBMITTED", "EXECUTING"}
  /\ Fault
  /\ RetryFrom("check") \/ (Goto("check", "finalize") /\ UNCHANGED attempt)
  /\ UNCHANGED <<durable, local>>
  /\ Quiet

\* the mutation and the COMMITTED row are one transaction
ApplyMutation(c) ==
  /\ journal' = [journal EXCEPT ![Idem[c]].status = "COMMITTED"]
  /\ applied' = Append(applied, c)

Commit(c) ==
  /\ c \in current
  /\ Goto("commit", "ack")
  /\ ApplyMutation(c)
  /\ UNCHANGED <<attempt, local, faults>>
  /\ Quiet

\* the store refuses the mutation: the transaction rolls back
Reject(c) ==
  /\ c \in current
  /\ Goto("commit", "finalize")
  /\ UNCHANGED <<durable, attempt, local, faults>>
  /\ Quiet

\* busy or fatal; in either case the commit may have been durable
CommitFails(c) ==
  /\ c \in current
  /\ Fault
  /\ RetryFrom("commit") \/ (Goto("commit", "finalize") /\ UNCHANGED attempt)
  /\ UNCHANGED durable \/ ApplyMutation(c)
  /\ UNCHANGED local
  /\ Quiet

Ack(c) ==
  /\ c \in current
  /\ Goto("ack", "release")
  /\ inflight' = inflight \ {c}
  /\ unconfirmed' = IF c \in TradeCritical THEN DecToZero(unconfirmed)
                    ELSE unconfirmed
  /\ future' = [future EXCEPT ![c] = "result"]
  /\ UNCHANGED <<gateVars, durable, held, state, current, attempt, local,
                 faults, CallerSide>>

-----------------------------------------------------------------------------
(* _process: the failure path *)

\* Seeded fault: _mark_failed overwrites a committed row.
OwnRow(c) == Row(c).cmd = c

OwnOpenRow(c) == Row(c).cmd = c /\ Row(c).status # "COMMITTED"

\* a prior row of this key needs no write; otherwise _mark_failed
Finalize(c) ==
  /\ c \in current
  /\ Goto("finalize", "unholdFailed")
  /\ IF local.known \/ ~OwnOpenRow(c)
     THEN /\ UNCHANGED journal
          /\ local' = [local EXCEPT !.final = local.known]
     ELSE /\ journal' = [journal EXCEPT ![Idem[c]].status = "FAILED"]
          /\ local' = [local EXCEPT !.final = TRUE]
  /\ UNCHANGED <<applied, attempt, faults>>
  /\ Quiet

\* the secondary journal failure is swallowed: not finalized
FinalizeFails(c) ==
  /\ c \in current
  /\ ~local.known /\ OwnOpenRow(c)
  /\ Fault
  /\ Goto("finalize", "unholdFailed")
  /\ UNCHANGED <<durable, attempt, local>>
  /\ Quiet

UnholdFailed(c) ==
  /\ c \in current
  /\ Goto("unholdFailed", "fail")
  /\ DropHold(c)
  /\ local' = [local EXCEPT !.hold = FALSE]
  /\ UNCHANGED <<gateVars, durable, future, unconfirmed, inflight, state,
                 current, attempt, faults, CallerSide>>

FailFinalized(c) ==
  /\ c \in current
  /\ local.final
  /\ Goto("fail", "release")
  /\ inflight' = inflight \ {c}
  /\ unconfirmed' = IF c \in TradeCritical THEN DecToZero(unconfirmed)
                    ELSE unconfirmed
  /\ future' = [future EXCEPT ![c] = "failed"]
  /\ UNCHANGED <<gateVars, durable, held, state, current, attempt, local,
                 faults, CallerSide>>

FailUnknown(c) ==
  /\ c \in current
  /\ ~local.final
  /\ Goto("fail", "release")
  /\ unconfirmed' = unconfirmed + (IF local.journalOpen THEN 0 ELSE CountTC(c))
  /\ state' = "DEGRADED"
  /\ future' = [future EXCEPT ![c] = "unknown"]
  /\ UNCHANGED <<gateVars, durable, held, inflight, current, attempt, local,
                 faults, CallerSide>>

-----------------------------------------------------------------------------
(* the writer thread dies, or the process does *)

\* Seeded fault: the queue is cleared without resolving its futures.
FailAllSilently ==
  /\ Fault
  /\ Goto("idle", "failing")
  /\ state' = "FAILED"
  /\ closing' = TRUE
  /\ queue' = [k \in OrderingKeys |-> <<>>]
  /\ UNCHANGED <<gateVars, durable, submitVars, future, ready, held,
                 unconfirmed, inflight, current, attempt, local, crashes>>

\* an error outside _process (the periodic sample): fail_all, then the gate
FailAll ==
  /\ Fault
  /\ Goto("idle", "failing")
  /\ state' = "FAILED"
  /\ closing' = TRUE
  /\ queue' = [k \in OrderingKeys |-> <<>>]
  /\ future' = [c \in Commands |->
                  IF c \in InScheduler THEN "dropped" ELSE future[c]]
  /\ UNCHANGED <<gateVars, durable, submitVars, ready, held, unconfirmed,
                 inflight, current, attempt, local, crashes>>

ResetGate ==
  /\ Goto("failing", "dead")
  /\ ResetCritical
  /\ UNCHANGED <<durable, future, countVars, current, attempt, local, faults,
                 CallerSide>>

\* start-up fails: opening the database, recovery, or a lifecycle inconsistency
\* reconciliation found
StartFails ==
  /\ Fault
  /\ \E stage \in StartStates : Goto(stage, "failing")
  /\ state' = "FAILED"
  /\ closing' = TRUE
  /\ UNCHANGED <<gateVars, durable, submitVars, future, queue, ready, held,
                 unconfirmed, inflight, current, attempt, local, crashes>>

\* the process ends at any point and is started again
Crash ==
  /\ crashes < MaxCrashes
  /\ crashes' = crashes + 1
  /\ ResetCritical
  /\ submitPc' = [c \in Commands |->
                    IF submitPc[c] \in {"registered", "put", "accounted"}
                    THEN "lost" ELSE submitPc[c]]
  /\ future' = [c \in Commands |->
                  IF future[c] = "pending" THEN "lost" ELSE future[c]]
  /\ queue' = [k \in OrderingKeys |-> <<>>]
  /\ closing' = FALSE /\ ready' = FALSE
  /\ state' = "NEW"
  /\ held' = 0 /\ unconfirmed' = 0 /\ inflight' = {}
  /\ writerPc' = "start" /\ current' = {} /\ attempt' = 0 /\ local' = NoLocals
  /\ UNCHANGED <<durable, ticket, accepted, faults>>

-----------------------------------------------------------------------------
SubmitNext ==
  \E c \in Commands : Register(c) \/ Put(c) \/ Refuse(c) \/ Account(c)

ProcessStep(c) ==
  \/ JournalKnown(c) \/ JournalReplay(c) \/ JournalInsert(c)
  \/ JournalBusy(c) \/ JournalError(c) \/ Unhold(c) \/ Replay(c)
  \/ CheckCommitted(c) \/ MarkExecuting(c) \/ MarkExecutingFails(c)
  \/ Commit(c) \/ Reject(c) \/ CommitFails(c) \/ Ack(c)
  \/ Finalize(c) \/ FinalizeFails(c) \/ UnholdFailed(c)
  \/ FailFinalized(c) \/ FailUnknown(c)

WriterStep ==
  \/ Announce \/ Recover \/ Ready \/ Release \/ Stop \/ ResetGate
  \/ \E c \in Commands : Get(c) \/ Acquire(c) \/ ProcessStep(c)

Next == SubmitNext \/ Close \/ WriterStep \/ FailAll \/ StartFails \/ Crash

Spec == Init /\ [][Next]_vars

\* The writer thread runs while the process does; no caller need submit, and
\* WriteLanes shows that the gate lets the writer through.
FairSpec == Spec /\ WF_vars(WriterStep)

-----------------------------------------------------------------------------
TypeOK ==
  /\ GateTypeOK
  /\ \A k \in Keys : /\ journal[k].status \in Statuses
                     /\ journal[k] = NoRow \/ Idem[journal[k].cmd] = k
  /\ applied \in Seq(Commands) /\ accepted \in Seq(Commands)
  /\ submitPc \in [Commands -> SubmitStates]
  /\ future \in [Commands -> FutureStates]
  /\ ticket \in [Commands -> 0..Cardinality(Commands)]
  /\ queue \in [OrderingKeys -> Seq(Commands)]
  /\ Depth <= Capacity
  /\ held \in Nat /\ unconfirmed \in Nat
  /\ inflight \subseteq Commands /\ current \subseteq Commands
  /\ writerPc \in WriterStates
  /\ attempt \in 0..MaxAttempts

\* Mutations of one ordering key become durable in the order in which put
\* accepted them, whatever is retried, rejected, dropped or lost between.
KeyFifo ==
  \A i, j \in DOMAIN applied :
    i < j /\ OrderingKey[applied[i]] = OrderingKey[applied[j]] =>
      \E m, n \in DOMAIN accepted :
        m < n /\ accepted[m] = applied[i] /\ accepted[n] = applied[j]

\* Once start-up has finished, so that submit may proceed, a lane that reports
\* RUNNING has no open journal row except that of the command being processed:
\* an open row nobody owns is a degraded lane.  (RUNNING is published before
\* recovery, so what a crash left open is open under RUNNING until then.)
OpenRowsOwned ==
  ready /\ state = "RUNNING" =>
    \A k \in Keys : journal[k].status \in OpenStatuses => journal[k].cmd \in current

\* A command of this process whose durable outcome is unknown stays in the
\* in-flight registry (so its age grows), and the lane never reports RUNNING
\* again, whatever later commands succeed.
UnknownFailsClosed ==
  \A c \in Commands :
    future[c] = "unknown" /\ submitPc[c] \in {"put", "accounted"} =>
      /\ state # "RUNNING"
      /\ submitPc[c] = "accounted" => c \in inflight

WriterSound == TypeOK /\ KeyFifo /\ OpenRowsOwned /\ UnknownFailsClosed

\* From the moment submit has returned until its future resolves, a command
\* is in the registry whose ages the execution gate reads.
RegistrySeesPending ==
  \A c \in Commands :
    submitPc[c] = "accounted" /\ future[c] = "pending" => c \in inflight

\* Registrations with the write gate: submitted and not yet released.
GateCount ==
  writerPc \notin {"failing", "dead"} =>
    criticalPending =
      Cardinality({c \in Commands :
        submitPc[c] = "registered" \/ c \in InScheduler \/ c \in current})

\* The promise of DurableCommands, with journal rows for effects.
Promise == INSTANCE DurableCommands WITH
  NoEffect <- "none",
  outcome <- future,
  effect <- [k \in Keys |-> IF journal[k].status = "COMMITTED"
                            THEN journal[k].cmd ELSE "none"]
KeepsPromise == Promise!Spec

\* Claimed where the registry is declared: it holds commands accepted but not
\* yet resolved (committed, replayed or finalized as FAILED).
RegistryExact ==
  \A c \in inflight : future[c] \notin {"result", "failed"}

\* Claimed by _mark_failed: the caller of a finalization that was not stored
\* retains the unconfirmed count.
UnknownStaysCounted ==
  \A c \in TradeCritical :
    future[c] = "unknown" /\ submitPc[c] = "accounted"
      => held + unconfirmed > 0

\* Every accepted command is answered, unless the process dies first: again and
\* again there is a moment at which no caller waits.
Answered == []<>(\A c \in Commands : future[c] # "pending")

=============================================================================
