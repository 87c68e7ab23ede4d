---------------------- MODULE PersistenceWriter_proofs ----------------------
(***************************************************************************)
(* The persistence writer is sound and keeps its promise for any commands, *)
(* keys, priorities, capacity, number of attempts, faults and crashes.     *)
(***************************************************************************)
EXTENDS PersistenceWriter, FiniteSetTheorems, TLAPS

Accepted(c) == \E i \in DOMAIN accepted : accepted[i] = c
Earlier(c, d) ==
  \E m, n \in DOMAIN accepted : m < n /\ accepted[m] = c /\ accepted[n] = d

Locals == [replay : BOOLEAN, journalOpen : BOOLEAN, hold : BOOLEAN,
           known : BOOLEAN, final : BOOLEAN]
USE DEF StartStates, OpenStatuses

JournalRow == {NoRow} \cup [status : Statuses \ {"NONE"}, cmd : Commands]

Types ==
  /\ TypeOK
  /\ journal \in [Keys -> JournalRow]
  /\ \A k \in Keys : journal[k] # NoRow => Idem[journal[k].cmd] = k
  /\ local \in Locals

\* What a call of submit has done so far: a row is of an accepted command, and
\* nothing is called before start-up has recovered
\* the journal.
Calls ==
  /\ \A c \in Commands :
       /\ submitPc[c] = "new" => ticket[c] = 0
       /\ submitPc[c] \in {"new", "registered"} => future[c] = "none"
       /\ future[c] = "none" => ~Accepted(c)
  /\ \A k \in Keys : journal[k] # NoRow => Accepted(journal[k].cmd)
  /\ writerPc \in StartStates =>
       /\ ~ready
       /\ \A c \in Commands : submitPc[c] \notin {"registered", "put", "accounted"}
  /\ writerPc = "reconcile" => \A k \in Keys : journal[k].status \notin OpenStatuses

\* A queued command waits for its answer and has left no trace.
Waits(c) ==
  /\ Accepted(c) /\ future[c] = "pending"
  /\ Row(c).cmd # c
  /\ c \notin current

Queued ==
  \A k \in OrderingKeys :
    /\ \A i \in DOMAIN queue[k] : Waits(queue[k][i]) /\ OrderingKey[queue[k][i]] = k
    /\ \A i, j \in DOMAIN queue[k] :
         i < j => Earlier(queue[k][i], queue[k][j]) /\ queue[k][i] # queue[k][j]

\* What is durable precedes what is being processed, and that what is queued.
InOrder ==
  /\ \A i \in DOMAIN applied :
       Accepted(applied[i]) /\ Row(applied[i]) = [status |-> "COMMITTED", cmd |-> applied[i]]
  /\ KeyFifo
  /\ \A i \in DOMAIN applied : \A j \in DOMAIN queue[OrderingKey[applied[i]]] :
       Earlier(applied[i], queue[OrderingKey[applied[i]]][j])
  /\ \A c \in current : \A i \in DOMAIN applied :
       applied[i] # c /\ OrderingKey[applied[i]] = OrderingKey[c] => Earlier(applied[i], c)
  /\ \A c \in current : \A j \in DOMAIN queue[OrderingKey[c]] :
       Earlier(c, queue[OrderingKey[c]][j])

\* What the writer knows of the row of the command it processes.
InPhase(c) ==
  /\ Accepted(c)
  /\ writerPc # "release" => future[c] = "pending"
  /\ writerPc \in {"journal", "unhold", "replay", "check", "commit", "ack"} =>
       ~local.known /\ ~local.final
  /\ writerPc \in {"acquire", "journal"} => Row(c).cmd # c
  /\ writerPc = "journal" => ~local.replay
  /\ writerPc = "unhold" /\ ~local.replay => Row(c).cmd = c
  /\ writerPc = "replay" => local.replay
  /\ writerPc \in {"unhold", "replay"} /\ local.replay =>
       Row(c).status = "COMMITTED" /\ Content[Row(c).cmd] = Content[c]
  /\ writerPc = "check" => Row(c).cmd = c
  /\ writerPc = "commit" => Row(c) = [status |-> "EXECUTING", cmd |-> c]
  /\ writerPc = "ack" => Row(c) = [status |-> "COMMITTED", cmd |-> c]
  /\ writerPc = "finalize" => ~local.final /\ (local.known => Row(c).cmd # c)
  /\ writerPc \in {"unholdFailed", "fail"} /\ local.final /\ Row(c).cmd = c =>
       Row(c).status = "FAILED"
  /\ writerPc = "release" /\ state = "RUNNING" /\ Row(c).cmd = c =>
       Row(c).status \notin OpenStatuses

Resting == {"start", "recover", "reconcile", "idle", "failing", "dead", "stopped"}
Phase ==
  /\ current = {} <=> writerPc \in Resting
  /\ \A c, d \in current : c = d
  /\ \A c \in current : InPhase(c)

WInv ==
  /\ Types /\ Calls /\ Queued /\ InOrder /\ Phase
  /\ OpenRowsOwned /\ UnknownFailsClosed /\ RegistrySeesPending

-----------------------------------------------------------------------------
(* The scheduler and the journal.                                          *)

LEMMA CommandFacts ==
  ASSUME NEW c \in Commands
  PROVE  /\ Idem[c] \in Keys /\ OrderingKey[c] \in OrderingKeys
         /\ c # "none" /\ CountTC(c) \in Nat
  BY CommandsAssumption DEF CountTC

LEMMA RowFacts ==
  ASSUME Types, NEW c \in Commands
  PROVE  /\ Row(c) = journal[Idem[c]] /\ Row(c) \in JournalRow
         /\ Row(c).status \in Statuses
         /\ Row(c).status = "NONE" => Row(c) = NoRow
         /\ Row(c).status # "NONE" =>
              Row(c).cmd \in Commands /\ Idem[Row(c).cmd] = Idem[c]
         /\ Row(c).cmd # c => ~OwnOpenRow(c)
  BY CommandFacts DEF Types, Row, JournalRow, NoRow, Statuses, OwnOpenRow

LEMMA InQueue ==
  ASSUME NEW c
  PROVE  c \in InScheduler <=> \E k \in OrderingKeys : \E i \in DOMAIN queue[k] : queue[k][i] = c
  BY DEF InScheduler

LEMMA SchedulerFinite ==
  ASSUME queue \in [OrderingKeys -> Seq(Commands)]
  PROVE  InScheduler \subseteq Commands /\ IsFiniteSet(InScheduler) /\ Depth \in Nat
<1>1. InScheduler \subseteq Commands
  <2>1. \A k \in OrderingKeys : \A i \in DOMAIN queue[k] : queue[k][i] \in Commands
    OBVIOUS
  <2> QED
    BY <2>1, InQueue
<1> QED
  BY <1>1, CommandsAssumption, FS_Subset, FS_CardinalityType DEF Depth

LEMMA EmptyScheduler ==
  ASSUME queue' = [k \in OrderingKeys |-> <<>>]
  PROVE  InScheduler' = {} /\ Depth' = 0 /\ queue' \in [OrderingKeys -> Seq(Commands)]
<1>1. InScheduler' = {}
  BY DEF InScheduler
<1> QED
  BY <1>1, FS_EmptySet DEF Depth

-----------------------------------------------------------------------------
(* A step inside the processing of a command c: what it may touch.         *)

InnerStep(c) ==
  /\ GateTypeOK'
  /\ UNCHANGED CallerSide /\ UNCHANGED current
  /\ writerPc \notin Resting \cup {"release"} /\ writerPc' \in WriterStates \ Resting
  /\ future' \in [Commands -> FutureStates]
  /\ \A d \in Commands : d # c => future'[d] = future[d]
  /\ held' \in Nat /\ unconfirmed' \in Nat
  /\ attempt' \in 0..MaxAttempts /\ local' \in Locals
  /\ journal' \in [Keys -> JournalRow]
  /\ \A k \in Keys : k # Idem[c] => journal'[k] = journal[k]
  /\ \/ journal'[Idem[c]] = Row(c)
     \/ journal'[Idem[c]].cmd = c /\ Row(c).status # "COMMITTED"
  /\ \/ future'[c] = "pending" /\ UNCHANGED <<inflight, state>>
     \/ future'[c] \in {"result", "failed"} /\ inflight' = inflight \ {c} /\ UNCHANGED state
     \/ future'[c] = "unknown" /\ UNCHANGED inflight /\ state' = "DEGRADED"

LEMMA InnerTypes ==
  ASSUME WInv, NEW c \in current, InnerStep(c), applied' \in Seq(Commands)
  PROVE  Types'
<1>1. c \in Commands /\ c # "none" /\ Idem[c] \in Keys
  BY CommandFacts DEF WInv, Types, TypeOK
<1>2. \A k \in Keys : journal'[k] # NoRow => Idem[journal'[k].cmd] = k
  BY <1>1 DEF WInv, Types, InnerStep, Row
<1>3. \A k \in Keys : /\ journal'[k].status \in Statuses
                      /\ journal'[k] = NoRow \/ Idem[journal'[k].cmd] = k
  <2>1. \A r \in JournalRow : r.status \in Statuses
    BY DEF JournalRow, NoRow, Statuses
  <2> QED
    BY <1>2, <2>1 DEF InnerStep
<1>4. Depth' = Depth
  BY DEF InnerStep, CallerSide, Depth, InScheduler
<1>5. inflight' \subseteq Commands
  BY DEF WInv, Types, TypeOK, InnerStep
<1> QED
  BY <1>2, <1>3, <1>4, <1>5 DEF WInv, Types, TypeOK, InnerStep, CallerSide, submitVars

LEMMA InnerCalls ==
  ASSUME WInv, NEW c \in current, InnerStep(c)
  PROVE  Calls'
<1>1. c \in Commands /\ future[c] = "pending" /\ Accepted(c)
  BY DEF WInv, Types, TypeOK, Phase, InPhase, InnerStep
<1>2. \A d \in Commands : future'[d] = "none" <=> future[d] = "none"
  BY <1>1 DEF InnerStep
<1>3. writerPc' \notin StartStates
  BY DEF InnerStep, Resting, StartStates
<1>4. \A d : Accepted(d)' <=> Accepted(d)
  BY DEF InnerStep, CallerSide, submitVars, Accepted
<1>5. \A k \in Keys : journal'[k] # NoRow => Accepted(journal'[k].cmd)
  BY <1>1 DEF WInv, Calls, InnerStep, Row
<1> QED
  BY <1>1, <1>2, <1>3, <1>4, <1>5 DEF WInv, Calls, InnerStep, CallerSide, submitVars

LEMMA InnerQueued ==
  ASSUME WInv, NEW c \in current, InnerStep(c)
  PROVE  Queued'
<1>1. \A k \in OrderingKeys : \A i \in DOMAIN queue[k] : queue[k][i] \in Commands
  BY DEF WInv, Types, TypeOK
<1>2. ASSUME NEW d \in Commands, Waits(d) PROVE Waits(d)'
  <2>1. d # c
    BY <1>2 DEF Waits
  <2>2. Row(d)'.cmd # d
    BY <1>2, <2>1, CommandFacts DEF Waits, InnerStep, Row
  <2> QED
    BY <1>2, <2>1, <2>2 DEF Waits, InnerStep, CallerSide, submitVars, Accepted
<1> QED
  BY <1>1, <1>2 DEF WInv, Queued, InnerStep, CallerSide, submitVars, Earlier

LEMMA InnerOrder ==
  ASSUME WInv, NEW c \in current, InnerStep(c), applied' = applied
  PROVE  InOrder'
<1>1. \A i \in DOMAIN applied : applied[i] \in Commands
  BY DEF WInv, Types, TypeOK
<1>2. UNCHANGED <<accepted, queue, current>>
  BY DEF InnerStep, CallerSide, submitVars
<1>3. ASSUME NEW i \in DOMAIN applied
      PROVE  journal'[Idem[applied[i]]] = [status |-> "COMMITTED", cmd |-> applied[i]]
  <2>1. Row(applied[i]) = [status |-> "COMMITTED", cmd |-> applied[i]]
    BY DEF WInv, InOrder
  <2> QED
    BY <1>1, <2>1, CommandFacts DEF InnerStep, Row
<1> QED
  BY <1>2, <1>3 DEF WInv, InOrder, KeyFifo, Accepted, Earlier, Row

LEMMA InnerSafe ==
  ASSUME WInv, NEW c \in current, InnerStep(c)
  PROVE  (OpenRowsOwned /\ UnknownFailsClosed /\ RegistrySeesPending)'
<1>1. c \in Commands /\ future[c] = "pending" /\ Idem[c] \in Keys
  BY CommandFacts DEF WInv, Types, TypeOK, Phase, InPhase, InnerStep
<1>2. UNCHANGED <<submitPc, current>>
  BY DEF InnerStep, CallerSide, submitVars
<1>3. OpenRowsOwned'
  <2> SUFFICES ASSUME ready', state' = "RUNNING", NEW k \in Keys,
                      journal'[k].status \in OpenStatuses
               PROVE  journal'[k].cmd \in current
    BY <1>2 DEF OpenRowsOwned
  <2>1. ready /\ state = "RUNNING"
    BY DEF InnerStep, CallerSide
  <2>2. CASE journal'[k] = journal[k]
    BY <2>1, <2>2 DEF WInv, OpenRowsOwned
  <2>3. CASE k = Idem[c] /\ journal'[k].cmd = c
    BY <2>3
  <2> QED
    BY <1>1, <2>2, <2>3 DEF InnerStep, Row
<1>4. RegistrySeesPending'
  BY <1>1, <1>2 DEF WInv, RegistrySeesPending, InnerStep
<1>5. UnknownFailsClosed'
  <2> SUFFICES ASSUME NEW d \in Commands, future'[d] = "unknown",
                      submitPc[d] \in {"put", "accounted"}
               PROVE  state' # "RUNNING" /\ (submitPc[d] = "accounted" => d \in inflight')
    BY <1>2 DEF UnknownFailsClosed
  <2>1. CASE d = c
    BY <1>1, <2>1 DEF WInv, RegistrySeesPending, InnerStep
  <2>2. CASE d # c
    BY <2>2 DEF WInv, UnknownFailsClosed, InnerStep
  <2> QED
    BY <2>1, <2>2
<1> QED
  BY <1>3, <1>4, <1>5

\* The mutation of c becomes durable: c is the last of its ordering key.
LEMMA ApplyOrder ==
  ASSUME WInv, NEW c \in current, InnerStep(c), applied' = Append(applied, c),
         Row(c) = [status |-> "EXECUTING", cmd |-> c],
         journal'[Idem[c]] = [status |-> "COMMITTED", cmd |-> c]
  PROVE  InOrder'
<1>1. /\ \A i \in DOMAIN applied : applied[i] \in Commands
      /\ applied \in Seq(Commands) /\ c \in Commands /\ Accepted(c)
  BY DEF WInv, Types, TypeOK, Phase, InPhase
<1>2. UNCHANGED <<accepted, queue, current>>
  BY DEF InnerStep, CallerSide, submitVars
<1>3. \A i \in DOMAIN applied' :
        \/ i \in DOMAIN applied /\ applied'[i] = applied[i]
        \/ i = Len(applied) + 1 /\ applied'[i] = c
  BY <1>1
<1>4. ASSUME NEW i \in DOMAIN applied
      PROVE  applied[i] # c /\ journal'[Idem[applied[i]]] = [status |-> "COMMITTED", cmd |-> applied[i]]
  <2>1. Row(applied[i]) = [status |-> "COMMITTED", cmd |-> applied[i]]
    BY DEF WInv, InOrder
  <2>2. Idem[applied[i]] # Idem[c]
    BY <2>1 DEF Row
  <2> QED
    BY <1>1, <2>1, <2>2, CommandFacts DEF InnerStep, Row
<1>5. \A i \in DOMAIN applied' :
        Accepted(applied'[i]) /\ journal'[Idem[applied'[i]]] = [status |-> "COMMITTED", cmd |-> applied'[i]]
  BY <1>1, <1>3, <1>4 DEF WInv, InOrder
<1>6. \A i \in DOMAIN applied : OrderingKey[applied[i]] = OrderingKey[c] => Earlier(applied[i], c)
  BY <1>4 DEF WInv, InOrder
<1>7. KeyFifo'
  <2> SUFFICES ASSUME NEW i \in DOMAIN applied', NEW j \in DOMAIN applied', i < j,
                      OrderingKey[applied'[i]] = OrderingKey[applied'[j]]
               PROVE  Earlier(applied'[i], applied'[j])
    BY <1>2 DEF KeyFifo, Earlier
  <2>1. i \in DOMAIN applied /\ applied'[i] = applied[i]
    BY <1>1
  <2>2. CASE j \in DOMAIN applied /\ applied'[j] = applied[j]
    BY <2>1, <2>2 DEF WInv, InOrder, KeyFifo, Earlier
  <2>3. CASE applied'[j] = c
    BY <1>6, <2>1, <2>3
  <2> QED
    BY <1>3, <2>2, <2>3
<1>8. \A i \in DOMAIN applied' : \A j \in DOMAIN queue[OrderingKey[applied'[i]]] :
        Earlier(applied'[i], queue[OrderingKey[applied'[i]]][j])
  BY <1>3 DEF WInv, InOrder
<1>9. \A d \in current : \A i \in DOMAIN applied' :
        applied'[i] # d /\ OrderingKey[applied'[i]] = OrderingKey[d] => Earlier(applied'[i], d)
  BY <1>3 DEF WInv, InOrder, Phase
<1>10. \A d \in current : \A j \in DOMAIN queue[OrderingKey[d]] :
         Earlier(d, queue[OrderingKey[d]][j])
  BY DEF WInv, InOrder
<1>11. \A d, e : Earlier(d, e)' <=> Earlier(d, e)
  BY <1>2 DEF Earlier
<1>12. \A d : /\ Accepted(d)' <=> Accepted(d)
              /\ Row(d)' = journal'[Idem[d]]
  BY <1>2 DEF Accepted, Row
<1> QED
  BY <1>2, <1>5, <1>7, <1>8, <1>9, <1>10, <1>11, <1>12 DEF InOrder

-----------------------------------------------------------------------------
(* Every step of processing is such a step and keeps what the writer knows. *)

Inside(c) ==
  /\ InnerStep(c) /\ InPhase(c)'
  /\ \/ applied' = applied
     \/ /\ applied' = Append(applied, c)
        /\ Row(c) = [status |-> "EXECUTING", cmd |-> c]
        /\ journal'[Idem[c]] = [status |-> "COMMITTED", cmd |-> c]

LEMMA Inner ==
  ASSUME WInv, NEW c \in Commands, c \in current, writerPc # "release"
  PROVE  /\ InPhase(c) /\ future[c] = "pending" /\ Accepted(c)
         /\ journal \in [Keys -> JournalRow] /\ Idem[c] \in Keys
         /\ Row(c) = journal[Idem[c]] /\ Row(c) \in JournalRow /\ NoRow.cmd # c
         /\ Row(c).status = "NONE" => Row(c) = NoRow
         /\ GateTypeOK /\ future \in [Commands -> FutureStates]
         /\ held \in Nat /\ unconfirmed \in Nat /\ CountTC(c) \in Nat
         /\ DecToZero(held) \in Nat /\ DecToZero(unconfirmed) \in Nat
         /\ attempt \in 0..MaxAttempts /\ MaxAttempts \in Nat \ {0}
         /\ local \in Locals
         /\ writerPc \notin Resting
<1>1. Types /\ Phase
  BY DEF WInv
<1>2. held \in Nat /\ unconfirmed \in Nat
  BY <1>1 DEF Types, TypeOK
<1> QED
  BY <1>1, <1>2, RowFacts, CommandFacts, BoundsAssumption
  DEF Types, TypeOK, Phase, InPhase, NoRow, DecToZero

\* A step that stays with the command: the row and the locals move, and no more.
LEMMA Stays ==
  ASSUME WInv, NEW c \in Commands, c \in current, writerPc # "release",
         UNCHANGED <<gateVars, future, inflight, state, current, CallerSide>>,
         held' \in Nat, unconfirmed' \in Nat, attempt' \in 0..MaxAttempts, local' \in Locals,
         writerPc' \in WriterStates \ (Resting \cup {"release"}),
         \/ journal' = journal
         \/ /\ \E r \in JournalRow : r.cmd = c /\ journal' = [journal EXCEPT ![Idem[c]] = r]
            /\ Row(c).status # "COMMITTED"
  PROVE  /\ InnerStep(c) /\ Accepted(c)' /\ future'[c] = "pending"
         /\ Row(c)' = journal'[Idem[c]]
<1>1. GateTypeOK'
  BY Inner DEF gateVars, GateTypeOK
<1>2. /\ journal' \in [Keys -> JournalRow]
      /\ \A k \in Keys : k # Idem[c] => journal'[k] = journal[k]
      /\ \/ journal'[Idem[c]] = Row(c)
         \/ journal'[Idem[c]].cmd = c /\ Row(c).status # "COMMITTED"
  BY Inner
<1>3. future' \in [Commands -> FutureStates] /\ future'[c] = "pending"
  BY Inner
<1> QED
  BY <1>1, <1>2, <1>3, Inner DEF InnerStep, Row, CallerSide, submitVars, Accepted

\* The same with the row left alone.
LEMMA Unwritten ==
  ASSUME WInv, NEW c \in Commands, c \in current, writerPc # "release",
         Quiet, UNCHANGED durable, attempt' \in 0..MaxAttempts, local' \in Locals,
         writerPc' \in WriterStates \ (Resting \cup {"release"})
  PROVE  /\ InnerStep(c) /\ Accepted(c)' /\ future'[c] = "pending"
         /\ Row(c)' = Row(c) /\ applied' = applied /\ state' = state
<1>1. /\ UNCHANGED <<gateVars, future, inflight, state, current, CallerSide>>
      /\ held' = held /\ unconfirmed' = unconfirmed /\ journal' = journal /\ applied' = applied
  BY DEF Quiet, countVars, durable
<1> QED
  BY <1>1, Stays, Inner DEF Row

LEMMA JournalKnownInside ==
  ASSUME WInv, NEW c \in Commands, JournalKnown(c)
  PROVE  Inside(c)
<1>1. /\ c \in current /\ writerPc = "journal" /\ writerPc' = "finalize"
      /\ local' = [local EXCEPT !.known = TRUE] /\ attempt' = attempt
      /\ Quiet /\ UNCHANGED durable
  BY DEF JournalKnown, Goto, Quiet, durable
<1>2. local' \in Locals /\ local'.final = local.final /\ local'.known = TRUE
  BY <1>1, Inner DEF Locals
<1>3. InnerStep(c) /\ Accepted(c)' /\ future'[c] = "pending" /\ Row(c)' = Row(c) /\ applied' = applied
  BY <1>1, <1>2, Inner, Unwritten DEF WriterStates, Resting
<1> QED
  BY <1>1, <1>2, <1>3, Inner DEF Inside, InPhase

LEMMA JournalReplayInside ==
  ASSUME WInv, NEW c \in Commands, JournalReplay(c)
  PROVE  Inside(c)
<1>1. /\ c \in current /\ writerPc = "journal" /\ writerPc' = "unhold"
      /\ local' = [local EXCEPT !.replay = TRUE] /\ attempt' = attempt
      /\ Quiet /\ UNCHANGED durable
      /\ Row(c).status = "COMMITTED" /\ Content[Row(c).cmd] = Content[c]
  BY DEF JournalReplay, Goto, Quiet, durable, Blocked
<1>2. /\ local' \in Locals /\ local'.final = local.final /\ local'.known = local.known
      /\ local'.replay = TRUE
  BY <1>1, Inner DEF Locals
<1>3. InnerStep(c) /\ Accepted(c)' /\ future'[c] = "pending" /\ Row(c)' = Row(c) /\ applied' = applied
  BY <1>1, <1>2, Inner, Unwritten DEF WriterStates, Resting
<1> QED
  BY <1>1, <1>2, <1>3, Inner DEF Inside, InPhase

LEMMA JournalInsertInside ==
  ASSUME WInv, NEW c \in Commands, JournalInsert(c)
  PROVE  Inside(c)
<1> DEFINE r == [status |-> "SUBMITTED", cmd |-> c]
<1>1. /\ c \in current /\ writerPc = "journal" /\ writerPc' = "unhold"
      /\ Row(c).status = "NONE" /\ journal' = [journal EXCEPT ![Idem[c]] = r]
      /\ local' = [local EXCEPT !.journalOpen = TRUE] /\ attempt' = 1
      /\ unconfirmed' = unconfirmed + CountTC(c) /\ held' = held /\ applied' = applied
      /\ UNCHANGED <<gateVars, future, inflight, state, current, CallerSide>>
  BY DEF JournalInsert, Goto, CallerSide
<1>2. /\ local' \in Locals /\ local'.final = local.final /\ local'.known = local.known
      /\ local'.replay = local.replay
  BY <1>1, Inner DEF Locals
<1>3. r \in JournalRow /\ r.cmd = c
  BY DEF JournalRow, Statuses
<1>4. held' \in Nat /\ unconfirmed' \in Nat /\ attempt' \in 0..MaxAttempts
  BY <1>1, Inner
<1>5. /\ InnerStep(c) /\ Accepted(c)' /\ future'[c] = "pending"
      /\ Row(c)' = journal'[Idem[c]]
  BY <1>1, <1>2, <1>3, <1>4, Stays DEF WriterStates, Resting
<1>6. Row(c)' = r
  BY <1>1, <1>5, Inner
<1> QED
  BY <1>1, <1>2, <1>5, <1>6, Inner DEF Inside, InPhase

LEMMA JournalFailsInside ==
  ASSUME WInv, NEW c \in Commands, JournalBusy(c) \/ JournalError(c)
  PROVE  Inside(c)
<1>1. CASE JournalBusy(c)
  <2>1. /\ c \in current /\ writerPc = "journal" /\ Quiet /\ UNCHANGED <<durable, local>>
        /\ \/ attempt < MaxAttempts /\ writerPc' = "journal" /\ attempt' = attempt + 1
           \/ writerPc' = "finalize" /\ attempt' = attempt
    BY <1>1 DEF JournalBusy, Goto, Quiet, durable
  <2>2. attempt' \in 0..MaxAttempts
    BY <2>1, Inner
  <2>3. InnerStep(c) /\ Accepted(c)' /\ future'[c] = "pending" /\ Row(c)' = Row(c) /\ applied' = applied
    BY <2>1, <2>2, Inner, Unwritten DEF WriterStates, Resting
  <2> QED
    BY <2>1, <2>3, Inner DEF Inside, InPhase
<1>2. CASE JournalError(c)
  <2> DEFINE r == [status |-> "SUBMITTED", cmd |-> c]
  <2>1. /\ c \in current /\ writerPc = "journal" /\ writerPc' = "finalize"
        /\ Row(c).status = "NONE" /\ applied' = applied /\ attempt' = attempt /\ local' = local
        /\ UNCHANGED <<gateVars, future, inflight, state, current, CallerSide>>
        /\ held' = held /\ unconfirmed' = unconfirmed
        /\ journal' = journal \/ journal' = [journal EXCEPT ![Idem[c]] = r]
    BY <1>2 DEF JournalError, Goto, Quiet, countVars, CallerSide
  <2>2. r \in JournalRow /\ r.cmd = c
    BY DEF JournalRow, Statuses
  <2>3. InnerStep(c) /\ Accepted(c)' /\ future'[c] = "pending"
    BY <2>1, <2>2, Inner, Stays DEF WriterStates, Resting
  <2> QED
    BY <2>1, <2>3, Inner DEF Inside, InPhase
<1> QED
  BY <1>1, <1>2

LEMMA AcquireInside ==
  ASSUME WInv, NEW c \in Commands, Acquire(c)
  PROVE  Inside(c)
<1>1. /\ c \in current /\ writerPc = "acquire" /\ writerPc' = "journal"
      /\ AcquireCritical /\ attempt' = 1
      /\ local' = [NoLocals EXCEPT !.hold = (c \in TradeCritical)]
      /\ UNCHANGED <<durable, future, held, unconfirmed, inflight, state, current, CallerSide>>
  BY DEF Acquire, Goto, countVars, CallerSide
<1>2. local' \in Locals /\ ~local'.known /\ ~local'.final /\ ~local'.replay
  <2> DEFINE urgent == c \in TradeCritical
  <2>1. urgent \in BOOLEAN
    OBVIOUS
  <2>2. local' = [NoLocals EXCEPT !.hold = urgent]
    BY <1>1
  <2> HIDE DEF urgent
  <2> QED
    BY <2>1, <2>2 DEF NoLocals, Locals
<1>3. GateTypeOK'
  BY <1>1, Inner DEF AcquireCritical, GateTypeOK
<1>4. journal' = journal /\ applied' = applied /\ Row(c)' = Row(c) /\ Accepted(c)'
  BY <1>1, Inner DEF durable, Row, CallerSide, submitVars, Accepted
<1>5. InnerStep(c)
  BY <1>1, <1>2, <1>3, <1>4, Inner DEF InnerStep, WriterStates, Resting
<1> QED
  BY <1>1, <1>2, <1>4, <1>5, Inner DEF Inside, InPhase

LEMMA UnholdInside ==
  ASSUME WInv, NEW c \in Commands, Unhold(c) \/ UnholdFailed(c)
  PROVE  Inside(c)
<1>1. /\ c \in current
      /\ \/ writerPc = "unhold" /\ writerPc' = IF local.replay THEN "replay" ELSE "check"
         \/ writerPc = "unholdFailed" /\ writerPc' = "fail"
      /\ held' \in {held, DecToZero(held)} /\ unconfirmed' = unconfirmed
      /\ local' = [local EXCEPT !.hold = FALSE] /\ attempt' = attempt
      /\ journal' = journal /\ applied' = applied
      /\ UNCHANGED <<gateVars, future, inflight, state, current, CallerSide>>
  BY DEF Unhold, UnholdFailed, DropHold, Goto, CallerSide, durable
<1>2. /\ local' \in Locals /\ local'.final = local.final /\ local'.known = local.known
      /\ local'.replay = local.replay
  BY <1>1, Inner DEF Locals
<1>3. /\ InnerStep(c) /\ Accepted(c)' /\ future'[c] = "pending"
      /\ Row(c)' = journal'[Idem[c]]
  BY <1>1, <1>2, Inner, Stays DEF WriterStates, Resting
<1>4. Row(c)' = Row(c)
  BY <1>1, <1>3, Inner
<1> QED
  BY <1>1, <1>2, <1>3, <1>4, Inner DEF Inside, InPhase

\* The attempts: the row is marked, and a failure of the marking leaves it.
LEMMA CheckInside ==
  ASSUME WInv, NEW c \in Commands,
         CheckCommitted(c) \/ MarkExecuting(c) \/ MarkExecutingFails(c)
  PROVE  Inside(c)
<1>1. CASE CheckCommitted(c)
  <2>1. /\ c \in current /\ writerPc = "check" /\ writerPc' = "ack"
        /\ Row(c).status = "COMMITTED" /\ Quiet /\ UNCHANGED <<durable, attempt, local>>
    BY <1>1 DEF CheckCommitted, Goto, Quiet, durable
  <2>2. InnerStep(c) /\ Accepted(c)' /\ future'[c] = "pending" /\ Row(c)' = Row(c) /\ applied' = applied
    BY <2>1, Inner, Unwritten DEF WriterStates, Resting
  <2>3. Row(c) = [status |-> "COMMITTED", cmd |-> c]
    BY <2>1, Inner DEF InPhase, JournalRow, NoRow
  <2> QED
    BY <2>1, <2>2, <2>3, Inner DEF Inside, InPhase
<1>2. CASE MarkExecuting(c)
  <2> DEFINE r == [status |-> "EXECUTING", cmd |-> c]
  <2>1. /\ c \in current /\ writerPc = "check" /\ writerPc' = "commit"
        /\ Row(c).status \in OpenStatuses /\ applied' = applied
        /\ attempt' = attempt /\ local' = local /\ held' = held /\ unconfirmed' = unconfirmed
        /\ UNCHANGED <<gateVars, future, inflight, state, current, CallerSide>>
        /\ journal' = [journal EXCEPT ![Idem[c]].status = "EXECUTING"]
    BY <1>2 DEF MarkExecuting, Goto, Quiet, countVars, CallerSide
  <2>2. r \in JournalRow /\ r.cmd = c
    BY DEF JournalRow, Statuses
  <2>3. \/ Row(c) = [status |-> "SUBMITTED", cmd |-> c]
        \/ Row(c) = [status |-> "EXECUTING", cmd |-> c]
    BY <2>1, Inner DEF InPhase, JournalRow, NoRow
  <2>4. journal' = [journal EXCEPT ![Idem[c]] = r]
    <3>1. [Row(c) EXCEPT !.status = "EXECUTING"] = r
      BY <2>3
    <3>2. journal' = [journal EXCEPT ![Idem[c]] = [Row(c) EXCEPT !.status = "EXECUTING"]]
      BY <2>1, Inner
    <3> QED
      BY <3>1, <3>2
  <2>5. InnerStep(c) /\ Accepted(c)' /\ future'[c] = "pending" /\ Row(c)' = journal'[Idem[c]]
    BY <2>1, <2>2, <2>4, Inner, Stays DEF WriterStates, Resting
  <2>6. Row(c)' = r
    BY <2>1, <2>4, <2>5, Inner
  <2> QED
    BY <2>1, <2>5, <2>6, Inner DEF Inside, InPhase
<1>3. CASE MarkExecutingFails(c)
  <2>1. /\ c \in current /\ writerPc = "check" /\ Quiet /\ UNCHANGED <<durable, local>>
        /\ \/ attempt < MaxAttempts /\ writerPc' = "check" /\ attempt' = attempt + 1
           \/ writerPc' = "finalize" /\ attempt' = attempt
    BY <1>3 DEF MarkExecutingFails, RetryFrom, Goto, Quiet, durable
  <2>2. attempt' \in 0..MaxAttempts
    BY <2>1, Inner
  <2>3. InnerStep(c) /\ Accepted(c)' /\ future'[c] = "pending" /\ Row(c)' = Row(c) /\ applied' = applied
    BY <2>1, <2>2, Inner, Unwritten DEF WriterStates, Resting
  <2> QED
    BY <2>1, <2>3, Inner DEF Inside, InPhase
<1> QED
  BY <1>1, <1>2, <1>3

\* The mutation is committed, refused, or its commit fails either way.
LEMMA CommitInside ==
  ASSUME WInv, NEW c \in Commands, Commit(c) \/ Reject(c) \/ CommitFails(c)
  PROVE  Inside(c)
<1> DEFINE r == [status |-> "COMMITTED", cmd |-> c]
<1>1. /\ c \in current /\ writerPc = "commit"
      /\ \/ writerPc' = "ack" /\ attempt' = attempt /\ ApplyMutation(c)
         \/ writerPc' = "finalize" /\ attempt' = attempt
         \/ attempt < MaxAttempts /\ writerPc' = "check" /\ attempt' = attempt + 1
      /\ UNCHANGED durable \/ ApplyMutation(c)
      /\ held' = held /\ unconfirmed' = unconfirmed /\ local' = local
      /\ UNCHANGED <<gateVars, future, inflight, state, current, CallerSide>>
  BY DEF Commit, Reject, CommitFails, RetryFrom, Goto, Quiet, countVars, CallerSide, durable
<1>2. Row(c) = [status |-> "EXECUTING", cmd |-> c]
  BY <1>1, Inner DEF InPhase
<1>3. r \in JournalRow /\ r.cmd = c
  BY DEF JournalRow, Statuses
<1>4. \/ journal' = journal /\ applied' = applied /\ writerPc' # "ack"
      \/ journal' = [journal EXCEPT ![Idem[c]] = r] /\ applied' = Append(applied, c)
  BY <1>1, <1>2, Inner DEF ApplyMutation, durable
<1>5. attempt' \in 0..MaxAttempts /\ writerPc' \in {"ack", "finalize", "check"}
  BY <1>1, Inner
<1>6. InnerStep(c) /\ Accepted(c)' /\ future'[c] = "pending" /\ Row(c)' = journal'[Idem[c]]
  BY <1>1, <1>2, <1>3, <1>4, <1>5, Inner, Stays DEF WriterStates, Resting
<1>7. \/ Row(c)' = Row(c) /\ applied' = applied /\ writerPc' # "ack"
      \/ Row(c)' = r /\ applied' = Append(applied, c) /\ journal'[Idem[c]] = r
  BY <1>1, <1>4, <1>6, Inner
<1>8. InPhase(c)'
  BY <1>1, <1>2, <1>5, <1>6, <1>7, Inner DEF InPhase
<1> QED
  BY <1>2, <1>6, <1>7, <1>8 DEF Inside

LEMMA FinalizeInside ==
  ASSUME WInv, NEW c \in Commands, Finalize(c) \/ FinalizeFails(c)
  PROVE  Inside(c)
<1>1. CASE FinalizeFails(c)
  <2>1. /\ c \in current /\ writerPc = "finalize" /\ writerPc' = "unholdFailed" /\ Quiet
        /\ UNCHANGED <<durable, attempt, local>>
    BY <1>1 DEF FinalizeFails, Goto, Quiet, durable
  <2>2. InnerStep(c) /\ Accepted(c)' /\ future'[c] = "pending" /\ Row(c)' = Row(c) /\ applied' = applied
    BY <2>1, Inner, Unwritten DEF WriterStates, Resting
  <2> QED
    BY <2>1, <2>2, Inner DEF Inside, InPhase
<1>2. CASE Finalize(c) /\ (local.known \/ ~OwnOpenRow(c))
  <2>1. /\ c \in current /\ writerPc = "finalize" /\ writerPc' = "unholdFailed" /\ Quiet
        /\ UNCHANGED <<durable, attempt>> /\ local' = [local EXCEPT !.final = local.known]
    BY <1>2 DEF Finalize, Goto, Quiet, durable
  <2>2. local' \in Locals /\ local'.final = local.known
    BY <2>1, Inner DEF Locals
  <2>3. InnerStep(c) /\ Accepted(c)' /\ future'[c] = "pending" /\ Row(c)' = Row(c) /\ applied' = applied
    BY <2>1, <2>2, Inner, Unwritten DEF WriterStates, Resting
  <2> QED
    BY <2>1, <2>2, <2>3, Inner DEF Inside, InPhase
<1>3. CASE Finalize(c) /\ ~(local.known \/ ~OwnOpenRow(c))
  <2> DEFINE r == [status |-> "FAILED", cmd |-> c]
  <2>1. /\ c \in current /\ writerPc = "finalize" /\ writerPc' = "unholdFailed"
        /\ Row(c).cmd = c /\ Row(c).status # "COMMITTED"
        /\ local' = [local EXCEPT !.final = TRUE] /\ attempt' = attempt /\ applied' = applied
        /\ held' = held /\ unconfirmed' = unconfirmed
        /\ UNCHANGED <<gateVars, future, inflight, state, current, CallerSide>>
        /\ journal' = [journal EXCEPT ![Idem[c]].status = "FAILED"]
    BY <1>3 DEF Finalize, OwnOpenRow, Goto, Quiet, countVars, CallerSide
  <2>2. r \in JournalRow /\ r.cmd = c
    BY DEF JournalRow, Statuses
  <2>3. \/ Row(c) = [status |-> "SUBMITTED", cmd |-> c]
        \/ Row(c) = [status |-> "EXECUTING", cmd |-> c]
        \/ Row(c) = [status |-> "FAILED", cmd |-> c]
    BY <2>1, Inner DEF JournalRow, NoRow, Statuses
  <2>4. journal' = [journal EXCEPT ![Idem[c]] = r]
    <3>1. [Row(c) EXCEPT !.status = "FAILED"] = r
      BY <2>3
    <3>2. journal' = [journal EXCEPT ![Idem[c]] = [Row(c) EXCEPT !.status = "FAILED"]]
      BY <2>1, Inner
    <3> QED
      BY <3>1, <3>2
  <2>5. local' \in Locals
    BY <2>1, Inner DEF Locals
  <2>6. InnerStep(c) /\ Accepted(c)' /\ future'[c] = "pending" /\ Row(c)' = journal'[Idem[c]]
    BY <2>1, <2>2, <2>4, <2>5, Inner, Stays DEF WriterStates, Resting
  <2>7. Row(c)' = r
    BY <2>1, <2>4, <2>6, Inner
  <2> QED
    BY <2>1, <2>6, <2>7, Inner DEF Inside, InPhase
<1> QED
  BY <1>1, <1>2, <1>3

\* The command is answered and its row, in a lane that runs, is closed.
LEMMA Answers ==
  ASSUME WInv, NEW c \in Commands, c \in current, writerPc # "release",
         NEW answer \in {"result", "failed", "unknown"},
         future' = [future EXCEPT ![c] = answer],
         IF answer = "unknown" THEN state' = "DEGRADED" /\ UNCHANGED inflight
                               ELSE inflight' = inflight \ {c} /\ UNCHANGED state,
         unconfirmed' \in Nat, writerPc' = "release",
         UNCHANGED <<gateVars, durable, held, current, attempt, local, CallerSide>>,
         answer # "unknown" /\ Row(c).cmd = c => Row(c).status \notin OpenStatuses
  PROVE  Inside(c)
<1>1. GateTypeOK'
  BY Inner DEF gateVars, GateTypeOK
<1>2. future' \in [Commands -> FutureStates] /\ future'[c] = answer
      /\ \A d \in Commands : d # c => future'[d] = future[d]
  BY Inner DEF FutureStates
<1>3. journal' = journal /\ applied' = applied /\ Row(c)' = Row(c) /\ Accepted(c)'
  BY Inner DEF durable, Row, CallerSide, submitVars, Accepted
<1>4. InnerStep(c)
  BY <1>1, <1>2, <1>3, Inner DEF InnerStep, WriterStates, Resting
<1>5. state' = "RUNNING" => answer # "unknown"
  OBVIOUS
<1>6. InPhase(c)'
  BY <1>3, <1>5 DEF InPhase
<1> QED
  BY <1>3, <1>4, <1>6 DEF Inside

LEMMA AnswerInside ==
  ASSUME WInv, NEW c \in Commands,
         Replay(c) \/ Ack(c) \/ FailFinalized(c) \/ FailUnknown(c)
  PROVE  Inside(c)
<1>1. CASE Replay(c)
  <2>1. c \in current /\ writerPc = "replay" /\ unconfirmed' \in Nat
    BY <1>1, Inner DEF Replay, Goto
  <2>2. Row(c).status \notin OpenStatuses
    BY <2>1, Inner DEF InPhase
  <2> QED
    BY <1>1, <2>1, <2>2, Answers DEF Replay, Goto
<1>2. CASE Ack(c)
  <2>1. c \in current /\ writerPc = "ack" /\ unconfirmed' \in Nat
    BY <1>2, Inner DEF Ack, Goto
  <2>2. Row(c).status \notin OpenStatuses
    BY <2>1, Inner DEF InPhase
  <2> QED
    BY <1>2, <2>1, <2>2, Answers DEF Ack, Goto
<1>3. CASE FailFinalized(c)
  <2>1. c \in current /\ writerPc = "fail" /\ unconfirmed' \in Nat /\ local.final
    BY <1>3, Inner DEF FailFinalized, Goto
  <2>2. Row(c).cmd = c => Row(c).status \notin OpenStatuses
    BY <2>1, Inner DEF InPhase
  <2> QED
    BY <1>3, <2>1, <2>2, Answers DEF FailFinalized, Goto
<1>4. CASE FailUnknown(c)
  <2>1. c \in current /\ writerPc = "fail" /\ unconfirmed' \in Nat
    BY <1>4, Inner DEF FailUnknown, Goto
  <2> QED
    BY <1>4, <2>1, Answers DEF FailUnknown, Goto
<1> QED
  BY <1>1, <1>2, <1>3, <1>4

LEMMA InsideKeeps ==
  ASSUME WInv, NEW c \in Commands, c \in current, Inside(c)
  PROVE  WInv'
<1>1. InnerStep(c) /\ InPhase(c)'
  BY DEF Inside
<1>2. applied' \in Seq(Commands)
  <2>1. applied \in Seq(Commands)
    BY DEF WInv, Types, TypeOK
  <2> QED
    BY <2>1 DEF Inside
<1>3. InOrder'
  BY <1>1, InnerOrder, ApplyOrder DEF Inside
<1>4. Phase'
  BY <1>1 DEF WInv, Phase, InnerStep
<1> QED
  BY <1>1, <1>2, <1>3, <1>4, InnerTypes, InnerCalls, InnerQueued, InnerSafe DEF WInv

LEMMA ProcessKeeps ==
  ASSUME WInv, NEW c \in Commands, Acquire(c) \/ ProcessStep(c)
  PROVE  WInv'
<1>1. c \in current
  BY DEF Acquire, ProcessStep, JournalKnown, JournalReplay, JournalInsert, JournalBusy,
         JournalError, Unhold, Replay, CheckCommitted, MarkExecuting, MarkExecutingFails,
         Commit, Reject, CommitFails, Ack, Finalize, FinalizeFails, UnholdFailed,
         FailFinalized, FailUnknown
<1>2. Inside(c)
  BY AcquireInside, JournalKnownInside, JournalReplayInside, JournalInsertInside,
     JournalFailsInside, UnholdInside, CheckInside, CommitInside, FinalizeInside,
     AnswerInside DEF ProcessStep
<1> QED
  BY <1>1, <1>2, InsideKeeps

-----------------------------------------------------------------------------
(* The callers: what they do leaves the command being processed alone.     *)

\* What the writer knows stands while its own state does.
LEMMA PhaseStands ==
  ASSUME WInv, UNCHANGED <<durable, writerVars, state>>,
         \A c \in Commands : Accepted(c) => Accepted(c)' /\ future'[c] = future[c]
  PROVE  Phase'
<1>1. ASSUME NEW c \in current PROVE InPhase(c)'
  <2>1. c \in Commands /\ InPhase(c)
    BY DEF WInv, Types, TypeOK, Phase
  <2>2. Accepted(c)' /\ future'[c] = future[c] /\ Row(c)' = Row(c)
    BY <2>1 DEF InPhase, Row, durable
  <2> QED
    BY <2>1, <2>2 DEF InPhase, writerVars
<1> QED
  BY <1>1 DEF WInv, Phase, writerVars

LEMMA RegisterKeeps ==
  ASSUME WInv, NEW c \in Commands, Register(c)
  PROVE  WInv'
<1>1. /\ ready /\ submitPc[c] = "new" /\ submitPc' = [submitPc EXCEPT ![c] = "registered"]
      /\ ticket' = [ticket EXCEPT ![c] = 1 + Cardinality({d \in Commands : ticket[d] > 0})]
      /\ RegisterCritical
      /\ UNCHANGED <<durable, closing, ready, writerVars, faults, crashes, accepted, future,
                     queue, held, unconfirmed, inflight, state>>
  BY DEF Register, Submit, countVars
<1>2. /\ journal' = journal /\ applied' = applied
      /\ UNCHANGED <<writerPc, current, attempt, local>>
  BY <1>1 DEF durable, writerVars
<1>3. \A d \in Commands : d # c => submitPc'[d] = submitPc[d] /\ ticket'[d] = ticket[d]
  BY <1>1 DEF WInv, Types, TypeOK
<1>4. submitPc'[c] = "registered"
  BY <1>1 DEF WInv, Types, TypeOK
<1>5. Types'
  <2> DEFINE Drawn == {d \in Commands : ticket[d] > 0}
  <2>1. Drawn \subseteq Commands \ {c}
    BY <1>1 DEF WInv, Calls
  <2>2. IsFiniteSet(Commands) /\ Cardinality(Commands \ {c}) = Cardinality(Commands) - 1
    BY CommandsAssumption, FS_RemoveElement
  <2>3. Cardinality(Drawn) <= Cardinality(Commands) - 1 /\ Cardinality(Drawn) \in Nat
    BY <2>1, <2>2, FS_Subset, FS_CardinalityType
  <2>4. Cardinality(Commands) \in Nat
    BY <2>2, FS_CardinalityType
  <2> HIDE DEF Drawn
  <2>5. 1 + Cardinality(Drawn) \in 0..Cardinality(Commands)
    BY <2>3, <2>4
  <2>6. ticket' \in [Commands -> 0..Cardinality(Commands)]
    BY <1>1, <2>5 DEF WInv, Types, TypeOK, Drawn
  <2>7. submitPc' \in [Commands -> SubmitStates] /\ GateTypeOK'
    BY <1>1 DEF WInv, Types, TypeOK, SubmitStates, RegisterCritical, GateTypeOK
  <2>8. Depth' = Depth
    BY <1>1 DEF Depth, InScheduler
  <2> QED
    BY <1>1, <1>2, <2>6, <2>7, <2>8 DEF WInv, Types, TypeOK
<1>6. Calls'
  <2>1. \A d : Accepted(d)' <=> Accepted(d)
    BY <1>1 DEF Accepted
  <2>2. writerPc \notin StartStates
    BY <1>1 DEF WInv, Calls
  <2> QED
    BY <1>1, <1>2, <1>3, <1>4, <2>1, <2>2 DEF WInv, Calls
<1>7. Queued' /\ InOrder'
  BY <1>1, <1>2 DEF WInv, Queued, InOrder, KeyFifo, Waits, Accepted, Earlier, Row
<1>8. Phase'
  BY <1>1, PhaseStands DEF Accepted
<1>9. (OpenRowsOwned /\ UnknownFailsClosed /\ RegistrySeesPending)'
  <2>1. future[c] = "none"
    BY <1>1 DEF WInv, Calls
  <2> QED
    BY <1>1, <1>2, <1>3, <2>1
    DEF WInv, OpenRowsOwned, UnknownFailsClosed, RegistrySeesPending
<1> QED
  BY <1>5, <1>6, <1>7, <1>8, <1>9 DEF WInv

LEMMA RefuseKeeps ==
  ASSUME WInv, NEW c \in Commands, Refuse(c)
  PROVE  WInv'
<1>1. /\ submitPc[c] = "registered" /\ submitPc' = [submitPc EXCEPT ![c] = "refused"]
      /\ CancelCritical
      /\ UNCHANGED <<durable, closing, ready, writerVars, faults, crashes, accepted, ticket,
                     future, queue, held, unconfirmed, inflight, state>>
  BY DEF Refuse, Submit, countVars
<1>2. /\ journal' = journal /\ applied' = applied
      /\ UNCHANGED <<writerPc, current, attempt, local>>
  BY <1>1 DEF durable, writerVars
<1>3. \A d \in Commands : submitPc'[d] = submitPc[d] \/ submitPc'[d] = "refused"
  BY <1>1 DEF WInv, Types, TypeOK
<1>4. Types'
  <2>1. submitPc' \in [Commands -> SubmitStates] /\ GateTypeOK'
    BY <1>1 DEF WInv, Types, TypeOK, SubmitStates, CancelCritical, GateTypeOK, DecToZero
  <2>2. Depth' = Depth
    BY <1>1 DEF Depth, InScheduler
  <2> QED
    BY <1>1, <1>2, <2>1, <2>2 DEF WInv, Types, TypeOK
<1>5. Calls'
  <2>1. \A d : Accepted(d)' <=> Accepted(d)
    BY <1>1 DEF Accepted
  <2> QED
    BY <1>1, <1>2, <1>3, <2>1 DEF WInv, Calls
<1>6. Queued' /\ InOrder'
  BY <1>1, <1>2 DEF WInv, Queued, InOrder, KeyFifo, Waits, Accepted, Earlier, Row
<1>7. Phase'
  BY <1>1, PhaseStands DEF Accepted
<1>8. (OpenRowsOwned /\ UnknownFailsClosed /\ RegistrySeesPending)'
  BY <1>1, <1>2, <1>3 DEF WInv, OpenRowsOwned, UnknownFailsClosed, RegistrySeesPending
<1> QED
  BY <1>4, <1>5, <1>6, <1>7, <1>8 DEF WInv

LEMMA AccountKeeps ==
  ASSUME WInv, NEW c \in Commands, Account(c)
  PROVE  WInv'
<1>1. /\ submitPc[c] = "put" /\ submitPc' = [submitPc EXCEPT ![c] = "accounted"]
      /\ held' = held + CountTC(c) /\ inflight' = inflight \cup {c}
      /\ UNCHANGED <<gateVars, durable, closing, ready, writerVars, faults, crashes, accepted,
                     ticket, future, queue, unconfirmed, state>>
  BY DEF Account, Submit
<1>2. /\ journal' = journal /\ applied' = applied
      /\ UNCHANGED <<writerPc, current, attempt, local>>
  BY <1>1 DEF durable, writerVars
<1>3. \A d \in Commands : submitPc'[d] = IF d = c THEN "accounted" ELSE submitPc[d]
  BY <1>1 DEF WInv, Types, TypeOK
<1>4. Types'
  <2>1. submitPc' \in [Commands -> SubmitStates] /\ GateTypeOK' /\ held' \in Nat
        /\ inflight' \subseteq Commands
    BY <1>1, CommandFacts DEF WInv, Types, TypeOK, SubmitStates, gateVars, GateTypeOK
  <2>2. Depth' = Depth
    BY <1>1 DEF Depth, InScheduler
  <2> QED
    BY <1>1, <1>2, <2>1, <2>2 DEF WInv, Types, TypeOK
<1>5. Calls'
  <2>1. \A d : Accepted(d)' <=> Accepted(d)
    BY <1>1 DEF Accepted
  <2>2. writerPc \notin StartStates
    BY <1>1 DEF WInv, Calls
  <2> QED
    BY <1>1, <1>2, <1>3, <2>1, <2>2 DEF WInv, Calls
<1>6. Queued' /\ InOrder'
  BY <1>1, <1>2 DEF WInv, Queued, InOrder, KeyFifo, Waits, Accepted, Earlier, Row
<1>7. Phase'
  BY <1>1, PhaseStands DEF Accepted
<1>8. (OpenRowsOwned /\ UnknownFailsClosed /\ RegistrySeesPending)'
  BY <1>1, <1>2, <1>3 DEF WInv, OpenRowsOwned, UnknownFailsClosed, RegistrySeesPending
<1> QED
  BY <1>4, <1>5, <1>6, <1>7, <1>8 DEF WInv

LEMMA PutKeeps ==
  ASSUME WInv, NEW c \in Commands, Put(c)
  PROVE  WInv'
<1> DEFINE k == OrderingKey[c]
<1>1. /\ Depth < Capacity
      /\ submitPc[c] = "registered" /\ submitPc' = [submitPc EXCEPT ![c] = "put"]
      /\ queue' = [queue EXCEPT ![k] = Append(@, c)]
      /\ accepted' = Append(accepted, c)
      /\ future' = [future EXCEPT ![c] = "pending"]
      /\ UNCHANGED <<gateVars, durable, closing, ready, writerVars, faults, crashes,
                     ticket, held, unconfirmed, inflight, state>>
  BY DEF Put, Submit, countVars
<1>2. /\ journal' = journal /\ applied' = applied
      /\ UNCHANGED <<writerPc, current, attempt, local>>
  BY <1>1 DEF durable, writerVars
<1>3. /\ k \in OrderingKeys /\ queue \in [OrderingKeys -> Seq(Commands)]
      /\ accepted \in Seq(Commands) /\ applied \in Seq(Commands) /\ current \subseteq Commands
  BY CommandFacts DEF WInv, Types, TypeOK
<1>4. /\ future[c] = "none" /\ ~Accepted(c) /\ writerPc \notin StartStates
  BY <1>1 DEF WInv, Calls
<1>5. \A d \in Commands :
        /\ submitPc'[d] = IF d = c THEN "put" ELSE submitPc[d]
        /\ future'[d] = IF d = c THEN "pending" ELSE future[d]
  BY <1>1 DEF WInv, Types, TypeOK
<1>6. /\ \A d : Accepted(d) => Accepted(d)' /\ d # c /\ Earlier(d, c)'
      /\ \A d \in Commands : Accepted(d)' => Accepted(d) \/ d = c
      /\ Accepted(c)'
      /\ \A d, e : Earlier(d, e) => Earlier(d, e)'
  <2>1. /\ \A i \in DOMAIN accepted : i \in DOMAIN accepted' /\ accepted'[i] = accepted[i]
                                      /\ i < Len(accepted) + 1
        /\ Len(accepted) + 1 \in DOMAIN accepted' /\ accepted'[Len(accepted) + 1] = c
        /\ \A i \in DOMAIN accepted' : i \in DOMAIN accepted \/ i = Len(accepted) + 1
    BY <1>1, <1>3
  <2>2. \A d : Accepted(d) => Accepted(d)' /\ d # c /\ Earlier(d, c)'
    BY <1>4, <2>1 DEF Accepted, Earlier
  <2>3. \A d \in Commands : Accepted(d)' => Accepted(d) \/ d = c
    BY <2>1 DEF Accepted
  <2>4. Accepted(c)'
    BY <2>1 DEF Accepted
  <2>5. \A d, e : Earlier(d, e) => Earlier(d, e)'
    BY <2>1 DEF Earlier
  <2> QED
    BY <2>2, <2>3, <2>4, <2>5
<1>7. /\ queue' \in [OrderingKeys -> Seq(Commands)]
      /\ \A x \in OrderingKeys : \A i \in DOMAIN queue'[x] :
           \/ i \in DOMAIN queue[x] /\ queue'[x][i] = queue[x][i]
           \/ x = k /\ i = Len(queue[k]) + 1 /\ queue'[x][i] = c
      /\ \A x \in OrderingKeys : queue[x] \in Seq(Commands)
  BY <1>1, <1>3
<1>8. \A x \in OrderingKeys : \A i \in DOMAIN queue[x] : queue[x][i] \in Commands
  BY <1>3
<1>9. c \notin current /\ \A d \in current : Accepted(d)
  BY <1>4 DEF WInv, Phase, InPhase
<1>10. Row(c).cmd # c
  BY <1>4, CommandFacts DEF WInv, Calls, Row, NoRow
<1>11. Types'
  <2>1. /\ submitPc' \in [Commands -> SubmitStates] /\ future' \in [Commands -> FutureStates]
        /\ accepted' \in Seq(Commands)
    BY <1>1, <1>3 DEF WInv, Types, TypeOK, SubmitStates, FutureStates
  <2>2. GateTypeOK'
    BY <1>1 DEF WInv, Types, TypeOK, gateVars, GateTypeOK
  <2>3. InScheduler' \subseteq InScheduler \cup {c}
    BY <1>7 DEF InScheduler
  <2>4. IsFiniteSet(InScheduler) /\ Depth \in Nat
    BY <1>3, SchedulerFinite
  <2>5. /\ IsFiniteSet(InScheduler \cup {c})
        /\ Cardinality(InScheduler \cup {c}) <= Depth + 1
        /\ Cardinality(InScheduler \cup {c}) \in Nat
    BY <2>4, FS_AddElement, FS_CardinalityType DEF Depth
  <2>6. Depth' <= Depth + 1 /\ Depth' \in Nat
    BY <2>3, <2>4, <2>5, FS_Subset, FS_CardinalityType DEF Depth
  <2>7. Depth' <= Capacity
    BY <1>1, <2>4, <2>6, BoundsAssumption
  <2> QED
    BY <1>1, <1>2, <1>7, <2>1, <2>2, <2>7 DEF WInv, Types, TypeOK
<1>12. Calls'
  BY <1>1, <1>2, <1>4, <1>5, <1>6 DEF WInv, Calls
<1>13. \A d : Row(d)' = Row(d)
  BY <1>2 DEF Row
<1>14. Queued'
  <2>1. Waits(c)'
    BY <1>2, <1>5, <1>6, <1>9, <1>10, <1>13 DEF Waits
  <2>2. ASSUME NEW d \in Commands, Waits(d) PROVE Waits(d)' /\ d # c /\ Earlier(d, c)'
    BY <1>2, <1>5, <1>6, <1>13, <2>2 DEF Waits
  <2> SUFFICES ASSUME NEW x \in OrderingKeys
               PROVE  /\ \A i \in DOMAIN queue'[x] :
                           Waits(queue[x][i])' /\ OrderingKey[queue'[x][i]] = x
                      /\ \A i, j \in DOMAIN queue'[x] :
                           i < j => Earlier(queue[x][i], queue[x][j])'
                                    /\ queue'[x][i] # queue'[x][j]
    BY DEF Queued
  <2>3. \A i \in DOMAIN queue[x] : Waits(queue[x][i]) /\ OrderingKey[queue[x][i]] = x
    BY DEF WInv, Queued
  <2>4. \A i \in DOMAIN queue'[x] :
          Waits(queue[x][i])' /\ OrderingKey[queue'[x][i]] = x
    BY <1>7, <1>8, <2>1, <2>2, <2>3
  <2>5. ASSUME NEW i \in DOMAIN queue'[x], NEW j \in DOMAIN queue'[x], i < j
        PROVE  Earlier(queue[x][i], queue[x][j])' /\ queue'[x][i] # queue'[x][j]
    <3>1. i \in DOMAIN queue[x] /\ queue'[x][i] = queue[x][i]
      BY <1>7, <2>5
    <3>2. CASE j \in DOMAIN queue[x] /\ queue'[x][j] = queue[x][j]
      BY <1>6, <2>5, <3>1, <3>2 DEF WInv, Queued
    <3>3. CASE queue'[x][j] = c
      BY <1>8, <2>2, <2>3, <3>1, <3>3
    <3> QED
      BY <1>7, <3>2, <3>3
  <2> QED
    BY <2>4, <2>5
<1>15. InOrder'
  <2>1. \A i \in DOMAIN applied : Accepted(applied[i]) /\ applied[i] \in Commands
    BY <1>3 DEF WInv, InOrder
  <2>2. KeyFifo'
    BY <1>2, <1>6 DEF WInv, InOrder, KeyFifo, Earlier
  <2>3. ASSUME NEW i \in DOMAIN applied, NEW j \in DOMAIN queue'[OrderingKey[applied[i]]]
        PROVE  Earlier(applied[i], queue[OrderingKey[applied[i]]][j])'
    <3> DEFINE x == OrderingKey[applied[i]]
    <3>1. x \in OrderingKeys /\ Accepted(applied[i]) /\ applied' = applied
      BY <1>2, <2>1, CommandFacts
    <3>2. \A m \in DOMAIN queue[x] : Earlier(applied[i], queue[x][m])
      BY DEF WInv, InOrder
    <3>3. j \in DOMAIN queue'[x]
      BY <3>1
    <3> HIDE DEF x
    <3>4. \A d, e : d = applied[i] /\ e = queue'[x][j] => Earlier(d, e)'
      BY <1>6, <1>7, <3>1, <3>2, <3>3
    <3> QED
      BY <3>1, <3>4 DEF x
  <2>4. ASSUME NEW d \in current, NEW j \in DOMAIN queue'[OrderingKey[d]]
        PROVE  Earlier(d, queue[OrderingKey[d]][j])'
    <3> DEFINE x == OrderingKey[d]
    <3>1. d \in Commands /\ x \in OrderingKeys /\ Accepted(d)
      BY <1>3, <1>9, CommandFacts
    <3>2. CASE j \in DOMAIN queue[x] /\ queue'[x][j] = queue[x][j]
      <4>1. Earlier(d, queue[x][j])
        BY <3>2 DEF WInv, InOrder
      <4>2. Earlier(d, queue[x][j])'
        BY <1>6, <3>2, <4>1
      <4> QED
        BY <4>2
    <3>3. CASE queue'[x][j] = c
      BY <1>6, <3>1, <3>3
    <3> QED
      BY <1>7, <3>1, <3>2, <3>3
  <2>5. \A d \in current : \A i \in DOMAIN applied :
          applied[i] # d /\ OrderingKey[applied[i]] = OrderingKey[d] => Earlier(applied[i], d)'
    BY <1>2, <1>6 DEF WInv, InOrder
  <2>6. \A i \in DOMAIN applied :
          Accepted(applied[i])' /\ Row(applied[i])' = [status |-> "COMMITTED", cmd |-> applied[i]]
    BY <1>2, <1>6, <1>13 DEF WInv, InOrder
  <2> QED
    BY <1>2, <2>2, <2>3, <2>4, <2>5, <2>6 DEF InOrder
<1>16. Phase'
  <2>1. \A d \in Commands : Accepted(d) => Accepted(d)' /\ future'[d] = future[d]
    BY <1>5, <1>6
  <2> QED
    BY <1>1, <2>1, PhaseStands
<1>17. (OpenRowsOwned /\ UnknownFailsClosed /\ RegistrySeesPending)'
  BY <1>1, <1>2, <1>5 DEF WInv, OpenRowsOwned, UnknownFailsClosed, RegistrySeesPending
<1> QED
  BY <1>11, <1>12, <1>14, <1>15, <1>16, <1>17 DEF WInv

-----------------------------------------------------------------------------
(* The writer thread between commands, its end, and the end of the process. *)

\* The parts of the invariant about tables and calls, where only the writer's
\* progress, its counters and the gate move.
LEMMA TablesStand ==
  ASSUME WInv, UNCHANGED <<durable, submitPc, ticket, accepted, future, queue>>,
         current' = {}, GateTypeOK', held' \in Nat, unconfirmed' \in Nat,
         attempt' \in 0..MaxAttempts, local' \in Locals, inflight' \subseteq Commands,
         writerPc' \in Resting \ StartStates
  PROVE  (Types /\ Calls /\ Queued /\ InOrder /\ Phase)'
<1>1. journal' = journal /\ applied' = applied
  BY DEF durable
<1>2. Depth' = Depth
  BY DEF Depth, InScheduler
<1>3. writerPc' \in WriterStates /\ writerPc' \notin StartStates
  BY DEF Resting, WriterStates
<1>4. Types'
  BY <1>1, <1>2, <1>3 DEF WInv, Types, TypeOK
<1>5. Calls'
  BY <1>1, <1>3 DEF WInv, Calls, Accepted
<1>6. Queued'
  BY <1>1 DEF WInv, Queued, Waits, Accepted, Earlier, Row
<1>7. InOrder'
  BY <1>1 DEF WInv, InOrder, KeyFifo, Accepted, Earlier, Row
<1>8. Phase'
  BY DEF Phase
<1> QED
  BY <1>4, <1>5, <1>6, <1>7, <1>8

LEMMA CloseKeeps ==
  ASSUME WInv, Close
  PROVE  WInv'
<1>1. UNCHANGED <<gateVars, durable, submitVars, future, queue, ready, countVars, writerVars>>
  BY DEF Close
<1>2. /\ UNCHANGED <<journal, applied, submitPc, ticket, accepted, future, queue, ready>>
      /\ UNCHANGED <<held, unconfirmed, inflight, state, writerPc, current, attempt, local>>
      /\ Depth' = Depth /\ GateTypeOK'
  BY <1>1 DEF durable, submitVars, countVars, writerVars, Depth, InScheduler, gateVars,
              GateTypeOK, WInv, Types, TypeOK
<1>3. Types'
  BY <1>2 DEF WInv, Types, TypeOK
<1>4. Calls' /\ Queued' /\ InOrder'
  BY <1>2 DEF WInv, Calls, Queued, InOrder, KeyFifo, Waits, Accepted, Earlier, Row
<1>5. Phase'
  BY <1>1, <1>2, PhaseStands DEF Accepted
<1>6. (OpenRowsOwned /\ UnknownFailsClosed /\ RegistrySeesPending)'
  BY <1>2 DEF WInv, OpenRowsOwned, UnknownFailsClosed, RegistrySeesPending
<1> QED
  BY <1>3, <1>4, <1>5, <1>6 DEF WInv

\* RUNNING is published while nothing can be submitted yet.
LEMMA AnnounceKeeps ==
  ASSUME WInv, Announce
  PROVE  WInv'
<1>1. /\ writerPc = "start" /\ writerPc' = "recover"
      /\ UNCHANGED <<gateVars, journal, applied, submitPc, ticket, accepted, future, queue,
                     ready, held, unconfirmed, inflight, current, attempt, local>>
  BY DEF Announce, Goto, CallerSide, submitVars, durable
<1>2. /\ ~ready
      /\ \A c \in Commands : submitPc[c] \notin {"registered", "put", "accounted"}
  BY <1>1 DEF WInv, Calls, StartStates
<1>3. Types'
  <2>1. GateTypeOK' /\ Depth' = Depth
    BY <1>1 DEF WInv, Types, TypeOK, gateVars, GateTypeOK, Depth, InScheduler
  <2> QED
    BY <1>1, <2>1 DEF WInv, Types, TypeOK, WriterStates
<1>4. Calls'
  BY <1>1, <1>2 DEF WInv, Calls, Accepted
<1>5. Queued' /\ InOrder'
  BY <1>1 DEF WInv, Queued, InOrder, KeyFifo, Waits, Accepted, Earlier, Row
<1>6. Phase'
  BY <1>1 DEF WInv, Phase, Resting, StartStates
<1>7. (OpenRowsOwned /\ UnknownFailsClosed /\ RegistrySeesPending)'
  BY <1>1, <1>2 DEF OpenRowsOwned, UnknownFailsClosed, RegistrySeesPending
<1> QED
  BY <1>3, <1>4, <1>5, <1>6, <1>7 DEF WInv

\* Recovery closes every open row, before anything can be submitted.
LEMMA RecoverKeeps ==
  ASSUME WInv, Recover
  PROVE  WInv'
<1>1. /\ writerPc = "recover" /\ writerPc' = "reconcile" /\ unconfirmed' = 0
      /\ journal' = [k \in Keys |->
           IF journal[k].status \in OpenStatuses
           THEN [journal[k] EXCEPT !.status = "FAILED"] ELSE journal[k]]
      /\ UNCHANGED <<gateVars, applied, submitPc, ticket, accepted, future, queue, closing,
                     ready, state, held, inflight, current, attempt, local>>
  BY DEF Recover, Goto, CallerSide, submitVars
<1>2. \A k \in Keys : /\ journal'[k] \in JournalRow
                      /\ journal'[k] = NoRow <=> journal[k] = NoRow
                      /\ journal'[k].cmd = journal[k].cmd
                      /\ journal'[k].status \notin OpenStatuses
                      /\ journal[k].status = "COMMITTED" => journal'[k] = journal[k]
  <2> SUFFICES ASSUME NEW k \in Keys
               PROVE  /\ journal'[k] \in JournalRow
                      /\ journal'[k] = NoRow <=> journal[k] = NoRow
                      /\ journal'[k].cmd = journal[k].cmd
                      /\ journal'[k].status \notin OpenStatuses
                      /\ journal[k].status = "COMMITTED" => journal'[k] = journal[k]
    OBVIOUS
  <2>1. journal[k] \in JournalRow
    BY DEF WInv, Types
  <2>2. journal'[k] = IF journal[k].status \in OpenStatuses
                      THEN [journal[k] EXCEPT !.status = "FAILED"] ELSE journal[k]
    BY <1>1
  <2> QED
    BY <2>1, <2>2 DEF JournalRow, NoRow, Statuses
<1>3. journal' \in [Keys -> JournalRow]
  BY <1>1, <1>2
<1>4. current = {} /\ \A c \in Commands : submitPc[c] \notin {"registered", "put", "accounted"}
  BY <1>1 DEF WInv, Phase, Resting, Calls
<1>5. Types'
  <2>1. \A k \in Keys : /\ journal'[k].status \in Statuses
                        /\ journal'[k] # NoRow => Idem[journal'[k].cmd] = k
    BY <1>2 DEF WInv, Types, JournalRow, NoRow, Statuses
  <2>2. Depth' = Depth /\ GateTypeOK'
    BY <1>1 DEF Depth, InScheduler, WInv, Types, TypeOK, gateVars, GateTypeOK
  <2> QED
    BY <1>1, <1>3, <2>1, <2>2 DEF WInv, Types, TypeOK, WriterStates
<1>6. Calls'
  BY <1>1, <1>2 DEF WInv, Calls, Accepted
<1>7. \A c \in Commands : /\ Row(c)'.cmd = Row(c).cmd
                          /\ Row(c).status = "COMMITTED" => Row(c)' = Row(c)
  BY <1>2, CommandFacts DEF Row
<1>8. Queued'
  <2>1. \A k \in OrderingKeys : \A i \in DOMAIN queue[k] : queue[k][i] \in Commands
    BY DEF WInv, Types, TypeOK
  <2> QED
    BY <1>1, <1>7, <2>1 DEF WInv, Queued, Waits, Accepted, Earlier
<1>9. InOrder'
  <2>1. \A i \in DOMAIN applied : applied[i] \in Commands
    BY DEF WInv, Types, TypeOK
  <2> QED
    BY <1>1, <1>4, <1>7, <2>1 DEF WInv, InOrder, KeyFifo, Accepted, Earlier
<1>10. Phase'
  BY <1>1, <1>4 DEF Phase, Resting
<1>11. (OpenRowsOwned /\ UnknownFailsClosed /\ RegistrySeesPending)'
  BY <1>1, <1>2, <1>4 DEF OpenRowsOwned, UnknownFailsClosed, RegistrySeesPending
<1> QED
  BY <1>5, <1>6, <1>8, <1>9, <1>10, <1>11 DEF WInv

\* Submissions are let in with no row left open.
LEMMA ReadyKeeps ==
  ASSUME WInv, Ready
  PROVE  WInv'
<1>1. /\ writerPc = "reconcile" /\ writerPc' = "idle"
      /\ UNCHANGED <<gateVars, durable, submitPc, ticket, accepted, future, queue,
                     held, unconfirmed, inflight, state, current, attempt, local>>
  BY DEF Ready, Goto, countVars, submitVars
<1>2. /\ journal' = journal
      /\ \A k \in Keys : journal[k].status \notin OpenStatuses
      /\ \A c \in Commands : submitPc[c] \notin {"registered", "put", "accounted"}
  BY <1>1 DEF WInv, Calls, StartStates, durable
<1>3. GateTypeOK'
  BY <1>1 DEF WInv, Types, TypeOK, gateVars, GateTypeOK
<1>4. /\ current' = {} /\ attempt' \in 0..MaxAttempts /\ local' \in Locals
      /\ held' \in Nat /\ unconfirmed' \in Nat /\ inflight' \subseteq Commands
  BY <1>1 DEF WInv, Types, TypeOK, Phase, Resting, StartStates
<1>5. writerPc' \in Resting \ StartStates
  BY <1>1 DEF Resting, StartStates
<1>6. (Types /\ Calls /\ Queued /\ InOrder /\ Phase)'
  BY <1>1, <1>3, <1>4, <1>5, TablesStand
<1>7. (OpenRowsOwned /\ UnknownFailsClosed /\ RegistrySeesPending)'
  BY <1>1, <1>2 DEF OpenRowsOwned, UnknownFailsClosed, RegistrySeesPending
<1> QED
  BY <1>6, <1>7 DEF WInv

LEMMA GetKeeps ==
  ASSUME WInv, NEW c \in Commands, Get(c)
  PROVE  WInv'
<1> DEFINE k == OrderingKey[c]
<1>1. /\ writerPc = "idle" /\ writerPc' = "acquire" /\ c \in Heads
      /\ queue' = [queue EXCEPT ![k] = Tail(@)] /\ current' = {c}
      /\ UNCHANGED <<gateVars, journal, applied, submitPc, ticket, accepted, future, ready,
                     held, unconfirmed, inflight, state, attempt, local>>
  BY DEF Get, Goto, durable, submitVars, countVars
<1>2. k \in OrderingKeys /\ queue \in [OrderingKeys -> Seq(Commands)] /\ current = {}
  BY <1>1, CommandFacts DEF WInv, Types, TypeOK, Phase, Resting
<1>3. queue[k] # <<>> /\ c = queue[k][1] /\ 1 \in DOMAIN queue[k]
  <2>1. PICK x \in OrderingKeys : queue[x] # <<>> /\ c = queue[x][1]
    BY <1>1 DEF Heads
  <2>2. 1 \in DOMAIN queue[x]
    BY <1>2, <2>1
  <2>3. x = k
    BY <2>1, <2>2 DEF WInv, Queued
  <2> QED
    BY <2>1, <2>2, <2>3
<1>4. /\ queue' \in [OrderingKeys -> Seq(Commands)]
      /\ \A x \in OrderingKeys : x # k => queue'[x] = queue[x]
      /\ \A i \in DOMAIN queue'[k] :
           i + 1 \in DOMAIN queue[k] /\ queue'[k][i] = queue[k][i + 1] /\ 1 < i + 1
  BY <1>1, <1>2, <1>3
<1>5. /\ Accepted(c) /\ future[c] = "pending" /\ Row(c).cmd # c
  BY <1>2, <1>3 DEF WInv, Queued, Waits
<1>6. Types'
  <2>1. InScheduler' \subseteq InScheduler
    <3> SUFFICES ASSUME NEW x \in OrderingKeys, NEW i \in DOMAIN queue'[x]
                 PROVE  queue'[x][i] \in InScheduler
      BY DEF InScheduler
    <3> QED
      BY <1>4, InQueue
  <2>2. IsFiniteSet(InScheduler) /\ Depth \in Nat
    BY <1>2, SchedulerFinite
  <2>3. Depth' <= Depth /\ Depth' \in Nat
    BY <2>1, <2>2, FS_Subset, FS_CardinalityType DEF Depth
  <2>4. Depth' <= Capacity
    BY <2>2, <2>3, BoundsAssumption DEF WInv, Types, TypeOK
  <2>5. GateTypeOK'
    BY <1>1 DEF WInv, Types, TypeOK, gateVars, GateTypeOK
  <2> QED
    BY <1>1, <1>4, <2>4, <2>5 DEF WInv, Types, TypeOK, WriterStates
<1>7. Calls'
  BY <1>1 DEF WInv, Calls, Accepted
<1>8. /\ \A d : Accepted(d)' <=> Accepted(d)
      /\ \A d : Row(d)' = Row(d)
      /\ \A d, e : Earlier(d, e)' <=> Earlier(d, e)
  BY <1>1 DEF Accepted, Row, Earlier
<1>9. Queued'
  <2> SUFFICES ASSUME NEW x \in OrderingKeys
               PROVE  /\ \A i \in DOMAIN queue'[x] :
                           Waits(queue[x][i])' /\ OrderingKey[queue'[x][i]] = x
                      /\ \A i, j \in DOMAIN queue'[x] :
                           i < j => Earlier(queue[x][i], queue[x][j])'
                                    /\ queue'[x][i] # queue'[x][j]
    BY DEF Queued
  <2>1. \A d : Waits(d) /\ d # c => Waits(d)'
    BY <1>1, <1>8 DEF Waits
  <2>2. CASE x # k
    <3>1. queue'[x] = queue[x]
      BY <1>4, <2>2
    <3>2. \A i \in DOMAIN queue[x] : queue[x][i] # c
      BY <2>2 DEF WInv, Queued
    <3> QED
      BY <1>8, <2>1, <3>1, <3>2 DEF WInv, Queued
  <2>3. CASE x = k
    <3>1. \A i \in DOMAIN queue'[k] : queue'[k][i] # c
      BY <1>2, <1>3, <1>4 DEF WInv, Queued
    <3>2. \A i \in DOMAIN queue'[k] :
            Waits(queue[k][i])' /\ OrderingKey[queue'[k][i]] = k
      BY <1>2, <1>4, <2>1, <3>1 DEF WInv, Queued
    <3>3. ASSUME NEW i \in DOMAIN queue'[k], NEW j \in DOMAIN queue'[k], i < j
          PROVE  Earlier(queue[k][i], queue[k][j])' /\ queue'[k][i] # queue'[k][j]
      <4>0. queue'[k] \in Seq(Commands)
        BY <1>2, <1>4
      <4>1. i + 1 < j + 1
        BY <3>3, <4>0
      <4>2. /\ Earlier(queue[k][i + 1], queue[k][j + 1])
            /\ queue[k][i + 1] # queue[k][j + 1]
        BY <1>2, <1>4, <4>1 DEF WInv, Queued
      <4> QED
        BY <1>4, <1>8, <4>2
    <3> QED
      BY <2>3, <3>2, <3>3
  <2> QED
    BY <2>2, <2>3
<1>10. InOrder'
  <2>1. \A i \in DOMAIN applied : applied[i] \in Commands
    BY DEF WInv, Types, TypeOK
  <2>2. KeyFifo'
    BY <1>1 DEF WInv, InOrder, KeyFifo
  <2>3. \A i \in DOMAIN applied : OrderingKey[applied[i]] = k => Earlier(applied[i], c)
    BY <1>3 DEF WInv, InOrder
  <2>4. ASSUME NEW j \in DOMAIN queue'[k] PROVE Earlier(c, queue'[k][j])
    BY <1>2, <1>3, <1>4 DEF WInv, Queued
  <2>5. ASSUME NEW i \in DOMAIN applied, NEW j \in DOMAIN queue'[OrderingKey[applied[i]]]
        PROVE  Earlier(applied[i], queue'[OrderingKey[applied[i]]][j])
    <3> DEFINE x == OrderingKey[applied[i]]
    <3>1. x \in OrderingKeys
      BY <2>1, CommandFacts
    <3>2. \A m \in DOMAIN queue[x] : Earlier(applied[i], queue[x][m])
      BY DEF WInv, InOrder
    <3> HIDE DEF x
    <3>3. j \in DOMAIN queue'[x] => \E m \in DOMAIN queue[x] : queue'[x][j] = queue[x][m]
      BY <1>4, <3>1
    <3>4. j \in DOMAIN queue'[x] => Earlier(applied[i], queue'[x][j])
      BY <3>2, <3>3
    <3> QED
      BY <3>4 DEF x
  <2>6. \A i \in DOMAIN applied :
          Accepted(applied[i]) /\ Row(applied[i]) = [status |-> "COMMITTED", cmd |-> applied[i]]
    BY DEF WInv, InOrder
  <2> QED
    BY <1>1, <1>8, <2>2, <2>3, <2>4, <2>5, <2>6 DEF InOrder
<1>11. Phase'
  <2>1. Accepted(c)' /\ future'[c] = "pending" /\ Row(c)'.cmd # c
    BY <1>1, <1>5, <1>8
  <2> QED
    BY <1>1, <2>1 DEF Phase, InPhase, Resting
<1>12. (OpenRowsOwned /\ UnknownFailsClosed /\ RegistrySeesPending)'
  BY <1>1, <1>2 DEF WInv, OpenRowsOwned, UnknownFailsClosed, RegistrySeesPending
<1> QED
  BY <1>6, <1>7, <1>9, <1>10, <1>11, <1>12 DEF WInv

LEMMA ReleaseKeeps ==
  ASSUME WInv, Release
  PROVE  WInv'
<1>1. /\ writerPc = "release" /\ writerPc' = "idle" /\ ReleaseCritical /\ current' = {}
      /\ attempt' = 0 /\ local' = NoLocals
      /\ UNCHANGED <<durable, submitPc, ticket, accepted, future, queue,
                     ready, held, unconfirmed, inflight, state>>
  BY DEF Release, Goto, countVars, CallerSide, submitVars
<1>2. GateTypeOK'
  <2>1. GateTypeOK
    BY DEF WInv, Types, TypeOK
  <2>2. criticalPending' \in Nat
    BY <1>1, <2>1 DEF ReleaseCritical, GateTypeOK, DecToZero
  <2>3. /\ criticalActive' = FALSE
        /\ UNCHANGED <<telemetryActive, maintenanceWaiting, maintenanceActive>>
    BY <1>1 DEF ReleaseCritical
  <2> QED
    BY <2>1, <2>2, <2>3 DEF GateTypeOK
<1>3. /\ attempt' \in 0..MaxAttempts /\ local' \in Locals /\ held' \in Nat
      /\ unconfirmed' \in Nat /\ inflight' \subseteq Commands
  BY <1>1, BoundsAssumption DEF NoLocals, Locals, WInv, Types, TypeOK
<1>4. (Types /\ Calls /\ Queued /\ InOrder /\ Phase)'
  BY <1>1, <1>2, <1>3, TablesStand DEF Resting
<1>5. OpenRowsOwned'
  <2> SUFFICES ASSUME ready, state = "RUNNING", NEW k \in Keys,
                      journal[k].status \in OpenStatuses
               PROVE  FALSE
    BY <1>1 DEF OpenRowsOwned, durable
  <2>1. journal[k].cmd \in current
    BY DEF WInv, OpenRowsOwned
  <2>2. PICK c \in current : journal[k].cmd = c
    BY <2>1
  <2>3. Idem[c] = k /\ Row(c) = journal[k]
    BY <2>2 DEF WInv, Types, NoRow, Row
  <2> QED
    BY <1>1, <2>2, <2>3 DEF WInv, Phase, InPhase
<1>6. (UnknownFailsClosed /\ RegistrySeesPending)'
  BY <1>1 DEF WInv, UnknownFailsClosed, RegistrySeesPending
<1> QED
  BY <1>4, <1>5, <1>6 DEF WInv

\* The thread stops, fails to start, or dies and drops the gate's accounting.
LEMMA EndKeeps ==
  ASSUME WInv, Stop \/ StartFails \/ ResetGate
  PROVE  WInv'
<1>1. /\ writerPc \in StartStates \cup {"idle", "failing"}
      /\ writerPc' \in {"stopped", "failing", "dead"}
      /\ \/ UNCHANGED gateVars
         \/ ResetCritical
      /\ state' \in {state, "STOPPED", "FAILED"}
      /\ UNCHANGED <<durable, submitPc, ticket, accepted, future, queue,
                     ready, held, unconfirmed, inflight, current, attempt, local>>
  BY DEF Stop, StartFails, ResetGate, Goto, countVars, CallerSide, submitVars
<1>2. GateTypeOK'
  <2>1. GateTypeOK
    BY DEF WInv, Types, TypeOK
  <2>2. CASE UNCHANGED gateVars
    BY <2>1, <2>2 DEF gateVars, GateTypeOK
  <2>3. CASE ResetCritical
    <3>1. /\ criticalPending' = 0 /\ criticalActive' = FALSE
          /\ UNCHANGED <<telemetryActive, maintenanceWaiting, maintenanceActive>>
      BY <2>3 DEF ResetCritical
    <3> QED
      BY <2>1, <3>1 DEF GateTypeOK
  <2> QED
    BY <1>1, <2>2, <2>3
<1>3. /\ attempt' \in 0..MaxAttempts /\ local' \in Locals /\ held' \in Nat
      /\ unconfirmed' \in Nat /\ inflight' \subseteq Commands /\ current' = {}
  BY <1>1 DEF WInv, Types, TypeOK, Phase, Resting
<1>4. (Types /\ Calls /\ Queued /\ InOrder /\ Phase)'
  BY <1>1, <1>2, <1>3, TablesStand DEF Resting
<1>5. (OpenRowsOwned /\ UnknownFailsClosed /\ RegistrySeesPending)'
  BY <1>1 DEF WInv, OpenRowsOwned, UnknownFailsClosed, RegistrySeesPending, durable
<1> QED
  BY <1>4, <1>5 DEF WInv

\* The thread fails: what is queued is dropped.
LEMMA DropKeeps ==
  ASSUME WInv, FailAll
  PROVE  WInv'
<1>1. /\ writerPc = "idle" /\ writerPc' = "failing" /\ state' = "FAILED"
      /\ queue' = [k \in OrderingKeys |-> <<>>]
      /\ future' = [c \in Commands |-> IF c \in InScheduler THEN "dropped" ELSE future[c]]
      /\ UNCHANGED <<gateVars, durable, submitPc, ticket, accepted,
                     held, unconfirmed, inflight, current, attempt, local>>
  BY DEF FailAll, Goto, submitVars
<1>2. journal' = journal /\ applied' = applied /\ current = {}
  BY <1>1 DEF durable, WInv, Phase, Resting
<1>3. ASSUME NEW c \in InScheduler, c \in Commands PROVE future[c] = "pending"
  BY <1>3, InQueue DEF WInv, Queued, Waits
<1>4. future' \in [Commands -> FutureStates]
  BY <1>1 DEF WInv, Types, TypeOK, FutureStates
<1>5. \A c \in Commands : \/ future'[c] = future[c]
                          \/ future'[c] = "dropped" /\ future[c] = "pending"
  BY <1>1, <1>3
<1>6. Types'
  <2>1. GateTypeOK'
    BY <1>1 DEF WInv, Types, TypeOK, gateVars, GateTypeOK
  <2>2. Depth' = 0 /\ queue' \in [OrderingKeys -> Seq(Commands)]
    BY <1>1, EmptyScheduler
  <2> QED
    BY <1>1, <1>2, <1>4, <2>1, <2>2, BoundsAssumption DEF WInv, Types, TypeOK, WriterStates
<1>7. Calls'
  BY <1>1, <1>2, <1>5 DEF WInv, Calls, Accepted
<1>8. Queued'
  BY <1>1 DEF Queued
<1>9. InOrder'
  <2>1. \A i \in DOMAIN applied : OrderingKey[applied[i]] \in OrderingKeys
    BY CommandFacts DEF WInv, Types, TypeOK
  <2> QED
    BY <1>1, <1>2, <2>1 DEF WInv, InOrder, KeyFifo, Accepted, Earlier, Row
<1>10. Phase'
  BY <1>1, <1>2 DEF Phase, Resting
<1>11. (OpenRowsOwned /\ UnknownFailsClosed /\ RegistrySeesPending)'
  BY <1>1, <1>5 DEF WInv, OpenRowsOwned, UnknownFailsClosed, RegistrySeesPending
<1> QED
  BY <1>6, <1>7, <1>8, <1>9, <1>10, <1>11 DEF WInv

LEMMA CrashKeeps ==
  ASSUME WInv, Crash
  PROVE  WInv'
<1>1. /\ ResetCritical /\ writerPc' = "start" /\ state' = "NEW" /\ ready' = FALSE
      /\ submitPc' = [c \in Commands |->
                        IF submitPc[c] \in {"registered", "put", "accounted"}
                        THEN "lost" ELSE submitPc[c]]
      /\ future' = [c \in Commands |-> IF future[c] = "pending" THEN "lost" ELSE future[c]]
      /\ queue' = [k \in OrderingKeys |-> <<>>]
      /\ held' = 0 /\ unconfirmed' = 0 /\ inflight' = {} /\ current' = {}
      /\ attempt' = 0 /\ local' = NoLocals
      /\ UNCHANGED <<durable, ticket, accepted>>
  BY DEF Crash
<1>2. journal' = journal /\ applied' = applied
  BY <1>1 DEF durable
<1>3. Types'
  <2>1. GateTypeOK'
    BY <1>1 DEF WInv, Types, TypeOK, ResetCritical, GateTypeOK
  <2>2. Depth' = 0 /\ queue' \in [OrderingKeys -> Seq(Commands)]
    BY <1>1, EmptyScheduler
  <2>3. /\ submitPc' \in [Commands -> SubmitStates]
        /\ future' \in [Commands -> FutureStates]
    BY <1>1 DEF WInv, Types, TypeOK, SubmitStates, FutureStates
  <2>4. local' \in Locals /\ attempt' \in 0..MaxAttempts
    BY <1>1, BoundsAssumption DEF NoLocals, Locals
  <2> QED
    BY <1>1, <1>2, <2>1, <2>2, <2>3, <2>4, BoundsAssumption
    DEF WInv, Types, TypeOK, WriterStates
<1>4. Calls'
  BY <1>1, <1>2 DEF WInv, Calls, Accepted
<1>5. Queued'
  BY <1>1 DEF Queued
<1>6. InOrder'
  <2>1. \A i \in DOMAIN applied : OrderingKey[applied[i]] \in OrderingKeys
    BY CommandFacts DEF WInv, Types, TypeOK
  <2> QED
    BY <1>1, <1>2, <2>1 DEF WInv, InOrder, KeyFifo, Accepted, Earlier, Row
<1>7. Phase'
  BY <1>1 DEF Phase, Resting
<1>8. (OpenRowsOwned /\ UnknownFailsClosed /\ RegistrySeesPending)'
  BY <1>1 DEF OpenRowsOwned, UnknownFailsClosed, RegistrySeesPending
<1> QED
  BY <1>3, <1>4, <1>5, <1>6, <1>7, <1>8 DEF WInv

LEMMA StutterKeeps ==
  ASSUME WInv, UNCHANGED vars
  PROVE  WInv'
<1>1. /\ UNCHANGED <<gateVars, journal, applied, submitPc, ticket, accepted, future, queue,
                     ready, held, unconfirmed, inflight, state, writerPc, current, attempt, local>>
      /\ UNCHANGED <<durable, writerVars>>
  BY DEF vars, durable, submitVars, countVars, writerVars
<1>2. Types'
  <2>1. GateTypeOK' /\ Depth' = Depth
    BY <1>1 DEF WInv, Types, TypeOK, gateVars, GateTypeOK, Depth, InScheduler
  <2> QED
    BY <1>1, <2>1 DEF WInv, Types, TypeOK
<1>3. Calls' /\ Queued' /\ InOrder'
  BY <1>1 DEF WInv, Calls, Queued, InOrder, KeyFifo, Waits, Accepted, Earlier, Row
<1>4. Phase'
  BY <1>1, PhaseStands DEF Accepted
<1>5. (OpenRowsOwned /\ UnknownFailsClosed /\ RegistrySeesPending)'
  BY <1>1 DEF WInv, OpenRowsOwned, UnknownFailsClosed, RegistrySeesPending
<1> QED
  BY <1>2, <1>3, <1>4, <1>5 DEF WInv

LEMMA InitWInv == Init => WInv
<1> SUFFICES ASSUME Init PROVE WInv
  OBVIOUS
<1>1. Types
  <2>1. InScheduler = {} /\ Depth = 0
    BY FS_EmptySet DEF Init, InScheduler, Depth
  <2>2. Cardinality(Commands) \in Nat
    BY CommandsAssumption, FS_CardinalityType
  <2>3. GateTypeOK
    BY DEF Init, GateInit, GateTypeOK
  <2>4. 0 \in 0..Cardinality(Commands) /\ 0 \in 0..MaxAttempts /\ 0 <= Capacity
    BY <2>2, BoundsAssumption
  <2>5. journal \in [Keys -> JournalRow] /\ local \in Locals
    BY DEF Init, JournalRow, NoLocals, Locals
  <2>6. \A k \in Keys : journal[k].status \in Statuses /\ journal[k] = NoRow
    BY DEF Init, NoRow, Statuses
  <2>7. /\ submitPc \in [Commands -> SubmitStates] /\ future \in [Commands -> FutureStates]
        /\ writerPc \in WriterStates /\ queue \in [OrderingKeys -> Seq(Commands)]
    BY DEF Init, SubmitStates, FutureStates, WriterStates
  <2>8. applied \in Seq(Commands) /\ accepted \in Seq(Commands) /\ held \in Nat
        /\ unconfirmed \in Nat /\ inflight \subseteq Commands /\ current \subseteq Commands
    BY DEF Init
  <2>9. ticket \in [Commands -> 0..Cardinality(Commands)] /\ attempt \in 0..MaxAttempts
    BY <2>4 DEF Init
  <2> QED
    BY <2>1, <2>3, <2>4, <2>5, <2>6, <2>7, <2>8, <2>9 DEF Types, TypeOK
<1>2. Calls
  BY DEF Init, Calls, Accepted
<1>3. Queued /\ InOrder
  BY DEF Init, Queued, InOrder, KeyFifo
<1>4. Phase
  BY DEF Init, Phase, Resting
<1>5. OpenRowsOwned /\ UnknownFailsClosed /\ RegistrySeesPending
  BY DEF Init, OpenRowsOwned, UnknownFailsClosed, RegistrySeesPending
<1> QED
  BY <1>1, <1>2, <1>3, <1>4, <1>5 DEF WInv

LEMMA NextWInv == WInv /\ [Next]_vars => WInv'
<1> SUFFICES ASSUME WInv, [Next]_vars PROVE WInv'
  OBVIOUS
<1>1. CASE SubmitNext
  BY <1>1, RegisterKeeps, PutKeeps, RefuseKeeps, AccountKeeps DEF SubmitNext
<1>2. CASE WriterStep
  BY <1>2, AnnounceKeeps, RecoverKeeps, ReadyKeeps, ReleaseKeeps, EndKeeps, GetKeeps, ProcessKeeps DEF WriterStep
<1> QED
  BY <1>1, <1>2, CloseKeeps, EndKeeps, DropKeeps, CrashKeeps, StutterKeeps DEF Next

\* For any commands and any faults: mutations of one ordering key become
\* durable in the order they were accepted, a lane that reports RUNNING owns
\* every open row once start-up has finished, and a command whose outcome is unknown keeps the lane from
\* reporting RUNNING again.
THEOREM Sound == Spec => []WriterSound
<1>1. WInv => WriterSound
  BY DEF WInv, Types, InOrder, WriterSound
<1> QED
  BY <1>1, InitWInv, NextWInv, PTL DEF Spec

\* From submit's return until its future resolves a command is in the registry.
THEOREM Registered == Spec => []RegistrySeesPending
<1>1. WInv => RegistrySeesPending
  BY DEF WInv
<1> QED
  BY <1>1, InitWInv, NextWInv, PTL DEF Spec

-----------------------------------------------------------------------------
(* The promise: each step tells one caller, takes one effect, or neither.  *)

Effect == [k \in Keys |-> IF journal[k].status = "COMMITTED" THEN journal[k].cmd ELSE "none"]

LEMMA EffectOf ==
  ASSUME NEW c \in Commands
  PROVE  /\ Effect[Idem[c]] = IF Row(c).status = "COMMITTED" THEN Row(c).cmd ELSE "none"
         /\ c # "none"
  BY CommandFacts DEF Effect, Row

\* Rows may change otherwise; only what is committed counts.
LEMMA EffectStands ==
  ASSUME \A k \in Keys : \/ journal'[k] = journal[k]
                         \/ /\ journal[k].status # "COMMITTED"
                            /\ journal'[k].status # "COMMITTED"
  PROVE  Effect' = Effect
  BY DEF Effect

\* Taking c's effect, telling c an answer, and neither, as the promise says it.
LEMMA Takes ==
  ASSUME NEW c \in Commands, future[c] = "pending", Effect[Idem[c]] = "none",
         Effect' = [Effect EXCEPT ![Idem[c]] = c], future' = future
  PROVE  Promise!Next
  BY DEF Promise!Next, Promise!TakeEffect, Effect

LEMMA Tells ==
  ASSUME NEW c \in Commands, NEW from, NEW to,
         future[c] = from, future' = [future EXCEPT ![c] = to], Effect' = Effect,
         \/ from = "none" /\ to = "pending"
         \/ /\ from = "pending" /\ to = "result" /\ Effect[Idem[c]] # "none"
            /\ Content[Effect[Idem[c]]] = Content[c]
         \/ from = "pending" /\ to = "failed" /\ Effect[Idem[c]] # c
         \/ from = "pending" /\ to = "unknown"
  PROVE  Promise!Next
  BY DEF Promise!Next, Promise!Accept, Promise!Confirm, Promise!Fail, Promise!GiveUp,
         Promise!Tell, Effect

LEMMA Silent ==
  ASSUME future' = future, Effect' = Effect
  PROVE  UNCHANGED Promise!promiseVars
  BY DEF Promise!promiseVars, Effect

Told == Promise!Next \/ UNCHANGED Promise!promiseVars

LEMMA QuietTold ==
  ASSUME UNCHANGED <<journal, future>>
  PROVE  Told
<1>1. Effect' = Effect
  BY DEF Effect
<1> QED
  BY <1>1, Silent DEF Told

\* Every step of processing tells the command's caller the truth.
LEMMA ProcessTold ==
  ASSUME WInv, NEW c \in Commands, Acquire(c) \/ ProcessStep(c)
  PROVE  Told
<1>1. CASE UNCHANGED <<journal, future>>
  BY <1>1, QuietTold
<1>2. ASSUME c \in current, writerPc # "release", UNCHANGED future,
             Row(c).status # "COMMITTED", journal' \in [Keys -> JournalRow],
             \A k \in Keys : k # Idem[c] => journal'[k] = journal[k],
             journal'[Idem[c]].status # "COMMITTED"
      PROVE  Told
  <2>1. Effect' = Effect
    BY <1>2, EffectStands, CommandFacts DEF Row
  <2> QED
    BY <1>2, <2>1, Silent DEF Told
<1>3. CASE JournalInsert(c) \/ JournalError(c)
  <2>1. /\ c \in current /\ writerPc = "journal" /\ UNCHANGED future /\ Row(c).status = "NONE"
        /\ \/ journal' = journal
           \/ journal' = [journal EXCEPT ![Idem[c]] = [status |-> "SUBMITTED", cmd |-> c]]
    BY <1>3 DEF JournalInsert, JournalError, Goto, Quiet
  <2>2. CASE journal' = journal
    BY <2>1, <2>2, QuietTold
  <2>3. CASE journal' = [journal EXCEPT ![Idem[c]] = [status |-> "SUBMITTED", cmd |-> c]]
    <3>1. [status |-> "SUBMITTED", cmd |-> c] \in JournalRow
      BY DEF JournalRow, Statuses
    <3> QED
      BY <1>2, <2>1, <2>3, <3>1, Inner
  <2> QED
    BY <2>1, <2>2, <2>3
<1>4. CASE MarkExecuting(c) \/ (Finalize(c) /\ ~(local.known \/ ~OwnOpenRow(c)))
  <2>1. /\ c \in current /\ writerPc # "release" /\ UNCHANGED future
        /\ Row(c).status # "COMMITTED"
        /\ \E s \in {"EXECUTING", "FAILED"} :
             journal' = [journal EXCEPT ![Idem[c]].status = s]
    BY <1>4 DEF MarkExecuting, Finalize, OwnOpenRow, Goto, Quiet
  <2>2. PICK s \in {"EXECUTING", "FAILED"} : journal' = [journal EXCEPT ![Idem[c]].status = s]
    BY <2>1
  <2>3. /\ \A k \in Keys : k # Idem[c] => journal'[k] = journal[k]
        /\ journal'[Idem[c]] = [Row(c) EXCEPT !.status = s]
    BY <2>1, <2>2, Inner
  <2>4. Row(c) \in JournalRow
    BY <2>1, Inner
  <2>5. journal'[Idem[c]].status = s
    BY <2>3, <2>4 DEF JournalRow, NoRow
  <2>6. Effect' = Effect
    BY <2>1, <2>2, <2>3, <2>5, EffectStands DEF Row
  <2> QED
    BY <2>1, <2>6, Silent DEF Told
<1>5. CASE Commit(c) \/ CommitFails(c)
  <2>1. /\ c \in current /\ writerPc = "commit" /\ UNCHANGED future
        /\ UNCHANGED journal \/ ApplyMutation(c)
    BY <1>5 DEF Commit, CommitFails, RetryFrom, Goto, Quiet, durable
  <2>2. Row(c) = [status |-> "EXECUTING", cmd |-> c] /\ future[c] = "pending"
    BY <2>1, Inner DEF InPhase
  <2>3. CASE ApplyMutation(c)
    <3>1. journal' = [journal EXCEPT ![Idem[c]] = [status |-> "COMMITTED", cmd |-> c]]
      <4>1. [Row(c) EXCEPT !.status = "COMMITTED"] = [status |-> "COMMITTED", cmd |-> c]
        BY <2>2
      <4>2. journal' = [journal EXCEPT ![Idem[c]] = [Row(c) EXCEPT !.status = "COMMITTED"]]
        BY <2>1, <2>3, Inner DEF ApplyMutation
      <4> QED
        BY <4>1, <4>2
    <3>2. Effect' = [Effect EXCEPT ![Idem[c]] = c]
      <4>1. Idem[c] \in Keys /\ journal \in [Keys -> JournalRow]
        BY <2>1, Inner
      <4> QED
        BY <3>1, <4>1 DEF Effect
    <3>3. Effect[Idem[c]] = "none"
      BY <2>2, EffectOf
    <3> QED
      BY <2>1, <2>2, <3>2, <3>3, Takes DEF Told
  <2> QED
    BY <2>1, <2>3, QuietTold
<1>6. CASE Replay(c) \/ Ack(c)
  <2>1. /\ c \in current /\ writerPc \in {"replay", "ack"}
        /\ future' = [future EXCEPT ![c] = "result"] /\ journal' = journal
    BY <1>6 DEF Replay, Ack, Goto, durable
  <2>2. /\ future[c] = "pending" /\ Row(c).status = "COMMITTED"
        /\ Content[Row(c).cmd] = Content[c]
    BY <2>1, Inner DEF InPhase
  <2>3. Row(c).cmd \in Commands /\ Row(c).cmd # "none"
    BY <2>2, RowFacts, CommandFacts DEF WInv
  <2>4. Effect' = Effect
    BY <2>1, EffectStands
  <2> QED
    BY <2>1, <2>2, <2>3, <2>4, EffectOf, Tells DEF Told
<1>7. CASE FailFinalized(c)
  <2>1. /\ c \in current /\ writerPc = "fail" /\ local.final
        /\ future' = [future EXCEPT ![c] = "failed"] /\ journal' = journal
    BY <1>7 DEF FailFinalized, Goto, durable
  <2>2. future[c] = "pending" /\ (Row(c).cmd = c => Row(c).status = "FAILED")
    BY <2>1, Inner DEF InPhase
  <2>3. Effect[Idem[c]] # c
    BY <2>2, EffectOf
  <2>4. Effect' = Effect
    BY <2>1, EffectStands
  <2> QED
    BY <2>1, <2>2, <2>3, <2>4, Tells DEF Told
<1>8. CASE FailUnknown(c)
  <2>1. /\ c \in current /\ writerPc = "fail"
        /\ future' = [future EXCEPT ![c] = "unknown"] /\ journal' = journal
    BY <1>8 DEF FailUnknown, Goto, durable
  <2>2. future[c] = "pending"
    BY <2>1, Inner
  <2>3. Effect' = Effect
    BY <2>1, EffectStands
  <2> QED
    BY <2>1, <2>2, <2>3, Tells DEF Told
<1>9. CASE Acquire(c) \/ Unhold(c) \/ UnholdFailed(c)
  BY <1>1, <1>9 DEF Acquire, Unhold, UnholdFailed, durable
<1>10. CASE \/ JournalKnown(c) \/ JournalReplay(c) \/ JournalBusy(c) \/ CheckCommitted(c)
            \/ MarkExecutingFails(c) \/ Reject(c) \/ FinalizeFails(c)
            \/ Finalize(c) /\ (local.known \/ ~OwnOpenRow(c))
  <2>1. UNCHANGED <<journal, future>>
    BY <1>10 DEF JournalKnown, JournalReplay, JournalBusy, CheckCommitted, MarkExecutingFails,
                 Reject, FinalizeFails, Finalize, Quiet, durable
  <2> QED
    BY <1>1, <2>1
<1> QED
  BY <1>3, <1>4, <1>5, <1>6, <1>7, <1>8, <1>9, <1>10 DEF ProcessStep

LEMMA NextTold ==
  ASSUME WInv, [Next]_vars
  PROVE  Told
<1>1. ASSUME NEW c \in Commands, Register(c) \/ Refuse(c) \/ Account(c) PROVE Told
  BY <1>1, QuietTold DEF Register, Refuse, Account, Submit, durable
<1>2. ASSUME NEW c \in Commands, Put(c) PROVE Told
  <2>1. /\ submitPc[c] = "registered" /\ journal' = journal
        /\ future' = [future EXCEPT ![c] = "pending"]
    BY <1>2 DEF Put, Submit, durable
  <2>2. future[c] = "none"
    BY <2>1 DEF WInv, Calls
  <2>3. Effect' = Effect
    BY <2>1, EffectStands
  <2> QED
    BY <2>1, <2>2, <2>3, Tells DEF Told
<1>3. CASE Close \/ Announce \/ Ready \/ Release \/ Stop \/ ResetGate \/ StartFails
  BY <1>3, QuietTold DEF Close, Announce, Ready, Release, Stop, ResetGate, StartFails,
                         durable
<1>4. CASE Recover
  <2>1. /\ future' = future
        /\ journal' = [k \in Keys |->
             IF journal[k].status \in OpenStatuses
             THEN [journal[k] EXCEPT !.status = "FAILED"] ELSE journal[k]]
    BY <1>4 DEF Recover
  <2>2. Effect' = Effect
    <3> SUFFICES ASSUME NEW k \in Keys
                 PROVE  \/ journal'[k] = journal[k]
                        \/ journal[k].status # "COMMITTED" /\ journal'[k].status # "COMMITTED"
      BY EffectStands
    <3>1. journal[k] \in JournalRow
      BY DEF WInv, Types
    <3> QED
      BY <2>1, <3>1 DEF JournalRow, NoRow
  <2> QED
    BY <2>1, <2>2, Silent DEF Told
<1>5. ASSUME NEW c \in Commands, Get(c) PROVE Told
  BY <1>5, QuietTold DEF Get, durable
<1>6. CASE FailAll
  <2>1. /\ journal' = journal
        /\ future' = [c \in Commands |-> IF c \in InScheduler THEN "dropped" ELSE future[c]]
    BY <1>6 DEF FailAll, durable
  <2>2. InScheduler \in SUBSET Commands
    BY SchedulerFinite DEF WInv, Types, TypeOK
  <2>3. \A c \in InScheduler : future[c] = "pending" /\ Row(c).cmd # c
    BY InQueue DEF WInv, Queued, Waits
  <2>4. \A c \in InScheduler : Effect[Idem[c]] # c
    BY <2>2, <2>3, EffectOf
  <2>5. Effect' = Effect
    BY <2>1, EffectStands
  <2>6. Promise!Drop(InScheduler)
    BY <2>1, <2>3, <2>4, <2>5 DEF Promise!Drop, Effect
  <2> QED
    BY <2>2, <2>6 DEF Told, Promise!Next
<1>7. CASE Crash
  <2>1. /\ journal' = journal
        /\ future' = [c \in Commands |-> IF future[c] = "pending" THEN "lost" ELSE future[c]]
    BY <1>7 DEF Crash, durable
  <2>2. Effect' = Effect
    BY <2>1, EffectStands
  <2>3. Promise!Lose
    BY <2>1, <2>2 DEF Promise!Lose, Effect
  <2> QED
    BY <2>3 DEF Told, Promise!Next
<1>8. CASE UNCHANGED vars
  BY <1>8, QuietTold DEF vars, durable
<1> QED
  BY <1>1, <1>2, <1>3, <1>4, <1>5, <1>6, <1>7, <1>8, ProcessTold
  DEF Next, SubmitNext, WriterStep

LEMMA InitTold == Init => Promise!Init
<1> SUFFICES ASSUME Init PROVE Promise!Init
  OBVIOUS
<1>1. \A k \in Keys : journal[k].status # "COMMITTED"
  BY DEF Init, NoRow
<1> QED
  BY <1>1 DEF Init, Promise!Init

\* For any commands, retries, faults and crashes the writer keeps its promise:
\* at most one durable effect per idempotency key, of a command whose caller
\* was waiting, and no answer that misstates it.
THEOREM Kept == Spec => KeepsPromise
<1>1. WInv /\ [Next]_vars => [Promise!Next]_(Promise!promiseVars)
  BY NextTold DEF Told
<1> QED
  BY <1>1, InitTold, InitWInv, NextWInv, PTL DEF Spec, KeepsPromise, Promise!Spec
=============================================================================
