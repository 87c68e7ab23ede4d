------------------------- MODULE Services_proofs -------------------------
(***************************************************************************)
(* Machine-checked safety of what the processes and threads of V4 share:   *)
(*   - the write gate, for every finite set of callers and batch size;     *)
(*   - the cluster arbitration's row, journal and lock;                    *)
(*   - the lock of the runtime and the recovery of what a launch left;     *)
(*   - the telemetry lane: its rows, its stop, its controller and the      *)
(*     window its health is read from.                                     *)
(***************************************************************************)
EXTENDS MCServices, FiniteSetTheorems, WellFoundedInduction, SequenceTheorems,
        TLAPS

(***************************************************************************)
(* Machine-checked safety of the write gate for every finite set of callers *)
(* and every batch size.                                                   *)
(***************************************************************************)

\* Where each thread is, read off the gate's fields.
ThreadsMatchGate ==
  /\ telemetryActive <=> telemetryPc # "idle"
  /\ maintenanceActive <=> maintenancePc = "active"
  /\ criticalActive <=> writerPc \in {"process", "resolved"}
  /\ closing <=> writerPc \in {"failing", "dead"}

\* The writer holds exactly the command that was taken from the scheduler.
HoldsTaken ==
  /\ \A c \in Callers : callerPc[c] = "taken" <=> c \in current
  /\ writerPc \in {"acquire", "process"} => \E c \in Callers : current = {c}
  /\ writerPc \notin {"acquire", "process"} => current = {}

\* A row about to be written was cleared before any waiting command came.
RowCleared ==
  telemetryPc = "row" /\ writerPc \notin {"failing", "dead"} =>
    \A c \in Registered : rowsBehind[c] = 0

RowsRemain == telemetryPc = "row" => rowsLeft > 0

GateInv ==
  /\ TypeOK
  /\ ThreadsMatchGate
  /\ HoldsTaken
  /\ TelemetryExclusive
  /\ PendingExact
  /\ WaitingExact
  /\ RowCleared
  /\ RowsRemain
  /\ TelemetryYields

LEMMA RegisteredFinite ==
  IsFiniteSet(Registered) /\ Cardinality(Registered) \in Nat
<1>1. Registered \subseteq Callers
  BY DEF Registered
<1> QED
  BY <1>1, CallersAssumption, FS_Subset, FS_CardinalityType

\* A caller that leaves "idle" joins the registered set, and one that returns
\* to it leaves: the cardinality moves by one.
LEMMA Joins ==
  ASSUME callerPc \in [Callers -> CallerStates], NEW c \in Callers,
         callerPc[c] = "idle", NEW s \in CallerStates, s # "idle",
         callerPc' = [callerPc EXCEPT ![c] = s]
  PROVE  Cardinality(Registered') = Cardinality(Registered) + 1
<1>1. Registered' = Registered \cup {c} /\ c \notin Registered
  BY DEF Registered
<1> QED
  BY <1>1, RegisteredFinite, FS_AddElement

LEMMA Leaves ==
  ASSUME callerPc \in [Callers -> CallerStates], NEW c \in Callers,
         callerPc[c] # "idle", callerPc' = [callerPc EXCEPT ![c] = "idle"]
  PROVE  Cardinality(Registered) = Cardinality(Registered') + 1
<1>1. Registered' = Registered \ {c} /\ c \in Registered
  BY DEF Registered
<1>2. Cardinality(Registered') = Cardinality(Registered) - 1
  BY <1>1, RegisteredFinite, FS_RemoveElement
<1> QED
  BY <1>2, RegisteredFinite

LEMMA Stays ==
  ASSUME callerPc \in [Callers -> CallerStates], NEW c \in Callers,
         callerPc[c] # "idle", NEW s \in CallerStates, s # "idle",
         callerPc' = [callerPc EXCEPT ![c] = s]
  PROVE  Registered' = Registered
  BY DEF Registered

LEMMA InitGateInv == Init => GateInv
<1> SUFFICES ASSUME Init PROVE GateInv
  OBVIOUS
<1> USE DEF Init, GateInit
<1>1. Registered = {}
  BY DEF Registered
<1>2. Cardinality(Registered) = 0
  BY <1>1, FS_EmptySet
<1>3. TypeOK
  <2>1. GateTypeOK /\ closing \in BOOLEAN
    BY DEF GateTypeOK
  <2>2. callerPc \in [Callers -> CallerStates]
    BY DEF CallerStates
  <2>3. rowsLeft \in 0..BatchRows /\ rowsBehind \in [Callers -> 0..2]
    BY BatchRowsAssumption
  <2>4. /\ writerPc \in WriterStates
        /\ telemetryPc \in TelemetryStates
        /\ maintenancePc \in MaintenanceStates
        /\ current \in SUBSET Callers
    BY DEF WriterStates, TelemetryStates, MaintenanceStates
  <2> QED
    BY <2>1, <2>2, <2>3, <2>4 DEF TypeOK
<1>4. ThreadsMatchGate /\ HoldsTaken /\ TelemetryExclusive
  BY DEF ThreadsMatchGate, HoldsTaken, TelemetryExclusive
<1>5. /\ PendingExact /\ WaitingExact /\ RowCleared /\ RowsRemain
      /\ TelemetryYields
  BY <1>1, <1>2
  DEF PendingExact, WaitingExact, RowCleared, RowsRemain, TelemetryYields
<1> QED
  BY <1>3, <1>4, <1>5 DEF GateInv

-----------------------------------------------------------------------------
USE DEF GateInv, RowsRemain, TypeOK, GateTypeOK, ThreadsMatchGate, HoldsTaken,
        TelemetryExclusive, PendingExact, WaitingExact, RowCleared,
        TelemetryYields, CallerStates, WriterStates, TelemetryStates,
        MaintenanceStates, gateVars, MoveCaller, DecToZero

LEMMA RegisterStep ==
  ASSUME GateInv, NEW c \in Callers, Register(c) PROVE GateInv'
<1>1. Cardinality(Registered') = Cardinality(Registered) + 1
  BY Joins DEF Register
<1>2. \A d \in Registered' : d = c \/ d \in Registered
  BY DEF Registered, Register
<1> QED
  BY <1>1, <1>2, RegisteredFinite DEF Register, RegisterCritical, Registered

LEMMA PutStep ==
  ASSUME GateInv, NEW c \in Callers, Put(c) PROVE GateInv'
<1>1. Registered' = Registered
  BY Stays DEF Put
<1> QED
  BY <1>1, RegisteredFinite DEF Put

LEMMA PutRefusedStep ==
  ASSUME GateInv, NEW c \in Callers, PutRefused(c) PROVE GateInv'
<1>1. Cardinality(Registered) = Cardinality(Registered') + 1
  BY Leaves DEF PutRefused
<1>2. Registered' \subseteq Registered
  BY DEF Registered, PutRefused
<1>3. Cardinality(Registered') \in Nat
  BY <1>2, RegisteredFinite, FS_Subset, FS_CardinalityType
<1> QED
  BY <1>1, <1>2, <1>3, RegisteredFinite DEF PutRefused, CancelCritical

LEMMA TakeStep ==
  ASSUME GateInv, NEW c \in Callers, Take(c) PROVE GateInv'
<1>1. Registered' = Registered
  BY Stays DEF Take
<1> QED
  BY <1>1, RegisteredFinite DEF Take

LEMMA ResolveStep ==
  ASSUME GateInv, NEW c \in Callers, Resolve(c) PROVE GateInv'
<1>1. Cardinality(Registered) = Cardinality(Registered') + 1
  BY Leaves DEF Resolve
<1>2. Registered' \subseteq Registered
  BY DEF Registered, Resolve
<1>3. Cardinality(Registered') \in Nat
  BY <1>2, RegisteredFinite, FS_Subset, FS_CardinalityType
<1> QED
  BY <1>1, <1>2, <1>3, RegisteredFinite DEF Resolve

LEMMA WriterGateStep ==
  ASSUME GateInv, Acquire \/ Release \/ ResetGate PROVE GateInv'
<1>1. Registered' = Registered
  BY DEF Registered, Acquire, Release, ResetGate
<1>2. CASE Acquire
  BY <1>1, <1>2, RegisteredFinite DEF Acquire, AcquireCritical
<1>3. CASE Release
  <2> USE DEF Release, ReleaseCritical
  <2>1. TypeOK'
    <3>1. criticalPending' \in Nat
      <4>1. criticalPending \in Nat
        OBVIOUS
      <4>2. criticalPending' =
              IF criticalPending > 0 THEN criticalPending - 1 ELSE 0
        BY <1>3
      <4> QED
        BY ONLY <4>1, <4>2
    <3>2. criticalActive' \in BOOLEAN
      BY <1>3
    <3>3. writerPc' \in WriterStates
      BY <1>3
    <3> QED
      BY <1>3, <3>1, <3>2, <3>3
  <2>2. PendingExact'
    BY <1>1, <1>3, RegisteredFinite
  <2>3. (RowCleared /\ RowsRemain /\ TelemetryYields)'
    BY <1>1, <1>3
  <2>4. (ThreadsMatchGate /\ HoldsTaken /\ TelemetryExclusive /\ WaitingExact)'
    BY <1>3
  <2> QED
    BY <2>1, <2>2, <2>3, <2>4
<1>4. CASE ResetGate
  BY <1>1, <1>4, RegisteredFinite DEF ResetGate, ResetCritical
<1> QED
  BY <1>2, <1>3, <1>4

LEMMA FailAllStep ==
  ASSUME GateInv, FailAll PROVE GateInv'
  BY DEF FailAll

LEMMA TelemetryLaneStep ==
  ASSUME GateInv, Admit \/ TelemetryStep PROVE GateInv'
<1>1. Registered' = Registered
  BY DEF Registered, Admit, TelemetryStep, Check, WriteRow, Abort, Commit,
         EndBatch
<1>2. ~CriticalWork /\ writerPc \notin {"failing", "dead"} => Registered = {}
  BY RegisteredFinite, CallersAssumption, FS_EmptySet DEF CriticalWork
<1>3. CASE Admit
  BY <1>1, <1>3, RegisteredFinite, BatchRowsAssumption
  DEF Admit, AdmitTelemetry, TelemetryRefused, CriticalWork
<1>4. CASE Check
  BY <1>1, <1>2, <1>4, RegisteredFinite DEF Check
<1>5. CASE WriteRow
  <2>1. rowsLeft' \in 0..BatchRows
    BY <1>5, BatchRowsAssumption DEF WriteRow
  <2>2. rowsBehind' \in [Callers -> 0..2]
    BY <1>5 DEF WriteRow
  <2>3. TypeOK'
    BY <1>5, <2>1, <2>2 DEF WriteRow
  <2>4. PendingExact' /\ RowCleared' /\ RowsRemain'
    BY <1>1, <1>5 DEF WriteRow
  <2>5. TelemetryYields'
    <3> SUFFICES ASSUME writerPc \notin {"failing", "dead"},
                        NEW c \in Registered
                 PROVE  rowsBehind'[c] <= 1
      BY <1>1, <1>5 DEF WriteRow
    <3>1. c \in Callers /\ callerPc[c] # "idle"
      BY DEF Registered
    <3>2. rowsBehind[c] = 0
      BY <1>5 DEF WriteRow
    <3> QED
      BY <1>5, <3>1, <3>2 DEF WriteRow
  <2>6. (ThreadsMatchGate /\ HoldsTaken /\ TelemetryExclusive /\ WaitingExact)'
    BY <1>5 DEF WriteRow
  <2> QED
    BY <2>3, <2>4, <2>5, <2>6
<1>6. CASE Abort \/ Commit
  BY <1>1, <1>6, RegisteredFinite DEF Abort, Commit
<1>7. CASE EndBatch
  BY <1>1, <1>7, RegisteredFinite DEF EndBatch, ReleaseTelemetry
<1> QED
  BY <1>3, <1>4, <1>5, <1>6, <1>7 DEF TelemetryStep

LEMMA MaintenanceStep ==
  ASSUME GateInv, MaintenanceNext PROVE GateInv'
<1>1. Registered' = Registered
  BY DEF Registered, MaintenanceNext, MaintenanceGrant, MaintenanceAwait,
         MaintenanceAdmit, MaintenanceAbandon, MaintenanceRelease,
         MoveMaintenance
<1> USE DEF MoveMaintenance, CriticalWork, MaintenanceRefused
<1>2. CASE MaintenanceGrant
  BY <1>1, <1>2, RegisteredFinite DEF MaintenanceGrant, GrantMaintenance
<1>3. CASE MaintenanceAwait
  BY <1>1, <1>3, RegisteredFinite DEF MaintenanceAwait, AwaitTelemetry
<1>4. CASE MaintenanceAdmit
  BY <1>1, <1>4, RegisteredFinite DEF MaintenanceAdmit, AdmitMaintenance
<1>5. CASE MaintenanceAbandon
  BY <1>1, <1>5, RegisteredFinite DEF MaintenanceAbandon, AbandonMaintenance
<1>6. CASE MaintenanceRelease
  BY <1>1, <1>6, RegisteredFinite DEF MaintenanceRelease, ReleaseMaintenance
<1> QED
  BY <1>2, <1>3, <1>4, <1>5, <1>6 DEF MaintenanceNext

LEMMA StutterStep ==
  ASSUME GateInv, UNCHANGED vars PROVE GateInv'
  BY DEF vars, laneVars, Registered

LEMMA NextIInv == GateInv /\ [Next]_vars => GateInv'
<1> SUFFICES ASSUME GateInv, [Next]_vars PROVE GateInv'
  OBVIOUS
<1>1. CASE CallerNext
  BY <1>1, RegisterStep, PutStep, PutRefusedStep DEF CallerNext
<1>2. CASE WriterStep
  BY <1>2, TakeStep, ResolveStep, WriterGateStep DEF WriterStep
<1>3. CASE WriterFailure
  BY <1>3, FailAllStep, WriterGateStep DEF WriterFailure
<1>4. CASE Admit \/ TelemetryStep
  BY <1>4, TelemetryLaneStep
<1>5. CASE MaintenanceNext
  BY <1>5, MaintenanceStep
<1>6. CASE UNCHANGED vars
  BY <1>6, StutterStep
<1> QED
  BY <1>1, <1>2, <1>3, <1>4, <1>5, <1>6 DEF Next

\* The inductive invariant holds in every reachable state.
THEOREM Invariance == Spec => []GateInv
<1>1. GateInv /\ [Next]_vars => GateInv'
  BY NextIInv
<1> HIDE DEF GateInv
<1> QED
  BY InitGateInv, <1>1, PTL DEF Spec

\* Every field and every thread keeps its type.
THEOREM TypeCorrect == Spec => []TypeOK
<1>1. GateInv => TypeOK
  BY DEF GateInv
<1> HIDE DEF GateInv, TypeOK
<1> QED
  BY <1>1, Invariance, PTL

\* Telemetry's transaction never overlaps the critical writer's or maintenance's,
\* and the pending and waiting counters are exactly the registrations and the
\* waiters outstanding, for every finite set of callers.
THEOREM GateSoundness == Spec => []GateSound
<1>1. GateInv => GateSound
  BY DEF GateInv, GateSound
<1> HIDE DEF GateInv, GateSound
<1> QED
  BY <1>1, Invariance, PTL

\* A critical command waits behind at most one telemetry row, for every batch
\* size.
THEOREM RowBound == Spec => []TelemetryYields
<1>1. GateInv => TelemetryYields
  BY DEF GateInv
<1> HIDE DEF GateInv, TelemetryYields
<1> QED
  BY <1>1, Invariance, PTL

\* No batch is admitted over a registered command: the step form of the
\* counter's exactness.
THEOREM Overtaking == Spec => NoOvertaking
<1> DEFINE Clear == telemetryPc = "idle" /\ telemetryPc' # "idle" /\ ~closing
                     => Registered = {}
<1>1. GateInv /\ [Next]_vars => [Clear]_vars
  <2> SUFFICES ASSUME GateInv, Next, telemetryPc = "idle", telemetryPc' # "idle",
                      ~closing
               PROVE  Registered = {}
    BY DEF GateInv
  <2>1. Admit
    BY DEF Next, CallerNext, WriterStep, WriterFailure, TelemetryStep,
           MaintenanceNext, Register, Put, PutRefused, Take, Resolve, Acquire,
           Release, FailAll, ResetGate, Check, WriteRow, Abort, Commit,
           EndBatch, MaintenanceGrant, MaintenanceAwait, MaintenanceAdmit,
           MaintenanceAbandon, MaintenanceRelease, MoveMaintenance
  <2>2. criticalPending = 0 /\ writerPc \notin {"resolved", "failing", "dead"}
    BY <2>1 DEF Admit, AdmitTelemetry, TelemetryRefused, CriticalWork
  <2>3. Cardinality(Registered) = 0
    BY <2>2, RegisteredFinite
  <2> QED
    BY <2>3, RegisteredFinite, FS_EmptySet
<1> HIDE DEF GateInv, Clear
<1>2. Spec => [][Clear]_vars
  BY <1>1, Invariance, PTL DEF Spec
<1> QED
  BY <1>2 DEF NoOvertaking, Clear

-----------------------------------------------------------------------------
(***************************************************************************)
(* The arbitration's row, its journal and the cluster lock tell one story, *)
(* and occupancy is permanent, for any candidates, edges, depths and       *)
(* launches.                                                               *)
(***************************************************************************)

\* The row without its status: what the proofs need of the types.
Events == [from : Statuses, to : Statuses, pick : Picks]

\* The journal is a path of legal transitions from NONE to the row's status.
JournalPath ==
  IF arbitration.status = "NONE" THEN journal = << >>
  ELSE ChainConsistent

\* The events that carry a pick, and the row's pick, which is that of the last.
\* That there is a last one needs no argument about finite sets this way.
Carrying == {i \in 1..Len(journal) : journal[i].pick.picked}
PickStands ==
  /\ arbitration.pick = LastPick
  /\ Carrying # {} => \E i \in Carrying : \A j \in Carrying : j <= i

\* What OccupancyStands asks of a step
OccupancyStep ==
  /\ lock.state = "ENTERED" => lock' = lock
  /\ arbitration'.status = "ENTERED" =>
       lock.state = "ENTERED" /\ arbitration'.pick.key = lock.key

ClusterInv == ClusterTypeOK /\ JournalPath /\ PickStands /\ EnteredRestsOnLock

-----------------------------------------------------------------------------
(* The journal *)

\* What an append does to the last pick
LEMMA LastPickAppend ==
  ASSUME NEW from \in Statuses, NEW to \in Statuses, NEW pick \in Picks,
         journal \in Seq(Events), PickStands,
         journal' = Append(journal, Event(from, to, pick)),
         arbitration'.pick = IF pick.picked THEN pick ELSE arbitration.pick
  PROVE  PickStands'
<1> DEFINE n == Len(journal)
<1>1. /\ n \in Nat /\ Len(journal') = n + 1
      /\ \A i \in 1..n : journal'[i] = journal[i]
      /\ journal'[n + 1].pick = pick
  BY DEF Event
<1>2. CASE pick.picked
  <2>1. n + 1 \in Carrying' /\ \A j \in Carrying' : j <= n + 1
    BY <1>1, <1>2 DEF Carrying
  <2>2. \A i \in Carrying' : (\A j \in Carrying' : j <= i) => i = n + 1
    BY <1>1, <2>1 DEF Carrying
  <2>3. (CHOOSE i \in Carrying' : \A j \in Carrying' : j <= i) = n + 1
    BY <2>1, <2>2
  <2>4. LastPick' = pick
    BY <1>1, <2>1, <2>3 DEF LastPick, Carrying
  <2> QED
    BY <1>2, <2>1, <2>4 DEF PickStands
<1>3. CASE ~pick.picked
  <2>1. Carrying' = Carrying
    BY <1>1, <1>3 DEF Carrying
  <2>2. CASE Carrying = {}
    BY <1>3, <2>1, <2>2 DEF LastPick, Carrying, PickStands
  <2>3. CASE Carrying # {}
    <3> DEFINE last == CHOOSE i \in Carrying : \A j \in Carrying : j <= i
    <3>1. last \in 1..n
      BY <2>3 DEF PickStands, Carrying
    <3>2. LastPick = journal[last].pick
      BY <2>3 DEF LastPick, Carrying
    <3>3. LastPick' = journal'[last].pick
      BY <2>1, <2>3 DEF LastPick, Carrying
    <3> QED
      BY <1>1, <1>3, <2>1, <3>1, <3>2, <3>3 DEF PickStands
  <2> QED
    BY <2>2, <2>3
<1> QED
  BY <1>2, <1>3

\* A legal event that follows on the status extends the path.
LEMMA PathExtends ==
  ASSUME NEW to \in Statuses, NEW pick \in Picks,
         journal \in Seq(Events), JournalPath,
         <<arbitration.status, to>> \in LegalTransitions,
         journal' = Append(journal, Event(arbitration.status, to, pick)),
         arbitration'.status = to
  PROVE  JournalPath' /\ ChainConsistent'
<1> DEFINE n == Len(journal)
<1>1. /\ n \in Nat /\ Len(journal') = n + 1
      /\ \A i \in 1..n : journal'[i] = journal[i]
      /\ journal'[n + 1].from = arbitration.status /\ journal'[n + 1].to = to
  BY DEF Event
<1>2. to # "NONE"
  BY DEF LegalTransitions
<1>3. n > 0 => journal[n].to = arbitration.status
  BY DEF JournalPath, ChainConsistent, JournalTerminal
<1>4. n = 0 => arbitration.status = "NONE"
  BY <1>1 DEF JournalPath, ChainConsistent
<1>5. n > 0 => ChainConsistent
  BY <1>1 DEF JournalPath
<1>6. \A i \in 1..(n + 1) :
        /\ <<journal'[i].from, journal'[i].to>> \in LegalTransitions
        /\ i > 1 => journal'[i].from = journal'[i - 1].to
  <2> TAKE i \in 1..(n + 1)
  <2>1. CASE i = n + 1
    BY <1>1, <1>3, <2>1
  <2>2. CASE i \in 1..n
    BY <1>1, <1>5, <2>2 DEF ChainConsistent
  <2>3. i = n + 1 \/ i \in 1..n
    BY <1>1
  <2> QED
    BY <2>1, <2>2, <2>3
<1>7. journal'[1].from = "NONE"
  BY <1>1, <1>4, <1>5 DEF ChainConsistent
<1>8. journal' # << >> /\ JournalTerminal' = to
  BY <1>1 DEF JournalTerminal
<1> QED
  BY <1>1, <1>2, <1>6, <1>7, <1>8 DEF JournalPath, ChainConsistent

-----------------------------------------------------------------------------
(* The invariant *)

LEMMA InitClusterInv == ClusterInit => ClusterInv
BY DEF ClusterInit, ClusterInv, ClusterTypeOK, NoArbitration, NoPick, Picks, Statuses, JournalPath,
   PickStands, LastPick, Carrying, EnteredRestsOnLock

LEMMA NoPickIsPick == NoPick \in Picks /\ ~NoPick.picked
BY DEF NoPick, Picks

\* The rank of a candidate among its set counts from one.
LEMMA RankTyped ==
  ASSUME NEW S \in SUBSET Candidates, NEW c \in S
  PROVE  Pick(c, RankIn(S, c)) \in Picks /\ Pick(c, RankIn(S, c)).picked
<1>1. IsFiniteSet({d \in S : RanksBefore(d, c)})
  BY ClusterAssumption, FS_Subset
<1>2. Cardinality({d \in S : RanksBefore(d, c)}) \in Nat
  BY <1>1, FS_CardinalityType
<1> QED
  BY <1>2 DEF RankIn, Pick, Picks

\* Row and journal advance together, and an arbitration enters on its lock only.
LEMMA AdvanceKeeps ==
  ASSUME ClusterInv, NEW to \in Statuses, NEW pick \in Picks, Advance(to, pick),
         UNCHANGED <<lock, launch>>,
         to = "ENTERED" => LockMatchesPick /\ ~pick.picked
  PROVE  ClusterInv' /\ OccupancyStep
<1>1. /\ arbitration'.status = to
      /\ arbitration'.pick = IF pick.picked THEN pick ELSE arbitration.pick
      /\ arbitration'.set = arbitration.set
      /\ journal' = Append(journal, Event(arbitration.status, to, pick))
      /\ <<arbitration.status, to>> \in LegalTransitions
      /\ arbitration.status # "ENTERED"
  BY DEF Advance, ClusterInv, ClusterTypeOK, TerminalStatuses
<1>2. journal \in Seq(Events)
  BY DEF ClusterInv, ClusterTypeOK, Events
<1>3. ClusterTypeOK'
  <2>1. arbitration' \in [status : Statuses, set : SUBSET Candidates, pick : Picks]
    BY DEF Advance, ClusterInv, ClusterTypeOK
  <2>2. Event(arbitration.status, to, pick) \in Events
    BY DEF ClusterInv, ClusterTypeOK, Events, Event
  <2>3. journal' \in Seq(Events)
    BY <1>1, <1>2, <2>2
  <2> QED
    BY <2>1, <2>3 DEF ClusterInv, ClusterTypeOK, Events
<1>4. JournalPath'
  BY <1>1, <1>2, PathExtends DEF ClusterInv
<1>5. PickStands'
  <2>1. arbitration.status \in Statuses
    BY DEF ClusterInv, ClusterTypeOK
  <2> QED
    BY <1>1, <1>2, <2>1, LastPickAppend DEF ClusterInv
<1>6. EnteredRestsOnLock' /\ OccupancyStep
  BY <1>1 DEF EnteredRestsOnLock, OccupancyStep, LockMatchesPick
<1> QED
  BY <1>3, <1>4, <1>5, <1>6 DEF ClusterInv

\* The first event of a cluster
LEMMA ClusterBeginKeeps ==
  ASSUME ClusterInv, BeginArbitration
  PROVE  ClusterInv' /\ OccupancyStep
<1>1. PICK S \in SUBSET Candidates \ {{}} :
        /\ arbitration.status = "NONE"
        /\ arbitration' = [NoArbitration EXCEPT !.status = "COLLECTING", !.set = S]
        /\ journal' = Append(journal, Event("NONE", "COLLECTING", NoPick))
        /\ UNCHANGED <<lock, launch>>
  BY DEF BeginArbitration
<1>2. /\ arbitration' = [status |-> "COLLECTING", set |-> S, pick |-> NoPick]
      /\ journal = << >> /\ arbitration.pick = NoPick
  <2>1. journal = << >>
    BY <1>1 DEF ClusterInv, JournalPath
  <2>2. LastPick = NoPick
    BY <2>1 DEF LastPick
  <2> QED
    BY <1>1, <2>1, <2>2 DEF NoArbitration, ClusterInv, PickStands
<1>3. journal \in Seq(Events) /\ "NONE" \in Statuses /\ "COLLECTING" \in Statuses
  BY DEF ClusterInv, ClusterTypeOK, Events, Statuses
<1>4. ClusterTypeOK'
  <2>1. Event("NONE", "COLLECTING", NoPick) \in Events
    BY <1>3, NoPickIsPick DEF Event, Events
  <2>2. journal' \in Seq(Events)
    BY <1>1, <1>3, <2>1
  <2> QED
    BY <1>1, <1>2, <1>3, <2>2, NoPickIsPick DEF ClusterInv, ClusterTypeOK, Events
<1>5. JournalPath'
  BY <1>1, <1>2, <1>3, NoPickIsPick, PathExtends DEF ClusterInv, LegalTransitions
<1>6. PickStands'
  <2>1. arbitration'.pick = IF NoPick.picked THEN NoPick ELSE arbitration.pick
    BY <1>2
  <2> QED
    BY <1>1, <1>3, <2>1, NoPickIsPick, LastPickAppend DEF ClusterInv
<1> QED
  BY <1>1, <1>2, <1>4, <1>5, <1>6 DEF ClusterInv, EnteredRestsOnLock, OccupancyStep

\* The calls on the lock alone, and a relaunch
LEMMA LockCallKeeps ==
  ASSUME ClusterInv, ReserveLock \/ PromoteLock \/ ReleaseUnenteredLock \/ Relaunch
               \/ UNCHANGED clusterVars
  PROVE  ClusterInv' /\ OccupancyStep
<1>1. UNCHANGED <<arbitration, journal>>
  BY DEF ReserveLock, PromoteLock, ReleaseUnenteredLock, Relaunch, clusterVars
<1>2. /\ lock' \in {NoLock} \cup
           [state : {"RESERVED", "ENTERED"}, key : Candidates, window : Windows,
            owner : Launches]
      /\ launch' \in Launches
  BY DEF ReserveLock, PromoteLock, ReleaseUnenteredLock, Relaunch, clusterVars, ClusterInv,
     ClusterTypeOK, NoLock
<1>3. lock.state = "ENTERED" => lock' = lock
  BY DEF ReserveLock, PromoteLock, ReleaseUnenteredLock, Relaunch, clusterVars, NoLock
<1>4. ClusterTypeOK'
  BY <1>1, <1>2 DEF ClusterInv, ClusterTypeOK
<1>5. JournalPath' /\ PickStands'
  BY <1>1 DEF ClusterInv, JournalPath, PickStands, ChainConsistent, JournalTerminal, LastPick,
     Carrying
<1>6. EnteredRestsOnLock' /\ OccupancyStep
  BY <1>1, <1>3 DEF ClusterInv, EnteredRestsOnLock, OccupancyStep, LockMatchesPick
<1> QED
  BY <1>4, <1>5, <1>6 DEF ClusterInv

LEMMA ClusterNextKeeps ==
  ASSUME ClusterInv, [ClusterNext]_clusterVars
  PROVE  ClusterInv' /\ OccupancyStep
<1> USE NoPickIsPick
<1>1. CASE SelectCandidate
  <2>1. PICK c \in arbitration.set :
          /\ Advance("SELECTED", Pick(c, RankIn(arbitration.set, c)))
          /\ UNCHANGED <<lock, launch>>
    BY <1>1 DEF SelectCandidate
  <2>2. Pick(c, RankIn(arbitration.set, c)) \in Picks
    BY RankTyped DEF ClusterInv, ClusterTypeOK
  <2> QED
    BY <2>1, <2>2, AdvanceKeeps DEF Statuses
<1>2. CASE BeginReserving
  BY <1>2, AdvanceKeeps DEF BeginReserving, Statuses
<1>3. CASE RevertToSelected
  BY <1>3, AdvanceKeeps DEF RevertToSelected, Statuses
<1>4. CASE MarkEntered
  BY <1>4, AdvanceKeeps DEF MarkEntered, Statuses
<1>5. CASE MarkExhausted
  BY <1>5, AdvanceKeeps DEF MarkExhausted, Statuses
<1>6. CASE CancelArbitration
  BY <1>6, AdvanceKeeps DEF CancelArbitration, Statuses
<1> QED
  BY <1>1, <1>2, <1>3, <1>4, <1>5, <1>6, ClusterBeginKeeps, LockCallKeeps DEF ClusterNext

LEMMA ClusterInvSuffices == ClusterInv => ArbitrationSound
BY DEF ClusterInv, ArbitrationSound, JournalPath, JournalReplays, PickStands

-----------------------------------------------------------------------------
\* Replaying the journal gives the row's status and selection, and an entered
\* arbitration rests on its own entered lock, after any calls and relaunches
\* (replay_arbitration, _validate_chain_consistency, mark_entered).
THEOREM Arbitration == ClusterSpec => []ArbitrationSound
<1>1. ClusterInv /\ [ClusterNext]_clusterVars => ClusterInv'
  BY ClusterNextKeeps
<1>2. ClusterSpec => []ClusterInv
  BY InitClusterInv, <1>1, PTL DEF ClusterSpec
<1> QED
  BY <1>2, ClusterInvSuffices, PTL

\* No step replaces an entered lock or gives it back, and an arbitration enters
\* with the candidate whose lock is entered and no other
\* (promote_lock_to_entered, release_unentered_lock).
THEOREM Occupancy == ClusterSpec => OccupancyStands
<1>1. ClusterInv /\ [ClusterNext]_clusterVars => ClusterInv'
  BY ClusterNextKeeps
<1>2. ClusterInv /\ [ClusterNext]_clusterVars => [OccupancyStep]_clusterVars
  BY ClusterNextKeeps
<1>3. OccupancyStands <=> [][OccupancyStep]_clusterVars
  BY DEF OccupancyStands, OccupancyStep
<1> QED
  BY InitClusterInv, <1>1, <1>2, <1>3, PTL DEF ClusterSpec

-----------------------------------------------------------------------------
(***************************************************************************)
(* One launch at a time owns the runtime, and recovery settles only what   *)
(* launches that are gone left, for any number of launches and any pids    *)
(* that are handed out again.                                              *)
(***************************************************************************)

\* Nothing of these launches was written yet
Young == {"unborn", "begun", "guarded", "checked", "locking", "owned", "verified"}
\* The OS guard is held from its acquisition to the removal of the stop file.
Guarding == {"guarded", "checked", "locking", "clearing"} \cup Owning
Phases == {"unborn", "begun", "exiting", "left", "dead"} \cup Guarding
Done == {"unlocking", "clearing", "exiting", "left"}

PhasesOK == ProcessTypeOK /\ phase \in [Procs -> Phases] /\ sent \in [Procs -> BOOLEAN]
              /\ session \in [Procs -> {"none", "open", "ended"}]
              /\ terminal \in [Procs -> {"none", "done", "failed"}]
              /\ maker \in [Procs -> {"none", "unfinished", "finished"}]

\* The guard excludes, and the files name no launch that has not begun.
Guarded ==
  /\ \A l \in Procs : phase[l] \in Guarding <=> guard = l
  /\ \A l \in Procs : phase[l] \in Owning => lockFile = l
  /\ \A l \in Procs : l \in {lockFile, stateFile.launch} => phase[l] # "unborn"

\* What the rows of a launch tell of the phase it is in
RowsOfPhase ==
  \A k \in Procs :
    /\ phase[k] \in Young => session[k] = "none" /\ terminal[k] = "none"
    /\ phase[k] = "started" => session[k] = "none"
    /\ phase[k] \in {"recorded", "running"} => session[k] = "open"
    /\ session[k] = "none" => maker[k] = "none" /\ ~sent[k]
    /\ terminal[k] = "done" => session[k] # "open"
    /\ phase[k] \in {"started", "recorded", "running", "draining"} => terminal[k] = "none"
    /\ phase[k] = "ended" => terminal[k] = "done"
    /\ phase[k] = "releasing" => terminal[k] # "none"
    /\ phase[k] \in Done /\ terminal[k] = "none" => session[k] = "none"

\* A launch on its way out holds no guard any more and leaves as little.
Settled ==
  \A l, k \in Procs :
    phase[l] \in Writing /\ phase[k] \in {"exiting", "left"} /\ terminal[k] # "failed"
      => maker[k] # "unfinished"

ProcessInv == PhasesOK /\ Guarded /\ RowsOfPhase /\ ProvenAreGone /\ Settled
-----------------------------------------------------------------------------
LEMMA InitProcessInv == ProcessInit => ProcessInv
BY ProcessAssumption DEF ProcessInit, ProcessInv, PhasesOK, ProcessTypeOK, Phases, Guarding,
     Owning, Guarded, RowsOfPhase, ProvenAreGone, Settled, Procs, NoLaunch,
     Unwritten, Young, Writing, Done

\* Whom acquire calls absent is gone, if it ever began.
LEMMA AbsentIsGone ==
  ASSUME NEW k \in Procs, phase[k] # "unborn", NEW readable, Absent(k, readable)
  PROVE  k \in Gone
BY DEF Absent, PidTaken, Live, Gone

\* A launch that moves between phases in which it owns the files
LEMMA MovesInside ==
  ASSUME ProcessInv, NEW l \in Procs, phase[l] \in Owning, NEW to \in Owning, Goto(l, to),
         guard' = guard, lockFile' = lockFile,
         stateFile'.launch \in {l, stateFile.launch}
  PROVE  Guarded' /\ phase' \in [Procs -> Phases]
<1>1. phase' \in [Procs -> Phases]
  BY DEF ProcessInv, PhasesOK, Goto, Phases, Guarding
<1>2. phase[l] # "unborn" /\ to # "unborn" /\ phase[l] \in Guarding /\ to \in Guarding
  BY DEF Guarding, Owning
<1>3. \A k \in Procs : phase'[k] = IF k = l THEN to ELSE phase[k]
  BY DEF ProcessInv, PhasesOK, Goto
<1> QED
  BY <1>1, <1>2, <1>3 DEF ProcessInv, Guarded

\* A launch that neither begins to write nor leaves
LEMMA MovesAside ==
  ASSUME ProcessInv, NEW l \in Procs, NEW to, Goto(l, to), to \notin {"exiting", "left"},
         phase[l] \in Writing \/ to \notin Writing,
         \A k \in Procs \ {l} : maker'[k] = maker[k] /\ terminal'[k] = terminal[k]
  PROVE  Settled'
<1>1. \A k \in Procs : phase'[k] = IF k = l THEN to ELSE phase[k]
  BY DEF ProcessInv, PhasesOK, Goto
<1> QED
  BY <1>1 DEF ProcessInv, Settled

LEMMA ProcessBeginKeeps ==
  ASSUME ProcessInv, NEW l \in Procs, Begin(l)
  PROVE  ProcessInv'
<1> USE DEF Begin, Goto, fileVars, tableVars
<1>1. PhasesOK'
  BY DEF ProcessInv, PhasesOK, ProcessTypeOK, Phases, Guarding, Owning, Procs, NoLaunch,
       Unwritten, Writing
<1>2. Guarded'
  BY DEF ProcessInv, PhasesOK, ProcessTypeOK, Guarded, Guarding, Owning, Procs, NoLaunch,
       Unwritten
<1>3. RowsOfPhase'
  BY DEF ProcessInv, PhasesOK, ProcessTypeOK, RowsOfPhase, Young, Done, Writing
<1>4. ProvenAreGone'
  BY DEF ProcessInv, PhasesOK, ProcessTypeOK, ProvenAreGone, Gone
<1>5. Settled'
  BY DEF ProcessInv, PhasesOK, ProcessTypeOK, Settled, Writing
<1> QED
  BY <1>1, <1>2, <1>3, <1>4, <1>5 DEF ProcessInv

LEMMA WriteLockKeeps ==
  ASSUME ProcessInv, NEW l \in Procs, WriteLock(l)
  PROVE  ProcessInv'
<1> USE DEF WriteLock, Goto, fileVars, tableVars
<1>1. PhasesOK'
  BY DEF ProcessInv, PhasesOK, ProcessTypeOK, Phases, Guarding, Owning, Procs, NoLaunch,
       Unwritten, Writing
<1>2. Guarded'
  BY DEF ProcessInv, PhasesOK, ProcessTypeOK, Guarded, Guarding, Owning, Procs, NoLaunch,
       Unwritten
<1>3. RowsOfPhase'
  BY DEF ProcessInv, PhasesOK, ProcessTypeOK, RowsOfPhase, Young, Done, Writing
<1>4. ProvenAreGone'
  BY DEF ProcessInv, PhasesOK, ProcessTypeOK, ProvenAreGone, Gone
<1>5. Settled'
  BY MovesAside DEF Writing
<1> QED
  BY <1>1, <1>2, <1>3, <1>4, <1>5 DEF ProcessInv

LEMMA VerifyKeeps ==
  ASSUME ProcessInv, NEW l \in Procs, Verify(l)
  PROVE  ProcessInv'
<1> USE DEF Verify, Goto, fileVars, tableVars
<1>1. PhasesOK'
  BY DEF ProcessInv, PhasesOK, ProcessTypeOK, Phases, Guarding, Owning, Procs, NoLaunch,
       Unwritten, Writing
<1>2. Guarded'
  BY DEF ProcessInv, PhasesOK, ProcessTypeOK, Guarded, Guarding, Owning, Procs, NoLaunch,
       Unwritten
<1>3. RowsOfPhase'
  BY DEF ProcessInv, PhasesOK, ProcessTypeOK, RowsOfPhase, Young, Done, Writing
<1>4. ProvenAreGone'
  BY DEF ProcessInv, PhasesOK, ProcessTypeOK, ProvenAreGone, Gone
<1>5. Settled'
  BY MovesAside DEF Writing
<1> QED
  BY <1>1, <1>2, <1>3, <1>4, <1>5 DEF ProcessInv

LEMMA SendMakerKeeps ==
  ASSUME ProcessInv, NEW l \in Procs, SendMaker(l)
  PROVE  ProcessInv'
<1> USE DEF SendMaker, Goto, fileVars, tableVars
<1>1. PhasesOK'
  BY DEF ProcessInv, PhasesOK, ProcessTypeOK, Phases, Guarding, Owning, Procs, NoLaunch,
       Unwritten, Writing
<1>2. Guarded'
  BY DEF ProcessInv, PhasesOK, ProcessTypeOK, Guarded, Guarding, Owning, Procs, NoLaunch,
       Unwritten
<1>3. RowsOfPhase'
  BY DEF ProcessInv, PhasesOK, ProcessTypeOK, RowsOfPhase, Young, Done, Writing
<1>4. ProvenAreGone'
  BY DEF ProcessInv, PhasesOK, ProcessTypeOK, ProvenAreGone, Gone
<1>5. Settled'
  BY DEF ProcessInv, PhasesOK, ProcessTypeOK, Settled, Writing
<1> QED
  BY <1>1, <1>2, <1>3, <1>4, <1>5 DEF ProcessInv

LEMMA CommitMakerKeeps ==
  ASSUME ProcessInv, NEW l \in Procs, CommitMaker(l)
  PROVE  ProcessInv'
<1> USE DEF CommitMaker, Goto, fileVars, tableVars
<1>1. PhasesOK'
  BY DEF ProcessInv, PhasesOK, ProcessTypeOK, Phases, Guarding, Owning, Procs, NoLaunch,
       Unwritten, Writing
<1>2. Guarded'
  BY DEF ProcessInv, PhasesOK, ProcessTypeOK, Guarded, Guarding, Owning, Procs, NoLaunch,
       Unwritten
<1>3. RowsOfPhase'
  BY DEF ProcessInv, PhasesOK, ProcessTypeOK, RowsOfPhase, Young, Done, Writing
<1>4. ProvenAreGone'
  BY DEF ProcessInv, PhasesOK, ProcessTypeOK, ProvenAreGone, Gone
<1>5. Settled'
  BY DEF ProcessInv, PhasesOK, ProcessTypeOK, Settled, Writing, Guarded, Guarding, Owning
<1> QED
  BY <1>1, <1>2, <1>3, <1>4, <1>5 DEF ProcessInv

LEMMA BeginStopKeeps ==
  ASSUME ProcessInv, NEW l \in Procs, BeginStop(l)
  PROVE  ProcessInv'
<1> USE DEF BeginStop, Goto, fileVars, tableVars, Publish
<1>1. PhasesOK'
  BY DEF ProcessInv, PhasesOK, ProcessTypeOK, Phases, Guarding, Owning, Procs, NoLaunch,
       Unwritten, Writing
<1>2. Guarded'
  BY DEF ProcessInv, PhasesOK, ProcessTypeOK, Guarded, Guarding, Owning, Procs, NoLaunch,
       Unwritten
<1>3. RowsOfPhase'
  BY DEF ProcessInv, PhasesOK, ProcessTypeOK, RowsOfPhase, Young, Done, Writing
<1>4. ProvenAreGone'
  BY DEF ProcessInv, PhasesOK, ProcessTypeOK, ProvenAreGone, Gone
<1>5. Settled'
  BY MovesAside DEF Writing
<1> QED
  BY <1>1, <1>2, <1>3, <1>4, <1>5 DEF ProcessInv

LEMMA PublishStoppedKeeps ==
  ASSUME ProcessInv, NEW l \in Procs, PublishStopped(l)
  PROVE  ProcessInv'
<1> USE DEF PublishStopped, Goto, fileVars, tableVars, Publish
<1>1. PhasesOK'
  BY DEF ProcessInv, PhasesOK, ProcessTypeOK, Phases, Guarding, Owning, Procs, NoLaunch,
       Unwritten, Writing
<1>2. Guarded'
  BY DEF ProcessInv, PhasesOK, ProcessTypeOK, Guarded, Guarding, Owning, Procs, NoLaunch,
       Unwritten
<1>3. RowsOfPhase'
  BY DEF ProcessInv, PhasesOK, ProcessTypeOK, RowsOfPhase, Young, Done, Writing
<1>4. ProvenAreGone'
  BY DEF ProcessInv, PhasesOK, ProcessTypeOK, ProvenAreGone, Gone
<1>5. Settled'
  BY MovesAside DEF Writing
<1> QED
  BY <1>1, <1>2, <1>3, <1>4, <1>5 DEF ProcessInv

LEMMA WriteFinalKeeps ==
  ASSUME ProcessInv, NEW l \in Procs, WriteFinal(l)
  PROVE  ProcessInv'
<1> USE DEF WriteFinal, Goto, fileVars, tableVars, Publish
<1>1. PhasesOK'
  BY DEF ProcessInv, PhasesOK, ProcessTypeOK, Phases, Guarding, Owning, Procs, NoLaunch,
       Unwritten, Writing
<1>2. Guarded'
  BY DEF ProcessInv, PhasesOK, ProcessTypeOK, Guarded, Guarding, Owning, Procs, NoLaunch,
       Unwritten
<1>3. RowsOfPhase'
  BY DEF ProcessInv, PhasesOK, ProcessTypeOK, RowsOfPhase, Young, Done, Writing
<1>4. ProvenAreGone'
  BY DEF ProcessInv, PhasesOK, ProcessTypeOK, ProvenAreGone, Gone
<1>5. Settled'
  BY MovesAside DEF Writing
<1> QED
  BY <1>1, <1>2, <1>3, <1>4, <1>5 DEF ProcessInv

LEMMA UnlinkLockKeeps ==
  ASSUME ProcessInv, NEW l \in Procs, UnlinkLock(l)
  PROVE  ProcessInv'
<1> USE DEF UnlinkLock, Goto, fileVars, tableVars
<1>1. PhasesOK'
  BY DEF ProcessInv, PhasesOK, ProcessTypeOK, Phases, Guarding, Owning, Procs, NoLaunch,
       Unwritten, Writing
<1>2. Guarded'
  BY DEF ProcessInv, PhasesOK, ProcessTypeOK, Guarded, Guarding, Owning, Procs, NoLaunch,
       Unwritten
<1>3. RowsOfPhase'
  BY DEF ProcessInv, PhasesOK, ProcessTypeOK, RowsOfPhase, Young, Done, Writing
<1>4. ProvenAreGone'
  BY DEF ProcessInv, PhasesOK, ProcessTypeOK, ProvenAreGone, Gone
<1>5. Settled'
  BY MovesAside DEF Writing
<1> QED
  BY <1>1, <1>2, <1>3, <1>4, <1>5 DEF ProcessInv

LEMMA LeaveKeeps ==
  ASSUME ProcessInv, NEW l \in Procs, Leave(l)
  PROVE  ProcessInv'
<1> USE DEF Leave, Goto, fileVars, tableVars
<1>1. PhasesOK'
  BY DEF ProcessInv, PhasesOK, ProcessTypeOK, Phases, Guarding, Owning, Procs, NoLaunch,
       Unwritten, Writing
<1>2. Guarded'
  BY DEF ProcessInv, PhasesOK, ProcessTypeOK, Guarded, Guarding, Owning, Procs, NoLaunch,
       Unwritten
<1>3. RowsOfPhase'
  BY DEF ProcessInv, PhasesOK, ProcessTypeOK, RowsOfPhase, Young, Done, Writing
<1>4. ProvenAreGone'
  BY DEF ProcessInv, PhasesOK, ProcessTypeOK, ProvenAreGone, Gone
<1>5. Settled'
  BY DEF ProcessInv, PhasesOK, ProcessTypeOK, Settled, Writing, Guarded, Guarding, Owning
<1> QED
  BY <1>1, <1>2, <1>3, <1>4, <1>5 DEF ProcessInv

LEMMA ExitKeeps ==
  ASSUME ProcessInv, NEW l \in Procs, Exit(l)
  PROVE  ProcessInv'
<1> USE DEF Exit, Goto, fileVars, tableVars
<1>1. PhasesOK'
  BY DEF ProcessInv, PhasesOK, ProcessTypeOK, Phases, Guarding, Owning, Procs, NoLaunch,
       Unwritten, Writing
<1>2. Guarded'
  BY DEF ProcessInv, PhasesOK, ProcessTypeOK, Guarded, Guarding, Owning, Procs, NoLaunch,
       Unwritten
<1>3. RowsOfPhase'
  BY DEF ProcessInv, PhasesOK, ProcessTypeOK, RowsOfPhase, Young, Done, Writing
<1>4. ProvenAreGone'
  BY DEF ProcessInv, PhasesOK, ProcessTypeOK, ProvenAreGone, Gone
<1>5. Settled'
  BY DEF ProcessInv, PhasesOK, ProcessTypeOK, Settled, Writing
<1> QED
  BY <1>1, <1>2, <1>3, <1>4, <1>5 DEF ProcessInv

LEMMA KillKeeps ==
  ASSUME ProcessInv, NEW l \in Procs, Kill(l)
  PROVE  ProcessInv'
<1> USE DEF Kill, Goto, fileVars, tableVars, Live
<1>1. PhasesOK'
  BY DEF ProcessInv, PhasesOK, ProcessTypeOK, Phases, Guarding, Owning, Procs, NoLaunch,
       Unwritten, Writing
<1>2. Guarded'
  BY DEF ProcessInv, PhasesOK, ProcessTypeOK, Guarded, Guarding, Owning, Procs, NoLaunch,
       Unwritten
<1>3. RowsOfPhase'
  BY DEF ProcessInv, PhasesOK, ProcessTypeOK, RowsOfPhase, Young, Done, Writing
<1>4. ProvenAreGone'
  BY DEF ProcessInv, PhasesOK, ProcessTypeOK, ProvenAreGone, Gone
<1>5. Settled'
  BY MovesAside DEF Writing
<1> QED
  BY <1>1, <1>2, <1>3, <1>4, <1>5 DEF ProcessInv

LEMMA AcquireGuardKeeps ==
  ASSUME ProcessInv, NEW l \in Procs, AcquireGuard(l)
  PROVE  ProcessInv'
<1> USE DEF AcquireGuard, fileVars, tableVars
<1>1. PICK to \in {"guarded", "dead"} : Goto(l, to)
  OBVIOUS
<1>2. \A k \in Procs : phase'[k] = IF k = l THEN to ELSE phase[k]
  BY <1>1 DEF Goto, ProcessInv, PhasesOK
<1>3. PhasesOK'
  BY DEF ProcessInv, PhasesOK, ProcessTypeOK, Goto, Phases, Guarding, Procs, NoLaunch
<1>4. Guarded'
  <2>1. CASE guard = NoLaunch
    <3>1. guard' = l /\ to = "guarded"
      BY <1>2, <2>1, <1>1 DEF Goto, ProcessInv, PhasesOK
    <3>2. \A k \in Procs : phase[k] \notin Guarding
      BY <2>1 DEF ProcessInv, Guarded, Procs, NoLaunch
    <3> QED
      BY <1>2, <3>1, <3>2 DEF ProcessInv, Guarded, Guarding, Owning
  <2>2. CASE guard # NoLaunch
    <3>1. guard' = guard /\ to = "dead"
      BY <1>2, <2>2, <1>1 DEF Goto, ProcessInv, PhasesOK
    <3> QED
      BY <1>2, <3>1 DEF ProcessInv, Guarded, Guarding, Owning
  <2> QED
    BY <2>1, <2>2
<1>5. RowsOfPhase'
  BY <1>1, <1>2 DEF ProcessInv, RowsOfPhase, Young, Done
<1>6. ProvenAreGone'
  BY <1>2 DEF ProcessInv, PhasesOK, ProcessTypeOK, ProvenAreGone, Gone
<1>7. Settled'
  BY <1>1, MovesAside DEF Writing
<1> QED
  BY <1>3, <1>4, <1>5, <1>6, <1>7 DEF ProcessInv

LEMMA CheckLockKeeps ==
  ASSUME ProcessInv, NEW l \in Procs, CheckLock(l)
  PROVE  ProcessInv'
<1> USE DEF CheckLock, Refuse, fileVars, tableVars
<1>1. PICK to \in {"checked", "dead"} : Goto(l, to)
  OBVIOUS
<1>2. \A k \in Procs : phase'[k] = IF k = l THEN to ELSE phase[k]
  BY <1>1 DEF Goto, ProcessInv, PhasesOK
<1>3. guard = l /\ \A k \in Procs : phase[k] \in Guarding => k = l
  BY DEF ProcessInv, Guarded, Guarding
<1>4. /\ to = "checked" => guard' = l
      /\ to = "dead" => guard' = NoLaunch
      /\ lockFile' \in {NoLaunch, lockFile}
  BY <1>2, <1>3 DEF Goto, ProcessInv, PhasesOK
<1>5. PhasesOK'
  <2>1. phase' \in [Procs -> Phases]
    BY <1>1 DEF ProcessInv, PhasesOK, Goto, Phases, Guarding
  <2>2. proven' \in [Procs -> SUBSET Procs]
    BY DEF ProcessInv, PhasesOK, ProcessTypeOK
  <2> QED
    BY <1>3, <1>4, <2>1, <2>2 DEF ProcessInv, PhasesOK, ProcessTypeOK
<1>6. Guarded'
  BY <1>2, <1>3, <1>4 DEF ProcessInv, PhasesOK, ProcessTypeOK, Guarded, Guarding, Owning,
     Procs, NoLaunch
<1>7. RowsOfPhase'
  BY <1>1, <1>2 DEF ProcessInv, RowsOfPhase, Young, Done
<1>8. ProvenAreGone'
  <2>1. \A k \in Gone : k \in Gone'
    BY <1>2 DEF Gone
  <2>2. \A k \in proven'[l] : k \in Gone
    <3>1. CASE lockFile \in Procs /\ \E readable \in BOOLEAN : Absent(lockFile, readable)
      <4>1. lockFile \in Gone
        BY <3>1, AbsentIsGone DEF ProcessInv, Guarded
      <4> QED
        BY <4>1 DEF ProcessInv, PhasesOK, ProcessTypeOK, ProvenAreGone
    <3>2. CASE ~(lockFile \in Procs /\ \E readable \in BOOLEAN : Absent(lockFile, readable))
      BY <3>2 DEF ProcessInv, PhasesOK, ProcessTypeOK, ProvenAreGone
    <3> QED
      BY <3>1, <3>2
  <2>3. \A k \in Procs \ {l} : proven'[k] = proven[k]
    BY DEF ProcessInv, PhasesOK, ProcessTypeOK
  <2> QED
    BY <2>1, <2>2, <2>3 DEF ProcessInv, ProvenAreGone
<1>9. Settled'
  BY <1>1, MovesAside DEF Writing
<1> QED
  BY <1>5, <1>6, <1>7, <1>8, <1>9 DEF ProcessInv

LEMMA CheckStateKeeps ==
  ASSUME ProcessInv, NEW l \in Procs, CheckState(l)
  PROVE  ProcessInv'
<1> USE DEF CheckState, tableVars
<1>1. \A k \in Procs : phase'[k] = IF k = l THEN "locking" ELSE phase[k]
  BY DEF Goto, ProcessInv, PhasesOK
<1>2. PhasesOK'
  BY DEF ProcessInv, PhasesOK, ProcessTypeOK, Goto, Phases, Guarding, Procs, NoLaunch
<1>3. Guarded'
  BY <1>1 DEF ProcessInv, PhasesOK, ProcessTypeOK, Guarded, Guarding, Owning, Procs, Unwritten
<1>4. RowsOfPhase'
  BY <1>1 DEF ProcessInv, RowsOfPhase, Young, Done
<1>5. ProvenAreGone'
  <2>1. \A k \in Gone : k \in Gone'
    BY <1>1 DEF Gone
  <2>2. \A k \in Procs \ {l} : proven'[k] = proven[k]
    BY DEF ProcessInv, PhasesOK, ProcessTypeOK
  <2>3. ASSUME NEW k \in proven'[l] PROVE k \in Gone
    <3>1. k \in proven[l] \/ (k \in Procs /\ k = stateFile.launch
                              /\ \E readable \in BOOLEAN : Absent(k, readable))
      BY DEF ProcessInv, PhasesOK, ProcessTypeOK
    <3> QED
      BY <3>1, AbsentIsGone DEF ProcessInv, ProvenAreGone, Guarded
  <2> QED
    BY <2>1, <2>2, <2>3 DEF ProcessInv, ProvenAreGone
<1>6. Settled'
  BY MovesAside DEF Writing
<1> QED
  BY <1>2, <1>3, <1>4, <1>5, <1>6 DEF ProcessInv

\* What a start finds of a launch that is gone in order is over: its session
\* ended, or it never began to write.
LEMMA StartEngineKeeps ==
  ASSUME ProcessInv, NEW l \in Procs, StartEngine(l)
  PROVE  ProcessInv'
<1> USE DEF StartEngine, fileVars
<1>1. PICK to \in {"started", "releasing"} : Goto(l, to)
  OBVIOUS
<1>2. \A k \in Procs : phase'[k] = IF k = l THEN to ELSE phase[k]
  BY <1>1 DEF Goto, ProcessInv, PhasesOK
<1>3. Guarded' /\ phase' \in [Procs -> Phases]
  BY <1>1, MovesInside DEF Owning
<1>4. \A k \in Procs : \/ maker'[k] = maker[k]
                       \/ maker[k] = "unfinished" /\ maker'[k] = "finished"
  <2>1. maker' = maker \/ maker' = Reconciled(l)
    OBVIOUS
  <2>2. \A k \in Procs : \/ Reconciled(l)[k] = maker[k]
                         \/ maker[k] = "unfinished" /\ Reconciled(l)[k] = "finished"
    BY DEF Reconciled
  <2> HIDE DEF StartEngine
  <2> QED
    BY <2>1, <2>2
<1>5. PhasesOK'
  <2>1. maker' \in [Procs -> {"none", "unfinished", "finished"}]
    BY DEF Reconciled, ProcessInv, PhasesOK
  <2> QED
    BY <1>3, <2>1 DEF ProcessInv, PhasesOK, ProcessTypeOK
<1>6. RowsOfPhase'
  <2>1. \A k \in Procs : terminal'[k] = IF k = l /\ to = "releasing" THEN "failed"
                                        ELSE terminal[k]
    BY <1>1, <1>2 DEF Goto, ProcessInv, PhasesOK
  <2>2. session' = session /\ sent' = sent
    OBVIOUS
  <2>3. \A k \in Procs : session[k] = "none" => maker'[k] = "none" /\ ~sent'[k]
    BY <1>4, <2>2 DEF ProcessInv, PhasesOK, RowsOfPhase
  <2>4. session[l] = "none" /\ terminal[l] = "none"
    BY DEF ProcessInv, RowsOfPhase, Young
  <2> HIDE DEF StartEngine
  <2> QED
    BY <1>1, <1>2, <2>1, <2>2, <2>3, <2>4 DEF ProcessInv, RowsOfPhase, Young, Done
<1>7. ProvenAreGone'
  BY <1>2 DEF ProcessInv, PhasesOK, ProcessTypeOK, ProvenAreGone, Gone
<1>8. Settled'
  <2>1. CASE to = "releasing"
    BY <1>2, <2>1 DEF ProcessInv, PhasesOK, Settled, Writing, Goto
  <2>2. CASE to = "started"
    <3> SUFFICES ASSUME NEW k \in Procs, phase[k] \in {"exiting", "left"},
                        terminal[k] # "failed"
                 PROVE  maker'[k] # "unfinished"
      BY <1>2, <2>2 DEF Settled, Goto, ProcessInv, PhasesOK
    <3>1. maker' = Reconciled(l)
      BY <1>2, <2>2 DEF Goto, ProcessInv, PhasesOK
    <3>2. session[k] = "none" \/ session[k] = "ended"
      BY DEF ProcessInv, PhasesOK, RowsOfPhase, Done
    <3> QED
      BY <3>1, <3>2 DEF Reconciled, ProcessInv, PhasesOK, RowsOfPhase
  <2> QED
    BY <2>1, <2>2
<1> QED
  BY <1>3, <1>5, <1>6, <1>7, <1>8 DEF ProcessInv

LEMMA RecordSessionKeeps ==
  ASSUME ProcessInv, NEW l \in Procs, RecordSession(l)
  PROVE  ProcessInv'
<1> USE DEF RecordSession, fileVars, tableVars
<1>1. PICK to \in {"recorded", "draining"} : Goto(l, to)
  OBVIOUS
<1>2. \A k \in Procs : phase'[k] = IF k = l THEN to ELSE phase[k]
  BY <1>1 DEF Goto, ProcessInv, PhasesOK
<1>3. Guarded' /\ phase' \in [Procs -> Phases]
  BY <1>1, MovesInside DEF Owning
<1>4. PhasesOK'
  <2>1. session' \in [Procs -> {"none", "open", "ended"}]
    BY DEF ProcessInv, PhasesOK
  <2> QED
    BY <1>3, <2>1 DEF ProcessInv, PhasesOK, ProcessTypeOK
<1>5. RowsOfPhase'
  BY <1>2 DEF ProcessInv, PhasesOK, RowsOfPhase, Young, Done, Goto
<1>6. ProvenAreGone'
  BY <1>2 DEF ProcessInv, PhasesOK, ProcessTypeOK, ProvenAreGone, Gone
<1>7. Settled'
  BY <1>2 DEF ProcessInv, PhasesOK, Settled, Writing
<1> QED
  BY <1>3, <1>4, <1>5, <1>6, <1>7 DEF ProcessInv

LEMMA PublishStartingKeeps ==
  ASSUME ProcessInv, NEW l \in Procs, PublishStarting(l)
  PROVE  ProcessInv'
<1> USE DEF PublishStarting, fileVars, tableVars, Publish
<1>1. PICK to \in {"running", "draining"} : Goto(l, to)
  OBVIOUS
<1>2. \A k \in Procs : phase'[k] = IF k = l THEN to ELSE phase[k]
  BY <1>1 DEF Goto, ProcessInv, PhasesOK
<1>3. Guarded' /\ phase' \in [Procs -> Phases]
  BY <1>1, MovesInside DEF Owning
<1>4. PhasesOK'
  <2>1. stateFile'.launch \in {l, stateFile.launch}
    BY DEF ProcessInv, PhasesOK
  <2> QED
    BY <1>3, <2>1 DEF ProcessInv, PhasesOK, ProcessTypeOK
<1>5. RowsOfPhase'
  BY <1>2 DEF ProcessInv, PhasesOK, RowsOfPhase, Young, Done, Goto
<1>6. ProvenAreGone'
  BY <1>2 DEF ProcessInv, PhasesOK, ProcessTypeOK, ProvenAreGone, Gone
<1>7. Settled'
  BY <1>2 DEF ProcessInv, PhasesOK, Settled, Writing
<1> QED
  BY <1>3, <1>4, <1>5, <1>6, <1>7 DEF ProcessInv

LEMMA EndSessionKeeps ==
  ASSUME ProcessInv, NEW l \in Procs, EndSession(l)
  PROVE  ProcessInv'
<1> USE DEF EndSession, fileVars, tableVars
<1>1. PICK to \in {"ended", "releasing"} : Goto(l, to)
  OBVIOUS
<1>2. \A k \in Procs : phase'[k] = IF k = l THEN to ELSE phase[k]
  BY <1>1 DEF Goto, ProcessInv, PhasesOK
<1>3. Guarded' /\ phase' \in [Procs -> Phases]
  BY <1>1, MovesInside DEF Owning
<1>4. PhasesOK'
  <2>1. session' \in [Procs -> {"none", "open", "ended"}]
      /\ terminal' \in [Procs -> {"none", "done", "failed"}]
    BY DEF ProcessInv, PhasesOK
  <2> QED
    BY <1>3, <2>1 DEF ProcessInv, PhasesOK, ProcessTypeOK
<1>5. RowsOfPhase'
  BY <1>2 DEF ProcessInv, PhasesOK, RowsOfPhase, Young, Done, Goto
<1>6. ProvenAreGone'
  BY <1>2 DEF ProcessInv, PhasesOK, ProcessTypeOK, ProvenAreGone, Gone
<1>7. Settled'
  BY <1>2 DEF ProcessInv, PhasesOK, Settled, Writing
<1> QED
  BY <1>3, <1>4, <1>5, <1>6, <1>7 DEF ProcessInv

LEMMA OutsideKeeps ==
  ASSUME ProcessInv, RequestStop \/ Foreigner \/ UNCHANGED processVars
  PROVE  ProcessInv'
<1>1. /\ UNCHANGED <<phase, pidOf, guard, lockFile, stateFile, proven, tableVars>>
      /\ foreign' \subseteq Pids
      /\ stopFile' \in {stopFile, stateFile.launch}
  <2>1. CASE RequestStop
    BY <2>1 DEF RequestStop, ProcessInv, PhasesOK, ProcessTypeOK
  <2>2. CASE Foreigner
    BY <2>2 DEF Foreigner, fileVars, ProcessInv, PhasesOK, ProcessTypeOK
  <2>3. CASE UNCHANGED processVars
    BY <2>3 DEF processVars, tableVars, ProcessInv, PhasesOK, ProcessTypeOK
  <2> QED
    BY <2>1, <2>2, <2>3
<1> QED
  BY <1>1 DEF tableVars, ProcessInv, PhasesOK, ProcessTypeOK, Guarded, RowsOfPhase, ProvenAreGone,
     Gone, Settled

LEMMA ProcessNextKeeps == ProcessInv /\ [ProcessNext]_processVars => ProcessInv'
<1> SUFFICES ASSUME ProcessInv, [ProcessNext]_processVars PROVE ProcessInv'
  OBVIOUS
<1>1. CASE RequestStop \/ Foreigner \/ UNCHANGED processVars
  BY <1>1, OutsideKeeps
<1>2. ASSUME NEW l \in Procs,
             Begin(l) \/ Step(l) \/ SendMaker(l) \/ CommitMaker(l) \/ BeginStop(l) \/ Kill(l)
      PROVE  ProcessInv'
  <2>1. CASE Begin(l) \/ SendMaker(l) \/ CommitMaker(l) \/ BeginStop(l) \/ Kill(l)
    BY <2>1, ProcessBeginKeeps, SendMakerKeeps, CommitMakerKeeps, BeginStopKeeps, KillKeeps
  <2>2. CASE Step(l)
    BY <2>2, AcquireGuardKeeps, CheckLockKeeps, CheckStateKeeps, WriteLockKeeps,
       VerifyKeeps, StartEngineKeeps, RecordSessionKeeps, PublishStartingKeeps,
       BeginStopKeeps, EndSessionKeeps, PublishStoppedKeeps, WriteFinalKeeps,
       UnlinkLockKeeps, LeaveKeeps, ExitKeeps DEF Step, StopSeen
  <2> QED
    BY <1>2, <2>1, <2>2
<1> QED
  BY <1>1, <1>2 DEF ProcessNext

LEMMA ProcessInvSuffices == ProcessInv => OwnershipSound
BY DEF ProcessInv, PhasesOK, Guarded, Settled, OwnershipSound, LockNamesOwner, OrderlySettled,
   Guarding

-----------------------------------------------------------------------------
\* The launch that owns the runtime holds the guard and is named by the lock file,
\* only launches that are gone are called absent, and what a stop in order left
\* unfinished is settled by the next start (acquire, reconcile_startup_state, stop).
THEOREM Ownership == ProcessSpec => []OwnershipSound
<1>1. ProcessSpec => []ProcessInv
  BY InitProcessInv, ProcessNextKeeps, PTL DEF ProcessSpec
<1> QED
  BY <1>1, ProcessInvSuffices, PTL

\* Two launches never own the files at once (V4RuntimeFiles.acquire, release).
THEOREM OneOwner ==
  ProcessSpec =>
    [](\A k, l \in Procs : phase[k] \in Owning /\ phase[l] \in Owning => k = l)
<1>1. LockNamesOwner => (\A k, l \in Procs : phase[k] \in Owning /\ phase[l] \in Owning => k = l)
  BY DEF LockNamesOwner
<1> QED
  BY <1>1, Ownership, PTL DEF OwnershipSound

-----------------------------------------------------------------------------
-----------------------------------------------------------------------------
(* The telemetry controller *)

LEMMA ControllerBounds ==
         /\ PhysicalMax \in Nat /\ PhysicalMax > 0 /\ UpWindows \in Nat /\ UpWindows > 0
         /\ EnterWindows \in Nat /\ EnterWindows > 0 /\ ExitWindows \in Nat /\ ExitWindows > 0
         /\ HealthyWindows \in Nat /\ HealthyWindows > 0 /\ RateWindow \in Nat /\ RateWindow > 0
         /\ Settle \in Nat /\ Settle > 1
         /\ Saturation \in Nat /\ Saturation = RateWindow + Settle + HealthyWindows
BY ControllerAssumption DEF Saturation

LEMMA LesserOf ==
  ASSUME NEW x \in Int, NEW y \in Int
  PROVE  Min({x, y}) = IF x <= y THEN x ELSE y
<1> DEFINE l == IF x <= y THEN x ELSE y
<1>1. l \in {x, y} /\ \A z \in {x, y} : l <= z
  OBVIOUS
<1>2. \A k \in {x, y} : (\A z \in {x, y} : k <= z) => k = l
  OBVIOUS
<1> HIDE DEF l
<1>3. Min({x, y}) = l
  BY <1>1, <1>2 DEF Min
<1> QED
  BY <1>3 DEF l

LEMMA GreaterOf ==
  ASSUME NEW x \in Int, NEW y \in Int
  PROVE  Max({x, y}) = IF x >= y THEN x ELSE y
<1> DEFINE l == IF x >= y THEN x ELSE y
<1>1. l \in {x, y} /\ \A z \in {x, y} : l >= z
  OBVIOUS
<1>2. \A k \in {x, y} : (\A z \in {x, y} : k >= z) => k = l
  OBVIOUS
<1> HIDE DEF l
<1>3. Max({x, y}) = l
  BY <1>1, <1>2 DEF Max
<1> QED
  BY <1>3 DEF l

\* How long the lane has been quiet: no row lost, and no tick that found the queue
\* unbounded
Quiet == IF sinceLoss <= calmFor THEN sinceLoss ELSE calmFor

\* What the certificate rests on: the streak starts once the settle time is over
\* and no loss is in the window, and a quiet lane is settled, then healthy.
Certified ==
  /\ settledFor <= sinceLoss /\ healthyStreak <= calmFor
  /\ healthyStreak > 0 => /\ settledFor = Settle
                          /\ sinceLoss >= Settle - 1 + healthyStreak
                          /\ sinceLoss >= RateWindow - 1 + healthyStreak
  /\ Quiet >= RateWindow => settledFor >= Settle \/ settledFor >= Quiet - RateWindow
  /\ Quiet > RateWindow + Settle =>
       healthyStreak >= HealthyWindows \/ healthyStreak >= Quiet - RateWindow - Settle

ControllerInv == ControllerTypeOK /\ selected <= tickSafe /\ Certified

LEMMA ControllerStarts == ControllerInit => ControllerInv
<1> SUFFICES ASSUME ControllerInit PROVE ControllerInv
  OBVIOUS
<1>1. ControllerTypeOK /\ selected <= tickSafe
  BY ControllerBounds DEF ControllerInit, ControllerTypeOK
<1>2. Certified
  BY ControllerBounds DEF ControllerInit, Certified, Quiet
<1> QED
  BY <1>1, <1>2 DEF ControllerInv

\* A chunk is never above the safe size of its tick.
LEMMA ChunkFits ==
  ASSUME ControllerInv, NEW newSafe \in 1..PhysicalMax, NEW size \in ChunkChoices(newSafe)
  PROVE  size.chunk \in 1..newSafe /\ size.streak \in 0..(UpWindows - 1)
<1> DEFINE grown == Min({newSafe, selected + GrowthStep(selected)})
<1>1. ASSUME NEW chunk \in 1..newSafe, NEW streak \in 0..(UpWindows - 1), size \in Floor(newSafe, chunk, streak)
      PROVE  size.chunk \in 1..newSafe /\ size.streak \in 0..(UpWindows - 1)
  <2>1. PICK required \in RequiredRows :
          size = [chunk |-> Max({chunk, Min({required, newSafe})}),
                  streak |-> IF chunk < Min({required, newSafe}) THEN 0 ELSE streak]
    BY <1>1 DEF Floor
  <2>2. required \in Nat /\ required >= 1 /\ newSafe \in Nat /\ chunk \in Nat
    BY ControllerBounds DEF RequiredRows
  <2>3. Min({required, newSafe}) \in 1..newSafe
    BY <2>2, LesserOf
  <2>4. Max({chunk, Min({required, newSafe})}) \in 1..newSafe
    BY <2>2, <2>3, GreaterOf
  <2> QED
    BY <2>1, <2>4, ControllerBounds
<1>2. selected \in Nat /\ selected >= 1 /\ headroom \in 0..(UpWindows - 1)
  BY ControllerBounds DEF ControllerInv, ControllerTypeOK
<1>3. CASE newSafe <= selected
  <2>1. size \in Floor(newSafe, newSafe, 0)
    BY <1>3 DEF ChunkChoices
  <2>2. newSafe \in 1..newSafe /\ 0 \in 0..(UpWindows - 1)
    BY ControllerBounds
  <2> QED
    BY <1>1, <2>1, <2>2
<1>4. CASE ~(newSafe <= selected)
  <2>1. selected \in 1..newSafe /\ 0 \in 0..(UpWindows - 1)
    BY <1>2, <1>4, ControllerBounds
  <2>2. \/ \E clean \in {0, 1, headroom + 1} : size \in Floor(newSafe, selected, Min({clean, UpWindows - 1}))
        \/ size \in Floor(newSafe, grown, 0)
    <3>1. size \in KeptChunk(newSafe) \/ size \in GrownChunk(newSafe)
      BY <1>4 DEF ChunkChoices
    <3>2. CASE size \in KeptChunk(newSafe)
      BY <3>2 DEF KeptChunk
    <3>3. CASE size \in GrownChunk(newSafe)
      BY <3>3 DEF GrownChunk
    <3> QED
      BY <3>1, <3>2, <3>3
  <2>3. GrowthStep(selected) \in Nat
    <3>1. (selected + 3) \div 4 \in Int
      BY <1>2
    <3> QED
      BY <3>1, GreaterOf DEF GrowthStep
  <2>4. grown \in 1..newSafe
    BY <1>2, <2>1, <2>3, LesserOf
  <2>5. \A clean \in {0, 1, headroom + 1} : Min({clean, UpWindows - 1}) \in 0..(UpWindows - 1)
    BY <1>2, LesserOf, ControllerBounds
  <2> HIDE DEF grown
  <2> QED
    BY <1>1, <2>1, <2>2, <2>4, <2>5
<1> QED
  BY <1>3, <1>4

LEMMA OverloadFits ==
  ASSUME ControllerInv, NEW depth \in Depths, NEW next \in OverloadChoices(depth)
  PROVE  /\ next.reason \in {"none", "queue_high_water", "throughput"}
         /\ next.enter \in 0..EnterWindows /\ next.exit \in 0..(ExitWindows - 1)
<1> DEFINE entering(pressure) ==
             IF pressure THEN Min({enterStreak + 1, EnterWindows}) ELSE 0
           Outcome(pressure, calm) ==
             IF depth \in {"high", "full"}
             THEN [reason |-> "queue_high_water", enter |-> entering(pressure), exit |-> 0]
             ELSE IF entering(pressure) = EnterWindows
             THEN [reason |-> "throughput", enter |-> EnterWindows, exit |-> 0]
             ELSE IF overload = "none"
             THEN [reason |-> "none", enter |-> entering(pressure), exit |-> exitStreak]
             ELSE IF ~calm
             THEN [reason |-> overload, enter |-> entering(pressure), exit |-> 0]
             ELSE [reason |-> IF exitStreak + 1 = ExitWindows THEN "none" ELSE overload,
                   enter |-> 0, exit |-> (exitStreak + 1) % ExitWindows]
<1>1. PICK pressure \in BOOLEAN, calm \in BOOLEAN : next = Outcome(pressure, calm)
  BY DEF OverloadChoices
<1>2. /\ enterStreak \in 0..EnterWindows /\ exitStreak \in 0..(ExitWindows - 1)
      /\ overload \in {"none", "queue_high_water", "throughput"}
  BY DEF ControllerInv, ControllerTypeOK
<1>3. entering(pressure) \in 0..EnterWindows /\ EnterWindows \in 0..EnterWindows /\ 0 \in 0..EnterWindows
  <2>1. enterStreak + 1 \in Nat
    BY <1>2, ControllerBounds
  <2> QED
    BY <2>1, LesserOf, ControllerBounds
<1>4. (exitStreak + 1) % ExitWindows \in 0..(ExitWindows - 1) /\ 0 \in 0..(ExitWindows - 1)
  BY <1>2, ControllerBounds
<1> HIDE DEF entering
<1> QED
  BY <1>1, <1>2, <1>3, <1>4

LEMMA TickKeeps == ASSUME ControllerInv, ControlTick PROVE ControllerInv'
<1> USE DEF ControllerInv
<1>1. PICK newSafe \in 1..PhysicalMax, depth \in Depths, accumulating \in BOOLEAN :
      \E size \in ChunkChoices(newSafe), next \in OverloadChoices(depth) :
        /\ selected' = size.chunk /\ safe' = newSafe /\ headroom' = size.streak
        /\ tickSafe' = newSafe
        /\ deadlineCap' \in {deadlineCap, PhysicalMax}
        /\ overload' = next.reason
        /\ enterStreak' = next.enter /\ exitStreak' = next.exit
        /\ \E setback \in {LossInWindow, FALSE} :
             /\ settledFor' = IF setback THEN 0 ELSE Min({settledFor + 1, Settle})
             /\ healthyStreak' =
                  IF settledFor' < Settle \/ LossInWindow \/ accumulating \/ depth = "full" THEN 0
                  ELSE Min({healthyStreak + 1, HealthyWindows})
        /\ sinceLoss' = Min({sinceLoss + 1, Saturation})
        /\ calmFor' = Calm(depth, accumulating)
  BY DEF ControlTick, Measured
<1>2. PICK size \in ChunkChoices(newSafe), next \in OverloadChoices(depth), setback \in {LossInWindow, FALSE} :
        /\ selected' = size.chunk /\ safe' = newSafe /\ headroom' = size.streak
        /\ tickSafe' = newSafe
        /\ deadlineCap' \in {deadlineCap, PhysicalMax}
        /\ overload' = next.reason
        /\ enterStreak' = next.enter /\ exitStreak' = next.exit
        /\ settledFor' = (IF setback THEN 0 ELSE Min({settledFor + 1, Settle}))
        /\ healthyStreak' =
             (IF settledFor' < Settle \/ LossInWindow \/ accumulating \/ depth = "full" THEN 0
              ELSE Min({healthyStreak + 1, HealthyWindows}))
        /\ sinceLoss' = Min({sinceLoss + 1, Saturation})
        /\ calmFor' = Calm(depth, accumulating)
  BY <1>1
<1>3. /\ deadlineCap \in 1..PhysicalMax /\ settledFor \in 0..Settle /\ healthyStreak \in 0..HealthyWindows
      /\ sinceLoss \in 0..Saturation /\ calmFor \in 0..Saturation
  BY DEF ControllerTypeOK
<1>4. newSafe \in 1..PhysicalMax
  OBVIOUS
<1>5. /\ selected' \in 1..newSafe /\ headroom' \in 0..(UpWindows - 1)
      /\ overload' \in {"none", "queue_high_water", "throughput"}
      /\ enterStreak' \in 0..EnterWindows /\ exitStreak' \in 0..(ExitWindows - 1)
  BY <1>2, <1>4, ChunkFits, OverloadFits
<1>6. /\ Min({sinceLoss + 1, Saturation}) = (IF sinceLoss < Saturation THEN sinceLoss + 1 ELSE Saturation)
      /\ Min({calmFor + 1, Saturation}) = (IF calmFor < Saturation THEN calmFor + 1 ELSE Saturation)
      /\ Min({settledFor + 1, Settle}) = (IF settledFor < Settle THEN settledFor + 1 ELSE Settle)
      /\ Min({healthyStreak + 1, HealthyWindows}) =
           (IF healthyStreak < HealthyWindows THEN healthyStreak + 1 ELSE HealthyWindows)
  BY <1>3, LesserOf, ControllerBounds
<1> DEFINE rough == accumulating \/ depth = "full"
<1>7. /\ sinceLoss' = (IF sinceLoss < Saturation THEN sinceLoss + 1 ELSE Saturation)
      /\ calmFor' = (IF rough THEN 0 ELSE IF calmFor < Saturation THEN calmFor + 1 ELSE Saturation)
      /\ settledFor' = (IF setback THEN 0 ELSE IF settledFor < Settle THEN settledFor + 1 ELSE Settle)
      /\ healthyStreak' =
           (IF settledFor' < Settle \/ LossInWindow \/ rough THEN 0
            ELSE IF healthyStreak < HealthyWindows THEN healthyStreak + 1 ELSE HealthyWindows)
      /\ setback => sinceLoss \in 1..(RateWindow - 1)
  BY <1>2, <1>6 DEF Calm, LossInWindow
<1> HIDE DEF rough
<1>8. ControllerTypeOK' /\ selected' <= tickSafe'
  <2>1. sinceLoss' \in 0..Saturation /\ calmFor' \in 0..Saturation
    BY <1>3, <1>7, ControllerBounds
  <2>2. settledFor' \in 0..Settle /\ healthyStreak' \in 0..HealthyWindows
    BY <1>3, <1>7, ControllerBounds
  <2>3. /\ selected' \in 1..PhysicalMax /\ safe' \in 1..PhysicalMax
        /\ tickSafe' \in 1..PhysicalMax /\ selected' <= tickSafe'
        /\ deadlineCap' \in 1..PhysicalMax
    BY <1>2, <1>3, <1>4, <1>5, ControllerBounds
  <2> QED
    BY <1>5, <2>1, <2>2, <2>3 DEF ControllerTypeOK
<1>9. Certified'
  <2>1. settledFor' <= sinceLoss' /\ healthyStreak' <= calmFor'
    BY <1>3, <1>7, ControllerBounds DEF Certified
  <2>2. healthyStreak' > 0 => /\ settledFor' = Settle
                              /\ sinceLoss' >= Settle - 1 + healthyStreak'
                              /\ sinceLoss' >= RateWindow - 1 + healthyStreak'
    BY <1>3, <1>7, ControllerBounds DEF Certified, LossInWindow
  <2>3. Quiet' >= RateWindow => settledFor' >= Settle \/ settledFor' >= Quiet' - RateWindow
    BY <1>3, <1>7, ControllerBounds DEF Certified, LossInWindow, Quiet
  <2>4. Quiet' > RateWindow + Settle =>
          healthyStreak' >= HealthyWindows \/ healthyStreak' >= Quiet' - RateWindow - Settle
    BY <1>3, <1>7, <2>3, ControllerBounds DEF Certified, LossInWindow, Quiet
  <2> QED
    BY <2>1, <2>2, <2>3, <2>4 DEF Certified
<1> QED
  BY <1>8, <1>9

LEMMA MissKeeps == ASSUME ControllerInv, DeadlineMiss PROVE ControllerInv'
<1> USE DEF ControllerInv
<1>1. PICK rows \in 1..PhysicalMax :
        LET cap == Max({1, Min({selected, rows}) \div 2})
        IN  /\ deadlineCap' = cap
            /\ selected' = Min({selected, cap}) /\ safe' = Min({safe, cap})
            /\ tickSafe' = Min({tickSafe, cap})
            /\ headroom' = 0
            /\ UNCHANGED <<overload, enterStreak, exitStreak, settledFor,
                           healthyStreak, sinceLoss, calmFor>>
  BY DEF DeadlineMiss
<1> DEFINE half == Min({selected, rows}) \div 2
           cap == Max({1, half})
<1>2. /\ selected \in 1..PhysicalMax /\ safe \in 1..PhysicalMax /\ tickSafe \in 1..PhysicalMax
      /\ selected <= tickSafe
      /\ rows \in Int /\ selected \in Int /\ safe \in Int /\ tickSafe \in Int
  BY ControllerBounds DEF ControllerTypeOK
<1>3. Min({selected, rows}) \in 1..PhysicalMax
  BY <1>2, LesserOf, ControllerBounds
<1>4. half \in Int /\ half <= PhysicalMax
  <2>1. \A x \in 1..PhysicalMax : x \div 2 \in Int /\ x \div 2 <= PhysicalMax
    BY ControllerBounds
  <2> QED
    BY <1>3, <2>1
<1> HIDE DEF half
<1>5. cap \in 1..PhysicalMax /\ cap \in Int
  BY <1>4, GreaterOf, ControllerBounds
<1>6. /\ deadlineCap' = cap /\ headroom' = 0
      /\ selected' = Min({selected, cap}) /\ safe' = Min({safe, cap}) /\ tickSafe' = Min({tickSafe, cap})
      /\ UNCHANGED <<overload, enterStreak, exitStreak, settledFor,
                     healthyStreak, sinceLoss, calmFor>>
  BY <1>1 DEF half
<1> HIDE DEF cap
<1>7. /\ selected' \in 1..PhysicalMax /\ safe' \in 1..PhysicalMax /\ tickSafe' \in 1..PhysicalMax
      /\ selected' <= tickSafe'
  BY <1>2, <1>5, <1>6, LesserOf, ControllerBounds
<1>8. ControllerTypeOK'
  BY <1>5, <1>6, <1>7, ControllerBounds DEF ControllerTypeOK
<1> QED
  BY <1>6, <1>7, <1>8 DEF Certified, Quiet

LEMMA ControllerStep == ControllerInv /\ [ControllerNext]_controllerVars => ControllerInv'
<1> SUFFICES ASSUME ControllerInv, [ControllerNext]_controllerVars PROVE ControllerInv'
  OBVIOUS
<1>1. CASE ControlTick
  BY <1>1, TickKeeps
<1>2. CASE DeadlineMiss
  BY <1>2, MissKeeps
<1>3. CASE RowsLost
  <2>1. ControllerTypeOK' /\ selected' <= tickSafe'
    BY <1>3, ControllerBounds DEF ControllerInv, ControllerTypeOK, RowsLost
  <2>2. Certified'
    BY <1>3, ControllerBounds DEF ControllerInv, ControllerTypeOK, Certified, Quiet, RowsLost
  <2> QED
    BY <2>1, <2>2 DEF ControllerInv
<1>4. CASE UNCHANGED controllerVars
  BY <1>4 DEF controllerVars, ControllerInv, ControllerTypeOK, Certified, Quiet
<1>5. CASE Remeasure
  <2>1. PICK newSafe \in 1..PhysicalMax :
          /\ deadlineCap' \in {deadlineCap, PhysicalMax} /\ safe' = newSafe
          /\ UNCHANGED <<selected, headroom, overload, enterStreak, exitStreak,
                         settledFor, healthyStreak, sinceLoss, calmFor, tickSafe>>
    BY <1>5 DEF Remeasure, Measured
  <2>2. ControllerTypeOK' /\ selected' <= tickSafe'
    BY <2>1, ControllerBounds DEF ControllerInv, ControllerTypeOK
  <2>3. Certified'
    BY <2>1 DEF ControllerInv, Certified, Quiet
  <2> QED
    BY <2>2, <2>3 DEF ControllerInv
<1> QED
  BY <1>1, <1>2, <1>3, <1>4, <1>5 DEF ControllerNext

LEMMA ControllerInvImplies == ControllerInv => HealthCertified
<1> SUFFICES ASSUME ControllerInv PROVE RecoveryEarned /\ RecoversInTime
  BY DEF HealthCertified, ControllerInv, ChunkFollows
<1> USE DEF ControllerInv, ControllerTypeOK, Certified
<1>1. RecoveryEarned
  BY ControllerBounds DEF RecoveryEarned, Healthy
<1>2. RecoversInTime
  BY ControllerBounds DEF RecoversInTime, Healthy, Quiet
<1> QED
  BY <1>1, <1>2

\* The lane is certified healthy only on settle time and healthy windows without
\* a lost row, each counted by a tick that left the chunk within what its deadline
\* allows, and always once it was quiet long enough.
THEOREM Certification == ControllerSpec => []HealthCertified
<1>1. ControllerInit => ControllerInv
  BY ControllerStarts
<1>2. ControllerInv /\ [ControllerNext]_controllerVars => ControllerInv'
  BY ControllerStep
<1>3. ControllerInv => HealthCertified
  BY ControllerInvImplies
<1> QED
  BY <1>1, <1>2, <1>3, PTL DEF ControllerSpec

-----------------------------------------------------------------------------
(* Least numbers, sums of sequences and the rows a batch keeps *)

\* A set of subsets of a finite set has a minimal one.
LEMMA LeastSubset ==
  ASSUME NEW S, IsFiniteSet(S), NEW C, C \subseteq SUBSET S, C # {}
  PROVE  \E T \in C : \A U \in C : U \subseteq T => U = T
<1>1. IsWellFoundedOn(StrictSubsetOrdering(S), SUBSET S)
  BY FS_StrictSubsetOrderingWellFounded, FS_FiniteSubsetsOfFinite
<1>2. PICK T \in C : \A U \in C : ~(<<U, T>> \in StrictSubsetOrdering(S))
  BY <1>1, WFMin
<1> QED
  BY <1>2 DEF StrictSubsetOrdering

\* The least-number principle, for a set of naturals.
LEMMA LeastNat ==
  ASSUME NEW T, T \subseteq Nat, T # {}
  PROVE  \E n \in T : \A m \in T : n <= m
<1> PICK k \in T : TRUE
  OBVIOUS
<1> DEFINE C == {0..n : n \in {n \in T : n <= k}}
<1>1. IsFiniteSet(0..k)
  BY FS_Interval
<1>2. C \subseteq SUBSET (0..k) /\ C # {}
  OBVIOUS
<1>3. \E A \in C : \A B \in C : B \subseteq A => B = A
  <2> DEFINE I == 0..k
  <2>1. IsFiniteSet(I) /\ C \subseteq SUBSET I /\ C # {}
    BY <1>1, <1>2
  <2> HIDE DEF C, I
  <2> QED
    BY <2>1, LeastSubset
<1>p. PICK A \in C : \A B \in C : B \subseteq A => B = A
  BY <1>3
<1>4. PICK n \in T : n <= k /\ A = 0..n
  OBVIOUS
<1>5. ASSUME NEW m \in T, m < n PROVE FALSE
  <2>1. 0..m \in C /\ 0..m \subseteq A
    BY <1>4, <1>5
  <2>2. 0..m = 0..n
    BY <2>1, <1>p, <1>4
  <2>3. n \in 0..n /\ n \notin 0..m
    BY <1>5
  <2> QED
    BY <2>2, <2>3
<1> QED
  BY <1>5

\* What fails for no first number fails for none.
LEMMA FirstFailure ==
  ASSUME NEW n \in Nat, NEW B, B \subseteq 0..n, B # {}
  PROVE  \E k \in B : k \in Nat /\ k <= n /\ \A m \in 0..n : m < k => m \notin B
<1>1. B \subseteq Nat
  OBVIOUS
<1>2. PICK k \in B : \A m \in B : k <= m
  BY <1>1, LeastNat
<1> QED
  BY <1>2

-----------------------------------------------------------------------------
(* Sums of sequences *)

\* The sums of the prefixes of s
Running(s, f) ==
  f \in [0..Len(s) -> Int] /\ f[0] = 0 /\ \A k \in 1..Len(s) : f[k] = f[k - 1] + s[k]

Sums(s, f) == f = [n \in 0..Len(s) |-> IF n = 0 THEN 0 ELSE f[n - 1] + s[n]]

LEMMA TotalChoice ==
  ASSUME NEW s PROVE Total(s) = (CHOOSE f : Sums(s, f))[Len(s)]
BY DEF Total, Sums

RunsTo(s, f, n) ==
  f \in [0..n -> Int] /\ f[0] = 0 /\ \A k \in 1..n : f[k] = f[k - 1] + s[k]

LEMMA RunningExists ==
  ASSUME NEW s \in Seq(Int) PROVE \E f : Running(s, f)
<1>1. Len(s) \in Nat /\ \A k \in 1..Len(s) : s[k] \in Int
  OBVIOUS
<1> DEFINE Bad == {n \in 0..Len(s) : ~\E f : RunsTo(s, f, n)}
<1>2. Bad = {}
  <2> SUFFICES ASSUME Bad # {} PROVE FALSE
    OBVIOUS
  <2>1. PICK n \in Bad : n \in Nat /\ n <= Len(s) /\ \A m \in 0..Len(s) : m < n => m \notin Bad
    <3>1. Bad \subseteq 0..Len(s)
      OBVIOUS
    <3> HIDE DEF Bad
    <3> QED
      BY <3>1, <1>1, FirstFailure
  <2>2. n # 0
    <3>1. RunsTo(s, [k \in 0..0 |-> 0], 0)
      BY DEF RunsTo
    <3> QED
      BY <3>1
  <2>3. PICK f : RunsTo(s, f, n - 1)
    BY <1>1, <2>1, <2>2
  <2> DEFINE g == [k \in 0..n |-> IF k = n THEN f[n - 1] + s[n] ELSE f[k]]
  <2>4. n - 1 \in Nat /\ n \in 1..Len(s) /\ s[n] \in Int
    BY <1>1, <2>1, <2>2
  <2>5. f \in [0..(n - 1) -> Int] /\ f[0] = 0 /\ \A k \in 1..(n - 1) : f[k] = f[k - 1] + s[k]
    BY <2>3 DEF RunsTo
  <2>6. g \in [0..n -> Int] /\ g[0] = 0
    BY <2>4, <2>5
  <2>7. \A k \in 1..n : g[k] = g[k - 1] + s[k]
    BY <2>4, <2>5
  <2>8. RunsTo(s, g, n)
    <3> HIDE DEF g
    <3> QED
      BY <2>6, <2>7 DEF RunsTo
  <2> QED
    BY <2>8
<1>3. Len(s) \notin Bad
  BY <1>2
<1>4. PICK f : RunsTo(s, f, Len(s))
  BY <1>1, <1>3
<1> QED
  BY <1>4 DEF RunsTo, Running

LEMMA TotalRunning ==
  ASSUME NEW s \in Seq(Int), NEW f, Running(s, f) PROVE Total(s) = f[Len(s)]
<1>1. Len(s) \in Nat /\ \A k \in 1..Len(s) : s[k] \in Int
  OBVIOUS
<1>2. Sums(s, f)
  BY <1>1 DEF Running, Sums
<1> DEFINE g == CHOOSE f0 : Sums(s, f0)
<1>3. Sums(s, g)
  BY <1>2
<1>4. Total(s) = g[Len(s)]
  BY TotalChoice
<1> HIDE DEF g
<1>5. g[0] = 0 /\ \A k \in 1..Len(s) : g[k] = g[k - 1] + s[k]
  <2>1. \A k \in 0..Len(s) : g[k] = IF k = 0 THEN 0 ELSE g[k - 1] + s[k]
    BY <1>3 DEF Sums
  <2> QED
    BY <1>1, <2>1
<1> DEFINE Bad == {k \in 0..Len(s) : g[k] # f[k]}
<1>6. Bad = {}
  <2> SUFFICES ASSUME Bad # {} PROVE FALSE
    OBVIOUS
  <2>1. PICK n \in Bad : n \in Nat /\ n <= Len(s) /\ \A m \in 0..Len(s) : m < n => m \notin Bad
    <3>1. Bad \subseteq 0..Len(s)
      OBVIOUS
    <3> HIDE DEF Bad
    <3> QED
      BY <3>1, <1>1, FirstFailure
  <2>2. n # 0
    BY <2>1, <1>5 DEF Running
  <2>3. n - 1 \in 0..Len(s) /\ n - 1 < n /\ n \in 1..Len(s)
    BY <2>1, <2>2, <1>1
  <2>4. g[n - 1] = f[n - 1]
    BY <2>1, <2>3
  <2> QED
    BY <2>1, <2>3, <2>4, <1>5 DEF Running
<1> QED
  BY <1>1, <1>4, <1>6

LEMMA TotalOf ==
  ASSUME NEW s \in Seq(Int)
  PROVE  Total(s) \in Int /\ \E f : Running(s, f) /\ Total(s) = f[Len(s)]
<1>1. PICK f : Running(s, f)
  BY RunningExists
<1>2. Total(s) = f[Len(s)] /\ Len(s) \in Nat
  BY <1>1, TotalRunning
<1>3. f \in [0..Len(s) -> Int] /\ Len(s) \in 0..Len(s)
  BY <1>1, <1>2 DEF Running
<1>4. f[Len(s)] \in Int
  BY <1>3
<1> QED
  BY <1>1, <1>2, <1>4

LEMMA TotalEmpty == Total(<< >>) = 0
<1>1. << >> \in Seq(Int) /\ Len(<< >>) = 0
  OBVIOUS
<1>2. PICK f : Running(<< >>, f) /\ Total(<< >>) = f[Len(<< >>)]
  BY <1>1, TotalOf
<1> QED
  BY <1>1, <1>2 DEF Running

LEMMA TotalConcat ==
  ASSUME NEW s \in Seq(Int), NEW t \in Seq(Int)
  PROVE  Total(s \o t) = Total(s) + Total(t)
<1> DEFINE m == Len(s)
           n == Len(t)
<1>1. PICK f : Running(s, f) /\ Total(s) = f[m]
  BY TotalOf
<1>2. PICK h : Running(t, h) /\ Total(t) = h[n]
  BY TotalOf
<1>3. /\ m \in Nat /\ n \in Nat /\ s \o t \in Seq(Int) /\ Len(s \o t) = m + n
      /\ \A k \in 1..(m + n) : (s \o t)[k] = IF k <= m THEN s[k] ELSE t[k - m]
      /\ \A k \in 1..m : s[k] \in Int
      /\ \A k \in 1..n : t[k] \in Int
  OBVIOUS
<1>4. /\ f \in [0..m -> Int] /\ f[0] = 0 /\ \A k \in 1..m : f[k] = f[k - 1] + s[k]
      /\ h \in [0..n -> Int] /\ h[0] = 0 /\ \A k \in 1..n : h[k] = h[k - 1] + t[k]
  BY <1>1, <1>2 DEF Running
<1> DEFINE u == s \o t
           g == [k \in 0..(m + n) |-> IF k <= m THEN f[k] ELSE f[m] + h[k - m]]
<1> HIDE DEF m, n, u
<1>5. g \in [0..(m + n) -> Int] /\ g[0] = 0
  <2>1. ASSUME NEW k \in 0..(m + n) PROVE (IF k <= m THEN f[k] ELSE f[m] + h[k - m]) \in Int
    <3>1. CASE k <= m
      <4>1. k \in 0..m
        BY <3>1, <1>3
      <4> QED
        BY <3>1, <4>1, <1>4
    <3>2. CASE ~(k <= m)
      <4>1. k - m \in 0..n /\ m \in 0..m
        BY <3>2, <1>3
      <4>2. f[m] \in Int /\ h[k - m] \in Int
        BY <4>1, <1>4
      <4> QED
        BY <3>2, <4>2
    <3> QED
      BY <3>1, <3>2
  <2>2. 0 \in 0..(m + n) /\ 0 <= m
    BY <1>3
  <2> QED
    BY <2>1, <2>2, <1>4
<1>6. ASSUME NEW k \in 1..(m + n) PROVE g[k] = g[k - 1] + u[k]
  <2>1. k \in Nat /\ k >= 1 /\ k <= m + n /\ k \in 0..(m + n) /\ k - 1 \in 0..(m + n)
    BY <1>3
  <2>2. u[k] = IF k <= m THEN s[k] ELSE t[k - m]
    BY <1>3 DEF u
  <2>3. CASE k <= m
    BY <2>1, <2>2, <2>3, <1>3, <1>4
  <2>4. CASE k = m + 1
    <3>1. g[k] = f[m] + h[1] /\ g[k - 1] = f[m] /\ u[k] = t[1]
      BY <2>1, <2>2, <2>4, <1>3
    <3>2. h[1] = h[0] + t[1] /\ h[0] = 0 /\ f[m] \in Int /\ t[1] \in Int
      BY <2>1, <2>4, <1>3, <1>4
    <3> QED
      BY <3>1, <3>2
  <2>5. CASE k > m + 1
    <3>1. k - m \in 1..n /\ (k - 1) - m = (k - m) - 1 /\ ~(k <= m) /\ ~(k - 1 <= m)
      BY <2>1, <2>5, <1>3
    <3>2. g[k] = f[m] + h[k - m] /\ g[k - 1] = f[m] + h[(k - m) - 1] /\ u[k] = t[k - m]
      BY <2>1, <2>2, <3>1
    <3>3. h[k - m] = h[(k - m) - 1] + t[k - m] /\ (k - m) - 1 \in 0..n
      BY <3>1, <1>3, <1>4
    <3>4. f[m] \in Int /\ h[(k - m) - 1] \in Int /\ t[k - m] \in Int
      BY <3>1, <3>3, <1>3, <1>4
    <3> QED
      BY <3>2, <3>3, <3>4
  <2> QED
    BY <2>1, <2>3, <2>4, <2>5, <1>3
<1>7. Running(u, g)
  <2>1. Len(u) = m + n
    BY <1>3 DEF u
  <2> HIDE DEF g
  <2> QED
    BY <2>1, <1>5, <1>6 DEF Running
<1>8. Total(u) = g[m + n]
  <2>1. u \in Seq(Int) /\ Len(u) = m + n
    BY <1>3 DEF u
  <2> HIDE DEF g
  <2> QED
    BY <2>1, <1>7, TotalRunning
<1>9. g[m + n] = f[m] + h[n]
  BY <1>3, <1>4
<1> QED
  BY <1>1, <1>2, <1>8, <1>9 DEF u

LEMMA TotalOne == ASSUME NEW x \in Int PROVE Total(<<x>>) = x
<1>1. <<x>> \in Seq(Int) /\ Len(<<x>>) = 1 /\ <<x>>[1] = x
  OBVIOUS
<1>2. PICK f : Running(<<x>>, f) /\ Total(<<x>>) = f[Len(<<x>>)]
  BY <1>1, TotalOf
<1>3. f[1] = f[0] + x /\ f[0] = 0
  BY <1>1, <1>2 DEF Running
<1> QED
  BY <1>1, <1>2, <1>3

LEMMA TotalNat ==
  ASSUME NEW s \in Seq(Nat)
  PROVE  Total(s) \in Nat /\ \A i \in 1..Len(s) : s[i] <= Total(s)
<1>1. s \in Seq(Int) /\ Len(s) \in Nat /\ \A k \in 1..Len(s) : s[k] \in Nat
  OBVIOUS
<1>2. PICK f : Running(s, f) /\ Total(s) = f[Len(s)]
  BY <1>1, TotalOf
<1>3. /\ f \in [0..Len(s) -> Int] /\ f[0] = 0
      /\ \A k \in 1..Len(s) : f[k] = f[k - 1] + s[k]
  BY <1>2 DEF Running
<1> DEFINE Bad == {k \in 0..Len(s) : ~(f[k] >= 0 /\ \A i \in 1..k : s[i] <= f[k])}
<1>4. Bad = {}
  <2> SUFFICES ASSUME Bad # {} PROVE FALSE
    OBVIOUS
  <2>1. PICK n \in Bad : n \in Nat /\ n <= Len(s) /\ \A m \in 0..Len(s) : m < n => m \notin Bad
    <3>1. Bad \subseteq 0..Len(s)
      OBVIOUS
    <3> HIDE DEF Bad
    <3> QED
      BY <3>1, <1>1, FirstFailure
  <2>2. n # 0
    BY <2>1, <1>3
  <2>3. n - 1 \in 0..Len(s) /\ n - 1 < n /\ n \in 1..Len(s)
    BY <2>1, <2>2, <1>1
  <2>4. f[n - 1] >= 0 /\ \A i \in 1..(n - 1) : s[i] <= f[n - 1]
    BY <2>1, <2>3
  <2>5. f[n] = f[n - 1] + s[n] /\ s[n] \in Nat /\ f[n - 1] \in Int
    BY <2>3, <1>1, <1>3
  <2>6. \A i \in 1..n : s[i] \in Nat /\ (i \in 1..(n - 1) \/ i = n)
    BY <2>1, <2>3, <1>1
  <2>7. f[n] >= 0 /\ \A i \in 1..n : s[i] <= f[n]
    <3> DEFINE a == f[n - 1]
               b == f[n]
    <3>1. a \in Int /\ a >= 0 /\ s[n] \in Nat /\ b = a + s[n]
      BY <2>4, <2>5
    <3>2. \A i \in 1..(n - 1) : s[i] <= a
      BY <2>4
    <3>3. b >= 0 /\ s[n] <= b /\ a <= b /\ b \in Int
      <4> HIDE DEF a, b
      <4> QED
        BY <3>1
    <3> HIDE DEF a, b
    <3>4. ASSUME NEW i \in 1..n PROVE s[i] <= b
      <4>1. CASE i = n
        BY <3>3, <4>1
      <4>2. CASE i \in 1..(n - 1)
        <5>1. s[i] \in Nat /\ s[i] <= a
          BY <2>6, <3>2, <4>2
        <5> QED
          <6> DEFINE c == s[i]
          <6>1. c \in Int /\ c <= a /\ a <= b /\ a \in Int /\ b \in Int
            BY <3>1, <3>3, <5>1
          <6> HIDE DEF c
          <6>2. c <= b
            BY <6>1
          <6> QED
            BY <6>2 DEF c
      <4> QED
        BY <2>6, <4>1, <4>2
    <3> QED
      BY <3>3, <3>4 DEF b
  <2> QED
    BY <2>1, <2>7
<1>5. Len(s) \notin Bad
  BY <1>4
<1> QED
  BY <1>1, <1>2, <1>3, <1>5

\* One number more at one place
LEMMA TotalBump ==
  ASSUME NEW s \in Seq(Int), NEW i \in 1..Len(s), NEW t \in Seq(Int), Len(t) = Len(s),
         \A k \in 1..Len(s) : t[k] = IF k = i THEN s[k] + 1 ELSE s[k]
  PROVE  Total(t) = Total(s) + 1
<1>1. Len(s) \in Nat /\ \A k \in 1..Len(s) : s[k] \in Int
  OBVIOUS
<1>2. PICK f : Running(s, f) /\ Total(s) = f[Len(s)]
  BY TotalOf
<1>3. /\ f \in [0..Len(s) -> Int] /\ f[0] = 0
      /\ \A k \in 1..Len(s) : f[k] = f[k - 1] + s[k]
  BY <1>2 DEF Running
<1> DEFINE m == Len(s)
           g == [k \in 0..m |-> IF k >= i THEN f[k] + 1 ELSE f[k]]
<1>m. m \in Nat /\ i \in 1..m /\ i \in Nat /\ i >= 1 /\ i <= m
  BY <1>1
<1>4. g \in [0..m -> Int] /\ g[0] = 0
  BY <1>m, <1>3
<1>g. \A k \in 0..m : g[k] = IF k >= i THEN f[k] + 1 ELSE f[k]
  OBVIOUS
<1>5. ASSUME NEW k \in 1..m PROVE g[k] = g[k - 1] + t[k]
  <2> HIDE DEF g
  <2>1. k \in 0..m /\ k - 1 \in 0..m /\ k \in Int
    BY <1>m
  <2>2. f[k] = f[k - 1] + s[k] /\ f[k - 1] \in Int /\ f[k] \in Int /\ s[k] \in Int
    BY <2>1, <1>1, <1>3
  <2>3. t[k] = IF k = i THEN s[k] + 1 ELSE s[k]
    OBVIOUS
  <2>4. /\ g[k] = IF k >= i THEN f[k] + 1 ELSE f[k]
        /\ g[k - 1] = IF k - 1 >= i THEN f[k - 1] + 1 ELSE f[k - 1]
    BY <2>1, <1>g
  <2> HIDE DEF m
  <2>5. CASE k = i
    <3>1. k >= i /\ ~(k - 1 >= i)
      BY <2>1, <2>5, <1>m
    <3>2. g[k] = f[k] + 1 /\ g[k - 1] = f[k - 1] /\ t[k] = s[k] + 1
      BY <2>3, <2>4, <2>5, <3>1
    <3> DEFINE a == f[k - 1]
               b == s[k]
    <3>3. a \in Int /\ b \in Int /\ g[k] = (a + b) + 1 /\ g[k - 1] = a /\ t[k] = b + 1
      BY <2>2, <3>2
    <3> HIDE DEF a, b
    <3> QED
      BY <3>3
  <2>6. CASE k < i
    BY <2>1, <2>2, <2>3, <2>4, <2>6, <1>m
  <2>7. CASE k > i
    <3>1. k >= i /\ k - 1 >= i /\ k # i
      BY <2>1, <2>7, <1>m
    <3>2. g[k] = f[k] + 1 /\ g[k - 1] = f[k - 1] + 1 /\ t[k] = s[k]
      BY <2>3, <2>4, <3>1
    <3> DEFINE a == f[k - 1]
               b == s[k]
    <3>3. a \in Int /\ b \in Int /\ g[k] = (a + b) + 1 /\ g[k - 1] = a + 1 /\ t[k] = b
      BY <2>2, <3>2
    <3> HIDE DEF a, b
    <3> QED
      BY <3>3
  <2> QED
    BY <2>1, <2>5, <2>6, <2>7, <1>m
<1>6. Running(t, g)
  <2> HIDE DEF g
  <2> QED
    BY <1>4, <1>5 DEF Running
<1>7. Total(t) = g[m]
  <2> HIDE DEF g
  <2> QED
    BY <1>6, TotalRunning
<1>8. g[m] = f[m] + 1
  BY <1>m, <1>g
<1> QED
  BY <1>2, <1>7, <1>8

\* Numbers that are each one smaller
LEMMA TotalLess ==
  ASSUME NEW s \in Seq(Int), NEW t \in Seq(Int), Len(t) = Len(s),
         \A k \in 1..Len(s) : t[k] = s[k] - 1
  PROVE  Total(t) = Total(s) - Len(s)
<1>1. Len(s) \in Nat /\ \A k \in 1..Len(s) : s[k] \in Int
  OBVIOUS
<1>2. PICK f : Running(s, f) /\ Total(s) = f[Len(s)]
  BY TotalOf
<1>3. /\ f \in [0..Len(s) -> Int] /\ f[0] = 0
      /\ \A k \in 1..Len(s) : f[k] = f[k - 1] + s[k]
  BY <1>2 DEF Running
<1> DEFINE g == [k \in 0..Len(s) |-> f[k] - k]
<1>4. g \in [0..Len(t) -> Int] /\ g[0] = 0
  BY <1>1, <1>3
<1>5. ASSUME NEW k \in 1..Len(t) PROVE g[k] = g[k - 1] + t[k]
  <2>1. k \in 0..Len(s) /\ k - 1 \in 0..Len(s) /\ k \in 1..Len(s)
    BY <1>1
  <2>2. f[k] = f[k - 1] + s[k] /\ f[k - 1] \in Int /\ s[k] \in Int
    BY <2>1, <1>1, <1>3
  <2>3. t[k] = s[k] - 1
    BY <2>1
  <2>4. g[k] = f[k] - k /\ g[k - 1] = f[k - 1] - (k - 1)
    BY <2>1
  <2> HIDE DEF g
  <2> QED
    BY <2>2, <2>3, <2>4
<1>6. Running(t, g)
  <2> HIDE DEF g
  <2> QED
    BY <1>4, <1>5 DEF Running
<1>7. Total(t) = g[Len(t)]
  <2> HIDE DEF g
  <2> QED
    BY <1>6, TotalRunning
<1> QED
  BY <1>1, <1>2, <1>3, <1>7

-----------------------------------------------------------------------------
(* The rows of a sequence at some places, and what rows weigh *)

\* p[k] is what is picked from the first k rows of s.
Picking(s, places, p, n) ==
  /\ DOMAIN p = 0..n /\ p[0] = << >>
  /\ \A k \in 1..n : p[k] = IF k \in places THEN Append(p[k - 1], s[k]) ELSE p[k - 1]

PicksBy(s, places, p) ==
  p = [n \in 0..Len(s) |->
         IF n = 0 THEN << >>
         ELSE IF n \in places THEN Append(p[n - 1], s[n]) ELSE p[n - 1]]

LEMMA PickedChoice ==
  ASSUME NEW s, NEW places PROVE Picked(s, places) = (CHOOSE p : PicksBy(s, places, p))[Len(s)]
BY DEF Picked, PicksBy

LEMMA PickingExists ==
  ASSUME NEW R, NEW s \in Seq(R), NEW places PROVE \E p : Picking(s, places, p, Len(s))
<1>1. Len(s) \in Nat
  OBVIOUS
<1> DEFINE Bad == {n \in 0..Len(s) : ~\E p : Picking(s, places, p, n)}
<1>2. Bad = {}
  <2> SUFFICES ASSUME Bad # {} PROVE FALSE
    OBVIOUS
  <2>1. PICK n \in Bad : n \in Nat /\ n <= Len(s) /\ \A m \in 0..Len(s) : m < n => m \notin Bad
    <3>1. Bad \subseteq 0..Len(s)
      OBVIOUS
    <3> HIDE DEF Bad
    <3> QED
      BY <3>1, <1>1, FirstFailure
  <2>2. n # 0
    <3>1. Picking(s, places, [k \in 0..0 |-> << >>], 0)
      BY DEF Picking
    <3> QED
      BY <3>1
  <2>3. PICK p : Picking(s, places, p, n - 1)
    BY <1>1, <2>1, <2>2
  <2> DEFINE new == IF n \in places THEN Append(p[n - 1], s[n]) ELSE p[n - 1]
             g == [k \in 0..n |-> IF k = n THEN new ELSE p[k]]
  <2>4. n - 1 \in Nat /\ n \in 1..Len(s) /\ n - 1 \in 0..n /\ n \in 0..n
    BY <1>1, <2>1, <2>2
  <2>5. p[0] = << >> /\ \A k \in 1..(n - 1) :
          p[k] = IF k \in places THEN Append(p[k - 1], s[k]) ELSE p[k - 1]
    BY <2>3 DEF Picking
  <2> HIDE DEF new
  <2>6. DOMAIN g = 0..n /\ g[0] = << >> /\ g[n] = new /\ g[n - 1] = p[n - 1]
    BY <2>4, <2>5
  <2>7. ASSUME NEW k \in 1..n PROVE g[k] = IF k \in places THEN Append(g[k - 1], s[k]) ELSE g[k - 1]
    <3>1. CASE k = n
      BY <3>1, <2>6 DEF new
    <3>2. CASE k # n
      <4>1. k \in 1..(n - 1) /\ k \in 0..n /\ k - 1 \in 0..n /\ k - 1 # n
        BY <3>2, <2>4
      <4>2. g[k] = p[k] /\ g[k - 1] = p[k - 1]
        BY <3>2, <4>1
      <4> HIDE DEF g
      <4> QED
        BY <4>1, <4>2, <2>5
    <3> QED
      BY <3>1, <3>2
  <2>8. Picking(s, places, g, n)
    <3> HIDE DEF g
    <3> QED
      BY <2>6, <2>7 DEF Picking
  <2> QED
    BY <2>8
<1> QED
  BY <1>1, <1>2

LEMMA PickedPicking ==
  ASSUME NEW R, NEW s \in Seq(R), NEW places, NEW p, Picking(s, places, p, Len(s))
  PROVE  Picked(s, places) = p[Len(s)]
<1>1. Len(s) \in Nat
  OBVIOUS
<1>2. p[0] = << >> /\ DOMAIN p = 0..Len(s) /\ \A k \in 1..Len(s) :
        p[k] = IF k \in places THEN Append(p[k - 1], s[k]) ELSE p[k - 1]
  BY DEF Picking
<1>3. PicksBy(s, places, [k \in 0..Len(s) |-> p[k]])
  <2> DEFINE q == [k \in 0..Len(s) |-> p[k]]
             h == [n \in 0..Len(s) |->
                     IF n = 0 THEN << >>
                     ELSE IF n \in places THEN Append(q[n - 1], s[n]) ELSE q[n - 1]]
  <2>1. ASSUME NEW n \in 0..Len(s) PROVE q[n] = h[n]
    <3>1. CASE n = 0
      BY <1>2, <3>1
    <3>2. CASE n # 0
      <4>1. n \in 1..Len(s) /\ n - 1 \in 0..Len(s)
        BY <1>1, <3>2
      <4>2. q[n] = p[n] /\ q[n - 1] = p[n - 1]
        BY <4>1
      <4>3. h[n] = IF n \in places THEN Append(q[n - 1], s[n]) ELSE q[n - 1]
        BY <3>2
      <4> HIDE DEF q, h
      <4> QED
        BY <4>1, <4>2, <4>3, <1>2
    <3> QED
      BY <3>1, <3>2
  <2>2. q = h
    BY <2>1
  <2> QED
    BY <2>2 DEF PicksBy
<1> DEFINE g == CHOOSE q : PicksBy(s, places, q)
<1>4. PicksBy(s, places, g)
  BY <1>3
<1>5. Picked(s, places) = g[Len(s)]
  BY PickedChoice
<1> HIDE DEF g
<1>6. g[0] = << >> /\ \A k \in 1..Len(s) :
        g[k] = IF k \in places THEN Append(g[k - 1], s[k]) ELSE g[k - 1]
  <2>1. \A k \in 0..Len(s) : g[k] = IF k = 0 THEN << >>
           ELSE IF k \in places THEN Append(g[k - 1], s[k]) ELSE g[k - 1]
    BY <1>4 DEF PicksBy
  <2>2. 0 \in 0..Len(s) /\ \A k \in 1..Len(s) : k \in 0..Len(s) /\ k # 0
    BY <1>1
  <2> QED
    BY <2>1, <2>2
<1> DEFINE Bad == {k \in 0..Len(s) : g[k] # p[k]}
<1>7. Bad = {}
  <2> SUFFICES ASSUME Bad # {} PROVE FALSE
    OBVIOUS
  <2>1. PICK n \in Bad : n \in Nat /\ n <= Len(s) /\ \A m \in 0..Len(s) : m < n => m \notin Bad
    <3>1. Bad \subseteq 0..Len(s)
      OBVIOUS
    <3> HIDE DEF Bad
    <3> QED
      BY <3>1, <1>1, FirstFailure
  <2>2. n # 0
    BY <2>1, <1>2, <1>6
  <2>3. n - 1 \in 0..Len(s) /\ n - 1 < n /\ n \in 1..Len(s)
    BY <2>1, <2>2, <1>1
  <2>4. g[n - 1] = p[n - 1]
    BY <2>1, <2>3
  <2>5. g[n] = p[n]
    BY <2>3, <2>4, <1>2, <1>6
  <2> QED
    BY <2>1, <2>5
<1> QED
  BY <1>1, <1>5, <1>7

PickedBy(R, s, places, p) ==
  /\ p \in [0..Len(s) -> Seq(R)] /\ p[0] = << >>
  /\ \A k \in 1..Len(s) :
       p[k] = IF k \in places THEN Append(p[k - 1], s[k]) ELSE p[k - 1]
  /\ Picked(s, places) = p[Len(s)]

LEMMA PickedOf ==
  ASSUME NEW R, NEW s \in Seq(R), NEW places PROVE \E p : PickedBy(R, s, places, p)
<1>1. Len(s) \in Nat /\ \A k \in 1..Len(s) : s[k] \in R
  OBVIOUS
<1>2. PICK p : Picking(s, places, p, Len(s))
  BY PickingExists
<1>3. Picked(s, places) = p[Len(s)]
  BY <1>2, PickedPicking
<1>4. p[0] = << >> /\ DOMAIN p = 0..Len(s) /\ \A k \in 1..Len(s) :
        p[k] = IF k \in places THEN Append(p[k - 1], s[k]) ELSE p[k - 1]
  BY <1>2 DEF Picking
<1> DEFINE q == [k \in 0..Len(s) |-> p[k]]
           Bad == {k \in 0..Len(s) : q[k] \notin Seq(R)}
<1>q. /\ DOMAIN q = 0..Len(s) /\ q[0] = << >> /\ q[Len(s)] = p[Len(s)]
      /\ \A k \in 1..Len(s) : q[k] = IF k \in places THEN Append(q[k - 1], s[k]) ELSE q[k - 1]
  <2>1. \A k \in 1..Len(s) : k \in 0..Len(s) /\ k - 1 \in 0..Len(s)
    BY <1>1
  <2>2. \A k \in 0..Len(s) : q[k] = p[k]
    OBVIOUS
  <2> HIDE DEF q
  <2> QED
    <3>1. DOMAIN q = 0..Len(s)
      BY DEF q
    <3>2. 0 \in 0..Len(s) /\ Len(s) \in 0..Len(s)
      BY <1>1
    <3> QED
      BY <3>1, <3>2, <2>1, <2>2, <1>4
<1>f. q = [k \in DOMAIN q |-> q[k]]
  OBVIOUS
<1> HIDE DEF q
<1>7. Bad = {}
  <2> SUFFICES ASSUME Bad # {} PROVE FALSE
    OBVIOUS
  <2>1. PICK n \in Bad : n \in Nat /\ n <= Len(s) /\ \A m \in 0..Len(s) : m < n => m \notin Bad
    <3>1. Bad \subseteq 0..Len(s)
      OBVIOUS
    <3> HIDE DEF Bad
    <3> QED
      BY <3>1, <1>1, FirstFailure
  <2>2. n # 0
    <3>1. << >> \in Seq(R)
      OBVIOUS
    <3> QED
      BY <2>1, <3>1, <1>q
  <2>3. n - 1 \in 0..Len(s) /\ n - 1 < n /\ n \in 1..Len(s)
    BY <2>1, <2>2, <1>1
  <2>4. q[n - 1] \in Seq(R)
    BY <2>1, <2>3
  <2>5. Append(q[n - 1], s[n]) \in Seq(R)
    BY <2>3, <2>4, <1>1, AppendProperties
  <2>6. q[n] \in Seq(R)
    BY <2>3, <2>4, <2>5, <1>q
  <2> QED
    BY <2>1, <2>6
<1>8. q \in [0..Len(s) -> Seq(R)]
  BY <1>q, <1>7, <1>f
<1>9. PickedBy(R, s, places, q)
  BY <1>3, <1>8, <1>q DEF PickedBy
<1> QED
  BY <1>9

\* The rows of t are those of s at the places, and no row there is left out.
Drawn(R, s, places, t) ==
  /\ t \in Seq(R)
  /\ \A j \in 1..Len(t) : \E i \in 1..Len(s) : i \in places /\ t[j] = s[i]
  /\ \A i \in 1..Len(s) : i \in places => \E j \in 1..Len(t) : t[j] = s[i]

LEMMA PickedRows ==
  ASSUME NEW R, NEW s \in Seq(R), NEW places PROVE Drawn(R, s, places, Picked(s, places))
<1>1. Len(s) \in Nat /\ \A k \in 1..Len(s) : s[k] \in R
  OBVIOUS
<1>p. PICK p : PickedBy(R, s, places, p)
  BY PickedOf
<1>2. /\ p \in [0..Len(s) -> Seq(R)] /\ p[0] = << >>
      /\ \A k \in 1..Len(s) : p[k] = IF k \in places THEN Append(p[k - 1], s[k]) ELSE p[k - 1]
      /\ Picked(s, places) = p[Len(s)]
  BY <1>p DEF PickedBy
<1> DEFINE Kept(k) == /\ \A j \in 1..Len(p[k]) : \E i \in 1..k : i \in places /\ p[k][j] = s[i]
                      /\ \A i \in 1..k : i \in places => \E j \in 1..Len(p[k]) : p[k][j] = s[i]
           Bad == {k \in 0..Len(s) : ~Kept(k)}
<1>3. Bad = {}
  <2> SUFFICES ASSUME Bad # {} PROVE FALSE
    OBVIOUS
  <2>1. PICK n \in Bad : n \in Nat /\ n <= Len(s) /\ \A m \in 0..Len(s) : m < n => m \notin Bad
    <3>1. Bad \subseteq 0..Len(s)
      OBVIOUS
    <3> HIDE DEF Bad
    <3> QED
      BY <3>1, <1>1, FirstFailure
  <2>2. n # 0
    <3>1. Len(<< >>) = 0
      OBVIOUS
    <3> QED
      BY <2>1, <3>1, <1>2
  <2>3. n - 1 \in 0..Len(s) /\ n - 1 < n /\ n \in 1..Len(s)
    BY <2>1, <2>2, <1>1
  <2>4. Kept(n - 1)
    BY <2>1, <2>3
  <2> DEFINE a == p[n - 1]
             b == p[n]
  <2>5. a \in Seq(R) /\ b \in Seq(R) /\ s[n] \in R
        /\ b = IF n \in places THEN Append(a, s[n]) ELSE a
    BY <2>3, <1>1, <1>2
  <2>6. /\ \A j \in 1..Len(a) : \E i \in 1..(n - 1) : i \in places /\ a[j] = s[i]
        /\ \A i \in 1..(n - 1) : i \in places => \E j \in 1..Len(a) : a[j] = s[i]
    BY <2>4
  <2>8. \A i \in 1..n : i \in 1..(n - 1) \/ i = n
    BY <2>3, <1>1
  <2>9. \A i \in 1..(n - 1) : i \in 1..n
    BY <2>3, <1>1
  <2>m. n \in 1..n
    BY <2>3, <1>1
  <2> HIDE DEF a, b
  <2>7. CASE n \in places
    <3>1. Len(a) \in Nat /\ Len(b) = Len(a) + 1 /\ b[Len(a) + 1] = s[n]
          /\ \A j \in 1..Len(a) : b[j] = a[j]
      BY <2>5, <2>7
    <3>2. \A j \in 1..Len(b) : j \in 1..Len(a) \/ j = Len(a) + 1
      BY <3>1
    <3>3. \A j \in 1..Len(a) : j \in 1..Len(b)
      BY <3>1
    <3>4. Len(a) + 1 \in 1..Len(b)
      BY <3>1
    <3>5. \A j \in 1..Len(b) : \E i \in 1..n : i \in places /\ b[j] = s[i]
      <4> TAKE j \in 1..Len(b)
      <4>1. CASE j \in 1..Len(a)
        <5>1. PICK i \in 1..(n - 1) : i \in places /\ a[j] = s[i]
          BY <4>1, <2>6
        <5> QED
          BY <5>1, <4>1, <2>9, <3>1, Zenon
      <4>2. CASE j = Len(a) + 1
        BY <4>2, <2>7, <2>m, <3>1, Zenon
      <4> QED
        BY <4>1, <4>2, <3>2
    <3>6. \A i \in 1..n : i \in places => \E j \in 1..Len(b) : b[j] = s[i]
      <4> TAKE i \in 1..n
      <4> HAVE i \in places
      <4>1. CASE i = n
        BY <4>1, <3>1, <3>4
      <4>2. CASE i \in 1..(n - 1)
        <5>1. PICK j \in 1..Len(a) : a[j] = s[i]
          BY <4>2, <2>6
        <5> QED
          BY <5>1, <3>1, <3>3, Zenon
      <4> QED
        BY <4>1, <4>2, <2>8
    <3> QED
      BY <3>5, <3>6, <2>1 DEF b
  <2>x. CASE n \notin places
    <3>1. b = a
      BY <2>5, <2>x
    <3>2. \A j \in 1..Len(b) : \E i \in 1..n : i \in places /\ b[j] = s[i]
      BY <3>1, <2>6, <2>9, Zenon
    <3>3. \A i \in 1..n : i \in places => \E j \in 1..Len(b) : b[j] = s[i]
      BY <3>1, <2>6, <2>8, <2>x, Zenon
    <3> QED
      BY <3>2, <3>3, <2>1 DEF b
  <2> QED
    BY <2>7, <2>x
<1>4. Kept(Len(s))
  BY <1>1, <1>3
<1> HIDE DEF Bad
<1>5. p[Len(s)] \in Seq(R)
  BY <1>1, <1>2
<1>6. Drawn(R, s, places, p[Len(s)])
  BY <1>4, <1>5 DEF Drawn
<1> QED
  BY <1>2, <1>6

Weighed(rows, weight) == [i \in DOMAIN rows |-> weight[rows[i]]]

LEMMA WeighedSeq ==
  ASSUME NEW R, NEW s \in Seq(R), NEW g \in [R -> Int]
  PROVE  /\ Weighed(s, g) \in Seq(Int) /\ Len(Weighed(s, g)) = Len(s)
         /\ \A k \in 1..Len(s) : Weighed(s, g)[k] = g[s[k]]
BY DEF Weighed

LEMMA WeighedConcat ==
  ASSUME NEW R, NEW s \in Seq(R), NEW t \in Seq(R), NEW g \in [R -> Int]
  PROVE  Total(Weighed(s \o t, g)) = Total(Weighed(s, g)) + Total(Weighed(t, g))
<1> DEFINE x == Weighed(s, g)
           y == Weighed(t, g)
           z == Weighed(s \o t, g)
<1>1. /\ x \in Seq(Int) /\ Len(x) = Len(s) /\ \A k \in 1..Len(s) : x[k] = g[s[k]]
      /\ y \in Seq(Int) /\ Len(y) = Len(t) /\ \A k \in 1..Len(t) : y[k] = g[t[k]]
  BY WeighedSeq
<1>2. /\ s \o t \in Seq(R) /\ Len(s \o t) = Len(s) + Len(t) /\ Len(s) \in Nat /\ Len(t) \in Nat
      /\ \A k \in 1..(Len(s) + Len(t)) : (s \o t)[k] = IF k <= Len(s) THEN s[k] ELSE t[k - Len(s)]
  OBVIOUS
<1>3. z \in Seq(Int) /\ Len(z) = Len(s) + Len(t) /\ \A k \in 1..(Len(s) + Len(t)) : z[k] = g[(s \o t)[k]]
  <2> DEFINE u == s \o t
  <2>1. u \in Seq(R) /\ Len(u) = Len(s) + Len(t)
    BY <1>2
  <2> HIDE DEF u, x, y
  <2>2. /\ Weighed(u, g) \in Seq(Int) /\ Len(Weighed(u, g)) = Len(u)
        /\ \A k \in 1..Len(u) : Weighed(u, g)[k] = g[u[k]]
    BY <2>1, WeighedSeq
  <2> QED
    BY <2>1, <2>2 DEF u
<1> HIDE DEF x, y, z
<1>4. /\ x \o y \in Seq(Int) /\ Len(x \o y) = Len(s) + Len(t)
      /\ \A k \in 1..(Len(s) + Len(t)) : (x \o y)[k] = IF k <= Len(s) THEN x[k] ELSE y[k - Len(s)]
  <2>1. x \in Seq(Int) /\ y \in Seq(Int) /\ Len(x) = Len(s) /\ Len(y) = Len(t)
    BY <1>1
  <2>2. /\ x \o y \in Seq(Int) /\ Len(x \o y) = Len(x) + Len(y)
        /\ \A k \in 1..(Len(x) + Len(y)) : (x \o y)[k] = IF k <= Len(x) THEN x[k] ELSE y[k - Len(x)]
    BY <2>1, ConcatProperties
  <2> QED
    BY <2>1, <2>2
<1>5. ASSUME NEW k \in 1..(Len(s) + Len(t)) PROVE z[k] = (x \o y)[k]
  <2>1. CASE k <= Len(s)
    BY <2>1, <1>1, <1>2, <1>3, <1>4
  <2>2. CASE ~(k <= Len(s))
    <3>1. k - Len(s) \in 1..Len(t)
      BY <2>2, <1>2
    <3> DEFINE j == k - Len(s)
               u == s \o t
    <3>2. j \in 1..Len(t) /\ u[k] = t[j] /\ (x \o y)[k] = y[j] /\ z[k] = g[u[k]]
      BY <2>2, <3>1, <1>2, <1>3, <1>4
    <3> HIDE DEF j, u
    <3>3. y[j] = g[t[j]]
      BY <3>2, <1>1
    <3> QED
      BY <3>2, <3>3
  <2> QED
    BY <2>1, <2>2
<1>6. z = x \o y
  BY <1>3, <1>4, <1>5, SeqEqual
<1>7. Total(x \o y) = Total(x) + Total(y)
  BY <1>1, TotalConcat
<1> QED
  BY <1>6, <1>7 DEF x, y, z

LEMMA WeighedAppend ==
  ASSUME NEW R, NEW s \in Seq(R), NEW r \in R, NEW g \in [R -> Int]
  PROVE  Total(Weighed(Append(s, r), g)) = Total(Weighed(s, g)) + g[r]
<1>1. <<r>> \in Seq(R) /\ Append(s, r) = s \o <<r>>
  OBVIOUS
<1>2. Weighed(<<r>>, g) = <<g[r]>>
  <2>1. Weighed(<<r>>, g) \in Seq(Int) /\ Len(Weighed(<<r>>, g)) = 1 /\ Weighed(<<r>>, g)[1] = g[r]
    <3>1. Len(<<r>>) = 1 /\ <<r>>[1] = r
      OBVIOUS
    <3>2. 1 \in 1..1
      OBVIOUS
    <3> QED
      BY <1>1, <3>1, <3>2, WeighedSeq
  <2> HIDE DEF Weighed
  <2>2. <<g[r]>> \in Seq(Int) /\ Len(<<g[r]>>) = 1 /\ <<g[r]>>[1] = g[r]
    OBVIOUS
  <2> QED
    BY <2>1, <2>2, SeqEqual
<1>3. g[r] \in Int
  OBVIOUS
<1>4. Total(<<g[r]>>) = g[r]
  BY <1>3, TotalOne
<1>5. Total(Weighed(s \o <<r>>, g)) = Total(Weighed(s, g)) + Total(Weighed(<<r>>, g))
  BY <1>1, WeighedConcat
<1> QED
  BY <1>1, <1>2, <1>4, <1>5

LEMMA WeighedEmpty ==
  ASSUME NEW g PROVE Total(Weighed(<< >>, g)) = 0
<1>1. Weighed(<< >>, g) = << >>
  BY DEF Weighed
<1> QED
  BY <1>1, TotalEmpty

\* What is picked and what is left weigh what there was.
Splits(s, g, P, Q) ==
  /\ Total(Weighed(Picked(s, P), g)) + Total(Weighed(Picked(s, Q), g)) = Total(Weighed(s, g))
  /\ Len(Picked(s, P)) + Len(Picked(s, Q)) = Len(s)

LEMMA PickedSplit ==
  ASSUME NEW R, NEW s \in Seq(R), NEW g \in [R -> Int], NEW P, NEW Q,
         \A i \in 1..Len(s) : i \in Q <=> i \notin P
  PROVE  Splits(s, g, P, Q)
<1> DEFINE n == Len(s)
<1>1. n \in Nat /\ \A k \in 1..n : s[k] \in R
  OBVIOUS
<1>p. PICK p : PickedBy(R, s, P, p)
  BY PickedOf
<1>2. /\ p \in [0..n -> Seq(R)] /\ p[0] = << >>
      /\ \A k \in 1..n : p[k] = IF k \in P THEN Append(p[k - 1], s[k]) ELSE p[k - 1]
      /\ Picked(s, P) = p[n]
  BY <1>p DEF PickedBy
<1>q. PICK q : PickedBy(R, s, Q, q)
  BY PickedOf
<1>3. /\ q \in [0..n -> Seq(R)] /\ q[0] = << >>
      /\ \A k \in 1..n : q[k] = IF k \in Q THEN Append(q[k - 1], s[k]) ELSE q[k - 1]
      /\ Picked(s, Q) = q[n]
  BY <1>q DEF PickedBy
<1>4. Weighed(s, g) \in Seq(Int) /\ Len(Weighed(s, g)) = n /\ \A k \in 1..n : Weighed(s, g)[k] = g[s[k]]
  BY WeighedSeq
<1>5. PICK f : Running(Weighed(s, g), f) /\ Total(Weighed(s, g)) = f[n]
  BY <1>4, TotalOf
<1>6. f \in [0..n -> Int] /\ f[0] = 0 /\ \A k \in 1..n : f[k] = f[k - 1] + g[s[k]]
  BY <1>4, <1>5 DEF Running
<1> HIDE DEF n
<1> DEFINE Split(k) == /\ Total(Weighed(p[k], g)) + Total(Weighed(q[k], g)) = f[k]
                       /\ Len(p[k]) + Len(q[k]) = k
           Bad == {k \in 0..n : ~Split(k)}
<1>7. Bad = {}
  <2> SUFFICES ASSUME Bad # {} PROVE FALSE
    OBVIOUS
  <2>1. PICK k \in Bad : k \in Nat /\ k <= n /\ \A m \in 0..n : m < k => m \notin Bad
    <3>1. Bad \subseteq 0..n
      OBVIOUS
    <3> HIDE DEF Bad
    <3> QED
      BY <3>1, <1>1, FirstFailure
  <2>k. k \in Nat
    BY <2>1
  <2>2. k # 0
    <3>1. Split(0)
      <4>1. Len(<< >>) = 0 /\ Total(Weighed(<< >>, g)) = 0
        BY WeighedEmpty
      <4> QED
        BY <4>1, <1>2, <1>3, <1>6
    <3> QED
      BY <2>1, <3>1
  <2>3. k - 1 \in 0..n /\ k - 1 < k /\ k \in 1..n
    BY <2>1, <2>2, <1>1
  <2>4. Split(k - 1)
    BY <2>1, <2>3
  <2> DEFINE a == p[k - 1]
             b == q[k - 1]
             w == g[s[k]]
  <2>5. a \in Seq(R) /\ b \in Seq(R) /\ s[k] \in R /\ w \in Int
    BY <2>3, <1>1, <1>2, <1>3
  <2>6. /\ p[k] = (IF k \in P THEN Append(a, s[k]) ELSE a)
        /\ q[k] = (IF k \in P THEN b ELSE Append(b, s[k]))
        /\ f[k] = f[k - 1] + w /\ f[k - 1] \in Int
    BY <2>3, <1>2, <1>3, <1>6 DEF n
  <2>7. Total(Weighed(a, g)) + Total(Weighed(b, g)) = f[k - 1] /\ Len(a) + Len(b) = k - 1
    BY <2>4
  <2>8. /\ Total(Weighed(a, g)) \in Int /\ Total(Weighed(b, g)) \in Int
        /\ Len(a) \in Nat /\ Len(b) \in Nat
        /\ Len(Append(a, s[k])) = Len(a) + 1 /\ Len(Append(b, s[k])) = Len(b) + 1
    BY <2>5, WeighedSeq, TotalOf
  <2>9. /\ Total(Weighed(Append(a, s[k]), g)) = Total(Weighed(a, g)) + w
        /\ Total(Weighed(Append(b, s[k]), g)) = Total(Weighed(b, g)) + w
    BY <2>5, WeighedAppend
  <2> HIDE DEF a, b, w
  <2>s. Split(k)
    <3>1. CASE k \in P
      <4>1. p[k] = Append(a, s[k]) /\ q[k] = b
        BY <3>1, <2>6
      <4>2. Len(p[k]) = Len(a) + 1 /\ Total(Weighed(p[k], g)) = Total(Weighed(a, g)) + w
        BY <4>1, <2>8, <2>9
      <4>3. Total(Weighed(p[k], g)) + Total(Weighed(q[k], g)) = f[k]
        BY <4>1, <4>2, <2>5, <2>6, <2>7, <2>8
      <4>4. Len(p[k]) + Len(q[k]) = k
        <5>1. Len(p[k]) = Len(a) + 1 /\ Len(q[k]) = Len(b)
          BY <4>1, <4>2
        <5>2. Len(a) \in Nat /\ Len(b) \in Nat /\ Len(a) + Len(b) = k - 1
          BY <2>7, <2>8
        <5> DEFINE x == Len(a)
                   y == Len(b)
        <5>3. x \in Nat /\ y \in Nat /\ x + y = k - 1 /\ Len(p[k]) + Len(q[k]) = (x + 1) + y
          BY <5>1, <5>2
        <5> HIDE DEF x, y
        <5>4. (x + 1) + y = k
          BY <5>3, <2>k
        <5> QED
          BY <5>3, <5>4
      <4> QED
        BY <4>3, <4>4
    <3>2. CASE k \notin P
      <4>1. p[k] = a /\ q[k] = Append(b, s[k])
        BY <3>2, <2>6
      <4>2. Len(q[k]) = Len(b) + 1 /\ Total(Weighed(q[k], g)) = Total(Weighed(b, g)) + w
        BY <4>1, <2>8, <2>9
      <4>3. Total(Weighed(p[k], g)) + Total(Weighed(q[k], g)) = f[k]
        BY <4>1, <4>2, <2>5, <2>6, <2>7, <2>8
      <4>4. Len(p[k]) + Len(q[k]) = k
        <5>1. Len(p[k]) = Len(a) /\ Len(q[k]) = Len(b) + 1
          BY <4>1, <4>2
        <5>2. Len(a) \in Nat /\ Len(b) \in Nat /\ Len(a) + Len(b) = k - 1
          BY <2>7, <2>8
        <5> DEFINE x == Len(a)
                   y == Len(b)
        <5>3. x \in Nat /\ y \in Nat /\ x + y = k - 1 /\ Len(p[k]) + Len(q[k]) = x + (y + 1)
          BY <5>1, <5>2
        <5> HIDE DEF x, y
        <5>4. x + (y + 1) = k
          BY <5>3, <2>k
        <5> QED
          BY <5>3, <5>4
      <4> QED
        BY <4>3, <4>4
    <3> QED
      BY <3>1, <3>2
  <2> HIDE DEF Split
  <2> QED
    BY <2>1, <2>s
<1>8. Split(n)
  <2>1. n \in 0..n
    BY <1>1
  <2> HIDE DEF Split
  <2> QED
    BY <1>7, <2>1
<1> HIDE DEF Bad
<1> QED
  BY <1>2, <1>3, <1>5, <1>8 DEF n, Splits

-----------------------------------------------------------------------------
(***************************************************************************)
(* The rolling window of the telemetry lane: no ring slot holds a second   *)
(* other than its own, none that counted a row is lost to an older one,    *)
(* and no opening snapshot of a second still inside a window is pruned.    *)
(***************************************************************************)

Buckets == [tick : Int, gone : Nat, low : Int]

WindowTyped ==
  /\ second \in 0..MaxSecond
  /\ came \in Nat /\ gone \in Nat /\ held \in Nat
  /\ happened \in [0..MaxSecond -> Nat]
  /\ ring \in [0..(WindowSize - 1) -> Buckets]
  /\ DOMAIN cached = BOOLEAN

\* A bucket is empty or that of a second of its slot, with what it counted.
SlotKept(bucket, i, counted, now) ==
  \/ bucket = Bucket(-1)
  \/ bucket.tick \in 0..now /\ Slot(bucket.tick) = i /\ bucket.gone = counted[bucket.tick]

\* A second that counted a row gives way to newer ones only.
RingKept ==
  /\ \A i \in DOMAIN ring : SlotKept(ring[i], i, happened, second)
  /\ \A t \in 0..MaxSecond : happened[t] > 0 => t <= second /\ ring[Slot(t)].tick >= t

\* The snapshots are the first of their seconds, and complete for the windows of
\* this second and the one before it.
OpeningKept ==
  /\ DOMAIN opening \subseteq DOMAIN firstGap /\ DOMAIN firstGap \subseteq 0..second
  /\ \A t \in DOMAIN opening : Gap(opening[t]) = firstGap[t]
  /\ \A t \in DOMAIN firstGap : t >= second - WindowSize => t \in DOMAIN opening

WindowInv == WindowTyped /\ RingKept /\ OpeningKept /\ CacheFresh /\ OpeningBounded

LEMMA WindowBounds ==
  WindowSize \in Nat /\ WindowSize >= 3 /\ MaxSecond \in Nat
BY WindowAssumption

LEMMA SlotRange ==
  ASSUME NEW t \in Nat PROVE Slot(t) \in 0..(WindowSize - 1)
BY WindowBounds DEF Slot

\* Two seconds of one slot are a window apart.
LEMMA SlotsApart ==
  ASSUME NEW a \in Nat, NEW b \in Nat, Slot(a) = Slot(b), a < b PROVE b >= a + WindowSize
<1> DEFINE w == WindowSize
           p == a \div w
           q == b \div w
<1>1. /\ w \in Nat /\ w >= 3 /\ p \in Int /\ q \in Int
      /\ a = w * p + (a % w) /\ b = w * q + (b % w) /\ a % w = b % w /\ a % w \in Nat
  BY WindowBounds DEF Slot
<1> DEFINE r == a % w
<1>2. a = w * p + r /\ b = w * q + r /\ r \in Nat
  BY <1>1
<1> HIDE DEF w, p, q, r
<1>3. q > p
  <2> SUFFICES ASSUME q <= p PROVE FALSE
    BY <1>1
  <2>1. w * q <= w * p
    BY <1>1
  <2> QED
    BY <1>1, <1>2, <2>1
<1>4. w * q >= w * (p + 1) /\ w * (p + 1) = w * p + w
  BY <1>1, <1>3
<1> QED
  BY <1>1, <1>2, <1>4 DEF w

LEMMA TimesAre ==
  ASSUME second \in 0..MaxSecond, NEW at \in Times
  PROVE  at \in Nat /\ at \in 0..MaxSecond /\ at <= second /\ at >= second - 1 /\ second \in Nat
<1>1. second \in Nat /\ MaxSecond \in Nat
  BY WindowBounds
<1>2. Max({0, second - 1}) = IF second = 0 THEN 0 ELSE second - 1
  BY <1>1 DEF Max
<1> QED
  BY <1>1, <1>2 DEF Times


\* The slot of the call's second holds that second or an older one.
LEMMA SlotFree ==
  ASSUME WindowTyped, RingKept, NEW at \in Times
  PROVE  /\ Slot(at) \in 0..(WindowSize - 1) /\ ring[Slot(at)] \in Buckets
         /\ ring[Slot(at)].tick <= at
         /\ ring[Slot(at)].tick = at => ring[Slot(at)].gone = happened[at]
         /\ ring[Slot(at)].tick # at => happened[at] = 0
<1> DEFINE b == ring[Slot(at)]
<1>1. at \in Nat /\ at \in 0..MaxSecond /\ at <= second /\ at >= second - 1 /\ second \in Nat
  BY TimesAre DEF WindowTyped
<1>2. Slot(at) \in 0..(WindowSize - 1) /\ b \in Buckets /\ b.tick \in Int /\ happened[at] \in Nat
  BY <1>1, SlotRange DEF WindowTyped, Buckets
<1>3. SlotKept(b, Slot(at), happened, second) /\ (happened[at] > 0 => b.tick >= at)
  BY <1>1, <1>2 DEF RingKept, WindowTyped
<1>4. b.tick <= at
  <2>1. CASE b = Bucket(-1)
    BY <1>1, <2>1 DEF Bucket
  <2>2. CASE b.tick \in 0..second /\ Slot(b.tick) = Slot(at)
    <3> SUFFICES ASSUME b.tick > at PROVE FALSE
      BY <1>1, <1>2
    <3>1. b.tick >= at + WindowSize
      <4>1. b.tick \in Nat /\ at < b.tick
        BY <2>2, <1>1, <1>2
      <4> HIDE DEF b
      <4> QED
        BY <4>1, <1>1, <2>2, SlotsApart
    <3> QED
      BY <3>1, <2>2, <1>1, WindowBounds
  <2> QED
    BY <1>3, <2>1, <2>2 DEF SlotKept
<1>5. b.tick = at => b.gone = happened[at]
  BY <1>1, <1>3 DEF SlotKept, Bucket
<1>6. b.tick # at => happened[at] = 0
  BY <1>1, <1>2, <1>3, <1>4
<1> QED
  BY <1>2, <1>4, <1>5, <1>6

LEMMA Claiming ==
  ASSUME WindowTyped, RingKept, NEW at \in Times
  PROVE  Claimed(at) \in Buckets /\ Claimed(at).tick = at /\ Claimed(at).gone = happened[at]
<1>1. at \in Int
  BY TimesAre DEF WindowTyped
<1>2. /\ ring[Slot(at)] \in Buckets
      /\ ring[Slot(at)].tick = at => ring[Slot(at)].gone = happened[at]
      /\ ring[Slot(at)].tick # at => happened[at] = 0
  BY SlotFree
<1> QED
  BY <1>1, <1>2 DEF Claimed, Bucket, Buckets

LEMMA Deeper ==
  ASSUME NEW b \in Buckets, NEW d \in Int
  PROVE  WithDepth(b, d) \in Buckets /\ WithDepth(b, d).tick = b.tick /\ WithDepth(b, d).gone = b.gone
BY DEF WithDepth, Buckets

\* A bucket of the call's second takes its slot.
LEMMA SlotTaken ==
  ASSUME WindowTyped, RingKept, NEW at \in Times, NEW b \in Buckets, NEW counted \in [0..MaxSecond -> Nat],
         b.tick = at, b.gone = counted[at], ring' = [ring EXCEPT ![Slot(at)] = b],
         \A t \in 0..MaxSecond : t # at => counted[t] = happened[t],
         second' = second, happened' = counted
  PROVE  RingKept' /\ ring' \in [0..(WindowSize - 1) -> Buckets]
<1>1. at \in Nat /\ at \in 0..MaxSecond /\ at <= second /\ second \in Nat /\ second <= MaxSecond
  BY TimesAre, WindowBounds DEF WindowTyped
<1>2. /\ Slot(at) \in 0..(WindowSize - 1)
      /\ ring[Slot(at)].tick <= at /\ ring[Slot(at)].tick \in Int
  BY SlotFree DEF Buckets
<1>3. DOMAIN ring = 0..(WindowSize - 1) /\ ring' \in [0..(WindowSize - 1) -> Buckets]
      /\ \A i \in 0..(WindowSize - 1) : ring'[i] = IF i = Slot(at) THEN b ELSE ring[i]
  BY <1>2 DEF WindowTyped
<1>4. ASSUME NEW i \in 0..(WindowSize - 1) PROVE SlotKept(ring'[i], i, counted, second)
  <2>1. CASE i = Slot(at)
    <3>1. ring'[i] = b
      BY <1>3, <2>1
    <3> QED
      BY <1>1, <2>1, <3>1 DEF SlotKept
  <2>2. CASE i # Slot(at)
    <3>1. ring'[i] = ring[i] /\ SlotKept(ring[i], i, happened, second)
      BY <1>3, <2>2 DEF RingKept
    <3>2. CASE ring[i] = Bucket(-1)
      BY <3>1, <3>2 DEF SlotKept
    <3>3. CASE ring[i].tick \in 0..second /\ Slot(ring[i].tick) = i /\ ring[i].gone = happened[ring[i].tick]
      <4>1. ring[i].tick # at /\ ring[i].tick \in 0..MaxSecond
        BY <1>1, <2>2, <3>3, WindowBounds
      <4> QED
        BY <3>1, <3>3, <4>1 DEF SlotKept
    <3> QED
      BY <3>1, <3>2, <3>3 DEF SlotKept
  <2> QED
    BY <2>1, <2>2
<1>5. ASSUME NEW t \in 0..MaxSecond, counted[t] > 0 PROVE t <= second /\ ring'[Slot(t)].tick >= t
  <2>t. t \in Nat
    BY WindowBounds
  <2>0. t \in Nat /\ Slot(t) \in 0..(WindowSize - 1)
    BY <2>t, SlotRange
  <2>1. CASE t = at
    <3>1. ring'[Slot(t)] = b
      BY <1>2, <1>3, <2>1
    <3> QED
      BY <1>1, <2>1, <3>1
  <2>2. CASE t # at
    <3>1. t <= second /\ ring[Slot(t)].tick >= t
      BY <1>5, <2>2 DEF RingKept
    <3>2. CASE Slot(t) = Slot(at)
      <4>1. ring'[Slot(t)] = b /\ at >= t
        BY <1>1, <1>2, <1>3, <2>0, <3>1, <3>2
      <4> QED
        BY <3>1, <4>1
    <3>3. CASE Slot(t) # Slot(at)
      BY <1>3, <2>0, <3>1, <3>3
    <3> QED
      BY <3>2, <3>3
  <2> QED
    BY <2>1, <2>2
<1> QED
  BY <1>3, <1>4, <1>5 DEF RingKept

LEMMA CountingKeeps ==
  ASSUME WindowInv, NEW at \in Times, NEW out \in Nat, NEW d \in Int, Counting(at, out, d),
         came' \in Nat, held' \in Nat, UNCHANGED <<second, opening, firstGap>>
  PROVE  WindowInv'
<1> DEFINE b == [Claimed(at) EXCEPT !.gone = @ + out]
           counted == [happened EXCEPT ![at] = @ + out]
<1>1. WindowTyped /\ RingKept
  BY DEF WindowInv
<1>2. /\ ring' = [ring EXCEPT ![Slot(at)] = WithDepth(b, d)] /\ cached' = NoViews
      /\ gone' = gone + out /\ happened' = counted
  BY DEF Counting
<1>3. at \in 0..MaxSecond /\ happened[at] \in Nat
  BY <1>1, TimesAre DEF WindowTyped
<1>4. /\ counted \in [0..MaxSecond -> Nat] /\ counted[at] = happened[at] + out
      /\ \A t \in 0..MaxSecond : t # at => counted[t] = happened[t]
  BY <1>1, <1>3 DEF WindowTyped
<1>5. Claimed(at) \in Buckets /\ Claimed(at).tick = at /\ Claimed(at).gone = happened[at]
  BY <1>1, Claiming
<1>6. b \in Buckets /\ b.tick = at /\ b.gone = counted[at]
  BY <1>4, <1>5 DEF Buckets
<1> HIDE DEF b, counted
<1>7. WithDepth(b, d) \in Buckets /\ WithDepth(b, d).tick = at /\ WithDepth(b, d).gone = counted[at]
  BY <1>6, Deeper
<1>8. RingKept' /\ ring' \in [0..(WindowSize - 1) -> Buckets]
  BY <1>1, <1>2, <1>4, <1>7, SlotTaken
<1>9. WindowTyped'
  BY <1>1, <1>2, <1>4, <1>8 DEF WindowTyped, NoViews
<1>10. OpeningKept' /\ OpeningBounded'
  BY DEF WindowInv, OpeningKept, OpeningBounded
<1>11. CacheFresh'
  BY <1>2 DEF CacheFresh, NoViews
<1> QED
  BY <1>8, <1>9, <1>10, <1>11 DEF WindowInv

-----------------------------------------------------------------------------
(* The control tick *)

LEMMA RecordedKeeps ==
  ASSUME WindowInv, NEW at \in Times, opening' = Recorded(at),
         firstGap' = (IF at \in DOMAIN firstGap THEN firstGap
                      ELSE [t \in DOMAIN firstGap \cup {at} |->
                              IF t = at THEN Gap(Reading) ELSE firstGap[t]]),
         second' = second
  PROVE  OpeningKept' /\ OpeningBounded'
<1> DEFINE kept == IF at \in DOMAIN opening THEN opening
                   ELSE [t \in DOMAIN opening \cup {at} |-> IF t = at THEN Reading ELSE opening[t]]
           later == {t \in DOMAIN kept : t >= at - WindowSize - 1}
<1>0. at \in Nat /\ at <= second /\ at >= second - 1 /\ second \in Nat /\ WindowSize \in Nat /\ WindowSize >= 3
  BY TimesAre, WindowBounds DEF WindowInv, WindowTyped
<1>1. /\ DOMAIN opening \subseteq DOMAIN firstGap /\ DOMAIN firstGap \subseteq 0..second
      /\ \A t \in DOMAIN opening : Gap(opening[t]) = firstGap[t]
      /\ \A t \in DOMAIN firstGap : t >= second - WindowSize => t \in DOMAIN opening
  BY DEF WindowInv, OpeningKept
<1>2. at \in DOMAIN firstGap <=> at \in DOMAIN opening
  BY <1>0, <1>1
<1>3. /\ DOMAIN kept = DOMAIN opening \cup {at} /\ DOMAIN firstGap' = DOMAIN firstGap \cup {at}
      /\ \A t \in DOMAIN kept : Gap(kept[t]) = firstGap'[t]
  <2>1. CASE at \in DOMAIN opening
    BY <1>1, <1>2, <2>1
  <2>2. CASE at \notin DOMAIN opening
    <3>1. kept = [t \in DOMAIN opening \cup {at} |-> IF t = at THEN Reading ELSE opening[t]]
      BY <2>2
    <3>2. firstGap' = [t \in DOMAIN firstGap \cup {at} |-> IF t = at THEN Gap(Reading) ELSE firstGap[t]]
      BY <1>2, <2>2
    <3> HIDE DEF kept
    <3> QED
      BY <1>1, <2>2, <3>1, <3>2
  <2> QED
    BY <2>1, <2>2
<1>4. opening' = IF Cardinality(DOMAIN kept) > WindowSize + 2 THEN Restrict(kept, later) ELSE kept
  BY DEF Recorded
<1> HIDE DEF kept
<1>5. /\ DOMAIN opening' \subseteq DOMAIN kept /\ \A t \in DOMAIN opening' : opening'[t] = kept[t]
      /\ \A t \in DOMAIN kept : t >= second - WindowSize => t \in DOMAIN opening'
  <2>0. \A t \in DOMAIN kept : t \in Int
    BY <1>0, <1>1, <1>3
  <2>1. CASE opening' = kept
    BY <2>1
  <2>2. CASE opening' = Restrict(kept, later)
    <3>1. opening' = [t \in later |-> kept[t]]
      BY <2>2 DEF Restrict
    <3>2. \A t \in DOMAIN kept : t >= second - WindowSize => t \in later
      BY <1>0, <2>0
    <3> QED
      BY <3>1, <3>2
  <2> QED
    BY <1>4, <2>1, <2>2
<1>6. OpeningKept'
  <2>1. DOMAIN opening' \subseteq DOMAIN firstGap' /\ DOMAIN firstGap' \subseteq 0..second'
    BY <1>0, <1>1, <1>3, <1>5
  <2>2. \A t \in DOMAIN opening' : Gap(opening'[t]) = firstGap'[t]
    BY <1>3, <1>5
  <2>3. \A t \in DOMAIN firstGap' : t >= second' - WindowSize => t \in DOMAIN opening'
    BY <1>0, <1>1, <1>3, <1>5
  <2> QED
    BY <2>1, <2>2, <2>3 DEF OpeningKept, Gap
<1>7. OpeningBounded'
  <2>1. IsFiniteSet(0..second) /\ DOMAIN kept \subseteq 0..second
    <3>1. second \in Int /\ 0 \in Int
      BY <1>0
    <3>2. IsFiniteSet(0..second)
      BY <3>1, FS_Interval
    <3> QED
      BY <1>0, <1>1, <1>3, <3>2
  <2>2. IsFiniteSet(DOMAIN kept) /\ Cardinality(DOMAIN kept) \in Nat
    BY <2>1, FS_Subset, FS_CardinalityType
  <2>3. CASE Cardinality(DOMAIN kept) > WindowSize + 2
    <3>1. DOMAIN opening' = later
      BY <1>4, <2>3 DEF Restrict
    <3> DEFINE low == at - WindowSize - 1
               near == low..(at + 1)
    <3>2. later \subseteq near
      BY <1>0, <2>1
    <3>3. low \in Int /\ at + 1 \in Int /\ low <= at + 1
      BY <1>0
    <3>4. IsFiniteSet(near) /\ Cardinality(near) = (at + 1) - low + 1
      <4> HIDE DEF low
      <4> QED
        BY <3>3, FS_Interval
    <3>5. (at + 1) - low + 1 = WindowSize + 3
      BY <1>0
    <3>6. Cardinality(later) <= Cardinality(near)
      <4> HIDE DEF near, later
      <4> QED
        BY <3>2, <3>4, FS_Subset
    <3> HIDE DEF near, later, low
    <3> QED
      BY <3>1, <3>4, <3>5, <3>6 DEF OpeningBounded
  <2>4. CASE ~(Cardinality(DOMAIN kept) > WindowSize + 2)
    <3>1. opening' = kept
      BY <1>4, <2>4
    <3>2. Cardinality(DOMAIN kept) <= WindowSize + 3
      BY <1>0, <2>2, <2>4
    <3> QED
      BY <3>1, <3>2 DEF OpeningBounded
  <2> QED
    BY <2>3, <2>4
<1> QED
  BY <1>6, <1>7

LEMMA ServedFresh ==
  ASSUME NEW entry, NEW buckets, NEW latest, latest # -2,
         entry = NoView \/ entry.view = Built(buckets, entry.latest)
  PROVE  Served(entry, buckets, latest).view = Built(buckets, Served(entry, buckets, latest).latest)
<1>1. CASE entry.latest = latest
  <2>1. entry # NoView /\ Served(entry, buckets, latest) = entry
    BY <1>1 DEF NoView, Served
  <2> QED
    BY <2>1
<1>2. CASE entry.latest # latest
  <2>1. Served(entry, buckets, latest) = [latest |-> latest, view |-> Built(buckets, latest)]
    BY <1>2 DEF Served
  <2> QED
    BY <2>1
<1> QED
  BY <1>1, <1>2

LEMMA ObserveKeeps ==
  ASSUME WindowInv, NEW at \in Times, Observe(at) PROVE WindowInv'
<1> DEFINE b == Claimed(at)
           d == WithDepth(b, held)
           buckets == [ring EXCEPT ![Slot(at)] = d]
           valid == IF Recycles(at) \/ d # b THEN NoViews ELSE cached
<1>0. WindowTyped /\ RingKept /\ CacheFresh
  BY DEF WindowInv
<1>1. /\ ring' = buckets /\ opening' = Recorded(at)
      /\ cached' = [withNow \in BOOLEAN |-> Served(valid[withNow], buckets, Latest(at, withNow))]
      /\ firstGap' = (IF at \in DOMAIN firstGap THEN firstGap
                      ELSE [t \in DOMAIN firstGap \cup {at} |->
                              IF t = at THEN Gap(Reading) ELSE firstGap[t]])
      /\ UNCHANGED <<second, came, gone, held, happened, faults>>
  BY DEF Observe
<1>2. b \in Buckets /\ b.tick = at /\ b.gone = happened[at]
  BY <1>0, Claiming
<1>3. d \in Buckets /\ d.tick = at /\ d.gone = happened[at]
  <2>1. held \in Int
    BY <1>0 DEF WindowTyped
  <2> HIDE DEF b
  <2> QED
    BY <1>2, <2>1, Deeper
<1>4. OpeningKept' /\ OpeningBounded'
  BY <1>1, RecordedKeeps
<1>5. ~Recycles(at) /\ d = b => buckets = ring
  <2>1. ~Recycles(at) => b = ring[Slot(at)]
    BY DEF Recycles, Claimed
  <2>2. Slot(at) \in 0..(WindowSize - 1) /\ ring \in [0..(WindowSize - 1) -> Buckets]
    BY <1>0, SlotFree DEF WindowTyped
  <2> HIDE DEF b, d
  <2> QED
    BY <2>1, <2>2
<1> HIDE DEF b, d
<1>6. RingKept' /\ ring' \in [0..(WindowSize - 1) -> Buckets]
  <2>1. happened \in [0..MaxSecond -> Nat] /\ happened' = happened /\ second' = second
    BY <1>0, <1>1 DEF WindowTyped
  <2>2. ring' = [ring EXCEPT ![Slot(at)] = d]
    BY <1>1
  <2> QED
    BY <1>0, <1>3, <2>1, <2>2, SlotTaken
<1> HIDE DEF buckets
<1>7. CacheFresh'
  <2>1. ASSUME NEW withNow \in BOOLEAN
        PROVE  valid[withNow] = NoView \/ valid[withNow].view = Built(buckets, valid[withNow].latest)
    <3>1. CASE Recycles(at) \/ d # b
      BY <3>1 DEF NoViews
    <3>2. CASE ~(Recycles(at) \/ d # b)
      <4>1. valid = cached /\ buckets = ring
        BY <1>5, <3>2
      <4> QED
        BY <1>0, <4>1 DEF CacheFresh
    <3> QED
      BY <3>1, <3>2
  <2>2. ASSUME NEW withNow \in BOOLEAN PROVE Latest(at, withNow) # -2
    <3>1. at \in Nat
      BY <1>0, TimesAre DEF WindowTyped
    <3> QED
      BY <3>1 DEF Latest
  <2> HIDE DEF valid
  <2>3. ASSUME NEW withNow \in BOOLEAN
        PROVE  cached'[withNow].view = Built(ring', cached'[withNow].latest)
    <3>1. cached'[withNow] = Served(valid[withNow], buckets, Latest(at, withNow))
      BY <1>1
    <3> QED
      BY <1>1, <2>1, <2>2, <3>1, ServedFresh
  <2> QED
    BY <2>3 DEF CacheFresh, Built, Range
<1>8. WindowTyped'
  BY <1>0, <1>1, <1>6 DEF WindowTyped
<1> QED
  BY <1>4, <1>6, <1>7, <1>8 DEF WindowInv

LEMMA WindowStep == WindowInv /\ [WindowNext]_windowVars => WindowInv'
<1> SUFFICES ASSUME WindowInv, [WindowNext]_windowVars PROVE WindowInv'
  OBVIOUS
<1>0. WindowTyped /\ RingKept /\ OpeningKept /\ CacheFresh /\ OpeningBounded
  BY DEF WindowInv
<1>1. second \in Nat /\ MaxSecond \in Nat /\ WindowSize \in Nat /\ came \in Nat /\ held \in Nat
  BY <1>0, WindowBounds DEF WindowTyped
<1>2. CASE SecondsPass
  <2>1. PICK t \in (second + 1)..MaxSecond : second' = t
    BY <1>2 DEF SecondsPass
  <2>2. UNCHANGED <<ring, came, gone, held, opening, cached, happened, firstGap>>
    BY <1>2 DEF SecondsPass
  <2>3. second' \in 0..MaxSecond /\ second' > second /\ second' \in Nat
    BY <1>1, <2>1
  <2>4. WindowTyped'
    BY <1>0, <2>2, <2>3 DEF WindowTyped
  <2>5. RingKept'
    <3>1. ASSUME NEW i \in DOMAIN ring PROVE SlotKept(ring[i], i, happened, second')
      <4>1. SlotKept(ring[i], i, happened, second)
        BY <1>0 DEF RingKept
      <4>2. \A n \in 0..second : n \in 0..second'
        BY <1>1, <2>3
      <4> QED
        BY <4>1, <4>2 DEF SlotKept
    <3>2. \A n \in 0..MaxSecond : happened[n] > 0 => n <= second' /\ ring[Slot(n)].tick >= n
      BY <1>0, <1>1, <2>3 DEF RingKept
    <3> QED
      BY <2>2, <3>1, <3>2 DEF RingKept
  <2>6. OpeningKept'
    <3>1. DOMAIN firstGap \subseteq 0..second' /\ \A n \in DOMAIN firstGap : n \in Int
      BY <1>0, <1>1, <2>3 DEF OpeningKept
    <3>2. \A n \in DOMAIN firstGap : n >= second' - WindowSize => n \in DOMAIN opening
      BY <1>0, <1>1, <2>3, <3>1 DEF OpeningKept
    <3> QED
      BY <1>0, <2>2, <3>1, <3>2 DEF OpeningKept
  <2>7. CacheFresh' /\ OpeningBounded'
    BY <1>0, <2>2 DEF CacheFresh, OpeningBounded
  <2> QED
    BY <2>4, <2>5, <2>6, <2>7 DEF WindowInv
<1>3. CASE RowVanishes
  <2>1. /\ held' = held - 1 /\ held > 0
        /\ UNCHANGED <<second, ring, came, gone, opening, cached, happened, firstGap>>
    BY <1>3 DEF RowVanishes
  <2>2. WindowTyped'
    BY <1>0, <2>1 DEF WindowTyped
  <2> QED
    BY <1>0, <2>1, <2>2 DEF WindowInv, RingKept, OpeningKept, CacheFresh, OpeningBounded
<1>4. ASSUME NEW at \in Times, RowAdmitted(at) PROVE WindowInv'
  <2>1. came' = came + 1 /\ held' = held + 1 /\ Counting(at, 0, held + 1)
        /\ UNCHANGED <<second, opening, firstGap>>
    BY <1>4 DEF RowAdmitted
  <2>2. came' \in Nat /\ held' \in Nat /\ held + 1 \in Int /\ 0 \in Nat
    BY <1>1, <2>1
  <2> QED
    BY <2>1, <2>2, CountingKeeps
<1>5. ASSUME NEW at \in Times, RowResolved(at) PROVE WindowInv'
  <2>1. held > 0 /\ came' = came /\ held' = held - 1 /\ Counting(at, 1, held - 1)
        /\ UNCHANGED <<second, opening, firstGap>>
    BY <1>5 DEF RowResolved
  <2>2. came' \in Nat /\ held' \in Nat /\ held - 1 \in Int /\ 1 \in Nat
    BY <1>1, <2>1
  <2> QED
    BY <2>1, <2>2, CountingKeeps
<1>6. ASSUME NEW at \in Times, RowCountedTwice(at) PROVE WindowInv'
  <2>1. came' = came /\ held' = held /\ Counting(at, 1, held)
        /\ UNCHANGED <<second, opening, firstGap>>
    BY <1>6 DEF RowCountedTwice
  <2>2. came' \in Nat /\ held' \in Nat /\ held \in Int /\ 1 \in Nat
    BY <1>1, <2>1
  <2> QED
    BY <2>1, <2>2, CountingKeeps
<1>7. CASE UNCHANGED windowVars
  <2>1. UNCHANGED <<second, ring, came, gone, held, opening, cached, happened, firstGap>>
    BY <1>7 DEF windowVars
  <2> QED
    BY <1>0, <2>1 DEF WindowInv, WindowTyped, RingKept, OpeningKept, CacheFresh, OpeningBounded
<1> QED
  BY <1>2, <1>3, <1>4, <1>5, <1>6, <1>7, ObserveKeeps DEF WindowNext

LEMMA WindowStarts == WindowInit => WindowInv
<1> SUFFICES ASSUME WindowInit PROVE WindowInv
  OBVIOUS
<1> USE DEF WindowInit
<1>1. second = 0 /\ 0 \in 0..MaxSecond /\ WindowSize \in Nat /\ WindowSize >= 3
  BY WindowBounds
<1>2. Bucket(-1) \in Buckets
  BY DEF Bucket, Buckets
<1>3. WindowTyped
  BY <1>1, <1>2 DEF WindowTyped, NoViews
<1>4. RingKept
  <2>1. \A i \in DOMAIN ring : ring[i] = Bucket(-1)
    OBVIOUS
  <2>2. \A t \in 0..MaxSecond : happened[t] = 0
    OBVIOUS
  <2> QED
    BY <2>1, <2>2 DEF RingKept, SlotKept
<1>5. DOMAIN opening = {} /\ DOMAIN firstGap = {}
  OBVIOUS
<1>6. OpeningKept
  BY <1>5 DEF OpeningKept
<1>7. CacheFresh
  BY DEF CacheFresh, NoViews
<1>8. OpeningBounded
  BY <1>1, <1>5, FS_EmptySet DEF OpeningBounded
<1> QED
  BY <1>3, <1>4, <1>6, <1>7, <1>8 DEF WindowInv

LEMMA ResidualFollows == WindowInv => ResidualExact
<1> SUFFICES ASSUME WindowInv, NEW at \in Times
    PROVE  LET inside == {t \in DOMAIN firstGap : t \in (at - WindowSize + 1)..at}
           IN  Residual(at, opening) = came - gone - held
                 - IF inside = {} THEN 0 ELSE firstGap[Min(inside)]
  BY DEF ResidualExact
<1> DEFINE inside == {t \in DOMAIN firstGap : t \in (at - WindowSize + 1)..at}
           found == {t \in DOMAIN opening : t \in (at - WindowSize + 1)..at}
<1>1. at \in Nat /\ at <= second /\ at >= second - 1 /\ second \in Nat /\ WindowSize \in Nat
  BY TimesAre, WindowBounds DEF WindowInv, WindowTyped
<1>2. /\ DOMAIN opening \subseteq DOMAIN firstGap
      /\ \A t \in DOMAIN opening : Gap(opening[t]) = firstGap[t]
      /\ \A t \in DOMAIN firstGap : t >= second - WindowSize => t \in DOMAIN opening
  BY DEF WindowInv, OpeningKept
<1>3. inside = found
  BY <1>1, <1>2
<1>4. ASSUME inside # {} PROVE Gap(opening[Min(inside)]) = firstGap[Min(inside)]
  <2>1. DOMAIN firstGap \subseteq Nat
    BY <1>1 DEF WindowInv, OpeningKept
  <2>2. Min(inside) \in inside
    <3>1. inside \subseteq Nat
      BY <2>1
    <3> HIDE DEF inside
    <3>2. \E n \in inside : \A m \in inside : n <= m
      BY <1>4, <3>1, LeastNat
    <3> QED
      BY <3>2 DEF Min
  <2>3. Min(inside) \in DOMAIN opening
    BY <1>3, <2>2
  <2> QED
    BY <1>2, <2>3
<1>5. Gap(Reading) = came - gone - held
  BY DEF Gap, Reading
<1>6. Residual(at, opening) = Gap(Reading) - IF found = {} THEN 0 ELSE Gap(opening[Min(found)])
  BY DEF Residual
<1> HIDE DEF inside, found
<1> QED
  BY <1>3, <1>4, <1>5, <1>6 DEF inside

LEMMA RingFollows == WindowInv => RingExact
<1> SUFFICES ASSUME WindowInv, NEW withNow \in BOOLEAN
    PROVE  LET latest == Latest(second, withNow)
               view == Built(ring, latest)
               covered == {t \in (latest - WindowSize + 1)..latest : t >= 0 /\ ring[Slot(t)].tick <= t}
           IN  /\ {<<b.tick, b.gone>> : b \in {x \in view : x.gone > 0}}
                    = {<<t, happened[t]>> : t \in {u \in covered : happened[u] > 0}}
               /\ \A b, c \in view : b.tick = c.tick => b = c
               /\ withNow => covered = Max({0, latest - WindowSize + 1})..latest
  BY DEF RingExact
<1> DEFINE latest == Latest(second, withNow)
           reach == (latest - WindowSize + 1)..latest
           view == Built(ring, latest)
           covered == {t \in reach : t >= 0 /\ ring[Slot(t)].tick <= t}
<1>1. /\ second \in Nat /\ second <= MaxSecond /\ MaxSecond \in Nat /\ WindowSize \in Nat /\ WindowSize >= 3
      /\ DOMAIN ring = 0..(WindowSize - 1)
      /\ happened \in [0..MaxSecond -> Nat]
      /\ ring \in [0..(WindowSize - 1) -> Buckets]
  BY WindowBounds DEF WindowInv, WindowTyped
<1>2. latest \in Int /\ latest <= second /\ (withNow => latest = second)
  BY <1>1 DEF Latest
<1>3. /\ \A i \in DOMAIN ring : SlotKept(ring[i], i, happened, second)
      /\ \A t \in 0..MaxSecond : happened[t] > 0 => t <= second /\ ring[Slot(t)].tick >= t
  BY DEF WindowInv, RingKept
<1>4. ASSUME NEW b \in view
      PROVE  /\ b.tick \in reach
             /\ b = Bucket(-1) \/ (b.tick \in 0..second /\ b = ring[Slot(b.tick)] /\ b.gone = happened[b.tick])
  <2>1. PICK i \in DOMAIN ring : b = ring[i]
    BY DEF Built, Range
  <2>2. b.tick \in reach
    BY DEF Built
  <2>3. SlotKept(b, i, happened, second)
    BY <1>3, <2>1
  <2> HIDE DEF reach, view
  <2> QED
    BY <2>1, <2>2, <2>3 DEF SlotKept
<1>5. ASSUME NEW t \in covered
      PROVE  /\ t \in reach /\ t \in Nat /\ t \in 0..second /\ t \in 0..MaxSecond
             /\ Slot(t) \in DOMAIN ring /\ ring[Slot(t)] \in Buckets /\ ring[Slot(t)].tick <= t
  <2>1. t \in reach /\ t >= 0 /\ ring[Slot(t)].tick <= t
    OBVIOUS
  <2>2. t \in Nat /\ t <= second
    BY <1>1, <1>2, <2>1
  <2>3. Slot(t) \in 0..(WindowSize - 1)
    BY <2>2, SlotRange
  <2> HIDE DEF reach, latest, covered
  <2> QED
    BY <1>1, <2>1, <2>2, <2>3
<1>6. ASSUME NEW b \in view, b.gone > 0
      PROVE  b.tick \in covered /\ happened[b.tick] > 0 /\ b.gone = happened[b.tick]
  <2>1. b # Bucket(-1)
    BY <1>6 DEF Bucket
  <2>2. b.tick \in reach /\ b.tick \in 0..second /\ b = ring[Slot(b.tick)] /\ b.gone = happened[b.tick]
    BY <1>4, <2>1
  <2>3. b.tick >= 0 /\ ring[Slot(b.tick)].tick <= b.tick
    BY <1>1, <2>2
  <2> HIDE DEF view, reach
  <2> QED
    BY <1>6, <2>2, <2>3
<1>7. ASSUME NEW t \in covered, happened[t] > 0
      PROVE  ring[Slot(t)] \in view /\ ring[Slot(t)].tick = t /\ ring[Slot(t)].gone = happened[t]
  <2> DEFINE b == ring[Slot(t)]
  <2>1. t \in reach /\ t \in Nat /\ t \in 0..MaxSecond /\ Slot(t) \in DOMAIN ring /\ b \in Buckets /\ b.tick <= t
    BY <1>5
  <2>2. b.tick >= t /\ SlotKept(b, Slot(t), happened, second)
    BY <1>3, <1>7, <2>1
  <2>3. b.tick = t
    BY <2>1, <2>2 DEF Buckets
  <2>4. b # Bucket(-1)
    BY <2>1, <2>3 DEF Bucket
  <2>5. b.gone = happened[t]
    BY <2>2, <2>3, <2>4 DEF SlotKept
  <2>6. b \in Range(ring)
    BY <2>1 DEF Range
  <2>7. b \in view
    BY <2>1, <2>3, <2>6 DEF Built
  <2> QED
    BY <2>3, <2>5, <2>7
<1>8. {<<b.tick, b.gone>> : b \in {x \in view : x.gone > 0}}
        = {<<t, happened[t]>> : t \in {u \in covered : happened[u] > 0}}
  <2> HIDE DEF view, covered
  <2>1. ASSUME NEW b \in view, b.gone > 0
        PROVE  <<b.tick, b.gone>> \in {<<t, happened[t]>> : t \in {u \in covered : happened[u] > 0}}
    BY <1>6, <2>1
  <2>2. ASSUME NEW t \in covered, happened[t] > 0
        PROVE  <<t, happened[t]>> \in {<<b.tick, b.gone>> : b \in {x \in view : x.gone > 0}}
    <3> DEFINE b == ring[Slot(t)]
    <3>1. b \in view /\ b.tick = t /\ b.gone = happened[t]
      BY <1>7, <2>2
    <3> HIDE DEF b
    <3> QED
      BY <2>2, <3>1
  <2> QED
    BY <2>1, <2>2
<1>9. \A b, c \in view : b.tick = c.tick => b = c
  <2> SUFFICES ASSUME NEW b \in view, NEW c \in view, b.tick = c.tick PROVE b = c
    OBVIOUS
  <2>1. Bucket(-1).tick = -1 /\ -1 \notin 0..second
    BY <1>1 DEF Bucket
  <2>2. b = Bucket(-1) \/ (b.tick \in 0..second /\ b = ring[Slot(b.tick)])
    BY <1>4
  <2>3. c = Bucket(-1) \/ (c.tick \in 0..second /\ c = ring[Slot(c.tick)])
    BY <1>4
  <2> HIDE DEF view
  <2> QED
    BY <2>1, <2>2, <2>3
<1>10. withNow => covered = Max({0, latest - WindowSize + 1})..latest
  <2> SUFFICES ASSUME withNow PROVE covered = Max({0, latest - WindowSize + 1})..latest
    OBVIOUS
  <2>1. latest = second
    BY <1>2
  <2>2. Max({0, second - WindowSize + 1}) = IF second - WindowSize + 1 > 0 THEN second - WindowSize + 1 ELSE 0
    BY <1>1 DEF Max
  <2>3. ASSUME NEW t \in Nat, t <= second, t >= second - WindowSize + 1 PROVE ring[Slot(t)].tick <= t
    <3>1. Slot(t) \in 0..(WindowSize - 1)
      BY SlotRange
    <3> DEFINE b == ring[Slot(t)]
    <3>2. b \in Buckets /\ SlotKept(b, Slot(t), happened, second)
      BY <1>1, <1>3, <3>1
    <3>3. CASE b = Bucket(-1)
      BY <3>3 DEF Bucket
    <3>4. CASE b.tick \in 0..second /\ Slot(b.tick) = Slot(t)
      <4> DEFINE u == b.tick
      <4>1. u \in Nat /\ u <= second /\ Slot(u) = Slot(t)
        BY <1>1, <3>4
      <4> HIDE DEF u
      <4>2. ASSUME u > t PROVE FALSE
        <5>1. u >= t + WindowSize
          BY <4>1, <4>2, SlotsApart
        <5> QED
          BY <1>1, <2>3, <4>1, <5>1
      <4>3. u <= t
        BY <4>1, <4>2
      <4> QED
        BY <4>3 DEF u
    <3> QED
      BY <3>2, <3>3, <3>4 DEF SlotKept
  <2> DEFINE low == Max({0, second - WindowSize + 1})
  <2>4. Max({0, latest - WindowSize + 1}) = low /\ reach = (second - WindowSize + 1)..second
    BY <2>1
  <2> HIDE DEF latest, reach
  <2>5. low = IF second - WindowSize + 1 > 0 THEN second - WindowSize + 1 ELSE 0
    BY <2>2
  <2> HIDE DEF low
  <2>6. \A t \in low..second : t \in reach /\ t \in Nat /\ t <= second /\ t >= second - WindowSize + 1
    BY <1>1, <2>4, <2>5
  <2>7. \A t \in low..second : t \in covered
    BY <2>3, <2>6
  <2>8. \A t \in covered : t \in low..second
    <3>1. \A t \in covered : t \in reach /\ t >= 0
      OBVIOUS
    <3> HIDE DEF covered
    <3> QED
      BY <3>1, <1>1, <2>4, <2>5
  <2> HIDE DEF covered
  <2>9. covered = low..second
    BY <2>7, <2>8
  <2> QED
    BY <2>1, <2>4, <2>9
<1> QED
  BY <1>8, <1>9, <1>10

\* The window forgets no row of its seconds and no unaccounted one, whatever the
\* size of the window and the order of the calls.
THEOREM WindowSoundness == WindowSpec => []WindowSound
<1>1. WindowInit => WindowInv
  BY WindowStarts
<1>2. WindowInv /\ [WindowNext]_windowVars => WindowInv'
  BY WindowStep
<1>3. WindowInv => WindowSound
  BY ResidualFollows, RingFollows DEF WindowInv, WindowSound
<1> QED
  BY <1>1, <1>2, <1>3, PTL DEF WindowSpec

-----------------------------------------------------------------------------
(* The lane of the telemetry rows *)

Logical == [row \in PendingRows |-> row.logical]
Retries == [row \in PendingRows |-> RetryBudget - row.tries + 1]

LEMMA LaneBounds ==
  RetryBudget \in Nat /\ MaxRows \in Nat /\ MaxChunk \in Nat /\ MaxChunk >= 1
BY LaneAssumption

LEMMA LogicalIs ==
  ASSUME NEW rows \in Seq(PendingRows)
  PROVE  /\ Logical \in [PendingRows -> Int] /\ LogicalRows(rows) = Total(Weighed(rows, Logical))
         /\ LogicalRows(rows) \in Nat /\ \A i \in 1..Len(rows) : rows[i].logical <= LogicalRows(rows)
<1>1. Logical \in [PendingRows -> Nat] /\ \A row \in PendingRows : Logical[row] = row.logical
  BY LaneBounds DEF Logical, PendingRows
<1>2. \A i \in DOMAIN rows : rows[i] \in PendingRows
  OBVIOUS
<1>3. [i \in DOMAIN rows |-> rows[i].logical] = Weighed(rows, Logical)
  BY <1>1, <1>2 DEF Weighed
<1>4. Logical \in [PendingRows -> Int]
  BY <1>1
<1>5. /\ Weighed(rows, Logical) \in Seq(Int) /\ Len(Weighed(rows, Logical)) = Len(rows)
      /\ \A k \in 1..Len(rows) : Weighed(rows, Logical)[k] = Logical[rows[k]]
  BY <1>4, WeighedSeq
<1>6. \A k \in 1..Len(rows) : Weighed(rows, Logical)[k] = rows[k].logical /\ rows[k].logical \in Nat
  BY <1>1, <1>2, <1>5, LenProperties
<1>7. Weighed(rows, Logical) \in Seq(Nat)
  BY <1>5, <1>6, IsASeq
<1>8. LogicalRows(rows) = Total(Weighed(rows, Logical))
  BY <1>3 DEF LogicalRows
<1>9. /\ Total(Weighed(rows, Logical)) \in Nat
      /\ \A i \in 1..Len(rows) : Weighed(rows, Logical)[i] <= Total(Weighed(rows, Logical))
  BY <1>5, <1>7, TotalNat
<1> QED
  BY <1>4, <1>6, <1>8, <1>9

LEMMA RetriesAre ==
  ASSUME NEW rows \in Seq(PendingRows)
  PROVE  /\ Retries \in [PendingRows -> Int] /\ RetriesLeft(rows) = Total(Weighed(rows, Retries))
         /\ RetriesLeft(rows) \in Nat /\ (rows # << >> => RetriesLeft(rows) > 0)
<1>1. /\ Retries \in [PendingRows -> Nat]
      /\ \A row \in PendingRows : Retries[row] = RetryBudget - row.tries + 1 /\ Retries[row] > 0
  BY LaneBounds DEF Retries, PendingRows
<1>2. \A i \in DOMAIN rows : rows[i] \in PendingRows
  OBVIOUS
<1>3. [i \in DOMAIN rows |-> RetryBudget - rows[i].tries + 1] = Weighed(rows, Retries)
  BY <1>1, <1>2 DEF Weighed
<1>4. Retries \in [PendingRows -> Int]
  BY <1>1
<1>5. /\ Weighed(rows, Retries) \in Seq(Int) /\ Len(Weighed(rows, Retries)) = Len(rows)
      /\ \A k \in 1..Len(rows) : Weighed(rows, Retries)[k] = Retries[rows[k]]
  BY <1>4, WeighedSeq
<1>6. \A k \in 1..Len(rows) : Weighed(rows, Retries)[k] \in Nat /\ Weighed(rows, Retries)[k] > 0
  BY <1>1, <1>2, <1>5, LenProperties
<1>7. Weighed(rows, Retries) \in Seq(Nat)
  BY <1>5, <1>6, IsASeq
<1>8. RetriesLeft(rows) = Total(Weighed(rows, Retries))
  BY <1>3 DEF RetriesLeft
<1>9. /\ Total(Weighed(rows, Retries)) \in Nat
      /\ \A i \in 1..Len(rows) : Weighed(rows, Retries)[i] <= Total(Weighed(rows, Retries))
  BY <1>5, <1>7, TotalNat
<1>10. rows # << >> => 1 \in 1..Len(rows)
  BY LenProperties, EmptySeq
<1>11. rows # << >> => Total(Weighed(rows, Retries)) > 0
  BY <1>6, <1>9, <1>10
<1> QED
  BY <1>4, <1>8, <1>9, <1>11

\* A sequence is its first n rows and the others.
CutAt(s, n, R) ==
  /\ SubSeq(s, 1, n) \in Seq(R) /\ SubSeq(s, n + 1, Len(s)) \in Seq(R)
  /\ s = SubSeq(s, 1, n) \o SubSeq(s, n + 1, Len(s))
  /\ Len(SubSeq(s, 1, n)) = n /\ Len(SubSeq(s, n + 1, Len(s))) = Len(s) - n

LEMMA CutInTwo ==
  ASSUME NEW R, NEW s \in Seq(R), NEW n \in 0..Len(s) PROVE CutAt(s, n, R)
<1> DEFINE a == SubSeq(s, 1, n)
           b == SubSeq(s, n + 1, Len(s))
<1>1. Len(s) \in Nat /\ n \in Nat /\ n <= Len(s) /\ \A i \in 1..Len(s) : s[i] \in R
  OBVIOUS
<1>2. a \in Seq(R) /\ Len(a) = n /\ \A i \in 1..n : a[i] = s[i]
  BY <1>1
<1>3. b \in Seq(R) /\ Len(b) = Len(s) - n /\ \A i \in 1..(Len(s) - n) : b[i] = s[n + i]
  BY <1>1
<1> HIDE DEF a, b
<1>4. /\ a \o b \in Seq(R) /\ Len(a \o b) = Len(s)
      /\ \A i \in 1..Len(s) : (a \o b)[i] = IF i <= n THEN a[i] ELSE b[i - n]
  BY <1>1, <1>2, <1>3
<1>5. ASSUME NEW i \in 1..Len(s) PROVE (a \o b)[i] = s[i]
  <2>1. CASE i <= n
    BY <2>1, <1>1, <1>2, <1>4
  <2>2. CASE ~(i <= n)
    <3>1. i - n \in 1..(Len(s) - n) /\ n + (i - n) = i
      BY <2>2, <1>1
    <3> QED
      BY <2>2, <3>1, <1>3, <1>4
  <2> QED
    BY <2>1, <2>2
<1>6. a \o b = s
  BY <1>4, <1>5, SeqEqual
<1> QED
  BY <1>2, <1>3, <1>6 DEF a, b, CutAt

LEMMA LogicalParts ==
  ASSUME NEW s \in Seq(PendingRows), NEW t \in Seq(PendingRows)
  PROVE  /\ LogicalRows(s \o t) = LogicalRows(s) + LogicalRows(t)
         /\ RetriesLeft(s \o t) = RetriesLeft(s) + RetriesLeft(t)
<1>1. s \o t \in Seq(PendingRows)
  OBVIOUS
<1>2. Logical \in [PendingRows -> Int] /\ Retries \in [PendingRows -> Int]
  BY LogicalIs, RetriesAre
<1>3. Total(Weighed(s \o t, Logical)) = Total(Weighed(s, Logical)) + Total(Weighed(t, Logical))
  BY <1>2, WeighedConcat
<1>4. Total(Weighed(s \o t, Retries)) = Total(Weighed(s, Retries)) + Total(Weighed(t, Retries))
  BY <1>2, WeighedConcat
<1>5. /\ LogicalRows(s \o t) = Total(Weighed(s \o t, Logical))
      /\ RetriesLeft(s \o t) = Total(Weighed(s \o t, Retries))
  BY <1>1, LogicalIs, RetriesAre
<1>6. /\ LogicalRows(s) = Total(Weighed(s, Logical)) /\ LogicalRows(t) = Total(Weighed(t, Logical))
      /\ RetriesLeft(s) = Total(Weighed(s, Retries)) /\ RetriesLeft(t) = Total(Weighed(t, Retries))
  BY LogicalIs, RetriesAre
<1> QED
  BY <1>3, <1>4, <1>5, <1>6

LEMMA NoRows == LogicalRows(<< >>) = 0 /\ RetriesLeft(<< >>) = 0
<1>1. << >> \in Seq(PendingRows)
  OBVIOUS
<1>2. LogicalRows(<< >>) = Total(Weighed(<< >>, Logical)) /\ RetriesLeft(<< >>) = Total(Weighed(<< >>, Retries))
  BY <1>1, LogicalIs, RetriesAre
<1> QED
  BY <1>2, WeighedEmpty

LEMMA LogicalAppend ==
  ASSUME NEW s \in Seq(PendingRows), NEW row \in PendingRows, row.logical = 1
  PROVE  LogicalRows(Append(s, row)) = LogicalRows(s) + 1
<1>1. Append(s, row) \in Seq(PendingRows)
  OBVIOUS
<1>2. Logical \in [PendingRows -> Int] /\ Logical[row] = 1
  BY LogicalIs DEF Logical
<1>3. Total(Weighed(Append(s, row), Logical)) = Total(Weighed(s, Logical)) + 1
  BY <1>2, WeighedAppend
<1> QED
  BY <1>1, <1>3, LogicalIs

\* Rows that keep their logical counts
LEMMA LogicalSame ==
  ASSUME NEW s \in Seq(PendingRows), NEW t \in Seq(PendingRows), DOMAIN t = DOMAIN s,
         \A i \in DOMAIN s : t[i].logical = s[i].logical
  PROVE  LogicalRows(t) = LogicalRows(s)
BY DEF LogicalRows

LEMMA LogicalBump ==
  ASSUME NEW s \in Seq(PendingRows), NEW t \in Seq(PendingRows), DOMAIN t = DOMAIN s, NEW i \in DOMAIN s,
         \A k \in DOMAIN s : t[k].logical = IF k = i THEN s[k].logical + 1 ELSE s[k].logical
  PROVE  LogicalRows(t) = LogicalRows(s) + 1
<1> DEFINE x == Weighed(s, Logical)
           y == Weighed(t, Logical)
<1>1. Logical \in [PendingRows -> Int] /\ \A row \in PendingRows : Logical[row] = row.logical
  BY LogicalIs DEF Logical
<1>6. x \in Seq(Int) /\ Len(x) = Len(s) /\ \A k \in 1..Len(s) : x[k] = Logical[s[k]]
  BY <1>1, WeighedSeq
<1>7. y \in Seq(Int) /\ Len(y) = Len(t) /\ \A k \in 1..Len(t) : y[k] = Logical[t[k]]
  BY <1>1, WeighedSeq
<1>2. /\ x \in Seq(Int) /\ Len(x) = Len(s) /\ \A k \in 1..Len(s) : x[k] = Logical[s[k]]
      /\ y \in Seq(Int) /\ Len(y) = Len(t) /\ \A k \in 1..Len(t) : y[k] = Logical[t[k]]
  BY <1>6, <1>7
<1>3. /\ DOMAIN s = 1..Len(s) /\ Len(t) = Len(s) /\ i \in 1..Len(s)
      /\ \A k \in 1..Len(s) : s[k] \in PendingRows /\ t[k] \in PendingRows
  BY LenProperties
<1> HIDE DEF x, y
<1>4. ASSUME NEW k \in 1..Len(x) PROVE y[k] = IF k = i THEN x[k] + 1 ELSE x[k]
  <2>1. k \in 1..Len(s) /\ k \in 1..Len(t) /\ k \in DOMAIN s
    BY <1>2, <1>3
  <2>2. x[k] = s[k].logical /\ y[k] = t[k].logical
    BY <1>1, <1>2, <1>3, <2>1
  <2>3. t[k].logical = IF k = i THEN s[k].logical + 1 ELSE s[k].logical
    BY <2>1
  <2> QED
    BY <2>2, <2>3
<1>5. Total(y) = Total(x) + 1
  BY <1>2, <1>3, <1>4, TotalBump
<1> QED
  BY <1>5, LogicalIs DEF x, y

-----------------------------------------------------------------------------
(* What the rows carry: the suppression entries they wrote *)

Mark(row) == [events |-> row.events, state |-> row.state, token |-> row.token]
Marks(rows) == {Mark(rows[i]) : i \in DOMAIN rows}

\* Every suppressed event is stored or carried, and so is the suppressed state,
\* by the row that wrote its entry.
Backed(seen, last, kept, marks) ==
  /\ \A e \in seen : e \in kept \/ \E m \in marks : e \in m.events
  /\ last.value # None =>
       last.value \in kept \/ \E m \in marks : m.state = last.value /\ m.token = last.token

LEMMA MarkParts ==
  ASSUME NEW row
  PROVE  Mark(row).events = row.events /\ Mark(row).state = row.state /\ Mark(row).token = row.token
BY DEF Mark

LEMMA MarksOfParts ==
  ASSUME NEW R, NEW s \in Seq(R), NEW t \in Seq(R) PROVE Marks(s \o t) = Marks(s) \cup Marks(t)
<1>1. /\ Len(s) \in Nat /\ Len(t) \in Nat /\ DOMAIN s = 1..Len(s) /\ DOMAIN t = 1..Len(t)
      /\ DOMAIN (s \o t) = 1..(Len(s) + Len(t))
      /\ \A k \in 1..(Len(s) + Len(t)) : (s \o t)[k] = IF k <= Len(s) THEN s[k] ELSE t[k - Len(s)]
  OBVIOUS
<1>2. ASSUME NEW m \in Marks(s \o t) PROVE m \in Marks(s) \cup Marks(t)
  <2>1. PICK k \in 1..(Len(s) + Len(t)) : m = Mark((s \o t)[k])
    BY <1>1 DEF Marks
  <2>2. CASE k <= Len(s)
    <3>1. k \in DOMAIN s /\ m = Mark(s[k])
      BY <1>1, <2>1, <2>2
    <3> QED
      BY <3>1 DEF Marks
  <2>3. CASE ~(k <= Len(s))
    <3>1. k - Len(s) \in DOMAIN t /\ m = Mark(t[k - Len(s)])
      BY <1>1, <2>1, <2>3
    <3> QED
      BY <3>1 DEF Marks
  <2> QED
    BY <2>2, <2>3
<1>3. ASSUME NEW m \in Marks(s) PROVE m \in Marks(s \o t)
  <2>1. PICK k \in 1..Len(s) : m = Mark(s[k])
    BY <1>1 DEF Marks
  <2>2. k \in DOMAIN (s \o t) /\ m = Mark((s \o t)[k])
    BY <1>1, <2>1
  <2> QED
    BY <2>2 DEF Marks
<1>4. ASSUME NEW m \in Marks(t) PROVE m \in Marks(s \o t)
  <2>1. PICK k \in 1..Len(t) : m = Mark(t[k])
    BY <1>1 DEF Marks
  <2> DEFINE j == Len(s) + k
  <2>2. j \in 1..(Len(s) + Len(t)) /\ ~(j <= Len(s)) /\ j - Len(s) = k
    BY <1>1
  <2> HIDE DEF j
  <2>3. j \in DOMAIN (s \o t) /\ m = Mark((s \o t)[j])
    BY <1>1, <2>1, <2>2
  <2> QED
    BY <2>3 DEF Marks
<1> QED
  BY <1>2, <1>3, <1>4

LEMMA NoMarks == Marks(<< >>) = {}
BY DEF Marks

\* Rows that change in nothing they carry
LEMMA MarksSame ==
  ASSUME NEW s, NEW t, DOMAIN t = DOMAIN s,
         \A i \in DOMAIN s : t[i].events = s[i].events /\ t[i].state = s[i].state /\ t[i].token = s[i].token
  PROVE  Marks(t) = Marks(s)
BY DEF Marks, Mark

LEMMA MarksAppend ==
  ASSUME NEW R, NEW s \in Seq(R), NEW row \in R
  PROVE  Marks(Append(s, row)) = Marks(s) \cup {Mark(row)}
<1>1. <<row>> \in Seq(R) /\ Append(s, row) = s \o <<row>>
  OBVIOUS
<1>2. Marks(<<row>>) = {Mark(row)}
  BY DEF Marks
<1>3. Marks(s \o <<row>>) = Marks(s) \cup Marks(<<row>>)
  <2> DEFINE t == <<row>>
  <2>1. t \in Seq(R)
    BY <1>1
  <2> HIDE DEF t
  <2>2. Marks(s \o t) = Marks(s) \cup Marks(t)
    BY <2>1, MarksOfParts
  <2> QED
    BY <2>2 DEF t
<1> QED
  BY <1>1, <1>2, <1>3

\* The entries of the lost rows are forgotten, those of the committed ones are
\* stored, and what the others carry stays on its way.
LEMMA BackedAfter ==
  ASSUME NEW marks, NEW left, NEW rows, NEW done,
         Backed(eventSeen, stateSeen, stored, marks), Rollback(rows),
         stored' = stored \cup Entries(done),
         \A m \in marks : m \in left \/ m \in Marks(rows) \/ m \in Marks(done)
  PROVE  Backed(eventSeen', stateSeen', stored', left)
<1>1. eventSeen' = eventSeen \ UNION {rows[i].events : i \in DOMAIN rows}
  BY DEF Rollback
<1>2. \/ stateSeen' = [value |-> None, token |-> 0]
      \/ /\ stateSeen' = stateSeen
         /\ ~\E i \in DOMAIN rows : rows[i].state = stateSeen.value /\ rows[i].token = stateSeen.token
  BY DEF Rollback
<1>3. \A m \in Marks(done) : m.events \subseteq stored' /\ (m.state # None => m.state \in stored')
  <2> SUFFICES ASSUME NEW m \in Marks(done)
               PROVE  m.events \subseteq stored' /\ (m.state # None => m.state \in stored')
    OBVIOUS
  <2>1. PICK i \in DOMAIN done : m = Mark(done[i])
    BY DEF Marks
  <2>2. done[i].events \cup ({done[i].state} \ {None}) \subseteq Entries(done)
    BY <2>1 DEF Entries
  <2>3. m.events = done[i].events /\ m.state = done[i].state
    BY <2>1, MarkParts
  <2> QED
    BY <2>2, <2>3
<1>4. ASSUME NEW e \in eventSeen' PROVE e \in stored' \/ \E m \in left : e \in m.events
  <2>1. e \in eventSeen /\ \A i \in DOMAIN rows : e \notin rows[i].events
    BY <1>1, <1>4
  <2>2. CASE e \in stored
    BY <2>2
  <2>3. CASE \E m \in marks : e \in m.events
    <3>1. PICK m \in marks : e \in m.events
      BY <2>3
    <3>2. m \notin Marks(rows)
      BY <2>1, <3>1, MarkParts DEF Marks
    <3> QED
      BY <1>3, <3>1, <3>2
  <2> QED
    BY <2>1, <2>2, <2>3 DEF Backed
<1>5. ASSUME stateSeen'.value # None
      PROVE  stateSeen'.value \in stored' \/ \E m \in left : m.state = stateSeen'.value /\ m.token = stateSeen'.token
  <2>1. /\ stateSeen' = stateSeen /\ stateSeen.value # None
        /\ ~\E i \in DOMAIN rows : rows[i].state = stateSeen.value /\ rows[i].token = stateSeen.token
    BY <1>2, <1>5
  <2>2. CASE stateSeen.value \in stored
    BY <2>1, <2>2
  <2>3. CASE \E m \in marks : m.state = stateSeen.value /\ m.token = stateSeen.token
    <3>1. PICK m \in marks : m.state = stateSeen.value /\ m.token = stateSeen.token
      BY <2>3
    <3>2. m \notin Marks(rows)
      BY <2>1, <3>1, MarkParts DEF Marks
    <3>3. CASE m \in left
      BY <2>1, <3>1, <3>3
    <3>4. CASE m \in Marks(done)
      BY <1>3, <2>1, <3>1, <3>4
    <3> QED
      BY <3>2, <3>3, <3>4
  <2> QED
    BY <2>1, <2>2, <2>3 DEF Backed
<1> QED
  BY <1>4, <1>5 DEF Backed

\* More is carried, or stored, or less is suppressed.
LEMMA BackedMore ==
  ASSUME NEW marks, NEW more, NEW seen, NEW last, NEW kept, Backed(seen, last, kept, marks),
         \A m \in marks : m \in more
  PROVE  Backed(seen, last, kept, more)
BY Zenon DEF Backed

-----------------------------------------------------------------------------
(* The lane: no row leaves it uncounted, no suppressed one is forgotten *)

Carried == Marks(queue) \cup Marks(inflight)
LaneCounts ==
  /\ count.submitted <= MaxRows
  /\ count.admitted + count.aggregated <= count.submitted
  /\ Conserved
LaneBacked == Backed(eventSeen, stateSeen, stored, Carried)
LaneInv == TelemetryTypeOK /\ LaneCounts /\ LaneBacked

LEMMA LaneInvParts ==
  ASSUME LaneInv
  PROVE  /\ queue \in Seq(PendingRows) /\ inflight \in Seq(PendingRows)
         /\ LogicalRows(queue) \in Nat /\ LogicalRows(inflight) \in Nat /\ Inventory \in Nat
         /\ Inventory = LogicalRows(queue) + LogicalRows(inflight)
         /\ \A c \in Counters : count[c] \in Nat
<1>1. queue \in Seq(PendingRows) /\ inflight \in Seq(PendingRows)
  BY DEF LaneInv, TelemetryTypeOK
<1>2. LogicalRows(queue) \in Nat /\ LogicalRows(inflight) \in Nat
  BY <1>1, LogicalIs
<1>3. Inventory = LogicalRows(queue) + LogicalRows(inflight)
  BY DEF Inventory
<1> QED
  BY <1>1, <1>2, <1>3 DEF LaneInv, TelemetryTypeOK

\* The rows and the entries of the lane stay as they are.
LEMMA LaneRowsSame ==
  ASSUME LaneInv, UNCHANGED laneRows
  PROVE  /\ Inventory' = Inventory /\ LaneBacked'
         /\ queue' \in Seq(PendingRows) /\ inflight' \in Seq(PendingRows) /\ Len(inflight') <= MaxChunk
         /\ eventSeen' \subseteq EventKeys
         /\ stateSeen' \in [value : StateValues \cup {None}, token : 0..MaxRows]
         /\ stored' \subseteq EventKeys \cup StateValues
<1>1. UNCHANGED <<queue, inflight, eventSeen, stateSeen, stored>>
  BY DEF laneRows
<1> QED
  BY <1>1 DEF LaneInv, TelemetryTypeOK, LaneBacked, Carried, Inventory

\* What a step of the lane has to show, in three parts
LaneRowsOK ==
  /\ queue \in Seq(PendingRows) /\ inflight \in Seq(PendingRows)
  /\ Len(inflight) <= MaxChunk
  /\ eventSeen \subseteq EventKeys
  /\ stateSeen \in [value : StateValues \cup {None}, token : 0..MaxRows]
  /\ stored \subseteq EventKeys \cup StateValues
LaneModesOK ==
  /\ ceiling \in 1..MaxChunk /\ isolation \in 0..MaxChunk
  /\ unattempted \in Nat
  /\ stopMode \in {"no", "drain", "force"}
  /\ laneThread \in {"running", "stopped"}

LEMMA LaneTyped ==
  /\ LaneInv <=> LaneRowsOK /\ LaneModesOK /\ count \in [Counters -> Nat] /\ LaneCounts /\ LaneBacked
  /\ LaneInv' <=> LaneRowsOK' /\ LaneModesOK' /\ count' \in [Counters -> Nat] /\ LaneCounts' /\ LaneBacked'
BY DEF LaneInv, TelemetryTypeOK, LaneRowsOK, LaneModesOK

\* One more row submitted, in one terminal state outside the lane
LEMMA OutsideCounts ==
  ASSUME LaneInv, count.submitted < MaxRows,
         NEW C \in SUBSET Counters, "submitted" \in C,
         "admitted" \notin C, "aggregated" \notin C, "written" \notin C, "lostAdmitted" \notin C,
         "policyResolved" \notin C,
         count' = Counted(C, 1), Inventory' = Inventory
  PROVE  count' \in [Counters -> Nat] /\ LaneCounts'
<1>1. count' = [c \in Counters |-> count[c] + IF c \in C THEN 1 ELSE 0]
  BY DEF Counted
<1>2. count \in [Counters -> Nat] /\ LaneCounts /\ MaxRows \in Nat
  BY LaneTyped, LaneBounds
<1>3. {"submitted", "admitted", "aggregated", "written", "lostAdmitted", "policyResolved"} \subseteq Counters
  BY DEF Counters
<1>4. count' \in [Counters -> Nat]
  BY <1>1, <1>2
<1>5. /\ count'.submitted = count.submitted + 1 /\ count'.admitted = count.admitted
      /\ count'.aggregated = count.aggregated /\ count'.written = count.written
      /\ count'.lostAdmitted = count.lostAdmitted /\ count'.policyResolved = count.policyResolved
  BY <1>1, <1>2, <1>3
<1>6. count.submitted \in Nat /\ count.admitted \in Nat /\ count.aggregated \in Nat
  BY <1>2, <1>3
<1> QED
  BY <1>2, <1>4, <1>5, <1>6 DEF LaneCounts, Conserved

\* One more row submitted, into the lane
LEMMA InsideCounts ==
  ASSUME LaneInv, count.submitted < MaxRows,
         NEW C \in SUBSET Counters, "submitted" \in C,
         NEW c \in {"admitted", "aggregated"}, \A d \in {"admitted", "aggregated"} : d \in C <=> d = c,
         "written" \notin C, "lostAdmitted" \notin C, "policyResolved" \notin C,
         count' = Counted(C, 1), Inventory' = Inventory + 1
  PROVE  count' \in [Counters -> Nat] /\ LaneCounts'
<1>1. count' = [d \in Counters |-> count[d] + IF d \in C THEN 1 ELSE 0]
  BY DEF Counted
<1>2. count \in [Counters -> Nat] /\ LaneCounts /\ MaxRows \in Nat /\ Inventory \in Nat
  BY LaneTyped, LaneBounds, LaneInvParts
<1>3. {"submitted", "admitted", "aggregated", "written", "lostAdmitted", "policyResolved"} \subseteq Counters
  BY DEF Counters
<1>4. count' \in [Counters -> Nat]
  BY <1>1, <1>2
<1>5. /\ count'.submitted = count.submitted + 1 /\ count'.written = count.written
      /\ count'.lostAdmitted = count.lostAdmitted /\ count'.policyResolved = count.policyResolved
  BY <1>1, <1>2, <1>3
<1>6. /\ count.submitted \in Nat /\ count.admitted \in Nat /\ count.aggregated \in Nat
      /\ count.written \in Nat /\ count.lostAdmitted \in Nat /\ count.policyResolved \in Nat
  BY <1>2, <1>3
<1>7. count'.admitted + count'.aggregated = count.admitted + count.aggregated + 1
  <2>1. /\ count'.admitted = count.admitted + IF "admitted" \in C THEN 1 ELSE 0
        /\ count'.aggregated = count.aggregated + IF "aggregated" \in C THEN 1 ELSE 0
    BY <1>1, <1>2, <1>3
  <2>2. CASE c = "admitted"
    BY <2>1, <2>2, <1>6
  <2>3. CASE c = "aggregated"
    BY <2>1, <2>3, <1>6
  <2> QED
    BY <2>2, <2>3
<1>8. LaneCounts'
  BY <1>2, <1>5, <1>6, <1>7 DEF LaneCounts, Conserved
<1> QED
  BY <1>4, <1>8

Also(g, k) == [g EXCEPT !.written = @ + k]
Settles(g, k, h) ==
         /\ h \in [Counters -> Nat] /\ h.written = g.written + k
         /\ h.submitted = g.submitted /\ h.admitted = g.admitted /\ h.aggregated = g.aggregated
         /\ h.lostAdmitted = g.lostAdmitted /\ h.policyResolved = g.policyResolved

LEMMA WrittenToo ==
  ASSUME NEW g \in [Counters -> Nat], NEW k \in Nat
  PROVE  Settles(g, k, Also(g, k))
<1> DEFINE h == Also(g, k)
<1>1. {"submitted", "admitted", "aggregated", "written", "lostAdmitted", "policyResolved"} \subseteq Counters
  BY DEF Counters
<1>2. h = [d \in Counters |-> IF d = "written" THEN g["written"] + k ELSE g[d]]
  BY <1>1 DEF Also
<1> HIDE DEF h
<1>3. g["written"] + k \in Nat
  BY <1>1
<1>4. \A d \in Counters : h[d] = IF d = "written" THEN g["written"] + k ELSE g[d]
  BY <1>2
<1>5. h \in [Counters -> Nat]
  BY <1>2, <1>3
<1>6. h["written"] = g["written"] + k
  BY <1>1, <1>4
<1>7. /\ h["submitted"] = g["submitted"] /\ h["admitted"] = g["admitted"] /\ h["aggregated"] = g["aggregated"]
      /\ h["lostAdmitted"] = g["lostAdmitted"] /\ h["policyResolved"] = g["policyResolved"]
  BY <1>1, <1>4
<1>8. Settles(g, k, h)
  BY <1>5, <1>6, <1>7 DEF Settles
<1> QED
  BY <1>8 DEF h

\* n rows settled in one way or another leave the lane.
LEMMA SettledCounts ==
  ASSUME LaneInv, NEW c \in {"lostAdmitted", "policyResolved"}, NEW n \in Nat, NEW k \in Nat,
         count' = [Counted({c}, n) EXCEPT !.written = @ + k],
         Inventory' = Inventory - n - k
  PROVE  count' \in [Counters -> Nat] /\ LaneCounts'
<1> DEFINE counted == Counted({c}, n)
<1>1. counted = [d \in Counters |-> count[d] + IF d \in {c} THEN n ELSE 0]
  BY DEF Counted
<1>2. count \in [Counters -> Nat] /\ LaneCounts /\ Inventory \in Nat
  BY LaneTyped, LaneInvParts
<1>3. {"submitted", "admitted", "aggregated", "written", "lostAdmitted", "policyResolved"} \subseteq Counters
  BY DEF Counters
<1>4. counted \in [Counters -> Nat]
  BY <1>1, <1>2
<1> HIDE DEF counted
<1>5. count' = Also(counted, k)
  BY DEF counted, Also
<1>10. Settles(counted, k, count')
  BY <1>4, <1>5, WrittenToo
<1>6. /\ count' \in [Counters -> Nat] /\ count'.written = counted.written + k
      /\ count'.submitted = counted.submitted /\ count'.admitted = counted.admitted
      /\ count'.aggregated = counted.aggregated /\ count'.lostAdmitted = counted.lostAdmitted
      /\ count'.policyResolved = counted.policyResolved
  BY <1>10 DEF Settles
<1>7. /\ count'.submitted = count.submitted /\ count'.admitted = count.admitted
      /\ count'.aggregated = count.aggregated /\ count'.written = count.written + k
      /\ count'.lostAdmitted = count.lostAdmitted + (IF c = "lostAdmitted" THEN n ELSE 0)
      /\ count'.policyResolved = count.policyResolved + (IF c = "policyResolved" THEN n ELSE 0)
  BY <1>1, <1>2, <1>3, <1>6
<1>8. /\ count.submitted \in Nat /\ count.admitted \in Nat /\ count.aggregated \in Nat
      /\ count.written \in Nat /\ count.lostAdmitted \in Nat /\ count.policyResolved \in Nat
  BY <1>2, <1>3
<1>9. LaneCounts'
  BY <1>2, <1>7, <1>8 DEF LaneCounts, Conserved
<1> QED
  BY <1>6, <1>9

\* The row a merge enlarges has room for one more.
LEMMA RowHasRoom ==
  ASSUME LaneInv, count.submitted < MaxRows, NEW i \in DOMAIN queue
  PROVE  queue[i] \in PendingRows /\ queue[i].logical + 1 \in 1..MaxRows
<1>1. /\ queue \in Seq(PendingRows) /\ LogicalRows(queue) \in Nat /\ LogicalRows(inflight) \in Nat
      /\ Inventory = LogicalRows(queue) + LogicalRows(inflight)
      /\ \A c \in Counters : count[c] \in Nat
  BY LaneInvParts
<1>2. i \in 1..Len(queue) /\ queue[i] \in PendingRows
  BY <1>1, LenProperties
<1>3. queue[i].logical \in 1..MaxRows /\ MaxRows \in Nat
  BY <1>2, LaneBounds DEF PendingRows
<1>4. queue[i].logical <= LogicalRows(queue)
  BY <1>1, <1>2, LogicalIs
<1>5. /\ count.submitted \in Nat /\ count.admitted \in Nat /\ count.aggregated \in Nat
      /\ count.written \in Nat /\ count.lostAdmitted \in Nat /\ count.policyResolved \in Nat
  BY <1>1 DEF Counters
<1>6. count.admitted + count.aggregated <= count.submitted /\ Conserved
  BY LaneTyped DEF LaneCounts
<1>9. count.admitted + count.aggregated = count.written + count.lostAdmitted + count.policyResolved + Inventory
  BY <1>6 DEF Conserved
<1>10. LogicalRows(queue) \in Nat /\ LogicalRows(inflight) \in Nat
       /\ Inventory = LogicalRows(queue) + LogicalRows(inflight)
  BY <1>1
<1>7. LogicalRows(queue) + LogicalRows(inflight) <= count.submitted
  <2>1. count.admitted + count.aggregated <= count.submitted
    BY <1>6
  <2> DEFINE a == count.admitted + count.aggregated
  <2>2. a <= count.submitted /\ a = count.written + count.lostAdmitted + count.policyResolved + Inventory
    BY <2>1, <1>9
  <2> HIDE DEF a
  <2> QED
    BY <1>5, <1>10, <2>2
<1>8. queue[i].logical + 1 \in Nat /\ queue[i].logical + 1 <= MaxRows /\ queue[i].logical + 1 >= 1
  <2> DEFINE a == queue[i].logical
             b == LogicalRows(queue)
             d == LogicalRows(inflight)
             e == count.submitted
  <2>1. /\ a \in Int /\ a >= 1 /\ b \in Nat /\ d \in Nat /\ e \in Nat /\ MaxRows \in Nat
        /\ a <= b /\ b + d <= e /\ e < MaxRows
    BY <1>3, <1>4, <1>5, <1>7, <1>10
  <2> HIDE DEF a, b, d, e
  <2>2. a + 1 \in Nat /\ a + 1 <= MaxRows /\ a + 1 >= 1
    BY <2>1
  <2> QED
    BY <2>2 DEF a
<1> QED
  BY <1>2, <1>3, <1>8

LEMMA CountersAre ==
  {"submitted", "refused", "coalesced", "deduplicated", "sampled", "deferred", "admitted",
   "aggregated", "written", "lostAdmitted", "policyResolved"} \subseteq Counters
BY DEF Counters

\* A submission that leaves the rows and the entries of the lane as they are
LEMMA ResolvedKeeps ==
  ASSUME LaneInv, Offer, UNCHANGED <<queue, eventSeen, stateSeen>>,
         NEW C \in SUBSET Counters, "submitted" \in C,
         "admitted" \notin C, "aggregated" \notin C, "written" \notin C, "lostAdmitted" \notin C,
         "policyResolved" \notin C, count' = Counted(C, 1)
  PROVE  LaneInv'
<1>1. UNCHANGED laneRows /\ UNCHANGED <<ceiling, isolation, unattempted, stopMode, laneThread>>
  BY DEF Offer, laneRows
<1>2. /\ Inventory' = Inventory /\ LaneBacked' /\ LaneRowsOK'
  BY <1>1, LaneRowsSame DEF LaneRowsOK
<1>3. LaneModesOK'
  BY <1>1, LaneTyped DEF LaneModesOK
<1>4. count.submitted < MaxRows
  BY DEF Offer
<1>5. count' \in [Counters -> Nat] /\ LaneCounts'
  BY <1>2, <1>4, OutsideCounts
<1> QED
  BY <1>2, <1>3, <1>5, LaneTyped

LEMMA SubmitResolvedKeeps ==
  ASSUME LaneInv,
         SubmitAfterStop \/ SubmitDuplicate \/ SubmitRepeatedState \/ SubmitShed \/ SubmitOverflow
  PROVE  LaneInv'
<1>1. Offer /\ UNCHANGED <<queue, eventSeen, stateSeen>>
  BY DEF SubmitAfterStop, SubmitDuplicate, SubmitRepeatedState, SubmitShed, SubmitOverflow
<1>2. \/ count' = Counted({"submitted", "refused"}, 1)
      \/ count' = Counted({"submitted", "coalesced", "deduplicated"}, 1)
      \/ count' = Counted({"submitted", "coalesced"}, 1)
      \/ count' = Counted({"submitted", "sampled"}, 1)
      \/ count' = Counted({"submitted", "deferred"}, 1)
  BY DEF SubmitAfterStop, SubmitDuplicate, SubmitRepeatedState, SubmitShed, SubmitOverflow
<1>3. CASE count' = Counted({"submitted", "refused"}, 1)
  BY <1>1, <1>3, CountersAre, ResolvedKeeps
<1>4. CASE count' = Counted({"submitted", "coalesced", "deduplicated"}, 1)
  BY <1>1, <1>4, CountersAre, ResolvedKeeps
<1>5. CASE count' = Counted({"submitted", "coalesced"}, 1)
  BY <1>1, <1>5, CountersAre, ResolvedKeeps
<1>6. CASE count' = Counted({"submitted", "sampled"}, 1)
  BY <1>1, <1>6, CountersAre, ResolvedKeeps
<1>7. CASE count' = Counted({"submitted", "deferred"}, 1)
  BY <1>1, <1>7, CountersAre, ResolvedKeeps
<1> QED
  BY <1>2, <1>3, <1>4, <1>5, <1>6, <1>7

LEMMA SubmitMergedKeeps ==
  ASSUME LaneInv, SubmitMerged PROVE LaneInv'
<1>1. Offer /\ UNCHANGED <<eventSeen, stateSeen>> /\ count.submitted < MaxRows
  BY DEF SubmitMerged, Offer
<1>2. CASE count' = Counted({"submitted", "refused"}, 1) /\ UNCHANGED queue
  <2>1. UNCHANGED <<queue, eventSeen, stateSeen>>
    BY <1>1, <1>2
  <2> QED
    BY <1>1, <1>2, <2>1, CountersAre, ResolvedKeeps
<1>3. ASSUME NEW i \in OpenBucket, queue' = [queue EXCEPT ![i].logical = @ + 1],
             count' = Counted({"submitted", "aggregated", "coalesced"}, 1)
      PROVE  LaneInv'
  <2>1. i \in DOMAIN queue
    BY DEF OpenBucket
  <2>2. queue[i] \in PendingRows /\ queue[i].logical + 1 \in 1..MaxRows
    BY <1>1, <2>1, RowHasRoom
  <2> DEFINE row == [queue[i] EXCEPT !.logical = @ + 1]
  <2>3. row \in PendingRows /\ row.logical = queue[i].logical + 1 /\ row.events = queue[i].events
        /\ row.state = queue[i].state /\ row.token = queue[i].token
    BY <2>2 DEF PendingRows
  <2>4. queue' = [queue EXCEPT ![i] = row]
    BY <1>3
  <2> HIDE DEF row
  <2>5. queue \in Seq(PendingRows) /\ inflight \in Seq(PendingRows)
    BY LaneInvParts
  <2>6. /\ queue' \in Seq(PendingRows) /\ DOMAIN queue' = DOMAIN queue
        /\ \A k \in DOMAIN queue : queue'[k] = IF k = i THEN row ELSE queue[k]
    BY <2>1, <2>3, <2>4, <2>5
  <2>7. \A k \in DOMAIN queue :
          queue'[k].logical = IF k = i THEN queue[k].logical + 1 ELSE queue[k].logical
    BY <2>3, <2>6
  <2>8. LogicalRows(queue') = LogicalRows(queue) + 1
    BY <2>1, <2>5, <2>6, <2>7, LogicalBump
  <2>9. \A k \in DOMAIN queue : /\ queue'[k].events = queue[k].events
                                /\ queue'[k].state = queue[k].state /\ queue'[k].token = queue[k].token
    BY <2>3, <2>6
  <2>10. Marks(queue') = Marks(queue)
    BY <2>6, <2>9, MarksSame
  <2>11. UNCHANGED <<inflight, eventSeen, stateSeen, stored, ceiling, isolation, unattempted, stopMode, laneThread>>
    BY <1>1 DEF Offer
  <2>12. LaneBacked'
    BY <2>10, <2>11, LaneTyped DEF LaneBacked, Carried
  <2>13. Inventory' = LogicalRows(queue') + LogicalRows(inflight)
    BY <2>11 DEF Inventory
  <2>14. LogicalRows(queue) \in Nat /\ LogicalRows(inflight) \in Nat
         /\ Inventory = LogicalRows(queue) + LogicalRows(inflight)
    BY LaneInvParts
  <2>15. Inventory' = Inventory + 1
    BY <2>8, <2>13, <2>14
  <2>16. count' \in [Counters -> Nat] /\ LaneCounts'
    <3> DEFINE C == {"submitted", "aggregated", "coalesced"}
    <3>1. /\ C \in SUBSET Counters /\ "submitted" \in C
          /\ \A d \in {"admitted", "aggregated"} : d \in C <=> d = "aggregated"
          /\ "written" \notin C /\ "lostAdmitted" \notin C /\ "policyResolved" \notin C
      BY CountersAre
    <3>2. count' = Counted(C, 1)
      BY <1>3
    <3> HIDE DEF C
    <3> QED
      BY <1>1, <2>15, <3>1, <3>2, InsideCounts
  <2>17. LaneRowsOK' /\ LaneModesOK'
    BY <2>6, <2>11, LaneTyped DEF LaneRowsOK, LaneModesOK
  <2> QED
    BY <2>12, <2>16, <2>17, LaneTyped
<1> QED
  BY <1>2, <1>3 DEF SubmitMerged

\* A set of the places of a sequence has a last one.
LEMMA LastPlace ==
  ASSUME NEW n \in Nat, NEW S, S \subseteq 1..n, S # {} PROVE Max(S) \in S
<1> DEFINE T == {n - i : i \in S}
<1>7. \A i \in S : i \in 1..n /\ n - i \in Nat
  OBVIOUS
<1>1. T \subseteq Nat /\ T # {}
  BY <1>7
<1>2. PICK m \in T : \A k \in T : m <= k
  BY <1>1, LeastNat
<1>3. PICK i \in S : m = n - i
  BY <1>2
<1>4. \A j \in S : n - j \in T
  OBVIOUS
<1>5. \A j \in S : n - i <= n - j
  BY <1>2, <1>3, <1>4
<1>6. \A j \in S : i >= j
  BY <1>5
<1> QED
  BY <1>6 DEF Max

LEMMA SubmitLatestKeeps ==
  ASSUME LaneInv, SubmitLatest PROVE LaneInv'
<1> DEFINE states == {i \in DOMAIN queue : queue[i].state # None}
<1>1. /\ Offer /\ UNCHANGED eventSeen /\ count' = Counted({"submitted", "coalesced"}, 1)
      /\ count.submitted < MaxRows
  BY DEF SubmitLatest, Offer
<1>2. PICK v \in StateValues \ {stateSeen.value} :
        /\ states # {} /\ queue' = [queue EXCEPT ![Max(states)].state = v]
        /\ stateSeen' = [value |-> v, token |-> queue[Max(states)].token]
  BY DEF SubmitLatest
<1>3. queue \in Seq(PendingRows) /\ inflight \in Seq(PendingRows)
  BY LaneInvParts
<1>4. states \subseteq 1..Len(queue) /\ Len(queue) \in Nat
  BY <1>3
<1> DEFINE i == Max(states)
<1>5. i \in states
  BY <1>2, <1>4, LastPlace
<1>6. i \in DOMAIN queue /\ queue[i] \in PendingRows
  BY <1>3, <1>5
<1> DEFINE row == [queue[i] EXCEPT !.state = v]
<1>7. queue' = [queue EXCEPT ![i] = row] /\ stateSeen' = [value |-> v, token |-> queue[i].token]
  BY <1>2
<1> HIDE DEF i
<1>8. /\ row \in PendingRows /\ row.logical = queue[i].logical /\ row.events = queue[i].events
      /\ row.state = v /\ row.token = queue[i].token /\ row.token \in 0..MaxRows
  BY <1>6 DEF PendingRows
<1> HIDE DEF row
<1>9. /\ queue' \in Seq(PendingRows) /\ DOMAIN queue' = DOMAIN queue
      /\ \A k \in DOMAIN queue : queue'[k] = IF k = i THEN row ELSE queue[k]
  BY <1>3, <1>6, <1>7, <1>8
<1>10. \A k \in DOMAIN queue : queue'[k].logical = queue[k].logical /\ queue'[k].events = queue[k].events
  BY <1>8, <1>9
<1>11. LogicalRows(queue') = LogicalRows(queue)
  BY <1>3, <1>9, <1>10, LogicalSame
<1>12. UNCHANGED <<inflight, eventSeen, stored, ceiling, isolation, unattempted, stopMode, laneThread>>
  BY <1>1 DEF Offer
<1>13. Inventory' = Inventory
  BY <1>11, <1>12 DEF Inventory
<1>14. count' \in [Counters -> Nat] /\ LaneCounts'
  <2> DEFINE C == {"submitted", "coalesced"}
  <2>1. /\ C \in SUBSET Counters /\ "submitted" \in C
        /\ "admitted" \notin C /\ "aggregated" \notin C
        /\ "written" \notin C /\ "lostAdmitted" \notin C /\ "policyResolved" \notin C
    BY CountersAre
  <2>2. count' = Counted(C, 1)
    BY <1>1
  <2> HIDE DEF C
  <2> QED
    BY <1>1, <1>13, <2>1, <2>2, OutsideCounts
<1>15. Mark(row) \in Marks(queue')
  BY <1>6, <1>9 DEF Marks
<1>16. LaneBacked'
  <2>1. ASSUME NEW e \in eventSeen PROVE e \in stored \/ \E m \in Carried' : e \in m.events
    <3>1. e \in stored \/ \E m \in Marks(queue) \cup Marks(inflight) : e \in m.events
      BY LaneTyped DEF LaneBacked, Backed, Carried
    <3>2. CASE \E m \in Marks(inflight) : e \in m.events
      BY <3>2, <1>12 DEF Carried
    <3>3. CASE \E m \in Marks(queue) : e \in m.events
      <4>1. PICK k \in DOMAIN queue : e \in queue[k].events
        BY <3>3, MarkParts DEF Marks
      <4>2. Mark(queue'[k]) \in Marks(queue') /\ e \in Mark(queue'[k]).events
        BY <4>1, <1>9, <1>10, MarkParts DEF Marks
      <4> QED
        BY <4>2 DEF Carried
    <3> QED
      BY <3>1, <3>2, <3>3
  <2>2. stateSeen'.value = v /\ stateSeen'.token = queue[i].token
    BY <1>7
  <2>3. Mark(row) \in Carried' /\ Mark(row).state = v /\ Mark(row).token = queue[i].token
    BY <1>8, <1>15, MarkParts DEF Carried
  <2> QED
    BY <2>1, <2>2, <2>3, <1>12 DEF LaneBacked, Backed
<1>17. stateSeen' \in [value : StateValues \cup {None}, token : 0..MaxRows]
  BY <1>7, <1>8
<1>18. LaneRowsOK' /\ LaneModesOK'
  BY <1>9, <1>12, <1>17, LaneTyped DEF LaneRowsOK, LaneModesOK
<1> QED
  BY <1>14, <1>16, <1>18, LaneTyped

LEMMA SubmitAdmittedKeeps ==
  ASSUME LaneInv, SubmitAdmitted PROVE LaneInv'
<1>1. /\ Offer /\ count' = Counted({"submitted", "admitted"}, 1) /\ count.submitted < MaxRows
  BY DEF SubmitAdmitted, Offer
<1>2. PICK row \in Admissible :
        /\ queue' = Append(queue, row)
        /\ eventSeen' = eventSeen \cup row.events
        /\ stateSeen' = IF row.state = None THEN stateSeen
                        ELSE [value |-> row.state, token |-> row.token]
  BY DEF SubmitAdmitted
<1>3. queue \in Seq(PendingRows) /\ inflight \in Seq(PendingRows) /\ count.submitted \in Nat
  BY LaneInvParts, CountersAre
<1>4. /\ Token \in 1..MaxRows /\ 1 \in 1..MaxRows /\ 0 \in 0..RetryBudget
  BY <1>1, <1>3, LaneBounds DEF Token
<1>5. row \in PendingRows /\ row.logical = 1
  <2>1. row \in OfferedRows
    BY DEF Admissible
  <2>2. CASE \E e \in EventKeys \ eventSeen : row = EventRow(e)
    BY <2>2, <1>4 DEF EventRow, PendingRows
  <2>3. CASE \E v \in StateValues \ {stateSeen.value} : row = StateRow(v)
    BY <2>3, <1>4 DEF StateRow, PendingRows
  <2>4. CASE row = BucketRow
    BY <2>4, <1>4 DEF BucketRow, PendingRows
  <2> QED
    BY <2>1, <2>2, <2>3, <2>4 DEF OfferedRows
<1>6. row.events \subseteq EventKeys /\ row.state \in StateValues \cup {None} /\ row.token \in 0..MaxRows
  BY <1>5, LaneBounds DEF PendingRows
<1>7. queue' \in Seq(PendingRows) /\ LogicalRows(queue') = LogicalRows(queue) + 1
  BY <1>2, <1>3, <1>5, LogicalAppend
<1>8. Marks(queue') = Marks(queue) \cup {Mark(row)}
  <2>1. Marks(Append(queue, row)) = Marks(queue) \cup {Mark(row)}
    BY <1>3, <1>5, MarksAppend
  <2> QED
    BY <2>1, <1>2
<1>9. UNCHANGED <<inflight, stored, ceiling, isolation, unattempted, stopMode, laneThread>>
  BY <1>1 DEF Offer
<1>10. Inventory' = Inventory + 1
  <2>1. Inventory' = LogicalRows(queue') + LogicalRows(inflight)
    BY <1>9 DEF Inventory
  <2>2. LogicalRows(queue) \in Nat /\ LogicalRows(inflight) \in Nat
        /\ Inventory = LogicalRows(queue) + LogicalRows(inflight)
    BY LaneInvParts
  <2> QED
    BY <2>1, <2>2, <1>7
<1>11. count' \in [Counters -> Nat] /\ LaneCounts'
  <2> DEFINE C == {"submitted", "admitted"}
  <2>1. /\ C \in SUBSET Counters /\ "submitted" \in C
        /\ \A d \in {"admitted", "aggregated"} : d \in C <=> d = "admitted"
        /\ "written" \notin C /\ "lostAdmitted" \notin C /\ "policyResolved" \notin C
    BY CountersAre
  <2>2. count' = Counted(C, 1)
    BY <1>1
  <2> HIDE DEF C
  <2> QED
    BY <1>1, <1>10, <2>1, <2>2, InsideCounts
<1>12. LaneBacked'
  <2>1. Carried' = Carried \cup {Mark(row)}
    BY <1>8, <1>9 DEF Carried
  <2>2. Mark(row).events = row.events /\ Mark(row).state = row.state /\ Mark(row).token = row.token
    BY MarkParts
  <2>3. /\ \A e \in eventSeen : e \in stored \/ \E m \in Carried : e \in m.events
        /\ stateSeen.value # None =>
             stateSeen.value \in stored
               \/ \E m \in Carried : m.state = stateSeen.value /\ m.token = stateSeen.token
    BY LaneTyped DEF LaneBacked, Backed
  <2>4. ASSUME NEW e \in eventSeen' PROVE e \in stored \/ \E m \in Carried' : e \in m.events
    <3>1. e \in eventSeen \/ e \in row.events
      BY <1>2
    <3> QED
      BY <2>1, <2>2, <2>3, <3>1
  <2>5. ASSUME stateSeen'.value # None
        PROVE  stateSeen'.value \in stored
                 \/ \E m \in Carried' : m.state = stateSeen'.value /\ m.token = stateSeen'.token
    <3>1. CASE row.state = None
      BY <1>2, <2>1, <2>3, <2>5, <3>1
    <3>2. CASE row.state # None
      <4>1. stateSeen'.value = row.state /\ stateSeen'.token = row.token
        BY <1>2, <3>2
      <4> QED
        BY <2>1, <2>2, <4>1
    <3> QED
      BY <3>1, <3>2
  <2> QED
    BY <2>4, <2>5, <1>9 DEF LaneBacked, Backed
<1>13. LaneRowsOK'
  <2>1. eventSeen \subseteq EventKeys /\ stateSeen \in [value : StateValues \cup {None}, token : 0..MaxRows]
    BY LaneTyped DEF LaneRowsOK
  <2>2. eventSeen' \subseteq EventKeys
    BY <1>2, <1>6, <2>1
  <2>3. stateSeen' \in [value : StateValues \cup {None}, token : 0..MaxRows]
    BY <1>2, <1>6, <2>1
  <2> QED
    BY <1>7, <1>9, <2>2, <2>3, LaneTyped DEF LaneRowsOK
<1>14. LaneModesOK'
  BY <1>9, LaneTyped DEF LaneModesOK
<1> QED
  BY <1>11, <1>12, <1>13, <1>14, LaneTyped

\* Only the suppression caches shrink.
LEMMA ForgetKeeps ==
  ASSUME LaneInv, ForgetEvent \/ ForgetState PROVE LaneInv'
<1>1. UNCHANGED <<queue, inflight, stored, count, ceiling, isolation, unattempted, stopMode, laneThread>>
  BY DEF ForgetEvent, ForgetState
<1>2. /\ eventSeen' \subseteq eventSeen
      /\ stateSeen' = stateSeen \/ stateSeen' = [value |-> None, token |-> 0]
  BY DEF ForgetEvent, ForgetState
<1>3. /\ \A e \in eventSeen : e \in stored \/ \E m \in Carried : e \in m.events
      /\ stateSeen.value # None =>
           stateSeen.value \in stored
             \/ \E m \in Carried : m.state = stateSeen.value /\ m.token = stateSeen.token
  BY LaneTyped DEF LaneBacked, Backed
<1>4. Carried' = Carried /\ Inventory' = Inventory
  BY <1>1 DEF Carried, Inventory
<1>5. stateSeen'.value # None => stateSeen' = stateSeen
  BY <1>2
<1>6. LaneBacked'
  BY <1>1, <1>2, <1>3, <1>4, <1>5 DEF LaneBacked, Backed
<1>7. LaneCounts' /\ count' \in [Counters -> Nat]
  BY <1>1, <1>4, LaneTyped DEF LaneCounts, Conserved
<1>8. LaneRowsOK'
  <2>1. eventSeen \subseteq EventKeys /\ stateSeen \in [value : StateValues \cup {None}, token : 0..MaxRows]
    BY LaneTyped DEF LaneRowsOK
  <2>2. [value |-> None, token |-> 0] \in [value : StateValues \cup {None}, token : 0..MaxRows]
    BY LaneBounds
  <2>3. eventSeen' \subseteq EventKeys
        /\ stateSeen' \in [value : StateValues \cup {None}, token : 0..MaxRows]
    BY <1>2, <2>1, <2>2
  <2> QED
    BY <1>1, <2>3, LaneTyped DEF LaneRowsOK
<1>9. LaneModesOK'
  BY <1>1, LaneTyped DEF LaneModesOK
<1> QED
  BY <1>6, <1>7, <1>8, <1>9, LaneTyped

LEMMA CeilingBounds ==
  ASSUME LaneInv PROVE DispatchCeiling \in 1..MaxChunk
<1>1. ceiling \in 1..MaxChunk /\ isolation \in 0..MaxChunk
  BY LaneTyped DEF LaneModesOK
<1>2. ceiling \in Int /\ isolation \in Int
  BY <1>1
<1>3. Min({ceiling, isolation}) = IF ceiling <= isolation THEN ceiling ELSE isolation
  BY <1>2, LesserOf
<1> QED
  BY <1>1, <1>3, LaneBounds DEF DispatchCeiling

LEMMA TakeBatchKeeps ==
  ASSUME LaneInv, TakeBatch PROVE LaneInv'
<1> DEFINE n == Min({DispatchCeiling, Len(queue)})
<1>1. /\ inflight = << >> /\ inflight' = SubSeq(queue, 1, n) /\ queue' = SubSeq(queue, n + 1, Len(queue))
      /\ UNCHANGED <<eventSeen, stateSeen, stored, count, ceiling, isolation, unattempted, stopMode, laneThread>>
  BY DEF TakeBatch
<1>2. queue \in Seq(PendingRows) /\ Len(queue) \in Nat
  BY LaneInvParts, LenProperties
<1>3. DispatchCeiling \in 1..MaxChunk
  BY CeilingBounds
<1>4. DispatchCeiling \in Int /\ Len(queue) \in Int
  BY <1>2, <1>3
<1>5. n = IF DispatchCeiling <= Len(queue) THEN DispatchCeiling ELSE Len(queue)
  BY <1>4, LesserOf
<1> HIDE DEF n
<1>6. n \in 0..Len(queue) /\ n <= MaxChunk
  BY <1>2, <1>3, <1>5, LaneBounds
<1>7. /\ inflight' \in Seq(PendingRows) /\ queue' \in Seq(PendingRows)
      /\ queue = inflight' \o queue' /\ Len(inflight') = n
  <2>1. CutAt(queue, n, PendingRows)
    BY <1>2, <1>6, CutInTwo
  <2> QED
    BY <1>1, <2>1 DEF CutAt
<1>8. LogicalRows(queue) = LogicalRows(inflight') + LogicalRows(queue')
  BY <1>7, LogicalParts
<1>9. Marks(queue) = Marks(inflight') \cup Marks(queue')
  BY <1>7, MarksOfParts
<1>10. LogicalRows(inflight) = 0 /\ Marks(inflight) = {}
  BY <1>1, NoRows, NoMarks
<1>11. LogicalRows(inflight') \in Nat /\ LogicalRows(queue') \in Nat
  BY <1>7, LogicalIs
<1>12. Inventory' = Inventory
  <2>1. Inventory' = LogicalRows(queue') + LogicalRows(inflight')
    BY DEF Inventory
  <2>2. Inventory = LogicalRows(queue) + LogicalRows(inflight)
    BY DEF Inventory
  <2> QED
    BY <2>1, <2>2, <1>8, <1>10, <1>11
<1>13. Carried' = Carried
  BY <1>9, <1>10 DEF Carried
<1>14. LaneBacked'
  BY <1>1, <1>13, LaneTyped DEF LaneBacked
<1>15. LaneCounts' /\ count' \in [Counters -> Nat]
  BY <1>1, <1>12, LaneTyped DEF LaneCounts, Conserved
<1>16. LaneRowsOK' /\ LaneModesOK'
  BY <1>1, <1>6, <1>7, LaneTyped DEF LaneRowsOK, LaneModesOK
<1> QED
  BY <1>14, <1>15, <1>16, LaneTyped

LEMMA ModesKeep ==
  ASSUME LaneInv, Resize \/ LaneEnds \/ StopDraining PROVE LaneInv'
<1>1. UNCHANGED laneRows /\ UNCHANGED count
  BY DEF Resize, LaneEnds, StopDraining
<1>2. Inventory' = Inventory /\ LaneBacked' /\ LaneRowsOK'
  BY <1>1, LaneRowsSame DEF LaneRowsOK
<1>3. LaneCounts' /\ count' \in [Counters -> Nat]
  BY <1>1, <1>2, LaneTyped DEF LaneCounts, Conserved
<1>4. LaneModesOK'
  BY LaneTyped DEF LaneModesOK, Resize, LaneEnds, StopDraining
<1> QED
  BY <1>2, <1>3, <1>4, LaneTyped

LEMMA EntriesTyped ==
  ASSUME NEW rows \in Seq(PendingRows) PROVE Entries(rows) \subseteq EventKeys \cup StateValues
<1>1. \A i \in DOMAIN rows : rows[i] \in PendingRows
  OBVIOUS
<1>2. \A row \in PendingRows : row.events \cup ({row.state} \ {None}) \subseteq EventKeys \cup StateValues
  BY DEF PendingRows
<1> QED
  BY <1>1, <1>2 DEF Entries

LEMMA RollbackTyped ==
  ASSUME LaneInv, NEW rows, Rollback(rows)
  PROVE  /\ eventSeen' \subseteq EventKeys
         /\ stateSeen' \in [value : StateValues \cup {None}, token : 0..MaxRows]
<1>1. eventSeen \subseteq EventKeys /\ stateSeen \in [value : StateValues \cup {None}, token : 0..MaxRows]
  BY LaneTyped DEF LaneRowsOK
<1>2. eventSeen' \subseteq eventSeen
  BY DEF Rollback
<1>3. stateSeen' = stateSeen \/ stateSeen' = [value |-> None, token |-> 0]
  BY DEF Rollback
<1>4. [value |-> None, token |-> 0] \in [value : StateValues \cup {None}, token : 0..MaxRows]
  BY LaneBounds
<1> QED
  BY <1>1, <1>2, <1>3, <1>4

\* The rows of a batch that are stored, lost and queued again
Parted(again, lost, done) ==
  /\ again \in Seq(PendingRows) /\ lost \in Seq(PendingRows) /\ done \in Seq(PendingRows)
  /\ LogicalRows(inflight) = LogicalRows(again) + LogicalRows(lost) + LogicalRows(done)
  /\ \A m \in Marks(inflight) : m \in Marks(again) \/ m \in Marks(lost) \/ m \in Marks(done)

\* Every answer of the sink settles its batch in this way.
LEMMA SettledKeeps ==
  ASSUME LaneInv, NEW lost, NEW done, NEW again, NEW c \in {"lostAdmitted", "policyResolved"},
         Parted(again, lost, done),
         queue' = again \o queue, inflight' = << >>, Rollback(lost),
         stored' = stored \cup Entries(done),
         count' = [Counted({c}, LogicalRows(lost)) EXCEPT !.written = @ + LogicalRows(done)],
         LaneModesOK'
  PROVE  LaneInv'
<1>1. queue \in Seq(PendingRows) /\ inflight \in Seq(PendingRows) /\ LogicalRows(queue) \in Nat
      /\ LogicalRows(inflight) \in Nat /\ Inventory = LogicalRows(queue) + LogicalRows(inflight)
  BY LaneInvParts
<1>2. again \in Seq(PendingRows) /\ lost \in Seq(PendingRows) /\ done \in Seq(PendingRows)
  BY DEF Parted
<1>3. LogicalRows(again) \in Nat /\ LogicalRows(lost) \in Nat /\ LogicalRows(done) \in Nat
  BY <1>2, LogicalIs
<1>4. queue' \in Seq(PendingRows) /\ LogicalRows(again \o queue) = LogicalRows(again) + LogicalRows(queue)
  BY <1>1, <1>2, LogicalParts
<1>5. Marks(again \o queue) = Marks(again) \cup Marks(queue)
  BY <1>1, <1>2, MarksOfParts
<1>6. Inventory' = LogicalRows(again) + LogicalRows(queue)
  <2>1. Inventory' = LogicalRows(queue') + LogicalRows(inflight')
    BY DEF Inventory
  <2>2. LogicalRows(queue') = LogicalRows(again) + LogicalRows(queue) /\ LogicalRows(inflight') = 0
    BY <1>4, NoRows
  <2> QED
    BY <2>1, <2>2, <1>1, <1>3
<1>7. Inventory' = Inventory - LogicalRows(lost) - LogicalRows(done)
  <2>1. LogicalRows(inflight) = LogicalRows(again) + LogicalRows(lost) + LogicalRows(done)
    BY DEF Parted
  <2> QED
    BY <2>1, <1>1, <1>3, <1>6
<1>8. count' \in [Counters -> Nat] /\ LaneCounts'
  <2> DEFINE a == LogicalRows(lost)
             b == LogicalRows(done)
  <2>1. a \in Nat /\ b \in Nat /\ count' = [Counted({c}, a) EXCEPT !.written = @ + b]
        /\ Inventory' = Inventory - a - b
    BY <1>3, <1>7
  <2> HIDE DEF a, b
  <2> QED
    BY <2>1, SettledCounts
<1>9. LaneBacked'
  <2> DEFINE left == Carried'
  <2>1. left = Marks(again) \cup Marks(queue)
    <3>1. Marks(queue') = Marks(again) \cup Marks(queue) /\ Marks(inflight') = {}
      BY <1>5, NoMarks
    <3> QED
      BY <3>1 DEF Carried
  <2>2. \A m \in Carried : m \in left \/ m \in Marks(lost) \/ m \in Marks(done)
    BY <2>1 DEF Carried, Parted
  <2>3. Backed(eventSeen, stateSeen, stored, Carried)
    BY LaneTyped DEF LaneBacked
  <2>4. Backed(eventSeen', stateSeen', stored', left)
    BY <2>2, <2>3, BackedAfter
  <2> QED
    BY <2>4 DEF LaneBacked
<1>10. LaneRowsOK'
  <2>1. Len(inflight') <= MaxChunk /\ inflight' \in Seq(PendingRows)
    <3>1. Len(<< >>) = 0 /\ << >> \in Seq(PendingRows)
      OBVIOUS
    <3> QED
      BY <3>1, LaneBounds
  <2>2. stored' \subseteq EventKeys \cup StateValues
    BY <1>2, EntriesTyped, LaneTyped DEF LaneRowsOK
  <2>3. eventSeen' \subseteq EventKeys
        /\ stateSeen' \in [value : StateValues \cup {None}, token : 0..MaxRows]
    BY RollbackTyped
  <2> QED
    BY <1>4, <2>1, <2>2, <2>3 DEF LaneRowsOK
<1> QED
  BY <1>8, <1>9, <1>10, LaneTyped

LEMMA WrittenFailed ==
  ASSUME LaneInv, NEW w \in 0..Len(inflight)
  PROVE  /\ Written(w) \in Seq(PendingRows) /\ Failed(w) \in Seq(PendingRows)
         /\ Len(Failed(w)) = Len(inflight) - w /\ Len(Written(w)) = w
         /\ inflight = Written(w) \o Failed(w)
         /\ LogicalRows(inflight) = LogicalRows(Written(w)) + LogicalRows(Failed(w))
         /\ RetriesLeft(inflight) = RetriesLeft(Written(w)) + RetriesLeft(Failed(w))
         /\ Marks(inflight) = Marks(Written(w)) \cup Marks(Failed(w))
<1>1. inflight \in Seq(PendingRows)
  BY LaneInvParts
<1>2. /\ Written(w) \in Seq(PendingRows) /\ Failed(w) \in Seq(PendingRows)
      /\ Len(Failed(w)) = Len(inflight) - w /\ Len(Written(w)) = w
      /\ inflight = Written(w) \o Failed(w)
  <2>1. /\ SubSeq(inflight, 1, w) \in Seq(PendingRows)
        /\ SubSeq(inflight, w + 1, Len(inflight)) \in Seq(PendingRows)
        /\ inflight = SubSeq(inflight, 1, w) \o SubSeq(inflight, w + 1, Len(inflight))
        /\ Len(SubSeq(inflight, 1, w)) = w
        /\ Len(SubSeq(inflight, w + 1, Len(inflight))) = Len(inflight) - w
    <3>1. CutAt(inflight, w, PendingRows)
      BY <1>1, CutInTwo
    <3> QED
      BY <3>1 DEF CutAt
  <2> QED
    BY <2>1 DEF Written, Failed
<1>3. /\ LogicalRows(Written(w) \o Failed(w)) = LogicalRows(Written(w)) + LogicalRows(Failed(w))
      /\ RetriesLeft(Written(w) \o Failed(w)) = RetriesLeft(Written(w)) + RetriesLeft(Failed(w))
  BY <1>2, LogicalParts
<1>4. Marks(Written(w) \o Failed(w)) = Marks(Written(w)) \cup Marks(Failed(w))
  BY <1>2, MarksOfParts
<1> QED
  BY <1>2, <1>3, <1>4

LEMMA NoneAgain ==
  /\ << >> \in Seq(PendingRows) /\ LogicalRows(<< >>) = 0 /\ Marks(<< >>) = {}
  /\ LaneInv => queue = << >> \o queue
<1>1. LaneInv => queue \in Seq(PendingRows)
  BY LaneInvParts
<1> QED
  BY <1>1, NoRows, NoMarks

LEMMA CommittedKeeps ==
  ASSUME LaneInv, Committed PROVE LaneInv'
<1> DEFINE n == Len(inflight)
<1>1. /\ inflight' = << >> /\ stored' = stored \cup Entries(Written(n))
      /\ UNCHANGED <<queue, eventSeen, stateSeen, unattempted, ceiling, stopMode, laneThread>>
      /\ isolation' = 0 /\ count' = Counted({"written"}, LogicalRows(inflight))
  BY DEF Committed, SettleRows
<1>2. inflight \in Seq(PendingRows) /\ n \in 0..Len(inflight) /\ n \in Nat
  BY LaneInvParts, LenProperties
<1>3. /\ Written(n) \in Seq(PendingRows) /\ Failed(n) \in Seq(PendingRows) /\ Len(Failed(n)) = Len(inflight) - n
      /\ LogicalRows(inflight) = LogicalRows(Written(n)) + LogicalRows(Failed(n))
      /\ Marks(inflight) = Marks(Written(n)) \cup Marks(Failed(n))
  BY <1>2, WrittenFailed
<1>4. Failed(n) = << >>
  BY <1>2, <1>3, EmptySeq
<1> HIDE DEF n
<1>5. LogicalRows(Failed(n)) = 0 /\ Marks(Failed(n)) = {}
  BY <1>4, NoneAgain
<1>6. LogicalRows(Written(n)) \in Nat
  BY <1>3, LogicalIs
<1>7. LogicalRows(inflight) = LogicalRows(Written(n))
  BY <1>3, <1>5, <1>6
<1>8. Parted(<< >>, << >>, Written(n))
  <2>1. LogicalRows(inflight) = LogicalRows(<< >>) + LogicalRows(<< >>) + LogicalRows(Written(n))
    BY <1>6, <1>7, NoneAgain
  <2> QED
    BY <2>1, <1>3, <1>5, NoneAgain DEF Parted
<1>9. Rollback(<< >>)
  BY <1>1 DEF Rollback
<1>10. count' = [Counted({"lostAdmitted"}, LogicalRows(<< >>)) EXCEPT !.written = @ + LogicalRows(Written(n))]
  <2> DEFINE k == LogicalRows(Written(n))
  <2>1. k \in Nat /\ count' = Counted({"written"}, k) /\ LogicalRows(<< >>) = 0
    BY <1>1, <1>6, <1>7, NoneAgain
  <2> HIDE DEF k
  <2>2. count \in [Counters -> Nat] /\ "written" \in Counters /\ "lostAdmitted" \in Counters
    BY LaneTyped, CountersAre
  <2>3. Counted({"lostAdmitted"}, 0) = count
    BY <2>2 DEF Counted
  <2>4. Counted({"written"}, k) = [count EXCEPT !.written = @ + k]
    BY <2>1, <2>2 DEF Counted
  <2>5. count' = [Counted({"lostAdmitted"}, LogicalRows(<< >>)) EXCEPT !.written = @ + k]
    BY <2>1, <2>3, <2>4
  <2> QED
    BY <2>5 DEF k
<1>11. LaneModesOK'
  BY <1>1, LaneTyped, LaneBounds DEF LaneModesOK
<1>12. queue' = << >> \o queue
  BY <1>1, NoneAgain
<1> QED
  BY <1>1, <1>8, <1>9, <1>10, <1>11, <1>12, SettledKeeps

LEMMA FailsAtBounds ==
  ASSUME LaneInv, NEW w \in 0..MaxChunk, NEW chunk \in 1..MaxChunk, FailsAt(w, chunk)
  PROVE  w \in 0..Len(inflight) /\ w < Len(inflight) /\ chunk <= Len(inflight) - w
         /\ w + chunk \in 0..Len(inflight)
<1>1. inflight \in Seq(PendingRows) /\ Len(inflight) \in Nat
  BY LaneInvParts, LenProperties
<1>2. DispatchCeiling \in 1..MaxChunk /\ w \in Nat /\ chunk \in Nat
  BY CeilingBounds, LaneBounds
<1>3. DispatchCeiling \in Int /\ Len(inflight) - w \in Int
  BY <1>1, <1>2
<1>4. w < Len(inflight) /\ chunk = Min({DispatchCeiling, Len(inflight) - w})
  BY DEF FailsAt
<1> DEFINE rest == Len(inflight) - w
<1>5. chunk = IF DispatchCeiling <= rest THEN DispatchCeiling ELSE rest
  BY <1>3, <1>4, LesserOf
<1> QED
  BY <1>1, <1>2, <1>4, <1>5

LEMMA DropFailedKeeps ==
  ASSUME LaneInv, NEW w \in 0..MaxChunk, NEW chunk \in 1..MaxChunk, FailsAt(w, chunk), SettleRows(w),
         NEW c \in {"lostAdmitted", "policyResolved"}, DropFailed(w, chunk, c), UNCHANGED isolation
  PROVE  LaneInv'
<1>1. w \in 0..Len(inflight) /\ w + chunk \in 0..Len(inflight)
  BY FailsAtBounds
<1>2. /\ Written(w) \in Seq(PendingRows) /\ Failed(w) \in Seq(PendingRows)
      /\ LogicalRows(inflight) = LogicalRows(Written(w)) + LogicalRows(Failed(w))
      /\ Marks(inflight) = Marks(Written(w)) \cup Marks(Failed(w))
  BY <1>1, WrittenFailed
<1>3. LogicalRows(Written(w)) \in Nat /\ LogicalRows(Failed(w)) \in Nat
  BY <1>2, LogicalIs
<1>4. Parted(<< >>, Failed(w), Written(w))
  <2>1. LogicalRows(inflight) = LogicalRows(<< >>) + LogicalRows(Failed(w)) + LogicalRows(Written(w))
    BY <1>2, <1>3, NoneAgain
  <2> QED
    BY <2>1, <1>2, NoneAgain DEF Parted
<1>5. /\ queue' = queue /\ inflight' = << >> /\ Rollback(Failed(w)) /\ stored' = stored \cup Entries(Written(w))
      /\ count' = [Counted({c}, LogicalRows(Failed(w))) EXCEPT !.written = @ + LogicalRows(Written(w))]
      /\ UNCHANGED <<ceiling, stopMode, laneThread>>
      /\ unattempted' = unattempted + LogicalRows(SubSeq(inflight, w + chunk + 1, Len(inflight)))
  BY DEF DropFailed, SettleRows
<1>6. LaneModesOK'
  <2>1. inflight \in Seq(PendingRows)
    BY LaneInvParts
  <2> DEFINE k == w + chunk
             tail == SubSeq(inflight, k + 1, Len(inflight))
  <2>2. tail \in Seq(PendingRows)
    <3>1. k \in 0..Len(inflight)
      BY <1>1
    <3> HIDE DEF k
    <3>2. CutAt(inflight, k, PendingRows)
      BY <2>1, <3>1, CutInTwo
    <3> QED
      BY <3>2 DEF CutAt
  <2>3. LogicalRows(tail) \in Nat
    <3> HIDE DEF tail
    <3> QED
      BY <2>2, LogicalIs
  <2> HIDE DEF k
  <2>4. unattempted' = unattempted + LogicalRows(tail)
    BY <1>5 DEF k
  <2> HIDE DEF tail
  <2>5. unattempted' \in Nat
    BY <2>3, <2>4, LaneTyped DEF LaneModesOK
  <2> QED
    BY <1>5, <2>5, LaneTyped DEF LaneModesOK
<1>7. queue' = << >> \o queue
  BY <1>5, NoneAgain
<1> QED
  BY <1>4, <1>5, <1>6, <1>7, SettledKeeps

LEMMA StopForcedKeeps ==
  ASSUME LaneInv, StopForced PROVE LaneInv'
<1>1. /\ queue' = << >> /\ Rollback(queue) /\ count' = Counted({"lostAdmitted"}, LogicalRows(queue))
      /\ UNCHANGED <<inflight, stored, ceiling, isolation, unattempted, laneThread>> /\ stopMode' = "force"
  BY DEF StopForced
<1>2. queue \in Seq(PendingRows) /\ inflight \in Seq(PendingRows) /\ LogicalRows(queue) \in Nat
      /\ LogicalRows(inflight) \in Nat /\ Inventory = LogicalRows(queue) + LogicalRows(inflight)
  BY LaneInvParts
<1>3. Inventory' = Inventory - LogicalRows(queue)
  <2>1. Inventory' = LogicalRows(queue') + LogicalRows(inflight)
    BY <1>1 DEF Inventory
  <2>2. LogicalRows(queue') = 0
    BY <1>1, NoRows
  <2> QED
    BY <2>1, <2>2, <1>2
<1>4. count' \in [Counters -> Nat] /\ LaneCounts'
  <2> DEFINE n == LogicalRows(queue)
  <2>1. n \in Nat /\ count' = Counted({"lostAdmitted"}, n) /\ Inventory' = Inventory - n
    BY <1>1, <1>2, <1>3
  <2> HIDE DEF n
  <2>2. count \in [Counters -> Nat] /\ "lostAdmitted" \in Counters /\ "written" \in Counters
    BY LaneTyped, CountersAre
  <2> DEFINE g == Counted({"lostAdmitted"}, n)
  <2>3. g \in [Counters -> Nat]
    BY <2>1, <2>2 DEF Counted
  <2> HIDE DEF g
  <2>4. g["written"] + 0 = g["written"]
    BY <2>2, <2>3
  <2>5. [g EXCEPT !.written = @ + 0] = g
    BY <2>2, <2>3, <2>4
  <2>6. count' = [Counted({"lostAdmitted"}, n) EXCEPT !.written = @ + 0]
    BY <2>1, <2>5 DEF g
  <2>7. Inventory' = Inventory - n - 0
    BY <2>1, <1>2
  <2> QED
    BY <2>1, <2>6, <2>7, SettledCounts
<1>5. LaneBacked'
  <2>1. Carried' = Marks(inflight)
    BY <1>1, NoMarks DEF Carried
  <2> DEFINE left == Marks(inflight)
  <2>2. \A m \in Carried : m \in left \/ m \in Marks(queue) \/ m \in Marks(<< >>)
    BY DEF Carried
  <2>3. stored' = stored \cup Entries(<< >>)
    BY <1>1 DEF Entries
  <2>4. Backed(eventSeen, stateSeen, stored, Carried)
    BY LaneTyped DEF LaneBacked
  <2> HIDE DEF left
  <2>5. Backed(eventSeen', stateSeen', stored', left)
    BY <1>1, <2>2, <2>3, <2>4, BackedAfter
  <2> QED
    BY <2>1, <2>5 DEF LaneBacked, left
<1>6. LaneRowsOK'
  <2>1. eventSeen' \subseteq EventKeys /\ stateSeen' \in [value : StateValues \cup {None}, token : 0..MaxRows]
    BY <1>1, RollbackTyped
  <2> QED
    BY <2>1, <1>1, NoneAgain, LaneTyped DEF LaneRowsOK
<1>7. LaneModesOK'
  BY <1>1, LaneTyped DEF LaneModesOK
<1> QED
  BY <1>4, <1>5, <1>6, <1>7, LaneTyped

\* The failed rows that are lost, the others, and the others as they are queued
Requeues(w, consume, kept, lost, again) ==
  /\ kept \in Seq(PendingRows) /\ lost \in Seq(PendingRows) /\ again \in Seq(PendingRows)
  /\ Len(again) = Len(kept) /\ Len(kept) + Len(lost) = Len(Failed(w))
  /\ LogicalRows(kept) + LogicalRows(lost) = LogicalRows(Failed(w))
  /\ RetriesLeft(kept) + RetriesLeft(lost) = RetriesLeft(Failed(w))
  /\ LogicalRows(again) = LogicalRows(kept) /\ Marks(again) = Marks(kept)
  /\ (consume => RetriesLeft(again) = RetriesLeft(kept) - Len(kept))
  /\ \A m \in Marks(Failed(w)) : m \in Marks(kept) \/ m \in Marks(lost)
  /\ queue' = again \o queue /\ Rollback(lost) /\ unattempted' = unattempted
  /\ count' = [Counted({"lostAdmitted"}, LogicalRows(lost)) EXCEPT
                 !.written = @ + LogicalRows(Written(w))]

LEMMA RequeueParts ==
  ASSUME LaneInv, NEW w \in 0..Len(inflight), NEW consume \in BOOLEAN, Requeue(w, consume)
  PROVE  \E kept, lost, again : Requeues(w, consume, kept, lost, again)
<1> DEFINE rows == Failed(w)
           out == {i \in DOMAIN rows :
                      stopMode = "force" \/ (consume /\ rows[i].tries >= RetryBudget)}
           kept == Picked(rows, DOMAIN rows \ out)
           lost == Picked(rows, out)
           next(i) == [kept[i] EXCEPT !.bucket = FALSE, !.tries = IF consume THEN @ + 1 ELSE @]
           again == [i \in DOMAIN kept |-> next(i)]
<1>1. /\ queue' = again \o queue /\ Rollback(lost) /\ unattempted' = unattempted
      /\ count' = [Counted({"lostAdmitted"}, LogicalRows(lost)) EXCEPT
                     !.written = @ + LogicalRows(Written(w))]
  BY DEF Requeue
<1>2. rows \in Seq(PendingRows) /\ DOMAIN rows = 1..Len(rows) /\ Len(rows) \in Nat
  BY WrittenFailed, LenProperties
<1> HIDE DEF rows
<1>3. \A i \in out : i \in 1..Len(rows)
  BY <1>2
<1>4. \A i \in 1..Len(rows) :
        i \in DOMAIN rows \ out => (consume => ~(rows[i].tries >= RetryBudget))
  BY <1>2
<1> DEFINE P == DOMAIN rows \ out
<1>5. \A i \in 1..Len(rows) : i \in out <=> i \notin P
  BY <1>2
<1>6. P \subseteq 1..Len(rows)
  BY <1>2
<1>7. kept = Picked(rows, P) /\ lost = Picked(rows, out)
  OBVIOUS
<1>8. \A i \in P : consume => ~(rows[i].tries >= RetryBudget)
  BY <1>4, <1>6
<1> HIDE DEF out, P
<1>25. Drawn(PendingRows, rows, P, Picked(rows, P)) /\ Drawn(PendingRows, rows, out, Picked(rows, out))
  BY <1>2, PickedRows
<1>9. /\ Picked(rows, P) \in Seq(PendingRows)
      /\ \A j \in 1..Len(Picked(rows, P)) : \E i \in 1..Len(rows) : i \in P /\ Picked(rows, P)[j] = rows[i]
      /\ \A i \in 1..Len(rows) : i \in P =>
           \E j \in 1..Len(Picked(rows, P)) : Picked(rows, P)[j] = rows[i]
  BY <1>25 DEF Drawn
<1>10. /\ Picked(rows, out) \in Seq(PendingRows)
       /\ \A i \in 1..Len(rows) : i \in out =>
            \E j \in 1..Len(Picked(rows, out)) : Picked(rows, out)[j] = rows[i]
  BY <1>25 DEF Drawn
<1>11. Logical \in [PendingRows -> Int] /\ Retries \in [PendingRows -> Int]
  BY <1>2, LogicalIs, RetriesAre
<1>12. /\ Total(Weighed(Picked(rows, P), Logical)) + Total(Weighed(Picked(rows, out), Logical))
            = Total(Weighed(rows, Logical))
       /\ Len(Picked(rows, P)) + Len(Picked(rows, out)) = Len(rows)
  <2>1. Splits(rows, Logical, P, out)
    BY <1>2, <1>5, <1>11, PickedSplit
  <2> QED
    BY <2>1 DEF Splits
<1>13. Total(Weighed(Picked(rows, P), Retries)) + Total(Weighed(Picked(rows, out), Retries))
         = Total(Weighed(rows, Retries))
  <2>1. Splits(rows, Retries, P, out)
    BY <1>2, <1>5, <1>11, PickedSplit
  <2> QED
    BY <2>1 DEF Splits
<1> HIDE DEF kept, lost
<1>14. /\ kept \in Seq(PendingRows) /\ lost \in Seq(PendingRows)
       /\ Len(kept) + Len(lost) = Len(rows)
       /\ \A j \in 1..Len(kept) : \E i \in 1..Len(rows) : i \in P /\ kept[j] = rows[i]
       /\ \A i \in 1..Len(rows) : i \in P => \E j \in 1..Len(kept) : kept[j] = rows[i]
       /\ \A i \in 1..Len(rows) : i \in out => \E j \in 1..Len(lost) : lost[j] = rows[i]
  BY <1>7, <1>9, <1>10, <1>12
<1>15. /\ LogicalRows(kept) = Total(Weighed(kept, Logical)) /\ LogicalRows(lost) = Total(Weighed(lost, Logical))
       /\ LogicalRows(rows) = Total(Weighed(rows, Logical))
       /\ RetriesLeft(kept) = Total(Weighed(kept, Retries)) /\ RetriesLeft(lost) = Total(Weighed(lost, Retries))
       /\ RetriesLeft(rows) = Total(Weighed(rows, Retries))
  BY <1>2, <1>14, LogicalIs, RetriesAre
<1>16. /\ LogicalRows(kept) + LogicalRows(lost) = LogicalRows(rows)
       /\ RetriesLeft(kept) + RetriesLeft(lost) = RetriesLeft(rows)
  BY <1>7, <1>12, <1>13, <1>15
<1>17. DOMAIN kept = 1..Len(kept) /\ Len(kept) \in Nat /\ \A i \in 1..Len(kept) : kept[i] \in PendingRows
  BY <1>14, LenProperties
<1>18. ASSUME NEW i \in 1..Len(kept)
       PROVE  /\ next(i) \in PendingRows /\ next(i).logical = kept[i].logical
              /\ next(i).events = kept[i].events /\ next(i).state = kept[i].state
              /\ next(i).token = kept[i].token
              /\ consume => next(i).tries = kept[i].tries + 1
  <2>1. PICK j \in 1..Len(rows) : j \in P /\ kept[i] = rows[j]
    BY <1>14
  <2>2. consume => ~(kept[i].tries >= RetryBudget)
    BY <1>8, <2>1
  <2>3. kept[i] \in PendingRows /\ kept[i].tries \in 0..RetryBudget
    BY <1>17 DEF PendingRows
  <2> DEFINE row == kept[i]
             tries == IF consume THEN row.tries + 1 ELSE row.tries
  <2>4. tries \in 0..RetryBudget
    BY <2>2, <2>3, LaneBounds
  <2>5. next(i) = [row EXCEPT !.bucket = FALSE, !.tries = tries]
    OBVIOUS
  <2>6. row \in PendingRows
    BY <2>3
  <2>7. consume => tries = row.tries + 1
    OBVIOUS
  <2> HIDE DEF row, tries, next
  <2>8. /\ next(i) \in PendingRows /\ next(i).logical = row.logical
        /\ next(i).events = row.events /\ next(i).state = row.state
        /\ next(i).token = row.token /\ next(i).tries = tries
    BY <2>4, <2>5, <2>6 DEF PendingRows
  <2> QED
    BY <2>7, <2>8 DEF row
<1> HIDE DEF next
<1>19. /\ again \in Seq(PendingRows) /\ Len(again) = Len(kept) /\ DOMAIN again = DOMAIN kept
       /\ \A i \in 1..Len(kept) : again[i] = next(i)
  <2>1. again = [i \in 1..Len(kept) |-> next(i)]
    BY <1>17
  <2> QED
    BY <1>17, <1>18, <2>1
<1> HIDE DEF again
<1>20. LogicalRows(again) = LogicalRows(kept)
  <2>1. \A i \in DOMAIN kept : again[i].logical = kept[i].logical
    BY <1>17, <1>18, <1>19
  <2> QED
    BY <1>14, <1>19, <2>1, LogicalSame
<1>21. Marks(again) = Marks(kept)
  <2>1. \A i \in DOMAIN kept :
          again[i].events = kept[i].events /\ again[i].state = kept[i].state /\ again[i].token = kept[i].token
    BY <1>17, <1>18, <1>19
  <2> QED
    BY <1>19, <2>1, MarksSame
<1>22. ASSUME consume PROVE RetriesLeft(again) = RetriesLeft(kept) - Len(kept)
  <2> DEFINE x == Weighed(kept, Retries)
             y == Weighed(again, Retries)
  <2>6. x \in Seq(Int) /\ Len(x) = Len(kept) /\ \A k \in 1..Len(kept) : x[k] = Retries[kept[k]]
    <3>1. kept \in Seq(PendingRows)
      BY <1>14
    <3> QED
      BY <1>11, <3>1, WeighedSeq
  <2>7. y \in Seq(Int) /\ Len(y) = Len(again) /\ \A k \in 1..Len(again) : y[k] = Retries[again[k]]
    BY <1>11, <1>19, WeighedSeq
  <2>1. /\ x \in Seq(Int) /\ Len(x) = Len(kept) /\ \A k \in 1..Len(kept) : x[k] = Retries[kept[k]]
        /\ y \in Seq(Int) /\ Len(y) = Len(again) /\ \A k \in 1..Len(again) : y[k] = Retries[again[k]]
    BY <2>6, <2>7
  <2> HIDE DEF x, y
  <2>2. ASSUME NEW k \in 1..Len(x) PROVE y[k] = x[k] - 1
    <3>1. k \in 1..Len(kept) /\ k \in 1..Len(again)
      BY <1>19, <2>1
    <3>2. kept[k] \in PendingRows /\ again[k] \in PendingRows /\ again[k].tries = kept[k].tries + 1
      BY <1>17, <1>18, <1>19, <1>22, <3>1
    <3>3. /\ Retries[kept[k]] = RetryBudget - kept[k].tries + 1
          /\ Retries[again[k]] = RetryBudget - again[k].tries + 1
          /\ kept[k].tries \in 0..RetryBudget
      BY <3>2 DEF Retries, PendingRows
    <3>4. x[k] = Retries[kept[k]] /\ y[k] = Retries[again[k]]
      BY <2>1, <3>1
    <3>5. kept[k].tries \in Int /\ RetryBudget \in Int
      BY <3>3, LaneBounds
    <3> DEFINE d == kept[k].tries
    <3>6. d \in Int /\ x[k] = RetryBudget - d + 1 /\ y[k] = RetryBudget - (d + 1) + 1
      BY <3>2, <3>3, <3>4, <3>5
    <3> HIDE DEF d
    <3> QED
      BY <3>5, <3>6
  <2>3. Total(y) = Total(x) - Len(x)
    BY <1>19, <2>1, <2>2, TotalLess
  <2>4. RetriesLeft(again) = Total(y)
    BY <1>19, RetriesAre DEF y
  <2>5. RetriesLeft(kept) = Total(x)
    BY <1>14, RetriesAre DEF x
  <2> QED
    BY <2>1, <2>3, <2>4, <2>5
<1>23. ASSUME NEW m \in Marks(rows) PROVE m \in Marks(kept) \/ m \in Marks(lost)
  <2>1. PICK i \in 1..Len(rows) : m = Mark(rows[i])
    BY <1>2 DEF Marks
  <2>2. CASE i \in P
    <3>1. PICK j \in 1..Len(kept) : kept[j] = rows[i]
      BY <1>14, <2>2
    <3> QED
      BY <2>1, <3>1, <1>17 DEF Marks
  <2>3. CASE i \in out
    <3>1. PICK j \in 1..Len(lost) : lost[j] = rows[i]
      BY <1>14, <2>3
    <3>2. j \in DOMAIN lost
      BY <1>14, LenProperties
    <3> QED
      BY <2>1, <3>1, <3>2 DEF Marks
  <2> QED
    BY <1>5, <2>2, <2>3
<1>24. Requeues(w, consume, kept, lost, again)
  BY <1>1, <1>14, <1>16, <1>19, <1>20, <1>21, <1>22, <1>23 DEF Requeues, rows
<1> QED
  BY <1>24

LEMMA RequeueKeeps ==
  ASSUME LaneInv, NEW w \in 0..MaxChunk, NEW chunk \in 1..MaxChunk, FailsAt(w, chunk), SettleRows(w),
         NEW consume \in BOOLEAN, Requeue(w, consume), isolation' \in 0..MaxChunk
  PROVE  LaneInv'
<1>1. w \in 0..Len(inflight)
  BY FailsAtBounds
<1>2. PICK kept, lost, again : Requeues(w, consume, kept, lost, again)
  BY <1>1, RequeueParts
<1>3. /\ Written(w) \in Seq(PendingRows) /\ Failed(w) \in Seq(PendingRows)
      /\ LogicalRows(inflight) = LogicalRows(Written(w)) + LogicalRows(Failed(w))
      /\ Marks(inflight) = Marks(Written(w)) \cup Marks(Failed(w))
  BY <1>1, WrittenFailed
<1>4. /\ again \in Seq(PendingRows) /\ lost \in Seq(PendingRows)
      /\ LogicalRows(again) + LogicalRows(lost) = LogicalRows(Failed(w))
      /\ \A m \in Marks(Failed(w)) : m \in Marks(again) \/ m \in Marks(lost)
  BY <1>2 DEF Requeues
<1>5. LogicalRows(Written(w)) \in Nat /\ LogicalRows(again) \in Nat /\ LogicalRows(lost) \in Nat
  BY <1>3, <1>4, LogicalIs
<1>6. Parted(again, lost, Written(w))
  <2>1. LogicalRows(inflight) = LogicalRows(again) + LogicalRows(lost) + LogicalRows(Written(w))
    BY <1>3, <1>4, <1>5
  <2> QED
    BY <2>1, <1>3, <1>4 DEF Parted
<1>7. /\ queue' = again \o queue /\ Rollback(lost) /\ unattempted' = unattempted
      /\ count' = [Counted({"lostAdmitted"}, LogicalRows(lost)) EXCEPT
                     !.written = @ + LogicalRows(Written(w))]
  BY <1>2 DEF Requeues
<1>8. /\ inflight' = << >> /\ stored' = stored \cup Entries(Written(w))
      /\ UNCHANGED <<ceiling, stopMode, laneThread>>
  BY DEF SettleRows
<1>9. LaneModesOK'
  BY <1>7, <1>8, LaneTyped DEF LaneModesOK
<1> QED
  BY <1>6, <1>7, <1>8, <1>9, SettledKeeps

LEMMA SinkAnswersKeep ==
  ASSUME LaneInv, SinkAnswers \/ DeferredToCheckpoint PROVE LaneInv'
<1>1. isolation \in 0..MaxChunk
  BY LaneTyped DEF LaneModesOK
<1>2. CASE Committed
  BY <1>2, CommittedKeeps
<1>3. CASE Yielded
  <2>1. PICK w \in 0..MaxChunk, chunk \in 1..MaxChunk :
          FailsAt(w, chunk) /\ SettleRows(w) /\ Requeue(w, TRUE) /\ UNCHANGED isolation
    BY <1>3 DEF Yielded
  <2>2. isolation' \in 0..MaxChunk
    BY <1>1, <2>1
  <2> QED
    BY <2>1, <2>2, RequeueKeeps
<1>4. CASE DeferredToCheckpoint
  <2>1. PICK w \in 0..MaxChunk, chunk \in 1..MaxChunk :
          FailsAt(w, chunk) /\ SettleRows(w) /\ Requeue(w, FALSE) /\ UNCHANGED isolation
    BY <1>4 DEF DeferredToCheckpoint
  <2>2. isolation' \in 0..MaxChunk
    BY <1>1, <2>1
  <2> QED
    BY <2>1, <2>2, RequeueKeeps
<1>5. CASE Collided
  <2>1. PICK w \in 0..MaxChunk, chunk \in 1..MaxChunk, known \in BOOLEAN :
          /\ FailsAt(w, chunk) /\ SettleRows(w)
          /\ IF chunk > 1 /\ stopMode # "force"
             THEN Requeue(w, TRUE) /\ isolation' = chunk \div 2
             ELSE /\ DropFailed(w, chunk, IF known THEN "policyResolved" ELSE "lostAdmitted")
                  /\ UNCHANGED isolation
    BY <1>5 DEF Collided
  <2>2. CASE chunk > 1 /\ stopMode # "force"
    <3>1. Requeue(w, TRUE) /\ isolation' = chunk \div 2
      BY <2>1, <2>2
    <3>2. isolation' \in 0..MaxChunk
      BY <3>1, LaneBounds
    <3> QED
      BY <2>1, <3>1, <3>2, RequeueKeeps
  <2>3. CASE ~(chunk > 1 /\ stopMode # "force")
    <3> DEFINE c == IF known THEN "policyResolved" ELSE "lostAdmitted"
    <3>1. c \in {"lostAdmitted", "policyResolved"} /\ DropFailed(w, chunk, c) /\ UNCHANGED isolation
      BY <2>1, <2>3
    <3> HIDE DEF c
    <3> QED
      BY <2>1, <3>1, DropFailedKeeps
  <2> QED
    BY <2>2, <2>3
<1>6. CASE SinkFailed
  <2>1. PICK w \in 0..MaxChunk, chunk \in 1..MaxChunk :
          FailsAt(w, chunk) /\ SettleRows(w) /\ DropFailed(w, chunk, "lostAdmitted") /\ UNCHANGED isolation
    BY <1>6 DEF SinkFailed
  <2> QED
    BY <2>1, DropFailedKeeps
<1> QED
  BY <1>2, <1>3, <1>4, <1>5, <1>6 DEF SinkAnswers

LEMMA LaneStarts ==
  ASSUME TelemetryInit PROVE LaneInv
<1>1. /\ queue = << >> /\ inflight = << >> /\ eventSeen = {} /\ stored = {}
      /\ stateSeen = [value |-> None, token |-> 0] /\ count = [c \in Counters |-> 0]
      /\ ceiling = MaxChunk /\ isolation = 0 /\ unattempted = 0 /\ stopMode = "no" /\ laneThread = "running"
  BY DEF TelemetryInit
<1>2. Inventory = 0
  BY <1>1, NoRows DEF Inventory
<1>3. LaneRowsOK /\ LaneModesOK
  BY <1>1, LaneBounds, NoneAgain DEF LaneRowsOK, LaneModesOK
<1>4. count \in [Counters -> Nat] /\ LaneCounts
  BY <1>1, <1>2, CountersAre, LaneBounds DEF LaneCounts, Conserved
<1>5. LaneBacked
  BY <1>1 DEF LaneBacked, Backed
<1> QED
  BY <1>3, <1>4, <1>5, LaneTyped

LEMMA LaneStep ==
  ASSUME LaneInv, [TelemetryNext]_telemetryVars PROVE LaneInv'
<1>1. CASE UNCHANGED telemetryVars
  <2>1. UNCHANGED laneRows /\ UNCHANGED <<count, ceiling, isolation, unattempted, stopMode, laneThread>>
    BY <1>1 DEF telemetryVars
  <2>2. Inventory' = Inventory /\ LaneBacked' /\ LaneRowsOK'
    BY <2>1, LaneRowsSame DEF LaneRowsOK
  <2>3. LaneCounts' /\ count' \in [Counters -> Nat] /\ LaneModesOK'
    BY <2>1, <2>2, LaneTyped DEF LaneCounts, Conserved, LaneModesOK
  <2> QED
    BY <2>2, <2>3, LaneTyped
<1>2. CASE TelemetryNext
  BY <1>2, SubmitResolvedKeeps, SubmitMergedKeeps, SubmitLatestKeeps, SubmitAdmittedKeeps, ForgetKeeps,
     TakeBatchKeeps, ModesKeep, StopForcedKeeps, SinkAnswersKeep
     DEF TelemetryNext
<1> QED
  BY <1>1, <1>2

LEMMA LaneInvImplies ==
  ASSUME LaneInv PROVE RowsAccounted
<1>1. TelemetryTypeOK /\ Conserved
  BY DEF LaneInv, LaneCounts
<1>2. \A rows : \A m \in Marks(rows) :
        m.events \subseteq Entries(rows) /\ (m.state # None => m.state \in Entries(rows))
  <2> SUFFICES ASSUME NEW rows, NEW m \in Marks(rows)
               PROVE  m.events \subseteq Entries(rows) /\ (m.state # None => m.state \in Entries(rows))
    OBVIOUS
  <2>1. PICK i \in DOMAIN rows : m = Mark(rows[i])
    BY DEF Marks
  <2>2. rows[i].events \cup ({rows[i].state} \ {None}) \subseteq Entries(rows)
    BY <2>1 DEF Entries
  <2> QED
    BY <2>1, <2>2, MarkParts
<1>3. /\ \A e \in eventSeen : e \in stored \/ \E m \in Carried : e \in m.events
      /\ stateSeen.value # None =>
           stateSeen.value \in stored
             \/ \E m \in Carried : m.state = stateSeen.value /\ m.token = stateSeen.token
  BY LaneTyped DEF LaneBacked, Backed
<1>4. \A m \in Carried : m \in Marks(queue) \/ m \in Marks(inflight)
  BY DEF Carried
<1>5. SuppressionBacked
  BY <1>2, <1>3, <1>4 DEF SuppressionBacked
<1> QED
  BY <1>1, <1>5 DEF RowsAccounted

LEMMA LaneInvariant == TelemetrySpec => []LaneInv
<1>1. TelemetryInit => LaneInv
  BY LaneStarts
<1>2. LaneInv /\ [TelemetryNext]_telemetryVars => LaneInv'
  BY LaneStep
<1> QED
  BY <1>1, <1>2, PTL DEF TelemetrySpec

\* Every row submitted is written, lost, resolved by a policy or held, and a row the
\* lane suppresses as seen is stored or on its way, whatever the sink answers.
THEOREM LaneAccounting == TelemetrySpec => []RowsAccounted
<1>1. LaneInv => RowsAccounted
  BY LaneInvImplies
<1> QED
  BY <1>1, LaneInvariant, PTL

-----------------------------------------------------------------------------
(* The end of a stop *)

LEMMA AnswersProgress ==
  ASSUME LaneInv, stopMode # "no", SinkAnswers
  PROVE  RetriesLeft(queue') + RetriesLeft(inflight') < RetriesLeft(queue) + RetriesLeft(inflight)
<1>1. queue \in Seq(PendingRows) /\ inflight \in Seq(PendingRows)
  BY LaneInvParts
<1>2. RetriesLeft(queue) \in Nat /\ RetriesLeft(inflight) \in Nat
  BY <1>1, RetriesAre
<1>3. inflight # << >> /\ inflight' = << >>
  BY DEF SinkAnswers, Committed, Yielded, Collided, SinkFailed, SettleRows
<1>4. RetriesLeft(inflight) > 0 /\ RetriesLeft(inflight') = 0
  BY <1>1, <1>3, RetriesAre, NoRows
<1>5. CASE queue' = queue
  BY <1>2, <1>4, <1>5
<1>6. ASSUME NEW w \in 0..MaxChunk, NEW chunk \in 1..MaxChunk, FailsAt(w, chunk), Requeue(w, TRUE)
      PROVE  RetriesLeft(queue') < RetriesLeft(queue) + RetriesLeft(inflight)
  <2>1. w \in 0..Len(inflight) /\ w < Len(inflight) /\ Len(inflight) \in Nat
    BY <1>1, <1>6, FailsAtBounds, LenProperties
  <2>2. PICK kept, lost, again : Requeues(w, TRUE, kept, lost, again)
    BY <1>6, <2>1, RequeueParts
  <2>3. /\ kept \in Seq(PendingRows) /\ lost \in Seq(PendingRows) /\ again \in Seq(PendingRows)
        /\ Len(kept) + Len(lost) = Len(Failed(w))
        /\ RetriesLeft(kept) + RetriesLeft(lost) = RetriesLeft(Failed(w))
        /\ RetriesLeft(again) = RetriesLeft(kept) - Len(kept) /\ queue' = again \o queue
    BY <2>2 DEF Requeues
  <2>4. /\ Written(w) \in Seq(PendingRows) /\ Failed(w) \in Seq(PendingRows)
        /\ Len(Failed(w)) = Len(inflight) - w
        /\ RetriesLeft(inflight) = RetriesLeft(Written(w)) + RetriesLeft(Failed(w))
    BY <2>1, WrittenFailed
  <2>5. /\ RetriesLeft(Written(w)) \in Nat /\ RetriesLeft(kept) \in Nat /\ RetriesLeft(lost) \in Nat
        /\ RetriesLeft(again) \in Nat /\ (lost # << >> => RetriesLeft(lost) > 0)
    BY <2>3, <2>4, RetriesAre
  <2>6. Len(kept) \in Nat /\ Len(lost) \in Nat /\ (Len(lost) > 0 => lost # << >>)
    BY <2>3, LenProperties, EmptySeq
  <2>7. RetriesLeft(queue') = RetriesLeft(again) + RetriesLeft(queue)
    BY <1>1, <2>3, LogicalParts
  <2>8. Len(kept) + Len(lost) > 0
    BY <2>1, <2>3, <2>4
  <2>9. Len(kept) > 0 \/ RetriesLeft(lost) > 0
    BY <2>5, <2>6, <2>8
  <2>10. RetriesLeft(again) < RetriesLeft(Failed(w))
    <3> DEFINE a == RetriesLeft(kept)
               b == RetriesLeft(lost)
               n == Len(kept)
    <3>1. a \in Nat /\ b \in Nat /\ n \in Nat /\ (n > 0 \/ b > 0)
      BY <2>5, <2>6, <2>9
    <3>2. RetriesLeft(again) = a - n /\ RetriesLeft(Failed(w)) = a + b
      BY <2>3
    <3> HIDE DEF a, b, n
    <3> QED
      BY <3>1, <3>2
  <2>11. RetriesLeft(Failed(w)) \in Nat
    BY <2>4, RetriesAre
  <2> QED
    BY <1>2, <2>4, <2>5, <2>7, <2>10, <2>11
<1>7. CASE ~(queue' = queue)
  <2>1. \E w \in 0..MaxChunk, chunk \in 1..MaxChunk : FailsAt(w, chunk) /\ Requeue(w, TRUE)
    BY <1>7 DEF SinkAnswers, Committed, Yielded, Collided, SinkFailed, DropFailed
  <2>2. RetriesLeft(queue') < RetriesLeft(queue) + RetriesLeft(inflight)
    BY <2>1, <1>6
  <2>3. queue' \in Seq(PendingRows)
    <3>1. LaneInv'
      BY SinkAnswersKeep
    <3> QED
      BY <3>1 DEF LaneInv, TelemetryTypeOK
  <2>4. RetriesLeft(queue') \in Nat
    BY <2>3, RetriesAre
  <2> QED
    BY <1>2, <1>4, <2>2, <2>4
<1> QED
  BY <1>5, <1>7

\* Once a stop was asked for, every answer of the sink uses up a retry or a row, so
\* that only so many are left.  A deferral to a checkpoint is not one of them.
THEOREM StopProgress == TelemetrySpec => StopProgresses
<1>1. LaneInv /\ [TelemetryNext]_telemetryVars =>
        [stopMode # "no" /\ SinkAnswers =>
           RetriesLeft(queue') + RetriesLeft(inflight') <
             RetriesLeft(queue) + RetriesLeft(inflight)]_telemetryVars
  BY AnswersProgress
<1> QED
  BY <1>1, LaneInvariant, PTL DEF TelemetrySpec, StopProgresses


-----------------------------------------------------------------------------
(* The lane, its controller and its window, as they run together *)

TelemetryInv == LaneInv /\ ControllerInv /\ WindowInv

LEMMA TelemetryStarts ==
  ASSUME MCInit PROVE TelemetryInv
<1>1. LaneInv
  BY LaneStarts DEF MCInit
<1>2. ControllerInv
  BY ControllerStarts DEF MCInit
<1>3. WindowInv
  BY WindowStarts DEF MCInit
<1> QED
  BY <1>1, <1>2, <1>3 DEF TelemetryInv

LEMMA TelemetryKeeps ==
  ASSUME TelemetryInv, [MCNext]_servicesVars PROVE TelemetryInv'
<1>1. LaneInv /\ ControllerInv /\ WindowInv
  BY DEF TelemetryInv
<1>2. [TelemetryNext]_telemetryVars
  BY DEF MCNext, servicesVars, OfGate, OfLane, OfController, OfWindow, OfCluster, OfProcess
<1>3. [ControllerNext]_controllerVars
  BY DEF MCNext, servicesVars, OfGate, OfLane, OfController, OfWindow, OfCluster, OfProcess
<1>4. [WindowNext]_windowVars
  BY DEF MCNext, servicesVars, OfGate, OfLane, OfController, OfWindow, OfCluster, OfProcess
<1>5. LaneInv'
  BY <1>1, <1>2, LaneStep
<1>6. ControllerInv'
  BY <1>1, <1>3, ControllerStep
<1>7. WindowInv'
  BY <1>1, <1>4, WindowStep
<1> QED
  BY <1>5, <1>6, <1>7 DEF TelemetryInv

\* The lane accounts for every row, its health is certified by windows its losses
\* do not reach into, and the window it is read from forgets no row, for every
\* capacity, retry budget, chunk and window size.
THEOREM TelemetrySoundness == MCSpec => []TelemetrySound
<1>1. MCInit => TelemetryInv
  BY TelemetryStarts
<1>2. TelemetryInv /\ [MCNext]_servicesVars => TelemetryInv'
  BY TelemetryKeeps
<1>3. TelemetryInv => TelemetrySound
  <2> SUFFICES ASSUME TelemetryInv PROVE TelemetrySound
    OBVIOUS
  <2>1. RowsAccounted /\ HealthCertified
    BY LaneInvImplies, ControllerInvImplies DEF TelemetryInv
  <2>2. WindowSound
    BY ResidualFollows, RingFollows DEF TelemetryInv, WindowInv, WindowSound
  <2> QED
    BY <2>1, <2>2 DEF TelemetrySound
<1> QED
  BY <1>1, <1>2, <1>3, PTL DEF MCSpec
=============================================================================
