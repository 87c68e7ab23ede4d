----------------------------- MODULE WriteLanes -----------------------------
(***************************************************************************)
(* The threads that share the write gate: callers of                       *)
(* V4PersistenceWriter.submit, the critical writer thread (_run), the      *)
(* telemetry aggregation thread inside                                     *)
(* V4TelemetryStoreSink.submit_telemetry_batch, and the maintenance worker *)
(* inside V4Store._background_write_gate.  The engine starts one writer,   *)
(* one telemetry thread and one maintenance worker.                        *)
(*                                                                         *)
(* Which queued command the writer takes next and what processing does to  *)
(* the database belong to PersistenceWriter; here a command is the caller  *)
(* that waits for it, and a telemetry batch is its number of rows.         *)
(***************************************************************************)
EXTENDS WriteGate, FiniteSets

CONSTANTS
  Callers,    \* threads that submit critical commands
  BatchRows   \* rows of one telemetry batch

ASSUME CallersAssumption == IsFiniteSet(Callers)
ASSUME BatchRowsAssumption == BatchRows \in Nat \ {0}

VARIABLES
  callerPc,    \* where each caller's command is
  writerPc,    \* the writer thread
  current,     \* the caller whose command the writer holds, {} if none
  closing,     \* the scheduler refuses new commands
  telemetryPc, \* the telemetry thread
  rowsLeft,    \* rows of the open batch still to be written
  rowsBehind,  \* telemetry rows written since each caller registered, up to 2
  maintenancePc

laneVars == <<callerPc, writerPc, current, closing, telemetryPc, rowsLeft,
              rowsBehind, maintenancePc>>
vars == <<gateVars, laneVars>>

CallerStates == {"idle", "registered", "queued", "taken"}
WriterStates == {"get", "acquire", "process", "resolved", "failing", "dead"}
TelemetryStates == {"idle", "check", "row", "commit", "release"}
MaintenanceStates == {"idle", "waiting", "active"}

Init ==
  /\ GateInit
  /\ callerPc = [c \in Callers |-> "idle"]
  /\ writerPc = "get"
  /\ current = {}
  /\ closing = FALSE
  /\ telemetryPc = "idle"
  /\ rowsLeft = 0
  /\ rowsBehind = [c \in Callers |-> 0]
  /\ maintenancePc = "idle"

-----------------------------------------------------------------------------
(* submit: register with the gate, then enter the bounded scheduler *)

MoveCaller(c, from, to) ==
  /\ callerPc[c] = from
  /\ callerPc' = [callerPc EXCEPT ![c] = to]

Register(c) ==
  /\ MoveCaller(c, "idle", "registered")
  /\ RegisterCritical
  /\ rowsBehind' = [rowsBehind EXCEPT ![c] = 0]
  /\ UNCHANGED <<writerPc, current, closing, telemetryPc, rowsLeft,
                 maintenancePc>>

Put(c) ==
  /\ ~closing
  /\ MoveCaller(c, "registered", "queued")
  /\ UNCHANGED <<gateVars, writerPc, current, closing, telemetryPc, rowsLeft,
                 rowsBehind, maintenancePc>>

\* queue full, or the writer is closing: the registration is taken back
PutRefused(c) ==
  /\ MoveCaller(c, "registered", "idle")
  /\ CancelCritical
  /\ UNCHANGED <<writerPc, current, closing, telemetryPc, rowsLeft,
                 rowsBehind, maintenancePc>>

-----------------------------------------------------------------------------
(* _run: one command at a time through the gate *)

Take(c) ==
  /\ writerPc = "get"
  /\ MoveCaller(c, "queued", "taken")
  /\ current' = {c}
  /\ writerPc' = "acquire"
  /\ UNCHANGED <<gateVars, closing, telemetryPc, rowsLeft, rowsBehind,
                 maintenancePc>>

Acquire ==
  /\ writerPc = "acquire"
  /\ AcquireCritical
  /\ writerPc' = "process"
  /\ UNCHANGED <<callerPc, current, closing, telemetryPc, rowsLeft,
                 rowsBehind, maintenancePc>>

\* the caller's future resolves inside _process, before the gate is released
Resolve(c) ==
  /\ writerPc = "process"
  /\ c \in current
  /\ MoveCaller(c, "taken", "idle")
  /\ current' = {}
  /\ writerPc' = "resolved"
  /\ UNCHANGED <<gateVars, closing, telemetryPc, rowsLeft, rowsBehind,
                 maintenancePc>>

Release ==
  /\ writerPc = "resolved"
  /\ ReleaseCritical
  /\ writerPc' = "get"
  /\ UNCHANGED <<callerPc, current, closing, telemetryPc, rowsLeft,
                 rowsBehind, maintenancePc>>

\* an exception leaves the loop between two commands (the periodic worker
\* sample writes to the same database): fail_all resolves what is queued
FailAll ==
  /\ writerPc = "get"
  /\ writerPc' = "failing"
  /\ closing' = TRUE
  /\ callerPc' = [c \in Callers |->
                    IF callerPc[c] = "queued" THEN "idle" ELSE callerPc[c]]
  /\ UNCHANGED <<gateVars, current, telemetryPc, rowsLeft, rowsBehind,
                 maintenancePc>>

ResetGate ==
  /\ writerPc = "failing"
  /\ ResetCritical
  /\ writerPc' = "dead"
  /\ UNCHANGED <<callerPc, current, closing, telemetryPc, rowsLeft,
                 rowsBehind, maintenancePc>>

-----------------------------------------------------------------------------
(* submit_telemetry_batch: admitted or refused at once, then cooperative *)

Admit ==
  /\ telemetryPc = "idle"
  /\ AdmitTelemetry
  /\ telemetryPc' = "check"
  /\ rowsLeft' = BatchRows
  /\ UNCHANGED <<callerPc, writerPc, current, closing, rowsBehind,
                 maintenancePc>>

\* Seeded fault: the check honours the row count only.
CheckRowsOnly ==
  /\ telemetryPc = "check"
  /\ telemetryPc' = IF rowsLeft > 0 THEN "row" ELSE "commit"
  /\ UNCHANGED <<gateVars, callerPc, writerPc, current, closing, rowsLeft,
                 rowsBehind, maintenancePc>>

\* cooperative_check before the transaction, between rows and after the last
\* one; the branch it takes is fixed before the lock is given up
Check ==
  /\ telemetryPc = "check"
  /\ telemetryPc' = IF CriticalWork THEN "release"
                    ELSE IF rowsLeft > 0 THEN "row" ELSE "commit"
  /\ UNCHANGED <<gateVars, callerPc, writerPc, current, closing, rowsLeft,
                 rowsBehind, maintenancePc>>

WriteRow ==
  /\ telemetryPc = "row"
  /\ telemetryPc' = "check"
  /\ rowsLeft' = rowsLeft - 1
  /\ rowsBehind' = [c \in Callers |->
                      IF callerPc[c] = "idle" THEN 0
                      ELSE IF rowsBehind[c] = 0 THEN 1 ELSE 2]
  /\ UNCHANGED <<gateVars, callerPc, writerPc, current, closing,
                 maintenancePc>>

\* a deadline, lock contention or a store error ends the transaction early
Abort ==
  /\ telemetryPc \in {"check", "row", "commit"}
  /\ telemetryPc' = "release"
  /\ UNCHANGED <<gateVars, callerPc, writerPc, current, closing, rowsLeft,
                 rowsBehind, maintenancePc>>

Commit ==
  /\ telemetryPc = "commit"
  /\ telemetryPc' = "release"
  /\ UNCHANGED <<gateVars, callerPc, writerPc, current, closing, rowsLeft,
                 rowsBehind, maintenancePc>>

EndBatch ==
  /\ telemetryPc = "release"
  /\ ReleaseTelemetry
  /\ telemetryPc' = "idle"
  /\ UNCHANGED <<callerPc, writerPc, current, closing, rowsLeft, rowsBehind,
                 maintenancePc>>

-----------------------------------------------------------------------------
(* the maintenance worker's write transactions *)

MoveMaintenance(from, to) ==
  /\ maintenancePc = from
  /\ maintenancePc' = to
  /\ UNCHANGED <<callerPc, writerPc, current, closing, telemetryPc, rowsLeft,
                 rowsBehind>>

MaintenanceGrant == MoveMaintenance("idle", "active") /\ GrantMaintenance
MaintenanceAwait == MoveMaintenance("idle", "waiting") /\ AwaitTelemetry
MaintenanceAdmit == MoveMaintenance("waiting", "active") /\ AdmitMaintenance
MaintenanceAbandon == MoveMaintenance("waiting", "idle") /\ AbandonMaintenance
MaintenanceRelease == MoveMaintenance("active", "idle") /\ ReleaseMaintenance

-----------------------------------------------------------------------------
CallerNext == \E c \in Callers : Register(c) \/ Put(c) \/ PutRefused(c)
WriterStep ==
  \/ \E c \in Callers : Take(c) \/ Resolve(c)
  \/ Acquire \/ Release
WriterFailure == FailAll \/ ResetGate
TelemetryStep == Check \/ WriteRow \/ Abort \/ Commit \/ EndBatch
MaintenanceNext ==
  \/ MaintenanceGrant \/ MaintenanceAwait \/ MaintenanceAdmit
  \/ MaintenanceAbandon \/ MaintenanceRelease

Next == CallerNext \/ WriterStep \/ WriterFailure \/ Admit \/ TelemetryStep
          \/ MaintenanceNext

Spec == Init /\ [][Next]_vars

\* The writer thread runs, and an admitted batch runs to its end: it never
\* blocks, its budget is bounded and its finally clause releases the gate.
\* Nothing is assumed of maintenance, whose checkpoint may take seconds.
Fairness == WF_vars(WriterStep) /\ WF_vars(TelemetryStep)
FairSpec == Spec /\ Fairness

-----------------------------------------------------------------------------
TypeOK ==
  /\ GateTypeOK
  /\ callerPc \in [Callers -> CallerStates]
  /\ writerPc \in WriterStates
  /\ current \in SUBSET Callers
  /\ closing \in BOOLEAN
  /\ telemetryPc \in TelemetryStates
  /\ rowsLeft \in 0..BatchRows
  /\ rowsBehind \in [Callers -> 0..2]
  /\ maintenancePc \in MaintenanceStates

\* The telemetry sink's write transaction never overlaps the critical
\* writer's or a maintenance pass: they are separate SQLite connections, and
\* the gate is all that keeps them from contending for the write lock.
TelemetryExclusive ==
  telemetryPc # "idle" =>
    /\ writerPc \notin {"process", "resolved"}
    /\ maintenancePc # "active"

\* The commands that hold a registration: those between register_critical
\* and release_critical, wherever they are.
Registered == {c \in Callers : callerPc[c] # "idle"}

\* The counter every lower lane consults is exact while the writer lives:
\* no interleaving of submissions, refusals, early resolution and release
\* loses or leaks a registration (the max(0, ...) clamp never bites).
PendingExact ==
  writerPc \notin {"failing", "dead"} =>
    criticalPending = Cardinality(Registered)
                        + (IF writerPc = "resolved" THEN 1 ELSE 0)

\* A waiting maintenance caller shuts telemetry out; the count of waiters is
\* that of the callers in the loop, so an abandoned wait cannot keep it out.
WaitingExact ==
  maintenanceWaiting = (IF maintenancePc = "waiting" THEN 1 ELSE 0)

\* The gate tells the truth about who is in it: its transactions exclude one
\* another, and its two counters are exactly the threads they count.
GateSound == TelemetryExclusive /\ PendingExact /\ WaitingExact

\* A registered command waits behind at most one telemetry row: the row whose
\* cooperative check had passed before it registered.
TelemetryYields ==
  writerPc \notin {"failing", "dead"} =>
    \A c \in Registered : rowsBehind[c] <= 1

\* No telemetry batch is admitted between a command's registration and its
\* release, so telemetry cannot keep overtaking it.
NoOvertaking ==
  [][telemetryPc = "idle" /\ telemetryPc' # "idle" /\ ~closing
       => Registered = {}]_vars

\* A command the writer holds gets through the gate even if a maintenance
\* pass never ends and telemetry offers batch after batch.
CriticalNotStarved == writerPc = "acquire" ~> writerPc = "process"

=============================================================================
