----------------------------- MODULE WriteGate -----------------------------
(***************************************************************************)
(* The monitor _CriticalFirstWriteGate of lite_frequency_v4/persistence.py *)
(* that arbitrates the separate SQLite writers of one process: the         *)
(* critical writer thread, the telemetry sink and the maintenance worker.  *)
(*                                                                         *)
(* Every method runs under one condition variable, so each is one atomic   *)
(* operation here.  A wait loop is an operation that is enabled only when  *)
(* the loop's condition is false: every operation that can falsify it ends *)
(* with notify_all.  The skip and deferral counters are observations no    *)
(* decision reads and are left out.                                        *)
(***************************************************************************)
EXTENDS Integers

VARIABLES
  criticalPending,     \* registered critical commands not yet released
  criticalActive,      \* the writer thread is inside the gate
  telemetryActive,     \* the telemetry sink owns a write transaction
  maintenanceWaiting,  \* maintenance callers blocked on telemetry
  maintenanceActive    \* a maintenance pass owns the gate

gateVars == <<criticalPending, criticalActive, telemetryActive,
              maintenanceWaiting, maintenanceActive>>

GateInit ==
  /\ criticalPending = 0
  /\ criticalActive = FALSE
  /\ telemetryActive = FALSE
  /\ maintenanceWaiting = 0
  /\ maintenanceActive = FALSE

GateTypeOK ==
  /\ criticalPending \in Nat
  /\ criticalActive \in BOOLEAN
  /\ telemetryActive \in BOOLEAN
  /\ maintenanceWaiting \in Nat
  /\ maintenanceActive \in BOOLEAN

\* max(0, n - 1): the counters are clamped, never negative
DecToZero(n) == IF n > 0 THEN n - 1 ELSE 0

\* critical_pending(): what a cooperative telemetry check reads
CriticalWork == criticalPending > 0 \/ criticalActive

-----------------------------------------------------------------------------
(* Critical lane *)

RegisterCritical ==
  /\ criticalPending' = criticalPending + 1
  /\ UNCHANGED <<criticalActive, telemetryActive, maintenanceWaiting,
                 maintenanceActive>>

\* Seeded fault: a refused submission keeps its registration.
CancelForgotten == UNCHANGED gateVars

CancelCritical ==
  /\ criticalPending' = DecToZero(criticalPending)
  /\ UNCHANGED <<criticalActive, telemetryActive, maintenanceWaiting,
                 maintenanceActive>>

\* Seeded fault: the critical lane queues behind a maintenance pass.
AcquireBehindMaintenance ==
  /\ ~criticalActive
  /\ ~telemetryActive
  /\ ~maintenanceActive
  /\ criticalActive' = TRUE
  /\ UNCHANGED <<criticalPending, telemetryActive, maintenanceWaiting,
                 maintenanceActive>>

\* waits for telemetry, and deliberately not for maintenance
AcquireCritical ==
  /\ ~criticalActive
  /\ ~telemetryActive
  /\ criticalActive' = TRUE
  /\ UNCHANGED <<criticalPending, telemetryActive, maintenanceWaiting,
                 maintenanceActive>>

ReleaseCritical ==
  /\ criticalActive
  /\ criticalActive' = FALSE
  /\ criticalPending' = DecToZero(criticalPending)
  /\ UNCHANGED <<telemetryActive, maintenanceWaiting, maintenanceActive>>

\* the writer thread dies: its accounting is dropped
ResetCritical ==
  /\ criticalPending' = 0
  /\ criticalActive' = FALSE
  /\ UNCHANGED <<telemetryActive, maintenanceWaiting, maintenanceActive>>

-----------------------------------------------------------------------------
(* Telemetry lane: one non-blocking admission, never a wait *)

\* Seeded fault: admission looks at the active lanes only.
RefusedIfActive == criticalActive \/ telemetryActive \/ maintenanceActive

TelemetryRefused ==
  \/ CriticalWork
  \/ telemetryActive
  \/ maintenanceWaiting > 0
  \/ maintenanceActive

AdmitTelemetry ==
  /\ ~TelemetryRefused
  /\ telemetryActive' = TRUE
  /\ UNCHANGED <<criticalPending, criticalActive, maintenanceWaiting,
                 maintenanceActive>>

ReleaseTelemetry ==
  /\ telemetryActive
  /\ telemetryActive' = FALSE
  /\ UNCHANGED <<criticalPending, criticalActive, maintenanceWaiting,
                 maintenanceActive>>

-----------------------------------------------------------------------------
(* Maintenance lane: acquire_maintenance is a refusal on entry or a wait   *)
(* that ends in admission, in an abort, or at the 250 ms deadline          *)

MaintenanceRefused == CriticalWork \/ maintenanceActive

\* telemetry is not in the way: the gate is granted without a wait
GrantMaintenance ==
  /\ ~MaintenanceRefused
  /\ ~telemetryActive
  /\ maintenanceActive' = TRUE
  /\ UNCHANGED <<criticalPending, criticalActive, telemetryActive,
                 maintenanceWaiting>>

\* telemetry holds the gate: the call enters its wait loop
AwaitTelemetry ==
  /\ ~MaintenanceRefused
  /\ telemetryActive
  /\ maintenanceWaiting' = maintenanceWaiting + 1
  /\ UNCHANGED <<criticalPending, criticalActive, telemetryActive,
                 maintenanceActive>>

\* the wait loop ends with telemetry gone and no critical work
AdmitMaintenance ==
  /\ ~telemetryActive
  /\ ~CriticalWork
  /\ maintenanceActive' = TRUE
  /\ maintenanceWaiting' = DecToZero(maintenanceWaiting)
  /\ UNCHANGED <<criticalPending, criticalActive, telemetryActive>>

\* critical work arrived, or the deadline passed while telemetry held on
AbandonMaintenance ==
  /\ CriticalWork \/ telemetryActive
  /\ maintenanceWaiting' = DecToZero(maintenanceWaiting)
  /\ UNCHANGED <<criticalPending, criticalActive, telemetryActive,
                 maintenanceActive>>

ReleaseMaintenance ==
  /\ maintenanceActive
  /\ maintenanceActive' = FALSE
  /\ UNCHANGED <<criticalPending, criticalActive, telemetryActive,
                 maintenanceWaiting>>

=============================================================================
