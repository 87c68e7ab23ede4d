--------------------------- MODULE MaintenancePass ---------------------------
(***************************************************************************)
(* One pass of the maintenance worker: run_bounded_maintenance_pass and    *)
(* perform_checkpoint (src/lite_frequency_v4/maintenance.py) over          *)
(* V4Store.checkpoint and the bounded retention steps (store.py), while    *)
(* critical commands come and go at the write gate.  MaintenancePlanner    *)
(* has the decision the pass starts from and what the engine makes of its  *)
(* result; here a pass starts from any decision the planner may take.      *)
(***************************************************************************)
EXTENDS Integers, FiniteSetsExt

CONSTANTS
  RowBudget,   \* retention_row_budget
  ChunkRows,   \* retention_chunk_rows
  MaxEligible  \* bound on the rows retention may remove

\* What the policy insists on when it is built
ValidPolicy ==
  {RowBudget, ChunkRows} \subseteq Nat \ {0} /\ ChunkRows <= RowBudget

ASSUME PassAssumption == ValidPolicy /\ MaxEligible \in Nat

VARIABLES
  at,          \* where the worker stands in the pass
  decided,     \* the snapshot's decision, its gate and its readers
  checkpoint,  \* the CheckpointResult: status, and whether it says it is recorded
  used,        \* budget_units the pass has counted
  report,      \* MaintenancePassResult of the last pass
  criticalWaits, \* a critical command is registered with the write gate
  eligible,    \* rows retention may remove or compact
  executed,    \* this pass's checkpoint reached SQLite: history
  runRows,     \* rows it left in checkpoint_runs: history
  removed      \* rows removed by this pass: history

checkpointVars == <<checkpoint, executed, runRows>>
passVars == <<at, decided, used, report, checkpointVars, criticalWaits, eligible, removed>>

NoCheckpoint == [status |-> "none", recorded |-> FALSE]
Pending == [status |-> "RUNNING", reason |-> "", rows |-> 0]

\* The decisions of decide_checkpoint: behind a closed gate only the pressure
\* of the log is served, and a reclaim needs its readers gone.
Decisions ==
  {d \in [mode : {"none", "PASSIVE", "RESTART", "TRUNCATE"}, gated : BOOLEAN, readers : BOOLEAN] :
     d.mode = "RESTART" => ~d.gated /\ ~d.readers}

PassInit ==
  /\ at = "idle" /\ decided \in Decisions /\ checkpoint = NoCheckpoint
  /\ used = 0 /\ report = Pending /\ criticalWaits = FALSE /\ eligible = 0
  /\ executed = FALSE /\ runRows = 0 /\ removed = 0

Goto(label) == at' = label
Finish(status, reason) ==
  /\ at' = "idle"
  /\ report' = [status |-> status, reason |-> reason, rows |-> used]

-----------------------------------------------------------------------------
(* The environment: critical commands, and rows that grow old *)

CriticalToggles ==
  /\ criticalWaits' = ~criticalWaits
  /\ UNCHANGED <<at, decided, used, report, checkpointVars, eligible, removed>>

RowsAge ==
  /\ eligible < MaxEligible /\ eligible' = eligible + 1
  /\ UNCHANGED <<at, decided, used, report, checkpointVars, criticalWaits, removed>>

-----------------------------------------------------------------------------
(* The checkpoint *)

StartPass ==
  /\ at = "idle"
  /\ \E d \in Decisions :
       /\ decided' = d
       /\ Goto(IF d.mode = "none" THEN "gate" ELSE "checkpoint")
  /\ used' = 0 /\ report' = Pending /\ checkpoint' = NoCheckpoint
  /\ executed' = FALSE /\ runRows' = 0 /\ removed' = 0
  /\ UNCHANGED <<criticalWaits, eligible>>

\* _background_write_gate refuses it.  A PASSIVE checkpoint yields at once, a
\* reclaim tries again until its deadline; neither is recorded.
CheckpointDeferred ==
  /\ at = "checkpoint" /\ criticalWaits
  /\ checkpoint' = [status |-> "SKIPPED", recorded |-> FALSE]
  /\ Goto("gate")
  /\ UNCHANGED <<decided, used, report, executed, runRows, criticalWaits, eligible, removed>>

\* What SQLite answers: whether it was busy, and whether frames are left.  A
\* pragma that raises is answered without numbers.
Answers == {"complete", "busy", "partial", "raised"}

\* perform_checkpoint's reading of the answer
StatusOf(answer) ==
  CASE answer = "complete" -> "SUCCESS" [] answer = "busy" -> "BUSY"
    [] answer = "partial" -> "PARTIAL"  [] answer = "raised" -> "FAILED"

\* V4Store.checkpoint: the pragma, and a row of checkpoint_runs in a transaction
\* of its own.  If that fails, or the answer cannot be read, the result is FAILED
\* and _record_checkpoint_result inserts a row itself, unless that fails too or
\* the gate refuses it by then.
Checkpoint ==
  /\ at = "checkpoint" /\ ~criticalWaits
  /\ executed' = TRUE
  /\ \E answer \in Answers, journaled \in BOOLEAN :
       /\ runRows' = IF journaled THEN 1 ELSE 0
       /\ IF journaled /\ answer # "raised"
          THEN /\ checkpoint' = [status |-> StatusOf(answer), recorded |-> TRUE]
               /\ IF answer = "complete" THEN Goto("gate") /\ UNCHANGED report
                  ELSE Finish("PARTIAL", "checkpoint")
          ELSE /\ checkpoint' = [status |-> "FAILED", recorded |-> FALSE]
               /\ Goto("record") /\ UNCHANGED report
  /\ UNCHANGED <<decided, used, criticalWaits, eligible, removed>>

RecordFailure ==
  /\ at = "record"
  /\ \/ /\ ~criticalWaits
        /\ runRows' = runRows + 1
        /\ checkpoint' = [checkpoint EXCEPT !.recorded = TRUE]
     \/ UNCHANGED <<runRows, checkpoint>>
  /\ Finish("PARTIAL", "checkpoint")
  /\ UNCHANGED <<decided, used, executed, criticalWaits, eligible, removed>>

-----------------------------------------------------------------------------
(* Retention *)

\* Seeded fault: the emergency checkpoint opens the gate for retention too.
PassGateAfterCheckpoint ==
  /\ at = "gate"
  /\ IF decided.gated /\ ~executed
     THEN Finish("SKIPPED", "gate")
     ELSE IF decided.readers THEN Finish("SKIPPED", "readers")
     ELSE Goto("retention") /\ UNCHANGED report
  /\ UNCHANGED <<decided, used, checkpointVars, criticalWaits, eligible, removed>>

\* maintenance_gate again, and the readers of the snapshot
PassGate ==
  /\ at = "gate"
  /\ IF decided.gated
     THEN Finish(IF checkpoint.status = "none" THEN "SKIPPED" ELSE "PARTIAL", "gate")
     ELSE IF decided.readers THEN Finish("SKIPPED", "readers")
     ELSE Goto("retention") /\ UNCHANGED report
  /\ UNCHANGED <<decided, used, checkpointVars, criticalWaits, eligible, removed>>

Requested == Min({ChunkRows, RowBudget - used})

\* One store step, one transaction: the rows it consumed count against the
\* budget.  A step that finds nothing, or has no time left, is the last.
RetentionStep ==
  /\ at = "retention" /\ used < RowBudget /\ ~criticalWaits
  /\ \E consumed \in 0..Min({Requested, eligible}), late \in BOOLEAN :
       /\ eligible' = eligible - consumed /\ removed' = removed + consumed
       /\ used' = used + consumed
       /\ Goto(IF consumed = 0 \/ late THEN IF late THEN "timeUp" ELSE "done" ELSE "retention")
  /\ UNCHANGED <<decided, report, checkpointVars, criticalWaits>>

\* The write gate refuses the next step
RetentionDeferred ==
  /\ at = "retention" /\ used < RowBudget /\ criticalWaits
  /\ Finish("SKIPPED", "critical_write_pending")
  /\ UNCHANGED <<decided, used, checkpointVars, criticalWaits, eligible, removed>>

\* A step raises, and its transaction is rolled back
RetentionFails ==
  /\ at = "retention" /\ used < RowBudget /\ ~criticalWaits
  /\ Finish("FAILED", "retention_failed")
  /\ UNCHANGED <<decided, used, checkpointVars, criticalWaits, eligible, removed>>

\* The loop is over: nothing was left, or a budget is used up
RetentionEnds ==
  /\ \/ at \in {"done", "timeUp"}
     \/ at = "retention"   \* the budget of rows, or the deadline, is reached
  /\ LET late == at = "timeUp" \/ (at = "retention" /\ used < RowBudget)
     IN  IF used >= RowBudget THEN Finish("PARTIAL", "row_budget_exhausted")
         ELSE IF late THEN Finish("PARTIAL", "time_budget_exhausted")
         ELSE Finish("COMPLETE", "bounded_pass_complete")
  /\ UNCHANGED <<decided, used, checkpointVars, criticalWaits, eligible, removed>>

PassNext ==
  \/ CriticalToggles \/ RowsAge
  \/ StartPass \/ CheckpointDeferred \/ Checkpoint \/ RecordFailure
  \/ PassGate \/ RetentionStep \/ RetentionDeferred \/ RetentionFails \/ RetentionEnds

PassSpec == PassInit /\ [][PassNext]_passVars

-----------------------------------------------------------------------------
(* Properties *)

PassTypeOK ==
  /\ at \in {"idle", "checkpoint", "record", "gate", "retention", "done", "timeUp"}
  /\ decided \in Decisions
  /\ used \in 0..RowBudget /\ removed \in 0..RowBudget /\ eligible \in 0..MaxEligible
  /\ runRows \in 0..2 /\ executed \in BOOLEAN /\ criticalWaits \in BOOLEAN

\* "A busy/partial checkpoint or known long reader prevents retention writes in
\* the same pass", and an emergency checkpoint does not open the gate for them.
RetentionGuarded ==
  removed > 0 => /\ ~decided.gated /\ ~decided.readers
                 /\ checkpoint.status \in {"none", "SKIPPED", "SUCCESS"}

\* Whatever cuts the pass short, it reports the rows it removed, and no more
\* than the budget; and it claims completion only below the budget.
ReportExact ==
  at = "idle" /\ report.status # "RUNNING" =>
    /\ report.rows = removed
    /\ report.status = "COMPLETE" => removed < RowBudget

\* A checkpoint that ran is in the journal when the pass says so, and one that
\* did not run leaves no row.
JournalTold ==
  /\ checkpoint.recorded => runRows > 0
  /\ ~executed => runRows = 0 /\ checkpoint.status \in {"none", "SKIPPED"}

\* A pass does what its checkpoint and gate allow, and tells what it did.
PassSound == PassTypeOK /\ RetentionGuarded /\ ReportExact /\ JournalTold

\* Claimed by V4Store.checkpoint ("Run and journal one explicit WAL checkpoint"):
\* a checkpoint whose pragma raises is journaled twice.
JournaledOnce == runRows <= 1
=============================================================================
