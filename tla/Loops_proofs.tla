--------------------------- MODULE Loops_proofs ---------------------------
(***************************************************************************)
(* Machine-checked safety of the loops of the two bots, for any number of  *)
(* jobs, models, windows, trades and tokens and any bounds:                *)
(*   - the maintenance planner, the pass of its worker, and the models the *)
(*     maintenance loop takes out on the evidence of a breach;             *)
(*   - the dedicated worker: a job is run once, in order, or given back;   *)
(*   - the loop of the Lite lane: locks and trades, caps, due trades;      *)
(*   - these loops side by side, each with the others standing still;      *)
(*   - the legacy program: its trade loop, sweeps, timers and restarts.    *)
(* Each part has its own inductive invariant, and a lemma for each action. *)
(***************************************************************************)
EXTENDS MCWorkers, LegacyTrader, SequenceTheorems, FiniteSetTheorems, TLAPS

LEMMA MinOfTwo ==
  ASSUME NEW x \in Int, NEW y \in Int
  PROVE  Min({x, y}) = IF x <= y THEN x ELSE y
<1> DEFINE l == IF x <= y THEN x ELSE y
<1>1. l \in {x, y} /\ \A z \in {x, y} : l <= z
  OBVIOUS
<1>2. \A k \in {x, y} : (\A z \in {x, y} : k <= z) => k = l
  OBVIOUS
<1> HIDE DEF l
<1>3. Min({x, y}) = l
  BY <1>1, <1>2 DEF Min
<1> QED
  BY <1>3 DEF l

-----------------------------------------------------------------------------
(* The planner *)

Modes == {"none", "PASSIVE", "RESTART", "TRUNCATE"}

PassShape ==
  \/ pass = NoPass
  \/ pass \in [at : {"submitted"}, mode : Modes]
  \/ pass \in [at : {"done"}, mode : Modes, ran : BOOLEAN, after : 0..3,
               reclaimed : BOOLEAN, age : 0..MinInterval]

Clocks ==
  /\ sinceAttempt \in -1..MinInterval /\ sinceEscalation \in -1..MinInterval
  /\ sinceReclaim \in 0..MinInterval
  /\ walCache \in 0..3 /\ noProgress \in 0..Threshold
  /\ favourable \in BOOLEAN /\ lapses \in {0, 1} /\ setbacks \in 0..MaxSetbacks

\* As long as every result was applied and the clock ran on, a reclaim is at
\* least as old as the last recorded attempt and escalation; the result that is
\* still to be applied carries its age.
ReclaimRecorded ==
  lapses = 0 =>
    /\ ~(pass.at = "done" /\ pass.mode \in Reclaiming) =>
         sinceAttempt <= sinceReclaim /\ sinceEscalation <= sinceReclaim
    /\ pass.at = "done" => pass.age <= sinceReclaim

PlannerInv == PassShape /\ Clocks /\ ReclaimRecorded /\ ReclaimsApart

LEMMA MaintenanceBounds ==
  MinInterval \in Nat /\ MinInterval > 0 /\ Threshold \in Nat /\ Threshold > 0 /\ MaxSetbacks \in Nat
BY MaintenanceAssumption

LEMMA PlannerStarts == MaintenanceInit => PlannerInv
<1> SUFFICES ASSUME MaintenanceInit PROVE PlannerInv
  OBVIOUS
<1> USE DEF MaintenanceInit, NoPass
<1>1. PassShape
  BY DEF PassShape
<1>a. /\ sinceAttempt \in -1..MinInterval /\ sinceEscalation \in -1..MinInterval
      /\ sinceReclaim \in 0..MinInterval
  BY MaintenanceBounds
<1>b. walCache \in 0..3 /\ noProgress \in 0..Threshold /\ setbacks \in 0..MaxSetbacks
  BY MaintenanceBounds
<1>2. Clocks
  BY <1>a, <1>b DEF Clocks
<1>3. ReclaimRecorded /\ ReclaimsApart
  BY MaintenanceBounds DEF ReclaimRecorded, ReclaimsApart
<1> QED
  BY <1>1, <1>2, <1>3 DEF PlannerInv

LEMMA ReclaimDecided ==
  ASSUME NEW s, DecideCheckpoint(s) \in Reclaiming, Clocks
  PROVE  sinceAttempt >= MinInterval \/ sinceEscalation >= MinInterval
BY MaintenanceBounds DEF DecideCheckpoint, Reclaiming, EscalationDue, Clocks

LEMMA PlannerStep == PlannerInv /\ [MaintenanceNext]_maintenanceVars => PlannerInv'
<1> SUFFICES ASSUME PlannerInv, [MaintenanceNext]_maintenanceVars PROVE PlannerInv'
  OBVIOUS
<1> USE DEF PlannerInv
<1>1. CASE BeginPass
  <2>1. PICK s \in Snapshots :
          /\ pass = NoPass
          /\ pass' = [at |-> "submitted", mode |-> DecideCheckpoint(s)]
          /\ favourable' = Favourable(s)
          /\ UNCHANGED <<walCache, noProgress, clocks>>
    BY <1>1 DEF BeginPass
  <2>2. DecideCheckpoint(s) \in Modes
    BY DEF DecideCheckpoint, Modes
  <2>3. favourable' \in BOOLEAN
    BY <2>1 DEF Favourable, Snapshots
  <2>4. PassShape'
    BY <2>1, <2>2 DEF PassShape
  <2>5. Clocks'
    BY <2>1, <2>3 DEF Clocks, clocks
  <2>6. pass.at = "idle" /\ pass'.at = "submitted" /\ pass'.mode = DecideCheckpoint(s)
    BY <2>1 DEF NoPass
  <2>7. ReclaimRecorded'
    BY <2>1, <2>6 DEF ReclaimRecorded, clocks
  <2>8. ReclaimsApart'
    <3> SUFFICES ASSUME DecideCheckpoint(s) \in Reclaiming, lapses = 0
                 PROVE  sinceReclaim >= MinInterval
      BY <2>1, <2>6 DEF ReclaimsApart, clocks
    <3>1. sinceAttempt >= MinInterval \/ sinceEscalation >= MinInterval
      BY ReclaimDecided
    <3>2. sinceAttempt <= sinceReclaim /\ sinceEscalation <= sinceReclaim
      BY <2>6 DEF ReclaimRecorded
    <3> QED
      BY <3>1, <3>2, MaintenanceBounds DEF Clocks
  <2> QED
    BY <2>4, <2>5, <2>7, <2>8
<1>2. CASE RunCheckpoint
  <2>1. pass.at = "submitted" /\ UNCHANGED <<walCache, noProgress, sinceAttempt, sinceEscalation, favourable, lapses, setbacks>>
    BY <1>2 DEF RunCheckpoint
  <2>2. PICK status \in {"SKIPPED", "BUSY", "FAILED", "SUCCESS"}, after \in 0..3, reclaimed \in BOOLEAN :
          pass' = [at |-> "done", mode |-> pass.mode, ran |-> status # "SKIPPED",
                   after |-> after, reclaimed |-> reclaimed, age |-> 0]
    BY <1>2 DEF RunCheckpoint
  <2>3. pass.mode \in Modes
    BY <2>1 DEF PassShape, NoPass
  <2>4. (status # "SKIPPED") \in BOOLEAN /\ 0 \in 0..MinInterval
    BY MaintenanceBounds
  <2>5. PassShape'
    BY <2>2, <2>3, <2>4 DEF PassShape
  <2>6. sinceReclaim' = IF pass.mode \in Reclaiming THEN 0 ELSE sinceReclaim
    BY <1>2 DEF RunCheckpoint
  <2>7. Clocks'
    BY <2>1, <2>6, MaintenanceBounds DEF Clocks
  <2>8. pass'.at = "done" /\ pass'.mode = pass.mode /\ pass'.age = 0
    BY <2>2
  <2>9. ReclaimRecorded' /\ ReclaimsApart'
    BY <2>1, <2>6, <2>7, <2>8, MaintenanceBounds DEF ReclaimRecorded, ReclaimsApart, Clocks
  <2> QED
    BY <2>5, <2>7, <2>9
<1>3. CASE PassWithoutCheckpoint
  <2>1. pass.at = "submitted" /\ pass' = NoPass /\ UNCHANGED <<walCache, noProgress, favourable, clocks>>
    BY <1>3 DEF PassWithoutCheckpoint
  <2>2. Clocks' /\ PassShape'
    BY <2>1 DEF Clocks, PassShape, clocks
  <2>3. ReclaimRecorded' /\ ReclaimsApart'
    BY <2>1 DEF ReclaimRecorded, ReclaimsApart, NoPass, clocks
  <2> QED
    BY <2>2, <2>3
<1>4. CASE ApplyResult
  <2>1. /\ pass.at = "done" /\ pass' = NoPass
        /\ walCache' = pass.after /\ sinceAttempt' = pass.age
        /\ sinceEscalation' = IF pass.mode \in Reclaiming THEN pass.age ELSE sinceEscalation
        /\ UNCHANGED <<favourable, sinceReclaim, lapses, setbacks>>
    BY <1>4 DEF ApplyResult
  <2>2. pass.after \in 0..3 /\ pass.age \in 0..MinInterval
    BY <2>1 DEF PassShape, NoPass
  <2>3. noProgress' \in {0, noProgress, Min({noProgress + 1, Threshold})}
    BY <1>4 DEF ApplyResult
  <2>4. noProgress' \in 0..Threshold
    BY <2>3, MinOfTwo, MaintenanceBounds DEF Clocks
  <2>5. Clocks'
    BY <2>1, <2>2, <2>4, MaintenanceBounds DEF Clocks
  <2>6. PassShape' /\ ReclaimsApart'
    BY <2>1 DEF PassShape, ReclaimsApart, NoPass
  <2>7. ReclaimRecorded'
    <3> SUFFICES ASSUME lapses = 0 PROVE sinceAttempt' <= sinceReclaim /\ sinceEscalation' <= sinceReclaim
      BY <2>1 DEF ReclaimRecorded, NoPass
    <3> QED
      BY <2>1 DEF ReclaimRecorded
  <2> QED
    BY <2>5, <2>6, <2>7
<1>5. CASE PassTimesOut
  <2>1. /\ pass' = NoPass /\ lapses' = 1
        /\ UNCHANGED <<walCache, noProgress, sinceAttempt, sinceEscalation, favourable, sinceReclaim, setbacks>>
    BY <1>5 DEF PassTimesOut
  <2> QED
    BY <2>1 DEF PassShape, Clocks, ReclaimRecorded, ReclaimsApart
<1>6. CASE MeasureWal
  <2>1. walCache' \in 0..3 /\ UNCHANGED <<noProgress, pass, favourable, clocks>>
    BY <1>6 DEF MeasureWal
  <2> QED
    BY <2>1 DEF PassShape, Clocks, ReclaimRecorded, ReclaimsApart, clocks
<1>7. CASE Tick
  <2> DEFINE L(n) == IF n + 1 <= MinInterval THEN n + 1 ELSE MinInterval
  <2>1. \A n \in -1..MinInterval : Later(n) = L(n)
    BY MinOfTwo, MaintenanceBounds DEF Later
  <2>2. /\ sinceAttempt' = L(sinceAttempt) /\ sinceEscalation' = L(sinceEscalation)
        /\ sinceReclaim' = L(sinceReclaim)
        /\ UNCHANGED <<walCache, noProgress, favourable, lapses, setbacks>>
    BY <1>7, <2>1, MaintenanceBounds DEF Tick, Clocks
  <2>3. Clocks'
    BY <2>2, MaintenanceBounds DEF Clocks
  <2>4. CASE pass.at # "done"
    <3>1. pass' = pass
      BY <1>7, <2>4 DEF Tick
    <3>2. PassShape'
      BY <3>1 DEF PassShape
    <3>3. ReclaimRecorded' /\ ReclaimsApart'
      BY <2>2, <2>4, <3>1, MaintenanceBounds DEF ReclaimRecorded, ReclaimsApart, Clocks
    <3> QED
      BY <2>3, <3>2, <3>3
  <2>5. CASE pass.at = "done"
    <3>1. pass \in [at : {"done"}, mode : Modes, ran : BOOLEAN, after : 0..3,
                    reclaimed : BOOLEAN, age : 0..MinInterval]
      BY <2>5 DEF PassShape, NoPass
    <3>2. pass' = [pass EXCEPT !.age = L(pass.age)]
      BY <1>7, <2>1, <2>5, <3>1, MaintenanceBounds DEF Tick
    <3>3. L(pass.age) \in 0..MinInterval
      BY <3>1, MaintenanceBounds
    <3>4. /\ pass' \in [at : {"done"}, mode : Modes, ran : BOOLEAN, after : 0..3,
                        reclaimed : BOOLEAN, age : 0..MinInterval]
          /\ pass'.mode = pass.mode /\ pass'.age = L(pass.age) /\ pass'.at = "done"
      BY <3>1, <3>2, <3>3
    <3>5. PassShape' /\ ReclaimsApart'
      BY <3>4 DEF PassShape, ReclaimsApart
    <3>6. ReclaimRecorded'
      BY <2>2, <2>5, <3>1, <3>4, MaintenanceBounds DEF ReclaimRecorded, Clocks
    <3> QED
      BY <2>3, <3>5, <3>6
  <2> QED
    BY <2>4, <2>5
<1>8. CASE ClockSetBack
  <2>1. /\ setbacks < MaxSetbacks /\ setbacks' = setbacks + 1 /\ lapses' = 1
        /\ sinceAttempt' = -1 /\ sinceEscalation' = -1
        /\ UNCHANGED <<walCache, noProgress, pass, favourable, sinceReclaim>>
    BY <1>8 DEF ClockSetBack
  <2>2. Clocks'
    BY <2>1, MaintenanceBounds DEF Clocks
  <2> QED
    BY <2>1, <2>2 DEF PassShape, ReclaimRecorded, ReclaimsApart
<1>9. CASE UNCHANGED maintenanceVars
  BY <1>9 DEF maintenanceVars, PassShape, Clocks, ReclaimRecorded, ReclaimsApart
<1> QED
  BY <1>1, <1>2, <1>3, <1>4, <1>5, <1>6, <1>7, <1>8, <1>9 DEF MaintenanceNext

LEMMA PlannerInvImplies == PlannerInv => PlannerSound
<1> SUFFICES ASSUME PlannerInv PROVE PlannerSound
  OBVIOUS
<1> USE DEF PlannerInv
<1>1. {sinceAttempt, sinceEscalation, sinceReclaim} \subseteq -1..MinInterval
  BY MaintenanceBounds DEF Clocks
<1>2. pass.at \in {"idle", "submitted", "done"}
  BY DEF PassShape, NoPass
<1> QED
  BY <1>1, <1>2 DEF PlannerSound, MaintenanceTypeOK, Clocks

\* Two reclaims of the log start no closer than the routine interval.
THEOREM PlannerSoundness == MaintenanceSpec => []PlannerSound
<1>1. MaintenanceInit => PlannerInv
  BY PlannerStarts
<1>2. PlannerInv /\ [MaintenanceNext]_maintenanceVars => PlannerInv'
  BY PlannerStep
<1>3. PlannerInv => PlannerSound
  BY PlannerInvImplies
<1> QED
  BY <1>1, <1>2, <1>3, PTL DEF MaintenanceSpec

-----------------------------------------------------------------------------
(* The pass of the maintenance worker *)

Undisturbed == ~decided.gated /\ ~decided.readers /\ checkpoint.status \in {"none", "SKIPPED", "SUCCESS"}

\* Where the worker stands tells what it has done.
PassPlace ==
  /\ used = removed
  /\ at = "checkpoint" => ~executed /\ runRows = 0 /\ removed = 0 /\ checkpoint = NoCheckpoint
  /\ at = "record" => removed = 0 /\ runRows <= 1 /\ checkpoint.status = "FAILED" /\ executed
  /\ at = "gate" => removed = 0 /\ checkpoint.status \in {"none", "SKIPPED", "SUCCESS"}
  /\ at \in {"retention", "done", "timeUp"} => Undisturbed

PassKinds ==
  /\ checkpoint \in [status : {"none", "SKIPPED", "SUCCESS", "BUSY", "PARTIAL", "FAILED"}, recorded : BOOLEAN]
  /\ report = [status |-> report.status, reason |-> report.reason, rows |-> report.rows]

PassInv == PassPlace /\ PassKinds /\ PassSound

LEMMA PassBounds ==
  /\ RowBudget \in Nat /\ ChunkRows \in Nat /\ RowBudget > 0 /\ ChunkRows > 0
  /\ ChunkRows <= RowBudget /\ MaxEligible \in Nat
BY PassAssumption DEF ValidPolicy

LEMMA PassStarts == PassInit => PassInv
<1> SUFFICES ASSUME PassInit PROVE PassInv
  OBVIOUS
<1> USE DEF PassInit, NoCheckpoint, Pending
<1>1. PassPlace /\ PassKinds
  BY DEF PassPlace, PassKinds
<1>z. /\ used = 0 /\ removed = 0 /\ eligible = 0 /\ runRows = 0
      /\ report.status = "RUNNING" /\ checkpoint = NoCheckpoint
  OBVIOUS
<1>a. used \in 0..RowBudget /\ removed \in 0..RowBudget /\ eligible \in 0..MaxEligible /\ runRows \in 0..2
  <2> HIDE DEF PassInit
  <2> QED
    BY <1>z, PassBounds
<1>2. PassTypeOK
  BY <1>a DEF PassTypeOK
<1>b. report.status = "RUNNING" /\ checkpoint.status = "none" /\ checkpoint.recorded = FALSE
  OBVIOUS
<1>3. RetentionGuarded /\ ReportExact /\ JournalTold
  <2> HIDE DEF PassInit
  <2> QED
    BY <1>z, <1>b DEF RetentionGuarded, ReportExact, JournalTold
<1> QED
  BY <1>1, <1>2, <1>3 DEF PassInv, PassSound

\* Of a step that ends the pass before retention wrote anything, or with nothing
\* left to say but what it removed
LEMMA FinishTells ==
  ASSUME NEW status \in {"SKIPPED", "PARTIAL", "COMPLETE", "FAILED"}, NEW reason,
         PassInv, Finish(status, reason), removed' = removed,
         status = "COMPLETE" => removed < RowBudget
  PROVE  /\ at' = "idle" /\ ReportExact' /\ report' = [status |-> report'.status, reason |-> report'.reason, rows |-> report'.rows]
<1>1. report' = [status |-> status, reason |-> reason, rows |-> used] /\ at' = "idle"
  BY DEF Finish
<1>2. report'.status = status /\ report'.rows = removed
  BY <1>1 DEF PassInv, PassPlace
<1>3. ReportExact'
  BY <1>2 DEF ReportExact
<1>4. report' = [status |-> report'.status, reason |-> report'.reason, rows |-> report'.rows]
  BY <1>1
<1> QED
  BY <1>1, <1>3, <1>4

LEMMA PassStep == PassInv /\ [PassNext]_passVars => PassInv'
<1> SUFFICES ASSUME PassInv, [PassNext]_passVars PROVE PassInv'
  OBVIOUS
<1> USE DEF PassInv, PassSound
<1>1. CASE CriticalToggles
  <2>1. criticalWaits' \in BOOLEAN
    BY <1>1 DEF CriticalToggles
  <2> QED
    BY <1>1, <2>1 DEF CriticalToggles, PassPlace, PassKinds, PassTypeOK, RetentionGuarded, ReportExact,
      JournalTold, Undisturbed, checkpointVars
<1>2. CASE RowsAge
  BY <1>2, PassBounds DEF RowsAge, PassPlace, PassKinds, PassTypeOK, RetentionGuarded, ReportExact,
     JournalTold, Undisturbed, checkpointVars
<1>3. CASE StartPass
  <2>1. /\ decided' \in Decisions /\ at' \in {"gate", "checkpoint"} /\ at' # "idle"
        /\ used' = 0 /\ report' = Pending /\ checkpoint' = NoCheckpoint
        /\ executed' = FALSE /\ runRows' = 0 /\ removed' = 0
        /\ UNCHANGED <<criticalWaits, eligible>>
    BY <1>3 DEF StartPass, Goto
  <2>2. PassPlace' /\ PassKinds'
    BY <2>1 DEF PassPlace, PassKinds, NoCheckpoint, Pending, Undisturbed
  <2>a. used' \in 0..RowBudget /\ removed' \in 0..RowBudget /\ runRows' \in 0..2
    BY <2>1, PassBounds
  <2>3. PassTypeOK'
    BY <2>1, <2>a DEF PassTypeOK
  <2>4. RetentionGuarded' /\ ReportExact' /\ JournalTold'
    BY <2>1 DEF RetentionGuarded, ReportExact, JournalTold, NoCheckpoint
  <2> QED
    BY <2>2, <2>3, <2>4
<1>4. CASE CheckpointDeferred
  <2>1. /\ at = "checkpoint" /\ at' = "gate" /\ checkpoint' = [status |-> "SKIPPED", recorded |-> FALSE]
        /\ UNCHANGED <<decided, used, report, executed, runRows, criticalWaits, eligible, removed>>
    BY <1>4 DEF CheckpointDeferred, Goto
  <2>2. checkpoint'.status = "SKIPPED" /\ checkpoint'.recorded = FALSE
    BY <2>1
  <2>3. PassPlace' /\ PassKinds'
    BY <2>1, <2>2 DEF PassPlace, PassKinds, Undisturbed
  <2>4. PassTypeOK'
    BY <2>1 DEF PassTypeOK
  <2>5. RetentionGuarded' /\ ReportExact' /\ JournalTold'
    BY <2>1, <2>2 DEF RetentionGuarded, ReportExact, JournalTold, PassPlace
  <2> QED
    BY <2>3, <2>4, <2>5
<1>5. CASE Checkpoint
  <2>1. /\ at = "checkpoint" /\ executed' = TRUE
        /\ UNCHANGED <<decided, used, criticalWaits, eligible, removed>>
        /\ removed = 0 /\ used = 0
    BY <1>5 DEF Checkpoint, PassPlace
  <2>2. PICK answer \in Answers, journaled \in BOOLEAN :
         /\ runRows' = IF journaled THEN 1 ELSE 0
         /\ IF journaled /\ answer # "raised"
            THEN /\ checkpoint' = [status |-> StatusOf(answer), recorded |-> TRUE]
                 /\ IF answer = "complete" THEN Goto("gate") /\ UNCHANGED report
                    ELSE Finish("PARTIAL", "checkpoint")
            ELSE /\ checkpoint' = [status |-> "FAILED", recorded |-> FALSE]
                 /\ Goto("record") /\ UNCHANGED report
    BY <1>5 DEF Checkpoint
  <2>3. runRows' \in {0, 1}
    BY <2>2
  <2>4. CASE journaled /\ answer = "complete"
    <3>1. /\ runRows' = 1 /\ at' = "gate" /\ report' = report
          /\ checkpoint' = [status |-> "SUCCESS", recorded |-> TRUE]
      BY <2>2, <2>4 DEF Goto, StatusOf
    <3>2. checkpoint'.status = "SUCCESS"
      BY <3>1
    <3>3. PassPlace' /\ PassKinds'
      BY <2>1, <3>1, <3>2 DEF PassPlace, PassKinds, Undisturbed
    <3>4. PassTypeOK'
      BY <2>1, <3>1 DEF PassTypeOK
    <3>5. RetentionGuarded' /\ ReportExact' /\ JournalTold'
      BY <2>1, <3>1 DEF RetentionGuarded, ReportExact, JournalTold
    <3> QED
      BY <3>3, <3>4, <3>5
  <2>5. CASE journaled /\ answer \in {"busy", "partial"}
    <3>1. /\ runRows' = 1 /\ Finish("PARTIAL", "checkpoint")
          /\ checkpoint' = [status |-> IF answer = "busy" THEN "BUSY" ELSE "PARTIAL", recorded |-> TRUE]
      BY <2>2, <2>5 DEF StatusOf
    <3>a. checkpoint' \in [status : {"BUSY", "PARTIAL"}, recorded : BOOLEAN] /\ checkpoint'.recorded = TRUE
      BY <3>1
    <3>2. at' = "idle" /\ ReportExact' /\ report' = [status |-> report'.status, reason |-> report'.reason, rows |-> report'.rows]
      BY <2>1, <3>1, FinishTells
    <3>3. PassPlace' /\ PassKinds'
      BY <2>1, <3>2, <3>a DEF PassPlace, PassKinds, Undisturbed
    <3>4. PassTypeOK'
      BY <2>1, <3>1, <3>2 DEF PassTypeOK
    <3>5. RetentionGuarded' /\ JournalTold'
      BY <2>1, <3>1 DEF RetentionGuarded, JournalTold
    <3> QED
      BY <3>2, <3>3, <3>4, <3>5
  <2>6. CASE ~(journaled /\ answer # "raised")
    <3>1. /\ at' = "record" /\ report' = report
          /\ checkpoint' = [status |-> "FAILED", recorded |-> FALSE]
      BY <2>2, <2>6 DEF Goto
    <3>2. checkpoint'.status = "FAILED" /\ checkpoint'.recorded = FALSE
      BY <3>1
    <3>3. PassPlace' /\ PassKinds'
      BY <2>1, <2>3, <3>1, <3>2 DEF PassPlace, PassKinds, Undisturbed
    <3>4. PassTypeOK'
      BY <2>1, <2>3, <3>1 DEF PassTypeOK
    <3>5. RetentionGuarded' /\ ReportExact' /\ JournalTold'
      BY <2>1, <3>1, <3>2 DEF RetentionGuarded, ReportExact, JournalTold
    <3> QED
      BY <3>3, <3>4, <3>5
  <2> QED
    BY <2>4, <2>5, <2>6 DEF Answers
<1>6. CASE RecordFailure
  <2>1. /\ at = "record" /\ Finish("PARTIAL", "checkpoint")
        /\ UNCHANGED <<decided, used, executed, criticalWaits, eligible, removed>>
        /\ removed = 0 /\ runRows \in {0, 1} /\ checkpoint.status = "FAILED" /\ executed
    BY <1>6 DEF RecordFailure, PassPlace, PassTypeOK
  <2>2. at' = "idle" /\ ReportExact' /\ report' = [status |-> report'.status, reason |-> report'.reason, rows |-> report'.rows]
    BY <2>1, FinishTells
  <2>3. \/ runRows' = runRows + 1 /\ checkpoint' = [checkpoint EXCEPT !.recorded = TRUE]
        \/ UNCHANGED <<runRows, checkpoint>>
    BY <1>6 DEF RecordFailure
  <2>a. runRows' \in 0..2
    BY <2>1, <2>3
  <2>b. /\ checkpoint' \in [status : {"none", "SKIPPED", "SUCCESS", "BUSY", "PARTIAL", "FAILED"}, recorded : BOOLEAN]
        /\ checkpoint'.status = checkpoint.status
    BY <2>3 DEF PassKinds
  <2>c. checkpoint'.recorded => runRows' > 0
    BY <2>1, <2>3 DEF JournalTold
  <2>4. runRows' \in 0..2 /\ PassKinds' /\ (checkpoint'.recorded => runRows' > 0)
    BY <2>2, <2>a, <2>b, <2>c DEF PassKinds
  <2>5. PassPlace'
    BY <2>1, <2>2 DEF PassPlace, Undisturbed
  <2>6. PassTypeOK'
    BY <2>1, <2>2, <2>4 DEF PassTypeOK
  <2>7. RetentionGuarded' /\ JournalTold'
    BY <2>1, <2>4 DEF RetentionGuarded, JournalTold
  <2> QED
    BY <2>2, <2>4, <2>5, <2>6, <2>7
<1>7. CASE PassGate
  <2>1. /\ at = "gate" /\ removed = 0 /\ checkpoint.status \in {"none", "SKIPPED", "SUCCESS"}
        /\ UNCHANGED <<decided, used, checkpointVars, criticalWaits, eligible, removed>>
    BY <1>7 DEF PassGate, PassPlace
  <2>2. CASE decided.gated \/ decided.readers
    <3>1. PICK status \in {"SKIPPED", "PARTIAL"}, reason \in {"gate", "readers"} : Finish(status, reason)
      BY <1>7, <2>2 DEF PassGate
    <3>2. at' = "idle" /\ ReportExact' /\ report' = [status |-> report'.status, reason |-> report'.reason, rows |-> report'.rows]
      BY <2>1, <3>1, FinishTells
    <3>3. PassPlace' /\ PassKinds' /\ PassTypeOK' /\ RetentionGuarded' /\ JournalTold'
      BY <2>1, <3>2 DEF PassPlace, PassKinds, PassTypeOK, RetentionGuarded, JournalTold, checkpointVars, Undisturbed
    <3> QED
      BY <3>2, <3>3
  <2>3. CASE ~(decided.gated \/ decided.readers)
    <3>1. at' = "retention" /\ report' = report
      BY <1>7, <2>3 DEF PassGate, Goto
    <3>2. PassPlace' /\ PassKinds' /\ PassTypeOK'
      BY <2>1, <2>3, <3>1 DEF PassPlace, PassKinds, PassTypeOK, checkpointVars, Undisturbed
    <3>3. RetentionGuarded' /\ JournalTold' /\ ReportExact'
      BY <2>1, <3>1 DEF RetentionGuarded, JournalTold, checkpointVars, ReportExact
    <3> QED
      BY <3>2, <3>3
  <2> QED
    BY <2>2, <2>3
<1>8. CASE RetentionStep
  <2>1. /\ at = "retention" /\ used < RowBudget /\ Undisturbed
        /\ UNCHANGED <<decided, report, checkpointVars, criticalWaits>>
    BY <1>8 DEF RetentionStep, PassPlace
  <2>2. PICK consumed \in 0..Min({Requested, eligible}) :
          /\ eligible' = eligible - consumed /\ removed' = removed + consumed
          /\ used' = used + consumed
          /\ at' \in {"timeUp", "done", "retention"}
    BY <1>8 DEF RetentionStep, Goto
  <2>3. used \in 0..RowBudget /\ removed = used /\ eligible \in 0..MaxEligible
    BY DEF PassTypeOK, PassPlace
  <2>4. Requested \in Nat /\ Requested <= RowBudget - used
    BY <2>3, MinOfTwo, PassBounds DEF Requested
  <2>5. consumed \in Nat /\ consumed <= RowBudget - used /\ consumed <= eligible
    BY <2>2, <2>3, <2>4, MinOfTwo, PassBounds
  <2>6. PassPlace' /\ PassKinds'
    BY <2>1, <2>2, <2>3 DEF PassPlace, PassKinds, Undisturbed, checkpointVars
  <2>7. PassTypeOK'
    BY <2>1, <2>2, <2>3, <2>5, PassBounds DEF PassTypeOK, checkpointVars
  <2>8. RetentionGuarded' /\ ReportExact' /\ JournalTold'
    BY <2>1, <2>2 DEF RetentionGuarded, ReportExact, JournalTold, Undisturbed, checkpointVars
  <2> QED
    BY <2>6, <2>7, <2>8
<1>9. CASE RetentionDeferred \/ RetentionFails \/ RetentionEnds
  <2>1. /\ at \in {"retention", "done", "timeUp"} /\ Undisturbed
        /\ UNCHANGED <<decided, used, checkpointVars, criticalWaits, eligible, removed>>
    BY <1>9 DEF RetentionDeferred, RetentionFails, RetentionEnds, PassPlace
  <2>2. PICK status \in {"SKIPPED", "PARTIAL", "COMPLETE", "FAILED"},
             reason \in {"critical_write_pending", "retention_failed", "row_budget_exhausted",
                         "time_budget_exhausted", "bounded_pass_complete"} :
          Finish(status, reason) /\ (status = "COMPLETE" => ~(used >= RowBudget))
    BY <1>9 DEF RetentionDeferred, RetentionFails, RetentionEnds
  <2>3. used \in 0..RowBudget /\ removed = used
    BY DEF PassTypeOK, PassPlace
  <2>4. at' = "idle" /\ ReportExact' /\ report' = [status |-> report'.status, reason |-> report'.reason, rows |-> report'.rows]
    BY <2>1, <2>2, <2>3, PassBounds, FinishTells
  <2>5. PassPlace' /\ PassKinds' /\ PassTypeOK' /\ RetentionGuarded' /\ JournalTold'
    BY <2>1, <2>4 DEF PassPlace, PassKinds, PassTypeOK, RetentionGuarded, JournalTold, checkpointVars, Undisturbed
  <2> QED
    BY <2>4, <2>5
<1>10. CASE UNCHANGED passVars
  BY <1>10 DEF passVars, checkpointVars, PassPlace, PassKinds, PassTypeOK, RetentionGuarded, ReportExact,
     JournalTold, Undisturbed
<1> QED
  BY <1>1, <1>2, <1>3, <1>4, <1>5, <1>6, <1>7, <1>8, <1>9, <1>10 DEF PassNext

\* A pass of the maintenance worker does what its checkpoint and its gate allow,
\* and reports exactly what it did.
THEOREM PassSoundness == PassSpec => []PassSound
<1>1. PassInit => PassInv
  BY PassStarts
<1>2. PassInv /\ [PassNext]_passVars => PassInv'
  BY PassStep
<1>3. PassInv => PassSound
  BY DEF PassInv
<1> QED
  BY <1>1, <1>2, <1>3, PTL DEF PassSpec

-----------------------------------------------------------------------------
(* Models out on the evidence of a breach *)

HealthShapes ==
  /\ carried \in [Models -> 0..MaxCarried]
  /\ realized \in [Models -> [n : Nat, wins : Nat, losses : Nat, profit : Int, loss : Int]]
  /\ judged \in [Models -> [n : Nat, at : 0..MaxHealthTime]]
  /\ healthTime \in 0..MaxHealthTime
  /\ \A m \in Models : realized[m].n + carried[m] <= MaxTrades /\ judged[m].at <= healthTime
  /\ DOMAIN quarantine \subseteq Models /\ DOMAIN reading \subseteq Models

\* An entry stands for the evidence judged last, and its cooldown counts from there.
EntriesJudged ==
  \A m \in DOMAIN quarantine :
    /\ quarantine[m].until = judged[m].at + Cooldown
    /\ quarantine[m].n = judged[m].n /\ judged[m].n >= MinObservations
    /\ quarantine[m].n <= realized[m].n
    /\ quarantine[m].reasons # {}
    /\ quarantine[m].n = realized[m].n => quarantine[m].reasons = Reasons(realized[m])

\* A query reads results at least as late as those the entries stand for: the same
\* number of results means the same results.
ReadingRecent ==
  /\ \A m \in DOMAIN reading :
       /\ reading[m].n \in Nat /\ reading[m].n <= realized[m].n
       /\ reading[m].n = realized[m].n => reading[m] = realized[m]
       /\ m \in DOMAIN quarantine =>
            /\ quarantine[m].n <= reading[m].n
            /\ quarantine[m].n = reading[m].n => quarantine[m].reasons = Reasons(reading[m])
  /\ reading # Nothing => DOMAIN quarantine \subseteq DOMAIN reading

\* A model is released no sooner than its cooldown, and on new evidence.
ReleasedServed ==
  \A m \in Models \ DOMAIN quarantine :
    judged[m].n > 0 =>
      /\ healthTime >= judged[m].at + Cooldown /\ realized[m].n > judged[m].n
      /\ m \in DOMAIN reading => reading[m].n > judged[m].n

HealthInv == HealthShapes /\ EntriesJudged /\ ReadingRecent /\ ReleasedServed

LEMMA HealthBounds ==
  /\ MinObservations \in Nat /\ MinObservations > 0 /\ Cooldown \in Nat /\ Cooldown > 0
  /\ MaxCarried \in Nat /\ MaxTrades \in Nat /\ MaxHealthTime \in Nat /\ Results \subseteq Int
BY HealthAssumption DEF ValidConfig

LEMMA HealthStarts == HealthInit => HealthInv
<1> SUFFICES ASSUME HealthInit PROVE HealthInv
  OBVIOUS
<1>1. /\ DOMAIN quarantine = {} /\ DOMAIN reading = {} /\ reading = Nothing /\ healthTime = 0
      /\ carried = [m \in Models |-> 0] /\ realized = [m \in Models |-> NoResults]
      /\ judged = [m \in Models |-> Unjudged]
  BY DEF HealthInit, Nothing
<1>2. NoResults \in [n : Nat, wins : Nat, losses : Nat, profit : Int, loss : Int] /\ NoResults.n = 0
  BY DEF NoResults
<1>3. Unjudged \in [n : Nat, at : 0..MaxHealthTime] /\ Unjudged.n = 0 /\ Unjudged.at = 0
  BY HealthBounds DEF Unjudged
<1>4. HealthShapes
  BY <1>1, <1>2, <1>3, HealthBounds DEF HealthShapes
<1>5. EntriesJudged /\ ReadingRecent
  BY <1>1 DEF EntriesJudged, ReadingRecent
<1>6. ReleasedServed
  BY <1>1, <1>3 DEF ReleasedServed
<1> QED
  BY <1>4, <1>5, <1>6 DEF HealthInv

LEMMA OneMoreResult ==
  ASSUME NEW r \in [n : Nat, wins : Nat, losses : Nat, profit : Int, loss : Int], NEW result \in Int
  PROVE  /\ Plus(r, result) \in [n : Nat, wins : Nat, losses : Nat, profit : Int, loss : Int]
         /\ Plus(r, result).n = r.n + 1
BY DEF Plus

LEMMA ApplyKeeps ==
  ASSUME HealthInv, Apply PROVE HealthInv'
<1> USE DEF HealthInv
<1> DEFINE released == {m \in DOMAIN quarantine \ Breaching : healthTime >= quarantine[m].until}
           kept == (DOMAIN quarantine \ released) \cup Renewed
<1>1. /\ reading # Nothing /\ reading' = Nothing
      /\ quarantine' = [m \in kept |-> IF m \in Renewed THEN Entry(m) ELSE quarantine[m]]
      /\ judged' = [m \in Models |->
           IF m \in Breaching /\ reading[m].n # judged[m].n
           THEN [n |-> reading[m].n, at |-> healthTime] ELSE judged[m]]
      /\ carried' = carried /\ realized' = realized /\ healthTime' = healthTime
  BY DEF Apply, Judge
<1>2. Renewed \subseteq Breaching /\ Breaching \subseteq DOMAIN reading /\ DOMAIN reading \subseteq Models
  BY DEF Renewed, Breaching, HealthShapes
<1>3. DOMAIN quarantine' = kept /\ kept \subseteq Models
  BY <1>1, <1>2 DEF HealthShapes
<1>4. DOMAIN reading' = {}
  BY <1>1 DEF Nothing
<1>5. \A m \in Breaching : reading[m].n >= MinObservations /\ Reasons(reading[m]) # {}
  BY DEF Breaching, Breach
<1> HIDE DEF released
<1>6. \A m \in Models : judged'[m] = IF m \in Breaching /\ reading[m].n # judged[m].n
                                     THEN [n |-> reading[m].n, at |-> healthTime] ELSE judged[m]
  BY <1>1
<1>7. \A m \in Renewed : /\ judged'[m].n = reading[m].n /\ judged'[m].at = healthTime
  <2> TAKE m \in Renewed
  <2>1. m \in Breaching /\ m \in DOMAIN reading /\ m \in Models
    BY <1>2
  <2>2. reading[m].n \in Nat /\ reading[m].n >= MinObservations
    BY <2>1, <1>5 DEF ReadingRecent
  <2>3. judged[m].n \in Nat
    BY <2>1 DEF HealthShapes
  <2>4. CASE m \in DOMAIN quarantine
    <3>1. quarantine[m].n # reading[m].n
      BY <2>1, <2>4 DEF Renewed, ReadingRecent
    <3>2. reading[m].n # judged[m].n
      BY <2>4, <3>1 DEF EntriesJudged
    <3>3. judged'[m] = [n |-> reading[m].n, at |-> healthTime]
      BY <2>1, <3>2, <1>6
    <3> QED
      BY <3>3
  <2>5. CASE m \notin DOMAIN quarantine
    <3>1. reading[m].n # judged[m].n
      BY <2>1, <2>2, <2>3, <2>5, HealthBounds DEF ReleasedServed
    <3>2. judged'[m] = [n |-> reading[m].n, at |-> healthTime]
      BY <2>1, <3>1, <1>6
    <3> QED
      BY <3>2
  <2> QED
    BY <2>4, <2>5
<1>8. \A m \in Models \ Renewed : judged'[m] = judged[m]
  <2> TAKE m \in Models \ Renewed
  <2>1. CASE m \in Breaching
    <3>1. m \in DOMAIN quarantine /\ quarantine[m].n = reading[m].n
      BY <2>1 DEF Renewed
    <3> QED
      BY <3>1, <1>6 DEF EntriesJudged
  <2>2. CASE m \notin Breaching
    BY <2>2, <1>6
  <2> QED
    BY <2>1, <2>2
<1>9. \A m \in Models : judged'[m] \in [n : Nat, at : 0..MaxHealthTime] /\ judged'[m].at <= healthTime
  <2> TAKE m \in Models
  <2>1. CASE m \in Renewed
    <3>1. m \in Breaching /\ m \in DOMAIN reading
      BY <2>1, <1>2
    <3>2. reading[m].n \in Nat /\ healthTime \in 0..MaxHealthTime
      BY <3>1 DEF ReadingRecent, HealthShapes
    <3>3. judged'[m] = [n |-> reading[m].n, at |-> healthTime] \/ judged'[m] = judged[m]
      BY <1>6
    <3> QED
      BY <3>2, <3>3 DEF HealthShapes
  <2>2. CASE m \notin Renewed
    BY <2>2, <1>8 DEF HealthShapes
  <2> QED
    BY <2>1, <2>2
<1>10. HealthShapes'
  <2>1. judged' \in [Models -> [n : Nat, at : 0..MaxHealthTime]]
    BY <1>1, <1>9
  <2> QED
    BY <2>1, <1>1, <1>3, <1>4, <1>9 DEF HealthShapes
<1>11. EntriesJudged'
  <2> SUFFICES ASSUME NEW m \in kept
        PROVE /\ quarantine'[m].until = judged'[m].at + Cooldown
              /\ quarantine'[m].n = judged'[m].n /\ judged'[m].n >= MinObservations
              /\ quarantine'[m].n <= realized[m].n
              /\ quarantine'[m].reasons # {}
              /\ quarantine'[m].n = realized[m].n => quarantine'[m].reasons = Reasons(realized[m])
    BY <1>1, <1>3 DEF EntriesJudged
  <2>1. CASE m \in Renewed
    <3>1. m \in Breaching /\ m \in DOMAIN reading
      BY <2>1, <1>2
    <3>2. quarantine'[m] = Entry(m)
      BY <2>1, <1>1
    <3>3. /\ quarantine'[m].n = reading[m].n /\ quarantine'[m].reasons = Reasons(reading[m])
          /\ quarantine'[m].until = healthTime + Cooldown
      BY <3>2 DEF Entry
    <3>4. judged'[m].n = reading[m].n /\ judged'[m].at = healthTime
      BY <2>1, <1>7
    <3>5. reading[m].n <= realized[m].n /\ (reading[m].n = realized[m].n => reading[m] = realized[m])
      BY <3>1 DEF ReadingRecent
    <3> QED
      BY <3>1, <3>3, <3>4, <3>5, <1>5
  <2>2. CASE m \notin Renewed
    <3>1. m \in DOMAIN quarantine /\ quarantine'[m] = quarantine[m] /\ judged'[m] = judged[m]
      BY <2>2, <1>1, <1>3, <1>8
    <3> QED
      BY <3>1 DEF EntriesJudged
  <2> QED
    BY <2>1, <2>2
<1>12. ReadingRecent'
  BY <1>1, <1>4 DEF ReadingRecent
<1>13. ReleasedServed'
  <2> SUFFICES ASSUME NEW m \in Models, m \notin kept, judged'[m].n > 0
        PROVE healthTime >= judged'[m].at + Cooldown /\ realized[m].n > judged'[m].n
    BY <1>1, <1>3, <1>4 DEF ReleasedServed
  <2>1. judged'[m] = judged[m]
    BY <1>8
  <2>2. CASE m \in DOMAIN quarantine
    <3>1. m \notin Breaching /\ healthTime >= quarantine[m].until
      BY <2>2 DEF released
    <3>2. m \in DOMAIN reading
      BY <2>2, <1>1 DEF ReadingRecent
    <3>3. /\ reading[m].n \in Nat /\ reading[m].n <= realized[m].n
          /\ quarantine[m].n <= reading[m].n
          /\ quarantine[m].n = reading[m].n => quarantine[m].reasons = Reasons(reading[m])
      BY <2>2, <3>2 DEF ReadingRecent
    <3>4. quarantine[m].until = judged[m].at + Cooldown /\ quarantine[m].n = judged[m].n
          /\ judged[m].n >= MinObservations /\ quarantine[m].reasons # {}
      BY <2>2 DEF EntriesJudged
    <3>5. reading[m].n # quarantine[m].n
      BY <3>1, <3>2, <3>3, <3>4 DEF Breaching, Breach
    <3>6. realized[m].n \in Nat /\ judged[m].n \in Nat
      BY DEF HealthShapes
    <3> QED
      BY <2>1, <3>1, <3>3, <3>4, <3>5, <3>6
  <2>3. CASE m \notin DOMAIN quarantine
    BY <2>1, <2>3 DEF ReleasedServed
  <2> QED
    BY <2>2, <2>3
<1> QED
  BY <1>10, <1>11, <1>12, <1>13

LEMMA HealthStep == HealthInv /\ [HealthNext]_healthVars => HealthInv'
<1> SUFFICES ASSUME HealthInv, [HealthNext]_healthVars PROVE HealthInv'
  OBVIOUS
<1> USE DEF HealthInv
<1>1. CASE DriveEntry
  <2>1. PICK m \in Models :
          /\ carried[m] < MaxCarried /\ realized[m].n + carried[m] < MaxTrades
          /\ carried' = [carried EXCEPT ![m] = @ + 1]
          /\ UNCHANGED <<realized, reading, quarantine, healthTime, judged>>
    BY <1>1 DEF DriveEntry
  <2>2. carried' \in [Models -> 0..MaxCarried]
    BY <2>1, HealthBounds DEF HealthShapes
  <2>3. \A k \in Models : realized[k].n + carried'[k] <= MaxTrades
    BY <2>1, HealthBounds DEF HealthShapes
  <2>4. HealthShapes'
    BY <2>1, <2>2, <2>3 DEF HealthShapes
  <2> QED
    BY <2>1, <2>4 DEF EntriesJudged, ReadingRecent, ReleasedServed
<1>2. CASE Realize
  <2>1. PICK w \in Models, result \in Results :
          /\ carried[w] > 0
          /\ carried' = [carried EXCEPT ![w] = @ - 1]
          /\ realized' = [realized EXCEPT ![w] = Plus(@, result)]
          /\ UNCHANGED <<reading, quarantine, healthTime, judged>>
    BY <1>2 DEF Realize
  <2>2. /\ Plus(realized[w], result) \in [n : Nat, wins : Nat, losses : Nat, profit : Int, loss : Int]
        /\ Plus(realized[w], result).n = realized[w].n + 1
    BY OneMoreResult, HealthBounds DEF HealthShapes
  <2>3. \A m \in Models : realized'[m] = IF m = w THEN Plus(realized[w], result) ELSE realized[m]
    BY <2>1 DEF HealthShapes
  <2>4. \A m \in Models : carried'[m] = IF m = w THEN carried[w] - 1 ELSE carried[m]
    BY <2>1 DEF HealthShapes
  <2>5. carried' \in [Models -> 0..MaxCarried]
    BY <2>1, HealthBounds DEF HealthShapes
  <2>6. realized' \in [Models -> [n : Nat, wins : Nat, losses : Nat, profit : Int, loss : Int]]
    BY <2>1, <2>2 DEF HealthShapes
  <2>7. \A m \in Models : realized'[m].n \in Nat /\ realized[m].n \in Nat /\ realized'[m].n >= realized[m].n
                          /\ (realized'[m].n = realized[m].n => realized'[m] = realized[m])
    BY <2>2, <2>3 DEF HealthShapes
  <2>8. \A m \in Models : realized'[m].n + carried'[m] <= MaxTrades
    <3> TAKE m \in Models
    <3>1. realized[m].n \in Nat /\ carried[m] \in Nat /\ realized[m].n + carried[m] <= MaxTrades
      BY DEF HealthShapes
    <3> QED
      BY <3>1, <2>2, <2>3, <2>4, HealthBounds
  <2>9. HealthShapes'
    BY <2>1, <2>5, <2>6, <2>8 DEF HealthShapes
  <2>10. EntriesJudged'
    <3> SUFFICES ASSUME NEW m \in DOMAIN quarantine
          PROVE /\ quarantine[m].n <= realized'[m].n
                /\ quarantine[m].n = realized'[m].n => quarantine[m].reasons = Reasons(realized'[m])
      BY <2>1 DEF EntriesJudged
    <3>1. m \in Models /\ judged[m].n \in Nat
      BY DEF HealthShapes
    <3> QED
      BY <3>1, <2>7 DEF EntriesJudged
  <2>11. ReadingRecent'
    <3> SUFFICES ASSUME NEW m \in DOMAIN reading
          PROVE reading[m].n <= realized'[m].n /\ (reading[m].n = realized'[m].n => reading[m] = realized'[m])
      BY <2>1 DEF ReadingRecent
    <3>1. m \in Models
      BY DEF HealthShapes
    <3> QED
      BY <3>1, <2>7 DEF ReadingRecent
  <2>12. ReleasedServed'
    <3> SUFFICES ASSUME NEW m \in Models \ DOMAIN quarantine, judged[m].n > 0
          PROVE realized'[m].n > judged[m].n
      BY <2>1 DEF ReleasedServed
    <3>1. judged[m].n \in Nat
      BY DEF HealthShapes
    <3> QED
      BY <3>1, <2>7 DEF ReleasedServed
  <2> QED
    BY <2>9, <2>10, <2>11, <2>12
<1>3. CASE Read
  <2>1. /\ reading = Nothing
        /\ reading' = [m \in {k \in Models : realized[k].n > 0} |-> realized[m]]
        /\ UNCHANGED <<carried, realized, quarantine, healthTime, judged>>
    BY <1>3 DEF Read
  <2>2. DOMAIN reading' = {k \in Models : realized[k].n > 0} /\ \A m \in DOMAIN reading' : reading'[m] = realized[m]
    BY <2>1
  <2>3. HealthShapes' /\ EntriesJudged'
    BY <2>1, <2>2 DEF HealthShapes, EntriesJudged
  <2>4. \A m \in DOMAIN quarantine : m \in DOMAIN reading'
    <3> TAKE m \in DOMAIN quarantine
    <3>1. m \in Models /\ realized[m].n \in Nat /\ judged[m].n \in Nat
      BY DEF HealthShapes
    <3>2. quarantine[m].n = judged[m].n /\ judged[m].n >= MinObservations /\ quarantine[m].n <= realized[m].n
      BY DEF EntriesJudged
    <3> QED
      BY <2>2, <3>1, <3>2, HealthBounds
  <2>5. ReadingRecent'
    BY <2>1, <2>2, <2>4 DEF ReadingRecent, HealthShapes, EntriesJudged
  <2>6. ReleasedServed'
    BY <2>1, <2>2 DEF ReleasedServed
  <2> QED
    BY <2>3, <2>5, <2>6
<1>4. CASE ReadFails
  <2>1. reading' = Nothing /\ UNCHANGED <<carried, realized, quarantine, healthTime, judged>>
    BY <1>4 DEF ReadFails
  <2>2. DOMAIN reading' = {}
    BY <2>1 DEF Nothing
  <2> QED
    BY <2>1, <2>2 DEF HealthShapes, EntriesJudged, ReadingRecent, ReleasedServed
<1>5. CASE Apply
  BY <1>5, ApplyKeeps
<1>6. CASE HealthTick
  <2>1. /\ healthTime < MaxHealthTime /\ healthTime' = healthTime + 1
        /\ UNCHANGED <<carried, realized, reading, quarantine, judged>>
    BY <1>6 DEF HealthTick
  <2>2. HealthShapes'
    BY <2>1, HealthBounds DEF HealthShapes
  <2>3. EntriesJudged' /\ ReadingRecent'
    BY <2>1 DEF EntriesJudged, ReadingRecent
  <2>4. ReleasedServed'
    BY <2>1, HealthBounds DEF ReleasedServed, HealthShapes
  <2> QED
    BY <2>2, <2>3, <2>4
<1>7. CASE UNCHANGED healthVars
  BY <1>7 DEF healthVars, HealthShapes, EntriesJudged, ReadingRecent, ReleasedServed
<1> QED
  BY <1>1, <1>2, <1>3, <1>4, <1>5, <1>6, <1>7 DEF HealthNext

LEMMA HealthInvImplies == HealthInv => HealthSound
<1> SUFFICES ASSUME HealthInv PROVE HealthSound
  OBVIOUS
<1> USE DEF HealthInv
<1>1. HealthTypeOK
  BY DEF HealthTypeOK, HealthShapes
<1>2. CooldownServed
  <2> SUFFICES ASSUME NEW m \in Models, judged[m].n > 0, healthTime < judged[m].at + Cooldown
               PROVE  m \in Live
    BY DEF CooldownServed
  <2>1. judged[m].at \in Nat /\ healthTime \in Nat
    BY HealthBounds DEF HealthShapes
  <2>2. m \in DOMAIN quarantine
    BY <2>1, HealthBounds DEF ReleasedServed
  <2> QED
    BY <2>2 DEF Live, EntriesJudged
<1>3. QuarantineEarned
  <2> SUFFICES ASSUME NEW m \in DOMAIN quarantine, healthTime < quarantine[m].until
               PROVE judged[m].n \in MinObservations..realized[m].n /\ healthTime < judged[m].at + Cooldown
    BY DEF QuarantineEarned, Live
  <2>1. m \in Models /\ judged[m].n \in Nat /\ realized[m].n \in Nat
    BY DEF HealthShapes
  <2> QED
    BY <2>1, HealthBounds DEF EntriesJudged
<1> QED
  BY <1>1, <1>2, <1>3 DEF HealthSound

\* A model is out exactly while its cooldown runs, on results it really had.
THEOREM HealthSoundness == HealthSpec => []HealthSound
<1>1. HealthInit => HealthInv
  BY HealthStarts
<1>2. HealthInv /\ [HealthNext]_healthVars => HealthInv'
  BY HealthStep
<1>3. HealthInv => HealthSound
  BY HealthInvImplies
<1> QED
  BY <1>1, <1>2, <1>3, PTL DEF HealthSpec

-----------------------------------------------------------------------------
(* Queues that hold nothing twice *)

LEMMA AppendedOnce ==
  ASSUME NEW S, NEW q \in Seq(S), IsInjective(q), NEW x \in S, x \notin ToSet(q)
  PROVE  /\ Append(q, x) \in Seq(S) /\ IsInjective(Append(q, x))
         /\ ToSet(Append(q, x)) = ToSet(q) \cup {x} /\ Len(Append(q, x)) = Len(q) + 1
<1> DEFINE r == Append(q, x)
<1>1. /\ r \in Seq(S) /\ Len(r) = Len(q) + 1 /\ r[Len(q) + 1] = x
      /\ \A i \in 1..Len(q) : r[i] = q[i]
  BY AppendProperties
<1>2. DOMAIN q = 1..Len(q) /\ DOMAIN r = 1..(Len(q) + 1) /\ Len(q) \in Nat
  BY <1>1, LenProperties
<1> HIDE DEF r
<1>3. ToSet(r) = ToSet(q) \cup {x}
  <2>1. \A i \in DOMAIN r : r[i] \in ToSet(q) \cup {x}
    BY <1>1, <1>2 DEF ToSet
  <2>2. \A i \in DOMAIN q : i \in DOMAIN r /\ r[i] = q[i]
    BY <1>1, <1>2
  <2>3. Len(q) + 1 \in DOMAIN r
    BY <1>2
  <2> QED
    BY <2>1, <2>2, <2>3, <1>1 DEF ToSet
<1>4. IsInjective(r)
  <2> SUFFICES ASSUME NEW a \in DOMAIN r, NEW b \in DOMAIN r, r[a] = r[b] PROVE a = b
    BY DEF IsInjective
  <2>1. \A i \in DOMAIN q : q[i] # x
    BY DEF ToSet
  <2>2. CASE a \in DOMAIN q /\ b \in DOMAIN q
    <3>1. q[a] = q[b]
      BY <2>2, <1>1, <1>2
    <3> QED
      BY <2>2, <3>1 DEF IsInjective
  <2>3. CASE a \notin DOMAIN q \/ b \notin DOMAIN q
    BY <2>1, <2>3, <1>1, <1>2
  <2> QED
    BY <2>2, <2>3
<1> QED
  BY <1>1, <1>3, <1>4 DEF r

LEMMA TailOnce ==
  ASSUME NEW S, NEW q \in Seq(S), IsInjective(q), q # << >>
  PROVE  /\ Tail(q) \in Seq(S) /\ IsInjective(Tail(q)) /\ Head(q) \in S
         /\ Head(q) \in ToSet(q) /\ ToSet(Tail(q)) = ToSet(q) \ {Head(q)}
         /\ Len(Tail(q)) = Len(q) - 1
<1> DEFINE r == Tail(q)
           h == Head(q)
<1>1. /\ r \in Seq(S) /\ Len(r) = Len(q) - 1 /\ h \in S
      /\ \A i \in 1..Len(r) : r[i] = q[i + 1]
  BY HeadTailProperties
<1>2. h = q[1]
  OBVIOUS
<1>3. Len(q) \in Nat /\ Len(q) > 0 /\ DOMAIN q = 1..Len(q)
  BY LenProperties, EmptySeq
<1>4. DOMAIN r = 1..Len(r)
  BY <1>1, LenProperties
<1> HIDE DEF r, h
<1>5. \A i \in DOMAIN r : i + 1 \in DOMAIN q /\ r[i] = q[i + 1] /\ i + 1 # 1
  BY <1>1, <1>3, <1>4
<1>6. \A i \in DOMAIN q : i # 1 => (i - 1 \in DOMAIN r /\ r[i - 1] = q[i])
  BY <1>1, <1>3, <1>4
<1>7. 1 \in DOMAIN q
  BY <1>3
<1>8. \A a, b \in DOMAIN q : q[a] = q[b] => a = b
  BY DEF IsInjective
<1>9. h \in ToSet(q) /\ ToSet(r) = ToSet(q) \ {h}
  <2>1. \A i \in DOMAIN r : r[i] \in ToSet(q) /\ r[i] # h
    BY <1>2, <1>5, <1>7, <1>8 DEF ToSet
  <2>2. \A i \in DOMAIN q : q[i] # h => q[i] \in ToSet(r)
    BY <1>2, <1>6 DEF ToSet
  <2> QED
    BY <2>1, <2>2, <1>2, <1>7 DEF ToSet
<1>10. IsInjective(r)
  <2> SUFFICES ASSUME NEW a \in DOMAIN r, NEW b \in DOMAIN r, r[a] = r[b] PROVE a = b
    BY DEF IsInjective
  <2>1. a + 1 = b + 1
    BY <1>5, <1>8
  <2> QED
    BY <2>1, <1>1, <1>3, <1>4
<1> QED
  BY <1>1, <1>9, <1>10 DEF r, h

LEMMA EmptyOnce ==
  ASSUME NEW S PROVE << >> \in Seq(S) /\ IsInjective(<< >>) /\ ToSet(<< >>) = {} /\ Len(<< >>) = 0
BY DEF IsInjective, ToSet

-----------------------------------------------------------------------------
(* The worker *)

Queued == {j \in Jobs : j \in ToSet(jobQueue)}
Busy == thread.at \in {"running", "late"}

WorkerPlain ==
  /\ state \in {"NEW", "STARTING", "RUNNING", "STOPPING", "STOPPED", "FAILED"}
  /\ accepting \in BOOLEAN /\ overtaken \in BOOLEAN
  /\ stopping \in {"no", "calling", "given up", "enqueued"}
  /\ future \in [Jobs -> {"none", "pending", "running"} \cup ResolvedFutures]
  /\ client \in [Jobs -> {"none", "waiting", "refused", "timed out"} \cup ResolvedFutures]
  /\ expired \subseteq Jobs
  /\ tally \in [submitted : Nat, completed : Nat, failed : Nat, cancelled : Nat]
  /\ \/ thread \in [at : {"none", "opening", "idle", "closing", "closed", "stopped"}]
     \/ thread \in [at : {"running", "late"}, job : Jobs]
  /\ state = "NEW" => thread.at = "none"

\* Every job is in the queue at most once, and the queue stays within its capacity.
QueueHolds ==
  /\ jobQueue \in Seq(Jobs \cup {Stop}) /\ IsInjective(jobQueue)
  /\ Len(jobQueue) <= JobCapacity /\ IsFiniteSet(Queued)

\* A queued job was submitted and not taken, the running one was taken; a caller
\* gives up only after the deadline, or with a future that is cancelled for good.
FuturesFollow ==
  /\ \A j \in Queued : future[j] \in {"pending", "cancelled"} /\ client[j] # "none"
  /\ Busy => future[thread.job] = "running" /\ client[thread.job] # "none"
  /\ \A j \in Jobs :
       /\ client[j] = "timed out" => j \in expired
       /\ client[j] = "cancelled" => future[j] = "cancelled"

WorkerInv == WorkerPlain /\ QueueHolds /\ FuturesFollow /\ JobsCounted

\* The stop is in the queue at most once; a stop that came while the store was
\* being opened is overtaken; and one that is not closes the admission of jobs,
\* as every end of the thread does.
StopFollows ==
  /\ Stop \in ToSet(jobQueue) => stopping = "enqueued"
  /\ state = "NEW" => stopping = "no"
  /\ thread.at = "opening" => stopping = "no" \/ state = "STOPPING"
  /\ ~overtaken /\ (stopping # "no" \/ thread.at \in {"closing", "closed", "stopped"})
       => ~accepting

\* A pending job is in the queue, or behind a thread that is through: then it was
\* admitted too late, by a worker whose stop was overtaken.
PendingFollow ==
  \A j \in Jobs : future[j] = "pending" =>
    IF thread.at \in {"closed", "stopped"} THEN overtaken ELSE j \in Queued

StopInv == WorkerInv /\ StopFollows /\ PendingFollow

LEMMA WorkerBounds == JobCapacity \in Nat /\ JobCapacity > 0 /\ Stop \notin Jobs
BY WorkerAssumption

LEMMA QueuedCounted ==
  ASSUME QueueHolds PROVE Cardinality(Queued) \in Nat
BY FS_CardinalityType DEF QueueHolds

LEMMA WorkerStarts == WorkerInit => WorkerInv
<1> SUFFICES ASSUME WorkerInit PROVE WorkerInv
  OBVIOUS
<1>1. jobQueue = << >> /\ thread = [at |-> "none"]
      /\ future = [j \in Jobs |-> "none"] /\ client = [j \in Jobs |-> "none"]
      /\ tally = [submitted |-> 0, completed |-> 0, failed |-> 0, cancelled |-> 0]
      /\ state = "NEW" /\ accepting = FALSE /\ expired = {} /\ stopping = "no" /\ overtaken = FALSE
  BY DEF WorkerInit
<1>2. thread \in [at : {"none", "opening", "idle", "closing", "closed", "stopped"}] /\ thread.at = "none"
  BY <1>1
<1>3. WorkerPlain
  <2>1. tally \in [submitted : Nat, completed : Nat, failed : Nat, cancelled : Nat]
    BY <1>1
  <2> QED
    BY <1>1, <1>2, <2>1 DEF WorkerPlain
<1>4. Queued = {}
  BY <1>1, EmptyOnce DEF Queued
<1>5. QueueHolds
  <2>1. IsFiniteSet(Queued)
    BY <1>4, FS_EmptySet
  <2>2. jobQueue \in Seq(Jobs \cup {Stop}) /\ IsInjective(jobQueue) /\ Len(jobQueue) = 0
    BY <1>1, EmptyOnce
  <2> QED
    BY <2>1, <2>2, WorkerBounds DEF QueueHolds
<1>6. FuturesFollow
  BY <1>1, <1>2, <1>4 DEF FuturesFollow, Busy
<1>7. JobsCounted
  <2>1. Cardinality(Queued) = 0
    BY <1>4, FS_EmptySet
  <2> QED
    BY <1>1, <1>2, <2>1 DEF JobsCounted, Queued
<1> QED
  BY <1>3, <1>5, <1>6, <1>7 DEF WorkerInv

\* The count by the queue and the thread
LEMMA CountedIs ==
  JobsCounted <=>
    IF thread.at \in {"closed", "stopped"}
    THEN tally.completed + tally.failed + tally.cancelled <= tally.submitted
    ELSE tally.submitted = (tally.completed + tally.failed + tally.cancelled)
                           + (Cardinality(Queued) + (IF Busy THEN 1 ELSE 0))
BY DEF JobsCounted, Queued, Busy

\* Steps that leave the queue, the futures and the tally alone, and the thread free
LEMMA QueueStays ==
  ASSUME WorkerInv, jobQueue' = jobQueue, tally' = tally, future' = future
  PROVE  /\ QueueHolds' /\ Queued' = Queued
         /\ client' = client /\ expired \subseteq expired' /\ ~Busy /\ ~Busy' => FuturesFollow'
         /\ thread' = thread => JobsCounted'
         /\ (~Busy /\ ~Busy' /\ thread.at \notin {"closed", "stopped"}) => JobsCounted'
<1>1. Queued' = Queued
  BY DEF Queued
<1>2. QueueHolds'
  BY <1>1 DEF WorkerInv, QueueHolds
<1>3. client' = client /\ expired \subseteq expired' /\ ~Busy /\ ~Busy' => FuturesFollow'
  BY <1>1 DEF WorkerInv, FuturesFollow
<1>4. thread' = thread => JobsCounted'
  BY DEF WorkerInv, JobsCounted
<1>5. (~Busy /\ ~Busy' /\ thread.at \notin {"closed", "stopped"}) => JobsCounted'
  <2> SUFFICES ASSUME ~Busy, ~Busy', thread.at \notin {"closed", "stopped"} PROVE JobsCounted'
    OBVIOUS
  <2>1. Cardinality(Queued) \in Nat
    BY QueuedCounted DEF WorkerInv
  <2>2. tally.submitted \in Nat /\ tally.completed \in Nat /\ tally.failed \in Nat /\ tally.cancelled \in Nat
    BY DEF WorkerInv, WorkerPlain
  <2>3. tally.submitted = (tally.completed + tally.failed + tally.cancelled)
                           + Cardinality(Queued)
    BY <2>1, <2>2, CountedIs DEF WorkerInv
  <2> QED
    BY <1>1, <2>1, <2>2, <2>3 DEF JobsCounted, Queued, Busy
<1> QED
  BY <1>1, <1>2, <1>3, <1>4, <1>5

LEMMA SubmitKeeps ==
  ASSUME WorkerInv, NEW j \in Jobs, Submit(j) PROVE WorkerInv'
<1> USE DEF WorkerInv
<1>1. /\ client[j] = "none" /\ UNCHANGED <<state, accepting, thread, expired, stopping, overtaken>>
  BY DEF Submit
<1>2. CASE /\ Len(jobQueue) < JobCapacity
           /\ jobQueue' = Append(jobQueue, j)
           /\ future' = [future EXCEPT ![j] = "pending"]
           /\ client' = [client EXCEPT ![j] = "waiting"]
           /\ tally' = [tally EXCEPT !.submitted = @ + 1]
  <2>1. j \notin ToSet(jobQueue)
    BY <1>1 DEF FuturesFollow, Queued
  <2>2. /\ jobQueue' \in Seq(Jobs \cup {Stop}) /\ IsInjective(jobQueue')
        /\ ToSet(jobQueue') = ToSet(jobQueue) \cup {j} /\ Len(jobQueue') = Len(jobQueue) + 1
    BY <1>2, <2>1, AppendedOnce DEF QueueHolds
  <2>3. Queued' = Queued \cup {j} /\ j \notin Queued
    BY <2>1, <2>2 DEF Queued
  <2>4. IsFiniteSet(Queued') /\ Cardinality(Queued') = Cardinality(Queued) + 1
    BY <2>3, FS_AddElement DEF QueueHolds
  <2>5. Len(jobQueue) \in Nat
    BY LenProperties DEF QueueHolds
  <2>6. QueueHolds'
    BY <1>2, <2>2, <2>4, <2>5, WorkerBounds DEF QueueHolds
  <2>7. /\ future' \in [Jobs -> {"none", "pending", "running"} \cup ResolvedFutures]
        /\ client' \in [Jobs -> {"none", "waiting", "refused", "timed out"} \cup ResolvedFutures]
        /\ \A k \in Jobs : /\ future'[k] = IF k = j THEN "pending" ELSE future[k]
                           /\ client'[k] = IF k = j THEN "waiting" ELSE client[k]
    BY <1>2 DEF WorkerPlain
  <2>t. tally \in [submitted : Nat, completed : Nat, failed : Nat, cancelled : Nat]
        /\ tally' = [tally EXCEPT !.submitted = @ + 1]
    BY <1>2 DEF WorkerPlain
  <2>8. /\ tally' \in [submitted : Nat, completed : Nat, failed : Nat, cancelled : Nat]
        /\ tally'.submitted = tally.submitted + 1 /\ tally'.completed = tally.completed
        /\ tally'.failed = tally.failed /\ tally'.cancelled = tally.cancelled
    BY ONLY <2>t
  <2>9. WorkerPlain'
    BY <1>1, <2>7, <2>8 DEF WorkerPlain
  <2>10. Busy => thread.job # j /\ thread.job \in Jobs
    BY <1>1 DEF FuturesFollow, WorkerPlain, Busy
  <2>11. FuturesFollow'
    <3>1. \A k \in Queued' : future'[k] \in {"pending", "cancelled"} /\ client'[k] # "none"
      <4> TAKE k \in Queued'
      <4>1. k \in Jobs
        BY DEF Queued
      <4> QED
        BY <2>3, <2>7, <4>1 DEF FuturesFollow
    <3>2. Busy' => future'[thread'.job] = "running" /\ client'[thread'.job] # "none"
      BY <1>1, <2>7, <2>10 DEF FuturesFollow, Busy
    <3>3. \A k \in Jobs : (client'[k] = "timed out" => k \in expired') /\ (client'[k] = "cancelled" => future'[k] = "cancelled")
      BY <1>1, <2>7 DEF FuturesFollow
    <3> QED
      BY <3>1, <3>2, <3>3 DEF FuturesFollow
  <2>12. JobsCounted'
    <3>1. Cardinality(Queued) \in Nat
      BY QueuedCounted
    <3>2. tally.submitted \in Nat /\ tally.completed \in Nat /\ tally.failed \in Nat /\ tally.cancelled \in Nat
      BY DEF WorkerPlain
    <3>3. IF thread.at \in {"closed", "stopped"}
          THEN tally.completed + tally.failed + tally.cancelled <= tally.submitted
          ELSE tally.submitted = (tally.completed + tally.failed + tally.cancelled)
                           + (Cardinality(Queued) + (IF thread.at \in {"running", "late"} THEN 1 ELSE 0))
      BY CountedIs DEF Busy
    <3>4. IF thread.at \in {"closed", "stopped"}
          THEN tally'.completed + tally'.failed + tally'.cancelled <= tally'.submitted
          ELSE tally'.submitted = (tally'.completed + tally'.failed + tally'.cancelled)
                           + (Cardinality(Queued') + (IF thread.at \in {"running", "late"} THEN 1 ELSE 0))
      BY <2>4, <2>8, <3>1, <3>2, <3>3
    <3> QED
      BY <1>1, <3>4 DEF JobsCounted, Queued
  <2> QED
    BY <2>6, <2>9, <2>11, <2>12
<1>3. CASE client' = [client EXCEPT ![j] = "refused"] /\ UNCHANGED <<jobQueue, future, tally>>
  <2>1. WorkerPlain'
    BY <1>1, <1>3 DEF WorkerPlain
  <2>2. QueueHolds' /\ Queued' = Queued /\ JobsCounted'
    BY <1>1, <1>3, QueueStays
  <2>3. \A k \in Jobs : client'[k] = IF k = j THEN "refused" ELSE client[k]
    BY <1>3 DEF WorkerPlain
  <2>4. Queued \subseteq Jobs /\ (Busy => thread.job \in Jobs)
    BY DEF Queued, Busy, WorkerPlain
  <2>b. future' = future /\ thread' = thread /\ expired' = expired /\ (Busy' <=> Busy)
    BY <1>1, <1>3 DEF Busy
  <2>a. \A k \in Queued' : future'[k] \in {"pending", "cancelled"} /\ client'[k] # "none"
    <3> TAKE k \in Queued'
    <3>1. k \in Jobs /\ k \in Queued
      BY <2>2, <2>4
    <3>2. future[k] \in {"pending", "cancelled"} /\ client[k] # "none"
      BY <3>1 DEF FuturesFollow
    <3> QED
      BY <3>1, <3>2, <2>b, <2>3
  <2>c. Busy' => future'[thread'.job] = "running" /\ client'[thread'.job] # "none"
    BY <2>b, <2>3, <2>4 DEF FuturesFollow
  <2>d. \A k \in Jobs : (client'[k] = "timed out" => k \in expired') /\ (client'[k] = "cancelled" => future'[k] = "cancelled")
    BY <2>b, <2>3 DEF FuturesFollow
  <2>5. FuturesFollow'
    BY <2>a, <2>c, <2>d DEF FuturesFollow
  <2> QED
    BY <2>1, <2>2, <2>5
<1> QED
  BY <1>2, <1>3 DEF Submit

LEMMA ClientKeeps ==
  ASSUME WorkerInv, NEW j \in Jobs, Expire(j) \/ Answer(j) \/ GiveUp(j) \/ Cancel(j) PROVE WorkerInv'
<1> USE DEF WorkerInv
<1>1. /\ jobQueue' = jobQueue /\ tally' = tally /\ thread' = thread
      /\ state' = state /\ accepting' = accepting /\ stopping' = stopping /\ overtaken' = overtaken
  BY DEF Expire, Answer, GiveUp, Cancel
<1>2. Queued' = Queued /\ QueueHolds' /\ JobsCounted'
  BY <1>1 DEF Queued, QueueHolds, JobsCounted
<1>3. Queued \subseteq Jobs /\ (Busy => thread.job \in Jobs) /\ (Busy' <=> Busy)
  BY <1>1 DEF Queued, Busy, WorkerPlain
<1>4. CASE Expire(j)
  <2>1. expired' = expired \cup {j} /\ client' = client /\ future' = future
    BY <1>4 DEF Expire
  <2> QED
    BY <1>1, <1>2, <1>3, <2>1 DEF WorkerPlain, FuturesFollow
<1>5. CASE Answer(j) \/ GiveUp(j)
  <2>1. PICK v \in {"timed out"} \cup ResolvedFutures :
          /\ client' = [client EXCEPT ![j] = v] /\ future' = future /\ expired' = expired
          /\ v = "timed out" => j \in expired
          /\ v = "cancelled" => future[j] = "cancelled"
    BY <1>5 DEF Answer, GiveUp, ResolvedFutures
  <2>2. \A k \in Jobs : client'[k] = IF k = j THEN v ELSE client[k]
    BY <2>1 DEF WorkerPlain
  <2>3. v # "none"
    BY DEF ResolvedFutures
  <2>4. client' \in [Jobs -> {"none", "waiting", "refused", "timed out"} \cup ResolvedFutures]
    BY <2>1 DEF WorkerPlain
  <2>5. WorkerPlain'
    BY <1>1, <2>1, <2>4 DEF WorkerPlain
  <2>6. FuturesFollow'
    <3>1. \A k \in Jobs : client[k] # "none" => client'[k] # "none"
      BY <2>2, <2>3
    <3>2. \A k \in Queued' : future'[k] \in {"pending", "cancelled"} /\ client'[k] # "none"
      BY <1>2, <1>3, <2>1, <3>1 DEF FuturesFollow
    <3>3. Busy' => future'[thread'.job] = "running" /\ client'[thread'.job] # "none"
      BY <1>1, <1>3, <2>1, <3>1 DEF FuturesFollow
    <3>4. \A k \in Jobs : /\ client'[k] = "timed out" => k \in expired'
                          /\ client'[k] = "cancelled" => future'[k] = "cancelled"
      BY <2>1, <2>2 DEF FuturesFollow
    <3> QED
      BY <3>2, <3>3, <3>4 DEF FuturesFollow
  <2> QED
    BY <1>2, <2>5, <2>6
<1>6. CASE Cancel(j)
  <2>1. /\ client' = [client EXCEPT ![j] = "cancelled"] /\ future' = [future EXCEPT ![j] = "cancelled"]
        /\ future[j] = "pending" /\ expired' = expired
    BY <1>6 DEF Cancel
  <2>2. \A k \in Jobs : /\ client'[k] = IF k = j THEN "cancelled" ELSE client[k]
                        /\ future'[k] = IF k = j THEN "cancelled" ELSE future[k]
    BY <2>1 DEF WorkerPlain
  <2>3. /\ client' \in [Jobs -> {"none", "waiting", "refused", "timed out"} \cup ResolvedFutures]
        /\ future' \in [Jobs -> {"none", "pending", "running"} \cup ResolvedFutures]
    BY <2>1 DEF WorkerPlain, ResolvedFutures
  <2>4. WorkerPlain'
    BY <1>1, <2>1, <2>3 DEF WorkerPlain
  <2>5. Busy => thread.job # j
    BY <2>1 DEF FuturesFollow
  <2>a. \A k \in Queued' : future'[k] \in {"pending", "cancelled"} /\ client'[k] # "none"
    <3> TAKE k \in Queued'
    <3>1. k \in Jobs /\ future[k] \in {"pending", "cancelled"} /\ client[k] # "none"
      BY <1>2, <1>3 DEF FuturesFollow
    <3> QED
      BY <3>1, <2>2
  <2>c. Busy' => future'[thread'.job] = "running" /\ client'[thread'.job] # "none"
    BY <1>1, <1>3, <2>2, <2>5 DEF FuturesFollow
  <2>d. \A k \in Jobs : (client'[k] = "timed out" => k \in expired') /\ (client'[k] = "cancelled" => future'[k] = "cancelled")
    <3> TAKE k \in Jobs
    <3>1. (client[k] = "timed out" => k \in expired) /\ (client[k] = "cancelled" => future[k] = "cancelled")
      BY DEF FuturesFollow
    <3>2. CASE k = j
      BY <2>2, <3>2
    <3>3. CASE k # j
      BY <2>1, <2>2, <3>1, <3>3
    <3> QED
      BY <3>2, <3>3
  <2>6. FuturesFollow'
    BY <2>a, <2>c, <2>d DEF FuturesFollow
  <2> QED
    BY <1>2, <2>4, <2>6
<1> QED
  BY <1>4, <1>5, <1>6

LEMMA TakeJobKeeps ==
  ASSUME WorkerInv, TakeJob PROVE WorkerInv'
<1> USE DEF WorkerInv
<1> DEFINE h == Head(jobQueue)
<1>1. /\ thread.at = "idle" /\ jobQueue # << >> /\ h # Stop /\ jobQueue' = Tail(jobQueue)
      /\ UNCHANGED <<state, accepting, client, expired, stopping, overtaken>>
  BY DEF TakeJob
<1>2. /\ Tail(jobQueue) \in Seq(Jobs \cup {Stop}) /\ IsInjective(Tail(jobQueue)) /\ h \in Jobs \cup {Stop}
      /\ h \in ToSet(jobQueue) /\ ToSet(Tail(jobQueue)) = ToSet(jobQueue) \ {h}
      /\ Len(Tail(jobQueue)) = Len(jobQueue) - 1
  BY <1>1, TailOnce DEF QueueHolds
<1>3. (IF future[h] = "cancelled"
       THEN /\ tally' = [tally EXCEPT !.cancelled = @ + 1]
            /\ UNCHANGED <<thread, future>>
       ELSE /\ future' = [future EXCEPT ![h] = "running"]
            /\ thread' = [at |-> IF h \in expired THEN "late" ELSE "running", job |-> h]
            /\ UNCHANGED tally)
  BY DEF TakeJob
<1> HIDE DEF h
<1>4. h \in Jobs /\ h \in Queued /\ Queued' = Queued \ {h}
  BY <1>1, <1>2 DEF Queued
<1>5. IsFiniteSet(Queued') /\ Cardinality(Queued') = Cardinality(Queued) - 1 /\ Cardinality(Queued) \in Nat
  BY <1>4, FS_RemoveElement, QueuedCounted DEF QueueHolds
<1>6. QueueHolds'
  <2>1. Len(jobQueue) \in Nat
    BY LenProperties DEF QueueHolds
  <2> QED
    BY <1>1, <1>2, <1>5, <2>1, WorkerBounds DEF QueueHolds
<1>7. tally.submitted \in Nat /\ tally.completed \in Nat /\ tally.failed \in Nat /\ tally.cancelled \in Nat
  BY DEF WorkerPlain
<1>8. tally.submitted = (tally.completed + tally.failed + tally.cancelled) + Cardinality(Queued)
  BY <1>1, <1>5, <1>7, CountedIs DEF Busy
<1>9. CASE future[h] = "cancelled"
  <2>1. tally' = [tally EXCEPT !.cancelled = @ + 1] /\ thread' = thread /\ future' = future
    BY <1>3, <1>9
  <2>t. tally \in [submitted : Nat, completed : Nat, failed : Nat, cancelled : Nat]
        /\ tally' = [tally EXCEPT !.cancelled = @ + 1]
    BY <2>1 DEF WorkerPlain
  <2>2. /\ tally' \in [submitted : Nat, completed : Nat, failed : Nat, cancelled : Nat]
        /\ tally'.submitted = tally.submitted /\ tally'.completed = tally.completed
        /\ tally'.failed = tally.failed /\ tally'.cancelled = tally.cancelled + 1
    BY ONLY <2>t
  <2>3. WorkerPlain'
    BY <1>1, <2>1, <2>2 DEF WorkerPlain
  <2>4. ~Busy'
    BY <1>1, <2>1 DEF Busy
  <2>5. FuturesFollow'
    BY <1>1, <1>4, <2>1, <2>4 DEF FuturesFollow
  <2>6. thread'.at = "idle"
    BY <1>1, <2>1
  <2>7. tally'.submitted = (tally'.completed + tally'.failed + tally'.cancelled) + (Cardinality(Queued') + 0)
    BY <1>5, <1>7, <1>8, <2>2
  <2>8. JobsCounted'
    BY <2>6, <2>7 DEF JobsCounted, Queued
  <2> QED
    BY <1>6, <2>3, <2>5, <2>8
<1>10. CASE future[h] # "cancelled"
  <2>1. /\ future' = [future EXCEPT ![h] = "running"] /\ tally' = tally
        /\ thread' = [at |-> IF h \in expired THEN "late" ELSE "running", job |-> h]
    BY <1>3, <1>10
  <2>2. thread' \in [at : {"running", "late"}, job : Jobs] /\ thread'.job = h /\ Busy'
    BY <1>4, <2>1 DEF Busy
  <2>3. /\ future' \in [Jobs -> {"none", "pending", "running"} \cup ResolvedFutures]
        /\ \A k \in Jobs : future'[k] = IF k = h THEN "running" ELSE future[k]
    BY <1>4, <2>1 DEF WorkerPlain
  <2>4. WorkerPlain'
    BY <1>1, <2>1, <2>2, <2>3 DEF WorkerPlain
  <2>5. client[h] # "cancelled" /\ client[h] # "none"
    BY <1>4, <1>10 DEF FuturesFollow
  <2>6. FuturesFollow'
    <3>1. \A k \in Queued' : k \in Jobs /\ k # h /\ k \in Queued
      BY <1>4 DEF Queued
    <3> QED
      BY <1>1, <1>4, <2>2, <2>3, <2>5, <3>1 DEF FuturesFollow
  <2>7. thread'.at \in {"running", "late"}
    BY <2>2 DEF Busy
  <2>8. tally'.submitted = (tally'.completed + tally'.failed + tally'.cancelled) + (Cardinality(Queued') + 1)
    BY <1>5, <1>7, <1>8, <2>1
  <2>9. JobsCounted'
    BY <2>7, <2>8 DEF JobsCounted, Queued
  <2> QED
    BY <1>6, <2>4, <2>6, <2>9
<1> QED
  BY <1>9, <1>10

LEMMA FinishJobKeeps ==
  ASSUME WorkerInv, FinishJob PROVE WorkerInv'
<1> USE DEF WorkerInv
<1>1. /\ Busy /\ thread' = ThreadIdle
      /\ UNCHANGED <<state, accepting, jobQueue, client, expired, stopping, overtaken>>
  BY DEF FinishJob, Busy
<1>2. PICK outcome \in {"result", "error"} :
        /\ future' = [future EXCEPT ![thread.job] = outcome]
        /\ tally' = IF outcome = "result" THEN [tally EXCEPT !.completed = @ + 1]
                    ELSE [tally EXCEPT !.failed = @ + 1]
  BY DEF FinishJob
<1>3. thread.job \in Jobs /\ future[thread.job] = "running" /\ thread.job \notin Queued
  BY <1>1 DEF Busy, WorkerPlain, FuturesFollow
<1>4. Queued' = Queued /\ QueueHolds' /\ Queued \subseteq Jobs
  BY <1>1 DEF Queued, QueueHolds
<1>5. /\ future' \in [Jobs -> {"none", "pending", "running"} \cup ResolvedFutures]
      /\ \A k \in Jobs : future'[k] = IF k = thread.job THEN outcome ELSE future[k]
  BY <1>2, <1>3 DEF WorkerPlain, ResolvedFutures
<1>6. tally.submitted \in Nat /\ tally.completed \in Nat /\ tally.failed \in Nat /\ tally.cancelled \in Nat
  BY DEF WorkerPlain
<1>7. /\ tally' \in [submitted : Nat, completed : Nat, failed : Nat, cancelled : Nat]
      /\ tally'.submitted = tally.submitted /\ tally'.cancelled = tally.cancelled
      /\ tally'.completed + tally'.failed = tally.completed + tally.failed + 1
  <2>t. tally \in [submitted : Nat, completed : Nat, failed : Nat, cancelled : Nat]
    BY DEF WorkerPlain
  <2>1. CASE tally' = [tally EXCEPT !.completed = @ + 1]
    BY ONLY <2>t, <2>1
  <2>2. CASE tally' = [tally EXCEPT !.failed = @ + 1]
    BY ONLY <2>t, <2>2
  <2> QED
    BY <1>2, <2>1, <2>2
<1>8. thread' \in [at : {"none", "opening", "idle", "closing", "closed", "stopped"}] /\ thread'.at = "idle"
  BY <1>1 DEF ThreadIdle
<1>9. WorkerPlain'
  <2>1. state \in {"NEW", "STARTING", "RUNNING", "STOPPING", "STOPPED", "FAILED"} /\ state # "NEW"
    BY <1>1 DEF WorkerPlain, Busy
  <2> QED
    BY <1>1, <1>5, <1>7, <1>8, <2>1 DEF WorkerPlain
<1>10. FuturesFollow'
  <2>1. ~Busy'
    BY <1>8 DEF Busy
  <2> QED
    BY <1>1, <1>3, <1>4, <1>5, <2>1 DEF FuturesFollow
<1>11. JobsCounted'
  <2>1. Cardinality(Queued) \in Nat
    BY QueuedCounted
  <2>2. tally.submitted = (tally.completed + tally.failed + tally.cancelled) + (Cardinality(Queued) + 1)
    BY <1>1, <1>6, <2>1, CountedIs DEF Busy
  <2>3. tally'.submitted = (tally'.completed + tally'.failed + tally'.cancelled) + (Cardinality(Queued') + 0)
    <3>1. tally'.submitted \in Nat /\ tally'.completed \in Nat /\ tally'.failed \in Nat /\ tally'.cancelled \in Nat
      BY <1>7
    <3> QED
      BY <1>4, <1>6, <1>7, <2>1, <2>2, <3>1
  <2> QED
    BY <1>8, <2>3 DEF JobsCounted, Queued
<1> QED
  BY <1>4, <1>9, <1>10, <1>11

LEMMA ThreadFreeKeeps ==
  ASSUME WorkerInv, Start \/ MarkStopping \/ Opened \/ Crash \/ ThreadEnds PROVE WorkerInv'
<1> USE DEF WorkerInv
<1>1. /\ jobQueue' = jobQueue /\ future' = future /\ client' = client /\ expired' = expired /\ tally' = tally
  BY DEF Start, MarkStopping, Opened, Crash, ThreadEnds
<1>2. /\ state' \in {"NEW", "STARTING", "RUNNING", "STOPPING", "STOPPED", "FAILED"}
      /\ accepting' \in BOOLEAN /\ overtaken' \in BOOLEAN
      /\ stopping' \in {"no", "calling", "given up", "enqueued"}
  BY DEF Start, MarkStopping, Opened, Crash, ThreadEnds, WorkerPlain
<1>3. QueueHolds' /\ Queued' = Queued
  BY <1>1, QueueStays
<1>4. CASE Start \/ Opened \/ Crash \/ ThreadEnds
  <2>1. PICK place \in {"opening", "idle", "closing", "stopped"} : thread' = [at |-> place]
    BY <1>4 DEF Start, Opened, Crash, ThreadEnds, ThreadIdle
  <2>2. thread' \in [at : {"none", "opening", "idle", "closing", "closed", "stopped"}] /\ ~Busy' /\ thread'.at = place
    BY <2>1 DEF Busy
  <2>a. state' # "NEW"
    BY <1>4 DEF Start, Opened, Crash, ThreadEnds
  <2>3. WorkerPlain'
    BY <1>1, <1>2, <2>2, <2>a DEF WorkerPlain
  <2>4. FuturesFollow'
    BY <1>1, <1>3, <2>2 DEF FuturesFollow
  <2>5. CASE ThreadEnds
    <3>1. thread.at = "closed" /\ thread'.at = "stopped"
      BY <2>5 DEF ThreadEnds
    <3> QED
      BY <1>1, <1>3, <2>3, <2>4, <3>1 DEF JobsCounted
  <2>6. CASE Opened \/ Crash
    <3>1. ~Busy /\ thread.at \notin {"closed", "stopped"}
      BY <2>6 DEF Opened, Crash, Busy
    <3> QED
      BY <1>1, <1>3, <2>2, <2>3, <2>4, <3>1, QueueStays
  <2>7. CASE Start
    <3>1. ~Busy /\ thread.at \notin {"closed", "stopped"}
      BY <2>7 DEF Start, WorkerPlain, Busy
    <3> QED
      BY <1>1, <1>3, <2>2, <2>3, <2>4, <3>1, QueueStays
  <2> QED
    BY <1>4, <2>5, <2>6, <2>7
<1>5. CASE MarkStopping
  <2>1. thread' = thread
    BY <1>5 DEF MarkStopping
  <2>a. state' # "NEW"
    BY <1>5 DEF MarkStopping
  <2>b. WorkerPlain'
    BY <1>1, <1>2, <2>1, <2>a DEF WorkerPlain
  <2>c. FuturesFollow'
    BY <1>1, <1>3, <2>1 DEF FuturesFollow, Busy
  <2>2. WorkerPlain' /\ FuturesFollow' /\ JobsCounted'
    BY <1>1, <2>1, <2>b, <2>c, QueueStays
  <2> QED
    BY <1>3, <2>2
<1> QED
  BY <1>4, <1>5

LEMMA StopKeeps ==
  ASSUME WorkerInv, StopFollows, EnqueueStop \/ TakeStop PROVE WorkerInv'
<1> USE DEF WorkerInv
<1>1. future' = future /\ client' = client /\ expired' = expired /\ tally' = tally
      /\ state' = state /\ accepting' = accepting /\ overtaken' = overtaken
      /\ stopping' \in {"no", "calling", "given up", "enqueued"}
  BY DEF EnqueueStop, TakeStop, WorkerPlain
<1>2. Queued' = Queued /\ QueueHolds'
  <2>1. CASE EnqueueStop
    <3>1. Stop \notin ToSet(jobQueue) /\ jobQueue' = Append(jobQueue, Stop) /\ Len(jobQueue) < JobCapacity
      BY <2>1 DEF EnqueueStop, StopFollows
    <3>2. /\ jobQueue' \in Seq(Jobs \cup {Stop}) /\ IsInjective(jobQueue')
          /\ ToSet(jobQueue') = ToSet(jobQueue) \cup {Stop} /\ Len(jobQueue') = Len(jobQueue) + 1
      BY <3>1, AppendedOnce DEF QueueHolds
    <3>3. Queued' = Queued
      BY <3>2, WorkerBounds DEF Queued
    <3>4. Len(jobQueue) \in Nat
      BY LenProperties DEF QueueHolds
    <3> QED
      BY <3>1, <3>2, <3>3, <3>4, WorkerBounds DEF QueueHolds
  <2>2. CASE TakeStop
    <3>1. jobQueue # << >> /\ Head(jobQueue) = Stop /\ jobQueue' = Tail(jobQueue)
      BY <2>2 DEF TakeStop
    <3>2. /\ jobQueue' \in Seq(Jobs \cup {Stop}) /\ IsInjective(jobQueue')
          /\ ToSet(jobQueue') = ToSet(jobQueue) \ {Stop} /\ Len(jobQueue') = Len(jobQueue) - 1
      BY <3>1, TailOnce DEF QueueHolds
    <3>3. Queued' = Queued
      BY <3>2, WorkerBounds DEF Queued
    <3>4. Len(jobQueue) \in Nat
      BY LenProperties DEF QueueHolds
    <3> QED
      BY <3>2, <3>3, <3>4, WorkerBounds DEF QueueHolds
  <2> QED
    BY <2>1, <2>2
<1>3. CASE EnqueueStop
  <2>1. thread' = thread
    BY <1>3 DEF EnqueueStop
  <2> QED
    BY <1>1, <1>2, <2>1 DEF WorkerPlain, FuturesFollow, Busy, JobsCounted, Queued
<1>4. CASE TakeStop
  <2>1. thread.at = "idle" /\ thread' = [at |-> "closing"]
    BY <1>4 DEF TakeStop
  <2>2. thread' \in [at : {"none", "opening", "idle", "closing", "closed", "stopped"}] /\ ~Busy /\ ~Busy' /\ thread'.at = "closing"
    BY <2>1 DEF Busy
  <2>3. WorkerPlain' /\ FuturesFollow'
    BY <1>1, <1>2, <2>1, <2>2 DEF WorkerPlain, FuturesFollow
  <2>4. JobsCounted'
    BY <1>1, <1>2, <2>1, <2>2 DEF JobsCounted, Queued
  <2> QED
    BY <1>2, <2>3, <2>4
<1> QED
  BY <1>3, <1>4

LEMMA FailPendingKeeps ==
  ASSUME WorkerInv, FailPending PROVE WorkerInv'
<1> USE DEF WorkerInv
<1>1. /\ thread.at = "closing" /\ jobQueue' = << >> /\ thread' = [at |-> "closed"]
      /\ future' = [j \in Jobs |->
           IF j \in ToSet(jobQueue) /\ future[j] = "pending" THEN "error" ELSE future[j]]
      /\ UNCHANGED <<state, accepting, client, expired, stopping, overtaken, tally>>
  BY DEF FailPending
<1>2. Queued' = {} /\ IsInjective(jobQueue') /\ Len(jobQueue') = 0 /\ jobQueue' \in Seq(Jobs \cup {Stop})
  BY <1>1, EmptyOnce DEF Queued
<1>3. QueueHolds'
  BY <1>2, FS_EmptySet, WorkerBounds DEF QueueHolds
<1>4. thread' \in [at : {"none", "opening", "idle", "closing", "closed", "stopped"}] /\ thread'.at = "closed"
  BY <1>1
<1>5. \A j \in Jobs : future'[j] \in {"error", future[j]} /\ (future[j] = "cancelled" => future'[j] = "cancelled")
  BY <1>1
<1>6. future' \in [Jobs -> {"none", "pending", "running"} \cup ResolvedFutures]
  BY <1>1, <1>5 DEF WorkerPlain, ResolvedFutures
<1>7. WorkerPlain'
  BY <1>1, <1>4, <1>6 DEF WorkerPlain
<1>8. FuturesFollow'
  BY <1>1, <1>2, <1>4, <1>5 DEF FuturesFollow, Busy
<1>9. JobsCounted'
  <2>1. Cardinality(Queued) \in Nat
    BY QueuedCounted
  <2>2. tally.submitted \in Nat /\ tally.completed \in Nat /\ tally.failed \in Nat /\ tally.cancelled \in Nat
    BY DEF WorkerPlain
  <2>3. tally.submitted = (tally.completed + tally.failed + tally.cancelled) + Cardinality(Queued)
    BY <1>1, <2>1, <2>2, CountedIs DEF Busy
  <2>4. tally.completed + tally.failed + tally.cancelled <= tally.submitted
    BY <2>1, <2>2, <2>3
  <2> QED
    BY <1>1, <1>4, <2>4 DEF JobsCounted
<1> QED
  BY <1>3, <1>7, <1>8, <1>9

LEMMA WorkerStep == WorkerInv /\ StopFollows /\ [WorkerNext]_workerVars => WorkerInv'
<1> SUFFICES ASSUME WorkerInv, StopFollows, [WorkerNext]_workerVars PROVE WorkerInv'
  OBVIOUS
<1>1. CASE \E j \in Jobs : Submit(j)
  BY <1>1, SubmitKeeps
<1>2. CASE \E j \in Jobs : Expire(j) \/ Answer(j) \/ GiveUp(j) \/ Cancel(j)
  BY <1>2, ClientKeeps
<1>3. CASE TakeJob
  BY <1>3, TakeJobKeeps
<1>4. CASE FinishJob
  BY <1>4, FinishJobKeeps
<1>5. CASE Start \/ MarkStopping \/ Opened \/ Crash \/ ThreadEnds
  BY <1>5, ThreadFreeKeeps
<1>6. CASE EnqueueStop \/ TakeStop
  BY <1>6, StopKeeps
<1>7. CASE FailPending
  BY <1>7, FailPendingKeeps
<1>8. CASE StopGivesUp
  <2>1. /\ state' = state /\ accepting' = accepting /\ jobQueue' = jobQueue /\ thread' = thread
        /\ future' = future /\ client' = client /\ expired' = expired /\ stopping' = "given up"
        /\ overtaken' = overtaken /\ tally' = tally
    BY <1>8 DEF StopGivesUp
  <2>2. WorkerPlain'
    BY <2>1 DEF WorkerInv, WorkerPlain
  <2>3. QueueHolds' /\ JobsCounted'
    BY <2>1, QueueStays
  <2>4. FuturesFollow'
    BY <2>1 DEF WorkerInv, FuturesFollow, Queued, Busy
  <2> QED
    BY <2>2, <2>3, <2>4 DEF WorkerInv
<1>9. CASE UNCHANGED workerVars
  <2>1. /\ state' = state /\ accepting' = accepting /\ jobQueue' = jobQueue /\ thread' = thread
        /\ future' = future /\ client' = client /\ expired' = expired /\ stopping' = stopping
        /\ overtaken' = overtaken /\ tally' = tally
    BY <1>9 DEF workerVars
  <2>2. WorkerPlain'
    BY <2>1 DEF WorkerInv, WorkerPlain
  <2>3. QueueHolds' /\ JobsCounted'
    BY <2>1, QueueStays
  <2>4. FuturesFollow'
    BY <2>1 DEF WorkerInv, FuturesFollow, Queued, Busy
  <2> QED
    BY <2>2, <2>3, <2>4 DEF WorkerInv
<1> QED
  BY <1>1, <1>2, <1>3, <1>4, <1>5, <1>6, <1>7, <1>8, <1>9 DEF WorkerNext, ThreadStep

\* A job is admitted only while the worker accepts, and joins the queue.
LEMMA StopStep ==
  StopInv /\ [WorkerNext]_workerVars => StopFollows' /\ PendingFollow'
<1> SUFFICES ASSUME StopInv, [WorkerNext]_workerVars PROVE StopFollows' /\ PendingFollow'
  OBVIOUS
<1> USE DEF StopInv, WorkerInv
<1>p. future \in [Jobs -> {"none", "pending", "running"} \cup ResolvedFutures]
  BY DEF WorkerPlain
<1>q. jobQueue \in Seq(Jobs \cup {Stop}) /\ IsInjective(jobQueue)
  BY DEF QueueHolds
<1>1. CASE \E j \in Jobs : Submit(j)
  <2>1. PICK j \in Jobs : Submit(j)
    BY <1>1
  <2>2. UNCHANGED <<state, accepting, thread, stopping, overtaken>>
    BY <2>1 DEF Submit
  <2>3. CASE jobQueue' = jobQueue /\ future' = future
    BY <2>2, <2>3 DEF StopFollows, PendingFollow, Queued
  <2>4. CASE jobQueue' = Append(jobQueue, j) /\ future' = [future EXCEPT ![j] = "pending"]
    <3>1. j \notin ToSet(jobQueue)
      BY <2>1 DEF Submit, FuturesFollow, Queued
    <3>2. ToSet(jobQueue') = ToSet(jobQueue) \cup {j}
      BY <1>q, <2>4, <3>1, AppendedOnce
    <3>3. Stop \in ToSet(jobQueue') => Stop \in ToSet(jobQueue)
      BY <3>2, WorkerBounds
    <3>4. StopFollows'
      BY <2>2, <3>3 DEF StopFollows
    <3>5. \A k \in Jobs : future'[k] = "pending" => k = j \/ future[k] = "pending"
      BY <1>p, <2>4
    <3>a. Len(jobQueue') = Len(jobQueue) + 1 /\ Len(jobQueue) \in Nat
      BY <1>q, <2>4, <3>1, AppendedOnce, LenProperties
    <3>b. accepting
      BY <2>1, <3>a DEF Submit
    <3>6. PendingFollow'
      BY <2>2, <3>2, <3>5, <3>b DEF PendingFollow, StopFollows, Queued
    <3> QED
      BY <3>4, <3>6
  <2> QED
    BY <2>1, <2>3, <2>4 DEF Submit
<1>2. CASE \E j \in Jobs : Expire(j) \/ Answer(j) \/ GiveUp(j) \/ Cancel(j)
  <2>1. PICK j \in Jobs : Expire(j) \/ Answer(j) \/ GiveUp(j) \/ Cancel(j)
    BY <1>2
  <2>2. UNCHANGED <<state, accepting, thread, stopping, overtaken, jobQueue>>
    BY <2>1 DEF Expire, Answer, GiveUp, Cancel
  <2>3. future' \in {future, [future EXCEPT ![j] = "cancelled"]}
    BY <2>1 DEF Expire, Answer, GiveUp, Cancel
  <2>4. \A k \in Jobs : future'[k] = "pending" => future[k] = "pending"
    BY <1>p, <2>3
  <2> QED
    BY <2>2, <2>4 DEF StopFollows, PendingFollow, Queued
<1>3. CASE TakeJob
  <2> DEFINE h == Head(jobQueue)
  <2>1. /\ thread.at = "idle" /\ jobQueue # << >> /\ jobQueue' = Tail(jobQueue)
        /\ UNCHANGED <<state, accepting, stopping, overtaken>>
    BY <1>3 DEF TakeJob
  <2>2. ToSet(jobQueue') = ToSet(jobQueue) \ {h}
    BY <1>q, <2>1, TailOnce
  <2>3. \/ future[h] = "cancelled" /\ future' = future /\ thread' = thread
        \/ /\ future' = [future EXCEPT ![h] = "running"]
           /\ thread' = [at |-> IF h \in expired THEN "late" ELSE "running", job |-> h]
    BY <1>3 DEF TakeJob
  <2> HIDE DEF h
  <2>4. thread'.at \in {"idle", "late", "running"}
    BY <2>1, <2>3
  <2>5. StopFollows'
    BY <2>1, <2>2, <2>4 DEF StopFollows, WorkerPlain
  <2>6. \A k \in Jobs : future'[k] = "pending" => future[k] = "pending" /\ k # h
    BY <1>p, <2>3
  <2>7. PendingFollow'
    BY <2>1, <2>2, <2>4, <2>6 DEF PendingFollow, Queued
  <2> QED
    BY <2>5, <2>7
<1>4. CASE FinishJob
  <2>1. /\ Busy /\ thread' = ThreadIdle
        /\ UNCHANGED <<state, accepting, jobQueue, stopping, overtaken>>
    BY <1>4 DEF FinishJob, Busy
  <2>2. PICK outcome \in {"result", "error"} : future' = [future EXCEPT ![thread.job] = outcome]
    BY <1>4 DEF FinishJob
  <2>3. \A k \in Jobs : future'[k] = "pending" => future[k] = "pending"
    BY <1>p, <2>2
  <2>4. thread'.at = "idle" /\ thread.at \notin {"closed", "stopped"}
    BY <2>1 DEF ThreadIdle, Busy
  <2> QED
    BY <2>1, <2>3, <2>4 DEF StopFollows, PendingFollow, Queued
<1>5. CASE Start
  <2>1. /\ state = "NEW" /\ state' = "STARTING" /\ thread'.at = "opening"
        /\ UNCHANGED <<accepting, jobQueue, future, stopping, overtaken>>
    BY <1>5 DEF Start
  <2>2. thread.at = "none"
    BY <2>1 DEF WorkerPlain
  <2> QED
    BY <2>1, <2>2 DEF StopFollows, PendingFollow, Queued
<1>6. CASE MarkStopping
  <2>1. /\ state' \in {"STOPPED", "STOPPING"} /\ (state # "NEW" => state' = "STOPPING")
        /\ accepting' = FALSE /\ (stopping = "enqueued" => state = "NEW" \/ stopping' = "enqueued")
        /\ UNCHANGED <<jobQueue, thread, future, overtaken>>
    BY <1>6 DEF MarkStopping
  <2>2. state = "NEW" => stopping = "no" /\ thread.at = "none"
    BY DEF StopFollows, WorkerPlain
  <2>3. StopFollows'
    BY <2>1, <2>2 DEF StopFollows
  <2>4. PendingFollow'
    BY <2>1 DEF PendingFollow, Queued
  <2> QED
    BY <2>3, <2>4
<1>7. CASE EnqueueStop \/ StopGivesUp
  <2>1. UNCHANGED <<state, accepting, thread, future, overtaken>> /\ stopping = "calling"
    BY <1>7 DEF EnqueueStop, StopGivesUp
  <2>2. Stop \notin ToSet(jobQueue)
    BY <2>1 DEF StopFollows
  <2>3. CASE EnqueueStop
    <3>1. ToSet(jobQueue') = ToSet(jobQueue) \cup {Stop} /\ stopping' = "enqueued"
      BY <1>q, <2>2, <2>3, AppendedOnce DEF EnqueueStop
    <3> QED
      BY <2>1, <3>1 DEF StopFollows, PendingFollow, Queued
  <2>4. CASE StopGivesUp
    <3>1. jobQueue' = jobQueue /\ stopping' = "given up"
      BY <2>4 DEF StopGivesUp
    <3> QED
      BY <2>1, <2>2, <3>1 DEF StopFollows, PendingFollow, Queued
  <2> QED
    BY <1>7, <2>3, <2>4
<1>8. CASE Opened
  <2>1. /\ thread.at = "opening" /\ state' = "RUNNING" /\ thread'.at = "idle"
        /\ overtaken' = (state = "STOPPING")
        /\ UNCHANGED <<jobQueue, future, stopping>>
    BY <1>8 DEF Opened, ThreadIdle
  <2> QED
    BY <2>1 DEF StopFollows, PendingFollow, Queued
<1>9. CASE Crash
  <2>1. /\ thread.at \in {"opening", "idle"} /\ state' = "FAILED" /\ accepting' = FALSE
        /\ thread'.at = "closing" /\ UNCHANGED <<jobQueue, future, stopping, overtaken>>
    BY <1>9 DEF Crash
  <2> QED
    BY <2>1 DEF StopFollows, PendingFollow, Queued
<1>10. CASE TakeStop
  <2>1. /\ thread.at = "idle" /\ jobQueue # << >> /\ Head(jobQueue) = Stop
        /\ jobQueue' = Tail(jobQueue) /\ thread'.at = "closing"
        /\ UNCHANGED <<state, accepting, future, stopping, overtaken>>
    BY <1>10 DEF TakeStop
  <2>2. Stop \in ToSet(jobQueue) /\ ToSet(jobQueue') = ToSet(jobQueue) \ {Stop}
    BY <1>q, <2>1, TailOnce
  <2>3. StopFollows'
    BY <2>1, <2>2 DEF StopFollows
  <2>4. PendingFollow'
    BY <2>1, <2>2, WorkerBounds DEF PendingFollow, Queued
  <2> QED
    BY <2>3, <2>4
<1>11. CASE FailPending
  <2>1. /\ thread.at = "closing" /\ jobQueue' = << >> /\ thread'.at = "closed"
        /\ future' = [j \in Jobs |->
             IF j \in ToSet(jobQueue) /\ future[j] = "pending" THEN "error" ELSE future[j]]
        /\ UNCHANGED <<state, accepting, stopping, overtaken>>
    BY <1>11 DEF FailPending
  <2>2. ToSet(jobQueue') = {}
    BY <2>1, EmptyOnce
  <2>3. \A k \in Jobs : future'[k] # "pending"
    BY <2>1 DEF PendingFollow, Queued
  <2> QED
    BY <2>1, <2>2, <2>3 DEF StopFollows, PendingFollow
<1>12. CASE ThreadEnds
  <2>1. /\ thread.at = "closed" /\ thread'.at = "stopped" /\ accepting' = FALSE
        /\ state' \in {"STOPPED", "FAILED"}
        /\ UNCHANGED <<jobQueue, future, stopping, overtaken>>
    BY <1>12 DEF ThreadEnds
  <2> QED
    BY <2>1 DEF StopFollows, PendingFollow, Queued
<1>13. CASE UNCHANGED workerVars
  BY <1>13 DEF workerVars, StopFollows, PendingFollow, Queued
<1> QED
  BY <1>1, <1>2, <1>3, <1>4, <1>5, <1>6, <1>7, <1>8, <1>9, <1>10, <1>11, <1>12, <1>13
  DEF WorkerNext, ThreadStep

\* A stop that is not overtaken has closed the admission of jobs.
LEMMA RejectsOnceStopped ==
  ASSUME StopInv, [WorkerNext]_workerVars, stopping # "no", ~overtaken
  PROVE  tally'.submitted = tally.submitted
<1>1. ~accepting
  BY DEF StopInv, StopFollows
<1>2. tally \in [submitted : Nat, completed : Nat, failed : Nat, cancelled : Nat]
  BY DEF StopInv, WorkerInv, WorkerPlain
<1>3. tally' \in {tally, [tally EXCEPT !.completed = @ + 1], [tally EXCEPT !.failed = @ + 1],
                  [tally EXCEPT !.cancelled = @ + 1]}
  BY <1>1 DEF WorkerNext, ThreadStep, Start, Submit, Expire, Answer, GiveUp, Cancel, MarkStopping,
     EnqueueStop, StopGivesUp, Opened, Crash, TakeJob, FinishJob, TakeStop, FailPending, ThreadEnds,
     workerVars
<1> QED
  BY ONLY <1>2, <1>3

\* A caller gives up after the deadline, when the thread no longer starts the
\* job, or with a future the thread skips.
LEMMA StartsForSomebody ==
  ASSUME WorkerInv, [WorkerNext]_workerVars, NEW j \in Jobs, client[j] \in {"timed out", "cancelled"}
  PROVE  ~(thread'.at = "running" /\ thread'.job = j /\ thread.at = "idle")
<1> SUFFICES ASSUME thread'.at = "running", thread'.job = j, thread.at = "idle" PROVE FALSE
  OBVIOUS
<1>1. CASE TakeJob
  <2>1. future[Head(jobQueue)] # "cancelled"
        /\ thread' = [at |-> IF Head(jobQueue) \in expired THEN "late" ELSE "running", job |-> Head(jobQueue)]
    BY <1>1 DEF TakeJob
  <2>2. Head(jobQueue) = j /\ j \notin expired
    BY <2>1
  <2> QED
    BY <2>1, <2>2 DEF WorkerInv, FuturesFollow
<1>2. CASE UNCHANGED thread
  BY <1>2
<1>3. CASE Start \/ Opened \/ Crash \/ FinishJob \/ TakeStop \/ FailPending \/ ThreadEnds
  <2>1. PICK place \in {"opening", "idle", "closing", "closed", "stopped"} : thread' = [at |-> place]
    BY <1>3 DEF Start, Opened, Crash, FinishJob, TakeStop, FailPending, ThreadEnds, ThreadIdle
  <2>2. thread'.at = place
    BY <2>1
  <2> QED
    BY <2>2
<1> QED
  BY <1>1, <1>2, <1>3 DEF WorkerNext, ThreadStep, MarkStopping, EnqueueStop, StopGivesUp, Submit, Expire, Answer,
     GiveUp, Cancel, workerVars

LEMMA WorkerInvImplies == WorkerInv => WorkerTypeOK /\ JobsCounted
<1> SUFFICES ASSUME WorkerInv PROVE WorkerTypeOK /\ JobsCounted
  OBVIOUS
<1>1. ToSet(jobQueue) \subseteq Jobs \cup {Stop}
  BY ElementOfSeq, LenProperties DEF ToSet, WorkerInv, QueueHolds
<1> QED
  BY <1>1 DEF WorkerInv, WorkerPlain, QueueHolds, WorkerTypeOK

\* Jobs are counted at every moment, none is started for a caller that is gone,
\* and unless a stop was overtaken while the store was being opened it admits no
\* job and leaves none pending.
THEOREM WorkerSoundness == WorkerSpec => WorkerSound
<1>1. WorkerInit => StopInv
  <2>1. WorkerInit => StopFollows /\ PendingFollow
    BY EmptyOnce DEF WorkerInit, StopFollows, PendingFollow
  <2> QED
    BY <2>1, WorkerStarts DEF StopInv
<1>2. StopInv /\ [WorkerNext]_workerVars => StopInv'
  BY WorkerStep, StopStep DEF StopInv
<1>3. StopInv => WorkerTypeOK /\ JobsCounted /\ NoneLeftBehind
  <2>1. StopInv => NoneLeftBehind
    <3> SUFFICES ASSUME StopInv, NEW j \in Jobs, future[j] = "pending",
                        thread.at \in {"closed", "stopped"}, ~overtaken
                 PROVE  FALSE
      BY DEF NoneLeftBehind
    <3> QED
      BY DEF StopInv, PendingFollow
  <2> QED
    BY <2>1, WorkerInvImplies DEF StopInv
<1>4. StopInv /\ [WorkerNext]_workerVars =>
        [\A j \in Jobs : client[j] \in {"timed out", "cancelled"} =>
           ~(thread'.at = "running" /\ thread'.job = j /\ thread.at = "idle")]_workerVars
  BY StartsForSomebody DEF StopInv
<1>5. StopInv /\ [WorkerNext]_workerVars =>
        [stopping # "no" /\ ~overtaken => tally'.submitted = tally.submitted]_workerVars
  BY RejectsOnceStopped
<1> QED
  BY <1>1, <1>2, <1>3, <1>4, <1>5, PTL
  DEF WorkerSpec, WorkerSound, AbandonedNeverStarts, StopRejects

-----------------------------------------------------------------------------
Keys == Assets \X Windows
TradeRow == [asset : Assets, window : Windows, side : Sides,
             status : Committed \cup Terminal, retries : 0..MaxRetries]
LockRow(n) ==
  [side : Sides \cup {""}, trade : 0..n, late : BOOLEAN,
   status : ActiveLock \cup {"NONE", "ENTERED", "SKIPPED", "COMPLETE"},
   life : {"NONE", "DIRECTION_LOCKED", "SKIPPED", "COMPLETE"} \cup Committed \cup Terminal]

USE DEF Keys

LEMMA LaneBounds ==
  /\ NWindows \in Nat /\ NWindows > 0 /\ MaxOpen \in Nat /\ MaxPerAsset \in Nat
  /\ MaxOpen > 0 /\ MaxPerAsset > 0
  /\ MaxRetries \in Nat /\ Batch \in Nat /\ Batch > 0 /\ MaxCrashes \in Nat
BY LiteAssumption

LEMMA StatusesApart ==
  /\ OpenStatuses \cap Unresolved = {} /\ Terminal \cap Committed = {}
  /\ OpenStatuses \subseteq Committed /\ Unresolved \subseteq Committed
  /\ "PENDING_RESOLUTION" \in Unresolved /\ "UNRESOLVED_RETRYING" \in Unresolved
  /\ "UNRESOLVED_FINAL" \in Unresolved
  /\ "OPEN" \in OpenStatuses /\ "EXIT_PENDING" \in OpenStatuses
  /\ {"CLOSED_BOOK_EXIT", "CLOSED_WIN", "CLOSED_LOSS"} \subseteq Terminal
BY DEF OpenStatuses, Unresolved, Terminal, Committed

-----------------------------------------------------------------------------
(* Locks and trades *)

\* LifecycleAgrees of any locks and trades
LockTells(l, k, ts) ==
  IF l.trade = 0 THEN l.status \notin {"ENTERED", "COMPLETE"}
  ELSE LET t == ts[l.trade] IN
       /\ <<t.asset, t.window, t.side>> = <<k[1], k[2], l.side>>
       /\ \/ l.status = "ENTERED" /\ l.life = t.status
          \/ /\ l.status = "COMPLETE" /\ l.life = "COMPLETE"
             /\ t.status \in Terminal
Agrees(ls, ts) ==
  /\ \A k \in Keys : LockTells(ls[k], k, ts)
  /\ \A i \in DOMAIN ts : ls[<<ts[i].asset, ts[i].window>>].trade = i

Tables(ls, ts) ==
  /\ ts \in Seq(TradeRow) /\ ls \in [Keys -> LockRow(Len(ts))]

LEMMA AgreesIs ==
  ASSUME locks \in [Keys -> LockRow(Len(trades))] PROVE LifecycleAgrees <=> Agrees(locks, trades)
BY DEF LifecycleAgrees, Agrees, LockTells

LEMMA RowsOf ==
  ASSUME NEW ts \in Seq(TradeRow)
  PROVE  /\ Len(ts) \in Nat /\ DOMAIN ts = 1..Len(ts) /\ IsFiniteSet(DOMAIN ts)
         /\ \A i \in DOMAIN ts : /\ ts[i] \in TradeRow /\ <<ts[i].asset, ts[i].window>> \in Keys
                                 /\ ts[i].status \in Committed \cup Terminal
                                 /\ i # 0 /\ i \in 1..Len(ts)
<1>1. Len(ts) \in Nat /\ DOMAIN ts = 1..Len(ts)
  BY LenProperties
<1>2. \A i \in DOMAIN ts : ts[i] \in TradeRow
  BY <1>1, ElementOfSeq
<1>3. IsFiniteSet(DOMAIN ts)
  BY <1>1, FS_Interval
<1> QED
  BY <1>1, <1>2, <1>3 DEF TradeRow

LEMMA TradeNamed ==
  ASSUME NEW ls, NEW ts, Tables(ls, ts), NEW k \in Keys
  PROVE  ls[k] \in LockRow(Len(ts)) /\ (ls[k].trade # 0 => ls[k].trade \in DOMAIN ts)
<1>1. Len(ts) \in Nat /\ DOMAIN ts = 1..Len(ts)
  BY RowsOf DEF Tables
<1>2. ls[k] \in LockRow(Len(ts))
  BY DEF Tables
<1>3. ls[k].trade \in 0..Len(ts)
  BY <1>2 DEF LockRow
<1> QED
  BY <1>1, <1>2, <1>3

\* One entry per asset and window: the lock of a window names one trade.
LEMMA AgreesOnce ==
  ASSUME NEW ls, NEW ts, Agrees(ls, ts)
  PROVE  \A i, j \in DOMAIN ts :
           i # j => <<ts[i].asset, ts[i].window>> # <<ts[j].asset, ts[j].window>>
BY DEF Agrees

\* A trade that is not closed is named by a lock that is entered.
LEMMA LiveEntered ==
  ASSUME NEW ls, NEW ts, Tables(ls, ts), Agrees(ls, ts), NEW k \in Keys,
         ls[k].trade # 0, ts[ls[k].trade].status \notin Terminal
  PROVE  /\ ls[k].status = "ENTERED" /\ ls[k].life = ts[ls[k].trade].status
         /\ ls[k].trade \in DOMAIN ts
<1>1. ls[k].trade \in DOMAIN ts
  BY TradeNamed
<1> QED
  BY <1>1 DEF Agrees, LockTells

LEMMA FinalizedAgrees ==
  ASSUME NEW ls, NEW ts, Tables(ls, ts), Agrees(ls, ts)
  PROVE  /\ Tables(Finalized(ls, ts), ts) /\ Agrees(Finalized(ls, ts), ts)
         /\ \A k \in Keys :
              /\ Finalized(ls, ts)[k].trade = ls[k].trade
              /\ ls[k].trade # 0 /\ ts[ls[k].trade].status \notin Terminal =>
                   Finalized(ls, ts)[k] = ls[k]
<1> DEFINE fs == Finalized(ls, ts)
<1>1. DOMAIN ls = Keys /\ \A k \in Keys : ls[k] \in LockRow(Len(ts))
  BY DEF Tables
<1>2. DOMAIN fs = Keys
  BY <1>1 DEF Finalized
<1>3. \A k \in Keys :
        \/ fs[k] = ls[k]
        \/ /\ fs[k] = [ls[k] EXCEPT !.status = "COMPLETE", !.life = "COMPLETE"]
           /\ ls[k].trade # 0 /\ ts[ls[k].trade].status \in Terminal
        \/ /\ fs[k] = [ls[k] EXCEPT !.status = "SKIPPED", !.life = "SKIPPED"]
           /\ ls[k].trade = 0 /\ ls[k].status \in ActiveLock
  BY <1>1 DEF Finalized
<1>4. fs = [k \in Keys |-> fs[k]]
  BY <1>1 DEF Finalized
<1> HIDE DEF fs
<1>5. ASSUME NEW k \in Keys
      PROVE  /\ fs[k] \in LockRow(Len(ts)) /\ fs[k].trade = ls[k].trade
             /\ LockTells(fs[k], k, ts)
             /\ ls[k].trade # 0 /\ ts[ls[k].trade].status \notin Terminal => fs[k] = ls[k]
  <2>1. ls[k] \in LockRow(Len(ts)) /\ LockTells(ls[k], k, ts)
    BY <1>1 DEF Agrees
  <2>2. CASE fs[k] = ls[k]
    BY <2>1, <2>2
  <2>3. CASE /\ fs[k] = [ls[k] EXCEPT !.status = "COMPLETE", !.life = "COMPLETE"]
             /\ ls[k].trade # 0 /\ ts[ls[k].trade].status \in Terminal
    <3>1. /\ fs[k] \in LockRow(Len(ts)) /\ fs[k].trade = ls[k].trade /\ fs[k].side = ls[k].side
          /\ fs[k].status = "COMPLETE" /\ fs[k].life = "COMPLETE"
      BY <2>1, <2>3 DEF LockRow
    <3> QED
      BY <2>1, <2>3, <3>1 DEF LockTells
  <2>4. CASE /\ fs[k] = [ls[k] EXCEPT !.status = "SKIPPED", !.life = "SKIPPED"]
             /\ ls[k].trade = 0 /\ ls[k].status \in ActiveLock
    <3>1. /\ fs[k] \in LockRow(Len(ts)) /\ fs[k].trade = ls[k].trade
          /\ fs[k].status = "SKIPPED"
      BY <2>1, <2>4 DEF LockRow
    <3> QED
      BY <2>4, <3>1 DEF LockTells
  <2> QED
    BY <1>3, <2>2, <2>3, <2>4
<1>6. fs \in [Keys -> LockRow(Len(ts))]
  BY <1>4, <1>5
<1>7. \A i \in DOMAIN ts : fs[<<ts[i].asset, ts[i].window>>].trade = i
  BY <1>5, RowsOf DEF Agrees, Tables
<1> QED
  BY <1>5, <1>6, <1>7 DEF fs, Tables, Agrees

\* A trade that is not closed gets a status, and its lock the same lifecycle.
LEMMA SyncedAgrees ==
  ASSUME NEW ls, NEW ts, Tables(ls, ts), Agrees(ls, ts), NEW i \in DOMAIN ts,
         ts[i].status \notin Terminal, NEW life \in Committed \cup Terminal,
         NEW us \in Seq(TradeRow), DOMAIN us = DOMAIN ts, Len(us) = Len(ts),
         \A j \in DOMAIN ts : /\ us[j].asset = ts[j].asset /\ us[j].window = ts[j].window
                              /\ us[j].side = ts[j].side
                              /\ us[j].status = IF j = i THEN life ELSE ts[j].status
  PROVE  Tables(Synced(ls, i, life), us) /\ Agrees(Synced(ls, i, life), us)
<1> DEFINE ss == Synced(ls, i, life)
<1>1. DOMAIN ls = Keys /\ \A k \in Keys : ls[k] \in LockRow(Len(ts))
  BY DEF Tables
<1>2. ss = [k \in Keys |-> IF ls[k].trade = i THEN [ls[k] EXCEPT !.life = life] ELSE ls[k]]
  BY <1>1 DEF Synced
<1> HIDE DEF ss
<1>3. ASSUME NEW k \in Keys
      PROVE  ss[k] \in LockRow(Len(us)) /\ ss[k].trade = ls[k].trade /\ LockTells(ss[k], k, us)
  <2>1. ls[k] \in LockRow(Len(ts)) /\ LockTells(ls[k], k, ts)
    BY <1>1 DEF Agrees
  <2>2. ls[k].trade # 0 => ls[k].trade \in DOMAIN ts
    BY TradeNamed
  <2>3. i # 0
    BY RowsOf DEF Tables
  <2>4. CASE ls[k].trade = i
    <3>1. ss[k] = [ls[k] EXCEPT !.life = life]
      BY <1>2, <2>4
    <3>2. /\ ss[k] \in LockRow(Len(us)) /\ ss[k].trade = i /\ ss[k].side = ls[k].side
          /\ ss[k].status = ls[k].status /\ ss[k].life = life
      BY <2>1, <2>4, <3>1 DEF LockRow
    <3>3. ls[k].status = "ENTERED"
      BY <2>3, <2>4, LiveEntered
    <3> QED
      BY <2>1, <2>3, <2>4, <3>2, <3>3 DEF LockTells
  <2>5. CASE ls[k].trade # i
    <3>1. ss[k] = ls[k]
      BY <1>2, <2>5
    <3> QED
      BY <2>1, <2>2, <2>5, <3>1 DEF LockTells
  <2> QED
    BY <2>4, <2>5
<1>4. ss \in [Keys -> LockRow(Len(us))]
  BY <1>2, <1>3
<1>5. \A j \in DOMAIN us : ss[<<us[j].asset, us[j].window>>].trade = j
  BY <1>3, RowsOf DEF Agrees, Tables
<1> QED
  BY <1>3, <1>4, <1>5 DEF ss, Tables, Agrees

\* A lock that may still be entered, or is given up, names no trade.
LEMMA LockChanged ==
  ASSUME NEW ls, NEW ts, Tables(ls, ts), Agrees(ls, ts), NEW k \in Keys, ls[k].trade = 0,
         NEW l \in LockRow(Len(ts)), l.trade = 0, l.status \notin {"ENTERED", "COMPLETE"}
  PROVE  Tables([ls EXCEPT ![k] = l], ts) /\ Agrees([ls EXCEPT ![k] = l], ts)
<1> DEFINE fs == [ls EXCEPT ![k] = l]
<1>1. fs \in [Keys -> LockRow(Len(ts))] /\ \A j \in Keys : fs[j] = IF j = k THEN l ELSE ls[j]
  BY DEF Tables
<1> HIDE DEF fs
<1>2. \A j \in Keys : LockTells(fs[j], j, ts) /\ fs[j].trade = ls[j].trade
  BY <1>1 DEF Agrees, LockTells
<1>3. \A i \in DOMAIN ts : fs[<<ts[i].asset, ts[i].window>>].trade = i
  BY <1>2, RowsOf DEF Agrees, Tables
<1> QED
  BY <1>1, <1>2, <1>3 DEF fs, Tables, Agrees

LEMMA ActiveNamesNone ==
  ASSUME NEW ls, NEW ts, Tables(ls, ts), Agrees(ls, ts), NEW k \in Keys,
         ls[k].status \in ActiveLock \cup {"NONE", "SKIPPED"}
  PROVE  ls[k].trade = 0
BY DEF Agrees, LockTells, ActiveLock

LEMMA SkippedAgrees ==
  ASSUME NEW ls, NEW ts, Tables(ls, ts), Agrees(ls, ts), NEW k \in Keys
  PROVE  Tables(Skipped(ls, k), ts) /\ Agrees(Skipped(ls, k), ts)
<1>1. CASE ls[k].status \in ActiveLock
  <2> DEFINE l == [ls[k] EXCEPT !.status = "SKIPPED", !.life = "SKIPPED"]
  <2>1. ls[k] \in LockRow(Len(ts)) /\ ls[k].trade = 0
    BY <1>1, ActiveNamesNone DEF Tables
  <2>2. l \in LockRow(Len(ts)) /\ l.trade = 0 /\ l.status = "SKIPPED"
    BY <2>1 DEF LockRow
  <2>3. Skipped(ls, k) = [ls EXCEPT ![k] = l]
    <3>1. ls \in [Keys -> LockRow(Len(ts))]
      BY DEF Tables
    <3> QED
      BY <1>1, <2>1, <3>1 DEF Skipped, LockRow
  <2> HIDE DEF l
  <2>4. l.status \notin {"ENTERED", "COMPLETE"}
    BY <2>2
  <2>5. Tables([ls EXCEPT ![k] = l], ts) /\ Agrees([ls EXCEPT ![k] = l], ts)
    BY <2>1, <2>2, <2>4, LockChanged
  <2> QED
    BY <2>3, <2>5
<1>2. CASE ls[k].status \notin ActiveLock
  BY <1>2 DEF Skipped
<1> QED
  BY <1>1, <1>2

\* An entry: the trade and its lock in one transaction
EntryRow(a, w, s) == [asset |-> a, window |-> w, side |-> s, status |-> "OPEN", retries |-> 0]
EntryLock(s, n) == [side |-> s, status |-> "ENTERED", life |-> "OPEN", trade |-> n, late |-> FALSE]
WithEntry(ls, k, l) == [ls EXCEPT ![k] = l]

LEMMA EntryAgrees ==
  ASSUME Tables(locks, trades), Agrees(locks, trades), NEW a \in Assets, NEW w \in Windows,
         NEW s \in Sides, locks[<<a, w>>].trade = 0,
         trades' = Append(trades, EntryRow(a, w, s)),
         locks' = WithEntry(locks, <<a, w>>, EntryLock(s, Len(trades) + 1))
  PROVE  /\ Tables(locks', trades') /\ Agrees(locks', trades') /\ Len(trades') = Len(trades) + 1
         /\ DOMAIN trades' = DOMAIN trades \cup {Len(trades) + 1}
         /\ \A i \in DOMAIN trades : trades'[i] = trades[i]
         /\ trades'[Len(trades) + 1].asset = a
<1> DEFINE t == EntryRow(a, w, s)
           n == Len(trades) + 1
           l == EntryLock(s, n)
<1>1. t \in TradeRow /\ t.asset = a /\ t.window = w /\ t.side = s /\ t.status = "OPEN"
  BY LaneBounds, StatusesApart DEF TradeRow, EntryRow
<1>2. trades \in Seq(TradeRow) /\ Len(trades) \in Nat /\ DOMAIN trades = 1..Len(trades)
  BY RowsOf DEF Tables
<1>3. l \in LockRow(n) /\ l.trade = n /\ l.side = s /\ l.status = "ENTERED" /\ l.life = "OPEN" /\ n # 0
  <2>1. "OPEN" \in Committed /\ n \in 0..n /\ n # 0
    BY <1>2, StatusesApart
  <2> HIDE DEF n
  <2> QED
    BY <2>1 DEF LockRow, EntryLock
<1> HIDE DEF t, l
<1>4. trades' = Append(trades, t) /\ locks' = [locks EXCEPT ![<<a, w>>] = l]
  BY DEF t, l, WithEntry
<1>5. trades' \in Seq(TradeRow) /\ Len(trades') = n /\ (\A i \in 1..Len(trades) : trades'[i] = trades[i]) /\ trades'[n] = t
  BY <1>1, <1>2, <1>4, AppendProperties
<1>6. DOMAIN trades' = 1..n
  BY <1>5, LenProperties
<1>7. DOMAIN trades' = DOMAIN trades \cup {n} /\ n \notin DOMAIN trades
  BY <1>2, <1>6
<1>8. \A k \in Keys : locks[k] \in LockRow(Len(trades)) /\ locks[k] \in LockRow(n)
  <2>1. 0..Len(trades) \subseteq 0..n
    BY <1>2
  <2> QED
    BY <2>1 DEF Tables, LockRow
<1>9. <<a, w>> \in Keys
  OBVIOUS
<1>10. locks' \in [Keys -> LockRow(n)] /\ \A k \in Keys : locks'[k] = IF k = <<a, w>> THEN l ELSE locks[k]
  BY <1>3, <1>4, <1>8, <1>9 DEF Tables
<1> HIDE DEF n
<1>11. ASSUME NEW k \in Keys PROVE LockTells(locks'[k], k, trades')
  <2>1. CASE k = <<a, w>>
    <3>1. locks'[k] = l /\ k[1] = a /\ k[2] = w
      BY <1>10, <2>1
    <3>2. l.trade \in DOMAIN trades' /\ trades'[l.trade] = t
      BY <1>3, <1>5, <1>7
    <3> QED
      BY <1>1, <1>3, <3>1, <3>2 DEF LockTells
  <2>2. CASE k # <<a, w>>
    <3>1. locks'[k] = locks[k] /\ LockTells(locks[k], k, trades)
      BY <1>10, <2>2 DEF Agrees
    <3>2. locks[k].trade # 0 => trades'[locks[k].trade] = trades[locks[k].trade]
      BY <1>2, <1>5, TradeNamed
    <3> QED
      BY <3>1, <3>2 DEF LockTells
  <2> QED
    BY <2>1, <2>2
<1>12. ASSUME NEW i \in DOMAIN trades' PROVE locks'[<<trades'[i].asset, trades'[i].window>>].trade = i
  <2>1. CASE i = n
    BY <1>1, <1>3, <1>5, <1>9, <1>10, <2>1
  <2>2. CASE i # n
    <3>1. i \in DOMAIN trades /\ trades'[i] = trades[i]
      BY <1>2, <1>5, <1>7, <2>2
    <3>2. locks[<<trades[i].asset, trades[i].window>>].trade = i /\ i # 0 /\ <<trades[i].asset, trades[i].window>> \in Keys
      BY <1>2, <3>1, RowsOf DEF Agrees
    <3> QED
      BY <1>10, <3>1, <3>2
  <2> QED
    BY <2>1, <2>2
<1> QED
  BY <1>1, <1>2, <1>5, <1>7, <1>10, <1>11, <1>12 DEF Tables, Agrees, n

-----------------------------------------------------------------------------
(* The caps *)

Held(ts) == {i \in DOMAIN ts : ts[i].status \in Committed}
HeldOf(ts, a) == {i \in DOMAIN ts : ts[i].asset = a /\ ts[i].status \in Committed}
Capped(ts) ==
  Cardinality(Held(ts)) <= MaxOpen /\ \A a \in Assets : Cardinality(HeldOf(ts, a)) <= MaxPerAsset

LEMMA CappedIs == WithinCaps <=> Capped(trades)
BY DEF WithinCaps, Capped, OpenCount, AssetCount, Held, HeldOf

LEMMA HeldFinite ==
  ASSUME NEW ts \in Seq(TradeRow)
  PROVE  IsFiniteSet(Held(ts)) /\ Cardinality(Held(ts)) \in Nat
<1>1. Held(ts) \in SUBSET DOMAIN ts
  BY DEF Held
<1>2. IsFiniteSet(DOMAIN ts)
  BY RowsOf
<1>3. IsFiniteSet(Held(ts))
  BY <1>1, <1>2, FS_Subset
<1> QED
  BY <1>3, FS_CardinalityType

LEMMA HeldOfFinite ==
  ASSUME NEW ts \in Seq(TradeRow), NEW a
  PROVE  IsFiniteSet(HeldOf(ts, a)) /\ Cardinality(HeldOf(ts, a)) \in Nat
<1>1. HeldOf(ts, a) \in SUBSET Held(ts)
  BY DEF Held, HeldOf
<1>2. IsFiniteSet(HeldOf(ts, a))
  BY <1>1, HeldFinite, FS_Subset
<1> QED
  BY <1>2, FS_CardinalityType

LEMMA CappedFewer ==
  ASSUME NEW ts \in Seq(TradeRow), NEW us \in Seq(TradeRow), Capped(ts), DOMAIN us = DOMAIN ts,
         \A i \in DOMAIN ts : us[i].asset = ts[i].asset /\ (us[i].status \in Committed => ts[i].status \in Committed)
  PROVE  Capped(us)
<1>1. Held(us) \in SUBSET Held(ts)
  BY DEF Held
<1>2. Cardinality(Held(us)) <= Cardinality(Held(ts))
  BY <1>1, HeldFinite, FS_Subset
<1>3. Cardinality(Held(us)) <= MaxOpen
  BY <1>2, HeldFinite, LaneBounds DEF Capped
<1>4. ASSUME NEW a \in Assets PROVE Cardinality(HeldOf(us, a)) <= MaxPerAsset
  <2>1. HeldOf(us, a) \in SUBSET HeldOf(ts, a)
    BY DEF HeldOf
  <2>2. Cardinality(HeldOf(us, a)) <= Cardinality(HeldOf(ts, a))
    BY <2>1, HeldOfFinite, FS_Subset
  <2> QED
    BY <2>2, HeldOfFinite, LaneBounds DEF Capped
<1> QED
  BY <1>3, <1>4 DEF Capped

LEMMA CappedEntry ==
  ASSUME NEW ts \in Seq(TradeRow), NEW us \in Seq(TradeRow), Capped(ts), NEW n, NEW a \in Assets,
         n \notin DOMAIN ts, DOMAIN us = DOMAIN ts \cup {n}, \A i \in DOMAIN ts : us[i] = ts[i],
         us[n].asset = a, Cardinality(Held(ts)) < MaxOpen, Cardinality(HeldOf(ts, a)) < MaxPerAsset
  PROVE  Capped(us)
<1>1. Held(us) \in SUBSET (Held(ts) \cup {n})
  BY DEF Held
<1>2. IsFiniteSet(Held(ts) \cup {n}) /\ Cardinality(Held(ts) \cup {n}) <= Cardinality(Held(ts)) + 1
  <2>1. IsFiniteSet(Held(ts)) /\ Cardinality(Held(ts)) \in Nat
    BY HeldFinite
  <2>2. /\ IsFiniteSet(Held(ts) \cup {n})
        /\ \/ Cardinality(Held(ts) \cup {n}) = Cardinality(Held(ts))
           \/ Cardinality(Held(ts) \cup {n}) = Cardinality(Held(ts)) + 1
    BY <2>1, FS_AddElement
  <2> QED
    BY <2>1, <2>2
<1>3. Cardinality(Held(us)) <= Cardinality(Held(ts) \cup {n})
  BY <1>1, <1>2, FS_Subset
<1>4. Cardinality(Held(ts) \cup {n}) \in Nat
  BY <1>2, FS_CardinalityType
<1>5. Cardinality(Held(us)) <= MaxOpen
  BY <1>2, <1>3, <1>4, HeldFinite, LaneBounds
<1>6. ASSUME NEW b \in Assets PROVE Cardinality(HeldOf(us, b)) <= MaxPerAsset
  <2>1. CASE b = a
    <3>1. HeldOf(us, b) \in SUBSET (HeldOf(ts, a) \cup {n})
      BY <2>1 DEF HeldOf
    <3>2. IsFiniteSet(HeldOf(ts, a) \cup {n}) /\ Cardinality(HeldOf(ts, a) \cup {n}) <= Cardinality(HeldOf(ts, a)) + 1
      <4>1. IsFiniteSet(HeldOf(ts, a)) /\ Cardinality(HeldOf(ts, a)) \in Nat
        BY HeldOfFinite
      <4>2. /\ IsFiniteSet(HeldOf(ts, a) \cup {n})
            /\ \/ Cardinality(HeldOf(ts, a) \cup {n}) = Cardinality(HeldOf(ts, a))
               \/ Cardinality(HeldOf(ts, a) \cup {n}) = Cardinality(HeldOf(ts, a)) + 1
        BY <4>1, FS_AddElement
      <4> QED
        BY <4>1, <4>2
    <3>3. Cardinality(HeldOf(us, b)) <= Cardinality(HeldOf(ts, a) \cup {n})
      BY <3>1, <3>2, FS_Subset
    <3>4. Cardinality(HeldOf(ts, a) \cup {n}) \in Nat
      BY <3>2, FS_CardinalityType
    <3> QED
      BY <3>2, <3>3, <3>4, HeldOfFinite, LaneBounds
  <2>2. CASE b # a
    <3>1. HeldOf(us, b) \in SUBSET HeldOf(ts, b)
      BY <2>2 DEF HeldOf
    <3>2. Cardinality(HeldOf(us, b)) <= Cardinality(HeldOf(ts, b))
      BY <3>1, HeldOfFinite, FS_Subset
    <3> QED
      BY <3>2, HeldOfFinite, LaneBounds DEF Capped
  <2> QED
    BY <2>1, <2>2
<1> QED
  BY <1>5, <1>6 DEF Capped

-----------------------------------------------------------------------------
(* The queue of due trades *)

LEMMA RemovedAt ==
  ASSUME NEW S, NEW q \in Seq(S), NEW i \in 1..Len(q)
  PROVE  /\ RemoveAt(q, i) \in Seq(S) /\ Len(RemoveAt(q, i)) = Len(q) - 1
         /\ \A k \in 1..(Len(q) - 1) : RemoveAt(q, i)[k] = IF k < i THEN q[k] ELSE q[k + 1]
<1>1. Len(q) \in Nat /\ i \in Nat /\ 1 <= i /\ i <= Len(q)
  BY LenProperties
<1> DEFINE front == SubSeq(q, 1, i - 1)
<1> DEFINE back == SubSeq(q, i + 1, Len(q))
<1>2. front \in Seq(S) /\ Len(front) = i - 1 /\ \A k \in 1..(i - 1) : front[k] = q[k]
  BY <1>1, SubSeqProperties
<1>3. back \in Seq(S) /\ Len(back) = Len(q) - i /\ \A k \in 1..(Len(q) - i) : back[k] = q[i + k]
  BY <1>1, SubSeqProperties
<1>4. RemoveAt(q, i) = front \o back
  BY DEF RemoveAt
<1> HIDE DEF front, back
<1>5. /\ front \o back \in Seq(S) /\ Len(front \o back) = Len(front) + Len(back)
      /\ \A k \in 1..(Len(front) + Len(back)) :
           (front \o back)[k] = IF k <= Len(front) THEN front[k] ELSE back[k - Len(front)]
  BY <1>2, <1>3, ConcatProperties
<1>6. Len(front \o back) = Len(q) - 1
  BY <1>1, <1>2, <1>3, <1>5
<1>7. ASSUME NEW k \in 1..(Len(q) - 1)
      PROVE  (front \o back)[k] = IF k < i THEN q[k] ELSE q[k + 1]
  <2>1. k \in 1..(Len(front) + Len(back))
    BY <1>1, <1>2, <1>3
  <2>2. CASE k < i
    BY <1>1, <1>2, <1>5, <2>1, <2>2
  <2>3. CASE ~(k < i)
    <3>1. (front \o back)[k] = back[k - (i - 1)]
      BY <1>1, <1>2, <1>5, <2>1, <2>3
    <3>2. k - (i - 1) \in 1..(Len(q) - i) /\ i + (k - (i - 1)) = k + 1
      BY <1>1, <2>3
    <3> QED
      BY <1>3, <2>3, <3>1, <3>2
  <2> QED
    BY <2>2, <2>3
<1> QED
  BY <1>4, <1>5, <1>6, <1>7

Once(q) == \A m, n \in DOMAIN q : q[m] = q[n] => m = n

LEMMA WithoutIs ==
  ASSUME NEW S, NEW q \in Seq(S), Once(q), NEW i
  PROVE  /\ Without(q, i) \in Seq(S) /\ Once(Without(q, i))
         /\ \A n \in DOMAIN Without(q, i) :
              Without(q, i)[n] # i /\ \E m \in DOMAIN q : Without(q, i)[n] = q[m]
<1>1. CASE i \notin ToSet(q)
  <2>1. Without(q, i) = q /\ \A n \in DOMAIN q : q[n] # i
    BY <1>1 DEF Without, ToSet
  <2> QED
    BY <2>1
<1>2. CASE i \in ToSet(q)
  <2> DEFINE p == CHOOSE n \in DOMAIN q : q[n] = i
             r == RemoveAt(q, p)
  <2>1. p \in DOMAIN q /\ q[p] = i /\ Without(q, i) = r
    BY <1>2 DEF ToSet, Without
  <2>2. Len(q) \in Nat /\ DOMAIN q = 1..Len(q)
    BY LenProperties
  <2> HIDE DEF p
  <2>3. /\ r \in Seq(S) /\ Len(r) = Len(q) - 1
        /\ \A k \in 1..(Len(q) - 1) : r[k] = IF k < p THEN q[k] ELSE q[k + 1]
    BY <2>1, <2>2, RemovedAt
  <2>4. DOMAIN r = 1..(Len(q) - 1)
    BY <2>3, LenProperties
  <2> HIDE DEF r
  <2> DEFINE f(k) == IF k < p THEN k ELSE k + 1
  <2>5. \A k \in DOMAIN r : f(k) \in DOMAIN q /\ r[k] = q[f(k)] /\ f(k) # p
    BY <2>1, <2>2, <2>3, <2>4
  <2>6. \A k, l \in DOMAIN r : f(k) = f(l) => k = l
    BY <2>1, <2>2, <2>4
  <2> HIDE DEF f
  <2>7. Once(r)
    BY <2>5, <2>6 DEF Once
  <2>8. \A k \in DOMAIN r : r[k] # i
    BY <2>1, <2>5 DEF Once
  <2> QED
    BY <2>1, <2>3, <2>5, <2>7, <2>8
<1> QED
  BY <1>1, <1>2

DrawnFrom(t, q, r) ==
  \A n \in DOMAIN t : (\E m \in DOMAIN q : t[n] = q[m]) \/ (\E m \in DOMAIN r : t[n] = r[m])

LEMMA JoinedOnce ==
  ASSUME NEW S, NEW q \in Seq(S), Once(q), NEW r \in Seq(S), Once(r),
         \A m \in DOMAIN q : \A n \in DOMAIN r : q[m] # r[n]
  PROVE  /\ q \o r \in Seq(S) /\ Once(q \o r) /\ DrawnFrom(q \o r, q, r)
<1> DEFINE t == q \o r
<1>1. /\ t \in Seq(S) /\ Len(t) = Len(q) + Len(r)
      /\ \A i \in 1..(Len(q) + Len(r)) : t[i] = IF i <= Len(q) THEN q[i] ELSE r[i - Len(q)]
  BY ConcatProperties
<1>2. /\ Len(q) \in Nat /\ Len(r) \in Nat /\ DOMAIN q = 1..Len(q) /\ DOMAIN r = 1..Len(r)
      /\ DOMAIN t = 1..(Len(q) + Len(r))
  BY <1>1, LenProperties
<1> HIDE DEF t
<1>3. \A n \in DOMAIN t : \/ n \in DOMAIN q /\ t[n] = q[n]
                          \/ n > Len(q) /\ n - Len(q) \in DOMAIN r /\ t[n] = r[n - Len(q)]
  BY <1>1, <1>2
<1>4. Once(t)
  <2> SUFFICES ASSUME NEW m \in DOMAIN t, NEW n \in DOMAIN t, t[m] = t[n] PROVE m = n
    BY DEF Once
  <2>1. CASE m \in DOMAIN q /\ n \in DOMAIN q
    BY <1>2, <1>3, <2>1 DEF Once
  <2>2. CASE m \notin DOMAIN q /\ n \notin DOMAIN q
    <3>1. m - Len(q) \in DOMAIN r /\ n - Len(q) \in DOMAIN r /\ r[m - Len(q)] = r[n - Len(q)]
      BY <1>3, <2>2
    <3>2. m - Len(q) = n - Len(q)
      BY <3>1 DEF Once
    <3> QED
      BY <1>2, <3>2
  <2>3. CASE ~(m \in DOMAIN q <=> n \in DOMAIN q)
    BY <1>2, <1>3, <2>3
  <2> QED
    BY <2>1, <2>2, <2>3
<1> QED
  BY <1>1, <1>3, <1>4 DEF t, DrawnFrom

-----------------------------------------------------------------------------
(* The loop *)

LanePlain ==
  /\ window \in 1..(NWindows + 1) /\ liteCrashes \in 0..MaxCrashes
  /\ phase \in {"down", "idle", "managing", "scanning"}
  /\ scans \in [Assets -> [at : {"done", "market", "books"}, window : 0..NWindows]]
  /\ \A a \in Assets : scans[a].at # "done" => scans[a].window \in Windows

\* A trade waits in the queue once, and only while it is unresolved.
DueWaits(q, ts) ==
  q \in Seq(DOMAIN ts) /\ Once(q) /\ \A n \in DOMAIN q : ts[q[n]].status \in Unresolved

\* What the loop holds in its memory is what the tables say.
MemoryAgrees(ts) ==
  /\ managing \subseteq DOMAIN ts /\ \A i \in managing : ts[i].status \in OpenStatuses
  /\ resolving \subseteq DOMAIN ts /\ \A i \in resolving : ts[i].status \in Unresolved

Phases ==
  /\ managing # {} \/ resolving # {} => phase = "managing"
  /\ \A a \in Assets : scans[a].at # "done" => phase = "scanning"
  /\ mid # << >> => phase \in {"managing", "scanning"}

\* Between two transactions: an exit that was begun, or a window that was
\* reserved, by a scan that is not over.
BetweenExit(ts) ==
  \E i \in DOMAIN ts \ managing : mid = <<"exit", i>> /\ ts[i].status = "EXIT_PENDING"
BetweenEntry(ls) ==
  \E next \in {"MAKER_WAIT", "CROSS_SPREAD"}, a \in Assets, s \in Sides :
    /\ mid = <<next, a, s>> /\ scans[a].at = "books"
    /\ ls[KeyOf(a)].status = "DIRECTION_LOCKED" /\ ls[KeyOf(a)].side = s

LaneInv ==
  /\ LanePlain /\ Tables(locks, trades) /\ Agrees(locks, trades) /\ Capped(trades)
  /\ DueWaits(dueQ, trades) /\ MemoryAgrees(trades) /\ Phases
  /\ mid = << >> \/ BetweenExit(trades) \/ BetweenEntry(locks)

LEMMA LaneStarts == LiteInit => LaneInv
<1> SUFFICES ASSUME LiteInit PROVE LaneInv
  OBVIOUS
<1>1. /\ window = 1 /\ locks = [k \in Keys |-> NoLock] /\ trades = << >> /\ dueQ = << >>
      /\ phase = "idle" /\ managing = {} /\ resolving = {} /\ mid = << >>
      /\ scans = [a \in Assets |-> NotScanning] /\ liteCrashes = 0
  BY DEF LiteInit
<1>2. NotScanning \in [at : {"done", "market", "books"}, window : 0..NWindows] /\ NotScanning.at = "done"
  BY LaneBounds DEF NotScanning
<1>3. window \in 1..(NWindows + 1) /\ liteCrashes \in 0..MaxCrashes
  BY <1>1, LaneBounds
<1>4. LanePlain
  BY <1>1, <1>2, <1>3 DEF LanePlain
<1>5. trades \in Seq(TradeRow) /\ Len(trades) = 0 /\ DOMAIN trades = {}
  BY <1>1, EmptySeq
<1>6. NoLock \in LockRow(0) /\ NoLock.trade = 0 /\ NoLock.status = "NONE"
  BY DEF NoLock, LockRow
<1>7. Tables(locks, trades)
  BY <1>1, <1>5, <1>6 DEF Tables
<1>8. Agrees(locks, trades)
  BY <1>1, <1>5, <1>6 DEF Agrees, LockTells
<1>9. Capped(trades)
  <2>1. Held(trades) = {} /\ \A a \in Assets : HeldOf(trades, a) = {}
    BY <1>5 DEF Held, HeldOf
  <2>2. Cardinality({}) = 0
    BY FS_EmptySet
  <2> QED
    BY <2>1, <2>2, LaneBounds DEF Capped
<1>10. dueQ \in Seq(DOMAIN trades) /\ DOMAIN dueQ = {}
  BY <1>1, EmptySeq
<1>11. DueWaits(dueQ, trades) /\ MemoryAgrees(trades)
  BY <1>1, <1>10 DEF DueWaits, Once, MemoryAgrees
<1>12. Phases
  BY <1>1, <1>2 DEF Phases
<1> QED
  BY <1>1, <1>4, <1>7, <1>8, <1>9, <1>11, <1>12 DEF LaneInv

\* A scan ends, or every scan does.
LEMMA ScansOver ==
  ASSUME LanePlain, NEW a \in Assets, Scanned(a)
  PROVE  /\ scans' \in [Assets -> [at : {"done", "market", "books"}, window : 0..NWindows]]
         /\ scans'[a].at = "done" /\ \A b \in Assets : b # a => scans'[b] = scans[b]
<1>1. NotScanning \in [at : {"done", "market", "books"}, window : 0..NWindows] /\ NotScanning.at = "done"
  BY LaneBounds DEF NotScanning
<1> QED
  BY <1>1 DEF LanePlain, Scanned

LEMMA KeyOfScan ==
  ASSUME LanePlain, NEW a \in Assets, scans[a].at # "done"
  PROVE  KeyOf(a) \in Keys /\ scans[a].window \in Windows
BY DEF LanePlain, KeyOf

\* Closed trades stay as they are.
ClosedKept == \A i \in DOMAIN trades : trades[i].status \in Terminal => trades'[i].status = trades[i].status

TablesStay == locks' = locks /\ trades' = trades

\* Steps of the loop that write nothing
LEMMA QuietKeeps ==
  ASSUME LaneInv,
         \/ \E i \in DOMAIN trades : ManageHold(i)
         \/ BeginScans \/ EndCycle \/ RestartLite \/ CrashLite \/ NextWindow
         \/ \E a \in Assets : ScanEnds(a) \/ MarketFound(a)
  PROVE  LaneInv' /\ ClosedKept
<1> USE DEF LaneInv
<1>1. TablesStay /\ dueQ' = dueQ
  BY DEF ManageHold, BeginScans, EndCycle, RestartLite, CrashLite, NextWindow, ScanEnds, MarketFound, TablesStay
<1>2. /\ Tables(locks', trades') /\ Agrees(locks', trades') /\ Capped(trades')
      /\ DueWaits(dueQ', trades') /\ ClosedKept
  BY <1>1 DEF TablesStay, ClosedKept
<1>3. NotScanning \in [at : {"done", "market", "books"}, window : 0..NWindows] /\ NotScanning.at = "done"
  BY LaneBounds DEF NotScanning
<1>4. CASE \E i \in DOMAIN trades : ManageHold(i)
  <2>1. PICK i \in DOMAIN trades : /\ mid = <<>> /\ i \in managing /\ managing' = managing \ {i}
          /\ UNCHANGED <<window, phase, resolving, scans, mid, liteCrashes>>
    BY <1>4 DEF ManageHold
  <2>2. LanePlain' /\ MemoryAgrees(trades)' /\ Phases'
    BY <1>1, <2>1 DEF LanePlain, MemoryAgrees, Phases, TablesStay
  <2> QED
    BY <1>2, <2>1, <2>2
<1>5. CASE BeginScans
  <2>1. /\ managing = {} /\ resolving = {} /\ mid = <<>> /\ phase' = "scanning"
        /\ scans' = [a \in Assets |-> IF window \in Windows
                 THEN [at |-> "market", window |-> window] ELSE NotScanning]
        /\ UNCHANGED <<window, managing, resolving, mid, liteCrashes>>
    BY <1>5 DEF BeginScans
  <2>2. window \in Windows => window \in 0..NWindows
    BY LaneBounds DEF Windows
  <2>3. LanePlain'
    BY <1>3, <2>1, <2>2 DEF LanePlain
  <2>4. MemoryAgrees(trades)' /\ Phases'
    BY <2>1 DEF MemoryAgrees, Phases
  <2> QED
    BY <1>2, <2>1, <2>3, <2>4
<1>6. CASE EndCycle
  <2>1. /\ phase = "scanning" /\ mid = <<>> /\ (\A a \in Assets : scans[a] = NotScanning) /\ phase' = "idle"
        /\ UNCHANGED <<window, managing, resolving, scans, mid, liteCrashes>>
    BY <1>6 DEF EndCycle
  <2>2. LanePlain' /\ MemoryAgrees(trades)' /\ Phases'
    BY <1>1, <1>3, <2>1 DEF LanePlain, MemoryAgrees, Phases, TablesStay
  <2> QED
    BY <1>2, <2>1, <2>2
<1>7. CASE RestartLite
  <2>1. /\ phase = "down" /\ phase' = "idle"
        /\ UNCHANGED <<window, managing, resolving, scans, mid, liteCrashes>>
    BY <1>7 DEF RestartLite
  <2>2. LanePlain' /\ MemoryAgrees(trades)' /\ Phases' /\ mid' = << >>
    BY <1>1, <2>1 DEF LanePlain, MemoryAgrees, Phases, TablesStay
  <2> QED
    BY <1>2, <2>2
<1>8. CASE CrashLite
  <2>1. /\ liteCrashes < MaxCrashes /\ phase' = "down" /\ managing' = {} /\ resolving' = {} /\ mid' = <<>>
        /\ scans' = [a \in Assets |-> NotScanning] /\ liteCrashes' = liteCrashes + 1
        /\ window' = window
    BY <1>8 DEF CrashLite
  <2>2. liteCrashes' \in 0..MaxCrashes
    BY <2>1, LaneBounds DEF LanePlain
  <2>3. LanePlain' /\ MemoryAgrees(trades)' /\ Phases'
    BY <1>3, <2>1, <2>2 DEF LanePlain, MemoryAgrees, Phases
  <2> QED
    BY <1>2, <2>1, <2>3
<1>9. CASE NextWindow
  <2>1. /\ window <= NWindows /\ window' = window + 1
        /\ UNCHANGED <<phase, managing, resolving, scans, mid, liteCrashes>>
    BY <1>9 DEF NextWindow
  <2>2. LanePlain'
    BY <2>1, LaneBounds DEF LanePlain
  <2>3. MemoryAgrees(trades)' /\ Phases'
    BY <1>1, <2>1 DEF MemoryAgrees, Phases, TablesStay
  <2>4. (mid = << >> \/ BetweenExit(trades) \/ BetweenEntry(locks))'
    BY <1>1, <2>1 DEF BetweenExit, BetweenEntry, KeyOf, TablesStay
  <2> QED
    BY <1>2, <2>2, <2>3, <2>4
<1>10. CASE \E a \in Assets : ScanEnds(a)
  <2>1. PICK a \in Assets : /\ mid = <<>> /\ Scanned(a)
          /\ UNCHANGED <<window, phase, managing, resolving, mid, liteCrashes>>
    BY <1>10 DEF ScanEnds
  <2>2. /\ scans' \in [Assets -> [at : {"done", "market", "books"}, window : 0..NWindows]]
        /\ scans'[a].at = "done" /\ \A b \in Assets : b # a => scans'[b] = scans[b]
    BY <2>1, ScansOver
  <2>3. LanePlain'
    BY <2>1, <2>2 DEF LanePlain
  <2>4. MemoryAgrees(trades)' /\ Phases'
    BY <1>1, <2>1, <2>2 DEF MemoryAgrees, Phases, TablesStay
  <2> QED
    BY <1>2, <2>1, <2>3, <2>4
<1>11. CASE \E a \in Assets : MarketFound(a)
  <2>1. PICK a \in Assets : /\ mid = <<>> /\ scans[a].at = "market"
          /\ scans' = [scans EXCEPT ![a].at = "books"]
          /\ UNCHANGED <<window, phase, managing, resolving, mid, liteCrashes>>
    BY <1>11 DEF MarketFound
  <2>2. /\ scans' \in [Assets -> [at : {"done", "market", "books"}, window : 0..NWindows]]
        /\ \A b \in Assets : /\ scans'[b].window = scans[b].window
                             /\ scans'[b].at # "done" => scans[b].at # "done"
    BY <2>1 DEF LanePlain
  <2>3. LanePlain'
    BY <2>1, <2>2 DEF LanePlain
  <2>4. MemoryAgrees(trades)' /\ Phases'
    BY <1>1, <2>1, <2>2 DEF MemoryAgrees, Phases, TablesStay
  <2> QED
    BY <1>2, <2>1, <2>3, <2>4
<1> QED
  BY <1>4, <1>5, <1>6, <1>7, <1>8, <1>9, <1>10, <1>11

LEMMA BackoffKeeps ==
  ASSUME LaneInv, NEW i \in DOMAIN trades, BackoffEnds(i) PROVE LaneInv' /\ ClosedKept
<1> USE DEF LaneInv
<1>1. /\ trades[i].status \in Unresolved /\ (\A n \in DOMAIN dueQ : dueQ[n] # i)
      /\ dueQ' = Append(dueQ, i)
      /\ UNCHANGED <<window, locks, trades, phase, managing, resolving, scans, mid, liteCrashes>>
  BY DEF BackoffEnds
<1>2. /\ dueQ' \in Seq(DOMAIN trades) /\ Len(dueQ') = Len(dueQ) + 1 /\ dueQ'[Len(dueQ) + 1] = i
      /\ \A n \in 1..Len(dueQ) : dueQ'[n] = dueQ[n]
  BY <1>1, AppendProperties DEF DueWaits
<1>3. Len(dueQ) \in Nat /\ DOMAIN dueQ = 1..Len(dueQ) /\ DOMAIN dueQ' = 1..(Len(dueQ) + 1)
  BY <1>2, LenProperties DEF DueWaits
<1>4. \A n \in DOMAIN dueQ' : (n \in DOMAIN dueQ /\ dueQ'[n] = dueQ[n]) \/ (n = Len(dueQ) + 1 /\ dueQ'[n] = i)
  BY <1>2, <1>3
<1>5. Once(dueQ')
  <2> SUFFICES ASSUME NEW m \in DOMAIN dueQ', NEW n \in DOMAIN dueQ', dueQ'[m] = dueQ'[n] PROVE m = n
    BY DEF Once
  <2> QED
    BY <1>1, <1>4 DEF DueWaits, Once
<1>6. \A n \in DOMAIN dueQ' : trades[dueQ'[n]].status \in Unresolved
  BY <1>1, <1>4 DEF DueWaits
<1>7. DueWaits(dueQ', trades')
  BY <1>1, <1>2, <1>5, <1>6 DEF DueWaits
<1>8. LanePlain' /\ MemoryAgrees(trades)' /\ Phases' /\ ClosedKept
  BY <1>1 DEF LanePlain, MemoryAgrees, Phases, ClosedKept
<1>9. (mid = << >> \/ BetweenExit(trades) \/ BetweenEntry(locks))'
  BY <1>1 DEF BetweenExit, BetweenEntry, KeyOf
<1> QED
  BY <1>1, <1>7, <1>8, <1>9

-----------------------------------------------------------------------------
(* Steps that write a lock *)

\* The queue and the memory of the trades, while the trades stay
LEMMA TradesStay ==
  ASSUME LaneInv, trades' = trades, dueQ' = dueQ, managing' = managing, resolving' = resolving
  PROVE  Capped(trades') /\ DueWaits(dueQ', trades') /\ MemoryAgrees(trades)' /\ ClosedKept
BY DEF LaneInv, MemoryAgrees, ClosedKept

LEMMA ScanSkipsKeeps ==
  ASSUME LaneInv, NEW a \in Assets, NEW step, step # "done", ScanSkips(a, step) PROVE LaneInv' /\ ClosedKept
<1> USE DEF LaneInv
<1>1. /\ mid = <<>> /\ scans[a].at = step /\ Scanned(a) /\ locks' = Skipped(locks, KeyOf(a))
      /\ UNCHANGED <<window, trades, dueQ, phase, managing, resolving, mid, liteCrashes>>
  BY DEF ScanSkips
<1>2. /\ scans' \in [Assets -> [at : {"done", "market", "books"}, window : 0..NWindows]]
      /\ scans'[a].at = "done" /\ \A b \in Assets : b # a => scans'[b] = scans[b]
  BY <1>1, ScansOver
<1>3. KeyOf(a) \in Keys
  BY <1>1, KeyOfScan
<1>4. Tables(locks', trades') /\ Agrees(locks', trades')
  BY <1>1, <1>3, SkippedAgrees
<1>5. LanePlain'
  BY <1>1, <1>2 DEF LanePlain
<1>6. Phases'
  BY <1>1, <1>2 DEF Phases
<1> QED
  BY <1>1, <1>4, <1>5, <1>6, TradesStay

LEMMA ReserveKeeps ==
  ASSUME LaneInv, NEW a \in Assets, NEW s \in Sides, NEW next \in {"MAKER_WAIT", "CROSS_SPREAD"},
         Reserve(a, s, next)
  PROVE  LaneInv' /\ ClosedKept
<1> USE DEF LaneInv
<1> DEFINE l == [side |-> s, status |-> "DIRECTION_LOCKED", life |-> "DIRECTION_LOCKED",
                 trade |-> 0, late |-> TRUE]
<1>1. /\ scans[a].at = "books" /\ locks[KeyOf(a)].status = "NONE"
      /\ locks' = [locks EXCEPT ![KeyOf(a)] = l] /\ mid' = <<next, a, s>>
      /\ UNCHANGED <<window, trades, dueQ, phase, managing, resolving, scans, liteCrashes>>
  BY DEF Reserve, Passes, Evaluates
<1>2. KeyOf(a) \in Keys
  BY <1>1, KeyOfScan
<1>3. Len(trades) \in Nat
  BY RowsOf DEF Tables
<1>4. l \in LockRow(Len(trades)) /\ l.trade = 0 /\ l.status = "DIRECTION_LOCKED" /\ l.side = s
  <2>a. 0 \in 0..Len(trades)
    BY ONLY <1>3
  <2>1. 0 \in 0..Len(trades) /\ s \in Sides \cup {""}
    BY <2>a
  <2>2. l \in LockRow(Len(trades))
    BY <2>1 DEF LockRow, ActiveLock
  <2> QED
    BY <2>2
<1> HIDE DEF l
<1>5. locks[KeyOf(a)].trade = 0
  BY <1>1, <1>2, ActiveNamesNone
<1>6. Tables(locks', trades') /\ Agrees(locks', trades')
  <2>1. l.status \notin {"ENTERED", "COMPLETE"}
    BY <1>4
  <2>2. Tables([locks EXCEPT ![KeyOf(a)] = l], trades) /\ Agrees([locks EXCEPT ![KeyOf(a)] = l], trades)
    BY <1>2, <1>4, <1>5, <2>1, LockChanged
  <2> QED
    BY <1>1, <2>2
<1>7. LanePlain'
  BY <1>1 DEF LanePlain
<1>8. Phases'
  <2>1. phase = "scanning"
    BY <1>1 DEF Phases
  <2> QED
    BY <1>1, <2>1 DEF Phases
<1>9. BetweenEntry(locks)'
  <2>1. KeyOf(a)' = KeyOf(a)
    BY <1>1 DEF KeyOf
  <2>2. locks'[KeyOf(a)] = l
    BY <1>1, <1>2 DEF Tables
  <2>3. locks'[KeyOf(a)'].status = "DIRECTION_LOCKED" /\ locks'[KeyOf(a)'].side = s
    BY <1>4, <2>1, <2>2
  <2> QED
    BY <1>1, <2>3 DEF BetweenEntry
<1> QED
  BY <1>1, <1>6, <1>7, <1>8, <1>9, TradesStay

\* A reservation is what the loop is between two transactions of.
LEMMA EntryPending ==
  ASSUME LaneInv, mid # << >>, mid[1] \in {"MAKER_WAIT", "CROSS_SPREAD"}
  PROVE  /\ mid[2] \in Assets /\ mid[3] \in Sides /\ scans[mid[2]].at = "books"
         /\ KeyOf(mid[2]) \in Keys /\ scans[mid[2]].window \in Windows
         /\ locks[KeyOf(mid[2])].status = "DIRECTION_LOCKED" /\ locks[KeyOf(mid[2])].side = mid[3]
         /\ locks[KeyOf(mid[2])].trade = 0
<1>1. BetweenEntry(locks)
  BY DEF LaneInv, BetweenExit
<1>2. PICK next \in {"MAKER_WAIT", "CROSS_SPREAD"}, a \in Assets, s \in Sides :
        /\ mid = <<next, a, s>> /\ scans[a].at = "books"
        /\ locks[KeyOf(a)].status = "DIRECTION_LOCKED" /\ locks[KeyOf(a)].side = s
  BY <1>1 DEF BetweenEntry
<1>3. mid[2] = a /\ mid[3] = s
  BY <1>2
<1>4. KeyOf(a) \in Keys /\ scans[a].window \in Windows
  BY <1>2, KeyOfScan DEF LaneInv
<1>5. locks[KeyOf(a)].trade = 0
  BY <1>2, <1>4, ActiveNamesNone DEF LaneInv, ActiveLock
<1> QED
  BY <1>2, <1>3, <1>4, <1>5

LEMMA AwaitMakerKeeps == ASSUME LaneInv, AwaitMaker PROVE LaneInv' /\ ClosedKept
<1> USE DEF LaneInv
<1> DEFINE a == mid[2]
           l == [locks[KeyOf(a)] EXCEPT !.status = "MAKER_WAIT", !.late = FALSE]
<1>1. /\ mid # <<>> /\ mid[1] = "MAKER_WAIT" /\ mid' = <<>> /\ Scanned(a)
      /\ locks' = [locks EXCEPT ![KeyOf(a)].status = "MAKER_WAIT", ![KeyOf(a)].late = FALSE]
      /\ UNCHANGED <<window, trades, dueQ, phase, managing, resolving, liteCrashes>>
  BY DEF AwaitMaker
<1>2. a \in Assets /\ KeyOf(a) \in Keys /\ locks[KeyOf(a)].trade = 0
  BY <1>1, EntryPending
<1>3. locks[KeyOf(a)] \in LockRow(Len(trades))
  BY <1>2, TradeNamed
<1>4. l \in LockRow(Len(trades)) /\ l.trade = 0 /\ l.status = "MAKER_WAIT"
  BY <1>2, <1>3 DEF LockRow, ActiveLock
<1>5. locks' = [locks EXCEPT ![KeyOf(a)] = l]
  <2>1. locks \in [Keys -> LockRow(Len(trades))]
    BY DEF Tables
  <2> QED
    BY <1>1, <1>2, <1>3, <2>1 DEF LockRow
<1> HIDE DEF a, l
<1>6. Tables(locks', trades') /\ Agrees(locks', trades')
  <2>1. l.status \notin {"ENTERED", "COMPLETE"}
    BY <1>4
  <2>2. Tables([locks EXCEPT ![KeyOf(a)] = l], trades) /\ Agrees([locks EXCEPT ![KeyOf(a)] = l], trades)
    BY <1>2, <1>4, <2>1, LockChanged
  <2> QED
    BY <1>1, <1>5, <2>2
<1>7. /\ scans' \in [Assets -> [at : {"done", "market", "books"}, window : 0..NWindows]]
      /\ scans'[a].at = "done" /\ \A b \in Assets : b # a => scans'[b] = scans[b]
  BY <1>1, <1>2, ScansOver
<1>8. LanePlain'
  BY <1>1, <1>7 DEF LanePlain
<1>9. Phases'
  BY <1>1, <1>7 DEF Phases
<1> QED
  BY <1>1, <1>6, <1>8, <1>9, TradesStay

LEMMA DeadlineKeeps ==
  ASSUME LaneInv, NEW k \in DOMAIN locks, DeadlinePasses(k) PROVE LaneInv' /\ ClosedKept
<1> USE DEF LaneInv
<1> DEFINE l == [locks[k] EXCEPT !.late = TRUE]
<1>1. /\ locks[k].status \in ActiveLock /\ locks' = [locks EXCEPT ![k].late = TRUE]
      /\ UNCHANGED <<window, trades, dueQ, phase, managing, resolving, scans, mid, liteCrashes>>
  BY DEF DeadlinePasses
<1>2. k \in Keys
  BY DEF Tables
<1>3. locks[k] \in LockRow(Len(trades)) /\ locks[k].trade = 0
  BY <1>1, <1>2, TradeNamed, ActiveNamesNone
<1>4. /\ l \in LockRow(Len(trades)) /\ l.trade = 0
      /\ l.status = locks[k].status /\ l.side = locks[k].side /\ l.status \notin {"ENTERED", "COMPLETE"}
  BY <1>1, <1>3 DEF LockRow, ActiveLock
<1>5. locks' = [locks EXCEPT ![k] = l] /\ \A j \in Keys : locks'[j] = IF j = k THEN l ELSE locks[j]
  BY <1>1, <1>2 DEF Tables
<1> HIDE DEF l
<1>6. Tables(locks', trades') /\ Agrees(locks', trades')
  <2>1. Tables([locks EXCEPT ![k] = l], trades) /\ Agrees([locks EXCEPT ![k] = l], trades)
    BY <1>2, <1>3, <1>4, LockChanged
  <2> QED
    BY <1>1, <1>5, <2>1
<1>7. LanePlain' /\ Phases'
  BY <1>1 DEF LanePlain, Phases
<1>8. (mid = << >> \/ BetweenExit(trades) \/ BetweenEntry(locks))'
  <2>1. CASE mid = << >> \/ BetweenExit(trades)
    BY <1>1, <2>1 DEF BetweenExit
  <2>2. CASE BetweenEntry(locks)
    <3>1. PICK next \in {"MAKER_WAIT", "CROSS_SPREAD"}, a \in Assets, s \in Sides :
            /\ mid = <<next, a, s>> /\ scans[a].at = "books"
            /\ locks[KeyOf(a)].status = "DIRECTION_LOCKED" /\ locks[KeyOf(a)].side = s
      BY <2>2 DEF BetweenEntry
    <3>2. KeyOf(a) \in Keys /\ KeyOf(a)' = KeyOf(a)
      BY <1>1, <3>1, KeyOfScan DEF KeyOf
    <3>3. locks'[KeyOf(a)].status = "DIRECTION_LOCKED" /\ locks'[KeyOf(a)].side = s
      BY <1>4, <1>5, <3>1, <3>2
    <3> QED
      BY <1>1, <3>1, <3>2, <3>3 DEF BetweenEntry
  <2> QED
    BY <2>1, <2>2
<1> QED
  BY <1>1, <1>6, <1>7, <1>8, TradesStay

-----------------------------------------------------------------------------
(* Steps that write a trade *)

\* A committed trade gets a new row, and its lock the status.
LEMMA RowWritten ==
  ASSUME LaneInv, NEW i \in DOMAIN trades, trades[i].status \in Committed, NEW row \in TradeRow,
         row.asset = trades[i].asset, row.window = trades[i].window, row.side = trades[i].side,
         trades' = [trades EXCEPT ![i] = row], locks' = Synced(locks, i, row.status)
  PROVE  /\ Tables(locks', trades') /\ Agrees(locks', trades') /\ Capped(trades') /\ ClosedKept
         /\ DOMAIN trades' = DOMAIN trades
         /\ \A j \in DOMAIN trades : trades'[j] = IF j = i THEN row ELSE trades[j]
<1> DEFINE us == [trades EXCEPT ![i] = row]
<1>1. trades \in Seq(TradeRow) /\ Tables(locks, trades) /\ Agrees(locks, trades) /\ Capped(trades)
  BY DEF LaneInv, Tables
<1>2. DOMAIN trades = 1..Len(trades)
  BY <1>1, LenProperties
<1>3. /\ us \in Seq(TradeRow) /\ Len(us) = Len(trades)
      /\ \A j \in DOMAIN trades : us[j] = IF j = i THEN row ELSE trades[j]
  BY <1>1, <1>2, ExceptSeq
<1>4. DOMAIN us = DOMAIN trades
  BY <1>2, <1>3, LenProperties
<1> HIDE DEF us
<1>5. row.status \in Committed \cup Terminal /\ trades[i].status \notin Terminal
  BY StatusesApart DEF TradeRow
<1>6. Tables(Synced(locks, i, row.status), us) /\ Agrees(Synced(locks, i, row.status), us)
  <2> DEFINE life == row.status
  <2>1. life \in Committed \cup Terminal
    BY <1>5
  <2>2. \A j \in DOMAIN trades :
          /\ us[j].asset = trades[j].asset /\ us[j].window = trades[j].window
          /\ us[j].side = trades[j].side
          /\ us[j].status = IF j = i THEN life ELSE trades[j].status
    BY <1>3
  <2> HIDE DEF life
  <2>3. Tables(Synced(locks, i, life), us) /\ Agrees(Synced(locks, i, life), us)
    BY <1>1, <1>3, <1>4, <1>5, <2>1, <2>2, SyncedAgrees
  <2> QED
    BY <2>3 DEF life
<1>7. Capped(us)
  BY <1>1, <1>3, <1>4, CappedFewer
<1>8. trades' = us
  BY DEF us
<1>9. ClosedKept
  BY <1>3, <1>5, <1>8 DEF ClosedKept
<1> QED
  BY <1>3, <1>4, <1>6, <1>7, <1>8, <1>9

\* ... and the other trades stay where they wait.
LEMMA OthersWait ==
  ASSUME LaneInv, NEW i \in DOMAIN trades, DOMAIN trades' = DOMAIN trades,
         \A j \in DOMAIN trades : j # i => trades'[j] = trades[j],
         dueQ' = Without(dueQ, i) \/ (dueQ' = dueQ /\ trades[i].status \notin Unresolved)
  PROVE  DueWaits(dueQ', trades')
<1>1. dueQ \in Seq(DOMAIN trades) /\ Once(dueQ) /\ \A n \in DOMAIN dueQ : trades[dueQ[n]].status \in Unresolved
  BY DEF LaneInv, DueWaits
<1>2. \A n \in DOMAIN dueQ : dueQ[n] \in DOMAIN trades
  BY <1>1, ElementOfSeq, LenProperties
<1>3. CASE dueQ' = Without(dueQ, i)
  <2>1. /\ dueQ' \in Seq(DOMAIN trades) /\ Once(dueQ')
        /\ \A n \in DOMAIN dueQ' : dueQ'[n] # i /\ \E m \in DOMAIN dueQ : dueQ'[n] = dueQ[m]
    BY <1>1, <1>3, WithoutIs
  <2>2. \A n \in DOMAIN dueQ' : trades'[dueQ'[n]].status \in Unresolved
    BY <1>1, <1>2, <2>1
  <2> QED
    BY <2>1, <2>2 DEF DueWaits
<1>4. CASE dueQ' = dueQ /\ trades[i].status \notin Unresolved
  <2>1. \A n \in DOMAIN dueQ : dueQ[n] # i
    BY <1>1, <1>4
  <2>2. \A n \in DOMAIN dueQ : trades'[dueQ[n]].status \in Unresolved
    BY <1>1, <1>2, <2>1
  <2> QED
    BY <1>1, <1>4, <2>2 DEF DueWaits
<1> QED
  BY <1>3, <1>4

LEMMA OthersHeld ==
  ASSUME LaneInv, NEW i \in DOMAIN trades, DOMAIN trades' = DOMAIN trades,
         \A j \in DOMAIN trades : j # i => trades'[j] = trades[j],
         managing' \subseteq managing, resolving' \subseteq resolving,
         i \notin managing', i \notin resolving'
  PROVE  MemoryAgrees(trades)'
<1>1. \A j \in managing' : j \in DOMAIN trades /\ j # i /\ trades[j].status \in OpenStatuses
  BY DEF LaneInv, MemoryAgrees
<1>2. \A j \in resolving' : j \in DOMAIN trades /\ j # i /\ trades[j].status \in Unresolved
  BY DEF LaneInv, MemoryAgrees
<1> QED
  BY <1>1, <1>2 DEF MemoryAgrees

\* A row with another status
LEMMA StatusRow ==
  ASSUME trades \in Seq(TradeRow), NEW i \in DOMAIN trades, NEW status \in Committed \cup Terminal,
         NEW row, row = [trades[i] EXCEPT !.status = status]
  PROVE  /\ row \in TradeRow /\ row.status = status /\ row.asset = trades[i].asset
         /\ row.window = trades[i].window /\ row.side = trades[i].side
<1>1. trades[i] \in TradeRow
  BY RowsOf
<1> QED
  BY <1>1 DEF TradeRow

LEMMA ManageExitKeeps ==
  ASSUME LaneInv, NEW i \in DOMAIN trades, ManageExit(i) PROVE LaneInv' /\ ClosedKept
<1> USE DEF LaneInv
<1> DEFINE row == [trades[i] EXCEPT !.status = "EXIT_PENDING"]
<1>1. /\ i \in managing /\ managing' = managing \ {i} /\ mid' = <<"exit", i>>
      /\ trades' = IF trades[i].status = "OPEN"
                   THEN [trades EXCEPT ![i].status = "EXIT_PENDING"] ELSE trades
      /\ locks' = Synced(locks, i, "EXIT_PENDING")
      /\ UNCHANGED <<window, dueQ, phase, resolving, scans, liteCrashes>>
  BY DEF ManageExit
<1>2. trades[i].status \in {"OPEN", "EXIT_PENDING"} /\ trades[i].status \in Committed
      /\ trades[i].status \notin Unresolved
  BY <1>1, StatusesApart DEF MemoryAgrees, OpenStatuses
<1>3. trades \in Seq(TradeRow) /\ "EXIT_PENDING" \in Committed \cup Terminal
  BY StatusesApart DEF Tables
<1>4. /\ row \in TradeRow /\ row.status = "EXIT_PENDING" /\ row.asset = trades[i].asset
      /\ row.window = trades[i].window /\ row.side = trades[i].side
  BY <1>3, StatusRow
<1>5. trades' = [trades EXCEPT ![i] = row]
  <2>1. CASE trades[i].status = "OPEN"
    BY <1>1, <2>1
  <2>2. CASE trades[i].status = "EXIT_PENDING"
    <3>1. trades[i] \in TradeRow
      BY <1>3, RowsOf
    <3>2. row = trades[i]
      BY <2>2, <3>1 DEF TradeRow
    <3>3. trades' = trades
      BY <1>1, <2>2
    <3>4. trades = [trades EXCEPT ![i] = trades[i]]
      BY <1>3, LenProperties
    <3> QED
      BY <3>2, <3>3, <3>4
  <2> QED
    BY <1>2, <2>1, <2>2
<1> HIDE DEF row
<1>6. /\ Tables(locks', trades') /\ Agrees(locks', trades') /\ Capped(trades') /\ ClosedKept
      /\ DOMAIN trades' = DOMAIN trades
      /\ \A j \in DOMAIN trades : trades'[j] = IF j = i THEN row ELSE trades[j]
  BY <1>1, <1>2, <1>4, <1>5, RowWritten
<1>7. DueWaits(dueQ', trades')
  BY <1>1, <1>2, <1>6, OthersWait
<1>8. MemoryAgrees(trades)'
  <2>1. i \notin resolving
    BY <1>2 DEF MemoryAgrees
  <2> QED
    BY <1>1, <1>6, <2>1, OthersHeld
<1>9. LanePlain' /\ Phases'
  BY <1>1 DEF LanePlain, Phases
<1>10. BetweenExit(trades)'
  BY <1>1, <1>4, <1>6 DEF BetweenExit
<1> QED
  BY <1>6, <1>7, <1>8, <1>9, <1>10

\* A committed trade closes: an exit, an official outcome or the repair.
LEMMA CompletedKeeps ==
  ASSUME LaneInv, NEW i \in DOMAIN trades, trades[i].status \in Committed,
         NEW status \in Terminal, Completed(i, status),
         managing' \subseteq managing, resolving' \subseteq resolving,
         i \notin managing', i \notin resolving', LanePlain', Phases', mid' = << >>
  PROVE  LaneInv' /\ ClosedKept
<1> USE DEF LaneInv
<1> DEFINE row == [trades[i] EXCEPT !.status = status]
<1>1. /\ trades' = [trades EXCEPT ![i].status = status] /\ locks' = Synced(locks, i, status)
      /\ dueQ' = Without(dueQ, i)
  BY DEF Completed
<1>2. trades \in Seq(TradeRow)
  BY DEF Tables
<1>3. /\ row \in TradeRow /\ row.status = status /\ row.asset = trades[i].asset
      /\ row.window = trades[i].window /\ row.side = trades[i].side
  BY <1>2, StatusRow
<1>4. trades' = [trades EXCEPT ![i] = row]
  BY <1>1
<1> HIDE DEF row
<1>5. /\ Tables(locks', trades') /\ Agrees(locks', trades') /\ Capped(trades') /\ ClosedKept
      /\ DOMAIN trades' = DOMAIN trades
      /\ \A j \in DOMAIN trades : trades'[j] = IF j = i THEN row ELSE trades[j]
  BY <1>1, <1>3, <1>4, RowWritten
<1>6. DueWaits(dueQ', trades') /\ MemoryAgrees(trades)'
  BY <1>1, <1>5, OthersWait, OthersHeld
<1> QED
  BY <1>5, <1>6

LEMMA CompleteExitKeeps == ASSUME LaneInv, CompleteExit PROVE LaneInv' /\ ClosedKept
<1> USE DEF LaneInv
<1>1. /\ mid # <<>> /\ mid[1] = "exit" /\ mid' = <<>> /\ Completed(mid[2], "CLOSED_BOOK_EXIT")
      /\ UNCHANGED <<window, phase, managing, resolving, scans, liteCrashes>>
  BY DEF CompleteExit
<1>2. BetweenExit(trades)
  BY <1>1 DEF BetweenEntry
<1>3. PICK i \in DOMAIN trades \ managing : mid = <<"exit", i>> /\ trades[i].status = "EXIT_PENDING"
  BY <1>2 DEF BetweenExit
<1>4. mid[2] = i /\ trades[i].status \in Committed /\ trades[i].status \notin Unresolved
  BY <1>3, StatusesApart
<1>5. i \notin resolving
  BY <1>4 DEF MemoryAgrees
<1>6. LanePlain' /\ Phases'
  BY <1>1 DEF LanePlain, Phases
<1> QED
  BY <1>1, <1>3, <1>4, <1>5, <1>6, StatusesApart, CompletedKeeps

LEMMA ResolveKeeps ==
  ASSUME LaneInv, NEW i \in DOMAIN trades, ResolveOfficial(i) PROVE LaneInv' /\ ClosedKept
<1> USE DEF LaneInv
<1>1. /\ mid = <<>> /\ i \in resolving /\ resolving' = resolving \ {i}
      /\ UNCHANGED <<window, phase, managing, scans, mid, liteCrashes>>
  BY DEF ResolveOfficial
<1>2. PICK status \in {"CLOSED_WIN", "CLOSED_LOSS"} : Completed(i, status)
  BY DEF ResolveOfficial
<1>3. trades[i].status \in Committed /\ trades[i].status \notin OpenStatuses
  BY <1>1, StatusesApart DEF MemoryAgrees
<1>4. i \notin managing
  BY <1>3 DEF MemoryAgrees
<1>5. LanePlain' /\ Phases'
  BY <1>1 DEF LanePlain, Phases
<1> QED
  BY <1>1, <1>2, <1>3, <1>4, <1>5, StatusesApart, CompletedKeeps

LEMMA NoteRetryKeeps ==
  ASSUME LaneInv, NEW i \in DOMAIN trades, NoteRetry(i) PROVE LaneInv' /\ ClosedKept
<1> USE DEF LaneInv
<1> DEFINE n == IF trades[i].retries = MaxRetries THEN MaxRetries ELSE trades[i].retries + 1
           s == IF n = MaxRetries THEN "UNRESOLVED_FINAL" ELSE "UNRESOLVED_RETRYING"
           row == [trades[i] EXCEPT !.status = s, !.retries = n]
<1>1. /\ mid = <<>> /\ i \in resolving /\ resolving' = resolving \ {i}
      /\ trades' = [trades EXCEPT ![i].status = s, ![i].retries = n]
      /\ locks' = Synced(locks, i, s) /\ dueQ' = Without(dueQ, i)
      /\ UNCHANGED <<window, phase, managing, scans, mid, liteCrashes>>
  BY DEF NoteRetry
<1>2. trades \in Seq(TradeRow) /\ trades[i] \in TradeRow
  BY RowsOf DEF Tables
<1>3. n \in 0..MaxRetries
  BY <1>2, LaneBounds DEF TradeRow
<1>4. s \in Unresolved /\ s \in Committed \cup Terminal
  BY StatusesApart
<1> HIDE DEF n, s
<1>5. /\ row \in TradeRow /\ row.status = s /\ row.asset = trades[i].asset
      /\ row.window = trades[i].window /\ row.side = trades[i].side
  BY <1>2, <1>3, <1>4 DEF TradeRow
<1>6. trades' = [trades EXCEPT ![i] = row]
  <2>1. trades \in [DOMAIN trades -> TradeRow]
    BY <1>2, LenProperties
  <2> QED
    BY <1>1, <1>2, <2>1 DEF TradeRow
<1> HIDE DEF row
<1>7. trades[i].status \in Committed /\ trades[i].status \notin OpenStatuses
  BY <1>1, StatusesApart DEF MemoryAgrees
<1>8. /\ Tables(locks', trades') /\ Agrees(locks', trades') /\ Capped(trades') /\ ClosedKept
      /\ DOMAIN trades' = DOMAIN trades
      /\ \A j \in DOMAIN trades : trades'[j] = IF j = i THEN row ELSE trades[j]
  BY <1>1, <1>5, <1>6, <1>7, RowWritten
<1>9. DueWaits(dueQ', trades')
  BY <1>1, <1>8, OthersWait
<1>10. MemoryAgrees(trades)'
  <2>1. i \notin managing
    BY <1>7 DEF MemoryAgrees
  <2> QED
    BY <1>1, <1>8, <2>1, OthersHeld
<1>11. LanePlain' /\ Phases'
  BY <1>1 DEF LanePlain, Phases
<1> QED
  BY <1>1, <1>8, <1>9, <1>10, <1>11

LEMMA RepairKeeps ==
  ASSUME LaneInv, ~RepairOnline, NEW i \in DOMAIN trades, Repair(i) PROVE LaneInv' /\ ClosedKept
<1> USE DEF LaneInv
<1> DEFINE s == IF trades[i].side = Official THEN "CLOSED_WIN" ELSE "CLOSED_LOSS"
           row == [trades[i] EXCEPT !.status = s]
           ts == [trades EXCEPT ![i].status = s]
           ls == Synced(locks, i, s)
<1>1. /\ phase = "down" /\ trades[i].status \in {"UNRESOLVED_FINAL", "UNRESOLVED_RETRYING"}
      /\ trades' = ts /\ locks' = Finalized(ls, ts) /\ dueQ' = Without(dueQ, i)
      /\ UNCHANGED <<window, phase, managing, resolving, scans, mid, liteCrashes>>
  BY DEF Repair
<1>2. trades \in Seq(TradeRow)
  BY DEF Tables
<1>3. s \in Terminal /\ s \in Committed \cup Terminal
  BY StatusesApart
<1> HIDE DEF s
<1>4. /\ row \in TradeRow /\ row.status = s /\ row.asset = trades[i].asset
      /\ row.window = trades[i].window /\ row.side = trades[i].side
  BY <1>2, <1>3, StatusRow
<1>5. ts = [trades EXCEPT ![i] = row]
  OBVIOUS
<1>6. trades[i].status \in Committed /\ trades[i].status \notin Terminal
  BY <1>1, StatusesApart
<1> HIDE DEF row
<1>7. /\ ts \in Seq(TradeRow) /\ Len(ts) = Len(trades) /\ DOMAIN trades = 1..Len(trades)
      /\ \A j \in DOMAIN trades : ts[j] = IF j = i THEN row ELSE trades[j]
  <2>1. DOMAIN trades = 1..Len(trades)
    BY <1>2, LenProperties
  <2> HIDE DEF ts
  <2> QED
    BY <1>2, <1>4, <1>5, <2>1, ExceptSeq
<1> HIDE DEF ts
<1>8. DOMAIN ts = DOMAIN trades
  BY <1>7, LenProperties
<1>9. Tables(ls, ts) /\ Agrees(ls, ts)
  <2>1. \A j \in DOMAIN trades :
          /\ ts[j].asset = trades[j].asset /\ ts[j].window = trades[j].window
          /\ ts[j].side = trades[j].side
          /\ ts[j].status = IF j = i THEN s ELSE trades[j].status
    BY <1>4, <1>7
  <2>2. Tables(locks, trades) /\ Agrees(locks, trades)
    OBVIOUS
  <2> HIDE DEF LaneInv
  <2>3. Tables(Synced(locks, i, s), ts) /\ Agrees(Synced(locks, i, s), ts)
    BY <1>3, <1>6, <1>7, <1>8, <2>1, <2>2, SyncedAgrees
  <2> QED
    BY <2>3
<1> HIDE DEF ls
<1>10. Tables(locks', trades') /\ Agrees(locks', trades')
  BY <1>1, <1>9, FinalizedAgrees
<1>11. Capped(trades')
  BY <1>1, <1>2, <1>4, <1>6, <1>7, <1>8, CappedFewer
<1>12. ClosedKept
  BY <1>1, <1>6, <1>7 DEF ClosedKept
<1>13. DueWaits(dueQ', trades')
  BY <1>1, <1>7, <1>8, OthersWait
<1>14. managing = {} /\ resolving = {} /\ mid = << >>
  BY <1>1 DEF Phases
<1>15. MemoryAgrees(trades)' /\ LanePlain' /\ Phases'
  BY <1>1, <1>14 DEF MemoryAgrees, LanePlain, Phases
<1> QED
  BY <1>1, <1>10, <1>11, <1>12, <1>13, <1>14, <1>15

-----------------------------------------------------------------------------
(* Entries *)

LEMMA InsertKeeps ==
  ASSUME LaneInv, NEW a \in Assets, NEW w \in Windows, NEW s \in Sides, InsertTrade(a, w, s),
         LanePlain', Phases', mid' = << >>, dueQ' = dueQ, managing' = managing, resolving' = resolving
  PROVE  LaneInv' /\ ClosedKept
<1> USE DEF LaneInv
<1>1. <<a, w>> \in Keys
  OBVIOUS
<1>2. CASE trades' # trades
  <2> DEFINE n == Len(trades) + 1
  <2>1. /\ Admits(a, w, s)
        /\ trades' = Append(trades, [asset |-> a, window |-> w, side |-> s,
                                     status |-> "OPEN", retries |-> 0])
        /\ locks' = [locks EXCEPT ![<<a, w>>] =
             [side |-> s, status |-> "ENTERED", life |-> "OPEN",
              trade |-> Len(trades) + 1, late |-> FALSE]]
    BY <1>2 DEF InsertTrade
  <2>2. locks[<<a, w>>].trade = 0
    BY <1>1, <2>1, ActiveNamesNone DEF Admits
  <2>3. /\ Tables(locks', trades') /\ Agrees(locks', trades') /\ Len(trades') = Len(trades) + 1
        /\ DOMAIN trades' = DOMAIN trades \cup {n}
        /\ \A i \in DOMAIN trades : trades'[i] = trades[i]
        /\ trades'[n].asset = a
    <3>1. /\ Tables(locks, trades) /\ Agrees(locks, trades) /\ a \in Assets /\ w \in Windows /\ s \in Sides
          /\ locks[<<a, w>>].trade = 0
      BY <2>2
    <3>2. /\ trades' = Append(trades, EntryRow(a, w, s))
          /\ locks' = WithEntry(locks, <<a, w>>, EntryLock(s, Len(trades) + 1))
      BY <2>1 DEF EntryRow, EntryLock, WithEntry
    <3>3. /\ Tables(locks', trades') /\ Agrees(locks', trades') /\ Len(trades') = Len(trades) + 1
          /\ DOMAIN trades' = DOMAIN trades \cup {Len(trades) + 1}
          /\ \A i \in DOMAIN trades : trades'[i] = trades[i]
          /\ trades'[Len(trades) + 1].asset = a
      <4> HIDE DEF n, LaneInv
      <4> QED
        BY <3>1, <3>2, EntryAgrees
    <3> QED
      BY <3>3
  <2>4. trades \in Seq(TradeRow) /\ trades' \in Seq(TradeRow) /\ Len(trades) \in Nat /\ DOMAIN trades = 1..Len(trades)
    BY <2>3, RowsOf DEF Tables
  <2>5. n \notin DOMAIN trades
    BY <2>4
  <2>6. Cardinality(Held(trades)) < MaxOpen /\ Cardinality(HeldOf(trades, a)) < MaxPerAsset
    <3>1. ~(Cardinality(Held(trades)) >= MaxOpen \/ Cardinality(HeldOf(trades, a)) >= MaxPerAsset)
      BY <2>1 DEF Admits, AtCap, OpenCount, AssetCount, Held, HeldOf
    <3>2. Cardinality(Held(trades)) \in Nat /\ Cardinality(HeldOf(trades, a)) \in Nat
      BY <2>4, HeldFinite, HeldOfFinite
    <3> QED
      BY <3>1, <3>2, LaneBounds
  <2> HIDE DEF n
  <2>7. Capped(trades')
    BY <2>3, <2>4, <2>5, <2>6, CappedEntry
  <2>8. DOMAIN trades \subseteq DOMAIN trades'
    BY <2>3
  <2>9. DueWaits(dueQ', trades')
    <3>1. dueQ \in Seq(DOMAIN trades')
      BY <2>8, SeqMonotonic DEF DueWaits
    <3>2. \A m \in DOMAIN dueQ : dueQ[m] \in DOMAIN trades
      BY ElementOfSeq, LenProperties DEF DueWaits
    <3> QED
      BY <2>3, <3>1, <3>2 DEF DueWaits
  <2>10. MemoryAgrees(trades)' /\ ClosedKept
    BY <2>3, <2>8 DEF MemoryAgrees, ClosedKept
  <2> QED
    BY <2>3, <2>7, <2>9, <2>10
<1>3. CASE trades' = trades
  <2>1. locks' = Skipped(locks, <<a, w>>) \/ locks' = locks
    <3>1. trades # Append(trades, [asset |-> a, window |-> w, side |-> s, status |-> "OPEN", retries |-> 0])
      <4> DEFINE t == [asset |-> a, window |-> w, side |-> s, status |-> "OPEN", retries |-> 0]
      <4>1. t \in TradeRow /\ trades \in Seq(TradeRow)
        BY LaneBounds, StatusesApart DEF TradeRow, Tables
      <4> HIDE DEF t
      <4>2. Len(Append(trades, t)) = Len(trades) + 1 /\ Len(trades) \in Nat
        BY <4>1, AppendProperties, LenProperties
      <4>3. trades # Append(trades, t)
        BY <4>2
      <4> QED
        BY <4>3 DEF t
    <3> QED
      BY <1>3, <3>1 DEF InsertTrade
  <2>2. Tables(locks', trades') /\ Agrees(locks', trades')
    BY <1>1, <1>3, <2>1, SkippedAgrees
  <2> QED
    BY <1>3, <2>2, TradesStay
<1> QED
  BY <1>2, <1>3

LEMMA CrossReservedKeeps == ASSUME LaneInv, CrossReserved PROVE LaneInv' /\ ClosedKept
<1> USE DEF LaneInv
<1>1. /\ mid # <<>> /\ mid[1] = "CROSS_SPREAD" /\ mid' = <<>> /\ Scanned(mid[2])
      /\ InsertTrade(mid[2], scans[mid[2]].window, mid[3])
      /\ UNCHANGED <<window, dueQ, phase, managing, resolving, liteCrashes>>
  BY DEF CrossReserved
<1>2. mid[2] \in Assets /\ mid[3] \in Sides /\ scans[mid[2]].window \in Windows
  BY <1>1, EntryPending
<1>3. /\ scans' \in [Assets -> [at : {"done", "market", "books"}, window : 0..NWindows]]
      /\ scans'[mid[2]].at = "done" /\ \A b \in Assets : b # mid[2] => scans'[b] = scans[b]
  BY <1>1, <1>2, ScansOver
<1>4. LanePlain' /\ Phases'
  BY <1>1, <1>2, <1>3 DEF LanePlain, Phases
<1> QED
  BY <1>1, <1>2, <1>4, InsertKeeps

LEMMA CrossAtDeadlineKeeps ==
  ASSUME LaneInv, NEW a \in Assets, NEW s \in Sides, CrossAtDeadline(a, s) PROVE LaneInv' /\ ClosedKept
<1> USE DEF LaneInv
<1>1. /\ mid = <<>> /\ scans[a].at = "books" /\ Scanned(a) /\ InsertTrade(a, scans[a].window, s)
      /\ UNCHANGED <<window, dueQ, phase, managing, resolving, mid, liteCrashes>>
  BY DEF CrossAtDeadline, Passes, Evaluates
<1>2. scans[a].window \in Windows
  BY <1>1, KeyOfScan
<1>3. /\ scans' \in [Assets -> [at : {"done", "market", "books"}, window : 0..NWindows]]
      /\ scans'[a].at = "done" /\ \A b \in Assets : b # a => scans'[b] = scans[b]
  BY <1>1, ScansOver
<1>4. LanePlain' /\ Phases'
  BY <1>1, <1>3 DEF LanePlain, Phases
<1> QED
  BY <1>1, <1>2, <1>4, InsertKeeps

-----------------------------------------------------------------------------
(* The begin of a cycle *)

LEMMA BeginCycleKeeps == ASSUME LaneInv, BeginCycle PROVE LaneInv' /\ ClosedKept
<1> USE DEF LaneInv
<1> DEFINE open == {i \in DOMAIN trades : trades[i].status \in OpenStatuses}
           past == {i \in open : trades[i].window < window}
           batch == SubSeq(dueQ, 1, IF Len(dueQ) < Batch THEN Len(dueQ) ELSE Batch)
           begun == {batch[n] : n \in DOMAIN batch}
           Status(i) == CASE i \in past -> "PENDING_RESOLUTION"
                          [] i \in begun -> "UNRESOLVED_RETRYING"
                          [] OTHER -> trades[i].status
           ts == [i \in DOMAIN trades |-> [trades[i] EXCEPT !.status = Status(i)]]
           ls == Finalized(locks, trades)
<1>1. /\ phase = "idle" /\ phase' = "managing" /\ managing' = open \ past /\ resolving' = begun
      /\ trades' = ts
      /\ locks' = [k \in DOMAIN ls |->
             IF ls[k].trade \in past \cup begun
             THEN [ls[k] EXCEPT !.life = ts[ls[k].trade].status] ELSE ls[k]]
      /\ UNCHANGED <<window, scans, mid, liteCrashes>>
  BY DEF BeginCycle
<1>2. PICK q \in [1..Cardinality(past) -> past] :
        (\A m, n \in DOMAIN q : m < n => q[m] < q[n]) /\ dueQ' = dueQ \o q
  BY DEF BeginCycle
<1>3. /\ trades \in Seq(TradeRow) /\ Len(trades) \in Nat /\ DOMAIN trades = 1..Len(trades)
      /\ IsFiniteSet(DOMAIN trades)
      /\ \A i \in DOMAIN trades : trades[i] \in TradeRow
  BY RowsOf DEF Tables
<1>4. dueQ \in Seq(DOMAIN trades) /\ Once(dueQ) /\ \A n \in DOMAIN dueQ : trades[dueQ[n]].status \in Unresolved
  BY DEF DueWaits
<1>5. \A n \in DOMAIN dueQ : dueQ[n] \in DOMAIN trades
  BY <1>4, ElementOfSeq, LenProperties
<1>6. open \subseteq DOMAIN trades /\ past \subseteq open /\ \A i \in open : trades[i].status \in OpenStatuses
  OBVIOUS
<1>7. begun \subseteq DOMAIN trades /\ \A i \in begun : trades[i].status \in Unresolved
  <2> DEFINE m == IF Len(dueQ) < Batch THEN Len(dueQ) ELSE Batch
  <2>1. Len(dueQ) \in Nat /\ DOMAIN dueQ = 1..Len(dueQ)
    BY <1>4, LenProperties
  <2>2. m \in Nat /\ m <= Len(dueQ)
    BY <2>1, LaneBounds
  <2> HIDE DEF m
  <2>3. batch \in Seq(DOMAIN trades) /\ Len(batch) = m /\ \A n \in 1..m : batch[n] = dueQ[n]
    <3>1. batch = SubSeq(dueQ, 1, m)
      BY DEF m
    <3> HIDE DEF batch
    <3>2. /\ SubSeq(dueQ, 1, m) \in Seq(DOMAIN trades) /\ Len(SubSeq(dueQ, 1, m)) = m
          /\ \A n \in 1..m : SubSeq(dueQ, 1, m)[n] = dueQ[1 + n - 1]
      BY <1>4, <2>1, <2>2, SubSeqProperties
    <3> QED
      BY <3>1, <3>2
  <2> HIDE DEF batch
  <2>4. DOMAIN batch = 1..m
    BY <2>3, LenProperties
  <2>5. \A n \in DOMAIN batch : n \in DOMAIN dueQ /\ batch[n] = dueQ[n]
    BY <2>1, <2>2, <2>3, <2>4
  <2> QED
    BY <1>4, <1>5, <2>5
<1> HIDE DEF open, past, begun, batch
<1>8. past \cap begun = {} /\ past \subseteq DOMAIN trades
  BY <1>6, <1>7, StatusesApart
<1>9. \A i \in DOMAIN trades :
        /\ i \in past => Status(i) = "PENDING_RESOLUTION"
        /\ i \in begun => Status(i) = "UNRESOLVED_RETRYING"
        /\ i \notin past /\ i \notin begun => Status(i) = trades[i].status
  BY <1>8
<1> HIDE DEF Status
<1>10. \A i \in DOMAIN trades :
         /\ trades[i].status \in Committed \cup Terminal
         /\ i \in past \cup begun => Status(i) \in Unresolved /\ trades[i].status \in Committed
         /\ Status(i) \in Committed \cup Terminal
         /\ trades[i].status \in Terminal => Status(i) = trades[i].status
         /\ Status(i) \in Committed => trades[i].status \in Committed
  BY <1>3, <1>6, <1>7, <1>9, StatusesApart DEF TradeRow
<1>11. \A i \in DOMAIN trades :
         /\ ts[i] \in TradeRow /\ ts[i].status = Status(i) /\ ts[i].asset = trades[i].asset
         /\ ts[i].window = trades[i].window /\ ts[i].side = trades[i].side
  <2> TAKE i \in DOMAIN trades
  <2>1. ts[i] = [trades[i] EXCEPT !.status = Status(i)] /\ trades[i] \in TradeRow
        /\ Status(i) \in Committed \cup Terminal
    BY <1>3, <1>10
  <2> HIDE DEF ts
  <2> QED
    BY <2>1 DEF TradeRow
<1>12. ts \in Seq(TradeRow) /\ DOMAIN ts = DOMAIN trades /\ Len(ts) = Len(trades)
  <2>1. DOMAIN ts = DOMAIN trades /\ ts \in [1..Len(trades) -> TradeRow]
    <3>1. ts = [i \in DOMAIN trades |-> ts[i]]
      OBVIOUS
    <3> HIDE DEF ts
    <3> QED
      BY <1>3, <1>11, <3>1
  <2> HIDE DEF ts
  <2>2. ts \in Seq(TradeRow)
    BY <1>3, <2>1, SeqDef
  <2>3. DOMAIN ts = 1..Len(ts) /\ Len(ts) \in Nat
    BY <2>2, LenProperties
  <2> QED
    BY <1>3, <2>1, <2>2, <2>3
<1> HIDE DEF ts
<1>13. /\ Tables(ls, trades) /\ Agrees(ls, trades)
       /\ \A k \in Keys : ls[k] \in LockRow(Len(trades)) /\ LockTells(ls[k], k, trades)
  BY FinalizedAgrees, TradeNamed DEF Agrees
<1>14. DOMAIN ls = Keys
  BY <1>13 DEF Tables
<1> HIDE DEF ls
<1>15. ASSUME NEW k \in Keys
       PROVE  /\ locks'[k] \in LockRow(Len(ts)) /\ locks'[k].trade = ls[k].trade
              /\ LockTells(locks'[k], k, ts)
  <2>1. locks'[k] = IF ls[k].trade \in past \cup begun
                    THEN [ls[k] EXCEPT !.life = ts[ls[k].trade].status] ELSE ls[k]
    BY <1>1, <1>14
  <2>2. ls[k] \in LockRow(Len(trades)) /\ LockTells(ls[k], k, trades)
    BY <1>13
  <2>3. CASE ls[k].trade \in past \cup begun
    <3> DEFINE i == ls[k].trade
    <3>1. /\ i \in DOMAIN trades /\ ts[i].status \in Committed \cup Terminal /\ trades[i].status \notin Terminal /\ i # 0
      BY <1>3, <1>7, <1>8, <1>10, <1>11, <2>3, StatusesApart
    <3>2. /\ locks'[k] \in LockRow(Len(ts)) /\ locks'[k].trade = i /\ locks'[k].life = ts[i].status
          /\ locks'[k].status = ls[k].status /\ locks'[k].side = ls[k].side
      <4>1. locks'[k] = [ls[k] EXCEPT !.life = ts[i].status] /\ ls[k].trade = i
        BY <2>1, <2>3
      <4>2. ls[k] \in LockRow(Len(ts)) /\ ts[i].status \in Committed \cup Terminal
        BY <1>12, <2>2, <3>1
      <4> HIDE DEF i
      <4> QED
        BY <4>1, <4>2 DEF LockRow
    <3>3. ls[k].status = "ENTERED"
      BY <1>13, <3>1, LiveEntered
    <3>4. ts[i].asset = trades[i].asset /\ ts[i].window = trades[i].window /\ ts[i].side = trades[i].side
      BY <1>11, <3>1
    <3> QED
      BY <2>2, <3>1, <3>2, <3>3, <3>4 DEF LockTells
  <2>4. CASE ls[k].trade \notin past \cup begun
    <3>1. locks'[k] = ls[k]
      BY <2>1, <2>4
    <3>2. ls[k].trade # 0 => ls[k].trade \in DOMAIN trades
      BY <1>13, TradeNamed
    <3>3. ls[k].trade # 0 =>
            /\ ts[ls[k].trade].asset = trades[ls[k].trade].asset
            /\ ts[ls[k].trade].window = trades[ls[k].trade].window
            /\ ts[ls[k].trade].side = trades[ls[k].trade].side
            /\ ts[ls[k].trade].status = trades[ls[k].trade].status
      BY <1>9, <1>11, <2>4, <3>2
    <3> QED
      BY <1>12, <2>2, <3>1, <3>3 DEF LockTells
  <2> QED
    BY <2>3, <2>4
<1>16. Tables(locks', trades') /\ Agrees(locks', trades')
  <2>1. locks' = [k \in Keys |-> locks'[k]]
    BY <1>1, <1>14
  <2>2. locks' \in [Keys -> LockRow(Len(ts))]
    BY <1>15, <2>1
  <2>3. \A i \in DOMAIN ts : locks'[<<ts[i].asset, ts[i].window>>].trade = i
    <3> TAKE i \in DOMAIN ts
    <3>1. i \in DOMAIN trades /\ <<ts[i].asset, ts[i].window>> = <<trades[i].asset, trades[i].window>>
      BY <1>11, <1>12
    <3>2. ls[<<trades[i].asset, trades[i].window>>].trade = i /\ <<trades[i].asset, trades[i].window>> \in Keys
      BY <1>3, <1>13, <3>1, RowsOf DEF Agrees
    <3> QED
      BY <1>15, <3>1, <3>2
  <2> QED
    BY <1>1, <1>12, <1>15, <2>2, <2>3 DEF Tables, Agrees
<1>17. Capped(trades')
  BY <1>1, <1>3, <1>10, <1>11, <1>12, CappedFewer
<1>18. ClosedKept
  BY <1>1, <1>10, <1>11 DEF ClosedKept
<1>19. DueWaits(dueQ', trades')
  <2>1. IsFiniteSet(past)
    BY <1>3, <1>8, FS_Subset
  <2>2. Cardinality(past) \in Nat
    BY <2>1, FS_CardinalityType
  <2>3. q \in Seq(past)
    BY <2>2, SeqDef
  <2>4. q \in Seq(DOMAIN trades)
    BY <1>8, <2>3, SeqMonotonic
  <2>5. DOMAIN q = 1..Cardinality(past) /\ \A n \in DOMAIN q : q[n] \in past
    OBVIOUS
  <2>6. Once(q)
    <3> SUFFICES ASSUME NEW m \in DOMAIN q, NEW n \in DOMAIN q, m # n PROVE q[m] # q[n]
      BY DEF Once
    <3>1. m \in Nat /\ n \in Nat
      BY <2>2, <2>5
    <3>2. q[m] \in Nat /\ q[n] \in Nat
      BY <1>3, <1>8, <2>5
    <3>3. m < n \/ n < m
      BY <3>1
    <3> QED
      BY <1>2, <3>2, <3>3
  <2>7. \A m \in DOMAIN dueQ, n \in DOMAIN q : dueQ[m] # q[n]
    <3>1. \A n \in DOMAIN q : trades[q[n]].status \notin Unresolved
      BY <1>6, <2>5, StatusesApart
    <3> QED
      BY <1>4, <3>1
  <2>8. /\ dueQ' \in Seq(DOMAIN trades) /\ Once(dueQ')
        /\ \A n \in DOMAIN dueQ' : \/ \E m \in DOMAIN dueQ : dueQ'[n] = dueQ[m]
                                   \/ \E m \in DOMAIN q : dueQ'[n] = q[m]
    <3>1. dueQ' = dueQ \o q
      BY <1>2
    <3>2. dueQ \in Seq(DOMAIN trades) /\ Once(dueQ)
      BY <1>4
    <3>3. \A m \in DOMAIN dueQ : \A n \in DOMAIN q : dueQ[m] # q[n]
      BY <2>7
    <3>4. dueQ \o q \in Seq(DOMAIN trades)
      BY <2>4, <2>6, <3>2, <3>3, JoinedOnce
    <3>5. Once(dueQ \o q)
      BY <2>4, <2>6, <3>2, <3>3, JoinedOnce
    <3>6. DrawnFrom(dueQ \o q, dueQ, q)
      BY <2>4, <2>6, <3>2, <3>3, JoinedOnce
    <3> QED
      BY <3>1, <3>4, <3>5, <3>6 DEF DrawnFrom
  <2>9. \A n \in DOMAIN dueQ' : ts[dueQ'[n]].status \in Unresolved
    <3>1. \A m \in DOMAIN dueQ : ts[dueQ[m]].status \in Unresolved
      BY <1>4, <1>5, <1>9, <1>10, <1>11
    <3>2. \A m \in DOMAIN q : ts[q[m]].status \in Unresolved
      BY <1>8, <1>10, <1>11, <2>5
    <3> QED
      BY <2>8, <3>1, <3>2
  <2> QED
    BY <1>1, <1>12, <2>8, <2>9 DEF DueWaits
<1>20. MemoryAgrees(trades)'
  <2>1. \A i \in managing' : i \in DOMAIN ts /\ ts[i].status \in OpenStatuses
    <3> TAKE i \in managing'
    <3>1. i \in DOMAIN trades /\ trades[i].status \in OpenStatuses /\ i \notin past
      BY <1>1, <1>6
    <3>2. i \notin begun
      BY <1>7, <3>1, StatusesApart
    <3> QED
      BY <1>9, <1>11, <1>12, <3>1, <3>2
  <2>2. \A i \in resolving' : i \in DOMAIN ts /\ ts[i].status \in Unresolved
    BY <1>1, <1>7, <1>10, <1>11, <1>12
  <2> QED
    BY <1>1, <2>1, <2>2 DEF MemoryAgrees
<1>21. mid = << >> /\ \A a \in Assets : scans[a].at = "done"
  BY <1>1 DEF Phases
<1>22. LanePlain' /\ Phases'
  BY <1>1, <1>21 DEF LanePlain, Phases
<1> QED
  BY <1>1, <1>16, <1>17, <1>18, <1>19, <1>20, <1>21, <1>22

-----------------------------------------------------------------------------

LEMMA LaneStep ==
  ~RepairOnline => (LaneInv /\ [LiteNext]_liteVars => LaneInv' /\ ClosedKept)
<1> SUFFICES ASSUME ~RepairOnline, LaneInv, [LiteNext]_liteVars PROVE LaneInv' /\ ClosedKept
  OBVIOUS
<1>1. CASE \/ \E i \in DOMAIN trades : ManageHold(i)
           \/ BeginScans \/ EndCycle \/ RestartLite \/ CrashLite \/ NextWindow
           \/ \E a \in Assets : ScanEnds(a) \/ MarketFound(a)
  BY <1>1, QuietKeeps
<1>2. CASE BeginCycle
  BY <1>2, BeginCycleKeeps
<1>3. CASE CompleteExit
  BY <1>3, CompleteExitKeeps
<1>4. CASE \E i \in DOMAIN trades : NoteRetry(i)
  BY <1>4, NoteRetryKeeps
<1>5. CASE AwaitMaker
  BY <1>5, AwaitMakerKeeps
<1>6. CASE CrossReserved
  BY <1>6, CrossReservedKeeps
<1>7. CASE \E i \in DOMAIN trades : ManageExit(i)
  BY <1>7, ManageExitKeeps
<1>8. CASE \E i \in DOMAIN trades : ResolveOfficial(i)
  BY <1>8, ResolveKeeps
<1>9. CASE \E i \in DOMAIN trades : BackoffEnds(i)
  BY <1>9, BackoffKeeps
<1>10. CASE \E i \in DOMAIN trades : Repair(i)
  BY <1>10, RepairKeeps
<1>11. CASE \E a \in Assets : MarketMissing(a) \/ EvaluateGivesUp(a)
  <2>1. PICK a \in Assets : ScanSkips(a, "market") \/ ScanSkips(a, "books")
    BY <1>11 DEF MarketMissing, EvaluateGivesUp
  <2> QED
    BY <2>1, ScanSkipsKeeps
<1>12. CASE \E a \in Assets, s \in Sides : Reserve(a, s, "MAKER_WAIT") \/ Reserve(a, s, "CROSS_SPREAD")
  BY <1>12, ReserveKeeps
<1>13. CASE \E a \in Assets, s \in Sides : CrossAtDeadline(a, s)
  BY <1>13, CrossAtDeadlineKeeps
<1>14. CASE \E k \in DOMAIN locks : DeadlinePasses(k)
  BY <1>14, DeadlineKeeps
<1>15. CASE UNCHANGED liteVars
  <2>1. /\ window' = window /\ locks' = locks /\ trades' = trades /\ dueQ' = dueQ /\ phase' = phase
        /\ managing' = managing /\ resolving' = resolving /\ scans' = scans /\ mid' = mid
        /\ liteCrashes' = liteCrashes
    BY <1>15 DEF liteVars
  <2>2. LanePlain' /\ Phases'
    BY <2>1 DEF LaneInv, LanePlain, Phases
  <2>3. (mid = << >> \/ BetweenExit(trades) \/ BetweenEntry(locks))'
    BY <2>1 DEF LaneInv, BetweenExit, BetweenEntry, KeyOf
  <2> QED
    BY <2>1, <2>2, <2>3, TradesStay DEF LaneInv
<1> QED
  BY <1>1, <1>2, <1>3, <1>4, <1>5, <1>6, <1>7, <1>8, <1>9, <1>10, <1>11, <1>12, <1>13, <1>14, <1>15
  DEF LiteNext, LoopStep

LEMMA LaneInvImplies == LaneInv => LaneSound
<1> SUFFICES ASSUME LaneInv PROVE LaneSound
  OBVIOUS
<1> USE DEF LaneInv
<1>1. TypeOKLite
  BY DEF TypeOKLite, LanePlain, Tables, TradeRow, LockRow, DueWaits, MemoryAgrees
<1>2. OneEntry
  BY AgreesOnce DEF OneEntry
<1>3. LifecycleAgrees
  BY AgreesIs DEF Tables
<1>4. WithinCaps
  BY CappedIs
<1> QED
  BY <1>1, <1>2, <1>3, <1>4 DEF LaneSound

\* The lane's memory, tables and caps agree through crashes, as long as the repair
\* script runs only beside a lane that is down.
THEOREM LaneSoundness == ~RepairOnline => (LiteSpec => []LaneSound)
<1> SUFFICES ASSUME ~RepairOnline PROVE LiteSpec => []LaneSound
  OBVIOUS
<1>1. LiteInit => LaneInv
  BY LaneStarts
<1>2. LaneInv /\ [LiteNext]_liteVars => LaneInv'
  BY LaneStep
<1>3. LaneInv => LaneSound
  BY LaneInvImplies
<1> QED
  BY <1>1, <1>2, <1>3, PTL DEF LiteSpec

\* A closed trade keeps the outcome it closed with.
THEOREM ClosedTradesStand == ~RepairOnline => (LiteSpec => ClosedStands)
<1> SUFFICES ASSUME ~RepairOnline PROVE LiteSpec => ClosedStands
  OBVIOUS
<1>1. LiteInit => LaneInv
  BY LaneStarts
<1>2. LaneInv /\ [LiteNext]_liteVars => LaneInv'
  BY LaneStep
<1>3. LaneInv /\ [LiteNext]_liteVars =>
        [\A i \in DOMAIN trades :
           trades[i].status \in Terminal => trades'[i].status = trades[i].status]_liteVars
  BY LaneStep DEF ClosedKept
<1> QED
  BY <1>1, <1>2, <1>3, PTL DEF LiteSpec, ClosedStands

-----------------------------------------------------------------------------
(* The loops side by side: each subject's invariant, while the others stand *)

LoopsInv == PlannerInv /\ PassInv /\ HealthInv /\ LaneInv

LEMMA LoopsStep == ~RepairOnline => (LoopsInv /\ [MCNext]_loopVars => LoopsInv')
<1> SUFFICES ASSUME ~RepairOnline, LoopsInv, [MCNext]_loopVars PROVE LoopsInv'
  OBVIOUS
<1>1. /\ [MaintenanceNext]_maintenanceVars /\ [PassNext]_passVars
      /\ [HealthNext]_healthVars /\ [LiteNext]_liteVars
  BY DEF MCNext, OfWorker, OfMaintenance, OfPass, OfHealth, OfLite, loopVars
<1> QED
  BY <1>1, PlannerStep, PassStep, HealthStep, LaneStep DEF LoopsInv

\* Whatever loop runs, checkpoints are neither hurried nor put off, a pass does what
\* it may and tells what it did, a model in breach is out for its cooldown, and the
\* lane's memory, tables and caps agree through crashes.
THEOREM LoopsSoundness == ~RepairOnline => (MCSpec => []LoopsSound)
<1> SUFFICES ASSUME ~RepairOnline PROVE MCSpec => []LoopsSound
  OBVIOUS
<1>1. MCInit => LoopsInv
  BY PlannerStarts, PassStarts, HealthStarts, LaneStarts DEF MCInit, LoopsInv
<1>2. LoopsInv /\ [MCNext]_loopVars => LoopsInv'
  BY LoopsStep
<1>3. LoopsInv => LoopsSound
  BY PlannerInvImplies, HealthInvImplies, LaneInvImplies DEF LoopsInv, LoopsSound, PassInv
<1>4. MCSpec => MCInit /\ [][MCNext]_loopVars
  BY PTL DEF MCSpec
<1> QED
  BY <1>1, <1>2, <1>3, <1>4, PTL

-----------------------------------------------------------------------------
(* The legacy program *)

OrderStates == Resting \cup Ended \cup {"MATCHED"}
OrderRecords ==
  [token : Tokens, buy : BOOLEAN, timer : BOOLEAN, state : OrderStates, frozen : BOOLEAN,
   row : OrderStates \cup {"none"}, resting : BOOLEAN, born : 1..MaxLaunches,
   made : 0..MaxTime]
ExitRecords ==
  [at : {"none", "submit", "after", "sleep", "cross", "done", "raised"},
   token : Tokens \cup {""}, target : Nat, filled : Nat,
   chases : 0..MaxChases, id : 0..MaxOrders, urgent : BOOLEAN]

\* An order of the n-th launch and its record say the same of each other, and none of
\* a later launch is there yet.
GoodOrder(o, n) ==
  /\ o \in OrderRecords /\ o.born <= n
  /\ o.buy => ~o.frozen
  /\ o.born = n =>
       /\ o.resting <=> o.state \in Resting
       /\ o.resting => o.timer
       /\ o.row # "none" => o.row = o.state

OrdersWell ==
  /\ orders \in Seq(OrderRecords) /\ Len(orders) <= MaxOrders
  /\ \A i \in 1..Len(orders) : GoodOrder(orders[i], launches)

TasksWell ==
  /\ clock \in 0..MaxTime /\ launches \in 1..MaxLaunches /\ commands \in 0..MaxCommands
  /\ turn \in Sellers \cup {""}
  /\ sweep \in [on : BOOLEAN, todo : SUBSET Tokens]
  /\ callbacks \in 0..MaxCallbacks
  /\ panic \in BOOLEAN /\ kill \in BOOLEAN /\ paused \in BOOLEAN /\ swept \in BOOLEAN
  /\ ~panic => callbacks < MaxCallbacks
  /\ stuck \in [Tokens -> 0..MaxTime \cup {NotStuck}] /\ alarmed \subseteq Tokens

\* An exit never fills more than it was begun for, and has an order once it has
\* filled anything.
GoodExit(x, made) ==
  /\ x \in ExitRecords
  /\ x.at = "none" => x = NoExit
  /\ x.at # "none" => x.token \in Tokens
  /\ x.filled <= x.target
  /\ x.at \in {"after", "sleep", "cross"} => x.filled < x.target
  /\ x.at \in {"after", "sleep", "cross", "done"} => x.id \in 1..made
  /\ x.at = "sleep" => x.chases < MaxChases
  /\ x.id = 0 => x.filled = 0

ExitsWell ==
  /\ exits \in [Sellers -> ExitRecords]
  /\ \A a \in Sellers : GoodExit(exits[a], Len(orders))

\* The loop exits what it holds, and what it holds it does not lose meanwhile.
LoopWell ==
  /\ loop \in [at : {"idle", "exits", "exit", "evaluate"}, todo : SUBSET Tokens,
               since : 0..MaxTime, token : Tokens \cup {""}]
  /\ loop.at = "evaluate" => loop.token \in Tokens
  /\ \A t \in loop.todo : pos[t] > 0
  /\ exits["loop"].at # "none" =>
       /\ loop.at = "exit" /\ exits["loop"].token \notin loop.todo
       /\ exits["loop"].target <= pos[exits["loop"].token]
       /\ exits["loop"].at = "submit" => exits["loop"].filled < exits["loop"].target
       /\ exits["loop"].at = "raised" /\ ~swept => exits["loop"].filled = 0

\* What the client and the portfolio hold of each token, and no more than was bought
SharesWell ==
  /\ held \in [Tokens -> Nat] /\ pos \in [Tokens -> Nat] /\ writtenOff \in [Tokens -> Nat]
  /\ \A t \in Tokens : pos[t] + writtenOff[t] <= Len(orders) * EntryShares
  /\ SharesAccounted

LegacyInv == TasksWell /\ OrdersWell /\ ExitsWell /\ LoopWell /\ SharesWell

-----------------------------------------------------------------------------

LEMMA LegacyBounds ==
  /\ EntryShares \in Nat /\ EntryShares > 0 /\ MaxLaunches \in Nat /\ MaxLaunches > 0
  /\ MaxOrders \in Nat /\ MaxChases \in Nat /\ MaxTime \in Nat /\ MaxCommands \in Nat
  /\ MaxCallbacks = 2
BY LegacyAssumption DEF MaxCallbacks

LEMMA LegacyInvImplies == LegacyInv => LegacySound
<1> SUFFICES ASSUME LegacyInv PROVE LegacySound
  OBVIOUS
<1> USE DEF LegacyInv
<1>1. Len(orders) \in Nat /\ Len(orders) <= MaxOrders /\ DOMAIN orders = 1..Len(orders)
  BY DEF OrdersWell
<1>2. Len(orders) * EntryShares <= MaxOrders * EntryShares
  <2> DEFINE n == Len(orders)
             more == MaxOrders - n
  <2>1. n \in Nat /\ more \in Nat /\ MaxOrders = n + more
    BY <1>1, LegacyBounds
  <2> HIDE DEF n, more
  <2>2. (n + more) * EntryShares = n * EntryShares + more * EntryShares
    BY <2>1, LegacyBounds
  <2>3. more * EntryShares \in Nat /\ n * EntryShares \in Nat
    BY <2>1, LegacyBounds
  <2>4. n * EntryShares <= (n + more) * EntryShares
    BY <2>2, <2>3
  <2> QED
    BY <2>1, <2>4 DEF n
<1>3. MaxOrders * EntryShares \in Nat /\ Len(orders) * EntryShares \in Nat
  BY <1>1, LegacyBounds
<1>4. {held, pos, writtenOff} \subseteq [Tokens -> 0..(MaxOrders * EntryShares)]
  <2>1. \A t \in Tokens : Untold(t) \in Nat
    BY DEF Untold, ExitsWell, GoodExit, ExitRecords, Sellers
  <2>2. ASSUME NEW t \in Tokens
        PROVE  {held[t], pos[t], writtenOff[t]} \subseteq 0..(MaxOrders * EntryShares)
    <3>1. pos[t] + writtenOff[t] >= held[t] + Untold(t)
          /\ pos[t] + writtenOff[t] <= Len(orders) * EntryShares
      BY DEF SharesWell, SharesAccounted
    <3>2. held[t] \in Nat /\ pos[t] \in Nat /\ writtenOff[t] \in Nat
      BY DEF SharesWell
    <3> QED
      BY <3>1, <3>2, <2>1, <1>2, <1>3
  <2> QED
    BY <2>2 DEF SharesWell
<1>5. TypeOKLegacy
  BY <1>4, Zenon
     DEF TypeOKLegacy, TasksWell, OrdersWell, ExitsWell, LoopWell, OrderRecords, ExitRecords,
         OrderStates
<1>6. OrdersTold
  BY <1>1 DEF OrdersTold, OrdersWell, GoodOrder, Owned
<1>7. FrozenNeverBuys
  BY <1>1 DEF FrozenNeverBuys, OrdersWell, GoodOrder
<1> QED
  BY <1>5, <1>6, <1>7 DEF LegacySound, SharesWell

LEMMA LegacyStarts == LegacyInit => LegacyInv
<1> SUFFICES ASSUME LegacyInit PROVE LegacyInv
  OBVIOUS
<1>1. clock = 0 /\ launches = 1 /\ commands = 0 /\ callbacks = 0 /\ turn = "" /\ alarmed = {}
  BY Zenon DEF LegacyInit
<1>2. ~panic /\ panic \in BOOLEAN /\ kill \in BOOLEAN /\ paused \in BOOLEAN /\ swept \in BOOLEAN
  BY Zenon DEF LegacyInit
<1>3. /\ sweep = NoSweep /\ loop = Idle /\ exits = [a \in Sellers |-> NoExit]
      /\ stuck = [t \in Tokens |-> NotStuck]
  BY Zenon DEF LegacyInit
<1>4. held = [t \in Tokens |-> 0] /\ pos = held /\ writtenOff = held /\ orders = << >>
  BY Zenon DEF LegacyInit
<1>5. TasksWell
  <2>1. /\ clock \in 0..MaxTime /\ launches \in 1..MaxLaunches /\ commands \in 0..MaxCommands
        /\ callbacks \in 0..MaxCallbacks /\ callbacks < MaxCallbacks
    <3>1. /\ 0 \in 0..MaxTime /\ 1 \in 1..MaxLaunches /\ 0 \in 0..MaxCommands
          /\ 0 \in 0..MaxCallbacks /\ 0 < MaxCallbacks
      BY LegacyBounds
    <3> QED
      BY <3>1, <1>1, Zenon
  <2>2. sweep \in [on : BOOLEAN, todo : SUBSET Tokens] /\ turn \in Sellers \cup {""}
    BY <1>1, <1>3 DEF NoSweep
  <2>3. stuck \in [Tokens -> 0..MaxTime \cup {NotStuck}] /\ alarmed \subseteq Tokens
    BY <1>1, <1>3
  <2> QED
    BY <1>2, <2>1, <2>2, <2>3, Zenon DEF TasksWell
<1>6. Len(orders) = 0 /\ orders \in Seq(OrderRecords)
  BY <1>4
<1>7. OrdersWell
  BY <1>6, LegacyBounds DEF OrdersWell
<1>8. NoExit \in ExitRecords /\ GoodExit(NoExit, 0)
  BY LegacyBounds DEF NoExit, ExitRecords, GoodExit
<1>9. ExitsWell
  BY <1>3, <1>6, <1>8 DEF ExitsWell
<1>10. exits["loop"] = NoExit /\ NoExit.at = "none" /\ NoExit.filled = 0
  BY <1>3 DEF Sellers, NoExit
<1>11. LoopWell
  <2>1. /\ Idle \in [at : {"idle", "exits", "exit", "evaluate"}, todo : SUBSET Tokens,
                     since : 0..MaxTime, token : Tokens \cup {""}]
        /\ Idle.at # "evaluate" /\ Idle.todo = {}
    BY LegacyBounds DEF Idle
  <2> QED
    BY <2>1, <1>3, <1>10 DEF LoopWell
<1>12. SharesWell
  <2>1. \A t \in Tokens : pos[t] = 0 /\ held[t] = 0 /\ writtenOff[t] = 0
    BY <1>4
  <2>2. held \in [Tokens -> Nat] /\ pos \in [Tokens -> Nat] /\ writtenOff \in [Tokens -> Nat]
    BY <1>4
  <2>3. \A t \in Tokens : Untold(t) = 0
    BY <1>10 DEF Untold
  <2>4. Len(orders) * EntryShares = 0
    BY <1>6, LegacyBounds
  <2> QED
    BY <2>1, <2>2, <2>3, <2>4 DEF SharesWell, SharesAccounted
<1> QED
  BY <1>5, <1>7, <1>9, <1>11, <1>12 DEF LegacyInv

-----------------------------------------------------------------------------
(* What steps leave as it is *)

LEMMA TasksMove ==
  ASSUME TasksWell, turn' \in Sellers \cup {""},
         sweep' \in [on : BOOLEAN, todo : SUBSET Tokens],
         UNCHANGED <<clock, launches, commands, callbacks, panic, kill, paused>>,
         swept' \in BOOLEAN, stuck' \in [Tokens -> 0..MaxTime \cup {NotStuck}],
         alarmed' \subseteq Tokens
  PROVE  TasksWell'
BY Zenon DEF TasksWell

LEMMA TasksFacts ==
  ASSUME TasksWell
  PROVE  /\ clock \in 0..MaxTime /\ launches \in 1..MaxLaunches /\ commands \in 0..MaxCommands
         /\ turn \in Sellers \cup {""} /\ sweep \in [on : BOOLEAN, todo : SUBSET Tokens]
         /\ panic \in BOOLEAN /\ kill \in BOOLEAN /\ paused \in BOOLEAN /\ swept \in BOOLEAN
         /\ stuck \in [Tokens -> 0..MaxTime \cup {NotStuck}] /\ alarmed \subseteq Tokens
BY Zenon DEF TasksWell

LEMMA ExitsStand ==
  ASSUME OrdersWell, ExitsWell, exits' = exits, Len(orders') \in Nat,
         Len(orders') >= Len(orders)
  PROVE  ExitsWell'
<1>1. Len(orders) \in Nat
  BY DEF OrdersWell
<1>2. 1..Len(orders) \subseteq 1..Len(orders')
  BY <1>1
<1>3. \A a \in Sellers : GoodExit(exits[a], Len(orders'))
  BY <1>2 DEF ExitsWell, GoodExit
<1> QED
  BY <1>3 DEF ExitsWell

LEMMA ExitMoves ==
  ASSUME OrdersWell, ExitsWell, NEW a \in Sellers, NEW x, exits' = [exits EXCEPT ![a] = x],
         Len(orders') \in Nat, Len(orders') >= Len(orders), GoodExit(x, Len(orders'))
  PROVE  /\ ExitsWell' /\ exits'[a] = x /\ exits' \in [Sellers -> ExitRecords]
         /\ \A b \in Sellers : b # a => exits'[b] = exits[b]
<1>1. Len(orders) \in Nat
  BY DEF OrdersWell
<1>2. 1..Len(orders) \subseteq 1..Len(orders')
  BY <1>1
<1>3. \A b \in Sellers : GoodExit(exits[b], Len(orders'))
  BY <1>2 DEF ExitsWell, GoodExit
<1>4. x \in ExitRecords
  BY DEF GoodExit
<1>5. /\ exits'[a] = x /\ exits' \in [Sellers -> ExitRecords]
      /\ \A b \in Sellers : b # a => exits'[b] = exits[b]
  BY <1>4 DEF ExitsWell
<1> QED
  BY <1>3, <1>5 DEF ExitsWell

LEMMA LoopStands ==
  ASSUME LoopWell, UNCHANGED <<loop, pos, swept>>, exits'["loop"] = exits["loop"]
  PROVE  LoopWell'
BY DEF LoopWell

LEMMA UntoldStands ==
  ASSUME exits'["loop"] = exits["loop"] PROVE \A t \in Tokens : Untold(t)' = Untold(t)
BY DEF Untold

\* The bound on what was bought only widens.
LEMMA MoreOrders ==
  ASSUME OrdersWell, Len(orders') \in Nat, Len(orders') >= Len(orders)
  PROVE  /\ Len(orders) * EntryShares \in Nat /\ Len(orders') * EntryShares \in Nat
         /\ Len(orders) * EntryShares <= Len(orders') * EntryShares
         /\ Len(orders') = Len(orders) + 1 =>
              Len(orders') * EntryShares = Len(orders) * EntryShares + EntryShares
<1> DEFINE n == Len(orders)
           m == Len(orders')
           more == m - n
<1>1. n \in Nat /\ m \in Nat /\ more \in Nat /\ m = n + more
  BY DEF OrdersWell
<1> HIDE DEF n, m, more
<1>2. (n + more) * EntryShares = n * EntryShares + more * EntryShares
  BY <1>1, LegacyBounds
<1>3. more * EntryShares \in Nat /\ n * EntryShares \in Nat /\ m * EntryShares \in Nat
  BY <1>1, LegacyBounds
<1>4. n * EntryShares <= m * EntryShares
  BY <1>1, <1>2, <1>3
<1>5. m = n + 1 => m * EntryShares = n * EntryShares + EntryShares
  <2>1. (n + 1) * EntryShares = n * EntryShares + EntryShares
    BY <1>1, LegacyBounds
  <2> QED
    BY <2>1
<1> QED
  BY <1>3, <1>4, <1>5 DEF n, m

LEMMA SharesStand ==
  ASSUME OrdersWell, SharesWell, UNCHANGED <<held, pos, writtenOff, swept>>,
         exits'["loop"] = exits["loop"], Len(orders') \in Nat, Len(orders') >= Len(orders)
  PROVE  SharesWell'
<1>1. \A t \in Tokens : Untold(t)' = Untold(t)
  BY UntoldStands
<1>2. \A t \in Tokens : pos[t] + writtenOff[t] <= Len(orders') * EntryShares
  BY MoreOrders DEF SharesWell
<1>3. SharesAccounted'
  BY <1>1 DEF SharesWell, SharesAccounted
<1> QED
  BY <1>2, <1>3 DEF SharesWell

-----------------------------------------------------------------------------
(* The orders *)

LEMMA CancelledGood ==
  ASSUME NEW o, NEW n, GoodOrder(o, n) PROVE GoodOrder(Cancelled(o), n)
<1>1. CASE o.state \notin Resting
  BY <1>1 DEF Cancelled
<1>2. CASE o.state \in Resting
  <2> DEFINE ending == IF o.resting THEN "CANCELLED" ELSE "FAILED"
             row == IF o.row = "none" THEN "none" ELSE ending
  <2>1. Cancelled(o) = [o EXCEPT !.state = ending, !.resting = FALSE, !.timer = FALSE, !.row = row]
    BY <1>2 DEF Cancelled
  <2>2. /\ ending \in OrderStates /\ ending \notin Resting /\ row \in OrderStates \cup {"none"}
        /\ row # "none" => row = ending
    BY DEF OrderStates, Ended, Resting
  <2> HIDE DEF ending, row
  <2>3. o \in OrderRecords /\ o.born <= n /\ (o.buy => ~o.frozen)
    BY DEF GoodOrder
  <2>4. /\ Cancelled(o) \in OrderRecords /\ Cancelled(o).born = o.born
        /\ Cancelled(o).buy = o.buy /\ Cancelled(o).frozen = o.frozen
        /\ Cancelled(o).state = ending /\ ~Cancelled(o).resting /\ Cancelled(o).row = row
    BY <2>1, <2>2, <2>3 DEF OrderRecords
  <2> QED
    BY <2>2, <2>3, <2>4 DEF GoodOrder
<1> QED
  BY <1>1, <1>2

\* Orders are cancelled where they are.
LEMMA OrdersTouched ==
  ASSUME OrdersWell, launches' = launches, orders' = [i \in DOMAIN orders |-> orders'[i]],
         \A i \in DOMAIN orders : orders'[i] \in {orders[i], Cancelled(orders[i])}
  PROVE  OrdersWell' /\ Len(orders') = Len(orders) /\ Len(orders') \in Nat
<1>1. DOMAIN orders = 1..Len(orders) /\ Len(orders) \in Nat /\ orders \in Seq(OrderRecords)
  BY DEF OrdersWell
<1>2. \A i \in 1..Len(orders) : GoodOrder(orders'[i], launches)
  BY <1>1, CancelledGood DEF OrdersWell
<1>3. \A i \in 1..Len(orders) : orders'[i] \in OrderRecords
  BY <1>2 DEF GoodOrder
<1>4. orders' = [i \in 1..Len(orders) |-> orders'[i]]
  BY <1>1
<1>5. orders' \in Seq(OrderRecords) /\ Len(orders') = Len(orders)
  BY <1>1, <1>3, <1>4
<1> QED
  BY <1>1, <1>2, <1>5 DEF OrdersWell

LEMMA OrderCancelled ==
  ASSUME OrdersWell, launches' = launches, NEW i,
         orders' = [orders EXCEPT ![i] = Cancelled(orders[i])]
  PROVE  OrdersWell' /\ Len(orders') = Len(orders) /\ Len(orders') \in Nat
<1>1. orders' = [j \in DOMAIN orders |-> orders'[j]]
  OBVIOUS
<1>2. \A j \in DOMAIN orders : orders'[j] \in {orders[j], Cancelled(orders[j])}
  OBVIOUS
<1> QED
  BY <1>1, <1>2, OrdersTouched

LEMMA AllCancelled ==
  ASSUME OrdersWell, launches' = launches, orders' = CancelAll(orders)
  PROVE  OrdersWell' /\ Len(orders') = Len(orders) /\ Len(orders') \in Nat
<1>1. orders' = [j \in DOMAIN orders |-> orders'[j]]
  BY DEF CancelAll
<1>2. \A j \in DOMAIN orders : orders'[j] \in {orders[j], Cancelled(orders[j])}
  BY DEF CancelAll
<1> QED
  BY <1>1, <1>2, OrdersTouched

LEMMA OrdersStand ==
  ASSUME OrdersWell, UNCHANGED <<launches, orders>>
  PROVE  OrdersWell' /\ Len(orders') = Len(orders) /\ Len(orders') \in Nat
BY DEF OrdersWell

LEMMA OrderAppended ==
  ASSUME OrdersWell, launches' = launches, NEW o, GoodOrder(o, launches),
         orders' = Append(orders, o), Len(orders) < MaxOrders
  PROVE  OrdersWell' /\ Len(orders') = Len(orders) + 1 /\ Len(orders') \in Nat
<1>1. o \in OrderRecords /\ orders \in Seq(OrderRecords)
  BY DEF GoodOrder, OrdersWell
<1>2. /\ orders' \in Seq(OrderRecords) /\ Len(orders') = Len(orders) + 1 /\ Len(orders) \in Nat
      /\ \A i \in 1..Len(orders) : orders'[i] = orders[i]
      /\ orders'[Len(orders) + 1] = o
  BY <1>1, AppendProperties
<1>3. \A i \in 1..(Len(orders) + 1) : i \in 1..Len(orders) \/ i = Len(orders) + 1
  BY <1>2
<1>4. Len(orders') <= MaxOrders
  BY <1>2, LegacyBounds
<1> QED
  BY <1>2, <1>3, <1>4 DEF OrdersWell

\* What is placed is of this launch, and frozen when it is placed in a panic.
LEMMA PlacedGood ==
  ASSUME TasksWell, NEW t \in Tokens, NEW buy \in BOOLEAN, NEW size \in Nat, NEW k \in 0..size,
         buy => ~panic /\ ~kill
  PROVE  GoodOrder(Placed(t, buy, size, k), launches)
<1> DEFINE o == Placed(t, buy, size, k)
           ending == IF k = size THEN "MATCHED" ELSE IF k > 0 THEN "PARTIAL_FILL" ELSE "OPEN"
           frozen == panic \/ kill
           rests == k < size
<1>1. frozen \in BOOLEAN /\ rests \in BOOLEAN /\ (buy => ~frozen)
  OBVIOUS
<1>2. launches \in 1..MaxLaunches /\ clock \in 0..MaxTime
  BY TasksFacts
<1>3. ending \in OrderStates /\ (ending \in Resting <=> rests)
  BY DEF OrderStates, Resting
<1>4. o = [token |-> t, buy |-> buy, born |-> launches, made |-> clock, row |-> "none",
           frozen |-> frozen, timer |-> rests, resting |-> rests, state |-> ending]
  BY DEF Placed
<1> HIDE DEF ending, frozen, rests, o
<1>5. o \in OrderRecords
  BY <1>1, <1>2, <1>3, <1>4 DEF OrderRecords
<1>6. /\ o.born = launches /\ o.buy = buy /\ o.frozen = frozen
      /\ o.timer = rests /\ o.resting = rests /\ o.state = ending /\ o.row = "none"
  BY <1>4
<1>7. o.born <= launches
  BY <1>2, <1>6, LegacyBounds
<1>8. (o.buy => ~o.frozen) /\ (o.resting <=> o.state \in Resting) /\ (o.resting => o.timer)
  BY <1>1, <1>3, <1>6
<1>9. GoodOrder(o, launches)
  BY <1>5, <1>6, <1>7, <1>8 DEF GoodOrder
<1> QED
  BY <1>9 DEF o

-----------------------------------------------------------------------------
(* Timers, hygiene, the operator and the sweep *)

LEMMA NoMore ==
  ASSUME NEW p \in Nat, NEW w \in Nat, NEW m \in Nat, NEW n \in Nat, p + w <= m, m <= n
  PROVE  p + w <= n
OBVIOUS

LEMMA NoFewer ==
  ASSUME NEW n \in Nat, NEW m, m = n PROVE m >= n /\ m \in Nat
OBVIOUS

\* A step that only cancels, and passes the turn on
LEMMA OnlyCancels ==
  ASSUME LegacyInv, OrdersWell', Len(orders') = Len(orders), Len(orders') \in Nat,
         turn' \in Sellers \cup {""}, sweep' \in [on : BOOLEAN, todo : SUBSET Tokens],
         UNCHANGED <<clock, launches, memory, loop, exits>>,
         TasksWell'
  PROVE  LegacyInv'
<1>1. UNCHANGED <<held, pos, writtenOff, swept>> /\ UNCHANGED <<loop, exits>>
  BY DEF memory
<1>2. Len(orders) \in Nat /\ Len(orders') >= Len(orders)
  <2>1. Len(orders) \in Nat
    BY DEF LegacyInv, OrdersWell
  <2> QED
    BY <2>1, NoFewer
<1>3. ExitsWell'
  BY <1>1, <1>2, ExitsStand DEF LegacyInv
<1>4. LoopWell'
  BY <1>1, LoopStands DEF LegacyInv
<1>5. SharesWell'
  BY <1>1, <1>2, SharesStand DEF LegacyInv
<1> QED
  BY <1>3, <1>4, <1>5 DEF LegacyInv

LEMMA TimerFiresSteps ==
  ASSUME LegacyInv, NEW i \in DOMAIN orders, TimerFires(i) PROVE LegacyInv'
<1>1. /\ orders' = [orders EXCEPT ![i] = Cancelled(orders[i])]
      /\ UNCHANGED <<clock, launches, memory, turn, loop, exits, sweep, control>>
  BY DEF TimerFires
<1>2. TasksWell'
  BY <1>1, TasksFacts, TasksMove DEF LegacyInv, memory, control
<1> QED
  BY <1>1, <1>2, OrderCancelled, OnlyCancels, TasksFacts DEF LegacyInv

LEMMA HygieneSteps ==
  ASSUME LegacyInv, Hygiene PROVE LegacyInv'
<1>1. UNCHANGED <<clock, launches, memory, turn, loop, exits, sweep, control>>
  BY DEF Hygiene
<1>2. /\ orders' = [i \in DOMAIN orders |-> orders'[i]]
      /\ \A i \in DOMAIN orders : orders'[i] \in {orders[i], Cancelled(orders[i])}
  BY DEF Hygiene
<1>3. OrdersWell' /\ Len(orders') = Len(orders) /\ Len(orders') \in Nat
  BY <1>1, <1>2, OrdersTouched DEF LegacyInv
<1>4. TasksWell'
  BY <1>1, TasksFacts, TasksMove DEF LegacyInv, memory, control
<1> QED
  BY <1>1, <1>3, <1>4, OnlyCancels, TasksFacts DEF LegacyInv

LEMMA SweepStarts ==
  ASSUME LegacyInv, StartSweep
  PROVE  turn' \in Sellers \cup {""} /\ sweep' \in [on : BOOLEAN, todo : SUBSET Tokens]
<1>1. sweep \in [on : BOOLEAN, todo : SUBSET Tokens] /\ Positions \subseteq Tokens
  BY TasksFacts DEF LegacyInv, Positions
<1>2. CASE sweep.on
  BY <1>1, <1>2 DEF StartSweep
<1>3. CASE ~sweep.on
  <2>1. turn' = "sweep" /\ sweep' = [on |-> TRUE, todo |-> Positions]
    BY <1>3 DEF StartSweep
  <2> HIDE DEF Positions
  <2>2. sweep' \in [on : BOOLEAN, todo : SUBSET Tokens]
    BY <1>1, <2>1
  <2> QED
    BY <2>1, <2>2 DEF Sellers
<1> QED
  BY <1>2, <1>3

LEMMA OnPanicSteps ==
  ASSUME LegacyInv, OnPanic PROVE LegacyInv'
<1>1. /\ callbacks > 0 /\ callbacks' = callbacks - 1
      /\ orders' = CancelAll(orders) /\ StartSweep
      /\ UNCHANGED <<clock, launches, memory, loop, exits, panic, kill, paused, commands>>
  BY DEF OnPanic
<1>2. turn' \in Sellers \cup {""} /\ sweep' \in [on : BOOLEAN, todo : SUBSET Tokens]
  BY <1>1, SweepStarts
<1>3. callbacks' \in 0..MaxCallbacks /\ callbacks' < MaxCallbacks
  <2>1. callbacks \in 0..MaxCallbacks
    BY Zenon DEF LegacyInv, TasksWell
  <2> QED
    BY <2>1, <1>1, LegacyBounds
<1>4. TasksWell'
  BY <1>1, <1>2, <1>3, TasksFacts, Zenon DEF LegacyInv, TasksWell, memory
<1> QED
  BY <1>1, <1>2, <1>4, AllCancelled, OnlyCancels DEF LegacyInv

LEMMA CommandSteps ==
  ASSUME LegacyInv, Command PROVE LegacyInv'
<1>1. /\ commands < MaxCommands /\ commands' = commands + 1
      /\ UNCHANGED <<clock, launches, memory, loop, exits>>
  BY Zenon DEF Command
<1>2. commands' \in 0..MaxCommands
  <2>1. commands \in 0..MaxCommands
    BY TasksFacts DEF LegacyInv
  <2> QED
    BY <2>1, <1>1, LegacyBounds
<1>3. /\ orders' = orders \/ orders' = CancelAll(orders)
      /\ UNCHANGED <<turn, sweep>> \/ StartSweep
  BY Zenon DEF Command
<1>4. turn' \in Sellers \cup {""} /\ sweep' \in [on : BOOLEAN, todo : SUBSET Tokens]
  BY <1>3, SweepStarts, TasksFacts DEF LegacyInv
<1>5. OrdersWell' /\ Len(orders') = Len(orders) /\ Len(orders') \in Nat
  BY <1>1, <1>3, AllCancelled, OrdersStand DEF LegacyInv
<1>6. callbacks \in 0..MaxCallbacks /\ (~panic => callbacks < MaxCallbacks)
  BY Zenon DEF LegacyInv, TasksWell
<1>7. callbacks < MaxCallbacks => callbacks + 1 \in 0..MaxCallbacks
  BY <1>6, LegacyBounds
<1>8. /\ panic' \in BOOLEAN /\ kill' \in BOOLEAN /\ paused' \in BOOLEAN
      /\ callbacks' \in 0..MaxCallbacks /\ (~panic' => callbacks' < MaxCallbacks)
  <2>1. panic \in BOOLEAN /\ kill \in BOOLEAN /\ paused \in BOOLEAN
    BY TasksFacts DEF LegacyInv
  <2>2. CASE UNCHANGED <<panic, callbacks>> /\ kill' \in {kill, TRUE} /\ paused' \in {paused, TRUE, FALSE}
    <3>1. kill' \in BOOLEAN /\ paused' \in BOOLEAN
      BY <2>1, <2>2
    <3>2. panic' = panic /\ callbacks' = callbacks
      BY <2>2
    <3> QED
      BY <2>1, <3>1, <3>2, <1>6, Zenon
  <2>3. CASE Activate /\ UNCHANGED <<kill, paused>>
    <3>1. panic' /\ panic' \in BOOLEAN
      BY <2>3, Zenon DEF Activate
    <3>2. callbacks' \in 0..MaxCallbacks
      <4>1. CASE panic
        BY <4>1, <2>3, <1>6, Zenon DEF Activate
      <4>2. CASE ~panic
        BY <4>2, <2>3, <1>6, <1>7, Zenon DEF Activate
      <4> QED
        BY <4>1, <4>2, Zenon
    <3> QED
      BY <2>1, <2>3, <3>1, <3>2, Zenon
  <2>4. CASE panic' = FALSE /\ callbacks < MaxCallbacks /\ UNCHANGED <<kill, paused, callbacks>>
    BY <2>1, <2>4, <1>6, Zenon
  <2>5. \/ UNCHANGED <<panic, callbacks>> /\ kill' \in {kill, TRUE} /\ paused' \in {paused, TRUE, FALSE}
        \/ Activate /\ UNCHANGED <<kill, paused>>
        \/ panic' = FALSE /\ callbacks < MaxCallbacks /\ UNCHANGED <<kill, paused, callbacks>>
    BY DEF Command
  <2> QED
    BY <2>2, <2>3, <2>4, <2>5, Zenon
<1>9. UNCHANGED <<clock, launches, swept, stuck, alarmed>>
  BY <1>1 DEF memory
<1>10. TasksWell'
  BY <1>2, <1>4, <1>8, <1>9, TasksFacts, Zenon DEF LegacyInv, TasksWell
<1> QED
  BY <1>1, <1>4, <1>5, <1>10, OnlyCancels

LEMMA NoExitGood ==
  ASSUME NEW made \in Nat
  PROVE  GoodExit(NoExit, made) /\ NoExit.at = "none" /\ NoExit.filled = 0
BY LegacyBounds DEF NoExit, ExitRecords, GoodExit

Began(t, shares, urgent) ==
  [NoExit EXCEPT !.token = t, !.target = shares, !.urgent = urgent, !.at = "submit"]

LEMMA BeganGood ==
  ASSUME NEW t \in Tokens, NEW shares \in Nat, NEW urgent \in BOOLEAN, NEW made \in Nat,
         NEW x, x = Began(t, shares, urgent)
  PROVE  /\ GoodExit(x, made) /\ x.token = t /\ x.target = shares /\ x.filled = 0
         /\ x.at = "submit"
<1>1. NoExit \in ExitRecords /\ NoExit.filled = 0 /\ NoExit.id = 0
  BY LegacyBounds DEF NoExit, ExitRecords
<1>2. /\ x.token = t /\ x.target = shares /\ x.filled = 0 /\ x.at = "submit" /\ x.id = 0
      /\ x.filled <= x.target /\ x \in ExitRecords
  <2> HIDE DEF NoExit
  <2>1. DOMAIN NoExit = {"at", "token", "target", "filled", "chases", "id", "urgent"}
    BY <1>1 DEF ExitRecords
  <2>2. /\ x.token = t /\ x.target = shares /\ x.at = "submit" /\ x.urgent = urgent
        /\ x.filled = NoExit.filled /\ x.id = NoExit.id /\ x.chases = NoExit.chases
    BY <2>1 DEF Began
  <2>3. DOMAIN x = DOMAIN NoExit /\ x = [f \in DOMAIN x |-> x[f]]
    BY DEF Began
  <2>4. NoExit.chases \in 0..MaxChases /\ NoExit.id \in 0..MaxOrders
    BY <1>1 DEF ExitRecords
  <2>5. x \in ExitRecords
    BY <1>1, <2>1, <2>2, <2>3, <2>4 DEF ExitRecords
  <2> QED
    BY <1>1, <2>2, <2>5
<1>3. x \in ExitRecords
  BY <1>2
<1>4. GoodExit(x, made)
  BY <1>2, <1>3 DEF GoodExit
<1> QED
  BY <1>2, <1>4

LEMMA LegacyFacts ==
  ASSUME LegacyInv
  PROVE  /\ Len(orders) \in Nat /\ DOMAIN orders = 1..Len(orders) /\ Len(orders) <= MaxOrders
         /\ held \in [Tokens -> Nat] /\ pos \in [Tokens -> Nat] /\ writtenOff \in [Tokens -> Nat]
         /\ exits \in [Sellers -> ExitRecords] /\ "loop" \in Sellers /\ "sweep" \in Sellers
         /\ \A a \in Sellers : GoodExit(exits[a], Len(orders))
BY DEF LegacyInv, OrdersWell, SharesWell, ExitsWell, Sellers

\* A step of the sweep that touches neither the orders nor the shares
LEMMA SweepTurns ==
  ASSUME LegacyInv, NEW x, exits' = [exits EXCEPT !["sweep"] = x], GoodExit(x, Len(orders)),
         UNCHANGED <<clock, launches, memory, orders, loop, control>>,
         turn' \in Sellers \cup {""}, sweep' \in [on : BOOLEAN, todo : SUBSET Tokens]
  PROVE  LegacyInv'
<1>1. OrdersWell' /\ Len(orders') = Len(orders) /\ Len(orders') \in Nat
  BY OrdersStand DEF LegacyInv
<1>2. Len(orders') >= Len(orders) /\ orders' = orders
  BY <1>1, LegacyFacts, NoFewer
<1>3. ExitsWell' /\ exits'["loop"] = exits["loop"]
  <2>1. "loop" # "sweep"
    OBVIOUS
  <2> QED
    BY <1>1, <1>2, <2>1, LegacyFacts, ExitMoves DEF LegacyInv
<1>4. UNCHANGED <<held, pos, writtenOff, swept, stuck, alarmed>> /\ loop' = loop
  BY DEF memory
<1>5. LoopWell' /\ SharesWell'
  BY <1>1, <1>2, <1>3, <1>4, LoopStands, SharesStand DEF LegacyInv
<1>6. TasksWell'
  BY <1>4, TasksFacts, TasksMove DEF LegacyInv, control
<1> QED
  BY <1>1, <1>3, <1>5, <1>6 DEF LegacyInv

LEMMA SweepNextSteps ==
  ASSUME LegacyInv, SweepNext PROVE LegacyInv'
<1>1. UNCHANGED <<clock, launches, memory, orders, loop, control>>
  BY DEF SweepNext
<1>2. CASE sweep.todo = {}
  <2>1. sweep' = NoSweep /\ turn' = "" /\ exits' = exits
    BY <1>2 DEF SweepNext
  <2>2. exits' = [exits EXCEPT !["sweep"] = exits["sweep"]]
    BY <2>1, LegacyFacts
  <2>3. sweep' \in [on : BOOLEAN, todo : SUBSET Tokens]
    BY <2>1 DEF NoSweep
  <2> QED
    BY <1>1, <2>1, <2>2, <2>3, LegacyFacts, SweepTurns
<1>3. CASE sweep.todo # {}
  <2>1. PICK t \in sweep.todo : /\ BeginExit("sweep", t, pos[t], TRUE)
                                /\ sweep' = [sweep EXCEPT !.todo = @ \ {t}] /\ turn' = turn
    BY <1>3 DEF SweepNext
  <2>2. sweep \in [on : BOOLEAN, todo : SUBSET Tokens] /\ turn \in Sellers \cup {""}
    BY TasksFacts DEF LegacyInv
  <2>3. t \in Tokens /\ sweep' \in [on : BOOLEAN, todo : SUBSET Tokens]
    BY <2>1, <2>2
  <2> DEFINE x == Began(t, pos[t], TRUE)
  <2>4. exits' = [exits EXCEPT !["sweep"] = x]
    BY <2>1 DEF BeginExit, Began
  <2>5. GoodExit(x, Len(orders))
    <3>1. pos[t] \in Nat /\ TRUE \in BOOLEAN
      BY <2>3, LegacyFacts
    <3> QED
      BY <2>3, <3>1, LegacyFacts, BeganGood
  <2> HIDE DEF x
  <2> QED
    BY <1>1, <2>1, <2>2, <2>3, <2>4, <2>5, SweepTurns
<1> QED
  BY <1>2, <1>3

LEMMA SweepExitEndsSteps ==
  ASSUME LegacyInv, SweepExitEnds PROVE LegacyInv'
<1>1. /\ exits' = [exits EXCEPT !["sweep"] = NoExit]
      /\ UNCHANGED <<clock, launches, memory, orders, turn, loop, sweep, control>>
  BY DEF SweepExitEnds
<1> QED
  BY <1>1, LegacyFacts, NoExitGood, TasksFacts, SweepTurns DEF LegacyInv

-----------------------------------------------------------------------------
(* An exit *)

ExitPlaces == {"none", "submit", "after", "sleep", "cross", "done", "raised"}

\* An exit that is under way stays the one of its token.
Edited(x, filled, id, place, chases) ==
  [x EXCEPT !.filled = filled, !.id = id, !.at = place, !.chases = chases]

LEMMA ExitEdited ==
  ASSUME NEW x \in ExitRecords, NEW filled \in Nat, NEW id \in 0..MaxOrders,
         NEW place \in ExitPlaces, NEW chases \in 0..MaxChases,
         NEW y, y = Edited(x, filled, id, place, chases)
  PROVE  /\ y \in ExitRecords /\ y.filled = filled /\ y.id = id /\ y.at = place
         /\ y.chases = chases /\ y.token = x.token /\ y.target = x.target
         /\ y.urgent = x.urgent
<1>1. DOMAIN x = {"at", "token", "target", "filled", "chases", "id", "urgent"}
  BY DEF ExitRecords
<1>2. /\ y.filled = filled /\ y.id = id /\ y.at = place /\ y.chases = chases
      /\ y.token = x.token /\ y.target = x.target /\ y.urgent = x.urgent
  BY <1>1 DEF Edited
<1>3. DOMAIN y = DOMAIN x /\ y = [f \in DOMAIN y |-> y[f]]
  BY DEF Edited
<1>4. x.token \in Tokens \cup {""} /\ x.target \in Nat /\ x.urgent \in BOOLEAN
  BY DEF ExitRecords
<1>5. y \in ExitRecords
  BY <1>1, <1>2, <1>3, <1>4 DEF ExitRecords, ExitPlaces
<1> QED
  BY <1>2, <1>5

\* Where an exit is goes on, and nothing else of it
LEMMA ExitGoes ==
  ASSUME NEW x \in ExitRecords, NEW place \in ExitPlaces, NEW y, y = [x EXCEPT !.at = place]
  PROVE  /\ y \in ExitRecords /\ y.at = place /\ y.filled = x.filled /\ y.id = x.id
         /\ y.chases = x.chases /\ y.token = x.token /\ y.target = x.target
<1>1. DOMAIN x = {"at", "token", "target", "filled", "chases", "id", "urgent"}
  BY DEF ExitRecords
<1>2. /\ y.filled = x.filled /\ y.id = x.id /\ y.at = place /\ y.chases = x.chases
      /\ y.token = x.token /\ y.target = x.target /\ y.urgent = x.urgent
  BY <1>1
<1>3. DOMAIN y = DOMAIN x /\ y = [f \in DOMAIN y |-> y[f]]
  OBVIOUS
<1>4. /\ x.token \in Tokens \cup {""} /\ x.target \in Nat /\ x.urgent \in BOOLEAN
      /\ x.filled \in Nat /\ x.id \in 0..MaxOrders /\ x.chases \in 0..MaxChases
  BY DEF ExitRecords
<1>5. y \in ExitRecords
  BY <1>1, <1>2, <1>3, <1>4 DEF ExitRecords, ExitPlaces
<1> QED
  BY <1>2, <1>5

LEMMA RefusedGood ==
  ASSUME TasksWell, NEW t \in Tokens PROVE GoodOrder(Refused(t), launches)
<1> DEFINE o == Placed(t, FALSE, 1, 0)
           p == Refused(t)
<1>1. GoodOrder(o, launches)
  <2>1. FALSE \in BOOLEAN /\ 1 \in Nat /\ 0 \in 0..1
    OBVIOUS
  <2> QED
    BY <2>1, PlacedGood, Zenon
<1>2. o.row = "none" /\ o.born = launches /\ o.buy = FALSE
  BY DEF Placed
<1>3. p = [o EXCEPT !.state = "FAILED", !.timer = FALSE, !.resting = FALSE]
  BY DEF Refused
<1> HIDE DEF o, p
<1>4. o \in OrderRecords
  BY <1>1 DEF GoodOrder
<1>5. /\ p \in OrderRecords /\ p.row = o.row /\ p.born = o.born /\ p.buy = o.buy
      /\ p.state = "FAILED" /\ ~p.resting
  BY <1>3, <1>4 DEF OrderRecords, OrderStates, Ended
<1>6. p.born <= launches
  BY <1>1, <1>5 DEF GoodOrder
<1>7. GoodOrder(p, launches)
  BY <1>2, <1>5, <1>6 DEF GoodOrder, Resting
<1> QED
  BY <1>7 DEF p

\* A step of one exit that sells nothing
LEMMA ExitTurns ==
  ASSUME LegacyInv, NEW a \in Sellers, NEW y, exits' = [exits EXCEPT ![a] = y],
         GoodExit(y, Len(orders')), OrdersWell', Len(orders') \in Nat,
         Len(orders') >= Len(orders), turn' \in Sellers \cup {""},
         UNCHANGED <<clock, launches, memory, loop, sweep, control>>,
         exits[a].at # "none", y.at # "none",
         y.token = exits[a].token, y.target = exits[a].target, y.filled = exits[a].filled,
         a = "loop" /\ y.at = "submit" => y.filled < y.target,
         a = "loop" /\ y.at = "raised" /\ ~swept => y.filled = 0
  PROVE  LegacyInv'
<1>1. UNCHANGED <<held, pos, writtenOff, swept, stuck, alarmed>> /\ loop' = loop
  BY DEF memory
<1>2. /\ ExitsWell' /\ exits'[a] = y /\ \A b \in Sellers : b # a => exits'[b] = exits[b]
  BY ExitMoves DEF LegacyInv
<1>3. TasksWell'
  BY <1>1, TasksFacts, TasksMove DEF LegacyInv, control
<1>4. /\ exits'["loop"].token = exits["loop"].token
      /\ exits'["loop"].target = exits["loop"].target
      /\ exits'["loop"].filled = exits["loop"].filled
      /\ exits'["loop"].at # "none" <=> exits["loop"].at # "none"
  BY <1>2, LegacyFacts
<1>5. LoopWell'
  <2>1. CASE a = "loop"
    BY <2>1, <1>1, <1>2, <1>4 DEF LegacyInv, LoopWell
  <2>2. CASE a # "loop"
    BY <2>2, <1>1, <1>2, LegacyFacts, LoopStands DEF LegacyInv
  <2> QED
    BY <2>1, <2>2
<1>6. SharesWell'
  <2>1. \A t \in Tokens : Untold(t)' = Untold(t)
    BY <1>4 DEF Untold
  <2>2. ASSUME NEW t \in Tokens
        PROVE  pos[t] + writtenOff[t] <= Len(orders') * EntryShares
    <3>1. pos[t] + writtenOff[t] <= Len(orders) * EntryShares
      BY DEF LegacyInv, SharesWell
    <3>2. /\ Len(orders) * EntryShares \in Nat /\ Len(orders') * EntryShares \in Nat
          /\ Len(orders) * EntryShares <= Len(orders') * EntryShares
      BY MoreOrders DEF LegacyInv
    <3>3. pos[t] \in Nat /\ writtenOff[t] \in Nat
      BY LegacyFacts
    <3> HIDE DEF LegacyInv
    <3> QED
      BY <3>1, <3>2, <3>3, NoMore
  <2>3. SharesAccounted'
    BY <1>1, <2>1 DEF LegacyInv, SharesWell, SharesAccounted
  <2> QED
    BY <1>1, <2>2, <2>3 DEF LegacyInv, SharesWell
<1> QED
  BY <1>2, <1>3, <1>5, <1>6 DEF LegacyInv

\* What Go leaves of an exit is good where its new place asks nothing more.
LEMMA GoGood ==
  ASSUME LegacyInv, NEW a \in Sellers, NEW place \in ExitPlaces, exits[a].at # "none",
         place # "none", NEW made \in Nat, made >= Len(orders),
         place \in {"after", "sleep", "cross"} => exits[a].filled < exits[a].target,
         place \in {"after", "sleep", "cross", "done"} => exits[a].id \in 1..made,
         place = "sleep" => exits[a].chases < MaxChases
  PROVE  LET y == [exits[a] EXCEPT !.at = place]
         IN  /\ GoodExit(y, made) /\ y.at = place /\ y.token = exits[a].token
             /\ y.target = exits[a].target /\ y.filled = exits[a].filled
<1> DEFINE x == exits[a]
           y == [x EXCEPT !.at = place]
<1>1. GoodExit(x, Len(orders)) /\ x \in ExitRecords
  BY LegacyFacts DEF GoodExit
<1>2. /\ y \in ExitRecords /\ y.at = place /\ y.filled = x.filled /\ y.id = x.id
      /\ y.chases = x.chases /\ y.token = x.token /\ y.target = x.target
  BY <1>1, ExitGoes
<1> HIDE DEF y
<1>3. GoodExit(y, made)
  BY <1>1, <1>2 DEF GoodExit
<1> QED
  BY <1>2, <1>3 DEF y

LEMMA ExitUnderWay ==
  ASSUME LegacyInv, NEW a \in Sellers, exits[a].at # "none"
  PROVE  /\ exits[a] \in ExitRecords /\ exits[a].token \in Tokens
         /\ exits[a].filled \in Nat /\ exits[a].target \in Nat
         /\ exits[a].filled <= exits[a].target
         /\ exits[a].id \in 0..MaxOrders /\ exits[a].chases \in 0..MaxChases
         /\ exits[a].at \in ExitPlaces
<1>1. GoodExit(exits[a], Len(orders))
  BY LegacyFacts
<1> QED
  BY <1>1 DEF GoodExit, ExitRecords, ExitPlaces

\* The client holds what the loop sells, as long as no sweep sold it first.
LEMMA LoopHolds ==
  ASSUME LegacyInv, exits["loop"].at # "none", ~swept
  PROVE  exits["loop"].target - exits["loop"].filled <= held[exits["loop"].token]
<1> DEFINE t == exits["loop"].token
           filled == exits["loop"].filled
           target == exits["loop"].target
<1>1. t \in Tokens /\ filled \in Nat /\ target \in Nat
  BY LegacyFacts, ExitUnderWay
<1>2. target <= pos[t]
  BY DEF LegacyInv, LoopWell
<1>3. Untold(t) = filled
  BY DEF Untold
<1>4. pos[t] + writtenOff[t] = held[t] + filled
  <2>1. pos[t] + writtenOff[t] = held[t] + Untold(t)
    BY <1>1 DEF LegacyInv, SharesWell, SharesAccounted
  <2> QED
    BY <2>1, <1>3
<1>5. pos[t] \in Nat /\ writtenOff[t] \in Nat /\ held[t] \in Nat
  BY <1>1, LegacyFacts
<1> HIDE DEF t, filled, target
<1>6. target - filled <= held[t]
  BY <1>1, <1>2, <1>4, <1>5
<1> QED
  BY <1>6 DEF t, filled, target

LEMMA SubmitRaises ==
  ASSUME LegacyInv, NEW a \in Sellers, turn = a, exits[a].at \in {"submit", "cross"},
         Len(orders) < MaxOrders,
         exits[a].target - exits[a].filled = 0
           \/ exits[a].target - exits[a].filled > held[exits[a].token],
         exits' = Go(a, "raised"), UNCHANGED memory,
         orders' = orders \/ orders' = Append(orders, Refused(exits[a].token)),
         UNCHANGED <<clock, launches, turn, loop, sweep, control>>
  PROVE  LegacyInv'
<1> DEFINE x == exits[a]
           y == [exits[a] EXCEPT !.at = "raised"]
<1>1. x.at # "none" /\ x.token \in Tokens /\ x.filled \in Nat /\ x.target \in Nat
  BY ExitUnderWay
<1>2. exits' = [exits EXCEPT ![a] = y]
  BY DEF Go
<1>3. OrdersWell' /\ Len(orders') \in Nat /\ Len(orders') >= Len(orders)
  <2>1. CASE orders' = orders
    BY <2>1, OrdersStand, LegacyFacts, NoFewer DEF LegacyInv
  <2>2. CASE orders' = Append(orders, Refused(exits[a].token))
    <3>1. GoodOrder(Refused(x.token), launches)
      BY <1>1, RefusedGood DEF LegacyInv
    <3>2. OrdersWell' /\ Len(orders') = Len(orders) + 1 /\ Len(orders') \in Nat
      BY <2>2, <3>1, OrderAppended DEF LegacyInv
    <3> HIDE DEF LegacyInv
    <3>3. Len(orders) \in Nat
      BY LegacyFacts
    <3> QED
      BY <3>2, <3>3
  <2> QED
    BY <2>1, <2>2
<1>4. /\ GoodExit(y, Len(orders')) /\ y.at = "raised" /\ y.token = x.token
      /\ y.target = x.target /\ y.filled = x.filled
  BY <1>1, <1>3, GoGood DEF ExitPlaces
<1>5. a = "loop" /\ ~swept => y.filled = 0
  <2> SUFFICES ASSUME a = "loop", ~swept PROVE FALSE
    OBVIOUS
  <2>1. x.target - x.filled <= held[x.token]
    BY <1>1, LoopHolds
  <2>2. held[x.token] \in Nat
    BY <1>1, LegacyFacts
  <2>3. x.target - x.filled = 0
    BY <2>1, <2>2, <1>1
  <2>4. x.at \in {"submit", "cross"} => x.filled < x.target
    BY <1>1, LegacyFacts DEF LegacyInv, LoopWell, GoodExit
  <2> QED
    BY <2>3, <2>4, <1>1
<1>6. turn' \in Sellers \cup {""}
  OBVIOUS
<1> HIDE DEF y
<1> QED
  BY <1>1, <1>2, <1>3, <1>4, <1>5, <1>6, ExitTurns

LEMMA FilledSum ==
  ASSUME NEW p \in Nat, NEW w \in Nat, NEW h \in Nat, NEW u \in Nat, NEW k \in 0..h
  PROVE  /\ h - k \in Nat
         /\ p + w >= h + u => p + w >= (h - k) + u /\ p + w >= (h - k) + (u + k)
         /\ p + w = h + u => p + w = (h - k) + (u + k)
OBVIOUS

LEMMA SubmitFills ==
  ASSUME LegacyInv, NEW a \in Sellers, turn = a, exits[a].at \in {"submit", "cross"},
         Len(orders) < MaxOrders,
         exits[a].target - exits[a].filled # 0,
         exits[a].target - exits[a].filled <= held[exits[a].token],
         NEW k \in 0..(exits[a].target - exits[a].filled),
         orders' = Append(orders, Placed(exits[a].token, FALSE,
                                         exits[a].target - exits[a].filled, k)),
         held' = [held EXCEPT ![exits[a].token] = @ - k],
         swept' = (swept \/ (a = "sweep" /\ k > 0)),
         exits' = [exits EXCEPT ![a].filled = @ + k,
                     ![a].id = Len(orders) + 1,
                     ![a].at = IF exits[a].at = "cross"
                                  \/ k = exits[a].target - exits[a].filled
                               THEN "done" ELSE "after"],
         UNCHANGED <<pos, writtenOff, stuck, alarmed>>,
         UNCHANGED <<clock, launches, turn, loop, sweep, control>>
  PROVE  LegacyInv'
<1> DEFINE x == exits[a]
           t == x.token
           left == x.target - x.filled
           place == IF x.at = "cross" \/ k = left THEN "done" ELSE "after"
           id == Len(orders) + 1
           y == [x EXCEPT !.filled = x.filled + k, !.id = id, !.at = place, !.chases = x.chases]
<1>1. /\ x \in ExitRecords /\ t \in Tokens /\ x.filled \in Nat /\ x.target \in Nat
      /\ x.chases \in 0..MaxChases /\ x.filled <= x.target
  BY ExitUnderWay
<1>2. Len(orders) \in Nat /\ id \in 0..MaxOrders /\ id \in 1..id
  BY LegacyFacts, LegacyBounds
<1>3. left \in Nat /\ left > 0 /\ k \in 0..left /\ x.filled + k \in Nat
  BY <1>1
<1>4. place \in ExitPlaces
  BY DEF ExitPlaces
<1>5. exits' = [exits EXCEPT ![a] = y]
  <2>1. DOMAIN x = {"at", "token", "target", "filled", "chases", "id", "urgent"}
    BY <1>1 DEF ExitRecords
  <2> QED
    BY <2>1, LegacyFacts
<1>6. OrdersWell' /\ Len(orders') = Len(orders) + 1 /\ Len(orders') \in Nat
  <2>1. GoodOrder(Placed(t, FALSE, left, k), launches)
    <3>1. FALSE \in BOOLEAN
      OBVIOUS
    <3> QED
      BY <1>1, <1>3, <3>1, PlacedGood, Zenon DEF LegacyInv
  <2> QED
    BY <2>1, OrderAppended DEF LegacyInv
<1>7. Len(orders') >= Len(orders) /\ Len(orders') = id
  BY <1>2, <1>6
<1>8. /\ y \in ExitRecords /\ y.filled = x.filled + k /\ y.id = id /\ y.at = place
      /\ y.token = t /\ y.target = x.target
  <2>1. y = Edited(x, x.filled + k, id, place, x.chases)
    BY DEF Edited
  <2> HIDE DEF x, y, id, place
  <2>2. x.filled + k \in Nat /\ id \in 0..MaxOrders
    BY <1>2, <1>3
  <2> QED
    BY <1>1, <1>4, <2>1, <2>2, ExitEdited
<1> HIDE DEF y
<1>9. GoodExit(y, Len(orders'))
  <2>1. y.filled <= y.target /\ (place = "after" => y.filled < y.target)
    <3>1. place = "after" => k # left
      OBVIOUS
    <3>2. left = x.target - x.filled
      OBVIOUS
    <3> HIDE DEF x, left, place, LegacyInv
    <3> QED
      BY <1>1, <1>3, <1>8, <3>1, <3>2
  <2>2. y.at \in {"done", "after"} /\ y.id # 0 /\ y.id \in 1..Len(orders')
    BY <1>2, <1>7, <1>8
  <2> QED
    BY <1>1, <1>8, <2>1, <2>2 DEF GoodExit
<1>10. /\ ExitsWell' /\ exits'[a] = y /\ \A b \in Sellers : b # a => exits'[b] = exits[b]
  BY <1>5, <1>6, <1>7, <1>9, ExitMoves DEF LegacyInv
<1>11. TasksWell'
  <2>1. swept' \in BOOLEAN
    BY Zenon
  <2> QED
    BY <2>1, TasksFacts, TasksMove DEF LegacyInv, control
<1>12. LoopWell'
  <2>1. CASE a = "loop"
    <3>1. /\ exits["loop"] = x /\ exits'["loop"] = y /\ y.at \in {"done", "after"}
          /\ x.at # "none"
      BY <2>1, <1>8, <1>10
    <3>2. y.token = x.token /\ y.target = x.target
      BY <1>8
    <3> HIDE DEF x
    <3> QED
      BY <3>1, <3>2 DEF LegacyInv, LoopWell
  <2>2. CASE a # "loop"
    <3>1. exits'["loop"] = exits["loop"] /\ (~swept' => ~swept)
      BY <2>2, <1>10, LegacyFacts
    <3> QED
      BY <3>1 DEF LegacyInv, LoopWell
  <2> QED
    BY <2>1, <2>2
<1>13. SharesWell'
  <2>1. held[t] \in Nat /\ k \in 0..held[t]
    BY <1>1, <1>3, LegacyFacts
  <2>2. held' \in [Tokens -> Nat] /\ held'[t] = held[t] - k
        /\ \A u \in Tokens : u # t => held'[u] = held[u]
    <3>1. held' = [held EXCEPT ![t] = held[t] - k]
      OBVIOUS
    <3> HIDE DEF t
    <3>2. held \in [Tokens -> Nat] /\ held[t] - k \in Nat
      BY <2>1, LegacyFacts
    <3> QED
      BY <3>1, <3>2, <1>1
  <2>3. ASSUME NEW u \in Tokens
        PROVE  /\ pos[u] + writtenOff[u] >= held'[u] + Untold(u)'
               /\ ~swept' => pos[u] + writtenOff[u] = held'[u] + Untold(u)'
    <3>1. /\ pos[u] + writtenOff[u] >= held[u] + Untold(u)
          /\ ~swept => pos[u] + writtenOff[u] = held[u] + Untold(u)
      BY DEF LegacyInv, SharesWell, SharesAccounted
    <3>2. /\ pos[u] \in Nat /\ writtenOff[u] \in Nat /\ held[u] \in Nat /\ Untold(u) \in Nat
      BY LegacyFacts DEF Untold, GoodExit, ExitRecords
    <3>3. ~swept' => ~swept
      BY Zenon
    <3>4. CASE a = "loop"
      <4>1. exits["loop"] = x /\ exits'["loop"] = y
        BY <3>4, <1>10
      <4>2. CASE u = t
        <5>1. Untold(u) = x.filled /\ Untold(u)' = x.filled + k
          BY <4>1, <4>2, <1>8 DEF Untold
        <5>2. held'[u] = held[u] - k /\ k \in 0..held[u]
          BY <4>2, <2>1, <2>2
        <5>3. /\ pos[u] + writtenOff[u] >= held[u] + Untold(u)
                => pos[u] + writtenOff[u] >= (held[u] - k) + (Untold(u) + k)
              /\ pos[u] + writtenOff[u] = held[u] + Untold(u)
                => pos[u] + writtenOff[u] = (held[u] - k) + (Untold(u) + k)
          BY <5>2, <3>2
        <5> QED
          BY <5>1, <5>2, <5>3, <3>1, <3>3
      <4>3. CASE u # t
        <5>1. Untold(u)' = Untold(u)
          BY <4>1, <4>3, <1>8 DEF Untold
        <5> QED
          BY <5>1, <4>3, <3>1, <3>3, <2>2
      <4> QED
        BY <4>2, <4>3
    <3>5. CASE a # "loop"
      <4>1. Untold(u)' = Untold(u)
        BY <3>5, <1>10, LegacyFacts, UntoldStands
      <4>2. CASE u = t
        <5>1. a = "sweep"
          BY <3>5 DEF Sellers
        <5>2. ~swept' => ~(k > 0)
          BY <5>1, Zenon
        <5>3. held'[u] = held[u] - k /\ k \in 0..held[u]
          BY <4>2, <2>1, <2>2
        <5>4. ~swept' => k = 0
          BY <5>2, <5>3, <3>2
        <5>5. pos[u] + writtenOff[u] >= held[u] + Untold(u)
                => pos[u] + writtenOff[u] >= (held[u] - k) + Untold(u)
          BY <5>3, <3>2, FilledSum
        <5>6. k = 0 => held[u] - k = held[u]
          BY <3>2
        <5> QED
          BY <5>3, <5>4, <5>5, <5>6, <4>1, <3>1, <3>3
      <4>3. CASE u # t
        BY <4>1, <4>3, <3>1, <3>3, <2>2
      <4> QED
        BY <4>2, <4>3
    <3> QED
      BY <3>4, <3>5
  <2>4. ASSUME NEW u \in Tokens
        PROVE  pos[u] + writtenOff[u] <= Len(orders') * EntryShares
    <3>1. pos[u] + writtenOff[u] <= Len(orders) * EntryShares
      BY DEF LegacyInv, SharesWell
    <3>2. /\ Len(orders) * EntryShares \in Nat /\ Len(orders') * EntryShares \in Nat
          /\ Len(orders) * EntryShares <= Len(orders') * EntryShares
      BY <1>6, <1>7, MoreOrders DEF LegacyInv
    <3>3. pos[u] \in Nat /\ writtenOff[u] \in Nat
      BY LegacyFacts
    <3> HIDE DEF LegacyInv
    <3> QED
      BY <3>1, <3>2, <3>3, NoMore
  <2> QED
    BY <2>2, <2>3, <2>4, LegacyFacts DEF SharesWell, SharesAccounted
<1> QED
  BY <1>6, <1>10, <1>11, <1>12, <1>13 DEF LegacyInv

LEMMA SubmitExitSteps ==
  ASSUME LegacyInv, NEW a \in Sellers, SubmitExit(a) PROVE LegacyInv'
<1> DEFINE x == exits[a]
           left == x.target - x.filled
<1>1. /\ turn = a /\ x.at \in {"submit", "cross"} /\ Len(orders) < MaxOrders
      /\ UNCHANGED <<clock, launches, turn, loop, sweep, control>>
  BY DEF SubmitExit
<1>2. CASE left = 0 \/ left > held[x.token]
  <2>1. /\ exits' = Go(a, "raised") /\ UNCHANGED memory
        /\ orders' = orders \/ orders' = Append(orders, Refused(x.token))
    BY <1>2 DEF SubmitExit
  <2> QED
    BY <1>1, <1>2, <2>1, SubmitRaises
<1>3. CASE ~(left = 0 \/ left > held[x.token])
  <2>1. PICK k \in 0..left :
          /\ orders' = Append(orders, Placed(x.token, FALSE, left, k))
          /\ held' = [held EXCEPT ![x.token] = @ - k]
          /\ swept' = (swept \/ (a = "sweep" /\ k > 0))
          /\ exits' = [exits EXCEPT ![a].filled = @ + k,
                         ![a].id = Len(orders) + 1,
                         ![a].at = IF x.at = "cross" \/ k = left
                                   THEN "done" ELSE "after"]
          /\ UNCHANGED <<pos, writtenOff, stuck, alarmed>>
    BY <1>3 DEF SubmitExit
  <2>2. left # 0 /\ left <= held[x.token]
    <3>1. x.at # "none"
      BY <1>1
    <3>2. x.token \in Tokens /\ x.filled \in Nat /\ x.target \in Nat /\ held[x.token] \in Nat
      BY <3>1, LegacyFacts, ExitUnderWay
    <3> QED
      BY <3>2, <1>3
  <2> QED
    BY <1>1, <2>1, <2>2, SubmitFills
<1> QED
  BY <1>2, <1>3

LEMMA NoBidSteps ==
  ASSUME LegacyInv, NEW a \in Sellers, NoBid(a) PROVE LegacyInv'
<1> DEFINE x == exits[a]
           y == [exits[a] EXCEPT !.at = "raised"]
<1>1. /\ turn = a /\ x.at = "submit" /\ x.id = 0 /\ exits' = Go(a, "raised")
      /\ UNCHANGED <<clock, launches, memory, orders, turn, loop, sweep, control>>
  BY DEF NoBid
<1>2. OrdersWell' /\ Len(orders') \in Nat /\ Len(orders') >= Len(orders)
  BY <1>1, OrdersStand, LegacyFacts, NoFewer DEF LegacyInv
<1>3. /\ GoodExit(y, Len(orders')) /\ y.at = "raised" /\ y.token = x.token
      /\ y.target = x.target /\ y.filled = x.filled
  BY <1>1, <1>2, GoGood DEF ExitPlaces
<1>4. x.filled = 0
  BY <1>1, LegacyFacts DEF GoodExit
<1>5. exits' = [exits EXCEPT ![a] = y]
  BY <1>1 DEF Go
<1> HIDE DEF y
<1> QED
  BY <1>1, <1>2, <1>3, <1>4, <1>5, ExitTurns

LEMMA AfterSubmitSteps ==
  ASSUME LegacyInv, NEW a \in Sellers, AfterSubmit(a) PROVE LegacyInv'
<1> DEFINE x == exits[a]
<1>1. /\ turn = a /\ x.at = "after"
      /\ UNCHANGED <<clock, launches, memory, loop, sweep, control>>
  BY DEF AfterSubmit
<1>2. x.filled < x.target /\ x.id \in 1..Len(orders)
  BY <1>1, LegacyFacts DEF GoodExit
<1>3. orders' = orders \/ orders' = [orders EXCEPT ![x.id] = Cancelled(orders[x.id])]
  BY DEF AfterSubmit
<1>4. OrdersWell' /\ Len(orders') \in Nat /\ Len(orders') = Len(orders)
  BY <1>1, <1>3, OrdersStand, OrderCancelled DEF LegacyInv
<1>5. Len(orders') >= Len(orders)
  BY <1>4, LegacyFacts, NoFewer
<1>6. PICK place \in {"sleep", "cross", "done"} :
        exits' = Go(a, place) /\ (place = "sleep" => x.chases < MaxChases)
  BY DEF AfterSubmit
<1> DEFINE y == [exits[a] EXCEPT !.at = place]
<1>7. /\ GoodExit(y, Len(orders')) /\ y.at = place /\ y.token = x.token
      /\ y.target = x.target /\ y.filled = x.filled
  <2>1. place \in ExitPlaces /\ place # "none" /\ x.at # "none"
    BY <1>1, <1>6 DEF ExitPlaces
  <2>2. x.id \in 1..Len(orders')
    BY <1>2, <1>4
  <2> QED
    BY <2>1, <2>2, <1>2, <1>4, <1>5, <1>6, GoGood
<1>8. exits' = [exits EXCEPT ![a] = y]
  BY <1>6 DEF Go
<1>9. turn' \in Sellers \cup {""}
  BY DEF AfterSubmit
<1> HIDE DEF y
<1> QED
  BY <1>1, <1>4, <1>5, <1>6, <1>7, <1>8, <1>9, ExitTurns

LEMMA ChaseSteps ==
  ASSUME LegacyInv, NEW a \in Sellers, Chase(a) PROVE LegacyInv'
<1> DEFINE x == exits[a]
<1>1. /\ x.at = "sleep" /\ turn' = a
      /\ orders' = [orders EXCEPT ![x.id] = Cancelled(orders[x.id])]
      /\ UNCHANGED <<clock, launches, memory, loop, sweep, control>>
  BY DEF Chase
<1>2. /\ x.filled < x.target /\ x.id \in 1..Len(orders) /\ x.chases < MaxChases
  BY <1>1, LegacyFacts DEF GoodExit
<1>3. /\ x \in ExitRecords /\ x.token \in Tokens /\ x.filled \in Nat /\ x.target \in Nat
      /\ x.chases \in 0..MaxChases /\ x.id \in 0..MaxOrders
  BY <1>1, ExitUnderWay
<1>4. OrdersWell' /\ Len(orders') \in Nat /\ Len(orders') = Len(orders)
  BY <1>1, OrderCancelled DEF LegacyInv
<1>5. Len(orders') >= Len(orders)
  BY <1>4, LegacyFacts, NoFewer
<1>6. PICK place \in {"submit", "done"} : exits' = [exits EXCEPT ![a].at = place, ![a].chases = @ + 1]
  BY DEF Chase
<1> DEFINE y == [x EXCEPT !.filled = x.filled, !.id = x.id, !.at = place, !.chases = x.chases + 1]
<1>7. x.chases + 1 \in 0..MaxChases
  BY <1>2, <1>3, LegacyBounds
<1>8. /\ y \in ExitRecords /\ y.filled = x.filled /\ y.id = x.id /\ y.at = place
      /\ y.token = x.token /\ y.target = x.target
  <2>1. place \in ExitPlaces
    BY <1>6 DEF ExitPlaces
  <2>2. y = Edited(x, x.filled, x.id, place, x.chases + 1)
    BY DEF Edited
  <2> HIDE DEF x, y
  <2> QED
    BY <2>1, <2>2, <1>3, <1>7, ExitEdited
<1>9. exits' = [exits EXCEPT ![a] = y]
  <2>1. DOMAIN x = {"at", "token", "target", "filled", "chases", "id", "urgent"}
    BY <1>3 DEF ExitRecords
  <2> QED
    BY <2>1, <1>6, LegacyFacts
<1> HIDE DEF y
<1>10. GoodExit(y, Len(orders'))
  BY <1>2, <1>3, <1>4, <1>6, <1>8 DEF GoodExit
<1> QED
  BY <1>1, <1>2, <1>4, <1>5, <1>6, <1>8, <1>9, <1>10, ExitTurns

-----------------------------------------------------------------------------
(* The trade loop *)

LoopRecords ==
  [at : {"idle", "exits", "exit", "evaluate"}, todo : SUBSET Tokens,
   since : 0..MaxTime, token : Tokens \cup {""}]

LEMMA LoopFacts ==
  ASSUME LegacyInv
  PROVE  /\ loop \in LoopRecords /\ loop.todo \subseteq Tokens /\ loop.since \in 0..MaxTime
         /\ loop.at = "evaluate" => loop.token \in Tokens
         /\ \A t \in loop.todo : pos[t] > 0
         /\ loop.at # "exit" => exits["loop"].at = "none" /\ exits["loop"] = NoExit
         /\ exits["loop"].at # "none" =>
              /\ loop.at = "exit" /\ exits["loop"].token \notin loop.todo
              /\ exits["loop"].target <= pos[exits["loop"].token]
<1>1. loop \in LoopRecords
  BY DEF LegacyInv, LoopWell, LoopRecords
<1>2. loop.at # "exit" => exits["loop"].at = "none"
  BY DEF LegacyInv, LoopWell
<1>3. exits["loop"].at = "none" => exits["loop"] = NoExit
  BY LegacyFacts DEF GoodExit
<1> QED
  BY <1>1, <1>2, <1>3 DEF LegacyInv, LoopWell, LoopRecords

LoopAs(l, todo, place) == [l EXCEPT !.todo = todo, !.at = place]

LEMMA LoopEdited ==
  ASSUME NEW l \in LoopRecords, NEW place \in {"idle", "exits", "exit", "evaluate"},
         NEW todo \in SUBSET Tokens, NEW m, m = LoopAs(l, todo, place)
  PROVE  m \in LoopRecords /\ m.todo = todo /\ m.at = place
<1>1. DOMAIN l = {"at", "todo", "since", "token"} /\ l.since \in 0..MaxTime
      /\ l.token \in Tokens \cup {""}
  BY DEF LoopRecords
<1>2. m.todo = todo /\ m.at = place /\ m.since = l.since /\ m.token = l.token
  BY <1>1 DEF LoopAs
<1>3. DOMAIN m = DOMAIN l /\ m = [f \in DOMAIN m |-> m[f]]
  BY DEF LoopAs
<1>4. m \in LoopRecords
  BY <1>1, <1>2, <1>3 DEF LoopRecords
<1> QED
  BY <1>2, <1>4

\* A step of the loop with no exit of its own left or begun
LEMMA LoopTurns ==
  ASSUME loop' \in LoopRecords, loop'.at = "evaluate" => loop'.token \in Tokens,
         \A t \in loop'.todo : pos'[t] > 0, exits'["loop"].at = "none"
  PROVE  LoopWell'
BY DEF LoopWell, LoopRecords

LEMMA StartCycleSteps ==
  ASSUME LegacyInv, StartCycle PROVE LegacyInv'
<1>1. /\ turn = "" /\ loop.at = "idle" /\ turn' = "loop"
      /\ stuck' = [t \in Tokens |-> IF pos[t] > 0 THEN stuck[t] ELSE NotStuck]
      /\ alarmed' = alarmed \cap Positions
      /\ UNCHANGED <<clock, launches, held, pos, writtenOff, swept, orders, exits, sweep,
                     control>>
  BY DEF StartCycle
<1>2. PICK firing \in SUBSET Positions :
        loop' = [Idle EXCEPT !.at = "exits", !.todo = firing, !.since = clock]
  <2>1. Positions \in SUBSET Positions
    OBVIOUS
  <2> QED
    BY <2>1 DEF StartCycle
<1>3. OrdersWell' /\ Len(orders') = Len(orders) /\ Len(orders') \in Nat
  BY <1>1, OrdersStand DEF LegacyInv
<1>4. Len(orders') >= Len(orders)
  BY <1>3, LegacyFacts, NoFewer
<1>5. TasksWell'
  <2>1. stuck' \in [Tokens -> 0..MaxTime \cup {NotStuck}]
    BY <1>1, TasksFacts DEF LegacyInv
  <2>2. turn' \in Sellers \cup {""} /\ alarmed' \subseteq Tokens
    BY <1>1, TasksFacts DEF LegacyInv, Sellers
  <2>3. UNCHANGED <<clock, launches, commands, callbacks, panic, kill, paused, swept, sweep>>
    BY <1>1 DEF control
  <2> QED
    BY <2>1, <2>2, <2>3, TasksFacts, TasksMove DEF LegacyInv
<1>6. ExitsWell' /\ SharesWell'
  BY <1>1, <1>3, <1>4, ExitsStand, SharesStand DEF LegacyInv
<1>7. LoopWell'
  <2>1. firing \subseteq Tokens /\ \A t \in firing : pos[t] > 0
    BY DEF Positions
  <2>2. clock \in 0..MaxTime
    BY TasksFacts DEF LegacyInv
  <2>3. loop' = [at |-> "exits", todo |-> firing, since |-> clock, token |-> ""]
    BY <1>2 DEF Idle
  <2>4. loop' \in LoopRecords
    BY <2>1, <2>2, <2>3 DEF LoopRecords
  <2>5. exits'["loop"].at = "none" /\ pos' = pos
    BY <1>1, LoopFacts
  <2> QED
    BY <2>1, <2>3, <2>4, <2>5, LoopTurns
<1> QED
  BY <1>3, <1>5, <1>6, <1>7 DEF LegacyInv

LEMMA ScanSteps ==
  ASSUME LegacyInv, Scan PROVE LegacyInv'
<1>1. /\ loop.at = "exits" /\ turn' = ""
      /\ UNCHANGED <<clock, launches, memory, orders, exits, sweep, control>>
  BY DEF Scan
<1>2. UNCHANGED <<held, pos, writtenOff, swept, stuck, alarmed>>
  BY <1>1 DEF memory
<1>3. OrdersWell' /\ Len(orders') = Len(orders) /\ Len(orders') \in Nat
  BY <1>1, OrdersStand DEF LegacyInv
<1>4. Len(orders') >= Len(orders)
  BY <1>3, LegacyFacts, NoFewer
<1>5. ExitsWell' /\ SharesWell'
  BY <1>1, <1>2, <1>3, <1>4, ExitsStand, SharesStand DEF LegacyInv
<1>6. TasksWell'
  BY <1>1, <1>2, TasksFacts, TasksMove DEF LegacyInv, control
<1>7. LoopWell'
  <2>1. exits'["loop"].at = "none"
    BY <1>1, LoopFacts
  <2>2. loop' = Idle \/ \E t \in Tokens : loop' = [Idle EXCEPT !.at = "evaluate", !.token = t]
    BY DEF Scan
  <2>3. 0 \in 0..MaxTime
    BY LegacyBounds
  <2>4. CASE loop' = Idle
    BY <2>1, <2>3, <2>4, LoopTurns DEF Idle, LoopRecords
  <2>5. ASSUME NEW t \in Tokens, loop' = [Idle EXCEPT !.at = "evaluate", !.token = t]
        PROVE  LoopWell'
    BY <2>1, <2>3, <2>5, LoopTurns DEF Idle, LoopRecords
  <2> QED
    BY <2>2, <2>4, <2>5
<1> QED
  BY <1>3, <1>5, <1>6, <1>7 DEF LegacyInv

LEMMA ExitRaisedSteps ==
  ASSUME LegacyInv, ExitRaised PROVE LegacyInv'
<1> DEFINE x == exits["loop"]
           t == x.token
           alarm == x.urgent /\ t \notin alarmed
<1>1. /\ turn = "loop" /\ x.at = "raised"
      /\ IF alarm THEN Activate ELSE UNCHANGED <<panic, callbacks>>
      /\ alarmed' = IF alarm THEN alarmed \cup {t} ELSE alarmed
      /\ exits' = [exits EXCEPT !["loop"] = NoExit]
      /\ loop' = [loop EXCEPT !.at = "exits"]
      /\ UNCHANGED <<clock, launches, held, pos, writtenOff, stuck, swept, orders, turn,
                     sweep, kill, paused, commands>>
  BY Zenon DEF ExitRaised
<1>2. x.at # "none" /\ t \in Tokens /\ x.filled \in Nat
  BY <1>1, LegacyFacts, ExitUnderWay
<1>3. OrdersWell' /\ Len(orders') = Len(orders) /\ Len(orders') \in Nat
  BY <1>1, OrdersStand DEF LegacyInv
<1>4. Len(orders') >= Len(orders)
  BY <1>3, LegacyFacts, NoFewer
<1>5. GoodExit(NoExit, Len(orders')) /\ NoExit.at = "none" /\ NoExit.filled = 0
  BY <1>3, NoExitGood
<1>6. ExitsWell' /\ exits'["loop"] = NoExit
  BY <1>1, <1>3, <1>4, <1>5, LegacyFacts, ExitMoves DEF LegacyInv
<1>7. TasksWell'
  <2>1. callbacks \in 0..MaxCallbacks /\ (~panic => callbacks < MaxCallbacks)
    BY Zenon DEF LegacyInv, TasksWell
  <2>2. callbacks < MaxCallbacks => callbacks + 1 \in 0..MaxCallbacks
    BY <2>1, LegacyBounds
  <2>3. panic \in BOOLEAN /\ alarmed \subseteq Tokens
    BY TasksFacts DEF LegacyInv
  <2>4. /\ panic' \in BOOLEAN /\ callbacks' \in 0..MaxCallbacks
        /\ (~panic' => callbacks' < MaxCallbacks)
    <3>1. CASE UNCHANGED <<panic, callbacks>>
      <4>1. panic' = panic /\ callbacks' = callbacks
        BY <3>1
      <4> QED
        BY <4>1, <2>1, <2>3, Zenon
    <3>2. CASE Activate
      <4>1. panic' /\ panic' \in BOOLEAN
        BY <3>2, Zenon DEF Activate
      <4>2. CASE panic
        BY <4>1, <4>2, <3>2, <2>1, Zenon DEF Activate
      <4>3. CASE ~panic
        BY <4>1, <4>3, <3>2, <2>1, <2>2, Zenon DEF Activate
      <4> QED
        BY <4>2, <4>3, Zenon
    <3> QED
      BY <1>1, <3>1, <3>2, Zenon
  <2>5. alarmed' \subseteq Tokens
    <3>1. alarmed' = alarmed \/ alarmed' = alarmed \cup {t}
      BY <1>1, Zenon
    <3> QED
      BY <3>1, <2>3, <1>2
  <2>6. UNCHANGED <<clock, launches, commands, turn, sweep, kill, paused, swept, stuck>>
    BY <1>1
  <2> QED
    BY <2>4, <2>5, <2>6, TasksFacts, Zenon DEF LegacyInv, TasksWell
<1>8. LoopWell'
  <2>1. loop' = LoopAs(loop, loop.todo, "exits")
    BY <1>1, LoopFacts DEF LoopRecords, LoopAs
  <2>2. loop' \in LoopRecords /\ loop'.todo = loop.todo /\ loop'.at = "exits"
    BY <2>1, LoopFacts, LoopEdited
  <2>3. pos' = pos /\ exits'["loop"].at = "none"
    BY <1>1, <1>5, <1>6
  <2> QED
    BY <2>2, <2>3, LoopFacts, LoopTurns
<1>9. SharesWell'
  <2>1. UNCHANGED <<held, pos, writtenOff, swept>>
    BY <1>1
  <2>2. ~swept => x.filled = 0
    BY <1>1, <1>2 DEF LegacyInv, LoopWell
  <2>3. ASSUME NEW u \in Tokens
        PROVE  /\ pos[u] + writtenOff[u] >= held[u] + Untold(u)'
               /\ ~swept => pos[u] + writtenOff[u] = held[u] + Untold(u)'
    <3>1. /\ pos[u] + writtenOff[u] >= held[u] + Untold(u)
          /\ ~swept => pos[u] + writtenOff[u] = held[u] + Untold(u)
      BY DEF LegacyInv, SharesWell, SharesAccounted
    <3>2. pos[u] \in Nat /\ writtenOff[u] \in Nat /\ held[u] \in Nat
      BY LegacyFacts
    <3>3. Untold(u)' = 0
      BY <1>5, <1>6 DEF Untold
    <3>4. Untold(u) \in Nat /\ (~swept => Untold(u) = 0)
      BY <2>2, <1>2 DEF Untold
    <3> QED
      BY <3>1, <3>2, <3>3, <3>4
  <2> QED
    BY <1>1, <2>1, <2>3 DEF LegacyInv, SharesWell, SharesAccounted
<1> QED
  BY <1>3, <1>6, <1>7, <1>8, <1>9 DEF LegacyInv

LEMMA ClockTicksSteps ==
  ASSUME LegacyInv, ClockTicks PROVE LegacyInv'
<1>1. /\ clock < MaxTime /\ clock' = clock + 1
      /\ UNCHANGED <<launches, memory, orders, turn, loop, exits, sweep, control>>
  BY DEF ClockTicks
<1>2. UNCHANGED <<held, pos, writtenOff, swept, stuck, alarmed>>
      /\ UNCHANGED <<panic, kill, paused, callbacks, commands>>
  BY <1>1 DEF memory, control
<1>3. OrdersWell' /\ Len(orders') = Len(orders) /\ Len(orders') \in Nat
  BY <1>1, OrdersStand DEF LegacyInv
<1>4. Len(orders') >= Len(orders)
  BY <1>3, LegacyFacts, NoFewer
<1>5. ExitsWell' /\ SharesWell' /\ LoopWell'
  BY <1>1, <1>2, <1>3, <1>4, ExitsStand, SharesStand, LoopStands DEF LegacyInv
<1>6. clock' \in 0..MaxTime
  <2>1. clock \in 0..MaxTime
    BY TasksFacts DEF LegacyInv
  <2> QED
    BY <2>1, <1>1, LegacyBounds
<1>7. TasksWell'
  BY <1>1, <1>2, <1>6, Zenon DEF LegacyInv, TasksWell
<1> QED
  BY <1>3, <1>5, <1>7 DEF LegacyInv

LEMMA ExitDoneSteps ==
  ASSUME LegacyInv, ExitDone PROVE LegacyInv'
<1> DEFINE x == exits["loop"]
           t == x.token
           o == orders[x.id]
           p == [o EXCEPT !.row = o.state]
<1>1. /\ turn = "loop" /\ x.at = "done"
      /\ orders' = [orders EXCEPT ![x.id].row = orders[x.id].state]
      /\ pos' = [pos EXCEPT ![t] = @ - x.filled]
      /\ stuck' = [stuck EXCEPT ![t] = IF x.filled > 0 THEN NotStuck ELSE @]
      /\ alarmed' = IF x.filled > 0 THEN alarmed \ {t} ELSE alarmed
      /\ exits' = [exits EXCEPT !["loop"] = NoExit]
      /\ loop' = [loop EXCEPT !.at = "exits"] /\ turn' = ""
      /\ UNCHANGED <<clock, launches, held, writtenOff, swept, sweep, control>>
  BY DEF ExitDone
<1>2. /\ x.at # "none" /\ t \in Tokens /\ x.filled \in Nat /\ x.target \in Nat
      /\ x.filled <= x.target
  BY <1>1, LegacyFacts, ExitUnderWay
<1>3. x.id \in 1..Len(orders)
  BY <1>1, LegacyFacts DEF GoodExit
<1>4. GoodOrder(o, launches) /\ o \in OrderRecords
  BY <1>3 DEF LegacyInv, OrdersWell, GoodOrder
<1>5. GoodOrder(p, launches) /\ p \in OrderRecords
  <2>1. p = [o EXCEPT !.row = o.state]
    OBVIOUS
  <2> HIDE DEF o, p
  <2>2. /\ p \in OrderRecords /\ p.row = o.state /\ p.state = o.state /\ p.born = o.born
        /\ p.buy = o.buy /\ p.frozen = o.frozen /\ p.resting = o.resting /\ p.timer = o.timer
    BY <2>1, <1>4 DEF OrderRecords
  <2> QED
    BY <2>2, <1>4 DEF GoodOrder
<1>6. OrdersWell' /\ Len(orders') = Len(orders) /\ Len(orders') \in Nat
  <2>1. orders \in Seq(OrderRecords) /\ Len(orders) \in Nat /\ Len(orders) <= MaxOrders
    BY DEF LegacyInv, OrdersWell
  <2>2. orders' = [orders EXCEPT ![x.id] = p]
    BY <1>1
  <2> HIDE DEF p
  <2>3. orders' \in Seq(OrderRecords) /\ Len(orders') = Len(orders)
    BY <2>1, <2>2, <1>3, <1>5
  <2>4. \A i \in 1..Len(orders) : GoodOrder(orders'[i], launches)
    <3>1. \A i \in 1..Len(orders) : GoodOrder(orders[i], launches)
      BY DEF LegacyInv, OrdersWell
    <3>2. \A i \in 1..Len(orders) : orders'[i] = p \/ orders'[i] = orders[i]
      BY <2>1, <2>2, <1>3
    <3> QED
      BY <3>1, <3>2, <1>5
  <2> QED
    BY <2>1, <2>3, <2>4, <1>1 DEF OrdersWell
<1>7. Len(orders') >= Len(orders)
  BY <1>6, LegacyFacts, NoFewer
<1>8. GoodExit(NoExit, Len(orders')) /\ NoExit.at = "none" /\ NoExit.filled = 0
  BY <1>6, NoExitGood
<1>9. ExitsWell' /\ exits'["loop"] = NoExit
  BY <1>1, <1>6, <1>7, <1>8, LegacyFacts, ExitMoves DEF LegacyInv
<1>10. TasksWell'
  <2>1. stuck \in [Tokens -> 0..MaxTime \cup {NotStuck}] /\ alarmed \subseteq Tokens
    BY TasksFacts DEF LegacyInv
  <2>2. stuck' \in [Tokens -> 0..MaxTime \cup {NotStuck}]
    <3>1. PICK n \in {NotStuck, stuck[t]} : stuck' = [stuck EXCEPT ![t] = n]
      BY <1>1
    <3>2. n \in 0..MaxTime \cup {NotStuck}
      BY <2>1, <1>2
    <3> HIDE DEF t
    <3> QED
      BY <2>1, <3>1, <3>2
  <2>3. alarmed' \subseteq Tokens
    BY <2>1, <1>1
  <2>4. /\ UNCHANGED <<clock, launches, commands, callbacks, panic, kill, paused, swept>>
        /\ sweep' = sweep /\ turn' = ""
    BY <1>1 DEF control
  <2> QED
    BY <2>2, <2>3, <2>4, TasksFacts, TasksMove DEF LegacyInv
<1>11. /\ pos' \in [Tokens -> Nat] /\ pos'[t] = pos[t] - x.filled /\ x.filled <= pos[t]
       /\ \A u \in Tokens : u # t => pos'[u] = pos[u]
  <2>1. x.filled <= pos[t]
    <3>1. x.target <= pos[t] /\ pos[t] \in Nat
      BY <1>2, LoopFacts, LegacyFacts
    <3> QED
      BY <3>1, <1>2
  <2>2. pos[t] - x.filled \in Nat
    BY <2>1, <1>2, LegacyFacts
  <2>3. pos' = [pos EXCEPT ![t] = pos[t] - x.filled]
    BY <1>1
  <2> HIDE DEF t
  <2> QED
    BY <2>1, <2>2, <2>3, <1>2, LegacyFacts
<1>12. LoopWell'
  <2>1. loop' = LoopAs(loop, loop.todo, "exits")
    BY <1>1, LoopFacts DEF LoopRecords, LoopAs
  <2>2. loop' \in LoopRecords /\ loop'.todo = loop.todo /\ loop'.at = "exits"
    BY <2>1, LoopFacts, LoopEdited
  <2>3. \A u \in loop.todo : u \in Tokens /\ u # t
    BY <1>2, LoopFacts
  <2>4. \A u \in loop'.todo : pos'[u] > 0
    BY <2>2, <2>3, <1>11, LoopFacts
  <2> QED
    BY <2>2, <2>4, <1>8, <1>9, LoopTurns
<1>13. SharesWell'
  <2>1. ASSUME NEW u \in Tokens
        PROVE  /\ pos'[u] + writtenOff[u] >= held[u] + Untold(u)'
               /\ ~swept => pos'[u] + writtenOff[u] = held[u] + Untold(u)'
               /\ pos'[u] + writtenOff[u] <= Len(orders) * EntryShares
    <3>1. /\ pos[u] + writtenOff[u] >= held[u] + Untold(u)
          /\ ~swept => pos[u] + writtenOff[u] = held[u] + Untold(u)
          /\ pos[u] + writtenOff[u] <= Len(orders) * EntryShares
      BY DEF LegacyInv, SharesWell, SharesAccounted
    <3>2. pos[u] \in Nat /\ writtenOff[u] \in Nat /\ held[u] \in Nat
          /\ Len(orders) * EntryShares \in Nat
      BY <1>6, <1>7, LegacyFacts, MoreOrders DEF LegacyInv
    <3>3. Untold(u)' = 0
      BY <1>8, <1>9 DEF Untold
    <3>4. CASE u = t
      <4>1. Untold(u) = x.filled
        BY <3>4 DEF Untold
      <4>2. pos'[u] = pos[u] - x.filled /\ x.filled <= pos[u]
        BY <3>4, <1>11
      <4> DEFINE p0 == pos[u]
                 p1 == pos'[u]
                 w == writtenOff[u]
                 h == held[u]
                 b == Len(orders) * EntryShares
                 f == x.filled
      <4>3. /\ p0 \in Nat /\ w \in Nat /\ h \in Nat /\ b \in Nat /\ f \in Nat
            /\ p1 = p0 - f /\ f <= p0
            /\ p0 + w >= h + f /\ (~swept => p0 + w = h + f) /\ p0 + w <= b
        BY <3>1, <3>2, <4>1, <4>2, <1>2
      <4> HIDE DEF p0, p1, w, h, b, f
      <4>4. p1 + w >= h + 0 /\ (~swept => p1 + w = h + 0) /\ p1 + w <= b
        BY <4>3
      <4> QED
        BY <4>4, <3>3 DEF p1, w, h, b
    <3>5. CASE u # t
      <4>1. Untold(u) = 0 /\ pos'[u] = pos[u]
        BY <3>5, <1>11 DEF Untold
      <4> QED
        BY <3>1, <3>2, <3>3, <4>1
    <3> QED
      BY <3>4, <3>5
  <2> QED
    BY <1>1, <1>6, <1>11, <2>1, LegacyFacts DEF SharesWell, SharesAccounted
<1> QED
  BY <1>6, <1>9, <1>10, <1>12, <1>13 DEF LegacyInv

LEMMA NextExitSteps ==
  ASSUME LegacyInv, NEW t \in Tokens, NextExit(t) PROVE LegacyInv'
<1> DEFINE first == IF stuck[t] = NotStuck THEN loop.since ELSE stuck[t]
           rest == [loop EXCEPT !.todo = @ \ {t}]
<1>1. /\ loop.at = "exits" /\ t \in loop.todo
      /\ UNCHANGED <<clock, launches, held, swept, orders, sweep, control>>
  BY DEF NextExit
<1>2. exits["loop"] = NoExit /\ exits["loop"].at = "none" /\ pos[t] > 0 /\ pos[t] \in Nat
  BY <1>1, LoopFacts, LegacyFacts
<1>3. OrdersWell' /\ Len(orders') = Len(orders) /\ Len(orders') \in Nat
  BY <1>1, OrdersStand DEF LegacyInv
<1>4. Len(orders') >= Len(orders)
  BY <1>3, LegacyFacts, NoFewer
<1>5. NoExit.filled = 0
  BY NoExitGood
<1>6. first \in 0..MaxTime
  BY TasksFacts, LoopFacts DEF LegacyInv, NotStuck
<1>7. stuck \in [Tokens -> 0..MaxTime \cup {NotStuck}] /\ alarmed \subseteq Tokens
  BY TasksFacts DEF LegacyInv
<1>8. rest = LoopAs(loop, loop.todo \ {t}, "exits")
  BY <1>1, LoopFacts DEF LoopRecords, LoopAs
<1>9. rest \in LoopRecords /\ rest.todo = loop.todo \ {t} /\ rest.at = "exits"
  <2> HIDE DEF rest
  <2> QED
    BY <1>8, LoopFacts, LoopEdited
<1>10. UNCHANGED <<clock, launches, commands, callbacks, panic, kill, paused, swept, sweep>>
  BY <1>1 DEF control
<1>11. CASE WriteOff(t) /\ turn' = "" /\ loop' = rest /\ exits' = exits
  <2>1. /\ pos' = [pos EXCEPT ![t] = 0]
        /\ writtenOff' = [writtenOff EXCEPT ![t] = writtenOff[t] + pos[t]]
        /\ stuck' = [stuck EXCEPT ![t] = NotStuck] /\ alarmed' = alarmed \ {t}
    BY <1>11 DEF WriteOff
  <2> HIDE DEF rest, first
  <2>2. TasksWell'
    <3>1. stuck' \in [Tokens -> 0..MaxTime \cup {NotStuck}]
      BY <2>1, <1>7
    <3>2. alarmed' \subseteq Tokens /\ turn' \in Sellers \cup {""}
      BY <2>1, <1>7, <1>11
    <3> QED
      BY <3>1, <3>2, <1>10, TasksFacts, TasksMove DEF LegacyInv
  <2>3. /\ pos' \in [Tokens -> Nat] /\ writtenOff' \in [Tokens -> Nat]
        /\ \A u \in Tokens : /\ pos'[u] + writtenOff'[u] = pos[u] + writtenOff[u]
                             /\ u # t => pos'[u] = pos[u]
    <3>1. writtenOff[t] + pos[t] \in Nat /\ 0 + (writtenOff[t] + pos[t]) = pos[t] + writtenOff[t]
      BY <1>2, LegacyFacts
    <3> QED
      BY <3>1, <2>1, LegacyFacts
  <2>4. ExitsWell'
    BY <1>3, <1>4, <1>11, ExitsStand DEF LegacyInv
  <2>5. LoopWell'
    <3>1. \A u \in loop.todo \ {t} : u \in Tokens /\ pos[u] > 0
      BY LoopFacts
    <3>2. \A u \in loop'.todo : pos'[u] > 0
      BY <3>1, <2>3, <1>9, <1>11
    <3> QED
      BY <3>2, <1>2, <1>9, <1>11, LoopTurns
  <2>6. SharesWell'
    <3>1. \A u \in Tokens : Untold(u)' = Untold(u)
      BY <1>11, UntoldStands
    <3>2. \A u \in Tokens : pos'[u] + writtenOff'[u] <= Len(orders') * EntryShares
      BY <1>1, <2>3 DEF LegacyInv, SharesWell
    <3>3. SharesAccounted'
      BY <1>1, <2>3, <3>1 DEF LegacyInv, SharesWell, SharesAccounted
    <3> QED
      BY <1>1, <2>3, <3>2, <3>3, LegacyFacts DEF SharesWell
  <2> QED
    BY <1>3, <2>2, <2>4, <2>5, <2>6 DEF LegacyInv
<1>12. CASE /\ stuck' = [stuck EXCEPT ![t] = first] /\ turn' = "loop"
            /\ UNCHANGED <<pos, writtenOff, alarmed>>
            /\ \/ loop' = rest /\ exits' = exits
               \/ /\ loop' = [rest EXCEPT !.at = "exit"]
                  /\ \E urgent \in BOOLEAN, n \in 1..pos[t] : BeginExit("loop", t, n, urgent)
  <2>1. TasksWell'
    <3>1. stuck' \in [Tokens -> 0..MaxTime \cup {NotStuck}]
      <4> HIDE DEF first
      <4> QED
        BY <1>12, <1>6, <1>7
    <3>2. alarmed' \subseteq Tokens /\ turn' \in Sellers \cup {""}
      BY <1>7, <1>12 DEF Sellers
    <3> QED
      BY <3>1, <3>2, <1>10, TasksFacts, TasksMove DEF LegacyInv
  <2>2. CASE loop' = rest /\ exits' = exits
    <3> HIDE DEF rest
    <3>1. ExitsWell' /\ SharesWell'
      BY <1>1, <1>3, <1>4, <1>12, <2>2, ExitsStand, SharesStand DEF LegacyInv
    <3>2. \A u \in loop'.todo : pos'[u] > 0
      BY <1>9, <1>12, <2>2, LoopFacts
    <3>3. LoopWell'
      BY <3>2, <1>2, <1>9, <2>2, LoopTurns
    <3> QED
      BY <1>3, <2>1, <3>1, <3>3 DEF LegacyInv
  <2>3. CASE /\ loop' = [rest EXCEPT !.at = "exit"]
             /\ \E urgent \in BOOLEAN, n \in 1..pos[t] : BeginExit("loop", t, n, urgent)
    <3>1. loop' = LoopAs(loop, loop.todo \ {t}, "exit")
      BY <2>3 DEF LoopAs
    <3>2. loop' \in LoopRecords /\ loop'.todo = loop.todo \ {t} /\ loop'.at = "exit"
      BY <3>1, LoopFacts, LoopEdited
    <3>3. PICK urgent \in BOOLEAN, n \in 1..pos[t] : BeginExit("loop", t, n, urgent)
      BY <2>3
    <3> DEFINE y == Began(t, n, urgent)
    <3>4. n \in Nat /\ n > 0 /\ n <= pos[t]
      BY <1>2
    <3>5. /\ GoodExit(y, Len(orders')) /\ y.token = t /\ y.target = n /\ y.filled = 0
          /\ y.at = "submit"
      BY <3>4, <1>3, BeganGood
    <3>6. exits' = [exits EXCEPT !["loop"] = y]
      BY <3>3 DEF BeginExit, Began
    <3> HIDE DEF y, rest, first
    <3>7. ExitsWell' /\ exits'["loop"] = y
      BY <1>3, <1>4, <3>5, <3>6, LegacyFacts, ExitMoves DEF LegacyInv
    <3>8. LoopWell'
      <4>1. \A u \in loop'.todo : pos'[u] > 0 /\ u # t
        BY <3>2, <1>12, LoopFacts
      <4>2. pos' = pos /\ 0 < n
        BY <1>12, <3>4
      <4> QED
        BY <3>2, <3>4, <3>5, <3>7, <4>1, <4>2 DEF LoopWell, LoopRecords
    <3>9. SharesWell'
      <4>1. \A u \in Tokens : Untold(u)' = Untold(u)
        BY <1>2, <1>5, <3>5, <3>7 DEF Untold
      <4>2. SharesAccounted'
        BY <1>1, <1>12, <4>1 DEF LegacyInv, SharesWell, SharesAccounted
      <4> QED
        BY <1>1, <1>12, <4>2 DEF LegacyInv, SharesWell
    <3> QED
      BY <1>3, <2>1, <3>7, <3>8, <3>9 DEF LegacyInv
  <2> QED
    BY <1>12, <2>2, <2>3
<1>13. \/ WriteOff(t) /\ turn' = "" /\ loop' = rest /\ exits' = exits
       \/ /\ stuck' = [stuck EXCEPT ![t] = first] /\ turn' = "loop"
          /\ UNCHANGED <<pos, writtenOff, alarmed>>
          /\ \/ loop' = rest /\ exits' = exits
             \/ /\ loop' = [rest EXCEPT !.at = "exit"]
                /\ \E urgent \in BOOLEAN, n \in 1..pos[t] : BeginExit("loop", t, n, urgent)
  <2>1. pos[t] \in 1..pos[t]
    BY <1>2
  <2> QED
    BY <2>1 DEF NextExit
<1> QED
  BY <1>11, <1>12, <1>13

LEMMA EvaluateSteps ==
  ASSUME LegacyInv, Evaluate PROVE LegacyInv'
<1> DEFINE t == loop.token
<1>1. /\ turn = "" /\ loop.at = "evaluate" /\ loop' = Idle
      /\ UNCHANGED <<clock, launches, writtenOff, stuck, alarmed, swept, turn, exits,
                     sweep, control>>
  BY DEF Evaluate
<1>2. t \in Tokens /\ exits["loop"] = NoExit /\ exits["loop"].at = "none"
  BY <1>1, LoopFacts
<1>3. TasksWell'
  BY <1>1, TasksFacts, TasksMove DEF LegacyInv, control
<1>4. LoopWell'
  <2>1. 0 \in 0..MaxTime
    BY LegacyBounds
  <2> QED
    BY <2>1, <1>1, <1>2, LoopTurns DEF Idle, LoopRecords
<1>5. CASE UNCHANGED <<held, pos, orders>>
  <2>1. OrdersWell' /\ Len(orders') = Len(orders) /\ Len(orders') \in Nat
    BY <1>1, <1>5, OrdersStand DEF LegacyInv
  <2>2. Len(orders') >= Len(orders)
    BY <2>1, LegacyFacts, NoFewer
  <2>3. ExitsWell' /\ SharesWell'
    BY <1>1, <1>5, <2>1, <2>2, ExitsStand, SharesStand DEF LegacyInv
  <2> QED
    BY <1>3, <1>4, <2>1, <2>3 DEF LegacyInv
<1>6. ASSUME HardChecks, Len(orders) < MaxOrders, NEW k \in 0..EntryShares, Enter(t, k)
      PROVE  LegacyInv'
  <2> DEFINE o == Placed(t, TRUE, EntryShares, k)
             p == [o EXCEPT !.row = o.state]
  <2>1. /\ orders' = Append(orders, p) /\ held' = [held EXCEPT ![t] = held[t] + k]
        /\ pos' = [pos EXCEPT ![t] = pos[t] + k]
    BY <1>6 DEF Enter
  <2>2. GoodOrder(o, launches) /\ o \in OrderRecords
    <3>1. ~panic /\ ~kill
      BY <1>6, Zenon DEF HardChecks
    <3>2. TRUE \in BOOLEAN /\ EntryShares \in Nat
      BY LegacyBounds
    <3>3. GoodOrder(o, launches)
      BY <3>1, <3>2, <1>2, PlacedGood, Zenon DEF LegacyInv
    <3> QED
      BY <3>3 DEF GoodOrder
  <2> HIDE DEF o
  <2>3. GoodOrder(p, launches)
    <3>1. p = [o EXCEPT !.row = o.state]
      OBVIOUS
    <3> HIDE DEF p
    <3>2. /\ p \in OrderRecords /\ p.row = o.state /\ p.state = o.state /\ p.born = o.born
          /\ p.buy = o.buy /\ p.frozen = o.frozen /\ p.resting = o.resting /\ p.timer = o.timer
      BY <3>1, <2>2 DEF OrderRecords
    <3> QED
      BY <3>2, <2>2 DEF GoodOrder
  <2> HIDE DEF p, t
  <2>4. OrdersWell' /\ Len(orders') = Len(orders) + 1 /\ Len(orders') \in Nat
    BY <1>1, <1>6, <2>1, <2>3, OrderAppended DEF LegacyInv
  <2>5. Len(orders') >= Len(orders)
    BY <2>4, LegacyFacts
  <2>6. ExitsWell'
    BY <1>1, <2>4, <2>5, ExitsStand DEF LegacyInv
  <2>7. /\ k \in Nat /\ k <= EntryShares
        /\ pos' \in [Tokens -> Nat] /\ held' \in [Tokens -> Nat]
        /\ pos'[t] = pos[t] + k /\ held'[t] = held[t] + k
        /\ \A u \in Tokens : u # t => pos'[u] = pos[u] /\ held'[u] = held[u]
    <3>1. k \in Nat /\ k <= EntryShares
      BY LegacyBounds
    <3>2. pos[t] + k \in Nat /\ held[t] + k \in Nat
      BY <3>1, <1>2, LegacyFacts
    <3> QED
      BY <3>1, <3>2, <2>1, <1>2, LegacyFacts
  <2>8. ASSUME NEW u \in Tokens
        PROVE  /\ pos'[u] + writtenOff[u] >= held'[u] + Untold(u)'
               /\ ~swept => pos'[u] + writtenOff[u] = held'[u] + Untold(u)'
               /\ pos'[u] + writtenOff[u] <= Len(orders') * EntryShares
    <3>1. /\ pos[u] + writtenOff[u] >= held[u] + Untold(u)
          /\ ~swept => pos[u] + writtenOff[u] = held[u] + Untold(u)
          /\ pos[u] + writtenOff[u] <= Len(orders) * EntryShares
      BY DEF LegacyInv, SharesWell, SharesAccounted
    <3>2. /\ Len(orders) * EntryShares \in Nat /\ EntryShares \in Nat
          /\ Len(orders') * EntryShares = Len(orders) * EntryShares + EntryShares
      BY <2>4, <2>5, MoreOrders, LegacyBounds DEF LegacyInv
    <3>3. pos[u] \in Nat /\ writtenOff[u] \in Nat /\ held[u] \in Nat
      BY LegacyFacts
    <3>4. Untold(u)' = 0 /\ Untold(u) = 0
      BY <1>1, <1>2, NoExitGood DEF Untold
    <3>5. CASE u = t
      <4>1. pos'[u] = pos[u] + k /\ held'[u] = held[u] + k
        BY <3>5, <2>7
      <4> DEFINE p0 == pos[u]
                 p1 == pos'[u]
                 w == writtenOff[u]
                 h0 == held[u]
                 h1 == held'[u]
                 b0 == Len(orders) * EntryShares
                 b1 == Len(orders') * EntryShares
      <4>2. /\ p0 \in Nat /\ w \in Nat /\ h0 \in Nat /\ b0 \in Nat /\ k \in Nat
            /\ EntryShares \in Nat /\ k <= EntryShares
            /\ p1 = p0 + k /\ h1 = h0 + k /\ b1 = b0 + EntryShares
            /\ p0 + w >= h0 + 0 /\ (~swept => p0 + w = h0 + 0) /\ p0 + w <= b0
        BY <3>1, <3>2, <3>3, <3>4, <4>1, <2>7
      <4> HIDE DEF p0, p1, w, h0, h1, b0, b1
      <4>3. p1 + w >= h1 + 0 /\ (~swept => p1 + w = h1 + 0) /\ p1 + w <= b1
        BY <4>2
      <4> QED
        BY <4>3, <3>4 DEF p1, w, h1, b1
    <3>6. CASE u # t
      <4>1. pos'[u] = pos[u] /\ held'[u] = held[u]
        BY <3>6, <2>7
      <4> QED
        BY <3>1, <3>2, <3>3, <3>4, <4>1
    <3> QED
      BY <3>5, <3>6
  <2>9. SharesWell'
    BY <1>1, <2>7, <2>8, LegacyFacts DEF SharesWell, SharesAccounted
  <2> QED
    BY <1>3, <1>4, <2>4, <2>6, <2>9 DEF LegacyInv
<1> QED
  BY <1>5, <1>6 DEF Evaluate

-----------------------------------------------------------------------------
(* Restarts *)

\* The orders of the launch that ended belong to no one.
LEMMA RestartOrders ==
  ASSUME LegacyInv, Restart
  PROVE  OrdersWell' /\ Len(orders') \in Nat
<1> DEFINE row(i, backed) == IF backed /\ orders[i].row \in Resting
                                  /\ clock - orders[i].made > AgeCutoff
                             THEN "RECONCILED" ELSE orders[i].row
           p(i, backed) == [orders[i] EXCEPT !.state = "FAILED", !.timer = FALSE,
                              !.resting = FALSE, !.frozen = FALSE, !.row = row(i, backed)]
<1>1. /\ Len(orders) \in Nat /\ Len(orders) <= MaxOrders /\ DOMAIN orders = 1..Len(orders)
      /\ launches' = launches + 1 /\ launches < MaxLaunches /\ launches \in 1..MaxLaunches
  BY LegacyFacts, TasksFacts DEF Restart, LegacyInv
<1>2. PICK backed \in BOOLEAN : orders' = [i \in DOMAIN orders |->
         [Gone(orders[i]) EXCEPT !.row =
            IF backed /\ @ \in Resting /\ clock - orders[i].made > AgeCutoff
            THEN "RECONCILED" ELSE @]]
  BY DEF Restart
<1>3. \A i \in 1..Len(orders) : GoodOrder(orders[i], launches) /\ orders[i] \in OrderRecords
  BY DEF LegacyInv, OrdersWell, GoodOrder
<1>4. ASSUME NEW i \in 1..Len(orders)
      PROVE  orders'[i] \in OrderRecords /\ GoodOrder(orders'[i], launches')
  <2> DEFINE o == orders[i]
             q == orders'[i]
             told == row(i, backed)
  <2>1. o \in OrderRecords /\ o.born <= launches
    BY <1>3 DEF GoodOrder
  <2>2. Gone(o).row = o.row
    BY <2>1 DEF Gone, OrderRecords
  <2>3. q = [Gone(o) EXCEPT !.row = told]
    BY <1>1, <1>2, <2>2
  <2>4. told \in OrderStates \cup {"none"}
    BY <2>1 DEF OrderRecords, OrderStates, Ended
  <2> HIDE DEF told, o, q
  <2>5. q = [o EXCEPT !.state = "FAILED", !.timer = FALSE, !.resting = FALSE,
                      !.frozen = FALSE, !.row = told]
    BY <2>3 DEF Gone
  <2>6. "FAILED" \in OrderStates
    BY DEF OrderStates, Ended
  <2>7. q \in OrderRecords /\ ~q.frozen /\ q.born = o.born
    BY <2>1, <2>4, <2>5, <2>6 DEF OrderRecords
  <2>8. q.born <= launches' /\ q.born # launches'
    <3>1. o.born \in 1..MaxLaunches
      BY <2>1 DEF OrderRecords
    <3> QED
      BY <3>1, <2>1, <2>7, <1>1, LegacyBounds
  <2>9. q \in OrderRecords /\ GoodOrder(q, launches')
    BY <2>7, <2>8 DEF GoodOrder
  <2> QED
    BY <2>9 DEF q
<1>5. orders' = [i \in 1..Len(orders) |-> orders'[i]]
  BY <1>1, <1>2
<1>6. orders' \in Seq(OrderRecords) /\ Len(orders') = Len(orders)
  BY <1>1, <1>4, <1>5
<1> QED
  BY <1>1, <1>4, <1>6 DEF OrdersWell

LEMMA RestartSteps ==
  ASSUME LegacyInv, Restart PROVE LegacyInv'
<1>1. /\ launches < MaxLaunches /\ launches' = launches + 1 /\ callbacks' = 0 /\ alarmed' = {}
      /\ turn' = "" /\ UNCHANGED <<clock, commands>>
  BY Zenon DEF Restart
<1>2. /\ ~panic' /\ panic' \in BOOLEAN /\ kill' \in BOOLEAN /\ paused' \in BOOLEAN
      /\ swept' \in BOOLEAN
  BY Zenon DEF Restart
<1>3. /\ sweep' = NoSweep /\ loop' = Idle /\ exits' = [a \in Sellers |-> NoExit]
      /\ stuck' = [t \in Tokens |-> NotStuck]
  BY Zenon DEF Restart
<1>4. held' = [t \in Tokens |-> 0] /\ pos' = held' /\ writtenOff' = held'
  BY Zenon DEF Restart
<1>5. OrdersWell' /\ Len(orders') \in Nat
  BY RestartOrders
<1>6. TasksWell'
  <2>1. /\ launches \in 1..MaxLaunches /\ clock' \in 0..MaxTime /\ commands' \in 0..MaxCommands
    BY <1>1, TasksFacts DEF LegacyInv
  <2>2. launches' \in 1..MaxLaunches
    <3>1. launches < MaxLaunches /\ launches' = launches + 1
      BY <1>1
    <3>2. launches \in Nat /\ MaxLaunches \in Nat /\ launches >= 1
      BY <2>1, LegacyBounds
    <3> QED
      BY <3>1, <3>2
  <2>3. callbacks' \in 0..MaxCallbacks /\ callbacks' < MaxCallbacks
    <3>1. 0 \in 0..MaxCallbacks /\ 0 < MaxCallbacks
      BY LegacyBounds
    <3> QED
      BY <3>1, <1>1, Zenon
  <2>4. sweep' \in [on : BOOLEAN, todo : SUBSET Tokens] /\ turn' \in Sellers \cup {""}
    BY <1>1, <1>3 DEF NoSweep
  <2>5. stuck' \in [Tokens -> 0..MaxTime \cup {NotStuck}] /\ alarmed' \subseteq Tokens
    BY <1>1, <1>3
  <2> QED
    BY <1>2, <2>1, <2>2, <2>3, <2>4, <2>5, Zenon DEF TasksWell
<1>7. GoodExit(NoExit, Len(orders')) /\ NoExit.at = "none" /\ NoExit.filled = 0
  BY <1>5, NoExitGood
<1>8. ExitsWell' /\ exits'["loop"] = NoExit
  BY <1>3, <1>7 DEF ExitsWell, GoodExit, Sellers
<1>9. LoopWell'
  <2>1. 0 \in 0..MaxTime
    BY LegacyBounds
  <2> QED
    BY <2>1, <1>3, <1>7, <1>8, LoopTurns DEF Idle, LoopRecords
<1>10. SharesWell'
  <2>1. \A t \in Tokens : pos'[t] = 0 /\ held'[t] = 0 /\ writtenOff'[t] = 0
    BY <1>4
  <2>2. held' \in [Tokens -> Nat] /\ pos' \in [Tokens -> Nat] /\ writtenOff' \in [Tokens -> Nat]
    BY <1>4
  <2>3. \A t \in Tokens : Untold(t)' = 0
    BY <1>7, <1>8 DEF Untold
  <2>4. Len(orders') * EntryShares \in Nat
    BY <1>5, LegacyBounds
  <2> QED
    BY <2>1, <2>2, <2>3, <2>4 DEF SharesWell, SharesAccounted
<1> QED
  BY <1>5, <1>6, <1>8, <1>9, <1>10 DEF LegacyInv

LEMMA LegacyStutters ==
  ASSUME LegacyInv, UNCHANGED legacyVars PROVE LegacyInv'
<1>1. /\ UNCHANGED <<clock, launches, orders, turn, loop, exits, sweep>>
      /\ UNCHANGED <<held, pos, writtenOff, stuck, alarmed, swept>>
      /\ UNCHANGED <<panic, kill, paused, callbacks, commands>>
  BY DEF legacyVars, memory, control
<1>2. TasksWell'
  BY <1>1 DEF LegacyInv, TasksWell
<1>3. OrdersWell' /\ ExitsWell'
  BY <1>1 DEF LegacyInv, OrdersWell, ExitsWell
<1>4. LoopWell'
  BY <1>1 DEF LegacyInv, LoopWell
<1>5. SharesWell'
  BY <1>1 DEF LegacyInv, SharesWell, SharesAccounted, Untold
<1> QED
  BY <1>2, <1>3, <1>4, <1>5 DEF LegacyInv

\* The portfolio, the client and the order records of the legacy program agree
\* through every interleaving of its loop, its sweep, its timers and its
\* operator, and through restarts, whatever the tokens and the bounds.
THEOREM LegacySoundness == LegacySpec => []LegacySound
<1>1. LegacyInv /\ [LegacyNext]_legacyVars => LegacyInv'
  <2> SUFFICES ASSUME LegacyInv, [LegacyNext]_legacyVars PROVE LegacyInv'
    OBVIOUS
  <2>1. CASE \E i \in DOMAIN orders : TimerFires(i)
    BY <2>1, TimerFiresSteps
  <2>2. CASE Hygiene \/ OnPanic \/ SweepNext \/ SweepExitEnds \/ Command
    BY <2>2, HygieneSteps, OnPanicSteps, SweepNextSteps, SweepExitEndsSteps, CommandSteps
  <2>3. CASE StartCycle \/ ExitDone \/ ExitRaised \/ Scan \/ Evaluate
    BY <2>3, StartCycleSteps, ExitDoneSteps, ExitRaisedSteps, ScanSteps, EvaluateSteps
  <2>4. CASE \E t \in Tokens : NextExit(t)
    BY <2>4, NextExitSteps
  <2>5. CASE \E a \in Sellers : SubmitExit(a) \/ NoBid(a) \/ AfterSubmit(a) \/ Chase(a)
    BY <2>5, SubmitExitSteps, NoBidSteps, AfterSubmitSteps, ChaseSteps
  <2>6. CASE ClockTicks \/ Restart
    BY <2>6, ClockTicksSteps, RestartSteps
  <2>7. CASE UNCHANGED legacyVars
    BY <2>7, LegacyStutters
  <2> QED
    BY <2>1, <2>2, <2>3, <2>4, <2>5, <2>6, <2>7 DEF LegacyNext
<1> QED
  BY <1>1, LegacyStarts, LegacyInvImplies, PTL DEF LegacySpec
=============================================================================
