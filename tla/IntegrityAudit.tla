--------------------------- MODULE IntegrityAudit ---------------------------
(***************************************************************************)
(* The two integrity checks of the Frequency V4 engine (engine.py), which  *)
(* share one worker: the live scan, a bounded pass at a time over units    *)
(* and rows with a cursor that resumes (integrity_check_chunked of         *)
(* store.py), and the full audit of a copy of the database, over launches  *)
(* of the program.                                                         *)
(***************************************************************************)
EXTENDS Integers, Sequences, FiniteSets

CONSTANTS
  NUnits,      \* tables and foreign keys of the plan
  UnitRows,    \* rows of each
  MaxBad,      \* bound on rows that violate a constraint at once
  ScanFaults   \* whether a statement of a pass may raise after others answered

ASSUME AuditAssumption ==
  /\ {NUnits, UnitRows, MaxBad} \subseteq Nat \ {0}
  /\ ScanFaults \in BOOLEAN

VARIABLES
  bad,       \* rows of the live database that violate a constraint
  schemaNew, \* the schema changed since the last pass looked
  cursor,    \* unit_index and after_rowid
  problems,  \* cycle_problems
  pass,      \* the problems of the pass that runs, and its chunks
  lastCycle, \* last_completed_cycle_ok, and if so whether a row stood bad all along
  stood,     \* rows bad ever since the cycle began
  jobs,      \* the worker's queue, its running job first
  running,   \* whether the head of jobs has begun
  liveOk,    \* _last_integrity_ok
  quick,     \* _integrity_inflight, with its job
  audit,     \* where the audit task is
  ready,     \* _full_audit_snapshot_ready
  image,     \* the snapshot file: none, taken by this launch or by an earlier one
  verdict,   \* what the last audit of this launch answered, and about which file
  recent,    \* _full_audit_completed_ms is within the interval
  manifest,  \* the manifest file says so
  lateSweep  \* sweeps given up by the engine that the worker still does

scanVars == <<cursor, problems, pass, lastCycle, stood>>
fullVars == <<ready, image, verdict, recent, manifest>>
auditVars == <<bad, schemaNew, scanVars, jobs, running, liveOk, quick, audit,
               fullVars, lateSweep>>

Rows == (1..NUnits) \X (1..UnitRows)
NoPass == [on |-> FALSE, problems |-> {}, chunks |-> 0]
CycleStart == [unit |-> 1, after |-> 0]
NoCycle == [ok |-> FALSE, left |-> FALSE]
NoVerdict == [answer |-> "none", of |-> "none"]

AuditInit ==
  /\ bad = {} /\ schemaNew = FALSE
  /\ cursor = CycleStart /\ problems = {} /\ pass = NoPass
  /\ lastCycle = NoCycle /\ stood = bad
  /\ jobs = << >> /\ running = FALSE
  /\ liveOk = "unknown" /\ quick = "idle" /\ audit = "load"
  /\ ready = FALSE /\ image = "none" /\ verdict = NoVerdict
  /\ recent = FALSE /\ manifest = FALSE /\ lateSweep = FALSE

-----------------------------------------------------------------------------
(* The live database *)

\* The writer adds a row that violates a constraint, or repairs one
Write ==
  /\ \E r \in Rows :
       \/ r \in bad /\ bad' = bad \ {r}
       \/ Cardinality(bad) < MaxBad /\ bad' = bad \cup {r}
  /\ stood' = stood \cap bad'
  /\ UNCHANGED <<schemaNew, cursor, problems, pass, lastCycle, jobs, running,
                 liveOk, quick, audit, fullVars, lateSweep>>

MigrateSchema ==
  /\ ~schemaNew
  /\ schemaNew' = TRUE
  /\ UNCHANGED <<bad, scanVars, jobs, running, liveOk, quick, audit, fullVars,
                 lateSweep>>

-----------------------------------------------------------------------------
(* The integrity worker: its thread takes one job after the other *)

\* A job is its kind, and whether its client still waits.
Job(kind) == [kind |-> kind, waited |-> TRUE]
HasRoom == Len(jobs) < 2
Enqueue(kind) == jobs' = Append(jobs, Job(kind)) /\ UNCHANGED running

\* Its client leaves a job that is queued or under way
GiveJobUp(kind) ==
  /\ \E i \in DOMAIN jobs : jobs[i] = Job(kind) /\ jobs' = [jobs EXCEPT ![i].waited = FALSE]
  /\ UNCHANGED running

OnThread(kind) == running /\ Head(jobs).kind = kind
JobEnds == jobs' = Tail(jobs) /\ running' = FALSE
Waited == Head(jobs).waited

\* A job nobody waits for is not begun
TakeAuditJob ==
  /\ jobs # << >> /\ ~running
  /\ IF Waited THEN running' = TRUE /\ UNCHANGED jobs ELSE JobEnds
  /\ IF Waited /\ Head(jobs).kind = "quick"
     THEN /\ pass' = [on |-> TRUE, problems |-> IF schemaNew THEN {} ELSE problems,
                      chunks |-> 0]
          /\ IF schemaNew   \* the plan has another signature
             THEN /\ cursor' = CycleStart
                  /\ problems' = {} /\ stood' = bad
             ELSE UNCHANGED <<cursor, problems, stood>>
          /\ schemaNew' = FALSE
     ELSE UNCHANGED <<pass, cursor, problems, stood, schemaNew>>
  /\ UNCHANGED <<bad, lastCycle, liveOk, quick, audit, fullVars, lateSweep>>

-----------------------------------------------------------------------------
(* integrity_check_chunked *)

\* The rows of the window the unit's statement reads
WindowOf(limit) ==
  {<<cursor.unit, r>> : r \in {r \in 1..UnitRows :
     r > cursor.after /\ r <= cursor.after + limit}}

\* One chunk: a window that comes back short ends the unit.  The cursor moves
\* at once; what was found stays with the pass.
ScanChunk ==
  /\ pass.on /\ cursor.unit <= NUnits
  /\ \E limit \in 1..(UnitRows + 1) :
       /\ pass' = [pass EXCEPT !.problems = @ \cup (WindowOf(limit) \cap bad),
                               !.chunks = 1]
       /\ cursor' = IF cursor.after + limit > UnitRows
                    THEN [cursor EXCEPT !.unit = @ + 1, !.after = 0]
                    ELSE [cursor EXCEPT !.after = @ + limit]
  /\ UNCHANGED <<bad, schemaNew, problems, lastCycle, stood, jobs, running, liveOk,
                 quick, audit, fullVars, lateSweep>>

\* A statement given up at its time budget moves nothing and uses up the pass
AbandonChunk ==
  /\ pass.on /\ cursor.unit <= NUnits /\ pass.chunks = 0
  /\ pass' = [pass EXCEPT !.chunks = 1]
  /\ UNCHANGED <<bad, schemaNew, cursor, problems, lastCycle, stood, jobs, running,
                 liveOk, quick, audit, fullVars, lateSweep>>

\* The client's side of _run_integrity_check, once the pass answered
QuickAnswered(ok) ==
  IF Waited THEN liveOk' = ok /\ quick' = "idle" ELSE UNCHANGED <<liveOk, quick>>

\* The budget is spent, or the cycle is over: then its verdict is stored and
\* the next cycle starts clean.
EndPass ==
  /\ pass.on /\ (pass.chunks > 0 \/ cursor.unit > NUnits)
  /\ IF cursor.unit > NUnits
     THEN /\ cursor' = CycleStart
          /\ LET ok == pass.problems = {}
             IN lastCycle' = [ok |-> ok, left |-> ok /\ stood # {}]
          /\ problems' = {} /\ stood' = bad
     ELSE problems' = pass.problems /\ UNCHANGED <<cursor, lastCycle, stood>>
  /\ QuickAnswered(IF pass.problems = {} THEN "ok" ELSE "bad")
  /\ pass' = NoPass /\ JobEnds
  /\ UNCHANGED <<bad, schemaNew, audit, fullVars, lateSweep>>

\* A statement raises: the pass's own list of problems is gone with it
PassRaises ==
  /\ pass.on /\ cursor.unit <= NUnits
  /\ ScanFaults \/ pass.chunks = 0
  /\ QuickAnswered("unknown")
  /\ pass' = NoPass /\ JobEnds
  /\ UNCHANGED <<bad, schemaNew, cursor, problems, lastCycle, stood, audit,
                 fullVars, lateSweep>>

-----------------------------------------------------------------------------
(* _run_integrity_check: not beside the full audit, nor beside itself *)

AuditInFlight == audit \in {"copying", "auditing"}

StartQuick ==
  /\ quick = "idle" /\ ~AuditInFlight
  /\ IF HasRoom THEN Enqueue("quick") /\ quick' = "waiting" /\ UNCHANGED liveOk
     ELSE liveOk' = "unknown" /\ UNCHANGED <<jobs, running, quick>>
  /\ UNCHANGED <<bad, schemaNew, scanVars, audit, fullVars, lateSweep>>

QuickTimesOut ==
  /\ GiveJobUp("quick")
  /\ quick' = "idle" /\ liveOk' = "unknown"
  /\ UNCHANGED <<bad, schemaNew, scanVars, audit, fullVars, lateSweep>>

-----------------------------------------------------------------------------
(* The full audit *)

ScanKept == UNCHANGED <<bad, schemaNew, scanVars, liveOk, quick>>

\* _load_audit_manifest.  An unreadable one counts as none.
LoadManifest ==
  /\ audit = "load"
  /\ recent' \in {manifest, FALSE} /\ audit' = "sweep"
  /\ UNCHANGED <<ready, image, verdict, manifest, jobs, running, lateSweep>>
  /\ ScanKept

\* Seeded fault: an image that is on disk is ready to be audited.
SweepTrusting ==
  /\ audit = "sweep"
  /\ image' \in {"none", image} /\ UNCHANGED lateSweep
  /\ ready' = (image' # "none")
  /\ audit' = "wait"
  /\ UNCHANGED <<verdict, recent, manifest, jobs, running>>
  /\ ScanKept

\* The files of an earlier launch, or of the audit just over, are removed.  A
\* file may stay, and a sweep the engine gave up may come later.
Sweep ==
  /\ audit = "sweep"
  /\ \/ image' \in {"none", image} /\ UNCHANGED lateSweep
     \/ lateSweep' = TRUE /\ UNCHANGED image
  /\ ready' = FALSE /\ audit' = "wait"
  /\ UNCHANGED <<verdict, recent, manifest, jobs, running>>
  /\ ScanKept

LateSweep ==
  /\ lateSweep /\ lateSweep' = FALSE /\ image' = "none"
  /\ UNCHANGED <<ready, verdict, recent, manifest, jobs, running, audit>>
  /\ ScanKept

\* _run_full_audit_snapshot, at startup or in the loop, when an audit is due
StartSnapshot ==
  /\ audit = "wait" /\ ~ready /\ quick = "idle" /\ ~recent
  /\ HasRoom /\ Enqueue("snapshot") /\ audit' = "copying"
  /\ UNCHANGED <<fullVars, lateSweep>>
  /\ ScanKept

\* snapshot_backup first removes what lies at the destination, and a copy that
\* does not complete leaves nothing.
CopyImage ==
  /\ OnThread("snapshot")
  /\ image' \in {"none", "this"}
  /\ IF Waited THEN ready' = (image' = "this") /\ audit' = "wait"
     ELSE UNCHANGED <<ready, audit>>
  /\ JobEnds
  /\ UNCHANGED <<verdict, recent, manifest, lateSweep>>
  /\ ScanKept

SnapshotTimesOut ==
  /\ GiveJobUp("snapshot")
  /\ ready' = FALSE /\ audit' = "wait"
  /\ UNCHANGED <<image, verdict, recent, manifest, lateSweep>>
  /\ ScanKept

\* _run_full_audit_verdict.  A submission that is refused keeps the image.
StartVerdict ==
  /\ audit = "wait" /\ ready /\ quick = "idle"
  /\ HasRoom /\ Enqueue("verdict") /\ audit' = "auditing"
  /\ UNCHANGED <<fullVars, lateSweep>>
  /\ ScanKept

\* audit_snapshot_database: the file is missing, cannot be read, or is checked.
\* Whatever it answers counts as completed.
AuditImage ==
  /\ OnThread("verdict")
  /\ IF Waited
     THEN /\ \E answer \in IF image = "none" THEN {"UNAVAILABLE"}
                           ELSE {"FAILED", "COMPLETED_OK", "COMPLETED_FAILED"} :
               verdict' = [answer |-> answer, of |-> image]
          /\ recent' = TRUE /\ audit' = "publish"
     ELSE UNCHANGED <<verdict, recent, audit>>
  /\ JobEnds
  /\ UNCHANGED <<ready, image, manifest, lateSweep>>
  /\ ScanKept

VerdictTimesOut ==
  /\ GiveJobUp("verdict")
  /\ verdict' = [answer |-> "FAILED", of |-> "none"] /\ audit' = "publish"
  /\ UNCHANGED <<ready, image, recent, manifest, lateSweep>>
  /\ ScanKept

\* _publish_audit_manifest may fail; the sweep follows
PublishManifest ==
  /\ audit = "publish"
  /\ ready' = FALSE /\ manifest' \in {recent, manifest} /\ audit' = "sweep"
  /\ UNCHANGED <<image, verdict, recent, jobs, running, lateSweep>>
  /\ ScanKept

\* full_integrity_audit_interval_ms passes
IntervalPasses ==
  /\ recent \/ manifest
  /\ recent' = FALSE /\ manifest' = FALSE
  /\ UNCHANGED <<ready, image, verdict, jobs, running, audit, lateSweep>>
  /\ ScanKept

\* The process ends, in order or not, and the program is launched again
Relaunch ==
  /\ cursor' = CycleStart /\ problems' = {} /\ pass' = NoPass
  /\ lastCycle' = NoCycle /\ stood' = bad /\ schemaNew' = FALSE
  /\ jobs' = << >> /\ running' = FALSE
  /\ liveOk' = "unknown" /\ quick' = "idle" /\ audit' = "load" /\ lateSweep' = FALSE
  /\ ready' = FALSE /\ verdict' = NoVerdict /\ recent' = FALSE
  /\ image' \in {"none", IF image = "this" THEN "earlier" ELSE image}
  /\ UNCHANGED <<bad, manifest>>

AuditNext ==
  \/ Write \/ MigrateSchema \/ TakeAuditJob
  \/ ScanChunk \/ AbandonChunk \/ EndPass \/ PassRaises
  \/ StartQuick \/ QuickTimesOut
  \/ LoadManifest \/ Sweep \/ LateSweep \/ StartSnapshot \/ CopyImage
  \/ SnapshotTimesOut \/ StartVerdict \/ AuditImage \/ VerdictTimesOut
  \/ PublishManifest \/ IntervalPasses \/ Relaunch

AuditSpec == AuditInit /\ [][AuditNext]_auditVars

-----------------------------------------------------------------------------
(* Properties *)

\* "a completed cycle publishes its verdict" (integrity_check_chunked): a cycle that
\* ends with no problem leaves no row that violated its constraint all along, however
\* many passes, abandoned statements and given-up clients it was made of.
CycleComplete == lastCycle.ok => ~lastCycle.left

\* A verdict of a launch is about a copy this launch took, never about an image an
\* earlier one left behind (_maybe_snapshot_for_full_audit).
VerdictOfLaunch ==
  verdict.answer \in {"COMPLETED_OK", "COMPLETED_FAILED"} => verdict.of = "this"

\* Neither check certifies what it did not look at.
AuditSound == CycleComplete /\ VerdictOfLaunch

\* "written only when a real verdict exists" (_publish_audit_manifest).
CadenceByVerdict ==
  recent => verdict.answer \in {"none", "COMPLETED_OK", "COMPLETED_FAILED"}
=============================================================================
