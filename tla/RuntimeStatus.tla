--------------------------- MODULE RuntimeStatus ---------------------------
(***************************************************************************)
(* What a runtime says of itself (src/lite_frequency_v4/engine.py): the    *)
(* guard of new entries and the state name derived from it, the heartbeat  *)
(* that publishes the state file through the runtime I/O worker, the       *)
(* dashboard export that shows the last published state, and the lifetime  *)
(* counters a restart takes over from the two files.  One counter stands   *)
(* for all of them: critical evidence lost, which every path keeps.        *)
(***************************************************************************)
EXTENDS Integers, Sequences, FiniteSetsExt

CONSTANTS
  RecoveryPublishes,  \* REPORTING_EXPORT_RECOVERY_PUBLISHES
  TroubleSets,        \* what may hold of the runtime at a heartbeat
  MaxLost,            \* bound: rows ever lost
  MaxRuns,            \* bound: launches
  MaxFailures         \* bound: publishes and exports that time out in a launch

VARIABLES
  life,         \* "down", "up", "stopping"
  runs,
  baseline,     \* _telemetry_lifetime_baseline
  lostRows,     \* _critical_evidence_lost_rows
  everLost,     \* rows lost by all launches: history
  shown,        \* _last_published_state, None before the first
  io, reports,  \* payloads the two workers still have to write
  awaited,      \* the heartbeat awaits the last job of io
  publishOk, degraded, recovered,   \* _last_export_publish_ok, ..._since_ms, ...
  goodSince,    \* publishes that succeeded since the last that failed: history
  failures,
  stateFile, exportFile

statusVars == <<life, runs, baseline, lostRows, everLost, shown, io,
  reports, awaited, publishOk, degraded, recovered, goodSince, failures,
  stateFile, exportFile>>

\* A payload as far as the properties tell payloads apart
None == [lost |-> 0, running |-> FALSE, blocked |-> TRUE, degraded |-> FALSE,
         owed |-> FALSE, calm |-> FALSE, ready |-> FALSE]

-----------------------------------------------------------------------------
(* The guard and the state name *)

\* _execution_blocked_reason asks these in order.  Ownership is refused for
\* the first three, until a probe has succeeded also for the first; a worker
\* is asked in its turn, and the integrity worker only where there is one.
Asked == <<
  "critical_writer_not_started", "critical_process_ownership_unverified",
  "critical_orphan_process_detected", "critical_process_count_mismatch",
  "critical_writer_unhealthy", "critical_command_failed",
  "critical_command_unconfirmed", "critical_unfinished_maker_evidence",
  "critical_writer_heartbeat_stale",
  "operational_read_worker_not_started", "operational_read_worker_unhealthy",
  "reporting_read_worker_not_started", "reporting_read_worker_unhealthy",
  "integrity_read_worker_unhealthy",
  "sqlite_integrity_unknown", "sqlite_integrity_degraded",
  "sqlite_integrity_stale", "event_loop_lag_degraded">>
Reasons == {Asked[i] : i \in DOMAIN Asked}
Critical == {Asked[i] : i \in 1..9}

\* What only the state name asks about: the sockets and the freshness of prices
Feeds == {"okx_disconnected", "no_fresh_asset", "some_asset_stale",
          "polymarket_disconnected"}

ASSUME StatusAssumption ==
  /\ RecoveryPublishes \in Nat \ {0}
  /\ {MaxLost, MaxRuns, MaxFailures} \subseteq Nat
  /\ TroubleSets \subseteq SUBSET (Reasons \cup Feeds)

BlockedReason(t) ==
  LET holding == {i \in DOMAIN Asked : Asked[i] \in t}
  IN  IF holding = {} THEN "" ELSE Asked[Min(holding)]

\* The reasons _runtime_state_name counts as integrity
Integrity == {
  "sqlite_integrity_unknown", "sqlite_integrity_degraded",
  "sqlite_integrity_stale", "reporting_read_worker_not_started",
  "reporting_read_worker_unhealthy", "operational_read_worker_not_started",
  "operational_read_worker_unhealthy", "integrity_read_worker_unhealthy"}

\* Seeded fault: the list of integrity reasons misses one of the workers.
StateNameForgetful(t) ==
  LET blocked == BlockedReason(t)
  IN  CASE blocked \in Integrity \ {"operational_read_worker_unhealthy"} ->
             "DEGRADED_INTEGRITY"
        [] blocked \in Critical -> "DEGRADED_PERSISTENCE"
        [] blocked = "event_loop_lag_degraded" -> "DEGRADED_EVENT_LOOP_LAG"
        [] OTHER -> "RUNNING"

\* _runtime_state_name
StateName(t) ==
  LET blocked == BlockedReason(t)
  IN  CASE blocked \in Integrity -> "DEGRADED_INTEGRITY"
        [] blocked \in Critical -> "DEGRADED_PERSISTENCE"
        [] blocked = "event_loop_lag_degraded" -> "DEGRADED_EVENT_LOOP_LAG"
        [] OTHER ->
             CASE t \cap {"okx_disconnected", "no_fresh_asset"} # {} ->
                    "DEGRADED_NO_FRESH_CEX"
               [] "some_asset_stale" \in t -> "DEGRADED_PARTIAL_CEX"
               [] "polymarket_disconnected" \in t ->
                    "DEGRADED_POLYMARKET_DISCONNECTED"
               [] OTHER -> "RUNNING"

-----------------------------------------------------------------------------
(* Publishing *)

\* A degradation is owed to the reader until enough publishes succeeded in a row.
Owed == goodSince < RecoveryPublishes

\* _runtime_state: lifetime counters are the baseline and what came since.
RuntimeState(name, t) ==
  [lost |-> baseline + lostRows, running |-> name = "RUNNING",
   blocked |-> BlockedReason(t) # "", degraded |-> degraded, owed |-> Owed,
   calm |-> name = "RUNNING" /\ t = {}, ready |-> FALSE]

\* operational_ready of the export, where all else it asks for holds: nothing
\* blocks entries, and no publish is owed.
Exported(state) == [state EXCEPT !.ready = ~state.blocked /\ ~state.degraded]

\* _publish_runtime_state on success
Published(payload) ==
  /\ shown' = payload
  /\ publishOk' = TRUE
  /\ goodSince' = Min({goodSince + 1, RecoveryPublishes})
  /\ IF degraded
     THEN /\ degraded' = (recovered + 1 < RecoveryPublishes)
          /\ recovered' = (recovered + 1) % RecoveryPublishes
     ELSE UNCHANGED <<degraded, recovered>>

\* _publish_runtime_state on a transient failure of the worker
NotPublished ==
  /\ failures < MaxFailures /\ failures' = failures + 1
  /\ publishOk' = FALSE /\ degraded' = TRUE /\ recovered' = 0 /\ goodSince' = 0
  /\ UNCHANGED shown

StatusInit ==
  /\ life = "down" /\ runs = 0
  /\ baseline = 0 /\ lostRows = 0 /\ everLost = 0
  /\ shown = None /\ io = <<>> /\ reports = <<>> /\ awaited = FALSE
  /\ publishOk = TRUE /\ degraded = FALSE /\ recovered = 0
  /\ goodSince = RecoveryPublishes /\ failures = 0
  /\ stateFile = None /\ exportFile = None

counterVars == <<baseline, lostRows, everLost>>
publishVars == <<shown, publishOk, degraded, recovered, goodSince, failures>>

\* Seeded fault: the counters of the two files are added up.
TakenOverTwice == stateFile.lost + exportFile.lost

\* _load_telemetry_lifetime_baseline: the larger of what the two files show
TakenOver == Max({stateFile.lost, exportFile.lost})

\* Construction, the first probe and integrity check, and the STARTING publish,
\* which a start that goes on has seen written.  verify_process_ownership lets
\* none begin while the process before is there, be it only to end its writes.
Launch ==
  /\ life = "down" /\ io = <<>> /\ reports = <<>>
  /\ runs < MaxRuns /\ runs' = runs + 1 /\ life' = "up"
  /\ baseline' = TakenOver /\ lostRows' = 0
  /\ publishOk' = TRUE /\ degraded' = FALSE /\ recovered' = 0
  /\ goodSince' = RecoveryPublishes /\ failures' = 0
  /\ LET starting == [None EXCEPT !.lost = TakenOver]
     IN  stateFile' = starting /\ shown' = starting
  /\ UNCHANGED <<everLost, io, reports, awaited, exportFile>>

\* _observe_late_critical_completion, and the other paths that lose a row
RowLost ==
  /\ life # "down" /\ everLost < MaxLost
  /\ lostRows' = lostRows + 1 /\ everLost' = everLost + 1
  /\ UNCHANGED <<life, runs, baseline, publishVars, io, reports,
                 awaited, stateFile, exportFile>>

\* _heartbeat_export_loop: the payload is taken, then its job is awaited.  A
\* failed probe of the ownership is one of the troubles.
Heartbeat ==
  /\ life = "up" /\ ~awaited
  /\ \E t \in TroubleSets : io' = Append(io, RuntimeState(StateName(t), t))
  /\ awaited' = TRUE
  /\ UNCHANGED <<life, runs, counterVars, publishVars, reports,
                 stateFile, exportFile>>

\* The worker writes its jobs in order, those given up on included.
StateWritten ==
  /\ io # <<>> /\ io' = Tail(io)
  /\ stateFile' = Head(io)
  /\ IF awaited /\ Len(io) = 1
     THEN /\ awaited' = FALSE /\ Published(Head(io)) /\ UNCHANGED failures
     ELSE UNCHANGED <<awaited, publishVars>>
  /\ UNCHANGED <<life, runs, counterVars, reports, exportFile>>

\* The heartbeat is refused a place in the queue, or times out: its job is
\* dropped, or written later all the same.
PublishFails ==
  /\ awaited /\ awaited' = FALSE /\ NotPublished
  /\ io' \in {io, SubSeq(io, 1, Len(io) - 1)}
  /\ UNCHANGED <<life, runs, counterVars, reports, stateFile,
                 exportFile>>

\* _run_dashboard_export: the last published state with the degradation of now.
\* One export is under way at a time; one given up on is written all the same.
Export ==
  /\ life = "up" /\ reports = <<>>
  /\ LET state == [shown EXCEPT !.degraded = degraded, !.owed = Owed]
     IN  reports' = Append(reports, Exported(state))
  /\ UNCHANGED <<life, runs, counterVars, publishVars, io, awaited,
                 stateFile, exportFile>>

ExportWritten ==
  /\ reports # <<>> /\ reports' = Tail(reports)
  /\ exportFile' = Head(reports)
  /\ UNCHANGED <<life, runs, counterVars, publishVars, io, awaited,
                 stateFile>>

\* stop: STOPPING is published without becoming the last published state, then
\* the last export and STOPPED; each may fail.
Stop ==
  /\ life = "up" /\ life' = "stopping" /\ awaited' = FALSE
  /\ \E here, there \in BOOLEAN :
       LET stopped == RuntimeState("STOPPED", {})
       IN  /\ io' = io \o (IF here THEN <<RuntimeState("STOPPING", {})>> ELSE <<>>)
                       \o (IF there THEN <<stopped>> ELSE <<>>)
           /\ reports' \in {reports, Append(reports, Exported(stopped))}
  /\ UNCHANGED <<runs, counterVars, publishVars, stateFile, exportFile>>

\* bot._main takes the final state once more, STOPPED or FAILED, or what can be
\* told of it, and release writes it.  stop gives up on a worker that does not
\* end in time, and the process waits for the worker's thread all the same: what
\* is still to be written is written after.
Release ==
  /\ life = "stopping" /\ life' = "down"
  /\ stateFile' = RuntimeState("STOPPED", {})
  /\ UNCHANGED <<runs, counterVars, publishVars, io, reports, awaited,
                 exportFile>>

\* The process ends with whatever was still to be written.
Crash ==
  /\ life # "down" \/ io # <<>> \/ reports # <<>>
  /\ life' = "down"
  /\ io' = <<>> /\ reports' = <<>> /\ awaited' = FALSE
  /\ UNCHANGED <<runs, counterVars, publishVars, stateFile, exportFile>>

StatusNext ==
  \/ Launch \/ RowLost
  \/ Heartbeat \/ StateWritten \/ PublishFails \/ Export \/ ExportWritten
  \/ Stop \/ Release \/ Crash

StatusSpec == StatusInit /\ [][StatusNext]_statusVars

-----------------------------------------------------------------------------
(* Properties *)

\* "a connected-but-unsafe runtime can never read healthy" (_runtime_state_name):
\* a file says RUNNING only of a runtime that nothing was wrong with when the
\* payload was taken, least of all what closes the guard of new entries.
NameTruthful ==
  /\ \A file \in {stateFile, exportFile} : file.running => file.calm
  /\ exportFile.ready => ~exportFile.blocked

\* No restart counts a lost row twice, although two files show it and either may
\* be the older one; no launch shows more than was lost.
NeverTwice ==
  /\ baseline + lostRows <= everLost
  /\ stateFile.lost <= everLost /\ exportFile.lost <= everLost

\* Neither file shows a publish that failed as repaired before enough publishes
\* in a row succeeded, and no export hides one the export loop knew of.
DegradationShown ==
  /\ \A file \in {stateFile, exportFile} : file.owed => file.degraded /\ ~file.ready
  /\ ~publishOk => degraded

StatusSound == NameTruthful /\ NeverTwice /\ DegradationShown

\* What a file shows as lost never shrinks, over failed publishes, late writes,
\* stops and crashes, but where a publish outlives the stop: written over the
\* final state, it still shows all that the heartbeat had published last.
LossNeverForgotten ==
  [][/\ exportFile'.lost >= exportFile.lost
     /\ \/ stateFile'.lost >= stateFile.lost
        \/ life = "down" /\ stateFile'.lost >= shown.lost]_statusVars
=============================================================================
