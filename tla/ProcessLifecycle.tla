------------------------- MODULE ProcessLifecycle -------------------------
(***************************************************************************)
(* Launches of the Frequency V4 process, one after the other or at once:   *)
(* the OS guard, the lock, state and stop files of V4RuntimeFiles          *)
(* (src/lite_frequency_v4/runtime.py), the entry point (bot.py), start and *)
(* stop of the engine (engine.py), and what a start settles for the        *)
(* launches that are gone (reconcile_startup_state of store.py).           *)
(*                                                                         *)
(* A launch stands for its nonce, its creation time and its session.       *)
(***************************************************************************)
EXTENDS Integers

CONSTANTS
  MaxProcs,  \* bound on launches
  Pids       \* process ids the system hands out, and hands out again

ASSUME ProcessAssumption == MaxProcs \in Nat \ {0} /\ Pids # {}

\* Launches, numbered in the order they begin
Procs == 1..MaxProcs

VARIABLES
  phase,      \* where each launch is
  pidOf,      \* its pid
  foreign,    \* pids that processes of other programs have
  guard,      \* the launch that holds the OS guard
  lockFile, stateFile, stopFile,
  proven,     \* proven_absent_launch_nonces of each launch
  session,    \* runtime_sessions: none, open, ended
  terminal,   \* how the terminal command of each launch ended
  maker,      \* the maker observation of each launch: none, unfinished, finished
  sent        \* its command waits in the writer's queue

processVars == <<phase, pidOf, foreign, guard, lockFile, stateFile, stopFile,
                 proven, session, terminal, maker, sent>>
fileVars == <<lockFile, stateFile, stopFile>>
tableVars == <<session, terminal, maker, sent>>

NoLaunch == 0
Unwritten == -1     \* the lock file between its creation and its first write

Gone == {k \in Procs : phase[k] \in {"left", "dead"}}
Live == {k \in Procs : phase[k] # "unborn"} \ Gone
\* The phases in which a launch has a lock file of its own
Owning == {"owned", "verified", "started", "recorded", "running", "draining",
           "ended", "releasing", "unlocking"}
Writing == {"started", "recorded", "running", "draining", "ended"}

ProcessInit ==
  /\ phase = [k \in Procs |-> "unborn"]
  /\ pidOf \in [Procs -> {CHOOSE p \in Pids : TRUE}]
  /\ foreign = {} /\ guard = NoLaunch
  /\ lockFile = NoLaunch /\ stopFile = NoLaunch
  /\ stateFile = [launch |-> NoLaunch, running |-> FALSE]
  /\ proven = [k \in Procs |-> {}]
  /\ session = [k \in Procs |-> "none"] /\ terminal = [k \in Procs |-> "none"]
  /\ maker = [k \in Procs |-> "none"] /\ sent = [k \in Procs |-> FALSE]

Goto(l, to) == phase' = [phase EXCEPT ![l] = to]

-----------------------------------------------------------------------------
(* V4RuntimeFiles.acquire *)

\* pid_alive
PidTaken(pid) == pid \in foreign \/ \E k \in Live : pidOf[k] = pid

\* The pid a file records is gone, or another creation time has it now.  The
\* creation time of its process may be unreadable, then or now.
Absent(k, readable) ==
  \/ ~PidTaken(pidOf[k])
  \/ readable /\ k \notin Live

\* A process of the program begins, on a pid that is free
Begin(l) ==
  /\ phase[l] = "unborn"
  /\ \A k \in Procs : k < l => phase[k] # "unborn"
  /\ \E pid \in Pids : ~PidTaken(pid) /\ pidOf' = [pidOf EXCEPT ![l] = pid]
  /\ Goto(l, "begun")
  /\ UNCHANGED <<foreign, guard, fileVars, proven, tableVars>>

\* The guard is not waited for
AcquireGuard(l) ==
  /\ phase[l] = "begun"
  /\ IF guard = NoLaunch
     THEN guard' = l /\ Goto(l, "guarded")
     ELSE Goto(l, "dead") /\ UNCHANGED guard
  /\ UNCHANGED <<pidOf, foreign, fileVars, proven, tableVars>>

Refuse(l) ==
  /\ Goto(l, "dead") /\ guard' = NoLaunch
  /\ proven' = [proven EXCEPT ![l] = {}]

\* A lock file of a launch that is gone is removed, and proves it absent
CheckLock(l) ==
  /\ phase[l] = "guarded"
  /\ \/ /\ lockFile \in Procs
        /\ \E readable \in BOOLEAN :
             IF Absent(lockFile, readable)
             THEN /\ proven' = [proven EXCEPT ![l] = {lockFile}]
                  /\ lockFile' = NoLaunch /\ Goto(l, "checked") /\ UNCHANGED guard
             ELSE Refuse(l) /\ UNCHANGED lockFile
     \/ /\ lockFile \notin Procs
        /\ lockFile' = NoLaunch /\ Goto(l, "checked")
        /\ UNCHANGED <<proven, guard>>
  /\ UNCHANGED <<pidOf, foreign, stateFile, stopFile, tableVars>>

\* Seeded fault: the final state is believed without a look at the process.
CheckStateTrusting(l) ==
  /\ phase[l] = "checked"
  /\ proven' = [proven EXCEPT ![l] = @ \cup
       ({stateFile.launch} \cap {k \in Procs : ~stateFile.running})]
  /\ stopFile' = NoLaunch /\ lockFile' = Unwritten
  /\ Goto(l, "locking")
  /\ UNCHANGED <<pidOf, foreign, guard, stateFile, tableVars>>

\* The final state of an orderly stop proves as much.  A stop request still
\* lying there is dropped, and the lock file is created.
CheckState(l) ==
  /\ phase[l] = "checked"
  /\ \E readable \in BOOLEAN :
       LET k == stateFile.launch
       IN  proven' = [proven EXCEPT ![l] = @ \cup
             {j \in {k} \cap Procs : ~stateFile.running /\ Absent(j, readable)}]
  /\ stopFile' = NoLaunch /\ lockFile' = Unwritten
  /\ Goto(l, "locking")
  /\ UNCHANGED <<pidOf, foreign, guard, stateFile, tableVars>>

WriteLock(l) ==
  /\ phase[l] = "locking"
  /\ lockFile' = l
  /\ Goto(l, "owned")
  /\ UNCHANGED <<pidOf, foreign, guard, stateFile, stopFile, proven, tableVars>>

\* verify_process_ownership: a process of the program outside the ownership
\* tree is an orphan, also one that is about to be refused.  A process the
\* scan may not inspect is not seen.
Verify(l) ==
  /\ phase[l] = "owned"
  /\ \E seen \in SUBSET (Live \ {l}) :
       Goto(l, IF seen = {} THEN "verified" ELSE "unlocking")
  /\ UNCHANGED <<pidOf, foreign, guard, fileVars, proven, tableVars>>

-----------------------------------------------------------------------------
(* FrequencyV4Engine.start and the run *)

\* reconcile_startup_state as to maker observations: one of a session that
\* ended, or of a launch proven absent, is finished as abandoned.
Reconciled(l) ==
  [k \in Procs |-> IF maker[k] = "unfinished" /\ (session[k] = "ended" \/ k \in proven[l])
                   THEN "finished" ELSE maker[k]]

\* The writer starts, or fails and then takes no terminal command either.  What
\* fails in a start is stopped by the entry point.
StartEngine(l) ==
  /\ phase[l] = "verified"
  /\ \/ maker' = Reconciled(l) /\ Goto(l, "started") /\ UNCHANGED terminal
     \/ /\ UNCHANGED maker /\ Goto(l, "releasing")
        /\ terminal' = [terminal EXCEPT ![l] = "failed"]
  /\ UNCHANGED <<pidOf, foreign, guard, fileVars, proven, session, sent>>

\* _record_session
RecordSession(l) ==
  /\ phase[l] = "started"
  /\ \/ session' = [session EXCEPT ![l] = "open"] /\ Goto(l, "recorded")
     \/ UNCHANGED session /\ Goto(l, "draining")
  /\ UNCHANGED <<pidOf, foreign, guard, fileVars, proven, terminal, maker, sent>>

Publish(l, running) == stateFile' = [launch |-> l, running |-> running]

PublishStarting(l) ==
  /\ phase[l] = "recorded"
  /\ \/ Publish(l, TRUE) /\ Goto(l, "running")
     \/ UNCHANGED stateFile /\ Goto(l, "draining")
  /\ UNCHANGED <<pidOf, foreign, guard, lockFile, stopFile, proven, tableVars>>

\* The evaluation sends the command that opens a maker observation, or the one
\* that finishes it.
SendMaker(l) ==
  /\ phase[l] = "running" /\ maker[l] # "finished" /\ ~sent[l]
  /\ sent' = [sent EXCEPT ![l] = TRUE]
  /\ UNCHANGED <<phase, pidOf, foreign, guard, fileVars, proven, session,
                 terminal, maker>>

\* A command stays in the queue when the task that sent it is cancelled, so it
\* may commit after the terminal command, which is more urgent.
CommitMaker(l) ==
  /\ phase[l] \in Writing \cup {"releasing"} /\ sent[l]
  /\ maker' = [maker EXCEPT ![l] = IF @ = "none" THEN "unfinished" ELSE "finished"]
  /\ sent' = [sent EXCEPT ![l] = FALSE]
  /\ UNCHANGED <<phase, pidOf, foreign, guard, fileVars, proven, session, terminal>>

\* The operator addresses the launch the state file shows running
RequestStop ==
  /\ stateFile.running /\ stopFile # stateFile.launch
  /\ stopFile' = stateFile.launch
  /\ UNCHANGED <<phase, pidOf, foreign, guard, lockFile, stateFile, proven, tableVars>>

-----------------------------------------------------------------------------
(* FrequencyV4Engine.stop and V4RuntimeFiles.release *)

\* A stop request, a signal or a critical task that failed.  The stopping
\* state is published if it can be.
BeginStop(l) ==
  /\ phase[l] = "running"
  /\ Goto(l, "draining")
  /\ Publish(l, TRUE) \/ UNCHANGED stateFile
  /\ UNCHANGED <<pidOf, foreign, guard, lockFile, stopFile, proven, tableVars>>

\* run_until_stopped polls the stop file
StopSeen(l) == phase[l] = "running" /\ stopFile = l /\ BeginStop(l)

\* Producers, tasks, maintenance and telemetry are stopped first.  Whatever of
\* it fails is remembered and raised after the terminal command, which itself
\* may fail and then ends the sequence.
EndSession(l) ==
  /\ phase[l] = "draining"
  /\ \/ /\ session' = [session EXCEPT ![l] = IF @ = "open" THEN "ended" ELSE @]
        /\ terminal' = [terminal EXCEPT ![l] = "done"] /\ Goto(l, "ended")
     \/ /\ UNCHANGED session
        /\ terminal' = [terminal EXCEPT ![l] = "failed"] /\ Goto(l, "releasing")
  /\ UNCHANGED <<pidOf, foreign, guard, fileVars, proven, maker, sent>>

PublishStopped(l) ==
  /\ phase[l] = "ended"
  /\ Publish(l, TRUE) \/ UNCHANGED stateFile
  /\ Goto(l, "releasing")
  /\ UNCHANGED <<pidOf, foreign, guard, lockFile, stopFile, proven, tableVars>>

\* release writes the final state, if it can
WriteFinal(l) ==
  /\ phase[l] = "releasing"
  /\ Publish(l, FALSE) \/ UNCHANGED stateFile
  /\ Goto(l, "unlocking")
  /\ UNCHANGED <<pidOf, foreign, guard, lockFile, stopFile, proven, tableVars>>

UnlinkLock(l) ==
  /\ phase[l] = "unlocking"
  /\ lockFile' = IF lockFile = l THEN NoLaunch ELSE lockFile
  /\ Goto(l, "clearing")
  /\ UNCHANGED <<pidOf, foreign, guard, stateFile, stopFile, proven, tableVars>>

Leave(l) ==
  /\ phase[l] = "clearing"
  /\ stopFile' = IF stopFile = l THEN NoLaunch ELSE stopFile
  /\ guard' = IF guard = l THEN NoLaunch ELSE guard
  /\ Goto(l, "exiting")
  /\ UNCHANGED <<pidOf, foreign, lockFile, stateFile, proven, tableVars>>

Exit(l) ==
  /\ phase[l] = "exiting"
  /\ Goto(l, "left")
  /\ UNCHANGED <<pidOf, foreign, guard, fileVars, proven, tableVars>>

\* The process dies where it is; the system releases its guard.
Kill(l) ==
  /\ l \in Live
  /\ Goto(l, "dead")
  /\ guard' = IF guard = l THEN NoLaunch ELSE guard
  /\ UNCHANGED <<pidOf, foreign, fileVars, proven, tableVars>>

\* Other programs come and go on the pids
Foreigner ==
  /\ \E pid \in Pids :
       \/ ~PidTaken(pid) /\ foreign' = foreign \cup {pid}
       \/ pid \in foreign /\ foreign' = foreign \ {pid}
  /\ UNCHANGED <<phase, pidOf, guard, fileVars, proven, tableVars>>

Step(l) ==
  \/ AcquireGuard(l) \/ CheckLock(l) \/ CheckState(l) \/ WriteLock(l) \/ Verify(l)
  \/ StartEngine(l) \/ RecordSession(l) \/ PublishStarting(l)
  \/ StopSeen(l) \/ EndSession(l) \/ PublishStopped(l)
  \/ WriteFinal(l) \/ UnlinkLock(l) \/ Leave(l) \/ Exit(l)

ProcessNext ==
  \/ \E l \in Procs : Begin(l) \/ Step(l) \/ SendMaker(l) \/ CommitMaker(l)
                       \/ BeginStop(l) \/ Kill(l)
  \/ RequestStop \/ Foreigner

ProcessSpec == ProcessInit /\ [][ProcessNext]_processVars

-----------------------------------------------------------------------------
(* Properties *)

ProcessTypeOK ==
  /\ pidOf \in [Procs -> Pids] /\ foreign \subseteq Pids
  /\ {guard, stopFile, stateFile.launch} \subseteq Procs \cup {NoLaunch}
  /\ lockFile \in Procs \cup {NoLaunch, Unwritten}
  /\ proven \in [Procs -> SUBSET Procs]
  /\ \A k \in Procs : /\ session[k] \in {"none", "open", "ended"}
                       /\ terminal[k] \in {"none", "done", "failed"}
                       /\ maker[k] \in {"none", "unfinished", "finished"}

\* From the lock file written to the lock file removed a launch holds the guard and
\* the file on disk names it, whatever earlier launches left or are still removing.
LockNamesOwner ==
  \A l \in Procs : phase[l] \in Owning => guard = l /\ lockFile = l

\* A launch is called absent only when it is gone, whatever pids the system hands
\* out again (proven_absent_launch_nonces): recovery releases its reservations and
\* finishes its observations.
ProvenAreGone ==
  \A l \in Procs : \A k \in proven[l] : k \in Gone

\* What a stop in order left unfinished is settled by the next start, also when the
\* telemetry lane did not stop and a queued command followed the terminal one.
OrderlySettled ==
  \A l, k \in Procs :
    phase[l] \in Writing /\ phase[k] = "left" /\ terminal[k] # "failed"
      => maker[k] # "unfinished"

\* One launch at a time owns the runtime, and settles what launches that are gone
\* left and of no other (acquire, reconcile_startup_state, stop and release).
OwnershipSound == ProcessTypeOK /\ LockNamesOwner /\ ProvenAreGone /\ OrderlySettled

\* "otherwise leave the next launch without any nonce proof and latch every maker
\* observation that stop left unfinished as fail-closed forever" (acquire): once a
\* start has settled what it found, nothing of a launch that is gone stays unfinished.
NothingLatched ==
  \A l, k \in Procs : phase[l] \in Writing /\ k \in Gone => maker[k] # "unfinished"
=============================================================================
