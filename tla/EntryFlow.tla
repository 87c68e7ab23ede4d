----------------------------- MODULE EntryFlow -----------------------------
(***************************************************************************)
(* From an evaluation to an entry in the Frequency V4 engine: the router   *)
(* of execution.py, which observes a window for a maker before it crosses, *)
(* the evidence that _evaluate and _advance_execution of engine.py persist *)
(* command by command around it, and the reconciliation of what a session  *)
(* left behind. The router decides before anything is persisted, so its    *)
(* state, the engine's and the tables' have to be kept in step by hand.    *)
(***************************************************************************)
EXTENDS Integers, Sequences, FiniteSets

CONSTANTS
  EntryWindows,  \* the windows evaluated
  MaxSessions,   \* bound on launches
  MaxObs,        \* bound on observations
  MaxLate        \* bound on commands that fail or time out

ASSUME EntryAssumption == {MaxSessions, MaxObs, MaxLate} \subseteq Nat \ {0}

VARIABLES
  router,     \* _active: how far the observation of a window has run
  maker,      \* maker_persistence: the row it was acknowledged as
  lastAction, \* last_candidate_fingerprint, its action
  entering,   \* _entered_window_ids
  capacity,   \* _entry_capacity_blocks holds a reason
  latched,    \* _critical_failure_reason
  foreign,    \* unfinished_makers_left_fail_closed of this start
  step,       \* the evaluation under way, and the command it awaits
  lateCmds,   \* commands given up that the writer may still commit
  faulty,     \* commands that failed or timed out so far
  remaining,  \* time left in a window: enough, too little, none
  obs,        \* maker_observations
  bought,     \* entries
  session,    \* the sessions, and whether each is live, ended or gone
  missing     \* an observation to cross had no persistence

flowVars ==
  <<router, maker, lastAction, entering, capacity, latched, foreign, step,
    lateCmds, faulty, remaining, obs, bought, session, missing>>
engineMemory == <<router, maker, lastAction, entering, capacity, latched, foreign>>

NoObs == "none"
\* Elapsed time of an observation: below the minimum, past it, past the deadline
Ages == {"early", "eligible", "expired"}
RouterActions == {"NO_ACTION", "START_OBSERVATION", "CONTINUE_OBSERVING",
            "CROSS_SPREAD", "SKIP", "SAFETY_FAIL"}
Rest == [pc |-> "rest"]
Now == Len(session)
Up == session # <<>> /\ session[Now] = "live"
Unfinished(S) == {o \in DOMAIN obs : obs[o].outcome = "open" /\ obs[o].by \in S}

FlowTypeOK ==
  /\ router \in [EntryWindows -> Ages \cup {NoObs}]
  /\ maker \in [EntryWindows -> 0..MaxObs]
  /\ lastAction \in [EntryWindows -> RouterActions \cup {""}]
  /\ entering \subseteq EntryWindows
  /\ {capacity, latched, foreign, missing} \subseteq BOOLEAN
  /\ remaining \in [EntryWindows -> {"enough", "little", "none"}]
  /\ obs \in Seq([w : EntryWindows, by : 1..MaxSessions,
                  outcome : {"open", "ABANDONED"} \cup RouterActions])
  /\ bought \in Seq([w : EntryWindows, by : 1..MaxSessions, of : 0..MaxObs])
  /\ session \in Seq({"live", "ended", "gone"})

Forgotten ==
  /\ router' = [w \in EntryWindows |-> NoObs] /\ maker' = [w \in EntryWindows |-> 0]
  /\ lastAction' = [w \in EntryWindows |-> ""]
  /\ capacity' = FALSE /\ latched' = FALSE

FlowInit ==
  /\ router = [w \in EntryWindows |-> NoObs] /\ maker = [w \in EntryWindows |-> 0]
  /\ lastAction = [w \in EntryWindows |-> ""] /\ entering = {}
  /\ capacity = FALSE /\ latched = FALSE /\ foreign = FALSE
  /\ step = Rest /\ lateCmds = <<>> /\ faulty = 0
  /\ remaining = [w \in EntryWindows |-> "enough"]
  /\ obs = <<>> /\ bought = <<>> /\ session = <<"live">> /\ missing = FALSE

-----------------------------------------------------------------------------
(* The router: on_candidate, _update_active and safety_fail *)

\* What it may decide for a window of which nothing is blocked; the evidence
\* is arbitrary
Decisions(w) ==
  IF router[w] = NoObs
  THEN {"NO_ACTION", "CROSS_SPREAD", "START_OBSERVATION"}
  ELSE {"SAFETY_FAIL"}
       \cup (IF router[w] = "early" THEN {} ELSE {"CROSS_SPREAD", "SKIP"})
       \cup (IF router[w] = "expired" THEN {} ELSE {"CONTINUE_OBSERVING"})

\* Where the decision leaves the observation
Routed(w, action) ==
  CASE action = "START_OBSERVATION" -> "early"
    [] action \in {"CROSS_SPREAD", "SKIP", "SAFETY_FAIL"} -> NoObs
    [] OTHER -> router[w]

\* _execution_blocked_reason, as far as this model knows it
Blocked == latched \/ foreign

\* Seeded fault: a terminal decision is only persisted like any other
ImportantTransition(w, action, transitioned, soon) ==
  \/ /\ transitioned
     /\ \/ lastAction[w] = "" \/ ~soon
        \/ action \in {"START_OBSERVATION", "CROSS_SPREAD", "SAFETY_FAIL"}
  \/ /\ ~capacity /\ w \notin entering
     /\ action \in {"START_OBSERVATION", "CROSS_SPREAD"}

\* What is worth persisting. Equal actions may differ in the rest of their
\* fingerprint, and a transition may come too soon after the last.
Important(w, action, transitioned, soon) ==
  \/ /\ transitioned
     /\ \/ lastAction[w] = "" \/ ~soon
        \/ action \in {"START_OBSERVATION", "CROSS_SPREAD", "SAFETY_FAIL"}
  \/ /\ ~capacity /\ w \notin entering
     /\ action \in {"START_OBSERVATION", "CROSS_SPREAD"}
  \/ maker[w] # 0 /\ action \in {"CROSS_SPREAD", "SKIP", "SAFETY_FAIL"}

\* _evaluate up to its first await; an evaluation that is not important ends
EvaluateWindow(w) ==
  /\ Up /\ step = Rest /\ remaining[w] = "enough"
  /\ \E hard \in {Blocked, TRUE} :
     \E action \in IF w \in entering THEN {"NO_ACTION"}
                   ELSE IF ~hard THEN Decisions(w)
                   ELSE IF router[w] # NoObs THEN {"SAFETY_FAIL"} ELSE {"NO_ACTION"} :
     \E transitioned, soon \in BOOLEAN :
       /\ action # lastAction[w] => transitioned
       /\ router' = IF w \in entering THEN router
                    ELSE [router EXCEPT ![w] = Routed(w, action)]
       /\ step' = IF Important(w, action, transitioned, soon)
                  THEN [pc |-> "evidence", w |-> w, action |-> action,
                        observed |-> router[w] # NoObs, finished |-> FALSE]
                  ELSE Rest
  /\ UNCHANGED <<maker, lastAction, entering, capacity, latched, foreign, lateCmds,
                 faulty, remaining, obs, bought, session, missing>>

-----------------------------------------------------------------------------
(* Commands. One is awaited at a time; the writer keeps the order of a     *)
(* window, so an answer comes after the late ones of the same window.      *)

Answerable(pc) ==
  step.pc = pc /\ \A n \in DOMAIN lateCmds : lateCmds[n].w # step.w

\* What a command does to the tables
Applied(c) ==
  CASE c.kind = "start" ->
         /\ obs' = Append(obs, [w |-> c.w, by |-> c.by, outcome |-> "open"])
         /\ UNCHANGED bought
    [] c.kind = "finish" ->
         /\ obs' = [obs EXCEPT ![c.of].outcome = c.action]
         /\ UNCHANGED bought
    [] c.kind = "enter" ->
         /\ bought' = IF \E n \in DOMAIN bought : bought[n].w = c.w THEN bought
                      ELSE Append(bought, [w |-> c.w, by |-> c.by, of |-> c.of])
         /\ UNCHANGED obs

\* The command the evaluation awaits, when it changes the tables
Awaited ==
  CASE step.pc = "start" -> [kind |-> "start", w |-> step.w, by |-> Now]
    [] step.pc = "finish" ->
         [kind |-> "finish", w |-> step.w, by |-> Now, of |-> maker[step.w],
          action |-> step.action]
    [] step.pc = "enter" ->
         [kind |-> "enter", w |-> step.w, by |-> Now, of |-> step.of]

\* The evidence is committed: _advance_execution goes on with the action
EvidencePersisted ==
  /\ Answerable("evidence")
  /\ lastAction' = [lastAction EXCEPT ![step.w] = step.action]
  /\ LET w == step.w IN
     CASE step.action = "START_OBSERVATION" ->
            step' = [step EXCEPT !.pc = "start"] /\ UNCHANGED <<latched, missing>>
       [] step.action = "CONTINUE_OBSERVING" /\ maker[w] # 0 ->
            step' = [step EXCEPT !.pc = "update"] /\ UNCHANGED <<latched, missing>>
       [] step.action \in {"CROSS_SPREAD", "SKIP", "SAFETY_FAIL"} /\ maker[w] # 0 ->
            step' = [step EXCEPT !.pc = "finish"] /\ UNCHANGED <<latched, missing>>
       [] step.action = "CROSS_SPREAD" /\ maker[w] = 0 /\ step.observed ->
            step' = Rest /\ latched' = TRUE /\ missing' = TRUE
       [] step.action = "CROSS_SPREAD" /\ maker[w] = 0 /\ ~step.observed ->
            step' = [pc |-> "cross", w |-> w, of |-> 0] /\ UNCHANGED <<latched, missing>>
       [] OTHER -> step' = Rest /\ UNCHANGED <<latched, missing>>
  /\ UNCHANGED <<router, maker, entering, capacity, foreign, lateCmds, faulty,
                 remaining, obs, bought, session>>

ObservationStarted ==
  /\ Answerable("start") /\ Len(obs) < MaxObs
  /\ Applied(Awaited)
  /\ maker' = [maker EXCEPT ![step.w] = Len(obs) + 1] /\ step' = Rest
  /\ UNCHANGED <<router, lastAction, entering, capacity, latched, foreign, lateCmds,
                 faulty, remaining, session, missing>>

ObservationUpdated ==
  /\ Answerable("update") /\ step' = Rest
  /\ UNCHANGED <<engineMemory, lateCmds, faulty, remaining, obs, bought, session, missing>>

\* The observation is finished before the entry is asked for
ObservationFinished ==
  /\ Answerable("finish")
  /\ Applied(Awaited)
  /\ maker' = [maker EXCEPT ![step.w] = 0]
  /\ step' = IF step.action = "CROSS_SPREAD"
             THEN [pc |-> "cross", w |-> step.w, of |-> maker[step.w]] ELSE Rest
  /\ UNCHANGED <<router, lastAction, entering, capacity, latched, foreign, lateCmds,
                 faulty, remaining, session, missing>>

\* _create_shadow_entry submits, or refuses: entered, a cap, blocked, the
\* window over, or evidence gone stale meanwhile
SubmitShadowEntry ==
  /\ step.pc = "cross" /\ step.w \notin entering
  /\ ~capacity /\ ~Blocked /\ remaining[step.w] # "none"
  /\ step' = [step EXCEPT !.pc = "enter"]
  /\ UNCHANGED <<engineMemory, lateCmds, faulty, remaining, obs, bought, session, missing>>

RefuseShadowEntry ==
  /\ step.pc = "cross" /\ step' = Rest
  /\ UNCHANGED <<engineMemory, lateCmds, faulty, remaining, obs, bought, session, missing>>

EntryBought ==
  /\ Answerable("enter")
  /\ ~\E n \in DOMAIN bought : bought[n].w = step.w
  /\ Applied(Awaited) /\ entering' = entering \cup {step.w} /\ step' = Rest
  /\ UNCHANGED <<router, maker, lastAction, capacity, latched, foreign, lateCmds,
                 faulty, remaining, session, missing>>

\* The store refuses: a cap, which holds until a position closes, the window's
\* reservation, or the commit deadline, which makes the next evaluation fresh
EntryRefused ==
  /\ Answerable("enter") /\ step' = Rest
  /\ \/ capacity' = TRUE /\ UNCHANGED lastAction
     \/ lastAction' = [lastAction EXCEPT ![step.w] = ""] /\ UNCHANGED capacity
     \/ UNCHANGED <<capacity, lastAction>>
  /\ UNCHANGED <<router, maker, entering, latched, foreign, lateCmds, faulty,
                 remaining, obs, bought, session, missing>>

CapacityFreed ==
  /\ capacity /\ capacity' = FALSE
  /\ UNCHANGED <<router, maker, lastAction, entering, latched, foreign, step, lateCmds,
                 faulty, remaining, obs, bought, session, missing>>

\* The command fails or times out: latched until the next start. A command
\* that timed out may be committed later.
CommandFails ==
  /\ step.pc \in {"evidence", "start", "update", "finish", "enter"} /\ faulty < MaxLate
  /\ faulty' = faulty + 1 /\ latched' = TRUE /\ step' = Rest
  /\ \/ UNCHANGED lateCmds
     \/ /\ step.pc \in {"start", "finish", "enter"}
        /\ lateCmds' = Append(lateCmds, Awaited)
  /\ UNCHANGED <<router, maker, lastAction, entering, capacity, foreign, remaining, obs,
                 bought, session, missing>>

LateCommit ==
  /\ lateCmds # <<>> /\ Len(obs) < MaxObs
  /\ Applied(Head(lateCmds)) /\ lateCmds' = Tail(lateCmds)
  /\ UNCHANGED <<engineMemory, step, faulty, remaining, session, missing>>

LateDropped ==
  /\ lateCmds # <<>> /\ lateCmds' = Tail(lateCmds)
  /\ UNCHANGED <<engineMemory, step, faulty, remaining, obs, bought, session, missing>>

-----------------------------------------------------------------------------
(* Time, the end of a session and the next start *)

Ages2 == [early |-> "eligible", eligible |-> "expired"]

ObservationAges(w) ==
  /\ router[w] \in DOMAIN Ages2 /\ router' = [router EXCEPT ![w] = Ages2[router[w]]]
  /\ UNCHANGED <<maker, lastAction, entering, capacity, latched, foreign, step, lateCmds,
                 faulty, remaining, obs, bought, session, missing>>

WindowRunsOut(w) ==
  /\ remaining[w] # "none"
  /\ remaining' = [remaining EXCEPT ![w] = IF @ = "enough" THEN "little" ELSE "none"]
  /\ UNCHANGED <<engineMemory, step, lateCmds, faulty, obs, bought, session, missing>>

\* stop journals the end of the session; a crash leaves only a nonce
EndsAs(how) ==
  /\ Up /\ session' = [session EXCEPT ![Now] = how]
  /\ step' = Rest /\ lateCmds' = <<>>
  /\ how = "ended" => step = Rest
  /\ UNCHANGED <<engineMemory, faulty, remaining, obs, bought, missing>>

\* reconcile_startup, with the launch nonces proven absent: the observations
\* of the sessions that ended or are proven gone are abandoned, and one that
\* is left blocks every entry of this session
StartSession(absent) ==
  /\ ~Up /\ Now < MaxSessions
  /\ session' = Append(session, "live") /\ Forgotten /\ missing' = FALSE
  /\ entering' = {bought[n].w : n \in DOMAIN bought}
  /\ LET over == absent \cup {s \in DOMAIN session : session[s] = "ended"} IN
     /\ obs' = [o \in DOMAIN obs |->
          IF o \in Unfinished(over) THEN [obs[o] EXCEPT !.outcome = "ABANDONED"]
          ELSE obs[o]]
     /\ foreign' = (Unfinished(DOMAIN session \ over) # {})
  /\ UNCHANGED <<step, lateCmds, faulty, remaining, bought>>

-----------------------------------------------------------------------------
FlowNext ==
  \/ \E w \in EntryWindows : EvaluateWindow(w) \/ ObservationAges(w) \/ WindowRunsOut(w)
  \/ EvidencePersisted \/ ObservationStarted \/ ObservationUpdated \/ ObservationFinished
  \/ SubmitShadowEntry \/ RefuseShadowEntry \/ EntryBought \/ EntryRefused
  \/ CapacityFreed \/ CommandFails \/ LateCommit \/ LateDropped
  \/ \E how \in {"ended", "gone"} : EndsAs(how)
  \/ \E absent \in SUBSET {s \in DOMAIN session : session[s] # "live"} : StartSession(absent)

FlowSpec == FlowInit /\ [][FlowNext]_flowVars

-----------------------------------------------------------------------------
(* What the flow promises *)

\* Between evaluations of a session that has not latched, the router, the
\* engine and the table tell one story: a window is observed exactly when one
\* row of this session is open for it, the one the engine knows. So an
\* observation that crosses never lacks its evidence.
InStep ==
  /\ Up /\ step = Rest /\ ~latched =>
       \A w \in EntryWindows :
         /\ (router[w] # NoObs) <=> (maker[w] # 0)
         /\ {o \in Unfinished({Now}) : obs[o].w = w} = {maker[w]} \ {0}
  /\ ~missing

\* An entry that followed an observation has its row, of the same window and
\* session, finished as the cross it was; no two entries share a window.
EntryBacked ==
  /\ \A n \in DOMAIN bought :
       bought[n].of # 0 =>
         LET o == obs[bought[n].of] IN
         o.w = bought[n].w /\ o.by = bought[n].by /\ o.outcome = "CROSS_SPREAD"
  /\ \A m, n \in DOMAIN bought : m # n => bought[m].w # bought[n].w

\* Only what is over is abandoned, and while anything of an earlier session is
\* open no entry of this one is.
AbandonedRightly ==
  /\ \A o \in DOMAIN obs : obs[o].outcome = "ABANDONED" => session[obs[o].by] # "live"
  /\ Up /\ Unfinished(1..(Now - 1)) # {} => \A n \in DOMAIN bought : bought[n].by # Now

EntrySound == FlowTypeOK /\ InStep /\ EntryBacked /\ AbandonedRightly
=============================================================================
