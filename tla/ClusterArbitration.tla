------------------------ MODULE ClusterArbitration ------------------------
(***************************************************************************)
(* The arbitration of one cluster of simultaneous windows                  *)
(* (src/lite_frequency_v4/cluster.py): the arbitration row, its event      *)
(* journal and the cluster lock.  Every call runs in one immediate         *)
(* transaction of its caller, so a call that raises changes nothing and is *)
(* no step here, and a crash falls between calls.  The module has no       *)
(* caller in the runtime yet: any call may come at any time, from the      *)
(* engine, from recovery after a restart or from the operator's tool.      *)
(***************************************************************************)
EXTENDS Integers, Sequences, FiniteSets

CONSTANTS
  Candidates,  \* content-derived candidate keys
  NetEdge,     \* quantised net edge of a candidate
  Depth,       \* quantised depth of a candidate
  KeyOrder,    \* position in the order of asset, then key
  Windows,     \* asset windows of the cluster
  WindowOf,    \* the window a candidate belongs to
  Launches,    \* launches of the program: session and owner nonce
  MaxEvents    \* bound on the length of the journal

ASSUME ClusterAssumption ==
  /\ NetEdge \in [Candidates -> Int]
  /\ Depth \in [Candidates -> Int]
  /\ KeyOrder \in [Candidates -> Int]
  /\ WindowOf \in [Candidates -> Windows]
  /\ MaxEvents \in Nat
  /\ IsFiniteSet(Candidates)

VARIABLES
  arbitration, \* the cluster_arbitrations row
  journal,     \* cluster_arbitration_events, in order of seq
  lock,        \* the cluster_locks row
  launch       \* the launch now running

clusterVars == <<arbitration, journal, lock, launch>>

Statuses == {"NONE", "COLLECTING", "SELECTED", "RESERVING", "ENTERED",
             "EXHAUSTED", "CANCELLED"}
TerminalStatuses == {"ENTERED", "EXHAUSTED", "CANCELLED"}

LegalTransitions ==
  {<<"NONE", "COLLECTING">>, <<"COLLECTING", "SELECTED">>,
   <<"COLLECTING", "CANCELLED">>, <<"SELECTED", "RESERVING">>,
   <<"SELECTED", "EXHAUSTED">>, <<"SELECTED", "CANCELLED">>,
   <<"RESERVING", "ENTERED">>, <<"RESERVING", "SELECTED">>}

\* A candidate column that is SQL NULL
NoPick == [picked |-> FALSE]
Pick(c, rank) == [picked |-> TRUE, key |-> c, rank |-> rank]

\* status NONE: the row does not exist
NoArbitration == [status |-> "NONE", set |-> {}, pick |-> NoPick]
NoLock == [state |-> "ABSENT"]

ClusterInit ==
  /\ arbitration = NoArbitration
  /\ journal = << >>
  /\ lock = NoLock
  /\ launch \in Launches

-----------------------------------------------------------------------------
(* Ranking version 1 *)

RanksBefore(c, d) ==
  \/ NetEdge[c] > NetEdge[d]
  \/ NetEdge[c] = NetEdge[d] /\ Depth[c] > Depth[d]
  \/ /\ NetEdge[c] = NetEdge[d] /\ Depth[c] = Depth[d]
     /\ KeyOrder[c] < KeyOrder[d]

RankIn(S, c) == 1 + Cardinality({d \in S : RanksBefore(d, c)})

-----------------------------------------------------------------------------
(* The journal *)

JournalTerminal ==
  IF journal = << >> THEN "NONE" ELSE journal[Len(journal)].to

\* _validate_chain_consistency
ChainConsistent ==
  /\ journal # << >>
  /\ journal[1].from = "NONE"
  /\ \A i \in 1..Len(journal) :
       /\ <<journal[i].from, journal[i].to>> \in LegalTransitions
       /\ i > 1 => journal[i].from = journal[i - 1].to
  /\ JournalTerminal = arbitration.status

Event(from, to, pick) == [from |-> from, to |-> to, pick |-> pick]

\* Seeded fault: a transition that carries no candidate clears the row's.
AdvanceClearing(to, pick) ==
  /\ Len(journal) < MaxEvents
  /\ arbitration.status # "NONE"
  /\ ChainConsistent
  /\ arbitration.status \notin TerminalStatuses
  /\ <<arbitration.status, to>> \in LegalTransitions
  /\ journal' = Append(journal, Event(arbitration.status, to, pick))
  /\ arbitration' = [arbitration EXCEPT !.status = to, !.pick = pick]

\* _advance: the event and the row change together.  Which actor signs an
\* event, and the reasons it may give, change no state.
Advance(to, pick) ==
  /\ Len(journal) < MaxEvents
  /\ arbitration.status # "NONE"
  /\ ChainConsistent
  /\ arbitration.status \notin TerminalStatuses
  /\ <<arbitration.status, to>> \in LegalTransitions
  /\ journal' = Append(journal, Event(arbitration.status, to, pick))
  /\ arbitration' = [arbitration EXCEPT
       !.status = to, !.pick = IF pick.picked THEN pick ELSE @]

-----------------------------------------------------------------------------
(* Transitions of the arbitration *)

\* The window of a cluster is fixed.  A second call with the same set finds the row and changes nothing.
BeginArbitration ==
  \E S \in SUBSET Candidates \ {{}} :
    /\ arbitration.status = "NONE"
    /\ arbitration' = [NoArbitration EXCEPT !.status = "COLLECTING", !.set = S]
    /\ journal' = Append(journal, Event("NONE", "COLLECTING", NoPick))
    /\ UNCHANGED <<lock, launch>>

SelectCandidate ==
  \E c \in arbitration.set :
    /\ Advance("SELECTED", Pick(c, RankIn(arbitration.set, c)))
    /\ UNCHANGED <<lock, launch>>

BeginReserving ==
  /\ Advance("RESERVING", NoPick)
  /\ UNCHANGED <<lock, launch>>

RevertToSelected ==
  /\ Advance("SELECTED", NoPick)
  /\ UNCHANGED <<lock, launch>>

\* The lock must be entered for exactly the selected candidate and window.
LockMatchesPick ==
  /\ lock.state = "ENTERED"
  /\ arbitration.pick.picked
  /\ lock.key = arbitration.pick.key
  /\ lock.window = WindowOf[arbitration.pick.key]

MarkEntered ==
  /\ LockMatchesPick
  /\ Advance("ENTERED", NoPick)
  /\ UNCHANGED <<lock, launch>>

MarkExhausted ==
  /\ Advance("EXHAUSTED", NoPick)
  /\ UNCHANGED <<lock, launch>>

CancelArbitration ==
  /\ arbitration.status \in {"COLLECTING", "SELECTED"}
  /\ Advance("CANCELLED", NoPick)
  /\ UNCHANGED <<lock, launch>>

-----------------------------------------------------------------------------
(* The cluster lock.  reserve_cluster_lock takes its window and candidate   *)
(* from its caller and consults the arbitration only through the foreign    *)
(* key; promote_lock_to_entered does not consult it at all.                 *)

ReserveLock ==
  \E c \in Candidates, w \in Windows :
    /\ lock = NoLock
    /\ arbitration.status # "NONE"
    /\ lock' = [state |-> "RESERVED", key |-> c, window |-> w,
                owner |-> launch]
    /\ UNCHANGED <<arbitration, journal, launch>>

PromoteLock ==
  /\ lock.state = "RESERVED"
  /\ lock' = [lock EXCEPT !.state = "ENTERED"]
  /\ UNCHANGED <<arbitration, journal, launch>>

\* Seeded fault: only the arbitration is asked whether the lock is entered.
ReleaseByArbitration ==
  /\ lock.state # "ABSENT"
  /\ arbitration.status # "ENTERED"
  /\ lock' = NoLock
  /\ UNCHANGED <<arbitration, journal, launch>>

ReleaseUnenteredLock ==
  /\ lock.state = "RESERVED"
  /\ arbitration.status # "ENTERED"
  /\ lock' = NoLock
  /\ UNCHANGED <<arbitration, journal, launch>>

\* A crash or an orderly stop, then a new launch: every row stays.
Relaunch ==
  /\ launch' \in Launches \ {launch}
  /\ UNCHANGED <<arbitration, journal, lock>>

ClusterNext ==
  \/ BeginArbitration \/ SelectCandidate \/ BeginReserving
  \/ RevertToSelected \/ MarkEntered \/ MarkExhausted \/ CancelArbitration
  \/ ReserveLock \/ PromoteLock \/ ReleaseUnenteredLock \/ Relaunch

ClusterSpec == ClusterInit /\ [][ClusterNext]_clusterVars

-----------------------------------------------------------------------------
(* Properties *)

Picks == {NoPick} \cup
  [picked : {TRUE}, key : Candidates, rank : Nat \ {0}]

ClusterTypeOK ==
  /\ arbitration \in
       [status : Statuses, set : SUBSET Candidates, pick : Picks]
  /\ journal \in Seq([from : Statuses, to : Statuses, pick : Picks])
  /\ lock \in {NoLock} \cup
       [state : {"RESERVED", "ENTERED"}, key : Candidates, window : Windows,
        owner : Launches]
  /\ launch \in Launches

\* The pick of the journal's last event that carries one
LastPick ==
  LET picked == {i \in 1..Len(journal) : journal[i].pick.picked}
  IN  IF picked = {} THEN NoPick
      ELSE journal[CHOOSE i \in picked : \A j \in picked : j <= i].pick

\* After any sequence of calls, refusals and relaunches, replaying the
\* journal from its first event reaches the status and the selection of the
\* row (replay_arbitration, _validate_chain_consistency): no call is ever
\* refused because row and journal disagree.
JournalReplays ==
  arbitration.status # "NONE" =>
    /\ ChainConsistent
    /\ arbitration.pick = LastPick

\* An arbitration that is ENTERED rests on the lock that was promoted for
\* its selected candidate and window (mark_entered), whatever crashed in
\* between and whichever launch recovered.
EnteredRestsOnLock ==
  arbitration.status = "ENTERED" => LockMatchesPick

\* Row, journal and lock tell one story.
ArbitrationSound == ClusterTypeOK /\ JournalReplays /\ EnteredRestsOnLock

\* Occupancy is permanent: once a lock is entered no step replaces it or
\* gives it back, and an arbitration enters no candidate but the one whose
\* lock it holds (promote_lock_to_entered, release_unentered_lock).
OccupancyStands ==
  [][/\ lock.state = "ENTERED" => lock' = lock
     /\ arbitration'.status = "ENTERED" =>
          lock.state = "ENTERED" /\ arbitration'.pick.key = lock.key]_clusterVars
=============================================================================
