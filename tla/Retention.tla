----------------------------- MODULE Retention -----------------------------
(***************************************************************************)
(* Retention over the evidence tables (store.py, bounded_retention_step):  *)
(* one small transaction a step, in rotation, between the commands that    *)
(* write evaluations and entries.  It deletes old graphs and raw rows that *)
(* no trade, graph or pending command needs, and compacts the journal.  Of *)
(* the rotation, the step of the counts is in EventCounts, and those of    *)
(* the metadata tables, which nothing refers to, are left out.             *)
(***************************************************************************)
EXTENDS EvidenceStore

CONSTANTS
  StepRows,    \* max_rows of a step
  RawCap,      \* raw_event_max_rows
  LastCutoff   \* bound on the age that retention reaches

ASSUME RetentionAssumption == {StepRows, RawCap} \subseteq Nat \ {0} /\ LastCutoff \in Nat

VARIABLES
  journal,    \* the evaluation command of each candidate
  entering,   \* its entry command
  observing,  \* candidates with an open maker observation
  cutoff,     \* what was received before is old
  turn        \* _retention_action_index

trade == <<journal, entering, observing>>
retentionVars == <<evidenceVars, trade, cutoff, turn>>

CommandStates == {"none", "open", "committed", "compacted", "failed"}

RetentionInit ==
  /\ EvidenceInit /\ cutoff = 0 /\ turn = 1 /\ observing = {}
  /\ journal = [c \in Candidates |-> "none"] /\ entering = [c \in Candidates |-> "none"]

-----------------------------------------------------------------------------
(* What the lane writes meanwhile.  Time and other commands pass between the
   transactions: a bundle sees neither. *)

Submit(c) ==
  /\ tx = NoTx /\ journal[c] = "none" /\ journal' = [journal EXCEPT ![c] = "open"]
  /\ UNCHANGED <<evidenceVars, entering, observing, cutoff, turn>>

BeginSubmitted ==
  /\ \/ \E c \in Candidates : journal[c] = "open" /\ Begin("evaluation", c)
     \/ \E m \in Markets : m \notin db.markets /\ Begin("market", m)
  /\ UNCHANGED <<trade, cutoff, turn>>

\* The command's own row is written in the transaction; a failure is final.
EndCommand(state) ==
  journal' = IF tx.kind = "evaluation" THEN [journal EXCEPT ![tx.of] = state] ELSE journal
RunBundle ==
  /\ \/ RunPart /\ UNCHANGED journal
     \/ Commit /\ EndCommand("committed")
     \/ Rollback /\ EndCommand("failed")
  /\ UNCHANGED <<entering, observing, cutoff, turn>>

RecordRaw ==
  /\ \/ \E e \in Events : RecordEvent(e, "reference")
     \/ \E o \in Observations : RecordObservation(o)
     \/ \E c \in Candidates : \E b \in CandOf[c].books : RecordBook(b)
  /\ UNCHANGED <<trade, cutoff, turn>>

\* An entry, or a maker observation, follows an evaluation that is there.
SubmitEntry(c) ==
  /\ tx = NoTx /\ c \in DOMAIN db.graphs /\ entering[c] = "none" /\ entering' = [entering EXCEPT ![c] = "open"]
  /\ UNCHANGED <<evidenceVars, journal, observing, cutoff, turn>>
EndEntry(c) ==
  /\ entering[c] = "open" /\ tx = NoTx
  /\ \E state \in {"committed", "failed"} : entering' = [entering EXCEPT ![c] = state]
  /\ UNCHANGED <<evidenceVars, journal, observing, cutoff, turn>>
Observe(c) ==
  /\ tx = NoTx /\ c \in DOMAIN db.graphs /\ entering[c] = "none" /\ CandOf[c].at >= cutoff
  /\ observing' = (observing \cup {c}) \ (observing \cap {c})
  /\ UNCHANGED <<evidenceVars, journal, entering, cutoff, turn>>

Age ==
  /\ tx = NoTx /\ cutoff < LastCutoff /\ cutoff' = cutoff + 1
  /\ UNCHANGED <<evidenceVars, trade, turn>>

-----------------------------------------------------------------------------
(* The rows retention may take *)

Entered(c) == entering[c] = "committed"
PendingWindow(w) ==
  \E c \in Candidates : /\ CandOf[c].window = w
                        /\ {journal[c], entering[c]} \cap {"open", "failed"} # {}

\* _delete_nontrade_candidate_graph_step
GraphFree(c) ==
  /\ c \in DOMAIN db.graphs /\ CandOf[c].at < cutoff
  /\ ~Entered(c) /\ c \notin observing /\ ~PendingWindow(CandOf[c].window)
GraphRows(c) ==
  LET g == db.graphs[c] IN 1 + Cardinality(g.books) + Cardinality(g.cex) + Cardinality(g.parts)
Fits(c) == GraphRows(c) <= StepRows

\* The raw rows of a table, their age, what a trade pins, what a graph links
RawRows(table) ==
  CASE table = "cex" -> DOMAIN db.obs [] table = "book" -> DOMAIN db.snaps
    [] table = "event" -> DOMAIN db.events
AgeOf(table, r) ==
  CASE table = "cex" -> ObsOf[r].receipt [] table = "book" -> BookOf[db.snaps[r]].at
    [] table = "event" -> EventOf[r].receipt
Of(table, c) ==
  CASE table = "cex" -> db.graphs[c].cex [] table = "book" -> db.graphs[c].books
    [] table = "event" -> {db.graphs[c].trigger}
\* _pin_trade_evidence
Pinned(table, r) == \E c \in DOMAIN db.graphs : Entered(c) /\ r \in Of(table, c)

\* Seeded fault: only what the graphs name is linked.
LinkedByGraph(table, r) == \E c \in DOMAIN db.graphs : r \in Of(table, c)
\* _raw_unlinked_predicate
Linked(table, r) ==
  \/ \E c \in DOMAIN db.graphs : r \in Of(table, c)
  \/ table = "event" /\ \E o \in DOMAIN db.obs : db.obs[o].sourced /\ ObsOf[o].event = r

Unpinned(table) == {r \in RawRows(table) : ~Pinned(table, r)}
OldestOf(table, rows) ==
  {s \in SUBSET rows :
     /\ Cardinality(s) = (IF Cardinality(rows) < StepRows THEN Cardinality(rows) ELSE StepRows)
     /\ \A r \in s, q \in rows \ s : AgeOf(table, r) <= AgeOf(table, q)}

\* _delete_old_raw_step and enforce_raw_row_cap: what is older than the cutoff,
\* or than the newest RawCap rows that nothing pins
Aged(table) ==
  {r \in Unpinned(table) : AgeOf(table, r) < cutoff /\ ~Linked(table, r)}
OverCap(table) ==
  {r \in Unpinned(table) :
     /\ ~Linked(table, r)
     /\ Cardinality({q \in Unpinned(table) : AgeOf(table, q) > AgeOf(table, r)}) >= RawCap}

Without(table, rows) ==
  CASE table = "cex" ->
         [db EXCEPT !.obs = [o \in DOMAIN @ \ rows |-> [db.obs[o] EXCEPT !.after = @ \ rows]]]
    [] table = "book" -> [db EXCEPT !.snaps = [k \in DOMAIN @ \ rows |-> @[k]]]
    [] table = "event" -> [db EXCEPT !.events = [e \in DOMAIN @ \ rows |-> @[e]]]

-----------------------------------------------------------------------------
(* bounded_retention_step: the turn passes on, whatever the step found *)

Steps == <<<<"graph">>, <<"journal">>, <<"age", "cex">>, <<"age", "book">>,
           <<"age", "event">>, <<"cap", "cex">>, <<"cap", "book">>, <<"cap", "event">>>>
IsTurn(kind) == tx = NoTx /\ Steps[turn][1] = kind
PassOn == turn' = (turn % Len(Steps)) + 1

\* The oldest graph whose cascade fits; one that does not is left for good.
DeleteGraph ==
  /\ IsTurn("graph") /\ PassOn
  /\ LET free == {c \in Candidates : GraphFree(c) /\ Fits(c)}
     IN IF free = {} THEN UNCHANGED db
        ELSE \E c \in free :
               /\ \A q \in free : CandOf[c].at <= CandOf[q].at
               /\ db' = [db EXCEPT !.graphs = [q \in DOMAIN @ \ {c} |-> @[q]]]
  /\ UNCHANGED <<tx, trade, cutoff>>

\* _compact_journal_payload_step
CompactJournal ==
  /\ IsTurn("journal") /\ PassOn
  /\ LET Old(c) == /\ journal[c] = "committed" /\ CandOf[c].at < cutoff
                   /\ \A q \in Candidates : CandOf[q].window = CandOf[c].window => ~Entered(q)
     IN journal' = [c \in Candidates |-> IF Old(c) THEN "compacted" ELSE journal[c]]
  /\ UNCHANGED <<evidenceVars, entering, observing, cutoff>>

DeleteRaw(kind) ==
  /\ IsTurn(kind) /\ PassOn
  /\ LET table == Steps[turn][2]
         old == IF kind = "age" THEN Aged(table) ELSE OverCap(table)
     IN \E rows \in OldestOf(table, old) : db' = Without(table, rows)
  /\ UNCHANGED <<tx, trade, cutoff>>

RetentionStep ==
  DeleteGraph \/ CompactJournal
  \/ DeleteRaw("age") \/ DeleteRaw("cap")

RetentionNext ==
  \/ \E c \in Candidates : Submit(c) \/ SubmitEntry(c) \/ EndEntry(c) \/ Observe(c)
  \/ BeginSubmitted \/ RunBundle \/ RecordRaw \/ Age \/ RetentionStep

RetentionSpec == RetentionInit /\ [][RetentionNext]_retentionVars

-----------------------------------------------------------------------------
TypeOKRetention ==
  /\ TypeOKEvidence /\ turn \in 1..Len(Steps) /\ cutoff \in 0..LastCutoff
  /\ \A c \in Candidates : journal[c] \in CommandStates /\ entering[c] \in CommandStates

\* What an entry rests on is never deleted, from its submission on: its graph
\* and every row the graph names.  Nor is the graph a maker observation is on.
TradesRest ==
  \A c \in Candidates :
    entering[c] \in {"open", "committed"} \/ c \in observing => c \in DOMAIN db.graphs

\* Retention leaves every graph that it leaves whole, down to the source event
\* of an observation, "so evidence lineage is never nulled" (store.py:5107).
LineageKept == GraphsWhole /\ ObsSourced(db)

RetentionSound == TypeOKRetention /\ TradesRest /\ LineageKept
=============================================================================
