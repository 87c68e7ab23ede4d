--------------------------- MODULE EvidenceStore ---------------------------
(***************************************************************************)
(* The tables a decision rests on (store.py): source events with their     *)
(* cursor and counts, CEX observations, book snapshots, markets and        *)
(* windows, and the evidence graph of each candidate.  Telemetry records   *)
(* single rows, in an order of its own; the writer records markets and     *)
(* evaluations as bundles, part by part in one transaction.                *)
(* Events, observations and books are given with what they carry.          *)
(***************************************************************************)
EXTENDS Integers, Sequences, FiniteSets, Functions

CONSTANTS
  Absent,    \* NULL
  EventOf,   \* event |-> [provider, seq, receipt]
  ObsOf,     \* observation |-> [event, provider, receipt, price]
  BookOf,    \* offered book |-> [key, at]: two offers of a key differ elsewhere
  CandOf,    \* candidate |-> [window, tokens, trigger, books, cex, at], cex in order
  MarketOf,  \* discovered market |-> [tokens, window, eligible]
  MaxCalls   \* bound on the rows recorded with a count

Events == DOMAIN EventOf
Observations == DOMAIN ObsOf
Books == DOMAIN BookOf
Candidates == DOMAIN CandOf
Markets == DOMAIN MarketOf

ASSUME EvidenceAssumption ==
  /\ MaxCalls \in Nat
  /\ \A e \in Events : LET x == EventOf[e] IN
       x.receipt \in Int /\ {x.provider, x.seq} \subseteq Int \cup {Absent}
  /\ \A o \in Observations : ObsOf[o].event \in Events
  /\ \A c \in Candidates : LET x == CandOf[c] IN
       x.trigger \in Events \cup {Absent} /\ x.books \subseteq Books
         /\ Range(x.cex) \subseteq Observations

VARIABLES
  db,   \* the tables as committed
  tx    \* the bundle in progress, its next part and the tables as it sees them

evidenceVars == <<db, tx>>

EventVerdicts ==
  {"ACCEPTED", "FUTURE_EVENT", "REGRESSED_EVENT", "REGRESSED_SEQUENCE",
   "OUT_OF_ORDER", "SEQUENCE_GAP", "DUPLICATE"}
NoCount == [raw |-> 0, unique |-> 0, dup |-> 0, invalid |-> 0]
NoTx == [kind |-> "none"]

\* INSERT OR IGNORE of some rows, and ON CONFLICT DO UPDATE of one
InsertNew(table, rows) ==
  [k \in DOMAIN table \cup DOMAIN rows |-> IF k \in DOMAIN table THEN table[k] ELSE rows[k]]
Upsert(table, key, row) == [k \in DOMAIN table \cup {key} |-> IF k = key THEN row ELSE table[k]]

Parts == {"models", "fair_value", "decision", "latency"}

EmptyTables ==
  [events |-> << >>,      \* event |-> [class, accepted, dups]
   cursor |-> [provider |-> Absent, seq |-> Absent],
   counts |-> << >>,      \* <<second, class>> |-> counts
   obs |-> << >>,         \* observation |-> [class, sourced, after], after the rows before it
   snaps |-> << >>,       \* key |-> the book stored under it
   graphs |-> << >>,      \* candidate |-> [trigger, books, cex, parts]
   markets |-> {}, identities |-> {},
   links |-> << >>,       \* window |-> the tokens selected for it
   funnel |-> << >>,      \* window |-> [eligible, edge]
   calls |-> 0,           \* counted rows (history)
   plain |-> <<>>]        \* rows that moved the cursor, in order (history)

EvidenceInit == db = EmptyTables /\ tx = NoTx

-----------------------------------------------------------------------------
(* record_source_event *)

Modes == {"plain", "contiguous", "admitted", "reference"}
Counted(mode) == mode \in {"plain", "contiguous"}

\* What the row says of itself, unless its place after the cursor says otherwise.
\* An event admitted at receipt is only checked against the future.
Verdict(d, e, mode) ==
  LET x == EventOf[e]
      last == d.cursor
      Ordered == Counted(mode)
  IN CASE x.provider # Absent /\ x.provider > x.receipt -> "FUTURE_EVENT"
       [] Ordered /\ x.provider # Absent /\ last.provider # Absent
            /\ x.provider < last.provider -> "REGRESSED_EVENT"
       [] Ordered /\ x.seq # Absent /\ last.seq # Absent /\ x.seq < last.seq
            -> "REGRESSED_SEQUENCE"
       [] mode = "contiguous" /\ x.seq # Absent /\ last.seq # Absent
            /\ x.seq = last.seq -> "OUT_OF_ORDER"
       [] mode = "contiguous" /\ x.seq # Absent /\ last.seq # Absent
            /\ x.seq > last.seq + 1 -> "SEQUENCE_GAP"
       [] OTHER -> "ACCEPTED"

\* _record_event_bucket
CountAt(counts, key, row) ==
  LET old == IF key \in DOMAIN counts THEN counts[key] ELSE NoCount
  IN Upsert(counts, key, [raw |-> old.raw + row.raw, unique |-> old.unique + row.unique,
                          dup |-> old.dup + row.dup, invalid |-> old.invalid + row.invalid])

One(b) == IF b THEN 1 ELSE 0

\* Seeded fault: the cursor follows every new row.
MovesCursorAlways(known, class, mode) == ~known
\* A row a reference only points at, or admitted at receipt, never moves it.
MovesCursor(known, class, mode) == ~known /\ class = "ACCEPTED" /\ Counted(mode)

\* The tables after an event: inserted with its verdict, or found there, and
\* counted once more as a duplicate unless it is only referred to.
AfterEvent(d, e, mode) ==
  LET x == EventOf[e]
      class == Verdict(d, e, mode)
      known == e \in DOMAIN d.events
      moves == MovesCursor(known, class, mode)
      row == IF ~known THEN [class |-> class, accepted |-> class = "ACCEPTED", dups |-> 0]
             ELSE IF mode = "reference" THEN d.events[e]
             ELSE [d.events[e] EXCEPT !.dups = @ + 1]
      count == [raw |-> 1, unique |-> One(~known), dup |-> One(known),
                invalid |-> One(class # "ACCEPTED")]
  IN [d EXCEPT
       !.events = Upsert(@, e, row),
       !.counts = IF Counted(mode)
                  THEN CountAt(@, <<x.receipt, IF known THEN "DUPLICATE" ELSE class>>, count)
                  ELSE @,
       !.cursor = IF moves THEN [provider |-> x.provider,
                                 seq |-> IF x.seq = Absent THEN @.seq ELSE x.seq]
                  ELSE @,
       !.calls = @ + One(Counted(mode)),
       !.plain = IF moves THEN Append(@, e) ELSE @]

(* record_cex_observation *)
Prior(d) ==
  LET At(o) == ObsOf[o].provider
  IN {o \in DOMAIN d.obs : \A q \in DOMAIN d.obs \ {o} :
        At(q) < At(o) \/ (At(q) = At(o) /\ q \in d.obs[o].after)}

\* An observation validated at receipt is not judged by the rows around it.
ObsVerdict(d, o, validated) ==
  LET x == ObsOf[o]
      Against(P(_)) == ~validated /\ \E q \in Prior(d) : P(ObsOf[q])
      Earlier(p) == x.provider < p.provider
      SamePrice(p) == x.price = p.price
  IN CASE x.provider > x.receipt -> "INVALID"
       [] Against(Earlier) -> "INVALID"
       [] Against(SamePrice) -> "NO_NEW_TICK"
       [] OTHER -> "NEW_TICK"

\* The row that is there stays, whoever came first; a new one comes after it.
ObsRow(d, o, validated, ahead) ==
  [class |-> ObsVerdict(d, o, validated), sourced |-> validated,
   after |-> DOMAIN d.obs \cup ahead]
AfterObs(d, o, validated) ==
  [d EXCEPT !.obs = InsertNew(@, [q \in {o} |-> ObsRow(d, q, validated, {})])]

\* _record_book_snapshot_idempotent; record_book_snapshot also compares the
\* evidence of a taken key, but either way the stored row stays.
AfterBook(d, b) == [d EXCEPT !.snaps = InsertNew(@, [k \in {BookOf[b].key} |-> b])]

-----------------------------------------------------------------------------
(* persist_evaluation_bundle: the evidence, each observation with its source
   event, then the candidate with its links, what was computed, the funnel *)

CexOf(c) == Range(CandOf[c].cex)
KeysOf(c) == {BookOf[b].key : b \in CandOf[c].books}
SourcesOf(c) == {ObsOf[o].event : o \in CexOf(c)} \cup ({CandOf[c].trigger} \ {Absent})
\* The observations of the bundle before o
Ahead(c, o) == LET cex == CandOf[c].cex
               IN {cex[i] : i \in {i \in DOMAIN cex : \A j \in 1..i : cex[j] # o}}

\* Each row is new or stands, and none of them changes what another is given:
\* an event referred to moves no cursor, an observation was validated.
AfterEvidence(d, c) ==
  [d EXCEPT
    !.events = InsertNew(@, [e \in SourcesOf(c) |-> AfterEvent(d, e, "reference").events[e]]),
    !.snaps = InsertNew(@, [k \in KeysOf(c) |-> CHOOSE b \in CandOf[c].books : BookOf[b].key = k]),
    !.obs = InsertNew(@, [o \in CexOf(c) |-> ObsRow(d, o, TRUE, Ahead(c, o))])]

GraphOf(d, c) ==
  IF c \in DOMAIN d.graphs THEN d.graphs[c]
  ELSE [trigger |-> CandOf[c].trigger, books |-> {}, cex |-> {}, parts |-> {}]
AfterCandidate(d, c) ==
  [d EXCEPT !.graphs = Upsert(@, c, [GraphOf(d, c) EXCEPT !.books = @ \cup KeysOf(c),
                                                          !.cex = @ \cup CexOf(c)])]
AfterComputed(d, c) == [d EXCEPT !.graphs[c].parts = Parts]
AfterFunnel(d, c) == [d EXCEPT !.funnel[CandOf[c].window].edge = TRUE]

EvaluationPart(d, c, part) ==
  CASE part = 1 -> AfterEvidence(d, c) [] part = 2 -> AfterCandidate(d, c)
    [] part = 3 -> AfterComputed(d, c) [] part = 4 -> AfterFunnel(d, c)

(* persist_market_bundle: market and identity, window, selected link, funnel *)
MarketPart(d, m, part) ==
  LET x == MarketOf[m] IN
  CASE part = 1 -> [d EXCEPT !.markets = @ \cup {m}, !.identities = @ \cup {<<m, x.tokens>>}]
    [] part = 2 -> [d EXCEPT !.funnel =
                      InsertNew(@, [w \in {x.window} |-> [eligible |-> FALSE, edge |-> FALSE]])]
    [] part = 3 -> [d EXCEPT !.links = Upsert(@, x.window, <<m, x.tokens>>)]
    [] part = 4 -> [d EXCEPT !.funnel[x.window].eligible = x.eligible]

\* ux_window_selected_market and the keys a candidate refers to
Constrained(d, kind, of, part) ==
  CASE kind = "market" -> part = 3 =>
         LET w == MarketOf[of].window
         IN w \in DOMAIN d.links => d.links[w] = <<of, MarketOf[of].tokens>>
    [] kind = "evaluation" -> part = 2 =>
         /\ CandOf[of].window \in DOMAIN d.links
         /\ \E i \in d.identities : i[2] = CandOf[of].tokens

-----------------------------------------------------------------------------
(* transaction: nothing else runs on the connection meanwhile *)

Begin(kind, of) ==
  /\ tx = NoTx /\ tx' = [kind |-> kind, of |-> of, part |-> 1, db |-> db]
  /\ UNCHANGED db

RunPart ==
  /\ tx # NoTx /\ tx.part <= 4 /\ Constrained(tx.db, tx.kind, tx.of, tx.part)
  /\ tx' = [tx EXCEPT !.part = @ + 1,
              !.db = IF tx.kind = "market" THEN MarketPart(@, tx.of, tx.part)
                     ELSE EvaluationPart(@, tx.of, tx.part)]
  /\ UNCHANGED db

\* A part raises, for a constraint, an interrupt or a full disk.
Rollback == /\ tx # NoTx /\ tx' = NoTx /\ UNCHANGED db

Commit == /\ tx # NoTx /\ tx.part = 5 /\ db' = tx.db /\ tx' = NoTx

\* One row of telemetry is a transaction of its own.
RecordEvent(e, mode) ==
  /\ tx = NoTx /\ (Counted(mode) => db.calls < MaxCalls)
  /\ (mode = "admitted" => e \notin DOMAIN db.events)
  /\ db' = AfterEvent(db, e, mode) /\ UNCHANGED tx
RecordObservation(o) == tx = NoTx /\ db' = AfterObs(db, o, FALSE) /\ UNCHANGED tx
RecordBook(b) == tx = NoTx /\ db' = AfterBook(db, b) /\ UNCHANGED tx

EvidenceNext ==
  \/ \E e \in Events, mode \in Modes : RecordEvent(e, mode)
  \/ \E o \in Observations : RecordObservation(o)
  \/ \E b \in Books : RecordBook(b)
  \/ \E c \in Candidates : Begin("evaluation", c)
  \/ \E m \in Markets : Begin("market", m)
  \/ RunPart \/ Rollback \/ Commit

EvidenceSpec == EvidenceInit /\ [][EvidenceNext]_evidenceVars

-----------------------------------------------------------------------------
TypeOKEvidence ==
  /\ DOMAIN db.events \subseteq Events /\ DOMAIN db.graphs \subseteq Candidates
  /\ \A e \in DOMAIN db.events : db.events[e].class \in EventVerdicts
  /\ \A k \in DOMAIN db.snaps : BookOf[db.snaps[k]].key = k
  /\ tx = NoTx \/ tx.part \in 1..5

\* A candidate that is there is there whole: what was computed of it, every
\* row it refers to, and the one market of its window.
GraphWhole(d, c) ==
  LET g == d.graphs[c] IN
    /\ g.parts = Parts
    /\ g.trigger # Absent => g.trigger \in DOMAIN d.events
    /\ g.books = KeysOf(c) /\ g.books \subseteq DOMAIN d.snaps
    /\ g.cex = CexOf(c) /\ g.cex \subseteq DOMAIN d.obs
    /\ CandOf[c].window \in DOMAIN d.links /\ d.funnel[CandOf[c].window].edge
MarketWhole(d, w) ==
  d.links[w] \in d.identities /\ d.links[w][1] \in d.markets /\ w \in DOMAIN d.funnel

\* An observation with a source names a stored event.
ObsSourced(d) ==
  \A o \in DOMAIN d.obs : d.obs[o].sourced => ObsOf[o].event \in DOMAIN d.events

\* Rows that moved the cursor never go back, whatever rows of other modes came
\* between them: in sequence at all, and in time between neighbours that have one.
CursorForward(d) ==
  \A i, j \in DOMAIN d.plain : i < j =>
    LET x == EventOf[d.plain[i]] y == EventOf[d.plain[j]]
    IN /\ x.seq # Absent /\ y.seq # Absent => x.seq <= y.seq
       /\ j = i + 1 /\ x.provider # Absent /\ y.provider # Absent => x.provider <= y.provider

\* Every counted row is in the counts once, as new or as a duplicate.
CountsAddUp(d) ==
  LET keys == DOMAIN d.counts
      Raw == SumFunctionOnSet([k \in keys |-> d.counts[k].raw], keys)
      Unique == SumFunctionOnSet([k \in keys |-> d.counts[k].unique], keys)
      Dup == SumFunctionOnSet([k \in keys |-> d.counts[k].dup], keys)
  IN Raw = d.calls /\ Unique + Dup = d.calls /\ Unique >= Len(d.plain)

\* A bundle run again after it was committed changes no row and no graph: it
\* adds at most a source event that retention has taken since.
Idempotent(d, c) ==
  LET again == AfterFunnel(AfterComputed(AfterCandidate(AfterEvidence(d, c), c), c), c)
  IN /\ [again EXCEPT !.events = d.events] = d
     /\ \A e \in DOMAIN d.events : again.events[e] = d.events[e]

GraphsWhole == \A c \in DOMAIN db.graphs : GraphWhole(db, c)

EvidenceInv ==
  /\ TypeOKEvidence /\ GraphsWhole /\ ObsSourced(db) /\ CursorForward(db) /\ CountsAddUp(db)
  /\ \A w \in DOMAIN db.links : MarketWhole(db, w)
  /\ \A c \in DOMAIN db.graphs : Idempotent(db, c)

\* A row once stored keeps its verdict, its price and its book.
RowsStand ==
  /\ \A e \in DOMAIN db.events : e \in DOMAIN db'.events /\
       [db'.events[e] EXCEPT !.dups = 0] = [db.events[e] EXCEPT !.dups = 0]
  /\ \A o \in DOMAIN db.obs : o \in DOMAIN db'.obs /\ db'.obs[o] = db.obs[o]
  /\ \A k \in DOMAIN db.snaps : k \in DOMAIN db'.snaps /\ db'.snaps[k] = db.snaps[k]
  /\ \A w \in DOMAIN db.links : w \in DOMAIN db'.links /\ db'.links[w] = db.links[w]

\* An observation validated at receipt is fresh evidence for its candidate
\* whatever telemetry recorded before: "SQLite write ordering must not
\* reclassify it" (engine.py:1813).
ValidatedStaysValid ==
  \A c \in DOMAIN db.graphs :
    \A o \in db.graphs[c].cex : db.obs[o].class # "INVALID"

\* The book a candidate rests on is the one that was seen.
BooksAsSeen ==
  \A c \in DOMAIN db.graphs : \A b \in CandOf[c].books : db.snaps[BookOf[b].key] = b
=============================================================================
