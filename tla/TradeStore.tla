----------------------------- MODULE TradeStore -----------------------------
(***************************************************************************)
(* The trade tables of V4Store (lite_frequency_v4/store.py): window locks, *)
(* entries, positions, exits, management decisions, resolution attempts,   *)
(* and the cohort ledger derived from them. Every operation is one         *)
(* IMMEDIATE transaction, so it is one step; a refused one raises, is      *)
(* rolled back and leaves the tables as they were.                         *)
(*                                                                         *)
(* Tables are functions whose domain is the windows that have a row: the   *)
(* schema makes window_id unique in window_locks and entries and entry_id  *)
(* unique in positions. Money is in integer units. The idempotency key of  *)
(* a reservation and of an entry is a function of window and side          *)
(* (risk.entry_idempotency_key), so equal sides stand for equal keys.      *)
(***************************************************************************)
EXTENDS Integers, SequencesExt

CONSTANTS
  Windows,       \* five-minute windows of one asset each
  Assets, AssetOf,
  Sessions,      \* runs of the program, one launch nonce each
  Evidence, VerdictOf,  \* what the resolution source can answer, and its verdict
  Costs, Fees,   \* gross costs, and entry or exit fees
  Prices,        \* what a book exit pays
  Payout,        \* what the winning side pays
  Buffer,        \* exit fee buffer committed per open position
  StartEquity,
  MaxOpen, MaxPerAsset,
  MaxDecisions, MaxAttempts   \* bounds on the model's histories

Sides == {"YES", "NO"}
Actions == {"HOLD", "EXIT_BOOK"}
Verdicts == Sides \cup {"PENDING"}

ASSUME StoreAssumption ==
  /\ IsFiniteSet(Windows)            \* the tables are finite
  /\ AssetOf \in [Windows -> Assets]
  /\ VerdictOf \in [Evidence -> Verdicts]
  /\ Costs \subseteq Nat /\ Fees \subseteq Nat /\ Prices \subseteq Nat
  /\ Payout \in Nat /\ Buffer \in Nat /\ StartEquity \in Nat
  /\ \A fee \in Fees : fee <= Buffer  \* risk.conservative_exit_fee_buffer
  /\ MaxOpen \in Nat \ {0} /\ MaxPerAsset \in Nat \ {0}
  /\ MaxDecisions \in Nat /\ MaxAttempts \in Nat

VARIABLES
  lock,       \* window_locks
  entry,      \* entries
  position,   \* positions, by the window of their entry
  exits,      \* exits, each with its pnl_record, by window
  decisions,  \* management_decisions in decision_seq order
  attempts,   \* resolution_attempts in attempt_no order
  sessions,   \* whether each run has started, runs, or is gone
  closed      \* windows past their close time

rows == <<lock, entry, position, exits, decisions, attempts>>
storeVars == <<rows, sessions, closed>>

LockRow == [state : {"RESERVED", "ENTERED", "COMPLETE"}, side : Sides,
            session : Sessions, reserved : Nat]
EntryRow == [status : {"OPEN", "CLOSED", "UNRESOLVED_FINAL"}, side : Sides,
             cost : Nat, fee : Nat]
PositionRow == [status : {"OPEN", "CLOSED", "UNRESOLVED_FINAL"}, committed : Nat]
ExitRow == [source : {"BOOK", "OFFICIAL_RESOLUTION"}, outcome : Verdicts, net : Int]

IsTable(table, Row) ==
  /\ DOMAIN table \subseteq Windows
  /\ table = [w \in DOMAIN table |-> table[w]]
  /\ \A w \in DOMAIN table : table[w] \in Row
Insert(table, w, row) ==
  [x \in DOMAIN table \cup {w} |-> IF x = w THEN row ELSE table[x]]
Delete(table, W) == [x \in DOMAIN table \ W |-> table[x]]

StoreInit ==
  /\ lock = <<>> /\ entry = <<>> /\ position = <<>>
  /\ exits = [w \in Windows |-> <<>>]
  /\ decisions = [w \in Windows |-> <<>>]
  /\ attempts = [w \in Windows |-> <<>>]
  /\ sessions = [s \in Sessions |-> "new"]
  /\ closed = {}

-----------------------------------------------------------------------------
(* The cohort ledger: the sums create_entry and reconcile select.          *)

WithStatus(status) == {w \in DOMAIN position : position[w].status = status}
Committed(W) == SumFunctionOnSet([w \in W |-> position[w].committed], W)
OpenCount == Cardinality(WithStatus("OPEN"))
AssetOpenCount(a) == Cardinality({w \in WithStatus("OPEN") : AssetOf[w] = a})
NetResult(w) == SumFunction([i \in DOMAIN exits[w] |-> exits[w][i].net])
Realized == SumFunction([w \in Windows |-> NetResult(w)])
Equity == StartEquity + Realized
Reserved(W) ==
  SumFunction([w \in {w \in W \cap DOMAIN lock : lock[w].state = "RESERVED"} |->
                 lock[w].reserved])

\* Seeded fault: the buffers of the positions already open are not committed.
CapacityRefusalOneBuffer(w, cost, fee) ==
  IF OpenCount >= MaxOpen THEN "max_concurrent_positions"
  ELSE IF AssetOpenCount(AssetOf[w]) >= MaxPerAsset THEN "max_open_per_asset"
  ELSE IF Committed(WithStatus("OPEN")) + cost + fee + Buffer > Equity THEN "insufficient_capital"
  ELSE "none"

\* The reason create_entry gives for a capacity refusal, the first that holds.
CapacityRefusal(w, cost, fee) ==
  LET existing == Committed(WithStatus("OPEN")) + Committed(WithStatus("UNRESOLVED_FINAL"))
                    + Reserved(Windows \ {w}) + OpenCount * Buffer
  IN  IF OpenCount >= MaxOpen THEN "max_concurrent_positions"
      ELSE IF AssetOpenCount(AssetOf[w]) >= MaxPerAsset THEN "max_open_per_asset"
      ELSE IF Equity <= 0 THEN "cohort_equity_depleted"
      ELSE IF existing + cost + fee + Buffer > Equity THEN "insufficient_capital"
      ELSE "none"

-----------------------------------------------------------------------------
(* Reserving and entering a window.                                        *)

\* A lock of the other side refuses the reservation. create_entry then
\* refuses a reservation another session left, unless the window already has
\* this very entry, which it returns.
WindowConflict(w, side, s) ==
  w \in DOMAIN lock /\
    \/ lock[w].side # side
    \/ w \notin DOMAIN entry /\ lock[w].session # s

EntryExists(w, side) == w \in DOMAIN entry /\ entry[w].side = side

\* Seeded fault: the reservation stays RESERVED when the entry is created.
OpenEntryStayReserved(w, side, s, cost, fee) ==
  /\ entry' = Insert(entry, w, [status |-> "OPEN", side |-> side, cost |-> cost, fee |-> fee])
  /\ position' = Insert(position, w, [status |-> "OPEN", committed |-> cost + fee])
  /\ lock' = Insert(lock, w, [state |-> "RESERVED", side |-> side, session |-> s,
                              reserved |-> cost + fee + Buffer])
  /\ UNCHANGED <<exits, decisions, attempts>>

OpenEntry(w, side, s, cost, fee) ==
  /\ entry' = Insert(entry, w, [status |-> "OPEN", side |-> side, cost |-> cost, fee |-> fee])
  /\ position' = Insert(position, w, [status |-> "OPEN", committed |-> cost + fee])
  /\ lock' = Insert(lock, w, [state |-> "ENTERED", side |-> side, session |-> s, reserved |-> 0])
  /\ UNCHANGED <<exits, decisions, attempts>>

\* reserve_and_create_entry_bundle. The commit deadline is before the close
\* and is checked after SQLite granted the write transaction.
EnterRefusal(w, side, s, cost, fee, expired) ==
  IF expired \/ w \in closed THEN "expired"
  ELSE IF WindowConflict(w, side, s) THEN "conflict"
  ELSE IF EntryExists(w, side) THEN "none"
  ELSE CapacityRefusal(w, cost, fee)

EnterBundle(w, side, s, cost, fee, expired) ==
  /\ EnterRefusal(w, side, s, cost, fee, expired) = "none"
  /\ IF EntryExists(w, side) THEN UNCHANGED rows ELSE OpenEntry(w, side, s, cost, fee)

\* reserve_window on its own, with whatever commitment the caller names: it
\* asks for no capital.
ReserveWindow(w, side, s, amount) ==
  /\ w \notin DOMAIN lock
  /\ lock' = Insert(lock, w, [state |-> "RESERVED", side |-> side, session |-> s,
                              reserved |-> amount])
  /\ UNCHANGED <<entry, position, exits, decisions, attempts>>

\* release_window_reservation, for its owner.
ReleaseReservation(w, side, s) ==
  /\ w \notin DOMAIN entry
  /\ w \in DOMAIN lock /\ lock[w].session = s /\ lock[w].side = side
  /\ lock[w].state = "RESERVED"
  /\ lock' = Delete(lock, {w})
  /\ UNCHANGED <<entry, position, exits, decisions, attempts>>

\* create_entry on a reservation made before.
CreateEntry(w, side, s, cost, fee) ==
  /\ w \notin DOMAIN entry
  /\ w \in DOMAIN lock /\ lock[w].session = s /\ lock[w].side = side
  /\ w \notin closed
  /\ CapacityRefusal(w, cost, fee) = "none"
  /\ OpenEntry(w, side, s, cost, fee)

-----------------------------------------------------------------------------
(* Managing, resolving and closing a position.                             *)

\* Seeded fault: a replayed close settles again.
AlwaysOpen(w) == w \in DOMAIN position

IsOpen(w) == w \in DOMAIN position /\ position[w].status = "OPEN"

\* Put at index i, or leave what is there.
Record(history, i, row) == IF i <= Len(history) THEN history ELSE Append(history, row)

\* Seeded fault: the entry row keeps its status.
SettleHalf(w, source, outcome, payout, fee) ==
  /\ exits' = [exits EXCEPT ![w] = Append(@,
       [source |-> source, outcome |-> outcome,
        net |-> payout - entry[w].cost - entry[w].fee - fee])]
  /\ position' = [position EXCEPT ![w].status = "CLOSED"]
  /\ lock' = [lock EXCEPT ![w].state = "COMPLETE"]
  /\ UNCHANGED entry

Settle(w, source, outcome, payout, fee) ==
  /\ exits' = [exits EXCEPT ![w] = Append(@,
       [source |-> source, outcome |-> outcome,
        net |-> payout - entry[w].cost - entry[w].fee - fee])]
  /\ position' = [position EXCEPT ![w].status = "CLOSED"]
  /\ entry' = [entry EXCEPT ![w].status = "CLOSED"]
  /\ lock' = [lock EXCEPT ![w].state = "COMPLETE"]

NoSettlement == UNCHANGED <<exits, position, entry, lock>>

\* A bundle that asks for a close the position already had returns the exit
\* of that close; a position neither open nor with an exit refuses it.
AlreadySettled(w) == ~IsOpen(w) /\ exits[w] # <<>>

\* management_bundle at decision_seq = seq - 1, decided before the window
\* closed (the row's own timestamp is what the store compares).
ManageRefusal(w, seq, action, close) ==
  LET known == seq <= Len(decisions[w])
      history == Record(decisions[w], seq, action)
  IN  IF known /\ decisions[w][seq] # action THEN "conflict"
      ELSE IF ~known /\ ~IsOpen(w) THEN "not_open"
      ELSE IF close /\ ~AlreadySettled(w) /\ ~(IsOpen(w) /\ Last(history) = "EXIT_BOOK")
           THEN "no_exit_decision"
      ELSE "none"

ManageBundle(w, seq, action, close, price, fee) ==
  /\ w \in DOMAIN position
  /\ ManageRefusal(w, seq, action, close) = "none"
  /\ decisions' = [decisions EXCEPT ![w] = Record(@, seq, action)]
  /\ IF close /\ IsOpen(w) THEN Settle(w, "BOOK", "PENDING", price, fee) ELSE NoSettlement
  /\ UNCHANGED attempts

\* close_position settles by the latest verified attempt, which must name the
\* outcome.
LatestVerdict(history, outcome) ==
  \E i \in DOMAIN history :
    /\ VerdictOf[history[i]] = outcome
    /\ \A j \in DOMAIN history : j > i => VerdictOf[history[j]] \notin Sides

\* Seeded fault: the outcome is the caller's word.
ResolveRefusalTrusting(w, no, e, close, outcome) ==
  IF no <= Len(attempts[w]) /\ attempts[w][no] # e THEN "conflict" ELSE "none"

\* resolution_bundle for attempt_no; the caller closes with its own outcome,
\* which the store compares with the latest verified attempt.
ResolveRefusal(w, no, e, close, outcome) ==
  IF no <= Len(attempts[w]) /\ attempts[w][no] # e THEN "conflict"
  ELSE IF close /\ ~AlreadySettled(w)
            /\ ~(IsOpen(w) /\ LatestVerdict(Record(attempts[w], no, e), outcome))
       THEN "unverified"
  ELSE "none"

ResolveBundle(w, no, e, close, outcome) ==
  /\ w \in DOMAIN entry
  /\ ResolveRefusal(w, no, e, close, outcome) = "none"
  /\ attempts' = [attempts EXCEPT ![w] = Record(@, no, e)]
  /\ IF close /\ IsOpen(w)
     THEN Settle(w, "OFFICIAL_RESOLUTION", outcome,
                 IF outcome = entry[w].side THEN Payout ELSE 0, 0)
     ELSE NoSettlement
  /\ UNCHANGED decisions

\* mark_unresolved_final asks nothing about the position's status.
MarkUnresolvedFinal(w) ==
  /\ w \in DOMAIN position
  /\ entry' = [entry EXCEPT ![w].status = "UNRESOLVED_FINAL"]
  /\ position' = [position EXCEPT ![w].status = "UNRESOLVED_FINAL"]
  /\ UNCHANGED <<lock, exits, decisions, attempts>>

-----------------------------------------------------------------------------
(* Startup reconciliation.                                                 *)

\* The windows each of reconcile_startup_state's counts finds, and its ledger
\* check; the writer refuses to start when any of them is not empty.
Inconsistencies ==
  [entries_without_positions |-> DOMAIN entry \ DOMAIN position,
   open_entry_position_mismatch |->
     {w \in DOMAIN entry \cap DOMAIN position :
        entry[w].status = "OPEN" <=> position[w].status # "OPEN"},
   closed_positions_without_exit |-> {w \in WithStatus("CLOSED") : exits[w] = <<>>},
   exits_with_nonclosed_position |->
     {w \in DOMAIN position : exits[w] # <<>> /\ position[w].status # "CLOSED"},
   duplicate_position_exits |-> {w \in Windows : Len(exits[w]) > 1}]

LedgerViolated ==
  Committed(WithStatus("OPEN") \cup WithStatus("UNRESOLVED_FINAL"))
    + Reserved(Windows) > Equity

Consistent ==
  /\ \A count \in DOMAIN Inconsistencies : Inconsistencies[count] = {}
  /\ ~LedgerViolated

\* Seeded fault: every reservation without an entry is released.
StaleAll(s, absent) == {w \in DOMAIN lock \ DOMAIN entry : lock[w].state = "RESERVED"}

Stale(s, absent) ==
  {w \in DOMAIN lock \ DOMAIN entry :
     lock[w].state = "RESERVED" /\ lock[w].session \in absent \ {s}}

\* reconcile_startup_state in the run s, given the runs proven absent; the
\* releases are committed even if the run then refuses to start.
Reconcile(s, absent) ==
  /\ lock' = Delete(lock, Stale(s, absent))
  /\ sessions' = [sessions EXCEPT ![s] = IF Consistent THEN "live" ELSE "gone"]
  /\ UNCHANGED <<entry, position, exits, decisions, attempts, closed>>

Gone(s) == sessions[s] = "gone"

Startup(s, absent) ==
  /\ sessions[s] = "new"
  /\ \A x \in absent : Gone(x)
  /\ Reconcile(s, absent)

End(s) ==
  /\ sessions[s] = "live"
  /\ sessions' = [sessions EXCEPT ![s] = "gone"]
  /\ UNCHANGED <<rows, closed>>

CloseWindow(w) ==
  /\ w \notin closed
  /\ closed' = closed \cup {w}
  /\ UNCHANGED <<rows, sessions>>

-----------------------------------------------------------------------------
\* The operations a run of the program sends to the store.
Trade(s) ==
  /\ sessions[s] = "live"
  /\ UNCHANGED <<sessions, closed>>
  /\ \E w \in Windows :
       \/ \E side \in Sides, cost \in Costs, fee \in Fees, expired \in BOOLEAN :
            EnterBundle(w, side, s, cost, fee, expired)
       \/ \E seq \in 1..MaxDecisions, action \in Actions, close \in BOOLEAN,
             price \in Prices, fee \in Fees :
            /\ seq <= Len(decisions[w]) + 1
            /\ ManageBundle(w, seq, action, close, price, fee)
       \/ \E no \in 1..MaxAttempts, e \in Evidence, close \in BOOLEAN, outcome \in Sides :
            /\ w \in closed
            /\ no <= Len(attempts[w]) + 1
            /\ ResolveBundle(w, no, e, close, outcome)

\* The operations the store offers besides; nothing in the engine sends them.
Unused(s) ==
  /\ sessions[s] = "live"
  /\ UNCHANGED <<sessions, closed>>
  /\ \E w \in Windows :
       \/ \E side \in Sides, amount \in Costs : ReserveWindow(w, side, s, amount)
       \/ \E side \in Sides : ReleaseReservation(w, side, s)
       \/ \E side \in Sides, cost \in Costs, fee \in Fees : CreateEntry(w, side, s, cost, fee)
       \/ MarkUnresolvedFinal(w)

Surroundings ==
  \/ \E s \in Sessions :
       End(s) \/ \E absent \in SUBSET Sessions : Startup(s, absent)
  \/ \E w \in Windows : CloseWindow(w)

StoreNext == Surroundings \/ \E s \in Sessions : Trade(s)
StoreSpec == StoreInit /\ [][StoreNext]_storeVars

\* Every operation of the store, those nothing sends included.
ApiNext == StoreNext \/ \E s \in Sessions : Unused(s)
ApiSpec == StoreInit /\ [][ApiNext]_storeVars

-----------------------------------------------------------------------------
TypeOK ==
  /\ IsTable(lock, LockRow)
  /\ IsTable(entry, EntryRow)
  /\ IsTable(position, PositionRow)
  /\ exits \in [Windows -> Seq(ExitRow)]
  /\ decisions \in [Windows -> Seq(Actions)]
  /\ attempts \in [Windows -> Seq(Evidence)]
  /\ \A w \in Windows : Len(attempts[w]) <= MaxAttempts /\ Len(decisions[w]) <= MaxDecisions
  /\ sessions \in [Sessions -> {"new", "live", "gone"}]
  /\ closed \subseteq Windows

\* The four rows of a window's life agree, although create_entry, both
\* bundles and reconciliation each write only some of them: an entry has its
\* position and the lock of its side, ENTERED while open and COMPLETE once
\* closed, and exactly one exit then and none before.
LifecyclesAgree ==
  /\ DOMAIN entry = DOMAIN position
  /\ \A w \in DOMAIN entry :
       /\ entry[w].status = position[w].status
       /\ position[w].committed = entry[w].cost + entry[w].fee
       /\ w \in DOMAIN lock /\ lock[w].side = entry[w].side
       /\ \/ entry[w].status = "OPEN" /\ lock[w].state = "ENTERED" /\ Len(exits[w]) = 0
          \/ entry[w].status = "CLOSED" /\ lock[w].state = "COMPLETE" /\ Len(exits[w]) = 1
  /\ \A w \in Windows \ DOMAIN entry : exits[w] = <<>> /\ decisions[w] = <<>>

\* No sequence of commands brings the tables into a state that startup
\* reconciliation reports and the writer refuses to start on, the ledger
\* check of committed capital against equity included.
RestartAccepted == Consistent

\* An exit rests on evidence in the same database: a book exit on EXIT_BOOK
\* as the last management decision there will ever be, an official one on a
\* verified attempt with that outcome, whatever attempts follow; its net
\* result is what it paid less the exit fee and the entry's cost and fee.
EvidencedExit ==
  \A w \in Windows : exits[w] # <<>> =>
    LET x == exits[w][1]
        spent == entry[w].cost + entry[w].fee
    IN  IF x.source = "BOOK"
        THEN /\ Last(decisions[w]) = "EXIT_BOOK"
             /\ \E price \in Prices, fee \in Fees : x.net = price - fee - spent
        ELSE /\ \E i \in DOMAIN attempts[w] : VerdictOf[attempts[w][i]] = x.outcome
             /\ x.net = (IF x.outcome = entry[w].side THEN Payout ELSE 0) - spent

RecordStands ==
  /\ \A w \in DOMAIN entry :
       /\ w \in DOMAIN entry'
       /\ entry'[w].side = entry[w].side /\ entry'[w].cost = entry[w].cost
  /\ \A w \in Windows : exits[w] # <<>> => exits'[w] = exits[w]

\* What is recorded of a trade stands: whoever replays, retries, resolves late
\* or restarts, an entry keeps its side and cost, and an exit stays the only
\* one.
HistoryStands == [][RecordStands]_storeVars

ReleaseJustified ==
  \A w \in DOMAIN lock \ DOMAIN lock' :
    /\ w \notin DOMAIN entry
    /\ sessions' # sessions => Gone(lock[w].session)

\* A starting run takes away no reservation of a run that is still alive, and
\* nothing takes away one a trade came of; recovery is conservative, as the
\* docstring of reconcile_startup_state says.
LiveReservationsKept == [][ReleaseJustified]_storeVars

Ledger == INSTANCE CohortLedger WITH
  equity <- Equity, held <- Committed(WithStatus("OPEN")), open <- OpenCount,
  Amounts <- {cost + fee : cost \in Costs, fee \in Fees} \cup Prices \cup Fees \cup {0, Payout}

\* The tables implement the cohort ledger: each admission is covered by
\* equity, and each close returns what it must.
ImplementsLedger == Ledger!LedgerSpec
=============================================================================
