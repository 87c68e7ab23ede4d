---------------------------- MODULE LegacyTrader ----------------------------
(***************************************************************************)
(* The legacy program (core/app.py with execution/, portfolio/ and risk/)  *)
(* in its shadow mode: the trade loop that exits and enters, the sweep of  *)
(* the panic callback and of /close_all, the time-in-force timers and the  *)
(* hygiene loop, the operator's commands, and restarts.                    *)
(* All of it is one event loop, and the simulated client answers without a *)
(* suspension, so `turn` names the task that runs until its next await and *)
(* nothing else moves meanwhile.                                           *)
(***************************************************************************)
EXTENDS Integers, Sequences, FiniteSets

CONSTANTS
  Tokens,      \* outcome tokens, each of a market of its own
  EntryShares, \* shares of an entry
  MaxChases,   \* sell_execution.max_chase_ticks
  MaxHeld,     \* max_open_positions
  ExitCutoff,  \* DEFAULT_STUCK_EXIT_CUTOFF_MS, in ticks
  AgeCutoff,   \* DEFAULT_CUTOFF_AGE_MS, in ticks
  MaxTime,     \* bound on the clock
  MaxOrders,   \* bound on orders
  MaxCommands, \* bound on the operator's commands
  MaxLaunches  \* bound on launches

ASSUME LegacyAssumption ==
  /\ {EntryShares, MaxHeld, ExitCutoff, MaxLaunches} \subseteq Nat \ {0}
  /\ {MaxCommands, AgeCutoff, MaxChases, MaxTime, MaxOrders} \subseteq Nat /\ IsFiniteSet(Tokens)

VARIABLES
  clock,    \* the clock
  launches, \* launches of the program so far
  commands, \* commands of the operator so far
  held,     \* shares the client holds of each token
  pos,      \* shares the portfolio holds of each token
  writtenOff, \* shares written off, still held by the client (history)
  orders,   \* every order ever made, with its row in the database
  turn,     \* the task that runs, or "" when every task awaits
  loop,     \* where the trade loop is
  exits,    \* the execute_exit of each of the two tasks
  sweep,    \* positions the sweep has left, and whether one is in progress
  callbacks,\* panic callbacks scheduled
  panic, kill, paused,
  stuck,    \* _exit_stuck_since_ms, NotStuck where there is none
  alarmed,  \* _panic_triggered_tokens
  swept     \* a sweep has sold something in this launch (history)

control == <<panic, kill, paused, callbacks, commands>>
memory == <<held, pos, writtenOff, stuck, alarmed, swept>>
legacyVars == <<clock, launches, memory, orders, turn, loop, exits, sweep, control>>

NotStuck == -1
MaxCallbacks == 2
Sellers == {"loop", "sweep"}
NoExit == [at |-> "none", token |-> "", target |-> 0, filled |-> 0, chases |-> 0,
           id |-> 0, urgent |-> FALSE]
Idle == [at |-> "idle", todo |-> {}, since |-> 0, token |-> ""]
NoSweep == [on |-> FALSE, todo |-> {}]

Resting == {"OPEN", "PARTIAL_FILL"}
Ended == {"CANCELLED", "FAILED", "RECONCILED"}

TypeOKLegacy ==
  /\ clock \in 0..MaxTime /\ launches \in 1..MaxLaunches
  /\ commands \in 0..MaxCommands
  /\ {held, pos, writtenOff} \subseteq [Tokens -> 0..(MaxOrders * EntryShares)]
  /\ orders \in Seq([token : Tokens, buy : BOOLEAN, timer : BOOLEAN,
       state : Resting \cup Ended \cup {"MATCHED"}, frozen : BOOLEAN,
       row : Resting \cup Ended \cup {"MATCHED", "none"}, resting : BOOLEAN,
       born : 1..MaxLaunches, made : 0..MaxTime])
  /\ turn \in Sellers \cup {""}
  /\ loop \in [at : {"idle", "exits", "exit", "evaluate"}, todo : SUBSET Tokens,
               since : 0..MaxTime, token : Tokens \cup {""}]
  /\ exits \in [Sellers ->
       [at : {"none", "submit", "after", "sleep", "cross", "done", "raised"},
        token : Tokens \cup {""}, target : Nat, filled : Nat,
        chases : 0..MaxChases, id : 0..MaxOrders, urgent : BOOLEAN]]
  /\ sweep \in [on : BOOLEAN, todo : SUBSET Tokens] /\ callbacks \in 0..MaxCallbacks
  /\ {panic, kill, paused, swept} \subseteq BOOLEAN
  /\ stuck \in [Tokens -> 0..MaxTime \cup {NotStuck}] /\ alarmed \subseteq Tokens

Positions == {t \in Tokens : pos[t] > 0}

LegacyInit ==
  /\ clock = 0 /\ launches = 1 /\ commands = 0 /\ orders = <<>> /\ turn = ""
  /\ held = [t \in Tokens |-> 0] /\ pos = held /\ writtenOff = held
  /\ loop = Idle /\ exits = [a \in Sellers |-> NoExit] /\ sweep = NoSweep
  /\ panic = FALSE /\ kill = FALSE /\ paused = FALSE /\ callbacks = 0
  /\ stuck = [t \in Tokens |-> NotStuck] /\ alarmed = {} /\ swept = FALSE

-----------------------------------------------------------------------------
(* Orders: execution/order_manager.py over execution/simulator.py *)

\* What submit leaves of an order of `size` shares that fills k of them: a
\* full fill is matched, anything else rests and gets its timer.
Placed(t, buy, size, k) ==
  [token |-> t, buy |-> buy, born |-> launches, made |-> clock, row |-> "none",
   frozen |-> panic \/ kill, timer |-> k < size, resting |-> k < size,
   state |-> IF k = size THEN "MATCHED"
             ELSE IF k > 0 THEN "PARTIAL_FILL" ELSE "OPEN"]

\* The client refuses to sell what it does not hold: submit raises.
Refused(t) == [Placed(t, FALSE, 1, 0) EXCEPT !.state = "FAILED",
                                             !.timer = FALSE, !.resting = FALSE]

\* The row of an order whose cancellation is not persisted
CancelledUntold(o) ==
  IF o.state \notin Resting THEN o
  ELSE [o EXCEPT !.state = IF o.resting THEN "CANCELLED" ELSE "FAILED",
                 !.resting = FALSE, !.timer = FALSE]

\* cancel: nothing for an order that is matched or ended. on_update rewrites
\* the row, where there is one. The timer of an order that ended does nothing
\* when it fires, and is dropped here.
Cancelled(o) ==
  IF o.state \notin Resting THEN o
  ELSE LET state == IF o.resting THEN "CANCELLED" ELSE "FAILED"
       IN [o EXCEPT !.state = state, !.resting = FALSE, !.timer = FALSE,
                    !.row = IF o.row = "none" THEN "none" ELSE state]

\* The orders of an earlier launch have no owner left.
Owned(o) == o.born = launches

CancelAll(s) == [i \in DOMAIN s |-> IF Owned(s[i]) THEN Cancelled(s[i]) ELSE s[i]]

\* _cancel_later
TimerFires(i) ==
  /\ turn = "" /\ Owned(orders[i]) /\ orders[i].timer
  /\ orders' = [orders EXCEPT ![i] = Cancelled(orders[i])]
  /\ UNCHANGED <<clock, launches, memory, turn, loop, exits, sweep, control>>

\* _order_hygiene_loop: cancel_stale
Hygiene ==
  LET stale(o) == Owned(o) /\ o.state = "OPEN" /\ clock > o.made
  IN /\ turn = "" /\ \E i \in DOMAIN orders : stale(orders[i])
     /\ orders' = [i \in DOMAIN orders |->
                     IF stale(orders[i]) THEN Cancelled(orders[i]) ELSE orders[i]]
     /\ UNCHANGED <<clock, launches, memory, turn, loop, exits, sweep, control>>

-----------------------------------------------------------------------------
(* execute_exit, for the loop and for the sweep *)

Go(a, at) == [exits EXCEPT ![a].at = at]

\* The first request: none can be built for a position that is gone or a book
\* without a bid, and execute_exit raises.
BeginExit(a, t, shares, urgent) ==
  exits' = [exits EXCEPT ![a] = [NoExit EXCEPT !.token = t, !.target = shares,
                                   !.urgent = urgent, !.at = "submit"]]

\* submit: the client refuses, or fills some of what is left.
SubmitExit(a) ==
  LET x == exits[a]  left == x.target - x.filled
  IN /\ turn = a /\ x.at \in {"submit", "cross"} /\ Len(orders) < MaxOrders
     /\ IF left = 0 \/ left > held[x.token]
        THEN /\ exits' = Go(a, "raised") /\ UNCHANGED <<memory>>
             /\ orders' = IF left = 0 THEN orders ELSE Append(orders, Refused(x.token))
        ELSE \E k \in 0..left :
               /\ orders' = Append(orders, Placed(x.token, FALSE, left, k))
               /\ held' = [held EXCEPT ![x.token] = @ - k]
               /\ swept' = (swept \/ (a = "sweep" /\ k > 0))
               /\ exits' = [exits EXCEPT ![a].filled = @ + k,
                              ![a].id = Len(orders) + 1,
                              ![a].at = IF x.at = "cross" \/ k = left
                                        THEN "done" ELSE "after"]
               /\ UNCHANGED <<pos, writtenOff, stuck, alarmed>>
     /\ UNCHANGED <<clock, launches, turn, loop, sweep, control>>

\* No bid to price the request from.
NoBid(a) ==
  /\ turn = a /\ exits[a].at = "submit" /\ exits[a].id = 0
  /\ exits' = Go(a, "raised")
  /\ UNCHANGED <<clock, launches, memory, orders, turn, loop, sweep, control>>

\* After a submission that left something: wait to chase it, cross to the bid
\* in an urgent exit, or give the rest up.
AfterSubmit(a) ==
  LET x == exits[a]
  IN /\ turn = a /\ x.at = "after"
     /\ \/ x.chases < MaxChases /\ exits' = Go(a, "sleep") /\ turn' = ""
           /\ UNCHANGED orders
        \/ x.chases = MaxChases /\ x.urgent /\ exits' = Go(a, "cross")
           /\ orders' = [orders EXCEPT ![x.id] = Cancelled(@)] /\ UNCHANGED turn
        \/ x.chases = MaxChases /\ exits' = Go(a, "done")
           /\ UNCHANGED <<orders, turn>>
     /\ UNCHANGED <<clock, launches, memory, loop, sweep, control>>

\* The sleep ends: cancel, and submit the rest a tick lower, unless that is
\* under the floor.
Chase(a) ==
  LET x == exits[a]
  IN /\ turn = "" /\ x.at = "sleep"
     /\ orders' = [orders EXCEPT ![x.id] = Cancelled(@)] /\ turn' = a
     /\ \E at \in {"submit", "done"} :
          exits' = [exits EXCEPT ![a].at = at, ![a].chases = @ + 1]
     /\ UNCHANGED <<clock, launches, memory, loop, sweep, control>>

-----------------------------------------------------------------------------
(* Panic, the sweep and the operator *)

\* PanicMode.activate schedules its callback the first time only.
Activate ==
  /\ panic' = TRUE
  /\ callbacks' = IF panic THEN callbacks ELSE callbacks + 1

\* close_everything, or nothing when one is in progress
StartSweep ==
  IF sweep.on THEN turn' = "" /\ UNCHANGED sweep
  ELSE turn' = "sweep" /\ sweep' = [on |-> TRUE, todo |-> Positions]

\* _on_panic
OnPanic ==
  /\ turn = "" /\ callbacks > 0 /\ callbacks' = callbacks - 1
  /\ orders' = CancelAll(orders) /\ StartSweep
  /\ UNCHANGED <<clock, launches, memory, loop, exits, panic, kill, paused, commands>>

\* The next position of the sweep, or its end
SweepNext ==
  /\ turn = "sweep" /\ exits["sweep"].at = "none"
  /\ IF sweep.todo = {} THEN sweep' = NoSweep /\ turn' = "" /\ UNCHANGED exits
     ELSE \E t \in sweep.todo :
            /\ BeginExit("sweep", t, pos[t], TRUE) /\ sweep' = [sweep EXCEPT !.todo = @ \ {t}]
            /\ UNCHANGED turn
  /\ UNCHANGED <<clock, launches, memory, orders, loop, control>>

\* Its exit returned or raised: the sweep only notes which, and the portfolio
\* is not told of the fills.
SweepExitEnds ==
  /\ turn = "sweep" /\ exits["sweep"].at \in {"done", "raised"}
  /\ exits' = [exits EXCEPT !["sweep"] = NoExit]
  /\ UNCHANGED <<clock, launches, memory, orders, turn, loop, sweep, control>>

\* /pause /resume /panic /clear_panic /mode_shadow /close_all /cancel_orders
Command ==
  /\ turn = "" /\ commands < MaxCommands /\ commands' = commands + 1
  /\ UNCHANGED <<clock, launches, memory, loop, exits>>
  /\ \/ paused' = TRUE /\ UNCHANGED <<panic, kill, callbacks, orders, turn, sweep>>
     \/ ~panic /\ paused' = FALSE
        /\ UNCHANGED <<panic, kill, callbacks, orders, turn, sweep>>
     \/ Activate /\ UNCHANGED <<kill, paused, orders, turn, sweep>>
     \/ panic' = FALSE /\ callbacks < MaxCallbacks \* bounds the callbacks
        /\ UNCHANGED <<kill, paused, callbacks, orders, turn, sweep>>
     \/ kill' = TRUE /\ paused' = TRUE
        /\ UNCHANGED <<panic, callbacks, orders, turn, sweep>>
     \/ ~sweep.on /\ orders' = CancelAll(orders) /\ StartSweep
        /\ UNCHANGED <<panic, kill, paused, callbacks>>
     \/ orders' = CancelAll(orders)
        /\ UNCHANGED <<panic, kill, paused, callbacks, turn, sweep>>

-----------------------------------------------------------------------------
(* The trade loop *)

\* _manage_exits: forget how long the closed ones were stuck, and see which
\* positions have a reason to exit (all of them in a panic).
StartCycle ==
  /\ turn = "" /\ loop.at = "idle" /\ turn' = "loop"
  /\ stuck' = [t \in Tokens |-> IF pos[t] > 0 THEN stuck[t] ELSE NotStuck]
  /\ alarmed' = alarmed \cap Positions
  /\ \E firing \in IF panic \/ kill THEN {Positions} ELSE SUBSET Positions :
       loop' = [Idle EXCEPT !.at = "exits", !.todo = firing, !.since = clock]
  /\ UNCHANGED <<clock, launches, held, pos, writtenOff, swept, orders, exits, sweep,
                 control>>

\* settle_resolution(won=False): the position is gone and the client not asked
WriteOff(t) ==
  /\ pos' = [pos EXCEPT ![t] = 0] /\ writtenOff' = [writtenOff EXCEPT ![t] = @ + pos[t]]
  /\ stuck' = [stuck EXCEPT ![t] = NotStuck] /\ alarmed' = alarmed \ {t}

\* The next exit: written off when the first try is long ago, put off when
\* there is no book, otherwise sold.
NextExit(t) ==
  LET first == IF stuck[t] = NotStuck THEN loop.since ELSE stuck[t]
      rest == [loop EXCEPT !.todo = @ \ {t}]
  IN /\ turn \in {"", "loop"} /\ loop.at = "exits" /\ t \in loop.todo
     /\ \/ /\ loop.since - first >= ExitCutoff /\ WriteOff(t) /\ turn' = ""
           /\ loop' = rest /\ UNCHANGED exits
        \/ /\ loop.since - first < ExitCutoff
           /\ stuck' = [stuck EXCEPT ![t] = first] /\ turn' = "loop"
           /\ \/ loop' = rest /\ UNCHANGED exits
              \/ /\ \E urgent \in IF panic \/ kill THEN {TRUE} ELSE BOOLEAN :
                      \E n \in IF urgent THEN {pos[t]} ELSE 1..pos[t] :
                        BeginExit("loop", t, n, urgent)
                 /\ loop' = [rest EXCEPT !.at = "exit"]
           /\ UNCHANGED <<pos, writtenOff, alarmed>>
     /\ UNCHANGED <<clock, launches, held, swept, orders, sweep, control>>

\* _execute_exit after execute_exit: the row, and the fills told to the
\* portfolio.
ExitDone ==
  LET x == exits["loop"]  t == x.token
  IN /\ turn = "loop" /\ x.at = "done"
     /\ orders' = [orders EXCEPT ![x.id].row = orders[x.id].state]
     /\ pos' = [pos EXCEPT ![t] = @ - x.filled]
     /\ stuck' = [stuck EXCEPT ![t] = IF x.filled > 0 THEN NotStuck ELSE @]
     /\ alarmed' = IF x.filled > 0 THEN alarmed \ {t} ELSE alarmed
     /\ exits' = [exits EXCEPT !["loop"] = NoExit]
     /\ loop' = [loop EXCEPT !.at = "exits"] /\ turn' = ""
     /\ UNCHANGED <<clock, launches, held, writtenOff, swept, sweep, control>>

\* execute_exit raised: what was filled before is not told, and an urgent exit
\* raises a panic, once for each token.
ExitRaised ==
  LET x == exits["loop"]  t == x.token
      alarm == x.urgent /\ t \notin alarmed
  IN /\ turn = "loop" /\ x.at = "raised"
     /\ IF alarm THEN Activate ELSE UNCHANGED <<panic, callbacks>>
     /\ alarmed' = IF alarm THEN alarmed \cup {t} ELSE alarmed
     /\ exits' = [exits EXCEPT !["loop"] = NoExit]
     /\ loop' = [loop EXCEPT !.at = "exits"]
     /\ UNCHANGED <<clock, launches, held, pos, writtenOff, stuck, swept, orders, turn,
                    sweep, kill, paused, commands>>

\* _scan_entries: an evaluation that awaits a book or a second look, or none
Scan ==
  /\ turn \in {"", "loop"} /\ loop.at = "exits" /\ loop.todo = {} /\ turn' = ""
  /\ \/ loop' = Idle
     \/ /\ ~paused /\ ~panic /\ ~kill
        /\ \E t \in Tokens : loop' = [Idle EXCEPT !.at = "evaluate", !.token = t]
  /\ UNCHANGED <<clock, launches, memory, orders, exits, sweep, control>>

\* check_entry: the limits of the portfolio
WithinLimits(t) == pos[t] = 0 /\ Cardinality(Positions) < MaxHeld

\* The hard checks, which come after the last await of an evaluation
HardChecks == ~panic /\ ~kill

\* _execute_entry: the order and its row, and its fills told to the portfolio
Enter(t, k) ==
  LET o == Placed(t, TRUE, EntryShares, k)
  IN /\ orders' = Append(orders, [o EXCEPT !.row = o.state])
     /\ held' = [held EXCEPT ![t] = @ + k]
     /\ pos' = [pos EXCEPT ![t] = @ + k]

\* _evaluate_market after its awaits: reject, or enter
Evaluate ==
  LET t == loop.token
  IN /\ turn = "" /\ loop.at = "evaluate" /\ loop' = Idle
     /\ \/ UNCHANGED <<held, pos, orders>>
        \/ /\ HardChecks /\ WithinLimits(t) /\ Len(orders) < MaxOrders
           /\ \E k \in 0..EntryShares : Enter(t, k)
     /\ UNCHANGED <<clock, launches, writtenOff, stuck, alarmed, swept, turn, exits,
                    sweep, control>>

-----------------------------------------------------------------------------
ClockTicks ==
  /\ turn = "" /\ clock < MaxTime /\ clock' = clock + 1
  /\ UNCHANGED <<launches, memory, orders, turn, loop, exits, sweep, control>>

\* What a launch that ended leaves of an order: its row
Gone(o) == [o EXCEPT !.state = "FAILED", !.timer = FALSE, !.resting = FALSE,
                     !.frozen = FALSE]

\* The program ends, by a crash or a shutdown, and starts again: everything
\* but the rows is gone. reconcile_stale_orders closes the old open rows,
\* when it can back the database up.
Restart ==
  /\ launches < MaxLaunches /\ launches' = launches + 1
  /\ held' = [t \in Tokens |-> 0] /\ pos' = held' /\ writtenOff' = held'
  /\ turn' = "" /\ loop' = Idle /\ exits' = [a \in Sellers |-> NoExit]
  /\ sweep' = NoSweep /\ panic' = FALSE /\ kill' = FALSE /\ paused' = FALSE
  /\ callbacks' = 0 /\ stuck' = [t \in Tokens |-> NotStuck] /\ alarmed' = {}
  /\ swept' = FALSE
  /\ \E backed \in BOOLEAN :
       orders' = [i \in DOMAIN orders |->
         [Gone(orders[i]) EXCEPT !.row =
            IF backed /\ @ \in Resting /\ clock - orders[i].made > AgeCutoff
            THEN "RECONCILED" ELSE @]]
  /\ UNCHANGED <<clock, commands>>

LegacyNext ==
  \/ \E i \in DOMAIN orders : TimerFires(i)
  \/ Hygiene \/ OnPanic \/ SweepNext \/ SweepExitEnds \/ Command
  \/ StartCycle \/ ExitDone \/ ExitRaised \/ Scan \/ Evaluate
  \/ \E t \in Tokens : NextExit(t)
  \/ \E a \in Sellers : SubmitExit(a) \/ NoBid(a) \/ AfterSubmit(a) \/ Chase(a)
  \/ ClockTicks \/ Restart

LegacySpec == LegacyInit /\ [][LegacyNext]_legacyVars

-----------------------------------------------------------------------------
\* Shares of t an exit of the loop has sold and not yet told
Untold(t) == IF exits["loop"].token = t THEN exits["loop"].filled ELSE 0

\* However exits are chased, cancelled under them by timers, and joined by
\* sweeps, the portfolio never claims less than the client holds of what was
\* bought and not written off, and exactly that while no sweep has sold.
SharesAccounted ==
  \A t \in Tokens :
    /\ pos[t] + writtenOff[t] >= held[t] + Untold(t)
    /\ ~swept => pos[t] + writtenOff[t] = held[t] + Untold(t)

\* An order of this launch rests at the client exactly while its record says
\* so, and only with a timer that will cancel it; when no task is between two
\* awaits its row, where it has one, tells its state.
OrdersTold ==
  \A i \in DOMAIN orders :
    Owned(orders[i]) =>
      /\ orders[i].resting <=> orders[i].state \in Resting
      /\ orders[i].resting => orders[i].timer
      /\ turn = "" /\ orders[i].row # "none" => orders[i].row = orders[i].state

\* A panic or a kill that comes while an evaluation awaits stops its entry.
FrozenNeverBuys == \A i \in DOMAIN orders : orders[i].buy => ~orders[i].frozen

LegacySound ==
  TypeOKLegacy /\ SharesAccounted /\ OrdersTold /\ FrozenNeverBuys

\* What core/app.py:84 says of the stuck timer: a position is written off
\* after its exits have been failing continuously, not while the client has
\* already sold it.
WriteOffIsHeld == \A t \in Tokens : writtenOff[t] <= held[t]
=============================================================================
