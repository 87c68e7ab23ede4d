---------------------------- MODULE TradeEngine ----------------------------
(***************************************************************************)
(* The part of FrequencyV4Engine (lite_frequency_v4/engine.py) that        *)
(* trades, on top of the tables of TradeStore. Two asyncio tasks send      *)
(* commands and wait for their acknowledgement: the evaluation loop, which *)
(* enters and manages positions, and the resolution loop. The writer       *)
(* commits commands of one window in the order of submission, and the      *)
(* event loop hands acknowledgements back in the order of the commits. A   *)
(* wait that times out leaves its command to be committed later, or never. *)
(* What the engine remembers is rebuilt from the tables at every start.    *)
(*                                                                         *)
(* Left out: how evidence is judged (which entries, exits and actions are  *)
(* proposed is arbitrary), the intervals of management samples and of      *)
(* resolution retries, and the other reasons of _execution_blocked_reason. *)
(***************************************************************************)
EXTENDS TradeStore

CONSTANT MaxFaults   \* bound: timeouts and failed commands

ASSUME EngineAssumption == MaxFaults \in Nat /\ "global" \notin Assets

VARIABLES
  entered,    \* _entered_window_ids
  cache,      \* _position_cache: is the row of an open position full or bare
  openCount,  \* _open_positions_count
  nextSeq,    \* _management_seq
  tried,      \* _resolution_state: the last attempt number
  blocks,     \* _entry_capacity_blocks: the reason, by scope
  failed,     \* _critical_failure_reason is set
  eval,       \* the evaluation task: what it does, for which window
  resolve,    \* the resolution task, and the rows left of its query
  queue,      \* commands the writer has not committed
  acks,       \* commands with their outcome, on their way to the event loop
  faults

memory == <<entered, cache, openCount, nextSeq, tried, blocks>>
tasks == <<eval, resolve>>
engineVars == <<memory, failed, tasks, queue, acks, faults>>
allVars == <<storeVars, engineVars>>

Idle == [pc |-> "idle"]
Running == \E s \in Sessions : sessions[s] = "live"
Me == CHOOSE s \in Sessions : sessions[s] = "live"
Scopes == Assets \cup {"global"}

Forget ==
  /\ entered' = {} /\ cache' = <<>> /\ openCount' = 0 /\ blocks' = <<>>
  /\ nextSeq' = [w \in Windows |-> 0] /\ tried' = [w \in Windows |-> 0]
  /\ failed' = FALSE

EngineInit ==
  /\ StoreInit
  /\ entered = {} /\ cache = <<>> /\ openCount = 0 /\ blocks = <<>>
  /\ nextSeq = [w \in Windows |-> 0] /\ tried = [w \in Windows |-> 0]
  /\ failed = FALSE
  /\ eval = Idle /\ resolve = Idle
  /\ queue = <<>> /\ acks = <<>> /\ faults = 0

-----------------------------------------------------------------------------
(* Commands. "from" is the task that waits for the command, "none" once it *)
(* has given up.                                                           *)

EnterCommand(w, side, cost, fee) ==
  [kind |-> "enter", from |-> "eval", w |-> w, side |-> side, cost |-> cost, fee |-> fee]
ManageCommand(w, seq, action, price, fee) ==
  [kind |-> "manage", from |-> "eval", w |-> w, seq |-> seq, action |-> action,
   price |-> price, fee |-> fee]
ResolveCommand(w, no, e) ==
  [kind |-> "resolve", from |-> "resolve", w |-> w, no |-> no, e |-> e]

\* The command carries a close row.
Closes(c) ==
  \/ c.kind = "manage" /\ c.action = "EXIT_BOOK"
  \/ c.kind = "resolve" /\ VerdictOf[c.e] \in Sides

\* The outcome a resolution is closed with; any, where nothing is closed.
Outcome(c) == IF Closes(c) THEN VerdictOf[c.e] ELSE "YES"

GiveUp(c, task) == IF c.from = task THEN [c EXCEPT !.from = "none"] ELSE c

Submit(c) ==
  /\ queue' = Append(queue, c)
  /\ UNCHANGED <<storeVars, memory, failed, acks, faults>>

-----------------------------------------------------------------------------
(* The evaluation task.                                                    *)

\* _evaluate reads the clock once, before everything it awaits.
Evaluate(w) ==
  /\ Running /\ eval.pc = "idle"
  /\ w \notin closed
  /\ eval' = [pc |-> "entry", w |-> w]
  /\ UNCHANGED <<storeVars, memory, failed, resolve, queue, acks, faults>>

\* The evidence of the evaluation is committed first; when that command fails
\* or times out, the evaluation ends there.
EvidenceFails ==
  /\ eval.pc = "entry" /\ faults < MaxFaults
  /\ faults' = faults + 1
  /\ failed' = TRUE
  /\ eval' = Idle
  /\ UNCHANGED <<storeVars, memory, resolve, queue, acks>>

\* _entry_capacity_block
Capped(w) == {"global", AssetOf[w]} \cap DOMAIN blocks # {}

MayEnter(w) == w \notin entered \cup closed /\ ~Capped(w) /\ ~failed

SubmitEntry ==
  /\ eval.pc = "entry" /\ MayEnter(eval.w)
  /\ \E side \in Sides, cost \in Costs, fee \in Fees :
       Submit(EnterCommand(eval.w, side, cost, fee))
  /\ eval' = [eval EXCEPT !.pc = "entering"]
  /\ UNCHANGED resolve

\* The router does not ask for an entry, or it is refused before submission.
PassEntry ==
  /\ eval.pc = "entry"
  /\ eval' = [eval EXCEPT !.pc = "manage"]
  /\ UNCHANGED <<storeVars, memory, failed, resolve, queue, acks, faults>>

\* _manage_open_position finds the position by its cached row's window_id,
\* which only a full row has.
Manageable(w) == w \in DOMAIN cache /\ cache[w] = "full"

SubmitManage ==
  /\ eval.pc = "manage" /\ Manageable(eval.w)
  /\ nextSeq[eval.w] < MaxDecisions
  /\ \E action \in Actions, price \in Prices, fee \in Fees :
       Submit(ManageCommand(eval.w, nextSeq[eval.w] + 1, action, price, fee))
  /\ eval' = [eval EXCEPT !.pc = "managing"]
  /\ UNCHANGED resolve

PassManage ==
  /\ eval.pc = "manage"
  /\ eval' = Idle
  /\ UNCHANGED <<storeVars, memory, failed, resolve, queue, acks, faults>>

EvaluationStep == EvidenceFails \/ SubmitEntry \/ PassEntry \/ SubmitManage \/ PassManage

-----------------------------------------------------------------------------
(* The resolution task.                                                    *)

\* Seeded fault: positions of windows that are still open are queried too.
DueOpen == WithStatus("OPEN")

\* Seeded fault: only positions the engine could manage are resolved.
DueManageable == {w \in WithStatus("OPEN") \cap closed : Manageable(w)}

Due == WithStatus("OPEN") \cap closed

\* _resolution_loop queries open positions of closed windows through the
\* reader, then takes them one by one, whatever happens to them meanwhile.
QueryDue ==
  /\ Running /\ resolve.pc = "idle" /\ Due # {}
  /\ resolve' = [pc |-> "rows", due |-> Due]
  /\ UNCHANGED <<storeVars, memory, failed, eval, queue, acks, faults>>

\* _resolve_position, past its back-off, with what the source then answers:
\* by the last attempt of the model, a verdict.
SubmitResolve ==
  /\ resolve.pc = "rows"
  /\ \E w \in resolve.due, e \in Evidence :
       /\ tried[w] < MaxAttempts
       /\ VerdictOf[e] = "PENDING" => tried[w] + 1 < MaxAttempts
       /\ Submit(ResolveCommand(w, tried[w] + 1, e))
       /\ resolve' = [pc |-> "resolving", due |-> resolve.due \ {w}]
  /\ UNCHANGED eval

NextRow == [resolve EXCEPT !.pc = "rows"]

\* The rest of the rows is still in its back-off, or there is none.
EndRows ==
  /\ resolve.pc = "rows"
  /\ resolve' = Idle
  /\ UNCHANGED <<storeVars, memory, failed, eval, queue, acks, faults>>

-----------------------------------------------------------------------------
(* The writer: commands of one window in order, each one transaction.      *)

First(i) == \A j \in 1..(i - 1) : queue[j].w # queue[i].w

Refusal(c, expired) ==
  CASE c.kind = "enter" -> EnterRefusal(c.w, c.side, Me, c.cost, c.fee, expired)
    [] c.kind = "manage" -> ManageRefusal(c.w, c.seq, c.action, Closes(c))
    [] c.kind = "resolve" -> ResolveRefusal(c.w, c.no, c.e, Closes(c), Outcome(c))

Apply(c, expired) ==
  CASE c.kind = "enter" -> EnterBundle(c.w, c.side, Me, c.cost, c.fee, expired)
    [] c.kind = "manage" -> ManageBundle(c.w, c.seq, c.action, Closes(c), c.price, c.fee)
    [] c.kind = "resolve" -> ResolveBundle(c.w, c.no, c.e, Closes(c), Outcome(c))

\* The late outcome of a command nobody waits for is only counted.
Answer(c, result) ==
  acks' = IF c.from = "none" THEN acks ELSE Append(acks, [cmd |-> c, result |-> result])

Commit(i) ==
  /\ First(i)
  /\ \E expired \in BOOLEAN :
       LET c == queue[i]
           refusal == Refusal(c, expired)
       IN  /\ expired => c.kind = "enter"
           /\ IF refusal = "none" THEN Apply(c, expired) ELSE UNCHANGED rows
           /\ Answer(c, refusal)
  /\ queue' = RemoveAt(queue, i)
  /\ UNCHANGED <<sessions, closed, memory, failed, tasks, faults>>

\* The command fails for good (a store error, or a full queue): durably not
\* applied, and an exception for its caller.
Fail(i) ==
  /\ faults < MaxFaults /\ First(i)
  /\ faults' = faults + 1
  /\ Answer(queue[i], "failed")
  /\ queue' = RemoveAt(queue, i)
  /\ UNCHANGED <<storeVars, memory, failed, tasks>>

-----------------------------------------------------------------------------
(* Acknowledgements in the event loop.                                     *)

\* What a closed position changes in the engine, for either task.
RememberClosed(w) ==
  /\ cache' = Delete(cache, {w})
  /\ openCount' = IF openCount > 0 THEN openCount - 1 ELSE 0
  /\ blocks' = <<>>

RememberOutcome(c) ==
  IF Closes(c) THEN RememberClosed(c.w) ELSE UNCHANGED <<cache, openCount, blocks>>

\* _critical_execute latches every exception that is no business rejection
\* of an entry.
Latch == failed' = TRUE /\ UNCHANGED memory

EntryCommitted(w) ==
  /\ entered' = entered \cup {w}
  /\ openCount' = openCount + 1
  /\ cache' = [x \in DOMAIN cache \cup {w} |-> IF x = w THEN "bare" ELSE cache[x]]
  /\ UNCHANGED <<nextSeq, tried, blocks, failed>>

CapacityReasons ==
  {"max_concurrent_positions", "max_open_per_asset",
   "cohort_equity_depleted", "insufficient_capital"}

EntryCapped(w, reason) ==
  LET scope == IF reason = "max_open_per_asset" THEN AssetOf[w] ELSE "global"
  IN  /\ blocks' = [x \in DOMAIN blocks \cup {scope} |-> IF x = scope THEN reason ELSE blocks[x]]
      /\ UNCHANGED <<entered, cache, openCount, nextSeq, tried, failed>>

\* _create_shadow_entry; after a business rejection the evaluation goes on.
EntryAnswered(c, result) ==
  /\ \/ result = "none" /\ EntryCommitted(c.w)
     \/ result \in CapacityReasons /\ EntryCapped(c.w, result)
     \/ result \in {"expired", "conflict"} /\ UNCHANGED <<memory, failed>>
     \/ result = "failed" /\ Latch
  /\ eval' = IF result = "failed" THEN Idle ELSE [eval EXCEPT !.pc = "manage"]
  /\ UNCHANGED resolve

\* _manage_open_position
ManageAnswered(c, result) ==
  /\ IF result # "none" THEN Latch
     ELSE /\ nextSeq' = [nextSeq EXCEPT ![c.w] = c.seq]
          /\ RememberOutcome(c)
          /\ UNCHANGED <<entered, tried, failed>>
  /\ eval' = Idle
  /\ UNCHANGED resolve

\* _resolve_position
ResolveAnswered(c, result) ==
  /\ IF result # "none" THEN Latch
     ELSE /\ tried' = [tried EXCEPT ![c.w] = c.no]
          /\ RememberOutcome(c)
          /\ UNCHANGED <<entered, nextSeq, failed>>
  /\ resolve' = NextRow
  /\ UNCHANGED eval

\* An acknowledgement that comes right after the timeout finds nobody waiting.
Deliver ==
  /\ acks # <<>>
  /\ LET c == Head(acks).cmd
         result == Head(acks).result
     IN  IF c.from = "none" THEN UNCHANGED <<memory, failed, tasks>>
         ELSE \/ c.kind = "enter" /\ EntryAnswered(c, result)
              \/ c.kind = "manage" /\ ManageAnswered(c, result)
              \/ c.kind = "resolve" /\ ResolveAnswered(c, result)
  /\ acks' = Tail(acks)
  /\ UNCHANGED <<storeVars, queue, faults>>

\* critical_command_timeout_s passes for the task: the outcome of its command
\* is unknown, and stays so until a restart.
Timeout(task) ==
  /\ faults < MaxFaults
  /\ faults' = faults + 1
  /\ queue' = [i \in DOMAIN queue |-> GiveUp(queue[i], task)]
  /\ acks' = [i \in DOMAIN acks |-> [acks[i] EXCEPT !.cmd = GiveUp(@, task)]]
  /\ failed' = TRUE
  /\ UNCHANGED <<storeVars, memory>>

EvaluationTimeout ==
  /\ eval.pc \in {"entering", "managing"}
  /\ Timeout("eval")
  /\ eval' = Idle
  /\ UNCHANGED resolve

ResolutionTimeout ==
  /\ resolve.pc = "resolving"
  /\ Timeout("resolve")
  /\ resolve' = NextRow
  /\ UNCHANGED eval

-----------------------------------------------------------------------------
(* Starts, ends and time.                                                  *)

\* Seeded fault: resolution attempts are not restored.
RestoreForgetful ==
  /\ entered' = DOMAIN entry
  /\ cache' = [w \in WithStatus("OPEN") |-> "full"]
  /\ openCount' = OpenCount
  /\ nextSeq' = [w \in Windows |-> Len(decisions[w])]
  /\ tried' = [w \in Windows |-> 0]
  /\ blocks' = <<>>
  /\ failed' = FALSE

\* _restore_persistence_caches
Restore ==
  /\ entered' = DOMAIN entry
  /\ cache' = [w \in WithStatus("OPEN") |-> "full"]
  /\ openCount' = OpenCount
  /\ nextSeq' = [w \in Windows |-> Len(decisions[w])]
  /\ tried' = [w \in Windows |-> Len(attempts[w])]
  /\ blocks' = <<>>
  /\ failed' = FALSE

\* A lease keeps a second engine from running; the tasks start after the
\* writer has reconciled and the caches are restored.
Start(s, absent) ==
  /\ ~Running
  /\ Startup(s, absent)
  /\ Restore
  /\ UNCHANGED <<tasks, queue, acks, faults>>

\* The process dies: commands not committed are failed by the next writer,
\* never replayed.
Crash(s) ==
  /\ End(s)
  /\ Forget
  /\ eval' = Idle /\ resolve' = Idle
  /\ queue' = <<>> /\ acks' = <<>>
  /\ UNCHANGED faults

WindowCloses(w) == CloseWindow(w) /\ UNCHANGED engineVars

Writer(w) == \E i \in DOMAIN queue : queue[i].w = w /\ Commit(i)

EngineNext ==
  \/ \E w \in Windows : Evaluate(w) \/ WindowCloses(w) \/ Writer(w)
  \/ EvaluationStep
  \/ QueryDue \/ SubmitResolve \/ EndRows
  \/ \E i \in DOMAIN queue : Fail(i)
  \/ Deliver
  \/ EvaluationTimeout \/ ResolutionTimeout
  \/ \E s \in Sessions : Crash(s) \/ \E absent \in SUBSET Sessions : Start(s, absent)

EngineSpec == EngineInit /\ [][EngineNext]_allVars

\* The event loop goes on; so does the writer for every window, as it takes
\* the next command at once and each task has only one in its queue; and the
\* resolution task comes back to a due row, its back-off being at most five
\* minutes.
FairEngineSpec ==
  /\ EngineSpec
  /\ WF_allVars(Deliver) /\ \A w \in Windows : WF_allVars(Writer(w))
  /\ WF_allVars(QueryDue) /\ SF_allVars(SubmitResolve)
  /\ WF_allVars(EndRows)

-----------------------------------------------------------------------------
Commands ==
  [kind : {"enter"}, from : {"eval", "none"}, w : Windows, side : Sides, cost : Costs, fee : Fees]
    \cup [kind : {"manage"}, from : {"eval", "none"}, w : Windows, seq : 1..MaxDecisions,
          action : Actions, price : Prices, fee : Fees]
    \cup [kind : {"resolve"}, from : {"resolve", "none"}, w : Windows, no : 1..MaxAttempts,
          e : Evidence]

Results ==
  CapacityReasons \cup {"none", "expired", "conflict", "not_open", "no_exit_decision",
                       "unverified", "failed"}

EngineTypeOK ==
  /\ entered \subseteq Windows
  /\ DOMAIN cache \subseteq Windows /\ \A w \in DOMAIN cache : cache[w] \in {"full", "bare"}
  /\ openCount \in Nat
  /\ nextSeq \in [Windows -> 0..MaxDecisions] /\ tried \in [Windows -> 0..MaxAttempts]
  /\ DOMAIN blocks \subseteq Scopes /\ \A x \in DOMAIN blocks : blocks[x] \in CapacityReasons
  /\ failed \in BOOLEAN /\ faults \in 0..MaxFaults
  /\ eval.pc \in {"idle", "entry", "entering", "manage", "managing"}
  /\ eval.pc # "idle" => eval.w \in Windows
  /\ resolve.pc \in {"idle", "rows", "resolving"}
  /\ resolve.pc # "idle" => resolve.due \subseteq Windows
  /\ queue \in Seq(Commands)
  /\ acks \in Seq([cmd : Commands, result : Results])

\* The engine never sends a second entry for a window that has one, or one
\* under way, although entries time out, are committed late, are lost in
\* crashes, and the engine's memory of what it entered comes from
\* acknowledgements and restarts: the store's one-entry rule is never what
\* saves it.
OneEntryCommand ==
  \A i \in DOMAIN queue : queue[i].kind = "enter" =>
    /\ queue[i].w \notin DOMAIN entry
    /\ \A j \in DOMAIN queue \ {i} :
         queue[j].kind = "enter" => queue[j].w # queue[i].w

\* As long as every outcome is known, the numbers the engine gives to its
\* decisions and attempts are those the tables expect, across restarts and
\* whatever the two tasks do to one position: nothing conflicts.
NumbersFit ==
  \A i \in DOMAIN acks : acks[i].result = "conflict" => failed

CloseKnownSoon(W) ==
  \E i \in DOMAIN acks :
    /\ acks[i].result = "none" /\ Closes(acks[i].cmd) /\ acks[i].cmd.w \in W

InScope(scope) == {w \in Windows : scope \in {"global", AssetOf[w]}}

Relievable(scope) ==
  \/ WithStatus("OPEN") \cap InScope(scope) # {}
  \/ CloseKnownSoon(InScope(scope))

\* A concurrency latch is held only while a position of its scope is open, or
\* its close is on its way to the engine, which lifts the latch: the refusal
\* and the close that ended its reason cannot be learned in the wrong order.
LatchesLift ==
  ~failed =>
    \A scope \in DOMAIN blocks :
      blocks[scope] \in {"max_open_per_asset", "max_concurrent_positions"} => Relievable(scope)

\* What the comment on _entry_capacity_blocks claims of every latch: capacity
\* only frees when a position closes, so there is one that can close.
EveryLatchLifts == ~failed => \A scope \in DOMAIN blocks : Relievable(scope)

\* While every outcome is known the engine counts no position as open that is
\* closed and whose close it will not learn of.
CountNotHigh ==
  ~failed =>
    openCount <= OpenCount
      + Cardinality({i \in DOMAIN acks : acks[i].result = "none" /\ Closes(acks[i].cmd)})

\* The engine's memory keeps in step with the tables: the four together.
EngineSound == OneEntryCommand /\ NumbersFit /\ LatchesLift /\ CountNotHigh

\* What the comment on the immaterial interval claims: management samples of
\* an open position the engine knows of always happen, so it can be found.
KnownIsManageable ==
  \A w \in DOMAIN cache : position[w].status = "OPEN" => Manageable(w)

\* A position whose window has closed is resolved, unless an outcome became
\* unknown or the process died: through answers still pending, a book exit
\* that races the resolution, and commands of both tasks in one queue.
Resolved ==
  []<>(failed \/ ~Running \/ closed \cap WithStatus("OPEN") = {})

\* The engine asks of the store only what StoreSpec allows, so what is proved
\* of the tables there holds under this engine.
UsesStore == StoreSpec
=============================================================================
