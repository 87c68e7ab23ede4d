------------------------------ MODULE LiteLane ------------------------------
(***************************************************************************)
(* The Lite lane (lite/): one loop that, cycle by cycle, manages its open  *)
(* positions and resolves its closed windows side by side and then scans   *)
(* every asset side by side, over a database that keeps one lock per asset *)
(* and window, with crashes, restarts and the history repair script.       *)
(***************************************************************************)
EXTENDS Integers, Sequences, SequencesExt, FiniteSets

CONSTANTS
  Assets,        \* the assets scanned
  NWindows,      \* five-minute windows modelled, one after the other
  MaxOpen,       \* max_open_positions
  MaxPerAsset,   \* max_open_per_asset
  MaxRetries,    \* resolver_max_retries
  Batch,         \* resolver_batch_size
  MaxCrashes,    \* bound on crashes
  RepairOnline   \* whether the repair script may run beside the bot

ASSUME LiteAssumption ==
  /\ {NWindows, MaxOpen, MaxPerAsset, MaxRetries, Batch} \subseteq Nat \ {0}
  /\ MaxCrashes \in Nat /\ RepairOnline \in BOOLEAN /\ IsFiniteSet(Assets)

VARIABLES
  window,     \* the window the clock is in
  locks,      \* lite_window_locks
  trades,     \* lite_trades, by id
  dueQ,       \* trades whose attempt is due, in the order of next_attempt_at
  phase,      \* where the loop is: down, idle, managing or scanning
  managing,   \* trades whose management awaits a book
  resolving,  \* trades whose resolution awaits the two fetches
  scans,      \* where the scan of each asset is, and of which window
  mid,        \* what the loop is between two transactions of, if anything
  liteCrashes \* crashes so far

liteVars ==
  <<window, locks, trades, dueQ, phase, managing, resolving, scans, mid,
    liteCrashes>>

Windows == 1..NWindows
Sides == {"BUY_YES", "BUY_NO"}
\* The side each market resolves to; the two sides are interchangeable.
Official == "BUY_YES"

Terminal == {"CLOSED_BOOK_EXIT", "CLOSED_WIN", "CLOSED_LOSS"}
Unresolved == {"PENDING_RESOLUTION", "UNRESOLVED_RETRYING", "UNRESOLVED_FINAL"}
OpenStatuses == {"OPEN", "EXIT_PENDING"}
\* COMMITTED_STATUSES
Committed == OpenStatuses \cup Unresolved
\* The statuses of a lock that may still be entered
ActiveLock == {"DIRECTION_LOCKED", "MAKER_WAIT"}

NoLock == [side |-> "", status |-> "NONE", life |-> "NONE", trade |-> 0,
           late |-> FALSE]
NotScanning == [at |-> "done", window |-> 0]

TypeOKLite ==
  /\ window \in 1..(NWindows + 1)
  /\ locks \in [Assets \X Windows ->
       [side : Sides \cup {""}, trade : 0..Len(trades), late : BOOLEAN,
        status : ActiveLock \cup {"NONE", "ENTERED", "SKIPPED", "COMPLETE"},
        life : {"NONE", "DIRECTION_LOCKED", "SKIPPED", "COMPLETE"}
                 \cup Committed \cup Terminal]]
  /\ trades \in Seq([asset : Assets, window : Windows, side : Sides,
                     status : Committed \cup Terminal, retries : 0..MaxRetries])
  /\ dueQ \in Seq(DOMAIN trades)
  /\ phase \in {"down", "idle", "managing", "scanning"}
  /\ managing \subseteq DOMAIN trades /\ resolving \subseteq DOMAIN trades
  /\ scans \in [Assets -> [at : {"done", "market", "books"}, window : 0..NWindows]]
  /\ liteCrashes \in 0..MaxCrashes

LiteInit ==
  /\ window = 1 /\ locks = [k \in Assets \X Windows |-> NoLock]
  /\ trades = <<>> /\ dueQ = <<>> /\ phase = "idle"
  /\ managing = {} /\ resolving = {} /\ mid = <<>>
  /\ scans = [a \in Assets |-> NotScanning] /\ liteCrashes = 0

-----------------------------------------------------------------------------
(* The statements of the store *)

\* The queue without a trade, which is in it at most once
Without(q, i) ==
  IF i \in ToSet(q) THEN RemoveAt(q, CHOOSE n \in DOMAIN q : q[n] = i) ELSE q

\* _sync_lock_lifecycle
Synced(ls, i, life) ==
  [k \in DOMAIN ls |-> IF ls[k].trade = i THEN [ls[k] EXCEPT !.life = life] ELSE ls[k]]

\* What finalize_window_locks makes of a lock of a window that closed
Finalized(ls, ts) ==
  [k \in DOMAIN ls |->
     IF k[2] >= window THEN ls[k]
     ELSE IF ls[k].trade # 0 /\ ts[ls[k].trade].status \in Terminal
     THEN [ls[k] EXCEPT !.status = "COMPLETE", !.life = "COMPLETE"]
     ELSE IF ls[k].trade = 0 /\ ls[k].status \in ActiveLock
     THEN [ls[k] EXCEPT !.status = "SKIPPED", !.life = "SKIPPED"]
     ELSE ls[k]]

\* mark_window_skipped, as its callers guard it: a lock that may be entered
Skipped(ls, k) ==
  IF ls[k].status \in ActiveLock
  THEN [ls EXCEPT ![k].status = "SKIPPED", ![k].life = "SKIPPED"]
  ELSE ls

\* complete_trade
Completed(i, status) ==
  /\ trades' = IF trades[i].status \in Committed
               THEN [trades EXCEPT ![i].status = status] ELSE trades
  /\ locks' = Synced(locks, i, status)
  /\ dueQ' = Without(dueQ, i)

OpenCount == Cardinality({i \in DOMAIN trades : trades[i].status \in Committed})
AssetCount(a) == Cardinality({i \in DOMAIN trades :
  trades[i].asset = a /\ trades[i].status \in Committed})
\* Seeded fault: a trade that waits for its outcome takes no room.
AtCapOpen(a) ==
  LET open == {i \in DOMAIN trades : trades[i].status \in OpenStatuses} IN
  \/ Cardinality(open) >= MaxOpen
  \/ Cardinality({i \in open : trades[i].asset = a}) >= MaxPerAsset

AtCap(a) == OpenCount >= MaxOpen \/ AssetCount(a) >= MaxPerAsset

\* Whether insert_trade takes the entry: its caps and the lock it finds
Admits(a, w, s) ==
  /\ ~AtCap(a)
  /\ locks[<<a, w>>].status \in ActiveLock \cup {"NONE"}
  /\ locks[<<a, w>>].status # "NONE" => locks[<<a, w>>].side = s

\* insert_trade commits the trade and its lock in one transaction; it raises
\* WindowLockConflict when it refuses, here or for the exposure, after which
\* the scan skips the lock; evidence it rejects raises and changes nothing
InsertTrade(a, w, s) ==
  \/ /\ Admits(a, w, s)
     /\ trades' = Append(trades, [asset |-> a, window |-> w, side |-> s,
                                  status |-> "OPEN", retries |-> 0])
     /\ locks' = [locks EXCEPT ![<<a, w>>] =
          [side |-> s, status |-> "ENTERED", life |-> "OPEN",
           trade |-> Len(trades) + 1, late |-> FALSE]]
  \/ locks' = Skipped(locks, <<a, w>>) /\ UNCHANGED trades
  \/ UNCHANGED <<locks, trades>>

-----------------------------------------------------------------------------
(* A cycle: positions are managed and resolved side by side *)

\* finalize_window_locks, then one management per open position, the ones of
\* a closed window marked pending at once; resolve_due takes its batch of
\* what was due before and begins an attempt on each
BeginCycle ==
  /\ phase = "idle" /\ phase' = "managing"
  /\ LET open == {i \in DOMAIN trades : trades[i].status \in OpenStatuses}
         past == {i \in open : trades[i].window < window}
         batch == SubSeq(dueQ, 1, IF Len(dueQ) < Batch THEN Len(dueQ) ELSE Batch)
         begun == {batch[n] : n \in DOMAIN batch}
         Status(i) == CASE i \in past -> "PENDING_RESOLUTION"
                        [] i \in begun -> "UNRESOLVED_RETRYING"
                        [] OTHER -> trades[i].status
         ts == [i \in DOMAIN trades |-> [trades[i] EXCEPT !.status = Status(i)]]
         ls == Finalized(locks, trades)
     IN /\ managing' = open \ past /\ resolving' = begun
        /\ trades' = ts
        /\ locks' = [k \in DOMAIN ls |->
             IF ls[k].trade \in past \cup begun
             THEN [ls[k] EXCEPT !.life = ts[ls[k].trade].status] ELSE ls[k]]
        /\ \E q \in [1..Cardinality(past) -> past] :
             /\ \A m, n \in DOMAIN q : m < n => q[m] < q[n]
             /\ dueQ' = dueQ \o q
  /\ UNCHANGED <<window, scans, mid, liteCrashes>>

\* The books of a position arrive: hold it, or begin an exit, which a book
\* of a window that closed cannot
ManageHold(i) ==
  /\ mid = <<>> /\ i \in managing /\ managing' = managing \ {i}
  /\ UNCHANGED <<window, locks, trades, dueQ, phase, resolving, scans, mid, liteCrashes>>

ManageExit(i) ==
  /\ mid = <<>> /\ i \in managing /\ trades[i].window = window
  /\ managing' = managing \ {i} /\ mid' = <<"exit", i>>
  /\ trades' = IF trades[i].status = "OPEN"
               THEN [trades EXCEPT ![i].status = "EXIT_PENDING"] ELSE trades
  /\ locks' = Synced(locks, i, "EXIT_PENDING")
  /\ UNCHANGED <<window, dueQ, phase, resolving, scans, liteCrashes>>

CompleteExit ==
  /\ mid # <<>> /\ mid[1] = "exit" /\ mid' = <<>>
  /\ Completed(mid[2], "CLOSED_BOOK_EXIT")
  /\ UNCHANGED <<window, phase, managing, resolving, scans, liteCrashes>>

\* _resolve_one hears the official outcome
ResolveOfficial(i) ==
  /\ mid = <<>> /\ i \in resolving /\ resolving' = resolving \ {i}
  /\ Completed(i, IF trades[i].side = Official THEN "CLOSED_WIN" ELSE "CLOSED_LOSS")
  /\ UNCHANGED <<window, phase, managing, scans, mid, liteCrashes>>

\* ... or no evidence, or the attempt raises: note_resolution_retry, which
\* does not look at the status
NoteRetry(i) ==
  /\ mid = <<>> /\ i \in resolving /\ resolving' = resolving \ {i}
  /\ LET n == IF trades[i].retries = MaxRetries THEN MaxRetries ELSE trades[i].retries + 1
         s == IF n = MaxRetries THEN "UNRESOLVED_FINAL" ELSE "UNRESOLVED_RETRYING"
     IN /\ trades' = [trades EXCEPT ![i].status = s, ![i].retries = n]
        /\ locks' = Synced(locks, i, s)
  /\ dueQ' = Without(dueQ, i)
  /\ UNCHANGED <<window, phase, managing, scans, mid, liteCrashes>>

\* Seeded fault: a trade that used its retries up is not due again.
BackoffEndsRetrying(i) ==
  /\ trades[i].status \in Unresolved \ {"UNRESOLVED_FINAL"} /\ i \notin resolving
  /\ \A n \in DOMAIN dueQ : dueQ[n] # i
  /\ dueQ' = Append(dueQ, i)
  /\ UNCHANGED <<window, locks, trades, phase, managing, resolving, scans, mid, liteCrashes>>

\* next_attempt_at of a trade that is retried comes
BackoffEnds(i) ==
  /\ trades[i].status \in Unresolved /\ i \notin resolving
  /\ \A n \in DOMAIN dueQ : dueQ[n] # i
  /\ dueQ' = Append(dueQ, i)
  /\ UNCHANGED <<window, locks, trades, phase, managing, resolving, scans, mid, liteCrashes>>

-----------------------------------------------------------------------------
(* ... and then every asset is scanned *)

BeginScans ==
  /\ phase = "managing" /\ managing = {} /\ resolving = {} /\ mid = <<>>
  /\ phase' = "scanning"
  /\ scans' = [a \in Assets |-> IF window \in Windows
                 THEN [at |-> "market", window |-> window] ELSE NotScanning]
  /\ UNCHANGED <<window, locks, trades, dueQ, managing, resolving, mid, liteCrashes>>

EndCycle ==
  /\ phase = "scanning" /\ mid = <<>> /\ \A a \in Assets : scans[a] = NotScanning
  /\ phase' = "idle"
  /\ UNCHANGED <<window, locks, trades, dueQ, managing, resolving, scans, mid, liteCrashes>>

\* current_market answers; without a valid market an active lock is skipped
MarketFound(a) ==
  /\ mid = <<>> /\ scans[a].at = "market"
  /\ scans' = [scans EXCEPT ![a].at = "books"]
  /\ UNCHANGED <<window, locks, trades, dueQ, phase, managing, resolving, mid, liteCrashes>>

\* What follows the books is one step of the loop, of the window its market had
Evaluates(a) == mid = <<>> /\ scans[a].at = "books"
KeyOf(a) == <<a, scans[a].window>>
Scanned(a) == scans' = [scans EXCEPT ![a] = NotScanning]
Taken(w) == \E i \in DOMAIN trades : trades[i].window = w

ScanSkips(a, at) ==
  /\ mid = <<>> /\ scans[a].at = at
  /\ Scanned(a) /\ locks' = Skipped(locks, KeyOf(a))
  /\ UNCHANGED <<window, trades, dueQ, phase, managing, resolving, mid, liteCrashes>>

MarketMissing(a) == ScanSkips(a, "market")

\* Rejected, an exception that scan_asset_safe records, or a wait for the
\* maker that goes on: nothing changes
ScanEnds(a) ==
  /\ mid = <<>> /\ scans[a].at # "done" /\ Scanned(a)
  /\ UNCHANGED <<window, locks, trades, dueQ, phase, managing, resolving, mid, liteCrashes>>

\* Data that is invalid, an edge still weak at the deadline, a cap, the other
\* side or a refused exposure gives an active lock up
EvaluateGivesUp(a) == ScanSkips(a, "books")

\* A direction s that passes the gates of the scan: no trade of the window,
\* room under the caps, a lock that may be entered on the same side
Passes(a, s) ==
  /\ Evaluates(a) /\ scans[a].window = window
  /\ ~Taken(window) /\ ~AtCap(a)
  /\ locks[KeyOf(a)].status \in ActiveLock \cup {"NONE"}
  /\ locks[KeyOf(a)].status # "NONE" => locks[KeyOf(a)].side = s

\* Without a lock the window is reserved first, a transaction of its own
Reserve(a, s, next) ==
  /\ Passes(a, s) /\ locks[KeyOf(a)].status = "NONE"
  /\ locks' = [locks EXCEPT ![KeyOf(a)] =
       [side |-> s, status |-> "DIRECTION_LOCKED", life |-> "DIRECTION_LOCKED",
        trade |-> 0, late |-> TRUE]]
  /\ mid' = <<next, a, s>>
  /\ UNCHANGED <<window, trades, dueQ, phase, managing, resolving, scans, liteCrashes>>

AwaitMaker ==
  /\ mid # <<>> /\ mid[1] = "MAKER_WAIT" /\ mid' = <<>> /\ Scanned(mid[2])
  /\ locks' = [locks EXCEPT ![KeyOf(mid[2])].status = "MAKER_WAIT",
                            ![KeyOf(mid[2])].late = FALSE]
  /\ UNCHANGED <<window, trades, dueQ, phase, managing, resolving, liteCrashes>>

CrossReserved ==
  /\ mid # <<>> /\ mid[1] = "CROSS_SPREAD" /\ mid' = <<>> /\ Scanned(mid[2])
  /\ InsertTrade(mid[2], scans[mid[2]].window, mid[3])
  /\ UNCHANGED <<window, dueQ, phase, managing, resolving, liteCrashes>>

\* With one, the deadline decides: before it the wait goes on
CrossAtDeadline(a, s) ==
  /\ Passes(a, s) /\ locks[KeyOf(a)].status \in ActiveLock /\ locks[KeyOf(a)].late
  /\ Scanned(a) /\ InsertTrade(a, scans[a].window, s)
  /\ UNCHANGED <<window, dueQ, phase, managing, resolving, mid, liteCrashes>>

DeadlinePasses(k) ==
  /\ locks[k].status \in ActiveLock /\ ~locks[k].late
  /\ locks' = [locks EXCEPT ![k].late = TRUE]
  /\ UNCHANGED <<window, trades, dueQ, phase, managing, resolving, scans, mid, liteCrashes>>

NextWindow ==
  /\ window <= NWindows /\ window' = window + 1
  /\ UNCHANGED <<locks, trades, dueQ, phase, managing, resolving, scans, mid, liteCrashes>>

-----------------------------------------------------------------------------
(* The end of the process, the next one, and the repair script *)

\* A management that raises ends the run as a crash does
CrashLite ==
  /\ phase # "down" /\ liteCrashes < MaxCrashes
  /\ phase' = "down" /\ managing' = {} /\ resolving' = {} /\ mid' = <<>>
  /\ scans' = [a \in Assets |-> NotScanning] /\ liteCrashes' = liteCrashes + 1
  /\ UNCHANGED <<window, locks, trades, dueQ>>

RestartLite ==
  /\ phase = "down" /\ phase' = "idle"
  /\ UNCHANGED <<window, locks, trades, dueQ, managing, resolving, scans, mid, liteCrashes>>

\* audit_repair_lite_history.py --apply settles a trade it read as
\* unresolved for good with the official outcome
Repair(i) ==
  /\ RepairOnline \/ phase = "down"
  /\ \/ trades[i].status = "UNRESOLVED_FINAL"
     \/ trades[i].status = "UNRESOLVED_RETRYING" /\ trades[i].retries = MaxRetries
  /\ LET s == IF trades[i].side = Official THEN "CLOSED_WIN" ELSE "CLOSED_LOSS"
         ts == [trades EXCEPT ![i].status = s]
     IN trades' = ts /\ locks' = Finalized(Synced(locks, i, s), ts)
  /\ dueQ' = Without(dueQ, i)
  /\ UNCHANGED <<window, phase, managing, resolving, scans, mid, liteCrashes>>

-----------------------------------------------------------------------------
LoopStep ==
  \/ BeginCycle \/ CompleteExit \/ BeginScans \/ EndCycle \/ RestartLite
  \/ \E i \in DOMAIN trades : ManageHold(i)
  \/ \E i \in DOMAIN trades : NoteRetry(i)
  \/ AwaitMaker \/ CrossReserved
  \/ \E a \in Assets : ScanEnds(a)

LiteNext ==
  \/ LoopStep
  \/ \E i \in DOMAIN trades : ManageExit(i) \/ ResolveOfficial(i)
  \/ \E i \in DOMAIN trades : BackoffEnds(i)
  \/ \E i \in DOMAIN trades : Repair(i)
  \/ \E a \in Assets : MarketFound(a) \/ MarketMissing(a)
  \/ \E a \in Assets : EvaluateGivesUp(a)
  \/ \E a \in Assets, s \in Sides :
       \/ Reserve(a, s, "MAKER_WAIT") \/ Reserve(a, s, "CROSS_SPREAD")
       \/ CrossAtDeadline(a, s)
  \/ \E k \in DOMAIN locks : DeadlinePasses(k)
  \/ NextWindow \/ CrashLite

LiteSpec == LiteInit /\ [][LiteNext]_liteVars

\* The loop goes on, time passes, a market's outcome is published in the end
LiteFairness ==
  /\ WF_liteVars(LoopStep)
  /\ WF_liteVars(NextWindow)
  /\ \A i \in 1..(Cardinality(Assets) * NWindows) :
       /\ WF_liteVars(i \in DOMAIN trades /\ BackoffEnds(i))
       /\ SF_liteVars(i \in DOMAIN trades /\ ResolveOfficial(i))

FairLiteSpec == LiteSpec /\ LiteFairness

-----------------------------------------------------------------------------
(* What the lane promises *)

\* An asset has at most one trade in a window, whatever cycles, crashes and
\* restarts happen: the database is the authority (lite_store.py:3).
OneEntry ==
  \A i, j \in DOMAIN trades :
    i # j => <<trades[i].asset, trades[i].window>> # <<trades[j].asset, trades[j].window>>

\* A lock and its trade tell one story: the lock that names a trade is that
\* trade's own, entered while the trade is committed or since it closed, with
\* the trade's status as its lifecycle; a trade is always named by its lock,
\* so no window that was skipped or is still free has one.
LifecycleAgrees ==
  /\ \A k \in DOMAIN locks :
       LET l == locks[k] IN
       IF l.trade = 0 THEN l.status \notin {"ENTERED", "COMPLETE"}
       ELSE LET t == trades[l.trade] IN
            /\ <<t.asset, t.window, t.side>> = <<k[1], k[2], l.side>>
            /\ \/ l.status = "ENTERED" /\ l.life = t.status
               \/ /\ l.status = "COMPLETE" /\ l.life = "COMPLETE"
                  /\ t.status \in Terminal
  /\ \A i \in DOMAIN trades : locks[<<trades[i].asset, trades[i].window>>].trade = i

\* The trades that hold capital, those that wait for an outcome included,
\* stay within both caps although assets are scanned side by side.
WithinCaps ==
  OpenCount <= MaxOpen /\ \A a \in Assets : AssetCount(a) <= MaxPerAsset

LaneSound == TypeOKLite /\ OneEntry /\ LifecycleAgrees /\ WithinCaps

\* A closed trade stays closed, with the outcome it closed with: neither a
\* retry nor a second settlement of the same trade touches it.
ClosedStands ==
  [][\A i \in DOMAIN trades :
       trades[i].status \in Terminal => trades'[i].status = trades[i].status]_liteVars

\* Every trade settles: by an exit, or by the official outcome after however
\* many retries and restarts, also behind a full batch.
Settles ==
  \A i \in 1..(Cardinality(Assets) * NWindows) :
    i <= Len(trades) ~> i <= Len(trades) /\ trades[i].status \in Terminal
=============================================================================
