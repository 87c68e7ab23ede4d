--------------------------- MODULE MarketStream ---------------------------
(***************************************************************************)
(* The Polymarket market stream (src/lite_frequency_v4/polymarket_ws.py)   *)
(* with the two engine tasks that rotate its subscriptions and the REST    *)
(* fetches it asks for.  Coroutines of one event loop: a step runs from    *)
(* one suspension to the next.  The stream suspends in ws.send, in gather, *)
(* and between frames; its callbacks into the engine never do.             *)
(*                                                                         *)
(* A book is reduced to its provider timestamp, 0 when there is none.      *)
(* Clocks are left out: a cooldown or backoff may or may not have elapsed. *)
(***************************************************************************)
EXTENDS Integers, Sequences, SequencesExt

CONSTANTS
  Tokens,
  Windows,        \* market windows in the order they open: 1..n
  WindowTokens,   \* verified tokens of a window
  Rotators,       \* tasks that call _sync_active_subscriptions
  MaxTs,          \* provider timestamps 1..MaxTs
  MaxBuffer,      \* max_buffered_deltas_per_token
  MaxStrikes,     \* book_desync_strikes
  MaxAttempts,    \* hydration_recovery_max_attempts
  MaxEpoch        \* bound on connections

ASSUME StreamAssumption ==
  /\ WindowTokens \in [Windows -> SUBSET Tokens] /\ 1 \in Windows
  /\ {MaxTs, MaxBuffer, MaxStrikes, MaxAttempts, MaxEpoch} \subseteq Nat \ {0}

VARIABLES
  desired, hydrated, books, buffers,
  subscribed,  \* _subscribed_tokens
  inflight,    \* _resync_inflight
  strikes, attempts, exhausted,
  ready,       \* health state READY
  epoch,
  ping,        \* epoch of a PING not yet answered, 0 if none
  live,        \* tokens the server streams on this connection
  runner,      \* the task _run: where it is suspended, and its arguments
  recovering,  \* the token whose re-subscription _recover_unhydrated_once awaits
  rotator,     \* each task in _sync_active_subscriptions
  active,      \* _active_subscription_map, by its tokens
  rest,        \* tokens with a REST fetch under way
  window       \* the window now open

streamVars == <<desired, hydrated, books, buffers, subscribed, inflight, strikes,
  attempts, exhausted, ready, epoch, ping, live, runner, recovering, rotator,
  active, rest, window>>

recoveryVars == <<attempts, exhausted, strikes, inflight>>
bookVars == <<desired, hydrated, books, buffers>>
taskVars == <<runner, recovering, rotator, active, window>>

Idle == [at |-> "idle"]
Nobody == "nobody"
Connected == runner.at \in {"sending", "gathering", "reading"}

StreamInit ==
  /\ desired = {} /\ hydrated = {} /\ subscribed = {} /\ inflight = {}
  /\ exhausted = {} /\ live = {} /\ rest = {} /\ active = {}
  /\ books = [t \in Tokens |-> 0] /\ buffers = [t \in Tokens |-> << >>]
  /\ strikes = [t \in Tokens |-> 0] /\ attempts = [t \in Tokens |-> 0]
  /\ ready = FALSE /\ epoch = 0 /\ ping = 0 /\ window = 1
  /\ runner = Idle /\ recovering = Nobody
  /\ rotator = [r \in Rotators |-> Idle]

-----------------------------------------------------------------------------
(* Operators *)

\* f is the given value on S and unchanged elsewhere
Reset(f, S, value) == [t \in DOMAIN f |-> IF t \in S THEN value ELSE f[t]]

\* The requests of S that _request_hydration lets through: one outstanding
\* stops another, and so may the cooldown, unless the request is forced.
Unforced(S) == SUBSET (S \ inflight)

\* The engine has at most one fetch per token under way
Ask(S) == inflight' = inflight \cup S /\ rest' = rest \cup S

\* _clear_recovery_state, inflight aside
ClearRecovery(S) ==
  /\ attempts' = Reset(attempts, S, 0)
  /\ exhausted' = exhausted \ S
  /\ strikes' = Reset(strikes, S, 0)

IsReady(now, wanted) == wanted # {} /\ now = wanted

-----------------------------------------------------------------------------
(* Rotation: _sync_active_subscriptions and set_subscriptions *)

\* The scheduler samples the clock when it calls, the discovery loop before
\* it queries the market list
SampleClock(r) ==
  /\ rotator[r].at = "idle"
  /\ rotator' = [rotator EXCEPT ![r] = [at |-> "sampled", window |-> window]]
  /\ UNCHANGED <<bookVars, recoveryVars, subscribed, ready, epoch, ping, live,
                 runner, recovering, active, rest, window>>

\* Where every call ends that no lost connection cuts: the engine records the
\* map it installed and fetches the books of the windows that entered it.
Installed(r, wanted, asked, pending) ==
  /\ rotator' = [rotator EXCEPT ![r] = Idle]
  /\ active' = wanted
  /\ inflight' = pending \cup asked
  /\ rest' = rest \cup asked \cup (wanted \ active)
  /\ ready' = IF wanted = {} THEN FALSE
              ELSE IF Connected THEN hydrated' = wanted ELSE ready

\* Up to the first suspension: the wanted set replaces the old one, and the
\* tokens that leave take their whole state with them.
Rotate(r) ==
  /\ rotator[r].at = "sampled"
  /\ LET wanted == WindowTokens[rotator[r].window]
         removed == desired \ wanted
         added == wanted \ desired
         fresh == added \ subscribed
         leave == /\ desired' = wanted
                  /\ hydrated' = hydrated \ removed
                  /\ books' = Reset(books, removed, 0)
                  /\ buffers' = Reset(buffers, removed, << >>)
                  /\ subscribed' = subscribed \ removed
                  /\ ClearRecovery(removed)
     IN  \/ /\ wanted = active
            /\ rotator' = [rotator EXCEPT ![r] = Idle]
            /\ UNCHANGED <<bookVars, recoveryVars, subscribed, ready, live, active, rest>>
         \/ /\ wanted # active /\ (~Connected \/ removed \cup added = {})
            /\ leave
            /\ Installed(r, wanted, {}, inflight \ removed)
            /\ UNCHANGED live
         \/ /\ wanted # active /\ Connected /\ removed # {}
            /\ leave
            /\ live' = live \ removed
            /\ rotator' = [rotator EXCEPT ![r] =
                 [at |-> "unsubscribing", wanted |-> wanted, added |-> added]]
            /\ inflight' = inflight \ removed
            /\ UNCHANGED <<ready, active, rest>>
         \/ /\ wanted # active /\ Connected /\ removed = {} /\ added # {}
            /\ leave
            /\ live' = live \cup fresh
            /\ rotator' = [rotator EXCEPT ![r] =
                 [at |-> IF fresh = {} THEN "gathering" ELSE "subscribing",
                  wanted |-> wanted, added |-> added, fresh |-> fresh]]
            /\ UNCHANGED <<inflight, ready, active, rest>>
  /\ UNCHANGED <<epoch, ping, runner, recovering, window>>

\* The unsubscribe frame is sent.  A connection lost meanwhile raises, here
\* as in every later step, and leaves the engine's map as it was.
Unsubscribed(r) ==
  /\ rotator[r].at = "unsubscribing"
  /\ LET call == rotator[r]
         fresh == call.added \ subscribed
     IN  \/ /\ Connected /\ call.added = {}
            /\ UNCHANGED <<live, hydrated, desired>>
            /\ Installed(r, call.wanted, {}, inflight)
         \/ /\ Connected /\ call.added # {}
            /\ live' = live \cup fresh
            /\ rotator' = [rotator EXCEPT ![r] =
                 [at |-> IF fresh = {} THEN "gathering" ELSE "subscribing",
                  wanted |-> call.wanted, added |-> call.added, fresh |-> fresh]]
            /\ UNCHANGED <<desired, hydrated, inflight, ready, active, rest>>
         \/ /\ rotator' = [rotator EXCEPT ![r] = Idle] /\ ~Connected
            /\ UNCHANGED <<desired, hydrated, live, inflight, ready, active, rest>>
  /\ UNCHANGED <<books, buffers, subscribed, attempts, exhausted, strikes, epoch,
                 ping, runner, recovering, window>>

\* The subscribe frame is sent
SubscriptionSent(r) ==
  /\ rotator[r].at = "subscribing"
  /\ IF Connected
     THEN /\ subscribed' = subscribed \cup rotator[r].fresh
          /\ rotator' = [rotator EXCEPT ![r].at = "gathering"]
     ELSE /\ rotator' = [rotator EXCEPT ![r] = Idle]
          /\ UNCHANGED subscribed
  /\ UNCHANGED <<bookVars, recoveryVars, ready, epoch, ping, live, runner,
                 recovering, active, rest, window>>

\* The gathered requests have run.  A token that left the wanted set since
\* raises a KeyError.
Gathered(r) ==
  /\ rotator[r].at = "gathering"
  /\ UNCHANGED <<bookVars, attempts, exhausted, strikes, subscribed, epoch, ping,
                 live, runner, recovering, window>>
  /\ IF rotator[r].added \subseteq desired
     THEN \E asked \in Unforced(rotator[r].added) :
            Installed(r, rotator[r].wanted, asked, inflight)
     ELSE /\ rotator' = [rotator EXCEPT ![r] = Idle]
          /\ UNCHANGED <<inflight, rest, active, ready>>

NextWindow ==
  /\ window + 1 \in Windows
  /\ window' = window + 1
  /\ UNCHANGED <<bookVars, recoveryVars, subscribed, ready, epoch, ping, live,
                 runner, recovering, rotator, active, rest>>

-----------------------------------------------------------------------------
(* Connections: _run, _new_connection_epoch, the heartbeat *)

\* A connection opens once the backoff of the last one is over, long after the
\* calls it cut have raised.  The frame of the initial subscription is built
\* before the task suspends to send it.
Open ==
  /\ runner.at = "idle" /\ desired # {} /\ epoch < MaxEpoch
  /\ \A r \in Rotators : rotator[r].at \in {"idle", "sampled"}
  /\ recovering = Nobody
  /\ epoch' = epoch + 1
  /\ runner' = [at |-> "sending"]
  /\ live' = desired
  /\ books' = Reset(books, Tokens, 0) /\ buffers' = Reset(buffers, Tokens, << >>)
  /\ hydrated' = {} /\ subscribed' = {} /\ inflight' = {}
  /\ ClearRecovery(Tokens)
  /\ ready' = FALSE /\ ping' = 0
  /\ UNCHANGED <<desired, recovering, rotator, active, rest, window>>

\* The initial frame is sent.  _desired is read again, after the suspension.
InitialSent ==
  /\ runner.at = "sending"
  /\ subscribed' = subscribed \cup desired
  /\ runner' = [at |-> "gathering", asked |-> desired]
  /\ ready' = FALSE
  /\ UNCHANGED <<bookVars, recoveryVars, epoch, ping, live, recovering, rotator,
                 active, rest, window>>

StartReading ==
  /\ runner.at = "gathering"
  /\ runner' = [at |-> "reading"]
  /\ \E asked \in Unforced(runner.asked) : Ask(asked)
  /\ UNCHANGED <<bookVars, attempts, exhausted, strikes, subscribed, ready, epoch,
                 ping, live, recovering, rotator, active, window>>

\* The socket ends or a handler raises: the tasks of the connection are
\* cancelled with it.  Desired tokens, books and hydration stand until the next one.
Lose ==
  /\ runner' = Idle /\ live' = {} /\ recovering' = Nobody /\ ready' = FALSE
  /\ UNCHANGED <<bookVars, recoveryVars, subscribed, epoch, ping, rotator, active,
                 rest, window>>

ConnectionLost == Connected /\ Lose

\* The heartbeat task lives as long as the reader
SendPing ==
  /\ runner.at = "reading" /\ ping = 0
  /\ ping' = epoch
  /\ UNCHANGED <<bookVars, recoveryVars, subscribed, ready, epoch, live, taskVars, rest>>

Pong ==
  /\ runner.at = "reading" /\ ping # 0
  /\ ping' = 0
  /\ UNCHANGED <<bookVars, recoveryVars, subscribed, ready, epoch, live, taskVars, rest>>

\* A PING older than pong_timeout_s closes the socket
PongTimeout == runner.at = "reading" /\ ping # 0 /\ Lose

\* stop(): final
StopStream ==
  /\ runner.at # "stopped"
  /\ runner' = [at |-> "stopped"]
  /\ live' = {} /\ recovering' = Nobody /\ ready' = FALSE
  /\ UNCHANGED <<bookVars, recoveryVars, subscribed, epoch, ping, rotator, active,
                 rest, window>>

-----------------------------------------------------------------------------
(* Books *)

\* _flush_buffer: deltas newer than the snapshot apply in the order they came,
\* and one older than the book it would change is dropped: the newest is left.
Flushed(token, ts) == Max({ts} \cup ToSet(buffers[token]))

\* The snapshot is installed and hydrates its token; _flush_buffer follows.
\* A delta that repeats an event is dropped too; one that disagrees with the
\* book is the Disagree step that may follow.
Hydrate(token, ts) ==
  /\ \E newest \in {ts, Flushed(token, ts)} : books' = [books EXCEPT ![token] = newest]
  /\ buffers' = [buffers EXCEPT ![token] = << >>]
  /\ hydrated' = hydrated \cup {token}
  /\ ClearRecovery({token})
  /\ inflight' = inflight \ {token}
  /\ ready' = IF Connected THEN IsReady(hydrated', desired) ELSE ready

\* Seeded fault: a REST answer for a token that left is installed.
SnapshotAnyToken ==
  \E token \in Tokens, ts \in 1..MaxTs :
    /\ ts >= books[token]
    /\ \/ runner.at = "reading" /\ token \in live \cap desired /\ UNCHANGED rest
       \/ token \in rest /\ rest' = rest \ {token}
    /\ Hydrate(token, ts)
    /\ UNCHANGED <<desired, subscribed, epoch, ping, live, taskVars>>

\* Seeded fault: a REST answer replaces a newer book.
SnapshotAnyTime ==
  \E token \in desired, ts \in 1..MaxTs :
    /\ \/ runner.at = "reading" /\ token \in live /\ UNCHANGED rest
       \/ token \in rest /\ rest' = rest \ {token}
    /\ Hydrate(token, ts)
    /\ UNCHANGED <<desired, subscribed, epoch, ping, live, taskVars>>

\* _handle_book behind its guards.  The event gate calls the snapshot new or
\* repeated, or refuses it; a repeated one can restore hydration only.
Snapshot ==
  \E token \in desired, ts \in 1..MaxTs, repeated \in BOOLEAN :
    /\ ts >= books[token]
    /\ repeated => token \notin hydrated
    /\ \/ runner.at = "reading" /\ token \in live /\ UNCHANGED rest
       \/ token \in rest /\ rest' = rest \ {token}
    /\ Hydrate(token, ts)
    /\ UNCHANGED <<desired, subscribed, epoch, ping, live, taskVars>>

\* _recover_token and _hydrate_market end without a book, or with one that is
\* refused or is for a token the stream has left.
FetchEmpty ==
  \E token \in rest :
    /\ rest' = rest \ {token}
    /\ UNCHANGED <<bookVars, recoveryVars, subscribed, ready, epoch, ping, live, taskVars>>

\* A delta for a token without a book waits for the snapshot
BufferDelta ==
  \E token \in live \cap (desired \ hydrated), ts \in 1..MaxTs :
    /\ runner.at = "reading"
    /\ buffers' = [buffers EXCEPT ![token] =
         Append(IF Len(@) < MaxBuffer THEN @ ELSE Tail(@), ts)]
    /\ \E asked \in Unforced({token}) : Ask(asked)
    /\ UNCHANGED <<desired, hydrated, books, attempts, exhausted, strikes, subscribed,
                   ready, epoch, ping, live, taskVars>>

ApplyDelta ==
  \E token \in live, ts \in 1..MaxTs :
    /\ runner.at = "reading"
    /\ token \in desired \cap hydrated
    /\ ts >= books[token]
    /\ books' = [books EXCEPT ![token] = ts]
    /\ strikes' = [strikes EXCEPT ![token] = 0]
    /\ UNCHANGED <<desired, hydrated, buffers, attempts, exhausted, inflight,
                   subscribed, ready, epoch, ping, live, taskVars, rest>>

\* _reject_preserving_book: a frame that disagrees with the book.  A run of
\* them, or a book past its age, makes _invalidate_book drop it.
Disagree ==
  \E token \in live, stale \in BOOLEAN :
    /\ runner.at = "reading"
    /\ token \in desired \cap hydrated
    /\ IF stale \/ strikes[token] + 1 >= MaxStrikes
       THEN /\ strikes' = [strikes EXCEPT ![token] = 0]
            /\ books' = [books EXCEPT ![token] = 0]
            /\ buffers' = [buffers EXCEPT ![token] = << >>]
            /\ hydrated' = hydrated \ {token}
            /\ ready' = FALSE
            /\ Ask({token})
       ELSE /\ strikes' = [strikes EXCEPT ![token] = @ + 1]
            /\ UNCHANGED <<books, buffers, hydrated, ready, inflight, rest>>
    /\ UNCHANGED <<desired, attempts, exhausted, subscribed, epoch, ping, live, taskVars>>

-----------------------------------------------------------------------------
(* Recovery: _recover_unhydrated_once, one due token at a time *)

\* Seeded fault: the token is never given up.
RecoverOnly(token) ==
  /\ runner.at = "reading" /\ recovering = Nobody
  /\ token \in desired \ hydrated
  /\ attempts[token] < MaxAttempts
  /\ attempts' = [attempts EXCEPT ![token] = @ + 1]
  /\ IF token \in subscribed
     THEN Ask({token}) /\ UNCHANGED <<live, recovering>>
     ELSE /\ live' = live \cup {token}
          /\ recovering' = token
          /\ UNCHANGED <<inflight, rest>>
  /\ UNCHANGED <<bookVars, strikes, exhausted, subscribed, ready, epoch, ping, runner,
                 rotator, active, window>>

Recover(token) ==
  /\ runner.at = "reading" /\ recovering = Nobody
  /\ token \in desired \ hydrated
  /\ IF attempts[token] >= MaxAttempts
     THEN /\ token \notin exhausted
          /\ exhausted' = exhausted \cup {token}
          /\ UNCHANGED <<attempts, live, recovering, inflight, rest>>
     ELSE /\ attempts' = [attempts EXCEPT ![token] = @ + 1]
          /\ UNCHANGED exhausted
          /\ IF token \in subscribed
             THEN Ask({token}) /\ UNCHANGED <<live, recovering>>
             ELSE /\ live' = live \cup {token}
                  /\ recovering' = token
                  /\ UNCHANGED <<inflight, rest>>
  /\ UNCHANGED <<bookVars, strikes, subscribed, ready, epoch, ping, runner, rotator,
                 active, window>>

\* The token is not looked up again after the send
Resubscribed ==
  /\ recovering # Nobody
  /\ subscribed' = subscribed \cup {recovering}
  /\ Ask({recovering})
  /\ recovering' = Nobody
  /\ UNCHANGED <<bookVars, attempts, exhausted, strikes, ready, epoch, ping, live,
                 runner, rotator, active, window>>

StreamNext ==
  \/ \E r \in Rotators : SampleClock(r) \/ Rotate(r) \/ Unsubscribed(r)
                          \/ SubscriptionSent(r) \/ Gathered(r)
  \/ NextWindow
  \/ Open \/ InitialSent \/ StartReading \/ ConnectionLost
  \/ SendPing \/ Pong \/ PongTimeout \/ StopStream
  \/ Snapshot \/ FetchEmpty \/ BufferDelta \/ ApplyDelta \/ Disagree
  \/ \E token \in Tokens : Recover(token)
  \/ Resubscribed

\* The loops of the program keep running.
StreamFairness ==
  /\ \A r \in Rotators : WF_streamVars(Rotate(r) \/ Unsubscribed(r)
                                        \/ SubscriptionSent(r) \/ Gathered(r))
  /\ WF_streamVars(InitialSent \/ StartReading)
  /\ \A token \in Tokens : SF_streamVars(Recover(token))
  /\ WF_streamVars(Resubscribed)

StreamSpec == StreamInit /\ [][StreamNext]_streamVars /\ StreamFairness

-----------------------------------------------------------------------------
(* Properties *)

StreamTypeOK ==
  /\ {desired, hydrated, subscribed, inflight, exhausted, live, rest, active}
       \subseteq SUBSET Tokens
  /\ books \in [Tokens -> 0..MaxTs]
  /\ \A t \in Tokens : /\ Len(buffers[t]) <= MaxBuffer
                        /\ strikes[t] < MaxStrikes /\ attempts[t] <= MaxAttempts
  /\ ready \in BOOLEAN /\ epoch \in 0..MaxEpoch /\ ping \in 0..epoch
  /\ recovering \in Tokens \cup {Nobody} /\ window \in Windows

\* Hydration speaks of the tokens now wanted, each with a book of its own: no
\* answer that comes after a rotation revives a token that left (set_subscriptions).
HydrationCurrent ==
  /\ hydrated \subseteq desired
  /\ hydrated = {t \in Tokens : books[t] # 0}

\* Only a PING of this connection can time it out (_new_connection_epoch)
OwnPing == runner.at = "reading" /\ ping # 0 => ping = epoch

\* What the stream says of its tokens is about these tokens and this connection.
StreamSound == StreamTypeOK /\ HydrationCurrent /\ OwnPing

\* Within a connection a book never goes back in time, unless it was dropped.
BookForward ==
  [][\A t \in Tokens : epoch' = epoch /\ books'[t] # 0 => books'[t] >= books[t]]_streamVars

\* A token that stays wanted on a connection that stays up is hydrated in the
\* end, or given up after its last attempt.
HydratedOrExhausted ==
  \A t \in Tokens :
    (runner.at = "reading" /\ t \in desired) ~>
      (t \in hydrated \cup exhausted \/ runner.at # "reading" \/ t \notin desired)

\* _subscribed_tokens: "Tokens this epoch has already sent a subscribe for"
SubscribedWasSent ==
  runner.at = "reading" => subscribed \cap desired \subseteq live

\* "switch at the exact rollover" (_sync_active_subscriptions): once the tokens
\* of a later window are wanted, those of an earlier one do not come back.
RolloverHolds ==
  [][\A w \in Windows : \A v \in 1..(w - 1) :
       desired = WindowTokens[w] => desired' # WindowTokens[v]]_streamVars

=============================================================================
