--------------------------- MODULE Feeds_proofs ---------------------------
(***************************************************************************)
(* Machine-checked safety of the way from a market to an entry, for any    *)
(* tokens, windows, records, observations and sessions and any bounds:     *)
(*   - the market stream and its books;                                    *)
(*   - the gate that admits one event of a kind at a time;                 *)
(*   - the CEX records kept of each source;                                *)
(*   - the discovery of the market of a window;                            *)
(*   - the flow of the engine from an evaluation to an entry.              *)
(* Each part has its own inductive invariant, and a lemma for each action. *)
(***************************************************************************)
EXTENDS MarketStream, EventGate, CexIngest, MarketDiscovery, EntryFlow, SequenceTheorems,
  FiniteSetTheorems, WellFoundedInduction, TLAPS

\* A set of subsets of a finite set has a minimal one.
LEMMA LeastSubset ==
  ASSUME NEW S, IsFiniteSet(S), NEW C, C \subseteq SUBSET S, C # {}
  PROVE  \E T \in C : \A U \in C : U \subseteq T => U = T
<1>1. IsWellFoundedOn(StrictSubsetOrdering(S), SUBSET S)
  BY FS_StrictSubsetOrderingWellFounded, FS_FiniteSubsetsOfFinite
<1>2. PICK T \in C : \A U \in C : ~(<<U, T>> \in StrictSubsetOrdering(S))
  BY <1>1, WFMin
<1> QED
  BY <1>2 DEF StrictSubsetOrdering

\* The least-number principle, for a set of naturals.
LEMMA LeastNat ==
  ASSUME NEW T, T \subseteq Nat, T # {}
  PROVE  \E n \in T : \A m \in T : n <= m
<1> PICK k \in T : TRUE
  OBVIOUS
<1> DEFINE C == {0..n : n \in {n \in T : n <= k}}
<1>1. IsFiniteSet(0..k)
  BY FS_Interval
<1>2. C \subseteq SUBSET (0..k) /\ C # {}
  OBVIOUS
<1>3. \E A \in C : \A B \in C : B \subseteq A => B = A
  <2> DEFINE I == 0..k
  <2>1. IsFiniteSet(I) /\ C \subseteq SUBSET I /\ C # {}
    BY <1>1, <1>2
  <2> HIDE DEF C, I
  <2> QED
    BY <2>1, LeastSubset
<1>p. PICK A \in C : \A B \in C : B \subseteq A => B = A
  BY <1>3
<1>4. PICK n \in T : n <= k /\ A = 0..n
  OBVIOUS
<1>5. ASSUME NEW m \in T, m < n PROVE FALSE
  <2>1. 0..m \in C /\ 0..m \subseteq A
    BY <1>4, <1>5
  <2>2. 0..m = 0..n
    BY <2>1, <1>p, <1>4
  <2>3. n \in 0..n /\ n \notin 0..m
    BY <1>5
  <2> QED
    BY <2>2, <2>3
<1> QED
  BY <1>5

-----------------------------------------------------------------------------
TokenSets ==
  /\ desired \subseteq Tokens /\ subscribed \subseteq Tokens /\ inflight \subseteq Tokens
  /\ exhausted \subseteq Tokens /\ live \subseteq Tokens /\ rest \subseteq Tokens
  /\ active \subseteq Tokens /\ recovering \in Tokens \cup {Nobody}

\* What a suspended call holds
Held(call) ==
  /\ call.at = "sampled" => call.window \in Windows
  /\ call.at \in {"unsubscribing", "subscribing", "gathering"} =>
       call.wanted \subseteq Tokens /\ call.added \subseteq Tokens
  /\ call.at = "subscribing" => call.fresh \subseteq Tokens

Calls ==
  /\ window \in Windows
  /\ rotator = [r \in Rotators |-> rotator[r]] /\ \A r \in Rotators : Held(rotator[r])
  /\ runner.at = "gathering" => runner.asked \subseteq Tokens

Books ==
  /\ books \in [Tokens -> 0..MaxTs] /\ buffers \in [Tokens -> Seq(1..MaxTs)]
  /\ \A t \in Tokens : Len(buffers[t]) <= MaxBuffer
  /\ hydrated \subseteq desired /\ hydrated = {t \in Tokens : books[t] # 0}

Counts ==
  /\ strikes \in [Tokens -> Nat] /\ attempts \in [Tokens -> Nat]
  /\ \A t \in Tokens : strikes[t] < MaxStrikes /\ attempts[t] <= MaxAttempts

Connection == ready \in BOOLEAN /\ epoch \in 0..MaxEpoch /\ ping \in {0, epoch}

StreamInv == TokenSets /\ Calls /\ Books /\ Counts /\ Connection

LEMMA StreamBounds ==
  /\ MaxTs \in Nat /\ MaxBuffer \in Nat /\ MaxStrikes \in Nat /\ MaxAttempts \in Nat /\ MaxEpoch \in Nat
  /\ MaxTs > 0 /\ MaxBuffer > 0 /\ MaxStrikes > 0
BY StreamAssumption

LEMMA StreamInvImplies == StreamInv => StreamSound
<1> SUFFICES ASSUME StreamInv PROVE StreamSound
  OBVIOUS
<1> USE DEF StreamInv
<1>1. {desired, hydrated, subscribed, inflight, exhausted, live, rest, active} \subseteq SUBSET Tokens
  BY DEF TokenSets, Books
<1>2. books \in [Tokens -> 0..MaxTs]
  BY DEF Books
<1>3. \A t \in Tokens : Len(buffers[t]) <= MaxBuffer /\ strikes[t] < MaxStrikes /\ attempts[t] <= MaxAttempts
  BY DEF Books, Counts
<1>4. ready \in BOOLEAN /\ epoch \in 0..MaxEpoch
  BY DEF Connection
<1>5. ping \in 0..epoch /\ OwnPing
  BY DEF Connection, OwnPing
<1>6. recovering \in Tokens \cup {Nobody} /\ window \in Windows
  BY DEF TokenSets, Calls
<1>7. HydrationCurrent
  BY DEF Books, HydrationCurrent
<1> QED
  BY <1>1, <1>2, <1>3, <1>4, <1>5, <1>6, <1>7 DEF StreamSound, StreamTypeOK

LEMMA EmptyFits == << >> \in Seq(1..MaxTs) /\ Len(<< >>) <= MaxBuffer
BY StreamBounds

LEMMA StreamStarts == StreamInit => StreamInv
<1> SUFFICES ASSUME StreamInit PROVE StreamInv
  OBVIOUS
<1> USE DEF StreamInit
<1>1. TokenSets
  BY DEF TokenSets
<1>2. Calls
  BY StreamAssumption DEF Calls, Held, Idle
<1>3. Books
  BY StreamBounds DEF Books
<1>4. Counts
  BY StreamBounds DEF Counts
<1>5. Connection
  <2>1. ready = FALSE /\ epoch = 0 /\ ping = 0
    OBVIOUS
  <2>2. 0 \in 0..MaxEpoch
    BY StreamBounds
  <2> QED
    BY <2>1, <2>2 DEF Connection
<1> QED
  BY <1>1, <1>2, <1>3, <1>4, <1>5 DEF StreamInv

\* The newest of a snapshot and the deltas that waited for it is one of them.
LEMMA NewestFlushed ==
  ASSUME Books, NEW token \in Tokens, NEW ts \in 1..MaxTs
  PROVE  Flushed(token, ts) \in 1..MaxTs /\ Flushed(token, ts) >= ts
<1> DEFINE S == {ts} \cup ToSet(buffers[token])
<1>1. S \subseteq 1..MaxTs /\ ts \in S
  <2>1. buffers[token] \in Seq(1..MaxTs)
    BY DEF Books
  <2>2. DOMAIN buffers[token] = 1..Len(buffers[token])
    BY <2>1, LenProperties
  <2>3. \A i \in DOMAIN buffers[token] : buffers[token][i] \in 1..MaxTs
    BY <2>1, <2>2, ElementOfSeq
  <2> QED
    BY <2>3 DEF ToSet
<1> DEFINE T == {MaxTs - x : x \in S}
<1>2. T \subseteq Nat /\ T # {}
  BY <1>1, StreamBounds
<1> HIDE DEF S
<1>3. PICK n \in T : \A m \in T : n <= m
  <2> HIDE DEF T
  <2> QED
    BY <1>2, LeastNat
<1>4. PICK x \in S : n = MaxTs - x
  OBVIOUS
<1>5. \A y \in S : x >= y
  <2> TAKE y \in S
  <2>1. MaxTs - x <= MaxTs - y
    BY <1>3, <1>4
  <2> QED
    BY <1>1, <2>1, StreamBounds
<1>6. Max(S) \in S /\ \A y \in S : Max(S) >= y
  BY <1>5 DEF Max
<1>7. Flushed(token, ts) = Max(S)
  BY DEF Flushed, S
<1> QED
  BY <1>1, <1>6, <1>7

LEMMA HydrateKeeps ==
  ASSUME StreamInv, NEW token \in desired, NEW ts \in 1..MaxTs, Hydrate(token, ts),
         desired' = desired
  PROVE  /\ Books' /\ Counts' /\ ready' \in BOOLEAN
         /\ inflight' \subseteq Tokens /\ exhausted' \subseteq Tokens
         /\ \A t \in Tokens : t # token => books'[t] = books[t]
         /\ books'[token] >= ts
<1> USE DEF StreamInv
<1>1. token \in Tokens
  BY DEF TokenSets
<1>2. PICK newest \in {ts, Flushed(token, ts)} : books' = [books EXCEPT ![token] = newest]
  BY DEF Hydrate
<1>3. newest \in 1..MaxTs /\ newest >= ts
  BY <1>1, <1>2, NewestFlushed
<1>4. books' \in [Tokens -> 0..MaxTs] /\ books'[token] = newest /\ \A t \in Tokens : t # token => books'[t] = books[t]
  BY <1>1, <1>2, <1>3 DEF Books
<1>5. buffers' \in [Tokens -> Seq(1..MaxTs)] /\ \A t \in Tokens : Len(buffers'[t]) <= MaxBuffer
  <2>1. buffers' = [buffers EXCEPT ![token] = << >>]
    BY DEF Hydrate
  <2> QED
    BY <2>1, EmptyFits DEF Books
<1>6. hydrated' = hydrated \cup {token}
  BY DEF Hydrate
<1>7. hydrated' = {t \in Tokens : books'[t] # 0}
  BY <1>1, <1>3, <1>4, <1>6 DEF Books
<1>8. Books'
  BY <1>4, <1>5, <1>6, <1>7 DEF Books
<1>9. strikes' = Reset(strikes, {token}, 0) /\ attempts' = Reset(attempts, {token}, 0)
  BY DEF Hydrate, ClearRecovery
<1>10. Counts'
  BY <1>9, StreamBounds DEF Counts, Reset
<1>11. ready' \in BOOLEAN
  BY DEF Hydrate, IsReady, Connection
<1>12. inflight' \subseteq Tokens /\ exhausted' \subseteq Tokens
  BY DEF Hydrate, ClearRecovery, TokenSets
<1> QED
  BY <1>3, <1>4, <1>8, <1>10, <1>11, <1>12

LEMMA SnapshotKeeps == StreamInv /\ Snapshot => StreamInv'
<1> SUFFICES ASSUME StreamInv, Snapshot PROVE StreamInv'
  OBVIOUS
<1> USE DEF StreamInv
<1>1. PICK token \in desired, ts \in 1..MaxTs :
        Hydrate(token, ts) /\ UNCHANGED <<desired, subscribed, epoch, ping, live, taskVars>>
        /\ rest' \subseteq rest
  BY DEF Snapshot
<1>2. /\ Books' /\ Counts' /\ ready' \in BOOLEAN
      /\ inflight' \subseteq Tokens /\ exhausted' \subseteq Tokens
  BY <1>1, HydrateKeeps
<1>3. TokenSets'
  BY <1>1, <1>2 DEF TokenSets, taskVars
<1>4. Calls'
  BY <1>1 DEF Calls, Held, taskVars
<1>5. Connection'
  BY <1>1, <1>2 DEF Connection
<1> QED
  BY <1>2, <1>3, <1>4, <1>5

LEMMA BufferDeltaKeeps == StreamInv /\ BufferDelta => StreamInv'
<1> SUFFICES ASSUME StreamInv, BufferDelta PROVE StreamInv'
  OBVIOUS
<1> USE DEF StreamInv
<1>1. PICK token \in live \cap (desired \ hydrated), ts \in 1..MaxTs :
        /\ buffers' = [buffers EXCEPT ![token] =
             Append(IF Len(buffers[token]) < MaxBuffer THEN buffers[token] ELSE Tail(buffers[token]), ts)]
        /\ \E asked \in Unforced({token}) : Ask(asked)
        /\ UNCHANGED <<desired, hydrated, books, attempts, exhausted, strikes, subscribed,
                       ready, epoch, ping, live, taskVars>>
  BY DEF BufferDelta
<1>2. token \in Tokens
  BY DEF TokenSets
<1> DEFINE q == IF Len(buffers[token]) < MaxBuffer THEN buffers[token] ELSE Tail(buffers[token])
<1>3. q \in Seq(1..MaxTs) /\ Len(q) < MaxBuffer
  <2>1. buffers[token] \in Seq(1..MaxTs) /\ Len(buffers[token]) \in Nat /\ Len(buffers[token]) <= MaxBuffer
    BY <1>2 DEF Books
  <2>2. CASE Len(buffers[token]) < MaxBuffer
    BY <2>1, <2>2
  <2>3. CASE ~(Len(buffers[token]) < MaxBuffer)
    <3>1. buffers[token] # << >>
      BY <2>1, <2>3, StreamBounds
    <3>2. Tail(buffers[token]) \in Seq(1..MaxTs) /\ Len(Tail(buffers[token])) = Len(buffers[token]) - 1
      BY <2>1, <3>1, HeadTailProperties
    <3> QED
      BY <2>1, <2>3, <3>2, StreamBounds
  <2> QED
    BY <2>2, <2>3
<1>4. buffers' = [buffers EXCEPT ![token] = Append(q, ts)]
  BY <1>1
<1> HIDE DEF q
<1>5. Append(q, ts) \in Seq(1..MaxTs) /\ Len(Append(q, ts)) <= MaxBuffer
  BY <1>3, StreamBounds
<1>6. buffers' \in [Tokens -> Seq(1..MaxTs)] /\ \A t \in Tokens : Len(buffers'[t]) <= MaxBuffer
  BY <1>2, <1>4, <1>5 DEF Books
<1>7. Books'
  BY <1>1, <1>6 DEF Books
<1>8. TokenSets'
  BY <1>1 DEF TokenSets, taskVars, Unforced, Ask
<1>9. Calls'
  BY <1>1 DEF Calls, Held, taskVars
<1>10. Counts' /\ Connection'
  BY <1>1 DEF Counts, Connection
<1> QED
  BY <1>7, <1>8, <1>9, <1>10

LEMMA ApplyDeltaKeeps == StreamInv /\ ApplyDelta => StreamInv'
<1> SUFFICES ASSUME StreamInv, ApplyDelta PROVE StreamInv'
  OBVIOUS
<1> USE DEF StreamInv
<1>1. PICK token \in live, ts \in 1..MaxTs :
        /\ token \in desired \cap hydrated
        /\ books' = [books EXCEPT ![token] = ts]
        /\ strikes' = [strikes EXCEPT ![token] = 0]
        /\ UNCHANGED <<desired, hydrated, buffers, attempts, exhausted, inflight,
                       subscribed, ready, epoch, ping, live, taskVars, rest>>
  BY DEF ApplyDelta
<1>2. token \in Tokens
  BY DEF TokenSets
<1>3. Books'
  BY <1>1, <1>2 DEF Books
<1>4. Counts'
  BY <1>1, <1>2, StreamBounds DEF Counts
<1>5. TokenSets' /\ Connection'
  BY <1>1 DEF TokenSets, Connection, taskVars
<1>6. Calls'
  BY <1>1 DEF Calls, Held, taskVars
<1> QED
  BY <1>3, <1>4, <1>5, <1>6

LEMMA DisagreeKeeps == StreamInv /\ Disagree => StreamInv'
<1> SUFFICES ASSUME StreamInv, Disagree PROVE StreamInv'
  OBVIOUS
<1> USE DEF StreamInv
<1>1. PICK token \in live, stale \in BOOLEAN :
        /\ token \in desired \cap hydrated
        /\ IF stale \/ strikes[token] + 1 >= MaxStrikes
           THEN /\ strikes' = [strikes EXCEPT ![token] = 0]
                /\ books' = [books EXCEPT ![token] = 0]
                /\ buffers' = [buffers EXCEPT ![token] = << >>]
                /\ hydrated' = hydrated \ {token}
                /\ ready' = FALSE
                /\ Ask({token})
           ELSE /\ strikes' = [strikes EXCEPT ![token] = strikes[token] + 1]
                /\ UNCHANGED <<books, buffers, hydrated, ready, inflight, rest>>
        /\ UNCHANGED <<desired, attempts, exhausted, subscribed, epoch, ping, live, taskVars>>
  BY DEF Disagree
<1>2. token \in Tokens
  BY DEF TokenSets
<1>3. Calls'
  BY <1>1 DEF Calls, Held, taskVars
<1>4. CASE stale \/ strikes[token] + 1 >= MaxStrikes
  <2>1. Books'
    <3>1. books' \in [Tokens -> 0..MaxTs] /\ books'[token] = 0 /\ \A t \in Tokens : t # token => books'[t] = books[t]
      BY <1>1, <1>2, <1>4, StreamBounds DEF Books
    <3>2. buffers' \in [Tokens -> Seq(1..MaxTs)] /\ \A t \in Tokens : Len(buffers'[t]) <= MaxBuffer
      BY <1>1, <1>2, <1>4, EmptyFits DEF Books
    <3>3. hydrated' = {t \in Tokens : books'[t] # 0} /\ hydrated' \subseteq desired'
      BY <1>1, <1>2, <1>4, <3>1 DEF Books
    <3> QED
      BY <3>1, <3>2, <3>3 DEF Books
  <2>2. Counts'
    <3>1. strikes' = [strikes EXCEPT ![token] = 0] /\ attempts' = attempts
      BY <1>1, <1>4
    <3> QED
      BY <3>1, <1>2, StreamBounds DEF Counts
  <2>3. TokenSets' /\ Connection'
    BY <1>1, <1>2, <1>4 DEF TokenSets, Connection, taskVars, Ask
  <2> QED
    BY <1>3, <2>1, <2>2, <2>3
<1>5. CASE ~(stale \/ strikes[token] + 1 >= MaxStrikes)
  <2>1. Books'
    BY <1>1, <1>5 DEF Books
  <2>2. Counts'
    BY <1>1, <1>2, <1>5, StreamBounds DEF Counts
  <2>3. TokenSets' /\ Connection'
    BY <1>1, <1>2, <1>5 DEF TokenSets, Connection, taskVars
  <2> QED
    BY <1>3, <2>1, <2>2, <2>3
<1> QED
  BY <1>4, <1>5

LEMMA RecoverKeeps ==
  ASSUME StreamInv, NEW token \in Tokens, Recover(token)
  PROVE  StreamInv'
<1> USE DEF StreamInv
<1>1. UNCHANGED <<bookVars, strikes, subscribed, ready, epoch, ping, runner, rotator,
                 active, window>>
  BY DEF Recover
<1>2. Books' /\ Connection'
  BY <1>1 DEF Books, Connection, bookVars
<1>3. Calls'
  BY <1>1 DEF Calls, Held
<1>4. CASE attempts[token] >= MaxAttempts
  BY <1>1, <1>2, <1>3, <1>4 DEF Recover, TokenSets, Counts, bookVars
<1>5. CASE ~(attempts[token] >= MaxAttempts)
  <2>1. attempts' = [attempts EXCEPT ![token] = @ + 1] /\ exhausted' = exhausted
    BY <1>5 DEF Recover
  <2>2. Counts'
    BY <1>1, <1>5, <2>1, StreamBounds DEF Counts
  <2>3. TokenSets'
    BY <1>1, <1>5, <2>1 DEF Recover, TokenSets, bookVars, Ask
  <2> QED
    BY <1>2, <1>3, <2>2, <2>3
<1> QED
  BY <1>4, <1>5

LEMMA ResubscribedKeeps == StreamInv /\ Resubscribed => StreamInv'
<1> SUFFICES ASSUME StreamInv, Resubscribed PROVE StreamInv'
  OBVIOUS
<1> USE DEF StreamInv, Resubscribed
<1>1. TokenSets'
  BY DEF TokenSets, bookVars, Ask
<1>2. Books' /\ Connection' /\ Counts'
  BY DEF Books, Connection, Counts, bookVars
<1>3. Calls'
  BY DEF Calls, Held
<1> QED
  BY <1>1, <1>2, <1>3

-----------------------------------------------------------------------------

\* The rotator's own call is what a step of it changes.
LEMMA CallReplaced ==
  ASSUME Calls, NEW r \in Rotators, NEW call, Held(call),
         rotator' = [rotator EXCEPT ![r] = call], UNCHANGED <<runner, window>>
  PROVE  Calls'
<1>1. rotator' = [q \in Rotators |-> rotator'[q]]
  BY DEF Calls
<1>2. \A q \in Rotators : rotator'[q] = IF q = r THEN call ELSE rotator[q]
  BY DEF Calls
<1>3. \A q \in Rotators : Held(rotator'[q])
  BY <1>2 DEF Calls
<1> QED
  BY <1>1, <1>3 DEF Calls, Held

LEMMA IdleHeld == Held(Idle)
  BY DEF Held, Idle

LEMMA SampleClockKeeps ==
  ASSUME StreamInv, NEW r \in Rotators, SampleClock(r)
  PROVE  StreamInv'
<1> USE DEF StreamInv, SampleClock
<1>1. Held([at |-> "sampled", window |-> window])
  BY DEF Held, Calls
<1>2. Calls'
  BY <1>1, CallReplaced
<1>3. TokenSets' /\ Books' /\ Counts' /\ Connection'
  BY DEF TokenSets, Books, Counts, Connection, bookVars, recoveryVars
<1> QED
  BY <1>2, <1>3

\* Where a call ends
LEMMA InstalledKeeps ==
  ASSUME StreamInv, NEW r \in Rotators, NEW wanted \in SUBSET Tokens,
         NEW asked \in SUBSET Tokens, NEW pending \in SUBSET Tokens,
         Installed(r, wanted, asked, pending), UNCHANGED <<runner, window>>
  PROVE  /\ Calls' /\ ready' \in BOOLEAN
         /\ active' \subseteq Tokens /\ inflight' \subseteq Tokens /\ rest' \subseteq Tokens
<1>1. Calls'
  BY IdleHeld, CallReplaced DEF Installed, StreamInv
<1>2. ready' \in BOOLEAN
  BY DEF Installed, StreamInv, Connection
<1>3. active' \subseteq Tokens /\ inflight' \subseteq Tokens /\ rest' \subseteq Tokens
  BY DEF Installed, StreamInv, TokenSets
<1> QED
  BY <1>1, <1>2, <1>3

\* Tokens that leave take their books with them.
LEMMA LeaveKeeps ==
  ASSUME StreamInv, NEW wanted \in SUBSET Tokens, NEW removed,
         removed = desired \ wanted,
         desired' = wanted, hydrated' = hydrated \ removed,
         books' = Reset(books, removed, 0), buffers' = Reset(buffers, removed, << >>),
         ClearRecovery(removed)
  PROVE  Books' /\ Counts' /\ exhausted' \subseteq Tokens
<1> USE DEF StreamInv
<1>1. books' \in [Tokens -> 0..MaxTs] /\ \A t \in Tokens : books'[t] = IF t \in removed THEN 0 ELSE books[t]
  BY StreamBounds DEF Books, Reset
<1>2. buffers' \in [Tokens -> Seq(1..MaxTs)] /\ \A t \in Tokens : Len(buffers'[t]) <= MaxBuffer
  <2>1. DOMAIN buffers = Tokens
    BY DEF Books
  <2>2. \A t \in Tokens : buffers'[t] = IF t \in removed THEN << >> ELSE buffers[t]
    BY <2>1 DEF Reset
  <2>3. \A t \in Tokens : buffers'[t] \in Seq(1..MaxTs) /\ Len(buffers'[t]) <= MaxBuffer
    BY <2>2, EmptyFits DEF Books
  <2> QED
    BY <2>1, <2>3 DEF Reset
<1>3. hydrated' \subseteq desired' /\ hydrated' = {t \in Tokens : books'[t] # 0}
  BY <1>1 DEF Books
<1>4. Books'
  BY <1>1, <1>2, <1>3 DEF Books
<1>5. Counts'
  BY StreamBounds DEF Counts, ClearRecovery, Reset
<1>6. exhausted' \subseteq Tokens
  BY DEF ClearRecovery, TokenSets
<1> QED
  BY <1>4, <1>5, <1>6

LEMMA RotateKeeps ==
  ASSUME StreamInv, NEW r \in Rotators, Rotate(r)
  PROVE  StreamInv'
<1> USE DEF StreamInv
<1> DEFINE wanted == WindowTokens[rotator[r].window]
<1> DEFINE removed == desired \ wanted
<1> DEFINE added == wanted \ desired
<1> DEFINE fresh == added \ subscribed
<1> DEFINE leave == /\ desired' = wanted
                    /\ hydrated' = hydrated \ removed
                    /\ books' = Reset(books, removed, 0)
                    /\ buffers' = Reset(buffers, removed, << >>)
                    /\ subscribed' = subscribed \ removed
                    /\ ClearRecovery(removed)
<1>1. UNCHANGED <<epoch, ping, runner, recovering, window>>
  BY DEF Rotate
<1>2. wanted \in SUBSET Tokens
  BY StreamAssumption DEF Rotate, Calls, Held
<1>3. \/ /\ rotator' = [rotator EXCEPT ![r] = Idle]
         /\ UNCHANGED <<bookVars, recoveryVars, subscribed, ready, live, active, rest>>
      \/ /\ leave
         /\ Installed(r, wanted, {}, inflight \ removed)
         /\ UNCHANGED live
      \/ /\ leave
         /\ live' = live \ removed
         /\ rotator' = [rotator EXCEPT ![r] =
              [at |-> "unsubscribing", wanted |-> wanted, added |-> added]]
         /\ inflight' = inflight \ removed
         /\ UNCHANGED <<ready, active, rest>>
      \/ /\ leave
         /\ live' = live \cup fresh
         /\ rotator' = [rotator EXCEPT ![r] =
              [at |-> IF fresh = {} THEN "gathering" ELSE "subscribing",
               wanted |-> wanted, added |-> added, fresh |-> fresh]]
         /\ UNCHANGED <<inflight, ready, active, rest>>
  BY DEF Rotate
<1>4. added \subseteq Tokens /\ fresh \subseteq Tokens
  BY <1>2
<1>5. leave => Books' /\ Counts' /\ exhausted' \subseteq Tokens /\ desired' \subseteq Tokens /\ subscribed' \subseteq Tokens
  BY <1>2, LeaveKeeps DEF TokenSets
<1>6. inflight \ removed \in SUBSET Tokens /\ live \ removed \subseteq Tokens /\ live \cup fresh \subseteq Tokens
  BY <1>4 DEF TokenSets
<1>7. Held([at |-> "unsubscribing", wanted |-> wanted, added |-> added])
  BY <1>2, <1>4 DEF Held
<1>8. Held([at |-> IF fresh = {} THEN "gathering" ELSE "subscribing",
               wanted |-> wanted, added |-> added, fresh |-> fresh])
  BY <1>2, <1>4 DEF Held
<1> HIDE DEF wanted, removed, added, fresh, leave
<1>9. CASE /\ rotator' = [rotator EXCEPT ![r] = Idle]
           /\ UNCHANGED <<bookVars, recoveryVars, subscribed, ready, live, active, rest>>
  <2>1. Calls'
    BY <1>1, <1>9, IdleHeld, CallReplaced
  <2>2. TokenSets' /\ Books' /\ Counts' /\ Connection'
    BY <1>1, <1>9 DEF TokenSets, Books, Counts, Connection, bookVars, recoveryVars
  <2> QED
    BY <2>1, <2>2
<1>10. CASE leave /\ Installed(r, wanted, {}, inflight \ removed) /\ UNCHANGED live
  <2>1. /\ Calls' /\ ready' \in BOOLEAN
        /\ active' \subseteq Tokens /\ inflight' \subseteq Tokens /\ rest' \subseteq Tokens
    BY <1>1, <1>2, <1>6, <1>10, InstalledKeeps
  <2>2. TokenSets' /\ Connection'
    BY <1>1, <1>5, <1>10, <2>1 DEF TokenSets, Connection
  <2> QED
    BY <1>5, <1>10, <2>1, <2>2
<1>11. CASE /\ leave
            /\ live' = live \ removed
            /\ rotator' = [rotator EXCEPT ![r] =
                 [at |-> "unsubscribing", wanted |-> wanted, added |-> added]]
            /\ inflight' = inflight \ removed
            /\ UNCHANGED <<ready, active, rest>>
  <2>1. Calls'
    BY <1>1, <1>7, <1>11, CallReplaced
  <2>2. TokenSets' /\ Connection'
    BY <1>1, <1>5, <1>6, <1>11 DEF TokenSets, Connection
  <2> QED
    BY <1>5, <1>11, <2>1, <2>2
<1>12. CASE /\ leave
            /\ live' = live \cup fresh
            /\ rotator' = [rotator EXCEPT ![r] =
                 [at |-> IF fresh = {} THEN "gathering" ELSE "subscribing",
                  wanted |-> wanted, added |-> added, fresh |-> fresh]]
            /\ UNCHANGED <<inflight, ready, active, rest>>
  <2>1. Calls'
    BY <1>1, <1>8, <1>12, CallReplaced
  <2>2. TokenSets' /\ Connection'
    BY <1>1, <1>5, <1>6, <1>12 DEF TokenSets, Connection
  <2> QED
    BY <1>5, <1>12, <2>1, <2>2
<1> QED
  BY <1>3, <1>9, <1>10, <1>11, <1>12

LEMMA UnsubscribedKeeps ==
  ASSUME StreamInv, NEW r \in Rotators, Unsubscribed(r)
  PROVE  StreamInv'
<1> USE DEF StreamInv
<1> DEFINE call == rotator[r]
<1> DEFINE fresh == call.added \ subscribed
<1>1. UNCHANGED <<books, buffers, subscribed, attempts, exhausted, strikes, epoch,
                 ping, runner, recovering, window>>
  BY DEF Unsubscribed
<1>2. call.wanted \in SUBSET Tokens /\ call.added \subseteq Tokens /\ fresh \subseteq Tokens
  BY DEF Unsubscribed, Calls, Held
<1>3. UNCHANGED <<desired, hydrated>>
  BY DEF Unsubscribed
<1>4. \/ UNCHANGED live /\ Installed(r, call.wanted, {}, inflight)
      \/ /\ live' = live \cup fresh
         /\ rotator' = [rotator EXCEPT ![r] =
              [at |-> IF fresh = {} THEN "gathering" ELSE "subscribing",
               wanted |-> call.wanted, added |-> call.added, fresh |-> fresh]]
         /\ UNCHANGED <<inflight, ready, active, rest>>
      \/ /\ rotator' = [rotator EXCEPT ![r] = Idle]
         /\ UNCHANGED <<live, inflight, ready, active, rest>>
  BY DEF Unsubscribed
<1>5. Books' /\ Counts'
  BY <1>1, <1>3 DEF Books, Counts
<1>6. Held([at |-> IF fresh = {} THEN "gathering" ELSE "subscribing",
               wanted |-> call.wanted, added |-> call.added, fresh |-> fresh])
  BY <1>2 DEF Held
<1>7. inflight \in SUBSET Tokens /\ {} \in SUBSET Tokens /\ live \cup fresh \subseteq Tokens
  BY <1>2 DEF TokenSets
<1> HIDE DEF call, fresh
<1>8. CASE UNCHANGED live /\ Installed(r, call.wanted, {}, inflight)
  <2>1. /\ Calls' /\ ready' \in BOOLEAN
        /\ active' \subseteq Tokens /\ inflight' \subseteq Tokens /\ rest' \subseteq Tokens
    BY <1>1, <1>2, <1>7, <1>8, InstalledKeeps
  <2>2. TokenSets' /\ Connection'
    BY <1>1, <1>3, <1>8, <2>1 DEF TokenSets, Connection
  <2> QED
    BY <1>5, <2>1, <2>2
<1>9. CASE /\ live' = live \cup fresh
           /\ rotator' = [rotator EXCEPT ![r] =
                [at |-> IF fresh = {} THEN "gathering" ELSE "subscribing",
                 wanted |-> call.wanted, added |-> call.added, fresh |-> fresh]]
           /\ UNCHANGED <<inflight, ready, active, rest>>
  <2>1. Calls'
    BY <1>1, <1>6, <1>9, CallReplaced
  <2>2. TokenSets' /\ Connection'
    BY <1>1, <1>3, <1>7, <1>9 DEF TokenSets, Connection
  <2> QED
    BY <1>5, <2>1, <2>2
<1>10. CASE /\ rotator' = [rotator EXCEPT ![r] = Idle]
            /\ UNCHANGED <<live, inflight, ready, active, rest>>
  <2>1. Calls'
    BY <1>1, <1>10, IdleHeld, CallReplaced
  <2>2. TokenSets' /\ Connection'
    BY <1>1, <1>3, <1>10 DEF TokenSets, Connection
  <2> QED
    BY <1>5, <2>1, <2>2
<1> QED
  BY <1>4, <1>8, <1>9, <1>10

LEMMA SubscriptionSentKeeps ==
  ASSUME StreamInv, NEW r \in Rotators, SubscriptionSent(r)
  PROVE  StreamInv'
<1> USE DEF StreamInv
<1>1. UNCHANGED <<bookVars, recoveryVars, ready, epoch, ping, live, runner,
                 recovering, active, rest, window>>
  BY DEF SubscriptionSent
<1>2. Books' /\ Counts' /\ Connection'
  BY <1>1 DEF Books, Counts, Connection, bookVars, recoveryVars
<1>3. subscribed' \in {subscribed \cup rotator[r].fresh, subscribed} /\ rotator[r].at = "subscribing"
  BY DEF SubscriptionSent
<1>4. TokenSets'
  BY <1>1, <1>3 DEF TokenSets, Calls, Held, bookVars, recoveryVars
<1>5. Calls'
  <2>1. CASE rotator' = [rotator EXCEPT ![r] = Idle]
    BY <1>1, <2>1, IdleHeld, CallReplaced
  <2>2. CASE rotator' = [rotator EXCEPT ![r].at = "gathering"]
    <3> DEFINE call == [rotator[r] EXCEPT !.at = "gathering"]
    <3>1. rotator' = [rotator EXCEPT ![r] = call]
      BY <2>2
    <3>2. Held(call)
      BY <1>3 DEF Held, Calls
    <3> HIDE DEF call
    <3> QED
      BY <1>1, <3>1, <3>2, CallReplaced
  <2> QED
    BY <2>1, <2>2 DEF SubscriptionSent
<1> QED
  BY <1>2, <1>4, <1>5

LEMMA GatheredKeeps ==
  ASSUME StreamInv, NEW r \in Rotators, Gathered(r)
  PROVE  StreamInv'
<1> USE DEF StreamInv
<1>1. UNCHANGED <<bookVars, attempts, exhausted, strikes, subscribed, epoch, ping,
                 live, runner, recovering, window>> /\ rotator[r].at = "gathering"
  BY DEF Gathered
<1>2. Books' /\ Counts'
  BY <1>1 DEF Books, Counts, bookVars
<1>3. rotator[r].wanted \in SUBSET Tokens /\ rotator[r].added \subseteq Tokens
  BY <1>1 DEF Calls, Held
<1>4. CASE rotator[r].added \subseteq desired
  <2>1. PICK asked \in Unforced(rotator[r].added) :
            Installed(r, rotator[r].wanted, asked, inflight)
    BY <1>4 DEF Gathered
  <2>2. asked \in SUBSET Tokens /\ inflight \in SUBSET Tokens
    BY <1>3 DEF Unforced, TokenSets
  <2>3. /\ Calls' /\ ready' \in BOOLEAN
        /\ active' \subseteq Tokens /\ inflight' \subseteq Tokens /\ rest' \subseteq Tokens
    BY <1>1, <1>3, <2>1, <2>2, InstalledKeeps
  <2> QED
    BY <1>1, <1>2, <2>3 DEF TokenSets, Connection, bookVars
<1>5. CASE ~(rotator[r].added \subseteq desired)
  <2>1. rotator' = [rotator EXCEPT ![r] = Idle] /\ UNCHANGED <<inflight, rest, active, ready>>
    BY <1>5 DEF Gathered
  <2>2. Calls'
    BY <1>1, <2>1, IdleHeld, CallReplaced
  <2> QED
    BY <1>1, <1>2, <2>1, <2>2 DEF TokenSets, Connection, bookVars
<1> QED
  BY <1>4, <1>5

-----------------------------------------------------------------------------

LEMMA OpenKeeps == StreamInv /\ Open => StreamInv'
<1> SUFFICES ASSUME StreamInv, Open PROVE StreamInv'
  OBVIOUS
<1> USE DEF StreamInv, Open
<1>1. TokenSets'
  BY DEF TokenSets, ClearRecovery
<1>2. Calls'
  BY DEF Calls, Held
<1>3. Books'
  BY StreamBounds DEF Books, Reset
<1>4. Counts'
  BY StreamBounds DEF Counts, ClearRecovery, Reset
<1>5. Connection'
  <2>1. ready' = FALSE /\ epoch' = epoch + 1 /\ ping' = 0
    OBVIOUS
  <2>2. epoch' \in 0..MaxEpoch
    BY <2>1, StreamBounds DEF Connection
  <2> QED
    BY <2>1, <2>2 DEF Connection
<1> QED
  BY <1>1, <1>2, <1>3, <1>4, <1>5

LEMMA ConnectionStepsKeep ==
  ASSUME StreamInv,
         NextWindow \/ InitialSent \/ StartReading \/ Lose \/ SendPing \/ Pong \/ StopStream \/ FetchEmpty
  PROVE  StreamInv'
<1> USE DEF StreamInv
<1>1. UNCHANGED <<books, buffers, hydrated, desired, strikes, attempts>>
  BY DEF NextWindow, InitialSent, StartReading, Lose, SendPing, Pong, StopStream, FetchEmpty,
     bookVars, recoveryVars
<1>2. Books' /\ Counts'
  BY <1>1 DEF Books, Counts
<1>3. TokenSets'
  <2>1. CASE NextWindow \/ InitialSent \/ Lose \/ SendPing \/ Pong \/ StopStream \/ FetchEmpty
    BY <2>1 DEF NextWindow, InitialSent, Lose, SendPing, Pong, StopStream, FetchEmpty, TokenSets,
       bookVars, recoveryVars, taskVars
  <2>2. CASE StartReading
    BY <2>2 DEF StartReading, TokenSets, Calls, bookVars, Unforced, Ask
  <2> QED
    BY <2>1, <2>2
<1>4. Calls'
  <2>1. rotator' = rotator /\ window' \in Windows
    BY DEF NextWindow, InitialSent, StartReading, Lose, SendPing, Pong, StopStream, FetchEmpty,
      taskVars, Calls
  <2>2. runner'.at = "gathering" => runner'.asked \subseteq Tokens
    BY DEF NextWindow, InitialSent, StartReading, Lose, SendPing, Pong, StopStream, FetchEmpty,
      taskVars, Calls, TokenSets, Idle
  <2> QED
    BY <2>1, <2>2 DEF Calls, Held
<1>5. Connection'
  BY DEF NextWindow, InitialSent, StartReading, Lose, SendPing, Pong, StopStream, FetchEmpty, Connection
<1> QED
  BY <1>2, <1>3, <1>4, <1>5

LEMMA StreamStep == StreamInv /\ [StreamNext]_streamVars => StreamInv'
<1> SUFFICES ASSUME StreamInv, [StreamNext]_streamVars PROVE StreamInv'
  OBVIOUS
<1>1. ASSUME NEW r \in Rotators,
             SampleClock(r) \/ Rotate(r) \/ Unsubscribed(r) \/ SubscriptionSent(r) \/ Gathered(r)
      PROVE  StreamInv'
  BY <1>1, SampleClockKeeps, RotateKeeps, UnsubscribedKeeps, SubscriptionSentKeeps, GatheredKeeps
<1>2. CASE NextWindow \/ InitialSent \/ StartReading \/ SendPing \/ Pong \/ StopStream \/ FetchEmpty
  BY <1>2, ConnectionStepsKeep
<1>3. CASE ConnectionLost \/ PongTimeout
  BY <1>3, ConnectionStepsKeep DEF ConnectionLost, PongTimeout
<1>4. CASE Open
  BY <1>4, OpenKeeps
<1>5. CASE Snapshot \/ BufferDelta \/ ApplyDelta \/ Disagree
  BY <1>5, SnapshotKeeps, BufferDeltaKeeps, ApplyDeltaKeeps, DisagreeKeeps
<1>6. ASSUME NEW token \in Tokens, Recover(token) PROVE StreamInv'
  BY <1>6, RecoverKeeps
<1>7. CASE Resubscribed
  BY <1>7, ResubscribedKeeps
<1>8. CASE UNCHANGED streamVars
  BY <1>8 DEF streamVars, StreamInv, TokenSets, Calls, Held, Books, Counts, Connection
<1> QED
  BY <1>1, <1>2, <1>3, <1>4, <1>5, <1>6, <1>7, <1>8 DEF StreamNext

LEMMA StreamInvariant == StreamSpec => []StreamInv
<1>1. StreamInit => StreamInv
  BY StreamStarts
<1>2. StreamInv /\ [StreamNext]_streamVars => StreamInv'
  BY StreamStep
<1> QED
  BY <1>1, <1>2, PTL DEF StreamSpec

\* The wanted tokens that are hydrated are those with a book, whatever answers
\* arrive after a rotation or a reconnect, and a pong is awaited of this
\* connection only.
THEOREM StreamSoundness == StreamSpec => []StreamSound
  BY StreamInvariant, StreamInvImplies, PTL

\* A step of the stream that changes a book within a connection drops it or
\* replaces it by a newer one.
LEMMA BookStep ==
  ASSUME StreamInv, [StreamNext]_streamVars, NEW t \in Tokens, epoch' = epoch, books'[t] # 0
  PROVE  books'[t] >= books[t]
<1>0. books[t] \in Nat
  BY DEF StreamInv, Books
<1>1. CASE UNCHANGED books
  BY <1>0, <1>1
<1>2. CASE Snapshot
  <2>1. PICK token \in desired, ts \in 1..MaxTs :
          Hydrate(token, ts) /\ desired' = desired /\ ts >= books[token]
    BY <1>2 DEF Snapshot
  <2>2. /\ \A u \in Tokens : u # token => books'[u] = books[u]
        /\ books'[token] >= ts /\ Books'
    BY <2>1, HydrateKeeps
  <2>3. books'[t] \in Nat
    BY <2>2 DEF Books
  <2>4. CASE t = token
    BY <1>0, <2>1, <2>2, <2>3, <2>4
  <2>5. CASE t # token
    BY <1>0, <2>2, <2>5
  <2> QED
    BY <2>4, <2>5
<1>3. CASE ApplyDelta
  BY <1>0, <1>3 DEF ApplyDelta, StreamInv, Books
<1>4. CASE Disagree
  <2>1. PICK token \in live : \/ books' = books
                              \/ books' = [books EXCEPT ![token] = 0]
    BY <1>4 DEF Disagree
  <2> QED
    BY <1>0, <2>1 DEF StreamInv, Books
<1>5. CASE Open
  BY <1>5 DEF Open, StreamInv, Connection
<1>6. ASSUME NEW r \in Rotators, Rotate(r) PROVE books'[t] >= books[t]
  <2>1. \/ books' = books
        \/ \E S : books' = Reset(books, S, 0)
    BY <1>6 DEF Rotate, bookVars
  <2> QED
    BY <1>0, <2>1 DEF Reset, StreamInv, Books
<1>7. \/ UNCHANGED books \/ Snapshot \/ ApplyDelta \/ Disagree \/ Open
      \/ \E r \in Rotators : Rotate(r)
  BY DEF StreamNext, streamVars, SampleClock, Unsubscribed, SubscriptionSent, Gathered, NextWindow,
     InitialSent, StartReading, ConnectionLost, Lose, SendPing, Pong, PongTimeout, StopStream,
     FetchEmpty, BufferDelta, Recover, Resubscribed, bookVars
<1> QED
  BY <1>1, <1>2, <1>3, <1>4, <1>5, <1>6, <1>7

\* Within a connection a book never goes back in time, unless it was dropped.
THEOREM BookNeverBack == StreamSpec => BookForward
<1>1. StreamInv /\ [StreamNext]_streamVars =>
        [\A t \in Tokens : epoch' = epoch /\ books'[t] # 0 => books'[t] >= books[t]]_streamVars
  BY BookStep
<1> QED
  BY <1>1, StreamInvariant, PTL DEF StreamSpec, BookForward

-----------------------------------------------------------------------------
\* What stands behind position p of a queue: the keys touched after that one
Behind(queue, p) == {queue[q] : q \in (p + 1)..Len(queue)}

LEMMA RemoveAtIs ==
  ASSUME NEW S, NEW q \in Seq(S), NEW i \in 1..Len(q)
  PROVE  /\ RemoveAt(q, i) \in Seq(S) /\ Len(RemoveAt(q, i)) = Len(q) - 1
         /\ \A k \in 1..(Len(q) - 1) : RemoveAt(q, i)[k] = IF k < i THEN q[k] ELSE q[k + 1]
<1>1. Len(q) \in Nat /\ i \in Nat /\ 1 <= i /\ i <= Len(q)
  BY LenProperties
<1> DEFINE front == SubSeq(q, 1, i - 1)
<1> DEFINE back == SubSeq(q, i + 1, Len(q))
<1>2. front \in Seq(S) /\ Len(front) = i - 1 /\ \A k \in 1..(i - 1) : front[k] = q[k]
  BY <1>1, SubSeqProperties
<1>3. back \in Seq(S) /\ Len(back) = Len(q) - i /\ \A k \in 1..(Len(q) - i) : back[k] = q[i + k]
  BY <1>1, SubSeqProperties
<1>4. RemoveAt(q, i) = front \o back
  BY DEF RemoveAt
<1> HIDE DEF front, back
<1>5. /\ front \o back \in Seq(S) /\ Len(front \o back) = Len(front) + Len(back)
      /\ \A k \in 1..(Len(front) + Len(back)) :
           (front \o back)[k] = IF k <= Len(front) THEN front[k] ELSE back[k - Len(front)]
  BY <1>2, <1>3, ConcatProperties
<1>6. Len(front \o back) = Len(q) - 1
  BY <1>1, <1>2, <1>3, <1>5
<1>7. ASSUME NEW k \in 1..(Len(q) - 1)
      PROVE  (front \o back)[k] = IF k < i THEN q[k] ELSE q[k + 1]
  <2>1. k \in 1..(Len(front) + Len(back))
    BY <1>1, <1>2, <1>3
  <2>2. CASE k < i
    BY <1>1, <1>2, <1>5, <2>1, <2>2
  <2>3. CASE ~(k < i)
    <3>1. (front \o back)[k] = back[k - (i - 1)]
      BY <1>1, <1>2, <1>5, <2>1, <2>3
    <3>2. k - (i - 1) \in 1..(Len(q) - i) /\ i + (k - (i - 1)) = k + 1
      BY <1>1, <2>3
    <3> QED
      BY <1>3, <2>3, <3>1, <3>2
  <2> QED
    BY <2>2, <2>3
<1> QED
  BY <1>4, <1>5, <1>6, <1>7

\* A segment of a sequence without repetition has as many values as positions.
LEMMA DistinctCounted ==
  ASSUME NEW S, NEW m \in Seq(S), IsInjective(m), NEW n \in Nat, Len(m) = n + 1
  PROVE  IsFiniteSet(Behind(m, 1)) /\ Cardinality(Behind(m, 1)) = n
<1>1. DOMAIN m = 1..(n + 1)
  BY LenProperties
<1> DEFINE f == [k \in 2..(n + 1) |-> m[k]]
<1>2. f \in Bijection(2..(n + 1), Behind(m, 1))
  <2>1. f \in [2..(n + 1) -> Behind(m, 1)]
    BY DEF Behind
  <2>2. \A a, b \in 2..(n + 1) : f[a] = f[b] => a = b
    BY <1>1 DEF IsInjective
  <2>3. \A t \in Behind(m, 1) : \E a \in 2..(n + 1) : f[a] = t
    BY DEF Behind
  <2>4. IsInjective(f)
    BY <2>2 DEF IsInjective
  <2> HIDE DEF f
  <2> QED
    BY <2>1, <2>3, <2>4 DEF Bijection, Injection, Surjection
<1>3. IsFiniteSet(2..(n + 1)) /\ Cardinality(2..(n + 1)) = n
  BY FS_Interval
<1> HIDE DEF f
<1> QED
  BY <1>2, <1>3, FS_Bijection DEF ExistsBijection

\* The queue with the key moved to its end, before the oldest is dropped
Moved(q, x) ==
  Append(IF x \in ToSet(q) THEN RemoveAt(q, CHOOSE i \in DOMAIN q : q[i] = x) ELSE q, x)

LEMMA MovedIs ==
  ASSUME NEW S, NEW q \in Seq(S), IsInjective(q), NEW x \in S
  PROVE  /\ Moved(q, x) \in Seq(S) /\ IsInjective(Moved(q, x))
         /\ Len(Moved(q, x)) \in 1..(Len(q) + 1)
         /\ Moved(q, x)[Len(Moved(q, x))] = x
         /\ \A k \in 1..(Len(Moved(q, x)) - 1) : Moved(q, x)[k] \in ToSet(q)
         /\ \A p \in DOMAIN q : q[p] # x =>
              \E k \in 1..(Len(Moved(q, x)) - 1) :
                Moved(q, x)[k] = q[p] /\ Behind(Moved(q, x), k) \subseteq Behind(q, p) \cup {x}
<1>0. DOMAIN q = 1..Len(q) /\ Len(q) \in Nat
  BY LenProperties
<1>1. CASE x \notin ToSet(q)
  <2>1. Moved(q, x) = Append(q, x)
    BY <1>1 DEF Moved
  <2>2. /\ Append(q, x) \in Seq(S) /\ Len(Append(q, x)) = Len(q) + 1
        /\ \A k \in 1..Len(q) : Append(q, x)[k] = q[k]
        /\ Append(q, x)[Len(q) + 1] = x
    BY AppendProperties
  <2>3. \A k \in 1..Len(q) : q[k] # x
    BY <1>0, <1>1 DEF ToSet
  <2>4. DOMAIN Append(q, x) = 1..(Len(q) + 1)
    BY <2>2, LenProperties
  <2>5. IsInjective(Append(q, x))
    BY <1>0, <2>2, <2>3, <2>4 DEF IsInjective
  <2>6. ASSUME NEW p \in DOMAIN q
        PROVE  /\ p \in 1..(Len(Append(q, x)) - 1) /\ Append(q, x)[p] = q[p]
               /\ Behind(Append(q, x), p) \subseteq Behind(q, p) \cup {x}
    <3>1. p \in 1..Len(q)
      BY <1>0
    <3>2. ASSUME NEW k \in (p + 1)..(Len(q) + 1)
          PROVE  Append(q, x)[k] \in Behind(q, p) \cup {x}
      <4>1. CASE k = Len(q) + 1
        BY <4>1, <2>2
      <4>2. CASE k # Len(q) + 1
        BY <4>2, <2>2, <1>0, <3>1 DEF Behind
      <4> QED
        BY <4>1, <4>2
    <3> QED
      BY <1>0, <2>2, <3>1, <3>2 DEF Behind
  <2>7. \A k \in 1..Len(q) : Append(q, x)[k] \in ToSet(q)
    BY <1>0, <2>2 DEF ToSet
  <2> QED
    BY <1>0, <2>1, <2>2, <2>5, <2>6, <2>7
<1>2. CASE x \in ToSet(q)
  <2> DEFINE i == CHOOSE i \in DOMAIN q : q[i] = x
  <2>1. i \in 1..Len(q) /\ q[i] = x
    BY <1>0, <1>2 DEF ToSet
  <2> DEFINE r == RemoveAt(q, i)
  <2>2. Moved(q, x) = Append(r, x)
    BY <1>2 DEF Moved
  <2> HIDE DEF i
  <2>3. /\ r \in Seq(S) /\ Len(r) = Len(q) - 1
        /\ \A k \in 1..(Len(q) - 1) : r[k] = IF k < i THEN q[k] ELSE q[k + 1]
    BY <2>1, RemoveAtIs
  <2> HIDE DEF r
  <2>4. /\ Append(r, x) \in Seq(S) /\ Len(Append(r, x)) = Len(q)
        /\ \A k \in 1..(Len(q) - 1) : Append(r, x)[k] = r[k]
        /\ Append(r, x)[Len(q)] = x
    <3>1. /\ Append(r, x) \in Seq(S) /\ Len(Append(r, x)) = Len(r) + 1
          /\ \A k \in 1..Len(r) : Append(r, x)[k] = r[k]
          /\ Append(r, x)[Len(r) + 1] = x
      BY <2>3, AppendProperties
    <3> QED
      BY <1>0, <2>1, <2>3, <3>1
  <2>5. \A k \in 1..Len(q) : k # i => q[k] # x
    BY <1>0, <2>1 DEF IsInjective
  <2>6. \A k \in 1..(Len(q) - 1) : Append(r, x)[k] # x
    BY <1>0, <2>1, <2>3, <2>4, <2>5
  <2>7. DOMAIN Append(r, x) = 1..Len(q)
    BY <2>4, LenProperties
  <2>8. IsInjective(Append(r, x))
    <3>1. ASSUME NEW k \in 1..(Len(q) - 1), NEW l \in 1..(Len(q) - 1), r[k] = r[l]
          PROVE  k = l
      <4> DEFINE K == IF k < i THEN k ELSE k + 1
      <4> DEFINE L == IF l < i THEN l ELSE l + 1
      <4>a. K \in 1..Len(q) /\ L \in 1..Len(q)
        BY <1>0, <2>1
      <4>b. r[k] = q[K] /\ r[l] = q[L]
        BY <2>3
      <4>1. K = L
        <5> HIDE DEF K, L
        <5> QED
          BY <1>0, <3>1, <4>a, <4>b DEF IsInjective
      <4> QED
        BY <4>1, <2>1, <1>0
    <3>2. ASSUME NEW k \in 1..Len(q), NEW l \in 1..Len(q), Append(r, x)[k] = Append(r, x)[l]
          PROVE  k = l
      <4>1. CASE k = Len(q) /\ l = Len(q)
        BY <4>1
      <4>2. CASE k # Len(q) /\ l # Len(q)
        <5>0. Len(q) \in Nat
          BY <1>0
        <5>1. k \in 1..(Len(q) - 1) /\ l \in 1..(Len(q) - 1)
          BY <4>2, <5>0
        <5> QED
          BY <5>1, <3>1, <3>2, <2>4
      <4>3. CASE k # Len(q) /\ l = Len(q)
        <5>1. k \in 1..(Len(q) - 1)
          BY <4>3, <1>0
        <5> QED
          BY <5>1, <4>3, <3>2, <2>4, <2>6
      <4>4. CASE k = Len(q) /\ l # Len(q)
        <5>1. l \in 1..(Len(q) - 1)
          BY <4>4, <1>0
        <5> QED
          BY <5>1, <4>4, <3>2, <2>4, <2>6
      <4> QED
        BY <4>1, <4>2, <4>3, <4>4
    <3> QED
      BY <2>7, <3>2 DEF IsInjective
  <2>9. ASSUME NEW p \in DOMAIN q, q[p] # x
        PROVE  \E k \in 1..(Len(Append(r, x)) - 1) :
                 /\ Append(r, x)[k] = q[p]
                 /\ Behind(Append(r, x), k) \subseteq Behind(q, p) \cup {x}
    <3> DEFINE k == IF p < i THEN p ELSE p - 1
    <3>1. p \in 1..Len(q) /\ p # i
      BY <1>0, <2>1, <2>9
    <3>2. k \in 1..(Len(q) - 1) /\ Append(r, x)[k] = q[p]
      BY <1>0, <2>1, <2>3, <2>4, <3>1
    <3>3. ASSUME NEW l \in (k + 1)..Len(q)
          PROVE  Append(r, x)[l] \in Behind(q, p) \cup {x}
      <4>1. CASE l = Len(q)
        BY <4>1, <2>4
      <4>2. CASE l # Len(q)
        <5>0. Len(q) \in Nat /\ p \in Nat /\ p >= 1 /\ k \in {p, p - 1} /\ (k = p - 1 => p > i) /\ i \in Nat /\ i >= 1
          BY <1>0, <2>1, <3>1
        <5>4. k \in Nat /\ k >= 1
          BY <5>0
        <5>1. l \in 1..(Len(q) - 1)
          <6> HIDE DEF k
          <6> QED
            BY <4>2, <5>0, <5>4
        <5>2. Append(r, x)[l] = q[IF l < i THEN l ELSE l + 1]
          BY <5>1, <2>3, <2>4
        <5>3. (IF l < i THEN l ELSE l + 1) \in (p + 1)..Len(q)
          BY <5>1, <1>0, <2>1, <3>1
        <5> QED
          BY <5>2, <5>3 DEF Behind
      <4> QED
        BY <4>1, <4>2
    <3>4. Behind(Append(r, x), k) \subseteq Behind(q, p) \cup {x}
      BY <2>4, <3>3 DEF Behind
    <3> HIDE DEF k
    <3> QED
      BY <2>4, <3>2, <3>4
  <2>10. Len(q) \in 1..(Len(q) + 1)
    BY <1>0, <2>1
  <2>11. \A k \in 1..(Len(q) - 1) : Append(r, x)[k] \in ToSet(q)
    <3> SUFFICES ASSUME NEW k \in 1..(Len(q) - 1) PROVE Append(r, x)[k] \in ToSet(q)
      OBVIOUS
    <3> DEFINE K == IF k < i THEN k ELSE k + 1
    <3>1. K \in 1..Len(q)
      BY <1>0, <2>1
    <3>2. Append(r, x)[k] = q[K]
      BY <2>3, <2>4
    <3> HIDE DEF K
    <3> QED
      BY <1>0, <3>1, <3>2 DEF ToSet
  <2> QED
    BY <2>2, <2>4, <2>8, <2>9, <2>10, <2>11
<1> QED
  BY <1>1, <1>2

\* Touching a key puts it last and leaves the others in their order; one that
\* drops out has as many others behind it as the queue holds.
LEMMA TouchIs ==
  ASSUME NEW S, NEW q \in Seq(S), IsInjective(q), NEW x \in S,
         NEW cap \in Nat \ {0}, Len(q) <= cap
  PROVE  LET t == Touch(q, x, cap) IN
         /\ t \in Seq(S) /\ IsInjective(t) /\ Len(t) <= cap
         /\ Len(t) \in DOMAIN t /\ t[Len(t)] = x
         /\ ToSet(t) \subseteq ToSet(q) \cup {x}
         /\ \A p \in DOMAIN q : q[p] # x =>
              \/ \E k \in DOMAIN t : t[k] = q[p] /\ Behind(t, k) \subseteq Behind(q, p) \cup {x}
              \/ \E B \in SUBSET (Behind(q, p) \cup {x}) : IsFiniteSet(B) /\ Cardinality(B) = cap
<1> DEFINE m == Moved(q, x)
<1>0. Len(q) \in Nat
  BY LenProperties
<1>1. /\ m \in Seq(S) /\ IsInjective(m) /\ Len(m) \in 1..(Len(q) + 1) /\ m[Len(m)] = x
      /\ \A k \in 1..(Len(m) - 1) : m[k] \in ToSet(q)
      /\ \A p \in DOMAIN q : q[p] # x =>
           \E k \in 1..(Len(m) - 1) : m[k] = q[p] /\ Behind(m, k) \subseteq Behind(q, p) \cup {x}
  <2>1. m \in Seq(S) /\ IsInjective(m) /\ Len(m) \in 1..(Len(q) + 1) /\ m[Len(m)] = x
    BY MovedIs
  <2>2. \A k \in 1..(Len(m) - 1) : m[k] \in ToSet(q)
    BY MovedIs
  <2>3. \A p \in DOMAIN q : q[p] # x =>
          \E k \in 1..(Len(m) - 1) : m[k] = q[p] /\ Behind(m, k) \subseteq Behind(q, p) \cup {x}
    BY MovedIs
  <2> QED
    BY <2>1, <2>2, <2>3
<1>2. Touch(q, x, cap) = IF Len(m) > cap THEN Tail(m) ELSE m
  BY DEF Touch, Moved
<1> HIDE DEF m
<1>3. DOMAIN m = 1..Len(m)
  BY <1>1, LenProperties
<1>4. CASE ~(Len(m) > cap)
  <2>1. Touch(q, x, cap) = m
    BY <1>2, <1>4
  <2>2. Len(m) <= cap /\ Len(m) \in DOMAIN m
    BY <1>0, <1>1, <1>3, <1>4
  <2>3. \A k \in 1..(Len(m) - 1) : k \in DOMAIN m
    BY <1>0, <1>1, <1>3
  <2>4. ToSet(m) \subseteq ToSet(q) \cup {x}
    <3>1. ASSUME NEW k \in 1..Len(m) PROVE m[k] \in ToSet(q) \cup {x}
      <4>1. CASE k = Len(m)
        BY <4>1, <1>1
      <4>2. CASE k # Len(m)
        <5>1. k \in 1..(Len(m) - 1)
          BY <4>2, <1>0, <1>1
        <5> QED
          BY <5>1, <1>1
      <4> QED
        BY <4>1, <4>2
    <3> QED
      BY <3>1, <1>3 DEF ToSet
  <2> QED
    BY <1>1, <2>1, <2>2, <2>3, <2>4
<1>5. CASE Len(m) > cap
  <2>1. Touch(q, x, cap) = Tail(m) /\ Len(m) = cap + 1 /\ m # << >>
    BY <1>0, <1>1, <1>2, <1>5
  <2> DEFINE t == Tail(m)
  <2>2. t \in Seq(S) /\ Len(t) = cap /\ \A k \in 1..cap : t[k] = m[k + 1]
    BY <1>1, <2>1, HeadTailProperties
  <2> HIDE DEF t
  <2>3. DOMAIN t = 1..cap
    BY <2>2, LenProperties
  <2>4. IsInjective(t)
    <3>1. ASSUME NEW a \in 1..cap, NEW b \in 1..cap, t[a] = t[b] PROVE a = b
      <4>1. a + 1 \in DOMAIN m /\ b + 1 \in DOMAIN m /\ m[a + 1] = m[b + 1]
        BY <1>3, <2>1, <2>2, <3>1
      <4>2. a + 1 = b + 1
        BY <4>1, <1>1 DEF IsInjective
      <4> QED
        BY <4>2
    <3> QED
      BY <2>3, <3>1 DEF IsInjective
  <2>5. Len(t) \in DOMAIN t /\ t[Len(t)] = x
    BY <1>1, <2>1, <2>2, <2>3
  <2>6. ASSUME NEW p \in DOMAIN q, q[p] # x
        PROVE  \/ \E k \in DOMAIN t : t[k] = q[p] /\ Behind(t, k) \subseteq Behind(q, p) \cup {x}
               \/ \E B \in SUBSET (Behind(q, p) \cup {x}) : IsFiniteSet(B) /\ Cardinality(B) = cap
    <3>1. PICK k \in 1..(Len(m) - 1) : m[k] = q[p] /\ Behind(m, k) \subseteq Behind(q, p) \cup {x}
      BY <1>1, <2>6
    <3>2. CASE k = 1
      <4>1. IsFiniteSet(Behind(m, 1)) /\ Cardinality(Behind(m, 1)) = cap
        BY <1>1, <2>1, DistinctCounted
      <4> QED
        BY <3>1, <3>2, <4>1
    <3>3. CASE k # 1
      <4>1. k - 1 \in DOMAIN t /\ t[k - 1] = q[p]
        BY <2>1, <2>2, <2>3, <3>1, <3>3
      <4>2. Behind(t, k - 1) \subseteq Behind(m, k)
        <5>1. ASSUME NEW l \in ((k - 1) + 1)..Len(t) PROVE t[l] \in Behind(m, k)
          <6>1. t[l] = m[l + 1] /\ l + 1 \in (k + 1)..Len(m)
            BY <2>1, <2>2
          <6> QED
            BY <6>1 DEF Behind
        <5> QED
          BY <5>1 DEF Behind
      <4> QED
        BY <3>1, <4>1, <4>2
    <3> QED
      BY <3>2, <3>3
  <2>7. Touch(q, x, cap) = t /\ Len(t) <= cap
    BY <2>1, <2>2 DEF t
  <2>8. ToSet(t) \subseteq ToSet(q) \cup {x}
    <3>1. ASSUME NEW k \in 1..cap PROVE t[k] \in ToSet(q) \cup {x}
      <4>1. CASE k = cap
        BY <4>1, <1>1, <2>1, <2>2
      <4>2. CASE k # cap
        <5>1. k + 1 \in 1..(Len(m) - 1) /\ t[k] = m[k + 1]
          BY <4>2, <2>1, <2>2
        <5> QED
          BY <5>1, <1>1
      <4> QED
        BY <4>1, <4>2
    <3> QED
      BY <3>1, <2>3 DEF ToSet
  <2> QED
    BY <2>2, <2>4, <2>5, <2>6, <2>7, <2>8
<1> QED
  BY <1>4, <1>5

-----------------------------------------------------------------------------

Record == [key : Streams, event : [payload : Payloads, mono : Nat, epoch : Nat], accepted : BOOLEAN]

Pair(r) == <<r.key, r.event.payload>>

\* What was touched, and which streams were accepted, after record i of a log
TouchedSince(l, i) == {Pair(l[k]) : k \in (i + 1)..Len(l)}
AcceptedSince(l, i) == {l[k].key : k \in {j \in (i + 1)..Len(l) : l[j].accepted}}

\* f is not before e by any of the three clocks.
NotBefore(f, e) ==
  /\ ProviderTs[f.payload] >= ProviderTs[e.payload]
  /\ f.epoch >= e.epoch
  /\ f.epoch = e.epoch => f.mono >= e.mono

\* The queue still holds the key, before no more than what came since ...
Holds(q, key, since) == \E p \in DOMAIN q : q[p] = key /\ Behind(q, p) \subseteq since
\* ... or it has turned over.
Turned(since, limit) == \E B \in SUBSET since : IsFiniteSet(B) /\ Cardinality(B) = limit

GatePlain ==
  /\ seen \in Seq(Streams \X Payloads) /\ streams \in Seq(Streams)
  /\ log \in Seq(Record) /\ streamEpoch \in Nat
  /\ \A k \in DOMAIN last : last[k].payload \in Payloads /\ last[k].epoch \in Nat /\ last[k].mono \in Nat

SeenReaches ==
  \A i \in DOMAIN log :
    \/ Holds(seen, Pair(log[i]), TouchedSince(log, i))
    \/ Turned(TouchedSince(log, i), DedupeCapacity)

StreamsReach ==
  \A i \in DOMAIN log : log[i].accepted =>
    \/ /\ Holds(streams, log[i].key, AcceptedSince(log, i))
       /\ NotBefore(last[log[i].key], log[i].event)
    \/ Turned(AcceptedSince(log, i), StreamCapacity)

GateInv == GatePlain /\ SeenReaches /\ StreamsReach /\ AdmissionSound

LEMMA TouchHolds ==
  ASSUME NEW S, NEW q \in Seq(S), IsInjective(q), NEW x \in S,
         NEW cap \in Nat \ {0}, Len(q) <= cap,
         NEW key, NEW since, NEW more, since \cup {x} \subseteq more,
         Holds(q, key, since)
  PROVE  Holds(Touch(q, x, cap), key, more) \/ Turned(more, cap)
<1> DEFINE t == Touch(q, x, cap)
<1>1. /\ t \in Seq(S) /\ Len(t) \in DOMAIN t /\ t[Len(t)] = x
      /\ \A p \in DOMAIN q : q[p] # x =>
           \/ \E k \in DOMAIN t : t[k] = q[p] /\ Behind(t, k) \subseteq Behind(q, p) \cup {x}
           \/ \E B \in SUBSET (Behind(q, p) \cup {x}) : IsFiniteSet(B) /\ Cardinality(B) = cap
  BY TouchIs
<1> HIDE DEF t
<1>2. PICK p \in DOMAIN q : q[p] = key /\ Behind(q, p) \subseteq since
  BY DEF Holds
<1>3. Holds(t, key, more) \/ Turned(more, cap)
  <2>1. CASE key = x
    <3>1. Behind(t, Len(t)) = {}
      BY <1>1, LenProperties DEF Behind
    <3> QED
      BY <1>1, <2>1, <3>1 DEF Holds
  <2>2. CASE key # x
    <3>1. CASE \E k \in DOMAIN t : t[k] = q[p] /\ Behind(t, k) \subseteq Behind(q, p) \cup {x}
      BY <1>2, <3>1 DEF Holds
    <3>2. CASE \E B \in SUBSET (Behind(q, p) \cup {x}) : IsFiniteSet(B) /\ Cardinality(B) = cap
      BY <1>2, <3>2 DEF Turned
    <3> QED
      BY <1>1, <1>2, <2>2, <3>1, <3>2
  <2> QED
    BY <2>1, <2>2
<1> QED
  BY <1>3 DEF t

LEMMA TouchedLast ==
  ASSUME NEW S, NEW q \in Seq(S), IsInjective(q), NEW x \in S,
         NEW cap \in Nat \ {0}, Len(q) <= cap, NEW since
  PROVE  Holds(Touch(q, x, cap), x, since)
<1> DEFINE t == Touch(q, x, cap)
<1>1. t \in Seq(S) /\ Len(t) \in DOMAIN t /\ t[Len(t)] = x
  BY TouchIs
<1> HIDE DEF t
<1>2. Behind(t, Len(t)) = {}
  BY <1>1, LenProperties DEF Behind
<1>3. Holds(t, x, since)
  BY <1>1, <1>2 DEF Holds
<1> QED
  BY <1>3 DEF t

\* A record is added to the log.
LEMMA LogGrows ==
  ASSUME NEW l \in Seq(Record), NEW r \in Record, NEW l2, l2 = Append(l, r)
  PROVE  /\ l2 \in Seq(Record) /\ Len(l2) = Len(l) + 1 /\ Len(l) \in Nat
         /\ DOMAIN l = 1..Len(l) /\ DOMAIN l2 = 1..(Len(l) + 1)
         /\ \A i \in 1..Len(l) : l2[i] = l[i]
         /\ l2[Len(l) + 1] = r
<1>1. /\ l2 \in Seq(Record) /\ Len(l2) = Len(l) + 1
      /\ \A i \in 1..Len(l) : l2[i] = l[i]
      /\ l2[Len(l) + 1] = r
  BY AppendProperties
<1>2. Len(l) \in Nat /\ DOMAIN l = 1..Len(l) /\ DOMAIN l2 = 1..(Len(l) + 1)
  BY <1>1, LenProperties
<1> QED
  BY <1>1, <1>2

LEMMA SinceGrows ==
  ASSUME NEW l \in Seq(Record), NEW r \in Record, NEW i \in 1..Len(l)
  PROVE  /\ TouchedSince(Append(l, r), i) = TouchedSince(l, i) \cup {Pair(r)}
         /\ AcceptedSince(Append(l, r), i) = AcceptedSince(l, i) \cup (IF r.accepted THEN {r.key} ELSE {})
<1> DEFINE l2 == Append(l, r)
<1>1. /\ l2 \in Seq(Record) /\ Len(l2) = Len(l) + 1 /\ Len(l) \in Nat
      /\ \A k \in 1..Len(l) : l2[k] = l[k]
      /\ l2[Len(l) + 1] = r
  BY LogGrows
<1> HIDE DEF l2
<1>2. (i + 1)..Len(l2) = ((i + 1)..Len(l)) \cup {Len(l) + 1}
  BY <1>1
<1>3. \A k \in (i + 1)..Len(l) : l2[k] = l[k]
  BY <1>1
<1>4. TouchedSince(l2, i) = TouchedSince(l, i) \cup {Pair(r)}
  BY <1>1, <1>2, <1>3 DEF TouchedSince
<1>5. AcceptedSince(l2, i) = AcceptedSince(l, i) \cup (IF r.accepted THEN {r.key} ELSE {})
  BY <1>1, <1>2, <1>3 DEF AcceptedSince
<1> QED
  BY <1>4, <1>5 DEF l2

LEMMA NotBeforeTransitive ==
  ASSUME NEW f, NEW g, NEW e, NotBefore(f, g), NotBefore(g, e),
         {f.payload, g.payload, e.payload} \subseteq Payloads,
         {f.epoch, g.epoch, e.epoch, f.mono, g.mono, e.mono} \subseteq Nat
  PROVE  NotBefore(f, e)
<1>1. {ProviderTs[f.payload], ProviderTs[g.payload], ProviderTs[e.payload]} \subseteq Nat
  BY GateAssumption
<1> QED
  BY <1>1 DEF NotBefore

LEMMA SinceFinite ==
  ASSUME NEW l \in Seq(Record), NEW i \in Nat
  PROVE  IsFiniteSet(TouchedSince(l, i)) /\ IsFiniteSet(AcceptedSince(l, i))
<1>1. IsFiniteSet((i + 1)..Len(l))
  BY LenProperties, FS_Interval
<1>2. IsFiniteSet(TouchedSince(l, i))
  <2> DEFINE f == [k \in (i + 1)..Len(l) |-> Pair(l[k])]
  <2>1. TouchedSince(l, i) = {f[k] : k \in (i + 1)..Len(l)}
    BY DEF TouchedSince
  <2>2. f \in Surjection((i + 1)..Len(l), TouchedSince(l, i))
    BY <2>1 DEF Surjection
  <2> HIDE DEF f
  <2> QED
    BY <1>1, <2>2, FS_Surjection
<1>3. IsFiniteSet(AcceptedSince(l, i))
  <2> DEFINE D == {j \in (i + 1)..Len(l) : l[j].accepted}
  <2> DEFINE f == [k \in D |-> l[k].key]
  <2>1. AcceptedSince(l, i) = {f[k] : k \in D}
    BY DEF AcceptedSince
  <2>2. IsFiniteSet(D)
    BY <1>1, FS_Subset
  <2>3. f \in Surjection(D, AcceptedSince(l, i))
    BY <2>1 DEF Surjection
  <2> HIDE DEF f, D
  <2> QED
    BY <2>2, <2>3, FS_Surjection
<1> QED
  BY <1>2, <1>3

LEMMA TurnedCounts ==
  ASSUME NEW T, IsFiniteSet(T), NEW cap, Turned(T, cap)
  PROVE  Cardinality(T) >= cap
BY FS_Subset, FS_CardinalityType DEF Turned

LEMMA GateStarts == GateInit => GateInv
<1> SUFFICES ASSUME GateInit PROVE GateInv
  OBVIOUS
<1> USE DEF GateInit
<1>1. GatePlain
  BY DEF GatePlain
<1>2. SeenReaches /\ StreamsReach
  BY DEF SeenReaches, StreamsReach
<1>3. GateTypeOK
  BY GateAssumption DEF GateTypeOK, ToSet, IsInjective
<1>4. AcceptedOnce /\ WatermarkHolds
  BY DEF AcceptedOnce, WatermarkHolds
<1> QED
  BY <1>1, <1>2, <1>3, <1>4 DEF GateInv, AdmissionSound

\* What a record adds to the claims about the log: those about earlier records
\* stand, and the new one has to bear its own.
LEMMA OnceKept ==
  ASSUME GateInv, NEW r \in Record, log' = Append(log, r),
         r.accepted => Pair(r) \notin ToSet(seen)
  PROVE  AcceptedOnce'
<1> USE DEF GateInv, GatePlain
<1>1. /\ log' \in Seq(Record) /\ Len(log') = Len(log) + 1 /\ Len(log) \in Nat
      /\ DOMAIN log = 1..Len(log) /\ DOMAIN log' = 1..(Len(log) + 1)
      /\ \A i \in 1..Len(log) : log'[i] = log[i]
      /\ log'[Len(log) + 1] = r
  BY LogGrows
<1> SUFFICES ASSUME NEW i \in DOMAIN log', NEW j \in DOMAIN log', i < j, log'[j].accepted,
                    Pair(log'[i]) = Pair(log'[j])
             PROVE  Cardinality({Pair(e) : e \in {log'[k] : k \in (i + 1)..(j - 1)}}) >= DedupeCapacity
  BY DEF AcceptedOnce, Between, Pair
<1>2. i \in 1..Len(log) /\ log'[i] = log[i]
  BY <1>1
<1>3. \A k \in (i + 1)..(j - 1) : log'[k] = log[k]
  BY <1>1
<1>4. {Pair(e) : e \in {log'[k] : k \in (i + 1)..(j - 1)}} = {Pair(e) : e \in {log[k] : k \in (i + 1)..(j - 1)}}
  BY <1>3
<1>5. CASE j \in DOMAIN log
  <2>1. log'[j] = log[j] /\ i \in DOMAIN log
    BY <1>1, <1>2, <1>5
  <2>2. log[i].key = log[j].key /\ log[i].event.payload = log[j].event.payload
    BY <1>2, <2>1 DEF Pair
  <2>3. Cardinality({<<e.key, e.event.payload>> : e \in Between(i, j)}) >= DedupeCapacity
    BY <1>5, <2>1, <2>2 DEF AdmissionSound, AcceptedOnce
  <2> QED
    BY <1>4, <2>3 DEF Between, Pair
<1>6. CASE j \notin DOMAIN log
  <2>1. j = Len(log) + 1 /\ log'[j] = r /\ i \in DOMAIN log
    BY <1>1, <1>2, <1>6
  <2>2. Pair(log[i]) \notin ToSet(seen)
    BY <1>2, <2>1
  <2>3. ~Holds(seen, Pair(log[i]), TouchedSince(log, i))
    BY <2>2 DEF Holds, ToSet
  <2>4. Turned(TouchedSince(log, i), DedupeCapacity)
    BY <2>1, <2>3 DEF SeenReaches
  <2>5. Cardinality(TouchedSince(log, i)) >= DedupeCapacity
    BY <1>1, <1>2, <2>4, SinceFinite, TurnedCounts
  <2>6. {Pair(e) : e \in {log[k] : k \in (i + 1)..(j - 1)}} = TouchedSince(log, i)
    <3>1. j - 1 = Len(log)
      BY <1>1, <2>1
    <3> QED
      BY <3>1 DEF TouchedSince
  <2> QED
    BY <1>4, <2>5, <2>6
<1> QED
  BY <1>5, <1>6

LEMMA WatermarkKept ==
  ASSUME GateInv, NEW r \in Record, log' = Append(log, r),
         r.accepted /\ r.key \in DOMAIN last => NotBefore(r.event, last[r.key])
  PROVE  WatermarkHolds'
<1> USE DEF GateInv, GatePlain
<1>1. /\ log' \in Seq(Record) /\ Len(log') = Len(log) + 1 /\ Len(log) \in Nat
      /\ DOMAIN log = 1..Len(log) /\ DOMAIN log' = 1..(Len(log) + 1)
      /\ \A i \in 1..Len(log) : log'[i] = log[i]
      /\ log'[Len(log) + 1] = r
  BY LogGrows
<1> SUFFICES ASSUME NEW i \in DOMAIN log', NEW j \in DOMAIN log', i < j, log'[i].accepted, log'[j].accepted,
                    log'[i].key = log'[j].key,
                    Cardinality({e.key : e \in {f \in {log'[k] : k \in (i + 1)..(j - 1)} : f.accepted}})
                      < StreamCapacity
             PROVE  NotBefore(log'[j].event, log'[i].event)
  BY DEF WatermarkHolds, Between, NotBefore
<1>2. i \in 1..Len(log) /\ log'[i] = log[i] /\ i \in DOMAIN log
  BY <1>1
<1>3. \A k \in (i + 1)..(j - 1) : log'[k] = log[k]
  BY <1>1
<1>4. {log'[k] : k \in (i + 1)..(j - 1)} = {log[k] : k \in (i + 1)..(j - 1)}
  BY <1>3
<1>5. CASE j \in DOMAIN log
  <2>1. log'[j] = log[j]
    BY <1>1, <1>5
  <2>2. Cardinality({e.key : e \in {f \in Between(i, j) : f.accepted}}) < StreamCapacity
    BY <1>4 DEF Between
  <2> QED
    BY <1>2, <1>5, <2>1, <2>2 DEF AdmissionSound, WatermarkHolds, NotBefore
<1>6. CASE j \notin DOMAIN log
  <2>1. j = Len(log) + 1 /\ log'[j] = r
    BY <1>1, <1>6
  <2>2. {e.key : e \in {f \in {log[k] : k \in (i + 1)..(j - 1)} : f.accepted}} = AcceptedSince(log, i)
    <3>1. j - 1 = Len(log)
      BY <1>1, <2>1
    <3> QED
      BY <3>1 DEF AcceptedSince
  <2>3. ~Turned(AcceptedSince(log, i), StreamCapacity)
    <3>1. IsFiniteSet(AcceptedSince(log, i))
      BY <1>1, <1>2, SinceFinite
    <3>2. Cardinality(AcceptedSince(log, i)) < StreamCapacity /\ Cardinality(AcceptedSince(log, i)) \in Nat
      BY <1>4, <2>2, <3>1, FS_CardinalityType
    <3> QED
      BY <3>1, <3>2, TurnedCounts, GateAssumption
  <2>4. /\ Holds(streams, log[i].key, AcceptedSince(log, i))
        /\ NotBefore(last[log[i].key], log[i].event)
    BY <1>2, <2>3 DEF StreamsReach
  <2>5. log[i].key \in DOMAIN last
    BY <2>4 DEF Holds, ToSet, AdmissionSound, GateTypeOK
  <2>6. NotBefore(r.event, last[r.key]) /\ r.key = log[i].key
    BY <1>2, <2>1, <2>5
  <2>7. /\ log[i] \in Record
        /\ last[r.key].payload \in Payloads /\ last[r.key].epoch \in Nat /\ last[r.key].mono \in Nat
    BY <1>1, <1>2, <2>5, <2>6, ElementOfSeq
  <2>8. NotBefore(r.event, log[i].event)
    <3>1. NotBefore(last[r.key], log[i].event)
      BY <2>4, <2>6
    <3>2. {r.event.payload, last[r.key].payload, log[i].event.payload} \subseteq Payloads
      BY <2>7 DEF Record
    <3>3. {r.event.epoch, last[r.key].epoch, log[i].event.epoch,
           r.event.mono, last[r.key].mono, log[i].event.mono} \subseteq Nat
      BY <2>7 DEF Record
    <3> QED
      BY <2>6, <3>1, <3>2, <3>3, NotBeforeTransitive
  <2> QED
    BY <1>2, <2>1, <2>8
<1> QED
  BY <1>5, <1>6

LEMMA SeenKept ==
  ASSUME GateInv, NEW r \in Record, log' = Append(log, r),
         seen' = Touch(seen, Pair(r), DedupeCapacity)
  PROVE  /\ SeenReaches' /\ seen' \in Seq(Streams \X Payloads)
         /\ IsInjective(seen') /\ Len(seen') <= DedupeCapacity
<1> USE DEF GateInv, GatePlain
<1>1. /\ log' \in Seq(Record) /\ Len(log) \in Nat
      /\ DOMAIN log = 1..Len(log) /\ DOMAIN log' = 1..(Len(log) + 1)
      /\ \A i \in 1..Len(log) : log'[i] = log[i]
      /\ log'[Len(log) + 1] = r
      /\ \A i \in 1..Len(log) : TouchedSince(log', i) = TouchedSince(log, i) \cup {Pair(r)}
  <2>1. /\ log' \in Seq(Record) /\ Len(log) \in Nat
        /\ DOMAIN log = 1..Len(log) /\ DOMAIN log' = 1..(Len(log) + 1)
        /\ \A i \in 1..Len(log) : log'[i] = log[i]
        /\ log'[Len(log) + 1] = r
    BY LogGrows
  <2>2. ASSUME NEW i \in 1..Len(log)
        PROVE  TouchedSince(log', i) = TouchedSince(log, i) \cup {Pair(r)}
    <3>1. TouchedSince(Append(log, r), i) = TouchedSince(log, i) \cup {Pair(r)}
      BY SinceGrows
    <3> QED
      BY <3>1
  <2> QED
    BY <2>1, <2>2
<1>2. /\ seen \in Seq(Streams \X Payloads) /\ IsInjective(seen) /\ Len(seen) <= DedupeCapacity
      /\ Pair(r) \in Streams \X Payloads /\ DedupeCapacity \in Nat \ {0}
  BY GateAssumption DEF AdmissionSound, GateTypeOK, Record, Pair
<1>3. seen' \in Seq(Streams \X Payloads) /\ IsInjective(seen') /\ Len(seen') <= DedupeCapacity
  BY <1>2, TouchIs
<1>4. ASSUME NEW i \in DOMAIN log'
      PROVE  \/ Holds(seen', Pair(log'[i]), TouchedSince(log', i))
             \/ Turned(TouchedSince(log', i), DedupeCapacity)
  <2>1. CASE i = Len(log) + 1
    BY <1>1, <1>2, <2>1, TouchedLast
  <2>2. CASE i # Len(log) + 1
    <3>1. i \in DOMAIN log /\ log'[i] = log[i] /\ TouchedSince(log', i) = TouchedSince(log, i) \cup {Pair(r)}
      BY <1>1, <2>2
    <3>2. CASE Holds(seen, Pair(log[i]), TouchedSince(log, i))
      BY <1>2, <3>1, <3>2, TouchHolds
    <3>3. CASE Turned(TouchedSince(log, i), DedupeCapacity)
      BY <3>1, <3>3 DEF Turned
    <3> QED
      BY <3>1, <3>2, <3>3 DEF SeenReaches
  <2> QED
    BY <2>1, <2>2
<1> QED
  BY <1>3, <1>4 DEF SeenReaches

LEMMA ReplayKeeps ==
  ASSUME GateInv, NEW key \in Streams,
         NEW event \in [payload : Payloads, mono : Nat, epoch : Nat], Replay(key, event)
  PROVE  GateInv'
<1> USE DEF GateInv
<1> DEFINE r == [key |-> key, event |-> event, accepted |-> FALSE]
<1>1. r \in Record /\ ~r.accepted /\ Pair(r) = <<key, event.payload>>
  BY DEF Record, Pair
<1>2. /\ log' = Append(log, r) /\ seen' = Touch(seen, <<key, event.payload>>, DedupeCapacity)
      /\ UNCHANGED <<streams, last, streamEpoch>>
  BY DEF Replay
<1> HIDE DEF r
<1>3. /\ SeenReaches' /\ seen' \in Seq(Streams \X Payloads)
      /\ IsInjective(seen') /\ Len(seen') <= DedupeCapacity
  BY <1>1, <1>2, SeenKept
<1>4. AcceptedOnce' /\ WatermarkHolds'
  BY <1>1, <1>2, OnceKept, WatermarkKept
<1>5. /\ log' \in Seq(Record) /\ Len(log) \in Nat
      /\ DOMAIN log = 1..Len(log) /\ DOMAIN log' = 1..(Len(log) + 1)
      /\ \A i \in 1..Len(log) : log'[i] = log[i]
      /\ log'[Len(log) + 1] = r
      /\ \A i \in 1..Len(log) : AcceptedSince(log', i) = AcceptedSince(log, i)
  <2>0. log \in Seq(Record)
    BY DEF GatePlain
  <2>1. /\ log' \in Seq(Record) /\ Len(log) \in Nat
        /\ DOMAIN log = 1..Len(log) /\ DOMAIN log' = 1..(Len(log) + 1)
        /\ \A i \in 1..Len(log) : log'[i] = log[i]
        /\ log'[Len(log) + 1] = r
    BY <1>1, <1>2, <2>0, LogGrows
  <2>2. ASSUME NEW i \in 1..Len(log)
        PROVE  AcceptedSince(log', i) = AcceptedSince(log, i) \cup (IF r.accepted THEN {r.key} ELSE {})
    <3>1. AcceptedSince(Append(log, r), i) = AcceptedSince(log, i) \cup (IF r.accepted THEN {r.key} ELSE {})
      BY <1>1, <2>0, SinceGrows
    <3> QED
      BY <1>2, <3>1
  <2> QED
    BY <1>1, <2>1, <2>2
<1>6. ASSUME NEW i \in DOMAIN log', log'[i].accepted
      PROVE  \/ /\ Holds(streams', log'[i].key, AcceptedSince(log', i))
                /\ NotBefore(last'[log'[i].key], log'[i].event)
             \/ Turned(AcceptedSince(log', i), StreamCapacity)
  <2>1. i \in DOMAIN log /\ log'[i] = log[i] /\ AcceptedSince(log', i) = AcceptedSince(log, i)
    BY <1>1, <1>5, <1>6
  <2> QED
    BY <1>2, <1>6, <2>1 DEF StreamsReach
<1>7. StreamsReach'
  BY <1>6 DEF StreamsReach
<1>8. GatePlain'
  BY <1>2, <1>3, <1>5 DEF GatePlain
<1>9. GateTypeOK'
  <2>1. ToSet(seen') \subseteq Streams \X Payloads
    BY <1>3, LenProperties, ElementOfSeq DEF ToSet
  <2> QED
    BY <1>2, <1>3, <2>1 DEF GateTypeOK, AdmissionSound
<1> QED
  BY <1>3, <1>4, <1>7, <1>8, <1>9 DEF AdmissionSound

LEMMA AcceptKeeps ==
  ASSUME GateInv, NEW key \in Streams,
         NEW event \in [payload : Payloads, mono : Nat, epoch : Nat], Accept(key, event)
  PROVE  GateInv'
<1> USE DEF GateInv
<1> DEFINE r == [key |-> key, event |-> event, accepted |-> TRUE]
<1>1. r \in Record /\ r.accepted /\ r.key = key /\ r.event = event /\ Pair(r) = <<key, event.payload>>
  BY DEF Record, Pair
<1>2. /\ log' = Append(log, r) /\ seen' = Touch(seen, <<key, event.payload>>, DedupeCapacity)
      /\ streams' = Touch(streams, key, StreamCapacity)
      /\ streamEpoch' = streamEpoch /\ <<key, event.payload>> \notin ToSet(seen)
  BY DEF Accept
<1> HIDE DEF r
<1>3. /\ SeenReaches' /\ seen' \in Seq(Streams \X Payloads)
      /\ IsInjective(seen') /\ Len(seen') <= DedupeCapacity
  BY <1>1, <1>2, SeenKept
<1>4. key \in DOMAIN last => NotBefore(event, last[key])
  BY DEF Accept, Admits, NotBefore
<1>5. AcceptedOnce' /\ WatermarkHolds'
  BY <1>1, <1>2, <1>4, OnceKept, WatermarkKept
<1>6. /\ log' \in Seq(Record) /\ Len(log) \in Nat
      /\ DOMAIN log = 1..Len(log) /\ DOMAIN log' = 1..(Len(log) + 1)
      /\ \A i \in 1..Len(log) : log'[i] = log[i]
      /\ log'[Len(log) + 1] = r
      /\ \A i \in 1..Len(log) : AcceptedSince(log', i) = AcceptedSince(log, i) \cup {key}
  <2>0. log \in Seq(Record)
    BY DEF GatePlain
  <2>1. /\ log' \in Seq(Record) /\ Len(log) \in Nat
        /\ DOMAIN log = 1..Len(log) /\ DOMAIN log' = 1..(Len(log) + 1)
        /\ \A i \in 1..Len(log) : log'[i] = log[i]
        /\ log'[Len(log) + 1] = r
    BY <1>1, <1>2, <2>0, LogGrows
  <2>2. ASSUME NEW i \in 1..Len(log)
        PROVE  AcceptedSince(log', i) = AcceptedSince(log, i) \cup (IF r.accepted THEN {r.key} ELSE {})
    <3>1. AcceptedSince(Append(log, r), i) = AcceptedSince(log, i) \cup (IF r.accepted THEN {r.key} ELSE {})
      BY <1>1, <2>0, SinceGrows
    <3> QED
      BY <1>2, <3>1
  <2> QED
    BY <1>1, <2>1, <2>2
<1>7. /\ DOMAIN last' = ToSet(streams') /\ \A k \in ToSet(streams') : k # key => last'[k] = last[k]
      /\ key \in ToSet(streams') =>
           last'[key].payload = event.payload /\ last'[key].mono = event.mono /\ last'[key].epoch = event.epoch
  BY DEF Accept
<1>8. /\ streams \in Seq(Streams) /\ IsInjective(streams) /\ Len(streams) <= StreamCapacity
      /\ StreamCapacity \in Nat \ {0} /\ ToSet(streams) = DOMAIN last
  BY GateAssumption DEF AdmissionSound, GateTypeOK, GatePlain
<1>9. /\ streams' \in Seq(Streams) /\ IsInjective(streams') /\ Len(streams') <= StreamCapacity
      /\ ToSet(streams') \subseteq ToSet(streams) \cup {key}
  BY <1>2, <1>8, TouchIs
<1>10. GatePlain'
  <2>1. ASSUME NEW k \in DOMAIN last'
        PROVE  last'[k].payload \in Payloads /\ last'[k].epoch \in Nat /\ last'[k].mono \in Nat
    <3>1. CASE k = key
      BY <3>1, <1>7, <2>1
    <3>2. CASE k # key
      <4>1. k \in DOMAIN last /\ last'[k] = last[k]
        BY <3>2, <1>7, <1>8, <1>9, <2>1
      <4> QED
        BY <4>1 DEF GatePlain
    <3> QED
      BY <3>1, <3>2
  <2> QED
    BY <1>2, <1>3, <1>6, <1>9, <2>1 DEF GatePlain
<1>11. GateTypeOK'
  <2>1. ToSet(seen') \subseteq Streams \X Payloads
    BY <1>3, LenProperties, ElementOfSeq DEF ToSet
  <2> QED
    BY <1>3, <1>7, <1>9, <2>1 DEF GateTypeOK
<1>12. ASSUME NEW i \in DOMAIN log', log'[i].accepted
       PROVE  \/ /\ Holds(streams', log'[i].key, AcceptedSince(log', i))
                 /\ NotBefore(last'[log'[i].key], log'[i].event)
              \/ Turned(AcceptedSince(log', i), StreamCapacity)
  <2>0. ASSUME NEW k, Holds(streams', k, AcceptedSince(log', i)) PROVE k \in ToSet(streams')
    BY <2>0 DEF Holds, ToSet
  <2>1. CASE i = Len(log) + 1
    <3>1. log'[i].key = key /\ log'[i].event = event
      BY <1>1, <1>6, <2>1
    <3>2. Holds(streams', key, AcceptedSince(log', i))
      BY <1>2, <1>8, TouchedLast
    <3>3. NotBefore(last'[key], event)
      BY <1>7, <2>0, <3>2, GateAssumption DEF NotBefore
    <3> QED
      BY <3>1, <3>2, <3>3
  <2>2. CASE i # Len(log) + 1
    <3>1. i \in DOMAIN log /\ log'[i] = log[i] /\ log[i].accepted
          /\ AcceptedSince(log', i) = AcceptedSince(log, i) \cup {key}
      BY <1>6, <1>12, <2>2
    <3>2. CASE Turned(AcceptedSince(log, i), StreamCapacity)
      BY <3>1, <3>2 DEF Turned
    <3>3. CASE /\ Holds(streams, log[i].key, AcceptedSince(log, i))
               /\ NotBefore(last[log[i].key], log[i].event)
      <4>1. \/ Holds(streams', log[i].key, AcceptedSince(log', i))
            \/ Turned(AcceptedSince(log', i), StreamCapacity)
        BY <1>2, <1>8, <3>1, <3>3, TouchHolds
      <4>2. CASE Holds(streams', log[i].key, AcceptedSince(log', i))
        <5>1. log[i].key \in ToSet(streams')
          BY <2>0, <4>2
        <5>2. CASE log[i].key # key
          BY <1>7, <3>1, <3>3, <4>2, <5>1, <5>2
        <5>3. CASE log[i].key = key
          <6>1. key \in DOMAIN last
            BY <1>8, <3>3, <5>3 DEF Holds, ToSet
          <6>2. /\ log[i] \in Record
                /\ last[key].payload \in Payloads /\ last[key].epoch \in Nat /\ last[key].mono \in Nat
            BY <1>6, <3>1, <6>1, ElementOfSeq DEF GatePlain
          <6>3. NotBefore(event, log[i].event)
            BY <1>4, <3>3, <5>3, <6>1, <6>2, GateAssumption DEF NotBefore, Record
          <6>4. NotBefore(last'[key], log[i].event)
            BY <1>7, <5>1, <5>3, <6>3 DEF NotBefore
          <6> QED
            BY <3>1, <4>2, <5>3, <6>4
        <5> QED
          BY <5>2, <5>3
      <4> QED
        BY <4>1, <4>2
    <3> QED
      BY <3>1, <3>2, <3>3 DEF StreamsReach
  <2> QED
    BY <2>1, <2>2
<1>13. StreamsReach'
  BY <1>12 DEF StreamsReach
<1> QED
  BY <1>3, <1>5, <1>10, <1>11, <1>13 DEF AdmissionSound

LEMMA GateStep == GateInv /\ [GateNext]_gateVars => GateInv'
<1> SUFFICES ASSUME GateInv, [GateNext]_gateVars PROVE GateInv'
  OBVIOUS
<1>1. CASE Evaluate
  <2>1. PICK key \in Streams, payload \in Payloads, mono \in 1..MaxMono, of \in 0..streamEpoch :
          \/ Replay(key, [payload |-> payload, mono |-> mono, epoch |-> of])
          \/ Accept(key, [payload |-> payload, mono |-> mono, epoch |-> of])
    BY <1>1 DEF Evaluate
  <2>2. mono \in Nat /\ of \in Nat
    BY GateAssumption DEF GateInv, GatePlain
  <2>3. [payload |-> payload, mono |-> mono, epoch |-> of] \in [payload : Payloads, mono : Nat, epoch : Nat]
    BY <2>2
  <2> QED
    BY <2>1, <2>3, ReplayKeeps, AcceptKeeps
<1>2. CASE Reconnect
  <2>1. UNCHANGED <<seen, streams, last, log>> /\ streamEpoch' = streamEpoch + 1
    BY <1>2 DEF Reconnect
  <2>2. GatePlain'
    BY <2>1 DEF GateInv, GatePlain
  <2>3. SeenReaches' /\ StreamsReach'
    BY <2>1 DEF GateInv, SeenReaches, StreamsReach
  <2>4. AdmissionSound'
    BY <2>1 DEF GateInv, AdmissionSound, GateTypeOK, AcceptedOnce, WatermarkHolds, Between
  <2> QED
    BY <2>2, <2>3, <2>4 DEF GateInv
<1>3. CASE UNCHANGED gateVars
  BY <1>3 DEF gateVars, GateInv, GatePlain, SeenReaches, StreamsReach, AdmissionSound, GateTypeOK,
     AcceptedOnce, WatermarkHolds, Between
<1> QED
  BY <1>1, <1>2, <1>3 DEF GateNext

\* An event is accepted again only when the memory of fingerprints has turned
\* over since, and a stream goes back only when that of the streams has.
THEOREM AdmissionSoundness == GateSpec => []AdmissionSound
<1>1. GateInit => GateInv
  BY GateStarts
<1>2. GateInv /\ [GateNext]_gateVars => GateInv'
  BY GateStep
<1>3. GateInv => AdmissionSound
  BY DEF GateInv
<1> QED
  BY <1>1, <1>2, <1>3, PTL DEF GateSpec

-----------------------------------------------------------------------------
Tick == [asset : Assets, n : Nat, epoch : Nat]
CexPlain ==
  /\ assets \in AssetSets /\ assets \subseteq Assets
  /\ setting.at \in {"idle", "sending", "gathering", "failed"}
  /\ setting.added \subseteq Assets
  /\ setting = [at |-> setting.at, added |-> setting.added]
  /\ connected \in BOOLEAN /\ announced \in BOOLEAN /\ cexReady \in BOOLEAN
  /\ okxConnected \in BOOLEAN /\ connection \in Nat /\ okxEpoch \in Nat
  /\ ticks \in [Assets -> Nat]
  /\ ingest \in Seq(Tick)
  /\ features \in [Assets -> Seq(Tick)]
  /\ cexReady => connected

\* The n of an asset's ticks grows along its history, then along the queue, up to
\* the last tick accepted.
QueueInOrder ==
  /\ \A j \in DOMAIN ingest : ingest[j].n <= ticks[ingest[j].asset]
  /\ \A i, j \in DOMAIN ingest :
       i < j /\ ingest[i].asset = ingest[j].asset => ingest[i].n < ingest[j].n
HistoryBehind(history, queue, latest) ==
  \A a \in Assets : \A i \in DOMAIN history[a] :
    /\ history[a][i].n <= latest[a]
    /\ \A j \in DOMAIN queue : queue[j].asset = a => history[a][i].n < queue[j].n
TicksInOrder == QueueInOrder /\ HistoryBehind(features, ingest, ticks)

\* HistoryOfConnection, of any history and epoch
HistorySince(history, since) ==
  \A a \in Assets : \A i \in DOMAIN history[a] :
    /\ history[a][i].epoch >= since
    /\ i > 1 => /\ history[a][i].epoch >= history[a][i - 1].epoch
                /\ history[a][i].n > history[a][i - 1].n

CexInv == CexPlain /\ TicksInOrder /\ HistorySound

LEMMA CexStarts == CexInit => CexInv
<1> SUFFICES ASSUME CexInit PROVE CexInv
  OBVIOUS
<1> USE DEF CexInit
<1>1. CexPlain
  <2>1. assets \in AssetSets /\ assets \subseteq Assets
    BY DEF Assets
  <2>2. setting.at = "idle" /\ setting.added = {}
    BY DEF Settled
  <2>3. setting = [at |-> setting.at, added |-> setting.added]
    BY DEF Settled
  <2>4. connected \in BOOLEAN /\ announced \in BOOLEAN /\ cexReady \in BOOLEAN
        /\ okxConnected \in BOOLEAN /\ ~cexReady
    OBVIOUS
  <2>5. ingest \in Seq(Tick) /\ features \in [Assets -> Seq(Tick)] /\ ticks \in [Assets -> Nat]
        /\ connection \in Nat /\ okxEpoch \in Nat
    OBVIOUS
  <2> QED
    BY <2>1, <2>2, <2>3, <2>4, <2>5 DEF CexPlain
<1>2. TicksInOrder
  BY DEF TicksInOrder, QueueInOrder, HistoryBehind
<1>3. HistorySound
  BY CexAssumption DEF HistorySound, CexTypeOK, HistoryOfConnection, ReadyIsEarned
<1> QED
  BY <1>1, <1>2, <1>3 DEF CexInv

\* Of the steps that leave the history and the queue alone
LEMMA HistoryStays ==
  ASSUME CexInv, UNCHANGED <<ingest, features, ticks>>, okxEpoch' = okxEpoch
  PROVE  TicksInOrder' /\ HistoryOfConnection'
BY DEF CexInv, TicksInOrder, QueueInOrder, HistoryBehind, HistorySound, HistoryOfConnection

\* What is published leaves a history that was in order in order, or drops it: the
\* engine knows of no later connection than the provider.
LEMMA PublishKeeps ==
  ASSUME CexInv, connection' = connection, connected' \in BOOLEAN, QueueInOrder',
         NEW history \in [Assets -> Seq(Tick)],
         HistoryBehind(history, ingest', ticks'), HistorySince(history, okxEpoch),
         Publish(history)
  PROVE  /\ features' \in [Assets -> Seq(Tick)]
         /\ okxEpoch' \in Nat /\ okxEpoch' \in 0..connection' /\ okxConnected' \in BOOLEAN
         /\ TicksInOrder' /\ HistoryOfConnection'
<1>1. connection \in Nat /\ okxEpoch \in Nat /\ okxEpoch <= connection
  BY DEF CexInv, CexPlain, HistorySound, CexTypeOK
<1>2. okxEpoch' = connection /\ okxConnected' = connected'
  BY DEF Publish
<1>3. \/ features' = [a \in Assets |-> << >>]
      \/ features' = history /\ ~(connection > okxEpoch)
  BY DEF Publish
<1>4. CASE features' = [a \in Assets |-> << >>]
  BY <1>1, <1>2, <1>4 DEF TicksInOrder, HistoryBehind, HistoryOfConnection
<1>5. CASE features' = history /\ ~(connection > okxEpoch)
  <2>1. okxEpoch' = okxEpoch
    BY <1>1, <1>2, <1>5
  <2>2. TicksInOrder'
    BY <1>5 DEF TicksInOrder, HistoryBehind
  <2>3. HistoryOfConnection'
    BY <1>5, <2>1 DEF HistoryOfConnection, HistorySince
  <2> QED
    BY <1>1, <1>2, <1>5, <2>2, <2>3
<1> QED
  BY <1>3, <1>4, <1>5

\* Of the steps that publish and leave the queue alone
LEMMA HistoryPublished ==
  ASSUME CexInv, UNCHANGED <<connection, ingest, ticks>>, connected' \in BOOLEAN,
         Publish(features)
  PROVE  /\ features' \in [Assets -> Seq(Tick)]
         /\ okxEpoch' \in Nat /\ okxEpoch' \in 0..connection' /\ okxConnected' \in BOOLEAN
         /\ TicksInOrder' /\ HistoryOfConnection'
<1>1. QueueInOrder' /\ HistoryBehind(features, ingest', ticks')
  BY DEF CexInv, TicksInOrder, QueueInOrder, HistoryBehind
<1>2. HistorySince(features, okxEpoch)
  BY DEF CexInv, HistorySound, HistoryOfConnection, HistorySince
<1>3. features \in [Assets -> Seq(Tick)]
  BY DEF CexInv, CexPlain
<1> QED
  BY <1>1, <1>2, <1>3, PublishKeeps

\* What READY says once it is computed
LEMMA ReadyComputed ==
  ASSUME CexPlain, connected' \in BOOLEAN, Refresh, connected' \/ ~cexReady
  PROVE  /\ cexReady' \in BOOLEAN /\ (cexReady' => connected')
         /\ ReadyIsEarned'
BY DEF CexPlain, Refresh, ReadyIsEarned, Required

LEMMA CexConnectKeeps == CexInv /\ CexConnect => CexInv'
<1> SUFFICES ASSUME CexInv, CexConnect PROVE CexInv'
  OBVIOUS
<1>1. cexReady' \in BOOLEAN /\ (cexReady' => connected') /\ ReadyIsEarned'
  BY ReadyComputed DEF CexConnect, CexInv
<1>2. TicksInOrder' /\ HistoryOfConnection'
  BY HistoryStays DEF CexConnect, engineView
<1>3. CexTypeOK'
  BY DEF CexConnect, CexInv, HistorySound, CexTypeOK, CexPlain, engineView
<1>4. CexPlain'
  <2>1. connected' \in BOOLEAN /\ announced' \in BOOLEAN
    BY DEF CexConnect
  <2>2. connection' \in Nat
    BY DEF CexConnect, CexInv, CexPlain
  <2> QED
    BY <1>1, <2>1, <2>2 DEF CexConnect, CexInv, CexPlain, engineView
<1> QED
  BY <1>1, <1>2, <1>3, <1>4 DEF CexInv, HistorySound

LEMMA CexAnnounceKeeps == CexInv /\ CexAnnounce => CexInv'
<1> SUFFICES ASSUME CexInv, CexAnnounce PROVE CexInv'
  OBVIOUS
<1>1. /\ features' \in [Assets -> Seq(Tick)]
      /\ okxEpoch' \in Nat /\ okxEpoch' \in 0..connection' /\ okxConnected' \in BOOLEAN
      /\ TicksInOrder' /\ HistoryOfConnection'
  BY HistoryPublished DEF CexAnnounce, CexInv, CexPlain
<1>2. ReadyIsEarned'
  BY DEF CexAnnounce, CexInv, HistorySound, ReadyIsEarned, Required
<1>3. CexTypeOK'
  BY <1>1 DEF CexAnnounce, CexInv, HistorySound, CexTypeOK, CexPlain
<1>4. CexPlain'
  BY <1>1 DEF CexAnnounce, CexInv, CexPlain
<1> QED
  BY <1>1, <1>2, <1>3, <1>4 DEF CexInv, HistorySound

LEMMA CexLostKeeps == CexInv /\ CexLost => CexInv'
<1> SUFFICES ASSUME CexInv, CexLost PROVE CexInv'
  OBVIOUS
<1>1. /\ features' \in [Assets -> Seq(Tick)]
      /\ okxEpoch' \in Nat /\ okxEpoch' \in 0..connection' /\ okxConnected' \in BOOLEAN
      /\ TicksInOrder' /\ HistoryOfConnection'
  BY HistoryPublished DEF CexLost
<1>2. ReadyIsEarned'
  BY DEF CexLost, ReadyIsEarned
<1>3. CexTypeOK'
  BY <1>1 DEF CexLost, CexInv, HistorySound, CexTypeOK, CexPlain
<1>4. CexPlain'
  <2>1. setting' \in {setting, Settled}
    BY DEF CexLost
  <2>2. Settled.at = "idle" /\ Settled.added = {}
        /\ Settled = [at |-> Settled.at, added |-> Settled.added]
    BY DEF Settled
  <2>3. setting'.at \in {"idle", "sending", "gathering", "failed"}
        /\ setting'.added \subseteq Assets
        /\ setting' = [at |-> setting'.at, added |-> setting'.added]
    BY <2>1, <2>2 DEF CexInv, CexPlain
  <2> QED
    BY <1>1, <2>3 DEF CexLost, CexInv, CexPlain
<1> QED
  BY <1>1, <1>2, <1>3, <1>4 DEF CexInv, HistorySound

LEMMA AcknowledgeKeeps == CexInv /\ Acknowledge => CexInv'
<1> SUFFICES ASSUME CexInv, Acknowledge PROVE CexInv'
  OBVIOUS
<1>1. cexReady' \in BOOLEAN /\ (cexReady' => connected') /\ ReadyIsEarned'
  BY ReadyComputed DEF Acknowledge, CexInv, CexPlain
<1>2. TicksInOrder' /\ HistoryOfConnection'
  BY HistoryStays DEF Acknowledge, engineView
<1>3. CexTypeOK'
  BY DEF Acknowledge, CexInv, HistorySound, CexTypeOK, CexPlain, engineView, Required
<1>4. CexPlain'
  BY <1>1 DEF Acknowledge, CexInv, CexPlain, engineView
<1> QED
  BY <1>1, <1>2, <1>3, <1>4 DEF CexInv, HistorySound

LEMMA EndAcknowledgedKeeps == CexInv /\ EndAcknowledged => CexInv'
<1> SUFFICES ASSUME CexInv, EndAcknowledged PROVE CexInv'
  OBVIOUS
<1>1. cexReady' \in BOOLEAN /\ (cexReady' => connected') /\ ReadyIsEarned'
  BY ReadyComputed DEF EndAcknowledged, CexInv, CexPlain
<1>2. TicksInOrder' /\ HistoryOfConnection'
  BY HistoryStays DEF EndAcknowledged, engineView
<1>3. CexTypeOK'
  BY DEF EndAcknowledged, CexInv, HistorySound, CexTypeOK, CexPlain, engineView
<1>4. CexPlain'
  BY <1>1 DEF EndAcknowledged, CexInv, CexPlain, engineView
<1> QED
  BY <1>1, <1>2, <1>3, <1>4 DEF CexInv, HistorySound

LEMMA SetAssetsKeeps == CexInv /\ SetAssets => CexInv'
<1> SUFFICES ASSUME CexInv, NEW wanted \in AssetSets,
                    assets' = wanted,
                    fetched' = fetched \cap wanted,
                    acknowledged' = acknowledged \cap (Channels \X wanted),
                    UNCHANGED <<connected, connection, announced, fetches, ticks, ingest,
                                dropped>>,
                    \/ /\ setting' = [at |-> "sending", added |-> wanted \ assets]
                       /\ UNCHANGED <<cexReady, okxEpoch, okxConnected, features>>
                    \/ setting' = Settled /\ Refresh /\ Publish(features)
             PROVE CexInv'
  BY DEF SetAssets
<1>0. wanted \subseteq Assets
  BY DEF Assets
<1>1. /\ cexReady' \in BOOLEAN /\ (cexReady' => connected') /\ ReadyIsEarned'
      /\ features' \in [Assets -> Seq(Tick)]
      /\ okxEpoch' \in Nat /\ okxEpoch' \in 0..connection' /\ okxConnected' \in BOOLEAN
      /\ TicksInOrder' /\ HistoryOfConnection'
      /\ setting'.at \in {"idle", "sending"} /\ setting'.added \subseteq Assets
      /\ setting' = [at |-> setting'.at, added |-> setting'.added]
  <2>1. CASE /\ setting' = [at |-> "sending", added |-> wanted \ assets]
             /\ UNCHANGED <<cexReady, okxEpoch, okxConnected, features>>
    <3>1. ReadyIsEarned'
      BY <2>1 DEF ReadyIsEarned
    <3>2. TicksInOrder' /\ HistoryOfConnection'
      BY <2>1, HistoryStays
    <3> QED
      BY <1>0, <2>1, <3>1, <3>2 DEF CexInv, CexPlain, HistorySound, CexTypeOK
  <2>2. CASE setting' = Settled /\ Refresh /\ Publish(features)
    <3>1. /\ features' \in [Assets -> Seq(Tick)]
          /\ okxEpoch' \in Nat /\ okxEpoch' \in 0..connection' /\ okxConnected' \in BOOLEAN
          /\ TicksInOrder' /\ HistoryOfConnection'
      BY <2>2, HistoryPublished DEF CexInv, CexPlain
    <3>2. cexReady' \in BOOLEAN /\ (cexReady' => connected') /\ ReadyIsEarned'
      BY <2>2, ReadyComputed DEF CexInv, CexPlain
    <3> QED
      BY <2>2, <3>1, <3>2 DEF Settled
  <2> QED
    BY <2>1, <2>2
<1>2. CexTypeOK'
  BY <1>1 DEF CexInv, HistorySound, CexTypeOK, CexPlain
<1>3. CexPlain'
  BY <1>0, <1>1 DEF CexInv, CexPlain
<1> QED
  BY <1>1, <1>2, <1>3 DEF CexInv, HistorySound

LEMMA AssetsSentKeeps == CexInv /\ AssetsSent => CexInv'
<1> SUFFICES ASSUME CexInv, AssetsSent PROVE CexInv'
  OBVIOUS
<1>2. TicksInOrder' /\ HistoryOfConnection'
  BY HistoryStays DEF AssetsSent, engineView
<1>3. CexTypeOK'
  BY DEF AssetsSent, CexInv, HistorySound, CexTypeOK, CexPlain, engineView
<1>4. CexPlain'
  BY DEF AssetsSent, CexInv, CexPlain, engineView
<1>5. ReadyIsEarned'
  BY DEF AssetsSent, ReadyIsEarned, CexInv, CexPlain
<1> QED
  BY <1>2, <1>3, <1>4, <1>5 DEF CexInv, HistorySound

LEMMA SendFailsKeeps == CexInv /\ SendFails => CexInv'
<1> SUFFICES ASSUME CexInv, SendFails PROVE CexInv'
  OBVIOUS
<1>2. TicksInOrder' /\ HistoryOfConnection'
  BY HistoryStays DEF SendFails, engineView
<1>3. CexTypeOK'
  BY DEF SendFails, CexInv, HistorySound, CexTypeOK, CexPlain, engineView
<1>4. CexPlain'
  BY DEF SendFails, CexInv, CexPlain, engineView, Settled
<1>5. ReadyIsEarned'
  BY DEF SendFails, ReadyIsEarned, CexInv, CexPlain
<1> QED
  BY <1>2, <1>3, <1>4, <1>5 DEF CexInv, HistorySound

LEMMA AssetsSetKeeps == CexInv /\ AssetsSet => CexInv'
<1> SUFFICES ASSUME CexInv, AssetsSet PROVE CexInv'
  OBVIOUS
<1>1. cexReady' \in BOOLEAN /\ (cexReady' => connected') /\ ReadyIsEarned'
  BY ReadyComputed DEF AssetsSet, CexInv, CexPlain
<1>2. /\ features' \in [Assets -> Seq(Tick)]
      /\ okxEpoch' \in Nat /\ okxEpoch' \in 0..connection' /\ okxConnected' \in BOOLEAN
      /\ TicksInOrder' /\ HistoryOfConnection'
  BY HistoryPublished DEF AssetsSet, CexInv, CexPlain
<1>3. CexTypeOK'
  BY <1>2 DEF AssetsSet, CexInv, HistorySound, CexTypeOK, CexPlain
<1>4. CexPlain'
  BY <1>1, <1>2 DEF AssetsSet, CexInv, CexPlain, Settled
<1> QED
  BY <1>1, <1>2, <1>3, <1>4 DEF CexInv, HistorySound

LEMMA FetchWithoutTickKeeps == CexInv /\ FetchWithoutTick => CexInv'
<1> SUFFICES ASSUME CexInv, NEW fetch \in fetches, NEW replayed \in BOOLEAN,
                    fetches' = fetches \ {fetch},
                    fetched' = IF replayed THEN fetched \cup ({fetch[1]} \cap assets)
                               ELSE fetched,
                    UNCHANGED <<assets, setting, connected, connection, announced,
                                acknowledged, leaving, ticks, ingest, dropped>>,
                    Refresh, Publish(features)
             PROVE CexInv'
  BY DEF FetchWithoutTick
<1>1. cexReady' \in BOOLEAN /\ (cexReady' => connected') /\ ReadyIsEarned'
  BY ReadyComputed DEF CexInv, CexPlain
<1>2. /\ features' \in [Assets -> Seq(Tick)]
      /\ okxEpoch' \in Nat /\ okxEpoch' \in 0..connection' /\ okxConnected' \in BOOLEAN
      /\ TicksInOrder' /\ HistoryOfConnection'
  BY HistoryPublished DEF CexInv, CexPlain
<1>3. CexTypeOK'
  BY <1>2 DEF CexInv, HistorySound, CexTypeOK, CexPlain
<1>4. CexPlain'
  BY <1>1, <1>2 DEF CexInv, CexPlain
<1> QED
  BY <1>1, <1>2, <1>3, <1>4 DEF CexInv, HistorySound

\* A new tick is later than every one before it, and waits behind them or is lost
\* with its asset's history.
LEMMA EnqueueKeepsOrder ==
  ASSUME CexInv, NEW a \in Assets, ticks' = [ticks EXCEPT ![a] = @ + 1], Enqueue(a)
  PROVE  /\ ingest' \in Seq(Tick) /\ HistoryKept(a) \in [Assets -> Seq(Tick)]
         /\ Len(ingest') <= QueueCapacity /\ QueueInOrder'
         /\ HistoryBehind(HistoryKept(a), ingest', ticks')
         /\ HistorySince(HistoryKept(a), okxEpoch)
<1>0. Len(ingest) \in Nat /\ QueueCapacity \in Nat
  BY CexAssumption DEF CexInv, CexPlain
<1> DEFINE tick == [asset |-> a, n |-> ticks'[a], epoch |-> connection]
<1>1. tick \in Tick /\ ticks'[a] = ticks[a] + 1
  BY DEF CexInv, CexPlain, Tick
<1>2. \A b \in Assets : ticks[b] \in Nat /\ ticks'[b] >= ticks[b]
  BY DEF CexInv, CexPlain
<1>3. CASE ~Full
  <2>0. Len(ingest) < QueueCapacity
    BY <1>0, <1>3 DEF Full
  <2>1. ingest' = Append(ingest, tick) /\ HistoryKept(a) = features
    BY <1>3 DEF Enqueue, HistoryKept
  <2>2. /\ ingest' \in Seq(Tick) /\ Len(ingest') = Len(ingest) + 1
        /\ \A i \in 1..Len(ingest) : ingest'[i] = ingest[i]
        /\ ingest'[Len(ingest) + 1] = tick
    BY <1>1, <2>1, AppendProperties DEF CexInv, CexPlain
  <2>3. DOMAIN ingest = 1..Len(ingest) /\ DOMAIN ingest' = 1..(Len(ingest) + 1)
        /\ Len(ingest) \in Nat
    BY <2>2 DEF CexInv, CexPlain
  <2>4. \A i \in DOMAIN ingest : ingest[i] \in Tick
    BY <2>3 DEF CexInv, CexPlain
  <2>5. \A b \in Assets : \A i \in DOMAIN features[b] : features[b][i] \in Tick
    BY DEF CexInv, CexPlain
  <2>6. \A j \in DOMAIN ingest' : ingest'[j].n <= ticks'[ingest'[j].asset]
    <3> SUFFICES ASSUME NEW j \in 1..(Len(ingest) + 1)
                 PROVE  ingest'[j].n <= ticks'[ingest'[j].asset]
      BY <2>3
    <3>1. CASE j \in DOMAIN ingest
      <4>1. ingest'[j] = ingest[j] /\ ingest[j].n \in Nat /\ ingest[j].asset \in Assets
        BY <2>2, <2>3, <2>4, <3>1 DEF Tick
      <4>2. ingest[j].n <= ticks[ingest[j].asset]
        BY <3>1 DEF CexInv, TicksInOrder, QueueInOrder, HistoryBehind
      <4> QED
        BY <1>2, <4>1, <4>2
    <3>2. CASE j = Len(ingest) + 1
      BY <1>1, <1>2, <2>2, <3>2
    <3> QED
      BY <2>3, <3>1, <3>2
  <2>7. \A i, j \in DOMAIN ingest' :
          i < j /\ ingest'[i].asset = ingest'[j].asset => ingest'[i].n < ingest'[j].n
    <3> SUFFICES ASSUME NEW i \in 1..(Len(ingest) + 1), NEW j \in 1..(Len(ingest) + 1),
                        i < j, ingest'[i].asset = ingest'[j].asset
                 PROVE  ingest'[i].n < ingest'[j].n
      BY <2>3
    <3>1. i \in DOMAIN ingest /\ ingest'[i] = ingest[i]
      BY <2>2, <2>3
    <3>2. CASE j \in DOMAIN ingest
      BY <2>2, <2>3, <3>1, <3>2 DEF CexInv, TicksInOrder, QueueInOrder, HistoryBehind
    <3>3. CASE j = Len(ingest) + 1
      <4>1. ingest[i].asset = a /\ ingest'[j].n = ticks[a] + 1
        BY <1>1, <2>2, <3>1, <3>3
      <4>2. ingest[i].n <= ticks[a] /\ ingest[i].n \in Nat
        BY <2>4, <3>1, <4>1 DEF CexInv, TicksInOrder, QueueInOrder, HistoryBehind, Tick
      <4> QED
        BY <1>2, <3>1, <4>1, <4>2
    <3> QED
      BY <2>3, <3>2, <3>3
  <2>8. ASSUME NEW b \in Assets, NEW i \in DOMAIN features[b]
        PROVE  /\ features[b][i].n <= ticks'[b]
               /\ \A j \in DOMAIN ingest' :
                    ingest'[j].asset = b => features[b][i].n < ingest'[j].n
    <3>1. features[b][i].n <= ticks[b] /\ features[b][i].n \in Nat
      BY <2>5, <2>8 DEF CexInv, TicksInOrder, QueueInOrder, HistoryBehind, Tick
    <3>2. features[b][i].n <= ticks'[b]
      BY <1>2, <3>1
    <3>3. ASSUME NEW j \in 1..(Len(ingest) + 1), ingest'[j].asset = b
          PROVE  features[b][i].n < ingest'[j].n
      <4>1. CASE j \in DOMAIN ingest
        BY <2>2, <2>3, <2>8, <3>3, <4>1 DEF CexInv, TicksInOrder, QueueInOrder, HistoryBehind
      <4>2. CASE j = Len(ingest) + 1
        BY <1>1, <1>2, <2>2, <3>1, <3>3, <4>2
      <4> QED
        BY <2>3, <4>1, <4>2
    <3> QED
      BY <2>3, <3>2, <3>3
  <2>9. QueueInOrder' /\ HistoryBehind(features, ingest', ticks')
    BY <2>6, <2>7, <2>8 DEF QueueInOrder, HistoryBehind
  <2>10. HistorySince(features, okxEpoch)
    BY DEF CexInv, HistorySound, HistoryOfConnection, HistorySince
  <2> QED
    BY <1>0, <2>0, <2>1, <2>2, <2>9, <2>10 DEF CexInv, CexPlain
<1>4. CASE Full
  <2> DEFINE history == HistoryKept(a)
  <2>1. ingest' = ingest /\ history = [features EXCEPT ![a] = << >>]
    BY <1>4 DEF Enqueue, HistoryKept
  <2>2. history \in [Assets -> Seq(Tick)]
    BY <2>1 DEF CexInv, CexPlain
  <2>3. \A b \in Assets : \A i \in DOMAIN history[b] : b # a /\ history[b] = features[b]
    BY <2>1 DEF CexInv, CexPlain
  <2>4. \A j \in DOMAIN ingest : ingest[j] \in Tick
    BY DEF CexInv, CexPlain
  <2>5. \A b \in Assets : \A i \in DOMAIN features[b] : features[b][i] \in Tick
    BY DEF CexInv, CexPlain
  <2> HIDE DEF history
  <2>6. QueueInOrder'
    <3>1. \A j \in DOMAIN ingest' : ingest'[j].n <= ticks'[ingest'[j].asset]
      BY <1>2, <2>1, <2>4 DEF CexInv, TicksInOrder, QueueInOrder, Tick
    <3> QED
      BY <2>1, <3>1 DEF CexInv, TicksInOrder, QueueInOrder
  <2>7. HistoryBehind(history, ingest', ticks')
    <3>1. \A b \in Assets : \A i \in DOMAIN history[b] : history[b][i].n <= ticks'[b]
      BY <1>2, <2>3, <2>5 DEF CexInv, TicksInOrder, HistoryBehind, Tick
    <3> QED
      BY <2>1, <2>3, <3>1 DEF CexInv, TicksInOrder, HistoryBehind
  <2>8. HistorySince(history, okxEpoch)
    BY <2>3 DEF CexInv, HistorySound, HistoryOfConnection, HistorySince
  <2>9. ingest' \in Seq(Tick) /\ Len(ingest') <= QueueCapacity
    BY <2>1 DEF CexInv, CexPlain, HistorySound, CexTypeOK
  <2> QED
    BY <2>2, <2>6, <2>7, <2>8, <2>9 DEF history
<1> QED
  BY <1>3, <1>4

LEMMA ObserveKeeps == CexInv /\ Observe => CexInv'
<1> SUFFICES ASSUME CexInv, NEW a \in assets, NEW ticker \in BOOLEAN, Reading,
                    ticks' = [ticks EXCEPT ![a] = @ + 1],
                    fetched' = IF ticker THEN fetched \cup {a} ELSE fetched,
                    Enqueue(a), features' = HistoryKept(a),
                    UNCHANGED <<assets, setting, connected, connection, announced,
                                acknowledged, leaving, fetches, okxEpoch, okxConnected>>,
                    IF ticker THEN Refresh ELSE UNCHANGED cexReady
             PROVE CexInv'
  BY DEF Observe
<1>0. a \in Assets
  BY DEF CexInv, CexPlain
<1>1. cexReady' \in BOOLEAN /\ (cexReady' => connected') /\ ReadyIsEarned'
  <2>1. CASE ticker
    BY <2>1, ReadyComputed DEF CexInv, CexPlain
  <2>2. CASE ~ticker
    BY <2>2 DEF CexInv, CexPlain, HistorySound, ReadyIsEarned, Required
  <2> QED
    BY <2>1, <2>2
<1>2. /\ ingest' \in Seq(Tick) /\ HistoryKept(a) \in [Assets -> Seq(Tick)]
      /\ Len(ingest') <= QueueCapacity /\ QueueInOrder'
      /\ HistoryBehind(HistoryKept(a), ingest', ticks')
      /\ HistorySince(HistoryKept(a), okxEpoch)
  BY <1>0, EnqueueKeepsOrder
<1>3. TicksInOrder' /\ HistoryOfConnection'
  BY <1>2 DEF TicksInOrder, HistoryBehind, HistoryOfConnection, HistorySince
<1>4. CexTypeOK'
  BY <1>2 DEF CexInv, HistorySound, CexTypeOK, CexPlain
<1>5. CexPlain'
  <2>1. ticks' \in [Assets -> Nat]
    BY <1>0 DEF CexInv, CexPlain
  <2> QED
    BY <1>1, <1>2, <2>1 DEF CexInv, CexPlain
<1> QED
  BY <1>1, <1>3, <1>4, <1>5 DEF CexInv, HistorySound

LEMMA FetchedKeeps == CexInv /\ Fetched => CexInv'
<1> SUFFICES ASSUME CexInv, NEW fetch \in fetches, NEW a \in assets,
                    fetches' = fetches \ {fetch},
                    ticks' = [ticks EXCEPT ![a] = @ + 1],
                    fetched' = fetched \cup {a},
                    Enqueue(a),
                    UNCHANGED <<assets, setting, connected, connection, announced,
                                acknowledged, leaving>>,
                    Refresh, Publish(HistoryKept(a))
             PROVE CexInv'
  BY DEF Fetched
<1>0. a \in Assets
  BY DEF CexInv, CexPlain
<1>1. cexReady' \in BOOLEAN /\ (cexReady' => connected') /\ ReadyIsEarned'
  BY ReadyComputed DEF CexInv, CexPlain
<1>2. /\ ingest' \in Seq(Tick) /\ HistoryKept(a) \in [Assets -> Seq(Tick)]
      /\ Len(ingest') <= QueueCapacity /\ QueueInOrder'
      /\ HistoryBehind(HistoryKept(a), ingest', ticks')
      /\ HistorySince(HistoryKept(a), okxEpoch)
  BY <1>0, EnqueueKeepsOrder
<1>3. /\ features' \in [Assets -> Seq(Tick)]
      /\ okxEpoch' \in Nat /\ okxEpoch' \in 0..connection' /\ okxConnected' \in BOOLEAN
      /\ TicksInOrder' /\ HistoryOfConnection'
  BY <1>2, PublishKeeps DEF CexInv, CexPlain
<1>4. CexTypeOK'
  BY <1>2, <1>3 DEF CexInv, HistorySound, CexTypeOK, CexPlain
<1>5. CexPlain'
  <2>1. ticks' \in [Assets -> Nat]
    BY <1>0 DEF CexInv, CexPlain
  <2> QED
    BY <1>1, <1>2, <1>3, <2>1 DEF CexInv, CexPlain
<1> QED
  BY <1>1, <1>3, <1>4, <1>5 DEF CexInv, HistorySound

LEMMA DrainKeeps == CexInv /\ Drain => CexInv'
<1> SUFFICES ASSUME CexInv, Drain PROVE CexInv'
  OBVIOUS
<1> DEFINE tick == Head(ingest)
           rows == features[tick.asset]
           stale == \/ tick.epoch < okxEpoch
                    \/ rows # << >> /\ tick.epoch < Last(rows).epoch
                    \/ rows # << >> /\ tick.epoch = Last(rows).epoch /\ tick.n < Last(rows).n
<1>1. ingest # << >> /\ ingest \in Seq(Tick) /\ ingest' = Tail(ingest)
  BY DEF Drain, CexInv, CexPlain
<1>2. /\ tick = ingest[1] /\ tick \in Tick /\ ingest' \in Seq(Tick)
      /\ Len(ingest') = Len(ingest) - 1
      /\ \A i \in 1..Len(ingest') : ingest'[i] = ingest[i + 1]
  BY <1>1, HeadTailProperties
<1>3. /\ Len(ingest) \in Nat /\ Len(ingest) >= 1 /\ DOMAIN ingest = 1..Len(ingest)
      /\ DOMAIN ingest' = 1..(Len(ingest) - 1) /\ 1 \in DOMAIN ingest
  BY <1>1, <1>2, EmptySeq
<1>4. \A i \in DOMAIN ingest' : i + 1 \in DOMAIN ingest /\ ingest'[i] = ingest[i + 1] /\ i \in Nat
  BY <1>2, <1>3
<1>5. \A i \in DOMAIN ingest : ingest[i] \in Tick
  BY <1>1
<1>6. /\ \A j \in DOMAIN ingest' : ingest'[j].n <= ticks[ingest'[j].asset]
      /\ \A i, j \in DOMAIN ingest' :
           i < j /\ ingest'[i].asset = ingest'[j].asset => ingest'[i].n < ingest'[j].n
  BY <1>4 DEF CexInv, TicksInOrder, QueueInOrder, HistoryBehind
<1>7. ASSUME NEW a \in Assets, NEW i \in DOMAIN features[a]
      PROVE  /\ features[a][i].n <= ticks[a]
             /\ \A j \in DOMAIN ingest' : ingest'[j].asset = a => features[a][i].n < ingest'[j].n
  BY <1>4, <1>7 DEF CexInv, TicksInOrder, QueueInOrder, HistoryBehind
<1>8. /\ ticks' = ticks /\ okxEpoch' = okxEpoch
      /\ features' = IF stale THEN features
                     ELSE [features EXCEPT ![tick.asset] = Append(rows, tick)]
  BY DEF Drain
<1>9. /\ features' \in [Assets -> Seq(Tick)] /\ TicksInOrder' /\ HistoryOfConnection'
  <2>1. CASE stale
    <3>1. features' = features
      BY <1>8, <2>1
    <3>2. TicksInOrder'
      BY <1>6, <1>7, <1>8, <3>1 DEF TicksInOrder, QueueInOrder, HistoryBehind
    <3>3. HistoryOfConnection'
      BY <1>8, <3>1 DEF CexInv, HistorySound, HistoryOfConnection
    <3> QED
      BY <3>1, <3>2, <3>3 DEF CexInv, CexPlain
  <2>2. CASE ~stale
    <3> DEFINE b == tick.asset
    <3>1. b \in Assets /\ tick.n \in Nat /\ tick.epoch \in Nat
      BY <1>2 DEF Tick
    <3>2. rows \in Seq(Tick) /\ features \in [Assets -> Seq(Tick)] /\ okxEpoch \in Nat
      BY <3>1 DEF CexInv, CexPlain
    <3>3. features' = [features EXCEPT ![b] = Append(rows, tick)]
      BY <1>8, <2>2
    <3> DEFINE new == Append(rows, tick)
    <3>4. /\ new \in Seq(Tick) /\ DOMAIN new = 1..(Len(rows) + 1)
          /\ DOMAIN rows = 1..Len(rows) /\ Len(rows) \in Nat
          /\ \A i \in 1..Len(rows) : new[i] = rows[i]
          /\ new[Len(rows) + 1] = tick
      BY <1>2, <3>2, AppendProperties
    <3>5. features' \in [Assets -> Seq(Tick)]
      BY <3>1, <3>2, <3>3, <3>4
    <3>6. features'[b] = new /\ \A a \in Assets : a # b => features'[a] = features[a]
      BY <3>1, <3>2, <3>3
    <3>7. \A i \in DOMAIN rows : rows[i] \in Tick /\ rows[i].n \in Nat /\ rows[i].epoch \in Nat
      <4>1. \A i \in DOMAIN rows : rows[i] \in Tick
        BY <3>2, LenProperties
      <4> QED
        BY <4>1 DEF Tick
    <3>8. \A i \in DOMAIN rows : rows[i].n < tick.n
      BY <1>2, <1>3, <3>1 DEF CexInv, TicksInOrder, QueueInOrder, HistoryBehind
    <3>9. tick.n <= ticks[b] /\ \A j \in DOMAIN ingest' : ingest'[j].asset = b => tick.n < ingest'[j].n
      <4>1. tick.n <= ticks[b]
        BY <1>2, <1>3 DEF CexInv, TicksInOrder, QueueInOrder, HistoryBehind
      <4>2. ASSUME NEW j \in DOMAIN ingest', ingest'[j].asset = b
            PROVE  tick.n < ingest'[j].n
        <5>1. j + 1 \in DOMAIN ingest /\ 1 < j + 1 /\ ingest'[j] = ingest[j + 1]
          BY <1>3, <1>4, <4>2
        <5> QED
          BY <1>2, <1>3, <4>2, <5>1 DEF CexInv, TicksInOrder, QueueInOrder, HistoryBehind
      <4> QED
        BY <4>1, <4>2
    <3> HIDE DEF new
    <3>10. ASSUME NEW a \in Assets, NEW i \in DOMAIN features'[a]
           PROVE  /\ features'[a][i].n <= ticks[a]
                  /\ \A j \in DOMAIN ingest' :
                       ingest'[j].asset = a => features'[a][i].n < ingest'[j].n
      <4>1. CASE a # b
        BY <1>7, <3>6, <3>10, <4>1
      <4>2. CASE a = b
        <5>1. CASE i \in DOMAIN rows
          BY <1>7, <3>1, <3>4, <3>6, <4>2, <5>1
        <5>2. CASE i = Len(rows) + 1
          BY <3>4, <3>6, <3>9, <4>2, <5>2
        <5> QED
          BY <3>4, <3>6, <3>10, <4>2, <5>1, <5>2
      <4> QED
        BY <4>1, <4>2
    <3>11. TicksInOrder'
      BY <1>6, <1>8, <3>10 DEF TicksInOrder, QueueInOrder, HistoryBehind
    <3>12. ASSUME NEW i \in DOMAIN new
           PROVE  /\ new[i].epoch >= okxEpoch
                  /\ i > 1 => new[i].epoch >= new[i - 1].epoch /\ new[i].n > new[i - 1].n
      <4>1. CASE i \in DOMAIN rows
        <5>1. new[i] = rows[i] /\ (i > 1 => i - 1 \in DOMAIN rows /\ new[i - 1] = rows[i - 1])
          BY <3>4, <4>1
        <5> QED
          BY <3>1, <4>1, <5>1 DEF CexInv, HistorySound, HistoryOfConnection
      <4>2. CASE i = Len(rows) + 1
        <5>1. new[i] = tick /\ tick.epoch >= okxEpoch
          BY <2>2, <3>1, <3>2, <3>4, <4>2
        <5>2. ASSUME i > 1
              PROVE  tick.epoch >= new[i - 1].epoch /\ tick.n > new[i - 1].n
          <6>1. i - 1 = Len(rows) /\ i - 1 \in DOMAIN rows /\ rows # << >>
            BY <3>4, <4>2, <5>2
          <6>2. new[i - 1] = rows[Len(rows)] /\ new[i - 1] = Last(rows)
            BY <3>4, <6>1 DEF Last
          <6>3. tick.epoch >= Last(rows).epoch
            <7>1. ~(tick.epoch < Last(rows).epoch)
              BY <2>2, <6>1
            <7>2. Last(rows).epoch \in Nat
              BY <3>4, <3>7, <6>1, <6>2
            <7> QED
              BY <3>1, <7>1, <7>2
          <6> QED
            BY <3>1, <3>7, <3>8, <6>1, <6>2, <6>3
        <5> QED
          BY <5>1, <5>2
      <4> QED
        BY <3>4, <4>1, <4>2
    <3>13. HistoryOfConnection'
      BY <1>8, <3>6, <3>12 DEF CexInv, HistorySound, HistoryOfConnection
    <3> QED
      BY <3>5, <3>11, <3>13
  <2> QED
    BY <2>1, <2>2
<1>10. CexTypeOK'
  BY <1>2, <1>3, CexAssumption DEF Drain, CexInv, HistorySound, CexTypeOK
<1>11. CexPlain'
  BY <1>2, <1>9 DEF Drain, CexInv, CexPlain
<1>12. ReadyIsEarned'
  BY DEF Drain, CexInv, HistorySound, ReadyIsEarned, Required
<1> QED
  BY <1>9, <1>10, <1>11, <1>12 DEF CexInv, HistorySound

THEOREM CexSoundness == CexSpec => []HistorySound
<1>1. CexInv /\ [CexNext]_cexVars => CexInv'
  <2> SUFFICES ASSUME CexInv, [CexNext]_cexVars PROVE CexInv'
    OBVIOUS
  <2>1. CASE UNCHANGED cexVars
    BY <2>1 DEF cexVars, CexInv, CexPlain, TicksInOrder, QueueInOrder, HistoryBehind, HistorySound, CexTypeOK,
                HistoryOfConnection, ReadyIsEarned, Required
  <2> QED
    BY <2>1, CexConnectKeeps, CexAnnounceKeeps, CexLostKeeps, AcknowledgeKeeps,
       EndAcknowledgedKeeps, SetAssetsKeeps, AssetsSentKeeps, SendFailsKeeps,
       AssetsSetKeeps, ObserveKeeps, FetchedKeeps, FetchWithoutTickKeeps, DrainKeeps DEF CexNext
<1>2. CexInv => HistorySound
  BY DEF CexInv
<1> HIDE DEF CexInv, HistorySound
<1> QED
  BY CexStarts, <1>1, <1>2, PTL DEF CexSpec

-----------------------------------------------------------------------------
ScanOK ==
  \/ scan = Resting
  \/ scan \in [at : {"asking"}, now : 0..MaxClock]
  \/ scan \in [at : {"ensuring", "persisting"}, now : 0..MaxClock, todo : SUBSET ListedMarkets]

\* A known market is one that lists its window, and only known windows were bound.
Bound ==
  /\ \A w \in DOMAIN known : known[w] \in ListedMarkets /\ WindowListed[known[w]] = w
  /\ DOMAIN firstBound = WindowIds
  /\ \A w \in WindowIds \ DOMAIN known : firstBound[w] = Unbound

DiscoveryInv == ScanOK /\ Bound /\ MarketsSound

LEMMA DiscoveryStarts == DiscoveryInit => DiscoveryInv
<1> SUFFICES ASSUME DiscoveryInit PROVE DiscoveryInv
  OBVIOUS
<1> USE DEF DiscoveryInit, Nowhere
<1>1. ScanOK
  BY DEF ScanOK
<1>2. DOMAIN known = {} /\ DOMAIN tokenWindow = {} /\ DOMAIN windowRows = {}
  OBVIOUS
<1>3. Bound
  BY <1>2 DEF Bound
<1>4. DiscoveryTypeOK
  BY <1>2, DiscoveryAssumption DEF DiscoveryTypeOK, Resting
<1>5. BindingStands /\ TokensAgree /\ MemoryCommitted
  BY <1>2 DEF BindingStands, TokensAgree, MemoryCommitted
<1> QED
  BY <1>1, <1>3, <1>4, <1>5 DEF DiscoveryInv, MarketsSound

\* Of the steps that leave memory and tables alone
LEMMA MemoryStays ==
  ASSUME DiscoveryInv, UNCHANGED <<memoryVars, windowRows, linkRows, journaled>>
  PROVE  Bound' /\ BindingStands' /\ TokensAgree' /\ MemoryCommitted'
BY DEF DiscoveryInv, MarketsSound, Bound, BindingStands, TokensAgree, MemoryCommitted,
       memoryVars

LEMMA RestingIsSound == ASSUME scan' = Resting PROVE ScanOK' /\ scan'.at = "resting"
BY DEF ScanOK, Resting

LEMMA DiscoverKeeps == DiscoveryInv /\ Discover => DiscoveryInv'
<1> SUFFICES ASSUME DiscoveryInv, Discover PROVE DiscoveryInv'
  OBVIOUS
<1>1. ScanOK' /\ scan'.at = "asking"
  BY DEF Discover, ScanOK, DiscoveryInv, MarketsSound, DiscoveryTypeOK
<1>2. Bound' /\ BindingStands' /\ TokensAgree' /\ MemoryCommitted'
  BY MemoryStays DEF Discover
<1>3. DiscoveryTypeOK'
  BY <1>1 DEF Discover, memoryVars, DiscoveryInv, MarketsSound, DiscoveryTypeOK
<1> QED
  BY <1>1, <1>2, <1>3 DEF DiscoveryInv, MarketsSound

LEMMA AnsweredKeeps == DiscoveryInv /\ Answered => DiscoveryInv'
<1> SUFFICES ASSUME DiscoveryInv, Answered PROVE DiscoveryInv'
  OBVIOUS
<1>0. PICK rows \in SUBSET [market : ListedMarkets, executable : BOOLEAN] :
        scan' = [at |-> "ensuring", now |-> scan.now,
                 todo |-> Unambiguous(Parsed(rows, scan.now))]
  BY DEF Answered
<1>1. Unambiguous(Parsed(rows, scan.now)) \subseteq ListedMarkets
  BY DEF Unambiguous, Parsed
<1>2. scan.now \in 0..MaxClock
  BY DEF Answered, DiscoveryInv, ScanOK, Resting
<1>3. ScanOK' /\ scan'.at = "ensuring"
  BY <1>0, <1>1, <1>2 DEF ScanOK
<1>4. Bound' /\ BindingStands' /\ TokensAgree' /\ MemoryCommitted'
  BY MemoryStays DEF Answered
<1>5. DiscoveryTypeOK'
  BY <1>3 DEF Answered, memoryVars, DiscoveryInv, MarketsSound, DiscoveryTypeOK
<1> QED
  BY <1>3, <1>4, <1>5 DEF DiscoveryInv, MarketsSound

LEMMA EnsureWindowKeeps == DiscoveryInv /\ EnsureWindow => DiscoveryInv'
<1> SUFFICES ASSUME DiscoveryInv, EnsureWindow PROVE DiscoveryInv'
  OBVIOUS
<1> DEFINE w == NextMissing
<1>1. scan.at = "ensuring" /\ scan.now \in 0..MaxClock
  BY DEF EnsureWindow, DiscoveryInv, ScanOK, Resting
<1>2. w \in WindowIds
  BY <1>1 DEF NextMissing, WindowIds
<1>3. /\ journaled' = journaled \cup {w}
      /\ \/ /\ windowRows' = With(windowRows, w, "DISCOVERING")
            /\ \/ expectedKeys' = expectedKeys \cup {w} /\ UNCHANGED scan
               \/ Raises /\ UNCHANGED expectedKeys
         \/ Raises /\ UNCHANGED <<expectedKeys, windowRows>>
      /\ UNCHANGED <<clock, known, tokenWindow, firstBound, linkRows, restarts>>
  BY DEF EnsureWindow
<1>4. /\ DOMAIN windowRows \subseteq DOMAIN windowRows'
      /\ expectedKeys' \subseteq expectedKeys \cup {w}
      /\ w \in expectedKeys' => w \in expectedKeys \/ w \in DOMAIN windowRows'
  BY <1>3 DEF With
<1>5. ScanOK' /\ scan'.at \in {"resting", "asking", "ensuring", "persisting"}
  BY <1>3, RestingIsSound DEF Raises, ScanOK, DiscoveryInv, MarketsSound, DiscoveryTypeOK
<1>6. Bound' /\ BindingStands' /\ TokensAgree'
  BY <1>3 DEF DiscoveryInv, MarketsSound, Bound, BindingStands, TokensAgree
<1>7. MemoryCommitted'
  BY <1>3, <1>4 DEF DiscoveryInv, MarketsSound, MemoryCommitted
<1>8. DiscoveryTypeOK'
  BY <1>2, <1>3, <1>4, <1>5 DEF DiscoveryInv, MarketsSound, DiscoveryTypeOK
<1> QED
  BY <1>5, <1>6, <1>7, <1>8 DEF DiscoveryInv, MarketsSound

LEMMA BeginPersistingKeeps == DiscoveryInv /\ BeginPersisting => DiscoveryInv'
<1> SUFFICES ASSUME DiscoveryInv, BeginPersisting PROVE DiscoveryInv'
  OBVIOUS
<1>1. scan \in [at : {"ensuring", "persisting"}, now : 0..MaxClock, todo : SUBSET ListedMarkets]
  BY DEF BeginPersisting, DiscoveryInv, ScanOK, Resting
<1>2. ScanOK' /\ scan'.at = "persisting"
  BY <1>1 DEF BeginPersisting, ScanOK
<1>3. Bound' /\ BindingStands' /\ TokensAgree' /\ MemoryCommitted'
  BY MemoryStays DEF BeginPersisting
<1>4. DiscoveryTypeOK'
  BY <1>2 DEF BeginPersisting, memoryVars, DiscoveryInv, MarketsSound, DiscoveryTypeOK
<1> QED
  BY <1>2, <1>3, <1>4 DEF DiscoveryInv, MarketsSound

\* A window that is not bound to another market may be bound to this one.
LEMMA BindKeeps ==
  ASSUME DiscoveryInv, NEW m \in ListedMarkets, ~Conflicts(m), Bind(m)
  PROVE  /\ Bound' /\ BindingStands' /\ TokensAgree'
         /\ DOMAIN known' = DOMAIN known \cup {WindowListed[m]}
         /\ \A w \in DOMAIN known' : (known'[w] = m /\ w = WindowListed[m]) \/ (w \in DOMAIN known /\ known'[w] = known[w])
         /\ DOMAIN tokenWindow' = DOMAIN tokenWindow \cup {m}
<1> DEFINE w == WindowListed[m]
<1>1. w \in WindowIds
  BY DEF WindowIds
<1>2. /\ DOMAIN known' = DOMAIN known \cup {w} /\ known'[w] = m
      /\ \A v \in DOMAIN known : v # w => known'[v] = known[v]
  BY DEF Bind, With
<1>3. /\ DOMAIN tokenWindow' = DOMAIN tokenWindow \cup {m} /\ tokenWindow'[m] = w
      /\ \A n \in DOMAIN tokenWindow : n # m => tokenWindow'[n] = tokenWindow[n]
  BY DEF Bind, With
<1>4. w \in DOMAIN known => known[w] = m
  BY DEF Conflicts
<1>5. \A v \in DOMAIN known : v # w => known[v] # m
  BY DEF DiscoveryInv, Bound
<1>6. /\ DOMAIN firstBound' = WindowIds /\ firstBound'[w] = m
      /\ \A v \in WindowIds : v # w => firstBound'[v] = firstBound[v]
  <2>1. DOMAIN firstBound = WindowIds /\ (w \notin DOMAIN known => firstBound[w] = Unbound)
    BY <1>1 DEF DiscoveryInv, Bound
  <2>2. w \in DOMAIN known => firstBound[w] = m
    BY <1>4 DEF DiscoveryInv, MarketsSound, BindingStands
  <2>3. firstBound' = IF firstBound[w] = Unbound THEN [firstBound EXCEPT ![w] = m] ELSE firstBound
    BY DEF Bind
  <2> QED
    BY <1>1, <2>1, <2>2, <2>3
<1>7. Bound'
  BY <1>1, <1>2, <1>6 DEF DiscoveryInv, Bound
<1>8. BindingStands'
  BY <1>2, <1>6 DEF DiscoveryInv, MarketsSound, DiscoveryTypeOK, BindingStands
<1>9. TokensAgree'
  BY <1>2, <1>3, <1>4, <1>5 DEF DiscoveryInv, MarketsSound, TokensAgree
<1>10. \A v \in DOMAIN known' : (known'[v] = m /\ v = WindowListed[m]) \/ (v \in DOMAIN known /\ known'[v] = known[v])
  <2> TAKE v \in DOMAIN known'
  <2>1. CASE v = w
    BY <2>1, <1>2
  <2>2. CASE v # w
    BY <2>2, <1>2
  <2> QED
    BY <2>1, <2>2
<1>11. DOMAIN known' = DOMAIN known \cup {WindowListed[m]}
  BY <1>2
<1>12. DOMAIN tokenWindow' = DOMAIN tokenWindow \cup {m}
  BY <1>3
<1> HIDE DEF w
<1> QED
  BY <1>7, <1>8, <1>9, <1>10, <1>11, <1>12

LEMMA PersistMarketKeeps == DiscoveryInv /\ PersistMarket => DiscoveryInv'
<1> SUFFICES ASSUME DiscoveryInv, PersistMarket PROVE DiscoveryInv'
  OBVIOUS
<1>0. scan \in [at : {"ensuring", "persisting"}, now : 0..MaxClock, todo : SUBSET ListedMarkets]
  BY DEF PersistMarket, DiscoveryInv, ScanOK, Resting
<1>1. PICK m \in scan.todo :
        IF Conflicts(m)
        THEN Dealt(m) /\ UNCHANGED <<known, tokenWindow, firstBound, windowRows, linkRows>>
        ELSE /\ CommitBundle(m)
             /\ \/ Bind(m) /\ Dealt(m)
                \/ Raises /\ UNCHANGED <<known, tokenWindow, firstBound>>
  BY DEF PersistMarket
<1>2. m \in ListedMarkets /\ WindowListed[m] \in WindowIds
  BY <1>0 DEF WindowIds
<1>3. UNCHANGED <<clock, expectedKeys, journaled, restarts>>
  BY DEF PersistMarket
<1>4. Dealt(m) => ScanOK' /\ scan'.at = scan.at
  BY <1>0 DEF Dealt, ScanOK
<1>5. ScanOK' /\ scan'.at \in {"resting", "ensuring", "persisting"}
  BY <1>0, <1>1, <1>4, RestingIsSound DEF Raises
<1>6. CASE UNCHANGED <<known, tokenWindow, firstBound>>
  <2>1. linkRows \subseteq linkRows' /\ DOMAIN windowRows \subseteq DOMAIN windowRows'
        /\ linkRows' \subseteq ListedMarkets
    BY <1>1, <1>2 DEF CommitBundle, With, DiscoveryInv, MarketsSound, DiscoveryTypeOK
  <2>2. Bound' /\ BindingStands' /\ TokensAgree'
    BY <1>6 DEF DiscoveryInv, MarketsSound, Bound, BindingStands, TokensAgree
  <2>3. MemoryCommitted'
    BY <1>3, <1>6, <2>1 DEF DiscoveryInv, MarketsSound, MemoryCommitted
  <2>4. DiscoveryTypeOK'
    BY <1>3, <1>5, <1>6, <2>1 DEF DiscoveryInv, MarketsSound, DiscoveryTypeOK
  <2> QED
    BY <1>5, <2>2, <2>3, <2>4 DEF DiscoveryInv, MarketsSound
<1>7. CASE ~Conflicts(m) /\ CommitBundle(m) /\ Bind(m)
  <2>1. /\ Bound' /\ BindingStands' /\ TokensAgree'
        /\ DOMAIN known' = DOMAIN known \cup {WindowListed[m]}
        /\ \A w \in DOMAIN known' : (known'[w] = m /\ w = WindowListed[m]) \/ (w \in DOMAIN known /\ known'[w] = known[w])
        /\ DOMAIN tokenWindow' = DOMAIN tokenWindow \cup {m}
    BY <1>2, <1>7, BindKeeps
  <2>2. /\ linkRows' = linkRows \cup {m}
        /\ DOMAIN windowRows' = DOMAIN windowRows \cup {WindowListed[m]}
    BY <1>7 DEF CommitBundle, With
  <2>3. MemoryCommitted'
    BY <1>3, <2>1, <2>2 DEF DiscoveryInv, MarketsSound, MemoryCommitted
  <2>4. DiscoveryTypeOK'
    BY <1>2, <1>3, <1>5, <2>1, <2>2 DEF DiscoveryInv, MarketsSound, DiscoveryTypeOK
  <2> QED
    BY <1>5, <2>1, <2>3, <2>4 DEF DiscoveryInv, MarketsSound
<1> QED
  BY <1>1, <1>6, <1>7

LEMMA PassBreaksOffKeeps == DiscoveryInv /\ PassBreaksOff => DiscoveryInv'
<1> SUFFICES ASSUME DiscoveryInv, PassBreaksOff PROVE DiscoveryInv'
  OBVIOUS
<1>1. ScanOK' /\ scan'.at = "resting"
  BY RestingIsSound DEF PassBreaksOff, Raises
<1>2. Bound' /\ BindingStands' /\ TokensAgree' /\ MemoryCommitted'
  BY MemoryStays DEF PassBreaksOff
<1>3. DiscoveryTypeOK'
  BY <1>1 DEF PassBreaksOff, memoryVars, DiscoveryInv, MarketsSound, DiscoveryTypeOK
<1> QED
  BY <1>1, <1>2, <1>3 DEF DiscoveryInv, MarketsSound

LEMMA PruneKeeps == DiscoveryInv /\ Prune => DiscoveryInv'
<1> SUFFICES ASSUME DiscoveryInv, Prune PROVE DiscoveryInv'
  OBVIOUS
<1> DEFINE kept == {w \in DOMAIN known : CloseOf(w) + Span >= scan.now}
           tokens == {known[w] : w \in kept}
<1>1. kept \subseteq DOMAIN known
  OBVIOUS
<1>2. /\ known' = [w \in kept |-> known[w]]
      /\ tokenWindow' = [m \in tokens |-> CHOOSE w \in kept : known[w] = m]
      /\ firstBound' = [w \in WindowIds |->
           IF w \in DOMAIN known \ kept THEN Unbound ELSE firstBound[w]]
      /\ scan' = Resting
      /\ UNCHANGED <<clock, expectedKeys, windowRows, linkRows, journaled, restarts>>
  BY DEF Prune
<1> HIDE DEF kept
<1>3. \A w, v \in kept : known[w] = known[v] => w = v
  BY <1>1 DEF DiscoveryInv, Bound
<1>4. \A w \in kept : known[w] \in tokens /\ tokenWindow'[known[w]] = w
  <2> SUFFICES ASSUME NEW w \in kept
               PROVE  known[w] \in tokens /\ tokenWindow'[known[w]] = w
    OBVIOUS
  <2>1. known[w] \in tokens
    OBVIOUS
  <2>2. tokenWindow'[known[w]] = CHOOSE v \in kept : known[v] = known[w]
    BY <1>2, <2>1
  <2>3. \A v \in kept : known[v] = known[w] => v = w
    BY <1>3
  <2> QED
    BY <2>1, <2>2, <2>3
<1>5. DOMAIN known' = kept /\ DOMAIN tokenWindow' = tokens
      /\ \A w \in kept : known'[w] = known[w]
  BY <1>2
<1>6. TokensAgree'
  BY <1>4, <1>5 DEF TokensAgree
<1>7. Bound' /\ BindingStands'
  BY <1>1, <1>2, <1>5 DEF Bound, BindingStands, DiscoveryInv, MarketsSound, DiscoveryTypeOK
<1>8. MemoryCommitted'
  BY <1>1, <1>2, <1>5 DEF MemoryCommitted, DiscoveryInv, MarketsSound
<1>9. ScanOK' /\ scan'.at = "resting"
  BY <1>2, RestingIsSound
<1>10. tokens \subseteq ListedMarkets
  BY <1>1 DEF DiscoveryInv, Bound
<1>11. DiscoveryTypeOK'
  BY <1>1, <1>2, <1>5, <1>9, <1>10 DEF DiscoveryInv, MarketsSound, DiscoveryTypeOK
<1> QED
  BY <1>6, <1>7, <1>8, <1>9, <1>11 DEF DiscoveryInv, MarketsSound

LEMMA ClockTicksKeeps == DiscoveryInv /\ ClockTicks => DiscoveryInv'
<1> SUFFICES ASSUME DiscoveryInv, ClockTicks PROVE DiscoveryInv'
  OBVIOUS
<1>1. ScanOK'
  BY DEF ClockTicks, ScanOK, DiscoveryInv
<1>2. Bound' /\ BindingStands' /\ TokensAgree' /\ MemoryCommitted'
  BY MemoryStays DEF ClockTicks
<1>3. DiscoveryTypeOK'
  BY DiscoveryAssumption DEF ClockTicks, memoryVars, DiscoveryInv, MarketsSound, DiscoveryTypeOK
<1> QED
  BY <1>1, <1>2, <1>3 DEF DiscoveryInv, MarketsSound

LEMMA RestartKeeps == DiscoveryInv /\ Restart => DiscoveryInv'
<1> SUFFICES ASSUME DiscoveryInv, Restart PROVE DiscoveryInv'
  OBVIOUS
<1>1. ScanOK' /\ scan'.at = "resting"
  BY RestingIsSound DEF Restart
<1>2. DOMAIN known' = {} /\ DOMAIN tokenWindow' = {} /\ expectedKeys' = {} /\ journaled' = {}
  BY DEF Restart, Nowhere
<1>3. Bound' /\ BindingStands' /\ TokensAgree' /\ MemoryCommitted'
  BY <1>2 DEF Restart, Bound, BindingStands, TokensAgree, MemoryCommitted
<1>4. DiscoveryTypeOK'
  BY <1>1, <1>2, DiscoveryAssumption DEF Restart, DiscoveryInv, MarketsSound, DiscoveryTypeOK
<1> QED
  BY <1>1, <1>3, <1>4 DEF DiscoveryInv, MarketsSound

THEOREM DiscoverySoundness == DiscoverySpec => []MarketsSound
<1>1. DiscoveryInv /\ [DiscoveryNext]_discoveryVars => DiscoveryInv'
  <2> SUFFICES ASSUME DiscoveryInv, [DiscoveryNext]_discoveryVars PROVE DiscoveryInv'
    OBVIOUS
  <2>1. CASE UNCHANGED discoveryVars
    BY <2>1 DEF discoveryVars, memoryVars, DiscoveryInv, ScanOK, Bound, MarketsSound,
                DiscoveryTypeOK, BindingStands, TokensAgree, MemoryCommitted
  <2> QED
    BY <2>1, DiscoverKeeps, AnsweredKeeps, EnsureWindowKeeps, BeginPersistingKeeps,
       PersistMarketKeeps, PassBreaksOffKeeps, PruneKeeps, ClockTicksKeeps, RestartKeeps
    DEF DiscoveryNext
<1>2. DiscoveryInv => MarketsSound
  BY DEF DiscoveryInv
<1> HIDE DEF DiscoveryInv, MarketsSound
<1> QED
  BY DiscoveryStarts, <1>1, <1>2, PTL DEF DiscoverySpec

-----------------------------------------------------------------------------
-----------------------------------------------------------------------------
(* From an evaluation to an entry *)

LEMMA FlowBounds == MaxSessions \in Nat /\ MaxSessions > 0 /\ MaxObs \in Nat /\ MaxObs > 0 /\ MaxLate \in Nat
BY EntryAssumption

ObsRow == [w : EntryWindows, by : 1..MaxSessions, outcome : {"open", "ABANDONED"} \cup RouterActions]
Purchase == [w : EntryWindows, by : 1..MaxSessions, of : 0..MaxObs]
Evaluation ==
  [pc : {"evidence", "start", "update", "finish"}, w : EntryWindows, action : RouterActions,
   observed : BOOLEAN, finished : BOOLEAN]
Crossing == [pc : {"cross", "enter"}, w : EntryWindows, of : 0..MaxObs]
Command ==
  [kind : {"start"}, w : EntryWindows, by : 1..MaxSessions]
    \cup [kind : {"finish"}, w : EntryWindows, by : 1..MaxSessions, of : 0..MaxObs, action : RouterActions]
    \cup [kind : {"enter"}, w : EntryWindows, by : 1..MaxSessions, of : 0..MaxObs]
Terminating == {"CROSS_SPREAD", "SKIP", "SAFETY_FAIL"}

\* The engine's part of the types: everything but the tables
FlowPlain ==
  /\ router \in [EntryWindows -> Ages \cup {NoObs}]
  /\ maker \in [EntryWindows -> 0..MaxObs]
  /\ lastAction \in [EntryWindows -> RouterActions \cup {""}]
  /\ entering \subseteq EntryWindows
  /\ capacity \in BOOLEAN /\ latched \in BOOLEAN /\ foreign \in BOOLEAN
  /\ remaining \in [EntryWindows -> {"enough", "little", "none"}]
  /\ step = Rest \/ step \in Evaluation \/ step \in Crossing
  /\ lateCmds \in Seq(Command)
  /\ session \in Seq({"live", "ended", "gone"}) /\ Len(session) <= MaxSessions
  /\ ~Up => step = Rest /\ lateCmds = << >>

\* The rows name sessions there were and windows there are.
FlowTables ==
  /\ obs \in Seq(ObsRow) /\ Len(obs) <= MaxObs /\ bought \in Seq(Purchase)
  /\ \A o \in DOMAIN obs : obs[o].by <= Now
  /\ \A n \in DOMAIN bought : bought[n].by <= Now
  /\ \A m, n \in DOMAIN bought : m # n => bought[m].w # bought[n].w
  /\ \A o \in DOMAIN obs : obs[o].outcome = "ABANDONED" => session[obs[o].by] # "live"

\* An observation of the window and session that ended as a cross
Crossed(o, w, s) ==
  o \in DOMAIN obs /\ obs[o].w = w /\ obs[o].by = s /\ obs[o].outcome = "CROSS_SPREAD"

\* Every entry, and every one on its way, has its row.
Backed ==
  /\ \A n \in DOMAIN bought : bought[n].of # 0 => Crossed(bought[n].of, bought[n].w, bought[n].by)
  /\ step.pc \in {"cross", "enter"} /\ step.of # 0 => Crossed(step.of, step.w, Now)
  /\ \A n \in DOMAIN lateCmds : lateCmds[n].kind = "enter" /\ lateCmds[n].of # 0 =>
       Crossed(lateCmds[n].of, lateCmds[n].w, Now)

\* What an earlier session left open blocks the entries of this one.
Blocking ==
  Up => /\ ~foreign => Unfinished(1..(Now - 1)) = {}
        /\ foreign => /\ \A n \in DOMAIN bought : bought[n].by # Now
                      /\ step.pc # "enter"
                      /\ \A n \in DOMAIN lateCmds : lateCmds[n].kind # "enter"

\* The evaluation of w is on the way to a finish
Closing(w) == step.pc \in {"evidence", "finish"} /\ step.w = w /\ step.action # "NO_ACTION"

\* The rows the engine knows are of its session, and open while they are observed
\* or about to be finished.
MakerKnown ==
  Up => \A w \in EntryWindows : maker[w] # 0 =>
          /\ maker[w] \in DOMAIN obs /\ obs[maker[w]].w = w /\ obs[maker[w]].by = Now
          /\ (router[w] # NoObs \/ Closing(w)) => obs[maker[w]].outcome = "open"

\* A decision that ends an observation ended it in the router already.
Ended ==
  /\ step.pc = "evidence" /\ step.action \in Terminating => router[step.w] = NoObs
  /\ step.pc = "finish" => /\ step.action \in Terminating /\ router[step.w] = NoObs
                           /\ maker[step.w] # 0

\* A finish given up is the only one of its row, and the row is still open.
OnlyFinish(c) ==
  /\ c.of = maker[c.w] /\ c.of # 0 /\ router[c.w] = NoObs /\ ~Closing(c.w)
  /\ obs[c.of].outcome = "open"
LateFinish ==
  /\ \A n \in DOMAIN lateCmds :
       /\ lateCmds[n].by = Now
       /\ lateCmds[n].kind = "finish" => OnlyFinish(lateCmds[n])
  /\ \A m, n \in DOMAIN lateCmds :
       m # n /\ lateCmds[m].kind = "finish" /\ lateCmds[n].kind = "finish" =>
         lateCmds[m].w # lateCmds[n].w

\* A latched session only brings its observations to an end.
LatchedQuiet ==
  latched => \/ step = Rest
             \/ step.pc = "evidence" /\ step.action \in {"NO_ACTION", "SAFETY_FAIL"}
             \/ step.pc = "finish" /\ step.action = "SAFETY_FAIL"

\* Of a session that has not latched, one open row per observed window, the one
\* the engine knows, and none but the window in evaluation is between.
OneRow(w) == {o \in Unfinished({Now}) : obs[o].w = w} = {maker[w]} \ {0}
InTune(w) ==
  IF step.pc \in {"evidence", "start", "finish"} /\ step.w = w
  THEN /\ step.pc = "evidence" =>
            /\ step.observed <=> maker[w] # 0
            /\ step.action = "START_OBSERVATION" => maker[w] = 0 /\ router[w] # NoObs
            /\ step.action \in {"CONTINUE_OBSERVING", "NO_ACTION"} =>
                 (router[w] # NoObs <=> maker[w] # 0)
       /\ step.pc = "start" => maker[w] = 0 /\ router[w] # NoObs
  ELSE router[w] # NoObs <=> maker[w] # 0
StartSeen(w) ==
  lastAction[w] = "START_OBSERVATION" /\ router[w] = NoObs =>
    step.pc = "evidence" /\ step.w = w /\ step.action \in Terminating
Tuned ==
  Up /\ ~latched =>
    /\ lateCmds = << >>
    /\ \A w \in EntryWindows : OneRow(w) /\ InTune(w) /\ StartSeen(w)

FlowInv ==
  /\ FlowPlain /\ FlowTables /\ missing = FALSE
  /\ Backed /\ Blocking /\ MakerKnown /\ Ended /\ LateFinish /\ LatchedQuiet /\ Tuned

LEMMA StepShape ==
  ASSUME FlowPlain
  PROVE  /\ step.pc \in {"rest", "evidence", "start", "update", "finish", "cross", "enter"}
         /\ step = Rest <=> step.pc = "rest"
         /\ step.pc \in {"evidence", "start", "update", "finish"} =>
              /\ step \in Evaluation /\ step.w \in EntryWindows /\ step.action \in RouterActions
              /\ step.observed \in BOOLEAN
         /\ step.pc \in {"cross", "enter"} =>
              step \in Crossing /\ step.w \in EntryWindows /\ step.of \in 0..MaxObs
<1>1. CASE step = Rest
  BY <1>1 DEF Rest
<1>2. CASE step \in Evaluation
  BY <1>2 DEF Evaluation, Rest
<1>3. CASE step \in Crossing
  BY <1>3 DEF Crossing, Rest
<1> QED
  BY <1>1, <1>2, <1>3 DEF FlowPlain

LEMMA LateShape ==
  ASSUME FlowPlain, NEW n \in DOMAIN lateCmds
  PROVE  /\ lateCmds[n] \in Command /\ lateCmds[n].w \in EntryWindows /\ lateCmds[n].by \in 1..MaxSessions
         /\ lateCmds[n].kind \in {"start", "finish", "enter"}
         /\ lateCmds[n].kind = "finish" => lateCmds[n].action \in RouterActions
<1>1. lateCmds[n] \in Command
  BY ElementOfSeq, LenProperties DEF FlowPlain
<1> QED
  BY <1>1 DEF Command

LEMMA UpNow == ASSUME FlowPlain, Up PROVE Now \in DOMAIN session /\ Now \in 1..MaxSessions /\ session[Now] = "live"
<1>1. session \in Seq({"live", "ended", "gone"}) /\ Len(session) <= MaxSessions /\ session # << >>
  BY DEF FlowPlain, Up
<1>2. Len(session) \in Nat /\ DOMAIN session = 1..Len(session)
  BY <1>1, LenProperties
<1>3. Len(session) # 0
  BY <1>1, EmptySeq
<1> QED
  BY <1>1, <1>2, <1>3, FlowBounds DEF Up, Now

LEMMA RestFields == Rest.pc = "rest"
BY DEF Rest

LEMMA FlowStarts == FlowInit => FlowInv
<1> SUFFICES ASSUME FlowInit PROVE FlowInv
  OBVIOUS
<1>1. /\ session = <<"live">> /\ obs = << >> /\ bought = << >> /\ lateCmds = << >> /\ step = Rest
      /\ step.pc = "rest" /\ Up /\ Now = 1 /\ session[1] = "live" /\ session \in Seq({"live", "ended", "gone"})
      /\ Len(session) = 1
  <2>1. session = <<"live">> /\ "live" \in {"live", "ended", "gone"}
    BY DEF FlowInit
  <2>2. session \in Seq({"live", "ended", "gone"}) /\ Len(session) = 1 /\ session[1] = "live" /\ session # << >>
    BY <2>1
  <2> QED
    BY <2>1, <2>2 DEF FlowInit, Up, Now, Rest
<1>2. FlowPlain
  <2>1. /\ router \in [EntryWindows -> Ages \cup {NoObs}]
        /\ maker \in [EntryWindows -> 0..MaxObs]
        /\ lastAction \in [EntryWindows -> RouterActions \cup {""}]
        /\ remaining \in [EntryWindows -> {"enough", "little", "none"}]
    <3>1. router \in [EntryWindows -> Ages \cup {NoObs}]
      BY DEF FlowInit
    <3>2. maker \in [EntryWindows -> 0..MaxObs]
      <4>1. 0 \in 0..MaxObs
        BY FlowBounds
      <4> QED
        BY <4>1 DEF FlowInit
    <3>3. lastAction \in [EntryWindows -> RouterActions \cup {""}]
      BY DEF FlowInit
    <3>4. remaining \in [EntryWindows -> {"enough", "little", "none"}]
      BY DEF FlowInit
    <3> QED
      BY <3>1, <3>2, <3>3, <3>4
  <2>2. entering \subseteq EntryWindows /\ capacity \in BOOLEAN /\ latched \in BOOLEAN /\ foreign \in BOOLEAN
    BY DEF FlowInit
  <2>3. lateCmds \in Seq(Command) /\ Len(session) <= MaxSessions
    BY <1>1, FlowBounds
  <2> QED
    BY <1>1, <2>1, <2>2, <2>3 DEF FlowPlain
<1>3. FlowTables
  BY <1>1, FlowBounds DEF FlowTables
<1>4. Backed /\ Ended /\ LateFinish /\ LatchedQuiet
  BY <1>1 DEF Backed, Ended, LateFinish, LatchedQuiet
<1>5. Unfinished(1..(Now - 1)) = {} /\ Unfinished({Now}) = {}
  BY <1>1 DEF Unfinished
<1>6. Blocking /\ MakerKnown
  BY <1>1, <1>5 DEF Blocking, MakerKnown, FlowInit
<1>7. Tuned
  <2>1. \A w \in EntryWindows : maker[w] = 0 /\ router[w] = NoObs /\ lastAction[w] = ""
    BY DEF FlowInit
  <2>2. \A w \in EntryWindows : OneRow(w)
    BY <1>5, <2>1 DEF OneRow
  <2>3. \A w \in EntryWindows : InTune(w) /\ StartSeen(w)
    BY <1>1, <2>1 DEF InTune, StartSeen
  <2> QED
    BY <1>1, <2>2, <2>3 DEF Tuned
<1> QED
  BY <1>2, <1>3, <1>4, <1>6, <1>7 DEF FlowInv, FlowInit

\* What only depends on the tables and on which step is under way
LEMMA SameTables ==
  ASSUME FlowInv, UNCHANGED <<obs, bought, session, missing>>
  PROVE  /\ FlowTables' /\ missing' = FALSE /\ Now' = Now /\ Up' = Up
         /\ \A s : Unfinished(s)' = Unfinished(s)
         /\ \A o, w, s : Crossed(o, w, s)' = Crossed(o, w, s)
         /\ \A n \in DOMAIN bought : bought[n].of # 0 => Crossed(bought[n].of, bought[n].w, bought[n].by)'
BY DEF FlowInv, FlowTables, Now, Up, Unfinished, Crossed, Backed

\* Actions that change neither the tables, nor the session, nor what is late, and
\* leave the evaluation at rest, where it was, or at a crossing it had earned
LEMMA CalmKeeps ==
  ASSUME FlowInv, UNCHANGED <<obs, bought, session, missing, maker, latched, foreign, lateCmds, faulty>>,
         router' \in [EntryWindows -> Ages \cup {NoObs}],
         \A w \in EntryWindows : (router'[w] = NoObs) <=> (router[w] = NoObs),
         lastAction' \in [EntryWindows -> RouterActions \cup {""}],
         \A w \in EntryWindows : lastAction'[w] \in {lastAction[w], ""},
         entering' = entering, capacity' \in BOOLEAN,
         remaining' \in [EntryWindows -> {"enough", "little", "none"}],
         \/ step' = step
         \/ step' = Rest /\ step.pc \in {"update", "cross", "enter"}
         \/ step' = [step EXCEPT !.pc = "enter"] /\ step.pc = "cross" /\ ~foreign /\ ~latched
  PROVE  FlowInv'
<1> USE DEF FlowInv
<1>1. /\ FlowTables' /\ missing' = FALSE /\ Now' = Now /\ Up' = Up
      /\ \A s : Unfinished(s)' = Unfinished(s)
      /\ \A o, w, s : Crossed(o, w, s)' = Crossed(o, w, s)
      /\ \A n \in DOMAIN bought : bought[n].of # 0 => Crossed(bought[n].of, bought[n].w, bought[n].by)'
  BY SameTables
<1>2. /\ step' = step \/ step'.pc = "rest" \/ (step'.pc = "enter" /\ step.pc = "cross")
      /\ step' = Rest \/ step' \in Evaluation \/ step' \in Crossing
      /\ step'.pc \in {"cross", "enter"} => step.pc \in {"cross", "enter"} /\ step'.of = step.of /\ step'.w = step.w
      /\ step'.pc \in {"evidence", "start", "finish"} => step' = step
      /\ step' = Rest <=> step'.pc = "rest"
  BY StepShape, RestFields DEF FlowPlain, Crossing
<1>3. step' # Rest => step # Rest
  BY <1>2, StepShape
<1>4. FlowPlain'
  BY <1>1, <1>2, <1>3 DEF FlowPlain, Up
<1>5. Backed'
  BY <1>1, <1>2 DEF Backed
<1>6. Blocking'
  BY <1>1, <1>2 DEF Blocking
<1>7. \A w \in EntryWindows : Closing(w)' => Closing(w)
  BY <1>2 DEF Closing
<1>8. MakerKnown'
  BY <1>1, <1>7 DEF MakerKnown
<1>9. Ended'
  BY <1>2, StepShape DEF Ended
<1>10. LateFinish'
  <2>1. lateCmds' = lateCmds /\ Now' = Now /\ maker' = maker /\ obs' = obs
    BY <1>1
  <2>2. ASSUME NEW n \in DOMAIN lateCmds, lateCmds[n].kind = "finish" PROVE OnlyFinish(lateCmds[n])'
    <3>1. lateCmds[n].w \in EntryWindows /\ OnlyFinish(lateCmds[n])
      BY <2>2, LateShape DEF LateFinish
    <3> QED
      BY <1>7, <2>1, <3>1 DEF OnlyFinish
  <2>3. \A n \in DOMAIN lateCmds : lateCmds[n].kind = "finish" => OnlyFinish(lateCmds[n])'
    BY <2>2
  <2>4. /\ \A n \in DOMAIN lateCmds : lateCmds[n].by = Now
        /\ \A m, n \in DOMAIN lateCmds :
             m # n /\ lateCmds[m].kind = "finish" /\ lateCmds[n].kind = "finish" =>
               lateCmds[m].w # lateCmds[n].w
    BY DEF LateFinish
  <2> QED
    BY ONLY <2>1, <2>3, <2>4 DEF LateFinish
<1>11. LatchedQuiet'
  BY <1>2, StepShape DEF LatchedQuiet
<1>12. Tuned'
  <2> SUFFICES ASSUME Up', ~latched' PROVE lateCmds' = << >> /\ \A w \in EntryWindows : OneRow(w)' /\ InTune(w)' /\ StartSeen(w)'
    BY DEF Tuned
  <2>1. Up /\ ~latched
    BY <1>1
  <2>2. \A w \in EntryWindows : OneRow(w)'
    BY <1>1, <2>1 DEF Tuned, OneRow
  <2>3. \A w \in EntryWindows : InTune(w)'
    BY <1>2, <2>1, StepShape DEF Tuned, InTune
  <2>4. \A w \in EntryWindows : StartSeen(w)'
    <3> SUFFICES ASSUME NEW w \in EntryWindows, lastAction'[w] = "START_OBSERVATION", router'[w] = NoObs
                 PROVE  step'.pc = "evidence" /\ step'.w = w /\ step'.action \in Terminating
      BY DEF StartSeen
    <3>1. lastAction[w] = "START_OBSERVATION" /\ router[w] = NoObs
      OBVIOUS
    <3>2. step.pc = "evidence" /\ step.w = w /\ step.action \in Terminating
      BY <2>1, <3>1 DEF Tuned, StartSeen
    <3> QED
      BY <1>2, <3>2
  <2> QED
    BY <2>1, <2>2, <2>3, <2>4 DEF Tuned
<1> QED
  BY <1>1, <1>4, <1>5, <1>6, <1>8, <1>9, <1>10, <1>11, <1>12

LEMMA CalmStepKeeps ==
  ASSUME FlowInv,
         \/ ObservationUpdated \/ SubmitShadowEntry \/ RefuseShadowEntry \/ EntryRefused \/ CapacityFreed
         \/ \E w \in EntryWindows : ObservationAges(w) \/ WindowRunsOut(w)
  PROVE  FlowInv'
<1> USE DEF FlowInv
<1>1. /\ router \in [EntryWindows -> Ages \cup {NoObs}] /\ lastAction \in [EntryWindows -> RouterActions \cup {""}]
      /\ remaining \in [EntryWindows -> {"enough", "little", "none"}] /\ capacity \in BOOLEAN
  BY DEF FlowPlain
<1>2. CASE ObservationUpdated
  BY <1>1, <1>2, CalmKeeps DEF ObservationUpdated, Answerable, engineMemory
<1>3. CASE SubmitShadowEntry
  BY <1>1, <1>3, CalmKeeps DEF SubmitShadowEntry, engineMemory, Blocked
<1>4. CASE RefuseShadowEntry
  BY <1>1, <1>4, CalmKeeps DEF RefuseShadowEntry, engineMemory
<1>5. CASE EntryRefused
  <2>1. step.w \in EntryWindows
    BY <1>5, StepShape DEF EntryRefused, Answerable
  <2>2. /\ lastAction' \in [EntryWindows -> RouterActions \cup {""}] /\ capacity' \in BOOLEAN
        /\ \A w \in EntryWindows : lastAction'[w] \in {lastAction[w], ""}
    BY <1>1, <1>5, <2>1 DEF EntryRefused
  <2> QED
    BY <1>1, <1>5, <2>2, CalmKeeps DEF EntryRefused, Answerable
<1>6. CASE CapacityFreed
  BY <1>1, <1>6, CalmKeeps DEF CapacityFreed
<1>7. ASSUME NEW w \in EntryWindows, ObservationAges(w) PROVE FlowInv'
  <2>1. /\ router' \in [EntryWindows -> Ages \cup {NoObs}]
        /\ \A v \in EntryWindows : (router'[v] = NoObs) <=> (router[v] = NoObs)
    <3>1. router[w] \in {"early", "eligible"} /\ router' = [router EXCEPT ![w] = Ages2[router[w]]]
      BY <1>7 DEF ObservationAges, Ages2
    <3>2. Ages2[router[w]] \in Ages /\ NoObs \notin Ages /\ router[w] # NoObs
      BY <3>1 DEF Ages2, Ages, NoObs
    <3> HIDE DEF Ages2
    <3> QED
      BY <1>1, <3>1, <3>2
  <2> QED
    BY <1>1, <1>7, <2>1, CalmKeeps DEF ObservationAges
<1>8. ASSUME NEW w \in EntryWindows, WindowRunsOut(w) PROVE FlowInv'
  <2>1. remaining' \in [EntryWindows -> {"enough", "little", "none"}]
    BY <1>1, <1>8 DEF WindowRunsOut
  <2> QED
    BY <1>1, <1>8, <2>1, CalmKeeps DEF WindowRunsOut, engineMemory
<1> QED
  BY <1>2, <1>3, <1>4, <1>5, <1>6, <1>7, <1>8

\* An evaluation: what the router decides and whether it is taken further
LEMMA EvaluateKeeps == ASSUME FlowInv, NEW w \in EntryWindows, EvaluateWindow(w) PROVE FlowInv'
<1> USE DEF FlowInv
<1>1. PICK hard \in {Blocked, TRUE} :
      \E action \in IF w \in entering THEN {"NO_ACTION"}
                    ELSE IF ~hard THEN Decisions(w)
                    ELSE IF router[w] # NoObs THEN {"SAFETY_FAIL"} ELSE {"NO_ACTION"} :
      \E transitioned, soon \in BOOLEAN :
        /\ action # lastAction[w] => transitioned
        /\ router' = IF w \in entering THEN router ELSE [router EXCEPT ![w] = Routed(w, action)]
        /\ step' = IF Important(w, action, transitioned, soon)
                   THEN [pc |-> "evidence", w |-> w, action |-> action,
                         observed |-> router[w] # NoObs, finished |-> FALSE]
                   ELSE Rest
  BY DEF EvaluateWindow
<1>2. PICK action \in IF w \in entering THEN {"NO_ACTION"}
                      ELSE IF ~hard THEN Decisions(w)
                      ELSE IF router[w] # NoObs THEN {"SAFETY_FAIL"} ELSE {"NO_ACTION"},
           transitioned \in BOOLEAN, soon \in BOOLEAN :
        /\ action # lastAction[w] => transitioned
        /\ router' = IF w \in entering THEN router ELSE [router EXCEPT ![w] = Routed(w, action)]
        /\ step' = IF Important(w, action, transitioned, soon)
                   THEN [pc |-> "evidence", w |-> w, action |-> action,
                         observed |-> router[w] # NoObs, finished |-> FALSE]
                   ELSE Rest
  BY <1>1
<1>3. /\ Up /\ step = Rest /\ step.pc = "rest"
      /\ UNCHANGED <<maker, lastAction, entering, capacity, latched, foreign, lateCmds,
                     faulty, remaining, obs, bought, session, missing>>
  BY StepShape DEF EvaluateWindow
<1>4. router \in [EntryWindows -> Ages \cup {NoObs}] /\ NoObs \notin Ages
  BY DEF FlowPlain, Ages, NoObs
<1>5. /\ action \in RouterActions
      /\ action \in {"START_OBSERVATION"} => router[w] = NoObs /\ ~latched /\ w \notin entering
      /\ action \in {"CONTINUE_OBSERVING", "SKIP", "SAFETY_FAIL"} => router[w] # NoObs
      /\ latched => action \in {"NO_ACTION", "SAFETY_FAIL"}
      /\ w \in entering => action = "NO_ACTION"
  BY <1>2 DEF Decisions, Blocked, RouterActions
<1>6. /\ router' \in [EntryWindows -> Ages \cup {NoObs}]
      /\ \A v \in EntryWindows : v # w => router'[v] = router[v]
      /\ action = "START_OBSERVATION" => router'[w] # NoObs
      /\ action \in {"CONTINUE_OBSERVING", "NO_ACTION"} => router'[w] = router[w]
      /\ action \in Terminating => router'[w] = NoObs
  <2>1. Routed(w, action) \in Ages \cup {NoObs}
    BY <1>4, <1>5 DEF Routed, Ages
  <2>2. CASE w \in entering
    BY <1>2, <1>4, <1>5, <2>2 DEF Terminating
  <2>3. CASE w \notin entering
    <3>1. router' = [router EXCEPT ![w] = Routed(w, action)]
      BY <1>2, <2>3
    <3>2. /\ router' \in [EntryWindows -> Ages \cup {NoObs}]
          /\ router'[w] = Routed(w, action) /\ \A v \in EntryWindows : v # w => router'[v] = router[v]
      BY <1>4, <2>1, <3>1
    <3> QED
      BY <1>5, <3>2 DEF Routed, Terminating, RouterActions, NoObs
  <2> QED
    BY <2>2, <2>3
<1> DEFINE E == [pc |-> "evidence", w |-> w, action |-> action,
                 observed |-> router[w] # NoObs, finished |-> FALSE]
<1>7. /\ E \in Evaluation /\ E.pc = "evidence" /\ E.w = w /\ E.action = action
      /\ E.observed = (router[w] # NoObs) /\ E # Rest
  BY <1>5 DEF Evaluation, Rest
<1>8. /\ step' = E \/ (step' = Rest /\ step'.pc = "rest")
      /\ step' = Rest => ~Important(w, action, transitioned, soon)
  BY <1>2, <1>7, RestFields
<1>9. /\ action \in Terminating /\ maker[w] # 0 => Important(w, action, transitioned, soon)
      /\ action = "START_OBSERVATION" /\ lastAction[w] # "START_OBSERVATION" =>
           Important(w, action, transitioned, soon)
  BY <1>2 DEF Important, Terminating
<1> HIDE DEF E
<1>10. /\ FlowTables' /\ missing' = FALSE /\ Now' = Now /\ Up' = Up
       /\ \A s : Unfinished(s)' = Unfinished(s)
       /\ \A o, v, s : Crossed(o, v, s)' = Crossed(o, v, s)
       /\ \A n \in DOMAIN bought : bought[n].of # 0 => Crossed(bought[n].of, bought[n].w, bought[n].by)'
  BY <1>3, SameTables
<1>11. FlowPlain'
  BY <1>3, <1>6, <1>7, <1>8, <1>10 DEF FlowPlain
<1>12. Backed'
  BY <1>3, <1>7, <1>8, <1>10 DEF Backed
<1>13. Blocking'
  BY <1>3, <1>7, <1>8, <1>10 DEF Blocking
<1>14. /\ \A v \in EntryWindows : ~Closing(v)
       /\ \A v \in EntryWindows : Closing(v)' => v = w /\ action # "NO_ACTION" /\ step' = E
  BY <1>3, <1>7, <1>8 DEF Closing
<1>15. ~latched => \A v \in EntryWindows : OneRow(v) /\ StartSeen(v) /\ (router[v] # NoObs <=> maker[v] # 0)
  BY <1>3 DEF Tuned, InTune
<1>16. MakerKnown'
  <2> SUFFICES ASSUME NEW v \in EntryWindows, maker[v] # 0
               PROVE  /\ maker[v] \in DOMAIN obs /\ obs[maker[v]].w = v /\ obs[maker[v]].by = Now
                      /\ (router'[v] # NoObs \/ Closing(v)') => obs[maker[v]].outcome = "open"
    BY <1>3, <1>10 DEF MakerKnown
  <2>1. /\ maker[v] \in DOMAIN obs /\ obs[maker[v]].w = v /\ obs[maker[v]].by = Now
        /\ router[v] # NoObs => obs[maker[v]].outcome = "open"
    BY <1>3 DEF MakerKnown
  <2>2. router'[v] # NoObs \/ Closing(v)' => router[v] # NoObs
    BY <1>5, <1>6, <1>14, <1>15 DEF Terminating, RouterActions
  <2> QED
    BY <2>1, <2>2
<1>17. Ended'
  BY <1>6, <1>7, <1>8 DEF Ended
<1>18. LateFinish'
  <2>1. lateCmds' = lateCmds /\ Now' = Now /\ maker' = maker /\ obs' = obs
    BY <1>3, <1>10
  <2>2. ASSUME NEW n \in DOMAIN lateCmds, lateCmds[n].kind = "finish" PROVE OnlyFinish(lateCmds[n])'
    <3>1. lateCmds[n].w \in EntryWindows /\ OnlyFinish(lateCmds[n])
      BY <2>2, LateShape DEF LateFinish
    <3>2. lateCmds # << >>
      BY <2>2
    <3>3. latched
      BY <1>3, <3>2 DEF Tuned
    <3>4. router'[lateCmds[n].w] = NoObs /\ ~Closing(lateCmds[n].w)'
      <4>1. router[lateCmds[n].w] = NoObs
        BY <3>1 DEF OnlyFinish
      <4>2. lateCmds[n].w = w => action = "NO_ACTION"
        BY <1>5, <3>3, <4>1
      <4>3. router'[lateCmds[n].w] = router[lateCmds[n].w]
        BY <1>6, <3>1, <4>2
      <4>4. ~Closing(lateCmds[n].w)'
        BY <1>14, <2>1, <3>1, <4>2
      <4> QED
        BY <4>1, <4>3, <4>4
    <3> QED
      BY <2>1, <3>1, <3>4 DEF OnlyFinish
  <2>3. \A n \in DOMAIN lateCmds : lateCmds[n].kind = "finish" => OnlyFinish(lateCmds[n])'
    BY <2>2
  <2>4. /\ \A n \in DOMAIN lateCmds : lateCmds[n].by = Now
        /\ \A m, n \in DOMAIN lateCmds :
             m # n /\ lateCmds[m].kind = "finish" /\ lateCmds[n].kind = "finish" =>
               lateCmds[m].w # lateCmds[n].w
    BY DEF LateFinish
  <2> QED
    BY ONLY <2>1, <2>3, <2>4 DEF LateFinish
<1>19. LatchedQuiet'
  BY <1>3, <1>5, <1>7, <1>8 DEF LatchedQuiet
<1>20. Tuned'
  <2> SUFFICES ASSUME ~latched
               PROVE  lateCmds' = << >> /\ \A v \in EntryWindows : OneRow(v)' /\ InTune(v)' /\ StartSeen(v)'
    BY <1>3 DEF Tuned
  <2>1. lateCmds' = << >> /\ \A v \in EntryWindows : OneRow(v)'
    BY <1>3, <1>10 DEF Tuned, OneRow
  <2>2. step' = Rest => /\ action \in Terminating => router[w] = NoObs
                        /\ action # "START_OBSERVATION"
    BY <1>3, <1>5, <1>8, <1>9, <1>15 DEF StartSeen
  <2>3. \A v \in EntryWindows : InTune(v)'
    <3> SUFFICES ASSUME NEW v \in EntryWindows PROVE InTune(v)'
      OBVIOUS
    <3>1. CASE step' = Rest \/ v # w
      <4>1. router'[v] # NoObs <=> maker[v] # 0
        BY <1>5, <1>6, <1>15, <2>2, <3>1 DEF Terminating, RouterActions
      <4>2. ~(step'.pc \in {"evidence", "start", "finish"} /\ step'.w = v)
        BY <1>7, <1>8, <3>1
      <4> QED
        BY <1>3, <4>1, <4>2 DEF InTune
    <3>2. CASE step' = E /\ v = w
      BY <1>3, <1>5, <1>6, <1>7, <1>15, <3>2 DEF InTune
    <3> QED
      BY <1>8, <3>1, <3>2
  <2>4. \A v \in EntryWindows : StartSeen(v)'
    <3> SUFFICES ASSUME NEW v \in EntryWindows, lastAction[v] = "START_OBSERVATION", router'[v] = NoObs
                 PROVE  step'.pc = "evidence" /\ step'.w = v /\ step'.action \in Terminating
      BY <1>3 DEF StartSeen
    <3>1. router[v] # NoObs
      BY <1>3, <1>15 DEF StartSeen
    <3>2. v = w /\ action \in Terminating
      BY <1>5, <1>6, <3>1 DEF Terminating, RouterActions
    <3> QED
      BY <1>7, <1>8, <2>2, <3>1, <3>2
  <2> QED
    BY <2>1, <2>3, <2>4
<1> QED
  BY <1>10, <1>11, <1>12, <1>13, <1>16, <1>17, <1>18, <1>19, <1>20

\* What is late stays as it is, while no window comes any closer to a finish.
LEMMA LateStays ==
  ASSUME FlowInv, lateCmds' = lateCmds, Now' = Now, maker' = maker, obs' = obs, router' = router,
         \A w \in EntryWindows : Closing(w)' => Closing(w)
  PROVE  LateFinish'
<1> USE DEF FlowInv
<1>1. ASSUME NEW n \in DOMAIN lateCmds, lateCmds[n].kind = "finish" PROVE OnlyFinish(lateCmds[n])'
  <2>1. lateCmds[n].w \in EntryWindows /\ OnlyFinish(lateCmds[n])
    BY <1>1, LateShape DEF LateFinish
  <2> QED
    BY <2>1 DEF OnlyFinish
<1>2. \A n \in DOMAIN lateCmds : lateCmds[n].kind = "finish" => OnlyFinish(lateCmds[n])'
  BY <1>1
<1>3. /\ \A n \in DOMAIN lateCmds : lateCmds[n].by = Now
      /\ \A m, n \in DOMAIN lateCmds :
           m # n /\ lateCmds[m].kind = "finish" /\ lateCmds[n].kind = "finish" =>
             lateCmds[m].w # lateCmds[n].w
  BY DEF LateFinish
<1>4. lateCmds' = lateCmds /\ Now' = Now
  OBVIOUS
<1> QED
  BY ONLY <1>2, <1>3, <1>4 DEF LateFinish

LEMMA EvidenceKeeps == ASSUME FlowInv, EvidencePersisted PROVE FlowInv'
<1> USE DEF FlowInv
<1> DEFINE w == step.w
           action == step.action
<1>1. /\ step.pc = "evidence" /\ w \in EntryWindows /\ action \in RouterActions /\ step \in Evaluation
      /\ step # Rest
  BY StepShape DEF EvidencePersisted, Answerable
<1>2. /\ lastAction' = [lastAction EXCEPT ![w] = action]
      /\ UNCHANGED <<router, maker, entering, capacity, foreign, lateCmds, faulty,
                     remaining, obs, bought, session>>
  BY DEF EvidencePersisted
<1>3. Up
  BY <1>1 DEF FlowPlain
<1>4. /\ action \in Terminating => router[w] = NoObs
      /\ latched => action \in {"NO_ACTION", "SAFETY_FAIL"}
      /\ ~latched => OneRow(w) /\ InTune(w)
  BY <1>1, <1>3 DEF Ended, LatchedQuiet, Tuned
<1>5. ~latched => /\ step.observed <=> maker[w] # 0
                  /\ action = "START_OBSERVATION" => maker[w] = 0 /\ router[w] # NoObs
                  /\ action \in {"CONTINUE_OBSERVING", "NO_ACTION"} =>
                       (router[w] # NoObs <=> maker[w] # 0)
  BY <1>1, <1>4 DEF InTune
<1>6. ~(action = "CROSS_SPREAD" /\ maker[w] = 0 /\ step.observed)
  BY <1>4, <1>5
<1>7. /\ UNCHANGED <<latched, missing>>
      /\ \/ step' = [step EXCEPT !.pc = "start"] /\ action = "START_OBSERVATION"
         \/ step' = [step EXCEPT !.pc = "update"] /\ action = "CONTINUE_OBSERVING"
         \/ step' = [step EXCEPT !.pc = "finish"] /\ action \in Terminating /\ maker[w] # 0
         \/ step' = [pc |-> "cross", w |-> w, of |-> 0] /\ action = "CROSS_SPREAD" /\ maker[w] = 0
         \/ /\ step' = Rest /\ action # "START_OBSERVATION"
            /\ action \in Terminating => maker[w] = 0
  BY <1>6 DEF EvidencePersisted, Terminating
<1> DEFINE Moves == /\ step' \in Evaluation /\ step'.w = w /\ step'.action = action
<1>8. \/ step'.pc = "start" /\ Moves /\ action = "START_OBSERVATION"
      \/ step'.pc = "update" /\ Moves /\ action = "CONTINUE_OBSERVING"
      \/ step'.pc = "finish" /\ Moves /\ action \in Terminating /\ maker[w] # 0
      \/ step'.pc = "cross" /\ step' \in Crossing /\ step'.of = 0 /\ action = "CROSS_SPREAD" /\ maker[w] = 0
      \/ step'.pc = "rest" /\ step' = Rest /\ action # "START_OBSERVATION"
           /\ (action \in Terminating => maker[w] = 0)
  <2>1. \A p \in {"start", "update", "finish"} :
          /\ [step EXCEPT !.pc = p] \in Evaluation /\ [step EXCEPT !.pc = p].w = w
          /\ [step EXCEPT !.pc = p].action = action /\ [step EXCEPT !.pc = p].pc = p
    BY <1>1 DEF Evaluation
  <2>2. /\ [pc |-> "cross", w |-> w, of |-> 0].pc = "cross" /\ [pc |-> "cross", w |-> w, of |-> 0].of = 0
        /\ [pc |-> "cross", w |-> w, of |-> 0] \in Crossing
    <3>1. 0 \in 0..MaxObs
      BY FlowBounds
    <3> QED
      BY <1>1, <3>1 DEF Crossing
  <2> QED
    BY <1>7, <2>1, <2>2, RestFields
<1> HIDE DEF w, action
<1>9. /\ FlowTables' /\ missing' = FALSE /\ Now' = Now /\ Up' = Up
      /\ \A s : Unfinished(s)' = Unfinished(s)
      /\ \A o, v, s : Crossed(o, v, s)' = Crossed(o, v, s)
      /\ \A n \in DOMAIN bought : bought[n].of # 0 => Crossed(bought[n].of, bought[n].w, bought[n].by)'
  BY <1>2, <1>7, SameTables
<1>10. FlowPlain'
  <2>1. lastAction' \in [EntryWindows -> RouterActions \cup {""}]
    BY <1>1, <1>2 DEF FlowPlain
  <2> QED
    BY <1>2, <1>3, <1>7, <1>8, <1>9, <2>1 DEF FlowPlain
<1>11. Backed'
  BY <1>2, <1>8, <1>9 DEF Backed
<1>12. Blocking'
  BY <1>2, <1>8, <1>9 DEF Blocking
<1>13. \A v \in EntryWindows : Closing(v)' => Closing(v)
  BY <1>1, <1>8 DEF Closing, w, action
<1>14. MakerKnown'
  BY <1>2, <1>9, <1>13 DEF MakerKnown
<1>15. Ended'
  BY <1>2, <1>4, <1>8 DEF Ended
<1>16. LateFinish'
  BY <1>2, <1>9, <1>13, LateStays
<1>17. LatchedQuiet'
  BY <1>4, <1>7, <1>8 DEF LatchedQuiet, Terminating
<1>18. Tuned'
  <2> SUFFICES ASSUME ~latched
               PROVE  lateCmds' = << >> /\ \A v \in EntryWindows : OneRow(v)' /\ InTune(v)' /\ StartSeen(v)'
    BY <1>7 DEF Tuned
  <2>1. lateCmds' = << >> /\ \A v \in EntryWindows : OneRow(v)'
    BY <1>2, <1>3, <1>9 DEF Tuned, OneRow
  <2>2. \A v \in EntryWindows : v # w =>
          /\ router[v] # NoObs <=> maker[v] # 0
          /\ lastAction[v] # "START_OBSERVATION" \/ router[v] # NoObs
    BY <1>1, <1>3 DEF Tuned, InTune, StartSeen, w
  <2>3. \A v \in EntryWindows : InTune(v)'
    <3> SUFFICES ASSUME NEW v \in EntryWindows PROVE InTune(v)'
      OBVIOUS
    <3>1. CASE v # w
      BY <1>2, <1>8, <2>2, <3>1 DEF InTune
    <3>2. CASE v = w
      BY <1>1, <1>2, <1>4, <1>5, <1>8, <3>2 DEF InTune, Terminating, RouterActions
    <3> QED
      BY <3>1, <3>2
  <2>4. \A v \in EntryWindows : StartSeen(v)'
    <3> SUFFICES ASSUME NEW v \in EntryWindows PROVE StartSeen(v)'
      OBVIOUS
    <3>1. lastAction'[v] = IF v = w THEN action ELSE lastAction[v]
      BY <1>1, <1>2 DEF FlowPlain
    <3> QED
      BY <1>2, <1>5, <2>2, <3>1 DEF StartSeen
  <2> QED
    BY <2>1, <2>3, <2>4
<1> QED
  BY <1>9, <1>10, <1>11, <1>12, <1>14, <1>15, <1>16, <1>17, <1>18

-----------------------------------------------------------------------------
\* A row is added: an observation of this session begins.
RowAdded(w) == obs' = Append(obs, [w |-> w, by |-> Now, outcome |-> "open"])

\* An open row of this session gets its outcome.
RowClosed(o, action) == obs' = [obs EXCEPT ![o].outcome = action]

\* The tables after it: the new row is the only difference
RowJoins(w) ==
  /\ DOMAIN obs' = DOMAIN obs \cup {Len(obs) + 1} /\ Len(obs) + 1 \notin DOMAIN obs
  /\ \A o \in DOMAIN obs : obs'[o] = obs[o]
  /\ obs'[Len(obs) + 1].w = w /\ obs'[Len(obs) + 1].by = Now
  /\ obs'[Len(obs) + 1].outcome = "open"

RowCloses(o, action) ==
  /\ DOMAIN obs' = DOMAIN obs
  /\ \A p \in DOMAIN obs : obs'[p].w = obs[p].w /\ obs'[p].by = obs[p].by
  /\ \A p \in DOMAIN obs : p # o => obs'[p].outcome = obs[p].outcome
  /\ obs'[o].outcome = action

LEMMA RowAddedShape ==
  ASSUME FlowPlain, FlowTables, Up, NEW w \in EntryWindows, Len(obs) < MaxObs, RowAdded(w),
         UNCHANGED <<bought, session>>
  PROVE  FlowTables' /\ RowJoins(w) /\ Len(obs) + 1 \in 1..MaxObs
<1> DEFINE row == [w |-> w, by |-> Now, outcome |-> "open"]
<1>1. /\ obs \in Seq(ObsRow) /\ obs' = Append(obs, row) /\ row \in ObsRow
      /\ row.w = w /\ row.by = Now /\ row.outcome = "open" /\ Len(obs) \in Nat /\ Now \in Nat
      /\ DOMAIN obs = 1..Len(obs)
  BY UpNow, LenProperties DEF FlowTables, RowAdded, ObsRow
<1> HIDE DEF row
<1>2. /\ obs' \in Seq(ObsRow) /\ Len(obs') = Len(obs) + 1 /\ DOMAIN obs' = 1..(Len(obs) + 1)
      /\ \A o \in 1..Len(obs) : obs'[o] = obs[o]
      /\ obs'[Len(obs) + 1] = row
  BY <1>1, AppendProperties, LenProperties
<1>3. RowJoins(w)
  BY <1>1, <1>2 DEF RowJoins
<1>4. Now' = Now /\ session' = session /\ bought' = bought
  BY DEF Now
<1>5. FlowTables'
  <2>1. \A o \in DOMAIN obs' : o \in DOMAIN obs \/ o = Len(obs) + 1
    BY <1>1, <1>2
  <2>2. Len(obs') <= MaxObs
    BY <1>1, <1>2, FlowBounds
  <2>3. \A o \in DOMAIN obs' : obs'[o].by <= Now
    BY <1>1, <1>2, <2>1 DEF FlowTables
  <2>4. \A o \in DOMAIN obs' : obs'[o].outcome = "ABANDONED" => session[obs'[o].by] # "live"
    BY <1>1, <1>2, <2>1 DEF FlowTables
  <2> QED
    BY <1>2, <1>4, <2>2, <2>3, <2>4 DEF FlowTables
<1>6. Len(obs) + 1 \in 1..MaxObs
  BY <1>1, FlowBounds
<1> QED
  BY <1>3, <1>5, <1>6

LEMMA RowClosedShape ==
  ASSUME FlowPlain, FlowTables, Up, NEW o \in DOMAIN obs, NEW action \in RouterActions,
         RowClosed(o, action), UNCHANGED <<bought, session>>
  PROVE  FlowTables' /\ RowCloses(o, action)
<1>1. /\ obs \in Seq(ObsRow) /\ Len(obs) \in Nat /\ DOMAIN obs = 1..Len(obs)
      /\ \A p \in DOMAIN obs : obs[p] \in ObsRow
  BY LenProperties, ElementOfSeq DEF FlowTables
<1> DEFINE row == [obs[o] EXCEPT !.outcome = action]
<1>2. /\ row \in ObsRow /\ row.w = obs[o].w /\ row.by = obs[o].by /\ row.outcome = action
  BY <1>1 DEF ObsRow
<1>3. obs' = [obs EXCEPT ![o] = row]
  BY DEF RowClosed
<1> HIDE DEF row
<1>4. /\ obs' \in Seq(ObsRow) /\ Len(obs') = Len(obs) /\ DOMAIN obs' = DOMAIN obs
      /\ \A p \in DOMAIN obs : obs'[p] = IF p = o THEN row ELSE obs[p]
  BY <1>1, <1>2, <1>3, ExceptSeq
<1>5. RowCloses(o, action)
  BY <1>2, <1>4 DEF RowCloses
<1>6. Now' = Now /\ session' = session /\ bought' = bought
  BY DEF Now
<1>7. FlowTables'
  <2>1. \A p \in DOMAIN obs' : obs'[p].by <= Now
    BY <1>5 DEF FlowTables, RowCloses
  <2>2. \A p \in DOMAIN obs' : obs'[p].outcome = "ABANDONED" => session[obs'[p].by] # "live"
    BY <1>5 DEF FlowTables, RowCloses, RouterActions
  <2> QED
    BY <1>4, <1>6, <2>1, <2>2 DEF FlowTables
<1> QED
  BY <1>5, <1>7

\* What either leaves of the crosses and of the unfinished rows
LEMMA RowsKept ==
  ASSUME FlowPlain, FlowTables, UNCHANGED session,
         \/ \E w \in EntryWindows : RowJoins(w)
         \/ \E o \in DOMAIN obs, action \in RouterActions :
              RowCloses(o, action) /\ obs[o].outcome = "open"
  PROVE  /\ Now' = Now /\ Up' = Up
         /\ \A o, w, s : Crossed(o, w, s) => Crossed(o, w, s)'
         /\ Unfinished(1..(Now - 1)) = {} => Unfinished(1..(Now - 1))' = {}
         /\ \A o \in DOMAIN obs : o \in DOMAIN obs' /\ obs'[o].w = obs[o].w /\ obs'[o].by = obs[o].by
<1>1. Now' = Now /\ Up' = Up /\ Now \in Nat
  BY LenProperties DEF Now, Up, FlowPlain
<1>2. CASE \E w \in EntryWindows : RowJoins(w)
  <2>1. PICK w \in EntryWindows : RowJoins(w)
    BY <1>2
  <2>2. \A o, v, s : Crossed(o, v, s) => Crossed(o, v, s)'
    BY <2>1 DEF RowJoins, Crossed
  <2>3. Unfinished(1..(Now - 1)) = {} => Unfinished(1..(Now - 1))' = {}
    <3>1. Now \notin 1..(Now - 1) /\ (1..(Now - 1))' = 1..(Now - 1)
      BY <1>1
    <3> QED
      BY <2>1, <3>1 DEF RowJoins, Unfinished
  <2> QED
    BY <1>1, <2>1, <2>2, <2>3 DEF RowJoins
<1>3. CASE \E o \in DOMAIN obs, action \in RouterActions :
             RowCloses(o, action) /\ obs[o].outcome = "open"
  <2>1. PICK o \in DOMAIN obs, action \in RouterActions :
          RowCloses(o, action) /\ obs[o].outcome = "open"
    BY <1>3
  <2>2. \A p, v, s : Crossed(p, v, s) => Crossed(p, v, s)'
    BY <2>1 DEF RowCloses, Crossed
  <2>3. Unfinished(1..(Now - 1)) = {} => Unfinished(1..(Now - 1))' = {}
    BY <1>1, <2>1 DEF RowCloses, Unfinished, RouterActions
  <2> QED
    BY <1>1, <2>1, <2>2, <2>3 DEF RowCloses
<1> QED
  BY <1>2, <1>3

LEMMA StartedKeeps == ASSUME FlowInv, ObservationStarted PROVE FlowInv'
<1> USE DEF FlowInv
<1> DEFINE w == step.w
           o == Len(obs) + 1
<1>1. /\ step.pc = "start" /\ w \in EntryWindows /\ step # Rest /\ Len(obs) < MaxObs
      /\ UNCHANGED <<router, lastAction, entering, capacity, latched, foreign, lateCmds,
                     faulty, remaining, session, missing>>
      /\ step' = Rest /\ step'.pc = "rest" /\ maker' = [maker EXCEPT ![w] = o]
  BY StepShape, RestFields DEF ObservationStarted, Answerable
<1>2. RowAdded(w) /\ UNCHANGED bought
  <2>1. Awaited = [kind |-> "start", w |-> w, by |-> Now]
    BY <1>1 DEF Awaited
  <2>2. Applied(Awaited)
    BY DEF ObservationStarted
  <2> QED
    BY <2>1, <2>2 DEF Applied, RowAdded
<1>3. Up /\ ~latched
  BY <1>1 DEF FlowPlain, LatchedQuiet
<1>4. FlowTables' /\ RowJoins(w) /\ o \in 1..MaxObs
  BY <1>1, <1>2, <1>3, RowAddedShape
<1>5. /\ Now' = Now /\ Up' = Up
      /\ \A p, v, s : Crossed(p, v, s) => Crossed(p, v, s)'
      /\ Unfinished(1..(Now - 1)) = {} => Unfinished(1..(Now - 1))' = {}
      /\ \A p \in DOMAIN obs : p \in DOMAIN obs' /\ obs'[p].w = obs[p].w /\ obs'[p].by = obs[p].by
  BY <1>1, <1>4, RowsKept
<1>6. lateCmds = << >> /\ \A v \in EntryWindows : OneRow(v) /\ InTune(v) /\ StartSeen(v)
  BY <1>3 DEF Tuned
<1>7. maker[w] = 0 /\ router[w] # NoObs
  BY <1>1, <1>6 DEF InTune
<1>8. /\ maker' \in [EntryWindows -> 0..MaxObs] /\ maker'[w] = o
      /\ \A v \in EntryWindows : v # w => maker'[v] = maker[v]
  <2>1. o \in 0..MaxObs
    BY <1>4, FlowBounds
  <2>2. maker \in [EntryWindows -> 0..MaxObs] /\ w \in EntryWindows /\ maker' = [maker EXCEPT ![w] = o]
    BY <1>1 DEF FlowPlain
  <2> HIDE DEF o, w
  <2> QED
    BY <2>1, <2>2
<1> HIDE DEF w
<1>9. FlowPlain'
  BY <1>1, <1>5, <1>6, <1>8 DEF FlowPlain
<1>10. Backed'
  BY <1>1, <1>2, <1>5, <1>6 DEF Backed
<1>11. Blocking'
  BY <1>1, <1>2, <1>5, <1>6 DEF Blocking
<1>12. MakerKnown'
  <2>1. \A v \in EntryWindows : ~Closing(v)'
    BY <1>1 DEF Closing
  <2> SUFFICES ASSUME NEW v \in EntryWindows, maker'[v] # 0
               PROVE  /\ maker'[v] \in DOMAIN obs' /\ obs'[maker'[v]].w = v /\ obs'[maker'[v]].by = Now
                      /\ router[v] # NoObs => obs'[maker'[v]].outcome = "open"
    BY <1>1, <1>5, <2>1 DEF MakerKnown
  <2>2. CASE v = w
    BY <1>4, <1>8, <2>2 DEF RowJoins
  <2>3. CASE v # w
    BY <1>3, <1>4, <1>8, <2>3 DEF RowJoins, MakerKnown
  <2> QED
    BY <2>2, <2>3
<1>13. Ended' /\ LatchedQuiet'
  BY <1>1, <1>3 DEF Ended, LatchedQuiet
<1>14. LateFinish'
  BY <1>1, <1>6 DEF LateFinish
<1>15. Tuned'
  <2> SUFFICES ASSUME NEW v \in EntryWindows PROVE OneRow(v)' /\ InTune(v)' /\ StartSeen(v)'
    BY <1>1, <1>6 DEF Tuned
  <2>1. Unfinished({Now})' = Unfinished({Now}) \cup {o}
    BY <1>4, <1>5 DEF RowJoins, Unfinished
  <2>2. \A p \in Unfinished({Now}) : obs'[p].w = obs[p].w
    BY <1>5 DEF Unfinished
  <2>3. /\ {p \in Unfinished({Now}) : obs[p].w = v} = {maker[v]} \ {0}
        /\ {p \in Unfinished({Now}) : obs[p].w = w} = {maker[w]} \ {0}
    BY <1>1, <1>6 DEF OneRow
  <2>4. obs'[o].w = w
    BY <1>4 DEF RowJoins
  <2>5. o # 0
    BY <1>4
  <2> HIDE DEF o
  <2>6. {p \in Unfinished({Now}) \cup {o} : obs'[p].w = v} = {maker'[v]} \ {0}
    <3>1. CASE v = w
      <4>1. \A p \in Unfinished({Now}) : obs[p].w # w
        BY <1>7, <2>3
      <4>2. {p \in Unfinished({Now}) \cup {o} : obs'[p].w = v} = {o}
        BY <2>2, <2>4, <3>1, <4>1
      <4> QED
        BY <1>8, <2>5, <3>1, <4>2
    <3>2. CASE v # w
      BY <1>8, <2>2, <2>3, <2>4, <3>2
    <3> QED
      BY <3>1, <3>2
  <2>7. OneRow(v)'
    BY <1>5, <2>1, <2>6 DEF OneRow
  <2>8. InTune(v)'
    BY <1>1, <1>6, <1>7, <1>8, <2>5 DEF InTune, w
  <2>9. StartSeen(v)'
    BY <1>1, <1>6, <1>7 DEF StartSeen
  <2> QED
    BY <2>7, <2>8, <2>9
<1> QED
  BY <1>1, <1>4, <1>9, <1>10, <1>11, <1>12, <1>13, <1>14, <1>15

LEMMA FinishedKeeps == ASSUME FlowInv, ObservationFinished PROVE FlowInv'
<1> USE DEF FlowInv
<1>0. PICK w, o, action : w = step.w /\ o = maker[w] /\ action = step.action
  OBVIOUS
<1>1. /\ step.pc = "finish" /\ w \in EntryWindows /\ action \in RouterActions /\ step # Rest
      /\ \A n \in DOMAIN lateCmds : lateCmds[n].w # w
      /\ UNCHANGED <<router, lastAction, entering, capacity, latched, foreign, lateCmds,
                     faulty, remaining, session, missing>>
      /\ maker' = [maker EXCEPT ![w] = 0]
      /\ step' = IF action = "CROSS_SPREAD" THEN [pc |-> "cross", w |-> w, of |-> o] ELSE Rest
  BY <1>0, StepShape DEF ObservationFinished, Answerable
<1>2. RowClosed(o, action) /\ UNCHANGED bought
  <2>1. Awaited = [kind |-> "finish", w |-> w, by |-> Now, of |-> o, action |-> action]
    BY <1>0, <1>1 DEF Awaited
  <2>2. Applied(Awaited)
    BY DEF ObservationFinished
  <2> QED
    BY <2>1, <2>2 DEF Applied, RowClosed
<1>3. Up
  BY <1>1 DEF FlowPlain
<1>4. action \in Terminating /\ router[w] = NoObs /\ o # 0
  BY <1>0, <1>1 DEF Ended
<1>5. /\ o \in DOMAIN obs /\ obs[o].w = w /\ obs[o].by = Now /\ obs[o].outcome = "open"
      /\ o \in 0..MaxObs
  BY <1>0, <1>1, <1>3, <1>4 DEF MakerKnown, Closing, Terminating, FlowPlain
<1>6. latched => action = "SAFETY_FAIL"
  BY <1>0, <1>1 DEF LatchedQuiet
<1>7. FlowTables' /\ RowCloses(o, action)
  BY <1>1, <1>2, <1>3, <1>5, RowClosedShape
<1>8. /\ Now' = Now /\ Up' = Up
      /\ \A p, v, s : Crossed(p, v, s) => Crossed(p, v, s)'
      /\ Unfinished(1..(Now - 1)) = {} => Unfinished(1..(Now - 1))' = {}
      /\ \A p \in DOMAIN obs : p \in DOMAIN obs' /\ obs'[p].w = obs[p].w /\ obs'[p].by = obs[p].by
  BY <1>1, <1>5, <1>7, RowsKept
<1>9. /\ maker' \in [EntryWindows -> 0..MaxObs] /\ maker'[w] = 0
      /\ \A v \in EntryWindows : v # w => maker'[v] = maker[v]
  <2>1. 0 \in 0..MaxObs
    BY FlowBounds
  <2> QED
    BY <1>1, <2>1 DEF FlowPlain
<1>10. \/ /\ action = "CROSS_SPREAD" /\ step' \in Crossing /\ step'.pc = "cross"
          /\ step'.w = w /\ step'.of = o /\ ~latched
       \/ step' = Rest /\ step'.pc = "rest"
  <2>1. /\ [pc |-> "cross", w |-> w, of |-> o] \in Crossing
        /\ [pc |-> "cross", w |-> w, of |-> o].pc = "cross" /\ [pc |-> "cross", w |-> w, of |-> o].w = w
        /\ [pc |-> "cross", w |-> w, of |-> o].of = o
    BY <1>1, <1>5 DEF Crossing
  <2> QED
    BY <1>1, <1>6, <2>1, RestFields
<1>11. Closing(w)
  BY <1>0, <1>1, <1>4 DEF Closing, Terminating
<1>12. \A v \in EntryWindows : v # w /\ maker[v] # 0 => maker[v] # o
  BY <1>3, <1>5 DEF MakerKnown
<1>13. FlowPlain'
  BY <1>1, <1>3, <1>8, <1>9, <1>10 DEF FlowPlain
<1>14. Backed'
  <2>1. action = "CROSS_SPREAD" => Crossed(o, w, Now)'
    BY <1>5, <1>7, <1>8 DEF Crossed, RowCloses
  <2>2. (step.pc \in {"cross", "enter"} /\ step.of # 0 => Crossed(step.of, step.w, Now))'
    BY <1>8, <1>10, <2>1
  <2> QED
    BY <1>1, <1>2, <1>8, <2>2 DEF Backed
<1>15. Blocking'
  BY <1>1, <1>2, <1>8, <1>10 DEF Blocking
<1>16. \A v \in EntryWindows : ~Closing(v)'
  BY <1>10 DEF Closing
<1>17. MakerKnown'
  <2> SUFFICES ASSUME NEW v \in EntryWindows, maker'[v] # 0
               PROVE  /\ maker'[v] \in DOMAIN obs' /\ obs'[maker'[v]].w = v /\ obs'[maker'[v]].by = Now
                      /\ router[v] # NoObs => obs'[maker'[v]].outcome = "open"
    BY <1>1, <1>8, <1>16 DEF MakerKnown
  <2>1. v # w /\ maker'[v] = maker[v] /\ maker[v] # o
    BY <1>0, <1>9, <1>12
  <2>2. /\ maker[v] \in DOMAIN obs /\ obs[maker[v]].w = v /\ obs[maker[v]].by = Now
        /\ router[v] # NoObs => obs[maker[v]].outcome = "open"
    BY <1>3, <1>9, <2>1 DEF MakerKnown
  <2> QED
    BY <1>7, <1>8, <2>1, <2>2 DEF RowCloses
<1>18. Ended' /\ LatchedQuiet'
  BY <1>1, <1>10 DEF Ended, LatchedQuiet
<1>19. LateFinish'
  <2>1. ASSUME NEW n \in DOMAIN lateCmds, lateCmds[n].kind = "finish" PROVE OnlyFinish(lateCmds[n])'
    <3>1. lateCmds[n].w \in EntryWindows /\ OnlyFinish(lateCmds[n]) /\ lateCmds[n].w # w
      BY <1>1, <2>1, LateShape DEF LateFinish
    <3>2. lateCmds[n].of = maker[lateCmds[n].w] /\ lateCmds[n].of # 0 /\ lateCmds[n].of # o
      BY <1>12, <3>1 DEF OnlyFinish
    <3>3. lateCmds[n].of \in DOMAIN obs
      BY <1>3, <3>1, <3>2 DEF MakerKnown
    <3> QED
      BY <1>1, <1>7, <1>9, <1>16, <3>1, <3>2, <3>3 DEF OnlyFinish, RowCloses
  <2>2. \A n \in DOMAIN lateCmds : lateCmds[n].kind = "finish" => OnlyFinish(lateCmds[n])'
    BY <2>1
  <2>3. /\ \A n \in DOMAIN lateCmds : lateCmds[n].by = Now
        /\ \A m, n \in DOMAIN lateCmds :
             m # n /\ lateCmds[m].kind = "finish" /\ lateCmds[n].kind = "finish" =>
               lateCmds[m].w # lateCmds[n].w
    BY DEF LateFinish
  <2>4. lateCmds' = lateCmds /\ Now' = Now
    BY <1>1, <1>8
  <2> QED
    BY ONLY <2>2, <2>3, <2>4 DEF LateFinish
<1>20. Tuned'
  <2> SUFFICES ASSUME ~latched, NEW v \in EntryWindows
               PROVE  lateCmds' = << >> /\ OneRow(v)' /\ InTune(v)' /\ StartSeen(v)'
    BY <1>1, <1>3 DEF Tuned
  <2>1. lateCmds = << >> /\ OneRow(v) /\ InTune(v) /\ StartSeen(v) /\ OneRow(w)
    BY <1>1, <1>3 DEF Tuned
  <2>2. Unfinished({Now})' = Unfinished({Now}) \ {o}
    BY <1>5, <1>7, <1>8, <1>4 DEF RowCloses, Unfinished, Terminating
  <2>3. \A p \in Unfinished({Now}) : obs'[p].w = obs[p].w
    BY <1>8 DEF Unfinished
  <2>4. /\ {p \in Unfinished({Now}) : obs[p].w = v} = {maker[v]} \ {0}
        /\ {p \in Unfinished({Now}) : obs[p].w = w} = {o} \ {0}
    BY <1>0, <2>1 DEF OneRow
  <2>5. v # w => maker[v] # o
    BY <1>4, <1>12
  <2>6. v # w => maker'[v] = maker[v]
    BY <1>0, <1>9
  <2>7. v = w => maker[v] = o /\ maker'[v] = 0
    BY <1>0, <1>9
  <2>8. {p \in Unfinished({Now}) \ {o} : obs'[p].w = v} = {maker'[v]} \ {0}
    <3>1. CASE v = w
      BY <2>3, <2>4, <2>7, <3>1
    <3>2. CASE v # w
      BY <2>3, <2>4, <2>5, <2>6, <3>2
    <3> QED
      BY <3>1, <3>2
  <2>9. OneRow(v)'
    BY <1>8, <2>2, <2>8 DEF OneRow
  <2>10. InTune(v)'
    BY <1>0, <1>1, <1>4, <1>10, <2>1, <2>6, <2>7 DEF InTune
  <2>11. StartSeen(v)'
    BY <1>1, <2>1 DEF StartSeen
  <2> QED
    BY <1>1, <2>1, <2>9, <2>10, <2>11
<1> QED
  BY <1>1, <1>7, <1>13, <1>14, <1>15, <1>17, <1>18, <1>19, <1>20

-----------------------------------------------------------------------------
\* The entry of a window is bought unless the window has one.
Bought(w, of) ==
  bought' = IF \E n \in DOMAIN bought : bought[n].w = w THEN bought
            ELSE Append(bought, [w |-> w, by |-> Now, of |-> of])

LEMMA PurchaseShape ==
  ASSUME FlowPlain, FlowTables, Backed, Up, NEW w \in EntryWindows, NEW of \in 0..MaxObs, Bought(w, of),
         UNCHANGED <<obs, session>>, of # 0 => Crossed(of, w, Now)
  PROVE  /\ FlowTables' /\ Now' = Now /\ Up' = Up
         /\ \A s : Unfinished(s)' = Unfinished(s)
         /\ \A o, v, s : Crossed(o, v, s)' = Crossed(o, v, s)
         /\ (\A n \in DOMAIN bought : bought[n].of # 0 => Crossed(bought[n].of, bought[n].w, bought[n].by))'
<1>1. /\ Now' = Now /\ Up' = Up /\ (\A s : Unfinished(s)' = Unfinished(s))
      /\ \A o, v, s : Crossed(o, v, s)' = Crossed(o, v, s)
  BY DEF Now, Up, Unfinished, Crossed
<1>2. \A n \in DOMAIN bought : bought[n].of # 0 => Crossed(bought[n].of, bought[n].w, bought[n].by)
  BY DEF Backed
<1>3. CASE \E n \in DOMAIN bought : bought[n].w = w
  <2>1. bought' = bought
    BY <1>3 DEF Bought
  <2> QED
    BY <1>1, <1>2, <2>1 DEF FlowTables
<1>4. CASE \A n \in DOMAIN bought : bought[n].w # w
  <2> DEFINE row == [w |-> w, by |-> Now, of |-> of]
  <2>1. /\ bought \in Seq(Purchase) /\ bought' = Append(bought, row) /\ row \in Purchase
        /\ row.w = w /\ row.by = Now /\ row.of = of
        /\ Len(bought) \in Nat /\ DOMAIN bought = 1..Len(bought) /\ Now \in Nat
    BY <1>4, UpNow, LenProperties DEF FlowTables, Purchase, Bought
  <2> HIDE DEF row
  <2>2. /\ bought' \in Seq(Purchase) /\ DOMAIN bought' = 1..(Len(bought) + 1)
        /\ \A n \in 1..Len(bought) : bought'[n] = bought[n]
        /\ bought'[Len(bought) + 1] = row
    BY <2>1, AppendProperties, LenProperties
  <2>3. \A n \in DOMAIN bought' : n \in DOMAIN bought \/ (n = Len(bought) + 1 /\ bought'[n] = row)
    BY <2>1, <2>2
  <2>4. \A n \in DOMAIN bought' : bought'[n].by <= Now
    BY <2>1, <2>2, <2>3 DEF FlowTables
  <2>5. \A m, n \in DOMAIN bought' : m # n => bought'[m].w # bought'[n].w
    BY <1>4, <2>1, <2>2, <2>3 DEF FlowTables
  <2>6. FlowTables'
    BY <1>1, <2>2, <2>4, <2>5 DEF FlowTables
  <2>7. \A n \in DOMAIN bought' : bought'[n].of # 0 => Crossed(bought'[n].of, bought'[n].w, bought'[n].by)
    BY <1>2, <2>1, <2>2, <2>3
  <2>8. (\A n \in DOMAIN bought : bought[n].of # 0 => Crossed(bought[n].of, bought[n].w, bought[n].by))'
    BY <2>7 DEF Crossed
  <2> QED
    BY <1>1, <2>6, <2>8
<1> QED
  BY <1>3, <1>4

LEMMA BoughtKeeps == ASSUME FlowInv, EntryBought PROVE FlowInv'
<1> USE DEF FlowInv
<1>1. /\ step.pc = "enter" /\ step.w \in EntryWindows /\ step.of \in 0..MaxObs /\ step # Rest
      /\ UNCHANGED <<router, maker, lastAction, capacity, latched, foreign, lateCmds,
                     faulty, remaining, session, missing>>
      /\ step' = Rest /\ step'.pc = "rest" /\ entering' = entering \cup {step.w}
  BY StepShape, RestFields DEF EntryBought, Answerable
<1>2. Bought(step.w, step.of) /\ UNCHANGED obs
  <2>1. Awaited = [kind |-> "enter", w |-> step.w, by |-> Now, of |-> step.of]
    BY <1>1 DEF Awaited
  <2>2. Applied(Awaited)
    BY DEF EntryBought
  <2> QED
    BY <2>1, <2>2 DEF Applied, Bought
<1>3. Up /\ ~latched /\ ~foreign /\ lateCmds = << >>
  BY <1>1 DEF FlowPlain, LatchedQuiet, Blocking, Tuned
<1>4. step.of # 0 => Crossed(step.of, step.w, Now)
  BY <1>1 DEF Backed
<1>5. /\ FlowTables' /\ Now' = Now /\ Up' = Up
      /\ \A s : Unfinished(s)' = Unfinished(s)
      /\ (\A n \in DOMAIN bought : bought[n].of # 0 => Crossed(bought[n].of, bought[n].w, bought[n].by))'
  BY <1>1, <1>2, <1>3, <1>4, PurchaseShape
<1>6. FlowPlain'
  BY <1>1, <1>3, <1>5 DEF FlowPlain
<1>7. Backed'
  BY <1>1, <1>3, <1>5 DEF Backed
<1>8. Blocking'
  BY <1>1, <1>3, <1>5 DEF Blocking
<1>9. \A v \in EntryWindows : ~Closing(v)' /\ ~Closing(v)
  BY <1>1 DEF Closing
<1>10. MakerKnown'
  BY <1>1, <1>2, <1>5, <1>9 DEF MakerKnown
<1>11. Ended' /\ LatchedQuiet' /\ LateFinish'
  BY <1>1, <1>3 DEF Ended, LatchedQuiet, LateFinish
<1>12. Tuned'
  <2>1. \A v \in EntryWindows : OneRow(v) /\ InTune(v) /\ StartSeen(v)
    BY <1>3 DEF Tuned
  <2>2. \A v \in EntryWindows : OneRow(v)'
    BY <1>1, <1>2, <1>5, <2>1 DEF OneRow
  <2>3. \A v \in EntryWindows : InTune(v)' /\ StartSeen(v)'
    BY <1>1, <2>1 DEF InTune, StartSeen
  <2> QED
    BY <1>1, <1>3, <2>2, <2>3 DEF Tuned
<1> QED
  BY <1>1, <1>5, <1>6, <1>7, <1>8, <1>10, <1>11, <1>12

\* Commands given up are kept in order; only the first can leave.
LEMMA LateGoes ==
  ASSUME FlowPlain, lateCmds # << >>, lateCmds' = Tail(lateCmds)
  PROVE  /\ lateCmds' \in Seq(Command) /\ Head(lateCmds) = lateCmds[1] /\ 1 \in DOMAIN lateCmds
         /\ \A n \in DOMAIN lateCmds' : n + 1 \in DOMAIN lateCmds /\ n + 1 # 1 /\ lateCmds'[n] = lateCmds[n + 1]
         /\ DOMAIN lateCmds' \subseteq Nat
<1>1. lateCmds \in Seq(Command)
  BY DEF FlowPlain
<1>2. /\ Tail(lateCmds) \in Seq(Command) /\ Len(Tail(lateCmds)) = Len(lateCmds) - 1
      /\ \A i \in 1..Len(Tail(lateCmds)) : Tail(lateCmds)[i] = lateCmds[i + 1]
  BY <1>1, HeadTailProperties
<1>3. Len(lateCmds) \in Nat \ {0} /\ DOMAIN lateCmds = 1..Len(lateCmds)
  BY <1>1, EmptySeq, LenProperties
<1>4. DOMAIN lateCmds' = 1..(Len(lateCmds) - 1)
  BY <1>2, LenProperties
<1>5. Head(lateCmds) = lateCmds[1]
  BY <1>1
<1> QED
  BY <1>2, <1>3, <1>4, <1>5

\* The late commands after one left, when the tables the finishes are about stay
LEMMA LateShrinks ==
  ASSUME FlowInv, lateCmds # << >>, lateCmds' = Tail(lateCmds), Now' = Now,
         \A n \in DOMAIN lateCmds, c \in Command :
           n # 1 /\ c = lateCmds[n] /\ c.kind = "finish" => OnlyFinish(c)'
  PROVE  LateFinish'
<1> USE DEF FlowInv
<1>1. /\ \A n \in DOMAIN lateCmds' : n + 1 \in DOMAIN lateCmds /\ n + 1 # 1 /\ lateCmds'[n] = lateCmds[n + 1]
      /\ DOMAIN lateCmds' \subseteq Nat
  BY LateGoes
<1>2. \A n \in DOMAIN lateCmds : lateCmds[n].by = Now
  BY DEF LateFinish
<1>3. \A m, n \in DOMAIN lateCmds :
        m # n /\ lateCmds[m].kind = "finish" /\ lateCmds[n].kind = "finish" =>
          lateCmds[m].w # lateCmds[n].w
  BY DEF LateFinish
<1>4. (\A n \in DOMAIN lateCmds : lateCmds[n].kind = "finish" => OnlyFinish(lateCmds[n]))'
  <2> SUFFICES ASSUME NEW n \in DOMAIN lateCmds', lateCmds'[n].kind = "finish" PROVE OnlyFinish(lateCmds[n])'
    OBVIOUS
  <2>1. n + 1 \in DOMAIN lateCmds /\ n + 1 # 1 /\ lateCmds'[n] = lateCmds[n + 1]
    BY <1>1
  <2>2. PICK c \in Command : c = lateCmds[n + 1]
    BY <2>1, LateShape
  <2>3. lateCmds'[n] = c /\ c.kind = "finish"
    BY <2>1, <2>2
  <2>4. OnlyFinish(c)'
    BY <2>1, <2>2, <2>3
  <2> QED
    BY <2>3, <2>4 DEF OnlyFinish
<1>5. (\A n \in DOMAIN lateCmds : lateCmds[n].by = Now)'
  BY <1>1, <1>2
<1>6. (\A m, n \in DOMAIN lateCmds :
        m # n /\ lateCmds[m].kind = "finish" /\ lateCmds[n].kind = "finish" =>
          lateCmds[m].w # lateCmds[n].w)'
  <2> SUFFICES ASSUME NEW m \in DOMAIN lateCmds', NEW n \in DOMAIN lateCmds', m # n,
                      lateCmds'[m].kind = "finish", lateCmds'[n].kind = "finish"
               PROVE  lateCmds'[m].w # lateCmds'[n].w
    OBVIOUS
  <2>1. m + 1 # n + 1
    BY <1>1
  <2> QED
    BY <1>1, <1>3, <2>1
<1> QED
  BY ONLY <1>4, <1>5, <1>6 DEF LateFinish

\* A command given up leaves, committed or not: what it may do to the tables
LEMMA LateKeeps ==
  ASSUME FlowInv, lateCmds # << >>, lateCmds' = Tail(lateCmds),
         UNCHANGED <<engineMemory, step, faulty, remaining, session, missing>>,
         FlowTables',
         \A o, w, s : Crossed(o, w, s) => Crossed(o, w, s)',
         (\A n \in DOMAIN bought : bought[n].of # 0 => Crossed(bought[n].of, bought[n].w, bought[n].by))',
         Unfinished(1..(Now - 1)) = {} => Unfinished(1..(Now - 1))' = {},
         foreign => bought' = bought,
         \A w \in EntryWindows : maker[w] # 0 =>
           /\ maker[w] \in DOMAIN obs' /\ obs'[maker[w]].w = w /\ obs'[maker[w]].by = Now
           /\ (router[w] # NoObs \/ Closing(w)) => obs'[maker[w]].outcome = "open",
         \A n \in DOMAIN lateCmds, c \in Command :
           n # 1 /\ c = lateCmds[n] /\ c.kind = "finish" => OnlyFinish(c)'
  PROVE  FlowInv'
<1> USE DEF FlowInv
<1>1. /\ Now' = Now /\ Up' = Up /\ step' = step /\ session' = session /\ missing' = missing /\ remaining' = remaining
      /\ UNCHANGED <<router, maker, lastAction, entering, capacity, latched, foreign>>
  BY DEF Now, Up, engineMemory
<1>2. Up /\ latched
  BY DEF FlowPlain, Tuned
<1>3. /\ lateCmds' \in Seq(Command)
      /\ \A n \in DOMAIN lateCmds' : n + 1 \in DOMAIN lateCmds /\ lateCmds'[n] = lateCmds[n + 1]
  BY LateGoes
<1>4. FlowPlain'
  BY <1>1, <1>2, <1>3 DEF FlowPlain
<1>5. Backed'
  <2>1. (step.pc \in {"cross", "enter"} /\ step.of # 0 => Crossed(step.of, step.w, Now))'
    BY <1>1 DEF Backed
  <2>2. \A n \in DOMAIN lateCmds : lateCmds[n].kind = "enter" /\ lateCmds[n].of # 0 =>
          Crossed(lateCmds[n].of, lateCmds[n].w, Now)
    BY DEF Backed
  <2>3. (\A n \in DOMAIN lateCmds : lateCmds[n].kind = "enter" /\ lateCmds[n].of # 0 =>
          Crossed(lateCmds[n].of, lateCmds[n].w, Now))'
    <3> SUFFICES ASSUME NEW n \in DOMAIN lateCmds', lateCmds'[n].kind = "enter", lateCmds'[n].of # 0
                 PROVE  Crossed(lateCmds[n].of, lateCmds[n].w, Now)'
      OBVIOUS
    <3>1. PICK c : c = lateCmds'[n]
      OBVIOUS
    <3>2. Crossed(c.of, c.w, Now)
      BY <1>3, <2>2, <3>1
    <3>3. PICK s : s = Now
      OBVIOUS
    <3>4. Crossed(c.of, c.w, s)'
      BY <3>2, <3>3
    <3> QED
      BY <1>1, <3>1, <3>3, <3>4 DEF Crossed
  <2> QED
    BY <2>1, <2>3 DEF Backed
<1>6. Blocking'
  <2>1. \A n \in DOMAIN lateCmds' : foreign => lateCmds'[n].kind # "enter"
    BY <1>2, <1>3 DEF Blocking
  <2>2. ~foreign => Unfinished(1..(Now - 1))' = {}
    BY <1>2 DEF Blocking
  <2>3. foreign => /\ \A n \in DOMAIN bought' : bought'[n].by # Now
                   /\ step.pc # "enter"
    BY <1>2 DEF Blocking
  <2> QED
    BY <1>1, <2>1, <2>2, <2>3 DEF Blocking
<1>7. \A w \in EntryWindows : Closing(w)' = Closing(w)
  BY <1>1 DEF Closing
<1>8. MakerKnown'
  BY <1>1, <1>7 DEF MakerKnown
<1>9. Ended' /\ LatchedQuiet' /\ Tuned'
  BY <1>1, <1>2 DEF Ended, LatchedQuiet, Tuned
<1>10. LateFinish'
  BY <1>1, LateShrinks
<1> QED
  BY <1>1, <1>4, <1>5, <1>6, <1>8, <1>9, <1>10

LEMMA DroppedKeeps == ASSUME FlowInv, LateDropped PROVE FlowInv'
<1> USE DEF FlowInv
<1>1. /\ lateCmds # << >> /\ lateCmds' = Tail(lateCmds)
      /\ UNCHANGED <<engineMemory, step, faulty, remaining, session, missing>> /\ UNCHANGED <<obs, bought>>
      /\ UNCHANGED <<router, maker, step, session>>
  BY DEF LateDropped, engineMemory
<1>2. /\ FlowTables' /\ Now' = Now
      /\ \A s : Unfinished(s)' = Unfinished(s)
      /\ \A o, w, s : Crossed(o, w, s)' = Crossed(o, w, s)
      /\ (\A n \in DOMAIN bought : bought[n].of # 0 => Crossed(bought[n].of, bought[n].w, bought[n].by))'
  <2>1. UNCHANGED <<obs, bought, session, missing>>
    BY <1>1
  <2> QED
    BY <2>1, SameTables
<1>3. Up
  BY <1>1 DEF FlowPlain
<1>4. Unfinished(1..(Now - 1)) = {} => Unfinished(1..(Now - 1))' = {}
  BY <1>2
<1>5. \A w \in EntryWindows : maker[w] # 0 =>
        /\ maker[w] \in DOMAIN obs' /\ obs'[maker[w]].w = w /\ obs'[maker[w]].by = Now
        /\ (router[w] # NoObs \/ Closing(w)) => obs'[maker[w]].outcome = "open"
  BY <1>1, <1>3 DEF MakerKnown
<1>6. \A n \in DOMAIN lateCmds, c \in Command :
        n # 1 /\ c = lateCmds[n] /\ c.kind = "finish" => OnlyFinish(c)'
  BY <1>1 DEF LateFinish, OnlyFinish, Closing
<1>7. \A o, w, s : Crossed(o, w, s) => Crossed(o, w, s)'
  BY <1>2
<1> QED
  BY <1>1, <1>2, <1>4, <1>5, <1>6, <1>7, LateKeeps

LEMMA CommittedKeeps == ASSUME FlowInv, LateCommit PROVE FlowInv'
<1> USE DEF FlowInv
<1>1. /\ lateCmds # << >> /\ lateCmds' = Tail(lateCmds) /\ Len(obs) < MaxObs
      /\ UNCHANGED <<engineMemory, step, faulty, remaining, session, missing>>
      /\ UNCHANGED <<router, maker, step, session, foreign>>
      /\ Applied(Head(lateCmds))
  BY DEF LateCommit, engineMemory
<1>2. Up
  BY <1>1 DEF FlowPlain
<1>3. PICK c : c = Head(lateCmds)
  OBVIOUS
<1>4. /\ 1 \in DOMAIN lateCmds /\ c = lateCmds[1] /\ c \in Command /\ c.w \in EntryWindows
      /\ c.kind \in {"start", "finish", "enter"} /\ c.by = Now
      /\ c.kind = "finish" => c.action \in RouterActions /\ OnlyFinish(c)
  <2>1. 1 \in DOMAIN lateCmds /\ c = lateCmds[1]
    BY <1>1, <1>3, LateGoes
  <2>2. lateCmds[1].by = Now /\ (lateCmds[1].kind = "finish" => OnlyFinish(lateCmds[1]))
    BY <2>1 DEF LateFinish
  <2> QED
    BY <2>1, <2>2, LateShape
<1>5. \A v \in EntryWindows : Closing(v)' = Closing(v)
  BY <1>1 DEF Closing
<1>6. \A n \in DOMAIN lateCmds, d \in Command :
        n # 1 /\ d = lateCmds[n] /\ d.kind = "finish" =>
          /\ OnlyFinish(d) /\ d.w \in EntryWindows
          /\ c.kind = "finish" => d.w # c.w
  BY <1>4, LateShape DEF LateFinish
<1>7. \A v \in EntryWindows : maker[v] # 0 =>
        /\ maker[v] \in DOMAIN obs /\ obs[maker[v]].w = v /\ obs[maker[v]].by = Now
        /\ (router[v] # NoObs \/ Closing(v)) => obs[maker[v]].outcome = "open"
  BY <1>2 DEF MakerKnown
<1>8. /\ c.kind = "start" => RowAdded(c.w) /\ UNCHANGED bought
      /\ c.kind = "finish" => RowClosed(c.of, c.action) /\ UNCHANGED bought
      /\ c.kind = "enter" => Bought(c.w, c.of) /\ UNCHANGED obs
  BY <1>1, <1>3, <1>4 DEF Applied, RowAdded, RowClosed, Bought
<1>9. CASE c.kind = "start"
  <2>1. FlowTables' /\ RowJoins(c.w)
    BY <1>1, <1>2, <1>4, <1>8, <1>9, RowAddedShape
  <2>2. /\ Now' = Now /\ Up' = Up
        /\ \A p, v, s : Crossed(p, v, s) => Crossed(p, v, s)'
        /\ Unfinished(1..(Now - 1)) = {} => Unfinished(1..(Now - 1))' = {}
    BY <1>1, <1>4, <2>1, RowsKept
  <2>3. \A w \in EntryWindows : maker[w] # 0 =>
          /\ maker[w] \in DOMAIN obs' /\ obs'[maker[w]].w = w /\ obs'[maker[w]].by = Now
          /\ (router[w] # NoObs \/ Closing(w)) => obs'[maker[w]].outcome = "open"
    BY <1>7, <2>1 DEF RowJoins
  <2>4. \A n \in DOMAIN lateCmds, d \in Command :
          n # 1 /\ d = lateCmds[n] /\ d.kind = "finish" => OnlyFinish(d)'
    <3> SUFFICES ASSUME NEW n \in DOMAIN lateCmds, NEW d \in Command, n # 1, d = lateCmds[n], d.kind = "finish"
                 PROVE  OnlyFinish(d)'
      OBVIOUS
    <3>1. OnlyFinish(d) /\ d.w \in EntryWindows
      BY <1>6
    <3>2. d.of \in DOMAIN obs
      BY <1>7, <3>1 DEF OnlyFinish
    <3> QED
      BY <1>1, <1>5, <2>1, <3>1, <3>2 DEF OnlyFinish, RowJoins
  <2>5. (\A n \in DOMAIN bought : bought[n].of # 0 => Crossed(bought[n].of, bought[n].w, bought[n].by))'
    BY <1>8, <1>9, <2>2 DEF Backed
  <2>6. foreign => bought' = bought
    BY <1>8, <1>9
  <2> QED
    BY <1>1, <2>1, <2>2, <2>3, <2>4, <2>5, <2>6, LateKeeps
<1>10. CASE c.kind = "finish"
  <2>0. OnlyFinish(c) /\ c.action \in RouterActions
    BY <1>4, <1>10
  <2>1. /\ c.of = maker[c.w] /\ c.of # 0 /\ c.of \in DOMAIN obs /\ obs[c.of].outcome = "open"
        /\ obs[c.of].w = c.w /\ router[c.w] = NoObs /\ ~Closing(c.w)
    BY <1>4, <1>7, <2>0 DEF OnlyFinish
  <2>2. FlowTables' /\ RowCloses(c.of, c.action)
    BY <1>1, <1>2, <1>8, <1>10, <2>0, <2>1, RowClosedShape
  <2>3. /\ Now' = Now /\ Up' = Up
        /\ \A p, v, s : Crossed(p, v, s) => Crossed(p, v, s)'
        /\ Unfinished(1..(Now - 1)) = {} => Unfinished(1..(Now - 1))' = {}
    BY <1>1, <2>0, <2>1, <2>2, RowsKept
  <2>4. \A w \in EntryWindows : maker[w] # 0 =>
          /\ maker[w] \in DOMAIN obs' /\ obs'[maker[w]].w = w /\ obs'[maker[w]].by = Now
          /\ (router[w] # NoObs \/ Closing(w)) => obs'[maker[w]].outcome = "open"
    <3> SUFFICES ASSUME NEW w \in EntryWindows, maker[w] # 0
                 PROVE  /\ maker[w] \in DOMAIN obs' /\ obs'[maker[w]].w = w /\ obs'[maker[w]].by = Now
                        /\ (router[w] # NoObs \/ Closing(w)) => obs'[maker[w]].outcome = "open"
      OBVIOUS
    <3>1. maker[w] = c.of => w = c.w
      BY <1>7, <2>1
    <3> QED
      BY <1>7, <2>1, <2>2, <3>1 DEF RowCloses
  <2>5. \A n \in DOMAIN lateCmds, d \in Command :
          n # 1 /\ d = lateCmds[n] /\ d.kind = "finish" => OnlyFinish(d)'
    <3> SUFFICES ASSUME NEW n \in DOMAIN lateCmds, NEW d \in Command, n # 1, d = lateCmds[n], d.kind = "finish"
                 PROVE  OnlyFinish(d)'
      OBVIOUS
    <3>1. OnlyFinish(d) /\ d.w \in EntryWindows /\ d.w # c.w
      BY <1>6, <1>10
    <3>2. d.of \in DOMAIN obs /\ obs[d.of].w = d.w
      BY <1>7, <3>1 DEF OnlyFinish
    <3>3. d.of # c.of
      BY <2>1, <3>1, <3>2
    <3> QED
      BY <1>1, <1>5, <2>2, <3>1, <3>2, <3>3 DEF OnlyFinish, RowCloses
  <2>6. (\A n \in DOMAIN bought : bought[n].of # 0 => Crossed(bought[n].of, bought[n].w, bought[n].by))'
    BY <1>8, <1>10, <2>3 DEF Backed
  <2>7. foreign => bought' = bought
    BY <1>8, <1>10
  <2> QED
    BY <1>1, <2>2, <2>3, <2>4, <2>5, <2>6, <2>7, LateKeeps
<1>11. CASE c.kind = "enter"
  <2>1. c.of \in 0..MaxObs /\ (c.of # 0 => Crossed(c.of, c.w, Now))
    BY <1>4, <1>11 DEF Backed, Command
  <2>2. /\ FlowTables' /\ Now' = Now /\ Up' = Up
        /\ \A s : Unfinished(s)' = Unfinished(s)
        /\ \A o, v, s : Crossed(o, v, s)' = Crossed(o, v, s)
        /\ (\A n \in DOMAIN bought : bought[n].of # 0 => Crossed(bought[n].of, bought[n].w, bought[n].by))'
    BY <1>1, <1>2, <1>4, <1>8, <1>11, <2>1, PurchaseShape
  <2>3. ~foreign
    BY <1>2, <1>4, <1>11 DEF Blocking
  <2>4. /\ \A p, v, s : Crossed(p, v, s) => Crossed(p, v, s)'
        /\ Unfinished(1..(Now - 1)) = {} => Unfinished(1..(Now - 1))' = {}
    BY <2>2
  <2>5. \A w \in EntryWindows : maker[w] # 0 =>
          /\ maker[w] \in DOMAIN obs' /\ obs'[maker[w]].w = w /\ obs'[maker[w]].by = Now
          /\ (router[w] # NoObs \/ Closing(w)) => obs'[maker[w]].outcome = "open"
    BY <1>7, <1>8, <1>11
  <2>6. \A n \in DOMAIN lateCmds, d \in Command :
          n # 1 /\ d = lateCmds[n] /\ d.kind = "finish" => OnlyFinish(d)'
    BY <1>1, <1>5, <1>6, <1>8, <1>11 DEF OnlyFinish
  <2> QED
    BY <1>1, <2>2, <2>3, <2>4, <2>5, <2>6, LateKeeps
<1> QED
  BY <1>4, <1>9, <1>10, <1>11

LEMMA FailsKeeps == ASSUME FlowInv, CommandFails PROVE FlowInv'
<1> USE DEF FlowInv
<1>1. /\ step.pc \in {"evidence", "start", "update", "finish", "enter"} /\ step # Rest /\ step.w \in EntryWindows
      /\ latched' = TRUE /\ step' = Rest /\ step'.pc = "rest"
      /\ \/ UNCHANGED lateCmds
         \/ step.pc \in {"start", "finish", "enter"} /\ lateCmds' = Append(lateCmds, Awaited)
      /\ UNCHANGED <<router, maker, lastAction, entering, capacity, foreign, remaining, obs,
                     bought, session, missing>>
  BY StepShape, RestFields DEF CommandFails
<1>2. Up /\ Now \in 1..MaxSessions
  BY <1>1, UpNow DEF FlowPlain
<1>3. /\ FlowTables' /\ missing' = FALSE /\ Now' = Now /\ Up' = Up
      /\ \A s : Unfinished(s)' = Unfinished(s)
      /\ \A o, w, s : Crossed(o, w, s)' = Crossed(o, w, s)
      /\ \A n \in DOMAIN bought : bought[n].of # 0 => Crossed(bought[n].of, bought[n].w, bought[n].by)'
  <2>1. UNCHANGED <<obs, bought, session, missing>>
    BY <1>1
  <2> QED
    BY <2>1, SameTables
\* The command given up
<1>4. PICK c : c = Awaited
  OBVIOUS
<1>5. step.pc \in {"start", "finish", "enter"} =>
        /\ c \in Command /\ c.kind = step.pc /\ c.w = step.w /\ c.by = Now
        /\ c.kind = "finish" => c.of = maker[c.w] /\ c.of # 0 /\ router[c.w] = NoObs /\ Closing(c.w)
        /\ c.kind = "enter" => c.of = step.of
  <2>1. CASE step.pc = "start"
    <3>1. c = [kind |-> "start", w |-> step.w, by |-> Now]
      BY <1>4, <2>1 DEF Awaited
    <3> QED
      BY <1>1, <1>2, <2>1, <3>1 DEF Command
  <2>2. CASE step.pc = "finish"
    <3>1. c = [kind |-> "finish", w |-> step.w, by |-> Now, of |-> maker[step.w], action |-> step.action]
      BY <1>4, <2>2 DEF Awaited
    <3>2. /\ step.action \in RouterActions /\ maker[step.w] \in 0..MaxObs /\ maker[step.w] # 0
          /\ router[step.w] = NoObs /\ Closing(step.w)
      BY <1>1, <2>2, StepShape DEF FlowPlain, Ended, Closing, Terminating
    <3>3. c \in Command
      <4>1. c \in [kind : {"finish"}, w : EntryWindows, by : 1..MaxSessions, of : 0..MaxObs, action : RouterActions]
        BY <1>1, <1>2, <3>1, <3>2
      <4> QED
        BY <4>1 DEF Command
    <3>4. c.kind = "finish" /\ c.w = step.w /\ c.by = Now /\ c.of = maker[step.w]
      BY <3>1
    <3> QED
      BY <2>2, <3>2, <3>3, <3>4
  <2>3. CASE step.pc = "enter"
    <3>1. c = [kind |-> "enter", w |-> step.w, by |-> Now, of |-> step.of]
      BY <1>4, <2>3 DEF Awaited
    <3>2. step.of \in 0..MaxObs
      BY <2>3, StepShape
    <3>3. c \in [kind : {"enter"}, w : EntryWindows, by : 1..MaxSessions, of : 0..MaxObs]
      BY <1>1, <1>2, <3>1, <3>2
    <3> QED
      BY <2>3, <3>1, <3>3 DEF Command
  <2> QED
    BY <2>1, <2>2, <2>3
\* The commands given up are those there were, and perhaps this one.
<1>6. /\ lateCmds' \in Seq(Command) /\ Len(lateCmds) \in Nat
      /\ DOMAIN lateCmds = 1..Len(lateCmds)
      /\ \A n \in DOMAIN lateCmds' :
           \/ n \in DOMAIN lateCmds /\ lateCmds'[n] = lateCmds[n]
           \/ n = Len(lateCmds) + 1 /\ lateCmds'[n] = c /\ step.pc \in {"start", "finish", "enter"}
  <2>1. lateCmds \in Seq(Command) /\ Len(lateCmds) \in Nat /\ DOMAIN lateCmds = 1..Len(lateCmds)
    BY LenProperties DEF FlowPlain
  <2>2. CASE UNCHANGED lateCmds
    BY <2>1, <2>2
  <2>3. CASE step.pc \in {"start", "finish", "enter"} /\ lateCmds' = Append(lateCmds, Awaited)
    <3>1. c \in Command /\ lateCmds' = Append(lateCmds, c)
      BY <1>4, <1>5, <2>3
    <3>2. /\ lateCmds' \in Seq(Command) /\ Len(lateCmds') = Len(lateCmds) + 1
          /\ \A i \in 1..Len(lateCmds) : lateCmds'[i] = lateCmds[i]
          /\ lateCmds'[Len(lateCmds) + 1] = c
      BY <2>1, <3>1, AppendProperties
    <3>3. DOMAIN lateCmds' = 1..(Len(lateCmds) + 1)
      BY <3>2, LenProperties
    <3>4. \A n \in 1..(Len(lateCmds) + 1) : n \in 1..Len(lateCmds) \/ n = Len(lateCmds) + 1
      BY <2>1
    <3> QED
      BY <2>1, <2>3, <3>2, <3>3, <3>4
  <2> QED
    BY <1>1, <2>2, <2>3
<1>7. FlowPlain'
  BY <1>1, <1>2, <1>3, <1>6 DEF FlowPlain
<1>8. Backed'
  <2>1. (\A n \in DOMAIN bought : bought[n].of # 0 => Crossed(bought[n].of, bought[n].w, bought[n].by))'
    BY <1>1, <1>3
  <2>2. c.kind = "enter" /\ step.pc = "enter" /\ c.of # 0 /\ c.of = step.of /\ c.w = step.w => Crossed(c.of, c.w, Now)
    BY DEF Backed
  <2>3. (\A n \in DOMAIN lateCmds : lateCmds[n].kind = "enter" /\ lateCmds[n].of # 0 =>
          Crossed(lateCmds[n].of, lateCmds[n].w, Now))'
    <3> SUFFICES ASSUME NEW n \in DOMAIN lateCmds', lateCmds'[n].kind = "enter", lateCmds'[n].of # 0
                 PROVE  Crossed(lateCmds[n].of, lateCmds[n].w, Now)'
      OBVIOUS
    <3>1. PICK d : d = lateCmds'[n]
      OBVIOUS
    <3>2. Crossed(d.of, d.w, Now)
      BY <1>5, <1>6, <2>2, <3>1 DEF Backed
    <3> QED
      BY <1>1, <1>3, <3>1, <3>2 DEF Crossed
  <2> QED
    BY <1>1, <2>1, <2>3 DEF Backed
<1>9. Blocking'
  <2>1. foreign => \A n \in DOMAIN lateCmds' : lateCmds'[n].kind # "enter"
    BY <1>2, <1>5, <1>6 DEF Blocking
  <2> QED
    BY <1>1, <1>2, <1>3, <2>1 DEF Blocking
<1>10. \A v \in EntryWindows : ~Closing(v)'
  BY <1>1 DEF Closing
<1>11. MakerKnown'
  BY <1>1, <1>2, <1>3, <1>10 DEF MakerKnown
<1>12. Ended' /\ LatchedQuiet' /\ Tuned'
  BY <1>1 DEF Ended, LatchedQuiet, Tuned
<1>13. LateFinish'
  <2>1. \A n \in DOMAIN lateCmds' : lateCmds'[n].by = Now
    BY <1>5, <1>6 DEF LateFinish
  <2>2. step.pc = "finish" => obs[maker[step.w]].outcome = "open"
    BY <1>1, <1>2, <1>5 DEF MakerKnown
  <2>3. (\A n \in DOMAIN lateCmds : lateCmds[n].kind = "finish" => OnlyFinish(lateCmds[n]))'
    <3> SUFFICES ASSUME NEW n \in DOMAIN lateCmds', lateCmds'[n].kind = "finish" PROVE OnlyFinish(lateCmds[n])'
      OBVIOUS
    <3>1. PICK d : d = lateCmds'[n]
      OBVIOUS
    <3>2. /\ d.w \in EntryWindows /\ d.of = maker[d.w] /\ d.of # 0 /\ router[d.w] = NoObs
          /\ obs[d.of].outcome = "open"
      <4>1. CASE n \in DOMAIN lateCmds /\ lateCmds'[n] = lateCmds[n]
        BY <3>1, <4>1, LateShape DEF LateFinish, OnlyFinish
      <4>2. CASE d = c /\ step.pc \in {"start", "finish", "enter"}
        BY <1>1, <1>5, <2>2, <3>1, <4>2
      <4> QED
        BY <1>6, <3>1, <4>1, <4>2
    <3> QED
      BY <1>1, <1>10, <3>1, <3>2 DEF OnlyFinish
  <2>4. \A n \in DOMAIN lateCmds : lateCmds[n].kind = "finish" => ~Closing(lateCmds[n].w)
    BY DEF LateFinish, OnlyFinish
  <2>5. \A m, n \in DOMAIN lateCmds' :
          m # n /\ lateCmds'[m].kind = "finish" /\ lateCmds'[n].kind = "finish" =>
            lateCmds'[m].w # lateCmds'[n].w
    <3> SUFFICES ASSUME NEW m \in DOMAIN lateCmds', NEW n \in DOMAIN lateCmds', m # n,
                        lateCmds'[m].kind = "finish", lateCmds'[n].kind = "finish"
                 PROVE  lateCmds'[m].w # lateCmds'[n].w
      OBVIOUS
    <3>1. CASE lateCmds'[m] = lateCmds[m] /\ m \in DOMAIN lateCmds /\ lateCmds'[n] = lateCmds[n] /\ n \in DOMAIN lateCmds
      BY <3>1 DEF LateFinish
    <3>2. CASE lateCmds'[m] = lateCmds[m] /\ m \in DOMAIN lateCmds /\ lateCmds'[n] = c /\ step.pc \in {"start", "finish", "enter"}
      BY <1>5, <2>4, <3>2
    <3>3. CASE lateCmds'[n] = lateCmds[n] /\ n \in DOMAIN lateCmds /\ lateCmds'[m] = c /\ step.pc \in {"start", "finish", "enter"}
      BY <1>5, <2>4, <3>3
    <3> QED
      BY <1>6, <3>1, <3>2, <3>3
  <2>6. (\A n \in DOMAIN lateCmds : lateCmds[n].by = Now)'
    BY <1>3, <2>1
  <2>7. (\A m, n \in DOMAIN lateCmds :
          m # n /\ lateCmds[m].kind = "finish" /\ lateCmds[n].kind = "finish" =>
            lateCmds[m].w # lateCmds[n].w)'
    BY <2>5
  <2> QED
    BY ONLY <2>3, <2>6, <2>7 DEF LateFinish
<1> QED
  BY <1>3, <1>7, <1>8, <1>9, <1>11, <1>12, <1>13

LEMMA EndsKeeps == ASSUME FlowInv, NEW how \in {"ended", "gone"}, EndsAs(how) PROVE FlowInv'
<1> USE DEF FlowInv
<1>1. /\ Up /\ session' = [session EXCEPT ![Now] = how] /\ step' = Rest /\ step'.pc = "rest" /\ lateCmds' = << >>
      /\ UNCHANGED <<router, maker, lastAction, entering, capacity, latched, foreign>>
      /\ UNCHANGED <<faulty, remaining, obs, bought, missing>>
  BY RestFields DEF EndsAs, engineMemory
<1>2. /\ session \in Seq({"live", "ended", "gone"}) /\ Len(session) <= MaxSessions /\ Now = Len(session)
      /\ Now \in 1..Len(session) /\ DOMAIN session = 1..Len(session)
  BY <1>1, UpNow, LenProperties DEF FlowPlain, Now
<1>3. /\ session' \in Seq({"live", "ended", "gone"}) /\ Len(session') = Len(session)
      /\ \A s \in 1..Len(session) : session'[s] = IF s = Now THEN how ELSE session[s]
  BY <1>1, <1>2, ExceptSeq
<1>4. Now' = Now /\ ~Up'
  BY <1>2, <1>3 DEF Now, Up
<1>5. FlowPlain'
  <2>1. lateCmds' \in Seq(Command)
    BY <1>1
  <2>2. session' \in Seq({"live", "ended", "gone"}) /\ Len(session') <= MaxSessions
    BY <1>2, <1>3
  <2>3. /\ router' = router /\ maker' = maker /\ lastAction' = lastAction /\ entering' = entering
        /\ capacity' = capacity /\ latched' = latched /\ foreign' = foreign /\ remaining' = remaining
        /\ step' = Rest /\ lateCmds' = << >>
    BY <1>1
  <2> QED
    BY <2>1, <2>2, <2>3 DEF FlowPlain
<1>6. FlowTables'
  <2>1. \A o \in DOMAIN obs : obs[o].by \in 1..Len(session)
    <3> SUFFICES ASSUME NEW o \in DOMAIN obs PROVE obs[o].by \in 1..Len(session)
      OBVIOUS
    <3>1. obs[o] \in ObsRow /\ obs[o].by <= Now
      BY ElementOfSeq, LenProperties DEF FlowTables
    <3> QED
      BY <1>2, <3>1 DEF ObsRow
  <2>2. \A o \in DOMAIN obs : obs[o].outcome = "ABANDONED" => session'[obs[o].by] # "live"
    BY <1>3, <2>1 DEF FlowTables
  <2> QED
    BY <1>1, <1>4, <2>2 DEF FlowTables
<1>7. Backed'
  BY <1>1, <1>4 DEF Backed, Crossed
<1>8. Blocking' /\ MakerKnown' /\ Tuned'
  BY <1>4 DEF Blocking, MakerKnown, Tuned
<1>9. Ended' /\ LateFinish' /\ LatchedQuiet'
  BY <1>1 DEF Ended, LateFinish, LatchedQuiet
<1> QED
  BY <1>1, <1>5, <1>6, <1>7, <1>8, <1>9

LEMMA StartsKeeps ==
  ASSUME FlowInv, NEW absent \in SUBSET {s \in DOMAIN session : session[s] # "live"}, StartSession(absent)
  PROVE  FlowInv'
<1> USE DEF FlowInv
<1> DEFINE over == absent \cup {s \in DOMAIN session : session[s] = "ended"}
<1>1. /\ ~Up /\ Now < MaxSessions /\ session' = Append(session, "live") /\ missing' = FALSE
      /\ router' = [w \in EntryWindows |-> NoObs] /\ maker' = [w \in EntryWindows |-> 0]
      /\ lastAction' = [w \in EntryWindows |-> ""] /\ capacity' = FALSE /\ latched' = FALSE
      /\ entering' = {bought[n].w : n \in DOMAIN bought}
      /\ obs' = [o \in DOMAIN obs |-> IF o \in Unfinished(over) THEN [obs[o] EXCEPT !.outcome = "ABANDONED"] ELSE obs[o]]
      /\ foreign' = (Unfinished(DOMAIN session \ over) # {})
      /\ UNCHANGED <<step, lateCmds, faulty, remaining, bought>>
  BY DEF StartSession, Forgotten
<1>2. step = Rest /\ step.pc = "rest" /\ lateCmds = << >> /\ step' = Rest /\ step'.pc = "rest" /\ lateCmds' = << >>
  BY <1>1, RestFields DEF FlowPlain
<1>3. /\ session \in Seq({"live", "ended", "gone"}) /\ Len(session) \in Nat /\ Now = Len(session)
      /\ DOMAIN session = 1..Len(session)
  BY LenProperties DEF FlowPlain, Now
<1>4. /\ session' \in Seq({"live", "ended", "gone"}) /\ Now' = Now + 1 /\ Len(session') = Now + 1
      /\ session'[Now + 1] = "live" /\ \A s \in 1..Now : session'[s] = session[s]
      /\ Now + 1 <= MaxSessions /\ session' # << >>
  <2>1. "live" \in {"live", "ended", "gone"}
    OBVIOUS
  <2>2. /\ session' \in Seq({"live", "ended", "gone"}) /\ session' # << >>
        /\ Len(session') = Len(session) + 1 /\ session'[Len(session) + 1] = "live"
        /\ \A s \in 1..Len(session) : session'[s] = session[s]
    <3>1. session' = Append(session, "live") /\ session \in Seq({"live", "ended", "gone"})
      BY <1>1, <1>3
    <3> QED
      BY ONLY <2>1, <3>1, AppendProperties
  <2>3. Now' = Len(session')
    BY DEF Now
  <2>4. Now < MaxSessions /\ Now \in Nat /\ MaxSessions \in Nat /\ Now = Len(session)
    BY <1>1, <1>3, FlowBounds
  <2> QED
    BY ONLY <2>2, <2>3, <2>4
<1>5. Up'
  BY <1>4 DEF Up
<1>6. over \subseteq 1..Now /\ \A s \in over : session[s] # "live"
  BY <1>3
<1>7. /\ obs \in Seq(ObsRow) /\ Len(obs) \in Nat /\ DOMAIN obs = 1..Len(obs) /\ Len(obs) <= MaxObs
      /\ \A o \in DOMAIN obs : obs[o] \in ObsRow /\ obs[o].by \in 1..Now
  <2>1. obs \in Seq(ObsRow) /\ Len(obs) \in Nat /\ DOMAIN obs = 1..Len(obs) /\ Len(obs) <= MaxObs
    BY LenProperties DEF FlowTables
  <2>2. ASSUME NEW o \in DOMAIN obs PROVE obs[o] \in ObsRow /\ obs[o].by \in 1..Now
    <3>1. obs[o] \in ObsRow /\ obs[o].by <= Now
      BY <2>1, ElementOfSeq DEF FlowTables
    <3> QED
      BY <1>3, <3>1 DEF ObsRow
  <2> QED
    BY <2>1, <2>2
<1> HIDE DEF over
<1>8. /\ DOMAIN obs' = DOMAIN obs
      /\ \A o \in DOMAIN obs : /\ obs'[o] \in ObsRow /\ obs'[o].w = obs[o].w /\ obs'[o].by = obs[o].by
                               /\ o \in Unfinished(over) => obs'[o].outcome = "ABANDONED"
                               /\ o \notin Unfinished(over) => obs'[o].outcome = obs[o].outcome
  <2>1. DOMAIN obs' = DOMAIN obs
    BY <1>1
  <2>2. ASSUME NEW o \in DOMAIN obs
        PROVE  /\ obs'[o] \in ObsRow /\ obs'[o].w = obs[o].w /\ obs'[o].by = obs[o].by
               /\ o \in Unfinished(over) => obs'[o].outcome = "ABANDONED"
               /\ o \notin Unfinished(over) => obs'[o].outcome = obs[o].outcome
    <3>1. obs[o] \in ObsRow
      BY <1>7
    <3>2. /\ [obs[o] EXCEPT !.outcome = "ABANDONED"] \in ObsRow
          /\ [obs[o] EXCEPT !.outcome = "ABANDONED"].w = obs[o].w /\ [obs[o] EXCEPT !.outcome = "ABANDONED"].by = obs[o].by
          /\ [obs[o] EXCEPT !.outcome = "ABANDONED"].outcome = "ABANDONED"
      BY <3>1 DEF ObsRow
    <3>3. obs'[o] = IF o \in Unfinished(over) THEN [obs[o] EXCEPT !.outcome = "ABANDONED"] ELSE obs[o]
      BY <1>1
    <3> QED
      BY <3>1, <3>2, <3>3
  <2> QED
    BY <2>1, <2>2
<1>9. FlowTables'
  <2>1. obs' \in Seq(ObsRow) /\ Len(obs') <= MaxObs
    <3>1. obs' \in [1..Len(obs) -> ObsRow]
      BY <1>1, <1>7, <1>8
    <3> QED
      BY <1>7, <3>1, IsASeq, LenProperties
  <2>2. \A o \in DOMAIN obs' : obs'[o].by <= Now + 1
    BY <1>3, <1>7, <1>8
  <2>3. \A o \in DOMAIN obs' : obs'[o].outcome = "ABANDONED" => session'[obs'[o].by] # "live"
    <3> SUFFICES ASSUME NEW o \in DOMAIN obs, obs'[o].outcome = "ABANDONED"
                 PROVE  session[obs[o].by] # "live" /\ obs'[o].by = obs[o].by /\ obs[o].by \in 1..Now
      BY <1>4, <1>8
    <3>1. CASE o \in Unfinished(over)
      BY <1>6, <1>7, <1>8, <3>1 DEF Unfinished
    <3>2. CASE o \notin Unfinished(over)
      BY <1>7, <1>8, <3>2 DEF FlowTables
    <3> QED
      BY <3>1, <3>2
  <2>4. \A n \in DOMAIN bought : bought[n].by <= Now + 1
    <3> SUFFICES ASSUME NEW n \in DOMAIN bought PROVE bought[n].by <= Now + 1
      OBVIOUS
    <3>1. bought[n] \in Purchase /\ bought[n].by <= Now
      BY ElementOfSeq, LenProperties DEF FlowTables
    <3> QED
      BY <1>3, <3>1 DEF Purchase
  <2>5. bought' = bought /\ Now' = Now + 1
    BY <1>1, <1>4
  <2>6. bought \in Seq(Purchase) /\ \A m, n \in DOMAIN bought : m # n => bought[m].w # bought[n].w
    BY DEF FlowTables
  <2> QED
    BY ONLY <2>1, <2>2, <2>3, <2>4, <2>5, <2>6 DEF FlowTables
<1>10. \A n \in DOMAIN bought : bought[n] \in Purchase /\ bought[n].by # Now + 1
  <2> SUFFICES ASSUME NEW n \in DOMAIN bought PROVE bought[n] \in Purchase /\ bought[n].by # Now + 1
    OBVIOUS
  <2>1. bought[n] \in Purchase /\ bought[n].by <= Now
    BY ElementOfSeq, LenProperties DEF FlowTables
  <2> QED
    BY <1>3, <2>1 DEF Purchase
<1>11. FlowPlain'
  <2>1. /\ router' \in [EntryWindows -> Ages \cup {NoObs}]
        /\ lastAction' \in [EntryWindows -> RouterActions \cup {""}]
        /\ remaining' \in [EntryWindows -> {"enough", "little", "none"}]
    BY <1>1 DEF FlowPlain
  <2>2. maker' \in [EntryWindows -> 0..MaxObs]
    <3>1. 0 \in 0..MaxObs
      BY FlowBounds
    <3> QED
      BY <1>1, <3>1
  <2>3. entering' \subseteq EntryWindows
    BY <1>1, <1>10 DEF Purchase
  <2>4. capacity' \in BOOLEAN /\ latched' \in BOOLEAN /\ foreign' \in BOOLEAN
    BY <1>1
  <2>5. lateCmds' \in Seq(Command)
    BY <1>1 DEF FlowPlain
  <2>6. session' \in Seq({"live", "ended", "gone"}) /\ Len(session') <= MaxSessions
    BY <1>4
  <2> QED
    BY <1>2, <1>5, <2>1, <2>2, <2>3, <2>4, <2>5, <2>6 DEF FlowPlain
<1>12. Backed'
  <2>1. \A o, w, s : Crossed(o, w, s) => Crossed(o, w, s)'
    BY <1>8 DEF Crossed, Unfinished
  <2>2. (\A n \in DOMAIN bought : bought[n].of # 0 => Crossed(bought[n].of, bought[n].w, bought[n].by))'
    BY <1>1, <2>1 DEF Backed
  <2> QED
    BY <1>2, <2>2 DEF Backed
<1>13. Blocking'
  <2>1. Unfinished(DOMAIN session \ over) = {} => \A o \in DOMAIN obs' : obs'[o].by \in 1..Now => obs'[o].outcome # "open"
    BY <1>3, <1>7, <1>8 DEF Unfinished
  <2>2. ~foreign' => Unfinished(1..(Now - 1))' = {}
    <3>1. (1..(Now - 1))' = 1..Now
      BY <1>3, <1>4
    <3> QED
      BY <1>1, <2>1, <3>1 DEF Unfinished
  <2>3. \A n \in DOMAIN bought' : bought'[n].by # Now'
    BY <1>1, <1>4, <1>10
  <2> QED
    BY <1>2, <2>2, <2>3 DEF Blocking
<1>14. MakerKnown'
  BY <1>1 DEF MakerKnown
<1>15. Ended' /\ LateFinish' /\ LatchedQuiet'
  BY <1>2 DEF Ended, LateFinish, LatchedQuiet
<1>16. Tuned'
  <2>1. Unfinished({Now})' = {}
    <3>1. \A o \in DOMAIN obs' : obs'[o].by # Now'
      BY <1>3, <1>4, <1>7, <1>8
    <3> QED
      BY <3>1 DEF Unfinished
  <2>2. \A v \in EntryWindows : router'[v] = NoObs /\ maker'[v] = 0 /\ lastAction'[v] = ""
    BY <1>1
  <2>3. \A v \in EntryWindows : OneRow(v)'
    BY <2>1, <2>2 DEF OneRow
  <2>4. \A v \in EntryWindows : InTune(v)' /\ StartSeen(v)'
    BY <1>2, <2>2 DEF InTune, StartSeen
  <2> QED
    BY <1>2, <2>3, <2>4 DEF Tuned
<1> QED
  BY <1>1, <1>9, <1>11, <1>12, <1>13, <1>14, <1>15, <1>16

LEMMA FlowStep == ASSUME FlowInv, [FlowNext]_flowVars PROVE FlowInv'
<1>1. CASE UNCHANGED flowVars
  <2>1. /\ UNCHANGED <<obs, bought, session, missing, maker, latched, foreign, lateCmds, faulty>>
        /\ router' = router /\ lastAction' = lastAction /\ entering' = entering /\ capacity' = capacity
        /\ remaining' = remaining /\ step' = step
    BY <1>1 DEF flowVars
  <2>2. /\ router \in [EntryWindows -> Ages \cup {NoObs}] /\ lastAction \in [EntryWindows -> RouterActions \cup {""}]
        /\ remaining \in [EntryWindows -> {"enough", "little", "none"}] /\ capacity \in BOOLEAN
    BY DEF FlowInv, FlowPlain
  <2> QED
    BY <2>1, <2>2, CalmKeeps
<1>2. ASSUME NEW w \in EntryWindows, EvaluateWindow(w) PROVE FlowInv'
  BY <1>2, EvaluateKeeps
<1>3. ASSUME \/ ObservationUpdated \/ SubmitShadowEntry \/ RefuseShadowEntry \/ EntryRefused \/ CapacityFreed
             \/ \E w \in EntryWindows : ObservationAges(w) \/ WindowRunsOut(w)
      PROVE  FlowInv'
  BY <1>3, CalmStepKeeps
<1>4. CASE EvidencePersisted
  BY <1>4, EvidenceKeeps
<1>5. CASE ObservationStarted
  BY <1>5, StartedKeeps
<1>6. CASE ObservationFinished
  BY <1>6, FinishedKeeps
<1>7. CASE EntryBought
  BY <1>7, BoughtKeeps
<1>8. CASE CommandFails
  BY <1>8, FailsKeeps
<1>9. CASE LateCommit
  BY <1>9, CommittedKeeps
<1>10. CASE LateDropped
  BY <1>10, DroppedKeeps
<1>11. ASSUME NEW how \in {"ended", "gone"}, EndsAs(how) PROVE FlowInv'
  BY <1>11, EndsKeeps
<1>12. ASSUME NEW absent \in SUBSET {s \in DOMAIN session : session[s] # "live"}, StartSession(absent) PROVE FlowInv'
  BY <1>12, StartsKeeps
<1> QED
  BY <1>1, <1>2, <1>3, <1>4, <1>5, <1>6, <1>7, <1>8, <1>9, <1>10, <1>11, <1>12 DEF FlowNext

\* What the invariant is for
LEMMA FlowMeans == ASSUME FlowInv PROVE EntrySound
<1> USE DEF FlowInv
<1>1. FlowTypeOK
  BY DEF FlowTypeOK, FlowPlain, FlowTables, ObsRow, Purchase
<1>2. InStep
  <2> SUFFICES ASSUME Up, step = Rest, ~latched, NEW w \in EntryWindows
               PROVE  /\ router[w] # NoObs <=> maker[w] # 0
                      /\ {o \in Unfinished({Now}) : obs[o].w = w} = {maker[w]} \ {0}
    BY DEF InStep
  <2>1. OneRow(w) /\ InTune(w) /\ step.pc = "rest"
    BY StepShape DEF Tuned
  <2> QED
    BY <2>1 DEF OneRow, InTune
<1>3. EntryBacked
  BY DEF EntryBacked, Backed, FlowTables, Crossed
<1>4. AbandonedRightly
  BY DEF AbandonedRightly, FlowTables, Blocking
<1> QED
  BY <1>1, <1>2, <1>3, <1>4 DEF EntrySound

\* Whatever is decided, refused, given up and committed late, and whichever session
\* breaks off: the router, the engine and the tables tell one story between two
\* evaluations, an entry that followed an observation has its row as the cross it
\* was, no window is entered twice, only what is over is abandoned, and nothing is
\* entered over the open observation of an earlier session (_advance_execution and
\* reconcile_startup).
THEOREM EntrySoundness == FlowSpec => []EntrySound
<1>1. FlowInit => FlowInv
  BY FlowStarts
<1>2. FlowInv /\ [FlowNext]_flowVars => FlowInv'
  BY FlowStep
<1>3. FlowInv => EntrySound
  BY FlowMeans
<1> QED
  BY <1>1, <1>2, <1>3, PTL DEF FlowSpec
=============================================================================
