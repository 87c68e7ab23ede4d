--------------------------- MODULE MarketDiscovery ---------------------------
(***************************************************************************)
(* Discovery of five-minute markets: GammaMarketDiscovery                  *)
(* (src/lite_frequency_v4/discovery.py) and the engine's discover_once and *)
(* _persist_market (engine.py), which bind a window to one verified market *)
(* in memory once its rows are committed.  One asset; window w is open     *)
(* from tick (w - 1) * Span to w * Span.  A market stands for its own pair *)
(* of tokens.  The discovery loop runs one pass at a time; a step of it    *)
(* runs from one suspension to the next.                                   *)
(***************************************************************************)
EXTENDS Integers, FiniteSets

CONSTANTS
  ListedMarkets,  \* identities the provider may list
  WindowListed,   \* the window each of them names
  Span,           \* ticks of a window
  MinRemaining,   \* minimum_remaining_s, in ticks
  MaxClock,       \* bound on the clock
  MaxRestarts     \* bound on process starts after the first

ASSUME DiscoveryAssumption ==
  /\ WindowListed \in [ListedMarkets -> Nat \ {0}]
  /\ Span \in Nat \ {0} /\ {MinRemaining, MaxClock, MaxRestarts} \subseteq Nat

VARIABLES
  clock,
  scan,          \* discover_once: where it is suspended, and what it holds
  known,         \* markets: the identity bound to each window
  tokenWindow,   \* token_to_window
  expectedKeys,  \* _expected_window_keys
  windowRows,    \* asset_windows: lifecycle_status of the rows there are
  linkRows,      \* window_market_links
  journaled,     \* windows whose expected-window key this process has used
  restarts,
  firstBound     \* the first market this process bound to each window: history

memoryVars == <<known, tokenWindow, expectedKeys, firstBound>>
discoveryVars == <<clock, scan, memoryVars, windowRows, linkRows, journaled, restarts>>

Resting == [at |-> "resting"]
WindowAt(now) == (now \div Span) + 1
WindowIds == {WindowListed[m] : m \in ListedMarkets}
               \cup UNION {{WindowAt(now), WindowAt(now) + 1} : now \in 0..MaxClock}
Nowhere == [w \in {} |-> 0]
Unbound == "unbound"

DiscoveryInit ==
  /\ clock = 0 /\ scan = Resting
  /\ known = Nowhere /\ tokenWindow = Nowhere /\ expectedKeys = {}
  /\ windowRows = Nowhere /\ linkRows = {} /\ journaled = {} /\ restarts = 0
  /\ firstBound = [w \in WindowIds |-> Unbound]

OpenOf(w) == (w - 1) * Span
CloseOf(w) == w * Span

\* f with the value v at k
With(f, k, v) == [x \in DOMAIN f \cup {k} |-> IF x = k THEN v ELSE f[x]]

-----------------------------------------------------------------------------
(* A batch *)

\* parse_market_row: an executable market with time left when the pass began
Parsed(rows, now) ==
  {r.market : r \in {s \in rows : /\ s.executable
                                  /\ CloseOf(WindowListed[s.market]) - now >= MinRemaining}}

\* discover_from_rows: two markets that claim one window are both rejected.
Unambiguous(markets) ==
  {m \in markets : \A n \in markets : WindowListed[n] = WindowListed[m] => n = m}

\* The requests of a pass overlap, and each may fail: the provider answers with
\* any rows, the same market twice included.
Discover ==
  /\ scan.at = "resting"
  /\ scan' = [at |-> "asking", now |-> clock]
  /\ UNCHANGED <<clock, memoryVars, windowRows, linkRows, journaled, restarts>>

Answered ==
  /\ scan.at = "asking"
  /\ \E rows \in SUBSET [market : ListedMarkets, executable : BOOLEAN] :
       scan' = [at |-> "ensuring", now |-> scan.now,
                todo |-> Unambiguous(Parsed(rows, scan.now))]
  /\ UNCHANGED <<clock, memoryVars, windowRows, linkRows, journaled, restarts>>

-----------------------------------------------------------------------------
(* Its commands.  _critical_execute may raise, over a command that has been
   committed, is committed later, or fails; the pass is then over. *)

Raises == scan' = Resting

\* the windows of now and next that are not yet recorded as expected
Missing == {WindowAt(scan.now), WindowAt(scan.now) + 1} \ expectedKeys
NextMissing == IF WindowAt(scan.now) \in Missing THEN WindowAt(scan.now) ELSE WindowAt(scan.now) + 1

\* The key of the command is the session's and the window's, its payload has the
\* time of the pass: a retry of a command that was journaled is a conflict,
\* whatever became of it.
EnsureWindow ==
  /\ scan.at = "ensuring" /\ Missing # {}
  /\ LET w == NextMissing IN
     /\ journaled' = journaled \cup {w}
     /\ \/ /\ w \notin journaled
           /\ windowRows' = With(windowRows, w, "DISCOVERING")
           /\ \/ expectedKeys' = expectedKeys \cup {w} /\ UNCHANGED scan
              \/ Raises /\ UNCHANGED expectedKeys
        \/ Raises /\ UNCHANGED <<expectedKeys, windowRows>>
  /\ UNCHANGED <<clock, known, tokenWindow, firstBound, linkRows, restarts>>

BeginPersisting ==
  /\ scan.at = "ensuring" /\ Missing = {}
  /\ scan' = [scan EXCEPT !.at = "persisting"]
  /\ UNCHANGED <<clock, memoryVars, windowRows, linkRows, journaled, restarts>>

Bind(m) ==
  LET w == WindowListed[m] IN
  /\ known' = With(known, w, m)
  /\ tokenWindow' = With(tokenWindow, m, w)
  /\ firstBound' = IF firstBound[w] = Unbound THEN [firstBound EXCEPT ![w] = m] ELSE firstBound

\* persist_market_bundle: window, identity and link in one transaction
CommitBundle(m) ==
  /\ windowRows' = With(windowRows, WindowListed[m],
       IF OpenOf(WindowListed[m]) <= scan.now THEN "ACTIVE" ELSE "UPCOMING")
  /\ linkRows' = linkRows \cup {m}

Conflicts(m) == WindowListed[m] \in DOMAIN known /\ known[WindowListed[m]] # m

Dealt(m) == scan' = [scan EXCEPT !.todo = @ \ {m}]

\* Seeded fault: the latest verified market is the window's.
PersistLatest ==
  /\ scan.at = "persisting"
  /\ \E m \in scan.todo :
       /\ CommitBundle(m)
       /\ \/ Bind(m) /\ Dealt(m)
          \/ Raises /\ UNCHANGED <<known, tokenWindow, firstBound>>
  /\ UNCHANGED <<clock, expectedKeys, journaled, restarts>>

\* _persist_market: a window keeps the market it is bound to.
PersistMarket ==
  /\ scan.at = "persisting"
  /\ \E m \in scan.todo :
       IF Conflicts(m)
       THEN Dealt(m) /\ UNCHANGED <<known, tokenWindow, firstBound, windowRows, linkRows>>
       ELSE /\ CommitBundle(m)
            /\ \/ Bind(m) /\ Dealt(m)
               \/ Raises /\ UNCHANGED <<known, tokenWindow, firstBound>>
  /\ UNCHANGED <<clock, expectedKeys, journaled, restarts>>

\* A command that fails, or the provider's reply that cannot be used
PassBreaksOff ==
  /\ scan # Resting
  /\ Raises
  /\ UNCHANGED <<clock, memoryVars, windowRows, linkRows, journaled, restarts>>

\* Windows closed for longer than a window are forgotten, with their tokens; one
\* that this pass missed is kept.  Subscriptions and price feeds follow.
Prune ==
  /\ scan.at = "persisting" /\ scan.todo = {}
  /\ LET kept == {w \in DOMAIN known : CloseOf(w) + Span >= scan.now}
     IN  /\ known' = [w \in kept |-> known[w]]
         /\ tokenWindow' = [m \in {known[w] : w \in kept} |->
                              CHOOSE w \in kept : known[w] = m]
         /\ firstBound' = [w \in WindowIds |->
              IF w \in DOMAIN known \ kept THEN Unbound ELSE firstBound[w]]
  /\ scan' = Resting
  /\ UNCHANGED <<clock, expectedKeys, windowRows, linkRows, journaled, restarts>>

-----------------------------------------------------------------------------

ClockTicks ==
  /\ clock < MaxClock
  /\ clock' = clock + 1
  /\ UNCHANGED <<scan, memoryVars, windowRows, linkRows, journaled, restarts>>

\* The process dies and starts again: the tables are all that is left.
Restart ==
  /\ restarts < MaxRestarts
  /\ restarts' = restarts + 1
  /\ scan' = Resting /\ known' = Nowhere /\ tokenWindow' = Nowhere /\ expectedKeys' = {}
  /\ firstBound' = [w \in WindowIds |-> Unbound] /\ journaled' = {}
  /\ UNCHANGED <<clock, windowRows, linkRows>>

DiscoveryNext ==
  \/ Discover \/ Answered \/ EnsureWindow \/ BeginPersisting \/ PersistMarket
  \/ PassBreaksOff \/ Prune \/ ClockTicks \/ Restart

DiscoverySpec == DiscoveryInit /\ [][DiscoveryNext]_discoveryVars

-----------------------------------------------------------------------------
(* Properties *)

DiscoveryTypeOK ==
  /\ clock \in 0..MaxClock /\ restarts \in 0..MaxRestarts
  /\ DOMAIN known \subseteq WindowIds /\ DOMAIN tokenWindow \subseteq ListedMarkets
  /\ expectedKeys \subseteq journaled /\ journaled \subseteq WindowIds
  /\ linkRows \subseteq ListedMarkets
  /\ scan.at \in {"resting", "asking", "ensuring", "persisting"}

\* "A transient discovery miss never remaps a window": as long as the process
\* knows a window, it is the market it was first bound to, whatever the
\* provider lists meanwhile and however a pass ends.
BindingStands == \A w \in DOMAIN known : known[w] = firstBound[w]

\* At every suspension a token leads to the window whose market it belongs to,
\* and every known market's tokens lead back to it.
TokensAgree ==
  /\ \A w \in DOMAIN known : known[w] \in DOMAIN tokenWindow /\ tokenWindow[known[w]] = w
  /\ \A m \in DOMAIN tokenWindow : tokenWindow[m] \in DOMAIN known /\ known[tokenWindow[m]] = m

\* What memory acts on is committed: the link of every known market, and the row
\* of its window and of every window recorded as expected.
MemoryCommitted ==
  /\ \A w \in DOMAIN known : known[w] \in linkRows /\ w \in DOMAIN windowRows
  /\ expectedKeys \subseteq DOMAIN windowRows

\* Each window has one market, found again from its tokens and from the tables.
MarketsSound == DiscoveryTypeOK /\ BindingStands /\ TokensAgree /\ MemoryCommitted
=============================================================================
