---------------------------- MODULE CohortLedger ----------------------------
(***************************************************************************)
(* What create_entry's docstring promises of the cohort's money            *)
(* (lite_frequency_v4/store.py): with the exposure cap of 100% that        *)
(* config.py pins, total committed capital never exceeds current equity,   *)
(* at admission and ever after. TradeStore implements this ledger.         *)
(***************************************************************************)
EXTENDS Integers, TLAPS

CONSTANTS
  StartEquity,
  Buffer,   \* exit fee buffer of one open position
  Amounts   \* costs, payouts and fees there can be

\* What the constants of an instance must satisfy.
LedgerConstants ==
  StartEquity \in Nat /\ Buffer \in Nat /\ Amounts \subseteq Nat

VARIABLES
  equity,  \* starting equity and realized net results
  held,    \* cost and entry fees of the open positions
  open     \* how many positions are open

ledger == <<equity, held, open>>

LedgerInit == equity = StartEquity /\ held = 0 /\ open = 0

\* A position costing c is opened: with it and the exit fee buffers of all
\* open positions the commitment stays within equity.
Admit(c) ==
  /\ held + open * Buffer + c + Buffer <= equity
  /\ held' = held + c
  /\ open' = open + 1
  /\ UNCHANGED equity

\* An open position that cost c pays p less an exit fee within its buffer.
Close(c, p, fee) ==
  /\ open > 0 /\ c <= held /\ fee <= Buffer
  /\ held' = held - c
  /\ open' = open - 1
  /\ equity' = equity + p - c - fee

LedgerNext ==
  \E c \in Amounts :
    \/ Admit(c)
    \/ \E p, fee \in Amounts : Close(c, p, fee)

LedgerSpec == LedgerInit /\ [][LedgerNext]_ledger

\* Every open position's cost and the fee of leaving it are covered by
\* equity, however badly the positions closed meanwhile went.
Covered == held + open * Buffer <= equity

\* The cohort can lose everything it holds and pay every exit fee without
\* going into debt.
Solvent == equity >= 0

-----------------------------------------------------------------------------
(* Machine-checked: neither happens, whatever the size of the cohort, the *)
(* costs and the results.                                                *)

TypeInv == equity \in Int /\ held \in Nat /\ open \in Nat

LInv == TypeInv /\ Covered

LEMMA InitLInv ==
  ASSUME LedgerConstants
  PROVE  LedgerInit => LInv
  BY DEF LedgerConstants, LedgerInit, LInv, TypeInv, Covered

\* One more position adds one buffer to the commitment.
LEMMA OneMore ==
  ASSUME LedgerConstants, NEW n \in Int
  PROVE  (n + 1) * Buffer = n * Buffer + Buffer /\ (n - 1) * Buffer = n * Buffer - Buffer
  BY DEF LedgerConstants

LEMMA NextLInv ==
  ASSUME LedgerConstants
  PROVE  LInv /\ [LedgerNext]_ledger => LInv'
<1> SUFFICES ASSUME LInv, [LedgerNext]_ledger PROVE LInv'
  OBVIOUS
<1> USE DEF LedgerConstants, LInv, TypeInv, Covered
<1>1. ASSUME NEW c \in Amounts, Admit(c) PROVE LInv'
  <2>1. open * Buffer \in Nat /\ open' * Buffer = open * Buffer + Buffer
    BY <1>1, OneMore DEF Admit
  <2>2. TypeInv'
    BY <1>1 DEF Admit
  <2> QED
    BY <1>1, <2>1, <2>2 DEF Admit
<1>2. ASSUME NEW c \in Amounts, NEW p \in Amounts, NEW fee \in Amounts, Close(c, p, fee)
      PROVE  LInv'
  <2>1. open * Buffer \in Nat /\ open' * Buffer = open * Buffer - Buffer
    BY <1>2, OneMore DEF Close
  <2>2. TypeInv'
    BY <1>2 DEF Close
  <2> QED
    BY <1>2, <2>1, <2>2 DEF Close
<1>3. CASE UNCHANGED ledger
  BY <1>3 DEF ledger
<1> QED
  BY <1>1, <1>2, <1>3 DEF LedgerNext

\* Every open position's cost and exit fee buffer stay covered by equity for
\* any equity, buffer and amounts, as create_entry's docstring promises.
THEOREM AlwaysCovered ==
  ASSUME LedgerConstants
  PROVE  LedgerSpec => []Covered
<1>1. LInv => Covered
  BY DEF LInv
<1>2. LedgerInit => LInv
  BY InitLInv
<1>3. LInv /\ [LedgerNext]_ledger => LInv'
  BY NextLInv
<1> QED
  BY <1>1, <1>2, <1>3, PTL DEF LedgerSpec

\* The cohort's equity is never negative: no loss the code can realize puts
\* it into debt.
THEOREM AlwaysSolvent ==
  ASSUME LedgerConstants
  PROVE  LedgerSpec => []Solvent
<1>1. LInv => Solvent
  <2> SUFFICES ASSUME LInv PROVE equity >= 0
    BY DEF Solvent
  <2>1. open * Buffer \in Nat
    BY DEF LedgerConstants, LInv, TypeInv
  <2> QED
    BY <2>1 DEF LInv, TypeInv, Covered
<1>2. LedgerInit => LInv
  BY InitLInv
<1>3. LInv /\ [LedgerNext]_ledger => LInv'
  BY NextLInv
<1> QED
  BY <1>1, <1>2, <1>3, PTL DEF LedgerSpec
=============================================================================
