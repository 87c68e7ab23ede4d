------------------------- MODULE StoreRows_proofs -------------------------
(***************************************************************************)
(* Machine-checked safety of what is kept on disk besides the ledger, for  *)
(* any databases, rows and bounds:                                         *)
(*   - the schema a store is opened with and the scripts that move it on;  *)
(*   - the integrity checks, when no scan raises;                          *)
(*   - what a runtime tells of itself in its files, over every restart;    *)
(*   - the sections of the export, whatever is committed meanwhile;        *)
(*   - the evidence a decision rests on, through the bundles that write it *)
(*     and the retention that takes old rows away;                         *)
(*   - the counts of source events, from the buffer to their table.        *)
(***************************************************************************)
EXTENDS MCStoreRows, IntegrityAudit, EventCounts, TradeStore_proofs, SequenceTheorems

(* The scripts *)

\* What the statements before the k-th have added
FreshTo(k) == UNION {FreshScript[i] : i \in 1..(k - 1)}
ScriptTo(v, k) == UNION {Script(v)[i] : i \in 1..(k - 1)}

BaseNames ==
  {"schema_migrations", "sessions", "sessions.cohort", "cohorts", "cohorts.status",
   "locks", "locks.reserved", "commands"}

LEMMA FreshParts ==
  /\ Len(FreshScript) = 5 /\ Base = BaseNames
  /\ FreshTo(1) = {} /\ FreshTo(6) = Base
  /\ \A k \in 1..5 : /\ FreshTo(k + 1) = FreshTo(k) \cup FreshScript[k]
                     /\ "schema_migrations" \in FreshTo(k + 1)
                     /\ FreshScript[k] \subseteq Names
<1>1. /\ Len(FreshScript) = 5 /\ DOMAIN FreshScript = 1..5
      /\ FreshScript[1] = {"schema_migrations"}
      /\ FreshScript[2] = {"sessions", "sessions.cohort"}
      /\ FreshScript[3] = {"cohorts", "cohorts.status"}
      /\ FreshScript[4] = {"locks", "locks.reserved"} /\ FreshScript[5] = {"commands"}
  BY DEF FreshScript
<1>2. Base = UNION {FreshScript[i] : i \in 1..5}
  BY <1>1 DEF Base, Added
<1>3. UNION {FreshScript[i] : i \in 1..5}
        = FreshScript[1] \cup FreshScript[2] \cup FreshScript[3] \cup FreshScript[4]
          \cup FreshScript[5]
  <2>1. 1..5 = {1, 2, 3, 4, 5}
    OBVIOUS
  <2> QED
    BY <2>1, Zenon
<1>4. Base = BaseNames
  BY <1>1, <1>2, <1>3 DEF BaseNames
<1>5. FreshTo(1) = {}
  BY DEF FreshTo
<1>6. FreshTo(6) = Base
  BY <1>2 DEF FreshTo
<1>7. ASSUME NEW k \in 1..5
      PROVE  /\ FreshTo(k + 1) = FreshTo(k) \cup FreshScript[k]
             /\ "schema_migrations" \in FreshTo(k + 1)
             /\ FreshScript[k] \subseteq Names
  <2>1. 1..(k + 1 - 1) = (1..(k - 1)) \cup {k} /\ 1 \in 1..(k + 1 - 1)
    OBVIOUS
  <2>0. FreshTo(k + 1) = UNION {FreshScript[i] : i \in (1..(k - 1)) \cup {k}}
    BY <2>1 DEF FreshTo
  <2>2. FreshTo(k + 1) = FreshTo(k) \cup FreshScript[k]
    BY <2>0, Zenon DEF FreshTo
  <2>3. FreshScript[1] \subseteq FreshTo(k + 1)
    BY <2>1 DEF FreshTo
  <2>4. FreshScript[k] \subseteq Base
    BY <1>2
  <2> QED
    BY <2>2, <2>3, <2>4, <1>1 DEF Names
<1> QED
  BY <1>1, <1>4, <1>5, <1>6, <1>7

\* What each migration adds in all
LEMMA ScriptAdds ==
  /\ Added(Script(2)) = {"commands"} /\ Len(Script(2)) = 1
  /\ Added(Script(3)) = {"sessions.cohort", "locks.reserved", "cohorts"} /\ Len(Script(3)) = 3
  /\ Added(Script(4)) = {"cohorts.status"} /\ Len(Script(4)) = 1
  /\ Added(Script(5)) = Managed /\ Len(Script(5)) = 3
<1>1. Added(Script(2)) = {"commands"} /\ Len(Script(2)) = 1
  BY DEF Added, Script
<1>2. Added(Script(3)) = {"sessions.cohort", "locks.reserved", "cohorts"} /\ Len(Script(3)) = 3
  <2>1. Script(3) = <<{"sessions.cohort"}, {"locks.reserved"}, {"cohorts"}>>
    BY DEF Script
  <2>2. DOMAIN Script(3) = {1, 2, 3} /\ Len(Script(3)) = 3
    BY <2>1
  <2> QED
    BY <2>1, <2>2 DEF Added
<1>3. Added(Script(4)) = {"cohorts.status"} /\ Len(Script(4)) = 1
  BY DEF Added, Script
<1>4. Added(Script(5)) = Managed /\ Len(Script(5)) = 3
  <2>1. Script(5) = <<{"cluster_arbitrations"}, {"cluster_locks"}, {"ix_cluster_locks"}>>
    BY DEF Script
  <2>2. DOMAIN Script(5) = {1, 2, 3} /\ Len(Script(5)) = 3
    BY <2>1
  <2> QED
    BY <2>1, <2>2 DEF Added, Managed
<1> QED
  BY <1>1, <1>2, <1>3, <1>4

LEMMA ScriptDomain == \A v \in 2..5 : DOMAIN Script(v) = 1..Len(Script(v))
<1> SUFFICES ASSUME NEW v \in 2..5 PROVE DOMAIN Script(v) = 1..Len(Script(v))
  OBVIOUS
<1>0. v = 2 \/ v = 3 \/ v = 4 \/ v = 5
  OBVIOUS
<1>1. CASE v = 2 \/ v = 4
  <2>1. DOMAIN Script(2) = 1..1 /\ DOMAIN Script(4) = 1..1
    BY DEF Script
  <2> QED
    BY <1>1, <2>1, ScriptAdds
<1>2. CASE v = 3
  <2>1. Script(3) = <<{"sessions.cohort"}, {"locks.reserved"}, {"cohorts"}>>
    BY DEF Script
  <2> QED
    BY <1>2, <2>1
<1>3. CASE v = 5
  <2>1. Script(5) = <<{"cluster_arbitrations"}, {"cluster_locks"}, {"ix_cluster_locks"}>>
    BY DEF Script
  <2> QED
    BY <1>3, <2>1
<1> QED
  BY <1>0, <1>1, <1>2, <1>3

LEMMA ScriptParts ==
  ASSUME NEW v \in 2..5
  PROVE  /\ Len(Script(v)) \in 1..3 /\ ScriptTo(v, 1) = {}
         /\ ScriptTo(v, Len(Script(v)) + 1) = Added(Script(v))
         /\ \A k \in 1..Len(Script(v)) : ScriptTo(v, k + 1) = ScriptTo(v, k) \cup Script(v)[k]
         /\ Added(Script(v)) \subseteq (BaseNames \ {"schema_migrations"}) \cup Managed
<1>1. v = 2 \/ v = 3 \/ v = 4 \/ v = 5
  OBVIOUS
<1>2. Len(Script(v)) \in 1..3
  BY <1>1, ScriptAdds
<1>3. ScriptTo(v, 1) = {}
  BY DEF ScriptTo
<1>4. DOMAIN Script(v) = 1..Len(Script(v))
  BY ScriptDomain
<1>5. ScriptTo(v, Len(Script(v)) + 1) = Added(Script(v))
  <2>1. 1..(Len(Script(v)) + 1 - 1) = DOMAIN Script(v)
    BY <1>2, <1>4
  <2> QED
    BY <2>1 DEF ScriptTo, Added
<1>6. ASSUME NEW k \in 1..Len(Script(v))
      PROVE  ScriptTo(v, k + 1) = ScriptTo(v, k) \cup Script(v)[k]
  <2>1. 1..(k + 1 - 1) = (1..(k - 1)) \cup {k}
    BY <1>2
  <2>2. ScriptTo(v, k + 1) = UNION {Script(v)[i] : i \in (1..(k - 1)) \cup {k}}
    BY <2>1 DEF ScriptTo
  <2> QED
    BY <2>2, Zenon DEF ScriptTo
<1>7. Added(Script(v)) \subseteq (BaseNames \ {"schema_migrations"}) \cup Managed
  BY <1>1, ScriptAdds DEF BaseNames, Managed
<1> QED
  BY <1>2, <1>3, <1>5, <1>6, <1>7

\* The objects of the genuine versions
LEMMA GenuineObjs ==
  /\ \A v \in 1..5 : /\ {"schema_migrations", "sessions", "locks"} \subseteq ObjsAt(v)
                     /\ ObjsAt(v) \subseteq BaseNames \cup Managed
  /\ \A v \in 2..5 : ObjsAt(v) = ObjsAt(v - 1) \cup Added(Script(v))
  /\ ObjsAt(4) = BaseNames /\ ObjsAt(5) = BaseNames \cup Managed
<1>1. ASSUME NEW v \in 2..5 PROVE ObjsAt(v) = ObjsAt(v - 1) \cup Added(Script(v))
  <2>1. 2..v = (2..(v - 1)) \cup {v}
    OBVIOUS
  <2> QED
    BY <2>1, Zenon DEF ObjsAt
<1>2. ObjsAt(1) = {"schema_migrations", "sessions", "locks"}
  <2>1. 2..1 = {}
    OBVIOUS
  <2> QED
    BY <2>1 DEF ObjsAt
<1>3. ObjsAt(2) = ObjsAt(1) \cup {"commands"}
  BY <1>1, ScriptAdds
<1>4. ObjsAt(3) = ObjsAt(2) \cup {"sessions.cohort", "locks.reserved", "cohorts"}
  BY <1>1, ScriptAdds
<1>5. ObjsAt(4) = ObjsAt(3) \cup {"cohorts.status"}
  BY <1>1, ScriptAdds
<1>6. ObjsAt(5) = ObjsAt(4) \cup Managed
  BY <1>1, ScriptAdds
<1>7. ObjsAt(4) = BaseNames
  BY <1>2, <1>3, <1>4, <1>5 DEF BaseNames
<1>8. ASSUME NEW v \in 1..5
      PROVE  /\ {"schema_migrations", "sessions", "locks"} \subseteq ObjsAt(v)
             /\ ObjsAt(v) \subseteq BaseNames \cup Managed
  <2>1. v = 1 \/ v = 2 \/ v = 3 \/ v = 4 \/ v = 5
    OBVIOUS
  <2> QED
    BY <2>1, <1>2, <1>3, <1>4, <1>5, <1>6, <1>7 DEF BaseNames
<1> QED
  BY <1>1, <1>6, <1>7, <1>8

-----------------------------------------------------------------------------
(* Versions *)

LEMMA VersionIs ==
  ASSUME NEW d, Possible(d)
  PROVE  /\ Version(d) \in 0..6 /\ Version(d) \in d.versions \cup {0}
         /\ \A u \in d.versions : u <= Version(d)
<1> DEFINE S == d.versions \cup {0}
<1>1. d.versions \subseteq 1..6
  BY DEF Possible
<1>2. S \subseteq 0..6 /\ 0 \in S
  BY <1>1
<1>3. \E x \in S : \A y \in S : x >= y
  <2>1. CASE 6 \in S
    BY <2>1, <1>2
  <2>2. CASE 6 \notin S /\ 5 \in S
    <3>1. \A y \in S : 5 >= y
      BY <2>2, <1>2
    <3> QED
      BY <3>1, <2>2
  <2>3. CASE 6 \notin S /\ 5 \notin S /\ 4 \in S
    <3>1. \A y \in S : 4 >= y
      BY <2>3, <1>2
    <3> QED
      BY <3>1, <2>3
  <2>4. CASE 6 \notin S /\ 5 \notin S /\ 4 \notin S /\ 3 \in S
    <3>1. \A y \in S : 3 >= y
      BY <2>4, <1>2
    <3> QED
      BY <3>1, <2>4
  <2>5. CASE 6 \notin S /\ 5 \notin S /\ 4 \notin S /\ 3 \notin S /\ 2 \in S
    <3>1. \A y \in S : 2 >= y
      BY <2>5, <1>2
    <3> QED
      BY <3>1, <2>5
  <2>6. CASE 6 \notin S /\ 5 \notin S /\ 4 \notin S /\ 3 \notin S /\ 2 \notin S /\ 1 \in S
    <3>1. \A y \in S : 1 >= y
      BY <2>6, <1>2
    <3> QED
      BY <3>1, <2>6
  <2>7. CASE S = {0}
    BY <2>7
  <2> HIDE DEF S
  <2> QED
    BY <1>2, <2>1, <2>2, <2>3, <2>4, <2>5, <2>6, <2>7
<1>4. Max(S) \in S /\ \A y \in S : Max(S) >= y
  BY <1>3 DEF Max
<1>5. Version(d) = Max(S)
  BY DEF Version
<1> QED
  BY <1>1, <1>2, <1>4, <1>5

LEMMA VersionOf ==
  ASSUME NEW d, Possible(d), NEW n \in 0..6, n \in d.versions \cup {0},
         \A u \in d.versions : u <= n
  PROVE  Version(d) = n
<1>1. d.versions \subseteq 1..6
  BY DEF Possible
<1> QED
  BY <1>1, VersionIs

\* The version depends on the rows only
LEMMA VersionSame == ASSUME NEW d, NEW e, d.versions = e.versions PROVE Version(d) = Version(e)
BY DEF Version

-----------------------------------------------------------------------------
(* The invariant *)

StageShape ==
  \/ stage \in {<<"down">>, <<"refused">>, <<"pragma">>, <<"guard">>, <<"open">>,
                <<"index", 0, 1>>}
  \/ \E k \in 1..6 : stage = <<"fresh", 4, k>>
  \/ \E v \in 2..5 : stage = <<"begin", v, 1>>
  \/ \E v \in 2..5 : \E k \in 1..(Len(Script(v)) + 1) : stage = <<"migrate", v, k>>

SchemaShapes ==
  /\ Possible(disk) /\ Possible(work) /\ Possible(found) /\ Possible(first)
  /\ opens \in 0..MaxOpens
  /\ StageShape

\* The open transaction has what its statements added
Working ==
  IF stage[1] = "migrate"
  THEN work = [disk EXCEPT !.objs = @ \cup ScriptTo(stage[2], stage[3])]
  ELSE work = disk

\* A database made by this start is the base and nothing else
Fresh ==
  /\ stage[1] = "fresh" =>
       found.objs = {} /\ disk.objs = FreshTo(stage[3]) /\ disk.versions = {}
  /\ stage[1] = "pragma" => found.objs = {} /\ disk.objs = Base /\ disk.versions = {4}

\* The migrations go one by one from the version found, and the fifth on a base
\* that was looked at.
Moving ==
  /\ stage[1] \in {"begin", "migrate"} =>
       /\ "schema_migrations" \in disk.objs /\ "odd migrations" \notin disk.objs
       /\ Version(disk) = stage[2] - 1
       /\ found.objs = {} => disk.objs = Base /\ disk.versions = {4} /\ disk.user = 4
       /\ found.objs # {} => /\ Version(found) \in 1..(stage[2] - 1)
                             /\ Version(found) = 4 => disk = found
  /\ stage[1] = "migrate" /\ stage[2] = 5 =>
       BaseValid(disk) /\ "odd managed" \notin disk.objs

\* What the guard asks for
Checked(d) ==
  /\ Version(d) = Current /\ {"sessions", "cohorts", "locks", "commands"} \subseteq d.objs
  /\ ManagedExact(d) /\ d.user <= Current

Guarding ==
  stage[1] = "guard" =>
    /\ "odd migrations" \notin disk.objs
    /\ disk = found \/ Version(found) \in 1..3 \/ Checked(disk)

Opening ==
  /\ stage[1] \in {"index", "open"} =>
       Checked(disk) /\ disk.user = Current /\ "odd migrations" \notin disk.objs
  /\ stage[1] = "open" => Overlay \subseteq disk.objs

GenuineNow ==
  /\ Version(disk) \in 1..5 /\ disk.objs \ Overlay = ObjsAt(Version(disk))
  /\ disk.versions = 1..Version(disk) /\ disk.user = Version(disk)

FromGenuine ==
  first \in {Genuine(v) : v \in 1..Current} =>
    /\ GenuineNow /\ found.objs # {} /\ stage[1] # "refused"
    /\ stage[1] = "guard" => Version(disk) = 5

SchemaIInv ==
  /\ SchemaShapes /\ Working /\ Fresh /\ Moving /\ Guarding /\ Opening /\ FromGenuine
  /\ RefusedUntouched /\ PragmaLags

\* What the conditions of the stages come to
LEMMA StageNames ==
  ASSUME StageShape
  PROVE  /\ stage[1] = "down" => stage = <<"down">>
         /\ stage[1] = "refused" => stage = <<"refused">>
         /\ stage[1] = "pragma" => stage = <<"pragma">>
         /\ stage[1] = "guard" => stage = <<"guard">>
         /\ stage[1] = "open" => stage = <<"open">>
         /\ stage[1] = "index" => stage = <<"index", 0, 1>>
         /\ stage[1] = "fresh" => stage[3] \in 1..6 /\ stage = <<"fresh", 4, stage[3]>>
         /\ stage[1] = "begin" => stage[2] \in 2..5 /\ stage = <<"begin", stage[2], 1>>
         /\ stage[1] = "migrate" =>
              /\ stage[2] \in 2..5 /\ stage[3] \in 1..(Len(Script(stage[2])) + 1)
              /\ stage = <<"migrate", stage[2], stage[3]>>
         /\ stage[1] \in {"down", "refused", "pragma", "guard", "open", "index", "fresh",
                          "begin", "migrate"}
<1>1. CASE stage \in {<<"down">>, <<"refused">>, <<"pragma">>, <<"guard">>, <<"open">>,
                      <<"index", 0, 1>>}
  BY <1>1
<1>2. CASE \E k \in 1..6 : stage = <<"fresh", 4, k>>
  BY <1>2
<1>3. CASE \E v \in 2..5 : stage = <<"begin", v, 1>>
  BY <1>3
<1>4. CASE \E v \in 2..5 : \E k \in 1..(Len(Script(v)) + 1) : stage = <<"migrate", v, k>>
  <2>1. PICK v \in 2..5 : \E k \in 1..(Len(Script(v)) + 1) : stage = <<"migrate", v, k>>
    BY <1>4
  <2>2. PICK k \in 1..(Len(Script(v)) + 1) : stage = <<"migrate", v, k>>
    BY <2>1
  <2>3. stage[1] = "migrate" /\ stage[2] = v /\ stage[3] = k
    BY <2>2
  <2> QED
    BY <2>2, <2>3
<1> QED
  BY <1>1, <1>2, <1>3, <1>4 DEF StageShape

\* The invariant has the properties
LEMMA SchemaIInvImplies == SchemaIInv => SchemaInv
<1> SUFFICES ASSUME SchemaIInv PROVE SchemaInv
  OBVIOUS
<1>1. TypeOKSchema
  <2>1. ASSUME NEW d, Possible(d)
        PROVE  d.objs \subseteq Names /\ d.versions \subseteq 1..6 /\ d.user \in 0..6
    BY <2>1 DEF Possible
  <2> QED
    BY <2>1 DEF SchemaIInv, SchemaShapes, TypeOKSchema
<1>2. OpenIsCurrent
  <2> SUFFICES ASSUME stage = <<"open">> PROVE OpenIsCurrent
    BY DEF OpenIsCurrent
  <2>1. stage[1] = "open"
    OBVIOUS
  <2>2. Checked(disk) /\ disk.user = Current /\ "odd migrations" \notin disk.objs
        /\ Overlay \subseteq disk.objs
    BY <2>1 DEF SchemaIInv, Opening
  <2> QED
    BY <2>2 DEF OpenIsCurrent, Checked, ManagedExact
<1>3. GenuineStays
  BY DEF SchemaIInv, FromGenuine, GenuineNow, GenuineStays
<1> QED
  BY <1>1, <1>2, <1>3 DEF SchemaIInv, SchemaInv

\* A genuine database is a possible one, of its version
LEMMA GenuinePossible ==
  ASSUME NEW v \in 1..5
  PROVE  /\ Possible(Genuine(v)) /\ Version(Genuine(v)) = v
         /\ Genuine(v).objs \cap Overlay = {} /\ Genuine(v).objs # {}
         /\ "odd migrations" \notin Genuine(v).objs
<1>1. ObjsAt(v) \subseteq Names /\ "schema_migrations" \in ObjsAt(v)
      /\ ObjsAt(v) \cap Overlay = {} /\ "odd migrations" \notin ObjsAt(v)
  BY GenuineObjs, FreshParts DEF Names, BaseNames, Managed, Overlay
<1>2. Possible(Genuine(v))
  <2>1. 1..v \subseteq 1..6 /\ v \in 0..6
    OBVIOUS
  <2>2. ObjsAt(v) \in SUBSET Names /\ 1..v \in SUBSET (1..6)
    BY <1>1, <2>1
  <2> QED
    BY <1>1, <2>1, <2>2 DEF Possible, Genuine
<1>3. Version(Genuine(v)) = v
  BY <1>2, VersionOf DEF Genuine
<1> QED
  BY <1>1, <1>2, <1>3 DEF Genuine

LEMMA SchemaStarts == SchemaInit => SchemaIInv
<1> SUFFICES ASSUME SchemaInit PROVE SchemaIInv
  OBVIOUS
<1>1. Possible(disk) /\ stage = <<"down">> /\ stage[1] = "down" /\ work = disk
      /\ found = disk /\ first = disk /\ opens = 0 /\ MaxOpens \in Nat
  BY SchemaAssumption DEF SchemaInit
<1>2. SchemaShapes
  BY <1>1 DEF SchemaShapes, StageShape
<1>3. FromGenuine
  <2> SUFFICES ASSUME NEW v \in 1..5, first = Genuine(v)
               PROVE  GenuineNow /\ found.objs # {}
    BY <1>1 DEF FromGenuine, Current
  <2>1. disk.objs = ObjsAt(v) /\ disk.versions = 1..v /\ disk.user = v /\ Version(disk) = v
        /\ disk.objs \cap Overlay = {} /\ disk.objs # {}
    <3>1. disk = Genuine(v)
      BY <1>1
    <3>2. Genuine(v).objs = ObjsAt(v) /\ Genuine(v).versions = 1..v /\ Genuine(v).user = v
      BY DEF Genuine
    <3> QED
      BY <3>1, <3>2, GenuinePossible
  <2> QED
    BY <1>1, <2>1 DEF GenuineNow
<1>4. RefusedUntouched /\ PragmaLags
  <2>1. Version(disk) \in Int /\ disk.user \in Int
    BY <1>1, VersionIs DEF Possible
  <2> QED
    BY <1>1, <2>1 DEF RefusedUntouched, PragmaLags
<1> QED
  BY <1>1, <1>2, <1>3, <1>4 DEF SchemaIInv, Working, Fresh, Moving, Guarding, Opening

-----------------------------------------------------------------------------
(* The steps *)

LEMMA Grown ==
  ASSUME NEW d, Possible(d), NEW S \in SUBSET Names
  PROVE  /\ Possible([d EXCEPT !.objs = @ \cup S])
         /\ [d EXCEPT !.objs = @ \cup S].objs = d.objs \cup S
         /\ [d EXCEPT !.objs = @ \cup S].versions = d.versions
         /\ [d EXCEPT !.objs = @ \cup S].user = d.user
BY DEF Possible

\* What is not touched by a step that begins or breaks off a start
Restful == UNCHANGED <<disk, first>> /\ work' = disk

LEMMA OpenSchemaKeeps == SchemaIInv /\ Open => SchemaIInv'
<1> SUFFICES ASSUME SchemaIInv, Open PROVE SchemaIInv'
  OBVIOUS
<1>0. PICK v : v = Version(disk)
  OBVIOUS
<1>1. /\ found' = disk /\ work' = disk /\ disk' = disk /\ first' = first
      /\ opens' = opens + 1 /\ opens < MaxOpens
      /\ Possible(disk) /\ Possible(first) /\ opens \in 0..MaxOpens /\ MaxOpens \in Nat
  BY SchemaAssumption DEF Open, SchemaIInv, SchemaShapes
<1>2. /\ v \in 0..6
      /\ \/ disk.objs = {} /\ stage' = <<"fresh", 4, 1>>
         \/ /\ disk.objs # {} /\ "schema_migrations" \notin disk.objs
            /\ stage' = <<"refused">>
         \/ /\ "schema_migrations" \in disk.objs
            /\ \/ "odd migrations" \in disk.objs /\ stage' = <<"refused">>
               \/ "odd migrations" \notin disk.objs /\ v \in 1..4 /\ stage' = <<"begin", v + 1, 1>>
               \/ "odd migrations" \notin disk.objs /\ v \notin 1..4 /\ stage' = <<"guard">>
  BY <1>0, <1>1, VersionIs DEF Open, Goto
<1>3. Version(disk') = v /\ Version(found') = v /\ opens' \in 0..MaxOpens
  BY <1>0, <1>1
<1>4. PragmaLags' /\ RefusedUntouched'
  BY <1>0, <1>1, <1>3 DEF SchemaIInv, PragmaLags, RefusedUntouched
<1>5. first \in {Genuine(u) : u \in 1..Current} =>
        /\ GenuineNow' /\ disk.objs # {} /\ "schema_migrations" \in disk.objs
        /\ "odd migrations" \notin disk.objs /\ v \in 1..5
  <2> SUFFICES ASSUME first \in {Genuine(u) : u \in 1..Current}
               PROVE  /\ GenuineNow' /\ disk.objs # {} /\ "schema_migrations" \in disk.objs
                      /\ "odd migrations" \notin disk.objs /\ v \in 1..5
    OBVIOUS
  <2>1. GenuineNow
    BY DEF SchemaIInv, FromGenuine
  <2>2. GenuineNow'
    BY <2>1, <1>1 DEF GenuineNow
  <2>3. v \in 1..5 /\ disk.objs \ Overlay = ObjsAt(v)
    BY <1>0, <2>1 DEF GenuineNow
  <2>4. "schema_migrations" \in ObjsAt(v) /\ ObjsAt(v) \subseteq BaseNames \cup Managed
    BY <2>3, GenuineObjs
  <2>5. "odd migrations" \notin BaseNames \cup Managed \cup Overlay
    BY DEF BaseNames, Managed, Overlay
  <2> QED
    BY <2>2, <2>3, <2>4, <2>5 DEF Overlay
<1>6. CASE disk.objs = {} /\ stage' = <<"fresh", 4, 1>>
  <2>1. stage'[1] = "fresh" /\ stage'[3] = 1 /\ StageShape'
    BY <1>6 DEF StageShape
  <2>2. disk.versions = {}
    BY <1>1, <1>6 DEF Possible
  <2> QED
    BY <1>1, <1>3, <1>4, <1>5, <1>6, <2>1, <2>2, FreshParts
       DEF SchemaIInv, SchemaShapes, Working, Fresh, Moving, Guarding, Opening, FromGenuine
<1>7. CASE stage' = <<"refused">>
  <2>1. stage'[1] = "refused" /\ StageShape'
    BY <1>7 DEF StageShape
  <2>2. first \notin {Genuine(u) : u \in 1..Current}
    BY <1>2, <1>5, <1>7
  <2> QED
    BY <1>1, <1>3, <1>4, <2>1, <2>2
       DEF SchemaIInv, SchemaShapes, Working, Fresh, Moving, Guarding, Opening, FromGenuine
<1>8. CASE /\ "schema_migrations" \in disk.objs /\ "odd migrations" \notin disk.objs
           /\ v \in 1..4 /\ stage' = <<"begin", v + 1, 1>>
  <2>9. v \in 1..4
    BY <1>8
  <2>0. PICK w \in 2..5 : w = v + 1 /\ w - 1 = v
    BY <2>9
  <2>1. stage'[1] = "begin" /\ stage'[2] = w
    BY <1>8, <2>0
  <2>2. StageShape'
    BY <1>8, <2>0 DEF StageShape
  <2>3. Moving'
    <3>1. "schema_migrations" \in disk'.objs /\ "odd migrations" \notin disk'.objs
      BY <1>1, <1>8
    <3>2. Version(disk') = stage'[2] - 1 /\ Version(found') \in 1..(stage'[2] - 1)
      BY <1>3, <2>0, <2>1, <2>9
    <3>3. disk' = found' /\ found'.objs # {}
      BY <1>1, <1>8
    <3> QED
      BY <3>1, <3>2, <3>3, <2>1 DEF Moving
  <2>4. FromGenuine'
    BY <1>1, <1>5, <2>1 DEF FromGenuine
  <2> QED
    BY <1>1, <1>3, <1>4, <2>1, <2>2, <2>3, <2>4
       DEF SchemaIInv, SchemaShapes, Working, Fresh, Guarding, Opening
<1>9. CASE /\ "schema_migrations" \in disk.objs /\ "odd migrations" \notin disk.objs
           /\ v \notin 1..4 /\ stage' = <<"guard">>
  <2>1. stage'[1] = "guard" /\ StageShape'
    BY <1>9 DEF StageShape
  <2>2. FromGenuine'
    <3>0. v \notin 1..4
      BY <1>9
    <3>1. v \in 1..5 => v = 5
      BY <3>0
    <3> QED
      BY <1>1, <1>3, <1>5, <2>1, <3>1 DEF FromGenuine
  <2> QED
    BY <1>1, <1>3, <1>4, <1>9, <2>1, <2>2
       DEF SchemaIInv, SchemaShapes, Working, Fresh, Moving, Guarding, Opening
<1> QED
  BY <1>2, <1>6, <1>7, <1>8, <1>9

LEMMA FreshStatementKeeps == SchemaIInv /\ FreshStatement => SchemaIInv' /\ NothingLost
<1> SUFFICES ASSUME SchemaIInv, FreshStatement PROVE SchemaIInv' /\ NothingLost
  OBVIOUS
<1> DEFINE k == stage[3]
<1>1. /\ stage[1] = "fresh" /\ k <= 5 /\ k \in 1..5
      /\ disk' = [disk EXCEPT !.objs = @ \cup FreshScript[k]] /\ work' = disk'
      /\ stage' = <<"fresh", 4, k + 1>> /\ UNCHANGED <<found, first, opens>>
      /\ Possible(disk) /\ SchemaShapes
  BY StageNames, FreshParts DEF FreshStatement, Goto, Stay, SchemaIInv, SchemaShapes
<1>2. FreshScript[k] \in SUBSET Names
  BY <1>1, FreshParts
<1>3. /\ Possible(disk') /\ disk'.objs = disk.objs \cup FreshScript[k]
      /\ disk'.versions = disk.versions /\ disk'.user = disk.user
  BY <1>1, <1>2, Grown
<1>4. stage'[1] = "fresh" /\ stage'[3] = k + 1 /\ StageShape'
  BY <1>1 DEF StageShape
<1>5. found.objs = {} /\ disk.objs = FreshTo(k) /\ disk.versions = {}
  BY <1>1 DEF SchemaIInv, Fresh
<1>6. Fresh'
  BY <1>1, <1>3, <1>4, <1>5, FreshParts DEF Fresh
<1>7. first \notin {Genuine(u) : u \in 1..Current}
  BY <1>5 DEF SchemaIInv, FromGenuine
<1>8. PragmaLags' /\ RefusedUntouched'
  <2>1. Version(disk') = Version(disk)
    BY <1>3, VersionSame
  <2> QED
    BY <2>1, <1>1, <1>3, <1>4 DEF SchemaIInv, PragmaLags, RefusedUntouched
<1> HIDE DEF k
<1> QED
  BY <1>1, <1>3, <1>4, <1>6, <1>7, <1>8
     DEF SchemaIInv, SchemaShapes, Working, Moving, Guarding, Opening, FromGenuine, NothingLost

LEMMA FreshVersionKeeps == SchemaIInv /\ FreshVersion => SchemaIInv' /\ NothingLost
<1> SUFFICES ASSUME SchemaIInv, FreshVersion PROVE SchemaIInv' /\ NothingLost
  OBVIOUS
<1>1. /\ stage = <<"fresh", 4, 6>> /\ stage[1] = "fresh" /\ stage[3] = 6
      /\ disk' = [disk EXCEPT !.versions = {4}] /\ work' = disk'
      /\ stage' = <<"pragma">> /\ UNCHANGED <<found, first, opens>>
      /\ Possible(disk) /\ SchemaShapes
  BY FreshParts DEF FreshVersion, Goto, Stay, SchemaIInv, SchemaShapes
<1>2. found.objs = {} /\ disk.objs = Base /\ disk.versions = {} /\ "schema_migrations" \in Base
  BY <1>1, FreshParts DEF SchemaIInv, Fresh, BaseNames
<1>3. /\ Possible(disk') /\ disk'.objs = disk.objs
      /\ disk'.versions = {4} /\ disk'.user = disk.user
  BY <1>1, <1>2 DEF Possible
<1>4. stage'[1] = "pragma" /\ StageShape'
  BY <1>1 DEF StageShape
<1>5. first \notin {Genuine(u) : u \in 1..Current}
  BY <1>2 DEF SchemaIInv, FromGenuine
<1>6. PragmaLags' /\ RefusedUntouched'
  <2>1. Version(disk') = 4 /\ Version(disk) = 0
    <3>1. 4 \in 0..6 /\ 0 \in 0..6
      OBVIOUS
    <3>2. Version(disk') = 4
      BY <1>3, <3>1, VersionOf
    <3>3. Version(disk) = 0
      BY <1>1, <1>2, <3>1, VersionOf
    <3> QED
      BY <3>2, <3>3
  <2>2. disk.user <= 0 \/ first.user > Version(first)
    BY <2>1 DEF SchemaIInv, PragmaLags
  <2>3. disk.user \in 0..6
    BY <1>1 DEF Possible
  <2> QED
    BY <2>1, <2>2, <2>3, <1>1, <1>3, <1>4 DEF PragmaLags, RefusedUntouched
<1> QED
  BY <1>1, <1>2, <1>3, <1>4, <1>5, <1>6
     DEF SchemaIInv, SchemaShapes, Working, Fresh, Moving, Guarding, Opening, FromGenuine, NothingLost

LEMMA FreshPragmaKeeps == SchemaIInv /\ FreshPragma => SchemaIInv' /\ NothingLost
<1> SUFFICES ASSUME SchemaIInv, FreshPragma PROVE SchemaIInv' /\ NothingLost
  OBVIOUS
<1>1. /\ stage = <<"pragma">> /\ stage[1] = "pragma"
      /\ disk' = [disk EXCEPT !.user = 4] /\ work' = disk'
      /\ stage' = <<"begin", 5, 1>> /\ UNCHANGED <<found, first, opens>>
      /\ Possible(disk) /\ SchemaShapes
  BY DEF FreshPragma, Goto, Stay, SchemaIInv, SchemaShapes
<1>2. found.objs = {} /\ disk.objs = Base /\ disk.versions = {4}
  BY <1>1 DEF SchemaIInv, Fresh
<1>3. /\ Possible(disk') /\ disk'.objs = disk.objs
      /\ disk'.versions = {4} /\ disk'.user = 4
  BY <1>1, <1>2 DEF Possible
<1>4. stage'[1] = "begin" /\ stage'[2] = 5 /\ StageShape'
  BY <1>1 DEF StageShape
<1>5. first \notin {Genuine(u) : u \in 1..Current}
  BY <1>2 DEF SchemaIInv, FromGenuine
<1>6. Version(disk') = 4
  BY <1>3, VersionOf
<1>7. PragmaLags' /\ RefusedUntouched'
  BY <1>6, <1>1, <1>3, <1>4 DEF PragmaLags, RefusedUntouched
<1>8. "schema_migrations" \in Base /\ "odd migrations" \notin Base
  BY FreshParts DEF BaseNames
<1>9. Moving'
  <2>1. "schema_migrations" \in disk'.objs /\ "odd migrations" \notin disk'.objs
    BY <1>2, <1>3, <1>8
  <2>2. Version(disk') = stage'[2] - 1
    BY <1>4, <1>6
  <2>3. disk'.objs = Base /\ disk'.versions = {4} /\ disk'.user = 4 /\ found'.objs = {}
    BY <1>1, <1>2, <1>3
  <2> QED
    BY <2>1, <2>2, <2>3, <1>4 DEF Moving
<1> QED
  BY <1>1, <1>2, <1>3, <1>4, <1>5, <1>7, <1>9
     DEF SchemaIInv, SchemaShapes, Working, Fresh, Guarding, Opening, FromGenuine, NothingLost

LEMMA LeaveKeeps == SchemaIInv /\ Leave => SchemaIInv' /\ NothingLost
<1> SUFFICES ASSUME SchemaIInv, Leave PROVE SchemaIInv' /\ NothingLost
  OBVIOUS
<1>1. /\ stage' = <<"down">> /\ work' = disk /\ disk' = disk
      /\ UNCHANGED <<found, first, opens>> /\ SchemaShapes /\ Possible(disk)
  BY DEF Leave, Goto, Stay, SchemaIInv, SchemaShapes
<1>2. stage'[1] = "down" /\ StageShape' /\ stage' # <<"refused">>
  BY <1>1 DEF StageShape
<1>3. FromGenuine'
  BY <1>1, <1>2 DEF SchemaIInv, FromGenuine, GenuineNow
<1>4. PragmaLags' /\ RefusedUntouched'
  BY <1>1, <1>2 DEF SchemaIInv, PragmaLags, RefusedUntouched
<1> QED
  BY <1>1, <1>2, <1>3, <1>4
     DEF SchemaIInv, SchemaShapes, Working, Fresh, Moving, Guarding, Opening, NothingLost

LEMMA BeginKeeps == SchemaIInv /\ BeginMigration => SchemaIInv' /\ NothingLost
<1> SUFFICES ASSUME SchemaIInv, BeginMigration PROVE SchemaIInv' /\ NothingLost
  OBVIOUS
<1>1. /\ stage[1] = "begin" /\ work' = disk /\ disk' = disk
      /\ UNCHANGED <<found, first, opens>> /\ SchemaShapes /\ Possible(disk)
      /\ stage[2] \in 2..5
  BY StageNames DEF BeginMigration, Stay, SchemaIInv, SchemaShapes
<1>2. /\ "schema_migrations" \in disk.objs /\ "odd migrations" \notin disk.objs
      /\ Version(disk) = stage[2] - 1
      /\ found.objs = {} => disk.objs = Base /\ disk.versions = {4} /\ disk.user = 4
      /\ found.objs # {} => /\ Version(found) \in 1..(stage[2] - 1)
                            /\ Version(found) = 4 => disk = found
  BY <1>1 DEF SchemaIInv, Moving
<1>3. PragmaLags' /\ NothingLost
  BY <1>1 DEF SchemaIInv, PragmaLags, NothingLost
<1>4. CASE Admissible(stage[2], disk)
  <2>1. stage' = <<"migrate", stage[2], 1>>
    BY <1>4 DEF BeginMigration, Goto
  <2>2. stage'[1] = "migrate" /\ stage'[2] = stage[2] /\ stage'[3] = 1
    BY <2>1
  <2>3. StageShape'
    <3>1. 1 \in 1..(Len(Script(stage[2])) + 1)
      BY <1>1, ScriptParts
    <3> QED
      BY <1>1, <2>1, <3>1 DEF StageShape
  <2>4. Working'
    <3>1. ScriptTo(stage[2], 1) = {}
      BY <1>1, ScriptParts
    <3>2. disk = [disk EXCEPT !.objs = @ \cup {}]
      BY <1>1 DEF Possible
    <3>3. disk' = [disk' EXCEPT !.objs = @ \cup ScriptTo(stage'[2], stage'[3])]
      BY <1>1, <2>2, <3>1, <3>2
    <3> QED
      BY <1>1, <2>2, <3>3 DEF Working
  <2>5. Moving'
    <3>1. stage[2] = 5 => BaseValid(disk) /\ "odd managed" \notin disk.objs
      BY <1>4 DEF Admissible
    <3> QED
      BY <1>1, <1>2, <2>2, <3>1 DEF Moving, BaseValid
  <2>6. FromGenuine' /\ RefusedUntouched'
    BY <1>1, <2>1, <2>2 DEF SchemaIInv, FromGenuine, GenuineNow, RefusedUntouched
  <2> QED
    BY <1>1, <1>3, <2>2, <2>3, <2>4, <2>5, <2>6
       DEF SchemaIInv, SchemaShapes, Fresh, Guarding, Opening
<1>5. CASE ~Admissible(stage[2], disk)
  <2>1. stage' = <<"refused">> /\ stage'[1] = "refused"
    BY <1>5 DEF BeginMigration, Goto
  <2>0. stage[2] = 5
    BY <1>5 DEF Admissible
  <2>9. Version(disk) = 5 - 1
    BY <1>2, <2>0
  <2>2. stage[2] = 5 /\ Version(disk) = 4 /\ 4 \in 0..4
    BY <2>0, <2>9
  <2>3. found.objs # {}
    <3> SUFFICES ASSUME found.objs = {} PROVE FALSE
      OBVIOUS
    <3>1. "odd column" \notin Base /\ (Managed \cup {"odd managed"}) \cap Base = {}
      BY FreshParts DEF BaseNames, Managed
    <3>2. disk.objs = Base /\ disk.user = 4
      BY <1>2
    <3>3. BaseValid(disk)
      BY <2>2, <3>1, <3>2 DEF BaseValid
    <3> QED
      BY <1>5, <2>0, <3>1, <3>2, <3>3 DEF Admissible
  <2>4. RefusedUntouched'
    <3>1. Version(found) \in 1..4 /\ (Version(found) = 4 => disk = found)
      BY <1>2, <2>2, <2>3
    <3>2. Version(found) \notin 1..3 => Version(found) = 4
      BY <3>1
    <3> QED
      BY <1>1, <3>1, <3>2 DEF RefusedUntouched
  <2>5. first \notin {Genuine(u) : u \in 1..Current}
    <3> SUFFICES ASSUME first \in {Genuine(u) : u \in 1..Current} PROVE FALSE
      OBVIOUS
    <3>1. disk.objs \ Overlay = BaseNames /\ disk.user = 4
      BY <2>2, GenuineObjs DEF SchemaIInv, FromGenuine, GenuineNow
    <3>2. /\ Base \subseteq disk.objs /\ "odd column" \notin disk.objs
          /\ (Managed \cup {"odd managed"}) \cap disk.objs = {}
      <4>1. disk.objs \subseteq BaseNames \cup Overlay /\ BaseNames \subseteq disk.objs
        BY <3>1
      <4>2. /\ "odd column" \notin BaseNames \cup Overlay
            /\ (Managed \cup {"odd managed"}) \cap (BaseNames \cup Overlay) = {}
        BY DEF BaseNames, Managed, Overlay
      <4> QED
        BY <4>1, <4>2, FreshParts
    <3>3. BaseValid(disk)
      BY <2>2, <3>1, <3>2 DEF BaseValid
    <3> QED
      BY <1>5, <2>0, <3>2, <3>3 DEF Admissible
  <2>6. StageShape'
    BY <2>1 DEF StageShape
  <2> QED
    BY <1>1, <1>3, <2>1, <2>4, <2>5, <2>6
       DEF SchemaIInv, SchemaShapes, Working, Fresh, Moving, Guarding, Opening, FromGenuine
<1> QED
  BY <1>4, <1>5

LEMMA MigrateStatementKeeps == SchemaIInv /\ MigrateStatement => SchemaIInv' /\ NothingLost
<1> SUFFICES ASSUME SchemaIInv, MigrateStatement PROVE SchemaIInv' /\ NothingLost
  OBVIOUS
<1>0. PICK v, k : v = stage[2] /\ k = stage[3]
  OBVIOUS
<1>1. /\ stage[1] = "migrate" /\ v \in 2..5 /\ k \in 1..Len(Script(v))
      /\ work' = [work EXCEPT !.objs = @ \cup Script(v)[k]]
      /\ stage' = <<"migrate", v, k + 1>> /\ UNCHANGED <<disk, found, first, opens>>
      /\ Possible(disk) /\ Possible(work) /\ SchemaShapes
      /\ work = [disk EXCEPT !.objs = @ \cup ScriptTo(v, k)]
  <2>1. stage[1] = "migrate" /\ k <= Len(Script(v)) /\ SchemaShapes
    BY <1>0 DEF MigrateStatement, SchemaIInv
  <2>2. v \in 2..5 /\ k \in 1..(Len(Script(v)) + 1)
    BY <1>0, <2>1, StageNames DEF SchemaShapes
  <2>3. k \in 1..Len(Script(v))
    BY <2>1, <2>2, ScriptParts
  <2> QED
    BY <1>0, <2>1, <2>2, <2>3
       DEF MigrateStatement, Goto, Stay, SchemaIInv, SchemaShapes, Working
<1>2. stage'[1] = "migrate" /\ stage'[2] = v /\ stage'[3] = k + 1
  BY <1>1
<1>3. StageShape'
  <2>1. k + 1 \in 1..(Len(Script(v)) + 1)
    BY <1>1, ScriptParts
  <2> QED
    BY <1>1, <2>1 DEF StageShape
<1>4. /\ ScriptTo(v, k + 1) = ScriptTo(v, k) \cup Script(v)[k]
      /\ Script(v)[k] \subseteq Added(Script(v)) /\ Added(Script(v)) \subseteq Names
  <2>1. Script(v)[k] \subseteq ScriptTo(v, k + 1)
    BY <1>1, ScriptParts
  <2>2. DOMAIN Script(v) = 1..Len(Script(v)) /\ Added(Script(v)) \subseteq Names
    BY <1>1, ScriptDomain, ScriptParts, FreshParts DEF Names
  <2> QED
    BY <1>1, <2>2, ScriptParts DEF Added
<1>5. Possible(work')
  BY <1>1, <1>4, Grown
<1>6. Working'
  <2>1. work' = [disk EXCEPT !.objs = @ \cup ScriptTo(v, k + 1)]
    BY <1>1, <1>4 DEF Possible
  <2> QED
    BY <1>1, <1>2, <2>1 DEF Working
<1>7. Moving'
  BY <1>0, <1>1, <1>2 DEF SchemaIInv, Moving, BaseValid
<1>8. FromGenuine' /\ RefusedUntouched' /\ PragmaLags' /\ NothingLost
  BY <1>1, <1>2 DEF SchemaIInv, FromGenuine, GenuineNow, RefusedUntouched, PragmaLags, NothingLost
<1> QED
  BY <1>1, <1>2, <1>3, <1>5, <1>6, <1>7, <1>8
     DEF SchemaIInv, SchemaShapes, Fresh, Guarding, Opening

\* A committed migration leads a genuine database to the next version
LEMMA CommitGenuine ==
  ASSUME SchemaIInv, NEW v \in 2..5, Version(disk) = v - 1,
         disk'.objs = disk.objs \cup Added(Script(v)), disk'.versions = disk.versions \cup {v},
         disk'.user = v, Version(disk') = v,
         first \in {Genuine(u) : u \in 1..Current}
  PROVE  GenuineNow'
<1>1. /\ disk.objs \ Overlay = ObjsAt(v - 1) /\ disk.versions = 1..(v - 1)
  BY DEF SchemaIInv, FromGenuine, GenuineNow
<1>2. Added(Script(v)) \cap Overlay = {}
  <2>1. (BaseNames \cup Managed) \cap Overlay = {}
    BY DEF BaseNames, Managed, Overlay
  <2> QED
    BY <2>1, ScriptParts
<1>3. disk'.objs \ Overlay = ObjsAt(v)
  BY <1>1, <1>2, GenuineObjs
<1>4. 1..v = (1..(v - 1)) \cup {v} /\ v \in 1..5
  OBVIOUS
<1> QED
  BY <1>1, <1>3, <1>4 DEF GenuineNow

LEMMA CommitKeeps == SchemaIInv /\ CommitMigration => SchemaIInv' /\ NothingLost
<1> SUFFICES ASSUME SchemaIInv, CommitMigration PROVE SchemaIInv' /\ NothingLost
  OBVIOUS
<1>0. PICK v : v = stage[2]
  OBVIOUS
<1>1. /\ stage[1] = "migrate" /\ v \in 2..5 /\ stage[3] = Len(Script(v)) + 1
      /\ Possible(disk) /\ Possible(work) /\ SchemaShapes /\ UNCHANGED <<found, first, opens>>
      /\ work = [disk EXCEPT !.objs = @ \cup Added(Script(v))]
  <2>1. stage[1] = "migrate" /\ stage[3] = Len(Script(v)) + 1 /\ SchemaShapes
    BY <1>0 DEF CommitMigration, SchemaIInv
  <2>2. v \in 2..5
    BY <1>0, <2>1, StageNames DEF SchemaShapes
  <2>3. ScriptTo(v, stage[3]) = Added(Script(v))
    BY <2>1, <2>2, ScriptParts
  <2> QED
    BY <1>0, <2>1, <2>2, <2>3 DEF CommitMigration, Stay, SchemaIInv, SchemaShapes, Working
<1>2. /\ "schema_migrations" \in disk.objs /\ "odd migrations" \notin disk.objs
      /\ Version(disk) = v - 1
      /\ found.objs = {} => disk.objs = Base /\ disk.versions = {4} /\ disk.user = 4
      /\ found.objs # {} => /\ Version(found) \in 1..(v - 1)
                            /\ Version(found) = 4 => disk = found
      /\ v = 5 => BaseValid(disk) /\ "odd managed" \notin disk.objs
  BY <1>0, <1>1 DEF SchemaIInv, Moving
<1>3. /\ work.objs = disk.objs \cup Added(Script(v))
      /\ work.versions = disk.versions /\ work.user = disk.user
  BY <1>1 DEF Possible
<1>4. v = 5 => Managed \subseteq work.objs /\ "odd managed" \notin work.objs
  <2> SUFFICES ASSUME v = 5 PROVE Managed \subseteq work.objs /\ "odd managed" \notin work.objs
    OBVIOUS
  <2>1. "odd managed" \notin disk.objs
    BY <1>2
  <2>2. work.objs = disk.objs \cup Managed
    BY <1>3, ScriptAdds
  <2> QED
    BY <2>1, <2>2 DEF Managed
<1>5. CASE v = 5 /\ ~ManagedExact(work)
  <2>1. stage' = <<"refused">> /\ stage'[1] = "refused" /\ work' = disk /\ disk' = disk
    BY <1>0, <1>5 DEF CommitMigration, Goto
  <2>2. "shadow" \in disk.objs
    <3>1. "shadow" \in work.objs
      BY <1>4, <1>5 DEF ManagedExact
    <3>2. work.objs = disk.objs \cup Managed
      BY <1>3, <1>5, ScriptAdds
    <3> QED
      BY <3>1, <3>2 DEF Managed
  <2>3. found.objs # {}
    <3>1. found.objs = {} => disk.objs = Base
      BY <1>2
    <3>2. "shadow" \notin Base
      BY FreshParts DEF BaseNames
    <3> QED
      BY <2>2, <3>1, <3>2
  <2>4. RefusedUntouched'
    <3>0. /\ Version(found) \in 1..(v - 1) /\ v = 5
          /\ Version(found) = 4 => disk = found
      BY <1>2, <1>5, <2>3
    <3>1. Version(found) \in 1..4 /\ (Version(found) = 4 => disk = found)
      BY <3>0
    <3>2. Version(found) \notin 1..3 => Version(found) = 4
      BY <3>1
    <3> QED
      BY <1>1, <2>1, <3>1, <3>2 DEF RefusedUntouched
  <2>5. first \notin {Genuine(u) : u \in 1..Current}
    <3> SUFFICES ASSUME first \in {Genuine(u) : u \in 1..Current} PROVE FALSE
      OBVIOUS
    <3>0. disk.objs \ Overlay = ObjsAt(Version(disk))
      BY DEF SchemaIInv, FromGenuine, GenuineNow
    <3>3. Version(disk) = v - 1 /\ v = 5
      BY <1>2, <1>5
    <3>4. Version(disk) = 4
      BY <3>3
    <3>1. disk.objs \ Overlay = BaseNames
      BY <3>0, <3>4, GenuineObjs
    <3>2. "shadow" \notin BaseNames \cup Overlay
      BY DEF BaseNames, Overlay
    <3> QED
      BY <2>2, <3>1, <3>2
  <2>6. StageShape'
    BY <2>1 DEF StageShape
  <2>7. PragmaLags' /\ NothingLost
    BY <1>1, <2>1 DEF SchemaIInv, PragmaLags, NothingLost
  <2> QED
    BY <1>1, <2>1, <2>4, <2>5, <2>6, <2>7
       DEF SchemaIInv, SchemaShapes, Working, Fresh, Moving, Guarding, Opening, FromGenuine
<1>6. CASE ~(v = 5 /\ ~ManagedExact(work))
  <2>1. /\ disk' = [work EXCEPT !.versions = @ \cup {v}, !.user = v] /\ work' = disk'
        /\ stage' = IF v < 5 THEN <<"begin", v + 1, 1>>
                    ELSE IF found.objs = {} THEN <<"index", 0, 1>> ELSE <<"guard">>
    BY <1>0, <1>6 DEF CommitMigration, Goto
  <2>2. /\ disk'.objs = disk.objs \cup Added(Script(v))
        /\ disk'.versions = disk.versions \cup {v} /\ disk'.user = v
    BY <1>1, <1>3, <2>1 DEF Possible
  <2>3. Possible(disk')
    <3>1. v \in 1..6 /\ v \in 0..6
      BY <1>1
    <3>2. "schema_migrations" \in disk'.objs
      BY <1>2, <2>2
    <3>3. disk' \in [objs : SUBSET Names, versions : SUBSET (1..6), user : 0..6]
      BY <1>1, <2>1, <3>1 DEF Possible
    <3> QED
      BY <3>2, <3>3 DEF Possible
  <2>4. Version(disk') = v
    <3>1. v \in 0..6 /\ v \in disk'.versions \cup {0}
      BY <1>1, <2>2
    <3>5. Version(disk) = v - 1
      BY <1>2
    <3>2. \A u \in disk.versions : u <= v - 1
      BY <1>1, <3>5, VersionIs
    <3>3. disk.versions \subseteq 1..6
      BY <1>1 DEF Possible
    <3>4. \A u \in disk'.versions : u <= v
      BY <1>1, <2>2, <3>2, <3>3
    <3> QED
      BY <2>3, <3>1, <3>4, VersionOf
  <2>5. PragmaLags' /\ NothingLost
    BY <1>1, <2>2, <2>4 DEF PragmaLags, NothingLost
  <2>6. "odd migrations" \notin disk'.objs /\ "schema_migrations" \in disk'.objs
    <3>1. "odd migrations" \notin BaseNames \cup Managed
      BY DEF BaseNames, Managed
    <3> QED
      BY <1>1, <1>2, <2>2, <3>1, ScriptParts
  <2>7. first \in {Genuine(u) : u \in 1..Current} => GenuineNow' /\ found.objs # {}
    <3>1. first \in {Genuine(u) : u \in 1..Current} => found.objs # {}
      BY DEF SchemaIInv, FromGenuine
    <3> QED
      BY <1>1, <1>2, <2>2, <2>4, <3>1, CommitGenuine
  <2>8. CASE v < 5
    <3>0. PICK w \in 2..5 : w = v + 1 /\ w - 1 = v /\ w # 2
      BY <1>1, <2>8
    <3>1. stage' = <<"begin", w, 1>> /\ stage'[1] = "begin" /\ stage'[2] = w
      BY <2>1, <2>8, <3>0
    <3>2. StageShape'
      BY <3>1 DEF StageShape
    <3>3. found.objs # {}
      <4> SUFFICES ASSUME found.objs = {} PROVE FALSE
        OBVIOUS
      <4>1. disk.versions = {4}
        BY <1>2
      <4>2. Version(disk) = 4
        BY <1>1, <4>1, VersionOf
      <4>3. Version(disk) = v - 1
        BY <1>2
      <4> QED
        BY <1>1, <2>8, <4>2, <4>3
    <3>4. Moving'
      <4>0. Version(found) \in 1..(v - 1) /\ found' = found
        BY <1>1, <1>2, <3>3
      <4>1. Version(found') \in 1..(v - 1) /\ Version(found') # 4 /\ found'.objs # {}
        BY <1>1, <2>8, <3>3, <4>0
      <4>2. Version(found') \in 1..(stage'[2] - 1) /\ Version(disk') = stage'[2] - 1
        BY <1>1, <2>4, <3>0, <3>1, <4>1
      <4> QED
        BY <2>6, <3>1, <4>1, <4>2 DEF Moving
    <3>5. FromGenuine' /\ RefusedUntouched'
      BY <1>1, <2>7, <3>1 DEF FromGenuine, RefusedUntouched
    <3> QED
      BY <1>1, <2>1, <2>3, <2>5, <3>1, <3>2, <3>4, <3>5
         DEF SchemaIInv, SchemaShapes, Working, Fresh, Guarding, Opening
  <2>9. CASE v = 5
    <3>1. Checked(disk')
      <4>1. ManagedExact(disk')
        BY <1>3, <1>6, <2>2, <2>9 DEF ManagedExact
      <4>2. {"sessions", "cohorts", "locks", "commands"} \subseteq disk'.objs
        BY <1>2, <2>2, <2>9, FreshParts DEF BaseValid, BaseNames
      <4> QED
        BY <2>2, <2>4, <2>9, <4>1, <4>2 DEF Checked, Current
    <3>2. stage'[1] \in {"index", "guard"} /\ StageShape'
      <4>1. CASE found.objs = {}
        BY <2>1, <2>9, <4>1 DEF StageShape
      <4>2. CASE found.objs # {}
        BY <2>1, <2>9, <4>2 DEF StageShape
      <4> QED
        BY <4>1, <4>2
    <3>3. Guarding' /\ Opening'
      BY <2>2, <2>6, <2>9, <3>1, <3>2 DEF Guarding, Opening, Current
    <3>4. FromGenuine' /\ RefusedUntouched'
      <4>1. stage' # <<"refused">>
        BY <3>2
      <4> QED
        BY <1>1, <2>4, <2>7, <2>9, <3>2, <4>1 DEF FromGenuine, RefusedUntouched
    <3> QED
      BY <1>1, <2>1, <2>3, <2>5, <3>2, <3>3, <3>4
         DEF SchemaIInv, SchemaShapes, Working, Fresh, Moving
  <2> QED
    BY <1>1, <2>8, <2>9
<1> QED
  BY <1>5, <1>6

LEMMA GuardKeeps == SchemaIInv /\ Guard => SchemaIInv' /\ NothingLost
<1> SUFFICES ASSUME SchemaIInv, Guard PROVE SchemaIInv' /\ NothingLost
  OBVIOUS
<1>1. /\ stage = <<"guard">> /\ stage[1] = "guard" /\ work' = disk'
      /\ Possible(disk) /\ SchemaShapes /\ UNCHANGED <<found, first, opens>>
      /\ "odd migrations" \notin disk.objs
      /\ disk = found \/ Version(found) \in 1..3 \/ Checked(disk)
  BY DEF Guard, Stay, SchemaIInv, SchemaShapes, Guarding
<1>2. Base \cap {"sessions", "cohorts", "locks", "commands"}
        = {"sessions", "cohorts", "locks", "commands"}
  BY FreshParts DEF BaseNames
<1>3. first \in {Genuine(u) : u \in 1..Current} => Checked(disk)
  <2> SUFFICES ASSUME first \in {Genuine(u) : u \in 1..Current} PROVE Checked(disk)
    OBVIOUS
  <2>1. disk.objs \ Overlay = BaseNames \cup Managed /\ disk.user = 5 /\ Version(disk) = 5
    BY <1>1, GenuineObjs DEF SchemaIInv, FromGenuine, GenuineNow
  <2>2. /\ {"shadow", "odd managed"} \cap (BaseNames \cup Managed \cup Overlay) = {}
        /\ {"sessions", "cohorts", "locks", "commands"} \subseteq BaseNames
    BY DEF BaseNames, Managed, Overlay
  <2>3. BaseNames \cup Managed \subseteq disk.objs
        /\ disk.objs \subseteq BaseNames \cup Managed \cup Overlay
    BY <2>1
  <2>4. ManagedExact(disk) /\ {"sessions", "cohorts", "locks", "commands"} \subseteq disk.objs
    BY <2>2, <2>3 DEF ManagedExact
  <2> QED
    BY <2>1, <2>4 DEF Checked, Current
<1>4. CASE Checked(disk)
  <2>1. disk' = [disk EXCEPT !.user = Current] /\ stage' = <<"index", 0, 1>>
    BY <1>2, <1>4 DEF Guard, Checked, Goto
  <2>8. /\ disk'.objs = disk.objs /\ disk'.versions = disk.versions /\ disk'.user = 5
        /\ disk' \in [objs : SUBSET Names, versions : SUBSET (1..6), user : 0..6]
    <3>1. disk \in [objs : SUBSET Names, versions : SUBSET (1..6), user : 0..6]
      BY <1>1 DEF Possible
    <3>2. 5 \in 0..6
      OBVIOUS
    <3> QED
      BY <2>1, <3>1, <3>2 DEF Current
  <2>2. /\ disk'.objs = disk.objs /\ disk'.versions = disk.versions /\ disk'.user = 5
        /\ Possible(disk')
    BY <1>1, <2>8 DEF Possible
  <2>3. Version(disk') = Version(disk) /\ Version(disk) = 5
    BY <1>4, <2>2, VersionSame DEF Checked, Current
  <2>4. Checked(disk')
    <3>1. ManagedExact(disk) /\ {"sessions", "cohorts", "locks", "commands"} \subseteq disk.objs
      BY <1>4 DEF Checked
    <3>2. ManagedExact(disk')
      BY <2>2, <3>1 DEF ManagedExact
    <3> QED
      BY <2>2, <2>3, <3>1, <3>2 DEF Checked, Current
  <2>5. stage'[1] = "index" /\ StageShape'
    BY <2>1 DEF StageShape
  <2>6. FromGenuine' /\ RefusedUntouched'
    BY <1>1, <2>1, <2>2, <2>3, <2>5
       DEF SchemaIInv, FromGenuine, GenuineNow, RefusedUntouched
  <2>7. PragmaLags' /\ NothingLost
    BY <2>2, <2>3 DEF PragmaLags, NothingLost
  <2> QED
    BY <1>1, <2>2, <2>4, <2>5, <2>6, <2>7
       DEF SchemaIInv, SchemaShapes, Working, Fresh, Moving, Guarding, Opening, Current
<1>5. CASE ~Checked(disk)
  <2>1. disk' = disk /\ stage' = <<"refused">> /\ stage'[1] = "refused"
    BY <1>2, <1>5 DEF Guard, Checked, Goto
  <2>2. StageShape'
    BY <2>1 DEF StageShape
  <2>3. FromGenuine' /\ RefusedUntouched'
    BY <1>1, <1>3, <1>5, <2>1 DEF FromGenuine, RefusedUntouched
  <2>4. PragmaLags' /\ NothingLost
    BY <1>1, <2>1 DEF SchemaIInv, PragmaLags, NothingLost
  <2> QED
    BY <1>1, <2>1, <2>2, <2>3, <2>4
       DEF SchemaIInv, SchemaShapes, Working, Fresh, Moving, Guarding, Opening
<1> QED
  BY <1>4, <1>5

LEMMA IndexKeeps == SchemaIInv /\ Index => SchemaIInv' /\ NothingLost
<1> SUFFICES ASSUME SchemaIInv, Index PROVE SchemaIInv' /\ NothingLost
  OBVIOUS
<1>1. /\ stage[1] = "index" /\ stage = <<"index", 0, 1>> /\ work' = disk'
      /\ Possible(disk) /\ SchemaShapes /\ UNCHANGED <<found, first, opens>>
      /\ Checked(disk) /\ disk.user = Current /\ "odd migrations" \notin disk.objs
  BY StageNames DEF Index, Stay, SchemaIInv, SchemaShapes, Opening
<1>2. CASE Overlay \subseteq disk.objs
  <2>1. disk' = disk /\ stage' = <<"open">> /\ stage'[1] = "open"
    BY <1>2 DEF Index, Goto
  <2>2. StageShape'
    BY <2>1 DEF StageShape
  <2>3. FromGenuine' /\ RefusedUntouched' /\ PragmaLags' /\ NothingLost
    BY <1>1, <2>1 DEF SchemaIInv, FromGenuine, GenuineNow, RefusedUntouched, PragmaLags, NothingLost
  <2> QED
    BY <1>1, <1>2, <2>1, <2>2, <2>3
       DEF SchemaIInv, SchemaShapes, Working, Fresh, Moving, Guarding, Opening
<1>3. CASE ~(Overlay \subseteq disk.objs)
  <2>1. PICK i \in Overlay : disk' = [disk EXCEPT !.objs = @ \cup {i}]
    BY <1>3 DEF Index
  <2>2. stage' = stage
    BY <1>3 DEF Index
  <2>3. {i} \in SUBSET Names /\ i \notin Managed \cup {"shadow", "odd managed", "odd migrations"}
    BY <2>1 DEF Names, Overlay, Managed
  <2>4. /\ disk'.objs = disk.objs \cup {i} /\ disk'.versions = disk.versions
        /\ disk'.user = disk.user /\ Possible(disk')
    BY <1>1, <2>1, <2>3, Grown
  <2>5. Version(disk') = Version(disk)
    BY <2>4, VersionSame
  <2>6. Checked(disk') /\ "odd migrations" \notin disk'.objs
    BY <1>1, <2>3, <2>4, <2>5 DEF Checked, ManagedExact
  <2>7. FromGenuine' /\ RefusedUntouched' /\ PragmaLags' /\ NothingLost
    BY <1>1, <2>1, <2>2, <2>4, <2>5
       DEF SchemaIInv, FromGenuine, GenuineNow, RefusedUntouched, PragmaLags, NothingLost
  <2> QED
    BY <1>1, <2>2, <2>4, <2>6, <2>7
       DEF SchemaIInv, SchemaShapes, StageShape, Working, Fresh, Moving, Guarding, Opening
<1> QED
  BY <1>2, <1>3

LEMMA SchemaSteps ==
  SchemaIInv /\ [SchemaNext]_schemaVars => SchemaIInv' /\ [NothingLost]_schemaVars
<1> SUFFICES ASSUME SchemaIInv, [SchemaNext]_schemaVars
             PROVE  SchemaIInv' /\ [NothingLost]_schemaVars
  OBVIOUS
<1>1. CASE UNCHANGED schemaVars
  <2>1. UNCHANGED <<disk, work, stage, found, first, opens>>
    BY <1>1 DEF schemaVars
  <2>2. SchemaShapes' /\ Working' /\ Fresh'
    BY <2>1 DEF SchemaIInv, SchemaShapes, StageShape, Working, Fresh
  <2>3. Moving' /\ Guarding' /\ Opening'
    BY <2>1 DEF SchemaIInv, Moving, Guarding, Opening
  <2>4. FromGenuine' /\ RefusedUntouched' /\ PragmaLags'
    BY <2>1 DEF SchemaIInv, FromGenuine, GenuineNow, RefusedUntouched, PragmaLags
  <2> QED
    BY <1>1, <2>2, <2>3, <2>4 DEF SchemaIInv
<1>2. CASE Open
  <2>1. disk' = disk
    BY <1>2 DEF Open
  <2> QED
    BY <1>2, <2>1, OpenSchemaKeeps DEF NothingLost
<1>3. CASE SchemaNext /\ ~Open
  BY <1>3, FreshStatementKeeps, FreshVersionKeeps, FreshPragmaKeeps, BeginKeeps,
     MigrateStatementKeeps, CommitKeeps, GuardKeeps, IndexKeeps, LeaveKeeps DEF SchemaNext
<1> QED
  BY <1>1, <1>2, <1>3

\* Whatever database a start finds, with whatever versions, pragma and odd objects, and
\* wherever starts crash or fail: an open database is exactly the current version, a
\* genuine one stays genuine and is never refused, a refused one is as it was found, the
\* pragma never runs ahead of the version rows, and no start takes anything away.
THEOREM Migrations == SchemaSpec => []SchemaInv /\ [][NothingLost]_schemaVars
<1>1. SchemaIInv /\ [SchemaNext]_schemaVars => SchemaIInv'
  BY SchemaSteps
<1>2. SchemaIInv /\ [SchemaNext]_schemaVars => [NothingLost]_schemaVars
  BY SchemaSteps
<1> QED
  BY <1>1, <1>2, SchemaStarts, SchemaIInvImplies, PTL DEF SchemaSpec

-----------------------------------------------------------------------------
AuditJobs == [kind : {"quick", "snapshot", "verdict"}, waited : BOOLEAN]

\* Rows the cursor has left behind in this cycle
Passed(r) == r[1] < cursor.unit \/ (r[1] = cursor.unit /\ r[2] <= cursor.after)

\* What the cycle knows, the pass's own list while one runs
KnownBad == IF pass.on THEN pass.problems ELSE problems

AuditShapes ==
  /\ bad \in SUBSET Rows /\ stood \in SUBSET bad
  /\ cursor \in [unit : 1..(NUnits + 1), after : 0..UnitRows]
  /\ pass \in [on : BOOLEAN, problems : SUBSET Rows, chunks : {0, 1}]
  /\ problems \in SUBSET Rows
  /\ jobs \in Seq(AuditJobs) /\ running \in BOOLEAN
  /\ image \in {"none", "this", "earlier"} /\ ready \in BOOLEAN

\* A pass is what the thread does with the job of a quick check
PassOnThread == /\ running => jobs # << >>
                /\ pass.on <=> (running /\ jobs[1].kind = "quick")

\* A row bad all along and left behind is known, and a pass that has read
\* nothing knows just what the cycle does.
ScanKnows ==
  /\ \A r \in stood : Passed(r) => r \in KnownBad
  /\ pass.on /\ pass.chunks = 0 => pass.problems = problems
  /\ CycleComplete

\* The audit task stands where the job it waits for says, and waits for one
TaskWaits ==
  /\ \A i \in DOMAIN jobs :
       /\ jobs[i] = Job("snapshot") => audit = "copying"
       /\ jobs[i] = Job("verdict") => audit = "auditing"
  /\ \A i \in DOMAIN jobs : \A j \in DOMAIN jobs :
       jobs[i] = jobs[j] /\ jobs[i].waited /\ jobs[i].kind # "quick" => i = j
  /\ audit = "auditing" => ready
  /\ ready => image # "earlier"

AuditInv == AuditShapes /\ PassOnThread /\ ScanKnows /\ TaskWaits /\ VerdictOfLaunch

LEMMA AuditBounds == NUnits \in Nat /\ NUnits > 0 /\ UnitRows \in Nat /\ UnitRows > 0
BY AuditAssumption

LEMMA StartShape ==
  /\ CycleStart \in [unit : 1..(NUnits + 1), after : 0..UnitRows]
  /\ NoPass \in [on : BOOLEAN, problems : SUBSET Rows, chunks : {0, 1}]
  /\ << >> \in Seq(AuditJobs)
<1>1. CycleStart \in [unit : 1..(NUnits + 1), after : 0..UnitRows]
  BY AuditBounds DEF CycleStart
<1>2. NoPass \in [on : BOOLEAN, problems : SUBSET Rows, chunks : {0, 1}]
  BY DEF NoPass
<1> QED
  BY <1>1, <1>2

\* The kinds of jobs the audit task waits for
LEMMA TwoJobs ==
  /\ Job("snapshot").kind = "snapshot" /\ Job("snapshot").waited
  /\ Job("verdict").kind = "verdict" /\ Job("verdict").waited
  /\ Job("snapshot") # Job("verdict")
BY DEF Job

LEMMA AuditStarts == AuditInit => AuditInv
<1> USE AuditBounds
<1> SUFFICES ASSUME AuditInit PROVE AuditInv
  OBVIOUS
<1>1. AuditShapes
  BY StartShape DEF AuditInit, AuditShapes
<1> USE DEF AuditInit, NoPass, NoCycle, NoVerdict
<1>2. PassOnThread /\ TaskWaits /\ VerdictOfLaunch
  BY DEF PassOnThread, TaskWaits, VerdictOfLaunch
<1>3. ScanKnows
  BY DEF ScanKnows, CycleComplete
<1> QED
  BY <1>1, <1>2, <1>3 DEF AuditInv

\* The jobs of the thread, and what taking the first one out leaves
LEMMA JobsAhead ==
  ASSUME AuditInv, jobs # << >>
  PROVE  /\ 1 \in DOMAIN jobs /\ Head(jobs) = jobs[1] /\ jobs[1] \in AuditJobs
         /\ Tail(jobs) \in Seq(AuditJobs)
         /\ \A i \in DOMAIN Tail(jobs) :
              i + 1 \in DOMAIN jobs /\ Tail(jobs)[i] = jobs[i + 1] /\ i \in Nat \ {0}
BY DEF AuditInv, AuditShapes

\* A job that ends leaves the waits as they were
LEMMA JobEndsKeeps ==
  ASSUME AuditInv, jobs # << >>, JobEnds, UNCHANGED <<audit, ready, image>>
  PROVE  TaskWaits' /\ jobs' \in Seq(AuditJobs) /\ running' = FALSE
<1>1. jobs' \in Seq(AuditJobs) /\ running' = FALSE
  BY JobsAhead DEF JobEnds
<1>2. \A i \in DOMAIN jobs' :
         i + 1 \in DOMAIN jobs /\ jobs'[i] = jobs[i + 1] /\ i \in Nat \ {0}
  BY JobsAhead DEF JobEnds
<1> QED
  BY <1>1, <1>2 DEF AuditInv, TaskWaits, Job

\* Queueing a job at the end moves none
LEMMA Enqueued ==
  ASSUME AuditInv, NEW kind \in {"quick", "snapshot", "verdict"}, Enqueue(kind)
  PROVE  /\ jobs' \in Seq(AuditJobs) /\ running' = running
         /\ Len(jobs') = Len(jobs) + 1 /\ jobs'[Len(jobs) + 1] = Job(kind)
         /\ DOMAIN jobs' = DOMAIN jobs \cup {Len(jobs) + 1} /\ Len(jobs) \in Nat
         /\ \A i \in DOMAIN jobs : jobs'[i] = jobs[i]
         /\ jobs # << >> => 1 \in DOMAIN jobs
         /\ jobs' # << >>
BY DEF AuditInv, AuditShapes, Enqueue, Job, AuditJobs

\* A client that leaves its job changes nothing of the others
LEMMA GivenUp ==
  ASSUME AuditInv, NEW kind, GiveJobUp(kind)
  PROVE  /\ jobs' \in Seq(AuditJobs) /\ running' = running /\ DOMAIN jobs' = DOMAIN jobs
         /\ jobs' # << >> /\ jobs # << >> /\ 1 \in DOMAIN jobs
         /\ \A i \in DOMAIN jobs : jobs'[i].kind = jobs[i].kind
         /\ \E i \in DOMAIN jobs :
              /\ jobs[i] = Job(kind) /\ ~jobs'[i].waited
              /\ \A j \in DOMAIN jobs : j # i => jobs'[j] = jobs[j]
<1>1. PICK i \in DOMAIN jobs :
         jobs[i] = Job(kind) /\ jobs' = [jobs EXCEPT ![i].waited = FALSE]
  BY DEF GiveJobUp
<1>2. jobs[i] \in AuditJobs /\ jobs'[i] = [jobs[i] EXCEPT !.waited = FALSE]
  BY <1>1 DEF AuditInv, AuditShapes
<1>3. \A j \in DOMAIN jobs : j # i => jobs'[j] = jobs[j]
  BY <1>1 DEF AuditInv, AuditShapes
<1>4. jobs'[i].kind = jobs[i].kind /\ jobs'[i].waited = FALSE /\ jobs'[i] \in AuditJobs
  BY <1>2 DEF AuditJobs
<1>5. jobs' \in Seq(AuditJobs) /\ DOMAIN jobs' = DOMAIN jobs /\ jobs' # << >> /\ jobs # << >>
      /\ 1 \in DOMAIN jobs
  BY <1>1, <1>4 DEF AuditInv, AuditShapes
<1> QED
  BY <1>1, <1>3, <1>4, <1>5 DEF GiveJobUp

-----------------------------------------------------------------------------
(* The live database and the scan *)

LEMMA WriteKeepsAudit == AuditInv /\ Write => AuditInv'
<1> SUFFICES ASSUME AuditInv, Write PROVE AuditInv'
  OBVIOUS
<1>1. bad' \in SUBSET Rows /\ stood' \in SUBSET bad' /\ stood' \subseteq stood
  BY DEF AuditInv, AuditShapes, Write
<1> QED
  BY <1>1 DEF AuditInv, AuditShapes, Write, PassOnThread, ScanKnows, TaskWaits,
              VerdictOfLaunch, KnownBad, Passed, CycleComplete, fullVars

LEMMA TakeKeepsAudit == AuditInv /\ TakeAuditJob => AuditInv'
<1> SUFFICES ASSUME AuditInv, TakeAuditJob PROVE AuditInv'
  OBVIOUS
<1> USE AuditBounds
<1>0. /\ jobs # << >> /\ running = FALSE /\ ~pass.on
      /\ UNCHANGED <<bad, lastCycle, audit, fullVars>>
      /\ Head(jobs) = jobs[1] /\ 1 \in DOMAIN jobs /\ jobs[1] \in AuditJobs
  BY JobsAhead DEF TakeAuditJob, AuditInv, AuditShapes, PassOnThread
<1>1. CASE Waited /\ Head(jobs).kind = "quick"
  <2>1. /\ running' = TRUE /\ jobs' = jobs
        /\ pass' = [on |-> TRUE, problems |-> IF schemaNew THEN {} ELSE problems, chunks |-> 0]
        /\ IF schemaNew
           THEN cursor' = CycleStart /\ problems' = {} /\ stood' = bad
           ELSE UNCHANGED <<cursor, problems, stood>>
    BY <1>1 DEF TakeAuditJob
  <2>2. AuditShapes' /\ PassOnThread'
    BY <1>0, <1>1, <2>1 DEF AuditInv, AuditShapes, PassOnThread, fullVars, CycleStart
  <2>3. TaskWaits' /\ VerdictOfLaunch'
    BY <1>0, <2>1 DEF AuditInv, TaskWaits, VerdictOfLaunch, fullVars
  <2>4. pass'.on /\ pass'.chunks = 0 /\ pass'.problems = problems'
    BY <2>1
  <2>5. \A r \in stood' : Passed(r)' => r \in KnownBad'
    <3>1. CASE schemaNew
      BY <3>1, <2>1, <1>0 DEF Passed, CycleStart, AuditInv, AuditShapes, Rows
    <3>2. CASE ~schemaNew
      BY <3>2, <2>1, <2>4, <1>0 DEF Passed, KnownBad, AuditInv, ScanKnows
    <3> QED
      BY <3>1, <3>2
  <2> QED
    BY <2>2, <2>3, <2>4, <2>5, <1>0 DEF AuditInv, ScanKnows, CycleComplete
<1>2. CASE Waited /\ Head(jobs).kind # "quick"
  <2>1. running' = TRUE /\ UNCHANGED <<jobs, pass, cursor, problems, stood>>
    BY <1>2 DEF TakeAuditJob
  <2> QED
    BY <1>0, <1>2, <2>1 DEF AuditInv, AuditShapes, PassOnThread, ScanKnows, TaskWaits,
       VerdictOfLaunch, KnownBad, Passed, CycleComplete, fullVars
<1>3. CASE ~Waited
  <2>1. JobEnds /\ UNCHANGED <<pass, cursor, problems, stood>>
    BY <1>3 DEF TakeAuditJob
  <2>2. TaskWaits' /\ jobs' \in Seq(AuditJobs) /\ running' = FALSE
    BY <2>1, <1>0, JobEndsKeeps DEF fullVars
  <2> QED
    BY <1>0, <2>1, <2>2 DEF AuditInv, AuditShapes, PassOnThread, ScanKnows,
       VerdictOfLaunch, KnownBad, Passed, CycleComplete, fullVars
<1> QED
  BY <1>1, <1>2, <1>3

\* A chunk's cursor leaves behind only rows its window showed
LEMMA ChunkKeepsAudit == AuditInv /\ ScanChunk => AuditInv'
<1> SUFFICES ASSUME AuditInv, ScanChunk PROVE AuditInv'
  OBVIOUS
<1> USE AuditBounds
<1>1. PICK limit \in 1..(UnitRows + 1) :
        /\ pass' = [pass EXCEPT !.problems = @ \cup (WindowOf(limit) \cap bad),
                                !.chunks = 1]
        /\ cursor' = IF cursor.after + limit > UnitRows
                     THEN [cursor EXCEPT !.unit = @ + 1, !.after = 0]
                     ELSE [cursor EXCEPT !.after = @ + limit]
  BY DEF ScanChunk
<1>2. /\ pass.on /\ cursor.unit <= NUnits
      /\ UNCHANGED <<bad, problems, lastCycle, stood, jobs, running, audit, fullVars>>
  BY DEF ScanChunk
<1>3. /\ pass'.on = pass.on /\ pass'.chunks = 1
      /\ pass'.problems = pass.problems \cup (WindowOf(limit) \cap bad)
      /\ pass' \in [on : BOOLEAN, problems : SUBSET Rows, chunks : {0, 1}]
  BY <1>1 DEF AuditInv, AuditShapes
<1>4. cursor' \in [unit : 1..(NUnits + 1), after : 0..UnitRows]
  <2>0. cursor.unit \in 1..(NUnits + 1) /\ cursor.after \in 0..UnitRows
        /\ cursor = [unit |-> cursor.unit, after |-> cursor.after]
    BY DEF AuditInv, AuditShapes
  <2>1. CASE cursor.after + limit > UnitRows
    <3>1. cursor' = [unit |-> cursor.unit + 1, after |-> 0]
      BY <2>0, <2>1, <1>1
    <3> QED
      BY <3>1, <2>0, <1>2
  <2>2. CASE ~(cursor.after + limit > UnitRows)
    <3>1. cursor' = [unit |-> cursor.unit, after |-> cursor.after + limit]
      BY <2>0, <2>2, <1>1
    <3> QED
      BY <3>1, <2>0, <2>2
  <2> QED
    BY <2>1, <2>2
<1>5. \A r \in stood' : Passed(r)' => r \in KnownBad'
  <2> SUFFICES ASSUME NEW r \in stood, Passed(r)' PROVE r \in pass'.problems
    BY <1>2, <1>3 DEF KnownBad
  <2>1. r \in bad /\ r[1] \in 1..NUnits /\ r[2] \in 1..UnitRows /\ r = <<r[1], r[2]>>
    BY DEF AuditInv, AuditShapes, Rows
  <2>2. CASE Passed(r)
    BY <2>2, <1>2, <1>3 DEF AuditInv, ScanKnows, KnownBad
  <2>3. CASE ~Passed(r)
    <3>1. r[1] = cursor.unit /\ r[2] > cursor.after /\ r[2] <= cursor.after + limit
      <4>1. CASE cursor.after + limit > UnitRows
        <5>1. cursor'.unit = cursor.unit + 1 /\ cursor'.after = 0
          BY <4>1, <1>1 DEF AuditInv, AuditShapes
        <5> QED
          BY <5>1, <4>1, <2>1, <2>3 DEF Passed, AuditInv, AuditShapes
      <4>2. CASE ~(cursor.after + limit > UnitRows)
        <5>1. cursor'.unit = cursor.unit /\ cursor'.after = cursor.after + limit
          BY <4>2, <1>1 DEF AuditInv, AuditShapes
        <5> QED
          BY <5>1, <4>2, <2>1, <2>3 DEF Passed, AuditInv, AuditShapes
      <4> QED
        BY <4>1, <4>2
    <3>2. r \in WindowOf(limit)
      BY <3>1, <2>1 DEF WindowOf
    <3> QED
      BY <3>2, <2>1, <1>3
  <2> QED
    BY <2>2, <2>3
<1> QED
  BY <1>2, <1>3, <1>4, <1>5 DEF AuditInv, AuditShapes, PassOnThread, ScanKnows,
     TaskWaits, VerdictOfLaunch, CycleComplete, fullVars

LEMMA AbandonKeepsAudit == AuditInv /\ AbandonChunk => AuditInv'
<1> SUFFICES ASSUME AuditInv, AbandonChunk PROVE AuditInv'
  OBVIOUS
<1>1. /\ pass'.on = pass.on /\ pass'.problems = pass.problems /\ pass'.chunks = 1
      /\ pass' \in [on : BOOLEAN, problems : SUBSET Rows, chunks : {0, 1}]
  BY DEF AbandonChunk, AuditInv, AuditShapes
<1> QED
  BY <1>1 DEF AbandonChunk, AuditInv, AuditShapes, PassOnThread, ScanKnows, TaskWaits,
     VerdictOfLaunch, KnownBad, Passed, CycleComplete, fullVars

LEMMA EndKeepsAudit == AuditInv /\ EndPass => AuditInv'
<1> SUFFICES ASSUME AuditInv, EndPass PROVE AuditInv'
  OBVIOUS
<1> USE AuditBounds
<1>1. /\ pass.on /\ pass' = NoPass /\ JobEnds /\ jobs # << >>
      /\ UNCHANGED <<bad, audit, fullVars>>
  BY DEF EndPass, AuditInv, PassOnThread
<1>2. TaskWaits' /\ jobs' \in Seq(AuditJobs) /\ running' = FALSE
  BY <1>1, JobEndsKeeps DEF fullVars
<1>3. PassOnThread' /\ VerdictOfLaunch' /\ ~pass'.on
      /\ pass' \in [on : BOOLEAN, problems : SUBSET Rows, chunks : {0, 1}]
  BY <1>1, <1>2 DEF PassOnThread, NoPass, AuditInv, VerdictOfLaunch, fullVars
<1>4. CASE cursor.unit > NUnits
  <2>1. /\ cursor' = CycleStart /\ problems' = {} /\ stood' = bad
        /\ lastCycle' = [ok |-> pass.problems = {},
                         left |-> pass.problems = {} /\ stood # {}]
    BY <1>4 DEF EndPass
  <2>2. stood \subseteq pass.problems
    <3> SUFFICES ASSUME NEW r \in stood PROVE r \in pass.problems
      OBVIOUS
    <3>1. r[1] \in 1..NUnits
      BY DEF AuditInv, AuditShapes, Rows
    <3>2. Passed(r)
      BY <3>1, <1>4 DEF Passed, AuditInv, AuditShapes
    <3> QED
      BY <3>2, <1>1 DEF AuditInv, ScanKnows, KnownBad
  <2>3. CycleComplete'
    BY <2>1, <2>2 DEF CycleComplete
  <2>4. AuditShapes'
    BY <1>1, <1>2, <1>3, <2>1, StartShape DEF AuditInv, AuditShapes, fullVars
  <2>5. \A r \in stood' : ~Passed(r)'
    BY <2>1, <1>1 DEF Passed, CycleStart, AuditInv, AuditShapes, Rows
  <2> QED
    BY <1>2, <1>3, <2>3, <2>4, <2>5 DEF AuditInv, ScanKnows
<1>5. CASE ~(cursor.unit > NUnits)
  <2>1. problems' = pass.problems /\ UNCHANGED <<cursor, lastCycle, stood>>
    BY <1>5 DEF EndPass
  <2>2. AuditShapes'
    BY <1>1, <1>2, <1>3, <2>1 DEF AuditInv, AuditShapes, fullVars
  <2>3. ScanKnows'
    BY <2>1, <1>1, <1>3 DEF AuditInv, ScanKnows, Passed, KnownBad, CycleComplete
  <2> QED
    BY <1>2, <1>3, <2>2, <2>3 DEF AuditInv
<1> QED
  BY <1>4, <1>5

\* Only a pass that has read nothing raises, and the cycle knows what it knew
LEMMA RaiseKeepsAudit == ~ScanFaults /\ AuditInv /\ PassRaises => AuditInv'
<1> SUFFICES ASSUME ~ScanFaults, AuditInv, PassRaises PROVE AuditInv'
  OBVIOUS
<1>1. /\ pass.on /\ pass.chunks = 0 /\ pass' = NoPass /\ JobEnds /\ jobs # << >>
      /\ UNCHANGED <<bad, cursor, problems, lastCycle, stood, audit, fullVars>>
  BY DEF PassRaises, AuditInv, PassOnThread
<1>2. TaskWaits' /\ jobs' \in Seq(AuditJobs) /\ running' = FALSE
  BY <1>1, JobEndsKeeps DEF fullVars
<1>3. ~pass'.on /\ pass' \in [on : BOOLEAN, problems : SUBSET Rows, chunks : {0, 1}]
  BY <1>1 DEF NoPass
<1> QED
  BY <1>1, <1>2, <1>3 DEF AuditInv, AuditShapes, PassOnThread, ScanKnows,
     VerdictOfLaunch, KnownBad, Passed, CycleComplete, fullVars

-----------------------------------------------------------------------------
(* The clients *)

\* What a step of a client leaves alone
ClientFrame == UNCHANGED <<bad, cursor, problems, pass, lastCycle, stood>>

\* A new job behind the others
LEMMA EnqueueKeeps ==
  ASSUME AuditInv, ClientFrame, NEW kind \in {"quick", "snapshot", "verdict"},
         Enqueue(kind)
  PROVE  PassOnThread' /\ ScanKnows' /\ jobs' \in Seq(AuditJobs) /\ running' \in BOOLEAN
<1>1. PassOnThread'
  BY Enqueued DEF AuditInv, AuditShapes, PassOnThread, ClientFrame
<1>2. ScanKnows'
  BY DEF AuditInv, ScanKnows, ClientFrame, Passed, KnownBad, CycleComplete
<1> QED
  BY <1>1, <1>2, Enqueued DEF AuditInv, AuditShapes

LEMMA QuickKeepsAudit == AuditInv /\ StartQuick => AuditInv'
<1> SUFFICES ASSUME AuditInv, StartQuick PROVE AuditInv'
  OBVIOUS
<1>1. ClientFrame /\ UNCHANGED <<audit, fullVars>>
  BY DEF StartQuick, ClientFrame, scanVars
<1>2. CASE HasRoom
  <2>1. Enqueue("quick")
    BY <1>2 DEF StartQuick
  <2>2. TaskWaits'
    <3>1. Job("quick").kind = "quick" /\ Job("quick") # Job("snapshot")
          /\ Job("quick") # Job("verdict")
      BY DEF Job
    <3> QED
      BY <3>1, <2>1, <1>1, Enqueued DEF AuditInv, TaskWaits, fullVars
  <2> QED
    BY <2>1, <2>2, <1>1, EnqueueKeeps
       DEF AuditInv, AuditShapes, VerdictOfLaunch, ClientFrame, fullVars
<1>3. CASE ~HasRoom
  <2>1. UNCHANGED <<jobs, running>>
    BY <1>3 DEF StartQuick
  <2> QED
    BY <2>1, <1>1 DEF AuditInv, AuditShapes, PassOnThread, ScanKnows, TaskWaits,
       VerdictOfLaunch, KnownBad, Passed, CycleComplete, ClientFrame, fullVars
<1> QED
  BY <1>2, <1>3

\* A client that leaves
LEMMA GiveUpKeeps ==
  ASSUME AuditInv, ClientFrame, NEW kind, GiveJobUp(kind)
  PROVE  PassOnThread' /\ ScanKnows' /\ jobs' \in Seq(AuditJobs) /\ running' \in BOOLEAN
<1>1. PassOnThread'
  BY GivenUp DEF AuditInv, PassOnThread, ClientFrame
<1>2. ScanKnows'
  BY DEF AuditInv, ScanKnows, ClientFrame, Passed, KnownBad, CycleComplete
<1> QED
  BY <1>1, <1>2, GivenUp DEF AuditInv, AuditShapes

LEMMA QuickTimeoutKeepsAudit == AuditInv /\ QuickTimesOut => AuditInv'
<1> SUFFICES ASSUME AuditInv, QuickTimesOut PROVE AuditInv'
  OBVIOUS
<1>1. ClientFrame /\ UNCHANGED <<audit, fullVars>> /\ GiveJobUp("quick")
  BY DEF QuickTimesOut, ClientFrame, scanVars
<1>2. TaskWaits'
  BY <1>1, GivenUp DEF AuditInv, TaskWaits, fullVars, Job
<1> QED
  BY <1>1, <1>2, GiveUpKeeps
     DEF AuditInv, AuditShapes, VerdictOfLaunch, ClientFrame, fullVars

\* A step of the audit task that leaves the queue alone
LEMMA TaskKeepsAudit ==
  AuditInv /\ (LoadManifest \/ Sweep \/ LateSweep \/ PublishManifest \/ IntervalPasses)
    => AuditInv'
<1> SUFFICES ASSUME AuditInv,
                    LoadManifest \/ Sweep \/ LateSweep \/ PublishManifest \/ IntervalPasses
             PROVE  AuditInv'
  OBVIOUS
<1>1. ClientFrame /\ UNCHANGED <<jobs, running, verdict>>
  BY DEF LoadManifest, Sweep, LateSweep, PublishManifest, IntervalPasses, ScanKept,
         ClientFrame, scanVars
<1>2. PassOnThread' /\ ScanKnows' /\ VerdictOfLaunch'
  BY <1>1 DEF AuditInv, PassOnThread, ScanKnows, VerdictOfLaunch, KnownBad, Passed,
              CycleComplete, ClientFrame
<1>3. /\ image' \in {"none", image} /\ (ready' => ready) /\ ready' \in BOOLEAN
      /\ \/ audit' = audit /\ ready' = ready
         \/ audit \notin {"copying", "auditing"} /\ audit' \notin {"copying", "auditing"}
  <2>0. ready \in BOOLEAN /\ image \in {"none", image}
    BY DEF AuditInv, AuditShapes
  <2>1. CASE LoadManifest
    BY <2>0, <2>1 DEF LoadManifest
  <2>4. CASE PublishManifest
    BY <2>0, <2>4 DEF PublishManifest
  <2>2. CASE Sweep
    BY <2>0, <2>2 DEF Sweep
  <2>3. CASE LateSweep \/ IntervalPasses
    BY <2>0, <2>3 DEF LateSweep, IntervalPasses
  <2> QED
    BY <2>1, <2>2, <2>3, <2>4
<1>4. TaskWaits'
  BY <1>1, <1>3 DEF AuditInv, TaskWaits
<1> QED
  BY <1>1, <1>2, <1>3, <1>4 DEF AuditInv, AuditShapes, ClientFrame

LEMMA SnapshotKeepsAudit == AuditInv /\ StartSnapshot => AuditInv'
<1> SUFFICES ASSUME AuditInv, StartSnapshot PROVE AuditInv'
  OBVIOUS
<1>1. /\ ClientFrame /\ UNCHANGED fullVars /\ Enqueue("snapshot")
      /\ audit = "wait" /\ audit' = "copying"
  BY DEF StartSnapshot, ScanKept, ClientFrame, scanVars
<1>2. /\ Job("snapshot").kind = "snapshot" /\ Job("snapshot").waited
      /\ Job("snapshot") # Job("verdict")
  BY DEF Job
<1>3. TaskWaits'
  BY <1>1, <1>2, Enqueued DEF AuditInv, TaskWaits, fullVars
<1> QED
  BY <1>1, <1>3, EnqueueKeeps
     DEF AuditInv, AuditShapes, VerdictOfLaunch, ClientFrame, fullVars

LEMMA CopyKeepsAudit == AuditInv /\ CopyImage => AuditInv'
<1> SUFFICES ASSUME AuditInv, CopyImage PROVE AuditInv'
  OBVIOUS
<1>1. /\ ClientFrame /\ UNCHANGED verdict /\ image' \in {"none", "this"}
      /\ OnThread("snapshot") /\ JobEnds /\ jobs # << >>
  BY DEF CopyImage, ScanKept, ClientFrame, scanVars, OnThread, AuditInv, PassOnThread
<1>2. /\ Head(jobs) = jobs[1] /\ 1 \in DOMAIN jobs /\ jobs[1] \in AuditJobs
      /\ jobs[1].kind = "snapshot" /\ ~pass.on
  BY <1>1, JobsAhead DEF OnThread, AuditInv, PassOnThread
<1>3. /\ jobs' \in Seq(AuditJobs) /\ running' = FALSE
      /\ \A i \in DOMAIN jobs' :
           i + 1 \in DOMAIN jobs /\ jobs'[i] = jobs[i + 1] /\ i + 1 # 1 /\ i \in Nat
  BY <1>1, JobsAhead DEF JobEnds
<1>4. PassOnThread' /\ ScanKnows' /\ VerdictOfLaunch'
  BY <1>1, <1>2, <1>3 DEF AuditInv, PassOnThread, ScanKnows, VerdictOfLaunch, KnownBad,
     Passed, CycleComplete, ClientFrame
<1>5. CASE Waited
  <2>1. ready' = (image' = "this") /\ audit' = "wait" /\ jobs[1] = Job("snapshot")
    BY <1>5, <1>2 DEF CopyImage, Waited, Job, AuditJobs
  <2>2. audit = "copying"
    BY <2>1, <1>2 DEF AuditInv, TaskWaits
  <2>3. \A i \in DOMAIN jobs' : jobs'[i] # Job("snapshot") /\ jobs'[i] # Job("verdict")
    BY <2>1, <2>2, <1>2, <1>3, TwoJobs DEF AuditInv, TaskWaits
  <2>4. \A i \in DOMAIN jobs' : \A j \in DOMAIN jobs' :
          jobs'[i] = jobs'[j] /\ jobs'[i].waited /\ jobs'[i].kind # "quick" => i = j
    BY <1>3 DEF AuditInv, TaskWaits
  <2>5. TaskWaits'
    BY <2>1, <2>3, <2>4 DEF TaskWaits
  <2> QED
    BY <1>1, <1>3, <1>4, <2>1, <2>5 DEF AuditInv, AuditShapes, ClientFrame
<1>6. CASE ~Waited
  <2>1. UNCHANGED <<ready, audit>>
    BY <1>6 DEF CopyImage
  <2>2. TaskWaits'
    BY <1>1, <1>3, <2>1 DEF AuditInv, TaskWaits
  <2> QED
    BY <1>1, <1>3, <1>4, <2>1, <2>2 DEF AuditInv, AuditShapes, ClientFrame
<1> QED
  BY <1>5, <1>6

LEMMA SnapshotTimeoutKeepsAudit == AuditInv /\ SnapshotTimesOut => AuditInv'
<1> SUFFICES ASSUME AuditInv, SnapshotTimesOut PROVE AuditInv'
  OBVIOUS
<1>1. /\ ClientFrame /\ UNCHANGED <<image, verdict>> /\ GiveJobUp("snapshot")
      /\ ready' = FALSE /\ audit' = "wait"
  BY DEF SnapshotTimesOut, ScanKept, ClientFrame, scanVars
<1>2. PICK i \in DOMAIN jobs :
        /\ jobs[i] = Job("snapshot") /\ ~jobs'[i].waited
        /\ \A j \in DOMAIN jobs : j # i => jobs'[j] = jobs[j]
  BY <1>1, GivenUp
<1>3. audit = "copying" /\ DOMAIN jobs' = DOMAIN jobs
  BY <1>1, <1>2, GivenUp DEF AuditInv, TaskWaits
<1>4. \A j \in DOMAIN jobs' : jobs'[j] # Job("snapshot") /\ jobs'[j] # Job("verdict")
  BY <1>2, <1>3, TwoJobs DEF AuditInv, TaskWaits
<1>5. TaskWaits'
  BY <1>1, <1>2, <1>3, <1>4 DEF AuditInv, TaskWaits, Job
<1> QED
  BY <1>1, <1>5, GiveUpKeeps DEF AuditInv, AuditShapes, VerdictOfLaunch, ClientFrame

LEMMA StartVerdictKeepsAudit == AuditInv /\ StartVerdict => AuditInv'
<1> SUFFICES ASSUME AuditInv, StartVerdict PROVE AuditInv'
  OBVIOUS
<1>1. /\ ClientFrame /\ UNCHANGED fullVars /\ Enqueue("verdict")
      /\ audit = "wait" /\ audit' = "auditing" /\ ready
  BY DEF StartVerdict, ScanKept, ClientFrame, scanVars
<1>2. /\ Job("verdict").kind = "verdict" /\ Job("verdict").waited
      /\ Job("verdict") # Job("snapshot")
  BY DEF Job
<1>3. TaskWaits'
  BY <1>1, <1>2, Enqueued DEF AuditInv, TaskWaits, fullVars
<1> QED
  BY <1>1, <1>3, EnqueueKeeps
     DEF AuditInv, AuditShapes, VerdictOfLaunch, ClientFrame, fullVars

LEMMA AuditImageKeepsAudit == AuditInv /\ AuditImage => AuditInv'
<1> SUFFICES ASSUME AuditInv, AuditImage PROVE AuditInv'
  OBVIOUS
<1>1. /\ ClientFrame /\ UNCHANGED <<ready, image>>
      /\ OnThread("verdict") /\ JobEnds /\ jobs # << >>
  BY DEF AuditImage, ScanKept, ClientFrame, scanVars, OnThread, AuditInv, PassOnThread
<1>2. /\ Head(jobs) = jobs[1] /\ 1 \in DOMAIN jobs /\ jobs[1] \in AuditJobs
      /\ jobs[1].kind = "verdict" /\ ~pass.on
  BY <1>1, JobsAhead DEF OnThread, AuditInv, PassOnThread
<1>3. /\ jobs' \in Seq(AuditJobs) /\ running' = FALSE
      /\ \A i \in DOMAIN jobs' :
           i + 1 \in DOMAIN jobs /\ jobs'[i] = jobs[i + 1] /\ i + 1 # 1 /\ i \in Nat
  BY <1>1, JobsAhead DEF JobEnds
<1>4. PassOnThread' /\ ScanKnows'
  BY <1>1, <1>2, <1>3 DEF AuditInv, PassOnThread, ScanKnows, KnownBad,
     Passed, CycleComplete, ClientFrame
<1>5. CASE Waited
  <2>1. /\ audit' = "publish" /\ jobs[1] = Job("verdict")
        /\ \E answer \in IF image = "none" THEN {"UNAVAILABLE"}
                         ELSE {"FAILED", "COMPLETED_OK", "COMPLETED_FAILED"} :
             verdict' = [answer |-> answer, of |-> image]
    BY <1>5, <1>2 DEF AuditImage, Waited, Job, AuditJobs
  <2>2. audit = "auditing" /\ ready /\ image \in {"none", "this"}
    BY <2>1, <1>2 DEF AuditInv, AuditShapes, TaskWaits
  <2>3. VerdictOfLaunch'
    BY <2>1, <2>2 DEF VerdictOfLaunch
  <2>4. \A i \in DOMAIN jobs' : jobs'[i] # Job("snapshot") /\ jobs'[i] # Job("verdict")
    BY <2>1, <2>2, <1>2, <1>3, TwoJobs DEF AuditInv, TaskWaits
  <2>5. \A i \in DOMAIN jobs' : \A j \in DOMAIN jobs' :
          jobs'[i] = jobs'[j] /\ jobs'[i].waited /\ jobs'[i].kind # "quick" => i = j
    BY <1>3 DEF AuditInv, TaskWaits
  <2>6. TaskWaits'
    BY <2>1, <2>2, <2>4, <2>5, <1>1 DEF TaskWaits
  <2> QED
    BY <1>1, <1>3, <1>4, <2>3, <2>6 DEF AuditInv, AuditShapes, ClientFrame
<1>6. CASE ~Waited
  <2>1. UNCHANGED <<verdict, audit>>
    BY <1>6 DEF AuditImage
  <2>2. TaskWaits' /\ VerdictOfLaunch'
    BY <1>1, <1>3, <2>1 DEF AuditInv, TaskWaits, VerdictOfLaunch
  <2> QED
    BY <1>1, <1>3, <1>4, <2>2 DEF AuditInv, AuditShapes, ClientFrame
<1> QED
  BY <1>5, <1>6

LEMMA VerdictTimeoutKeepsAudit == AuditInv /\ VerdictTimesOut => AuditInv'
<1> SUFFICES ASSUME AuditInv, VerdictTimesOut PROVE AuditInv'
  OBVIOUS
<1>1. /\ ClientFrame /\ UNCHANGED <<image, ready>> /\ GiveJobUp("verdict")
      /\ verdict' = [answer |-> "FAILED", of |-> "none"] /\ audit' = "publish"
  BY DEF VerdictTimesOut, ScanKept, ClientFrame, scanVars
<1>2. PICK i \in DOMAIN jobs :
        /\ jobs[i] = Job("verdict") /\ ~jobs'[i].waited
        /\ \A j \in DOMAIN jobs : j # i => jobs'[j] = jobs[j]
  BY <1>1, GivenUp
<1>3. audit = "auditing" /\ DOMAIN jobs' = DOMAIN jobs
  BY <1>1, <1>2, GivenUp DEF AuditInv, TaskWaits
<1>4. \A j \in DOMAIN jobs' : jobs'[j] # Job("snapshot") /\ jobs'[j] # Job("verdict")
  BY <1>2, <1>3, TwoJobs DEF AuditInv, TaskWaits
<1>5. TaskWaits' /\ VerdictOfLaunch'
  BY <1>1, <1>2, <1>3, <1>4 DEF AuditInv, TaskWaits, VerdictOfLaunch, Job
<1> QED
  BY <1>1, <1>5, GiveUpKeeps DEF AuditInv, AuditShapes, ClientFrame

LEMMA RelaunchKeepsAudit == AuditInv /\ Relaunch => AuditInv'
<1> SUFFICES ASSUME AuditInv, Relaunch PROVE AuditInv'
  OBVIOUS
<1>1. AuditShapes'
  BY StartShape DEF Relaunch, AuditInv, AuditShapes
<1> USE AuditBounds DEF Relaunch, CycleStart, NoPass, NoCycle, NoVerdict
<1>2. PassOnThread' /\ TaskWaits' /\ VerdictOfLaunch'
  BY DEF PassOnThread, TaskWaits, VerdictOfLaunch
<1>3. \A r \in stood' : ~Passed(r)'
  BY DEF Passed, AuditInv, AuditShapes, Rows
<1> QED
  BY <1>1, <1>2, <1>3 DEF AuditInv, ScanKnows, CycleComplete

LEMMA AuditSteps ==
  ~ScanFaults /\ AuditInv /\ [AuditNext]_auditVars => AuditInv'
<1> SUFFICES ASSUME ~ScanFaults, AuditInv, [AuditNext]_auditVars PROVE AuditInv'
  OBVIOUS
<1>1. CASE UNCHANGED auditVars
  BY <1>1 DEF auditVars, scanVars, fullVars, AuditInv, AuditShapes, PassOnThread,
     ScanKnows, TaskWaits, VerdictOfLaunch, KnownBad, Passed, CycleComplete
<1>2. CASE MigrateSchema
  BY <1>2 DEF MigrateSchema, scanVars, fullVars, AuditInv, AuditShapes, PassOnThread,
     ScanKnows, TaskWaits, VerdictOfLaunch, KnownBad, Passed, CycleComplete
<1> QED
  BY <1>1, <1>2, WriteKeepsAudit, TakeKeepsAudit, ChunkKeepsAudit, AbandonKeepsAudit,
     EndKeepsAudit, RaiseKeepsAudit, QuickKeepsAudit, QuickTimeoutKeepsAudit,
     TaskKeepsAudit, SnapshotKeepsAudit, CopyKeepsAudit, SnapshotTimeoutKeepsAudit,
     StartVerdictKeepsAudit, AuditImageKeepsAudit, VerdictTimeoutKeepsAudit,
     RelaunchKeepsAudit DEF AuditNext

\* However the live scan is cut into passes, interrupted, given up and resumed, and
\* whatever the two checks do on their shared worker across launches, a cycle that ends
\* clean left no row that was bad all along, and a verdict is about a copy of its own
\* launch.  A statement that raises after others of its pass answered is excluded: with
\* it the first part is false, as the run scan_fault shows.
THEOREM AuditSoundness == ~ScanFaults => (AuditSpec => []AuditSound)
<1> SUFFICES ASSUME ~ScanFaults PROVE AuditSpec => []AuditSound
  OBVIOUS
<1>1. AuditInv /\ [AuditNext]_auditVars => AuditInv'
  BY AuditSteps
<1>2. AuditInv => AuditSound
  BY DEF AuditInv, ScanKnows, AuditSound
<1> QED
  BY <1>1, <1>2, AuditStarts, PTL DEF AuditSpec

-----------------------------------------------------------------------------
(* What the runtime tells of itself *)

Payloads ==
  [lost : Nat, running : BOOLEAN, blocked : BOOLEAN, degraded : BOOLEAN, owed : BOOLEAN,
   calm : BOOLEAN, ready : BOOLEAN]

\* Payloads that tell the truth
Tellings ==
  {p \in Payloads : /\ p.running => p.calm
                    /\ p.ready => ~p.blocked
                    /\ p.owed => p.degraded /\ ~p.ready}

\* The counter of the payloads waiting to be written only rises.
Rising(q, low, high) ==
  /\ \A i \in 1..Len(q) : low <= q[i].lost /\ q[i].lost <= high
  /\ \A i, j \in 1..Len(q) : i < j => q[i].lost <= q[j].lost

LostInAll == baseline + lostRows

StatusShapes ==
  /\ life \in {"down", "up", "stopping"}
  /\ baseline \in Nat /\ lostRows \in Nat /\ everLost \in Nat
  /\ {shown, stateFile, exportFile} \subseteq Tellings
  /\ io \in Seq(Tellings) /\ reports \in Seq(Tellings)
  /\ awaited \in BOOLEAN
  /\ awaited => life = "up" /\ io # << >>

\* A degradation is shown exactly while it is owed.
StreakTold ==
  /\ publishOk \in BOOLEAN /\ degraded \in BOOLEAN
  /\ goodSince \in 0..RecoveryPublishes /\ recovered \in Nat
  /\ degraded => recovered = goodSince /\ goodSince < RecoveryPublishes
  /\ ~degraded => goodSince = RecoveryPublishes
  /\ ~publishOk => degraded

\* What was shown last is in the file, and what waits comes after it; after the
\* final state, what waits comes only after what was shown.
CountersRise ==
  /\ LostInAll <= everLost /\ stateFile.lost <= everLost /\ exportFile.lost <= everLost
  /\ shown.lost <= stateFile.lost /\ stateFile.lost <= LostInAll
  /\ exportFile.lost <= LostInAll /\ Rising(reports, exportFile.lost, LostInAll)
  /\ life # "down" => Rising(io, stateFile.lost, LostInAll)
  /\ life = "down" => Rising(io, shown.lost, LostInAll)
  /\ life = "up" =>
       exportFile.lost <= shown.lost /\ Rising(reports, exportFile.lost, shown.lost)

StatusInv == StatusShapes /\ StreakTold /\ CountersRise

LEMMA Recovery == RecoveryPublishes \in Nat /\ RecoveryPublishes > 0
  BY StatusAssumption

LEMMA StatusInvImplies == StatusInv => StatusSound
<1> SUFFICES ASSUME StatusInv PROVE StatusSound
  OBVIOUS
<1>1. {shown, stateFile, exportFile} \subseteq Tellings
  BY DEF StatusInv, StatusShapes
<1>2. NameTruthful
  BY <1>1 DEF NameTruthful, Tellings
<1>3. NeverTwice
  BY DEF NeverTwice, StatusInv, CountersRise, LostInAll
<1>4. DegradationShown
  BY <1>1 DEF DegradationShown, Tellings, StatusInv, StreakTold
<1> QED
  BY <1>2, <1>3, <1>4 DEF StatusSound

\* Every reason has a name of its own kind.
LEMMA AskedKinds ==
  \A i \in DOMAIN Asked : Asked[i] \in Integrity \cup Critical \cup {"event_loop_lag_degraded"}
<1>1. DOMAIN Asked = 1..18
  BY DEF Asked
<1>2. \A i \in 1..9 : Asked[i] \in Critical
  BY DEF Critical
<1>3. Asked[10] \in Integrity /\ Asked[11] \in Integrity /\ Asked[12] \in Integrity
  BY DEF Asked, Integrity
<1>4. Asked[13] \in Integrity /\ Asked[14] \in Integrity /\ Asked[15] \in Integrity
  BY DEF Asked, Integrity
<1>5. Asked[16] \in Integrity /\ Asked[17] \in Integrity
  BY DEF Asked, Integrity
<1>6. Asked[18] = "event_loop_lag_degraded"
  BY DEF Asked
<1>7. ASSUME NEW i \in 1..18
      PROVE  Asked[i] \in Integrity \cup Critical \cup {"event_loop_lag_degraded"}
  <2>1. \/ i \in 1..9 \/ i = 10 \/ i = 11 \/ i = 12 \/ i = 13 \/ i = 14 \/ i = 15
        \/ i = 16 \/ i = 17 \/ i = 18
    OBVIOUS
  <2> QED
    BY <2>1, <1>2, <1>3, <1>4, <1>5, <1>6
<1> QED
  BY <1>1, <1>7

LEMMA BlockedAsked ==
  ASSUME NEW t, t \cap Reasons # {}
  PROVE  BlockedReason(t) \in Integrity \cup Critical \cup {"event_loop_lag_degraded"}
<1> DEFINE holding == {i \in DOMAIN Asked : Asked[i] \in t}
<1>1. DOMAIN Asked = 1..18
  BY DEF Asked
<1>2. holding \subseteq Nat /\ holding # {}
  BY <1>1 DEF Reasons
<1>3. \E n \in holding : \A m \in holding : n <= m
  <2> HIDE DEF holding
  <2> QED
    BY <1>2, LeastNat
<1>4. Min(holding) \in holding
  BY <1>3 DEF Min
<1>5. BlockedReason(t) = Asked[Min(holding)]
  BY <1>2 DEF BlockedReason
<1> QED
  BY <1>4, <1>5, AskedKinds

LEMMA RunningIsCalm ==
  ASSUME NEW t \in TroubleSets, StateName(t) = "RUNNING"
  PROVE  t = {}
<1>1. t \subseteq Reasons \cup Feeds
  BY StatusAssumption
<1>2. t \cap Reasons = {}
  BY BlockedAsked DEF StateName
<1>3. t \cap Feeds = {}
  BY <1>2 DEF StateName, Feeds, BlockedReason, Reasons, Integrity, Critical
<1> QED
  BY <1>1, <1>2, <1>3

LEMMA StatusStarts == StatusInit => StatusInv
<1> SUFFICES ASSUME StatusInit PROVE StatusInv
  OBVIOUS
<1> USE DEF StatusInit
<1>1. None \in Tellings /\ None.lost = 0
  BY DEF None, Tellings, Payloads
<1>2. StatusShapes
  <2>1. ~awaited /\ awaited \in BOOLEAN /\ life \in {"down", "up", "stopping"}
    OBVIOUS
  <2>2. /\ baseline \in Nat /\ lostRows \in Nat /\ everLost \in Nat
        /\ {shown, stateFile, exportFile} \subseteq Tellings
        /\ io = << >> /\ reports = << >>
        /\ io \in Seq(Tellings) /\ reports \in Seq(Tellings)
    BY <1>1
  <2> QED
    BY <2>1, <2>2, Zenon DEF StatusShapes
<1>3. StreakTold
  <2>1. goodSince \in 0..RecoveryPublishes /\ goodSince = RecoveryPublishes /\ recovered \in Nat
    BY Recovery
  <2>2. publishOk /\ ~degraded /\ publishOk \in BOOLEAN /\ degraded \in BOOLEAN
    OBVIOUS
  <2> QED
    BY <2>1, <2>2, Zenon DEF StreakTold
<1>4. CountersRise
  BY <1>1 DEF CountersRise, LostInAll, Rising
<1> QED
  BY <1>2, <1>3, <1>4 DEF StatusInv

-----------------------------------------------------------------------------
(* What waits to be written *)

LEMMA RisingAppend ==
  ASSUME NEW q \in Seq(Tellings), NEW p \in Tellings, NEW low \in Nat, NEW high \in Nat,
         Rising(q, low, high), low <= p.lost, high <= p.lost
  PROVE  Append(q, p) \in Seq(Tellings) /\ Rising(Append(q, p), low, p.lost)
<1>1. p.lost \in Nat /\ \A i \in 1..Len(q) : q[i] \in Tellings /\ q[i].lost \in Nat
  BY DEF Tellings, Payloads
<1>2. Len(Append(q, p)) = Len(q) + 1 /\ Len(q) \in Nat
  OBVIOUS
<1>3. \A i \in 1..Len(q) : Append(q, p)[i] = q[i]
  OBVIOUS
<1>4. Append(q, p)[Len(q) + 1] = p
  OBVIOUS
<1>5. \A i \in 1..Len(q) : low <= q[i].lost /\ q[i].lost <= p.lost
  BY <1>1 DEF Rising
<1>6. \A i \in 1..(Len(q) + 1) : i \in 1..Len(q) \/ i = Len(q) + 1
  BY <1>2
<1>7. ASSUME NEW i \in 1..(Len(q) + 1), NEW j \in 1..(Len(q) + 1), i < j
      PROVE  Append(q, p)[i].lost <= Append(q, p)[j].lost
  <2>1. i \in 1..Len(q)
    BY <1>2, <1>7
  <2>2. CASE j \in 1..Len(q)
    BY <2>1, <2>2, <1>3, <1>7 DEF Rising
  <2>3. CASE j = Len(q) + 1
    BY <2>1, <2>3, <1>3, <1>4, <1>5
  <2> QED
    BY <2>2, <2>3, <1>6
<1>8. \A i \in 1..(Len(q) + 1) :
        low <= Append(q, p)[i].lost /\ Append(q, p)[i].lost <= p.lost
  BY <1>1, <1>3, <1>4, <1>5, <1>6
<1> QED
  BY <1>2, <1>7, <1>8 DEF Rising

LEMMA RisingTail ==
  ASSUME NEW q \in Seq(Tellings), q # << >>, NEW low \in Nat, NEW high \in Nat,
         Rising(q, low, high)
  PROVE  /\ Tail(q) \in Seq(Tellings) /\ Head(q) \in Tellings
         /\ low <= Head(q).lost /\ Head(q).lost <= high
         /\ Rising(Tail(q), Head(q).lost, high)
<1>1. Len(q) \in Nat /\ Len(q) > 0 /\ Head(q) = q[1] /\ q[1] \in Tellings
  OBVIOUS
<1>2. Len(Tail(q)) = Len(q) - 1 /\ \A i \in 1..(Len(q) - 1) : Tail(q)[i] = q[i + 1]
  BY <1>1
<1>3. low <= q[1].lost /\ q[1].lost <= high
  BY <1>1 DEF Rising
<1>4. ASSUME NEW i \in 1..(Len(q) - 1)
      PROVE  q[1].lost <= Tail(q)[i].lost /\ Tail(q)[i].lost <= high
  <2>1. i + 1 \in 1..Len(q) /\ 1 \in 1..Len(q) /\ 1 < i + 1
    BY <1>1
  <2> QED
    BY <2>1, <1>2 DEF Rising
<1>5. ASSUME NEW i \in 1..(Len(q) - 1), NEW j \in 1..(Len(q) - 1), i < j
      PROVE  Tail(q)[i].lost <= Tail(q)[j].lost
  <2>1. i + 1 \in 1..Len(q) /\ j + 1 \in 1..Len(q) /\ i + 1 < j + 1
    BY <1>1, <1>5
  <2> QED
    BY <2>1, <1>2 DEF Rising
<1> QED
  BY <1>1, <1>2, <1>3, <1>4, <1>5 DEF Rising

LEMMA RisingFront ==
  ASSUME NEW q \in Seq(Tellings), q # << >>, NEW low \in Nat, NEW high \in Nat,
         Rising(q, low, high)
  PROVE  LET front == SubSeq(q, 1, Len(q) - 1)
         IN  front \in Seq(Tellings) /\ Rising(front, low, high)
<1> DEFINE front == SubSeq(q, 1, Len(q) - 1)
<1>1. Len(q) \in Nat /\ Len(q) > 0
  OBVIOUS
<1>2. 1..(Len(q) - 1) \subseteq 1..Len(q) /\ Len(q) - 1 \in Nat
  BY <1>1
<1>3. \A i \in 1..(Len(q) - 1) : q[i] \in Tellings
  BY <1>2
<1>4. /\ front \in Seq(Tellings) /\ Len(front) = Len(q) - 1
      /\ \A i \in 1..(Len(q) - 1) : front[i] = q[i]
  <2>1. /\ front \in Seq(Tellings)
        /\ Len(front) = IF 1 <= Len(q) - 1 THEN Len(q) - 1 - 1 + 1 ELSE 0
        /\ \A i \in 1..(Len(q) - 1 - 1 + 1) : front[i] = q[1 + i - 1]
    BY <1>2, <1>3, SubSeqProperties
  <2>2. Len(q) - 1 - 1 + 1 = Len(q) - 1
    BY <1>1
  <2>3. ASSUME NEW i \in 1..(Len(q) - 1) PROVE front[i] = q[i]
    <3>1. i \in 1..(Len(q) - 1 - 1 + 1) /\ 1 + i - 1 = i
      BY <1>1
    <3> HIDE DEF front
    <3> QED
      BY <2>1, <3>1
  <2>4. Len(front) = Len(q) - 1
    <3>1. Len(front) = IF 1 <= Len(q) - 1 THEN Len(q) - 1 ELSE 0
      BY <2>1, <2>2
    <3>2. ~(1 <= Len(q) - 1) => Len(q) - 1 = 0
      <4> DEFINE n == Len(q)
      <4>1. n \in Nat /\ n > 0
        BY <1>1
      <4> HIDE DEF n
      <4>2. ~(1 <= n - 1) => n - 1 = 0
        BY <4>1
      <4> QED
        BY <4>2 DEF n
    <3> HIDE DEF front
    <3> QED
      BY <3>1, <3>2, Zenon
  <2> QED
    BY <2>1, <2>3, <2>4
<1>5. Rising(front, low, high)
  <2> HIDE DEF front
  <2> QED
    BY <1>2, <1>4 DEF Rising
<1> QED
  BY <1>4, <1>5

LEMMA RisingWider ==
  ASSUME NEW q \in Seq(Tellings), NEW low \in Nat, NEW high \in Nat, NEW higher \in Nat,
         Rising(q, low, high), high <= higher
  PROVE  Rising(q, low, higher)
<1>1. \A i \in 1..Len(q) : q[i].lost \in Nat
  BY DEF Tellings, Payloads
<1> QED
  BY <1>1 DEF Rising

LEMMA RisingLower ==
  ASSUME NEW q \in Seq(Tellings), NEW low \in Nat, NEW high \in Nat, NEW lower \in Nat,
         Rising(q, low, high), lower <= low
  PROVE  Rising(q, lower, high)
<1>1. \A i \in 1..Len(q) : q[i].lost \in Nat
  BY DEF Tellings, Payloads
<1> QED
  BY <1>1 DEF Rising

LEMMA NothingRises ==
  ASSUME NEW low, NEW high
  PROVE  << >> \in Seq(Tellings) /\ Rising(<< >>, low, high)
BY DEF Rising

\* What the runtime says of itself tells the truth and shows all it lost.
LEMMA StateTells ==
  ASSUME StatusInv, NEW name, NEW t, name = "RUNNING" => t = {}
  PROVE  RuntimeState(name, t) \in Tellings /\ RuntimeState(name, t).lost = LostInAll
<1>1. baseline + lostRows \in Nat
  BY DEF StatusInv, StatusShapes
<1>2. Owed => degraded
  BY DEF StatusInv, StreakTold, Owed
<1>3. degraded \in BOOLEAN /\ Owed \in BOOLEAN
  BY DEF StatusInv, StreakTold, Owed
<1>4. (name = "RUNNING") => (name = "RUNNING" /\ t = {})
  OBVIOUS
<1> HIDE DEF Owed, BlockedReason
<1>5. RuntimeState(name, t) \in Payloads
  BY <1>1, <1>3 DEF RuntimeState, Payloads
<1> QED
  BY <1>1, <1>2, <1>3, <1>4, <1>5 DEF RuntimeState, Tellings, LostInAll

LEMMA ExportTells ==
  ASSUME NEW p \in Payloads, p.running => p.calm, p.owed => p.degraded
  PROVE  Exported(p) \in Tellings /\ Exported(p).lost = p.lost
BY DEF Exported, Payloads, Tellings

LEMMA Numbers ==
  ASSUME StatusInv
  PROVE  /\ LostInAll \in Nat /\ everLost \in Nat /\ LostInAll <= everLost
         /\ shown.lost \in Nat /\ stateFile.lost \in Nat /\ exportFile.lost \in Nat
         /\ shown \in Tellings /\ stateFile \in Tellings /\ exportFile \in Tellings
         /\ io \in Seq(Tellings) /\ reports \in Seq(Tellings)
<1>1. shown \in Tellings /\ stateFile \in Tellings /\ exportFile \in Tellings
  BY DEF StatusInv, StatusShapes
<1> QED
  BY <1>1 DEF StatusInv, StatusShapes, CountersRise, LostInAll, Tellings, Payloads

-----------------------------------------------------------------------------
(* The steps *)

\* A step that leaves the two files where they are, or ahead of where they were;
\* after the final state, the one file ahead of what was shown
FilesAhead ==
  /\ exportFile'.lost >= exportFile.lost
  /\ \/ stateFile'.lost >= stateFile.lost
     \/ life = "down" /\ stateFile'.lost >= shown.lost

\* No job is awaited but by the heartbeat of a runtime that is up.
LEMMA AwaitedUp ==
  ASSUME StatusInv PROVE awaited \in BOOLEAN /\ (life # "up" => ~awaited)
<1>1. awaited \in BOOLEAN
  BY Zenon DEF StatusInv, StatusShapes
<1>2. awaited => life = "up" /\ io # << >>
  BY Zenon DEF StatusInv, StatusShapes
<1> QED
  BY <1>1, <1>2, Zenon

LEMMA LaunchSteps ==
  ASSUME StatusInv, Launch PROVE StatusInv' /\ FilesAhead
<1> DEFINE starting == [None EXCEPT !.lost = TakenOver]
<1>1. /\ TakenOver \in {stateFile.lost, exportFile.lost}
      /\ stateFile.lost <= TakenOver /\ exportFile.lost <= TakenOver
  <2>1. \E n \in {stateFile.lost, exportFile.lost} :
           \A m \in {stateFile.lost, exportFile.lost} : n >= m
    BY Numbers
  <2>2. /\ Max({stateFile.lost, exportFile.lost}) \in {stateFile.lost, exportFile.lost}
        /\ \A m \in {stateFile.lost, exportFile.lost} :
              Max({stateFile.lost, exportFile.lost}) >= m
    BY <2>1 DEF Max
  <2> QED
    BY <2>2, Numbers DEF TakenOver
<1>2. TakenOver \in Nat /\ TakenOver <= everLost
  BY <1>1, Numbers DEF StatusInv, CountersRise
<1>3. starting \in Tellings /\ starting.lost = TakenOver
  BY <1>2 DEF None, Tellings, Payloads
<1>4. life' = "up" /\ baseline' = TakenOver /\ lostRows' = 0 /\ everLost' = everLost
  BY DEF Launch
<1>5. stateFile' = starting /\ shown' = starting /\ exportFile' = exportFile
  BY DEF Launch
<1>6. io' = << >> /\ reports' = << >> /\ ~awaited' /\ awaited' \in BOOLEAN
  <2>1. life = "down" /\ io' = io /\ reports' = reports /\ awaited' = awaited
    BY DEF Launch
  <2>2. io = << >> /\ reports = << >>
    BY DEF Launch
  <2> QED
    BY <2>1, <2>2, AwaitedUp
<1> HIDE DEF starting
<1>7. StatusShapes'
  BY <1>2, <1>3, <1>4, <1>5, <1>6, NothingRises, Numbers DEF StatusShapes
<1>8. StreakTold'
  <2>1. goodSince' \in 0..RecoveryPublishes /\ goodSince' = RecoveryPublishes /\ recovered' \in Nat
    BY Recovery DEF Launch
  <2>2. publishOk' /\ ~degraded' /\ publishOk' \in BOOLEAN /\ degraded' \in BOOLEAN
    BY DEF Launch
  <2> QED
    BY <2>1, <2>2, Zenon DEF StreakTold
<1>9. CountersRise'
  <2>1. LostInAll' = TakenOver
    BY <1>2, <1>4 DEF LostInAll
  <2> QED
    BY <2>1, <1>1, <1>2, <1>3, <1>4, <1>5, <1>6, NothingRises, Numbers
       DEF CountersRise, StatusInv
<1> QED
  BY <1>1, <1>3, <1>5, <1>7, <1>8, <1>9, Numbers DEF StatusInv, FilesAhead

LEMMA StreakKept ==
  ASSUME StreakTold, UNCHANGED <<publishOk, degraded, recovered, goodSince>>
  PROVE  StreakTold'
BY DEF StreakTold

LEMMA RowLostSteps ==
  ASSUME StatusInv, RowLost PROVE StatusInv' /\ FilesAhead
<1>1. LostInAll' = LostInAll + 1 /\ lostRows' \in Nat /\ everLost' = everLost + 1
  BY DEF RowLost, LostInAll, StatusInv, StatusShapes
<1>2. life # "down" /\ UNCHANGED <<life, baseline, shown, io, reports, awaited, stateFile, exportFile>>
  BY DEF RowLost, publishVars
<1>3. StatusShapes'
  BY <1>1, <1>2, Numbers DEF StatusInv, StatusShapes
<1>4. StreakTold'
  BY StreakKept DEF StatusInv, RowLost, publishVars
<1>5. Rising(io, stateFile.lost, LostInAll + 1) /\ Rising(reports, exportFile.lost, LostInAll + 1)
  BY <1>2, Numbers, RisingWider DEF StatusInv, CountersRise
<1>6. CountersRise'
  BY <1>1, <1>2, <1>5, Numbers DEF StatusInv, CountersRise
<1> QED
  BY <1>2, <1>3, <1>4, <1>6, Numbers DEF StatusInv, FilesAhead

LEMMA HeartbeatSteps ==
  ASSUME StatusInv, Heartbeat PROVE StatusInv' /\ FilesAhead
<1>1. PICK t \in TroubleSets : io' = Append(io, RuntimeState(StateName(t), t))
  BY DEF Heartbeat
<1> DEFINE payload == RuntimeState(StateName(t), t)
<1>2. payload \in Tellings /\ payload.lost = LostInAll
  BY StateTells, RunningIsCalm
<1>3. /\ life = "up" /\ awaited'
      /\ UNCHANGED <<life, baseline, lostRows, everLost, shown, reports, stateFile, exportFile>>
  BY DEF Heartbeat, counterVars, publishVars
<1>4. io' = Append(io, payload)
  BY <1>1
<1> HIDE DEF payload
<1>5. io' \in Seq(Tellings) /\ Rising(io', stateFile.lost, LostInAll)
  BY <1>2, <1>3, <1>4, RisingAppend, Numbers DEF StatusInv, CountersRise
<1>6. io' # << >>
  BY <1>2, <1>4, Numbers
<1>7. awaited' \in BOOLEAN
  BY DEF Heartbeat
<1>8. StatusShapes'
  BY <1>3, <1>5, <1>6, <1>7, Numbers DEF StatusInv, StatusShapes
<1>9. StreakTold'
  BY StreakKept DEF StatusInv, Heartbeat, publishVars
<1>10. CountersRise'
  <2>1. LostInAll' = LostInAll
    BY <1>3 DEF LostInAll
  <2> QED
    BY <2>1, <1>3, <1>5 DEF StatusInv, CountersRise
<1> QED
  BY <1>3, <1>8, <1>9, <1>10, Numbers DEF StatusInv, FilesAhead

LEMMA StateWrittenSteps ==
  ASSUME StatusInv, StateWritten PROVE StatusInv' /\ FilesAhead
<1>1. io # << >> /\ io' = Tail(io) /\ stateFile' = Head(io)
  BY DEF StateWritten
<1>2. UNCHANGED <<life, baseline, lostRows, everLost, reports, exportFile>>
  BY DEF StateWritten, counterVars
<1>3. /\ io' \in Seq(Tellings) /\ stateFile' \in Tellings
      /\ stateFile'.lost <= LostInAll /\ Rising(io', stateFile'.lost, LostInAll)
      /\ life # "down" => stateFile.lost <= stateFile'.lost
      /\ life = "down" => shown.lost <= stateFile'.lost
  <2>1. CASE life # "down"
    BY <1>1, <2>1, Numbers, RisingTail DEF StatusInv, CountersRise
  <2>2. CASE life = "down"
    BY <1>1, <2>2, Numbers, RisingTail DEF StatusInv, CountersRise
  <2> QED
    BY <2>1, <2>2
<1>5. stateFile'.lost \in Nat
  BY <1>3 DEF Tellings, Payloads
<1>4. shown.lost <= stateFile'.lost /\ Rising(io', shown.lost, LostInAll)
  <2>1. shown.lost <= stateFile.lost
    BY DEF StatusInv, CountersRise
  <2>2. shown.lost <= stateFile'.lost
    BY <1>3, <1>5, <2>1, Numbers
  <2> QED
    BY <1>3, <1>5, <2>2, Numbers, RisingLower
<1>6. LostInAll' = LostInAll
  BY <1>2 DEF LostInAll
<1>7. CASE awaited /\ Len(io) = 1
  <2>1. life = "up" /\ awaited \in BOOLEAN
    BY <1>7 DEF StatusInv, StatusShapes
  <2>2. ~awaited' /\ awaited' \in BOOLEAN /\ Published(Head(io))
    BY <1>7 DEF StateWritten
  <2>3. shown' = stateFile'
    BY <1>1, <2>2 DEF Published
  <2>4. StatusShapes'
    BY <1>2, <1>3, <2>1, <2>2, <2>3, Numbers DEF StatusInv, StatusShapes
  <2>5. StreakTold'
    <3>1. publishOk' = TRUE /\ goodSince' = Min({goodSince + 1, RecoveryPublishes})
      BY <2>2 DEF Published
    <3>2. /\ goodSince \in 0..RecoveryPublishes /\ degraded \in BOOLEAN /\ recovered \in Nat
          /\ degraded => recovered = goodSince /\ goodSince < RecoveryPublishes
          /\ ~degraded => goodSince = RecoveryPublishes
      BY DEF StatusInv, StreakTold
    <3>3. goodSince' = IF goodSince + 1 < RecoveryPublishes THEN goodSince + 1
                       ELSE RecoveryPublishes
      <4>1. \E n \in {goodSince + 1, RecoveryPublishes} :
               \A m \in {goodSince + 1, RecoveryPublishes} : n <= m
        BY <3>2, Recovery
      <4>2. /\ goodSince' \in {goodSince + 1, RecoveryPublishes}
            /\ \A m \in {goodSince + 1, RecoveryPublishes} : goodSince' <= m
        BY <3>1, <4>1 DEF Min
      <4> QED
        BY <4>2, <3>2, Recovery
    <3>4. CASE degraded
      <4>1. /\ degraded' = (goodSince + 1 < RecoveryPublishes)
            /\ recovered' = (goodSince + 1) % RecoveryPublishes
        BY <2>2, <3>2, <3>4 DEF Published
      <4>2. recovered' \in Nat
        BY <4>1, <3>2, Recovery
      <4>3. goodSince + 1 < RecoveryPublishes => recovered' = goodSince + 1
        BY <4>1, <3>2, Recovery
      <4>4. goodSince' \in 0..RecoveryPublishes
        BY <3>2, <3>3, Recovery
      <4>5. degraded' => recovered' = goodSince' /\ goodSince' < RecoveryPublishes
        BY <4>1, <4>3, <3>3, <3>2, Recovery
      <4>6. ~degraded' => goodSince' = RecoveryPublishes
        BY <4>1, <3>3
      <4>7. publishOk' \in BOOLEAN /\ publishOk' /\ degraded' \in BOOLEAN
        BY <4>1, <3>1
      <4> QED
        BY <4>2, <4>4, <4>5, <4>6, <4>7, Zenon DEF StreakTold
    <3>5. CASE ~degraded
      <4>1. UNCHANGED <<degraded, recovered>>
        BY <2>2, <3>5 DEF Published
      <4>2. goodSince' = RecoveryPublishes /\ goodSince' \in 0..RecoveryPublishes
        BY <3>2, <3>3, <3>5, Recovery
      <4>3. publishOk' /\ publishOk' \in BOOLEAN /\ ~degraded' /\ degraded' \in BOOLEAN
        BY <3>1, <3>2, <3>5, <4>1
      <4>4. recovered' \in Nat
        BY <3>2, <4>1
      <4> QED
        BY <4>2, <4>3, <4>4, Zenon DEF StreakTold
    <3> QED
      BY <3>4, <3>5
  <2>6. CountersRise'
    <3>1. exportFile.lost <= stateFile'.lost /\ Rising(reports, exportFile.lost, stateFile'.lost)
      <4>1. /\ exportFile.lost <= shown.lost /\ shown.lost <= stateFile.lost
            /\ Rising(reports, exportFile.lost, shown.lost)
        BY <2>1 DEF StatusInv, CountersRise
      <4>2. shown.lost <= stateFile'.lost /\ exportFile.lost <= stateFile'.lost
        BY <4>1, <1>4, <1>5, Numbers
      <4> QED
        BY <4>1, <4>2, <1>5, Numbers, RisingWider
    <3> QED
      BY <3>1, <2>1, <2>3, <1>2, <1>3, <1>5, <1>6, Numbers DEF StatusInv, CountersRise
  <2> QED
    BY <2>1, <2>4, <2>5, <2>6, <1>2, <1>3, <1>5, Numbers DEF StatusInv, FilesAhead
<1>8. CASE ~(awaited /\ Len(io) = 1)
  <2>1. UNCHANGED <<awaited, shown, publishOk, degraded, recovered, goodSince>>
    BY <1>8 DEF StateWritten, publishVars
  <2>2. awaited => io' # << >>
    <3>1. Len(io) \in Nat /\ Len(io) > 0
      BY <1>1, Numbers
    <3>2. ~awaited \/ Len(io) > 1
      <4>1. ~awaited \/ Len(io) # 1
        BY <1>8, Zenon
      <4>2. Len(io) # 1 => Len(io) > 1
        <5> DEFINE n == Len(io)
        <5>1. n \in Nat /\ n > 0
          BY <3>1
        <5> HIDE DEF n
        <5>2. n # 1 => n > 1
          BY <5>1
        <5> QED
          BY <5>2 DEF n
      <4> QED
        BY <4>1, <4>2, Zenon
    <3>5. ASSUME Len(io) > 1 PROVE io' # << >>
      <4>1. Len(Tail(io)) = Len(io) - 1
        BY <1>1, Numbers
      <4>2. Len(Tail(io)) > 0
        BY <4>1, <3>1, <3>5
      <4>3. Len(<< >>) = 0
        OBVIOUS
      <4>4. Tail(io) # << >>
        <5>1. SUFFICES ASSUME Tail(io) = << >> PROVE FALSE
          OBVIOUS
        <5>2. Len(Tail(io)) = 0
          BY <5>1, <4>3
        <5>3. ~(0 > 0)
          OBVIOUS
        <5> QED
          BY <5>2, <5>3, <4>2, Zenon
      <4> QED
        BY <4>4, <1>1
    <3> QED
      BY <3>2, <3>5, Zenon
  <2>3. StatusShapes'
    BY <1>2, <1>3, <2>1, <2>2, Numbers DEF StatusInv, StatusShapes
  <2>4. StreakTold'
    BY <2>1, StreakKept DEF StatusInv
  <2>5. CountersRise'
    BY <2>1, <1>2, <1>3, <1>4, <1>5, <1>6, Numbers DEF StatusInv, CountersRise
  <2> QED
    BY <2>3, <2>4, <2>5, <1>2, <1>3, <1>4, <1>5, Numbers DEF StatusInv, FilesAhead
<1> QED
  BY <1>7, <1>8

LEMMA PublishFailsSteps ==
  ASSUME StatusInv, PublishFails PROVE StatusInv' /\ FilesAhead
<1>1. awaited /\ ~awaited' /\ awaited' \in BOOLEAN
  BY DEF PublishFails
<1>2. UNCHANGED <<life, baseline, lostRows, everLost, shown, reports, stateFile, exportFile>>
  BY DEF PublishFails, NotPublished, counterVars
<1>3. life = "up" /\ io # << >>
  BY <1>1 DEF StatusInv, StatusShapes
<1>4. io' \in Seq(Tellings) /\ Rising(io', stateFile.lost, LostInAll)
  <2>1. Rising(io, stateFile.lost, LostInAll)
    BY <1>3 DEF StatusInv, CountersRise
  <2>2. CASE io' = io
    BY <2>1, <2>2, Numbers
  <2>3. CASE io' = SubSeq(io, 1, Len(io) - 1)
    BY <2>1, <2>3, <1>3, Numbers, RisingFront
  <2> QED
    BY <2>2, <2>3 DEF PublishFails
<1>5. StatusShapes'
  BY <1>1, <1>2, <1>3, <1>4, Numbers DEF StatusInv, StatusShapes
<1>6. StreakTold'
  <2>1. /\ goodSince' \in 0..RecoveryPublishes /\ recovered' \in Nat
        /\ recovered' = goodSince' /\ goodSince' < RecoveryPublishes
    BY Recovery DEF PublishFails, NotPublished
  <2>2. ~publishOk' /\ publishOk' \in BOOLEAN /\ degraded' /\ degraded' \in BOOLEAN
    BY DEF PublishFails, NotPublished
  <2> QED
    BY <2>1, <2>2, Zenon DEF StreakTold
<1>7. CountersRise'
  <2>1. LostInAll' = LostInAll
    BY <1>2 DEF LostInAll
  <2> QED
    BY <2>1, <1>2, <1>3, <1>4 DEF StatusInv, CountersRise
<1> QED
  BY <1>2, <1>5, <1>6, <1>7, Numbers DEF StatusInv, FilesAhead

LEMMA ExportSteps ==
  ASSUME StatusInv, Export PROVE StatusInv' /\ FilesAhead
<1> DEFINE state == [shown EXCEPT !.degraded = degraded, !.owed = Owed]
           report == Exported(state)
<1>1. life = "up" /\ reports = << >> /\ reports' = Append(reports, report)
  BY DEF Export
<1>2. UNCHANGED <<life, baseline, lostRows, everLost, shown, io, awaited, stateFile, exportFile>>
  BY DEF Export, counterVars, publishVars
<1>3. Owed => degraded
  BY DEF StatusInv, StreakTold, Owed
<1>4. Owed \in BOOLEAN /\ degraded \in BOOLEAN
  BY DEF StatusInv, StreakTold, Owed
<1>5. shown \in Payloads /\ (shown.running => shown.calm)
  BY Numbers DEF Tellings
<1>6. /\ state \in Payloads /\ state.running = shown.running /\ state.calm = shown.calm
      /\ state.owed = Owed /\ state.degraded = degraded /\ state.lost = shown.lost
  <2> HIDE DEF Owed
  <2> QED
    BY <1>4, <1>5 DEF Payloads
<1>7. report \in Tellings /\ report.lost = shown.lost
  <2> HIDE DEF state
  <2> QED
    BY <1>3, <1>5, <1>6, ExportTells
<1> HIDE DEF report
<1>8. reports' \in Seq(Tellings) /\ Rising(reports', exportFile.lost, shown.lost)
  <2>1. exportFile.lost <= shown.lost /\ Rising(reports, exportFile.lost, shown.lost)
    BY <1>1 DEF StatusInv, CountersRise
  <2>2. exportFile.lost <= report.lost /\ shown.lost <= report.lost
    BY <2>1, <1>7, Numbers
  <2>3. Append(reports, report) \in Seq(Tellings)
        /\ Rising(Append(reports, report), exportFile.lost, report.lost)
    BY <2>1, <2>2, <1>7, RisingAppend, Numbers
  <2> QED
    BY <2>3, <1>1, <1>7
<1>9. StatusShapes'
  BY <1>1, <1>2, <1>8, Numbers DEF StatusInv, StatusShapes
<1>10. StreakTold'
  BY StreakKept DEF StatusInv, Export, publishVars
<1>11. CountersRise'
  <2>1. LostInAll' = LostInAll /\ shown.lost <= LostInAll
    BY <1>1, <1>2, Numbers DEF LostInAll, StatusInv, CountersRise
  <2>2. Rising(reports', exportFile.lost, LostInAll)
    BY <2>1, <1>8, RisingWider, Numbers
  <2> QED
    BY <2>1, <2>2, <1>1, <1>2, <1>8 DEF StatusInv, CountersRise
<1> QED
  BY <1>2, <1>9, <1>10, <1>11, Numbers DEF StatusInv, FilesAhead

LEMMA ExportWrittenSteps ==
  ASSUME StatusInv, ExportWritten PROVE StatusInv' /\ FilesAhead
<1>1. reports # << >> /\ reports' = Tail(reports) /\ exportFile' = Head(reports)
  BY DEF ExportWritten
<1>2. UNCHANGED <<life, baseline, lostRows, everLost, shown, io, awaited, stateFile>>
  BY DEF ExportWritten, counterVars, publishVars
<1>4. /\ reports' \in Seq(Tellings) /\ exportFile' \in Tellings
      /\ exportFile.lost <= exportFile'.lost /\ exportFile'.lost <= LostInAll
      /\ Rising(reports', exportFile'.lost, LostInAll)
  BY <1>1, Numbers, RisingTail DEF StatusInv, CountersRise
<1>5. life = "up" => /\ exportFile'.lost <= shown.lost
                     /\ Rising(reports', exportFile'.lost, shown.lost)
  BY <1>1, Numbers, RisingTail DEF StatusInv, CountersRise
<1>6. exportFile'.lost \in Nat
  BY <1>4 DEF Tellings, Payloads
<1>7. StatusShapes'
  BY <1>2, <1>4, Numbers DEF StatusInv, StatusShapes
<1>8. StreakTold'
  BY StreakKept DEF StatusInv, ExportWritten, publishVars
<1>9. CountersRise'
  <2>1. LostInAll' = LostInAll
    BY <1>2 DEF LostInAll
  <2> QED
    BY <2>1, <1>2, <1>4, <1>5, <1>6, Numbers DEF StatusInv, CountersRise
<1> QED
  BY <1>2, <1>4, <1>6, <1>7, <1>8, <1>9, Numbers DEF StatusInv, FilesAhead

LEMMA StopSteps ==
  ASSUME StatusInv, Stop PROVE StatusInv' /\ FilesAhead
<1>1. PICK here \in BOOLEAN, there \in BOOLEAN :
        LET stopped == RuntimeState("STOPPED", {})
        IN  /\ io' = io \o (IF here THEN <<RuntimeState("STOPPING", {})>> ELSE << >>)
                        \o (IF there THEN <<stopped>> ELSE << >>)
            /\ reports' \in {reports, Append(reports, Exported(stopped))}
  BY DEF Stop
<1> DEFINE stopping == RuntimeState("STOPPING", {})
           stopped == RuntimeState("STOPPED", {})
           last == Exported(stopped)
<1>2. /\ stopping \in Tellings /\ stopping.lost = LostInAll
      /\ stopped \in Tellings /\ stopped.lost = LostInAll
  BY StateTells
<1>3. last \in Tellings /\ last.lost = LostInAll
  <2> HIDE DEF stopped
  <2> QED
    BY <1>2, ExportTells DEF Tellings
<1>4. /\ io' = io \o (IF here THEN <<stopping>> ELSE << >>) \o (IF there THEN <<stopped>> ELSE << >>)
      /\ reports' = reports \/ reports' = Append(reports, last)
  BY <1>1
<1> HIDE DEF stopping, stopped, last
<1>5. /\ life = "up" /\ life' = "stopping" /\ ~awaited' /\ awaited' \in BOOLEAN
      /\ UNCHANGED <<baseline, lostRows, everLost, shown, stateFile, exportFile>>
  BY DEF Stop, counterVars, publishVars
<1>6. /\ Rising(io, stateFile.lost, LostInAll) /\ Rising(reports, exportFile.lost, LostInAll)
      /\ stateFile.lost <= LostInAll /\ exportFile.lost <= LostInAll
  BY <1>5 DEF StatusInv, CountersRise
<1> DEFINE middle == IF here THEN Append(io, stopping) ELSE io
<1>7. middle \in Seq(Tellings) /\ Rising(middle, stateFile.lost, LostInAll)
  <2>1. /\ Append(io, stopping) \in Seq(Tellings)
        /\ Rising(Append(io, stopping), stateFile.lost, stopping.lost)
    BY <1>2, <1>6, RisingAppend, Numbers
  <2> QED
    BY <2>1, <1>2, <1>6, Numbers
<1>8. middle = io \o (IF here THEN <<stopping>> ELSE << >>)
  <2>1. io \o <<stopping>> = Append(io, stopping)
    BY <1>2, Numbers, AppendIsConcat
  <2>2. io \o << >> = io
    BY Numbers, ConcatEmptySeq
  <2> QED
    BY <2>1, <2>2
<1> HIDE DEF middle
<1>9. io' = IF there THEN Append(middle, stopped) ELSE middle
  <2>1. middle \o <<stopped>> = Append(middle, stopped)
    BY <1>2, <1>7, AppendIsConcat
  <2>2. middle \o << >> = middle
    BY <1>7, ConcatEmptySeq
  <2>3. io' = middle \o (IF there THEN <<stopped>> ELSE << >>)
    BY <1>4, <1>8
  <2> QED
    BY <2>1, <2>2, <2>3
<1>10. io' \in Seq(Tellings) /\ Rising(io', stateFile.lost, LostInAll)
  <2>1. /\ Append(middle, stopped) \in Seq(Tellings)
        /\ Rising(Append(middle, stopped), stateFile.lost, stopped.lost)
    BY <1>2, <1>6, <1>7, RisingAppend, Numbers
  <2> QED
    BY <2>1, <1>2, <1>7, <1>9
<1>11. reports' \in Seq(Tellings) /\ Rising(reports', exportFile.lost, LostInAll)
  <2>1. /\ Append(reports, last) \in Seq(Tellings)
        /\ Rising(Append(reports, last), exportFile.lost, last.lost)
    BY <1>3, <1>6, RisingAppend, Numbers
  <2> QED
    BY <2>1, <1>3, <1>4, <1>6, Numbers
<1>12. StatusShapes'
  BY <1>5, <1>10, <1>11, Numbers DEF StatusInv, StatusShapes
<1>13. StreakTold'
  BY StreakKept DEF StatusInv, Stop, publishVars
<1>14. CountersRise'
  <2>1. LostInAll' = LostInAll
    BY <1>5 DEF LostInAll
  <2> QED
    BY <2>1, <1>5, <1>10, <1>11 DEF StatusInv, CountersRise
<1> QED
  BY <1>5, <1>12, <1>13, <1>14, Numbers DEF StatusInv, FilesAhead

LEMMA ReleaseSteps ==
  ASSUME StatusInv, Release PROVE StatusInv' /\ FilesAhead
<1> DEFINE stopped == RuntimeState("STOPPED", {})
<1>1. stopped \in Tellings /\ stopped.lost = LostInAll
  BY StateTells
<1>2. stateFile' = stopped
  BY DEF Release
<1> HIDE DEF stopped
<1>3. /\ life = "stopping" /\ life' = "down"
      /\ UNCHANGED <<baseline, lostRows, everLost, shown, io, reports, awaited, exportFile>>
  BY DEF Release, counterVars, publishVars
<1>4. ~awaited /\ awaited \in BOOLEAN
  BY <1>3, AwaitedUp
<1>5. StatusShapes'
  BY <1>1, <1>2, <1>3, <1>4, Numbers DEF StatusInv, StatusShapes
<1>6. StreakTold'
  BY StreakKept DEF StatusInv, Release, publishVars
<1>7. LostInAll' = LostInAll
  BY <1>3 DEF LostInAll
<1>8. CountersRise'
  <2>1. /\ Rising(io, stateFile.lost, LostInAll) /\ shown.lost <= stateFile.lost
        /\ stateFile.lost <= LostInAll
    BY <1>3 DEF StatusInv, CountersRise
  <2>2. Rising(io, shown.lost, LostInAll)
    BY <2>1, Numbers, RisingLower
  <2> QED
    BY <1>1, <1>2, <1>3, <1>7, <2>1, <2>2, Numbers DEF StatusInv, CountersRise
<1>9. stateFile.lost <= LostInAll
  BY <1>3 DEF StatusInv, CountersRise
<1> QED
  BY <1>1, <1>2, <1>3, <1>5, <1>6, <1>8, <1>9, Numbers DEF StatusInv, FilesAhead

LEMMA CrashSteps ==
  ASSUME StatusInv, Crash PROVE StatusInv' /\ FilesAhead
<1>1. /\ life' = "down" /\ io' = << >> /\ reports' = << >> /\ ~awaited' /\ awaited' \in BOOLEAN
      /\ UNCHANGED <<baseline, lostRows, everLost, shown, stateFile, exportFile>>
  BY DEF Crash, counterVars, publishVars
<1>2. StatusShapes'
  BY <1>1, NothingRises, Numbers DEF StatusInv, StatusShapes
<1>3. StreakTold'
  BY StreakKept DEF StatusInv, Crash, publishVars
<1>4. CountersRise'
  BY <1>1, NothingRises DEF StatusInv, CountersRise, LostInAll
<1> QED
  BY <1>1, <1>2, <1>3, <1>4, Numbers DEF StatusInv, FilesAhead

\* Every step keeps the invariant, and no file is set back behind what it shows.
LEMMA StatusSteps ==
  ASSUME StatusInv, [StatusNext]_statusVars PROVE StatusInv' /\ FilesAhead
<1>1. CASE UNCHANGED statusVars
  <2> USE <1>1 DEF statusVars
  <2>1. StatusShapes'
    BY DEF StatusInv, StatusShapes
  <2>2. StreakTold'
    BY StreakKept DEF StatusInv
  <2>3. CountersRise'
    BY DEF StatusInv, CountersRise, LostInAll
  <2> QED
    BY <2>1, <2>2, <2>3, Numbers DEF StatusInv, FilesAhead
<1> QED
  BY <1>1, LaunchSteps, RowLostSteps, HeartbeatSteps, StateWrittenSteps, PublishFailsSteps,
     ExportSteps, ExportWrittenSteps, StopSteps, ReleaseSteps, CrashSteps DEF StatusNext

-----------------------------------------------------------------------------

\* The names and numbers of the state file and the export tell the truth over
\* every restart, and what they show as lost never shrinks, but to what was shown
\* before the final state that a late publish overwrites (RuntimeStatus).
THEOREM StatusTruth == StatusSpec => []StatusSound /\ LossNeverForgotten
<1>1. StatusInit => StatusInv
  BY StatusStarts
<1>2. StatusInv /\ [StatusNext]_statusVars => StatusInv' /\ FilesAhead
  BY StatusSteps
<1>3. StatusInv => StatusSound
  BY StatusInvImplies
<1>4. FilesAhead => [/\ exportFile'.lost >= exportFile.lost
                     /\ \/ stateFile'.lost >= stateFile.lost
                        \/ life = "down" /\ stateFile'.lost >= shown.lost]_statusVars
  BY DEF FilesAhead
<1> QED
  BY <1>1, <1>2, <1>3, <1>4, PTL DEF StatusSpec, LossNeverForgotten

-----------------------------------------------------------------------------
(* The sections of the export *)

RowCounts == [entries : Nat, terminals : Nat]

Below(a, b) == a.entries <= b.entries /\ a.terminals <= b.terminals

\* Of one section: the rows lack something of what its version follows.
Lacks(name, read, seen) ==
  \E i \in DOMAIN Follows(name, seen) : Follows(name, read)[i] < Follows(name, seen)[i]

\* The rows of every moment so far, which only grow
Moments ==
  /\ sourceRows \in RowCounts /\ clock \in Nat
  /\ rowsAt \in Seq(RowCounts) /\ Len(rowsAt) = clock
  /\ \A i, j \in 1..clock : i <= j => Below(rowsAt[i], rowsAt[j])
  /\ \A i \in 1..clock : Below(rowsAt[i], sourceRows)

\* A section as it was read at one of these moments
ReadThen(at, section, till) ==
  /\ section.asOf \in 1..till
  /\ section.value.rows \in RowCounts /\ Below(at[section.asOf], section.value.rows)

\* What a version says of the moment it was taken at
VersionThen(at, name, section) ==
  /\ section.version[1] \in
       {[build |-> section.asOf, of |-> << >>],
        [build |-> 0, of |-> Follows(name, at[section.asOf])]}
  /\ name = "acceptance_gate" =>
       section.value.from = <<section.version[2], section.version[3]>>

EntriesRead ==
  \A name \in DOMAIN entries :
    /\ name \in SectionNames
    /\ ReadThen(rowsAt, entries[name], clock) /\ VersionThen(rowsAt, name, entries[name])

Lagging(at, name, state, now) ==
  /\ now - state.asOf <= StaleLimit[name]
  /\ ~state.stale =>
       /\ now - state.asOf < Max({1, MaxAge[name]})
       /\ ~Lacks(name, state.value.rows, at[Max({1, now - Interval[name]})])
       /\ ~state.changed => ~Lacks(name, state.value.rows, at[now])

\* What a build has resolved so far
StatesTell(at, build) ==
  /\ \A name \in DOMAIN build.states :
       /\ name \in SectionNames
       /\ name \in Required => build.states[name].available
       /\ build.states[name].available =>
            /\ ReadThen(at, build.states[name], build.now)
            /\ Lagging(at, name, build.states[name], build.now)
  /\ "acceptance_gate" \in DOMAIN build.states =>
       LET gate == build.states["acceptance_gate"]
       IN  /\ ~gate.stale => gate.value.from =
                <<build.states["frequency"].version, build.states["performance"].version>>
           /\ {"frequency", "performance"} \subseteq DOMAIN build.states

\* The sections are resolved in their order.
InOrder(states) == \E k \in 0..4 : DOMAIN states = {Sections[i] : i \in 1..k}

BuildTells ==
  Building =>
    /\ building.now = clock /\ clock > 0
    /\ building.components = Unknown \/ building.components = rowsAt[clock]
    /\ building = [now |-> building.now, components |-> building.components,
                   states |-> building.states]
    /\ InOrder(building.states) /\ StatesTell(rowsAt, building)

FileTells ==
  dashboard # NoFile =>
    /\ dashboard.now \in 1..clock
    /\ DOMAIN dashboard.states = SectionNames /\ StatesTell(rowsAt, dashboard)

ExportInv == Moments /\ EntriesRead /\ BuildTells /\ FileTells

-----------------------------------------------------------------------------

LEMMA FourSections ==
  /\ SectionNames = {"frequency", "performance", "acceptance_gate", "recent_entries"}
  /\ Required \subseteq SectionNames
  /\ Len(Sections) = 4
<1>1. Len(Sections) = 4 /\ DOMAIN Sections = 1..4
  BY DEF Sections
<1>2. /\ Sections[1] = "frequency" /\ Sections[2] = "performance"
      /\ Sections[3] = "acceptance_gate" /\ Sections[4] = "recent_entries"
  BY DEF Sections
<1>3. \A i \in 1..4 : i = 1 \/ i = 2 \/ i = 3 \/ i = 4
  OBVIOUS
<1>4. SectionNames = {"frequency", "performance", "acceptance_gate", "recent_entries"}
  <2>1. 1 \in 1..4 /\ 2 \in 1..4 /\ 3 \in 1..4 /\ 4 \in 1..4
    OBVIOUS
  <2> QED
    BY <1>1, <1>2, <1>3, <2>1, Zenon DEF SectionNames
<1> QED
  BY <1>1, <1>4 DEF Required

LEMMA ExportInvImplies == ExportInv => ExportSound
<1> SUFFICES ASSUME ExportInv PROVE ExportSound
  OBVIOUS
<1>1. CASE dashboard = NoFile
  <2>1. Shown = {}
    BY <1>1 DEF Shown, NoFile, NoBuild
  <2> QED
    BY <1>1, <2>1 DEF ExportSound, NeverFresher, LagBounded, OneGeneration, Whole
<1>2. CASE dashboard # NoFile
  <2>1. /\ DOMAIN dashboard.states = SectionNames /\ StatesTell(rowsAt, dashboard)
        /\ dashboard.now \in 1..clock
    BY <1>2 DEF ExportInv, FileTells
  <2>2. ASSUME NEW name \in Shown
        PROVE  /\ ReadThen(rowsAt, dashboard.states[name], dashboard.now)
               /\ Lagging(rowsAt, name, dashboard.states[name], dashboard.now)
    BY <2>1 DEF Shown, StatesTell
  <2>3. NeverFresher
    <3> SUFFICES ASSUME NEW name \in Shown
                 PROVE  Holds(dashboard.states[name].value, rowsAt[dashboard.states[name].asOf])
      BY DEF NeverFresher
    <3> DEFINE state == dashboard.states[name]
    <3>1. ReadThen(rowsAt, state, dashboard.now)
      BY <2>2
    <3>2. state.asOf \in 1..clock
      BY <3>1, <2>1 DEF ReadThen, ExportInv, Moments
    <3>3. rowsAt[state.asOf] \in RowCounts
      BY <3>2 DEF ExportInv, Moments
    <3> HIDE DEF state
    <3>4. Holds(state.value, rowsAt[state.asOf])
      BY <3>1, <3>3 DEF ReadThen, Below, Holds, RowCounts
    <3> QED
      BY <3>4 DEF state
  <2>4. LagBounded
    BY <2>2 DEF LagBounded, Lagging, Lacks
  <2>5. OneGeneration
    <3>1. "acceptance_gate" \in DOMAIN dashboard.states
      BY <2>1, FourSections
    <3> QED
      BY <2>1, <3>1 DEF OneGeneration, StatesTell
  <2>6. Whole
    BY <2>1, FourSections DEF Whole, StatesTell, Shown
  <2> QED
    BY <2>3, <2>4, <2>5, <2>6 DEF ExportSound
<1> QED
  BY <1>1, <1>2

LEMMA ExportStarts == ExportInit => ExportInv
<1> SUFFICES ASSUME ExportInit PROVE ExportInv
  OBVIOUS
<1> USE DEF ExportInit
<1>1. Moments
  <2>1. sourceRows \in RowCounts /\ clock = 0 /\ rowsAt = << >> /\ rowsAt \in Seq(RowCounts)
    BY DEF RowCounts
  <2>2. \A i \in 1..clock : FALSE
    BY <2>1
  <2> QED
    BY <2>1, <2>2 DEF Moments
<1>2. EntriesRead
  BY DEF EntriesRead
<1>3. BuildTells /\ FileTells
  BY DEF BuildTells, FileTells, Building
<1> QED
  BY <1>1, <1>2, <1>3 DEF ExportInv

-----------------------------------------------------------------------------
(* RowCounts that only grow *)

LEMMA LackNothing ==
  ASSUME NEW name, NEW read \in RowCounts, NEW seen \in RowCounts, Below(seen, read)
  PROVE  ~Lacks(name, read, seen)
<1>1. /\ seen.entries \in Nat /\ seen.terminals \in Nat
      /\ read.entries \in Nat /\ read.terminals \in Nat
      /\ seen.entries <= read.entries /\ seen.terminals <= read.terminals
  BY DEF RowCounts, Below
<1>2. CASE name \in {"frequency", "recent_entries"}
  <2>1. Follows(name, seen) = <<seen.entries>> /\ Follows(name, read) = <<read.entries>>
    BY <1>2 DEF Follows
  <2> QED
    BY <1>1, <2>1 DEF Lacks
<1>3. CASE name \notin {"frequency", "recent_entries"}
  <2>1. /\ Follows(name, seen) = <<seen.entries, seen.terminals>>
        /\ Follows(name, read) = <<read.entries, read.terminals>>
    BY <1>3 DEF Follows
  <2> QED
    BY <1>1, <2>1 DEF Lacks
<1> QED
  BY <1>2, <1>3

\* What lacks something lacks it of all that comes later.
LEMMA LacksLater ==
  ASSUME NEW name, NEW read \in RowCounts, NEW seen \in RowCounts, NEW later \in RowCounts,
         Below(seen, later), ~Lacks(name, read, later)
  PROVE  ~Lacks(name, read, seen)
<1>1. /\ seen.entries \in Nat /\ seen.terminals \in Nat
      /\ later.entries \in Nat /\ later.terminals \in Nat
      /\ read.entries \in Nat /\ read.terminals \in Nat
      /\ seen.entries <= later.entries /\ seen.terminals <= later.terminals
  BY DEF RowCounts, Below
<1>2. CASE name \in {"frequency", "recent_entries"}
  <2>1. /\ Follows(name, seen) = <<seen.entries>> /\ Follows(name, read) = <<read.entries>>
        /\ Follows(name, later) = <<later.entries>>
    BY <1>2 DEF Follows
  <2>2. ~(read.entries < later.entries)
    BY <2>1 DEF Lacks
  <2> QED
    BY <1>1, <2>1, <2>2 DEF Lacks
<1>3. CASE name \notin {"frequency", "recent_entries"}
  <2>1. /\ Follows(name, seen) = <<seen.entries, seen.terminals>>
        /\ Follows(name, read) = <<read.entries, read.terminals>>
        /\ Follows(name, later) = <<later.entries, later.terminals>>
    BY <1>3 DEF Follows
  <2>2. ~(read.entries < later.entries) /\ ~(read.terminals < later.terminals)
    BY <2>1 DEF Lacks
  <2> QED
    BY <1>1, <2>1, <2>2 DEF Lacks
<1> QED
  BY <1>2, <1>3

LEMMA BelowTransitive ==
  ASSUME NEW a \in RowCounts, NEW b \in RowCounts, NEW c \in RowCounts, Below(a, b), Below(b, c)
  PROVE  Below(a, c)
BY DEF RowCounts, Below

LEMMA FollowsAlike ==
  ASSUME NEW name, NEW read \in RowCounts, NEW seen \in RowCounts, NEW now \in RowCounts,
         Below(seen, read), Follows(name, seen) = Follows(name, now)
  PROVE  ~Lacks(name, read, now)
<1>1. /\ seen.entries \in Nat /\ seen.terminals \in Nat
      /\ now.entries \in Nat /\ now.terminals \in Nat
      /\ read.entries \in Nat /\ read.terminals \in Nat
      /\ seen.entries <= read.entries /\ seen.terminals <= read.terminals
  BY DEF RowCounts, Below
<1>2. CASE name \in {"frequency", "recent_entries"}
  <2>1. /\ Follows(name, seen) = <<seen.entries>> /\ Follows(name, read) = <<read.entries>>
        /\ Follows(name, now) = <<now.entries>>
    BY <1>2 DEF Follows
  <2>2. now.entries = seen.entries
    <3>1. <<seen.entries>> = <<now.entries>>
      BY <2>1
    <3> QED
      BY <3>1
  <2> QED
    BY <1>1, <2>1, <2>2 DEF Lacks
<1>3. CASE name \notin {"frequency", "recent_entries"}
  <2>1. /\ Follows(name, seen) = <<seen.entries, seen.terminals>>
        /\ Follows(name, read) = <<read.entries, read.terminals>>
        /\ Follows(name, now) = <<now.entries, now.terminals>>
    BY <1>3 DEF Follows
  <2>2. now.entries = seen.entries /\ now.terminals = seen.terminals
    <3>1. <<seen.entries, seen.terminals>> = <<now.entries, now.terminals>>
      BY <2>1
    <3> QED
      BY <3>1
  <2> QED
    BY <1>1, <2>1, <2>2 DEF Lacks
<1> QED
  BY <1>2, <1>3

LEMMA MaxOne ==
  ASSUME NEW n \in Int PROVE Max({1, n}) = IF n > 1 THEN n ELSE 1
<1>1. \E m \in {1, n} : \A k \in {1, n} : m >= k
  OBVIOUS
<1>2. Max({1, n}) \in {1, n} /\ \A k \in {1, n} : Max({1, n}) >= k
  BY <1>1 DEF Max
<1> QED
  BY <1>2

LEMMA MaxZero ==
  ASSUME NEW n \in Int PROVE Max({0, n}) = IF n > 0 THEN n ELSE 0
<1>1. \E m \in {0, n} : \A k \in {0, n} : m >= k
  OBVIOUS
<1>2. Max({0, n}) \in {0, n} /\ \A k \in {0, n} : Max({0, n}) >= k
  BY <1>1 DEF Max
<1> QED
  BY <1>2

LEMMA Policies ==
  ASSUME NEW name \in SectionNames
  PROVE  /\ MaxAge[name] \in Nat /\ Interval[name] \in Nat /\ StaleLimit[name] \in Nat
         /\ MaxAge[name] <= StaleLimit[name]
BY ExportAssumption

\* The sections resolved so far, and the next of them
LEMMA SectionsInOrder ==
  ASSUME NEW states, InOrder(states)
  PROVE  /\ Cardinality(DOMAIN states) < Len(Sections) =>
              LET next == Sections[Cardinality(DOMAIN states) + 1]
              IN  /\ next \in SectionNames /\ next \notin DOMAIN states
                  /\ next = "acceptance_gate" =>
                       {"frequency", "performance"} \subseteq DOMAIN states
                  /\ \A more : DOMAIN more = DOMAIN states \cup {next} => InOrder(more)
         /\ ~(Cardinality(DOMAIN states) < Len(Sections)) => DOMAIN states = SectionNames
<1> DEFINE P(k) == {Sections[i] : i \in 1..k}
<1>1. PICK k \in 0..4 : DOMAIN states = P(k)
  BY DEF InOrder
<1>2. /\ Sections[1] = "frequency" /\ Sections[2] = "performance"
      /\ Sections[3] = "acceptance_gate" /\ Sections[4] = "recent_entries"
  BY DEF Sections
<1>3. /\ P(0) = {} /\ P(1) = {"frequency"} /\ P(2) = {"frequency", "performance"}
      /\ P(3) = {"frequency", "performance", "acceptance_gate"} /\ P(4) = SectionNames
  <2>1. 1..0 = {} /\ 1..1 = {1} /\ 1..2 = {1, 2} /\ 1..3 = {1, 2, 3} /\ 1..4 = {1, 2, 3, 4}
    OBVIOUS
  <2>2. P(0) = {}
    BY <2>1
  <2>3. P(1) = {"frequency"}
    BY <2>1, <1>2
  <2>4. P(2) = {"frequency", "performance"}
    BY <2>1, <1>2
  <2>5. P(3) = {"frequency", "performance", "acceptance_gate"}
    BY <2>1, <1>2
  <2>6. P(4) = {"frequency", "performance", "acceptance_gate", "recent_entries"}
    BY <2>1, <1>2
  <2> QED
    BY <2>2, <2>3, <2>4, <2>5, <2>6, FourSections
<1>4. /\ Cardinality(P(0)) = 0 /\ Cardinality(P(1)) = 1 /\ Cardinality(P(2)) = 2
      /\ Cardinality(P(3)) = 3 /\ Cardinality(P(4)) = 4
  <2>1. Cardinality({}) = 0 /\ IsFiniteSet({})
    BY FS_EmptySet
  <2>2. Cardinality(P(1)) = 1 /\ IsFiniteSet(P(1))
    BY <1>3, FS_Singleton
  <2>3. P(2) = P(1) \cup {"performance"} /\ "performance" \notin P(1)
    BY <1>3
  <2>4. P(3) = P(2) \cup {"acceptance_gate"} /\ "acceptance_gate" \notin P(2)
    BY <1>3
  <2>5. P(4) = P(3) \cup {"recent_entries"} /\ "recent_entries" \notin P(3)
    BY <1>3, FourSections
  <2> HIDE DEF P
  <2>6. Cardinality(P(2)) = 2 /\ IsFiniteSet(P(2))
    BY <2>2, <2>3, FS_AddElement
  <2>7. Cardinality(P(3)) = 3 /\ IsFiniteSet(P(3))
    BY <2>6, <2>4, FS_AddElement
  <2>8. Cardinality(P(4)) = 4
    BY <2>7, <2>5, FS_AddElement
  <2> QED
    BY <1>3, <2>1, <2>2, <2>6, <2>7, <2>8
<1>5. /\ 0 + 1 = 1 /\ 1 + 1 = 2 /\ 2 + 1 = 3 /\ 3 + 1 = 4
      /\ 0 < 4 /\ 1 < 4 /\ 2 < 4 /\ 3 < 4 /\ ~(4 < 4) /\ Len(Sections) = 4
  BY FourSections
<1>6. ASSUME NEW more, NEW n \in 0..4, DOMAIN more = P(n) PROVE InOrder(more)
  BY <1>6 DEF InOrder
<1> HIDE DEF P
<1>7. CASE k = 0
  <2>1. P(1) = P(0) \cup {"frequency"}
    BY <1>3
  <2> QED
    BY <1>1, <1>2, <1>3, <1>4, <1>5, <1>6, <1>7, <2>1, FourSections
<1>8. CASE k = 1
  <2>1. P(2) = P(1) \cup {"performance"}
    BY <1>3
  <2> QED
    BY <1>1, <1>2, <1>3, <1>4, <1>5, <1>6, <1>8, <2>1, FourSections
<1>9. CASE k = 2
  <2>1. P(3) = P(2) \cup {"acceptance_gate"}
    BY <1>3
  <2> QED
    BY <1>1, <1>2, <1>3, <1>4, <1>5, <1>6, <1>9, <2>1, FourSections
<1>10. CASE k = 3
  <2>1. P(4) = P(3) \cup {"recent_entries"}
    BY <1>3, FourSections
  <2> QED
    BY <1>1, <1>2, <1>3, <1>4, <1>5, <1>6, <1>10, <2>1, FourSections
<1>11. CASE k = 4
  BY <1>1, <1>3, <1>4, <1>5, <1>11
<1>12. k = 0 \/ k = 1 \/ k = 2 \/ k = 3 \/ k = 4
  BY <1>1
<1> QED
  BY <1>7, <1>8, <1>9, <1>10, <1>11, <1>12

\* What was read of moments that stand was read of them still.
LEMMA TellsStill ==
  ASSUME NEW at, NEW later, NEW build, NEW n \in Nat, StatesTell(at, build), build.now \in 1..n,
         \A i \in 1..n : later[i] = at[i]
  PROVE  StatesTell(later, build)
<1>1. ASSUME NEW name \in DOMAIN build.states, build.states[name].available
      PROVE  /\ ReadThen(later, build.states[name], build.now)
             /\ Lagging(later, name, build.states[name], build.now)
  <2> DEFINE state == build.states[name]
             start == Max({1, build.now - Interval[name]})
  <2>1. /\ name \in SectionNames
        /\ ReadThen(at, state, build.now) /\ Lagging(at, name, state, build.now)
    BY <1>1 DEF StatesTell
  <2>2. state.asOf \in 1..n /\ build.now \in 1..n
    BY <2>1 DEF ReadThen
  <2>3. start \in 1..n
    <3>1. Interval[name] \in Nat
      BY <2>1, Policies
    <3>2. build.now - Interval[name] \in Int /\ build.now - Interval[name] <= n /\ 1 <= n
      BY <3>1, <2>2
    <3> QED
      BY <3>2, MaxOne
  <2>4. later[state.asOf] = at[state.asOf] /\ later[start] = at[start]
        /\ later[build.now] = at[build.now]
    BY <2>2, <2>3
  <2>5. Lagging(later, name, state, build.now)
    BY <2>1, <2>4 DEF Lagging
  <2> QED
    BY <2>1, <2>4, <2>5 DEF ReadThen
<1> QED
  BY <1>1 DEF StatesTell

-----------------------------------------------------------------------------
(* Resolving a section *)

LEMMA UnderWay ==
  ASSUME ExportInv, Building
  PROVE  /\ clock \in Nat /\ clock > 0 /\ clock \in 1..clock /\ building.now = clock
         /\ sourceRows \in RowCounts /\ \A i \in 1..clock : rowsAt[i] \in RowCounts
         /\ \A i, j \in 1..clock : i <= j => Below(rowsAt[i], rowsAt[j])
         /\ \A i \in 1..clock : Below(rowsAt[i], sourceRows)
         /\ InOrder(building.states) /\ StatesTell(rowsAt, building)
         /\ building.components = Unknown \/ building.components = rowsAt[clock]
<1>1. clock \in Nat /\ clock > 0 /\ building.now = clock
  BY DEF ExportInv, Moments, BuildTells
<1>2. clock \in 1..clock
  BY <1>1
<1>3. \A i \in 1..clock : rowsAt[i] \in RowCounts
  BY DEF ExportInv, Moments
<1> QED
  BY <1>1, <1>2, <1>3 DEF ExportInv, Moments, BuildTells

\* A cached value whose version has not changed lacks nothing committed before the
\* build.
LEMMA VersionTells ==
  ASSUME ExportInv, Building, NEW name \in SectionNames, Cached(name), ~Changed(name)
  PROVE  ~Lacks(name, entries[name].value.rows, rowsAt[clock])
<1> DEFINE section == entries[name]
<1>1. ReadThen(rowsAt, section, clock) /\ VersionThen(rowsAt, name, section)
  BY DEF ExportInv, EntriesRead, Cached
<1>2. section.version[1] = Token(name)
  <2>1. section.version = SectionVersion(name)
    BY DEF Changed
  <2>2. SectionVersion(name)[1] = Token(name)
    BY DEF SectionVersion
  <2> QED
    BY <2>1, <2>2
<1> HIDE DEF section
<1>3. /\ section.asOf \in 1..clock /\ section.value.rows \in RowCounts
      /\ Below(rowsAt[section.asOf], section.value.rows)
  BY <1>1 DEF ReadThen
<1>4. rowsAt[section.asOf] \in RowCounts /\ rowsAt[clock] \in RowCounts
  BY <1>3, UnderWay
<1>5. CASE building.components = Unknown
  <2>1. Token(name) = [build |-> clock, of |-> << >>]
    BY <1>5, UnderWay DEF Token
  <2>2. Token(name).build = clock
    BY <2>1
  <2>3. section.version[1].build \in {section.asOf, 0}
    BY <1>1 DEF VersionThen
  <2>4. section.asOf = clock
    BY <2>2, <2>3, <1>2, UnderWay
  <2> QED
    BY <2>4, <1>3, <1>4, LackNothing DEF section
<1>6. CASE building.components # Unknown
  <2>1. Token(name) = [build |-> 0, of |-> Follows(name, rowsAt[clock])]
    BY <1>6, UnderWay DEF Token
  <2>2. Token(name).build = 0 /\ Token(name).of = Follows(name, rowsAt[clock])
    BY <2>1
  <2>3. section.asOf # 0
    BY <1>3
  <2>4. section.version[1] = [build |-> 0, of |-> Follows(name, rowsAt[section.asOf])]
    <3>1. section.version[1] # [build |-> section.asOf, of |-> << >>]
      <4>1. [build |-> section.asOf, of |-> << >>].build = section.asOf
        OBVIOUS
      <4> QED
        BY <4>1, <2>2, <2>3, <1>2
    <3> QED
      BY <3>1, <1>1 DEF VersionThen
  <2>5. Follows(name, rowsAt[section.asOf]) = Follows(name, rowsAt[clock])
    BY <2>2, <2>4, <1>2
  <2> QED
    BY <2>5, <1>3, <1>4, FollowsAlike DEF section
<1> QED
  BY <1>5, <1>6

LEMMA CachedTells ==
  ASSUME ExportInv, Building, NEW name \in SectionNames, Cached(name), NEW stale \in BOOLEAN,
         IF stale THEN Retainable(name) ELSE Reusable(name)
  PROVE  LET state == FromCache(name, stale)
         IN  /\ state.available /\ state.stale = stale
             /\ ReadThen(rowsAt, state, clock) /\ Lagging(rowsAt, name, state, clock)
<1> DEFINE section == entries[name]
           state == FromCache(name, stale)
           start == Max({1, clock - Interval[name]})
<1>1. /\ state.available /\ state.stale = stale /\ state.value = section.value
      /\ state.asOf = section.asOf /\ state.changed = Changed(name)
  BY DEF FromCache
<1>2. /\ section.asOf \in 1..clock /\ section.value.rows \in RowCounts
      /\ Below(rowsAt[section.asOf], section.value.rows)
  BY DEF ExportInv, EntriesRead, Cached, ReadThen
<1>3. ReadThen(rowsAt, state, clock)
  BY <1>1, <1>2 DEF ReadThen
<1>4. /\ MaxAge[name] \in Nat /\ Interval[name] \in Nat /\ StaleLimit[name] \in Nat
      /\ MaxAge[name] <= StaleLimit[name]
  BY Policies
<1>5. clock \in Nat /\ clock > 0 /\ building.now = clock
  BY UnderWay
<1>6. CASE stale
  BY <1>1, <1>3, <1>5, <1>6 DEF Retainable, Lagging
<1>7. CASE ~stale
  <2>1. SectionAge(name) = clock - section.asOf
    BY <1>2, <1>5, MaxZero DEF SectionAge
  <2>2. clock - section.asOf < MaxAge[name]
    BY <1>7, <2>1 DEF Reusable
  <2>3. clock - section.asOf <= StaleLimit[name]
    BY <2>2, <1>2, <1>4, <1>5
  <2>4. clock - section.asOf < Max({1, MaxAge[name]})
    BY <2>2, <1>2, <1>4, <1>5, MaxOne
  <2>5. start \in 1..clock
    BY <1>4, <1>5, MaxOne
  <2>6. ~Changed(name) => ~Lacks(name, section.value.rows, rowsAt[clock])
    BY VersionTells
  <2>7. ~Lacks(name, section.value.rows, rowsAt[start])
    <3>1. /\ rowsAt[start] \in RowCounts /\ rowsAt[clock] \in RowCounts /\ rowsAt[section.asOf] \in RowCounts
          /\ Below(rowsAt[start], rowsAt[clock])
      BY <2>5, <1>2, <1>5, UnderWay
    <3>2. CASE Changed(name)
      <4>1. clock - section.asOf < Interval[name]
        BY <1>7, <2>1, <3>2 DEF Reusable
      <4>2. start <= section.asOf
        BY <4>1, <1>2, <1>4, <1>5, MaxOne
      <4>3. Below(rowsAt[start], rowsAt[section.asOf])
        BY <4>2, <2>5, <1>2, UnderWay
      <4>4. Below(rowsAt[start], section.value.rows)
        BY <4>3, <3>1, <1>2, BelowTransitive
      <4> QED
        BY <4>4, <3>1, <1>2, LackNothing
    <3>3. CASE ~Changed(name)
      <4>1. ~Lacks(name, section.value.rows, rowsAt[clock])
        BY <3>3, <2>6
      <4> QED
        BY <4>1, <3>1, <1>2, LacksLater
    <3> QED
      BY <3>2, <3>3
  <2> HIDE DEF state, section, start
  <2>8. Lagging(rowsAt, name, state, clock)
    BY <1>1, <2>3, <2>4, <2>6, <2>7 DEF Lagging, start
  <2> QED
    BY <2>8, <1>1, <1>3 DEF state
<1> QED
  BY <1>6, <1>7

-----------------------------------------------------------------------------
(* The steps *)

\* A section that tells the truth joins those the build has resolved.
LEMMA ResolvedTells ==
  ASSUME ExportInv, Building, Unresolved, NEW state, Resolved(NextSection, state),
         UNCHANGED <<clock, rowsAt>>,
         NextSection \in Required => state.available,
         state.available => /\ ReadThen(rowsAt, state, clock)
                            /\ Lagging(rowsAt, NextSection, state, clock),
         NextSection = "acceptance_gate" /\ ~state.stale =>
           state.value.from = <<building.states["frequency"].version,
                                building.states["performance"].version>>
  PROVE  BuildTells'
<1> DEFINE states == building.states
           more == With(states, NextSection, state)
<1>1. /\ building.now = clock /\ clock > 0 /\ InOrder(states) /\ StatesTell(rowsAt, building)
      /\ building.components = Unknown \/ building.components = rowsAt[clock]
      /\ building = [now |-> building.now, components |-> building.components,
                     states |-> states]
  BY DEF ExportInv, BuildTells
<1>2. building' = [now |-> clock, components |-> building.components, states |-> more]
  BY <1>1 DEF Resolved
<1>3. /\ NextSection \in SectionNames /\ NextSection \notin DOMAIN states
      /\ NextSection = "acceptance_gate" => {"frequency", "performance"} \subseteq DOMAIN states
      /\ \A f : DOMAIN f = DOMAIN states \cup {NextSection} => InOrder(f)
  BY <1>1, SectionsInOrder DEF Unresolved, NextSection
<1>4. /\ DOMAIN more = DOMAIN states \cup {NextSection} /\ more[NextSection] = state
      /\ \A name \in DOMAIN states : name # NextSection /\ more[name] = states[name]
  BY <1>3 DEF With
<1>5. InOrder(more)
  BY <1>3, <1>4
<1> HIDE DEF more
<1>6. building'.now = clock /\ building'.states = more /\ building'.components = building.components
  BY <1>2
<1>7. StatesTell(rowsAt, building')
  <2>1. ASSUME NEW name \in DOMAIN more
        PROVE  /\ name \in SectionNames
               /\ name \in Required => more[name].available
               /\ more[name].available =>
                    /\ ReadThen(rowsAt, more[name], clock)
                    /\ Lagging(rowsAt, name, more[name], clock)
    <3>1. CASE name = NextSection
      BY <3>1, <1>3, <1>4
    <3>2. CASE name \in DOMAIN states
      BY <3>2, <1>1, <1>4 DEF StatesTell
    <3> QED
      BY <2>1, <3>1, <3>2, <1>4
  <2>2. ASSUME "acceptance_gate" \in DOMAIN more
        PROVE  /\ ~more["acceptance_gate"].stale => more["acceptance_gate"].value.from =
                    <<more["frequency"].version, more["performance"].version>>
               /\ {"frequency", "performance"} \subseteq DOMAIN more
    <3>1. CASE NextSection = "acceptance_gate"
      <4>1. {"frequency", "performance"} \subseteq DOMAIN states
        BY <3>1, <1>3
      <4>2. more["frequency"] = states["frequency"] /\ more["performance"] = states["performance"]
        BY <4>1, <1>4
      <4> QED
        BY <3>1, <4>1, <4>2, <1>4
    <3>2. CASE "acceptance_gate" \in DOMAIN states
      <4>1. /\ ~states["acceptance_gate"].stale => states["acceptance_gate"].value.from =
                 <<states["frequency"].version, states["performance"].version>>
            /\ {"frequency", "performance"} \subseteq DOMAIN states
        BY <3>2, <1>1 DEF StatesTell
      <4>2. /\ more["frequency"] = states["frequency"]
            /\ more["performance"] = states["performance"]
            /\ more["acceptance_gate"] = states["acceptance_gate"]
        BY <3>2, <4>1, <1>4
      <4> QED
        BY <4>1, <4>2, <1>4
    <3> QED
      BY <2>2, <3>1, <3>2, <1>4
  <2> QED
    BY <1>6, <2>1, <2>2 DEF StatesTell
<1>8. clock' = clock /\ rowsAt' = rowsAt
  OBVIOUS
<1>9. building' = [now |-> building'.now, components |-> building'.components,
                   states |-> building'.states]
  BY <1>2, <1>6
<1> QED
  BY <1>1, <1>5, <1>6, <1>7, <1>8, <1>9 DEF BuildTells

LEMMA FileStands ==
  ASSUME FileTells, UNCHANGED <<clock, rowsAt, dashboard>> PROVE FileTells'
BY DEF FileTells

LEMMA MomentsStand ==
  ASSUME Moments, UNCHANGED <<sourceRows, clock, rowsAt>> PROVE Moments'
BY DEF Moments

LEMMA NextNamed ==
  ASSUME ExportInv, Building, Unresolved PROVE NextSection \in SectionNames
BY UnderWay, SectionsInOrder DEF Unresolved, NextSection

LEMMA ReuseSteps ==
  ASSUME ExportInv, Reuse PROVE ExportInv'
<1> DEFINE state == FromCache(NextSection, FALSE)
<1>1. /\ Building /\ Unresolved /\ Reusable(NextSection) /\ Resolved(NextSection, state)
      /\ UNCHANGED <<sourceRows, clock, rowsAt, entries, dashboard>>
  BY DEF Reuse
<1>2. NextSection \in SectionNames /\ Cached(NextSection)
  BY <1>1, NextNamed DEF Reusable
<1>3. /\ state.available /\ state.stale = FALSE
      /\ ReadThen(rowsAt, state, clock) /\ Lagging(rowsAt, NextSection, state, clock)
  BY <1>1, <1>2, CachedTells
<1>4. NextSection = "acceptance_gate" =>
        state.value.from = <<building.states["frequency"].version,
                             building.states["performance"].version>>
  <2> SUFFICES ASSUME NextSection = "acceptance_gate"
               PROVE  state.value.from = <<building.states["frequency"].version,
                                           building.states["performance"].version>>
    OBVIOUS
  <2> DEFINE gate == entries["acceptance_gate"]
  <2>1. ReadThen(rowsAt, gate, clock) /\ gate.value.from = <<gate.version[2], gate.version[3]>>
    BY <1>2 DEF ExportInv, EntriesRead, VersionThen, Cached
  <2>2. ~Changed("acceptance_gate")
    <3>1. SectionAge("acceptance_gate") >= 0
      <4>1. building.now - gate.asOf \in Int
        BY <1>1, <2>1, UnderWay DEF ReadThen
      <4> HIDE DEF gate
      <4> QED
        BY <4>1, MaxZero DEF SectionAge, gate
    <3>2. ~(SectionAge("acceptance_gate") < 0)
      <4>1. SectionAge("acceptance_gate") \in Int
        <5>1. building.now - gate.asOf \in Int
          BY <1>1, <2>1, UnderWay DEF ReadThen
        <5> HIDE DEF gate
        <5> QED
          BY <5>1, MaxZero DEF SectionAge, gate
      <4> QED
        BY <3>1, <4>1
    <3>3. Interval["acceptance_gate"] = 0
      BY ExportAssumption
    <3> QED
      BY <1>1, <3>2, <3>3 DEF Reusable
  <2>3. gate.version = <<Token("acceptance_gate"), building.states["frequency"].version,
                         building.states["performance"].version>>
    BY <2>2 DEF Changed, SectionVersion
  <2>4. state.value = gate.value
    BY DEF FromCache
  <2> HIDE DEF state, gate
  <2>5. /\ gate.version[2] = building.states["frequency"].version
        /\ gate.version[3] = building.states["performance"].version
    BY <2>3
  <2> QED
    BY <2>1, <2>4, <2>5
<1> HIDE DEF state
<1>5. BuildTells'
  BY <1>1, <1>3, <1>4, ResolvedTells
<1>6. EntriesRead'
  BY <1>1 DEF ExportInv, EntriesRead
<1> QED
  BY <1>1, <1>5, <1>6, FileStands, MomentsStand DEF ExportInv

LEMMA EntriesJoined ==
  ASSUME EntriesRead, NEW name \in SectionNames, NEW section,
         ReadThen(rowsAt, section, clock), VersionThen(rowsAt, name, section),
         entries' = With(entries, name, section), UNCHANGED <<clock, rowsAt>>
  PROVE  EntriesRead'
<1>1. ASSUME NEW other \in DOMAIN entries'
      PROVE  /\ other \in SectionNames
             /\ ReadThen(rowsAt, entries'[other], clock)
             /\ VersionThen(rowsAt, other, entries'[other])
  <2>1. CASE other = name
    <3>1. entries'[other] = section
      BY <2>1, <1>1 DEF With
    <3> QED
      BY <2>1, <3>1
  <2>2. CASE other # name
    <3>1. other \in DOMAIN entries /\ entries'[other] = entries[other]
      BY <2>2, <1>1 DEF With
    <3> QED
      BY <3>1 DEF EntriesRead
  <2> QED
    BY <2>1, <2>2
<1> QED
  BY <1>1 DEF EntriesRead

LEMMA RefreshSteps ==
  ASSUME ExportInv, Refresh PROVE ExportInv'
<1> DEFINE fresh == [value |-> Read(NextSection), version |-> SectionVersion(NextSection),
                     asOf |-> building.now]
           state == [value |-> fresh.value, version |-> fresh.version, asOf |-> fresh.asOf,
                     changed |-> FALSE, stale |-> FALSE, available |-> TRUE]
<1>1. /\ Building /\ Unresolved /\ Resolved(NextSection, state)
      /\ entries' = With(entries, NextSection, fresh)
      /\ UNCHANGED <<sourceRows, clock, rowsAt, dashboard>>
  BY DEF Refresh
<1>2. NextSection \in SectionNames
  BY <1>1, NextNamed
<1>3. /\ fresh.asOf = clock /\ fresh.value = Read(NextSection)
      /\ fresh.value.rows = sourceRows /\ fresh.version = SectionVersion(NextSection)
  BY <1>1, UnderWay DEF Read
<1>4. NextSection = "acceptance_gate" =>
        /\ fresh.value.from = <<building.states["frequency"].version,
                                building.states["performance"].version>>
        /\ fresh.version = <<Token(NextSection), building.states["frequency"].version,
                             building.states["performance"].version>>
  BY DEF Read, SectionVersion
<1>5. fresh.version[1] = Token(NextSection)
  BY DEF SectionVersion
<1>6. /\ state.value = fresh.value /\ state.asOf = fresh.asOf
      /\ state.available /\ ~state.stale /\ ~state.changed
  OBVIOUS
<1> HIDE DEF fresh, state
<1>7. ReadThen(rowsAt, fresh, clock) /\ ReadThen(rowsAt, state, clock)
  BY <1>1, <1>3, <1>6, UnderWay DEF ReadThen
<1>8. Lagging(rowsAt, NextSection, state, clock)
  <2> DEFINE name == NextSection
             start == Max({1, clock - Interval[name]})
  <2>1. MaxAge[name] \in Nat /\ Interval[name] \in Nat /\ StaleLimit[name] \in Nat
    BY <1>2, Policies
  <2>2. clock \in Nat /\ clock > 0
    BY <1>1, UnderWay
  <2>3. start \in 1..clock
    BY <2>1, <2>2, MaxOne
  <2>4. rowsAt[start] \in RowCounts /\ rowsAt[clock] \in RowCounts /\ sourceRows \in RowCounts
        /\ Below(rowsAt[start], sourceRows) /\ Below(rowsAt[clock], sourceRows)
    BY <2>3, <1>1, UnderWay
  <2>5. ~Lacks(name, sourceRows, rowsAt[start]) /\ ~Lacks(name, sourceRows, rowsAt[clock])
    BY <2>4, LackNothing
  <2>6. clock - clock <= StaleLimit[name] /\ clock - clock < Max({1, MaxAge[name]})
    BY <2>1, <2>2, MaxOne
  <2> HIDE DEF name
  <2>7. state.asOf = clock /\ state.value.rows = sourceRows
    BY <1>3, <1>6
  <2>8. Lagging(rowsAt, name, state, clock)
    BY <2>5, <2>6, <2>7 DEF Lagging, start
  <2> QED
    BY <2>8 DEF name
<1>9. VersionThen(rowsAt, NextSection, fresh)
  <2>1. Token(NextSection) \in {[build |-> clock, of |-> << >>],
                                [build |-> 0, of |-> Follows(NextSection, rowsAt[clock])]}
    BY <1>1, UnderWay DEF Token
  <2>2. NextSection = "acceptance_gate" =>
          fresh.value.from = <<fresh.version[2], fresh.version[3]>>
    BY <1>4
  <2> QED
    BY <2>1, <2>2, <1>3, <1>5 DEF VersionThen
<1>10. BuildTells'
  BY <1>1, <1>4, <1>6, <1>7, <1>8, ResolvedTells
<1>11. EntriesRead'
  BY <1>1, <1>2, <1>7, <1>9, EntriesJoined DEF ExportInv
<1> QED
  BY <1>1, <1>10, <1>11, FileStands, MomentsStand DEF ExportInv

LEMMA NotBuilding == ASSUME ExportInv, building' = NoBuild PROVE BuildTells'
BY DEF BuildTells, Building

LEMMA RefreshFailsSteps ==
  ASSUME ExportInv, RefreshFails PROVE ExportInv'
<1>1. /\ Building /\ Unresolved
      /\ UNCHANGED <<sourceRows, clock, rowsAt, dashboard>>
  BY DEF RefreshFails
<1>2. NextSection \in SectionNames
  BY <1>1, NextNamed
<1>3. Moments' /\ FileTells'
  BY <1>1, FileStands, MomentsStand DEF ExportInv
<1>4. CASE Retainable(NextSection)
  <2> DEFINE state == FromCache(NextSection, TRUE)
  <2>1. Resolved(NextSection, state) /\ entries' = entries
    BY <1>4 DEF RefreshFails
  <2>2. /\ state.available /\ state.stale = TRUE
        /\ ReadThen(rowsAt, state, clock) /\ Lagging(rowsAt, NextSection, state, clock)
    BY <1>1, <1>2, <1>4, CachedTells DEF Retainable
  <2> HIDE DEF state
  <2>3. BuildTells'
    BY <1>1, <2>1, <2>2, ResolvedTells
  <2>4. EntriesRead'
    BY <1>1, <2>1 DEF ExportInv, EntriesRead
  <2> QED
    BY <1>3, <2>3, <2>4 DEF ExportInv
<1>5. CASE ~Retainable(NextSection) /\ NextSection \in Required
  <2>1. building' = NoBuild /\ entries' = entries
    BY <1>5 DEF RefreshFails
  <2>2. EntriesRead'
    BY <1>1, <2>1 DEF ExportInv, EntriesRead
  <2> QED
    BY <1>3, <2>1, <2>2, NotBuilding DEF ExportInv
<1>6. CASE ~Retainable(NextSection) /\ NextSection \notin Required
  <2>1. /\ Resolved(NextSection, Unavailable)
        /\ entries' = [kept \in DOMAIN entries \ {NextSection} |-> entries[kept]]
    BY <1>6 DEF RefreshFails
  <2>2. ~Unavailable.available
    BY DEF Unavailable
  <2>3. NextSection # "acceptance_gate"
    BY <1>6 DEF Required
  <2>4. BuildTells'
    BY <1>1, <1>6, <2>1, <2>2, <2>3, ResolvedTells
  <2>5. EntriesRead'
    BY <1>1, <2>1 DEF ExportInv, EntriesRead
  <2> QED
    BY <1>3, <2>4, <2>5 DEF ExportInv
<1> QED
  BY <1>4, <1>5, <1>6

LEMMA StartBuildSteps ==
  ASSUME ExportInv, StartBuild PROVE ExportInv'
<1>1. PICK wait \in 1..MaxWait, components \in {sourceRows, Unknown} :
        /\ clock' = clock + wait
        /\ rowsAt' = rowsAt \o [moment \in 1..wait |-> sourceRows]
        /\ building' = [now |-> clock', components |-> components, states |-> << >>]
  BY DEF StartBuild
<1>2. UNCHANGED <<sourceRows, entries, dashboard>>
  BY DEF StartBuild
<1>3. /\ clock \in Nat /\ sourceRows \in RowCounts /\ rowsAt \in Seq(RowCounts) /\ Len(rowsAt) = clock
      /\ wait \in Nat /\ wait > 0
  BY ExportAssumption DEF ExportInv, Moments
<1> DEFINE added == [moment \in 1..wait |-> sourceRows]
<1>4. added \in Seq(RowCounts) /\ Len(added) = wait /\ \A i \in 1..wait : added[i] = sourceRows
  BY <1>3
<1>5. rowsAt' = rowsAt \o added
  BY <1>1
<1> HIDE DEF added
<1>6. /\ rowsAt' \in Seq(RowCounts) /\ Len(rowsAt') = clock'
      /\ \A i \in 1..clock' :
           rowsAt'[i] = IF i <= clock THEN rowsAt[i] ELSE added[i - clock]
  BY <1>1, <1>3, <1>4, <1>5, ConcatProperties
<1>7. \A i \in 1..clock : rowsAt'[i] = rowsAt[i]
  BY <1>1, <1>3, <1>6
<1>8. \A i \in (clock + 1)..clock' : rowsAt'[i] = sourceRows
  BY <1>1, <1>3, <1>4, <1>6
<1>9. clock' \in 1..clock' /\ rowsAt'[clock'] = sourceRows /\ clock' \in Nat /\ clock' > 0
      /\ clock <= clock'
  BY <1>1, <1>3, <1>8
<1>10. \A i \in 1..clock' : i \in 1..clock \/ i \in (clock + 1)..clock'
  BY <1>1, <1>3
<1>11. Moments'
  <2>1. Below(sourceRows, sourceRows)
    BY <1>3 DEF Below, RowCounts
  <2>2. ASSUME NEW i \in 1..clock' PROVE Below(rowsAt'[i], sourceRows)
    BY <2>1, <1>7, <1>8, <1>10 DEF ExportInv, Moments
  <2>3. ASSUME NEW i \in 1..clock', NEW j \in 1..clock', i <= j
        PROVE  Below(rowsAt'[i], rowsAt'[j])
    <3>1. CASE j \in 1..clock
      <4>1. i \in 1..clock
        BY <2>3, <3>1, <1>3
      <4> QED
        BY <2>3, <3>1, <4>1, <1>7 DEF ExportInv, Moments
    <3>2. CASE j \in (clock + 1)..clock'
      BY <3>2, <2>2, <1>8
    <3> QED
      BY <3>1, <3>2, <1>10
  <2> QED
    BY <2>2, <2>3, <1>2, <1>3, <1>6, <1>9 DEF Moments
<1>12. EntriesRead'
  <2>1. ASSUME NEW name \in DOMAIN entries
        PROVE  /\ name \in SectionNames
               /\ ReadThen(rowsAt', entries[name], clock')
               /\ VersionThen(rowsAt', name, entries[name])
    <3>1. /\ name \in SectionNames
          /\ ReadThen(rowsAt, entries[name], clock) /\ VersionThen(rowsAt, name, entries[name])
      BY DEF ExportInv, EntriesRead
    <3>2. entries[name].asOf \in 1..clock /\ entries[name].asOf \in 1..clock'
      BY <3>1, <1>3, <1>9 DEF ReadThen
    <3>3. rowsAt'[entries[name].asOf] = rowsAt[entries[name].asOf]
      BY <3>2, <1>7
    <3> QED
      BY <3>1, <3>2, <3>3 DEF ReadThen, VersionThen
  <2> QED
    BY <2>1, <1>2 DEF EntriesRead
<1>13. BuildTells'
  <2>1. /\ building'.now = clock' /\ building'.components = components
        /\ building'.states = << >>
        /\ building' = [now |-> building'.now, components |-> building'.components,
                        states |-> building'.states]
    BY <1>1
  <2>2. DOMAIN building'.states = {}
    BY <2>1
  <2>3. InOrder(building'.states)
    <3>1. {Sections[i] : i \in 1..0} = {} /\ 0 \in 0..4
      OBVIOUS
    <3> QED
      BY <2>2, <3>1 DEF InOrder
  <2>4. StatesTell(rowsAt', building')
    BY <2>2 DEF StatesTell
  <2> QED
    BY <2>1, <2>3, <2>4, <1>9 DEF BuildTells
<1>14. FileTells'
  <2>1. dashboard # NoFile => dashboard.now \in 1..clock'
    BY <1>3, <1>9 DEF ExportInv, FileTells
  <2>2. dashboard # NoFile => StatesTell(rowsAt', dashboard)
    BY <1>3, <1>7, TellsStill DEF ExportInv, FileTells
  <2> QED
    BY <2>1, <2>2, <1>2 DEF ExportInv, FileTells
<1> QED
  BY <1>11, <1>12, <1>13, <1>14 DEF ExportInv

LEMMA PublishSteps ==
  ASSUME ExportInv, Publish PROVE ExportInv'
<1>1. /\ Building /\ ~Unresolved /\ dashboard' = building /\ building' = NoBuild
      /\ UNCHANGED <<sourceRows, clock, rowsAt, entries>>
  BY DEF Publish
<1>2. /\ clock \in 1..clock /\ building.now = clock
      /\ InOrder(building.states) /\ StatesTell(rowsAt, building)
  BY <1>1, UnderWay
<1>3. DOMAIN building.states = SectionNames
  BY <1>1, <1>2, SectionsInOrder DEF Unresolved
<1>4. FileTells'
  BY <1>1, <1>2, <1>3 DEF FileTells
<1>5. EntriesRead'
  BY <1>1 DEF ExportInv, EntriesRead
<1> QED
  BY <1>1, <1>4, <1>5, NotBuilding, MomentsStand DEF ExportInv

LEMMA ReplaceFailsSteps ==
  ASSUME ExportInv, ReplaceFails PROVE ExportInv'
<1>1. building' = NoBuild /\ UNCHANGED <<sourceRows, clock, rowsAt, entries, dashboard>>
  BY DEF ReplaceFails
<1>2. EntriesRead'
  BY <1>1 DEF ExportInv, EntriesRead
<1> QED
  BY <1>1, <1>2, NotBuilding, FileStands, MomentsStand DEF ExportInv

LEMMA RestartSteps ==
  ASSUME ExportInv, Restart PROVE ExportInv'
<1>1. /\ entries' = << >> /\ ~Building
      /\ UNCHANGED <<sourceRows, clock, rowsAt, building, dashboard>>
  BY DEF Restart
<1>2. EntriesRead'
  BY <1>1 DEF EntriesRead
<1>3. BuildTells'
  BY <1>1 DEF BuildTells, Building
<1> QED
  BY <1>1, <1>2, <1>3, FileStands, MomentsStand DEF ExportInv

LEMMA CommitRowsSteps ==
  ASSUME ExportInv, CommitRows PROVE ExportInv'
<1>1. UNCHANGED <<clock, rowsAt, entries, building, dashboard>>
  BY DEF CommitRows
<1>2. sourceRows \in RowCounts /\ rowsAt \in Seq(RowCounts) /\ Len(rowsAt) = clock
  BY DEF ExportInv, Moments
<1>3. sourceRows' \in RowCounts /\ Below(sourceRows, sourceRows')
  <2>1. sourceRows.entries \in Nat /\ sourceRows.terminals \in Nat
    BY <1>2 DEF RowCounts
  <2>2. CASE sourceRows' = [sourceRows EXCEPT !.entries = @ + 1]
    BY <1>2, <2>1, <2>2 DEF RowCounts, Below
  <2>3. CASE sourceRows' = [sourceRows EXCEPT !.terminals = @ + 1]
    BY <1>2, <2>1, <2>3 DEF RowCounts, Below
  <2> QED
    BY <2>2, <2>3 DEF CommitRows
<1>4. \A i \in 1..clock : Below(rowsAt[i], sourceRows')
  <2>1. ASSUME NEW i \in 1..clock PROVE Below(rowsAt[i], sourceRows')
    <3>1. rowsAt[i] \in RowCounts /\ Below(rowsAt[i], sourceRows)
      BY <1>2 DEF ExportInv, Moments
    <3> QED
      BY <3>1, <1>2, <1>3, BelowTransitive
  <2> QED
    BY <2>1
<1>5. Moments'
  BY <1>1, <1>3, <1>4 DEF ExportInv, Moments
<1>6. EntriesRead' /\ BuildTells'
  BY <1>1 DEF ExportInv, EntriesRead, BuildTells, Building
<1> QED
  BY <1>1, <1>5, <1>6, FileStands DEF ExportInv

LEMMA ExportStepsAll ==
  ASSUME ExportInv, [ExportNext]_exportVars PROVE ExportInv'
<1>1. CASE UNCHANGED exportVars
  <2>1. UNCHANGED <<sourceRows, clock, rowsAt, entries, building, dashboard>>
    BY <1>1 DEF exportVars
  <2>2. EntriesRead' /\ BuildTells'
    BY <2>1 DEF ExportInv, EntriesRead, BuildTells, Building
  <2> QED
    BY <2>1, <2>2, FileStands, MomentsStand DEF ExportInv
<1> QED
  BY <1>1, StartBuildSteps, ReuseSteps, RefreshSteps, RefreshFailsSteps, PublishSteps,
     ReplaceFailsSteps, RestartSteps, CommitRowsSteps DEF ExportNext

-----------------------------------------------------------------------------

\* Whatever is committed while an export is built, and whatever of the build fails,
\* nothing in the file is presented as fresher than it is, no value lags longer than
\* its policy allows, the gate stands beside the generation it was computed from, and
\* no required section is missing (ExportCache).
THEOREM Freshness == ExportSpec => []ExportSound
<1>1. ExportInit => ExportInv
  BY ExportStarts
<1>2. ExportInv /\ [ExportNext]_exportVars => ExportInv'
  BY ExportStepsAll
<1>3. ExportInv => ExportSound
  BY ExportInvImplies
<1> QED
  BY <1>1, <1>2, <1>3, PTL DEF ExportSpec

-----------------------------------------------------------------------------
(* The parts of the composition *)

LEMMA SchemaPart == MCInit /\ [][MCNext]_rowsVars => SchemaSpec
<1>1. MCInit => SchemaInit
  BY DEF MCInit
<1>2. [MCNext]_rowsVars => [SchemaNext]_schemaVars
  BY DEF MCNext, rowsVars, schemaVars, OfStore, OfEvidence, OfRetention, OfSchema,
     OfStatus, OfExport
<1> QED
  BY <1>1, <1>2, PTL DEF SchemaSpec

\* Whatever the database a store is opened on and wherever a start breaks off, it is
\* opened at the current version or refused as it was, and nothing in it is taken away
\* by a start that breaks off.
THEOREM SchemaSoundness == MCSpec => SchemaSound
<1>1. SchemaInv => (subject = "schema" => SchemaInv)
  OBVIOUS
<1> QED
  BY <1>1, SchemaPart, Migrations, PTL DEF MCSpec, SchemaSound

LEMMA StatusPart == MCInit /\ [][MCNext]_rowsVars => StatusSpec
<1>1. MCInit => StatusInit
  BY DEF MCInit
<1>2. [MCNext]_rowsVars => [StatusNext]_statusVars
  BY DEF MCNext, rowsVars, statusVars, OfStore, OfEvidence, OfRetention, OfSchema,
     OfStatus, OfExport
<1> QED
  BY <1>1, <1>2, PTL DEF StatusSpec

LEMMA ExportPart == MCInit /\ [][MCNext]_rowsVars => ExportSpec
<1>1. MCInit => ExportInit
  BY DEF MCInit
<1>2. [MCNext]_rowsVars => [ExportNext]_exportVars
  BY DEF MCNext, rowsVars, exportVars, OfStore, OfEvidence, OfRetention, OfSchema,
     OfStatus, OfExport
<1> QED
  BY <1>1, <1>2, PTL DEF ExportSpec

\* What the files say of the runtime and of the rows is true when they say it, over
\* failed publishes, late writes, rows committed during a build, crashes and restarts;
\* and what they show as lost never shrinks.
THEOREM FilesSoundness == MCSpec => FilesSound
<1>1. StatusSound => (subject = "status" => StatusSound)
  OBVIOUS
<1>2. ExportSound => (subject = "export" => ExportSound)
  OBVIOUS
<1> QED
  BY <1>1, <1>2, StatusPart, ExportPart, StatusTruth, Freshness, PTL DEF MCSpec, FilesSound

-----------------------------------------------------------------------------
(* Evidence *)

\* The columns, and what the rows are in them
Columns(d) ==
  d = [events |-> d.events, cursor |-> d.cursor, counts |-> d.counts, obs |-> d.obs,
       snaps |-> d.snaps, graphs |-> d.graphs, markets |-> d.markets,
       identities |-> d.identities, links |-> d.links, funnel |-> d.funnel,
       calls |-> d.calls, plain |-> d.plain]
AsRows(held) == held = [k \in DOMAIN held |-> held[k]]

EventRow == [class : EventVerdicts, accepted : BOOLEAN, dups : Nat]
CountRow == [raw : Nat, unique : Nat, dup : Nat, invalid : Nat]
Places == [provider : Int \cup {Absent}, seq : Int \cup {Absent}]
IsObsRow(r) == r = [class |-> r.class, sourced |-> r.sourced, after |-> r.after]
IsGraph(g) == g = [trigger |-> g.trigger, books |-> g.books, cex |-> g.cex, parts |-> g.parts]
IsFunnelRow(r) == r = [eligible |-> r.eligible, edge |-> r.edge] /\ r.edge \in BOOLEAN

EventRows(d) ==
  /\ AsRows(d.events) /\ DOMAIN d.events \subseteq Events
  /\ \A e \in DOMAIN d.events : d.events[e] \in EventRow
ObsRows(d) == AsRows(d.obs) /\ \A o \in DOMAIN d.obs : IsObsRow(d.obs[o])
SnapRows(d) == AsRows(d.snaps) /\ \A k \in DOMAIN d.snaps : BookOf[d.snaps[k]].key = k
GraphRowsOf(d) ==
  /\ AsRows(d.graphs) /\ DOMAIN d.graphs \subseteq Candidates
  /\ \A c \in DOMAIN d.graphs : IsGraph(d.graphs[c]) /\ d.graphs[c].trigger = CandOf[c].trigger
FunnelRows(d) == AsRows(d.funnel) /\ \A w \in DOMAIN d.funnel : IsFunnelRow(d.funnel[w])
CountRows(d) ==
  /\ IsFiniteSet(DOMAIN d.counts) /\ \A k \in DOMAIN d.counts : d.counts[k] \in CountRow
  /\ d.calls \in Nat

\* Where the cursor stands: no earlier than any row that moved it in sequence, and
\* at the last one in time.
CursorAt(d) ==
  /\ d.plain \in Seq(Events) /\ d.cursor \in Places
  /\ \A i \in DOMAIN d.plain : EventOf[d.plain[i]].seq # Absent =>
       d.cursor.seq # Absent /\ EventOf[d.plain[i]].seq <= d.cursor.seq
  /\ d.plain # <<>> => d.cursor.provider = EventOf[d.plain[Len(d.plain)]].provider

MarketsWhole(d) == \A w \in DOMAIN d.links : MarketWhole(d, w)

\* What holds of the tables at every point of a bundle
RowsHold(d) ==
  /\ Columns(d) /\ EventRows(d) /\ ObsRows(d) /\ SnapRows(d) /\ GraphRowsOf(d) /\ FunnelRows(d)
  /\ CountRows(d) /\ CountsAddUp(d) /\ CursorAt(d) /\ CursorForward(d)
  /\ AsRows(d.links) /\ ObsSourced(d) /\ MarketsWhole(d)

\* The tables n have every row of d.
Stands(d, n) ==
  /\ \A e \in DOMAIN d.events :
       /\ e \in DOMAIN n.events
       /\ n.events[e].class = d.events[e].class /\ n.events[e].accepted = d.events[e].accepted
  /\ \A o \in DOMAIN d.obs : o \in DOMAIN n.obs /\ n.obs[o] = d.obs[o]
  /\ \A k \in DOMAIN d.snaps : k \in DOMAIN n.snaps /\ n.snaps[k] = d.snaps[k]
  /\ \A w \in DOMAIN d.links : w \in DOMAIN n.links /\ n.links[w] = d.links[w]
  /\ DOMAIN d.graphs \subseteq DOMAIN n.graphs

WholeBut(d, C) == \A c \in DOMAIN d.graphs \ C : GraphWhole(d, c)

\* How far a bundle is before each of its parts
Evaluated(d, c, part) ==
  /\ WholeBut(d, {c})
  /\ c \in DOMAIN d.graphs /\ part <= 2 => GraphWhole(d, c)
  /\ part >= 2 => /\ SourcesOf(c) \subseteq DOMAIN d.events
                  /\ KeysOf(c) \subseteq DOMAIN d.snaps /\ CexOf(c) \subseteq DOMAIN d.obs
  /\ part >= 3 => /\ c \in DOMAIN d.graphs /\ CandOf[c].window \in DOMAIN d.links
                  /\ d.graphs[c].books = KeysOf(c) /\ d.graphs[c].cex = CexOf(c)
  /\ part >= 4 => d.graphs[c].parts = Parts
  /\ part = 5 => d.funnel[CandOf[c].window].edge
Discovered(d, m, part) ==
  /\ WholeBut(d, {})
  /\ part >= 2 => m \in d.markets /\ <<m, MarketOf[m].tokens>> \in d.identities
  /\ part >= 3 => MarketOf[m].window \in DOMAIN d.funnel

BundleHolds ==
  /\ tx = [kind |-> tx.kind, of |-> tx.of, part |-> tx.part, db |-> tx.db]
  /\ tx.part \in 1..5 /\ RowsHold(tx.db) /\ Stands(db, tx.db)
  /\ \/ tx.kind = "evaluation" /\ tx.of \in Candidates /\ Evaluated(tx.db, tx.of, tx.part)
     \/ tx.kind = "market" /\ tx.of \in Markets /\ Discovered(tx.db, tx.of, tx.part)

EvidenceHolds ==
  RowsHold(db) /\ WholeBut(db, {}) /\ (tx = NoTx \/ BundleHolds)

-----------------------------------------------------------------------------
LEMMA EventTypes ==
  ASSUME NEW e \in Events
  PROVE  /\ EventOf[e].provider \in Int \cup {Absent} /\ EventOf[e].seq \in Int \cup {Absent}
  BY EvidenceAssumption

LEMMA VerdictType == ASSUME NEW d, NEW e, NEW mode PROVE Verdict(d, e, mode) \in EventVerdicts
  BY DEF Verdict, EventVerdicts

-----------------------------------------------------------------------------
(* An event *)

NewRow(d, e, mode) ==
  IF e \notin DOMAIN d.events
  THEN [class |-> Verdict(d, e, mode), accepted |-> Verdict(d, e, mode) = "ACCEPTED", dups |-> 0]
  ELSE IF mode = "reference" THEN d.events[e]
  ELSE [d.events[e] EXCEPT !.dups = @ + 1]
MovesIt(d, e, mode) == MovesCursor(e \in DOMAIN d.events, Verdict(d, e, mode), mode)
EventKey(d, e, mode) ==
  <<EventOf[e].receipt, IF e \in DOMAIN d.events THEN "DUPLICATE" ELSE Verdict(d, e, mode)>>
EventCount(d, e, mode) ==
  [raw |-> 1, unique |-> One(e \notin DOMAIN d.events), dup |-> One(e \in DOMAIN d.events),
   invalid |-> One(Verdict(d, e, mode) # "ACCEPTED")]

\* Every table after an event
EventTables(d, e, mode) ==
  [events |-> Upsert(d.events, e, NewRow(d, e, mode)),
   cursor |-> IF MovesIt(d, e, mode)
              THEN [provider |-> EventOf[e].provider,
                    seq |-> IF EventOf[e].seq = Absent THEN d.cursor.seq ELSE EventOf[e].seq]
              ELSE d.cursor,
   counts |-> IF Counted(mode)
              THEN CountAt(d.counts, EventKey(d, e, mode), EventCount(d, e, mode)) ELSE d.counts,
   obs |-> d.obs, snaps |-> d.snaps, graphs |-> d.graphs, markets |-> d.markets,
   identities |-> d.identities, links |-> d.links, funnel |-> d.funnel,
   calls |-> d.calls + One(Counted(mode)),
   plain |-> IF MovesIt(d, e, mode) THEN Append(d.plain, e) ELSE d.plain]

LEMMA EventColumns ==
  ASSUME NEW d, Columns(d), NEW e, NEW mode
  PROVE  AfterEvent(d, e, mode) = EventTables(d, e, mode)
<1> DEFINE n == EventTables(d, e, mode)
<1>1. AfterEvent(d, e, mode)
        = [d EXCEPT !.events = n.events, !.counts = n.counts, !.cursor = n.cursor,
                    !.calls = n.calls, !.plain = n.plain]
  BY DEF AfterEvent, NewRow, MovesIt, EventKey, EventCount, EventTables
<1>2. /\ n = [events |-> n.events, cursor |-> n.cursor, counts |-> n.counts, obs |-> n.obs,
              snaps |-> n.snaps, graphs |-> n.graphs, markets |-> n.markets,
              identities |-> n.identities, links |-> n.links, funnel |-> n.funnel,
              calls |-> n.calls, plain |-> n.plain]
      /\ n.obs = d.obs /\ n.snaps = d.snaps /\ n.graphs = d.graphs /\ n.markets = d.markets
      /\ n.identities = d.identities /\ n.links = d.links /\ n.funnel = d.funnel
  BY DEF EventTables
<1> HIDE DEF n
<1> QED
  BY <1>1, <1>2 DEF Columns, n

LEMMA NewRowType ==
  ASSUME NEW d, EventRows(d), NEW e, NEW mode
  PROVE  NewRow(d, e, mode) \in EventRow
<1>1. CASE e \notin DOMAIN d.events
  <2>1. Verdict(d, e, mode) \in EventVerdicts
    BY VerdictType
  <2> QED
    BY <1>1, <2>1 DEF NewRow, EventRow
<1>2. CASE e \in DOMAIN d.events
  <2>1. d.events[e] \in EventRow
    BY <1>2 DEF EventRows
  <2>2. [d.events[e] EXCEPT !.dups = @ + 1] \in EventRow
    BY <2>1 DEF EventRow
  <2> QED
    BY <1>2, <2>1, <2>2 DEF NewRow
<1> QED
  BY <1>1, <1>2

LEMMA NewRowStands ==
  ASSUME NEW d, EventRows(d), NEW e \in DOMAIN d.events, NEW mode
  PROVE  /\ NewRow(d, e, mode).class = d.events[e].class
         /\ NewRow(d, e, mode).accepted = d.events[e].accepted
<1>1. d.events[e] \in EventRow
  BY DEF EventRows
<1> QED
  BY <1>1 DEF NewRow, EventRow

\* One more in a sum, under a key that may be new
LEMMA SumPlus ==
  ASSUME NEW S, IsFiniteSet(S), NEW w, NEW T, T = S \cup {w}, NEW f \in [S -> Int],
         NEW g \in [T -> Int], NEW v \in Int, \A x \in S : x # w => g[x] = f[x],
         w \in S => g[w] = f[w] + v, w \notin S => g[w] = v
  PROVE  SumFunctionOnSet(g, T) = SumFunctionOnSet(f, S) + v
<1>1. CASE w \in S
  <2>1. T = S
    BY <1>1
  <2>2. g[w] = f[w] + v /\ f[w] \in Int
    BY <1>1
  <2>3. \A x \in S : f[x] \in Int /\ g[x] \in Int
    BY <2>1
  <2>4. SumFunctionOnSet(g, S) = SumFunctionOnSet(f, S) - f[w] + g[w]
    BY <1>1, <2>3, SumChanges
  <2>5. SumFunctionOnSet(f, S) \in Int
    BY SumType
  <2>6. SumFunctionOnSet(g, S) = SumFunctionOnSet(f, S) + v
    BY <2>2, <2>4, <2>5
  <2> QED
    BY <2>1, <2>6
<1>2. CASE w \notin S
  <2>1. \A x \in S : f[x] \in Int /\ g[x] = f[x]
    BY <1>2
  <2>2. g[w] = v
    BY <1>2
  <2>3. SumFunctionOnSet(g, S \cup {w}) = g[w] + SumFunctionOnSet(g, S)
    BY <1>2, SumWith
  <2>4. SumFunctionOnSet(g, S) = SumFunctionOnSet(f, S) /\ SumFunctionOnSet(f, S) \in Int
    BY <2>1, SumAgrees, SumType
  <2> QED
    BY <2>2, <2>3, <2>4
<1> QED
  BY <1>1, <1>2

RawOf(counts) == SumFunctionOnSet([k \in DOMAIN counts |-> counts[k].raw], DOMAIN counts)
UniqueOf(counts) == SumFunctionOnSet([k \in DOMAIN counts |-> counts[k].unique], DOMAIN counts)
DupOf(counts) == SumFunctionOnSet([k \in DOMAIN counts |-> counts[k].dup], DOMAIN counts)

LEMMA CountedRow ==
  ASSUME NEW counts, IsFiniteSet(DOMAIN counts), \A k \in DOMAIN counts : counts[k] \in CountRow,
         NEW key, NEW row \in CountRow, NEW n, n = CountAt(counts, key, row)
  PROVE  /\ IsFiniteSet(DOMAIN n) /\ \A k \in DOMAIN n : n[k] \in CountRow
         /\ RawOf(n) = RawOf(counts) + row.raw
         /\ UniqueOf(n) = UniqueOf(counts) + row.unique
         /\ DupOf(n) = DupOf(counts) + row.dup
<1> DEFINE old == IF key \in DOMAIN counts THEN counts[key] ELSE NoCount
<1> PICK S, T : S = DOMAIN counts /\ T = S \cup {key}
  OBVIOUS
<1>1. /\ IsFiniteSet(S) /\ IsFiniteSet(T) /\ S = DOMAIN counts /\ T = DOMAIN n /\ T = S \cup {key}
      /\ key \in T
  BY FS_AddElement DEF CountAt, Upsert
<1>2. \A k \in S : counts[k] \in CountRow
  OBVIOUS
<1>3. /\ \A k \in S : k # key => n[k] = counts[k]
      /\ key \in S => /\ n[key].raw = counts[key].raw + row.raw
                      /\ n[key].unique = counts[key].unique + row.unique
                      /\ n[key].dup = counts[key].dup + row.dup
      /\ key \notin S => n[key].raw = row.raw /\ n[key].unique = row.unique /\ n[key].dup = row.dup
  <2>1. /\ \A k \in S : k # key => n[k] = counts[k]
        /\ n[key] = [raw |-> old.raw + row.raw, unique |-> old.unique + row.unique,
                     dup |-> old.dup + row.dup, invalid |-> old.invalid + row.invalid]
    BY DEF CountAt, Upsert
  <2>2. row.raw \in Nat /\ row.unique \in Nat /\ row.dup \in Nat
    BY DEF CountRow
  <2> QED
    BY <2>1, <2>2 DEF NoCount
<1>4. \A k \in T : n[k] \in CountRow
  <2>1. old \in CountRow
    BY DEF NoCount, CountRow
  <2>2. n[key] = [raw |-> old.raw + row.raw, unique |-> old.unique + row.unique,
                  dup |-> old.dup + row.dup, invalid |-> old.invalid + row.invalid]
    BY DEF CountAt, Upsert
  <2> HIDE DEF old
  <2>3. n[key] \in CountRow
    BY <2>1, <2>2 DEF CountRow
  <2> QED
    BY <1>1, <1>2, <1>3, <2>3
<1>5. RawOf(n) = RawOf(counts) + row.raw
  <2> DEFINE f == [k \in S |-> counts[k].raw]
             g == [k \in T |-> n[k].raw]
  <2>1. f \in [S -> Int] /\ g \in [T -> Int] /\ row.raw \in Int
    BY <1>1, <1>2, <1>4 DEF CountRow
  <2>2. /\ \A x \in S : x # key => g[x] = f[x]
        /\ key \in S => g[key] = f[key] + row.raw
        /\ key \notin S => g[key] = row.raw
    BY <1>1, <1>3
  <2> HIDE DEF f, g
  <2>3. SumFunctionOnSet(g, T) = SumFunctionOnSet(f, S) + row.raw
    BY <1>1, <2>1, <2>2, SumPlus
  <2> QED
    BY <1>1, <2>3 DEF RawOf, f, g
<1>6. UniqueOf(n) = UniqueOf(counts) + row.unique
  <2> DEFINE f == [k \in S |-> counts[k].unique]
             g == [k \in T |-> n[k].unique]
  <2>1. f \in [S -> Int] /\ g \in [T -> Int] /\ row.unique \in Int
    BY <1>1, <1>2, <1>4 DEF CountRow
  <2>2. /\ \A x \in S : x # key => g[x] = f[x]
        /\ key \in S => g[key] = f[key] + row.unique
        /\ key \notin S => g[key] = row.unique
    BY <1>1, <1>3
  <2> HIDE DEF f, g
  <2>3. SumFunctionOnSet(g, T) = SumFunctionOnSet(f, S) + row.unique
    BY <1>1, <2>1, <2>2, SumPlus
  <2> QED
    BY <1>1, <2>3 DEF UniqueOf, f, g
<1>7. DupOf(n) = DupOf(counts) + row.dup
  <2> DEFINE f == [k \in S |-> counts[k].dup]
             g == [k \in T |-> n[k].dup]
  <2>1. f \in [S -> Int] /\ g \in [T -> Int] /\ row.dup \in Int
    BY <1>1, <1>2, <1>4 DEF CountRow
  <2>2. /\ \A x \in S : x # key => g[x] = f[x]
        /\ key \in S => g[key] = f[key] + row.dup
        /\ key \notin S => g[key] = row.dup
    BY <1>1, <1>3
  <2> HIDE DEF f, g
  <2>3. SumFunctionOnSet(g, T) = SumFunctionOnSet(f, S) + row.dup
    BY <1>1, <2>1, <2>2, SumPlus
  <2> QED
    BY <1>1, <2>3 DEF DupOf, f, g
<1> QED
  BY <1>1, <1>4, <1>5, <1>6, <1>7

LEMMA CountsAre ==
  ASSUME NEW d
  PROVE  CountsAddUp(d) <=> /\ RawOf(d.counts) = d.calls
                            /\ UniqueOf(d.counts) + DupOf(d.counts) = d.calls
                            /\ UniqueOf(d.counts) >= Len(d.plain)
  BY DEF CountsAddUp, RawOf, UniqueOf, DupOf

LEMMA CountTypes ==
  ASSUME NEW counts, IsFiniteSet(DOMAIN counts), \A k \in DOMAIN counts : counts[k] \in CountRow
  PROVE  RawOf(counts) \in Int /\ UniqueOf(counts) \in Int /\ DupOf(counts) \in Int
<1>1. \A k \in DOMAIN counts :
        counts[k].raw \in Int /\ counts[k].unique \in Int /\ counts[k].dup \in Int
  BY DEF CountRow
<1>2. RawOf(counts) \in Int
  <2> DEFINE f == [k \in DOMAIN counts |-> counts[k].raw]
  <2>1. \A k \in DOMAIN counts : f[k] \in Int
    BY <1>1
  <2> HIDE DEF f
  <2>2. SumFunctionOnSet(f, DOMAIN counts) \in Int
    BY <2>1, SumType
  <2> QED
    BY <2>2 DEF RawOf, f
<1>3. UniqueOf(counts) \in Int
  <2> DEFINE f == [k \in DOMAIN counts |-> counts[k].unique]
  <2>1. \A k \in DOMAIN counts : f[k] \in Int
    BY <1>1
  <2> HIDE DEF f
  <2>2. SumFunctionOnSet(f, DOMAIN counts) \in Int
    BY <2>1, SumType
  <2> QED
    BY <2>2 DEF UniqueOf, f
<1>4. DupOf(counts) \in Int
  <2> DEFINE f == [k \in DOMAIN counts |-> counts[k].dup]
  <2>1. \A k \in DOMAIN counts : f[k] \in Int
    BY <1>1
  <2> HIDE DEF f
  <2>2. SumFunctionOnSet(f, DOMAIN counts) \in Int
    BY <2>1, SumType
  <2> QED
    BY <2>2 DEF DupOf, f
<1> QED
  BY <1>2, <1>3, <1>4

LEMMA CountsOfEvents ==
  ASSUME NEW d, RowsHold(d), NEW e \in Events, NEW mode
  PROVE  CountRows(EventTables(d, e, mode)) /\ CountsAddUp(EventTables(d, e, mode))
<1> DEFINE n == EventTables(d, e, mode)
           row == EventCount(d, e, mode)
<1>1. Columns(d) /\ CountRows(d) /\ CountsAddUp(d) /\ d.plain \in Seq(Events)
  BY DEF RowsHold, CursorAt
<1>2. /\ n.counts = IF Counted(mode) THEN CountAt(d.counts, EventKey(d, e, mode), row) ELSE d.counts
      /\ n.calls = d.calls + One(Counted(mode))
      /\ n.plain = IF MovesIt(d, e, mode) THEN Append(d.plain, e) ELSE d.plain
  BY DEF EventTables
<1> HIDE DEF n
<1>3. CASE ~Counted(mode)
  <2>1. n.counts = d.counts /\ n.calls = d.calls /\ n.plain = d.plain
    BY <1>1, <1>2, <1>3 DEF One, MovesIt, MovesCursor, CountRows
  <2> QED
    BY <1>1, <2>1 DEF CountRows, CountsAddUp, n
<1>4. CASE Counted(mode)
  <2>1. row \in CountRow /\ row.raw = 1 /\ row.unique + row.dup = 1
    BY DEF EventCount, CountRow, One
  <2>2. n.counts = CountAt(d.counts, EventKey(d, e, mode), row) /\ n.calls = d.calls + 1
    BY <1>2, <1>4 DEF One
  <2>3. MovesIt(d, e, mode) => row.unique = 1
    BY DEF MovesIt, MovesCursor, EventCount, One
  <2>4. Len(n.plain) <= Len(d.plain) + row.unique /\ Len(n.plain) \in Nat /\ Len(d.plain) \in Nat
    <3>1. row.unique \in Nat
      BY <2>1 DEF CountRow
    <3> QED
      BY <1>1, <1>2, <2>3, <3>1
  <2> HIDE DEF row
  <2>5. /\ IsFiniteSet(DOMAIN n.counts) /\ \A k \in DOMAIN n.counts : n.counts[k] \in CountRow
        /\ RawOf(n.counts) = RawOf(d.counts) + row.raw
        /\ UniqueOf(n.counts) = UniqueOf(d.counts) + row.unique
        /\ DupOf(n.counts) = DupOf(d.counts) + row.dup
    BY <1>1, <2>1, <2>2, CountedRow DEF CountRows
  <2>6. /\ RawOf(d.counts) = d.calls /\ UniqueOf(d.counts) + DupOf(d.counts) = d.calls
        /\ UniqueOf(d.counts) >= Len(d.plain)
        /\ RawOf(d.counts) \in Int /\ UniqueOf(d.counts) \in Int /\ DupOf(d.counts) \in Int
    BY <1>1, CountsAre, CountTypes DEF CountRows
  <2>7. row.unique \in Int /\ row.dup \in Int /\ d.calls \in Nat
    BY <1>1, <2>1 DEF CountRow, CountRows
  <2>8. /\ RawOf(n.counts) = n.calls /\ UniqueOf(n.counts) + DupOf(n.counts) = n.calls
        /\ UniqueOf(n.counts) >= Len(n.plain)
    <3>1. /\ RawOf(n.counts) = RawOf(d.counts) + 1
          /\ UniqueOf(n.counts) = UniqueOf(d.counts) + row.unique
          /\ DupOf(n.counts) = DupOf(d.counts) + row.dup
      BY <2>1, <2>5
    <3>2. n.calls = d.calls + 1 /\ row.unique + row.dup = 1
      BY <2>1, <2>2
    <3>3. RawOf(n.counts) = n.calls /\ UniqueOf(n.counts) + DupOf(n.counts) = n.calls
      BY <2>6, <2>7, <3>1, <3>2
    <3>4. UniqueOf(n.counts) >= Len(n.plain)
      <4> DEFINE a == UniqueOf(n.counts)
                 b == UniqueOf(d.counts)
                 x == Len(n.plain)
                 y == Len(d.plain)
                 u == row.unique
      <4>1. a = b + u /\ b >= y /\ x <= y + u
        BY <2>4, <2>6, <3>1
      <4>2. b \in Int /\ u \in Int /\ x \in Nat /\ y \in Nat
        BY <2>4, <2>6, <2>7
      <4> HIDE DEF a, b, x, y, u
      <4>3. a >= x
        BY <4>1, <4>2
      <4> QED
        BY <4>3 DEF a, x
    <3> QED
      BY <3>3, <3>4
  <2>9. CountRows(n)
    BY <2>2, <2>5, <2>7 DEF CountRows
  <2> QED
    BY <2>8, <2>9, CountsAre DEF n
<1> QED
  BY <1>3, <1>4

LEMMA EventCursor ==
  ASSUME NEW d, RowsHold(d), NEW e \in Events, NEW mode
  PROVE  CursorAt(EventTables(d, e, mode)) /\ CursorForward(EventTables(d, e, mode))
<1> DEFINE n == EventTables(d, e, mode)
           x == EventOf[e]
<1>1. CursorAt(d) /\ CursorForward(d)
  BY DEF RowsHold
<1>2. /\ n.cursor = IF MovesIt(d, e, mode)
                    THEN [provider |-> x.provider,
                          seq |-> IF x.seq = Absent THEN d.cursor.seq ELSE x.seq]
                    ELSE d.cursor
      /\ n.plain = IF MovesIt(d, e, mode) THEN Append(d.plain, e) ELSE d.plain
  BY DEF EventTables
<1> HIDE DEF n
<1>3. CASE ~MovesIt(d, e, mode)
  <2>1. n.cursor = d.cursor /\ n.plain = d.plain
    BY <1>2, <1>3
  <2> QED
    BY <1>1, <2>1 DEF CursorAt, CursorForward, n
<1>4. CASE MovesIt(d, e, mode)
  <2>1. /\ n.plain = Append(d.plain, e) /\ n.cursor.provider = x.provider
        /\ n.cursor.seq = (IF x.seq = Absent THEN d.cursor.seq ELSE x.seq)
        /\ n.cursor = [provider |-> n.cursor.provider, seq |-> n.cursor.seq]
    BY <1>2, <1>4
  <2>2. /\ d.plain \in Seq(Events) /\ d.cursor.provider \in Int \cup {Absent}
        /\ d.cursor.seq \in Int \cup {Absent}
        /\ x.provider \in Int \cup {Absent} /\ x.seq \in Int \cup {Absent}
    BY <1>1, EventTypes DEF CursorAt, Places
  <2>3. Verdict(d, e, mode) = "ACCEPTED" /\ Counted(mode)
    BY <1>4 DEF MovesIt, MovesCursor
  <2>4. /\ x.provider # Absent /\ d.cursor.provider # Absent => ~(x.provider < d.cursor.provider)
        /\ x.seq # Absent /\ d.cursor.seq # Absent => ~(x.seq < d.cursor.seq)
    BY <2>3 DEF Verdict
  <2>5. /\ x.provider # Absent /\ d.cursor.provider # Absent => d.cursor.provider <= x.provider
        /\ x.seq # Absent /\ d.cursor.seq # Absent => d.cursor.seq <= x.seq
    BY <2>2, <2>4
  <2> DEFINE L == Len(d.plain)
  <2>6. /\ L \in Nat /\ DOMAIN d.plain = 1..L /\ DOMAIN n.plain = 1..(L + 1)
        /\ n.plain[L + 1] = e /\ \A i \in 1..L : n.plain[i] = d.plain[i] /\ d.plain[i] \in Events
        /\ n.plain \in Seq(Events) /\ Len(n.plain) = L + 1
    BY <2>1, <2>2
  <2>7. \A i \in 1..L : EventOf[d.plain[i]].seq \in Int \cup {Absent}
    BY <2>6, EventTypes
  <2>8. \A i \in 1..L : EventOf[d.plain[i]].seq # Absent =>
          /\ d.cursor.seq # Absent /\ EventOf[d.plain[i]].seq <= d.cursor.seq
          /\ n.cursor.seq # Absent /\ EventOf[d.plain[i]].seq <= n.cursor.seq
          /\ x.seq # Absent => EventOf[d.plain[i]].seq <= x.seq
    <3> SUFFICES ASSUME NEW i \in 1..L, EventOf[d.plain[i]].seq # Absent
                 PROVE  /\ d.cursor.seq # Absent /\ EventOf[d.plain[i]].seq <= d.cursor.seq
                        /\ n.cursor.seq # Absent /\ EventOf[d.plain[i]].seq <= n.cursor.seq
                        /\ x.seq # Absent => EventOf[d.plain[i]].seq <= x.seq
      OBVIOUS
    <3>1. d.cursor.seq # Absent /\ EventOf[d.plain[i]].seq <= d.cursor.seq
      BY <1>1, <2>6 DEF CursorAt
    <3>2. EventOf[d.plain[i]].seq \in Int
      BY <2>7
    <3>3. x.seq # Absent => EventOf[d.plain[i]].seq <= x.seq
      BY <2>2, <2>5, <3>1, <3>2
    <3> QED
      BY <2>1, <3>1, <3>3
  <2>9. CursorAt(n)
    <3>1. n.cursor \in Places
      BY <2>1, <2>2 DEF Places
    <3>2. \A i \in DOMAIN n.plain : EventOf[n.plain[i]].seq # Absent =>
            n.cursor.seq # Absent /\ EventOf[n.plain[i]].seq <= n.cursor.seq
      <4> SUFFICES ASSUME NEW i \in 1..(L + 1), EventOf[n.plain[i]].seq # Absent
                   PROVE  n.cursor.seq # Absent /\ EventOf[n.plain[i]].seq <= n.cursor.seq
        BY <2>6
      <4>1. CASE i = L + 1
        <5>1. n.cursor.seq = x.seq /\ x.seq \in Int
          BY <2>1, <2>2, <2>6, <4>1
        <5> QED
          BY <2>6, <4>1, <5>1
      <4>2. CASE i # L + 1
        <5>1. i \in 1..L
          BY <2>6, <4>2
        <5> QED
          BY <2>6, <2>8, <5>1
      <4> QED
        BY <4>1, <4>2
    <3>3. n.cursor.provider = EventOf[n.plain[Len(n.plain)]].provider
      BY <2>1, <2>6
    <3> QED
      BY <2>6, <3>1, <3>2, <3>3 DEF CursorAt
  <2>10. CursorForward(n)
    <3> SUFFICES ASSUME NEW i \in 1..(L + 1), NEW j \in 1..(L + 1), i < j
                 PROVE  LET p == EventOf[n.plain[i]] q == EventOf[n.plain[j]]
                        IN /\ p.seq # Absent /\ q.seq # Absent => p.seq <= q.seq
                           /\ j = i + 1 /\ p.provider # Absent /\ q.provider # Absent
                                => p.provider <= q.provider
      BY <2>6 DEF CursorForward
    <3>1. i \in 1..L /\ n.plain[i] = d.plain[i]
      BY <2>6
    <3>2. CASE j = L + 1
      <4>1. n.plain[j] = e
        BY <2>6, <3>2
      <4>2. EventOf[d.plain[i]].seq # Absent /\ x.seq # Absent => EventOf[d.plain[i]].seq <= x.seq
        BY <2>8, <3>1
      <4>3. j = i + 1 => d.cursor.provider = EventOf[d.plain[i]].provider
        <5>1. j = i + 1 => i = L /\ d.plain # <<>>
          BY <2>2, <2>6, <3>1, <3>2
        <5> QED
          BY <1>1, <5>1 DEF CursorAt
      <4> QED
        BY <2>5, <3>1, <4>1, <4>2, <4>3
    <3>3. CASE j # L + 1
      <4>1. j \in 1..L /\ n.plain[j] = d.plain[j]
        BY <2>6, <3>3
      <4> QED
        BY <1>1, <2>6, <3>1, <4>1 DEF CursorForward
    <3> QED
      BY <3>2, <3>3
  <2> QED
    BY <2>9, <2>10 DEF n
<1> QED
  BY <1>3, <1>4

LEMMA EventHolds ==
  ASSUME NEW d, RowsHold(d), NEW e \in Events, NEW mode, NEW n, n = AfterEvent(d, e, mode)
  PROVE  /\ RowsHold(n) /\ Stands(d, n) /\ n.graphs = d.graphs /\ n.funnel = d.funnel
         /\ n.events = Upsert(d.events, e, NewRow(d, e, mode))
<1>1. Columns(d) /\ EventRows(d)
  BY DEF RowsHold
<1>2. n = EventTables(d, e, mode)
  BY <1>1, EventColumns
<1>3. /\ Columns(n) /\ n.events = Upsert(d.events, e, NewRow(d, e, mode))
      /\ n.obs = d.obs /\ n.snaps = d.snaps /\ n.graphs = d.graphs /\ n.markets = d.markets
      /\ n.identities = d.identities /\ n.links = d.links /\ n.funnel = d.funnel
  BY <1>2 DEF EventTables, Columns
<1>4. CountRows(n) /\ CountsAddUp(n) /\ CursorAt(n) /\ CursorForward(n)
  BY <1>2, CountsOfEvents, EventCursor
<1>5. EventRows(n)
  <2>1. NewRow(d, e, mode) \in EventRow
    BY <1>1, NewRowType
  <2> QED
    BY <1>1, <1>3, <2>1 DEF EventRows, AsRows, Upsert
<1>6. \A q \in DOMAIN d.events :
        /\ q \in DOMAIN n.events
        /\ n.events[q].class = d.events[q].class /\ n.events[q].accepted = d.events[q].accepted
  <2>1. \A q \in DOMAIN d.events : q # e => q \in DOMAIN n.events /\ n.events[q] = d.events[q]
    BY <1>3 DEF Upsert
  <2>2. e \in DOMAIN n.events /\ n.events[e] = NewRow(d, e, mode)
    BY <1>3 DEF Upsert
  <2> QED
    BY <1>1, <2>1, <2>2, NewRowStands
<1>7. Stands(d, n)
  BY <1>3, <1>6 DEF Stands
<1>8. ObsSourced(n)
  BY <1>3, <1>6 DEF RowsHold, ObsSourced
<1>9. ObsRows(n) /\ SnapRows(n) /\ GraphRowsOf(n) /\ FunnelRows(n) /\ AsRows(n.links) /\ MarketsWhole(n)
  BY <1>3 DEF RowsHold, ObsRows, SnapRows, GraphRowsOf, FunnelRows, MarketsWhole, MarketWhole
<1> QED
  BY <1>3, <1>4, <1>5, <1>7, <1>8, <1>9 DEF RowsHold

-----------------------------------------------------------------------------
(* The other rows *)

LEMMA SameRowCounts ==
  ASSUME NEW d, RowsHold(d), NEW n, n.counts = d.counts, n.calls = d.calls,
         n.plain = d.plain, n.cursor = d.cursor
  PROVE  CountRows(n) /\ CountsAddUp(n) /\ CursorAt(n) /\ CursorForward(n)
  BY DEF RowsHold, CountRows, CountsAddUp, CursorAt, CursorForward

LEMMA WholeStands ==
  ASSUME NEW d, NEW n, Stands(d, n), NEW c, GraphWhole(d, c), n.graphs[c] = d.graphs[c],
         d.funnel[CandOf[c].window].edge => n.funnel[CandOf[c].window].edge
  PROVE  GraphWhole(n, c)
  BY DEF GraphWhole, Stands

LEMMA StandsTransitive ==
  ASSUME NEW d, NEW m, NEW n, Stands(d, m), Stands(m, n)
  PROVE  Stands(d, n)
  BY DEF Stands

LEMMA ObsHolds ==
  ASSUME NEW d, RowsHold(d), NEW o, NEW n, n = AfterObs(d, o, FALSE)
  PROVE  RowsHold(n) /\ Stands(d, n) /\ n.graphs = d.graphs /\ n.funnel = d.funnel
<1> DEFINE row == ObsRow(d, o, FALSE, {})
           more == [q \in {o} |-> ObsRow(d, q, FALSE, {})]
<1>0. Columns(d)
  BY DEF RowsHold
<1>1. /\ Columns(n) /\ n.obs = InsertNew(d.obs, more)
      /\ n.events = d.events /\ n.snaps = d.snaps /\ n.graphs = d.graphs /\ n.markets = d.markets
      /\ n.identities = d.identities /\ n.links = d.links /\ n.funnel = d.funnel
      /\ n.counts = d.counts /\ n.calls = d.calls /\ n.plain = d.plain /\ n.cursor = d.cursor
  <2>1. n = [d EXCEPT !.obs = InsertNew(d.obs, more)]
    BY DEF AfterObs
  <2> HIDE DEF more
  <2> QED
    BY <1>0, <2>1 DEF Columns
<1>2. IsObsRow(row) /\ row.sourced = FALSE
  BY DEF ObsRow, IsObsRow
<1>3. /\ AsRows(n.obs) /\ \A q \in DOMAIN d.obs : q \in DOMAIN n.obs /\ n.obs[q] = d.obs[q]
      /\ \A q \in DOMAIN n.obs : q \in DOMAIN d.obs \/ n.obs[q] = row
  <2>1. DOMAIN more = {o} /\ more[o] = row
    OBVIOUS
  <2> HIDE DEF more, row
  <2>2. n.obs = [k \in DOMAIN d.obs \cup DOMAIN more |->
                   IF k \in DOMAIN d.obs THEN d.obs[k] ELSE more[k]]
    BY <1>1 DEF InsertNew
  <2>3. AsRows(n.obs)
    BY <2>2 DEF AsRows
  <2> QED
    BY <2>1, <2>2, <2>3
<1> HIDE DEF row, more
<1>4. ObsRows(n) /\ ObsSourced(n)
  <2>1. \A q \in DOMAIN n.obs : IsObsRow(n.obs[q])
    BY <1>2, <1>3 DEF RowsHold, ObsRows
  <2>2. \A q \in DOMAIN n.obs : n.obs[q].sourced => ObsOf[q].event \in DOMAIN n.events
    BY <1>1, <1>2, <1>3 DEF RowsHold, ObsSourced
  <2> QED
    BY <1>3, <2>1, <2>2 DEF ObsRows, ObsSourced
<1>5. Stands(d, n)
  BY <1>1, <1>3 DEF Stands
<1>6. CountRows(n) /\ CountsAddUp(n) /\ CursorAt(n) /\ CursorForward(n)
  BY <1>1, SameRowCounts
<1>7. /\ EventRows(n) /\ SnapRows(n) /\ GraphRowsOf(n) /\ FunnelRows(n) /\ AsRows(n.links)
      /\ MarketsWhole(n)
  BY <1>1 DEF RowsHold, EventRows, SnapRows, GraphRowsOf, FunnelRows, MarketsWhole, MarketWhole
<1> QED
  BY <1>1, <1>4, <1>5, <1>6, <1>7 DEF RowsHold

LEMMA BookHolds ==
  ASSUME NEW d, RowsHold(d), NEW b, NEW n, n = AfterBook(d, b)
  PROVE  RowsHold(n) /\ Stands(d, n) /\ n.graphs = d.graphs /\ n.funnel = d.funnel
<1> DEFINE more == [k \in {BookOf[b].key} |-> b]
<1>0. Columns(d)
  BY DEF RowsHold
<1>1. /\ Columns(n) /\ n.snaps = InsertNew(d.snaps, more)
      /\ n.events = d.events /\ n.obs = d.obs /\ n.graphs = d.graphs /\ n.markets = d.markets
      /\ n.identities = d.identities /\ n.links = d.links /\ n.funnel = d.funnel
      /\ n.counts = d.counts /\ n.calls = d.calls /\ n.plain = d.plain /\ n.cursor = d.cursor
  <2>1. n = [d EXCEPT !.snaps = InsertNew(d.snaps, more)]
    BY DEF AfterBook
  <2> HIDE DEF more
  <2> QED
    BY <1>0, <2>1 DEF Columns
<1>2. /\ AsRows(n.snaps) /\ \A k \in DOMAIN d.snaps : k \in DOMAIN n.snaps /\ n.snaps[k] = d.snaps[k]
      /\ \A k \in DOMAIN n.snaps : k \in DOMAIN d.snaps \/ BookOf[n.snaps[k]].key = k
  BY <1>1 DEF InsertNew, AsRows
<1> HIDE DEF more
<1>3. SnapRows(n)
  BY <1>2 DEF RowsHold, SnapRows
<1>4. Stands(d, n)
  BY <1>1, <1>2 DEF Stands
<1>5. CountRows(n) /\ CountsAddUp(n) /\ CursorAt(n) /\ CursorForward(n)
  BY <1>1, SameRowCounts
<1>6. /\ EventRows(n) /\ ObsRows(n) /\ ObsSourced(n) /\ GraphRowsOf(n) /\ FunnelRows(n)
      /\ AsRows(n.links) /\ MarketsWhole(n)
  BY <1>1 DEF RowsHold, EventRows, ObsRows, ObsSourced, GraphRowsOf, FunnelRows, MarketsWhole,
              MarketWhole
<1> QED
  BY <1>1, <1>3, <1>4, <1>5, <1>6 DEF RowsHold

-----------------------------------------------------------------------------
(* The parts of an evaluation *)

LEMMA CandTypes ==
  ASSUME NEW c \in Candidates PROVE SourcesOf(c) \subseteq Events
<1>1. /\ CandOf[c].trigger \in Events \cup {Absent} /\ Range(CandOf[c].cex) \subseteq Observations
      /\ \A o \in Observations : ObsOf[o].event \in Events
  BY EvidenceAssumption
<1> QED
  BY <1>1 DEF SourcesOf, CexOf

\* Every table after the evidence of a candidate
EventsAfter(d, c, n) ==
  /\ AsRows(n.events)
  /\ \A e : e \in DOMAIN n.events <=> e \in DOMAIN d.events \/ e \in SourcesOf(c)
  /\ \A e \in DOMAIN n.events :
       n.events[e] = IF e \in DOMAIN d.events THEN d.events[e] ELSE NewRow(d, e, "reference")
SnapsAfter(d, c, n) ==
  /\ AsRows(n.snaps)
  /\ \A k : k \in DOMAIN n.snaps <=> k \in DOMAIN d.snaps \/ k \in KeysOf(c)
  /\ \A k \in DOMAIN n.snaps :
       IF k \in DOMAIN d.snaps THEN n.snaps[k] = d.snaps[k] ELSE BookOf[n.snaps[k]].key = k
ObsAfter(d, c, n) ==
  /\ AsRows(n.obs)
  /\ \A o : o \in DOMAIN n.obs <=> o \in DOMAIN d.obs \/ o \in CexOf(c)
  /\ \A o \in DOMAIN n.obs :
       n.obs[o] = IF o \in DOMAIN d.obs THEN d.obs[o] ELSE ObsRow(d, o, TRUE, Ahead(c, o))

LEMMA EvidenceTables ==
  ASSUME NEW d, Columns(d), NEW c, NEW n, n = AfterEvidence(d, c)
  PROVE  /\ Columns(n) /\ n.graphs = d.graphs /\ n.markets = d.markets
         /\ n.identities = d.identities /\ n.links = d.links /\ n.funnel = d.funnel
         /\ n.counts = d.counts /\ n.calls = d.calls /\ n.plain = d.plain /\ n.cursor = d.cursor
         /\ EventsAfter(d, c, n) /\ SnapsAfter(d, c, n) /\ ObsAfter(d, c, n)
<1> DEFINE es == [e \in SourcesOf(c) |-> AfterEvent(d, e, "reference").events[e]]
           ks == [k \in KeysOf(c) |-> CHOOSE b \in CandOf[c].books : BookOf[b].key = k]
           os == [o \in CexOf(c) |-> ObsRow(d, o, TRUE, Ahead(c, o))]
<1>1. n = [d EXCEPT !.events = InsertNew(d.events, es), !.snaps = InsertNew(d.snaps, ks),
                    !.obs = InsertNew(d.obs, os)]
  BY DEF AfterEvidence
<1>2. \A e \in SourcesOf(c) : es[e] = NewRow(d, e, "reference")
  <2> SUFFICES ASSUME NEW e \in SourcesOf(c)
               PROVE  AfterEvent(d, e, "reference").events[e] = NewRow(d, e, "reference")
    OBVIOUS
  <2>1. AfterEvent(d, e, "reference") = EventTables(d, e, "reference")
    BY EventColumns
  <2> QED
    BY <2>1 DEF EventTables, Upsert
<1>3. \A k \in KeysOf(c) : BookOf[ks[k]].key = k
  BY DEF KeysOf
<1>4. DOMAIN es = SourcesOf(c) /\ DOMAIN ks = KeysOf(c) /\ DOMAIN os = CexOf(c)
      /\ \A o \in CexOf(c) : os[o] = ObsRow(d, o, TRUE, Ahead(c, o))
  OBVIOUS
<1> HIDE DEF es, ks, os
<1>5. /\ Columns(n) /\ n.graphs = d.graphs /\ n.markets = d.markets
      /\ n.identities = d.identities /\ n.links = d.links /\ n.funnel = d.funnel
      /\ n.counts = d.counts /\ n.calls = d.calls /\ n.plain = d.plain /\ n.cursor = d.cursor
      /\ n.events = InsertNew(d.events, es) /\ n.snaps = InsertNew(d.snaps, ks)
      /\ n.obs = InsertNew(d.obs, os)
  BY <1>1 DEF Columns
<1>6. EventsAfter(d, c, n)
  BY <1>2, <1>4, <1>5 DEF InsertNew, AsRows, EventsAfter
<1>7. SnapsAfter(d, c, n)
  BY <1>3, <1>4, <1>5 DEF InsertNew, AsRows, SnapsAfter
<1>8. ObsAfter(d, c, n)
  BY <1>4, <1>5 DEF InsertNew, AsRows, ObsAfter
<1> QED
  BY <1>5, <1>6, <1>7, <1>8

LEMMA EvidencePart ==
  ASSUME NEW d, RowsHold(d), NEW c \in Candidates, NEW n, n = AfterEvidence(d, c)
  PROVE  RowsHold(n) /\ Stands(d, n)
<1>0. Columns(d)
  BY DEF RowsHold
<1>1. /\ Columns(n) /\ n.graphs = d.graphs /\ n.markets = d.markets
      /\ n.identities = d.identities /\ n.links = d.links /\ n.funnel = d.funnel
      /\ n.counts = d.counts /\ n.calls = d.calls /\ n.plain = d.plain /\ n.cursor = d.cursor
      /\ EventsAfter(d, c, n) /\ SnapsAfter(d, c, n) /\ ObsAfter(d, c, n)
  BY <1>0, EvidenceTables
<1>5. EventRows(n)
  <2>1. EventRows(d) /\ SourcesOf(c) \subseteq Events
    BY CandTypes DEF RowsHold
  <2>2. \A e \in DOMAIN n.events : n.events[e] \in EventRow
    <3> SUFFICES ASSUME NEW e \in DOMAIN n.events PROVE n.events[e] \in EventRow
      OBVIOUS
    <3>1. NewRow(d, e, "reference") \in EventRow
      BY <2>1, NewRowType
    <3> QED
      BY <1>1, <2>1, <3>1 DEF EventRows, EventsAfter
  <2> QED
    BY <1>1, <2>1, <2>2 DEF EventRows, EventsAfter
<1>6. SnapRows(n)
  BY <1>1 DEF RowsHold, SnapRows, SnapsAfter
<1>7. ObsRows(n)
  <2>1. \A o : IsObsRow(ObsRow(d, o, TRUE, Ahead(c, o)))
    BY DEF IsObsRow, ObsRow
  <2> QED
    BY <1>1, <2>1 DEF RowsHold, ObsRows, ObsAfter
<1>8. ObsSourced(n)
  <2>1. \A o \in CexOf(c) : ObsOf[o].event \in SourcesOf(c)
    BY DEF SourcesOf
  <2>2. \A o : ObsRow(d, o, TRUE, Ahead(c, o)).sourced = TRUE
    BY DEF ObsRow
  <2> QED
    BY <1>1, <2>1, <2>2 DEF RowsHold, ObsSourced, ObsAfter, EventsAfter
<1>9. Stands(d, n)
  BY <1>1 DEF Stands, EventsAfter, SnapsAfter, ObsAfter
<1>10. CountRows(n) /\ CountsAddUp(n) /\ CursorAt(n) /\ CursorForward(n)
  BY <1>1, SameRowCounts
<1>11. GraphRowsOf(n) /\ FunnelRows(n) /\ AsRows(n.links) /\ MarketsWhole(n)
  BY <1>1 DEF RowsHold, GraphRowsOf, FunnelRows, MarketsWhole, MarketWhole
<1> QED
  BY <1>1, <1>5, <1>6, <1>7, <1>8, <1>9, <1>10, <1>11 DEF RowsHold

\* Nothing but the graphs and the windows of the tables n differs from d.
SameRows(d, n) ==
  /\ Columns(n) /\ n.events = d.events /\ n.obs = d.obs /\ n.snaps = d.snaps
  /\ n.counts = d.counts /\ n.calls = d.calls /\ n.plain = d.plain /\ n.cursor = d.cursor

LEMMA SameHold ==
  ASSUME NEW d, RowsHold(d), NEW n, SameRows(d, n), GraphRowsOf(n), FunnelRows(n),
         AsRows(n.links), MarketsWhole(n), DOMAIN d.graphs \subseteq DOMAIN n.graphs,
         \A w \in DOMAIN d.links : w \in DOMAIN n.links /\ n.links[w] = d.links[w]
  PROVE  RowsHold(n) /\ Stands(d, n)
<1>1. CountRows(n) /\ CountsAddUp(n) /\ CursorAt(n) /\ CursorForward(n)
  BY SameRowCounts DEF SameRows
<1>2. EventRows(n) /\ ObsRows(n) /\ SnapRows(n) /\ ObsSourced(n)
  BY DEF SameRows, RowsHold, EventRows, ObsRows, SnapRows, ObsSourced
<1>3. Stands(d, n)
  BY DEF SameRows, Stands
<1> QED
  BY <1>1, <1>2, <1>3 DEF RowsHold, SameRows

LEMMA CandidatePart ==
  ASSUME NEW d, RowsHold(d), NEW c \in Candidates, Evaluated(d, c, 2),
         CandOf[c].window \in DOMAIN d.links, NEW n, n = AfterCandidate(d, c)
  PROVE  RowsHold(n) /\ Stands(d, n) /\ Evaluated(n, c, 3)
<1> DEFINE g == [GraphOf(d, c) EXCEPT !.books = @ \cup KeysOf(c), !.cex = @ \cup CexOf(c)]
<1>0. Columns(d) /\ GraphRowsOf(d)
  BY DEF RowsHold
<1>1. /\ SameRows(d, n) /\ n.graphs = Upsert(d.graphs, c, g) /\ n.markets = d.markets
      /\ n.identities = d.identities /\ n.links = d.links /\ n.funnel = d.funnel
  <2>1. n = [d EXCEPT !.graphs = Upsert(d.graphs, c, g)]
    BY DEF AfterCandidate
  <2> HIDE DEF g
  <2> QED
    BY <1>0, <2>1 DEF SameRows, Columns
<1>2. IsGraph(g) /\ g.trigger = CandOf[c].trigger /\ g.books = KeysOf(c) /\ g.cex = CexOf(c)
  <2>1. CASE c \in DOMAIN d.graphs
    <3>1. IsGraph(d.graphs[c]) /\ d.graphs[c].trigger = CandOf[c].trigger
      BY <1>0, <2>1 DEF GraphRowsOf
    <3>2. d.graphs[c].books = KeysOf(c) /\ d.graphs[c].cex = CexOf(c)
      BY <2>1 DEF Evaluated, GraphWhole
    <3>3. g = [d.graphs[c] EXCEPT !.books = KeysOf(c), !.cex = CexOf(c)]
      BY <2>1, <3>2 DEF GraphOf
    <3> HIDE DEF g
    <3> QED
      BY <3>1, <3>3 DEF IsGraph
  <2>2. CASE c \notin DOMAIN d.graphs
    <3> DEFINE h == GraphOf(d, c)
    <3>1. /\ IsGraph(h) /\ h.trigger = CandOf[c].trigger /\ h.books = {} /\ h.cex = {}
      BY <2>2 DEF GraphOf, IsGraph
    <3>2. g = [h EXCEPT !.books = h.books \cup KeysOf(c), !.cex = h.cex \cup CexOf(c)]
      OBVIOUS
    <3> HIDE DEF g, h
    <3>3. /\ IsGraph(g) /\ g.trigger = h.trigger /\ g.books = h.books \cup KeysOf(c)
          /\ g.cex = h.cex \cup CexOf(c)
      BY <3>1, <3>2 DEF IsGraph
    <3> QED
      BY <3>1, <3>3
  <2> QED
    BY <2>1, <2>2
<1> HIDE DEF g
<1>3. /\ AsRows(n.graphs) /\ DOMAIN n.graphs = DOMAIN d.graphs \cup {c} /\ n.graphs[c] = g
      /\ \A q \in DOMAIN d.graphs : q # c => n.graphs[q] = d.graphs[q]
  BY <1>1 DEF Upsert, AsRows
<1>4. GraphRowsOf(n)
  BY <1>0, <1>2, <1>3 DEF GraphRowsOf
<1>5. FunnelRows(n) /\ AsRows(n.links) /\ MarketsWhole(n)
  BY <1>1 DEF RowsHold, FunnelRows, MarketsWhole, MarketWhole
<1>6. RowsHold(n) /\ Stands(d, n)
  BY <1>1, <1>3, <1>4, <1>5, SameHold
<1>7. WholeBut(n, {c})
  <2> SUFFICES ASSUME NEW q \in DOMAIN n.graphs \ {c} PROVE GraphWhole(n, q)
    BY DEF WholeBut
  <2>1. q \in DOMAIN d.graphs /\ n.graphs[q] = d.graphs[q] /\ GraphWhole(d, q)
    BY <1>3 DEF Evaluated, WholeBut
  <2> QED
    BY <1>1, <1>6, <2>1, WholeStands
<1>8. /\ SourcesOf(c) \subseteq DOMAIN n.events /\ KeysOf(c) \subseteq DOMAIN n.snaps
      /\ CexOf(c) \subseteq DOMAIN n.obs
  BY <1>1 DEF SameRows, Evaluated
<1> QED
  BY <1>1, <1>2, <1>3, <1>6, <1>7, <1>8 DEF Evaluated

LEMMA ComputedPart ==
  ASSUME NEW d, RowsHold(d), NEW c \in Candidates, Evaluated(d, c, 3), NEW n, n = AfterComputed(d, c)
  PROVE  RowsHold(n) /\ Stands(d, n) /\ Evaluated(n, c, 4)
<1> DEFINE g == [d.graphs[c] EXCEPT !.parts = Parts]
<1>0. Columns(d) /\ GraphRowsOf(d) /\ c \in DOMAIN d.graphs
  BY DEF RowsHold, Evaluated
<1>1. /\ SameRows(d, n) /\ n.graphs = [d.graphs EXCEPT ![c] = g] /\ n.markets = d.markets
      /\ n.identities = d.identities /\ n.links = d.links /\ n.funnel = d.funnel
  <2>1. n = [d EXCEPT !.graphs = [d.graphs EXCEPT ![c] = g]]
    BY DEF AfterComputed
  <2> HIDE DEF g
  <2> QED
    BY <1>0, <2>1 DEF SameRows, Columns
<1>2. /\ IsGraph(g) /\ g.trigger = CandOf[c].trigger /\ g.books = KeysOf(c) /\ g.cex = CexOf(c)
      /\ g.parts = Parts
  <2>1. IsGraph(d.graphs[c]) /\ d.graphs[c].trigger = CandOf[c].trigger
    BY <1>0 DEF GraphRowsOf
  <2>2. d.graphs[c].books = KeysOf(c) /\ d.graphs[c].cex = CexOf(c)
    BY DEF Evaluated
  <2> QED
    BY <2>1, <2>2 DEF IsGraph
<1> HIDE DEF g
<1>3. /\ AsRows(n.graphs) /\ DOMAIN n.graphs = DOMAIN d.graphs /\ n.graphs[c] = g
      /\ \A q \in DOMAIN d.graphs : q # c => n.graphs[q] = d.graphs[q]
  BY <1>0, <1>1 DEF AsRows, GraphRowsOf
<1>4. GraphRowsOf(n)
  BY <1>0, <1>2, <1>3 DEF GraphRowsOf
<1>5. FunnelRows(n) /\ AsRows(n.links) /\ MarketsWhole(n)
  BY <1>1 DEF RowsHold, FunnelRows, MarketsWhole, MarketWhole
<1>6. RowsHold(n) /\ Stands(d, n)
  BY <1>1, <1>3, <1>4, <1>5, SameHold
<1>7. WholeBut(n, {c})
  <2> SUFFICES ASSUME NEW q \in DOMAIN n.graphs \ {c} PROVE GraphWhole(n, q)
    BY DEF WholeBut
  <2>1. q \in DOMAIN d.graphs /\ n.graphs[q] = d.graphs[q] /\ GraphWhole(d, q)
    BY <1>3 DEF Evaluated, WholeBut
  <2> QED
    BY <1>1, <1>6, <2>1, WholeStands
<1>8. /\ SourcesOf(c) \subseteq DOMAIN n.events /\ KeysOf(c) \subseteq DOMAIN n.snaps
      /\ CexOf(c) \subseteq DOMAIN n.obs /\ CandOf[c].window \in DOMAIN n.links
  BY <1>1 DEF SameRows, Evaluated
<1> QED
  BY <1>0, <1>2, <1>3, <1>6, <1>7, <1>8 DEF Evaluated

\* The windows of n are those of d and more, and none loses its edge.
LEMMA WindowsHold ==
  ASSUME NEW d, RowsHold(d), NEW n, SameRows(d, n), n.graphs = d.graphs, n.markets = d.markets,
         n.identities = d.identities, n.links = d.links, FunnelRows(n),
         \A w \in DOMAIN d.funnel : w \in DOMAIN n.funnel /\ (d.funnel[w].edge => n.funnel[w].edge)
  PROVE  /\ RowsHold(n) /\ Stands(d, n)
         /\ \A c \in DOMAIN d.graphs : GraphWhole(d, c) => GraphWhole(n, c)
<1>1. GraphRowsOf(n) /\ AsRows(n.links) /\ MarketsWhole(n)
  BY DEF RowsHold, GraphRowsOf, MarketsWhole, MarketWhole
<1>2. RowsHold(n) /\ Stands(d, n)
  BY <1>1, SameHold
<1>3. ASSUME NEW c \in DOMAIN d.graphs, GraphWhole(d, c) PROVE GraphWhole(n, c)
  <2>1. CandOf[c].window \in DOMAIN d.funnel
    BY <1>3 DEF RowsHold, GraphWhole, MarketsWhole, MarketWhole
  <2> QED
    BY <1>2, <1>3, <2>1, WholeStands
<1> QED
  BY <1>2, <1>3

LEMMA FunnelPart ==
  ASSUME NEW d, RowsHold(d), NEW c \in Candidates, Evaluated(d, c, 4), NEW n, n = AfterFunnel(d, c)
  PROVE  RowsHold(n) /\ Stands(d, n) /\ Evaluated(n, c, 5)
<1> DEFINE w == CandOf[c].window
           r == [d.funnel[w] EXCEPT !.edge = TRUE]
<1>0. Columns(d) /\ FunnelRows(d) /\ w \in DOMAIN d.funnel
  BY DEF RowsHold, Evaluated, MarketsWhole, MarketWhole
<1>1. /\ SameRows(d, n) /\ n.graphs = d.graphs /\ n.markets = d.markets
      /\ n.identities = d.identities /\ n.links = d.links
      /\ n.funnel = [d.funnel EXCEPT ![w] = r]
  <2>1. n = [d EXCEPT !.funnel = [d.funnel EXCEPT ![w] = r]]
    BY DEF AfterFunnel
  <2> HIDE DEF r
  <2> QED
    BY <1>0, <2>1 DEF SameRows, Columns
<1>2. IsFunnelRow(r) /\ r.edge = TRUE
  <2> DEFINE f == d.funnel[w]
  <2>1. IsFunnelRow(f)
    BY <1>0 DEF FunnelRows
  <2>2. r = [f EXCEPT !.edge = TRUE]
    OBVIOUS
  <2> HIDE DEF f, r
  <2>3. r = [eligible |-> f.eligible, edge |-> TRUE]
    BY <2>1, <2>2 DEF IsFunnelRow
  <2> QED
    BY <2>3 DEF IsFunnelRow
<1> HIDE DEF r
<1>3. /\ AsRows(n.funnel) /\ DOMAIN n.funnel = DOMAIN d.funnel /\ n.funnel[w] = r
      /\ \A v \in DOMAIN d.funnel : v # w => n.funnel[v] = d.funnel[v]
  BY <1>0, <1>1 DEF AsRows, FunnelRows
<1>4. FunnelRows(n)
  BY <1>0, <1>2, <1>3 DEF FunnelRows
<1>5. \A v \in DOMAIN d.funnel : v \in DOMAIN n.funnel /\ (d.funnel[v].edge => n.funnel[v].edge)
  BY <1>2, <1>3
<1>6. /\ RowsHold(n) /\ Stands(d, n)
      /\ \A q \in DOMAIN d.graphs : GraphWhole(d, q) => GraphWhole(n, q)
  BY <1>1, <1>4, <1>5, WindowsHold
<1>7. WholeBut(n, {c})
  BY <1>1, <1>6 DEF Evaluated, WholeBut
<1>8. n.funnel[w].edge
  BY <1>2, <1>3
<1> QED
  BY <1>1, <1>6, <1>7, <1>8 DEF Evaluated, SameRows

LEMMA EvidenceFirst ==
  ASSUME NEW d, RowsHold(d), NEW c \in Candidates, Evaluated(d, c, 1), NEW n, n = AfterEvidence(d, c)
  PROVE  RowsHold(n) /\ Stands(d, n) /\ Evaluated(n, c, 2)
<1>0. Columns(d)
  BY DEF RowsHold
<1>1. /\ n.graphs = d.graphs /\ n.funnel = d.funnel
      /\ EventsAfter(d, c, n) /\ SnapsAfter(d, c, n) /\ ObsAfter(d, c, n)
  BY <1>0, EvidenceTables
<1>2. RowsHold(n) /\ Stands(d, n)
  BY EvidencePart
<1>3. \A q \in DOMAIN n.graphs : GraphWhole(n, q)
  <2> SUFFICES ASSUME NEW q \in DOMAIN n.graphs PROVE GraphWhole(n, q)
    OBVIOUS
  <2>1. q \in DOMAIN d.graphs /\ GraphWhole(d, q)
    BY <1>1 DEF Evaluated, WholeBut
  <2> QED
    BY <1>1, <1>2, <2>1, WholeStands
<1>4. /\ SourcesOf(c) \subseteq DOMAIN n.events /\ KeysOf(c) \subseteq DOMAIN n.snaps
      /\ CexOf(c) \subseteq DOMAIN n.obs
  BY <1>1 DEF EventsAfter, SnapsAfter, ObsAfter
<1> QED
  BY <1>2, <1>3, <1>4 DEF Evaluated, WholeBut

\* Every part of an evaluation keeps the rows and takes the candidate one part on.
LEMMA EvaluationStep ==
  ASSUME NEW d, RowsHold(d), NEW c \in Candidates, NEW part \in 1..4, Evaluated(d, c, part),
         Constrained(d, "evaluation", c, part), NEW n, n = EvaluationPart(d, c, part)
  PROVE  RowsHold(n) /\ Stands(d, n) /\ Evaluated(n, c, part + 1)
<1>1. CASE part = 1
  BY <1>1, EvidenceFirst DEF EvaluationPart
<1>2. CASE part = 2
  <2>1. CandOf[c].window \in DOMAIN d.links
    BY <1>2 DEF Constrained
  <2>2. n = AfterCandidate(d, c) /\ Evaluated(d, c, 2)
    BY <1>2 DEF EvaluationPart
  <2>3. part + 1 = 3
    BY <1>2
  <2> QED
    BY <2>1, <2>2, <2>3, CandidatePart
<1>3. CASE part = 3
  BY <1>3, ComputedPart DEF EvaluationPart
<1>4. CASE part = 4
  BY <1>4, FunnelPart DEF EvaluationPart
<1> QED
  BY <1>1, <1>2, <1>3, <1>4

-----------------------------------------------------------------------------
(* The parts of a market *)

LEMMA MarketFirst ==
  ASSUME NEW d, RowsHold(d), NEW m \in Markets, Discovered(d, m, 1), NEW n, n = MarketPart(d, m, 1)
  PROVE  RowsHold(n) /\ Stands(d, n) /\ Discovered(n, m, 2)
<1> DEFINE ms == d.markets \cup {m}
           ids == d.identities \cup {<<m, MarketOf[m].tokens>>}
<1>0. Columns(d)
  BY DEF RowsHold
<1>1. /\ SameRows(d, n) /\ n.graphs = d.graphs /\ n.markets = ms /\ n.identities = ids
      /\ n.links = d.links /\ n.funnel = d.funnel
  <2>1. n = [d EXCEPT !.markets = ms, !.identities = ids]
    BY DEF MarketPart
  <2> HIDE DEF ms, ids
  <2> QED
    BY <1>0, <2>1 DEF SameRows, Columns
<1>2. MarketsWhole(n)
  BY <1>1 DEF RowsHold, MarketsWhole, MarketWhole
<1>3. GraphRowsOf(n) /\ FunnelRows(n) /\ AsRows(n.links)
  BY <1>1 DEF RowsHold, GraphRowsOf, FunnelRows
<1>4. RowsHold(n) /\ Stands(d, n)
  BY <1>1, <1>2, <1>3, SameHold
<1>5. WholeBut(n, {})
  BY <1>1 DEF Discovered, WholeBut, GraphWhole, SameRows
<1> QED
  BY <1>1, <1>4, <1>5 DEF Discovered

LEMMA MarketSecond ==
  ASSUME NEW d, RowsHold(d), NEW m \in Markets, Discovered(d, m, 2), NEW n, n = MarketPart(d, m, 2)
  PROVE  RowsHold(n) /\ Stands(d, n) /\ Discovered(n, m, 3)
<1> DEFINE w == MarketOf[m].window
           none == [eligible |-> FALSE, edge |-> FALSE]
           more == [v \in {w} |-> none]
<1>0. Columns(d) /\ FunnelRows(d)
  BY DEF RowsHold
<1>1. /\ SameRows(d, n) /\ n.graphs = d.graphs /\ n.markets = d.markets
      /\ n.identities = d.identities /\ n.links = d.links /\ n.funnel = InsertNew(d.funnel, more)
  <2>1. n = [d EXCEPT !.funnel = InsertNew(d.funnel, more)]
    BY DEF MarketPart
  <2> HIDE DEF more
  <2> QED
    BY <1>0, <2>1 DEF SameRows, Columns
<1>2. IsFunnelRow(none)
  BY DEF IsFunnelRow
<1> HIDE DEF none
<1>3. /\ AsRows(n.funnel) /\ w \in DOMAIN n.funnel
      /\ \A v \in DOMAIN n.funnel : v \in DOMAIN d.funnel \/ n.funnel[v] = none
      /\ \A v \in DOMAIN d.funnel : v \in DOMAIN n.funnel /\ n.funnel[v] = d.funnel[v]
  BY <1>1 DEF InsertNew, AsRows
<1>4. FunnelRows(n)
  BY <1>0, <1>2, <1>3 DEF FunnelRows
<1>5. \A v \in DOMAIN d.funnel : v \in DOMAIN n.funnel /\ (d.funnel[v].edge => n.funnel[v].edge)
  BY <1>3
<1>6. /\ RowsHold(n) /\ Stands(d, n)
      /\ \A c \in DOMAIN d.graphs : GraphWhole(d, c) => GraphWhole(n, c)
  BY <1>1, <1>4, <1>5, WindowsHold
<1> QED
  BY <1>1, <1>3, <1>6 DEF Discovered, WholeBut

LEMMA MarketThird ==
  ASSUME NEW d, RowsHold(d), NEW m \in Markets, Discovered(d, m, 3),
         Constrained(d, "market", m, 3), NEW n, n = MarketPart(d, m, 3)
  PROVE  RowsHold(n) /\ Stands(d, n) /\ Discovered(n, m, 4)
<1> DEFINE w == MarketOf[m].window
           link == <<m, MarketOf[m].tokens>>
<1>0. Columns(d) /\ MarketsWhole(d)
  BY DEF RowsHold
<1>1. /\ SameRows(d, n) /\ n.graphs = d.graphs /\ n.markets = d.markets
      /\ n.identities = d.identities /\ n.links = Upsert(d.links, w, link) /\ n.funnel = d.funnel
  <2>1. n = [d EXCEPT !.links = Upsert(d.links, w, link)]
    BY DEF MarketPart
  <2> HIDE DEF link
  <2> QED
    BY <1>0, <2>1 DEF SameRows, Columns
<1>2. w \in DOMAIN d.links => d.links[w] = link
  BY DEF Constrained
<1>3. /\ AsRows(n.links) /\ DOMAIN n.links = DOMAIN d.links \cup {w} /\ n.links[w] = link
      /\ \A v \in DOMAIN d.links : v \in DOMAIN n.links /\ n.links[v] = d.links[v]
  BY <1>1, <1>2 DEF Upsert, AsRows
<1>4. link \in d.identities /\ link[1] \in d.markets /\ w \in DOMAIN d.funnel
  BY DEF Discovered
<1>5. MarketsWhole(n)
  <2> HIDE DEF link
  <2> QED
    BY <1>0, <1>1, <1>3, <1>4 DEF MarketsWhole, MarketWhole
<1>6. GraphRowsOf(n) /\ FunnelRows(n)
  BY <1>1 DEF RowsHold, GraphRowsOf, FunnelRows
<1>7. RowsHold(n) /\ Stands(d, n)
  BY <1>1, <1>3, <1>5, <1>6, SameHold
<1>8. WholeBut(n, {})
  BY <1>1, <1>7, WholeStands DEF Discovered, WholeBut
<1> QED
  BY <1>1, <1>7, <1>8 DEF Discovered

LEMMA MarketFourth ==
  ASSUME NEW d, RowsHold(d), NEW m \in Markets, Discovered(d, m, 4), NEW n, n = MarketPart(d, m, 4)
  PROVE  RowsHold(n) /\ Stands(d, n) /\ Discovered(n, m, 5)
<1> DEFINE w == MarketOf[m].window
           f == d.funnel[w]
           r == [f EXCEPT !.eligible = MarketOf[m].eligible]
<1>0. Columns(d) /\ FunnelRows(d) /\ w \in DOMAIN d.funnel
  BY DEF RowsHold, Discovered
<1>1. /\ SameRows(d, n) /\ n.graphs = d.graphs /\ n.markets = d.markets
      /\ n.identities = d.identities /\ n.links = d.links
      /\ n.funnel = [d.funnel EXCEPT ![w] = r]
  <2>1. n = [d EXCEPT !.funnel = [d.funnel EXCEPT ![w] = r]]
    BY DEF MarketPart
  <2> HIDE DEF r
  <2> QED
    BY <1>0, <2>1 DEF SameRows, Columns
<1>2. IsFunnelRow(r) /\ r.edge = f.edge
  <2>1. IsFunnelRow(f)
    BY <1>0 DEF FunnelRows
  <2>2. r = [f EXCEPT !.eligible = MarketOf[m].eligible]
    OBVIOUS
  <2> HIDE DEF f, r
  <2>3. r = [eligible |-> MarketOf[m].eligible, edge |-> f.edge] /\ f.edge \in BOOLEAN
    BY <2>1, <2>2 DEF IsFunnelRow
  <2> QED
    BY <2>3 DEF IsFunnelRow
<1> HIDE DEF r
<1>3. /\ AsRows(n.funnel) /\ DOMAIN n.funnel = DOMAIN d.funnel /\ n.funnel[w] = r
      /\ \A v \in DOMAIN d.funnel : v # w => n.funnel[v] = d.funnel[v]
  BY <1>0, <1>1 DEF AsRows, FunnelRows
<1>4. FunnelRows(n)
  BY <1>0, <1>2, <1>3 DEF FunnelRows
<1>5. \A v \in DOMAIN d.funnel : v \in DOMAIN n.funnel /\ (d.funnel[v].edge => n.funnel[v].edge)
  BY <1>2, <1>3
<1>6. /\ RowsHold(n) /\ Stands(d, n)
      /\ \A c \in DOMAIN d.graphs : GraphWhole(d, c) => GraphWhole(n, c)
  BY <1>1, <1>4, <1>5, WindowsHold
<1> QED
  BY <1>1, <1>3, <1>6 DEF Discovered, WholeBut

\* Every part of a market keeps the rows and takes the market one part on.
LEMMA MarketStep ==
  ASSUME NEW d, RowsHold(d), NEW m \in Markets, NEW part \in 1..4, Discovered(d, m, part),
         Constrained(d, "market", m, part), NEW n, n = MarketPart(d, m, part)
  PROVE  RowsHold(n) /\ Stands(d, n) /\ Discovered(n, m, part + 1)
<1>1. CASE part = 1
  BY <1>1, MarketFirst
<1>2. CASE part = 2
  BY <1>2, MarketSecond
<1>3. CASE part = 3
  BY <1>3, MarketThird
<1>4. CASE part = 4
  BY <1>4, MarketFourth
<1> QED
  BY <1>1, <1>2, <1>3, <1>4

-----------------------------------------------------------------------------
(* What the invariant implies *)

LEMMA AgainNothing ==
  ASSUME NEW d, RowsHold(d), NEW c \in DOMAIN d.graphs, GraphWhole(d, c)
  PROVE  Idempotent(d, c)
<1>0. Columns(d) /\ GraphRowsOf(d) /\ FunnelRows(d) /\ c \in Candidates
  BY DEF RowsHold, GraphRowsOf
<1> PICK n : n = AfterEvidence(d, c)
  OBVIOUS
<1>1. /\ Columns(n) /\ n.graphs = d.graphs /\ n.markets = d.markets
      /\ n.identities = d.identities /\ n.links = d.links /\ n.funnel = d.funnel
      /\ n.counts = d.counts /\ n.calls = d.calls /\ n.plain = d.plain /\ n.cursor = d.cursor
      /\ EventsAfter(d, c, n) /\ SnapsAfter(d, c, n) /\ ObsAfter(d, c, n)
  BY <1>0, EvidenceTables
<1>2. n.snaps = d.snaps
  <2>1. AsRows(d.snaps) /\ KeysOf(c) \subseteq DOMAIN d.snaps
    BY DEF RowsHold, SnapRows, GraphWhole
  <2> QED
    BY <1>1, <2>1 DEF SnapsAfter, AsRows
<1>3. n.obs = d.obs
  <2>1. AsRows(d.obs) /\ CexOf(c) \subseteq DOMAIN d.obs
    BY DEF RowsHold, ObsRows, GraphWhole
  <2> QED
    BY <1>1, <2>1 DEF ObsAfter, AsRows
<1>4. AfterCandidate(n, c) = n
  <2> DEFINE g == d.graphs[c]
  <2>1. IsGraph(g) /\ g.books = KeysOf(c) /\ g.cex = CexOf(c)
    BY <1>0 DEF GraphRowsOf, GraphWhole
  <2>2. GraphOf(n, c) = g
    BY <1>1 DEF GraphOf
  <2>3. [g EXCEPT !.books = @ \cup KeysOf(c), !.cex = @ \cup CexOf(c)] = g
    <3> HIDE DEF g
    <3>1. [g EXCEPT !.books = KeysOf(c), !.cex = CexOf(c)] = g
      BY <2>1 DEF IsGraph
    <3> QED
      BY <2>1, <3>1
  <2>4. Upsert(n.graphs, c, g) = n.graphs
    BY <1>0, <1>1 DEF Upsert, GraphRowsOf, AsRows
  <2>5. AfterCandidate(n, c) = [n EXCEPT !.graphs = Upsert(n.graphs, c, g)]
    <3> HIDE DEF g
    <3> QED
      BY <2>2, <2>3 DEF AfterCandidate
  <2> HIDE DEF g
  <2> QED
    BY <1>1, <2>4, <2>5 DEF Columns
<1>5. AfterComputed(n, c) = n
  <2> DEFINE g == d.graphs[c]
  <2>1. IsGraph(g) /\ g.parts = Parts
    BY <1>0 DEF GraphRowsOf, GraphWhole
  <2>2. [g EXCEPT !.parts = Parts] = g
    <3> HIDE DEF g
    <3> QED
      BY <2>1 DEF IsGraph
  <2>3. [d.graphs EXCEPT ![c] = g] = d.graphs
    BY <1>0 DEF GraphRowsOf, AsRows
  <2>4. AfterComputed(n, c) = [n EXCEPT !.graphs = [d.graphs EXCEPT ![c] = [g EXCEPT !.parts = Parts]]]
    BY <1>1 DEF AfterComputed
  <2> HIDE DEF g
  <2>5. AfterComputed(n, c) = [n EXCEPT !.graphs = n.graphs]
    BY <1>1, <2>2, <2>3, <2>4
  <2> QED
    BY <1>1, <2>5 DEF Columns
<1>6. AfterFunnel(n, c) = n
  <2> DEFINE w == CandOf[c].window
             f == d.funnel[w]
  <2>1. w \in DOMAIN d.funnel
    BY DEF RowsHold, GraphWhole, MarketsWhole, MarketWhole
  <2>2. IsFunnelRow(f) /\ f.edge = TRUE
    BY <1>0, <2>1 DEF FunnelRows, GraphWhole, IsFunnelRow
  <2>3. [f EXCEPT !.edge = TRUE] = f
    <3> HIDE DEF f
    <3> QED
      BY <2>2 DEF IsFunnelRow
  <2>4. [d.funnel EXCEPT ![w] = f] = d.funnel
    BY <1>0 DEF FunnelRows, AsRows
  <2>5. AfterFunnel(n, c) = [n EXCEPT !.funnel = [d.funnel EXCEPT ![w] = [f EXCEPT !.edge = TRUE]]]
    BY <1>1 DEF AfterFunnel
  <2> HIDE DEF f
  <2>6. AfterFunnel(n, c) = [n EXCEPT !.funnel = n.funnel]
    BY <1>1, <2>3, <2>4, <2>5
  <2> QED
    BY <1>1, <2>6 DEF Columns
<1>7. AfterFunnel(AfterComputed(AfterCandidate(AfterEvidence(d, c), c), c), c) = n
  BY <1>4, <1>5, <1>6
<1>8. [n EXCEPT !.events = d.events] = d
  BY <1>0, <1>1, <1>2, <1>3 DEF Columns
<1>9. \A e \in DOMAIN d.events : n.events[e] = d.events[e]
  BY <1>1 DEF EventsAfter
<1> QED
  BY <1>7, <1>8, <1>9 DEF Idempotent

LEMMA HoldsImplies ==
  ASSUME EvidenceHolds PROVE EvidenceInv
<1>1. /\ EventRows(db) /\ SnapRows(db) /\ GraphRowsOf(db) /\ ObsSourced(db) /\ CursorForward(db)
      /\ CountsAddUp(db) /\ MarketsWhole(db) /\ RowsHold(db)
  BY DEF EvidenceHolds, RowsHold
<1>2. GraphsWhole
  BY DEF EvidenceHolds, WholeBut, GraphsWhole
<1>3. tx = NoTx \/ tx.part \in 1..5
  BY DEF EvidenceHolds, BundleHolds
<1>4. \A e \in DOMAIN db.events : db.events[e].class \in EventVerdicts
  BY <1>1 DEF EventRows, EventRow
<1>5. TypeOKEvidence
  BY <1>1, <1>3, <1>4 DEF TypeOKEvidence, EventRows, SnapRows, GraphRowsOf
<1>6. \A c \in DOMAIN db.graphs : Idempotent(db, c)
  BY <1>1, <1>2, AgainNothing DEF GraphsWhole
<1> QED
  BY <1>1, <1>2, <1>5, <1>6 DEF EvidenceInv, MarketsWhole

LEMMA StandsRows ==
  ASSUME NEW d, EventRows(d), NEW n, EventRows(n), Stands(d, n)
  PROVE  \A e \in DOMAIN d.events : e \in DOMAIN n.events /\
           [n.events[e] EXCEPT !.dups = 0] = [d.events[e] EXCEPT !.dups = 0]
<1> SUFFICES ASSUME NEW e \in DOMAIN d.events
             PROVE  e \in DOMAIN n.events /\
                      [n.events[e] EXCEPT !.dups = 0] = [d.events[e] EXCEPT !.dups = 0]
  OBVIOUS
<1>1. /\ e \in DOMAIN n.events
      /\ n.events[e].class = d.events[e].class /\ n.events[e].accepted = d.events[e].accepted
  BY DEF Stands
<1>2. n.events[e] \in EventRow /\ d.events[e] \in EventRow
  BY <1>1 DEF EventRows
<1> QED
  BY <1>1, <1>2 DEF EventRow

-----------------------------------------------------------------------------
(* The invariant *)

LEMMA EmptyHolds == RowsHold(EmptyTables) /\ WholeBut(EmptyTables, {})
<1> DEFINE d == EmptyTables
<1>1. /\ Columns(d) /\ d.events = << >> /\ d.obs = << >> /\ d.snaps = << >> /\ d.graphs = << >>
      /\ d.links = << >> /\ d.funnel = << >> /\ d.counts = << >> /\ d.calls = 0
      /\ d.plain = << >> /\ d.cursor = [provider |-> Absent, seq |-> Absent]
  BY DEF EmptyTables, Columns
<1>2. DOMAIN << >> = {} /\ AsRows(<< >>) /\ << >> \in Seq(Events) /\ Len(<< >>) = 0
  BY DEF AsRows
<1> HIDE DEF d
<1>3. EventRows(d) /\ ObsRows(d) /\ SnapRows(d) /\ GraphRowsOf(d) /\ FunnelRows(d) /\ AsRows(d.links)
  BY <1>1, <1>2 DEF EventRows, ObsRows, SnapRows, GraphRowsOf, FunnelRows
<1>4. ObsSourced(d) /\ MarketsWhole(d) /\ CursorForward(d) /\ WholeBut(d, {})
  BY <1>1, <1>2 DEF ObsSourced, MarketsWhole, CursorForward, WholeBut
<1>5. CursorAt(d)
  BY <1>1, <1>2 DEF CursorAt, Places
<1>6. CountRows(d)
  BY <1>1, <1>2, FS_EmptySet DEF CountRows
<1>7. CountsAddUp(d)
  <2>1. RawOf(d.counts) = 0 /\ UniqueOf(d.counts) = 0 /\ DupOf(d.counts) = 0
    BY <1>1, <1>2, SumEmpty DEF RawOf, UniqueOf, DupOf
  <2> QED
    BY <1>1, <1>2, <2>1, CountsAre
<1> QED
  BY <1>1, <1>3, <1>4, <1>5, <1>6, <1>7 DEF RowsHold, d

LEMMA EvidenceStarts == ASSUME EvidenceInit PROVE EvidenceHolds
  BY EmptyHolds DEF EvidenceInit, EvidenceHolds

LEMMA KindsDiffer == BundleHolds => tx # NoTx
  BY DEF BundleHolds, NoTx

LEMMA StandsItself == ASSUME NEW d PROVE Stands(d, d)
  BY DEF Stands

LEMMA BeginHolds ==
  ASSUME EvidenceHolds, NEW kind, NEW of, Begin(kind, of),
         \/ kind = "evaluation" /\ of \in Candidates
         \/ kind = "market" /\ of \in Markets
  PROVE  EvidenceHolds'
<1>1. /\ tx' = [kind |-> kind, of |-> of, part |-> 1, db |-> db] /\ db' = db
      /\ tx'.kind = kind /\ tx'.of = of /\ tx'.part = 1 /\ tx'.db = db
  BY DEF Begin
<1>2. RowsHold(db) /\ WholeBut(db, {}) /\ Stands(db, db)
  BY StandsItself DEF EvidenceHolds
<1>3. Evaluated(db, of, 1) /\ Discovered(db, of, 1)
  BY <1>2 DEF Evaluated, Discovered, WholeBut
<1>4. BundleHolds'
  BY <1>1, <1>2, <1>3 DEF BundleHolds
<1> QED
  BY <1>1, <1>2, <1>4 DEF EvidenceHolds

LEMMA RunPartHolds ==
  ASSUME EvidenceHolds, RunPart PROVE EvidenceHolds'
<1> DEFINE n == IF tx.kind = "market" THEN MarketPart(tx.db, tx.of, tx.part)
                ELSE EvaluationPart(tx.db, tx.of, tx.part)
<1>1. tx # NoTx /\ BundleHolds /\ tx.part \in 1..4 /\ db' = db
  BY DEF RunPart, EvidenceHolds, BundleHolds
<1>2. Constrained(tx.db, tx.kind, tx.of, tx.part)
  BY DEF RunPart
<1>3. tx' = [tx EXCEPT !.part = tx.part + 1, !.db = n]
  BY DEF RunPart
<1>4. /\ tx' = [kind |-> tx.kind, of |-> tx.of, part |-> tx.part + 1, db |-> n]
      /\ tx'.kind = tx.kind /\ tx'.of = tx.of /\ tx'.part = tx.part + 1 /\ tx'.db = n
  <2> HIDE DEF n
  <2> QED
    BY <1>1, <1>3 DEF BundleHolds
<1>5. /\ RowsHold(n) /\ Stands(tx.db, n)
      /\ \/ tx.kind = "evaluation" /\ tx.of \in Candidates /\ Evaluated(n, tx.of, tx.part + 1)
         \/ tx.kind = "market" /\ tx.of \in Markets /\ Discovered(n, tx.of, tx.part + 1)
  <2>1. RowsHold(tx.db)
    BY <1>1 DEF BundleHolds
  <2>2. CASE tx.kind = "evaluation"
    <3>1. tx.of \in Candidates /\ Evaluated(tx.db, tx.of, tx.part) /\ n = EvaluationPart(tx.db, tx.of, tx.part)
      BY <1>1, <2>2 DEF BundleHolds
    <3> HIDE DEF n
    <3> QED
      BY <1>1, <1>2, <2>1, <2>2, <3>1, EvaluationStep
  <2>3. CASE tx.kind = "market"
    <3>1. tx.of \in Markets /\ Discovered(tx.db, tx.of, tx.part) /\ n = MarketPart(tx.db, tx.of, tx.part)
      BY <1>1, <2>3 DEF BundleHolds
    <3> HIDE DEF n
    <3> QED
      BY <1>1, <1>2, <2>1, <2>3, <3>1, MarketStep
  <2> QED
    BY <1>1, <2>2, <2>3 DEF BundleHolds
<1> HIDE DEF n
<1>6. Stands(db, n)
  BY <1>1, <1>5, StandsTransitive DEF BundleHolds
<1>7. tx'.part \in 1..5
  BY <1>1, <1>4
<1>8. BundleHolds'
  BY <1>1, <1>4, <1>5, <1>6, <1>7 DEF BundleHolds
<1> QED
  BY <1>1, <1>8 DEF EvidenceHolds

LEMMA CommitHolds ==
  ASSUME EvidenceHolds, Commit PROVE EvidenceHolds' /\ Stands(db, db')
<1>1. BundleHolds /\ db' = tx.db /\ tx' = NoTx /\ tx.part = 5
  BY DEF Commit, EvidenceHolds
<1>2. RowsHold(tx.db) /\ Stands(db, tx.db)
  BY <1>1 DEF BundleHolds
<1>3. WholeBut(tx.db, {})
  <2>1. CASE tx.kind = "evaluation"
    <3> DEFINE d == tx.db
               c == tx.of
    <3>1. Evaluated(d, c, 5) /\ GraphRowsOf(d) /\ c \in Candidates
      BY <1>1, <1>2, <2>1 DEF BundleHolds, RowsHold
    <3> HIDE DEF d, c
    <3>2. GraphWhole(d, c)
      <4>1. d.graphs[c].trigger = CandOf[c].trigger /\ d.graphs[c].books = KeysOf(c)
              /\ d.graphs[c].cex = CexOf(c) /\ d.graphs[c].parts = Parts
        BY <3>1 DEF Evaluated, GraphRowsOf
      <4>2. CandOf[c].trigger # Absent => CandOf[c].trigger \in DOMAIN d.events
        BY <3>1 DEF Evaluated, SourcesOf
      <4> QED
        BY <3>1, <4>1, <4>2 DEF Evaluated, GraphWhole
    <3>3. WholeBut(d, {})
      BY <3>1, <3>2 DEF Evaluated, WholeBut
    <3> QED
      BY <3>3 DEF d
  <2>2. CASE tx.kind = "market"
    BY <1>1, <2>2 DEF BundleHolds, Discovered
  <2> QED
    BY <1>1, <2>1, <2>2 DEF BundleHolds
<1> QED
  BY <1>1, <1>2, <1>3 DEF EvidenceHolds

\* A row of telemetry
LEMMA RowHolds ==
  ASSUME EvidenceHolds, UNCHANGED tx, tx = NoTx, RowsHold(db'), Stands(db, db'),
         db'.graphs = db.graphs, db'.funnel = db.funnel
  PROVE  EvidenceHolds'
<1>1. WholeBut(db', {})
  <2> SUFFICES ASSUME NEW c \in DOMAIN db'.graphs PROVE GraphWhole(db', c)
    BY DEF WholeBut
  <2>1. GraphWhole(db, c)
    BY DEF EvidenceHolds, WholeBut
  <2> QED
    BY <2>1, WholeStands
<1> QED
  BY <1>1 DEF EvidenceHolds

LEMMA RecordHolds ==
  ASSUME EvidenceHolds,
         \/ \E e \in Events, mode \in Modes : RecordEvent(e, mode)
         \/ \E o \in Observations : RecordObservation(o)
         \/ \E b \in Books : RecordBook(b)
  PROVE  EvidenceHolds' /\ Stands(db, db')
<1>0. RowsHold(db)
  BY DEF EvidenceHolds
<1>1. ASSUME NEW e \in Events, NEW mode \in Modes, RecordEvent(e, mode)
      PROVE  EvidenceHolds' /\ Stands(db, db')
  <2>1. db' = AfterEvent(db, e, mode) /\ tx = NoTx /\ UNCHANGED tx
    BY <1>1 DEF RecordEvent
  <2>2. RowsHold(db') /\ Stands(db, db') /\ db'.graphs = db.graphs /\ db'.funnel = db.funnel
    BY <1>0, <2>1, EventHolds
  <2> QED
    BY <2>1, <2>2, RowHolds
<1>2. ASSUME NEW o \in Observations, RecordObservation(o) PROVE EvidenceHolds' /\ Stands(db, db')
  <2>1. db' = AfterObs(db, o, FALSE) /\ tx = NoTx /\ UNCHANGED tx
    BY <1>2 DEF RecordObservation
  <2>2. RowsHold(db') /\ Stands(db, db') /\ db'.graphs = db.graphs /\ db'.funnel = db.funnel
    BY <1>0, <2>1, ObsHolds
  <2> QED
    BY <2>1, <2>2, RowHolds
<1>3. ASSUME NEW b \in Books, RecordBook(b) PROVE EvidenceHolds' /\ Stands(db, db')
  <2>1. db' = AfterBook(db, b) /\ tx = NoTx /\ UNCHANGED tx
    BY <1>3 DEF RecordBook
  <2>2. RowsHold(db') /\ Stands(db, db') /\ db'.graphs = db.graphs /\ db'.funnel = db.funnel
    BY <1>0, <2>1, BookHolds
  <2> QED
    BY <2>1, <2>2, RowHolds
<1> QED
  BY <1>1, <1>2, <1>3

LEMMA EvidenceStepHolds ==
  ASSUME EvidenceHolds, EvidenceNext PROVE EvidenceHolds' /\ Stands(db, db')
<1>1. CASE \/ \E e \in Events, mode \in Modes : RecordEvent(e, mode)
           \/ \E o \in Observations : RecordObservation(o)
           \/ \E b \in Books : RecordBook(b)
  BY <1>1, RecordHolds
<1>2. CASE \/ \E c \in Candidates : Begin("evaluation", c)
           \/ \E m \in Markets : Begin("market", m)
  <2>1. EvidenceHolds'
    BY <1>2, BeginHolds
  <2>2. db' = db
    BY <1>2 DEF Begin
  <2> QED
    BY <2>1, <2>2, StandsItself
<1>3. CASE RunPart
  BY <1>3, RunPartHolds, StandsItself DEF RunPart
<1>4. CASE Rollback
  <2>1. EvidenceHolds'
    BY <1>4 DEF Rollback, EvidenceHolds
  <2> QED
    BY <1>4, <2>1, StandsItself DEF Rollback
<1>5. CASE Commit
  BY <1>5, CommitHolds
<1> QED
  BY <1>1, <1>2, <1>3, <1>4, <1>5 DEF EvidenceNext

-----------------------------------------------------------------------------
(* Retention *)

LEMMA GraphGone ==
  ASSUME NEW d, RowsHold(d), WholeBut(d, {}), NEW c, NEW n,
         n = [d EXCEPT !.graphs = [q \in DOMAIN d.graphs \ {c} |-> d.graphs[q]]]
  PROVE  RowsHold(n) /\ WholeBut(n, {}) /\ DOMAIN n.graphs = DOMAIN d.graphs \ {c}
<1>0. Columns(d) /\ GraphRowsOf(d)
  BY DEF RowsHold
<1>1. /\ Columns(n) /\ n.events = d.events /\ n.obs = d.obs /\ n.snaps = d.snaps
      /\ n.graphs = [q \in DOMAIN d.graphs \ {c} |-> d.graphs[q]] /\ n.markets = d.markets
      /\ n.identities = d.identities /\ n.links = d.links /\ n.funnel = d.funnel
      /\ n.counts = d.counts /\ n.calls = d.calls /\ n.plain = d.plain /\ n.cursor = d.cursor
  BY <1>0 DEF Columns
<1>2. /\ AsRows(n.graphs) /\ DOMAIN n.graphs = DOMAIN d.graphs \ {c}
      /\ \A q \in DOMAIN n.graphs : q \in DOMAIN d.graphs /\ n.graphs[q] = d.graphs[q]
  BY <1>1 DEF AsRows
<1>3. GraphRowsOf(n)
  BY <1>0, <1>2 DEF GraphRowsOf
<1>4. WholeBut(n, {})
  BY <1>1, <1>2 DEF WholeBut, GraphWhole
<1>5. CountRows(n) /\ CountsAddUp(n) /\ CursorAt(n) /\ CursorForward(n)
  BY <1>1, SameRowCounts
<1>6. /\ EventRows(n) /\ ObsRows(n) /\ ObsSourced(n) /\ SnapRows(n) /\ FunnelRows(n)
      /\ AsRows(n.links) /\ MarketsWhole(n)
  BY <1>1 DEF RowsHold, EventRows, ObsRows, ObsSourced, SnapRows, FunnelRows, MarketsWhole,
              MarketWhole
<1> QED
  BY <1>1, <1>2, <1>3, <1>4, <1>5, <1>6 DEF RowsHold

LEMMA EventsGone ==
  ASSUME NEW d, RowsHold(d), WholeBut(d, {}), NEW gone,
         \A c \in DOMAIN d.graphs : d.graphs[c].trigger \notin gone,
         \A o \in DOMAIN d.obs : d.obs[o].sourced => ObsOf[o].event \notin gone,
         NEW n, n = [d EXCEPT !.events = [e \in DOMAIN d.events \ gone |-> d.events[e]]]
  PROVE  RowsHold(n) /\ WholeBut(n, {}) /\ n.graphs = d.graphs
<1>0. Columns(d) /\ EventRows(d)
  BY DEF RowsHold
<1>1. /\ Columns(n) /\ n.events = [e \in DOMAIN d.events \ gone |-> d.events[e]]
      /\ n.obs = d.obs /\ n.snaps = d.snaps /\ n.graphs = d.graphs /\ n.markets = d.markets
      /\ n.identities = d.identities /\ n.links = d.links /\ n.funnel = d.funnel
      /\ n.counts = d.counts /\ n.calls = d.calls /\ n.plain = d.plain /\ n.cursor = d.cursor
  BY <1>0 DEF Columns
<1>2. /\ AsRows(n.events) /\ \A e : e \in DOMAIN n.events <=> e \in DOMAIN d.events /\ e \notin gone
      /\ \A e \in DOMAIN n.events : n.events[e] = d.events[e]
  BY <1>1 DEF AsRows
<1>3. EventRows(n)
  BY <1>0, <1>2 DEF EventRows
<1>4. ObsSourced(n)
  BY <1>1, <1>2 DEF RowsHold, ObsSourced
<1>5. WholeBut(n, {})
  BY <1>1, <1>2 DEF WholeBut, GraphWhole
<1>6. CountRows(n) /\ CountsAddUp(n) /\ CursorAt(n) /\ CursorForward(n)
  BY <1>1, SameRowCounts
<1>7. /\ ObsRows(n) /\ SnapRows(n) /\ GraphRowsOf(n) /\ FunnelRows(n)
      /\ AsRows(n.links) /\ MarketsWhole(n)
  BY <1>1 DEF RowsHold, ObsRows, SnapRows, GraphRowsOf, FunnelRows, MarketsWhole, MarketWhole
<1> QED
  BY <1>1, <1>3, <1>4, <1>5, <1>6, <1>7 DEF RowsHold

LEMMA SnapsGone ==
  ASSUME NEW d, RowsHold(d), WholeBut(d, {}), NEW gone,
         \A c \in DOMAIN d.graphs : \A k \in d.graphs[c].books : k \notin gone,
         NEW n, n = [d EXCEPT !.snaps = [k \in DOMAIN d.snaps \ gone |-> d.snaps[k]]]
  PROVE  RowsHold(n) /\ WholeBut(n, {}) /\ n.graphs = d.graphs
<1>0. Columns(d) /\ SnapRows(d)
  BY DEF RowsHold
<1>1. /\ Columns(n) /\ n.snaps = [k \in DOMAIN d.snaps \ gone |-> d.snaps[k]]
      /\ n.obs = d.obs /\ n.events = d.events /\ n.graphs = d.graphs /\ n.markets = d.markets
      /\ n.identities = d.identities /\ n.links = d.links /\ n.funnel = d.funnel
      /\ n.counts = d.counts /\ n.calls = d.calls /\ n.plain = d.plain /\ n.cursor = d.cursor
  BY <1>0 DEF Columns
<1>2. /\ AsRows(n.snaps) /\ \A k : k \in DOMAIN n.snaps <=> k \in DOMAIN d.snaps /\ k \notin gone
      /\ \A k \in DOMAIN n.snaps : n.snaps[k] = d.snaps[k]
  BY <1>1 DEF AsRows
<1>3. SnapRows(n)
  BY <1>0, <1>2 DEF SnapRows
<1>4. WholeBut(n, {})
  BY <1>1, <1>2 DEF WholeBut, GraphWhole
<1>5. CountRows(n) /\ CountsAddUp(n) /\ CursorAt(n) /\ CursorForward(n)
  BY <1>1, SameRowCounts
<1>6. /\ EventRows(n) /\ ObsRows(n) /\ ObsSourced(n) /\ GraphRowsOf(n) /\ FunnelRows(n)
      /\ AsRows(n.links) /\ MarketsWhole(n)
  BY <1>1 DEF RowsHold, EventRows, ObsRows, ObsSourced, GraphRowsOf, FunnelRows, MarketsWhole,
              MarketWhole
<1> QED
  BY <1>1, <1>3, <1>4, <1>5, <1>6 DEF RowsHold

\* The observations that are left, each as it was but for its order after those gone
ObsLeft(d, gone, left) ==
  /\ AsRows(left) /\ \A o : o \in DOMAIN left <=> o \in DOMAIN d.obs /\ o \notin gone
  /\ \A o \in DOMAIN left : IsObsRow(left[o]) /\ left[o].sourced = d.obs[o].sourced

LEMMA ObsGone ==
  ASSUME NEW d, RowsHold(d), WholeBut(d, {}), NEW gone,
         \A c \in DOMAIN d.graphs : \A o \in d.graphs[c].cex : o \notin gone,
         NEW left, ObsLeft(d, gone, left), NEW n, n = [d EXCEPT !.obs = left]
  PROVE  RowsHold(n) /\ WholeBut(n, {}) /\ n.graphs = d.graphs
<1>0. Columns(d) /\ ObsRows(d)
  BY DEF RowsHold
<1>1. /\ Columns(n) /\ n.obs = left
      /\ n.events = d.events /\ n.snaps = d.snaps /\ n.graphs = d.graphs /\ n.markets = d.markets
      /\ n.identities = d.identities /\ n.links = d.links /\ n.funnel = d.funnel
      /\ n.counts = d.counts /\ n.calls = d.calls /\ n.plain = d.plain /\ n.cursor = d.cursor
  BY <1>0 DEF Columns
<1>4. ObsRows(n)
  BY <1>1 DEF ObsRows, ObsLeft
<1>5. ObsSourced(n)
  <2>1. ObsSourced(d)
    BY DEF RowsHold
  <2> QED
    BY <1>1, <2>1 DEF ObsSourced, ObsLeft
<1>6. WholeBut(n, {})
  BY <1>1 DEF WholeBut, GraphWhole, ObsLeft
<1>7. CountRows(n) /\ CountsAddUp(n) /\ CursorAt(n) /\ CursorForward(n)
  BY <1>1, SameRowCounts
<1>8. /\ EventRows(n) /\ SnapRows(n) /\ GraphRowsOf(n) /\ FunnelRows(n)
      /\ AsRows(n.links) /\ MarketsWhole(n)
  BY <1>1 DEF RowsHold, EventRows, SnapRows, GraphRowsOf, FunnelRows, MarketsWhole, MarketWhole
<1> QED
  BY <1>1, <1>4, <1>5, <1>6, <1>7, <1>8 DEF RowsHold

\* What holds of the commands and of the rotation
TradesHold ==
  /\ journal \in [Candidates -> CommandStates] /\ entering \in [Candidates -> CommandStates]
  /\ turn \in 1..8 /\ cutoff \in 0..LastCutoff /\ TradesRest

RetentionHolds == EvidenceHolds /\ TradesHold

LEMMA TurnPasses == ASSUME turn \in 1..8, PassOn PROVE turn' \in 1..8
  BY DEF PassOn, Steps

LEMMA RawTables ==
  ASSUME turn \in 1..8, NEW kind \in {"age", "cap"}, IsTurn(kind)
  PROVE  Steps[turn][2] \in {"cex", "book", "event"}
  BY DEF IsTurn, Steps

LEMMA SubmitHolds ==
  ASSUME RetentionHolds, NEW c \in Candidates,
         Submit(c) \/ SubmitEntry(c) \/ EndEntry(c) \/ Observe(c)
  PROVE  RetentionHolds'
<1>1. EvidenceHolds'
  <2>1. UNCHANGED evidenceVars
    BY DEF Submit, SubmitEntry, EndEntry, Observe
  <2> QED
    BY <2>1 DEF evidenceVars, RetentionHolds, EvidenceHolds, BundleHolds
<1>2. TypeOKEvidence /\ {"open", "committed", "failed"} \subseteq CommandStates
  BY HoldsImplies DEF RetentionHolds, EvidenceInv, CommandStates
<1>3. CASE Submit(c)
  BY <1>1, <1>2, <1>3 DEF Submit, RetentionHolds, TradesHold, TradesRest, evidenceVars
<1>4. CASE SubmitEntry(c)
  BY <1>1, <1>2, <1>4 DEF SubmitEntry, RetentionHolds, TradesHold, TradesRest, evidenceVars
<1>5. CASE EndEntry(c)
  BY <1>1, <1>2, <1>5 DEF EndEntry, RetentionHolds, TradesHold, TradesRest, evidenceVars
<1>6. CASE Observe(c)
  BY <1>1, <1>2, <1>6 DEF Observe, RetentionHolds, TradesHold, TradesRest, evidenceVars
<1> QED
  BY <1>3, <1>4, <1>5, <1>6

\* The lane's own bundles and rows, which take no graph
LEMMA WritesHold ==
  ASSUME RetentionHolds, BeginSubmitted \/ RunBundle \/ RecordRaw
  PROVE  RetentionHolds'
<1>1. EvidenceNext
  <2>1. CASE BeginSubmitted
    BY <2>1 DEF BeginSubmitted, EvidenceNext
  <2>2. CASE RunBundle
    BY <2>2 DEF RunBundle, EvidenceNext
  <2>3. CASE RecordRaw
    <3>1. \A c \in Candidates : CandOf[c].books \subseteq Books
      BY EvidenceAssumption
    <3>2. "reference" \in Modes
      BY DEF Modes
    <3> QED
      BY <2>3, <3>1, <3>2 DEF RecordRaw, EvidenceNext
  <2> QED
    BY <2>1, <2>2, <2>3
<1>2. EvidenceHolds' /\ DOMAIN db.graphs \subseteq DOMAIN db'.graphs
  BY <1>1, EvidenceStepHolds DEF RetentionHolds, Stands
<1>3. UNCHANGED <<entering, observing, cutoff, turn>>
  BY DEF BeginSubmitted, RunBundle, RecordRaw, trade
<1>4. journal' \in [Candidates -> CommandStates]
  <2>1. journal \in [Candidates -> CommandStates]
    BY DEF RetentionHolds, TradesHold
  <2>2. \A state \in CommandStates : EndCommand(state) => journal' \in [Candidates -> CommandStates]
    BY <2>1 DEF EndCommand
  <2>3. journal' = journal \/ EndCommand("committed") \/ EndCommand("failed")
    BY DEF BeginSubmitted, RunBundle, RecordRaw, trade
  <2> QED
    BY <2>1, <2>2, <2>3 DEF CommandStates
<1> QED
  BY <1>2, <1>3, <1>4 DEF RetentionHolds, TradesHold, TradesRest

LEMMA AgeHolds == ASSUME RetentionHolds, Age PROVE RetentionHolds'
<1>1. EvidenceHolds'
  BY DEF Age, evidenceVars, RetentionHolds, EvidenceHolds, BundleHolds
<1>2. cutoff' \in 0..LastCutoff
  BY RetentionAssumption DEF Age, RetentionHolds, TradesHold
<1> QED
  BY <1>1, <1>2 DEF Age, evidenceVars, trade, RetentionHolds, TradesHold, TradesRest

LEMMA DeleteGraphHolds == ASSUME RetentionHolds, DeleteGraph PROVE RetentionHolds'
<1>1. /\ tx = NoTx /\ tx' = tx /\ UNCHANGED <<journal, entering, observing, cutoff>>
      /\ turn' \in 1..8
  BY TurnPasses DEF DeleteGraph, IsTurn, trade, RetentionHolds, TradesHold
<1>2. CASE db' = db
  <2>1. EvidenceHolds'
    BY <1>1, <1>2 DEF RetentionHolds, EvidenceHolds
  <2> QED
    BY <1>1, <1>2, <2>1 DEF RetentionHolds, TradesHold, TradesRest
<1>3. ASSUME NEW c, GraphFree(c),
             db' = [db EXCEPT !.graphs = [q \in DOMAIN db.graphs \ {c} |-> db.graphs[q]]]
      PROVE  RetentionHolds'
  <2>1. RowsHold(db') /\ WholeBut(db', {}) /\ DOMAIN db'.graphs = DOMAIN db.graphs \ {c}
    BY <1>3, GraphGone DEF RetentionHolds, EvidenceHolds
  <2>2. c \in Candidates
    BY <1>3 DEF GraphFree, RetentionHolds, EvidenceHolds, RowsHold, GraphRowsOf
  <2>3. entering[c] \notin {"open", "committed"} /\ c \notin observing
    BY <1>3, <2>2 DEF GraphFree, Entered, PendingWindow
  <2>4. TradesRest'
    BY <1>1, <2>1, <2>3 DEF RetentionHolds, TradesHold, TradesRest
  <2> QED
    BY <1>1, <2>1, <2>4 DEF RetentionHolds, EvidenceHolds, TradesHold
<1>4. \/ db' = db
      \/ \E c : GraphFree(c)
           /\ db' = [db EXCEPT !.graphs = [q \in DOMAIN db.graphs \ {c} |-> db.graphs[q]]]
  BY DEF DeleteGraph
<1> QED
  BY <1>2, <1>3, <1>4

LEMMA CompactHolds == ASSUME RetentionHolds, CompactJournal PROVE RetentionHolds'
<1>1. EvidenceHolds'
  BY DEF CompactJournal, evidenceVars, RetentionHolds, EvidenceHolds, BundleHolds
<1>2. turn' \in 1..8
  BY TurnPasses DEF CompactJournal, RetentionHolds, TradesHold
<1>3. journal' \in [Candidates -> CommandStates]
  BY DEF CompactJournal, CommandStates, RetentionHolds, TradesHold
<1> QED
  BY <1>1, <1>2, <1>3
  DEF CompactJournal, evidenceVars, RetentionHolds, TradesHold, TradesRest

LEMMA DeleteRawHolds ==
  ASSUME RetentionHolds, NEW kind \in {"age", "cap"}, DeleteRaw(kind)
  PROVE  RetentionHolds'
<1>1. /\ tx = NoTx /\ tx' = tx /\ UNCHANGED <<journal, entering, observing, cutoff>>
      /\ turn' \in 1..8 /\ IsTurn(kind) /\ turn \in 1..8
  BY TurnPasses DEF DeleteRaw, IsTurn, trade, RetentionHolds, TradesHold
<1> PICK kept : kept = Steps[turn][2]
  OBVIOUS
<1>2. kept \in {"cex", "book", "event"}
  BY <1>1, RawTables
<1>3. PICK gone : /\ db' = Without(kept, gone)
                  /\ \A r \in gone : ~Linked(kept, r)
  <2>1. PICK gone \in OldestOf(kept, IF kind = "age" THEN Aged(kept) ELSE OverCap(kept)) :
          db' = Without(kept, gone)
    BY DEF DeleteRaw
  <2>2. gone \subseteq (IF kind = "age" THEN Aged(kept) ELSE OverCap(kept))
    BY DEF OldestOf
  <2>3. \A r \in gone : ~Linked(kept, r)
    BY <2>2 DEF Aged, OverCap
  <2> QED
    BY <2>1, <2>3
<1>4. RowsHold(db) /\ WholeBut(db, {})
  BY DEF RetentionHolds, EvidenceHolds
<1>5. RowsHold(db') /\ WholeBut(db', {}) /\ db'.graphs = db.graphs
  <2>1. CASE kept = "cex"
    <3>1. PICK left : /\ left = [o \in DOMAIN db.obs \ gone |->
                                    [db.obs[o] EXCEPT !.after = @ \ gone]]
                      /\ db' = [db EXCEPT !.obs = left]
      BY <1>3, <2>1 DEF Without
    <3>2. \A c \in DOMAIN db.graphs : \A o \in db.graphs[c].cex : o \notin gone
      BY <1>3, <2>1 DEF Linked, Of
    <3>3. /\ AsRows(left)
          /\ \A o : o \in DOMAIN left <=> o \in DOMAIN db.obs /\ o \notin gone
      BY <3>1 DEF AsRows
    <3>4. \A o \in DOMAIN left : IsObsRow(left[o]) /\ left[o].sourced = db.obs[o].sourced
      <4> SUFFICES ASSUME NEW o \in DOMAIN left
                   PROVE  IsObsRow(left[o]) /\ left[o].sourced = db.obs[o].sourced
        OBVIOUS
      <4> DEFINE r == db.obs[o]
      <4>1. IsObsRow(r)
        BY <1>4, <3>3 DEF RowsHold, ObsRows
      <4>2. left[o] = [r EXCEPT !.after = r.after \ gone]
        BY <3>1
      <4> HIDE DEF r
      <4>3. left[o] = [class |-> r.class, sourced |-> r.sourced, after |-> r.after \ gone]
        BY <4>1, <4>2 DEF IsObsRow
      <4> QED
        BY <4>3 DEF IsObsRow, r
    <3>5. ObsLeft(db, gone, left)
      BY <3>3, <3>4 DEF ObsLeft
    <3> QED
      BY <1>4, <3>1, <3>2, <3>5, ObsGone
  <2>2. CASE kept = "book"
    <3>1. db' = [db EXCEPT !.snaps = [k \in DOMAIN db.snaps \ gone |-> db.snaps[k]]]
      BY <1>3, <2>2 DEF Without
    <3>2. \A c \in DOMAIN db.graphs : \A k \in db.graphs[c].books : k \notin gone
      BY <1>3, <2>2 DEF Linked, Of
    <3> QED
      BY <1>4, <3>1, <3>2, SnapsGone
  <2>3. CASE kept = "event"
    <3>1. db' = [db EXCEPT !.events = [e \in DOMAIN db.events \ gone |-> db.events[e]]]
      BY <1>3, <2>3 DEF Without
    <3>2. \A c \in DOMAIN db.graphs : db.graphs[c].trigger \notin gone
      BY <1>3, <2>3 DEF Linked, Of
    <3>3. \A o \in DOMAIN db.obs : db.obs[o].sourced => ObsOf[o].event \notin gone
      BY <1>3, <2>3 DEF Linked
    <3> QED
      BY <1>4, <3>1, <3>2, <3>3, EventsGone
  <2> QED
    BY <1>2, <2>1, <2>2, <2>3
<1> QED
  BY <1>1, <1>5 DEF RetentionHolds, EvidenceHolds, TradesHold, TradesRest

LEMMA RetentionStepHolds ==
  ASSUME RetentionHolds, RetentionNext PROVE RetentionHolds'
  BY SubmitHolds, WritesHold, AgeHolds, DeleteGraphHolds, CompactHolds, DeleteRawHolds
  DEF RetentionNext, RetentionStep

LEMMA RetentionStarts == ASSUME RetentionInit PROVE RetentionHolds
  BY EvidenceStarts, RetentionAssumption
  DEF RetentionInit, EvidenceInit, EmptyTables, RetentionHolds, TradesHold, TradesRest, CommandStates

-----------------------------------------------------------------------------
(* The evidence as it is kept *)

EvidenceLasts == [subject = "evidence" => RowsStand]_evidenceVars

LEMMA RowsStandWhen ==
  ASSUME EvidenceHolds, EvidenceHolds', Stands(db, db') PROVE RowsStand
<1>1. EventRows(db) /\ EventRows(db')
  BY DEF EvidenceHolds, RowsHold
<1>2. \A e \in DOMAIN db.events : e \in DOMAIN db'.events /\
        [db'.events[e] EXCEPT !.dups = 0] = [db.events[e] EXCEPT !.dups = 0]
  BY <1>1, StandsRows
<1> QED
  BY <1>2 DEF RowsStand, Stands

LEMMA EvidenceInduction ==
  ASSUME RetentionHolds, [MCNext]_rowsVars PROVE RetentionHolds' /\ EvidenceLasts
<1>1. CASE UNCHANGED retentionVars
  BY <1>1 DEF retentionVars, evidenceVars, trade, RetentionHolds, EvidenceHolds, BundleHolds,
              TradesHold, TradesRest, EvidenceLasts
<1>2. CASE OfEvidence(EvidenceNext)
  <2>1. EvidenceHolds' /\ Stands(db, db') /\ UNCHANGED <<journal, entering, observing, cutoff, turn>>
    BY <1>2, EvidenceStepHolds DEF OfEvidence, RetentionHolds, trade
  <2>2. TradesHold'
    BY <2>1 DEF RetentionHolds, TradesHold, TradesRest, Stands
  <2>3. RowsStand
    BY <2>1, RowsStandWhen DEF RetentionHolds
  <2> QED
    BY <2>1, <2>2, <2>3 DEF RetentionHolds, EvidenceLasts
<1>3. CASE OfRetention(RetentionNext)
  <2>1. RetentionHolds'
    BY <1>3, RetentionStepHolds DEF OfRetention
  <2>2. subject # "evidence"
    BY <1>3 DEF OfRetention
  <2> QED
    BY <2>1, <2>2 DEF EvidenceLasts
<1> QED
  BY <1>1, <1>2, <1>3
  DEF MCNext, OfStore, OfSchema, OfStatus, OfExport, rowsVars, retentionVars

LEMMA RetentionImplies ==
  ASSUME RetentionHolds PROVE EvidenceInv /\ RetentionSound
<1>1. EvidenceInv
  BY HoldsImplies DEF RetentionHolds
<1>2. Len(Steps) = 8
  BY DEF Steps
<1> QED
  BY <1>1, <1>2 DEF EvidenceInv, RetentionHolds, TradesHold, RetentionSound, TypeOKRetention,
                    LineageKept

\* What the store keeps of the evidence is whole and in order, at every commit of
\* telemetry and of the writer's bundles; a bundle that fails leaves nothing, one run
\* again changes nothing, a stored row keeps its verdict; and retention takes no row
\* that a graph, an entry or a maker observation still rests on.
THEOREM EvidenceSoundness == MCSpec => EvidenceSound
<1>1. MCInit => RetentionHolds
  BY RetentionStarts DEF MCInit
<1>2. RetentionHolds /\ [MCNext]_rowsVars => RetentionHolds' /\ EvidenceLasts
  BY EvidenceInduction
<1>3. RetentionHolds => /\ subject \in {"evidence", "retention"} => EvidenceInv
                        /\ subject = "retention" => RetentionSound
  BY RetentionImplies
<1> QED
  BY <1>1, <1>2, <1>3, PTL DEF MCSpec, EvidenceSound, EvidenceLasts

-----------------------------------------------------------------------------
(***************************************************************************)
(* The counts of source events                                             *)
(***************************************************************************)

LEMMA CountNat == ASSUME NEW B, IsABag(B), NEW k PROVE CountIn(k, B) \in Nat
  BY DEF IsABag, CountIn

LEMMA BagPlus ==
  ASSUME NEW A, IsABag(A), NEW B, IsABag(B), NEW C, C = A (+) B
  PROVE  /\ IsABag(C)
         /\ \A k : k \in DOMAIN C <=> k \in DOMAIN A \/ k \in DOMAIN B
         /\ \A k : CountIn(k, C) = CountIn(k, A) + CountIn(k, B)
<1>1. DOMAIN C = DOMAIN A \cup DOMAIN B
  BY DEF (+)
<1>2. ASSUME NEW k \in DOMAIN C PROVE C[k] = CountIn(k, A) + CountIn(k, B)
  BY <1>1, <1>2 DEF (+), CountIn
<1>3. ASSUME NEW k \in DOMAIN C PROVE C[k] \in Nat /\ C[k] > 0
  <2>1. CountIn(k, A) \in Nat /\ CountIn(k, B) \in Nat
    BY CountNat
  <2>2. CountIn(k, A) > 0 \/ CountIn(k, B) > 0
    BY <1>1 DEF CountIn, IsABag
  <2> QED
    BY <2>1, <2>2, <1>2
<1>4. C = [k \in DOMAIN C |-> C[k]]
  BY DEF (+)
<1>5. IsABag(C)
  BY <1>3, <1>4 DEF IsABag
<1>6. ASSUME NEW k PROVE CountIn(k, C) = CountIn(k, A) + CountIn(k, B)
  <2>1. CASE k \in DOMAIN C
    BY <2>1, <1>2 DEF CountIn
  <2>2. CASE k \notin DOMAIN C
    BY <2>2, <1>1 DEF CountIn
  <2> QED
    BY <2>1, <2>2
<1> QED
  BY <1>1, <1>5, <1>6


\* Elements that count nothing can be left out of a sum.
LEMMA SumOverLess ==
  ASSUME NEW S, IsFiniteSet(S), NEW T, T \subseteq S, NEW f,
         \A x \in S : f[x] \in Int /\ (x \notin T => f[x] = 0)
  PROVE  SumFunctionOnSet(f, S) = SumFunctionOnSet(f, T)
<1> DEFINE Bad == {V \in SUBSET S : T \subseteq V
                     /\ SumFunctionOnSet(f, V) # SumFunctionOnSet(f, T)}
<1> SUFFICES ASSUME Bad # {} PROVE FALSE
  OBVIOUS
<1>1. PICK V \in Bad : \A W \in Bad : W \subseteq V => W = V
  <2>1. Bad \subseteq SUBSET S
    OBVIOUS
  <2> HIDE DEF Bad
  <2> QED
    BY <2>1, LeastSubset
<1>2. V # T /\ T \subseteq V /\ V \in SUBSET S
  OBVIOUS
<1>3. PICK x \in V : x \notin T
  BY <1>2
<1>4. V \ {x} \in SUBSET S /\ T \subseteq V \ {x} /\ V \ {x} # V
  BY <1>2, <1>3
<1>5. V \ {x} \notin Bad
  BY <1>1, <1>4
<1>6. SumFunctionOnSet(f, V \ {x}) = SumFunctionOnSet(f, T)
  BY <1>4, <1>5
<1>7. IsFiniteSet(V) /\ IsFiniteSet(V \ {x})
  BY <1>2, <1>4, FS_Subset
<1>8. f[x] = 0 /\ \A y \in V : f[y] \in Int
  BY <1>2, <1>3
<1>9. SumFunctionOnSet(f, V) = f[x] + SumFunctionOnSet(f, V \ {x})
  BY <1>7, <1>8, SumWithout
<1>10. SumFunctionOnSet(f, V \ {x}) \in Int
  BY <1>7, <1>8, SumType
<1> QED
  BY <1>1, <1>6, <1>8, <1>9, <1>10

\* A sum over what a bag holds of a set is the sum of its counts over the set.
LEMMA SumOfCounts ==
  ASSUME NEW U, IsFiniteSet(U), NEW B, IsABag(B), DOMAIN B \subseteq U, NEW K, K \subseteq U,
         NEW D, \A k : k \in D <=> k \in K /\ k \in DOMAIN B,
         NEW f, f = [k \in U |-> CountIn(k, B)]
  PROVE  SumFunctionOnSet(B, D) = SumFunctionOnSet(f, K)
<1>1. IsFiniteSet(K) /\ IsFiniteSet(D)
  <2>1. K \in SUBSET U /\ D \in SUBSET U
    OBVIOUS
  <2> QED
    BY <2>1, FS_Subset
<1>2. \A k \in D : B[k] = f[k]
  BY DEF CountIn
<1>3. SumFunctionOnSet(B, D) = SumFunctionOnSet(f, D)
  BY <1>1, <1>2, SumAgrees
<1>4. \A k \in K : f[k] \in Int /\ (k \notin D => f[k] = 0)
  BY CountNat DEF CountIn
<1>5. SumFunctionOnSet(f, K) = SumFunctionOnSet(f, D)
  <2>1. D \subseteq K
    OBVIOUS
  <2> HIDE DEF CountIn
  <2> QED
    BY <1>1, <1>4, <2>1, SumOverLess
<1> QED
  BY <1>3, <1>5

\* Sums add, by values and by disjoint sets.
LEMMA SumOfBoth ==
  ASSUME NEW S, IsFiniteSet(S), NEW f, NEW g, NEW h,
         \A x \in S : f[x] \in Int /\ g[x] \in Int /\ h[x] = f[x] + g[x]
  PROVE  SumFunctionOnSet(h, S) = SumFunctionOnSet(f, S) + SumFunctionOnSet(g, S)
<1> DEFINE Bad == {V \in SUBSET S :
              SumFunctionOnSet(h, V) # SumFunctionOnSet(f, V) + SumFunctionOnSet(g, V)}
<1> SUFFICES ASSUME Bad # {} PROVE FALSE
  OBVIOUS
<1>1. PICK V \in Bad : \A W \in Bad : W \subseteq V => W = V
  <2>1. Bad \subseteq SUBSET S
    OBVIOUS
  <2> HIDE DEF Bad
  <2> QED
    BY <2>1, LeastSubset
<1>2. V # {}
  <2>1. SumFunctionOnSet(h, {}) = SumFunctionOnSet(f, {}) + SumFunctionOnSet(g, {})
    BY SumEmpty
  <2> QED
    BY <1>1, <2>1
<1>3. PICK x \in V : TRUE
  BY <1>2
<1>4. V \ {x} \in SUBSET S /\ V \ {x} # V
  BY <1>3
<1>5. V \ {x} \notin Bad
  BY <1>1, <1>4
<1>6. SumFunctionOnSet(h, V \ {x})
        = SumFunctionOnSet(f, V \ {x}) + SumFunctionOnSet(g, V \ {x})
  BY <1>4, <1>5
<1>7. IsFiniteSet(V) /\ IsFiniteSet(V \ {x})
  BY <1>4, FS_Subset
<1>8. /\ \A y \in V : f[y] \in Int /\ g[y] \in Int /\ h[y] \in Int
      /\ h[x] = f[x] + g[x] /\ f[x] \in Int /\ g[x] \in Int
  BY <1>3
<1>9. /\ SumFunctionOnSet(f, V) = f[x] + SumFunctionOnSet(f, V \ {x})
      /\ SumFunctionOnSet(g, V) = g[x] + SumFunctionOnSet(g, V \ {x})
      /\ SumFunctionOnSet(h, V) = h[x] + SumFunctionOnSet(h, V \ {x})
  BY <1>3, <1>7, <1>8, SumWithout
<1>10. SumFunctionOnSet(f, V \ {x}) \in Int /\ SumFunctionOnSet(g, V \ {x}) \in Int
  BY <1>7, <1>8, SumType
<1>11. SumFunctionOnSet(h, V) # SumFunctionOnSet(f, V) + SumFunctionOnSet(g, V)
  BY <1>1
<1> HIDE DEF Bad
<1> QED
  BY <1>6, <1>8, <1>9, <1>10, <1>11

LEMMA SumApart ==
  ASSUME NEW S, IsFiniteSet(S), NEW T, IsFiniteSet(T), S \cap T = {}, NEW f,
         \A x \in S \cup T : f[x] \in Int
  PROVE  SumFunctionOnSet(f, S \cup T) = SumFunctionOnSet(f, S) + SumFunctionOnSet(f, T)
<1> DEFINE U == S \cup T
           g == [x \in U |-> IF x \in S THEN f[x] ELSE 0]
           h == [x \in U |-> IF x \in T THEN f[x] ELSE 0]
<1>1. IsFiniteSet(U)
  BY FS_Union
<1>2. \A x \in U : g[x] \in Int /\ h[x] \in Int /\ f[x] = g[x] + h[x]
  OBVIOUS
<1>3. S \subseteq U /\ T \subseteq U
  OBVIOUS
<1>4. /\ \A x \in U : x \notin S => g[x] = 0
      /\ \A x \in U : x \notin T => h[x] = 0
      /\ \A x \in S : g[x] = f[x]
      /\ \A x \in T : h[x] = f[x]
  OBVIOUS
<1> HIDE DEF U, g, h
<1>5. SumFunctionOnSet(f, U) = SumFunctionOnSet(g, U) + SumFunctionOnSet(h, U)
  BY <1>1, <1>2, SumOfBoth
<1>6. SumFunctionOnSet(g, U) = SumFunctionOnSet(g, S)
  BY <1>1, <1>2, <1>3, <1>4, SumOverLess
<1>7. SumFunctionOnSet(h, U) = SumFunctionOnSet(h, T)
  BY <1>1, <1>2, <1>3, <1>4, SumOverLess
<1>8. SumFunctionOnSet(g, S) = SumFunctionOnSet(f, S)
  BY <1>4, SumAgrees
<1>9. SumFunctionOnSet(h, T) = SumFunctionOnSet(f, T)
  BY <1>4, SumAgrees
<1> QED
  BY <1>5, <1>6, <1>7, <1>8, <1>9 DEF U

\* What a function maps to a value
Fibre(U, m, k) == {q \in U : m[q] = k}

\* A sum can be taken by the images of its elements.
LEMMA SumFibres ==
  ASSUME NEW S, IsFiniteSet(S), NEW U, IsFiniteSet(U), NEW m, \A q \in U : m[q] \in S,
         NEW f, \A q \in U : f[q] \in Int,
         NEW g, \A k \in S : g[k] = SumFunctionOnSet(f, Fibre(U, m, k))
  PROVE  SumFunctionOnSet(g, S) = SumFunctionOnSet(f, U)
<1> DEFINE Part(V) == [k \in S |-> SumFunctionOnSet(f, {q \in V : m[q] = k})]
           Bad == {V \in SUBSET U : SumFunctionOnSet(Part(V), S) # SumFunctionOnSet(f, V)}
<1>1. Bad = {}
  <2> SUFFICES ASSUME Bad # {} PROVE FALSE
    OBVIOUS
  <2>1. PICK V \in Bad : \A W \in Bad : W \subseteq V => W = V
    <3>1. Bad \subseteq SUBSET U
      OBVIOUS
    <3> HIDE DEF Bad
    <3> QED
      BY <3>1, LeastSubset
  <2>v. V \in SUBSET U /\ SumFunctionOnSet(Part(V), S) # SumFunctionOnSet(f, V)
    OBVIOUS
  <2>w. \A W \in SUBSET U : W \subseteq V /\ W # V =>
          SumFunctionOnSet(Part(W), S) = SumFunctionOnSet(f, W)
    BY <2>1
  <2> HIDE DEF Bad
  <2>2. V # {}
    <3> SUFFICES ASSUME V = {} PROVE FALSE
      OBVIOUS
    <3>1. \A k \in S : Part({})[k] = 0
      <4> TAKE k \in S
      <4>1. {q \in {} : m[q] = k} = {}
        OBVIOUS
      <4> QED
        BY <4>1, SumEmpty
    <3> DEFINE p == Part({})
    <3>2. \A k \in S : p[k] = 0
      BY <3>1
    <3> HIDE DEF p
    <3>3. SumFunctionOnSet(p, S) = 0
      BY <3>2, SumZero
    <3>4. SumFunctionOnSet(f, {}) = 0
      BY SumEmpty
    <3> QED
      BY <2>v, <3>3, <3>4 DEF p
  <2>3. PICK x \in V : TRUE
    BY <2>2
  <2> DEFINE W == V \ {x}
             w == m[x]
  <2>4. W \in SUBSET U /\ W \subseteq V /\ W # V /\ x \in U /\ w \in S
    BY <2>v, <2>3
  <2>5. SumFunctionOnSet(Part(W), S) = SumFunctionOnSet(f, W)
    BY <2>w, <2>4
  <2>6. IsFiniteSet(V) /\ IsFiniteSet(W)
    BY <2>v, <2>4, FS_Subset
  <2>7. \A k \in S \ {w} : {q \in V : m[q] = k} = {q \in W : m[q] = k}
    OBVIOUS
  <2>8. \A k \in S \ {w} : Part(V)[k] = Part(W)[k]
    BY <2>7
  <2>9. /\ {q \in V : m[q] = w} = {q \in W : m[q] = w} \cup {x}
        /\ x \notin {q \in W : m[q] = w}
    BY <2>3
  <2>10. \A T \in SUBSET U : IsFiniteSet(T) /\ SumFunctionOnSet(f, T) \in Int
    <3> TAKE T \in SUBSET U
    <3>1. IsFiniteSet(T) /\ \A q \in T : f[q] \in Int
      BY FS_Subset
    <3> QED
      BY <3>1, SumType
  <2>11. Part(V)[w] = f[x] + Part(W)[w]
    <3> DEFINE T == {q \in W : m[q] = w}
    <3>1. T \in SUBSET U /\ x \notin T /\ \A q \in T \cup {x} : f[q] \in Int
      BY <2>4
    <3>2. IsFiniteSet(T)
      BY <3>1, <2>10
    <3>3. Part(V)[w] = SumFunctionOnSet(f, T \cup {x}) /\ Part(W)[w] = SumFunctionOnSet(f, T)
      BY <2>4, <2>9
    <3> HIDE DEF T, Part
    <3>4. SumFunctionOnSet(f, T \cup {x}) = f[x] + SumFunctionOnSet(f, T)
      BY <3>1, <3>2, SumWith
    <3> QED
      BY <3>3, <3>4
  <2>12. \A k \in S : Part(V)[k] \in Int /\ Part(W)[k] \in Int
    <3> TAKE k \in S
    <3>1. {q \in V : m[q] = k} \in SUBSET U /\ {q \in W : m[q] = k} \in SUBSET U
      BY <2>v, <2>4
    <3> QED
      BY <3>1, <2>10
  <2> DEFINE F == Part(V)
             G == Part(W)
  <2>13. /\ \A k \in S : F[k] \in Int /\ G[k] \in Int
         /\ \A k \in S \ {w} : F[k] = G[k]
         /\ F[w] = f[x] + G[w] /\ G[w] \in Int
         /\ SumFunctionOnSet(G, S) = SumFunctionOnSet(f, W)
         /\ SumFunctionOnSet(F, S) # SumFunctionOnSet(f, V)
    BY <2>v, <2>4, <2>5, <2>8, <2>11, <2>12
  <2>14. f[x] \in Int /\ SumFunctionOnSet(f, W) \in Int
    BY <2>4, <2>10
  <2>15. SumFunctionOnSet(f, V) = f[x] + SumFunctionOnSet(f, W)
    <3>1. \A q \in V : f[q] \in Int
      BY <2>v
    <3> QED
      BY <2>3, <2>6, <3>1, SumWithout
  <2> HIDE DEF F, G, W, w, Part
  <2>16. SumFunctionOnSet(F, S) = SumFunctionOnSet(G, S) - G[w] + F[w]
    BY <2>4, <2>13, SumChanges
  <2> QED
    BY <2>13, <2>14, <2>15, <2>16
<1>2. SumFunctionOnSet(Part(U), S) = SumFunctionOnSet(f, U)
  BY <1>1
<1>3. \A k \in S : Part(U)[k] = g[k]
  BY DEF Fibre
<1> DEFINE p == Part(U)
<1> HIDE DEF Part, Bad
<1>4. \A k \in S : p[k] = g[k]
  BY <1>3 DEF Part
<1>5. SumFunctionOnSet(p, S) = SumFunctionOnSet(f, U)
  BY <1>2
<1> HIDE DEF p
<1>6. SumFunctionOnSet(g, S) = SumFunctionOnSet(p, S)
  BY <1>4, SumAgrees
<1> QED
  BY <1>5, <1>6

-----------------------------------------------------------------------------
(* Rows and chunks of list *)

IsRows(list) ==
  /\ list \in Seq(BucketRows)
  /\ \A i, j \in DOMAIN list : list[i].key = list[j].key => i = j

\* What list and chunks of list count of a key
InRows(list, k) == CountIn(k, BagOf(list))
InChunks(X, k) == CountIn(k, EventsIn(X))

LEMMA RowsAre ==
  ASSUME NEW list, list \in Seq(BucketRows)
  PROVE  /\ Len(list) \in Nat /\ DOMAIN list = 1..Len(list)
         /\ RowKeys(list) \subseteq CountKeys
         /\ \A i \in DOMAIN list :
              /\ list[i] \in BucketRows /\ list[i].key \in RowKeys(list)
              /\ list[i].n \in Nat /\ list[i].n > 0
         /\ \A k \in RowKeys(list) : \E i \in DOMAIN list : list[i].key = k
<1>1. Len(list) \in Nat /\ DOMAIN list = 1..Len(list)
      /\ \A i \in DOMAIN list : list[i] \in BucketRows
  OBVIOUS
<1>2. \A r \in BucketRows : r.key \in CountKeys /\ r.n \in Nat /\ r.n > 0
  BY DEF BucketRows
<1> HIDE DEF BucketRows
<1>3. \A k : k \in RowKeys(list) <=> \E i \in DOMAIN list : list[i].key = k
  BY DEF RowKeys
<1>4. RowKeys(list) \subseteq CountKeys
  BY <1>1, <1>2, <1>3
<1> QED
  BY <1>1, <1>2, <1>3, <1>4

LEMMA CountsOfRows ==
  ASSUME NEW list, IsRows(list)
  PROVE  /\ IsABag(BagOf(list)) /\ DOMAIN BagOf(list) = RowKeys(list)
         /\ \A i \in DOMAIN list : InRows(list, list[i].key) = list[i].n
         /\ \A k : InRows(list, k) \in Nat
         /\ \A k : k \notin RowKeys(list) <=> InRows(list, k) = 0
<1>1. /\ list \in Seq(BucketRows)
      /\ \A i, j \in DOMAIN list : list[i].key = list[j].key => i = j
  BY DEF IsRows
<1> HIDE DEF BucketRows
<1>2. /\ \A i \in DOMAIN list : list[i].n \in Nat /\ list[i].n > 0 /\ list[i].key \in RowKeys(list)
      /\ \A k \in RowKeys(list) : \E i \in DOMAIN list : list[i].key = k
  BY <1>1, RowsAre
<1>3. DOMAIN BagOf(list) = RowKeys(list)
  BY DEF BagOf
<1>4. ASSUME NEW i \in DOMAIN list PROVE BagOf(list)[list[i].key] = list[i].n
  <2> DEFINE k == list[i].key
             All == {list[j] : j \in DOMAIN list}
             r == CHOOSE r \in All : r.key = k
  <2>1. list[i] \in All /\ list[i].key = k
    OBVIOUS
  <2>2. r \in All /\ r.key = k
    <3> HIDE DEF All, k
    <3> QED
      BY <2>1
  <2>3. PICK j \in DOMAIN list : r = list[j]
    BY <2>2
  <2>4. j = i
    BY <1>1, <2>2, <2>3
  <2>5. BagOf(list)[k] = r.n
    BY <1>2 DEF BagOf
  <2> HIDE DEF r
  <2> QED
    BY <2>3, <2>4, <2>5
<1>5. ASSUME NEW k \in RowKeys(list) PROVE BagOf(list)[k] \in Nat /\ BagOf(list)[k] > 0
  BY <1>2, <1>4, <1>5
<1>6. BagOf(list) = [k \in DOMAIN BagOf(list) |-> BagOf(list)[k]]
  BY DEF BagOf
<1>7. IsABag(BagOf(list))
  BY <1>3, <1>5, <1>6 DEF IsABag
<1>8. \A i \in DOMAIN list : InRows(list, list[i].key) = list[i].n
  BY <1>2, <1>3, <1>4 DEF InRows, CountIn
<1>9. \A k : InRows(list, k) \in Nat
  BY <1>7, CountNat DEF InRows
<1>10. \A k : k \notin RowKeys(list) <=> InRows(list, k) = 0
  <2> TAKE k
  <2>1. CASE k \in RowKeys(list)
    <3>1. BagOf(list)[k] # 0
      BY <1>5, <2>1
    <3> QED
      BY <3>1, <2>1, <1>3 DEF InRows, CountIn
  <2>2. CASE k \notin RowKeys(list)
    BY <2>2, <1>3 DEF InRows, CountIn
  <2> QED
    BY <2>1, <2>2
<1> QED
  BY <1>3, <1>7, <1>8, <1>9, <1>10

AreChunks(X) == IsFiniteSet(X) /\ \A c \in X : IsRows(c)

PerChunk(X, k) == [c \in X |-> InRows(c, k)]

LEMMA CountsOfChunks ==
  ASSUME NEW X, AreChunks(X)
  PROVE  /\ IsABag(EventsIn(X)) /\ DOMAIN EventsIn(X) \subseteq CountKeys
         /\ \A k : InChunks(X, k) = SumFunctionOnSet(PerChunk(X, k), X)
         /\ \A k : InChunks(X, k) \in Nat
<1>1. DOMAIN EventsIn(X) = UNION {RowKeys(c) : c \in X}
  BY DEF EventsIn
<1>2. DOMAIN EventsIn(X) \subseteq CountKeys
  <2>1. \A c \in X : RowKeys(c) \subseteq CountKeys
    BY RowsAre DEF AreChunks, IsRows
  <2> QED
    BY <1>1, <2>1
<1>3. ASSUME NEW k
      PROVE  /\ k \in DOMAIN EventsIn(X) => EventsIn(X)[k] = SumFunctionOnSet(PerChunk(X, k), X)
             /\ SumFunctionOnSet(PerChunk(X, k), X) \in Nat
             /\ k \in DOMAIN EventsIn(X) => SumFunctionOnSet(PerChunk(X, k), X) > 0
             /\ k \notin DOMAIN EventsIn(X) => SumFunctionOnSet(PerChunk(X, k), X) = 0
  <2> DEFINE f == PerChunk(X, k)
  <2>1. \A c \in X : f[c] = InRows(c, k) /\ f[c] \in Nat /\ (f[c] = 0 <=> k \notin RowKeys(c))
    BY CountsOfRows DEF PerChunk, AreChunks
  <2>2. IsFiniteSet(X)
    BY DEF AreChunks
  <2>3. k \in DOMAIN EventsIn(X) <=> \E c \in X : k \in RowKeys(c)
    BY <1>1
  <2>4. k \in DOMAIN EventsIn(X) => EventsIn(X)[k] = SumFunctionOnSet(f, X)
    BY <1>1 DEF EventsIn, PerChunk, InRows
  <2> HIDE DEF f
  <2>5. SumFunctionOnSet(f, X) \in Nat
    BY <2>1, <2>2, SumNat
  <2>6. ASSUME k \in DOMAIN EventsIn(X) PROVE SumFunctionOnSet(f, X) > 0
    <3>1. PICK c \in X : k \in RowKeys(c)
      BY <2>3, <2>6
    <3>2. f[c] \in Nat /\ f[c] > 0
      BY <2>1, <3>1
    <3>3. IsFiniteSet(X \ {c}) /\ \A d \in X \ {c} : f[d] \in Nat
      BY <2>1, <2>2, FS_Subset
    <3>4. SumFunctionOnSet(f, X \ {c}) \in Nat
      BY <3>3, SumNat
    <3>5. \A d \in X : f[d] \in Int
      BY <2>1
    <3>6. SumFunctionOnSet(f, X) = f[c] + SumFunctionOnSet(f, X \ {c})
      BY <2>2, <3>5, SumWithout
    <3> QED
      BY <3>2, <3>4, <3>6
  <2>7. ASSUME k \notin DOMAIN EventsIn(X) PROVE SumFunctionOnSet(f, X) = 0
    <3>1. \A c \in X : f[c] = 0
      BY <2>1, <2>3, <2>7
    <3> QED
      BY <2>2, <3>1, SumZero
  <2> QED
    BY <2>4, <2>5, <2>6, <2>7 DEF f
<1>4. \A k : InChunks(X, k) = SumFunctionOnSet(PerChunk(X, k), X)
  BY <1>3 DEF InChunks, CountIn
<1>5. EventsIn(X) = [k \in DOMAIN EventsIn(X) |-> EventsIn(X)[k]]
  BY DEF EventsIn
<1>6. \A k \in DOMAIN EventsIn(X) : EventsIn(X)[k] \in {n \in Nat : n > 0}
  BY <1>3
<1>7. IsABag(EventsIn(X))
  BY <1>5, <1>6 DEF IsABag
<1> QED
  BY <1>2, <1>3, <1>4, <1>7

LEMMA ChunksApart ==
  ASSUME NEW X, AreChunks(X), NEW Y, AreChunks(Y), X \cap Y = {}
  PROVE  /\ AreChunks(X \cup Y)
         /\ \A k : InChunks(X \cup Y, k) = InChunks(X, k) + InChunks(Y, k)
<1>1. IsFiniteSet(X) /\ IsFiniteSet(Y)
  BY DEF AreChunks
<1>2. AreChunks(X \cup Y)
  BY <1>1, FS_Union DEF AreChunks
<1>3. ASSUME NEW k PROVE InChunks(X \cup Y, k) = InChunks(X, k) + InChunks(Y, k)
  <2> DEFINE f == PerChunk(X \cup Y, k)
             g == PerChunk(X, k)
             h == PerChunk(Y, k)
  <2>1. \A c \in X \cup Y : f[c] \in Int
    BY CountsOfRows DEF PerChunk, AreChunks
  <2>2. (\A c \in X : f[c] = g[c]) /\ \A c \in Y : f[c] = h[c]
    BY DEF PerChunk
  <2>3. /\ InChunks(X \cup Y, k) = SumFunctionOnSet(f, X \cup Y)
        /\ InChunks(X, k) = SumFunctionOnSet(g, X) /\ InChunks(Y, k) = SumFunctionOnSet(h, Y)
    BY <1>2, CountsOfChunks
  <2> HIDE DEF f, g, h
  <2>4. SumFunctionOnSet(f, X \cup Y) = SumFunctionOnSet(f, X) + SumFunctionOnSet(f, Y)
    BY <1>1, <2>1, SumApart
  <2>5. SumFunctionOnSet(f, X) = SumFunctionOnSet(g, X)
    BY <1>1, <2>2, SumAgrees
  <2>6. SumFunctionOnSet(f, Y) = SumFunctionOnSet(h, Y)
    BY <1>1, <2>2, SumAgrees
  <2> QED
    BY <2>3, <2>4, <2>5, <2>6
<1> QED
  BY <1>2, <1>3

LEMMA ChunkGone ==
  ASSUME NEW X, AreChunks(X), NEW c \in X
  PROVE  /\ AreChunks(X \ {c})
         /\ \A k : InChunks(X, k) = InRows(c, k) + InChunks(X \ {c}, k)
<1>1. IsFiniteSet(X) /\ IsFiniteSet(X \ {c})
  BY FS_Subset DEF AreChunks
<1>2. AreChunks(X \ {c})
  BY <1>1 DEF AreChunks
<1>3. ASSUME NEW k PROVE InChunks(X, k) = InRows(c, k) + InChunks(X \ {c}, k)
  <2> DEFINE f == PerChunk(X, k)
             g == PerChunk(X \ {c}, k)
  <2>1. \A d \in X : f[d] \in Int
    BY CountsOfRows DEF PerChunk, AreChunks
  <2>2. f[c] = InRows(c, k) /\ \A d \in X \ {c} : f[d] = g[d]
    BY DEF PerChunk
  <2>3. InChunks(X, k) = SumFunctionOnSet(f, X) /\ InChunks(X \ {c}, k) = SumFunctionOnSet(g, X \ {c})
    BY <1>2, CountsOfChunks
  <2> HIDE DEF f, g
  <2>4. SumFunctionOnSet(f, X) = f[c] + SumFunctionOnSet(f, X \ {c})
    BY <1>1, <2>1, SumWithout
  <2>5. SumFunctionOnSet(f, X \ {c}) = SumFunctionOnSet(g, X \ {c})
    BY <1>1, <2>2, SumAgrees
  <2> QED
    BY <2>2, <2>3, <2>4, <2>5
<1> QED
  BY <1>2, <1>3

-----------------------------------------------------------------------------
(* Where the events are *)

CountedEvents == Sources \X Kinds \X Classes

LEMMA KeysAreFinite ==
  /\ IsFiniteSet(Sources) /\ IsFiniteSet(CountedEvents) /\ IsFiniteSet(CountKeys)
  /\ IsFiniteSet(Sources \X Classes)
<1>1. IsFiniteSet(Sources) /\ IsFiniteSet(Range(KindOf))
  <2>1. ASSUME NEW f, DOMAIN f = StreamKeys PROVE IsFiniteSet(Range(f))
    <3> DEFINE g == [x \in StreamKeys |-> f[x]]
    <3>1. g \in [StreamKeys -> Range(f)]
      BY <2>1 DEF Range
    <3>2. \A y \in Range(f) : \E x \in StreamKeys : g[x] = y
      BY <2>1 DEF Range
    <3> HIDE DEF g
    <3>3. g \in Surjection(StreamKeys, Range(f))
      BY <3>1, <3>2 DEF Surjection
    <3> QED
      BY <3>3, CountsAssumption, FS_Surjection
  <2> QED
    BY <2>1, CountsAssumption DEF Sources
<1>2. IsFiniteSet(Kinds)
  BY <1>1, FS_AddElement DEF Kinds
<1>3. IsFiniteSet(Sources \X Classes)
  BY <1>1, CountsAssumption, FS_Product
<1> DEFINE Secs == {Minute} \cup 0..MaxSecond
           Chans == StreamKeys \cup {Aggregated}
           Triples == (Sources \X Kinds) \X Classes
           All == (Secs \X Chans) \X Triples
<1>4. IsFiniteSet(Secs)
  <2>1. IsFiniteSet(0..MaxSecond)
    BY CountsAssumption, FS_Interval
  <2>2. Secs = (0..MaxSecond) \cup {Minute}
    OBVIOUS
  <2> QED
    BY <2>1, <2>2, FS_AddElement
<1>5. IsFiniteSet(Chans)
  BY CountsAssumption, FS_AddElement
<1>6. IsFiniteSet(Triples)
  <2>1. IsFiniteSet(Sources \X Kinds)
    BY <1>1, <1>2, FS_Product
  <2> QED
    BY <2>1, CountsAssumption, FS_Product
<1>7. IsFiniteSet(All)
  <2>1. IsFiniteSet(Secs \X Chans)
    BY <1>4, <1>5, FS_Product
  <2> HIDE DEF Secs, Chans, Triples
  <2> QED
    BY <1>6, <2>1, FS_Product
<1>8. IsFiniteSet(CountedEvents)
  <2> DEFINE f == [e \in CountedEvents |-> <<<<e[1], e[2]>>, e[3]>>]
  <2>1. f \in Injection(CountedEvents, Triples)
    <3>1. f \in [CountedEvents -> Triples]
      BY DEF CountedEvents
    <3>2. \A d, e \in CountedEvents : f[d] = f[e] => d = e
      BY DEF CountedEvents
    <3> HIDE DEF f, Triples
    <3> QED
      BY <3>1, <3>2 DEF Injection, IsInjective
  <2> HIDE DEF f, Triples
  <2> QED
    BY <1>6, <2>1, FS_Injection
<1>9. IsFiniteSet(CountKeys)
  <2> DEFINE f == [k \in CountKeys |-> <<<<k.sec, k.chan>>, <<<<k.source, k.kind>>, k.class>>>>]
  <2>1. f \in [CountKeys -> All]
    BY DEF CountKeys
  <2>2. \A d, e \in CountKeys : f[d] = f[e] => d = e
    <3> SUFFICES ASSUME NEW d \in CountKeys, NEW e \in CountKeys, f[d] = f[e] PROVE d = e
      OBVIOUS
    <3>1. /\ d.sec = e.sec /\ d.chan = e.chan /\ d.source = e.source /\ d.kind = e.kind
          /\ d.class = e.class
      OBVIOUS
    <3> HIDE DEF f
    <3> QED
      BY <3>1 DEF CountKeys
  <2> HIDE DEF f, All
  <2>3. f \in Injection(CountKeys, All)
    BY <2>1, <2>2 DEF Injection, IsInjective
  <2> QED
    BY <1>7, <2>3, FS_Injection
<1> QED
  BY <1>1, <1>3, <1>8, <1>9

IsKeyBag(B) == IsABag(B) /\ DOMAIN B \subseteq CountKeys

CountsTyped ==
  /\ second \in 0..MaxSecond /\ counting \in BOOLEAN
  /\ IsRows(buffer)
  /\ AreChunks(lane) /\ (\A c \in recognised : IsRows(c)) /\ lane \subseteq recognised
  /\ IsKeyBag(table) /\ IsKeyBag(lost) /\ IsKeyBag(merged)
  /\ IsABag(arrived) /\ DOMAIN arrived \subseteq CountedEvents

\* How often a key is counted anywhere
Copies(k) ==
  InRows(buffer, k) + InChunks(lane, k) + CountIn(k, table) + CountIn(k, lost)
    + CountIn(k, merged)

LEMMA PlusKeyBag ==
  ASSUME NEW A, IsKeyBag(A), NEW B, IsKeyBag(B), NEW C, C = A (+) B
  PROVE  IsKeyBag(C) /\ \A k : CountIn(k, C) = CountIn(k, A) + CountIn(k, B)
<1>1. IsABag(A) /\ IsABag(B) /\ DOMAIN A \subseteq CountKeys /\ DOMAIN B \subseteq CountKeys
  BY DEF IsKeyBag
<1>2. IsABag(C)
  BY <1>1, BagPlus
<1>3. \A k : k \in DOMAIN C => k \in DOMAIN A \/ k \in DOMAIN B
  BY <1>1, BagPlus
<1>4. ASSUME NEW k PROVE CountIn(k, C) = CountIn(k, A) + CountIn(k, B)
  BY <1>1, BagPlus
<1> QED
  BY <1>1, <1>2, <1>3, <1>4 DEF IsKeyBag

LEMMA EverywhereCounts ==
  ASSUME CountsTyped
  PROVE  IsKeyBag(Everywhere) /\ \A k : CountIn(k, Everywhere) = Copies(k) /\ Copies(k) \in Nat
<1> DEFINE A == BagOf(buffer)
           B == EventsIn(lane)
           D == A (+) B
           E == D (+) table
           F == E (+) lost
<1>1. IsKeyBag(A) /\ \A k : CountIn(k, A) = InRows(buffer, k)
  BY CountsOfRows, RowsAre DEF CountsTyped, InRows, IsKeyBag, IsRows
<1>2. IsKeyBag(B) /\ \A k : CountIn(k, B) = InChunks(lane, k)
  BY CountsOfChunks DEF CountsTyped, InChunks, IsKeyBag
<1>3. IsKeyBag(table) /\ IsKeyBag(lost) /\ IsKeyBag(merged)
  BY DEF CountsTyped
<1>0. Everywhere = F (+) merged
  BY DEF Everywhere
<1> HIDE DEF A, B
<1>4. IsKeyBag(D) /\ \A k : CountIn(k, D) = CountIn(k, A) + CountIn(k, B)
  BY <1>1, <1>2, PlusKeyBag
<1> HIDE DEF D
<1>5. IsKeyBag(E) /\ \A k : CountIn(k, E) = CountIn(k, D) + CountIn(k, table)
  BY <1>3, <1>4, PlusKeyBag
<1> HIDE DEF E
<1>6. IsKeyBag(F) /\ \A k : CountIn(k, F) = CountIn(k, E) + CountIn(k, lost)
  BY <1>3, <1>5, PlusKeyBag
<1> HIDE DEF F
<1>7. IsKeyBag(Everywhere) /\ \A k : CountIn(k, Everywhere) = CountIn(k, F) + CountIn(k, merged)
  BY <1>0, <1>3, <1>6, PlusKeyBag
<1>8. \A k : CountIn(k, Everywhere) = Copies(k)
  BY <1>1, <1>2, <1>4, <1>5, <1>6, <1>7 DEF Copies
<1>9. \A k : CountIn(k, Everywhere) \in Nat
  BY <1>7, CountNat DEF IsKeyBag
<1> QED
  BY <1>7, <1>8, <1>9

CopiesTable == [k \in CountKeys |-> Copies(k)]
Came == [e \in CountedEvents |-> CountIn(e, arrived)]
KeysUnder(source, class) == {k \in CountKeys : k.source = source /\ k.class = class}
KeysFor(e) == {k \in CountKeys : Semantic(k) = e}
CameFrom(source, class) == {e \in CountedEvents : e[1] = source /\ e[3] = class}

\* The conservation over all keys and events there may be
Balanced ==
  /\ \A source \in Sources, class \in Classes :
       SumFunctionOnSet(CopiesTable, KeysUnder(source, class))
         = SumFunctionOnSet(Came, CameFrom(source, class))
  /\ \A e \in Sources \X Range(KindOf) \X Classes :
       SumFunctionOnSet(CopiesTable, KeysFor(e)) <= CountIn(e, arrived)

LEMMA BalancedIsConserved == ASSUME CountsTyped, Balanced PROVE CountsConserved
<1>1. /\ IsFiniteSet(CountKeys) /\ IsABag(Everywhere) /\ DOMAIN Everywhere \subseteq CountKeys
      /\ \A k : CountIn(k, Everywhere) = Copies(k)
  BY KeysAreFinite, EverywhereCounts DEF IsKeyBag
<1>2. /\ IsFiniteSet(CountedEvents) /\ IsABag(arrived) /\ DOMAIN arrived \subseteq CountedEvents
  BY KeysAreFinite DEF CountsTyped
<1>3. CopiesTable = [k \in CountKeys |-> CountIn(k, Everywhere)]
  BY <1>1 DEF CopiesTable
<1>4. ASSUME NEW K, K \subseteq CountKeys, NEW D, \A k : k \in D <=> k \in K /\ k \in DOMAIN Everywhere
      PROVE  SumFunctionOnSet(Everywhere, D) = SumFunctionOnSet(CopiesTable, K)
  BY <1>1, <1>3, <1>4, SumOfCounts
<1>5. ASSUME NEW source, NEW class
      PROVE  /\ SumFunctionOnSet(Everywhere, CountedAs(source, class))
                  = SumFunctionOnSet(CopiesTable, KeysUnder(source, class))
             /\ SumFunctionOnSet(arrived,
                     {e \in DOMAIN arrived : e[1] = source /\ e[3] = class})
                  = SumFunctionOnSet(Came, CameFrom(source, class))
  <2>1. SumFunctionOnSet(Everywhere, CountedAs(source, class))
          = SumFunctionOnSet(CopiesTable, KeysUnder(source, class))
    <3>1. /\ KeysUnder(source, class) \subseteq CountKeys
          /\ \A k : k \in CountedAs(source, class)
                      <=> k \in KeysUnder(source, class) /\ k \in DOMAIN Everywhere
      BY <1>1 DEF KeysUnder, CountedAs
    <3> QED
      BY <1>4, <3>1
  <2> DEFINE D == {e \in DOMAIN arrived : e[1] = source /\ e[3] = class}
  <2>2. /\ CameFrom(source, class) \subseteq CountedEvents
        /\ \A e : e \in D <=> e \in CameFrom(source, class) /\ e \in DOMAIN arrived
    BY <1>2 DEF CameFrom
  <2>3. Came = [e \in CountedEvents |-> CountIn(e, arrived)]
    BY DEF Came
  <2>4. SumFunctionOnSet(arrived, D) = SumFunctionOnSet(Came, CameFrom(source, class))
    <3> HIDE DEF D
    <3> QED
      BY <1>2, <2>2, <2>3, SumOfCounts
  <2> QED
    BY <2>1, <2>4
<1>6. ASSUME NEW e
      PROVE  SumFunctionOnSet(Everywhere, Meaning(e)) = SumFunctionOnSet(CopiesTable, KeysFor(e))
  <2>1. /\ KeysFor(e) \subseteq CountKeys
        /\ \A k : k \in Meaning(e) <=> k \in KeysFor(e) /\ k \in DOMAIN Everywhere
    BY <1>1 DEF KeysFor, Meaning
  <2> QED
    BY <1>4, <2>1
<1> QED
  BY <1>5, <1>6 DEF Balanced, CountsConserved

-----------------------------------------------------------------------------
(* The index *)

\* The list of a kind of their own, and the reserved ones
Plain(list) == {k \in RowKeys(list) : k.kind # Aggregated}
Coarse(list) == {k \in RowKeys(list) : k.kind = Aggregated}

\* What keeps the buffer bounded
Few ==
  /\ Cardinality(Plain(buffer)) <= CountCap
  /\ \A k, q \in Coarse(buffer) : k.source = q.source /\ k.class = q.class => k = q

LEMMA RowKeysFinite ==
  ASSUME NEW list, IsRows(list)
  PROVE  IsFiniteSet(RowKeys(list)) /\ Cardinality(RowKeys(list)) = Len(list)
<1> DEFINE f == [i \in 1..Len(list) |-> list[i].key]
<1>1. Len(list) \in Nat /\ DOMAIN list = 1..Len(list)
  BY RowsAre DEF IsRows
<1>2. f \in [1..Len(list) -> RowKeys(list)] /\ \A k \in RowKeys(list) : \E i \in 1..Len(list) : f[i] = k
  BY <1>1 DEF RowKeys
<1>3. \A i, j \in 1..Len(list) : f[i] = f[j] => i = j
  BY <1>1 DEF IsRows
<1> HIDE DEF f
<1>4. f \in Surjection(1..Len(list), RowKeys(list)) /\ f \in Injection(1..Len(list), RowKeys(list))
  BY <1>2, <1>3 DEF Surjection, Injection, IsInjective
<1>5. IsFiniteSet(1..Len(list)) /\ Cardinality(1..Len(list)) = Len(list)
  <2> DEFINE n == Len(list)
  <2>1. n \in Nat /\ 1 \in Int /\ n \in Int
    BY <1>1
  <2> HIDE DEF n
  <2>2. IsFiniteSet(1..n) /\ Cardinality(1..n) = IF 1 > n THEN 0 ELSE n - 1 + 1
    BY <2>1, FS_Interval, Zenon
  <2>3. Cardinality(1..n) = n
    BY <2>1, <2>2
  <2> QED
    BY <2>2, <2>3 DEF n
<1> QED
  BY <1>4, <1>5, FS_Surjection

LEMMA FewIsBounded == ASSUME CountsTyped, Few PROVE BufferBounded
<1>1. /\ IsRows(buffer) /\ IsFiniteSet(RowKeys(buffer))
      /\ Cardinality(RowKeys(buffer)) = Len(buffer)
  BY RowKeysFinite DEF CountsTyped
<1>2. /\ IsFiniteSet(Plain(buffer)) /\ IsFiniteSet(Coarse(buffer))
      /\ RowKeys(buffer) = Plain(buffer) \cup Coarse(buffer)
      /\ Plain(buffer) \cap Coarse(buffer) = {}
  <2>1. Plain(buffer) \in SUBSET RowKeys(buffer) /\ Coarse(buffer) \in SUBSET RowKeys(buffer)
    BY DEF Plain, Coarse
  <2>2. IsFiniteSet(Plain(buffer)) /\ IsFiniteSet(Coarse(buffer))
    BY <1>1, <2>1, FS_Subset
  <2> QED
    BY <2>2 DEF Plain, Coarse
<1>3. Len(buffer) = Cardinality(Plain(buffer)) + Cardinality(Coarse(buffer))
  <2>1. Cardinality(Plain(buffer) \cap Coarse(buffer)) = 0
    BY <1>2, FS_EmptySet
  <2>2. Cardinality(Plain(buffer)) \in Nat /\ Cardinality(Coarse(buffer)) \in Nat
    BY <1>2, FS_CardinalityType
  <2>3. Cardinality(RowKeys(buffer))
          = Cardinality(Plain(buffer)) + Cardinality(Coarse(buffer))
              - Cardinality(Plain(buffer) \cap Coarse(buffer))
    BY <1>2, FS_Union
  <2> QED
    BY <1>1, <2>1, <2>2, <2>3
<1>4. Cardinality(Coarse(buffer)) <= Cardinality(Sources \X Classes)
  <2> DEFINE f == [k \in Coarse(buffer) |-> <<k.source, k.class>>]
  <2>1. Coarse(buffer) \subseteq CountKeys
    BY <1>1, RowsAre DEF Coarse, IsRows
  <2>2. f \in [Coarse(buffer) -> Sources \X Classes]
    BY <2>1 DEF CountKeys
  <2>3. \A k, q \in Coarse(buffer) : f[k] = f[q] => k = q
    BY DEF Few
  <2> HIDE DEF f
  <2>4. f \in Injection(Coarse(buffer), Sources \X Classes)
    BY <2>2, <2>3 DEF Injection, IsInjective
  <2> QED
    BY <2>4, KeysAreFinite, FS_Injection
<1>5. /\ Cardinality(Plain(buffer)) \in Nat /\ Cardinality(Coarse(buffer)) \in Nat
      /\ Cardinality(Sources \X Classes) \in Nat /\ CountCap \in Nat
  BY <1>2, KeysAreFinite, FS_CardinalityType, CountsAssumption
<1> QED
  BY <1>3, <1>4, <1>5 DEF Few, BufferBounded

\* Whatever keys the index is asked for, it finds one if there is one.
LEMMA FirstIsFound ==
  ASSUME IsRows(buffer), IndexAgrees, NEW hits, hits \subseteq DOMAIN indexed
  PROVE  FirstOf(hits) \subseteq hits /\ (hits # {} => FirstOf(hits) # {})
<1>1. FirstOf(hits) \subseteq hits
  BY DEF FirstOf
<1>2. ASSUME hits # {} PROVE FirstOf(hits) # {}
  <2> DEFINE T == {i \in DOMAIN buffer : buffer[i].key \in hits}
  <2>1. Len(buffer) \in Nat /\ DOMAIN buffer = 1..Len(buffer)
    BY RowsAre DEF IsRows
  <2>2. T \subseteq Nat /\ T # {}
    BY <1>2, <2>1 DEF IndexAgrees, RowKeys
  <2>3. PICK i \in T : \A j \in T : i <= j
    <3> HIDE DEF T
    <3> QED
      BY <2>2, LeastNat
  <2>4. i \in DOMAIN buffer /\ buffer[i].key \in hits
    OBVIOUS
  <2>5. indexed[buffer[i].key] = {buffer[j].key : j \in 1..(i - 1)}
    BY <2>4 DEF IndexAgrees
  <2>6. \A j \in 1..(i - 1) : buffer[j].key \notin hits
    BY <2>1, <2>3, <2>4
  <2>7. indexed[buffer[i].key] \cap hits = {}
    BY <2>5, <2>6
  <2> QED
    BY <2>4, <2>7 DEF FirstOf
<1> QED
  BY <1>1, <1>2

-----------------------------------------------------------------------------
(* The flush *)

\* A piece of rows of different keys, and what is known of it
Piece(list, a, b) == SubSeq(list, a + 1, b)
IsPiece(list, a, b, w) ==
  /\ IsRows(w) /\ Len(w) = IF a < b THEN b - a ELSE 0
  /\ DOMAIN w = 1..(b - a)
  /\ \A i \in 1..(b - a) : w[i] = list[a + i]
  /\ \A k : k \in RowKeys(w) <=> \E i \in DOMAIN list : a < i /\ i <= b /\ list[i].key = k
  /\ \A i \in DOMAIN list :
       InRows(w, list[i].key) = IF a < i /\ i <= b THEN list[i].n ELSE 0
  /\ \A k : k \notin RowKeys(list) => InRows(w, k) = 0

LEMMA PieceOf ==
  ASSUME NEW list, IsRows(list), NEW a \in Nat, NEW b \in Nat, b <= Len(list),
         NEW w, w = Piece(list, a, b)
  PROVE  IsPiece(list, a, b, w)
<1>0. b - (a + 1) + 1 = b - a /\ \A i \in Int : (a + 1) + i - 1 = a + i
  OBVIOUS
<1>1. /\ list \in Seq(BucketRows) /\ Len(list) \in Nat /\ DOMAIN list = 1..Len(list)
      /\ \A i \in DOMAIN list : list[i] \in BucketRows
      /\ \A i, j \in DOMAIN list : list[i].key = list[j].key => i = j
  BY RowsAre DEF IsRows
<1>2. \A i \in (a + 1)..b : list[i] \in BucketRows
  BY <1>1
<1>3. /\ w \in Seq(BucketRows)
      /\ Len(w) = IF a + 1 <= b THEN b - (a + 1) + 1 ELSE 0
      /\ \A i \in 1..(b - (a + 1) + 1) : w[i] = list[(a + 1) + i - 1]
  <2> DEFINE c == a + 1
             R == BucketRows
  <2>1. c \in Int /\ b \in Int /\ \A i \in c..b : list[i] \in R
    BY <1>2
  <2> HIDE DEF c, R
  <2>2. /\ SubSeq(list, c, b) \in Seq(R)
        /\ Len(SubSeq(list, c, b)) = IF c <= b THEN b - c + 1 ELSE 0
        /\ \A i \in 1..(b - c + 1) : SubSeq(list, c, b)[i] = list[c + i - 1]
    BY <2>1, SubSeqProperties
  <2>3. w = SubSeq(list, c, b)
    BY DEF c, Piece
  <2> QED
    BY <2>2, <2>3 DEF c, R
<1>4. Len(w) = IF a < b THEN b - a ELSE 0
  BY <1>3
<1>5. DOMAIN w = 1..(b - a)
  <2>1. DOMAIN w = 1..Len(w)
    BY <1>3
  <2>2. CASE a < b
    BY <2>1, <2>2, <1>4
  <2>3. CASE ~(a < b)
    <3>1. \A i : i \notin 1..(b - a) /\ i \notin 1..0
      BY <2>3
    <3> QED
      BY <2>1, <2>3, <1>4, <3>1
  <2> QED
    BY <2>2, <2>3
<1>6. ASSUME NEW i \in 1..(b - a)
      PROVE  w[i] = list[a + i] /\ a + i \in DOMAIN list /\ a < a + i /\ a + i <= b
  <2>1. i \in 1..(b - (a + 1) + 1) /\ (a + 1) + i - 1 = a + i
    BY <1>0
  <2>2. w[i] = list[(a + 1) + i - 1]
    BY <2>1, <1>3
  <2> QED
    BY <2>1, <2>2, <1>1
<1>7. ASSUME NEW i \in DOMAIN list, a < i, i <= b
      PROVE  i - a \in 1..(b - a) /\ w[i - a] = list[i]
  <2>1. i - a \in 1..(b - a) /\ a + (i - a) = i
    BY <1>1, <1>7
  <2>2. w[i - a] = list[a + (i - a)]
    BY <2>1, <1>6
  <2> QED
    BY <2>1, <2>2
<1>8. IsRows(w)
  <2> SUFFICES ASSUME NEW i \in DOMAIN w, NEW j \in DOMAIN w, w[i].key = w[j].key
               PROVE  i = j
    BY <1>3 DEF IsRows
  <2>1. list[a + i].key = list[a + j].key /\ a + i \in DOMAIN list /\ a + j \in DOMAIN list
    BY <1>5, <1>6
  <2>2. a + i = a + j
    BY <2>1, <1>1
  <2>3. i \in Int /\ j \in Int
    BY <1>5
  <2> QED
    BY <2>2, <2>3
<1>9. ASSUME NEW k
      PROVE  k \in RowKeys(w) <=> \E i \in DOMAIN list : a < i /\ i <= b /\ list[i].key = k
  <2>1. k \in RowKeys(w) <=> \E i \in DOMAIN w : w[i].key = k
    BY DEF RowKeys
  <2>2. ASSUME NEW i \in DOMAIN w, w[i].key = k
        PROVE  \E j \in DOMAIN list : a < j /\ j <= b /\ list[j].key = k
    BY <2>2, <1>5, <1>6
  <2>3. ASSUME NEW i \in DOMAIN list, a < i, i <= b, list[i].key = k
        PROVE  \E j \in DOMAIN w : w[j].key = k
    BY <2>3, <1>5, <1>7
  <2> QED
    BY <2>1, <2>2, <2>3
<1>10. ASSUME NEW i \in DOMAIN list
       PROVE  InRows(w, list[i].key) = IF a < i /\ i <= b THEN list[i].n ELSE 0
  <2>1. CASE a < i /\ i <= b
    <3>1. i - a \in DOMAIN w /\ w[i - a] = list[i]
      BY <1>5, <1>7, <2>1
    <3>2. InRows(w, w[i - a].key) = w[i - a].n
      BY <1>8, <3>1, CountsOfRows
    <3> QED
      BY <2>1, <3>1, <3>2
  <2>2. CASE ~(a < i /\ i <= b)
    <3>1. list[i].key \notin RowKeys(w)
      BY <1>1, <1>9, <2>2
    <3>2. InRows(w, list[i].key) = 0
      BY <1>8, <3>1, CountsOfRows
    <3> QED
      BY <2>2, <3>2
  <2> QED
    BY <2>1, <2>2
<1>11. ASSUME NEW k, k \notin RowKeys(list) PROVE InRows(w, k) = 0
  <2>1. k \notin RowKeys(w)
    BY <1>9, <1>11 DEF RowKeys
  <2> QED
    BY <1>8, <2>1, CountsOfRows
<1> QED
  BY <1>4, <1>5, <1>6, <1>8, <1>9, <1>10, <1>11 DEF IsPiece

LEMMA PieceShape ==
  ASSUME NEW list, IsRows(list), NEW a \in Nat, NEW b \in Nat, b <= Len(list),
         NEW w, w = Piece(list, a, b)
  PROVE  IsRows(w) /\ (Len(w) = IF a < b THEN b - a ELSE 0) /\ DOMAIN w = 1..(b - a)
<1>1. IsPiece(list, a, b, w)
  BY PieceOf
<1> QED
  BY <1>1 DEF IsPiece

LEMMA PieceRows ==
  ASSUME NEW list, IsRows(list), NEW a \in Nat, NEW b \in Nat, b <= Len(list),
         NEW i \in 1..(b - a)
  PROVE  Piece(list, a, b)[i] = list[a + i]
<1> DEFINE w == Piece(list, a, b)
<1> HIDE DEF w
<1>1. IsPiece(list, a, b, w)
  BY PieceOf DEF w
<1>2. \A j \in 1..(b - a) : w[j] = list[a + j]
  BY <1>1 DEF IsPiece
<1> QED
  BY <1>2 DEF w

LEMMA PieceKeys ==
  ASSUME NEW list, IsRows(list), NEW a \in Nat, NEW b \in Nat, b <= Len(list), NEW k
  PROVE  k \in RowKeys(Piece(list, a, b))
           <=> \E i \in DOMAIN list : a < i /\ i <= b /\ list[i].key = k
<1> DEFINE w == Piece(list, a, b)
<1> HIDE DEF w
<1>1. IsPiece(list, a, b, w)
  BY PieceOf DEF w
<1>2. \A x : x \in RowKeys(w) <=> \E i \in DOMAIN list : a < i /\ i <= b /\ list[i].key = x
  BY <1>1 DEF IsPiece
<1> QED
  BY <1>2 DEF w

LEMMA PieceCounts ==
  ASSUME NEW list, IsRows(list), NEW a \in Nat, NEW b \in Nat, b <= Len(list),
         NEW i \in DOMAIN list
  PROVE  InRows(Piece(list, a, b), list[i].key) = IF a < i /\ i <= b THEN list[i].n ELSE 0
<1> DEFINE w == Piece(list, a, b)
<1> HIDE DEF w
<1>1. IsPiece(list, a, b, w)
  BY PieceOf DEF w
<1>2. \A j \in DOMAIN list :
        InRows(w, list[j].key) = IF a < j /\ j <= b THEN list[j].n ELSE 0
  BY <1>1 DEF IsPiece
<1> QED
  BY <1>2 DEF w

LEMMA PieceLacks ==
  ASSUME NEW list, IsRows(list), NEW a \in Nat, NEW b \in Nat, b <= Len(list),
         NEW k, k \notin RowKeys(list)
  PROVE  InRows(Piece(list, a, b), k) = 0
<1> DEFINE w == Piece(list, a, b)
<1> HIDE DEF w
<1>1. IsPiece(list, a, b, w)
  BY PieceOf DEF w
<1>2. \A x : x \notin RowKeys(list) => InRows(w, x) = 0
  BY <1>1 DEF IsPiece
<1> QED
  BY <1>2 DEF w

\* What one has of a key is what two have of it.
Together(w, u, v, k) == InRows(w, k) = InRows(u, k) + InRows(v, k)

\* Rows put behind others of other keys
LEMMA BehindOf ==
  ASSUME NEW u, IsRows(u), NEW v, IsRows(v), NEW w, w = u \o v,
         \A k : ~(k \in RowKeys(u) /\ k \in RowKeys(v))
  PROVE  /\ IsRows(w) /\ DOMAIN w = 1..(Len(u) + Len(v))
         /\ \A i \in 1..Len(u) : w[i] = u[i]
         /\ \A i \in 1..Len(v) : w[Len(u) + i] = v[i]
         /\ \A k : k \in RowKeys(w) <=> k \in RowKeys(u) \/ k \in RowKeys(v)
         /\ \A k : Together(w, u, v, k)
<1> DEFINE a == Len(u)
           b == Len(v)
<1>1. /\ u \in Seq(BucketRows) /\ a \in Nat /\ DOMAIN u = 1..a
      /\ v \in Seq(BucketRows) /\ b \in Nat /\ DOMAIN v = 1..b
      /\ \A i \in 1..a : u[i] \in BucketRows /\ u[i].key \in RowKeys(u)
      /\ \A i \in 1..b : v[i] \in BucketRows /\ v[i].key \in RowKeys(v)
      /\ \A i, j \in 1..a : u[i].key = u[j].key => i = j
      /\ \A i, j \in 1..b : v[i].key = v[j].key => i = j
  BY RowsAre DEF IsRows
<1>2. /\ w \in Seq(BucketRows) /\ Len(w) = a + b
      /\ \A i \in 1..(a + b) : w[i] = IF i <= a THEN u[i] ELSE v[i - a]
  BY <1>1, ConcatProperties
<1>3. DOMAIN w = 1..(a + b)
  BY <1>2
<1> HIDE DEF a, b
<1>4. ASSUME NEW i \in 1..a PROVE w[i] = u[i] /\ i \in DOMAIN w
  <2>1. i \in 1..(a + b) /\ i <= a
    BY <1>1
  <2> QED
    BY <2>1, <1>2, <1>3
<1>5. ASSUME NEW i \in 1..b PROVE w[a + i] = v[i] /\ a + i \in DOMAIN w
  <2>1. a + i \in 1..(a + b) /\ ~(a + i <= a) /\ a + i - a = i
    BY <1>1
  <2> DEFINE j == a + i
  <2>2. j \in 1..(a + b) /\ ~(j <= a) /\ j - a = i
    BY <1>1, <2>1
  <2> HIDE DEF j
  <2>3. w[j] = v[i]
    BY <2>2, <1>2
  <2> QED
    BY <2>2, <2>3, <1>3 DEF j
<1>6. ASSUME NEW i \in DOMAIN w
      PROVE  \/ i \in 1..a /\ w[i] = u[i]
             \/ i - a \in 1..b /\ w[i] = v[i - a] /\ i = a + (i - a)
  <2>1. CASE i <= a
    <3>1. i \in 1..a
      BY <2>1, <1>1, <1>3
    <3> QED
      BY <3>1, <1>4
  <2>2. CASE ~(i <= a)
    <3>1. i - a \in 1..b /\ i \in 1..(a + b) /\ i = a + (i - a)
      BY <2>2, <1>1, <1>3
    <3> QED
      BY <2>2, <3>1, <1>2
  <2> QED
    BY <2>1, <2>2
<1>7. IsRows(w)
  <2> SUFFICES ASSUME NEW i \in DOMAIN w, NEW j \in DOMAIN w, w[i].key = w[j].key
               PROVE  i = j
    BY <1>2 DEF IsRows
  <2>1. CASE i \in 1..a /\ w[i] = u[i] /\ j \in 1..a /\ w[j] = u[j]
    BY <2>1, <1>1
  <2>2. CASE /\ i - a \in 1..b /\ w[i] = v[i - a] /\ i = a + (i - a)
             /\ j - a \in 1..b /\ w[j] = v[j - a] /\ j = a + (j - a)
    <3>1. i - a = j - a
      BY <2>2, <1>1
    <3> QED
      BY <2>2, <3>1
  <2>3. CASE i \in 1..a /\ w[i] = u[i] /\ j - a \in 1..b /\ w[j] = v[j - a]
    <3>1. w[i].key \in RowKeys(u) /\ w[j].key \in RowKeys(v)
      BY <2>3, <1>1
    <3> QED
      BY <3>1
  <2>4. CASE i - a \in 1..b /\ w[i] = v[i - a] /\ j \in 1..a /\ w[j] = u[j]
    <3>1. w[j].key \in RowKeys(u) /\ w[i].key \in RowKeys(v)
      BY <2>4, <1>1
    <3> QED
      BY <3>1
  <2> QED
    BY <1>6, <2>1, <2>2, <2>3, <2>4
<1>8. ASSUME NEW k PROVE k \in RowKeys(w) <=> k \in RowKeys(u) \/ k \in RowKeys(v)
  <2>1. k \in RowKeys(w) <=> \E i \in DOMAIN w : w[i].key = k
    BY DEF RowKeys
  <2>2. k \in RowKeys(u) => \E i \in 1..a : u[i].key = k
    BY <1>1, RowsAre
  <2>3. k \in RowKeys(v) => \E i \in 1..b : v[i].key = k
    BY <1>1, RowsAre
  <2>4. ASSUME NEW i \in DOMAIN w, w[i].key = k PROVE k \in RowKeys(u) \/ k \in RowKeys(v)
    BY <2>4, <1>1, <1>6
  <2>5. ASSUME NEW i \in 1..a, u[i].key = k PROVE \E j \in DOMAIN w : w[j].key = k
    BY <2>5, <1>4
  <2>6. ASSUME NEW i \in 1..b, v[i].key = k PROVE \E j \in DOMAIN w : w[j].key = k
    BY <2>6, <1>5
  <2> QED
    BY <2>1, <2>2, <2>3, <2>4, <2>5, <2>6
<1>9. ASSUME NEW k PROVE InRows(w, k) = InRows(u, k) + InRows(v, k)
  <2>1. CASE k \in RowKeys(u)
    <3>1. PICK i \in 1..a : u[i].key = k
      BY <2>1, <1>1, RowsAre
    <3>2. InRows(u, k) = u[i].n /\ InRows(w, w[i].key) = w[i].n /\ w[i] = u[i]
      BY <3>1, <1>1, <1>4, <1>7, CountsOfRows
    <3>3. InRows(v, k) = 0 /\ u[i].n \in Nat
      BY <2>1, <1>1, CountsOfRows, RowsAre
    <3> QED
      BY <3>1, <3>2, <3>3
  <2>2. CASE k \in RowKeys(v)
    <3>1. PICK i \in 1..b : v[i].key = k
      BY <2>2, <1>1, RowsAre
    <3>2. InRows(v, k) = v[i].n /\ InRows(w, w[a + i].key) = w[a + i].n /\ w[a + i] = v[i]
      BY <3>1, <1>1, <1>5, <1>7, CountsOfRows
    <3>3. InRows(u, k) = 0 /\ v[i].n \in Nat
      BY <2>2, <1>1, CountsOfRows, RowsAre
    <3> QED
      BY <3>1, <3>2, <3>3
  <2>3. CASE k \notin RowKeys(u) /\ k \notin RowKeys(v)
    <3>1. InRows(w, k) = 0 /\ InRows(u, k) = 0 /\ InRows(v, k) = 0
      BY <2>3, <1>7, <1>8, CountsOfRows
    <3> QED
      BY <3>1
  <2> QED
    BY <2>1, <2>2, <2>3
<1>10. \A k : Together(w, u, v, k)
  BY <1>9 DEF Together
<1> QED
  BY <1>3, <1>4, <1>5, <1>7, <1>8, <1>10 DEF a, b

LEMMA BehindRows ==
  ASSUME NEW u, IsRows(u), NEW v, IsRows(v), \A k : ~(k \in RowKeys(u) /\ k \in RowKeys(v)),
         NEW w, w = u \o v, NEW i \in 1..Len(v), NEW j, j = Len(u) + i
  PROVE  w[j] = v[i]
<1>1. \A x \in 1..Len(v) : w[Len(u) + x] = v[x]
  BY BehindOf
<1> QED
  BY <1>1

LEMMA TakenIs ==
  ASSUME IsRows(buffer)
  PROVE  /\ Len(buffer) \in Nat /\ DOMAIN buffer = 1..Len(buffer)
         /\ ChunkRows \in Nat /\ ChunkRows > 0
         /\ Taken \in Nat /\ Taken <= Len(buffer)
         /\ \A o \in Offsets : o \in Nat /\ o < Taken
         /\ \A n \in Nat : Least(n, Taken) \in Nat /\ Least(n, Taken) <= Taken
                           /\ Least(n, Taken) <= n
                           /\ \A i : i <= n /\ i <= Taken => i <= Least(n, Taken)
<1>1. /\ Len(buffer) \in Nat /\ DOMAIN buffer = 1..Len(buffer)
      /\ ChunkRows \in Nat /\ ChunkRows > 0 /\ FlushRows \in Nat
  BY RowsAre, CountsAssumption DEF IsRows
<1>2. Taken \in Nat /\ Taken <= Len(buffer)
  BY <1>1 DEF Taken, Least
<1> HIDE DEF Taken
<1>3. \A o \in Offsets : o \in Nat /\ o < Taken
  BY <1>2 DEF Offsets
<1>4. ASSUME NEW n \in Nat
      PROVE  /\ Least(n, Taken) \in Nat /\ Least(n, Taken) <= Taken /\ Least(n, Taken) <= n
             /\ \A i : i <= n /\ i <= Taken => i <= Least(n, Taken)
  BY <1>2 DEF Least
<1> QED
  BY <1>1, <1>2, <1>3, <1>4

\* Offsets are a chunk apart, and leave no row out.
LEMMA OffsetsApart ==
  ASSUME IsRows(buffer), NEW o \in Offsets, NEW p \in Offsets, o < p
  PROVE  o + ChunkRows <= p
<1> DEFINE C == ChunkRows
<1>1. C \in Nat /\ C > 0 /\ Taken \in Nat
  BY TakenIs
<1>2. PICK x \in Nat, y \in Nat : o = x * C /\ p = y * C
  <2>1. PICK x \in 0..Taken : o = x * C
    BY DEF Offsets
  <2>2. PICK y \in 0..Taken : p = y * C
    BY DEF Offsets
  <2>3. x \in Nat /\ y \in Nat
    BY <1>1
  <2> QED
    BY <2>1, <2>2, <2>3
<1> HIDE DEF C
<1>3. ASSUME NEW a \in Nat, NEW b \in Nat, a <= b PROVE a * C <= b * C
  <2> DEFINE d == b - a
  <2>1. d \in Nat /\ b = a + d
    BY <1>3
  <2>2. d * C \in Nat /\ a * C \in Nat
    BY <1>1, <2>1
  <2> HIDE DEF d
  <2>3. (a + d) * C = a * C + d * C
    BY <1>1, <2>1
  <2> QED
    BY <2>1, <2>2, <2>3
<1>4. ~(y <= x)
  <2>1. x * C \in Nat /\ y * C \in Nat
    BY <1>1
  <2>2. ~(y * C <= x * C)
    BY <1>2, <2>1
  <2> QED
    BY <1>3, <2>2
<1>5. (x + 1) * C <= y * C
  <2>1. x + 1 \in Nat /\ x + 1 <= y
    BY <1>4
  <2> QED
    BY <1>3, <2>1
<1>6. (x + 1) * C = x * C + C
  BY <1>1
<1> QED
  BY <1>2, <1>5, <1>6 DEF C

LEMMA OffsetOfRow ==
  ASSUME IsRows(buffer), NEW i \in 1..Taken
  PROVE  \E o \in Offsets : o < i /\ i <= o + ChunkRows
<1> DEFINE C == ChunkRows
           T == {i - 1 - o : o \in {o \in Offsets : o <= i - 1}}
<1>1. /\ C \in Nat /\ C > 0 /\ Taken \in Nat /\ i \in Nat /\ 1 <= i /\ i <= Taken
      /\ \A o \in Offsets : o \in Nat
  BY TakenIs
<1>2. 0 \in Offsets
  <2>1. 0 = 0 * C /\ 0 \in 0..Taken /\ 0 \in 0..(Taken - 1)
    BY <1>1
  <2> QED
    BY <2>1 DEF Offsets
<1>3. T \subseteq Nat
  BY <1>1
<1>4. T # {}
  <2>1. 0 <= i - 1
    BY <1>1
  <2> QED
    BY <1>2, <2>1
<1>5. PICK d \in T : \A e \in T : d <= e
  <2> HIDE DEF T
  <2> QED
    BY <1>3, <1>4, LeastNat
<1>6. PICK o \in Offsets : o <= i - 1 /\ d = i - 1 - o
  BY <1>5
<1>7. i <= o + C
  <2> SUFFICES ASSUME ~(i <= o + C) PROVE FALSE
    OBVIOUS
  <2>1. o + C \in Nat /\ o + C <= i - 1 /\ o + C <= Taken - 1 /\ o \in Nat
    BY <1>1, <1>6
  <2>2. PICK x \in 0..Taken : o = x * C
    BY <1>6 DEF Offsets
  <2>3. x \in Nat /\ (x + 1) * C = o + C
    <3>1. x \in Nat
      BY <1>1
    <3> HIDE DEF C
    <3>2. (x + 1) * C = x * C + C
      BY <1>1, <3>1
    <3> QED
      BY <2>2, <3>1, <3>2
  <2>4. x + 1 <= (x + 1) * C
    <3> DEFINE y == x + 1
    <3>1. y \in Nat
      BY <2>3
    <3> HIDE DEF y, C
    <3>2. PICK z \in Nat : C = z + 1
      <4>1. C - 1 \in Nat /\ C = C - 1 + 1
        BY <1>1
      <4> QED
        BY <4>1
    <3>3. y * (z + 1) = y * z + y /\ y * z \in Nat
      BY <3>1, <3>2
    <3>4. y <= y * C
      BY <3>1, <3>2, <3>3
    <3> QED
      BY <3>4 DEF y
  <2>5. x + 1 \in 0..Taken /\ o + C \in 0..(Taken - 1)
    BY <1>1, <2>1, <2>3, <2>4
  <2>6. o + C \in Offsets
    BY <2>3, <2>5 DEF Offsets
  <2>7. i - 1 - (o + C) \in T
    BY <2>1, <2>6
  <2>8. d <= i - 1 - (o + C)
    BY <1>5, <2>7
  <2> HIDE DEF C, T
  <2> QED
    BY <1>1, <1>6, <2>1, <2>8
<1> QED
  BY <1>1, <1>6, <1>7

ChunkAt(o) == SubSeq(buffer, o + 1, Least(o + ChunkRows, Taken))

\* The chunk at an offset, by the list of the buffer
LEMMA ChunkAtIs ==
  ASSUME IsRows(buffer), NEW o \in Offsets
  PROVE  /\ IsRows(ChunkAt(o))
         /\ \A i \in DOMAIN buffer :
              InRows(ChunkAt(o), buffer[i].key)
                = IF o < i /\ i <= Least(o + ChunkRows, Taken) THEN buffer[i].n ELSE 0
         /\ \A k : k \notin RowKeys(buffer) => InRows(ChunkAt(o), k) = 0
<1> DEFINE b == Least(o + ChunkRows, Taken)
           w == ChunkAt(o)
<1>1. o \in Nat /\ b \in Nat /\ b <= Len(buffer)
  <2>1. o \in Nat /\ o + ChunkRows \in Nat /\ Taken \in Nat /\ Taken <= Len(buffer)
        /\ Len(buffer) \in Nat
    BY TakenIs
  <2>2. b \in Nat /\ b <= Taken
    BY <2>1, TakenIs
  <2> HIDE DEF b
  <2> QED
    BY <2>1, <2>2
<1>2. w = Piece(buffer, o, b)
  BY DEF ChunkAt, Piece
<1> HIDE DEF w, b
<1>3. IsRows(w)
  BY <1>1, <1>2, PieceShape
<1>4. ASSUME NEW i \in DOMAIN buffer
      PROVE  InRows(w, buffer[i].key) = IF o < i /\ i <= b THEN buffer[i].n ELSE 0
  BY <1>1, <1>2, PieceCounts
<1>5. ASSUME NEW k, k \notin RowKeys(buffer) PROVE InRows(w, k) = 0
  BY <1>1, <1>2, <1>5, PieceLacks
<1> QED
  BY <1>3, <1>4, <1>5 DEF w, b

\* The commands before the m-th row count the list up to it, each once.
LEMMA BeforeCounts ==
  ASSUME IsRows(buffer), NEW m \in Offsets \cup {Taken}, NEW X, X = Before(m)
  PROVE  /\ AreChunks(X)
         /\ \A i \in DOMAIN buffer :
              InChunks(X, buffer[i].key) = IF i <= m THEN buffer[i].n ELSE 0
         /\ \A k : k \notin RowKeys(buffer) => InChunks(X, k) = 0
<1> DEFINE O == {o \in Offsets : o < m}
<1>1. \A c : c \in X <=> \E o \in O : c = ChunkAt(o)
  BY DEF Before, ChunkAt
<1>2. /\ \A o \in Offsets : o \in Nat /\ o < Taken
      /\ Taken \in Nat /\ Taken <= Len(buffer) /\ Len(buffer) \in Nat
      /\ DOMAIN buffer = 1..Len(buffer) /\ ChunkRows \in Nat /\ ChunkRows > 0
  BY TakenIs
<1>m. m \in Nat /\ m <= Taken
  BY <1>2
<1>3. IsFiniteSet(O)
  <2>1. O \in SUBSET (0..Taken)
    BY <1>2
  <2>2. IsFiniteSet(0..Taken)
    BY <1>2, FS_Interval
  <2> QED
    BY <2>1, <2>2, FS_Subset
<1>4. IsFiniteSet(X)
  <2> DEFINE f == [o \in O |-> ChunkAt(o)]
  <2>1. f \in [O -> X] /\ \A c \in X : \E o \in O : f[o] = c
    BY <1>1
  <2> HIDE DEF f, O
  <2>2. f \in Surjection(O, X)
    BY <2>1 DEF Surjection
  <2> QED
    BY <1>3, <2>2, FS_Surjection
<1>5. AreChunks(X)
  <2>1. \A c \in X : IsRows(c)
    BY <1>1, ChunkAtIs
  <2> QED
    BY <1>4, <2>1 DEF AreChunks
<1>6. ASSUME NEW k
      PROVE  /\ InChunks(X, k) = SumFunctionOnSet(PerChunk(X, k), X)
             /\ \A c \in X : PerChunk(X, k)[c] = InRows(c, k) /\ PerChunk(X, k)[c] \in Nat
  BY <1>5, CountsOfChunks, CountsOfRows DEF PerChunk, AreChunks
<1>7. ASSUME NEW k, k \notin RowKeys(buffer) PROVE InChunks(X, k) = 0
  <2> DEFINE f == PerChunk(X, k)
  <2>1. \A c \in X : f[c] = 0
    BY <1>1, <1>6, <1>7, ChunkAtIs
  <2> HIDE DEF f
  <2>2. SumFunctionOnSet(f, X) = 0
    BY <1>4, <2>1, SumZero
  <2> QED
    BY <1>6, <2>2 DEF f
<1>8. ASSUME NEW i \in DOMAIN buffer
      PROVE  InChunks(X, buffer[i].key) = IF i <= m THEN buffer[i].n ELSE 0
  <2> DEFINE k == buffer[i].key
             f == PerChunk(X, k)
  <2>1. /\ InChunks(X, k) = SumFunctionOnSet(f, X)
        /\ \A c \in X : f[c] = InRows(c, k) /\ f[c] \in Nat
    BY <1>6
  <2>2. \A o \in Offsets :
          InRows(ChunkAt(o), k)
            = IF o < i /\ i <= Least(o + ChunkRows, Taken) THEN buffer[i].n ELSE 0
    BY ChunkAtIs
  <2> HIDE DEF k, f
  <2>3. CASE i <= m
    <3>1. i \in 1..Taken
      BY <1>2, <1>m, <2>3
    <3>2. PICK o \in Offsets : o < i /\ i <= o + ChunkRows
      BY <3>1, OffsetOfRow
    <3>3. i <= Least(o + ChunkRows, Taken)
      <4>1. o + ChunkRows \in Nat /\ i <= Taken
        BY <1>2, <3>1
      <4> QED
        BY <3>2, <4>1, TakenIs
    <3>4. InRows(ChunkAt(o), k) = buffer[i].n
      BY <2>2, <3>2, <3>3
    <3>5. o < m /\ ChunkAt(o) \in X
      <4>1. o < m
        BY <1>2, <1>m, <2>3, <3>2
      <4> QED
        BY <1>1, <4>1
    <3> DEFINE c == ChunkAt(o)
    <3>6. ASSUME NEW d \in X, d # c PROVE f[d] = 0
      <4>1. PICK p \in O : d = ChunkAt(p)
        BY <1>1
      <4>2. p \in Offsets /\ p # o
        BY <3>6, <4>1
      <4>3. ~(p < i /\ i <= Least(p + ChunkRows, Taken))
        <5>1. CASE p < o
          <6>1. p + ChunkRows <= o
            BY <4>2, <5>1, OffsetsApart
          <6>2. p + ChunkRows \in Nat
            BY <1>2, <4>2
          <6>3. Least(p + ChunkRows, Taken) <= p + ChunkRows
                /\ Least(p + ChunkRows, Taken) \in Nat
            BY <6>2, TakenIs
          <6> DEFINE e == Least(p + ChunkRows, Taken)
          <6> HIDE DEF e
          <6>4. e <= o /\ e \in Nat /\ o \in Nat /\ i \in Nat
            BY <1>2, <6>1, <6>2, <6>3 DEF e
          <6> QED
            BY <3>2, <6>4 DEF e
        <5>2. CASE o < p
          <6>1. o + ChunkRows <= p
            BY <4>2, <5>2, OffsetsApart
          <6>2. ~(p < i)
            BY <1>2, <3>2, <4>2, <6>1
          <6> QED
            BY <6>2
        <5>3. p < o \/ o < p
          BY <1>2, <4>2
        <5> QED
          BY <5>1, <5>2, <5>3
      <4>4. InRows(d, k) = 0
        BY <2>2, <4>1, <4>2, <4>3
      <4> QED
        BY <2>1, <3>6, <4>4
    <3>7. f[c] = buffer[i].n
      BY <2>1, <3>4, <3>5
    <3>8. c \in X
      BY <3>5
    <3> HIDE DEF c
    <3>9. SumFunctionOnSet(f, X) = SumFunctionOnSet(f, {c})
      <4>1. {c} \subseteq X
        BY <3>8
      <4>2. \A x \in X : f[x] \in Int /\ (x \notin {c} => f[x] = 0)
        BY <2>1, <3>6
      <4> QED
        BY <1>4, <4>1, <4>2, SumOverLess
    <3>10. SumFunctionOnSet(f, {c}) = f[c]
      <4>1. f[c] \in Int
        BY <2>1, <3>8
      <4> QED
        BY <4>1, SumSingle
    <3> QED
      BY <2>1, <2>3, <3>7, <3>9, <3>10 DEF k
  <2>4. CASE ~(i <= m)
    <3>1. ASSUME NEW d \in X PROVE f[d] = 0
      <4>1. PICK p \in Offsets : p < m /\ d = ChunkAt(p)
        BY <1>1
      <4>2. p + ChunkRows \in Nat
        BY <1>2
      <4> DEFINE e == Least(p + ChunkRows, Taken)
      <4>3. e \in Nat /\ e <= Taken /\ e <= p + ChunkRows
        BY <4>2, TakenIs
      <4>4. ~(i <= e)
        <5>1. CASE m \in Offsets
          <6>1. p + ChunkRows <= m
            BY <4>1, <5>1, OffsetsApart
          <6> HIDE DEF e
          <6> QED
            BY <1>2, <1>m, <2>4, <4>2, <4>3, <6>1
        <5>2. CASE m = Taken
          <6> HIDE DEF e
          <6> QED
            BY <1>2, <2>4, <4>3, <5>2
        <5> QED
          BY <5>1, <5>2
      <4>5. InRows(ChunkAt(p), k) = 0
        BY <2>2, <4>4
      <4> QED
        BY <2>1, <3>1, <4>1, <4>5
    <3>2. SumFunctionOnSet(f, X) = 0
      BY <1>4, <3>1, SumZero
    <3> QED
      BY <2>1, <2>4, <3>2 DEF k
  <2> QED
    BY <2>3, <2>4
<1> QED
  BY <1>5, <1>7, <1>8

\* Whatever the lane knows of them, it has the commands or counts them as merged.
LEMMA AdmitCounts ==
  ASSUME CountsTyped, NEW X, AreChunks(X), Admit(X)
  PROVE  /\ AreChunks(lane') /\ (\A c \in recognised' : IsRows(c)) /\ lane' \subseteq recognised'
         /\ IsKeyBag(merged')
         /\ \A k : InChunks(lane', k) + CountIn(k, merged')
                     = InChunks(lane, k) + CountIn(k, merged) + InChunks(X, k)
<1> DEFINE Y == X \ recognised
           Z == X \cap recognised
<1>1. /\ lane' = lane \cup Y /\ recognised' = recognised \cup X
      /\ merged' = merged (+) EventsIn(Z)
  BY DEF Admit
<1>2. /\ AreChunks(lane) /\ (\A c \in recognised : IsRows(c)) /\ lane \subseteq recognised
      /\ IsKeyBag(merged)
  BY DEF CountsTyped
<1>3. AreChunks(Y) /\ AreChunks(Z)
  <2>1. IsFiniteSet(Y) /\ IsFiniteSet(Z)
    BY FS_Subset DEF AreChunks
  <2> QED
    BY <2>1 DEF AreChunks
<1>4. lane \cap Y = {} /\ Y \cap Z = {} /\ X = Y \cup Z
  BY <1>2
<1>5. (\A c \in recognised' : IsRows(c)) /\ lane' \subseteq recognised'
  BY <1>1, <1>2 DEF AreChunks
<1> HIDE DEF Y, Z
<1>6. AreChunks(lane') /\ \A k : InChunks(lane', k) = InChunks(lane, k) + InChunks(Y, k)
  BY <1>1, <1>2, <1>3, <1>4, ChunksApart
<1>7. \A k : InChunks(X, k) = InChunks(Y, k) + InChunks(Z, k)
  BY <1>3, <1>4, ChunksApart
<1> DEFINE E == EventsIn(Z)
<1>8. IsKeyBag(E) /\ \A k : CountIn(k, E) = InChunks(Z, k)
  BY <1>3, CountsOfChunks DEF IsKeyBag, InChunks
<1>e. merged' = merged (+) E
  BY <1>1
<1> HIDE DEF E
<1>9. IsKeyBag(merged') /\ \A k : CountIn(k, merged') = CountIn(k, merged) + CountIn(k, E)
  BY <1>2, <1>8, <1>e, PlusKeyBag
<1>10. ASSUME NEW k
       PROVE  InChunks(lane', k) + CountIn(k, merged')
                = InChunks(lane, k) + CountIn(k, merged) + InChunks(X, k)
  <2>1. /\ InChunks(lane, k) \in Nat /\ InChunks(Y, k) \in Nat /\ InChunks(Z, k) \in Nat
        /\ CountIn(k, merged) \in Nat
    BY <1>2, <1>3, CountsOfChunks, CountNat DEF IsKeyBag
  <2> QED
    BY <2>1, <1>6, <1>7, <1>8, <1>9
<1> QED
  BY <1>5, <1>6, <1>9, <1>10

\* A buffer of fewer keys is no fuller.
LEMMA FewerIsFew ==
  ASSUME CountsTyped, Few, IsRows(buffer'), RowKeys(buffer') \subseteq RowKeys(buffer)
  PROVE  Few'
<1>1. Plain(buffer') \in SUBSET Plain(buffer) /\ Coarse(buffer') \subseteq Coarse(buffer)
  BY DEF Plain, Coarse
<1>2. IsFiniteSet(Plain(buffer)) /\ IsFiniteSet(Plain(buffer'))
  <2>1. IsFiniteSet(RowKeys(buffer)) /\ Plain(buffer) \in SUBSET RowKeys(buffer)
    BY RowKeysFinite DEF CountsTyped, Plain
  <2>2. IsFiniteSet(Plain(buffer))
    BY <2>1, FS_Subset
  <2> QED
    BY <1>1, <2>2, FS_Subset
<1>3. Cardinality(Plain(buffer')) <= Cardinality(Plain(buffer))
  BY <1>1, <1>2, FS_Subset
<1>4. /\ Cardinality(Plain(buffer')) \in Nat /\ Cardinality(Plain(buffer)) \in Nat
      /\ CountCap \in Nat
  BY <1>2, FS_CardinalityType, CountsAssumption
<1>5. Cardinality(Plain(buffer)) <= CountCap
  BY DEF Few
<1>6. Cardinality(Plain(buffer')) <= CountCap
  BY <1>3, <1>4, <1>5
<1>7. \A k, q \in Coarse(buffer') : k.source = q.source /\ k.class = q.class => k = q
  BY <1>1 DEF Few
<1> QED
  BY <1>6, <1>7 DEF Few

LEMMA FlushKeeps ==
  ASSUME CountsTyped, IndexAgrees, Few, NEW m \in Offsets \cup {Taken}, FlushTo(m),
         UNCHANGED <<second, table, lost, arrived, counting>>
  PROVE  CountsTyped' /\ IndexAgrees' /\ Few' /\ \A k : Copies(k)' = Copies(k)
<1> DEFINE L == Len(buffer)
           rest == Piece(buffer, Taken, L)
           back == Piece(buffer, m, Taken)
           ahead == Piece(buffer, 0, Taken)
           stay == DOMAIN indexed \ RowKeys(ahead)
<1>1. /\ IsRows(buffer) /\ L \in Nat /\ DOMAIN buffer = 1..L
      /\ Taken \in Nat /\ Taken <= L /\ m \in Nat /\ m <= Taken
  <2>1. IsRows(buffer)
    BY DEF CountsTyped
  <2>2. Taken \in Nat /\ \A o \in Offsets : o \in Nat /\ o < Taken
    BY <2>1, TakenIs
  <2> QED
    BY <2>1, <2>2, TakenIs
<1>2. /\ buffer' = rest \o back
      /\ indexed' = [k \in stay \cup RowKeys(back) |->
                       IF k \in stay THEN indexed[k] \ RowKeys(ahead)
                       ELSE stay \cup KeysBefore(back, k)]
      /\ Admit(Before(m))
  <2>1. SubSeq(buffer, 1, Taken) = ahead
    BY DEF Piece
  <2> QED
    BY <2>1 DEF FlushTo, Piece
<1>3. /\ \A i \in 1..L : buffer[i].key \in RowKeys(buffer)
      /\ \A k \in RowKeys(buffer) : \E i \in 1..L : buffer[i].key = k
      /\ \A i, j \in 1..L : buffer[i].key = buffer[j].key => i = j
  BY <1>1, RowsAre DEF IsRows
<1>4. /\ DOMAIN indexed = RowKeys(buffer)
      /\ \A i \in 1..L : indexed[buffer[i].key] = {buffer[j].key : j \in 1..(i - 1)}
  BY <1>1 DEF IndexAgrees
<1> HIDE DEF rest, back, ahead, L
<1>5. /\ IsRows(rest) /\ Len(rest) = L - Taken /\ DOMAIN rest = 1..(L - Taken)
      /\ \A i \in 1..(L - Taken) : rest[i] = buffer[Taken + i]
      /\ \A k : k \in RowKeys(rest) <=> \E i \in DOMAIN buffer : Taken < i /\ i <= L /\ buffer[i].key = k
  <2>1. L <= Len(buffer) /\ rest = Piece(buffer, Taken, L)
    BY <1>1 DEF L, rest
  <2>2. /\ IsRows(rest) /\ Len(rest) = IF Taken < L THEN L - Taken ELSE 0
        /\ DOMAIN rest = 1..(L - Taken)
    <3>1. IsPiece(buffer, Taken, L, rest)
      BY <1>1, <2>1, PieceOf
    <3> QED
      BY <3>1 DEF IsPiece
  <2>3. \A i \in 1..(L - Taken) : rest[i] = buffer[Taken + i]
    BY <1>1, <2>1, PieceRows
  <2>4. \A k : k \in RowKeys(rest) <=> \E i \in DOMAIN buffer : Taken < i /\ i <= L /\ buffer[i].key = k
    BY <1>1, <2>1, PieceKeys
  <2>5. Len(rest) = L - Taken
    BY <1>1, <2>2
  <2> QED
    BY <2>2, <2>3, <2>4, <2>5
<1>6. /\ IsRows(back) /\ Len(back) = Taken - m /\ DOMAIN back = 1..(Taken - m)
      /\ \A i \in 1..(Taken - m) : back[i] = buffer[m + i]
      /\ \A k : k \in RowKeys(back) <=> \E i \in DOMAIN buffer : m < i /\ i <= Taken /\ buffer[i].key = k
  <2>1. Taken <= Len(buffer) /\ back = Piece(buffer, m, Taken)
    BY <1>1 DEF L, back
  <2>2. /\ IsRows(back) /\ Len(back) = IF m < Taken THEN Taken - m ELSE 0
        /\ DOMAIN back = 1..(Taken - m)
    <3>1. IsPiece(buffer, m, Taken, back)
      BY <1>1, <2>1, PieceOf
    <3> QED
      BY <3>1 DEF IsPiece
  <2>3. \A i \in 1..(Taken - m) : back[i] = buffer[m + i]
    BY <1>1, <2>1, PieceRows
  <2>4. \A k : k \in RowKeys(back) <=> \E i \in DOMAIN buffer : m < i /\ i <= Taken /\ buffer[i].key = k
    BY <1>1, <2>1, PieceKeys
  <2>5. Len(back) = Taken - m
    BY <1>1, <2>2
  <2> QED
    BY <2>2, <2>3, <2>4, <2>5
<1>7. \A k : k \in RowKeys(ahead) <=> \E i \in 1..L : i <= Taken /\ buffer[i].key = k
  <2>1. Taken <= Len(buffer) /\ ahead = Piece(buffer, 0, Taken) /\ 0 \in Nat
    BY <1>1 DEF L, ahead
  <2>2. \A k : k \in RowKeys(ahead) <=> \E i \in DOMAIN buffer : 0 < i /\ i <= Taken /\ buffer[i].key = k
    BY <1>1, <2>1, PieceKeys
  <2>3. \A i \in 1..L : 0 < i
    BY <1>1
  <2> QED
    BY <1>1, <2>2, <2>3
<1>8. \A k : ~(k \in RowKeys(rest) /\ k \in RowKeys(back))
  <2> SUFFICES ASSUME NEW k, k \in RowKeys(rest), k \in RowKeys(back) PROVE FALSE
    OBVIOUS
  <2>1. PICK i \in 1..L : Taken < i /\ buffer[i].key = k
    BY <1>1, <1>5
  <2>2. PICK j \in 1..L : j <= Taken /\ buffer[j].key = k
    BY <1>1, <1>6
  <2>3. i = j
    BY <1>3, <2>1, <2>2
  <2> QED
    BY <1>1, <2>1, <2>2, <2>3
<1>9. /\ IsRows(buffer') /\ DOMAIN buffer' = 1..((L - Taken) + (Taken - m))
      /\ \A i \in 1..(L - Taken) : buffer'[i] = rest[i]
      /\ \A i \in 1..(Taken - m) : buffer'[(L - Taken) + i] = back[i]
      /\ \A k : k \in RowKeys(buffer') <=> k \in RowKeys(rest) \/ k \in RowKeys(back)
      /\ \A k : InRows(buffer', k) = InRows(rest, k) + InRows(back, k)
  <2> DEFINE w == rest \o back
  <2>w. w = rest \o back
    OBVIOUS
  <2> HIDE DEF w
  <2>0. IsRows(rest) /\ IsRows(back)
    BY <1>5, <1>6
  <2>a. IsRows(w) /\ DOMAIN w = 1..(Len(rest) + Len(back))
    BY <1>8, <2>0, <2>w, BehindOf
  <2>b. \A i \in 1..Len(rest) : w[i] = rest[i]
    BY <1>8, <2>0, <2>w, BehindOf
  <2>c. ASSUME NEW i \in 1..Len(back) PROVE w[Len(rest) + i] = back[i]
    <3> DEFINE j == Len(rest) + i
    <3>1. j = Len(rest) + i
      OBVIOUS
    <3> HIDE DEF j
    <3>2. w[j] = back[i]
      BY <1>8, <2>0, <2>w, <3>1, BehindRows
    <3> QED
      BY <3>2 DEF j
  <2>d. \A k : k \in RowKeys(w) <=> k \in RowKeys(rest) \/ k \in RowKeys(back)
    BY <1>8, <2>0, <2>w, BehindOf
  <2>f. \A k : Together(w, rest, back, k)
    BY <1>8, <2>0, <2>w, BehindOf
  <2>e. \A k : InRows(w, k) = InRows(rest, k) + InRows(back, k)
    BY <2>f DEF Together
  <2>2. buffer' = w
    BY <1>2 DEF w
  <2>3. Len(rest) = L - Taken /\ Len(back) = Taken - m
    BY <1>5, <1>6
  <2> QED
    BY <2>a, <2>b, <2>c, <2>d, <2>e, <2>2, <2>3
<1>10. Few'
  <2>1. ASSUME NEW k \in RowKeys(buffer') PROVE k \in RowKeys(buffer)
    <3>1. k \in RowKeys(rest) \/ k \in RowKeys(back)
      BY <1>9
    <3>2. \E i \in DOMAIN buffer : buffer[i].key = k
      BY <3>1, <1>5, <1>6
    <3> QED
      BY <3>2, <1>1, <1>3
  <2> QED
    BY <1>9, <2>1, FewerIsFew
<1>11. IndexAgrees'
  <2>1. \A k : k \in stay <=> k \in RowKeys(rest)
    <3> TAKE k
    <3>1. ASSUME k \in stay PROVE k \in RowKeys(rest)
      <4>1. PICK i \in 1..L : buffer[i].key = k
        BY <1>3, <1>4, <3>1
      <4>2. ~(i <= Taken)
        BY <1>7, <3>1, <4>1
      <4>3. Taken < i /\ i <= L
        BY <1>1, <4>2
      <4> QED
        BY <1>1, <1>5, <4>1, <4>3
    <3>2. ASSUME k \in RowKeys(rest) PROVE k \in stay
      <4>1. PICK i \in 1..L : Taken < i /\ buffer[i].key = k
        BY <1>1, <1>5, <3>2
      <4>2. k \notin RowKeys(ahead)
        <5> SUFFICES ASSUME k \in RowKeys(ahead) PROVE FALSE
          OBVIOUS
        <5>1. PICK j \in 1..L : j <= Taken /\ buffer[j].key = k
          BY <1>7
        <5>2. i = j
          BY <1>3, <4>1, <5>1
        <5> QED
          BY <1>1, <4>1, <5>1, <5>2
      <4> QED
        BY <1>3, <1>4, <4>1, <4>2
    <3> QED
      BY <3>1, <3>2
  <2>2. stay = RowKeys(rest)
    BY <2>1
  <2> HIDE DEF stay
  <2>3. DOMAIN indexed' = RowKeys(buffer')
    <3>1. DOMAIN indexed' = RowKeys(rest) \cup RowKeys(back)
      BY <1>2, <2>2
    <3> QED
      BY <1>9, <3>1
  <2>4. \A i, j \in DOMAIN buffer' : buffer'[i].key = buffer'[j].key => i = j
    BY <1>9 DEF IsRows
  <2>5. ASSUME NEW i \in DOMAIN buffer'
        PROVE  indexed'[buffer'[i].key] = {buffer'[j].key : j \in 1..(i - 1)}
    <3>1. CASE i \in 1..(L - Taken)
      <4> DEFINE k == rest[i].key
      <4>1. buffer'[i].key = k /\ k = buffer[Taken + i].key /\ Taken + i \in 1..L
        BY <1>1, <1>5, <1>9, <3>1
      <4>2. k \in RowKeys(rest)
        BY <1>5, <3>1, RowsAre DEF IsRows
      <4>3. indexed'[k] = indexed[k] \ RowKeys(ahead)
        BY <1>2, <2>2, <4>2
      <4>4. indexed[k] = {buffer[j].key : j \in 1..(Taken + i - 1)}
        <5> DEFINE q == Taken + i
        <5>1. q \in 1..L /\ k = buffer[q].key
          BY <4>1
        <5> HIDE DEF q, k
        <5>2. indexed[k] = {buffer[j].key : j \in 1..(q - 1)}
          BY <1>4, <5>1
        <5>3. q - 1 = Taken + i - 1
          BY <1>1, <3>1 DEF q
        <5> QED
          BY <5>2, <5>3
      <4> HIDE DEF k
      <4>5. ASSUME NEW x, x \in indexed'[k] PROVE \E j \in 1..(i - 1) : buffer'[j].key = x
        <5>1. PICK j \in 1..(Taken + i - 1) : buffer[j].key = x
          BY <4>3, <4>4, <4>5
        <5>2. j \in 1..L
          BY <1>1, <3>1, <5>1
        <5>3. ~(j <= Taken)
          BY <1>7, <4>3, <4>5, <5>1, <5>2
        <5>4. j - Taken \in 1..(i - 1) /\ j - Taken \in 1..(L - Taken) /\ Taken + (j - Taken) = j
          BY <1>1, <3>1, <5>1, <5>2, <5>3
        <5>5. rest[j - Taken] = buffer[Taken + (j - Taken)] /\ buffer'[j - Taken] = rest[j - Taken]
          BY <1>5, <1>9, <5>4
        <5> QED
          BY <5>1, <5>4, <5>5
      <4>6. ASSUME NEW j \in 1..(i - 1) PROVE buffer'[j].key \in indexed'[k]
        <5>1. j \in 1..(L - Taken) /\ Taken + j \in 1..(Taken + i - 1) /\ Taken + j \in 1..L
              /\ ~(Taken + j <= Taken)
          BY <1>1, <3>1
        <5>2. buffer'[j] = buffer[Taken + j]
          BY <1>5, <1>9, <5>1
        <5>3. buffer[Taken + j].key \in indexed[k]
          BY <4>4, <5>1
        <5>4. buffer[Taken + j].key \notin RowKeys(ahead)
          <6> SUFFICES ASSUME buffer[Taken + j].key \in RowKeys(ahead) PROVE FALSE
            OBVIOUS
          <6>1. PICK x \in 1..L : x <= Taken /\ buffer[x].key = buffer[Taken + j].key
            BY <1>7
          <6>2. x = Taken + j
            BY <1>3, <5>1, <6>1
          <6> QED
            BY <5>1, <6>1, <6>2
        <5> QED
          BY <4>3, <5>2, <5>3, <5>4
      <4> QED
        BY <4>1, <4>5, <4>6
    <3>2. CASE i \notin 1..(L - Taken)
      <4> DEFINE p == i - (L - Taken)
                 k == back[p].key
      <4>1. p \in 1..(Taken - m) /\ i = (L - Taken) + p
        BY <1>1, <1>9, <3>2
      <4> HIDE DEF p
      <4>2. buffer'[i].key = k
        BY <1>9, <4>1
      <4>3. k \in RowKeys(back) /\ k \notin RowKeys(rest)
        BY <1>6, <1>8, <4>1, RowsAre DEF IsRows
      <4>4. indexed'[k] = RowKeys(rest) \cup KeysBefore(back, k)
        BY <1>2, <2>2, <4>3
      <4>5. ASSUME NEW x PROVE x \in KeysBefore(back, k) <=> \E j \in 1..(p - 1) : back[j].key = x
        <5>1. ASSUME NEW j \in DOMAIN back, \A y \in 1..j : back[y].key # k PROVE j \in 1..(p - 1)
          <6>1. ~(p \in 1..j)
            BY <5>1
          <6> QED
            BY <1>1, <1>6, <4>1, <5>1, <6>1
        <5>2. ASSUME NEW j \in 1..(p - 1)
              PROVE  j \in DOMAIN back /\ \A y \in 1..j : back[y].key # k
          <6>1. j \in DOMAIN back
            BY <1>1, <1>6, <4>1
          <6>2. ASSUME NEW y \in 1..j PROVE back[y].key # k
            <7>1. y \in DOMAIN back /\ p \in DOMAIN back /\ y # p
              BY <1>1, <1>6, <4>1
            <7> QED
              BY <1>6, <7>1 DEF IsRows
          <6> QED
            BY <6>1, <6>2
        <5>3. KeysBefore(back, k)
                = {back[j].key : j \in {j \in DOMAIN back : \A y \in 1..j : back[y].key # k}}
          BY DEF KeysBefore
        <5> HIDE DEF k
        <5> QED
          BY <5>1, <5>2, <5>3
      <4> HIDE DEF k
      <4>6. ASSUME NEW x, x \in indexed'[k] PROVE \E j \in 1..(i - 1) : buffer'[j].key = x
        <5>1. CASE x \in RowKeys(rest)
          <6>1. PICK j \in 1..(L - Taken) : rest[j].key = x
            BY <1>5, <5>1, RowsAre DEF IsRows
          <6>2. j \in 1..(i - 1)
            BY <1>1, <4>1
          <6> QED
            BY <1>9, <6>1, <6>2
        <5>2. CASE x \in KeysBefore(back, k)
          <6>1. PICK j \in 1..(p - 1) : back[j].key = x
            BY <4>5, <5>2
          <6>2. j \in 1..(Taken - m) /\ (L - Taken) + j \in 1..(i - 1)
            BY <1>1, <4>1, <6>1
          <6> QED
            BY <1>9, <6>1, <6>2
        <5> QED
          BY <4>4, <4>6, <5>1, <5>2
      <4>7. ASSUME NEW j \in 1..(i - 1) PROVE buffer'[j].key \in indexed'[k]
        <5>1. CASE j \in 1..(L - Taken)
          <6>1. buffer'[j] = rest[j] /\ rest[j].key \in RowKeys(rest)
            BY <1>5, <1>9, <5>1, RowsAre DEF IsRows
          <6> QED
            BY <4>4, <6>1
        <5>2. CASE j \notin 1..(L - Taken)
          <6> DEFINE q == j - (L - Taken)
          <6>1. q \in 1..(p - 1) /\ q \in 1..(Taken - m) /\ j = (L - Taken) + q
            BY <1>1, <4>1, <5>2
          <6> HIDE DEF q
          <6>2. buffer'[j] = back[q]
            BY <1>9, <6>1
          <6>3. back[q].key \in KeysBefore(back, k)
            BY <4>5, <6>1
          <6> QED
            BY <4>4, <6>2, <6>3
        <5> QED
          BY <5>1, <5>2
      <4> QED
        BY <4>2, <4>6, <4>7
    <3> QED
      BY <3>1, <3>2
  <2> QED
    BY <2>3, <2>4, <2>5 DEF IndexAgrees
<1> DEFINE X == Before(m)
<1>12. /\ AreChunks(X)
       /\ \A i \in DOMAIN buffer : InChunks(X, buffer[i].key) = IF i <= m THEN buffer[i].n ELSE 0
       /\ \A k : k \notin RowKeys(buffer) => InChunks(X, k) = 0
  BY <1>1, BeforeCounts
<1> HIDE DEF X
<1>13. /\ AreChunks(lane') /\ (\A c \in recognised' : IsRows(c)) /\ lane' \subseteq recognised'
       /\ IsKeyBag(merged')
       /\ \A k : InChunks(lane', k) + CountIn(k, merged')
                   = InChunks(lane, k) + CountIn(k, merged) + InChunks(X, k)
  BY <1>2, <1>12, AdmitCounts DEF X
<1>14. CountsTyped'
  BY <1>9, <1>13 DEF CountsTyped
<1>15. ASSUME NEW k PROVE InRows(buffer, k) = InRows(buffer', k) + InChunks(X, k)
  <2>1. CASE k \in RowKeys(buffer)
    <3>1. PICK i \in 1..L : buffer[i].key = k
      BY <1>3, <2>1
    <3>2. i \in DOMAIN buffer /\ Taken <= Len(buffer) /\ L <= Len(buffer)
      BY <1>1 DEF L
    <3>3. InRows(rest, buffer[i].key) = IF Taken < i /\ i <= L THEN buffer[i].n ELSE 0
      BY <1>1, <3>2, PieceCounts DEF rest
    <3>4. InRows(back, buffer[i].key) = IF m < i /\ i <= Taken THEN buffer[i].n ELSE 0
      BY <1>1, <3>2, PieceCounts DEF back
    <3>5. InChunks(X, buffer[i].key) = IF i <= m THEN buffer[i].n ELSE 0
      BY <1>12, <3>2
    <3>6. InRows(buffer, buffer[i].key) = buffer[i].n /\ buffer[i].n \in Nat
      BY <1>1, <3>2, CountsOfRows, RowsAre DEF IsRows
    <3>7. InRows(buffer', k) = InRows(rest, k) + InRows(back, k)
      BY <1>9
    <3>8. \/ i <= m /\ ~(m < i) /\ ~(Taken < i)
          \/ m < i /\ i <= Taken /\ ~(i <= m) /\ ~(Taken < i)
          \/ Taken < i /\ i <= L /\ ~(i <= Taken) /\ ~(i <= m)
      BY <1>1
    <3> DEFINE n == buffer[i].n
    <3> HIDE DEF n
    <3>9. /\ InRows(buffer, k) = n /\ n \in Nat
          /\ InRows(rest, k) = IF Taken < i /\ i <= L THEN n ELSE 0
          /\ InRows(back, k) = IF m < i /\ i <= Taken THEN n ELSE 0
          /\ InChunks(X, k) = IF i <= m THEN n ELSE 0
      BY <3>1, <3>3, <3>4, <3>5, <3>6 DEF n
    <3> QED
      BY <3>7, <3>8, <3>9
  <2>2. CASE k \notin RowKeys(buffer)
    <3>1. L \in Nat /\ Taken <= Len(buffer) /\ L <= Len(buffer)
      BY <1>1 DEF L
    <3>2. InRows(rest, k) = 0
      BY <1>1, <2>2, <3>1, PieceLacks DEF rest
    <3>3. InRows(back, k) = 0
      BY <1>1, <2>2, <3>1, PieceLacks DEF back
    <3>4. InRows(buffer, k) = 0
      BY <1>1, <2>2, CountsOfRows
    <3>5. InChunks(X, k) = 0
      BY <1>12, <2>2
    <3>6. InRows(buffer', k) = InRows(rest, k) + InRows(back, k)
      BY <1>9
    <3> QED
      BY <3>2, <3>3, <3>4, <3>5, <3>6
  <2> QED
    BY <2>1, <2>2
<1>16. ASSUME NEW k PROVE Copies(k)' = Copies(k)
  <2>1. /\ InRows(buffer', k) \in Nat /\ InChunks(X, k) \in Nat /\ InChunks(lane, k) \in Nat
        /\ InChunks(lane', k) \in Nat
        /\ CountIn(k, table) \in Nat /\ CountIn(k, lost) \in Nat /\ CountIn(k, merged) \in Nat
        /\ CountIn(k, merged') \in Nat
    BY <1>9, <1>12, <1>13, CountsOfRows, CountsOfChunks, CountNat DEF CountsTyped, IsKeyBag
  <2>2. Copies(k)' = InRows(buffer', k) + InChunks(lane', k) + CountIn(k, table)
                       + CountIn(k, lost) + CountIn(k, merged')
    BY DEF Copies
  <2>3. InRows(buffer, k) = InRows(buffer', k) + InChunks(X, k)
    BY <1>15
  <2>4. InChunks(lane', k) + CountIn(k, merged')
          = InChunks(lane, k) + CountIn(k, merged) + InChunks(X, k)
    BY <1>13
  <2> DEFINE r == InRows(buffer', k)
             x == InChunks(X, k)
             l == InChunks(lane, k)
             n == InChunks(lane', k)
             d == CountIn(k, merged)
             e == CountIn(k, merged')
             t == CountIn(k, table)
             g == CountIn(k, lost)
  <2>5. Copies(k) = (r + x) + l + t + g + d /\ Copies(k)' = r + n + t + g + e
    BY <2>2, <2>3 DEF Copies
  <2>6. r \in Nat /\ x \in Nat /\ l \in Nat /\ n \in Nat /\ d \in Nat /\ e \in Nat /\ t \in Nat
        /\ g \in Nat /\ n + e = l + d + x
    BY <2>1, <2>4
  <2> HIDE DEF r, x, l, n, d, e, t, g
  <2> QED
    BY <2>5, <2>6
<1> QED
  BY <1>10, <1>11, <1>14, <1>16

LEMMA NoRows == IsRows(<<>>) /\ RowKeys(<<>>) = {} /\ \A k : InRows(<<>>, k) = 0
<1>1. IsRows(<<>>)
  BY DEF IsRows
<1>2. RowKeys(<<>>) = {}
  BY DEF RowKeys
<1> QED
  BY <1>1, <1>2, CountsOfRows

LEMMA EmptyIsFew == ASSUME buffer' = <<>> PROVE Few'
<1>1. Plain(buffer') = {} /\ Coarse(buffer') = {}
  BY NoRows DEF Plain, Coarse
<1>2. Cardinality(Plain(buffer')) = 0 /\ CountCap \in Nat
  BY <1>1, FS_EmptySet, CountsAssumption
<1> QED
  BY <1>1, <1>2 DEF Few

LEMMA LosesKeep ==
  ASSUME CountsTyped, NEW m \in Offsets, Admit(Before(m)),
         lost' = lost (+) BagOf(SubSeq(buffer, m + 1, Len(buffer))),
         buffer' = <<>>, indexed' = << >>, UNCHANGED <<second, table, arrived, counting>>
  PROVE  CountsTyped' /\ IndexAgrees' /\ Few' /\ \A k : Copies(k)' = Copies(k)
<1> DEFINE L == Len(buffer)
           tail == Piece(buffer, m, L)
           X == Before(m)
           T == BagOf(tail)
<1>1. /\ IsRows(buffer) /\ L \in Nat /\ DOMAIN buffer = 1..L /\ L <= L
      /\ m \in Nat /\ m <= L
  <2>1. IsRows(buffer)
    BY DEF CountsTyped
  <2>2. Taken \in Nat /\ Taken <= Len(buffer) /\ \A o \in Offsets : o \in Nat /\ o < Taken
    BY <2>1, TakenIs
  <2> QED
    BY <2>1, <2>2, TakenIs
<1>2. lost' = lost (+) T
  BY DEF Piece
<1>3. IsRows(tail)
  <2> HIDE DEF tail
  <2> QED
    BY <1>1, PieceShape DEF tail
<1>4. IsKeyBag(T) /\ \A k : CountIn(k, T) = InRows(tail, k)
  <2> HIDE DEF tail
  <2>1. IsABag(T) /\ DOMAIN T = RowKeys(tail) /\ RowKeys(tail) \subseteq CountKeys
    BY <1>3, CountsOfRows, RowsAre DEF IsRows
  <2> QED
    BY <2>1 DEF IsKeyBag, InRows
<1> HIDE DEF T
<1>5. IsKeyBag(lost') /\ \A k : CountIn(k, lost') = CountIn(k, lost) + CountIn(k, T)
  BY <1>2, <1>4, PlusKeyBag DEF CountsTyped
<1>6. /\ AreChunks(X)
      /\ \A i \in DOMAIN buffer : InChunks(X, buffer[i].key) = IF i <= m THEN buffer[i].n ELSE 0
      /\ \A k : k \notin RowKeys(buffer) => InChunks(X, k) = 0
  BY <1>1, BeforeCounts
<1> HIDE DEF X
<1>7. /\ AreChunks(lane') /\ (\A c \in recognised' : IsRows(c)) /\ lane' \subseteq recognised'
      /\ IsKeyBag(merged')
      /\ \A k : InChunks(lane', k) + CountIn(k, merged')
                  = InChunks(lane, k) + CountIn(k, merged) + InChunks(X, k)
  BY <1>6, AdmitCounts DEF X
<1>8. CountsTyped'
  BY <1>5, <1>7, NoRows DEF CountsTyped
<1>9. IndexAgrees'
  <2>1. DOMAIN indexed' = {} /\ DOMAIN buffer' = {} /\ RowKeys(buffer') = {}
    BY NoRows
  <2> QED
    BY <2>1 DEF IndexAgrees
<1>10. ASSUME NEW k PROVE InRows(buffer, k) = InRows(tail, k) + InChunks(X, k)
  <2>1. CASE k \in RowKeys(buffer)
    <3>1. PICK i \in 1..L : buffer[i].key = k
      BY <1>1, <2>1, RowsAre DEF IsRows
    <3>2. i \in DOMAIN buffer /\ L <= Len(buffer)
      BY <1>1
    <3>3. InRows(tail, buffer[i].key) = IF m < i /\ i <= L THEN buffer[i].n ELSE 0
      <4> HIDE DEF L
      <4> QED
        BY <1>1, <3>2, PieceCounts
    <3>4. InChunks(X, buffer[i].key) = IF i <= m THEN buffer[i].n ELSE 0
      BY <1>6, <3>2
    <3>5. InRows(buffer, buffer[i].key) = buffer[i].n /\ buffer[i].n \in Nat
      BY <1>1, <3>2, CountsOfRows, RowsAre DEF IsRows
    <3>6. (i <= m /\ ~(m < i)) \/ (m < i /\ i <= L /\ ~(i <= m))
      <4>1. i \in Nat /\ m \in Nat /\ i <= L
        BY <1>1
      <4> HIDE DEF L
      <4> QED
        BY <4>1
    <3> DEFINE n == buffer[i].n
    <3> HIDE DEF n, tail
    <3>7. /\ InRows(buffer, k) = n /\ n \in Nat
          /\ InRows(tail, k) = IF m < i /\ i <= L THEN n ELSE 0
          /\ InChunks(X, k) = IF i <= m THEN n ELSE 0
      BY <3>1, <3>3, <3>4, <3>5 DEF n
    <3> QED
      BY <3>6, <3>7
  <2>2. CASE k \notin RowKeys(buffer)
    <3>1. InRows(tail, k) = 0
      <4>1. L <= Len(buffer)
        BY <1>1
      <4> HIDE DEF L
      <4> QED
        BY <1>1, <2>2, <4>1, PieceLacks
    <3>2. InRows(buffer, k) = 0
      BY <1>1, <2>2, CountsOfRows
    <3>3. InChunks(X, k) = 0
      BY <1>6, <2>2
    <3> QED
      BY <3>1, <3>2, <3>3
  <2> QED
    BY <2>1, <2>2
<1> HIDE DEF tail
<1>11. ASSUME NEW k PROVE Copies(k)' = Copies(k)
  <2> DEFINE r == InRows(tail, k)
             x == InChunks(X, k)
             l == InChunks(lane, k)
             n == InChunks(lane', k)
             d == CountIn(k, merged)
             e == CountIn(k, merged')
             t == CountIn(k, table)
             g == CountIn(k, lost)
  <2>1. Copies(k) = (r + x) + l + t + g + d
    BY <1>10 DEF Copies
  <2>2. Copies(k)' = 0 + n + t + (g + r) + e
    <3>1. CountIn(k, lost') = g + r /\ InRows(buffer', k) = 0
      BY <1>4, <1>5, NoRows
    <3> QED
      BY <3>1 DEF Copies
  <2>3. r \in Nat /\ x \in Nat /\ l \in Nat /\ n \in Nat /\ d \in Nat /\ e \in Nat /\ t \in Nat
        /\ g \in Nat
    BY <1>3, <1>6, <1>7, CountsOfRows, CountsOfChunks, CountNat DEF CountsTyped, IsKeyBag
  <2>4. n + e = l + d + x
    BY <1>7
  <2> HIDE DEF r, x, l, n, d, e, t, g
  <2> QED
    BY <2>1, <2>2, <2>3, <2>4
<1> QED
  BY <1>8, <1>9, <1>11, EmptyIsFew

\* A command taken from the lane leaves its events in the table or lost.
LEMMA TakenFromLane ==
  ASSUME CountsTyped, NEW c \in lane
  PROVE  /\ AreChunks(lane \ {c})
         /\ IsKeyBag(BagOf(c))
         /\ \A k : /\ InChunks(lane, k) = InRows(c, k) + InChunks(lane \ {c}, k)
                   /\ CountIn(k, BagOf(c)) = InRows(c, k)
                   /\ InRows(c, k) \in Nat /\ InChunks(lane \ {c}, k) \in Nat
<1>1. AreChunks(lane) /\ IsRows(c)
  BY DEF CountsTyped, AreChunks
<1>2. AreChunks(lane \ {c}) /\ \A k : InChunks(lane, k) = InRows(c, k) + InChunks(lane \ {c}, k)
  BY <1>1, ChunkGone
<1>3. IsABag(BagOf(c)) /\ DOMAIN BagOf(c) = RowKeys(c) /\ RowKeys(c) \subseteq CountKeys
  BY <1>1, CountsOfRows, RowsAre DEF IsRows
<1>4. IsKeyBag(BagOf(c)) /\ \A k : CountIn(k, BagOf(c)) = InRows(c, k)
  BY <1>3 DEF IsKeyBag, InRows
<1> QED
  BY <1>1, <1>2, <1>4, CountsOfRows, CountsOfChunks

LEMMA RecordKeeps ==
  ASSUME CountsTyped, NEW c \in lane, RecordBatch(c)
  PROVE  CountsTyped' /\ \A k : Copies(k)' = Copies(k)
<1> DEFINE B == BagOf(c)
           Y == lane \ {c}
<1>1. /\ AreChunks(Y) /\ IsKeyBag(B)
      /\ \A k : InChunks(lane, k) = InRows(c, k) + InChunks(Y, k) /\ CountIn(k, B) = InRows(c, k)
                /\ InRows(c, k) \in Nat /\ InChunks(Y, k) \in Nat
  BY TakenFromLane
<1>2. /\ lane' = Y /\ table' = table (+) B
      /\ UNCHANGED <<second, buffer, indexed, recognised, lost, merged, arrived, counting>>
  BY DEF RecordBatch
<1>3. Y \subseteq recognised
  BY DEF CountsTyped
<1> HIDE DEF B, Y
<1>4. IsKeyBag(table') /\ \A k : CountIn(k, table') = CountIn(k, table) + CountIn(k, B)
  BY <1>1, <1>2, PlusKeyBag DEF CountsTyped
<1>5. CountsTyped'
  BY <1>1, <1>2, <1>3, <1>4 DEF CountsTyped
<1>6. ASSUME NEW k PROVE Copies(k)' = Copies(k)
  <2> DEFINE b == InRows(buffer, k)
             l == InRows(c, k)
             y == InChunks(Y, k)
             t == CountIn(k, table)
             g == CountIn(k, lost)
             d == CountIn(k, merged)
  <2>1. Copies(k) = b + (l + y) + t + g + d
    BY <1>1 DEF Copies
  <2>2. Copies(k)' = b + y + (t + l) + g + d
    BY <1>1, <1>2, <1>4 DEF Copies
  <2>3. b \in Nat /\ l \in Nat /\ y \in Nat /\ t \in Nat /\ g \in Nat /\ d \in Nat
    BY <1>1, CountsOfRows, CountNat DEF CountsTyped, IsKeyBag
  <2> HIDE DEF b, l, y, t, g, d
  <2> QED
    BY <2>1, <2>2, <2>3
<1> QED
  BY <1>5, <1>6

LEMMA LoseKeeps ==
  ASSUME CountsTyped, NEW c \in lane, LoseBatch(c)
  PROVE  CountsTyped' /\ \A k : Copies(k)' = Copies(k)
<1> DEFINE B == BagOf(c)
           Y == lane \ {c}
<1>1. /\ AreChunks(Y) /\ IsKeyBag(B)
      /\ \A k : InChunks(lane, k) = InRows(c, k) + InChunks(Y, k) /\ CountIn(k, B) = InRows(c, k)
                /\ InRows(c, k) \in Nat /\ InChunks(Y, k) \in Nat
  BY TakenFromLane
<1>2. /\ lane' = Y /\ lost' = lost (+) B /\ recognised' = recognised \ {c}
      /\ UNCHANGED <<second, buffer, indexed, table, merged, arrived, counting>>
  BY DEF LoseBatch
<1>3. Y \subseteq recognised'
  BY <1>2 DEF CountsTyped
<1> HIDE DEF B, Y
<1>4. IsKeyBag(lost') /\ \A k : CountIn(k, lost') = CountIn(k, lost) + CountIn(k, B)
  BY <1>1, <1>2, PlusKeyBag DEF CountsTyped
<1>5. CountsTyped'
  BY <1>1, <1>2, <1>3, <1>4 DEF CountsTyped
<1>6. ASSUME NEW k PROVE Copies(k)' = Copies(k)
  <2> DEFINE b == InRows(buffer, k)
             l == InRows(c, k)
             y == InChunks(Y, k)
             t == CountIn(k, table)
             g == CountIn(k, lost)
             d == CountIn(k, merged)
  <2>1. Copies(k) = b + (l + y) + t + g + d
    BY <1>1 DEF Copies
  <2>2. Copies(k)' = b + y + t + (g + l) + d
    BY <1>1, <1>2, <1>4 DEF Copies
  <2>3. b \in Nat /\ l \in Nat /\ y \in Nat /\ t \in Nat /\ g \in Nat /\ d \in Nat
    BY <1>1, CountsOfRows, CountNat DEF CountsTyped, IsKeyBag
  <2> HIDE DEF b, l, y, t, g, d
  <2> QED
    BY <2>1, <2>2, <2>3
<1> QED
  BY <1>5, <1>6

LEMMA SameBalance ==
  ASSUME Balanced, \A k : Copies(k)' = Copies(k), UNCHANGED arrived
  PROVE  Balanced'
<1>1. CopiesTable' = CopiesTable
  BY DEF CopiesTable
<1>2. Came' = Came
  BY DEF Came
<1> QED
  BY <1>1, <1>2 DEF Balanced

-----------------------------------------------------------------------------
(* An event is counted *)

CountedOnce(k) == \A q \in CountKeys : Copies(q)' = Copies(q) + (IF q = k THEN 1 ELSE 0)
CameOnce(e) ==
  \A x \in CountedEvents : CountIn(x, arrived') = CountIn(x, arrived) + (IF x = e THEN 1 ELSE 0)

OneMore(new, old) == old \in Int /\ new = old + 1

\* The sum over a set goes up by one if the one that does is in it.
LEMMA SumOneMore ==
  ASSUME NEW S, IsFiniteSet(S), NEW w, NEW f, NEW g,
         \A x \in S : f[x] \in Int /\ g[x] = f[x] + (IF x = w THEN 1 ELSE 0)
  PROVE  /\ w \in S => OneMore(SumFunctionOnSet(g, S), SumFunctionOnSet(f, S))
         /\ w \notin S => SumFunctionOnSet(g, S) = SumFunctionOnSet(f, S)
<1>1. SumFunctionOnSet(f, S) \in Int
  BY SumType
<1>2. ASSUME w \in S PROVE SumFunctionOnSet(g, S) = SumFunctionOnSet(f, S) + 1
  <2>1. /\ \A x \in S : f[x] \in Int /\ g[x] \in Int
        /\ \A x \in S \ {w} : g[x] = f[x]
    OBVIOUS
  <2>2. SumFunctionOnSet(g, S) = SumFunctionOnSet(f, S) - f[w] + g[w]
    BY <1>2, <2>1, SumChanges
  <2>3. g[w] = f[w] + 1 /\ f[w] \in Int
    BY <1>2
  <2> QED
    BY <1>1, <2>2, <2>3
<1>3. ASSUME w \notin S PROVE SumFunctionOnSet(g, S) = SumFunctionOnSet(f, S)
  <2>1. \A x \in S : g[x] = f[x]
    BY <1>3
  <2> QED
    BY <2>1, SumAgrees
<1> QED
  BY <1>1, <1>2, <1>3 DEF OneMore

LEMMA OneMoreBalances ==
  ASSUME CountsTyped, Balanced, NEW k \in CountKeys, NEW e \in CountedEvents,
         k.source = e[1], k.class = e[3], k.kind = e[2] \/ k.kind = Aggregated,
         CountedOnce(k), CameOnce(e)
  PROVE  Balanced'
<1> DEFINE f == CopiesTable
           g == CopiesTable'
           a == Came
           b == Came'
<1>1. \A q \in CountKeys : f[q] \in Int /\ g[q] = f[q] + (IF q = k THEN 1 ELSE 0)
  <2>1. \A q \in CountKeys : f[q] = Copies(q) /\ g[q] = Copies(q)' /\ Copies(q) \in Int
    BY EverywhereCounts DEF CopiesTable
  <2> HIDE DEF f, g
  <2> QED
    BY <2>1 DEF CountedOnce
<1>2. \A x \in CountedEvents : a[x] \in Int /\ b[x] = a[x] + (IF x = e THEN 1 ELSE 0)
  <2>1. \A x \in CountedEvents :
          a[x] = CountIn(x, arrived) /\ b[x] = CountIn(x, arrived') /\ CountIn(x, arrived) \in Int
    BY CountNat DEF Came, CountsTyped
  <2> HIDE DEF a, b
  <2> QED
    BY <2>1 DEF CameOnce
<1> HIDE DEF f, g, a, b
<1>3. ASSUME NEW K \in SUBSET CountKeys
      PROVE  /\ k \in K => OneMore(SumFunctionOnSet(g, K), SumFunctionOnSet(f, K))
             /\ k \notin K => SumFunctionOnSet(g, K) = SumFunctionOnSet(f, K)
             /\ SumFunctionOnSet(f, K) \in Int
  <2>1. IsFiniteSet(K)
    BY KeysAreFinite, FS_Subset
  <2>2. \A q \in K : f[q] \in Int /\ g[q] = f[q] + (IF q = k THEN 1 ELSE 0)
    BY <1>1
  <2>3. \A q \in K : f[q] \in Int
    BY <1>1
  <2> QED
    BY <2>1, <2>2, <2>3, SumOneMore, SumType
<1>4. ASSUME NEW K \in SUBSET CountedEvents
      PROVE  /\ e \in K => OneMore(SumFunctionOnSet(b, K), SumFunctionOnSet(a, K))
             /\ e \notin K => SumFunctionOnSet(b, K) = SumFunctionOnSet(a, K)
  <2>1. IsFiniteSet(K)
    BY KeysAreFinite, FS_Subset
  <2>2. \A x \in K : a[x] \in Int /\ b[x] = a[x] + (IF x = e THEN 1 ELSE 0)
    BY <1>2
  <2> QED
    BY <2>1, <2>2, SumOneMore
<1>5. ASSUME NEW source \in Sources, NEW class \in Classes
      PROVE  SumFunctionOnSet(g, KeysUnder(source, class)) = SumFunctionOnSet(b, CameFrom(source, class))
  <2> DEFINE K == KeysUnder(source, class)
             C == CameFrom(source, class)
  <2>1. K \in SUBSET CountKeys /\ C \in SUBSET CountedEvents /\ (k \in K <=> e \in C)
    BY DEF KeysUnder, CameFrom
  <2>2. SumFunctionOnSet(f, K) = SumFunctionOnSet(a, C)
    BY DEF Balanced, f, a
  <2> HIDE DEF K, C
  <2>3. CASE k \in K
    <3>1. /\ OneMore(SumFunctionOnSet(g, K), SumFunctionOnSet(f, K))
          /\ OneMore(SumFunctionOnSet(b, C), SumFunctionOnSet(a, C))
      BY <1>3, <1>4, <2>1, <2>3
    <3> QED
      BY <2>2, <3>1 DEF OneMore, K, C
  <2>4. CASE k \notin K
    <3>1. /\ SumFunctionOnSet(g, K) = SumFunctionOnSet(f, K)
          /\ SumFunctionOnSet(b, C) = SumFunctionOnSet(a, C)
      BY <1>3, <1>4, <2>1, <2>4
    <3> QED
      BY <2>2, <3>1 DEF K, C
  <2> QED
    BY <2>3, <2>4 DEF K, C
<1>6. ASSUME NEW x \in Sources \X Range(KindOf) \X Classes
      PROVE  SumFunctionOnSet(g, KeysFor(x)) <= CountIn(x, arrived')
  <2> DEFINE K == KeysFor(x)
  <2>1. K \in SUBSET CountKeys
    BY DEF KeysFor
  <2>2. SumFunctionOnSet(f, K) <= CountIn(x, arrived)
    BY DEF Balanced, f
  <2>3. x \in CountedEvents
    BY DEF CountedEvents, Kinds
  <2>4. /\ CountIn(x, arrived') = CountIn(x, arrived) + (IF x = e THEN 1 ELSE 0)
        /\ CountIn(x, arrived) \in Int
    BY <2>3, CountNat DEF CameOnce, CountsTyped
  <2>5. k \in K => x = e
    <3> SUFFICES ASSUME k \in K PROVE x = e
      OBVIOUS
    <3>1. x = <<k.source, k.kind, k.class>>
      BY DEF KeysFor, Semantic
    <3>2. k.kind # Aggregated
      BY <3>1, CountsAssumption
    <3>3. e = <<e[1], e[2], e[3]>>
      BY DEF CountedEvents
    <3> QED
      BY <3>1, <3>2, <3>3
  <2> HIDE DEF K
  <2>6. CASE k \in K
    <3>1. OneMore(SumFunctionOnSet(g, K), SumFunctionOnSet(f, K)) /\ x = e
      BY <1>3, <2>1, <2>5, <2>6
    <3> QED
      BY <2>2, <2>4, <3>1 DEF OneMore, K
  <2>7. CASE k \notin K
    <3>1. SumFunctionOnSet(g, K) = SumFunctionOnSet(f, K) /\ SumFunctionOnSet(f, K) \in Int
      BY <1>3, <2>1, <2>7
    <3> QED
      BY <2>2, <2>4, <3>1 DEF K
  <2> QED
    BY <2>6, <2>7 DEF K
<1> QED
  BY <1>5, <1>6 DEF Balanced, g, b

\* The key an event is counted under
LEMMA UnderIs ==
  ASSUME CountsTyped, IndexAgrees, NEW c \in StreamKeys, NEW class \in Classes,
         NEW s \in 0..second, NEW k \in CountedUnder(KeyAt(s, c, class))
  PROVE  /\ k \in CountKeys /\ k.source = SourceOf[c] /\ k.class = class
         /\ (k.kind = KindOf[c] \/ k.kind = Aggregated)
         /\ \/ k \in RowKeys(buffer)
            \/ k.kind # Aggregated /\ Len(buffer) < CountCap
            \/ /\ k.kind = Aggregated
               /\ \A q \in Coarse(buffer) : ~(q.source = k.source /\ q.class = k.class)
<1> DEFINE own == KeyAt(s, c, class)
<1>1. /\ SourceOf[c] \in Sources /\ KindOf[c] \in Kinds /\ KindOf[c] # Aggregated
      /\ s \in 0..MaxSecond
  <2>1. KindOf[c] \in Range(KindOf) /\ SourceOf[c] \in Range(SourceOf)
    BY CountsAssumption DEF Range
  <2>2. s \in 0..MaxSecond
    BY CountsAssumption DEF CountsTyped
  <2> QED
    BY <2>1, <2>2, CountsAssumption DEF Sources, Kinds
<1>2. /\ own \in CountKeys /\ own.source = SourceOf[c] /\ own.kind = KindOf[c]
      /\ own.class = class /\ own.sec = s
  BY <1>1 DEF KeyAt, CountKeys
<1>3. /\ IsRows(buffer) /\ DOMAIN indexed = RowKeys(buffer) /\ RowKeys(buffer) \subseteq CountKeys
      /\ \A x \in RowKeys(buffer) : \E i \in DOMAIN buffer : buffer[i].key = x
      /\ \A i \in DOMAIN buffer : buffer[i].key \in RowKeys(buffer)
  BY RowsAre DEF IndexAgrees, CountsTyped, IsRows
<1> HIDE DEF own
<1>4. CASE (Len(buffer) < CountCap \/ \E i \in DOMAIN buffer : buffer[i].key = own) /\ k = own
  <2>1. own.kind # Aggregated
    BY <1>1, <1>2
  <2> QED
    BY <1>1, <1>2, <1>3, <1>4, <2>1
<1>5. CASE k \in SameMeaning(own)
  <2> DEFINE hits == {x \in DOMAIN indexed : Semantic(x) = Semantic(own)}
  <2>1. hits \subseteq DOMAIN indexed
    OBVIOUS
  <2>2. k \in FirstOf(hits)
    BY <1>5 DEF SameMeaning
  <2> HIDE DEF hits
  <2>3. k \in hits
    BY <1>3, <2>1, <2>2, FirstIsFound
  <2>4. k \in RowKeys(buffer) /\ Semantic(k) = Semantic(own)
    BY <1>3, <2>3 DEF hits
  <2>5. k.source = own.source /\ k.kind = own.kind /\ k.class = own.class
    BY <2>4 DEF Semantic
  <2> QED
    BY <1>2, <1>3, <2>4, <2>5
<1>6. CASE k \in CoarseBucket(own)
  <2> DEFINE hits == {x \in DOMAIN indexed :
                        x.kind = Aggregated /\ <<x.source, x.class>> = <<own.source, own.class>>}
  <2>1. hits \subseteq DOMAIN indexed
    OBVIOUS
  <2>2. k \in FirstOf(hits)
    BY <1>6 DEF CoarseBucket
  <2> HIDE DEF hits
  <2>3. k \in hits
    BY <1>3, <2>1, <2>2, FirstIsFound
  <2>4. k \in RowKeys(buffer) /\ k.kind = Aggregated /\ <<k.source, k.class>> = <<own.source, own.class>>
    BY <1>3, <2>3 DEF hits
  <2> QED
    BY <1>2, <1>3, <2>4
<1>7. CASE CoarseBucket(own) = {} /\ k = ReservedKey(own.sec, own.source, own.class)
  <2> DEFINE hits == {x \in DOMAIN indexed :
                        x.kind = Aggregated /\ <<x.source, x.class>> = <<own.source, own.class>>}
  <2>1. hits \subseteq DOMAIN indexed
    OBVIOUS
  <2>2. FirstOf(hits) = {}
    BY <1>7 DEF CoarseBucket
  <2>3. hits = {}
    <3> HIDE DEF hits
    <3> QED
      BY <1>3, <2>1, <2>2, FirstIsFound
  <2>4. /\ k.kind = Aggregated /\ k.source = own.source /\ k.class = own.class /\ k \in CountKeys
    BY <1>1, <1>2, <1>7 DEF ReservedKey, CountKeys, Kinds
  <2>5. \A q \in Coarse(buffer) : ~(q.source = k.source /\ q.class = k.class)
    BY <1>3, <2>3, <2>4 DEF Coarse
  <2> QED
    BY <1>2, <2>4, <2>5
<1> QED
  BY <1>4, <1>5, <1>6, <1>7 DEF CountedUnder, own

\* One more counted under a key that has a row
LEMMA RaisedRow ==
  ASSUME CountsTyped, IndexAgrees, Few, NEW k, NEW i \in DOMAIN buffer, buffer[i].key = k,
         buffer' = [j \in DOMAIN buffer |->
                      IF buffer[j].key = k THEN [buffer[j] EXCEPT !.n = @ + 1] ELSE buffer[j]],
         UNCHANGED indexed
  PROVE  /\ IsRows(buffer') /\ IndexAgrees' /\ Few'
         /\ \A q : InRows(buffer', q) = InRows(buffer, q) + (IF q = k THEN 1 ELSE 0)
<1>1. /\ IsRows(buffer) /\ DOMAIN buffer = 1..Len(buffer) /\ Len(buffer) \in Nat
      /\ \A j \in DOMAIN buffer : /\ buffer[j] \in BucketRows /\ buffer[j].n \in Nat
                                  /\ buffer[j].key \in RowKeys(buffer)
      /\ \A q \in RowKeys(buffer) : \E j \in DOMAIN buffer : buffer[j].key = q
      /\ \A j, l \in DOMAIN buffer : buffer[j].key = buffer[l].key => j = l
  BY RowsAre DEF CountsTyped, IsRows
<1>2. DOMAIN buffer' = DOMAIN buffer
  OBVIOUS
<1>3. ASSUME NEW j \in DOMAIN buffer
      PROVE  /\ buffer'[j].key = buffer[j].key /\ buffer'[j] \in BucketRows
             /\ buffer'[j].n = buffer[j].n + (IF j = i THEN 1 ELSE 0)
  <2> DEFINE r == buffer[j]
  <2>1. r \in BucketRows /\ r.n \in Nat
    BY <1>1
  <2>2. CASE j = i
    <3>1. buffer'[j] = [r EXCEPT !.n = @ + 1]
      BY <2>2
    <3> HIDE DEF r
    <3>2. [r EXCEPT !.n = @ + 1] \in BucketRows
      <4>1. r.n + 1 \in Nat \ {0}
        BY <2>1
      <4> QED
        BY <2>1, <4>1 DEF BucketRows
    <3>3. [r EXCEPT !.n = @ + 1].key = r.key /\ [r EXCEPT !.n = @ + 1].n = r.n + 1
      BY <2>1 DEF BucketRows
    <3> QED
      BY <2>2, <3>1, <3>2, <3>3 DEF r
  <2>3. CASE j # i
    <3>1. buffer'[j] = r
      BY <1>1, <2>3
    <3>2. r.n = r.n + (IF j = i THEN 1 ELSE 0)
      <4> DEFINE n == r.n
      <4>1. n \in Nat
        BY <2>1
      <4> HIDE DEF n
      <4>2. n = n + (IF j = i THEN 1 ELSE 0)
        BY <2>3, <4>1
      <4> QED
        BY <4>2 DEF n
    <3> QED
      BY <2>1, <3>1, <3>2
  <2> QED
    BY <2>2, <2>3
<1>4. IsRows(buffer')
  <2>1. buffer' \in Seq(BucketRows)
    <3>1. buffer' = [j \in 1..Len(buffer) |-> buffer'[j]]
      BY <1>1, <1>2
    <3>2. \A j \in 1..Len(buffer) : buffer'[j] \in BucketRows
      BY <1>1, <1>3
    <3> QED
      BY <1>1, <3>1, <3>2, IsASeq
  <2>2. \A j, l \in DOMAIN buffer' : buffer'[j].key = buffer'[l].key => j = l
    BY <1>1, <1>2, <1>3
  <2> QED
    BY <2>1, <2>2 DEF IsRows
<1>5. \A q : q \in RowKeys(buffer') <=> q \in RowKeys(buffer)
  <2> TAKE q
  <2>1. q \in RowKeys(buffer') <=> \E j \in DOMAIN buffer' : buffer'[j].key = q
    BY DEF RowKeys
  <2>2. q \in RowKeys(buffer) <=> \E j \in DOMAIN buffer : buffer[j].key = q
    BY DEF RowKeys
  <2> QED
    BY <1>2, <1>3, <2>1, <2>2
<1>6. Few'
  <2>1. RowKeys(buffer') \subseteq RowKeys(buffer)
    BY <1>5
  <2> QED
    BY <1>4, <2>1, FewerIsFew
<1>7. IndexAgrees'
  <2>1. DOMAIN indexed' = RowKeys(buffer')
    BY <1>5 DEF IndexAgrees
  <2>2. ASSUME NEW j \in DOMAIN buffer'
        PROVE  indexed'[buffer'[j].key] = {buffer'[l].key : l \in 1..(j - 1)}
    <3>1. indexed[buffer[j].key] = {buffer[l].key : l \in 1..(j - 1)} /\ buffer'[j].key = buffer[j].key
      BY <1>2, <1>3 DEF IndexAgrees
    <3>2. \A l \in 1..(j - 1) : buffer'[l].key = buffer[l].key
      <4>1. \A l \in 1..(j - 1) : l \in DOMAIN buffer
        BY <1>1, <1>2
      <4> QED
        BY <1>3, <4>1
    <3>3. {buffer[l].key : l \in 1..(j - 1)} = {buffer'[l].key : l \in 1..(j - 1)}
      <4> DEFINE I == 1..(j - 1)
      <4>1. \A l \in I : buffer'[l].key = buffer[l].key
        BY <3>2
      <4> HIDE DEF I
      <4>2. {buffer[l].key : l \in I} = {buffer'[l].key : l \in I}
        BY <4>1
      <4> QED
        BY <4>2 DEF I
    <3> QED
      BY <3>1, <3>3
  <2>3. \A j, l \in DOMAIN buffer' : buffer'[j].key = buffer'[l].key => j = l
    BY <1>4 DEF IsRows
  <2> QED
    BY <2>1, <2>2, <2>3 DEF IndexAgrees
<1>8. ASSUME NEW q PROVE InRows(buffer', q) = InRows(buffer, q) + (IF q = k THEN 1 ELSE 0)
  <2>1. CASE q \in RowKeys(buffer)
    <3>1. PICK j \in DOMAIN buffer : buffer[j].key = q
      BY <1>1, <2>1
    <3>2. q = k <=> j = i
      BY <1>1, <3>1
    <3>3. InRows(buffer, q) = buffer[j].n
      BY <1>1, <3>1, CountsOfRows
    <3>4. InRows(buffer', q) = buffer'[j].n
      BY <1>2, <1>3, <1>4, <3>1, CountsOfRows
    <3> QED
      BY <1>3, <3>1, <3>2, <3>3, <3>4
  <2>2. CASE q \notin RowKeys(buffer)
    <3>1. InRows(buffer, q) = 0 /\ InRows(buffer', q) = 0
      BY <1>1, <1>4, <1>5, <2>2, CountsOfRows
    <3>2. q # k
      BY <1>1, <2>2
    <3> QED
      BY <3>1, <3>2
  <2> QED
    BY <2>1, <2>2
<1> QED
  BY <1>4, <1>6, <1>7, <1>8

\* A row for a key that has none
LEMMA NewRowBehind ==
  ASSUME CountsTyped, IndexAgrees, NEW k \in CountKeys, k \notin RowKeys(buffer),
         buffer' = Append(buffer, [key |-> k, n |-> 1]),
         indexed' = [x \in DOMAIN indexed \cup {k} |->
                       IF x = k THEN DOMAIN indexed ELSE indexed[x]]
  PROVE  /\ IsRows(buffer') /\ IndexAgrees'
         /\ \A q : q \in RowKeys(buffer') <=> q \in RowKeys(buffer) \/ q = k
         /\ \A q : InRows(buffer', q) = InRows(buffer, q) + (IF q = k THEN 1 ELSE 0)
<1> DEFINE L == Len(buffer)
           r == [key |-> k, n |-> 1]
<1>1. /\ IsRows(buffer) /\ DOMAIN buffer = 1..L /\ L \in Nat /\ buffer \in Seq(BucketRows)
      /\ \A j \in DOMAIN buffer : /\ buffer[j] \in BucketRows /\ buffer[j].n \in Nat
                                  /\ buffer[j].key \in RowKeys(buffer)
      /\ \A q \in RowKeys(buffer) : \E j \in DOMAIN buffer : buffer[j].key = q
      /\ \A j, l \in DOMAIN buffer : buffer[j].key = buffer[l].key => j = l
  BY RowsAre DEF CountsTyped, IsRows
<1>2. r \in BucketRows /\ r.key = k /\ r.n = 1
  BY DEF BucketRows
<1> HIDE DEF r, L
<1>3. /\ buffer' \in Seq(BucketRows) /\ DOMAIN buffer' = 1..(L + 1)
      /\ \A j \in 1..L : buffer'[j] = buffer[j]
      /\ buffer'[L + 1] = r
  <2>1. buffer' = Append(buffer, r)
    BY DEF r
  <2>2. /\ Append(buffer, r) \in Seq(BucketRows)
        /\ Len(Append(buffer, r)) = Len(buffer) + 1
        /\ \A j \in 1..Len(buffer) : Append(buffer, r)[j] = buffer[j]
        /\ Append(buffer, r)[Len(buffer) + 1] = r
    BY <1>1, <1>2, AppendProperties
  <2> QED
    BY <2>1, <2>2 DEF L
<1>4. ASSUME NEW j \in DOMAIN buffer' PROVE (j \in 1..L /\ buffer'[j] = buffer[j]) \/ (j = L + 1 /\ buffer'[j] = r)
  <2>1. j \in 1..L \/ j = L + 1
    BY <1>1, <1>3
  <2> QED
    BY <1>3, <2>1
<1>5. IsRows(buffer')
  <2> SUFFICES ASSUME NEW i \in DOMAIN buffer', NEW j \in DOMAIN buffer',
                      buffer'[i].key = buffer'[j].key
               PROVE  i = j
    BY <1>3 DEF IsRows
  <2> QED
    BY <1>1, <1>2, <1>4
<1>6. ASSUME NEW q PROVE q \in RowKeys(buffer') <=> q \in RowKeys(buffer) \/ q = k
  <2>1. q \in RowKeys(buffer') <=> \E j \in DOMAIN buffer' : buffer'[j].key = q
    BY DEF RowKeys
  <2>2. ASSUME NEW j \in DOMAIN buffer', buffer'[j].key = q PROVE q \in RowKeys(buffer) \/ q = k
    BY <1>1, <1>2, <1>4, <2>2
  <2>3. ASSUME q \in RowKeys(buffer) PROVE \E j \in DOMAIN buffer' : buffer'[j].key = q
    <3>1. PICK j \in 1..L : buffer[j].key = q
      BY <1>1, <2>3
    <3>2. j \in DOMAIN buffer'
      BY <1>1, <1>3
    <3> QED
      BY <1>3, <3>1, <3>2
  <2>4. ASSUME q = k PROVE \E j \in DOMAIN buffer' : buffer'[j].key = q
    <3>1. L + 1 \in DOMAIN buffer'
      BY <1>1, <1>3
    <3> QED
      BY <1>2, <1>3, <2>4, <3>1
  <2> QED
    BY <2>1, <2>2, <2>3, <2>4
<1>7. IndexAgrees'
  <2>1. DOMAIN indexed = RowKeys(buffer)
    BY DEF IndexAgrees
  <2>2. DOMAIN indexed' = RowKeys(buffer')
    BY <1>6, <2>1
  <2>3. ASSUME NEW j \in DOMAIN buffer'
        PROVE  indexed'[buffer'[j].key] = {buffer'[l].key : l \in 1..(j - 1)}
    <3>1. CASE j \in 1..L /\ buffer'[j] = buffer[j]
      <4>1. /\ indexed[buffer[j].key] = {buffer[l].key : l \in 1..(j - 1)}
            /\ buffer[j].key \in RowKeys(buffer)
        BY <1>1, <3>1 DEF IndexAgrees
      <4>2. indexed'[buffer[j].key] = indexed[buffer[j].key]
        BY <2>1, <4>1
      <4>3. \A l \in 1..(j - 1) : buffer'[l] = buffer[l]
        <5>1. \A l \in 1..(j - 1) : l \in 1..L
          BY <1>1, <3>1
        <5> QED
          BY <1>3, <5>1
      <4>4. {buffer[l].key : l \in 1..(j - 1)} = {buffer'[l].key : l \in 1..(j - 1)}
        <5> DEFINE I == 1..(j - 1)
        <5>1. \A l \in I : buffer'[l] = buffer[l]
          BY <4>3
        <5> HIDE DEF I
        <5>2. {buffer[l].key : l \in I} = {buffer'[l].key : l \in I}
          BY <5>1
        <5> QED
          BY <5>2 DEF I
      <4> QED
        BY <3>1, <4>1, <4>2, <4>4
    <3>2. CASE j = L + 1 /\ buffer'[j] = r
      <4>1. indexed'[buffer'[j].key] = RowKeys(buffer)
        BY <1>2, <2>1, <3>2
      <4>2. j - 1 = L
        BY <1>1, <3>2
      <4>3. ASSUME NEW q PROVE q \in RowKeys(buffer) <=> \E l \in 1..L : buffer'[l].key = q
        <5>1. q \in RowKeys(buffer) <=> \E l \in 1..L : buffer[l].key = q
          BY <1>1 DEF RowKeys
        <5>2. \A l \in 1..L : buffer'[l] = buffer[l]
          BY <1>3
        <5> QED
          BY <5>1, <5>2
      <4> QED
        BY <4>1, <4>2, <4>3
    <3> QED
      BY <1>4, <3>1, <3>2
  <2>4. \A j, l \in DOMAIN buffer' : buffer'[j].key = buffer'[l].key => j = l
    BY <1>5 DEF IsRows
  <2> QED
    BY <2>2, <2>3, <2>4 DEF IndexAgrees
<1>8. ASSUME NEW q PROVE InRows(buffer', q) = InRows(buffer, q) + (IF q = k THEN 1 ELSE 0)
  <2>1. CASE q \in RowKeys(buffer)
    <3>1. PICK j \in 1..L : buffer[j].key = q
      BY <1>1, <2>1
    <3>2. j \in DOMAIN buffer' /\ buffer'[j] = buffer[j] /\ j \in DOMAIN buffer
      BY <1>1, <1>3
    <3>3. InRows(buffer, q) = buffer[j].n
      BY <1>1, <3>1, <3>2, CountsOfRows
    <3>4. InRows(buffer', q) = buffer'[j].n
      BY <1>5, <3>1, <3>2, CountsOfRows
    <3>5. buffer[j].n \in Nat /\ q # k
      BY <1>1, <2>1, <3>2
    <3> QED
      BY <3>2, <3>3, <3>4, <3>5
  <2>2. CASE q = k
    <3>1. L + 1 \in DOMAIN buffer' /\ buffer'[L + 1] = r
      BY <1>1, <1>3
    <3> DEFINE j == L + 1
    <3>2. j \in DOMAIN buffer' /\ buffer'[j].key = q /\ buffer'[j].n = 1
      BY <1>2, <2>2, <3>1
    <3> HIDE DEF j
    <3>3. InRows(buffer', q) = 1
      BY <1>5, <3>2, CountsOfRows
    <3>4. InRows(buffer, q) = 0
      BY <1>1, <2>2, CountsOfRows
    <3> QED
      BY <2>2, <3>3, <3>4
  <2>3. CASE q \notin RowKeys(buffer) /\ q # k
    <3>1. InRows(buffer, q) = 0 /\ InRows(buffer', q) = 0
      BY <1>1, <1>5, <1>6, <2>3, CountsOfRows
    <3> QED
      BY <2>3, <3>1
  <2> QED
    BY <2>1, <2>2, <2>3
<1> QED
  BY <1>5, <1>6, <1>7, <1>8

\* A new row keeps the buffer bounded.
LEMMA NewRowIsFew ==
  ASSUME CountsTyped, Few, NEW k, IsRows(buffer'),
         \A q : q \in RowKeys(buffer') <=> q \in RowKeys(buffer) \/ q = k,
         \/ k.kind # Aggregated /\ Len(buffer) < CountCap
         \/ /\ k.kind = Aggregated
            /\ \A q \in Coarse(buffer) : ~(q.source = k.source /\ q.class = k.class)
  PROVE  Few'
<1>1. IsRows(buffer)
  BY DEF CountsTyped
<1>2. /\ IsFiniteSet(RowKeys(buffer)) /\ Cardinality(RowKeys(buffer)) = Len(buffer)
      /\ Len(buffer) \in Nat /\ CountCap \in Nat
  BY <1>1, RowKeysFinite, RowsAre, CountsAssumption DEF IsRows
<1>3. /\ IsFiniteSet(Plain(buffer)) /\ Cardinality(Plain(buffer)) \in Nat
      /\ Cardinality(Plain(buffer)) <= Len(buffer)
  <2>1. Plain(buffer) \in SUBSET RowKeys(buffer)
    BY DEF Plain
  <2>2. IsFiniteSet(Plain(buffer)) /\ Cardinality(Plain(buffer)) <= Cardinality(RowKeys(buffer))
    BY <1>2, <2>1, FS_Subset
  <2> QED
    BY <1>2, <2>2, FS_CardinalityType
<1>4. CASE k.kind # Aggregated /\ Len(buffer) < CountCap
  <2>1. Plain(buffer') \in SUBSET (Plain(buffer) \cup {k}) /\ Coarse(buffer') \subseteq Coarse(buffer)
    BY <1>4 DEF Plain, Coarse
  <2>2. /\ IsFiniteSet(Plain(buffer) \cup {k})
        /\ \/ Cardinality(Plain(buffer) \cup {k}) = Cardinality(Plain(buffer))
           \/ Cardinality(Plain(buffer) \cup {k}) = Cardinality(Plain(buffer)) + 1
    BY <1>3, FS_AddElement
  <2>3. Cardinality(Plain(buffer')) <= Cardinality(Plain(buffer) \cup {k})
        /\ IsFiniteSet(Plain(buffer'))
    BY <2>1, <2>2, FS_Subset
  <2>4. Cardinality(Plain(buffer')) \in Nat
    BY <2>3, FS_CardinalityType
  <2> DEFINE n == Cardinality(Plain(buffer'))
             p == Cardinality(Plain(buffer))
             u == Cardinality(Plain(buffer) \cup {k})
             l == Len(buffer)
  <2>5. n <= CountCap
    <3>1. n \in Nat /\ p \in Nat /\ l \in Nat /\ CountCap \in Nat /\ n <= u /\ p <= l /\ l < CountCap
          /\ (u = p \/ u = p + 1)
      BY <1>2, <1>3, <1>4, <2>2, <2>3, <2>4
    <3> HIDE DEF n, p, u, l
    <3> QED
      BY <3>1
  <2>6. \A j, q \in Coarse(buffer') : j.source = q.source /\ j.class = q.class => j = q
    BY <2>1 DEF Few
  <2> QED
    BY <2>5, <2>6 DEF Few
<1>5. CASE /\ k.kind = Aggregated
           /\ \A q \in Coarse(buffer) : ~(q.source = k.source /\ q.class = k.class)
  <2>1. Plain(buffer') = Plain(buffer)
    BY <1>5 DEF Plain
  <2>2. \A q : q \in Coarse(buffer') => q \in Coarse(buffer) \/ q = k
    BY DEF Coarse
  <2>3. \A j, q \in Coarse(buffer') : j.source = q.source /\ j.class = q.class => j = q
    BY <1>5, <2>2 DEF Few
  <2> QED
    BY <2>1, <2>3 DEF Few
<1> QED
  BY <1>4, <1>5

LEMMA OneCame ==
  ASSUME CountsTyped, NEW e \in CountedEvents, arrived' = arrived (+) SetToBag({e})
  PROVE  IsABag(arrived') /\ DOMAIN arrived' \subseteq CountedEvents /\ CameOnce(e)
<1> DEFINE B == SetToBag({e})
<1>1. /\ IsABag(B) /\ DOMAIN B = {e}
      /\ \A x : CountIn(x, B) = IF x = e THEN 1 ELSE 0
  BY DEF SetToBag, IsABag, CountIn
<1>2. IsABag(arrived) /\ DOMAIN arrived \subseteq CountedEvents /\ arrived' = arrived (+) B
  BY DEF CountsTyped
<1> HIDE DEF B
<1>3. IsABag(arrived') /\ \A k : k \in DOMAIN arrived' <=> k \in DOMAIN arrived \/ k \in DOMAIN B
  BY <1>1, <1>2, BagPlus
<1>4. ASSUME NEW x PROVE CountIn(x, arrived') = CountIn(x, arrived) + CountIn(x, B)
  BY <1>1, <1>2, BagPlus
<1>5. CameOnce(e)
  <2> SUFFICES ASSUME NEW x \in CountedEvents
               PROVE  CountIn(x, arrived') = CountIn(x, arrived) + (IF x = e THEN 1 ELSE 0)
    BY DEF CameOnce
  <2> QED
    BY <1>1, <1>4
<1> QED
  BY <1>1, <1>2, <1>3, <1>5

LEMMA BufferKeeps ==
  ASSUME CountsTyped, IndexAgrees, Few, Balanced,
         NEW c \in StreamKeys, NEW class \in Classes, NEW s \in 0..second,
         BufferCount(c, class, s)
  PROVE  CountsTyped' /\ IndexAgrees' /\ Few' /\ Balanced'
<1> DEFINE e == <<SourceOf[c], KindOf[c], class>>
<1>1. /\ arrived' = arrived (+) SetToBag({e})
      /\ UNCHANGED <<second, lane, recognised, table, lost, merged, counting>>
  BY DEF BufferCount
<1>2. PICK k \in CountedUnder(KeyAt(s, c, class)) :
        IF \E i \in DOMAIN buffer : buffer[i].key = k
        THEN /\ buffer' = [i \in DOMAIN buffer |->
                  IF buffer[i].key = k THEN [buffer[i] EXCEPT !.n = @ + 1] ELSE buffer[i]]
             /\ UNCHANGED indexed
        ELSE /\ buffer' = Append(buffer, [key |-> k, n |-> 1])
             /\ indexed' = [x \in DOMAIN indexed \cup {k} |->
                              IF x = k THEN DOMAIN indexed ELSE indexed[x]]
  BY DEF BufferCount
<1>3. /\ k \in CountKeys /\ k.source = SourceOf[c] /\ k.class = class
      /\ (k.kind = KindOf[c] \/ k.kind = Aggregated)
      /\ \/ k \in RowKeys(buffer)
         \/ k.kind # Aggregated /\ Len(buffer) < CountCap
         \/ /\ k.kind = Aggregated
            /\ \A q \in Coarse(buffer) : ~(q.source = k.source /\ q.class = k.class)
  BY UnderIs
<1>4. e \in CountedEvents /\ e[1] = k.source /\ e[3] = k.class
      /\ (k.kind = e[2] \/ k.kind = Aggregated)
  <2>1. KindOf[c] \in Range(KindOf) /\ SourceOf[c] \in Range(SourceOf)
    BY CountsAssumption DEF Range
  <2> QED
    BY <1>3, <2>1 DEF CountedEvents, Sources, Kinds
<1>5. k \in RowKeys(buffer) <=> \E i \in DOMAIN buffer : buffer[i].key = k
  BY DEF RowKeys
<1> HIDE DEF e
<1>6. /\ IsRows(buffer') /\ IndexAgrees' /\ Few'
      /\ \A q : InRows(buffer', q) = InRows(buffer, q) + (IF q = k THEN 1 ELSE 0)
  <2>1. CASE k \in RowKeys(buffer)
    <3>1. PICK i \in DOMAIN buffer : buffer[i].key = k
      BY <1>5, <2>1
    <3>2. /\ buffer' = [j \in DOMAIN buffer |->
                  IF buffer[j].key = k THEN [buffer[j] EXCEPT !.n = @ + 1] ELSE buffer[j]]
          /\ UNCHANGED indexed
      BY <1>2, <3>1
    <3> QED
      BY <3>1, <3>2, RaisedRow
  <2>2. CASE k \notin RowKeys(buffer)
    <3>1. /\ buffer' = Append(buffer, [key |-> k, n |-> 1])
          /\ indexed' = [x \in DOMAIN indexed \cup {k} |->
                           IF x = k THEN DOMAIN indexed ELSE indexed[x]]
      BY <1>2, <1>5, <2>2
    <3>2. /\ IsRows(buffer') /\ IndexAgrees'
          /\ \A q : q \in RowKeys(buffer') <=> q \in RowKeys(buffer) \/ q = k
          /\ \A q : InRows(buffer', q) = InRows(buffer, q) + (IF q = k THEN 1 ELSE 0)
      BY <1>3, <2>2, <3>1, NewRowBehind
    <3>3. Few'
      BY <1>3, <2>2, <3>2, NewRowIsFew
    <3> QED
      BY <3>2, <3>3
  <2> QED
    BY <2>1, <2>2
<1>7. IsABag(arrived') /\ DOMAIN arrived' \subseteq CountedEvents /\ CameOnce(e)
  BY <1>1, <1>4, OneCame
<1>8. CountsTyped'
  BY <1>1, <1>6, <1>7 DEF CountsTyped
<1>9. CountedOnce(k)
  <2> SUFFICES ASSUME NEW q \in CountKeys
               PROVE  Copies(q)' = Copies(q) + (IF q = k THEN 1 ELSE 0)
    BY DEF CountedOnce
  <2> DEFINE b == InRows(buffer, q)
             y == InChunks(lane, q)
             t == CountIn(q, table)
             g == CountIn(q, lost)
             d == CountIn(q, merged)
             u == IF q = k THEN 1 ELSE 0
  <2>1. Copies(q) = b + y + t + g + d
    BY DEF Copies
  <2>2. Copies(q)' = (b + u) + y + t + g + d
    BY <1>1, <1>6 DEF Copies
  <2>3. b \in Nat /\ y \in Nat /\ t \in Nat /\ g \in Nat /\ d \in Nat /\ u \in Nat
    BY CountsOfRows, CountsOfChunks, CountNat DEF CountsTyped, IsKeyBag
  <2>4. Copies(q)' = Copies(q) + u
    <3> HIDE DEF b, y, t, g, d, u
    <3> QED
      BY <2>1, <2>2, <2>3
  <2> QED
    BY <2>4
<1>10. Balanced'
  BY <1>3, <1>4, <1>7, <1>9, OneMoreBalances
<1> QED
  BY <1>6, <1>8, <1>10

-----------------------------------------------------------------------------
(* Seconds roll up into minutes *)

\* A set of keys that holds a key and its minute or neither
ByMinutes(K) == K \subseteq CountKeys /\ \A k \in CountKeys : MinuteOf(k) \in K <=> k \in K

InTable(B) == [k \in CountKeys |-> CountIn(k, B)]

LEMMA MinuteIs ==
  ASSUME NEW k \in CountKeys
  PROVE  /\ MinuteOf(k) \in CountKeys /\ MinuteOf(k).source = k.source
         /\ MinuteOf(k).class = k.class /\ Semantic(MinuteOf(k)) = Semantic(k)
  BY DEF MinuteOf, CountKeys, Semantic

LEMMA MinutesCount ==
  ASSUME CountsTyped, NEW old, old \subseteq DOMAIN table
  PROVE  /\ IsKeyBag(InMinutes(old))
         /\ \A k : CountIn(k, InMinutes(old))
                     = SumFunctionOnSet(table, {q \in old : MinuteOf(q) = k})
<1> DEFINE M == InMinutes(old)
           D == {MinuteOf(q) : q \in old}
           F(k) == {q \in old : MinuteOf(q) = k}
<1>1. /\ IsABag(table) /\ DOMAIN table \subseteq CountKeys
      /\ \A q \in DOMAIN table : table[q] \in Nat /\ table[q] > 0
  BY DEF CountsTyped, IsKeyBag, IsABag
<1>2. /\ DOMAIN M = D /\ M = [k \in D |-> SumFunctionOnSet(table, F(k))]
      /\ \A k \in D : M[k] = SumFunctionOnSet(table, F(k))
  BY DEF InMinutes
<1>3. D \subseteq CountKeys
  BY <1>1, MinuteIs
<1>4. IsFiniteSet(old)
  <2>1. old \in SUBSET CountKeys
    BY <1>1
  <2> QED
    BY <2>1, KeysAreFinite, FS_Subset
<1>5. ASSUME NEW k
      PROVE  IsFiniteSet(F(k)) /\ \A q \in F(k) : table[q] \in Nat /\ table[q] > 0
  BY <1>1, <1>4, FS_Subset
<1>6. ASSUME NEW k \in D PROVE M[k] \in Nat /\ M[k] > 0
  <2>1. PICK q \in old : MinuteOf(q) = k
    OBVIOUS
  <2> DEFINE S == F(k)
  <2>2. /\ IsFiniteSet(S) /\ q \in S
        /\ \A x \in S : table[x] \in Nat /\ table[x] > 0
    BY <1>5, <2>1
  <2>3. M[k] = SumFunctionOnSet(table, S)
    BY <1>2
  <2> HIDE DEF S, M, F
  <2>4. \A x \in S : table[x] \in Int
    BY <2>2
  <2>5. IsFiniteSet(S \ {q}) /\ \A x \in S \ {q} : table[x] \in Nat
    BY <2>2, FS_Subset
  <2>6. SumFunctionOnSet(table, S \ {q}) \in Nat
    BY <2>5, SumNat
  <2>7. SumFunctionOnSet(table, S) = table[q] + SumFunctionOnSet(table, S \ {q})
    BY <2>2, <2>4, SumWithout
  <2> QED
    BY <2>2, <2>3, <2>6, <2>7
<1>7. IsKeyBag(M)
  <2> HIDE DEF D, F
  <2>1. M = [k \in DOMAIN M |-> M[k]]
    BY <1>2
  <2> HIDE DEF M
  <2> QED
    BY <1>2, <1>3, <1>6, <2>1 DEF IsKeyBag, IsABag
<1>8. ASSUME NEW k PROVE CountIn(k, M) = SumFunctionOnSet(table, F(k))
  <2>1. CASE k \in D
    BY <1>2, <2>1 DEF CountIn
  <2>2. CASE k \notin D
    <3>1. F(k) = {}
      BY <2>2
    <3>2. SumFunctionOnSet(table, F(k)) = 0
      BY <3>1, SumEmpty
    <3> QED
      BY <1>2, <2>2, <3>2 DEF CountIn
  <2> QED
    BY <2>1, <2>2
<1> QED
  BY <1>7, <1>8

\* What rolls up stays in the sum of every such set.
LEMMA RolledSums ==
  ASSUME CountsTyped, NEW old, old \subseteq DOMAIN table,
         table' = [k \in DOMAIN table \ old |-> table[k]] (+) InMinutes(old)
  PROVE  /\ IsKeyBag(table')
         /\ \A K : ByMinutes(K) => SumFunctionOnSet(InTable(table'), K)
                                     = SumFunctionOnSet(InTable(table), K)
<1> DEFINE R == [k \in DOMAIN table \ old |-> table[k]]
           M == InMinutes(old)
<1>1. IsKeyBag(table) /\ IsABag(table) /\ DOMAIN table \subseteq CountKeys
  BY DEF CountsTyped, IsKeyBag
<1>2. /\ IsKeyBag(R)
      /\ \A k : k \in old => CountIn(k, R) = 0
      /\ \A k : k \notin old => CountIn(k, R) = CountIn(k, table)
  BY <1>1 DEF IsKeyBag, IsABag, CountIn
<1>3. IsKeyBag(M) /\ \A k : CountIn(k, M) = SumFunctionOnSet(table, {q \in old : MinuteOf(q) = k})
  BY MinutesCount
<1>4. table' = R (+) M
  OBVIOUS
<1> HIDE DEF R, M
<1>5. IsKeyBag(table') /\ \A k : CountIn(k, table') = CountIn(k, R) + CountIn(k, M)
  <2> HIDE DEF CountIn
  <2>1. IsKeyBag(R) /\ IsKeyBag(M)
    BY <1>2, <1>3
  <2> DEFINE N == table'
  <2>2. N = R (+) M
    BY <1>4
  <2> HIDE DEF N
  <2>3. IsKeyBag(N) /\ \A k : CountIn(k, N) = CountIn(k, R) + CountIn(k, M)
    BY <2>1, <2>2, PlusKeyBag
  <2> QED
    BY <2>3 DEF N
<1>6. ASSUME NEW K, ByMinutes(K)
      PROVE  SumFunctionOnSet(InTable(table'), K) = SumFunctionOnSet(InTable(table), K)
  <2> DEFINE h == InTable(table')
             t == InTable(table)
             r == InTable(R)
             m == InTable(M)
             U == K \cap old
             V == K \ old
             w == [q \in U |-> MinuteOf(q)]
  <2>1. K \in SUBSET CountKeys /\ U \in SUBSET CountKeys /\ V \in SUBSET CountKeys
    BY <1>6 DEF ByMinutes
  <2>2. IsFiniteSet(K) /\ IsFiniteSet(U) /\ IsFiniteSet(V)
    BY <2>1, KeysAreFinite, FS_Subset
  <2>3. \A k \in K : /\ h[k] = CountIn(k, table') /\ t[k] = CountIn(k, table)
                     /\ r[k] = CountIn(k, R) /\ m[k] = CountIn(k, M)
    BY <2>1 DEF InTable
  <2>4. \A q \in U : w[q] = MinuteOf(q) /\ w[q] \in K
    BY <1>6, <2>1 DEF ByMinutes
  <2>5. \A q \in U : t[q] = table[q] /\ table[q] \in Int
    <3> TAKE q \in U
    <3>1. q \in DOMAIN table /\ q \in K
      OBVIOUS
    <3>2. table[q] \in Nat
      BY <1>1, <3>1 DEF IsABag
    <3> HIDE DEF t
    <3> QED
      BY <2>3, <3>1, <3>2 DEF CountIn
  <2>6. U \cap V = {} /\ K = V \cup U /\ V \subseteq K
    OBVIOUS
  <2>7. \A k \in K : {q \in old : MinuteOf(q) = k} = {q \in U : w[q] = k}
    <3> TAKE k \in K
    <3>1. \A q \in old : MinuteOf(q) = k => q \in U
      BY <1>1, <1>6 DEF ByMinutes
    <3>2. U \subseteq old
      OBVIOUS
    <3> HIDE DEF U, w
    <3>3. \A q : q \in {q_1 \in old : MinuteOf(q_1) = k} <=> q \in {q_1 \in U : w[q_1] = k}
      BY <2>4, <3>1, <3>2
    <3> QED
      BY <3>3
  <2>8. \A k \in K : m[k] = SumFunctionOnSet(table, Fibre(U, w, k))
    BY <1>3, <2>3, <2>7 DEF Fibre
  <2>9. \A k \in K : /\ r[k] \in Int /\ m[k] \in Int /\ t[k] \in Int /\ h[k] = r[k] + m[k]
                     /\ k \in V => r[k] = t[k]
                     /\ k \notin V => r[k] = 0
    <3> TAKE k \in K
    <3>1. k \in V <=> k \notin old
      OBVIOUS
    <3>2. CountIn(k, R) \in Nat /\ CountIn(k, M) \in Nat /\ CountIn(k, table) \in Nat
      BY <1>1, <1>2, <1>3, CountNat DEF IsKeyBag
    <3>3. CountIn(k, table') = CountIn(k, R) + CountIn(k, M)
      BY <1>5
    <3>4. (k \in V => CountIn(k, R) = CountIn(k, table)) /\ (k \notin V => CountIn(k, R) = 0)
      BY <1>2, <3>1
    <3>5. h[k] = CountIn(k, table') /\ t[k] = CountIn(k, table)
          /\ r[k] = CountIn(k, R) /\ m[k] = CountIn(k, M)
      BY <2>3
    <3> HIDE DEF V, h, t, r, m
    <3> QED
      BY <3>2, <3>3, <3>4, <3>5
  <2> HIDE DEF h, t, r, m, U, V, w
  <2>10. SumFunctionOnSet(h, K) = SumFunctionOnSet(r, K) + SumFunctionOnSet(m, K)
    BY <2>2, <2>9, SumOfBoth
  <2>11. SumFunctionOnSet(r, K) = SumFunctionOnSet(r, V)
    BY <2>2, <2>6, <2>9, SumOverLess
  <2>12. SumFunctionOnSet(r, V) = SumFunctionOnSet(t, V)
    <3>1. \A k \in V : r[k] = t[k]
      BY <2>6, <2>9
    <3> QED
      BY <2>2, <3>1, SumAgrees
  <2>13. SumFunctionOnSet(m, K) = SumFunctionOnSet(table, U)
    BY <2>2, <2>4, <2>5, <2>8, SumFibres
  <2>14. SumFunctionOnSet(table, U) = SumFunctionOnSet(t, U)
    BY <2>2, <2>5, SumAgrees
  <2>15. SumFunctionOnSet(t, K) = SumFunctionOnSet(t, V) + SumFunctionOnSet(t, U)
    <3>1. \A k \in V \cup U : t[k] \in Int
      BY <2>6, <2>9
    <3> QED
      BY <2>2, <2>6, <3>1, SumApart
  <2>16. SumFunctionOnSet(h, K) = SumFunctionOnSet(t, K)
    BY <2>10, <2>11, <2>12, <2>13, <2>14, <2>15
  <2> QED
    BY <2>16 DEF h, t
<1> QED
  BY <1>5, <1>6

LEMMA RollKeeps ==
  ASSUME CountsTyped, Balanced, RollUp
  PROVE  CountsTyped' /\ Balanced'
<1>1. PICK old \in SUBSET {k \in DOMAIN table : k.sec # Minute /\ k.sec < second} \ {{}} :
        /\ table' = [k \in DOMAIN table \ old |-> table[k]] (+) InMinutes(old)
        /\ UNCHANGED <<second, buffer, indexed, lane, recognised, lost, merged, arrived, counting>>
  BY DEF RollUp
<1>2. old \subseteq DOMAIN table
  BY <1>1
<1>3. /\ IsKeyBag(table')
      /\ \A K : ByMinutes(K) => SumFunctionOnSet(InTable(table'), K)
                                  = SumFunctionOnSet(InTable(table), K)
  BY <1>1, <1>2, RolledSums
<1>4. CountsTyped'
  BY <1>1, <1>3 DEF CountsTyped
<1>5. ASSUME NEW K, ByMinutes(K)
      PROVE  SumFunctionOnSet(CopiesTable', K) = SumFunctionOnSet(CopiesTable, K)
  <2> DEFINE Rest(k) == InRows(buffer, k) + InChunks(lane, k) + CountIn(k, lost) + CountIn(k, merged)
             f == CopiesTable
             g == CopiesTable'
             t == InTable(table)
             h == InTable(table')
             o == [k \in CountKeys |-> Rest(k)]
  <2>1. K \in SUBSET CountKeys /\ IsFiniteSet(K)
    <3>1. K \in SUBSET CountKeys
      BY <1>5 DEF ByMinutes
    <3> QED
      BY <3>1, KeysAreFinite, FS_Subset
  <2>2. \A k \in K : /\ t[k] \in Int /\ h[k] \in Int /\ o[k] \in Int
                     /\ f[k] = t[k] + o[k] /\ g[k] = h[k] + o[k]
    <3> TAKE k \in K
    <3> DEFINE b == InRows(buffer, k)
               y == InChunks(lane, k)
               l == CountIn(k, lost)
               d == CountIn(k, merged)
               x == CountIn(k, table)
               z == CountIn(k, table')
    <3>1. f[k] = b + y + x + l + d
      BY <2>1 DEF CopiesTable, Copies
    <3>2. g[k] = b + y + z + l + d
      BY <1>1, <2>1 DEF CopiesTable, Copies
    <3>3. t[k] = x /\ h[k] = z /\ o[k] = b + y + l + d
      BY <2>1 DEF InTable
    <3>4. /\ b \in Nat /\ y \in Nat /\ l \in Nat /\ d \in Nat /\ x \in Nat /\ z \in Nat
      BY <1>3, CountsOfRows, CountsOfChunks, CountNat DEF CountsTyped, IsKeyBag
    <3> HIDE DEF b, y, l, d, x, z, f, g, t, h, o
    <3> QED
      BY <3>1, <3>2, <3>3, <3>4
  <2>3. SumFunctionOnSet(h, K) = SumFunctionOnSet(t, K)
    BY <1>3, <1>5
  <2> HIDE DEF f, g, t, h, o
  <2>4. SumFunctionOnSet(f, K) = SumFunctionOnSet(t, K) + SumFunctionOnSet(o, K)
    BY <2>1, <2>2, SumOfBoth
  <2>5. SumFunctionOnSet(g, K) = SumFunctionOnSet(h, K) + SumFunctionOnSet(o, K)
    BY <2>1, <2>2, SumOfBoth
  <2>6. SumFunctionOnSet(g, K) = SumFunctionOnSet(f, K)
    BY <2>3, <2>4, <2>5
  <2> QED
    BY <2>6 DEF f, g
<1>6. \A source, class : ByMinutes(KeysUnder(source, class))
  BY MinuteIs DEF ByMinutes, KeysUnder
<1>7. \A e : ByMinutes(KeysFor(e))
  BY MinuteIs DEF ByMinutes, KeysFor
<1>8. Came' = Came /\ arrived' = arrived
  BY <1>1 DEF Came
<1> QED
  BY <1>4, <1>5, <1>6, <1>7, <1>8 DEF Balanced

-----------------------------------------------------------------------------
(* The counts are sound *)

CountsInv == CountsTyped /\ IndexAgrees /\ Few /\ Balanced

LEMMA CountsStart == CountsInit => CountsInv
<1> SUFFICES ASSUME CountsInit PROVE CountsInv
  OBVIOUS
<1>1. /\ second = 0 /\ buffer = <<>> /\ indexed = << >> /\ lane = {} /\ recognised = {}
      /\ table = EmptyBag /\ lost = EmptyBag /\ merged = EmptyBag /\ arrived = EmptyBag
      /\ counting = TRUE
  BY DEF CountsInit
<1>2. IsABag(EmptyBag) /\ DOMAIN EmptyBag = {} /\ \A k : CountIn(k, EmptyBag) = 0
  BY DEF EmptyBag, SetToBag, IsABag, CountIn
<1>3. AreChunks({}) /\ \A k : InChunks({}, k) = 0
  <2>1. IsFiniteSet({})
    BY FS_EmptySet
  <2>2. AreChunks({})
    BY <2>1 DEF AreChunks
  <2> QED
    BY <2>2, CountsOfChunks, SumEmpty
<1>4. CountsTyped
  <2>1. 0 \in 0..MaxSecond
    BY CountsAssumption
  <2> QED
    BY <1>1, <1>2, <1>3, <2>1, NoRows DEF CountsTyped, IsKeyBag
<1>5. IndexAgrees
  <2>1. DOMAIN indexed = {} /\ DOMAIN buffer = {} /\ RowKeys(buffer) = {}
    BY <1>1, NoRows
  <2> QED
    BY <2>1 DEF IndexAgrees
<1>6. Few
  <2>1. Plain(buffer) = {} /\ Coarse(buffer) = {}
    BY <1>1, NoRows DEF Plain, Coarse
  <2>2. Cardinality(Plain(buffer)) = 0 /\ CountCap \in Nat
    BY <2>1, FS_EmptySet, CountsAssumption
  <2> QED
    BY <2>1, <2>2 DEF Few
<1>7. Balanced
  <2> DEFINE f == CopiesTable
             a == Came
  <2>1. \A k \in CountKeys : f[k] = 0
    BY <1>1, <1>2, <1>3, NoRows DEF CopiesTable, Copies
  <2>2. \A e \in CountedEvents : a[e] = 0
    BY <1>1, <1>2 DEF Came
  <2> HIDE DEF f, a
  <2>3. ASSUME NEW K \in SUBSET CountKeys PROVE SumFunctionOnSet(f, K) = 0
    <3>1. IsFiniteSet(K)
      BY KeysAreFinite, FS_Subset
    <3> QED
      BY <2>1, <3>1, SumZero
  <2>4. ASSUME NEW C \in SUBSET CountedEvents PROVE SumFunctionOnSet(a, C) = 0
    <3>1. IsFiniteSet(C)
      BY KeysAreFinite, FS_Subset
    <3> QED
      BY <2>2, <3>1, SumZero
  <2>5. \A source, class : /\ KeysUnder(source, class) \in SUBSET CountKeys
                           /\ CameFrom(source, class) \in SUBSET CountedEvents
    BY DEF KeysUnder, CameFrom
  <2>6. \A e : KeysFor(e) \in SUBSET CountKeys /\ CountIn(e, arrived) = 0
    BY <1>1, <1>2 DEF KeysFor
  <2> QED
    BY <2>3, <2>4, <2>5, <2>6 DEF Balanced, f, a
<1> QED
  BY <1>4, <1>5, <1>6, <1>7 DEF CountsInv

LEMMA CountsStep == CountsInv /\ [CountsNext]_countVars => CountsInv'
<1> SUFFICES ASSUME CountsInv, [CountsNext]_countVars PROVE CountsInv'
  OBVIOUS
<1> USE DEF CountsInv
<1>1. ASSUME NEW c \in StreamKeys, NEW class \in Classes, NEW s \in 0..second,
             BufferCount(c, class, s)
      PROVE  CountsInv'
  BY <1>1, BufferKeeps
<1>2. ASSUME NEW m \in Offsets \cup {Taken}, FlushTo(m),
             UNCHANGED <<second, table, lost, arrived, counting>>
      PROVE  CountsInv'
  BY <1>2, FlushKeeps, SameBalance
<1>3. ASSUME HeartbeatFlush PROVE CountsInv'
  BY <1>2, <1>3 DEF HeartbeatFlush
<1>4. ASSUME ShutdownFlush PROVE CountsInv'
  BY <1>2, <1>4 DEF ShutdownFlush
<1>5. ASSUME ShutdownLoses PROVE CountsInv'
  BY <1>5, LosesKeep, SameBalance DEF ShutdownLoses
<1>6. ASSUME RollUp PROVE CountsInv'
  <2>1. UNCHANGED <<buffer, indexed>>
    BY <1>6 DEF RollUp
  <2>2. IndexAgrees' /\ Few'
    BY <2>1 DEF IndexAgrees, Few
  <2> QED
    BY <1>6, <2>2, RollKeeps
<1>7. ASSUME NEW c \in lane, RecordBatch(c) PROVE CountsInv'
  <2>1. UNCHANGED <<buffer, indexed, arrived>>
    BY <1>7 DEF RecordBatch
  <2>2. IndexAgrees' /\ Few'
    BY <2>1 DEF IndexAgrees, Few
  <2> QED
    BY <1>7, <2>1, <2>2, RecordKeeps, SameBalance
<1>8. ASSUME NEW c \in lane, LoseBatch(c) PROVE CountsInv'
  <2>1. UNCHANGED <<buffer, indexed, arrived>>
    BY <1>8 DEF LoseBatch
  <2>2. IndexAgrees' /\ Few'
    BY <2>1 DEF IndexAgrees, Few
  <2> QED
    BY <1>8, <2>1, <2>2, LoseKeeps, SameBalance
<1>9. ASSUME UNCHANGED <<buffer, indexed, lane, recognised, table, lost, merged, arrived>>,
             second' \in 0..MaxSecond, counting' \in BOOLEAN
      PROVE  CountsInv'
  <2>1. CountsTyped'
    BY <1>9 DEF CountsTyped
  <2>2. IndexAgrees' /\ Few'
    <3>1. UNCHANGED <<buffer, indexed>>
      BY <1>9
    <3> QED
      BY <3>1 DEF IndexAgrees, Few
  <2>3. \A k : Copies(k)' = Copies(k)
    BY <1>9 DEF Copies
  <2> QED
    BY <1>9, <2>1, <2>2, <2>3, SameBalance
<1>10. ASSUME NextSecond PROVE CountsInv'
  <2>1. second' \in 0..MaxSecond
    BY <1>10, CountsAssumption DEF NextSecond, CountsTyped
  <2> QED
    BY <1>9, <1>10, <2>1 DEF NextSecond, CountsTyped
<1>11. ASSUME BeginDrain PROVE CountsInv'
  BY <1>9, <1>11 DEF BeginDrain, CountsTyped
<1>12. ASSUME UNCHANGED countVars PROVE CountsInv'
  BY <1>9, <1>12 DEF countVars, CountsTyped
<1> QED
  BY <1>1, <1>3, <1>4, <1>5, <1>6, <1>7, <1>8, <1>10, <1>11, <1>12 DEF CountsNext

LEMMA CountsFollow == CountsInv => CountsSound
<1> SUFFICES ASSUME CountsInv PROVE CountsSound
  OBVIOUS
<1>1. CountsTyped /\ IndexAgrees /\ Few /\ Balanced
  BY DEF CountsInv
<1>2. TypeOKCounts
  <2>1. \A list : IsRows(list) => list \in Seq(BucketRows)
    BY DEF IsRows
  <2>2. RowKeys(buffer) \subseteq CountKeys
    BY <1>1, RowsAre DEF CountsTyped, IsRows
  <2> QED
    BY <1>1, <2>1, <2>2
       DEF TypeOKCounts, CountsTyped, AreChunks, IsKeyBag, IndexAgrees, CountedEvents
<1> QED
  BY <1>1, <1>2, BalancedIsConserved, FewIsBounded DEF CountsSound

\* Every event counted is in the buffer, on its way, in the table or lost, once,
\* under its source and classification, and no bucket counts another asset's or
\* type's events; the buffer stays bounded however long the lane refuses, and its
\* indices name its buckets in order: _buffer_event_count, _flush_event_counts
\* and record_event_count_batch, for any streams, capacity, batch and chunk.
THEOREM CountsSoundness == CountsSpec => []CountsSound
<1>1. CountsInit => CountsInv
  BY CountsStart
<1>2. CountsInv /\ [CountsNext]_countVars => CountsInv'
  BY CountsStep
<1>3. CountsInv => CountsSound
  BY CountsFollow
<1> QED
  BY <1>1, <1>2, <1>3, PTL DEF CountsSpec
=============================================================================
