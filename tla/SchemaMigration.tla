-------------------------- MODULE SchemaMigration --------------------------
(***************************************************************************)
(* Opening the writable store (store.py, V4Store.__init__): the checks on  *)
(* the database it finds, the fresh script, the migrations of versions 2   *)
(* to 5, the guard on the managed objects and the performance indexes,     *)
(* against crashes and errors between any two statements.  A statement of  *)
(* the schema is the set of objects (tables, columns, indexes) it adds.    *)
(***************************************************************************)
EXTENDS Integers, Sequences, FiniteSetsExt

CONSTANTS
  Databases, \* those a first start may find: [objs, versions, user]
  MaxOpens   \* bound on the starts

VARIABLES
  disk,    \* the database as committed
  work,    \* the database as the open transaction sees it
  stage,   \* of the start: <<name, target version, next statement>>
  found,   \* the database as this start found it (history)
  first,   \* the database as the first start found it (history)
  opens    \* starts so far

schemaVars == <<disk, work, stage, found, first, opens>>

Current == 5   \* SCHEMA_VERSION
Managed == {"cluster_arbitrations", "cluster_locks", "ix_cluster_locks"}
Overlay == {"ix_retention", "ix_latest"}

\* SCHEMA_SQL, whose tables have the columns of version 4 at once
FreshScript ==
  <<{"schema_migrations"}, {"sessions", "sessions.cohort"}, {"cohorts", "cohorts.status"},
    {"locks", "locks.reserved"}, {"commands"}>>
Script(v) ==
  CASE v = 2 -> <<{"commands"}>>
    [] v = 3 -> <<{"sessions.cohort"}, {"locks.reserved"}, {"cohorts"}>>
    [] v = 4 -> <<{"cohorts.status"}>>
    [] v = 5 -> <<{"cluster_arbitrations"}, {"cluster_locks"}, {"ix_cluster_locks"}>>

Added(script) == UNION {script[i] : i \in DOMAIN script}
Base == Added(FreshScript)
ObjsAt(v) == {"schema_migrations", "sessions", "locks"} \cup UNION {Added(Script(u)) : u \in 2..v}
Genuine(v) == [objs |-> ObjsAt(v), versions |-> 1..v, user |-> v]
Empty == [objs |-> {}, versions |-> {}, user |-> 0]

\* A database may hold anything; versions and pragmas ahead are one, 6, and the
\* version rows lie in their table.
Names == Base \cup Managed \cup Overlay
         \cup {"odd migrations", "odd column", "odd managed", "shadow", "foreign"}
Possible(d) ==
  /\ d \in [objs : SUBSET Names, versions : SUBSET (1..6), user : 0..6]
  /\ "schema_migrations" \notin d.objs => d.versions = {}

ASSUME SchemaAssumption == MaxOpens \in Nat /\ \A d \in Databases : Possible(d)

Version(d) == Max(d.versions \cup {0})

SchemaInit ==
  /\ disk \in Databases /\ found = disk /\ first = disk /\ work = disk
  /\ stage = <<"down">> /\ opens = 0

Goto(s) == stage' = s
Stay == UNCHANGED <<found, first, opens>>

-----------------------------------------------------------------------------
\* _preflight_existing_sqlite_schema, _initialize_fresh_schema: what is there
\* decides, the migration rows before the pragma.
Open ==
  /\ stage[1] \in {"down", "refused"} /\ opens < MaxOpens /\ opens' = opens + 1
  /\ found' = disk /\ work' = disk /\ UNCHANGED <<disk, first>>
  /\ LET v == Version(disk) IN
     \/ disk.objs = {} /\ Goto(<<"fresh", 4, 1>>)
     \/ /\ disk.objs # {} /\ "schema_migrations" \notin disk.objs
        /\ Goto(<<"refused">>)
     \/ /\ "schema_migrations" \in disk.objs
        /\ Goto(IF "odd migrations" \in disk.objs THEN <<"refused">>
                ELSE IF v \in 1..4 THEN <<"begin", v + 1, 1>> ELSE <<"guard">>)

\* executescript: no transaction, each statement stands at once
FreshStatement ==
  /\ stage[1] = "fresh" /\ stage[3] <= Len(FreshScript)
  /\ disk' = [disk EXCEPT !.objs = @ \cup FreshScript[stage[3]]] /\ work' = disk'
  /\ Goto(<<"fresh", 4, stage[3] + 1>>) /\ Stay
FreshVersion ==
  /\ stage = <<"fresh", 4, Len(FreshScript) + 1>>
  /\ disk' = [disk EXCEPT !.versions = {4}] /\ work' = disk'
  /\ Goto(<<"pragma">>) /\ Stay
FreshPragma ==
  /\ stage = <<"pragma">>
  /\ disk' = [disk EXCEPT !.user = 4] /\ work' = disk'
  /\ Goto(<<"begin", 5, 1>>) /\ Stay

-----------------------------------------------------------------------------
\* _validate_v4_base_schema: version, pragma and every column of the base
BaseValid(d) ==
  /\ Version(d) = 4 /\ d.user \in 0..4
  /\ Base \subseteq d.objs /\ "odd column" \notin d.objs

\* managed_v5_fingerprint with the census: these managed objects, no other
\* object of their namespace, and none of another shape
ManagedExact(d) ==
  Managed \subseteq d.objs /\ {"shadow", "odd managed"} \cap d.objs = {}

\* The first four versions are applied unseen; the fifth is not begun on a
\* base that is not exact, nor on a part of its own objects.
Admissible(v, d) ==
  v = 5 => /\ BaseValid(d)
           /\ \/ (Managed \cup {"odd managed"}) \cap d.objs = {}
              \/ Managed \subseteq d.objs /\ "odd managed" \notin d.objs

BeginMigration ==
  /\ stage[1] = "begin"
  /\ work' = disk /\ UNCHANGED disk
  /\ Goto(IF Admissible(stage[2], disk) THEN <<"migrate", stage[2], 1>> ELSE <<"refused">>)
  /\ Stay

\* Seeded fault: the statements of a migration stand at once.
MigrateOutside ==
  /\ stage[1] = "migrate" /\ stage[3] <= Len(Script(stage[2]))
  /\ work' = [work EXCEPT !.objs = @ \cup Script(stage[2])[stage[3]]] /\ disk' = work'
  /\ Goto(<<"migrate", stage[2], stage[3] + 1>>) /\ Stay

\* A column or table that is there already is passed over.
MigrateStatement ==
  /\ stage[1] = "migrate" /\ stage[3] <= Len(Script(stage[2]))
  /\ work' = [work EXCEPT !.objs = @ \cup Script(stage[2])[stage[3]]]
  /\ Goto(<<"migrate", stage[2], stage[3] + 1>>)
  /\ UNCHANGED disk /\ Stay

\* The version row and the pragma are of the transaction.
CommitMigration ==
  /\ stage[1] = "migrate" /\ stage[3] = Len(Script(stage[2])) + 1
  /\ LET v == stage[2] IN
     IF v = 5 /\ ~ManagedExact(work) THEN Goto(<<"refused">>) /\ work' = disk /\ UNCHANGED disk
     ELSE /\ disk' = [work EXCEPT !.versions = @ \cup {v}, !.user = v]
          /\ work' = disk'
          /\ Goto(IF v < 5 THEN <<"begin", v + 1, 1>>
                  ELSE IF found.objs = {} THEN <<"index", 0, 1>> ELSE <<"guard">>)
  /\ Stay

\* The guard on every database that was not made here: the pragma follows the
\* version rows and is never an input, save that one ahead is refused.
Guard ==
  /\ stage = <<"guard">>
  /\ IF /\ Version(disk) = Current /\ Base \cap {"sessions", "cohorts", "locks", "commands"} \subseteq disk.objs
        /\ ManagedExact(disk) /\ disk.user <= Current
     THEN disk' = [disk EXCEPT !.user = Current] /\ Goto(<<"index", 0, 1>>)
     ELSE UNCHANGED disk /\ Goto(<<"refused">>)
  /\ work' = disk' /\ Stay

\* _ensure_performance_indexes: on every open, one statement after the other
Index ==
  /\ stage[1] = "index"
  /\ IF Overlay \subseteq disk.objs THEN UNCHANGED disk /\ Goto(<<"open">>)
     ELSE /\ \E i \in Overlay \ disk.objs : disk' = [disk EXCEPT !.objs = @ \cup {i}]
          /\ UNCHANGED stage
  /\ work' = disk' /\ Stay

\* A crash, an error of a statement, or the end of the run
Leave ==
  /\ stage[1] \notin {"down", "refused"}
  /\ Goto(<<"down">>) /\ work' = disk /\ UNCHANGED disk /\ Stay

SchemaNext ==
  \/ Open \/ FreshStatement \/ FreshVersion \/ FreshPragma
  \/ BeginMigration \/ MigrateStatement \/ CommitMigration \/ Guard \/ Index \/ Leave

SchemaSpec == SchemaInit /\ [][SchemaNext]_schemaVars

-----------------------------------------------------------------------------
TypeOKSchema ==
  /\ \A d \in {disk, work, found, first} :
       d.objs \subseteq Names /\ d.versions \subseteq 1..6 /\ d.user \in 0..6
  /\ opens \in 0..MaxOpens

\* A database that is open is exactly the current version.
OpenIsCurrent ==
  stage = <<"open">> =>
    /\ Version(disk) = Current /\ disk.user = Current
    /\ Managed \cup Overlay \cup {"sessions", "cohorts", "locks", "commands"} \subseteq disk.objs
    /\ {"shadow", "odd managed", "odd migrations"} \cap disk.objs = {}

\* However often a start on a genuine database breaks off, it stays a genuine
\* database of some version and the next start accepts it.
GenuineStays ==
  first \in {Genuine(v) : v \in 1..Current} =>
    /\ stage # <<"refused">>
    /\ disk.objs \ Overlay = ObjsAt(Version(disk))
    /\ disk.versions = 1..Version(disk) /\ disk.user = Version(disk)

\* A database of version 4 or later, or of no version, that a start refuses is
\* as the start found it: it is refused "before V5 mutation" (store.py:2198).
RefusedUntouched ==
  stage = <<"refused">> /\ Version(found) \notin 1..3 => disk = found

\* The pragma is never ahead of the versions recorded, unless it was found so.
PragmaLags == disk.user <= Version(disk) \/ first.user > Version(first)

SchemaInv == TypeOKSchema /\ OpenIsCurrent /\ GenuineStays /\ RefusedUntouched /\ PragmaLags

\* No start takes anything away.
NothingLost == disk.objs \subseteq disk'.objs /\ disk.versions \subseteq disk'.versions

\* A first start that broke off can be started again.
FreshStays == first = Empty => stage # <<"refused">>
=============================================================================
