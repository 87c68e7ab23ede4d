---------------------------- MODULE ExportCache ----------------------------
(***************************************************************************)
(* The sections of the dashboard export (src/lite_frequency_v4/            *)
(* export_cache.py, metrics.py, export.py): a build probes the version of  *)
(* the source once, resolves one section after the other against the       *)
(* values earlier builds left, while the writer goes on committing, and    *)
(* replaces the file, or gives up and lets the last file stand.  A value   *)
(* is the rows it was read from.  Four sections stand for the fourteen:    *)
(* one with a refresh interval, one without, the one that is computed from *)
(* both, and one the export can do without.                                *)
(***************************************************************************)
EXTENDS Integers, Sequences, FiniteSets, FiniteSetsExt

CONSTANTS
  Unknown,        \* a version that could not be established
  MaxAge,         \* section -> max_age_ms
  Interval,       \* section -> min_refresh_interval_ms
  StaleLimit,     \* section -> how long a failed section is retained
  MaxWait,        \* bound: the wait between two builds, in intervals of exports
  MaxRows,        \* bound: entries ever made
  MaxTime,        \* bound: the clock
  MaxFaults       \* bound: probes, builders and writes that fail, and restarts

\* The order of build_metrics and build_frequency_v4_dashboard
Sections == <<"frequency", "performance", "acceptance_gate", "recent_entries">>
SectionNames == {Sections[i] : i \in DOMAIN Sections}

\* The policies of the code: a failed section is retained for at least its age
\* when fresh (four times max_age, at most two minutes, which no max_age exceeds),
\* and the gate has no refresh interval.
ASSUME ExportAssumption ==
  /\ {MaxAge, Interval, StaleLimit} \subseteq [SectionNames -> Nat]
  /\ \A name \in SectionNames : MaxAge[name] <= StaleLimit[name]
  /\ Interval["acceptance_gate"] = 0
  /\ {MaxWait, MaxRows, MaxTime, MaxFaults} \subseteq Nat
  /\ Unknown \notin [entries : Nat, terminals : Nat]

\* REQUIRED_SECTIONS
Required == {"frequency", "performance", "acceptance_gate"}

VARIABLES
  sourceRows, \* [entries, terminals] committed
  clock,      \* now_ms of the last build
  rowsAt,     \* the rows at the beginning of each moment: history
  entries,    \* _entries: the cached sections
  building,   \* the resolver of the build under way, NoBuild between builds
  dashboard,  \* the export file, NoFile before the first
  faults

exportVars == <<sourceRows, clock, rowsAt, entries, building, dashboard, faults>>

NoBuild == [now |-> 0, components |-> Unknown, states |-> <<>>]
NoFile == NoBuild
Building == building # NoBuild

\* VERSION_GROUPS: what of the rows a section's version is made of.  Terminal
\* evidence names the entries too.
Follows(name, seen) ==
  IF name \in {"frequency", "recent_entries"} THEN <<seen.entries>>
  ELSE <<seen.entries, seen.terminals>>

-----------------------------------------------------------------------------
(* A section's version *)

\* SectionResolver.section: a version that is not established is the build's own.
Token(name) ==
  IF building.components = Unknown THEN [build |-> building.now, of |-> <<>>]
  ELSE [build |-> 0, of |-> Follows(name, building.components)]

\* Seeded fault: the gate's version does not carry those of its inputs.
VersionAlone(name) == <<Token(name)>>

\* ... and build_metrics' extra_version
SectionVersion(name) ==
  IF name = "acceptance_gate"
  THEN <<Token(name), building.states["frequency"].version,
         building.states["performance"].version>>
  ELSE <<Token(name)>>

\* The builder reads the rows of now; the gate is computed from the sections of
\* this build.
Read(name) ==
  [rows |-> sourceRows,
   from |-> IF name = "acceptance_gate"
            THEN <<building.states["frequency"].version,
                   building.states["performance"].version>>
            ELSE <<>>]

-----------------------------------------------------------------------------
(* ExportSectionCache.resolve *)

Cached(name) == name \in DOMAIN entries
SectionAge(name) == Max({0, building.now - entries[name].asOf})
Changed(name) == entries[name].version # SectionVersion(name)

\* Neither first, nor max_age, nor source_changed
Reusable(name) ==
  /\ Cached(name) /\ SectionAge(name) < MaxAge[name]
  /\ Changed(name) => SectionAge(name) < Interval[name]

Retainable(name) ==
  Cached(name) /\ building.now - entries[name].asOf <= StaleLimit[name]

\* The SectionState of a cached value
FromCache(name, stale) ==
  [value |-> entries[name].value, version |-> entries[name].version,
   asOf |-> entries[name].asOf, changed |-> Changed(name), stale |-> stale,
   available |-> TRUE]

\* The SectionState of an optional section that is neither read nor retained
Unavailable ==
  [value |-> Unknown, version |-> <<>>, asOf |-> 0, changed |-> FALSE,
   stale |-> FALSE, available |-> FALSE]

NextSection == Sections[Cardinality(DOMAIN building.states) + 1]
Unresolved == Cardinality(DOMAIN building.states) < Len(Sections)

Fault == faults < MaxFaults /\ faults' = faults + 1

\* The sections, with one of them as given
With(sections, name, section) ==
  [other \in DOMAIN sections \cup {name} |->
     IF other = name THEN section ELSE sections[other]]

Resolved(name, state) ==
  building' = [building EXCEPT !.states = With(@, name, state)]

Reuse ==
  /\ Building /\ Unresolved
  /\ LET name == NextSection
     IN  Reusable(name) /\ Resolved(name, FromCache(name, FALSE))
  /\ UNCHANGED <<sourceRows, clock, rowsAt, entries, dashboard, faults>>

Refresh ==
  /\ Building /\ Unresolved
  /\ LET name == NextSection
         fresh == [value |-> Read(name), version |-> SectionVersion(name),
                   asOf |-> building.now]
     IN  /\ ~Reusable(name)
         /\ entries' = With(entries, name, fresh)
         /\ Resolved(name, [value |-> fresh.value, version |-> fresh.version,
                            asOf |-> fresh.asOf, changed |-> FALSE,
                            stale |-> FALSE, available |-> TRUE])
  /\ UNCHANGED <<sourceRows, clock, rowsAt, dashboard, faults>>

\* The builder raises: the last value stands in for a bounded time; without one
\* a required section ends the build, and the file stands.
RefreshFails ==
  /\ Building /\ Unresolved /\ Fault
  /\ LET name == NextSection
     IN  /\ ~Reusable(name)
         /\ IF Retainable(name)
            THEN Resolved(name, FromCache(name, TRUE)) /\ UNCHANGED entries
            ELSE IF name \in Required
            THEN building' = NoBuild /\ UNCHANGED entries
            ELSE /\ Resolved(name, Unavailable)
                 /\ entries' = [kept \in DOMAIN entries \ {name} |-> entries[kept]]
  /\ UNCHANGED <<sourceRows, clock, rowsAt, dashboard>>

-----------------------------------------------------------------------------
(* The build, the file, and the writer *)

ExportInit ==
  /\ sourceRows = [entries |-> 0, terminals |-> 0] /\ clock = 0
  /\ rowsAt = <<>> /\ entries = <<>>
  /\ building = NoBuild /\ dashboard = NoFile
  /\ faults = 0

\* The reporting loop begins a build when the interval of exports is over, or
\* later.  _source_versions: the probe may fail, which is not fatal.
StartBuild ==
  /\ ~Building
  /\ \E wait \in 1..MaxWait, components \in {sourceRows, Unknown} :
       /\ clock + wait <= MaxTime /\ clock' = clock + wait
       /\ rowsAt' = rowsAt \o [moment \in 1..wait |-> sourceRows]
       /\ IF components = Unknown THEN Fault ELSE UNCHANGED faults
       /\ building' = [now |-> clock', components |-> components, states |-> <<>>]
  /\ UNCHANGED <<sourceRows, entries, dashboard>>

\* _atomic_write
Publish ==
  /\ Building /\ ~Unresolved
  /\ dashboard' = building /\ building' = NoBuild
  /\ UNCHANGED <<sourceRows, clock, rowsAt, entries, faults>>

\* The replace is refused, or what comes after the sections raises.
ReplaceFails ==
  /\ Building /\ ~Unresolved /\ Fault
  /\ building' = NoBuild
  /\ UNCHANGED <<sourceRows, clock, rowsAt, entries, dashboard>>

\* The runtime is started again: the cache is the engine's, the file remains.
Restart ==
  /\ entries # <<>> /\ ~Building /\ Fault
  /\ entries' = <<>>
  /\ UNCHANGED <<sourceRows, clock, rowsAt, building, dashboard>>

CommitRows ==
  /\ \/ /\ sourceRows.entries < MaxRows
        /\ sourceRows' = [sourceRows EXCEPT !.entries = @ + 1]
     \/ /\ sourceRows.terminals < sourceRows.entries
        /\ sourceRows' = [sourceRows EXCEPT !.terminals = @ + 1]
  /\ UNCHANGED <<clock, rowsAt, entries, building, dashboard, faults>>

ExportNext ==
  \/ StartBuild \/ Reuse \/ Refresh \/ RefreshFails \/ Publish \/ ReplaceFails
  \/ Restart \/ CommitRows

ExportSpec == ExportInit /\ [][ExportNext]_exportVars

-----------------------------------------------------------------------------
(* Properties *)

Holds(value, seen) ==
  value.rows.entries >= seen.entries /\ value.rows.terminals >= seen.terminals

Shown == {name \in DOMAIN dashboard.states : dashboard.states[name].available}

\* "Nothing is presented as fresher than it is, and nothing cached is presented
\* without its age": a value holds every row committed when it says it was read,
\* whatever was committed between the probe and the read.
NeverFresher ==
  \A name \in Shown :
    LET state == dashboard.states[name]
    IN  Holds(state.value, rowsAt[state.asOf])

\* A value that is not marked lacks no row its version would tell of, once the
\* refresh interval is over; one not marked as changed either lacks none at all;
\* a marked one is retained for a bounded time.
LagBounded ==
  \A name \in Shown :
    LET state == dashboard.states[name]
        age == dashboard.now - state.asOf
        follows(seen) == Follows(name, seen)
        lacks(seen) == \E i \in DOMAIN follows(seen) :
                         follows(state.value.rows)[i] < follows(seen)[i]
    IN  /\ age <= StaleLimit[name]
        /\ ~state.stale =>
             /\ age < Max({1, MaxAge[name]})
             /\ ~lacks(rowsAt[Max({1, dashboard.now - Interval[name]})])
             /\ ~state.changed => ~lacks(rowsAt[dashboard.now])

\* The gate "can never be computed from one generation of inputs and then reused
\* against another": beside a gate not marked stale stand the versions it was
\* computed from.
OneGeneration ==
  dashboard # NoFile =>
    LET gate == dashboard.states["acceptance_gate"]
    IN  ~gate.stale => gate.value.from =
          <<dashboard.states["frequency"].version,
            dashboard.states["performance"].version>>

\* The file is never without a section its structure depends on.
Whole == dashboard # NoFile => Required \subseteq Shown

ExportSound == NeverFresher /\ LagBounded /\ OneGeneration /\ Whole
=============================================================================
