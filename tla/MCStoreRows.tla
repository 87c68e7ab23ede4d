---------------------------- MODULE MCStoreRows ----------------------------
(* What is kept on disk besides the ledger: every operation on the trade's *)
(* tables, the evidence and its retention, the schema under it all when    *)
(* the store is opened, the two files a runtime tells of itself in, and    *)
(* the cache the export is built with.  Each is checked on its own         *)
(* instance: a behaviour is one of its subject.                            *)
EXTENDS MCTradeStore, Retention, SchemaMigration, RuntimeStatus, ExportCache

VARIABLE subject

rowsVars ==
  <<storeVars, retentionVars, schemaVars, statusVars, exportVars, subject>>

\* The second event and observation follow the first; two books of one key;
\* the second graph is too large for a step; both markets are of one window.
MCEventOf == ("e1" :> [provider |-> 0, receipt |-> 0, seq |-> 2])
          @@ ("e2" :> [provider |-> 0, receipt |-> 0, seq |-> 4])
MCObsOf == ("o1" :> [event |-> "e1", provider |-> 0, receipt |-> 0, price |-> 1])
        @@ ("o2" :> [event |-> "e2", provider |-> 0, receipt |-> 0, price |-> 1])
MCBookOf == [b \in {"b1", "b2"} |-> [key |-> "k", at |-> 0]]
MCCandOf ==
     ("d1" :> [window |-> "w", tokens |-> "t1", trigger |-> "e1", books |-> {"b1"},
               cex |-> <<"o1">>, at |-> 0])
  @@ ("d2" :> [window |-> "w", tokens |-> "t1", trigger |-> Absent, books |-> {"b1"},
               cex |-> <<"o2", "o1">>, at |-> 1])
MCMarketOf == ("m1" :> [tokens |-> "t1", window |-> "w", eligible |-> TRUE])
           @@ ("m2" :> [tokens |-> "t2", window |-> "w", eligible |-> FALSE])

\* Every genuine version, none, and one database for each check
MCDatabases == {Genuine(v) : v \in 1..5} \cup {Empty,
  [objs |-> {"foreign"}, versions |-> {}, user |-> 0],
  [objs |-> {"odd migrations"} \cup ObjsAt(4), versions |-> 1..4, user |-> 4],
  [objs |-> {"odd column"} \cup ObjsAt(3), versions |-> 1..3, user |-> 3],
  [objs |-> ObjsAt(4) \ {"locks.reserved"}, versions |-> {4}, user |-> 4],
  [objs |-> ObjsAt(4) \cup {"cluster_locks"}, versions |-> {4}, user |-> 0],
  [objs |-> ObjsAt(4) \cup {"shadow"}, versions |-> {4}, user |-> 4],
  [objs |-> ObjsAt(5) \cup {"odd managed"}, versions |-> 1..5, user |-> 5],
  [objs |-> ObjsAt(5), versions |-> 1..5, user |-> 4],
  [objs |-> ObjsAt(5), versions |-> 1..5, user |-> 6],
  [objs |-> ObjsAt(5), versions |-> 1..6, user |-> 6]}

\* Nothing wrong with the runtime, or one thing
MCTroubles == {{}} \cup {{trouble} : trouble \in Reasons \cup Feeds}

\* In intervals of exports, scaled: half a minute and a minute for three and
\* four, fifteen seconds for two, and a refresh interval of ten
MCMaxAge == [section \in SectionNames |-> IF section = "recent_entries" THEN 2 ELSE 3]
MCInterval == [section \in SectionNames |-> IF section = "frequency" THEN 1 ELSE 0]
MCStaleLimit == [section \in SectionNames |-> 4]

MCInit ==
  /\ StoreInit /\ RetentionInit /\ SchemaInit /\ StatusInit /\ ExportInit
  /\ subject \in {"store", "evidence", "retention", "schema", "status", "export"}
  /\ subject # "schema" => disk = Empty

OfStore(A) ==
  /\ subject = "store" /\ A
  /\ UNCHANGED <<retentionVars, schemaVars, statusVars, exportVars, subject>>
OfEvidence(A) ==
  /\ subject = "evidence" /\ A
  /\ UNCHANGED <<storeVars, trade, cutoff, turn, schemaVars, statusVars, exportVars, subject>>
OfRetention(A) ==
  /\ subject = "retention" /\ A
  /\ UNCHANGED <<storeVars, schemaVars, statusVars, exportVars, subject>>
OfSchema(A) ==
  /\ subject = "schema" /\ A
  /\ UNCHANGED <<storeVars, retentionVars, statusVars, exportVars, subject>>
OfStatus(A) ==
  /\ subject = "status" /\ A
  /\ UNCHANGED <<storeVars, retentionVars, schemaVars, exportVars, subject>>
OfExport(A) ==
  /\ subject = "export" /\ A
  /\ UNCHANGED <<storeVars, retentionVars, schemaVars, statusVars, subject>>

MCNext ==
  \/ OfStore(ApiNext) \/ OfEvidence(EvidenceNext) \/ OfRetention(RetentionNext)
  \/ OfSchema(SchemaNext) \/ OfStatus(StatusNext) \/ OfExport(ExportNext)

MCSpec == MCInit /\ [][MCNext]_rowsVars

\* Evidence is whole and in order, old rows leave whole or not at all, and
\* evidence stands while nothing removes it.
EvidenceSound ==
  /\ [](/\ subject \in {"evidence", "retention"} => EvidenceInv
        /\ subject = "retention" => RetentionSound)
  /\ [][subject = "evidence" => RowsStand]_evidenceVars

\* A database is opened at the current version or refused as it was, and no
\* start that breaks off takes anything away.
SchemaSound == [](subject = "schema" => SchemaInv) /\ [][NothingLost]_schemaVars

\* What the files say of the runtime and of the rows, and what they keep.
FilesSound ==
  /\ [](/\ subject = "status" => StatusSound
        /\ subject = "export" => ExportSound)
  /\ LossNeverForgotten
=============================================================================
