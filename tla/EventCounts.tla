---------------------------- MODULE EventCounts ----------------------------
(***************************************************************************)
(* The per-second counts of source events (engine.py), from the buffer     *)
(* that coarsens them at capacity, through the flushes of the heartbeat    *)
(* and of the shutdown and the telemetry lane that may refuse, recognise   *)
(* or lose a command, to the event_buckets table (store.py).               *)
(* A flush is one step of the event loop: submit never waits.              *)
(***************************************************************************)
EXTENDS Integers, Sequences, FiniteSets, Bags, Functions

CONSTANTS
  StreamKeys, \* the stream keys
  SourceOf,   \* the source of a channel
  KindOf,     \* its asset and event type
  Classes,    \* the classifications
  CountCap,   \* telemetry_queue_capacity, in buckets
  FlushRows,  \* telemetry_batch_size
  ChunkRows,  \* EVENT_COUNT_ROWS_PER_COMMAND
  MaxSecond,  \* bound on the seconds
  MaxEvents   \* bound on the events

Aggregated == "AGGREGATED"
Sources == Range(SourceOf)
Kinds == Range(KindOf) \cup {Aggregated}

\* No asset is called as what is aggregated.
ASSUME CountsAssumption ==
  /\ {CountCap, FlushRows, ChunkRows} \subseteq Nat \ {0}
  /\ {MaxSecond, MaxEvents} \subseteq Nat
  /\ IsFiniteSet(StreamKeys) /\ IsFiniteSet(Classes)
  /\ DOMAIN SourceOf = StreamKeys /\ DOMAIN KindOf = StreamKeys
  /\ Aggregated \notin Range(KindOf)

VARIABLES
  second,    \* the current second
  buffer,    \* _event_count_buffer: keys and raw counts, in order of insertion
  indexed,   \* the two lookup indices: key |-> the keys before it
  lane,      \* commands the telemetry lane has admitted
  recognised, \* contents of the commands it recognises
  table,     \* event_buckets, a bag of keys
  lost,      \* keys of events counted as lost, a bag
  merged,    \* keys of commands taken for repetitions, a bag (history)
  arrived,   \* the events that came, a bag of their semantics (history)
  counting   \* the engine runs: no shutdown drain yet

countVars ==
  <<second, buffer, indexed, lane, recognised, table, lost, merged, arrived, counting>>

KeyAt(s, c, class) ==
  [sec |-> s, chan |-> c, source |-> SourceOf[c], kind |-> KindOf[c], class |-> class]
\* A reserved key has no channel, asset and type.
ReservedKey(s, source, class) ==
  [sec |-> s, chan |-> Aggregated, source |-> source, kind |-> Aggregated,
   class |-> class]

\* _event_count_semantic_of
Semantic(k) == <<k.source, k.kind, k.class>>

CountIn(k, bag) == IF k \in DOMAIN bag THEN bag[k] ELSE 0
RowKeys(rows) == {rows[i].key : i \in DOMAIN rows}
KeysBefore(rows, k) ==
  {rows[i].key : i \in {i \in DOMAIN rows : \A j \in 1..i : rows[j].key # k}}
\* The events that rows of different keys count, and those of chunks of rows
BagOf(rows) ==
  [k \in RowKeys(rows) |-> (CHOOSE r \in {rows[i] : i \in DOMAIN rows} : r.key = k).n]
EventsIn(chunks) ==
  [k \in UNION {RowKeys(c) : c \in chunks} |->
     SumFunctionOnSet([c \in chunks |-> CountIn(k, BagOf(c))], chunks)]

\* The table also holds minutes, into which retention rolls old seconds.
Minute == -1
CountKeys ==
  [sec : {Minute} \cup 0..MaxSecond, chan : StreamKeys \cup {Aggregated}, source : Sources,
   kind : Kinds, class : Classes]
BucketRows == [key : CountKeys, n : Nat \ {0}]

TypeOKCounts ==
  /\ second \in 0..MaxSecond /\ counting \in BOOLEAN
  /\ buffer \in Seq(BucketRows) /\ DOMAIN indexed \subseteq CountKeys
  /\ \A chunk \in lane \cup recognised : chunk \in Seq(BucketRows)
  /\ \A bag \in {table, lost, merged} : IsABag(bag) /\ DOMAIN bag \subseteq CountKeys
  /\ IsABag(arrived) /\ DOMAIN arrived \subseteq Sources \X Kinds \X Classes

CountsInit ==
  /\ second = 0 /\ buffer = <<>> /\ indexed = << >> /\ lane = {} /\ recognised = {}
  /\ table = EmptyBag /\ lost = EmptyBag /\ merged = EmptyBag /\ arrived = EmptyBag
  /\ counting = TRUE

-----------------------------------------------------------------------------
(* _buffer_event_count *)

\* The first of the keys that the index found, if any
FirstOf(hits) == {k \in hits : indexed[k] \cap hits = {}}

SameMeaning(k) == FirstOf({x \in DOMAIN indexed : Semantic(x) = Semantic(k)})
CoarseBucket(k) ==
  FirstOf({x \in DOMAIN indexed : /\ x.kind = Aggregated
                                  /\ <<x.source, x.class>> = <<k.source, k.class>>})

\* Seeded fault: at capacity an event is counted in the oldest bucket.
CountedUnderOldest(k) ==
  IF Len(buffer) < CountCap \/ \E i \in DOMAIN buffer : buffer[i].key = k
  THEN {k} ELSE {buffer[1].key}

\* The key an event of key k is counted under: its own where it has a bucket
\* or there is room, and at capacity one that differs in second and channel
\* only, or else the reserved one of its source and class, whatever its second.
CountedUnder(k) ==
  IF Len(buffer) < CountCap \/ \E i \in DOMAIN buffer : buffer[i].key = k THEN {k}
  ELSE IF SameMeaning(k) # {} THEN SameMeaning(k)
  ELSE IF CoarseBucket(k) # {} THEN CoarseBucket(k)
  ELSE {ReservedKey(k.sec, k.source, k.class)}

\* An event is counted when it is rejected, when its queue refuses it, or once
\* it has gone through its queue, in a later second then.
BufferCount(c, class, s) ==
  /\ counting /\ BagCardinality(arrived) < MaxEvents
  /\ arrived' = arrived (+) SetToBag({<<SourceOf[c], KindOf[c], class>>})
  /\ \E k \in CountedUnder(KeyAt(s, c, class)) :
       LET Counts(i) == buffer[i].key = k
       IN IF \E i \in DOMAIN buffer : Counts(i)
          THEN /\ buffer' = [i \in DOMAIN buffer |->
                    IF Counts(i) THEN [buffer[i] EXCEPT !.n = @ + 1] ELSE buffer[i]]
               /\ UNCHANGED indexed
          ELSE /\ buffer' = Append(buffer, [key |-> k, n |-> 1])
               /\ indexed' = [x \in DOMAIN indexed \cup {k} |->
                                IF x = k THEN DOMAIN indexed ELSE indexed[x]]
  /\ UNCHANGED <<second, lane, recognised, table, lost, merged, counting>>

-----------------------------------------------------------------------------
(* _flush_event_counts *)

Least(m, n) == IF m < n THEN m ELSE n

\* The rows a flush takes, the offsets of its commands among them, and the
\* commands before the m-th row
Taken == Least(Len(buffer), FlushRows)
Offsets == {j * ChunkRows : j \in 0..Taken} \cap 0..(Taken - 1)
Before(m) ==
  {SubSeq(buffer, o + 1, Least(o + ChunkRows, Taken)) : o \in {o \in Offsets : o < m}}

\* The lane takes commands, those whose content it knows as repetitions.
Admit(commands) ==
  /\ lane' = lane \cup (commands \ recognised) /\ recognised' = recognised \cup commands
  /\ merged' = merged (+) EventsIn(commands \cap recognised)

\* It refuses the one after the m-th row, for pressure or for good, which is put
\* back at the end with those after it.  Whether the flush defers or escalates
\* decides only the reason.
FlushTo(m) ==
  LET back == SubSeq(buffer, m + 1, Taken)
      gone == RowKeys(SubSeq(buffer, 1, Taken))
      stay == DOMAIN indexed \ gone
  IN /\ buffer' = SubSeq(buffer, Taken + 1, Len(buffer)) \o back
     /\ indexed' = [k \in stay \cup RowKeys(back) |->
                      IF k \in stay THEN indexed[k] \ gone ELSE stay \cup KeysBefore(back, k)]
     /\ Admit(Before(m))

\* The heartbeat flushes once, whatever comes of it
HeartbeatFlush ==
  /\ counting /\ buffer # <<>>
  /\ \E m \in Offsets \cup {Taken} : FlushTo(m)
  /\ UNCHANGED <<second, table, lost, arrived, counting>>

\* _drain_event_counts_for_shutdown flushes while that succeeds in full ...
ShutdownFlush ==
  /\ ~counting /\ buffer # <<>> /\ FlushTo(Taken)
  /\ UNCHANGED <<second, table, lost, arrived, counting>>

\* ... and counts what is left after a flush that does not as lost.
ShutdownLoses ==
  /\ ~counting /\ buffer # <<>>
  /\ \E m \in Offsets :
       Admit(Before(m)) /\ lost' = lost (+) BagOf(SubSeq(buffer, m + 1, Len(buffer)))
  /\ buffer' = <<>> /\ indexed' = << >>
  /\ UNCHANGED <<second, table, arrived, counting>>

-----------------------------------------------------------------------------
(* The lane and the table *)

\* record_event_count_batch: all rows of a command in one transaction
RecordBatch(chunk) ==
  /\ chunk \in lane /\ lane' = lane \ {chunk}
  /\ table' = table (+) BagOf(chunk)
  /\ UNCHANGED <<second, buffer, indexed, recognised, lost, merged, arrived, counting>>

\* A command the lane gives up may be sent again.
LoseBatch(chunk) ==
  /\ chunk \in lane /\ lane' = lane \ {chunk} /\ recognised' = recognised \ {chunk}
  /\ lost' = lost (+) BagOf(chunk)
  /\ UNCHANGED <<second, buffer, indexed, table, merged, arrived, counting>>

MinuteOf(k) == [k EXCEPT !.sec = Minute]
InMinutes(old) ==
  [k \in {MinuteOf(q) : q \in old} |->
     SumFunctionOnSet(table, {q \in old : MinuteOf(q) = k})]

\* _compact_event_bucket_step: of the oldest seconds as many as fit, in one
\* transaction with their minute
RollUp ==
  \E old \in SUBSET {k \in DOMAIN table : k.sec # Minute /\ k.sec < second} \ {{}} :
    /\ \A k \in old, q \in DOMAIN table \ old : q.sec = Minute \/ k.sec <= q.sec
    /\ table' = [k \in DOMAIN table \ old |-> table[k]] (+) InMinutes(old)
    /\ UNCHANGED <<second, buffer, indexed, lane, recognised, lost, merged, arrived, counting>>

NextSecond ==
  /\ second < MaxSecond /\ second' = second + 1
  /\ UNCHANGED <<buffer, indexed, lane, recognised, table, lost, merged, arrived, counting>>

BeginDrain ==
  /\ counting /\ counting' = FALSE
  /\ UNCHANGED <<second, buffer, indexed, lane, recognised, table, lost, merged, arrived>>

CountsNext ==
  \/ \E c \in StreamKeys, class \in Classes, s \in 0..second : BufferCount(c, class, s)
  \/ HeartbeatFlush \/ ShutdownFlush \/ ShutdownLoses \/ RollUp \/ NextSecond \/ BeginDrain
  \/ \E chunk \in lane : RecordBatch(chunk) \/ LoseBatch(chunk)

CountsSpec == CountsInit /\ [][CountsNext]_countVars

-----------------------------------------------------------------------------
(* Where every event that came has gone *)
Everywhere == BagOf(buffer) (+) EventsIn(lane) (+) table (+) lost (+) merged
CountedAs(source, class) == {k \in DOMAIN Everywhere : k.source = source /\ k.class = class}
Meaning(e) == {k \in DOMAIN Everywhere : Semantic(k) = e}

\* Every event of a source and classification is in one place, through
\* coarsening, flushes refused half way, batches lost and the shutdown; and no
\* bucket counts events of another asset or type under its name, which "would
\* corrupt source/asset/event/classification attribution" (engine.py:1559).
CountsConserved ==
  /\ \A source \in Sources, class \in Classes :
       SumFunctionOnSet(Everywhere, CountedAs(source, class))
         = SumFunctionOnSet(arrived, {e \in DOMAIN arrived : e[1] = source /\ e[3] = class})
  /\ \A e \in Sources \X Range(KindOf) \X Classes :
       SumFunctionOnSet(Everywhere, Meaning(e)) <= CountIn(e, arrived)

\* The buffer stays bounded during an outage of any length: "Reuse bounds the
\* reserved set" (engine.py:1583).
BufferBounded == Len(buffer) <= CountCap + Cardinality(Sources \X Classes)

\* The lookup indices name the buckets of the buffer, each once, in its order.
IndexAgrees ==
  /\ DOMAIN indexed = RowKeys(buffer)
  /\ \A i \in DOMAIN buffer : indexed[buffer[i].key] = {buffer[j].key : j \in 1..(i - 1)}
  /\ \A i, j \in DOMAIN buffer : buffer[i].key = buffer[j].key => i = j

CountsSound == TypeOKCounts /\ CountsConserved /\ BufferBounded /\ IndexAgrees

\* "every count is still conserved exactly" (engine.py:1684).
CountsKept == merged = EmptyBag
=============================================================================
