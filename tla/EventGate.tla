----------------------------- MODULE EventGate -----------------------------
(***************************************************************************)
(* EventGate.evaluate (src/lite_frequency_v4/events.py): the admission of  *)
(* one source's events, with two bounded least-recently-used memories, of  *)
(* fingerprints and of the last accepted event of each stream.             *)
(***************************************************************************)
EXTENDS Integers, Sequences, SequencesExt

CONSTANTS
  Streams,
  Payloads,        \* fingerprints of one stream
  ProviderTs,      \* provider timestamp a payload carries
  Price,           \* observed price a payload carries
  EqualAllowed,    \* streams called with allow_equal_timestamp_distinct
  DedupeCapacity, StreamCapacity,
  MaxReconnects, MaxMono, MaxLog   \* bounds on epochs, receipt clock and history

ASSUME GateAssumption ==
  /\ ProviderTs \in [Payloads -> Nat] /\ Price \in [Payloads -> Nat]
  /\ DedupeCapacity \in Nat \ {0} /\ StreamCapacity \in Nat \ {0}
  /\ {MaxReconnects, MaxMono, MaxLog} \subseteq Nat

VARIABLES
  seen,     \* _seen, least recently touched first
  streams,  \* keys of _streams, least recently accepted first
  last,     \* _StreamState of the streams remembered
  streamEpoch,    \* connection epoch of the adapter
  log       \* what was accepted or replayed: history

gateVars == <<seen, streams, last, streamEpoch, log>>

GateInit ==
  /\ seen = << >> /\ streams = << >> /\ last = << >>
  /\ streamEpoch = 0 /\ log = << >>

-----------------------------------------------------------------------------

\* Move to the end, or append, and evict the oldest beyond the capacity
Touch(queue, key, capacity) ==
  LET others == IF key \in ToSet(queue)
                THEN RemoveAt(queue, CHOOSE i \in DOMAIN queue : queue[i] = key)
                ELSE queue
      moved == Append(others, key)
  IN  IF Len(moved) > capacity THEN Tail(moved) ELSE moved

\* Seeded fault: the receipt clock is compared across connections only.
AdmitsByEpoch(key, event) ==
  key \in DOMAIN last =>
    LET prior == last[key]
    IN  /\ event.epoch >= prior.epoch
        /\ ProviderTs[event.payload] >= ProviderTs[prior.payload]

\* The guards against a stream that is remembered
Admits(key, event) ==
  key \in DOMAIN last =>
    LET prior == last[key]
    IN  /\ event.epoch >= prior.epoch
        /\ event.epoch = prior.epoch => event.mono >= prior.mono
        /\ ProviderTs[event.payload] >= ProviderTs[prior.payload]
        /\ \/ ProviderTs[event.payload] # ProviderTs[prior.payload]
           \/ event.payload = prior.payload
           \/ key \in EqualAllowed

\* A replay is dropped, and remembered longer for it
Replay(key, event) ==
  /\ <<key, event.payload>> \in ToSet(seen)
  /\ seen' = Touch(seen, <<key, event.payload>>, DedupeCapacity)
  /\ log' = Append(log, [key |-> key, event |-> event, accepted |-> FALSE])
  /\ UNCHANGED <<streams, last, streamEpoch>>

Accept(key, event) ==
  /\ <<key, event.payload>> \notin ToSet(seen)
  /\ Admits(key, event)
  /\ streams' = Touch(streams, key, StreamCapacity)
  /\ LET prior == IF key \in DOMAIN last THEN last[key] ELSE [payload |-> "none"]
         moved == prior.payload = "none" \/ Price[prior.payload] # Price[event.payload]
     IN  last' = [k \in ToSet(streams') |->
           IF k # key THEN last[k]
           ELSE [payload |-> event.payload, mono |-> event.mono, epoch |-> event.epoch,
                 move |-> IF moved THEN ProviderTs[event.payload] ELSE prior.move]]
  /\ seen' = Touch(seen, <<key, event.payload>>, DedupeCapacity)
  /\ log' = Append(log, [key |-> key, event |-> event, accepted |-> TRUE])
  /\ UNCHANGED streamEpoch

\* A delta that waited in a buffer keeps the receipt clock of its arrival, and
\* one taken before a reconnect the epoch of its connection.  An event that is
\* refused changes nothing.
Evaluate ==
  \E key \in Streams, payload \in Payloads, mono \in 1..MaxMono, of \in 0..streamEpoch :
    /\ Len(log) < MaxLog
    /\ LET event == [payload |-> payload, mono |-> mono, epoch |-> of]
       IN  Replay(key, event) \/ Accept(key, event)

Reconnect ==
  /\ streamEpoch < MaxReconnects
  /\ streamEpoch' = streamEpoch + 1
  /\ UNCHANGED <<seen, streams, last, log>>

GateNext == Evaluate \/ Reconnect

GateSpec == GateInit /\ [][GateNext]_gateVars

-----------------------------------------------------------------------------
(* Properties *)

GateTypeOK ==
  /\ ToSet(seen) \subseteq Streams \X Payloads /\ Len(seen) <= DedupeCapacity
  /\ ToSet(streams) = DOMAIN last /\ Len(streams) <= StreamCapacity
  /\ IsInjective(seen) /\ IsInjective(streams)

Between(i, j) == {log[k] : k \in (i + 1)..(j - 1)}

\* An event is accepted a second time only after DedupeCapacity others were
\* accepted or replayed since: the memory forgets the right one.
AcceptedOnce ==
  \A i, j \in DOMAIN log :
    ( /\ i < j /\ log[j].accepted
      /\ log[i].key = log[j].key /\ log[i].event.payload = log[j].event.payload )
    => Cardinality({<<e.key, e.event.payload>> : e \in Between(i, j)}) >= DedupeCapacity

\* While fewer than StreamCapacity other streams were accepted, a stream never
\* accepts an event older than its last, by provider clock, epoch or receipt.
WatermarkHolds ==
  \A i, j \in DOMAIN log :
    ( /\ i < j /\ log[i].accepted /\ log[j].accepted /\ log[i].key = log[j].key
      /\ Cardinality({e.key : e \in {f \in Between(i, j) : f.accepted}}) < StreamCapacity )
    => LET e == log[i].event  f == log[j].event
       IN  /\ ProviderTs[f.payload] >= ProviderTs[e.payload]
           /\ f.epoch >= e.epoch
           /\ f.epoch = e.epoch => f.mono >= e.mono

\* What passes the gate is new and in order, as far as its memories reach.
AdmissionSound == GateTypeOK /\ AcceptedOnce /\ WatermarkHolds
=============================================================================
