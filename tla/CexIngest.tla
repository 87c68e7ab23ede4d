----------------------------- MODULE CexIngest -----------------------------
(***************************************************************************)
(* Exchange prices, from the OKX stream to the feature history that        *)
(* decisions read: OkxPublicProvider (src/lite_frequency_v4/cex.py), the   *)
(* engine's callbacks and bounded ingest queue (engine.py), and            *)
(* CexFeatureBuffer (features.py).  An observation is the n-th tick of its *)
(* asset, and the connection it came on; the event gate has accepted it.   *)
(***************************************************************************)
EXTENDS Integers, Sequences, SequencesExt

CONSTANTS
  AssetSets,      \* sets of assets discovery may ask for
  QueueCapacity,  \* of _cex_ingest_queue
  MaxTicks,       \* bound on the ticks of an asset
  MaxConnections  \* bound on connections

ASSUME CexAssumption == {QueueCapacity, MaxTicks, MaxConnections} \subseteq Nat

Assets == UNION AssetSets
Channels == {"tickers", "trades"}

VARIABLES
  assets,         \* _desired
  setting,        \* a set_assets call that is suspended, and what it added
  connected,
  connection,     \* _connection_epoch
  announced,      \* whether _run has sent the subscription of this connection
  acknowledged, fetched,
  leaving,        \* subscriptions given up whose answer this connection owes
  cexReady,       \* health state READY
  fetches,        \* hydrate_asset calls under way, by asset and caller
  ticks,          \* ticks accepted so far, by asset
  ingest,         \* _cex_ingest_queue
  okxEpoch,       \* the engine's _okx_epoch and _okx_connected
  okxConnected,
  features,       \* CexFeatureBuffer, by asset
  dropped         \* ticks lost to a full queue: history

cexVars == <<assets, setting, connected, connection, announced, acknowledged,
  fetched, leaving, cexReady, fetches, ticks, ingest, okxEpoch, okxConnected,
  features, dropped>>

engineView == <<ingest, okxEpoch, okxConnected, features, dropped>>
Settled == [at |-> "idle", added |-> {}]

CexInit ==
  /\ assets \in AssetSets /\ setting = Settled
  /\ connected = FALSE /\ connection = 0 /\ announced = FALSE
  /\ acknowledged = {} /\ fetched = {} /\ leaving = {} /\ cexReady = FALSE /\ fetches = {}
  /\ ticks = [a \in Assets |-> 0] /\ ingest = << >>
  /\ okxEpoch = 0 /\ okxConnected = FALSE
  /\ features = [a \in Assets |-> << >>] /\ dropped = {}

-----------------------------------------------------------------------------
(* The stream *)

Required == Channels \X assets

\* hydrate_all is awaited by _run before it reads a frame, the prices of added
\* assets by set_assets.
FetchesOf(caller) == {fetch \in fetches : fetch[2] = caller}

\* _refresh_ready_state
Refresh ==
  cexReady' = IF connected' THEN /\ assets' # {} /\ assets' \subseteq fetched'
                                 /\ Channels \X assets' \subseteq acknowledged'
              ELSE cexReady

\* _publish_health, and _on_source_health of the engine, which keeps "history"
\* unless it hears of a new connection or of the loss of the one it knew
Publish(history) ==
  /\ okxEpoch' = connection' /\ okxConnected' = connected'
  /\ features' = IF connection' > okxEpoch \/ (okxConnected /\ ~connected')
                 THEN [a \in Assets |-> << >>] ELSE history

\* _new_connection_epoch: the subscription is being sent, nothing is published.
\* A set_assets call may be suspended on the connection before.
CexConnect ==
  /\ ~connected /\ assets # {} /\ connection < MaxConnections
  /\ connected' = TRUE /\ connection' = connection + 1 /\ announced' = FALSE
  /\ acknowledged' = {} /\ fetched' = {}
  /\ UNCHANGED <<assets, setting, leaving, fetches, ticks, engineView>>
  /\ Refresh

\* The subscription is sent; hydrate_all asks for a price of every asset.
CexAnnounce ==
  /\ connected /\ ~announced
  /\ announced' = TRUE
  /\ fetches' = fetches \cup (assets \X {"all"})
  /\ UNCHANGED <<assets, setting, connected, connection, acknowledged, fetched,
                 leaving, cexReady, ticks, ingest, dropped>>
  /\ Publish(features)

\* Frames are read
Reading == connected /\ announced /\ FetchesOf("all") = {}

\* The socket ends, or the server asks for a reconnect: BACKOFF is published.
\* _run notices while it sends the subscription or reads.
CexLost ==
  /\ connected /\ (announced => Reading)
  /\ connected' = FALSE /\ cexReady' = FALSE /\ announced' = FALSE
  /\ leaving' = {}
  /\ setting' = IF setting.at = "failed" THEN Settled ELSE setting
  /\ UNCHANGED <<assets, connection, acknowledged, fetched, fetches, ticks, ingest,
                 dropped>>
  /\ Publish(features)

\* _handle_control: a subscription is acknowledged, of an asset still wanted or
\* not.  (What it publishes, the engine has heard when frames are read.)
Acknowledge ==
  \E key \in Channels \X Assets :
    /\ Reading
    /\ acknowledged' = acknowledged \cup ({key} \cap Required)
    /\ UNCHANGED <<assets, setting, connected, connection, announced, fetched,
                   leaving, fetches, ticks, engineView>>
    /\ Refresh

\* _handle_control: the end of a subscription is acknowledged, be the asset
\* wanted again by now or not.
EndAcknowledged ==
  \E key \in leaving :
    /\ Reading
    /\ acknowledged' = acknowledged \ {key}
    /\ leaving' = leaving \ {key}
    /\ UNCHANGED <<assets, setting, connected, connection, announced, fetched,
                   fetches, ticks, engineView>>
    /\ Refresh

\* set_assets up to its first suspension: what leaves is forgotten at once.
SetAssets ==
  \E wanted \in AssetSets :
    /\ setting.at \in {"idle", "failed"}
    /\ assets' = wanted
    /\ fetched' = fetched \cap wanted
    /\ acknowledged' = acknowledged \cap (Channels \X wanted)
    /\ leaving' = IF connected THEN leaving \cup (Channels \X (assets \ wanted))
                  ELSE leaving
    /\ UNCHANGED <<connected, connection, announced, fetches, ticks, ingest, dropped>>
    /\ IF connected /\ wanted # assets
       THEN /\ setting' = [at |-> "sending", added |-> wanted \ assets]
            /\ UNCHANGED <<cexReady, okxEpoch, okxConnected, features>>
       ELSE setting' = Settled /\ Refresh /\ Publish(features)

\* The frames are sent, on this socket or on one that came after; then the
\* prices of the new assets are fetched.
AssetsSent ==
  /\ setting.at = "sending"
  /\ setting' = [setting EXCEPT !.at = "gathering"]
  /\ fetches' = fetches \cup (setting.added \X {"set"})
  /\ UNCHANGED <<assets, connected, connection, announced, acknowledged, fetched,
                 leaving, cexReady, ticks, engineView>>

\* A frame raises: the socket is closing, or is gone.
SendFails ==
  /\ setting.at = "sending"
  /\ setting' = IF connected THEN [at |-> "failed", added |-> {}] ELSE Settled
  /\ UNCHANGED <<assets, connected, connection, announced, acknowledged, fetched,
                 leaving, cexReady, fetches, ticks, engineView>>

AssetsSet ==
  /\ setting.at = "gathering" /\ FetchesOf("set") = {}
  /\ setting' = Settled
  /\ UNCHANGED <<assets, connected, connection, announced, acknowledged, fetched,
                 leaving, fetches, ticks, ingest, dropped>>
  /\ Refresh /\ Publish(features)

-----------------------------------------------------------------------------
(* Observations *)

Full == Len(ingest) >= QueueCapacity

\* _on_cex_observation: a full queue loses the tick and the asset's history
Enqueue(a) ==
  LET tick == [asset |-> a, n |-> ticks'[a], epoch |-> connection]
  IN  IF Full THEN dropped' = dropped \cup {tick} /\ UNCHANGED ingest
      ELSE ingest' = Append(ingest, tick) /\ UNCHANGED dropped
HistoryKept(a) == IF Full THEN [features EXCEPT ![a] = << >>] ELSE features

\* _handle_ticker_row and _handle_trade_row: the asset must still be wanted.
\* Only a ticker hydrates.
Observe ==
  \E a \in assets, ticker \in BOOLEAN :
    /\ Reading /\ ticks[a] < MaxTicks
    /\ ticks' = [ticks EXCEPT ![a] = @ + 1]
    /\ fetched' = IF ticker THEN fetched \cup {a} ELSE fetched
    /\ Enqueue(a) /\ features' = HistoryKept(a)
    /\ UNCHANGED <<assets, setting, connected, connection, announced, acknowledged,
                   leaving, fetches, okxEpoch, okxConnected>>
    /\ IF ticker THEN Refresh ELSE UNCHANGED cexReady

\* hydrate_asset brings a price: it may be asked for before a reconnect and
\* arrive after it.
Fetched ==
  \E fetch \in fetches :
    LET priced == fetch[1]
    IN  /\ priced \in assets /\ ticks[priced] < MaxTicks
        /\ fetches' = fetches \ {fetch}
        /\ ticks' = [ticks EXCEPT ![priced] = @ + 1]
        /\ fetched' = fetched \cup {priced}
        /\ Enqueue(priced)
        /\ UNCHANGED <<assets, setting, connected, connection, announced,
                       acknowledged, leaving>>
        /\ Refresh /\ Publish(HistoryKept(priced))

\* A fetch that fails, or whose price the gate refuses or has seen
FetchWithoutTick ==
  \E fetch \in fetches, replayed \in BOOLEAN :
    /\ fetches' = fetches \ {fetch}
    /\ fetched' = IF replayed THEN fetched \cup ({fetch[1]} \cap assets) ELSE fetched
    /\ UNCHANGED <<assets, setting, connected, connection, announced, acknowledged,
                   leaving, ticks, ingest, dropped>>
    /\ Refresh /\ Publish(features)

\* Seeded fault: a tick queued before a reconnect is not recognised.
DrainAll ==
  /\ ingest # << >>
  /\ ingest' = Tail(ingest)
  /\ features' = [features EXCEPT ![Head(ingest).asset] = Append(@, Head(ingest))]
  /\ UNCHANGED <<assets, setting, connected, connection, announced, acknowledged,
                 fetched, leaving, cexReady, fetches, ticks, okxEpoch, okxConnected,
                 dropped>>

\* _process_cex_observation and CexFeatureBuffer.append
Drain ==
  /\ ingest # << >>
  /\ ingest' = Tail(ingest)
  /\ LET tick == Head(ingest)
         rows == features[tick.asset]
     IN  features' =
           IF \/ tick.epoch < okxEpoch
              \/ rows # << >> /\ tick.epoch < Last(rows).epoch
              \/ rows # << >> /\ tick.epoch = Last(rows).epoch /\ tick.n < Last(rows).n
           THEN features
           ELSE [features EXCEPT ![tick.asset] = Append(rows, tick)]
  /\ UNCHANGED <<assets, setting, connected, connection, announced, acknowledged,
                 fetched, leaving, cexReady, fetches, ticks, okxEpoch, okxConnected,
                 dropped>>

CexNext ==
  \/ CexConnect \/ CexAnnounce \/ CexLost \/ Acknowledge \/ EndAcknowledged
  \/ SetAssets \/ AssetsSent \/ SendFails \/ AssetsSet
  \/ Observe \/ Fetched \/ FetchWithoutTick \/ Drain

CexSpec == CexInit /\ [][CexNext]_cexVars

-----------------------------------------------------------------------------
(* Properties *)

CexTypeOK ==
  /\ acknowledged \subseteq Channels \X Assets
  /\ fetched \subseteq assets
  /\ fetches \subseteq Assets \X {"all", "set"}
  /\ Len(ingest) <= QueueCapacity /\ okxEpoch \in 0..connection

\* "must never re-enter the executable feature buffer that the reconnect already
\* cleared": history holds ticks of the connection the engine knows, in order.
HistoryOfConnection ==
  \A a \in Assets : \A i \in DOMAIN features[a] :
    /\ features[a][i].epoch >= okxEpoch
    /\ i > 1 => /\ features[a][i].epoch >= features[a][i - 1].epoch
                /\ features[a][i].n > features[a][i - 1].n

\* While no set_assets call is suspended, nor one has failed on the socket that
\* is open, READY says what it counts: assets are wanted, and each has a price
\* and is acknowledged on both channels, of this connection.
ReadyIsEarned ==
  cexReady /\ setting.at = "idle" =>
    /\ connected /\ assets # {} /\ assets \subseteq fetched /\ Required \subseteq acknowledged

\* An evaluation that trusts READY reads history of this connection only.
HistorySound == CexTypeOK /\ HistoryOfConnection /\ ReadyIsEarned

\* "drop this asset's executable feature history so a later evaluation cannot act
\* on possibly-inconsistent evidence": no history spans a tick that was lost.
OverflowFailsClosed ==
  \A lost \in dropped : \A i \in DOMAIN features[lost.asset] :
    LET tick == features[lost.asset][i] IN tick.epoch = lost.epoch => tick.n > lost.n
=============================================================================
