---------------------------- MODULE MCServices ----------------------------
(* The write gate with its lanes, and five components that run beside it,  *)
(* each on its own instance: a behaviour is one of its subject, and the    *)
(* others stay in their initial states.                                    *)
EXTENDS WriteLanes, TelemetryLane, TelemetryController, TelemetryWindow,
        ClusterArbitration, ProcessLifecycle, TLC

CONSTANTS caller1, caller2, caller3, c1, c2, w1, w2

VARIABLE subject

\* Three callers and batches of two rows: callers in every phase at once, and a
\* batch with a row before and a row after a critical arrival.
MCCallers == {caller1, caller2, caller3}
MCBatchRows == 2

\* c1 has the better edge, c2 the deeper book.
MCNetEdge == (c1 :> 2) @@ (c2 :> 1)
MCDepth == (c1 :> 1) @@ (c2 :> 2)
MCKeyOrder == (c1 :> 1) @@ (c2 :> 2)
MCWindowOf == (c1 :> w1) @@ (c2 :> w2)

servicesVars == <<vars, telemetryVars, controllerVars, windowVars,
                  clusterVars, processVars, subject>>

MCInit ==
  /\ Init /\ TelemetryInit /\ ControllerInit /\ WindowInit
  /\ ClusterInit /\ ProcessInit
  /\ subject \in {"gate", "lane", "controller", "window", "cluster", "process"}
  /\ subject # "controller" => selected = PhysicalMax
  /\ subject # "cluster" => launch = 1

OfGate(A) ==
  /\ subject = "gate" /\ A
  /\ UNCHANGED <<telemetryVars, controllerVars, windowVars, clusterVars, processVars, subject>>
OfLane(A) ==
  /\ subject = "lane" /\ A
  /\ UNCHANGED <<vars, controllerVars, windowVars, clusterVars, processVars, subject>>
OfController(A) ==
  /\ subject = "controller" /\ A
  /\ UNCHANGED <<vars, telemetryVars, windowVars, clusterVars, processVars, subject>>
OfWindow(A) ==
  /\ subject = "window" /\ A
  /\ UNCHANGED <<vars, telemetryVars, controllerVars, clusterVars, processVars, subject>>
OfCluster(A) ==
  /\ subject = "cluster" /\ A
  /\ UNCHANGED <<vars, telemetryVars, controllerVars, windowVars, processVars, subject>>
OfProcess(A) ==
  /\ subject = "process" /\ A
  /\ UNCHANGED <<vars, telemetryVars, controllerVars, windowVars, clusterVars, subject>>

MCNext ==
  \/ OfGate(Next) \/ OfLane(TelemetryNext)
  \/ OfController(ControllerNext) \/ OfWindow(WindowNext) \/ OfCluster(ClusterNext)
  \/ OfProcess(ProcessNext)

\* Fairness of WriteLanes, of the subject
MCSpec ==
  /\ MCInit /\ [][MCNext]_servicesVars
  /\ WF_servicesVars(OfGate(WriterStep)) /\ WF_servicesVars(OfGate(TelemetryStep))

\* The lane accounts for every row, its health is certified by windows that its
\* losses do not reach into, and the window the certificate is read from forgets
\* no row of its seconds and no unaccounted one.
TelemetrySound == RowsAccounted /\ HealthCertified /\ WindowSound
=============================================================================
