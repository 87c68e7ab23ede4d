----------------------------- MODULE MCWorkers -----------------------------
(* A dedicated worker, the maintenance planner and the pass that have one, *)
(* the model health the maintenance loop resamples, and the loop of the    *)
(* Lite lane, each on its own instance: a behaviour is one of its subject, *)
(* and the others stay in their initial states.                            *)
EXTENDS StoreWorker, MaintenancePlanner, MaintenancePass, ModelHealth, LiteLane

VARIABLE subject

\* A loss, a break-even trade, and a gain that makes good for the loss
MCResults == {-2, 0, 5}

loopVars == <<workerVars, maintenanceVars, passVars, healthVars, liteVars, subject>>

MCInit ==
  /\ WorkerInit /\ MaintenanceInit /\ PassInit /\ HealthInit /\ LiteInit
  /\ subject \in {"worker", "maintenance", "pass", "health", "lite"}
  /\ decided = [mode |-> "none", gated |-> FALSE, readers |-> FALSE]

OfWorker(A) ==
  /\ subject = "worker" /\ A
  /\ UNCHANGED <<maintenanceVars, passVars, healthVars, liteVars, subject>>
OfMaintenance(A) ==
  /\ subject = "maintenance" /\ A
  /\ UNCHANGED <<workerVars, passVars, healthVars, liteVars, subject>>
OfPass(A) ==
  /\ subject = "pass" /\ A
  /\ UNCHANGED <<workerVars, maintenanceVars, healthVars, liteVars, subject>>
OfHealth(A) ==
  /\ subject = "health" /\ A
  /\ UNCHANGED <<workerVars, maintenanceVars, passVars, liteVars, subject>>
OfLite(A) ==
  /\ subject = "lite" /\ A
  /\ UNCHANGED <<workerVars, maintenanceVars, passVars, healthVars, subject>>

MCNext ==
  \/ OfWorker(WorkerNext) \/ OfMaintenance(MaintenanceNext) \/ OfPass(PassNext)
  \/ OfHealth(HealthNext) \/ OfLite(LiteNext)

\* WorkerFairness, MaintenanceFairness and LiteFairness, each of the subject. The
\* subject never changes, so one condition on a disjunction of steps of several
\* subjects is the condition on the step of the one.
LiteTrade(i, A(_)) == OfLite(i \in DOMAIN trades /\ A(i))

MCSpec ==
  /\ MCInit /\ [][MCNext]_loopVars
  /\ WF_loopVars(OfWorker(ThreadStep) \/ OfLite(LoopStep)
                 \/ OfMaintenance(BeginPass \/ PassWithoutCheckpoint))
  /\ WF_loopVars(OfWorker(EnqueueStop \/ StopGivesUp) \/ OfMaintenance(Tick)
                 \/ OfLite(NextWindow))
  /\ SF_loopVars(OfMaintenance(RunCheckpoint) \/ LiteTrade(1, ResolveOfficial))
  /\ SF_loopVars(OfMaintenance(ApplyResult) \/ LiteTrade(2, ResolveOfficial))
  /\ \A i \in 1..(Cardinality(Assets) * NWindows) :
       WF_loopVars(LiteTrade(i, BackoffEnds))

\* Checkpoints are neither hurried nor put off, a pass does what it may and tells
\* what it did, a model in breach is out for its cooldown, and the lane's memory,
\* tables and caps agree through crashes.
LoopsSound == PlannerSound /\ PassSound /\ HealthSound /\ LaneSound
=============================================================================
