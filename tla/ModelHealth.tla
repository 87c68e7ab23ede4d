----------------------------- MODULE ModelHealth -----------------------------
(***************************************************************************)
(* ModelHealthQuarantine (src/lite_frequency_v4/model_health.py): models   *)
(* whose realized results breach are shut out of evaluations for a         *)
(* cooldown.  The engine's maintenance loop reads the verified results on  *)
(* the read worker and applies them when the answer is back (engine.py);   *)
(* evaluations read the live quarantine.  A result is a whole amount, and  *)
(* the floors are tenths.                                                  *)
(***************************************************************************)
EXTENDS Integers

CONSTANTS
  Models,
  Results,          \* net results a trade may realize
  MinObservations, SevereObservations,
  FactorTenths,     \* min_profit_factor
  ExpectancyTenths, \* -min_expectancy
  AsymmetryCap,     \* max_loss_asymmetry
  Cooldown,
  MaxCarried,       \* bound on a model's open trades
  MaxTrades,        \* bound on a model's trades
  MaxHealthTime     \* bound on the clock

\* What the configuration insists on when it is built
ValidConfig ==
  /\ {MinObservations, SevereObservations, Cooldown} \subseteq Nat \ {0}
  /\ FactorTenths \in Nat
  /\ {ExpectancyTenths, AsymmetryCap} \subseteq Int

ASSUME HealthAssumption ==
  /\ ValidConfig
  /\ Results \subseteq Int
  /\ {MaxCarried, MaxTrades, MaxHealthTime} \subseteq Nat

VARIABLES
  carried,     \* open trades of the cohort, by dominant model
  realized,    \* verified pnl_records, by dominant model
  reading,     \* rows the query under way has read, Nothing if none is
  quarantine,  \* _quarantine
  healthTime,
  judged       \* the evidence on which each model was last found in breach: history

healthVars == <<carried, realized, reading, quarantine, healthTime, judged>>

Nothing == [m \in {} |-> 0]
NoResults == [n |-> 0, wins |-> 0, losses |-> 0, profit |-> 0, loss |-> 0]
Unjudged == [n |-> 0, at |-> 0]

HealthInit ==
  /\ carried = [m \in Models |-> 0]
  /\ realized = [m \in Models |-> NoResults]
  /\ reading = Nothing /\ quarantine = Nothing
  /\ healthTime = 0
  /\ judged = [m \in Models |-> Unjudged]

-----------------------------------------------------------------------------
(* The rule *)

\* _performance: a result of zero is counted and nothing else
Plus(r, result) ==
  [n      |-> r.n + 1,
   wins   |-> IF result > 0 THEN r.wins + 1 ELSE r.wins,
   losses |-> IF result < 0 THEN r.losses + 1 ELSE r.losses,
   profit |-> IF result > 0 THEN r.profit + result ELSE r.profit,
   loss   |-> IF result < 0 THEN r.loss - result ELSE r.loss]

\* A profit factor without losses is infinite, or zero without profit too.
FactorBelow(r) ==
  IF r.loss = 0 THEN r.profit = 0 /\ FactorTenths > 0
  ELSE 10 * r.profit < FactorTenths * r.loss

ExpectancyBelow(r) == 10 * (r.profit - r.loss) < -(ExpectancyTenths * r.n)

\* Without a win the asymmetry is infinite, and disqualifies nobody.
SevereAsymmetry(r) ==
  /\ r.wins > 0 /\ r.n >= SevereObservations
  /\ IF r.losses = 0 THEN 0 > AsymmetryCap
     ELSE r.loss * r.wins > AsymmetryCap * r.profit * r.losses

Reasons(r) ==
  (IF FactorBelow(r) /\ ExpectancyBelow(r) THEN {"profit_factor", "expectancy"} ELSE {})
    \cup (IF SevereAsymmetry(r) THEN {"asymmetry"} ELSE {})

\* _compute_statistics
Breach(r) == r.n >= MinObservations /\ Reasons(r) # {}

\* quarantined_models: what an evaluation of now leaves out
Live == {m \in DOMAIN quarantine : healthTime < quarantine[m].until}

-----------------------------------------------------------------------------

\* evaluate marks the output of a quarantined model invalid: it drives no entry.
DriveEntry ==
  \E m \in Models \ Live :
    /\ carried[m] < MaxCarried /\ realized[m].n + carried[m] < MaxTrades
    /\ carried' = [carried EXCEPT ![m] = @ + 1]
    /\ UNCHANGED <<realized, reading, quarantine, healthTime, judged>>

\* A verified terminal result, also of a model that is in quarantine by now
Realize ==
  \E m \in Models, result \in Results :
    /\ carried[m] > 0
    /\ carried' = [carried EXCEPT ![m] = @ - 1]
    /\ realized' = [realized EXCEPT ![m] = Plus(@, result)]
    /\ UNCHANGED <<reading, quarantine, healthTime, judged>>

\* The query, on the read worker: models with a verified result.  _maintenance_inflight
\* allows one at a time.
Read ==
  /\ reading = Nothing
  /\ reading' = [m \in {k \in Models : realized[k].n > 0} |-> realized[m]]
  /\ UNCHANGED <<carried, realized, quarantine, healthTime, judged>>

\* It fails or times out: what is applied stands.
ReadFails ==
  /\ reading # Nothing
  /\ reading' = Nothing
  /\ UNCHANGED <<carried, realized, quarantine, healthTime, judged>>

Breaching == {m \in DOMAIN reading : Breach(reading[m])}

\* Models in breach on evidence their entry does not have
Renewed ==
  {m \in Breaching :
     m \in DOMAIN quarantine =>
       quarantine[m].n # reading[m].n \/ quarantine[m].reasons # Reasons(reading[m])}

Entry(m) == [n |-> reading[m].n, reasons |-> Reasons(reading[m]),
             until |-> healthTime + Cooldown]

Judge(S) ==
  judged' = [m \in Models |->
    IF m \in S /\ reading[m].n # judged[m].n
    THEN [n |-> reading[m].n, at |-> healthTime] ELSE judged[m]]

\* Seeded fault: a model that recovered is released before its cooldown is over.
ApplyForgiving ==
  /\ reading # Nothing
  /\ quarantine' = [m \in (DOMAIN quarantine \cap Breaching) \cup Renewed |->
                      IF m \in Renewed THEN Entry(m) ELSE quarantine[m]]
  /\ Judge(Breaching)
  /\ reading' = Nothing
  /\ UNCHANGED <<carried, realized, healthTime>>

\* apply_realized_pnls: new breaches are entered, and what recovered leaves once
\* its cooldown is over.
Apply ==
  /\ reading # Nothing
  /\ LET released == {m \in DOMAIN quarantine \ Breaching : healthTime >= quarantine[m].until}
     IN  quarantine' = [m \in (DOMAIN quarantine \ released) \cup Renewed |->
                          IF m \in Renewed THEN Entry(m) ELSE quarantine[m]]
  /\ Judge(Breaching)
  /\ reading' = Nothing
  /\ UNCHANGED <<carried, realized, healthTime>>

HealthTick ==
  /\ healthTime < MaxHealthTime
  /\ healthTime' = healthTime + 1
  /\ UNCHANGED <<carried, realized, reading, quarantine, judged>>

HealthNext ==
  \/ DriveEntry \/ Realize \/ Read \/ ReadFails \/ Apply \/ HealthTick

HealthSpec == HealthInit /\ [][HealthNext]_healthVars

-----------------------------------------------------------------------------
(* Properties *)

HealthTypeOK ==
  /\ carried \in [Models -> 0..MaxCarried]
  /\ DOMAIN reading \subseteq Models /\ DOMAIN quarantine \subseteq Models
  /\ \A m \in Models : realized[m].n + carried[m] <= MaxTrades
  /\ healthTime \in 0..MaxHealthTime

\* "its ensemble contribution is zeroed ... A quarantine lasts cooldown_s": from
\* the moment evidence of a breach is first applied, the model is out for the
\* whole cooldown, whatever results come in meanwhile.
CooldownServed ==
  \A m \in Models :
    judged[m].n > 0 /\ healthTime < judged[m].at + Cooldown => m \in Live

\* Nobody is out without a cause: on results that were really realized, at least as
\* many as the rule asks for, judged no longer than a cooldown ago.
QuarantineEarned ==
  \A m \in Live :
    /\ judged[m].n \in MinObservations..realized[m].n
    /\ healthTime < judged[m].at + Cooldown

\* A model is out exactly while its cooldown runs.
HealthSound == HealthTypeOK /\ CooldownServed /\ QuarantineEarned

\* Claimed by the module's docstring: a quarantine "is released only after the
\* cooldown elapses and the next resample no longer reports a breach".
ReleasedWhenWell ==
  \A m \in DOMAIN quarantine \ Live :
    reading # Nothing /\ m \in DOMAIN reading => ~Breach(reading[m])
=============================================================================
