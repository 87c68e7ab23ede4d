-------------------------- MODULE DurableCommands --------------------------
(***************************************************************************)
(* What the persistence writer promises its callers, without queue,        *)
(* journal or retries: at most one durable effect per idempotency key, and *)
(* an answer to each command that never misstates that effect.             *)
(***************************************************************************)
CONSTANTS Commands, Keys, Idem, Content, NoEffect

VARIABLES
  outcome,  \* what the caller of each command has been told
  effect    \* the command whose mutation is durable under each key

promiseVars == <<outcome, effect>>

Outcomes == {"none", "pending", "result", "failed", "unknown", "dropped", "lost"}

Init ==
  /\ outcome = [c \in Commands |-> "none"]
  /\ effect = [k \in Keys |-> NoEffect]

Tell(c, from, to) ==
  /\ outcome[c] = from
  /\ outcome' = [outcome EXCEPT ![c] = to]
  /\ UNCHANGED effect

Accept(c) == Tell(c, "none", "pending")

\* only a command whose caller is still waiting takes effect, and only first
TakeEffect(c) ==
  /\ outcome[c] = "pending"
  /\ effect[Idem[c]] = NoEffect
  /\ effect' = [effect EXCEPT ![Idem[c]] = c]
  /\ UNCHANGED outcome

\* a result means that this content is durable under the command's key
Confirm(c) ==
  /\ effect[Idem[c]] # NoEffect
  /\ Content[effect[Idem[c]]] = Content[c]
  /\ Tell(c, "pending", "result")

\* a finalized failure means that the command did not and will not take effect
Fail(c) == effect[Idem[c]] # c /\ Tell(c, "pending", "failed")

\* the durable outcome is unknown
GiveUp(c) == Tell(c, "pending", "unknown")

\* the writer died over these queued commands, none of which was started
Drop(S) ==
  /\ \A c \in S : outcome[c] = "pending" /\ effect[Idem[c]] # c
  /\ outcome' = [c \in Commands |-> IF c \in S THEN "dropped" ELSE outcome[c]]
  /\ UNCHANGED effect

\* the process died: the callers of waiting commands are gone
Lose ==
  /\ outcome' = [c \in Commands |->
                   IF outcome[c] = "pending" THEN "lost" ELSE outcome[c]]
  /\ UNCHANGED effect

Next ==
  \/ \E c \in Commands : \/ Accept(c) \/ TakeEffect(c) \/ Confirm(c)
                         \/ Fail(c) \/ GiveUp(c)
  \/ \E S \in SUBSET Commands : Drop(S)
  \/ Lose

Spec == Init /\ [][Next]_promiseVars
=============================================================================
