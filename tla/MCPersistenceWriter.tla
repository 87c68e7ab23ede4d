------------------------ MODULE MCPersistenceWriter ------------------------
(* a2 resubmits the mutation of a1 under the same idempotency key; q is of *)
(* p's window and more urgent; x of another window reuses p's key for      *)
(* other content.  A behaviour is of a scenario: two of these commands, or *)
(* p, q and x on a queue of two.                                           *)
EXTENDS PersistenceWriter

VARIABLE scenario

RetryCommands == {"a1", "a2"}
MixCommands == {"p", "q", "x"}

MCCommands == RetryCommands \cup MixCommands
MCKeys == {"a", "b"}
MCOrderingKeys == {"w", "v"}
MCIdem == [c \in MCCommands |-> IF c = "q" THEN "b" ELSE "a"]
MCContent == [c \in MCCommands |-> IF c \in RetryCommands THEN "enter" ELSE c]
MCOrderingKey == [c \in MCCommands |-> IF c = "x" THEN "v" ELSE "w"]
MCPriority == [c \in MCCommands |-> IF c \in {"q", "x"} THEN 10 ELSE 50]

Active == [retry |-> RetryCommands, order |-> {"p", "q"}, reuse |-> {"p", "x"},
           full |-> MixCommands]

\* Only the scenario's commands are submitted.  Two faults and a crash where one
\* mutation is submitted again, a fault in the other pairs, no fault and no close
\* with all three.
OfScenario(A) ==
  /\ A /\ UNCHANGED scenario
  /\ \A c \in MCCommands \ Active[scenario] : submitPc'[c] = "new"
  /\ faults' <= CASE scenario = "retry" -> 2 [] scenario = "full" -> 0 [] OTHER -> 1
  /\ scenario # "retry" => crashes' = 0
  /\ scenario = "full" => ~closing'

writerRunVars == <<vars, scenario>>

MCInit == Init /\ scenario \in DOMAIN Active

MCSpec ==
  /\ MCInit
  /\ [][OfScenario(Next)]_writerRunVars
  /\ WF_writerRunVars(OfScenario(WriterStep))
=============================================================================
