------------------------- MODULE TradeEngine_proofs -------------------------
(***************************************************************************)
(* The engine asks of the store only what the store's specification        *)
(* allows, for any windows, runs, amounts and bounds; so the theorems      *)
(* about the tables hold under it.  And what the engine remembers of the   *)
(* tables keeps in step with them, over every order of commits, answers,   *)
(* timeouts and deaths.                                                    *)
(***************************************************************************)
EXTENDS TradeEngine, TradeStore_proofs

\* What the tasks hold and the numbers they will use fit the tables.
TaskInv ==
  /\ eval \in {Idle} \cup [pc : {"entry", "entering", "manage", "managing"}, w : Windows]
  /\ resolve \in {Idle} \cup [pc : {"rows", "resolving"}, due : SUBSET Windows]
  /\ eval # Idle => Running
  /\ resolve # Idle => Running /\ resolve.due \subseteq closed
  /\ nextSeq \in [Windows -> Nat] /\ tried \in [Windows -> Nat]
  /\ \A w \in Windows : nextSeq[w] <= Len(decisions[w]) /\ tried[w] <= Len(attempts[w])
  /\ attempts \in [Windows -> Seq(Evidence)]

\* A command the store's specification lets a run send.
Sendable(c) ==
  /\ c.kind = "manage" => c.seq <= Len(decisions[c.w]) + 1
  /\ c.kind = "resolve" => c.w \in closed /\ c.no <= Len(attempts[c.w]) + 1

QueueInv ==
  /\ queue \in Seq(Commands)
  /\ queue # <<>> => Running
  /\ \A i \in DOMAIN queue : Sendable(queue[i])

\* An acknowledged number is in the tables.
Recorded(c) ==
  /\ c.kind = "manage" => c.seq <= Len(decisions[c.w])
  /\ c.kind = "resolve" => c.no <= Len(attempts[c.w])

AckRow == [cmd : Commands, result : Results]

AckInv ==
  /\ acks \in Seq(AckRow)
  /\ \A i \in DOMAIN acks : acks[i].result = "none" => Recorded(acks[i].cmd)

Waiting(task) ==
  IF task = "eval" THEN eval.pc \in {"entering", "managing"} ELSE resolve.pc = "resolving"

\* A command somebody waits for has its task waiting, and is that task's only
\* one on its way to the writer or back.
WaitInv ==
  /\ \A i \in DOMAIN queue : queue[i].from # "none" => Waiting(queue[i].from)
  /\ \A i \in DOMAIN acks : acks[i].cmd.from # "none" => Waiting(acks[i].cmd.from)
  /\ \A i, j \in DOMAIN queue :
       i # j /\ queue[i].from = queue[j].from => queue[i].from = "none"
  /\ \A i, j \in DOMAIN acks :
       i # j /\ acks[i].cmd.from = acks[j].cmd.from => acks[i].cmd.from = "none"
  /\ \A i \in DOMAIN queue, j \in DOMAIN acks :
       queue[i].from = acks[j].cmd.from => queue[i].from = "none"

EInv == IInv /\ TaskInv /\ QueueInv /\ AckInv /\ WaitInv

-----------------------------------------------------------------------------
LEMMA RemoveAtFacts ==
  ASSUME NEW S, NEW s \in Seq(S), NEW i \in DOMAIN s
  PROVE  /\ RemoveAt(s, i) \in Seq(S)
         /\ Len(RemoveAt(s, i)) = Len(s) - 1
         /\ \A j \in DOMAIN RemoveAt(s, i) :
              RemoveAt(s, i)[j] = s[IF j < i THEN j ELSE j + 1]
<1> DEFINE front == SubSeq(s, 1, i - 1)
           back == SubSeq(s, i + 1, Len(s))
<1>1. i \in 1..Len(s) /\ Len(s) \in Nat
  OBVIOUS
<1>2. front \in Seq(S) /\ Len(front) = i - 1 /\ \A j \in 1..(i - 1) : front[j] = s[j]
  BY <1>1
<1>3. /\ back \in Seq(S) /\ Len(back) = Len(s) - i
      /\ \A j \in 1..(Len(s) - i) : back[j] = s[i + j]
  BY <1>1
<1>4. RemoveAt(s, i) = front \o back
  BY DEF RemoveAt
<1> HIDE DEF front, back
<1>5. /\ front \o back \in Seq(S) /\ Len(front \o back) = Len(s) - 1
      /\ DOMAIN (front \o back) = 1..(Len(s) - 1)
  BY <1>1, <1>2, <1>3
<1>6. \A j \in 1..(Len(s) - 1) : (front \o back)[j] = s[IF j < i THEN j ELSE j + 1]
  BY <1>1, <1>2, <1>3
<1> QED
  BY <1>4, <1>5, <1>6

LEMMA TailFacts ==
  ASSUME NEW S, NEW s \in Seq(S), s # <<>>
  PROVE  /\ Head(s) \in S /\ Head(s) = s[1] /\ 1 \in DOMAIN s
         /\ Tail(s) \in Seq(S)
         /\ \A j \in DOMAIN Tail(s) : j + 1 \in DOMAIN s /\ Tail(s)[j] = s[j + 1]
  OBVIOUS

LEMMA AppendFacts ==
  ASSUME NEW S, NEW s \in Seq(S), NEW x \in S
  PROVE  /\ Append(s, x) \in Seq(S)
         /\ \A j \in DOMAIN Append(s, x) :
              \/ j \in DOMAIN s /\ Append(s, x)[j] = s[j]
              \/ j = Len(s) + 1 /\ Append(s, x)[j] = x
  OBVIOUS

\* Recording at a number the history expects leaves it there for good.
LEMMA RecordFacts ==
  ASSUME NEW S, NEW h \in Seq(S), NEW i \in Nat, NEW row \in S
  PROVE  /\ Record(h, i, row) \in Seq(S)
         /\ Len(h) <= Len(Record(h, i, row))
         /\ i <= Len(h) + 1 => i <= Len(Record(h, i, row))
  BY DEF Record

LEMMA CommandFacts ==
  ASSUME NEW c \in Commands
  PROVE  /\ c.kind \in {"enter", "manage", "resolve"} /\ c.w \in Windows
         /\ c.from \in (IF c.kind = "resolve" THEN {"resolve", "none"} ELSE {"eval", "none"})
         /\ c.kind = "enter" => c.side \in Sides /\ c.cost \in Costs /\ c.fee \in Fees
         /\ c.kind = "manage" =>
              /\ c.seq \in 1..MaxDecisions /\ c.action \in Actions
              /\ c.price \in Prices /\ c.fee \in Fees
         /\ c.kind = "resolve" => c.no \in 1..MaxAttempts /\ c.e \in Evidence
  BY DEF Commands

\* While the program runs, Me is its run.
LEMMA RunningMe == Running => Me \in Sessions /\ sessions[Me] = "live"
  BY DEF Running, Me

-----------------------------------------------------------------------------
(* What the writer does with a command.                                    *)

\* An applied command is one the store's specification lets a run send.
LEMMA ApplyTrades ==
  ASSUME EInv, NEW i \in DOMAIN queue, NEW expired \in BOOLEAN,
         Apply(queue[i], expired), UNCHANGED <<sessions, closed>>
  PROVE  \E s \in Sessions : Trade(s)
<1> DEFINE c == queue[i]
<1>1. c \in Commands /\ Sendable(c) /\ Running
  BY DEF EInv, QueueInv
<1> HIDE DEF c
<1>2. Me \in Sessions /\ sessions[Me] = "live"
  BY <1>1, RunningMe
<1>3. CASE c.kind = "enter"
  <2>1. EnterBundle(c.w, c.side, Me, c.cost, c.fee, expired)
    BY <1>3 DEF Apply, c
  <2> QED
    BY <1>1, <1>2, <1>3, <2>1, CommandFacts DEF Trade
<1>4. CASE c.kind = "manage"
  <2>1. ManageBundle(c.w, c.seq, c.action, Closes(c), c.price, c.fee)
    BY <1>4 DEF Apply, c
  <2>2. Closes(c) \in BOOLEAN /\ c.seq <= Len(decisions[c.w]) + 1
    BY <1>1, <1>4 DEF Closes, Sendable
  <2> QED
    BY <1>1, <1>2, <1>4, <2>1, <2>2, CommandFacts DEF Trade
<1>5. CASE c.kind = "resolve"
  <2>1. ResolveBundle(c.w, c.no, c.e, Closes(c), Outcome(c))
    BY <1>5 DEF Apply, c
  <2>2. Closes(c) \in BOOLEAN /\ c.w \in closed /\ c.no <= Len(attempts[c.w]) + 1
    BY <1>1, <1>5 DEF Closes, Sendable
  <2>3. Outcome(c) \in Sides
    BY <1>5 DEF Outcome, Closes, Sides
  <2> QED
    BY <1>1, <1>2, <1>5, <2>1, <2>2, <2>3, CommandFacts DEF Trade
<1> QED
  BY <1>1, <1>3, <1>4, <1>5, CommandFacts

\* Histories only grow, and hold an applied command's number afterwards.
HistoriesGrow ==
  /\ decisions' \in [Windows -> Seq(Actions)]
  /\ attempts' \in [Windows -> Seq(Evidence)]
  /\ \A w \in Windows : /\ Len(decisions[w]) <= Len(decisions'[w])
                        /\ Len(attempts[w]) <= Len(attempts'[w])

RecordedNext(c) ==
  /\ c.kind = "manage" => c.seq <= Len(decisions'[c.w])
  /\ c.kind = "resolve" => c.no <= Len(attempts'[c.w])

LEMMA ApplyGrows ==
  ASSUME IInv, TaskInv, NEW c \in Commands, Sendable(c), NEW expired \in BOOLEAN,
         Apply(c, expired)
  PROVE  HistoriesGrow /\ RecordedNext(c)
<1>2. decisions \in [Windows -> Seq(Actions)] /\ attempts \in [Windows -> Seq(Evidence)]
  BY DEF IInv, Tables, TaskInv
<1>3. CASE c.kind = "enter"
  <2>1. EnterBundle(c.w, c.side, Me, c.cost, c.fee, expired)
    BY <1>3 DEF Apply
  <2>2. UNCHANGED <<decisions, attempts>>
    BY <2>1 DEF EnterBundle, OpenEntry, rows
  <2> QED
    BY <1>2, <1>3, <2>2 DEF HistoriesGrow, RecordedNext
<1>4. CASE c.kind = "manage"
  <2>1. ManageBundle(c.w, c.seq, c.action, Closes(c), c.price, c.fee)
    BY <1>4 DEF Apply
  <2>2. /\ decisions' = [decisions EXCEPT ![c.w] = Record(@, c.seq, c.action)]
        /\ attempts' = attempts
    BY <2>1 DEF ManageBundle
  <2>3. c.w \in Windows /\ c.seq \in Nat /\ c.action \in Actions
    BY <1>4, CommandFacts, StoreAssumption
  <2>4. /\ Record(decisions[c.w], c.seq, c.action) \in Seq(Actions)
        /\ Len(decisions[c.w]) <= Len(Record(decisions[c.w], c.seq, c.action))
        /\ c.seq <= Len(Record(decisions[c.w], c.seq, c.action))
    BY <1>2, <1>4, <2>3, RecordFacts DEF Sendable
  <2>5. HistoriesGrow
    BY <1>2, <2>2, <2>3, <2>4 DEF HistoriesGrow
  <2> QED
    BY <1>2, <1>4, <2>2, <2>3, <2>4, <2>5 DEF RecordedNext
<1>5. CASE c.kind = "resolve"
  <2>1. ResolveBundle(c.w, c.no, c.e, Closes(c), Outcome(c))
    BY <1>5 DEF Apply
  <2>2. /\ attempts' = [attempts EXCEPT ![c.w] = Record(@, c.no, c.e)]
        /\ decisions' = decisions
    BY <2>1 DEF ResolveBundle
  <2>3. c.w \in Windows /\ c.no \in Nat /\ c.e \in Evidence
    BY <1>5, CommandFacts, StoreAssumption
  <2>4. /\ Record(attempts[c.w], c.no, c.e) \in Seq(Evidence)
        /\ Len(attempts[c.w]) <= Len(Record(attempts[c.w], c.no, c.e))
        /\ c.no <= Len(Record(attempts[c.w], c.no, c.e))
    BY <1>2, <1>5, <2>3, RecordFacts DEF Sendable
  <2>5. HistoriesGrow
    BY <1>2, <2>2, <2>3, <2>4 DEF HistoriesGrow
  <2> QED
    BY <1>2, <1>5, <2>2, <2>3, <2>4, <2>5 DEF RecordedNext
<1> QED
  BY <1>3, <1>4, <1>5, CommandFacts

LEMMA RefusalResult ==
  ASSUME NEW c \in Commands, NEW expired \in BOOLEAN
  PROVE  Refusal(c, expired) \in Results
<1> USE DEF Results, CapacityReasons
<1>1. CASE c.kind = "enter"
  BY <1>1 DEF Refusal, EnterRefusal, CapacityRefusal
<1>2. CASE c.kind = "manage"
  BY <1>2 DEF Refusal, ManageRefusal
<1>3. CASE c.kind = "resolve"
  BY <1>3 DEF Refusal, ResolveRefusal
<1> QED
  BY <1>1, <1>2, <1>3, CommandFacts

LEMMA GrowsRecorded ==
  ASSUME IInv, TaskInv, HistoriesGrow, NEW c \in Commands, Recorded(c)
  PROVE  RecordedNext(c)
<1>1. c.w \in Windows
  BY CommandFacts
<1>2. /\ Len(decisions[c.w]) \in Nat /\ Len(attempts[c.w]) \in Nat
      /\ Len(decisions'[c.w]) >= Len(decisions[c.w])
      /\ Len(attempts'[c.w]) >= Len(attempts[c.w])
  BY <1>1 DEF HistoriesGrow, IInv, Tables, TaskInv
<1>3. Len(decisions'[c.w]) \in Nat /\ Len(attempts'[c.w]) \in Nat
  BY <1>1 DEF HistoriesGrow
<1> QED
  BY <1>2, <1>3, CommandFacts, StoreAssumption DEF Recorded, RecordedNext

\* Taking a command from the queue and answering it, whatever the answer.
LEMMA AnswerKeeps ==
  ASSUME EInv, NEW i \in DOMAIN queue, NEW result \in Results,
         HistoriesGrow, result = "none" => RecordedNext(queue[i]),
         Answer(queue[i], result), queue' = RemoveAt(queue, i),
         UNCHANGED <<sessions, closed, memory, tasks>>
  PROVE  TaskInv' /\ QueueInv' /\ AckInv' /\ WaitInv'
<1> DEFINE c == queue[i]
           ack == [cmd |-> c, result |-> result]
<1>1. /\ decisions \in [Windows -> Seq(Actions)]
      /\ attempts \in [Windows -> Seq(Evidence)]
      /\ \A w \in Windows : Len(decisions[w]) \in Nat /\ Len(attempts[w]) \in Nat
  BY DEF EInv, IInv, Tables, TaskInv
<1>2. queue \in Seq(Commands) /\ acks \in Seq(AckRow) /\ Running
  BY DEF EInv, QueueInv, AckInv
<1>3. c \in Commands /\ ack \in AckRow /\ ack.cmd = c /\ ack.result = result
  BY <1>2 DEF AckRow
<1>4. Running' /\ UNCHANGED <<closed, eval, resolve, nextSeq, tried>>
  BY <1>2 DEF Running, tasks, memory
<1>5. TaskInv'
  BY <1>1, <1>4 DEF EInv, TaskInv, HistoriesGrow, Idle
<1>6. /\ queue' \in Seq(Commands)
      /\ \A j \in DOMAIN queue' :
           /\ (IF j < i THEN j ELSE j + 1) \in DOMAIN queue \ {i}
           /\ queue'[j] = queue[IF j < i THEN j ELSE j + 1]
  BY <1>2, RemoveAtFacts
<1>7. QueueInv'
  <2>1. ASSUME NEW j \in DOMAIN queue' PROVE Sendable(queue[j])'
    <3>1. PICK k \in DOMAIN queue : queue'[j] = queue[k]
      BY <1>6
    <3>2. Sendable(queue[k]) /\ queue[k] \in Commands
      BY <1>2 DEF EInv, QueueInv
    <3>3. queue[k].w \in Windows
      BY <3>2, CommandFacts
    <3>4. queue[k].kind = "manage" => queue[k].seq \in Nat
      BY <3>2, CommandFacts, StoreAssumption
    <3>5. queue[k].kind = "resolve" => queue[k].no \in Nat
      BY <3>2, CommandFacts, StoreAssumption
    <3>6. /\ Len(decisions[queue[k].w]) <= Len(decisions'[queue[k].w])
          /\ Len(attempts[queue[k].w]) <= Len(attempts'[queue[k].w])
      BY <3>3 DEF HistoriesGrow
    <3> QED
      BY <1>1, <1>4, <3>1, <3>2, <3>3, <3>4, <3>5, <3>6 DEF Sendable
  <2> QED
    BY <1>4, <1>6, <2>1 DEF QueueInv
<1>8. \/ c.from = "none" /\ acks' = acks
      \/ c.from # "none" /\ acks' = Append(acks, ack)
  BY DEF Answer
<1>9. /\ acks' \in Seq(AckRow)
      /\ \A j \in DOMAIN acks' :
           \/ j \in DOMAIN acks /\ acks'[j] = acks[j]
           \/ j = Len(acks) + 1 /\ acks'[j] = ack /\ c.from # "none"
  <2>1. CASE c.from = "none" /\ acks' = acks
    BY <1>2, <2>1
  <2>2. CASE c.from # "none" /\ acks' = Append(acks, ack)
    BY <1>2, <1>3, <2>2, AppendFacts
  <2> QED
    BY <1>8, <2>1, <2>2
<1>10. AckInv'
  <2>1. ASSUME NEW j \in DOMAIN acks', acks'[j].result = "none"
        PROVE  RecordedNext(acks'[j].cmd)
    <3>1. CASE acks'[j] = ack
      BY <1>3, <2>1, <3>1
    <3>2. CASE j \in DOMAIN acks /\ acks'[j] = acks[j]
      <4>1. Recorded(acks[j].cmd) /\ acks[j].cmd \in Commands
        <5>1. acks[j] \in AckRow /\ acks[j].result = "none"
          BY <1>2, <2>1, <3>2
        <5> QED
          BY <3>2, <5>1 DEF EInv, AckInv, AckRow
      <4>2. IInv /\ TaskInv
        BY DEF EInv
      <4> QED
        BY <3>2, <4>1, <4>2, GrowsRecorded
    <3> QED
      BY <1>9, <3>1, <3>2
  <2> QED
    BY <1>9, <2>1 DEF AckInv, Recorded, RecordedNext
<1>11. WaitInv'
  <2>1. \A k \in DOMAIN queue : k # i /\ queue[k].from = c.from => c.from = "none"
    BY DEF EInv, WaitInv
  <2>2. \A k \in DOMAIN acks : acks[k].cmd.from = c.from => c.from = "none"
    BY DEF EInv, WaitInv
  <2>3. c.from # "none" => Waiting(c.from)
    BY DEF EInv, WaitInv
  <2>4. \A j \in DOMAIN queue' : \E k \in DOMAIN queue \ {i} : queue'[j] = queue[k]
    BY <1>6
  <2>5. \A j, l \in DOMAIN queue' : j # l =>
          \E k, m \in DOMAIN queue : k # m /\ queue'[j] = queue[k] /\ queue'[l] = queue[m]
    BY <1>2, <1>6
  <2>6. \A f : Waiting(f)' <=> Waiting(f)
    BY <1>4 DEF Waiting
  <2>7. \A j \in DOMAIN queue' : queue'[j].from # "none" => Waiting(queue'[j].from)
    BY <2>4 DEF EInv, WaitInv
  <2>8. \A j \in DOMAIN acks' : acks'[j].cmd.from # "none" => Waiting(acks'[j].cmd.from)
    BY <1>3, <1>9, <2>3 DEF EInv, WaitInv
  <2>9. \A j, l \in DOMAIN queue' :
          j # l /\ queue'[j].from = queue'[l].from => queue'[j].from = "none"
    BY <2>5 DEF EInv, WaitInv
  <2>10. \A j, l \in DOMAIN acks' :
           j # l /\ acks'[j].cmd.from = acks'[l].cmd.from => acks'[j].cmd.from = "none"
    BY <1>3, <1>9, <2>2 DEF EInv, WaitInv
  <2>11. \A j \in DOMAIN queue', l \in DOMAIN acks' :
           queue'[j].from = acks'[l].cmd.from => queue'[j].from = "none"
    BY <1>3, <1>9, <2>1, <2>4 DEF EInv, WaitInv
  <2> QED
    BY <1>4, <2>7, <2>8, <2>9, <2>10, <2>11 DEF WaitInv, Waiting
<1> QED
  BY <1>5, <1>7, <1>10, <1>11

TasksKeep == TaskInv' /\ QueueInv' /\ AckInv' /\ WaitInv'

LEMMA CommitKeeps ==
  ASSUME EInv, NEW i \in DOMAIN queue, Commit(i)
  PROVE  [StoreNext]_storeVars /\ TasksKeep
<1> DEFINE c == queue[i]
<1>1. c \in Commands /\ Sendable(c) /\ IInv /\ TaskInv /\ attempts \in [Windows -> Seq(Evidence)]
  BY DEF EInv, QueueInv, TaskInv
<1>2. PICK expired \in BOOLEAN :
        /\ IF Refusal(c, expired) = "none" THEN Apply(c, expired) ELSE UNCHANGED rows
        /\ Answer(c, Refusal(c, expired))
  BY DEF Commit
<1>3. queue' = RemoveAt(queue, i) /\ UNCHANGED <<sessions, closed, memory, tasks>>
  BY DEF Commit
<1>4. Refusal(c, expired) \in Results
  BY <1>1, RefusalResult
<1> HIDE DEF c
<1>5. CASE Refusal(c, expired) = "none"
  <2>1. Apply(c, expired)
    BY <1>2, <1>5
  <2>2. \E s \in Sessions : Trade(s)
    BY <1>3, <2>1, ApplyTrades DEF c
  <2>3. HistoriesGrow /\ RecordedNext(c)
    BY <1>1, <2>1, ApplyGrows
  <2>4. TasksKeep
    BY <1>2, <1>3, <1>4, <2>3, AnswerKeeps DEF c, TasksKeep
  <2> QED
    BY <2>2, <2>4 DEF StoreNext
<1>6. CASE Refusal(c, expired) # "none"
  <2>1. UNCHANGED storeVars
    BY <1>2, <1>3, <1>6 DEF storeVars
  <2>2. UNCHANGED <<decisions, attempts>>
    BY <2>1 DEF storeVars, rows
  <2>3. decisions \in [Windows -> Seq(Actions)]
    BY <1>1 DEF IInv, Tables
  <2>4. HistoriesGrow
    BY <1>1, <2>2, <2>3 DEF HistoriesGrow
  <2>5. TasksKeep
    BY <1>2, <1>3, <1>4, <1>6, <2>4, AnswerKeeps DEF c, TasksKeep
  <2> QED
    BY <2>1, <2>5
<1> QED
  BY <1>5, <1>6

LEMMA FailKeeps ==
  ASSUME EInv, NEW i \in DOMAIN queue, Fail(i)
  PROVE  UNCHANGED storeVars /\ TasksKeep
<1>1. /\ UNCHANGED storeVars /\ Answer(queue[i], "failed") /\ queue' = RemoveAt(queue, i)
      /\ UNCHANGED <<sessions, closed, memory, tasks, decisions, attempts>>
  BY DEF Fail, storeVars, rows
<1>2. HistoriesGrow
  BY <1>1 DEF HistoriesGrow, EInv, IInv, Tables, TaskInv
<1>3. "failed" \in Results /\ "failed" # "none"
  BY DEF Results
<1> QED
  BY <1>1, <1>2, <1>3, AnswerKeeps DEF TasksKeep

-----------------------------------------------------------------------------
(* What the tasks do.                                                      *)

\* Commands under way stay as they are.
LEMMA StillKeeps ==
  ASSUME EInv, UNCHANGED <<decisions, attempts, queue, acks>>,
         closed \subseteq closed', queue # <<>> => Running',
         Waiting("eval") => Waiting("eval")', Waiting("resolve") => Waiting("resolve")'
  PROVE  QueueInv' /\ AckInv' /\ WaitInv'
<1>1. QueueInv'
  BY DEF EInv, QueueInv, Sendable
<1>2. AckInv'
  BY DEF EInv, AckInv, Recorded
<1>3. \A i \in DOMAIN queue : queue[i].from \in {"eval", "resolve", "none"}
  BY CommandFacts DEF EInv, QueueInv
<1>4. \A i \in DOMAIN acks : acks[i].cmd.from \in {"eval", "resolve", "none"}
  <2>1. \A i \in DOMAIN acks : acks[i] \in AckRow
    BY DEF EInv, AckInv
  <2> QED
    BY <2>1, CommandFacts DEF AckRow
<1>5. WaitInv'
  BY <1>3, <1>4 DEF EInv, WaitInv, Waiting
<1> QED
  BY <1>1, <1>2, <1>5

LEMMA SubmitKeeps ==
  ASSUME EInv, NEW c \in Commands, Submit(c), Sendable(c), Running,
         c.from \in {"eval", "resolve"}, ~Waiting(c.from), Waiting(c.from)',
         Waiting("eval") => Waiting("eval")', Waiting("resolve") => Waiting("resolve")'
  PROVE  QueueInv' /\ AckInv' /\ WaitInv'
<1>1. /\ queue' = Append(queue, c) /\ queue \in Seq(Commands)
      /\ UNCHANGED <<decisions, attempts, sessions, closed, acks>>
  BY DEF EInv, QueueInv, Submit, storeVars, rows
<1>2. /\ queue' \in Seq(Commands)
      /\ \A j \in DOMAIN queue' :
           \/ j \in DOMAIN queue /\ queue'[j] = queue[j]
           \/ j = Len(queue) + 1 /\ queue'[j] = c
  BY <1>1, AppendFacts
<1>3. QueueInv'
  BY <1>1, <1>2 DEF EInv, QueueInv, Sendable, Running
<1>4. AckInv'
  BY <1>1 DEF EInv, AckInv, Recorded
<1>5. \A i \in DOMAIN queue : queue[i].from \in {"eval", "resolve", "none"}
  BY <1>1, CommandFacts
<1>6. \A i \in DOMAIN acks : acks[i].cmd.from \in {"eval", "resolve", "none"}
  <2>1. \A i \in DOMAIN acks : acks[i] \in AckRow
    BY DEF EInv, AckInv
  <2> QED
    BY <2>1, CommandFacts DEF AckRow
<1>7. \A i \in DOMAIN queue : queue[i].from # c.from
  BY DEF EInv, WaitInv
<1>8. \A i \in DOMAIN acks : acks[i].cmd.from # c.from
  BY DEF EInv, WaitInv
<1>9. WaitInv'
  BY <1>1, <1>2, <1>5, <1>6, <1>7, <1>8 DEF EInv, WaitInv, Waiting
<1> QED
  BY <1>3, <1>4, <1>9

LEMMA GiveUpFacts ==
  ASSUME NEW c \in Commands, NEW task \in {"eval", "resolve"}
  PROVE  /\ GiveUp(c, task) \in Commands
         /\ GiveUp(c, task).from = (IF c.from = task THEN "none" ELSE c.from)
         /\ GiveUp(c, task).kind = c.kind /\ GiveUp(c, task).w = c.w
         /\ c.kind = "manage" => GiveUp(c, task).seq = c.seq
         /\ c.kind = "resolve" => GiveUp(c, task).no = c.no
  BY DEF Commands, GiveUp

LEMMA SeqFacts ==
  ASSUME NEW S, NEW n \in Nat, NEW f \in [1..n -> S]
  PROVE  f \in Seq(S) /\ Len(f) = n
  OBVIOUS

LEMMA TimeoutKeeps ==
  ASSUME EInv, NEW task \in {"eval", "resolve"}, Timeout(task),
         \A f \in {"eval", "resolve"} \ {task} : Waiting(f) => Waiting(f)'
  PROVE  QueueInv' /\ AckInv' /\ WaitInv'
<1>1. /\ queue' = [i \in DOMAIN queue |-> GiveUp(queue[i], task)]
      /\ acks' = [i \in DOMAIN acks |-> [acks[i] EXCEPT !.cmd = GiveUp(@, task)]]
      /\ UNCHANGED <<sessions, closed, decisions, attempts>>
  BY DEF Timeout, storeVars, rows
<1>2. queue \in Seq(Commands) /\ acks \in Seq(AckRow)
  BY DEF EInv, QueueInv, AckInv
<1>3. /\ DOMAIN queue' = DOMAIN queue
      /\ \A i \in DOMAIN queue : queue[i] \in Commands /\ queue'[i] = GiveUp(queue[i], task)
  BY <1>1, <1>2
<1>4. /\ DOMAIN acks' = DOMAIN acks
      /\ \A i \in DOMAIN acks :
           /\ acks[i].cmd \in Commands /\ acks'[i].cmd = GiveUp(acks[i].cmd, task)
           /\ acks'[i].result = acks[i].result /\ acks'[i] \in AckRow
  <2>1. \A i \in DOMAIN acks : acks[i] \in AckRow
    BY <1>2
  <2> QED
    BY <1>1, <2>1, GiveUpFacts DEF AckRow
<1>5. queue' \in Seq(Commands) /\ (queue' # <<>> => queue # <<>>)
  <2>1. queue' \in [1..Len(queue) -> Commands] /\ Len(queue) \in Nat
    BY <1>1, <1>2, <1>3, GiveUpFacts
  <2> QED
    BY <1>2, <2>1, SeqFacts
<1>6. acks' \in Seq(AckRow)
  <2>1. acks' \in [1..Len(acks) -> AckRow] /\ Len(acks) \in Nat
    <3>1. DOMAIN acks = 1..Len(acks) /\ Len(acks) \in Nat
      BY <1>2
    <3>2. acks' = [i \in DOMAIN acks |-> acks'[i]]
      BY <1>1
    <3>3. \A i \in DOMAIN acks : acks'[i] \in AckRow
      BY <1>4
    <3> HIDE <1>1
    <3> QED
      BY <3>1, <3>2, <3>3
  <2> QED
    BY <2>1, SeqFacts
<1>7. QueueInv'
  <2>1. \A i \in DOMAIN queue' : Sendable(queue[i])'
    <3> SUFFICES ASSUME NEW i \in DOMAIN queue' PROVE Sendable(queue[i])'
      OBVIOUS
    <3> DEFINE c == queue[i]
               d == queue'[i]
    <3>1. /\ c \in Commands /\ Sendable(c)
          /\ d.kind = c.kind /\ d.w = c.w
          /\ c.kind = "manage" => d.seq = c.seq
          /\ c.kind = "resolve" => d.no = c.no
      BY <1>3, GiveUpFacts DEF EInv, QueueInv
    <3> QED
      BY <1>1, <3>1 DEF Sendable
  <2> QED
    BY <1>1, <1>5, <2>1 DEF EInv, QueueInv, Running
<1>8. AckInv'
  <2>1. \A i \in DOMAIN acks' : acks'[i].result = "none" => Recorded(acks[i].cmd)'
    <3> SUFFICES ASSUME NEW i \in DOMAIN acks', acks'[i].result = "none"
                 PROVE  Recorded(acks[i].cmd)'
      OBVIOUS
    <3> DEFINE c == acks[i].cmd
               d == acks'[i].cmd
    <3>1. /\ c \in Commands /\ Recorded(c)
          /\ d.kind = c.kind /\ d.w = c.w
          /\ c.kind = "manage" => d.seq = c.seq
          /\ c.kind = "resolve" => d.no = c.no
      BY <1>4, GiveUpFacts DEF EInv, AckInv
    <3> QED
      BY <1>1, <3>1 DEF Recorded
  <2> QED
    BY <1>6, <2>1 DEF AckInv
<1>9. /\ \A i \in DOMAIN queue' :
           queue'[i].from # "none" =>
             queue'[i].from = queue[i].from /\ queue[i].from \in {"eval", "resolve"} \ {task}
      /\ \A i \in DOMAIN acks' :
           acks'[i].cmd.from # "none" =>
             acks'[i].cmd.from = acks[i].cmd.from
               /\ acks[i].cmd.from \in {"eval", "resolve"} \ {task}
  BY <1>3, <1>4, GiveUpFacts, CommandFacts
<1>10. WaitInv'
  BY <1>3, <1>4, <1>9 DEF EInv, WaitInv, Waiting
<1> QED
  BY <1>7, <1>8, <1>10

-----------------------------------------------------------------------------
\* An acknowledgement brings the engine's numbers to what the tables hold.
LEMMA DeliverKeeps ==
  ASSUME EInv, Deliver
  PROVE  UNCHANGED storeVars /\ TasksKeep
<1> DEFINE c == Head(acks).cmd
           result == Head(acks).result
<1>1. /\ acks # <<>> /\ acks' = Tail(acks)
      /\ UNCHANGED <<storeVars, rows, sessions, closed, decisions, attempts, queue>>
  BY DEF Deliver, storeVars, rows
<1>2. acks \in Seq(AckRow)
  BY DEF EInv, AckInv
<1>3. /\ Head(acks) = acks[1] /\ 1 \in DOMAIN acks /\ Head(acks) \in AckRow
      /\ acks' \in Seq(AckRow)
      /\ \A j \in DOMAIN acks' : j + 1 \in DOMAIN acks /\ acks'[j] = acks[j + 1]
      /\ DOMAIN acks' = 1..(Len(acks) - 1)
  BY <1>1, <1>2, TailFacts
<1>4. c \in Commands /\ (result = "none" => Recorded(c))
  BY <1>3 DEF EInv, AckInv, AckRow
<1>5. c.from # "none" =>
        /\ Waiting(c.from)
        /\ \A j \in DOMAIN acks' : acks'[j].cmd.from # c.from
        /\ \A j \in DOMAIN queue : queue[j].from # c.from
  BY <1>3 DEF EInv, WaitInv
<1> DEFINE Answered ==
             \/ c.kind = "enter" /\ EntryAnswered(c, result)
             \/ c.kind = "manage" /\ ManageAnswered(c, result)
             \/ c.kind = "resolve" /\ ResolveAnswered(c, result)
<1>6. IF c.from = "none" THEN UNCHANGED <<memory, failed, tasks>> ELSE Answered
  BY DEF Deliver
<1> HIDE DEF c, result, Answered
<1>7. /\ nextSeq' \in [Windows -> Nat] /\ tried' \in [Windows -> Nat]
      /\ \A w \in Windows : nextSeq'[w] <= Len(decisions[w]) /\ tried'[w] <= Len(attempts[w])
      /\ \/ eval' = eval
         \/ c.from = "eval" /\ eval' \in {Idle, [eval EXCEPT !.pc = "manage"]}
      /\ \/ resolve' = resolve
         \/ c.from = "resolve" /\ resolve' = NextRow
  <2>1. /\ nextSeq \in [Windows -> Nat] /\ tried \in [Windows -> Nat]
        /\ \A w \in Windows : nextSeq[w] <= Len(decisions[w]) /\ tried[w] <= Len(attempts[w])
    BY DEF EInv, TaskInv
  <2>2. CASE c.from = "none"
    BY <1>6, <2>1, <2>2 DEF memory, tasks
  <2>3. CASE c.from # "none" /\ c.kind = "enter"
    <3>1. /\ UNCHANGED <<nextSeq, tried, resolve>>
          /\ eval' \in {Idle, [eval EXCEPT !.pc = "manage"]}
      BY <1>6, <2>3 DEF Answered, EntryAnswered, EntryCommitted, EntryCapped, Latch, memory
    <3> QED
      BY <1>4, <2>1, <2>3, <3>1, CommandFacts
  <2>4. CASE c.from # "none" /\ c.kind = "manage"
    <3>1. /\ UNCHANGED <<tried, resolve>> /\ eval' = Idle
          /\ \/ nextSeq' = nextSeq
             \/ result = "none" /\ nextSeq' = [nextSeq EXCEPT ![c.w] = c.seq]
      BY <1>6, <2>4 DEF Answered, ManageAnswered, Latch, memory
    <3>2. result = "none" => c.seq <= Len(decisions[c.w])
      BY <1>4, <2>4 DEF Recorded
    <3>3. c.from = "eval" /\ c.w \in Windows /\ c.seq \in Nat
      BY <1>4, <2>4, CommandFacts, StoreAssumption
    <3> QED
      BY <2>1, <3>1, <3>2, <3>3
  <2>5. CASE c.from # "none" /\ c.kind = "resolve"
    <3>1. /\ UNCHANGED <<nextSeq, eval>> /\ resolve' = NextRow
          /\ \/ tried' = tried
             \/ result = "none" /\ tried' = [tried EXCEPT ![c.w] = c.no]
      BY <1>6, <2>5 DEF Answered, ResolveAnswered, Latch, memory
    <3>2. result = "none" => c.no <= Len(attempts[c.w])
      BY <1>4, <2>5 DEF Recorded
    <3>3. c.from = "resolve" /\ c.w \in Windows /\ c.no \in Nat
      BY <1>4, <2>5, CommandFacts, StoreAssumption
    <3> QED
      BY <2>1, <3>1, <3>2, <3>3
  <2> QED
    BY <1>4, <2>2, <2>3, <2>4, <2>5, CommandFacts
<1>8. TaskInv'
  <2>1. c.from = "eval" => eval \in [pc : {"entering", "managing"}, w : Windows] /\ Running
    BY <1>5 DEF Waiting, EInv, TaskInv, Idle
  <2>2. c.from = "resolve" =>
          /\ resolve \in [pc : {"resolving"}, due : SUBSET Windows]
          /\ Running /\ resolve.due \subseteq closed
    BY <1>5 DEF Waiting, EInv, TaskInv, Idle
  <2>3. /\ eval' \in {Idle} \cup [pc : {"entry", "entering", "manage", "managing"}, w : Windows]
        /\ eval' # Idle => Running
    BY <1>7, <2>1 DEF EInv, TaskInv
  <2>4. /\ resolve' \in {Idle} \cup [pc : {"rows", "resolving"}, due : SUBSET Windows]
        /\ resolve' # Idle => Running /\ resolve'.due \subseteq closed
    BY <1>7, <2>2 DEF EInv, TaskInv, NextRow
  <2> QED
    BY <1>1, <1>7, <2>3, <2>4 DEF EInv, TaskInv, Running, Idle
<1>9. QueueInv' /\ AckInv'
  <2>1. QueueInv'
    BY <1>1 DEF EInv, QueueInv, Sendable, Running
  <2>2. \A j \in DOMAIN acks' : acks'[j].result = "none" => Recorded(acks'[j].cmd)
    BY <1>3 DEF EInv, AckInv
  <2> QED
    BY <1>1, <1>3, <2>1, <2>2 DEF AckInv, Recorded
<1>10. WaitInv'
  <2>2. \A i \in DOMAIN queue : queue[i].from \in {"eval", "resolve", "none"}
    BY CommandFacts DEF EInv, QueueInv
  <2>3. \A i \in DOMAIN acks' : acks'[i].cmd.from \in {"eval", "resolve", "none"}
    <3>1. \A i \in DOMAIN acks' : acks'[i] \in AckRow
      BY <1>3
    <3> QED
      BY <3>1, CommandFacts DEF AckRow
  <2>4. \A i \in DOMAIN queue : queue[i].from # "none" => Waiting(queue[i].from)'
    <3>1. \A i \in DOMAIN queue :
            queue[i].from # "none" => Waiting(queue[i].from) /\ queue[i].from # c.from
      BY <1>5 DEF EInv, WaitInv
    <3> QED
      BY <1>1, <1>7, <2>2, <3>1 DEF Waiting
  <2>5. \A i \in DOMAIN acks' : acks'[i].cmd.from # "none" => Waiting(acks[i].cmd.from)'
    <3>1. \A i \in DOMAIN acks' :
            acks'[i].cmd.from # "none" =>
              Waiting(acks'[i].cmd.from) /\ acks'[i].cmd.from # c.from
      BY <1>3, <1>5 DEF EInv, WaitInv
    <3> QED
      BY <1>7, <2>3, <3>1 DEF Waiting
  <2>6. \A i, j \in DOMAIN acks' :
          i # j /\ acks'[i].cmd.from = acks'[j].cmd.from => acks'[i].cmd.from = "none"
    <3> SUFFICES ASSUME NEW i \in DOMAIN acks', NEW j \in DOMAIN acks', i # j
                 PROVE  acks'[i].cmd.from = acks'[j].cmd.from => acks'[i].cmd.from = "none"
      OBVIOUS
    <3>1. i + 1 \in DOMAIN acks /\ j + 1 \in DOMAIN acks /\ i + 1 # j + 1
      BY <1>2, <1>3
    <3> QED
      BY <1>3, <3>1 DEF EInv, WaitInv
  <2>7. \A i \in DOMAIN queue, j \in DOMAIN acks' :
          queue[i].from = acks'[j].cmd.from => queue[i].from = "none"
    BY <1>3 DEF EInv, WaitInv
  <2>8. \A i, j \in DOMAIN queue :
          i # j /\ queue[i].from = queue[j].from => queue[i].from = "none"
    BY DEF EInv, WaitInv
  <2> QED
    BY <1>1, <2>4, <2>5, <2>6, <2>7, <2>8 DEF WaitInv, Waiting
<1> QED
  BY <1>1, <1>8, <1>9, <1>10 DEF TasksKeep

-----------------------------------------------------------------------------
(* The other steps.                                                        *)

EvalRow == [pc : {"entry", "entering", "manage", "managing"}, w : Windows]

\* Steps of the evaluation task that send nothing.
LEMMA EvaluationKeeps ==
  ASSUME EInv, (\E w \in Windows : Evaluate(w)) \/ EvidenceFails \/ PassEntry \/ PassManage
  PROVE  UNCHANGED storeVars /\ TasksKeep
<1>1. /\ UNCHANGED <<storeVars, decisions, attempts, closed, sessions, queue, acks>>
      /\ UNCHANGED <<nextSeq, tried, resolve>>
  BY DEF Evaluate, EvidenceFails, PassEntry, PassManage, storeVars, rows, memory
<1>2. eval.pc \notin {"entering", "managing"}
  BY DEF Evaluate, EvidenceFails, PassEntry, PassManage
<1>3. eval' \in {Idle} \cup EvalRow /\ (eval' # Idle => Running)
  <2>1. CASE \E w \in Windows : Evaluate(w)
    BY <2>1 DEF Evaluate, EvalRow
  <2>2. CASE EvidenceFails \/ PassManage
    BY <2>2 DEF EvidenceFails, PassManage
  <2>3. CASE PassEntry
    <3>1. eval.pc = "entry" /\ eval' = [eval EXCEPT !.pc = "manage"]
      BY <2>3 DEF PassEntry
    <3>2. eval \in EvalRow /\ Running
      BY <3>1 DEF EInv, TaskInv, EvalRow, Idle
    <3> QED
      BY <3>1, <3>2 DEF EvalRow
  <2> QED
    BY <2>1, <2>2, <2>3
<1>4. TaskInv'
  BY <1>1, <1>3 DEF EInv, TaskInv, Running, Idle, EvalRow
<1>5. Running => Running'
  BY <1>1 DEF Running
<1>6. QueueInv' /\ AckInv' /\ WaitInv'
  BY <1>1, <1>2, <1>5, StillKeeps DEF Waiting, EInv, QueueInv
<1> QED
  BY <1>1, <1>4, <1>6 DEF TasksKeep

LEMMA SubmitEntryKeeps ==
  ASSUME EInv, SubmitEntry
  PROVE  UNCHANGED storeVars /\ TasksKeep
<1>1. PICK side \in Sides, cost \in Costs, fee \in Fees :
        Submit(EnterCommand(eval.w, side, cost, fee))
  BY DEF SubmitEntry
<1> DEFINE c == EnterCommand(eval.w, side, cost, fee)
<1>2. /\ eval \in EvalRow /\ Running /\ eval.pc = "entry"
      /\ eval' = [eval EXCEPT !.pc = "entering"] /\ resolve' = resolve
  BY DEF SubmitEntry, EInv, TaskInv, Idle, EvalRow
<1>3. c \in Commands /\ c.from = "eval" /\ Sendable(c)
  BY <1>2 DEF EnterCommand, Commands, Sendable, EvalRow
<1>4. /\ ~Waiting("eval") /\ Waiting("eval")' /\ (Waiting("resolve") => Waiting("resolve")')
  BY <1>2 DEF Waiting, EvalRow
<1> HIDE DEF c
<1>5. UNCHANGED <<storeVars, decisions, attempts, closed, sessions, nextSeq, tried>>
  BY <1>1 DEF Submit, storeVars, rows, memory
<1>6. TaskInv'
  BY <1>2, <1>5 DEF EInv, TaskInv, Running, Idle, EvalRow
<1>7. Submit(c)
  BY <1>1 DEF c
<1>8. QueueInv' /\ AckInv' /\ WaitInv'
  BY <1>2, <1>3, <1>4, <1>7, SubmitKeeps
<1> QED
  BY <1>5, <1>6, <1>8 DEF TasksKeep

LEMMA SubmitManageKeeps ==
  ASSUME EInv, SubmitManage
  PROVE  UNCHANGED storeVars /\ TasksKeep
<1>1. PICK action \in Actions, price \in Prices, fee \in Fees :
        Submit(ManageCommand(eval.w, nextSeq[eval.w] + 1, action, price, fee))
  BY DEF SubmitManage
<1> DEFINE c == ManageCommand(eval.w, nextSeq[eval.w] + 1, action, price, fee)
<1>2. /\ eval \in EvalRow /\ Running /\ eval.pc = "manage"
      /\ eval' = [eval EXCEPT !.pc = "managing"] /\ resolve' = resolve
      /\ nextSeq[eval.w] < MaxDecisions
  BY DEF SubmitManage, EInv, TaskInv, Idle, EvalRow
<1>3. /\ eval.w \in Windows /\ nextSeq[eval.w] \in Nat
      /\ nextSeq[eval.w] <= Len(decisions[eval.w]) /\ Len(decisions[eval.w]) \in Nat
  BY <1>2 DEF EInv, IInv, Tables, TaskInv, EvalRow
<1>4. c \in Commands /\ c.from = "eval"
  BY <1>2, <1>3, StoreAssumption DEF ManageCommand, Commands
<1>5. Sendable(c)
  BY <1>3 DEF ManageCommand, Sendable
<1>6. /\ ~Waiting("eval") /\ Waiting("eval")' /\ (Waiting("resolve") => Waiting("resolve")')
  BY <1>2 DEF Waiting, EvalRow
<1> HIDE DEF c
<1>7. UNCHANGED <<storeVars, decisions, attempts, closed, sessions, nextSeq, tried>>
  BY <1>1 DEF Submit, storeVars, rows, memory
<1>8. TaskInv'
  BY <1>2, <1>7 DEF EInv, TaskInv, Running, Idle, EvalRow
<1>9. Submit(c)
  BY <1>1 DEF c
<1>10. QueueInv' /\ AckInv' /\ WaitInv'
  BY <1>2, <1>4, <1>5, <1>6, <1>9, SubmitKeeps
<1> QED
  BY <1>7, <1>8, <1>10 DEF TasksKeep

ResolveRow == [pc : {"rows", "resolving"}, due : SUBSET Windows]

\* Only rows of closed windows are resolved.
LEMMA SubmitResolveKeeps ==
  ASSUME EInv, SubmitResolve
  PROVE  UNCHANGED storeVars /\ TasksKeep
<1>1. PICK w \in resolve.due, e \in Evidence :
        /\ tried[w] < MaxAttempts
        /\ Submit(ResolveCommand(w, tried[w] + 1, e))
        /\ resolve' = [pc |-> "resolving", due |-> resolve.due \ {w}]
  BY DEF SubmitResolve
<1> DEFINE c == ResolveCommand(w, tried[w] + 1, e)
<1>2. /\ resolve \in ResolveRow /\ Running /\ resolve.pc = "rows"
      /\ resolve.due \subseteq closed /\ eval' = eval
  BY DEF SubmitResolve, EInv, TaskInv, Idle, ResolveRow
<1>3. /\ w \in Windows /\ w \in closed /\ tried[w] \in Nat
      /\ tried[w] <= Len(attempts[w]) /\ Len(attempts[w]) \in Nat
  BY <1>2 DEF EInv, TaskInv, ResolveRow
<1>4. c \in Commands /\ c.from = "resolve"
  BY <1>1, <1>3, StoreAssumption DEF ResolveCommand, Commands
<1>5. Sendable(c)
  BY <1>3 DEF ResolveCommand, Sendable
<1>6. /\ ~Waiting("resolve") /\ Waiting("resolve")' /\ (Waiting("eval") => Waiting("eval")')
  BY <1>1, <1>2 DEF Waiting
<1> HIDE DEF c
<1>7. UNCHANGED <<storeVars, decisions, attempts, closed, sessions, nextSeq, tried>>
  BY <1>1 DEF Submit, storeVars, rows, memory
<1>8. TaskInv'
  BY <1>1, <1>2, <1>7 DEF EInv, TaskInv, Running, Idle, ResolveRow
<1>9. Submit(c)
  BY <1>1 DEF c
<1>10. QueueInv' /\ AckInv' /\ WaitInv'
  BY <1>2, <1>4, <1>5, <1>6, <1>9, SubmitKeeps
<1> QED
  BY <1>7, <1>8, <1>10 DEF TasksKeep

\* Steps of the resolution task that send nothing.
LEMMA RowsKeep ==
  ASSUME EInv, QueryDue \/ EndRows
  PROVE  UNCHANGED storeVars /\ TasksKeep
<1>1. /\ UNCHANGED <<storeVars, decisions, attempts, closed, sessions, queue, acks>>
      /\ UNCHANGED <<nextSeq, tried, eval>>
  BY DEF QueryDue, EndRows, storeVars, rows, memory
<1>2. resolve.pc # "resolving"
  BY DEF QueryDue, EndRows
<1>3. /\ resolve' \in {Idle} \cup ResolveRow
      /\ resolve' # Idle => Running /\ resolve'.due \subseteq closed
  <2>1. CASE QueryDue
    <3>1. Due \subseteq closed /\ Due \subseteq Windows
      BY DEF Due, WithStatus, EInv, IInv, Tables, IsTable
    <3> QED
      BY <2>1, <3>1 DEF QueryDue, ResolveRow
  <2>2. CASE EndRows
    BY <2>2 DEF EndRows
  <2> QED
    BY <2>1, <2>2
<1>4. TaskInv'
  BY <1>1, <1>3 DEF EInv, TaskInv, Running, Idle, ResolveRow
<1>5. Running => Running'
  BY <1>1 DEF Running
<1>6. QueueInv' /\ AckInv' /\ WaitInv'
  BY <1>1, <1>2, <1>5, StillKeeps DEF Waiting, EInv, QueueInv
<1> QED
  BY <1>1, <1>4, <1>6 DEF TasksKeep

LEMMA TimeoutsKeep ==
  ASSUME EInv, EvaluationTimeout \/ ResolutionTimeout
  PROVE  UNCHANGED storeVars /\ TasksKeep
<1>1. CASE EvaluationTimeout
  <2>1. /\ Timeout("eval") /\ eval' = Idle /\ resolve' = resolve
    BY <1>1 DEF EvaluationTimeout
  <2>2. UNCHANGED <<storeVars, decisions, attempts, closed, sessions, nextSeq, tried>>
    BY <2>1 DEF Timeout, storeVars, rows, memory
  <2>3. TaskInv'
    BY <2>1, <2>2 DEF EInv, TaskInv, Running, Idle
  <2>4. QueueInv' /\ AckInv' /\ WaitInv'
    BY <2>1, TimeoutKeeps DEF Waiting
  <2> QED
    BY <2>2, <2>3, <2>4 DEF TasksKeep
<1>2. CASE ResolutionTimeout
  <2>1. /\ Timeout("resolve") /\ eval' = eval /\ resolve' = NextRow
        /\ resolve \in ResolveRow /\ Running /\ resolve.due \subseteq closed
    BY <1>2 DEF ResolutionTimeout, EInv, TaskInv, Idle, ResolveRow
  <2>2. UNCHANGED <<storeVars, decisions, attempts, closed, sessions, nextSeq, tried>>
    BY <2>1 DEF Timeout, storeVars, rows, memory
  <2>3. TaskInv'
    BY <2>1, <2>2 DEF EInv, TaskInv, Running, Idle, NextRow, ResolveRow
  <2>4. QueueInv' /\ AckInv' /\ WaitInv'
    BY <2>1, TimeoutKeeps DEF Waiting
  <2> QED
    BY <2>2, <2>3, <2>4 DEF TasksKeep
<1> QED
  BY <1>1, <1>2

\* A start finds nothing under way, and restores the numbers of the tables.
LEMMA StartKeeps ==
  ASSUME EInv, NEW s \in Sessions, NEW absent \in SUBSET Sessions, Start(s, absent)
  PROVE  [StoreNext]_storeVars /\ TasksKeep
<1>1. /\ ~Running /\ Startup(s, absent)
      /\ UNCHANGED <<decisions, attempts, closed, queue, acks, eval, resolve>>
  BY DEF Start, Startup, Reconcile, tasks
<1>2. queue = <<>> /\ eval = Idle /\ resolve = Idle
  BY <1>1 DEF EInv, QueueInv, TaskInv
<1>3. /\ decisions \in [Windows -> Seq(Actions)] /\ attempts \in [Windows -> Seq(Evidence)]
      /\ nextSeq' = [w \in Windows |-> Len(decisions[w])]
      /\ tried' = [w \in Windows |-> Len(attempts[w])]
  BY DEF EInv, IInv, Tables, TaskInv, Start, Restore
<1>4. TaskInv'
  BY <1>1, <1>2, <1>3 DEF TaskInv, Idle
<1>5. QueueInv' /\ AckInv' /\ WaitInv'
  BY <1>1, <1>2, StillKeeps DEF Waiting
<1>6. StoreNext
  BY <1>1 DEF StoreNext, Surroundings
<1> QED
  BY <1>4, <1>5, <1>6 DEF TasksKeep

LEMMA CrashKeeps ==
  ASSUME EInv, NEW s \in Sessions, Crash(s)
  PROVE  [StoreNext]_storeVars /\ TasksKeep
<1>1. /\ End(s) /\ queue' = <<>> /\ acks' = <<>> /\ eval' = Idle /\ resolve' = Idle
      /\ nextSeq' = [w \in Windows |-> 0] /\ tried' = [w \in Windows |-> 0]
      /\ UNCHANGED <<decisions, attempts>>
  BY DEF Crash, Forget, End, rows
<1>2. /\ decisions \in [Windows -> Seq(Actions)] /\ attempts \in [Windows -> Seq(Evidence)]
  BY DEF EInv, IInv, Tables, TaskInv
<1>3. TaskInv'
  BY <1>1, <1>2 DEF TaskInv, Idle
<1>4. QueueInv' /\ AckInv' /\ WaitInv'
  BY <1>1 DEF QueueInv, AckInv, WaitInv
<1>5. StoreNext
  BY <1>1 DEF StoreNext, Surroundings
<1> QED
  BY <1>3, <1>4, <1>5 DEF TasksKeep

LEMMA CloseKeeps ==
  ASSUME EInv, NEW w \in Windows, WindowCloses(w)
  PROVE  [StoreNext]_storeVars /\ TasksKeep
<1>1. /\ CloseWindow(w) /\ closed \subseteq closed'
      /\ UNCHANGED <<decisions, attempts, sessions, queue, acks, eval, resolve, nextSeq, tried>>
  BY DEF WindowCloses, CloseWindow, engineVars, memory, tasks, rows
<1>2. TaskInv'
  BY <1>1 DEF EInv, TaskInv, Running
<1>3. QueueInv' /\ AckInv' /\ WaitInv'
  BY <1>1, StillKeeps DEF Waiting, EInv, QueueInv, Running
<1>4. StoreNext
  BY <1>1 DEF StoreNext, Surroundings
<1> QED
  BY <1>2, <1>3, <1>4 DEF TasksKeep

LEMMA StutterKeeps ==
  ASSUME EInv, UNCHANGED allVars
  PROVE  UNCHANGED storeVars /\ TasksKeep
<1>1. /\ UNCHANGED <<storeVars, decisions, attempts, closed, sessions>>
      /\ UNCHANGED <<queue, acks, eval, resolve, nextSeq, tried>>
  BY DEF allVars, engineVars, memory, tasks, storeVars, rows
<1>2. TaskInv'
  BY <1>1 DEF EInv, TaskInv, Running
<1>3. QueueInv' /\ AckInv' /\ WaitInv'
  BY <1>1, StillKeeps DEF Waiting, EInv, QueueInv, Running
<1> QED
  BY <1>1, <1>2, <1>3 DEF TasksKeep

LEMMA InitEInv == EngineInit => EInv
<1> SUFFICES ASSUME EngineInit PROVE EInv
  OBVIOUS
<1>1. StoreInit /\ IInv
  BY InitIInv DEF EngineInit
<1>2. TaskInv
  BY <1>1 DEF EngineInit, StoreInit, TaskInv, Idle
<1>3. QueueInv /\ AckInv /\ WaitInv
  BY DEF EngineInit, QueueInv, AckInv, WaitInv
<1> QED
  BY <1>1, <1>2, <1>3 DEF EInv

LEMMA StepKeeps ==
  ASSUME EInv, [EngineNext]_allVars
  PROVE  [StoreNext]_storeVars /\ TasksKeep
<1>1. ASSUME NEW w \in Windows, Writer(w) PROVE [StoreNext]_storeVars /\ TasksKeep
  BY <1>1, CommitKeeps DEF Writer
<1> QED
  BY <1>1, FailKeeps, DeliverKeeps, EvaluationKeeps, SubmitEntryKeeps, SubmitManageKeeps,
     SubmitResolveKeeps, RowsKeep, TimeoutsKeep, StartKeeps, CrashKeeps, CloseKeeps,
     StutterKeeps
  DEF EngineNext, EvaluationStep

LEMMA NextEInv == EInv /\ [EngineNext]_allVars => EInv' /\ [StoreNext]_storeVars
<1> SUFFICES ASSUME EInv, [EngineNext]_allVars PROVE EInv' /\ [StoreNext]_storeVars
  OBVIOUS
<1>1. [StoreNext]_storeVars /\ TasksKeep
  BY StepKeeps
<1>2. IInv'
  BY <1>1, NextIInv DEF EInv
<1> QED
  BY <1>1, <1>2 DEF EInv, TasksKeep

\* The engine uses the store as the store's specification allows: every step
\* of its tasks, its writer, its timeouts, crashes and starts is a step of the
\* tables or leaves them alone.
THEOREM EngineImplementsStore == EngineSpec => UsesStore
<1>1. EngineInit => StoreInit
  BY DEF EngineInit
<1> QED
  BY <1>1, InitEInv, NextEInv, PTL DEF EngineSpec, UsesStore, StoreSpec

\* Under the engine the rows of a window's life agree, what is recorded of a
\* trade stands, every exit has its evidence, and a restart accepts the tables.
THEOREM EngineKeepsLifecycles ==
  EngineSpec => []LifecyclesAgree /\ HistoryStands /\ []EvidencedExit /\ []RestartAccepted
  BY EngineImplementsStore, Lifecycles, History, Evidenced, Restartable, PTL DEF UsesStore

\* Under the engine every admission is covered by the cohort's equity.
THEOREM EngineKeepsLedger == EngineSpec => ImplementsLedger /\ []Money
  BY EngineImplementsStore, Implements, MoneyCovered, PTL DEF UsesStore

-----------------------------------------------------------------------------
(* What the engine remembers, while every outcome is known.                *)

\* An acknowledgement that a position is closed, and that one was entered.
CloseAck(a) == a.result = "none" /\ Closes(a.cmd)
EntryAck(a) == a.result = "none" /\ a.cmd.kind = "enter"

\* A position of W is open, or an acknowledgement after the i-th closes one.
Relief(open, s, i, W) ==
  \/ open \cap W # {}
  \/ \E j \in DOMAIN s : j > i /\ CloseAck(s[j]) /\ s[j].cmd.w \in W

Concurrency == {"max_open_per_asset", "max_concurrent_positions"}
ScopeOf(a) == IF a.result = "max_open_per_asset" THEN AssetOf[a.cmd.w] ELSE "global"

CloseAcks(s) == {i \in DOMAIN s : CloseAck(s[i])}
Entering(s) == IF \E i \in DOMAIN s : EntryAck(s[i]) THEN 1 ELSE 0

\* Nobody has given up on a command.
Awaited ==
  /\ \A i \in DOMAIN queue : queue[i].from # "none"
  /\ \A i \in DOMAIN acks : acks[i].cmd.from # "none"

EntriesLearned ==
  \A w \in DOMAIN entry :
    w \in entered \/ \E i \in DOMAIN acks : EntryAck(acks[i]) /\ acks[i].cmd.w = w

Number(c) == IF c.kind = "manage" THEN c.seq ELSE c.no
Done(a, kind) == a.result = "none" /\ a.cmd.kind = kind

\* Each command of the kind has the next number of its history, each that is
\* done the last one, and the engine knows the last one or is about to.
NumbersKnown(kind, q, s, history, known) ==
  /\ \A i \in DOMAIN q : q[i].kind = kind => Number(q[i]) = Len(history[q[i].w]) + 1
  /\ \A i \in DOMAIN s : Done(s[i], kind) => Number(s[i].cmd) = Len(history[s[i].cmd.w])
  /\ \A w \in Windows :
       \/ known[w] = Len(history[w])
       \/ \E i \in DOMAIN s : Done(s[i], kind) /\ s[i].cmd.w = w

NoConflict == \A i \in DOMAIN acks : acks[i].result # "conflict"

\* A latch, and a refusal that will be one, is relieved by an open position or
\* by a close the engine learns of later; so is an entry it has yet to count.
Relieved(open, b, s) ==
  /\ \A scope \in DOMAIN b :
       b[scope] \in Concurrency => Relief(open, s, 0, InScope(scope))
  /\ \A i \in DOMAIN s :
       s[i].result \in Concurrency => Relief(open, s, i, InScope(ScopeOf(s[i])))
  /\ \A i \in DOMAIN s : EntryAck(s[i]) => Relief(open, s, i, {s[i].cmd.w})

\* The count, with an entry yet to be counted, is no more than what is open
\* and what is yet to be learned closed.
Counted(n, open, s) ==
  n + Entering(s) <= Cardinality(open) + Cardinality(CloseAcks(s))

Memory ==
  /\ Awaited /\ EntriesLearned /\ NoConflict
  /\ NumbersKnown("manage", queue, acks, decisions, nextSeq)
  /\ NumbersKnown("resolve", queue, acks, attempts, tried)
  /\ Relieved(OpenPositions, blocks, acks)
  /\ Counted(openCount, OpenPositions, acks)

MInv ==
  /\ sessions \in [Sessions -> {"new", "live", "gone"}]
  /\ \A s, t \in Sessions : sessions[s] = "live" /\ sessions[t] = "live" => s = t
  /\ openCount \in Nat
  /\ acks # <<>> => Running
  /\ ~Running => blocks = <<>> /\ openCount <= OpenCount
  /\ OneEntryCommand
  /\ Running /\ ~failed => Memory

-----------------------------------------------------------------------------
LEMMA ReliefGrows ==
  ASSUME NEW s \in Seq(AckRow), NEW a \in AckRow, NEW open, NEW open2,
         NEW i \in Nat, i <= Len(s), NEW W, Relief(open, s, i, W),
         \A x \in open : x \in open2 \/ (CloseAck(a) /\ a.cmd.w = x)
  PROVE  Relief(open2, Append(s, a), i, W)
<1>1. /\ \A j \in DOMAIN s : j \in DOMAIN Append(s, a) /\ Append(s, a)[j] = s[j]
      /\ Len(s) + 1 \in DOMAIN Append(s, a) /\ Append(s, a)[Len(s) + 1] = a
      /\ Len(s) + 1 > i
  OBVIOUS
<1>2. CASE \E j \in DOMAIN s : j > i /\ CloseAck(s[j]) /\ s[j].cmd.w \in W
  BY <1>1, <1>2 DEF Relief
<1>3. CASE open \cap W # {}
  <2>1. PICK x \in open : x \in W
    BY <1>3
  <2> QED
    BY <1>1, <2>1 DEF Relief
<1> QED
  BY <1>2, <1>3 DEF Relief

LEMMA ReliefShifts ==
  ASSUME NEW s \in Seq(AckRow), s # <<>>, NEW open, NEW i \in Nat, NEW W,
         Relief(open, s, i, W)
  PROVE  /\ i > 0 => Relief(open, Tail(s), i - 1, W)
         /\ ~CloseAck(Head(s)) => Relief(open, Tail(s), 0, W)
<1>1. ASSUME NEW j \in DOMAIN s, j > 1
      PROVE  j - 1 \in DOMAIN Tail(s) /\ Tail(s)[j - 1] = s[j] /\ j - 1 > 0
  BY <1>1
<1>2. CASE open \cap W # {}
  BY <1>2 DEF Relief
<1>3. CASE \E j \in DOMAIN s : j > i /\ CloseAck(s[j]) /\ s[j].cmd.w \in W
  <2>1. PICK j \in DOMAIN s : j > i /\ CloseAck(s[j]) /\ s[j].cmd.w \in W
    BY <1>3
  <2>2. j \in Nat /\ j >= 1 /\ Head(s) = s[1]
    OBVIOUS
  <2>3. i > 0 => j > 1 /\ j - 1 > i - 1
    BY <2>1, <2>2
  <2>4. ~CloseAck(Head(s)) => j > 1
    BY <2>1, <2>2
  <2>5. j > 1 => j - 1 \in DOMAIN Tail(s) /\ Tail(s)[j - 1] = s[j] /\ j - 1 > 0
    BY <1>1
  <2> QED
    BY <2>1, <2>3, <2>4, <2>5 DEF Relief
<1> QED
  BY <1>2, <1>3 DEF Relief

LEMMA CloseAcksFinite ==
  ASSUME NEW s \in Seq(AckRow)
  PROVE  IsFiniteSet(CloseAcks(s)) /\ Cardinality(CloseAcks(s)) \in Nat
<1>1. CloseAcks(s) \subseteq 1..Len(s) /\ IsFiniteSet(1..Len(s))
  BY FS_Interval DEF CloseAcks
<1> QED
  BY <1>1, FS_Subset, FS_CardinalityType

LEMMA CloseAcksAppend ==
  ASSUME NEW s \in Seq(AckRow), NEW a \in AckRow
  PROVE  Cardinality(CloseAcks(Append(s, a)))
           = Cardinality(CloseAcks(s)) + (IF CloseAck(a) THEN 1 ELSE 0)
<1>1. /\ DOMAIN Append(s, a) = DOMAIN s \cup {Len(s) + 1} /\ Len(s) + 1 \notin DOMAIN s
      /\ \A j \in DOMAIN s : Append(s, a)[j] = s[j]
      /\ Append(s, a)[Len(s) + 1] = a
  OBVIOUS
<1>2. /\ Len(s) + 1 \notin CloseAcks(s)
      /\ CloseAcks(Append(s, a)) =
           IF CloseAck(a) THEN CloseAcks(s) \cup {Len(s) + 1} ELSE CloseAcks(s)
  BY <1>1 DEF CloseAcks
<1>3. IsFiniteSet(CloseAcks(s)) /\ Cardinality(CloseAcks(s)) \in Nat
  BY CloseAcksFinite
<1>4. Cardinality(CloseAcks(s) \cup {Len(s) + 1}) = Cardinality(CloseAcks(s)) + 1
  BY <1>2, <1>3, FS_AddElement
<1>5. CASE CloseAck(a)
  BY <1>2, <1>4, <1>5
<1>6. CASE ~CloseAck(a)
  BY <1>2, <1>3, <1>6
<1> QED
  BY <1>5, <1>6

LEMMA CloseAcksTail ==
  ASSUME NEW s \in Seq(AckRow), s # <<>>
  PROVE  Cardinality(CloseAcks(s))
           = Cardinality(CloseAcks(Tail(s))) + (IF CloseAck(Head(s)) THEN 1 ELSE 0)
<1> DEFINE Old == CloseAcks(s) \ {1}
           New == CloseAcks(Tail(s))
           f == [j \in New |-> j + 1]
<1>1. /\ Tail(s) \in Seq(AckRow) /\ Head(s) = s[1] /\ 1 \in DOMAIN s
      /\ \A j \in DOMAIN Tail(s) : j + 1 \in DOMAIN s /\ Tail(s)[j] = s[j + 1] /\ j + 1 # 1
      /\ \A j \in DOMAIN s \ {1} : j - 1 \in DOMAIN Tail(s) /\ Tail(s)[j - 1] = s[j]
                                     /\ (j - 1) + 1 = j
  OBVIOUS
<1>2. New \subseteq Nat
  BY <1>1 DEF CloseAcks
<1>3. f \in [New -> Old]
  BY <1>1 DEF CloseAcks
<1>4. \A i, j \in New : f[i] = f[j] => i = j
  BY <1>2
<1>5. \A k \in Old : \E j \in New : f[j] = k
  <2> SUFFICES ASSUME NEW k \in Old PROVE k - 1 \in New /\ f[k - 1] = k
    OBVIOUS
  <2> QED
    BY <1>1 DEF CloseAcks
<1>6. f \in Bijection(New, Old)
  <2> HIDE DEF f, New, Old
  <2> QED
    BY <1>3, <1>4, <1>5 DEF Bijection, Injection, Surjection, IsInjective
<1>7. Cardinality(Old) = Cardinality(New)
  <2>1. IsFiniteSet(New)
    BY <1>1, CloseAcksFinite
  <2> HIDE DEF f, New, Old
  <2> QED
    BY <1>6, <2>1, FS_Bijection DEF ExistsBijection
<1>8. CASE CloseAck(Head(s))
  <2>1. 1 \in CloseAcks(s)
    BY <1>1, <1>8 DEF CloseAcks
  <2>2. Cardinality(Old) = Cardinality(CloseAcks(s)) - 1
    BY <2>1, CloseAcksFinite, FS_RemoveElement
  <2>3. Cardinality(CloseAcks(s)) \in Nat
    BY CloseAcksFinite
  <2> QED
    BY <1>7, <1>8, <2>2, <2>3
<1>9. CASE ~CloseAck(Head(s))
  <2>1. Old = CloseAcks(s)
    BY <1>1, <1>9 DEF CloseAcks
  <2>2. Cardinality(CloseAcks(Tail(s))) \in Nat
    BY <1>1, CloseAcksFinite
  <2>3. Cardinality(CloseAcks(s)) = Cardinality(CloseAcks(Tail(s)))
    BY <1>7, <2>1
  <2> HIDE DEF f, New, Old
  <2> QED
    BY <1>9, <2>2, <2>3
<1> QED
  BY <1>8, <1>9

-----------------------------------------------------------------------------
(* An answer on its way: a command leaves q, its outcome a joins s.        *)

LEMMA NumbersAnswered ==
  ASSUME NEW q \in Seq(Commands), NEW s \in Seq(AckRow), NEW i \in DOMAIN q,
         NEW a \in AckRow, a.cmd = q[i], NEW kind, NEW history, NEW history2, NEW known,
         NumbersKnown(kind, q, s, history, known),
         q[i].kind = kind =>
           /\ \A j \in DOMAIN q : j # i => q[j].kind # kind
           /\ \A j \in DOMAIN s : s[j].cmd.kind # kind,
         \A w \in Windows : w # q[i].w \/ ~Done(a, kind) => Len(history2[w]) = Len(history[w]),
         Done(a, kind) => Len(history2[q[i].w]) = Len(history[q[i].w]) + 1
  PROVE  NumbersKnown(kind, RemoveAt(q, i), Append(s, a), history2, known)
<1>1. /\ \A j \in DOMAIN s : j \in DOMAIN Append(s, a) /\ Append(s, a)[j] = s[j]
      /\ Len(s) + 1 \in DOMAIN Append(s, a) /\ Append(s, a)[Len(s) + 1] = a
      /\ \A j \in DOMAIN Append(s, a) :
           \/ j \in DOMAIN s /\ Append(s, a)[j] = s[j]
           \/ j = Len(s) + 1 /\ Append(s, a)[j] = a
  OBVIOUS
<1>2. \A j \in DOMAIN RemoveAt(q, i) :
        \E k \in DOMAIN q \ {i} : RemoveAt(q, i)[j] = q[k]
  <2> SUFFICES ASSUME NEW j \in DOMAIN RemoveAt(q, i)
               PROVE  \E k \in DOMAIN q \ {i} : RemoveAt(q, i)[j] = q[k]
    OBVIOUS
  <2>1. /\ RemoveAt(q, i) \in Seq(Commands) /\ Len(RemoveAt(q, i)) = Len(q) - 1
        /\ RemoveAt(q, i)[j] = q[IF j < i THEN j ELSE j + 1]
    BY RemoveAtFacts
  <2>2. j \in 1..(Len(q) - 1)
    BY <2>1
  <2>3. (IF j < i THEN j ELSE j + 1) \in DOMAIN q \ {i}
    BY <2>2
  <2> QED
    BY <2>1, <2>3
<1>3. \A j \in DOMAIN q : q[j] \in Commands /\ q[j].w \in Windows
  BY CommandFacts
<1>4. \A j \in DOMAIN s : s[j].cmd \in Commands /\ s[j].cmd.w \in Windows
  <2>1. \A j \in DOMAIN s : s[j] \in AckRow
    OBVIOUS
  <2> QED
    BY <2>1, CommandFacts DEF AckRow
<1>5. Done(a, kind) => q[i].kind = kind
  BY DEF Done
<1>6. ASSUME NEW j \in DOMAIN RemoveAt(q, i), RemoveAt(q, i)[j].kind = kind
      PROVE  Number(RemoveAt(q, i)[j]) = Len(history2[RemoveAt(q, i)[j].w]) + 1
  <2>1. PICK k \in DOMAIN q \ {i} : RemoveAt(q, i)[j] = q[k]
    BY <1>2
  <2>2. q[i].kind # kind /\ q[k].kind = kind
    BY <1>6, <2>1
  <2>3. q[k].w \in Windows /\ Number(q[k]) = Len(history[q[k].w]) + 1
    BY <1>3, <2>2 DEF NumbersKnown
  <2>4. Len(history2[q[k].w]) = Len(history[q[k].w])
    BY <1>5, <2>2, <2>3
  <2> QED
    BY <2>1, <2>3, <2>4
<1>7. ASSUME NEW j \in DOMAIN Append(s, a), Done(Append(s, a)[j], kind)
      PROVE  Number(Append(s, a)[j].cmd) = Len(history2[Append(s, a)[j].cmd.w])
  <2>1. CASE j \in DOMAIN s /\ Append(s, a)[j] = s[j]
    BY <1>4, <1>5, <1>7, <2>1 DEF NumbersKnown, Done
  <2>2. CASE Append(s, a)[j] = a
    BY <1>5, <1>7, <2>2 DEF NumbersKnown
  <2> QED
    BY <1>1, <2>1, <2>2
<1>8. ASSUME NEW w \in Windows
      PROVE  \/ known[w] = Len(history2[w])
             \/ \E j \in DOMAIN Append(s, a) :
                  Done(Append(s, a)[j], kind) /\ Append(s, a)[j].cmd.w = w
  <2>1. CASE Done(a, kind) /\ w = q[i].w
    BY <1>1, <2>1
  <2>2. CASE ~(Done(a, kind) /\ w = q[i].w)
    BY <1>1, <2>2 DEF NumbersKnown
  <2> QED
    BY <2>1, <2>2
<1> QED
  BY <1>6, <1>7, <1>8 DEF NumbersKnown

LEMMA AppendedAck ==
  ASSUME NEW s \in Seq(AckRow), NEW a \in AckRow
  PROVE  /\ \A j \in DOMAIN s : j \in DOMAIN Append(s, a) /\ Append(s, a)[j] = s[j]
         /\ Len(s) + 1 \in DOMAIN Append(s, a) /\ Append(s, a)[Len(s) + 1] = a
         /\ \A j \in DOMAIN Append(s, a) :
              \/ j \in DOMAIN s /\ j \in Nat /\ j <= Len(s) /\ Append(s, a)[j] = s[j]
              \/ j = Len(s) + 1 /\ Append(s, a)[j] = a
  OBVIOUS

LEMMA RelievedAnswered ==
  ASSUME NEW s \in Seq(AckRow), NEW a \in AckRow, NEW open, NEW open2, NEW b,
         Relieved(open, b, s),
         \A x \in open : x \in open2 \/ (CloseAck(a) /\ a.cmd.w = x),
         a.result \in Concurrency => open2 \cap InScope(ScopeOf(a)) # {},
         EntryAck(a) => a.cmd.w \in open2
  PROVE  Relieved(open2, b, Append(s, a))
<1>1. ASSUME NEW i \in Nat, i <= Len(s), NEW W, Relief(open, s, i, W)
      PROVE  Relief(open2, Append(s, a), i, W)
  BY <1>1, ReliefGrows
<1>2. \A scope \in DOMAIN b :
        b[scope] \in Concurrency => Relief(open2, Append(s, a), 0, InScope(scope))
  BY <1>1 DEF Relieved
<1>3. ASSUME NEW j \in DOMAIN Append(s, a), Append(s, a)[j].result \in Concurrency
      PROVE  Relief(open2, Append(s, a), j, InScope(ScopeOf(Append(s, a)[j])))
  <2>1. CASE j \in DOMAIN s /\ j \in Nat /\ j <= Len(s) /\ Append(s, a)[j] = s[j]
    BY <1>1, <1>3, <2>1 DEF Relieved
  <2>2. CASE Append(s, a)[j] = a
    BY <1>3, <2>2 DEF Relief
  <2> QED
    BY <2>1, <2>2, AppendedAck
<1>4. ASSUME NEW j \in DOMAIN Append(s, a), EntryAck(Append(s, a)[j])
      PROVE  Relief(open2, Append(s, a), j, {Append(s, a)[j].cmd.w})
  <2>1. CASE j \in DOMAIN s /\ j \in Nat /\ j <= Len(s) /\ Append(s, a)[j] = s[j]
    BY <1>1, <1>4, <2>1 DEF Relieved
  <2>2. CASE Append(s, a)[j] = a
    BY <1>4, <2>2 DEF Relief
  <2> QED
    BY <2>1, <2>2, AppendedAck
<1> QED
  BY <1>2, <1>3, <1>4 DEF Relieved

LEMMA CountedAnswered ==
  ASSUME NEW s \in Seq(AckRow), NEW a \in AckRow, NEW n \in Nat,
         NEW open, IsFiniteSet(open), NEW open2, NEW w, Counted(n, open, s),
         open2 = IF EntryAck(a) THEN open \cup {w}
                 ELSE IF CloseAck(a) THEN open \ {w} ELSE open,
         EntryAck(a) => w \notin open
  PROVE  Counted(n, open2, Append(s, a))
<1>1. Cardinality(open) \in Nat /\ Cardinality(CloseAcks(s)) \in Nat
  BY FS_CardinalityType, CloseAcksFinite
<1>2. EntryAck(a) => ~CloseAck(a)
  BY DEF EntryAck, CloseAck, Closes
<1>3. Cardinality(CloseAcks(Append(s, a)))
        = Cardinality(CloseAcks(s)) + (IF CloseAck(a) THEN 1 ELSE 0)
  BY CloseAcksAppend
<1>4. /\ Entering(s) \in {0, 1} /\ Entering(Append(s, a)) \in {0, 1}
      /\ ~EntryAck(a) => Entering(Append(s, a)) = Entering(s)
  BY AppendedAck DEF Entering
<1>5. CASE EntryAck(a)
  <2>1. Cardinality(open2) = Cardinality(open) + 1
    BY <1>5, FS_AddElement
  <2> QED
    BY <1>1, <1>2, <1>3, <1>4, <1>5, <2>1 DEF Counted
<1>6. CASE ~EntryAck(a) /\ CloseAck(a)
  <2>1. CASE w \in open
    <3>1. Cardinality(open2) = Cardinality(open) - 1
      BY <1>6, <2>1, FS_RemoveElement
    <3>2. Cardinality(CloseAcks(Append(s, a))) = Cardinality(CloseAcks(s)) + 1
      BY <1>3, <1>6
    <3>3. Entering(Append(s, a)) = Entering(s)
      BY <1>4, <1>6
    <3>4. n + Entering(s) <= Cardinality(open) + Cardinality(CloseAcks(s))
      BY DEF Counted
    <3>5. n + Entering(Append(s, a)) <= Cardinality(open2) + Cardinality(CloseAcks(Append(s, a)))
      BY <1>1, <1>4, <3>1, <3>2, <3>3, <3>4
    <3> QED
      BY <3>5 DEF Counted
  <2>2. CASE w \notin open
    <3>1. open2 = open
      BY <1>6, <2>2
    <3>2. Cardinality(CloseAcks(Append(s, a))) = Cardinality(CloseAcks(s)) + 1
      BY <1>3, <1>6
    <3>3. Entering(Append(s, a)) = Entering(s)
      BY <1>4, <1>6
    <3>4. n + Entering(s) <= Cardinality(open) + Cardinality(CloseAcks(s))
      BY DEF Counted
    <3>5. Cardinality(open2) = Cardinality(open)
      BY <3>1
    <3>6. n + Entering(Append(s, a)) <= Cardinality(open2) + Cardinality(CloseAcks(Append(s, a)))
      BY <1>1, <1>4, <3>2, <3>3, <3>4, <3>5
    <3> QED
      BY <3>6 DEF Counted
  <2> QED
    BY <2>1, <2>2
<1>7. CASE ~EntryAck(a) /\ ~CloseAck(a)
  BY <1>1, <1>3, <1>4, <1>7 DEF Counted
<1> QED
  BY <1>5, <1>6, <1>7

-----------------------------------------------------------------------------
(* An answer learned: the first of s is taken.                             *)

LEMMA TakenAck ==
  ASSUME NEW s \in Seq(AckRow), s # <<>>
  PROVE  /\ Head(s) = s[1] /\ 1 \in DOMAIN s /\ Tail(s) \in Seq(AckRow)
         /\ \A j \in DOMAIN Tail(s) :
              /\ j \in Nat /\ j + 1 \in DOMAIN s /\ j + 1 # 1 /\ j + 1 > 0
              /\ (j + 1) - 1 = j /\ Tail(s)[j] = s[j + 1]
         /\ \A j \in DOMAIN s : j # 1 => j - 1 \in DOMAIN Tail(s) /\ Tail(s)[j - 1] = s[j]
  OBVIOUS

LEMMA NumbersLearned ==
  ASSUME NEW q, NEW s \in Seq(AckRow), s # <<>>, NEW kind, NEW history,
         NEW known, NEW known2, NumbersKnown(kind, q, s, history, known),
         \A w \in Windows :
           known2[w] = IF Done(Head(s), kind) /\ w = Head(s).cmd.w
                       THEN Number(Head(s).cmd) ELSE known[w]
  PROVE  NumbersKnown(kind, q, Tail(s), history, known2)
<1>1. \A j \in DOMAIN Tail(s) :
        Done(Tail(s)[j], kind) => Number(Tail(s)[j].cmd) = Len(history[Tail(s)[j].cmd.w])
  BY TakenAck DEF NumbersKnown
<1>2. ASSUME NEW w \in Windows, known2[w] # Len(history[w])
      PROVE  \E j \in DOMAIN Tail(s) : Done(Tail(s)[j], kind) /\ Tail(s)[j].cmd.w = w
  <2>1. ~(Done(Head(s), kind) /\ w = Head(s).cmd.w)
    BY <1>2, TakenAck DEF NumbersKnown
  <2>2. known[w] # Len(history[w])
    BY <1>2, <2>1
  <2>3. PICK i \in DOMAIN s : Done(s[i], kind) /\ s[i].cmd.w = w
    BY <2>2 DEF NumbersKnown
  <2>4. i # 1
    BY <2>1, <2>3, TakenAck
  <2> QED
    BY <2>3, <2>4, TakenAck
<1> QED
  BY <1>1, <1>2 DEF NumbersKnown

LEMMA RelievedLearned ==
  ASSUME NEW s \in Seq(AckRow), s # <<>>, NEW open, NEW b, NEW b2, Relieved(open, b, s),
         CloseAck(Head(s)) => DOMAIN b2 = {},
         \A scope \in DOMAIN b2 :
           \/ scope \in DOMAIN b /\ b2[scope] = b[scope]
           \/ scope = ScopeOf(Head(s)) /\ b2[scope] = Head(s).result
  PROVE  Relieved(open, b2, Tail(s))
<1>1. ASSUME NEW scope \in DOMAIN b2, b2[scope] \in Concurrency
      PROVE  Relief(open, Tail(s), 0, InScope(scope))
  <2>1. ~CloseAck(Head(s))
    OBVIOUS
  <2>2. CASE scope \in DOMAIN b /\ b2[scope] = b[scope]
    BY <1>1, <2>1, <2>2, ReliefShifts DEF Relieved
  <2>3. CASE scope = ScopeOf(Head(s)) /\ b2[scope] = Head(s).result
    <3>1. Relief(open, s, 1, InScope(scope))
      BY <1>1, <2>3, TakenAck DEF Relieved
    <3> QED
      BY <3>1, <2>1, ReliefShifts
  <2> QED
    BY <2>2, <2>3
<1>2. ASSUME NEW j \in DOMAIN Tail(s), Tail(s)[j].result \in Concurrency
      PROVE  Relief(open, Tail(s), j, InScope(ScopeOf(Tail(s)[j])))
  <2>1. /\ j + 1 \in Nat /\ j + 1 > 0 /\ (j + 1) - 1 = j
        /\ Relief(open, s, j + 1, InScope(ScopeOf(Tail(s)[j])))
    BY <1>2, TakenAck DEF Relieved
  <2>2. Relief(open, Tail(s), (j + 1) - 1, InScope(ScopeOf(Tail(s)[j])))
    BY <2>1, ReliefShifts
  <2> QED
    BY <2>1, <2>2
<1>3. ASSUME NEW j \in DOMAIN Tail(s), EntryAck(Tail(s)[j])
      PROVE  Relief(open, Tail(s), j, {Tail(s)[j].cmd.w})
  <2>1. /\ j + 1 \in Nat /\ j + 1 > 0 /\ (j + 1) - 1 = j
        /\ Relief(open, s, j + 1, {Tail(s)[j].cmd.w})
    BY <1>3, TakenAck DEF Relieved
  <2>2. Relief(open, Tail(s), (j + 1) - 1, {Tail(s)[j].cmd.w})
    BY <2>1, ReliefShifts
  <2> QED
    BY <2>1, <2>2
<1> QED
  BY <1>1, <1>2, <1>3 DEF Relieved

LEMMA HasElement ==
  ASSUME NEW S, IsFiniteSet(S), NEW x \in S
  PROVE  Cardinality(S) \in Nat /\ Cardinality(S) >= 1
<1>1. Cardinality(S) \in Nat /\ Cardinality(S) # 0
  BY FS_CardinalityType, FS_EmptySet
<1> QED
  BY <1>1

\* A close taken off a count of zero: what is yet to be counted entered has
\* its position open, or its close yet to be learned.
LEMMA CountedLearned ==
  ASSUME NEW s \in Seq(AckRow), s # <<>>, NEW n \in Nat, NEW n2 \in Nat,
         NEW open, IsFiniteSet(open), NEW b, Relieved(open, b, s), Counted(n, open, s),
         n2 = IF EntryAck(Head(s)) THEN n + 1
              ELSE IF CloseAck(Head(s)) THEN (IF n > 0 THEN n - 1 ELSE 0) ELSE n,
         EntryAck(Head(s)) => \A j \in DOMAIN Tail(s) : ~EntryAck(Tail(s)[j])
  PROVE  Counted(n2, open, Tail(s))
<1> DEFINE C == Cardinality(CloseAcks(s))
           D == Cardinality(CloseAcks(Tail(s)))
<1>1. Cardinality(open) \in Nat /\ C \in Nat /\ D \in Nat
  BY FS_CardinalityType, CloseAcksFinite, TakenAck
<1>2. EntryAck(Head(s)) => ~CloseAck(Head(s))
  BY DEF EntryAck, CloseAck, Closes
<1>3. C = D + (IF CloseAck(Head(s)) THEN 1 ELSE 0)
  BY CloseAcksTail
<1>4. /\ Entering(s) \in {0, 1} /\ Entering(Tail(s)) \in {0, 1}
      /\ EntryAck(Head(s)) => Entering(s) = 1 /\ Entering(Tail(s)) = 0
      /\ Entering(Tail(s)) <= Entering(s)
  <2>1. (\E j \in DOMAIN Tail(s) : EntryAck(Tail(s)[j])) => \E i \in DOMAIN s : EntryAck(s[i])
    BY TakenAck
  <2> QED
    BY <2>1, TakenAck DEF Entering
<1>5. n + Entering(s) <= Cardinality(open) + C
  BY DEF Counted
<1>6. CASE ~CloseAck(Head(s))
  <2> HIDE DEF C, D
  <2>1. n2 + Entering(Tail(s)) <= Cardinality(open) + D
    BY <1>1, <1>3, <1>4, <1>5, <1>6
  <2> QED
    BY <2>1 DEF Counted, D
<1>7. CASE CloseAck(Head(s)) /\ n > 0
  <2> HIDE DEF C, D
  <2>1. n2 + Entering(Tail(s)) <= Cardinality(open) + D
    BY <1>1, <1>2, <1>3, <1>4, <1>5, <1>7
  <2> QED
    BY <2>1 DEF Counted, D
<1>8. CASE CloseAck(Head(s)) /\ n = 0
  <2>1. ASSUME Entering(Tail(s)) = 1 PROVE Cardinality(open) + D >= 1
    <3>1. PICK j \in DOMAIN Tail(s) : EntryAck(Tail(s)[j])
      BY <2>1 DEF Entering
    <3>2. /\ Relieved(open, <<>>, Tail(s))
      BY RelievedLearned
    <3>3. Relief(open, Tail(s), j, {Tail(s)[j].cmd.w})
      BY <3>1, <3>2 DEF Relieved
    <3>4. CASE open \cap {Tail(s)[j].cmd.w} # {}
      <4>1. Cardinality(open) >= 1
        BY <3>4, HasElement
      <4> QED
        BY <1>1, <4>1
    <3>5. CASE \E k \in DOMAIN Tail(s) : CloseAck(Tail(s)[k])
      <4>1. PICK k \in CloseAcks(Tail(s)) : TRUE
        BY <3>5 DEF CloseAcks
      <4>2. D >= 1
        BY <4>1, HasElement, CloseAcksFinite, TakenAck
      <4> QED
        BY <1>1, <4>2
    <3> QED
      BY <3>3, <3>4, <3>5 DEF Relief
  <2> HIDE DEF C, D
  <2>2. n2 + Entering(Tail(s)) <= Cardinality(open) + D
    BY <1>1, <1>2, <1>4, <1>8, <2>1
  <2> QED
    BY <2>2 DEF Counted, D
<1> QED
  BY <1>6, <1>7, <1>8

-----------------------------------------------------------------------------
(* What a command does to the tables.                                      *)

Effect(c) ==
  /\ IF c.kind = "enter"
     THEN /\ c.w \notin DOMAIN entry /\ DOMAIN entry' = DOMAIN entry \cup {c.w}
          /\ c.w \notin OpenPositions /\ OpenPositions' = OpenPositions \cup {c.w}
     ELSE /\ DOMAIN entry' = DOMAIN entry
          /\ OpenPositions' = IF Closes(c) THEN OpenPositions \ {c.w} ELSE OpenPositions
  /\ decisions' = IF c.kind = "manage"
                  THEN [decisions EXCEPT ![c.w] = Record(@, c.seq, c.action)] ELSE decisions
  /\ attempts' = IF c.kind = "resolve"
                 THEN [attempts EXCEPT ![c.w] = Record(@, c.no, c.e)] ELSE attempts

LEMMA OpenEffect ==
  ASSUME IInv, NEW w \in Windows, NEW side, NEW s, NEW cost, NEW fee,
         w \notin DOMAIN entry, OpenEntry(w, side, s, cost, fee)
  PROVE  /\ DOMAIN entry' = DOMAIN entry \cup {w} /\ UNCHANGED <<decisions, attempts>>
         /\ w \notin OpenPositions /\ OpenPositions' = OpenPositions \cup {w}
  BY DEF OpenEntry, Insert, OpenPositions, WithStatus, IInv, LifecyclesAgree

LEMMA SettleEffect ==
  ASSUME IInv, NEW w \in Windows, IsOpen(w), NEW source, NEW outcome, NEW payout, NEW fee,
         Settle(w, source, outcome, payout, fee)
  PROVE  DOMAIN entry' = DOMAIN entry /\ OpenPositions' = OpenPositions \ {w}
<1>1. position[w] \in PositionRow /\ w \in DOMAIN position
  BY DEF IsOpen, IInv, Tables, IsTable
<1>2. /\ DOMAIN position' = DOMAIN position /\ position'[w].status = "CLOSED"
      /\ \A x \in DOMAIN position : x # w => position'[x] = position[x]
  BY <1>1 DEF Settle, PositionRow
<1>3. OpenPositions' = OpenPositions \ {w}
  BY <1>2 DEF OpenPositions, WithStatus
<1> QED
  BY <1>3 DEF Settle

LEMMA NotSettled ==
  ASSUME NEW w, NoSettlement
  PROVE  DOMAIN entry' = DOMAIN entry /\ OpenPositions' = OpenPositions
  BY DEF NoSettlement, OpenPositions, WithStatus

LEMMA ApplyEffect ==
  ASSUME EInv, OneEntryCommand, NEW i \in DOMAIN queue, NEW expired \in BOOLEAN,
         Apply(queue[i], expired)
  PROVE  Effect(queue[i])
<1> DEFINE c == queue[i]
<1>1. c \in Commands /\ c.w \in Windows /\ IInv
  BY CommandFacts DEF EInv, QueueInv
<1>2. CASE c.kind = "enter"
  <2>1. EnterBundle(c.w, c.side, Me, c.cost, c.fee, expired)
    BY <1>2 DEF Apply
  <2>2. c.w \notin DOMAIN entry
    BY <1>2 DEF OneEntryCommand
  <2>3. OpenEntry(c.w, c.side, Me, c.cost, c.fee)
    BY <2>1, <2>2 DEF EnterBundle, EntryExists
  <2> HIDE DEF c
  <2>4. /\ DOMAIN entry' = DOMAIN entry \cup {c.w} /\ UNCHANGED <<decisions, attempts>>
        /\ c.w \notin OpenPositions /\ OpenPositions' = OpenPositions \cup {c.w}
    BY <1>1, <2>2, <2>3, OpenEffect
  <2>5. Effect(c)
    BY <1>2, <2>2, <2>4 DEF Effect
  <2> QED
    BY <2>5 DEF c
<1>3. CASE c.kind = "manage"
  <2>1. ManageBundle(c.w, c.seq, c.action, Closes(c), c.price, c.fee)
    BY <1>3 DEF Apply
  <2> HIDE DEF c
  <2>2. /\ DOMAIN entry' = DOMAIN entry
        /\ OpenPositions' = IF Closes(c) THEN OpenPositions \ {c.w} ELSE OpenPositions
    <3>1. CASE Closes(c) /\ IsOpen(c.w)
      BY <1>1, <2>1, <3>1, SettleEffect DEF ManageBundle
    <3>2. CASE ~Closes(c) \/ ~IsOpen(c.w)
      <4>1. NoSettlement /\ (~IsOpen(c.w) => c.w \notin OpenPositions)
        BY <2>1, <3>2 DEF ManageBundle, IsOpen, OpenPositions, WithStatus
      <4> QED
        BY <3>2, <4>1, NotSettled
    <3> QED
      BY <3>1, <3>2
  <2>3. /\ decisions' = [decisions EXCEPT ![c.w] = Record(@, c.seq, c.action)]
        /\ attempts' = attempts
    BY <2>1 DEF ManageBundle
  <2>4. Effect(c)
    BY <1>3, <2>2, <2>3 DEF Effect
  <2> QED
    BY <2>4 DEF c
<1>4. CASE c.kind = "resolve"
  <2>1. ResolveBundle(c.w, c.no, c.e, Closes(c), Outcome(c))
    BY <1>4 DEF Apply
  <2> HIDE DEF c
  <2>2. /\ DOMAIN entry' = DOMAIN entry
        /\ OpenPositions' = IF Closes(c) THEN OpenPositions \ {c.w} ELSE OpenPositions
    <3>1. CASE Closes(c) /\ IsOpen(c.w)
      BY <1>1, <2>1, <3>1, SettleEffect DEF ResolveBundle
    <3>2. CASE ~Closes(c) \/ ~IsOpen(c.w)
      <4>1. NoSettlement /\ (~IsOpen(c.w) => c.w \notin OpenPositions)
        BY <2>1, <3>2 DEF ResolveBundle, IsOpen, OpenPositions, WithStatus
      <4> QED
        BY <3>2, <4>1, NotSettled
    <3> QED
      BY <3>1, <3>2
  <2>3. /\ attempts' = [attempts EXCEPT ![c.w] = Record(@, c.no, c.e)]
        /\ decisions' = decisions
    BY <2>1 DEF ResolveBundle
  <2>4. Effect(c)
    BY <1>4, <2>2, <2>3 DEF Effect
  <2> QED
    BY <2>4 DEF c
<1> QED
  BY <1>1, <1>2, <1>3, <1>4, CommandFacts

\* While every outcome is known no command conflicts, and a concurrency
\* refusal has an open position of its scope for its reason.
LEMMA RefusalFacts ==
  ASSUME EInv, Outcomes, MInv, ~failed, NEW i \in DOMAIN queue, NEW expired \in BOOLEAN
  PROVE  /\ Refusal(queue[i], expired) # "conflict"
         /\ \A a \in AckRow :
              /\ a.cmd = queue[i] /\ a.result = Refusal(queue[i], expired)
              /\ a.result \in Concurrency
              => OpenPositions \cap InScope(ScopeOf(a)) # {}
<1> DEFINE c == queue[i]
<1>1. c \in Commands /\ c.w \in Windows /\ Running /\ Memory
  BY CommandFacts DEF EInv, QueueInv, MInv
<1>2. CASE c.kind = "enter"
  <2>1. c.w \notin DOMAIN entry
    BY <1>2 DEF MInv, OneEntryCommand
  <2>2. ~WindowConflict(c.w, c.side, Me)
    BY <2>1 DEF WindowConflict, Outcomes
  <2>3. Refusal(c, expired) \in {"expired", "none", CapacityRefusal(c.w, c.cost, c.fee)}
    BY <1>2, <2>2 DEF Refusal, EnterRefusal
  <2>4. /\ CapacityRefusal(c.w, c.cost, c.fee) # "conflict"
        /\ CapacityRefusal(c.w, c.cost, c.fee) = "max_concurrent_positions" =>
             OpenCount >= MaxOpen
        /\ CapacityRefusal(c.w, c.cost, c.fee) = "max_open_per_asset" =>
             AssetOpenCount(AssetOf[c.w]) >= MaxPerAsset
    BY DEF CapacityRefusal
  <2>5. ASSUME OpenCount >= MaxOpen PROVE OpenPositions \cap InScope("global") # {}
    <3>1. OpenPositions # {}
      BY <2>5, FS_EmptySet, StoreAssumption DEF OpenCount, OpenPositions
    <3>2. OpenPositions \subseteq Windows
      BY OpenFacts DEF EInv
    <3> QED
      BY <3>1, <3>2 DEF InScope
  <2>6. ASSUME AssetOpenCount(AssetOf[c.w]) >= MaxPerAsset
        PROVE  OpenPositions \cap InScope(AssetOf[c.w]) # {}
    <3>1. {w \in OpenPositions : AssetOf[w] = AssetOf[c.w]} # {}
      BY <2>6, FS_EmptySet, StoreAssumption DEF AssetOpenCount, OpenPositions
    <3>2. OpenPositions \subseteq Windows
      BY OpenFacts DEF EInv
    <3> QED
      BY <3>1, <3>2 DEF InScope
  <2> HIDE DEF c
  <2>7. Refusal(c, expired) # "conflict"
    BY <2>3, <2>4
  <2>8. ASSUME NEW a \in AckRow, a.cmd = c, a.result = Refusal(c, expired),
               a.result \in Concurrency
        PROVE  OpenPositions \cap InScope(ScopeOf(a)) # {}
    BY <2>3, <2>4, <2>5, <2>6, <2>8 DEF ScopeOf, Concurrency
  <2> QED
    BY <2>7, <2>8 DEF c
<1>3. CASE c.kind = "manage"
  <2>1. c.seq = Len(decisions[c.w]) + 1
    BY <1>1, <1>3 DEF Memory, NumbersKnown, Number
  <2>2. Len(decisions[c.w]) \in Nat
    BY <1>1 DEF EInv, IInv, Tables
  <2>3. ~(c.seq <= Len(decisions[c.w]))
    BY <2>1, <2>2
  <2>4. Refusal(c, expired) \in {"not_open", "no_exit_decision", "none"}
    BY <1>3, <2>3 DEF Refusal, ManageRefusal
  <2> QED
    BY <2>4 DEF Concurrency
<1>4. CASE c.kind = "resolve"
  <2>1. c.no = Len(attempts[c.w]) + 1
    BY <1>1, <1>4 DEF Memory, NumbersKnown, Number
  <2>2. Len(attempts[c.w]) \in Nat
    BY <1>1 DEF EInv, TaskInv
  <2>3. ~(c.no <= Len(attempts[c.w]))
    BY <2>1, <2>2
  <2>4. Refusal(c, expired) \in {"unverified", "none"}
    BY <1>4, <2>3 DEF Refusal, ResolveRefusal
  <2> QED
    BY <2>4 DEF Concurrency
<1> QED
  BY <1>1, <1>2, <1>3, <1>4, CommandFacts

\* The writer answers a command.
LEMMA AnswerRemembers ==
  ASSUME EInv, MInv, NEW i \in DOMAIN queue, NEW a \in AckRow, a.cmd = queue[i],
         Answer(queue[i], a.result), queue' = RemoveAt(queue, i),
         UNCHANGED <<sessions, memory, failed>>,
         IF a.result = "none" THEN Effect(queue[i]) ELSE UNCHANGED rows,
         ~failed => /\ a.result # "conflict"
                    /\ a.result \in Concurrency => OpenPositions \cap InScope(ScopeOf(a)) # {}
  PROVE  MInv'
<1> DEFINE c == queue[i]
<1>1. /\ c \in Commands /\ c.w \in Windows /\ Running /\ IInv
      /\ queue \in Seq(Commands) /\ acks \in Seq(AckRow)
  BY CommandFacts DEF EInv, QueueInv, AckInv
<1>2. Running' /\ UNCHANGED <<failed, blocks, openCount, entered, nextSeq, tried>>
  BY <1>1 DEF Running, memory
<1>3. \A j \in DOMAIN queue' : \E k \in DOMAIN queue \ {i} : queue'[j] = queue[k]
  <2>1. \A j \in DOMAIN RemoveAt(queue, i) :
          /\ RemoveAt(queue, i)[j] = queue[IF j < i THEN j ELSE j + 1]
          /\ (IF j < i THEN j ELSE j + 1) \in DOMAIN queue \ {i}
    BY <1>1, RemoveAtFacts
  <2> QED
    BY <2>1
<1>4. \A j, l \in DOMAIN queue' : j # l =>
        \E k, m \in DOMAIN queue : k # m /\ queue'[j] = queue[k] /\ queue'[l] = queue[m]
  <2>1. \A j \in DOMAIN RemoveAt(queue, i) :
          /\ RemoveAt(queue, i)[j] = queue[IF j < i THEN j ELSE j + 1]
          /\ (IF j < i THEN j ELSE j + 1) \in DOMAIN queue
    BY <1>1, RemoveAtFacts
  <2>2. RemoveAt(queue, i) \in Seq(Commands)
    BY <1>1, RemoveAtFacts
  <2> SUFFICES ASSUME NEW j \in DOMAIN queue', NEW l \in DOMAIN queue', j # l
               PROVE  \E k, m \in DOMAIN queue :
                        k # m /\ queue'[j] = queue[k] /\ queue'[l] = queue[m]
    OBVIOUS
  <2> DEFINE k == IF j < i THEN j ELSE j + 1
             m == IF l < i THEN l ELSE l + 1
  <2>3. j \in Nat /\ l \in Nat /\ i \in Nat
    BY <2>2, <1>1
  <2>4. k # m
    BY <2>3
  <2>5. /\ queue'[j] = queue[k] /\ k \in DOMAIN queue
        /\ queue'[l] = queue[m] /\ m \in DOMAIN queue
    BY <2>1
  <2> HIDE DEF k, m
  <2> QED
    BY <2>4, <2>5
<1>5. \/ UNCHANGED rows
      \/ Effect(c)
  OBVIOUS
<1>6. OneEntryCommand'
  <2>1. DOMAIN entry' = DOMAIN entry \/ (c.kind = "enter" /\ DOMAIN entry' = DOMAIN entry \cup {c.w})
    BY <1>5 DEF Effect, rows
  <2>2. \A k \in DOMAIN queue \ {i} :
          queue[k].kind = "enter" /\ c.kind = "enter" => queue[k].w # c.w
    BY DEF MInv, OneEntryCommand
  <2>3. \A j \in DOMAIN queue' : queue'[j].kind = "enter" => queue'[j].w \notin DOMAIN entry'
    BY <1>3, <2>1, <2>2 DEF MInv, OneEntryCommand
  <2>4. \A j \in DOMAIN queue' : queue'[j].kind = "enter" =>
          \A l \in DOMAIN queue' \ {j} : queue'[l].kind = "enter" => queue'[l].w # queue'[j].w
    BY <1>4 DEF MInv, OneEntryCommand
  <2> QED
    BY <2>3, <2>4 DEF OneEntryCommand
<1>7. ASSUME ~failed PROVE Memory'
  <2>1. Memory
    BY <1>1, <1>7 DEF MInv
  <2>2. acks' = Append(acks, a)
    <3>1. c.from # "none"
      BY <2>1 DEF Memory, Awaited
    <3>2. a = [cmd |-> c, result |-> a.result]
      BY DEF AckRow
    <3> QED
      BY <3>1, <3>2 DEF Answer
  <2>3. Awaited'
    <3>1. \A j \in DOMAIN acks' : acks'[j].cmd.from # "none"
      BY <1>1, <2>1, <2>2, AppendedAck DEF Memory, Awaited
    <3> QED
      BY <1>3, <2>1, <3>1 DEF Memory, Awaited
  <2>4. EntriesLearned'
    <3>1. \A w \in DOMAIN entry' :
            w \in DOMAIN entry \/ (w = c.w /\ c.kind = "enter" /\ a.result = "none")
      BY DEF Effect, rows
    <3>2. \A j \in DOMAIN acks : j \in DOMAIN acks' /\ acks'[j] = acks[j]
      BY <1>1, <2>2, AppendedAck
    <3>3. Len(acks) + 1 \in DOMAIN acks' /\ acks'[Len(acks) + 1] = a
      BY <1>1, <2>2, AppendedAck
    <3>4. ASSUME NEW w \in DOMAIN entry'
          PROVE  w \in entered \/ \E j \in DOMAIN acks' : EntryAck(acks'[j]) /\ acks'[j].cmd.w = w
      <4>1. CASE w \in DOMAIN entry
        BY <2>1, <3>2, <4>1 DEF Memory, EntriesLearned
      <4>2. CASE w = c.w /\ c.kind = "enter" /\ a.result = "none"
        BY <3>3, <4>2 DEF EntryAck
      <4> QED
        BY <3>1, <4>1, <4>2
    <3> QED
      BY <1>2, <3>4 DEF EntriesLearned
  <2>5. NoConflict'
    BY <1>1, <1>7, <2>1, <2>2, AppendedAck DEF Memory, NoConflict
  <2>6. /\ c.kind = "manage" =>
             /\ \A j \in DOMAIN queue : j # i => queue[j].kind # "manage"
             /\ \A j \in DOMAIN acks : acks[j].cmd.kind # "manage"
        /\ c.kind = "resolve" =>
             /\ \A j \in DOMAIN queue : j # i => queue[j].kind # "resolve"
             /\ \A j \in DOMAIN acks : acks[j].cmd.kind # "resolve"
    <3>1. \A j \in DOMAIN queue : queue[j] \in Commands
      BY <1>1
    <3>2. \A j \in DOMAIN acks : acks[j].cmd \in Commands
      <4>1. \A j \in DOMAIN acks : acks[j] \in AckRow
        BY <1>1
      <4> QED
        BY <4>1 DEF AckRow
    <3>3. \A d \in Commands : d.from # "none" =>
            d.from = IF d.kind = "resolve" THEN "resolve" ELSE "eval"
      BY CommandFacts
    <3>4. \A j \in DOMAIN queue : queue[j].from = IF queue[j].kind = "resolve" THEN "resolve" ELSE "eval"
      BY <2>1, <3>1, <3>3 DEF Memory, Awaited
    <3>5. \A j \in DOMAIN acks : acks[j].cmd.from = IF acks[j].cmd.kind = "resolve" THEN "resolve" ELSE "eval"
      BY <2>1, <3>2, <3>3 DEF Memory, Awaited
    <3> QED
      BY <3>4, <3>5 DEF EInv, WaitInv
  <2>7. NumbersKnown("manage", queue, acks, decisions, nextSeq)'
    <3>1. \A w \in Windows :
            w # c.w \/ ~Done(a, "manage") => Len(decisions'[w]) = Len(decisions[w])
      BY <1>1 DEF Effect, Done, rows, IInv, Tables
    <3>2. Done(a, "manage") => Len(decisions'[c.w]) = Len(decisions[c.w]) + 1
      <4> SUFFICES ASSUME Done(a, "manage")
                   PROVE  Len(decisions'[c.w]) = Len(decisions[c.w]) + 1
        OBVIOUS
      <4>1. c.kind = "manage" /\ decisions'[c.w] = Record(decisions[c.w], c.seq, c.action)
        BY <1>1 DEF Done, Effect, IInv, Tables
      <4>2. c.seq = Len(decisions[c.w]) + 1 /\ decisions[c.w] \in Seq(Actions) /\ c.action \in Actions
        BY <1>1, <2>1, <4>1, CommandFacts DEF Memory, NumbersKnown, Number, IInv, Tables
      <4> HIDE DEF c
      <4> QED
        BY <4>1, <4>2 DEF Record
    <3>3. NumbersKnown("manage", queue, acks, decisions, nextSeq)
      BY <2>1 DEF Memory
    <3>4. NumbersKnown("manage", RemoveAt(queue, i), Append(acks, a), decisions', nextSeq)
      BY <1>1, <2>6, <3>1, <3>2, <3>3, NumbersAnswered
    <3> QED
      BY <1>2, <2>2, <3>4
  <2>8. NumbersKnown("resolve", queue, acks, attempts, tried)'
    <3>0. attempts \in [Windows -> Seq(Evidence)]
      BY DEF EInv, TaskInv
    <3>1. \A w \in Windows :
            w # c.w \/ ~Done(a, "resolve") => Len(attempts'[w]) = Len(attempts[w])
      BY <3>0, <1>1 DEF Effect, Done, rows
    <3>2. Done(a, "resolve") => Len(attempts'[c.w]) = Len(attempts[c.w]) + 1
      <4> SUFFICES ASSUME Done(a, "resolve")
                   PROVE  Len(attempts'[c.w]) = Len(attempts[c.w]) + 1
        OBVIOUS
      <4>1. c.kind = "resolve" /\ attempts'[c.w] = Record(attempts[c.w], c.no, c.e)
        BY <3>0, <1>1 DEF Done, Effect
      <4>2. c.no = Len(attempts[c.w]) + 1 /\ attempts[c.w] \in Seq(Evidence) /\ c.e \in Evidence
        BY <3>0, <1>1, <2>1, <4>1, CommandFacts DEF Memory, NumbersKnown, Number
      <4> HIDE DEF c
      <4> QED
        BY <4>1, <4>2 DEF Record
    <3>3. NumbersKnown("resolve", queue, acks, attempts, tried)
      BY <2>1 DEF Memory
    <3>4. NumbersKnown("resolve", RemoveAt(queue, i), Append(acks, a), attempts', tried)
      BY <1>1, <2>6, <3>1, <3>2, <3>3, NumbersAnswered
    <3> QED
      BY <1>2, <2>2, <3>4
  <2>9. /\ EntryAck(a) => c.w \notin OpenPositions
        /\ OpenPositions' = IF EntryAck(a) THEN OpenPositions \cup {c.w}
                            ELSE IF CloseAck(a) THEN OpenPositions \ {c.w} ELSE OpenPositions
    <3>1. CASE a.result = "none"
      BY <3>1 DEF Effect, EntryAck, CloseAck
    <3>2. CASE a.result # "none"
      BY <3>2 DEF rows, EntryAck, CloseAck, OpenPositions, WithStatus
    <3> QED
      BY <3>1, <3>2
  <2>10. Relieved(OpenPositions, blocks, acks)'
    <3>1. \A x \in OpenPositions : x \in OpenPositions' \/ (CloseAck(a) /\ a.cmd.w = x)
      BY <2>9
    <3>2. a.result \in Concurrency => OpenPositions' \cap InScope(ScopeOf(a)) # {}
      BY <1>7, <2>9 DEF EntryAck, CloseAck, Concurrency
    <3>3. EntryAck(a) => a.cmd.w \in OpenPositions'
      BY <2>9
    <3>4. Relieved(OpenPositions, blocks, acks)
      BY <2>1 DEF Memory
    <3>5. Relieved(OpenPositions', blocks, Append(acks, a))
      BY <1>1, <3>1, <3>2, <3>3, <3>4, RelievedAnswered
    <3> QED
      BY <1>2, <2>2, <3>5
  <2>11. Counted(openCount, OpenPositions, acks)'
    <3>1. openCount \in Nat /\ IsFiniteSet(OpenPositions)
      BY <1>1, OpenFacts DEF MInv
    <3>2. Counted(openCount, OpenPositions, acks)
      BY <2>1 DEF Memory
    <3>3. Counted(openCount, OpenPositions', Append(acks, a))
      BY <1>1, <2>9, <3>1, <3>2, CountedAnswered
    <3> QED
      BY <1>2, <2>2, <3>3
  <2> QED
    BY <2>3, <2>4, <2>5, <2>7, <2>8, <2>10, <2>11 DEF Memory
<1> QED
  BY <1>2, <1>6, <1>7 DEF MInv

\* Steps that change neither tables nor memory nor what is under way.
LEMMA QuietRemembers ==
  ASSUME MInv, UNCHANGED <<rows, sessions, memory, queue, acks>>, failed => failed'
  PROVE  MInv'
<1>1. /\ UNCHANGED <<sessions, queue, acks, entry, decisions, attempts, position>>
      /\ UNCHANGED <<blocks, openCount, entered, nextSeq, tried>>
  BY DEF rows, memory
<1>2. OpenPositions' = OpenPositions /\ OpenCount' = OpenCount /\ (Running' <=> Running)
  BY <1>1 DEF OpenPositions, OpenCount, WithStatus, Running
<1>3. OneEntryCommand'
  BY <1>1 DEF MInv, OneEntryCommand
<1>4. Memory => Memory'
  BY <1>1, <1>2 DEF Memory, Awaited, EntriesLearned, NoConflict
<1> QED
  BY <1>1, <1>2, <1>3, <1>4 DEF MInv

\* A task sends a command, with nothing of its own under way.
LEMMA SubmitRemembers ==
  ASSUME EInv, MInv, NEW c \in Commands, Submit(c), Running, c.from # "none", ~Waiting(c.from),
         c.kind = "enter" => ~failed /\ c.w \notin entered,
         ~failed /\ c.kind = "manage" => c.seq = nextSeq[c.w] + 1,
         ~failed /\ c.kind = "resolve" => c.no = tried[c.w] + 1
  PROVE  MInv'
<1>1. /\ queue' = Append(queue, c) /\ queue \in Seq(Commands) /\ acks \in Seq(AckRow)
      /\ UNCHANGED <<rows, sessions, memory, failed, acks, entry, decisions, attempts, position>>
      /\ UNCHANGED <<blocks, openCount, entered, nextSeq, tried>>
  BY DEF EInv, QueueInv, AckInv, Submit, storeVars, rows, memory
<1>2. OpenPositions' = OpenPositions /\ Running' /\ c.w \in Windows
  BY <1>1, CommandFacts DEF OpenPositions, WithStatus, Running
<1>3. \A j \in DOMAIN queue' :
        \/ j \in DOMAIN queue /\ queue'[j] = queue[j]
        \/ j = Len(queue) + 1 /\ j \notin DOMAIN queue /\ queue'[j] = c
  BY <1>1
<1>4. ASSUME ~failed
      PROVE  /\ Memory
             /\ \A j \in DOMAIN queue : c.kind # "resolve" => queue[j].kind = "resolve"
             /\ \A j \in DOMAIN acks : acks[j].cmd.kind # c.kind
             /\ \A j \in DOMAIN acks : c.kind # "resolve" => acks[j].cmd.kind = "resolve"
  <2>1. Memory
    BY <1>4 DEF MInv
  <2>2. \A j \in DOMAIN acks : acks[j].cmd \in Commands
    <3>1. \A j \in DOMAIN acks : acks[j] \in AckRow
      BY <1>1
    <3> QED
      BY <3>1 DEF AckRow
  <2>3. \A j \in DOMAIN queue : queue[j] \in Commands
    BY <1>1
  <2>4. \A d \in Commands : d.from # "none" =>
          d.from = IF d.kind = "resolve" THEN "resolve" ELSE "eval"
    BY CommandFacts
  <2>5. \A j \in DOMAIN queue :
          queue[j].from = (IF queue[j].kind = "resolve" THEN "resolve" ELSE "eval")
            /\ queue[j].from # c.from
    BY <2>1, <2>3, <2>4 DEF Memory, Awaited, EInv, WaitInv
  <2>6. \A j \in DOMAIN acks :
          acks[j].cmd.from = (IF acks[j].cmd.kind = "resolve" THEN "resolve" ELSE "eval")
            /\ acks[j].cmd.from # c.from
    BY <2>1, <2>2, <2>4 DEF Memory, Awaited, EInv, WaitInv
  <2>7. c.from = (IF c.kind = "resolve" THEN "resolve" ELSE "eval")
    BY <2>4
  <2>8. \A j \in DOMAIN queue : c.kind # "resolve" => queue[j].kind = "resolve"
    BY <2>5, <2>7
  <2>9. \A j \in DOMAIN acks : acks[j].cmd.kind # c.kind
    BY <2>6, <2>7
  <2>10. \A j \in DOMAIN acks : c.kind # "resolve" => acks[j].cmd.kind = "resolve"
    BY <2>6, <2>7
  <2> QED
    BY <2>1, <2>8, <2>9, <2>10
<1>5. OneEntryCommand'
  <2>1. CASE c.kind = "enter"
    <3>1. \A j \in DOMAIN queue : queue[j].kind # "enter"
      BY <1>4, <2>1
    <3>2. c.w \notin DOMAIN entry
      BY <1>4, <2>1 DEF Memory, EntriesLearned, EntryAck
    <3> QED
      BY <1>1, <1>3, <3>1, <3>2 DEF OneEntryCommand
  <2>2. CASE c.kind # "enter"
    BY <1>1, <1>3, <2>2 DEF MInv, OneEntryCommand
  <2> QED
    BY <2>1, <2>2
<1>6. ASSUME ~failed PROVE Memory'
  <2>1. Memory /\ \A j \in DOMAIN acks : acks[j].cmd.kind # c.kind
    BY <1>4, <1>6
  <2>2. Awaited' /\ EntriesLearned' /\ NoConflict'
    BY <1>1, <1>3, <2>1 DEF Memory, Awaited, EntriesLearned, NoConflict
  <2>3. c.kind = "manage" => Number(c) = Len(decisions[c.w]) + 1
    BY <1>2, <1>6, <2>1 DEF Memory, NumbersKnown, Number, Done
  <2>4. c.kind = "resolve" => Number(c) = Len(attempts[c.w]) + 1
    BY <1>2, <1>6, <2>1 DEF Memory, NumbersKnown, Number, Done
  <2>5. NumbersKnown("manage", queue, acks, decisions, nextSeq)'
    BY <1>1, <1>3, <2>1, <2>3 DEF Memory, NumbersKnown
  <2>6. NumbersKnown("resolve", queue, acks, attempts, tried)'
    BY <1>1, <1>3, <2>1, <2>4 DEF Memory, NumbersKnown
  <2>7. Relieved(OpenPositions, blocks, acks)' /\ Counted(openCount, OpenPositions, acks)'
    BY <1>1, <1>2, <2>1 DEF Memory
  <2> QED
    BY <2>2, <2>5, <2>6, <2>7 DEF Memory
<1> QED
  BY <1>1, <1>2, <1>5, <1>6 DEF MInv

\* A wait ends: from then on an outcome is unknown.
LEMMA TimeoutRemembers ==
  ASSUME EInv, MInv, NEW task \in {"eval", "resolve"}, Timeout(task)
  PROVE  MInv'
<1>1. /\ failed' /\ UNCHANGED <<rows, sessions, memory, entry, position>>
      /\ UNCHANGED <<blocks, openCount>>
      /\ queue' = [i \in DOMAIN queue |-> GiveUp(queue[i], task)]
      /\ acks' = [i \in DOMAIN acks |-> [acks[i] EXCEPT !.cmd = GiveUp(@, task)]]
  BY DEF Timeout, storeVars, rows, memory
<1>2. queue \in Seq(Commands) /\ acks \in Seq(AckRow)
  BY DEF EInv, QueueInv, AckInv
<1>3. OpenCount' = OpenCount /\ (Running' <=> Running)
  BY <1>1 DEF OpenCount, WithStatus, Running
<1>4. acks' # <<>> => acks # <<>>
  BY <1>1, <1>2
<1>5. /\ DOMAIN queue' = DOMAIN queue
      /\ \A i \in DOMAIN queue : queue'[i].kind = queue[i].kind /\ queue'[i].w = queue[i].w
  BY <1>1, <1>2, GiveUpFacts
<1>6. OneEntryCommand'
  BY <1>1, <1>5 DEF MInv, OneEntryCommand
<1> QED
  BY <1>1, <1>3, <1>4, <1>6 DEF MInv

\* A start finds nothing under way and restores what the tables hold.
LEMMA StartRemembers ==
  ASSUME EInv, MInv, NEW s \in Sessions, NEW absent \in SUBSET Sessions, Start(s, absent)
  PROVE  MInv'
<1>1. /\ ~Running /\ Startup(s, absent) /\ Restore
      /\ UNCHANGED <<queue, acks, entry, position, decisions, attempts>>
  BY DEF Start, Startup, Reconcile
<1>2. queue = <<>> /\ acks = <<>>
  BY <1>1 DEF EInv, QueueInv, MInv
<1>3. OpenPositions' = OpenPositions /\ OpenCount' = OpenCount
  BY <1>1 DEF OpenPositions, OpenCount, WithStatus
<1>4. \A x \in Sessions : sessions'[x] = "live" => x = s
  <2>1. \A x \in Sessions : x # s => sessions'[x] = sessions[x]
    BY <1>1 DEF Startup, Reconcile
  <2> QED
    BY <1>1, <2>1 DEF Running
<1>5. /\ entered' = DOMAIN entry /\ openCount' = OpenCount /\ blocks' = <<>>
      /\ nextSeq' = [w \in Windows |-> Len(decisions[w])]
      /\ tried' = [w \in Windows |-> Len(attempts[w])]
  BY <1>1 DEF Restore
<1>6. OpenCount \in Nat /\ OpenCount = Cardinality(OpenPositions)
  BY OpenFacts DEF EInv, OpenCount, OpenPositions
<1>7. OneEntryCommand'
  BY <1>1, <1>2 DEF OneEntryCommand
<1>8. Memory'
  <2>1. Awaited' /\ EntriesLearned' /\ NoConflict'
    BY <1>1, <1>2, <1>5 DEF Awaited, EntriesLearned, NoConflict
  <2>2. NumbersKnown("manage", queue, acks, decisions, nextSeq)'
    BY <1>1, <1>2, <1>5 DEF NumbersKnown
  <2>3. NumbersKnown("resolve", queue, acks, attempts, tried)'
    BY <1>1, <1>2, <1>5 DEF NumbersKnown
  <2>4. Relieved(OpenPositions, blocks, acks)'
    BY <1>1, <1>2, <1>5 DEF Relieved
  <2>5. Counted(openCount, OpenPositions, acks)'
    <3>1. Entering(acks) = 0 /\ Cardinality(CloseAcks(acks)) = 0
      BY <1>2, FS_EmptySet DEF Entering, CloseAcks
    <3> QED
      BY <1>1, <1>3, <1>5, <1>6, <3>1 DEF Counted
  <2> QED
    BY <2>1, <2>2, <2>3, <2>4, <2>5 DEF Memory
<1>9. sessions' \in [Sessions -> {"new", "live", "gone"}]
  BY <1>1 DEF MInv, Startup, Reconcile
<1> QED
  BY <1>1, <1>2, <1>3, <1>4, <1>5, <1>6, <1>7, <1>8, <1>9 DEF MInv

LEMMA CrashRemembers ==
  ASSUME EInv, MInv, NEW s \in Sessions, Crash(s)
  PROVE  MInv'
<1>1. /\ End(s) /\ Forget /\ queue' = <<>> /\ acks' = <<>> /\ UNCHANGED <<entry, position>>
  BY DEF Crash, End, rows
<1>0. sessions \in [Sessions -> {"new", "live", "gone"}] /\ sessions[s] = "live"
  BY <1>1 DEF MInv, End
<1>2. \A x \in Sessions : sessions'[x] # "live"
  <2>1. \A x \in Sessions : x # s => sessions'[x] = sessions[x] /\ sessions[x] # "live"
    BY <1>0, <1>1 DEF End, MInv
  <2>2. sessions'[s] # "live"
    BY <1>0, <1>1 DEF End
  <2> QED
    BY <2>1, <2>2
<1>3. OpenCount' = OpenCount /\ OpenCount \in Nat
  BY <1>1, OpenFacts DEF OpenCount, OpenPositions, WithStatus, EInv
<1>4. sessions' \in [Sessions -> {"new", "live", "gone"}]
  BY <1>0, <1>1 DEF End
<1> QED
  BY <1>1, <1>2, <1>3, <1>4 DEF MInv, Forget, OneEntryCommand, Running

\* The engine learns an outcome.
LEMMA DeliverRemembers ==
  ASSUME EInv, MInv, Deliver
  PROVE  MInv'
<1> DEFINE a == Head(acks)
           c == Head(acks).cmd
           result == Head(acks).result
<1>1. /\ acks # <<>> /\ acks' = Tail(acks)
      /\ UNCHANGED <<rows, sessions, queue, entry, position, decisions, attempts>>
  BY DEF Deliver, storeVars, rows
<1>2. acks \in Seq(AckRow) /\ a \in AckRow /\ c \in Commands /\ c.w \in Windows
  <2>1. acks \in Seq(AckRow) /\ a \in AckRow
    BY <1>1, TailFacts DEF EInv, AckInv
  <2> QED
    BY <2>1, CommandFacts DEF AckRow
<1>3. Running /\ Running' /\ OpenPositions' = OpenPositions /\ OpenCount' = OpenCount
  BY <1>1 DEF MInv, Running, OpenPositions, OpenCount, WithStatus
<1>4. OneEntryCommand'
  BY <1>1 DEF MInv, OneEntryCommand
<1> DEFINE Answered ==
             \/ c.kind = "enter" /\ EntryAnswered(c, result)
             \/ c.kind = "manage" /\ ManageAnswered(c, result)
             \/ c.kind = "resolve" /\ ResolveAnswered(c, result)
<1>5. IF c.from = "none" THEN UNCHANGED <<memory, failed, tasks>> ELSE Answered
  BY DEF Deliver
<1>6. openCount' \in Nat /\ (failed => failed')
  <2>1. openCount \in Nat
    BY DEF MInv
  <2>2. CASE c.from = "none"
    BY <1>5, <2>1, <2>2 DEF memory
  <2>3. CASE c.from # "none" /\ c.kind = "enter"
    BY <1>5, <2>1, <2>3
    DEF EntryAnswered, EntryCommitted, EntryCapped, Latch, memory
  <2>4. CASE c.from # "none" /\ c.kind = "manage"
    BY <1>5, <2>1, <2>4 DEF ManageAnswered, Latch, memory, RememberOutcome, RememberClosed
  <2>5. CASE c.from # "none" /\ c.kind = "resolve"
    BY <1>5, <2>1, <2>5 DEF ResolveAnswered, Latch, memory, RememberOutcome, RememberClosed
  <2> QED
    BY <1>2, <2>2, <2>3, <2>4, <2>5, CommandFacts
<1>7. ASSUME ~failed' PROVE Memory'
  <2>1. Memory /\ ~failed
    BY <1>3, <1>6, <1>7 DEF MInv
  <2>2. c.from # "none" /\ Answered
    BY <1>1, <1>2, <1>5, <2>1, TakenAck DEF Memory, Awaited
  <2>3. /\ entered' = IF EntryAck(a) THEN entered \cup {c.w} ELSE entered
        /\ openCount' = IF EntryAck(a) THEN openCount + 1
                        ELSE IF CloseAck(a) THEN (IF openCount > 0 THEN openCount - 1 ELSE 0)
                        ELSE openCount
        /\ CloseAck(a) => DOMAIN blocks' = {}
        /\ \A scope \in DOMAIN blocks' :
             \/ scope \in DOMAIN blocks /\ blocks'[scope] = blocks[scope]
             \/ scope = ScopeOf(a) /\ blocks'[scope] = result
        /\ \A w \in Windows :
             nextSeq'[w] = IF Done(a, "manage") /\ w = c.w THEN c.seq ELSE nextSeq[w]
        /\ \A w \in Windows :
             tried'[w] = IF Done(a, "resolve") /\ w = c.w THEN c.no ELSE tried[w]
    <3>1. CASE c.kind = "enter"
      <4>1. EntryAnswered(c, result) /\ ~Closes(c)
        BY <2>2, <3>1 DEF Closes
      <4>2. ~CloseAck(a) /\ ~Done(a, "manage") /\ ~Done(a, "resolve")
            /\ (EntryAck(a) <=> result = "none")
        BY <3>1, <4>1 DEF CloseAck, Done, EntryAck
      <4> HIDE DEF a, c, result
      <4>3. CASE result = "none" /\ EntryCommitted(c.w)
        BY <4>2, <4>3 DEF EntryCommitted
      <4>4. CASE result \in CapacityReasons /\ EntryCapped(c.w, result)
        <5>1. ScopeOf(a) = IF result = "max_open_per_asset" THEN AssetOf[c.w] ELSE "global"
          BY DEF ScopeOf, a, c, result
        <5>2. result # "none"
          BY <4>4 DEF CapacityReasons
        <5> QED
          BY <4>2, <4>4, <5>1, <5>2 DEF EntryCapped
      <4>5. CASE result \in {"expired", "conflict"} /\ UNCHANGED <<memory, failed>>
        BY <4>2, <4>5 DEF memory
      <4>6. CASE result = "failed" /\ Latch
        BY <1>7, <4>6 DEF Latch
      <4> QED
        BY <4>1, <4>3, <4>4, <4>5, <4>6 DEF EntryAnswered
    <3>2. CASE c.kind = "manage"
      <4>1. ManageAnswered(c, result)
        BY <2>2, <3>2
      <4>2. result = "none"
        BY <1>7, <4>1 DEF ManageAnswered, Latch
      <4>3. /\ ~EntryAck(a) /\ Done(a, "manage") /\ ~Done(a, "resolve")
            /\ CloseAck(a) <=> Closes(c)
        BY <3>2, <4>2 DEF EntryAck, Done, CloseAck
      <4>4. nextSeq \in [Windows -> Nat]
        BY DEF EInv, TaskInv
      <4> HIDE DEF a, c, result
      <4>5. /\ nextSeq' = [nextSeq EXCEPT ![c.w] = c.seq] /\ RememberOutcome(c)
            /\ UNCHANGED <<entered, tried, failed>>
        BY <4>1, <4>2 DEF ManageAnswered
      <4>6. CASE Closes(c)
        BY <1>2, <4>3, <4>4, <4>5, <4>6 DEF RememberOutcome, RememberClosed
      <4>7. CASE ~Closes(c)
        BY <1>2, <4>3, <4>4, <4>5, <4>7 DEF RememberOutcome
      <4> QED
        BY <4>6, <4>7
    <3>3. CASE c.kind = "resolve"
      <4>1. ResolveAnswered(c, result)
        BY <2>2, <3>3
      <4>2. result = "none"
        BY <1>7, <4>1 DEF ResolveAnswered, Latch
      <4>3. /\ ~EntryAck(a) /\ Done(a, "resolve") /\ ~Done(a, "manage")
            /\ CloseAck(a) <=> Closes(c)
        BY <3>3, <4>2 DEF EntryAck, Done, CloseAck
      <4>4. tried \in [Windows -> Nat]
        BY DEF EInv, TaskInv
      <4> HIDE DEF a, c, result
      <4>5. /\ tried' = [tried EXCEPT ![c.w] = c.no] /\ RememberOutcome(c)
            /\ UNCHANGED <<entered, nextSeq, failed>>
        BY <4>1, <4>2 DEF ResolveAnswered
      <4>6. CASE Closes(c)
        BY <1>2, <4>3, <4>4, <4>5, <4>6 DEF RememberOutcome, RememberClosed
      <4>7. CASE ~Closes(c)
        BY <1>2, <4>3, <4>4, <4>5, <4>7 DEF RememberOutcome
      <4> QED
        BY <4>6, <4>7
    <3> QED
      BY <1>2, <3>1, <3>2, <3>3, CommandFacts
  <2> HIDE DEF Answered
  <2>4. Awaited' /\ NoConflict'
    BY <1>1, <1>2, <2>1, TakenAck DEF Memory, Awaited, NoConflict
  <2>5. EntriesLearned'
    <3>1. ASSUME NEW w \in DOMAIN entry, w \notin entered'
          PROVE  \E j \in DOMAIN acks' : EntryAck(acks'[j]) /\ acks'[j].cmd.w = w
      <4>1. w \notin entered /\ ~(EntryAck(a) /\ c.w = w)
        BY <2>3, <3>1
      <4>2. PICK i \in DOMAIN acks : EntryAck(acks[i]) /\ acks[i].cmd.w = w
        BY <2>1, <4>1 DEF Memory, EntriesLearned
      <4>3. i # 1
        BY <1>1, <1>2, <4>1, <4>2, TakenAck
      <4> QED
        BY <1>1, <1>2, <4>2, <4>3, TakenAck
    <3> QED
      BY <1>1, <3>1 DEF EntriesLearned
  <2>6. NumbersKnown("manage", queue, acks, decisions, nextSeq)'
    <3>1. \A w \in Windows :
            nextSeq'[w] = IF Done(a, "manage") /\ w = a.cmd.w THEN Number(a.cmd) ELSE nextSeq[w]
      BY <2>3 DEF Number, Done
    <3>2. NumbersKnown("manage", queue, acks, decisions, nextSeq)
      BY <2>1 DEF Memory
    <3>3. NumbersKnown("manage", queue, Tail(acks), decisions, nextSeq')
      BY <1>1, <1>2, <3>1, <3>2, NumbersLearned
    <3> QED
      BY <1>1, <3>3
  <2>7. NumbersKnown("resolve", queue, acks, attempts, tried)'
    <3>1. \A w \in Windows :
            tried'[w] = IF Done(a, "resolve") /\ w = a.cmd.w THEN Number(a.cmd) ELSE tried[w]
      BY <2>3 DEF Number, Done
    <3>2. NumbersKnown("resolve", queue, acks, attempts, tried)
      BY <2>1 DEF Memory
    <3>3. NumbersKnown("resolve", queue, Tail(acks), attempts, tried')
      BY <1>1, <1>2, <3>1, <3>2, NumbersLearned
    <3> QED
      BY <1>1, <3>3
  <2>8. Relieved(OpenPositions, blocks, acks)'
    <3>1. Relieved(OpenPositions, blocks, acks)
      BY <2>1 DEF Memory
    <3>2. Relieved(OpenPositions, blocks', Tail(acks))
      BY <1>1, <1>2, <2>3, <3>1, RelievedLearned
    <3> QED
      BY <1>1, <1>3, <3>2
  <2>9. Counted(openCount, OpenPositions, acks)'
    <3>1. Relieved(OpenPositions, blocks, acks) /\ Counted(openCount, OpenPositions, acks)
      BY <2>1 DEF Memory
    <3>2. IsFiniteSet(OpenPositions) /\ openCount \in Nat
      BY OpenFacts DEF EInv, MInv
    <3>3. EntryAck(a) => \A j \in DOMAIN Tail(acks) : ~EntryAck(Tail(acks)[j])
      <4>1. ASSUME EntryAck(a), NEW j \in DOMAIN Tail(acks), EntryAck(Tail(acks)[j]) PROVE FALSE
        <5>1. /\ j + 1 \in DOMAIN acks /\ j + 1 # 1 /\ 1 \in DOMAIN acks /\ a = acks[1]
              /\ Tail(acks)[j] = acks[j + 1]
          BY <1>1, <1>2, TakenAck
        <5>2. acks[1].cmd.kind = "enter" /\ acks[j + 1].cmd.kind = "enter"
          BY <4>1, <5>1 DEF EntryAck
        <5>3. acks[1].cmd \in Commands /\ acks[j + 1].cmd \in Commands
          <6>1. acks[1] \in AckRow /\ acks[j + 1] \in AckRow
            BY <1>2, <5>1
          <6> QED
            BY <6>1 DEF AckRow
        <5>4. acks[1].cmd.from = "eval" /\ acks[j + 1].cmd.from = "eval"
          BY <2>1, <5>1, <5>2, <5>3, CommandFacts DEF Memory, Awaited
        <5> QED
          BY <5>1, <5>4 DEF EInv, WaitInv
      <4> QED
        BY <4>1
    <3>4. Counted(openCount', OpenPositions, Tail(acks))
      BY <1>1, <1>2, <1>6, <2>3, <3>1, <3>2, <3>3, CountedLearned
    <3> QED
      BY <1>1, <1>3, <3>4
  <2> QED
    BY <2>4, <2>5, <2>6, <2>7, <2>8, <2>9 DEF Memory
<1> QED
  BY <1>1, <1>3, <1>4, <1>6, <1>7 DEF MInv

LEMMA CommitRemembers ==
  ASSUME EInv, Outcomes, MInv, NEW i \in DOMAIN queue, Commit(i)
  PROVE  MInv'
<1> DEFINE c == queue[i]
<1>1. PICK expired \in BOOLEAN :
        /\ IF Refusal(c, expired) = "none" THEN Apply(c, expired) ELSE UNCHANGED rows
        /\ Answer(c, Refusal(c, expired))
  BY DEF Commit
<1>2. queue' = RemoveAt(queue, i) /\ UNCHANGED <<sessions, memory, failed>>
  BY DEF Commit
<1>3. c \in Commands
  BY DEF EInv, QueueInv
<1> DEFINE a == [cmd |-> c, result |-> Refusal(c, expired)]
<1>4. a \in AckRow /\ a.cmd = c /\ a.result = Refusal(c, expired)
  BY <1>3, RefusalResult DEF AckRow
<1> HIDE DEF a
<1>5. Refusal(c, expired) = "none" => Effect(c)
  BY <1>1, ApplyEffect DEF MInv
<1>6. ~failed => /\ a.result # "conflict"
                 /\ a.result \in Concurrency => OpenPositions \cap InScope(ScopeOf(a)) # {}
  BY <1>4, RefusalFacts
<1> QED
  BY <1>1, <1>2, <1>4, <1>5, <1>6, AnswerRemembers

LEMMA FailRemembers ==
  ASSUME EInv, MInv, NEW i \in DOMAIN queue, Fail(i)
  PROVE  MInv'
<1> DEFINE a == [cmd |-> queue[i], result |-> "failed"]
<1>1. /\ Answer(queue[i], "failed") /\ queue' = RemoveAt(queue, i)
      /\ UNCHANGED <<rows, sessions, memory, failed>>
  BY DEF Fail, storeVars
<1>2. queue[i] \in Commands /\ "failed" \in Results
  BY DEF EInv, QueueInv, Results
<1>3. a \in AckRow /\ a.cmd = queue[i] /\ a.result = "failed"
  BY <1>2 DEF AckRow
<1>4. "failed" \notin Concurrency
  BY DEF Concurrency
<1> HIDE DEF a
<1> QED
  BY <1>1, <1>3, <1>4, AnswerRemembers

LEMMA StepRemembers ==
  ASSUME EInv, Outcomes, MInv, [EngineNext]_allVars
  PROVE  MInv'
<1>1. ASSUME NEW w \in Windows, Evaluate(w) \/ WindowCloses(w) \/ Writer(w) PROVE MInv'
  <2>1. CASE Evaluate(w)
    BY <2>1, QuietRemembers DEF Evaluate, storeVars
  <2>2. CASE WindowCloses(w)
    BY <2>2, QuietRemembers DEF WindowCloses, CloseWindow, engineVars
  <2>3. CASE Writer(w)
    BY <2>3, CommitRemembers DEF Writer
  <2> QED
    BY <1>1, <2>1, <2>2, <2>3
<1>2. CASE EvidenceFails \/ PassEntry \/ PassManage \/ QueryDue \/ EndRows
  BY <1>2, QuietRemembers
  DEF EvidenceFails, PassEntry, PassManage, QueryDue, EndRows, storeVars
<1>3. CASE SubmitEntry
  <2>1. PICK side \in Sides, cost \in Costs, fee \in Fees :
          Submit(EnterCommand(eval.w, side, cost, fee))
    BY <1>3 DEF SubmitEntry
  <2> DEFINE c == EnterCommand(eval.w, side, cost, fee)
  <2>2. /\ eval \in EvalRow /\ Running /\ eval.pc = "entry" /\ MayEnter(eval.w)
    BY <1>3 DEF SubmitEntry, EInv, TaskInv, Idle, EvalRow
  <2>3. /\ c \in Commands /\ c.from = "eval" /\ c.kind = "enter" /\ c.w = eval.w
    BY <2>2 DEF EnterCommand, Commands, EvalRow
  <2>4. ~Waiting(c.from) /\ ~failed /\ c.w \notin entered
    BY <2>2, <2>3 DEF Waiting, MayEnter
  <2> HIDE DEF c
  <2>5. Submit(c)
    BY <2>1 DEF c
  <2> QED
    BY <2>2, <2>3, <2>4, <2>5, SubmitRemembers
<1>4. CASE SubmitManage
  <2>1. PICK action \in Actions, price \in Prices, fee \in Fees :
          Submit(ManageCommand(eval.w, nextSeq[eval.w] + 1, action, price, fee))
    BY <1>4 DEF SubmitManage
  <2> DEFINE c == ManageCommand(eval.w, nextSeq[eval.w] + 1, action, price, fee)
  <2>2. /\ eval \in EvalRow /\ Running /\ eval.pc = "manage" /\ nextSeq[eval.w] < MaxDecisions
    BY <1>4 DEF SubmitManage, EInv, TaskInv, Idle, EvalRow
  <2>3. eval.w \in Windows /\ nextSeq[eval.w] \in Nat
    BY <2>2 DEF EInv, TaskInv, EvalRow
  <2>4. /\ c \in Commands /\ c.from = "eval" /\ c.kind = "manage" /\ c.w = eval.w
        /\ c.seq = nextSeq[c.w] + 1
    BY <2>2, <2>3, StoreAssumption DEF ManageCommand, Commands
  <2>5. ~Waiting(c.from)
    BY <2>2, <2>4 DEF Waiting
  <2> HIDE DEF c
  <2>6. Submit(c)
    BY <2>1 DEF c
  <2> QED
    BY <2>2, <2>4, <2>5, <2>6, SubmitRemembers
<1>5. CASE SubmitResolve
  <2>1. PICK w \in resolve.due, e \in Evidence :
          tried[w] < MaxAttempts /\ Submit(ResolveCommand(w, tried[w] + 1, e))
    BY <1>5 DEF SubmitResolve
  <2> DEFINE c == ResolveCommand(w, tried[w] + 1, e)
  <2>2. resolve \in ResolveRow /\ Running /\ resolve.pc = "rows"
    BY <1>5 DEF SubmitResolve, EInv, TaskInv, Idle, ResolveRow
  <2>3. w \in Windows /\ tried[w] \in Nat
    BY <2>2 DEF EInv, TaskInv, ResolveRow
  <2>4. /\ c \in Commands /\ c.from = "resolve" /\ c.kind = "resolve" /\ c.w = w
        /\ c.no = tried[c.w] + 1
    BY <2>1, <2>3, StoreAssumption DEF ResolveCommand, Commands
  <2>5. ~Waiting(c.from)
    BY <2>2, <2>4 DEF Waiting
  <2> HIDE DEF c
  <2>6. Submit(c)
    BY <2>1 DEF c
  <2> QED
    BY <2>2, <2>4, <2>5, <2>6, SubmitRemembers
<1>6. CASE EvaluationTimeout \/ ResolutionTimeout
  BY <1>6, TimeoutRemembers DEF EvaluationTimeout, ResolutionTimeout
<1>7. CASE UNCHANGED allVars
  <2>1. UNCHANGED <<rows, sessions, memory, queue, acks, failed>>
    BY <1>7 DEF allVars, engineVars, storeVars
  <2> QED
    BY <2>1, QuietRemembers
<1> QED
  BY <1>1, <1>2, <1>3, <1>4, <1>5, <1>6, <1>7, FailRemembers, DeliverRemembers,
     StartRemembers, CrashRemembers
  DEF EngineNext, EvaluationStep

LEMMA InitMInv == EngineInit => MInv
<1> SUFFICES ASSUME EngineInit PROVE MInv
  OBVIOUS
<1>1. OpenCount \in Nat
  <2>1. IInv
    BY InitIInv DEF EngineInit
  <2> QED
    BY <2>1, OpenFacts DEF OpenCount, OpenPositions
<1> QED
  BY <1>1 DEF EngineInit, StoreInit, MInv, OneEntryCommand, Running

LEMMA MemorySound == ASSUME MInv, EInv PROVE EngineSound
<1>1. OneEntryCommand
  BY DEF MInv
<1>2. NumbersFit
  BY DEF MInv, Memory, NoConflict, NumbersFit
<1>3. LatchesLift
  <2>1. CASE ~Running
    BY <2>1 DEF MInv, LatchesLift
  <2>2. CASE Running
    BY <2>2 DEF MInv, Memory, Relieved, Relief, LatchesLift, Relievable, CloseKnownSoon,
                Concurrency, CloseAck, OpenPositions
  <2> QED
    BY <2>1, <2>2
<1>4. CountNotHigh
  <2>1. CloseAcks(acks) = {i \in DOMAIN acks : acks[i].result = "none" /\ Closes(acks[i].cmd)}
    BY DEF CloseAcks, CloseAck
  <2>2. /\ openCount \in Nat /\ OpenCount \in Nat /\ OpenCount = Cardinality(OpenPositions)
        /\ Cardinality(CloseAcks(acks)) \in Nat
    BY OpenFacts, CloseAcksFinite DEF MInv, EInv, AckInv, OpenCount, OpenPositions
  <2>3. CASE ~Running
    BY <2>1, <2>2, <2>3 DEF MInv, CountNotHigh
  <2>4. CASE Running
    <3>1. Entering(acks) \in {0, 1}
      BY DEF Entering
    <3> QED
      BY <2>1, <2>2, <2>4, <3>1 DEF MInv, Memory, Counted, CountNotHigh
  <2> QED
    BY <2>3, <2>4
<1> QED
  BY <1>1, <1>2, <1>3, <1>4 DEF EngineSound

\* The engine's memory keeps in step with the tables, whatever is refused,
\* fails, times out or dies: no second entry command, no number that
\* conflicts, no latch left behind, no closed position counted for good.
THEOREM MemoryKeepsStep == EngineSpec => []EngineSound
<1>1. EngineInit => EInv /\ Outcomes /\ MInv
  BY InitEInv, InitOutcomes, InitMInv DEF EngineInit
<1>2. EInv /\ Outcomes /\ MInv /\ [EngineNext]_allVars => (EInv /\ Outcomes /\ MInv)'
  <2> SUFFICES ASSUME EInv, Outcomes, MInv, [EngineNext]_allVars
               PROVE  (EInv /\ Outcomes /\ MInv)'
    OBVIOUS
  <2>1. EInv' /\ [StoreNext]_storeVars
    BY NextEInv
  <2>2. Outcomes'
    BY <2>1, NextOutcomes DEF EInv
  <2> QED
    BY <2>1, <2>2, StepRemembers
<1>3. EInv /\ Outcomes /\ MInv => EngineSound
  BY MemorySound
<1> QED
  BY <1>1, <1>2, <1>3, PTL DEF EngineSpec
=============================================================================
