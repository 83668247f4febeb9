------------------------- MODULE ExecutionIndexProofs -------------------------
(***************************************************************************)
(* Proofs about ExecutionIndex, for any policies, any number of runs and    *)
(* crashes: the record of a policy is never ahead of the disk, and the runs *)
(* of a recurring policy keep its interval.                                 *)
(***************************************************************************)
EXTENDS ExecutionIndex, FiniteSetTheorems, TLAPS

USE IndexAssumption

IndexType == [state: States, run: Runs \union {NoRun}, startedAt: Nat, completedAt: Nat,
              completedRuns: 0..MaxCount]
AgentType == [pc: Pcs, run: Runs \union {NoRun}, todo: SUBSET Runs, metrics: MetricsStates]

(* Every action of Next by name, the case split of the proofs below.        *)
LEMMA Actions ==
  ASSUME Next
  PROVE  /\ UNCHANGED policy
         /\ \/ GetPolicy \/ NoPolicy \/ Decline \/ Begin \/ StartRun \/ WriteReport \/ Count
            \/ GateClosed \/ BeginFlush \/ EndFlush \/ RecordFailed \/ CountAgain \/ Publish
            \/ RecordSent \/ Crash \/ Restart \/ Tick
            \/ \E r \in Runs : Quarantine(r) \/ Replay(r) \/ Corrupt(r)
  BY Zenon DEF Next, Step

(* What a mark makes of the record.                                         *)
LEMMA MarkedFacts ==
  ASSUME TypeOK, NEW state \in States, NEW r \in Runs \union {NoRun}
  PROVE  /\ Marked(state, r) \in IndexType
         /\ Marked(state, r).state = state /\ Marked(state, r).run = r
         /\ Marked(state, r).startedAt = IF state = "in_progress" THEN now ELSE index.startedAt
         /\ Marked(state, r).completedAt =
              IF state \in {"completed", "reported"} THEN now ELSE index.completedAt
         /\ Marked(state, r).completedRuns =
              IF state = "completed" /\ index.completedRuns < MaxCount
              THEN index.completedRuns + 1 ELSE index.completedRuns
  <1> DEFINE s == IF state = "in_progress" THEN now ELSE index.startedAt
             e == IF state \in {"completed", "reported"} THEN now ELSE index.completedAt
             n == IF state = "completed" /\ index.completedRuns < MaxCount
                  THEN index.completedRuns + 1 ELSE index.completedRuns
  <1>1. index \in IndexType /\ now \in Nat
    BY DEF TypeOK, IndexType
  <1>2. s \in Nat /\ e \in Nat /\ n \in 0..MaxCount
    BY <1>1 DEF IndexType
  <1>3. Marked(state, r) = [index EXCEPT !.state = state, !.run = r, !.startedAt = s,
                                         !.completedAt = e, !.completedRuns = n]
    BY DEF Marked
  <1> HIDE DEF s, e, n
  <1>4. /\ Marked(state, r) \in IndexType /\ Marked(state, r).state = state
        /\ Marked(state, r).run = r /\ Marked(state, r).startedAt = s
        /\ Marked(state, r).completedAt = e /\ Marked(state, r).completedRuns = n
    BY <1>1, <1>2, <1>3 DEF IndexType
  <1> QED BY <1>4 DEF s, e, n

(* A change of the program counter alone.                                   *)
LEMMA GotoFacts ==
  ASSUME TypeOK, NEW pc \in Pcs, Goto(pc)
  PROVE  /\ agent' \in AgentType /\ agent'.pc = pc
         /\ agent'.run = agent.run /\ agent'.todo = agent.todo
  BY DEF TypeOK, Goto, AgentType

LEMMA IdleFacts ==
  ASSUME NEW pc \in Pcs
  PROVE  LET a == [Idle EXCEPT !.pc = pc]
         IN  a \in AgentType /\ a.pc = pc /\ a.run = NoRun /\ a.todo = {}
  BY DEF Idle, AgentType, MetricsStates, Pcs

LEMMA HistoryFacts ==
  ASSUME TypeOK, NEW r \in Runs
  PROVE  history[r] \in [start: Nat, finish: Nat, counted: BOOLEAN]
  BY DEF TypeOK

-------------------------------------------------------------------------------
(* The inductive invariant.                                                 *)

Measuring == agent.pc \in {"start", "measure", "count"}

(* The run the agent is at lies where the agent's place in the program says *)
(* it does, and the runs it has still to replay wait in pending/.           *)
DiskInv ==
  /\ \A r \in agent.todo : r \in written /\ place[r] = "pending"
  /\ Measuring => agent.run \in Runs /\ index.state = "in_progress" /\ index.run = agent.run
  /\ agent.pc \in {"count_again", "publish", "sent", "failed"} =>
       agent.run \in Runs /\ agent.run \notin agent.todo
  /\ agent.pc \in {"count", "count_again", "publish", "sent"} => agent.run \in written
  /\ agent.pc \in {"count_again", "publish"} => place[agent.run] = "pending"
  /\ agent.pc = "sent" => place[agent.run] = "sent"
  /\ agent.pc = "failed" => place[agent.run] = "failed"
  /\ index.state # "none" => index.run \in Runs

-------------------------------------------------------------------------------
(* Types.                                                                   *)

LEMMA PcsTyped ==
  /\ {"down", "poll", "decide", "start", "measure", "count", "gate", "flush", "count_again",
      "publish", "sent", "failed"} \subseteq Pcs
  /\ {"in_progress", "completed", "reported", "failed"} \subseteq States
  BY DEF Pcs, States

LEMMA TypeInit == Init => TypeOK
  <1> SUFFICES ASSUME Init PROVE TypeOK
    OBVIOUS
  <1>1. agent \in AgentType
    <2>1. "gate" \in Pcs /\ "UPLOADED" \in MetricsStates
      BY DEF Pcs, MetricsStates
    <2>2. agent = [pc |-> "gate", run |-> NoRun, todo |-> {}, metrics |-> "UPLOADED"]
      BY DEF Init, Idle
    <2> QED BY <2>1, <2>2 DEF AgentType
  <1>2. index \in IndexType
    <2>1. "none" \in States /\ 0 \in Nat /\ 0 \in 0..MaxCount
      BY DEF States
    <2> QED BY <2>1 DEF Init, IndexType, NoRun, Never
  <1>3. now \in Nat /\ crashes \in 0..MaxFaults /\ policy \in Policies
    BY DEF Init
  <1>4. /\ place \in [Runs -> {"none", "pending", "sent", "failed"}]
        /\ metrics \in [Runs -> MetricsStates]
        /\ history \in [Runs -> [start: Nat, finish: Nat, counted: BOOLEAN]]
    BY DEF Init, MetricsStates, Never
  <1> QED BY <1>1, <1>2, <1>3, <1>4 DEF Init, TypeOK, AgentType, IndexType

(* The steps that only move the agent on, by the clock or a crash.          *)
Moves ==
  \/ GetPolicy \/ NoPolicy \/ Decline \/ GateClosed \/ BeginFlush \/ EndFlush
  \/ Crash \/ Restart \/ Tick

LEMMA MovesTyped ==
  ASSUME TypeOK, Moves
  PROVE  /\ agent' \in AgentType /\ now' \in Nat /\ crashes' \in 0..MaxFaults
         /\ UNCHANGED <<diskVars, history>>
  <1>0. agent \in AgentType /\ now \in Nat /\ crashes \in 0..MaxFaults
    BY DEF TypeOK, AgentType
  <1>1. CASE GetPolicy \/ NoPolicy \/ Decline \/ GateClosed \/ Restart
    BY <1>0, <1>1, GotoFacts, PcsTyped DEF GetPolicy, NoPolicy, Decline, GateClosed, Restart
  <1>2. CASE BeginFlush
    <2>1. PICK m \in MetricsStates :
            agent' = [pc |-> "flush", run |-> NoRun, metrics |-> m,
                      todo |-> {r \in written : place[r] = "pending"}]
      BY <1>2 DEF BeginFlush, MetricsStates
    <2>2. {r \in written : place[r] = "pending"} \subseteq Runs
      BY DEF TypeOK
    <2>3. agent' \in AgentType
      BY <2>1, <2>2, PcsTyped DEF AgentType
    <2> QED BY <1>0, <1>2, <2>3 DEF BeginFlush
  <1>3. CASE EndFlush
    BY <1>0, <1>3, PcsTyped DEF EndFlush, Idle, AgentType, MetricsStates
  <1>4. CASE Crash
    BY <1>0, <1>4, IdleFacts, PcsTyped DEF Crash
  <1>5. CASE Tick
    BY <1>0, <1>5 DEF Tick
  <1> QED BY <1>1, <1>2, <1>3, <1>4, <1>5 DEF Moves

(* The steps that mark the record and move on.                              *)
LEMMA MarksTyped ==
  ASSUME TypeOK, NEW state \in States, NEW pc \in Pcs,
         index' = Marked(state, agent.run), Goto(pc),
         UNCHANGED <<policy, now, place, written, corrupt, metrics, local, crashes>>,
         history' = history \/ history' = [history EXCEPT ![agent.run].counted = TRUE]
  PROVE  TypeOK'
  <1>1. index' \in IndexType
    BY MarkedFacts DEF TypeOK
  <1>2. agent' \in AgentType
    BY GotoFacts
  <1>3. history' \in [Runs -> [start: Nat, finish: Nat, counted: BOOLEAN]]
    <2>1. CASE history' = history
      BY <2>1 DEF TypeOK
    <2>2. CASE history' = [history EXCEPT ![agent.run].counted = TRUE]
      BY <2>2 DEF TypeOK
    <2> QED BY <2>1, <2>2
  <1> QED BY <1>1, <1>2, <1>3 DEF TypeOK, IndexType, AgentType

LEMMA TypeStep ==
  ASSUME TypeOK, DiskInv, [Next]_vars
  PROVE  TypeOK'
  <1>1. CASE UNCHANGED vars
    BY <1>1 DEF vars, diskVars, TypeOK
  <1>2. CASE Next
    <2>0. UNCHANGED policy
      BY <1>2, Actions
    <2>1. CASE Moves
      BY <2>0, <2>1, MovesTyped DEF TypeOK, diskVars, AgentType
    <2>2. CASE Begin
      <3>1. PICK r \in Runs : /\ index' = Marked("in_progress", r)
                              /\ agent' = [agent EXCEPT !.pc = "start", !.run = r]
                              /\ history' = [history EXCEPT ![r].start = now]
        BY <2>2 DEF Begin
      <3>2. index' \in IndexType
        BY <3>1, MarkedFacts, PcsTyped
      <3>3. agent' \in AgentType
        BY <3>1, PcsTyped DEF TypeOK, AgentType
      <3>4. history' \in [Runs -> [start: Nat, finish: Nat, counted: BOOLEAN]]
        BY <3>1 DEF TypeOK
      <3> QED BY <2>0, <2>2, <3>2, <3>3, <3>4 DEF Begin, TypeOK, IndexType, AgentType
    <2>3. CASE StartRun
      <3>1. agent' \in AgentType
        BY <2>3, GotoFacts, PcsTyped DEF StartRun
      <3> QED BY <2>0, <2>3, <3>1 DEF StartRun, TypeOK, AgentType
    <2>4. CASE WriteReport
      <3>1. agent' \in AgentType
        BY <2>4, GotoFacts, PcsTyped DEF WriteReport
      <3>2. agent.run \in Runs
        BY <2>4 DEF WriteReport, DiskInv, Measuring
      <3>3. written' \subseteq Runs /\ local' \subseteq Runs
        BY <2>4, <3>2 DEF WriteReport, TypeOK
      <3>4. history' \in [Runs -> [start: Nat, finish: Nat, counted: BOOLEAN]]
        BY <2>4 DEF WriteReport, TypeOK
      <3> QED BY <2>0, <2>4, <3>1, <3>3, <3>4 DEF WriteReport, TypeOK, AgentType
    <2>5. CASE Count
      BY <2>0, <2>5, MarksTyped, PcsTyped DEF Count
    <2>6. CASE RecordFailed
      BY <2>0, <2>6, MarksTyped, PcsTyped DEF RecordFailed
    <2>7. CASE RecordSent
      BY <2>0, <2>7, MarksTyped, PcsTyped DEF RecordSent
    <2>8. CASE CountAgain
      <3>1. PICK pc \in {"flush", "publish"} : Goto(pc)
        BY <2>8 DEF CountAgain
      <3> QED BY <2>0, <2>8, <3>1, MarksTyped, PcsTyped DEF CountAgain
    <2>9. ASSUME NEW r \in Runs, Quarantine(r)
          PROVE  TypeOK'
      <3>1. agent' \in AgentType
        BY <2>9, PcsTyped DEF Quarantine, TypeOK, AgentType
      <3>2. place' \in [Runs -> {"none", "pending", "sent", "failed"}]
        BY <2>9 DEF Quarantine, TypeOK
      <3> QED BY <2>0, <2>9, <3>1, <3>2 DEF Quarantine, TypeOK, AgentType
    <2>10. ASSUME NEW r \in Runs, Replay(r)
           PROVE  TypeOK'
      <3>1. PICK pc \in {"count_again", "publish"} :
              agent' = [agent EXCEPT !.pc = pc, !.run = r, !.todo = @ \ {r}]
        BY <2>10 DEF Replay
      <3>2. agent' \in AgentType
        BY <3>1, PcsTyped DEF TypeOK, AgentType
      <3>3. metrics' \in [Runs -> MetricsStates] /\ local' \subseteq Runs
        BY <2>10 DEF Replay, TypeOK
      <3> QED BY <2>0, <2>10, <3>2, <3>3 DEF Replay, TypeOK, AgentType
    <2>11. ASSUME NEW r \in Runs, Corrupt(r)
           PROVE  TypeOK'
      BY <2>0, <2>11 DEF Corrupt, TypeOK
    <2>12. CASE Publish
      <3>1. PICK pc \in {"sent", "flush"} : Goto(pc)
        BY <2>12 DEF Publish
      <3>2. agent' \in AgentType
        BY <3>1, GotoFacts, PcsTyped
      <3>3. place' \in [Runs -> {"none", "pending", "sent", "failed"}]
        <4>1. place' = place \/ place' = [place EXCEPT ![agent.run] = "sent"]
          BY <2>12 DEF Publish
        <4>2. CASE place' = place
          BY <4>2 DEF TypeOK
        <4>3. CASE place' = [place EXCEPT ![agent.run] = "sent"]
          BY <4>3 DEF TypeOK
        <4> QED BY <4>1, <4>2, <4>3
      <3> QED BY <2>0, <2>12, <3>2, <3>3 DEF Publish, TypeOK, AgentType
    <2> QED BY <1>2, <2>1, <2>2, <2>3, <2>4, <2>5, <2>6, <2>7, <2>8, <2>9, <2>10, <2>11, <2>12,
               Actions DEF Moves
  <1> QED BY <1>1, <1>2

-------------------------------------------------------------------------------
(* The record and the disk.                                                 *)

LEMMA MovesMatch ==
  ASSUME TypeOK, DiskInv, IndexMatchesDisk, Moves
  PROVE  DiskInv' /\ IndexMatchesDisk'
  <1>0. /\ UNCHANGED <<index, place, written>> /\ crashes \in Nat
    BY MovesTyped DEF diskVars, TypeOK
  <1>1. CASE Tick
    BY <1>0, <1>1 DEF Tick, DiskInv, Measuring, IndexMatchesDisk
  <1>2. CASE GetPolicy \/ NoPolicy \/ Decline \/ GateClosed \/ Restart
    <2>1. /\ ~Measuring /\ agent'.pc \in {"decide", "gate", "poll"} /\ agent'.todo = agent.todo
          /\ crashes' = crashes
      BY <1>2, GotoFacts, PcsTyped
         DEF GetPolicy, NoPolicy, Decline, GateClosed, Restart, Measuring
    <2> QED BY <1>0, <2>1 DEF DiskInv, Measuring, IndexMatchesDisk
  <1>3. CASE BeginFlush
    <2>1. /\ ~Measuring /\ agent'.pc = "flush" /\ crashes' = crashes
          /\ agent'.todo = {r \in written : place[r] = "pending"}
      BY <1>3 DEF BeginFlush, Measuring
    <2> QED BY <1>0, <2>1 DEF DiskInv, Measuring, IndexMatchesDisk
  <1>4. CASE EndFlush
    <2>1. ~Measuring /\ agent'.pc = "poll" /\ agent'.todo = {} /\ crashes' = crashes
      BY <1>4 DEF EndFlush, Idle, Measuring
    <2> QED BY <1>0, <2>1 DEF DiskInv, Measuring, IndexMatchesDisk
  <1>5. CASE Crash
    <2>1. agent'.pc = "down" /\ agent'.todo = {} /\ crashes' > 0
      BY <1>0, <1>5, PcsTyped DEF Crash, Idle
    <2> QED BY <1>0, <2>1 DEF DiskInv, Measuring, IndexMatchesDisk
  <1> QED BY <1>1, <1>2, <1>3, <1>4, <1>5 DEF Moves

LEMMA MarksMatch ==
  ASSUME TypeOK, DiskInv, IndexMatchesDisk, UNCHANGED <<place, written, crashes>>,
         NEW state \in {"completed", "reported", "failed"}, NEW pc \in Pcs,
         index' = Marked(state, agent.run), Goto(pc), agent.run \in Runs,
         state = "completed" => agent.run \in written,
         state = "reported" => place[agent.run] = "sent",
         state = "failed" => place[agent.run] = "failed",
         \/ pc \in {"gate", "flush"}
         \/ pc = "publish" /\ agent.pc = "count_again"
  PROVE  DiskInv' /\ IndexMatchesDisk'
  <1>1. index'.state = state /\ index'.run = agent.run
    BY MarkedFacts, PcsTyped
  <1>2. agent'.pc = pc /\ agent'.run = agent.run /\ agent'.todo = agent.todo
    BY GotoFacts
  <1>3. DiskInv'
    BY <1>1, <1>2 DEF DiskInv, Measuring
  <1>4. IndexMatchesDisk'
    BY <1>1 DEF IndexMatchesDisk
  <1> QED BY <1>3, <1>4

(* A run in pending/ is moved: the record says nothing of it yet.           *)
LEMMA MovedMatches ==
  ASSUME TypeOK, DiskInv, IndexMatchesDisk, ~Measuring,
         UNCHANGED <<index, written, crashes>>,
         NEW r \in Runs, r \in written, place[r] = "pending",
         NEW d \in {"sent", "failed"}, place' = [place EXCEPT ![r] = d],
         agent'.pc = d, agent'.run = r, agent'.todo \subseteq agent.todo \ {r}
  PROVE  DiskInv' /\ IndexMatchesDisk'
  <1>1. place'[r] = d /\ \A q \in Runs \ {r} : place'[q] = place[q]
    BY DEF TypeOK
  <1>2. \A q \in agent.todo : q \in Runs
    BY DEF TypeOK
  <1>3. DiskInv'
    BY <1>1, <1>2 DEF DiskInv, Measuring
  <1>4. IndexMatchesDisk'
    BY <1>1 DEF IndexMatchesDisk, DiskInv, Measuring
  <1> QED BY <1>3, <1>4

LEMMA DiskStep ==
  ASSUME TypeOK, DiskInv, IndexMatchesDisk, [Next]_vars
  PROVE  DiskInv' /\ IndexMatchesDisk'
  <1>1. CASE UNCHANGED vars
    BY <1>1 DEF vars, diskVars, DiskInv, Measuring, IndexMatchesDisk
  <1>2. CASE Moves
    BY <1>2, MovesMatch
  <1>3. CASE Begin
    <2>1. PICK r \in Runs : /\ index' = Marked("in_progress", r)
                            /\ agent' = [agent EXCEPT !.pc = "start", !.run = r]
      BY <1>3 DEF Begin
    <2>2. index'.state = "in_progress" /\ index'.run = r
      BY <2>1, MarkedFacts, PcsTyped
    <2>3. agent'.pc = "start" /\ agent'.run = r /\ agent'.todo = agent.todo
      BY <2>1 DEF TypeOK
    <2>4. UNCHANGED <<place, written>>
      BY <1>3 DEF Begin
    <2> QED BY <2>2, <2>3, <2>4 DEF DiskInv, Measuring, IndexMatchesDisk
  <1>4. CASE StartRun
    <2>1. agent'.pc = "measure" /\ agent'.run = agent.run /\ agent'.todo = agent.todo
      BY <1>4, GotoFacts, PcsTyped DEF StartRun
    <2>2. \A r \in agent.todo : place'[r] = "pending"
      BY <1>4 DEF StartRun, TypeOK, DiskInv
    <2> QED BY <1>4, <2>1, <2>2 DEF StartRun, DiskInv, Measuring, IndexMatchesDisk
  <1>5. CASE WriteReport
    <2>1. agent'.pc = "count" /\ agent'.run = agent.run /\ agent'.todo = agent.todo
      BY <1>5, GotoFacts, PcsTyped DEF WriteReport
    <2> QED BY <1>5, <2>1 DEF WriteReport, DiskInv, Measuring, IndexMatchesDisk
  <1>6. CASE Count
    <2>1. agent.run \in Runs /\ agent.run \in written
      BY <1>6 DEF Count, DiskInv, Measuring
    <2> QED BY <1>6, <2>1, MarksMatch, PcsTyped DEF Count
  <1>7. CASE RecordFailed
    BY <1>7, MarksMatch, PcsTyped DEF RecordFailed, DiskInv
  <1>8. CASE RecordSent
    BY <1>8, MarksMatch, PcsTyped DEF RecordSent, DiskInv
  <1>9. CASE CountAgain
    <2>1. PICK pc \in {"flush", "publish"} : Goto(pc)
      BY <1>9 DEF CountAgain
    <2>2. agent.run \in Runs /\ agent.run \in written
      BY <1>9 DEF CountAgain, DiskInv
    <2> QED BY <1>9, <2>1, <2>2, MarksMatch, PcsTyped DEF CountAgain
  <1>10. ASSUME NEW r \in Runs, Quarantine(r)
         PROVE  DiskInv' /\ IndexMatchesDisk'
    <2>1. agent'.pc = "failed" /\ agent'.run = r /\ agent'.todo = agent.todo \ {r}
      BY <1>10 DEF Quarantine, TypeOK
    <2>2. r \in written /\ place[r] = "pending" /\ ~Measuring
      BY <1>10 DEF Quarantine, DiskInv, Measuring
    <2> QED BY <1>10, <2>1, <2>2, MovedMatches DEF Quarantine
  <1>11. ASSUME NEW r \in Runs, Replay(r)
         PROVE  DiskInv' /\ IndexMatchesDisk'
    <2>1. PICK pc \in {"count_again", "publish"} :
            agent' = [agent EXCEPT !.pc = pc, !.run = r, !.todo = @ \ {r}]
      BY <1>11 DEF Replay
    <2>2. agent'.pc = pc /\ agent'.run = r /\ agent'.todo = agent.todo \ {r}
      BY <2>1 DEF TypeOK
    <2>3. r \in agent.todo /\ ~Measuring /\ UNCHANGED <<index, place, written, crashes>>
      BY <1>11 DEF Replay, Measuring
    <2> QED BY <2>2, <2>3 DEF DiskInv, Measuring, IndexMatchesDisk
  <1>12. ASSUME NEW r \in Runs, Corrupt(r)
         PROVE  DiskInv' /\ IndexMatchesDisk'
    BY <1>12 DEF Corrupt, DiskInv, Measuring, IndexMatchesDisk
  <1>13. CASE Publish
    <2>1. /\ agent.pc = "publish" /\ ~Measuring /\ agent.run \in Runs /\ agent.run \notin agent.todo
          /\ place[agent.run] = "pending" /\ agent.run \in written
      BY <1>13 DEF Publish, DiskInv, Measuring
    <2>2. CASE place' = [place EXCEPT ![agent.run] = "sent"] /\ Goto("sent")
      <3>1. agent'.pc = "sent" /\ agent'.run = agent.run /\ agent'.todo = agent.todo
        BY <2>2, GotoFacts, PcsTyped
      <3> QED BY <1>13, <2>1, <2>2, <3>1, MovedMatches DEF Publish
    <2>3. CASE Goto("flush") /\ UNCHANGED place
      <3>1. agent'.pc = "flush" /\ agent'.run = agent.run /\ agent'.todo = agent.todo
        BY <2>3, GotoFacts, PcsTyped
      <3> QED BY <1>13, <2>1, <2>3, <3>1 DEF Publish, DiskInv, Measuring, IndexMatchesDisk
    <2> QED BY <1>13, <2>2, <2>3 DEF Publish
  <1>14. [Next]_vars => Next \/ UNCHANGED vars
    OBVIOUS
  <1> QED BY <1>1, <1>2, <1>3, <1>4, <1>5, <1>6, <1>7, <1>8, <1>9, <1>10, <1>11, <1>12, <1>13, <1>14,
             Actions, Zenon DEF Moves

LEMMA IndexInvariant == Spec => [](TypeOK /\ DiskInv /\ IndexMatchesDisk)
  <1>1. Init => DiskInv /\ IndexMatchesDisk
    BY DEF Init, Idle, DiskInv, Measuring, IndexMatchesDisk
  <1> QED BY <1>1, TypeInit, TypeStep, DiskStep, PTL DEF Spec

(* The record, the directories, the clock and the agent keep their types.   *)
THEOREM TypeCorrect == Spec => []TypeOK
  BY IndexInvariant, PTL

(* Whenever the agent stops between two of its writes, the record claims no *)
(* more than the disk holds: a run it calls reported, failed or completed   *)
(* is where that leaves it.                                                 *)
THEOREM RecordNeverAhead == Spec => []IndexMatchesDisk
  BY IndexInvariant, PTL

-------------------------------------------------------------------------------
(* The interval of a recurring policy.                                      *)

(* Runs are started in turn; a run is counted after it was measured; the    *)
(* record remembers the end of every counted run, and an execution in       *)
(* progress was begun in time.                                              *)
TimeInv ==
  /\ now >= 1 /\ index.startedAt <= now /\ index.completedAt <= now
  /\ \E n \in Nat : Started = 1..n
  /\ written \subseteq Started
  /\ Measuring => agent.run \in Started
  /\ agent.pc \in {"start", "measure"} => ~history[agent.run].counted
  /\ \A r \in Runs : history[r].start <= now /\ history[r].finish <= now
  /\ \A r \in Runs : history[r].counted =>
       /\ r \in Started
       /\ index.state # "none" /\ index.completedAt >= 1
       /\ history[r].finish <= index.completedAt
       /\ index.state = "in_progress" /\ Mode = "recurring" =>
            index.startedAt >= history[r].finish + Interval

PolicyFacts == Interval \in Nat

LEMMA PolicyTyped == TypeOK => PolicyFacts
  BY DEF TypeOK, PolicyFacts, PolicyType, Interval

(* An execution that is not skipped keeps the interval.                     *)
LEMMA NotSkippedInTime ==
  ASSUME TypeOK, TimeInv, ~Skipped, NEW s \in Runs, history[s].counted, Mode = "recurring"
  PROVE  now >= history[s].finish + Interval
  <1>1. /\ index \in IndexType /\ now \in Nat /\ Interval \in Nat
        /\ history[s] \in [start: Nat, finish: Nat, counted: BOOLEAN]
    BY PolicyTyped, HistoryFacts DEF PolicyFacts, TypeOK, IndexType
  <1>2. /\ index.startedAt \in Nat /\ index.completedAt \in Nat /\ history[s].finish \in Nat
    BY <1>1 DEF IndexType
  <1>3. /\ index.state # "none" /\ index.completedAt >= 1 /\ index.startedAt <= now
        /\ history[s].finish <= index.completedAt
        /\ index.state = "in_progress" => index.startedAt >= history[s].finish + Interval
    BY DEF TimeInv
  <1>4. CASE index.state = "in_progress"
    BY <1>1, <1>2, <1>3, <1>4
  <1>5. CASE index.state # "in_progress"
    <2>1. ~NotDue
      BY <1>3 DEF Skipped
    <2>2. LastCompleted = index.completedAt
      BY <1>2, <1>3 DEF LastCompleted, Never
    <2>3. ~(now < index.completedAt + Interval)
      BY <1>2, <1>3, <1>5, <2>1, <2>2 DEF NotDue, Never
    <2> QED BY <1>1, <1>2, <1>3, <2>3
  <1> QED BY <1>4, <1>5

(* Only Begin starts a run.                                                 *)
LEMMA StartsElsewhere ==
  ASSUME TypeOK, [Next]_vars, ~Begin
  PROVE  /\ \A q \in Runs : history'[q].start = history[q].start
         /\ Started' = Started
  <1>1. \A q \in Runs : history'[q].start = history[q].start
    <2>1. CASE history' = history
      BY <2>1
    <2>2. CASE WriteReport \/ Count \/ CountAgain \/ RecordSent
      BY <2>2 DEF WriteReport, Count, CountAgain, RecordSent, TypeOK
    <2>3. CASE \/ RecordFailed \/ StartRun \/ Publish
               \/ \E r \in Runs : Quarantine(r) \/ Replay(r) \/ Corrupt(r)
      BY <2>3 DEF RecordFailed, StartRun, Publish, Quarantine, Replay, Corrupt
    <2>4. CASE Moves
      BY <2>4, MovesTyped
    <2>5. CASE UNCHANGED vars
      BY <2>5 DEF vars
    <2> QED BY <2>1, <2>2, <2>3, <2>4, <2>5, Actions DEF Moves
  <1> QED BY <1>1 DEF Started

(* A step that neither starts, measures nor records a run.                  *)
LEMMA TimePasses ==
  ASSUME TypeOK, TimeInv, UNCHANGED <<policy, index, history, written>>,
         now' \in Nat, now <= now',
         Measuring' => Measuring /\ agent'.run = agent.run,
         agent'.pc \in {"start", "measure"} => agent.pc \in {"start", "measure"} /\ agent'.run = agent.run
  PROVE  TimeInv'
  <1>1. /\ index.startedAt \in Nat /\ index.completedAt \in Nat /\ now \in Nat
        /\ \A r \in Runs : history[r].start \in Nat /\ history[r].finish \in Nat
    BY HistoryFacts DEF TypeOK
  <1>2. Started' = Started
    BY DEF Started
  <1>3. /\ now' >= 1 /\ index.startedAt <= now' /\ index.completedAt <= now'
        /\ \A r \in Runs : history[r].start <= now' /\ history[r].finish <= now'
    BY <1>1 DEF TimeInv
  <1> QED BY <1>2, <1>3 DEF TimeInv, Mode, Interval

(* A mark of the record, of a run that has been started.                    *)
LEMMA MarksInTime ==
  ASSUME TypeOK, TimeInv, UNCHANGED <<policy, now, written>>,
         NEW state \in {"completed", "reported", "failed"}, NEW pc \in {"gate", "flush", "publish"},
         index' = Marked(state, agent.run), Goto(pc), agent.run \in Runs,
         \/ history' = history
         \/ /\ history' = [history EXCEPT ![agent.run].counted = TRUE]
            /\ agent.run \in Started /\ state # "failed"
  PROVE  TimeInv'
  <1>1. /\ index.startedAt \in Nat /\ index.completedAt \in Nat /\ now \in Nat
        /\ \A r \in Runs : history[r].start \in Nat /\ history[r].finish \in Nat
    BY HistoryFacts DEF TypeOK
  <1>2. /\ index'.state = state /\ index'.startedAt = index.startedAt
        /\ index'.completedAt = IF state = "failed" THEN index.completedAt ELSE now
    BY MarkedFacts, PcsTyped
  <1>3. agent'.pc = pc
    BY GotoFacts, PcsTyped
  <1>4. \A r \in Runs : /\ history'[r].start = history[r].start
                        /\ history'[r].finish = history[r].finish
                        /\ history'[r].counted =>
                             history[r].counted \/ (r = agent.run /\ r \in Started /\ state # "failed")
    BY DEF TypeOK
  <1>5. Started' = Started
    BY <1>4 DEF Started
  <1>6. ASSUME NEW r \in Runs, history'[r].counted
        PROVE  r \in Started /\ index'.completedAt >= 1 /\ history'[r].finish <= index'.completedAt
    <2>1. r \in Started
      BY <1>4, <1>6 DEF TimeInv
    <2>2. CASE state = "failed"
      BY <1>2, <1>4, <1>6, <2>2 DEF TimeInv
    <2>3. CASE state # "failed"
      <3>1. index'.completedAt = now /\ history'[r].finish = history[r].finish
        BY <1>2, <1>4, <2>3
      <3>2. now >= 1 /\ history[r].finish <= now
        BY DEF TimeInv
      <3> QED BY <2>1, <3>1, <3>2
    <2> QED BY <2>1, <2>2, <2>3
  <1>7. index'.startedAt <= now /\ index'.completedAt <= now
    BY <1>1, <1>2 DEF TimeInv
  <1>8. ~Measuring'
    BY <1>3 DEF Measuring
  <1> QED BY <1>2, <1>3, <1>4, <1>5, <1>6, <1>7, <1>8 DEF TimeInv

LEMMA BeginInTime ==
  ASSUME TypeOK, TimeInv, UNCHANGED policy, Begin
  PROVE  TimeInv'
  <1>1. PICK r \in Runs : /\ r = Cardinality(Started) + 1
                          /\ index' = Marked("in_progress", r)
                          /\ agent' = [agent EXCEPT !.pc = "start", !.run = r]
                          /\ history' = [history EXCEPT ![r].start = now]
    BY DEF Begin
  <1>2. PICK n \in Nat : Started = 1..n
    BY DEF TimeInv
  <1>3. r = n + 1 /\ r \notin Started
    <2>1. Cardinality(1..n) = n
      BY <1>2, FS_Interval
    <2> QED BY <1>1, <1>2, <2>1
  <1>4. /\ history'[r].start = now /\ history'[r].finish = history[r].finish
        /\ \A q \in Runs : history'[q].counted = history[q].counted
        /\ \A q \in Runs \ {r} : history'[q] = history[q]
    BY <1>1 DEF TypeOK
  <1>5. now \in Nat /\ now >= 1
    BY DEF TypeOK, TimeInv
  <1>6. Started' = Started \union {r}
    BY <1>4, <1>5 DEF Started, Never
  <1>7. Started' = 1..(n + 1)
    BY <1>2, <1>3, <1>6
  <1>8. /\ index'.state = "in_progress" /\ index'.startedAt = now
        /\ index'.completedAt = index.completedAt
    BY <1>1, MarkedFacts, PcsTyped
  <1>9. agent'.pc = "start" /\ agent'.run = r
    BY <1>1 DEF TypeOK
  <1>10. ~history'[r].counted
    BY <1>3, <1>4 DEF TimeInv
  <1>11. ASSUME NEW q \in Runs, history'[q].counted
         PROVE  /\ q \in Started' /\ index'.completedAt >= 1
                /\ history'[q].finish <= index'.completedAt
                /\ Mode = "recurring" => now >= history'[q].finish + Interval
    <2>1. history[q].counted /\ q # r /\ history'[q] = history[q]
      BY <1>4, <1>10, <1>11
    <2> QED BY <1>6, <1>8, <2>1, NotSkippedInTime DEF TimeInv, Begin
  <1>12. \A q \in Runs : history'[q].start <= now /\ history'[q].finish <= now
    BY <1>4, <1>5 DEF TimeInv
  <1>13. UNCHANGED <<now, written, Mode, Interval>> /\ written \subseteq Started'
    BY <1>6 DEF Begin, TimeInv, Mode, Interval
  <1>14. index.completedAt <= now /\ now <= now
    BY <1>5 DEF TimeInv
  <1>15. n + 1 \in Nat
    OBVIOUS
  <1> HIDE DEF Mode, Interval
  <1> QED BY <1>5, <1>6, <1>7, <1>8, <1>9, <1>10, <1>11, <1>12, <1>13, <1>14, <1>15 DEF TimeInv

LEMMA WriteReportInTime ==
  ASSUME TypeOK, TimeInv, UNCHANGED policy, WriteReport
  PROVE  TimeInv'
  <1>1. /\ agent'.pc = "count" /\ agent'.run = agent.run
    BY GotoFacts, PcsTyped DEF WriteReport
  <1>2. agent.run \in Started /\ ~history[agent.run].counted
    BY DEF WriteReport, TimeInv, Measuring
  <1>3. /\ history'[agent.run].finish = now /\ \A q \in Runs \ {agent.run} : history'[q] = history[q]
        /\ \A q \in Runs : /\ history'[q].start = history[q].start
                           /\ history'[q].counted = history[q].counted
    BY <1>2 DEF WriteReport, TypeOK, Started
  <1>4. Started' = Started
    BY <1>3 DEF Started
  <1>5. UNCHANGED <<now, index, Mode, Interval>> /\ written' = written \union {agent.run} /\ now \in Nat
    BY DEF WriteReport, Mode, Interval, TypeOK
  <1>6. written' \subseteq Started'
    BY <1>2, <1>4, <1>5 DEF TimeInv
  <1>7. \A q \in Runs : history'[q].start <= now /\ history'[q].finish <= now
    BY <1>3, <1>5 DEF TimeInv
  <1>8. ASSUME NEW q \in Runs, history'[q].counted
        PROVE  history[q].counted /\ history'[q].finish = history[q].finish
    BY <1>2, <1>3, <1>8
  <1> QED BY <1>1, <1>2, <1>3, <1>4, <1>5, <1>6, <1>7, <1>8 DEF TimeInv

LEMMA TimeStep ==
  ASSUME TypeOK, DiskInv, TimeInv, [Next]_vars
  PROVE  TimeInv'
  <1>0. /\ UNCHANGED policy
        /\ now \in Nat /\ now <= now
        /\ written \subseteq Runs
    BY Actions DEF vars, TypeOK
  <1>1. CASE UNCHANGED vars
    BY <1>0, <1>1, TimePasses DEF vars, diskVars, Measuring
  <1>2. CASE Tick
    BY <1>0, <1>2, TimePasses DEF Tick, diskVars, Measuring
  <1>3. CASE Moves /\ ~Tick
    <2>1. UNCHANGED <<now, index, written, history>>
      BY <1>3, MovesTyped DEF Moves, GetPolicy, NoPolicy, Decline, GateClosed, BeginFlush, EndFlush,
            Crash, Restart, diskVars
    <2>2. agent'.pc \in {"decide", "gate", "poll", "flush", "down"}
      <3>1. CASE GetPolicy \/ NoPolicy \/ Decline \/ GateClosed \/ Restart
        BY <3>1, GotoFacts, PcsTyped DEF GetPolicy, NoPolicy, Decline, GateClosed, Restart
      <3>2. CASE BeginFlush
        BY <3>2 DEF BeginFlush
      <3>3. CASE EndFlush \/ Crash
        BY <3>3 DEF EndFlush, Crash, Idle
      <3> QED BY <1>3, <3>1, <3>2, <3>3 DEF Moves
    <2> QED BY <1>0, <2>1, <2>2, TimePasses DEF Measuring
  <1>4. CASE Begin
    BY <1>0, <1>4, BeginInTime
  <1>5. CASE StartRun
    <2>1. agent.pc = "start" /\ agent'.run = agent.run
      BY <1>5, GotoFacts, PcsTyped DEF StartRun
    <2> QED BY <1>0, <1>5, <2>1, TimePasses DEF StartRun, Measuring
  <1>6. CASE WriteReport
    BY <1>0, <1>6, WriteReportInTime
  <1>7. CASE Count
    <2>1. agent.run \in Runs /\ agent.run \in Started
      BY <1>7 DEF Count, TimeInv, DiskInv, Measuring
    <2> QED BY <1>0, <1>7, <2>1, MarksInTime DEF Count
  <1>8. CASE RecordFailed
    BY <1>0, <1>8, MarksInTime DEF RecordFailed, DiskInv
  <1>9. CASE RecordSent
    <2>1. agent.run \in Runs /\ agent.run \in Started
      BY <1>9 DEF RecordSent, TimeInv, DiskInv
    <2> QED BY <1>0, <1>9, <2>1, MarksInTime DEF RecordSent
  <1>10. CASE CountAgain
    <2>1. PICK pc \in {"flush", "publish"} : Goto(pc)
      BY <1>10 DEF CountAgain
    <2>2. agent.run \in Runs /\ agent.run \in Started
      BY <1>10 DEF CountAgain, TimeInv, DiskInv
    <2> QED BY <1>0, <1>10, <2>1, <2>2, MarksInTime DEF CountAgain
  <1>11. ASSUME NEW r \in Runs, Quarantine(r) \/ Replay(r) \/ Corrupt(r)
         PROVE  TimeInv'
    <2>1. UNCHANGED <<now, index, written, history>>
      BY <1>11 DEF Quarantine, Replay, Corrupt
    <2>2. agent'.pc \in {"failed", "count_again", "publish"} \/ agent' = agent
      BY <1>11 DEF Quarantine, Replay, Corrupt, TypeOK
    <2> QED BY <1>0, <2>1, <2>2, TimePasses DEF Measuring
  <1>12. CASE Publish
    <2>1. agent'.pc \in {"sent", "flush"}
      BY <1>12, GotoFacts, PcsTyped DEF Publish
    <2> QED BY <1>0, <1>12, <2>1, TimePasses DEF Publish, Measuring
  <1> QED BY <1>1, <1>2, <1>3, <1>4, <1>5, <1>6, <1>7, <1>8, <1>9, <1>10, <1>11, <1>12, Actions
          DEF Moves

LEMMA IntervalLemma ==
  ASSUME TypeOK, TimeInv, [Next]_vars
  PROVE  \A r, s \in Runs :
           r \in Started' \ Started /\ history[s].counted /\ Mode = "recurring"
             => now >= history[s].finish + Interval
  <1>1. CASE Begin
    BY <1>1, NotSkippedInTime DEF Begin
  <1>2. CASE ~Begin
    BY <1>2, StartsElsewhere
  <1> QED BY <1>1, <1>2

LEMMA TimeInit == Init => TimeInv
  <1> SUFFICES ASSUME Init PROVE TimeInv
    OBVIOUS
  <1>1. Started = {} /\ Started = 1..0
    BY DEF Init, Started, Never
  <1>2. \A r \in Runs : history[r] = [start |-> 0, finish |-> 0, counted |-> FALSE]
    BY DEF Init, Never
  <1>3. now = 1 /\ index.startedAt = 0 /\ index.completedAt = 0 /\ written = {} /\ agent.pc = "gate"
    BY DEF Init, Never, Idle
  <1>4. 0 \in Nat /\ 0 <= 1 /\ 1 >= 1
    OBVIOUS
  <1> QED BY <1>1, <1>2, <1>3, <1>4 DEF TimeInv, Measuring

(* Two runs of a recurring policy keep its interval, for any policies, any  *)
(* number of runs, crashes, replays and quarantined reports.                *)
THEOREM IntervalIsKept == Spec => RunsKeepInterval
  <1>1. Init => TimeInv
    BY TimeInit
  <1>2. TypeOK /\ TimeInv /\ [Next]_vars =>
          [\A r, s \in Runs :
             r \in Started' \ Started /\ history[s].counted /\ Mode = "recurring"
               => now >= history[s].finish + Interval]_vars
    BY IntervalLemma
  <1> QED BY <1>1, <1>2, IndexInvariant, TimeStep, PTL DEF Spec, RunsKeepInterval

-------------------------------------------------------------------------------
(* How many runs there are.                                                 *)

(* The runs the policy asks for, if it limits them.                         *)
Limited == Mode = "once" \/ MaxRuns > 0
Limit == IF Mode = "once" THEN 1 ELSE MaxRuns

Open == IF Measuring THEN 1 ELSE 0
Abandoned == IF index.state = "in_progress" /\ ~Measuring THEN 1 ELSE 0

(* Every run that was started is counted, under way, or was lost to a       *)
(* crash; and one that the record still calls in progress, while no run is  *)
(* under way, was lost to one that no other run accounts for.               *)
CountInv ==
  /\ index.state = "none" => Cardinality(Started) = 0
  /\ Cardinality(Started) <= index.completedRuns + crashes + Open
  /\ Limited => Cardinality(Started) + Abandoned <= Limit + crashes
  /\ CountMissesOnlyCrashes

LEMMA CountTyped ==
  ASSUME TypeOK
  PROVE  /\ Cardinality(Started) \in Nat /\ Cardinality(Started) <= MaxCount
         /\ Cardinality(Finished) \in Nat /\ Cardinality(Finished) <= MaxCount
         /\ IsFiniteSet(Finished) /\ IsFiniteSet(Started)
         /\ index.completedRuns \in 0..MaxCount /\ crashes \in Nat
         /\ MaxRuns \in Nat /\ (Mode = "once" \/ Mode = "recurring") /\ Limit \in Nat
  <1>1. IsFiniteSet(Runs) /\ Cardinality(Runs) <= MaxStarts
    <2>1. MaxStarts \in Nat /\ MaxStarts \in Int /\ 1 \in Int
      OBVIOUS
    <2>2. IsFiniteSet(1..MaxStarts) /\ Cardinality(1..MaxStarts) = IF 1 > MaxStarts THEN 0 ELSE MaxStarts - 1 + 1
      BY <2>1, FS_Interval
    <2> QED BY <2>1, <2>2 DEF Runs
  <1>2. Started \subseteq Runs /\ Finished \subseteq Runs
    BY DEF Started, Finished
  <1>3. /\ IsFiniteSet(Started) /\ Cardinality(Started) <= Cardinality(Runs)
        /\ IsFiniteSet(Finished) /\ Cardinality(Finished) <= Cardinality(Runs)
    BY <1>1, <1>2, FS_Subset
  <1>4. Cardinality(Started) \in Nat /\ Cardinality(Finished) \in Nat /\ Cardinality(Runs) \in Nat
    BY <1>1, <1>3, FS_CardinalityType
  <1>5. policy.mode \in {"once", "recurring"} /\ policy.maxRuns \in 0..MaxCount
    BY DEF TypeOK, PolicyType
  <1>6. index.completedRuns \in 0..MaxCount /\ crashes \in 0..MaxFaults
    BY DEF TypeOK
  <1> QED BY <1>1, <1>3, <1>4, <1>5, <1>6 DEF Mode, MaxRuns, Limit

LEMMA CountInit == Init => CountInv
  <1> SUFFICES ASSUME Init PROVE CountInv
    OBVIOUS
  <1>1. Started = {} /\ Finished = {} /\ Cardinality({}) = 0
    BY FS_EmptySet DEF Init, Started, Finished, Never
  <1>2. index.state = "none" /\ index.completedRuns = 0 /\ crashes = 0 /\ agent.pc = "gate"
    BY DEF Init, Idle
  <1>3. Limit \in Nat
    BY CountTyped, TypeInit
  <1> QED BY <1>1, <1>2, <1>3 DEF CountInv, CountMissesOnlyCrashes, Open, Abandoned, Measuring

(* A step that counts nothing.                                              *)
LEMMA QuietCounts ==
  ASSUME TypeOK, CountInv, UNCHANGED <<policy, index, history, crashes>>,
         Measuring' <=> Measuring, agent.pc = "count" => agent'.pc = "count"
  PROVE  CountInv'
  <1>1. UNCHANGED <<Started, Finished, Open, Abandoned, Limited, Limit>>
    BY DEF Started, Finished, Open, Abandoned, Limited, Limit, Mode, MaxRuns
  <1>2. (IF agent.pc = "count" THEN 1 ELSE 0) <= (IF agent'.pc = "count" THEN 1 ELSE 0)
    OBVIOUS
  <1>3. CountMissesOnlyCrashes'
    BY <1>1, <1>2, CountTyped DEF CountInv, CountMissesOnlyCrashes
  <1> QED BY <1>1, <1>3 DEF CountInv

LEMMA CrashCounts ==
  ASSUME TypeOK, CountInv, UNCHANGED policy, Crash
  PROVE  CountInv'
  <1>1. UNCHANGED <<Started, Finished, Limited, Limit>> /\ index' = index /\ crashes' = crashes + 1
    BY DEF Crash, diskVars, Started, Finished, Limited, Limit, Mode, MaxRuns
  <1>2. agent'.pc = "down"
    BY DEF Crash, Idle
  <1>3. Open' = 0 /\ Open <= 1 /\ Abandoned' <= Abandoned + 1 /\ Abandoned' \in Nat /\ Abandoned \in Nat /\ Open \in Nat
    BY <1>2 DEF Open, Abandoned, Measuring
  <1>4. CountMissesOnlyCrashes'
    BY <1>1, <1>2, CountTyped DEF CountInv, CountMissesOnlyCrashes
  <1> QED BY <1>1, <1>3, <1>4, CountTyped DEF CountInv

LEMMA BeginCounts ==
  ASSUME TypeOK, TimeInv, CountInv, UNCHANGED policy, Begin
  PROVE  CountInv'
  <1>1. PICK r \in Runs : /\ r = Cardinality(Started) + 1
                          /\ index' = Marked("in_progress", r)
                          /\ agent' = [agent EXCEPT !.pc = "start", !.run = r]
                          /\ history' = [history EXCEPT ![r].start = now]
    BY DEF Begin
  <1>2. /\ index'.state = "in_progress" /\ index'.completedRuns = index.completedRuns
        /\ agent'.pc = "start" /\ agent.pc = "decide"
    BY <1>1, MarkedFacts, PcsTyped DEF Begin, TypeOK
  <1>3. /\ history'[r].start = now /\ now >= 1 /\ now \in Nat
        /\ \A q \in Runs : history'[q].finish = history[q].finish
        /\ \A q \in Runs \ {r} : history'[q] = history[q]
    BY <1>1 DEF TypeOK, TimeInv
  <1>4. Started' = Started \union {r} /\ Finished' = Finished
    BY <1>3 DEF Started, Finished, Never
  <1>5. Cardinality(Started') <= Cardinality(Started) + 1 /\ Cardinality(Started') \in Nat
    <2>1. IsFiniteSet(Started)
      BY CountTyped
    <2>2. /\ IsFiniteSet(Started') /\ Cardinality(Started') \in {Cardinality(Started), Cardinality(Started) + 1}
      BY <1>4, <2>1, FS_AddElement
    <2> QED BY <2>2, CountTyped
  <1>6. Open = 0 /\ Open' = 1 /\ Abandoned' = 0 /\ crashes' = crashes /\ UNCHANGED <<Limited, Limit, Mode, MaxRuns>>
    BY <1>2 DEF Begin, Open, Abandoned, Measuring, Limited, Limit, Mode, MaxRuns
  <1>7. Limited => Cardinality(Started) + 1 <= Limit + crashes
    <2>1. CASE index.state = "none"
      BY <2>1, CountTyped DEF CountInv, Limited, Limit
    <2>2. CASE index.state = "in_progress"
      BY <1>2, <2>2 DEF CountInv, Abandoned, Measuring
    <2>3. CASE index.state \notin {"none", "in_progress"} /\ Limited
      <3>1. ~DoneOnce /\ ~Exhausted /\ index.state \in States
        BY <2>3 DEF Begin, Skipped, TypeOK
      <3>2. Mode = "recurring" /\ MaxRuns > 0
        BY <2>3, <3>1, CountTyped DEF DoneOnce, States, Limited
      <3>3. ~(index.completedRuns >= MaxRuns)
        BY <2>3, <3>1, <3>2 DEF Exhausted
      <3> QED BY <1>6, <3>2, <3>3, CountTyped DEF CountInv, Limit
    <2> QED BY <2>1, <2>2, <2>3
  <1>8. CountMissesOnlyCrashes'
    BY <1>2, <1>4, <1>6 DEF CountInv, CountMissesOnlyCrashes
  <1> QED BY <1>2, <1>5, <1>6, <1>7, <1>8, CountTyped DEF CountInv

(* A mark other than that of a start.                                       *)
LEMMA MarksCount ==
  ASSUME TypeOK, CountInv, UNCHANGED <<policy, crashes>>, TypeOK',
         NEW state \in {"completed", "reported", "failed"}, NEW pc \in {"gate", "flush", "publish"},
         index' = Marked(state, agent.run), Goto(pc),
         Measuring => agent.pc = "count" /\ state = "completed",
         history' = history \/ history' = [history EXCEPT ![agent.run].counted = TRUE]
  PROVE  CountInv'
  <1>1. /\ index'.state = state
        /\ index'.completedRuns = IF state = "completed" /\ index.completedRuns < MaxCount
                                  THEN index.completedRuns + 1 ELSE index.completedRuns
    BY MarkedFacts, PcsTyped DEF TypeOK
  <1>2. agent'.pc = pc
    BY GotoFacts, PcsTyped
  <1>3. UNCHANGED <<Started, Finished, Limited, Limit>>
    <2>1. \A q \in Runs : history'[q].start = history[q].start /\ history'[q].finish = history[q].finish
      BY DEF TypeOK
    <2> QED BY <2>1 DEF Started, Finished, Limited, Limit, Mode, MaxRuns
  <1>4. Open' = 0 /\ Abandoned' = 0 /\ Abandoned \in Nat
    BY <1>1, <1>2 DEF Open, Abandoned, Measuring
  <1>5. CASE index.completedRuns = MaxCount
    <2>1. index'.completedRuns = MaxCount
      BY <1>1, <1>5, CountTyped
    <2>2. CountMissesOnlyCrashes'
      BY <1>2, <1>3, <2>1, CountTyped DEF CountMissesOnlyCrashes
    <2> QED BY <1>1, <1>3, <1>4, <2>1, <2>2, CountTyped DEF CountInv
  <1>6. CASE index.completedRuns # MaxCount
    <2>1. /\ index.completedRuns < MaxCount
          /\ index'.completedRuns = index.completedRuns + (IF state = "completed" THEN 1 ELSE 0)
      BY <1>1, <1>6, CountTyped
    <2>2. /\ Open <= (IF state = "completed" THEN 1 ELSE 0)
          /\ (IF agent.pc = "count" THEN 1 ELSE 0) <= (IF state = "completed" THEN 1 ELSE 0)
      BY DEF Open, Measuring
    <2>3. CountMissesOnlyCrashes'
      BY <1>2, <1>3, <2>1, <2>2, CountTyped DEF CountInv, CountMissesOnlyCrashes
    <2> QED BY <1>1, <1>3, <1>4, <2>1, <2>2, <2>3, CountTyped DEF CountInv, Open
  <1> QED BY <1>5, <1>6

LEMMA WriteReportCounts ==
  ASSUME TypeOK, CountInv, UNCHANGED policy, WriteReport
  PROVE  CountInv'
  <1>1. agent'.pc = "count" /\ agent.pc = "measure"
    BY GotoFacts, PcsTyped DEF WriteReport
  <1>2. history' = [history EXCEPT ![agent.run].finish = now] /\ UNCHANGED <<index, crashes>>
    BY DEF WriteReport
  <1>3. /\ \A q \in Runs : history'[q].start = history[q].start
        /\ \A q \in Runs \ {agent.run} : history'[q].finish = history[q].finish
    BY <1>2 DEF TypeOK
  <1>4. UNCHANGED <<Started, Open, Abandoned, Limited, Limit>>
    BY <1>1, <1>2, <1>3 DEF Started, Open, Abandoned, Measuring, Limited, Limit, Mode, MaxRuns
  <1>5. Finished' \subseteq Finished \union {agent.run}
    BY <1>3 DEF Finished
  <1>6. Cardinality(Finished') <= Cardinality(Finished) + 1
    <2>1. IsFiniteSet(Finished) /\ Cardinality(Finished) \in Nat
      BY CountTyped
    <2>2. /\ IsFiniteSet(Finished \union {agent.run})
          /\ Cardinality(Finished \union {agent.run}) \in {Cardinality(Finished), Cardinality(Finished) + 1}
      BY <2>1, FS_AddElement
    <2>3. IsFiniteSet(Finished') /\ Cardinality(Finished') <= Cardinality(Finished \union {agent.run})
      BY <1>5, <2>2, FS_Subset
    <2>4. Cardinality(Finished') \in Nat
      BY <2>3, FS_CardinalityType
    <2> QED BY <2>1, <2>2, <2>3, <2>4
  <1>7. CountMissesOnlyCrashes'
    <2>1. Cardinality(Finished) <= index.completedRuns + crashes
      BY <1>1, CountTyped DEF CountInv, CountMissesOnlyCrashes
    <2>2. Cardinality(Finished') \in Nat
      <3>1. IsFiniteSet(Finished \union {agent.run})
        BY CountTyped, FS_AddElement
      <3> QED BY <1>5, <3>1, FS_Subset, FS_CardinalityType
    <2> QED BY <1>1, <1>2, <1>6, <2>1, <2>2, CountTyped DEF CountMissesOnlyCrashes
  <1> QED BY <1>2, <1>4, <1>7 DEF CountInv

LEMMA CountStep ==
  ASSUME TypeOK, DiskInv, TimeInv, CountInv, TypeOK', [Next]_vars
  PROVE  CountInv'
  <1>0. UNCHANGED policy
    BY Actions DEF vars
  <1>1. CASE UNCHANGED vars
    BY <1>0, <1>1, QuietCounts DEF vars, diskVars, Measuring
  <1>2. CASE Tick
    BY <1>0, <1>2, QuietCounts DEF Tick, diskVars, Measuring
  <1>3. CASE GetPolicy \/ NoPolicy \/ Decline \/ GateClosed \/ Restart
    <2>1. agent.pc \notin {"start", "measure", "count"} /\ agent'.pc \notin {"start", "measure", "count"}
      BY <1>3, GotoFacts, PcsTyped DEF GetPolicy, NoPolicy, Decline, GateClosed, Restart
    <2> QED BY <1>0, <1>3, <2>1, QuietCounts
            DEF GetPolicy, NoPolicy, Decline, GateClosed, Restart, Measuring, diskVars
  <1>4. CASE BeginFlush
    BY <1>0, <1>4, QuietCounts DEF BeginFlush, Measuring, diskVars
  <1>5. CASE EndFlush
    BY <1>0, <1>5, QuietCounts DEF EndFlush, Idle, Measuring, diskVars
  <1>6. CASE Crash
    BY <1>0, <1>6, CrashCounts
  <1>7. CASE Begin
    BY <1>0, <1>7, BeginCounts
  <1>8. CASE StartRun
    BY <1>0, <1>8, GotoFacts, PcsTyped, QuietCounts DEF StartRun, Measuring
  <1>9. CASE WriteReport
    BY <1>0, <1>9, WriteReportCounts
  <1>10. CASE Count
    BY <1>0, <1>10, MarksCount DEF Count
  <1>11. CASE RecordFailed
    BY <1>0, <1>11, MarksCount DEF RecordFailed, Measuring
  <1>12. CASE RecordSent
    BY <1>0, <1>12, MarksCount DEF RecordSent, Measuring
  <1>13. CASE CountAgain
    <2>1. PICK pc \in {"flush", "publish"} : Goto(pc)
      BY <1>13 DEF CountAgain
    <2> QED BY <1>0, <1>13, <2>1, MarksCount DEF CountAgain, Measuring
  <1>14. ASSUME NEW r \in Runs, Quarantine(r) \/ Replay(r) \/ Corrupt(r)
         PROVE  CountInv'
    <2>1. UNCHANGED <<index, history, crashes>>
      BY <1>14 DEF Quarantine, Replay, Corrupt
    <2>2. \/ agent.pc = "flush" /\ agent'.pc \in {"failed", "count_again", "publish"}
          \/ agent' = agent
      BY <1>14 DEF Quarantine, Replay, Corrupt, TypeOK
    <2> QED BY <1>0, <2>1, <2>2, QuietCounts DEF Measuring
  <1>15. CASE Publish
    <2>1. agent.pc = "publish" /\ agent'.pc \in {"sent", "flush"}
      BY <1>15, GotoFacts, PcsTyped DEF Publish
    <2> QED BY <1>0, <1>15, <2>1, QuietCounts DEF Publish, Measuring
  <1> QED BY <1>1, <1>2, <1>3, <1>4, <1>5, <1>6, <1>7, <1>8, <1>9, <1>10, <1>11, <1>12, <1>13,
             <1>14, <1>15, Actions

LEMMA CountAlways == Spec => [](TypeOK /\ CountInv)
  <1>1. Init => TimeInv
    BY TimeInit
  <1>2. TypeOK /\ DiskInv /\ IndexMatchesDisk /\ TimeInv /\ CountInv /\ [Next]_vars
          => TimeInv' /\ CountInv'
    BY TypeStep, TimeStep, CountStep
  <1> QED BY <1>1, <1>2, CountInit, IndexInvariant, PTL DEF Spec

(* A policy is executed as often as it asks for, once or max_runs times,    *)
(* and once more at most for every crash of the agent.                      *)
THEOREM ExtraRunsNeedCrashes == Spec => []StartsNeedCrashes
  <1>1. TypeOK /\ CountInv => StartsNeedCrashes
    <2> SUFFICES ASSUME TypeOK, CountInv PROVE StartsNeedCrashes
      OBVIOUS
    <2>1. Abandoned \in Nat
      BY DEF Abandoned
    <2> QED BY <2>1, CountTyped DEF CountInv, StartsNeedCrashes, Limited, Limit
  <1> QED BY <1>1, CountAlways, PTL

(* completed_runs misses a finished run only for a crash between the write  *)
(* of its report and the mark of the record.                                *)
THEOREM CountMissesNothingElse == Spec => []CountMissesOnlyCrashes
  <1>1. TypeOK /\ CountInv => CountMissesOnlyCrashes
    BY DEF CountInv
  <1> QED BY <1>1, CountAlways, PTL
===============================================================================
