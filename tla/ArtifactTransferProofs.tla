------------------------ MODULE ArtifactTransferProofs ------------------------
(***************************************************************************)
(* Proofs about ArtifactTransfer, for any artifacts, transfers in progress, *)
(* configurations of the agent and faults: no artifact is lost, with        *)
(* server-side bundling a published run is completely held by the server,   *)
(* a finalization has all it listed, and items are uploaded once.           *)
(***************************************************************************)
EXTENDS ArtifactTransfer, TLAPS

USE TransferAssumption

(* Every action of Next by name, the case split of the proofs below.        *)
LEMMA Actions ==
  ASSUME Next
  PROVE  /\ UNCHANGED setting
         /\ \/ BeginFlush \/ TransferFailed \/ TransferDone \/ EndTransfer \/ Publish
            \/ AgentStart \/ FinishRun \/ Prune \/ AgentCrash \/ ServerRestart
            \/ \E a \in Artifacts : \/ Skip(a) \/ RefuseLarge(a)
                                    \/ \E c \in Slots : Transfer(a, c)
            \/ \E c \in Slots : \/ StoreData(c) \/ StoreCollides(c) \/ StoreMeta(c)
                                \/ LoadRows(c) \/ Choose(c) \/ PostItem(c) \/ RecordItem(c)
                                \/ Finalized(c) \/ DropAnswer(c) \/ LoseRequest(c)
  BY Zenon DEF Next, AgentStep, ServerStep

LEMMA SummaryTyped == Summary \in Artifacts /\ Summary \in Items
  BY DEF Artifacts, Items

LEMMA FreeCallTyped == FreeCall \in CallState
  BY SummaryTyped DEF FreeCall, CallState, CallPcs

LEMMA IdleTyped == Idle \in AgentState
  <1>1. AnySlot \in Slots
    BY DEF AnySlot
  <1> QED BY <1>1, SummaryTyped DEF Idle, AgentState, AgentPcs

LEMMA FaultTyped ==
  ASSUME faults \in Nat, NEW kind, Fault(kind) \/ NoFault
  PROVE  faults' \in Nat
  BY DEF Fault, NoFault

-------------------------------------------------------------------------------
(* The inductive invariant.                                                 *)

(* What a transfer on the server has behind it: what it stored, and how far *)
(* the summary, the last item of a finalization, has come. d are the staged *)
(* artifacts, v those in eLabFTW.                                           *)
Honest(k, d, v) ==
  /\ k.pc = "meta" => k.art \in d /\ k.art # Summary
  /\ k.pc \in Finalizing => k.art = Summary
  /\ k.pc = "choose" => Summary \in k.todo
  /\ k.pc \in {"post", "record"} => k.item = Summary \/ Summary \in k.todo
  /\ k.pc = "record" /\ k.item = Summary => Summary \in v
  /\ k.pc = "final" => Summary \in v
  /\ k.pc = "replied" /\ k.ok => k.art \in d \union v

ServerInv ==
  /\ \A c \in Slots : Honest(call[c], data, archived)
  /\ Summary \in journal => Summary \in archived

(* The agent waits for a transfer of the artifact it is at, if for any.     *)
AwaitInv == At("await") => call[agent.slot].pc = "free" \/ call[agent.slot].art = agent.art

Safe == data \union archived

Flushing == agent.phase = "flush" /\ agent.pc \in {"next", "await", "publish"}

(* What the agent forgets or believes to be transferred is safe, and a      *)
(* flush that has met no failure has only left behind what is.              *)
AgentInv ==
  /\ \A a \in Artifacts :
       (a = Summary => report.done) /\ (agent.pc = "sent" => setting.bundling) =>
         a \in local \/ a \in Safe
  /\ agent.moved \subseteq Safe /\ report.moved \subseteq Safe
  /\ Flushing \/ agent.pc = "sent" => report.done
  /\ agent.pc = "publish" => agent.phase = "flush" /\ agent.todo = {}
  /\ agent.pc = "publish" /\ setting.bundling => ~agent.failed
  /\ Flushing /\ ~agent.failed =>
       \A a \in Artifacts : a \in agent.todo \/ a \in Safe \/ (agent.pc = "await" /\ a = agent.art)
  /\ agent.pc = "sent" /\ setting.bundling => Artifacts \subseteq Safe

Inv == TypeOK /\ ServerInv /\ AwaitInv /\ AgentInv

-------------------------------------------------------------------------------
LEMMA InvInit == Init => Inv
  <1> SUFFICES ASSUME Init PROVE Inv
    OBVIOUS
  <1>1. TypeOK
    <2>1. agent \in AgentState
      <3>1. AnySlot \in Slots
        BY DEF AnySlot
      <3>2. Staging \subseteq Artifacts
        BY DEF Artifacts
      <3> QED BY <3>1, <3>2, SummaryTyped DEF Init, Idle, AgentState, AgentPcs
    <2> QED BY <2>1, FreeCallTyped DEF Init, TypeOK, Artifacts
  <1>2. ServerInv
    BY DEF Init, ServerInv, Honest, FreeCall, Finalizing
  <1>3. AwaitInv
    BY DEF Init, AwaitInv, At, Idle
  <1>4. AgentInv
    BY DEF Init, AgentInv, Idle, Flushing, Safe, Artifacts
  <1> QED BY <1>1, <1>2, <1>3, <1>4 DEF Inv

(* What is safe stays safe: nothing is ever taken from the server.          *)
LEMMA AgentUntouched ==
  ASSUME AgentInv, UNCHANGED agentVars, UNCHANGED setting,
         data \subseteq data', archived \subseteq archived'
  PROVE  AgentInv'
  BY DEF AgentInv, agentVars, Safe, Flushing

(* A step of the server replaces one call; the others keep what they have.  *)
LEMMA CallReplaced ==
  ASSUME TypeOK, ServerInv, AwaitInv, UNCHANGED agent,
         NEW c \in Slots, NEW new \in CallState, call' = [call EXCEPT ![c] = new],
         data \subseteq data', archived \subseteq archived',
         Honest(new, data', archived'),
         new.pc = "free" \/ new.art = call[c].art,
         call[c].pc # "free",
         Summary \in journal' => Summary \in archived'
  PROVE  call' \in [Slots -> CallState] /\ ServerInv' /\ AwaitInv'
  <1>1. call \in [Slots -> CallState] /\ agent.slot \in Slots
    BY DEF TypeOK, AgentState
  <1>2. call'[c] = new /\ \A d \in Slots \ {c} : call'[d] = call[d]
    BY <1>1
  <1>3. \A d \in Slots : Honest(call'[d], data', archived')
    <2> TAKE d \in Slots
    <2>1. CASE d = c
      BY <1>2, <2>1
    <2>2. CASE d # c
      <3>1. Honest(call[d], data, archived)
        BY DEF ServerInv
      <3> QED BY <1>2, <2>2, <3>1 DEF Honest
    <2> QED BY <2>1, <2>2
  <1>4. AwaitInv'
    <2>1. CASE agent.slot = c
      BY <1>1, <1>2, <2>1 DEF AwaitInv, At
    <2>2. CASE agent.slot # c
      BY <1>1, <1>2, <2>2 DEF AwaitInv, At
    <2> QED BY <2>1, <2>2
  <1> QED BY <1>1, <1>3, <1>4 DEF ServerInv

(* A step of the server as a whole.                                         *)
LEMMA ServerKeeps ==
  ASSUME Inv, UNCHANGED setting, UNCHANGED agentVars,
         NEW c \in Slots, NEW new \in CallState, call' = [call EXCEPT ![c] = new],
         data \subseteq data', archived \subseteq archived',
         meta' \subseteq data', data' \subseteq Staging, journal' \subseteq Items,
         copies' \in [Items -> Nat], archived' \subseteq Artifacts,
         faults' \in Nat, excused' \in BOOLEAN,
         Honest(new, data', archived'),
         new.pc = "free" \/ new.art = call[c].art,
         call[c].pc # "free",
         Summary \in journal' => Summary \in archived'
  PROVE  Inv'
  <1>1. UNCHANGED <<local, report, agent>>
    BY DEF agentVars
  <1>2. call' \in [Slots -> CallState] /\ ServerInv' /\ AwaitInv'
    BY <1>1, CallReplaced DEF Inv
  <1>3. AgentInv'
    BY AgentUntouched DEF Inv
  <1>4. TypeOK'
    BY <1>1, <1>2 DEF Inv, TypeOK
  <1> QED BY <1>2, <1>3, <1>4 DEF Inv

-------------------------------------------------------------------------------
(* The steps of the server.                                                 *)

LEMMA ServerStepKeeps ==
  ASSUME Inv, UNCHANGED setting, NEW c \in Slots,
         \/ StoreData(c) \/ StoreCollides(c) \/ StoreMeta(c) \/ LoadRows(c) \/ Choose(c)
         \/ PostItem(c) \/ RecordItem(c) \/ Finalized(c) \/ DropAnswer(c) \/ LoseRequest(c)
  PROVE  Inv'
  <1>a. /\ call \in [Slots -> CallState] /\ call[c] \in CallState /\ Honest(call[c], data, archived)
        /\ meta \subseteq data /\ data \subseteq Staging /\ journal \subseteq Items
        /\ copies \in [Items -> Nat] /\ archived \subseteq Artifacts
        /\ faults \in Nat /\ excused \in BOOLEAN
        /\ Summary \in journal => Summary \in archived
    BY DEF Inv, TypeOK, ServerInv
  <1>b. Staging \subseteq Artifacts /\ Summary \notin Staging /\ Bundle # Summary
    BY DEF Artifacts
  <1>1. CASE StoreData(c)
    <2> DEFINE new == [call[c] EXCEPT !.pc = "meta"]
    <2>1. /\ new \in CallState /\ new.pc = "meta" /\ new.art = call[c].art
          /\ call' = [call EXCEPT ![c] = new]
      BY <1>1, <1>a DEF StoreData, CallState, CallPcs
    <2>2. call[c].art \in Staging /\ call[c].art # Summary /\ call[c].pc # "free"
      BY <1>1, <1>a DEF StoreData, CallState, Artifacts
    <2>3. Honest(new, data', archived')
      BY <1>1, <2>1, <2>2 DEF StoreData, Honest, Finalizing
    <2> HIDE DEF new
    <2> QED BY <1>1, <1>a, <2>1, <2>2, <2>3, ServerKeeps DEF StoreData, elabVars
  <1>2. CASE StoreMeta(c)
    <2>1. PICK ok \in BOOLEAN : Reply(c, ok) /\ (NoFault \/ Fault("disk"))
      BY <1>2 DEF StoreMeta
    <2> DEFINE new == [call[c] EXCEPT !.pc = "replied", !.ok = ok]
    <2>2. /\ new \in CallState /\ new.pc = "replied" /\ new.art = call[c].art
          /\ call' = [call EXCEPT ![c] = new]
      BY <2>1, <1>a DEF Reply, CallState, CallPcs
    <2>3. Honest(new, data', archived') /\ call[c].art \in data
      BY <1>2, <1>a, <2>2 DEF StoreMeta, elabVars, Honest, Finalizing
    <2>4. faults' \in Nat
      BY <1>a, <2>1, FaultTyped
    <2> HIDE DEF new
    <2> QED BY <1>2, <1>a, <2>2, <2>3, <2>4, ServerKeeps DEF StoreMeta, elabVars
  <1>3. CASE LoadRows(c)
    <2>1. PICK rows \in SUBSET Staging, todo \in SUBSET Items :
            /\ call' = [call EXCEPT ![c].pc = "choose", ![c].rows = rows, ![c].todo = todo]
            /\ Summary \in todo
      <3> DEFINE rs == meta \intersect data
                 todo == (IF rs \intersect Texts = {} THEN {} ELSE {Bundle})
                           \union (rs \intersect Raws) \union {Summary}
      <3>1. rs \in SUBSET Staging /\ todo \in SUBSET Items /\ Summary \in todo
        BY <1>a DEF Items
      <3>2. call' = [call EXCEPT ![c].pc = "choose", ![c].rows = rs, ![c].todo = todo]
        BY <1>3 DEF LoadRows
      <3> QED BY <3>1, <3>2
    <2> DEFINE new == [call[c] EXCEPT !.pc = "choose", !.rows = rows, !.todo = todo]
    <2>2. /\ new \in CallState /\ new.pc = "choose" /\ new.art = call[c].art /\ new.todo = todo
          /\ call' = [call EXCEPT ![c] = new]
      BY <2>1, <1>a DEF CallState, CallPcs, Finalizing
    <2>3. Honest(new, data', archived') /\ call[c].pc # "free"
      BY <1>3, <2>1, <2>2 DEF LoadRows, Honest, Finalizing
    <2> HIDE DEF new
    <2> QED BY <1>3, <1>a, <2>2, <2>3, ServerKeeps DEF LoadRows, spoolVars, elabVars
  <1>4. CASE Choose(c)
    <2>1. PICK i \in Items :
            /\ InTurn(c, i)
            /\ call' = [call EXCEPT
                 ![c].pc = IF i \in journal \ {Bundle} THEN After(i) ELSE "post",
                 ![c].item = i,
                 ![c].todo = @ \ {i}]
      BY <1>4 DEF Choose
    <2> DEFINE pc == IF i \in journal \ {Bundle} THEN After(i) ELSE "post"
               new == [call[c] EXCEPT !.pc = pc, !.item = i, !.todo = call[c].todo \ {i}]
    <2>2. pc \in {"choose", "post", "final"} /\ (pc = "final" => i = Summary /\ Summary \in archived)
          /\ (pc = "choose" => i # Summary)
      BY <1>a DEF After
    <2>3. /\ new \in CallState /\ new.pc = pc /\ new.art = call[c].art /\ new.item = i
          /\ new.todo = call[c].todo \ {i}
          /\ call' = [call EXCEPT ![c] = new]
      BY <2>1, <2>2, <1>a DEF CallState, CallPcs, Finalizing
    <2> HIDE DEF new, pc
    <2>4. call[c].pc = "choose" /\ call[c].art = Summary /\ Summary \in call[c].todo
      BY <1>4, <1>a DEF Choose, Honest, Finalizing
    <2>5. Honest(new, data', archived')
      BY <1>4, <2>2, <2>3, <2>4 DEF Choose, elabVars, Honest, Finalizing
    <2> QED BY <1>4, <1>a, <2>3, <2>4, <2>5, ServerKeeps DEF Choose, spoolVars, elabVars
  <1>5. CASE PostItem(c)
    <2> DEFINE i == call[c].item
    <2>1. i \in Items /\ call[c].rows \subseteq Staging /\ call[c].pc = "post"
      BY <1>5, <1>a DEF PostItem, CallState
    <2>2. Holds(i, call[c].rows) \subseteq Artifacts /\ (i = Summary => Summary \in Holds(i, call[c].rows))
      BY <1>b, <2>1, SummaryTyped DEF Holds, Items, Staging, Artifacts
    <2>3. \/ /\ NoFault
             /\ copies' = [copies EXCEPT ![i] = @ + 1]
             /\ archived' = archived \union Holds(i, call[c].rows)
             /\ call' = [call EXCEPT ![c].pc = "record"]
             /\ UNCHANGED excused
          \/ /\ Fault("elab") /\ Reply(c, FALSE)
             /\ \/ /\ copies' = [copies EXCEPT ![i] = @ + 1]
                   /\ archived' = archived \union Holds(i, call[c].rows)
                   /\ excused' = TRUE
                \/ UNCHANGED <<copies, archived, excused>>
      BY <1>5 DEF PostItem
    <2>4. /\ archived \subseteq archived' /\ archived' \subseteq Artifacts
          /\ copies' \in [Items -> Nat] /\ excused' \in BOOLEAN /\ faults' \in Nat
      <3>1. archived' = archived \/ archived' = archived \union Holds(i, call[c].rows)
        BY <2>3
      <3>2. copies' = copies \/ copies' = [copies EXCEPT ![i] = @ + 1]
        BY <2>3
      <3>3. excused' = excused \/ excused' = TRUE
        BY <2>3
      <3>4. faults' \in Nat
        BY <2>3, <1>a, FaultTyped
      <3> HIDE DEF i
      <3>5. archived \subseteq archived' /\ archived' \subseteq Artifacts
        BY <1>a, <2>2, <3>1
      <3>6. copies' \in [Items -> Nat]
        BY <1>a, <2>1, <3>2
      <3> QED BY <1>a, <3>3, <3>4, <3>5, <3>6
    <2>5. PICK new \in CallState :
            /\ call' = [call EXCEPT ![c] = new] /\ new.art = call[c].art
            /\ Honest(new, data', archived')
      <3>1. CASE call' = [call EXCEPT ![c].pc = "record"] /\ archived' = archived \union Holds(i, call[c].rows)
        <4> DEFINE new == [call[c] EXCEPT !.pc = "record"]
        <4>1. /\ new \in CallState /\ new.art = call[c].art /\ new.pc = "record"
              /\ new.item = i /\ new.todo = call[c].todo
              /\ call' = [call EXCEPT ![c] = new]
          BY <3>1, <1>a DEF CallState, CallPcs, Finalizing
        <4>2. Honest(new, data', archived')
          BY <1>a, <2>1, <2>2, <3>1, <4>1 DEF Honest, Finalizing
        <4> HIDE DEF new
        <4> QED BY <4>1, <4>2
      <3>2. CASE Reply(c, FALSE)
        <4> DEFINE new == [call[c] EXCEPT !.pc = "replied", !.ok = FALSE]
        <4>1. /\ new \in CallState /\ new.art = call[c].art /\ new.pc = "replied" /\ new.ok = FALSE
              /\ call' = [call EXCEPT ![c] = new]
          BY <3>2, <1>a DEF Reply, CallState, CallPcs
        <4>2. Honest(new, data', archived')
          BY <4>1 DEF Honest, Finalizing
        <4> HIDE DEF new
        <4> QED BY <4>1, <4>2
      <3> QED BY <2>3, <3>1, <3>2
    <2> HIDE DEF i
    <2> QED BY <1>5, <1>a, <2>1, <2>4, <2>5, ServerKeeps DEF PostItem, spoolVars
  <1>6. CASE RecordItem(c)
    <2> DEFINE i == call[c].item
    <2>1. i \in Items /\ call[c].pc = "record" /\ (i = Summary => Summary \in archived)
      BY <1>6, <1>a DEF RecordItem, CallState, Honest
    <2>2. \/ /\ NoFault /\ journal' = journal \union {i}
             /\ call' = [call EXCEPT ![c].pc = After(i)] /\ UNCHANGED excused
          \/ Fault("disk") /\ Reply(c, FALSE) /\ excused' = TRUE /\ UNCHANGED journal
      BY <1>6 DEF RecordItem
    <2>3. PICK new \in CallState :
            /\ call' = [call EXCEPT ![c] = new] /\ new.art = call[c].art
            /\ Honest(new, data', archived')
      <3>1. CASE call' = [call EXCEPT ![c].pc = After(i)]
        <4> DEFINE new == [call[c] EXCEPT !.pc = After(i)]
        <4>1. After(i) \in {"final", "choose"} /\ (After(i) = "final" <=> i = Summary)
          BY DEF After
        <4>2. /\ new \in CallState /\ new.art = call[c].art /\ new.pc = After(i)
              /\ new.item = i /\ new.todo = call[c].todo
              /\ call' = [call EXCEPT ![c] = new]
          BY <3>1, <4>1, <1>a DEF CallState, CallPcs, Finalizing
        <4>3. Honest(new, data', archived')
          BY <1>6, <1>a, <2>1, <4>1, <4>2 DEF RecordItem, Honest, Finalizing
        <4> HIDE DEF new
        <4> QED BY <4>2, <4>3
      <3>2. CASE Reply(c, FALSE)
        <4> DEFINE new == [call[c] EXCEPT !.pc = "replied", !.ok = FALSE]
        <4>1. /\ new \in CallState /\ new.art = call[c].art /\ new.pc = "replied" /\ new.ok = FALSE
              /\ call' = [call EXCEPT ![c] = new]
          BY <3>2, <1>a DEF Reply, CallState, CallPcs
        <4>2. Honest(new, data', archived')
          BY <4>1 DEF Honest, Finalizing
        <4> HIDE DEF new
        <4> QED BY <4>1, <4>2
      <3> QED BY <2>2, <3>1, <3>2
    <2>4. faults' \in Nat /\ excused' \in BOOLEAN
      BY <2>2, <1>a, FaultTyped
    <2>5. journal' \subseteq Items /\ (Summary \in journal' => Summary \in archived)
      BY <2>1, <2>2, <1>a
    <2> HIDE DEF i
    <2> QED BY <1>6, <1>a, <2>1, <2>3, <2>4, <2>5, ServerKeeps DEF RecordItem, spoolVars
  <1>7. CASE Finalized(c)
    <2>1. PICK ok \in BOOLEAN : Reply(c, ok) /\ (NoFault \/ Fault("disk"))
      BY <1>7 DEF Finalized
    <2> DEFINE new == [call[c] EXCEPT !.pc = "replied", !.ok = ok]
    <2>2. /\ new \in CallState /\ new.pc = "replied" /\ new.art = call[c].art
          /\ call' = [call EXCEPT ![c] = new]
      BY <2>1, <1>a DEF Reply, CallState, CallPcs
    <2>3. Honest(new, data', archived') /\ call[c].pc # "free"
      BY <1>7, <1>a, <2>2 DEF Finalized, elabVars, Honest, Finalizing
    <2>4. faults' \in Nat
      BY <1>a, <2>1, FaultTyped
    <2> HIDE DEF new
    <2> QED BY <1>7, <1>a, <2>2, <2>3, <2>4, ServerKeeps DEF Finalized, spoolVars, elabVars
  <1>8. CASE DropAnswer(c) \/ LoseRequest(c)
    <2>1. /\ call' = [call EXCEPT ![c] = FreeCall] /\ call[c].pc # "free"
          /\ UNCHANGED <<agentVars, spoolVars, elabVars, excused>>
      BY <1>8 DEF DropAnswer, LoseRequest
    <2>2. faults' \in Nat
      BY <1>8, <1>a, FaultTyped DEF DropAnswer, LoseRequest
    <2>3. Honest(FreeCall, data', archived') /\ FreeCall.pc = "free"
      BY DEF Honest, FreeCall, Finalizing
    <2> QED BY <1>a, <2>1, <2>2, <2>3, FreeCallTyped, ServerKeeps DEF spoolVars, elabVars
  <1>9. CASE StoreCollides(c)
    <2> DEFINE new == [call[c] EXCEPT !.pc = "replied", !.ok = FALSE]
    <2>1. /\ new \in CallState /\ new.pc = "replied" /\ new.art = call[c].art
          /\ call' = [call EXCEPT ![c] = new]
      BY <1>9, <1>a DEF StoreCollides, Reply, CallState, CallPcs
    <2>2. Honest(new, data', archived') /\ call[c].pc # "free"
      BY <1>9, <1>a, <2>1 DEF StoreCollides, Honest, Finalizing
    <2> HIDE DEF new
    <2> QED BY <1>9, <1>a, <2>1, <2>2, ServerKeeps DEF StoreCollides, spoolVars, elabVars
  <1> QED BY <1>1, <1>2, <1>3, <1>4, <1>5, <1>6, <1>7, <1>8, <1>9

LEMMA RestartKeeps ==
  ASSUME Inv, UNCHANGED setting, ServerRestart
  PROVE  Inv'
  <1>1. call' \in [Slots -> CallState] /\ \A c \in Slots : call'[c].pc = "free"
    BY FreeCallTyped DEF ServerRestart, FreeCall
  <1>2. faults' \in Nat /\ excused' \in BOOLEAN
    BY FaultTyped DEF ServerRestart, Inv, TypeOK
  <1>3. TypeOK'
    BY <1>1, <1>2 DEF ServerRestart, Inv, TypeOK, agentVars, spoolVars, elabVars
  <1>4. ServerInv'
    BY <1>1 DEF ServerRestart, Inv, ServerInv, Honest, Finalizing, elabVars
  <1>5. AwaitInv'
    BY <1>1 DEF ServerRestart, Inv, TypeOK, AgentState, AwaitInv, agentVars
  <1>6. AgentInv'
    BY AgentUntouched DEF ServerRestart, Inv, spoolVars, elabVars
  <1> QED BY <1>3, <1>4, <1>5, <1>6 DEF Inv

-------------------------------------------------------------------------------
(* The steps of the agent.                                                  *)

(* A step of the agent with nothing but its own state, and its call, new.   *)
LEMMA AgentKeeps ==
  ASSUME Inv, UNCHANGED setting, UNCHANGED <<spoolVars, elabVars, excused>>,
         agent' \in AgentState, local' \subseteq Artifacts,
         report' \in [done : BOOLEAN, moved : SUBSET Artifacts],
         call' \in [Slots -> CallState], faults' \in Nat,
         \A c \in Slots : call'[c] = call[c] \/ call'[c].pc \in {"free", "queued"},
         AwaitInv', AgentInv'
  PROVE  Inv'
  <1>1. TypeOK'
    BY DEF Inv, TypeOK, spoolVars, elabVars
  <1>2. \A c \in Slots : Honest(call'[c], data', archived')
    <2> TAKE c \in Slots
    <2>1. CASE call'[c] = call[c]
      <3>1. Honest(call[c], data, archived)
        BY DEF Inv, ServerInv
      <3> QED BY <2>1, <3>1 DEF spoolVars, elabVars
    <2>2. CASE call'[c].pc \in {"free", "queued"}
      BY <2>2 DEF Honest, Finalizing
    <2> QED BY <2>1, <2>2
  <1>3. Summary \in journal' => Summary \in archived'
    BY DEF Inv, ServerInv, elabVars
  <1> QED BY <1>1, <1>2, <1>3 DEF Inv, ServerInv

(* The agent goes back to its loop, or down.                                *)
LEMMA RestingKeeps ==
  ASSUME Inv, UNCHANGED setting, UNCHANGED <<report, call, spoolVars, elabVars, excused>>,
         local \subseteq local', local' \subseteq Artifacts, faults' \in Nat,
         agent.pc # "sent",
         agent' = Idle \/ agent' = [Idle EXCEPT !.pc = "down"]
  PROVE  Inv'
  <1>1. agent' \in AgentState /\ agent'.pc \in {"loop", "down"} /\ agent'.moved = {}
    <2>1. CASE agent' = Idle
      BY <2>1, IdleTyped DEF Idle
    <2>2. CASE agent' = [Idle EXCEPT !.pc = "down"]
      BY <2>2, IdleTyped DEF Idle, AgentState, AgentPcs
    <2> QED BY <2>1, <2>2
  <1>2. AwaitInv'
    BY <1>1 DEF AwaitInv, At
  <1>3. \A a \in Artifacts : (a = Summary => report'.done) => a \in local' \/ a \in Safe'
    BY DEF Inv, AgentInv, Safe, spoolVars, elabVars
  <1>4. AgentInv'
    BY <1>1, <1>3 DEF Inv, AgentInv, Safe, Flushing, spoolVars, elabVars
  <1> QED BY <1>1, <1>2, <1>4, AgentKeeps DEF Inv, TypeOK

(* The loop over the artifacts: what a step leaves behind is safe, or the   *)
(* flush has failed.                                                        *)
LEMMA LoopKeeps ==
  ASSUME Inv, UNCHANGED setting, UNCHANGED <<report, spoolVars, elabVars, excused>>,
         local' \subseteq Artifacts, faults' \in Nat,
         \A a \in local : a \in local' \/ a \in Safe,
         call' \in [Slots -> CallState],
         \A c \in Slots : call'[c] = call[c] \/ call'[c].pc \in {"free", "queued"},
         agent.pc \in {"next", "await"},
         NEW new \in AgentState, agent' = new,
         new.pc \in {"next", "await"}, new.phase = agent.phase,
         new.moved \subseteq Safe,
         agent.failed => new.failed,
         ~new.failed => \A a \in Artifacts :
           \/ a \in new.todo \/ (new.pc = "await" /\ a = new.art)
           \/ a \notin agent.todo /\ ~(agent.pc = "await" /\ a = agent.art)
           \/ agent.phase = "live" \/ a \in Safe,
         new.pc = "await" => call'[new.slot].art = new.art
  PROVE  Inv'
  <1>1. Safe' = Safe /\ report' = report /\ setting' = setting
    BY DEF Safe, spoolVars, elabVars
  <1>2. AwaitInv'
    BY DEF AwaitInv, At
  <1>3. Flushing' => Flushing
    BY DEF Flushing
  <1>4. \A a \in Artifacts : (a = Summary => report'.done) => a \in local' \/ a \in Safe'
    BY <1>1 DEF Inv, AgentInv
  <1>5. Flushing' \/ agent'.pc = "sent" => report'.done
    BY <1>1, <1>3 DEF Inv, AgentInv
  <1>6. Flushing' /\ ~agent'.failed =>
          \A a \in Artifacts : a \in agent'.todo \/ a \in Safe' \/ (agent'.pc = "await" /\ a = agent'.art)
    <2> SUFFICES ASSUME Flushing', ~new.failed, NEW a \in Artifacts
                 PROVE  a \in new.todo \/ a \in Safe \/ (new.pc = "await" /\ a = new.art)
      BY <1>1
    <2>1. a \in agent.todo \/ a \in Safe \/ (agent.pc = "await" /\ a = agent.art)
      BY <1>3 DEF Inv, AgentInv
    <2>2. agent.phase # "live"
      BY <1>3 DEF Flushing
    <2> QED BY <2>1, <2>2
  <1>7. AgentInv'
    BY <1>1, <1>4, <1>5, <1>6 DEF Inv, AgentInv
  <1> QED BY <1>1, <1>2, <1>7, AgentKeeps DEF Inv, TypeOK

LEMMA TypeFacts ==
  ASSUME Inv
  PROVE  /\ agent \in AgentState /\ agent.slot \in Slots /\ agent.art \in Artifacts
         /\ agent.failed \in BOOLEAN /\ agent.moved \subseteq Safe
         /\ local \subseteq Artifacts /\ faults \in Nat
         /\ report \in [done : BOOLEAN, moved : SUBSET Artifacts]
         /\ call \in [Slots -> CallState]
  BY DEF Inv, TypeOK, AgentState, AgentInv

(* The loop's steps that leave an artifact out.                             *)
LEMMA LeaveOutKeeps ==
  ASSUME Inv, UNCHANGED setting, NEW a \in Artifacts, Skip(a) \/ RefuseLarge(a)
  PROVE  Inv'
  <1>1. CASE Skip(a)
    <2> DEFINE new == [agent EXCEPT !.todo = @ \ {a}]
    <2>1. new \in AgentState
      BY TypeFacts DEF AgentState
    <2>2. /\ new.pc = agent.pc /\ new.phase = agent.phase /\ new.moved = agent.moved
          /\ new.todo = agent.todo \ {a}
      BY TypeFacts DEF AgentState
    <2>3. new.failed = agent.failed
      BY TypeFacts DEF AgentState
    <2>4. agent' = new /\ agent.pc = "next"
      BY <1>1 DEF Skip, At
    <2>5. agent.phase = "live" \/ a \in Safe
      <3>1. CASE a \in agent.moved
        BY <3>1, TypeFacts
      <3>2. CASE a \notin local /\ agent.phase # "live"
        <4>1. Flushing
          BY <3>2, <2>4, TypeFacts DEF Flushing, AgentState
        <4> QED BY <3>2, <4>1, <2>4 DEF Inv, AgentInv
      <3> QED BY <1>1, <3>1, <3>2 DEF Skip
    <2> HIDE DEF new
    <2>6. \A b \in Artifacts : b \in new.todo \/ b \notin agent.todo \/ agent.phase = "live" \/ b \in Safe
      BY <2>2, <2>5
    <2> QED BY <1>1, <2>1, <2>2, <2>3, <2>4, <2>6, TypeFacts, LoopKeeps DEF Skip
  <1>2. CASE RefuseLarge(a)
    <2> DEFINE new == [agent EXCEPT !.todo = @ \ {a}, !.failed = TRUE]
    <2>1. new \in AgentState
      BY TypeFacts DEF AgentState
    <2>2. new.pc = agent.pc /\ new.phase = agent.phase /\ new.moved = agent.moved
      BY TypeFacts DEF AgentState
    <2>3. new.failed
      BY TypeFacts DEF AgentState
    <2>4. agent' = new /\ agent.pc = "next"
      BY <1>2 DEF RefuseLarge, At
    <2> HIDE DEF new
    <2> QED BY <1>2, <2>1, <2>2, <2>3, <2>4, TypeFacts, LoopKeeps DEF RefuseLarge
  <1> QED BY <1>1, <1>2

(* A transfer starts, or ends for the agent.                                *)
LEMMA TransferKeeps ==
  ASSUME Inv, UNCHANGED setting,
         \/ \E a \in Artifacts, c \in Slots : Transfer(a, c)
         \/ TransferFailed \/ TransferDone
  PROVE  Inv'
  <1>1. ASSUME NEW a \in Artifacts, NEW c \in Slots, Transfer(a, c)
        PROVE  Inv'
    <2> DEFINE new == [agent EXCEPT !.pc = "await", !.todo = @ \ {a}, !.art = a, !.slot = c]
               queued == [FreeCall EXCEPT !.pc = "queued", !.art = a]
    <2>1. new \in AgentState
      BY TypeFacts DEF AgentState, AgentPcs
    <2>2. /\ new.pc = "await" /\ new.phase = agent.phase /\ new.moved = agent.moved
          /\ new.todo = agent.todo \ {a} /\ new.art = a /\ new.slot = c
      BY TypeFacts DEF AgentState
    <2>3. new.failed = agent.failed
      BY TypeFacts DEF AgentState
    <2>4. queued \in CallState /\ queued.pc = "queued" /\ queued.art = a
      BY FreeCallTyped DEF FreeCall, CallState, CallPcs
    <2>5. agent' = new /\ agent.pc = "next" /\ call' = [call EXCEPT ![c] = queued]
      BY <1>1 DEF Transfer, At
    <2> HIDE DEF new, queued
    <2>6. /\ call' \in [Slots -> CallState] /\ call'[c] = queued
          /\ \A d \in Slots : call'[d] = call[d] \/ call'[d].pc \in {"free", "queued"}
      BY <2>4, <2>5, TypeFacts
    <2>7. \A b \in Artifacts : b \in new.todo \/ b = new.art \/ b \notin agent.todo
      BY <2>2
    <2>8. UNCHANGED <<local, report, spoolVars, elabVars, faults, excused>>
      BY <1>1 DEF Transfer
    <2>9. new.moved \subseteq Safe /\ (agent.failed => new.failed) /\ call'[new.slot].art = new.art
      BY <2>2, <2>3, <2>4, <2>6, TypeFacts
    <2> QED BY <2>1, <2>2, <2>5, <2>6, <2>7, <2>8, <2>9, TypeFacts, LoopKeeps
  <1>2. CASE TransferFailed
    <2> DEFINE new == [agent EXCEPT !.pc = "next", !.failed = TRUE]
    <2>1. new \in AgentState
      BY TypeFacts DEF AgentState, AgentPcs
    <2>2. new.pc = "next" /\ new.phase = agent.phase /\ new.moved = agent.moved
      BY TypeFacts DEF AgentState
    <2>3. new.failed
      BY TypeFacts DEF AgentState
    <2>4. agent' = new /\ agent.pc = "await"
      BY <1>2 DEF TransferFailed, At
    <2>5. call' = call \/ call' = [call EXCEPT ![agent.slot] = FreeCall]
      BY <1>2 DEF TransferFailed
    <2>6. faults' \in Nat
      BY <1>2, TypeFacts, FaultTyped DEF TransferFailed
    <2>7. /\ call' \in [Slots -> CallState]
          /\ \A d \in Slots : call'[d] = call[d] \/ call'[d].pc \in {"free", "queued"}
      <3>1. CASE call' = call
        BY <3>1, TypeFacts
      <3>2. CASE call' = [call EXCEPT ![agent.slot] = FreeCall]
        BY <3>2, TypeFacts, FreeCallTyped DEF FreeCall
      <3> QED BY <2>5, <3>1, <3>2
    <2> HIDE DEF new
    <2> QED BY <1>2, <2>1, <2>2, <2>3, <2>4, <2>6, <2>7, TypeFacts, LoopKeeps DEF TransferFailed
  <1>3. CASE TransferDone
    <2> DEFINE new == [agent EXCEPT !.pc = "next", !.moved = @ \union {agent.art}]
    <2>1. new \in AgentState
      BY TypeFacts DEF AgentState, AgentPcs
    <2>2. new.pc = "next" /\ new.phase = agent.phase /\ new.moved = agent.moved \union {agent.art}
          /\ new.todo = agent.todo
      BY TypeFacts DEF AgentState
    <2>3. new.failed = agent.failed
      BY TypeFacts DEF AgentState
    <2>4. agent' = new /\ agent.pc = "await"
      BY <1>3 DEF TransferDone, At
    <2>5. call' = [call EXCEPT ![agent.slot] = FreeCall]
      BY <1>3 DEF TransferDone
    <2>6. /\ call' \in [Slots -> CallState]
          /\ \A d \in Slots : call'[d] = call[d] \/ call'[d].pc \in {"free", "queued"}
      BY <2>5, TypeFacts, FreeCallTyped DEF FreeCall
    <2>7. agent.art \in Safe
      <3>1. Honest(call[agent.slot], data, archived)
        BY TypeFacts DEF Inv, ServerInv
      <3>2. call[agent.slot].art = agent.art
        BY <1>3, <2>4 DEF Inv, AwaitInv, At, TransferDone
      <3> QED BY <1>3, <3>1, <3>2 DEF Honest, TransferDone, Safe
    <2>8. local' \subseteq local /\ \A a \in local : a \in local' \/ a \in Safe
      BY <1>3, <2>7 DEF TransferDone
    <2>9. new.moved \subseteq Safe
      BY <2>2, <2>7, TypeFacts
    <2> HIDE DEF new
    <2>10. \A b \in Artifacts : \/ b \in new.todo
                                \/ b \notin agent.todo /\ b # agent.art
                                \/ b \in Safe
      BY <2>2, <2>7
    <2> QED BY <1>3, <2>1, <2>2, <2>3, <2>4, <2>6, <2>8, <2>9, <2>10, TypeFacts, LoopKeeps
            DEF TransferDone
  <1> QED BY <1>1, <1>2, <1>3

(* The report is persisted: at the end of the run and of the transfers.     *)
LEMMA PersistKeeps ==
  ASSUME Inv, UNCHANGED setting, FinishRun \/ EndTransfer
  PROVE  Inv'
  <1>1. /\ report' = [done |-> TRUE, moved |-> agent.moved]
        /\ report' \in [done : BOOLEAN, moved : SUBSET Artifacts]
    <2>1. report' = [done |-> TRUE, moved |-> agent.moved]
      BY DEF FinishRun, EndTransfer
    <2>2. agent.moved \in SUBSET Artifacts
      BY TypeFacts DEF AgentState
    <2> QED BY <2>1, <2>2
  <1>2. UNCHANGED <<call, faults, spoolVars, elabVars, excused>> /\ Safe' = Safe /\ agent.pc = "next"
    BY DEF FinishRun, EndTransfer, Safe, spoolVars, elabVars, At
  <1>3. local \subseteq local' /\ local' \subseteq Artifacts
    BY TypeFacts, SummaryTyped DEF FinishRun, EndTransfer
  <1>4. \A a \in Artifacts : a \in local' \/ a \in Safe'
    <2>1. CASE FinishRun
      BY <2>1, <1>2 DEF FinishRun, Inv, AgentInv
    <2>2. CASE EndTransfer
      <3>1. Flushing
        BY <2>2 DEF EndTransfer, At, Flushing
      <3> QED BY <1>2, <1>3, <3>1 DEF Inv, AgentInv
    <2> QED BY <2>1, <2>2
  <1>5. CASE agent' = Idle
    <2>1. agent' \in AgentState /\ agent'.pc = "loop" /\ agent'.moved = {}
      BY <1>5, IdleTyped DEF Idle
    <2>2. AwaitInv'
      BY <2>1 DEF AwaitInv, At
    <2>3. AgentInv'
      BY <1>1, <1>2, <1>4, <2>1, TypeFacts DEF AgentInv, Flushing
    <2> QED BY <1>1, <1>2, <1>3, <2>1, <2>2, <2>3, TypeFacts, AgentKeeps
  <1>6. CASE EndTransfer /\ agent' = [agent EXCEPT !.pc = "publish"] /\ ~(agent.failed /\ setting.bundling)
    <2> DEFINE new == [agent EXCEPT !.pc = "publish"]
    <2>1. new \in AgentState
      BY TypeFacts DEF AgentState, AgentPcs
    <2>2. new.pc = "publish" /\ new.phase = agent.phase /\ new.moved = agent.moved /\ new.todo = agent.todo
      BY TypeFacts DEF AgentState
    <2>3. new.failed = agent.failed
      BY TypeFacts DEF AgentState
    <2>4. agent' = new /\ agent.phase = "flush" /\ agent.todo = {} /\ ~(agent.failed /\ setting.bundling)
      BY <1>6 DEF EndTransfer
    <2> HIDE DEF new
    <2>5. AwaitInv'
      BY <2>2, <2>4 DEF AwaitInv, At
    <2>6. ~agent.failed => Artifacts \subseteq Safe
      <3>1. Flushing
        BY <1>2, <2>4 DEF Flushing
      <3> QED BY <1>2, <2>4, <3>1 DEF Inv, AgentInv
    <2>7. AgentInv'
      BY <1>1, <1>2, <1>4, <2>2, <2>3, <2>4, <2>6, TypeFacts DEF AgentInv, Flushing
    <2> QED BY <1>1, <1>2, <1>3, <2>1, <2>4, <2>5, <2>7, TypeFacts, AgentKeeps
  <1>7. FinishRun => agent' = Idle
    BY DEF FinishRun
  <1>8. EndTransfer => agent' = Idle \/ (agent' = [agent EXCEPT !.pc = "publish"] /\ ~(agent.failed /\ setting.bundling))
    BY DEF EndTransfer
  <1> QED BY <1>5, <1>6, <1>7, <1>8

LEMMA PublishKeeps ==
  ASSUME Inv, UNCHANGED setting, Publish
  PROVE  Inv'
  <1>1. agent.pc = "publish" /\ UNCHANGED <<local, report, spoolVars, elabVars, call, excused>>
    BY DEF Publish, At
  <1>2. faults' \in Nat
    BY TypeFacts, FaultTyped DEF Publish
  <1>3. CASE agent' = Idle
    BY <1>1, <1>2, <1>3, TypeFacts, RestingKeeps
  <1>4. CASE agent' = [Idle EXCEPT !.pc = "sent"]
    <2>1. agent' \in AgentState /\ agent'.pc = "sent" /\ agent'.moved = {}
      BY <1>4, IdleTyped DEF Idle, AgentState, AgentPcs
    <2>2. AwaitInv'
      BY <2>1 DEF AwaitInv, At
    <2>3. Safe' = Safe /\ report.done \in BOOLEAN
      BY <1>1, TypeFacts DEF Safe, elabVars, spoolVars
    <2>4. report.done /\ (setting.bundling => Artifacts \subseteq Safe)
      <3>1. Flushing /\ agent.todo = {} /\ (setting.bundling => ~agent.failed)
        BY <1>1 DEF Inv, AgentInv, Flushing
      <3> QED BY <1>1, <3>1 DEF Inv, AgentInv
    <2>5. AgentInv'
      BY <1>1, <2>1, <2>3, <2>4 DEF Inv, AgentInv, Flushing
    <2> QED BY <1>1, <1>2, <2>1, <2>2, <2>5, TypeFacts, AgentKeeps
  <1> QED BY <1>3, <1>4 DEF Publish

LEMMA PruneKeeps ==
  ASSUME Inv, UNCHANGED setting, Prune
  PROVE  Inv'
  <1>1. AwaitInv' /\ Safe' = Safe /\ agent' = agent /\ agent.pc = "sent"
    BY DEF Prune, Inv, AwaitInv, At, Safe, spoolVars, elabVars
  <1>2. AgentInv'
    BY <1>1 DEF Prune, Inv, AgentInv, Flushing
  <1> QED BY <1>1, <1>2, TypeFacts, AgentKeeps DEF Prune

(* A flush begins; the agent stops, and starts again.                       *)
LEMMA LoopBoundaryKeeps ==
  ASSUME Inv, UNCHANGED setting, BeginFlush \/ AgentCrash \/ AgentStart
  PROVE  Inv'
  <1>1. CASE BeginFlush
    <2> DEFINE new == [Idle EXCEPT !.pc = "next", !.todo = Artifacts, !.moved = report.moved]
    <2>1. new \in AgentState /\ new.pc = "next" /\ new.todo = Artifacts /\ new.moved = report.moved
      BY IdleTyped, TypeFacts DEF Idle, AgentState, AgentPcs
    <2>2. agent' = new /\ agent.pc = "loop" /\ report.done
      BY <1>1 DEF BeginFlush, At, Persisted
    <2> HIDE DEF new
    <2>3. UNCHANGED <<local, report, spoolVars, elabVars, call, faults, excused>>
      BY <1>1 DEF BeginFlush
    <2>4. AwaitInv' /\ Safe' = Safe
      BY <2>1, <2>2, <2>3 DEF AwaitInv, At, Safe, spoolVars, elabVars
    <2>5. AgentInv'
      BY <2>1, <2>2, <2>3, <2>4 DEF Inv, AgentInv, Flushing
    <2> QED BY <2>1, <2>2, <2>3, <2>4, <2>5, TypeFacts, AgentKeeps
  <1>2. CASE AgentCrash
    <2>1. faults' \in Nat
      BY <1>2, TypeFacts, FaultTyped DEF AgentCrash
    <2> QED BY <1>2, <2>1, TypeFacts, RestingKeeps DEF AgentCrash
  <1>3. CASE AgentStart
    BY <1>3, TypeFacts, RestingKeeps DEF AgentStart, At
  <1> QED BY <1>1, <1>2, <1>3

-------------------------------------------------------------------------------
LEMMA InvStep ==
  ASSUME Inv, [Next]_vars
  PROVE  Inv'
  <1>1. CASE UNCHANGED vars
    BY <1>1 DEF vars, Inv, TypeOK, ServerInv, AwaitInv, AgentInv, At, Safe, Flushing
  <1>2. CASE Next
    <2>1. UNCHANGED setting
      BY <1>2, Actions
    <2> QED BY <1>2, <2>1, Actions, ServerStepKeeps, RestartKeeps, LeaveOutKeeps, TransferKeeps,
               PersistKeeps, PublishKeeps, PruneKeeps, LoopBoundaryKeeps, Zenon
  <1> QED BY <1>1, <1>2

LEMMA InvAlways == Spec => []Inv
  BY InvInit, InvStep, PTL DEF Spec

(* Every variable keeps its type: the staged files, what eLabFTW holds, the *)
(* agent's place in its loops and every transfer on the server.             *)
THEOREM TypeCorrect == Spec => []TypeOK
  <1>1. Inv => TypeOK
    BY DEF Inv
  <1> QED BY <1>1, InvAlways, PTL

(* Until the report is out, and with server-side bundling for good, every   *)
(* artifact is on the agent's disk or in the server's keeping, whatever the *)
(* agent evicts and prunes, whatever fails and whoever restarts.            *)
THEOREM ArtifactsAreKept == Spec => []ArtifactKept
  <1>1. Inv => ArtifactKept
    BY DEF Inv, AgentInv, ArtifactKept, Safe, Held, Persisted, At
  <1> QED BY <1>1, InvAlways, PTL

(* With server-side bundling a report is published only when the server     *)
(* holds every artifact: a flush that meets a failure defers the report.    *)
THEOREM PublishedRunsAreHeld == Spec => []PublishedIsHeld
  <1>1. Inv => PublishedIsHeld
    BY DEF Inv, AgentInv, PublishedIsHeld, Safe, Held, At
  <1> QED BY <1>1, InvAlways, PTL

-------------------------------------------------------------------------------
(* A finalization has, for every artifact it listed, either its copy in     *)
(* eLabFTW or an item that holds it still ahead; v are those in eLabFTW.    *)
Listed(k, v) ==
  /\ k.pc \in Finalizing => \A r \in k.rows :
       \/ r \in v
       \/ \E i \in k.todo : r \in Holds(i, k.rows)
       \/ k.pc = "post" /\ r \in Holds(k.item, k.rows)
  /\ k.pc = "final" => k.todo = {}
  /\ k.pc \in {"post", "record"} /\ k.item = Summary => k.todo = {}
  /\ k.pc = "record" => k.item \in v \union {Bundle}
  /\ k.pc = "replied" /\ k.ok /\ k.art = Summary => k.rows \subseteq v

(* What the journal remembers is in eLabFTW.                                *)
RowsInv ==
  /\ journal \ {Bundle} \subseteq archived
  /\ \A c \in Slots : Listed(call[c], archived)

LEMMA ListedKeeps ==
  ASSUME RowsInv, archived \subseteq archived', journal' \ {Bundle} \subseteq archived',
         \A c \in Slots : call'[c] = call[c] \/ Listed(call'[c], archived')
  PROVE  RowsInv'
  <1>1. ASSUME NEW c \in Slots, call'[c] = call[c]
        PROVE  Listed(call'[c], archived')
    <2>1. Listed(call[c], archived)
      BY DEF RowsInv
    <2> QED BY <1>1, <2>1 DEF Listed
  <1> QED BY <1>1 DEF RowsInv

LEMMA OutsideListed ==
  ASSUME NEW k, NEW v, k.pc \in {"free", "queued", "meta"} \/ (k.pc = "replied" /\ k.art # Summary)
  PROVE  Listed(k, v)
  BY DEF Listed, Finalizing

(* The listing, and the choice of the next item.                            *)
LEMMA ListingKeeps ==
  ASSUME Inv, RowsInv, NEW c \in Slots, LoadRows(c) \/ Choose(c)
  PROVE  RowsInv'
  <1>a. call \in [Slots -> CallState] /\ call[c] \in CallState /\ Listed(call[c], archived)
    BY DEF Inv, TypeOK, RowsInv
  <1>b. archived' = archived /\ journal' = journal /\ journal \ {Bundle} \subseteq archived
    BY DEF LoadRows, Choose, elabVars, RowsInv
  <1>1. CASE LoadRows(c)
    <2> DEFINE rs == meta \intersect data
               todo == (IF rs \intersect Texts = {} THEN {} ELSE {Bundle})
                         \union (rs \intersect Raws) \union {Summary}
               new == [call[c] EXCEPT !.pc = "choose", !.rows = rs, !.todo = todo]
    <2>1. rs \subseteq Texts \union Raws
      BY DEF Inv, TypeOK, Staging
    <2>2. \A r \in rs : \E i \in todo : r \in Holds(i, rs)
      <3> TAKE r \in rs
      <3>1. CASE r \in Texts
        BY <3>1 DEF Holds
      <3>2. CASE r \in Raws
        <4>1. r # Bundle /\ r \in todo
          BY <3>2 DEF Artifacts, Staging
        <4> QED BY <4>1 DEF Holds
      <3> QED BY <2>1, <3>1, <3>2
    <2> HIDE DEF rs, todo
    <2>3. /\ new.pc = "choose" /\ new.rows = rs /\ new.todo = todo
          /\ call'[c] = new /\ \A d \in Slots \ {c} : call'[d] = call[d]
      BY <1>1, <1>a DEF LoadRows, CallState, rs, todo
    <2> HIDE DEF new
    <2>4. Listed(new, archived')
      BY <2>2, <2>3 DEF Listed
    <2> QED BY <1>b, <2>3, <2>4, ListedKeeps
  <1>2. CASE Choose(c)
    <2>1. PICK i \in Items :
            /\ InTurn(c, i)
            /\ call' = [call EXCEPT
                 ![c].pc = IF i \in journal \ {Bundle} THEN After(i) ELSE "post",
                 ![c].item = i,
                 ![c].todo = @ \ {i}]
      BY <1>2 DEF Choose
    <2> DEFINE pc == IF i \in journal \ {Bundle} THEN After(i) ELSE "post"
               new == [call[c] EXCEPT !.pc = pc, !.item = i, !.todo = call[c].todo \ {i}]
    <2>2. \/ pc = "post"
          \/ pc \in {"final", "choose"} /\ (pc = "final" => i = Summary) /\ i \in archived /\ i # Bundle
      BY <1>b DEF After
    <2> HIDE DEF pc
    <2>3. /\ new.pc = pc /\ new.rows = call[c].rows /\ new.item = i /\ new.todo = call[c].todo \ {i}
          /\ call' = [call EXCEPT ![c] = new]
      BY <2>1, <1>a DEF CallState, pc
    <2>4. call'[c] = new /\ \A d \in Slots \ {c} : call'[d] = call[d]
      BY <1>a, <2>3
    <2> HIDE DEF new
    <2>5. i = Summary => new.todo = {}
      BY <2>1, <2>3 DEF InTurn
    <2>6. ASSUME NEW r \in call[c].rows
          PROVE  \/ r \in archived \/ \E j \in new.todo : r \in Holds(j, new.rows)
                 \/ new.pc = "post" /\ r \in Holds(new.item, new.rows)
      <3>1. r \in archived \/ \E j \in call[c].todo : r \in Holds(j, call[c].rows)
        BY <1>2, <1>a DEF Choose, Listed, Finalizing
      <3>2. pc # "post" => Holds(i, call[c].rows) \subseteq archived
        BY <2>2 DEF Holds
      <3> QED BY <2>2, <2>3, <3>1, <3>2
    <2>7. Listed(new, archived')
      BY <1>b, <2>2, <2>3, <2>5, <2>6 DEF Listed
    <2> QED BY <1>b, <2>4, <2>7, ListedKeeps
  <1> QED BY <1>1, <1>2

(* The upload of an item, its journal line, and the answer.                 *)
LEMMA UploadingKeeps ==
  ASSUME Inv, RowsInv, NEW c \in Slots, PostItem(c) \/ RecordItem(c) \/ Finalized(c)
  PROVE  RowsInv'
  <1>a. call \in [Slots -> CallState] /\ call[c] \in CallState /\ Listed(call[c], archived)
    BY DEF Inv, TypeOK, RowsInv
  <1>b. \A ok \in BOOLEAN : Reply(c, ok) =>
          /\ call'[c].pc = "replied" /\ call'[c].ok = ok /\ call'[c].rows = call[c].rows
          /\ \A d \in Slots \ {c} : call'[d] = call[d]
    BY <1>a DEF Reply, CallState
  <1>c. \A pc \in CallPcs : call' = [call EXCEPT ![c].pc = pc] =>
          /\ call'[c].pc = pc /\ call'[c].rows = call[c].rows
          /\ call'[c].item = call[c].item /\ call'[c].todo = call[c].todo
          /\ \A d \in Slots \ {c} : call'[d] = call[d]
    BY <1>a DEF CallState
  <1>d. Reply(c, FALSE) => Listed(call'[c], archived')
    BY <1>b DEF Listed, Finalizing
  <1>1. CASE PostItem(c)
    <2> DEFINE i == call[c].item
    <2>1. /\ archived' = archived \/ archived' = archived \union Holds(i, call[c].rows)
          /\ journal' = journal
      BY <1>1 DEF PostItem
    <2>2. Reply(c, FALSE) \/ (call' = [call EXCEPT ![c].pc = "record"]
                              /\ archived' = archived \union Holds(i, call[c].rows))
      BY <1>1 DEF PostItem
    <2>3. ASSUME call' = [call EXCEPT ![c].pc = "record"],
                 archived' = archived \union Holds(i, call[c].rows)
          PROVE  Listed(call'[c], archived') /\ \A d \in Slots \ {c} : call'[d] = call[d]
      <3>1. /\ call'[c].pc = "record" /\ call'[c].rows = call[c].rows
            /\ call'[c].item = i /\ call'[c].todo = call[c].todo
            /\ \A d \in Slots \ {c} : call'[d] = call[d]
        BY <1>c, <2>3 DEF CallPcs, Finalizing
      <3>2. i \in archived' \union {Bundle}
        BY <2>3 DEF Holds
      <3>3. call[c].pc = "post"
        BY <1>1 DEF PostItem
      <3> QED BY <1>a, <2>3, <3>1, <3>2, <3>3 DEF Listed, Finalizing
    <2>4. archived \subseteq archived' /\ journal' \ {Bundle} \subseteq archived'
      BY <2>1 DEF RowsInv
    <2> QED BY <1>b, <1>d, <2>2, <2>3, <2>4, ListedKeeps
  <1>2. CASE RecordItem(c)
    <2>1. archived' = archived /\ (journal' = journal \/ journal' = journal \union {call[c].item})
      BY <1>2 DEF RecordItem
    <2>2. Reply(c, FALSE) \/ call' = [call EXCEPT ![c].pc = After(call[c].item)]
      BY <1>2 DEF RecordItem
    <2>3. call[c].pc = "record" /\ call[c].item \in archived \union {Bundle}
      BY <1>2, <1>a DEF RecordItem, Listed
    <2>4. ASSUME call' = [call EXCEPT ![c].pc = After(call[c].item)]
          PROVE  Listed(call'[c], archived') /\ \A d \in Slots \ {c} : call'[d] = call[d]
      <3>1. After(call[c].item) \in {"final", "choose"}
            /\ (After(call[c].item) = "final" => call[c].item = Summary)
        BY DEF After
      <3>2. /\ call'[c].pc = After(call[c].item) /\ call'[c].rows = call[c].rows
            /\ call'[c].todo = call[c].todo
            /\ \A d \in Slots \ {c} : call'[d] = call[d]
        BY <1>c, <2>4, <3>1 DEF CallPcs, Finalizing
      <3> QED BY <1>a, <2>1, <2>3, <3>1, <3>2 DEF Listed, Finalizing
    <2>5. archived \subseteq archived' /\ journal' \ {Bundle} \subseteq archived'
      BY <2>1, <2>3 DEF RowsInv
    <2> QED BY <1>b, <1>d, <2>2, <2>4, <2>5, ListedKeeps
  <1>3. CASE Finalized(c)
    <2>1. PICK ok \in BOOLEAN : Reply(c, ok)
      BY <1>3 DEF Finalized
    <2>2. archived' = archived /\ journal' = journal /\ call[c].pc = "final"
      BY <1>3 DEF Finalized, elabVars
    <2>3. call[c].rows \subseteq archived
      BY <1>a, <2>2 DEF Listed, Finalizing
    <2>4. Listed(call'[c], archived')
      BY <1>b, <2>1, <2>2, <2>3 DEF Listed, Finalizing
    <2> QED BY <1>b, <2>1, <2>2, <2>4, ListedKeeps DEF RowsInv
  <1> QED BY <1>1, <1>2, <1>3

(* The steps that take no part in a finalization.                           *)
LEMMA OtherStepsKeep ==
  ASSUME Inv, RowsInv, UNCHANGED elabVars,
         \A c \in Slots : \/ call'[c] = call[c]
                          \/ call'[c].pc \in {"free", "queued", "meta"}
                          \/ call'[c].pc = "replied" /\ call'[c].art # Summary
  PROVE  RowsInv'
  <1>1. \A c \in Slots : call'[c] = call[c] \/ Listed(call'[c], archived')
    BY OutsideListed
  <1> QED BY <1>1, ListedKeeps DEF RowsInv, elabVars

LEMMA StagingKeeps ==
  ASSUME Inv, RowsInv, NEW c \in Slots,
         StoreData(c) \/ StoreCollides(c) \/ StoreMeta(c) \/ DropAnswer(c) \/ LoseRequest(c)
  PROVE  RowsInv'
  <1>a. call \in [Slots -> CallState] /\ call[c] \in CallState /\ Honest(call[c], data, archived)
    BY DEF Inv, TypeOK, ServerInv
  <1>1. CASE StoreData(c)
    <2>1. call'[c].pc = "meta" /\ \A d \in Slots \ {c} : call'[d] = call[d]
      BY <1>1, <1>a DEF StoreData, CallState
    <2> QED BY <1>1, <2>1, OtherStepsKeep DEF StoreData
  <1>2. CASE StoreMeta(c) \/ StoreCollides(c)
    <2>1. PICK ok \in BOOLEAN : Reply(c, ok)
      BY <1>2 DEF StoreMeta, StoreCollides
    <2>2. /\ call'[c].pc = "replied" /\ call'[c].art = call[c].art
          /\ \A d \in Slots \ {c} : call'[d] = call[d]
      BY <2>1, <1>a DEF Reply, CallState
    <2>3. call[c].art # Summary /\ UNCHANGED elabVars
      BY <1>2, <1>a DEF StoreMeta, StoreCollides, Honest
    <2> QED BY <2>2, <2>3, OtherStepsKeep
  <1>3. CASE DropAnswer(c) \/ LoseRequest(c)
    <2>1. call' = [call EXCEPT ![c] = FreeCall] /\ UNCHANGED elabVars
      BY <1>3 DEF DropAnswer, LoseRequest
    <2>2. call'[c].pc = "free" /\ \A d \in Slots \ {c} : call'[d] = call[d]
      BY <2>1, <1>a DEF FreeCall
    <2> QED BY <2>1, <2>2, OtherStepsKeep
  <1> QED BY <1>1, <1>2, <1>3

LEMMA AgentKeepsRows ==
  ASSUME Inv, RowsInv, AgentStep \/ Prune \/ AgentCrash \/ ServerRestart
  PROVE  RowsInv'
  <1>1. CASE \E a \in Artifacts, c \in Slots : Transfer(a, c)
    <2>1. PICK a \in Artifacts, c \in Slots : Transfer(a, c)
      BY <1>1
    <2>2. call'[c].pc = "queued" /\ \A d \in Slots \ {c} : call'[d] = call[d]
      BY <2>1, TypeFacts DEF Transfer, FreeCall
    <2> QED BY <2>1, <2>2, OtherStepsKeep DEF Transfer
  <1>2. CASE TransferFailed \/ TransferDone
    <2>1. (call' = call \/ call' = [call EXCEPT ![agent.slot] = FreeCall]) /\ UNCHANGED elabVars
      BY <1>2 DEF TransferFailed, TransferDone
    <2>2. \A c \in Slots : call'[c] = call[c] \/ call'[c].pc = "free"
      BY <2>1, TypeFacts DEF FreeCall
    <2> QED BY <2>1, <2>2, OtherStepsKeep
  <1>3. CASE ServerRestart
    BY <1>3, OtherStepsKeep DEF ServerRestart, FreeCall
  <1>4. CASE \E a \in Artifacts : Skip(a) \/ RefuseLarge(a)
    BY <1>4, OtherStepsKeep DEF Skip, RefuseLarge
  <1>5. CASE \/ BeginFlush \/ EndTransfer \/ Publish \/ AgentStart \/ FinishRun \/ Prune \/ AgentCrash
    BY <1>5, OtherStepsKeep DEF BeginFlush, EndTransfer, Publish, AgentStart, FinishRun, Prune, AgentCrash
  <1> QED BY <1>1, <1>2, <1>3, <1>4, <1>5 DEF AgentStep

LEMMA RowsAlways == Spec => []RowsInv
  <1>1. Init => RowsInv
    BY DEF Init, RowsInv, Listed, FreeCall, Finalizing
  <1>2. Inv /\ RowsInv /\ [Next]_vars => RowsInv'
    <2> SUFFICES ASSUME Inv, RowsInv, [Next]_vars PROVE RowsInv'
      OBVIOUS
    <2>1. CASE UNCHANGED vars
      BY <2>1 DEF vars, RowsInv
    <2>2. CASE Next
      <3>1. \/ AgentStep \/ Prune \/ AgentCrash \/ ServerRestart
            \/ \E c \in Slots : ServerStep(c) \/ LoseRequest(c)
        BY <2>2, Zenon DEF Next
      <3>2. CASE \E c \in Slots : ServerStep(c) \/ LoseRequest(c)
        BY <3>2, ListingKeeps, UploadingKeeps, StagingKeeps, Zenon DEF ServerStep
      <3> QED BY <3>1, <3>2, AgentKeepsRows
    <2> QED BY <2>1, <2>2
  <1> QED BY <1>1, <1>2, InvAlways, PTL DEF Spec

(* The answer that a run is finalized means what it says: everything the    *)
(* server had staged when it listed its spool is in eLabFTW, in the bundle  *)
(* or by itself, and the summary with it.                                   *)
THEOREM FinalizationsAreComplete == Spec => []FinalizedHoldsRows
  <1>1. Inv /\ RowsInv => FinalizedHoldsRows
    <2> SUFFICES ASSUME Inv, RowsInv, NEW c \in Slots,
                        call[c].pc = "replied", call[c].ok, call[c].art = Summary
                 PROVE  call[c].rows \union {Summary} \subseteq archived
      BY DEF FinalizedHoldsRows
    <2>1. call[c].rows \subseteq archived
      BY DEF RowsInv, Listed
    <2>2. Summary \in archived
      <3>1. Honest(call[c], data, archived) /\ data \subseteq Staging
        BY DEF Inv, TypeOK, ServerInv
      <3> QED BY <3>1 DEF Honest
    <2> QED BY <2>1, <2>2
  <1> QED BY <1>1, RowsAlways, InvAlways, PTL

-------------------------------------------------------------------------------
(* How often an item is uploaded.  One finalization at a time: the lookup   *)
(* in the journal is good until the upload is recorded there.               *)
AloneInv == \A c \in Slots, d \in Slots : call[c].pc \in Finalizing /\ call[d].pc \in Finalizing => c = d

(* A copy is in the journal, or its upload is about to be recorded.         *)
CopyInv ==
  \A i \in Items \ {Bundle} :
    /\ copies[i] <= 1
    /\ copies[i] = 0 \/ i \in journal \/ \E c \in Slots : call[c].pc = "record" /\ call[c].item = i

LookupInv == \A c \in Slots : call[c].pc = "post" => call[c].item \notin journal \ {Bundle}

OnceInv == ~excused => AloneInv /\ CopyInv /\ LookupInv

(* Steps that take no call further into a finalization.                     *)
LEMMA QuietKeepsOnce ==
  ASSUME OnceInv, excused => excused', UNCHANGED <<journal, copies>>,
         \A c \in Slots : \/ call'[c] = call[c]
                          \/ call'[c].pc \notin Finalizing /\ (call[c].pc = "record" => excused')
  PROVE  OnceInv'
  <1> SUFFICES ASSUME ~excused' PROVE AloneInv' /\ CopyInv' /\ LookupInv'
    BY DEF OnceInv
  <1>a. AloneInv /\ CopyInv /\ LookupInv
    BY DEF OnceInv
  <1>1. AloneInv'
    BY <1>a DEF AloneInv
  <1>2. CopyInv'
    BY <1>a DEF CopyInv
  <1>3. LookupInv'
    BY <1>a DEF LookupInv, Finalizing
  <1> QED BY <1>1, <1>2, <1>3

LEMMA ListingKeepsOnce ==
  ASSUME Inv, OnceInv, NEW c \in Slots, LoadRows(c) \/ Choose(c)
  PROVE  OnceInv'
  <1>a. call \in [Slots -> CallState] /\ call[c] \in CallState
    BY DEF Inv, TypeOK
  <1>b. UNCHANGED <<journal, copies>> /\ (excused => excused')
    <2>1. UNCHANGED <<journal, copies>>
      BY DEF LoadRows, Choose, elabVars
    <2>2. LoadRows(c) => (excused => excused')
      BY Zenon DEF LoadRows
    <2>3. Choose(c) => (excused => excused')
      BY Zenon DEF Choose
    <2> QED BY <2>1, <2>2, <2>3
  <1> SUFFICES ASSUME ~excused' PROVE AloneInv' /\ CopyInv' /\ LookupInv'
    BY DEF OnceInv
  <1>c. AloneInv /\ CopyInv /\ LookupInv
    BY <1>b DEF OnceInv
  <1>d. \A d \in Slots \ {c} : call'[d] = call[d]
    BY <1>a DEF LoadRows, Choose
  <1>e. \A d \in Slots \ {c} : call[d].pc \notin Finalizing
    <2>1. CASE LoadRows(c)
      BY <2>1 DEF LoadRows
    <2>2. CASE Choose(c)
      BY <2>2, <1>c DEF Choose, AloneInv, Finalizing
    <2> QED BY <2>1, <2>2
  <1>f. call[c].pc # "record"
    BY DEF LoadRows, Choose
  <1>1. AloneInv'
    BY <1>d, <1>e DEF AloneInv
  <1>2. CopyInv'
    BY <1>b, <1>c, <1>d, <1>f DEF CopyInv
  <1>3. call'[c].pc = "post" => call'[c].item \notin journal \ {Bundle}
    <2>1. CASE LoadRows(c)
      <3>1. call'[c].pc = "choose"
        BY <2>1, <1>a DEF LoadRows, CallState
      <3> QED BY <3>1
    <2>2. CASE Choose(c)
      <3>1. PICK i \in Items :
              call' = [call EXCEPT
                 ![c].pc = IF i \in journal \ {Bundle} THEN After(i) ELSE "post",
                 ![c].item = i,
                 ![c].todo = @ \ {i}]
        BY <2>2 DEF Choose
      <3>2. /\ call'[c].pc = (IF i \in journal \ {Bundle} THEN After(i) ELSE "post")
            /\ call'[c].item = i
        BY <3>1, <1>a DEF CallState
      <3> QED BY <3>2 DEF After
    <2> QED BY <2>1, <2>2
  <1>4. LookupInv'
    BY <1>b, <1>c, <1>d, <1>3 DEF LookupInv
  <1> QED BY <1>1, <1>2, <1>4

LEMMA PostKeepsOnce ==
  ASSUME Inv, OnceInv, NEW c \in Slots, PostItem(c)
  PROVE  OnceInv'
  <1>a. /\ call \in [Slots -> CallState] /\ call[c] \in CallState
        /\ copies \in [Items -> Nat] /\ call[c].item \in Items /\ call[c].pc = "post"
    BY DEF Inv, TypeOK, CallState, PostItem
  <1>1. CASE Reply(c, FALSE) /\ UNCHANGED <<copies, archived, excused>>
    <2>1. call'[c].pc = "replied" /\ \A d \in Slots \ {c} : call'[d] = call[d]
      BY <1>1, <1>a DEF Reply, CallState
    <2> QED BY <1>1, <1>a, <2>1, QuietKeepsOnce DEF PostItem, Finalizing
  <1>2. CASE excused'
    BY <1>2 DEF OnceInv
  <1>3. CASE /\ copies' = [copies EXCEPT ![call[c].item] = @ + 1]
             /\ call' = [call EXCEPT ![c].pc = "record"]
             /\ UNCHANGED excused
    <2> DEFINE i == call[c].item
    <2> SUFFICES ASSUME ~excused PROVE AloneInv' /\ CopyInv' /\ LookupInv'
      BY <1>3 DEF OnceInv
    <2>1. AloneInv /\ CopyInv /\ LookupInv
      BY DEF OnceInv
    <2>2. /\ call'[c].pc = "record" /\ call'[c].item = i
          /\ \A d \in Slots \ {c} : call'[d] = call[d]
      BY <1>3, <1>a DEF CallState
    <2>3. \A d \in Slots \ {c} : call[d].pc \notin Finalizing
      BY <1>a, <2>1 DEF AloneInv, Finalizing
    <2>4. journal' = journal
      BY DEF PostItem
    <2>5. AloneInv'
      BY <2>2, <2>3 DEF AloneInv
    <2>6. CopyInv'
      <3> SUFFICES ASSUME NEW j \in Items \ {Bundle}
                   PROVE  /\ copies'[j] <= 1
                          /\ copies'[j] = 0 \/ j \in journal
                               \/ \E d \in Slots : call'[d].pc = "record" /\ call'[d].item = j
        BY <2>4 DEF CopyInv
      <3>1. CASE j = i
        <4>1. copies[j] = 0
          BY <1>a, <2>1, <2>3, <3>1 DEF CopyInv, LookupInv, Finalizing
        <4>2. copies'[j] = 1
          BY <1>3, <1>a, <3>1, <4>1
        <4> QED BY <2>2, <3>1, <4>2
      <3>2. CASE j # i
        <4>1. copies'[j] = copies[j]
          BY <1>3, <1>a, <3>2
        <4>2. copies[j] <= 1 /\ (copies[j] = 0 \/ j \in journal)
          BY <1>a, <2>1, <2>3 DEF CopyInv, Finalizing
        <4> QED BY <4>1, <4>2
      <3> QED BY <3>1, <3>2
    <2>7. LookupInv'
      BY <2>1, <2>2, <2>4 DEF LookupInv
    <2> QED BY <2>5, <2>6, <2>7
  <1> QED BY <1>1, <1>2, <1>3 DEF PostItem

LEMMA RecordKeepsOnce ==
  ASSUME Inv, OnceInv, NEW c \in Slots, RecordItem(c)
  PROVE  OnceInv'
  <1>a. call \in [Slots -> CallState] /\ call[c] \in CallState /\ call[c].pc = "record"
    BY DEF Inv, TypeOK, RecordItem
  <1>1. CASE excused'
    BY <1>1 DEF OnceInv
  <1>2. CASE /\ journal' = journal \union {call[c].item}
             /\ call' = [call EXCEPT ![c].pc = After(call[c].item)]
             /\ UNCHANGED excused
    <2> SUFFICES ASSUME ~excused PROVE AloneInv' /\ CopyInv' /\ LookupInv'
      BY <1>2 DEF OnceInv
    <2>1. AloneInv /\ CopyInv /\ LookupInv
      BY DEF OnceInv
    <2>2. /\ call'[c].pc \in {"final", "choose"}
          /\ \A d \in Slots \ {c} : call'[d] = call[d]
      BY <1>2, <1>a DEF CallState, After
    <2>3. \A d \in Slots \ {c} : call[d].pc \notin Finalizing
      BY <1>a, <2>1 DEF AloneInv, Finalizing
    <2>4. copies' = copies
      BY DEF RecordItem
    <2>5. AloneInv'
      BY <2>2, <2>3 DEF AloneInv
    <2>6. CopyInv'
      BY <1>2, <2>1, <2>3, <2>4 DEF CopyInv, Finalizing
    <2>7. LookupInv'
      BY <2>2, <2>3 DEF LookupInv, Finalizing
    <2> QED BY <2>5, <2>6, <2>7
  <1> QED BY <1>1, <1>2 DEF RecordItem

(* The steps that take no part in a finalization, and its answer.           *)
LEMMA OtherCallsKeepOnce ==
  ASSUME Inv, OnceInv, NEW c \in Slots,
         \/ StoreData(c) \/ StoreCollides(c) \/ StoreMeta(c)
         \/ Finalized(c) \/ DropAnswer(c) \/ LoseRequest(c)
  PROVE  OnceInv'
  <1>a. call \in [Slots -> CallState] /\ call[c] \in CallState
    BY DEF Inv, TypeOK
  <1>b. UNCHANGED <<journal, copies>> /\ excused' = excused /\ call[c].pc # "record"
    BY DEF StoreData, StoreCollides, StoreMeta, Finalized, DropAnswer, LoseRequest, elabVars
  <1>c. ASSUME NEW ok, Reply(c, ok)
        PROVE  call'[c].pc = "replied" /\ \A d \in Slots \ {c} : call'[d] = call[d]
    BY <1>a, <1>c DEF Reply, CallState
  <1>1. CASE StoreData(c)
    <2>1. call'[c].pc = "meta" /\ \A d \in Slots \ {c} : call'[d] = call[d]
      BY <1>1, <1>a DEF StoreData, CallState
    <2> QED BY <1>b, <2>1, QuietKeepsOnce DEF Finalizing
  <1>2. CASE StoreCollides(c) \/ StoreMeta(c) \/ Finalized(c)
    <2>1. Reply(c, TRUE) \/ Reply(c, FALSE)
      BY <1>2 DEF StoreCollides, StoreMeta, Finalized
    <2> QED BY <1>b, <1>c, <2>1, QuietKeepsOnce DEF Finalizing
  <1>3. CASE DropAnswer(c) \/ LoseRequest(c)
    <2>1. call'[c].pc = "free" /\ \A d \in Slots \ {c} : call'[d] = call[d]
      BY <1>3, <1>a DEF DropAnswer, LoseRequest, FreeCall
    <2> QED BY <1>b, <2>1, QuietKeepsOnce DEF Finalizing
  <1> QED BY <1>1, <1>2, <1>3

LEMMA AgentKeepsOnce ==
  ASSUME Inv, OnceInv, AgentStep \/ Prune \/ AgentCrash \/ ServerRestart
  PROVE  OnceInv'
  <1>1. CASE \E a \in Artifacts, c \in Slots : Transfer(a, c)
    <2>1. PICK a \in Artifacts, c \in Slots : Transfer(a, c)
      BY <1>1
    <2>2. /\ call[c].pc = "free" /\ call'[c].pc = "queued"
          /\ \A d \in Slots \ {c} : call'[d] = call[d]
      BY <2>1, TypeFacts DEF Transfer, FreeCall
    <2> QED BY <2>1, <2>2, QuietKeepsOnce DEF Transfer, elabVars, Finalizing
  <1>2. CASE TransferFailed \/ TransferDone
    <2>1. /\ call' = call \/ /\ call' = [call EXCEPT ![agent.slot] = FreeCall]
                             /\ call[agent.slot].pc = "replied"
          /\ UNCHANGED elabVars /\ excused' = excused
      BY <1>2 DEF TransferFailed, TransferDone
    <2>2. \A c \in Slots : call'[c] = call[c] \/ (call'[c].pc = "free" /\ call[c].pc = "replied")
      BY <2>1, TypeFacts DEF FreeCall
    <2> QED BY <2>1, <2>2, QuietKeepsOnce DEF elabVars, Finalizing
  <1>3. CASE ServerRestart
    <2>1. \A c \in Slots : call'[c].pc = "free" /\ (call[c].pc = "record" => excused')
      BY <1>3 DEF ServerRestart, FreeCall
    <2> QED BY <1>3, <2>1, QuietKeepsOnce DEF ServerRestart, elabVars, Finalizing
  <1>4. CASE \E a \in Artifacts : Skip(a) \/ RefuseLarge(a)
    BY <1>4, QuietKeepsOnce DEF Skip, RefuseLarge, elabVars
  <1>5. CASE \/ BeginFlush \/ EndTransfer \/ Publish \/ AgentStart \/ FinishRun \/ Prune \/ AgentCrash
    BY <1>5, QuietKeepsOnce
    DEF BeginFlush, EndTransfer, Publish, AgentStart, FinishRun, Prune, AgentCrash, elabVars
  <1> QED BY <1>1, <1>2, <1>3, <1>4, <1>5 DEF AgentStep

LEMMA OnceStep == Inv /\ OnceInv /\ [Next]_vars => OnceInv'
  <1> SUFFICES ASSUME Inv, OnceInv, [Next]_vars PROVE OnceInv'
    OBVIOUS
  <1>1. CASE UNCHANGED vars
    BY <1>1, QuietKeepsOnce DEF vars
  <1>2. CASE Next
    <2>1. \/ AgentStep \/ Prune \/ AgentCrash \/ ServerRestart
          \/ \E c \in Slots : ServerStep(c) \/ LoseRequest(c)
      BY <1>2, Zenon DEF Next
    <2>2. CASE \E c \in Slots : ServerStep(c) \/ LoseRequest(c)
      BY <2>2, ListingKeepsOnce, PostKeepsOnce, RecordKeepsOnce, OtherCallsKeepOnce, Zenon
      DEF ServerStep
    <2> QED BY <2>1, <2>2, AgentKeepsOnce
  <1> QED BY <1>1, <1>2

(* However often the summary arrives and a run is finalized, a raw file and *)
(* the summary have one copy in eLabFTW (upload_raw_artifact_to_elab looks  *)
(* into the journal first), unless an upload was interrupted before its     *)
(* journal line, or two finalizations were in progress together.            *)
THEOREM ItemsAreUploadedOnce == Spec => []UploadedOnce
  <1>1. Init => OnceInv
    BY SMT DEF Init, OnceInv, AloneInv, CopyInv, LookupInv, FreeCall, Finalizing
  <1>2. OnceInv => UploadedOnce
    BY DEF OnceInv, CopyInv, UploadedOnce
  <1> QED BY <1>1, <1>2, OnceStep, InvAlways, PTL DEF Spec
===============================================================================
