-------------------------- MODULE ReportDeliveryProofs --------------------------
(***************************************************************************)
(* Proofs about ReportDelivery, for any number of runs, calls and faults:   *)
(* its types, that a run is only let go when its events are recorded, and   *)
(* that it implements RunCustody.                                           *)
(***************************************************************************)
EXTENDS ReportDelivery, TLAPS

USE DeliveryAssumption

(* Every action of Next by name, the case split of all proofs below.        *)
LEMMA Actions ==
  ASSUME Next
  PROVE  \/ \E r \in Runs : StartRun(r) \/ NextRun(r) \/ Quarantine(r)
         \/ FinishRun \/ BeginFlush \/ UploadArtifacts \/ Deadline \/ RpcError
         \/ Answer \/ MarkSent \/ EndFlush \/ AgentCrash \/ AgentStart
         \/ \E c \in Slots : \/ Send(c) \/ CheckReport(c) \/ IngestEvent(c)
                             \/ RejectReport(c) \/ AcceptReport(c) \/ DropAnswer(c)
                             \/ LoseRequest(c)
         \/ ServerRestart
  BY Zenon DEF Next, AgentStep, ServerStep

LEMMA Defaults == AnyRun \in Runs /\ AnySlot \in Slots
  BY DEF AnyRun, AnySlot

(* A call that is free, or just received, is a well-formed call.            *)
LEMMA FreeCallTyped == FreeCall \in CallState
  BY Defaults DEF FreeCall, CallState, CallPcs, Statuses

LEMMA LoopTyped == Loop \in AgentState
  BY Defaults DEF Loop, AgentState, AgentPcs

LEMMA EventsTyped ==
  ASSUME NEW r \in Runs
  PROVE  /\ EventsOf[r] \in Seq(EventIds)
         /\ EventSet(r) \subseteq EventIds
         /\ DOMAIN EventsOf[r] = 1 .. Len(EventsOf[r])
         /\ Len(EventsOf[r]) \in Nat \ {0}
  BY DEF EventSet

-------------------------------------------------------------------------------
(* Before a call ingests an event, the event exists.                        *)
NextExists ==
  \A c \in Slots : call[c].pc = "ingest" => call[c].next \in DOMAIN EventsOf[call[c].run]

Typed == TypeOK /\ NextExists /\ \A c \in Slots : call[c].pc = "queued" => call[c].next = 1

LEMMA TypedInit == Init => Typed
  BY FreeCallTyped, LoopTyped
     DEF Init, FaultRecord, Typed, TypeOK, NextExists, Places, Events!Init, FreeCall

(* A step of the agent alone keeps Typed when it keeps the types of what    *)
(* the agent changes.                                                       *)
LEMMA AgentKeepsTyped ==
  ASSUME Typed, agent' \in AgentState, spool' \in [Runs -> Places], faults' \in FaultRecord,
         UNCHANGED <<call, serverVars, overlapped>>
  PROVE  Typed'
  BY DEF Typed, TypeOK, NextExists, serverVars

(* A step that changes call c only keeps Typed when the new call is typed.  *)
LEMMA CallKeepsTyped ==
  ASSUME Typed, NEW c \in Slots, NEW new \in CallState,
         call' = [call EXCEPT ![c] = new],
         new.pc = "ingest" => new.next \in DOMAIN EventsOf[new.run],
         new.pc = "queued" => new.next = 1,
         agent' \in AgentState, spool' = spool,
         reports' \subseteq Runs, saved' \subseteq Runs,
         ledger' \subseteq EventIds, acked' \subseteq EventIds,
         faults' \in FaultRecord, accepted' \in [Runs -> Nat], overlapped' \subseteq Runs
  PROVE  Typed'
<1>1. call' \in [Slots -> CallState] /\ call'[c] = new /\ \A d \in Slots \ {c} : call'[d] = call[d]
  BY DEF Typed, TypeOK
<1> QED
  BY <1>1 DEF Typed, TypeOK, NextExists

LEMMA FaultTyped ==
  ASSUME Typed, NEW kind, Fault(kind) \/ NoFault
  PROVE  faults' \in FaultRecord
<1>1. faults \in FaultRecord
  BY DEF Typed, TypeOK
<1>2. CASE NoFault
  BY <1>1, <1>2 DEF NoFault
<1>3. CASE Fault(kind)
  <2> DEFINE save == faults.save \/ kind = "save"
  <2>1. faults.count + 1 \in Nat
    BY <1>1 DEF FaultRecord
  <2>2. save \in BOOLEAN
    OBVIOUS
  <2>3. faults' = [count |-> faults.count + 1, save |-> save]
    BY <1>3 DEF Fault
  <2> HIDE DEF save
  <2> QED BY <2>1, <2>2, <2>3 DEF FaultRecord
<1> QED BY <1>2, <1>3

LEMMA TypedStep == Typed /\ [Next]_vars => Typed'
<1> SUFFICES ASSUME Typed, [Next]_vars PROVE Typed'
  OBVIOUS
<1>a. agent \in AgentState /\ spool \in [Runs -> Places] /\ faults \in FaultRecord
  BY DEF Typed, TypeOK
<1>b. /\ reports \subseteq Runs /\ saved \subseteq Runs
      /\ ledger \subseteq EventIds /\ acked \subseteq EventIds
      /\ accepted \in [Runs -> Nat] /\ overlapped \subseteq Runs
  BY DEF Typed, TypeOK
<1>c. call \in [Slots -> CallState]
  BY DEF Typed, TypeOK
<1>1. CASE UNCHANGED vars
  BY <1>1 DEF vars, Typed, TypeOK, NextExists
<1>2. ASSUME NEW r \in Runs, StartRun(r)
      PROVE  Typed'
  <2>1. agent' \in AgentState
    BY <1>2, <1>a DEF StartRun, AgentState, AgentPcs
  <2>2. spool' \in [Runs -> Places]
    BY <1>2, <1>a DEF StartRun, Places
  <2> QED BY <1>2, <1>a, <2>1, <2>2, AgentKeepsTyped DEF StartRun
<1>3. ASSUME NEW r \in Runs, NextRun(r)
      PROVE  Typed'
  <2>1. agent' \in AgentState
    BY <1>3, <1>a DEF NextRun, AgentState, AgentPcs
  <2> QED BY <1>3, <1>a, <2>1, AgentKeepsTyped DEF NextRun
<1>4. ASSUME NEW r \in Runs, Quarantine(r)
      PROVE  Typed'
  <2>1. agent' \in AgentState
    BY <1>4, <1>a DEF Quarantine, AgentState
  <2>2. spool' \in [Runs -> Places]
    BY <1>4, <1>a DEF Quarantine, Places
  <2> QED BY <1>4, <2>1, <2>2, AgentKeepsTyped, FaultTyped DEF Quarantine
<1>5. CASE FinishRun \/ MarkSent
  <2>1. agent' \in AgentState
    BY <1>5, <1>a DEF FinishRun, MarkSent, Goto, AgentState, AgentPcs
  <2>2. spool' \in [Runs -> Places]
    BY <1>5, <1>a DEF FinishRun, MarkSent, Places
  <2>3. UNCHANGED <<call, serverVars, overlapped, faults>>
    BY <1>5 DEF FinishRun, MarkSent
  <2> QED BY <1>a, <2>1, <2>2, <2>3, AgentKeepsTyped
<1>6. CASE BeginFlush
  <2>1. agent' \in AgentState
    BY <1>6, <1>a DEF BeginFlush, AgentState, AgentPcs
  <2> QED BY <1>6, <1>a, <2>1, AgentKeepsTyped DEF BeginFlush
<1>7. CASE UploadArtifacts
  <2>1. agent' \in AgentState
    BY <1>7, <1>a DEF UploadArtifacts, Goto, AgentState, AgentPcs
  <2> QED BY <1>7, <1>a, <2>1, AgentKeepsTyped, FaultTyped DEF UploadArtifacts
<1>8. CASE Deadline
  <2>1. agent' \in AgentState
    <3>1. agent.tries + 1 \in Nat
      BY <1>a DEF AgentState
    <3>2. CASE agent.tries < ConfirmRetries
      <4>1. agent' = [agent EXCEPT !.pc = "send", !.tries = agent.tries + 1]
        BY <1>8, <3>2 DEF Deadline
      <4> QED BY <1>a, <3>1, <4>1 DEF AgentState, AgentPcs
    <3>3. CASE ~(agent.tries < ConfirmRetries)
      BY <1>8, <1>a, <3>3 DEF Deadline, Goto, AgentState, AgentPcs
    <3> QED BY <3>2, <3>3
  <2> QED BY <1>8, <1>a, <2>1, AgentKeepsTyped, FaultTyped DEF Deadline
<1>9. CASE RpcError
  <2>1. agent' \in AgentState
    BY <1>9, <1>a DEF RpcError, Goto, AgentState, AgentPcs
  <2> QED BY <1>9, <1>a, <2>1, AgentKeepsTyped, FaultTyped DEF RpcError
<1>10. CASE EndFlush
  <2>1. agent' \in AgentState
    BY <1>10, <1>a DEF EndFlush, Goto, AgentState, AgentPcs
  <2>2. spool' \in [Runs -> Places]
    BY <1>10, <1>a DEF EndFlush, Places
  <2> QED BY <1>10, <1>a, <2>1, <2>2, AgentKeepsTyped DEF EndFlush
<1>11. CASE AgentCrash
  <2>1. [Loop EXCEPT !.pc = "down"] \in AgentState
    BY LoopTyped DEF AgentState, AgentPcs
  <2> QED BY <1>11, <1>a, <2>1, AgentKeepsTyped, FaultTyped DEF AgentCrash
<1>12. CASE AgentStart
  BY <1>12, <1>a, LoopTyped, AgentKeepsTyped DEF AgentStart
<1>13. CASE Answer
  <2>1. agent' \in AgentState /\ agent.slot \in Slots
    BY <1>13, <1>a DEF Answer, Goto, AgentState, AgentPcs
  <2> QED
    BY <1>13, <1>a, <1>b, <2>1, FreeCallTyped, CallKeepsTyped DEF Answer, serverVars, FreeCall
<1>14. ASSUME NEW c \in Slots, Send(c)
       PROVE  Typed'
  <2> DEFINE new == [FreeCall EXCEPT !.pc = "queued", !.run = agent.run]
  <2>1. agent' \in AgentState /\ overlapped' \subseteq Runs
    BY <1>14, <1>a, <1>b DEF Send, AgentState, AgentPcs
  <2>2. new \in CallState /\ new.pc = "queued" /\ new.next = 1
    BY <1>a, FreeCallTyped DEF FreeCall, CallState, CallPcs, AgentState
  <2>3. call' = [call EXCEPT ![c] = new]
    BY <1>14 DEF Send
  <2> HIDE DEF new
  <2> QED BY <1>14, <1>a, <1>b, <2>1, <2>2, <2>3, CallKeepsTyped DEF Send, serverVars
<1>15. ASSUME NEW c \in Slots, CheckReport(c)
       PROVE  Typed'
  <2>1. call[c] \in CallState /\ call[c].next = 1 /\ 1 \in DOMAIN EventsOf[call[c].run]
    BY <1>15, <1>c, EventsTyped DEF CheckReport, CallState, Typed
  <2>2. CASE call[c].run \in reports
    <3> DEFINE new == [call[c] EXCEPT !.pc = "replied", !.status = "DUPLICATE"]
    <3>1. new \in CallState /\ new.pc = "replied"
      BY <2>1 DEF CallState, CallPcs, Statuses
    <3>2. call' = [call EXCEPT ![c] = new]
      BY <1>15, <1>c, <2>2 DEF CheckReport, Reply, CallState
    <3> HIDE DEF new
    <3> QED BY <1>15, <1>a, <1>b, <3>1, <3>2, CallKeepsTyped
            DEF CheckReport, agentVars, serverVars
  <2>3. CASE call[c].run \notin reports
    <3> DEFINE new == [call[c] EXCEPT !.pc = "ingest"]
    <3>1. /\ new \in CallState /\ new.pc = "ingest"
          /\ new.next = 1 /\ new.run = call[c].run
      BY <2>1 DEF CallState, CallPcs
    <3>2. call' = [call EXCEPT ![c] = new]
      BY <1>15, <1>c, <2>3 DEF CheckReport, CallState
    <3> HIDE DEF new
    <3> QED BY <1>15, <1>a, <1>b, <2>1, <3>1, <3>2, CallKeepsTyped
            DEF CheckReport, agentVars, serverVars
  <2> QED BY <2>2, <2>3
<1>16. ASSUME NEW c \in Slots, IngestEvent(c)
       PROVE  Typed'
  <2> DEFINE r == call[c].run
             n == call[c].next
  <2>1. call[c] \in CallState /\ r \in Runs /\ n \in DOMAIN EventsOf[r] /\ call[c].pc = "ingest"
    BY <1>16, <1>c DEF IngestEvent, CallState, Typed, NextExists
  <2>2. EventsOf[r][n] \in EventIds /\ n \in 1 .. Len(EventsOf[r])
    BY <2>1, EventsTyped
  <2>3. PICK ok \in BOOLEAN :
          /\ \/ /\ ok
                /\ NoFault
                /\ Events!RecordAndAcknowledge(EventsOf[r][n])
                /\ saved' \in {saved, reports}
             \/ /\ ~ok
                /\ Fault("ingest")
                /\ Events!Record(EventsOf[r][n]) \/ UNCHANGED <<ledger, acked>>
                /\ saved' \in {saved, reports}
          /\ call' = [call EXCEPT ![c].next = @ + 1, ![c].failed = @ \/ ~ok,
                                  ![c].pc = IF n = Len(EventsOf[r]) THEN "decide" ELSE "ingest"]
    BY <1>16 DEF IngestEvent
  <2> DEFINE new == [call[c] EXCEPT !.next = @ + 1, !.failed = @ \/ ~ok,
                                    !.pc = IF n = Len(EventsOf[r]) THEN "decide" ELSE "ingest"]
  <2>4. new \in CallState
    <3> DEFINE failing == call[c].failed \/ ~ok
               after == IF n = Len(EventsOf[r]) THEN "decide" ELSE "ingest"
    <3>1. failing \in BOOLEAN
      OBVIOUS
    <3>2. n + 1 \in Nat \ {0}
      BY <2>1 DEF CallState
    <3>3. after \in CallPcs
      BY DEF CallPcs
    <3>4. new = [call[c] EXCEPT !.next = n + 1, !.failed = failing, !.pc = after]
      OBVIOUS
    <3> HIDE DEF failing, after, new, n, r
    <3> QED BY <2>1, <3>1, <3>2, <3>3, <3>4 DEF CallState
  <2>5. call' = [call EXCEPT ![c] = new]
    BY <1>c, <2>3 DEF CallState
  <2>6. new.pc = "ingest" => new.next \in DOMAIN EventsOf[new.run]
    BY <2>1, <2>2, EventsTyped DEF CallState
  <2>7. new.pc # "queued"
    BY <2>1 DEF CallState
  <2>8. /\ ledger' \subseteq EventIds /\ acked' \subseteq EventIds
        /\ saved' \subseteq Runs /\ faults' \in FaultRecord
    <3> DEFINE e == EventsOf[r][n]
    <3>1. \/ Events!Record(e) \/ Events!RecordAndAcknowledge(e)
          \/ UNCHANGED <<ledger, acked>>
      BY <2>3, Zenon
    <3>2. saved' \in {saved, reports} /\ (Fault("ingest") \/ NoFault)
      BY <2>3, Zenon
    <3>3. e \in EventIds
      BY <2>2
    <3> HIDE DEF e, n, r, new
    <3>4. ledger' \subseteq EventIds /\ acked' \subseteq EventIds
      BY <1>b, <3>1, <3>3 DEF Events!Record, Events!RecordAndAcknowledge
    <3>5. faults' \in FaultRecord
      BY <3>2, FaultTyped
    <3> QED BY <1>b, <3>2, <3>4, <3>5
  <2> HIDE DEF new
  <2> QED BY <1>16, <1>a, <1>b, <2>4, <2>5, <2>6, <2>7, <2>8, CallKeepsTyped
          DEF IngestEvent, agentVars
<1>17. ASSUME NEW c \in Slots, RejectReport(c)
       PROVE  Typed'
  <2> DEFINE new == [call[c] EXCEPT !.pc = "replied", !.status = "REJECTED"]
  <2>1. new \in CallState /\ new.pc = "replied"
    BY <1>c DEF CallState, CallPcs, Statuses
  <2>2. call' = [call EXCEPT ![c] = new]
    BY <1>17, <1>c DEF RejectReport, Reply, CallState
  <2> HIDE DEF new
  <2> QED BY <1>17, <1>a, <1>b, <2>1, <2>2, CallKeepsTyped
          DEF RejectReport, agentVars, serverVars
<1>18. ASSUME NEW c \in Slots, AcceptReport(c)
       PROVE  Typed'
  <2>1. PICK status \in {"ACCEPTED", "ERROR"} :
          call' = [call EXCEPT ![c].pc = "replied", ![c].status = status]
    BY <1>18 DEF AcceptReport, Reply
  <2> DEFINE new == [call[c] EXCEPT !.pc = "replied", !.status = status]
  <2>2. new \in CallState /\ new.pc = "replied" /\ call[c].run \in Runs
    BY <1>c DEF CallState, CallPcs, Statuses
  <2>3. call' = [call EXCEPT ![c] = new]
    BY <1>c, <2>1 DEF CallState
  <2>4. /\ reports' \subseteq Runs /\ saved' \subseteq Runs
        /\ accepted' \in [Runs -> Nat]
    BY <1>18, <1>a, <1>b, <2>2 DEF AcceptReport
  <2>5. faults' \in FaultRecord
    BY <1>18, FaultTyped DEF AcceptReport
  <2> HIDE DEF new
  <2> QED BY <1>18, <1>a, <1>b, <2>2, <2>3, <2>4, <2>5, CallKeepsTyped DEF AcceptReport, agentVars
<1>19. ASSUME NEW c \in Slots, DropAnswer(c) \/ LoseRequest(c)
       PROVE  Typed'
  <2>1. call' = [call EXCEPT ![c] = FreeCall] /\ UNCHANGED <<agentVars, serverVars, overlapped>>
    BY <1>19 DEF DropAnswer, LoseRequest
  <2>2. faults' \in FaultRecord
    BY <1>19, <1>a, FaultTyped DEF DropAnswer, LoseRequest
  <2> QED BY <1>a, <1>b, <2>1, <2>2, FreeCallTyped, CallKeepsTyped
          DEF agentVars, serverVars, FreeCall
<1>20. CASE ServerRestart
  <2>1. call' \in [Slots -> CallState] /\ \A c \in Slots : call'[c].pc = "free"
    BY <1>20, FreeCallTyped DEF ServerRestart, FreeCall
  <2> QED BY <1>20, <1>a, <1>b, <2>1, FaultTyped
          DEF ServerRestart, agentVars, Typed, TypeOK, NextExists
<1> QED
  BY <1>1, <1>2, <1>3, <1>4, <1>5, <1>6, <1>7, <1>8, <1>9, <1>10, <1>11, <1>12, <1>13,
     <1>14, <1>15, <1>16, <1>17, <1>18, <1>19, <1>20, Actions

(* The variables keep their types.                                          *)
THEOREM TypeCorrect == Spec => []TypeOK
<1>1. Typed => TypeOK
  BY DEF Typed
<1> QED BY <1>1, TypedInit, TypedStep, PTL DEF Spec

--------------------------------------------------------------------------------
(* What is told of a run is true of the ledger.                             *)

(* CallIsHonest, of the state k of a call and the events l recorded.        *)
Honest(k, l) ==
  /\ k.pc = "queued" => k.next = 1
  /\ k.pc = "ingest" =>
       /\ k.next \in DOMAIN EventsOf[k.run]
       /\ ~k.failed => \A i \in 1 .. k.next - 1 : EventsOf[k.run][i] \in l
  /\ k.pc = "decide" /\ ~k.failed => EventSet(k.run) \subseteq l
  /\ k.status \in {"ACCEPTED", "DUPLICATE"} => EventSet(k.run) \subseteq l

Inv == TypeOK /\ DeliveryInv

LEMMA InvTyped == Inv => Typed
  BY DEF Inv, Typed, DeliveryInv, CallIsHonest, NextExists

LEMMA InvHonest ==
  ASSUME Inv, NEW c \in Slots
  PROVE  Honest(call[c], ledger)
  BY DEF Inv, DeliveryInv, CallIsHonest, Honest, Complete

LEMMA HonestStays ==
  ASSUME NEW k, NEW l, NEW m, Honest(k, l), l \subseteq m
  PROVE  Honest(k, m)
  BY DEF Honest

LEMMA FreeIsHonest == ASSUME NEW l PROVE Honest(FreeCall, l)
  BY DEF Honest, FreeCall

-------------------------------------------------------------------------------
LEMMA InvInit == Init => DeliveryInv
<1> SUFFICES ASSUME Init PROVE DeliveryInv
  OBVIOUS
<1>1. SentIsRecorded
  BY DEF Init, SentIsRecorded, Delivered
<1>2. \A r \in reports \union saved : Complete(r)
  BY DEF Init
<1>3. ASSUME NEW c \in Slots PROVE CallIsHonest(c)
  <2>1. call[c] = FreeCall
    BY DEF Init
  <2> QED BY <2>1 DEF CallIsHonest, FreeCall
<1>4. AgentIsHonest
  BY DEF Init, AgentIsHonest, Loop, At
<1> QED BY <1>1, <1>2, <1>3, <1>4 DEF DeliveryInv

(* A step of the agent that leaves the server alone.                        *)
LEMMA AgentKeepsInv ==
  ASSUME Inv, UNCHANGED <<call, serverVars>>, AgentIsHonest',
         \A r \in Runs : Delivered(r)' => Delivered(r) \/ Complete(r)
  PROVE  DeliveryInv'
<1>1. SentIsRecorded'
  BY DEF Inv, DeliveryInv, SentIsRecorded, Complete, serverVars
<1>2. (\A r \in reports \union saved : Complete(r))'
  BY DEF Inv, DeliveryInv, Complete, serverVars
<1>3. (\A c \in Slots : CallIsHonest(c))'
  BY DEF Inv, DeliveryInv, CallIsHonest, Complete, serverVars
<1> QED BY <1>1, <1>2, <1>3 DEF DeliveryInv

(* A step that gives call c the state new, keeping spool.                   *)
LEMMA CallKeepsInv ==
  ASSUME Inv, NEW c \in Slots, NEW new,
         call' = [call EXCEPT ![c] = new], Honest(new, ledger'),
         ledger \subseteq ledger', spool' = spool,
         \A r \in reports' \union saved' : Complete(r)',
         AgentIsHonest'
  PROVE  DeliveryInv'
<1>1. SentIsRecorded'
  BY DEF Inv, DeliveryInv, SentIsRecorded, Complete, Delivered
<1>2. ASSUME NEW d \in Slots PROVE CallIsHonest(d)'
  <2>1. Honest(call'[d], ledger')
    <3>1. CASE d = c
      BY <3>1 DEF Inv, TypeOK
    <3>2. CASE d # c
      <4>1. call'[d] = call[d]
        BY <3>2 DEF Inv, TypeOK
      <4> QED BY <4>1, InvHonest, HonestStays
    <3> QED BY <3>1, <3>2
  <2> QED BY <2>1 DEF Honest, CallIsHonest, Complete
<1> QED BY <1>1, <1>2 DEF DeliveryInv

(* A step of the server on call c, which stays with its run or is freed,    *)
(* does not disturb the agent.                                              *)
LEMMA ServerKeepsAgentHonest ==
  ASSUME Inv, NEW c \in Slots, NEW new,
         call' = [call EXCEPT ![c] = new],
         call[c].pc # "free", new.pc = "free" \/ new.run = call[c].run,
         ledger \subseteq ledger', UNCHANGED agentVars
  PROVE  AgentIsHonest'
<1>1. AgentIsHonest /\ agent' = agent /\ spool' = spool
  BY DEF Inv, DeliveryInv, agentVars
<1>2. agent.slot \in Slots /\ call \in [Slots -> CallState]
  BY DEF Inv, TypeOK, AgentState
<1>3. At("await") /\ call'[agent.slot].pc # "free" => call'[agent.slot].run = agent.run
  BY <1>1, <1>2 DEF AgentIsHonest
<1>4. At("mark") => Complete(agent.run)'
  BY <1>1 DEF AgentIsHonest, Complete
<1> QED BY <1>1, <1>3, <1>4 DEF AgentIsHonest, At, Complete

(* Both together.                                                           *)
LEMMA ServerKeepsInv ==
  ASSUME Inv, NEW c \in Slots, NEW new,
         call' = [call EXCEPT ![c] = new], Honest(new, ledger'),
         call[c].pc # "free", new.pc = "free" \/ new.run = call[c].run,
         ledger \subseteq ledger', UNCHANGED agentVars,
         \A r \in reports' \union saved' : Complete(r)'
  PROVE  DeliveryInv'
  BY CallKeepsInv, ServerKeepsAgentHonest DEF agentVars

(* No server step forgets an event.                                         *)
LEMMA LedgerGrows ==
  ASSUME NEW c \in Slots, IngestEvent(c)
  PROVE  ledger \subseteq ledger'
  BY Zenon DEF IngestEvent, Events!Record, Events!RecordAndAcknowledge

-------------------------------------------------------------------------------
(* Between reports nothing but custody of the queue matters to the agent.   *)
LEMMA AgentStepKeepsInv ==
  ASSUME Inv, \/ \E r \in Runs : StartRun(r) \/ NextRun(r) \/ Quarantine(r)
              \/ FinishRun \/ BeginFlush \/ UploadArtifacts \/ Deadline \/ RpcError
              \/ MarkSent \/ EndFlush \/ AgentCrash \/ AgentStart
  PROVE  DeliveryInv'
<1>a. /\ agent \in AgentState /\ spool \in [Runs -> Places]
      /\ agent.run \in Runs /\ AgentIsHonest
  BY DEF Inv, TypeOK, AgentState, DeliveryInv
<1>1. ASSUME NEW r \in Runs, StartRun(r) PROVE DeliveryInv'
  <2>1. AgentIsHonest'
    BY <1>1, <1>a DEF StartRun, AgentIsHonest, At, AgentState
  <2>2. \A s \in Runs : Delivered(s)' => Delivered(s)
    BY <1>1, <1>a DEF StartRun, Delivered
  <2> QED BY <1>1, <2>1, <2>2, AgentKeepsInv DEF StartRun
<1>2. ASSUME NEW r \in Runs, NextRun(r) PROVE DeliveryInv'
  <2>1. AgentIsHonest'
    BY <1>2, <1>a DEF NextRun, AgentIsHonest, At, AgentState
  <2> QED BY <1>2, <2>1, AgentKeepsInv DEF NextRun, Delivered
<1>3. ASSUME NEW r \in Runs, Quarantine(r) PROVE DeliveryInv'
  <2>1. AgentIsHonest'
    BY <1>3, <1>a DEF Quarantine, AgentIsHonest, At, AgentState
  <2>2. \A s \in Runs : Delivered(s)' => Delivered(s)
    BY <1>3, <1>a DEF Quarantine, Delivered
  <2> QED BY <1>3, <2>1, <2>2, AgentKeepsInv DEF Quarantine
<1>4. CASE FinishRun
  <2>1. AgentIsHonest'
    BY <1>4, <1>a DEF FinishRun, Goto, AgentIsHonest, At, AgentState
  <2>2. \A s \in Runs : Delivered(s)' => Delivered(s)
    BY <1>4, <1>a DEF FinishRun, Delivered
  <2> QED BY <1>4, <2>1, <2>2, AgentKeepsInv DEF FinishRun
<1>5. CASE BeginFlush
  <2>1. AgentIsHonest'
    BY <1>5, <1>a DEF BeginFlush, AgentIsHonest, At, AgentState
  <2> QED BY <1>5, <2>1, AgentKeepsInv DEF BeginFlush, Delivered
<1>6. CASE UploadArtifacts \/ RpcError
  <2>1. UNCHANGED <<spool, call, serverVars>>
    BY <1>6 DEF UploadArtifacts, RpcError
  <2>2. AgentIsHonest'
    BY <1>6, <1>a DEF UploadArtifacts, RpcError, Goto, AgentIsHonest, At, AgentState
  <2> QED BY <2>1, <2>2, AgentKeepsInv DEF Delivered
<1>7. CASE Deadline
  <2>1. PICK pc \in {"send", "next"}, k \in Nat : agent' = [agent EXCEPT !.pc = pc, !.tries = k]
    <3>1. CASE agent.tries < ConfirmRetries
      <4>1. agent' = [agent EXCEPT !.pc = "send", !.tries = agent.tries + 1]
        BY <1>7, <3>1 DEF Deadline
      <4>2. agent.tries + 1 \in Nat
        BY <1>a DEF AgentState
      <4> QED BY <4>1, <4>2
    <3>2. CASE ~(agent.tries < ConfirmRetries)
      <4>1. agent' = [agent EXCEPT !.pc = "next", !.tries = agent.tries]
        BY <1>7, <1>a, <3>2 DEF Deadline, Goto, AgentState
      <4> QED BY <1>a, <4>1 DEF AgentState
    <3> QED BY <3>1, <3>2
  <2>2. AgentIsHonest'
    BY <1>7, <1>a, <2>1 DEF Deadline, AgentIsHonest, At, AgentState
  <2> QED BY <1>7, <2>2, AgentKeepsInv DEF Deadline, Delivered
<1>8. CASE MarkSent
  <2>1. AgentIsHonest'
    BY <1>8, <1>a DEF MarkSent, Goto, AgentIsHonest, At, AgentState
  <2>2. \A s \in Runs : Delivered(s)' => Delivered(s) \/ Complete(s)
    BY <1>8, <1>a DEF MarkSent, AgentIsHonest, Delivered
  <2> QED BY <1>8, <2>1, <2>2, AgentKeepsInv DEF MarkSent
<1>9. CASE EndFlush
  <2>1. AgentIsHonest'
    BY <1>9, <1>a DEF EndFlush, Goto, AgentIsHonest, At, AgentState
  <2>2. \A s \in Runs : Delivered(s)' => Delivered(s)
    BY <1>9, <1>a DEF EndFlush, Delivered
  <2> QED BY <1>9, <2>1, <2>2, AgentKeepsInv DEF EndFlush
<1>10. CASE AgentCrash
  <2>1. AgentIsHonest'
    BY <1>10 DEF AgentCrash, Loop, AgentIsHonest, At
  <2> QED BY <1>10, <2>1, AgentKeepsInv DEF AgentCrash, Delivered
<1>11. CASE AgentStart
  <2>1. AgentIsHonest'
    BY <1>11 DEF AgentStart, Loop, AgentIsHonest, At
  <2> QED BY <1>11, <2>1, AgentKeepsInv DEF AgentStart, Delivered
<1> QED
  BY <1>1, <1>2, <1>3, <1>4, <1>5, <1>6, <1>7, <1>8, <1>9, <1>10, <1>11

(* The steps where agent and server meet.                                   *)
LEMMA MeetingKeepsInv ==
  ASSUME Inv, Answer \/ ServerRestart \/ \E c \in Slots : Send(c)
  PROVE  DeliveryInv'
<1>a. /\ agent \in AgentState /\ agent.run \in Runs /\ agent.slot \in Slots
      /\ AgentIsHonest /\ call \in [Slots -> CallState]
      /\ \A r \in reports \union saved : Complete(r)
  BY DEF Inv, TypeOK, AgentState, DeliveryInv
<1>1. CASE Answer
  <2>1. call[agent.slot].status \in {"ACCEPTED", "DUPLICATE"} => Complete(agent.run)
    BY <1>1, <1>a DEF Answer, AgentIsHonest, Inv, DeliveryInv, CallIsHonest
  <2>2. call'[agent.slot].pc = "free"
    BY <1>1, <1>a DEF Answer, FreeCall
  <2>3. AgentIsHonest'
    BY <1>1, <1>a, <2>1, <2>2 DEF Answer, Goto, AgentIsHonest, At, AgentState, Complete, serverVars
  <2>4. call' = [call EXCEPT ![agent.slot] = FreeCall] /\ UNCHANGED <<spool, serverVars>>
    BY <1>1 DEF Answer
  <2> QED BY <1>a, <2>3, <2>4, FreeIsHonest, CallKeepsInv DEF serverVars, Complete
<1>2. ASSUME NEW c \in Slots, Send(c) PROVE DeliveryInv'
  <2> DEFINE new == [FreeCall EXCEPT !.pc = "queued", !.run = agent.run]
  <2>1. Honest(new, ledger') /\ new.run = agent.run
    BY DEF Honest, FreeCall
  <2>2. call' = [call EXCEPT ![c] = new] /\ UNCHANGED <<spool, serverVars>>
    BY <1>2 DEF Send
  <2> HIDE DEF new
  <2>3. AgentIsHonest'
    BY <1>2, <1>a, <2>1, <2>2 DEF Send, AgentIsHonest, At, AgentState, Complete, serverVars
  <2> QED BY <1>a, <2>1, <2>2, <2>3, CallKeepsInv DEF serverVars, Complete
<1>3. CASE ServerRestart
  <2>1. UNCHANGED <<agentVars, saved, ledger>> /\ reports' = saved
    BY <1>3 DEF ServerRestart
  <2>2. \A c \in Slots : call'[c] = FreeCall
    BY <1>3 DEF ServerRestart
  <2>3. \A c \in Slots : CallIsHonest(c)'
    BY <2>2 DEF CallIsHonest, FreeCall
  <2>4. SentIsRecorded' /\ (\A r \in reports \union saved : Complete(r))'
    BY <2>1 DEF Inv, DeliveryInv, SentIsRecorded, Delivered, Complete, agentVars
  <2>5. AgentIsHonest'
    BY <1>a, <2>1, <2>2 DEF AgentIsHonest, At, agentVars, Complete, FreeCall
  <2> QED BY <2>3, <2>4, <2>5 DEF DeliveryInv
<1> QED BY <1>1, <1>2, <1>3

-------------------------------------------------------------------------------
(* The steps of a call on the server.                                       *)
LEMMA IngestKeepsInv ==
  ASSUME Inv, NEW c \in Slots, IngestEvent(c)
  PROVE  DeliveryInv'
<1> DEFINE r == call[c].run
           n == call[c].next
<1>1. /\ call \in [Slots -> CallState] /\ call[c] \in CallState
      /\ call[c].pc = "ingest" /\ r \in Runs /\ n \in Nat
      /\ Honest(call[c], ledger) /\ n \in 1 .. Len(EventsOf[r])
  BY InvHonest, EventsTyped DEF Inv, TypeOK, IngestEvent, CallState, Honest
<1>2. PICK ok \in BOOLEAN :
        /\ ok => Events!RecordAndAcknowledge(EventsOf[r][n])
        /\ call' = [call EXCEPT ![c].next = @ + 1, ![c].failed = @ \/ ~ok,
                                ![c].pc = IF n = Len(EventsOf[r]) THEN "decide" ELSE "ingest"]
  BY DEF IngestEvent
<1> DEFINE new == [call[c] EXCEPT !.next = @ + 1, !.failed = @ \/ ~ok,
                                  !.pc = IF n = Len(EventsOf[r]) THEN "decide" ELSE "ingest"]
<1>3. call' = [call EXCEPT ![c] = new]
  BY <1>1, <1>2 DEF CallState
<1>4. ledger \subseteq ledger'
  BY LedgerGrows
<1>5. /\ new.run = r /\ new.next = n + 1 /\ new.status = call[c].status
      /\ new.pc \in {"decide", "ingest"}
      /\ new.pc = "ingest" <=> n # Len(EventsOf[r])
  BY <1>1 DEF CallState
<1>6. ~new.failed => ~call[c].failed /\ EventsOf[r][n] \in ledger'
  <2>1. new.failed = (call[c].failed \/ ~ok)
    BY <1>1 DEF CallState
  <2>2. call[c].failed \in BOOLEAN
    BY <1>1 DEF CallState
  <2>3. ok => EventsOf[r][n] \in ledger'
    BY <1>2 DEF Events!RecordAndAcknowledge
  <2> DEFINE was == call[c].failed
             now == new.failed
             e   == EventsOf[r][n]
  <2>4. now = (was \/ ~ok) /\ was \in BOOLEAN
    BY <2>1, <2>2
  <2> HIDE DEF was, now, e
  <2>5. ~now => ~was /\ ok
    BY <2>4
  <2> QED BY <2>3, <2>5 DEF was, now, e
<1> HIDE DEF new
<1>7. ~new.failed => \A i \in 1 .. n : EventsOf[r][i] \in ledger'
  <2> SUFFICES ASSUME ~new.failed, NEW i \in 1 .. n PROVE EventsOf[r][i] \in ledger'
    OBVIOUS
  <2>1. \A j \in 1 .. n - 1 : EventsOf[r][j] \in ledger
    BY <1>1, <1>6 DEF Honest
  <2>2. i = n \/ i \in 1 .. n - 1
    BY <1>1
  <2> QED BY <1>4, <1>6, <2>1, <2>2
<1>8. Honest(new, ledger')
  <2>1. new.pc = "ingest" => new.next \in DOMAIN EventsOf[r]
    BY <1>1, <1>5, EventsTyped
  <2>2. ~new.failed => \A i \in 1 .. new.next - 1 : EventsOf[new.run][i] \in ledger'
    <3>1. new.next - 1 = n
      BY <1>1, <1>5
    <3> HIDE DEF n, r
    <3> QED BY <3>1, <1>5, <1>7
  <2>3. new.pc = "decide" /\ ~new.failed => EventSet(r) \subseteq ledger'
    BY <1>1, <1>5, <1>7, EventsTyped DEF EventSet
  <2>4. call[c].status \in {"ACCEPTED", "DUPLICATE"} => EventSet(r) \subseteq ledger'
    BY <1>1, <1>4 DEF Honest
  <2> HIDE DEF r, n
  <2> QED BY <1>5, <2>1, <2>2, <2>3, <2>4, Zenon DEF Honest
<1>9. \A s \in reports' \union saved' : Complete(s)'
  <2>1. reports' = reports /\ saved' \in {saved, reports}
    BY DEF IngestEvent
  <2> QED BY <2>1, <1>4 DEF Inv, DeliveryInv, Complete
<1>10. UNCHANGED agentVars
  BY DEF IngestEvent
<1> QED BY <1>1, <1>3, <1>4, <1>5, <1>8, <1>9, <1>10, ServerKeepsInv

LEMMA ReplyKeepsInv ==
  ASSUME Inv, NEW c \in Slots, NEW status,
         Reply(c, status), call[c].pc # "free",
         status \in {"ACCEPTED", "DUPLICATE"} => Complete(call[c].run),
         UNCHANGED <<agentVars, ledger>>,
         \A r \in reports' \union saved' : Complete(r)
  PROVE  DeliveryInv'
<1> DEFINE new == [call[c] EXCEPT !.pc = "replied", !.status = status]
<1>1. call \in [Slots -> CallState] /\ call[c] \in CallState
  BY DEF Inv, TypeOK
<1>2. call' = [call EXCEPT ![c] = new]
  BY <1>1 DEF Reply, CallState
<1>3. Honest(new, ledger') /\ new.run = call[c].run
  BY <1>1 DEF Honest, Complete, CallState
<1> HIDE DEF new
<1> QED BY <1>1, <1>2, <1>3, ServerKeepsInv DEF Complete

LEMMA ServerStepKeepsInv ==
  ASSUME Inv, NEW c \in Slots,
         \/ CheckReport(c) \/ RejectReport(c) \/ AcceptReport(c)
         \/ DropAnswer(c) \/ LoseRequest(c)
  PROVE  DeliveryInv'
<1>a. /\ call \in [Slots -> CallState] /\ call[c] \in CallState
      /\ Honest(call[c], ledger)
      /\ \A r \in reports \union saved : Complete(r)
  BY InvHonest DEF Inv, TypeOK, DeliveryInv
<1>1. CASE CheckReport(c)
  <2>1. UNCHANGED <<agentVars, ledger, reports, saved>> /\ call[c].pc = "queued"
    BY <1>1 DEF CheckReport, serverVars
  <2>2. CASE call[c].run \in reports
    BY <1>1, <1>a, <2>1, <2>2, ReplyKeepsInv DEF CheckReport
  <2>3. CASE call[c].run \notin reports
    <3> DEFINE new == [call[c] EXCEPT !.pc = "ingest"]
    <3>1. call' = [call EXCEPT ![c] = new]
      BY <1>1, <1>a, <2>3 DEF CheckReport, CallState
    <3>2. call[c].next = 1 /\ 1 \in DOMAIN EventsOf[call[c].run]
      BY <1>a, <2>1, EventsTyped DEF Honest, CallState
    <3>3. Honest(new, ledger') /\ new.run = call[c].run
      BY <1>a, <2>1, <3>2 DEF Honest, CallState
    <3> HIDE DEF new
    <3> QED BY <1>a, <2>1, <3>1, <3>3, ServerKeepsInv DEF Complete
  <2> QED BY <2>2, <2>3
<1>2. CASE RejectReport(c)
  BY <1>2, <1>a, ReplyKeepsInv DEF RejectReport, serverVars
<1>3. CASE AcceptReport(c)
  <2>1. Complete(call[c].run) /\ call[c].pc = "decide" /\ UNCHANGED <<agentVars, ledger>>
    BY <1>3, <1>a DEF AcceptReport, Honest, Complete
  <2>2. \A r \in reports' \union saved' : Complete(r)
    BY <1>3, <1>a, <2>1 DEF AcceptReport
  <2>3. Reply(c, "ACCEPTED") \/ Reply(c, "ERROR")
    BY <1>3 DEF AcceptReport
  <2> QED BY <1>a, <2>1, <2>2, <2>3, ReplyKeepsInv
<1>4. CASE DropAnswer(c) \/ LoseRequest(c)
  <2>1. /\ call' = [call EXCEPT ![c] = FreeCall] /\ call[c].pc # "free"
        /\ UNCHANGED <<agentVars, ledger, reports, saved>> /\ FreeCall.pc = "free"
    BY <1>4 DEF DropAnswer, LoseRequest, serverVars, FreeCall
  <2> QED BY <1>a, <2>1, FreeIsHonest, ServerKeepsInv DEF Complete
<1> QED BY <1>1, <1>2, <1>3, <1>4

LEMMA InvStep == Inv /\ [Next]_vars => Inv'
<1> SUFFICES ASSUME Inv, [Next]_vars PROVE Inv'
  OBVIOUS
<1>1. TypeOK'
  BY InvTyped, TypedStep DEF Typed
<1>2. CASE UNCHANGED vars
  BY <1>2 DEF vars, Inv, TypeOK, DeliveryInv, SentIsRecorded, Delivered, Complete,
              CallIsHonest, AgentIsHonest, At
<1>3. CASE Next
  BY <1>1, <1>3, Actions, AgentStepKeepsInv, MeetingKeepsInv, IngestKeepsInv, ServerStepKeepsInv
     DEF Inv
<1> QED BY <1>1, <1>2, <1>3

(* The inductive invariant of the delivery.                                 *)
THEOREM DeliveryCorrect == Spec => []DeliveryInv
<1>1. Init => Inv
  BY TypedInit, InvInit DEF Inv, Typed
<1>2. Inv => DeliveryInv
  BY DEF Inv
<1> QED BY <1>1, <1>2, InvStep, PTL DEF Spec

(* When the agent lets go of a run, the server has recorded all its events. *)
THEOREM SentRunsAreRecorded == Spec => []SentIsRecorded
<1>1. DeliveryInv => SentIsRecorded
  BY DEF DeliveryInv
<1> QED BY <1>1, DeliveryCorrect, PTL

-------------------------------------------------------------------------------
(* ReportDelivery implements RunCustody.                                    *)

LEMMA CustodyInit == Init => Custody!Init
<1> SUFFICES ASSUME Init PROVE Custody!Init
  OBVIOUS
<1>1. PlaceOf = [r \in Runs |-> "absent"]
  BY DEF PlaceOf, Init
<1>2. \A r \in Runs : EventSet(r) # {}
  <2> SUFFICES ASSUME NEW r \in Runs PROVE EventSet(r) # {}
    OBVIOUS
  <2>1. 1 \in DOMAIN EventsOf[r]
    BY EventsTyped
  <2>2. EventsOf[r][1] \in EventSet(r)
    BY Zenon, <2>1 DEF EventSet
  <2> QED BY <2>2
<1>3. CompleteRuns = {}
  BY <1>2 DEF CompleteRuns, Complete, Init, Events!Init
<1> QED BY <1>1, <1>3 DEF Custody!Init

CustodyStep == Custody!Next \/ UNCHANGED <<PlaceOf, CompleteRuns>>

(* A step that keeps the ledger and every run's place is a stutter.         *)
LEMMA CustodyStutter ==
  ASSUME ledger' = ledger, PlaceOf' = PlaceOf
  PROVE  CustodyStep
  BY DEF CustodyStep, CompleteRuns, Complete

LEMMA PlaceKept ==
  ASSUME spool' = spool
  PROVE  PlaceOf' = PlaceOf
  BY DEF PlaceOf, Delivered

(* The steps of agent and server that hand nobody over.                     *)
LEMMA CustodyQuiet ==
  ASSUME Inv, \/ \E r \in Runs : NextRun(r)
              \/ BeginFlush \/ UploadArtifacts \/ Deadline \/ RpcError
              \/ Answer \/ AgentCrash \/ AgentStart \/ ServerRestart
              \/ \E c \in Slots : \/ Send(c) \/ CheckReport(c) \/ RejectReport(c)
                                  \/ AcceptReport(c) \/ DropAnswer(c)
                                  \/ LoseRequest(c)
  PROVE  CustodyStep
<1>1. spool' = spool /\ ledger' = ledger
  BY DEF NextRun, BeginFlush, UploadArtifacts, Deadline, RpcError, Answer, AgentCrash, AgentStart,
         ServerRestart, Send, CheckReport, RejectReport, AcceptReport, DropAnswer,
         LoseRequest, agentVars, serverVars
<1> QED BY <1>1, CustodyStutter, PlaceKept

(* The steps of the agent that move a run.                                  *)
LEMMA CustodyMove ==
  ASSUME Inv, \/ \E r \in Runs : StartRun(r) \/ Quarantine(r)
              \/ FinishRun \/ MarkSent \/ EndFlush
  PROVE  CustodyStep
<1>a. /\ spool \in [Runs -> Places] /\ agent.run \in Runs /\ agent.queue \subseteq Runs
      /\ AgentIsHonest
  BY DEF Inv, TypeOK, AgentState, DeliveryInv
<1>1. ASSUME NEW r \in Runs, StartRun(r) PROVE CustodyStep
  <2>1. /\ spool[r] = "absent" /\ spool' = [spool EXCEPT ![r] = "measuring"]
        /\ ledger' = ledger
    BY <1>1 DEF StartRun, serverVars
  <2>2. PlaceOf[r] = "absent" /\ PlaceOf' = [PlaceOf EXCEPT ![r] = "agent"]
    BY <1>a, <2>1 DEF PlaceOf, Delivered
  <2> QED BY <2>1, <2>2 DEF CustodyStep, Custody!Next, Custody!Start, CompleteRuns, Complete
<1>2. ASSUME NEW r \in Runs, Quarantine(r) PROVE CustodyStep
  <2>1. /\ spool[r] = "pending" /\ ledger' = ledger
        /\ spool' = spool \/ spool' = [spool EXCEPT ![r] = "failed"]
    BY <1>2, <1>a DEF Quarantine, AgentIsHonest, serverVars
  <2>2. CASE spool' = [spool EXCEPT ![r] = "failed"]
    <3>1. PlaceOf[r] = "agent" /\ PlaceOf' = [PlaceOf EXCEPT ![r] = "aside"]
      BY <1>a, <2>1, <2>2 DEF PlaceOf, Delivered
    <3> QED BY <2>1, <3>1 DEF CustodyStep, Custody!Next, Custody!PutAside, CompleteRuns, Complete
  <2> QED BY <2>1, <2>2, CustodyStutter, PlaceKept
<1>3. CASE FinishRun
  <2>1. /\ spool[agent.run] = "measuring" /\ spool' = [spool EXCEPT ![agent.run] = "pending"]
        /\ ledger' = ledger
    BY <1>3, <1>a DEF FinishRun, AgentIsHonest, serverVars
  <2>2. PlaceOf' = PlaceOf
    BY <1>a, <2>1 DEF PlaceOf, Delivered
  <2> QED BY <2>1, <2>2, CustodyStutter
<1>4. CASE MarkSent
  <2>1. /\ spool[agent.run] = "pending" /\ spool' = [spool EXCEPT ![agent.run] = "sent"]
        /\ ledger' = ledger /\ Complete(agent.run)
    BY <1>4, <1>a DEF MarkSent, AgentIsHonest, At, serverVars
  <2>2. PlaceOf[agent.run] = "agent" /\ PlaceOf' = [PlaceOf EXCEPT ![agent.run] = "server"]
    BY <1>a, <2>1 DEF PlaceOf, Delivered
  <2>3. agent.run \in CompleteRuns /\ CompleteRuns' = CompleteRuns
    BY <1>a, <2>1 DEF CompleteRuns, Complete
  <2> QED BY <1>a, <2>2, <2>3 DEF CustodyStep, Custody!Next, Custody!HandOver
<1>5. CASE EndFlush
  <2>1. PICK old \in SUBSET {r \in Runs : spool[r] = "sent"} :
          spool' = [r \in Runs |-> IF r \in old THEN "pruned" ELSE spool[r]]
    BY <1>5 DEF EndFlush
  <2>2. PlaceOf' = PlaceOf
    BY <1>a, <2>1 DEF PlaceOf, Delivered
  <2> QED BY <1>5, <2>2, CustodyStutter DEF EndFlush, serverVars
<1> QED BY <1>1, <1>2, <1>3, <1>4, <1>5

(* The last missing event of a report completes the report of that run.     *)
LEMMA CustodyIngest ==
  ASSUME Inv, NEW c \in Slots, IngestEvent(c)
  PROVE  CustodyStep
<1>1. PICK r \in Runs : r = call[c].run /\ call[c].next \in DOMAIN EventsOf[r]
  <2>1. call[c].run \in Runs /\ call[c].pc = "ingest"
    BY DEF Inv, TypeOK, CallState, IngestEvent
  <2>2. call[c].next \in DOMAIN EventsOf[call[c].run]
    BY <2>1, InvHonest DEF Honest
  <2> QED BY <2>1, <2>2
<1>2. PICK e \in EventSet(r) : e = EventsOf[r][call[c].next]
  BY <1>1 DEF EventSet
<1>3. spool' = spool /\ (ledger' = ledger \/ ledger' = ledger \union {e})
  <2> DEFINE f == EventsOf[call[c].run][call[c].next]
  <2>1. spool' = spool /\ (ledger' = ledger \/ ledger' = ledger \union {f})
    BY Zenon DEF IngestEvent, agentVars, Events!Record, Events!RecordAndAcknowledge
  <2>2. f = e
    BY <1>1, <1>2
  <2> QED BY <2>1, <2>2
<1>4. \A s \in Runs \ {r} : Complete(s)' <=> Complete(s)
  <2> SUFFICES ASSUME NEW s \in Runs \ {r} PROVE Complete(s)' <=> Complete(s)
    OBVIOUS
  <2>1. e \notin EventSet(s)
    <3>1. EventSet(r) \intersect EventSet(s) = {}
      BY DeliveryAssumption
    <3> QED BY <1>2, <3>1
  <2> QED BY <2>1, <1>3 DEF Complete
<1>5. Complete(r) => Complete(r)'
  BY <1>3 DEF Complete
<1>6. PlaceOf' = PlaceOf
  BY <1>3, PlaceKept
<1>7. CompleteRuns' = CompleteRuns \/ CompleteRuns' = CompleteRuns \union {r}
  BY <1>1, <1>4, <1>5 DEF CompleteRuns
<1> QED BY <1>1, <1>6, <1>7 DEF CustodyStep, Custody!Next, Custody!Complete

(* Every step is one of RunCustody or a stutter: custody of a run passes    *)
(* to the server only when the server holds all of its events.              *)
THEOREM DeliveryImplementsCustody == Spec => ImplementsCustody
<1>1. Inv /\ [Next]_vars => [Custody!Next]_<<PlaceOf, CompleteRuns>>
  <2> SUFFICES ASSUME Inv, [Next]_vars PROVE CustodyStep
    BY DEF CustodyStep
  <2>1. CASE UNCHANGED vars
    BY <2>1, CustodyStutter, PlaceKept DEF vars
  <2>2. CASE Next
    BY <2>2, Actions, CustodyQuiet, CustodyMove, CustodyIngest
  <2> QED BY <2>1, <2>2
<1>2. Spec => []Inv
  <2>1. Init => Inv
    BY TypedInit, InvInit DEF Inv, Typed
  <2> QED BY <2>1, InvStep, PTL DEF Spec
<1> QED BY <1>1, <1>2, CustodyInit, PTL DEF Spec, ImplementsCustody, Custody!Spec, Custody!custodyVars
================================================================================
