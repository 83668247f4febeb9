--------------------------- MODULE ReportBookingProofs ---------------------------
(***************************************************************************)
(* Proofs about what the server remembers of the reports it accepted: the   *)
(* runs handed over are in state.json as long as it can be written, and a   *)
(* run is booked once unless two of its calls were in progress together.    *)
(***************************************************************************)
EXTENDS ReportDeliveryProofs

USE DeliveryAssumption

Positive == {"ACCEPTED", "DUPLICATE"}

(* While no write failed, the table and its saved copy agree, and every     *)
(* positive answer, sent or received, is about a run in them.               *)
MemoryInv ==
  ~faults.save =>
    /\ reports = saved
    /\ \A r \in Runs : Delivered(r) => r \in saved
    /\ \A c \in Slots : call[c].status \in Positive => call[c].run \in saved
    /\ At("mark") => agent.run \in saved

(* What is booked is saved; calls in progress for the same run are noted in *)
(* overlapped; and a call that passed the check is about a run unknown to   *)
(* the table, unless another call for it came in between.                   *)
Noted ==
  \A c, d \in Slots :
    /\ c # d /\ call[c].pc # "free" /\ call[d].pc # "free" /\ call[c].run = call[d].run
    => call[c].run \in overlapped

InTurn ==
  \A c \in Slots :
    call[c].pc \in {"ingest", "decide"} /\ call[c].run \notin overlapped
    => call[c].run \notin reports

BookInv ==
  /\ saved \subseteq reports
  /\ \A r \in Runs : accepted[r] > 0 => r \in saved
  /\ Noted
  /\ InTurn
  /\ BookedOnceInTurn

-------------------------------------------------------------------------------
(* A failed write is never forgotten.                                       *)
LEMMA SaveKept ==
  ASSUME NEW kind, Fault(kind) \/ NoFault
  PROVE  faults.save => faults'.save
<1> DEFINE save == faults.save \/ kind = "save"
<1>1. faults' = [count |-> faults.count + 1, save |-> save] \/ faults' = faults
  BY DEF Fault, NoFault
<1>2. faults.save => save
  OBVIOUS
<1> HIDE DEF save
<1>3. faults'.save = save \/ faults' = faults
  BY <1>1
<1> QED BY <1>2, <1>3, Zenon

LEMMA SaveKeptByNext == Next => (faults.save => faults'.save)
<1> SUFFICES ASSUME Next PROVE faults.save => faults'.save
  OBVIOUS
<1>1. NoFault \/ \E kind \in FaultKinds : Fault(kind)
  BY Actions DEF StartRun, NextRun, Quarantine, FinishRun, BeginFlush, UploadArtifacts,
     Deadline, RpcError, Answer, MarkSent, EndFlush, AgentCrash, AgentStart, Send,
     CheckReport, IngestEvent, RejectReport, AcceptReport, DropAnswer, LoseRequest,
     ServerRestart, NoFault, FaultKinds
<1> QED BY <1>1, SaveKept

-------------------------------------------------------------------------------
(* MemoryInv.                                                               *)

LEMMA AgentKeepsMemory ==
  ASSUME MemoryInv, faults.save => faults'.save,
         UNCHANGED <<call, serverVars>>, agent'.pc # "mark",
         \A r \in Runs : Delivered(r)' => Delivered(r) \/ (At("mark") /\ r = agent.run)
  PROVE  MemoryInv'
  BY DEF MemoryInv, At, serverVars

LEMMA CallKeepsMemory ==
  ASSUME Inv, MemoryInv, faults.save => faults'.save,
         NEW c \in Slots, NEW new, call' = [call EXCEPT ![c] = new], spool' = spool,
         ~faults'.save =>
           /\ saved \subseteq saved' /\ reports' = saved'
           /\ new.status \in Positive => new.run \in saved'
           /\ agent'.pc = "mark" => agent'.run \in saved'
  PROVE  MemoryInv'
<1> SUFFICES ASSUME ~faults'.save
             PROVE  /\ reports' = saved'
                    /\ \A r \in Runs : Delivered(r)' => r \in saved'
                    /\ \A d \in Slots : call'[d].status \in Positive => call'[d].run \in saved'
                    /\ agent'.pc = "mark" => agent'.run \in saved'
  BY DEF MemoryInv, At
<1>1. \A r \in Runs : Delivered(r)' => r \in saved'
  BY DEF MemoryInv, Delivered
<1>2. ASSUME NEW d \in Slots, call'[d].status \in Positive PROVE call'[d].run \in saved'
  <2>1. CASE d = c
    BY <1>2, <2>1 DEF Inv, TypeOK
  <2>2. CASE d # c
    BY <1>2, <2>2 DEF Inv, TypeOK, MemoryInv
  <2> QED BY <2>1, <2>2
<1> QED BY <1>1, <1>2

LEMMA AgentStepKeepsMemory ==
  ASSUME Inv, MemoryInv, faults.save => faults'.save,
         \/ \E r \in Runs : StartRun(r) \/ NextRun(r) \/ Quarantine(r)
         \/ FinishRun \/ BeginFlush \/ UploadArtifacts \/ Deadline \/ RpcError
         \/ MarkSent \/ EndFlush \/ AgentCrash \/ AgentStart
  PROVE  MemoryInv'
<1>a. agent \in AgentState /\ spool \in [Runs -> Places] /\ agent.run \in Runs
  BY DEF Inv, TypeOK, AgentState
<1>1. UNCHANGED <<call, serverVars>>
  BY Zenon DEF StartRun, NextRun, Quarantine, FinishRun, BeginFlush, UploadArtifacts, Deadline,
     RpcError, MarkSent, EndFlush, AgentCrash, AgentStart
<1>2. agent'.pc # "mark"
  <2>1. ASSUME NEW r \in Runs, StartRun(r) \/ NextRun(r) \/ Quarantine(r) PROVE agent'.pc # "mark"
    <3>1. CASE StartRun(r)
      BY <1>a, <3>1 DEF StartRun, AgentState
    <3>2. CASE NextRun(r)
      BY <1>a, <3>2 DEF NextRun, AgentState
    <3>3. CASE Quarantine(r)
      BY <1>a, <3>3 DEF Quarantine, At, AgentState
    <3> QED BY <2>1, <3>1, <3>2, <3>3
  <2>2. CASE FinishRun \/ BeginFlush \/ UploadArtifacts \/ RpcError \/ MarkSent \/ EndFlush
    <3>1. CASE BeginFlush
      BY <1>a, <3>1 DEF BeginFlush, AgentState
    <3>2. CASE FinishRun \/ UploadArtifacts \/ RpcError \/ MarkSent \/ EndFlush
      <4>1. \E pc \in {"loop", "next", "send"} : agent' = [agent EXCEPT !.pc = pc]
        BY <3>2 DEF FinishRun, UploadArtifacts, RpcError, MarkSent, EndFlush, Goto
      <4> QED BY <1>a, <4>1 DEF AgentState
    <3> QED BY <2>2, <3>1, <3>2
  <2>3. CASE Deadline
    <3>1. CASE agent' = [agent EXCEPT !.pc = "send", !.tries = @ + 1]
      BY <1>a, <3>1 DEF AgentState
    <3>2. CASE agent' = [agent EXCEPT !.pc = "next"]
      BY <1>a, <3>2 DEF AgentState
    <3> QED BY <2>3, <3>1, <3>2 DEF Deadline, Goto
  <2>4. CASE AgentCrash \/ AgentStart
    BY <2>4 DEF AgentCrash, AgentStart, Loop
  <2> QED BY <2>1, <2>2, <2>3, <2>4
<1>3. ASSUME NEW s \in Runs, Delivered(s)'
      PROVE  Delivered(s) \/ (At("mark") /\ s = agent.run)
  <2>1. ASSUME NEW r \in Runs, StartRun(r) \/ NextRun(r) \/ Quarantine(r) PROVE Delivered(s)
    BY <1>a, <1>3, <2>1 DEF StartRun, NextRun, Quarantine, Delivered
  <2>2. CASE FinishRun \/ EndFlush
    BY <1>a, <1>3, <2>2 DEF FinishRun, EndFlush, Delivered
  <2>3. CASE MarkSent
    BY <1>a, <1>3, <2>3 DEF MarkSent, Delivered
  <2>4. CASE BeginFlush \/ UploadArtifacts \/ Deadline \/ RpcError \/ AgentCrash \/ AgentStart
    BY <1>3, <2>4 DEF BeginFlush, UploadArtifacts, Deadline, RpcError, AgentCrash, AgentStart,
                      Delivered
  <2> QED BY <2>1, <2>2, <2>3, <2>4
<1> QED BY <1>1, <1>2, <1>3, AgentKeepsMemory

LEMMA AnswerKeepsMemory ==
  ASSUME Inv, MemoryInv, faults.save => faults'.save, Answer
  PROVE  MemoryInv'
<1>a. /\ agent \in AgentState /\ agent.slot \in Slots /\ AgentIsHonest
  BY DEF Inv, TypeOK, AgentState, DeliveryInv
<1>1. /\ At("await") /\ call[agent.slot].run = agent.run
      /\ call' = [call EXCEPT ![agent.slot] = FreeCall] /\ UNCHANGED <<spool, serverVars>>
      /\ agent' = [agent EXCEPT !.pc = IF call[agent.slot].status \in Positive
                                       THEN "mark" ELSE "next"]
  BY <1>a DEF Answer, Goto, AgentIsHonest, Positive
<1>2. ~faults'.save /\ agent'.pc = "mark" => agent'.run \in saved
  BY <1>a, <1>1 DEF MemoryInv, AgentState
<1>3. FreeCall.status \notin Positive
  BY DEF FreeCall, Positive
<1> QED BY <1>a, <1>1, <1>2, <1>3, CallKeepsMemory DEF MemoryInv, serverVars

LEMMA SendKeepsMemory ==
  ASSUME Inv, MemoryInv, faults.save => faults'.save, NEW c \in Slots, Send(c)
  PROVE  MemoryInv'
<1> DEFINE new == [FreeCall EXCEPT !.pc = "queued", !.run = agent.run]
<1>1. /\ call' = [call EXCEPT ![c] = new] /\ UNCHANGED <<spool, serverVars>>
      /\ agent' = [agent EXCEPT !.pc = "await", !.slot = c]
  BY DEF Send
<1>2. agent'.pc = "await"
  BY <1>1 DEF Inv, TypeOK, AgentState
<1>3. new.status \notin Positive
  BY DEF FreeCall, Positive
<1> HIDE DEF new
<1> QED BY <1>1, <1>2, <1>3, CallKeepsMemory DEF MemoryInv, serverVars

LEMMA ServerStepKeepsMemory ==
  ASSUME Inv, MemoryInv, faults.save => faults'.save, NEW c \in Slots,
         \/ CheckReport(c) \/ IngestEvent(c) \/ RejectReport(c) \/ AcceptReport(c)
         \/ DropAnswer(c) \/ LoseRequest(c)
  PROVE  MemoryInv'
<1>a. call \in [Slots -> CallState] /\ call[c] \in CallState
  BY DEF Inv, TypeOK
<1>b. UNCHANGED agentVars
  BY DEF CheckReport, IngestEvent, RejectReport, AcceptReport, DropAnswer, LoseRequest
<1>1. ASSUME NEW status \in Statuses, Reply(c, status),
             ~faults'.save => /\ saved \subseteq saved' /\ reports' = saved'
                              /\ status \in Positive => call[c].run \in saved'
      PROVE  MemoryInv'
  <2> DEFINE new == [call[c] EXCEPT !.pc = "replied", !.status = status]
  <2>1. call' = [call EXCEPT ![c] = new]
    BY <1>a, <1>1 DEF Reply, CallState
  <2>2. new.status = status /\ new.run = call[c].run
    BY <1>a DEF CallState
  <2> HIDE DEF new
  <2> QED BY <1>b, <1>1, <2>1, <2>2, CallKeepsMemory DEF MemoryInv, At, agentVars
<1>2. ASSUME NEW new, call' = [call EXCEPT ![c] = new], ~faults'.save => saved' = reports,
             reports' = reports,
             new.status \in Positive => new.status = call[c].status /\ new.run = call[c].run
      PROVE  MemoryInv'
  BY <1>b, <1>2, CallKeepsMemory DEF MemoryInv, At, agentVars
<1>3. CASE CheckReport(c)
  <2>1. UNCHANGED <<reports, saved>>
    BY <1>3 DEF CheckReport, serverVars
  <2>2. CASE call[c].run \in reports
    BY <1>1, <1>3, <2>1, <2>2 DEF CheckReport, MemoryInv, Statuses
  <2>3. CASE call[c].run \notin reports
    <3> DEFINE new == [call[c] EXCEPT !.pc = "ingest"]
    <3>1. call' = [call EXCEPT ![c] = new]
      BY <1>a, <1>3, <2>3 DEF CheckReport, CallState
    <3>2. new.status = call[c].status /\ new.run = call[c].run
      BY <1>a DEF CallState
    <3> HIDE DEF new
    <3>3. ~faults'.save => saved' = reports
      BY <2>1 DEF MemoryInv
    <3> QED BY <1>2, <2>1, <3>1, <3>2, <3>3
  <2> QED BY <2>2, <2>3
<1>4. CASE IngestEvent(c)
  <2>1. PICK ok \in BOOLEAN :
          call' = [call EXCEPT ![c].next = @ + 1, ![c].failed = @ \/ ~ok,
                     ![c].pc = IF call[c].next = Len(EventsOf[call[c].run])
                               THEN "decide" ELSE "ingest"]
    BY <1>4 DEF IngestEvent
  <2> DEFINE new == [call[c] EXCEPT !.next = @ + 1, !.failed = @ \/ ~ok,
                       !.pc = IF call[c].next = Len(EventsOf[call[c].run])
                              THEN "decide" ELSE "ingest"]
  <2>2. call' = [call EXCEPT ![c] = new]
    BY <1>a, <2>1 DEF CallState
  <2>3. new.status = call[c].status /\ new.run = call[c].run
    BY <1>a DEF CallState
  <2> HIDE DEF new
  <2>4. reports' = reports /\ saved' \in {saved, reports}
    BY <1>4 DEF IngestEvent
  <2>5. ~faults'.save => saved' = reports
    BY <2>4 DEF MemoryInv
  <2> QED BY <1>2, <2>2, <2>3, <2>4, <2>5
<1>5. CASE RejectReport(c)
  BY <1>1, <1>5 DEF RejectReport, serverVars, MemoryInv, Positive, Statuses
<1>6. CASE AcceptReport(c)
  <2>1. CASE saved' = reports' /\ Reply(c, "ACCEPTED")
    <3>1. ~faults'.save => saved \subseteq saved'
      BY <1>6, <2>1 DEF AcceptReport, MemoryInv
    <3>2. call[c].run \in saved'
      BY <1>6, <2>1 DEF AcceptReport
    <3> QED BY <1>1, <2>1, <3>1, <3>2 DEF Statuses
  <2>2. CASE Fault("save")
    <3>1. faults'.save = (faults.save \/ "save" = "save")
      BY <2>2 DEF Fault
    <3>2. faults'.save
      BY <3>1, Zenon
    <3> QED BY <3>2 DEF MemoryInv
  <2> QED BY <1>6, <2>1, <2>2 DEF AcceptReport
<1>7. CASE DropAnswer(c) \/ LoseRequest(c)
  <2>1. call' = [call EXCEPT ![c] = FreeCall] /\ UNCHANGED <<reports, saved>>
    BY <1>7 DEF DropAnswer, LoseRequest, serverVars
  <2>2. FreeCall.status \notin Positive
    BY DEF FreeCall, Positive
  <2>3. ~faults'.save => saved' = reports
    BY <2>1 DEF MemoryInv
  <2> QED BY <1>2, <2>1, <2>2, <2>3
<1> QED BY <1>3, <1>4, <1>5, <1>6, <1>7

LEMMA RestartKeepsMemory ==
  ASSUME MemoryInv, faults.save => faults'.save, ServerRestart
  PROVE  MemoryInv'
<1>1. /\ \A c \in Slots : call'[c] = FreeCall
      /\ reports' = saved /\ UNCHANGED <<agentVars, saved>>
  BY DEF ServerRestart
<1>2. FreeCall.status \notin Positive
  BY DEF FreeCall, Positive
<1> QED BY <1>1, <1>2 DEF MemoryInv, Delivered, At, agentVars

LEMMA MemoryInit == Init => MemoryInv
  BY DEF Init, MemoryInv, Delivered, FreeCall, Loop, At, Positive

LEMMA MemoryStep == Inv /\ MemoryInv /\ [Next]_vars => MemoryInv'
<1> SUFFICES ASSUME Inv, MemoryInv, [Next]_vars PROVE MemoryInv'
  OBVIOUS
<1>1. CASE UNCHANGED vars
  BY <1>1 DEF vars, MemoryInv, Delivered, At
<1>2. CASE Next
  BY <1>2, Actions, SaveKeptByNext, AgentStepKeepsMemory, AnswerKeepsMemory, SendKeepsMemory,
     ServerStepKeepsMemory, RestartKeepsMemory
<1> QED BY <1>1, <1>2

(* A run handed over is in state.json, unless some write of it failed.      *)
THEOREM SentRunsAreRemembered == Spec => []SentIsRemembered
<1>1. Init => Inv
  BY TypedInit, InvInit DEF Inv, Typed
<1>2. MemoryInv => SentIsRemembered
  BY DEF MemoryInv, SentIsRemembered
<1> QED BY <1>1, <1>2, InvStep, MemoryInit, MemoryStep, PTL DEF Spec

-------------------------------------------------------------------------------
(* BookInv.                                                                 *)

LEMMA AgentKeepsBook ==
  ASSUME BookInv, UNCHANGED <<call, serverVars, overlapped>>
  PROVE  BookInv'
  BY DEF BookInv, Noted, InTurn, BookedOnceInTurn, serverVars

LEMMA SendKeepsBook ==
  ASSUME Inv, BookInv, NEW c \in Slots, Send(c)
  PROVE  BookInv'
<1> DEFINE new == [FreeCall EXCEPT !.pc = "queued", !.run = agent.run]
<1>1. /\ call' = [call EXCEPT ![c] = new] /\ UNCHANGED serverVars
      /\ overlapped' = IF \E d \in Slots : call[d].pc # "free" /\ call[d].run = agent.run
                       THEN overlapped \union {agent.run} ELSE overlapped
  BY DEF Send
<1>2. new.pc = "queued" /\ new.run = agent.run
  BY DEF FreeCall
<1>3. call[c].pc = "free" /\ call \in [Slots -> CallState]
  BY DEF Send, Inv, TypeOK
<1> HIDE DEF new
<1>4. overlapped \subseteq overlapped'
  BY <1>1
<1>5. Noted'
  <2> SUFFICES ASSUME NEW d \in Slots, NEW e \in Slots, d # e,
                      call'[d].pc # "free", call'[e].pc # "free", call'[d].run = call'[e].run
               PROVE  call'[d].run \in overlapped'
    BY DEF Noted
  <2>1. CASE d = c
    BY <1>1, <1>2, <1>3, <2>1
  <2>2. CASE e = c
    BY <1>1, <1>2, <1>3, <2>2
  <2>3. CASE d # c /\ e # c
    BY <1>1, <1>3, <1>4, <2>3 DEF BookInv, Noted
  <2> QED BY <2>1, <2>2, <2>3
<1>6. InTurn'
  <2> SUFFICES ASSUME NEW d \in Slots, call'[d].pc \in {"ingest", "decide"},
                      call'[d].run \notin overlapped'
               PROVE  call'[d].run \notin reports'
    BY DEF InTurn
  <2>1. d # c
    BY <1>1, <1>2, <1>3
  <2> QED BY <1>1, <1>3, <1>4, <2>1 DEF BookInv, InTurn, serverVars
<1>7. BookedOnceInTurn'
  BY <1>1, <1>4 DEF BookInv, BookedOnceInTurn, serverVars
<1> QED BY <1>1, <1>5, <1>6, <1>7 DEF BookInv, serverVars

(* A step of the server on call c, which stays with its run or is freed.    *)
LEMMA CallKeepsBook ==
  ASSUME Inv, BookInv, NEW c \in Slots, NEW new, call' = [call EXCEPT ![c] = new],
         call[c].pc # "free", new.pc = "free" \/ new.run = call[c].run,
         overlapped' = overlapped, saved' \subseteq reports',
         \A r \in Runs : accepted'[r] > 0 => r \in saved',
         reports' \subseteq reports \union {call[c].run},
         new.pc \in {"ingest", "decide"} /\ new.run \notin overlapped => new.run \notin reports',
         BookedOnceInTurn'
  PROVE  BookInv'
<1>1. call \in [Slots -> CallState]
  BY DEF Inv, TypeOK
<1>2. Noted'
  BY <1>1 DEF BookInv, Noted
<1>3. InTurn'
  <2> SUFFICES ASSUME NEW d \in Slots, call'[d].pc \in {"ingest", "decide"},
                      call'[d].run \notin overlapped
               PROVE  call'[d].run \notin reports'
    BY DEF InTurn
  <2>1. CASE d = c
    BY <1>1, <2>1
  <2>2. CASE d # c
    <3>1. call'[d] = call[d]
      BY <1>1, <2>2
    <3>2. call[d].run \notin reports
      BY <3>1 DEF BookInv, InTurn
    <3>3. call[d].run # call[c].run
      BY <2>2, <3>1 DEF BookInv, Noted
    <3> QED BY <3>1, <3>2, <3>3
  <2> QED BY <2>1, <2>2
<1> QED BY <1>2, <1>3 DEF BookInv

LEMMA ServerStepKeepsBook ==
  ASSUME Inv, BookInv, NEW c \in Slots,
         \/ CheckReport(c) \/ IngestEvent(c) \/ RejectReport(c) \/ AcceptReport(c)
         \/ DropAnswer(c) \/ LoseRequest(c)
  PROVE  BookInv'
<1>a. /\ call \in [Slots -> CallState] /\ call[c] \in CallState
      /\ accepted \in [Runs -> Nat] /\ call[c].run \in Runs
  BY DEF Inv, TypeOK, CallState
<1>b. call[c].pc # "free" /\ overlapped' = overlapped
  BY DEF CheckReport, IngestEvent, RejectReport, AcceptReport, DropAnswer, LoseRequest
<1>1. ASSUME NEW new, call' = [call EXCEPT ![c] = new], new.pc = "free" \/ new.run = call[c].run,
             new.pc \in {"ingest", "decide"} /\ new.run \notin overlapped => new.run \notin reports,
             UNCHANGED <<reports, accepted>>, saved' \in {saved, reports}
      PROVE  BookInv'
  <2>1. BookedOnceInTurn'
    BY <1>b, <1>1 DEF BookInv, BookedOnceInTurn
  <2>2. saved' \subseteq reports' /\ saved \subseteq saved'
    BY <1>1 DEF BookInv
  <2>3. \A r \in Runs : accepted'[r] > 0 => r \in saved'
    BY <1>1, <2>2 DEF BookInv
  <2> QED BY <1>b, <1>1, <2>1, <2>2, <2>3, CallKeepsBook
<1>2. ASSUME NEW status, Reply(c, status), UNCHANGED <<reports, accepted, saved>>
      PROVE  BookInv'
  <2> DEFINE new == [call[c] EXCEPT !.pc = "replied", !.status = status]
  <2>1. call' = [call EXCEPT ![c] = new] /\ new.pc = "replied" /\ new.run = call[c].run
    BY <1>a, <1>2 DEF Reply, CallState
  <2> HIDE DEF new
  <2> QED BY <1>1, <1>2, <2>1
<1>3. CASE CheckReport(c)
  <2>1. UNCHANGED <<reports, accepted, saved>>
    BY <1>3 DEF CheckReport, serverVars
  <2>2. CASE call[c].run \in reports
    BY <1>2, <1>3, <2>1, <2>2 DEF CheckReport
  <2>3. CASE call[c].run \notin reports
    <3> DEFINE new == [call[c] EXCEPT !.pc = "ingest"]
    <3>1. call' = [call EXCEPT ![c] = new] /\ new.run = call[c].run
      BY <1>a, <1>3, <2>3 DEF CheckReport, CallState
    <3> HIDE DEF new
    <3> QED BY <1>1, <2>1, <2>3, <3>1
  <2> QED BY <2>2, <2>3
<1>4. CASE IngestEvent(c)
  <2>1. PICK ok \in BOOLEAN :
          call' = [call EXCEPT ![c].next = @ + 1, ![c].failed = @ \/ ~ok,
                     ![c].pc = IF call[c].next = Len(EventsOf[call[c].run])
                               THEN "decide" ELSE "ingest"]
    BY <1>4 DEF IngestEvent
  <2> DEFINE new == [call[c] EXCEPT !.next = @ + 1, !.failed = @ \/ ~ok,
                       !.pc = IF call[c].next = Len(EventsOf[call[c].run])
                              THEN "decide" ELSE "ingest"]
  <2>2. call' = [call EXCEPT ![c] = new]
    BY <1>a, <2>1 DEF CallState
  <2>3. new.run = call[c].run
    BY <1>a DEF CallState
  <2> HIDE DEF new
  <2>4. UNCHANGED <<reports, accepted>> /\ saved' \in {saved, reports} /\ call[c].pc = "ingest"
    BY <1>4 DEF IngestEvent
  <2>5. call[c].run \notin overlapped => call[c].run \notin reports
    BY <2>4 DEF BookInv, InTurn
  <2> QED BY <1>1, <2>2, <2>3, <2>4, <2>5
<1>5. CASE RejectReport(c)
  BY <1>2, <1>5 DEF RejectReport, serverVars
<1>6. CASE AcceptReport(c)
  <2>1. call[c].run \notin overlapped => accepted[call[c].run] = 0
    <3>1. call[c].run \notin overlapped => call[c].run \notin reports
      BY <1>6 DEF AcceptReport, BookInv, InTurn
    <3> QED BY <1>a, <3>1 DEF BookInv
  <2>2. PICK status : Reply(c, status)
    BY <1>6 DEF AcceptReport
  <2> DEFINE new == [call[c] EXCEPT !.pc = "replied", !.status = status]
  <2>3. call' = [call EXCEPT ![c] = new] /\ new.pc = "replied" /\ new.run = call[c].run
    BY <1>a, <2>2 DEF Reply, CallState
  <2> HIDE DEF new
  <2>4. CASE saved' = reports' /\ accepted' = [accepted EXCEPT ![call[c].run] = @ + 1]
    <3>1. reports' = reports \union {call[c].run}
      BY <1>6 DEF AcceptReport
    <3>2. \A r \in Runs : accepted'[r] > 0 => r \in saved'
      BY <1>a, <2>4, <3>1 DEF BookInv
    <3>3. BookedOnceInTurn'
      BY <1>a, <1>b, <2>1, <2>4 DEF BookInv, BookedOnceInTurn
    <3> QED BY <1>b, <2>3, <2>4, <3>1, <3>2, <3>3, CallKeepsBook
  <2>5. CASE UNCHANGED <<saved, accepted>>
    <3>1. reports' = reports \union {call[c].run}
      BY <1>6 DEF AcceptReport
    <3>2. BookedOnceInTurn'
      BY <1>b, <2>5 DEF BookInv, BookedOnceInTurn
    <3> QED BY <1>b, <2>3, <2>5, <3>1, <3>2, CallKeepsBook DEF BookInv
  <2> QED BY <1>6, <2>4, <2>5 DEF AcceptReport
<1>7. CASE DropAnswer(c) \/ LoseRequest(c)
  <2>1. /\ call' = [call EXCEPT ![c] = FreeCall] /\ FreeCall.pc = "free"
        /\ UNCHANGED <<reports, accepted, saved>>
    BY <1>7 DEF DropAnswer, LoseRequest, serverVars, FreeCall
  <2> QED BY <1>1, <2>1
<1> QED BY <1>3, <1>4, <1>5, <1>6, <1>7

LEMMA BookStep == Inv /\ BookInv /\ [Next]_vars => BookInv'
<1> SUFFICES ASSUME Inv, BookInv, [Next]_vars PROVE BookInv'
  OBVIOUS
<1>1. CASE UNCHANGED vars
  BY <1>1 DEF vars, BookInv, Noted, InTurn, BookedOnceInTurn
<1>2. CASE \/ \E r \in Runs : StartRun(r) \/ NextRun(r) \/ Quarantine(r)
           \/ FinishRun \/ BeginFlush \/ UploadArtifacts \/ Deadline \/ RpcError
           \/ MarkSent \/ EndFlush \/ AgentCrash \/ AgentStart
  <2>1. UNCHANGED <<call, serverVars, overlapped>>
    BY <1>2, Zenon DEF StartRun, NextRun, Quarantine, FinishRun, BeginFlush, UploadArtifacts,
       Deadline, RpcError, MarkSent, EndFlush, AgentCrash, AgentStart
  <2> QED BY <2>1, AgentKeepsBook
<1>3. CASE Answer
  <2>1. /\ call' = [call EXCEPT ![agent.slot] = FreeCall] /\ agent.slot \in Slots
        /\ call[agent.slot].pc # "free" /\ FreeCall.pc = "free"
        /\ UNCHANGED <<serverVars, overlapped>>
    BY <1>3 DEF Answer, FreeCall, Inv, TypeOK, AgentState
  <2>2. BookedOnceInTurn'
    BY <2>1 DEF BookInv, BookedOnceInTurn, serverVars
  <2> QED BY <2>1, <2>2, CallKeepsBook DEF BookInv, serverVars
<1>4. CASE ServerRestart
  <2>1. /\ \A c \in Slots : call'[c].pc = "free"
        /\ reports' = saved /\ UNCHANGED <<saved, accepted, overlapped>>
    BY <1>4 DEF ServerRestart, FreeCall
  <2> QED BY <2>1 DEF BookInv, Noted, InTurn, BookedOnceInTurn
<1>5. CASE Next
  BY <1>2, <1>3, <1>4, <1>5, Actions, SendKeepsBook, ServerStepKeepsBook
<1> QED BY <1>1, <1>5

(* The server books a run once, unless two of its calls overlapped.         *)
THEOREM RunsAreBookedOnce == Spec => []BookedOnceInTurn
<1>1. Init => Inv
  BY TypedInit, InvInit DEF Inv, Typed
<1>2. Init => BookInv
  BY DEF Init, BookInv, Noted, InTurn, BookedOnceInTurn, FreeCall
<1>3. BookInv => BookedOnceInTurn
  BY DEF BookInv
<1> QED BY <1>1, <1>2, <1>3, InvStep, BookStep, PTL DEF Spec
===============================================================================
