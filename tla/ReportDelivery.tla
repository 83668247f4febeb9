---------------------------- MODULE ReportDelivery ----------------------------
(***************************************************************************)
(* From the agent's spool to the server's books: an agent keeps every run   *)
(* in a directory of its RunStore, publishes the reports of finished runs   *)
(* with flush_pending_reports, and moves a run to sent/ only when the       *)
(* server answered ACCEPTED or DUPLICATE.  The agent's main loop is one     *)
(* thread; the server works on several PublishReport calls at once, and on  *)
(* calls whose client has long given up.  Both sides crash and restart, and *)
(* requests and answers get lost.                                           *)
(***************************************************************************)
EXTENDS Naturals, Sequences, FiniteSets

CONSTANTS
  Runs,            \* run ids
  EventIds,        \* event ids
  EventsOf,        \* EventsOf[r]: event ids of r's report, then of its artifacts
  Slots,           \* PublishReport calls that can be in progress at once
  ConfirmRetries,  \* REPORT_RPC_CONFIRM_RETRIES
  Faults,          \* kinds of fault that may happen, a subset of FaultKinds
  MaxFaults        \* bound: faults in a behaviour

(* agent, server: the process restarts; net: a call fails or times out at   *)
(* the client while the server may still work on it; ingest: an event is    *)
(* refused; save: state.json cannot be written; disk: a stored report       *)
(* cannot be read; artifact: an artifact upload fails                       *)
FaultKinds == {"agent", "server", "net", "ingest", "save", "disk", "artifact"}

EventSet(r) == {EventsOf[r][i] : i \in DOMAIN EventsOf[r]}

ASSUME DeliveryAssumption ==
  /\ Runs # {} /\ Slots # {}
  /\ EventsOf \in [Runs -> Seq(EventIds)]
  /\ \A r, s \in Runs : r # s => EventSet(r) \intersect EventSet(s) = {}
  /\ \A r \in Runs : EventsOf[r] # <<>>
  /\ ConfirmRetries \in Nat \ {0}
  /\ Faults \subseteq FaultKinds /\ MaxFaults \in Nat

VARIABLES
  spool,      \* where the RunStore keeps each run (see Places)
  agent,      \* the agent's main loop: [pc, queue, run, slot, tries]
  call,       \* PublishReport calls: [pc, run, next, failed, status]
  reports,    \* LocalState seen_reports (in memory)
  saved,      \* seen_reports in state.json
  ledger,     \* events recorded by the event pipeline
  acked,      \* events the pipeline acknowledged
  faults,     \* [count, save]: faults so far, and whether a write failed
  accepted,   \* history: how often the server accepted the report of a run
  overlapped  \* history: runs that had two calls in progress at once

agentVars  == <<spool, agent>>
serverVars == <<reports, saved, ledger, acked, accepted>>
vars == <<spool, agent, call, reports, saved, ledger, acked, faults, accepted, overlapped>>

Events == INSTANCE EventLedger

(* absent: no directory; measuring: pending/<run> without report.json;      *)
(* pending: pending/<run> with report.json; sent, failed: moved there;      *)
(* pruned: removed from sent/ after the retention time                      *)
Places == {"absent", "measuring", "pending", "sent", "failed", "pruned"}

AgentPcs == {"down", "loop", "measure", "next", "upload", "send", "await", "mark"}

(* queued: the request is under way or in the server's queue; ingest,       *)
(* decide: a worker thread is on it; replied: the answer is under way       *)
CallPcs  == {"free", "queued", "ingest", "decide", "replied"}
Statuses == {"none", "ACCEPTED", "DUPLICATE", "REJECTED", "ERROR"}

AnyRun  == CHOOSE r \in Runs : TRUE
AnySlot == CHOOSE c \in Slots : TRUE

FreeCall == [pc |-> "free", run |-> AnyRun, next |-> 1, failed |-> FALSE, status |-> "none"]

Loop == [pc |-> "loop", queue |-> {}, run |-> AnyRun, slot |-> AnySlot, tries |-> 0]

Init ==
  /\ spool = [r \in Runs |-> "absent"]
  /\ agent = Loop
  /\ call = [c \in Slots |-> FreeCall]
  /\ reports = {} /\ saved = {}
  /\ Events!Init
  /\ faults = [count |-> 0, save |-> FALSE]
  /\ accepted = [r \in Runs |-> 0]
  /\ overlapped = {}

Fault(kind) ==
  /\ kind \in Faults
  /\ faults.count < MaxFaults
  /\ faults' = [count |-> faults.count + 1, save |-> faults.save \/ kind = "save"]

NoFault == faults' = faults

FaultRecord == [count : Nat, save : BOOLEAN]

-------------------------------------------------------------------------------
(* The agent.                                                               *)

At(pc) == agent.pc = pc

Goto(pc) == agent' = [agent EXCEPT !.pc = pc]

Awaits(c) == At("await") /\ agent.slot = c

(* Execution of a policy: start_run creates the run's directory ...         *)
StartRun(r) ==
  /\ At("loop")
  /\ spool[r] = "absent"
  /\ spool' = [spool EXCEPT ![r] = "measuring"]
  /\ agent' = [agent EXCEPT !.pc = "measure", !.run = r]
  /\ UNCHANGED <<call, serverVars, faults, overlapped>>

(* ... and persist_report stores report.json when its commands are done.    *)
FinishRun ==
  /\ At("measure")
  /\ spool' = [spool EXCEPT ![agent.run] = "pending"]
  /\ Goto("loop")
  /\ UNCHANGED <<call, serverVars, faults, overlapped>>

(* Mutant of BeginFlush: a run whose report was ever refused is left out.   *)
BeginFlushSkipping ==
  /\ At("loop")
  /\ agent' = [agent EXCEPT !.pc = "next",
                            !.queue = {r \in Runs : spool[r] = "pending" /\ faults.count = 0}]
  /\ UNCHANGED <<spool, call, serverVars, faults, overlapped>>

(* flush_pending_reports, once the upload gates let it run; the order of    *)
(* the runs (by modification time) is left open.                            *)
BeginFlush ==
  /\ At("loop")
  /\ agent' = [agent EXCEPT !.pc = "next", !.queue = {r \in Runs : spool[r] = "pending"}]
  /\ UNCHANGED <<spool, call, serverVars, faults, overlapped>>

NextRun(r) ==
  /\ At("next")
  /\ r \in agent.queue
  /\ agent' = [agent EXCEPT !.pc = "upload", !.queue = @ \ {r}, !.run = r, !.tries = 0]
  /\ UNCHANGED <<spool, call, serverVars, faults, overlapped>>

(* load_report cannot read the report and moves the run to failed/, or      *)
(* leaves it where it is when even that fails.                              *)
Quarantine(r) ==
  /\ At("next")
  /\ r \in agent.queue
  /\ Fault("disk")
  /\ agent' = [agent EXCEPT !.queue = @ \ {r}]
  /\ spool' \in {spool, [spool EXCEPT ![r] = "failed"]}
  /\ UNCHANGED <<call, serverVars, overlapped>>

(* The artifacts of the run are transferred.  With server-side bundling a   *)
(* failure defers the report; without it the report goes out all the same,  *)
(* which here is the first disjunct.                                        *)
UploadArtifacts ==
  /\ At("upload")
  /\ \/ NoFault /\ Goto("send")
     \/ Fault("artifact") /\ Goto("next")
  /\ UNCHANGED <<spool, call, serverVars, overlapped>>

Send(c) ==
  /\ At("send")
  /\ call[c].pc = "free"
  /\ call' = [call EXCEPT ![c] = [FreeCall EXCEPT !.pc = "queued", !.run = agent.run]]
  /\ agent' = [agent EXCEPT !.pc = "await", !.slot = c]
  /\ overlapped' = IF \E d \in Slots : call[d].pc # "free" /\ call[d].run = agent.run
                   THEN overlapped \union {agent.run} ELSE overlapped
  /\ UNCHANGED <<spool, serverVars, faults>>

(* DEADLINE_EXCEEDED: the same report is sent again, ConfirmRetries times;  *)
(* the call may still be in the server's hands.                             *)
Deadline ==
  /\ At("await")
  /\ \/ Fault("net")
     \/ call[agent.slot].pc = "free" /\ NoFault
  /\ IF agent.tries < ConfirmRetries
     THEN agent' = [agent EXCEPT !.pc = "send", !.tries = @ + 1]
     ELSE Goto("next")
  /\ UNCHANGED <<spool, call, serverVars, overlapped>>

(* Any other RpcError: the run waits for the next flush.                    *)
RpcError ==
  /\ At("await")
  /\ \/ Fault("net")
     \/ call[agent.slot].pc = "free" /\ NoFault
  /\ Goto("next")
  /\ UNCHANGED <<spool, call, serverVars, overlapped>>

(* Mutant of Answer: every answer without an error counts as delivery.      *)
AnswerUnread ==
  LET c == call[agent.slot] IN
  /\ At("await")
  /\ c.pc = "replied"
  /\ Goto(IF c.status # "ERROR" THEN "mark" ELSE "next")
  /\ call' = [call EXCEPT ![agent.slot] = FreeCall]
  /\ UNCHANGED <<spool, serverVars, faults, overlapped>>

Answer ==
  LET c == call[agent.slot] IN
  /\ At("await")
  /\ c.pc = "replied"
  /\ Goto(IF c.status \in {"ACCEPTED", "DUPLICATE"} THEN "mark" ELSE "next")
  /\ call' = [call EXCEPT ![agent.slot] = FreeCall]
  /\ UNCHANGED <<spool, serverVars, faults, overlapped>>

(* The move of the directory is what this module keeps of mark_sent.  The   *)
(* context and the execution index are written after it; a crash between    *)
(* these writes is an action of ExecutionIndex.                             *)
MarkSent ==
  /\ At("mark")
  /\ spool' = [spool EXCEPT ![agent.run] = "sent"]
  /\ Goto("next")
  /\ UNCHANGED <<call, serverVars, faults, overlapped>>

(* prune_sent: old runs leave the disk.                                     *)
EndFlush ==
  /\ At("next")
  /\ agent.queue = {}
  /\ \E old \in SUBSET {r \in Runs : spool[r] = "sent"} :
       spool' = [r \in Runs |-> IF r \in old THEN "pruned" ELSE spool[r]]
  /\ Goto("loop")
  /\ UNCHANGED <<call, serverVars, faults, overlapped>>

AgentCrash ==
  /\ ~At("down")
  /\ Fault("agent")
  /\ agent' = [Loop EXCEPT !.pc = "down"]
  /\ UNCHANGED <<spool, call, serverVars, overlapped>>

AgentStart ==
  /\ At("down")
  /\ agent' = Loop
  /\ UNCHANGED <<spool, call, serverVars, faults, overlapped>>

-------------------------------------------------------------------------------
(* The server: PublishReport.                                               *)

Reply(c, status) ==
  call' = [call EXCEPT ![c].pc = "replied", ![c].status = status]

(* Mutant of CheckReport: the report is marked as soon as it is received.   *)
CheckReportMarking(c) ==
  /\ call[c].pc = "queued"
  /\ reports' = reports \union {call[c].run}
  /\ IF call[c].run \in reports
     THEN Reply(c, "DUPLICATE")
     ELSE call' = [call EXCEPT ![c].pc = "ingest"]
  /\ UNCHANGED <<agentVars, saved, ledger, acked, accepted, faults, overlapped>>

(* Mutant of CheckReport: has_report is not consulted.                      *)
CheckReportUnchecked(c) ==
  /\ call[c].pc = "queued"
  /\ call' = [call EXCEPT ![c].pc = "ingest"]
  /\ UNCHANGED <<agentVars, serverVars, faults, overlapped>>

CheckReport(c) ==
  /\ call[c].pc = "queued"
  /\ IF call[c].run \in reports
     THEN Reply(c, "DUPLICATE")
     ELSE call' = [call EXCEPT ![c].pc = "ingest"]
  /\ UNCHANGED <<agentVars, serverVars, faults, overlapped>>

(* Mutant of IngestEvent: the loop runs one event too far.                  *)
IngestEventPastEnd(c) ==
  LET events == EventsOf[call[c].run] \o <<"none">>
      last == call[c].next = Len(events)
  IN
  /\ call[c].pc = "ingest"
  /\ Events!RecordAndAcknowledge(events[call[c].next])
  /\ call' = [call EXCEPT ![c].next = @ + 1,
                          ![c].pc = IF last THEN "decide" ELSE "ingest"]
  /\ UNCHANGED <<agentVars, reports, saved, accepted, faults, overlapped>>

(* Mutant of IngestEvent: only the outcome of the last event counts.        *)
IngestEventLastOutcome(c) ==
  LET e == EventsOf[call[c].run][call[c].next]
      last == call[c].next = Len(EventsOf[call[c].run])
  IN
  /\ call[c].pc = "ingest"
  /\ \E ok \in BOOLEAN :
       /\ \/ ok /\ NoFault /\ Events!RecordAndAcknowledge(e)
          \/ ~ok /\ Fault("ingest") /\ UNCHANGED <<ledger, acked>>
       /\ call' = [call EXCEPT ![c].next = @ + 1,
                               ![c].failed = ~ok,
                               ![c].pc = IF last THEN "decide" ELSE "ingest"]
  /\ UNCHANGED <<agentVars, reports, saved, accepted, overlapped>>

(* One event of the report through the event pipeline: recorded and         *)
(* acknowledged, or refused, possibly after it was recorded.  A write of    *)
(* state.json on the way also stores the reports marked so far.             *)
IngestEvent(c) ==
  LET e == EventsOf[call[c].run][call[c].next]
      last == call[c].next = Len(EventsOf[call[c].run])
  IN
  /\ call[c].pc = "ingest"
  /\ \E ok \in BOOLEAN :
       /\ \/ /\ ok
             /\ NoFault
             /\ Events!RecordAndAcknowledge(e)
             /\ saved' \in {saved, reports}
          \/ /\ ~ok
             /\ Fault("ingest")
             /\ Events!Record(e) \/ UNCHANGED <<ledger, acked>>
             /\ saved' \in {saved, reports}
       /\ call' = [call EXCEPT ![c].next = @ + 1,
                               ![c].failed = @ \/ ~ok,
                               ![c].pc = IF last THEN "decide" ELSE "ingest"]
  /\ UNCHANGED <<agentVars, reports, accepted, overlapped>>

RejectReport(c) ==
  /\ call[c].pc = "decide"
  /\ call[c].failed
  /\ Reply(c, "REJECTED")
  /\ UNCHANGED <<agentVars, serverVars, faults, overlapped>>

(* Mutant of AcceptReport: the report is only marked in memory.             *)
AcceptReportInMemory(c) ==
  /\ call[c].pc = "decide"
  /\ ~call[c].failed
  /\ reports' = reports \union {call[c].run}
  /\ accepted' = [accepted EXCEPT ![call[c].run] = @ + 1]
  /\ Reply(c, "ACCEPTED")
  /\ UNCHANGED <<agentVars, saved, ledger, acked, faults, overlapped>>

(* mark_report and _record_report_metrics; when state.json cannot be        *)
(* written the call fails with the report marked in memory only.            *)
AcceptReport(c) ==
  /\ call[c].pc = "decide"
  /\ ~call[c].failed
  /\ reports' = reports \union {call[c].run}
  /\ \/ /\ NoFault
        /\ saved' = reports'
        /\ accepted' = [accepted EXCEPT ![call[c].run] = @ + 1]
        /\ Reply(c, "ACCEPTED")
     \/ /\ Fault("save")
        /\ Reply(c, "ERROR")
        /\ UNCHANGED <<saved, accepted>>
  /\ UNCHANGED <<agentVars, ledger, acked, overlapped>>

(* A request that never reaches the server.                                 *)
LoseRequest(c) ==
  /\ call[c].pc = "queued"
  /\ Fault("net")
  /\ call' = [call EXCEPT ![c] = FreeCall]
  /\ UNCHANGED <<agentVars, serverVars, overlapped>>

(* An answer nobody waits for any more.                                     *)
DropAnswer(c) ==
  /\ call[c].pc = "replied"
  /\ ~Awaits(c)
  /\ call' = [call EXCEPT ![c] = FreeCall]
  /\ UNCHANGED <<agentVars, serverVars, faults, overlapped>>

(* The service restarts from state.json; all calls are gone.                *)
ServerRestart ==
  /\ Fault("server")
  /\ call' = [c \in Slots |-> FreeCall]
  /\ reports' = saved
  /\ UNCHANGED <<agentVars, saved, ledger, acked, accepted, overlapped>>

-------------------------------------------------------------------------------
AgentStep ==
  \/ \E r \in Runs : NextRun(r) \/ Quarantine(r)
  \/ FinishRun \/ BeginFlush \/ UploadArtifacts
  \/ \E c \in Slots : Send(c)
  \/ Deadline \/ RpcError \/ Answer \/ MarkSent \/ EndFlush \/ AgentStart

ServerStep(c) ==
  CheckReport(c) \/ IngestEvent(c) \/ RejectReport(c) \/ AcceptReport(c) \/ DropAnswer(c)

Next ==
  \/ \E r \in Runs : StartRun(r)
  \/ AgentStep
  \/ AgentCrash
  \/ \E c \in Slots : ServerStep(c) \/ LoseRequest(c)
  \/ ServerRestart

Spec == Init /\ [][Next]_vars

(* The main loop keeps going (a supervisor restarts the agent), and so does *)
(* every worker thread; nothing is said about faults and new runs.          *)
Fairness ==
  /\ WF_vars(AgentStep)
  /\ \A c \in Slots : WF_vars(ServerStep(c))

FairSpec == Spec /\ Fairness

-------------------------------------------------------------------------------
(* Type invariant.                                                          *)

AgentState == [pc : AgentPcs, queue : SUBSET Runs, run : Runs, slot : Slots, tries : Nat]
CallState  == [pc : CallPcs, run : Runs, next : Nat \ {0}, failed : BOOLEAN, status : Statuses]

TypeOK ==
  /\ spool \in [Runs -> Places]
  /\ agent \in AgentState
  /\ call \in [Slots -> CallState]
  /\ reports \subseteq Runs /\ saved \subseteq Runs
  /\ ledger \subseteq EventIds /\ acked \subseteq EventIds
  /\ faults \in FaultRecord
  /\ accepted \in [Runs -> Nat]
  /\ overlapped \subseteq Runs

-------------------------------------------------------------------------------
(* Properties.                                                              *)

Complete(r) == EventSet(r) \subseteq ledger

Delivered(r) == spool[r] \in {"sent", "pruned"}

(* When the agent lets go of a run (sent/, then off the disk), every event  *)
(* of its report and artifacts is recorded by the server, whatever was lost *)
(* or refused or crashed on the way.                                        *)
SentIsRecorded == \A r \in Runs : Delivered(r) => Complete(r)

(* What makes SentIsRecorded inductive: a report is remembered, in memory   *)
(* or in state.json, only when complete, a call that met no failure has its *)
(* events recorded up to the next one, and a positive answer, on its way or *)
(* received, is about a complete report.                                    *)
CallIsHonest(c) ==
  LET r == call[c].run IN
  /\ call[c].pc = "queued" => call[c].next = 1
  /\ call[c].pc = "ingest" =>
       /\ call[c].next \in DOMAIN EventsOf[r]
       /\ ~call[c].failed => \A i \in 1 .. call[c].next - 1 : EventsOf[r][i] \in ledger
  /\ call[c].pc = "decide" /\ ~call[c].failed => Complete(r)
  /\ call[c].status \in {"ACCEPTED", "DUPLICATE"} => Complete(r)

(* A call under way answers for the run the agent is waiting for, and what  *)
(* the agent works on or has still to publish lies in pending/.             *)
AgentIsHonest ==
  /\ At("measure") => spool[agent.run] = "measuring"
  /\ agent.pc \in {"upload", "send", "await", "mark"} =>
       spool[agent.run] = "pending" /\ agent.run \notin agent.queue
  /\ \A r \in agent.queue : spool[r] = "pending"
  /\ At("await") /\ call[agent.slot].pc # "free" => call[agent.slot].run = agent.run
  /\ At("mark") => Complete(agent.run)

DeliveryInv ==
  /\ SentIsRecorded
  /\ \A r \in reports \union saved : Complete(r)
  /\ \A c \in Slots : CallIsHonest(c)
  /\ AgentIsHonest

(* A run is moved to sent/ only when the server will still know its report  *)
(* after a restart, as long as state.json can be written.                   *)
SentIsRemembered == ~faults.save => \A r \in Runs : Delivered(r) => r \in saved

(* The server books a run once (run counters, status metrics), as long as   *)
(* no two calls for it are in progress together.                            *)
BookedOnceInTurn == \A r \in Runs \ overlapped : accepted[r] <= 1

(* Every finished run is delivered in the end, or put aside as unreadable:  *)
(* rejected, deferred and unanswered reports are flushed again.             *)
FinishedIsDelivered ==
  \A r \in Runs : spool[r] = "pending" ~> (Delivered(r) \/ spool[r] = "failed")

(* The agent keeps custody of a run until the server has all of it.         *)
PlaceOf ==
  [r \in Runs |-> IF spool[r] = "absent" THEN "absent"
                  ELSE IF Delivered(r) THEN "server"
                  ELSE IF spool[r] = "failed" THEN "aside" ELSE "agent"]

CompleteRuns == {r \in Runs : Complete(r)}

Custody == INSTANCE RunCustody WITH place <- PlaceOf, complete <- CompleteRuns

ImplementsCustody == Custody!Spec
===============================================================================
