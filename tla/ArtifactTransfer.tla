--------------------------- MODULE ArtifactTransfer ---------------------------
(***************************************************************************)
(* The artifacts of one run on their way from the agent's disk over the     *)
(* server's spool into eLabFTW.  The agent transfers artifacts during the   *)
(* measurement and in every flush of the run, the summary last; the server  *)
(* stages an artifact as a data file and a meta file, and takes the summary *)
(* as the signal to upload a bundle of the staged texts, the staged raw     *)
(* files and the summary.  ReportDelivery has the life of the report: here  *)
(* it ends when the report is published.                                    *)
(***************************************************************************)
EXTENDS Naturals, FiniteSets

CONSTANTS
  Texts,      \* artifacts that go into the bundle (.txt, .log, .json)
  Raws,       \* artifacts uploaded one by one
  Summary,    \* run-summary.json
  Bundle,     \* wireless-run-evidence-bundle.tar.gz
  Slots,      \* transfers that can be in progress on the server at once
  Settings,   \* configurations the agent may run with, see SettingType
  MaxFaults   \* bound: faults in a behaviour

Staging   == Texts \union Raws
Artifacts == Staging \union {Summary}
Items     == Raws \union {Summary, Bundle}

(* agent, server: the process restarts; net: a transfer or the report fails *)
(* at the client, the server may still work on it; elab: an upload to       *)
(* eLabFTW fails; disk: the server cannot append to its journal             *)
FaultKinds == {"agent", "server", "net", "elab", "disk"}

(* bundling: SERVER_SIDE_ARTIFACT_BUNDLING; evict:                          *)
(* ARTIFACT_EVICT_AFTER_UPLOAD; large: artifacts above                      *)
(* ARTIFACT_UPLOAD_MAX_BYTES; faults: what may go wrong with that agent     *)
SettingType == [bundling : BOOLEAN, evict : BOOLEAN, large : SUBSET Artifacts,
                faults : SUBSET FaultKinds]

ASSUME TransferAssumption ==
  /\ Texts \intersect Raws = {}
  /\ Summary \notin Staging /\ Bundle \notin Artifacts
  /\ Slots # {}
  /\ Settings \subseteq SettingType
  /\ MaxFaults \in Nat

VARIABLES
  setting,   \* the configuration of the behaviour, fixed in Init
  local,     \* artifacts in pending/<run>/artifacts on the agent
  report,    \* report.json: [done, moved]; moved: artifacts whose uri left spool://
  agent,     \* [pc, phase, todo, art, slot, moved, failed]
  data,      \* artifacts with a data file in the server's spool
  meta,      \* artifacts with a readable meta file beside it
  journal,   \* items with an upload entry in the journal
  copies,    \* how many copies of each item eLabFTW holds
  archived,  \* artifacts some copy in eLabFTW holds
  call,      \* transfers on the server: [pc, art, rows, todo, item, ok]
  faults,    \* number of faults so far
  excused    \* history: an upload was interrupted, or two were in progress

agentVars == <<local, report, agent>>
spoolVars == <<data, meta>>
elabVars  == <<journal, copies, archived>>
vars == <<setting, local, report, agent, data, meta, journal, copies, archived, call, faults, excused>>

(* loop: between flushes; next: in the loop over the artifacts; await: a    *)
(* transfer is under way; publish: PublishReport; sent: the report was      *)
(* accepted                                                                 *)
AgentPcs == {"down", "loop", "next", "await", "publish", "sent"}

(* queued: the request is under way; meta: storing an artifact; choose,     *)
(* post, record, final: finalizing the run                                  *)
Finalizing == {"choose", "post", "record", "final"}
CallPcs == {"free", "queued", "meta", "replied"} \union Finalizing

FreeCall == [pc |-> "free", art |-> Summary, rows |-> {}, todo |-> {}, item |-> Summary, ok |-> FALSE]

AnySlot == CHOOSE c \in Slots : TRUE

Idle == [pc |-> "loop", phase |-> "flush", todo |-> {}, art |-> Summary, slot |-> AnySlot,
         moved |-> {}, failed |-> FALSE]

(* A run starts to measure, all its files still to come.                    *)
Init ==
  /\ setting \in Settings
  /\ local = Staging
  /\ report = [done |-> FALSE, moved |-> {}]
  /\ agent = [Idle EXCEPT !.pc = "next", !.phase = "live", !.todo = Staging]
  /\ data = {} /\ meta = {}
  /\ journal = {} /\ copies = [i \in Items |-> 0] /\ archived = {}
  /\ call = [c \in Slots |-> FreeCall]
  /\ faults = 0
  /\ excused = FALSE

Fault(kind) ==
  /\ kind \in setting.faults
  /\ faults < MaxFaults
  /\ faults' = faults + 1

NoFault == faults' = faults

-------------------------------------------------------------------------------
(* The agent.                                                               *)

At(pc) == agent.pc = pc

Persisted == report.done

(* flush_pending_reports loads the report of the run.                       *)
BeginFlush ==
  /\ At("loop")
  /\ Persisted
  /\ agent' = [Idle EXCEPT !.pc = "next", !.todo = Artifacts, !.moved = report.moved]
  /\ UNCHANGED <<local, report, spoolVars, elabVars, call, faults, excused>>

(* The summary comes last; during the measurement it does not exist yet.    *)
Due(a) == a \in agent.todo /\ (a = Summary => agent.todo = {Summary})

(* Mutant of Skip: what needs no transfer counts as failed.                 *)
SkipAsFailure(a) ==
  /\ At("next")
  /\ Due(a)
  /\ a \in agent.moved \/ a \notin local \/ agent.phase = "live"
  /\ agent' = [agent EXCEPT !.todo = @ \ {a}, !.failed = TRUE]
  /\ UNCHANGED <<local, report, spoolVars, elabVars, call, faults, excused>>

(* Left out: the uri is not spool:// any more, the file is gone, or (during *)
(* the measurement) uploads are disabled or backing off.                    *)
Skip(a) ==
  /\ At("next")
  /\ Due(a)
  /\ a \in agent.moved \/ a \notin local \/ agent.phase = "live"
  /\ agent' = [agent EXCEPT !.todo = @ \ {a}]
  /\ UNCHANGED <<local, report, spoolVars, elabVars, call, faults, excused>>

RefuseLarge(a) ==
  /\ At("next")
  /\ Due(a)
  /\ a \in (local \ agent.moved) \intersect setting.large
  /\ agent' = [agent EXCEPT !.todo = @ \ {a}, !.failed = TRUE]
  /\ UNCHANGED <<local, report, spoolVars, elabVars, call, faults, excused>>

Transfer(a, c) ==
  /\ At("next")
  /\ Due(a)
  /\ a \in local \ (agent.moved \union setting.large)
  /\ call[c].pc = "free"
  /\ call' = [call EXCEPT ![c] = [FreeCall EXCEPT !.pc = "queued", !.art = a]]
  /\ agent' = [agent EXCEPT !.pc = "await", !.todo = @ \ {a}, !.art = a, !.slot = c]
  /\ UNCHANGED <<local, report, spoolVars, elabVars, faults, excused>>

(* Timeout or error of the call, or an answer that is not ACCEPTED.         *)
TransferFailed ==
  /\ At("await")
  /\ \/ Fault("net") /\ UNCHANGED call
     \/ call[agent.slot].pc = "free" /\ NoFault /\ UNCHANGED call
     \/ /\ call[agent.slot].pc = "replied" /\ ~call[agent.slot].ok
        /\ NoFault
        /\ call' = [call EXCEPT ![agent.slot] = FreeCall]
  /\ agent' = [agent EXCEPT !.pc = "next", !.failed = TRUE]
  /\ UNCHANGED <<local, report, spoolVars, elabVars, excused>>

(* The uri is rewritten in memory and the local file may be deleted.        *)
TransferDone ==
  /\ At("await")
  /\ call[agent.slot].pc = "replied" /\ call[agent.slot].ok
  /\ call' = [call EXCEPT ![agent.slot] = FreeCall]
  /\ agent' = [agent EXCEPT !.pc = "next", !.moved = @ \union {agent.art}]
  /\ local' = IF setting.evict THEN local \ {agent.art} ELSE local
  /\ UNCHANGED <<report, spoolVars, elabVars, faults, excused>>

(* The measurement ends: the summary is written and the report persisted.   *)
FinishRun ==
  /\ At("next") /\ agent.phase = "live"
  /\ agent.todo = {}
  /\ local' = local \union {Summary}
  /\ report' = [done |-> TRUE, moved |-> agent.moved]
  /\ agent' = Idle
  /\ UNCHANGED <<spoolVars, elabVars, call, faults, excused>>

(* Mutant of EndTransfer: a failed transfer does not defer the report.      *)
EndTransferAnyway ==
  /\ At("next") /\ agent.phase = "flush"
  /\ agent.todo = {}
  /\ report' = [done |-> TRUE, moved |-> agent.moved]
  /\ agent' = [agent EXCEPT !.pc = "publish"]
  /\ UNCHANGED <<local, spoolVars, elabVars, call, faults, excused>>

(* persist_report keeps the new uris; a failed transfer defers the report.  *)
EndTransfer ==
  /\ At("next") /\ agent.phase = "flush"
  /\ agent.todo = {}
  /\ report' = [done |-> TRUE, moved |-> agent.moved]
  /\ agent' = IF agent.failed /\ setting.bundling THEN Idle ELSE [agent EXCEPT !.pc = "publish"]
  /\ UNCHANGED <<local, spoolVars, elabVars, call, faults, excused>>

Publish ==
  /\ At("publish")
  /\ \/ NoFault /\ agent' = [Idle EXCEPT !.pc = "sent"]
     \/ Fault("net") /\ agent' = Idle
  /\ UNCHANGED <<local, report, spoolVars, elabVars, call, excused>>

(* prune_sent, after the retention time.                                    *)
Prune ==
  /\ At("sent")
  /\ local' = {}
  /\ UNCHANGED <<report, agent, spoolVars, elabVars, call, faults, excused>>

AgentCrash ==
  /\ agent.pc \notin {"down", "sent"}
  /\ Fault("agent")
  /\ agent' = [Idle EXCEPT !.pc = "down"]
  /\ UNCHANGED <<local, report, spoolVars, elabVars, call, excused>>

AgentStart ==
  /\ At("down")
  /\ agent' = Idle
  /\ UNCHANGED <<local, report, spoolVars, elabVars, call, faults, excused>>

-------------------------------------------------------------------------------
(* The server: UploadArtifact.                                              *)

Reply(c, ok) == call' = [call EXCEPT ![c].pc = "replied", ![c].ok = ok]

(* Mutant of StoreData: the answer does not wait for the files.             *)
StoreDataLater(c) ==
  /\ call[c].pc = "queued" /\ call[c].art # Summary
  /\ Reply(c, TRUE)
  /\ UNCHANGED <<agentVars, spoolVars, elabVars, faults, excused>>

(* store_server_spooled_artifact renames the data file into place and opens *)
(* the meta file, which is unreadable until it is written; a file with the  *)
(* same name has the same bytes.                                            *)
StoreData(c) ==
  LET a == call[c].art IN
  /\ call[c].pc = "queued" /\ a # Summary
  /\ data' = data \union {a}
  /\ meta' = meta \ {a}
  /\ call' = [call EXCEPT ![c].pc = "meta"]
  /\ UNCHANGED <<agentVars, elabVars, faults, excused>>

(* Overlapping stores of one artifact write the same temporary file, and     *)
(* the store that comes to rename it second no longer finds it.             *)
StoreCollides(c) ==
  /\ call[c].pc = "queued" /\ call[c].art # Summary
  /\ \E d \in Slots \ {c} : call[d].pc = "meta" /\ call[d].art = call[c].art
  /\ Reply(c, FALSE)
  /\ UNCHANGED <<agentVars, spoolVars, elabVars, faults, excused>>

(* The meta file is written and the journal gets its line.                  *)
StoreMeta(c) ==
  /\ call[c].pc = "meta"
  /\ meta' = meta \union {call[c].art}
  /\ \/ NoFault /\ Reply(c, TRUE)
     \/ Fault("disk") /\ Reply(c, FALSE)
  /\ UNCHANGED <<agentVars, data, elabVars, excused>>

(* finalize_server_spooled_run lists what is staged.                        *)
LoadRows(c) ==
  LET rows == meta \intersect data
      bundle == IF rows \intersect Texts = {} THEN {} ELSE {Bundle}
  IN
  /\ call[c].pc = "queued" /\ call[c].art = Summary
  /\ call' = [call EXCEPT ![c].pc = "choose", ![c].rows = rows,
                          ![c].todo = bundle \union (rows \intersect Raws) \union {Summary}]
  /\ excused' = (excused \/ \E d \in Slots : call[d].pc \in Finalizing)
  /\ UNCHANGED <<agentVars, spoolVars, elabVars, faults>>

(* The bundle first, then the raw files, then the summary.                  *)
InTurn(c, i) ==
  /\ i \in call[c].todo
  /\ Bundle \in call[c].todo => i = Bundle
  /\ i = Summary => call[c].todo = {Summary}

(* The pc after item i: more items, or the end of the finalization.         *)
After(i) == IF i = Summary THEN "final" ELSE "choose"

(* Mutant of Choose: the journal is not consulted.                          *)
ChooseUnchecked(c) ==
  /\ call[c].pc = "choose"
  /\ \E i \in Items :
       /\ InTurn(c, i)
       /\ call' = [call EXCEPT ![c].pc = "post", ![c].item = i, ![c].todo = @ \ {i}]
  /\ UNCHANGED <<agentVars, spoolVars, elabVars, faults, excused>>

(* Mutant of Choose: the summary may come before the other items.           *)
ChooseAnyOrder(c) ==
  /\ call[c].pc = "choose"
  /\ \E i \in call[c].todo :
       call' = [call EXCEPT ![c].pc = IF i \in journal \ {Bundle} THEN After(i) ELSE "post",
                            ![c].item = i, ![c].todo = @ \ {i}]
  /\ UNCHANGED <<agentVars, spoolVars, elabVars, faults, excused>>

(* upload_raw_artifact_to_elab looks the item up in the journal; a bundle   *)
(* never is the same twice (it contains its time of creation).              *)
Choose(c) ==
  /\ call[c].pc = "choose"
  /\ \E i \in Items :
       /\ InTurn(c, i)
       /\ call' = [call EXCEPT
            ![c].pc = IF i \in journal \ {Bundle} THEN After(i) ELSE "post",
            ![c].item = i,
            ![c].todo = @ \ {i}]
  /\ UNCHANGED <<agentVars, spoolVars, elabVars, faults, excused>>

Holds(i, rows) == IF i = Bundle THEN rows \intersect Texts ELSE {i}

(* Mutant of PostItem: the uploaded item is taken for an artifact.     *)
PostItemSkewed(c) ==
  /\ call[c].pc = "post"
  /\ NoFault
  /\ copies' = [copies EXCEPT ![call[c].item] = @ + 1]
  /\ archived' = archived \union {call[c].item}
  /\ call' = [call EXCEPT ![c].pc = "record"]
  /\ UNCHANGED <<agentVars, spoolVars, journal, excused>>

(* The POST, and the GET of the details; a failure of either fails the      *)
(* finalization, and the copy may be there.                                 *)
PostItem(c) ==
  LET i == call[c].item
      Copied == /\ copies' = [copies EXCEPT ![i] = @ + 1]
                /\ archived' = archived \union Holds(i, call[c].rows)
  IN
  /\ call[c].pc = "post"
  /\ \/ /\ NoFault
        /\ Copied
        /\ call' = [call EXCEPT ![c].pc = "record"]
        /\ UNCHANGED excused
     \/ /\ Fault("elab")
        /\ Reply(c, FALSE)
        /\ \/ Copied /\ excused' = TRUE
           \/ UNCHANGED <<copies, archived, excused>>
  /\ UNCHANGED <<agentVars, spoolVars, journal>>

RecordItem(c) ==
  LET i == call[c].item IN
  /\ call[c].pc = "record"
  /\ \/ /\ NoFault
        /\ journal' = journal \union {i}
        /\ call' = [call EXCEPT ![c].pc = After(i)]
        /\ UNCHANGED excused
     \/ /\ Fault("disk")
        /\ Reply(c, FALSE)
        /\ excused' = TRUE
        /\ UNCHANGED journal
  /\ UNCHANGED <<agentVars, spoolVars, copies, archived>>

(* The journal line of the finalized run, and the answer.                   *)
Finalized(c) ==
  /\ call[c].pc = "final"
  /\ \/ NoFault /\ Reply(c, TRUE)
     \/ Fault("disk") /\ Reply(c, FALSE)
  /\ UNCHANGED <<agentVars, spoolVars, elabVars, excused>>

(* A request that never reaches the server.                                 *)
LoseRequest(c) ==
  /\ call[c].pc = "queued"
  /\ Fault("net")
  /\ call' = [call EXCEPT ![c] = FreeCall]
  /\ UNCHANGED <<agentVars, spoolVars, elabVars, excused>>

(* An answer nobody waits for any more.                                     *)
DropAnswer(c) ==
  /\ call[c].pc = "replied"
  /\ ~(At("await") /\ agent.slot = c)
  /\ call' = [call EXCEPT ![c] = FreeCall]
  /\ UNCHANGED <<agentVars, spoolVars, elabVars, faults, excused>>

(* The service restarts; its files stay as they are.                        *)
ServerRestart ==
  /\ Fault("server")
  /\ call' = [c \in Slots |-> FreeCall]
  /\ excused' = (excused \/ \E c \in Slots : call[c].pc = "record")
  /\ UNCHANGED <<agentVars, spoolVars, elabVars>>

-------------------------------------------------------------------------------
AgentStep ==
  \/ BeginFlush \/ TransferFailed \/ TransferDone \/ EndTransfer \/ Publish \/ AgentStart
  \/ FinishRun
  \/ \E a \in Artifacts : \/ Skip(a) \/ RefuseLarge(a)
                          \/ \E c \in Slots : Transfer(a, c)

ServerStep(c) ==
  \/ StoreData(c) \/ StoreCollides(c) \/ StoreMeta(c)
  \/ LoadRows(c) \/ Choose(c) \/ PostItem(c) \/ RecordItem(c) \/ Finalized(c)
  \/ DropAnswer(c)

Next ==
  /\ \/ AgentStep
     \/ Prune
     \/ AgentCrash
     \/ \E c \in Slots : ServerStep(c) \/ LoseRequest(c)
     \/ ServerRestart
  /\ UNCHANGED setting

Spec == Init /\ [][Next]_vars

(* The agent keeps flushing and every worker thread keeps going.            *)
Fairness ==
  /\ WF_vars(AgentStep /\ UNCHANGED setting)
  /\ \A c \in Slots : WF_vars(ServerStep(c) /\ UNCHANGED setting)

FairSpec == Spec /\ Fairness

-------------------------------------------------------------------------------
(* Type invariant.                                                          *)

AgentState == [pc : AgentPcs, phase : {"live", "flush"}, todo : SUBSET Artifacts, art : Artifacts,
               slot : Slots, moved : SUBSET Artifacts, failed : BOOLEAN]
CallState  == [pc : CallPcs, art : Artifacts, rows : SUBSET Staging, todo : SUBSET Items,
               item : Items, ok : BOOLEAN]

TypeOK ==
  /\ setting \in Settings
  /\ local \subseteq Artifacts
  /\ report \in [done : BOOLEAN, moved : SUBSET Artifacts]
  /\ agent \in AgentState
  /\ meta \subseteq data /\ data \subseteq Staging
  /\ journal \subseteq Items
  /\ copies \in [Items -> Nat]
  /\ archived \subseteq Artifacts
  /\ call \in [Slots -> CallState]
  /\ faults \in Nat
  /\ excused \in BOOLEAN

-------------------------------------------------------------------------------
(* Properties.                                                              *)

Held(a) == a \in data \union archived

(* Until the report is out, and with server-side bundling for good, every   *)
(* artifact is on the agent's disk or in the server's keeping: eviction     *)
(* after an answer, crashes and lost answers lose nothing.                  *)
ArtifactKept ==
  \A a \in Artifacts :
    (a = Summary => Persisted) /\ (At("sent") => setting.bundling) => a \in local \/ Held(a)

(* With server-side bundling the report is published only when the server   *)
(* holds every artifact and the summary is in eLabFTW.                      *)
PublishedIsHeld == At("sent") /\ setting.bundling => \A a \in Artifacts : Held(a)

(* When the server answers that the run is finalized, all it had staged     *)
(* when it listed the spool is in eLabFTW, and so is the summary.           *)
FinalizedHoldsRows ==
  \A c \in Slots :
    call[c].pc = "replied" /\ call[c].ok /\ call[c].art = Summary =>
      call[c].rows \union {Summary} \subseteq archived

(* However often a run is finalized, a raw file or a summary is uploaded    *)
(* once, unless an upload was interrupted or two finalizations overlapped.  *)
UploadedOnce == ~excused => \A i \in Items \ {Bundle} : copies[i] <= 1

(* The same bundle is built whenever the pieces arrive: what is published   *)
(* is in eLabFTW.                                                           *)
PublishedIsArchived == At("sent") => Artifacts \subseteq archived

(* A finished run is published in the end, whatever transfers failed, and   *)
(* without bundling even when an artifact can never be transferred.         *)
FinishedIsPublished == Persisted ~> At("sent")
===============================================================================
