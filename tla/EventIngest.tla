------------------------------ MODULE EventIngest ------------------------------
(***************************************************************************)
(* The event pipeline of the fleet service (_ingest_v1_event): every status *)
(* RPC and every report is turned into v1 events, and each event is folded  *)
(* into one "run event" in eLabFTW.  Ten gRPC worker threads run the        *)
(* pipeline at once; LocalState has a lock, but only around single reads    *)
(* and writes, so every step between two of its calls, or two HTTP calls to *)
(* eLabFTW, can interleave with other threads.                              *)
(***************************************************************************)
EXTENDS Naturals, Sequences, FiniteSets, FiniteSetsExt

CONSTANTS
  Handlers,        \* gRPC worker threads
  EventIds,        \* event_id values that clients send
  Event,           \* Event[e]: the content sent under event id e
  MaxEventIds,     \* LocalState._max_event_ids: dedupe entries kept
  MaxEventHistory, \* cfg max_event_history: events kept in a run event
  Faults,          \* kinds of fault that may happen, a subset of FaultKinds
  MaxFaults,       \* bound: faults in a behaviour
  MaxCalls         \* bound: deliveries of events in a behaviour

(* elab: an HTTP call fails, with or without effect; blank: a GET is        *)
(* answered without usable metadata; patch: the metadata PATCH fails; save: *)
(* writing state.json fails; crash: the service restarts                    *)
FaultKinds == {"elab", "blank", "patch", "save", "crash"}

Severity == [PLANNED |-> 0, RUNNING |-> 1, COMPLETED |-> 2, PARTIAL |-> 3, FAILED |-> 4]
Status == DOMAIN Severity

(* Mutant of RunKey: the policy revision is left out.                       *)
RunKeyWithoutPolicy(e) == <<Event[e].experiment, Event[e].device>>

RunKey(e) == <<Event[e].experiment, Event[e].policy, Event[e].device>>
RunKeys == {RunKey(e) : e \in EventIds}

ASSUME IngestAssumption ==
  /\ IsFiniteSet(EventIds) /\ EventIds # {}
  /\ \A e \in EventIds : Event[e].runState \in Status \union {""}
  /\ MaxEventIds \in Nat \ {0} /\ MaxEventHistory \in Nat \ {0}
  /\ Faults \subseteq FaultKinds /\ MaxFaults \in Nat /\ MaxCalls \in Nat

VARIABLES
  seen,     \* LocalState seen_events: event id -> time marked (in memory)
  runs,     \* LocalState runs: run key -> [id, status], id 0 when unknown
  disk,     \* state.json: the last saved [seen, runs]
  elab,     \* eLabFTW run events, in creation order, indexed by their id
  handler,  \* what each worker thread is doing
  faults,   \* faults so far: [number, kinds]
  calls,    \* number of deliveries so far
  acked,    \* history: events some client was told are stored
  expired,  \* history: events dropped from seen by pruning
  unsaved,  \* history: events whose mark could not be saved at first
  overlapped \* history: run keys two threads have worked on at once

vars == <<seen, runs, disk, elab, handler, faults, calls, acked, expired, unsaved, overlapped>>
localState == <<seen, runs, disk, expired, unsaved>>

NoRun == [id |-> 0, status |-> "PLANNED"]
Blank == [run |-> <<>>, status |-> "PLANNED", events |-> <<>>, total |-> 0]
Idle  == [pc |-> "idle", event |-> CHOOSE e \in EventIds : TRUE,
          id |-> 0, snapshot |-> Blank, merged |-> "PLANNED"]

Init ==
  /\ seen = [e \in {} |-> 0]
  /\ runs = [k \in RunKeys |-> NoRun]
  /\ disk = [seen |-> seen, runs |-> runs]
  /\ elab = <<>>
  /\ handler = [h \in Handlers |-> Idle]
  /\ faults = [number |-> 0, kinds |-> {}]
  /\ calls = 0
  /\ acked = {}
  /\ expired = {}
  /\ unsaved = {}
  /\ overlapped = {}

-------------------------------------------------------------------------------
(* Pure parts of the pipeline.                                              *)

StatusFromEvent(ev) ==
  IF ev.runState \in Status THEN ev.runState
  ELSE CASE ev.type = "ERROR"                          -> "FAILED"
         [] ev.type = "COMMAND_FAILED"                 -> "PARTIAL"
         [] ev.type = "COMMAND_FINISHED" /\ ev.exit # 0 -> "PARTIAL"
         [] OTHER                                      -> "RUNNING"

Incoming(h) == StatusFromEvent(Event[handler[h].event])

(* Mutant of MergeStatus: the latest status wins.                           *)
MergeStatusLatest(current, incoming) == incoming

MergeStatus(current, incoming) ==
  IF Severity[incoming] >= Severity[current] THEN incoming ELSE current

LastN(s, n) == IF Len(s) <= n THEN s ELSE SubSeq(s, Len(s) - n + 1, Len(s))

(* Mutant of Merged: the history is replaced instead of extended.           *)
MergedReplacing(snapshot, e) ==
  [snapshot EXCEPT !.status = MergeStatus(@, StatusFromEvent(Event[e])),
                   !.events = <<e>>,
                   !.total  = @ + 1]

(* The metadata _update_run_event writes back, computed from what it read.  *)
Merged(snapshot, e) ==
  [snapshot EXCEPT !.status = MergeStatus(@, StatusFromEvent(Event[e])),
                   !.events = LastN(Append(@, e), MaxEventHistory),
                   !.total  = @ + 1]

(* The metadata of a new run event.                                         *)
NewRunEvent(e) ==
  [Blank EXCEPT !.run = RunKey(e),
                !.status = IF StatusFromEvent(Event[e]) = "PLANNED" THEN "PLANNED" ELSE "RUNNING"]

(* What pruning may leave of the dedupe table s: its MaxEventIds newest     *)
(* entries, entries of the same millisecond being dropped in any order.     *)
Pruned(s) ==
  IF Cardinality(DOMAIN s) <= MaxEventIds THEN {s}
  ELSE {[e \in kept |-> s[e]] :
          kept \in {K \in SUBSET DOMAIN s :
                      /\ Cardinality(K) = MaxEventIds
                      /\ \A a \in K, b \in DOMAIN s \ K : s[a] >= s[b]}}

-------------------------------------------------------------------------------
(* Steps of a worker thread.                                                *)

At(h, pc) == handler[h].pc = pc

Working(h, key) == ~At(h, "idle") /\ RunKey(handler[h].event) = key

Goto(h, pc) == handler' = [handler EXCEPT ![h].pc = pc]

Fault(kind) ==
  /\ kind \in Faults
  /\ faults.number < MaxFaults
  /\ faults' = [number |-> faults.number + 1, kinds |-> faults.kinds \union {kind}]

Ack(h) ==
  /\ handler' = [handler EXCEPT ![h] = Idle]
  /\ acked' = acked \union {handler[h].event}

(* Any exception inside the pipeline ends in Ack(ok=False).                 *)
Nack(h) ==
  /\ handler' = [handler EXCEPT ![h] = Idle]
  /\ acked' = acked

(* Mutant of SaveThen: the dedupe table is not part of what is saved.       *)
SaveThenWithoutSeen(h, next) ==
  /\ disk' = [seen |-> disk.seen, runs |-> runs']
  /\ next
  /\ UNCHANGED <<faults, unsaved>>

(* _save_locked, after the in-memory change: state.json is replaced and the *)
(* pipeline goes on to next, or the write raises and the call is refused.   *)
SaveThen(h, next) ==
  \/ /\ disk' = [seen |-> seen', runs |-> runs']
     /\ next
     /\ UNCHANGED <<faults, unsaved>>
  \/ /\ Fault("save")
     /\ disk' = disk
     /\ unsaved' = unsaved \union (DOMAIN seen' \ DOMAIN disk.seen)
     /\ Nack(h)

Call(h, e) ==
  /\ At(h, "idle")
  /\ calls < MaxCalls
  /\ calls' = calls + 1
  /\ handler' = [handler EXCEPT ![h].pc = "check", ![h].event = e]
  /\ overlapped' = IF \E g \in Handlers : Working(g, RunKey(e))
                    THEN overlapped \union {RunKey(e)} ELSE overlapped
  /\ UNCHANGED <<localState, elab, faults, acked>>

IgnoreDuplicate(h) ==
  /\ At(h, "check")
  /\ handler[h].event \in DOMAIN seen
  /\ Ack(h)
  /\ UNCHANGED <<localState, elab, faults, calls, overlapped>>

(* Mutant of StartIngest: has_event is not consulted.                       *)
StartIngestUnchecked(h) ==
  /\ At(h, "check")
  /\ Goto(h, "lookup")
  /\ UNCHANGED <<localState, elab, faults, calls, overlapped, acked>>

StartIngest(h) ==
  /\ At(h, "check")
  /\ handler[h].event \notin DOMAIN seen
  /\ Goto(h, "lookup")
  /\ UNCHANGED <<localState, elab, faults, calls, overlapped, acked>>

(* _get_or_create_device_item, then the first half of _ensure_run_event.    *)
LookupRun(h) ==
  LET run == runs[RunKey(handler[h].event)] IN
  /\ At(h, "lookup")
  /\ \/ /\ run.id # 0
        /\ handler' = [handler EXCEPT ![h].pc = "get", ![h].id = run.id]
        /\ UNCHANGED <<faults, acked>>
     \/ /\ run.id = 0
        /\ Goto(h, "create")
        /\ UNCHANGED <<faults, acked>>
     \/ Fault("elab") /\ Nack(h)
  /\ UNCHANGED <<localState, elab, calls, overlapped>>

(* The POSTs that may follow a POST that failed: with the metadata as a     *)
(* string, where there was an answer (_request); then the same, both again, *)
(* with the dates in another format (create_event_for_item).                *)
Posts == {"create", "create2", "recreate", "recreate2"}

NextPosts(pc) ==
  CASE pc = "create" -> {"create2", "recreate"}
    [] pc = "create2" -> {"recreate"}
    [] pc = "recreate" -> {"recreate2"}
    [] OTHER -> {}

(* A POST fails before or after eLabFTW stored the event.                   *)
CreateRunEvent(h) ==
  LET created == Append(elab, NewRunEvent(handler[h].event)) IN
  /\ handler[h].pc \in Posts
  /\ \/ /\ elab' = created
        /\ handler' = [handler EXCEPT ![h].pc = "bind", ![h].id = Len(created)]
        /\ UNCHANGED <<faults, acked>>
     \/ /\ Fault("elab")
        /\ elab' \in {elab, created}
        /\ \/ \E pc \in NextPosts(handler[h].pc) : Goto(h, pc) /\ acked' = acked
           \/ handler[h].pc \in {"recreate", "recreate2"} /\ Nack(h)
  /\ UNCHANGED <<localState, calls, overlapped>>

(* Mutants of SetRunEventId: nothing is stored; a wrong id is stored.       *)
SetRunEventIdForgotten(h, status) == runs' = runs

SetRunEventIdSkewed(h, status) ==
  runs' = [runs EXCEPT ![RunKey(handler[h].event)] =
             [id |-> handler[h].id + 1, status |-> status]]

SetRunEventId(h, status) ==
  runs' = [runs EXCEPT ![RunKey(handler[h].event)] =
             [id |-> handler[h].id, status |-> status]]

BindRunEvent(h) ==
  /\ At(h, "bind")
  /\ SetRunEventId(h, Incoming(h))
  /\ seen' = seen
  /\ SaveThen(h, Goto(h, "get") /\ acked' = acked)
  /\ UNCHANGED <<elab, calls, overlapped, expired>>

Reads(h, snapshot) == handler' = [handler EXCEPT ![h].pc = "patch", ![h].snapshot = snapshot]

(* Metadata that is missing or cannot be parsed is replaced by none at all. *)
(* (Which run a run event was made for is also in its title.)               *)
Bare(runEvent) == [Blank EXCEPT !.run = runEvent.run]

GetRunEvent(h) ==
  /\ At(h, "get")
  /\ \/ Reads(h, elab[handler[h].id]) /\ UNCHANGED <<faults, acked>>
     \/ Reads(h, Bare(elab[handler[h].id])) /\ Fault("blank") /\ UNCHANGED acked
     \/ Fault("elab") /\ Nack(h)
  /\ UNCHANGED <<localState, elab, calls, overlapped>>

(* A failed PATCH is logged and swallowed: the event goes on to be marked.  *)
PatchRunEvent(h) ==
  LET merged == Merged(handler[h].snapshot, handler[h].event) IN
  /\ At(h, "patch")
  /\ handler' = [handler EXCEPT ![h].pc = "mark", ![h].merged = merged.status,
                                   ![h].snapshot = Blank]
  /\ \/ /\ elab' = [elab EXCEPT ![handler[h].id] = merged]
        /\ faults' = faults
     \/ Fault("patch") /\ elab' = elab
  /\ UNCHANGED <<localState, calls, overlapped, acked>>

MarkEvent(h) ==
  LET e == handler[h].event
      newest == Max({0} \union {seen[x] : x \in DOMAIN seen})
  IN
  /\ At(h, "mark")
  /\ \E now \in {newest, newest + 1} :
       LET marked == [x \in DOMAIN seen \union {e} |-> IF x = e THEN now ELSE seen[x]] IN
       \E kept \in Pruned(marked) :
         /\ seen' = kept
         /\ expired' = expired \union (DOMAIN marked \ DOMAIN kept)
  /\ runs' = runs
  /\ SaveThen(h, Goto(h, "bindstatus") /\ acked' = acked)
  /\ UNCHANGED <<elab, calls, overlapped>>

FinishIngest(h) ==
  /\ At(h, "bindstatus")
  /\ SetRunEventId(h, handler[h].merged)
  /\ seen' = seen
  /\ SaveThen(h, Ack(h))
  /\ UNCHANGED <<elab, calls, overlapped, expired>>

(* The service stops and starts again from state.json; its calls in flight  *)
(* are gone, what they did to eLabFTW is not.                               *)
Restart ==
  /\ Fault("crash")
  /\ handler' = [h \in Handlers |-> Idle]
  /\ seen' = disk.seen
  /\ runs' = disk.runs
  /\ UNCHANGED <<disk, elab, calls, overlapped, acked, expired, unsaved>>

Step(h) ==
  \/ IgnoreDuplicate(h) \/ StartIngest(h) \/ LookupRun(h) \/ CreateRunEvent(h)
  \/ BindRunEvent(h) \/ GetRunEvent(h) \/ PatchRunEvent(h) \/ MarkEvent(h)
  \/ FinishIngest(h)

Next ==
  \/ \E h \in Handlers, e \in EventIds : Call(h, e)
  \/ \E h \in Handlers : Step(h)
  \/ Restart

Spec == Init /\ [][Next]_vars

-------------------------------------------------------------------------------
(* Type invariant.                                                          *)

RunEvent == [run : RunKeys, status : Status, events : Seq(EventIds), total : Nat]
Snapshots == [run : RunKeys \union {<<>>}, status : Status, events : Seq(EventIds), total : Nat]

Pcs == {"idle", "check", "lookup", "create", "create2", "recreate", "recreate2", "bind", "get",
        "patch", "mark", "bindstatus"}

TypeOK ==
  /\ DOMAIN seen \subseteq EventIds /\ \A e \in DOMAIN seen : seen[e] \in Nat
  /\ runs \in [RunKeys -> [id : 0 .. Len(elab), status : Status]]
  /\ DOMAIN disk.seen \subseteq EventIds
  /\ disk.runs \in [RunKeys -> [id : 0 .. Len(elab), status : Status]]
  /\ elab \in Seq(RunEvent)
  /\ handler \in [Handlers -> [pc : Pcs, event : EventIds, id : 0 .. Len(elab),
                               snapshot : Snapshots, merged : Status]]
  /\ faults \in [number : 0 .. MaxFaults, kinds : SUBSET FaultKinds]
  /\ calls \in 0 .. MaxCalls
  /\ acked \subseteq EventIds /\ expired \subseteq EventIds /\ unsaved \subseteq EventIds
  /\ overlapped \subseteq RunKeys

-------------------------------------------------------------------------------
(* Properties.                                                              *)

(* The places of run events where event e is recorded.                      *)
Entries(e) ==
  {p \in (DOMAIN elab) \X (1 .. MaxEventHistory) :
     p[2] <= Len(elab[p[1]].events) /\ elab[p[1]].events[p[2]] = e}

(* No fault of these kinds has happened.                                    *)
Without(kinds) == faults.kinds \cap kinds = {}

(* Run keys whose deliveries never overlapped in time.                      *)
Serial(key) == key \notin overlapped

(* A run event never goes back to a less severe status, as long as no two   *)
(* threads worked on its run at once (the comment in _update_run_event) and *)
(* eLabFTW answered with the metadata it was given.                         *)
SerialNoDowngrade ==
  [][\A i \in DOMAIN elab :
       Serial(elab[i].run)' /\ Without({"blank"})' =>
         Severity[elab'[i].status] >= Severity[elab[i].status]]_vars

(* The same without the condition: the comment as it is written.            *)
NoDowngrade ==
  [][\A i \in DOMAIN elab : Severity[elab'[i].status] >= Severity[elab[i].status]]_vars

(* An event id is counted into run events at most once, however often it is *)
(* delivered, while its run is served by one thread at a time and no crash  *)
(* or pruning intervenes.                                                   *)
SerialCountedOnce ==
  Without({"crash"}) =>
    \A e \in EventIds :
      Serial(RunKey(e)) /\ e \notin expired => Cardinality(Entries(e)) <= 1

(* At most one run event of a run key ever collects events; duplicates left *)
(* by a POST whose answer was lost, or by a crash, stay empty.  (A crash    *)
(* after a write of state.json that failed forgets the first of them.)      *)
OneActiveRunEvent ==
  Without({"save"}) => \A i, j \in DOMAIN elab :
    /\ elab[i].run = elab[j].run /\ Serial(elab[i].run)
    /\ elab[i].events # <<>> /\ elab[j].events # <<>>
    => i = j

(* What a client was told is stored is in the run event, unless a PATCH     *)
(* failed or a GET came without metadata: the event itself, until a full    *)
(* history dropped it, and a status at least as severe as the event's.      *)
Reflected(e) ==
  \E i \in DOMAIN elab :
    /\ elab[i].run = RunKey(e)
    /\ \/ \E j \in DOMAIN elab[i].events : elab[i].events[j] = e
       \/ Len(elab[i].events) = MaxEventHistory
    /\ Severity[elab[i].status] >= Severity[StatusFromEvent(Event[e])]

AckedIsReflected ==
  \A e \in acked : Without({"patch", "blank"}) /\ Serial(RunKey(e)) => Reflected(e)

(* A run event only collects events of one experiment, policy revision and  *)
(* device, whatever the interleaving, lost answers and restarts.            *)
NoCrossRun ==
  \A i \in DOMAIN elab : \A j, k \in DOMAIN elab[i].events :
    LET a == Event[elab[i].events[j]]
        b == Event[elab[i].events[k]]
    IN  /\ a.experiment = b.experiment
        /\ a.policy = b.policy
        /\ a.device = b.device

(* Once an event is marked and no thread is working on it, no later         *)
(* delivery of it gets past the dedupe check, unless pruning drops it.      *)
Settled(e) ==
  /\ e \in DOMAIN seen /\ e \in DOMAIN disk.seen
  /\ \A h \in Handlers : handler[h].event = e => handler[h].pc \in {"idle", "check"}

SettledIsFinal ==
  [][\A e \in EventIds : Settled(e) /\ e \notin expired' => Settled(e)']_vars

(* The pipeline implements the ledger: an acknowledged event is in          *)
(* state.json, or was until pruning dropped it, and a restart loses none,   *)
(* but for those whose mark some write of state.json failed to save.        *)
Ledger == INSTANCE EventLedger WITH ledger <- DOMAIN disk.seen \union expired \union unsaved

ImplementsLedger == Ledger!Spec
===============================================================================
