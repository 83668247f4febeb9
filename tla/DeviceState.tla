------------------------------ MODULE DeviceState ------------------------------
(***************************************************************************)
(* The item of one device in eLabFTW.  Hello and GetPolicy find or create   *)
(* it, through a cache; each RPC then leaves it to a thread of its own to   *)
(* write what it learned into the item.  A write replaces the whole         *)
(* metadata document by one made from the item as the thread knows it,      *)
(* which may be an old one: from the cache, or from before another write.   *)
(***************************************************************************)
EXTENDS Naturals, FiniteSets, Sequences

CONSTANTS
  Threads,   \* RPC handlers and the threads they start
  Values,    \* what an RPC reports: a descriptor, a policy, a preparation, a run
  Cachings,  \* device_item_cache_ttl_s > 0: the settings looked at
  None,      \* no value
  MaxItems,  \* bound: items that can be created
  MaxCalls,  \* bound: RPCs in a behaviour
  Faults,    \* kinds of fault that may happen, a subset of FaultKinds
  MaxFaults  \* bound: faults in a behaviour

(* http: a request to eLabFTW fails; lost: it has its effect, its answer is *)
(* lost; empty: POST /items is answered without a body; save: state.json    *)
(* cannot be written; restart: the service stops and starts again           *)
FaultKinds == {"http", "lost", "empty", "save", "restart"}

ASSUME DeviceAssumption ==
  /\ None \notin Values
  /\ Cachings \subseteq BOOLEAN /\ Cachings # {}
  /\ MaxItems \in Nat /\ MaxCalls \in Nat /\ MaxFaults \in Nat
  /\ Faults \subseteq FaultKinds

VARIABLES
  caching,   \* whether items are cached
  created,   \* number of items of the device in eLabFTW
  item,      \* the items: [status, presence, state, details]
  cache,     \* the cached item: an empty sequence, or one of one snapshot
  thread,    \* [pc, rpc, value, known, todo] of each thread
  prepared,  \* seen_preparations of LocalState
  saved,     \* the same in state.json
  calls,     \* number of RPCs so far
  faults,    \* number of faults so far
  history    \* what happened, for the properties: see Init

vars == <<caching, created, item, cache, thread, prepared, saved, calls, faults, history>>

Items == 1..MaxItems
Existing == 1..created
Keys == {"hello", "assignment", "fetch", "prepare", "report"}

(* The title of the resource status that is written with a runtime state.   *)
Titles ==
  [ONLINE |-> "Operational", ASSIGNED |-> "Open", IDLE |-> "Operational",
   POLICY_READY |-> "Open", POLICY_CACHED |-> "Open", WAITING_POLICY |-> "Waiting",
   PREPARED |-> "Open", PREPARE_REJECTED |-> "Maintenance mode",
   REPORT_ACCEPTED |-> "Processed", REPORT_DUPLICATE |-> "Processed",
   REPORT_REJECTED |-> "Maintenance mode"]

(* REPORT_RECEIVED leaves the status alone; "unset" is the state of a new   *)
(* item, "presence" stands for the write that has no state.                 *)
States == DOMAIN Titles \union {"REPORT_RECEIVED", "unset", "presence"}

Documents ==
  [status: {"Operational", "Open", "Waiting", "Maintenance mode", "Processed", "unset"},
   presence: Values \union {None}, state: States,
   details: [Keys -> {<<>>} \union (States \X (Values \union {None}))]]

NewDocument == [status |-> "unset", presence |-> None, state |-> "unset",
                details |-> [k \in Keys |-> <<>>]]

(* The empty item a POST without a body leaves; items have an id above.     *)
EmptyItem == [id |-> 0, doc |-> NewDocument]
Snapshot(i) == [id |-> i, doc |-> item[i]]

Free == [pc |-> "free", rpc |-> "none", value |-> None, known |-> EmptyItem, todo |-> <<>>]

Init ==
  /\ caching \in Cachings
  /\ created = 0
  /\ item = [i \in Items |-> NewDocument]
  /\ cache = <<>>
  /\ thread = [t \in Threads |-> Free]
  /\ prepared = {} /\ saved = {}
  /\ calls = 0 /\ faults = 0
  /\ history = [together |-> FALSE,   \* two threads were about to create an item
                crowded |-> FALSE,    \* two threads were at work at once
                lagging |-> FALSE,    \* a write was made from an old snapshot
                unsaved |-> FALSE,    \* a write of state.json failed
                hello |-> None,       \* descriptor of the last Hello answered
                latest |-> NewDocument.details,  \* details as last written, while not lagging
                accepted |-> {}]      \* preparations answered ACCEPTED

Fault(kind) == kind \in Faults /\ faults < MaxFaults /\ faults' = faults + 1
NoFault == UNCHANGED faults

Busy == {t \in Threads : thread[t].pc # "free"}

---------------------------------------------------------------------------
(* What is written: the resource status of a runtime state, the details an  *)
(* RPC adds.  A write without keys is the presence of a Hello.              *)

Title(state) == IF state \in DOMAIN Titles THEN Titles[state] ELSE "unset"

Write(state, keys, v) == [state |-> state, keys |-> keys, value |-> v]
Presence(v) == Write("presence", {}, v)

DetailsReplaced(doc, w) ==
  [k \in Keys |-> IF k \in w.keys THEN <<w.state, w.value>> ELSE <<>>]

(* runtime_next: the details known, those of this write replaced.           *)
Details(doc, w) ==
  [k \in Keys |-> IF k \in w.keys THEN <<w.state, w.value>> ELSE doc.details[k]]

StatusAsToken(doc, w, now) ==
  IF Title(w.state) # "unset" /\ doc.status # Title(w.state) THEN w.state ELSE now

StatusOnce(doc, w, now) ==
  IF Title(w.state) # "unset" /\ doc.status = "unset" THEN Title(w.state) ELSE now

(* status is part of the PATCH only if the item as known has another one.   *)
Status(doc, w, now) ==
  IF Title(w.state) # "unset" /\ doc.status # Title(w.state) THEN Title(w.state) ELSE now

(* Document after a PATCH made from doc, of an item whose status is now.    *)
Patched(doc, w, now) ==
  IF w.keys = {}
  THEN [doc EXCEPT !.presence = w.value, !.status = now]
  ELSE [status |-> Status(doc, w, now), presence |-> doc.presence,
        state |-> w.state, details |-> Details(doc, w)]

(* _set_device_runtime_state returns early if nothing changes what it knows *)
Needless(doc, w) ==
  /\ w.keys # {}
  /\ doc.state = w.state /\ doc.details = Details(doc, w)
  /\ Title(w.state) \in {"unset", doc.status}

---------------------------------------------------------------------------
(* Arrival of an RPC.                                                       *)

Begin(t, next) ==
  /\ thread[t].pc = "free" /\ calls < MaxCalls
  /\ calls' = calls + 1
  /\ thread' = [thread EXCEPT ![t] = next]

NoteCall == [history EXCEPT !.crowded = @ \/ Busy # {}]

(* _get_or_create_device_item looks into the cache first.                   *)
FromCache(next) ==
  IF cache # <<>>
  THEN [next EXCEPT !.pc = IF next.rpc = "policy" THEN "select" ELSE "patch", !.known = cache[1]]
  ELSE [next EXCEPT !.pc = "find"]

Hello(t) ==
  /\ \E v \in Values :
       /\ Begin(t, FromCache([Free EXCEPT !.rpc = "hello", !.value = v,
                                          !.todo = <<Presence(v), Write("ONLINE", {"hello"}, v)>>]))
       /\ history' = [NoteCall EXCEPT !.hello = v]
  /\ UNCHANGED <<caching, created, item, cache, prepared, saved, faults>>

GetPolicy(t) ==
  /\ \E v \in Values \union {None} :
       Begin(t, FromCache([Free EXCEPT !.rpc = "policy", !.value = v]))
  /\ history' = NoteCall
  /\ UNCHANGED <<caching, created, item, cache, prepared, saved, faults>>

(* Threads of AckPrepared and PublishReport read the item for every write.  *)
Reading(writes) == [Free EXCEPT !.pc = "read", !.rpc = "reading", !.todo = writes]

(* A preparation that is already known is acknowledged again, whatever the  *)
(* mode of this request; otherwise DUAL_NIC may be refused.                 *)
RejectPreparation(t) ==
  /\ \E p \in Values \ prepared : Begin(t, Reading(<<Write("PREPARE_REJECTED", {"prepare"}, p)>>))
  /\ history' = NoteCall
  /\ UNCHANGED <<caching, created, item, cache, prepared, saved, faults>>

AckPreparedInMemory(t) ==
  /\ \E p \in Values :
       /\ Begin(t, Reading(<<Write("PREPARED", {"prepare"}, p)>>))
       /\ prepared' = prepared \union {p}
       /\ history' = [NoteCall EXCEPT !.accepted = @ \union {p}]
  /\ NoFault
  /\ UNCHANGED <<caching, created, item, cache, saved>>

AckPrepared(t) ==
  /\ \E p \in Values :
       /\ Begin(t, Reading(<<Write("PREPARED", {"prepare"}, p)>>))
       /\ prepared' = prepared \union {p}
       /\ saved' = IF p \in prepared THEN saved ELSE prepared'
       /\ history' = [NoteCall EXCEPT !.accepted = @ \union {p}]
  /\ NoFault
  /\ UNCHANGED <<caching, created, item, cache>>

(* mark_preparation changes the table before the write that fails; the RPC  *)
(* then ends with an error.                                                 *)
AckUnsaved(t) ==
  /\ Fault("save")
  /\ thread[t].pc = "free" /\ calls < MaxCalls
  /\ \E p \in Values \ prepared : prepared' = prepared \union {p}
  /\ calls' = calls + 1
  /\ history' = [NoteCall EXCEPT !.unsaved = TRUE]
  /\ UNCHANGED <<caching, created, item, cache, thread, saved>>

(* PublishReport writes the state itself, before and after its work.        *)
PublishReport(t) ==
  /\ \E v \in Values, state \in {"REPORT_ACCEPTED", "REPORT_DUPLICATE", "REPORT_REJECTED"} :
       Begin(t, Reading(<<Write("REPORT_RECEIVED", {"report"}, v), Write(state, {"report"}, v)>>))
  /\ history' = NoteCall
  /\ UNCHANGED <<caching, created, item, cache, prepared, saved, faults>>

---------------------------------------------------------------------------
(* Finding or creating the item.                                            *)

Step(t, th) == thread' = [thread EXCEPT ![t] = th]
Know(th, known) == [th EXCEPT !.pc = IF th.rpc = "policy" THEN "select" ELSE "patch", !.known = known]

(* A thread gives up one write; those that read go on with the next.        *)
Skip(th) ==
  IF th.rpc = "reading" /\ Len(th.todo) > 1
  THEN [th EXCEPT !.pc = "read", !.todo = Tail(@)] ELSE Free

Remember(known) == cache' = IF caching THEN <<known>> ELSE cache

(* _find_device_item in _set_device_runtime_state: nothing is cached.       *)
Read(t) ==
  /\ thread[t].pc = "read"
  /\ IF created = 0
     THEN Step(t, FromCache(thread[t]))
     ELSE \E i \in Existing : Step(t, Know(thread[t], Snapshot(i)))
  /\ NoFault
  /\ UNCHANGED <<caching, created, item, cache, prepared, saved, calls, history>>

Find(t) ==
  /\ thread[t].pc = "find" /\ created > 0
  /\ \E i \in Existing :
       /\ Step(t, Know(thread[t], Snapshot(i)))
       /\ Remember(Snapshot(i))
  /\ NoFault
  /\ UNCHANGED <<caching, created, item, prepared, saved, calls, history>>

FindNoneUnasked(t) ==
  /\ thread[t].pc = "find"
  /\ Step(t, [thread[t] EXCEPT !.pc = "create"])
  /\ history' = [history EXCEPT !.together = @ \/ \E u \in Threads : thread[u].pc = "create"]
  /\ NoFault
  /\ UNCHANGED <<caching, created, item, cache, prepared, saved, calls>>

FindNone(t) ==
  /\ thread[t].pc = "find" /\ created = 0
  /\ Step(t, [thread[t] EXCEPT !.pc = "create"])
  /\ history' = [history EXCEPT !.together = @ \/ \E u \in Threads : thread[u].pc = "create"]
  /\ NoFault
  /\ UNCHANGED <<caching, created, item, cache, prepared, saved, calls>>

Create(t) ==
  /\ thread[t].pc = "create" /\ created < MaxItems
  /\ created' = created + 1
  /\ \/ /\ NoFault
        /\ LET known == [id |-> created', doc |-> NewDocument]
           IN  Step(t, Know(thread[t], known)) /\ Remember(known)
     \/ /\ Fault("empty")
        /\ Step(t, Know(thread[t], EmptyItem)) /\ Remember(EmptyItem)
     \/ /\ Fault("lost")
        /\ Step(t, Skip(thread[t])) /\ UNCHANGED cache
  /\ UNCHANGED <<caching, item, prepared, saved, calls, history>>

(* A failing request ends the RPC, or this write of a thread.               *)
RequestFails(t) ==
  /\ \/ thread[t].pc \in {"read", "find", "create"}
     \/ thread[t].pc = "select" /\ thread[t].known.id # 0
  /\ Fault("http")
  /\ Step(t, Skip(thread[t]))
  /\ UNCHANGED <<caching, created, item, cache, prepared, saved, calls, history>>

---------------------------------------------------------------------------
(* GetPolicy starts its threads once the policy is selected.                *)

(* The device has no work, or its item is the empty one: the policy is not  *)
(* looked for, and the thread has to read the item.                         *)
NoWork(t) ==
  /\ thread[t].pc = "select"
  /\ thread[t].value = None \/ thread[t].known.id = 0
  /\ LET write == Write("IDLE", {"assignment", "fetch"}, None)
     IN  Step(t, IF thread[t].known.id = 0
                 THEN Reading(<<write>>)
                 ELSE [thread[t] EXCEPT !.pc = "patch", !.todo = <<write>>])
  /\ NoFault
  /\ UNCHANGED <<caching, created, item, cache, prepared, saved, calls, history>>

(* One thread writes ASSIGNED, the other what the answer was.               *)
Assign(t, u) ==
  /\ thread[t].pc = "select" /\ thread[t].value # None /\ thread[t].known.id # 0
  /\ thread[u].pc = "free"
  /\ \E answer \in {"WAITING_POLICY", "POLICY_CACHED", "POLICY_READY"} :
       LET patching == [thread[t] EXCEPT !.pc = "patch"]
       IN  thread' = [thread EXCEPT
             ![t] = [patching EXCEPT !.todo = <<Write("ASSIGNED", {"assignment"}, thread[t].value)>>],
             ![u] = [patching EXCEPT !.todo = <<Write(answer, {"fetch"}, thread[t].value)>>]]
  /\ history' = [history EXCEPT !.crowded = TRUE]
  /\ NoFault
  /\ UNCHANGED <<caching, created, item, cache, prepared, saved, calls>>

---------------------------------------------------------------------------
(* The PATCH of one write.                                                  *)

(* The thread after this write: one that has the item goes on with it.      *)
WrittenOnce(th) ==
  IF Len(th.todo) = 1 THEN Free ELSE [th EXCEPT !.todo = Tail(@)]

Written(th) ==
  IF Len(th.todo) = 1 THEN Free
  ELSE [th EXCEPT !.pc = IF th.rpc = "reading" THEN "read" ELSE "patch", !.todo = Tail(@)]

(* What counts as the state of the device: all but the presence.            *)
Runtime(doc) == <<doc.status, doc.state, doc.details>>

NoteWrite(known, w) ==
  IF history.lagging \/ Runtime(known.doc) # Runtime(item[known.id])
  THEN [history EXCEPT !.lagging = TRUE, !.latest = NewDocument.details]
  ELSE [history EXCEPT !.latest = [k \in Keys |-> IF k \in w.keys THEN <<w.state, w.value>> ELSE @[k]]]

Patch(t) ==
  /\ thread[t].pc = "patch" /\ thread[t].known.id # 0
  /\ LET known == thread[t].known
         w == Head(thread[t].todo)
     IN  /\ item' = IF Needless(known.doc, w) THEN item
                    ELSE [item EXCEPT ![known.id] = Patched(known.doc, w, @.status)]
         /\ history' = NoteWrite(known, w)
         /\ \/ NoFault /\ Step(t, Written(thread[t]))
            \/ /\ ~Needless(known.doc, w) /\ Fault("lost")
               /\ Step(t, IF w.keys = {} THEN Free ELSE Written(thread[t]))
  /\ UNCHANGED <<caching, created, cache, prepared, saved, calls>>

(* The failure of a presence ends the thread of Hello; any other is logged. *)
PatchFails(t) ==
  /\ thread[t].pc = "patch" /\ thread[t].known.id # 0
  /\ ~Needless(thread[t].known.doc, Head(thread[t].todo))
  /\ Fault("http")
  /\ Step(t, IF Head(thread[t].todo).keys = {} THEN Free ELSE Written(thread[t]))
  /\ UNCHANGED <<caching, created, item, cache, prepared, saved, calls, history>>

(* An item without an id is not written.                                    *)
PatchNothing(t) ==
  /\ thread[t].pc = "patch" /\ thread[t].known.id = 0
  /\ Step(t, Written(thread[t]))
  /\ NoFault
  /\ UNCHANGED <<caching, created, item, cache, prepared, saved, calls, history>>

---------------------------------------------------------------------------
(* The entry of the cache is older than its time to live.                   *)
CacheExpires ==
  /\ cache # <<>> /\ cache' = <<>>
  /\ UNCHANGED <<caching, created, item, thread, prepared, saved, calls, faults, history>>

Restart ==
  /\ Fault("restart")
  /\ cache' = <<>>
  /\ thread' = [t \in Threads |-> Free]
  /\ prepared' = saved
  /\ UNCHANGED <<caching, created, item, saved, calls, history>>

(* Any other change of LocalState saves this table as well.                 *)
SaveOthers ==
  /\ saved' = prepared
  /\ UNCHANGED <<caching, created, item, cache, thread, prepared, calls, faults, history>>

ThreadStep(t) ==
  \/ Read(t) \/ Find(t) \/ FindNone(t) \/ Create(t) \/ RequestFails(t)
  \/ NoWork(t) \/ \E u \in Threads : Assign(t, u)
  \/ Patch(t) \/ PatchFails(t) \/ PatchNothing(t)

Next ==
  \/ \E t \in Threads :
       \/ Hello(t) \/ GetPolicy(t) \/ RejectPreparation(t) \/ AckPrepared(t)
       \/ AckUnsaved(t) \/ PublishReport(t) \/ ThreadStep(t)
  \/ SaveOthers \/ CacheExpires \/ Restart

Spec == Init /\ [][Next]_vars

---------------------------------------------------------------------------
Writes == [state: States, keys: SUBSET Keys, value: Values \union {None}]

(* Type correctness of the items, the cache, the threads and the tables.    *)
TypeOK ==
  /\ caching \in Cachings
  /\ created \in 0..MaxItems
  /\ \A i \in Items : item[i] \in Documents
  /\ \/ cache = <<>>
     \/ /\ caching /\ Len(cache) = 1
        /\ cache[1].id \in 0..created /\ cache[1].doc \in Documents
  /\ \A t \in Threads :
       /\ thread[t].known.id \in 0..created /\ thread[t].known.doc \in Documents
       /\ \A k \in DOMAIN thread[t].todo : thread[t].todo[k] \in Writes
  /\ prepared \subseteq Values /\ saved \subseteq Values
  /\ calls \in 0..MaxCalls /\ faults \in 0..MaxFaults

(* A device has one item, whatever failed, was lost or restarted, unless    *)
(* two threads missed it together; the search before each creation sees to  *)
(* that, also for a creation whose answer was lost or empty.                *)
OneItemInTurn == created > 1 => history.together

(* The runtime state of a device is never written from an old snapshot when *)
(* items are not cached and RPCs do not overlap.  GetPolicy overlaps with   *)
(* itself: its two threads write what each made of the same item.           *)
OldSnapshotsNeedCacheOrOverlap == history.lagging => caching \/ history.crowded

(* As long as no old snapshot was written, the resource status shown for    *)
(* the device is the one of its runtime state, across failed writes, lost   *)
(* answers and restarts.                                                    *)
StatusFollowsState ==
  ~history.lagging =>
    \A i \in Existing :
      Title(item[i].state) # "unset" => item[i].status = Title(item[i].state)

(* As long as no old snapshot was written, the item holds the latest detail *)
(* of every kind that was written: no write drops what another one left.    *)
DetailsKept ==
  ~history.lagging /\ ~history.together => \A i \in Existing : item[i].details = history.latest

(* A preparation that was accepted is not refused later, when its request   *)
(* is repeated: not with other arguments, and not after a restart, unless a *)
(* write of state.json failed.                                              *)
AcceptedStaysAccepted ==
  [][\A t \in Threads :
       /\ thread[t].pc = "free" /\ thread'[t].pc = "read"
       /\ thread'[t].todo[1].state = "PREPARE_REJECTED"
       => thread'[t].todo[1].value \notin history.accepted \/ history.unsaved]_vars

(* The item shows the descriptor of the last Hello, when nothing failed and *)
(* nothing overlapped.                                                      *)
HelloIsReflected ==
  faults = 0 /\ ~history.crowded /\ Busy = {} /\ history.hello # None
    => \A i \in Existing : item[i].presence = history.hello
===============================================================================
