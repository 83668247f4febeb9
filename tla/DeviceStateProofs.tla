--------------------------- MODULE DeviceStateProofs ---------------------------
(***************************************************************************)
(* Proofs about DeviceState, for any threads, values, bounds and faults: a  *)
(* device has one item, unless two threads missed it together; an old       *)
(* snapshot is written only with a cache or an overlap, and without one the *)
(* status follows the runtime state and no details are lost; a preparation  *)
(* that was accepted stays accepted.                                        *)
(***************************************************************************)
EXTENDS DeviceState, TLAPS

USE DeviceAssumption

(* Every action of Next by name, the case split of the proofs below.        *)
LEMMA Actions ==
  ASSUME Next
  PROVE  \/ SaveOthers \/ CacheExpires \/ Restart
         \/ \E t \in Threads :
              \/ Hello(t) \/ GetPolicy(t) \/ RejectPreparation(t) \/ AckPrepared(t)
              \/ AckUnsaved(t) \/ PublishReport(t) \/ Read(t) \/ Find(t) \/ FindNone(t)
              \/ Create(t) \/ RequestFails(t) \/ NoWork(t) \/ (\E u \in Threads : Assign(t, u))
              \/ Patch(t) \/ PatchFails(t) \/ PatchNothing(t)
  BY Zenon DEF Next, ThreadStep

(* Of the types this needs that a thread is a record with a program counter,*)
(* and the history one that knows whether two threads met.                  *)
IsThread(th) == "pc" \in DOMAIN th

Shape ==
  /\ DOMAIN thread = Threads
  /\ \A t \in Threads : IsThread(thread[t])
  /\ "together" \in DOMAIN history
  /\ created \in Nat

Creating(t) == thread[t].pc = "create"

(* As long as no two threads met, one at most is about to create an item,   *)
(* and only while there is none.                                            *)
CreateInv ==
  ~history.together =>
    /\ created <= 1
    /\ \A t \in Threads : Creating(t) => created = 0
    /\ \A t, u \in Threads : Creating(t) /\ Creating(u) => t = u

(* Where a thread goes next: nobody but FindNone sends one to create.       *)
Elsewhere(th) == IsThread(th) /\ th.pc # "create"

LEMMA FreeElsewhere == Elsewhere(Free)
  BY DEF Free, Elsewhere, IsThread

LEMMA ReadingElsewhere == \A writes : Elsewhere(Reading(writes))
  BY DEF Reading, Free, Elsewhere, IsThread

LEMMA KnowElsewhere ==
  ASSUME NEW th, IsThread(th), NEW known
  PROVE  Elsewhere(Know(th, known))
  BY DEF Know, Elsewhere, IsThread

LEMMA FromCacheElsewhere ==
  ASSUME NEW th, IsThread(th)
  PROVE  Elsewhere(FromCache(th))
  BY DEF FromCache, Elsewhere, IsThread

LEMMA SkipElsewhere ==
  ASSUME NEW th, IsThread(th)
  PROVE  Elsewhere(Skip(th))
  BY DEF Skip, Free, Elsewhere, IsThread

LEMMA WrittenElsewhere ==
  ASSUME NEW th, IsThread(th)
  PROVE  Elsewhere(Written(th))
  BY DEF Written, Free, Elsewhere, IsThread

(* A step that creates nothing and sends no thread to create.               *)
LEMMA HarmlessStep ==
  ASSUME Shape, CreateInv, UNCHANGED created,
         DOMAIN thread' = Threads,
         \A t \in Threads : thread'[t] = thread[t] \/ Elsewhere(thread'[t]),
         "together" \in DOMAIN history', history'.together = history.together
  PROVE  Shape' /\ CreateInv'
  <1>1. Shape'
    BY DEF Shape, Elsewhere
  <1>2. \A t \in Threads : Creating(t)' => Creating(t)
    BY DEF Creating, Elsewhere
  <1>3. CreateInv'
    BY <1>2 DEF CreateInv
  <1> QED BY <1>1, <1>3

(* The same for a step of one thread.                                       *)
LEMMA HarmlessThread ==
  ASSUME Shape, CreateInv, UNCHANGED created, NEW t \in Threads, NEW th, Elsewhere(th),
         thread' = [thread EXCEPT ![t] = th],
         "together" \in DOMAIN history', history'.together = history.together
  PROVE  Shape' /\ CreateInv'
  <1>1. DOMAIN thread' = Threads /\ thread'[t] = th /\ \A u \in Threads \ {t} : thread'[u] = thread[u]
    BY DEF Shape
  <1> QED BY <1>1, HarmlessStep

LEMMA NoteCallFacts ==
  ASSUME Shape
  PROVE  /\ "together" \in DOMAIN NoteCall /\ NoteCall.together = history.together
         /\ \A v : /\ "together" \in DOMAIN [NoteCall EXCEPT !.hello = v]
                   /\ [NoteCall EXCEPT !.hello = v].together = history.together
         /\ \A p : /\ "together" \in DOMAIN [NoteCall EXCEPT !.accepted = @ \union {p}]
                   /\ [NoteCall EXCEPT !.accepted = @ \union {p}].together = history.together
         /\ "together" \in DOMAIN [NoteCall EXCEPT !.unsaved = TRUE]
         /\ [NoteCall EXCEPT !.unsaved = TRUE].together = history.together
  BY DEF Shape, NoteCall

LEMMA NoteWriteFacts ==
  ASSUME Shape, NEW known, NEW w
  PROVE  "together" \in DOMAIN NoteWrite(known, w) /\ NoteWrite(known, w).together = history.together
  BY DEF Shape, NoteWrite

-------------------------------------------------------------------------------
(* The arrival of an RPC.                                                   *)

LEMMA CallsHarmless ==
  ASSUME Shape, CreateInv, NEW t \in Threads,
         \/ Hello(t) \/ GetPolicy(t) \/ RejectPreparation(t) \/ AckPrepared(t)
         \/ AckUnsaved(t) \/ PublishReport(t)
  PROVE  Shape' /\ CreateInv'
  <1>0. UNCHANGED created /\ "together" \in DOMAIN history' /\ history'.together = history.together
    BY NoteCallFacts
       DEF Hello, GetPolicy, RejectPreparation, AckPrepared, AckUnsaved, PublishReport
  <1>1. CASE Hello(t)
    <2>1. PICK v \in Values :
            Begin(t, FromCache([Free EXCEPT !.rpc = "hello", !.value = v,
                                            !.todo = <<Presence(v), Write("ONLINE", {"hello"}, v)>>]))
      BY <1>1 DEF Hello
    <2> DEFINE next == [Free EXCEPT !.rpc = "hello", !.value = v,
                                    !.todo = <<Presence(v), Write("ONLINE", {"hello"}, v)>>]
    <2>2. IsThread(next)
      BY DEF Free, IsThread
    <2>3. thread' = [thread EXCEPT ![t] = FromCache(next)]
      BY <2>1 DEF Begin
    <2> HIDE DEF next
    <2> QED BY <1>0, <2>2, <2>3, FromCacheElsewhere, HarmlessThread
  <1>2. CASE GetPolicy(t)
    <2>1. PICK v : Begin(t, FromCache([Free EXCEPT !.rpc = "policy", !.value = v]))
      BY <1>2 DEF GetPolicy
    <2> DEFINE next == [Free EXCEPT !.rpc = "policy", !.value = v]
    <2>2. IsThread(next)
      BY DEF Free, IsThread
    <2>3. thread' = [thread EXCEPT ![t] = FromCache(next)]
      BY <2>1 DEF Begin
    <2> HIDE DEF next
    <2> QED BY <1>0, <2>2, <2>3, FromCacheElsewhere, HarmlessThread
  <1>3. CASE RejectPreparation(t) \/ AckPrepared(t) \/ PublishReport(t)
    <2>1. PICK writes : Begin(t, Reading(writes))
      BY <1>3 DEF RejectPreparation, AckPrepared, PublishReport
    <2>2. thread' = [thread EXCEPT ![t] = Reading(writes)]
      BY <2>1 DEF Begin
    <2> QED BY <1>0, <2>2, ReadingElsewhere, HarmlessThread
  <1>4. CASE AckUnsaved(t)
    BY <1>0, <1>4, HarmlessStep DEF AckUnsaved, Shape
  <1> QED BY <1>1, <1>2, <1>3, <1>4

(* The steps of a thread, but for those to and from create.                 *)
LEMMA ThreadHarmless ==
  ASSUME Shape, CreateInv, NEW t \in Threads,
         \/ Read(t) \/ Find(t) \/ RequestFails(t) \/ NoWork(t)
         \/ (\E u \in Threads : Assign(t, u)) \/ Patch(t) \/ PatchFails(t) \/ PatchNothing(t)
  PROVE  Shape' /\ CreateInv'
  <1>0. UNCHANGED created /\ "together" \in DOMAIN history' /\ history'.together = history.together
    BY NoteWriteFacts
       DEF Read, Find, RequestFails, NoWork, Assign, Patch, PatchFails, PatchNothing, Shape
  <1>a. IsThread(thread[t])
    BY DEF Shape
  <1>1. CASE Read(t) \/ Find(t) \/ RequestFails(t)
    <2>1. \/ thread' = [thread EXCEPT ![t] = FromCache(thread[t])]
          \/ \E i \in Existing : thread' = [thread EXCEPT ![t] = Know(thread[t], Snapshot(i))]
          \/ thread' = [thread EXCEPT ![t] = Skip(thread[t])]
      BY <1>1 DEF Read, Find, RequestFails, Step
    <2> QED BY <1>0, <1>a, <2>1, FromCacheElsewhere, KnowElsewhere, SkipElsewhere, HarmlessThread
  <1>2. CASE NoWork(t)
    <2>1. PICK th : Elsewhere(th) /\ thread' = [thread EXCEPT ![t] = th]
      <3> DEFINE write == Write("IDLE", {"assignment", "fetch"}, None)
      <3>1. \/ thread' = [thread EXCEPT ![t] = Reading(<<write>>)]
            \/ thread' = [thread EXCEPT ![t] = [thread[t] EXCEPT !.pc = "patch", !.todo = <<write>>]]
        BY <1>2 DEF NoWork, Step
      <3>2. Elsewhere([thread[t] EXCEPT !.pc = "patch", !.todo = <<write>>])
        BY <1>a DEF Elsewhere, IsThread
      <3> QED BY <3>1, <3>2, ReadingElsewhere
    <2> QED BY <1>0, <2>1, HarmlessThread
  <1>3. ASSUME NEW u \in Threads, Assign(t, u)
        PROVE  Shape' /\ CreateInv'
    <2>1. PICK answer :
            LET patching == [thread[t] EXCEPT !.pc = "patch"]
            IN  thread' = [thread EXCEPT
                  ![t] = [patching EXCEPT !.todo = <<Write("ASSIGNED", {"assignment"}, thread[t].value)>>],
                  ![u] = [patching EXCEPT !.todo = <<Write(answer, {"fetch"}, thread[t].value)>>]]
      BY <1>3 DEF Assign
    <2>2. \A todo : Elsewhere([[thread[t] EXCEPT !.pc = "patch"] EXCEPT !.todo = todo])
      BY <1>a DEF Elsewhere, IsThread
    <2>3. DOMAIN thread' = Threads /\ \A v \in Threads : thread'[v] = thread[v] \/ Elsewhere(thread'[v])
      BY <2>1, <2>2 DEF Shape
    <2> QED BY <1>0, <2>3, HarmlessStep
  <1>4. CASE Patch(t) \/ PatchFails(t) \/ PatchNothing(t)
    <2>1. \/ thread' = [thread EXCEPT ![t] = Free]
          \/ thread' = [thread EXCEPT ![t] = Written(thread[t])]
      BY <1>4 DEF Patch, PatchFails, PatchNothing, Step
    <2> QED BY <1>0, <1>a, <2>1, FreeElsewhere, WrittenElsewhere, HarmlessThread
  <1> QED BY <1>1, <1>2, <1>3, <1>4

-------------------------------------------------------------------------------
(* The search that finds nothing, and the creation.                         *)

LEMMA FindNoneKeeps ==
  ASSUME Shape, CreateInv, NEW t \in Threads, FindNone(t)
  PROVE  Shape' /\ CreateInv'
  <1>1. /\ thread' = [thread EXCEPT ![t] = [thread[t] EXCEPT !.pc = "create"]]
        /\ history' = [history EXCEPT !.together = @ \/ \E u \in Threads : Creating(u)]
        /\ created = 0 /\ created' = 0
    BY DEF FindNone, Step, Creating
  <1>2. /\ DOMAIN thread' = Threads /\ IsThread(thread'[t])
        /\ \A u \in Threads \ {t} : thread'[u] = thread[u]
    BY <1>1 DEF Shape, IsThread
  <1>3. /\ "together" \in DOMAIN history'
        /\ history'.together = (history.together \/ \E u \in Threads : Creating(u))
    BY <1>1 DEF Shape
  <1>4. Shape'
    BY <1>1, <1>2, <1>3 DEF Shape
  <1>5. CreateInv'
    <2>1. SUFFICES ASSUME ~history'.together
                   PROVE  /\ created' =< 1
                          /\ \A u \in Threads : Creating(u)' => created' = 0
                          /\ \A u, v \in Threads : Creating(u)' /\ Creating(v)' => u = v
      BY DEF CreateInv
    <2>2. ~\E u \in Threads : Creating(u)
      BY <1>3, <2>1, Zenon
    <2>3. \A u \in Threads \ {t} : ~Creating(u)'
      BY <1>2, <2>2 DEF Creating
    <2> QED BY <1>1, <2>3
  <1> QED BY <1>4, <1>5

LEMMA CreateKeeps ==
  ASSUME Shape, CreateInv, NEW t \in Threads, Create(t)
  PROVE  Shape' /\ CreateInv'
  <1>1. Creating(t) /\ created' = created + 1 /\ history' = history
    BY DEF Create, Creating
  <1>2. PICK th : Elsewhere(th) /\ thread' = [thread EXCEPT ![t] = th]
    <2>1. IsThread(thread[t])
      BY DEF Shape
    <2>2. \/ \E known : thread' = [thread EXCEPT ![t] = Know(thread[t], known)]
          \/ thread' = [thread EXCEPT ![t] = Skip(thread[t])]
      BY DEF Create, Step
    <2> QED BY <2>1, <2>2, KnowElsewhere, SkipElsewhere
  <1>3. /\ DOMAIN thread' = Threads /\ Elsewhere(thread'[t])
        /\ \A u \in Threads \ {t} : thread'[u] = thread[u]
    BY <1>2 DEF Shape
  <1>4. Shape'
    BY <1>1, <1>3 DEF Shape, Elsewhere
  <1>5. CreateInv'
    BY <1>1, <1>3 DEF Shape, CreateInv, Creating, Elsewhere
  <1> QED BY <1>4, <1>5

LEMMA CreateAlways == Spec => [](Shape /\ CreateInv)
  <1>1. Init => Shape /\ CreateInv
    BY DEF Init, Shape, IsThread, CreateInv, Creating, Free
  <1>2. Shape /\ CreateInv /\ [Next]_vars => Shape' /\ CreateInv'
    <2> SUFFICES ASSUME Shape, CreateInv, [Next]_vars PROVE Shape' /\ CreateInv'
      OBVIOUS
    <2>1. CASE UNCHANGED vars \/ SaveOthers \/ CacheExpires
      BY <2>1, HarmlessStep DEF vars, SaveOthers, CacheExpires, Shape
    <2>2. CASE Restart
      <3>1. DOMAIN thread' = Threads /\ \A t \in Threads : thread'[t] = Free
        BY <2>2 DEF Restart
      <3> QED BY <2>2, <3>1, FreeElsewhere, HarmlessStep DEF Restart, Shape
    <2> QED BY <2>1, <2>2, Actions, CallsHarmless, ThreadHarmless, FindNoneKeeps, CreateKeeps
  <1> QED BY <1>1, <1>2, PTL DEF Spec

(* A device has one item in eLabFTW, whatever failed, was lost or restarted,*)
(* for any number of threads, unless two of them missed it together.        *)
THEOREM OneItemPerDevice == Spec => []OneItemInTurn
  <1>1. Shape /\ CreateInv => OneItemInTurn
    BY DEF Shape, CreateInv, OneItemInTurn
  <1> QED BY <1>1, CreateAlways, PTL

-------------------------------------------------------------------------------
(* The types.                                                               *)

Pcs == {"free", "read", "find", "create", "select", "patch"}
Rpcs == {"none", "hello", "policy", "reading"}
Detail == {<<>>} \union (States \X (Values \union {None}))
Known == [id : Nat, doc : Documents]
ThreadType ==
  [pc : Pcs, rpc : Rpcs, value : Values \union {None}, known : Known, todo : Seq(Writes)]
HistoryType ==
  [together : BOOLEAN, crowded : BOOLEAN, lagging : BOOLEAN, unsaved : BOOLEAN,
   hello : Values \union {None}, latest : [Keys -> Detail], accepted : SUBSET Values]

(* A snapshot is one of an item that was created, or the empty one.         *)
TypeInv ==
  /\ caching \in Cachings
  /\ created \in 0..MaxItems
  /\ item \in [Items -> Documents]
  /\ thread \in [Threads -> ThreadType]
  /\ \A t \in Threads : thread[t].known.id <= created
  /\ \/ cache = <<>>
     \/ caching /\ cache \in Seq(Known) /\ Len(cache) = 1 /\ cache[1].id <= created
  /\ prepared \subseteq Values /\ saved \subseteq Values
  /\ calls \in 0..MaxCalls /\ faults \in 0..MaxFaults
  /\ history \in HistoryType

(* A thread that has an item to write, or looks for one to write, has       *)
(* something to write; one that does not read again before its next write   *)
(* writes a presence first, which leaves the runtime state alone.           *)
TodoOf(th) ==
  /\ th.pc \in {"read", "patch"} => th.todo # <<>>
  /\ th.pc \in {"find", "create"} /\ th.rpc # "policy" => th.todo # <<>>
  /\ th.rpc # "reading" => \A k \in DOMAIN th.todo : k < Len(th.todo) => th.todo[k].keys = {}

TodoInv == \A t \in Threads : TodoOf(thread[t])

(* What is not created yet is empty.                                        *)
NewItemsInv == \A i \in Items : i > created => item[i] = NewDocument

(* Without a cache and without overlap there is one thread at work, and     *)
(* what it knows of the item it is about to write is what the item holds.   *)
Current(th) ==
  th.pc \in {"select", "patch"} /\ th.known.id # 0 => Runtime(th.known.doc) = Runtime(item[th.known.id])

AloneInv ==
  ~caching /\ ~history.crowded =>
    /\ ~history.lagging
    /\ cache = <<>>
    /\ \A t, u \in Busy : t = u
    /\ \A t \in Threads : Current(thread[t])

(* Before there is an item nothing was written.                             *)
DetailsInv ==
  /\ created = 0 /\ ~history.lagging => history.latest = NewDocument.details
  /\ DetailsKept

(* Unless a save failed, memory and disk agree on what was prepared.        *)
PreparedInv == ~history.unsaved => prepared = saved /\ history.accepted \subseteq prepared

-------------------------------------------------------------------------------
(* What the operators on documents and threads return.                      *)

LEMMA NewTyped ==
  /\ NewDocument \in Documents /\ EmptyItem \in Known /\ EmptyItem.id = 0
  /\ NewDocument.details \in [Keys -> Detail]
  <1>1. NewDocument.details \in [Keys -> Detail]
    BY DEF NewDocument, Detail
  <1>2. NewDocument \in Documents
    <2>1. "unset" \in States
      BY DEF States
    <2> QED BY <1>1, <2>1 DEF NewDocument, Documents, Detail
  <1> QED BY <1>1, <1>2 DEF EmptyItem, Known

LEMMA FreeTyped ==
  /\ Free \in ThreadType /\ TodoOf(Free) /\ Free.known.id = 0 /\ Free.pc = "free"
  <1>1. <<>> \in Seq(Writes)
    OBVIOUS
  <1>2. Free \in ThreadType
    BY <1>1, NewTyped DEF Free, ThreadType, Pcs, Rpcs
  <1> QED BY <1>2, NewTyped DEF Free, TodoOf

LEMMA WriteTyped ==
  ASSUME NEW state \in States, NEW keys \in SUBSET Keys, NEW v \in Values \union {None}
  PROVE  /\ Write(state, keys, v) \in Writes /\ Write(state, keys, v).state = state
         /\ Write(state, keys, v).keys = keys /\ Write(state, keys, v).value = v
         /\ Presence(v) \in Writes /\ Presence(v).keys = {}
  <1>1. "presence" \in States
    BY DEF States
  <1> QED BY <1>1 DEF Write, Presence, Writes

LEMMA TitleTyped ==
  ASSUME NEW state \in States
  PROVE  Title(state) \in {"Operational", "Open", "Waiting", "Maintenance mode", "Processed", "unset"}
  <1>1. CASE state \in DOMAIN Titles
    <2>1. DOMAIN Titles = {"ONLINE", "ASSIGNED", "IDLE", "POLICY_READY", "POLICY_CACHED",
                           "WAITING_POLICY", "PREPARED", "PREPARE_REJECTED", "REPORT_ACCEPTED",
                           "REPORT_DUPLICATE", "REPORT_REJECTED"}
      BY DEF Titles
    <2>2. /\ Titles.ONLINE = "Operational" /\ Titles.IDLE = "Operational"
          /\ Titles.ASSIGNED = "Open" /\ Titles.POLICY_READY = "Open" /\ Titles.POLICY_CACHED = "Open"
          /\ Titles.PREPARED = "Open" /\ Titles.WAITING_POLICY = "Waiting"
          /\ Titles.PREPARE_REJECTED = "Maintenance mode" /\ Titles.REPORT_REJECTED = "Maintenance mode"
          /\ Titles.REPORT_ACCEPTED = "Processed" /\ Titles.REPORT_DUPLICATE = "Processed"
      BY DEF Titles
    <2> QED BY <1>1, <2>1, <2>2 DEF Title
  <1>2. CASE state \notin DOMAIN Titles
    BY <1>2 DEF Title
  <1> QED BY <1>1, <1>2

LEMMA PatchedTyped ==
  ASSUME NEW doc \in Documents, NEW w \in Writes, NEW old \in Documents
  PROVE  Patched(doc, w, old.status) \in Documents
  <1>1. Details(doc, w) \in [Keys -> Detail]
    <2>1. doc.details \in [Keys -> Detail] /\ w.state \in States /\ w.value \in Values \union {None}
      BY DEF Documents, Writes, Detail
    <2>2. <<w.state, w.value>> \in Detail
      BY <2>1 DEF Detail
    <2> QED BY <2>1, <2>2 DEF Details
  <1>2. w.state \in States /\ w.value \in Values \union {None}
    BY DEF Writes
  <1>3. Status(doc, w, old.status) \in
          {"Operational", "Open", "Waiting", "Maintenance mode", "Processed", "unset"}
    BY <1>2, TitleTyped DEF Status, Documents
  <1>4. CASE w.keys = {}
    BY <1>2, <1>4 DEF Patched, Documents
  <1>5. CASE w.keys # {}
    BY <1>1, <1>2, <1>3, <1>5 DEF Patched, Documents, Detail
  <1> QED BY <1>4, <1>5

LEMMA ReadingTyped ==
  ASSUME NEW writes \in Seq(Writes), writes # <<>>
  PROVE  /\ Reading(writes) \in ThreadType /\ TodoOf(Reading(writes))
         /\ Reading(writes).known.id = 0 /\ Reading(writes).pc = "read"
         /\ Reading(writes).todo = writes
  <1>1. Reading(writes) = [Free EXCEPT !.pc = "read", !.rpc = "reading", !.todo = writes]
    BY DEF Reading
  <1>2. /\ Reading(writes) \in ThreadType /\ Reading(writes).pc = "read"
        /\ Reading(writes).rpc = "reading" /\ Reading(writes).todo = writes
        /\ Reading(writes).known.id = 0
    BY <1>1, FreeTyped DEF ThreadType, Pcs, Rpcs
  <1> QED BY <1>2 DEF TodoOf

LEMMA KnowTyped ==
  ASSUME NEW th \in ThreadType, NEW known \in Known
  PROVE  /\ Know(th, known) \in ThreadType /\ Know(th, known).known = known
         /\ Know(th, known).todo = th.todo /\ Know(th, known).rpc = th.rpc
         /\ Know(th, known).pc = IF th.rpc = "policy" THEN "select" ELSE "patch"
  <1> DEFINE pc == IF th.rpc = "policy" THEN "select" ELSE "patch"
  <1>1. pc \in Pcs
    BY DEF Pcs
  <1>2. Know(th, known) = [th EXCEPT !.pc = pc, !.known = known]
    BY DEF Know
  <1> HIDE DEF pc
  <1>3. /\ Know(th, known) \in ThreadType /\ Know(th, known).known = known /\ Know(th, known).pc = pc
        /\ Know(th, known).todo = th.todo /\ Know(th, known).rpc = th.rpc
    BY <1>1, <1>2 DEF ThreadType
  <1> QED BY <1>3 DEF pc

LEMMA TailTyped ==
  ASSUME NEW todo \in Seq(Writes), todo # <<>>
  PROVE  /\ Head(todo) \in Writes
         /\ Tail(todo) \in Seq(Writes) /\ Len(Tail(todo)) = Len(todo) - 1 /\ Len(todo) >= 1
         /\ Len(todo) > 1 => Tail(todo) # <<>>
         /\ \A k \in DOMAIN Tail(todo) : Tail(todo)[k] = todo[k + 1] /\ k + 1 \in DOMAIN todo
  <1>1. Len(todo) \in Nat /\ Len(todo) >= 1 /\ DOMAIN todo = 1 .. Len(todo)
    OBVIOUS
  <1>2. Head(todo) \in Writes /\ Tail(todo) \in Seq(Writes) /\ Len(Tail(todo)) = Len(todo) - 1
    OBVIOUS
  <1>3. DOMAIN Tail(todo) = 1 .. Len(todo) - 1
    BY <1>2
  <1>4. \A k \in 1 .. Len(todo) - 1 : Tail(todo)[k] = todo[k + 1]
    OBVIOUS
  <1>5. Len(todo) > 1 => Tail(todo) # <<>>
    <2> DEFINE rest == Tail(todo)
    <2>1. Len(rest) = Len(todo) - 1
      BY <1>2
    <2> HIDE DEF rest
    <2>a. rest = <<>> => Len(rest) = 0
      OBVIOUS
    <2>2. Len(todo) > 1 => rest # <<>>
      BY <1>1, <2>1, <2>a
    <2> QED BY <2>2 DEF rest
  <1> QED BY <1>1, <1>2, <1>3, <1>4, <1>5

LEMMA SkipTyped ==
  ASSUME NEW th \in ThreadType
  PROVE  /\ Skip(th) \in ThreadType /\ TodoOf(Skip(th)) /\ Skip(th).pc \in {"free", "read"}
         /\ Skip(th).known \in {th.known, Free.known}
         /\ Skip(th).pc = "read" => Skip(th).rpc = "reading"
  <1>1. CASE th.rpc = "reading" /\ Len(th.todo) > 1
    <2>1. th.todo \in Seq(Writes) /\ th.todo # <<>>
      BY <1>1 DEF ThreadType
    <2>2. Tail(th.todo) \in Seq(Writes) /\ Tail(th.todo) # <<>>
      BY <1>1, <2>1, TailTyped
    <2> DEFINE rest == Tail(th.todo)
    <2>3. Skip(th) = [th EXCEPT !.pc = "read", !.todo = rest]
      BY <1>1 DEF Skip, ThreadType
    <2> HIDE DEF rest
    <2>4. /\ Skip(th) \in ThreadType /\ Skip(th).pc = "read" /\ Skip(th).todo = rest
          /\ Skip(th).rpc = "reading" /\ Skip(th).known = th.known
      BY <1>1, <2>2, <2>3 DEF ThreadType, Pcs, rest
    <2> QED BY <2>2, <2>4 DEF TodoOf, rest
  <1>2. CASE ~(th.rpc = "reading" /\ Len(th.todo) > 1)
    <2>1. Skip(th) = Free
      BY <1>2 DEF Skip
    <2> QED BY <2>1, FreeTyped
  <1> QED BY <1>1, <1>2

(* A thread that has written goes on with what it knows, or reads again.    *)
LEMMA WrittenTyped ==
  ASSUME NEW th \in ThreadType, TodoOf(th), th.pc = "patch"
  PROVE  /\ Written(th) \in ThreadType /\ TodoOf(Written(th))
         /\ Written(th).known \in {th.known, Free.known}
         /\ Written(th).pc \in {"free", "read", "patch"}
         /\ Written(th).pc = "patch" => Written(th).known = th.known /\ Head(th.todo).keys = {}
         /\ Written(th).pc = "read" => Written(th).rpc = "reading"
  <1>1. th.todo \in Seq(Writes) /\ th.todo # <<>>
    BY DEF ThreadType, TodoOf
  <1>2. CASE Len(th.todo) = 1
    <2>1. Written(th) = Free
      BY <1>2 DEF Written
    <2> QED BY <2>1, FreeTyped
  <1>3. CASE Len(th.todo) # 1
    <2> DEFINE rest == Tail(th.todo)
               pc == IF th.rpc = "reading" THEN "read" ELSE "patch"
    <2>a. Len(th.todo) \in Nat /\ Len(th.todo) > 1
      <3>1. Len(th.todo) >= 1 /\ Len(th.todo) \in Nat
        BY <1>1, TailTyped
      <3>2. PICK n \in Nat : n = Len(th.todo)
        BY <3>1
      <3>3. n # 1 /\ n >= 1
        BY <1>3, <3>1, <3>2, Zenon
      <3>4. n > 1
        BY <3>3
      <3> QED BY <3>2, <3>4, Zenon
    <2>b. 1 \in DOMAIN th.todo /\ Head(th.todo) = th.todo[1]
      BY <1>1, <2>a
    <2>c. /\ rest \in Seq(Writes) /\ rest # <<>> /\ Len(rest) = Len(th.todo) - 1
          /\ \A k \in DOMAIN rest : rest[k] = th.todo[k + 1] /\ k + 1 \in DOMAIN th.todo
      BY <1>1, <2>a, TailTyped
    <2>d. DOMAIN rest \subseteq Nat
      <3> HIDE DEF rest
      <3> QED BY <2>c
    <2>1. /\ Len(th.todo) > 1 /\ rest \in Seq(Writes) /\ rest # <<>> /\ Len(rest) = Len(th.todo) - 1
          /\ \A k \in DOMAIN rest : rest[k] = th.todo[k + 1] /\ k + 1 \in DOMAIN th.todo
          /\ Len(th.todo) \in Nat /\ 1 \in DOMAIN th.todo /\ Head(th.todo) = th.todo[1]
          /\ DOMAIN rest \subseteq Nat
      BY <2>a, <2>b, <2>c, <2>d
    <2>2. Written(th) = [th EXCEPT !.pc = pc, !.todo = rest]
      BY <1>3 DEF Written, ThreadType
    <2>3. pc \in Pcs /\ pc \in {"read", "patch"}
      BY DEF Pcs
    <2> HIDE DEF rest, pc
    <2>4. /\ Written(th) \in ThreadType /\ Written(th).pc = pc /\ Written(th).todo = rest
          /\ Written(th).rpc = th.rpc /\ Written(th).known = th.known
      BY <2>1, <2>2, <2>3 DEF ThreadType
    <2>5. ASSUME th.rpc # "reading", NEW k \in DOMAIN rest, k < Len(rest)
          PROVE  rest[k].keys = {}
      <3>1. k + 1 \in DOMAIN th.todo /\ k + 1 < Len(th.todo) /\ rest[k] = th.todo[k + 1]
        BY <2>1, <2>5
      <3> QED BY <2>5, <3>1 DEF TodoOf
    <2>6. TodoOf(Written(th))
      BY <2>1, <2>3, <2>4, <2>5 DEF TodoOf
    <2>7. pc = "patch" => th.rpc # "reading" /\ Head(th.todo).keys = {}
      BY <2>1 DEF TodoOf, pc
    <2>8. pc = "read" => th.rpc = "reading"
      BY DEF pc
    <2> QED BY <2>3, <2>4, <2>6, <2>7, <2>8
  <1> QED BY <1>2, <1>3

LEMMA FromCacheTyped ==
  ASSUME TypeInv, NEW next \in ThreadType, next.known.id <= created,
         next.rpc # "policy" => next.todo # <<>>,
         next.rpc # "reading" => \A k \in DOMAIN next.todo : k < Len(next.todo) => next.todo[k].keys = {}
  PROVE  /\ FromCache(next) \in ThreadType /\ TodoOf(FromCache(next))
         /\ FromCache(next).known.id <= created
         /\ FromCache(next).pc \in {"find", "select", "patch"}
         /\ cache = <<>> => FromCache(next).pc = "find"
         /\ FromCache(next).pc = "select" => FromCache(next).rpc = "policy"
  <1>1. CASE cache # <<>>
    <2>1. cache[1] \in Known /\ cache[1].id <= created
      BY <1>1 DEF TypeInv
    <2> DEFINE known == cache[1]
               pc == IF next.rpc = "policy" THEN "select" ELSE "patch"
    <2>2. FromCache(next) = [next EXCEPT !.pc = pc, !.known = known]
      BY <1>1 DEF FromCache
    <2>3. pc \in Pcs /\ pc \in {"select", "patch"} /\ known \in Known /\ known.id <= created
      BY <2>1 DEF Pcs
    <2> HIDE DEF known, pc
    <2>4. /\ FromCache(next) \in ThreadType /\ FromCache(next).pc = pc /\ FromCache(next).known = known
          /\ FromCache(next).todo = next.todo /\ FromCache(next).rpc = next.rpc
      BY <2>2, <2>3 DEF ThreadType
    <2>5. (pc = "patch" => next.rpc # "policy") /\ (pc = "select" => next.rpc = "policy")
      BY DEF pc
    <2> QED BY <1>1, <2>3, <2>4, <2>5 DEF TodoOf
  <1>2. CASE cache = <<>>
    <2>1. FromCache(next) = [next EXCEPT !.pc = "find"]
      BY <1>2 DEF FromCache
    <2>2. /\ FromCache(next) \in ThreadType /\ FromCache(next).pc = "find"
          /\ FromCache(next).known = next.known
          /\ FromCache(next).todo = next.todo /\ FromCache(next).rpc = next.rpc
      BY <2>1 DEF ThreadType, Pcs
    <2> QED BY <1>2, <2>2 DEF TodoOf
  <1> QED BY <1>1, <1>2

-------------------------------------------------------------------------------
(* The types are kept.                                                      *)

(* The threads after a step of one of them.                                 *)
LEMMA ThreadKept ==
  ASSUME TypeInv, TodoInv, NEW t \in Threads, NEW th \in ThreadType, TodoOf(th),
         thread' = [thread EXCEPT ![t] = th], created' \in Nat, created <= created',
         th.known.id <= created'
  PROVE  /\ thread' \in [Threads -> ThreadType]
         /\ \A u \in Threads : thread'[u].known.id <= created'
         /\ TodoInv'
         /\ thread'[t] = th /\ \A u \in Threads \ {t} : thread'[u] = thread[u]
  <1>1. /\ thread' \in [Threads -> ThreadType] /\ thread'[t] = th
        /\ \A u \in Threads \ {t} : thread'[u] = thread[u]
    BY DEF TypeInv
  <1>2. \A u \in Threads : thread[u].known.id \in Nat /\ thread[u].known.id <= created
    BY DEF TypeInv, ThreadType, Known
  <1>3. \A u \in Threads : thread'[u].known.id <= created'
    BY <1>1, <1>2 DEF TypeInv
  <1>4. TodoInv'
    <2>1. \A u \in Threads : TodoOf(thread'[u])
      BY <1>1 DEF TodoInv
    <2> QED BY <2>1 DEF TodoInv, TodoOf
  <1> QED BY <1>1, <1>3, <1>4

LEMMA NotesTyped ==
  ASSUME history \in HistoryType
  PROVE  /\ NoteCall \in HistoryType
         /\ \A v \in Values : [NoteCall EXCEPT !.hello = v] \in HistoryType
         /\ \A p \in Values : [NoteCall EXCEPT !.accepted = @ \union {p}] \in HistoryType
         /\ [NoteCall EXCEPT !.unsaved = TRUE] \in HistoryType
         /\ [history EXCEPT !.crowded = TRUE] \in HistoryType
  <1>1. NoteCall \in HistoryType
    <2>1. (history.crowded \/ Busy # {}) \in BOOLEAN
      BY Zenon DEF HistoryType
    <2> QED BY <2>1 DEF NoteCall, HistoryType
  <1>2. [history EXCEPT !.crowded = TRUE] \in HistoryType
    BY DEF HistoryType
  <1> QED BY <1>1, <1>2 DEF HistoryType

LEMMA NoteWriteTyped ==
  ASSUME history \in HistoryType, NEW known, NEW w \in Writes
  PROVE  /\ NoteWrite(known, w) \in HistoryType
         /\ NoteWrite(known, w).crowded = history.crowded
         /\ NoteWrite(known, w).unsaved = history.unsaved
         /\ NoteWrite(known, w).accepted = history.accepted
  <1>1. CASE history.lagging \/ Runtime(known.doc) # Runtime(item[known.id])
    <2>1. NoteWrite(known, w) = [history EXCEPT !.lagging = TRUE, !.latest = NewDocument.details]
      BY <1>1 DEF NoteWrite
    <2>2. NewDocument.details \in [Keys -> Detail]
      BY NewTyped
    <2> QED BY <2>1, <2>2 DEF HistoryType
  <1>2. CASE ~(history.lagging \/ Runtime(known.doc) # Runtime(item[known.id]))
    <2> DEFINE latest == [k \in Keys |-> IF k \in w.keys THEN <<w.state, w.value>> ELSE history.latest[k]]
    <2>1. NoteWrite(known, w) = [history EXCEPT !.latest = latest]
      BY <1>2 DEF NoteWrite
    <2>2. latest \in [Keys -> Detail]
      <3>1. <<w.state, w.value>> \in Detail
        BY DEF Writes, Detail
      <3>2. history.latest \in [Keys -> Detail]
        BY DEF HistoryType
      <3> QED BY <3>1, <3>2
    <2> HIDE DEF latest
    <2> QED BY <2>1, <2>2 DEF HistoryType
  <1> QED BY <1>1, <1>2

LEMMA SnapshotTyped ==
  ASSUME TypeInv, NEW i \in Existing
  PROVE  /\ Snapshot(i) \in Known /\ Snapshot(i).id = i /\ Snapshot(i).doc = item[i]
         /\ i \in Items /\ i <= created
  <1>1. i \in Items /\ i \in Nat /\ i <= created
    BY DEF TypeInv, Existing, Items
  <1> QED BY <1>1 DEF TypeInv, Snapshot, Known

(* The types and the snapshots together are inductive.                      *)
Inv == TypeInv /\ TodoInv /\ NewItemsInv /\ AloneInv

(* What a thread knows of the item it is about to write is what items hold. *)
CurrentIn(items, th) ==
  th.pc \in {"select", "patch"} /\ th.known.id # 0 => Runtime(th.known.doc) = Runtime(items[th.known.id])

LEMMA FaultTyped ==
  ASSUME TypeInv, NEW kind, NoFault \/ Fault(kind)
  PROVE  faults' \in 0..MaxFaults
  BY DEF TypeInv, NoFault, Fault

(* A thread at work on its own.                                             *)
LEMMA OwnTurn ==
  ASSUME AloneInv, NEW t \in Threads, thread[t].pc # "free", ~caching, ~history.crowded
  PROVE  Busy \subseteq {t} /\ CurrentIn(item, thread[t]) /\ cache = <<>> /\ ~history.lagging
  BY DEF AloneInv, Busy, Current, CurrentIn

LEMMA AloneKept ==
  ASSUME TypeInv, AloneInv, UNCHANGED caching, NEW t \in Threads, NEW th,
         thread' = [thread EXCEPT ![t] = th],
         ~history'.crowded => ~history.crowded,
         ~caching /\ ~history'.crowded =>
           ~history'.lagging /\ cache' = <<>> /\ Busy \subseteq {t} /\ CurrentIn(item', th)
  PROVE  AloneInv'
  <1> SUFFICES ASSUME ~caching, ~history'.crowded
               PROVE  /\ ~history'.lagging
                      /\ cache' = <<>>
                      /\ \A u, v \in Busy' : u = v
                      /\ \A u \in Threads : Current(thread[u])'
    BY DEF AloneInv
  <1>1. /\ thread'[t] = th /\ \A u \in Threads \ {t} : thread'[u] = thread[u]
    BY DEF TypeInv
  <1>2. \A u \in Threads \ {t} : thread'[u].pc = "free"
    BY <1>1 DEF Busy
  <1>3. \A u \in Threads : Current(thread[u])'
    BY <1>1, <1>2 DEF Current, CurrentIn
  <1>4. \A u, v \in Busy' : u = v
    BY <1>2 DEF Busy
  <1> QED BY <1>3, <1>4

(* An RPC arrives.                                                          *)
LEMMA CallKeeps ==
  ASSUME Inv, NEW t \in Threads, NEW th \in ThreadType, TodoOf(th), Begin(t, th),
         th.known.id <= created, cache = <<>> => th.pc \in {"find", "read"},
         UNCHANGED <<caching, created, item, cache, faults>>,
         prepared' \subseteq Values, saved' \subseteq Values,
         history' \in HistoryType, history'.lagging = history.lagging,
         ~history'.crowded => ~history.crowded /\ Busy = {}
  PROVE  Inv'
  <1>0. TypeInv /\ TodoInv /\ NewItemsInv /\ AloneInv
    BY DEF Inv
  <1>1. thread' = [thread EXCEPT ![t] = th] /\ calls' \in 0..MaxCalls
    BY <1>0 DEF Begin, TypeInv
  <1>2. created' \in Nat /\ created' = created /\ created <= created' /\ th.known.id <= created'
    BY <1>0 DEF TypeInv
  <1>3. /\ thread' \in [Threads -> ThreadType] /\ \A u \in Threads : thread'[u].known.id <= created'
        /\ TodoInv'
    BY <1>0, <1>1, <1>2, ThreadKept, Zenon
  <1>4. TypeInv'
    BY <1>0, <1>1, <1>2, <1>3 DEF TypeInv
  <1>5. AloneInv'
    <2>1. ASSUME ~caching, ~history'.crowded
          PROVE  ~history'.lagging /\ cache' = <<>> /\ Busy \subseteq {t} /\ CurrentIn(item', th)
      BY <1>0, <2>1 DEF AloneInv, CurrentIn
    <2> QED BY <1>0, <1>1, <2>1, AloneKept
  <1>6. NewItemsInv'
    BY <1>0 DEF NewItemsInv
  <1> QED BY <1>3, <1>4, <1>5, <1>6 DEF Inv

(* A step of one thread that leaves the items alone.                        *)
LEMMA StepKeeps ==
  ASSUME Inv, NEW t \in Threads, thread[t].pc # "free", NEW th \in ThreadType, TodoOf(th),
         thread' = [thread EXCEPT ![t] = th],
         UNCHANGED <<caching, prepared, saved, calls, item>>,
         created' \in 0..MaxItems, created <= created', th.known.id <= created',
         \/ cache' = cache
         \/ caching /\ \E known \in Known : cache' = <<known>> /\ known.id <= created',
         NEW kind, NoFault \/ Fault(kind),
         history' \in HistoryType, history'.lagging = history.lagging,
         history'.crowded = history.crowded,
         ~caching /\ ~history.crowded => CurrentIn(item, th)
  PROVE  Inv'
  <1>0. TypeInv /\ TodoInv /\ NewItemsInv /\ AloneInv
    BY DEF Inv
  <1>1. /\ thread' \in [Threads -> ThreadType] /\ \A u \in Threads : thread'[u].known.id <= created'
        /\ TodoInv'
    <2>1. created' \in Nat
      OBVIOUS
    <2> QED BY <1>0, <2>1, ThreadKept, Zenon
  <1>2. \/ cache' = <<>>
        \/ caching' /\ cache' \in Seq(Known) /\ Len(cache') = 1 /\ cache'[1].id <= created'
    <2>1. CASE cache' = cache
      <3>1. created \in Nat /\ created' \in Nat
        BY <1>0 DEF TypeInv
      <3>2. CASE cache = <<>>
        BY <2>1, <3>2
      <3>3. CASE cache # <<>>
        <4>1. caching /\ cache \in Seq(Known) /\ Len(cache) = 1 /\ cache[1].id <= created
          BY <1>0, <3>3 DEF TypeInv
        <4>2. cache[1] \in Known
          BY ONLY <4>1, SMT
        <4>3. cache[1].id \in Nat
          BY <4>2 DEF Known
        <4> QED BY <2>1, <3>1, <4>1, <4>3
      <3> QED BY <3>2, <3>3
    <2>2. ASSUME caching, NEW known \in Known, cache' = <<known>>, known.id <= created'
          PROVE  caching' /\ cache' \in Seq(Known) /\ Len(cache') = 1 /\ cache'[1].id <= created'
      BY <2>2
    <2> QED BY <2>1, <2>2
  <1>3. faults' \in 0..MaxFaults
    BY <1>0, FaultTyped
  <1>4. TypeInv'
    BY <1>0, <1>1, <1>2, <1>3 DEF TypeInv
  <1>5. AloneInv'
    <2>1. ASSUME ~caching, ~history'.crowded
          PROVE  ~history'.lagging /\ cache' = <<>> /\ Busy \subseteq {t} /\ CurrentIn(item', th)
      BY <1>0, <2>1, OwnTurn
    <2> QED BY <1>0, <2>1, AloneKept
  <1>6. NewItemsInv'
    BY <1>0 DEF NewItemsInv, TypeInv, Items
  <1> QED BY <1>1, <1>4, <1>5, <1>6 DEF Inv

-------------------------------------------------------------------------------
(* The RPCs.                                                                *)

LEMMA NoteCallQuiet ==
  ASSUME history \in HistoryType
  PROVE  /\ NoteCall.lagging = history.lagging /\ (~NoteCall.crowded => ~history.crowded /\ Busy = {})
         /\ \A v : /\ [NoteCall EXCEPT !.hello = v].lagging = history.lagging
                   /\ [NoteCall EXCEPT !.hello = v].crowded = NoteCall.crowded
         /\ \A p : /\ [NoteCall EXCEPT !.accepted = @ \union {p}].lagging = history.lagging
                   /\ [NoteCall EXCEPT !.accepted = @ \union {p}].crowded = NoteCall.crowded
         /\ [NoteCall EXCEPT !.unsaved = TRUE].lagging = history.lagging
         /\ [NoteCall EXCEPT !.unsaved = TRUE].crowded = NoteCall.crowded
  BY DEF NoteCall, HistoryType

LEMMA HelloKeeps ==
  ASSUME Inv, NEW t \in Threads, Hello(t)
  PROVE  Inv'
  <1>0. TypeInv /\ history \in HistoryType /\ created \in Nat
    BY DEF Inv, TypeInv
  <1>1. PICK v \in Values :
          /\ Begin(t, FromCache([Free EXCEPT !.rpc = "hello", !.value = v,
                                             !.todo = <<Presence(v), Write("ONLINE", {"hello"}, v)>>]))
          /\ history' = [NoteCall EXCEPT !.hello = v]
    BY DEF Hello
  <1> DEFINE todo == <<Presence(v), Write("ONLINE", {"hello"}, v)>>
             next == [Free EXCEPT !.rpc = "hello", !.value = v, !.todo = todo]
  <1>2. Presence(v) \in Writes /\ Presence(v).keys = {} /\ Write("ONLINE", {"hello"}, v) \in Writes
    <2>1. "ONLINE" \in States /\ {"hello"} \in SUBSET Keys
      BY DEF States, Titles, Keys
    <2> QED BY <2>1, WriteTyped
  <1>3. /\ todo \in Seq(Writes) /\ todo # <<>> /\ Len(todo) = 2 /\ todo[1].keys = {}
        /\ DOMAIN todo = 1..2
    BY <1>2
  <1> HIDE DEF todo
  <1>4. next \in ThreadType /\ next.known.id = 0 /\ next.rpc = "hello" /\ next.todo = todo
    BY <1>3, FreeTyped DEF ThreadType, Rpcs
  <1>5. \A k \in DOMAIN next.todo : k < Len(next.todo) => next.todo[k].keys = {}
    <2> HIDE DEF next
    <2>1. \A k \in 1..2 : k < 2 => k = 1
      OBVIOUS
    <2>2. \A k \in DOMAIN todo : k < Len(todo) => todo[k].keys = {}
      BY <1>3, <2>1
    <2> QED BY <1>4, <2>2
  <1>6. Begin(t, FromCache(next)) /\ history' = [NoteCall EXCEPT !.hello = v]
    BY <1>1 DEF todo
  <1> HIDE DEF next
  <1> DEFINE th == FromCache(next)
  <1>7. th \in ThreadType /\ TodoOf(th) /\ th.known.id <= created /\ (cache = <<>> => th.pc = "find")
    <2>1. next.known.id <= created
      BY <1>0, <1>4
    <2> QED BY <1>0, <1>3, <1>4, <1>5, <2>1, FromCacheTyped
  <1> HIDE DEF th
  <1>8. /\ history' \in HistoryType /\ history'.lagging = history.lagging
        /\ ~history'.crowded => ~history.crowded /\ Busy = {}
    BY <1>0, <1>6, NotesTyped, NoteCallQuiet
  <1>9. /\ UNCHANGED <<caching, created, item, cache, faults>>
        /\ prepared' \subseteq Values /\ saved' \subseteq Values
    BY <1>0 DEF Hello, TypeInv
  <1>10. Begin(t, th)
    BY <1>6 DEF th
  <1> QED BY <1>7, <1>8, <1>9, <1>10, CallKeeps

LEMMA GetPolicyKeeps ==
  ASSUME Inv, NEW t \in Threads, GetPolicy(t)
  PROVE  Inv'
  <1>0. TypeInv /\ history \in HistoryType /\ created \in Nat
    BY DEF Inv, TypeInv
  <1>1. PICK v \in Values \union {None} : Begin(t, FromCache([Free EXCEPT !.rpc = "policy", !.value = v]))
    BY DEF GetPolicy
  <1> DEFINE next == [Free EXCEPT !.rpc = "policy", !.value = v]
  <1>2. next \in ThreadType /\ next.known.id = 0 /\ next.rpc = "policy" /\ next.todo = <<>>
    BY FreeTyped DEF ThreadType, Rpcs, Free
  <1>3. Begin(t, FromCache(next))
    BY <1>1
  <1> HIDE DEF next
  <1> DEFINE th == FromCache(next)
  <1>4. th \in ThreadType /\ TodoOf(th) /\ th.known.id <= created /\ (cache = <<>> => th.pc = "find")
    <2>1. next.known.id <= created
      BY <1>0, <1>2
    <2>2. \A k \in DOMAIN next.todo : k < Len(next.todo) => next.todo[k].keys = {}
      BY <1>2
    <2> QED BY <1>0, <1>2, <2>1, <2>2, FromCacheTyped
  <1> HIDE DEF th
  <1>5. /\ history' \in HistoryType /\ history'.lagging = history.lagging
        /\ ~history'.crowded => ~history.crowded /\ Busy = {}
    BY <1>0, NotesTyped, NoteCallQuiet DEF GetPolicy
  <1>6. /\ UNCHANGED <<caching, created, item, cache, faults>>
        /\ prepared' \subseteq Values /\ saved' \subseteq Values
    BY <1>0 DEF GetPolicy, TypeInv
  <1>7. Begin(t, th)
    BY <1>3 DEF th
  <1> QED BY <1>4, <1>5, <1>6, <1>7, CallKeeps

(* The RPCs whose threads read the item for every write.                    *)
LEMMA ReadersKeep ==
  ASSUME Inv, NEW t \in Threads, RejectPreparation(t) \/ AckPrepared(t) \/ PublishReport(t)
  PROVE  Inv'
  <1>0. TypeInv /\ history \in HistoryType /\ created \in Nat
    BY DEF Inv, TypeInv
  <1>1. \A state \in {"PREPARE_REJECTED", "PREPARED", "REPORT_RECEIVED", "REPORT_ACCEPTED",
                      "REPORT_DUPLICATE", "REPORT_REJECTED"}, v \in Values :
          Write(state, {"prepare"}, v) \in Writes /\ Write(state, {"report"}, v) \in Writes
    <2>1. {"prepare"} \in SUBSET Keys /\ {"report"} \in SUBSET Keys
      BY DEF Keys
    <2>2. {"PREPARE_REJECTED", "PREPARED", "REPORT_RECEIVED", "REPORT_ACCEPTED",
           "REPORT_DUPLICATE", "REPORT_REJECTED"} \subseteq States
      BY DEF States, Titles
    <2> QED BY <2>1, <2>2, WriteTyped
  <1>2. PICK writes \in Seq(Writes) : writes # <<>> /\ Begin(t, Reading(writes))
    <2>1. CASE RejectPreparation(t)
      <3>1. PICK p \in Values : Begin(t, Reading(<<Write("PREPARE_REJECTED", {"prepare"}, p)>>))
        BY <2>1 DEF RejectPreparation
      <3>2. <<Write("PREPARE_REJECTED", {"prepare"}, p)>> \in Seq(Writes)
        BY <1>1
      <3>3. <<Write("PREPARE_REJECTED", {"prepare"}, p)>> # <<>>
        OBVIOUS
      <3> QED BY <3>1, <3>2, <3>3
    <2>2. CASE AckPrepared(t)
      <3>1. PICK p \in Values : Begin(t, Reading(<<Write("PREPARED", {"prepare"}, p)>>))
        BY <2>2 DEF AckPrepared
      <3>2. <<Write("PREPARED", {"prepare"}, p)>> \in Seq(Writes)
        BY <1>1
      <3>3. <<Write("PREPARED", {"prepare"}, p)>> # <<>>
        OBVIOUS
      <3> QED BY <3>1, <3>2, <3>3
    <2>3. CASE PublishReport(t)
      <3>1. PICK v \in Values, state \in {"REPORT_ACCEPTED", "REPORT_DUPLICATE", "REPORT_REJECTED"} :
              Begin(t, Reading(<<Write("REPORT_RECEIVED", {"report"}, v), Write(state, {"report"}, v)>>))
        BY <2>3 DEF PublishReport
      <3> DEFINE writes == <<Write("REPORT_RECEIVED", {"report"}, v), Write(state, {"report"}, v)>>
      <3>2. writes \in Seq(Writes)
        BY <1>1
      <3>3. writes # <<>>
        OBVIOUS
      <3> HIDE DEF writes
      <3>4. Begin(t, Reading(writes))
        BY <3>1 DEF writes
      <3> QED BY <3>2, <3>3, <3>4
    <2> QED BY <2>1, <2>2, <2>3
  <1> DEFINE th == Reading(writes)
  <1>3. th \in ThreadType /\ TodoOf(th) /\ th.known.id <= created /\ th.pc = "read" /\ Begin(t, th)
    BY <1>0, <1>2, ReadingTyped
  <1> HIDE DEF th
  <1>4. /\ history' \in HistoryType /\ history'.lagging = history.lagging
        /\ ~history'.crowded => ~history.crowded /\ Busy = {}
    <2>1. \/ history' = NoteCall
          \/ \E p \in Values : history' = [NoteCall EXCEPT !.accepted = @ \union {p}]
      BY DEF RejectPreparation, AckPrepared, PublishReport
    <2> QED BY <1>0, <2>1, NotesTyped, NoteCallQuiet
  <1>5. /\ UNCHANGED <<caching, created, item, cache, faults>>
        /\ prepared' \subseteq Values /\ saved' \subseteq Values
    BY <1>0 DEF RejectPreparation, AckPrepared, PublishReport, NoFault, TypeInv
  <1> QED BY <1>3, <1>4, <1>5, CallKeeps

LEMMA UnsavedKeeps ==
  ASSUME Inv, NEW t \in Threads, AckUnsaved(t)
  PROVE  Inv'
  <1>0. TypeInv /\ TodoInv /\ NewItemsInv /\ AloneInv /\ history \in HistoryType
    BY DEF Inv, TypeInv
  <1>1. /\ faults' \in 0..MaxFaults /\ calls' \in 0..MaxCalls /\ prepared' \subseteq Values
        /\ UNCHANGED <<caching, created, item, cache, thread, saved>>
    BY <1>0, FaultTyped DEF AckUnsaved, TypeInv
  <1>2. /\ history' \in HistoryType /\ history'.lagging = history.lagging
        /\ ~history'.crowded => ~history.crowded
    BY <1>0, NotesTyped, NoteCallQuiet DEF AckUnsaved
  <1>3. TypeInv'
    BY <1>0, <1>1, <1>2 DEF TypeInv
  <1>4. AloneInv'
    BY <1>0, <1>1, <1>2 DEF AloneInv, Busy, Current
  <1> QED BY <1>0, <1>1, <1>3, <1>4 DEF Inv, TodoInv, TodoOf, NewItemsInv

-------------------------------------------------------------------------------
(* Finding or creating the item.                                            *)

LEMMA ReadKeeps ==
  ASSUME Inv, NEW t \in Threads, Read(t)
  PROVE  Inv'
  <1>0. TypeInv /\ TodoInv /\ AloneInv /\ created \in Nat /\ history \in HistoryType
    BY DEF Inv, TypeInv
  <1>1. /\ thread[t] \in ThreadType /\ TodoOf(thread[t]) /\ thread[t].known.id <= created
        /\ thread[t].pc = "read"
    BY <1>0 DEF TypeInv, TodoInv, Read
  <1>2. thread[t].todo # <<>>
    BY <1>1 DEF TodoOf
  <1>3. PICK th \in ThreadType : /\ thread' = [thread EXCEPT ![t] = th] /\ TodoOf(th)
                                 /\ th.known.id <= created
                                 /\ cache = <<>> => CurrentIn(item, th)
    <2>1. CASE created = 0
      <3>1. thread' = [thread EXCEPT ![t] = FromCache(thread[t])]
        BY <2>1 DEF Read, Step
      <3>2. /\ FromCache(thread[t]) \in ThreadType /\ TodoOf(FromCache(thread[t]))
            /\ FromCache(thread[t]).known.id <= created
            /\ cache = <<>> => FromCache(thread[t]).pc = "find"
        BY <1>0, <1>1, <1>2, FromCacheTyped DEF TodoOf
      <3> QED BY <3>1, <3>2 DEF CurrentIn
    <2>2. CASE created # 0
      <3>1. PICK i \in Existing : thread' = [thread EXCEPT ![t] = Know(thread[t], Snapshot(i))]
        BY <2>2 DEF Read, Step
      <3>2. Snapshot(i) \in Known /\ Snapshot(i).id = i /\ Snapshot(i).doc = item[i] /\ i <= created
        BY <1>0, SnapshotTyped
      <3> DEFINE th == Know(thread[t], Snapshot(i))
      <3>3. /\ th \in ThreadType /\ th.known = Snapshot(i) /\ th.todo = thread[t].todo
            /\ th.rpc = thread[t].rpc /\ th.pc \in {"select", "patch"}
        BY <1>1, <3>2, KnowTyped
      <3> HIDE DEF th
      <3>4. TodoOf(th) /\ th.known.id <= created /\ CurrentIn(item, th)
        BY <1>1, <1>2, <3>2, <3>3 DEF TodoOf, CurrentIn
      <3>5. thread' = [thread EXCEPT ![t] = th]
        BY <3>1 DEF th
      <3> QED BY <3>3, <3>4, <3>5
    <2> QED BY <2>1, <2>2
  <1>4. ~caching /\ ~history.crowded => CurrentIn(item, th)
    BY <1>0, <1>3 DEF AloneInv
  <1>5. /\ UNCHANGED <<caching, prepared, saved, calls, item, created, cache, history>>
        /\ NoFault /\ created' \in 0..MaxItems /\ created <= created' /\ th.known.id <= created'
        /\ history' \in HistoryType /\ history'.lagging = history.lagging
        /\ history'.crowded = history.crowded
    BY <1>0, <1>3 DEF Read, TypeInv
  <1> QED BY <1>1, <1>3, <1>4, <1>5, StepKeeps

LEMMA FindKeeps ==
  ASSUME Inv, NEW t \in Threads, Find(t)
  PROVE  Inv'
  <1>0. TypeInv /\ TodoInv /\ AloneInv /\ created \in Nat /\ history \in HistoryType
    BY DEF Inv, TypeInv
  <1>1. thread[t] \in ThreadType /\ TodoOf(thread[t]) /\ thread[t].pc = "find"
    BY <1>0 DEF TypeInv, TodoInv, Find
  <1>2. PICK i \in Existing : /\ thread' = [thread EXCEPT ![t] = Know(thread[t], Snapshot(i))]
                              /\ cache' = IF caching THEN <<Snapshot(i)>> ELSE cache
    BY DEF Find, Step, Remember
  <1> DEFINE th == Know(thread[t], Snapshot(i))
  <1>3. Snapshot(i) \in Known /\ Snapshot(i).id = i /\ Snapshot(i).doc = item[i] /\ i <= created
    BY <1>0, SnapshotTyped
  <1>4. /\ th \in ThreadType /\ th.known = Snapshot(i) /\ th.todo = thread[t].todo
        /\ th.rpc = thread[t].rpc /\ th.pc = IF thread[t].rpc = "policy" THEN "select" ELSE "patch"
    BY <1>1, <1>3, KnowTyped
  <1>5. thread' = [thread EXCEPT ![t] = th]
    BY <1>2
  <1> HIDE DEF th
  <1>6. TodoOf(th) /\ th.known.id <= created /\ CurrentIn(item, th)
    BY <1>1, <1>3, <1>4 DEF TodoOf, CurrentIn
  <1>7. /\ UNCHANGED <<caching, prepared, saved, calls, item, created, history>>
        /\ NoFault /\ created' \in 0..MaxItems /\ created <= created' /\ th.known.id <= created'
        /\ history' \in HistoryType /\ history'.lagging = history.lagging
        /\ history'.crowded = history.crowded
    BY <1>0, <1>6 DEF Find, TypeInv
  <1>8. \/ cache' = cache
        \/ caching /\ \E known \in Known : cache' = <<known>> /\ known.id <= created'
    <2>1. CASE caching
      <3>1. cache' = <<Snapshot(i)>> /\ Snapshot(i).id <= created'
        BY <1>2, <1>3, <1>7, <2>1
      <3> QED BY <1>3, <2>1, <3>1
    <2>2. CASE ~caching
      BY <1>2, <2>2
    <2> QED BY <2>1, <2>2
  <1> QED BY <1>1, <1>4, <1>5, <1>6, <1>7, <1>8, StepKeeps

LEMMA FindNoneTyped ==
  ASSUME Inv, NEW t \in Threads, FindNone(t)
  PROVE  Inv'
  <1>0. TypeInv /\ TodoInv /\ AloneInv /\ created \in Nat /\ history \in HistoryType
    BY DEF Inv, TypeInv
  <1>1. /\ thread[t] \in ThreadType /\ TodoOf(thread[t]) /\ thread[t].known.id <= created
        /\ thread[t].pc = "find"
    BY <1>0 DEF TypeInv, TodoInv, FindNone
  <1> DEFINE th == [thread[t] EXCEPT !.pc = "create"]
  <1>2. th \in ThreadType /\ TodoOf(th) /\ th.known.id <= created /\ th.pc = "create"
    BY <1>1 DEF ThreadType, Pcs, TodoOf
  <1>3. thread' = [thread EXCEPT ![t] = th]
    BY DEF FindNone, Step
  <1> HIDE DEF th
  <1>4. /\ UNCHANGED <<caching, prepared, saved, calls, item, created, cache>>
        /\ NoFault /\ created' \in 0..MaxItems /\ created <= created' /\ th.known.id <= created'
    BY <1>0, <1>2 DEF FindNone, TypeInv
  <1>5. /\ history' \in HistoryType /\ history'.lagging = history.lagging
        /\ history'.crowded = history.crowded
    <2> DEFINE together == history.together \/ \E u \in Threads : thread[u].pc = "create"
    <2>1. history' = [history EXCEPT !.together = together]
      BY DEF FindNone
    <2>2. together \in BOOLEAN
      BY Zenon
    <2> HIDE DEF together
    <2> QED BY <1>0, <2>1, <2>2 DEF HistoryType
  <1>6. CurrentIn(item, th)
    BY <1>2 DEF CurrentIn
  <1> QED BY <1>1, <1>2, <1>3, <1>4, <1>5, <1>6, StepKeeps

LEMMA CreateTyped ==
  ASSUME Inv, NEW t \in Threads, Create(t)
  PROVE  Inv'
  <1>0. TypeInv /\ TodoInv /\ NewItemsInv /\ AloneInv /\ created \in 0..MaxItems /\ history \in HistoryType
    BY DEF Inv, TypeInv
  <1>1. thread[t] \in ThreadType /\ TodoOf(thread[t]) /\ thread[t].pc = "create" /\ thread[t].known.id <= created
    BY <1>0 DEF TypeInv, TodoInv, Create
  <1>2. /\ UNCHANGED <<caching, prepared, saved, calls, item, history>>
        /\ created' = created + 1 /\ created < MaxItems
        /\ history' \in HistoryType /\ history'.lagging = history.lagging
        /\ history'.crowded = history.crowded
    BY <1>0 DEF Create
  <1>3. /\ created' \in 0..MaxItems /\ created <= created' /\ created' \in Nat /\ created' \in Items
        /\ created' > created /\ created' # 0
    BY <1>0, <1>2 DEF Items
  <1>4. item[created'] = NewDocument
    BY <1>0, <1>3 DEF NewItemsInv
  <1>5. ASSUME NEW known \in Known, known.id <= created', known.id # 0 => known.doc = item[known.id],
               Step(t, Know(thread[t], known)), Remember(known), NEW kind, NoFault \/ Fault(kind)
        PROVE  Inv'
    <2> DEFINE th == Know(thread[t], known)
    <2>1. /\ th \in ThreadType /\ th.known = known /\ th.todo = thread[t].todo
          /\ th.rpc = thread[t].rpc /\ th.pc = IF thread[t].rpc = "policy" THEN "select" ELSE "patch"
      BY <1>1, <1>5, KnowTyped
    <2>2. thread' = [thread EXCEPT ![t] = th]
      BY <1>5 DEF Step
    <2> HIDE DEF th
    <2>3. TodoOf(th) /\ th.known.id <= created' /\ CurrentIn(item, th)
      BY <1>1, <1>5, <2>1 DEF TodoOf, CurrentIn
    <2>4. \/ cache' = cache
          \/ caching /\ \E k \in Known : cache' = <<k>> /\ k.id <= created'
      BY <1>5 DEF Remember
    <2> QED BY <1>1, <1>2, <1>3, <1>5, <2>1, <2>2, <2>3, <2>4, StepKeeps
  <1>6. CASE /\ NoFault
             /\ Step(t, Know(thread[t], [id |-> created', doc |-> NewDocument]))
             /\ Remember([id |-> created', doc |-> NewDocument])
    <2> DEFINE known == [id |-> created', doc |-> NewDocument]
    <2>1. known \in Known /\ known.id = created' /\ known.doc = NewDocument
      BY <1>3, NewTyped DEF Known
    <2>2. Step(t, Know(thread[t], known)) /\ Remember(known)
      BY <1>6
    <2> HIDE DEF known
    <2> QED BY <1>3, <1>4, <1>5, <1>6, <2>1, <2>2
  <1>7. CASE Fault("empty") /\ Step(t, Know(thread[t], EmptyItem)) /\ Remember(EmptyItem)
    BY <1>3, <1>5, <1>7, NewTyped
  <1>8. CASE Fault("lost") /\ Step(t, Skip(thread[t])) /\ UNCHANGED cache
    <2> DEFINE th == Skip(thread[t])
    <2>1. /\ th \in ThreadType /\ TodoOf(th) /\ th.pc \in {"free", "read"}
          /\ th.known \in {thread[t].known, Free.known}
      BY <1>1, SkipTyped
    <2>2. thread' = [thread EXCEPT ![t] = th]
      BY <1>8 DEF Step
    <2> HIDE DEF th
    <2>3. th.known.id <= created' /\ CurrentIn(item, th)
      <3>1. thread[t].known.id \in Nat
        BY <1>1 DEF ThreadType, Known
      <3> QED BY <1>0, <1>1, <1>3, <2>1, <3>1, FreeTyped DEF CurrentIn
    <2> QED BY <1>1, <1>2, <1>3, <1>8, <2>1, <2>2, <2>3, StepKeeps
  <1> QED BY <1>6, <1>7, <1>8 DEF Create

LEMMA RequestFailsKeeps ==
  ASSUME Inv, NEW t \in Threads, RequestFails(t)
  PROVE  Inv'
  <1>0. TypeInv /\ TodoInv /\ AloneInv /\ created \in 0..MaxItems /\ history \in HistoryType
    BY DEF Inv, TypeInv
  <1>1. /\ thread[t] \in ThreadType /\ thread[t].known.id <= created /\ thread[t].pc # "free"
    BY <1>0 DEF TypeInv, RequestFails
  <1> DEFINE th == Skip(thread[t])
  <1>2. /\ th \in ThreadType /\ TodoOf(th) /\ th.pc \in {"free", "read"}
        /\ th.known \in {thread[t].known, Free.known}
    BY <1>1, SkipTyped
  <1>3. thread' = [thread EXCEPT ![t] = th]
    BY DEF RequestFails, Step
  <1> HIDE DEF th
  <1>4. th.known.id <= created /\ CurrentIn(item, th)
    BY <1>0, <1>1, <1>2, FreeTyped DEF CurrentIn
  <1>5. /\ UNCHANGED <<caching, prepared, saved, calls, item, created, cache, history>>
        /\ Fault("http") /\ created' \in 0..MaxItems /\ created <= created' /\ th.known.id <= created'
        /\ history' \in HistoryType /\ history'.lagging = history.lagging
        /\ history'.crowded = history.crowded
    BY <1>0, <1>4 DEF RequestFails
  <1> QED BY <1>1, <1>2, <1>3, <1>4, <1>5, StepKeeps

-------------------------------------------------------------------------------
(* The threads of GetPolicy.                                                *)

LEMMA NoWorkKeeps ==
  ASSUME Inv, NEW t \in Threads, NoWork(t)
  PROVE  Inv'
  <1>0. TypeInv /\ TodoInv /\ AloneInv /\ created \in 0..MaxItems /\ history \in HistoryType
    BY DEF Inv, TypeInv
  <1>1. /\ thread[t] \in ThreadType /\ thread[t].known.id <= created /\ thread[t].pc = "select"
    BY <1>0 DEF TypeInv, NoWork
  <1> DEFINE todo == <<Write("IDLE", {"assignment", "fetch"}, None)>>
  <1>2. todo \in Seq(Writes) /\ todo # <<>> /\ Len(todo) = 1 /\ DOMAIN todo = {1}
    <2>1. "IDLE" \in States /\ {"assignment", "fetch"} \in SUBSET Keys
      BY DEF States, Titles, Keys
    <2>2. Write("IDLE", {"assignment", "fetch"}, None) \in Writes
      BY <2>1, WriteTyped
    <2> QED BY <2>2
  <1>3. \/ /\ thread[t].known.id = 0 /\ thread' = [thread EXCEPT ![t] = Reading(todo)]
        \/ /\ thread[t].known.id # 0
           /\ thread' = [thread EXCEPT ![t] = [thread[t] EXCEPT !.pc = "patch", !.todo = todo]]
    BY DEF NoWork, Step
  <1> HIDE DEF todo
  <1>4. PICK th \in ThreadType : /\ thread' = [thread EXCEPT ![t] = th] /\ TodoOf(th)
                                 /\ th.known.id <= created
                                 /\ CurrentIn(item, thread[t]) => CurrentIn(item, th)
    <2>1. CASE thread' = [thread EXCEPT ![t] = Reading(todo)]
      <3>1. /\ Reading(todo) \in ThreadType /\ TodoOf(Reading(todo)) /\ Reading(todo).known.id <= created
            /\ CurrentIn(item, Reading(todo))
        BY <1>0, <1>2, ReadingTyped DEF CurrentIn
      <3> QED BY <2>1, <3>1
    <2>2. CASE thread' = [thread EXCEPT ![t] = [thread[t] EXCEPT !.pc = "patch", !.todo = todo]]
      <3> DEFINE th == [thread[t] EXCEPT !.pc = "patch", !.todo = todo]
      <3>1. /\ th \in ThreadType /\ th.pc = "patch" /\ th.todo = todo /\ th.known = thread[t].known
        BY <1>1, <1>2 DEF ThreadType, Pcs
      <3>2. thread' = [thread EXCEPT ![t] = th]
        BY <2>2
      <3> HIDE DEF th
      <3>3. TodoOf(th) /\ th.known.id <= created
        <4>1. \A k \in DOMAIN todo : ~(k < Len(todo))
          BY <1>2
        <4> QED BY <1>1, <1>2, <3>1, <4>1 DEF TodoOf
      <3>4. CurrentIn(item, thread[t]) => CurrentIn(item, th)
        BY <1>1, <3>1 DEF CurrentIn
      <3> QED BY <3>1, <3>2, <3>3, <3>4
    <2> QED BY <1>3, <2>1, <2>2
  <1>5. ~caching /\ ~history.crowded => CurrentIn(item, th)
    BY <1>0, <1>1, <1>4, OwnTurn
  <1>6. /\ UNCHANGED <<caching, prepared, saved, calls, item, created, cache, history>>
        /\ NoFault /\ created' \in 0..MaxItems /\ created <= created' /\ th.known.id <= created'
        /\ history' \in HistoryType /\ history'.lagging = history.lagging
        /\ history'.crowded = history.crowded
    BY <1>0, <1>4 DEF NoWork
  <1> QED BY <1>1, <1>4, <1>5, <1>6, StepKeeps

(* A thread of GetPolicy begins its write; this is where two overlap.       *)
LEMMA PatchingTyped ==
  ASSUME NEW th \in ThreadType, NEW state \in States, NEW keys \in SUBSET Keys
  PROVE  LET next == [[th EXCEPT !.pc = "patch"] EXCEPT !.todo = <<Write(state, keys, th.value)>>]
         IN  /\ next \in ThreadType /\ TodoOf(next) /\ next.known = th.known
             /\ next.todo = <<Write(state, keys, th.value)>> /\ next.pc = "patch"
  <1> DEFINE todo == <<Write(state, keys, th.value)>>
             next == [[th EXCEPT !.pc = "patch"] EXCEPT !.todo = todo]
  <1>1. todo \in Seq(Writes) /\ todo # <<>> /\ Len(todo) = 1 /\ DOMAIN todo = {1}
    <2>1. Write(state, keys, th.value) \in Writes
      BY WriteTyped DEF ThreadType
    <2> QED BY <2>1
  <1> HIDE DEF todo
  <1>2. /\ next \in ThreadType /\ next.pc = "patch" /\ next.todo = todo /\ next.known = th.known
    BY <1>1 DEF ThreadType, Pcs
  <1>3. TodoOf(next)
    <2> HIDE DEF next
    <2>1. \A k \in DOMAIN todo : ~(k < Len(todo))
      BY <1>1
    <2> QED BY <1>1, <1>2, <2>1 DEF TodoOf
  <1> QED BY <1>2, <1>3 DEF todo

LEMMA AssignKeeps ==
  ASSUME Inv, NEW t \in Threads, NEW u \in Threads, Assign(t, u)
  PROVE  Inv'
  <1>0. /\ TypeInv /\ TodoInv /\ NewItemsInv /\ AloneInv /\ created \in 0..MaxItems
        /\ history \in HistoryType
    BY DEF Inv, TypeInv
  <1>1. /\ thread[t] \in ThreadType /\ thread[t].known.id <= created /\ t # u
    BY <1>0 DEF TypeInv, Assign
  <1>2. PICK answer \in {"WAITING_POLICY", "POLICY_CACHED", "POLICY_READY"} :
          LET patching == [thread[t] EXCEPT !.pc = "patch"]
          IN  thread' = [thread EXCEPT
                ![t] = [patching EXCEPT !.todo = <<Write("ASSIGNED", {"assignment"}, thread[t].value)>>],
                ![u] = [patching EXCEPT !.todo = <<Write(answer, {"fetch"}, thread[t].value)>>]]
    BY DEF Assign
  <1> DEFINE a == [[thread[t] EXCEPT !.pc = "patch"]
                     EXCEPT !.todo = <<Write("ASSIGNED", {"assignment"}, thread[t].value)>>]
             b == [[thread[t] EXCEPT !.pc = "patch"]
                     EXCEPT !.todo = <<Write(answer, {"fetch"}, thread[t].value)>>]
  <1>3. /\ a \in ThreadType /\ TodoOf(a) /\ a.known.id <= created
        /\ b \in ThreadType /\ TodoOf(b) /\ b.known.id <= created
    <2>1. /\ {"ASSIGNED", "WAITING_POLICY", "POLICY_CACHED", "POLICY_READY"} \subseteq States
          /\ {"assignment"} \in SUBSET Keys /\ {"fetch"} \in SUBSET Keys
      BY DEF States, Titles, Keys
    <2>2. a \in ThreadType /\ TodoOf(a) /\ a.known = thread[t].known
      <3>1. "ASSIGNED" \in States
        BY <2>1
      <3> QED BY <1>1, <2>1, <3>1, PatchingTyped
    <2>3. b \in ThreadType /\ TodoOf(b) /\ b.known = thread[t].known
      <3>1. answer \in States
        BY <2>1
      <3> QED BY <1>1, <2>1, <3>1, PatchingTyped
    <2> QED BY <1>1, <2>2, <2>3
  <1>4. thread' = [thread EXCEPT ![t] = a, ![u] = b]
    BY <1>2
  <1> HIDE DEF a, b
  <1>5. /\ thread' \in [Threads -> ThreadType] /\ thread'[t] = a /\ thread'[u] = b
        /\ \A v \in Threads \ {t, u} : thread'[v] = thread[v]
    BY <1>0, <1>1, <1>3, <1>4 DEF TypeInv
  <1>6. UNCHANGED <<caching, created, item, cache, prepared, saved, calls, faults>>
    BY DEF Assign, NoFault
  <1>7. history' \in HistoryType /\ history'.crowded
    BY <1>0, NotesTyped DEF Assign, HistoryType
  <1>8. \A v \in Threads : thread'[v].known.id <= created /\ TodoOf(thread'[v])
    BY <1>0, <1>3, <1>5 DEF TypeInv, TodoInv
  <1>9. TypeInv'
    BY <1>0, <1>5, <1>6, <1>7, <1>8 DEF TypeInv
  <1>10. TodoInv'
    BY <1>8 DEF TodoInv, TodoOf
  <1>11. AloneInv' /\ NewItemsInv'
    BY <1>0, <1>6, <1>7 DEF AloneInv, NewItemsInv
  <1> QED BY <1>9, <1>10, <1>11 DEF Inv

-------------------------------------------------------------------------------
(* The PATCH.                                                               *)

(* A thread that has written or failed to.                                  *)
LEMMA AfterWrite ==
  ASSUME Inv, NEW t \in Threads, thread[t].pc = "patch", NEW th, th = Free \/ th = Written(thread[t])
  PROVE  /\ th \in ThreadType /\ TodoOf(th) /\ th.known.id <= created
         /\ CurrentIn(item, thread[t]) => CurrentIn(item, th)
         /\ th.pc \in {"select", "patch"} => th.known = thread[t].known /\ Head(thread[t].todo).keys = {}
  <1>0. /\ thread[t] \in ThreadType /\ TodoOf(thread[t]) /\ thread[t].known.id <= created
        /\ created \in 0..MaxItems
    BY DEF Inv, TypeInv, TodoInv
  <1>1. CASE th = Free
    BY <1>0, <1>1, FreeTyped DEF CurrentIn
  <1>2. CASE th = Written(thread[t])
    <2>1. /\ th \in ThreadType /\ TodoOf(th) /\ th.known \in {thread[t].known, Free.known}
          /\ th.pc \in {"free", "read", "patch"}
          /\ th.pc = "patch" => th.known = thread[t].known /\ Head(thread[t].todo).keys = {}
      BY <1>0, <1>2, WrittenTyped
    <2> QED BY <1>0, <2>1, FreeTyped DEF CurrentIn
  <1> QED BY <1>1, <1>2

LEMMA NoPatchKeeps ==
  ASSUME Inv, NEW t \in Threads, PatchFails(t) \/ PatchNothing(t)
  PROVE  Inv'
  <1>0. TypeInv /\ AloneInv /\ created \in 0..MaxItems /\ history \in HistoryType
    BY DEF Inv, TypeInv
  <1>1. thread[t].pc = "patch"
    BY DEF PatchFails, PatchNothing
  <1>2. PICK th : th \in {Free, Written(thread[t])} /\ thread' = [thread EXCEPT ![t] = th]
    BY DEF PatchFails, PatchNothing, Step
  <1>3. /\ th \in ThreadType /\ TodoOf(th) /\ th.known.id <= created
        /\ CurrentIn(item, thread[t]) => CurrentIn(item, th)
    BY <1>1, <1>2, AfterWrite
  <1>4. ~caching /\ ~history.crowded => CurrentIn(item, th)
    BY <1>0, <1>1, <1>3, OwnTurn
  <1>5. /\ UNCHANGED <<caching, prepared, saved, calls, item, created, cache, history>>
        /\ NoFault \/ Fault("http")
        /\ created' \in 0..MaxItems /\ created <= created' /\ th.known.id <= created'
        /\ history' \in HistoryType /\ history'.lagging = history.lagging
        /\ history'.crowded = history.crowded
    BY <1>0, <1>3 DEF PatchFails, PatchNothing
  <1> QED BY <1>1, <1>2, <1>3, <1>4, <1>5, StepKeeps

(* What the PATCH leaves in the item, in the thread and in the notes.       *)
LEMMA PatchFacts ==
  ASSUME Inv, NEW t \in Threads, Patch(t)
  PROVE  LET known == thread[t].known
             w == Head(thread[t].todo)
         IN  /\ thread[t].pc = "patch" /\ known \in Known /\ known.id \in Existing /\ known.id \in Items
             /\ w \in Writes /\ known.doc \in Documents
             /\ item' \in [Items -> Documents]
             /\ \A i \in Items \ {known.id} : item'[i] = item[i]
             /\ Needless(known.doc, w) => item' = item
             /\ ~Needless(known.doc, w) =>
                  item'[known.id] = Patched(known.doc, w, item[known.id].status)
             /\ history' = NoteWrite(known, w)
             /\ UNCHANGED <<caching, created, cache, prepared, saved, calls>>
  <1>0. TypeInv /\ TodoInv
    BY DEF Inv
  <1> DEFINE known == thread[t].known
             w == Head(thread[t].todo)
  <1>1. thread[t].pc = "patch" /\ thread[t] \in ThreadType /\ known.id # 0 /\ known.id <= created
    BY <1>0 DEF TypeInv, Patch
  <1>2. known \in Known /\ known.id \in Nat /\ known.doc \in Documents
    BY <1>1 DEF ThreadType, Known
  <1>3. known.id \in Existing /\ known.id \in Items
    BY <1>0, <1>1, <1>2 DEF TypeInv, Existing, Items
  <1>4. w \in Writes
    <2>1. thread[t].todo \in Seq(Writes) /\ thread[t].todo # <<>>
      BY <1>0, <1>1 DEF ThreadType, TodoInv, TodoOf
    <2> QED BY <2>1, TailTyped
  <1>5. /\ item' = IF Needless(known.doc, w) THEN item
                   ELSE [item EXCEPT ![known.id] = Patched(known.doc, w, @.status)]
        /\ history' = NoteWrite(known, w)
        /\ UNCHANGED <<caching, created, cache, prepared, saved, calls>>
    BY DEF Patch
  <1> HIDE DEF known, w
  <1>6. Patched(known.doc, w, item[known.id].status) \in Documents
    BY <1>0, <1>2, <1>3, <1>4, PatchedTyped DEF TypeInv
  <1>7. /\ item' \in [Items -> Documents]
        /\ \A i \in Items \ {known.id} : item'[i] = item[i]
        /\ Needless(known.doc, w) => item' = item
        /\ ~Needless(known.doc, w) =>
             item'[known.id] = Patched(known.doc, w, item[known.id].status)
    <2>1. CASE Needless(known.doc, w)
      BY <1>0, <1>5, <2>1 DEF TypeInv
    <2>2. CASE ~Needless(known.doc, w)
      <3> DEFINE new == Patched(known.doc, w, item[known.id].status)
      <3>1. item' = [item EXCEPT ![known.id] = new]
        BY <1>5, <2>2
      <3>2. new \in Documents
        BY <1>6
      <3> HIDE DEF new
      <3>3. item' \in [Items -> Documents] /\ item'[known.id] = new
            /\ \A i \in Items \ {known.id} : item'[i] = item[i]
        BY <1>0, <1>3, <3>1, <3>2 DEF TypeInv
      <3> QED BY <2>2, <3>3 DEF new
    <2> QED BY <2>1, <2>2
  <1> QED BY <1>1, <1>2, <1>3, <1>4, <1>5, <1>7 DEF known, w

(* A presence leaves the runtime state of an item as it is known, if what   *)
(* is known is what the item holds.                                         *)
LEMMA PresenceQuiet ==
  ASSUME Inv, NEW t \in Threads, Patch(t), Head(thread[t].todo).keys = {},
         Runtime(thread[t].known.doc) = Runtime(item[thread[t].known.id])
  PROVE  Runtime(item'[thread[t].known.id]) = Runtime(thread[t].known.doc)
  <1> DEFINE known == thread[t].known
             w == Head(thread[t].todo)
  <1>1. /\ item'[known.id] = Patched(known.doc, w, item[known.id].status)
        /\ known.doc \in Documents
    BY PatchFacts DEF Needless
  <1>2. w.keys = {} /\ Runtime(known.doc) = Runtime(item[known.id])
    OBVIOUS
  <1> HIDE DEF known, w
  <1>3. item'[known.id] = [known.doc EXCEPT !.presence = w.value, !.status = item[known.id].status]
    BY <1>1, <1>2 DEF Patched
  <1>4. item[known.id].status = known.doc.status
    BY <1>2 DEF Runtime
  <1>5. /\ item'[known.id].status = known.doc.status /\ item'[known.id].state = known.doc.state
        /\ item'[known.id].details = known.doc.details
    BY <1>1, <1>3, <1>4 DEF Documents
  <1> QED BY <1>5 DEF Runtime, known

LEMMA PatchKeeps ==
  ASSUME Inv, NEW t \in Threads, Patch(t)
  PROVE  Inv'
  <1>0. TypeInv /\ TodoInv /\ NewItemsInv /\ AloneInv /\ created \in 0..MaxItems /\ history \in HistoryType
    BY DEF Inv, TypeInv
  <1> DEFINE known == thread[t].known
             w == Head(thread[t].todo)
  <1>1. /\ thread[t].pc = "patch" /\ known.id \in Existing /\ w \in Writes
        /\ item' \in [Items -> Documents]
        /\ \A i \in Items \ {known.id} : item'[i] = item[i]
        /\ history' = NoteWrite(known, w)
        /\ UNCHANGED <<caching, created, cache, prepared, saved, calls>>
    BY PatchFacts
  <1>2. PICK th : th \in {Free, Written(thread[t])} /\ thread' = [thread EXCEPT ![t] = th]
    BY DEF Patch, Step
  <1>3. /\ th \in ThreadType /\ TodoOf(th) /\ th.known.id <= created
        /\ th.pc \in {"select", "patch"} => th.known = known /\ w.keys = {}
    BY <1>1, <1>2, AfterWrite
  <1>4. faults' \in 0..MaxFaults
    BY <1>0, FaultTyped DEF Patch
  <1>5. history' \in HistoryType /\ history'.crowded = history.crowded
    BY <1>0, <1>1, NoteWriteTyped
  <1>6. /\ thread' \in [Threads -> ThreadType] /\ \A u \in Threads : thread'[u].known.id <= created'
        /\ TodoInv'
    <2>1. created' \in Nat /\ created <= created' /\ th.known.id <= created'
      BY <1>0, <1>1, <1>3
    <2> QED BY <1>0, <1>2, <1>3, <2>1, ThreadKept, Zenon
  <1>7. TypeInv'
    BY <1>0, <1>1, <1>4, <1>5, <1>6 DEF TypeInv
  <1>8. NewItemsInv'
    <2>1. \A i \in Items : i > created => i # known.id
      BY <1>0, <1>1 DEF Existing, Items
    <2> QED BY <1>0, <1>1, <2>1 DEF NewItemsInv
  <1>9. AloneInv'
    <2>1. ASSUME ~caching, ~history'.crowded
          PROVE  ~history'.lagging /\ cache' = <<>> /\ Busy \subseteq {t} /\ CurrentIn(item', th)
      <3>1. Busy \subseteq {t} /\ CurrentIn(item, thread[t]) /\ cache = <<>> /\ ~history.lagging
        BY <1>0, <1>1, <1>5, <2>1, OwnTurn
      <3>2. Runtime(known.doc) = Runtime(item[known.id])
        BY <1>1, <3>1 DEF CurrentIn, Patch
      <3>3. ~history'.lagging
        <4>1. history' = [history EXCEPT !.latest = [k \in Keys |-> IF k \in w.keys THEN <<w.state, w.value>> ELSE @[k]]]
          BY <1>1, <3>1, <3>2 DEF NoteWrite
        <4> QED BY <1>0, <3>1, <4>1 DEF HistoryType
      <3>4. CurrentIn(item', th)
        <4>1. CASE th.pc \in {"select", "patch"}
          BY <1>3, <3>2, <4>1, PresenceQuiet DEF CurrentIn
        <4>2. CASE th.pc \notin {"select", "patch"}
          BY <4>2 DEF CurrentIn
        <4> QED BY <4>1, <4>2
      <3> QED BY <1>1, <3>1, <3>3, <3>4
    <2>2. ~history'.crowded => ~history.crowded
      BY <1>5
    <2> HIDE DEF known, w
    <2> QED BY <1>0, <1>1, <1>2, <2>1, <2>2, AloneKept
  <1> QED BY <1>6, <1>7, <1>8, <1>9 DEF Inv

-------------------------------------------------------------------------------
(* The invariant, and what follows from it.                                 *)

LEMMA InvInit == Init => Inv
  <1> SUFFICES ASSUME Init PROVE Inv
    OBVIOUS
  <1>1. TypeInv
    <2>1. /\ item \in [Items -> Documents] /\ thread \in [Threads -> ThreadType]
          /\ \A t \in Threads : thread[t].known.id <= created
      BY NewTyped, FreeTyped DEF Init
    <2>2. history \in HistoryType
      BY NewTyped DEF Init, HistoryType
    <2> QED BY <2>1, <2>2 DEF Init, TypeInv
  <1>2. \A t \in Threads : thread[t] = Free
    BY DEF Init
  <1>3. TodoInv
    BY <1>2, FreeTyped DEF TodoInv
  <1>4. NewItemsInv
    BY DEF Init, NewItemsInv
  <1>5. AloneInv
    BY <1>2, FreeTyped DEF Init, AloneInv, Busy, Current
  <1> QED BY <1>1, <1>3, <1>4, <1>5 DEF Inv

(* Restarts, the end of an entry's time to live, and saves of other tables. *)
LEMMA ServiceKeeps ==
  ASSUME Inv, SaveOthers \/ CacheExpires \/ Restart \/ UNCHANGED vars
  PROVE  Inv'
  <1>0. TypeInv /\ TodoInv /\ NewItemsInv /\ AloneInv
    BY DEF Inv
  <1>1. CASE SaveOthers \/ CacheExpires \/ UNCHANGED vars
    <2>1. /\ UNCHANGED <<caching, created, item, thread, prepared, calls, faults, history>>
          /\ cache' \in {cache, <<>>} /\ saved' \in {saved, prepared}
      BY <1>1 DEF SaveOthers, CacheExpires, vars
    <2>2. TypeInv'
      BY <1>0, <2>1 DEF TypeInv
    <2>3. AloneInv'
      BY <1>0, <2>1 DEF AloneInv, Busy, Current
    <2> QED BY <1>0, <2>1, <2>2, <2>3 DEF Inv, TodoInv, TodoOf, NewItemsInv
  <1>2. CASE Restart
    <2>1. /\ UNCHANGED <<caching, created, item, saved, calls, history>>
          /\ cache' = <<>> /\ prepared' = saved /\ thread' = [t \in Threads |-> Free]
      BY <1>2 DEF Restart
    <2>2. \A t \in Threads : thread'[t] = Free
      BY <2>1
    <2>3. faults' \in 0..MaxFaults
      BY <1>0, <1>2, FaultTyped DEF Restart
    <2>4. thread' \in [Threads -> ThreadType] /\ \A t \in Threads : thread'[t].known.id <= created
      BY <1>0, <2>1, <2>2, FreeTyped DEF TypeInv
    <2>5. TypeInv'
      BY <1>0, <2>1, <2>3, <2>4 DEF TypeInv
    <2>6. TodoInv'
      <3>1. \A t \in Threads : TodoOf(thread'[t])
        BY <2>2, FreeTyped
      <3> QED BY <3>1 DEF TodoInv, TodoOf
    <2>7. AloneInv'
      BY <1>0, <2>1, <2>2, FreeTyped DEF AloneInv, Busy, Current
    <2> QED BY <1>0, <2>1, <2>5, <2>6, <2>7 DEF Inv, NewItemsInv
  <1> QED BY <1>1, <1>2

LEMMA InvStep ==
  ASSUME Inv, [Next]_vars
  PROVE  Inv'
  <1>1. CASE UNCHANGED vars \/ SaveOthers \/ CacheExpires \/ Restart
    BY <1>1, ServiceKeeps
  <1>2. ASSUME NEW t \in Threads,
               \/ Hello(t) \/ GetPolicy(t) \/ RejectPreparation(t) \/ AckPrepared(t)
               \/ AckUnsaved(t) \/ PublishReport(t) \/ Read(t) \/ Find(t) \/ FindNone(t)
               \/ Create(t) \/ RequestFails(t) \/ NoWork(t) \/ (\E u \in Threads : Assign(t, u))
               \/ Patch(t) \/ PatchFails(t) \/ PatchNothing(t)
        PROVE  Inv'
    BY <1>2, HelloKeeps, GetPolicyKeeps, ReadersKeep, UnsavedKeeps, ReadKeeps, FindKeeps,
       FindNoneTyped, CreateTyped, RequestFailsKeeps, NoWorkKeeps, AssignKeeps, PatchKeeps,
       NoPatchKeeps, Zenon
  <1> QED BY <1>1, <1>2, Actions

LEMMA Invariance == Spec => []Inv
  BY InvInit, InvStep, PTL DEF Spec

(* The items, the cache, the threads and the tables keep their types.       *)
THEOREM TypeCorrect == Spec => []TypeOK
  <1>1. Inv => TypeOK
    <2> SUFFICES ASSUME Inv PROVE TypeOK
      OBVIOUS
    <2>0. TypeInv
      BY DEF Inv
    <2>1. \A i \in Items : item[i] \in Documents
      BY <2>0 DEF TypeInv
    <2>2. \/ cache = <<>>
          \/ /\ caching /\ Len(cache) = 1
             /\ cache[1].id \in 0..created /\ cache[1].doc \in Documents
      <3>1. CASE cache # <<>>
        <4>1. caching /\ cache \in Seq(Known) /\ Len(cache) = 1 /\ cache[1].id <= created
          BY <2>0, <3>1 DEF TypeInv
        <4>2. cache[1] \in Known
          BY ONLY <4>1, SMT
        <4> QED BY <2>0, <4>1, <4>2 DEF Known, TypeInv
      <3> QED BY <3>1
    <2>3. ASSUME NEW t \in Threads
          PROVE  /\ thread[t].known.id \in 0..created /\ thread[t].known.doc \in Documents
                 /\ \A k \in DOMAIN thread[t].todo : thread[t].todo[k] \in Writes
      <3>1. /\ thread[t].known \in Known /\ thread[t].known.id <= created
            /\ thread[t].todo \in Seq(Writes)
        BY <2>0 DEF TypeInv, ThreadType
      <3>2. thread[t].known.id \in 0..created /\ thread[t].known.doc \in Documents
        BY <2>0, <3>1 DEF Known, TypeInv
      <3>3. \A k \in DOMAIN thread[t].todo : thread[t].todo[k] \in Writes
        BY <3>1
      <3> QED BY <3>2, <3>3
    <2> QED BY <2>0, <2>1, <2>2, <2>3 DEF TypeOK, TypeInv
  <1> QED BY <1>1, Invariance, PTL

(* Without a cache and without overlap, what is written into the item of a  *)
(* device is made from what it holds, whatever fails, is lost or restarts.  *)
THEOREM OldSnapshotsAreExplained == Spec => []OldSnapshotsNeedCacheOrOverlap
  <1>1. Inv => OldSnapshotsNeedCacheOrOverlap
    BY DEF Inv, AloneInv, OldSnapshotsNeedCacheOrOverlap
  <1> QED BY <1>1, Invariance, PTL

-------------------------------------------------------------------------------
(* The document: its status and its details.                                *)

(* Nothing but a PATCH writes a document, and an item is created empty.     *)
NothingWritten ==
  /\ item' = item /\ history'.lagging = history.lagging /\ history'.latest = history.latest
  /\ ~history'.together => ~history.together
  /\ \/ created' = created
     \/ /\ created' = created + 1 /\ created' \in Items /\ item[created'] = NewDocument
        /\ \E t \in Threads : Create(t)

LEMMA OnlyPatchWrites ==
  ASSUME Inv, [Next]_vars, \A t \in Threads : ~Patch(t)
  PROVE  NothingWritten
  <1>0. history \in HistoryType /\ created \in 0..MaxItems /\ NewItemsInv
    BY DEF Inv, TypeInv
  <1>1. CASE UNCHANGED vars \/ SaveOthers \/ CacheExpires \/ Restart
    BY <1>1 DEF vars, SaveOthers, CacheExpires, Restart, NothingWritten
  <1>2. ASSUME NEW t \in Threads,
               \/ Hello(t) \/ GetPolicy(t) \/ RejectPreparation(t) \/ AckPrepared(t)
               \/ AckUnsaved(t) \/ PublishReport(t)
        PROVE  NothingWritten
    <2>1. UNCHANGED <<item, created>>
      BY <1>2 DEF Hello, GetPolicy, RejectPreparation, AckPrepared, AckUnsaved, PublishReport
    <2>2. /\ history'.lagging = history.lagging /\ history'.latest = history.latest
          /\ history'.together = history.together
      BY <1>0, <1>2 DEF Hello, GetPolicy, RejectPreparation, AckPrepared, AckUnsaved, PublishReport,
                        NoteCall, HistoryType
    <2> QED BY <2>1, <2>2 DEF NothingWritten
  <1>3. ASSUME NEW t \in Threads,
               \/ Read(t) \/ Find(t) \/ RequestFails(t) \/ NoWork(t) \/ (\E u \in Threads : Assign(t, u))
               \/ PatchFails(t) \/ PatchNothing(t)
        PROVE  NothingWritten
    <2>1. UNCHANGED <<item, created>>
      BY <1>3 DEF Read, Find, RequestFails, NoWork, Assign, PatchFails, PatchNothing
    <2>2. /\ history'.lagging = history.lagging /\ history'.latest = history.latest
          /\ history'.together = history.together
      BY <1>0, <1>3 DEF Read, Find, RequestFails, NoWork, Assign, PatchFails, PatchNothing, HistoryType
    <2> QED BY <2>1, <2>2 DEF NothingWritten
  <1>4. ASSUME NEW t \in Threads, FindNone(t)
        PROVE  NothingWritten
    BY <1>0, <1>4 DEF FindNone, HistoryType, NothingWritten
  <1>5. ASSUME NEW t \in Threads, Create(t)
        PROVE  NothingWritten
    <2>1. UNCHANGED <<item, history>> /\ created' = created + 1 /\ created < MaxItems
      BY <1>5 DEF Create
    <2>2. created' \in Items /\ created' > created
      BY <1>0, <2>1 DEF Items
    <2> QED BY <1>0, <1>5, <2>1, <2>2 DEF NewItemsInv, NothingWritten
  <1> QED BY <1>1, <1>2, <1>3, <1>4, <1>5, Actions, Zenon

(* What a PATCH leaves if nothing old was written so far.                   *)
LEMMA FreshPatch ==
  ASSUME Inv, NEW t \in Threads, Patch(t), ~history'.lagging
  PROVE  LET i == thread[t].known.id
             w == Head(thread[t].todo)
         IN  /\ ~history.lagging /\ i \in Existing
             /\ \A j \in Existing \ {i} : item'[j] = item[j]
             /\ w.keys = {} => /\ item'[i].state = item[i].state /\ item'[i].status = item[i].status
                               /\ item'[i].details = item[i].details
             /\ w.keys # {} => /\ item'[i].state = w.state
                               /\ Title(w.state) # "unset" => item'[i].status = Title(w.state)
                               /\ item'[i].details = Details(item[i], w)
             /\ history' = [history EXCEPT !.latest =
                              [k \in Keys |-> IF k \in w.keys THEN <<w.state, w.value>> ELSE @[k]]]
  <1> DEFINE known == thread[t].known
             i == known.id
             w == Head(thread[t].todo)
  <1>0. history \in HistoryType /\ created \in 0..MaxItems
    BY DEF Inv, TypeInv
  <1>1. /\ i \in Existing /\ w \in Writes /\ known.doc \in Documents
        /\ \A j \in Items \ {i} : item'[j] = item[j]
        /\ Needless(known.doc, w) => item' = item
        /\ ~Needless(known.doc, w) => item'[i] = Patched(known.doc, w, item[i].status)
        /\ history' = NoteWrite(known, w)
    BY PatchFacts
  <1> HIDE DEF known, w
  <1>2. ~history.lagging /\ Runtime(known.doc) = Runtime(item[i])
    BY <1>0, <1>1 DEF NoteWrite, HistoryType
  <1>3. history' = [history EXCEPT !.latest =
                      [k \in Keys |-> IF k \in w.keys THEN <<w.state, w.value>> ELSE @[k]]]
    BY <1>1, <1>2 DEF NoteWrite
  <1>4. /\ item[i].status = known.doc.status /\ item[i].state = known.doc.state
        /\ item[i].details = known.doc.details
    BY <1>2 DEF Runtime
  <1>5. Details(item[i], w) = Details(known.doc, w)
    BY <1>4 DEF Details
  <1>6. CASE Needless(known.doc, w)
    <2>1. /\ w.keys # {} /\ known.doc.state = w.state /\ known.doc.details = Details(known.doc, w)
          /\ Title(w.state) \in {"unset", known.doc.status}
      BY <1>6 DEF Needless
    <2> QED BY <1>1, <1>2, <1>3, <1>4, <1>5, <1>6, <2>1 DEF Existing, Items, known, w
  <1>7. CASE ~Needless(known.doc, w)
    <2>1. item'[i] = Patched(known.doc, w, item[i].status)
      BY <1>1, <1>7
    <2>2. ASSUME w.keys = {}
          PROVE  /\ item'[i].state = item[i].state /\ item'[i].status = item[i].status
                 /\ item'[i].details = item[i].details
      <3>1. item'[i] = [known.doc EXCEPT !.presence = w.value, !.status = item[i].status]
        BY <2>1, <2>2 DEF Patched
      <3> QED BY <1>1, <1>4, <3>1 DEF Documents
    <2>3. ASSUME w.keys # {}
          PROVE  /\ item'[i].state = w.state
                 /\ Title(w.state) # "unset" => item'[i].status = Title(w.state)
                 /\ item'[i].details = Details(item[i], w)
      <3>1. item'[i] = [status |-> Status(known.doc, w, item[i].status), presence |-> known.doc.presence,
                        state |-> w.state, details |-> Details(known.doc, w)]
        BY <2>1, <2>3 DEF Patched
      <3>2. Title(w.state) # "unset" => Status(known.doc, w, item[i].status) = Title(w.state)
        BY <1>4 DEF Status
      <3> QED BY <1>5, <3>1, <3>2
    <2>4. \A j \in Existing \ {i} : item'[j] = item[j]
      BY <1>0, <1>1 DEF Existing, Items
    <2> QED BY <1>1, <1>2, <1>3, <2>2, <2>3, <2>4 DEF known, w
  <1> QED BY <1>6, <1>7

LEMMA StatusStep ==
  ASSUME Inv, StatusFollowsState, [Next]_vars
  PROVE  StatusFollowsState'
  <1> SUFFICES ASSUME ~history'.lagging, NEW j \in Existing', Title(item'[j].state) # "unset"
               PROVE  item'[j].status = Title(item'[j].state)
    BY DEF StatusFollowsState
  <1>0. created \in 0..MaxItems
    BY DEF Inv, TypeInv
  <1>1. CASE \A t \in Threads : ~Patch(t)
    <2>1. item' = item /\ ~history.lagging
      BY <1>1, OnlyPatchWrites DEF NothingWritten
    <2>2. CASE j \in Existing
      BY <2>1, <2>2 DEF StatusFollowsState
    <2>3. CASE j \notin Existing
      <3>1. j = created' /\ item[j] = NewDocument
        BY <1>0, <1>1, <2>3, OnlyPatchWrites DEF NothingWritten, Existing
      <3>2. Title(NewDocument.state) = "unset"
        <4>1. NewDocument.state = "unset"
          BY DEF NewDocument
        <4>2. "unset" \notin DOMAIN Titles
          BY DEF Titles
        <4> QED BY <4>1, <4>2 DEF Title
      <3> QED BY <2>1, <3>1, <3>2
    <2> QED BY <2>2, <2>3
  <1>2. ASSUME NEW t \in Threads, Patch(t)
        PROVE  item'[j].status = Title(item'[j].state)
    <2> DEFINE i == thread[t].known.id
               w == Head(thread[t].todo)
    <2>1. /\ ~history.lagging /\ i \in Existing
          /\ \A u \in Existing \ {i} : item'[u] = item[u]
          /\ w.keys = {} => /\ item'[i].state = item[i].state /\ item'[i].status = item[i].status
          /\ w.keys # {} => /\ item'[i].state = w.state
                            /\ Title(w.state) # "unset" => item'[i].status = Title(w.state)
      BY <1>2, FreshPatch
    <2>2. j \in Existing
      BY <1>2, PatchFacts DEF Existing
    <2>3. Title(item[j].state) # "unset" => item[j].status = Title(item[j].state)
      BY <2>1, <2>2 DEF StatusFollowsState
    <2> HIDE DEF i, w
    <2> QED BY <2>1, <2>2, <2>3
  <1> QED BY <1>1, <1>2

(* As long as nothing old was written, the resource status is that of the   *)
(* runtime state, for any threads, RPCs and faults.                         *)
THEOREM StatusIsOfTheState == Spec => []StatusFollowsState
  <1>1. Init => StatusFollowsState
    BY DEF Init, StatusFollowsState, Existing
  <1> QED BY <1>1, Invariance, StatusStep, PTL DEF Spec

LEMMA DetailsStep ==
  ASSUME Inv, Shape, CreateInv, DetailsInv, [Next]_vars
  PROVE  DetailsInv'
  <1>0. created \in 0..MaxItems /\ history \in HistoryType
    BY DEF Inv, TypeInv
  <1>1. CASE \A t \in Threads : ~Patch(t)
    <2>1. /\ item' = item /\ history'.lagging = history.lagging /\ history'.latest = history.latest
          /\ ~history'.together => ~history.together
          /\ \/ created' = created
             \/ /\ created' = created + 1 /\ item[created'] = NewDocument
                /\ \E t \in Threads : Create(t)
      BY <1>1, OnlyPatchWrites DEF NothingWritten
    <2>2. CASE created' = created
      BY <2>1, <2>2 DEF DetailsInv, DetailsKept, Existing
    <2>3. CASE created' = created + 1
      <3>1. PICK t \in Threads : Create(t)
        BY <1>0, <2>1, <2>3
      <3>2. ~history'.together => created = 0
        BY <2>1, <3>1 DEF CreateInv, Create, Creating
      <3>3. ASSUME ~history'.lagging, ~history'.together, NEW i \in Existing'
            PROVE  item'[i].details = history'.latest
        <4>1. created = 0 /\ created' = 1 /\ i = 1
          BY <2>3, <3>2, <3>3 DEF Existing
        <4>2. item'[i] = NewDocument
          BY <1>0, <2>1, <4>1
        <4>3. history.latest = NewDocument.details
          BY <2>1, <3>3, <4>1 DEF DetailsInv
        <4> QED BY <2>1, <4>2, <4>3
      <3>4. created' # 0
        BY <1>0, <2>3
      <3> QED BY <3>3, <3>4 DEF DetailsInv, DetailsKept
    <2> QED BY <2>1, <2>2, <2>3
  <1>2. ASSUME NEW t \in Threads, Patch(t)
        PROVE  DetailsInv'
    <2> DEFINE i == thread[t].known.id
               w == Head(thread[t].todo)
    <2>1. created' = created /\ created # 0 /\ history'.together = history.together
      <3>1. i \in Existing /\ created' = created /\ history' = NoteWrite(thread[t].known, w)
        BY <1>2, PatchFacts
      <3> QED BY <1>0, <3>1, NoteWriteFacts DEF Existing
    <2>2. ASSUME ~history'.lagging, ~history'.together, NEW j \in Existing'
          PROVE  item'[j].details = history'.latest
      <3>1. /\ ~history.lagging /\ i \in Existing
            /\ w.keys = {} => item'[i].details = item[i].details
            /\ w.keys # {} => item'[i].details = Details(item[i], w)
            /\ history' = [history EXCEPT !.latest =
                             [k \in Keys |-> IF k \in w.keys THEN <<w.state, w.value>> ELSE @[k]]]
        BY <1>2, <2>2, FreshPatch
      <3>2. j = i
        BY <1>0, <2>1, <2>2, <3>1 DEF CreateInv, Existing
      <3>3. item[i].details = history.latest
        BY <2>1, <2>2, <3>1 DEF DetailsInv, DetailsKept
      <3>4. history'.latest = [k \in Keys |-> IF k \in w.keys THEN <<w.state, w.value>> ELSE history.latest[k]]
        BY <1>0, <3>1 DEF HistoryType
      <3> HIDE DEF i, w
      <3>5. CASE w.keys = {}
        <4>1. history.latest \in [Keys -> Detail]
          BY <1>0 DEF HistoryType
        <4>2. history'.latest = history.latest
          BY <3>4, <3>5, <4>1
        <4> QED BY <3>1, <3>2, <3>3, <3>5, <4>2
      <3>6. CASE w.keys # {}
        BY <3>1, <3>2, <3>3, <3>4, <3>6 DEF Details
      <3> QED BY <3>5, <3>6
    <2> QED BY <1>0, <2>1, <2>2 DEF DetailsInv, DetailsKept
  <1> QED BY <1>1, <1>2

(* As long as nothing old was written, no write of a device's item drops    *)
(* the details another one left, for any threads, RPCs and faults.          *)
THEOREM DetailsStay == Spec => []DetailsKept
  <1>1. Init => DetailsInv
    BY DEF Init, DetailsInv, DetailsKept, Existing
  <1>2. DetailsInv => DetailsKept
    BY DEF DetailsInv
  <1> QED BY <1>1, <1>2, Invariance, CreateAlways, DetailsStep, PTL DEF Spec

-------------------------------------------------------------------------------
(* The preparations.                                                        *)

LEMMA PreparedStep ==
  ASSUME Inv, PreparedInv, [Next]_vars
  PROVE  PreparedInv'
  <1>0. history \in HistoryType
    BY DEF Inv, TypeInv
  <1>1. CASE UNCHANGED vars \/ SaveOthers \/ CacheExpires \/ Restart
    BY <1>1 DEF vars, SaveOthers, CacheExpires, Restart, PreparedInv
  <1>2. ASSUME NEW t \in Threads, AckPrepared(t)
        PROVE  PreparedInv'
    <2>1. PICK p \in Values :
            /\ prepared' = prepared \union {p}
            /\ saved' = IF p \in prepared THEN saved ELSE prepared'
            /\ history' = [NoteCall EXCEPT !.accepted = @ \union {p}]
      BY <1>2 DEF AckPrepared
    <2>2. history'.unsaved = history.unsaved /\ history'.accepted = history.accepted \union {p}
      BY <1>0, <2>1 DEF NoteCall, HistoryType
    <2> QED BY <2>1, <2>2 DEF PreparedInv
  <1>3. ASSUME NEW t \in Threads, AckUnsaved(t)
        PROVE  PreparedInv'
    <2>1. history'.unsaved
      BY <1>0, <1>3 DEF AckUnsaved, NoteCall, HistoryType
    <2> QED BY <2>1 DEF PreparedInv
  <1>4. ASSUME NEW t \in Threads,
               \/ Hello(t) \/ GetPolicy(t) \/ RejectPreparation(t) \/ PublishReport(t)
        PROVE  PreparedInv'
    <2>1. UNCHANGED <<prepared, saved>>
      BY <1>4 DEF Hello, GetPolicy, RejectPreparation, PublishReport
    <2>2. history'.unsaved = history.unsaved /\ history'.accepted = history.accepted
      BY <1>0, <1>4 DEF Hello, GetPolicy, RejectPreparation, PublishReport, NoteCall, HistoryType
    <2> QED BY <2>1, <2>2 DEF PreparedInv
  <1>5. ASSUME NEW t \in Threads,
               \/ Read(t) \/ Find(t) \/ FindNone(t) \/ Create(t) \/ RequestFails(t) \/ NoWork(t)
               \/ (\E u \in Threads : Assign(t, u)) \/ PatchFails(t) \/ PatchNothing(t)
        PROVE  PreparedInv'
    <2>1. UNCHANGED <<prepared, saved>>
      BY <1>5 DEF Read, Find, FindNone, Create, RequestFails, NoWork, Assign, PatchFails, PatchNothing
    <2>2. history'.unsaved = history.unsaved /\ history'.accepted = history.accepted
      BY <1>0, <1>5 DEF Read, Find, FindNone, Create, RequestFails, NoWork, Assign, PatchFails,
                        PatchNothing, HistoryType
    <2> QED BY <2>1, <2>2 DEF PreparedInv
  <1>6. ASSUME NEW t \in Threads, Patch(t)
        PROVE  PreparedInv'
    <2>1. UNCHANGED <<prepared, saved>>
      BY <1>6 DEF Patch
    <2>2. history'.unsaved = history.unsaved /\ history'.accepted = history.accepted
      BY <1>0, <1>6, PatchFacts, NoteWriteTyped
    <2> QED BY <2>1, <2>2 DEF PreparedInv
  <1> QED BY <1>1, <1>2, <1>3, <1>4, <1>5, <1>6, Actions, Zenon

(* Nothing but the RPCs with a reading thread sends a free thread to read.  *)
LEMMA ReadersBegin ==
  ASSUME Inv, [Next]_vars, NEW t \in Threads, thread[t].pc = "free", thread'[t].pc = "read"
  PROVE  RejectPreparation(t) \/ AckPrepared(t) \/ PublishReport(t)
  <1>0. TypeInv /\ thread \in [Threads -> ThreadType]
    BY DEF Inv, TypeInv
  <1>1. ~(UNCHANGED vars \/ SaveOthers \/ CacheExpires \/ Restart)
    BY FreeTyped DEF vars, SaveOthers, CacheExpires, Restart
  <1>2. ASSUME NEW u \in Threads,
               \/ Read(u) \/ Find(u) \/ FindNone(u) \/ Create(u) \/ RequestFails(u) \/ NoWork(u)
               \/ Patch(u) \/ PatchFails(u) \/ PatchNothing(u)
        PROVE  FALSE
    <2>1. thread[u].pc # "free"
      BY <1>2 DEF Read, Find, FindNone, Create, RequestFails, NoWork, Patch, PatchFails, PatchNothing
    <2>2. \E th : thread' = [thread EXCEPT ![u] = th]
      BY <1>2 DEF Read, Find, FindNone, Create, RequestFails, NoWork, Patch, PatchFails, PatchNothing, Step
    <2> QED BY <1>0, <2>1, <2>2
  <1>3. ASSUME NEW u \in Threads, NEW v \in Threads, Assign(u, v)
        PROVE  FALSE
    <2>1. /\ thread[u].pc = "select"
          /\ \E a, b : thread' = [thread EXCEPT ![u] = a, ![v] = [[thread[u] EXCEPT !.pc = "patch"] EXCEPT !.todo = b]]
      BY <1>3 DEF Assign
    <2>2. \A b : [[thread[u] EXCEPT !.pc = "patch"] EXCEPT !.todo = b].pc = "patch"
      BY <1>0 DEF ThreadType
    <2>3. t # u
      BY <2>1
    <2>4. thread'[t] = thread[t] \/ thread'[t].pc = "patch"
      BY <1>0, <2>1, <2>2, <2>3
    <2> QED BY <2>4
  <1>4. ASSUME NEW u \in Threads, AckUnsaved(u)
        PROVE  FALSE
    BY <1>4 DEF AckUnsaved
  <1>5. ASSUME NEW u \in Threads, Hello(u) \/ GetPolicy(u)
        PROVE  FALSE
    <2>1. PICK next : thread' = [thread EXCEPT ![u] = FromCache(next)] /\ "pc" \in DOMAIN next
      <3>1. CASE Hello(u)
        <4>1. PICK v \in Values :
                Begin(u, FromCache([Free EXCEPT !.rpc = "hello", !.value = v,
                                                !.todo = <<Presence(v), Write("ONLINE", {"hello"}, v)>>]))
          BY <3>1 DEF Hello
        <4> DEFINE next == [Free EXCEPT !.rpc = "hello", !.value = v,
                                        !.todo = <<Presence(v), Write("ONLINE", {"hello"}, v)>>]
        <4>2. "pc" \in DOMAIN next
          BY DEF Free
        <4> QED BY <4>1, <4>2 DEF Begin
      <3>2. CASE GetPolicy(u)
        <4>1. PICK v : Begin(u, FromCache([Free EXCEPT !.rpc = "policy", !.value = v]))
          BY <3>2 DEF GetPolicy
        <4> DEFINE next == [Free EXCEPT !.rpc = "policy", !.value = v]
        <4>2. "pc" \in DOMAIN next
          BY DEF Free
        <4> QED BY <4>1, <4>2 DEF Begin
      <3> QED BY <1>5, <3>1, <3>2
    <2>2. FromCache(next).pc \in {"find", "select", "patch"}
      BY <2>1 DEF FromCache
    <2>3. thread'[t] = thread[t] \/ thread'[t] = FromCache(next)
      BY <1>0, <2>1
    <2> QED BY <2>2, <2>3
  <1>6. ASSUME NEW u \in Threads, RejectPreparation(u) \/ AckPrepared(u) \/ PublishReport(u)
        PROVE  RejectPreparation(t) \/ AckPrepared(t) \/ PublishReport(t)
    <2>1. \E th : thread' = [thread EXCEPT ![u] = th]
      BY <1>6 DEF RejectPreparation, AckPrepared, PublishReport, Begin
    <2>2. u = t
      BY <1>0, <2>1
    <2> QED BY <1>6, <2>2
  <1> QED BY <1>1, <1>2, <1>3, <1>4, <1>5, <1>6, Actions

LEMMA RejectionStep ==
  ASSUME Inv, PreparedInv, [Next]_vars, NEW t \in Threads,
         thread[t].pc = "free", thread'[t].pc = "read", thread'[t].todo[1].state = "PREPARE_REJECTED"
  PROVE  thread'[t].todo[1].value \notin history.accepted \/ history.unsaved
  <1>0. thread \in [Threads -> ThreadType]
    BY DEF Inv, TypeInv
  <1>1. ASSUME NEW writes, Begin(t, Reading(writes))
        PROVE  thread'[t].todo = writes
    <2>1. Reading(writes).todo = writes
      BY DEF Reading, Free
    <2> QED BY <1>0, <1>1, <2>1 DEF Begin
  <1>2. CASE RejectPreparation(t)
    <2>1. PICK p \in Values \ prepared : Begin(t, Reading(<<Write("PREPARE_REJECTED", {"prepare"}, p)>>))
      BY <1>2 DEF RejectPreparation
    <2>2. thread'[t].todo[1].value = p
      BY <1>1, <2>1 DEF Write
    <2> QED BY <2>1, <2>2 DEF PreparedInv
  <1>3. CASE AckPrepared(t) \/ PublishReport(t)
    <2>1. CASE AckPrepared(t)
      <3>1. PICK p : Begin(t, Reading(<<Write("PREPARED", {"prepare"}, p)>>))
        BY <2>1 DEF AckPrepared
      <3>2. thread'[t].todo[1].state = "PREPARED"
        BY <1>1, <3>1 DEF Write
      <3> QED BY <3>2
    <2>2. CASE PublishReport(t)
      <3>1. PICK v, state :
              Begin(t, Reading(<<Write("REPORT_RECEIVED", {"report"}, v), Write(state, {"report"}, v)>>))
        BY <2>2 DEF PublishReport
      <3>2. thread'[t].todo[1].state = "REPORT_RECEIVED"
        BY <1>1, <3>1 DEF Write
      <3> QED BY <3>2
    <2> QED BY <1>3, <2>1, <2>2
  <1> QED BY <1>2, <1>3, ReadersBegin

(* A preparation that was accepted is not refused when its request is       *)
(* repeated, also after a restart, unless a write of state.json failed.     *)
THEOREM AcceptedIsNotRefused == Spec => AcceptedStaysAccepted
  <1>1. Init => PreparedInv
    BY DEF Init, PreparedInv
  <1>2. Inv /\ PreparedInv /\ [Next]_vars =>
          [\A t \in Threads :
             /\ thread[t].pc = "free" /\ thread'[t].pc = "read"
             /\ thread'[t].todo[1].state = "PREPARE_REJECTED"
             => thread'[t].todo[1].value \notin history.accepted \/ history.unsaved]_vars
    BY RejectionStep
  <1> QED BY <1>1, <1>2, Invariance, PreparedStep, PTL DEF Spec, AcceptedStaysAccepted
===============================================================================
