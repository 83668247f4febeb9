--------------------------- MODULE EventIngestProofs ---------------------------
(***************************************************************************)
(* Proofs about EventIngest, for any events, worker threads and faults: its *)
(* types, that the run events of a run are neither mixed nor, in turn, split*)
(* or counted twice, that what is acknowledged is reflected and settled, and*)
(* that it implements EventLedger.                                          *)
(***************************************************************************)
EXTENDS EventIngest, SequenceTheorems, FiniteSetTheorems, TLAPS

(* What the proofs use of the assumption.                                   *)
LEMMA Constants ==
  /\ IsFiniteSet(EventIds) /\ EventIds # {}
  /\ MaxEventIds \in Nat \ {0} /\ MaxEventHistory \in Nat \ {0}
  /\ Faults \subseteq FaultKinds /\ MaxFaults \in Nat /\ MaxCalls \in Nat
  BY IngestAssumption

LEMMA RunStates == \A e \in EventIds : Event[e].runState \in Status \union {""}
  BY IngestAssumption

(* Every action of Next by name, the case split of the proofs below.        *)
LEMMA Actions ==
  ASSUME Next
  PROVE  \/ Restart
         \/ \E h \in Handlers, e \in EventIds : Call(h, e)
         \/ \E h \in Handlers :
              \/ IgnoreDuplicate(h) \/ StartIngest(h) \/ LookupRun(h) \/ CreateRunEvent(h)
              \/ BindRunEvent(h) \/ GetRunEvent(h) \/ PatchRunEvent(h) \/ MarkEvent(h)
              \/ FinishIngest(h)
  BY Zenon DEF Next, Step

-------------------------------------------------------------------------------
(* The pure parts.                                                          *)

LEMMA Statuses ==
  /\ Status = {"PLANNED", "RUNNING", "COMPLETED", "PARTIAL", "FAILED"}
  /\ \A s \in Status : Severity[s] \in Nat
  <1>1. Status = {"PLANNED", "RUNNING", "COMPLETED", "PARTIAL", "FAILED"}
    BY DEF Status, Severity
  <1>2. /\ Severity["PLANNED"] \in Nat /\ Severity["RUNNING"] \in Nat /\ Severity["COMPLETED"] \in Nat
        /\ Severity["PARTIAL"] \in Nat /\ Severity["FAILED"] \in Nat
    BY DEF Severity
  <1> QED BY <1>1, <1>2

LEMMA StatusFromEventType == \A e \in EventIds : StatusFromEvent(Event[e]) \in Status
  BY Statuses, RunStates DEF StatusFromEvent

LEMMA MergeStatusFacts ==
  ASSUME NEW a \in Status, NEW b \in Status
  PROVE  /\ MergeStatus(a, b) \in Status
         /\ Severity[MergeStatus(a, b)] >= Severity[a]
         /\ Severity[MergeStatus(a, b)] >= Severity[b]
  BY Statuses DEF MergeStatus

(* The history t is s with e added: e stands last, the others moved down,   *)
(* and none is lost while there is room.                                    *)
Added(s, e, t) ==
  /\ t \in Seq(EventIds) /\ Len(t) \in 1 .. MaxEventHistory
  /\ Len(s) <= MaxEventHistory => Len(s) <= Len(t)
  /\ Len(t) < MaxEventHistory => Len(t) = Len(s) + 1
  /\ t[Len(t)] = e
  /\ \E d \in Nat :
       /\ Len(s) + 1 = Len(t) + d
       /\ \A j \in 1 .. Len(t) - 1 : j + d \in 1 .. Len(s) /\ t[j] = s[j + d]

LEMMA LastNFacts ==
  \A s \in Seq(EventIds), e \in EventIds : Added(s, e, LastN(Append(s, e), MaxEventHistory))
  <1> SUFFICES ASSUME NEW s \in Seq(EventIds), NEW e \in EventIds
               PROVE  Added(s, e, LastN(Append(s, e), MaxEventHistory))
    OBVIOUS
  <1> DEFINE t == LastN(Append(s, e), MaxEventHistory)
             a == Append(s, e)
             n == MaxEventHistory
  <1>1. n \in Nat \ {0} /\ Len(s) \in Nat /\ Len(a) = Len(s) + 1 /\ a \in Seq(EventIds)
    BY Constants
  <1>2. \A j \in 1 .. Len(a) : a[j] = IF j = Len(a) THEN e ELSE s[j]
    OBVIOUS
  <1>3. CASE Len(a) <= n
    <2>1. t = a
      BY <1>3 DEF LastN
    <2> HIDE DEF a, t
    <2>2. \A j \in 1 .. Len(t) - 1 : j + 0 \in 1 .. Len(s) /\ t[j] = s[j + 0]
      BY <1>1, <1>2, <2>1
    <2>3. Len(s) + 1 = Len(t) + 0 /\ t \in Seq(EventIds) /\ t[Len(t)] = e
      BY <1>1, <1>2, <2>1
    <2>4. /\ Len(t) \in 1 .. n
          /\ Len(s) <= n => Len(s) <= Len(t)
          /\ Len(t) < n => Len(t) = Len(s) + 1
      BY <1>1, <1>3, <2>1
    <2>5. \E d \in Nat :
            /\ Len(s) + 1 = Len(t) + d
            /\ \A j \in 1 .. Len(t) - 1 : j + d \in 1 .. Len(s) /\ t[j] = s[j + d]
      <3>1. 0 \in Nat
        OBVIOUS
      <3> QED BY Zenon, <2>2, <2>3, <3>1
    <2>6. Added(s, e, t)
      BY <2>3, <2>4, <2>5 DEF Added
    <2> QED BY <2>6 DEF t
  <1>4. CASE ~(Len(a) <= n)
    <2> DEFINE m == Len(a) - n + 1
    <2>1. t = SubSeq(a, m, Len(a))
      BY <1>4 DEF LastN
    <2>2. m \in 1 .. Len(a) /\ Len(a) - m + 1 = n
      BY <1>1, <1>4
    <2>3. \A i \in m .. Len(a) : a[i] \in EventIds
      BY <1>1, <1>2, <2>2
    <2> HIDE DEF a, m, t
    <2>4. t \in Seq(EventIds) /\ Len(t) = n /\ \A i \in 1 .. n : t[i] = a[m + i - 1]
      BY <1>1, <2>1, <2>2, <2>3, SubSeqProperties
    <2>5. m + n - 1 = Len(a) /\ Len(s) + 1 - n = m - 1 /\ m - 1 \in Nat
      BY <1>1, <1>4 DEF m
    <2>6. t[n] = e
      BY <1>1, <1>2, <2>4, <2>5
    <2>7. \A j \in 1 .. n - 1 : j + (m - 1) \in 1 .. Len(s) /\ t[j] = s[j + (m - 1)]
      <3> TAKE j \in 1 .. n - 1
      <3>1. j + (m - 1) \in 1 .. Len(s) /\ j + (m - 1) # Len(a) /\ j + (m - 1) = m + j - 1
        BY <1>1, <2>2, <2>5
      <3>2. t[j] = a[m + j - 1]
        BY <1>1, <2>2, <2>4
      <3> QED BY <1>1, <1>2, <3>1, <3>2
    <2>8. Len(s) + 1 = Len(t) + (m - 1)
      BY <1>1, <2>2, <2>4, <2>5
    <2>9. \A j \in 1 .. Len(t) - 1 : j + (m - 1) \in 1 .. Len(s) /\ t[j] = s[j + (m - 1)]
      BY <2>4, <2>7
    <2>10. \E d \in Nat :
             /\ Len(s) + 1 = Len(t) + d
             /\ \A j \in 1 .. Len(t) - 1 : j + d \in 1 .. Len(s) /\ t[j] = s[j + d]
      BY Zenon, <2>5, <2>8, <2>9
    <2>11. /\ Len(t) \in 1 .. n
           /\ Len(s) <= n => Len(s) <= Len(t)
           /\ Len(t) < n => Len(t) = Len(s) + 1
      BY <1>1, <2>4
    <2>12. Added(s, e, t)
      BY <2>4, <2>6, <2>10, <2>11 DEF Added
    <2> QED BY <2>12 DEF t
  <1> QED BY <1>3, <1>4

(* A finite set of times has a latest one: a smallest set without would     *)
(* have one after all.                                                      *)
LEMMA LatestExists ==
  ASSUME NEW D, IsFiniteSet(D), NEW f, \A x \in D : f[x] \in Nat
  PROVE  Max({0} \union {f[x] : x \in D}) \in Nat
  <1> DEFINE Times(T) == {0} \union {f[x] : x \in T}
             HasLatest(T) == \E n \in Times(T) : \A m \in Times(T) : n >= m
             Bad == {T \in FiniteSubsetsOf(D) : ~HasLatest(T)}
  <1>1. \A T \in SUBSET D : Times(T) \subseteq Nat
    OBVIOUS
  <1>2. ASSUME Bad # {} PROVE FALSE
    <2>1. PICK T \in Bad : \A U \in Bad : ~(<<U, T>> \in StrictSubsetOrdering(D))
      <3>1. Bad \subseteq FiniteSubsetsOf(D)
        OBVIOUS
      <3> HIDE DEF Bad
      <3> QED BY <1>2, <3>1, WFMin, FS_StrictSubsetOrderingWellFounded
    <2>2. T \in SUBSET D /\ IsFiniteSet(T) /\ ~HasLatest(T)
      BY DEF FiniteSubsetsOf
    <2>3. T # {}
      BY <2>2
    <2>4. PICK x \in T : TRUE
      BY <2>3
    <2> DEFINE U == T \ {x}
    <2>5. U \in FiniteSubsetsOf(D) /\ <<U, T>> \in StrictSubsetOrdering(D)
      BY <2>2, <2>4, FS_RemoveElement DEF FiniteSubsetsOf, StrictSubsetOrdering
    <2>6. HasLatest(U)
      BY <2>1, <2>5
    <2>7. PICK n \in Times(U) : \A m \in Times(U) : n >= m
      BY <2>6
    <2>8. Times(T) = Times(U) \union {f[x]}
      BY <2>4
    <2>9. n \in Nat /\ f[x] \in Nat
      BY <1>1, <2>2, <2>4
    <2>10. HasLatest(T)
      <3>1. CASE n >= f[x]
        BY <2>7, <2>8, <2>9, <3>1
      <3>2. CASE f[x] >= n
        <4>1. \A m \in Times(T) : f[x] >= m
          BY <1>1, <2>2, <2>7, <2>8, <2>9, <3>2
        <4> QED BY <2>8, <4>1
      <3> QED BY <2>9, <3>1, <3>2
    <2> QED BY <2>2, <2>10
  <1>3. D \in FiniteSubsetsOf(D)
    BY DEF FiniteSubsetsOf
  <1>4. HasLatest(D)
    BY <1>2, <1>3
  <1> HIDE DEF HasLatest
  <1>5. PICK n \in Times(D) : \A m \in Times(D) : n >= m
    BY <1>4 DEF HasLatest
  <1>6. Max(Times(D)) \in Times(D)
    <2> HIDE DEF Times
    <2> QED BY <1>5 DEF Max
  <1> QED BY <1>1, <1>6
-------------------------------------------------------------------------------
(* The types, and whose run event is whose: a run event, the table entry    *)
(* that refers to it, the thread that works on it and the events it holds   *)
(* have one run key.  The types alone are not inductive, because a PATCH    *)
(* writes what a thread read.                                               *)

Bound == {"bind", "get", "patch", "mark", "bindstatus"}

OwnEvents(ev) == \A j \in 1 .. Len(ev.events) : RunKey(ev.events[j]) = ev.run

SeenInv(s) == DOMAIN s \subseteq EventIds /\ \A e \in DOMAIN s : s[e] \in Nat

TableInv(table, evs) ==
  /\ table \in [RunKeys -> [id : 0 .. Len(evs), status : Status]]
  /\ \A k \in RunKeys : table[k].id # 0 => evs[table[k].id].run = k

ElabInv(evs) ==
  /\ evs \in Seq(RunEvent)
  /\ \A i \in 1 .. Len(evs) : OwnEvents(evs[i]) /\ Len(evs[i].events) <= MaxEventHistory

WorkerInv(w, evs) ==
  /\ w \in [pc : Pcs, event : EventIds, id : 0 .. Len(evs), snapshot : Snapshots, merged : Status]
  /\ w.pc \in Bound => w.id # 0 /\ evs[w.id].run = RunKey(w.event)
  /\ w.pc = "patch" => w.snapshot.run = RunKey(w.event) /\ OwnEvents(w.snapshot)

HandlerInv(hs, evs) == DOMAIN hs = Handlers /\ \A h \in Handlers : WorkerInv(hs[h], evs)

CounterInv ==
  /\ faults \in [number : 0 .. MaxFaults, kinds : SUBSET FaultKinds]
  /\ calls \in 0 .. MaxCalls
  /\ acked \subseteq EventIds /\ expired \subseteq EventIds /\ unsaved \subseteq EventIds
  /\ overlapped \subseteq RunKeys

Inv ==
  /\ SeenInv(seen) /\ SeenInv(disk.seen)
  /\ TableInv(runs, elab) /\ TableInv(disk.runs, elab)
  /\ ElabInv(elab)
  /\ handler = [h \in Handlers |-> handler[h]] /\ HandlerInv(handler, elab)
  /\ CounterInv

LEMMA BlankType == Blank \in Snapshots /\ OwnEvents(Blank)
  BY Statuses DEF Blank, Snapshots, OwnEvents

LEMMA IdleFacts == \A evs \in Seq(RunEvent) : WorkerInv(Idle, evs) /\ Idle.pc = "idle"
  <1> SUFFICES ASSUME NEW evs \in Seq(RunEvent) PROVE WorkerInv(Idle, evs) /\ Idle.pc = "idle"
    OBVIOUS
  <1>1. (CHOOSE e \in EventIds : TRUE) \in EventIds
    BY Constants
  <1>2. Idle \in [pc : Pcs, event : EventIds, id : 0 .. Len(evs), snapshot : Snapshots, merged : Status]
    BY <1>1, BlankType, Statuses DEF Idle, Pcs
  <1> QED BY <1>2 DEF WorkerInv, Idle, Bound

LEMMA RunKeyType == \A e \in EventIds : RunKey(e) \in RunKeys
  BY DEF RunKeys

LEMMA MergedFacts ==
  ASSUME NEW s \in Snapshots, NEW e \in EventIds
  PROVE  /\ Merged(s, e).run = s.run
         /\ Merged(s, e).status = MergeStatus(s.status, StatusFromEvent(Event[e]))
         /\ Merged(s, e).events = LastN(Append(s.events, e), MaxEventHistory)
         /\ Merged(s, e) \in Snapshots
         /\ s.run \in RunKeys => Merged(s, e) \in RunEvent
         /\ OwnEvents(s) /\ s.run = RunKey(e) => OwnEvents(Merged(s, e))
  <1> DEFINE t == LastN(Append(s.events, e), MaxEventHistory)
             st == MergeStatus(s.status, StatusFromEvent(Event[e]))
  <1>0. Merged(s, e) = [s EXCEPT !.status = st, !.events = t, !.total = s.total + 1]
    BY Zenon DEF Merged
  <1>1. Merged(s, e) = [run |-> s.run, status |-> st, events |-> t, total |-> s.total + 1]
    <2> HIDE DEF t, st
    <2> QED BY <1>0 DEF Snapshots
  <1>2. s.status \in Status /\ s.events \in Seq(EventIds) /\ s.total \in Nat /\ s.run \in RunKeys \union {<<>>}
    BY DEF Snapshots
  <1>3. st \in Status
    BY <1>2, StatusFromEventType, MergeStatusFacts
  <1> HIDE DEF st
  <1>4. Added(s.events, e, t)
    BY <1>2, LastNFacts
  <1> HIDE DEF t
  <1>5. ASSUME OwnEvents(s), s.run = RunKey(e) PROVE OwnEvents(Merged(s, e))
    <2>1. t \in Seq(EventIds) /\ Len(t) \in Nat /\ t[Len(t)] = e
      BY <1>4 DEF Added
    <2>2. PICK d \in Nat : \A j \in 1 .. Len(t) - 1 : j + d \in 1 .. Len(s.events) /\ t[j] = s.events[j + d]
      BY <1>4 DEF Added
    <2>3. ASSUME NEW j \in 1 .. Len(t) PROVE RunKey(t[j]) = s.run
      <3>1. CASE j = Len(t)
        BY <1>5, <2>1, <3>1
      <3>2. CASE j \in 1 .. Len(t) - 1
        BY <1>5, <2>2, <3>2 DEF OwnEvents
      <3> QED BY <2>1, <3>1, <3>2
    <2> QED BY <1>1, <2>3 DEF OwnEvents
  <1>6. Merged(s, e) \in Snapshots /\ (s.run \in RunKeys => Merged(s, e) \in RunEvent)
    BY <1>1, <1>2, <1>3, <1>4 DEF Snapshots, RunEvent, Added
  <1> QED BY <1>1, <1>5, <1>6 DEF t, st

LEMMA NewRunEventFacts ==
  ASSUME NEW e \in EventIds
  PROVE  /\ NewRunEvent(e) \in RunEvent /\ NewRunEvent(e).run = RunKey(e)
         /\ NewRunEvent(e).events = <<>> /\ OwnEvents(NewRunEvent(e))
  <1> DEFINE st == IF StatusFromEvent(Event[e]) = "PLANNED" THEN "PLANNED" ELSE "RUNNING"
  <1>1. st \in Status /\ RunKey(e) \in RunKeys
    BY Statuses, RunKeyType
  <1>2. NewRunEvent(e) = [Blank EXCEPT !.run = RunKey(e), !.status = st]
    BY Zenon DEF NewRunEvent
  <1> HIDE DEF st
  <1>3. NewRunEvent(e) = [run |-> RunKey(e), status |-> st, events |-> <<>>, total |-> 0]
    BY <1>2 DEF Blank
  <1> QED BY <1>1, <1>3 DEF RunEvent, OwnEvents

(* Run events are added and rewritten, but keep their run key.              *)
Grows(old, new) ==
  Len(new) >= Len(old) /\ \A i \in 1 .. Len(old) : new[i].run = old[i].run

LEMMA Widening ==
  ASSUME NEW old \in Seq(RunEvent), NEW new \in Seq(RunEvent), Grows(old, new)
  PROVE  /\ \A table : TableInv(table, old) => TableInv(table, new)
         /\ \A w : WorkerInv(w, old) => WorkerInv(w, new)
         /\ \A hs : HandlerInv(hs, old) => HandlerInv(hs, new)
  <1>1. Len(old) \in Nat /\ Len(new) \in Nat /\ Len(new) >= Len(old)
    BY DEF Grows
  <1>2. ASSUME NEW table, TableInv(table, old) PROVE TableInv(table, new)
    BY <1>1, <1>2 DEF Grows, TableInv
  <1>3. ASSUME NEW w, WorkerInv(w, old) PROVE WorkerInv(w, new)
    BY <1>1, <1>3 DEF Grows, WorkerInv
  <1>4. \A hs : HandlerInv(hs, old) => HandlerInv(hs, new)
    BY <1>3 DEF HandlerInv
  <1> QED BY <1>2, <1>3, <1>4

(* A worker thread does one step of its call, and it may write to eLabFTW,  *)
(* to the tables and to state.json.                                         *)
LEMMA InvStep ==
  ASSUME Inv, NEW h \in Handlers, NEW w, handler' = [handler EXCEPT ![h] = w],
         ElabInv(elab'), Grows(elab, elab'), WorkerInv(w, elab'),
         TableInv(runs', elab'), TableInv(disk'.runs, elab'),
         SeenInv(seen'), SeenInv(disk'.seen), CounterInv'
  PROVE  Inv'
  <1>1. HandlerInv(handler, elab')
    BY Widening DEF Inv, ElabInv
  <1>2. handler' = [g \in Handlers |-> IF g = h THEN w ELSE handler[g]]
    BY DEF Inv
  <1>3. HandlerInv(handler', elab')
    BY <1>1, <1>2 DEF HandlerInv
  <1> QED BY <1>2, <1>3 DEF Inv

LEMMA Unchanged ==
  /\ UNCHANGED elab => Grows(elab, elab')
  /\ Inv => /\ ElabInv(elab) /\ TableInv(runs, elab) /\ TableInv(disk.runs, elab)
            /\ SeenInv(seen) /\ SeenInv(disk.seen) /\ CounterInv
            /\ \A h \in Handlers : WorkerInv(handler[h], elab)
            /\ Idle.pc = "idle" /\ WorkerInv(Idle, elab)
  <1>1. UNCHANGED elab => Grows(elab, elab')
    <2> SUFFICES ASSUME UNCHANGED elab PROVE Len(elab') >= Len(elab)
      BY DEF Grows
    <2> QED BY DEF Grows
  <1>2. Inv => ElabInv(elab)
    BY DEF Inv
  <1> QED BY <1>1, <1>2, IdleFacts DEF Inv, HandlerInv, ElabInv

LEMMA FaultType ==
  ASSUME Inv, NEW kind, Fault(kind)
  PROVE  faults' \in [number : 0 .. MaxFaults, kinds : SUBSET FaultKinds]
  BY Constants DEF Inv, CounterInv, Fault

WorkerType(evs) ==
  [pc : Pcs, event : EventIds, id : 0 .. Len(evs), snapshot : Snapshots, merged : Status]

LEMMA InvRefused ==
  ASSUME Inv, NEW h \in Handlers, handler' = [handler EXCEPT ![h] = Idle],
         ElabInv(elab'), Grows(elab, elab'),
         TableInv(runs', elab'), TableInv(disk'.runs, elab'),
         SeenInv(seen'), SeenInv(disk'.seen), CounterInv'
  PROVE  Inv'
  BY InvStep, IdleFacts DEF ElabInv

LEMMA CallInv ==
  ASSUME Inv, NEW h \in Handlers, NEW e \in EventIds, Call(h, e)
  PROVE  Inv'
  <1> DEFINE w == [handler[h] EXCEPT !.pc = "check", !.event = e]
  <1>1. handler' = [handler EXCEPT ![h] = w] /\ UNCHANGED <<seen, runs, disk, elab>>
    BY DEF Call, localState
  <1>2. WorkerInv(w, elab)
    <2>1. handler[h] \in WorkerType(elab)
      BY Unchanged DEF WorkerInv, WorkerType
    <2>2. w \in WorkerType(elab) /\ w.pc = "check"
      BY <2>1 DEF WorkerType, Pcs
    <2> HIDE DEF w
    <2> QED BY <2>2 DEF WorkerInv, WorkerType, Bound
  <1>3. CounterInv'
    BY Constants, RunKeyType DEF Call, Inv, CounterInv, localState
  <1> HIDE DEF w
  <1> QED BY <1>1, <1>2, <1>3, Unchanged, InvStep

LEMMA IgnoreDuplicateInv ==
  ASSUME Inv, NEW h \in Handlers, IgnoreDuplicate(h)
  PROVE  Inv'
  <1>1. CounterInv'
    BY Unchanged DEF IgnoreDuplicate, Ack, Inv, CounterInv, localState, WorkerInv
  <1> QED BY <1>1, Unchanged, InvRefused DEF IgnoreDuplicate, Ack, localState

LEMMA StartIngestInv ==
  ASSUME Inv, NEW h \in Handlers, StartIngest(h)
  PROVE  Inv'
  <1> DEFINE w == [handler[h] EXCEPT !.pc = "lookup"]
  <1>1. handler' = [handler EXCEPT ![h] = w] /\ UNCHANGED <<seen, runs, disk, elab>>
    BY DEF StartIngest, Goto, localState
  <1>2. WorkerInv(w, elab)
    <2>1. handler[h] \in WorkerType(elab)
      BY Unchanged DEF WorkerInv, WorkerType
    <2>2. w \in WorkerType(elab) /\ w.pc = "lookup"
      BY <2>1 DEF WorkerType, Pcs
    <2> HIDE DEF w
    <2> QED BY <2>2 DEF WorkerInv, WorkerType, Bound
  <1>3. CounterInv'
    BY DEF StartIngest, Inv, CounterInv, localState
  <1> HIDE DEF w
  <1> QED BY <1>1, <1>2, <1>3, Unchanged, InvStep

LEMMA LookupRunInv ==
  ASSUME Inv, NEW h \in Handlers, LookupRun(h)
  PROVE  Inv'
  <1> DEFINE k == RunKey(handler[h].event)
  <1>1. UNCHANGED <<seen, runs, disk, elab, calls, overlapped, expired, unsaved>>
    BY DEF LookupRun, localState
  <1>2. handler[h] \in WorkerType(elab) /\ k \in RunKeys
    BY Unchanged, RunKeyType DEF WorkerInv, WorkerType
  <1>3. CASE /\ runs[k].id # 0 /\ UNCHANGED <<faults, acked>>
             /\ handler' = [handler EXCEPT ![h].pc = "get", ![h].id = runs[k].id]
    <2> DEFINE w == [handler[h] EXCEPT !.pc = "get", !.id = runs[k].id]
    <2>1. handler' = [handler EXCEPT ![h] = w]
      BY <1>3
    <2>2. runs[k].id \in 0 .. Len(elab) /\ elab[runs[k].id].run = k
      BY <1>2, <1>3, Unchanged DEF TableInv
    <2>3. w \in WorkerType(elab) /\ w.pc = "get" /\ w.id = runs[k].id /\ w.event = handler[h].event
      BY <1>2, <2>2 DEF WorkerType, Pcs
    <2> HIDE DEF w
    <2>4. WorkerInv(w, elab)
      BY <1>3, <2>2, <2>3 DEF WorkerInv, WorkerType
    <2>5. CounterInv'
      BY <1>1, <1>3 DEF Inv, CounterInv
    <2> QED BY <1>1, <2>1, <2>4, <2>5, Unchanged, InvStep
  <1>4. CASE Goto(h, "create") /\ UNCHANGED <<faults, acked>>
    <2> DEFINE w == [handler[h] EXCEPT !.pc = "create"]
    <2>1. handler' = [handler EXCEPT ![h] = w]
      BY <1>4 DEF Goto
    <2>2. w \in WorkerType(elab) /\ w.pc = "create"
      BY <1>2 DEF WorkerType, Pcs
    <2> HIDE DEF w
    <2>3. WorkerInv(w, elab)
      BY <2>2 DEF WorkerInv, WorkerType, Bound
    <2>4. CounterInv'
      BY <1>1, <1>4 DEF Inv, CounterInv
    <2> QED BY <1>1, <2>1, <2>3, <2>4, Unchanged, InvStep
  <1>5. CASE Fault("elab") /\ Nack(h)
    <2>1. CounterInv'
      BY <1>1, <1>5, FaultType DEF Inv, CounterInv, Nack
    <2> QED BY <1>1, <1>5, <2>1, Unchanged, InvRefused DEF Nack
  <1> QED BY <1>3, <1>4, <1>5 DEF LookupRun

(* What eLabFTW stores for a POST, and for a PATCH of run event i.          *)
LEMMA CreatedFacts ==
  ASSUME NEW evs, ElabInv(evs), NEW e \in EventIds
  PROVE  LET created == Append(evs, NewRunEvent(e)) IN
         /\ ElabInv(created) /\ Grows(evs, created)
         /\ Len(created) = Len(evs) + 1 /\ created[Len(created)] = NewRunEvent(e)
         /\ \A i \in 1 .. Len(evs) : created[i] = evs[i]
  <1> DEFINE n == NewRunEvent(e)
             created == Append(evs, n)
  <1>1. n \in RunEvent /\ OwnEvents(n) /\ n.events = <<>>
    BY NewRunEventFacts
  <1> HIDE DEF n
  <1>2. evs \in Seq(RunEvent) /\ Len(evs) \in Nat
    BY DEF ElabInv
  <1>3. /\ created \in Seq(RunEvent) /\ Len(created) = Len(evs) + 1 /\ created[Len(created)] = n
        /\ \A i \in 1 .. Len(evs) : created[i] = evs[i]
    BY <1>1, <1>2
  <1>4. Len(n.events) = 0 /\ MaxEventHistory \in Nat
    BY <1>1, Constants
  <1> HIDE DEF created
  <1>5. ASSUME NEW i \in 1 .. Len(created)
        PROVE  OwnEvents(created[i]) /\ Len(created[i].events) <= MaxEventHistory
    <2>1. CASE i = Len(created)
      BY <1>1, <1>3, <1>4, <2>1
    <2>2. CASE i \in 1 .. Len(evs)
      BY <1>3, <2>2 DEF ElabInv
    <2> QED BY <1>2, <1>3, <2>1, <2>2
  <1>6. ElabInv(created) /\ Grows(evs, created)
    BY <1>2, <1>3, <1>5 DEF ElabInv, Grows
  <1> QED BY <1>3, <1>6 DEF created, n

LEMMA PatchedFacts ==
  ASSUME NEW evs, ElabInv(evs), NEW i \in 1 .. Len(evs), NEW new \in RunEvent,
         new.run = evs[i].run, OwnEvents(new), Len(new.events) <= MaxEventHistory
  PROVE  LET patched == [evs EXCEPT ![i] = new] IN
         /\ ElabInv(patched) /\ Grows(evs, patched)
         /\ Len(patched) = Len(evs) /\ patched[i] = new
         /\ \A j \in 1 .. Len(evs) : j # i => patched[j] = evs[j]
  <1> DEFINE patched == [evs EXCEPT ![i] = new]
  <1>1. evs \in Seq(RunEvent) /\ Len(evs) \in Nat
    BY DEF ElabInv
  <1>2. /\ patched \in Seq(RunEvent) /\ Len(patched) = Len(evs) /\ patched[i] = new
        /\ \A j \in 1 .. Len(evs) : j # i => patched[j] = evs[j]
    BY <1>1
  <1> HIDE DEF patched
  <1>3. ElabInv(patched)
    BY <1>2 DEF ElabInv
  <1>4. Grows(evs, patched)
    BY <1>1, <1>2 DEF Grows
  <1> QED BY <1>2, <1>3, <1>4 DEF patched

LEMMA CreateRunEventInv ==
  ASSUME Inv, NEW h \in Handlers, CreateRunEvent(h)
  PROVE  Inv'
  <1> DEFINE new == NewRunEvent(handler[h].event)
             created == Append(elab, new)
  <1>1. UNCHANGED <<seen, runs, disk, calls, overlapped, expired, unsaved>>
    BY DEF CreateRunEvent, localState
  <1>2. handler[h] \in WorkerType(elab) /\ ElabInv(elab) /\ elab \in Seq(RunEvent) /\ Len(elab) \in Nat
    BY Unchanged DEF WorkerInv, WorkerType, ElabInv
  <1>3. handler[h].event \in EventIds
    BY <1>2 DEF WorkerType
  <1>4. /\ ElabInv(created) /\ Grows(elab, created)
        /\ Len(created) = Len(elab) + 1 /\ created[Len(created)] = new
    BY <1>2, <1>3, CreatedFacts
  <1>5. new.run = RunKey(handler[h].event)
    BY <1>3, NewRunEventFacts
  <1>6. CASE /\ elab' = created /\ UNCHANGED <<faults, acked>>
             /\ handler' = [handler EXCEPT ![h].pc = "bind", ![h].id = Len(created)]
    <2> HIDE DEF created, new
    <2> DEFINE w == [handler[h] EXCEPT !.pc = "bind", !.id = Len(created)]
    <2>1. handler' = [handler EXCEPT ![h] = w]
      BY <1>6
    <2>2. w \in WorkerType(created) /\ w.pc = "bind" /\ w.id = Len(created) /\ w.event = handler[h].event
      <3> DEFINE n == Len(created)
      <3>1. n \in 0 .. n
        BY <1>2, <1>4
      <3> HIDE DEF n
      <3> QED BY <1>2, <3>1 DEF WorkerType, Pcs, n
    <2> HIDE DEF w
    <2>3. WorkerInv(w, created)
      BY <1>2, <1>4, <1>5, <2>2 DEF WorkerInv, WorkerType
    <2>4. CounterInv'
      BY <1>1, <1>6 DEF Inv, CounterInv
    <2>5. TableInv(runs, created) /\ TableInv(disk.runs, created)
      BY <1>2, <1>4, Widening, Unchanged DEF ElabInv
    <2> QED BY <1>1, <1>4, <1>6, <2>1, <2>3, <2>4, <2>5, Unchanged, InvStep
  <1>7. CASE /\ Fault("elab")
             /\ elab' \in {elab, created}
             /\ \/ \E pc \in NextPosts(handler[h].pc) : Goto(h, pc) /\ acked' = acked
                \/ Nack(h)
    <2> HIDE DEF created
    <2>1. ElabInv(elab') /\ Grows(elab, elab') /\ elab' \in Seq(RunEvent) /\ acked' = acked
      BY <1>2, <1>4, <1>7, Unchanged DEF ElabInv, Nack
    <2>2. CounterInv'
      BY <1>1, <1>7, <2>1, FaultType DEF Inv, CounterInv
    <2>3. TableInv(runs, elab') /\ TableInv(disk.runs, elab')
      BY <1>2, <2>1, Widening, Unchanged
    <2>4. ASSUME NEW pc \in NextPosts(handler[h].pc), Goto(h, pc) PROVE Inv'
      <3>0. pc \in Posts
        BY DEF NextPosts, Posts
      <3> DEFINE w == [handler[h] EXCEPT !.pc = pc]
      <3>1. handler' = [handler EXCEPT ![h] = w]
        BY <2>4 DEF Goto
      <3>2. w \in WorkerType(elab) /\ w.pc \in Posts
        BY <1>2, <3>0 DEF WorkerType, Pcs, Posts
      <3> HIDE DEF w
      <3>3. WorkerInv(w, elab)
        BY <3>2 DEF WorkerInv, WorkerType, Bound, Posts
      <3>4. WorkerInv(w, elab')
        BY <1>2, <2>1, <3>3, Widening
      <3> QED BY <1>1, <2>1, <2>2, <2>3, <3>1, <3>4, Unchanged, InvStep
    <2>5. CASE Nack(h)
      BY <1>1, <2>1, <2>2, <2>3, <2>5, Unchanged, InvRefused DEF Nack
    <2> QED BY <1>7, <2>4, <2>5
  <1> QED BY <1>6, <1>7 DEF CreateRunEvent

LEMMA TableFacts ==
  ASSUME NEW table, NEW evs \in Seq(RunEvent), TableInv(table, evs),
         NEW k \in RunKeys, NEW i \in 1 .. Len(evs), evs[i].run = k, NEW st \in Status
  PROVE  TableInv([table EXCEPT ![k] = [id |-> i, status |-> st]], evs)
  <1> DEFINE t == [table EXCEPT ![k] = [id |-> i, status |-> st]]
  <1>1. t \in [RunKeys -> [id : 0 .. Len(evs), status : Status]]
    BY DEF TableInv
  <1>2. t[k].id = i /\ \A l \in RunKeys : l # k => t[l] = table[l]
    BY DEF TableInv
  <1> HIDE DEF t
  <1>3. TableInv(t, evs)
    BY <1>1, <1>2 DEF TableInv
  <1> QED BY <1>3 DEF t

LEMMA PrunedFacts ==
  ASSUME NEW s, NEW t \in Pruned(s)
  PROVE  DOMAIN t \subseteq DOMAIN s /\ \A e \in DOMAIN t : t[e] = s[e]
  <1>1. CASE t = s
    BY <1>1
  <1>2. CASE \E K \in SUBSET DOMAIN s : t = [e \in K |-> s[e]]
    BY <1>2
  <1> QED BY <1>1, <1>2 DEF Pruned

LEMMA BindRunEventInv ==
  ASSUME Inv, NEW h \in Handlers, BindRunEvent(h)
  PROVE  Inv'
  <1> DEFINE k == RunKey(handler[h].event)
             st == Incoming(h)
  <1>1. UNCHANGED <<seen, elab, calls, overlapped, expired>>
    BY DEF BindRunEvent
  <1>2. /\ WorkerInv(handler[h], elab) /\ handler[h] \in WorkerType(elab) /\ handler[h].pc = "bind"
        /\ elab \in Seq(RunEvent) /\ Len(elab) \in Nat
    BY Unchanged DEF WorkerInv, WorkerType, ElabInv, BindRunEvent, At
  <1>3. k \in RunKeys /\ handler[h].id \in 1 .. Len(elab) /\ elab[handler[h].id].run = k
    BY <1>2, RunKeyType DEF WorkerInv, WorkerType, Bound
  <1>4. st \in Status
    BY <1>2, StatusFromEventType DEF Incoming, WorkerType
  <1>5. runs' = [runs EXCEPT ![k] = [id |-> handler[h].id, status |-> st]]
    BY DEF BindRunEvent, SetRunEventId
  <1> HIDE DEF k, st
  <1>6. TableInv(runs', elab)
    BY <1>2, <1>3, <1>4, <1>5, TableFacts, Unchanged
  <1>7. CASE /\ disk' = [seen |-> seen', runs |-> runs']
             /\ Goto(h, "get") /\ UNCHANGED <<acked, faults, unsaved>>
    <2> DEFINE w == [handler[h] EXCEPT !.pc = "get"]
    <2>1. handler' = [handler EXCEPT ![h] = w]
      BY <1>7 DEF Goto
    <2>2. w \in WorkerType(elab) /\ w.pc = "get" /\ w.id = handler[h].id /\ w.event = handler[h].event
      BY <1>2 DEF WorkerType, Pcs
    <2> HIDE DEF w
    <2>3. WorkerInv(w, elab)
      BY <1>3, <2>2 DEF WorkerInv, WorkerType, k
    <2>4. CounterInv'
      BY <1>1, <1>7 DEF Inv, CounterInv
    <2>5. disk'.seen = seen' /\ disk'.runs = runs'
      BY <1>7
    <2> QED BY <1>1, <1>6, <2>1, <2>3, <2>4, <2>5, Unchanged, InvStep
  <1>8. CASE /\ Fault("save") /\ disk' = disk /\ Nack(h)
             /\ unsaved' = unsaved \union (DOMAIN seen' \ DOMAIN disk.seen)
    <2>1. CounterInv'
      BY <1>1, <1>8, FaultType DEF Inv, CounterInv, Nack, SeenInv
    <2> QED BY <1>1, <1>6, <1>8, <2>1, Unchanged, InvRefused DEF Nack
  <1> QED BY <1>7, <1>8 DEF BindRunEvent, SaveThen

(* What a thread reads of the run event it updates, with or without its     *)
(* metadata.                                                                *)
LEMMA ReadFacts ==
  ASSUME ElabInv(elab), NEW h \in Handlers, WorkerInv(handler[h], elab), handler[h].pc = "get",
         NEW s \in {elab[handler[h].id], Bare(elab[handler[h].id])}
  PROVE  /\ handler[h].id \in 1 .. Len(elab) /\ s.run = RunKey(handler[h].event)
         /\ s \in RunEvent /\ OwnEvents(s)
  <1> DEFINE r == elab[handler[h].id]
  <1>1. handler[h].id \in 1 .. Len(elab) /\ r.run = RunKey(handler[h].event)
    BY DEF WorkerInv, Bound
  <1>2. r \in RunEvent /\ OwnEvents(r)
    BY <1>1 DEF ElabInv
  <1> HIDE DEF r
  <1>3. /\ Bare(r) = [run |-> r.run, status |-> "PLANNED", events |-> <<>>, total |-> 0]
        /\ "PLANNED" \in Status
    BY Statuses DEF Bare, Blank
  <1>4. Bare(r).run = r.run /\ Bare(r) \in RunEvent /\ OwnEvents(Bare(r))
    BY <1>2, <1>3 DEF RunEvent, OwnEvents
  <1> QED BY <1>1, <1>2, <1>4 DEF r

LEMMA GetRunEventInv ==
  ASSUME Inv, NEW h \in Handlers, GetRunEvent(h)
  PROVE  Inv'
  <1>1. UNCHANGED <<seen, runs, disk, elab, calls, overlapped, expired, unsaved>>
    BY DEF GetRunEvent, localState
  <1>2. /\ WorkerInv(handler[h], elab) /\ handler[h] \in WorkerType(elab) /\ handler[h].pc = "get"
        /\ ElabInv(elab)
    BY Unchanged DEF WorkerInv, WorkerType, GetRunEvent, At
  <1>3. ASSUME NEW s \in {elab[handler[h].id], Bare(elab[handler[h].id])}, Reads(h, s),
               faults' = faults \/ Fault("blank"), UNCHANGED acked
        PROVE  Inv'
    <2>1. /\ handler[h].id \in 1 .. Len(elab) /\ s.run = RunKey(handler[h].event)
          /\ s \in RunEvent /\ OwnEvents(s)
      BY <1>2, ReadFacts
    <2>2. s \in Snapshots
      BY <2>1 DEF RunEvent, Snapshots
    <2> DEFINE w == [handler[h] EXCEPT !.pc = "patch", !.snapshot = s]
    <2>4. handler' = [handler EXCEPT ![h] = w]
      BY <1>3 DEF Reads
    <2>5. /\ w \in WorkerType(elab) /\ w.pc = "patch" /\ w.id = handler[h].id
          /\ w.event = handler[h].event /\ w.snapshot = s
      BY <1>2, <2>2 DEF WorkerType, Pcs
    <2> HIDE DEF w
    <2>6. WorkerInv(w, elab)
      BY <1>2, <2>1, <2>5 DEF WorkerInv, WorkerType, Bound
    <2>7. CounterInv'
      BY <1>1, <1>3, FaultType DEF Inv, CounterInv
    <2> QED BY <1>1, <2>4, <2>6, <2>7, Unchanged, InvStep
  <1>4. CASE Fault("elab") /\ Nack(h)
    <2>1. CounterInv'
      BY <1>1, <1>4, FaultType DEF Inv, CounterInv, Nack
    <2> QED BY <1>1, <1>4, <2>1, Unchanged, InvRefused DEF Nack
  <1> QED BY <1>3, <1>4 DEF GetRunEvent

(* What a thread is about to PATCH, and what the PATCH leaves in eLabFTW.   *)
LEMMA PatchFacts ==
  ASSUME Inv, NEW h \in Handlers, handler[h].pc = "patch"
  PROVE  LET w == handler[h]
             merged == Merged(w.snapshot, w.event)
             patched == [elab EXCEPT ![w.id] = merged]
         IN /\ w.event \in EventIds /\ w.snapshot \in Snapshots /\ w.id \in 1 .. Len(elab)
            /\ merged \in RunEvent /\ merged.run = RunKey(w.event)
            /\ elab[w.id].run = RunKey(w.event) /\ OwnEvents(merged)
            /\ merged.status = MergeStatus(w.snapshot.status, StatusFromEvent(Event[w.event]))
            /\ Added(w.snapshot.events, w.event, merged.events)
            /\ ElabInv(patched) /\ Grows(elab, patched) /\ Len(patched) = Len(elab)
            /\ patched[w.id] = merged /\ \A j \in 1 .. Len(elab) : j # w.id => patched[j] = elab[j]
  <1> DEFINE s == handler[h].snapshot
             e == handler[h].event
             i == handler[h].id
             merged == Merged(s, e)
  <1>1. WorkerInv(handler[h], elab) /\ ElabInv(elab)
    BY Unchanged
  <1>2. /\ e \in EventIds /\ s \in Snapshots /\ i \in 1 .. Len(elab)
        /\ elab[i].run = RunKey(e) /\ s.run = RunKey(e) /\ OwnEvents(s)
    BY <1>1 DEF WorkerInv, Bound
  <1>3. RunKey(e) \in RunKeys
    BY <1>2, RunKeyType
  <1>4. /\ merged \in RunEvent /\ merged.run = RunKey(e) /\ OwnEvents(merged)
        /\ merged.events = LastN(Append(s.events, e), MaxEventHistory)
        /\ merged.status = MergeStatus(s.status, StatusFromEvent(Event[e]))
    BY <1>2, <1>3, MergedFacts
  <1>5. s.events \in Seq(EventIds)
    BY <1>2 DEF Snapshots
  <1> HIDE DEF merged, s, e, i
  <1>6. Added(s.events, e, merged.events)
    BY <1>2, <1>4, <1>5, LastNFacts
  <1>7. Len(merged.events) <= MaxEventHistory
    BY <1>6, Constants DEF Added
  <1> DEFINE patched == [elab EXCEPT ![i] = merged]
  <1>8. /\ ElabInv(patched) /\ Grows(elab, patched) /\ Len(patched) = Len(elab)
        /\ patched[i] = merged /\ \A j \in 1 .. Len(elab) : j # i => patched[j] = elab[j]
    BY <1>1, <1>2, <1>4, <1>7, PatchedFacts
  <1> QED BY <1>2, <1>4, <1>6, <1>8 DEF merged, s, e, i

LEMMA PatchRunEventInv ==
  ASSUME Inv, NEW h \in Handlers, PatchRunEvent(h)
  PROVE  Inv'
  <1> DEFINE merged == Merged(handler[h].snapshot, handler[h].event)
             patched == [elab EXCEPT ![handler[h].id] = merged]
  <1>1. /\ UNCHANGED <<seen, runs, disk, calls, overlapped, acked, expired, unsaved>>
        /\ handler[h].pc = "patch"
        /\ handler' = [handler EXCEPT ![h].pc = "mark", ![h].merged = merged.status, ![h].snapshot = Blank]
        /\ \/ elab' = patched /\ faults' = faults
           \/ Fault("patch") /\ elab' = elab
    BY DEF PatchRunEvent, localState, At
  <1>2. /\ WorkerInv(handler[h], elab) /\ handler[h] \in WorkerType(elab)
        /\ ElabInv(elab) /\ elab \in Seq(RunEvent)
    BY Unchanged DEF WorkerInv, WorkerType, ElabInv
  <1>3. ElabInv(patched) /\ Grows(elab, patched) /\ merged \in RunEvent
    BY <1>1, PatchFacts
  <1> HIDE DEF patched, merged
  <1>4. ElabInv(elab') /\ Grows(elab, elab') /\ elab' \in Seq(RunEvent)
    BY <1>1, <1>2, <1>3, Unchanged DEF ElabInv
  <1> DEFINE w == [handler[h] EXCEPT !.pc = "mark", !.merged = merged.status, !.snapshot = Blank]
  <1>5. handler' = [handler EXCEPT ![h] = w]
    BY <1>1
  <1>6. merged.status \in Status
    BY <1>3 DEF RunEvent
  <1>7. w \in WorkerType(elab) /\ w.pc = "mark" /\ w.id = handler[h].id /\ w.event = handler[h].event
    BY <1>2, <1>6, BlankType DEF WorkerType, Pcs
  <1> HIDE DEF w
  <1>8. WorkerInv(w, elab)
    BY <1>1, <1>2, <1>7 DEF WorkerInv, WorkerType, Bound
  <1>9. WorkerInv(w, elab') /\ TableInv(runs, elab') /\ TableInv(disk.runs, elab')
    BY <1>2, <1>4, <1>8, Widening, Unchanged
  <1>10. CounterInv'
    BY <1>1, FaultType DEF Inv, CounterInv
  <1> QED BY <1>1, <1>4, <1>5, <1>9, <1>10, Unchanged, InvStep

(* A mark adds the event to the table, of which pruning leaves a part.      *)
LEMMA MarkFacts ==
  ASSUME Inv, NEW h \in Handlers, MarkEvent(h)
  PROVE  /\ SeenInv(seen')
         /\ DOMAIN seen' \subseteq DOMAIN seen \union {handler[h].event}
         /\ expired' = expired \union ((DOMAIN seen \union {handler[h].event}) \ DOMAIN seen')
  <1> DEFINE e == handler[h].event
             newest == Max({0} \union {seen[x] : x \in DOMAIN seen})
  <1>1. PICK now \in {newest, newest + 1} :
          LET marked == [x \in DOMAIN seen \union {e} |-> IF x = e THEN now ELSE seen[x]] IN
          \E kept \in Pruned(marked) :
            seen' = kept /\ expired' = expired \union (DOMAIN marked \ DOMAIN kept)
    BY DEF MarkEvent
  <1>2. e \in EventIds /\ SeenInv(seen)
    BY Unchanged DEF WorkerInv
  <1>3. newest \in Nat
    <2>1. DOMAIN seen \subseteq EventIds /\ \A x \in DOMAIN seen : seen[x] \in Nat
      BY <1>2 DEF SeenInv
    <2>2. IsFiniteSet(DOMAIN seen)
      BY <2>1, Constants, FS_Subset
    <2> QED BY Zenon, <2>1, <2>2, LatestExists
  <1> HIDE DEF newest
  <1> DEFINE marked == [x \in DOMAIN seen \union {e} |-> IF x = e THEN now ELSE seen[x]]
  <1>4. DOMAIN marked = DOMAIN seen \union {e} /\ \A x \in DOMAIN marked : x \in EventIds /\ marked[x] \in Nat
    BY <1>2, <1>3 DEF SeenInv
  <1> HIDE DEF marked
  <1>5. seen' \in Pruned(marked) /\ expired' = expired \union (DOMAIN marked \ DOMAIN seen')
    BY <1>1 DEF marked
  <1>6. DOMAIN seen' \subseteq DOMAIN marked /\ \A x \in DOMAIN seen' : seen'[x] = marked[x]
    BY <1>5, PrunedFacts
  <1> QED BY <1>4, <1>5, <1>6 DEF SeenInv

LEMMA MarkEventInv ==
  ASSUME Inv, NEW h \in Handlers, MarkEvent(h)
  PROVE  Inv'
  <1>1. UNCHANGED <<runs, elab, calls, overlapped>> /\ handler[h].pc = "mark"
    BY DEF MarkEvent, At
  <1>2. WorkerInv(handler[h], elab) /\ handler[h] \in WorkerType(elab) /\ handler[h].event \in EventIds
    BY Unchanged DEF WorkerInv, WorkerType
  <1>3. SeenInv(seen') /\ expired' \subseteq EventIds /\ DOMAIN seen' \subseteq EventIds
    BY <1>2, MarkFacts DEF Inv, CounterInv, SeenInv
  <1>4. CASE /\ disk' = [seen |-> seen', runs |-> runs']
             /\ Goto(h, "bindstatus") /\ UNCHANGED <<acked, faults, unsaved>>
    <2> DEFINE w == [handler[h] EXCEPT !.pc = "bindstatus"]
    <2>1. handler' = [handler EXCEPT ![h] = w]
      BY <1>4 DEF Goto
    <2>2. w \in WorkerType(elab) /\ w.pc = "bindstatus" /\ w.id = handler[h].id /\ w.event = handler[h].event
      BY <1>2 DEF WorkerType, Pcs
    <2> HIDE DEF w
    <2>3. WorkerInv(w, elab)
      BY <1>1, <1>2, <2>2 DEF WorkerInv, WorkerType, Bound
    <2>4. CounterInv'
      BY <1>1, <1>3, <1>4 DEF Inv, CounterInv
    <2>5. disk'.seen = seen' /\ disk'.runs = runs'
      BY <1>4
    <2> QED BY <1>1, <1>3, <2>1, <2>3, <2>4, <2>5, Unchanged, InvStep
  <1>5. CASE /\ Fault("save") /\ disk' = disk /\ Nack(h)
             /\ unsaved' = unsaved \union (DOMAIN seen' \ DOMAIN disk.seen)
    <2>1. CounterInv'
      BY <1>1, <1>3, <1>5, FaultType DEF Inv, CounterInv, Nack
    <2> QED BY <1>1, <1>3, <1>5, <2>1, Unchanged, InvRefused DEF Nack
  <1> QED BY <1>4, <1>5 DEF MarkEvent, SaveThen

LEMMA FinishIngestInv ==
  ASSUME Inv, NEW h \in Handlers, FinishIngest(h)
  PROVE  Inv'
  <1> DEFINE k == RunKey(handler[h].event)
  <1>1. UNCHANGED <<seen, elab, calls, overlapped, expired>> /\ handler[h].pc = "bindstatus"
    BY DEF FinishIngest, At
  <1>2. /\ WorkerInv(handler[h], elab) /\ elab \in Seq(RunEvent)
        /\ handler[h].event \in EventIds /\ handler[h].merged \in Status
    BY Unchanged DEF WorkerInv, ElabInv
  <1>3. k \in RunKeys /\ handler[h].id \in 1 .. Len(elab) /\ elab[handler[h].id].run = k
    BY <1>1, <1>2, RunKeyType DEF WorkerInv, Bound
  <1>4. runs' = [runs EXCEPT ![k] = [id |-> handler[h].id, status |-> handler[h].merged]]
    BY DEF FinishIngest, SetRunEventId
  <1> HIDE DEF k
  <1>5. TableInv(runs', elab)
    BY <1>2, <1>3, <1>4, TableFacts, Unchanged
  <1>6. CASE /\ disk' = [seen |-> seen', runs |-> runs']
             /\ Ack(h) /\ UNCHANGED <<faults, unsaved>>
    <2>1. CounterInv'
      BY <1>1, <1>2, <1>6 DEF Inv, CounterInv, Ack
    <2>2. disk'.seen = seen' /\ disk'.runs = runs'
      BY <1>6
    <2> QED BY <1>1, <1>5, <1>6, <2>1, <2>2, Unchanged, InvRefused DEF Ack
  <1>7. CASE /\ Fault("save") /\ disk' = disk /\ Nack(h)
             /\ unsaved' = unsaved \union (DOMAIN seen' \ DOMAIN disk.seen)
    <2>1. CounterInv'
      BY <1>1, <1>7, FaultType DEF Inv, CounterInv, Nack, SeenInv
    <2> QED BY <1>1, <1>5, <1>7, <2>1, Unchanged, InvRefused DEF Nack
  <1> QED BY <1>6, <1>7 DEF FinishIngest, SaveThen

LEMMA RestartInv ==
  ASSUME Inv, Restart
  PROVE  Inv'
  <1>1. /\ UNCHANGED <<disk, elab, calls, overlapped, acked, expired, unsaved>>
        /\ handler' = [h \in Handlers |-> Idle] /\ seen' = disk.seen /\ runs' = disk.runs
    BY DEF Restart
  <1>2. CounterInv'
    BY <1>1, FaultType DEF Inv, CounterInv, Restart
  <1>3. HandlerInv(handler', elab)
    BY <1>1, Unchanged DEF HandlerInv
  <1>4. handler' = [h \in Handlers |-> handler'[h]]
    BY <1>1
  <1> QED BY <1>1, <1>2, <1>3, <1>4 DEF Inv

LEMMA InitInv == Init => Inv
  <1> SUFFICES ASSUME Init PROVE Inv
    OBVIOUS
  <1>1. /\ seen = [e \in {} |-> 0] /\ runs = [k \in RunKeys |-> NoRun]
        /\ disk.seen = seen /\ disk.runs = runs /\ elab = <<>>
        /\ handler = [h \in Handlers |-> Idle]
    BY DEF Init
  <1>2. SeenInv(seen)
    BY <1>1 DEF SeenInv
  <1>3. TableInv(runs, elab)
    BY <1>1, Statuses DEF TableInv, NoRun
  <1>4. ElabInv(elab) /\ elab \in Seq(RunEvent)
    BY <1>1 DEF ElabInv
  <1>5. HandlerInv(handler, elab) /\ handler = [h \in Handlers |-> handler[h]]
    BY <1>1, <1>4, IdleFacts DEF HandlerInv
  <1>6. CounterInv
    BY Constants DEF Init, CounterInv
  <1> QED BY <1>1, <1>2, <1>3, <1>4, <1>5, <1>6 DEF Inv

LEMMA NextInv == Inv /\ [Next]_vars => Inv'
  <1> SUFFICES ASSUME Inv, [Next]_vars PROVE Inv'
    OBVIOUS
  <1>1. CASE Next
    BY <1>1, Actions, CallInv, IgnoreDuplicateInv, StartIngestInv, LookupRunInv, CreateRunEventInv,
       BindRunEventInv, GetRunEventInv, PatchRunEventInv, MarkEventInv, FinishIngestInv, RestartInv
  <1>2. CASE UNCHANGED vars
    BY <1>2 DEF vars, Inv, SeenInv, TableInv, ElabInv, HandlerInv, WorkerInv, CounterInv
  <1> QED BY <1>1, <1>2

(* The inductive invariant holds in every reachable state.                  *)
THEOREM Invariance == Spec => []Inv
  BY InitInv, NextInv, PTL DEF Spec

(* The types of the tables, of state.json, of what eLabFTW stores and of    *)
(* what each worker thread of the service holds.                            *)
THEOREM TypeCorrect == Spec => []TypeOK
  <1>1. Inv => TypeOK
    BY DEF Inv, SeenInv, TableInv, ElabInv, HandlerInv, WorkerInv, CounterInv, TypeOK
  <1> QED BY <1>1, Invariance, PTL

(* The events of a run event in eLabFTW are of one experiment, one policy   *)
(* revision and one device, whichever way _ingest_v1_event interleaves.     *)
THEOREM RunsAreSeparate == Spec => []NoCrossRun
  <1>1. Inv => NoCrossRun
    <2> SUFFICES ASSUME Inv, NEW i \in DOMAIN elab,
                        NEW j \in DOMAIN elab[i].events, NEW k \in DOMAIN elab[i].events
                 PROVE  LET a == Event[elab[i].events[j]]
                            b == Event[elab[i].events[k]]
                        IN  a.experiment = b.experiment /\ a.policy = b.policy /\ a.device = b.device
      BY DEF NoCrossRun
    <2>1. elab \in Seq(RunEvent) /\ i \in 1 .. Len(elab) /\ elab[i] \in RunEvent /\ OwnEvents(elab[i])
      BY Unchanged DEF ElabInv
    <2>2. elab[i].events \in Seq(EventIds)
      BY <2>1 DEF RunEvent
    <2>3. j \in 1 .. Len(elab[i].events) /\ k \in 1 .. Len(elab[i].events)
      BY <2>2
    <2>4. RunKey(elab[i].events[j]) = RunKey(elab[i].events[k])
      BY <2>1, <2>3 DEF OwnEvents
    <2> QED BY <2>4 DEF RunKey
  <1> QED BY <1>1, Invariance, PTL

-------------------------------------------------------------------------------
(* What a step does to the worker threads: thread h goes on to pc with its  *)
(* event and its run event, or it is done; the others do not move.          *)

OthersWait(h) == \A g \in Handlers : g # h => handler'[g] = handler[g]

Moves(h, pc) ==
  /\ handler'[h].pc = pc /\ handler'[h].event = handler[h].event
  /\ OthersWait(h)

Ends(h) == handler'[h].pc = "idle" /\ OthersWait(h)

LEMMA WorkerFields ==
  ASSUME Inv, NEW h \in Handlers
  PROVE  /\ handler[h] \in WorkerType(elab)
         /\ handler = [g \in Handlers |-> handler[g]]
         /\ handler[h].event \in EventIds /\ RunKey(handler[h].event) \in RunKeys
  BY Unchanged, RunKeyType DEF Inv, WorkerInv, WorkerType

LEMMA EndsFacts ==
  ASSUME Inv, NEW h \in Handlers, handler' = [handler EXCEPT ![h] = Idle]
  PROVE  Ends(h)
  BY WorkerFields, Unchanged DEF Ends, OthersWait

LEMMA MovesFacts ==
  ASSUME Inv, NEW h \in Handlers, NEW pc, Goto(h, pc)
  PROVE  Moves(h, pc) /\ handler'[h].id = handler[h].id
  BY WorkerFields DEF Moves, OthersWait, Goto, WorkerType

LEMMA CallEffect ==
  ASSUME Inv, NEW h \in Handlers, NEW e \in EventIds, Call(h, e)
  PROVE  /\ handler[h].pc = "idle" /\ handler'[h].pc = "check" /\ handler'[h].event = e
         /\ OthersWait(h)
         /\ UNCHANGED <<seen, runs, disk, expired, unsaved, elab, faults, acked>>
         /\ overlapped \subseteq overlapped'
         /\ (\E g \in Handlers : Working(g, RunKey(e))) => RunKey(e) \in overlapped'
  BY WorkerFields DEF Call, OthersWait, At, WorkerType, localState

LEMMA IgnoreDuplicateEffect ==
  ASSUME Inv, NEW h \in Handlers, IgnoreDuplicate(h)
  PROVE  /\ handler[h].pc = "check" /\ Ends(h) /\ handler[h].event \in DOMAIN seen
         /\ UNCHANGED <<seen, runs, disk, expired, unsaved, elab, faults, overlapped>>
         /\ acked' = acked \union {handler[h].event}
  BY EndsFacts DEF IgnoreDuplicate, Ack, At, localState

LEMMA StartIngestEffect ==
  ASSUME Inv, NEW h \in Handlers, StartIngest(h)
  PROVE  /\ handler[h].pc = "check" /\ Moves(h, "lookup") /\ handler[h].event \notin DOMAIN seen
         /\ UNCHANGED <<seen, runs, disk, expired, unsaved, elab, faults, overlapped, acked>>
  BY MovesFacts DEF StartIngest, At, localState

LEMMA LookupRunEffect ==
  ASSUME Inv, NEW h \in Handlers, LookupRun(h)
  PROVE  LET id == runs[RunKey(handler[h].event)].id IN
         /\ handler[h].pc = "lookup"
         /\ \/ id # 0 /\ Moves(h, "get") /\ handler'[h].id = id /\ UNCHANGED faults
            \/ id = 0 /\ Moves(h, "create") /\ UNCHANGED faults
            \/ Ends(h) /\ Fault("elab")
         /\ UNCHANGED <<seen, runs, disk, expired, unsaved, elab, overlapped, acked>>
  <1> DEFINE id == runs[RunKey(handler[h].event)].id
  <1>1. /\ handler[h].pc = "lookup"
        /\ UNCHANGED <<seen, runs, disk, expired, unsaved, elab, overlapped, acked>>
    BY DEF LookupRun, At, localState, Nack
  <1>2. CASE /\ id # 0 /\ UNCHANGED faults
             /\ handler' = [handler EXCEPT ![h].pc = "get", ![h].id = id]
    <2> HIDE DEF id
    <2>1. Moves(h, "get") /\ handler'[h].id = id
      BY <1>2, WorkerFields DEF Moves, OthersWait, WorkerType
    <2> QED BY <1>1, <1>2, <2>1 DEF id
  <1>3. CASE id = 0 /\ Goto(h, "create") /\ UNCHANGED faults
    BY <1>1, <1>3, MovesFacts
  <1>4. CASE Fault("elab") /\ Nack(h)
    BY <1>1, <1>4, EndsFacts DEF Nack
  <1> QED BY <1>2, <1>3, <1>4 DEF LookupRun

(* A POST adds an empty run event, if it adds one.                          *)
LEMMA CreateRunEventEffect ==
  ASSUME Inv, NEW h \in Handlers, CreateRunEvent(h)
  PROVE  /\ handler[h].pc \in {"create", "create2", "recreate", "recreate2"}
         /\ \/ Moves(h, "bind") /\ handler'[h].id = Len(elab') /\ UNCHANGED faults
            \/ \E pc \in {"create", "create2", "recreate", "recreate2"} : Moves(h, pc) /\ Fault("elab")
            \/ Ends(h) /\ Fault("elab")
         /\ UNCHANGED <<seen, runs, disk, expired, unsaved, overlapped, acked>>
         /\ Len(elab') >= Len(elab) /\ \A i \in 1 .. Len(elab) : elab'[i] = elab[i]
         /\ \A i \in 1 .. Len(elab') : i \notin 1 .. Len(elab) => elab'[i].events = <<>>
  <1> DEFINE new == NewRunEvent(handler[h].event)
             created == Append(elab, new)
  <1>1. /\ handler[h].pc \in {"create", "create2", "recreate", "recreate2"}
        /\ UNCHANGED <<seen, runs, disk, expired, unsaved, overlapped, acked>>
    BY DEF CreateRunEvent, Posts, localState, Nack
  <1>2. new.events = <<>>
    BY WorkerFields, NewRunEventFacts
  <1> HIDE DEF new
  <1>3. /\ Len(created) = Len(elab) + 1 /\ created[Len(created)] = new
        /\ Len(elab) \in Nat /\ \A i \in 1 .. Len(elab) : created[i] = elab[i]
    BY Unchanged DEF ElabInv
  <1> HIDE DEF created
  <1>4. elab' \in {elab, created}
    BY DEF CreateRunEvent, created, new
  <1>5. /\ Len(elab') >= Len(elab) /\ \A i \in 1 .. Len(elab) : elab'[i] = elab[i]
        /\ \A i \in 1 .. Len(elab') : i \notin 1 .. Len(elab) => elab'[i].events = <<>>
    BY <1>2, <1>3, <1>4
  <1>6. CASE /\ UNCHANGED faults /\ elab' = created
             /\ handler' = [handler EXCEPT ![h].pc = "bind", ![h].id = Len(created)]
    <2>1. Moves(h, "bind") /\ handler'[h].id = Len(created)
      BY <1>6, WorkerFields DEF Moves, OthersWait, WorkerType
    <2> QED BY <1>1, <1>5, <1>6, <2>1
  <1>7. CASE Fault("elab") /\ ((\E pc \in NextPosts(handler[h].pc) : Goto(h, pc)) \/ Nack(h))
    <2>1. ASSUME NEW pc \in NextPosts(handler[h].pc), Goto(h, pc)
          PROVE  pc \in {"create", "create2", "recreate", "recreate2"} /\ Moves(h, pc)
      <3>1. pc \in {"create", "create2", "recreate", "recreate2"}
        BY DEF NextPosts
      <3> QED BY <2>1, <3>1, MovesFacts
    <2>2. Nack(h) => Ends(h)
      BY EndsFacts DEF Nack
    <2> QED BY <1>1, <1>5, <1>7, <2>1, <2>2
  <1> QED BY <1>6, <1>7 DEF CreateRunEvent, created, new

(* The two outcomes of writing state.json.                                  *)
Saved == disk' = [seen |-> seen', runs |-> runs'] /\ UNCHANGED <<faults, unsaved>>

SaveFails ==
  /\ disk' = disk /\ Fault("save")
  /\ unsaved' = unsaved \union (DOMAIN seen' \ DOMAIN disk.seen)

(* The table entry of run k refers to run event i, the others are kept.     *)
Binds(k, i) == runs'[k].id = i /\ \A l \in RunKeys : l # k => runs'[l] = runs[l]

LEMMA BindsFacts ==
  ASSUME Inv, NEW h \in Handlers, NEW st, SetRunEventId(h, st)
  PROVE  Binds(RunKey(handler[h].event), handler[h].id)
  BY WorkerFields, Unchanged DEF Binds, SetRunEventId, TableInv

LEMMA BindRunEventEffect ==
  ASSUME Inv, NEW h \in Handlers, BindRunEvent(h)
  PROVE  /\ handler[h].pc = "bind" /\ Binds(RunKey(handler[h].event), handler[h].id)
         /\ \/ Moves(h, "get") /\ handler'[h].id = handler[h].id /\ Saved
            \/ Ends(h) /\ SaveFails
         /\ UNCHANGED <<seen, elab, overlapped, expired, acked>>
  BY BindsFacts, MovesFacts, EndsFacts
  DEF BindRunEvent, At, SaveThen, Saved, SaveFails, Nack

LEMMA GetRunEventEffect ==
  ASSUME Inv, NEW h \in Handlers, GetRunEvent(h)
  PROVE  /\ handler[h].pc = "get"
         /\ \/ /\ Moves(h, "patch") /\ handler'[h].id = handler[h].id
               /\ \/ handler'[h].snapshot = elab[handler[h].id] /\ UNCHANGED faults
                  \/ handler'[h].snapshot = Bare(elab[handler[h].id]) /\ Fault("blank")
            \/ Ends(h) /\ Fault("elab")
         /\ UNCHANGED <<seen, runs, disk, expired, unsaved, elab, overlapped, acked>>
  <1>1. /\ handler[h].pc = "get"
        /\ UNCHANGED <<seen, runs, disk, expired, unsaved, elab, overlapped, acked>>
    BY DEF GetRunEvent, At, localState, Nack
  <1>2. ASSUME NEW s, Reads(h, s)
        PROVE  Moves(h, "patch") /\ handler'[h].id = handler[h].id /\ handler'[h].snapshot = s
    BY <1>2, WorkerFields DEF Reads, Moves, OthersWait, WorkerType
  <1>3. CASE Reads(h, elab[handler[h].id]) /\ UNCHANGED faults
    BY <1>1, <1>2, <1>3
  <1>4. CASE Reads(h, Bare(elab[handler[h].id])) /\ Fault("blank")
    BY <1>1, <1>2, <1>4
  <1>5. CASE Fault("elab") /\ Nack(h)
    BY <1>1, <1>5, EndsFacts DEF Nack
  <1> QED BY <1>3, <1>4, <1>5 DEF GetRunEvent

LEMMA PatchRunEventEffect ==
  ASSUME Inv, NEW h \in Handlers, PatchRunEvent(h)
  PROVE  /\ handler[h].pc = "patch" /\ Moves(h, "mark") /\ handler'[h].id = handler[h].id
         /\ \/ /\ elab' = [elab EXCEPT ![handler[h].id] = Merged(handler[h].snapshot, handler[h].event)]
               /\ UNCHANGED faults
            \/ elab' = elab /\ Fault("patch")
         /\ UNCHANGED <<seen, runs, disk, expired, unsaved, overlapped, acked>>
  <1> DEFINE merged == Merged(handler[h].snapshot, handler[h].event)
  <1>1. /\ UNCHANGED <<seen, runs, disk, expired, unsaved, overlapped, acked>> /\ handler[h].pc = "patch"
        /\ handler' = [handler EXCEPT ![h].pc = "mark", ![h].merged = merged.status, ![h].snapshot = Blank]
        /\ \/ elab' = [elab EXCEPT ![handler[h].id] = merged] /\ faults' = faults
           \/ Fault("patch") /\ elab' = elab
    BY DEF PatchRunEvent, localState, At
  <1> HIDE DEF merged
  <1>2. Moves(h, "mark") /\ handler'[h].id = handler[h].id
    BY <1>1, WorkerFields DEF Moves, OthersWait, WorkerType
  <1> QED BY <1>1, <1>2 DEF merged

LEMMA MarkEventEffect ==
  ASSUME Inv, NEW h \in Handlers, MarkEvent(h)
  PROVE  /\ handler[h].pc = "mark"
         /\ DOMAIN seen' \subseteq DOMAIN seen \union {handler[h].event}
         /\ expired' = expired \union ((DOMAIN seen \union {handler[h].event}) \ DOMAIN seen')
         /\ \/ Moves(h, "bindstatus") /\ handler'[h].id = handler[h].id /\ Saved
            \/ Ends(h) /\ SaveFails
         /\ UNCHANGED <<runs, elab, overlapped, acked>>
  <1>1. /\ handler[h].pc = "mark" /\ UNCHANGED <<runs, elab, overlapped, acked>>
        /\ SaveThen(h, Goto(h, "bindstatus") /\ acked' = acked)
    BY DEF MarkEvent, At, SaveThen, Nack
  <1>2. \/ Moves(h, "bindstatus") /\ handler'[h].id = handler[h].id /\ Saved
        \/ Ends(h) /\ SaveFails
    BY <1>1, MovesFacts, EndsFacts DEF SaveThen, Saved, SaveFails, Nack
  <1> QED BY <1>1, <1>2, MarkFacts

LEMMA FinishIngestEffect ==
  ASSUME Inv, NEW h \in Handlers, FinishIngest(h)
  PROVE  /\ handler[h].pc = "bindstatus" /\ Ends(h)
         /\ Binds(RunKey(handler[h].event), handler[h].id)
         /\ \/ Saved /\ acked' = acked \union {handler[h].event}
            \/ SaveFails /\ acked' = acked
         /\ UNCHANGED <<seen, elab, overlapped, expired>>
  BY BindsFacts, EndsFacts DEF FinishIngest, At, SaveThen, Saved, SaveFails, Ack, Nack

LEMMA RestartEffect ==
  ASSUME Inv, Restart
  PROVE  /\ \A h \in Handlers : handler'[h].pc = "idle"
         /\ Fault("crash") /\ seen' = disk.seen /\ runs' = disk.runs
         /\ UNCHANGED <<disk, elab, overlapped, acked, expired, unsaved>>
  BY Unchanged DEF Restart

(* A fault is remembered.                                                   *)
LEMMA FaultKept ==
  ASSUME Inv, NEW kind, Fault(kind)
  PROVE  kind \in faults'.kinds /\ faults.kinds \subseteq faults'.kinds
  BY DEF Fault

-------------------------------------------------------------------------------
(* Two threads that work on one run at once are noted, so whoever works on  *)
(* a run whose deliveries never overlapped is alone with it, and the run    *)
(* event it read is still the one that is there, unless it came without     *)
(* metadata.                                                                *)

OneWorker ==
  \A g, h \in Handlers :
    g # h /\ ~At(g, "idle") /\ Working(h, RunKey(handler[g].event))
      => ~Serial(RunKey(handler[g].event))

Fresh(h) ==
  \/ handler[h].snapshot = elab[handler[h].id]
  \/ handler[h].snapshot.events = <<>> /\ "blank" \in faults.kinds

FreshSnapshot ==
  \A h \in Handlers : At(h, "patch") /\ Serial(RunKey(handler[h].event)) => Fresh(h)

(* A thread that works after a step worked on the same event before, unless *)
(* the step is the delivery of that event.                                  *)
LEMMA WorkStep ==
  ASSUME Inv, Next
  PROVE  /\ overlapped \subseteq overlapped' /\ faults.kinds \subseteq faults'.kinds
         /\ \/ \E h \in Handlers, e \in EventIds : Call(h, e)
            \/ /\ overlapped' = overlapped
               /\ \A g \in Handlers : handler'[g].pc # "idle" =>
                    handler[g].pc # "idle" /\ handler'[g].event = handler[g].event
  <1>1. ASSUME NEW h \in Handlers, NEW e \in EventIds, Call(h, e)
        PROVE  overlapped \subseteq overlapped' /\ faults.kinds \subseteq faults'.kinds
    BY <1>1, CallEffect
  <1> DEFINE Same == \A g \in Handlers : handler'[g].pc # "idle" =>
                        handler[g].pc # "idle" /\ handler'[g].event = handler[g].event
             Keeps == overlapped' = overlapped /\ faults.kinds \subseteq faults'.kinds
  <1>2. ASSUME Restart PROVE Same /\ Keeps
    BY <1>2, RestartEffect, FaultKept
  <1>3. ASSUME NEW h \in Handlers, Step(h)
        PROVE  Same /\ Keeps
    <2>1. /\ Ends(h) \/ \E pc \in Pcs : Moves(h, pc)
          /\ handler[h].pc # "idle"
      BY <1>3, IgnoreDuplicateEffect, StartIngestEffect, LookupRunEffect, CreateRunEventEffect,
         BindRunEventEffect, GetRunEventEffect, PatchRunEventEffect, MarkEventEffect, FinishIngestEffect
      DEF Step, Pcs
    <2>2. Keeps
      BY <1>3, IgnoreDuplicateEffect, StartIngestEffect, LookupRunEffect, CreateRunEventEffect,
         BindRunEventEffect, GetRunEventEffect, PatchRunEventEffect, MarkEventEffect, FinishIngestEffect,
         FaultKept
      DEF Step, Saved, SaveFails
    <2>3. Same
      BY <2>1 DEF Ends, Moves, OthersWait
    <2> QED BY <2>2, <2>3
  <1> HIDE DEF Same, Keeps
  <1>4. (\E h \in Handlers, e \in EventIds : Call(h, e)) \/ (Same /\ Keeps)
    BY <1>2, <1>3 DEF Next
  <1> QED BY <1>1, <1>4 DEF Same, Keeps

LEMMA OneWorkerStep ==
  ASSUME Inv, OneWorker, [Next]_vars
  PROVE  OneWorker'
  <1>1. CASE UNCHANGED vars
    BY <1>1 DEF vars, OneWorker, At, Working, Serial
  <1>2. ASSUME NEW h \in Handlers, NEW e \in EventIds, Call(h, e)
        PROVE  OneWorker'
    BY <1>2, CallEffect DEF OneWorker, At, Working, Serial, OthersWait
  <1>3. CASE /\ overlapped' = overlapped
             /\ \A g \in Handlers : handler'[g].pc # "idle" =>
                  handler[g].pc # "idle" /\ handler'[g].event = handler[g].event
    BY <1>3 DEF OneWorker, At, Working, Serial
  <1> QED BY <1>1, <1>2, <1>3, WorkStep

(* Whoever else works on the run of a thread's event makes it overlap.      *)
LEMMA AloneFacts ==
  ASSUME OneWorker, NEW g \in Handlers, NEW h \in Handlers,
         handler[g].pc # "idle", handler[h].pc # "idle",
         RunKey(handler[g].event) = RunKey(handler[h].event), Serial(RunKey(handler[h].event))
  PROVE  g = h
  BY DEF OneWorker, At, Working

LEMMA FreshSnapshotStep ==
  ASSUME Inv, OneWorker, FreshSnapshot, [Next]_vars
  PROVE  FreshSnapshot'
  <1>1. CASE UNCHANGED vars
    BY <1>1 DEF vars, FreshSnapshot, Fresh, At, Serial
  <1> SUFFICES ASSUME Next, NEW g \in Handlers, handler'[g].pc = "patch",
                      RunKey(handler'[g].event) \notin overlapped'
               PROVE  Fresh(g)'
    BY <1>1 DEF FreshSnapshot, At, Serial
  <1> DEFINE Stays == handler'[g] = handler[g] /\ Serial(RunKey(handler[g].event))
  <1>2. handler'[g] = handler[g] => Stays /\ handler[g].pc = "patch"
    BY WorkStep DEF Serial
  <1>3. Stays /\ handler[g].pc = "patch" =>
          Fresh(g) /\ handler[g].id \in 1 .. Len(elab)
    BY PatchFacts DEF FreshSnapshot, At
  <1>a. ASSUME Stays, handler[g].pc = "patch", elab'[handler[g].id] = elab[handler[g].id]
        PROVE  Fresh(g)'
    BY <1>3, <1>a, WorkStep DEF Fresh
  <1>b. handler'[g] = handler[g] /\ UNCHANGED elab => Fresh(g)'
    BY <1>2, <1>a
  <1> HIDE DEF Stays
  <1>4. ASSUME NEW h \in Handlers, NEW e \in EventIds, Call(h, e)
        PROVE  Fresh(g)'
    BY <1>b, <1>4, CallEffect DEF OthersWait
  <1>5. CASE Restart
    BY <1>5, RestartEffect
  <1>6. ASSUME NEW h \in Handlers,
               \/ IgnoreDuplicate(h) \/ StartIngest(h) \/ LookupRun(h) \/ BindRunEvent(h)
               \/ MarkEvent(h) \/ FinishIngest(h)
        PROVE  Fresh(g)'
    <2>1. UNCHANGED elab /\ OthersWait(h) /\ handler'[h].pc # "patch"
      BY <1>6, IgnoreDuplicateEffect, StartIngestEffect, LookupRunEffect, BindRunEventEffect,
         MarkEventEffect, FinishIngestEffect DEF Moves, Ends
    <2> QED BY <1>b, <2>1 DEF OthersWait
  <1>7. ASSUME NEW h \in Handlers, CreateRunEvent(h)
        PROVE  Fresh(g)'
    <2>1. /\ OthersWait(h) /\ handler'[h].pc # "patch"
          /\ \A i \in 1 .. Len(elab) : elab'[i] = elab[i]
      BY <1>7, CreateRunEventEffect DEF Moves, Ends
    <2> QED BY <1>2, <1>3, <1>a, <2>1 DEF OthersWait
  <1>8. ASSUME NEW h \in Handlers, GetRunEvent(h)
        PROVE  Fresh(g)'
    <2>1. CASE g = h
      <3>1. \/ handler'[h].snapshot = elab[handler[h].id]
            \/ handler'[h].snapshot = Bare(elab[handler[h].id]) /\ Fault("blank")
        BY <1>8, <2>1, GetRunEventEffect DEF Ends
      <3>2. handler'[h].id = handler[h].id /\ UNCHANGED elab /\ handler[h].pc = "get"
        BY <1>8, <2>1, GetRunEventEffect DEF Ends
      <3>3. Bare(elab[handler[h].id]).events = <<>>
        BY DEF Bare, Blank
      <3>4. Fault("blank") => "blank" \in faults'.kinds
        BY FaultKept
      <3> QED BY <2>1, <3>1, <3>2, <3>3, <3>4 DEF Fresh
    <2>2. CASE g # h
      BY <1>b, <1>8, <2>2, GetRunEventEffect DEF Moves, Ends, OthersWait
    <2> QED BY <2>1, <2>2
  <1>9. ASSUME NEW h \in Handlers, PatchRunEvent(h)
        PROVE  Fresh(g)'
    <2>1. /\ handler[h].pc = "patch" /\ handler'[h].pc = "mark" /\ OthersWait(h)
          /\ \A j \in 1 .. Len(elab) : j # handler[h].id => elab'[j] = elab[j]
      BY <1>9, PatchRunEventEffect, PatchFacts DEF Moves
    <2>2. g # h /\ Stays /\ handler[g].pc = "patch"
      BY <1>2, <2>1 DEF OthersWait
    <2>3. handler[g].id # handler[h].id
      <3>1. /\ elab[handler[g].id].run = RunKey(handler[g].event)
            /\ elab[handler[h].id].run = RunKey(handler[h].event)
        BY <2>1, <2>2, PatchFacts
      <3>2. RunKey(handler[h].event) # RunKey(handler[g].event)
        BY <2>1, <2>2, AloneFacts DEF Stays
      <3> QED BY <3>1, <3>2
    <2>4. elab'[handler[g].id] = elab[handler[g].id]
      BY <1>3, <2>1, <2>2, <2>3
    <2> QED BY <1>a, <2>2, <2>4
  <1> QED BY <1>4, <1>5, <1>6, <1>7, <1>8, <1>9, Actions

LEMMA WorkersInit == Init => OneWorker /\ FreshSnapshot
  <1> SUFFICES ASSUME Init PROVE OneWorker /\ FreshSnapshot
    OBVIOUS
  <1>1. \A h \in Handlers : handler[h].pc = "idle"
    BY DEF Init, Idle
  <1> QED BY <1>1 DEF OneWorker, FreshSnapshot, At

WorkersInv == Inv /\ OneWorker /\ FreshSnapshot

(* The thread that works on a run that no other works on knows its state.   *)
LEMMA WorkersInvariance == Spec => []WorkersInv
  <1>1. Init => WorkersInv
    BY InitInv, WorkersInit DEF WorkersInv
  <1>2. WorkersInv /\ [Next]_vars => WorkersInv'
    BY NextInv, OneWorkerStep, FreshSnapshotStep DEF WorkersInv
  <1> QED BY <1>1, <1>2, PTL DEF Spec

LEMMA WithoutBefore ==
  ASSUME Inv, Next, NEW kind, Without({kind})'
  PROVE  Without({kind})
  BY WorkStep DEF Without

LEMMA NotWithout ==
  ASSUME NEW kind, Fault(kind)
  PROVE  ~Without({kind})'
  BY DEF Fault, Without

(* A PATCH of a run that no other thread works on starts from what is there. *)
LEMMA SerialPatch ==
  ASSUME WorkersInv, NEW h \in Handlers, handler[h].pc = "patch",
         Serial(RunKey(handler[h].event)), Without({"blank"})
  PROVE  LET w == handler[h]
             merged == Merged(elab[w.id], w.event)
         IN /\ merged = Merged(w.snapshot, w.event)
            /\ elab[w.id] \in RunEvent /\ w.id \in 1 .. Len(elab)
            /\ merged.status = MergeStatus(elab[w.id].status, StatusFromEvent(Event[w.event]))
            /\ Added(elab[w.id].events, w.event, merged.events)
  <1>1. handler[h].snapshot = elab[handler[h].id]
    BY DEF WorkersInv, FreshSnapshot, Fresh, At, Without
  <1>2. elab \in Seq(RunEvent)
    BY Unchanged DEF WorkersInv, ElabInv
  <1> DEFINE merged == Merged(handler[h].snapshot, handler[h].event)
  <1>3. /\ handler[h].id \in 1 .. Len(elab)
        /\ merged.status = MergeStatus(handler[h].snapshot.status, StatusFromEvent(Event[handler[h].event]))
        /\ Added(handler[h].snapshot.events, handler[h].event, merged.events)
    BY PatchFacts DEF WorkersInv
  <1>4. elab[handler[h].id] \in RunEvent
    BY <1>2, <1>3
  <1> QED BY Zenon, <1>1, <1>3, <1>4

(* The comment in _update_run_event, that a late event must not downgrade   *)
(* the status of a run, is true of runs that one thread works on at a time, *)
(* unless eLabFTW returned metadata that the code cannot use.               *)
THEOREM NoSerialDowngrade == Spec => SerialNoDowngrade
  <1> DEFINE A == \A i \in DOMAIN elab :
                    Serial(elab[i].run)' /\ Without({"blank"})' =>
                      Severity[elab'[i].status] >= Severity[elab[i].status]
  <1>1. WorkersInv /\ [Next]_vars => [A]_vars
    <2> SUFFICES ASSUME WorkersInv, Next, NEW i \in DOMAIN elab, elab'[i].run \notin overlapped',
                        Without({"blank"})'
                 PROVE  Severity[elab'[i].status] >= Severity[elab[i].status]
      BY DEF Serial
    <2>1. Inv /\ i \in 1 .. Len(elab) /\ elab[i] \in RunEvent
      BY Unchanged DEF WorkersInv, ElabInv
    <2>2. elab[i].status \in Status /\ Severity[elab[i].status] \in Nat
      BY <2>1, Statuses DEF RunEvent
    <2>3. CASE elab'[i] = elab[i]
      BY <2>2, <2>3
    <2>4. elab'[i] = elab[i] \/ \E h \in Handlers : PatchRunEvent(h)
      BY <2>1, Actions, CallEffect, IgnoreDuplicateEffect, StartIngestEffect, LookupRunEffect,
         CreateRunEventEffect, BindRunEventEffect, GetRunEventEffect, MarkEventEffect,
         FinishIngestEffect, RestartEffect
    <2>5. ASSUME NEW h \in Handlers, PatchRunEvent(h), elab'[i] # elab[i]
          PROVE  Severity[elab'[i].status] >= Severity[elab[i].status]
      <3> DEFINE w == handler[h]
                 merged == Merged(w.snapshot, w.event)
      <3>1. w.pc = "patch" /\ elab' = [elab EXCEPT ![w.id] = merged] /\ overlapped' = overlapped
        BY <2>1, <2>5, PatchRunEventEffect
      <3>2. w.id = i /\ elab'[i] = merged /\ merged.run = RunKey(w.event) /\ w.event \in EventIds
        BY <2>1, <2>5, <3>1, PatchFacts
      <3>3. Serial(RunKey(w.event))
        BY <3>1, <3>2 DEF Serial
      <3>4. merged.status = MergeStatus(elab[i].status, StatusFromEvent(Event[w.event]))
        BY <2>1, <3>1, <3>2, <3>3, SerialPatch, WithoutBefore
      <3> HIDE DEF merged, w
      <3>5. StatusFromEvent(Event[w.event]) \in Status
        BY <3>2, StatusFromEventType
      <3> QED BY <2>2, <3>2, <3>4, <3>5, MergeStatusFacts
    <2> QED BY <2>3, <2>4, <2>5
  <1> QED BY <1>1, WorkersInvariance, PTL DEF Spec, SerialNoDowngrade

(* Without a failed save, the table knows the run event that has events.    *)
SavedInv == Without({"save"}) => disk = [seen |-> seen, runs |-> runs]

ActiveRun(k) ==
  /\ \A i \in 1 .. Len(elab) : elab[i].run = k /\ elab[i].events # <<>> => runs[k].id = i
  /\ \A h \in Handlers : RunKey(handler[h].event) = k =>
       /\ handler[h].pc \in {"get", "patch", "mark", "bindstatus"} => runs[k].id = handler[h].id
       /\ handler[h].pc \in {"create", "create2", "recreate", "recreate2", "bind"} => runs[k].id = 0

ActiveInv == Without({"save"}) => \A k \in RunKeys : Serial(k) => ActiveRun(k)

LEMMA SavedInvStep ==
  ASSUME Inv, SavedInv, [Next]_vars
  PROVE  SavedInv'
  <1>1. CASE UNCHANGED vars
    BY <1>1 DEF vars, SavedInv, Without
  <1> SUFFICES ASSUME Next, Without({"save"})'
               PROVE  disk' = [seen |-> seen', runs |-> runs']
    BY <1>1 DEF SavedInv
  <1>2. disk = [seen |-> seen, runs |-> runs]
    BY WithoutBefore DEF SavedInv
  <1>3. CASE Restart
    BY <1>2, <1>3, RestartEffect
  <1>4. CASE UNCHANGED <<seen, runs, disk>>
    BY <1>2, <1>4
  <1>5. CASE Saved
    BY <1>5 DEF Saved
  <1>6. ~SaveFails
    BY NotWithout DEF SaveFails
  <1>7. UNCHANGED <<seen, runs, disk>> \/ Saved \/ SaveFails \/ Restart
    BY Actions, CallEffect, IgnoreDuplicateEffect, StartIngestEffect, LookupRunEffect,
       CreateRunEventEffect, BindRunEventEffect, GetRunEventEffect, PatchRunEventEffect,
       MarkEventEffect, FinishIngestEffect
  <1> QED BY <1>3, <1>4, <1>5, <1>6, <1>7

LEMMA ActiveInvStep ==
  ASSUME WorkersInv, SavedInv, ActiveInv, [Next]_vars
  PROVE  ActiveInv'
  <1>1. CASE UNCHANGED vars
    BY <1>1 DEF vars, ActiveInv, ActiveRun, Without, Serial
  <1> SUFFICES ASSUME Next, Without({"save"})', NEW k \in RunKeys, k \notin overlapped'
               PROVE  ActiveRun(k)'
    BY <1>1 DEF ActiveInv, Serial
  <1>2. Inv /\ OneWorker
    BY DEF WorkersInv
  <1>3. Without({"save"}) /\ Serial(k)
    BY <1>2, WithoutBefore, WorkStep DEF Serial
  <1>4. ActiveRun(k)
    BY <1>3 DEF ActiveInv
  <1>5. ~SaveFails
    BY NotWithout DEF SaveFails
  <1>6. ASSUME NEW h \in Handlers, NEW e \in EventIds, Call(h, e)
        PROVE  ActiveRun(k)'
    BY <1>2, <1>4, <1>6, CallEffect DEF ActiveRun, OthersWait
  <1>7. ASSUME NEW h \in Handlers, IgnoreDuplicate(h) \/ StartIngest(h)
        PROVE  ActiveRun(k)'
    BY <1>2, <1>4, <1>7, IgnoreDuplicateEffect, StartIngestEffect DEF ActiveRun, OthersWait, Moves, Ends
  <1>8. ASSUME NEW h \in Handlers, LookupRun(h)
        PROVE  ActiveRun(k)'
    BY <1>2, <1>4, <1>8, LookupRunEffect DEF ActiveRun, OthersWait, Moves, Ends
  <1>9. ASSUME NEW h \in Handlers, CreateRunEvent(h)
        PROVE  ActiveRun(k)'
    BY <1>2, <1>4, <1>9, CreateRunEventEffect DEF ActiveRun, OthersWait, Moves, Ends
  <1>10. ASSUME NEW h \in Handlers, BindRunEvent(h)
         PROVE  ActiveRun(k)'
    <2>1. /\ handler[h].pc = "bind" /\ Binds(RunKey(handler[h].event), handler[h].id)
          /\ Moves(h, "get") /\ handler'[h].id = handler[h].id /\ UNCHANGED elab
      BY <1>2, <1>5, <1>10, BindRunEventEffect
    <2>2. CASE k # RunKey(handler[h].event)
      BY <1>4, <2>1, <2>2 DEF ActiveRun, OthersWait, Moves, Binds
    <2>3. CASE k = RunKey(handler[h].event)
      <3>1. \A i \in 1 .. Len(elab) : elab[i].run = k => elab[i].events = <<>>
        BY <1>4, <2>1, <2>3 DEF ActiveRun
      <3>2. ASSUME NEW g \in Handlers, g # h, RunKey(handler[g].event) = k
            PROVE  handler'[g].pc = "idle"
        BY <1>2, <1>3, <2>1, <2>3, <3>2, AloneFacts DEF Moves, OthersWait
      <3> QED BY <2>1, <2>3, <3>1, <3>2 DEF ActiveRun, OthersWait, Moves, Binds
    <2> QED BY <2>2, <2>3
  <1>11. ASSUME NEW h \in Handlers, GetRunEvent(h)
         PROVE  ActiveRun(k)'
    BY <1>2, <1>4, <1>11, GetRunEventEffect DEF ActiveRun, OthersWait, Moves, Ends
  <1>12. ASSUME NEW h \in Handlers, PatchRunEvent(h)
         PROVE  ActiveRun(k)'
    <2>1. /\ handler[h].pc = "patch" /\ Moves(h, "mark") /\ handler'[h].id = handler[h].id
          /\ UNCHANGED runs /\ Len(elab') = Len(elab)
          /\ \A j \in 1 .. Len(elab) : j # handler[h].id => elab'[j] = elab[j]
          /\ elab'[handler[h].id].run = RunKey(handler[h].event)
      <3>1. /\ handler[h].pc = "patch" /\ Moves(h, "mark") /\ handler'[h].id = handler[h].id
            /\ UNCHANGED runs
            /\ \/ elab' = [elab EXCEPT ![handler[h].id] = Merged(handler[h].snapshot, handler[h].event)]
               \/ elab' = elab
        BY <1>2, <1>12, PatchRunEventEffect
      <3> DEFINE patched == [elab EXCEPT ![handler[h].id] = Merged(handler[h].snapshot, handler[h].event)]
      <3>2. /\ Len(patched) = Len(elab) /\ elab[handler[h].id].run = RunKey(handler[h].event)
            /\ patched[handler[h].id].run = RunKey(handler[h].event)
            /\ \A j \in 1 .. Len(elab) : j # handler[h].id => patched[j] = elab[j]
        BY <1>2, <3>1, PatchFacts
      <3> HIDE DEF patched
      <3>3. elab' = patched \/ elab' = elab
        BY <3>1 DEF patched
      <3> QED BY <3>1, <3>2, <3>3
    <2>2. RunKey(handler[h].event) = k => runs[k].id = handler[h].id
      BY <1>4, <2>1 DEF ActiveRun
    <2>3. \A i \in 1 .. Len(elab') : elab'[i].run = k /\ elab'[i].events # <<>> => runs'[k].id = i
      BY <1>4, <2>1, <2>2 DEF ActiveRun
    <2> QED BY <1>4, <2>1, <2>3 DEF ActiveRun, OthersWait, Moves
  <1>13. ASSUME NEW h \in Handlers, MarkEvent(h)
         PROVE  ActiveRun(k)'
    BY <1>2, <1>4, <1>13, MarkEventEffect DEF ActiveRun, OthersWait, Moves, Ends
  <1>14. ASSUME NEW h \in Handlers, FinishIngest(h)
         PROVE  ActiveRun(k)'
    <2>1. /\ handler[h].pc = "bindstatus" /\ Ends(h) /\ UNCHANGED elab
          /\ Binds(RunKey(handler[h].event), handler[h].id)
      BY <1>2, <1>14, FinishIngestEffect
    <2>2. runs'[k].id = runs[k].id
      BY <1>4, <2>1 DEF ActiveRun, Binds
    <2> QED BY <1>4, <2>1, <2>2 DEF ActiveRun, OthersWait, Ends
  <1>15. CASE Restart
    <2>1. disk = [seen |-> seen, runs |-> runs]
      BY <1>3 DEF SavedInv
    <2> QED BY <1>2, <1>4, <1>15, <2>1, RestartEffect DEF ActiveRun
  <1> QED BY <1>6, <1>7, <1>8, <1>9, <1>10, <1>11, <1>12, <1>13, <1>14, <1>15, Actions

LEMMA ActiveInit == Init => SavedInv /\ ActiveInv
  <1> SUFFICES ASSUME Init PROVE SavedInv /\ ActiveInv
    OBVIOUS
  <1>1. disk = [seen |-> seen, runs |-> runs] /\ Len(elab) = 0 /\ \A h \in Handlers : handler[h].pc = "idle"
    BY DEF Init, Idle
  <1> QED BY <1>1 DEF SavedInv, ActiveInv, ActiveRun

(* However often a POST is repeated, and wherever the service crashed, one  *)
(* of the run events of a run collects its events, the one _ensure_run_event *)
(* finds in the table, unless the table could not be saved.                 *)
THEOREM OneRunEventIsActive == Spec => []OneActiveRunEvent
  <1> DEFINE I == WorkersInv /\ SavedInv /\ ActiveInv
  <1>1. Init => I
    BY InitInv, WorkersInit, ActiveInit DEF WorkersInv
  <1>2. I /\ [Next]_vars => I'
    BY NextInv, OneWorkerStep, FreshSnapshotStep, SavedInvStep, ActiveInvStep DEF WorkersInv
  <1>3. I => OneActiveRunEvent
    <2> SUFFICES ASSUME Inv, ActiveInv, Without({"save"}), NEW i \in DOMAIN elab, NEW j \in DOMAIN elab,
                        elab[i].run = elab[j].run, Serial(elab[i].run),
                        elab[i].events # <<>>, elab[j].events # <<>>
                 PROVE  i = j
      BY DEF OneActiveRunEvent, WorkersInv
    <2>1. elab \in Seq(RunEvent) /\ i \in 1 .. Len(elab) /\ j \in 1 .. Len(elab)
      BY Unchanged DEF ElabInv
    <2>2. elab[i] \in RunEvent
      BY <2>1
    <2>3. elab[i].run \in RunKeys
      BY <2>2 DEF RunEvent
    <2> QED BY <2>1, <2>3 DEF ActiveInv, ActiveRun
  <1> QED BY <1>1, <1>2, <1>3, PTL DEF Spec

(* What is marked is in the ledger, saved or not; what was saved and is not *)
(* marked has expired.                                                      *)
LedgerInv ==
  /\ DOMAIN seen \subseteq DOMAIN disk.seen \union unsaved
  /\ DOMAIN disk.seen \subseteq DOMAIN seen \union expired
  /\ \A h \in Handlers : At(h, "bindstatus") =>
       handler[h].event \in DOMAIN disk.seen \union expired \union unsaved

LedgerNow == DOMAIN disk.seen \union expired \union unsaved

LEMMA LedgerInvStep ==
  ASSUME Inv, LedgerInv, [Next]_vars
  PROVE  LedgerInv'
  <1>1. CASE UNCHANGED vars
    BY <1>1 DEF vars, LedgerInv, At
  <1> SUFFICES ASSUME Next PROVE LedgerInv'
    BY <1>1
  <1> DEFINE Sets == /\ DOMAIN seen' \subseteq DOMAIN disk'.seen \union unsaved'
                     /\ DOMAIN disk'.seen \subseteq DOMAIN seen' \union expired'
             Grown == LedgerNow \subseteq LedgerNow'
             Marked(g) == handler'[g].pc = "bindstatus" =>
                            \/ handler[g].pc = "bindstatus" /\ handler'[g].event = handler[g].event
                            \/ handler'[g].event \in LedgerNow'
  <1>2. ASSUME UNCHANGED <<seen, disk, expired, unsaved>> PROVE Sets /\ Grown
    BY <1>2 DEF LedgerInv, LedgerNow
  <1>3. ASSUME UNCHANGED <<seen, expired>>, Saved \/ SaveFails PROVE Sets /\ Grown
    BY <1>3 DEF LedgerInv, LedgerNow, Saved, SaveFails
  <1>4. ASSUME NEW h \in Handlers, NEW e \in EventIds, Call(h, e)
        PROVE  Sets /\ Grown /\ \A g \in Handlers : Marked(g)
    BY <1>2, <1>4, CallEffect DEF OthersWait
  <1>5. ASSUME NEW h \in Handlers,
               \/ IgnoreDuplicate(h) \/ StartIngest(h) \/ LookupRun(h) \/ CreateRunEvent(h)
               \/ GetRunEvent(h) \/ PatchRunEvent(h)
        PROVE  Sets /\ Grown /\ \A g \in Handlers : Marked(g)
    <2>1. /\ UNCHANGED <<seen, disk, expired, unsaved>>
          /\ Ends(h) \/ \E pc \in Pcs \ {"bindstatus"} : Moves(h, pc)
      BY <1>5, IgnoreDuplicateEffect, StartIngestEffect, LookupRunEffect, CreateRunEventEffect,
         GetRunEventEffect, PatchRunEventEffect DEF Pcs
    <2> QED BY <1>2, <2>1 DEF Ends, Moves, OthersWait
  <1>6. ASSUME NEW h \in Handlers, BindRunEvent(h) \/ FinishIngest(h)
        PROVE  Sets /\ Grown /\ \A g \in Handlers : Marked(g)
    <2>1. /\ UNCHANGED <<seen, expired>>
          /\ Saved \/ SaveFails
          /\ Ends(h) \/ Moves(h, "get")
      BY <1>6, BindRunEventEffect, FinishIngestEffect
    <2> QED BY <1>3, <2>1 DEF Ends, Moves, OthersWait
  <1>7. ASSUME NEW h \in Handlers, MarkEvent(h)
        PROVE  Sets /\ Grown /\ \A g \in Handlers : Marked(g)
    <2>1. /\ DOMAIN seen' \subseteq DOMAIN seen \union {handler[h].event}
          /\ expired' = expired \union ((DOMAIN seen \union {handler[h].event}) \ DOMAIN seen')
          /\ \/ Moves(h, "bindstatus") /\ Saved
             \/ Ends(h) /\ SaveFails
      BY <1>7, MarkEventEffect
    <2>2. Sets /\ Grown
      BY <2>1 DEF LedgerInv, LedgerNow, Saved, SaveFails
    <2>3. handler[h].event \in LedgerNow'
      BY <2>1 DEF LedgerNow, Saved, SaveFails
    <2>4. \A g \in Handlers : Marked(g)
      BY <2>1, <2>3 DEF Ends, Moves, OthersWait
    <2> QED BY <2>2, <2>4
  <1>8. ASSUME Restart PROVE Sets /\ Grown /\ \A g \in Handlers : Marked(g)
    BY <1>8, RestartEffect DEF LedgerInv, LedgerNow
  <1>9. Sets /\ Grown /\ \A g \in Handlers : Marked(g)
    <2> HIDE DEF Sets, Grown, Marked
    <2> QED BY <1>4, <1>5, <1>6, <1>7, <1>8, Actions
  <1> QED BY <1>9 DEF LedgerInv, LedgerNow, At

(* The ledger after a step: as before, or with the event the thread has     *)
(* marked; a positive answer is for an event of the ledger.                 *)
LEMMA LedgerStep ==
  ASSUME Inv, LedgerInv, [Next]_vars
  PROVE  [Ledger!Next]_(Ledger!ledgerVars)
  <1> DEFINE Quiet == LedgerNow' = LedgerNow /\ acked' = acked
             Answered(e) == LedgerNow' = LedgerNow /\ acked' = acked \union {e} /\ e \in LedgerNow
             Recorded(e) == LedgerNow' = LedgerNow \union {e} /\ acked' = acked
  <1>1. CASE UNCHANGED vars
    BY <1>1 DEF vars, Ledger!ledgerVars
  <1> SUFFICES ASSUME Next PROVE [Ledger!Next]_(Ledger!ledgerVars)
    BY <1>1
  <1>2. UNCHANGED <<disk, expired, unsaved, acked>> => Quiet
    BY DEF LedgerNow
  <1>3. UNCHANGED <<seen, expired>> /\ (Saved \/ SaveFails) => LedgerNow' = LedgerNow
    BY DEF LedgerInv, LedgerNow, Saved, SaveFails
  <1>4. ASSUME NEW h \in Handlers, NEW e \in EventIds, Call(h, e) PROVE Quiet
    BY <1>2, <1>4, CallEffect
  <1>5. ASSUME NEW h \in Handlers,
               \/ StartIngest(h) \/ LookupRun(h) \/ CreateRunEvent(h)
               \/ GetRunEvent(h) \/ PatchRunEvent(h)
        PROVE  Quiet
    BY <1>2, <1>5, StartIngestEffect, LookupRunEffect, CreateRunEventEffect, GetRunEventEffect,
       PatchRunEventEffect
  <1>6. ASSUME NEW h \in Handlers, IgnoreDuplicate(h) PROVE Answered(handler[h].event)
    <2>1. /\ handler[h].event \in DOMAIN seen /\ acked' = acked \union {handler[h].event}
          /\ UNCHANGED <<disk, expired, unsaved>>
      BY <1>6, IgnoreDuplicateEffect
    <2> QED BY <2>1 DEF LedgerInv, LedgerNow
  <1>7. ASSUME NEW h \in Handlers, BindRunEvent(h) PROVE Quiet
    BY <1>3, <1>7, BindRunEventEffect
  <1>8. ASSUME NEW h \in Handlers, FinishIngest(h) PROVE Quiet \/ Answered(handler[h].event)
    <2>1. handler[h].event \in LedgerNow
      BY <1>8, FinishIngestEffect DEF LedgerInv, LedgerNow, At
    <2> QED BY <1>3, <1>8, <2>1, FinishIngestEffect
  <1>9. ASSUME NEW h \in Handlers, MarkEvent(h) PROVE Recorded(handler[h].event)
    <2>1. /\ DOMAIN seen' \subseteq DOMAIN seen \union {handler[h].event}
          /\ expired' = expired \union ((DOMAIN seen \union {handler[h].event}) \ DOMAIN seen')
          /\ Saved \/ SaveFails
          /\ acked' = acked
      BY <1>9, MarkEventEffect
    <2>2. CASE Saved
      <3>1. disk'.seen = seen' /\ unsaved' = unsaved
        BY <2>2 DEF Saved
      <3> QED BY <2>1, <3>1 DEF LedgerInv, LedgerNow
    <2>3. CASE SaveFails
      <3>1. disk' = disk /\ unsaved' = unsaved \union (DOMAIN seen' \ DOMAIN disk.seen)
        BY <2>3 DEF SaveFails
      <3> QED BY <2>1, <3>1 DEF LedgerInv, LedgerNow
    <2> QED BY <2>1, <2>2, <2>3
  <1>10. ASSUME Restart PROVE Quiet
    BY <1>2, <1>10, RestartEffect
  <1>11. Quiet \/ \E e \in EventIds : Answered(e) \/ Recorded(e)
    <2> HIDE DEF Quiet, Answered, Recorded
    <2> QED BY <1>4, <1>5, <1>6, <1>7, <1>8, <1>9, <1>10, Actions, WorkerFields
  <1> QED BY <1>11 DEF LedgerNow, Ledger!Next, Ledger!Record, Ledger!Acknowledge, Ledger!ledgerVars

(* The pipeline implements the ledger: a client that was answered ok can    *)
(* rely on the event being in state.json, or pruned from it, across crashes *)
(* and restarts, unless a write of that file failed.                        *)
THEOREM IngestImplementsLedger == Spec => ImplementsLedger
  <1> DEFINE I == Inv /\ LedgerInv
  <1>1. Init => I /\ Ledger!Init
    <2> SUFFICES ASSUME Init PROVE LedgerInv /\ Ledger!Init
      BY InitInv
    <2>1. /\ DOMAIN seen = {} /\ disk.seen = seen /\ expired = {} /\ unsaved = {} /\ acked = {}
          /\ \A h \in Handlers : handler[h].pc = "idle"
      BY DEF Init, Idle
    <2> QED BY <2>1 DEF LedgerInv, At, Ledger!Init
  <1>2. I /\ [Next]_vars => I' /\ [Ledger!Next]_(Ledger!ledgerVars)
    BY NextInv, LedgerInvStep, LedgerStep
  <1> QED BY <1>1, <1>2, PTL DEF Spec, ImplementsLedger, Ledger!Spec

(* An event that is marked in memory and in state.json stays so, and nobody *)
(* starts to work on it again, until pruning drops it.                      *)
THEOREM SettledStays == Spec => SettledIsFinal
  <1> DEFINE A == \A e \in EventIds : Settled(e) /\ e \notin expired' => Settled(e)'
  <1>1. Inv /\ [Next]_vars => [A]_vars
    <2> SUFFICES ASSUME Inv, Next, NEW e \in EventIds, Settled(e), e \notin expired'
                 PROVE  Settled(e)'
      OBVIOUS
    <2> DEFINE Quiet(g) == handler'[g].event = e => handler'[g].pc \in {"idle", "check"}
    <2>1. /\ e \in DOMAIN seen /\ e \in DOMAIN disk.seen
          /\ \A g \in Handlers : handler[g].event = e => handler[g].pc \in {"idle", "check"}
      BY DEF Settled
    <2>2. ASSUME UNCHANGED <<seen, disk>> PROVE e \in DOMAIN seen' /\ e \in DOMAIN disk'.seen
      BY <2>1, <2>2
    <2>3. ASSUME NEW h \in Handlers, NEW f \in EventIds, Call(h, f)
          PROVE  Settled(e)'
      BY <2>1, <2>2, <2>3, CallEffect DEF OthersWait, Settled
    <2>4. ASSUME NEW h \in Handlers, IgnoreDuplicate(h) \/ StartIngest(h)
          PROVE  Settled(e)'
      BY <2>1, <2>2, <2>4, IgnoreDuplicateEffect, StartIngestEffect DEF OthersWait, Moves, Ends, Settled
    <2>5. ASSUME NEW h \in Handlers, handler[h].pc \notin {"idle", "check"},
                 Ends(h) \/ \E pc \in Pcs : Moves(h, pc)
          PROVE  \A g \in Handlers : Quiet(g)
      BY <2>1, <2>5 DEF OthersWait, Moves, Ends
    <2>6. ASSUME NEW h \in Handlers,
                 LookupRun(h) \/ CreateRunEvent(h) \/ GetRunEvent(h) \/ PatchRunEvent(h)
          PROVE  Settled(e)'
      <3>1. /\ handler[h].pc \notin {"idle", "check"} /\ UNCHANGED <<seen, disk>>
            /\ Ends(h) \/ \E pc \in Pcs : Moves(h, pc)
        BY <2>6, LookupRunEffect, CreateRunEventEffect, GetRunEventEffect, PatchRunEventEffect DEF Pcs
      <3> QED BY <2>2, <2>5, <3>1 DEF Settled
    <2>7. ASSUME NEW h \in Handlers, BindRunEvent(h) \/ MarkEvent(h) \/ FinishIngest(h)
          PROVE  Settled(e)'
      <3>1. /\ handler[h].pc \notin {"idle", "check"}
            /\ Ends(h) \/ \E pc \in Pcs : Moves(h, pc)
            /\ Saved \/ SaveFails
        BY <2>7, BindRunEventEffect, MarkEventEffect, FinishIngestEffect DEF Pcs
      <3>2. e \in DOMAIN seen'
        BY <2>1, <2>7, BindRunEventEffect, MarkEventEffect, FinishIngestEffect
      <3>3. e \in DOMAIN disk'.seen
        BY <2>1, <3>1, <3>2 DEF Saved, SaveFails
      <3> QED BY <2>5, <3>1, <3>2, <3>3 DEF Settled
    <2>8. CASE Restart
      BY <2>1, <2>8, RestartEffect DEF Settled
    <2> QED BY <2>3, <2>4, <2>6, <2>7, <2>8, Actions
  <1> QED BY <1>1, Invariance, PTL DEF Spec, SettledIsFinal

-------------------------------------------------------------------------------
(* An event that is marked, or is about to be, is in its run event.         *)
Known ==
  acked \union DOMAIN seen \union DOMAIN disk.seen \union
    {handler[h].event : h \in {g \in Handlers : handler[g].pc \in {"mark", "bindstatus"}}}

KnownIsReflected ==
  Without({"patch", "blank"}) => \A e \in Known : Serial(RunKey(e)) => Reflected(e)

LEMMA KnownStep ==
  ASSUME Inv, Next, NEW e \in Known'
  PROVE  e \in Known \/ \E h \in Handlers : PatchRunEvent(h) /\ handler[h].event = e
  <1> DEFINE Done(g) == handler[g].pc \in {"mark", "bindstatus"}
             Told == acked \union DOMAIN seen \union DOMAIN disk.seen
  <1>1. /\ Told \subseteq Known /\ Told' \subseteq Known'
        /\ \A g \in Handlers : Done(g) => handler[g].event \in Known
    BY DEF Known
  <1>2. e \in Told' \/ \E g \in Handlers : Done(g)' /\ handler'[g].event = e
    BY DEF Known
  <1> DEFINE Keeps(g) == Done(g)' => Done(g) /\ handler'[g].event = handler[g].event
  <1>3. ASSUME NEW h \in Handlers, NEW f \in EventIds, Call(h, f)
        PROVE  Told' \subseteq Known /\ \A g \in Handlers : Keeps(g)
    BY <1>1, <1>3, CallEffect DEF OthersWait
  <1>4. ASSUME NEW h \in Handlers,
               \/ IgnoreDuplicate(h) \/ StartIngest(h) \/ LookupRun(h) \/ CreateRunEvent(h)
               \/ GetRunEvent(h)
        PROVE  Told' \subseteq Known /\ \A g \in Handlers : Keeps(g)
    <2>1. /\ UNCHANGED <<seen, disk>>
          /\ \/ acked' = acked
             \/ handler[h].event \in DOMAIN seen /\ acked' = acked \union {handler[h].event}
          /\ Ends(h) \/ \E pc \in Pcs \ {"mark", "bindstatus"} : Moves(h, pc)
      BY <1>4, IgnoreDuplicateEffect, StartIngestEffect, LookupRunEffect, CreateRunEventEffect,
         GetRunEventEffect DEF Pcs
    <2> QED BY <1>1, <2>1 DEF Ends, Moves, OthersWait
  <1>5. ASSUME NEW h \in Handlers, BindRunEvent(h) \/ MarkEvent(h) \/ FinishIngest(h)
        PROVE  Told' \subseteq Known /\ \A g \in Handlers : Keeps(g)
    <2>1. /\ acked' = acked \/ (Done(h) /\ acked' = acked \union {handler[h].event})
          /\ seen' = seen \/ (Done(h) /\ DOMAIN seen' \subseteq DOMAIN seen \union {handler[h].event})
          /\ Saved \/ SaveFails
          /\ Ends(h) \/ Moves(h, "get") \/ (Done(h) /\ Moves(h, "bindstatus"))
      BY <1>5, BindRunEventEffect, MarkEventEffect, FinishIngestEffect
    <2>2. DOMAIN disk'.seen \subseteq DOMAIN seen' \union DOMAIN disk.seen
      BY <2>1 DEF Saved, SaveFails
    <2> QED BY <1>1, <2>1, <2>2 DEF Ends, Moves, OthersWait
  <1>6. ASSUME Restart
        PROVE  Told' \subseteq Known /\ \A g \in Handlers : Keeps(g)
    BY <1>1, <1>6, RestartEffect
  <1>7. ASSUME NEW h \in Handlers, PatchRunEvent(h), e # handler[h].event
        PROVE  e \in Known
    <2>1. UNCHANGED <<seen, disk, acked>> /\ Moves(h, "mark")
      BY <1>7, PatchRunEventEffect
    <2> QED BY <1>1, <1>2, <1>7, <2>1 DEF Moves, OthersWait
  <1>8. ASSUME Told' \subseteq Known, \A g \in Handlers : Keeps(g)
        PROVE  e \in Known
    BY <1>1, <1>2, <1>8
  <1> QED BY <1>3, <1>4, <1>5, <1>6, <1>7, <1>8, Actions

(* A run event shows an event that was merged into it, and goes on to do so *)
(* when others are.                                                         *)
Shows(ev, e) ==
  /\ \/ \E j \in 1 .. Len(ev.events) : ev.events[j] = e
     \/ Len(ev.events) = MaxEventHistory
  /\ Severity[ev.status] >= Severity[StatusFromEvent(Event[e])]

Shown(e) == \E i \in 1 .. Len(elab) : elab[i].run = RunKey(e) /\ Shows(elab[i], e)

ReflectedIsShown == \A e \in EventIds : Reflected(e) <=> Shown(e)

LEMMA ReflectedShows == Inv => ReflectedIsShown
  <1> SUFFICES ASSUME Inv, NEW e \in EventIds PROVE Reflected(e) <=> Shown(e)
    BY DEF ReflectedIsShown
  <1>1. elab \in Seq(RunEvent) /\ DOMAIN elab = 1 .. Len(elab)
    BY Unchanged DEF ElabInv
  <1>2. \A i \in 1 .. Len(elab) : DOMAIN elab[i].events = 1 .. Len(elab[i].events)
    <2> SUFFICES ASSUME NEW i \in 1 .. Len(elab) PROVE DOMAIN elab[i].events = 1 .. Len(elab[i].events)
      OBVIOUS
    <2>1. elab[i] \in RunEvent
      BY <1>1
    <2>2. elab[i].events \in Seq(EventIds)
      BY <2>1 DEF RunEvent
    <2> QED BY <2>2
  <1> QED BY <1>1, <1>2 DEF Reflected, Shows, Shown

LEMMA MergedShows ==
  ASSUME NEW ev \in RunEvent, Len(ev.events) <= MaxEventHistory, NEW f \in EventIds, NEW new,
         Added(ev.events, f, new.events),
         new.status = MergeStatus(ev.status, StatusFromEvent(Event[f]))
  PROVE  Shows(new, f) /\ \A e \in EventIds : Shows(ev, e) => Shows(new, e)
  <1> DEFINE s == ev.events
             t == new.events
  <1>1. /\ ev.status \in Status /\ s \in Seq(EventIds) /\ Len(s) \in Nat
        /\ StatusFromEvent(Event[f]) \in Status
    BY StatusFromEventType DEF RunEvent
  <1>2. /\ new.status \in Status /\ Severity[new.status] >= Severity[ev.status]
        /\ Severity[new.status] >= Severity[StatusFromEvent(Event[f])]
    BY <1>1, MergeStatusFacts
  <1>3. MaxEventHistory \in Nat \ {0}
    BY Constants
  <1>4. /\ t \in Seq(EventIds) /\ Len(t) \in 1 .. MaxEventHistory /\ t[Len(t)] = f
        /\ Len(s) <= Len(t)
        /\ Len(t) < MaxEventHistory => Len(t) = Len(s) + 1
    BY <1>3 DEF Added
  <1>5. PICK d \in Nat :
          /\ Len(s) + 1 = Len(t) + d
          /\ \A j \in 1 .. Len(t) - 1 : j + d \in 1 .. Len(s) /\ t[j] = s[j + d]
    BY DEF Added
  <1> HIDE DEF s, t
  <1>6. Shows(new, f)
    BY <1>2, <1>4 DEF Shows, t
  <1>7. ASSUME NEW e \in EventIds, Shows(ev, e) PROVE Shows(new, e)
    <2>1. Severity[new.status] >= Severity[StatusFromEvent(Event[e])]
      BY <1>1, <1>2, <1>7, Statuses, StatusFromEventType DEF Shows
    <2>2. CASE Len(t) = MaxEventHistory
      BY <2>1, <2>2 DEF Shows, t
    <2>3. CASE Len(t) # MaxEventHistory
      <3>1. d = 0 /\ Len(t) = Len(s) + 1
        BY <1>1, <1>3, <1>4, <1>5, <2>3
      <3>2. \A j \in 1 .. Len(s) : j \in 1 .. Len(t) - 1 /\ j \in 1 .. Len(t) /\ j + d = j
        BY <1>1, <3>1
      <3>3. ASSUME NEW j \in 1 .. Len(s) PROVE t[j] = s[j] /\ j \in 1 .. Len(t)
        <4>1. j \in 1 .. Len(t) - 1 /\ j \in 1 .. Len(t) /\ j + d = j
          BY <3>2
        <4>2. t[j] = s[j + d]
          BY <1>5, <4>1
        <4> QED BY <4>1, <4>2
      <3>4. Len(s) # MaxEventHistory
        BY <1>1, <1>3, <1>4, <3>1
      <3>5. PICK j \in 1 .. Len(s) : s[j] = e
        BY <1>7, <3>4 DEF Shows, s
      <3> QED BY <2>1, <3>3, <3>5 DEF Shows, t
    <2> QED BY <2>2, <2>3
  <1> QED BY <1>6, <1>7

(* The PATCH of a serial run shows the new event and what was shown before. *)
LEMMA SerialPatchShows ==
  ASSUME WorkersInv, NEW h \in Handlers, PatchRunEvent(h), Serial(RunKey(handler[h].event)),
         Next, Without({"patch", "blank"})'
  PROVE  LET i == handler[h].id IN
         /\ i \in 1 .. Len(elab) /\ Shows(elab'[i], handler[h].event)
         /\ \A e \in EventIds : Shows(elab[i], e) => Shows(elab'[i], e)
  <1> DEFINE w == handler[h]
             i == w.id
             new == Merged(elab[i], w.event)
  <1>0. Inv /\ Without({"patch"})' /\ Without({"blank"})
    BY WithoutBefore DEF WorkersInv, Without
  <1>1. Inv /\ w.pc = "patch" /\ elab' = [elab EXCEPT ![i] = Merged(w.snapshot, w.event)]
    BY <1>0, PatchRunEventEffect, NotWithout
  <1>2. /\ w.event \in EventIds /\ i \in 1 .. Len(elab) /\ elab[i] \in RunEvent
        /\ Merged(w.snapshot, w.event) = new
        /\ new.status = MergeStatus(elab[i].status, StatusFromEvent(Event[w.event]))
        /\ Added(elab[i].events, w.event, new.events)
    BY <1>0, <1>1, PatchFacts, SerialPatch
  <1>3. elab \in Seq(RunEvent) /\ Len(elab[i].events) <= MaxEventHistory
    BY <1>1, <1>2, Unchanged DEF ElabInv
  <1> HIDE DEF new
  <1>4. Shows(new, w.event) /\ \A e \in EventIds : Shows(elab[i], e) => Shows(new, e)
    BY <1>2, <1>3, MergedShows
  <1>5. elab'[i] = new
    BY <1>1, <1>2, <1>3
  <1> QED BY <1>2, <1>4, <1>5

LEMMA ReflectedStep ==
  ASSUME WorkersInv, Next, Inv', Without({"patch", "blank"})',
         NEW e \in EventIds, RunKey(e) \notin overlapped',
         Reflected(e) \/ \E h \in Handlers : PatchRunEvent(h) /\ handler[h].event = e
  PROVE  Reflected(e)'
  <1>1. Inv /\ ElabInv(elab) /\ elab \in Seq(RunEvent) /\ Len(elab) \in Nat /\ Serial(RunKey(e))
    BY Unchanged, WorkStep DEF WorkersInv, ElabInv, Serial
  <1>2. (Reflected(e) => Shown(e)) /\ (Shown(e)' => Reflected(e)')
    <2>1. Inv' => ReflectedIsShown'
      BY ReflectedShows, PTL
    <2> QED BY <1>1, <2>1, ReflectedShows DEF ReflectedIsShown
  <1>3. ASSUME NEW h \in Handlers, PatchRunEvent(h)
        PROVE  LET i == handler[h].id IN
               /\ i \in 1 .. Len(elab) /\ Len(elab') = Len(elab)
               /\ elab'[i].run = RunKey(handler[h].event) /\ elab[i].run = RunKey(handler[h].event)
               /\ \A j \in 1 .. Len(elab) : j # i => elab'[j] = elab[j]
    <2> DEFINE i == handler[h].id
               new == Merged(handler[h].snapshot, handler[h].event)
               patched == [elab EXCEPT ![i] = new]
    <2>1. handler[h].pc = "patch" /\ elab' = patched
      <3>1. Without({"patch"})'
        BY DEF Without
      <3> QED BY <1>1, <1>3, <3>1, PatchRunEventEffect, NotWithout
    <2>2. /\ i \in 1 .. Len(elab) /\ Len(patched) = Len(elab) /\ patched[i].run = RunKey(handler[h].event)
          /\ elab[i].run = RunKey(handler[h].event)
          /\ \A j \in 1 .. Len(elab) : j # i => patched[j] = elab[j]
      BY <1>1, <2>1, PatchFacts
    <2> HIDE DEF patched
    <2> QED BY <2>1, <2>2
  <1>4. ASSUME NEW h \in Handlers, PatchRunEvent(h), handler[h].event = e
        PROVE  Shown(e)'
    <2> DEFINE i == handler[h].id
    <2>1. i \in 1 .. Len(elab) /\ Shows(elab'[i], e)
      BY <1>1, <1>4, SerialPatchShows
    <2>2. elab'[i].run = RunKey(e) /\ i \in 1 .. Len(elab')
      BY <1>3, <1>4, <2>1
    <2> QED BY <2>1, <2>2 DEF Shown, Shows
  <1>5. ASSUME Reflected(e) PROVE Shown(e)'
    <2>1. PICK i \in 1 .. Len(elab) : elab[i].run = RunKey(e) /\ Shows(elab[i], e)
      BY <1>2, <1>5 DEF Shown
    <2>2. ASSUME i \in 1 .. Len(elab'), elab'[i] = elab[i] PROVE Shown(e)'
      BY <2>1, <2>2 DEF Shown, Shows
    <2>3. ASSUME NEW h \in Handlers, PatchRunEvent(h) PROVE Shown(e)'
      <3>1. CASE i # handler[h].id
        BY <1>3, <2>2, <2>3, <3>1
      <3>2. CASE i = handler[h].id
        <4>1. Serial(RunKey(handler[h].event)) /\ RunKey(handler[h].event) = RunKey(e)
          BY <1>1, <1>3, <2>1, <2>3, <3>2
        <4>2. Shows(elab'[i], e)
          BY <2>1, <2>3, <3>2, <4>1, SerialPatchShows
        <4>3. i \in 1 .. Len(elab') /\ elab'[i].run = RunKey(e)
          BY <1>3, <2>1, <2>3, <3>2, <4>1
        <4> QED BY <4>2, <4>3 DEF Shown, Shows
      <3> QED BY <3>1, <3>2
    <2>4. ASSUME NEW h \in Handlers, CreateRunEvent(h) PROVE Shown(e)'
      <3>1. Len(elab') >= Len(elab) /\ elab'[i] = elab[i] /\ Len(elab') \in Nat
        BY <1>1, <2>4, CreateRunEventEffect, Unchanged DEF Inv, ElabInv
      <3> QED BY <1>1, <2>2, <3>1
    <2>5. UNCHANGED elab \/ \E h \in Handlers : PatchRunEvent(h) \/ CreateRunEvent(h)
      BY <1>1, Actions, CallEffect, IgnoreDuplicateEffect, StartIngestEffect, LookupRunEffect,
         BindRunEventEffect, GetRunEventEffect, MarkEventEffect, FinishIngestEffect, RestartEffect
    <2> QED BY <2>2, <2>3, <2>4, <2>5
  <1> QED BY <1>2, <1>4, <1>5

LEMMA KnownIsReflectedStep ==
  ASSUME WorkersInv, KnownIsReflected, [Next]_vars, Inv'
  PROVE  KnownIsReflected'
  <1>1. CASE UNCHANGED vars
    BY <1>1 DEF vars, KnownIsReflected, Known, Reflected, Without, Serial
  <1> SUFFICES ASSUME Next, Without({"patch", "blank"})', NEW e \in Known', RunKey(e) \notin overlapped'
               PROVE  Reflected(e)'
    BY <1>1 DEF KnownIsReflected, Serial
  <1>2. Inv /\ Without({"patch", "blank"}) /\ Serial(RunKey(e))
    BY WorkStep DEF WorkersInv, Serial, Without
  <1>3. e \in Known => Reflected(e)
    BY <1>2 DEF KnownIsReflected
  <1>4. e \in Known \/ \E h \in Handlers : PatchRunEvent(h) /\ handler[h].event = e
    BY <1>2, KnownStep
  <1>5. Known' \subseteq EventIds
    BY DEF Known, Inv, SeenInv, CounterInv, HandlerInv, WorkerInv
  <1> QED BY <1>3, <1>4, <1>5, ReflectedStep

(* What PublishReport or a status call was answered ok for is in the run    *)
(* event in eLabFTW, whatever is retried, pruned or restarted, unless a     *)
(* PATCH failed, which _update_run_event swallows, or a GET came without    *)
(* metadata, which it replaces by none.                                     *)
THEOREM AckedEventsAreReflected == Spec => []AckedIsReflected
  <1> DEFINE I == WorkersInv /\ KnownIsReflected
  <1>1. Init => I
    <2> SUFFICES ASSUME Init PROVE KnownIsReflected
      BY InitInv, WorkersInit DEF WorkersInv
    <2>1. Known = {}
      <3>1. /\ DOMAIN seen = {} /\ disk.seen = seen /\ acked = {}
            /\ \A h \in Handlers : handler[h].pc = "idle"
        BY DEF Init, Idle
      <3> QED BY <3>1 DEF Known
    <2> QED BY <2>1 DEF KnownIsReflected
  <1>2. I /\ [Next]_vars => I'
    BY NextInv, OneWorkerStep, FreshSnapshotStep, KnownIsReflectedStep DEF WorkersInv
  <1>3. I => AckedIsReflected
    BY DEF KnownIsReflected, AckedIsReflected, Known
  <1> QED BY <1>1, <1>2, <1>3, PTL DEF Spec

-------------------------------------------------------------------------------
(* An event is in one place at most, and nobody is about to add it again.   *)
Adding == {"lookup", "create", "create2", "recreate", "recreate2", "bind", "get", "patch"}

Holds(e, i, j) ==
  i \in 1 .. Len(elab) /\ j \in 1 .. Len(elab[i].events) /\ elab[i].events[j] = e

CountedOnce(e) ==
  /\ \A h \in Handlers : handler[h].event = e /\ handler[h].pc \in Adding
       => e \notin DOMAIN seen /\ \A i, j \in Nat : ~Holds(e, i, j)
  /\ \A i, j \in Nat : Holds(e, i, j) =>
       \/ e \in DOMAIN seen
       \/ \E h \in Handlers : handler[h].pc = "mark" /\ handler[h].event = e
  /\ \A i, j, k, l \in Nat : Holds(e, i, j) /\ Holds(e, k, l) => i = k /\ j = l

CountedInv ==
  Without({"crash"}) => \A e \in EventIds : Serial(RunKey(e)) /\ e \notin expired => CountedOnce(e)

(* A PATCH moves the events of its run event down and adds its own; an      *)
(* event of another run stays where it is.                                  *)
LEMMA PatchHolds ==
  ASSUME WorkersInv, NEW h \in Handlers, PatchRunEvent(h), NEW e \in EventIds,
         RunKey(e) \notin overlapped'
  PROVE  \E d \in Nat : \A i, j \in Nat : Holds(e, i, j)' =>
           \/ i # handler[h].id /\ Holds(e, i, j)
           \/ i = handler[h].id /\ Holds(e, i, j + d)
           \/ /\ i = handler[h].id /\ j = Len(elab'[i].events)
              /\ handler[h].event = e
  <1> DEFINE w == handler[h]
             n == w.id
             new == Merged(w.snapshot, w.event)
             patched == [elab EXCEPT ![n] = new]
  <1>1. /\ Inv /\ w.pc = "patch" /\ overlapped' = overlapped
        /\ elab' = patched \/ elab' = elab
    BY PatchRunEventEffect DEF WorkersInv
  <1>2. /\ n \in 1 .. Len(elab) /\ w.event \in EventIds /\ new.run = RunKey(w.event) /\ OwnEvents(new)
        /\ Len(patched) = Len(elab) /\ patched[n] = new
        /\ \A j \in 1 .. Len(elab) : j # n => patched[j] = elab[j]
    BY <1>1, PatchFacts
  <1>3. CASE elab' = elab
    <2>1. \A i, j \in Nat : Holds(e, i, j)' => Holds(e, i, j) /\ j + 0 = j
      BY <1>3 DEF Holds
    <2>2. 0 \in Nat
      OBVIOUS
    <2> QED BY Zenon, <2>1, <2>2
  <1>4. CASE elab' = patched /\ RunKey(w.event) # RunKey(e)
    <2> HIDE DEF patched, new
    <2>1. \A i, j \in Nat : Holds(e, i, j)' => i # n
      BY <1>2, <1>4 DEF Holds, OwnEvents
    <2>2. \A i, j \in Nat : Holds(e, i, j)' => i # n /\ Holds(e, i, j)
      BY <1>2, <1>4, <2>1 DEF Holds
    <2>3. 0 \in Nat
      OBVIOUS
    <2> QED BY Zenon, <2>2, <2>3
  <1>5. CASE elab' = patched /\ RunKey(w.event) = RunKey(e)
    <2>1. Serial(RunKey(w.event))
      BY <1>1, <1>5 DEF Serial
    <2> DEFINE t == new.events
               s == w.snapshot.events
    <2>2. Added(s, w.event, t) /\ (s = elab[n].events \/ s = <<>>)
      BY <1>1, <2>1, PatchFacts DEF WorkersInv, FreshSnapshot, Fresh, At
    <2> HIDE DEF patched, new
    <2>3. PICK d \in Nat :
            /\ Len(s) + 1 = Len(t) + d
            /\ \A j \in 1 .. Len(t) - 1 : j + d \in 1 .. Len(s) /\ t[j] = s[j + d]
      BY <2>2 DEF Added
    <2>4. /\ Len(t) \in Nat /\ t[Len(t)] = w.event
          /\ elab'[n].events = t /\ n \in 1 .. Len(elab) /\ n \in Nat
      BY <1>2, <1>5, <2>2, Constants DEF Added
    <2> HIDE DEF s, t
    <2>5. ASSUME NEW i \in Nat, NEW j \in Nat, Holds(e, i, j)', i # n
          PROVE  Holds(e, i, j)
      BY <1>2, <1>5, <2>5 DEF Holds
    <2>6. ASSUME NEW i \in Nat, NEW j \in Nat, Holds(e, i, j)', i = n, j # Len(elab'[n].events)
          PROVE  Holds(e, i, j + d)
      <3>1. j \in 1 .. Len(t) /\ j # Len(t) /\ t[j] = e
        BY <2>4, <2>6 DEF Holds
      <3>2. j + d \in 1 .. Len(s) /\ s[j + d] = e
        BY <2>3, <2>4, <3>1
      <3>3. s = elab[n].events
        BY <2>2, <3>2
      <3> QED BY <2>4, <2>6, <3>2, <3>3 DEF Holds
    <2>7. ASSUME NEW i \in Nat, NEW j \in Nat, Holds(e, i, j)', i = n, j = Len(elab'[n].events)
          PROVE  w.event = e
      BY <2>4, <2>7 DEF Holds
    <2>8. \A i, j \in Nat : Holds(e, i, j)' =>
            \/ i # n /\ Holds(e, i, j)
            \/ i = n /\ Holds(e, i, j + d)
            \/ i = n /\ j = Len(elab'[i].events) /\ w.event = e
      BY <2>4, <2>5, <2>6, <2>7
    <2> QED BY <2>8
  <1> QED BY <1>1, <1>3, <1>4, <1>5

LEMMA CountedInvStep ==
  ASSUME WorkersInv, CountedInv, [Next]_vars
  PROVE  CountedInv'
  <1>1. CASE UNCHANGED vars
    BY <1>1 DEF vars, CountedInv, CountedOnce, Holds, Without, Serial
  <1> SUFFICES ASSUME Next, Without({"crash"})', NEW e \in EventIds,
                      RunKey(e) \notin overlapped', e \notin expired'
               PROVE  CountedOnce(e)'
    BY <1>1 DEF CountedInv, Serial
  <1>2. Inv /\ OneWorker /\ Without({"crash"}) /\ Serial(RunKey(e)) /\ ~Restart
    BY WithoutBefore, WorkStep, NotWithout DEF WorkersInv, Serial, Restart
  <1>3. expired \subseteq expired'
    BY <1>2, Actions, CallEffect, IgnoreDuplicateEffect, StartIngestEffect, LookupRunEffect,
       CreateRunEventEffect, BindRunEventEffect, GetRunEventEffect, PatchRunEventEffect,
       MarkEventEffect, FinishIngestEffect
  <1>4. CountedOnce(e)
    BY <1>2, <1>3 DEF CountedInv
  <1> DEFINE Fewer == \A i, j \in Nat : Holds(e, i, j)' => Holds(e, i, j)
             Nowhere == \A i, j \in Nat : ~Holds(e, i, j)
             On(g) == handler[g].event = e
             Adds(g) == On(g) /\ handler[g].pc \in Adding
             Marks(g) == On(g) /\ handler[g].pc = "mark"
  <1>5. ASSUME NEW g \in Handlers, NEW h \in Handlers, On(g), On(h),
               handler[g].pc # "idle", handler[h].pc # "idle"
        PROVE  g = h
    BY <1>2, <1>5, AloneFacts
  <1>6. ASSUME UNCHANGED elab PROVE Fewer
    BY <1>6 DEF Holds
  <1>7. ASSUME Fewer, UNCHANGED seen,
               \A g \in Handlers : Adds(g)' => Adds(g) \/ (e \notin DOMAIN seen /\ Nowhere),
               \A g \in Handlers : Marks(g) => Marks(g)'
        PROVE  CountedOnce(e)'
    BY <1>4, <1>7 DEF CountedOnce
  <1>8. ASSUME NEW h \in Handlers, NEW f \in EventIds, Call(h, f)
        PROVE  CountedOnce(e)'
    BY <1>2, <1>6, <1>7, <1>8, CallEffect DEF OthersWait, Adding
  <1>9. ASSUME NEW h \in Handlers, IgnoreDuplicate(h) \/ FinishIngest(h)
        PROVE  CountedOnce(e)'
    BY <1>2, <1>6, <1>7, <1>9, IgnoreDuplicateEffect, FinishIngestEffect DEF OthersWait, Ends, Adding
  <1>10. ASSUME NEW h \in Handlers, StartIngest(h)
         PROVE  CountedOnce(e)'
    <2>1. /\ handler[h].pc = "check" /\ Moves(h, "lookup") /\ handler[h].event \notin DOMAIN seen
          /\ UNCHANGED <<seen, elab>>
      BY <1>2, <1>10, StartIngestEffect
    <2>2. On(h) => \A g \in Handlers : ~Marks(g)
      BY <1>5, <2>1
    <2>3. On(h) => e \notin DOMAIN seen /\ Nowhere
      BY <1>4, <2>1, <2>2 DEF CountedOnce
    <2> QED BY <1>6, <1>7, <2>1, <2>3 DEF OthersWait, Moves, Adding
  <1>11. ASSUME NEW h \in Handlers,
                LookupRun(h) \/ CreateRunEvent(h) \/ BindRunEvent(h) \/ GetRunEvent(h)
         PROVE  CountedOnce(e)'
    <2>1. /\ handler[h].pc \in Adding /\ UNCHANGED seen
          /\ Ends(h) \/ \E pc \in Adding : Moves(h, pc)
      BY <1>2, <1>11, LookupRunEffect, CreateRunEventEffect, BindRunEventEffect, GetRunEventEffect
      DEF Adding
    <2>2. Fewer
      <3>1. CASE UNCHANGED elab
        BY <1>6, <3>1
      <3>2. CASE CreateRunEvent(h)
        BY <1>2, <3>2, CreateRunEventEffect DEF Holds
      <3> QED BY <1>2, <1>11, <3>1, <3>2, LookupRunEffect, BindRunEventEffect, GetRunEventEffect
    <2> QED BY <1>7, <2>1, <2>2 DEF OthersWait, Moves, Ends, Adding
  <1>12. ASSUME NEW h \in Handlers, PatchRunEvent(h)
         PROVE  CountedOnce(e)'
    <2>1. handler[h].pc = "patch" /\ Moves(h, "mark") /\ UNCHANGED seen
      BY <1>2, <1>12, PatchRunEventEffect
    <2>2. PICK d \in Nat : \A i, j \in Nat : Holds(e, i, j)' =>
            \/ i # handler[h].id /\ Holds(e, i, j)
            \/ i = handler[h].id /\ Holds(e, i, j + d)
            \/ i = handler[h].id /\ j = Len(elab'[i].events) /\ On(h)
      BY <1>12, PatchHolds
    <2>3. CASE On(h)
      <3>1. e \notin DOMAIN seen /\ Nowhere
        BY <1>4, <2>1, <2>3 DEF CountedOnce, Adding
      <3>2. \A i, j \in Nat : Holds(e, i, j)' => i = handler[h].id /\ j = Len(elab'[i].events)
        BY <2>2, <3>1
      <3>3. \A g \in Handlers : ~Adds(g)'
        BY <1>5, <2>1, <2>3 DEF Moves, OthersWait, Adding
      <3>4. Marks(h)'
        BY <2>1, <2>3 DEF Moves
      <3> QED BY <3>2, <3>3, <3>4 DEF CountedOnce
    <2>4. CASE ~On(h)
      <3>1. \A i, j \in Nat : Holds(e, i, j)' =>
              \/ i # handler[h].id /\ Holds(e, i, j)
              \/ i = handler[h].id /\ Holds(e, i, j + d)
        BY <2>2, <2>4
      <3>2. \A g \in Handlers : (Adds(g)' => Adds(g)) /\ (Marks(g) => Marks(g)')
        BY <2>1, <2>4 DEF Moves, OthersWait, Adding
      <3>3. \A j \in Nat : j + d \in Nat
        BY <2>2
      <3>4. \A g \in Handlers : Adds(g)' => e \notin DOMAIN seen' /\ \A i, j \in Nat : ~Holds(e, i, j)'
        BY <1>4, <2>1, <3>1, <3>2, <3>3 DEF CountedOnce
      <3>5. ASSUME NEW i \in Nat, NEW j \in Nat, Holds(e, i, j)'
            PROVE  e \in DOMAIN seen' \/ \E g \in Handlers : Marks(g)'
        BY <1>4, <2>1, <3>1, <3>2, <3>3, <3>5 DEF CountedOnce
      <3>6. ASSUME NEW i \in Nat, NEW j \in Nat, NEW k \in Nat, NEW l \in Nat,
                   Holds(e, i, j)', Holds(e, k, l)'
            PROVE  i = k /\ j = l
        BY <1>4, <3>1, <3>3, <3>6 DEF CountedOnce
      <3> QED BY <3>4, <3>5, <3>6 DEF CountedOnce
    <2> QED BY <2>3, <2>4
  <1>13. ASSUME NEW h \in Handlers, MarkEvent(h)
         PROVE  CountedOnce(e)'
    <2>1. /\ handler[h].pc = "mark" /\ UNCHANGED elab
          /\ DOMAIN seen' \subseteq DOMAIN seen \union {handler[h].event}
          /\ expired' = expired \union ((DOMAIN seen \union {handler[h].event}) \ DOMAIN seen')
          /\ Ends(h) \/ Moves(h, "bindstatus")
      BY <1>2, <1>13, MarkEventEffect
    <2>2. Fewer
      BY <1>6, <2>1
    <2>3. \A g \in Handlers : Adds(g)' => Adds(g) /\ ~On(h)
      BY <1>5, <2>1 DEF Moves, Ends, OthersWait, Adding
    <2>4. On(h) \/ e \in DOMAIN seen => e \in DOMAIN seen'
      BY <2>1
    <2>5. \A g \in Handlers : Marks(g) => On(h) \/ Marks(g)'
      BY <2>1 DEF Moves, Ends, OthersWait
    <2>6. ~On(h) => (e \in DOMAIN seen' => e \in DOMAIN seen)
      BY <2>1
    <2> QED BY <1>4, <2>2, <2>3, <2>4, <2>5, <2>6 DEF CountedOnce
  <1> QED BY <1>2, <1>8, <1>9, <1>10, <1>11, <1>12, <1>13, Actions

(* However often an event is delivered, one thread at a time adds it to one *)
(* run event once: the check of has_event and the mark of _ingest_v1_event  *)
(* are enough for that, unless the service crashes between the two or the   *)
(* mark is pruned.                                                          *)
THEOREM EventsAreCountedOnce == Spec => []SerialCountedOnce
  <1> DEFINE I == WorkersInv /\ CountedInv
  <1>1. Init => I
    <2> SUFFICES ASSUME Init, NEW e \in EventIds PROVE CountedOnce(e)
      BY InitInv, WorkersInit DEF WorkersInv, CountedInv
    <2>1. Len(elab) = 0 /\ \A h \in Handlers : handler[h].pc = "idle"
      BY DEF Init, Idle
    <2> QED BY <2>1 DEF CountedOnce, Holds, Adding
  <1>2. I /\ [Next]_vars => I'
    BY NextInv, OneWorkerStep, FreshSnapshotStep, CountedInvStep DEF WorkersInv
  <1>3. I => SerialCountedOnce
    <2> SUFFICES ASSUME I, Without({"crash"}), NEW e \in EventIds, Serial(RunKey(e)), e \notin expired
                 PROVE  Cardinality(Entries(e)) <= 1
      BY DEF SerialCountedOnce
    <2>1. CountedOnce(e) /\ elab \in Seq(RunEvent) /\ MaxEventHistory \in Nat
      BY Unchanged, Constants DEF WorkersInv, CountedInv, ElabInv
    <2>2. ASSUME NEW p \in Entries(e)
          PROVE  p = <<p[1], p[2]>> /\ p[1] \in Nat /\ p[2] \in Nat /\ Holds(e, p[1], p[2])
      <3>1. p[1] \in 1 .. Len(elab) /\ p[2] \in 1 .. MaxEventHistory /\ p = <<p[1], p[2]>>
        BY <2>1 DEF Entries
      <3>2. p[2] <= Len(elab[p[1]].events) /\ elab[p[1]].events[p[2]] = e
        BY DEF Entries
      <3>3. elab[p[1]] \in RunEvent
        BY <2>1, <3>1
      <3>4. elab[p[1]].events \in Seq(EventIds)
        BY <3>3 DEF RunEvent
      <3> QED BY <2>1, <3>1, <3>2, <3>4 DEF Holds
    <2>3. \A p, q \in Entries(e) : p = q
      BY <2>1, <2>2 DEF CountedOnce
    <2>4. CASE Entries(e) = {}
      BY <2>4, FS_EmptySet
    <2>5. CASE Entries(e) # {}
      <3>1. PICK p \in Entries(e) : Entries(e) = {p}
        BY <2>3, <2>5
      <3>2. Cardinality({p}) = 1
        BY FS_Singleton
      <3> QED BY <3>1, <3>2
    <2> QED BY <2>4, <2>5
  <1> QED BY <1>1, <1>2, <1>3, PTL DEF Spec
===============================================================================
