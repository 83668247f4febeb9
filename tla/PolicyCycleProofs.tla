--------------------------- MODULE PolicyCycleProofs ---------------------------
(***************************************************************************)
(* Proofs about PolicyCycle, for any experiments, designs, windows, edits   *)
(* and restarts: the agent executes what the server selected, whether it    *)
(* was sent the policy or took it from its cache, and a policy with a       *)
(* window of its own that is to be executed once is completed once.  First  *)
(* the arithmetic of the upload slots, for every window and agent.          *)
(***************************************************************************)
EXTENDS PolicyCycle, FiniteSetTheorems, TLAPS

(* What is used of \div and %.                                              *)
LEMMA Division ==
  ASSUME NEW a \in Nat, NEW b \in Nat \ {0}
  PROVE  /\ a \div b \in Nat
         /\ (a \div b) * b <= a
  BY SMT

LEMMA Remainder ==
  ASSUME NEW a \in Nat, NEW b \in Nat \ {0}
  PROVE  a % b \in Nat /\ a % b < b
  BY SMT

LEMMA TimesMonotone ==
  ASSUME NEW a \in Nat, NEW b \in Nat, NEW c \in Nat, a <= b
  PROVE  a * c <= b * c
  BY SMT

(* The jitter is a whole number of units and leaves one unit of the slot.   *)
LEMMA JitterFits ==
  ASSUME NEW cfg \in Configs, NEW dev \in Devices, Valid(cfg)
  PROVE  /\ Jitter(cfg, dev) \in Nat
         /\ Jitter(cfg, dev) * cfg.slots < cfg.to - cfg.from
  <1> DEFINE len == cfg.to - cfg.from
             span == SlotSpan(cfg)
  <1>1. cfg.slots \in Nat \ {0} /\ cfg.jitter \in Nat /\ len \in Nat \ {0} /\ dev.shift \in Nat
    BY DEF Configs, Devices, Valid
  <1>2. span \in Nat /\ span * cfg.slots <= len
    BY <1>1, Division DEF SlotSpan
  <1>3. CASE cfg.jitter > 0 /\ span > 1
    <2>1. JitterCap(cfg) \in Nat /\ JitterCap(cfg) <= span - 1
      BY <1>1, <1>2, <1>3 DEF JitterCap
    <2>2. Jitter(cfg, dev) \in 0 .. JitterCap(cfg)
      <3>1. JitterCap(cfg) + 1 \in Nat \ {0}
        BY <2>1
      <3>2. \A b \in Nat \ {0} : dev.shift % b \in Nat /\ dev.shift % b < b
        BY <1>1, Remainder
      <3>3. LET b == JitterCap(cfg) + 1 IN dev.shift % b \in Nat /\ dev.shift % b < b
        BY <3>1, <3>2
      <3> QED BY <1>3, <2>1, <3>3 DEF Jitter
    <2>3. Jitter(cfg, dev) + 1 <= span
      BY <1>2, <2>1, <2>2
    <2>4. (Jitter(cfg, dev) + 1) * cfg.slots <= span * cfg.slots
      BY <1>1, <1>2, <2>1, <2>2, <2>3, TimesMonotone
    <2>5. (Jitter(cfg, dev) + 1) * cfg.slots = Jitter(cfg, dev) * cfg.slots + cfg.slots
      BY <1>1, <2>1, <2>2
    <2>6. Jitter(cfg, dev) \in Nat /\ Jitter(cfg, dev) * cfg.slots \in Nat
      BY <1>1, <2>1, <2>2
    <2>7. Jitter(cfg, dev) * cfg.slots + cfg.slots <= len
      <3>1. span * cfg.slots \in Nat
        BY <1>1, <1>2
      <3> HIDE DEF span
      <3> QED BY <1>1, <1>2, <2>4, <2>5, <2>6, <3>1
    <2> QED BY <1>1, <2>6, <2>7
  <1>4. CASE ~(cfg.jitter > 0 /\ span > 1)
    <2>1. Jitter(cfg, dev) = 0
      BY <1>4 DEF Jitter
    <2> QED BY <1>1, <2>1
  <1> QED BY <1>3, <1>4

(* The edges of the slots follow one another, from the start of the window  *)
(* to its end.                                                              *)
LEMMA EdgesInOrder ==
  ASSUME NEW cfg \in Configs, Valid(cfg), NEW i \in Nat, NEW j \in Nat, i <= j
  PROVE  /\ Edge(cfg, i) \in Nat /\ Edge(cfg, j) \in Nat
         /\ Edge(cfg, i) <= Edge(cfg, j)
         /\ Edge(cfg, i + 1) = Edge(cfg, i) + (cfg.to - cfg.from)
         /\ Edge(cfg, 0) = cfg.from * cfg.slots
         /\ Edge(cfg, cfg.slots) = cfg.to * cfg.slots
  <1> DEFINE len == cfg.to - cfg.from
  <1>1. cfg.slots \in Nat \ {0} /\ cfg.from \in Nat /\ cfg.to \in Nat /\ len \in Nat
    BY DEF Configs, Valid
  <1>2. i * len <= j * len
    BY <1>1, TimesMonotone
  <1>3. len * i = i * len /\ len * j = j * len /\ len * i \in Nat /\ len * j \in Nat
    BY <1>1
  <1>4. cfg.from * cfg.slots \in Nat
    BY <1>1
  <1>5. len * (i + 1) = len * i + len
    BY <1>1
  <1>6. len * cfg.slots = cfg.to * cfg.slots - cfg.from * cfg.slots
    BY <1>1
  <1>7. cfg.to * cfg.slots \in Nat /\ len * 0 = 0
    BY <1>1
  <1> QED BY <1>1, <1>2, <1>3, <1>4, <1>5, <1>6, <1>7 DEF Edge

(* The slot of every agent is a proper part of the window, whatever its     *)
(* jitter: _upload_slot_window_bounds never returns an empty slot, and an   *)
(* agent that is sent a valid window has a time to upload.                  *)
THEOREM SlotsAreProper ==
  ASSUME NEW cfg \in Configs, NEW dev \in Devices, Valid(cfg)
  PROVE  ProperSlot(cfg, dev)
  <1> DEFINE i == SlotIndex(cfg, dev)
  <1>1. cfg.slots \in Nat \ {0} /\ dev.slot \in Nat /\ cfg.from \in Nat /\ cfg.to \in Nat
    BY DEF Configs, Devices
  <1>2. i \in Nat /\ i + 1 <= cfg.slots /\ i + 1 \in Nat
    <2>1. dev.slot % cfg.slots \in Nat /\ dev.slot % cfg.slots < cfg.slots
      BY <1>1, Remainder
    <2> QED BY <1>1, <2>1 DEF SlotIndex
  <1>3. /\ Edge(cfg, 0) <= Edge(cfg, i) /\ Edge(cfg, 0) = cfg.from * cfg.slots
        /\ Edge(cfg, i) \in Nat /\ Edge(cfg, 0) \in Nat
    BY <1>2, EdgesInOrder
  <1>4. Edge(cfg, i + 1) = Edge(cfg, i) + (cfg.to - cfg.from) /\ Edge(cfg, i + 1) \in Nat
    BY <1>2, EdgesInOrder
  <1>5. Edge(cfg, i + 1) <= Edge(cfg, cfg.slots) /\ Edge(cfg, cfg.slots) = cfg.to * cfg.slots
    BY <1>1, <1>2, EdgesInOrder
  <1>6. /\ Jitter(cfg, dev) * cfg.slots \in Nat
        /\ Jitter(cfg, dev) * cfg.slots < cfg.to - cfg.from
    <2>1. Jitter(cfg, dev) \in Nat /\ Jitter(cfg, dev) * cfg.slots < cfg.to - cfg.from
      BY JitterFits
    <2> QED BY <1>1, <2>1
  <1> HIDE DEF i
  <1> QED BY <1>1, <1>3, <1>4, <1>5, <1>6 DEF ProperSlot, SlotStart, SlotEnd, i

(* Agents with different slots take turns: the later one may not begin      *)
(* before the earlier one has to end.                                       *)
THEOREM SlotsTakeTurns ==
  ASSUME NEW cfg \in Configs, NEW dev1 \in Devices, NEW dev2 \in Devices, Valid(cfg)
  PROVE  SlotsApart(cfg, dev1, dev2)
  <1> SUFFICES ASSUME SlotIndex(cfg, dev1) < SlotIndex(cfg, dev2)
               PROVE  SlotEnd(cfg, dev1) <= SlotStart(cfg, dev2)
    BY DEF SlotsApart
  <1> DEFINE i == SlotIndex(cfg, dev1)
             j == SlotIndex(cfg, dev2)
  <1>1. cfg.slots \in Nat \ {0} /\ dev1.slot \in Nat /\ dev2.slot \in Nat
    BY DEF Configs, Devices
  <1>2. i \in Nat /\ j \in Nat /\ i + 1 <= j
    <2>1. dev1.slot % cfg.slots \in Nat /\ dev2.slot % cfg.slots \in Nat
      BY <1>1, Remainder
    <2> QED BY <2>1 DEF SlotIndex
  <1>3. /\ Edge(cfg, i + 1) <= Edge(cfg, j)
        /\ Edge(cfg, i + 1) \in Nat /\ Edge(cfg, j) \in Nat
    BY <1>2, EdgesInOrder
  <1>4. Jitter(cfg, dev2) * cfg.slots \in Nat
    BY <1>1, JitterFits
  <1> QED BY <1>3, <1>4 DEF SlotStart, SlotEnd

-------------------------------------------------------------------------------
(* The policies.                                                            *)

USE SelectionAssumption, CycleAssumption

(* Every action of Next by name, the case split of the proofs below.        *)
LEMMA Actions ==
  ASSUME Next
  PROVE  \/ NoWork \/ AnswerOk \/ NotModified \/ SkipOrDefer \/ Refused \/ Begin \/ Finish
         \/ Send \/ Keep \/ Restart \/ Stop \/ Tick
         \/ \E e \in Experiments, n \in Names \union {NoPolicy} : Edit(e, n)
  BY Zenon DEF Next, AgentStep

-------------------------------------------------------------------------------
(* A window that a policy determines is the same whenever it is sent.       *)
LEMMA DatedWindow ==
  ASSUME NEW d, Dated(d), NEW t, NEW u
  PROVE  MeasurementWindow(d, t) = MeasurementWindow(d, u)
  BY DEF Dated, MeasurementWindow

(* The windows, bodies and upload windows there can be.  That these are     *)
(* windows of numbers is shown at the end, with the types.                  *)
Windows == {MeasurementWindow(Designs[n], t) : n \in Names, t \in Nat} \union {Nowhere}
AnyBody == [id : Ids \union {NoId}, window : Windows]
Uploads == {UploadConfig(Base, DesignOf(b.id), b.window) : b \in AnyBody} \union {Base}

AgentType == [pc : Pcs, last : Ids \union {NoId}, cached : AnyBody, policy : AnyBody,
              cfg : Uploads, bypass : BOOLEAN, offer : AnyBody]
HistoryType == [runs : Nat, finished : SUBSET [no : Nat, body : AnyBody], edits : Nat, stops : Nat]

Shape ==
  /\ now \in Nat
  /\ policyOf \in [Experiments -> Names \union {NoPolicy}]
  /\ agent \in AgentType
  /\ history \in HistoryType

(* A body as the server sends it: with the window its policy determines.    *)
Genuine(b) ==
  /\ b.id # NoId
  /\ Dated(DesignOf(b.id)) => b.window = MeasurementWindow(DesignOf(b.id), 1)

LEMMA OfferFacts ==
  ASSUME Shape, NEW offer \in Offers
  PROVE  offer \in AnyBody /\ Genuine(offer)
  <1>1. PICK e \in Experiments :
          /\ Selected(policyOf, now, e)
          /\ offer = Body(<<e, policyOf[e]>>, MeasurementWindow(Designs[policyOf[e]], now))
    BY DEF Offers
  <1> DEFINE n == policyOf[e]
  <1>2. n \in Names /\ e # 0
    BY <1>1 DEF Selected, Candidates, Shape
  <1>3. offer.id = <<e, n>> /\ offer.window = MeasurementWindow(Designs[n], now) /\ DesignOf(offer.id) = Designs[n]
    BY <1>1 DEF Body, DesignOf
  <1> HIDE DEF n
  <1>4. offer.id \in Ids /\ offer.id # NoId
    BY <1>2, <1>3 DEF Ids, NoId
  <1>5. offer.window \in Windows
    BY <1>2, <1>3 DEF Windows, Shape
  <1>6. offer \in AnyBody
    BY <1>1, <1>4, <1>5 DEF AnyBody, Body
  <1>7. Genuine(offer)
    BY <1>3, <1>4, DatedWindow DEF Genuine
  <1> QED BY <1>6, <1>7

LEMMA NothingTyped == NoBody \in AnyBody /\ NoBody.id = NoId /\ NoId \in Ids \union {NoId}
  BY DEF NoBody, Body, AnyBody, Windows

LEMMA FreshTyped ==
  /\ Fresh \in AgentType /\ [Fresh EXCEPT !.pc = "down"] \in AgentType
  /\ Fresh.pc = "flush" /\ Fresh.cached = NoBody /\ [Fresh EXCEPT !.pc = "down"].cached = NoBody
  /\ [Fresh EXCEPT !.pc = "down"].pc = "down"
  /\ Fresh.policy = NoBody /\ [Fresh EXCEPT !.pc = "down"].policy = NoBody
  BY NothingTyped DEF Fresh, AgentType, Pcs, Uploads

-------------------------------------------------------------------------------
(* The inductive invariant.                                                 *)

Once(b) == ~DesignOf(b.id).recurring

Completed(b) == b \in DOMAIN index /\ index[b].state = "completed"

(* What the agent keeps and executes is as the server sends it; whatever is *)
(* to be executed once is recorded as completed when it has been, and is    *)
(* not executed again.                                                      *)
CycleInv ==
  /\ agent.cached.id = NoId \/ Genuine(agent.cached)
  /\ agent.pc \in {"decide", "run"} =>
       Genuine(agent.policy) /\ Genuine(agent.offer) /\ agent.policy.id = agent.offer.id
  /\ \A r \in history.finished : Genuine(r.body) /\ (Once(r.body) => Completed(r.body))
  /\ agent.pc = "run" /\ Once(agent.policy) => \A r \in history.finished : r.body # agent.policy
  /\ spool \subseteq history.finished
  /\ OnceIsOnce

LEMMA InvInit == Init => Shape /\ CycleInv
  <1> SUFFICES ASSUME Init PROVE Shape /\ CycleInv
    OBVIOUS
  <1>1. Shape
    BY FreshTyped DEF Init, Shape, HistoryType
  <1>2. history.finished = {} /\ spool = {} /\ agent = Fresh
    BY DEF Init
  <1>3. CycleInv
    BY <1>2, FreshTyped, NothingTyped DEF CycleInv, OnceIsOnce
  <1> QED BY <1>1, <1>3

(* The agent's step to a state in which it holds no policy to execute.      *)
LEMMA IdleKeeps ==
  ASSUME Shape, CycleInv, UNCHANGED <<policyOf, index, spool>>, now' \in Nat,
         history' \in HistoryType, history'.finished = history.finished,
         agent' \in AgentType, agent'.pc \in {"flush", "poll", "down"},
         agent'.cached.id = NoId \/ agent'.cached = agent.cached
  PROVE  Shape' /\ CycleInv'
  <1>1. Shape'
    BY DEF Shape
  <1>2. OnceIsOnce'
    BY DEF CycleInv, OnceIsOnce
  <1>3. CycleInv'
    BY <1>2 DEF CycleInv, Completed
  <1> QED BY <1>1, <1>3

(* The agent takes a policy in hand.                                        *)
LEMMA TakeKeeps ==
  ASSUME Shape, CycleInv, UNCHANGED <<now, policyOf, index, spool, history>>,
         NEW body \in AnyBody, NEW offer \in AnyBody, Genuine(body), Genuine(offer),
         body.id = offer.id,
         \/ agent' = [Take(body) EXCEPT !.cached = body, !.offer = offer]
         \/ agent' = [Take(body) EXCEPT !.offer = offer]
  PROVE  Shape' /\ CycleInv'
  <1>1. UploadConfig(Base, DesignOf(body.id), body.window) \in Uploads
    BY DEF Uploads
  <1> DEFINE cfg == UploadConfig(Base, DesignOf(body.id), body.window)
  <1>2. Take(body) = [agent EXCEPT !.pc = "decide", !.policy = body, !.cfg = cfg]
    BY DEF Take
  <1>3. cfg \in Uploads
    BY <1>1
  <1> HIDE DEF cfg
  <1>4. /\ Take(body) \in AgentType /\ Take(body).pc = "decide" /\ Take(body).policy = body
        /\ Take(body).cached = agent.cached
    BY <1>2, <1>3 DEF Shape, AgentType, Pcs
  <1>5. /\ agent' \in AgentType /\ agent'.pc = "decide" /\ agent'.policy = body
        /\ agent'.offer = offer /\ (agent'.cached = body \/ agent'.cached = agent.cached)
    <2>1. CASE agent' = [Take(body) EXCEPT !.cached = body, !.offer = offer]
      BY <1>4, <2>1 DEF AgentType
    <2>2. CASE agent' = [Take(body) EXCEPT !.offer = offer]
      BY <1>4, <2>2 DEF AgentType
    <2> QED BY <2>1, <2>2
  <1>6. Shape'
    BY <1>5 DEF Shape
  <1>7. CycleInv'
    <2>1. OnceIsOnce'
      BY DEF CycleInv, OnceIsOnce
    <2> QED BY <1>5, <2>1 DEF CycleInv, Completed
  <1> QED BY <1>6, <1>7

-------------------------------------------------------------------------------
(* The answers of GetPolicy.                                                *)

LEMMA TakeNothingFacts ==
  ASSUME Shape, NEW offer \in AnyBody
  PROVE  LET a == [TakeNothing EXCEPT !.offer = offer]
         IN  a \in AgentType /\ a.pc = "flush" /\ a.cached = agent.cached
  <1> DEFINE nothing == [agent EXCEPT !.pc = "flush", !.policy = NoBody, !.cfg = Base, !.bypass = FALSE]
  <1>1. TakeNothing = nothing
    BY DEF TakeNothing
  <1>2. Base \in Uploads /\ NoBody \in AnyBody
    BY NothingTyped DEF Uploads
  <1>3. nothing \in AgentType /\ nothing.pc = "flush" /\ nothing.cached = agent.cached
    BY <1>2 DEF Shape, AgentType, Pcs
  <1> HIDE DEF nothing
  <1> QED BY <1>1, <1>3 DEF AgentType

LEMMA AnswersKeep ==
  ASSUME Shape, CycleInv, NoWork \/ AnswerOk \/ NotModified
  PROVE  Shape' /\ CycleInv'
  <1>0. now \in Nat /\ history \in HistoryType
    BY DEF Shape
  <1>1. CASE NoWork
    <2>1. agent' \in AgentType /\ agent'.pc = "flush" /\ agent'.cached = agent.cached
      BY <1>1, NothingTyped, TakeNothingFacts DEF NoWork
    <2> QED BY <1>0, <1>1, <2>1, IdleKeeps DEF NoWork
  <1>2. CASE AnswerOk
    <2>1. PICK offer \in Offers : agent' = [Take(offer) EXCEPT !.cached = offer, !.offer = offer]
      BY <1>2 DEF AnswerOk
    <2>2. offer \in AnyBody /\ Genuine(offer)
      BY OfferFacts
    <2> QED BY <1>2, <2>1, <2>2, TakeKeeps DEF AnswerOk
  <1>3. CASE NotModified
    <2>1. PICK offer \in Offers :
            /\ offer.id = agent.last
            /\ agent' = IF agent.cached.id = agent.last
                        THEN [Take(agent.cached) EXCEPT !.offer = offer]
                        ELSE [TakeNothing EXCEPT !.offer = offer]
      BY <1>3 DEF NotModified
    <2>2. offer \in AnyBody /\ Genuine(offer)
      BY OfferFacts
    <2>3. CASE agent.cached.id = agent.last
      <3>1. agent.cached \in AnyBody /\ Genuine(agent.cached)
        <4>1. agent.cached.id # NoId
          BY <2>1, <2>2, <2>3 DEF Genuine
        <4> QED BY <4>1 DEF Shape, AgentType, CycleInv
      <3> QED BY <1>3, <2>1, <2>2, <2>3, <3>1, TakeKeeps DEF NotModified
    <2>4. CASE agent.cached.id # agent.last
      <3>1. agent' \in AgentType /\ agent'.pc = "flush" /\ agent'.cached = agent.cached
        BY <2>1, <2>2, <2>4, TakeNothingFacts
      <3> QED BY <1>0, <1>3, <3>1, IdleKeeps DEF NotModified
    <2> QED BY <2>3, <2>4
  <1> QED BY <1>1, <1>2, <1>3

(* The agent declines, starts over or goes on to its next cycle.            *)
LEMMA PausesKeep ==
  ASSUME Shape, CycleInv, SkipOrDefer \/ Refused \/ Keep \/ Restart \/ Stop
  PROVE  Shape' /\ CycleInv'
  <1>0. now \in Nat /\ history \in HistoryType
    BY DEF Shape
  <1>1. /\ agent' \in AgentType /\ agent'.pc \in {"flush", "poll", "down"}
        /\ agent'.cached.id = NoId \/ agent'.cached = agent.cached
    <2>1. CASE SkipOrDefer \/ Refused
      BY <2>1 DEF SkipOrDefer, Refused, Shape, AgentType, Pcs
    <2>2. CASE Keep
      BY <2>2, NothingTyped DEF Keep, NextCycle, Shape, AgentType, Pcs
    <2>3. CASE Restart \/ Stop
      BY <2>3, FreshTyped, NothingTyped DEF Restart, Stop
    <2> QED BY <2>1, <2>2, <2>3
  <1>2. history' \in HistoryType /\ history'.finished = history.finished
    BY <1>0 DEF SkipOrDefer, Refused, Keep, Restart, Stop, HistoryType
  <1>3. UNCHANGED <<now, policyOf, index, spool>>
    BY DEF SkipOrDefer, Refused, Keep, Restart, Stop
  <1> QED BY <1>0, <1>1, <1>2, <1>3, IdleKeeps

(* Researchers and the clock leave the agent alone.                         *)
LEMMA SurroundingsKeep ==
  ASSUME Shape, CycleInv,
         Tick \/ \E e \in Experiments, n \in Names \union {NoPolicy} : Edit(e, n)
  PROVE  Shape' /\ CycleInv'
  <1>1. UNCHANGED <<agent, index, spool>>
    BY DEF Tick, Edit
  <1>2. history' \in HistoryType /\ history'.finished = history.finished
    BY DEF Tick, Edit, Shape, HistoryType
  <1>3. now' \in Nat /\ policyOf' \in [Experiments -> Names \union {NoPolicy}]
    BY DEF Tick, Edit, Shape
  <1>4. OnceIsOnce'
    BY <1>2 DEF CycleInv, OnceIsOnce
  <1> QED BY <1>1, <1>2, <1>3, <1>4 DEF Shape, CycleInv, Completed

-------------------------------------------------------------------------------
(* The record of executions.                                                *)

LEMMA RecordFacts ==
  ASSUME NEW state, index' = Record(agent.policy, state)
  PROVE  /\ DOMAIN index' = DOMAIN index \union {agent.policy}
         /\ index'[agent.policy].state = state
         /\ \A b \in DOMAIN index : b # agent.policy => index'[b] = index[b]
  BY DEF Record

LEMMA BeginKeeps ==
  ASSUME Shape, CycleInv, Begin
  PROVE  Shape' /\ CycleInv'
  <1>1. agent' = [agent EXCEPT !.pc = "run"] /\ agent.pc = "decide" /\ UNCHANGED <<now, policyOf, spool>>
    BY DEF Begin, At
  <1>2. /\ agent' \in AgentType /\ agent'.pc = "run" /\ agent'.policy = agent.policy
        /\ agent'.offer = agent.offer /\ agent'.cached = agent.cached
    BY <1>1 DEF Shape, AgentType, Pcs
  <1>3. history' \in HistoryType /\ history'.finished = history.finished
    BY DEF Begin, Shape, HistoryType
  <1>4. Once(agent.policy) => ~Completed(agent.policy)
    BY DEF Begin, Skipped, Recorded, Once, Completed
  <1>5. ASSUME NEW r \in history.finished, Once(r.body)
        PROVE  r.body # agent.policy /\ Completed(r.body)'
    <2>1. Completed(r.body) /\ r.body # agent.policy
      BY <1>4, <1>5 DEF CycleInv
    <2>2. index' = Record(agent.policy, "in_progress")
      BY DEF Begin
    <2> QED BY <2>1, <2>2, RecordFacts DEF Completed
  <1>6. OnceIsOnce'
    BY <1>3 DEF CycleInv, OnceIsOnce
  <1>7. Shape'
    BY <1>1, <1>2, <1>3 DEF Shape
  <1>8. CycleInv'
    BY <1>1, <1>2, <1>3, <1>5, <1>6 DEF CycleInv, Once
  <1> QED BY <1>7, <1>8

(* Two genuine bodies of a policy with a window of its own are the same.    *)
LEMMA SameBody ==
  ASSUME NEW b \in AnyBody, NEW c \in AnyBody, Genuine(b), Genuine(c), b.id = c.id,
         Dated(DesignOf(b.id))
  PROVE  b = c
  BY DEF Genuine, AnyBody

LEMMA FinishKeeps ==
  ASSUME Shape, CycleInv, Finish
  PROVE  Shape' /\ CycleInv'
  <1> DEFINE run == [no |-> history.runs, body |-> agent.policy]
  <1>1. /\ agent.pc = "run" /\ index' = Record(agent.policy, "completed")
        /\ spool' = spool \union {run} /\ UNCHANGED <<now, policyOf>>
        /\ agent' = [agent EXCEPT !.pc = "flush", !.bypass = FALSE, !.last = agent.policy.id]
        /\ history' = [history EXCEPT !.finished = @ \union {run}]
    BY DEF Finish, At
  <1>2. agent.policy \in AnyBody /\ agent.policy.id \in Ids \union {NoId} /\ Genuine(agent.policy)
    BY <1>1 DEF Shape, AgentType, AnyBody, CycleInv
  <1>3. agent' \in AgentType /\ agent'.pc = "flush" /\ agent'.cached = agent.cached
    BY <1>1, <1>2 DEF Shape, AgentType, Pcs
  <1>4. run \in [no : Nat, body : AnyBody] /\ run.body = agent.policy
    BY <1>2 DEF Shape, HistoryType
  <1> HIDE DEF run
  <1>5. history' \in HistoryType /\ history'.finished = history.finished \union {run}
    BY <1>1, <1>4 DEF Shape, HistoryType
  <1>6. ASSUME NEW r \in history'.finished
        PROVE  Genuine(r.body) /\ (Once(r.body) => Completed(r.body)')
    <2>1. CASE r = run
      BY <1>1, <1>2, <1>4, <2>1, RecordFacts DEF Completed
    <2>2. CASE r \in history.finished
      <3>1. Genuine(r.body) /\ (Once(r.body) => Completed(r.body))
        BY <2>2 DEF CycleInv
      <3>2. Completed(r.body) => Completed(r.body)'
        <4>1. CASE r.body = agent.policy
          BY <1>1, <4>1, RecordFacts DEF Completed
        <4>2. CASE r.body # agent.policy
          BY <1>1, <4>2, RecordFacts DEF Completed
        <4> QED BY <4>1, <4>2
      <3> QED BY <3>1, <3>2
    <2> QED BY <1>5, <2>1, <2>2
  <1>7. ASSUME NEW r \in history.finished, r.body.id = agent.policy.id,
               Once(r.body), Dated(DesignOf(r.body.id))
        PROVE  FALSE
    <2>1. r.body \in AnyBody /\ Genuine(r.body)
      BY DEF Shape, HistoryType, CycleInv
    <2>2. r.body = agent.policy
      BY <1>2, <1>7, <2>1, SameBody
    <2> QED BY <1>1, <1>7, <2>2 DEF CycleInv
  <1>8. OnceIsOnce'
    <2> SUFFICES ASSUME NEW r \in history'.finished, NEW s \in history'.finished,
                        r.body.id = s.body.id, Once(r.body), Dated(DesignOf(r.body.id))
                 PROVE  r = s
      BY DEF OnceIsOnce, Once
    <2>1. CASE r \in history.finished /\ s \in history.finished
      BY <2>1 DEF CycleInv, OnceIsOnce, Once
    <2>2. CASE r \in history.finished /\ s = run
      BY <1>4, <1>7, <2>2
    <2>3. CASE r = run /\ s \in history.finished
      <3>1. Once(s.body) /\ Dated(DesignOf(s.body.id))
        BY DEF Once
      <3> QED BY <1>4, <1>7, <2>3, <3>1
    <2> QED BY <1>5, <2>1, <2>2, <2>3
  <1>9. Shape'
    BY <1>1, <1>3, <1>5 DEF Shape
  <1>10. CycleInv'
    <2>1. spool' \subseteq history'.finished
      BY <1>1, <1>5 DEF CycleInv
    <2>2. agent'.cached.id = NoId \/ Genuine(agent'.cached)
      BY <1>3 DEF CycleInv
    <2> QED BY <1>3, <1>6, <1>8, <2>1, <2>2 DEF CycleInv, Once
  <1> QED BY <1>9, <1>10

LEMMA SendKeeps ==
  ASSUME Shape, CycleInv, Send
  PROVE  Shape' /\ CycleInv'
  <1>1. UNCHANGED <<now, policyOf, history>> /\ spool' = {} /\ agent' = NextCycle
    BY DEF Send
  <1>2. agent' \in AgentType /\ agent'.pc = "poll" /\ agent'.cached = agent.cached
    BY <1>1, NothingTyped DEF NextCycle, Shape, AgentType, Pcs
  <1>3. index' = [b \in DOMAIN index |->
                    IF \E r \in spool : r.body = b THEN [state |-> "completed", at |-> now] ELSE index[b]]
    BY DEF Send
  <1>4. \A b : Completed(b) => Completed(b)'
    BY <1>3 DEF Completed
  <1>5. OnceIsOnce'
    BY <1>1 DEF CycleInv, OnceIsOnce
  <1>6. CycleInv'
    BY <1>1, <1>2, <1>4, <1>5 DEF CycleInv, Once
  <1> QED BY <1>1, <1>2, <1>6 DEF Shape

LEMMA CycleAlways == Spec => [](Shape /\ CycleInv)
  <1>1. Shape /\ CycleInv /\ [Next]_vars => Shape' /\ CycleInv'
    <2> SUFFICES ASSUME Shape, CycleInv, [Next]_vars PROVE Shape' /\ CycleInv'
      OBVIOUS
    <2>1. CASE UNCHANGED vars
      BY <2>1 DEF vars, Shape, CycleInv, Completed, OnceIsOnce
    <2>2. CASE Next
      BY <2>2, Actions, AnswersKeep, PausesKeep, SurroundingsKeep, BeginKeeps, FinishKeeps, SendKeeps, Zenon
    <2> QED BY <2>1, <2>2
  <1> QED BY <1>1, InvInit, PTL DEF Spec

(* What the agent executes is what the server selected in the same cycle,   *)
(* whether it was sent or taken from the cache, for any policies and edits. *)
THEOREM SelectedPoliciesAreRun == Spec => []RunsWhatWasSelected
  <1>1. Shape /\ CycleInv => RunsWhatWasSelected
    BY DEF CycleInv, Genuine, RunsWhatWasSelected
  <1> QED BY <1>1, CycleAlways, PTL

(* A policy to be executed once that has a window of its own is completed   *)
(* once, across edits back and forth, restarts and cached answers.          *)
THEOREM OnceMeansOnce == Spec => []OnceIsOnce
  <1>1. Shape /\ CycleInv => OnceIsOnce
    BY DEF CycleInv
  <1> QED BY <1>1, CycleAlways, PTL

-------------------------------------------------------------------------------
(* The upload window in force.                                              *)

CfgOf(body) == UploadConfig(Base, DesignOf(body.id), body.window)

(* While the agent holds a policy, the upload window in force is its.       *)
UploadInv == agent.policy.id # NoId => agent.cfg = CfgOf(agent.policy)

LEMMA UploadStep ==
  ASSUME Shape, UploadInv, [Next]_vars
  PROVE  UploadInv'
  <1>0. agent \in AgentType
    BY DEF Shape
  <1>1. ASSUME NEW body, NEW offer,
               \/ agent' = [Take(body) EXCEPT !.cached = body, !.offer = offer]
               \/ agent' = [Take(body) EXCEPT !.offer = offer]
        PROVE  UploadInv'
    <2>1. Take(body) = [agent EXCEPT !.pc = "decide", !.policy = body, !.cfg = CfgOf(body)]
      BY DEF Take, CfgOf
    <2>2. agent'.policy = body /\ agent'.cfg = CfgOf(body)
      <3>1. CASE agent' = [Take(body) EXCEPT !.cached = body, !.offer = offer]
        BY <1>0, <2>1, <3>1 DEF AgentType
      <3>2. CASE agent' = [Take(body) EXCEPT !.offer = offer]
        BY <1>0, <2>1, <3>2 DEF AgentType
      <3> QED BY <1>1, <3>1, <3>2
    <2> QED BY <2>2 DEF UploadInv, CfgOf
  <1>3. ASSUME NEW offer, agent' = [TakeNothing EXCEPT !.offer = offer]
        PROVE  UploadInv'
    <2>1. agent'.policy = NoBody
      BY <1>0, <1>3 DEF TakeNothing, AgentType
    <2> QED BY <2>1, NothingTyped DEF UploadInv
  <1>4. CASE NoWork
    BY <1>3, <1>4 DEF NoWork
  <1>5. CASE AnswerOk
    BY <1>1, <1>5 DEF AnswerOk
  <1>6. CASE NotModified
    <2>1. PICK offer \in Offers :
            \/ agent' = [Take(agent.cached) EXCEPT !.offer = offer]
            \/ agent' = [TakeNothing EXCEPT !.offer = offer]
      BY <1>6 DEF NotModified
    <2> QED BY <1>1, <1>3, <2>1
  <1>7. CASE SkipOrDefer \/ Refused \/ Begin \/ Finish
    <2>1. agent'.policy = agent.policy /\ agent'.cfg = agent.cfg
      BY <1>0, <1>7 DEF SkipOrDefer, Refused, Begin, Finish, AgentType
    <2> QED BY <2>1 DEF UploadInv, CfgOf
  <1>8. CASE Send \/ Keep \/ Restart \/ Stop
    <2>1. agent'.policy = NoBody
      <3>1. CASE Send \/ Keep
        BY <1>0, <3>1 DEF Send, Keep, NextCycle, AgentType
      <3>2. CASE Restart \/ Stop
        BY <3>2, FreshTyped DEF Restart, Stop
      <3> QED BY <1>8, <3>1, <3>2
    <2> QED BY <2>1, NothingTyped DEF UploadInv
  <1>9. CASE UNCHANGED agent
    BY <1>9 DEF UploadInv, CfgOf
  <1>10. Tick \/ UNCHANGED vars \/ (\E e \in Experiments, n \in Names \union {NoPolicy} : Edit(e, n))
           => UNCHANGED agent
    BY DEF Tick, Edit, vars
  <1> QED BY <1>4, <1>5, <1>6, <1>7, <1>8, <1>9, <1>10, Actions

LEMMA SentInWindow ==
  ASSUME Shape, CycleInv, UploadInv, [Next]_vars, NEW r \in spool \ spool',
         agent.policy = r.body, CfgOf(r.body).required
  PROVE  InWindow(CfgOf(r.body), now)
  <1>1. Send
    <2>1. NoWork \/ AnswerOk \/ NotModified \/ SkipOrDefer \/ Refused \/ Begin \/ Keep \/ Restart
            \/ Stop \/ Tick \/ UNCHANGED vars
            \/ (\E e \in Experiments, n \in Names \union {NoPolicy} : Edit(e, n))
            => spool' = spool
      BY DEF NoWork, AnswerOk, NotModified, SkipOrDefer, Refused, Begin, Keep, Restart, Stop, Tick,
             Edit, vars
    <2>2. Finish => spool \subseteq spool'
      BY DEF Finish
    <2> QED BY <2>1, <2>2, Actions
  <1>2. agent.cfg = CfgOf(r.body)
    <2>1. r.body.id # NoId
      BY DEF CycleInv, Genuine
    <2> QED BY <2>1 DEF UploadInv
  <1> QED BY <1>1, <1>2 DEF Send, Blocked, OutsideWindow

(* A report leaves outside the upload window its own policy requires only   *)
(* while the agent holds no policy or another one.                          *)
THEOREM WindowsAreKept == Spec => OwnWindowRespected
  <1>1. Init => UploadInv
    BY FreshTyped, NothingTyped DEF Init, UploadInv, Fresh
  <1>2. Shape /\ CycleInv /\ UploadInv /\ [Next]_vars =>
          [\A r \in spool \ spool' :
             LET cfg == UploadConfig(Base, DesignOf(r.body.id), r.body.window) IN
             agent.policy = r.body /\ cfg.required => InWindow(cfg, now)]_vars
    BY SentInWindow DEF CfgOf
  <1> QED BY <1>1, <1>2, CycleAlways, UploadStep, PTL DEF Spec, OwnWindowRespected

-------------------------------------------------------------------------------
(* The types.                                                               *)

(* Among finitely many windows one begins first and one ends last: a        *)
(* smallest set without would have them after all.                          *)
LEMMA FirstAndLast ==
  ASSUME NEW W \in SUBSET Window, IsFiniteSet(W), W # {}
  PROVE  /\ \E w \in W : \A v \in W : w.from <= v.from
         /\ \E w \in W : \A v \in W : w.to >= v.to
  <1> DEFINE Good(T) == T # {} => /\ \E w \in T : \A v \in T : w.from <= v.from
                                  /\ \E w \in T : \A v \in T : w.to >= v.to
             Bad == {T \in FiniteSubsetsOf(W) : ~Good(T)}
  <1>1. ASSUME Bad # {} PROVE FALSE
    <2>1. PICK T \in Bad : \A U \in Bad : ~(<<U, T>> \in StrictSubsetOrdering(W))
      <3>1. Bad \subseteq FiniteSubsetsOf(W)
        OBVIOUS
      <3> HIDE DEF Bad
      <3> QED BY <1>1, <3>1, WFMin, FS_StrictSubsetOrderingWellFounded
    <2>2. T \in SUBSET W /\ IsFiniteSet(T) /\ ~Good(T)
      BY DEF FiniteSubsetsOf
    <2>3. PICK x \in T : TRUE
      BY <2>2
    <2> DEFINE U == T \ {x}
    <2>4. U \in FiniteSubsetsOf(W) /\ <<U, T>> \in StrictSubsetOrdering(W)
      BY <2>2, <2>3, FS_RemoveElement DEF FiniteSubsetsOf, StrictSubsetOrdering
    <2>5. Good(U)
      BY <2>1, <2>4
    <2>6. \A w \in T : w.from \in Nat /\ w.to \in Nat
      BY <2>2 DEF Window
    <2>7. CASE U = {}
      <3>1. T = {x}
        BY <2>3, <2>7
      <3> QED BY <2>2, <2>6, <3>1
    <2>8. CASE U # {}
      <3>1. PICK f \in U : \A v \in U : f.from <= v.from
        BY <2>5, <2>8
      <3>2. PICK l \in U : \A v \in U : l.to >= v.to
        BY <2>5, <2>8
      <3>3. T = U \union {x} /\ f \in T /\ l \in T
        BY <2>3, <3>1, <3>2
      <3> HIDE DEF U
      <3>4. \E w \in T : \A v \in T : w.from <= v.from
        <4>1. CASE f.from <= x.from
          BY <3>1, <3>3, <4>1
        <4>2. CASE x.from <= f.from
          BY <2>3, <2>6, <3>1, <3>3, <4>2
        <4> QED BY <2>3, <2>6, <3>3, <4>1, <4>2
      <3>5. \E w \in T : \A v \in T : w.to >= v.to
        <4>1. CASE l.to >= x.to
          BY <3>2, <3>3, <4>1
        <4>2. CASE x.to >= l.to
          BY <2>3, <2>6, <3>2, <3>3, <4>2
        <4> QED BY <2>3, <2>6, <3>3, <4>1, <4>2
      <3> QED BY <2>2, <3>4, <3>5
    <2> QED BY <2>7, <2>8
  <1>2. W \in FiniteSubsetsOf(W)
    BY DEF FiniteSubsetsOf
  <1> QED BY <1>1, <1>2

(* The groups' earliest start and latest end are dates of groups.           *)
LEMMA EndsTyped ==
  ASSUME NEW n \in Names
  PROVE  /\ Starts(Designs[n]) # {} => Least(Starts(Designs[n])) \in Nat
         /\ Ends(Designs[n]) # {} => Greatest(Ends(Designs[n])) \in Nat
  <1> DEFINE W == Designs[n].groups
  <1>1. W \in SUBSET Window /\ IsFiniteSet(W)
    BY DEF DesignType
  <1>2. \A w \in W : w.from \in Nat /\ w.to \in Nat
    BY <1>1 DEF Window
  <1>3. ASSUME Starts(Designs[n]) # {} PROVE Least(Starts(Designs[n])) \in Nat
    <2> DEFINE V == {w \in W : w.from # Missing}
               S == Starts(Designs[n])
    <2>1. V \in SUBSET Window /\ IsFiniteSet(V) /\ V # {}
      BY <1>1, <1>3, FS_Subset DEF Starts
    <2> HIDE DEF V
    <2>2. PICK w \in V : \A v \in V : w.from <= v.from
      BY <2>1, FirstAndLast
    <2>3. w.from \in S /\ \A y \in S : w.from <= y
      BY <2>2 DEF Starts, V
    <2>4. S \subseteq Nat
      BY <1>2 DEF Starts
    <2> HIDE DEF S
    <2>5. Least(S) \in S
      BY <2>3 DEF Least
    <2> QED BY <2>4, <2>5 DEF S
  <1>4. ASSUME Ends(Designs[n]) # {} PROVE Greatest(Ends(Designs[n])) \in Nat
    <2> DEFINE V == {w \in W : w.to # Missing}
               S == Ends(Designs[n])
    <2>1. V \in SUBSET Window /\ IsFiniteSet(V) /\ V # {}
      BY <1>1, <1>4, FS_Subset DEF Ends
    <2> HIDE DEF V
    <2>2. PICK w \in V : \A v \in V : w.to >= v.to
      BY <2>1, FirstAndLast
    <2>3. w.to \in S /\ \A y \in S : w.to >= y
      BY <2>2 DEF Ends, V
    <2>4. S \subseteq Nat
      BY <1>2 DEF Ends
    <2> HIDE DEF S
    <2>5. Greatest(S) \in S
      BY <2>3 DEF Greatest
    <2> QED BY <2>4, <2>5 DEF S
  <1> QED BY <1>3, <1>4

LEMMA WindowTyped ==
  ASSUME NEW n \in Names, NEW t \in Nat
  PROVE  MeasurementWindow(Designs[n], t) \in Window
  <1> DEFINE d == Designs[n]
  <1>1. d.measure \in Window /\ d.range \in Window
    BY DEF DesignType
  <1>2. /\ (IF Starts(d) = {} THEN t ELSE Least(Starts(d))) \in Nat
        /\ (IF Ends(d) = {} THEN t ELSE Greatest(Ends(d))) \in Nat
    BY EndsTyped
  <1> QED BY <1>1, <1>2 DEF MeasurementWindow, Window

LEMMA BodiesTyped == Windows \subseteq Window /\ AnyBody \subseteq Bodies
  <1>1. Nowhere \in Window
    BY DEF Nowhere, Window, Missing
  <1>2. Windows \subseteq Window
    BY <1>1, WindowTyped DEF Windows
  <1> QED BY <1>2 DEF AnyBody, Bodies

(* The policies are genuine but for NoBody, whose upload window is never    *)
(* looked at.                                                               *)
LEMMA UploadTyped ==
  ASSUME NEW b \in AnyBody, b.id # NoId
  PROVE  UploadConfig(Base, DesignOf(b.id), b.window) \in Configs
  <1>1. b.id[2] \in Names /\ b.window \in Window
    BY BodiesTyped DEF AnyBody, Bodies, Ids
  <1> DEFINE d == DesignOf(b.id)
  <1>2. d \in DesignType
    BY <1>1 DEF DesignOf
  <1> HIDE DEF d
  <1>3. /\ d.upload.from \in Nat /\ d.upload.to \in Nat /\ d.required \in BOOLEAN
        /\ d.slots \in Nat \ {0} /\ d.jitter \in Nat /\ b.window.from \in Nat /\ b.window.to \in Nat
    BY <1>1, <1>2 DEF DesignType, Window
  <1>4. UploadConfig(Base, d, b.window) \in Configs
    <2>1. /\ Base \in Configs /\ Base.from \in Nat /\ Base.to \in Nat
      BY CycleAssumption DEF Configs
    <2>2. UploadFrom(Base, d, b.window) \in Nat /\ UploadTo(Base, d, b.window) \in Nat
      BY <1>3, <2>1 DEF UploadFrom, UploadTo
    <2> QED BY <1>3, <2>1, <2>2 DEF UploadConfig, Configs
  <1> QED BY <1>4 DEF d

RecordType == [state : {"in_progress", "completed"}, at : Nat]

(* The clock and the counters keep their bounds, the upload window in force *)
(* is one even between two policies, and so is every entry of the record.   *)
BoundsInv ==
  /\ now \in 1..MaxTime
  /\ agent.cfg \in Configs
  /\ DOMAIN index \subseteq AnyBody
  /\ \A b \in DOMAIN index : index[b] \in RecordType
  /\ history.runs \in 0..MaxRuns /\ history.edits \in 0..MaxEdits /\ history.stops \in 0..MaxStops

LEMMA ConfigTyped ==
  ASSUME Shape, CycleInv, BoundsInv, [Next]_vars
  PROVE  agent'.cfg \in Configs
  <1>0. agent \in AgentType /\ Base \in Configs /\ agent.cfg \in Configs
    BY DEF Shape, BoundsInv
  <1>1. ASSUME NEW body \in AnyBody, body.id # NoId, NEW offer,
               \/ agent' = [Take(body) EXCEPT !.cached = body, !.offer = offer]
               \/ agent' = [Take(body) EXCEPT !.offer = offer]
        PROVE  agent'.cfg \in Configs
    <2>1. Take(body) = [agent EXCEPT !.pc = "decide", !.policy = body, !.cfg = CfgOf(body)]
      BY DEF Take, CfgOf
    <2>2. agent'.cfg = CfgOf(body)
      <3>1. CASE agent' = [Take(body) EXCEPT !.cached = body, !.offer = offer]
        BY <1>0, <2>1, <3>1 DEF AgentType
      <3>2. CASE agent' = [Take(body) EXCEPT !.offer = offer]
        BY <1>0, <2>1, <3>2 DEF AgentType
      <3> QED BY <1>1, <3>1, <3>2
    <2> QED BY <1>1, <2>2, UploadTyped DEF CfgOf
  <1>2. ASSUME NEW offer, agent' = [TakeNothing EXCEPT !.offer = offer]
        PROVE  agent'.cfg \in Configs
    <2>1. agent'.cfg = Base
      BY <1>0, <1>2 DEF TakeNothing, AgentType
    <2> QED BY <1>0, <2>1
  <1>3. CASE NoWork
    BY <1>2, <1>3 DEF NoWork
  <1>4. CASE AnswerOk
    <2>1. PICK offer \in Offers : agent' = [Take(offer) EXCEPT !.cached = offer, !.offer = offer]
      BY <1>4 DEF AnswerOk
    <2> QED BY <1>1, <2>1, OfferFacts DEF Genuine
  <1>5. CASE NotModified
    <2>1. PICK offer \in Offers :
            /\ offer.id = agent.last
            /\ \/ /\ agent.cached.id = agent.last
                  /\ agent' = [Take(agent.cached) EXCEPT !.offer = offer]
               \/ agent' = [TakeNothing EXCEPT !.offer = offer]
      BY <1>5 DEF NotModified
    <2>2. offer.id # NoId /\ agent.cached \in AnyBody
      BY <1>0, OfferFacts DEF Genuine, AgentType
    <2> QED BY <1>1, <1>2, <2>1, <2>2
  <1>6. CASE SkipOrDefer \/ Refused \/ Begin \/ Finish \/ Send \/ Keep
    <2>1. agent'.cfg = agent.cfg
      BY <1>0, <1>6 DEF SkipOrDefer, Refused, Begin, Finish, Send, Keep, NextCycle, AgentType
    <2> QED BY <1>0, <2>1
  <1>7. CASE Restart \/ Stop
    <2>1. agent'.cfg = Base
      BY <1>7 DEF Restart, Stop, Fresh
    <2> QED BY <1>0, <2>1
  <1>8. Tick \/ UNCHANGED vars \/ (\E e \in Experiments, n \in Names \union {NoPolicy} : Edit(e, n))
          => UNCHANGED agent
    BY DEF Tick, Edit, vars
  <1> QED BY <1>0, <1>3, <1>4, <1>5, <1>6, <1>7, <1>8, Actions

LEMMA RecordTyped ==
  ASSUME Shape, BoundsInv, [Next]_vars
  PROVE  DOMAIN index' \subseteq AnyBody /\ \A b \in DOMAIN index' : index'[b] \in RecordType
  <1>0. /\ DOMAIN index \subseteq AnyBody /\ \A b \in DOMAIN index : index[b] \in RecordType
        /\ agent.policy \in AnyBody /\ now \in Nat
    BY DEF BoundsInv, Shape, AgentType
  <1>1. ASSUME NEW state \in {"in_progress", "completed"}, index' = Record(agent.policy, state)
        PROVE  DOMAIN index' \subseteq AnyBody /\ \A b \in DOMAIN index' : index'[b] \in RecordType
    BY <1>0, <1>1 DEF Record, RecordType
  <1>2. CASE Begin \/ Finish
    BY <1>1, <1>2 DEF Begin, Finish
  <1>3. CASE Send
    BY <1>0, <1>3 DEF Send, RecordType
  <1>4. NoWork \/ AnswerOk \/ NotModified \/ SkipOrDefer \/ Refused \/ Keep \/ Restart \/ Stop
          \/ Tick \/ UNCHANGED vars
          \/ (\E e \in Experiments, n \in Names \union {NoPolicy} : Edit(e, n))
          => index' = index
    BY DEF NoWork, AnswerOk, NotModified, SkipOrDefer, Refused, Keep, Restart, Stop, Tick, Edit, vars
  <1> QED BY <1>0, <1>2, <1>3, <1>4, Actions

LEMMA BoundsStep ==
  ASSUME Shape, CycleInv, BoundsInv, [Next]_vars
  PROVE  BoundsInv'
  <1>1. now' \in 1..MaxTime
    <2>1. now' = now \/ Tick
      BY Actions DEF NoWork, AnswerOk, NotModified, SkipOrDefer, Refused, Begin, Finish, Send, Keep,
                     Restart, Stop, Edit, vars
    <2> QED BY <2>1 DEF Tick, BoundsInv
  <1>2. /\ history'.runs \in 0..MaxRuns /\ history'.edits \in 0..MaxEdits
        /\ history'.stops \in 0..MaxStops
    <2>1. \/ UNCHANGED history
          \/ history.runs < MaxRuns /\ history' = [history EXCEPT !.runs = @ + 1]
          \/ \E run : history' = [history EXCEPT !.finished = @ \union {run}]
          \/ history.stops < MaxStops /\ history' = [history EXCEPT !.stops = @ + 1]
          \/ history.edits < MaxEdits /\ history' = [history EXCEPT !.edits = @ + 1]
      BY Actions DEF NoWork, AnswerOk, NotModified, SkipOrDefer, Refused, Begin, Finish, Send, Keep,
                     Restart, Stop, Edit, Tick, vars
    <2> QED BY <2>1 DEF BoundsInv, Shape, HistoryType
  <1> QED BY <1>1, <1>2, ConfigTyped, RecordTyped DEF BoundsInv

(* The variables of the cycle keep their types: there is a first and a last *)
(* window wherever one is looked for, and no record or report without a     *)
(* policy and a window of numbers.                                          *)
THEOREM TypeCorrect == Spec => []TypeOK
  <1>1. Init => BoundsInv
    BY FreshTyped DEF Init, BoundsInv, Fresh
  <1>2. Shape /\ CycleInv /\ BoundsInv => TypeOK
    <2> SUFFICES ASSUME Shape, CycleInv, BoundsInv PROVE TypeOK
      OBVIOUS
    <2>1. agent \in [pc : Pcs, last : Ids \union {NoId}, cached : Bodies, policy : Bodies,
                     cfg : Configs, bypass : BOOLEAN, offer : Bodies]
      BY BodiesTyped DEF Shape, AgentType, BoundsInv
    <2>2. spool \subseteq history.finished /\ history.finished \subseteq RunType
      BY BodiesTyped DEF Shape, HistoryType, CycleInv, RunType
    <2> QED BY <2>1, <2>2, BodiesTyped DEF Shape, BoundsInv, RecordType, TypeOK
  <1> QED BY <1>1, <1>2, CycleAlways, BoundsStep, PTL DEF Spec

-------------------------------------------------------------------------------
(* The choice of the server.                                                *)

LEMMA StartTyped ==
  ASSUME NEW n \in Names
  PROVE  SelectionWindow(Designs[n]).from \in Nat
  <1> DEFINE d == Designs[n]
             first == IF Starts(d) = {} THEN Missing ELSE Least(Starts(d))
             last == IF Ends(d) = {} THEN Missing ELSE Greatest(Ends(d))
  <1>1. d.range.from \in Nat
    BY DEF DesignType, Window
  <1>2. first \in Nat
    BY EndsTyped DEF Missing
  <1> HIDE DEF first, last
  <1>3. SelectionWindow(d) = IF d.range # Nowhere THEN d.range ELSE [from |-> first, to |-> last]
    BY DEF SelectionWindow, first, last
  <1> QED BY <1>1, <1>2, <1>3

(* Two candidates are before each other in one way only.                    *)
LEMMA BeforeIsAnOrder ==
  ASSUME NEW held \in [Experiments -> Names \union {NoPolicy}], NEW t \in Nat,
         NEW C, C = Candidates(held, t)
  PROVE  /\ \A e, x \in C : e # x => Before(held, t, e, x) \/ Before(held, t, x, e)
         /\ \A e, x \in C : Before(held, t, e, x) => ~Before(held, t, x, e)
         /\ \A e, x, y \in C :
              Before(held, t, e, x) /\ Before(held, t, x, y) => Before(held, t, e, y)
         /\ \A e, x \in C : Before(held, t, e, x) =>
              Bucket(Designs[held[e]], t) >= Bucket(Designs[held[x]], t)
  <1> DEFINE b(e) == Bucket(Designs[held[e]], t)
             s(e) == SelectionWindow(Designs[held[e]]).from
  <1>1. \A e \in C : e \in Nat /\ b(e) \in 0 .. 2 /\ s(e) \in Nat
    <2> TAKE e \in C
    <2>1. e \in Nat /\ held[e] \in Names
      BY DEF Candidates, Scanned
    <2>2. b(e) \in 0 .. 2
      BY DEF Bucket
    <2>3. s(e) \in Nat
      BY <2>1, StartTyped
    <2> QED BY <2>1, <2>2, <2>3
  <1>2. \A e, x \in C : Before(held, t, e, x) <=>
          \/ b(e) > b(x)
          \/ b(e) = b(x) /\ (s(e) > s(x) \/ (s(e) = s(x) /\ e > x))
    BY DEF Before
  <1> HIDE DEF b, s
  <1>3. \A e, x \in C : e # x => Before(held, t, e, x) \/ Before(held, t, x, e)
    BY <1>1, <1>2
  <1>4. \A e, x \in C : Before(held, t, e, x) => ~Before(held, t, x, e)
    BY <1>1, <1>2
  <1>5. \A e, x, y \in C :
          Before(held, t, e, x) /\ Before(held, t, x, y) => Before(held, t, e, y)
    BY <1>1, <1>2
  <1>6. \A e, x \in C : Before(held, t, e, x) => b(e) >= b(x)
    BY <1>1, <1>2
  <1> QED BY <1>3, <1>4, <1>5, <1>6 DEF b

(* Among the candidates one is before all others: a smallest set without    *)
(* such a one would have it after all.                                      *)
LEMMA FirstCandidate ==
  ASSUME NEW held \in [Experiments -> Names \union {NoPolicy}], NEW t \in Nat,
         Candidates(held, t) # {}
  PROVE  \E e \in Candidates(held, t) : Selected(held, t, e)
  <1> DEFINE C == Candidates(held, t)
             First(e, T) == \A x \in T \ {e} : Before(held, t, e, x)
             Good(T) == T # {} => \E e \in T : First(e, T)
             Bad == {T \in FiniteSubsetsOf(C) : ~Good(T)}
  <1>1. IsFiniteSet(C)
    BY FS_Subset DEF Candidates, Scanned
  <1>2. ASSUME Bad # {} PROVE FALSE
    <2>1. PICK T \in Bad : \A U \in Bad : ~(<<U, T>> \in StrictSubsetOrdering(C))
      <3>1. Bad \subseteq FiniteSubsetsOf(C)
        OBVIOUS
      <3> HIDE DEF Bad, C
      <3> QED BY <1>1, <1>2, <3>1, WFMin, FS_StrictSubsetOrderingWellFounded
    <2>2. T \in SUBSET C /\ IsFiniteSet(T) /\ ~Good(T)
      BY DEF FiniteSubsetsOf
    <2>3. PICK x \in T : TRUE
      BY <2>2
    <2> DEFINE U == T \ {x}
    <2>4. U \in FiniteSubsetsOf(C) /\ <<U, T>> \in StrictSubsetOrdering(C)
      BY <2>2, <2>3, FS_RemoveElement DEF FiniteSubsetsOf, StrictSubsetOrdering
    <2>5. Good(U)
      BY <2>1, <2>4
    <2>6. T = U \union {x} /\ x \notin U
      BY <2>3
    <2> HIDE DEF U, C
    <2>7. CASE U = {}
      BY <2>2, <2>6, <2>7
    <2>8. CASE U # {}
      <3>1. PICK e \in U : First(e, U)
        BY <2>5, <2>8
      <3>2. e \in C /\ x \in C /\ e # x /\ U \subseteq C
        BY <2>2, <2>6, <3>1
      <3>3. CASE Before(held, t, e, x)
        BY <2>2, <2>6, <3>1, <3>3
      <3>4. CASE Before(held, t, x, e)
        <4>1. \A y \in U : Before(held, t, x, y)
          BY <3>1, <3>2, <3>4, BeforeIsAnOrder DEF C
        <4> QED BY <2>2, <2>6, <4>1
      <3> QED BY <3>2, <3>3, <3>4, BeforeIsAnOrder DEF C
    <2> QED BY <2>7, <2>8
  <1>3. C \in FiniteSubsetsOf(C)
    BY <1>1 DEF FiniteSubsetsOf
  <1>4. PICK e \in C : First(e, C)
    BY <1>2, <1>3
  <1> QED BY <1>4 DEF Selected

(* Where there are candidates, one is selected, and it is as urgent as any. *)
OneIsSelected ==
  Candidates(policyOf, now) # {} =>
    \E e \in Candidates(policyOf, now) :
      /\ \A x \in Experiments : Selected(policyOf, now, x) <=> x = e
      /\ \A x \in Candidates(policyOf, now) :
           Bucket(Designs[policyOf[e]], now) >= Bucket(Designs[policyOf[x]], now)

(* GetPolicy never has to answer that there is no work, nor to guess, while *)
(* a scanned experiment has a policy it may offer: the sort of              *)
(* _select_policy_for_device has one first candidate, and no active policy  *)
(* is passed over for one of the future or of the past.                     *)
THEOREM OneCandidateIsSelected == Spec => []OneIsSelected
  <1>1. Shape => OneIsSelected
    <2> SUFFICES ASSUME Shape, Candidates(policyOf, now) # {}
                 PROVE  \E e \in Candidates(policyOf, now) :
                          /\ \A x \in Experiments : Selected(policyOf, now, x) <=> x = e
                          /\ \A x \in Candidates(policyOf, now) :
                               Bucket(Designs[policyOf[e]], now) >= Bucket(Designs[policyOf[x]], now)
      BY DEF OneIsSelected
    <2>1. policyOf \in [Experiments -> Names \union {NoPolicy}] /\ now \in Nat
      BY DEF Shape
    <2>2. PICK e \in Candidates(policyOf, now) : Selected(policyOf, now, e)
      BY <2>1, FirstCandidate
    <2>3. \A x \in Experiments : Selected(policyOf, now, x) <=> x = e
      BY <2>1, <2>2, BeforeIsAnOrder DEF Selected
    <2>4. \A x \in Candidates(policyOf, now) :
            Bucket(Designs[policyOf[e]], now) >= Bucket(Designs[policyOf[x]], now)
      <3> TAKE x \in Candidates(policyOf, now)
      <3>1. CASE x = e
        BY <3>1 DEF Bucket
      <3>2. CASE x # e
        BY <2>1, <2>2, <3>2, BeforeIsAnOrder DEF Selected
      <3> QED BY <3>1, <3>2
    <2> QED BY <2>2, <2>3, <2>4
  <1> QED BY <1>1, CycleAlways, PTL
===============================================================================
