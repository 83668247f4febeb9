------------------------------ MODULE PolicyCycle ------------------------------
(***************************************************************************)
(* The cycle of an agent and the server's side of it: researchers change    *)
(* the policies of experiments, the clock moves windows in and out of       *)
(* reach, the server offers a policy, with or without its body, and the     *)
(* agent skips, defers, declines or executes it and then sends the reports  *)
(* it has spooled, if the upload window in force lets it.                   *)
(*                                                                          *)
(* Left to other modules: what happens inside a run and to a single report  *)
(* (RunExecution, ReportDelivery), the count of the runs of a policy and    *)
(* crashes between the writes to its record (ExecutionIndex).               *)
(***************************************************************************)
EXTENDS PolicySelection

CONSTANTS
  Base,      \* upload window of the agent's own configuration
  Device,    \* hashes of the agent's name
  MaxTime,   \* bound: the clock stops there
  MaxRuns,   \* bound: runs started in a behaviour
  MaxEdits,  \* bound: changes to experiments in a behaviour
  MaxStops   \* bound: restarts of the agent in a behaviour

ASSUME CycleAssumption ==
  /\ Base \in Configs /\ Device \in Devices
  /\ {MaxTime, MaxRuns, MaxEdits, MaxStops} \subseteq Nat /\ MaxTime # 0

VARIABLES
  now,       \* the clock of the server and the agent
  policyOf,  \* the design each experiment holds
  agent,     \* [pc, last, cached, policy, cfg, bypass, offer]
  index,     \* execution-index.json: [policy as sent -> [state, at]]
  spool,     \* finished runs whose report is not delivered
  history    \* [runs, finished, edits, stops]

vars == <<now, policyOf, agent, index, spool, history>>

(* policy_id: the hash of the policy and of the experiment's number.        *)
Ids == Experiments \X Names
NoId == <<0, NoPolicy>>

(* A policy as it is sent: its id and its measurement window; the key of    *)
(* the execution index.                                                     *)
Body(id, w) == [id |-> id, window |-> w]
NoBody == Body(NoId, Nowhere)

DesignOf(id) == Designs[id[2]]

(* poll: before GetPolicy; decide: a policy is in hand; run: it is          *)
(* executed; flush: before flush_pending_reports_guarded; down: the process *)
(* is stopped.                                                              *)
Pcs == {"poll", "decide", "run", "flush", "down"}

(* last: last_policy_id; cached: cached_policy; cfg: active_upload_cfg;     *)
(* bypass: bypass_slot_gate; offer: history, what the server selected in    *)
(* this cycle, with the window it answered.                                 *)
Fresh == [pc |-> "flush", last |-> NoId, cached |-> NoBody, policy |-> NoBody, cfg |-> Base,
          bypass |-> FALSE, offer |-> NoBody]

Init ==
  /\ now = 1
  /\ policyOf \in [Experiments -> Names \union {NoPolicy}]
  /\ agent = Fresh
  /\ index = << >>
  /\ spool = {}
  /\ history = [runs |-> 0, finished |-> {}, edits |-> 0, stops |-> 0]

At(pc) == agent.pc = pc

---------------------------------------------------------------------------
(* GetPolicy: the server selects, the agent takes what it is answered.  An  *)
(* RPC error changes nothing but the time.                                  *)

Offers ==
  {Body(<<e, policyOf[e]>>, MeasurementWindow(Designs[policyOf[e]], now)) :
     e \in {x \in Experiments : Selected(policyOf, now, x)}}

(* The policy is executed under the upload window it brings.                *)
Take(body) ==
  [agent EXCEPT !.pc = "decide", !.policy = body,
                !.cfg = UploadConfig(Base, DesignOf(body.id), body.window)]

(* Without a policy in hand, the agent's own configuration is in force.     *)
TakeNothing == [agent EXCEPT !.pc = "flush", !.policy = NoBody, !.cfg = Base, !.bypass = FALSE]

NoWorkKeepsWindow ==
  /\ At("poll")
  /\ Offers = {}
  /\ agent' = [agent EXCEPT !.pc = "flush", !.policy = NoBody, !.bypass = FALSE, !.offer = NoBody]
  /\ UNCHANGED <<now, policyOf, index, spool, history>>

NoWork ==
  /\ At("poll")
  /\ Offers = {}
  /\ agent' = [TakeNothing EXCEPT !.offer = NoBody]
  /\ UNCHANGED <<now, policyOf, index, spool, history>>

AnswerOk ==
  /\ At("poll")
  /\ \E offer \in Offers :
       /\ offer.id # agent.last
       /\ agent' = [Take(offer) EXCEPT !.cached = offer, !.offer = offer]
  /\ UNCHANGED <<now, policyOf, index, spool, history>>

(* Mutant of NotModified: whatever is cached is taken.                      *)
NotModifiedAnyBody ==
  /\ At("poll")
  /\ \E offer \in Offers :
       /\ offer.id = agent.last
       /\ agent' = [Take(agent.cached) EXCEPT !.offer = offer]
  /\ UNCHANGED <<now, policyOf, index, spool, history>>

(* The answer has no body: the cached one is taken if it is the same policy.*)
NotModified ==
  /\ At("poll")
  /\ \E offer \in Offers :
       /\ offer.id = agent.last
       /\ agent' = IF agent.cached.id = agent.last
                   THEN [Take(agent.cached) EXCEPT !.offer = offer]
                   ELSE [TakeNothing EXCEPT !.offer = offer]
  /\ UNCHANGED <<now, policyOf, index, spool, history>>

---------------------------------------------------------------------------
(* The decision.                                                            *)

Recorded(body) == body \in DOMAIN index

(* _execution_skip_reason, without max_runs.                                *)
Skipped(body) ==
  /\ Recorded(body)
  /\ LET r == index[body] IN
     \/ r.state = "in_progress" /\ now <= body.window.to
     \/ ~DesignOf(body.id).recurring /\ r.state = "completed"
     \/ /\ DesignOf(body.id).recurring /\ r.state = "completed"
        /\ now < r.at + DesignOf(body.id).interval

(* The execution is skipped or its window not yet open: the reports are     *)
(* sent without regard to the slot.                                         *)
SkipOrDefer ==
  /\ At("decide")
  /\ Skipped(agent.policy) \/ now < agent.policy.window.from
  /\ agent' = [agent EXCEPT !.pc = "flush", !.bypass = TRUE]
  /\ UNCHANGED <<now, policyOf, index, spool, history>>

(* AckPrepared fails or is not accepted.                                    *)
Refused ==
  /\ At("decide")
  /\ ~Skipped(agent.policy) /\ now >= agent.policy.window.from
  /\ agent' = [agent EXCEPT !.pc = "flush", !.bypass = FALSE]
  /\ UNCHANGED <<now, policyOf, index, spool, history>>

Record(body, state) ==
  [b \in DOMAIN index \union {body} |->
     IF b = body THEN [state |-> state, at |-> now] ELSE index[b]]

Begin ==
  /\ At("decide")
  /\ ~Skipped(agent.policy) /\ now >= agent.policy.window.from
  /\ history.runs < MaxRuns
  /\ index' = Record(agent.policy, "in_progress")
  /\ agent' = [agent EXCEPT !.pc = "run"]
  /\ history' = [history EXCEPT !.runs = @ + 1]
  /\ UNCHANGED <<now, policyOf, spool>>

(* The report is persisted; only now the policy becomes the last one.       *)
Finish ==
  LET run == [no |-> history.runs, body |-> agent.policy] IN
  /\ At("run")
  /\ index' = Record(agent.policy, "completed")
  /\ spool' = spool \union {run}
  /\ agent' = [agent EXCEPT !.pc = "flush", !.bypass = FALSE, !.last = agent.policy.id]
  /\ history' = [history EXCEPT !.finished = @ \union {run}]
  /\ UNCHANGED <<now, policyOf>>

---------------------------------------------------------------------------
(* flush_pending_reports_guarded.                                           *)

(* Mutant of Blocked: the bypass opens the window, not just the slot.       *)
BlockedUnlessBypassed ==
  ~agent.bypass /\ (OutsideWindow(agent.cfg, now) \/ OutsideSlot(agent.cfg, Device, now))

Blocked ==
  \/ OutsideWindow(agent.cfg, now)
  \/ OutsideSlot(agent.cfg, Device, now) /\ ~agent.bypass

(* last_policy_id, cached_policy and active_upload_cfg outlive the cycle.    *)
NextCycle == [agent EXCEPT !.pc = "poll", !.policy = NoBody, !.bypass = FALSE, !.offer = NoBody]

(* The reports are delivered, which marks their executions once more.       *)
Send ==
  /\ At("flush") /\ ~Blocked
  /\ index' = [b \in DOMAIN index |->
                 IF \E r \in spool : r.body = b THEN [state |-> "completed", at |-> now]
                                                ELSE index[b]]
  /\ spool' = {}
  /\ agent' = NextCycle
  /\ UNCHANGED <<now, policyOf, history>>

(* The gate is closed, or the route or the call fails.                      *)
Keep ==
  /\ At("flush") /\ (Blocked \/ spool # {})
  /\ agent' = NextCycle
  /\ UNCHANGED <<now, policyOf, index, spool, history>>

---------------------------------------------------------------------------
(* The surroundings.                                                        *)

Stop ==
  /\ ~At("down") /\ history.stops < MaxStops
  /\ agent' = [Fresh EXCEPT !.pc = "down"]
  /\ history' = [history EXCEPT !.stops = @ + 1]
  /\ UNCHANGED <<now, policyOf, index, spool>>

(* main starts with a flush.                                                *)
Restart ==
  /\ At("down")
  /\ agent' = Fresh
  /\ UNCHANGED <<now, policyOf, index, spool, history>>

(* A researcher gives an experiment another policy, or none.                *)
Edit(e, n) ==
  /\ history.edits < MaxEdits /\ policyOf[e] # n
  /\ policyOf' = [policyOf EXCEPT ![e] = n]
  /\ history' = [history EXCEPT !.edits = @ + 1]
  /\ UNCHANGED <<now, agent, index, spool>>

Tick ==
  /\ now < MaxTime
  /\ now' = now + 1
  /\ UNCHANGED <<policyOf, agent, index, spool, history>>

AgentStep ==
  \/ NoWork \/ AnswerOk \/ NotModified
  \/ SkipOrDefer \/ Refused \/ Begin \/ Finish
  \/ Send \/ Keep \/ Restart

Next ==
  \/ AgentStep
  \/ Stop
  \/ \E e \in Experiments, n \in Names \union {NoPolicy} : Edit(e, n)
  \/ Tick

Spec == Init /\ [][Next]_vars

(* The agent keeps cycling, time passes, and a flush that is let through    *)
(* again and again succeeds some time.                                      *)
Fairness == WF_vars(AgentStep) /\ SF_vars(Send) /\ WF_vars(Tick)

FairSpec == Spec /\ Fairness

---------------------------------------------------------------------------
Bodies == [id : Ids \union {NoId}, window : Window]

RunType == [no : Nat, body : Bodies]

(* Type correctness of the cycle, its cache and its records.                *)
TypeOK ==
  /\ now \in 1..MaxTime
  /\ policyOf \in [Experiments -> Names \union {NoPolicy}]
  /\ agent \in [pc : Pcs, last : Ids \union {NoId}, cached : Bodies, policy : Bodies,
                cfg : Configs, bypass : BOOLEAN, offer : Bodies]
  /\ DOMAIN index \subseteq Bodies
  /\ \A b \in DOMAIN index : index[b] \in [state : {"in_progress", "completed"}, at : Nat]
  /\ spool \subseteq history.finished
  /\ history.finished \subseteq RunType
  /\ history.runs \in 0..MaxRuns /\ history.edits \in 0..MaxEdits /\ history.stops \in 0..MaxStops

(* What the agent executes is what the server selected in the same cycle,   *)
(* although the body may stem from an earlier answer: the same revision,    *)
(* and, unless the policy leaves its window to the server's clock, the      *)
(* window the server would send now.                                        *)
RunsWhatWasSelected ==
  agent.pc \in {"decide", "run"} =>
    /\ agent.policy.id = agent.offer.id
    /\ Dated(DesignOf(agent.policy.id)) => agent.policy.window = agent.offer.window

(* A policy to be executed once that has a window of its own is completed   *)
(* once, whatever else was offered in between, whether the body came from   *)
(* the server or the cache, across restarts and changes back and forth.     *)
OnceIsOnce ==
  \A r, s \in history.finished :
    /\ r.body.id = s.body.id
    /\ ~DesignOf(r.body.id).recurring /\ Dated(DesignOf(r.body.id))
    => r = s

(* A report leaves outside the upload window its own policy requires only   *)
(* while the agent holds no policy or another one.                          *)
OwnWindowRespected ==
  [][\A r \in spool \ spool' :
       LET cfg == UploadConfig(Base, DesignOf(r.body.id), r.body.window) IN
       agent.policy = r.body /\ cfg.required => InWindow(cfg, now)]_vars

(* Whatever windows the policies require, spooled reports leave: at the     *)
(* latest when the policies have expired and the agent's own configuration  *)
(* is in force again.                                                       *)
SpoolDrains == spool # {} ~> spool = {}

(* The contract of NOT_MODIFIED: an agent that is answered so can reuse the *)
(* body it has.                                                             *)
NotModifiedIsReusable ==
  At("flush") /\ agent.policy = NoBody => agent.offer = NoBody
===============================================================================
