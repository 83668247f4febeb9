---------------------------- MODULE ExecutionIndex ----------------------------
(***************************************************************************)
(* How often the agent executes one policy: the record of the policy in     *)
(* execution-index.json, the rules that skip an execution because of it,    *)
(* and everything that rewrites it - the start of a run, every persisted    *)
(* report, a delivered report, a quarantined one.  The record and the       *)
(* directories of the runs are separate files, written one after another,   *)
(* and the agent may stop between any two writes.                           *)
(***************************************************************************)
EXTENDS Naturals, FiniteSets

CONSTANTS
  Policies,    \* policies the server may hold, see PolicyType
  MaxTime,     \* bound: the clock stops there
  MaxStarts,   \* bound: runs started in a behaviour
  MaxCount,    \* bound: completed_runs is counted up to here
  Faults,      \* kinds of fault that may happen, a subset of FaultKinds
  MaxFaults    \* bound: crashes in a behaviour

(* crash: the agent process stops and starts again; disk: a stored report   *)
(* becomes unreadable; upload: an artifact cannot be transferred; net:      *)
(* PublishReport fails or is rejected; gate: the upload window or the route *)
(* is closed                                                                *)
FaultKinds == {"crash", "disk", "upload", "net", "gate"}

(* mode, interval and maxRuns: EXECUTION_MODE, EXECUTION_INTERVAL_S (0:     *)
(* none), EXECUTION_MAX_RUNS (0: no limit); from, to: measurement window of *)
(* the policy and of its groups; bundling: SERVER_SIDE_ARTIFACT_BUNDLING of *)
(* the agent that executes it                                               *)
PolicyType == [mode: {"once", "recurring"}, interval: Nat, maxRuns: 0..MaxCount,
               from: Nat \ {0}, to: Nat, bundling: BOOLEAN]

ASSUME IndexAssumption ==
  /\ {MaxTime, MaxStarts, MaxCount, MaxFaults} \subseteq Nat
  /\ MaxStarts <= MaxCount
  /\ Policies \subseteq PolicyType
  /\ \A p \in Policies : p.from <= p.to
  /\ Faults \subseteq FaultKinds

Runs == 1..MaxStarts   \* in the order in which they start
NoRun == 0
Never == 0             \* the clock starts at 1

VARIABLES
  policy,   \* the policy of the behaviour, fixed in Init
  now,      \* the agent's clock
  index,    \* the policy's record in execution-index.json
  place,    \* the directory that holds a run
  written,  \* runs that have a report.json
  corrupt,  \* runs whose report.json cannot be read
  metrics,  \* metrics_upload_state in the report of a run
  local,    \* runs with an artifact still to be transferred
  agent,    \* [pc, run, todo, metrics]: the agent's only thread
  crashes,  \* number of crashes so far
  history   \* of each run: when it was started and measured, whether its
            \* completion was recorded

diskVars == <<index, place, written, corrupt, metrics, local>>
vars == <<policy, now, index, place, written, corrupt, metrics, local, agent, crashes, history>>

Mode     == policy.mode
Interval == policy.interval
MaxRuns  == policy.maxRuns

States == {"none", "in_progress", "completed", "reported", "failed"}
MetricsStates == {"PENDING", "UPLOADED", "UPLOAD_FAILED"}

(* poll: top of the loop; decide: a policy is in hand; start: the record is *)
(* marked, the directory not yet made; measure; count: a report is written, *)
(* the record not yet marked; gate: about to flush; flush: in the loop over *)
(* the pending runs; count_again: as count, in a flush; publish; sent and   *)
(* failed: the directory is moved, the record not yet marked                *)
Pcs == {"down", "poll", "decide", "start", "measure", "count", "gate",
        "flush", "count_again", "publish", "sent", "failed"}

Idle == [pc |-> "poll", run |-> NoRun, todo |-> {}, metrics |-> "UPLOADED"]

Started == {r \in Runs : history[r].start # Never}
Finished == {r \in Runs : history[r].finish # Never}

Init ==
  /\ policy \in Policies
  /\ now = 1
  /\ index = [state |-> "none", run |-> NoRun, startedAt |-> Never, completedAt |-> Never,
              completedRuns |-> 0]
  /\ place = [r \in Runs |-> "none"]
  /\ written = {} /\ corrupt = {}
  /\ metrics = [r \in Runs |-> "PENDING"]
  /\ local = {}
  /\ agent = [Idle EXCEPT !.pc = "gate"]
  /\ crashes = 0
  /\ history = [r \in Runs |-> [start |-> Never, finish |-> Never, counted |-> FALSE]]

Goto(pc) == agent' = [agent EXCEPT !.pc = pc]

---------------------------------------------------------------------------
(* The rules of _execution_skip_reason, in its order.                       *)

StillInProgress == index.state = "in_progress" /\ now <= policy.to

DoneOnceForgetsFailed == Mode = "once" /\ index.state \in {"completed", "reported"}

DoneOnce == Mode = "once" /\ index.state \in {"completed", "reported", "failed"}

Exhausted ==
  /\ Mode = "recurring" /\ index.state # "in_progress"
  /\ MaxRuns > 0 /\ index.completedRuns >= MaxRuns

LastCompleted == IF index.completedAt # Never THEN index.completedAt ELSE index.startedAt

NotDueSinceStart ==
  /\ Mode = "recurring" /\ index.state # "in_progress"
  /\ index.startedAt # Never /\ now < index.startedAt + Interval

NotDue ==
  /\ Mode = "recurring" /\ index.state # "in_progress"
  /\ LastCompleted # Never /\ now < LastCompleted + Interval

Skipped == index.state # "none" /\ (StillInProgress \/ DoneOnce \/ Exhausted \/ NotDue)

(* mark_execution_state: the record is read, changed and replaced.          *)
MarkedUnbounded(state, r) ==
  [index EXCEPT
     !.state = state,
     !.run = r,
     !.startedAt = IF state = "in_progress" THEN now ELSE @,
     !.completedAt = IF state \in {"completed", "reported"} THEN now ELSE @,
     !.completedRuns = IF state = "completed" THEN @ + 1 ELSE @]

MarkedUncounted(state, r) ==
  [index EXCEPT
     !.state = state,
     !.run = r,
     !.startedAt = IF state = "in_progress" THEN now ELSE @,
     !.completedAt = IF state \in {"completed", "reported"} THEN now ELSE @,
     !.completedRuns = IF state = "reported" /\ @ < MaxCount THEN @ + 1 ELSE @]

Marked(state, r) ==
  [index EXCEPT
     !.state = state,
     !.run = r,
     !.startedAt = IF state = "in_progress" THEN now ELSE @,
     !.completedAt = IF state \in {"completed", "reported"} THEN now ELSE @,
     !.completedRuns = IF state = "completed" /\ @ < MaxCount THEN @ + 1 ELSE @]

---------------------------------------------------------------------------
(* The loop of main: a policy, the decision, a run.                         *)

(* The server may well offer a policy whose measurement window is over: it  *)
(* selects by the range of the policy.                                      *)
GetPolicy ==
  /\ agent.pc = "poll"
  /\ Goto("decide")
  /\ UNCHANGED <<now, diskVars, crashes, history>>

NoPolicy ==
  /\ agent.pc = "poll"
  /\ Goto("gate")
  /\ UNCHANGED <<now, diskVars, crashes, history>>

(* The execution is skipped, its window is not yet open, or AckPrepared     *)
(* fails or is not accepted.                                                *)
Decline ==
  /\ agent.pc = "decide"
  /\ Skipped \/ now < policy.from \/ "net" \in Faults
  /\ Goto("gate")
  /\ UNCHANGED <<now, diskVars, crashes, history>>

Begin ==
  /\ agent.pc = "decide"
  /\ ~Skipped /\ now >= policy.from
  /\ \E r \in Runs :
       /\ r = Cardinality(Started) + 1
       /\ index' = Marked("in_progress", r)
       /\ agent' = [agent EXCEPT !.pc = "start", !.run = r]
       /\ history' = [history EXCEPT ![r].start = now]
  /\ UNCHANGED <<now, place, written, corrupt, metrics, local, crashes>>

(* start_run makes the directory of the run.                                *)
StartRun ==
  /\ agent.pc = "start"
  /\ place' = [place EXCEPT ![agent.run] = "pending"]
  /\ Goto("measure")
  /\ UNCHANGED <<now, index, written, corrupt, metrics, local, crashes, history>>

(* persist_report writes report.json ...  Nothing is left to transfer where *)
(* uploads are off or were made during the measurement.                     *)
WriteReport ==
  /\ agent.pc = "measure"
  /\ written' = written \union {agent.run}
  /\ \E left \in SUBSET {agent.run} : local' = local \union left
  /\ history' = [history EXCEPT ![agent.run].finish = now]
  /\ Goto("count")
  /\ UNCHANGED <<now, index, place, corrupt, metrics, crashes>>

(* ... and then marks the record.                                           *)
Count ==
  /\ agent.pc = "count"
  /\ index' = Marked("completed", agent.run)
  /\ history' = [history EXCEPT ![agent.run].counted = TRUE]
  /\ Goto("gate")
  /\ UNCHANGED <<now, place, written, corrupt, metrics, local, crashes>>

---------------------------------------------------------------------------
(* flush_pending_reports_guarded and flush_pending_reports.                 *)

GateClosed ==
  /\ agent.pc = "gate" /\ "gate" \in Faults
  /\ Goto("poll")
  /\ UNCHANGED <<now, diskVars, crashes, history>>

BeginFlush ==
  /\ agent.pc = "gate"
  /\ \E state \in {"UPLOADED"} \union (IF "upload" \in Faults THEN {"UPLOAD_FAILED"} ELSE {}) :
       agent' = [pc |-> "flush", run |-> NoRun, metrics |-> state,
                 todo |-> {r \in written : place[r] = "pending"}]
  /\ UNCHANGED <<now, diskVars, crashes, history>>

QuarantineRecordsFirst(r) ==
  /\ agent.pc = "flush" /\ r \in agent.todo /\ r \in corrupt
  /\ index' = Marked("failed", r)
  /\ agent' = [agent EXCEPT !.pc = "failed", !.run = r, !.todo = @ \ {r}]
  /\ UNCHANGED <<now, place, written, corrupt, metrics, local, crashes, history>>

(* quarantine_pending_run moves the directory ...                           *)
Quarantine(r) ==
  /\ agent.pc = "flush" /\ r \in agent.todo /\ r \in corrupt
  /\ place' = [place EXCEPT ![r] = "failed"]
  /\ agent' = [agent EXCEPT !.pc = "failed", !.run = r, !.todo = @ \ {r}]
  /\ UNCHANGED <<now, index, written, corrupt, metrics, local, crashes, history>>

(* ... and then marks the record.                                           *)
RecordFailed ==
  /\ agent.pc = "failed"
  /\ index' = Marked("failed", agent.run)
  /\ Goto("flush")
  /\ UNCHANGED <<now, place, written, corrupt, metrics, local, crashes, history>>

(* The artifacts left are transferred or fail; the report is persisted      *)
(* again when that, or the state of the metrics, changes it.                *)
Replay(r) ==
  /\ agent.pc = "flush" /\ r \in agent.todo /\ r \notin corrupt
  /\ \/ local' = local \ {r}
     \/ "upload" \in Faults /\ r \in local /\ UNCHANGED local
  /\ metrics' = [metrics EXCEPT ![r] = agent.metrics]
  /\ agent' = [agent EXCEPT
                 !.pc = IF r \in local \/ metrics[r] # agent.metrics THEN "count_again" ELSE "publish",
                 !.run = r, !.todo = @ \ {r}]
  /\ UNCHANGED <<now, index, place, written, corrupt, crashes, history>>

CountAgain ==
  /\ agent.pc = "count_again"
  /\ index' = Marked("completed", agent.run)
  /\ history' = [history EXCEPT ![agent.run].counted = TRUE]
  /\ Goto(IF policy.bundling /\ agent.run \in local THEN "flush" ELSE "publish")
  /\ UNCHANGED <<now, place, written, corrupt, metrics, local, crashes>>

(* mark_sent of a report that was accepted moves the directory ...          *)
Publish ==
  /\ agent.pc = "publish"
  /\ \/ /\ place' = [place EXCEPT ![agent.run] = "sent"]
        /\ Goto("sent")
     \/ /\ "net" \in Faults
        /\ Goto("flush")
        /\ UNCHANGED place
  /\ UNCHANGED <<now, index, written, corrupt, metrics, local, crashes, history>>

(* ... and then marks the record.                                           *)
RecordSent ==
  /\ agent.pc = "sent"
  /\ index' = Marked("reported", agent.run)
  /\ history' = [history EXCEPT ![agent.run].counted = TRUE]
  /\ Goto("flush")
  /\ UNCHANGED <<now, place, written, corrupt, metrics, local, crashes>>

EndFlush ==
  /\ agent.pc = "flush" /\ agent.todo = {}
  /\ agent' = Idle
  /\ UNCHANGED <<now, diskVars, crashes, history>>

---------------------------------------------------------------------------
(* The process and its surroundings.                                        *)

Crash ==
  /\ "crash" \in Faults /\ crashes < MaxFaults
  /\ agent.pc # "down"
  /\ agent' = [Idle EXCEPT !.pc = "down"]
  /\ crashes' = crashes + 1
  /\ UNCHANGED <<now, diskVars, history>>

(* main starts again, with the flush "startup".                             *)
Restart ==
  /\ agent.pc = "down"
  /\ Goto("gate")
  /\ UNCHANGED <<now, diskVars, crashes, history>>

Corrupt(r) ==
  /\ "disk" \in Faults /\ agent.pc \in {"down", "poll"}
  /\ r \in written \ corrupt /\ place[r] = "pending"
  /\ corrupt' = corrupt \union {r}
  /\ UNCHANGED <<now, index, place, written, metrics, local, agent, crashes, history>>

(* The clock moves where the agent waits: for the next poll, a measurement, *)
(* an answer or its restart.                                                *)
Tick ==
  /\ now < MaxTime
  /\ agent.pc \in {"poll", "decide", "measure", "publish", "down"}
  /\ now' = now + 1
  /\ UNCHANGED <<diskVars, agent, crashes, history>>

Step ==
  \/ GetPolicy \/ NoPolicy \/ Decline \/ Begin \/ StartRun \/ WriteReport \/ Count
  \/ GateClosed \/ BeginFlush \/ EndFlush
  \/ \E r \in Runs : Quarantine(r) \/ Replay(r) \/ Corrupt(r)
  \/ RecordFailed \/ CountAgain \/ Publish \/ RecordSent
  \/ Crash \/ Restart \/ Tick

Next == Step /\ UNCHANGED policy

Spec == Init /\ [][Next]_vars

---------------------------------------------------------------------------
(* Type correctness of the record, the directories and the agent's thread.  *)
TypeOK ==
  /\ policy \in Policies
  /\ now \in Nat
  /\ index \in [state: States, run: Runs \union {NoRun}, startedAt: Nat, completedAt: Nat,
                completedRuns: 0..MaxCount]
  /\ place \in [Runs -> {"none", "pending", "sent", "failed"}]
  /\ written \subseteq Runs /\ corrupt \subseteq Runs /\ local \subseteq Runs
  /\ metrics \in [Runs -> MetricsStates]
  /\ agent \in [pc: Pcs, run: Runs \union {NoRun}, todo: SUBSET Runs, metrics: MetricsStates]
  /\ crashes \in 0..MaxFaults
  /\ history \in [Runs -> [start: Nat, finish: Nat, counted: BOOLEAN]]

(* The record never claims more than the disk holds: a run it calls         *)
(* reported or failed lies in that directory, one it calls completed has    *)
(* its report, and a run it calls in progress without a crash is the one    *)
(* that is measured.  A crash between two writes may leave the record       *)
(* behind the disk, never ahead of it.                                      *)
IndexMatchesDisk ==
  /\ index.state = "reported" => place[index.run] = "sent"
  /\ index.state = "failed" => place[index.run] = "failed"
  /\ index.state = "completed" => index.run \in written
  /\ index.state = "in_progress" =>
       \/ crashes > 0
       \/ agent.pc \in {"start", "measure", "count"} /\ agent.run = index.run

(* Beyond the runs the policy asks for - one, or max_runs - every further   *)
(* run is paid for by a crash: neither the many marks of a flush nor a      *)
(* quarantined report lets a finished policy be executed again.             *)
StartsNeedCrashes ==
  /\ Mode = "once" => Cardinality(Started) <= 1 + crashes
  /\ Mode = "recurring" /\ MaxRuns > 0 => Cardinality(Started) <= MaxRuns + crashes

(* completed_runs misses a finished run only if a crash separated a write   *)
(* of the report from the mark of the record, once for each such crash.     *)
CountMissesOnlyCrashes ==
  Cardinality(Finished) <=
    index.completedRuns + crashes + (IF agent.pc = "count" THEN 1 ELSE 0)

(* Two runs of a recurring policy keep its interval: a run starts no        *)
(* earlier than that after the end of a measurement whose completion was    *)
(* recorded before, across crashes, replays and quarantine.                 *)
RunsKeepInterval ==
  [][\A r, s \in Runs :
       r \in Started' \ Started /\ history[s].counted /\ Mode = "recurring"
         => now >= history[s].finish + Interval]_vars

(* An execution skipped because max_runs is reached has had that many runs. *)
ExhaustedAfterMaxRuns == Exhausted => Cardinality(Finished) >= MaxRuns
===============================================================================
