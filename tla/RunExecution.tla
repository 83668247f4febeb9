----------------------------- MODULE RunExecution -----------------------------
(***************************************************************************)
(* What the agent does between two polls: it executes the command groups of *)
(* a policy one after the other, captures in threads of their own where the *)
(* policy says so, joins these threads at the end of their group, persists  *)
(* the report and, where the measured interface carries the control plane,  *)
(* tries to recover it before the reports are sent.                         *)
(*                                                                          *)
(* Left to other modules: which policy it is (PolicyCycle), how often it is *)
(* executed (ExecutionIndex), the way of the report (ReportDelivery) and of *)
(* the artifacts (ArtifactTransfer). Command logs and the summary, written  *)
(* by the main thread under names of their own, are left out, and so are    *)
(* uploads during the measurement.                                          *)
(***************************************************************************)
EXTENDS MonitorCapture

CONSTANTS
  Programs,   \* command groups of the policies: see ProgramType
  MaxRuns     \* bound: runs in a behaviour

(* shell: any command that is waited for and leaves the interface alone;    *)
(* scan: a passive monitor capture that is waited for; monitor, advertise:  *)
(* a capture in a thread (WIFI_SCAN_RUN_ASYNC, BLE_SCAN_RUN_ASYNC).         *)
Kinds == {"shell", "scan", "monitor", "advertise"}
ProgramType == Seq([commands : Seq(Kinds), failFast : BOOLEAN])

ASSUME ExecutionAssumption ==
  /\ MaxRuns \in Nat
  /\ \A p \in Programs : p \in ProgramType /\ DOMAIN p \subseteq Groups
                         /\ \A g \in DOMAIN p : DOMAIN p[g].commands \subseteq Positions

VARIABLES
  program,   \* the groups of the policy
  agent,     \* [pc, at, tasks, failed, artifacts, run]
  report     \* of the run, once it is persisted

vars == <<host, program, agent, report, captureVars>>

NoReport == [status |-> "none", artifacts |-> {}]

(* poll: before GetPolicy; group: before the group at[1]; command: before   *)
(* the command at; wait: for the capture at; join: the threads of the group *)
(* are joined; report: before persist_report; recover: before the control   *)
(* plane is recovered; flush: before the reports are sent.                  *)
Pcs == {"poll", "group", "command", "wait", "join", "report", "recover", "flush"}

(* tasks: _async_tasks; failed: commands_failed # 0; artifacts: those       *)
(* collected so far, with the command that handed them over.                *)
Polling == [pc |-> "poll", at |-> <<1, 1>>, tasks |-> << >>, failed |-> FALSE, artifacts |-> {},
            run |-> 0]

Init ==
  /\ CaptureInit
  /\ program \in Programs
  /\ agent = Polling
  /\ report = NoReport

At(pc) == agent.pc = pc
Group == program[agent.at[1]]
Kind == Group.commands[agent.at[2]]

(* The server can be reached.                                               *)
Online == host.single => radio.linked

---------------------------------------------------------------------------
(* The run.                                                                 *)

(* start_run: a directory of its own.                                       *)
Begin ==
  /\ At("poll") /\ Online /\ agent.run < MaxRuns
  /\ agent' = [Polling EXCEPT !.pc = "group", !.run = agent.run + 1]
  /\ report' = NoReport
  /\ cap' = [c \in Commands |-> Idle] /\ files' = << >> /\ cuts' = {}
  /\ UNCHANGED <<radio, scratch, faults, leaky>>

NextGroup == [agent EXCEPT !.pc = "group", !.at = <<agent.at[1] + 1, 1>>, !.tasks = << >>]

(* A group outside of its window is left out, and so is an empty one.       *)
EnterGroup ==
  /\ At("group")
  /\ \/ agent.at[1] \notin DOMAIN program /\ agent' = [agent EXCEPT !.pc = "report"]
     \/ agent.at[1] \in DOMAIN program /\ agent' = NextGroup
     \/ /\ agent.at[1] \in DOMAIN program /\ Group.commands # << >>
        /\ agent' = [agent EXCEPT !.pc = "command"]
  /\ UNCHANGED <<report, captureVars>>

(* After a command: FAIL_FAST leaves the group, but not the run.            *)
Ended(failed, artifacts) ==
  LET leave == failed /\ Group.failFast
      last  == agent.at[2] = Len(Group.commands)
  IN [agent EXCEPT !.pc = IF leave \/ last THEN "join" ELSE "command",
                   !.at[2] = IF leave \/ last THEN 1 ELSE @ + 1,
                   !.failed = @ \/ failed,
                   !.artifacts = @ \union artifacts]

Shell ==
  /\ At("command") /\ Kind = "shell"
  /\ \E failed \in BOOLEAN : agent' = Ended(failed, {})
  /\ UNCHANGED <<report, captureVars>>

(* An asynchronous capture counts as a success as soon as its thread runs.  *)
StartThread ==
  /\ At("command") /\ Kind \in {"monitor", "advertise"}
  /\ Started(agent.at, Kind)
  /\ agent' = [Ended(FALSE, {}) EXCEPT !.tasks = Append(@, agent.at)]
  /\ UNCHANGED <<report, radio, scratch, files, faults, cuts, leaky>>

StartScan ==
  /\ At("command") /\ Kind = "scan"
  /\ Started(agent.at, "monitor")
  /\ agent' = [agent EXCEPT !.pc = "wait"]
  /\ UNCHANGED <<report, radio, scratch, files, faults, cuts, leaky>>

Handed(c) == IF cap[c].listed THEN {<<cap[c].name, c>>} ELSE {}

(* What a scan raises ends the process (Crash).                             *)
EndScan ==
  /\ At("wait") /\ cap[agent.at].pc = "ended" /\ cap[agent.at].exit # "raised"
  /\ agent' = Ended(cap[agent.at].exit = "failed", Handed(agent.at))
  /\ UNCHANGED <<report, captureVars>>

(* Mutant: the threads of a group are not waited for.                       *)
JoinReady ==
  /\ At("join") /\ agent.tasks # << >>
  /\ agent' = [agent EXCEPT !.tasks = Tail(@), !.artifacts = @ \union Handed(Head(agent.tasks))]
  /\ UNCHANGED <<report, captureVars>>

(* The exit code in the box is not looked at.                               *)
Join ==
  /\ At("join") /\ agent.tasks # << >>
  /\ cap[Head(agent.tasks)].pc = "ended"
  /\ agent' = [agent EXCEPT !.tasks = Tail(@), !.artifacts = @ \union Handed(Head(agent.tasks))]
  /\ UNCHANGED <<report, captureVars>>

Joined ==
  /\ At("join") /\ agent.tasks = << >>
  /\ agent' = NextGroup
  /\ UNCHANGED <<report, captureVars>>

Persist ==
  /\ At("report")
  /\ report' = [status |-> IF agent.failed THEN "FAILED" ELSE "OK", artifacts |-> agent.artifacts]
  /\ agent' = [agent EXCEPT !.pc = IF host.single THEN "recover" ELSE "flush"]
  /\ UNCHANGED captureVars

---------------------------------------------------------------------------
(* The control plane.                                                       *)

(* The interface goes down and up and NetworkManager connects it: that      *)
(* needs a managed interface. Attempts and their fallbacks are one step.    *)
(* Where the agent is to reboot otherwise, it does, unless that fails too:  *)
(* then, as without a reboot, the reports are tried all the same.           *)
Recover ==
  /\ At("recover")
  /\ \/ /\ radio.type = "managed" /\ Works
        /\ radio' = [radio EXCEPT !.linked = TRUE]
        /\ agent' = [agent EXCEPT !.pc = "flush"]
        /\ UNCHANGED leaky
     \/ /\ IF radio.type = "managed" \/ host.reboot THEN Fails ELSE Works
        /\ radio' = [radio EXCEPT !.linked = FALSE]
        /\ agent' = [agent EXCEPT !.pc = "flush"]
        /\ UNCHANGED leaky
     \/ /\ IF radio.type = "managed" THEN Fails ELSE Works
        /\ host.reboot
        /\ radio' = [type |-> "managed", vif |-> Nobody, linked |-> TRUE]
        /\ agent' = [agent EXCEPT !.pc = "poll"]
        /\ leaky' = FALSE
  /\ UNCHANGED <<report, cap, scratch, files, cuts>>

Flush ==
  /\ At("flush")
  /\ agent' = [agent EXCEPT !.pc = "poll"]
  /\ UNCHANGED <<report, captureVars>>

(* NetworkManager connects a managed interface on its own.                  *)
Associate ==
  /\ host.single /\ radio.type = "managed" /\ ~radio.linked
  /\ radio' = [radio EXCEPT !.linked = TRUE]
  /\ UNCHANGED <<agent, report, cap, scratch, files, faults, cuts, leaky>>

(* The process ends, its threads with it; the interface stays as it is.     *)
(* The next process polls; an unreported run is put aside (ReportDelivery). *)
Crash ==
  /\ ~At("poll")
  /\ \/ Fails
     \/ At("wait") /\ cap[agent.at].exit = "raised" /\ Works
  /\ leaky' = (leaky \/ \E c \in Commands : Active(c))
  /\ agent' = [Polling EXCEPT !.run = agent.run]
  /\ cap' = [c \in Commands |-> Idle]
  /\ report' = NoReport
  /\ UNCHANGED <<radio, scratch, files, cuts>>

MainStep ==
  \/ Begin \/ EnterGroup \/ Shell \/ StartThread \/ StartScan \/ EndScan \/ Join \/ Joined
  \/ Persist \/ Recover \/ Flush

Step ==
  \/ MainStep
  \/ \E c \in Commands : CaptureStep(c) /\ UNCHANGED <<agent, report>>
  \/ Associate
  \/ Crash

Next == Step /\ UNCHANGED <<host, program>>

Spec == Init /\ [][Next]_vars

---------------------------------------------------------------------------
Names == {"monitor", "advertise"} \X (Commands \union {Nobody})

TypeOK ==
  /\ CaptureTypeOK
  /\ files \in [DOMAIN files -> Commands] /\ DOMAIN files \subseteq Names
  /\ program \in Programs
  /\ agent \in [pc : Pcs, at : Nat \X (Nat \ {0}), tasks : Seq(Commands), failed : BOOLEAN,
                artifacts : SUBSET (Names \X Commands), run : 0..MaxRuns]
  /\ report \in [status : {"none", "OK", "FAILED"}, artifacts : SUBSET (Names \X Commands)]

(* The captures of a group that may run at the same time.                   *)
Rivals(c) == {d \in Commands : d # c /\ d[1] = c[1] /\ cap[d].pc # "idle" /\ cap[d].kind = cap[c].kind}

(* Nothing is written after a report: every thread has ended. What it lists *)
(* is on disk, as written by the command that lists it or by one of the     *)
(* same kind in the same group; and a capture that ended well and had no    *)
(* such rival is listed, unless something failed. (main, 1080-1115 and      *)
(* 1269; import_file_artifact; collect_wifi_monitor_capture.)               *)
ReportMatchesSpool ==
  report # NoReport =>
    /\ \A c \in Commands : ~Active(c)
    /\ \A a \in report.artifacts :
         a[1] \in DOMAIN files /\ files[a[1]] \in {a[2]} \union Rivals(a[2])
    /\ \A c \in Commands :
         cap[c].exit = "ok" /\ Rivals(c) = {} /\ faults = 0 =>
           \E a \in report.artifacts : a[2] = c /\ files[a[1]] = c
==============================================================================
