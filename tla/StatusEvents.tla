----------------------------- MODULE StatusEvents -----------------------------
(***************************************************************************)
(* The events that reach the pipeline of EventIngest, and who sends them.   *)
(* While it measures and uploads, the agent reports the status of commands, *)
(* uploads and artifacts; later the report of the run brings the events it  *)
(* recorded.  The service turns all of that into v1 events.  Their ids      *)
(* decide what the pipeline takes for a duplicate, so an id is kept as the  *)
(* sequence of the parts it is put together from.                           *)
(*                                                                          *)
(* A run is a record [id, experiment, policy, device]; an argument that is  *)
(* missing is the empty string, an event id that is missing is NoId.        *)
(***************************************************************************)
EXTENDS Integers, Sequences, TLC

NoId == << >>

V1(run, id, type, exit, runState) ==
  [id |-> id, experiment |-> run.experiment, policy |-> run.policy, device |-> run.device,
   type |-> type, exit |-> exit, runState |-> runState]

---------------------------------------------------------------------------
(* What the agent records in events.ndjson.  runState is the metric that    *)
(* only the end of a run has.                                               *)

EventTypeForExit(exit) == IF exit = 0 THEN "COMMAND_FINISHED" ELSE "COMMAND_FAILED"

RunStart(run) == [id |-> <<run.id, "run", "start">>, type |-> "RUN_STARTED", exit |-> 0, runState |-> ""]

CommandStart(run, cmd) ==
  [id |-> <<run.id, cmd, "start">>, type |-> "COMMAND_STARTED", exit |-> 0, runState |-> ""]

CommandEnd(run, cmd, exit) ==
  [id |-> <<run.id, cmd, "end">>, type |-> EventTypeForExit(exit), exit |-> exit, runState |-> ""]

RunEnd(run, commandsFailed) ==
  [id |-> <<run.id, "run", "end">>, type |-> "RUN_FINISHED", exit |-> 0,
   runState |-> IF commandsFailed = 0 THEN "COMPLETED" ELSE "FAILED"]

---------------------------------------------------------------------------
(* What the service makes of a status: one event, or none if the run is not *)
(* identified or there is no stage.                                         *)

Identified(run) == "" \notin {run.id, run.experiment, run.policy, run.device}

IdOr(id, parts) == IF id # NoId THEN id ELSE parts

Stages == {"COMMAND_STARTED", "COMMAND_FINISHED", "COMMAND_FAILED"}

StageExit(stage, exit) ==
  CASE stage = "COMMAND_STARTED" -> 0
    [] stage = "COMMAND_FAILED" /\ exit = 0 -> 1
    [] OTHER -> exit

ReportCommandStatus(run, id, cmd, stage, exit) ==
  IF Identified(run) /\ stage \in Stages
  THEN <<V1(run, IdOr(id, <<run.id, cmd, stage>>), stage, StageExit(stage, exit), "")>>
  ELSE << >>

UploadType(status) ==
  CASE status \in {"ACK", "SKIPPED"} -> "COMMAND_FINISHED"
    [] status = "ERROR" -> "COMMAND_FAILED"
    [] OTHER -> "COMMAND_STARTED"

ReportUploadStatus(run, id, kind, status) ==
  IF Identified(run)
  THEN <<V1(run, IdOr(id, <<run.id, "upload", kind, status>>), UploadType(status),
            IF status = "ERROR" THEN 1 ELSE 0, "")>>
  ELSE << >>

(* An upload that is pending counts as an error here.                       *)
ReportArtifactUploadStatus(run, id, name, status) ==
  LET done == status \in {"ACK", "SKIPPED"} IN
  IF Identified(run)
  THEN <<V1(run, IdOr(id, <<run.id, "artifact", name, status>>),
            IF done THEN "ARTIFACT_UPLOADED" ELSE "ERROR", IF done THEN 0 ELSE 1, "")>>
  ELSE << >>

---------------------------------------------------------------------------
(* The statuses the agent sends.                                            *)

CommandStarted(run, cmd) == ReportCommandStatus(run, <<run.id, cmd, "start">>, cmd, "COMMAND_STARTED", 0)

CommandEnded(run, cmd, exit) ==
  ReportCommandStatus(run, <<run.id, cmd, "end">>, cmd, EventTypeForExit(exit), exit)

(* state: metrics_upload_state of the report.                               *)
MetricsUploaded(run, state) ==
  ReportUploadStatus(run, <<run.id, "upload", "metrics", state>>, "metrics",
    CASE state = "UPLOADED" -> "ACK"
      [] state \in {"UPLOAD_FAILED", "ERROR", "FAILED"} -> "ERROR"
      [] OTHER -> "PENDING")

(* outcome: of the transfer of one artifact, in every flush that tries it.  *)
ArtifactUploaded(run, name, outcome) ==
  ReportArtifactUploadStatus(run, <<run.id, "artifact", name, outcome>>, name,
    CASE outcome \in {"uploaded", "spooled"} -> "ACK"
      [] outcome = "failed" -> "ERROR"
      [] outcome = "skipped" -> "SKIPPED"
      [] OTHER -> "PENDING")

---------------------------------------------------------------------------
(* What the service makes of the report of a run: the events it brings, or  *)
(* one in their place, and one for each artifact.  The digest that stands   *)
(* in for a missing id is left out: the agent sends none without.           *)

ToV1Event(run, event) == V1(run, event.id, event.type, event.exit, event.runState)

ArtifactEvent(run, name, index) ==
  V1(run, <<run.id, "artifact", ToString(index), name>>, "ARTIFACT_UPLOADED", 0, "")

Synthetic(run) == [id |-> <<run.id, "summary">>, type |-> "RUN_FINISHED", exit |-> 0, runState |-> ""]

PublishReport(run, events, artifacts) ==
  LET brought == IF events = << >> THEN <<Synthetic(run)>> ELSE events IN
  [i \in DOMAIN brought |-> ToV1Event(run, brought[i])] \o
  [i \in DOMAIN artifacts |-> ArtifactEvent(run, artifacts[i], i)]

(* PublishEvents refuses all of its events unless live events are allowed.  *)
PublishEvents(run, events, allowLiveEvents) ==
  IF allowLiveEvents THEN [i \in DOMAIN events |-> ToV1Event(run, events[i])] ELSE << >>
===============================================================================
