----------------------------- MODULE MCEventIngest -----------------------------
(* Instances of EventIngest for TLC: three events, two of them of one run.  *)
EXTENDS EventIngest, StatusEvents

CONSTANTS h1, h2

Two == {h1, h2}
Symmetric == Permutations(Two)

Run(policy) == [id |-> "run", experiment |-> "exp1", policy |-> policy, device |-> "dev1"]

(* A finished command, reported while the run goes on, and the end of the   *)
(* run, in which another command failed.                                    *)
OfOneRun == CommandEnded(Run("p1"), "scan", 0) \o PublishReport(Run("p1"), <<RunEnd(Run("p1"), 1)>>, << >>)

(* The same and an artifact of another policy revision, that is another     *)
(* run, which could not be transferred.                                     *)
OfTwoRuns == OfOneRun \o ArtifactUploaded(Run("p2"), "capture", "failed")

Ids(events) == {events[i].id : i \in DOMAIN events}
ById(events) == [id \in Ids(events) |-> events[CHOOSE i \in DOMAIN events : events[i].id = id]]

TwoEvents == ById(OfOneRun)
TwoIds == Ids(OfOneRun)
ThreeEvents == ById(OfTwoRuns)
ThreeIds == Ids(OfTwoRuns)

(* The status of a command and what the report says of it are one event:    *)
(* they have one id, so that only the first is ingested, and mean the same. *)
(* A report without events still ends the run.                              *)
ASSUME ReportConfirmsStatus ==
  \A cmd \in {"scan", "ble"}, exit \in {-9, 0, 1, 124} :
    /\ CommandStarted(Run("p1"), cmd) = PublishReport(Run("p1"), <<CommandStart(Run("p1"), cmd)>>, << >>)
    /\ CommandEnded(Run("p1"), cmd, exit) = PublishReport(Run("p1"), <<CommandEnd(Run("p1"), cmd, exit)>>, << >>)
    /\ PublishReport(Run("p1"), << >>, << >>)[1].type = "RUN_FINISHED"

(* An artifact that is transferred at the second attempt leaves a FAILED    *)
(* status behind which no later event replaces: all of these events are     *)
(* ingested, as no two have one id, and the end of the run says COMPLETED.  *)
(* The artifact itself is told of three times.                              *)
ASSUME FirstAttemptCounts ==
  LET ends == PublishReport(Run("p1"), <<RunStart(Run("p1")), RunEnd(Run("p1"), 0)>>, <<"capture">>)
      late == ArtifactUploaded(Run("p1"), "capture", "failed") \o ArtifactUploaded(Run("p1"), "capture", "spooled")
      told == late \o MetricsUploaded(Run("p1"), "UPLOADED") \o ends
      Says(status) == {i \in DOMAIN told : StatusFromEvent(told[i]) = status}
  IN /\ Cardinality(Ids(told)) = Len(told)
     /\ Says("FAILED") = {1} /\ Says("COMPLETED") = {5}
     /\ Cardinality({i \in DOMAIN told : "artifact" \in Range(told[i].id)}) = 3
     /\ PublishEvents(Run("p1"), <<RunStart(Run("p1"))>>, FALSE) = << >>
===============================================================================
