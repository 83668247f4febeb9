---------------------------- MODULE MCReportDelivery ----------------------------
(* Instances of ReportDelivery for TLC.                                     *)
EXTENDS ReportDelivery, TLC

CONSTANTS r1, r2, c1, c2

TwoRuns == {r1, r2}
TwoCalls == {c1, c2}

(* A report with an event and an artifact, and one with a single event.     *)
OneReport  == (r1 :> <<"start", "artifact">>)
TwoReports == OneReport @@ (r2 :> <<"summary">>)
ThreeEvents == {"start", "artifact", "summary"}

===============================================================================
