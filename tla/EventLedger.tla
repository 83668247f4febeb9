------------------------------ MODULE EventLedger ------------------------------
(***************************************************************************)
(* What the event pipeline promises its callers: a durable set of event ids *)
(* that only grows, and a positive answer only for an event in that set.    *)
(* It does not promise that a refused event is absent: a call may fail      *)
(* after it recorded the event.  ReportDelivery is built on this interface  *)
(* and EventIngest implements it.                                           *)
(***************************************************************************)
CONSTANT EventIds
VARIABLES
  ledger,  \* event ids recorded for good
  acked    \* event ids some caller was told are recorded

ledgerVars == <<ledger, acked>>

Init == ledger = {} /\ acked = {}

Record(e) ==
  /\ ledger' = ledger \union {e}
  /\ UNCHANGED acked

Acknowledge(e) ==
  /\ e \in ledger
  /\ acked' = acked \union {e}
  /\ UNCHANGED ledger

RecordAndAcknowledge(e) ==
  /\ ledger' = ledger \union {e}
  /\ acked' = acked \union {e}

Next == \E e \in EventIds : Record(e) \/ Acknowledge(e) \/ RecordAndAcknowledge(e)

Spec == Init /\ [][Next]_ledgerVars
===============================================================================
