------------------------------ MODULE RunCustody ------------------------------
(***************************************************************************)
(* What agent and server promise together: a run is in the agent's custody  *)
(* from its start until the server holds all of its events, or until the    *)
(* agent puts it aside for good.  ReportDelivery implements it.             *)
(***************************************************************************)
CONSTANT Runs
VARIABLES
  place,    \* who answers for each run: nobody yet, agent, server, or aside
  complete  \* runs all of whose events the server holds

custodyVars == <<place, complete>>

Init ==
  /\ place = [r \in Runs |-> "absent"]
  /\ complete = {}

Start(r) ==
  /\ place[r] = "absent"
  /\ place' = [place EXCEPT ![r] = "agent"]
  /\ UNCHANGED complete

Complete(r) ==
  /\ complete' = complete \union {r}
  /\ UNCHANGED place

HandOver(r) ==
  /\ place[r] = "agent"
  /\ r \in complete
  /\ place' = [place EXCEPT ![r] = "server"]
  /\ UNCHANGED complete

PutAside(r) ==
  /\ place[r] = "agent"
  /\ place' = [place EXCEPT ![r] = "aside"]
  /\ UNCHANGED complete

Next == \E r \in Runs : Start(r) \/ Complete(r) \/ HandOver(r) \/ PutAside(r)

Spec == Init /\ [][Next]_custodyVars
===============================================================================
