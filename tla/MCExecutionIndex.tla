-------------------------- MODULE MCExecutionIndex --------------------------
(* Instances of ExecutionIndex for TLC: the policies of the runs.           *)
EXTENDS ExecutionIndex

Once == [mode |-> "once", interval |-> 0, maxRuns |-> 0, from |-> 2, to |-> 2, bundling |-> TRUE]

TwiceAtMost ==
  [mode |-> "recurring", interval |-> 1, maxRuns |-> 2, from |-> 1, to |-> 2, bundling |-> FALSE]

AnyPolicy == {Once, TwiceAtMost}

WithoutPause == {[TwiceAtMost EXCEPT !.interval = 0, !.bundling = TRUE]}
===============================================================================
