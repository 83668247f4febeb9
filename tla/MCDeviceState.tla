----------------------------- MODULE MCDeviceState -----------------------------
(* Instances of DeviceState for TLC.                                        *)
EXTENDS DeviceState, TLC

(* Handlers and the threads they start differ in nothing but their names.   *)
ThreadsAreAlike == Permutations(Threads)
===============================================================================
