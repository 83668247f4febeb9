---------------------------- MODULE MCPolicyCycle ----------------------------
(* Instances of PolicyCycle for TLC: designs of policies that differ in     *)
(* every way the code tells apart.                                          *)
EXTENDS PolicyCycle

W(from, to) == [from |-> from, to |-> to]

Plain == [range |-> Nowhere, measure |-> Nowhere, groups |-> {}, reporting |-> FALSE,
          upload |-> Nowhere, unread |-> {}, required |-> FALSE, slots |-> 1, jitter |-> 0,
          recurring |-> FALSE, interval |-> 0]

(* repeat: selected by its range but measured in a part of it, again and    *)
(* again, its reports due in the second half of a window that is over       *)
(* before the policy is; later: executed once, dated by its groups;         *)
(* undated: without a measurement window, and with an upload window whose   *)
(* beginning cannot be read                                                 *)
Repeat == [Plain EXCEPT !.range = W(1, 4), !.measure = W(2, 4), !.reporting = TRUE, !.upload = W(1, 3),
                        !.required = TRUE, !.slots = 2, !.jitter = 1,
                        !.recurring = TRUE, !.interval = 1]
Later  == [Plain EXCEPT !.groups = {W(2, Missing), W(Missing, 3)}, !.reporting = TRUE,
                        !.upload = W(3, 4), !.required = TRUE]

Undated == [Plain EXCEPT !.reporting = TRUE, !.upload = W(Missing, 3), !.unread = {"from"}]

AllDesigns == [repeat |-> Repeat, later |-> Later, undated |-> Undated]
TwoDesigns == [repeat |-> Repeat, later |-> Later]

OpenConfig == [from |-> Missing, to |-> Missing, required |-> FALSE, slots |-> 1, jitter |-> 0]

SecondSlot == [slot |-> 1, shift |-> 1]

(* The arithmetic of slots and jitter, over small windows.                  *)
SmallConfigs == {c \in [from : {1, 2}, to : 2..6, required : {TRUE}, slots : 1..4, jitter : 0..3] :
                   Valid(c)}
SmallDevices == [slot : 0..5, shift : 0..4]

ASSUME SlotsChecked ==
  \A c \in SmallConfigs, d1 \in SmallDevices :
    /\ ProperSlot(c, d1)
    /\ \A d2 \in SmallDevices : SlotsApart(c, d1, d2)
===============================================================================
