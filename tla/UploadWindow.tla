----------------------------- MODULE UploadWindow -----------------------------
(***************************************************************************)
(* When a device may send its reports: an optional window, divided into     *)
(* equal slots of which a device owns one, entered after a jitter.  The     *)
(* slot comes from a hash of the agent's name, the jitter from one of the   *)
(* name and the beginning of the window, so that for a given window they    *)
(* are the same in every cycle and after every restart.                     *)
(*                                                                          *)
(* cfg: [from, to, required, slots, jitter], the active_upload_cfg of the   *)
(* agent; dev: [slot, shift], the two hashes.  One number stands for the    *)
(* second hash under every window: what holds for every dev holds for a     *)
(* hash that differs from window to window.  A slot may begin between two   *)
(* units of time: the bounds of a slot are in units of 1/slots, exactly,    *)
(* where the code rounds to microseconds.                                   *)
(***************************************************************************)
EXTENDS Integers

Missing == 0   \* a date that is absent or cannot be parsed; time starts at 1

Configs == [from : Nat, to : Nat, required : BOOLEAN, slots : Nat \ {0}, jitter : Nat]
Devices == [slot : Nat, shift : Nat]

Configured(cfg) == cfg.from # Missing /\ cfg.to # Missing

Valid(cfg) == Configured(cfg) /\ cfg.from < cfg.to

SlotIndex(cfg, dev) == dev.slot % cfg.slots

(* Whole units of time in a slot.                                           *)
SlotSpan(cfg) == (cfg.to - cfg.from) \div cfg.slots

(* The jitter leaves at least one unit of the slot.                         *)
JitterCap(cfg) == IF cfg.jitter <= SlotSpan(cfg) - 1 THEN cfg.jitter ELSE SlotSpan(cfg) - 1

Jitter(cfg, dev) ==
  IF cfg.jitter > 0 /\ SlotSpan(cfg) > 1 THEN dev.shift % (JitterCap(cfg) + 1) ELSE 0

Edge(cfg, i) == cfg.from * cfg.slots + (cfg.to - cfg.from) * i

SlotStart(cfg, dev) == Edge(cfg, SlotIndex(cfg, dev)) + Jitter(cfg, dev) * cfg.slots

SlotEnd(cfg, dev) == Edge(cfg, SlotIndex(cfg, dev) + 1)

InWindow(cfg, now) == Valid(cfg) /\ now \in cfg.from .. cfg.to

(* before_device_slot, after_device_slot.                                   *)
OutsideSlot(cfg, dev, now) ==
  /\ InWindow(cfg, now)
  /\ \/ now * cfg.slots < SlotStart(cfg, dev)
     \/ cfg.required /\ now * cfg.slots > SlotEnd(cfg, dev)

(* Every other reason to hold a report back: no window although one is      *)
(* required, an empty window, too early, too late.                          *)
OutsideWindow(cfg, now) ==
  \/ cfg.required /\ ~InWindow(cfg, now)
  \/ Configured(cfg) /\ now < cfg.from

(* Whatever the jitter, the slot of a device is a proper part of the        *)
(* window: the branch slot_invalid of the code is never taken.              *)
ProperSlot(cfg, dev) ==
  /\ cfg.from * cfg.slots <= SlotStart(cfg, dev)
  /\ SlotStart(cfg, dev) < SlotEnd(cfg, dev)
  /\ SlotEnd(cfg, dev) <= cfg.to * cfg.slots

(* The slots of two devices meet in one moment at most.                     *)
SlotsApart(cfg, dev1, dev2) ==
  SlotIndex(cfg, dev1) < SlotIndex(cfg, dev2) => SlotEnd(cfg, dev1) <= SlotStart(cfg, dev2)
===============================================================================
