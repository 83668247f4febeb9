---------------------------- MODULE MonitorCapture ----------------------------
(***************************************************************************)
(* The Wi-Fi interface of a device and the captures that borrow it: each    *)
(* capture is a thread of the agent (or its main thread) that turns the     *)
(* interface, or a virtual one beside it, into a monitor, captures, gives   *)
(* it back and imports what tcpdump wrote into the run's artifacts. The     *)
(* BLE advertiser is a capture that leaves the interface alone.             *)
(*                                                                          *)
(* One action per command of the system's tools, but for those that prepare *)
(* it: down - set type - up is one step, and so is down - del. A command    *)
(* that is tried after another one failed may fail for the same reason: one *)
(* failure stands for both. Channels, dwell times and the schedule log,     *)
(* which goes the way of the capture file, are left out.                    *)
(***************************************************************************)
EXTENDS Naturals, Sequences

CONSTANTS
  Groups,      \* numbers of command groups
  Positions,   \* positions of commands in a group
  Hosts,       \* devices: sets of settings, see HostType
  MaxFaults    \* bound: failures and restarts in a behaviour

HostType == [iwl : BOOLEAN, single : BOOLEAN, reboot : BOOLEAN]

ASSUME CaptureAssumption ==
  /\ Hosts \subseteq HostType
  /\ Groups \subseteq Nat \ {0} /\ Positions \subseteq Nat \ {0}
  /\ MaxFaults \in Nat

Commands == Groups \X Positions
Nobody == <<0, 0>>

VARIABLES
  host,     \* [iwl, single, reboot]: the driver is iwlwifi; this interface carries the
            \* control plane; the agent reboots when it cannot recover it
  radio,    \* [type, vif, linked]: of the interface; the command whose virtual monitor
            \* interface exists; associated with an access point
  cap,      \* the captures of the current group, by command
  scratch,  \* files under /tmp, by the capture that named them
  files,    \* artifacts directory of the run: [name -> command that wrote the file]
  faults,   \* failures so far
  cuts,     \* history: <<c, d>>: capture d took away the interface c captured on
  leaky     \* history: something failed, or the agent stopped, before it was given back

captureVars == <<radio, cap, scratch, files, faults, cuts, leaky>>

Steps == {"idle", "clean", "choose", "add", "raise", "change", "spawn", "capture", "release",
          "import", "write", "unlink", "ended"}

(* on: the interface it captures on, "vif" or the "parent" itself; tmp: who *)
(* named its scratch file; name: of its artifact; listed: the artifact is   *)
(* in its result; exit: "raised" leaves the box of a thread empty.          *)
Idle == [pc |-> "idle", kind |-> "monitor", on |-> "none", tmp |-> Nobody,
         name |-> <<"monitor", Nobody>>, listed |-> FALSE, exit |-> "none"]

Active(c) == cap[c].pc \notin {"idle", "ended"}

(* Artifacts have a fixed name, or that name and the time if it is taken.   *)
PlainName(c) == <<cap[c].kind, Nobody>>
StampedName(c) == <<cap[c].kind, c>>

CaptureInit ==
  /\ host \in Hosts
  /\ radio = [type |-> "managed", vif |-> Nobody, linked |-> host.single]
  /\ cap = [c \in Commands |-> Idle]
  /\ scratch = {} /\ files = << >> /\ faults = 0 /\ cuts = {} /\ leaky = FALSE

---------------------------------------------------------------------------
(* What the tools do to the interface.                                      *)

Works == UNCHANGED faults
Fails == faults < MaxFaults /\ faults' = faults + 1

WithoutVif == [radio EXCEPT !.vif = Nobody]
Retyped(type) == [radio EXCEPT !.type = type, !.linked = FALSE]

Present(on) == on = "vif" => radio.vif # Nobody

(* tcpdump ends when the interface it listens on goes away or down.         *)
TakenFrom(on, d) == {<<c, d>> : c \in {x \in Commands : cap[x].pc = "capture" /\ cap[x].on = on}}
Cut(on, d) == cuts' = cuts \union {p \in TakenFrom(on, d) : p[1] # d}

GoTo(c, pc) == cap' = [cap EXCEPT ![c].pc = pc]

(* Mutant: a thread returns without leaving its result.                     *)
EndsWithout(c, exit) == GoTo(c, "ended")

(* The collector returns, or raises; an early failure leaves no box empty.  *)
EndsWith(c, exit) == cap' = [cap EXCEPT ![c].pc = "ended", ![c].exit = exit]

(* A second-resolution stamp names the scratch file: captures of one kind   *)
(* that begin together share it.                                            *)
TmpNames(c, kind) == {c} \union {cap[d].tmp : d \in {x \in Commands : Active(x) /\ cap[x].kind = kind}}

Beginning(kind, tmp) ==
  [pc |-> IF kind = "monitor" THEN "clean" ELSE "spawn", kind |-> kind, on |-> "none", tmp |-> tmp,
   name |-> <<kind, Nobody>>, listed |-> FALSE, exit |-> "none"]

Started(c, kind) == \E tmp \in TmpNames(c, kind) : cap' = [cap EXCEPT ![c] = Beginning(kind, tmp)]

---------------------------------------------------------------------------
(* create_monitor_vif                                                       *)

(* A virtual interface left over from an interrupted run is removed; it may *)
(* as well be that of another capture, which going down ends.               *)
Clean(c) ==
  /\ cap[c].pc = "clean"
  /\ GoTo(c, "choose")
  /\ \/ Works /\ radio' = WithoutVif /\ Cut("vif", c)
     \/ radio.vif # Nobody /\ Fails /\ UNCHANGED radio /\ (Cut("vif", c) \/ UNCHANGED cuts)
  /\ UNCHANGED <<scratch, files, leaky>>

(* Changing the type of an associated interface would drop the VPN.         *)
Choose(c) ==
  /\ cap[c].pc = "choose"
  /\ GoTo(c, IF host.iwl /\ ~radio.linked THEN "change" ELSE "add")
  /\ UNCHANGED <<radio, scratch, files, faults, cuts, leaky>>

Add(c) ==
  /\ cap[c].pc = "add"
  /\ \/ radio.vif = Nobody /\ Works /\ radio' = [radio EXCEPT !.vif = c] /\ GoTo(c, "raise")
     \/ ((radio.vif # Nobody /\ Works) \/ Fails) /\ GoTo(c, "change") /\ UNCHANGED radio
  /\ UNCHANGED <<scratch, files, cuts, leaky>>

(* What cannot be raised is deleted, which may fail in its turn.            *)
Raise(c) ==
  /\ cap[c].pc = "raise"
  /\ \/ /\ Present("vif") /\ Works
        /\ cap' = [cap EXCEPT ![c].pc = "spawn", ![c].on = "vif"]
        /\ UNCHANGED <<radio, cuts, leaky>>
     \/ /\ IF Present("vif") THEN Fails ELSE Works
        /\ GoTo(c, "change")
        /\ radio' = WithoutVif /\ Cut("vif", c)
        /\ UNCHANGED leaky
     \/ /\ Present("vif") /\ Fails
        /\ GoTo(c, "change")
        /\ leaky' = TRUE
        /\ UNCHANGED <<radio, cuts>>
  /\ UNCHANGED <<scratch, files>>

(* Also where adding failed for an associated interface.                    *)
Change(c) ==
  /\ cap[c].pc = "change"
  /\ Cut("parent", c)
  /\ \/ /\ Works /\ radio' = Retyped("monitor")
        /\ cap' = [cap EXCEPT ![c].pc = "spawn", ![c].on = "parent"]
     \/ Fails /\ radio' = Retyped(radio.type) /\ EndsWith(c, "failed")
  /\ UNCHANGED <<scratch, files, leaky>>

---------------------------------------------------------------------------
(* The rest of the capture.                                                 *)

(* delete_monitor_vif                                                       *)
Released(c) ==
  /\ radio' = CASE cap[c].on = "parent" -> Retyped("managed")
                [] cap[c].on = "vif" -> WithoutVif
                [] OTHER -> radio
  /\ Cut(cap[c].on, c)
  /\ UNCHANGED leaky

(* It stays as it is, or goes down and no further.                          *)
NotReleased(c) ==
  /\ cap[c].on # "none"
  /\ leaky' = TRUE
  /\ \/ UNCHANGED <<radio, cuts>>
     \/ Cut(cap[c].on, c) /\ radio' = IF cap[c].on = "parent" THEN Retyped(radio.type) ELSE radio

(* Mutant: when tcpdump ends at once nothing is given back.                 *)
SpawnFailsUnreleased(c) ==
  /\ IF Present(cap[c].on) THEN Fails ELSE Works
  /\ EndsWith(c, "failed")
  /\ UNCHANGED <<radio, scratch, cuts, leaky>>

(* tcpdump or bluetoothctl ends at once.                                    *)
SpawnFails(c) ==
  /\ IF Present(cap[c].on) THEN Fails ELSE Works
  /\ Released(c) \/ (Present(cap[c].on) /\ NotReleased(c))
  /\ EndsWith(c, "failed")
  /\ UNCHANGED scratch

(* Popen raises something other than FileNotFoundError.                     *)
SpawnRaises(c) ==
  /\ Fails
  /\ EndsWith(c, "raised")
  /\ leaky' = (leaky \/ cap[c].on # "none")
  /\ UNCHANGED <<radio, scratch, cuts>>

Spawn(c) ==
  /\ cap[c].pc = "spawn"
  /\ \/ /\ Present(cap[c].on) /\ Works
        /\ GoTo(c, "capture")
        /\ scratch' = scratch \union {cap[c].tmp}
        /\ UNCHANGED <<radio, cuts, leaky>>
     \/ SpawnFails(c)
     \/ SpawnRaises(c)
  /\ UNCHANGED files

(* The time is up, or tcpdump has ended.                                    *)
Stop(c) ==
  /\ cap[c].pc = "capture"
  /\ GoTo(c, "release")
  /\ UNCHANGED <<radio, scratch, files, faults, cuts, leaky>>

Release(c) ==
  /\ cap[c].pc = "release"
  /\ GoTo(c, "import")
  /\ (Works /\ Released(c)) \/ (Fails /\ NotReleased(c))
  /\ UNCHANGED <<scratch, files>>

(* import_file_artifact, write_text_artifact: a free name is looked for ... *)
Import(c) ==
  /\ cap[c].pc = "import"
  /\ IF cap[c].tmp \notin scratch THEN GoTo(c, "unlink")
     ELSE cap' = [cap EXCEPT ![c].pc = "write",
                             ![c].name = IF PlainName(c) \in DOMAIN files THEN StampedName(c)
                                                                          ELSE PlainName(c)]
  /\ UNCHANGED <<radio, scratch, files, faults, cuts, leaky>>

(* ... and the file is written under it. An error is logged.                *)
Write(c) ==
  /\ cap[c].pc = "write"
  /\ \/ /\ cap[c].tmp \in scratch /\ Works
        /\ files' = [n \in DOMAIN files \union {cap[c].name} |->
                       IF n = cap[c].name THEN c ELSE files[n]]
        /\ cap' = [cap EXCEPT ![c].pc = "unlink", ![c].listed = TRUE]
     \/ /\ IF cap[c].tmp \in scratch THEN Fails ELSE Works
        /\ GoTo(c, "unlink") /\ UNCHANGED files
  /\ UNCHANGED <<radio, scratch, cuts, leaky>>

Unlink(c) ==
  /\ cap[c].pc = "unlink"
  /\ scratch' = scratch \ {cap[c].tmp}
  /\ EndsWith(c, "ok")
  /\ UNCHANGED <<radio, files, faults, cuts, leaky>>

CaptureStep(c) ==
  \/ Clean(c) \/ Choose(c) \/ Add(c) \/ Raise(c) \/ Change(c) \/ Spawn(c)
  \/ Stop(c) \/ Release(c) \/ Import(c) \/ Write(c) \/ Unlink(c)

---------------------------------------------------------------------------
Captures == [pc : Steps, kind : {"monitor", "advertise"}, on : {"none", "vif", "parent"},
             tmp : Commands \union {Nobody},
             name : {"monitor", "advertise"} \X (Commands \union {Nobody}),
             listed : BOOLEAN, exit : {"none", "ok", "failed", "raised"}]

CaptureTypeOK ==
  /\ host \in HostType
  /\ radio \in [type : {"managed", "monitor"}, vif : Commands \union {Nobody}, linked : BOOLEAN]
  /\ cap \in [Commands -> Captures]
  /\ \A c \in Commands : cap[c].pc = "ended" <=> cap[c].exit # "none"
  /\ scratch \subseteq Commands
  /\ faults \in 0..MaxFaults
  /\ cuts \subseteq Commands \X Commands
  /\ leaky \in BOOLEAN

(* A capture is only disturbed by those of its own command group, and once  *)
(* none is under way the interface is as it was found: managed, without a   *)
(* virtual one beside it, unless giving it back failed or was interrupted.  *)
(* (create_monitor_vif, start_capture, stop_capture, delete_monitor_vif and *)
(* the joins at the end of a group.)                                        *)
RadioInTurn ==
  /\ \A p \in cuts : p[1][1] = p[2][1]
  /\ (\A c \in Commands : ~Active(c)) /\ ~leaky => radio.type = "managed" /\ radio.vif = Nobody
==============================================================================
