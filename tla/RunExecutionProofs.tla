--------------------------- MODULE RunExecutionProofs ---------------------------
(***************************************************************************)
(* Proofs about RunExecution and MonitorCapture, for any policies, devices, *)
(* faults and runs: their types, that the captures of different groups leave*)
(* the interface to each other, and that a report agrees with the spool.    *)
(***************************************************************************)
EXTENDS RunExecution, SequenceTheorems, TLAPS

LEMMA Bounds == MaxFaults \in Nat /\ MaxRuns \in Nat
  BY CaptureAssumption, ExecutionAssumption

LEMMA CommandPairs ==
  /\ \A c \in Commands : c = <<c[1], c[2]>> /\ c[1] \in Groups /\ c[2] \in Positions
                         /\ c[1] \in Nat \ {0} /\ c[2] \in Nat \ {0}
  /\ Nobody \notin Commands
<1>1. \A c \in Groups \X Positions : c = <<c[1], c[2]>> /\ c[1] \in Groups /\ c[2] \in Positions
  OBVIOUS
<1>2. Nobody \notin Commands
  <2>1. Nobody[1] = 0
    BY DEF Nobody
  <2> QED BY <1>1, <2>1, CaptureAssumption DEF Commands
<1> QED BY <1>1, <1>2, CaptureAssumption DEF Commands

(* Every action of a capture by name, the case split of the proofs below.   *)
LEMMA CaptureActions ==
  ASSUME NEW c, CaptureStep(c)
  PROVE  \/ Clean(c) \/ Choose(c) \/ Add(c) \/ Raise(c) \/ Change(c) \/ Spawn(c)
         \/ Stop(c) \/ Release(c) \/ Import(c) \/ Write(c) \/ Unlink(c)
  BY DEF CaptureStep

-------------------------------------------------------------------------------
(* What a step of a capture leaves alone.                                   *)

(* Only its own record changes, which stays that of a capture of the same   *)
(* kind with the same scratch file.                                         *)
Shape(c) ==
  /\ Active(c)
  /\ \A d \in Commands : d # c => cap'[d] = cap[d]
  /\ cap' \in [Commands -> Captures]
  /\ cap'[c].kind = cap[c].kind /\ cap'[c].tmp = cap[c].tmp
  /\ cap'[c].pc # "idle"
  /\ cap'[c].pc = "ended" <=> cap'[c].exit # "none"

LEMMA ShapeOf ==
  ASSUME CaptureTypeOK, NEW c \in Commands, CaptureStep(c)
  PROVE  Shape(c)
<1>0. /\ cap \in [Commands -> Captures] /\ cap[c] \in Captures
      /\ cap[c].pc = "ended" <=> cap[c].exit # "none"
  BY DEF CaptureTypeOK
<1>1. CASE Clean(c)
  BY <1>0, <1>1 DEF Clean, GoTo, Shape, Active, Captures, Steps
<1>2. CASE Choose(c)
  BY <1>0, <1>2 DEF Choose, GoTo, Shape, Active, Captures, Steps
<1>3. CASE Add(c)
  BY <1>0, <1>3 DEF Add, GoTo, Shape, Active, Captures, Steps
<1>4. CASE Raise(c)
  BY <1>0, <1>4 DEF Raise, GoTo, Shape, Active, Captures, Steps
<1>5. CASE Change(c)
  BY <1>0, <1>5 DEF Change, EndsWith, Shape, Active, Captures, Steps
<1>6. CASE Spawn(c)
  BY <1>0, <1>6 DEF Spawn, SpawnFails, SpawnRaises, GoTo, EndsWith, Shape, Active, Captures, Steps
<1>7. CASE Stop(c)
  BY <1>0, <1>7 DEF Stop, GoTo, Shape, Active, Captures, Steps
<1>8. CASE Release(c)
  BY <1>0, <1>8 DEF Release, GoTo, Shape, Active, Captures, Steps
<1>9. CASE Import(c)
  BY <1>0, <1>9 DEF Import, GoTo, PlainName, StampedName, Shape, Active, Captures, Steps
<1>10. CASE Write(c)
  BY <1>0, <1>10 DEF Write, GoTo, Shape, Active, Captures, Steps
<1>11. CASE Unlink(c)
  BY <1>0, <1>11 DEF Unlink, EndsWith, Shape, Active, Captures, Steps
<1> QED BY <1>1, <1>2, <1>3, <1>4, <1>5, <1>6, <1>7, <1>8, <1>9, <1>10, <1>11, CaptureActions

LEMMA CaptureTyped ==
  ASSUME CaptureTypeOK, NEW c \in Commands, CaptureStep(c), cap[c].tmp \in Commands,
         host' = host
  PROVE  CaptureTypeOK'
<1>0. /\ cap \in [Commands -> Captures] /\ cap[c] \in Captures
      /\ host \in HostType
      /\ radio \in [type : {"managed", "monitor"}, vif : Commands \union {Nobody}, linked : BOOLEAN]
      /\ scratch \subseteq Commands /\ faults \in 0..MaxFaults
      /\ cuts \subseteq Commands \X Commands /\ leaky \in BOOLEAN
  BY DEF CaptureTypeOK
<1>1. \A on, p : p \in TakenFrom(on, c) => p \in Commands \X Commands
  BY DEF TakenFrom
<1>2. \A on : Cut(on, c) => cuts' \subseteq Commands \X Commands
  BY <1>0, <1>1 DEF Cut
<1>3. Works \/ Fails => faults' \in 0..MaxFaults
  BY <1>0, Bounds DEF Works, Fails
<1>4. WithoutVif \in [type : {"managed", "monitor"}, vif : Commands \union {Nobody}, linked : BOOLEAN]
  BY <1>0 DEF WithoutVif
<1>5. \A type \in {"managed", "monitor"} :
        Retyped(type) \in [type : {"managed", "monitor"}, vif : Commands \union {Nobody}, linked : BOOLEAN]
  BY <1>0 DEF Retyped
<1>6. Released(c) => /\ radio' \in [type : {"managed", "monitor"}, vif : Commands \union {Nobody}, linked : BOOLEAN]
                     /\ cuts' \subseteq Commands \X Commands /\ leaky' \in BOOLEAN
  BY <1>0, <1>2, <1>4, <1>5 DEF Released
<1>7. NotReleased(c) => /\ radio' \in [type : {"managed", "monitor"}, vif : Commands \union {Nobody}, linked : BOOLEAN]
                        /\ cuts' \subseteq Commands \X Commands /\ leaky' \in BOOLEAN
  <2>1. leaky' = TRUE => leaky' \in BOOLEAN
    BY Zenon
  <2> QED BY <1>0, <1>2, <1>5, <2>1 DEF NotReleased
<1>8. /\ radio' \in [type : {"managed", "monitor"}, vif : Commands \union {Nobody}, linked : BOOLEAN]
      /\ scratch' \subseteq Commands /\ faults' \in 0..MaxFaults
      /\ cuts' \subseteq Commands \X Commands /\ leaky' \in BOOLEAN
  <2>1. CASE Clean(c)
    BY <1>0, <1>2, <1>3, <1>4, <2>1 DEF Clean
  <2>2. CASE Choose(c)
    BY <1>0, <2>2 DEF Choose
  <2>3. CASE Add(c)
    BY <1>0, <1>3, <2>3 DEF Add
  <2>4. CASE Raise(c)
    BY <1>0, <1>2, <1>3, <1>4, <2>4 DEF Raise
  <2>5. CASE Change(c)
    BY <1>0, <1>2, <1>3, <1>5, <2>5 DEF Change
  <2>6. CASE Spawn(c)
    BY <1>0, <1>3, <1>6, <1>7, <2>6 DEF Spawn, SpawnFails, SpawnRaises
  <2>7. CASE Stop(c)
    BY <1>0, <2>7 DEF Stop
  <2>8. CASE Release(c)
    BY <1>0, <1>3, <1>6, <1>7, <2>8 DEF Release
  <2>9. CASE Import(c)
    BY <1>0, <2>9 DEF Import
  <2>10. CASE Write(c)
    BY <1>0, <1>3, <2>10 DEF Write
  <2>11. CASE Unlink(c)
    BY <1>0, <2>11 DEF Unlink
  <2> QED BY <2>1, <2>2, <2>3, <2>4, <2>5, <2>6, <2>7, <2>8, <2>9, <2>10, <2>11, CaptureActions
<1>9. \A d \in Commands : cap'[d].pc = "ended" <=> cap'[d].exit # "none"
  BY ShapeOf DEF Shape, CaptureTypeOK
<1> QED BY <1>0, <1>8, <1>9, ShapeOf DEF Shape, CaptureTypeOK

(* The file it writes bears its name; only then does it list one.           *)
LEMMA FilesOf ==
  ASSUME CaptureTypeOK, NEW c \in Commands, CaptureStep(c)
  PROVE  \/ files' = files /\ cap'[c].listed = cap[c].listed
         \/ /\ cap[c].pc = "write" /\ cap'[c].pc = "unlink" /\ cap'[c].name = cap[c].name
            /\ files' = [n \in DOMAIN files \union {cap[c].name} |->
                           IF n = cap[c].name THEN c ELSE files[n]]
<1>0. cap \in [Commands -> Captures] /\ cap[c] \in Captures
  BY DEF CaptureTypeOK
<1>1. CASE Write(c)
  BY <1>0, <1>1 DEF Write, GoTo, Captures
<1>2. CASE ~Write(c)
  BY <1>0, <1>2 DEF CaptureStep, Clean, Choose, Add, Raise, Change, Spawn, SpawnFails, SpawnRaises,
     Stop, Release, Import, Unlink, GoTo, EndsWith, Captures
<1> QED BY <1>1, <1>2

-------------------------------------------------------------------------------
(* The invariant.                                                           *)

(* Threads not joined yet, and the capture the main thread waits for.       *)
Awaited(c) == \/ \E i \in DOMAIN agent.tasks : agent.tasks[i] = c
              \/ agent.pc = "wait" /\ agent.at = c

(* The commands the run has yet to come to.                                 *)
Ahead(c) ==
  \/ c[1] > agent.at[1]
  \/ c[1] = agent.at[1] /\ \/ agent.pc = "group"
                           \/ agent.pc = "command" /\ c[2] >= agent.at[2]
                           \/ agent.pc = "wait" /\ c[2] > agent.at[2]

InGroups == agent.pc \in {"group", "command", "wait", "join"}

(* The main thread stands at a command of the policy, and the threads it    *)
(* still has to join are of the group it is in.                             *)
PlaceInv ==
  /\ agent.pc = "group" => agent.at[2] = 1
  /\ agent.pc \in {"command", "wait"} =>
       agent.at[1] \in DOMAIN program /\ agent.at[2] \in DOMAIN Group.commands
  /\ agent.tasks # << >> => agent.pc \in {"command", "wait", "join"}
  /\ \A i \in DOMAIN agent.tasks : agent.tasks[i][1] = agent.at[1]

(* Nothing runs that nobody waits for.                                      *)
ThreadsInv == \A c \in Commands : Active(c) => Awaited(c)

FreshInv == InGroups => \A c \in Commands : Ahead(c) => cap[c] = Idle

(* What was taken from the interface has somebody who will give it back.    *)
Holding(c, on) == cap[c].on = on /\ cap[c].pc \in {"spawn", "capture", "release"}

VifHeld(c) == cap[c].pc = "raise" \/ Holding(c, "vif")

RadioHeld ==
  /\ radio.type = "monitor" => \E c \in Commands : Holding(c, "parent")
  /\ radio.vif # Nobody => VifHeld(radio.vif)

RadioInv == ~leaky => RadioHeld

CutsInv == \A p \in cuts : p[1][1] = p[2][1]

(* A scratch file was named by a capture of the same kind and group, and an *)
(* artifact bears the plain name of its kind or one nobody else uses.       *)
NamesInv == \A c \in Commands : cap[c].pc # "idle" =>
  /\ cap[c].tmp \in Commands /\ cap[c].tmp[1] = c[1]
  /\ cap[cap[c].tmp].pc # "idle" /\ cap[cap[c].tmp].kind = cap[c].kind
  /\ cap[c].name \in {PlainName(c), StampedName(c)}

(* What a capture lists is its own file or a rival's; and the plain name is *)
(* only written over within a group.                                        *)
FilesInv == \A c \in Commands :
  /\ cap[c].listed => /\ cap[c].pc \in {"unlink", "ended"}
                      /\ cap[c].name \in DOMAIN files
                      /\ files[cap[c].name] \in {c} \union Rivals(c)
  /\ cap[c].pc = "write" /\ cap[c].name = PlainName(c) /\ cap[c].name \in DOMAIN files =>
       files[cap[c].name][1] = c[1]

(* Without a rival and without a failure a scratch file stays until it is   *)
(* imported, and the capture lists it.                                      *)
AloneInv == faults = 0 => \A c \in Commands : Rivals(c) = {} =>
  /\ cap[c].pc \in {"capture", "release", "import", "write"} => cap[c].tmp \in scratch
  /\ cap[c].pc = "unlink" \/ cap[c].exit = "ok" => cap[c].listed

(* The artifacts collected are those of the captures that were waited for.  *)
ListInv ==
  /\ \A a \in agent.artifacts : cap[a[2]].listed /\ cap[a[2]].pc = "ended" /\ a[1] = cap[a[2]].name
  /\ \A c \in Commands : cap[c].listed /\ cap[c].pc = "ended" =>
                           Awaited(c) \/ <<cap[c].name, c>> \in agent.artifacts

ReportInv == report # NoReport =>
  agent.pc \in {"recover", "flush", "poll"} /\ report.artifacts = agent.artifacts

Inv == /\ TypeOK /\ PlaceInv /\ ThreadsInv /\ FreshInv /\ RadioInv /\ CutsInv
       /\ NamesInv /\ FilesInv /\ AloneInv /\ ListInv /\ ReportInv

-------------------------------------------------------------------------------
(* A step of a capture keeps it.                                            *)

LEMMA NotAhead ==
  ASSUME Inv, InGroups, NEW c \in Commands, cap[c].pc # "idle"
  PROVE  ~Ahead(c)
<1>1. cap[c] # Idle
  BY DEF Idle
<1> QED BY <1>1 DEF Inv, FreshInv

(* What is under way belongs to the group the run is in.                    *)
LEMMA ActiveHere ==
  ASSUME Inv, NEW c \in Commands, Active(c)
  PROVE  c[1] = agent.at[1] /\ InGroups
<1>1. Awaited(c)
  BY DEF Inv, ThreadsInv
<1>2. CASE agent.pc = "wait" /\ agent.at = c
  BY <1>2 DEF InGroups
<1>3. CASE \E i \in DOMAIN agent.tasks : agent.tasks[i] = c
  <2>1. agent.tasks # << >>
    BY <1>3
  <2> QED BY <1>3, <2>1 DEF Inv, PlaceInv, InGroups
<1> QED BY <1>1, <1>2, <1>3 DEF Awaited

LEMMA NobodyActive ==
  ASSUME Inv, agent.tasks = << >>, agent.pc # "wait"
  PROVE  \A c \in Commands : ~Active(c)
  BY DEF Inv, ThreadsInv, Awaited

LEMMA RivalsStay ==
  ASSUME NEW c \in Commands, Shape(c)
  PROVE  \A d \in Commands : Rivals(d)' = Rivals(d)
<1>1. \A x \in Commands : cap'[x].kind = cap[x].kind /\ (cap'[x].pc # "idle" <=> cap[x].pc # "idle")
  BY DEF Shape, Active
<1> QED BY <1>1 DEF Rivals

LEMMA RadioOf ==
  ASSUME Inv, NEW c \in Commands, CaptureStep(c)
  PROVE  RadioInv'
<1>0. /\ Shape(c) /\ cap \in [Commands -> Captures] /\ cap[c] \in Captures /\ leaky \in BOOLEAN
      /\ radio \in [type : {"managed", "monitor"}, vif : Commands \union {Nobody}, linked : BOOLEAN]
      /\ c # Nobody
  BY ShapeOf, CommandPairs DEF Inv, TypeOK, CaptureTypeOK
<1>1. leaky => leaky'
  <2>1. CASE Spawn(c) \/ Release(c)
    <3>1. leaky' = leaky \/ leaky' = TRUE \/ leaky' = (leaky \/ cap[c].on # "none")
      BY Zenon, <2>1 DEF Spawn, SpawnFails, SpawnRaises, Release, Released, NotReleased
    <3> QED BY Zenon, <3>1
  <2>2. CASE Raise(c)
    BY Zenon, <2>2 DEF Raise
  <2>3. CASE Clean(c) \/ Choose(c) \/ Add(c) \/ Change(c) \/ Stop(c) \/ Import(c) \/ Write(c) \/ Unlink(c)
    BY Zenon, <2>3 DEF Clean, Choose, Add, Change, Stop, Import, Write, Unlink
  <2> QED BY <2>1, <2>2, <2>3, CaptureActions
<1> SUFFICES ASSUME ~leaky, ~leaky' PROVE RadioHeld'
  BY <1>0, <1>1 DEF RadioInv
<1>a. /\ WithoutVif.type = radio.type /\ WithoutVif.vif = Nobody
      /\ \A type : Retyped(type).type = type /\ Retyped(type).vif = radio.vif
  BY <1>0 DEF WithoutVif, Retyped
<1>2. RadioHeld
  BY DEF Inv, RadioInv
<1>3. \A d \in Commands \ {c} : VifHeld(d) => VifHeld(d)'
  BY <1>0 DEF Holding, VifHeld, Shape
<1>4. /\ radio'.type = "monitor" =>
           Holding(c, "parent")' \/ (radio.type = "monitor" /\ ~Holding(c, "parent"))
      /\ radio'.vif \in {Nobody, c, radio.vif}
      /\ radio'.vif = c => VifHeld(c)'
  <2>1. CASE Clean(c)
    BY <1>0, <1>a, <1>2, <2>1 DEF Clean, GoTo, Captures, Holding, VifHeld, RadioHeld
  <2>2. CASE Choose(c)
    BY <1>0, <1>a, <1>2, <2>2 DEF Choose, GoTo, Captures, Holding, VifHeld, RadioHeld
  <2>3. CASE Add(c)
    BY <1>0, <1>a, <1>2, <2>3 DEF Add, GoTo, Captures, Holding, VifHeld, RadioHeld
  <2>4. CASE Raise(c)
    BY <1>0, <1>a, <1>2, <2>4 DEF Raise, GoTo, Captures, Holding, VifHeld, RadioHeld
  <2>5. CASE Change(c)
    BY <1>0, <1>a, <1>2, <2>5
       DEF Change, EndsWith, Captures, Holding, VifHeld, RadioHeld
  <2>6. CASE Spawn(c)
    <3>0. cap[c].pc = "spawn"
      BY <2>6 DEF Spawn
    <3>1. CASE GoTo(c, "capture") /\ UNCHANGED radio
      BY <1>0, <1>2, <3>0, <3>1 DEF GoTo, Captures, Holding, VifHeld, RadioHeld
    <3>2. CASE SpawnFails(c)
      BY <1>0, <1>a, <1>2, <3>0, <3>2 DEF SpawnFails, Released, NotReleased, Captures, Holding, VifHeld, RadioHeld
    <3>3. CASE SpawnRaises(c)
      BY <1>0, <1>2, <3>0, <3>3 DEF SpawnRaises, Captures, Holding, VifHeld, RadioHeld
    <3> QED BY <2>6, <3>1, <3>2, <3>3 DEF Spawn
  <2>7. CASE Stop(c)
    BY <1>0, <1>a, <1>2, <2>7 DEF Stop, GoTo, Captures, Holding, VifHeld, RadioHeld
  <2>8. CASE Release(c)
    BY <1>0, <1>a, <1>2, <2>8
       DEF Release, Released, NotReleased, GoTo, Captures, Holding, VifHeld, RadioHeld
  <2>9. CASE Import(c) \/ Write(c) \/ Unlink(c)
    BY <1>0, <1>a, <1>2, <2>9 DEF Import, Write, Unlink, Captures, Holding, VifHeld, RadioHeld
  <2> QED BY <2>1, <2>2, <2>3, <2>4, <2>5, <2>6, <2>7, <2>8, <2>9, CaptureActions
<1>5. radio'.type = "monitor" => \E d \in Commands : Holding(d, "parent")'
  <2> SUFFICES ASSUME radio'.type = "monitor", ~Holding(c, "parent")'
               PROVE  \E d \in Commands : Holding(d, "parent")'
    BY DEF Holding
  <2>1. radio.type = "monitor" /\ ~Holding(c, "parent")
    BY <1>4
  <2>2. PICK d \in Commands : Holding(d, "parent")
    BY <1>2, <2>1 DEF RadioHeld
  <2>3. d # c
    BY Zenon, <2>1, <2>2
  <2>4. Holding(d, "parent")'
    BY <1>0, <2>2, <2>3 DEF Shape, Holding
  <2> QED BY <2>4 DEF Holding
<1>6. (radio.vif # Nobody => VifHeld(radio.vif))'
  <2>1. PICK v : v = radio'.vif
    OBVIOUS
  <2>2. v # Nobody => VifHeld(v)'
    BY <1>0, <1>2, <1>3, <1>4, <2>1 DEF RadioHeld, VifHeld, Holding
  <2> QED BY <2>1, <2>2 DEF VifHeld, Holding
<1> QED BY <1>5, <1>6 DEF RadioHeld

(* Only captures of its own group are disturbed: nobody else captures.      *)
LEMMA CutsOf ==
  ASSUME Inv, NEW c \in Commands, CaptureStep(c)
  PROVE  CutsInv'
<1>1. UNCHANGED cuts \/ \E on : Cut(on, c)
  BY DEF CaptureStep, Clean, Choose, Add, Raise, Change, Spawn, SpawnFails, SpawnRaises, Released,
     NotReleased, Stop, Release, Import, Write, Unlink
<1>2. Active(c) /\ c[1] = agent.at[1]
  BY ShapeOf, ActiveHere DEF Inv, TypeOK, Shape
<1>3. \A on : \A p \in TakenFrom(on, c) : p[1][1] = p[2][1]
  <2> SUFFICES ASSUME NEW on, NEW x \in Commands, cap[x].pc = "capture" PROVE x[1] = c[1]
    BY DEF TakenFrom
  <2>1. Active(x)
    BY DEF Active
  <2> QED BY <1>2, <2>1, ActiveHere
<1>4. CutsInv
  BY DEF Inv
<1> QED BY <1>1, <1>3, <1>4 DEF CutsInv, Cut

LEMMA NamesOf ==
  ASSUME Inv, NEW c \in Commands, CaptureStep(c)
  PROVE  NamesInv'
<1>0. Shape(c) /\ NamesInv /\ cap \in [Commands -> Captures] /\ cap[c] \in Captures
  BY ShapeOf DEF Inv, TypeOK, CaptureTypeOK
<1>1. cap'[c].name \in {cap[c].name, PlainName(c), StampedName(c)}
  <2>1. CASE Import(c)
    BY <1>0, <2>1 DEF Import, GoTo, Captures
  <2>2. CASE ~Import(c)
    BY <1>0, <2>2 DEF CaptureStep, Clean, Choose, Add, Raise, Change, Spawn, SpawnFails, SpawnRaises,
       Stop, Release, Write, Unlink, GoTo, EndsWith, Captures
  <2> QED BY <2>1, <2>2
<1>2. \A d \in Commands : /\ cap'[d].kind = cap[d].kind /\ cap'[d].tmp = cap[d].tmp
                          /\ cap'[d].pc # "idle" <=> cap[d].pc # "idle"
  BY <1>0 DEF Shape, Active
<1>3. \A d \in Commands : d # c => cap'[d].name = cap[d].name
  BY <1>0 DEF Shape
<1> SUFFICES ASSUME NEW d \in Commands, cap'[d].pc # "idle"
             PROVE  /\ cap'[d].tmp \in Commands /\ cap'[d].tmp[1] = d[1]
                    /\ cap'[cap'[d].tmp].pc # "idle" /\ cap'[cap'[d].tmp].kind = cap'[d].kind
                    /\ cap'[d].name \in {<<cap'[d].kind, Nobody>>, <<cap'[d].kind, d>>}
  BY DEF NamesInv, PlainName, StampedName
<1>4. /\ cap[d].tmp \in Commands /\ cap[d].tmp[1] = d[1]
      /\ cap[cap[d].tmp].pc # "idle" /\ cap[cap[d].tmp].kind = cap[d].kind
      /\ cap[d].name \in {<<cap[d].kind, Nobody>>, <<cap[d].kind, d>>}
  BY <1>0, <1>2 DEF NamesInv, PlainName, StampedName
<1>5. cap'[d].name \in {<<cap[d].kind, Nobody>>, <<cap[d].kind, d>>}
  BY <1>1, <1>3, <1>4 DEF PlainName, StampedName
<1> QED BY <1>2, <1>4, <1>5

LEMMA ThreadsOf ==
  ASSUME Inv, NEW c \in Commands, CaptureStep(c), UNCHANGED <<agent, program>>
  PROVE  PlaceInv' /\ ThreadsInv' /\ FreshInv'
<1>0. Shape(c)
  BY ShapeOf DEF Inv, TypeOK
<1>1. PlaceInv'
  BY DEF Inv, PlaceInv, Group
<1>2. ThreadsInv'
  BY <1>0 DEF Inv, ThreadsInv, Awaited, Shape, Active
<1>3. FreshInv'
  <2> SUFFICES ASSUME InGroups, NEW d \in Commands, Ahead(d) PROVE cap'[d] = Idle
    BY DEF FreshInv, InGroups, Ahead
  <2>1. d # c
    BY <1>0, NotAhead DEF Shape, Active
  <2> QED BY <1>0, <2>1 DEF Inv, FreshInv, Shape
<1> QED BY <1>1, <1>2, <1>3

(* Nobody else uses the scratch file of a capture without a rival.          *)
LEMMA ScratchApart ==
  ASSUME Inv, NEW c \in Commands, NEW d \in Commands, c # d, Rivals(c) = {},
         cap[c].pc # "idle", cap[d].pc # "idle"
  PROVE  cap[c].tmp # cap[d].tmp
<1> SUFFICES ASSUME cap[c].tmp = cap[d].tmp PROVE FALSE
  OBVIOUS
<1>1. d[1] = c[1] /\ cap[d].kind = cap[c].kind
  BY DEF Inv, NamesInv
<1>2. d \in Rivals(c)
  BY <1>1 DEF Rivals
<1> QED BY <1>2

LEMMA AloneOf ==
  ASSUME Inv, NEW c \in Commands, CaptureStep(c)
  PROVE  AloneInv'
<1>0. /\ Shape(c) /\ cap \in [Commands -> Captures] /\ cap[c] \in Captures
      /\ faults \in Nat /\ (cap[c].pc = "ended" <=> cap[c].exit # "none")
  BY ShapeOf, Bounds DEF Inv, TypeOK, CaptureTypeOK
<1>1. faults' = 0 => Works /\ faults = 0
  BY <1>0 DEF CaptureStep, Clean, Choose, Add, Raise, Change, Spawn, SpawnFails, SpawnRaises,
     Stop, Release, Import, Write, Unlink, Works, Fails
<1> SUFFICES ASSUME Works, faults = 0, NEW d \in Commands, Rivals(d) = {}
             PROVE  /\ cap'[d].pc \in {"capture", "release", "import", "write"} => cap'[d].tmp \in scratch'
                    /\ cap'[d].pc = "unlink" \/ cap'[d].exit = "ok" => cap'[d].listed
  BY <1>0, <1>1, RivalsStay DEF AloneInv
<1>2. /\ cap[d].pc \in {"capture", "release", "import", "write"} => cap[d].tmp \in scratch
      /\ cap[d].pc = "unlink" \/ cap[d].exit = "ok" => cap[d].listed
  BY DEF Inv, AloneInv
<1>3. ~Fails
  BY <1>0 DEF Works, Fails
<1>4. CASE d # c
  <2>1. cap'[d] = cap[d]
    BY <1>0, <1>4 DEF Shape
  <2>2. scratch \subseteq scratch' \/ scratch' = scratch \ {cap[c].tmp}
    BY DEF CaptureStep, Clean, Choose, Add, Raise, Change, Spawn, SpawnFails, SpawnRaises,
       Stop, Release, Import, Write, Unlink
  <2>3. cap[d].pc # "idle" => cap[d].tmp # cap[c].tmp
    BY <1>0, <1>4, ScratchApart DEF Shape, Active
  <2> QED BY <1>2, <2>1, <2>2, <2>3
<1>5. CASE d = c
  <2>1. CASE Clean(c) \/ Choose(c) \/ Add(c) \/ Raise(c) \/ Change(c)
    BY <1>0, <1>2, <1>5, <2>1 DEF Clean, Choose, Add, Raise, Change, GoTo, EndsWith, Captures
  <2>2. CASE Spawn(c)
    BY <1>0, <1>2, <1>3, <1>5, <2>2 DEF Spawn, SpawnFails, SpawnRaises, GoTo, EndsWith, Captures
  <2>3. CASE Stop(c) \/ Release(c)
    BY <1>0, <1>2, <1>5, <2>3 DEF Stop, Release, GoTo, Captures
  <2>4. CASE Import(c)
    BY <1>0, <1>2, <1>5, <2>4 DEF Import, GoTo, Captures
  <2>5. CASE Write(c)
    BY <1>0, <1>2, <1>3, <1>5, <2>5 DEF Write, GoTo, Captures
  <2>6. CASE Unlink(c)
    BY <1>0, <1>2, <1>5, <2>6 DEF Unlink, EndsWith, Captures
  <2> QED BY <2>1, <2>2, <2>3, <2>4, <2>5, <2>6, CaptureActions
<1> QED BY <1>4, <1>5
LEMMA FilesKept ==
  ASSUME Inv, NEW c \in Commands, CaptureStep(c)
  PROVE  FilesInv'
<1>0. /\ Shape(c) /\ FilesInv /\ NamesInv /\ cap \in [Commands -> Captures]
      /\ \A d \in Commands : cap[d] \in Captures
  BY ShapeOf DEF Inv, TypeOK, CaptureTypeOK
<1> SUFFICES ASSUME NEW d \in Commands
             PROVE  /\ cap'[d].listed => /\ cap'[d].pc \in {"unlink", "ended"}
                                         /\ cap'[d].name \in DOMAIN files'
                                         /\ files'[cap'[d].name] \in {d} \union Rivals(d)
                    /\ cap'[d].pc = "write" /\ cap'[d].name = <<cap'[d].kind, Nobody>>
                       /\ cap'[d].name \in DOMAIN files' => files'[cap'[d].name][1] = d[1]
  BY <1>0, RivalsStay DEF FilesInv, PlainName
<1>1. /\ cap[d].listed => /\ cap[d].pc \in {"unlink", "ended"}
                          /\ cap[d].name \in DOMAIN files
                          /\ files[cap[d].name] \in {d} \union Rivals(d)
      /\ cap[d].pc = "write" /\ cap[d].name = <<cap[d].kind, Nobody>>
         /\ cap[d].name \in DOMAIN files => files[cap[d].name][1] = d[1]
  BY <1>0 DEF FilesInv, PlainName
<1>2. CASE files' = files /\ cap'[c].listed = cap[c].listed
  <2>1. CASE d # c
    BY <1>0, <1>1, <1>2, <2>1 DEF Shape
  <2>2. CASE d = c
    <3>1. cap[c].listed => cap[c].pc = "unlink"
      BY <1>0, <1>1, <2>2 DEF Shape, Active
    <3>2. cap[c].pc = "unlink" => cap'[c].pc = "ended" /\ cap'[c].name = cap[c].name
      BY <1>0 DEF CaptureStep, Clean, Choose, Add, Raise, Change, Spawn, Stop, Release, Import, Write,
         Unlink, EndsWith, Captures
    <3>3. cap'[c].pc = "write" => cap'[c].name = StampedName(c) \/ cap'[c].name \notin DOMAIN files
      <4>1. CASE Import(c)
        BY <1>0, <4>1 DEF Import, GoTo, Captures
      <4>2. CASE ~Import(c)
        BY <1>0, <4>2 DEF CaptureStep, Clean, Choose, Add, Raise, Change, Spawn, SpawnFails, SpawnRaises,
           Stop, Release, Write, Unlink, GoTo, EndsWith, Captures
      <4> QED BY <4>1, <4>2
    <3>4. StampedName(c) # <<cap'[c].kind, Nobody>>
      BY CommandPairs DEF StampedName
    <3> QED BY <1>1, <1>2, <2>2, <3>1, <3>2, <3>3, <3>4
  <2> QED BY <2>1, <2>2
<1>3. CASE /\ cap[c].pc = "write" /\ cap'[c].pc = "unlink" /\ cap'[c].name = cap[c].name
           /\ files' = [n \in DOMAIN files \union {cap[c].name} |->
                          IF n = cap[c].name THEN c ELSE files[n]]
  <2>1. CASE d = c
    BY <1>3, <2>1
  <2>2. CASE d # c
    <3>0. cap'[d] = cap[d]
      BY <1>0, <2>2 DEF Shape
    <3>1. cap[d].listed /\ cap[d].name = cap[c].name => c \in Rivals(d)
      <4> SUFFICES ASSUME cap[d].listed, cap[d].name = cap[c].name PROVE c \in Rivals(d)
        OBVIOUS
      <4>1. cap[d].pc # "idle" /\ cap[c].pc # "idle"
        BY <1>1, <1>3
      <4>2. cap[d].name \in {<<cap[d].kind, Nobody>>, <<cap[d].kind, d>>}
            /\ cap[c].name \in {<<cap[c].kind, Nobody>>, <<cap[c].kind, c>>}
        BY <1>0, <4>1 DEF NamesInv, PlainName, StampedName
      <4>3. cap[d].kind = cap[c].kind /\ cap[c].name = PlainName(c)
        BY <2>2, <4>2, CommandPairs DEF PlainName
      <4>4. files[cap[c].name][1] = c[1]
        BY <1>0, <1>1, <1>3, <4>3 DEF FilesInv
      <4>5. files[cap[c].name][1] = d[1]
        BY <1>1 DEF Rivals
      <4> QED BY <2>2, <4>1, <4>3, <4>4, <4>5 DEF Rivals
    <3>2. cap[d].pc = "write" => c[1] = d[1]
      BY <1>3, ActiveHere DEF Active
    <3> QED BY <1>1, <1>3, <3>0, <3>1, <3>2
  <2> QED BY <2>1, <2>2
<1> QED BY <1>2, <1>3, FilesOf DEF Inv, TypeOK

LEMMA ListOf ==
  ASSUME Inv, NEW c \in Commands, CaptureStep(c), UNCHANGED agent
  PROVE  ListInv'
<1>0. Shape(c) /\ ListInv /\ Awaited(c) /\ \A a \in agent.artifacts : a[2] \in Commands
  BY ShapeOf DEF Inv, TypeOK, Shape, ThreadsInv
<1>1. \A a \in agent.artifacts : cap'[a[2]] = cap[a[2]]
  BY <1>0 DEF Shape, Active, ListInv
<1>2. \A d \in Commands : cap'[d].listed /\ cap'[d].pc = "ended" =>
                          Awaited(d) \/ <<cap'[d].name, d>> \in agent.artifacts
  BY <1>0 DEF Shape, ListInv
<1> QED BY <1>0, <1>1, <1>2 DEF ListInv, Awaited

LEMMA CaptureKeeps ==
  ASSUME Inv, NEW c \in Commands, CaptureStep(c), UNCHANGED <<host, program, agent, report>>
  PROVE  Inv'
<1>1. TypeOK'
  <2>0. cap[c].pc # "idle" /\ cap[c] \in Captures
    BY ShapeOf DEF Inv, TypeOK, CaptureTypeOK, Shape, Active
  <2>1. CaptureTypeOK'
    BY <2>0, CaptureTyped DEF Inv, TypeOK, NamesInv
  <2>2. files' \in [DOMAIN files' -> Commands] /\ DOMAIN files' \subseteq Names
    <3>1. cap[c].name \in Names
      BY <2>0 DEF Captures, Names
    <3>2. files \in [DOMAIN files -> Commands] /\ DOMAIN files \subseteq Names
      BY DEF Inv, TypeOK
    <3>3. \/ files' = files
          \/ files' = [n \in DOMAIN files \union {cap[c].name} |->
                         IF n = cap[c].name THEN c ELSE files[n]]
      BY FilesOf DEF Inv, TypeOK
    <3>4. CASE files' = files
      BY <3>2, <3>4
    <3>5. CASE files' = [n \in DOMAIN files \union {cap[c].name} |->
                           IF n = cap[c].name THEN c ELSE files[n]]
      BY <3>1, <3>2, <3>5
    <3> QED BY <3>3, <3>4, <3>5
  <2> QED BY <2>1, <2>2 DEF Inv, TypeOK
<1>2. ReportInv'
  BY DEF Inv, ReportInv
<1> QED BY <1>1, <1>2, ThreadsOf, RadioOf, CutsOf, NamesOf, FilesKept, AloneOf, ListOf DEF Inv

-------------------------------------------------------------------------------
(* A step of the main thread keeps it.                                      *)

LEMMA AgentTyped ==
  ASSUME Inv
  PROVE  /\ agent \in [pc : Pcs, at : Nat \X (Nat \ {0}), tasks : Seq(Commands), failed : BOOLEAN,
                       artifacts : SUBSET (Names \X Commands), run : 0..MaxRuns]
         /\ agent.at[1] \in Nat /\ agent.at[2] \in Nat \ {0}
         /\ agent.at = <<agent.at[1], agent.at[2]>>
         /\ cap \in [Commands -> Captures]
  BY DEF Inv, TypeOK, CaptureTypeOK

LEMMA GroupTyped ==
  ASSUME Inv, agent.at[1] \in DOMAIN program
  PROVE  Group \in [commands : Seq(Kinds), failFast : BOOLEAN]
<1> DEFINE G == [commands : Seq(Kinds), failFast : BOOLEAN]
<1>1. program \in Seq(G)
  BY ExecutionAssumption DEF Inv, TypeOK, ProgramType
<1> HIDE DEF G
<1>2. program[agent.at[1]] \in G
  BY <1>1
<1> QED BY <1>2 DEF Group, G

(* The command the main thread is at.                                       *)
LEMMA CommandHere ==
  ASSUME Inv, agent.pc \in {"command", "wait"}
  PROVE  /\ agent.at \in Commands /\ Kind \in Kinds
         /\ Group.commands \in Seq(Kinds) /\ agent.at[2] \in 1..Len(Group.commands)
         /\ Group.failFast \in BOOLEAN
<1>1. /\ agent.at[1] \in DOMAIN program /\ agent.at[2] \in DOMAIN Group.commands
      /\ program \in Programs
  BY DEF Inv, TypeOK, PlaceInv
<1>2. /\ program \in ProgramType /\ agent.at[1] \in Groups
      /\ agent.at[2] \in Positions
  BY <1>1, ExecutionAssumption DEF Group
<1>3. Group \in [commands : Seq(Kinds), failFast : BOOLEAN]
  BY <1>1, GroupTyped
<1>4. agent.at \in Commands
  BY <1>2, AgentTyped DEF Commands
<1> QED BY <1>1, <1>3, <1>4 DEF Kind

(* After a command the main thread is at the next one, or at the join.      *)
LEMMA EndedFacts ==
  ASSUME Inv, agent.pc \in {"command", "wait"}, NEW failed \in BOOLEAN,
         NEW artifacts \in SUBSET (Names \X Commands), NEW e, e = Ended(failed, artifacts)
  PROVE  /\ e \in [pc : Pcs, at : Nat \X (Nat \ {0}), tasks : Seq(Commands), failed : BOOLEAN,
                   artifacts : SUBSET (Names \X Commands), run : 0..MaxRuns]
         /\ e.pc \in {"command", "join"} /\ e.tasks = agent.tasks /\ e.at[1] = agent.at[1]
         /\ e.artifacts = agent.artifacts \union artifacts
         /\ e.pc = "command" => e.at[2] = agent.at[2] + 1 /\ e.at[2] \in DOMAIN Group.commands
<1> DEFINE leave == failed /\ Group.failFast
           last == agent.at[2] = Len(Group.commands)
           over == leave \/ last
<1>1. /\ agent \in [pc : Pcs, at : Nat \X (Nat \ {0}), tasks : Seq(Commands), failed : BOOLEAN,
                    artifacts : SUBSET (Names \X Commands), run : 0..MaxRuns]
      /\ agent.at[1] \in Nat /\ agent.at[2] \in Nat \ {0}
      /\ agent.at[2] \in 1..Len(Group.commands) /\ Group.commands \in Seq(Kinds)
  BY AgentTyped, CommandHere
<1>2. e = [agent EXCEPT !.pc = IF over THEN "join" ELSE "command",
                        !.at[2] = IF over THEN 1 ELSE @ + 1,
                        !.failed = @ \/ failed,
                        !.artifacts = @ \union artifacts]
  BY DEF Ended
<1>3. over \in BOOLEAN /\ (~over => agent.at[2] + 1 \in 1..Len(Group.commands))
  BY <1>1
<1> HIDE DEF over
<1>4. /\ e.pc = IF over THEN "join" ELSE "command"
      /\ e.at = [agent.at EXCEPT ![2] = IF over THEN 1 ELSE @ + 1]
      /\ e.tasks = agent.tasks /\ e.run = agent.run
      /\ e.failed = (agent.failed \/ failed)
      /\ e.artifacts = agent.artifacts \union artifacts
      /\ e = [pc |-> e.pc, at |-> e.at, tasks |-> e.tasks, failed |-> e.failed,
              artifacts |-> e.artifacts, run |-> e.run]
  BY <1>1, <1>2
<1>5. /\ e.at \in Nat \X (Nat \ {0}) /\ e.at[1] = agent.at[1]
      /\ e.at[2] = IF over THEN 1 ELSE agent.at[2] + 1
  BY <1>1, <1>4
<1>6. e.failed \in BOOLEAN
  BY <1>4
<1>7. e.pc \in Pcs
  BY <1>4 DEF Pcs
<1>8. e.artifacts \in SUBSET (Names \X Commands)
  BY <1>1, <1>4
<1> QED BY <1>1, <1>3, <1>4, <1>5, <1>6, <1>7, <1>8

(* What only speaks of the captures stays true when they stay as they are.  *)
LEMMA CapturesSame ==
  ASSUME Inv, UNCHANGED <<host, captureVars>>
  PROVE  /\ CaptureTypeOK' /\ RadioInv' /\ CutsInv' /\ NamesInv' /\ FilesInv' /\ AloneInv'
         /\ files' \in [DOMAIN files' -> Commands] /\ DOMAIN files' \subseteq Names
<1>1. UNCHANGED <<host, radio, cap, scratch, files, faults, cuts, leaky>>
  BY DEF captureVars
<1>2. CaptureTypeOK' /\ files' \in [DOMAIN files' -> Commands] /\ DOMAIN files' \subseteq Names
  BY <1>1 DEF Inv, TypeOK, CaptureTypeOK
<1>3. RadioInv' /\ CutsInv'
  BY <1>1 DEF Inv, RadioInv, RadioHeld, VifHeld, Holding, CutsInv
<1>4. NamesInv'
  BY <1>1 DEF Inv, NamesInv, PlainName, StampedName
<1>5. FilesInv'
  BY <1>1 DEF Inv, FilesInv, Rivals, PlainName
<1>6. AloneInv'
  BY <1>1 DEF Inv, AloneInv, Rivals
<1> QED BY <1>2, <1>3, <1>4, <1>5, <1>6

(* A capture that begins disturbs no other one.                             *)
LEMMA StartedKeeps ==
  ASSUME Inv, NEW c \in Commands, InGroups, c[1] = agent.at[1], cap[c] = Idle,
         NEW kind \in {"monitor", "advertise"}, Started(c, kind),
         UNCHANGED <<host, radio, scratch, files, faults, cuts, leaky>>
  PROVE  /\ CaptureTypeOK' /\ RadioInv' /\ CutsInv' /\ NamesInv' /\ FilesInv' /\ AloneInv'
         /\ files' \in [DOMAIN files' -> Commands] /\ DOMAIN files' \subseteq Names
         /\ \A d \in Commands : d # c => cap'[d] = cap[d]
         /\ ~cap'[c].listed
<1>0. /\ cap \in [Commands -> Captures] /\ NamesInv /\ FilesInv /\ AloneInv
  BY AgentTyped DEF Inv
<1>1. PICK tmp \in TmpNames(c, kind) : cap' = [cap EXCEPT ![c] = Beginning(kind, tmp)]
  BY DEF Started
<1>2. \/ tmp = c
      \/ /\ tmp \in Commands /\ tmp # c /\ tmp[1] = c[1]
         /\ cap[tmp].pc # "idle" /\ cap[tmp].kind = kind
  <2>1. CASE tmp = c
    BY <2>1
  <2>2. CASE tmp # c
    <3>1. PICK x \in Commands : Active(x) /\ cap[x].kind = kind /\ cap[x].tmp = tmp
      BY <1>1, <2>2 DEF TmpNames
    <3>2. x[1] = c[1] /\ cap[x].pc # "idle"
      BY <3>1, ActiveHere DEF Active
    <3> QED BY <1>0, <2>2, <3>1, <3>2 DEF NamesInv
  <2> QED BY <2>1, <2>2
<1>3. /\ cap'[c] = [pc |-> IF kind = "monitor" THEN "clean" ELSE "spawn", kind |-> kind, on |-> "none",
                   tmp |-> tmp, name |-> <<kind, Nobody>>, listed |-> FALSE, exit |-> "none"]
      /\ \A d \in Commands : d # c => cap'[d] = cap[d]
      /\ cap' \in [Commands -> Captures]
  <2>1. Beginning(kind, tmp) \in Captures
    BY <1>2 DEF Beginning, Captures, Steps
  <2>2. cap'[c] = Beginning(kind, tmp)
    BY <1>0, <1>1
  <2> QED BY <1>0, <1>1, <2>1, <2>2 DEF Beginning
<1>4. cap[c].pc = "idle" /\ ~cap[c].listed /\ cap[c].exit = "none" /\ cap[c].on = "none"
  BY DEF Idle
<1>5. CaptureTypeOK' /\ files' \in [DOMAIN files' -> Commands] /\ DOMAIN files' \subseteq Names
  <2>1. \A d \in Commands : cap'[d].pc = "ended" <=> cap'[d].exit # "none"
    BY <1>3 DEF Inv, TypeOK, CaptureTypeOK
  <2>2. CaptureTypeOK'
    BY <1>3, <2>1 DEF Inv, TypeOK, CaptureTypeOK
  <2> QED BY <2>2 DEF Inv, TypeOK
<1>6. RadioInv' /\ CutsInv'
  <2>1. CutsInv'
    BY DEF Inv, CutsInv
  <2>2. \A d \in Commands : VifHeld(d) => d # c /\ VifHeld(d)'
    BY <1>3, <1>4 DEF VifHeld, Holding
  <2>3. \A d \in Commands : Holding(d, "parent") => Holding(d, "parent")'
    BY <1>3, <1>4 DEF Holding
  <2>4. radio.vif \in Commands \union {Nobody}
    BY DEF Inv, TypeOK, CaptureTypeOK
  <2>5. RadioHeld => RadioHeld'
    BY <2>2, <2>3, <2>4 DEF RadioHeld, VifHeld, Holding
  <2> QED BY <2>1, <2>5 DEF Inv, RadioInv
<1>7. NamesInv'
  <2> SUFFICES ASSUME NEW d \in Commands, cap'[d].pc # "idle"
               PROVE  /\ cap'[d].tmp \in Commands /\ cap'[d].tmp[1] = d[1]
                      /\ cap'[cap'[d].tmp].pc # "idle" /\ cap'[cap'[d].tmp].kind = cap'[d].kind
                      /\ cap'[d].name \in {<<cap'[d].kind, Nobody>>, <<cap'[d].kind, d>>}
    BY DEF NamesInv, PlainName, StampedName
  <2>1. CASE d = c
    BY <1>2, <1>3, <2>1
  <2>2. CASE d # c
    <3>1. /\ cap[d].tmp \in Commands /\ cap[d].tmp[1] = d[1]
          /\ cap[cap[d].tmp].pc # "idle" /\ cap[cap[d].tmp].kind = cap[d].kind
          /\ cap[d].name \in {<<cap[d].kind, Nobody>>, <<cap[d].kind, d>>}
      BY <1>0, <1>3, <2>2 DEF NamesInv, PlainName, StampedName
    <3>2. cap[d].tmp # c
      BY <1>4, <3>1
    <3> QED BY <1>3, <2>2, <3>1, <3>2
  <2> QED BY <2>1, <2>2
<1>8. \A d \in Commands : d # c => Rivals(d) \subseteq Rivals(d)'
  BY <1>3, <1>4 DEF Rivals
<1>9. FilesInv'
  <2> SUFFICES ASSUME NEW d \in Commands
               PROVE  /\ cap'[d].listed => /\ cap'[d].pc \in {"unlink", "ended"}
                                           /\ cap'[d].name \in DOMAIN files
                                           /\ files[cap'[d].name] \in {d} \union Rivals(d)'
                      /\ cap'[d].pc = "write" /\ cap'[d].name = <<cap'[d].kind, Nobody>>
                         /\ cap'[d].name \in DOMAIN files => files[cap'[d].name][1] = d[1]
    BY DEF FilesInv, PlainName
  <2>1. CASE d = c
    BY <1>3, <2>1
  <2>2. CASE d # c
    BY <1>0, <1>3, <1>8, <2>2 DEF FilesInv, PlainName
  <2> QED BY <2>1, <2>2
<1>10. AloneInv'
  <2> SUFFICES ASSUME faults = 0, NEW d \in Commands, Rivals(d)' = {}
               PROVE  /\ cap'[d].pc \in {"capture", "release", "import", "write"} => cap'[d].tmp \in scratch
                      /\ cap'[d].pc = "unlink" \/ cap'[d].exit = "ok" => cap'[d].listed
    BY DEF AloneInv
  <2>1. CASE d = c
    BY <1>3, <2>1
  <2>2. CASE d # c
    <3>1. Rivals(d) = {}
      BY <1>8, <2>2
    <3> QED BY <1>0, <1>3, <2>2, <3>1 DEF AloneInv
  <2> QED BY <2>1, <2>2
<1> QED BY <1>3, <1>5, <1>6, <1>7, <1>9, <1>10

LEMMA MainKeeps ==
  ASSUME Inv, UNCHANGED <<host, program, captureVars>>,
         agent' \in [pc : Pcs, at : Nat \X (Nat \ {0}), tasks : Seq(Commands), failed : BOOLEAN,
                     artifacts : SUBSET (Names \X Commands), run : 0..MaxRuns],
         report' \in [status : {"none", "OK", "FAILED"}, artifacts : SUBSET (Names \X Commands)],
         PlaceInv', ThreadsInv', FreshInv', ListInv', ReportInv'
  PROVE  Inv'
  BY CapturesSame DEF Inv, TypeOK

(* Between two groups, and after the last one, nothing is awaited.          *)
LEMMA NothingAwaited ==
  ASSUME Inv, agent.tasks = << >>, agent.pc # "wait"
  PROVE  /\ \A c \in Commands : ~Active(c) /\ ~Awaited(c)
         /\ \A c \in Commands : cap[c].listed /\ cap[c].pc = "ended" => <<cap[c].name, c>> \in agent.artifacts
  BY DEF Inv, ThreadsInv, ListInv, Awaited

LEMMA ReportTyped ==
  ASSUME Inv
  PROVE  /\ report \in [status : {"none", "OK", "FAILED"}, artifacts : SUBSET (Names \X Commands)]
         /\ agent.pc \notin {"recover", "flush", "poll"} => report = NoReport
  BY DEF Inv, TypeOK, ReportInv

(* The next group, with nothing left of the one before.                     *)
LEMMA NextGroupKeeps ==
  ASSUME Inv, agent.tasks = << >>, agent.pc \in {"group", "join"}, agent' = NextGroup,
         UNCHANGED <<host, program, report, captureVars>>
  PROVE  Inv'
<1>0. UNCHANGED cap
  BY DEF captureVars
<1>1. /\ agent' \in [pc : Pcs, at : Nat \X (Nat \ {0}), tasks : Seq(Commands), failed : BOOLEAN,
                     artifacts : SUBSET (Names \X Commands), run : 0..MaxRuns]
      /\ agent'.pc = "group" /\ agent'.tasks = << >> /\ agent'.artifacts = agent.artifacts
      /\ agent'.at = <<agent.at[1] + 1, 1>>
  <2>1. <<agent.at[1] + 1, 1>> \in Nat \X (Nat \ {0}) /\ << >> \in Seq(Commands)
    BY AgentTyped
  <2>2. \A at \in Nat \X (Nat \ {0}), tasks \in Seq(Commands) :
          LET a == [agent EXCEPT !.pc = "group", !.at = at, !.tasks = tasks]
          IN /\ a \in [pc : Pcs, at : Nat \X (Nat \ {0}), tasks : Seq(Commands), failed : BOOLEAN,
                       artifacts : SUBSET (Names \X Commands), run : 0..MaxRuns]
             /\ a.pc = "group" /\ a.tasks = tasks /\ a.artifacts = agent.artifacts /\ a.at = at
    BY AgentTyped DEF Pcs
  <2> QED BY <2>1, <2>2 DEF NextGroup
<1>2. agent'.at[1] = agent.at[1] + 1 /\ agent'.at[2] = 1
  BY <1>1
<1>3. PlaceInv'
  BY <1>1, <1>2 DEF PlaceInv
<1>4. ThreadsInv'
  BY <1>0, NothingAwaited DEF ThreadsInv, Active
<1>5. FreshInv'
  <2> SUFFICES ASSUME NEW c \in Commands, Ahead(c)' PROVE cap[c] = Idle
    BY <1>0 DEF FreshInv
  <2>1. c[1] > agent.at[1]
    BY <1>1, <1>2, AgentTyped, CommandPairs DEF Ahead
  <2> QED BY <2>1 DEF Inv, FreshInv, InGroups, Ahead
<1>6. ListInv'
  BY <1>0, <1>1, NothingAwaited DEF Inv, ListInv
<1>7. ReportInv'
  BY ReportTyped DEF ReportInv
<1> QED BY <1>1, <1>3, <1>4, <1>5, <1>6, <1>7, ReportTyped, MainKeeps

LEMMA EnterGroupStep ==
  ASSUME Inv, EnterGroup, UNCHANGED <<host, program>>
  PROVE  Inv'
<1>0. /\ agent.pc = "group" /\ agent.tasks = << >> /\ UNCHANGED <<report, captureVars, cap>>
  BY DEF EnterGroup, At, Inv, PlaceInv, captureVars
<1>1. CASE agent' = NextGroup
  BY <1>0, <1>1, NextGroupKeeps
<1>2. CASE /\ \/ agent' = [agent EXCEPT !.pc = "report"]
              \/ /\ agent' = [agent EXCEPT !.pc = "command"]
                 /\ agent.at[1] \in DOMAIN program /\ Group.commands # << >>
  <2>1. /\ agent' \in [pc : Pcs, at : Nat \X (Nat \ {0}), tasks : Seq(Commands), failed : BOOLEAN,
                       artifacts : SUBSET (Names \X Commands), run : 0..MaxRuns]
        /\ agent'.pc \in {"report", "command"} /\ agent'.tasks = << >>
        /\ agent'.artifacts = agent.artifacts /\ agent'.at = agent.at
        /\ agent'.pc = "command" => agent.at[1] \in DOMAIN program /\ Group.commands # << >>
    BY <1>0, <1>2, AgentTyped DEF Pcs
  <2>2. PlaceInv'
    <3>1. agent.at[2] = 1 /\ program \in Programs
      BY <1>0 DEF Inv, PlaceInv, TypeOK
    <3>2. agent'.pc = "command" => 1 \in DOMAIN Group.commands
      <4> SUFFICES ASSUME agent'.pc = "command" PROVE 1 \in DOMAIN Group.commands
        OBVIOUS
      <4>1. Group \in [commands : Seq(Kinds), failFast : BOOLEAN]
        BY <2>1, GroupTyped
      <4>2. Group.commands \in Seq(Kinds) /\ Group.commands # << >>
        BY <2>1, <4>1
      <4> QED BY <4>2
    <3> QED BY <2>1, <3>1, <3>2 DEF PlaceInv, Group
  <2>3. ThreadsInv'
    BY <1>0, NothingAwaited DEF ThreadsInv, Active
  <2>4. FreshInv'
    <3> SUFFICES ASSUME InGroups', NEW c \in Commands, Ahead(c)' PROVE cap[c] = Idle
      BY <1>0 DEF FreshInv
    <3>1. Ahead(c)
      BY <1>0, <2>1 DEF Ahead
    <3> QED BY <1>0, <3>1 DEF Inv, FreshInv, InGroups
  <2>5. ListInv'
    BY <1>0, <2>1, NothingAwaited DEF Inv, ListInv
  <2>6. ReportInv'
    BY <1>0, ReportTyped DEF ReportInv
  <2> QED BY <1>0, <2>1, <2>2, <2>3, <2>4, <2>5, <2>6, ReportTyped, MainKeeps
<1> QED BY <1>1, <1>2 DEF EnterGroup

(* A command that was waited for: what it handed over is on the list.       *)
LEMMA CommandEnds ==
  ASSUME Inv, agent.pc \in {"command", "wait"}, NEW failed \in BOOLEAN,
         NEW artifacts \in SUBSET (Names \X Commands), agent' = Ended(failed, artifacts),
         UNCHANGED <<host, program, report, captureVars>>,
         agent.pc = "command" => artifacts = {},
         agent.pc = "wait" => cap[agent.at].pc = "ended" /\ artifacts = Handed(agent.at)
  PROVE  Inv'
<1>0. UNCHANGED <<cap, program>>
  BY DEF captureVars
<1>1. /\ agent' \in [pc : Pcs, at : Nat \X (Nat \ {0}), tasks : Seq(Commands), failed : BOOLEAN,
                     artifacts : SUBSET (Names \X Commands), run : 0..MaxRuns]
      /\ agent'.pc \in {"command", "join"} /\ agent'.tasks = agent.tasks /\ agent'.at[1] = agent.at[1]
      /\ agent'.artifacts = agent.artifacts \union artifacts
      /\ agent'.pc = "command" => agent'.at[2] = agent.at[2] + 1 /\ agent'.at[2] \in DOMAIN Group.commands
  BY EndedFacts
<1>2. PlaceInv'
  <2>1. agent.at[1] \in DOMAIN program
    BY DEF Inv, PlaceInv
  <2> QED BY <1>0, <1>1, <2>1 DEF Inv, PlaceInv, Group
<1>3. \A c \in Commands : Awaited(c) /\ ~(agent.pc = "wait" /\ agent.at = c) => Awaited(c)'
  BY <1>1 DEF Awaited
<1>4. ThreadsInv'
  BY <1>0, <1>3 DEF Inv, ThreadsInv, Active
<1>5. FreshInv'
  <2> SUFFICES ASSUME NEW c \in Commands, Ahead(c)' PROVE cap[c] = Idle
    BY <1>0 DEF FreshInv
  <2>1. Ahead(c)
    BY <1>1, AgentTyped, CommandPairs DEF Ahead
  <2> QED BY <2>1 DEF Inv, FreshInv, InGroups
<1>6. ListInv'
  <2>1. \A a \in artifacts : cap[a[2]].listed /\ cap[a[2]].pc = "ended" /\ a[1] = cap[a[2]].name
    BY DEF Handed
  <2>2. agent.pc = "wait" /\ cap[agent.at].listed => <<cap[agent.at].name, agent.at>> \in artifacts
    BY DEF Handed
  <2> QED BY <1>0, <1>1, <1>3, <2>1, <2>2 DEF Inv, ListInv
<1>7. ReportInv'
  BY ReportTyped DEF ReportInv
<1> QED BY <1>1, <1>2, <1>4, <1>5, <1>6, <1>7, ReportTyped, MainKeeps

LEMMA HandedTyped ==
  ASSUME Inv, NEW c \in Commands
  PROVE  Handed(c) \in SUBSET (Names \X Commands)
<1>1. cap[c] \in Captures
  BY AgentTyped
<1> QED BY <1>1 DEF Handed, Captures, Names

LEMMA ShellStep ==
  ASSUME Inv, Shell, UNCHANGED <<host, program>>
  PROVE  Inv'
<1>1. PICK failed \in BOOLEAN : agent' = Ended(failed, {})
  BY DEF Shell
<1> QED BY <1>1, CommandEnds DEF Shell, At

LEMMA EndScanStep ==
  ASSUME Inv, EndScan, UNCHANGED <<host, program>>
  PROVE  Inv'
<1>1. agent.at \in Commands
  BY CommandHere DEF EndScan, At
<1>2. Handed(agent.at) \in SUBSET (Names \X Commands)
  BY <1>1, HandedTyped
<1> QED BY <1>2, CommandEnds DEF EndScan, At

(* The command the main thread comes to has not begun.                      *)
LEMMA FreshHere ==
  ASSUME Inv, agent.pc = "command"
  PROVE  agent.at \in Commands /\ cap[agent.at] = Idle
<1>1. agent.at \in Commands
  BY CommandHere
<1>2. Ahead(agent.at)
  BY AgentTyped DEF Ahead
<1> QED BY <1>1, <1>2 DEF Inv, FreshInv, InGroups

LEMMA StartThreadStep ==
  ASSUME Inv, StartThread, UNCHANGED <<host, program>>
  PROVE  Inv'
<1> DEFINE e == Ended(FALSE, {})
<1>0. /\ agent.pc = "command" /\ Kind \in {"monitor", "advertise"} /\ Started(agent.at, Kind)
      /\ agent' = [e EXCEPT !.tasks = Append(@, agent.at)]
      /\ UNCHANGED <<report, radio, scratch, files, faults, cuts, leaky>>
  BY DEF StartThread, At
<1>1. agent.at \in Commands /\ cap[agent.at] = Idle /\ InGroups
  BY <1>0, FreshHere DEF InGroups
<1>2. PICK kind \in {"monitor", "advertise"} : Kind = kind
  BY <1>0
<1>3. /\ CaptureTypeOK' /\ RadioInv' /\ CutsInv' /\ NamesInv' /\ FilesInv' /\ AloneInv'
      /\ files' \in [DOMAIN files' -> Commands] /\ DOMAIN files' \subseteq Names
      /\ \A d \in Commands : d # agent.at => cap'[d] = cap[d]
      /\ ~cap'[agent.at].listed
  BY <1>0, <1>1, <1>2, StartedKeeps
<1>4. /\ e \in [pc : Pcs, at : Nat \X (Nat \ {0}), tasks : Seq(Commands), failed : BOOLEAN,
                artifacts : SUBSET (Names \X Commands), run : 0..MaxRuns]
      /\ e.pc \in {"command", "join"} /\ e.tasks = agent.tasks /\ e.at[1] = agent.at[1]
      /\ e.artifacts = agent.artifacts \union {}
      /\ e.pc = "command" => e.at[2] = agent.at[2] + 1 /\ e.at[2] \in DOMAIN Group.commands
  <2>1. {} \in SUBSET (Names \X Commands) /\ FALSE \in BOOLEAN
    OBVIOUS
  <2>2. agent.pc \in {"command", "wait"}
    BY <1>0
  <2> QED BY <2>1, <2>2, EndedFacts
<1> HIDE DEF e
<1>5. /\ agent' \in [pc : Pcs, at : Nat \X (Nat \ {0}), tasks : Seq(Commands), failed : BOOLEAN,
                     artifacts : SUBSET (Names \X Commands), run : 0..MaxRuns]
      /\ agent'.pc \in {"command", "join"} /\ agent'.tasks = Append(agent.tasks, agent.at)
      /\ agent'.at[1] = agent.at[1] /\ agent'.artifacts = agent.artifacts
      /\ agent'.pc = "command" => agent'.at[2] = agent.at[2] + 1 /\ agent'.at[2] \in DOMAIN Group.commands
  BY <1>0, <1>1, <1>4
<1>6. /\ \A i \in DOMAIN agent.tasks : i \in DOMAIN agent'.tasks /\ agent'.tasks[i] = agent.tasks[i]
      /\ \A i \in DOMAIN agent'.tasks : agent'.tasks[i] = agent.at \/ i \in DOMAIN agent.tasks
      /\ \E i \in DOMAIN agent'.tasks : agent'.tasks[i] = agent.at
  BY <1>1, <1>5, AgentTyped
<1>7. PlaceInv'
  <2>1. agent.at[1] \in DOMAIN program /\ \A i \in DOMAIN agent.tasks : agent.tasks[i][1] = agent.at[1]
    BY <1>0 DEF Inv, PlaceInv
  <2>2. \A i \in DOMAIN agent'.tasks : agent'.tasks[i][1] = agent'.at[1]
    BY <1>5, <1>6, <2>1
  <2> QED BY <1>5, <2>1, <2>2 DEF PlaceInv, Group
<1>8. PICK here \in Commands : here = agent.at
  BY <1>1
<1>9. \A c \in Commands : Awaited(c) \/ c = here => Awaited(c)'
  <2>1. \A c \in Commands : Awaited(c) => \E i \in DOMAIN agent'.tasks : agent'.tasks[i] = c
    BY <1>0, <1>6 DEF Awaited
  <2> QED BY <1>6, <1>8, <2>1 DEF Awaited
<1>10. cap[here] = Idle /\ ~cap[here].listed /\ ~cap'[here].listed
  BY <1>1, <1>3, <1>8 DEF Idle
<1>11. ThreadsInv'
  <2> SUFFICES ASSUME NEW c \in Commands, Active(c)' PROVE Awaited(c)'
    BY DEF ThreadsInv
  <2>1. c # here => Active(c)
    BY <1>3, <1>8 DEF Active
  <2> QED BY <1>9, <2>1 DEF Inv, ThreadsInv
<1>12. FreshInv'
  <2> SUFFICES ASSUME NEW c \in Commands, Ahead(c)' PROVE cap'[c] = Idle
    BY DEF FreshInv
  <2>1. /\ c[1] > agent.at[1] \/ (c[1] = agent.at[1] /\ c[2] > agent.at[2])
        /\ c[1] \in Nat /\ c[2] \in Nat /\ agent.at[1] \in Nat /\ agent.at[2] \in Nat
    BY <1>5, AgentTyped, CommandPairs DEF Ahead
  <2>2. Ahead(c) /\ c # here
    BY <1>0, <1>8, <2>1 DEF Ahead
  <2> QED BY <1>1, <1>3, <1>8, <2>2 DEF Inv, FreshInv
<1>13. ListInv'
  <2>1. \A a \in agent.artifacts : a[2] \in Commands /\ a[2] # here
    BY <1>10, AgentTyped DEF Inv, ListInv
  <2>2. \A a \in agent'.artifacts : cap'[a[2]].listed /\ cap'[a[2]].pc = "ended" /\ a[1] = cap'[a[2]].name
    BY <1>3, <1>5, <1>8, <2>1 DEF Inv, ListInv
  <2>3. \A c \in Commands : cap'[c].listed /\ cap'[c].pc = "ended" =>
                            Awaited(c) \/ <<cap'[c].name, c>> \in agent'.artifacts
    BY <1>3, <1>5, <1>8, <1>10 DEF Inv, ListInv
  <2> QED BY <1>9, <2>2, <2>3 DEF ListInv
<1>14. report = NoReport /\ report \in [status : {"none", "OK", "FAILED"}, artifacts : SUBSET (Names \X Commands)]
  BY <1>0, ReportTyped
<1>15. TypeOK' /\ ReportInv'
  BY <1>0, <1>3, <1>5, <1>14 DEF Inv, TypeOK, ReportInv
<1> QED BY <1>3, <1>7, <1>11, <1>12, <1>13, <1>15 DEF Inv

LEMMA StartScanStep ==
  ASSUME Inv, StartScan, UNCHANGED <<host, program>>
  PROVE  Inv'
<1>0. /\ agent.pc = "command" /\ Started(agent.at, "monitor")
      /\ agent' = [agent EXCEPT !.pc = "wait"]
      /\ UNCHANGED <<report, radio, scratch, files, faults, cuts, leaky>>
  BY DEF StartScan, At
<1>1. agent.at \in Commands /\ cap[agent.at] = Idle /\ InGroups
  BY <1>0, FreshHere DEF InGroups
<1>2. PICK here \in Commands : here = agent.at
  BY <1>1
<1>3. /\ CaptureTypeOK' /\ RadioInv' /\ CutsInv' /\ NamesInv' /\ FilesInv' /\ AloneInv'
      /\ files' \in [DOMAIN files' -> Commands] /\ DOMAIN files' \subseteq Names
      /\ \A d \in Commands : d # here => cap'[d] = cap[d]
      /\ ~cap'[here].listed
  BY <1>0, <1>1, <1>2, StartedKeeps
<1>4. /\ agent' \in [pc : Pcs, at : Nat \X (Nat \ {0}), tasks : Seq(Commands), failed : BOOLEAN,
                     artifacts : SUBSET (Names \X Commands), run : 0..MaxRuns]
      /\ agent'.pc = "wait" /\ agent'.tasks = agent.tasks /\ agent'.at = agent.at
      /\ agent'.artifacts = agent.artifacts
  BY <1>0, AgentTyped DEF Pcs
<1>5. PlaceInv'
  BY <1>0, <1>4 DEF Inv, PlaceInv, Group
<1>6. \A c \in Commands : Awaited(c) \/ c = here => Awaited(c)'
  BY <1>0, <1>2, <1>4 DEF Awaited
<1>7. ThreadsInv'
  <2> SUFFICES ASSUME NEW c \in Commands, Active(c)' PROVE Awaited(c)'
    BY DEF ThreadsInv
  <2>1. c # here => Active(c)
    BY <1>3 DEF Active
  <2> QED BY <1>6, <2>1 DEF Inv, ThreadsInv
<1>8. FreshInv'
  <2> SUFFICES ASSUME NEW c \in Commands, Ahead(c)' PROVE cap'[c] = Idle
    BY DEF FreshInv
  <2>1. Ahead(c) /\ c # here
    BY <1>0, <1>2, <1>4, AgentTyped, CommandPairs DEF Ahead
  <2> QED BY <1>1, <1>3, <2>1 DEF Inv, FreshInv
<1>9. cap[here] = Idle /\ ~cap[here].listed
  BY <1>1, <1>2 DEF Idle
<1>10. ListInv'
  <2>1. \A a \in agent.artifacts : a[2] \in Commands /\ a[2] # here
    BY <1>9, AgentTyped DEF Inv, ListInv
  <2>2. \A a \in agent'.artifacts : cap'[a[2]].listed /\ cap'[a[2]].pc = "ended" /\ a[1] = cap'[a[2]].name
    BY <1>3, <1>4, <2>1 DEF Inv, ListInv
  <2>3. \A c \in Commands : cap'[c].listed /\ cap'[c].pc = "ended" =>
                            Awaited(c) \/ <<cap'[c].name, c>> \in agent'.artifacts
    BY <1>3, <1>4, <1>9 DEF Inv, ListInv
  <2> QED BY <1>6, <2>2, <2>3 DEF ListInv
<1>11. report = NoReport /\ report \in [status : {"none", "OK", "FAILED"}, artifacts : SUBSET (Names \X Commands)]
  BY <1>0, ReportTyped
<1>12. TypeOK' /\ ReportInv'
  BY <1>0, <1>3, <1>4, <1>11 DEF Inv, TypeOK, ReportInv
<1> QED BY <1>3, <1>5, <1>7, <1>8, <1>10, <1>12 DEF Inv

LEMMA JoinStep ==
  ASSUME Inv, Join, UNCHANGED <<host, program>>
  PROVE  Inv'
<1>0. /\ agent.pc = "join" /\ agent.tasks # << >> /\ cap[Head(agent.tasks)].pc = "ended"
      /\ agent' = [agent EXCEPT !.tasks = Tail(@), !.artifacts = @ \union Handed(Head(agent.tasks))]
      /\ UNCHANGED <<report, captureVars, cap>>
  BY DEF Join, At, captureVars
<1>1. PICK first \in Commands : first = Head(agent.tasks)
  BY <1>0, AgentTyped
<1>2. /\ agent' \in [pc : Pcs, at : Nat \X (Nat \ {0}), tasks : Seq(Commands), failed : BOOLEAN,
                     artifacts : SUBSET (Names \X Commands), run : 0..MaxRuns]
      /\ agent'.pc = "join" /\ agent'.tasks = Tail(agent.tasks) /\ agent'.at = agent.at
      /\ agent'.artifacts = agent.artifacts \union Handed(first)
  <2>1. Tail(agent.tasks) \in Seq(Commands) /\ Handed(first) \in SUBSET (Names \X Commands)
    BY <1>0, AgentTyped, HandedTyped
  <2> QED BY <1>0, <1>1, <2>1, AgentTyped
<1>3. /\ \A i \in DOMAIN agent.tasks : agent.tasks[i] = first \/ \E j \in DOMAIN agent'.tasks : agent'.tasks[j] = agent.tasks[i]
      /\ \A j \in DOMAIN agent'.tasks : \E i \in DOMAIN agent.tasks : agent'.tasks[j] = agent.tasks[i]
  <2>1. agent.tasks \in Seq(Commands) /\ agent.tasks # << >> /\ agent'.tasks = Tail(agent.tasks)
    BY <1>0, <1>2, AgentTyped
  <2>2. \A i \in 1..Len(agent.tasks) : i = 1 \/ (i - 1 \in 1..Len(agent'.tasks) /\ agent'.tasks[i - 1] = agent.tasks[i])
    BY <2>1
  <2>3. \A j \in 1..Len(agent'.tasks) : j + 1 \in 1..Len(agent.tasks) /\ agent'.tasks[j] = agent.tasks[j + 1]
    BY <2>1
  <2>4. first = agent.tasks[1]
    BY <1>1, <2>1
  <2>5. DOMAIN agent.tasks = 1..Len(agent.tasks) /\ DOMAIN agent'.tasks = 1..Len(agent'.tasks)
    BY <2>1
  <2> QED BY ONLY <2>2, <2>3, <2>4, <2>5
<1>4. PlaceInv'
  BY <1>0, <1>2, <1>3 DEF Inv, PlaceInv
<1>5. \A c \in Commands : Awaited(c) /\ c # first => Awaited(c)'
  BY <1>0, <1>3 DEF Awaited
<1>6. ThreadsInv'
  BY <1>0, <1>1, <1>5 DEF Inv, ThreadsInv, Active
<1>7. FreshInv'
  BY <1>0, <1>2 DEF Inv, FreshInv, InGroups, Ahead
<1>8. ListInv'
  BY <1>0, <1>1, <1>2, <1>5 DEF Inv, ListInv, Handed
<1>9. ReportInv'
  BY <1>0, ReportTyped DEF ReportInv
<1> QED BY <1>0, <1>2, <1>4, <1>6, <1>7, <1>8, <1>9, ReportTyped, MainKeeps

LEMMA JoinedStep ==
  ASSUME Inv, Joined, UNCHANGED <<host, program>>
  PROVE  Inv'
  BY NextGroupKeeps DEF Joined, At

LEMMA OutsideGroups ==
  ASSUME Inv, agent.pc \in {"report", "recover", "flush", "poll"}
  PROVE  agent.tasks = << >> /\ agent.pc # "wait"
  BY DEF Inv, PlaceInv

LEMMA PersistStep ==
  ASSUME Inv, Persist, UNCHANGED <<host, program>>
  PROVE  Inv'
<1>0. /\ agent.pc = "report" /\ agent.tasks = << >> /\ UNCHANGED <<captureVars, cap>>
      /\ report' = [status |-> IF agent.failed THEN "FAILED" ELSE "OK", artifacts |-> agent.artifacts]
      /\ agent' = [agent EXCEPT !.pc = IF host.single THEN "recover" ELSE "flush"]
  BY OutsideGroups DEF Persist, At, captureVars
<1>1. /\ agent' \in [pc : Pcs, at : Nat \X (Nat \ {0}), tasks : Seq(Commands), failed : BOOLEAN,
                     artifacts : SUBSET (Names \X Commands), run : 0..MaxRuns]
      /\ agent'.pc \in {"recover", "flush"} /\ agent'.tasks = << >> /\ agent'.artifacts = agent.artifacts
  BY <1>0, AgentTyped DEF Pcs
<1>2. /\ report' \in [status : {"none", "OK", "FAILED"}, artifacts : SUBSET (Names \X Commands)]
      /\ report'.artifacts = agent.artifacts
  BY <1>0, AgentTyped
<1>3. PlaceInv' /\ ThreadsInv' /\ FreshInv' /\ ReportInv'
  BY <1>0, <1>1, <1>2, NothingAwaited DEF PlaceInv, ThreadsInv, Active, FreshInv, InGroups, ReportInv
<1>4. ListInv'
  BY <1>0, <1>1, NothingAwaited DEF Inv, ListInv
<1> QED BY <1>0, <1>1, <1>2, <1>3, <1>4, MainKeeps

LEMMA FlushStep ==
  ASSUME Inv, Flush, UNCHANGED <<host, program>>
  PROVE  Inv'
<1>0. /\ agent.pc = "flush" /\ agent.tasks = << >> /\ agent' = [agent EXCEPT !.pc = "poll"]
      /\ UNCHANGED <<report, captureVars, cap>>
  BY OutsideGroups DEF Flush, At, captureVars
<1>1. /\ agent' \in [pc : Pcs, at : Nat \X (Nat \ {0}), tasks : Seq(Commands), failed : BOOLEAN,
                     artifacts : SUBSET (Names \X Commands), run : 0..MaxRuns]
      /\ agent'.pc = "poll" /\ agent'.tasks = << >> /\ agent'.artifacts = agent.artifacts
  BY <1>0, AgentTyped DEF Pcs
<1>2. PlaceInv' /\ ThreadsInv' /\ FreshInv' /\ ReportInv'
  BY <1>0, <1>1, NothingAwaited DEF Inv, PlaceInv, ThreadsInv, Active, FreshInv, InGroups, ReportInv
<1>3. ListInv'
  BY <1>0, <1>1, NothingAwaited DEF Inv, ListInv
<1> QED BY <1>0, <1>1, <1>2, <1>3, ReportTyped, MainKeeps

(* Only the interface changes, while nothing is captured.                   *)
LEMMA RecoverStep ==
  ASSUME Inv, Recover, UNCHANGED <<host, program>>
  PROVE  Inv'
<1>0. /\ agent.pc = "recover" /\ agent.tasks = << >> /\ UNCHANGED <<report, cap, scratch, files, cuts>>
      /\ \E pc \in {"flush", "poll"} : agent' = [agent EXCEPT !.pc = pc]
      /\ faults \in 0..MaxFaults /\ faults' \in 0..MaxFaults /\ (faults' = 0 => faults = 0)
  BY OutsideGroups, Bounds DEF Recover, At, Works, Fails, Inv, TypeOK, CaptureTypeOK
<1>1. /\ agent' \in [pc : Pcs, at : Nat \X (Nat \ {0}), tasks : Seq(Commands), failed : BOOLEAN,
                     artifacts : SUBSET (Names \X Commands), run : 0..MaxRuns]
      /\ agent'.pc \in {"flush", "poll"} /\ agent'.tasks = << >> /\ agent'.artifacts = agent.artifacts
  BY <1>0, AgentTyped DEF Pcs
<1>2. /\ radio' \in [type : {"managed", "monitor"}, vif : Commands \union {Nobody}, linked : BOOLEAN]
      /\ leaky' \in BOOLEAN
      /\ \/ radio'.type = radio.type /\ radio'.vif = radio.vif /\ leaky' = leaky
         \/ radio'.type = "managed" /\ radio'.vif = Nobody
  <2>1. /\ radio \in [type : {"managed", "monitor"}, vif : Commands \union {Nobody}, linked : BOOLEAN]
        /\ leaky \in BOOLEAN
    BY DEF Inv, TypeOK, CaptureTypeOK
  <2>2. \/ /\ \E linked \in BOOLEAN : radio' = [radio EXCEPT !.linked = linked]
           /\ leaky' = leaky
        \/ radio' = [type |-> "managed", vif |-> Nobody, linked |-> TRUE] /\ leaky' = FALSE
    BY DEF Recover
  <2>3. CASE /\ \E linked \in BOOLEAN : radio' = [radio EXCEPT !.linked = linked]
             /\ leaky' = leaky
    BY <2>1, <2>3
  <2>4. CASE radio' = [type |-> "managed", vif |-> Nobody, linked |-> TRUE] /\ leaky' = FALSE
    BY <2>4
  <2> QED BY <2>2, <2>3, <2>4
<1>3. PlaceInv' /\ ThreadsInv' /\ FreshInv' /\ ReportInv'
  BY <1>0, <1>1, NothingAwaited DEF Inv, PlaceInv, ThreadsInv, Active, FreshInv, InGroups, ReportInv
<1>4. ListInv'
  BY <1>0, <1>1, NothingAwaited DEF Inv, ListInv
<1>5. RadioInv'
  <2>1. RadioHeld => RadioHeld'
    BY <1>0, <1>2 DEF RadioHeld, VifHeld, Holding
  <2>2. radio'.type = "managed" /\ radio'.vif = Nobody => RadioHeld'
    BY DEF RadioHeld
  <2> QED BY <1>2, <2>1, <2>2 DEF Inv, RadioInv
<1>6. CutsInv' /\ NamesInv' /\ FilesInv' /\ AloneInv'
  BY <1>0 DEF Inv, CutsInv, NamesInv, FilesInv, AloneInv, Rivals, PlainName, StampedName
<1>7. TypeOK'
  BY <1>0, <1>1, <1>2 DEF Inv, TypeOK, CaptureTypeOK
<1> QED BY <1>3, <1>4, <1>5, <1>6, <1>7 DEF Inv

LEMMA AssociateStep ==
  ASSUME Inv, Associate, UNCHANGED <<host, program>>
  PROVE  Inv'
<1>0. /\ UNCHANGED <<agent, report, cap, scratch, files, faults, cuts, leaky>>
      /\ radio' = [radio EXCEPT !.linked = TRUE]
      /\ radio \in [type : {"managed", "monitor"}, vif : Commands \union {Nobody}, linked : BOOLEAN]
  BY DEF Associate, Inv, TypeOK, CaptureTypeOK
<1>1. radio' \in [type : {"managed", "monitor"}, vif : Commands \union {Nobody}, linked : BOOLEAN]
      /\ radio'.type = radio.type /\ radio'.vif = radio.vif
  BY <1>0
<1>2. TypeOK'
  BY <1>0, <1>1 DEF Inv, TypeOK, CaptureTypeOK
<1>3. RadioInv'
  BY <1>0, <1>1 DEF Inv, RadioInv, RadioHeld, VifHeld, Holding
<1>4. PlaceInv' /\ ThreadsInv' /\ FreshInv' /\ ReportInv' /\ ListInv'
  BY <1>0 DEF Inv, PlaceInv, Group, ThreadsInv, Active, Awaited, FreshInv, InGroups, Ahead, ReportInv, ListInv
<1>5. CutsInv' /\ NamesInv' /\ FilesInv' /\ AloneInv'
  BY <1>0 DEF Inv, CutsInv, NamesInv, FilesInv, AloneInv, Rivals, PlainName, StampedName
<1> QED BY <1>2, <1>3, <1>4, <1>5 DEF Inv

(* No capture at all: what speaks of captures holds.                        *)
LEMMA AllIdle ==
  ASSUME cap' = [c \in Commands |-> Idle]
  PROVE  /\ cap' \in [Commands -> Captures]
         /\ \A c \in Commands : (cap'[c].pc = "ended" <=> cap'[c].exit # "none") /\ cap'[c] = Idle
                                /\ ~cap'[c].listed
         /\ ThreadsInv' /\ FreshInv' /\ NamesInv' /\ FilesInv' /\ AloneInv'
<1>1. Idle \in Captures /\ Idle.pc = "idle" /\ ~Idle.listed /\ Idle.exit = "none"
  BY DEF Idle, Captures, Steps, Nobody, Commands
<1>2. \A c \in Commands : cap'[c] = Idle
  OBVIOUS
<1> QED BY <1>1, <1>2 DEF ThreadsInv, Active, FreshInv, NamesInv, FilesInv, AloneInv

LEMMA AgentAnew ==
  ASSUME NEW pc \in Pcs, NEW run \in 0..MaxRuns,
         agent' = [pc |-> pc, at |-> <<1, 1>>, tasks |-> << >>, failed |-> FALSE, artifacts |-> {}, run |-> run]
  PROVE  /\ agent' \in [pc : Pcs, at : Nat \X (Nat \ {0}), tasks : Seq(Commands), failed : BOOLEAN,
                        artifacts : SUBSET (Names \X Commands), run : 0..MaxRuns]
         /\ agent'.pc = pc /\ agent'.tasks = << >> /\ agent'.artifacts = {} /\ agent'.at[2] = 1
<1>1. <<1, 1>> \in Nat \X (Nat \ {0}) /\ << >> \in Seq(Commands) /\ {} \in SUBSET (Names \X Commands)
  OBVIOUS
<1> QED BY <1>1

LEMMA CrashStep ==
  ASSUME Inv, Crash, UNCHANGED <<host, program>>
  PROVE  Inv'
<1>0. /\ agent' = [Polling EXCEPT !.run = agent.run] /\ cap' = [c \in Commands |-> Idle]
      /\ report' = NoReport /\ UNCHANGED <<radio, scratch, files, cuts>>
      /\ faults' \in 0..MaxFaults
      /\ leaky' = (leaky \/ \E c \in Commands : Active(c))
  BY Bounds DEF Crash, Works, Fails, Inv, TypeOK, CaptureTypeOK
<1>1. /\ agent' \in [pc : Pcs, at : Nat \X (Nat \ {0}), tasks : Seq(Commands), failed : BOOLEAN,
                     artifacts : SUBSET (Names \X Commands), run : 0..MaxRuns]
      /\ agent'.pc = "poll" /\ agent'.tasks = << >> /\ agent'.artifacts = {}
  <2>1. "poll" \in Pcs /\ agent.run \in 0..MaxRuns
    BY AgentTyped DEF Pcs
  <2>2. agent' = [pc |-> "poll", at |-> <<1, 1>>, tasks |-> << >>, failed |-> FALSE, artifacts |-> {},
                  run |-> agent.run]
    BY <1>0 DEF Polling
  <2> QED BY <2>1, <2>2, AgentAnew
<1>2. PlaceInv' /\ ReportInv'
  BY <1>0, <1>1 DEF PlaceInv, ReportInv
<1>3. ListInv'
  BY <1>0, <1>1, AllIdle DEF ListInv
<1>4. leaky \in BOOLEAN /\ leaky' \in BOOLEAN
  BY <1>0 DEF Inv, TypeOK, CaptureTypeOK
<1>5. RadioInv'
  <2> SUFFICES ASSUME ~leaky, \A c \in Commands : ~Active(c) PROVE RadioHeld'
    BY <1>0, <1>4 DEF RadioInv
  <2>1. radio.type # "monitor" /\ radio.vif = Nobody
    BY DEF Inv, RadioInv, RadioHeld, VifHeld, Holding, Active, TypeOK, CaptureTypeOK
  <2> QED BY <1>0, <2>1 DEF RadioHeld
<1>6. TypeOK'
  <2>1. report' \in [status : {"none", "OK", "FAILED"}, artifacts : SUBSET (Names \X Commands)]
    BY <1>0 DEF NoReport
  <2> QED BY <1>0, <1>1, <1>4, <2>1, AllIdle DEF Inv, TypeOK, CaptureTypeOK
<1>7. CutsInv'
  BY <1>0 DEF Inv, CutsInv
<1> QED BY <1>0, <1>2, <1>3, <1>5, <1>6, <1>7, AllIdle DEF Inv

LEMMA BeginStep ==
  ASSUME Inv, Begin, UNCHANGED <<host, program>>
  PROVE  Inv'
<1>0. /\ agent.pc = "poll" /\ agent.run < MaxRuns
      /\ agent' = [Polling EXCEPT !.pc = "group", !.run = agent.run + 1]
      /\ report' = NoReport /\ cap' = [c \in Commands |-> Idle] /\ files' = << >> /\ cuts' = {}
      /\ UNCHANGED <<radio, scratch, faults, leaky>>
  BY DEF Begin, At
<1>1. /\ agent' \in [pc : Pcs, at : Nat \X (Nat \ {0}), tasks : Seq(Commands), failed : BOOLEAN,
                     artifacts : SUBSET (Names \X Commands), run : 0..MaxRuns]
      /\ agent'.pc = "group" /\ agent'.tasks = << >> /\ agent'.artifacts = {}
      /\ agent'.at[2] = 1
  <2>1. "group" \in Pcs /\ agent.run + 1 \in 0..MaxRuns
    BY <1>0, AgentTyped, Bounds DEF Pcs
  <2>2. agent' = [pc |-> "group", at |-> <<1, 1>>, tasks |-> << >>, failed |-> FALSE, artifacts |-> {},
                  run |-> agent.run + 1]
    BY <1>0 DEF Polling
  <2> QED BY <2>1, <2>2, AgentAnew
<1>2. PlaceInv' /\ ReportInv' /\ CutsInv'
  BY <1>0, <1>1 DEF PlaceInv, ReportInv, CutsInv
<1>3. ListInv'
  BY <1>0, <1>1, AllIdle DEF ListInv
<1>4. RadioInv'
  <2> SUFFICES ASSUME ~leaky PROVE RadioHeld'
    BY <1>0 DEF RadioInv
  <2>1. radio.type # "monitor" /\ radio.vif = Nobody
    BY <1>0, OutsideGroups, NothingAwaited
       DEF Inv, RadioInv, RadioHeld, VifHeld, Holding, Active, TypeOK, CaptureTypeOK
  <2> QED BY <1>0, <2>1 DEF RadioHeld
<1>5. TypeOK'
  <2>1. report' \in [status : {"none", "OK", "FAILED"}, artifacts : SUBSET (Names \X Commands)]
    BY <1>0 DEF NoReport
  <2>2. files' \in [DOMAIN files' -> Commands] /\ DOMAIN files' \subseteq Names
    BY <1>0
  <2> QED BY <1>0, <1>1, <2>1, <2>2, AllIdle DEF Inv, TypeOK, CaptureTypeOK
<1> QED BY <1>0, <1>2, <1>3, <1>4, <1>5, AllIdle DEF Inv

-------------------------------------------------------------------------------
(* The theorems.                                                            *)

LEMMA InvInit ==
  ASSUME Init
  PROVE  Inv
<1>0. /\ host \in Hosts /\ radio = [type |-> "managed", vif |-> Nobody, linked |-> host.single]
      /\ cap = [c \in Commands |-> Idle]
      /\ scratch = {} /\ files = << >> /\ faults = 0 /\ cuts = {} /\ leaky = FALSE
      /\ program \in Programs /\ agent = Polling /\ report = NoReport
  BY DEF Init, CaptureInit
<1>1. Idle \in Captures /\ Idle.pc = "idle" /\ ~Idle.listed /\ Idle.exit = "none"
  BY DEF Idle, Captures, Steps, Nobody, Commands
<1>2. \A c \in Commands : cap[c] = Idle
  BY <1>0
<1>3. TypeOK
  <2>1. host \in HostType /\ host.single \in BOOLEAN
    BY <1>0, CaptureAssumption DEF HostType
  <2>2. CaptureTypeOK
    <3>1. radio \in [type : {"managed", "monitor"}, vif : Commands \union {Nobody}, linked : BOOLEAN]
      BY <1>0, <2>1
    <3>2. cap \in [Commands -> Captures] /\ \A c \in Commands : cap[c].pc = "ended" <=> cap[c].exit # "none"
      BY <1>0, <1>1, <1>2
    <3>3. scratch \subseteq Commands /\ faults \in 0..MaxFaults /\ cuts \subseteq Commands \X Commands
          /\ leaky \in BOOLEAN
      <4>1. scratch = {} /\ faults = 0 /\ cuts = {} /\ leaky = FALSE
        BY <1>0
      <4>2. scratch \subseteq Commands /\ cuts \subseteq Commands \X Commands
        BY ONLY <4>1, Zenon
      <4>3. leaky \in BOOLEAN
        BY ONLY <4>1, Zenon
      <4>4. faults \in 0..MaxFaults
        BY ONLY <4>1, Bounds
      <4> QED BY <4>2, <4>3, <4>4
    <3> QED BY Zenon, <2>1, <3>1, <3>2, <3>3 DEF CaptureTypeOK
  <2>3. agent \in [pc : Pcs, at : Nat \X (Nat \ {0}), tasks : Seq(Commands), failed : BOOLEAN,
                   artifacts : SUBSET (Names \X Commands), run : 0..MaxRuns]
    <3>1. <<1, 1>> \in Nat \X (Nat \ {0}) /\ << >> \in Seq(Commands) /\ "poll" \in Pcs
      BY DEF Pcs
    <3> QED BY <1>0, <3>1, Bounds DEF Polling
  <2>4. report \in [status : {"none", "OK", "FAILED"}, artifacts : SUBSET (Names \X Commands)]
    BY <1>0 DEF NoReport
  <2>5. files \in [DOMAIN files -> Commands] /\ DOMAIN files \subseteq Names
    BY <1>0
  <2> QED BY <1>0, <2>2, <2>3, <2>4, <2>5 DEF TypeOK
<1>4. agent.pc = "poll" /\ agent.tasks = << >> /\ agent.artifacts = {}
  BY <1>0 DEF Polling
<1>5. PlaceInv /\ FreshInv /\ ReportInv
  BY <1>0, <1>4 DEF PlaceInv, FreshInv, InGroups, ReportInv
<1>6. ThreadsInv /\ NamesInv /\ FilesInv /\ AloneInv /\ ListInv
  BY <1>1, <1>2, <1>4 DEF ThreadsInv, Active, NamesInv, FilesInv, AloneInv, ListInv
<1>7. RadioInv /\ CutsInv
  BY <1>0 DEF RadioInv, RadioHeld, CutsInv
<1> QED BY <1>3, <1>5, <1>6, <1>7 DEF Inv

LEMMA InvStutter ==
  ASSUME Inv, UNCHANGED vars
  PROVE  Inv'
<1>1. /\ UNCHANGED <<host, program, report, captureVars, agent, cap>>
  BY DEF vars, captureVars
<1>2. PlaceInv' /\ ThreadsInv' /\ FreshInv' /\ ReportInv' /\ ListInv'
  BY <1>1 DEF Inv, PlaceInv, Group, ThreadsInv, Active, Awaited, FreshInv, InGroups, Ahead, ReportInv, ListInv
<1> QED BY <1>1, <1>2, AgentTyped, ReportTyped, MainKeeps

LEMMA InvStep ==
  ASSUME Inv, [Next]_vars
  PROVE  Inv'
<1>1. CASE UNCHANGED vars
  BY <1>1, InvStutter
<1>2. CASE Step /\ UNCHANGED <<host, program>>
  <2>1. CASE \E c \in Commands : CaptureStep(c) /\ UNCHANGED <<agent, report>>
    BY <1>2, <2>1, CaptureKeeps
  <2>2. CASE MainStep
    BY <1>2, <2>2, BeginStep, EnterGroupStep, ShellStep, StartThreadStep, StartScanStep, EndScanStep,
       JoinStep, JoinedStep, PersistStep, RecoverStep, FlushStep DEF MainStep
  <2> QED BY <1>2, <2>1, <2>2, AssociateStep, CrashStep DEF Step
<1> QED BY <1>1, <1>2 DEF Next

(* Wherever the run, its captures and the control plane stand, Inv holds.   *)
THEOREM Invariance == Spec => []Inv
<1>1. Init => Inv
  BY InvInit
<1>2. Inv /\ [Next]_vars => Inv'
  BY InvStep
<1> QED BY <1>1, <1>2, PTL DEF Spec

(* Every variable of the agent, its captures and its interface has its type *)
(* (main and the collectors of agent_v2).                                   *)
THEOREM TypeCorrect == Spec => []TypeOK
<1>1. Inv => TypeOK
  BY DEF Inv
<1> QED BY <1>1, Invariance, PTL

LEMMA InvRadio == ASSUME Inv PROVE RadioInTurn
<1>1. \A p \in cuts : p[1][1] = p[2][1]
  BY DEF Inv, CutsInv
<1>2. (\A c \in Commands : ~Active(c)) /\ ~leaky => radio.type = "managed" /\ radio.vif = Nobody
  BY DEF Inv, RadioInv, RadioHeld, VifHeld, Holding, Active, TypeOK, CaptureTypeOK
<1> QED BY <1>1, <1>2 DEF RadioInTurn

(* On every device and under every policy a capture is only disturbed by    *)
(* those of its own group, and the interface is left as it was found: each  *)
(* thing taken from it has a capture that will give it back                 *)
(* (create_monitor_vif, stop_capture, delete_monitor_vif).                  *)
THEOREM InterfaceIsGivenBack == Spec => []RadioInTurn
<1>1. Inv => RadioInTurn
  BY InvRadio
<1> QED BY <1>1, Invariance, PTL

LEMMA InvReport == ASSUME Inv PROVE ReportMatchesSpool
<1> SUFFICES ASSUME report # NoReport
             PROVE  /\ \A c \in Commands : ~Active(c)
                    /\ \A a \in report.artifacts :
                         a[1] \in DOMAIN files /\ files[a[1]] \in {a[2]} \union Rivals(a[2])
                    /\ \A c \in Commands :
                         cap[c].exit = "ok" /\ Rivals(c) = {} /\ faults = 0 =>
                           \E a \in report.artifacts : a[2] = c /\ files[a[1]] = c
  BY DEF ReportMatchesSpool
<1>1. agent.pc \in {"recover", "flush", "poll"} /\ report.artifacts = agent.artifacts
  BY DEF Inv, ReportInv
<1>2. /\ \A c \in Commands : ~Active(c)
      /\ \A c \in Commands : cap[c].listed /\ cap[c].pc = "ended" => <<cap[c].name, c>> \in agent.artifacts
  BY <1>1, OutsideGroups, NothingAwaited
<1>3. \A a \in report.artifacts : a[1] \in DOMAIN files /\ files[a[1]] \in {a[2]} \union Rivals(a[2])
  BY <1>1, AgentTyped DEF Inv, ListInv, FilesInv
<1>4. ASSUME NEW c \in Commands, cap[c].exit = "ok", Rivals(c) = {}, faults = 0
      PROVE  \E a \in report.artifacts : a[2] = c /\ files[a[1]] = c
  <2>1. cap[c].listed /\ cap[c].pc = "ended"
    BY <1>4 DEF Inv, AloneInv, TypeOK, CaptureTypeOK
  <2>2. <<cap[c].name, c>> \in report.artifacts
    BY <1>1, <1>2, <2>1
  <2>3. files[cap[c].name] = c
    BY <1>4, <2>1 DEF Inv, FilesInv
  <2> QED BY <2>2, <2>3
<1> QED BY <1>2, <1>3, <1>4

(* A report is only persisted once every thread of the run has ended, it    *)
(* lists nothing that is not on disk, and without a rival or a failure it   *)
(* leaves no capture that ended well out (main, persist_report,             *)
(* import_file_artifact).                                                   *)
THEOREM ReportsMatchTheSpool == Spec => []ReportMatchesSpool
<1>1. Inv => ReportMatchesSpool
  BY InvReport
<1> QED BY <1>1, Invariance, PTL
===============================================================================
