---------------------------- MODULE PolicySelection ----------------------------
(***************************************************************************)
(* Which policy the fleet service offers to a device, and the measurement   *)
(* window it sends along.  The two use different windows: an experiment is  *)
(* chosen by the range of its policy, and sent with reporting.measure_window*)
(* if there is one.                                                         *)
(*                                                                          *)
(* A design is what an experiment's metadata holds: range, measure: windows *)
(* [from, to]; groups: the windows of its command groups; reporting: is     *)
(* there such a part, and in it upload: the upload window; unread: its ends *)
(* that are given but are no dates; required, slots, jitter; recurring,     *)
(* interval: how often it is executed.                                      *)
(***************************************************************************)
EXTENDS UploadWindow, FiniteSets

CONSTANTS
  Experiments,   \* numbers of the experiments with the fleet tag
  Designs,       \* [name of a design -> design]
  MaxScan,       \* MAX_EXPERIMENTS_TO_SCAN
  SkipExpired    \* SKIP_EXPIRED_POLICIES

Window == [from : Nat, to : Nat]
Nowhere == [from |-> Missing, to |-> Missing]

DesignType ==
  [range : Window, measure : Window, groups : SUBSET Window, reporting : BOOLEAN, upload : Window,
   unread : SUBSET {"from", "to"}, required : BOOLEAN, slots : Nat \ {0}, jitter : Nat, recurring : BOOLEAN, interval : Nat]

(* The experiment has no policy, one that cannot be read, or one whose tags *)
(* or selectors leave the device or all of its commands out.                *)
NoPolicy == "none"

Names == DOMAIN Designs

ASSUME SelectionAssumption ==
  /\ Experiments \subseteq Nat \ {0} /\ IsFiniteSet(Experiments)
  /\ NoPolicy \notin Names
  /\ \A n \in Names : Designs[n] \in DesignType /\ IsFiniteSet(Designs[n].groups)
  /\ MaxScan \in Nat
  /\ SkipExpired \in BOOLEAN

Least(S) == CHOOSE x \in S : \A y \in S : x <= y
Greatest(S) == CHOOSE x \in S : \A y \in S : x >= y

Starts(d) == {w.from : w \in d.groups} \ {Missing}
Ends(d) == {w.to : w \in d.groups} \ {Missing}

(* The window by which a policy is selected: one end of the range is enough.*)
SelectionWindow(d) ==
  IF d.range # Nowhere THEN d.range
  ELSE [from |-> IF Starts(d) = {} THEN Missing ELSE Least(Starts(d)),
        to   |-> IF Ends(d) = {} THEN Missing ELSE Greatest(Ends(d))]

Expired(d, now) == SelectionWindow(d).to # Missing /\ now > SelectionWindow(d).to

Future(d, now) == SelectionWindow(d).from # Missing /\ now < SelectionWindow(d).from

Bucket(d, now) == IF Expired(d, now) THEN 0 ELSE IF Future(d, now) THEN 1 ELSE 2

(* The list of experiments is read up to MaxScan; eLabFTW lists the newest  *)
(* first.                                                                   *)
Scanned == {e \in Experiments : Cardinality({x \in Experiments : x > e}) < MaxScan}

Candidates(policyOf, now) ==
  {e \in Scanned :
     /\ policyOf[e] # NoPolicy
     /\ SkipExpired => ~Expired(Designs[policyOf[e]], now)}

(* Bucket, then start, then number; numbers differ, so that the time of the *)
(* last change never decides.                                               *)
Before(policyOf, now, e, x) ==
  LET d == Designs[policyOf[e]]
      c == Designs[policyOf[x]]
  IN \/ Bucket(d, now) > Bucket(c, now)
     \/ /\ Bucket(d, now) = Bucket(c, now)
        /\ \/ SelectionWindow(d).from > SelectionWindow(c).from
           \/ SelectionWindow(d).from = SelectionWindow(c).from /\ e > x

Selected(policyOf, now, e) ==
  /\ e \in Candidates(policyOf, now)
  /\ \A x \in Candidates(policyOf, now) \ {e} : Before(policyOf, now, e, x)

Both(w) == w.from # Missing /\ w.to # Missing

(* Mutant of MeasurementWindow: the windows of the groups are not used.     *)
MeasurementWindowOfPolicy(d, now) ==
  IF d.reporting /\ Both(d.measure) THEN d.measure
  ELSE IF Both(d.range) THEN d.range
  ELSE [from |-> now, to |-> now]

(* The window the device is sent; what is missing is the present.           *)
MeasurementWindow(d, now) ==
  IF d.reporting /\ Both(d.measure) THEN d.measure
  ELSE IF Both(d.range) THEN d.range
  ELSE [from |-> IF Starts(d) = {} THEN now ELSE Least(Starts(d)),
        to   |-> IF Ends(d) = {} THEN now ELSE Greatest(Ends(d))]

(* The policy determines its window, whenever it is sent.                   *)
Dated(d) ==
  \/ d.reporting /\ Both(d.measure)
  \/ Both(d.range)
  \/ Starts(d) # {} /\ Ends(d) # {}

(* The server sends an end of the upload window as it is given, or else     *)
(* that of the measurement; the agent keeps its own if it cannot read it.   *)
UploadFrom(base, d, w) ==
  IF "from" \in d.unread THEN base.from
  ELSE IF d.upload.from # Missing THEN d.upload.from ELSE w.from

UploadTo(base, d, w) ==
  IF "to" \in d.unread THEN base.to
  ELSE IF d.upload.to # Missing THEN d.upload.to ELSE w.to

(* Mutant of UploadConfig: the number of the last slot is taken for their   *)
(* count.                                                                   *)
UploadConfigLastSlot(base, d, w) ==
  IF ~d.reporting THEN base
  ELSE [from     |-> UploadFrom(base, d, w),
        to       |-> UploadTo(base, d, w),
        required |-> d.required,
        slots    |-> d.slots - 1,
        jitter   |-> d.jitter]

(* What the environment of the commands says of the upload, over the        *)
(* agent's own configuration.                                               *)
UploadConfig(base, d, w) ==
  IF ~d.reporting THEN base
  ELSE [from     |-> UploadFrom(base, d, w),
        to       |-> UploadTo(base, d, w),
        required |-> d.required,
        slots    |-> d.slots,
        jitter   |-> d.jitter]
===============================================================================
