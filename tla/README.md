# Monad fleet: TLA+ models, checks and proofs

This directory holds a formal model of the two programs of the repository: the
**fleet service** (`src/src/fleet-service/monad_fleet_service`), a gRPC server
that turns the reports of measurement devices into records of an eLabFTW
notebook, and the **device agent** (`src/src/device-sim/agent_v2`), which runs
experiments on a device, keeps their results in a spool on disk and hands them
to the service. Every definition of a module names, in `PROJECT.json` under
`map`, the lines of the source it models. TLC checks small instances of the
models; TLAPS proves some of the same statements for every instance.

    tlc -workers 2 -config DeliveryFaults.cfg MCReportDelivery.tla
    tlapm ReportDeliveryProofs.tla

## 1. The system

| Part | State | Operations | Talks to |
| --- | --- | --- | --- |
| `LocalState` (server `core.py`) | `seen_events`, `seen_reports`, `run_event_ids`, run artifacts; a lock; `state.json` rewritten on every change | `has_event`, `mark_event`, `has_report`, `mark_report`, `set_run_event_id`, `_load` at start | every server thread |
| artifact store (server `core.py` 201-728) | spool directory, `artifact_upload_journal.jsonl` | store, upload raw, bundle, finalize | eLabFTW |
| v1 servicer (`servicer_v1.py`) | cached device items | `Hello`, `GetPolicy`, `PublishEvent`; the event pipeline `_ingest_v1_event` | `LocalState`, eLabFTW |
| v2/v3 servicer (`servicer_v2.py`) | device runtime state, prepared policies | `Hello`, `GetPolicy`, `Report*Status`, `AckPrepared`, `UploadArtifact`, `PublishReport`, `PublishEvents` | v1 pipeline, artifact store |
| eLabFTW client (`core.py`) | none of its own; HTTP | create/patch/get items and events, uploads | eLabFTW (external) |
| HTTP sidecar, server main | metrics | metrics, health, artifact route | artifact store |
| Grafana provisioning | dashboards in Grafana | find or create | Grafana (external) |
| `RunStore` (agent `core.py`) | `pending/`, `sent/`, `failed/`, one directory per run; `execution_index.json` | `start_run`, `persist_report`, `load_report`, `mark_sent`, `quarantine_pending_run`, `prune_sent`, index updates | disk |
| report flush (agent `sinks.py`) | none | `flush_pending_reports`, confirmation retries, artifact transfer | service |
| agent main loop (`main.py`) | current policy, upload gates | poll, prepare, execute, flush | all of the above |
| upload window, slot gate (agent `core.py` 217-380) | none: functions of time | | main loop |
| command execution (`main.py`) | capture threads, failures | run commands in order, asynchronous groups, FAIL_FAST | collectors |
| control plane, single radio (`main.py`) | network interface | restart, recover | the system's tools |
| collectors, capture, BLE, exposition | processes | parse tool output | the radio |

**How they interact.** The agent says Hello, polls `GetPolicy`, acknowledges,
measures, and writes `report.json` into `pending/<run>`. When the upload gates
allow it, `flush_pending_reports` walks over `pending/`: it uploads the run's
artifacts, then calls `PublishReport`; on `ACCEPTED` or `DUPLICATE` the
directory moves to `sent/`. The service feeds each event of the report through
the v1 pipeline, which merges it into the run's event in eLabFTW with a GET and
a PATCH. Ten gRPC worker threads share `LocalState` under a lock that covers
single table operations, never a whole request.

**What is hard.** No lock spans a request: the dedupe check and the mark are
several HTTP calls apart, and the read and the write of a run event as well.
A client that timed out repeats a call the server is still working on. Both
programs crash and restart from files that are written at particular points.
eLabFTW fails, or does the work and loses the answer. Parts of a report fail
while others stay. Policies are selected by one window, measured in another and
reported in a third, and the agent keeps the body of one policy and the id of
another. Captures of a group run in threads that share one network interface,
one directory of scratch files and one directory of artifacts, and on a device
with a single radio that interface is also the way to the service. `PROJECT.json` lists each hazard at its line, with the
properties aimed at it.

## 2. Plan

Order: first what must not be lost, then what decides whether anything is done,
then the doing itself.

| | Modules | Question | State |
| --- | --- | --- | --- |
| 1 | `EventIngest` over `EventLedger`, fed by `StatusEvents` | the pipeline every event goes through | checked, proved |
| 2 | `ReportDelivery` over `RunCustody` | a report from the agent's disk to the service and back, using the pipeline only through what `EventLedger` says | checked, proved |
| 3 | `ArtifactTransfer` | spool, staging, finalization | checked, proved |
| 4 | `ExecutionIndex` | how often a policy is executed | checked, proved |
| 5 | `DeviceState` | first contact, item cache, patches that overtake each other, `AckPrepared` | checked, proved |
| 6 | `UploadWindow` | windows, slots and jitter | checked, proved |
| 7 | `PolicyCycle` over `PolicySelection` and `UploadWindow` | which policy a device gets, executes and reports when | checked, proved |
| 8 | `RunExecution` over `MonitorCapture` | groups, threads, the radio they share, recovery | checked, proved |

Every invariant and every action property that a passing run checks is a theorem,
and both refinements are. What the plan has left: lemmas about `StatusEvents` (its
assumptions are evaluated by TLC for the instance of the `Ingest` runs only).

## 3. The modules

**`EventIngest`** has one worker thread per `Handlers`. A thread's program
counter names the step of `_ingest_v1_event` it is at: `check` (has_event),
`lookup`, `create`, `bind` (`_ensure_run_event`), `get`, `patch`
(`_update_run_event`), then the two marks and the answer. Steps of different
threads interleave wherever the code makes an HTTP call or takes the lock anew.
Creating a run event takes up to four POSTs (`NextPosts`): two formats of the dates,
each also with the metadata as a string; each may be carried out although it fails.
`seen` and `runs` are the tables of `LocalState`, `disk` is `state.json`, `elab`
the run events in eLabFTW. An HTTP call may fail with or without effect, the
metadata PATCH may be refused (the code ignores that), eLabFTW may hand out metadata
that the code cannot use and replaces by none (`Bare`), a save may fail after the
table in memory changed, the service may restart. **`EventLedger`** is what the
callers of the pipeline may rely on: a growing set of recorded events, and a
positive answer only for a recorded one.

**`StatusEvents`** says which events those are: what the agent records of a run and
what it reports live, and what `Report*Status`, `PublishReport` and `PublishEvents`
make of it. An id is the sequence of its parts, because ids decide what is a
duplicate; the digest that stands in for a missing id is left out. The events
of the `Ingest` runs are built from it, and two assumptions that TLC evaluates
before it starts compare its parts: what is reported live of a command and what the
report of the run says of it are one event (`ReportConfirmsStatus`), and which
artifacts leave a run FAILED (`FirstAttemptCounts`).

**`ReportDelivery`** is the agent's flush, the network and `PublishReport`.
`spool` is the directory a run lies in, `agent` the flush, `call` the calls the
server is working on (`Slots`; a call outlives a client that gave up), `reports`
and `saved` the table `seen_reports` in memory and on disk, `recorded` the ledger.
Of `mark_sent` it has the move of the directory; the context and the execution index,
which are written after it, are in `ExecutionIndex`, with the crash in between. An
upload of artifacts that fails defers the report or not, by the configuration: both
are outcomes of `UploadArtifacts`.
**`RunCustody`** is the promise: a run is being measured, in the agent's custody,
handed over with all of its events recorded, or put aside; it never comes back.

**`ArtifactTransfer`** is one run's artifacts: `local` and `report` on the agent,
`agent` its loop over the artifacts (the summary last), `call` the transfers on
the server, `data` and `meta` the two files a staged artifact consists of,
`journal` the upload journal, `copies` and `archived` what eLabFTW holds. An
artifact is a model value; what tells artifacts apart is whether they go into the
bundle (`Texts`), alone (`Raws`), are the summary, or are too large. Whether the
agent bundles on the server, evicts local files and has a file above the size
limit is a `setting` chosen once per behaviour. Two stores of one artifact that
overlap use one temporary file, which the first renames away from the second
(`StoreCollides`); that a finalization reads a data file in the moment it is
rewritten with the same bytes is left out.

**`ExecutionIndex`** is one policy's record in `execution-index.json`, the
directories of its runs, the loop of `main` reduced to what reads or writes the
record, and a clock. Each `mark_execution_state` is a step of its own, after the
step that changes the disk, because the agent may stop in between. The order in
which a flush takes the pending runs (by the age of their reports) is left open. The
`policy` (once, or recurring with an interval and `max_runs`) is chosen at the
start.

**`DeviceState`** is the item of one device. A `thread` is an RPC handler or a
thread it started: `find` and `create` are `_get_or_create_device_item`, `read`
is a write that fetches the item itself, `patch` the PATCH of the first of its
writes `todo`, made from the item as `known`. A document consists of what the
writes tell apart: the presence (the descriptor of a Hello), the runtime state,
one detail per kind of RPC, and the resource status. eLabFTW returns metadata as
the JSON text the service sent, so a snapshot shares nothing with the item. The
cache keeps one snapshot until it expires, at any time; `caching` is chosen once
per behaviour. Status ids are taken to be known (team 1 or the configured map),
and RPCs to carry the arguments they require.

**`UploadWindow`** is arithmetic: `active_upload_cfg`, the slot of a device in it,
the jitter, and the answers of the gate. A slot may begin between two units of
time, so its bounds are counted in units of 1/slots, exactly, where the code rounds
to microseconds. The slot comes from a hash of the agent's name, the jitter from one
of its name and the beginning of the window: two numbers per device, the second any
number as far as the code can tell.

**`PolicySelection`** is the server's choice: the scan of the experiments (the
newest first, which is eLabFTW's order), the window a policy is selected by, the
three buckets, the order of the candidates, and the window that is sent with the
policy, which is not the same. A policy that is missing, unparsable or meant for
another device is `NoPolicy`. An end of an upload window that the agent cannot read
(`unread`) keeps the value it had in the agent's own configuration. **`PolicyCycle`** puts it to work. `policyOf` is what
researchers wrote into the experiments and may change, `agent` the loop of `main`
with `last` (`last_policy_id`), `cached` (`cached_policy`) and `cfg` (the upload
window in force), `index` the execution index, `spool` the finished runs. Server
and agent read one clock. A run ends and its record is completed in one step
(`ExecutionIndex` takes the writes apart and counts `max_runs`), a report is
delivered in one (`ReportDelivery` takes that apart).

**`MonitorCapture`** is the network interface and the captures that borrow it: one
action per command of the system's tools, in as many threads as the group has
captures. `radio` says whether the interface is managed, whose virtual monitor
interface exists, and whether it is associated; `scratch` and `files` are the
names under `/tmp` and in the run's directory, which captures look up before they
write. `down`, `set type` and `up` are one step, and so are `down` and `del` of a
virtual interface; what they leave when one of them fails is an outcome of the step.
Every release may fail, the ones after a failed `up` and a failed spawn included
(`NotReleased`). `cuts` and `leaky` are history: who took the interface from whom, and
whether something failed before it was given back. **`RunExecution`** is the main thread around it: `EnterGroup`, the
commands, `FAIL_FAST`, the joins, `persist_report`, the recovery of a single radio
(attempts and fallbacks as one step; the reboot it asks for may be refused, and the
agent goes on to the flush) and the flush. A capture has one artifact;
the advertiser is a capture without interface. Command logs, the summary, the
soft limit, uploads while measuring, merged texts and channel hopping are left
out. (A thread that hops channels may outlive its join by a timeout of two seconds
and append to a list that was already written: no step of the model.)

The `MC` modules name the instances for TLC. In every module the alternatives
marked as mutants are used by nothing in the model: each is a plausible mistake
in the definition after it, and shows that a property can fail.

## 4. What TLC checks

| Run | States | Shows |
| --- | ---: | --- |
| `ingest_faults` | 2,094,700 | two threads, three deliveries among a finished command and the failed end of one run and an artifact of another, room for two dedupe entries and for two entries in the history of a run event, any two faults of every kind: run events are not mixed, and unless threads overlap not split, counted twice or downgraded; unless eLabFTW refused a PATCH or lost the metadata, what is acknowledged is reflected; a marked event is settled; `EventLedger` is implemented |
| `delivery_faults` | 424,740 | two runs, two calls at once, any three faults: `DeliveryInv` and `SentIsRecorded`; handed over is remembered across restarts while no write failed; booked once unless calls overlap; `RunCustody` is implemented; a finished run is delivered or put aside once faults stop |
| `transfer_faults` | 628,083 | with bundling, and without it with a file above the size limit; a text, a raw file, the summary, two transfers at once, any three faults: no artifact lost, published means the server holds everything, a finalization has what was staged, no second copy except the bundle, a finished run is published once faults stop |
| `index_faults` | 4,436,206 | a policy executed once, and a recurring one with an interval and at most two runs; every fault, two crashes: the record is never ahead of the disk; runs above the limit are paid for by crashes, one each; `completed_runs` misses one run per crash at most; the interval is kept |
| `device_faults` | 2,901,174 | three RPCs of any kind on two threads, with and without cache, any two faults: a second item needs two threads that missed the first together; old snapshots need the cache or an overlap; without them the status follows the state and no detail is lost; an accepted preparation stays accepted |
| `policy_cycle` | 493,319 | two experiments that hold a recurring policy, one executed once, or an undated one whose upload window has an unreadable beginning, a change by a researcher, a restart: what is executed is what was selected in the same cycle; a dated policy is completed once; a report keeps to its own window while its policy is in hand; spooled reports leave in the end. The slots of small windows are compared with their definition before it starts |
| `run_faults` | 1,659,168 | two captures at once, a capture beside an advertiser and another after it, a capture beside a scan and a group without commands; six kinds of device, two runs, any two faults: captures of different groups do not disturb each other, the interface is given back, a report lists what is on disk and is written after the last thread |

Some properties of `EventIngest` hold unless a fault of a certain kind happened
(`Without`), or were not claimed of runs two threads worked on at once
(`Serial`): the two history variables `faults` and `overlapped` tell. That keeps
every fault in one state space instead of one configuration per property.
`leaky` and `cuts` of `MonitorCapture`, `excused` of `ArtifactTransfer` and `lagging` of
`DeviceState` are of that kind too. For the same reason a
setting of the code (`caching`, `setting`, `policy`, `host`, `program`) is a variable
chosen at the start and never changed, and a run covers all its values.

**Bounds.** Two deliveries, calls or transfers at once are what an overlap needs;
a third adds no new pair of steps (`device_faults` has three RPCs, so that two can
overlap and the third see what they left). Three faults allow a fault in a retry of a
retry; two runs or events let one succeed and the other fail. `ExecutionIndex`
has three runs so that a repetition of a repetition is possible, and a clock that
passes its window. `PolicyCycle` has a clock of five units, in which the range of one
policy, the groups of the other and their upload windows open and close at
different moments, and two runs, so that a policy can be repeated or give way to
the other. `RunExecution` has two runs because a run inherits the interface and the
scratch files of the one before, and groups of at most three commands, because
two threads and the main thread are all that the code lets meet. Counters are bounded by `MaxFaults`, `MaxCalls`, `MaxCount`
(saturating, above every value the rules compare it with). `Handlers` and event
ids are symmetric in the `Ingest` runs, which check no liveness.

**Deadlock** is checked for `ReportDelivery` and `ExecutionIndex`, whose agents
loop for ever. `EventIngest` stops when its bounded deliveries are used up, and
`ArtifactTransfer` when the run is published or was interrupted before its
report, `DeviceState` when its RPCs are used up, `PolicyCycle` when its clock has
stopped and nothing is selected or spooled any more. `RunExecution` really stops
when its runs are used up, or earlier when a single radio was left a monitor:
such a device is offline until somebody reboots it. Those runs say
`CHECK_DEADLOCK FALSE`.

**Fairness.** `FairSpec` of `ReportDelivery` and `ArtifactTransfer` assumes that the
agent's only thread goes on (and is restarted, as its service unit does), that
the server works on a call it has received, and that clients give up on calls
(they carry deadlines). `FairSpec` of `PolicyCycle` assumes that the agent cycles
and time passes, and, strongly, that a flush which is let through again and again
succeeds some time: single flushes may fail without end otherwise. Nothing is assumed of faults, whose number is bounded:
the liveness results read "once the faults stop".

## 5. What is proved

Each proof module is checked by `tlapm` for every value of the constants, under the
one assumption named in the module it extends: any runs, events, artifacts, threads,
call slots, policies, windows, and any number of faults.

**The delivery** (`ReportDeliveryProofs`, `ReportBookingProofs`).

* `TypeCorrect`: `Spec => []TypeOK`.
* `DeliveryCorrect`: `Spec => []DeliveryInv`. `DeliveryInv` is inductive together
  with `TypeOK`: it says, for each place a positive answer can be on its way (the
  table of reports, its saved copy, a call that has not yet rejected, an answer at
  the agent, a directory about to be moved), that all events of that run are
  recorded. Without those intermediate places the claim about `sent` is not
  inductive: the step that moves the directory knows only the answer.
* `SentRunsAreRecorded`: `Spec => []SentIsRecorded`, from `DeliveryInv`.
* `DeliveryImplementsCustody`: `Spec => ImplementsCustody`; initial states map to
  initial states, each step to a step of `RunCustody` or a stutter, one lemma per
  action.
* `SentRunsAreRemembered`: `Spec => []SentIsRemembered`. While no write failed the
  table and its saved copy agree (`MemoryInv`), so a restart forgets nothing, and
  each positive answer on its way is about a saved run.
* `RunsAreBookedOnce`: `Spec => []BookedOnceInTurn`. A call past the check is about
  a run the table does not know, unless another call for that run was in progress
  meanwhile (`BookInv`); so the second booking needs an overlap.

**The pipeline** (`EventIngestProofs`).

* `TypeCorrect` and `RunsAreSeparate` from `Inv`: a run event in the tables or in a
  thread's hands is of the run whose events it collects, in eLabFTW as well as in
  the copy between GET and PATCH (`OwnEvents`), and its history is never longer than
  `MaxEventHistory`. A restart, which reads the table back, meets the same condition
  because `state.json` satisfies it too.
* `NoSerialDowngrade`: of a run whose deliveries never overlapped one thread is at
  work (`OneWorker`), so that what it read is still there when it writes
  (`FreshSnapshot`), unless eLabFTW returned no usable metadata, which the code takes
  for a run event without status; that the merge never takes back a severity is a
  lemma about the two lists of statuses in the code. `ingest_downgrade` shows that the condition is
  needed.
* `OneRunEventIsActive`: while no save failed the table equals its file, and it
  knows the only run event that has events (`ActiveInv`); a lost answer to a POST
  leaves one behind that never gets any.
* `IngestImplementsLedger` and `SettledStays`, from `LedgerInv`: a thread past the
  mark works on an event that is in `state.json`, expired, or its save failed.
* `AckedEventsAreReflected`: every event that is acknowledged, marked in memory or
  on disk, or about to be (`Known`), shows in a run event, and what shows stays:
  another event pushes it out only when the history is full, and never takes back
  the severity it brought. It supposes that no PATCH failed and that the metadata read
  were those written.
* `EventsAreCountedOnce`: an event stands at one place of one run event at most, and
  while it does it is marked, or the thread that added it is about to mark it; a
  thread on its way to add it means that it stands nowhere (`CountedInv`).

**The artifacts** (`ArtifactTransferProofs`): `TypeCorrect`, `ArtifactsAreKept`,
`PublishedRunsAreHeld`, `FinalizationsAreComplete`, `ItemsAreUploadedOnce`. What the
server holds (staged with both files, or in eLabFTW) only grows, and a call is
honest: past the step that stored its artifact the server holds it, and with the
summary it answers only after the finalization. `AwaitInv` carries that over the
network to an agent whose call may have ended long ago; `AgentInv` says what the
loop makes of it: what the agent evicts or believes transferred is held, and a flush
that has met no failure has only left behind what is. `RowsInv` is about a
finalization under way: each artifact it listed is in eLabFTW or still ahead of it.
`OnceInv` is what the journal is good for: unless an upload was interrupted or two
finalizations met, one is under way, an item it posts is not in the journal, and
each copy is in the journal or about to be.

**The record of a policy** (`ExecutionIndexProofs`): `TypeCorrect`,
`RecordNeverAhead`, `IntervalIsKept`, `ExtraRunsNeedCrashes`,
`CountMissesNothingElse`. `DiskInv` says, for each step of the agent, where the run
it works on lies; the record alone does not tell. `TimeInv`: runs are started in
turn as 1..n, and `last_completed_at` is not before the end of any run that was
counted, which is all the interval needs, however late the mark was written.
`CountInv` balances the books: runs started are at most those counted, the crashes,
and one under way; an execution left in progress stands for a crash that nothing
else is charged for.

**The slots** (`PolicyCycleProofs`): `SlotsAreProper` and `SlotsTakeTurns`, from
lemmas on division (`Division`, `Remainder`), on products (`TimesMonotone`), on the
jitter (`JitterFits`) and on the order of the edges (`EdgesInOrder`).

**The cycle** (`PolicyCycleProofs`): `SelectedPoliciesAreRun`, `OnceMeansOnce`,
`WindowsAreKept`, `TypeCorrect`, `OneCandidateIsSelected`. `CycleInv`: every body
anywhere (cached, in hand, in the record, in a report) is genuine, that is, if its
policy is dated its window is the one the server computes at any time; so an old
body and a new offer of the same revision are the same, and so are two keys of the
record. A finished run of a policy executed once is recorded completed under its
key, which bars it from starting again. `UploadInv`: the upload window in force is
that of the policy in hand. `TypeCorrect` needs that the window over all groups of a
design has bounds (`FirstAndLast`): the groups are a list in the code, hence
finitely many, which is the assumption about `Designs`.

`OneCandidateIsSelected` is about the server's side: whatever the experiments and
their designs, the order of the candidates is total and goes one way
(`BeforeIsAnOrder`), so that one is selected wherever there are any, and none of a
more urgent bucket is passed over.

**The device item** (`DeviceStateProofs`).

* `OneItemPerDevice`. `CreateInv`: unless two threads missed the item together, at
  most one is about to create it, and only while there is none.
* `TypeCorrect` and `OldSnapshotsAreExplained` from `Inv`. `AloneInv`: without a
  cache and without overlap one thread is at work, and what it knows of the item it
  is about to write is what the item holds. For that a thread must not write twice
  from one snapshot unless the first write leaves the runtime state alone
  (`TodoInv`), and an item that is not created yet must be empty (`NewItemsInv`): a
  failed answer may have created one that nobody has read.
* `StatusIsOfTheState` and `DetailsStay`: while nothing old was written, each PATCH
  is made of the newest document (`DetailsInv`), so that its status belongs to its
  runtime state and the details are those left by the writes before.
* `AcceptedIsNotRefused`: unless a save failed, memory and disk agree on the
  preparations, and those accepted are among them (`PreparedInv`), which is what a
  restart reads.

**The run** (`RunExecutionProofs`): `TypeCorrect`, `InterfaceIsGivenBack`,
`ReportsMatchTheSpool`, from one inductive invariant in named parts. `ThreadsInv`:
nothing runs that the main thread does not wait for or has on its list of tasks, and
those tasks are of the group it is in (`PlaceInv`); a command it has yet to come to
has left no trace (`FreshInv`). Therefore what one capture takes from another stays
within a group (`CutsInv`). `RadioInv`: as long as nothing leaked, a monitor
interface or a virtual one belongs to a capture that will give it back. `NamesInv`,
`FilesInv`, `AloneInv`: whose name a scratch file and an artifact bear, and that
without a rival and a failure the file is there until it is imported. `ListInv` and
`ReportInv` carry that into the report.

Finite induction. The bounds of a finite set (the windows of a design, the times of
the marks) need induction over finite sets, and the library's induction theorems
take an operator as a parameter. The proofs use that proper inclusion among the
finite subsets of a set is well-founded (`FS_StrictSubsetOrderingWellFounded`) and
look for a smallest counterexample (`WFMin`).

Only model-checked: all liveness (`FinishedIsDelivered`, `FinishedIsPublished`,
`SpoolDrains`), which is beyond TLAPS, and the comparisons of algorithms with their
definitions on small inputs that TLC evaluates as assumptions before a run.

## 6. Where code and documents disagree

Each is a run that TLC ends with a counterexample; `PROJECT.json` quotes the text.

* `ingest_downgrade`: two threads merge the status of a run event from the same
  read; the later write undoes a worse status.
* `transfer_early`: the summary finalizes a run although an earlier artifact
  failed; that one is staged later and never reaches eLabFTW.
* `index_count`: every flush that changes a report counts its run again, so
  `max_runs` is reached after fewer runs.
* `device_hello`: Hello's thread writes the agent's descriptor into the item, and
  then takes it away with a second document made from the same snapshot.
* `policy_starved`: an OK answer replaces the agent's one cached body, but the
  id it polls with only moves when a run ends. When the newer policy expires,
  the server answers NOT_MODIFIED for the older, whose body is gone: the agent
  sleeps as if there were no work, in every cycle, until the policy is over or
  the process restarts.

Met on the way, visible in the models and without a run of their own:

* Two deliveries of one event that overlap are both counted (`Serial` in
  `SerialCountedOnce`); a confirmation retry sent while the first call is still
  served books a run twice (`overlapped` in `BookedOnceInTurn`).
* A run whose artifact was transferred only at the second attempt stays FAILED in
  eLabFTW although its report, which the service's README calls the authoritative
  run close-out, says COMPLETED: the first attempt was reported live
  as an error, and a status is never taken back (`FirstAttemptCounts`). The live
  status and the report give one artifact two ids, so that it is counted twice.
* With bundling an artifact above the size limit defers its report for ever
  (the agent that bundles has no such file in `transfer_faults`).
* A run started after its window is completed without having executed a group,
  and an interrupted run is only repeated after its window. A half-open range is
  sent as an empty window at the present, which the agent executes at once, as
  such an empty run.
* The two threads of one GetPolicy undo each other's details, and one that answers
  from the cache undoes those of an AckPrepared or a report in between (`lagging`
  in `DeviceState`).
* The technical report says that the newest modified valid policy wins; the code
  orders by bucket, start and number, and the time of the change never decides
  (`Before`).
* Left-over reports are sent at start-up and when there is no work whatever window
  their policy requires, while the technical report drains the spool while the
  window remains open; `OwnWindowRespected` therefore speaks of the policy in hand.
* Comments in `wifi5g_capture.py` promise that the parent interface stays managed
  while it is associated; when the virtual interface cannot be created, also
  because another capture of the group has it, the code goes on and changes the
  type of the parent (`Add`, `Change`).
* The exit codes of captures in threads are not looked at, so that the run is OK
  (`Join`); captures of one kind that begin in the same second share a scratch
  file (`TmpNames`).
* A single radio is recovered after a run only, and the recovery never makes the
  interface managed: after a crash during a capture the device stays offline
  unless it may reboot (`leaky` in `RadioInTurn`).

## 7. Not modelled

The list of `components` gives the reason for each part. eLabFTW, gRPC, the tools
of the system and the operating system appear as the environment of the models, as
the code uses them. What is left of the two programs holds no protocol state or
computes text from text: parsers of radio tools and of metrics, the wording of
documents and logs, dashboards, command-line generators of policies, the legacy
simulator, the generated stubs, the interface for old agents (v1 Hello and
GetPolicy), the HTTP sidecar, whose upload route leads to the same `upload_raw` as
the RPC, transfers of the agent straight to eLabFTW, and the restart of a second
interface before a report.

More than half of the repository's lines, the notebooks, analyse recorded data; the
scripts provision machines or serve tools to an editor. They run from top to
bottom, share no state with the two programs and have no behaviour that an
interleaving or a fault would change, so that a model of them could only repeat
them line by line. The share of all lines that the models cover stays small for
that reason; of the files that carry the protocol, the models cover what
changes state.
