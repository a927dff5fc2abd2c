# Fluence in TLA+

Fluence is a Kubernetes scheduler plugin that places pods, alone or in gangs, by
matching them against a Fluxion resource graph, with an admission webhook and a
Python sidecar that coordinate quantum gangs. These modules model what it does
to shared state, call by call, and state what that is worth: TLC checks the
statements on small instances, TLAPS proves some of them for every instance.

## 1. The system

| component | code | state it keeps | operations |
|---|---|---|---|
| scheduler plugin | `pkg/fluence/fluence.go` | `placement` (group → nodes, backend, jobids), `excludedNodes`, two mutexes | PreFilter, matchGroup, Filter, PostFilter, Reserve, PreBindPreFlight, PreBind, cancelGroup |
| PodGroup reconciler | same file | none of its own; reads the API and informer caches | onPodUpdated, onPodDeleted, reconcileGroup, the 60 s sweep |
| Fluxion wrapper | `pkg/graph` | the matcher behind cgo: what each jobid holds | MatchAllocateSpec, Cancel (UpdateAllocate and Satisfy are not called by the scheduler) |
| placement | `pkg/placement`, `pkg/jobspec` | none | pods → jobspecs; R → nodes and backend |
| resource graph | `pkg/cluster`, `pkg/jgf` | none after start-up | nodes and `resources.yaml` → JGF |
| admission webhook | `pkg/webhook` | PodGroups and their annotations, through the API | dispatch, EnsurePodGroup, RecordAdmission, Admit, Capacity |
| handlers | `pkg/webhook/handlers` | none | gang, fluxion, quantum (scout election, worker gate), dependency, sidecar injection |
| sidecar | `python/fluence/sidecar.py`, `ungate.py` | its phase; marker files | discover the task, poll, ungate the workers, hold |
| interceptor, handoff, providers | `python/fluence/*` | `task.json`, `scout-exited`, `workers-done`; the vendor session | publish, wait, release |
| device plugin | `pkg/deviceplugin` | a fixed device list | advertise |
| entry points, staging | `cmd/*`, `stage.py` | none | start-up |

How they meet. The webhook creates a gang's PodGroup and gates its workers; the
scheduler matches the group once, remembers the placement in memory and writes
the jobids on the owning object (PodGroup, or the pod itself when ungrouped);
informer callbacks cancel the allocations when that object completes or is
deleted; the sidecar reads the backend the scheduler stamped and lifts the
workers' gates. Shared state is the API objects, Fluxion and the two maps.

What is hard in it, and what makes each part correct:

* *Scheduler plugin.* One scheduling goroutine, a binding goroutine per pod and
  an informer goroutine per resource interleave at every lock and API call; owners
  disappear mid-match; names are used again; a restart empties graph and maps
  while annotations survive. Correct means: allocations are all or nothing and
  exclusive, nothing is leaked, nothing is freed that belongs to another group,
  every running pod stands on its group's allocation, a rejected group is steered
  off incompatible nodes for good and off busy ones never, and everything is
  eventually placed and eventually freed.
* *Reconciler.* Reads the PodGroup live and its members from a cache, then
  deletes. Correct means: no gang is reaped under a running member, no user's
  PodGroup is touched, every finished gang is reaped even when events are lost.
* *Admission.* Check and record are separate requests. Correct means: promises
  never exceed what is reachable, one scout per gang.
* *Coordination.* Two processes and a vendor queue communicate by marker files
  with time-outs. Correct means: workers start only with a task to use, a session
  outlives its workers, nobody waits for ever.
* *Placement and resource tree.* Pure; correct means the jobspecs ask for what the
  pods ask for, and every class is reachable from the root.

`PROJECT.json` lists each component with its status and every hazard at its line.

## 2. Modules

| module | models | with |
|---|---|---|
| FluencePlugin | the scheduler plugin, goroutine by goroutine | GroupGrants, the abstract promise it implements |
| Reconciler | the PodGroup reconciler over a lagging informer cache | |
| Admission | the webhook's API calls, request by request: admission control, scout election, PodGroups | |
| Coordination | the scout, its sidecar, the vendor's queue and the gated workers | |
| ResourceGraph, Placement | pure: configuration to graph; pods to jobspecs, allocation to placement | Translation, which chains them with Fluxion between |
| PodPatch | what the webhook's handlers make of one pod, as a JSON patch | |

Each has an MC module (`MC<name>`) with the instances TLC checks, and the first
four, Translation and PodPatch have theorems (`<name>...Proofs`, section 9); FluencePluginInvariants holds the
inductive invariants of FluencePlugin's, SumTheorems what is proved about counting and sums. The modules meet in the objects
one leaves for the next: Translation's placement is what FluencePlugin caches;
Admission's PodGroups are what Reconciler reaps; PodPatch's annotations, gates and
volumes are what Coordination runs on. Reconciler composes the webhook's
creation of a PodGroup with its reaping, Admission composes reaping with
admission, and FluencePlugin has the reconciler and the ungate as single actions.

## 3. FluencePlugin

| variable | code |
|---|---|
| `job`, `nextJob` | Fluxion: what each jobid holds (external) |
| `memo`, `excluded` | `Fluence.placement`, `Fluence.excludedNodes` |
| `cycle` | locals of the scheduling goroutine: where it is (`pc`), its pod, the listed members' number and device wish, the exclusions it read, what it matched so far |
| `bind[p]` | locals of p's binding goroutine: node, whether PreBind is skipped, the jobids PreBind read |
| `pod[p]` | the pod object: phase, node, backend annotation |
| `owner[g]` | the owning object: existence, jobid annotation |
| `events`, `handler` | the undelivered informer events per resource and the locals of the `cancelGroup` that handles one |
| `spent` | how much of each bound is used up |

A step is what the code does between two points where another goroutine can
run: a critical section of `mu` or `matcherMu`, or one API call.

* PreFilter is `PreFilterCached`, or `PreFilterMiss` → `ListGroupPods` →
  `BuildJobspecs` → `MatchCompute` → `MatchDevice` → `StorePlacement`; `MatchFails` and
  `ParseFails` lead to the rollback loop `CancelJobid`.
* Filter and what the framework makes of its verdicts are `FilterPass` and
  `FilterReject`; `PostFilter` drops the placement under the lock, then cancels.
* `Reserve` (`ReserveFails`) stamps the backend; then the binding goroutine runs
  `PreBindPreFlight`, waits for `PermitAllow`, and runs `PreBind`, `RecordJobIDs`,
  `PreBindStamp` (`PreBindFails`) and `Bind`.
* `cancelGroup` is `CancelGroupRead`, one `CancelGroupCancel` per jobid, and
  `CancelGroupDrop`.
* `Finish`, `DeletePod`, `RemovePodGroup` are the API changes whose events reach the
  handlers; `ReconcileGroup` deletes a completed gang's PodGroup; `Restart` is `New`.

Abstractions. A slot stands for what one pod of a compute jobspec occupies
(gang members are alike, as computeJobspec assumes), a backend for one virtual
node; one device type. `Incompat[p]` is the set of nodes another plugin answers
`UnschedulableAndUnresolvable` for; a node full for the moment is `MaxBusy`.
groupPods sees pods as they are (its cache may lag in the code). Fluxion never
fails to cancel a jobid it knows. The event of a deletion carries the annotation the
object had. A name is used again only when no cycle or binding of its old
pods is in flight. `GroupReject` says whether the framework drops the waiting
members of a gang when one of them fails. `Permit` and binding belong to
Kubernetes and are modelled from how the plugin relies on them. `ReconcileGroup`
keeps only rule 3 of the code, that every member is terminal or gone: all PodGroups
here are Fluence's, none is a scout's, and its reads are fresh.

**GroupGrants** is the promise without jobids, goroutines or annotations: a group is
granted everything in one step, on resources nobody else is granted, and gives
up everything in one step. The refinement mapping reads a group's grant off its
cached placement as long as Fluxion holds every jobid of it; the first cancel
of a teardown or PostFilter withdraws it whole.

### Runs

All use two groups at most, three pods, two nodes, three slots and one backend;
MCFluencePlugin says who tolerates which node. That is the least with a
gang beside a lone pod, a node each of them rejects and contention for slots and
device. The systems may stop (everything finished, or a bound used up), so
deadlock is not an error.

| run | question | distinct states |
|---|---|---|
| PluginLifecycle | Through contention, rejection, re-match and teardown, is everything Fluxion holds accounted for, does no re-match return to an excluded node, and does every live pod stand on its group's allocation with a backend that is its group's? | 191 k |
| PluginTeardown | With owners and pods deleted at any moment and a name used again, can a teardown free somebody else's allocation, or leave a reusable placement unbacked? Are grants whole (GroupGrants)? | 600 k |
| PluginProgress | Is every pending pod eventually bound? | 217 k |
| PluginRestart | With a restart at any point, is what a finished group held eventually free, and nothing of its name remembered? | 124 k |

`MaxJobs` is the number of allocations of one scheduler life; the bounds of the
passing runs leave room for each group to be matched, rejected and matched
again. It also bounds liveness: `PluginProgress` and `PluginRestart` have
enough jobids (10) that no behaviour runs out of them.

The run **RestartDoubleBook** is the finding in PROJECT.json: after a restart nothing
replays the held allocations, and a backend a pod uses is granted again.

More disagreements show when a property of the module is added to a run, or the
constants of a run are changed; no run is kept for them.

* `DeletedOwnerHoldsNothing` fails with `EarlyDelete = TRUE`: an owner deleted during
  its match has its delete handled before the placement is stored (fluence.go:324),
  and the allocation is never freed.
* `AnnotationIsTruth` fails with failing patches, or with a minCount below the size
  of the gang: a PreBind that read its jobids before PostFilter dropped the
  placement records them after the re-match recorded its own (fluence.go:630);
  the gang then runs with an annotation that names none of what it holds, and its
  teardown leaks it. Where gangs pass Permit whole and no patch fails it is proved
  (section 9).
* `MembersHaveSlots` fails with a gated member: once ungated after its group's match
  it is never matched (fluence.go:293) and runs without a slot.
* With a restart (`MaxRestarts = 1`) `NoForeignReference` fails, and `MemoHeld` with it: a
  jobid annotation from before names a new group's allocation, and the teardown
  frees it, if Fluxion numbers jobs from the start again in a fresh context.
* With owners deleted at any moment `ReusedNameStartsClean` fails: a group deleted
  after PostFilter dropped its placement keeps its exclusions, because cancelGroup
  returns early (fluence.go:914-916), and the next group of that name starts
  with them.

### Bounds of the claims

`BoundOnAllocation` and `BoundSeesHeldBackend` hold with `EarlyDelete = FALSE`
(owners outlive their running pods, as PodGroups created by the webhook do),
without failing patches, and with a framework that rejects the whole gang;
with a user who deletes a PodGroup under running pods they cannot hold, and with
`GroupReject = FALSE` a member that waits at Permit keeps the stamp of an allocation
PostFilter cancelled for another, and is bound with it. `HeldAccounted` fails once
patches may fail: the annotation of an earlier match is preferred by cancelGroup
over the newer placement. It also fails where names are used again
(`MaxRecreates = 1`), where owners go early, and where the minCount of a gang is
below its size. These are the hypotheses of the theorems about them; TLC finds a
counterexample for each that is dropped:

| | owners go early, patches fail, names recur, or minCount below the gang | a restart | `GroupReject = FALSE` | a gated member |
|---|---|---|---|---|
| `HeldAccounted` | fails | proved | proved | proved |
| `BoundSeesHeldBackend` | not claimed | fails | fails (two backends) | proved |
| `BoundOnAllocation` | not claimed | fails | fails | fails |

### Fairness

`FairSpec` assumes weak fairness of what goroutines do once they can (the
scheduling cycle, binding, cancelGroup, Permit), of running pods that complete, of
the sidecar's ungate, and of the reconciler, which runs every 60 s whatever
happens (runReconcileSweeps). Starting a cycle for a given pod is strongly fair: the
scheduling queue pops pods in turn, and the goroutine is again and again idle.
Nothing is assumed of users, faults, contention or restarts.

## 4. Reconciler

| variable | code |
|---|---|
| `pg[g]` | the PodGroup object: existence, ownership annotation, whether it has jobids, UID |
| `aged` | the incarnations older than `reconcileGraceForEmpty` |
| `pod`, `cache` | the pod objects, and the pod informer's copy of them |
| `notes`, `deletions` | pod notifications and PodGroup deletions not handled yet |
| `rec[r]` | locals of `reconcileGroup` in the pod handler's goroutine and in the sweep's |
| `held` | the groups whose allocation Fluxion holds (the detail is FluencePlugin's) |
| `spent` | how much of each bound is used up |

`HandlePod` (onPodUpdated, onPodDeleted) and `Sweep` (reconcileAll) call
reconcileGroup, which is `GetPodGroup` → `ListMembers` → `DeletePodGroup` →
`DeleteScout`, one API call or look at the cache each; `ReconcileError` is any early
return on an error. `Completed` is the decision (rules 2 and 3). `Admit` is the
webhook, which ensures the PodGroup before the API server stores the pod
(`Store`), so that a gap exists in which a PodGroup has no member. `Deliver` brings
the cache up to date and queues the notification the handlers filter for;
`FreeGroup` is onPodGroupDeleted.

Abstractions. `Permit` and `Start` stand for the scheduling that FluencePlugin
details: waiting members pass together once there are `MinCount` of them, and
PreBind needs the PodGroup to write on. `Age` lets the two minutes pass only once the
cache has every pod of the first submission: the grace period is taken to be
long enough for that, which is what rule 2 relies on. Users delete pods
(`EarlyDelete`), never PodGroups. Every group but a scout's has at most one scout
group, as the suffix rule gives. A sweep's list of groups comes from a cache, so any
group may be tried. `Successors` are the pods of a later job with the same name.

| run | question | distinct states |
|---|---|---|
| ReconcileSafety | A gated gang of two with its scout, pods deleted at any moment, a failing API call, both goroutines at every point: is a PodGroup deleted with a live worker, or an allocation freed from under a running one? | 2.7 M |
| ReconcileProgress | With a missed event and a failed call, does the gang come to run, is everything of it released when it is over, and is the user's PodGroup next to it left alone? | 53 k |

A second member is the least for rule 3 to matter, and two goroutines are all
there are. A missed event only takes a call away, so ReconcileSafety needs none.
A scout's group is left out of the two safety properties there, because the code
breaks them for it.

Four disagreements show with another property or other constants; no run is
kept for them.

* `ScoutsBacked` fails: the workers' reconcile deletes `<group>-scout` and frees its
  allocation while the scout still runs (fluence.go:841), which is the usual order,
  since the scout's sidecar holds until it has seen the workers finish.
* With `gs` among the `UserGroups`, `UserGroupsUntouched` fails: the deletion of
  `<group>-scout` (fluence.go:841) does not look at the ownership annotation.
* With a successor (a second pod in `Successors`, `MinCount` 1), `LiveMemberKeepsGang`
  fails: a member the cache has not received does not keep its gang alive
  (fluence.go:777).
* With the same constants `DeletesWhatItJudged` fails: both goroutines judge the same
  completed gang, the second delete hits the PodGroup of the next job of that
  name (fluence.go:822).

Fairness (`FairSpec`). A job's pods are all created, stored, ungated and run to
completion; informers deliver; goroutines go on. `Sweep(g)` is strongly fair
because reconcileAll loops over every group and the sweep's goroutine is again
and again idle. Pod notifications may be missed, so the handler alone would not do.

## 5. Admission

| variable | code |
|---|---|
| `req[p]` | locals of the request that handles p: where MutateOrDeny is, the size it resolved, the role it chose, what its Capacity has listed |
| `pod[p]`, `pg[x]` | the pod objects; the PodGroups of each gang, its own and the scout's, with `minCount` and the admission record |
| `running` | classical pods that run; those in `High` cannot be preempted |
| `overlapped`, `faults` | history: requests interleaved, calls failed |

A request is `Arrive` → `ResolveSize` → `GroupAdmitted` → `ListPods` → `Admit` (the
checks), then `ResolveSize` again → `EnsureGang` → `ReadRecord` → `PatchRecord` →
`Elect` → `EnsureScout` or `EnsureGang` → `GangHandler` → `Answer`; a step is one API
call, which may fail, and requests run concurrently. `Reading` is one list of the
pods, `Reachable` and `Promised` are Capacity's arithmetic on it. `LoseAnswer` and
`TimeOut` (failurePolicy Ignore) are the two ways an answer is not used. The
scheduler, the kubelet and users are `Bind`, `Finish` and `Delete`; `Reap` is
reconcileGroup.

Abstractions. One resource, cores; the nodes are their sum. EnsurePodGroup's Get and
Create are one step, since a Create that loses the race changes nothing. `Reap`
takes a group without pods only when one of its pods was deleted before, or all of
them have been answered: the grace period is taken to be longer than the gap
between a gang's creations. A standalone pod's record is an annotation of the
stored pod. Pods that neither ask for a qpu nor have the label do not reach
either handler.

| run | question | distinct states |
|---|---|---|
| Admission | Two loose members of a gang and a lone pod, two requests at a time, one failing call: does what was admitted fit, is there one scout, is the PodGroup sized for the workers? | 399 k |
| AdmissionProgress | An indexed gang and a lone pod that do not fit together: is everybody admitted in the end? | 31 k |

Two members are the least gang; a lone pod of two cores beside them and four cores
make the capacity tight. A second in-flight request is the least for a race.

`RecordsWithinBudget`, `OneLiveScout` (for loose pods) and `GangSized` are claimed while
requests do not race and no call fails, and the history variables say exactly
what is excluded. `overlapped` is set when a request reads the capacity while another
holds a reading, when two members are between election and claim, and when a
group is reaped under a request of its own: the record such a request found is gone,
and it is written anew without a check. The races are in the code
(admission.go:74, quantum.go:317); the properties say that nothing else than
them goes wrong, over every arrival, finish and reap.

Fairness. Handlers run to their end; `Arrive` and `Bind` are strongly fair, as
controllers create refused pods again with back-off and the scheduling queue
retries; pods finish and are cleaned up (jobs with a TTL); `Reap` is strongly fair
because of the sweep.

Disagreements with the docs, with no run kept:

* A record's finished members leave the running count, so it counts as promised
  again until the pod is deleted or the group reaped (admission.go:162):
  `PromisedToUnstarted` fails, against admission.go:76 "already promised to pairs that
  have not started" and docs/quantum-scheduling.md:55.
* With `Reserve > 0`, `RecordsWithinBudget` fails: Free is clamped at zero
  (admission.go:167-170) and preemptible pods in the reserve count as reachable,
  against README.md:89.
* With a counted size it fails too: Admit and Mutate resolve the size one after
  the other (quantum.go:106, quantum.go:167), so a gang of one sharing pod and plain
  members that are created in between is judged by one core and recorded with more.
  The run's gang has an owner.
* The sidecar's 100m count as a core after injection (quantum.go:740,
  placement.go:160): a running pair is larger than its record.
* The gang handler takes a labelled worker, whose qpu request the quantum handler
  dropped. If the quantum handler's creation failed, or the group was reaped in
  between, it creates the PodGroup with the size of the whole gang (gang.go:48),
  and the workers wait for one pod more than there is.
* A standalone pod with a generateName has no name at admission, so nothing
  running is ever taken off its record.
* An elected scout whose creation is lost leaves the claim, and its gang without a
  scout; a member created after the reap is a scout again.

## 6. Coordination

| variable | code |
|---|---|
| `conf` | what the user asked for: gang, rehearsal or observe; the provider |
| `app`, `session` | the scout's application under the interceptor; its vendor session |
| `task` | the task in the vendor's queue (external) |
| `files` | the markers in the handoff volume: `task.json`, `scout-exited`, `workers-done` |
| `side` | locals of sidecar.py |
| `worker[w]` | worker pods: phase, gates, whether the job id and the session are on them |
| `faults`, `expired` | history: failures; the waits that timed out |

The sidecar is `Resolve` → `ReadRecord`/`ReadMarker`/`Search` (find_my_task, in the order
each provider looks) → `Poll`/`PollError` → `List` → `Annotate`, `RemoveGate` per worker →
`Hold` → `Mark`. The application is `Acquire` → `Submit` → `Publish` → `BeginRelease` →
`HoldEnds` → `Release` → `Exit`. Every wait has an action for its deadline; a call or
write may fail, and both processes may be killed.

Abstractions. Braket's regions are one search, its queue position is the state
`near`. Time is the nondeterministic deadline. Workers are bound together, as their
PodGroup asks. Services accept or refuse, no content is modelled.

Run **Coordination** (543 k states): all modes and providers, two workers of which one may
be created late or with a gate of its own, two failures, a limit of two poll errors.
Two workers are the least for a group that is partly done. `GangServed` is claimed of
QRMI gangs whose workers exist and carry only the quantum gate; the list below
says what happens to the others.

Fairness. Weak fairness of each process, the vendor's queue, controllers and clocks.
`DiscoveryExpires` is strongly fair: the deadline is looked at between steps of a loop.
Nothing is assumed of failures. The poll has no deadline, so that it ends rests on
the vendor's queue moving.

Disagreements, with no run kept:

* `NoHoldForNobody` fails: the sidecar that finds no task exits without the
  workers-done marker (sidecar.py:146-163), and the scout holds until its
  time-out.
* `OwnGateOnly` fails for a pod with a gate of its own: ungate.py:104 removes
  `schedulingGates/0` and dependency.go:119 appended ours, against
  docs/coordination-handler-design.md:139.
* For Braket `GiveUpOnlyWithoutTask` fails: the exit marker is looked at before the
  vendor is searched (braket.py:180), so a task of a scout that submitted and left
  is abandoned.
* A worker created after the first non-empty list (ungate.py:189), or whose gate patch
  failed (ungate.py:121), is never ungated.
* sidecar.py documents `FLUENCE_WORKER_TIMEOUT` with two defaults.

## 7. ResourceGraph, Placement, Translation

Pure operators, named after the code's functions. A configuration numbers its
resources in file order, a parent first, so that inheritance is a recursive function
on the index: `Merge`, `Resolved`, `Path`, `SubtreeClasses`, `VirtualProperties`, `Chunk`. A
property is the pair that ComposeProperty joins with "=". `JobspecsForGroup`
rounds, unions devices and collects constraints; `PlacementFromAllocation`
splits an allocation into nodes, backend and attributes. `Reaches` and `Ways` are
external: Fluxion applies a constraint to every node on the way down and prunes, and
lists the nodes on the way to what it grants from either end.

Translation chains them: load, build, ask, match, place. Any failure the code
returns an error for ends in `failed` or `refused`.

Run **Translation** (259 k states): every forest of up to three resources (depth three,
three wide), each with no, an inline, a cleared or a registered attribute, two
clusters with a cordoned or a control-plane node, groups of up to two pods out
of five kinds, and both directions in which the writer may list the path.
Three levels are the least at which "own", "parent" and "above" differ; one key
is enough because keys do not interact. Units of two stand for 1000 and 2^20: one of them
does not divide.

Disagreements, with no run kept:

* `OwnAttributeReaches` fails: an attribute a child sets, or changes, is not on its
  ancestors, so a constraint on it prunes them (resources.go:171-174 and
  resources_test.go:170-172 against resources.go:203-209).
* `UnknownRefused` fails for an empty configuration: the check is skipped when nothing
  is known (placement.go:366 against placement.go:323-325).
* `AdvertisedIsReached` fails for a tree under a physical node, whose vertex says
  `virtual=false` (resources_graph.go:154-156, README.md:40).
* Allocatable millicores are rounded up to cores (cluster.go:131); slots are sized
  by the first pod (placement.go:343), which `SlotHoldsPod` takes as given;
  `backend=` is among the attributes a pod reads back.

## 8. PodPatch

A document maps the fields of a pod and its containers to sets of entries. The
handlers run one after the other on a copy; `Both` changes the copy and emits the
operation, `Emit` only emits, as each helper of the code does. `work` has the copy and
what the patch so far makes of the submitted document (`Apply`), by the rules of JSON
Patch: `add` below a missing field, or `remove` of a missing entry, refuses the pod,
whatever comes after. `Store` is the API server's answer to the patch as a whole. A submitted
pod has no variable twice in a container and, as its group label, the group
resolveGroup reads off it (`SubmissionsAssumption`).

Run **PodPatch** (76 k states): annotations, labels, variables, volumes, gates and service
accounts missing, empty, filled by the user, or filled with a name the webhook
uses; the three roles; the default order of handlers, another and a subset.
Two containers are the least at which one has what the other lacks.

Disagreements, with no run kept:

* `SubmitterIntercepted` fails for a container with a PYTHONPATH of its own
  (quantum.go:645): its submission is not seen, against quantum.go:538-539 and
  docs/quantum-scheduling.md:53.
* A user's volume named like the handoff volume leaves the application without
  `FLUENCE_HANDOFF_DIR`; a user's `FLUENCE_COORDINATION_ROLE` is kept (quantum.go:438-446
  calls the webhook its single source of truth).
* With quantum before fluxion, workers get no FLUXION variables: the qpu request is
  gone from the copy. `RoleComplete` is claimed of the default order.
* `AnnotateOp` of the dependency does not change the copy, so on a pod without
  annotations each would replace the one before. It is safe because the annotations
  of admission are in the copy by then (`AdmittedSound`).
* A user's annotation of one of the webhook's own names is overwritten
  (`OwnAnnotations` in `NothingLost`).

## 9. Proofs

Every theorem is proved from the ASSUMEs of its module, which TLC evaluates on each
run, and from the hypotheses it states. What is assumed of the constants of
FluencePlugin is that pods and slots are finitely many, that the null values are no
pod, node, backend or group, and `LonePods`: a pod without a group is its own
owner, so it shares the group with nobody (groupKey).

### FluencePlugin

The strengthenings are in FluencePluginInvariants, one named part per fact. Each was
first an INVARIANT of a run.

`FluencePluginSafetyProofs` begins with `TypeCorrect`: `Spec => []TypeOK`, which is
inductive by itself, and goes on to what holds of jobids and exclusions.

* `ExclusionsRespected`: `Spec => []MemoAvoidsExcluded`, restarts included. By
  itself it is not inductive: between the match and the store nothing says
  that the placement in hand avoids the exclusions. `ExclusionInv` adds
  `MatchAvoidsExcluded`: the exclusions a match read still include the current
  ones (only PostFilter, the same goroutine, adds any), and what it has
  obtained avoids them.
* `CancelsOnlyItsOwn` and `PlacementsAreHeld`: with `MaxRestarts = 0`,
  `Spec => []NoForeignReference` and `Spec => []MemoHeld`. `ReferenceInv` adds
  that every jobid named anywhere was issued (`OldReferences`), that a group being
  matched has no cached placement (`SingleWriter`), and that what a match has in
  hand is held and named by nobody else (`MatchPrivate`). The argument follows
  the jobid: a match's number is new, so no record names it; until it is stored
  only the cycle has it; from then on only records of its group get it, each from
  another. `MaxRestarts = 0` is needed: a restart issues old numbers again, and
  section 3 gives the counterexample.

The module also proves `GrantsRefined`: with `MaxRestarts = 0` the plugin
implements GroupGrants under the mapping of section 3. `GrantInv` adds to
`ReferenceInv` that no two jobids hold the same slot or backend (`Exclusive`) and
that a group that is granted anything is granted slots (`GrantsSlots`; a group
without pods is not matched). Each action then either leaves every group's jobs and
their owners alone, stores a match (a Grant), or frees or drops for one group
(a ReleaseAll or, when the grant is already withdrawn, a stutter).

`FluencePluginTeardownProofs` proves `TeardownsComplete`: with `EarlyDelete = FALSE`,
`Spec => []TeardownComplete`, with any number of restarts, failing patches and
reused names. cancelGroup returns early when it finds no jobid, so what has to be
shown is that a group never has exclusions alone: `ExclusionAnchored` says that next
to them there is a jobid, in the annotation or the placement, or a member that has
yet to go through a match; `TeardownPending` that what a deleted owner has left
is about to be dropped by an event or a handler that will find a jobid.

The module also proves `AllocationsAccounted` (`HeldAccounted`),
`AnnotationsAreTruth` and `DeletedOwnersHoldNothing`, restarts included, for
deployments in which gangs pass Permit whole (`FullGangs`, every minCount covers its
gang, as the webhook's does), owners and pods outlive the work, names are not reused
and no patch fails. `AccountInv` rests on one observation: past Permit a gang is past
it as a whole (`GateWhole`), so while a member writes the annotation no member
can be rejected, and what PreBind read is still the placement (`RecordsMemo`).
Hence the annotation is the placement or a member is on its way to make it so
(`AnnotationCurrent`), teardowns come after the pods (`TeardownAfterPods`), and an
event carries all that the placement it will drop still holds (`TeardownCovers`).

It also proves what a running pod may rely on, for the same
deployments without a restart and with a framework that rejects a gang whole
(`GroupReject = TRUE`): `BoundOnHeldNodes`, `StampsAreHeld` (`BoundSeesHeldBackend`),
`BackendsNotShared` (`BackendNotDoubleBooked`, the property the restart refutes) and,
where no member is gated, `BoundWhereAllocated` (`BoundOnAllocation`). `GangInv`
follows the seat of a pod: from Reserve to its end it is on the placement its
group has now (`SeatsKept`), since the placement is only dropped while the whole
gang is before the gate, and then every waiting member is unreserved
(`GangTogether`). `PlacementsFit` says what a placement is worth: the nodes of its
slots, as many slots as the gang has members, and a backend once a member was told
to use one. TLC checked `GangInv` on the instance of PluginLifecycle, with no
gated member (191 k states) and with each member of the gang gated.

### The other components

`ReconcilerProofs` proves `ReconcilerTypeCorrect` and `UserGroupsSafe`: where no user's
PodGroup has the name of a scout's, `Spec => UserGroupsUntouched`. The property
speaks of the instant of the delete, the ownership annotation is read two calls
earlier; `OwnershipInv` bridges them: whatever a call past rule 1 works on is owned,
because ownership is never lost under a name, and every object that is not a
user's is owned, which covers the scout's. The assumption is needed
(section 4).

It also proves `WorkersKeepTheirs` and `MembersKeepTheirs`: `Spec => []WorkersBacked` and
`Spec => LiveMemberKeepsGang` under `WholeGangs`, that every `MinCount` covers the gang
(the webhook's does) and `Successors` is empty. The reconciler lists from a cache, so an
empty or finished list alone proves nothing. `MembersInv` says why it is right here:
the cache only lags (`CacheLags`); whatever makes the completion rule trust it, a
recorded allocation, an old PodGroup or a member seen as done (`Scheduled`), exists
only once the cache has every member, because the gate opens for the whole gang and
for members the cache shows as waiting; and what is marked for deletion, or was
deleted and not freed yet (`Ending`), has no member left, which no later step undoes.
Without them the property fails (section 4, a successor and `MinCount` 1).
`MembersInv` was checked with TLC in the instance of `ReconcileSafety`.

`AdmissionProofs` proves `TypeCorrect` and `OneScout`: `Spec => []OneLiveScout`, for any
number of pods, gangs and requests. `ClaimInv` follows the claim: an elected scout
that has passed `EnsureScout` has its PodGroup, or every request of the gang is
over; nobody elects itself while the group exists; the reconciler reaps it only
with the pods it was made for. For an indexed Job the argument is the index.

It also proves `GangsSized`: `Spec => []GangSized`, where the pods of a gang that
coordinates are all quantum pods that share and no annotation or owner gives a
size above their number (`TrueSizes`). `SizeInv` says why the order of the handlers
is enough: no request ever resolves a size above the number of workers, and none
reaches the gang handler, which would ask for the size of the whole, before the
PodGroup exists with the size of the workers; the reconciler takes the group away
only when no request of it is left. Both halves of `TrueSizes` are needed: with a
gang of a sharing and a plain pod, or with an owner that says three for two
pods, TLC finds a PodGroup that waits for too many.

Last, it proves that what was admitted fits at once, for any number of
gangs, pods, cores and requests. Its hypotheses are `FixedSizes` (no sharing member of a gang
is sized by a count, see section 5) and that the protected pods that run at first
fit on the nodes. `RecordsFit` bounds the records and the protected pods by
Allocatable whatever the reserve is; `RecordsBudgeted` is `Spec =>
[]RecordsWithinBudget` for `Reserve = 0`. The sum itself is far from inductive: it says
nothing of the request that has been judged and not recorded. `BudgetInv` has the steps
between:

* at most one request in flight holds a reading (`OneReader`), which is what
  `overlapped` excludes the contrary of;
* a reading that is about to be judged is not behind: the lone pods and the
  protected pods of now are in it, and what it counts as bound is on the nodes (`Fresh`).
  So what the code takes for running and promised is at least what is recorded and
  protected (`GangsCovered`, `AloneCovered`), although the two readings are two calls and
  pods finish between them;
* a request that was judged has room for all it asked for until its record or its
  pod is stored (`Room`), or it is let through by its gang's record, which is
  still there (`Vouched`): nobody else records anything, and what ends only gives room;
* the size it was judged by is the size it records (`Sized`).

TLC checked `BudgetInv` on the instance of the Admission run. The sums are the
community modules' fold. `SumTheorems` proves what is needed of them for every finite
set (removing, adding, joining, comparing, sums of parts), by an induction over
finite subsets that is stated with a set instead of an operator.

`CoordinationProofs` proves `TypeCorrect` and the four safety properties of the run for every
set of workers. `UngateInv` says what the sidecar knows at each program counter;
`SessionInv` that the application's hold, the marker and the sidecar's hold form a
chain from the session to the workers, which only an expired wait breaks;
`JobIdComesFirst` that the worker whose gate goes next has been annotated;
`GivesUpOnlyWithoutTask` that the exit marker is never written under a published
record, and that a record read as absent before a marker read as present was
absent for good.

`TranslationProofs` proves all six invariants of the Translation run, for any configuration,
cluster, group and units that `InputsAssumption` admits: a file lists parents before
children, and quantities are natural numbers. The run has trees three deep and three wide,
the theorems have any. Two recursions carry them. `Path` and `Resolved` are recursive along
the parent: `DescentExists` shows that such a recursion has a solution, `PathAt` and
`ResolvedAt` that theirs are the equations of the code, `PathFacts` that a path ends in
one top-level resource, and `PassedDown` that what nobody on the way sets is what the
device has. A pod's total is a sum, and `SumScaled` compares it with the sum of what was
rounded up. `TransInv` is the inductive invariant: it adds to `TypeOK` where jobspecs and
allocation come from, above all that a virtual vertex that was granted has
everything the group requires. It was checked with TLC on the instance of the run.

`PodPatchProofs` proves all four invariants of the PodPatch run, for every pod that
`SubmissionsAssumption` admits, any number of containers and, but for the last, every
sequence of handlers. That a patch applies is not inductive: it depends on
operations to come and on what they find in the copy, while they are applied to
another document. `Sound` says what the two must have in common:

* the fields that are changed in both (volumes, and variables, mounts and requests of
  the pod's own containers) are equal, so an operation built on the copy fits;
* the fields that are only emitted are in the copy as they were submitted, and a
  field the copy has is never missing in the document;
* no container has a variable twice, and what the user wrote is in the document
  unless it is excused.

Every helper keeps `Sound`, each by one of two lemmas (`SoundChange` for both,
`EmitSound` for the document only), and has a frame, `Grows`: it touches only the
fields it names and the user's lists only grow. A loop over the containers is a recursive
function; `LoopExists` shows that it has values, and each loop has a lemma
that its value is reached turn by turn (`InterceptLoop` and the like).
`TypeCorrect`, `PatchesApply` and `NothingIsLost` follow from the invariant
`PatchInv`, that the work is sound. `RolesComplete` (`Spec => []RoleComplete`) needs
more: `RoleInv` says after each handler of the default order what the pod has, and
the frames carry it to the end. Two facts make it true that no single handler shows: a pod
that submits is still seen to ask for a qpu by the gang handler, which leaves it alone,
and a worker is not (`Gated`), but is linked by it to the gang it is linked
to already.

### Model-checked only

All liveness properties (which rest on fairness and ENABLED). Every invariant and every
action property of the runs is stated by a theorem.

## 10. Not modelled

The device plugin (a fixed list over gRPC), entry points, certificates and HTTP,
staging and the recovery probe: pure I/O without a protocol. Jobspec and JGF
rendering: wording. The sidecar's service account and role (`ensureSidecarRBAC`) are got
or created once, and failures are logged. The regions of a Braket search, and how
the vendors' libraries are patched, are Python wiring.
