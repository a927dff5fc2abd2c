--------------------------- MODULE FluencePlugin ---------------------------
(***************************************************************************)
(* The Fluence scheduler plugin (pkg/fluence/fluence.go) around one        *)
(* Fluxion resource graph: the scheduling goroutine that runs PreFilter,   *)
(* Filter, PostFilter and Reserve, one binding goroutine per pod that runs *)
(* PreBindPreFlight and PreBind, and the informer goroutines that run      *)
(* cancelGroup when an owning object completes or is deleted.              *)
(*                                                                         *)
(* A step is what the code does between two points where another goroutine *)
(* can run: one critical section of mu or matcherMu, or one API call.      *)
(***************************************************************************)
EXTENDS Naturals, FiniteSets, Sequences

CONSTANTS
  Groups,        (* group keys: a PodGroup's name, or an ungrouped pod's     *)
  Grouped,       (* the keys that are PodGroups; the rest own themselves     *)
  Pods,
  GroupOf,       (* Pods -> Groups, groupKey                                 *)
  Leaders,       (* pods that request a virtual device                       *)
  Gated,         (* pods created with a scheduling gate                      *)
  MinCount,      (* Groups -> Nat, the gang's minCount                       *)
  Nodes,
  Slots,         (* what one pod of a compute jobspec occupies               *)
  NodeOf,        (* Slots -> Nodes                                           *)
  Incompat,      (* Pods -> SUBSET Nodes another plugin rejects for good     *)
  Backends,      (* virtual nodes of the graph                               *)
  NoBackend, NoGroup, NoPod, NoNode,
  GroupReject,   (* the framework unreserves a gang when one member fails    *)
  EarlyDelete,   (* owners and pods may be deleted before they complete      *)
  MaxJobs,       (* bound: Fluxion allocations made in one scheduler life    *)
  MaxFaults,     (* bound: failed API patches and unparsable allocations     *)
  MaxBusy,       (* bound: cycles in which every permitted node is full      *)
  MaxRestarts,   (* bound: scheduler restarts                                *)
  MaxRecreates   (* bound: owners created again under a used name            *)

VARIABLES
  job,           (* Fluxion: what each jobid holds (external)                *)
  nextJob,       (* Fluxion: the next jobid (external)                       *)
  memo,          (* Fluence.placement                                        *)
  excluded,      (* Fluence.excludedNodes                                    *)
  cycle,         (* the scheduling goroutine's locals                        *)
  bind,          (* the binding goroutines' locals, one per pod              *)
  pod,           (* pod objects: phase, bound node, backend annotation       *)
  owner,         (* owning objects: existence and jobid annotation           *)
  events,        (* informer events not yet handled, oldest first            *)
  handler,       (* locals of cancelGroup in each informer goroutine         *)
  spent          (* how much of each bound is used up                        *)

vars == <<job, nextJob, memo, excluded, cycle, bind, pod, owner, events,
          handler, spent>>

JobIds    == 1 .. MaxJobs
Informers == {"pod", "podgroup"}
Members(g) == {p \in Pods : GroupOf[p] = g}

ASSUME ConstantsAssumption ==
  /\ Grouped \subseteq Groups
  /\ GroupOf \in [Pods -> Groups]
  /\ Leaders \subseteq Pods /\ Gated \subseteq Pods
  /\ IsFiniteSet(Pods) /\ IsFiniteSet(Slots)
  /\ MinCount \in [Groups -> Nat]
  /\ NodeOf \in [Slots -> Nodes]
  /\ Incompat \in [Pods -> SUBSET Nodes]
  /\ NoBackend \notin Backends /\ NoGroup \notin Groups
  /\ NoPod \notin Pods /\ NoNode \notin Nodes
  /\ GroupReject \in BOOLEAN /\ EarlyDelete \in BOOLEAN
  /\ MaxJobs \in Nat /\ MaxFaults \in Nat /\ MaxBusy \in Nat
  /\ MaxRestarts \in Nat /\ MaxRecreates \in Nat

\* An ungrouped pod's key is its own name.
ASSUME LonePods ==
  \A p, q \in Pods : GroupOf[p] = GroupOf[q] /\ GroupOf[p] \notin Grouped => p = q

-----------------------------------------------------------------------------
(* Types and the zero values Go gives an absent map entry.                  *)

Alloc     == [group : Groups \cup {NoGroup}, slots : SUBSET Slots,
              backends : SUBSET Backends]
Placement == [nodes : SUBSET Nodes, backend : Backends \cup {NoBackend},
              jobs : SUBSET JobIds]
FreeJob   == [group |-> NoGroup, slots |-> {}, backends |-> {}]
NoMemo    == [nodes |-> {}, backend |-> NoBackend, jobs |-> {}]

MatchPcs == {"pods", "specs", "compute", "device", "store"}
CyclePcs == {"idle", "cancel", "filter", "postfilter", "reserve"} \cup MatchPcs
BindPcs  == {"none", "preflight", "permit", "prebind", "record", "stamp", "bind"}
Phases   == {"gated", "pending", "bound", "done", "gone"}

IdleCycle   == [pc |-> "idle", pod |-> NoPod, size |-> 0, device |-> FALSE,
                excl |-> {}, place |-> NoMemo, node |-> NoNode]
NoBind      == [pc |-> "none", node |-> NoNode, skip |-> FALSE, jobs |-> {}]
IdleHandler == [busy |-> FALSE, key |-> NoGroup, jobs |-> {}]
NewPod(p)   == [phase |-> IF p \in Gated THEN "gated" ELSE "pending",
                node |-> NoNode, stamp |-> NoBackend]
NewOwner    == [exists |-> TRUE, jobs |-> {}]

CycleType   == [pc : CyclePcs, pod : Pods \cup {NoPod}, size : Nat,
                device : BOOLEAN, excl : SUBSET Nodes, place : Placement,
                node : Nodes \cup {NoNode}]
BindType    == [pc : BindPcs, node : Nodes \cup {NoNode}, skip : BOOLEAN,
                jobs : SUBSET JobIds]
PodType     == [phase : Phases, node : Nodes \cup {NoNode},
                stamp : Backends \cup {NoBackend}]
OwnerType   == [exists : BOOLEAN, jobs : SUBSET JobIds]
EventType   == [key : Groups, jobs : SUBSET JobIds]
HandlerType == [busy : BOOLEAN, key : Groups \cup {NoGroup}, jobs : SUBSET JobIds]
SpentType   == [faults : Nat, busy : Nat, restarts : Nat, recreates : Nat]

(* The plugin's mutable state is typed: jobids are the ones Fluxion issued, *)
(* exclusions are nodes, goroutine locals are at a line of their function.  *)
TypeOK ==
  /\ job \in [JobIds -> Alloc]
  /\ nextJob \in 1 .. MaxJobs + 1
  /\ memo \in [Groups -> Placement]
  /\ excluded \in [Groups -> SUBSET Nodes]
  /\ cycle \in CycleType
  /\ cycle.pc # "idle" => cycle.pod \in Pods
  /\ bind \in [Pods -> BindType]
  /\ pod \in [Pods -> PodType]
  /\ owner \in [Groups -> OwnerType]
  /\ events \in [Informers -> Seq(EventType)]
  /\ handler \in [Informers -> HandlerType]
  /\ \A w \in Informers : handler[w].busy => handler[w].key \in Groups
  /\ spent \in SpentType

Init ==
  /\ job = [j \in JobIds |-> FreeJob]
  /\ nextJob = 1
  /\ memo = [g \in Groups |-> NoMemo]
  /\ excluded = [g \in Groups |-> {}]
  /\ cycle = IdleCycle
  /\ bind = [p \in Pods |-> NoBind]
  /\ pod = [p \in Pods |-> NewPod(p)]
  /\ owner = [g \in Groups |-> NewOwner]
  /\ events = [w \in Informers |-> <<>>]
  /\ handler = [w \in Informers |-> IdleHandler]
  /\ spent = [faults |-> 0, busy |-> 0, restarts |-> 0, recreates |-> 0]

-----------------------------------------------------------------------------
(* Fluxion (external): exclusive, held until cancelled; Cancel of an        *)
(* unknown jobid is a no-op.                                                *)

Held == {j \in JobIds : job[j].group # NoGroup}
FreeSlots == Slots \ UNION {job[j].slots : j \in Held}
FreeBackends == Backends \ UNION {job[j].backends : j \in Held}

NumberOffByOne == nextJob + 1    \* seeded fault: the id after the one issued
Number == nextJob    \* MatchAllocateRequest.Number of the next match

MatchAllocate(g, slots, backends) ==
  /\ nextJob <= MaxJobs
  /\ job' = [job EXCEPT ![nextJob] =
               [group |-> g, slots |-> slots, backends |-> backends]]
  /\ nextJob' = nextJob + 1

Cancel(j) == job' = [job EXCEPT ![j] = FreeJob]

Fault ==
  /\ spent.faults < MaxFaults
  /\ spent' = [spent EXCEPT !.faults = @ + 1]

-----------------------------------------------------------------------------
(* The scheduling cycle: one goroutine, one pod at a time.                  *)

CycleGroup == GroupOf[cycle.pod]

\* PreFilter finds the group's cached allocation and reuses it.
PreFilterCached(p) ==
  /\ cycle.pc = "idle" /\ pod[p].phase = "pending" /\ bind[p].pc = "none"
  /\ memo[GroupOf[p]].jobs # {}
  /\ cycle' = [IdleCycle EXCEPT !.pc = "filter", !.pod = p]
  /\ UNCHANGED <<job, nextJob, memo, excluded, bind, pod, owner, events, handler, spent>>

\* Seeded fault: PreFilter does not look for a cached placement.
PreFilterMissUnchecked(p) ==
  /\ cycle.pc = "idle" /\ pod[p].phase = "pending" /\ bind[p].pc = "none"
  /\ cycle' = [IdleCycle EXCEPT !.pc = "pods", !.pod = p]
  /\ UNCHANGED <<job, nextJob, memo, excluded, bind, pod, owner, events, handler, spent>>

\* PreFilter finds none: this pod triggers the match for its whole group.
PreFilterMiss(p) ==
  /\ cycle.pc = "idle" /\ pod[p].phase = "pending" /\ bind[p].pc = "none"
  /\ memo[GroupOf[p]].jobs = {}
  /\ cycle' = [IdleCycle EXCEPT !.pc = "pods", !.pod = p]
  /\ UNCHANGED <<job, nextJob, memo, excluded, bind, pod, owner, events, handler, spent>>

\* groupPods: an ungrouped pod is its own group; gated members are left out.
GroupPods(p) ==
  IF GroupOf[p] \in Grouped
  THEN {q \in Members(GroupOf[p]) : pod[q].phase \notin {"gated", "gone"}}
  ELSE {p}

\* PreFilter lists the members; a group that lists none is an error.
ListGroupPods ==
  /\ cycle.pc = "pods"
  /\ LET live == GroupPods(cycle.pod) IN
       cycle' = IF live = {} THEN IdleCycle
                ELSE [cycle EXCEPT !.pc = "specs", !.size = Cardinality(live),
                                   !.device = live \cap Leaders # {}]
  /\ UNCHANGED <<job, nextJob, memo, excluded, bind, pod, owner, events, handler, spent>>

\* PreFilter reads the exclusions, and the jobspecs are built: one for
\* compute, one more for the device if a member wants one (JobspecsForGroup).
BuildJobspecs ==
  /\ cycle.pc = "specs"
  /\ cycle' = [cycle EXCEPT !.pc = "compute", !.excl = excluded[CycleGroup]]
  /\ UNCHANGED <<job, nextJob, memo, excluded, bind, pod, owner, events, handler, spent>>

\* Seeded faults: no rollback; a rollback that loses the pod it runs for.
UnwindNothing(jobs) == cycle' = IdleCycle
UnwindNoPod(jobs) ==
  cycle' = IF jobs = {} THEN IdleCycle
           ELSE [IdleCycle EXCEPT !.pc = "cancel", !.place.jobs = jobs]

\* The cycle fails after it obtained these jobids: cancelJobids runs on them.
Unwind(jobs) ==
  cycle' = IF jobs = {} THEN IdleCycle
           ELSE [IdleCycle EXCEPT !.pc = "cancel", !.pod = cycle.pod,
                                  !.place.jobs = jobs]

\* An allocation whose R cannot be parsed is cancelled with the earlier ones.
ParseFails ==
  Fault /\ Unwind(cycle.place.jobs \cup {Number})

\* systemAttributes: the negated hostlist keeps the match off excluded nodes.
EligibleIgnoringExclusions(excl) == FreeSlots    \* seeded fault: no hostlist
Eligible(excl) == {s \in FreeSlots : NodeOf[s] \notin excl}

\* The placement so far with what the next match was given added to it.
OnSlots(S) == [cycle.place EXCEPT !.jobs = cycle.place.jobs \cup {Number},
                                  !.nodes = {NodeOf[s] : s \in S}]
OnBackend(b) == [cycle.place EXCEPT !.jobs = cycle.place.jobs \cup {Number},
                                    !.backend = b]

\* matchGroup, compute jobspec: one slot per listed pod off the excluded nodes.
MatchCompute ==
  /\ cycle.pc = "compute"
  /\ \E S \in SUBSET Eligible(cycle.excl) :
       /\ Cardinality(S) = cycle.size
       /\ MatchAllocate(CycleGroup, S, {})
       /\ \/ ParseFails
          \/ /\ cycle' = [cycle EXCEPT
                  !.pc = IF cycle.device THEN "device" ELSE "store",
                  !.place = OnSlots(S)]
             /\ UNCHANGED spent
  /\ UNCHANGED <<memo, excluded, bind, pod, owner, events, handler>>

\* matchGroup, device jobspec: one virtual backend.
MatchDevice ==
  /\ cycle.pc = "device"
  /\ \E b \in FreeBackends :
       /\ MatchAllocate(CycleGroup, {}, {b})
       /\ \/ ParseFails
          \/ /\ cycle' = [cycle EXCEPT !.pc = "store",
                                       !.place = OnBackend(b)]
             /\ UNCHANGED spent
  /\ UNCHANGED <<memo, excluded, bind, pod, owner, events, handler>>

\* matchGroup: a jobspec that does not fit rolls back the ones that did.
MatchFails ==
  /\ \/ cycle.pc = "compute" /\ Cardinality(Eligible(cycle.excl)) < cycle.size
     \/ cycle.pc = "device" /\ FreeBackends = {}
  /\ Unwind(cycle.place.jobs)
  /\ UNCHANGED <<job, nextJob, memo, excluded, bind, pod, owner, events, handler, spent>>

\* cancelJobids, one jobid per turn of its loop.
CancelJobid ==
  /\ cycle.pc = "cancel"
  /\ \E j \in cycle.place.jobs :
       /\ Cancel(j)
       /\ Unwind(cycle.place.jobs \ {j})
  /\ UNCHANGED <<nextJob, memo, excluded, bind, pod, owner, events, handler, spent>>

\* PreFilter caches the placement for every pod of the group.
StorePlacement ==
  /\ cycle.pc = "store"
  /\ memo' = [memo EXCEPT ![CycleGroup] = cycle.place]
  /\ cycle' = [IdleCycle EXCEPT !.pc = "filter", !.pod = cycle.pod]
  /\ UNCHANGED <<job, nextJob, excluded, bind, pod, owner, events, handler, spent>>

\* Filter: the allocated nodes, or every node when the placement pins none.
PermittedAll(g) == Nodes    \* seeded fault: Filter imposes no constraint
Permitted(g) == IF memo[g].nodes = {} THEN Nodes ELSE memo[g].nodes

FilterPass ==
  /\ cycle.pc = "filter"
  /\ \E n \in Permitted(CycleGroup) \ Incompat[cycle.pod] :
       cycle' = [cycle EXCEPT !.pc = "reserve", !.node = n]
  /\ UNCHANGED <<job, nextJob, memo, excluded, bind, pod, owner, events, handler, spent>>

\* No node survives Filter: all permitted ones are incompatible, or full now.
FilterReject ==
  /\ cycle.pc = "filter"
  /\ \/ /\ Permitted(CycleGroup) \subseteq Incompat[cycle.pod]
        /\ UNCHANGED spent
     \/ /\ spent.busy < MaxBusy
        /\ spent' = [spent EXCEPT !.busy = @ + 1]
  /\ cycle' = [cycle EXCEPT !.pc = "postfilter"]
  /\ UNCHANGED <<job, nextJob, memo, excluded, bind, pod, owner, events, handler>>

\* Unreserve is a no-op: the framework only drops the waiting reservations.
Unreserve(g) ==
  bind' = [p \in Pods |->
             IF GroupReject /\ GroupOf[p] = g /\ bind[p].pc \in {"preflight", "permit"}
             THEN NoBind ELSE bind[p]]

\* The allocated nodes that are UnschedulableAndUnresolvable for this pod; the
\* others were full this time and stay eligible.
IncompatibleOrBusy(p, nodes) == nodes    \* seeded fault: bans busy nodes too
Incompatible(p, nodes) == nodes \cap Incompat[p]

\* PostFilter: exclude the incompatible nodes, drop the placement, then
\* cancel its jobids outside the lock.
PostFilter ==
  /\ cycle.pc = "postfilter"
  /\ LET g == CycleGroup IN
       /\ excluded' = [excluded EXCEPT ![g] =
                         @ \cup Incompatible(cycle.pod, memo[g].nodes)]
       /\ memo' = [memo EXCEPT ![g] = NoMemo]
       /\ Unwind(memo[g].jobs)
       /\ Unreserve(g)
  /\ UNCHANGED <<job, nextJob, pod, owner, events, handler, spent>>

\* stampBackend: the pod's backend annotation after the patch; the patch of a
\* deleted pod fails, and there is no patch without a cached backend.
Stampable(p) == memo[GroupOf[p]].backend = NoBackend \/ pod[p].phase # "gone"
StampBackend(p) ==
  pod' = IF memo[GroupOf[p]].backend = NoBackend THEN pod
         ELSE [pod EXCEPT ![p].stamp = memo[GroupOf[p]].backend]

Reserve ==
  /\ cycle.pc = "reserve"
  /\ Stampable(cycle.pod)
  /\ StampBackend(cycle.pod)
  /\ bind' = [bind EXCEPT ![cycle.pod] =
                [NoBind EXCEPT !.pc = "preflight", !.node = cycle.node]]
  /\ cycle' = IdleCycle
  /\ UNCHANGED <<job, nextJob, memo, excluded, owner, events, handler, spent>>

\* The stamp's patch fails: the pod is requeued, the placement stays cached.
ReserveFails ==
  /\ cycle.pc = "reserve"
  /\ \/ ~Stampable(cycle.pod) /\ UNCHANGED spent
     \/ Fault
  /\ cycle' = IdleCycle
  /\ UNCHANGED <<job, nextJob, memo, excluded, bind, pod, owner, events, handler>>

-----------------------------------------------------------------------------
(* The binding cycle of pod p, concurrent with everything else.             *)

\* PreBindPreFlight: PreBind is skipped when nothing is cached now.
PreBindPreFlight(p) ==
  /\ bind[p].pc = "preflight"
  /\ bind' = [bind EXCEPT ![p].pc = "permit", ![p].skip = memo[GroupOf[p]].jobs = {}]
  /\ UNCHANGED <<job, nextJob, memo, excluded, cycle, pod, owner, events, handler, spent>>

\* The gang's Permit (external): once minCount members have arrived, all that
\* wait are let through together.
PermitAllow(g) ==
  LET waiting == {p \in Members(g) : bind[p].pc = "permit"}
      arrived == {p \in Members(g) : \/ bind[p].pc \notin {"none", "preflight"}
                                     \/ pod[p].phase \in {"bound", "done"}}
  IN  /\ waiting # {}
      /\ Cardinality(arrived) >= MinCount[g]
      /\ bind' = [p \in Pods |->
                    IF p \notin waiting THEN bind[p]
                    ELSE [bind[p] EXCEPT !.pc = IF bind[p].skip THEN "bind" ELSE "prebind"]]
      /\ UNCHANGED <<job, nextJob, memo, excluded, cycle, pod, owner, events, handler, spent>>

\* Permit times out (external).
PermitReject(p) ==
  /\ bind[p].pc = "permit"
  /\ Fault
  /\ bind' = [bind EXCEPT ![p] = NoBind]
  /\ UNCHANGED <<job, nextJob, memo, excluded, cycle, pod, owner, events, handler>>

\* PreBind reads the allocation; none cached means there is nothing to record.
PreBind(p) ==
  /\ bind[p].pc = "prebind"
  /\ bind' = [bind EXCEPT ![p].pc = IF memo[GroupOf[p]].jobs = {} THEN "bind" ELSE "record",
                          ![p].jobs = memo[GroupOf[p]].jobs]
  /\ UNCHANGED <<job, nextJob, memo, excluded, cycle, pod, owner, events, handler, spent>>

\* recordJobIDs patches the owning object's annotation with what was read.
RecordJobIDs(p) ==
  /\ bind[p].pc = "record"
  /\ owner[GroupOf[p]].exists
  /\ owner' = [owner EXCEPT ![GroupOf[p]].jobs = bind[p].jobs]
  /\ bind' = [bind EXCEPT ![p].pc = "stamp", ![p].jobs = {}]
  /\ UNCHANGED <<job, nextJob, memo, excluded, cycle, pod, events, handler, spent>>

\* PreBind's backstop stamp.
PreBindStamp(p) ==
  /\ bind[p].pc = "stamp"
  /\ Stampable(p)
  /\ StampBackend(p)
  /\ bind' = [bind EXCEPT ![p].pc = "bind"]
  /\ UNCHANGED <<job, nextJob, memo, excluded, cycle, owner, events, handler, spent>>

\* A patch in PreBind fails, or its object is gone: the pod is requeued.
PreBindFails(p) ==
  /\ bind[p].pc \in {"record", "stamp"}
  /\ \/ /\ \/ bind[p].pc = "record" /\ ~owner[GroupOf[p]].exists
           \/ bind[p].pc = "stamp" /\ ~Stampable(p)
        /\ UNCHANGED spent
     \/ Fault
  /\ bind' = [bind EXCEPT ![p] = NoBind]
  /\ UNCHANGED <<job, nextJob, memo, excluded, cycle, pod, owner, events, handler>>

\* The framework binds the pod, unless it was deleted (external).
Bind(p) ==
  /\ bind[p].pc = "bind"
  /\ pod' = IF pod[p].phase = "pending"
            THEN [pod EXCEPT ![p].phase = "bound", ![p].node = bind[p].node]
            ELSE pod
  /\ bind' = [bind EXCEPT ![p] = NoBind]
  /\ UNCHANGED <<job, nextJob, memo, excluded, cycle, owner, events, handler, spent>>

-----------------------------------------------------------------------------
(* cancelGroup, in the informer goroutine w.                                *)

\* The jobids come from the event's annotation, or else from the memo; with
\* neither, the handler returns.
CancelGroupRead(w) ==
  /\ ~handler[w].busy /\ events[w] # <<>>
  /\ events' = [events EXCEPT ![w] = Tail(@)]
  /\ LET e    == Head(events[w])
         jobs == IF e.jobs # {} THEN e.jobs ELSE memo[e.key].jobs
     IN  handler' = IF jobs = {} THEN handler
                    ELSE [handler EXCEPT ![w] = [busy |-> TRUE, key |-> e.key, jobs |-> jobs]]
  /\ UNCHANGED <<job, nextJob, memo, excluded, cycle, bind, pod, owner, spent>>

\* Seeded fault: only one jobid of the list is cancelled.
CancelGroupCancelOne(w) ==
  /\ handler[w].busy
  /\ \E j \in handler[w].jobs : Cancel(j)
  /\ handler' = [handler EXCEPT ![w].jobs = {}]
  /\ UNCHANGED <<nextJob, memo, excluded, cycle, bind, pod, owner, events, spent>>

CancelGroupCancel(w) ==
  /\ handler[w].busy
  /\ \E j \in handler[w].jobs :
       /\ Cancel(j)
       /\ handler' = [handler EXCEPT ![w].jobs = @ \ {j}]
  /\ UNCHANGED <<nextJob, memo, excluded, cycle, bind, pod, owner, events, spent>>

\* Seeded faults: the placement, or the exclusions, survive the teardown.
CancelGroupKeepMemo(w) ==
  /\ handler[w].busy /\ handler[w].jobs = {}
  /\ excluded' = [excluded EXCEPT ![handler[w].key] = {}]
  /\ handler' = [handler EXCEPT ![w] = IdleHandler]
  /\ UNCHANGED <<job, nextJob, memo, cycle, bind, pod, owner, events, spent>>
CancelGroupKeepExcluded(w) ==
  /\ handler[w].busy /\ handler[w].jobs = {}
  /\ memo' = [memo EXCEPT ![handler[w].key] = NoMemo]
  /\ handler' = [handler EXCEPT ![w] = IdleHandler]
  /\ UNCHANGED <<job, nextJob, excluded, cycle, bind, pod, owner, events, spent>>

CancelGroupDrop(w) ==
  /\ handler[w].busy /\ handler[w].jobs = {}
  /\ memo' = [memo EXCEPT ![handler[w].key] = NoMemo]
  /\ excluded' = [excluded EXCEPT ![handler[w].key] = {}]
  /\ handler' = [handler EXCEPT ![w] = IdleHandler]
  /\ UNCHANGED <<job, nextJob, cycle, bind, pod, owner, events, spent>>

-----------------------------------------------------------------------------
(* The API server, users and kubelets.                                      *)

Notify(w, g) ==
  events' = [events EXCEPT ![w] = Append(@, [key |-> g, jobs |-> owner[g].jobs])]

\* The sidecar lifts a worker's scheduling gate (external).
Ungate(p) ==
  /\ pod[p].phase = "gated"
  /\ pod' = [pod EXCEPT ![p].phase = "pending"]
  /\ UNCHANGED <<job, nextJob, memo, excluded, cycle, bind, owner, events, handler, spent>>

\* onPodUpdated: an ungrouped pod's completion frees its allocation.
Finish(p) ==
  /\ pod[p].phase = "bound"
  /\ pod' = [pod EXCEPT ![p].phase = "done"]
  /\ IF GroupOf[p] \in Grouped THEN UNCHANGED events ELSE Notify("pod", GroupOf[p])
  /\ UNCHANGED <<job, nextJob, memo, excluded, cycle, bind, owner, handler, spent>>

\* onPodDeleted: only an ungrouped pod's deletion reaches cancelGroup.
DeletePod(p) ==
  /\ pod[p].phase # "gone"
  /\ EarlyDelete \/ pod[p].phase = "done"
  /\ pod' = [pod EXCEPT ![p] = [phase |-> "gone", node |-> NoNode, stamp |-> NoBackend]]
  /\ IF GroupOf[p] \in Grouped THEN UNCHANGED <<events, owner>>
     ELSE /\ Notify("pod", GroupOf[p])
          /\ owner' = [owner EXCEPT ![GroupOf[p]] = [exists |-> FALSE, jobs |-> {}]]
  /\ UNCHANGED <<job, nextJob, memo, excluded, cycle, bind, handler, spent>>

\* onPodGroupDeleted follows the deletion of a PodGroup.
RemovePodGroup(g) ==
  /\ g \in Grouped /\ owner[g].exists
  /\ owner' = [owner EXCEPT ![g] = [exists |-> FALSE, jobs |-> {}]]
  /\ Notify("podgroup", g)
  /\ UNCHANGED <<job, nextJob, memo, excluded, cycle, bind, pod, handler, spent>>

\* Seeded fault: the first member to complete takes the PodGroup with it.
ReconcileOnFirst(g) ==
  /\ \E p \in Members(g) : pod[p].phase = "done"
  /\ RemovePodGroup(g)

\* reconcileGroup deletes a PodGroup once every member is terminal or gone.
ReconcileGroup(g) ==
  /\ \A p \in Members(g) : pod[p].phase \in {"done", "gone"}
  /\ RemovePodGroup(g)

\* A user deletes a PodGroup that has not completed (external).
UserDeletesPodGroup(g) == EarlyDelete /\ RemovePodGroup(g)

\* The owner and its pods are created again under the same names (external).
Recreate(g) ==
  /\ spent.recreates < MaxRecreates
  /\ ~owner[g].exists
  /\ \A p \in Members(g) : pod[p].phase = "gone" /\ bind[p].pc = "none" /\ cycle.pod # p
  /\ owner' = [owner EXCEPT ![g] = NewOwner]
  /\ pod' = [p \in Pods |-> IF GroupOf[p] = g THEN NewPod(p) ELSE pod[p]]
  /\ spent' = [spent EXCEPT !.recreates = @ + 1]
  /\ UNCHANGED <<job, nextJob, memo, excluded, cycle, bind, events, handler>>

\* New: a restarted scheduler builds an empty graph and empty maps; API
\* objects survive, undelivered events do not.
Restart ==
  /\ spent.restarts < MaxRestarts
  /\ spent' = [spent EXCEPT !.restarts = @ + 1]
  /\ job' = [j \in JobIds |-> FreeJob]
  /\ nextJob' = 1
  /\ memo' = [g \in Groups |-> NoMemo]
  /\ excluded' = [g \in Groups |-> {}]
  /\ cycle' = IdleCycle
  /\ bind' = [p \in Pods |-> NoBind]
  /\ events' = [w \in Informers |-> <<>>]
  /\ handler' = [w \in Informers |-> IdleHandler]
  /\ UNCHANGED <<pod, owner>>

-----------------------------------------------------------------------------
CycleStep ==
  \/ ListGroupPods \/ BuildJobspecs \/ MatchCompute \/ MatchDevice \/ MatchFails
  \/ CancelJobid \/ StorePlacement \/ FilterPass \/ FilterReject \/ PostFilter
  \/ Reserve \/ ReserveFails

BindStep(p) ==
  \/ PreBindPreFlight(p) \/ PreBind(p)
  \/ RecordJobIDs(p) \/ PreBindStamp(p) \/ PreBindFails(p) \/ Bind(p)

CancelGroup(w) ==
  CancelGroupRead(w) \/ CancelGroupCancel(w) \/ CancelGroupDrop(w)

Next ==
  \/ \E p \in Pods : PreFilterCached(p) \/ PreFilterMiss(p)
  \/ CycleStep
  \/ \E p \in Pods : BindStep(p) \/ PermitReject(p)
  \/ \E w \in Informers : CancelGroup(w)
  \/ \E p \in Pods : Ungate(p) \/ Finish(p) \/ DeletePod(p)
  \/ \E g \in Groups : PermitAllow(g)
  \/ \E g \in Groups : ReconcileGroup(g) \/ UserDeletesPodGroup(g) \/ Recreate(g)
  \/ Restart

Spec == Init /\ [][Next]_vars

-----------------------------------------------------------------------------
(* Fairness: goroutines that can run do run, the queue retries every pod,   *)
(* running pods complete and the 60 s sweep reconciles. Nothing is assumed  *)
(* of users, of faults or of restarts.                                      *)

Fairness ==
  /\ WF_vars(CycleStep)
  /\ \A p \in Pods : /\ SF_vars(PreFilterCached(p) \/ PreFilterMiss(p))
                     /\ WF_vars(BindStep(p))
                     /\ WF_vars(Ungate(p))
                     /\ WF_vars(Finish(p))
  /\ \A w \in Informers : WF_vars(CancelGroup(w))
  /\ \A g \in Groups : WF_vars(PermitAllow(g)) /\ WF_vars(ReconcileGroup(g))

FairSpec == Spec /\ Fairness

-----------------------------------------------------------------------------
(* Safety.                                                                  *)

Matching(g)   == cycle.pc \in MatchPcs \cup {"cancel"} /\ CycleGroup = g
Cancelling(g) == \E w \in Informers : handler[w].busy /\ handler[w].key = g

\* A record of group g names jobid j: the cached placement, the owner's
\* annotation, a binding pod's copy, an undelivered event, a cancelGroup.
Records(g, j) ==
  \/ j \in memo[g].jobs \/ j \in owner[g].jobs
  \/ \E p \in Members(g) : j \in bind[p].jobs
  \/ \E w \in Informers : \E i \in DOMAIN events[w] :
       events[w][i].key = g /\ j \in events[w][i].jobs
  \/ \E w \in Informers : handler[w].key = g /\ j \in handler[w].jobs

\* The match or the rollback in flight for g has j in hand.
InHand(g, j) == cycle.pc # "idle" /\ CycleGroup = g /\ j \in cycle.place.jobs

\* No record of a group, and no match or rollback of it, names a jobid another
\* group holds: whatever a group's teardown or rollback cancels, it takes
\* nothing from anybody else (cancelGroup, cancelJobids).
NoForeignReference ==
  \A g \in Groups, j \in JobIds :
    Records(g, j) \/ InHand(g, j) => job[j].group \in {g, NoGroup}

\* A placement that PreFilter would reuse is backed: Fluxion holds each of its
\* jobids for this very group, except while cancelGroup runs on that group,
\* which cancels first and drops the placement last.
MemoHeld ==
  \A g \in Groups :
    Cancelling(g) \/ \A j \in memo[g].jobs : job[j].group = g

\* All or nothing: what Fluxion holds for a group is what its cached placement
\* names, or what a match, a rollback or a cancelGroup in progress still has in
\* hand. A failed or abandoned match leaves no partial allocation, and a torn
\* down group leaves none at all (matchGroup, cancelJobids, cancelGroup).
HeldAccounted ==
  \A j \in Held :
    LET g == job[j].group IN
      \/ j \in memo[g].jobs
      \/ Matching(g) /\ j \in cycle.place.jobs
      \/ \E w \in Informers : handler[w].key = g /\ j \in handler[w].jobs

\* No activity on group g is in flight and no event of it is undelivered.
Quiet(g) ==
  /\ ~Cancelling(g) /\ cycle.pod \notin Members(g)
  /\ \A p \in Members(g) : bind[p].pc = "none"
  /\ \A w \in Informers : \A i \in DOMAIN events[w] : events[w][i].key # g

\* Once a deleted owner's events are handled the plugin remembers nothing of
\* the name: no placement a new group would wrongly reuse, no exclusion it
\* would inherit (cancelGroup "so a future group reusing the name starts clean").
TeardownComplete ==
  \A g \in Groups :
    ~owner[g].exists /\ Quiet(g) => memo[g] = NoMemo /\ excluded[g] = {}

\* The exclusion half of TeardownComplete, on its own.
ReusedNameStartsClean ==
  \A g \in Groups : ~owner[g].exists /\ Quiet(g) => excluded[g] = {}

\* Once a deleted owner's events are handled Fluxion holds nothing for it
\* (README: "When that object is deleted an informer cancels the allocations").
DeletedOwnerHoldsNothing ==
  \A g \in Groups :
    ~owner[g].exists /\ Quiet(g) => \A j \in JobIds : job[j].group # g

\* A cached placement never contains a node the group has excluded: the
\* re-match after PostFilter is steered off every node found incompatible.
MemoAvoidsExcluded ==
  \A g \in Groups : memo[g].nodes \cap excluded[g] = {}

Live(g)      == {p \in Members(g) : pod[p].phase = "bound"}
HeldSlots(g) == UNION {job[j].slots : j \in {i \in Held : job[i].group = g}}

\* Pods run where Fluxion put them: every live member of a group is on a node
\* of what the group holds, and there are no more of them than slots.
BoundOnAllocation ==
  \A g \in Groups :
    /\ \A p \in Live(g) : pod[p].node \in {NodeOf[s] : s \in HeldSlots(g)}
    /\ Cardinality(Live(g)) <= Cardinality(HeldSlots(g))

\* Only the count: no live member without a slot of its own (groupPods: "An
\* ungated pod re-enters the queue and is matched then").
MembersHaveSlots ==
  \A g \in Groups : Cardinality(Live(g)) <= Cardinality(HeldSlots(g))

\* When all of a group runs and nothing of it is in flight, the annotation its
\* teardown will read names all that Fluxion holds for it (cancelGroup: "the
\* durable source of truth"), else the teardown leaks the rest.
AnnotationIsTruth ==
  \A g \in Groups :
    Quiet(g) /\ Live(g) = Members(g) /\ owner[g].jobs # {}
      => \A j \in Held : job[j].group = g => j \in owner[g].jobs

\* The backend a live pod was told to use is one its group still holds, so no
\* two groups drive the same device (Reserve, PreBind's backstop).
BoundSeesHeldBackend ==
  \A g \in Groups : \A p \in Live(g) :
    pod[p].stamp # NoBackend =>
      \E j \in Held : job[j].group = g /\ pod[p].stamp \in job[j].backends

\* No two live pods of different groups were given the same backend.
BackendNotDoubleBooked ==
  \A p, q \in Pods :
    /\ pod[p].phase = "bound" /\ pod[q].phase = "bound"
    /\ GroupOf[p] # GroupOf[q] /\ pod[p].stamp = pod[q].stamp
    => pod[p].stamp = NoBackend

-----------------------------------------------------------------------------
(* What a group is granted: its cached placement, while Fluxion holds all of *)
(* it. The first Cancel of a teardown takes the whole grant away.            *)

Backed(g) == memo[g].jobs # {} /\ \A j \in memo[g].jobs : job[j].group = g

SlotsOf(jobs)    == UNION {job[j].slots : j \in jobs}
BackendsOf(jobs) == UNION {job[j].backends : j \in jobs}

Granted ==
  [g \in Groups |->
     IF Backed(g)
     THEN [slots |-> SlotsOf(memo[g].jobs), backends |-> BackendsOf(memo[g].jobs)]
     ELSE [slots |-> {}, backends |-> {}]]

Grants == INSTANCE GroupGrants WITH granted <- Granted

\* The plugin implements GroupGrants: interleaved with teardowns, placements
\* are granted whole, exclusively, and withdrawn whole.
RefinesGroupGrants == Grants!Spec

-----------------------------------------------------------------------------
(* Progress.                                                                *)

\* A schedulable pod is eventually bound: transient contention excludes
\* nothing, so retrying suffices, and exclusions steer the re-match off the
\* incompatible nodes in finitely many attempts (PostFilter).
EventuallyPlaced ==
  \A p \in Pods : pod[p].phase = "pending" ~> pod[p].phase \in {"bound", "done", "gone"}

\* Everything a group holds is released once it is over.
EventuallyReleased ==
  \A g \in Groups :
    (\A p \in Members(g) : pod[p].phase \in {"done", "gone"})
      ~> (\A j \in Held : job[j].group # g)
=============================================================================
