----------------------------- MODULE Reconciler -----------------------------
(***************************************************************************)
(* The life of PodGroups: the webhook creates a gang's PodGroup while it   *)
(* admits the first member, the plugin schedules the members, and          *)
(* reconcileGroup (pkg/fluence/fluence.go) deletes the PodGroup of a       *)
(* completed gang, which frees its allocation. It runs in two goroutines,  *)
(* the pod informer's handler and the periodic sweep; it reads the         *)
(* PodGroup from the API, the members from the informer's cache, which     *)
(* lags, and deletes by name.                                              *)
(*                                                                         *)
(* A step is one API call, one look at the cache or one informer delivery. *)
(***************************************************************************)
EXTENDS Naturals, FiniteSets, Sequences

CONSTANTS
  Groups,        (* PodGroup names                                           *)
  UserGroups,    (* those a user created; the webhook creates the others     *)
  ScoutGroup,    (* Groups -> Groups: the group named <group>-scout, if any  *)
  Pods,
  GroupOf,       (* Pods -> Groups                                           *)
  UngatedBy,     (* gated workers -> the scout pod that lifts their gate     *)
  Successors,    (* pods created once the others of their group are over     *)
  MinCount,      (* Groups -> Nat, the gang's minCount                       *)
  NoGroup,
  EarlyDelete,   (* pods may be deleted before they are done                 *)
  MaxFaults,     (* bound: API calls of reconcileGroup that fail             *)
  MaxMissed      (* bound: pod notifications that are lost                   *)

VARIABLES
  pg,            (* PodGroup objects                                         *)
  aged,          (* incarnations older than reconcileGraceForEmpty           *)
  pod,           (* pod objects                                              *)
  cache,         (* the pod informer's cache                                 *)
  notes,         (* groups of pod notifications not handled yet              *)
  deletions,     (* PodGroup delete events not handled yet                   *)
  rec,           (* locals of reconcileGroup in its two goroutines           *)
  held,          (* groups whose allocation Fluxion holds                    *)
  spent          (* how much of each bound is used up                        *)

vars == <<pg, aged, pod, cache, notes, deletions, rec, held, spent>>

Callers    == {"handler", "sweep"}
Gated      == DOMAIN UngatedBy
ScoutGroups == {ScoutGroup[g] : g \in Groups} \ {NoGroup}
Members(g) == {p \in Pods : GroupOf[p] = g}
First(g)   == Members(g) \ Successors

ASSUME ConstantsAssumption ==
  /\ UserGroups \subseteq Groups
  /\ NoGroup \notin Groups
  /\ ScoutGroup \in [Groups -> Groups \cup {NoGroup}]
  /\ IsFiniteSet(Pods)
  /\ GroupOf \in [Pods -> Groups]
  /\ UngatedBy \in [Gated -> Pods] /\ Gated \subseteq Pods
  /\ Successors \subseteq Pods
  /\ MinCount \in [Groups -> Nat]
  /\ EarlyDelete \in BOOLEAN
  /\ MaxFaults \in Nat /\ MaxMissed \in Nat

-----------------------------------------------------------------------------
(* "admitted" is a pod whose admission request has been answered and whose  *)
(* object is not stored yet; a "permitted" pod has passed the gang's gate    *)
(* and is about to be bound. Caches do not tell it from a waiting one.       *)

Live    == {"gated", "waiting", "permitted", "running"}
Over    == {"done", "gone"}
Unborn  == {"new", "admitted"}
Phases  == Unborn \cup Live \cup Over
Present == Live \cup {"done"}

PodGroup == [exists : BOOLEAN, owned : BOOLEAN, scheduled : BOOLEAN, uid : Nat]
IdleRec  == [pc |-> "idle", key |-> NoGroup, uid |-> 0, scheduled |-> FALSE]
RecType  == {v \in [pc : {"idle", "get", "list", "delete", "scout"},
                    key : Groups \cup {NoGroup}, uid : Nat, scheduled : BOOLEAN] :
               /\ v.pc # "idle" => v.key \in Groups
               /\ v.pc = "scout" => ScoutGroup[v.key] # NoGroup}

(* Objects, caches and goroutine locals are typed.                          *)
TypeOK ==
  /\ pg \in [Groups -> PodGroup]
  /\ aged \subseteq Groups \X Nat
  /\ pod \in [Pods -> Phases]
  /\ cache \in [Pods -> Phases]
  /\ notes \in Seq(Groups)
  /\ deletions \in Seq(Groups)
  /\ rec \in [Callers -> RecType]
  /\ held \subseteq Groups
  /\ spent \in [faults : Nat, missed : Nat]

Init ==
  /\ pg = [g \in Groups |-> [exists |-> g \in UserGroups, owned |-> FALSE,
                             scheduled |-> FALSE, uid |-> 0]]
  /\ aged = {}
  /\ pod = [p \in Pods |-> "new"]
  /\ cache = [p \in Pods |-> "new"]
  /\ notes = <<>>
  /\ deletions = <<>>
  /\ rec = [r \in Callers |-> IdleRec]
  /\ held = {}
  /\ spent = [faults |-> 0, missed |-> 0]

-----------------------------------------------------------------------------
(* Admission, and the pods' lives.                                          *)

\* The object after EnsurePodGroup: left alone when there, else created with
\* the ownership annotation.
EnsurePodGroup(g) ==
  IF pg[g].exists THEN pg
  ELSE [pg EXCEPT ![g] = [exists |-> TRUE, owned |-> TRUE, scheduled |-> FALSE,
                          uid |-> pg[g].uid + 1]]

\* The webhook ensures the PodGroup before the API server stores the pod.
Admit(p) ==
  /\ pod[p] = "new"
  /\ p \in Successors => \A q \in First(GroupOf[p]) : pod[q] \in Over
  /\ pg' = EnsurePodGroup(GroupOf[p])
  /\ pod' = [pod EXCEPT ![p] = "admitted"]
  /\ UNCHANGED <<aged, cache, notes, deletions, rec, held, spent>>

Store(p) ==
  /\ pod[p] = "admitted"
  /\ pod' = [pod EXCEPT ![p] = IF p \in Gated THEN "gated" ELSE "waiting"]
  /\ UNCHANGED <<pg, aged, cache, notes, deletions, rec, held, spent>>

\* The scout's sidecar lifts the gate.
Ungate(p) ==
  /\ pod[p] = "gated" /\ pod[UngatedBy[p]] = "running"
  /\ pod' = [pod EXCEPT ![p] = "waiting"]
  /\ UNCHANGED <<pg, aged, cache, notes, deletions, rec, held, spent>>

\* The plugin has matched the group and minCount members have arrived, so the
\* waiting ones are let through together. FluencePlugin has the steps of this.
Permit(g) ==
  LET arrived == {p \in Members(g) : pod[p] = "waiting" /\ cache[p] = "waiting"}
      assumed == {p \in Members(g) : pod[p] \in {"permitted", "running"}}
  IN  /\ pg[g].exists
      /\ arrived # {} /\ Cardinality(arrived \cup assumed) >= MinCount[g]
      /\ held' = held \cup {g}
      /\ pod' = [p \in Pods |-> IF p \in arrived THEN "permitted" ELSE pod[p]]
      /\ UNCHANGED <<pg, aged, cache, notes, deletions, rec, spent>>

\* PreBind records the jobids on the PodGroup, and the pod is bound.
Start(p) ==
  /\ pod[p] = "permitted" /\ pg[GroupOf[p]].exists
  /\ pg' = [pg EXCEPT ![GroupOf[p]].scheduled = TRUE]
  /\ pod' = [pod EXCEPT ![p] = "running"]
  /\ UNCHANGED <<aged, cache, notes, deletions, rec, held, spent>>

Finish(p) ==
  /\ pod[p] = "running"
  /\ pod' = [pod EXCEPT ![p] = "done"]
  /\ UNCHANGED <<pg, aged, cache, notes, deletions, rec, held, spent>>

Remove(p) ==
  /\ pod[p] = "done" \/ (EarlyDelete /\ pod[p] \in Live)
  /\ pod' = [pod EXCEPT ![p] = "gone"]
  /\ UNCHANGED <<pg, aged, cache, notes, deletions, rec, held, spent>>

\* Two minutes pass. Every first member is assumed to have reached the cache by
\* then.
Age(g) ==
  /\ pg[g].exists /\ <<g, pg[g].uid>> \notin aged
  /\ \A p \in First(g) : cache[p] \notin Unborn
  /\ aged' = aged \cup {<<g, pg[g].uid>>}
  /\ UNCHANGED <<pg, pod, cache, notes, deletions, rec, held, spent>>

-----------------------------------------------------------------------------
(* The informers.                                                           *)

\* The pod informer's cache takes over the pod's state; onPodUpdated reacts to
\* the transition into a terminal phase and onPodDeleted to a deletion.
Deliver(p) ==
  /\ pod[p] \notin {"admitted", "permitted"} /\ cache[p] # pod[p]
  /\ cache' = [cache EXCEPT ![p] = pod[p]]
  /\ notes' = IF pod[p] \in Over THEN Append(notes, GroupOf[p]) ELSE notes
  /\ UNCHANGED <<pg, aged, pod, deletions, rec, held, spent>>

\* A completion or delete event is missed.
Miss ==
  /\ notes # <<>> /\ spent.missed < MaxMissed
  /\ notes' = Tail(notes)
  /\ spent' = [spent EXCEPT !.missed = @ + 1]
  /\ UNCHANGED <<pg, aged, pod, cache, deletions, rec, held>>

\* onPodGroupDeleted: cancelGroup frees what the group holds.
FreeGroup ==
  /\ deletions # <<>>
  /\ held' = held \ {Head(deletions)}
  /\ deletions' = Tail(deletions)
  /\ UNCHANGED <<pg, aged, pod, cache, notes, rec, spent>>

-----------------------------------------------------------------------------
(* reconcileGroup in the goroutine r.                                       *)

\* Seeded fault: the pod's group is not looked up.
CallNoGroup(r, g) == rec' = [rec EXCEPT ![r] = [IdleRec EXCEPT !.pc = "get"]]

Call(r, g) == rec' = [rec EXCEPT ![r] = [IdleRec EXCEPT !.pc = "get", !.key = g]]
Return(r)  == rec' = [rec EXCEPT ![r] = IdleRec]

HandlePod ==
  /\ rec["handler"].pc = "idle" /\ notes # <<>>
  /\ Call("handler", Head(notes))
  /\ notes' = Tail(notes)
  /\ UNCHANGED <<pg, aged, pod, cache, deletions, held, spent>>

\* reconcileAll: the groups come from a cache, so any may be tried.
Sweep(g) ==
  /\ rec["sweep"].pc = "idle"
  /\ Call("sweep", g)
  /\ UNCHANGED <<pg, aged, pod, cache, notes, deletions, held, spent>>

\* Seeded fault: rule 1 is dropped.
GetAnyPodGroup(r) ==
  /\ rec[r].pc = "get"
  /\ LET g == rec[r].key IN
       IF pg[g].exists
       THEN rec' = [rec EXCEPT ![r].pc = "list", ![r].uid = pg[g].uid,
                               ![r].scheduled = pg[g].scheduled]
       ELSE Return(r)
  /\ UNCHANGED <<pg, aged, pod, cache, notes, deletions, held, spent>>

\* Rule 1: the PodGroup exists and is Fluence's.
GetPodGroup(r) ==
  /\ rec[r].pc = "get"
  /\ LET g == rec[r].key IN
       IF pg[g].exists /\ pg[g].owned
       THEN rec' = [rec EXCEPT ![r].pc = "list", ![r].uid = pg[g].uid,
                               ![r].scheduled = pg[g].scheduled]
       ELSE Return(r)
  /\ UNCHANGED <<pg, aged, pod, cache, notes, deletions, held, spent>>

\* Seeded faults: one finished member is enough; an empty group is always, or
\* never, reaped.
CompletedOnFirst(r) == \E p \in Members(rec[r].key) : cache[p] = "done"
CompletedNoGrace(r) == \A p \in Members(rec[r].key) : cache[p] \notin Live
CompletedNotEmpty(r) ==
  LET seen == {p \in Members(rec[r].key) : cache[p] \in Present} IN
    seen # {} /\ \A p \in seen : cache[p] = "done"

\* Rules 2 and 3: every member seen is terminal, and when none is seen the gang
\* was scheduled or the PodGroup is old.
Completed(r) ==
  LET g    == rec[r].key
      seen == {p \in Members(g) : cache[p] \in Present}
  IN  /\ \A p \in seen : cache[p] = "done"
      /\ seen = {} => (rec[r].scheduled \/ <<g, rec[r].uid>> \in aged)

ListMembers(r) ==
  /\ rec[r].pc = "list"
  /\ IF Completed(r) THEN rec' = [rec EXCEPT ![r].pc = "delete"] ELSE Return(r)
  /\ UNCHANGED <<pg, aged, pod, cache, notes, deletions, held, spent>>

\* The API deletes by name; the delete event follows.
DeleteByName(g) ==
  /\ pg' = [pg EXCEPT ![g].exists = FALSE]
  /\ deletions' = IF pg[g].exists THEN Append(deletions, g) ELSE deletions

\* A NotFound is an error like any other: the call returns.
DeletePodGroup(r) ==
  /\ rec[r].pc = "delete"
  /\ LET g == rec[r].key IN
       /\ DeleteByName(g)
       /\ IF pg[g].exists /\ ScoutGroup[g] # NoGroup
          THEN rec' = [rec EXCEPT ![r].pc = "scout"]
          ELSE Return(r)
  /\ UNCHANGED <<aged, pod, cache, notes, held, spent>>

\* The scout's PodGroup goes with the workers'.
DeleteScout(r) ==
  /\ rec[r].pc = "scout"
  /\ DeleteByName(ScoutGroup[rec[r].key])
  /\ Return(r)
  /\ UNCHANGED <<aged, pod, cache, notes, held, spent>>

\* An API call fails and reconcileGroup returns.
ReconcileError(r) ==
  /\ rec[r].pc # "idle" /\ spent.faults < MaxFaults
  /\ Return(r)
  /\ spent' = [spent EXCEPT !.faults = @ + 1]
  /\ UNCHANGED <<pg, aged, pod, cache, notes, deletions, held>>

-----------------------------------------------------------------------------
Reconcile(r) ==
  GetPodGroup(r) \/ ListMembers(r) \/ DeletePodGroup(r) \/ DeleteScout(r)

Next ==
  \/ \E p \in Pods : \/ Admit(p) \/ Store(p) \/ Ungate(p) \/ Start(p)
                     \/ Finish(p) \/ Remove(p) \/ Deliver(p)
  \/ \E g \in Groups : Permit(g) \/ Age(g) \/ Sweep(g)
  \/ Miss \/ FreeGroup \/ HandlePod
  \/ \E r \in Callers : Reconcile(r) \/ ReconcileError(r)

Spec == Init /\ [][Next]_vars

(* Fairness: a job's pods are all created, stored and ungated, running pods *)
(* complete, informers deliver, goroutines go on, and every sweep tries     *)
(* every group.                                                             *)
Fairness ==
  /\ \A p \in Pods : /\ WF_vars(Admit(p)) /\ WF_vars(Store(p))
                     /\ WF_vars(Ungate(p)) /\ WF_vars(Start(p))
                     /\ WF_vars(Finish(p)) /\ WF_vars(Deliver(p))
  /\ WF_vars(FreeGroup) /\ WF_vars(HandlePod)
  /\ \A r \in Callers : WF_vars(Reconcile(r))
  /\ \A g \in Groups : WF_vars(Permit(g)) /\ SF_vars(Sweep(g)) /\ WF_vars(Age(g))

FairSpec == Spec /\ Fairness

-----------------------------------------------------------------------------
Backed(p) == pod[p] = "running" => pg[GroupOf[p]].exists /\ GroupOf[p] \in held

\* No resources are freed from under a running worker: its PodGroup exists and
\* Fluxion holds its allocation (reconcileGroup: "the property that prevents
\* freeing resources out from under workers").
WorkersBacked == \A p \in Pods : GroupOf[p] \notin ScoutGroups => Backed(p)

\* The same of the scouts, whose PodGroup is to be reaped "once the scout pod is
\* terminal" (scout-group cleanup).
ScoutsBacked == \A p \in Pods : GroupOf[p] \in ScoutGroups => Backed(p)

Reaped(g) == pg[g].exists /\ ~pg'[g].exists

\* A step that deletes a PodGroup finds no member live, neither by itself nor
\* in the API (rule 3: "A single running or still-gated member keeps the gang
\* alive").
LiveMemberKeepsGang ==
  [][\A g \in Groups \ ScoutGroups :
       Reaped(g) => \A p \in Members(g) : pod[p] \notin Live]_vars

\* Rule 1: a user's PodGroup is never deleted ("A user-created PodGroup is NEVER
\* deleted, even if all its pods are terminal").
UserGroupsUntouched ==
  [][\A g \in Groups : Reaped(g) => pg[g].owned]_vars

\* What makes rule 1 inductive where no user's PodGroup is called <g>-scout: a
\* call that is past rule 1 works on a name whose object is Fluence's, and so is
\* every object that is not a user's.
PastRuleOne(r) == rec[r].pc \in {"list", "delete", "scout"}

OwnershipInv ==
  /\ TypeOK
  /\ \A r \in Callers : PastRuleOne(r) => pg[rec[r].key].owned
  /\ \A g \in Groups \ UserGroups : pg[g].exists => pg[g].owned

\* What makes the two safety properties inductive where a gang's minCount is all
\* its members and no other job takes its name. The cache never runs ahead of the
\* pods. Nobody passes the gang's gate before the cache has every member, so
\* whatever says that the gang has been scheduled, or is old, says so too. What is
\* about to be deleted, or was deleted and not freed yet, has no member left.
AllCached(g) == \A p \in Members(g) : cache[p] \notin Unborn
AllOver(g)   == \A p \in Members(g) : pod[p] \in Over

CacheLags ==
  \A p \in Pods : /\ cache[p] \notin Unborn => pod[p] \notin Unborn
                  /\ cache[p] = "done" => pod[p] \in Over
                  /\ cache[p] = "gone" => pod[p] = "gone"

Scheduled(g) ==
  \/ pg[g].scheduled \/ \E x \in aged : x[1] = g
  \/ \E r \in Callers : rec[r].key = g /\ rec[r].scheduled
  \/ \E p \in Members(g) : pod[p] \in {"permitted", "running", "done"} \/ cache[p] = "done"

Ending(g) ==
  \/ \E r \in Callers : rec[r].key = g /\ rec[r].pc = "delete"
  \/ \E i \in DOMAIN deletions : deletions[i] = g

MembersInv ==
  /\ TypeOK /\ CacheLags
  /\ \A g \in Groups \ ScoutGroups :
       /\ Scheduled(g) => AllCached(g)
       /\ Ending(g) => AllOver(g)
       /\ \A p \in Members(g) :
            /\ pod[p] \in {"permitted", "running"} => g \in held
            /\ pod[p] = "running" => pg[g].exists

\* The PodGroup a call deletes is the one it found completed ("safe to call
\* repeatedly (PodGroup deletion is idempotent)").
DeletesWhatItJudged ==
  [][\A r \in Callers :
       (rec[r].pc = "delete" /\ rec'[r].pc # "delete" /\ Reaped(rec[r].key))
         => pg[rec[r].key].uid = rec[r].uid]_vars

\* Whatever events are missed, the PodGroup of a completed gang goes and its
\* allocation is freed (runReconcileSweeps: "the correctness backstop").
FinishedGangReleased ==
  \A g \in Groups \ UserGroups :
    (\A p \in Members(g) : pod[p] \in Over) ~> (~pg[g].exists /\ g \notin held)

\* A gang is not reaped while it comes into being: whoever was admitted gets to
\* run (rule 2: "we must not reap a group that has not yet grown its members").
AdmittedGangStarts ==
  \A p \in Pods : (pod[p] = "admitted") ~> (pod[p] = "running" \/ pod[p] \in Over)
=============================================================================
