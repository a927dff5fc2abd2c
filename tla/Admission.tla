------------------------------ MODULE Admission ------------------------------
(***************************************************************************)
(* The mutating webhook (pkg/webhook): what MutateOrDeny does to one pod   *)
(* creation, request by request and API call by API call, with the quantum *)
(* handler's admission control and scout election and the gang handler     *)
(* after it. Requests run concurrently. Around them pods are stored, bound *)
(* to nodes, finish and are deleted, and the reconciler reaps PodGroups.   *)
(*                                                                         *)
(* A step is one API call of one request. EnsurePodGroup's Get and Create  *)
(* are one step: a Create that loses the race changes nothing.             *)
(***************************************************************************)
EXTENDS Integers, FiniteSets, FiniteSetsExt

CONSTANTS
  Pods,          (* pod creations that ask for the fluence scheduler         *)
  Quantum,       (* those that request a qpu                                 *)
  Groups,        (* gang names                                               *)
  GroupOf,       (* Pods -> Groups \cup {NoGroup}: label or owner            *)
  NoGroup,
  Labelled,      (* pods whose group comes from the label, not the owner     *)
  Shared,        (* pods annotated coordination: shared                      *)
  Indexed,       (* pods of an indexed Job                                   *)
  First,         (* those with completion index 0                            *)
  SizeFrom,      (* Pods -> {"annotation", "owner", "count"}                 *)
  Size,          (* Pods -> the size annotation's or the owner's N           *)
  Cores,         (* Pods -> PodCores of the pod as submitted                 *)
  Named,         (* pods whose name is known at admission (no generateName)  *)
  SelfMarked,    (* pods submitted with the protected annotation             *)
  Classical,     (* other pods of one core each                              *)
  High,          (* those not below the preemptible ceiling                  *)
  Allocatable,   (* cores of the schedulable nodes                           *)
  Reserve,       (* FLUENCE_RESERVE_CORES                                    *)
  MaxInFlight,   (* bound: requests handled at once                          *)
  MaxFaults      (* bound: API calls that fail, answers lost or timed out    *)

VARIABLES
  req,           (* locals of the request that handles each pod              *)
  pod,           (* pod objects                                              *)
  pg,            (* PodGroup objects, per gang and kind                      *)
  running,       (* the classical pods that run                              *)
  overlapped,    (* history: two requests interleaved their reads and writes,
                    or a group was reaped under a request of its own         *)
  faults         (* history and bound: failures so far                       *)

vars == <<req, pod, pg, running, overlapped, faults>>

ASSUME ConstantsAssumption ==
  /\ IsFiniteSet(Pods) /\ IsFiniteSet(Groups) /\ IsFiniteSet(Classical)
  /\ NoGroup \notin Groups
  /\ GroupOf \in [Pods -> Groups \cup {NoGroup}]
  /\ Quantum \subseteq Pods /\ Shared \subseteq Pods /\ Named \subseteq Pods
  /\ First \subseteq Indexed /\ Indexed \subseteq Pods
  /\ \A p, q \in First : p # q => GroupOf[p] # GroupOf[q]
  /\ SelfMarked \subseteq Quantum /\ Pods \subseteq Quantum \cup Labelled
  /\ Labelled \subseteq {p \in Pods : GroupOf[p] # NoGroup}
  /\ SizeFrom \in [Pods -> {"annotation", "owner", "count"}]
  /\ Size \in [Pods -> Nat \ {0}] /\ Cores \in [Pods -> Nat \ {0}]
  /\ High \subseteq Classical
  /\ Allocatable \in Nat /\ Reserve \in Nat
  /\ MaxInFlight \in Nat \ {0} /\ MaxFaults \in Nat

-----------------------------------------------------------------------------
(* A gang has two PodGroups: <<g, "gang">>, named g, and <<g, "scout">>,    *)
(* named g-scout. A role is what the answer makes of the pod: "member" of a *)
(* classical gang, "alone" (standalone or independent), "scout", "worker";  *)
(* an "unpatched" pod was stored without the webhook's answer.              *)

PodGroups == Groups \X {"gang", "scout"}
Roles     == {"none", "member", "alone", "scout", "worker", "unpatched"}
Phases    == {"none", "stored", "bound", "done", "deleted"}
Live      == {"stored", "bound"}
Over      == {"done", "deleted"}
Deciding  == {"size", "admitted", "pods", "groups"}
Mutating  == {"resize", "ensure", "read", "patch", "elect", "scoutGroup",
              "workers", "gang", "answer"}
InFlight(p) == req[p].pc \in Deciding \cup Mutating

NoReading == [bound |-> {}, stored |-> {}, classical |-> {}, taken |-> FALSE]
IdleReq   == [pc |-> "new", n |-> 1, role |-> "none", seen |-> NoReading]
Handled   == [IdleReq EXCEPT !.pc = "over"]

ReadingType  == [bound : SUBSET Pods, stored : SUBSET Pods, classical : SUBSET Classical,
              taken : BOOLEAN]
RequestType  == [pc : {"new", "refused", "over"} \cup Deciding \cup Mutating,
              n : Nat \ {0}, role : Roles, seen : ReadingType]
PodGroupType == {v \in [exists : BOOLEAN, minCount : Nat, cores : Nat] :
                v.exists => v.minCount > 0}

(* Requests, objects and readings are typed: a size is never zero, and a    *)
(* PodGroup that exists waits for at least one pod.                         *)
TypeOK ==
  /\ req \in [Pods -> RequestType]
  /\ pod \in [Pods -> [phase : Phases, role : Roles]]
  /\ pg \in [PodGroups -> PodGroupType]
  /\ running \subseteq Classical
  /\ overlapped \in BOOLEAN
  /\ faults \in Nat

Init ==
  /\ req = [p \in Pods |-> IdleReq]
  /\ pod = [p \in Pods |-> [phase |-> "none", role |-> "none"]]
  /\ pg = [x \in PodGroups |-> [exists |-> FALSE, minCount |-> 0, cores |-> 0]]
  /\ running = High
  /\ overlapped = FALSE
  /\ faults = 0

-----------------------------------------------------------------------------
(* What Capacity computes from a reading of the pods and the PodGroups.     *)

\* The sidecar's request of 100m counts as one whole core, as PodCores rounds
\* every container up.
SidecarCores == 1
Counted(p) == Cores[p] + (IF pod[p].role = "scout" THEN SidecarCores ELSE 0)
CountedSum(S) == SumFunctionOnSet([p \in Pods |-> Counted(p)], S)

Protected(p) == pod[p].role \in {"alone", "scout", "worker"}
MembersOf(g) == {p \in Pods : GroupOf[p] = g /\ pod[p].role \in {"scout", "worker"}}
Positive(i)  == Max({0, i})

Budget == Positive(Allocatable - Reserve)

\* Seeded fault: the priority ceiling is forgotten.
PreemptibleAny(seen) ==
  CountedSum({p \in seen.bound : ~Protected(p)}) + Cardinality(seen.classical)

\* Running counts every bound pod, Preemptible the unprotected ones below the
\* ceiling.
RunningCores(seen) == CountedSum(seen.bound) + Cardinality(seen.classical)
Preemptible(seen) ==
  CountedSum({p \in seen.bound : ~Protected(p)}) + Cardinality(seen.classical \ High)
Reachable(seen) == Positive(Budget - RunningCores(seen)) + Preemptible(seen)

\* A record is a gang's PodGroup or a standalone pod; running members are taken
\* off it by the record's name, which a pod named by the API server does not
\* know at admission.
GangLeft(g, seen) ==
  Positive(pg[<<g, "gang">>].cores - CountedSum(seen.bound \cap MembersOf(g)))
AloneLeft(p, seen) ==
  Positive(Cores[p] - (IF p \in Named /\ p \in seen.bound THEN Counted(p) ELSE 0))
Promised(seen) ==
  SumFunctionOnSet([g \in Groups |-> GangLeft(g, seen)],
                   {g \in Groups : pg[<<g, "gang">>].cores > 0})
  + SumFunctionOnSet([p \in Pods |-> AloneLeft(p, seen)], seen.stored)

\* One list of the pods as they are.
Standing == {p \in Pods : pod[p].phase \in {"stored", "bound", "done"}}
Bound    == {p \in Pods : pod[p].phase = "bound"}
Reading  == [bound |-> Bound, stored |-> {p \in Standing : pod[p].role = "alone"},
             classical |-> running, taken |-> TRUE]

-----------------------------------------------------------------------------
(* The helpers every request uses.                                          *)

\* An API call succeeds, or fails within the bound.
Call(ok) ==
  /\ ok \/ faults < MaxFaults
  /\ faults' = IF ok THEN faults ELSE faults + 1

Goto(p, pc) == req' = [req EXCEPT ![p].pc = pc]

\* EnsurePodGroup: the first to create it decides the minCount.
Ensured(x, n, ok) ==
  IF pg[x].exists \/ ~ok THEN pg
  ELSE [pg EXCEPT ![x] = [exists |-> TRUE, minCount |-> Max({n, 1}), cores |-> 0]]

\* Pods the label selector of the gang finds: a scout's label is rewritten.
LabelCount(g) ==
  Cardinality({p \in Standing : /\ GroupOf[p] = g
                                /\ \/ pod[p].role = "worker"
                                   \/ p \in Labelled /\ pod[p].role # "scout"})

\* Seeded fault: a count of no pods is taken for the size.
ResolvedSizeAsCounted(p, ok) ==
  IF SizeFrom[p] = "annotation" \/ (SizeFrom[p] = "owner" /\ ok) THEN Size[p]
  ELSE IF GroupOf[p] = NoGroup \/ (SizeFrom[p] = "count" /\ ~ok) THEN 1
  ELSE LabelCount(GroupOf[p])

\* resolveGangSize; only the annotation needs no API call.
ResolvedSize(p, ok) ==
  IF SizeFrom[p] = "annotation" \/ (SizeFrom[p] = "owner" /\ ok) THEN Size[p]
  ELSE IF GroupOf[p] = NoGroup \/ (SizeFrom[p] = "count" /\ ~ok) THEN 1
  ELSE Max({1, LabelCount(GroupOf[p])})

\* resolveMinCount of the gang handler does not count.
ResolvedMinCount(p, ok) ==
  IF SizeFrom[p] = "annotation" \/ (SizeFrom[p] = "owner" /\ ok) THEN Size[p] ELSE 1

InGang(p, n) == p \in Shared /\ GroupOf[p] # NoGroup /\ n > 1
Want(p) == Cores[p] * (IF InGang(p, req[p].n) THEN req[p].n ELSE 1)

-----------------------------------------------------------------------------
(* One request.                                                             *)

\* MutateOrDeny: a quantum pod goes to the quantum handler, a grouped one to
\* the gang handler. A refused creation is tried again by its controller.
Arrive(p) ==
  /\ req[p].pc \in {"new", "refused"}
  /\ Cardinality({q \in Pods : InFlight(q)}) < MaxInFlight
  /\ req' = [req EXCEPT ![p] = [IdleReq EXCEPT
                !.pc = IF p \in SelfMarked THEN "refused"
                       ELSE IF p \in Quantum THEN "size" ELSE "gang",
                !.role = IF p \in Quantum THEN "none" ELSE "member"]]
  /\ UNCHANGED <<pod, pg, running, overlapped, faults>>

\* resolveGangSize in Admit and again in Mutate.
ResolveSize(p, ok) ==
  /\ req[p].pc \in {"size", "resize"} /\ Call(ok)
  /\ LET n == ResolvedSize(p, ok) IN
     req' = [req EXCEPT ![p].n = n,
               ![p].role = IF req[p].pc = "resize" /\ ~InGang(p, n) THEN "alone" ELSE @,
               ![p].pc = CASE req[p].pc = "size"   /\ InGang(p, n)  -> "admitted"
                           [] req[p].pc = "size"   /\ ~InGang(p, n) -> "pods"
                           [] req[p].pc = "resize" /\ InGang(p, n)  -> "ensure"
                           [] OTHER -> "answer"]
  /\ UNCHANGED <<pod, pg, running, overlapped>>

\* groupAdmitted: a gang with a record is not checked again.
GroupAdmitted(p, ok) ==
  /\ req[p].pc = "admitted" /\ Call(ok)
  /\ Goto(p, IF ok /\ pg[<<GroupOf[p], "gang">>].cores > 0 THEN "resize" ELSE "pods")
  /\ UNCHANGED <<pod, pg, running, overlapped>>

\* Capacity lists the nodes and the pods. An error admits.
ListPods(p, ok) ==
  /\ req[p].pc = "pods" /\ Call(ok)
  /\ req' = IF ok THEN [req EXCEPT ![p].pc = "groups", ![p].seen = Reading]
                  ELSE [req EXCEPT ![p].pc = "resize"]
  /\ overlapped' = (overlapped \/ \E q \in Pods \ {p} : InFlight(q) /\ req[q].seen.taken)
  /\ UNCHANGED <<pod, pg, running>>

\* Then the PodGroups, and Admit decides.
Admit(p, ok) ==
  /\ req[p].pc = "groups" /\ Call(ok)
  /\ req' = [req EXCEPT ![p].seen = [NoReading EXCEPT !.taken = TRUE],
       ![p].pc = IF ok /\ Want(p) + Promised(req[p].seen) > Reachable(req[p].seen)
                 THEN "refused" ELSE "resize"]
  /\ UNCHANGED <<pod, pg, running, overlapped>>

\* Seeded fault: the scout is counted into the workers' minCount.
EnsureGangWhole(p, ok) ==
  /\ req[p].pc \in {"ensure", "workers"} /\ Call(ok)
  /\ pg' = Ensured(<<GroupOf[p], "gang">>, req[p].n, ok)
  /\ Goto(p, CASE req[p].pc = "ensure" -> "read"
               [] req[p].pc = "workers" /\ p \in Labelled -> "gang"
               [] OTHER -> "answer")
  /\ UNCHANGED <<pod, running, overlapped>>

\* EnsurePodGroup of the gang with N-1, before the record and for a worker again.
EnsureGang(p, ok) ==
  /\ req[p].pc \in {"ensure", "workers"} /\ Call(ok)
  /\ pg' = Ensured(<<GroupOf[p], "gang">>, req[p].n - 1, ok)
  /\ Goto(p, CASE req[p].pc = "ensure" -> "read"
               [] req[p].pc = "workers" /\ p \in Labelled -> "gang"
               [] OTHER -> "answer")
  /\ UNCHANGED <<pod, running, overlapped>>

\* RecordAdmission writes the total once.
ReadRecord(p, ok) ==
  /\ req[p].pc = "read" /\ Call(ok)
  /\ LET x == <<GroupOf[p], "gang">> IN
     Goto(p, IF ok /\ pg[x].exists /\ pg[x].cores = 0 THEN "patch" ELSE "elect")
  /\ UNCHANGED <<pod, pg, running, overlapped>>

PatchRecord(p, ok) ==
  /\ req[p].pc = "patch" /\ Call(ok)
  /\ LET x == <<GroupOf[p], "gang">> IN
     pg' = IF ok /\ pg[x].exists THEN [pg EXCEPT ![x].cores = Want(p)] ELSE pg
  /\ Goto(p, "elect")
  /\ UNCHANGED <<pod, running, overlapped>>

\* isScout: completion index 0, or the absence of the scout's PodGroup.
IsScout(p, ok) ==
  IF p \in Indexed THEN p \in First ELSE ~ok \/ ~pg[<<GroupOf[p], "scout">>].exists

Elect(p, ok) ==
  /\ req[p].pc = "elect" /\ Call(ok)
  /\ LET scout == IsScout(p, ok) IN
     req' = [req EXCEPT ![p].role = IF scout THEN "scout" ELSE "worker",
                        ![p].pc = IF scout THEN "scoutGroup" ELSE "workers"]
  /\ overlapped' = (overlapped \/ \E q \in Pods \ {p} :
                      GroupOf[q] = GroupOf[p] /\ req[q].pc = "scoutGroup")
  /\ UNCHANGED <<pod, pg, running>>

\* Seeded fault: the scout ensures the gang's PodGroup instead of its own.
EnsureScoutOther(p, ok) ==
  /\ req[p].pc = "scoutGroup" /\ Call(ok)
  /\ pg' = Ensured(<<GroupOf[p], "gang">>, 1, ok)
  /\ Goto(p, "answer")
  /\ UNCHANGED <<pod, running, overlapped>>

EnsureScout(p, ok) ==
  /\ req[p].pc = "scoutGroup" /\ Call(ok)
  /\ pg' = Ensured(<<GroupOf[p], "scout">>, 1, ok)
  /\ Goto(p, "answer")
  /\ UNCHANGED <<pod, running, overlapped>>

\* The gang handler runs last. A labelled worker, whose qpu request is dropped
\* by then, is one of its pods.
GangHandler(p, sized, ok) ==
  /\ req[p].pc = "gang"
  /\ Call(sized /\ ok)
  /\ pg' = Ensured(<<GroupOf[p], "gang">>, ResolvedMinCount(p, sized), ok)
  /\ Goto(p, "answer")
  /\ UNCHANGED <<pod, running, overlapped>>

\* The pod is stored as patched.
Answer(p) ==
  /\ req[p].pc = "answer"
  /\ pod' = [pod EXCEPT ![p] = [phase |-> "stored", role |-> req[p].role]]
  /\ req' = [req EXCEPT ![p] = Handled]
  /\ UNCHANGED <<pg, running, overlapped, faults>>

\* The answer is used by nobody: another admission plugin refuses the creation.
LoseAnswer(p) ==
  /\ req[p].pc = "answer" /\ Call(FALSE)
  /\ req' = [req EXCEPT ![p] = IdleReq]
  /\ UNCHANGED <<pod, pg, running, overlapped>>

\* failurePolicy Ignore stores the pod without the answer when it takes too long.
TimeOut(p) ==
  /\ InFlight(p) /\ Call(FALSE)
  /\ pod' = [pod EXCEPT ![p] = [phase |-> "stored", role |-> "unpatched"]]
  /\ req' = [req EXCEPT ![p] = Handled]
  /\ UNCHANGED <<pg, running, overlapped>>
-----------------------------------------------------------------------------
(* The cluster around the webhook.                                          *)

Used == CountedSum(Bound) + Cardinality(running)

\* A worker's gate is lifted while, or after, its scout runs.
Ungated(p) ==
  pod[p].role = "worker" =>
    \E q \in Pods : /\ GroupOf[q] = GroupOf[p] /\ pod[q].role = "scout"
                    /\ pod[q].phase \in {"bound", "done", "deleted"}

\* Workers have the priority to evict, no more than it takes.
Bind(p) ==
  /\ pod[p].phase = "stored" /\ Ungated(p)
  /\ \E E \in SUBSET (running \ High) :
       /\ pod[p].role = "worker" \/ E = {}
       /\ Used + Counted(p) - Cardinality(E) <= Allocatable
       /\ E # {} => Used + Counted(p) - Cardinality(E) = Allocatable
       /\ running' = running \ E
  /\ pod' = [pod EXCEPT ![p].phase = "bound"]
  /\ UNCHANGED <<req, pg, overlapped, faults>>

Finish(p) ==
  /\ pod[p].phase = "bound"
  /\ pod' = [pod EXCEPT ![p].phase = "done"]
  /\ UNCHANGED <<req, pg, running, overlapped, faults>>

Delete(p) ==
  /\ pod[p].phase = "done"
  /\ pod' = [pod EXCEPT ![p].phase = "deleted"]
  /\ UNCHANGED <<req, pg, running, overlapped, faults>>

StartClassical(c) ==
  /\ c \in Classical \ (High \cup running) /\ Used < Allocatable
  /\ running' = running \cup {c}
  /\ UNCHANGED <<req, pod, pg, overlapped, faults>>

FinishClassical(c) ==
  /\ c \in running
  /\ running' = running \ {c}
  /\ UNCHANGED <<req, pod, pg, overlapped, faults>>

\* reconcileGroup: a group whose pods are all over, or one without pods that was
\* scheduled or is past the grace period, within which a gang's creations follow
\* each other; a gang's scout group goes with it.
LinkedTo(x) ==
  {p \in Standing : /\ GroupOf[p] = x[1]
                    /\ IF x[2] = "scout" THEN pod[p].role = "scout"
                       ELSE \/ pod[p].role \in {"worker", "member"}
                            \/ p \in Labelled /\ pod[p].role # "scout"}

\* Seeded fault: a group without pods is left for a later look.
ReapNonEmpty(x) ==
  /\ pg[x].exists
  /\ LinkedTo(x) # {} /\ \A p \in LinkedTo(x) : pod[p].phase = "done"
  /\ pg' = [pg EXCEPT ![x] = [exists |-> FALSE, minCount |-> 0, cores |-> 0]]
  /\ overlapped' = (overlapped \/ \E p \in Pods : GroupOf[p] = x[1] /\ InFlight(p))
  /\ UNCHANGED <<req, pod, running, faults>>

Reap(x) ==
  /\ pg[x].exists
  /\ \A p \in LinkedTo(x) : pod[p].phase = "done"
  /\ LinkedTo(x) = {} =>
       \/ \E p \in Pods : GroupOf[p] = x[1] /\ pod[p].phase = "deleted"
       \/ \A p \in Pods : GroupOf[p] = x[1] => req[p].pc = "over"
  /\ pg' = [y \in PodGroups |->
              IF y = x \/ (x[2] = "gang" /\ y = <<x[1], "scout">>)
              THEN [exists |-> FALSE, minCount |-> 0, cores |-> 0] ELSE pg[y]]
  /\ overlapped' = (overlapped \/ \E p \in Pods : GroupOf[p] = x[1] /\ InFlight(p))
  /\ UNCHANGED <<req, pod, running, faults>>

-----------------------------------------------------------------------------
Step(p, ok) ==
  \/ ResolveSize(p, ok) \/ GroupAdmitted(p, ok) \/ ListPods(p, ok) \/ Admit(p, ok)
  \/ EnsureGang(p, ok) \/ ReadRecord(p, ok) \/ PatchRecord(p, ok)
  \/ Elect(p, ok) \/ EnsureScout(p, ok)

Request(p) ==
  \/ Arrive(p)
  \/ \E ok \in BOOLEAN : Step(p, ok)
  \/ \E sized, ok \in BOOLEAN : GangHandler(p, sized, ok)
  \/ Answer(p) \/ LoseAnswer(p) \/ TimeOut(p)

Cluster ==
  \/ \E p \in Pods : Bind(p) \/ Finish(p) \/ Delete(p)
  \/ \E c \in Classical : StartClassical(c) \/ FinishClassical(c)
  \/ \E x \in PodGroups : Reap(x)

Next == Cluster \/ \E p \in Pods : Request(p)
Spec == Init /\ [][Next]_vars

\* The handler's goroutines run, controllers create refused pods again, the
\* scheduler retries, the reconciler sweeps, pods finish and are cleaned up.
Fairness ==
  /\ \A p \in Pods :
       /\ SF_vars(Arrive(p))
       /\ WF_vars(Step(p, TRUE) \/ GangHandler(p, TRUE, TRUE) \/ Answer(p))
       /\ SF_vars(Bind(p)) /\ WF_vars(Finish(p)) /\ WF_vars(Delete(p))
  /\ \A c \in High : WF_vars(FinishClassical(c))
  /\ \A x \in PodGroups : SF_vars(Reap(x))
FairSpec == Spec /\ Fairness

-----------------------------------------------------------------------------
(* Properties.                                                              *)

RecordedCores ==
  SumFunctionOnSet([g \in Groups |-> pg[<<g, "gang">>].cores], Groups)
  + SumFunctionOnSet(Cores, {p \in Standing : pod[p].role = "alone"})

\* What has been admitted fits at once: as long as no two requests read the
\* capacity side by side, no record was reaped under a request that had found it
\* and no call failed, the totals of all admission records and the pods nobody
\* can preempt stay within the budget (Capacity, Admit and RecordAdmission, over
\* every arrival, finish and reap). It is claimed of gangs whose size a template
\* or an owner gives: Admit and Mutate resolve it one after the other, and a
\* count may have grown in between.
RecordsWithinBudget ==
  ~overlapped /\ faults = 0 =>
    RecordedCores + Cardinality(running \cap High) <= Budget

\* Two members of a gang are never scouts at the same time: never in an indexed
\* Job, and otherwise as long as no two elections overlapped, no call failed and
\* no member is over (isScout, whose claim the reconciler reaps with the scout).
OneLiveScout ==
  \A p, q \in Pods :
    /\ p # q /\ GroupOf[p] = GroupOf[q] /\ GroupOf[p] # NoGroup
    /\ \/ {p, q} \subseteq Indexed
       \/ /\ {p, q} \cap Indexed = {} /\ ~overlapped /\ faults = 0
          /\ \A r \in Pods : GroupOf[r] = GroupOf[p] => pod[r].phase \notin Over
    => ~ \A r \in {p, q} : pod[r].role = "scout" /\ pod[r].phase \in Live

\* A gang's PodGroup never waits for more pods than the gang has workers, as long
\* as no call failed and none of its pods is over: EnsurePodGroup keeps the first
\* size it is given, and a labelled worker gives it two. Once the reconciler has
\* reaped the group, the gang handler may be the first with the size of the whole.
GangSized ==
  \A g \in Groups :
    LET members == {p \in Pods : GroupOf[p] = g}
        workers == members \cap Quantum \cap Shared
    IN  /\ faults = 0 /\ workers # {} /\ pg[<<g, "gang">>].exists
        /\ \A p \in members : pod[p].phase \notin Over
        => pg[<<g, "gang">>].minCount <= Max({1, Cardinality(workers) - 1})

\* A promise is only made to groups that have not started: a record all of
\* whose pods are over or running promises nothing.
PromisedToUnstarted ==
  \A p \in Reading.stored : pod[p].phase # "stored" => AloneLeft(p, Reading) = 0

\* Every creation is answered with a stored pod in the end: a refused one finds
\* room once others are over, and a gang's refusals do not feed each other.
EventuallyAdmitted ==
  \A p \in Pods \ SelfMarked : (req[p].pc = "new") ~> (pod[p].phase # "none")
=============================================================================
