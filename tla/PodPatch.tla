------------------------------ MODULE PodPatch ------------------------------
(***************************************************************************)
(* The JSON patch of the mutating webhook (pkg/webhook/handlers). Handlers   *)
(* run one after the other on a decoded copy of the pod; each emits patch    *)
(* operations and changes the copy in place, so that the next one sees what  *)
(* the patch will have made of the pod. The API server applies the patch to  *)
(* the pod as it was submitted, operation by operation, and refuses it whole *)
(* if one has no place to go. Election and sizing are in Admission.          *)
(*                                                                         *)
(* A document maps slots to sets of entries, or to Absent where the field is *)
(* missing, which is not to be empty. A slot is a field of the pod           *)
(* (container 0) or of a container. An entry is a name with its value or     *)
(* origin.                                                                  *)
(***************************************************************************)
EXTENDS Integers, Sequences, SequencesExt

CONSTANTS
  Containers,    (* how many containers a submitted pod has                  *)
  UserWords,     (* names and values users write                             *)
  Submissions,   (* pods as submitted                                        *)
  Flags,         (* values of --handlers                                     *)
  NotYet, Refused

VARIABLES
  submitted,     (* the pod as submitted                                     *)
  role,          (* what Mutate finds it to be: alone, scout or worker       *)
  active,        (* activeOrder                                              *)
  todo,          (* the handlers still to come                               *)
  work,          (* the copy changed in place, and what the patch so far     *)
                 (* makes of the submitted pod                               *)
  stored         (* the pod as stored                                        *)

vars == <<submitted, role, active, todo, work, stored>>

-----------------------------------------------------------------------------
PodFields == {"annotations", "labels", "volumes", "initContainers", "containers", "gates",
              "schedulingGroup", "serviceAccount", "priorityClass"}
Sidecar   == Containers + 1
Slots     == (PodFields \X {0}) \cup ({"env", "mounts", "requests"} \X (1 .. Sidecar))
Of(field) == <<field, 0>>
Env(c)      == <<"env", c>>
Mounts(c)   == <<"mounts", c>>
Requests(c) == <<"requests", c>>

Gang      == "gang"
ScoutGang == "gang-scout"

\* What the webhook writes: annotations, variables, everything else.
Dependencies   == {"depends-on-kind", "depends-on-scout", "depends-on-gate"}
OwnAnnotations == {"protected", "admitted-group", "admitted-cores"} \cup Dependencies
Injected       == {"FLUXION_BACKEND", "FLUXION_REGION"}
WorkerEnv      == {"FLUENCE_COORDINATION_ROLE", "FLUENCE_QUANTUM_JOB_ID",
                   "FLUENCE_QUANTUM_SESSION_ID"}
OwnEnv         == Injected \cup WorkerEnv \cup
                  {"PYTHONPATH", "FLUENCE_POD_UID", "FLUENCE_HANDOFF_DIR", "FLUENCE_REHEARSAL",
                   "FLUENCE_OBSERVE", "FLUENCE_GANG_GROUP"}
OwnWords       == {"fluence", "link", "stage", "handoff", "sidecar", "quantum",
                   "quantum-classical", "group", Gang, ScoutGang}

Words  == UserWords \cup OwnAnnotations \cup OwnEnv \cup OwnWords
Entry  == Words \X Words
\* Not a set of entries.
Absent == {<<>>}
Docs   == [Slots -> (SUBSET Entry) \cup {Absent}]

Entries(doc, slot) == IF doc[slot] = Absent THEN {} ELSE doc[slot]
Names(doc, slot)   == {x[1] : x \in Entries(doc, slot)}

EnvOnce(doc) ==
  \A c \in 1 .. Sidecar : \A x, y \in Entries(doc, Env(c)) : x[1] = y[1] => x = y

ASSUME ConstantsAssumption ==
  Containers \in Nat \ {0} /\ Refused \notin Docs /\ NotYet # Refused

\* A pod has its own containers only, no variable twice, and its gang is the
\* group it names (resolveGroup).
ASSUME SubmissionsAssumption ==
  /\ Submissions \subseteq Docs
  /\ \A pod \in Submissions :
       /\ EnvOnce(pod)
       /\ \A slot \in Slots : slot[2] = Sidecar => pod[slot] = Absent
       /\ \A x \in Entries(pod, Of("labels")) : x[1] = "group" => x[2] = Gang

(* Patch operations, those on the entries of one field taken together. "add"  *)
(* with a key or "/-" needs the map or list to exist, "put" is "add" of the    *)
(* whole field, "remove" needs the entry.                                     *)
Put(slot, xs)   == [op |-> "put", slot |-> slot, entries |-> xs]
Add(slot, xs)   == [op |-> "add", slot |-> slot, entries |-> xs]
Drop(slot, xs)  == [op |-> "remove", slot |-> slot, entries |-> xs]

Fits(doc, o) ==
  CASE o.op = "put"    -> TRUE
    [] o.op = "add"    -> doc[o.slot] # Absent
    [] o.op = "remove" -> o.entries \subseteq Entries(doc, o.slot)

\* A key of a map has one value, a list may name a thing twice.
Kept(doc, o) ==
  IF o.slot[1] \in {"annotations", "labels"}
  THEN {x \in Entries(doc, o.slot) : \A y \in o.entries : x[1] # y[1]}
  ELSE Entries(doc, o.slot)

Patched(doc, o) ==
  [doc EXCEPT ![o.slot] = CASE o.op = "put"    -> o.entries
                            [] o.op = "add"    -> Kept(doc, o) \cup o.entries
                            [] o.op = "remove" -> Entries(doc, o.slot) \ o.entries]

\* The API server's side: all of the patch or nothing.
Apply(doc, o) == IF doc # Refused /\ Fits(doc, o) THEN Patched(doc, o) ELSE Refused

-----------------------------------------------------------------------------
(* The builders' common ground: w is the work so far.                       *)

Emit(w, o) == [view |-> w.view, patched |-> Apply(w.patched, o)]
Both(w, o) == [view |-> Patched(w.view, o), patched |-> Apply(w.patched, o)]

\* The list is made with its first entry and appended to afterwards.
FirstOrNext(doc, slot, x) == IF Entries(doc, slot) = {} THEN Put(slot, {x}) ELSE Add(slot, {x})

\* Seeded fault: the list is taken to exist.
InsertNext(w, slot, x) == Both(w, Add(slot, {x}))

\* Seeded fault: the list is taken to be missing.
InsertFirst(w, slot, x) == Both(w, Put(slot, {x}))

Insert(w, slot, x) == Both(w, FirstOrNext(w.view, slot, x))

\* for i, c := range pod.Spec.Containers
EachContainer(w, op(_, _)) ==
  LET upTo[c \in 0 .. Containers] == IF c = 0 THEN w ELSE op(upTo[c - 1], c)
  IN  upTo[Containers]

\* Seeded fault: a variable the user defines is defined again.
SetEnvAgain(w, c, e) == Insert(w, Env(c), <<e, "fluence">>)

SetEnv(w, c, e) ==
  IF e \in Names(w.view, Env(c)) THEN w ELSE Insert(w, Env(c), <<e, "fluence">>)

SetContainerEnvOps(w, e) == EachContainer(w, LAMBDA s, c : SetEnv(s, c, e))

\* A container of a Fluxion resource gets InjectedEnv.
InjectEnv(w, c) ==
  IF Entries(w.view, Requests(c)) = {} THEN w
  ELSE SetEnv(SetEnv(w, c, "FLUXION_BACKEND"), c, "FLUXION_REGION")

InjectEnvOps(w) == EachContainer(w, InjectEnv)

Stamps(keys) == {<<k, "fluence">> : k \in keys}

\* Seeded fault: each annotation of a pod without any is added as a map.
AnnotateOneByOne(w, keys) ==
  IF w.view[Of("annotations")] = Absent
  THEN Both(w, Put(Of("annotations"), Stamps({CHOOSE k \in keys : TRUE})))
  ELSE Both(w, Add(Of("annotations"), Stamps(keys)))

\* annotateOps: one map for a pod without annotations, else key by key.
AnnotateOps(w, keys) ==
  Both(w, IF w.view[Of("annotations")] = Absent THEN Put(Of("annotations"), Stamps(keys))
          ELSE Add(Of("annotations"), Stamps(keys)))

\* annotateOp of the dependency leaves the copy as it is.
AnnotateOp(w, k) ==
  Emit(w, IF w.view[Of("annotations")] = Absent THEN Put(Of("annotations"), Stamps({k}))
          ELSE Add(Of("annotations"), Stamps({k})))

-----------------------------------------------------------------------------
(* What the quantum handler is put together from.                           *)

AdmissionOps(w, keys) == AnnotateOps(w, {"protected", "admitted-group"} \cup keys)

Intercept(w, c) ==
  LET t == SetEnv(Insert(w, Mounts(c), <<"stage", "fluence">>), c, "PYTHONPATH")
  IN  IF "FLUENCE_POD_UID" \in Names(w.view, Env(c)) THEN t
      ELSE Both(t, Add(Env(c), Stamps({"FLUENCE_POD_UID"})))

\* The staged package, its init container, and the way Python finds it.
InterceptorOps(w) ==
  LET stage  == <<"stage", "fluence">>
      volume == Insert(w, Of("volumes"), stage)
  IN  EachContainer(Emit(volume, FirstOrNext(w.view, Of("initContainers"), stage)), Intercept)

MountHandoff(w, c) == Insert(w, Mounts(c), <<"handoff", "fluence">>)

HandoffOps(w) ==
  IF "handoff" \in Names(w.view, Of("volumes")) THEN w
  ELSE SetContainerEnvOps(
         EachContainer(Insert(w, Of("volumes"), <<"handoff", "fluence">>), MountHandoff),
         "FLUENCE_HANDOFF_DIR")

Labelled(doc, label) == label \in Names(doc, Of("labels"))
Rehearsal(doc) == IF Labelled(doc, "rehearsal") THEN {"FLUENCE_REHEARSAL"} ELSE {}
RehearsalOps(w) ==
  IF Labelled(w.view, "rehearsal") THEN SetContainerEnvOps(w, "FLUENCE_REHEARSAL") ELSE w

\* One added container, with its variables, the credentials of the first
\* container, and the handoff volume where there is one.
SidecarContainerOps(w, extra) ==
  LET own    == {"FLUENCE_POD_UID"} \cup Injected \cup extra
      keys   == {e \in Entries(w.view, Env(1)) : e[2] = "secret" /\ e[1] \notin own}
      added  == Emit(w, FirstOrNext(w.view, Of("containers"), <<"sidecar", "fluence">>))
      mounts == {x \in Entries(w.view, Of("volumes")) : x[1] = "handoff"}
      filled == Emit(Emit(added, Put(Env(Sidecar), Stamps(own) \cup keys)),
                     Put(Mounts(Sidecar), mounts))
  IN  IF Names(w.view, Of("serviceAccount")) \subseteq {"default"}
      THEN Emit(filled, Put(Of("serviceAccount"), {<<"sidecar", "fluence">>})) ELSE filled

\* schedulingGroupOps, and the second half of linkGroupOps.
SchedulingGroupOps(w, g) ==
  IF w.view[Of("schedulingGroup")] = {<<g, "link">>} THEN w
  ELSE Emit(w, Put(Of("schedulingGroup"), {<<g, "link">>}))

LinkGroupOps(w, g) ==
  SchedulingGroupOps(
    IF <<"group", g>> \in Entries(w.view, Of("labels")) THEN w
    ELSE Emit(w, IF w.view[Of("labels")] = Absent THEN Put(Of("labels"), {<<"group", g>>})
                 ELSE Add(Of("labels"), {<<"group", g>>})), g)

\* gateWithName, with the priority that goes with a new gate.
GateOps(w) ==
  IF "quantum" \in Names(w.view, Of("gates")) THEN w
  ELSE LET gated == Emit(w, FirstOrNext(w.view, Of("gates"), <<"quantum", "fluence">>))
       IN  IF Entries(w.view, Of("priorityClass")) # {} THEN gated
           ELSE Emit(gated, Put(Of("priorityClass"), {<<"quantum-classical", "fluence">>}))

DependencyOps(w) ==
  AnnotateOp(AnnotateOp(AnnotateOp(GateOps(w), "depends-on-kind"), "depends-on-scout"),
             "depends-on-gate")

WorkerEnvOps(w) ==
  SetContainerEnvOps(
    SetContainerEnvOps(SetContainerEnvOps(w, "FLUENCE_COORDINATION_ROLE"),
                       "FLUENCE_QUANTUM_JOB_ID"),
    "FLUENCE_QUANTUM_SESSION_ID")

\* Requests and limits of an extended resource are the same, one entry here.
DropQpu(w, c) ==
  LET qpu == {x \in Entries(w.view, Requests(c)) : x[1] = "qpu"}
  IN  IF qpu = {} THEN w ELSE Both(w, Drop(Requests(c), qpu))

DropQuantumResourceOps(w) == EachContainer(w, DropQpu)

-----------------------------------------------------------------------------
(* The handlers.                                                            *)

RequestsQpu(doc)     == \E c \in 1 .. Containers : "qpu" \in Names(doc, Requests(c))
RequestsFluxion(doc) == \E c \in 1 .. Containers : Entries(doc, Requests(c)) # {}

Standalone(w) ==
  LET s == RehearsalOps(HandoffOps(InterceptorOps(AdmissionOps(w, {"admitted-cores"}))))
  IN  IF Labelled(w.view, "observe")
      THEN SidecarContainerOps(s, {"FLUENCE_OBSERVE"} \cup Rehearsal(w.view)) ELSE s

MutateScout(w) ==
  SidecarContainerOps(
    SetContainerEnvOps(HandoffOps(InterceptorOps(LinkGroupOps(w, ScoutGang))),
                       "FLUENCE_COORDINATION_ROLE"),
    {"FLUENCE_GANG_GROUP"} \cup Rehearsal(w.view))

MutateWorker(w) ==
  DropQuantumResourceOps(WorkerEnvOps(DependencyOps(LinkGroupOps(w, Gang))))

Mutate(w) ==
  IF role = "alone" THEN Standalone(w)
  ELSE LET s == RehearsalOps(AdmissionOps(w, {}))
       IN  IF role = "scout" THEN MutateScout(s) ELSE MutateWorker(s)

Turn(h) == todo # <<>> /\ Head(todo) = h /\ todo' = Tail(todo)

FluxionHandler ==
  /\ Turn("fluxion")
  /\ work' = IF RequestsFluxion(work.view) THEN InjectEnvOps(work) ELSE work
  /\ UNCHANGED <<submitted, role, active, stored>>

QuantumHandler ==
  /\ Turn("quantum")
  /\ work' = IF RequestsQpu(work.view) THEN Mutate(work) ELSE work
  /\ UNCHANGED <<submitted, role, active, stored>>

\* A labelled worker comes here too: its request is gone from the copy.
GangHandler ==
  /\ Turn("gang")
  /\ work' = IF ~RequestsQpu(work.view) /\ Labelled(work.view, "group")
             THEN SchedulingGroupOps(work, Gang) ELSE work
  /\ UNCHANGED <<submitted, role, active, stored>>

\* The API server applies the patch.
Store ==
  /\ todo = <<>> /\ stored = NotYet
  /\ stored' = work.patched
  /\ UNCHANGED <<submitted, role, active, todo, work>>

-----------------------------------------------------------------------------
DefaultHandlerOrder == <<"fluxion", "quantum", "gang">>

SetActiveHandlers(names) ==
  IF names = <<>> THEN DefaultHandlerOrder
  ELSE SelectSeq(names, LAMBDA h : h \in ToSet(DefaultHandlerOrder))

\* A pod is of a shared gang only by an annotation.
Init ==
  /\ submitted \in Submissions
  /\ role \in IF "coordination" \in Names(submitted, Of("annotations"))
              THEN {"scout", "worker"} ELSE {"alone"}
  /\ \E names \in Flags : active = SetActiveHandlers(names)
  /\ todo = active
  /\ work = [view |-> submitted, patched |-> submitted]
  /\ stored = NotYet

Next == FluxionHandler \/ QuantumHandler \/ GangHandler \/ Store

Spec == Init /\ [][Next]_vars

-----------------------------------------------------------------------------
(* Properties.                                                              *)

(* The copy and what the patch makes of the pod are documents, and no         *)
(* container ever has a variable twice.                                      *)
TypeOK ==
  /\ role \in {"alone", "scout", "worker"}
  /\ work \in [view : Docs, patched : Docs \cup {Refused}] /\ EnvOnce(work.view)
  /\ stored \in Docs \cup {NotYet, Refused}
  /\ stored \notin {NotYet, Refused} => EnvOnce(stored)

(* The API server never refuses the patch, whichever handlers run and in     *)
(* whatever order: no operation is built on a field that is not there when   *)
(* its turn comes (InjectEnvOps, interceptorOps, annotateOps and the others). *)
PatchApplies == stored # Refused

(* What the user submitted is stored, but for a scout's group, a worker's    *)
(* request for a qpu, annotations of the webhook's own names, and the fields  *)
(* that link a pod to its group and to the service account of its sidecar.    *)
NothingLost ==
  stored \notin {NotYet, Refused} =>
    \A slot \in Slots : \A x \in Entries(submitted, slot) :
      \/ x \in Entries(stored, slot)
      \/ role = "scout" /\ x[1] = "group"
      \/ role = "worker" /\ slot[1] = "requests" /\ x[1] = "qpu"
      \/ slot = Of("annotations") /\ x[1] \in OwnAnnotations
      \/ slot[1] \in {"schedulingGroup", "serviceAccount"}

Has(slot, names) == names \subseteq Names(stored, slot)

(* The stored pod has all that its role needs at run time: a worker the gate  *)
(* with its whole description, its role and no qpu; a pod that submits the    *)
(* staged package and a place to leave the job id; a scout's sidecar that     *)
(* place, the gang to release and the credentials of the application.         *)
RoleComplete ==
  stored \notin {NotYet, Refused} /\ active = DefaultHandlerOrder /\ RequestsQpu(submitted) =>
    /\ Has(Of("annotations"), {"protected", "admitted-group"})
    /\ \A c \in 1 .. Containers :
         /\ Entries(submitted, Requests(c)) # {} => Has(Env(c), Injected)
         /\ IF role = "worker" THEN Has(Env(c), WorkerEnv)
            ELSE /\ Has(Mounts(c), {"stage"})
                 /\ Has(Env(c), {"PYTHONPATH", "FLUENCE_POD_UID"})
                 /\ "handoff" \notin Names(submitted, Of("volumes")) =>
                      Has(Mounts(c), {"handoff"}) /\ Has(Env(c), {"FLUENCE_HANDOFF_DIR"})
    /\ role = "alone" => Has(Of("annotations"), {"admitted-cores"})
    /\ role = "worker" =>
         /\ Has(Of("annotations"), Dependencies) /\ Has(Of("gates"), {"quantum"})
         /\ stored[Of("schedulingGroup")] = {<<Gang, "link">>} /\ ~RequestsQpu(stored)
    /\ role = "scout" =>
         /\ stored[Of("schedulingGroup")] = {<<ScoutGang, "link">>}
         /\ <<"group", ScoutGang>> \in Entries(stored, Of("labels"))
         /\ Has(Mounts(Sidecar), {"handoff"}) /\ Has(Env(Sidecar), {"FLUENCE_GANG_GROUP"})
         /\ \A x \in Entries(submitted, Env(1)) : x[2] = "secret" => Has(Env(Sidecar), {x[1]})

(* A submitting pod's Python finds the staged package first                  *)
(* (quantum.go:538-539). It does not where a container has a PYTHONPATH.      *)
SubmitterIntercepted ==
  stored \notin {NotYet, Refused} /\ active = DefaultHandlerOrder /\ RequestsQpu(submitted)
  /\ role # "worker" =>
    \A c \in 1 .. Containers : <<"PYTHONPATH", "fluence">> \in Entries(stored, Env(c))
=============================================================================
