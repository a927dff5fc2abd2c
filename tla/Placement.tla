----------------------------- MODULE Placement -----------------------------
(***************************************************************************)
(* From a group's pods to jobspecs, and from an allocation back to nodes, a  *)
(* backend and its attributes (pkg/placement/placement.go).                 *)
(***************************************************************************)
EXTENDS ResourceGraph, FiniteSetsExt

CONSTANTS
  Milli,         (* millicores of a core                                     *)
  Mib            (* bytes of a MiB                                           *)

ASSUME UnitsAssumption == Milli \in Nat \ {0} /\ Mib \in Nat \ {0}

-----------------------------------------------------------------------------
(* Requests.                                                                *)

\* Seeded fault: a fraction is rounded down.
WholeDown(n, unit) == n \div unit

\* A quantity in whole units, rounded up.
Whole(n, unit) == (n + unit - 1) \div unit

Total(amounts) == SumFunction(amounts)

\* podResources: container by container, and never less than one core.
PodCores(p) ==
  Max({1, Total([i \in DOMAIN p.containers |-> Whole(p.containers[i].cpu, Milli)])})
PodMemory(p)     == Total([i \in DOMAIN p.containers |-> Whole(p.containers[i].mem, Mib)])
PodDevices(p, t) == Total([i \in DOMAIN p.containers |-> p.containers[i].dev[t]])

\* Devices are unioned: the most any pod of the group asks for.
DeviceCount(pods, t) == Max({PodDevices(pods[i], t) : i \in DOMAIN pods})

Requested(pods) == {t \in Types : DeviceCount(pods, t) > 0}

\* Seeded fault: only the first pod is asked for its constraints.
RequireOfFirst(pods) == pods[1].require

\* requireConstraintsFromPods: a set, whatever order the pods come in.
RequireConstraints(pods) == UNION {pods[i].require : i \in DOMAIN pods}

-----------------------------------------------------------------------------
(* Jobspecs.                                                                *)

\* One slot per pod, sized by the first pod, on physical nodes.
ComputeJobspec(pods, exclude) ==
  [slots |-> Len(pods), core |-> PodCores(pods[1]), memory |-> PodMemory(pods[1]),
   props |-> {VirtualFalse}, exclude |-> exclude]

\* So many nodes of the class, on virtual ones that meet the group's constraints.
DeviceJobspec(pods, t) ==
  [type |-> t, count |-> DeviceCount(pods, t),
   props |-> {VirtualTrue, Class(t)} \cup RequireConstraints(pods)]

\* A type the graph does not model is an error, if the graph models any.
Refuses(pods, known) == known # {} /\ ~(Requested(pods) \subseteq known)

JobspecsForGroup(pods, exclude) ==
  [compute |-> ComputeJobspec(pods, exclude),
   devices |-> {DeviceJobspec(pods, t) : t \in Requested(pods)}]

-----------------------------------------------------------------------------
(* Allocations: the node vertices of one match, in the order of the writer.  *)

IsVirtual(v) == VirtualTrue \in v.props

\* Seeded fault: every property is an attribute.
AllProperties(v) == v.props

\* Attributes are the properties under the Fluxion prefix, the backend's too.
BackendAttributes(v) == {pr \in v.props : pr[1] \in Keys \cup {"backend"}}

\* The first virtual vertex is the backend, the physical ones are bound to.
PlacementFromAllocation(alloc) ==
  LET first == SelectInSeq(alloc, IsVirtual)
  IN  [nodes   |-> {alloc[n].name : n \in {n \in DOMAIN alloc : ~IsVirtual(alloc[n])}},
       backend |-> IF first = 0 THEN NoName ELSE alloc[first].name,
       attrs   |-> IF first = 0 THEN {} ELSE BackendAttributes(alloc[first])]
=============================================================================
