---------------------------- MODULE Translation ----------------------------
(***************************************************************************)
(* What the scheduler tells Fluxion and what it reads back: a configuration *)
(* is loaded and becomes a graph, a group of pods becomes jobspecs, Fluxion *)
(* matches one of them, and the allocation becomes a placement.             *)
(***************************************************************************)
EXTENDS Placement

CONSTANTS
  Confs,         (* configurations of virtual resources                      *)
  HostLists,     (* clusters: sequences of node records                      *)
  PodKinds,      (* pods as far as requests and constraints go               *)
  MaxGroup       (* bound: pods of a group                                   *)

\* A file lists a parent before its children; capacities and requests are
\* quantities; a pod constrains attributes and the backend.
ASSUME InputsAssumption ==
  /\ \A c \in Confs :
       /\ c.parent \in Seq(Nat)
       /\ \A i \in Resources(c) :
            /\ c.parent[i] < i
            /\ c.type[i] \in Types \cup {NoType}
            /\ c.name[i] \in Names \cup {NoName}
            /\ c.attrs[i].inline \in [Keys -> Values \cup {Unset, Cleared}]
  /\ \A hs \in HostLists :
       /\ Len(hs) \in Nat /\ DOMAIN hs = 1 .. Len(hs)
       /\ \A n \in DOMAIN hs : hs[n].cores \in Nat /\ hs[n].mem \in Nat
  /\ \A p \in PodKinds :
       /\ p.containers \in Seq([cpu : Nat, mem : Nat, dev : [Types -> Nat]])
       /\ p.require \subseteq (Keys \cup {"backend"}) \X (Values \cup Names)
  /\ MaxGroup \in Nat \ {0}

VARIABLES
  stage,         (* how far the translation has come                         *)
  conf, hosts,   (* the configuration and the cluster                        *)
  group,         (* the pods asked for                                       *)
  specs,         (* their jobspecs                                           *)
  alloc,         (* the node vertices of a match                             *)
  place          (* the placement read from it                               *)

vars == <<stage, conf, hosts, group, specs, alloc, place>>

NoPlace == [nodes |-> {}, backend |-> NoName, attrs |-> {}]
NoSpecs == [devices |-> {}]

Properties == {VirtualTrue, VirtualFalse} \cup {Class(t) : t \in Types}
                \cup (Keys \X Values) \cup ({"backend"} \X Names)
AllNames   == {hosts[i].name : i \in DOMAIN hosts} \cup Names \cup (Types \X Nat)

(* Vertices carry known properties only, and attributes are made of the      *)
(* user's keys and the backend.                                             *)
TypeOK ==
  /\ stage \in {"config", "loaded", "built", "failed", "refused", "asked", "matched", "placed"}
  /\ \A i \in DOMAIN alloc : alloc[i].props \subseteq Properties
  /\ place.nodes \subseteq AllNames
  /\ place.backend \in AllNames \cup {NoName}
  /\ place.attrs \subseteq (Keys \X Values) \cup ({"backend"} \X Names)

Init ==
  /\ stage = "config"
  /\ conf \in Confs /\ hosts \in HostLists
  /\ group = <<>> /\ specs = NoSpecs /\ alloc = <<>> /\ place = NoPlace

-----------------------------------------------------------------------------
LoadResourcesConfig ==
  /\ stage = "config"
  /\ stage' = IF Loads(conf) THEN "loaded" ELSE "failed"
  /\ UNCHANGED <<conf, hosts, group, specs, alloc, place>>

BuildGraph ==
  /\ stage = "loaded"
  /\ stage' = IF Builds(conf, hosts) THEN "built" ELSE "failed"
  /\ UNCHANGED <<conf, hosts, group, specs, alloc, place>>

\* PreFilter asks for the jobspecs of the group's pods.
Ask(pods, exclude) ==
  /\ stage = "built"
  /\ group' = pods
  /\ IF Refuses(pods, Advertised(conf)) THEN stage' = "refused" /\ specs' = specs
     ELSE stage' = "asked" /\ specs' = JobspecsForGroup(pods, exclude)
  /\ UNCHANGED <<conf, hosts, alloc, place>>

\* Fluxion grants the slots on nodes the jobspec does not exclude.
MatchCompute(on) ==
  /\ stage = "asked" /\ on # {}
  /\ on \subseteq HostNames(hosts) \ specs.compute.exclude
  /\ alloc' = SetToSeq({[name |-> h, props |-> {VirtualFalse}] : h \in on})
  /\ stage' = "matched"
  /\ UNCHANGED <<conf, hosts, group, specs, place>>

\* The way to a resource, from the root or from the leaf.
Ways(c, i) ==
  {way \in [1 .. Cardinality(Path(c)[i]) -> Path(c)[i]] :
     \/ \A m, n \in DOMAIN way : m < n => way[m] < way[n]
     \/ \A m, n \in DOMAIN way : m < n => way[m] > way[n]}

\* It grants a vertex the constraints reach, and lists the nodes on the way to it.
MatchDevice(spec, i) ==
  /\ stage = "asked" /\ Reaches(conf, spec.props, i)
  /\ \E way \in Ways(conf, i) :
       alloc' = [n \in DOMAIN way |-> [name  |-> VertexName(conf, way[n]),
                                       props |-> VirtualProperties(conf, way[n])]]
  /\ stage' = "matched"
  /\ UNCHANGED <<conf, hosts, group, specs, place>>

Place ==
  /\ stage = "matched"
  /\ place' = PlacementFromAllocation(alloc)
  /\ stage' = "placed"
  /\ UNCHANGED <<conf, hosts, group, specs, alloc>>

Next ==
  \/ LoadResourcesConfig \/ BuildGraph
  \/ \E n \in 1 .. MaxGroup : \E pods \in [1 .. n -> PodKinds] :
       \E exclude \in SUBSET HostNames(hosts) : Ask(pods, exclude)
  \/ \E on \in SUBSET HostNames(hosts) : MatchCompute(on)
  \/ \E spec \in specs.devices, i \in Resources(conf) : MatchDevice(spec, i)
  \/ Place

Spec == Init /\ [][Next]_vars

-----------------------------------------------------------------------------
(* Properties.                                                              *)

HasGraph == stage \in {"built", "refused", "asked", "matched", "placed"}
AtRoot   == \A i \in Top(conf) : conf.attach[i] = Cluster

(* Every vertex of a tree under the root can be asked for by its class: no   *)
(* ancestor is pruned on the way down (subtreeClasses).                      *)
ClassesReach ==
  HasGraph /\ AtRoot =>
    \A i \in Resources(conf) : Reaches(conf, {VirtualTrue, Class(conf.type[i])}, i)

(* So can it by an attribute of the top-level device nobody below it sets    *)
(* (resolveResourceInherited).                                              *)
InheritanceReaches ==
  HasGraph /\ AtRoot =>
    \A i \in Resources(conf), k \in Keys :
      LET top == CHOOSE t \in Top(conf) : t \in Path(conf)[i]
          val == Resolved(conf)[top][k]
      IN  /\ val # Unset
          /\ \A j \in Path(conf)[i] \ {top} : Own(conf, j)[k] = Unset
          => Reaches(conf, {VirtualTrue, Class(conf.type[i]), <<k, val>>}, i)

(* The graph promises no memory a node does not have, and keeps back less    *)
(* than one MiB per core (memoryChunkMiB).                                   *)
ChunksFit ==
  \A n \in DOMAIN hosts :
    LET h == hosts[n]
        all == Chunks(h.mem, h.cores) * Chunk(h.mem, h.cores)
    IN  /\ all <= h.mem
        /\ h.cores > 0 => h.mem - all < h.cores

(* A slot holds each pod of a group whose pods ask for the same compute,     *)
(* fractions and pods that ask for nothing included (podResources).          *)
RawCpu(p) == Total([i \in DOMAIN p.containers |-> p.containers[i].cpu])
RawMem(p) == Total([i \in DOMAIN p.containers |-> p.containers[i].mem])

SlotHoldsPod ==
  /\ stage \in {"asked", "matched", "placed"}
  /\ \A n, m \in DOMAIN group :
       RawCpu(group[n]) = RawCpu(group[m]) /\ RawMem(group[n]) = RawMem(group[m])
  => \A n \in DOMAIN group :
       /\ RawCpu(group[n]) <= specs.compute.core * Milli
       /\ RawMem(group[n]) <= specs.compute.memory * Mib

(* What any pod of the group required of its backend it reads back from the  *)
(* backend it was given (resources.go: "what a user can constrain on, they   *)
(* can also read back").                                                    *)
RequiredIsReadBack ==
  stage = "placed" /\ place.backend # NoName =>
    \A n \in DOMAIN group : group[n].require \subseteq place.attrs

(* A vertex under the root can be asked for by its class and any attribute   *)
(* it has (resources.go:171-174).                                           *)
OwnAttributeReaches ==
  HasGraph /\ AtRoot =>
    \A i \in Resources(conf), k \in Keys :
      Resolved(conf)[i][k] # Unset =>
        Reaches(conf, {VirtualTrue, Class(conf.type[i]), <<k, Resolved(conf)[i][k]>>}, i)

(* A group that asks for a device the graph does not have is refused         *)
(* (placement.go:323-325).                                                  *)
UnknownRefused ==
  stage \in {"asked", "matched", "placed"} => Requested(group) \subseteq Advertised(conf)

(* What is advertised can be matched (resources_graph.go:154-156).           *)
AdvertisedIsReached ==
  HasGraph => \A t \in Advertised(conf) :
    \E i \in Resources(conf) : Reaches(conf, {VirtualTrue, Class(t)}, i)
=============================================================================
