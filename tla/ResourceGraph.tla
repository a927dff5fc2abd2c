--------------------------- MODULE ResourceGraph ---------------------------
(***************************************************************************)
(* The Fluxion graph the scheduler starts from: the cluster's nodes and the *)
(* configured trees of virtual resources (pkg/cluster, pkg/jgf).            *)
(*                                                                         *)
(* A configuration numbers its resources in the order the file lists them,  *)
(* a parent before its children; 0 stands above the top-level ones. A vertex *)
(* property is the pair that ComposeProperty joins with "=".                *)
(***************************************************************************)
EXTENDS Integers, Sequences, FiniteSets, SequencesExt

CONSTANTS
  Types,         (* resource types                                           *)
  NoType,        (* the type of a resource that states none                  *)
  Keys,          (* attribute keys; none of them is "backend"                *)
  Values,
  Unset,         (* the key is absent                                        *)
  Cleared,       (* the key is set to the empty string                       *)
  Registry,      (* named attribute sets                                     *)
  NoRef,         (* the attributes are given inline                          *)
  Names,         (* explicit vertex names                                    *)
  NoName,
  Cluster        (* the root vertex                                          *)

ASSUME ResourceConstants ==
  /\ NoType \notin Types /\ NoName \notin Names /\ NoRef \notin DOMAIN Registry
  /\ Unset \notin Values /\ Cleared \notin Values /\ Unset # Cleared
  /\ Registry \in [DOMAIN Registry -> [Keys -> Values \cup {Unset, Cleared}]]
  /\ "backend" \notin Keys /\ {"virtual", "class"} \cap Keys = {}

-----------------------------------------------------------------------------
(* Loading a configuration.                                                 *)

Resources(c) == 1 .. Len(c.parent)
Top(c)       == {i \in Resources(c) : c.parent[i] = 0}

\* A configuration with a missing type or an unknown attribute set is refused.
Loads(c) ==
  \A i \in Resources(c) :
    c.type[i] # NoType /\ c.attrs[i].ref \in DOMAIN Registry \cup {NoRef}

Own(c, i) ==
  IF c.attrs[i].ref = NoRef THEN c.attrs[i].inline ELSE Registry[c.attrs[i].ref]

\* Seeded fault: a child starts from nothing.
MergeOwn(above, own) == [k \in Keys |-> IF own[k] = Cleared THEN Unset ELSE own[k]]

\* What a child sets overrides what it inherits, the empty string clears it.
Merge(above, own) ==
  [k \in Keys |-> CASE own[k] = Unset   -> above[k]
                    [] own[k] = Cleared -> Unset
                    [] OTHER            -> own[k]]

\* ResolvedAttributes of every resource.
Resolved(c) ==
  LET at[i \in Resources(c)] ==
        Merge(IF c.parent[i] = 0 THEN [k \in Keys |-> Unset] ELSE at[c.parent[i]],
              Own(c, i))
  IN  at

\* The resource and everything above it.
Path(c) ==
  LET at[i \in Resources(c)] ==
        {i} \cup IF c.parent[i] = 0 THEN {} ELSE at[c.parent[i]]
  IN  at

\* The name of the top-level device, threaded down to its descendants.
BackendName(c, i) == c.name[CHOOSE t \in Top(c) : t \in Path(c)[i]]

-----------------------------------------------------------------------------
(* The vertices.                                                            *)

VirtualTrue  == <<"virtual", "true">>
VirtualFalse == <<"virtual", "false">>
Class(t)     == <<"class", t>>
IsClass(pr)  == pr[1] = "class"

\* Seeded fault: a vertex advertises its own class only.
OwnClass(c, i) == {c.type[i]}

\* A vertex advertises the classes of its whole subtree.
SubtreeClasses(c, i) == {c.type[j] : j \in {j \in Resources(c) : i \in Path(c)[j]}}

VirtualProperties(c, i) ==
  {VirtualTrue}
    \cup {Class(t) : t \in SubtreeClasses(c, i)}
    \cup {<<k, Resolved(c)[i][k]>> : k \in {k \in Keys : Resolved(c)[i][k] # Unset}}
    \cup IF BackendName(c, i) = NoName THEN {} ELSE {<<"backend", BackendName(c, i)>>}

\* Cordoned and control-plane nodes are no part of the graph.
Kept(hosts) == {n \in DOMAIN hosts : ~hosts[n].cordoned /\ ~hosts[n].control}
HostNames(hosts) == {hosts[n].name : n \in Kept(hosts)}

\* A tree is attached to the root or to a physical node.
Builds(c, hosts) ==
  \A i \in Top(c) : c.attach[i] \in {Cluster} \cup HostNames(hosts)

\* The properties of every node vertex from the root down to a resource.
PathProperties(c, i) ==
  {VirtualProperties(c, j) : j \in Path(c)[i]}
    \cup {{VirtualFalse} : t \in {t \in Top(c) : t \in Path(c)[i] /\ c.attach[t] # Cluster}}

\* Where nobody names a vertex it is called after its type, with an index that
\* counts the vertices of that type from zero.
VertexName(c, i) ==
  IF c.name[i] # NoName THEN c.name[i]
  ELSE <<c.type[i], Cardinality({j \in 1 .. i - 1 : c.type[j] = c.type[i]})>>

\* Seeded fault: the chunk is rounded up.
ChunkUp(mem, cores) == IF cores = 0 THEN 0 ELSE (mem + cores - 1) \div cores

\* memoryChunkMiB: a node's memory, split over its cores.
Chunk(mem, cores) == IF cores = 0 THEN 0 ELSE mem \div cores
\* A node without whole chunks has no memory vertices, else one for every core.
Chunks(mem, cores) == IF Chunk(mem, cores) > 0 THEN cores ELSE 0

\* What the device plugin advertises and the scheduler knows as devices.
Advertised(c) == {c.type[i] : i \in Resources(c)}

-----------------------------------------------------------------------------
(* Fluxion's side of a constraint: it applies to every node vertex on the    *)
(* way down, and a mismatch prunes the subtree.                             *)

Reaches(c, props, i) == \A on \in PathProperties(c, i) : props \subseteq on
=============================================================================
