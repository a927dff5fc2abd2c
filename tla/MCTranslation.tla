--------------------------- MODULE MCTranslation ---------------------------
(* Instances of Translation small enough for TLC: forests of up to three     *)
(* resources over one key, clusters of up to two nodes, groups of two pods.  *)
EXTENDS Translation

CONSTANTS qdevice, qpu, fpga, east, west, fez, shared, absent, h1, h2

OneKey     == {"region"}
MCRegistry == [r \in {shared} |-> [k \in OneKey |-> west]]

Inline(v)  == [ref |-> NoRef, inline |-> [k \in OneKey |-> v]]
Ref(r)     == [ref |-> r, inline |-> [k \in OneKey |-> Unset]]
AttrKinds  == {Inline(Unset), Inline(east), Inline(Cleared), Ref(shared)}

\* No resource, one, two and three, in every shape.
Shapes == {<<>>, <<0>>, <<0, 0>>, <<0, 1>>, <<0, 0, 2>>, <<0, 1, 1>>, <<0, 1, 2>>}

Conf(shape, types, attrs, first, where) ==
  [parent |-> shape, type |-> types, attrs |-> attrs,
   name   |-> [i \in DOMAIN shape |-> IF i = 1 THEN first ELSE NoName],
   attach |-> [i \in DOMAIN shape |-> IF i = 1 THEN where ELSE Cluster]]

\* Every shape up to three deep or wide, the attributes of every resource free.
MCConfs ==
  UNION {{Conf(shape, types, attrs, first, Cluster) :
            types \in {ts \in [DOMAIN shape -> {qdevice, qpu}] :
                         \A i \in DOMAIN shape : i # 2 => ts[i] = IF i = 1 THEN qdevice ELSE qpu},
            attrs \in [DOMAIN shape -> AttrKinds], first \in {fez, NoName}} :
          shape \in Shapes}
  \cup {Conf(<<0, 1>>, <<qdevice, t>>, <<Inline(east), a>>, fez, where) :
          t \in {qpu, NoType}, a \in {Inline(Unset), Ref(absent)}, where \in {Cluster, h1, h2}}

Host(n, cores, mem, off, control) ==
  [name |-> n, cores |-> cores, mem |-> mem, cordoned |-> off, control |-> control]
\* One node is in the graph, the other is cordoned or of the control plane.
MCHosts == {<<Host(h1, 3, 7, FALSE, FALSE), Host(h2, 2, 1, TRUE, FALSE)>>,
            <<Host(h2, 0, 4, FALSE, TRUE), Host(h1, 4, 3, FALSE, FALSE)>>}

Box(cpu, mem, devs) ==
  [cpu |-> cpu, mem |-> mem, dev |-> [t \in {qdevice, qpu, fpga} |-> IF t \in devs THEN 1 ELSE 0]]
Pod(containers, require) == [containers |-> containers, require |-> require]
MCPods == {Pod(<<Box(0, 0, {})>>, {}),
           Pod(<<Box(3, 5, {}), Box(2, 3, {})>>, {}),
           Pod(<<Box(3, 5, {qpu}), Box(2, 3, {})>>, {<<"region", west>>}),
           Pod(<<Box(3, 5, {qdevice}), Box(2, 3, {qpu})>>, {<<"backend", fez>>}),
           Pod(<<Box(0, 0, {fpga})>>, {})}
=============================================================================
