------------------------- MODULE TranslationProofs -------------------------
(***************************************************************************)
(* What the translation keeps for every configuration, cluster and group:   *)
(* the recursions along a tree have the values their equations say, and a   *)
(* sum of quantities rounded up is no less than the quantities.             *)
(***************************************************************************)
EXTENDS Translation, SumTheorems

-----------------------------------------------------------------------------
(* Recursion along a tree.                                                  *)

\* A value for every resource: at the top it is its base, below it is made of
\* the value above.
Descends(at, n, parent, base, step) ==
  at = [i \in 1 .. n |-> IF parent[i] = 0 THEN base[i] ELSE step[i][at[parent[i]]]]

LEMMA DescendsAt ==
  ASSUME NEW at, NEW n, NEW parent, NEW base, NEW step, Descends(at, n, parent, base, step),
         NEW i \in 1 .. n
  PROVE  at[i] = IF parent[i] = 0 THEN base[i] ELSE step[i][at[parent[i]]]
BY DEF Descends

LEMMA DescentExists ==
  ASSUME NEW n \in Nat, NEW parent, \A i \in 1 .. n : parent[i] \in Nat /\ parent[i] < i,
         NEW base, NEW step
  PROVE  \E at : Descends(at, n, parent, base, step)
<1> DEFINE F == {m \in 1 .. n : \E at : Descends(at, m, parent, base, step)}
<1>1. ASSUME NEW m \in 1 .. n, \A j \in 1 .. m - 1 : j \in F
      PROVE  m \in F
  <2>1. PICK at : Descends(at, m - 1, parent, base, step)
    <3>1. CASE m = 1
      <4> DEFINE none == [i \in 1 .. 0 |-> 0]
      <4>1. none = [i \in 1 .. 0 |-> IF parent[i] = 0 THEN base[i] ELSE step[i][none[parent[i]]]]
        OBVIOUS
      <4>2. Descends(none, m - 1, parent, base, step)
        <5>1. m - 1 = 0
          BY <3>1
        <5>. HIDE DEF none
        <5>. QED BY <4>1, <5>1 DEF Descends
      <4>. QED BY <4>2
    <3>2. CASE m # 1
      <4>1. m - 1 \in 1 .. m - 1
        BY <3>2
      <4>. QED BY <1>1, <4>1
    <3>. QED BY <3>1, <3>2
  <2> DEFINE up(i) == IF parent[i] = 0 THEN base[i] ELSE step[i][at[parent[i]]]
             bt == [i \in 1 .. m |-> up(i)]
  <2>2. \A i \in 1 .. m - 1 : bt[i] = at[i]
    BY <2>1, DescendsAt
  <2>3. \A i \in 1 .. m : parent[i] # 0 => bt[parent[i]] = at[parent[i]]
    <3>1. \A i \in 1 .. m : parent[i] # 0 => parent[i] \in 1 .. m - 1
      OBVIOUS
    <3>. HIDE DEF bt
    <3>. QED BY <2>2, <3>1
  <2>4. bt = [i \in 1 .. m |-> IF parent[i] = 0 THEN base[i] ELSE step[i][bt[parent[i]]]]
    BY <2>3
  <2>5. Descends(bt, m, parent, base, step)
    <3>. HIDE DEF bt
    <3>. QED BY <2>4 DEF Descends
  <2>. HIDE DEF bt
  <2>. QED BY <2>5
<1>2. \A m \in 1 .. n : m \in F
  <2>. HIDE DEF F
  <2>. QED BY <1>1, CountInduction
<1>3. CASE n = 0
  <2> DEFINE none == [i \in 1 .. n |-> 0]
  <2>1. none = [i \in 1 .. n |-> IF parent[i] = 0 THEN base[i] ELSE step[i][none[parent[i]]]]
    BY <1>3
  <2>2. Descends(none, n, parent, base, step)
    <3>. HIDE DEF none
    <3>. QED BY <2>1 DEF Descends
  <2>. QED BY <2>2
<1>4. CASE n # 0
  <2>1. n \in 1 .. n
    BY <1>4
  <2>. QED BY <1>2, <2>1
<1>. QED BY <1>3, <1>4

\* The value is of the type its parts make it.
LEMMA DescentTyped ==
  ASSUME NEW n \in Nat, NEW parent, \A i \in 1 .. n : parent[i] \in Nat /\ parent[i] < i,
         NEW base, NEW step, NEW at, Descends(at, n, parent, base, step),
         NEW D, \A i \in 1 .. n : base[i] \in D /\ \A d \in D : step[i][d] \in D
  PROVE  \A i \in 1 .. n : at[i] \in D
<1> DEFINE F == {i \in 1 .. n : at[i] \in D}
<1>1. ASSUME NEW i \in 1 .. n, \A j \in 1 .. i - 1 : j \in F PROVE i \in F
  <2>1. at[i] = IF parent[i] = 0 THEN base[i] ELSE step[i][at[parent[i]]]
    BY DescendsAt
  <2>2. parent[i] # 0 => at[parent[i]] \in D
    BY <1>1
  <2>. QED BY <2>1, <2>2
<1>2. \A i \in 1 .. n : i \in F
  <2>. HIDE DEF F
  <2>. QED BY <1>1, CountInduction
<1>. QED BY <1>2

-----------------------------------------------------------------------------
(* Paths of a configuration.                                                *)

LEMMA Parents ==
  ASSUME NEW c \in Confs
  PROVE  /\ Len(c.parent) \in Nat /\ Resources(c) = 1 .. Len(c.parent)
         /\ \A i \in Resources(c) : c.parent[i] \in Nat /\ c.parent[i] < i
BY InputsAssumption DEF Resources

LEMMA PathAt ==
  ASSUME NEW c \in Confs
  PROVE  \A i \in Resources(c) :
           Path(c)[i] = {i} \cup IF c.parent[i] = 0 THEN {} ELSE Path(c)[c.parent[i]]
<1> DEFINE n == Len(c.parent)
           base == [i \in 1 .. n |-> {i}]
           step == [i \in 1 .. n |-> [S \in SUBSET (1 .. n) |-> {i} \cup S]]
           Eq(at) == at = [i \in Resources(c) |->
                             {i} \cup IF c.parent[i] = 0 THEN {} ELSE at[c.parent[i]]]
<1>1. /\ n \in Nat /\ Resources(c) = 1 .. n
      /\ \A i \in 1 .. n : c.parent[i] \in Nat /\ c.parent[i] < i
  BY Parents
<1>2. PICK at : Descends(at, n, c.parent, base, step)
  <2>. HIDE DEF base, step, n
  <2>. QED BY <1>1, DescentExists
<1>3. \A i \in 1 .. n : at[i] \in SUBSET (1 .. n)
  <2> DEFINE D == SUBSET (1 .. n)
  <2>1. \A i \in 1 .. n : base[i] \in D /\ \A S \in D : step[i][S] \in D
    OBVIOUS
  <2>2. /\ n \in Nat /\ Descends(at, n, c.parent, base, step)
        /\ \A i \in 1 .. n : c.parent[i] \in Nat /\ c.parent[i] < i
        /\ \A i \in 1 .. n : base[i] \in D /\ \A S \in D : step[i][S] \in D
    <3>. HIDE DEF base, step, n, D
    <3>. QED BY <1>1, <1>2, <2>1
  <2>3. \A i \in 1 .. n : at[i] \in D
    <3>. HIDE DEF base, step, n, D
    <3>. QED BY ONLY <2>2, DescentTyped
  <2>. QED BY <2>3
<1>4. \A i \in 1 .. n : (IF c.parent[i] = 0 THEN base[i] ELSE step[i][at[c.parent[i]]])
                        = {i} \cup IF c.parent[i] = 0 THEN {} ELSE at[c.parent[i]]
  <2> SUFFICES ASSUME NEW i \in 1 .. n
      PROVE (IF c.parent[i] = 0 THEN base[i] ELSE step[i][at[c.parent[i]]])
            = {i} \cup IF c.parent[i] = 0 THEN {} ELSE at[c.parent[i]]
    OBVIOUS
  <2>1. CASE c.parent[i] = 0
    BY <2>1
  <2>2. CASE c.parent[i] # 0
    <3>1. c.parent[i] \in 1 .. n
      BY <1>1, <2>2
    <3>2. at[c.parent[i]] \in SUBSET (1 .. n)
      BY <1>3, <3>1
    <3>. QED BY <2>2, <3>2
  <2>. QED BY <2>1, <2>2
<1>5. Eq(at)
  <2>. HIDE DEF base, step, n
  <2>. QED BY <1>1, <1>2, <1>4 DEF Descends
<1>6. Path(c) = CHOOSE g : Eq(g)
  BY DEF Path
<1>7. Eq(Path(c))
  <2>. HIDE DEF Eq
  <2>. QED BY <1>5, <1>6
<1>. QED BY <1>7

\* A path goes up to one top-level resource.
LEMMA PathFacts ==
  ASSUME NEW c \in Confs
  PROVE  \A i \in Resources(c) :
           /\ Path(c)[i] \in SUBSET (1 .. i) /\ Path(c)[i] \subseteq Resources(c)
           /\ i \in Path(c)[i]
           /\ \E t \in Top(c) : Path(c)[i] \cap Top(c) = {t}
<1> DEFINE n == Len(c.parent)
           F == {i \in 1 .. n : /\ Path(c)[i] \in SUBSET (1 .. i) /\ i \in Path(c)[i]
                                /\ \E t \in Top(c) : Path(c)[i] \cap Top(c) = {t}}
<1>1. /\ n \in Nat /\ Resources(c) = 1 .. n
      /\ \A i \in 1 .. n : c.parent[i] \in Nat /\ c.parent[i] < i
  BY Parents
<1>2. ASSUME NEW i \in 1 .. n, \A j \in 1 .. i - 1 : j \in F PROVE i \in F
  <2>1. Path(c)[i] = {i} \cup IF c.parent[i] = 0 THEN {} ELSE Path(c)[c.parent[i]]
    BY <1>1, PathAt
  <2>2. i \in Top(c) <=> c.parent[i] = 0
    BY <1>1 DEF Top
  <2>3. CASE c.parent[i] = 0
    <3>1. Path(c)[i] = {i} /\ i \in Top(c)
      BY <2>1, <2>2, <2>3
    <3>. QED BY <3>1
  <2>4. CASE c.parent[i] # 0
    <3>1. c.parent[i] \in 1 .. i - 1 /\ c.parent[i] \in F
      BY <1>1, <1>2, <2>4
    <3>2. Path(c)[i] = {i} \cup Path(c)[c.parent[i]] /\ i \notin Top(c)
      BY <2>1, <2>2, <2>4
    <3>3. Path(c)[i] \cap Top(c) = Path(c)[c.parent[i]] \cap Top(c)
      BY <3>2
    <3>4. Path(c)[i] \in SUBSET (1 .. i) /\ i \in Path(c)[i]
      BY <3>1, <3>2
    <3>. QED BY <3>1, <3>3, <3>4
  <2>. QED BY <2>3, <2>4
<1>3. \A i \in 1 .. n : i \in F
  <2>. HIDE DEF F, n
  <2>. QED BY <1>1, <1>2, CountInduction
<1>4. \A i \in 1 .. n : 1 .. i \subseteq 1 .. n
  BY <1>1
<1>. QED BY <1>1, <1>3, <1>4

-----------------------------------------------------------------------------
(* Attributes along a path.                                                 *)

Given     == [Keys -> Values \cup {Unset, Cleared}]
Inherited == [Keys -> Values \cup {Unset}]

LEMMA OwnType ==
  ASSUME NEW c \in Confs, Loads(c), NEW i \in Resources(c)
  PROVE  Own(c, i) \in Given
<1>1. c.attrs[i].ref \in DOMAIN Registry \cup {NoRef} /\ c.attrs[i].inline \in Given
  BY InputsAssumption DEF Loads, Given
<1>2. Registry \in [DOMAIN Registry -> Given]
  BY ResourceConstants DEF Given
<1>. QED BY <1>1, <1>2 DEF Own

LEMMA MergeType ==
  ASSUME NEW above \in Inherited, NEW own \in Given
  PROVE  /\ Merge(above, own) \in Inherited
         /\ \A k \in Keys : own[k] = Unset => Merge(above, own)[k] = above[k]
<1>1. ASSUME NEW k \in Keys
      PROVE  (CASE own[k] = Unset -> above[k] [] own[k] = Cleared -> Unset
                [] OTHER -> own[k]) \in Values \cup {Unset}
  BY DEF Given, Inherited
<1>2. Merge(above, own) \in Inherited
  BY <1>1 DEF Merge, Inherited
<1>3. ASSUME NEW k \in Keys, own[k] = Unset PROVE Merge(above, own)[k] = above[k]
  BY <1>3, ResourceConstants DEF Merge
<1>. QED BY <1>2, <1>3

LEMMA ResolvedAt ==
  ASSUME NEW c \in Confs, Loads(c)
  PROVE  \A i \in Resources(c) :
           /\ Resolved(c)[i] \in Inherited
           /\ Resolved(c)[i] = Merge(IF c.parent[i] = 0 THEN [k \in Keys |-> Unset]
                                                        ELSE Resolved(c)[c.parent[i]],
                                     Own(c, i))
<1> DEFINE n == Len(c.parent)
           D == Inherited
           none == [k \in Keys |-> Unset]
           base == [i \in 1 .. n |-> Merge(none, Own(c, i))]
           step == [i \in 1 .. n |-> [r \in D |-> Merge(r, Own(c, i))]]
           Eq(at) == at = [i \in Resources(c) |->
                             Merge(IF c.parent[i] = 0 THEN none ELSE at[c.parent[i]], Own(c, i))]
<1>1. /\ n \in Nat /\ Resources(c) = 1 .. n
      /\ \A i \in 1 .. n : c.parent[i] \in Nat /\ c.parent[i] < i
  BY Parents
<1>2. PICK at : Descends(at, n, c.parent, base, step)
  <2>. HIDE DEF base, step, n
  <2>. QED BY <1>1, DescentExists
<1>3. \A i \in 1 .. n : base[i] \in D /\ \A r \in D : step[i][r] \in D
  <2>1. none \in D
    BY DEF Inherited
  <2>2. \A i \in 1 .. n : Own(c, i) \in Given
    BY <1>1, OwnType
  <2>3. \A i \in 1 .. n : \A r \in D : Merge(r, Own(c, i)) \in D
    BY <2>2, MergeType
  <2>. HIDE DEF D, none
  <2>. QED BY <2>1, <2>3
<1>4. \A i \in 1 .. n : at[i] \in D
  <2>1. /\ n \in Nat /\ Descends(at, n, c.parent, base, step)
        /\ \A i \in 1 .. n : c.parent[i] \in Nat /\ c.parent[i] < i
        /\ \A i \in 1 .. n : base[i] \in D /\ \A r \in D : step[i][r] \in D
    <3>. HIDE DEF base, step, n, D
    <3>. QED BY <1>1, <1>2, <1>3
  <2>. HIDE DEF base, step, n, D
  <2>. QED BY ONLY <2>1, DescentTyped
<1>5. ASSUME NEW i \in 1 .. n
      PROVE (IF c.parent[i] = 0 THEN base[i] ELSE step[i][at[c.parent[i]]])
            = Merge(IF c.parent[i] = 0 THEN none ELSE at[c.parent[i]], Own(c, i))
  <2>1. CASE c.parent[i] = 0
    <3>. HIDE DEF none
    <3>. QED BY <2>1
  <2>2. CASE c.parent[i] # 0
    <3>1. c.parent[i] \in 1 .. n
      BY <1>1, <2>2
    <3>2. at[c.parent[i]] \in D
      BY <1>4, <3>1
    <3>. HIDE DEF none, D
    <3>. QED BY <2>2, <3>2
  <2>. QED BY <2>1, <2>2
<1>6. Eq(at)
  <2>. HIDE DEF base, step, n, none
  <2>. QED BY <1>1, <1>2, <1>5 DEF Descends
<1>7. Resolved(c) = CHOOSE g : Eq(g)
  BY DEF Resolved
<1>8. Eq(Resolved(c))
  <2>. HIDE DEF Eq
  <2>. QED BY <1>6, <1>7
<1>9. ASSUME NEW i \in 1 .. n
      PROVE  Resolved(c)[i] = Merge(IF c.parent[i] = 0 THEN none ELSE Resolved(c)[c.parent[i]],
                                    Own(c, i))
  <2>. HIDE DEF none, n
  <2>. QED BY <1>1, <1>8
<1>10. \A i \in 1 .. n : Resolved(c)[i] \in D
  <2> DEFINE F == {i \in 1 .. n : Resolved(c)[i] \in D}
  <2>1. ASSUME NEW i \in 1 .. n, \A j \in 1 .. i - 1 : j \in F PROVE i \in F
    <3>1. (IF c.parent[i] = 0 THEN none ELSE Resolved(c)[c.parent[i]]) \in D
      <4>1. none \in D
        BY DEF Inherited
      <4>2. c.parent[i] # 0 => Resolved(c)[c.parent[i]] \in D
        BY <1>1, <2>1
      <4>. HIDE DEF none, D
      <4>. QED BY <4>1, <4>2
    <3>2. Own(c, i) \in Given
      BY <1>1, OwnType
    <3>. HIDE DEF none
    <3>. QED BY <1>9, <3>1, <3>2, MergeType
  <2>2. \A i \in 1 .. n : i \in F
    <3>. HIDE DEF F, n
    <3>. QED BY <1>1, <2>1, CountInduction
  <2>. QED BY <2>2
<1>. QED BY <1>1, <1>9, <1>10

\* What nobody below a resource sets they have from it.
LEMMA PassedDown ==
  ASSUME NEW c \in Confs, Loads(c), NEW k \in Keys, NEW t \in Top(c)
  PROVE  \A i \in Resources(c) :
           /\ t \in Path(c)[i]
           /\ \A j \in Path(c)[i] \ {t} : Own(c, j)[k] = Unset
           => \A j \in Path(c)[i] : Resolved(c)[j][k] = Resolved(c)[t][k]
<1> DEFINE Bare(i)  == t \in Path(c)[i] /\ \A j \in Path(c)[i] \ {t} : Own(c, j)[k] = Unset
           Same(i)  == \A j \in Path(c)[i] : Resolved(c)[j][k] = Resolved(c)[t][k]
           F == {i \in Resources(c) : Bare(i) => Same(i)}
<1>1. ASSUME NEW i \in Resources(c), \A j \in 1 .. i - 1 : j \in F, Bare(i)
      PROVE  Same(i)
  <2>1. /\ Path(c)[i] = {i} \cup IF c.parent[i] = 0 THEN {} ELSE Path(c)[c.parent[i]]
        /\ c.parent[i] \in Nat /\ c.parent[i] < i /\ i \in Nat
        /\ i \in Top(c) <=> c.parent[i] = 0
    BY PathAt, Parents DEF Top
  <2>2. CASE c.parent[i] = 0
    BY <1>1, <2>1, <2>2
  <2>3. CASE c.parent[i] # 0
    <3> DEFINE up == c.parent[i]
    <3>1. Path(c)[i] = {i} \cup Path(c)[up] /\ up \in 1 .. i - 1 /\ up \in Resources(c)
      BY <2>1, <2>3, Parents
    <3>2. i # t
      BY <2>1, <2>3
    <3>3. Bare(up)
      BY <1>1, <3>1, <3>2
    <3>4. Same(up)
      BY <1>1, <3>1, <3>3
    <3>5. Own(c, i)[k] = Unset
      BY <1>1, <3>1, <3>2
    <3>6. Resolved(c)[i] = Merge(Resolved(c)[up], Own(c, i)) /\ Resolved(c)[up] \in Inherited
      BY <2>3, <3>1, ResolvedAt
    <3>7. Resolved(c)[i][k] = Resolved(c)[up][k]
      BY <3>5, <3>6, OwnType, MergeType
    <3>8. up \in Path(c)[up]
      BY <3>1, PathFacts
    <3>. HIDE DEF up
    <3>. QED BY <3>1, <3>4, <3>7, <3>8
  <2>. QED BY <2>2, <2>3
<1>2. ASSUME NEW i \in 1 .. Len(c.parent), \A j \in 1 .. i - 1 : j \in F PROVE i \in F
  BY <1>1, <1>2, Parents
<1>3. \A i \in 1 .. Len(c.parent) : i \in F
  <2>. HIDE DEF F
  <2>. QED BY <1>2, Parents, CountInduction
<1>. QED BY <1>3, Parents

-----------------------------------------------------------------------------
(* What the vertices carry, and what reaches them.                          *)

LEMMA TopOfPath ==
  ASSUME NEW c \in Confs, NEW i \in Resources(c)
  PROVE  LET t == CHOOSE t \in Top(c) : t \in Path(c)[i]
         IN  t \in Top(c) /\ t \in Path(c)[i] /\ t \in Resources(c)
                          /\ Path(c)[i] \cap Top(c) = {t}
<1>1. PICK t \in Top(c) : Path(c)[i] \cap Top(c) = {t}
  BY PathFacts
<1>2. \E u \in Top(c) : u \in Path(c)[i]
  BY <1>1
<1> DEFINE u == CHOOSE u \in Top(c) : u \in Path(c)[i]
<1>3. u \in Top(c) /\ u \in Path(c)[i]
  BY <1>2
<1>4. u = t
  BY <1>1, <1>3
<1>. QED BY <1>1, <1>3, <1>4 DEF Top

LEMMA VertexType ==
  ASSUME NEW c \in Confs, Loads(c), NEW i \in Resources(c)
  PROVE  /\ VirtualProperties(c, i) \subseteq Properties
         /\ VirtualTrue \in VirtualProperties(c, i)
         /\ VertexName(c, i) \in Names \cup (Types \X Nat)
<1>1. \A j \in Resources(c) : c.type[j] \in Types
  BY InputsAssumption DEF Loads
<1>2. \A k \in Keys : Resolved(c)[i][k] \in Values \cup {Unset}
  BY ResolvedAt DEF Inherited
<1>3. BackendName(c, i) \in Names \cup {NoName}
  <2>1. (CHOOSE t \in Top(c) : t \in Path(c)[i]) \in Resources(c)
    BY TopOfPath
  <2>. QED BY <2>1, InputsAssumption DEF BackendName
<1>4. VirtualProperties(c, i) \subseteq Properties
  <2>1. {Class(t) : t \in SubtreeClasses(c, i)} \subseteq {Class(t) : t \in Types}
    BY <1>1 DEF SubtreeClasses
  <2>2. {<<k, Resolved(c)[i][k]>> : k \in {k \in Keys : Resolved(c)[i][k] # Unset}}
          \subseteq Keys \X Values
    BY <1>2
  <2>3. (IF BackendName(c, i) = NoName THEN {} ELSE {<<"backend", BackendName(c, i)>>})
          \subseteq {"backend"} \X Names
    BY <1>3
  <2>. QED BY <2>1, <2>2, <2>3 DEF VirtualProperties, Properties
<1>5. VertexName(c, i) \in Names \cup (Types \X Nat)
  <2> DEFINE same == {j \in 1 .. i - 1 : c.type[j] = c.type[i]}
  <2>1. Cardinality(same) \in Nat
    <3>1. IsFiniteSet(1 .. i - 1) /\ same \subseteq 1 .. i - 1
      BY FS_Interval, Parents
    <3>. HIDE DEF same
    <3>. QED BY <3>1, FS_Subset, FS_CardinalityType
  <2>2. c.name[i] \in Names \cup {NoName}
    BY InputsAssumption
  <2>. QED BY <1>1, <2>1, <2>2 DEF VertexName
<1>6. VirtualTrue \in VirtualProperties(c, i)
  BY DEF VirtualProperties
<1>. QED BY <1>4, <1>5, <1>6

\* A constraint reaches a resource of a tree under the root if every resource
\* above it meets it.
LEMMA ReachesUnderRoot ==
  ASSUME NEW c \in Confs, NEW i \in Resources(c), NEW props,
         \A t \in Top(c) : c.attach[t] = Cluster,
         \A j \in Path(c)[i] : props \subseteq VirtualProperties(c, j)
  PROVE  Reaches(c, props, i)
BY DEF Reaches, PathProperties

\* The class of a resource is on everything above it.
LEMMA ClassAbove ==
  ASSUME NEW c \in Confs, NEW i \in Resources(c), NEW j \in Path(c)[i]
  PROVE  {VirtualTrue, Class(c.type[i])} \subseteq VirtualProperties(c, j)
<1>1. c.type[i] \in SubtreeClasses(c, j)
  BY DEF SubtreeClasses
<1>. QED BY <1>1 DEF VirtualProperties

-----------------------------------------------------------------------------
(* Quantities.                                                              *)

LEMMA Distributes ==
  \A a, b, c \in Nat : (a + b) * c = a * c + b * c /\ a * c \in Nat
OBVIOUS

\* Whole units are enough for what they stand for.
LEMMA WholeCovers ==
  ASSUME NEW n \in Nat, NEW unit \in Nat \ {0}
  PROVE  Whole(n, unit) \in Nat /\ n <= Whole(n, unit) * unit
<1> DEFINE q == (n + unit - 1) \div unit
<1>1. /\ q \in Int
      /\ q * unit <= n + unit - 1 /\ n + unit - 1 < q * unit + unit
  OBVIOUS
<1>2. q >= 0
  OBVIOUS
<1>3. q * unit \in Int
  BY <1>1
<1>4. n <= q * unit
  <2>. HIDE DEF q
  <2>. QED BY <1>1, <1>3
<1>. QED BY <1>1, <1>2, <1>4 DEF Whole

LEMMA SumScaled ==
  ASSUME NEW S, IsFiniteSet(S), NEW u \in Nat, NEW f, NEW k,
         \A x \in S : f[x] \in Nat /\ k[x] \in Nat /\ k[x] <= f[x] * u
  PROVE  SumFunctionOnSet(k, S) <= SumFunctionOnSet(f, S) * u
<1> DEFINE F == {T \in SUBSET S : SumFunctionOnSet(k, T) <= SumFunctionOnSet(f, T) * u}
<1>1. {} \in F
  <2>1. SumFunctionOnSet(k, {}) = 0 /\ SumFunctionOnSet(f, {}) = 0
    BY SumEmpty
  <2>. QED BY <2>1
<1>2. ASSUME NEW T \in SUBSET S, NEW x \in S, T \in F, x \notin T PROVE T \cup {x} \in F
  <2>1. IsFiniteSet(T)
    BY FS_Subset
  <2>2. PICK a \in Nat, b \in Nat : a = SumFunctionOnSet(k, T) /\ b = SumFunctionOnSet(f, T)
    BY <2>1, SumRemove
  <2>3. /\ SumFunctionOnSet(k, T \cup {x}) = k[x] + a
        /\ SumFunctionOnSet(f, T \cup {x}) = f[x] + b
    BY <1>2, <2>1, <2>2, SumAdd
  <2>4. a <= b * u
    BY <1>2, <2>2
  <2>5. PICK kx \in Nat, fx \in Nat : kx = k[x] /\ fx = f[x] /\ kx <= fx * u
    BY <1>2
  <2>6. (fx + b) * u = fx * u + b * u /\ fx * u \in Nat /\ b * u \in Nat
    BY <2>2, <2>5, Distributes
  <2>7. kx + a <= (fx + b) * u
    BY <2>4, <2>5, <2>6
  <2>. QED BY <2>3, <2>5, <2>7
<1>3. \A T \in SUBSET S : T \in F
  <2>. HIDE DEF F
  <2>. QED BY <1>1, <1>2, ElementInduction
<1>. QED BY <1>3

LEMMA PodHeld ==
  ASSUME NEW p \in PodKinds
  PROVE  RawCpu(p) <= PodCores(p) * Milli /\ RawMem(p) <= PodMemory(p) * Mib
<1> DEFINE D == DOMAIN p.containers
           cpu == [i \in D |-> p.containers[i].cpu]
           mem == [i \in D |-> p.containers[i].mem]
           cores == [i \in D |-> Whole(p.containers[i].cpu, Milli)]
           mibs == [i \in D |-> Whole(p.containers[i].mem, Mib)]
<1>1. /\ IsFiniteSet(D)
      /\ \A i \in D : p.containers[i].cpu \in Nat /\ p.containers[i].mem \in Nat
  <2> DEFINE Container == [cpu : Nat, mem : Nat, dev : [Types -> Nat]]
  <2>1. p.containers \in Seq(Container)
    BY InputsAssumption
  <2>2. D = 1 .. Len(p.containers) /\ Len(p.containers) \in Nat
    BY <2>1
  <2>3. IsFiniteSet(1 .. Len(p.containers))
    BY <2>2, FS_Interval
  <2>4. \A i \in D : p.containers[i] \in Container
    <3>. HIDE DEF Container, D
    <3>. QED BY <2>1, <2>2
  <2>. QED BY <2>2, <2>3, <2>4
<1>2. /\ RawCpu(p) = SumFunctionOnSet(cpu, D) /\ RawMem(p) = SumFunctionOnSet(mem, D)
      /\ PodMemory(p) = SumFunctionOnSet(mibs, D)
      /\ PodCores(p) = Max({1, SumFunctionOnSet(cores, D)})
  BY DEF RawCpu, RawMem, PodMemory, PodCores, Total, SumFunction
<1>3. \A i \in D : /\ cores[i] \in Nat /\ cpu[i] \in Nat /\ cpu[i] <= cores[i] * Milli
                   /\ mibs[i] \in Nat /\ mem[i] \in Nat /\ mem[i] <= mibs[i] * Mib
  BY <1>1, UnitsAssumption, WholeCovers
<1>. HIDE DEF D, cpu, mem, cores, mibs
<1>4. SumFunctionOnSet(cpu, D) <= SumFunctionOnSet(cores, D) * Milli
  BY <1>1, <1>3, UnitsAssumption, SumScaled
<1>5. SumFunctionOnSet(mem, D) <= SumFunctionOnSet(mibs, D) * Mib
  BY <1>1, <1>3, UnitsAssumption, SumScaled
<1>6. PICK n \in Nat, a \in Nat : n = SumFunctionOnSet(cores, D) /\ a = SumFunctionOnSet(cpu, D)
  BY <1>1, <1>3, SumRemove
<1>7. PICK m \in Nat : m = Max({1, n}) /\ n <= m
  <2>1. \E x \in {1, n} : \A y \in {1, n} : x >= y
    BY <1>6
  <2>2. Max({1, n}) \in {1, n} /\ \A y \in {1, n} : Max({1, n}) >= y
    BY <2>1 DEF Max
  <2>. QED BY <2>2
<1>8. a <= n * Milli /\ n * Milli <= m * Milli
  <2>1. \A x, y, z \in Nat : x <= y => x * z <= y * z
    OBVIOUS
  <2>. QED BY <1>4, <1>6, <1>7, <2>1, UnitsAssumption
<1>9. a <= m * Milli
  <2>1. PICK b \in Nat, d \in Nat : b = n * Milli /\ d = m * Milli
    BY <1>6, <1>7, UnitsAssumption, Distributes
  <2>. QED BY <1>8, <2>1
<1>. QED BY <1>2, <1>5, <1>6, <1>7, <1>9

LEMMA ChunkHeld ==
  ASSUME NEW mem \in Nat, NEW cores \in Nat
  PROVE  /\ Chunks(mem, cores) * Chunk(mem, cores) <= mem
         /\ cores > 0 => mem - Chunks(mem, cores) * Chunk(mem, cores) < cores
<1>1. CASE cores = 0
  BY <1>1 DEF Chunks, Chunk
<1>2. CASE cores # 0
  <2> DEFINE q == mem \div cores
  <2>1. q \in Int /\ cores * q <= mem /\ mem < cores * q + cores /\ cores * q \in Int
    BY <1>2
  <2>2. q >= 0
    BY <1>2
  <2>3. Chunk(mem, cores) = q /\ Chunks(mem, cores) = IF q > 0 THEN cores ELSE 0
    BY <1>2 DEF Chunk, Chunks
  <2>4. CASE q > 0
    <3>. HIDE DEF q
    <3>. QED BY <2>1, <2>3, <2>4
  <2>5. CASE q = 0
    <3>1. cores * 0 = 0 /\ 0 * 0 = 0
      OBVIOUS
    <3>. HIDE DEF q
    <3>. QED BY <2>1, <2>3, <2>5, <3>1
  <2>. QED BY <2>1, <2>2, <2>4, <2>5
<1>. QED BY <1>1, <1>2

-----------------------------------------------------------------------------
(* Reading an allocation.                                                   *)

LEMMA FirstVirtual ==
  ASSUME NEW n \in Nat, NEW a, Len(a) = n, DOMAIN a = 1 .. n
  PROVE  LET first == SelectInSeq(a, IsVirtual)
         IN  first # 0 => first \in DOMAIN a /\ IsVirtual(a[first])
<1> DEFINE I == {i \in 1 .. Len(a) : IsVirtual(a[i])}
<1>1. CASE I = {}
  BY <1>1 DEF SelectInSeq
<1>2. CASE I # {}
  <2>1. \E i \in I : \A j \in I : i <= j
    <3> DEFINE F == {i \in 1 .. n : i \in I => \E l \in I : \A j \in I : l <= j}
    <3>1. ASSUME NEW i \in 1 .. n, \A j \in 1 .. i - 1 : j \in F PROVE i \in F
      <4>1. CASE \E j \in I : j < i
        <5>1. PICK j \in I : j < i
          BY <4>1
        <5>2. j \in 1 .. i - 1
          BY <5>1
        <5>. QED BY <3>1, <5>1, <5>2
      <4>2. CASE ~\E j \in I : j < i
        <5>1. \A j \in I : i <= j
          BY <4>2
        <5>. QED BY <5>1
      <4>. QED BY <4>1, <4>2
    <3>2. \A i \in 1 .. n : i \in F
      <4>. HIDE DEF F
      <4>. QED BY <3>1, CountInduction
    <3>. QED BY <1>2, <3>2
  <2>2. SelectInSeq(a, IsVirtual) = Min(I)
    BY <1>2 DEF SelectInSeq
  <2>3. Min(I) \in I
    <3>. HIDE DEF I
    <3>. QED BY <2>1 DEF Min
  <2>. QED BY <2>2, <2>3
<1>. QED BY <1>1, <1>2

\* A placement is made of what the vertices carry: the backend is the name of
\* a virtual one, and its attributes are all that one can be asked for.
LEMMA PlacementRead ==
  ASSUME NEW n \in Nat, NEW a, Len(a) = n, DOMAIN a = 1 .. n
  PROVE  LET pl == PlacementFromAllocation(a)
         IN  /\ pl.nodes \subseteq {a[i].name : i \in DOMAIN a}
             /\ \/ pl.backend = NoName /\ pl.attrs = {}
                \/ \E i \in DOMAIN a : /\ IsVirtual(a[i]) /\ pl.backend = a[i].name
                                       /\ pl.attrs = BackendAttributes(a[i])
<1> DEFINE first == SelectInSeq(a, IsVirtual)
           nodes == {a[i].name : i \in {i \in DOMAIN a : ~IsVirtual(a[i])}}
<1>1. first # 0 => first \in DOMAIN a /\ IsVirtual(a[first])
  BY FirstVirtual
<1>2. PlacementFromAllocation(a) =
        [nodes   |-> nodes,
         backend |-> IF first = 0 THEN NoName ELSE a[first].name,
         attrs   |-> IF first = 0 THEN {} ELSE BackendAttributes(a[first])]
  BY DEF PlacementFromAllocation
<1>3. nodes \subseteq {a[i].name : i \in DOMAIN a}
  OBVIOUS
<1>. HIDE DEF first, nodes
<1>. QED BY <1>1, <1>2, <1>3

-----------------------------------------------------------------------------
(* The translation.                                                         *)

\* What a vertex of the allocation is to the group that got it.
Granted(v) ==
  /\ v.name \in AllNames /\ v.props \subseteq Properties
  /\ IsVirtual(v) => RequireConstraints(group) \subseteq v.props

TransInv ==
  /\ stage \in {"config", "loaded", "built", "failed", "refused", "asked", "matched", "placed"}
  /\ conf \in Confs /\ hosts \in HostLists
  /\ stage \notin {"config", "failed"} => Loads(conf)
  /\ stage \in {"asked", "matched", "placed"} =>
       /\ \E n \in 1 .. MaxGroup : group \in [1 .. n -> PodKinds]
       /\ \E exclude \in SUBSET HostNames(hosts) : specs = JobspecsForGroup(group, exclude)
  /\ Len(alloc) \in Nat /\ DOMAIN alloc = 1 .. Len(alloc)
  /\ stage \notin {"matched", "placed"} => alloc = <<>>
  /\ \A i \in DOMAIN alloc : Granted(alloc[i])
  /\ place = IF stage = "placed" THEN PlacementFromAllocation(alloc) ELSE NoPlace

LEMMA TransInit == Init => TransInv
BY DEF Init, TransInv, Granted

LEMMA ImageFinite ==
  ASSUME NEW S, IsFiniteSet(S), NEW f
  PROVE  IsFiniteSet({f[x] : x \in S})
<1> DEFINE T == {f[x] : x \in S}
           g == [x \in S |-> f[x]]
<1>1. g \in Surjection(S, T)
  BY DEF Surjection
<1>. QED BY <1>1, FS_Surjection

LEMMA SeqOfSet ==
  ASSUME NEW S, IsFiniteSet(S)
  PROVE  /\ Cardinality(S) \in Nat
         /\ SetToSeq(S) \in [1 .. Cardinality(S) -> S]
<1>1. Cardinality(S) \in Nat /\ ExistsBijection(1 .. Cardinality(S), S)
  BY FS_CardinalityType
<1>2. \E f \in [1 .. Cardinality(S) -> S] : IsInjective(f)
  BY <1>1 DEF ExistsBijection, Bijection, Injection, IsInjective
<1>. QED BY <1>1, <1>2 DEF SetToSeq

\* What the constraints of a device jobspec are.
LEMMA DeviceAsks ==
  ASSUME TransInv, stage = "asked", NEW spec \in specs.devices
  PROVE  RequireConstraints(group) \subseteq spec.props
<1>1. PICK exclude \in SUBSET HostNames(hosts) : specs = JobspecsForGroup(group, exclude)
  BY DEF TransInv
<1>2. specs.devices = {DeviceJobspec(group, t) : t \in Requested(group)}
  BY <1>1 DEF JobspecsForGroup
<1>. QED BY <1>2 DEF DeviceJobspec

\* Fluxion gives physical nodes for the slots.
LEMMA ComputeStep ==
  ASSUME TransInv, NEW on \in SUBSET HostNames(hosts), MatchCompute(on)
  PROVE  TransInv'
<1> DEFINE S == {[name |-> h, props |-> {VirtualFalse}] : h \in on}
<1>1. IsFiniteSet(S)
  <2>1. IsFiniteSet(DOMAIN hosts)
    <3>1. DOMAIN hosts = 1 .. Len(hosts) /\ Len(hosts) \in Nat
      BY InputsAssumption DEF TransInv
    <3>. QED BY <3>1, FS_Interval
  <2>2. IsFiniteSet(Kept(hosts))
    BY <2>1, FS_Subset DEF Kept
  <2>3. IsFiniteSet({hosts[n].name : n \in Kept(hosts)})
    <3> DEFINE f == [n \in Kept(hosts) |-> hosts[n].name]
    <3>1. IsFiniteSet({f[n] : n \in Kept(hosts)})
      <4>. HIDE DEF f
      <4>. QED BY <2>2, ImageFinite
    <3>. QED BY <3>1
  <2>4. IsFiniteSet(on)
    BY <2>3, FS_Subset DEF HostNames
  <2> DEFINE f == [h \in on |-> [name |-> h, props |-> {VirtualFalse}]]
  <2>5. IsFiniteSet({f[h] : h \in on})
    <3>. HIDE DEF f
    <3>. QED BY <2>4, ImageFinite
  <2>. QED BY <2>5
<1>2. alloc' = SetToSeq(S) /\ stage' = "matched"
      /\ UNCHANGED <<conf, hosts, group, specs, place>> /\ stage = "asked"
  BY DEF MatchCompute
<1>3. Cardinality(S) \in Nat /\ alloc' \in [1 .. Cardinality(S) -> S]
  <2>. HIDE DEF S
  <2>. QED BY <1>1, <1>2, SeqOfSet
<1>4. Len(alloc') \in Nat /\ DOMAIN alloc' = 1 .. Len(alloc')
  <2>. HIDE DEF S
  <2>. QED BY <1>3
<1>5. ASSUME NEW v \in S PROVE Granted(v)'
  <2>1. PICK h \in on : v = [name |-> h, props |-> {VirtualFalse}]
    OBVIOUS
  <2>2. h \in {hosts[i].name : i \in DOMAIN hosts}
    BY <2>1 DEF HostNames, Kept
  <2>3. ~IsVirtual(v)
    BY <2>1 DEF IsVirtual, VirtualTrue, VirtualFalse
  <2>4. v.name \in AllNames' /\ v.props \subseteq Properties'
    BY <1>2, <2>1, <2>2 DEF AllNames, Properties
  <2>. QED BY <2>3, <2>4 DEF Granted
<1>6. \A i \in DOMAIN alloc' : Granted(alloc[i])'
  <2>1. \A i \in DOMAIN alloc' : alloc'[i] \in S
    <3>. HIDE DEF S
    <3>. QED BY <1>3
  <2>. HIDE DEF S
  <2>. QED BY <1>5, <2>1 DEF Granted
<1>. QED BY <1>2, <1>4, <1>6 DEF TransInv

\* Fluxion gives a resource the constraints reach: each node on the way has all
\* the group requires.
LEMMA DeviceStep ==
  ASSUME TransInv, NEW spec \in specs.devices, NEW i \in Resources(conf), MatchDevice(spec, i)
  PROVE  TransInv'
<1>1. PICK way \in Ways(conf, i) :
        alloc' = [n \in DOMAIN way |-> [name  |-> VertexName(conf, way[n]),
                                        props |-> VirtualProperties(conf, way[n])]]
  BY DEF MatchDevice
<1>2. /\ stage = "asked" /\ stage' = "matched" /\ UNCHANGED <<conf, hosts, group, specs, place>>
      /\ conf \in Confs /\ Loads(conf)
      /\ Reaches(conf, spec.props, i)
  BY DEF MatchDevice, TransInv
<1>3. Cardinality(Path(conf)[i]) \in Nat /\ Path(conf)[i] \subseteq Resources(conf)
  <2>1. Path(conf)[i] \in SUBSET (1 .. i) /\ Path(conf)[i] \subseteq Resources(conf) /\ i \in Nat
    BY <1>2, PathFacts, Parents
  <2>2. IsFiniteSet(1 .. i)
    BY <2>1, FS_Interval
  <2>. QED BY <2>1, <2>2, FS_Subset, FS_CardinalityType
<1>4. way \in [1 .. Cardinality(Path(conf)[i]) -> Path(conf)[i]]
  BY DEF Ways
<1>5. Len(alloc') \in Nat /\ DOMAIN alloc' = 1 .. Len(alloc')
  BY <1>1, <1>3, <1>4
<1>6. ASSUME NEW n \in DOMAIN alloc' PROVE Granted(alloc[n])'
  <2>1. /\ n \in DOMAIN way /\ way[n] \in Path(conf)[i] /\ way[n] \in Resources(conf)
        /\ alloc'[n].name = VertexName(conf, way[n])
        /\ alloc'[n].props = VirtualProperties(conf, way[n])
    BY <1>1, <1>3, <1>4
  <2>2. spec.props \subseteq VirtualProperties(conf, way[n])
    BY <1>2, <2>1 DEF Reaches, PathProperties
  <2>3. RequireConstraints(group) \subseteq spec.props
    BY <1>2, DeviceAsks
  <2>4. /\ VirtualProperties(conf, way[n]) \subseteq Properties
        /\ VertexName(conf, way[n]) \in Names \cup (Types \X Nat)
    BY <1>2, <2>1, VertexType
  <2>5. alloc'[n].name \in AllNames' /\ alloc'[n].props \subseteq Properties'
    BY <2>1, <2>4 DEF AllNames, Properties
  <2>6. RequireConstraints(group)' \subseteq alloc'[n].props
    BY <1>2, <2>1, <2>2, <2>3
  <2>. QED BY <2>5, <2>6 DEF Granted
<1>. QED BY <1>2, <1>5, <1>6 DEF TransInv

LEMMA TransNext == TransInv /\ [Next]_vars => TransInv'
<1> SUFFICES ASSUME TransInv, [Next]_vars PROVE TransInv'
  OBVIOUS
<1>1. CASE LoadResourcesConfig
  BY <1>1 DEF LoadResourcesConfig, TransInv, Granted, AllNames, Properties
<1>2. CASE BuildGraph
  BY <1>2 DEF BuildGraph, TransInv, Granted, AllNames, Properties
<1>3. ASSUME NEW n \in 1 .. MaxGroup, NEW pods \in [1 .. n -> PodKinds],
             NEW exclude \in SUBSET HostNames(hosts), Ask(pods, exclude)
      PROVE  TransInv'
  <2>1. stage = "built" /\ alloc = <<>> /\ place = NoPlace /\ Loads(conf)
    BY <1>3 DEF Ask, TransInv
  <2>2. /\ UNCHANGED <<conf, hosts, alloc, place>> /\ group' = pods
        /\ stage' \in {"refused", "asked"}
        /\ stage' = "asked" => specs' = JobspecsForGroup(pods, exclude)
    BY <1>3 DEF Ask
  <2>. QED BY <2>1, <2>2 DEF TransInv
<1>4. ASSUME NEW on \in SUBSET HostNames(hosts), MatchCompute(on) PROVE TransInv'
  BY <1>4, ComputeStep
<1>5. ASSUME NEW spec \in specs.devices, NEW i \in Resources(conf), MatchDevice(spec, i)
      PROVE  TransInv'
  BY <1>5, DeviceStep
<1>6. CASE Place
  BY <1>6 DEF Place, TransInv, Granted, AllNames, Properties
<1>7. CASE UNCHANGED vars
  BY <1>7 DEF vars, TransInv, Granted, AllNames, Properties
<1>. QED BY <1>1, <1>2, <1>3, <1>4, <1>5, <1>6, <1>7 DEF Next

LEMMA TransAlways == Spec => []TransInv
BY TransInit, TransNext, PTL DEF Spec

-----------------------------------------------------------------------------
(* The properties.                                                          *)

(* The graph's vertices carry known properties only, and a placement is made *)
(* of known nodes, a known backend and its attributes, whatever is           *)
(* configured (VirtualResourceProperties, PlacementFromAllocation).          *)
THEOREM TypeCorrect == Spec => []TypeOK
<1>1. TransInv => TypeOK
  <2> SUFFICES ASSUME TransInv PROVE TypeOK
    OBVIOUS
  <2>1. /\ \A i \in DOMAIN alloc : Granted(alloc[i])
        /\ Len(alloc) \in Nat /\ DOMAIN alloc = 1 .. Len(alloc)
    BY DEF TransInv
  <2>2. CASE place = NoPlace
    BY <2>1, <2>2 DEF TransInv, TypeOK, NoPlace, Granted
  <2>3. CASE place = PlacementFromAllocation(alloc)
    <3>1. /\ place.nodes \subseteq {alloc[i].name : i \in DOMAIN alloc}
          /\ \/ place.backend = NoName /\ place.attrs = {}
             \/ \E i \in DOMAIN alloc : /\ IsVirtual(alloc[i]) /\ place.backend = alloc[i].name
                                        /\ place.attrs = BackendAttributes(alloc[i])
      BY <2>1, <2>3, PlacementRead
    <3>2. \A i \in DOMAIN alloc :
            BackendAttributes(alloc[i]) \subseteq (Keys \X Values) \cup ({"backend"} \X Names)
      BY <2>1, ResourceConstants
         DEF Granted, BackendAttributes, Properties, VirtualTrue, VirtualFalse, Class
    <3>3. place.nodes \subseteq AllNames /\ place.backend \in AllNames \cup {NoName}
      BY <2>1, <3>1 DEF Granted
    <3>4. place.attrs \subseteq (Keys \X Values) \cup ({"backend"} \X Names)
      BY <3>1, <3>2
    <3>. QED BY <2>1, <3>3, <3>4 DEF TransInv, TypeOK, Granted
  <2>. QED BY <2>2, <2>3 DEF TransInv
<1>. QED BY <1>1, TransAlways, PTL

(* Every vertex of a tree under the root can be asked for by its class, for  *)
(* trees of any depth and width (subtreeClasses).                            *)
THEOREM ClassesReached == Spec => []ClassesReach
<1>1. TransInv => ClassesReach
  <2> SUFFICES ASSUME TransInv, HasGraph, AtRoot, NEW i \in Resources(conf)
      PROVE Reaches(conf, {VirtualTrue, Class(conf.type[i])}, i)
    BY DEF ClassesReach
  <2>1. conf \in Confs
    BY DEF TransInv
  <2>2. \A t \in Top(conf) : conf.attach[t] = Cluster
    BY DEF AtRoot
  <2>. QED BY <2>1, <2>2, ClassAbove, ReachesUnderRoot
<1>. QED BY <1>1, TransAlways, PTL

(* So can it by an attribute of its top-level device that nothing between    *)
(* them sets, however deep it is (resolveResourceInherited).                 *)
THEOREM InheritanceReached == Spec => []InheritanceReaches
<1>1. TransInv => InheritanceReaches
  <2> SUFFICES ASSUME TransInv, HasGraph, AtRoot PROVE InheritanceReaches
    BY DEF InheritanceReaches
  <2>0. conf \in Confs /\ Loads(conf) /\ \A t \in Top(conf) : conf.attach[t] = Cluster
    BY DEF TransInv, HasGraph, AtRoot
  <2>1. ASSUME NEW i \in Resources(conf), NEW k \in Keys, NEW top \in Top(conf),
               top \in Path(conf)[i], Resolved(conf)[top][k] # Unset,
               \A j \in Path(conf)[i] \ {top} : Own(conf, j)[k] = Unset
        PROVE  Reaches(conf, {VirtualTrue, Class(conf.type[i]), <<k, Resolved(conf)[top][k]>>}, i)
    <3> DEFINE val == Resolved(conf)[top][k]
    <3>1. \A j \in Path(conf)[i] : Resolved(conf)[j][k] = val
      BY <2>0, <2>1, PassedDown
    <3>2. \A j \in Path(conf)[i] : <<k, val>> \in VirtualProperties(conf, j)
      <4> SUFFICES ASSUME NEW j \in Path(conf)[i] PROVE <<k, val>> \in VirtualProperties(conf, j)
        OBVIOUS
      <4>1. <<k, val>> \in {<<m, Resolved(conf)[j][m]>> : m \in {m \in Keys : Resolved(conf)[j][m] # Unset}}
        BY <2>1, <3>1
      <4>. QED BY <4>1 DEF VirtualProperties
    <3>3. \A j \in Path(conf)[i] : {VirtualTrue, Class(conf.type[i])} \subseteq VirtualProperties(conf, j)
      BY <2>0, ClassAbove
    <3>4. \A j \in Path(conf)[i] :
            {VirtualTrue, Class(conf.type[i]), <<k, val>>} \subseteq VirtualProperties(conf, j)
      BY <3>2, <3>3
    <3>. HIDE DEF val
    <3>5. Reaches(conf, {VirtualTrue, Class(conf.type[i]), <<k, val>>}, i)
      BY <2>0, <3>4, ReachesUnderRoot
    <3>. QED BY <3>5 DEF val
  <2>2. ASSUME NEW i \in Resources(conf)
        PROVE  LET t == CHOOSE t \in Top(conf) : t \in Path(conf)[i]
               IN  t \in Top(conf) /\ t \in Path(conf)[i]
    BY <2>0, TopOfPath
  <2>. QED BY <2>1, <2>2 DEF InheritanceReaches
<1>. QED BY <1>1, TransAlways, PTL

(* Memory is split without promising what is not there, for nodes of any     *)
(* size (memoryChunkMiB).                                                   *)
THEOREM MemoryFits == Spec => []ChunksFit
<1>1. TransInv => ChunksFit
  <2> SUFFICES ASSUME TransInv, NEW n \in DOMAIN hosts
      PROVE LET h == hosts[n]
                all == Chunks(h.mem, h.cores) * Chunk(h.mem, h.cores)
            IN  all <= h.mem /\ (h.cores > 0 => h.mem - all < h.cores)
    BY DEF ChunksFit
  <2>1. hosts[n].cores \in Nat /\ hosts[n].mem \in Nat
    BY InputsAssumption DEF TransInv
  <2>. QED BY <2>1, ChunkHeld
<1>. QED BY <1>1, TransAlways, PTL

(* A slot holds each pod of a uniform group, for any number of containers    *)
(* and any requests (podResources).                                         *)
THEOREM SlotsHoldPods == Spec => []SlotHoldsPod
<1>1. TransInv => SlotHoldsPod
  <2> SUFFICES ASSUME TransInv, stage \in {"asked", "matched", "placed"},
                      \A n, m \in DOMAIN group :
                        RawCpu(group[n]) = RawCpu(group[m]) /\ RawMem(group[n]) = RawMem(group[m]),
                      NEW n \in DOMAIN group
      PROVE  /\ RawCpu(group[n]) <= specs.compute.core * Milli
             /\ RawMem(group[n]) <= specs.compute.memory * Mib
    BY DEF SlotHoldsPod
  <2>1. PICK size \in 1 .. MaxGroup : group \in [1 .. size -> PodKinds]
    BY DEF TransInv
  <2>2. 1 \in DOMAIN group /\ group[1] \in PodKinds
    BY <2>1, InputsAssumption
  <2>3. specs.compute.core = PodCores(group[1]) /\ specs.compute.memory = PodMemory(group[1])
    BY DEF TransInv, JobspecsForGroup, ComputeJobspec
  <2>4. RawCpu(group[n]) = RawCpu(group[1]) /\ RawMem(group[n]) = RawMem(group[1])
    BY <2>2
  <2>. QED BY <2>2, <2>3, <2>4, PodHeld
<1>. QED BY <1>1, TransAlways, PTL

(* Whatever any pod of a group required of its backend is among the          *)
(* attributes of the backend the group was given, whatever the graph and     *)
(* wherever Fluxion matched (requireConstraintsFromPods, backendAttributes).  *)
THEOREM RequiredReadBack == Spec => []RequiredIsReadBack
<1>1. TransInv => RequiredIsReadBack
  <2> SUFFICES ASSUME TransInv, stage = "placed", place.backend # NoName, NEW n \in DOMAIN group
      PROVE group[n].require \subseteq place.attrs
    BY DEF RequiredIsReadBack
  <2>1. /\ place = PlacementFromAllocation(alloc)
        /\ Len(alloc) \in Nat /\ DOMAIN alloc = 1 .. Len(alloc)
        /\ \A i \in DOMAIN alloc : Granted(alloc[i])
    BY DEF TransInv
  <2>2. PICK i \in DOMAIN alloc : IsVirtual(alloc[i]) /\ place.attrs = BackendAttributes(alloc[i])
    BY <2>1, PlacementRead
  <2>3. group[n].require \subseteq RequireConstraints(group)
    BY DEF RequireConstraints
  <2>4. group[n].require \subseteq alloc[i].props
    BY <2>1, <2>2, <2>3 DEF Granted
  <2>5. group[n].require \subseteq (Keys \cup {"backend"}) \X (Values \cup Names)
    <3>1. PICK size \in 1 .. MaxGroup : group \in [1 .. size -> PodKinds]
      BY DEF TransInv
    <3>. QED BY <3>1, InputsAssumption
  <2>. QED BY <2>2, <2>4, <2>5 DEF BackendAttributes
<1>. QED BY <1>1, TransAlways, PTL
=============================================================================
