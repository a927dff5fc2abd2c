---------------------------- MODULE SumTheorems ----------------------------
(***************************************************************************)
(* Sums over finite sets, as SumFunctionOnSet defines them: the recursion   *)
(* behind the fold has a solution, the order does not matter, and sums add  *)
(* up and compare. The induction is stated for a set of the subsets the     *)
(* claim holds of, so that first-order provers can use it.                  *)
(***************************************************************************)
EXTENDS Integers, FiniteSets, FiniteSetsExt, FiniteSetTheorems, WellFoundedInduction, TLAPS

\* Induction over the subsets of a finite set.
LEMMA SetInduction ==
  ASSUME NEW S, IsFiniteSet(S), NEW F,
         \A T \in SUBSET S : (\A U \in SUBSET T : U # T => U \in F) => T \in F
  PROVE  \A T \in SUBSET S : T \in F
<1> DEFINE Bad == {T \in SUBSET S : T \notin F}
<1>1. SUFFICES ASSUME Bad # {} PROVE FALSE
  OBVIOUS
<1>2. IsWellFoundedOn(StrictSubsetOrdering(S), SUBSET S)
  BY FS_StrictSubsetOrderingWellFounded, FS_FiniteSubsetsOfFinite
<1>3. Bad \subseteq SUBSET S
  OBVIOUS
<1>4. \E T \in Bad : \A U \in Bad : ~(<<U, T>> \in StrictSubsetOrdering(S))
  <2>. HIDE DEF Bad
  <2>. QED BY <1>1, <1>2, <1>3, WFMin
<1>5. PICK T \in Bad : \A U \in Bad : ~(<<U, T>> \in StrictSubsetOrdering(S))
  BY <1>4
<1>6. \A U \in SUBSET T : U # T => U \in F
  BY <1>5 DEF StrictSubsetOrdering
<1>. QED BY <1>5, <1>6

\* Induction along 1 .. n.
LEMMA CountInduction ==
  ASSUME NEW n \in Nat, NEW F,
         \A i \in 1 .. n : (\A j \in 1 .. i - 1 : j \in F) => i \in F
  PROVE  \A i \in 1 .. n : i \in F
<1> DEFINE G == {T \in SUBSET (1 .. n) : \A k \in 1 .. n : T = 1 .. k => k \in F}
<1>1. ASSUME NEW T \in SUBSET (1 .. n), \A U \in SUBSET T : U # T => U \in G
      PROVE  T \in G
  <2> SUFFICES ASSUME NEW k \in 1 .. n, T = 1 .. k PROVE k \in F
    OBVIOUS
  <2>1. ASSUME NEW j \in 1 .. k - 1 PROVE j \in F
    <3>1. 1 .. j \in SUBSET T /\ k \in T /\ k \notin 1 .. j /\ j \in 1 .. n
      OBVIOUS
    <3>2. 1 .. j \in G
      BY <1>1, <3>1
    <3>. QED BY <3>1, <3>2
  <2>. QED BY <2>1
<1>2. IsFiniteSet(1 .. n)
  BY FS_Interval
<1>3. \A T \in SUBSET (1 .. n) : T \in G
  <2>. HIDE DEF G
  <2>. QED BY <1>1, <1>2, SetInduction
<1>4. ASSUME NEW k \in 1 .. n PROVE k \in F
  <2>1. 1 .. k \in SUBSET (1 .. n)
    OBVIOUS
  <2>. QED BY <1>3, <2>1
<1>. QED BY <1>4

\* The recursion a sum is defined by.
Choice(s) == CHOOSE x \in s : TRUE
Sums(it, f, S) ==
  it = [s \in SUBSET S |-> IF s = {} THEN 0 ELSE f[Choice(s)] + it[s \ {Choice(s)}]]

LEMMA SumsAt ==
  ASSUME NEW S, NEW f, NEW it, Sums(it, f, S), NEW s \in SUBSET S
  PROVE  it[s] = IF s = {} THEN 0 ELSE f[Choice(s)] + it[s \ {Choice(s)}]
BY DEF Sums

LEMMA ChoiceIn ==
  ASSUME NEW s, s # {}
  PROVE  Choice(s) \in s
BY DEF Choice

\* Two tables of sums agree where both have an entry.
LEMMA SumsAgree ==
  ASSUME NEW S, NEW T, NEW f, NEW it, NEW jt, Sums(it, f, S), Sums(jt, f, T),
         NEW U, IsFiniteSet(U), U \subseteq S, U \subseteq T
  PROVE  it[U] = jt[U]
<1> DEFINE F == {s \in SUBSET U : it[s] = jt[s]}
<1>1. ASSUME NEW s \in SUBSET U, \A u \in SUBSET s : u # s => u \in F
      PROVE  s \in F
  <2>0. s \in SUBSET S /\ s \in SUBSET T
    OBVIOUS
  <2>1. CASE s = {}
    BY <2>0, <2>1, SumsAt
  <2>2. CASE s # {}
    <3>1. s \ {Choice(s)} \in F
      BY <1>1, <2>2, ChoiceIn
    <3>2. it[s] = f[Choice(s)] + it[s \ {Choice(s)}]
      BY <2>0, <2>2, SumsAt
    <3>3. jt[s] = f[Choice(s)] + jt[s \ {Choice(s)}]
      BY <2>0, <2>2, SumsAt
    <3>. QED BY <3>1, <3>2, <3>3
  <2>. QED BY <2>1, <2>2
<1>2. \A s \in SUBSET U : s \in F
  <2>. HIDE DEF F
  <2>. QED BY <1>1, SetInduction
<1>. QED BY <1>2

LEMMA SumsExist ==
  ASSUME NEW S, IsFiniteSet(S), NEW f
  PROVE  \E it : Sums(it, f, S)
<1> DEFINE F == {T \in SUBSET S : \E it : Sums(it, f, T)}
<1>1. ASSUME NEW T \in SUBSET S, \A U \in SUBSET T : U # T => U \in F
      PROVE  T \in F
  <2> DEFINE table(U) == CHOOSE it : Sums(it, f, U)
             v(U) == table(U)[U]
             jt == [s \in SUBSET T |-> IF s = {} THEN 0 ELSE f[Choice(s)] + v(s \ {Choice(s)})]
  <2>1. ASSUME NEW U \in SUBSET T, U # T PROVE Sums(table(U), f, U)
    BY <1>1, <2>1
  <2>2. ASSUME NEW U \in SUBSET T, U # T PROVE jt[U] = v(U)
    <3>1. CASE U = {}
      BY <2>1, <2>2, <3>1, SumsAt
    <3>2. CASE U # {}
      <4> DEFINE u == U \ {Choice(U)}
      <4>1. u \in SUBSET U /\ u # U /\ u # T /\ u \in SUBSET T /\ IsFiniteSet(u)
        BY <2>2, <3>2, ChoiceIn, FS_Subset
      <4>2. Sums(table(U), f, U) /\ Sums(table(u), f, u)
        BY <2>1, <2>2, <4>1
      <4>3. table(U)[u] = table(u)[u]
        <5>. HIDE DEF table, u
        <5>. QED BY <4>1, <4>2, SumsAgree
      <4>4. table(U)[U] = f[Choice(U)] + table(U)[u]
        <5>. HIDE DEF table
        <5>. QED BY <3>2, <4>2, SumsAt
      <4>5. jt[U] = f[Choice(U)] + v(u)
        BY <3>2
      <4>. QED BY <4>3, <4>4, <4>5
    <3>. QED BY <3>1, <3>2
  <2>3. \A s \in SUBSET T : s # {} => jt[s \ {Choice(s)}] = v(s \ {Choice(s)})
    <3>1. \A s \in SUBSET T : s # {} => s \ {Choice(s)} \in SUBSET T /\ s \ {Choice(s)} # T
      BY ChoiceIn
    <3>. HIDE DEF jt, v
    <3>. QED BY <2>2, <3>1
  <2>4. Sums(jt, f, T)
    <3>. HIDE DEF v
    <3>1. jt = [s \in SUBSET T |->
                  IF s = {} THEN 0 ELSE f[Choice(s)] + jt[s \ {Choice(s)}]]
      BY <2>3
    <3>. QED BY <3>1 DEF Sums
  <2>. QED BY <2>4
<1>2. \A T \in SUBSET S : T \in F
  <2>. HIDE DEF F
  <2>. QED BY <1>1, SetInduction
<1>. QED BY <1>2

LEMMA SumTable ==
  ASSUME NEW S, IsFiniteSet(S), NEW f
  PROVE  \E it : Sums(it, f, S) /\ \A T \in SUBSET S : SumFunctionOnSet(f, T) = it[T]
<1>1. PICK it : Sums(it, f, S)
  BY SumsExist
<1>2. ASSUME NEW T \in SUBSET S PROVE SumFunctionOnSet(f, T) = it[T]
  <2> DEFINE jt == CHOOSE g : Sums(g, f, T)
  <2>1. IsFiniteSet(T)
    BY FS_Subset
  <2>2. Sums(jt, f, T)
    BY <2>1, SumsExist
  <2>3. SumFunctionOnSet(f, T) = jt[T]
    BY DEF SumFunctionOnSet, FoldFunctionOnSet, MapThenFoldSet, Sums, Choice
  <2>. HIDE DEF jt
  <2>. QED BY <1>1, <2>1, <2>2, <2>3, SumsAgree
<1>. QED BY <1>1, <1>2
-----------------------------------------------------------------------------
(* Sums of natural numbers.                                                 *)

LEMMA SumEmpty ==
  ASSUME NEW f
  PROVE  SumFunctionOnSet(f, {}) = 0
<1>1. PICK it : Sums(it, f, {}) /\ \A T \in SUBSET {} : SumFunctionOnSet(f, T) = it[T]
  BY SumTable, FS_EmptySet
<1>2. it[{}] = 0
  BY <1>1, SumsAt
<1>. QED BY <1>1, <1>2

\* A sum is the same whichever element is taken first.
LEMMA SumRemove ==
  ASSUME NEW S, IsFiniteSet(S), NEW f, \A x \in S : f[x] \in Nat
  PROVE  /\ SumFunctionOnSet(f, S) \in Nat
         /\ \A x \in S : SumFunctionOnSet(f, S) = f[x] + SumFunctionOnSet(f, S \ {x})
<1> DEFINE sum(T) == SumFunctionOnSet(f, T)
           F == {T \in SUBSET S : sum(T) \in Nat /\ \A x \in T : sum(T) = f[x] + sum(T \ {x})}
<1>1. ASSUME NEW T \in SUBSET S, \A U \in SUBSET T : U # T => U \in F
      PROVE  T \in F
  <2>1. CASE T = {}
    BY <2>1, SumEmpty
  <2>2. CASE T # {}
    <3> DEFINE c == Choice(T)
    <3>1. c \in T /\ T \ {c} \in F
      BY <1>1, <2>2, ChoiceIn
    <3>2. sum(T) = f[c] + sum(T \ {c})
      <4>1. PICK it : Sums(it, f, S) /\ \A U \in SUBSET S : sum(U) = it[U]
        BY SumTable
      <4>2. it[T] = f[c] + it[T \ {c}]
        <5>1. Sums(it, f, S)
          BY <4>1
        <5>. HIDE DEF sum
        <5>. QED BY <2>2, <5>1, SumsAt
      <4>. QED BY <4>1, <4>2
    <3>. HIDE DEF c, sum
    <3>3. sum(T) \in Nat
      BY <3>1, <3>2
    <3>4. ASSUME NEW x \in T, x # c PROVE sum(T) = f[x] + sum(T \ {x})
      <4>1. T \ {x} \in F /\ c \in T \ {x} /\ x \in T \ {c}
        BY <1>1, <3>1, <3>4
      <4>2. sum(T \ {x}) = f[c] + sum((T \ {x}) \ {c}) /\ sum((T \ {x}) \ {c}) \in Nat
        <5>1. (T \ {x}) \ {c} \in F
          BY <1>1, <4>1
        <5>. QED BY <4>1, <5>1
      <4>3. sum(T \ {c}) = f[x] + sum((T \ {c}) \ {x})
        BY <3>1, <4>1
      <4>4. (T \ {x}) \ {c} = (T \ {c}) \ {x}
        OBVIOUS
      <4>. QED BY <3>1, <3>2, <4>2, <4>3, <4>4
    <3>. QED BY <3>2, <3>3, <3>4
  <2>. QED BY <2>1, <2>2
<1>2. \A T \in SUBSET S : T \in F
  <2>. HIDE DEF F
  <2>. QED BY <1>1, SetInduction
<1>. QED BY <1>2

LEMMA SumAdd ==
  ASSUME NEW S, IsFiniteSet(S), NEW x, x \notin S, NEW f, \A y \in S \cup {x} : f[y] \in Nat
  PROVE  SumFunctionOnSet(f, S \cup {x}) = f[x] + SumFunctionOnSet(f, S)
<1>1. IsFiniteSet(S \cup {x}) /\ (S \cup {x}) \ {x} = S
  BY FS_AddElement
<1>. QED BY <1>1, SumRemove

\* Induction over a finite set by its elements.
LEMMA ElementInduction ==
  ASSUME NEW S, IsFiniteSet(S), NEW F, {} \in F,
         \A T \in SUBSET S, x \in S : T \in F /\ x \notin T => T \cup {x} \in F
  PROVE  \A T \in SUBSET S : T \in F
<1>1. ASSUME NEW T \in SUBSET S, \A U \in SUBSET T : U # T => U \in F
      PROVE  T \in F
  <2>1. CASE T # {}
    <3>1. PICK x \in T : TRUE
      BY <2>1
    <3>2. T \ {x} \in F /\ T = (T \ {x}) \cup {x}
      BY <1>1, <3>1
    <3>. QED BY <3>1, <3>2
  <2>. QED BY <2>1
<1>. QED BY <1>1, SetInduction

LEMMA SumUnion ==
  ASSUME NEW S, IsFiniteSet(S), NEW T, IsFiniteSet(T), S \cap T = {},
         NEW f, \A x \in S \cup T : f[x] \in Nat
  PROVE  SumFunctionOnSet(f, S \cup T) = SumFunctionOnSet(f, S) + SumFunctionOnSet(f, T)
<1> DEFINE sum(U) == SumFunctionOnSet(f, U)
           F == {U \in SUBSET T : sum(S \cup U) = sum(S) + sum(U)}
<1>0. sum(S) \in Nat /\ \A U \in SUBSET T : IsFiniteSet(U) /\ sum(U) \in Nat
  BY SumRemove, FS_Subset
<1>1. {} \in F
  <2>1. sum({}) = 0 /\ S \cup {} = S
    BY SumEmpty
  <2>. HIDE DEF sum
  <2>. QED BY <1>0, <2>1
<1>2. ASSUME NEW U \in SUBSET T, NEW x \in T, U \in F, x \notin U PROVE U \cup {x} \in F
  <2>1. x \notin S \cup U /\ IsFiniteSet(S \cup U) /\ S \cup (U \cup {x}) = (S \cup U) \cup {x}
    BY <1>0, <1>2, FS_Union
  <2>2. sum(S \cup (U \cup {x})) = f[x] + sum(S \cup U)
    BY <2>1, SumAdd
  <2>3. sum(U \cup {x}) = f[x] + sum(U)
    BY <1>0, <1>2, SumAdd
  <2>. HIDE DEF sum
  <2>. QED BY <1>0, <1>2, <2>2, <2>3
<1>3. \A U \in SUBSET T : U \in F
  <2>. HIDE DEF F
  <2>. QED BY <1>1, <1>2, ElementInduction
<1>. QED BY <1>3

LEMMA SumSubset ==
  ASSUME NEW S, IsFiniteSet(S), NEW T \in SUBSET S, NEW f, \A x \in S : f[x] \in Nat
  PROVE  SumFunctionOnSet(f, T) <= SumFunctionOnSet(f, S)
<1>1. IsFiniteSet(T) /\ IsFiniteSet(S \ T) /\ S = T \cup (S \ T)
  BY FS_Subset
<1>2. SumFunctionOnSet(f, S) = SumFunctionOnSet(f, T) + SumFunctionOnSet(f, S \ T)
  BY <1>1, SumUnion
<1>3. SumFunctionOnSet(f, T) \in Nat /\ SumFunctionOnSet(f, S \ T) \in Nat
  BY <1>1, SumRemove
<1>. QED BY <1>2, <1>3

\* Sums compare element by element.
LEMMA SumBelow ==
  ASSUME NEW S, IsFiniteSet(S), NEW f, NEW h,
         \A x \in S : f[x] \in Nat /\ h[x] \in Nat /\ f[x] <= h[x]
  PROVE  SumFunctionOnSet(f, S) <= SumFunctionOnSet(h, S)
<1> DEFINE F == {T \in SUBSET S : SumFunctionOnSet(f, T) <= SumFunctionOnSet(h, T)}
<1>1. {} \in F
  BY SumEmpty
<1>2. ASSUME NEW T \in SUBSET S, NEW x \in S, T \in F, x \notin T PROVE T \cup {x} \in F
  <2>1. IsFiniteSet(T)
    BY FS_Subset
  <2>2. SumFunctionOnSet(f, T) \in Nat /\ SumFunctionOnSet(h, T) \in Nat
    BY <2>1, SumRemove
  <2>3. /\ SumFunctionOnSet(f, T \cup {x}) = f[x] + SumFunctionOnSet(f, T)
        /\ SumFunctionOnSet(h, T \cup {x}) = h[x] + SumFunctionOnSet(h, T)
    BY <1>2, <2>1, SumAdd
  <2>. QED BY <1>2, <2>2, <2>3
<1>3. \A T \in SUBSET S : T \in F
  <2>. HIDE DEF F
  <2>. QED BY <1>1, <1>2, ElementInduction
<1>. QED BY <1>3

LEMMA SumSame ==
  ASSUME NEW S, IsFiniteSet(S), NEW f, NEW h, \A x \in S : f[x] \in Nat /\ f[x] = h[x]
  PROVE  SumFunctionOnSet(f, S) = SumFunctionOnSet(h, S)
<1>1. SumFunctionOnSet(f, S) <= SumFunctionOnSet(h, S)
  BY SumBelow
<1>2. SumFunctionOnSet(h, S) <= SumFunctionOnSet(f, S)
  BY SumBelow
<1>3. SumFunctionOnSet(f, S) \in Nat /\ SumFunctionOnSet(h, S) \in Nat
  BY SumRemove
<1>. QED BY <1>1, <1>2, <1>3

LEMMA SumPlus ==
  ASSUME NEW S, IsFiniteSet(S), NEW f, NEW h, NEW k,
         \A x \in S : f[x] \in Nat /\ h[x] \in Nat /\ k[x] = f[x] + h[x]
  PROVE  SumFunctionOnSet(k, S) = SumFunctionOnSet(f, S) + SumFunctionOnSet(h, S)
<1> DEFINE F == {T \in SUBSET S :
                   SumFunctionOnSet(k, T) = SumFunctionOnSet(f, T) + SumFunctionOnSet(h, T)}
<1>1. {} \in F
  BY SumEmpty
<1>2. ASSUME NEW T \in SUBSET S, NEW x \in S, T \in F, x \notin T PROVE T \cup {x} \in F
  <2>1. IsFiniteSet(T)
    BY FS_Subset
  <2>2. SumFunctionOnSet(f, T) \in Nat /\ SumFunctionOnSet(h, T) \in Nat
    BY <2>1, SumRemove
  <2>3. /\ SumFunctionOnSet(f, T \cup {x}) = f[x] + SumFunctionOnSet(f, T)
        /\ SumFunctionOnSet(h, T \cup {x}) = h[x] + SumFunctionOnSet(h, T)
        /\ SumFunctionOnSet(k, T \cup {x}) = k[x] + SumFunctionOnSet(k, T)
    <3>1. \A y \in T \cup {x} : f[y] \in Nat /\ h[y] \in Nat /\ k[y] \in Nat
      OBVIOUS
    <3>. QED BY <1>2, <2>1, <3>1, SumAdd
  <2>. QED BY <1>2, <2>2, <2>3
<1>3. \A T \in SUBSET S : T \in F
  <2>. HIDE DEF F
  <2>. QED BY <1>1, <1>2, ElementInduction
<1>. QED BY <1>3

LEMMA SumZero ==
  ASSUME NEW S, IsFiniteSet(S), NEW f, \A x \in S : f[x] = 0
  PROVE  SumFunctionOnSet(f, S) = 0
<1> DEFINE F == {T \in SUBSET S : SumFunctionOnSet(f, T) = 0}
<1>1. {} \in F
  BY SumEmpty
<1>2. ASSUME NEW T \in SUBSET S, NEW x \in S, T \in F, x \notin T PROVE T \cup {x} \in F
  <2>1. IsFiniteSet(T) /\ \A y \in T \cup {x} : f[y] \in Nat
    BY FS_Subset
  <2>2. SumFunctionOnSet(f, T \cup {x}) = f[x] + SumFunctionOnSet(f, T)
    BY <1>2, <2>1, SumAdd
  <2>. QED BY <1>2, <2>2
<1>3. \A T \in SUBSET S : T \in F
  <2>. HIDE DEF F
  <2>. QED BY <1>1, <1>2, ElementInduction
<1>. QED BY <1>3

\* What disjoint parts of B sum up to, part by part, is the sum of their union.
LEMMA SumOfParts ==
  ASSUME NEW G, IsFiniteSet(G), NEW B, IsFiniteSet(B), NEW f, \A x \in B : f[x] \in Nat,
         NEW part, \A g \in G : part[g] \subseteq B,
         \A g, h \in G : g # h => part[g] \cap part[h] = {},
         NEW k, \A g \in G : k[g] = SumFunctionOnSet(f, part[g])
  PROVE  SumFunctionOnSet(k, G) = SumFunctionOnSet(f, UNION {part[g] : g \in G})
<1> DEFINE all(T) == UNION {part[g] : g \in T}
           F == {T \in SUBSET G : SumFunctionOnSet(k, T) = SumFunctionOnSet(f, all(T))}
<1>0. \A g \in G : IsFiniteSet(part[g]) /\ k[g] \in Nat
  BY FS_Subset, SumRemove
<1>1. {} \in F
  <2>1. all({}) = {}
    OBVIOUS
  <2>. QED BY <2>1, SumEmpty
<1>2. ASSUME NEW T \in SUBSET G, NEW g \in G, T \in F, g \notin T PROVE T \cup {g} \in F
  <2>1. /\ all(T) \subseteq B /\ all(T) \cap part[g] = {}
        /\ all(T \cup {g}) = all(T) \cup part[g]
    BY <1>2
  <2>2. IsFiniteSet(T) /\ IsFiniteSet(all(T))
    BY <2>1, FS_Subset
  <2>3. SumFunctionOnSet(k, T \cup {g}) = k[g] + SumFunctionOnSet(k, T)
    BY <1>0, <1>2, <2>2, SumAdd
  <2>4. SumFunctionOnSet(f, all(T) \cup part[g])
          = SumFunctionOnSet(f, all(T)) + SumFunctionOnSet(f, part[g])
    <3>. HIDE DEF all
    <3>. QED BY <1>0, <2>1, <2>2, SumUnion
  <2>5. SumFunctionOnSet(k, T) \in Nat
    BY <1>0, <2>2, SumRemove
  <2>6. T \cup {g} \in SUBSET G /\ SumFunctionOnSet(k, T) = SumFunctionOnSet(f, all(T))
    BY <1>2
  <2>7. SumFunctionOnSet(k, T \cup {g}) = SumFunctionOnSet(f, all(T \cup {g}))
    <3>1. SumFunctionOnSet(f, all(T \cup {g})) = SumFunctionOnSet(f, all(T)) + k[g]
      BY <2>1, <2>4
    <3>2. SumFunctionOnSet(f, all(T \cup {g})) = SumFunctionOnSet(k, T) + k[g]
      BY <2>6, <3>1
    <3>. HIDE DEF all
    <3>. QED BY <1>0, <2>3, <2>5, <3>2
  <2>. QED BY <2>6, <2>7
<1>3. \A T \in SUBSET G : T \in F
  <2>. HIDE DEF F
  <2>. QED BY <1>1, <1>2, ElementInduction
<1>. QED BY <1>3
=============================================================================
