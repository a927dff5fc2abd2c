--------------------------- MODULE PodPatchProofs ---------------------------
(***************************************************************************)
(* The patch of the webhook for every pod, every number of containers and   *)
(* every order of handlers: it applies, loses nothing of the user's, and    *)
(* gives the pod what its role needs. The copy the handlers read and the    *)
(* document the patch makes agree wherever a later operation relies on it.  *)
(***************************************************************************)
EXTENDS PodPatch, SumTheorems

-----------------------------------------------------------------------------
(* Documents and operations.                                                *)

Workloads == 1 .. Containers
Works     == [view : Docs, patched : Docs]

LEMMA AbsentIsNoEntries ==
  Absent \notin SUBSET Entry
<1>1. <<>> \notin Entry
  BY DEF Entry
<1>. QED BY <1>1 DEF Absent

LEMMA SlotsOfThePod ==
  /\ \A f \in PodFields : Of(f) \in Slots
  /\ \A c \in 1 .. Sidecar : Env(c) \in Slots /\ Mounts(c) \in Slots /\ Requests(c) \in Slots
  /\ Workloads \subseteq 1 .. Sidecar /\ Sidecar \in 1 .. Sidecar /\ Sidecar \notin Workloads
  /\ 1 \in Workloads /\ Containers \in Nat
BY ConstantsAssumption DEF Slots, Of, Env, Mounts, Requests, Sidecar, Workloads

LEMMA EntriesTyped ==
  ASSUME NEW doc \in Docs, NEW slot \in Slots
  PROVE  /\ Entries(doc, slot) \in SUBSET Entry
         /\ doc[slot] # Absent => Entries(doc, slot) = doc[slot]
         /\ Entries(doc, slot) # {} => doc[slot] # Absent
BY DEF Docs, Entries

LEMMA Stamped ==
  ASSUME NEW keys \in SUBSET Words
  PROVE  Stamps(keys) \in SUBSET Entry
BY DEF Stamps, Entry, Words, OwnWords

With(doc, slot, xs) == [doc EXCEPT ![slot] = xs]

\* What each operation makes of a document it fits.
LEMMA PutEffect ==
  ASSUME NEW doc \in Docs, NEW slot \in Slots, NEW xs \in SUBSET Entry
  PROVE  /\ Patched(doc, Put(slot, xs)) = With(doc, slot, xs)
         /\ Apply(doc, Put(slot, xs)) = With(doc, slot, xs)
<1>1. Patched(doc, Put(slot, xs)) = With(doc, slot, xs)
  BY DEF Patched, Put, With
<1>2. Fits(doc, Put(slot, xs))
  BY DEF Fits, Put
<1>3. doc # Refused
  BY ConstantsAssumption
<1>. QED BY <1>1, <1>2, <1>3 DEF Apply

Keyed == {Of("annotations"), Of("labels")}

LEMMA AddEffect ==
  ASSUME NEW doc \in Docs, NEW slot \in Slots, NEW xs \in SUBSET Entry, slot \notin Keyed
  PROVE  /\ Patched(doc, Add(slot, xs)) = With(doc, slot, Entries(doc, slot) \cup xs)
         /\ doc[slot] # Absent =>
              Apply(doc, Add(slot, xs)) = With(doc, slot, Entries(doc, slot) \cup xs)
<1>1. slot[1] \notin {"annotations", "labels"}
  BY DEF Slots, Keyed, Of
<1>2. Kept(doc, Add(slot, xs)) = Entries(doc, slot)
  BY <1>1 DEF Kept, Add
<1>3. Patched(doc, Add(slot, xs)) = With(doc, slot, Entries(doc, slot) \cup xs)
  BY <1>2 DEF Patched, Add, With
<1>4. doc[slot] # Absent => Fits(doc, Add(slot, xs))
  BY DEF Fits, Add
<1>5. doc # Refused
  BY ConstantsAssumption
<1>. QED BY <1>3, <1>4, <1>5 DEF Apply

Others(doc, slot, xs) == {x \in Entries(doc, slot) : \A y \in xs : x[1] # y[1]}

LEMMA AddKeyEffect ==
  ASSUME NEW doc \in Docs, NEW slot \in Keyed, NEW xs \in SUBSET Entry
  PROVE  /\ Patched(doc, Add(slot, xs)) = With(doc, slot, Others(doc, slot, xs) \cup xs)
         /\ doc[slot] # Absent =>
              Apply(doc, Add(slot, xs)) = With(doc, slot, Others(doc, slot, xs) \cup xs)
<1>1. slot[1] \in {"annotations", "labels"}
  BY DEF Keyed, Of
<1>2. Kept(doc, Add(slot, xs)) = Others(doc, slot, xs)
  BY <1>1 DEF Kept, Add, Others
<1>3. Patched(doc, Add(slot, xs)) = With(doc, slot, Others(doc, slot, xs) \cup xs)
  BY <1>2 DEF Patched, Add, With
<1>4. doc[slot] # Absent => Fits(doc, Add(slot, xs))
  BY DEF Fits, Add
<1>5. doc # Refused
  BY ConstantsAssumption
<1>. QED BY <1>3, <1>4, <1>5 DEF Apply

LEMMA DropEffect ==
  ASSUME NEW doc \in Docs, NEW slot \in Slots, NEW xs \in SUBSET Entries(doc, slot)
  PROVE  /\ Patched(doc, Drop(slot, xs)) = With(doc, slot, Entries(doc, slot) \ xs)
         /\ Apply(doc, Drop(slot, xs)) = With(doc, slot, Entries(doc, slot) \ xs)
<1>1. Patched(doc, Drop(slot, xs)) = With(doc, slot, Entries(doc, slot) \ xs)
  BY DEF Patched, Drop, With
<1>2. Fits(doc, Drop(slot, xs))
  BY DEF Fits, Drop
<1>3. doc # Refused
  BY ConstantsAssumption
<1>. QED BY <1>1, <1>2, <1>3 DEF Apply

-----------------------------------------------------------------------------
(* A loop over the containers.                                              *)

Runs(at, n, w, step) ==
  at = [c \in 0 .. n |-> IF c = 0 THEN w ELSE step[<<at[c - 1], c>>]]

LEMMA LoopExists ==
  ASSUME NEW n \in Nat, NEW D, NEW w \in D, NEW step,
         \A d \in D, c \in 1 .. n : step[<<d, c>>] \in D
  PROVE  \E at \in [0 .. n -> D] : Runs(at, n, w, step)
<1> DEFINE Loop(at, m) ==
             /\ at \in [0 .. m -> D]
             /\ at = [c \in 0 .. m |-> IF c = 0 THEN w ELSE step[<<at[c - 1], c>>]]
           F == {m \in 1 .. n : \E at : Loop(at, m)}
<1>0. \E at : Loop(at, 0)
  <2> DEFINE at == [c \in 0 .. 0 |-> w]
  <2>1. at = [c \in 0 .. 0 |-> IF c = 0 THEN w ELSE step[<<at[c - 1], c>>]]
    OBVIOUS
  <2>2. at \in [0 .. 0 -> D]
    OBVIOUS
  <2>3. Loop(at, 0)
    <3>. HIDE DEF at
    <3>. QED BY <2>1, <2>2
  <2>. HIDE DEF Loop, at
  <2>. QED BY <2>3
<1>1. ASSUME NEW m \in 1 .. n, \A j \in 1 .. m - 1 : j \in F
      PROVE  m \in F
  <2>1. PICK at : Loop(at, m - 1)
    <3>1. m = 1 \/ m - 1 \in 1 .. m - 1
      OBVIOUS
    <3>2. m - 1 \in F => \E at : Loop(at, m - 1)
      OBVIOUS
    <3>. HIDE DEF Loop
    <3>3. CASE m = 1
      BY <1>0, <3>3
    <3>4. CASE m - 1 \in 1 .. m - 1
      BY <1>1, <3>2, <3>4
    <3>. QED BY <3>1, <3>3, <3>4
  <2> DEFINE next(c) == IF c = 0 THEN w ELSE step[<<at[c - 1], c>>]
             bt == [c \in 0 .. m |-> next(c)]
  <2>2. \A c \in 0 .. m - 1 : at[c] = next(c)
    BY <2>1
  <2>3. \A c \in 0 .. m - 1 : bt[c] = at[c]
    BY <2>2
  <2>4. \A c \in 0 .. m : next(c) = IF c = 0 THEN w ELSE step[<<bt[c - 1], c>>]
    <3>1. \A c \in 0 .. m : c # 0 => c - 1 \in 0 .. m - 1
      OBVIOUS
    <3>. HIDE DEF bt
    <3>. QED BY <2>3, <3>1
  <2>5. bt = [c \in 0 .. m |-> IF c = 0 THEN w ELSE step[<<bt[c - 1], c>>]]
    BY <2>4
  <2>6. bt \in [0 .. m -> D]
    <3>1. \A c \in 0 .. m : c # 0 => c - 1 \in 0 .. m - 1 /\ c \in 1 .. n
      OBVIOUS
    <3>2. \A c \in 0 .. m : next(c) \in D
      BY <2>1, <3>1
    <3>. HIDE DEF next
    <3>. QED BY <3>2
  <2>7. Loop(bt, m)
    <3>. HIDE DEF bt
    <3>. QED BY <2>5, <2>6
  <2>. HIDE DEF Loop, bt
  <2>. QED BY <2>7
<1>2. \A m \in 1 .. n : m \in F
  <2>. HIDE DEF F
  <2>. QED BY <1>1, CountInduction
<1>3. \E at : Loop(at, n)
  <2>1. n = 0 \/ n \in 1 .. n
    OBVIOUS
  <2>. HIDE DEF Loop
  <2>. QED BY <1>0, <1>2, <2>1
<1>. QED BY <1>3 DEF Runs

\* What holds from some container on holds at the end of the loop.
LEMMA LoopReaches ==
  ASSUME NEW n \in Nat, NEW a \in 0 .. n, NEW F, a \in F,
         \A i \in 1 .. n : i > a /\ i - 1 \in F => i \in F
  PROVE  n \in F
<1> DEFINE G == {i \in 1 .. n : i >= a => i \in F}
<1>1. ASSUME NEW i \in 1 .. n, \A j \in 1 .. i - 1 : j \in G PROVE i \in G
  <2>1. CASE i > a
    <3>1. i - 1 = 0 \/ i - 1 \in 1 .. i - 1
      OBVIOUS
    <3>2. i - 1 \in F
      BY <1>1, <2>1, <3>1
    <3>. QED BY <2>1, <3>2
  <2>2. CASE ~(i > a)
    BY <2>2
  <2>. QED BY <2>1, <2>2
<1>2. \A i \in 1 .. n : i \in G
  <2>. HIDE DEF G
  <2>. QED BY <1>1, CountInduction
<1>. QED BY <1>2

\* What each turn keeps holds at every turn.
LEMMA LoopTyped ==
  ASSUME NEW n \in Nat, NEW D, NEW at, at[0] \in D,
         \A c \in 1 .. n : at[c - 1] \in D => at[c] \in D
  PROVE  \A c \in 0 .. n : at[c] \in D
<1> SUFFICES ASSUME NEW c \in 0 .. n PROVE at[c] \in D
  OBVIOUS
<1> DEFINE F == {i \in 0 .. c : at[i] \in D}
<1>1. 0 \in F /\ \A i \in 1 .. c : i > 0 /\ i - 1 \in F => i \in F
  OBVIOUS
<1>2. c \in F
  <2>1. c \in Nat /\ 0 \in 0 .. c
    OBVIOUS
  <2>. HIDE DEF F
  <2>. QED BY <1>1, <2>1, LoopReaches
<1>. QED BY <1>2

-----------------------------------------------------------------------------
(* The copy and the document the patch makes.                               *)

UserSlots == {Of("volumes")} \cup ({"env", "mounts", "requests"} \X Workloads)
EmitSlots == Slots \ (UserSlots \cup {Of("annotations")})

\* What NothingLost excuses.
Excused(r, slot, x) ==
  \/ r = "scout" /\ x[1] = "group"
  \/ r = "worker" /\ slot[1] = "requests" /\ x[1] = "qpu"
  \/ slot = Of("annotations") /\ x[1] \in OwnAnnotations
  \/ slot[1] \in {"schedulingGroup", "serviceAccount"}

Once(xs) == \A x, y \in xs : x[1] = y[1] => x = y

\* The two have the fields later operations are built on in common, nothing the
\* copy has is missing in the document, and what the user wrote is there.
Agrees(pod, w) ==
  /\ \A slot \in UserSlots : w.patched[slot] = w.view[slot]
  /\ \A slot \in EmitSlots : w.view[slot] = pod[slot]
  /\ \A slot \in Slots : w.view[slot] # Absent => w.patched[slot] # Absent
  /\ pod[Of("annotations")] # Absent => w.view[Of("annotations")] # Absent
  /\ EnvOnce(w.view) /\ EnvOnce(w.patched)

Keeps(pod, r, w) ==
  \A slot \in Slots : \A x \in Entries(pod, slot) :
    x \in Entries(w.patched, slot) \/ Excused(r, slot, x)

Sound(pod, r) == {w \in Works : Agrees(pod, w) /\ Keeps(pod, r, w)}

LEMMA SlotKinds ==
  /\ UserSlots \subseteq Slots /\ EmitSlots \subseteq Slots /\ Keyed \subseteq Slots
  /\ UserSlots \cap EmitSlots = {} /\ UserSlots \cap Keyed = {}
  /\ Of("annotations") \notin UserSlots /\ Of("annotations") \notin EmitSlots
  /\ Of("volumes") \in UserSlots /\ Of("labels") \in EmitSlots
  /\ \A c \in Workloads : Env(c) \in UserSlots /\ Mounts(c) \in UserSlots
       /\ Requests(c) \in UserSlots
  /\ Env(Sidecar) \in EmitSlots /\ Mounts(Sidecar) \in EmitSlots
  /\ \A f \in PodFields \ {"annotations", "volumes"} : Of(f) \in EmitSlots
<1>1. UserSlots \subseteq Slots
  BY SlotsOfThePod DEF UserSlots, Slots, PodFields, Of
<1>2. Keyed \subseteq Slots
  BY SlotsOfThePod DEF Keyed, PodFields
<1>3. UserSlots \cap Keyed = {}
  BY DEF UserSlots, Keyed, Of
<1>4. Of("volumes") \in UserSlots /\ Of("annotations") \notin UserSlots
  BY <1>3 DEF UserSlots, Keyed
<1>5. \A c \in Workloads : Env(c) \in UserSlots /\ Mounts(c) \in UserSlots
        /\ Requests(c) \in UserSlots
  BY DEF UserSlots, Env, Mounts, Requests
<1>6. \A f \in PodFields \ {"annotations", "volumes"} : Of(f) \in EmitSlots
  <2>1. 0 \notin Workloads
    BY SlotsOfThePod DEF Workloads
  <2>. QED BY <2>1, SlotsOfThePod DEF UserSlots, EmitSlots, Of
<1>7. Env(Sidecar) \in EmitSlots /\ Mounts(Sidecar) \in EmitSlots
  BY SlotsOfThePod DEF UserSlots, EmitSlots, Of, Env, Mounts
<1>8. Of("labels") \in EmitSlots
  BY <1>6 DEF PodFields
<1>. QED BY <1>1, <1>2, <1>3, <1>4, <1>5, <1>6, <1>7, <1>8 DEF EmitSlots

\* One field changed in both keeps them sound.
LEMMA SoundChange ==
  ASSUME NEW pod \in Docs, NEW r, NEW w \in Sound(pod, r), NEW slot \in Slots,
         NEW A \in (SUBSET Entry) \cup {Absent}, NEW B \in (SUBSET Entry) \cup {Absent},
         slot \in UserSlots => A = B, slot \in EmitSlots => A = w.view[slot],
         A # Absent => B # Absent, w.view[slot] # Absent => A # Absent,
         slot[1] = "env" => (A # Absent => Once(A)) /\ (B # Absent => Once(B)),
         \A x \in Entries(pod, slot) : (B # Absent /\ x \in B) \/ Excused(r, slot, x)
  PROVE  [view |-> With(w.view, slot, A), patched |-> With(w.patched, slot, B)]
           \in Sound(pod, r)
<1> DEFINE v == With(w.view, slot, A)
           p == With(w.patched, slot, B)
           t == [view |-> v, patched |-> p]
<1>0. w \in Works /\ Agrees(pod, w) /\ Keeps(pod, r, w)
  BY DEF Sound
<1>1. v \in Docs /\ p \in Docs
  BY <1>0 DEF Works, Docs, With
<1>2. /\ v[slot] = A /\ p[slot] = B
      /\ \A s \in Slots : s # slot => v[s] = w.view[s] /\ p[s] = w.patched[s]
  BY <1>0 DEF Works, Docs, With
<1>3. t \in Works /\ t.view = v /\ t.patched = p
  BY <1>1 DEF Works
<1>. HIDE DEF v, p, t
<1>4. \A s \in UserSlots : p[s] = v[s]
  BY <1>0, <1>2, SlotKinds DEF Agrees
<1>5. \A s \in EmitSlots : v[s] = pod[s]
  BY <1>0, <1>2, SlotKinds DEF Agrees
<1>6. \A s \in Slots : v[s] # Absent => p[s] # Absent
  BY <1>0, <1>2 DEF Agrees
<1>7. pod[Of("annotations")] # Absent => v[Of("annotations")] # Absent
  BY <1>0, <1>2, SlotKinds DEF Agrees, Keyed
<1>8. EnvOnce(v) /\ EnvOnce(p)
  <2>1. ASSUME NEW c \in 1 .. Sidecar PROVE Once(Entries(v, Env(c))) /\ Once(Entries(p, Env(c)))
    <3>1. Env(c) \in Slots /\ Env(c)[1] = "env"
      BY SlotsOfThePod DEF Env
    <3>2. Once(Entries(w.view, Env(c))) /\ Once(Entries(w.patched, Env(c)))
      BY <1>0 DEF Agrees, EnvOnce, Once
    <3>3. CASE Env(c) # slot
      BY <1>2, <3>1, <3>2, <3>3 DEF Entries
    <3>4. CASE Env(c) = slot
      BY <1>2, <3>1, <3>4 DEF Entries, Once
    <3>. QED BY <3>3, <3>4
  <2>. QED BY <2>1 DEF EnvOnce, Once
<1>9. Keeps(pod, r, t)
  <2>1. ASSUME NEW s \in Slots, NEW x \in Entries(pod, s)
        PROVE  x \in Entries(p, s) \/ Excused(r, s, x)
    <3>1. CASE s # slot
      BY <1>0, <1>2, <3>1 DEF Keeps, Entries
    <3>2. CASE s = slot
      BY <1>2, <3>2 DEF Entries
    <3>. QED BY <3>1, <3>2
  <2>. QED BY <1>3, <2>1 DEF Keeps
<1>10. t \in Sound(pod, r)
  BY <1>3, <1>4, <1>5, <1>6, <1>7, <1>8, <1>9 DEF Sound, Agrees
<1>. QED BY <1>10 DEF t, v, p

\* What is sound, field by field.
LEMMA SoundFields ==
  ASSUME NEW pod \in Docs, NEW r, NEW w \in Sound(pod, r)
  PROVE  /\ w.view \in Docs /\ w.patched \in Docs
         /\ \A slot \in UserSlots : /\ w.patched[slot] = w.view[slot]
                                    /\ Entries(w.patched, slot) = Entries(w.view, slot)
         /\ \A slot \in EmitSlots : /\ w.view[slot] = pod[slot]
                                    /\ Entries(w.view, slot) = Entries(pod, slot)
         /\ \A slot \in Slots : w.view[slot] # Absent => w.patched[slot] # Absent
         /\ pod[Of("annotations")] # Absent => w.view[Of("annotations")] # Absent
         /\ \A slot \in Slots : \A x \in Entries(pod, slot) :
              x \in Entries(w.patched, slot) \/ Excused(r, slot, x)
         /\ \A c \in 1 .. Sidecar : Once(Entries(w.view, Env(c)))
BY DEF Sound, Works, Agrees, Keeps, Entries, EnvOnce, Once

\* What an insertion makes of copy and document.
LEMMA InsertEffect ==
  ASSUME NEW pod \in Docs, NEW r, NEW w \in Sound(pod, r), NEW slot \in UserSlots, NEW x \in Entry
  PROVE  LET xs == Entries(w.view, slot) \cup {x}
         IN  Insert(w, slot, x) = [view    |-> With(w.view, slot, xs),
                                   patched |-> With(w.patched, slot, xs)]
<1> DEFINE xs == Entries(w.view, slot) \cup {x}
<1>1. slot \in Slots /\ slot \notin Keyed /\ {x} \in SUBSET Entry
  BY SlotKinds
<1>2. w.view \in Docs /\ w.patched \in Docs /\ Entries(w.patched, slot) = Entries(w.view, slot)
  BY SoundFields
<1>3. CASE Entries(w.view, slot) = {}
  <2>1. xs = {x}
    BY <1>3
  <2>2. Patched(w.view, Put(slot, {x})) = With(w.view, slot, {x})
    BY <1>1, <1>2, PutEffect
  <2>3. Apply(w.patched, Put(slot, {x})) = With(w.patched, slot, {x})
    BY <1>1, <1>2, PutEffect
  <2>4. Insert(w, slot, x) = Both(w, Put(slot, {x}))
    BY <1>3 DEF Insert, FirstOrNext
  <2>. QED BY <2>1, <2>2, <2>3, <2>4 DEF Both
<1>4. CASE Entries(w.view, slot) # {}
  <2>1. w.view[slot] # Absent
    BY <1>4 DEF Entries
  <2>2. w.patched[slot] # Absent
    BY <1>1, <2>1, SoundFields
  <2>3. Patched(w.view, Add(slot, {x})) = With(w.view, slot, xs)
    BY ONLY <1>1, <1>2, AddEffect, slot \in Slots
  <2>4. Apply(w.patched, Add(slot, {x})) = With(w.patched, slot, xs)
    <3>1. Apply(w.patched, Add(slot, {x}))
            = With(w.patched, slot, Entries(w.patched, slot) \cup {x})
      BY ONLY <1>1, <1>2, <2>2, AddEffect
    <3>. QED BY <1>2, <3>1
  <2>5. Insert(w, slot, x) = Both(w, Add(slot, {x}))
    BY <1>4 DEF Insert, FirstOrNext
  <2>. QED BY <2>3, <2>4, <2>5 DEF Both
<1>. QED BY <1>3, <1>4

LEMMA InsertSound ==
  ASSUME NEW pod \in Docs, NEW r, NEW w \in Sound(pod, r), NEW slot \in UserSlots, NEW x \in Entry,
         slot[1] = "env" => x[1] \notin Names(w.view, slot)
  PROVE  Insert(w, slot, x) \in Sound(pod, r)
<1> DEFINE xs == Entries(w.view, slot) \cup {x}
<1>1. slot \in Slots /\ slot \notin EmitSlots
  BY SlotKinds
<1>2. xs \in SUBSET Entry
  BY <1>1, SoundFields, EntriesTyped
<1>3. xs # Absent
  BY <1>2, AbsentIsNoEntries
<1>4. slot[1] = "env" => Once(xs)
  <2> SUFFICES ASSUME slot[1] = "env" PROVE Once(xs)
    OBVIOUS
  <2>1. Once(Entries(w.view, slot))
    <3>1. slot[2] \in 1 .. Sidecar /\ slot = Env(slot[2])
      BY SlotsOfThePod DEF UserSlots, Workloads, Of, Env
    <3>. QED BY <3>1, SoundFields
  <2>2. \A y \in Entries(w.view, slot) : y[1] # x[1]
    BY DEF Names
  <2>. QED BY <2>1, <2>2 DEF Once
<1>5. \A y \in Entries(pod, slot) : y \in xs \/ Excused(r, slot, y)
  BY <1>1, SoundFields
<1>6. [view |-> With(w.view, slot, xs), patched |-> With(w.patched, slot, xs)]
        \in Sound(pod, r)
  <2>. HIDE DEF xs
  <2>. QED BY <1>1, <1>2, <1>3, <1>4, <1>5, SoundChange
<1>. QED BY <1>6, InsertEffect

-----------------------------------------------------------------------------
(* What a builder leaves alone, and what it adds.                           *)

GrowSlots == {Of("volumes")} \cup ({"env", "mounts"} \X Workloads)

\* From w to v only fields of T change, and the user's lists only grow.
Grows(w, v, T) ==
  /\ \A slot \in Slots \ T : v.view[slot] = w.view[slot] /\ v.patched[slot] = w.patched[slot]
  /\ \A slot \in GrowSlots : Entries(w.patched, slot) \subseteq Entries(v.patched, slot)

LEMMA GrowKinds ==
  /\ GrowSlots \subseteq UserSlots /\ GrowSlots \subseteq Slots
  /\ Of("volumes") \in GrowSlots
  /\ \A c \in Workloads : Env(c) \in GrowSlots /\ Mounts(c) \in GrowSlots
BY SlotKinds DEF GrowSlots, UserSlots, Env, Mounts

LEMMA GrowsTransitive ==
  ASSUME NEW w, NEW v, NEW u, NEW T, NEW U, Grows(w, v, T), Grows(v, u, U)
  PROVE  Grows(w, u, T \cup U)
<1>1. \A slot \in Slots \ (T \cup U) : u.view[slot] = w.view[slot]
        /\ u.patched[slot] = w.patched[slot]
  BY DEF Grows
<1>2. \A slot \in GrowSlots : Entries(w.patched, slot) \subseteq Entries(u.patched, slot)
  BY DEF Grows
<1>. QED BY <1>1, <1>2 DEF Grows

LEMMA GrowsReflexive ==
  ASSUME NEW w, NEW T
  PROVE  Grows(w, w, T)
BY DEF Grows

LEMMA GrowsWider ==
  ASSUME NEW w, NEW v, NEW T, NEW U, Grows(w, v, T), T \subseteq U
  PROVE  Grows(w, v, U)
BY DEF Grows

\* A name once there stays there.
LEMMA GrowsNames ==
  ASSUME NEW w, NEW v, NEW T, Grows(w, v, T)
  PROVE  \A slot \in GrowSlots : Names(w.patched, slot) \subseteq Names(v.patched, slot)
BY DEF Grows, Names

LEMMA InsertGrows ==
  ASSUME NEW pod \in Docs, NEW r, NEW w \in Sound(pod, r), NEW slot \in GrowSlots, NEW x \in Entry
  PROVE  /\ Grows(w, Insert(w, slot, x), {slot})
         /\ Entries(Insert(w, slot, x).view, slot) = Entries(w.view, slot) \cup {x}
         /\ x[1] \in Names(Insert(w, slot, x).patched, slot)
<1> DEFINE xs == Entries(w.view, slot) \cup {x}
           t == Insert(w, slot, x)
<1>1. slot \in Slots /\ slot \in UserSlots
  BY GrowKinds
<1>2. t = [view |-> With(w.view, slot, xs), patched |-> With(w.patched, slot, xs)]
  BY <1>1, InsertEffect
<1>3. w.view \in Docs /\ w.patched \in Docs /\ Entries(w.patched, slot) = Entries(w.view, slot)
  BY <1>1, SoundFields
<1>4. xs \in SUBSET Entry /\ xs # Absent
  BY <1>1, <1>3, EntriesTyped, AbsentIsNoEntries
<1>. HIDE DEF xs, t
<1>5. /\ t.view[slot] = xs /\ t.patched[slot] = xs
      /\ \A s \in Slots : s # slot => t.view[s] = w.view[s] /\ t.patched[s] = w.patched[s]
  BY <1>1, <1>2, <1>3 DEF Docs, With
<1>6. Entries(t.view, slot) = xs /\ Entries(t.patched, slot) = xs
  BY <1>4, <1>5 DEF Entries
<1>7. x[1] \in Names(t.patched, slot)
  BY <1>6 DEF Names, xs
<1>8. \A s \in GrowSlots : Entries(w.patched, s) \subseteq Entries(t.patched, s)
  <2>1. ASSUME NEW s \in GrowSlots, s # slot PROVE Entries(w.patched, s) = Entries(t.patched, s)
    BY <1>5, <2>1, GrowKinds DEF Entries
  <2>. QED BY <1>3, <1>6, <2>1 DEF xs
<1>9. Grows(w, t, {slot})
  BY <1>5, <1>8 DEF Grows
<1>. QED BY <1>6, <1>7, <1>9 DEF t, xs

-----------------------------------------------------------------------------
(* Variables.                                                               *)

AllEnv      == {Env(c) : c \in Workloads}
AllMounts   == {Mounts(c) : c \in Workloads}
AllRequests == {Requests(c) : c \in Workloads}

LEMMA Written ==
  ASSUME NEW e \in Words
  PROVE  <<e, "fluence">> \in Entry /\ <<e, "fluence">>[1] = e
BY DEF Entry, Words, OwnWords

LEMMA SetEnvSound ==
  ASSUME NEW pod \in Docs, NEW r, NEW w \in Sound(pod, r), NEW c \in Workloads, NEW e \in Words
  PROVE  /\ SetEnv(w, c, e) \in Sound(pod, r)
         /\ Grows(w, SetEnv(w, c, e), {Env(c)})
         /\ e \in Names(SetEnv(w, c, e).patched, Env(c))
         /\ Names(SetEnv(w, c, e).view, Env(c)) = Names(w.view, Env(c)) \cup {e}
<1> DEFINE x == <<e, "fluence">>
<1>1. Env(c) \in UserSlots /\ Env(c) \in GrowSlots /\ x \in Entry /\ x[1] = e
  BY SlotKinds, GrowKinds, Written
<1>2. CASE e \in Names(w.view, Env(c))
  <2>1. SetEnv(w, c, e) = w
    BY <1>2 DEF SetEnv
  <2>2. e \in Names(w.patched, Env(c))
    BY <1>1, <1>2, SoundFields DEF Names
  <2>. QED BY <1>2, <2>1, <2>2, GrowsReflexive
<1>3. CASE e \notin Names(w.view, Env(c))
  <2>1. SetEnv(w, c, e) = Insert(w, Env(c), x)
    BY <1>3 DEF SetEnv
  <2>. HIDE DEF x
  <2>2. Insert(w, Env(c), x) \in Sound(pod, r)
    BY <1>1, <1>3, InsertSound
  <2>3. /\ Grows(w, Insert(w, Env(c), x), {Env(c)})
        /\ Entries(Insert(w, Env(c), x).view, Env(c)) = Entries(w.view, Env(c)) \cup {x}
        /\ x[1] \in Names(Insert(w, Env(c), x).patched, Env(c))
    BY <1>1, InsertGrows
  <2>4. Names(Insert(w, Env(c), x).view, Env(c)) = Names(w.view, Env(c)) \cup {e}
    BY <1>1, <2>3 DEF Names
  <2>. QED BY <1>1, <2>1, <2>2, <2>3, <2>4
<1>. QED BY <1>2, <1>3

LEMMA SetContainerEnvLoop ==
  ASSUME NEW pod \in Docs, NEW r, NEW w \in Sound(pod, r), NEW e \in Words
  PROVE  \E at \in [0 .. Containers -> Sound(pod, r)] :
           /\ at[0] = w /\ at[Containers] = SetContainerEnvOps(w, e)
           /\ \A c \in Workloads : at[c] = SetEnv(at[c - 1], c, e)
<1> DEFINE D == Sound(pod, r)
           step == [p \in D \X Workloads |-> SetEnv(p[1], p[2], e)]
           Eq(at) == at = [c \in 0 .. Containers |-> IF c = 0 THEN w ELSE SetEnv(at[c - 1], c, e)]
<1>1. \A d \in D, c \in Workloads : step[<<d, c>>] = SetEnv(d, c, e) /\ step[<<d, c>>] \in D
  BY SetEnvSound
<1>2. PICK at \in [0 .. Containers -> D] : Runs(at, Containers, w, step)
  <2>1. w \in D /\ Containers \in Nat /\ \A d \in D, c \in 1 .. Containers : step[<<d, c>>] \in D
    BY <1>1, SlotsOfThePod DEF Workloads
  <2>. HIDE DEF D, step
  <2>. QED BY <2>1, LoopExists
<1>3. \A c \in 0 .. Containers : c # 0 => c - 1 \in 0 .. Containers /\ c \in Workloads
  BY SlotsOfThePod DEF Workloads
<1>4. Eq(at)
  <2>. HIDE DEF D, step
  <2>. QED BY <1>1, <1>2, <1>3 DEF Runs
<1>5. PICK bt : bt = (CHOOSE g : Eq(g))
  OBVIOUS
<1>6. Eq(bt) /\ SetContainerEnvOps(w, e) = bt[Containers]
  <2>1. Eq(bt)
    <3>. HIDE DEF Eq
    <3>. QED BY <1>4, <1>5
  <2>2. SetContainerEnvOps(w, e) = bt[Containers]
    BY <1>5 DEF SetContainerEnvOps, EachContainer
  <2>. QED BY <2>1, <2>2
<1>7. bt[0] = w /\ \A c \in 1 .. Containers : bt[c] = SetEnv(bt[c - 1], c, e)
  BY <1>3, <1>6, SlotsOfThePod DEF Workloads
<1>8. bt \in [0 .. Containers -> D]
  <2>1. ASSUME NEW c \in 1 .. Containers, bt[c - 1] \in D PROVE bt[c] \in D
    <3>1. bt[c] = SetEnv(bt[c - 1], c, e) /\ c \in Workloads
      BY <1>7 DEF Workloads
    <3>. HIDE DEF D, step
    <3>. QED BY <1>1, <2>1, <3>1
  <2>2. w \in D /\ Containers \in Nat
    BY SlotsOfThePod
  <2>3. \A c \in 0 .. Containers : bt[c] \in D
    <3>. HIDE DEF D, Eq
    <3>. QED BY <1>7, <2>1, <2>2, LoopTyped
  <2>. QED BY <1>6, <2>3
<1>. QED BY <1>6, <1>7, <1>8 DEF Workloads

\* A loop whose rounds only grow grows.
LEMMA LoopGrows ==
  ASSUME NEW at, NEW T, \A c \in Workloads : Grows(at[c - 1], at[c], T)
  PROVE  \A a, b \in 0 .. Containers : a <= b => Grows(at[a], at[b], T)
<1> SUFFICES ASSUME NEW a \in 0 .. Containers, NEW b \in 0 .. Containers, a <= b
             PROVE  Grows(at[a], at[b], T)
  OBVIOUS
<1> DEFINE F == {i \in 0 .. b : Grows(at[a], at[i], T)}
<1>1. a \in F /\ a \in 0 .. b /\ b \in Nat
  BY GrowsReflexive, SlotsOfThePod
<1>2. ASSUME NEW i \in 1 .. b, i > a, i - 1 \in F PROVE i \in F
  <2>1. i \in Workloads /\ i \in 0 .. b
    BY SlotsOfThePod DEF Workloads
  <2>2. Grows(at[a], at[i - 1], T) /\ Grows(at[i - 1], at[i], T)
    BY <1>2, <2>1
  <2>3. Grows(at[a], at[i], T \cup T)
    BY <2>2, GrowsTransitive
  <2>. QED BY <2>1, <2>3
<1>3. b \in F
  <2>. HIDE DEF F
  <2>. QED BY <1>1, <1>2, LoopReaches
<1>. QED BY <1>3

LEMMA SetContainerEnvSound ==
  ASSUME NEW pod \in Docs, NEW r, NEW w \in Sound(pod, r), NEW e \in Words
  PROVE  /\ SetContainerEnvOps(w, e) \in Sound(pod, r)
         /\ Grows(w, SetContainerEnvOps(w, e), AllEnv)
         /\ \A c \in Workloads : e \in Names(SetContainerEnvOps(w, e).patched, Env(c))
<1>1. PICK at \in [0 .. Containers -> Sound(pod, r)] :
        /\ at[0] = w /\ at[Containers] = SetContainerEnvOps(w, e)
        /\ \A c \in Workloads : at[c] = SetEnv(at[c - 1], c, e)
  BY SetContainerEnvLoop
<1>2. \A c \in Workloads : c - 1 \in 0 .. Containers /\ c \in 0 .. Containers
  BY SlotsOfThePod DEF Workloads
<1>3. ASSUME NEW c \in Workloads
      PROVE  Grows(at[c - 1], at[c], AllEnv) /\ e \in Names(at[c].patched, Env(c))
  <2>1. at[c - 1] \in Sound(pod, r) /\ at[c] = SetEnv(at[c - 1], c, e)
    BY <1>1, <1>2
  <2>2. LET v == SetEnv(at[c - 1], c, e)
        IN  Grows(at[c - 1], v, {Env(c)}) /\ e \in Names(v.patched, Env(c))
    BY <2>1, SetEnvSound
  <2>. QED BY <2>1, <2>2, GrowsWider DEF AllEnv
<1>4. \A a, b \in 0 .. Containers : a <= b => Grows(at[a], at[b], AllEnv)
  BY <1>3, LoopGrows
<1>5. 0 \in 0 .. Containers /\ Containers \in 0 .. Containers /\ 0 <= Containers
  BY SlotsOfThePod
<1>6. ASSUME NEW c \in Workloads PROVE e \in Names(at[Containers].patched, Env(c))
  <2>1. c \in 0 .. Containers /\ c <= Containers
    BY SlotsOfThePod DEF Workloads
  <2>2. Grows(at[c], at[Containers], AllEnv) /\ Env(c) \in GrowSlots
    BY <1>4, <1>5, <2>1, GrowKinds
  <2>. QED BY <1>3, <2>2, GrowsNames
<1>. QED BY <1>1, <1>4, <1>5, <1>6

LEMMA InjectEnvSound ==
  ASSUME NEW pod \in Docs, NEW r, NEW w \in Sound(pod, r), NEW c \in Workloads
  PROVE  /\ InjectEnv(w, c) \in Sound(pod, r)
         /\ Grows(w, InjectEnv(w, c), {Env(c)})
         /\ Entries(w.view, Requests(c)) # {} =>
              Injected \subseteq Names(InjectEnv(w, c).patched, Env(c))
<1> DEFINE s == SetEnv(w, c, "FLUXION_BACKEND")
           t == SetEnv(s, c, "FLUXION_REGION")
<1>1. "FLUXION_BACKEND" \in Words /\ "FLUXION_REGION" \in Words
  BY DEF Words, OwnEnv, Injected
<1>2. s \in Sound(pod, r) /\ Grows(w, s, {Env(c)}) /\ "FLUXION_BACKEND" \in Names(s.patched, Env(c))
  BY <1>1, SetEnvSound
<1>. HIDE DEF s
<1>3. t \in Sound(pod, r) /\ Grows(s, t, {Env(c)}) /\ "FLUXION_REGION" \in Names(t.patched, Env(c))
  BY <1>1, <1>2, SetEnvSound
<1>. HIDE DEF t
<1>4. Grows(w, t, {Env(c)} \cup {Env(c)})
  BY <1>2, <1>3, GrowsTransitive
<1>5. Grows(w, t, {Env(c)}) /\ Injected \subseteq Names(t.patched, Env(c))
  BY <1>2, <1>3, <1>4, GrowsNames, GrowKinds DEF Injected
<1>6. InjectEnv(w, c) = IF Entries(w.view, Requests(c)) = {} THEN w ELSE t
  BY DEF InjectEnv, s, t
<1>. QED BY <1>3, <1>5, <1>6, GrowsReflexive

LEMMA InjectEnvLoop ==
  ASSUME NEW pod \in Docs, NEW r, NEW w \in Sound(pod, r)
  PROVE  \E at \in [0 .. Containers -> Sound(pod, r)] :
           /\ at[0] = w /\ at[Containers] = InjectEnvOps(w)
           /\ \A c \in Workloads : at[c] = InjectEnv(at[c - 1], c)
<1> DEFINE D == Sound(pod, r)
           step == [p \in D \X Workloads |-> InjectEnv(p[1], p[2])]
           Eq(at) == at = [c \in 0 .. Containers |-> IF c = 0 THEN w ELSE InjectEnv(at[c - 1], c)]
<1>1. \A d \in D, c \in Workloads : step[<<d, c>>] = InjectEnv(d, c) /\ step[<<d, c>>] \in D
  BY InjectEnvSound
<1>2. PICK at \in [0 .. Containers -> D] : Runs(at, Containers, w, step)
  <2>1. w \in D /\ Containers \in Nat /\ \A d \in D, c \in 1 .. Containers : step[<<d, c>>] \in D
    BY <1>1, SlotsOfThePod DEF Workloads
  <2>. HIDE DEF D, step
  <2>. QED BY <2>1, LoopExists
<1>3. \A c \in 0 .. Containers : c # 0 => c - 1 \in 0 .. Containers /\ c \in Workloads
  BY SlotsOfThePod DEF Workloads
<1>4. Eq(at)
  <2>. HIDE DEF D, step
  <2>. QED BY <1>1, <1>2, <1>3 DEF Runs
<1>5. PICK bt : bt = (CHOOSE g : Eq(g))
  OBVIOUS
<1>6. Eq(bt) /\ InjectEnvOps(w) = bt[Containers]
  <2>1. Eq(bt)
    <3>. HIDE DEF Eq
    <3>. QED BY <1>4, <1>5
  <2>2. InjectEnvOps(w) = bt[Containers]
    BY <1>5 DEF InjectEnvOps, EachContainer
  <2>. QED BY <2>1, <2>2
<1>7. bt[0] = w /\ \A c \in 1 .. Containers : bt[c] = InjectEnv(bt[c - 1], c)
  BY <1>3, <1>6, SlotsOfThePod DEF Workloads
<1>8. bt \in [0 .. Containers -> D]
  <2>1. ASSUME NEW c \in 1 .. Containers, bt[c - 1] \in D PROVE bt[c] \in D
    <3>1. bt[c] = InjectEnv(bt[c - 1], c) /\ c \in Workloads
      BY <1>7 DEF Workloads
    <3>. HIDE DEF D, step
    <3>. QED BY <1>1, <2>1, <3>1
  <2>2. w \in D /\ Containers \in Nat
    BY SlotsOfThePod
  <2>3. \A c \in 0 .. Containers : bt[c] \in D
    <3>. HIDE DEF D, Eq
    <3>. QED BY <1>7, <2>1, <2>2, LoopTyped
  <2>. QED BY <1>6, <2>3
<1>. QED BY <1>6, <1>7, <1>8 DEF Workloads

LEMMA InjectEnvOpsSound ==
  ASSUME NEW pod \in Docs, NEW r, NEW w \in Sound(pod, r)
  PROVE  /\ InjectEnvOps(w) \in Sound(pod, r)
         /\ Grows(w, InjectEnvOps(w), AllEnv)
         /\ \A c \in Workloads : Entries(w.view, Requests(c)) # {} =>
              Injected \subseteq Names(InjectEnvOps(w).patched, Env(c))
<1>1. PICK at \in [0 .. Containers -> Sound(pod, r)] :
        /\ at[0] = w /\ at[Containers] = InjectEnvOps(w)
        /\ \A c \in Workloads : at[c] = InjectEnv(at[c - 1], c)
  BY InjectEnvLoop
<1>2. \A c \in Workloads : c - 1 \in 0 .. Containers /\ c \in 0 .. Containers
  BY SlotsOfThePod DEF Workloads
<1>3. ASSUME NEW c \in Workloads
      PROVE  /\ Grows(at[c - 1], at[c], AllEnv)
             /\ Entries(at[c - 1].view, Requests(c)) # {} =>
                  Injected \subseteq Names(at[c].patched, Env(c))
  <2>1. at[c - 1] \in Sound(pod, r) /\ at[c] = InjectEnv(at[c - 1], c)
    BY <1>1, <1>2
  <2>2. /\ Grows(at[c - 1], at[c], {Env(c)})
        /\ Entries(at[c - 1].view, Requests(c)) # {} =>
             Injected \subseteq Names(at[c].patched, Env(c))
    BY <2>1, InjectEnvSound
  <2>. QED BY <2>2, GrowsWider DEF AllEnv
<1>4. \A a, b \in 0 .. Containers : a <= b => Grows(at[a], at[b], AllEnv)
  BY <1>3, LoopGrows
<1>5. 0 \in 0 .. Containers /\ Containers \in 0 .. Containers /\ 0 <= Containers
  BY SlotsOfThePod
<1>6. ASSUME NEW c \in Workloads, Entries(w.view, Requests(c)) # {}
      PROVE  Injected \subseteq Names(at[Containers].patched, Env(c))
  <2>1. c \in 0 .. Containers /\ c - 1 \in 0 .. Containers /\ 0 <= c - 1 /\ c <= Containers
    BY SlotsOfThePod DEF Workloads
  <2>2. Grows(at[c], at[Containers], AllEnv) /\ Env(c) \in GrowSlots /\ Grows(w, at[c - 1], AllEnv)
    BY <1>1, <1>4, <1>5, <2>1, GrowKinds
  <2>3. Requests(c) \in Slots \ AllEnv
    BY SlotsOfThePod DEF AllEnv, Env, Requests
  <2>4. Entries(at[c - 1].view, Requests(c)) # {}
    BY <1>6, <2>2, <2>3 DEF Grows, Entries
  <2>. QED BY <1>3, <2>2, <2>4, GrowsNames
<1>. QED BY <1>1, <1>4, <1>5, <1>6

-----------------------------------------------------------------------------
(* Mounts, the interceptor and the handoff volume.                          *)

InterceptAll(w)    == EachContainer(w, Intercept)
MountHandoffAll(w) == EachContainer(w, MountHandoff)

LEMMA InterceptSound ==
  ASSUME NEW pod \in Docs, NEW r, NEW w \in Sound(pod, r), NEW c \in Workloads
  PROVE  /\ Intercept(w, c) \in Sound(pod, r)
         /\ Grows(w, Intercept(w, c), AllMounts \cup AllEnv)
         /\ "stage" \in Names(Intercept(w, c).patched, Mounts(c))
         /\ {"PYTHONPATH", "FLUENCE_POD_UID"} \subseteq Names(Intercept(w, c).patched, Env(c))
<1> DEFINE stage == <<"stage", "fluence">>
           uid   == <<"FLUENCE_POD_UID", "fluence">>
           s     == Insert(w, Mounts(c), stage)
           t     == SetEnv(s, c, "PYTHONPATH")
           u     == Insert(t, Env(c), uid)
<1>1. /\ "stage" \in Words /\ "PYTHONPATH" \in Words /\ "FLUENCE_POD_UID" \in Words
      /\ Env(c) \in UserSlots /\ Env(c) \in GrowSlots /\ Env(c) \in Slots
      /\ Mounts(c) \in UserSlots /\ Mounts(c) \in GrowSlots /\ Mounts(c)[1] # "env"
      /\ Mounts(c) # Env(c) /\ Mounts(c) \in AllMounts /\ Env(c) \in AllEnv
  BY SlotKinds, GrowKinds DEF Words, OwnEnv, OwnWords, Mounts, Env, AllMounts, AllEnv
<1>2. stage \in Entry /\ stage[1] = "stage" /\ uid \in Entry /\ uid[1] = "FLUENCE_POD_UID"
  BY <1>1, Written
<1>. HIDE DEF stage, uid
<1>3. /\ s \in Sound(pod, r) /\ Grows(w, s, {Mounts(c)})
      /\ "stage" \in Names(s.patched, Mounts(c))
  <2>1. s \in Sound(pod, r)
    BY <1>1, <1>2, InsertSound
  <2>2. Grows(w, s, {Mounts(c)}) /\ stage[1] \in Names(s.patched, Mounts(c))
    BY <1>1, <1>2, InsertGrows
  <2>. QED BY <1>2, <2>1, <2>2
<1>4. s.view[Env(c)] = w.view[Env(c)]
  BY <1>1, <1>3 DEF Grows
<1>. HIDE DEF s
<1>5. /\ t \in Sound(pod, r) /\ Grows(s, t, {Env(c)})
      /\ "PYTHONPATH" \in Names(t.patched, Env(c))
      /\ Names(t.view, Env(c)) = Names(s.view, Env(c)) \cup {"PYTHONPATH"}
  BY <1>1, <1>3, SetEnvSound
<1>6. Names(t.view, Env(c)) = Names(w.view, Env(c)) \cup {"PYTHONPATH"}
  BY <1>4, <1>5 DEF Names, Entries
<1>. HIDE DEF t
<1>7. Grows(w, t, AllMounts \cup AllEnv) /\ "stage" \in Names(t.patched, Mounts(c))
  <2>1. Grows(w, t, {Mounts(c)} \cup {Env(c)})
    BY <1>3, <1>5, GrowsTransitive
  <2>. QED BY <1>1, <1>3, <1>5, <2>1, GrowsWider, GrowsNames
<1>8. CASE "FLUENCE_POD_UID" \in Names(w.view, Env(c))
  <2>1. Intercept(w, c) = t
    BY <1>8 DEF Intercept, t, s, stage
  <2>2. "FLUENCE_POD_UID" \in Names(t.patched, Env(c))
    BY <1>1, <1>5, <1>6, <1>8, SoundFields DEF Names
  <2>. QED BY <1>5, <1>7, <2>1, <2>2
<1>9. CASE "FLUENCE_POD_UID" \notin Names(w.view, Env(c))
  <2>1. uid[1] \notin Names(t.view, Env(c))
    BY <1>2, <1>6, <1>9
  <2>2. /\ u \in Sound(pod, r) /\ Grows(t, u, {Env(c)})
        /\ "FLUENCE_POD_UID" \in Names(u.patched, Env(c))
    <3>1. u \in Sound(pod, r)
      BY <1>1, <1>2, <1>5, <2>1, InsertSound
    <3>2. Grows(t, u, {Env(c)}) /\ uid[1] \in Names(u.patched, Env(c))
      BY <1>1, <1>2, <1>5, InsertGrows
    <3>. QED BY <1>2, <3>1, <3>2
  <2>3. Intercept(w, c) = u
    <3>1. Entries(t.view, Env(c)) # {}
      BY <1>5 DEF Names
    <3>2. Stamps({"FLUENCE_POD_UID"}) = {uid}
      BY DEF Stamps, uid
    <3>3. u = Both(t, Add(Env(c), {uid}))
      BY <3>1 DEF Insert, FirstOrNext
    <3>4. Intercept(w, c) = Both(t, Add(Env(c), Stamps({"FLUENCE_POD_UID"})))
      BY <1>9 DEF Intercept, t, s, stage
    <3>. QED BY <3>2, <3>3, <3>4
  <2>. HIDE DEF u
  <2>4. Grows(w, u, (AllMounts \cup AllEnv) \cup {Env(c)})
    BY <1>7, <2>2, GrowsTransitive
  <2>5. Grows(w, u, AllMounts \cup AllEnv)
    BY <1>1, <2>4, GrowsWider
  <2>. QED BY <1>1, <1>5, <1>7, <2>2, <2>3, <2>5, GrowsNames
<1>. QED BY <1>8, <1>9

LEMMA InterceptLoop ==
  ASSUME NEW pod \in Docs, NEW r, NEW w \in Sound(pod, r)
  PROVE  \E at \in [0 .. Containers -> Sound(pod, r)] :
           /\ at[0] = w /\ at[Containers] = InterceptAll(w)
           /\ \A c \in Workloads : at[c] = Intercept(at[c - 1], c)
<1> DEFINE D == Sound(pod, r)
           step == [p \in D \X Workloads |-> Intercept(p[1], p[2])]
           Eq(at) == at = [c \in 0 .. Containers |-> IF c = 0 THEN w ELSE Intercept(at[c - 1], c)]
<1>1. \A d \in D, c \in Workloads : step[<<d, c>>] = Intercept(d, c) /\ step[<<d, c>>] \in D
  BY InterceptSound
<1>2. PICK at \in [0 .. Containers -> D] : Runs(at, Containers, w, step)
  <2>1. w \in D /\ Containers \in Nat /\ \A d \in D, c \in 1 .. Containers : step[<<d, c>>] \in D
    BY <1>1, SlotsOfThePod DEF Workloads
  <2>. HIDE DEF D, step
  <2>. QED BY <2>1, LoopExists
<1>3. \A c \in 0 .. Containers : c # 0 => c - 1 \in 0 .. Containers /\ c \in Workloads
  BY SlotsOfThePod DEF Workloads
<1>4. Eq(at)
  <2>. HIDE DEF D, step
  <2>. QED BY <1>1, <1>2, <1>3 DEF Runs
<1>5. PICK bt : bt = (CHOOSE g : Eq(g))
  OBVIOUS
<1>6. Eq(bt) /\ InterceptAll(w) = bt[Containers]
  <2>1. Eq(bt)
    <3>. HIDE DEF Eq
    <3>. QED BY <1>4, <1>5
  <2>2. InterceptAll(w) = bt[Containers]
    BY <1>5 DEF InterceptAll, EachContainer
  <2>. QED BY <2>1, <2>2
<1>7. bt[0] = w /\ \A c \in 1 .. Containers : bt[c] = Intercept(bt[c - 1], c)
  BY <1>3, <1>6, SlotsOfThePod DEF Workloads
<1>8. bt \in [0 .. Containers -> D]
  <2>1. ASSUME NEW c \in 1 .. Containers, bt[c - 1] \in D PROVE bt[c] \in D
    <3>1. bt[c] = Intercept(bt[c - 1], c) /\ c \in Workloads
      BY <1>7 DEF Workloads
    <3>. HIDE DEF D, step
    <3>. QED BY <1>1, <2>1, <3>1
  <2>2. w \in D /\ Containers \in Nat
    BY SlotsOfThePod
  <2>3. \A c \in 0 .. Containers : bt[c] \in D
    <3>. HIDE DEF D, Eq
    <3>. QED BY <1>7, <2>1, <2>2, LoopTyped
  <2>. QED BY <1>6, <2>3
<1>. QED BY <1>6, <1>7, <1>8 DEF Workloads

LEMMA InterceptAllSound ==
  ASSUME NEW pod \in Docs, NEW r, NEW w \in Sound(pod, r)
  PROVE  LET v == InterceptAll(w)
         IN  /\ v \in Sound(pod, r) /\ Grows(w, v, AllMounts \cup AllEnv)
             /\ \A c \in Workloads :
                  /\ "stage" \in Names(v.patched, Mounts(c))
                  /\ {"PYTHONPATH", "FLUENCE_POD_UID"} \subseteq Names(v.patched, Env(c))
<1> DEFINE T == AllMounts \cup AllEnv
<1>1. PICK at \in [0 .. Containers -> Sound(pod, r)] :
        /\ at[0] = w /\ at[Containers] = InterceptAll(w)
        /\ \A c \in Workloads : at[c] = Intercept(at[c - 1], c)
  BY InterceptLoop
<1>2. \A c \in Workloads : c - 1 \in 0 .. Containers /\ c \in 0 .. Containers
  BY SlotsOfThePod DEF Workloads
<1>3. ASSUME NEW c \in Workloads
      PROVE  /\ Grows(at[c - 1], at[c], T)
             /\ "stage" \in Names(at[c].patched, Mounts(c))
             /\ {"PYTHONPATH", "FLUENCE_POD_UID"} \subseteq Names(at[c].patched, Env(c))
  <2>1. at[c - 1] \in Sound(pod, r) /\ at[c] = Intercept(at[c - 1], c)
    BY <1>1, <1>2
  <2>. QED BY <2>1, InterceptSound
<1>4. \A a, b \in 0 .. Containers : a <= b => Grows(at[a], at[b], T)
  <2>. HIDE DEF T
  <2>. QED BY <1>3, LoopGrows
<1>5. 0 \in 0 .. Containers /\ Containers \in 0 .. Containers /\ 0 <= Containers
  BY SlotsOfThePod
<1>6. ASSUME NEW c \in Workloads
      PROVE  /\ "stage" \in Names(at[Containers].patched, Mounts(c))
             /\ {"PYTHONPATH", "FLUENCE_POD_UID"} \subseteq Names(at[Containers].patched, Env(c))
  <2>1. c \in 0 .. Containers /\ c <= Containers
    BY SlotsOfThePod DEF Workloads
  <2>2. Grows(at[c], at[Containers], T) /\ Env(c) \in GrowSlots /\ Mounts(c) \in GrowSlots
    BY <1>4, <1>5, <2>1, GrowKinds
  <2>. QED BY <1>3, <2>2, GrowsNames
<1>. QED BY <1>1, <1>4, <1>5, <1>6

LEMMA MountHandoffSound ==
  ASSUME NEW pod \in Docs, NEW r, NEW w \in Sound(pod, r), NEW c \in Workloads
  PROVE  /\ MountHandoff(w, c) \in Sound(pod, r)
         /\ Grows(w, MountHandoff(w, c), AllMounts)
         /\ "handoff" \in Names(MountHandoff(w, c).patched, Mounts(c))
<1> DEFINE x == <<"handoff", "fluence">>
<1>1. /\ "handoff" \in Words /\ Mounts(c) \in UserSlots /\ Mounts(c) \in GrowSlots
      /\ Mounts(c)[1] # "env" /\ Mounts(c) \in AllMounts
  BY SlotKinds, GrowKinds DEF Words, OwnWords, Mounts, AllMounts
<1>2. x \in Entry /\ x[1] = "handoff" /\ MountHandoff(w, c) = Insert(w, Mounts(c), x)
  BY <1>1, Written DEF MountHandoff
<1>. HIDE DEF x
<1>3. Insert(w, Mounts(c), x) \in Sound(pod, r)
  BY <1>1, <1>2, InsertSound
<1>4. /\ Grows(w, Insert(w, Mounts(c), x), {Mounts(c)})
      /\ x[1] \in Names(Insert(w, Mounts(c), x).patched, Mounts(c))
  BY <1>1, <1>2, InsertGrows
<1>. QED BY <1>1, <1>2, <1>3, <1>4, GrowsWider

LEMMA MountHandoffLoop ==
  ASSUME NEW pod \in Docs, NEW r, NEW w \in Sound(pod, r)
  PROVE  \E at \in [0 .. Containers -> Sound(pod, r)] :
           /\ at[0] = w /\ at[Containers] = MountHandoffAll(w)
           /\ \A c \in Workloads : at[c] = MountHandoff(at[c - 1], c)
<1> DEFINE D == Sound(pod, r)
           step == [p \in D \X Workloads |-> MountHandoff(p[1], p[2])]
           Eq(at) == at =
                 [c \in 0 .. Containers |-> IF c = 0 THEN w ELSE MountHandoff(at[c - 1], c)]
<1>1. \A d \in D, c \in Workloads : step[<<d, c>>] = MountHandoff(d, c) /\ step[<<d, c>>] \in D
  BY MountHandoffSound
<1>2. PICK at \in [0 .. Containers -> D] : Runs(at, Containers, w, step)
  <2>1. w \in D /\ Containers \in Nat /\ \A d \in D, c \in 1 .. Containers : step[<<d, c>>] \in D
    BY <1>1, SlotsOfThePod DEF Workloads
  <2>. HIDE DEF D, step
  <2>. QED BY <2>1, LoopExists
<1>3. \A c \in 0 .. Containers : c # 0 => c - 1 \in 0 .. Containers /\ c \in Workloads
  BY SlotsOfThePod DEF Workloads
<1>4. Eq(at)
  <2>. HIDE DEF D, step
  <2>. QED BY <1>1, <1>2, <1>3 DEF Runs
<1>5. PICK bt : bt = (CHOOSE g : Eq(g))
  OBVIOUS
<1>6. Eq(bt) /\ MountHandoffAll(w) = bt[Containers]
  <2>1. Eq(bt)
    <3>. HIDE DEF Eq
    <3>. QED BY <1>4, <1>5
  <2>2. MountHandoffAll(w) = bt[Containers]
    BY <1>5 DEF MountHandoffAll, EachContainer
  <2>. QED BY <2>1, <2>2
<1>7. bt[0] = w /\ \A c \in 1 .. Containers : bt[c] = MountHandoff(bt[c - 1], c)
  BY <1>3, <1>6, SlotsOfThePod DEF Workloads
<1>8. bt \in [0 .. Containers -> D]
  <2>1. ASSUME NEW c \in 1 .. Containers, bt[c - 1] \in D PROVE bt[c] \in D
    <3>1. bt[c] = MountHandoff(bt[c - 1], c) /\ c \in Workloads
      BY <1>7 DEF Workloads
    <3>. HIDE DEF D, step
    <3>. QED BY <1>1, <2>1, <3>1
  <2>2. w \in D /\ Containers \in Nat
    BY SlotsOfThePod
  <2>3. \A c \in 0 .. Containers : bt[c] \in D
    <3>. HIDE DEF D, Eq
    <3>. QED BY <1>7, <2>1, <2>2, LoopTyped
  <2>. QED BY <1>6, <2>3
<1>. QED BY <1>6, <1>7, <1>8 DEF Workloads

LEMMA MountHandoffAllSound ==
  ASSUME NEW pod \in Docs, NEW r, NEW w \in Sound(pod, r)
  PROVE  LET v == MountHandoffAll(w)
         IN  /\ v \in Sound(pod, r) /\ Grows(w, v, AllMounts)
             /\ \A c \in Workloads : "handoff" \in Names(v.patched, Mounts(c))
<1>1. PICK at \in [0 .. Containers -> Sound(pod, r)] :
        /\ at[0] = w /\ at[Containers] = MountHandoffAll(w)
        /\ \A c \in Workloads : at[c] = MountHandoff(at[c - 1], c)
  BY MountHandoffLoop
<1>2. \A c \in Workloads : c - 1 \in 0 .. Containers /\ c \in 0 .. Containers
  BY SlotsOfThePod DEF Workloads
<1>3. ASSUME NEW c \in Workloads
      PROVE  Grows(at[c - 1], at[c], AllMounts) /\ "handoff" \in Names(at[c].patched, Mounts(c))
  <2>1. at[c - 1] \in Sound(pod, r) /\ at[c] = MountHandoff(at[c - 1], c)
    BY <1>1, <1>2
  <2>. QED BY <2>1, MountHandoffSound
<1>4. \A a, b \in 0 .. Containers : a <= b => Grows(at[a], at[b], AllMounts)
  BY <1>3, LoopGrows
<1>5. 0 \in 0 .. Containers /\ Containers \in 0 .. Containers /\ 0 <= Containers
  BY SlotsOfThePod
<1>6. ASSUME NEW c \in Workloads PROVE "handoff" \in Names(at[Containers].patched, Mounts(c))
  <2>1. c \in 0 .. Containers /\ c <= Containers
    BY SlotsOfThePod DEF Workloads
  <2>2. Grows(at[c], at[Containers], AllMounts) /\ Mounts(c) \in GrowSlots
    BY <1>4, <1>5, <2>1, GrowKinds
  <2>. QED BY <1>3, <2>2, GrowsNames
<1>. QED BY <1>1, <1>4, <1>5, <1>6

LEMMA HandoffSound ==
  ASSUME NEW pod \in Docs, NEW r, NEW w \in Sound(pod, r)
  PROVE  /\ HandoffOps(w) \in Sound(pod, r)
         /\ Grows(w, HandoffOps(w), {Of("volumes")} \cup AllMounts \cup AllEnv)
         /\ "handoff" \in Names(HandoffOps(w).view, Of("volumes"))
         /\ "handoff" \notin Names(w.view, Of("volumes")) =>
              \A c \in Workloads : /\ "handoff" \in Names(HandoffOps(w).patched, Mounts(c))
                                  /\ "FLUENCE_HANDOFF_DIR" \in Names(HandoffOps(w).patched, Env(c))
<1>1. CASE "handoff" \in Names(w.view, Of("volumes"))
  <2>1. HandoffOps(w) = w
    BY <1>1 DEF HandoffOps
  <2>. QED BY <1>1, <2>1, GrowsReflexive
<1>2. CASE "handoff" \notin Names(w.view, Of("volumes"))
  <2> DEFINE x == <<"handoff", "fluence">>
             s == Insert(w, Of("volumes"), x)
             t == MountHandoffAll(s)
             u == SetContainerEnvOps(t, "FLUENCE_HANDOFF_DIR")
  <2>1. /\ "handoff" \in Words /\ "FLUENCE_HANDOFF_DIR" \in Words
        /\ Of("volumes") \in UserSlots /\ Of("volumes") \in GrowSlots /\ Of("volumes") \in Slots
        /\ Of("volumes")[1] # "env" /\ Of("volumes") \notin AllMounts \cup AllEnv
    BY SlotKinds, GrowKinds DEF Words, OwnWords, OwnEnv, Of, AllMounts, AllEnv, Mounts, Env
  <2>2. x \in Entry /\ x[1] = "handoff"
    BY <2>1, Written
  <2>3. HandoffOps(w) = u
    BY <1>2 DEF HandoffOps, MountHandoffAll
  <2>. HIDE DEF x
  <2>4. /\ s \in Sound(pod, r) /\ Grows(w, s, {Of("volumes")})
        /\ x \in Entries(s.view, Of("volumes"))
    <3>1. s \in Sound(pod, r)
      BY <2>1, <2>2, InsertSound
    <3>2. /\ Grows(w, Insert(w, Of("volumes"), x), {Of("volumes")})
          /\ Entries(Insert(w, Of("volumes"), x).view, Of("volumes"))
               = Entries(w.view, Of("volumes")) \cup {x}
          /\ x[1] \in Names(Insert(w, Of("volumes"), x).patched, Of("volumes"))
      BY <2>1, <2>2, InsertGrows
    <3>. QED BY <2>1, <3>1, <3>2
  <2>. HIDE DEF s
  <2>5. /\ t \in Sound(pod, r) /\ Grows(s, t, AllMounts)
        /\ \A c \in Workloads : "handoff" \in Names(t.patched, Mounts(c))
    BY <2>4, MountHandoffAllSound
  <2>. HIDE DEF t
  <2>6. /\ u \in Sound(pod, r) /\ Grows(t, u, AllEnv)
        /\ \A c \in Workloads : "FLUENCE_HANDOFF_DIR" \in Names(u.patched, Env(c))
    BY <2>1, <2>5, SetContainerEnvSound
  <2>. HIDE DEF u
  <2>7. \A c \in Workloads : "handoff" \in Names(u.patched, Mounts(c))
    BY <2>5, <2>6, GrowsNames, GrowKinds
  <2>8. Grows(s, u, AllMounts \cup AllEnv)
    BY <2>5, <2>6, GrowsTransitive
  <2>9. Grows(w, u, {Of("volumes")} \cup (AllMounts \cup AllEnv))
    BY <2>4, <2>8, GrowsTransitive
  <2>10. u.view[Of("volumes")] = s.view[Of("volumes")]
    BY <2>1, <2>8 DEF Grows
  <2>11. "handoff" \in Names(u.view, Of("volumes"))
    BY <2>2, <2>4, <2>10 DEF Names, Entries
  <2>12. Grows(w, u, {Of("volumes")} \cup AllMounts \cup AllEnv)
    BY <2>9, GrowsWider
  <2>. QED BY <2>3, <2>6, <2>7, <2>11, <2>12
<1>. QED BY <1>1, <1>2

LEMMA RehearsalSound ==
  ASSUME NEW pod \in Docs, NEW r, NEW w \in Sound(pod, r)
  PROVE  RehearsalOps(w) \in Sound(pod, r) /\ Grows(w, RehearsalOps(w), AllEnv)
<1>1. "FLUENCE_REHEARSAL" \in Words
  BY DEF Words, OwnEnv
<1>. QED BY <1>1, SetContainerEnvSound, GrowsReflexive DEF RehearsalOps

LEMMA WorkerEnvSound ==
  ASSUME NEW pod \in Docs, NEW r, NEW w \in Sound(pod, r)
  PROVE  /\ WorkerEnvOps(w) \in Sound(pod, r) /\ Grows(w, WorkerEnvOps(w), AllEnv)
         /\ \A c \in Workloads : WorkerEnv \subseteq Names(WorkerEnvOps(w).patched, Env(c))
<1> DEFINE s == SetContainerEnvOps(w, "FLUENCE_COORDINATION_ROLE")
           t == SetContainerEnvOps(s, "FLUENCE_QUANTUM_JOB_ID")
           u == SetContainerEnvOps(t, "FLUENCE_QUANTUM_SESSION_ID")
<1>1. WorkerEnv \subseteq Words
  BY DEF Words, OwnEnv
<1>2. WorkerEnvOps(w) = u
  BY DEF WorkerEnvOps
<1>3. /\ s \in Sound(pod, r) /\ Grows(w, s, AllEnv)
      /\ \A c \in Workloads : "FLUENCE_COORDINATION_ROLE" \in Names(s.patched, Env(c))
  BY <1>1, SetContainerEnvSound DEF WorkerEnv
<1>. HIDE DEF s
<1>4. /\ t \in Sound(pod, r) /\ Grows(s, t, AllEnv)
      /\ \A c \in Workloads : "FLUENCE_QUANTUM_JOB_ID" \in Names(t.patched, Env(c))
  BY <1>1, <1>3, SetContainerEnvSound DEF WorkerEnv
<1>. HIDE DEF t
<1>5. /\ u \in Sound(pod, r) /\ Grows(t, u, AllEnv)
      /\ \A c \in Workloads : "FLUENCE_QUANTUM_SESSION_ID" \in Names(u.patched, Env(c))
  BY <1>1, <1>4, SetContainerEnvSound DEF WorkerEnv
<1>. HIDE DEF u
<1>6. Grows(s, u, AllEnv \cup AllEnv)
  BY <1>4, <1>5, GrowsTransitive
<1>7. Grows(w, u, AllEnv \cup (AllEnv \cup AllEnv))
  BY <1>3, <1>6, GrowsTransitive
<1>8. Grows(w, u, AllEnv)
  BY <1>7, GrowsWider
<1>9. ASSUME NEW c \in Workloads PROVE WorkerEnv \subseteq Names(u.patched, Env(c))
  BY <1>3, <1>4, <1>5, <1>6, GrowsNames, GrowKinds DEF WorkerEnv
<1>. QED BY <1>2, <1>5, <1>8, <1>9

-----------------------------------------------------------------------------
(* Fields the copy does not follow, annotations and links.                  *)

LEMMA WithAt ==
  ASSUME NEW doc \in Docs, NEW slot \in Slots, NEW xs
  PROVE  /\ With(doc, slot, xs)[slot] = xs
         /\ \A s \in Slots : s # slot => With(doc, slot, xs)[s] = doc[s]
         /\ With(doc, slot, doc[slot]) = doc
BY DEF With, Docs

LEMMA EmitSound ==
  ASSUME NEW pod \in Docs, NEW r, NEW w \in Sound(pod, r), NEW slot \in Slots \ UserSlots,
         NEW B \in SUBSET Entry, NEW o, Apply(w.patched, o) = With(w.patched, slot, B),
         slot[1] = "env" => Once(B),
         \A x \in Entries(pod, slot) : x \in B \/ Excused(r, slot, x)
  PROVE  /\ Emit(w, o) \in Sound(pod, r) /\ Grows(w, Emit(w, o), {slot})
         /\ Emit(w, o).view = w.view
         /\ Emit(w, o).patched[slot] = B /\ Entries(Emit(w, o).patched, slot) = B
<1> DEFINE A == w.view[slot]
           t == Emit(w, o)
<1>1. w.view \in Docs /\ w.patched \in Docs /\ B # Absent
  BY SoundFields, AbsentIsNoEntries
<1>2. A \in (SUBSET Entry) \cup {Absent}
  BY <1>1 DEF Docs
<1>3. t = [view |-> With(w.view, slot, A), patched |-> With(w.patched, slot, B)]
  BY <1>1, WithAt DEF Emit
<1>4. slot[1] = "env" => (A # Absent => Once(A))
  <2> SUFFICES ASSUME slot[1] = "env", A # Absent PROVE Once(A)
    OBVIOUS
  <2>1. slot[2] \in 1 .. Sidecar /\ slot = Env(slot[2])
    BY DEF Slots, PodFields, Env
  <2>. QED BY <2>1, SoundFields DEF Entries
<1>5. [view |-> With(w.view, slot, A), patched |-> With(w.patched, slot, B)] \in Sound(pod, r)
  <2>1. /\ slot \in Slots /\ slot \notin UserSlots /\ B \in (SUBSET Entry) \cup {Absent}
        /\ \A x \in Entries(pod, slot) : (B # Absent /\ x \in B) \/ Excused(r, slot, x)
    BY <1>1
  <2>. HIDE DEF A
  <2>2. /\ slot \in UserSlots => A = B
        /\ A # Absent => B # Absent
        /\ slot[1] = "env" => (A # Absent => Once(A)) /\ (B # Absent => Once(B))
        /\ slot \in EmitSlots => A = w.view[slot]
        /\ w.view[slot] # Absent => A # Absent
    BY <1>1, <1>4, <2>1 DEF A
  <2>. QED BY <1>2, <2>1, <2>2, SoundChange
<1>6. /\ t.view = w.view /\ t.patched[slot] = B
      /\ \A s \in Slots : s # slot => t.patched[s] = w.patched[s]
  BY <1>1, <1>3, WithAt
<1>7. Entries(t.patched, slot) = B
  BY <1>1, <1>6 DEF Entries
<1>8. Grows(w, t, {slot})
  BY <1>6, GrowKinds DEF Grows, Entries
<1>. QED BY <1>3, <1>5, <1>6, <1>7, <1>8

\* A list of the copy is made or appended to.
LEMMA EmitFirstOrNext ==
  ASSUME NEW pod \in Docs, NEW r, NEW w \in Sound(pod, r), NEW slot \in EmitSlots \ Keyed,
         slot[1] # "env", NEW x \in Entry, NEW doc, Entries(doc, slot) = Entries(w.view, slot)
  PROVE  LET v == Emit(w, FirstOrNext(doc, slot, x))
         IN  /\ v \in Sound(pod, r) /\ Grows(w, v, {slot}) /\ v.view = w.view
             /\ x \in Entries(v.patched, slot)
<1>1. slot \in Slots /\ slot \notin UserSlots /\ slot \notin Keyed /\ {x} \in SUBSET Entry
  BY SlotKinds
<1>2. /\ w.patched \in Docs /\ Entries(w.view, slot) = Entries(pod, slot)
      /\ w.view[slot] # Absent => w.patched[slot] # Absent
      /\ \A y \in Entries(pod, slot) : y \in Entries(w.patched, slot) \/ Excused(r, slot, y)
  BY <1>1, SoundFields
<1>3. CASE Entries(w.view, slot) = {}
  <2> DEFINE o == Put(slot, {x})
             B == {x}
  <2>1. Apply(w.patched, o) = With(w.patched, slot, B)
    BY <1>1, <1>2, PutEffect
  <2>2. FirstOrNext(doc, slot, x) = o
    BY <1>3 DEF FirstOrNext
  <2>3. x \in B /\ B \in SUBSET Entry
          /\ \A y \in Entries(pod, slot) : y \in B \/ Excused(r, slot, y)
    BY <1>1, <1>2, <1>3
  <2>. HIDE DEF o, B
  <2>4. /\ Emit(w, o) \in Sound(pod, r) /\ Grows(w, Emit(w, o), {slot})
        /\ Emit(w, o).view = w.view
        /\ Emit(w, o).patched[slot] = B /\ Entries(Emit(w, o).patched, slot) = B
    BY <1>1, <2>1, <2>3, EmitSound
  <2>. QED BY <2>2, <2>3, <2>4
<1>4. CASE Entries(w.view, slot) # {}
  <2> DEFINE o == Add(slot, {x})
             B == Entries(w.patched, slot) \cup {x}
  <2>1. Apply(w.patched, o) = With(w.patched, slot, B)
    <3>1. w.patched[slot] # Absent
      BY <1>2, <1>4 DEF Entries
    <3>2. Apply(w.patched, Add(slot, {x}))
            = With(w.patched, slot, Entries(w.patched, slot) \cup {x})
      BY <1>1, <1>2, <3>1, AddEffect
    <3>. QED BY <3>2
  <2>2. FirstOrNext(doc, slot, x) = o
    BY <1>4 DEF FirstOrNext
  <2>3. x \in B /\ B \in SUBSET Entry
          /\ \A y \in Entries(pod, slot) : y \in B \/ Excused(r, slot, y)
    BY <1>1, <1>2, EntriesTyped
  <2>. HIDE DEF o, B
  <2>4. /\ Emit(w, o) \in Sound(pod, r) /\ Grows(w, Emit(w, o), {slot})
        /\ Emit(w, o).view = w.view
        /\ Emit(w, o).patched[slot] = B /\ Entries(Emit(w, o).patched, slot) = B
    BY <1>1, <2>1, <2>3, EmitSound
  <2>. QED BY <2>2, <2>3, <2>4
<1>. QED BY <1>3, <1>4

Ann == Of("annotations")

\* The webhook's own annotations, in the copy as well or in the document only.
LEMMA AnnotateEffect ==
  ASSUME NEW pod \in Docs, NEW r, NEW w \in Sound(pod, r), NEW keys \in SUBSET OwnAnnotations,
         NEW o, o = IF w.view[Ann] = Absent THEN Put(Ann, Stamps(keys)) ELSE Add(Ann, Stamps(keys))
  PROVE  \E A, B \in SUBSET Entry :
           /\ Patched(w.view, o) = With(w.view, Ann, A)
           /\ Apply(w.patched, o) = With(w.patched, Ann, B)
           /\ \A x \in Entries(pod, Ann) : x \in B \/ Excused(r, Ann, x)
           /\ keys \subseteq {x[1] : x \in B}
           /\ w.view[Ann] # Absent => Names(w.patched, Ann) \subseteq {x[1] : x \in B}
<1> DEFINE xs == Stamps(keys)
<1>1. /\ xs \in SUBSET Entry /\ keys = {x[1] : x \in xs} /\ Ann \in Slots /\ Ann \in Keyed
      /\ \A x \in xs : x[1] \in OwnAnnotations
  <2>1. xs \in SUBSET Entry
    BY Stamped DEF Words
  <2>2. \A x \in xs : x[1] \in keys
    BY DEF Stamps
  <2>3. \A k \in keys : <<k, "fluence">> \in xs /\ <<k, "fluence">>[1] = k
    BY DEF Stamps
  <2>4. keys = {x[1] : x \in xs}
    <3>. HIDE DEF xs
    <3>. QED BY <2>2, <2>3
  <2>. QED BY <2>1, <2>2, <2>4, SlotKinds DEF Ann, Keyed
<1>2. /\ w.view \in Docs /\ w.patched \in Docs
      /\ pod[Ann] # Absent => w.view[Ann] # Absent
      /\ w.view[Ann] # Absent => w.patched[Ann] # Absent
      /\ \A x \in Entries(pod, Ann) : x \in Entries(w.patched, Ann) \/ Excused(r, Ann, x)
  BY <1>1, SoundFields DEF Ann
<1>. HIDE DEF xs
<1>3. CASE w.view[Ann] = Absent
  <2>1. o = Put(Ann, xs)
    BY <1>3 DEF xs
  <2>2. Patched(w.view, o) = With(w.view, Ann, xs) /\ Apply(w.patched, o) = With(w.patched, Ann, xs)
    BY <1>1, <1>2, <2>1, PutEffect
  <2>3. \A x \in Entries(pod, Ann) : x \in xs \/ Excused(r, Ann, x)
    BY <1>2, <1>3 DEF Entries
  <2>. QED BY <1>1, <1>3, <2>2, <2>3
<1>4. CASE w.view[Ann] # Absent
  <2> DEFINE A == Others(w.view, Ann, xs) \cup xs
             B == Others(w.patched, Ann, xs) \cup xs
  <2>1. o = Add(Ann, xs)
    BY <1>4 DEF xs
  <2>2. Patched(w.view, o) = With(w.view, Ann, A)
    BY <1>1, <1>2, <2>1, AddKeyEffect
  <2>3. Apply(w.patched, o) = With(w.patched, Ann, B)
    BY <1>1, <1>2, <1>4, <2>1, AddKeyEffect
  <2>4. A \in SUBSET Entry /\ B \in SUBSET Entry
    BY <1>1, <1>2, EntriesTyped DEF Others
  <2>5. ASSUME NEW x \in Entries(pod, Ann) PROVE x \in B \/ Excused(r, Ann, x)
    <3>1. CASE \E y \in xs : x[1] = y[1]
      BY <1>1, <3>1 DEF Excused, Ann
    <3>2. CASE \A y \in xs : x[1] # y[1]
      BY <1>2, <3>2 DEF Others
    <3>. QED BY <3>1, <3>2
  <2>6. keys \subseteq {x[1] : x \in B}
    BY <1>1
  <2>7. Names(w.patched, Ann) \subseteq {x[1] : x \in B}
    <3>1. ASSUME NEW x \in Entries(w.patched, Ann) PROVE \E y \in B : y[1] = x[1]
      <4>1. x \in Others(w.patched, Ann, xs) \/ \E y \in xs : x[1] = y[1]
        BY DEF Others
      <4>. QED BY <4>1
    <3>. QED BY <3>1 DEF Names
  <2>. HIDE DEF A, B
  <2>. QED BY <2>2, <2>3, <2>4, <2>5, <2>6, <2>7
<1>. QED BY <1>3, <1>4

LEMMA AnnotateOpsSound ==
  ASSUME NEW pod \in Docs, NEW r, NEW w \in Sound(pod, r), NEW keys \in SUBSET OwnAnnotations
  PROVE  /\ AnnotateOps(w, keys) \in Sound(pod, r)
         /\ Grows(w, AnnotateOps(w, keys), {Ann})
         /\ AnnotateOps(w, keys).view[Ann] # Absent
         /\ keys \subseteq Names(AnnotateOps(w, keys).patched, Ann)
<1> DEFINE o == IF w.view[Ann] = Absent THEN Put(Ann, Stamps(keys)) ELSE Add(Ann, Stamps(keys))
           t == AnnotateOps(w, keys)
<1>1. t = Both(w, o)
  BY DEF AnnotateOps, Ann
<1>. HIDE DEF o
<1>2. PICK A \in SUBSET Entry, B \in SUBSET Entry :
        /\ Patched(w.view, o) = With(w.view, Ann, A)
        /\ Apply(w.patched, o) = With(w.patched, Ann, B)
        /\ \A x \in Entries(pod, Ann) : x \in B \/ Excused(r, Ann, x)
        /\ keys \subseteq {x[1] : x \in B}
        /\ w.view[Ann] # Absent => Names(w.patched, Ann) \subseteq {x[1] : x \in B}
  BY AnnotateEffect DEF o
<1>3. /\ Ann \in Slots /\ Ann \notin UserSlots /\ Ann \notin EmitSlots /\ Ann[1] # "env"
      /\ A # Absent /\ B # Absent /\ w.view \in Docs /\ w.patched \in Docs
  BY SlotKinds, AbsentIsNoEntries, SoundFields DEF Ann, Keyed, Of
<1>4. t = [view |-> With(w.view, Ann, A), patched |-> With(w.patched, Ann, B)]
  BY <1>1, <1>2 DEF Both
<1>5. [view |-> With(w.view, Ann, A), patched |-> With(w.patched, Ann, B)] \in Sound(pod, r)
  BY <1>2, <1>3, SoundChange
<1>6. /\ t.view[Ann] = A /\ t.patched[Ann] = B
      /\ \A s \in Slots : s # Ann => t.view[s] = w.view[s] /\ t.patched[s] = w.patched[s]
  BY <1>3, <1>4, WithAt
<1>. HIDE DEF t
<1>7. Grows(w, t, {Ann})
  BY <1>3, <1>6, GrowKinds DEF Grows, Entries
<1>8. keys \subseteq Names(t.patched, Ann)
  BY <1>2, <1>3, <1>6 DEF Names, Entries
<1>. QED BY <1>3, <1>4, <1>5, <1>6, <1>7, <1>8 DEF t

LEMMA AnnotateOpSound ==
  ASSUME NEW pod \in Docs, NEW r, NEW w \in Sound(pod, r), NEW k \in OwnAnnotations
  PROVE  /\ AnnotateOp(w, k) \in Sound(pod, r)
         /\ Grows(w, AnnotateOp(w, k), {Ann})
         /\ AnnotateOp(w, k).view = w.view
         /\ k \in Names(AnnotateOp(w, k).patched, Ann)
         /\ w.view[Ann] # Absent =>
              Names(w.patched, Ann) \subseteq Names(AnnotateOp(w, k).patched, Ann)
<1> DEFINE o == IF w.view[Ann] = Absent THEN Put(Ann, Stamps({k})) ELSE Add(Ann, Stamps({k}))
           t == Emit(w, o)
<1>1. AnnotateOp(w, k) = t
  BY DEF AnnotateOp, Ann
<1>. HIDE DEF o
<1>2. PICK A \in SUBSET Entry, B \in SUBSET Entry :
        /\ Patched(w.view, o) = With(w.view, Ann, A)
        /\ Apply(w.patched, o) = With(w.patched, Ann, B)
        /\ \A x \in Entries(pod, Ann) : x \in B \/ Excused(r, Ann, x)
        /\ {k} \subseteq {x[1] : x \in B}
        /\ w.view[Ann] # Absent => Names(w.patched, Ann) \subseteq {x[1] : x \in B}
  <2>1. {k} \in SUBSET OwnAnnotations
    OBVIOUS
  <2>. QED BY <2>1, AnnotateEffect DEF o
<1>3. Ann \in Slots \ UserSlots /\ Ann[1] # "env"
  BY SlotKinds DEF Ann, Keyed, Of
<1>4. /\ Emit(w, o) \in Sound(pod, r) /\ Grows(w, Emit(w, o), {Ann})
      /\ Emit(w, o).view = w.view
      /\ Emit(w, o).patched[Ann] = B /\ Entries(Emit(w, o).patched, Ann) = B
  BY <1>2, <1>3, EmitSound
<1>. HIDE DEF t
<1>5. Names(t.patched, Ann) = {x[1] : x \in B}
  BY <1>4 DEF Names, t
<1>. QED BY <1>1, <1>2, <1>4, <1>5 DEF t

Labels == Of("labels")
Sched  == Of("schedulingGroup")

\* Roles a pod is linked under, and the gang's name it is linked by.
Links(pod, r, g) ==
  /\ g \in {Gang, ScoutGang} /\ (g = ScoutGang => r = "scout")
  /\ \A x \in Entries(pod, Labels) : x[1] = "group" => x[2] = Gang

Link(g) == {<<g, "link">>}

LEMMA SchedulingGroupSound ==
  ASSUME NEW pod \in Docs, NEW r, NEW w \in Sound(pod, r), NEW g, g \in {Gang, ScoutGang}
  PROVE  /\ SchedulingGroupOps(w, g) \in Sound(pod, r)
         /\ Grows(w, SchedulingGroupOps(w, g), {Sched})
         /\ SchedulingGroupOps(w, g).view = w.view
         /\ w.patched[Sched] = w.view[Sched] \/ w.patched[Sched] = Link(g) =>
              SchedulingGroupOps(w, g).patched[Sched] = Link(g)
<1> DEFINE B == Link(g)
           o == Put(Sched, B)
<1>1. Sched \in Slots \ UserSlots /\ Sched[1] = "schedulingGroup"
  BY SlotKinds DEF Sched, Of, PodFields
<1>2. B \in SUBSET Entry
  BY DEF Link, Entry, Words, OwnWords
<1>3. SchedulingGroupOps(w, g) = IF w.view[Sched] = B THEN w ELSE Emit(w, o)
  BY DEF SchedulingGroupOps, Sched, Link
<1>4. Apply(w.patched, o) = With(w.patched, Sched, B)
  BY <1>1, <1>2, PutEffect, SoundFields
<1>5. \A x \in Entries(pod, Sched) : x \in B \/ Excused(r, Sched, x)
  BY <1>1 DEF Excused
<1>. HIDE DEF B, o
<1>6. /\ Emit(w, o) \in Sound(pod, r) /\ Grows(w, Emit(w, o), {Sched})
      /\ Emit(w, o).view = w.view
      /\ Emit(w, o).patched[Sched] = B /\ Entries(Emit(w, o).patched, Sched) = B
  BY <1>1, <1>2, <1>4, <1>5, EmitSound
<1>7. /\ SchedulingGroupOps(w, g) \in Sound(pod, r)
      /\ Grows(w, SchedulingGroupOps(w, g), {Sched})
      /\ SchedulingGroupOps(w, g).view = w.view
      /\ w.patched[Sched] = w.view[Sched] \/ w.patched[Sched] = B =>
           SchedulingGroupOps(w, g).patched[Sched] = B
  BY <1>3, <1>6, GrowsReflexive
<1>. QED BY <1>7 DEF B

LabelOps(w, g) ==
  IF <<"group", g>> \in Entries(w.view, Labels) THEN w
  ELSE Emit(w, IF w.view[Labels] = Absent THEN Put(Labels, {<<"group", g>>})
               ELSE Add(Labels, {<<"group", g>>}))

LEMMA LabelSound ==
  ASSUME NEW pod \in Docs, NEW r, NEW w \in Sound(pod, r), NEW g, Links(pod, r, g)
  PROVE  /\ LabelOps(w, g) \in Sound(pod, r)
         /\ Grows(w, LabelOps(w, g), {Labels})
         /\ LabelOps(w, g).view = w.view
         /\ w.patched[Labels] = w.view[Labels] =>
              <<"group", g>> \in Entries(LabelOps(w, g).patched, Labels)
<1> DEFINE x == <<"group", g>>
           xs == {x}
           o == IF w.view[Labels] = Absent THEN Put(Labels, xs) ELSE Add(Labels, xs)
           t == Emit(w, o)
<1>1. Labels \in Slots \ UserSlots /\ Labels \in EmitSlots /\ Labels \in Keyed /\ Labels[1] # "env"
  BY SlotKinds DEF Labels, Of, Keyed
<1>2. /\ w.view \in Docs /\ w.patched \in Docs /\ w.view[Labels] = pod[Labels]
      /\ w.view[Labels] # Absent => w.patched[Labels] # Absent
      /\ \A y \in Entries(pod, Labels) : y \in Entries(w.patched, Labels) \/ Excused(r, Labels, y)
  BY <1>1, SoundFields
<1>3. x \in Entry /\ xs \in SUBSET Entry /\ x[1] = "group" /\ x[2] = g
  BY DEF Entry, Words, OwnWords, Links
<1>4. CASE x \in Entries(w.view, Labels)
  <2>1. LabelOps(w, g) = w
    BY <1>4 DEF LabelOps
  <2>2. w.patched[Labels] = w.view[Labels] => x \in Entries(w.patched, Labels)
    BY <1>4 DEF Entries
  <2>. QED BY <2>1, <2>2, GrowsReflexive
<1>5. CASE x \notin Entries(w.view, Labels)
  <2>1. LabelOps(w, g) = t
    BY <1>5 DEF LabelOps
  <2>2. \A y \in Entries(pod, Labels) : y[1] = "group" => Excused(r, Labels, y)
    <3> SUFFICES ASSUME NEW y \in Entries(pod, Labels), y[1] = "group" PROVE Excused(r, Labels, y)
      OBVIOUS
    <3>1. y \in Entry /\ y \in Entries(w.view, Labels) /\ y[2] = Gang
      BY <1>1, <1>2, EntriesTyped DEF Entries, Links
    <3>2. y = <<"group", Gang>>
      BY <3>1 DEF Entry
    <3>3. g = ScoutGang
      BY <1>5, <3>1, <3>2 DEF Links
    <3>. QED BY <3>3 DEF Links, Excused
  <2>3. PICK B \in SUBSET Entry :
          /\ Apply(w.patched, o) = With(w.patched, Labels, B) /\ x \in B
          /\ \A y \in Entries(pod, Labels) : y \in B \/ Excused(r, Labels, y)
    <3>1. CASE w.view[Labels] = Absent
      <4>1. Apply(w.patched, Put(Labels, xs)) = With(w.patched, Labels, xs)
        <5>. HIDE DEF xs
        <5>. QED BY <1>1, <1>2, <1>3, PutEffect
      <4>2. \A y \in Entries(pod, Labels) : y \in xs \/ Excused(r, Labels, y)
        BY <1>2, <3>1 DEF Entries
      <4>. QED BY <1>3, <3>1, <4>1, <4>2
    <3>2. CASE w.view[Labels] # Absent
      <4> DEFINE B == Others(w.patched, Labels, xs) \cup xs
      <4>1. Apply(w.patched, Add(Labels, xs)) = With(w.patched, Labels, B)
        <5>. HIDE DEF xs
        <5>. QED BY <1>1, <1>2, <1>3, <3>2, AddKeyEffect
      <4>2. B \in SUBSET Entry /\ x \in B
        BY <1>1, <1>2, <1>3, EntriesTyped DEF Others
      <4>3. \A y \in Entries(pod, Labels) : y \in B \/ Excused(r, Labels, y)
        BY <1>2, <1>3, <2>2 DEF Others
      <4>4. o = Add(Labels, xs)
        BY <3>2
      <4>. HIDE DEF B, o
      <4>. QED BY <4>1, <4>2, <4>3, <4>4
    <3>. QED BY <3>1, <3>2
  <2>. HIDE DEF o, x, xs
  <2>4. /\ Emit(w, o) \in Sound(pod, r) /\ Grows(w, Emit(w, o), {Labels})
        /\ Emit(w, o).view = w.view
        /\ Emit(w, o).patched[Labels] = B /\ Entries(Emit(w, o).patched, Labels) = B
    BY <1>1, <2>3, EmitSound
  <2>. QED BY <2>1, <2>3, <2>4 DEF x
<1>. QED BY <1>4, <1>5

LinkSlots == {Labels, Sched}

LEMMA LinkGroupSound ==
  ASSUME NEW pod \in Docs, NEW r, NEW w \in Sound(pod, r), NEW g, Links(pod, r, g)
  PROVE  /\ LinkGroupOps(w, g) \in Sound(pod, r)
         /\ Grows(w, LinkGroupOps(w, g), LinkSlots)
         /\ LinkGroupOps(w, g).view = w.view
         /\ w.patched[Labels] = w.view[Labels] =>
              <<"group", g>> \in Entries(LinkGroupOps(w, g).patched, Labels)
         /\ w.patched[Sched] = w.view[Sched] => LinkGroupOps(w, g).patched[Sched] = Link(g)
<1> DEFINE s == LabelOps(w, g)
           t == SchedulingGroupOps(s, g)
<1>1. LinkGroupOps(w, g) = t
  BY DEF LinkGroupOps, LabelOps, Labels
<1>2. /\ s \in Sound(pod, r) /\ Grows(w, s, {Labels}) /\ s.view = w.view
      /\ w.patched[Labels] = w.view[Labels] => <<"group", g>> \in Entries(s.patched, Labels)
  BY LabelSound
<1>. HIDE DEF s
<1>3. /\ t \in Sound(pod, r) /\ Grows(s, t, {Sched}) /\ t.view = s.view
      /\ s.patched[Sched] = s.view[Sched] \/ s.patched[Sched] = Link(g) =>
           t.patched[Sched] = Link(g)
  <2>1. g \in {Gang, ScoutGang}
    BY DEF Links
  <2>2. s \in Sound(pod, r)
    BY <1>2
  <2>3. /\ SchedulingGroupOps(s, g) \in Sound(pod, r)
        /\ Grows(s, SchedulingGroupOps(s, g), {Sched})
        /\ SchedulingGroupOps(s, g).view = s.view
        /\ s.patched[Sched] = s.view[Sched] \/ s.patched[Sched] = Link(g) =>
             SchedulingGroupOps(s, g).patched[Sched] = Link(g)
    BY <2>1, <2>2, SchedulingGroupSound
  <2>. QED BY <2>3
<1>. HIDE DEF t
<1>4. Labels \in Slots /\ Sched \in Slots /\ Labels # Sched
  BY SlotsOfThePod DEF Labels, Sched, Of, PodFields
<1>5. s.patched[Sched] = w.patched[Sched] /\ t.patched[Labels] = s.patched[Labels]
  BY <1>2, <1>3, <1>4 DEF Grows
<1>6. Grows(w, t, LinkSlots)
  <2>1. Grows(w, t, {Labels} \cup {Sched})
    BY <1>2, <1>3, GrowsTransitive
  <2>. QED BY <2>1, GrowsWider DEF LinkSlots
<1>. QED BY <1>1, <1>2, <1>3, <1>5, <1>6 DEF Entries

-----------------------------------------------------------------------------
(* Gate and dependency, the dropped request.                                *)

Gates    == Of("gates")
Priority == Of("priorityClass")

LEMMA GateSound ==
  ASSUME NEW pod \in Docs, NEW r, NEW w \in Sound(pod, r)
  PROVE  /\ GateOps(w) \in Sound(pod, r)
         /\ Grows(w, GateOps(w), {Gates, Priority})
         /\ GateOps(w).view = w.view
         /\ "quantum" \in Names(GateOps(w).patched, Gates)
<1> DEFINE x == <<"quantum", "fluence">>
           p == <<"quantum-classical", "fluence">>
           s == Emit(w, FirstOrNext(w.view, Gates, x))
           o == Put(Priority, {p})
           t == Emit(s, o)
<1>1. /\ Gates \in EmitSlots \ Keyed /\ Gates \in Slots /\ Gates[1] = "gates"
      /\ Priority \in EmitSlots \ Keyed /\ Priority \in Slots \ UserSlots /\ Priority[1] # "env"
      /\ Gates # Priority
  BY SlotKinds DEF Gates, Priority, Keyed, Of, PodFields
<1>2. x \in Entry /\ x[1] = "quantum" /\ p \in Entry /\ {p} \in SUBSET Entry
  BY Written DEF Words, OwnWords, Entry
<1>3. CASE "quantum" \in Names(w.view, Gates)
  <2>1. GateOps(w) = w
    BY <1>3 DEF GateOps, Gates
  <2>2. PICK y \in Entries(w.view, Gates) : y[1] = "quantum"
    BY <1>3 DEF Names
  <2>3. y \in Entries(w.patched, Gates)
    BY <1>1, <2>2, SoundFields DEF Excused, OwnAnnotations, Gates, Of
  <2>4. "quantum" \in Names(w.patched, Gates)
    BY <2>2, <2>3 DEF Names
  <2>. QED BY <2>1, <2>4, GrowsReflexive
<1>4. CASE "quantum" \notin Names(w.view, Gates)
  <2>1. GateOps(w) = IF Entries(w.view, Priority) # {} THEN s ELSE t
    BY <1>4 DEF GateOps, Gates, Priority
  <2>. HIDE DEF x, p
  <2>2. /\ s \in Sound(pod, r) /\ Grows(w, s, {Gates}) /\ s.view = w.view
        /\ x \in Entries(s.patched, Gates)
    BY <1>1, <1>2, EmitFirstOrNext
  <2>3. "quantum" \in Names(s.patched, Gates)
    BY <1>2, <2>2 DEF Names
  <2>. HIDE DEF s
  <2>4. CASE Entries(w.view, Priority) # {}
    BY <2>1, <2>2, <2>3, <2>4, GrowsWider
  <2>5. CASE Entries(w.view, Priority) = {}
    <3>1. Apply(s.patched, o) = With(s.patched, Priority, {p})
      BY <1>1, <1>2, <2>2, PutEffect, SoundFields
    <3>2. \A y \in Entries(pod, Priority) : y \in {p} \/ Excused(r, Priority, y)
      BY <1>1, <2>5, SoundFields
    <3>. HIDE DEF o
    <3>3. /\ Emit(s, o) \in Sound(pod, r) /\ Grows(s, Emit(s, o), {Priority})
          /\ Emit(s, o).view = s.view
          /\ Emit(s, o).patched[Priority] = {p} /\ Entries(Emit(s, o).patched, Priority) = {p}
      BY <1>1, <1>2, <2>2, <3>1, <3>2, EmitSound
    <3>. HIDE DEF t
    <3>4. Grows(w, t, {Gates} \cup {Priority})
      BY <2>2, <3>3, GrowsTransitive DEF t
    <3>5. Grows(w, t, {Gates, Priority})
      BY <3>4, GrowsWider
    <3>6. t.patched[Gates] = s.patched[Gates]
      BY <1>1, <3>3 DEF Grows, t
    <3>7. "quantum" \in Names(t.patched, Gates)
      BY <2>3, <3>6 DEF Names, Entries
    <3>. QED BY <2>1, <2>2, <2>5, <3>3, <3>5, <3>7 DEF t
  <2>. QED BY <2>4, <2>5
<1>. QED BY <1>3, <1>4

LEMMA DependencySound ==
  ASSUME NEW pod \in Docs, NEW r, NEW w \in Sound(pod, r)
  PROVE  /\ DependencyOps(w) \in Sound(pod, r)
         /\ Grows(w, DependencyOps(w), {Gates, Priority, Ann})
         /\ DependencyOps(w).view = w.view
         /\ "quantum" \in Names(DependencyOps(w).patched, Gates)
         /\ w.view[Ann] # Absent =>
              Names(w.patched, Ann) \cup Dependencies \subseteq Names(DependencyOps(w).patched, Ann)
<1> DEFINE s == GateOps(w)
           t == AnnotateOp(s, "depends-on-kind")
           u == AnnotateOp(t, "depends-on-scout")
           v == AnnotateOp(u, "depends-on-gate")
<1>1. DependencyOps(w) = v
  BY DEF DependencyOps
<1>2. Dependencies \subseteq OwnAnnotations
  BY DEF OwnAnnotations
<1>3. /\ s \in Sound(pod, r) /\ Grows(w, s, {Gates, Priority}) /\ s.view = w.view
      /\ "quantum" \in Names(s.patched, Gates)
  BY GateSound
<1>. HIDE DEF s
<1>4. /\ t \in Sound(pod, r) /\ Grows(s, t, {Ann}) /\ t.view = s.view
      /\ "depends-on-kind" \in Names(t.patched, Ann)
      /\ s.view[Ann] # Absent => Names(s.patched, Ann) \subseteq Names(t.patched, Ann)
  BY <1>2, <1>3, AnnotateOpSound DEF Dependencies
<1>. HIDE DEF t
<1>5. /\ u \in Sound(pod, r) /\ Grows(t, u, {Ann}) /\ u.view = t.view
      /\ "depends-on-scout" \in Names(u.patched, Ann)
      /\ t.view[Ann] # Absent => Names(t.patched, Ann) \subseteq Names(u.patched, Ann)
  BY <1>2, <1>4, AnnotateOpSound DEF Dependencies
<1>. HIDE DEF u
<1>6. /\ v \in Sound(pod, r) /\ Grows(u, v, {Ann}) /\ v.view = u.view
      /\ "depends-on-gate" \in Names(v.patched, Ann)
      /\ u.view[Ann] # Absent => Names(u.patched, Ann) \subseteq Names(v.patched, Ann)
  BY <1>2, <1>5, AnnotateOpSound DEF Dependencies
<1>. HIDE DEF v
<1>7. /\ Ann \in Slots /\ Gates \in Slots /\ Gates # Ann /\ Ann \notin {Gates, Priority}
  BY SlotsOfThePod DEF Ann, Gates, Priority, Of, PodFields
<1>8. Grows(s, v, {Ann})
  <2>1. Grows(s, u, {Ann} \cup {Ann})
    BY <1>4, <1>5, GrowsTransitive
  <2>2. Grows(s, v, ({Ann} \cup {Ann}) \cup {Ann})
    BY <1>6, <2>1, GrowsTransitive
  <2>. QED BY <2>2, GrowsWider
<1>9. Grows(w, v, {Gates, Priority, Ann})
  <2>1. Grows(w, v, {Gates, Priority} \cup {Ann})
    BY <1>3, <1>8, GrowsTransitive
  <2>. QED BY <2>1, GrowsWider
<1>10. "quantum" \in Names(v.patched, Gates)
  <2>1. v.patched[Gates] = s.patched[Gates]
    BY <1>7, <1>8 DEF Grows
  <2>. QED BY <1>3, <2>1 DEF Names, Entries
<1>11. Names(s.patched, Ann) = Names(w.patched, Ann)
  <2>1. s.patched[Ann] = w.patched[Ann]
    BY <1>3, <1>7 DEF Grows
  <2>. QED BY <2>1 DEF Names, Entries
<1>12. w.view[Ann] # Absent =>
         Names(w.patched, Ann) \cup Dependencies \subseteq Names(v.patched, Ann)
  BY <1>3, <1>4, <1>5, <1>6, <1>11 DEF Dependencies
<1>. QED BY <1>1, <1>3, <1>4, <1>5, <1>6, <1>9, <1>10, <1>12

LEMMA DropQpuSound ==
  ASSUME NEW pod \in Docs, NEW r, NEW w \in Sound(pod, r), r = "worker", NEW c \in Workloads
  PROVE  /\ DropQpu(w, c) \in Sound(pod, r)
         /\ Grows(w, DropQpu(w, c), {Requests(c)})
         /\ "qpu" \notin Names(DropQpu(w, c).view, Requests(c))
<1> DEFINE slot == Requests(c)
           qpu  == {x \in Entries(w.view, slot) : x[1] = "qpu"}
           rest == Entries(w.view, slot) \ qpu
           t    == Both(w, Drop(slot, qpu))
<1>1. /\ slot \in UserSlots /\ slot \in Slots /\ slot \notin EmitSlots /\ slot \notin GrowSlots
      /\ slot[1] = "requests"
  BY SlotKinds DEF Requests, GrowSlots, Of
<1>2. DropQpu(w, c) = IF qpu = {} THEN w ELSE t
  BY DEF DropQpu
<1>3. CASE qpu = {}
  <2>1. "qpu" \notin Names(w.view, slot)
    BY <1>3 DEF Names
  <2>. QED BY <1>2, <1>3, <2>1, GrowsReflexive
<1>4. CASE qpu # {}
  <2>1. /\ w.view \in Docs /\ w.patched \in Docs /\ Entries(w.patched, slot) = Entries(w.view, slot)
        /\ \A x \in Entries(pod, slot) : x \in Entries(w.patched, slot) \/ Excused(r, slot, x)
        /\ w.view[slot] # Absent => w.patched[slot] # Absent
    BY <1>1, SoundFields
  <2>2. qpu \in SUBSET Entries(w.view, slot) /\ qpu \in SUBSET Entries(w.patched, slot)
    BY <2>1
  <2>3. rest \in SUBSET Entry
    BY <1>1, <2>1, EntriesTyped
  <2>4. \A x \in Entries(pod, slot) : x \in rest \/ Excused(r, slot, x)
    BY <1>1, <2>1 DEF Excused
  <2>5. "qpu" \notin {x[1] : x \in rest}
    OBVIOUS
  <2>6. t = [view |-> With(w.view, slot, rest), patched |-> With(w.patched, slot, rest)]
    <3>. HIDE DEF qpu, slot
    <3>1. Patched(w.view, Drop(slot, qpu)) = With(w.view, slot, rest)
      BY <1>1, <2>1, <2>2, DropEffect
    <3>2. Apply(w.patched, Drop(slot, qpu)) = With(w.patched, slot, rest)
      BY <1>1, <2>1, <2>2, DropEffect
    <3>. QED BY <3>1, <3>2 DEF Both
  <2>. HIDE DEF rest, t, qpu, slot
  <2>7. rest # Absent
    BY <2>3, AbsentIsNoEntries
  <2>8. t \in Sound(pod, r)
    <3>1. [view |-> With(w.view, slot, rest), patched |-> With(w.patched, slot, rest)]
            \in Sound(pod, r)
      BY <1>1, <2>3, <2>4, <2>7, SoundChange
    <3>. QED BY <2>6, <3>1
  <2>9. /\ t.view[slot] = rest /\ t.patched[slot] = rest
        /\ \A s \in Slots : s # slot => t.view[s] = w.view[s] /\ t.patched[s] = w.patched[s]
    BY <1>1, <2>1, <2>6, WithAt
  <2>10. Grows(w, t, {slot})
    BY <1>1, <2>9, GrowKinds DEF Grows, Entries
  <2>11. "qpu" \notin Names(t.view, slot)
    BY <2>5, <2>7, <2>9 DEF Names, Entries
  <2>. QED BY <1>2, <1>4, <2>8, <2>10, <2>11 DEF slot
<1>. QED BY <1>3, <1>4

LEMMA DropQpuLoop ==
  ASSUME NEW pod \in Docs, NEW r, NEW w \in Sound(pod, r), r = "worker"
  PROVE  \E at \in [0 .. Containers -> Sound(pod, r)] :
           /\ at[0] = w /\ at[Containers] = DropQuantumResourceOps(w)
           /\ \A c \in Workloads : at[c] = DropQpu(at[c - 1], c)
<1> DEFINE D == Sound(pod, r)
           step == [p \in D \X Workloads |-> DropQpu(p[1], p[2])]
           Eq(at) == at = [c \in 0 .. Containers |-> IF c = 0 THEN w ELSE DropQpu(at[c - 1], c)]
<1>1. \A d \in D, c \in Workloads : step[<<d, c>>] = DropQpu(d, c) /\ step[<<d, c>>] \in D
  BY DropQpuSound
<1>2. PICK at \in [0 .. Containers -> D] : Runs(at, Containers, w, step)
  <2>1. w \in D /\ Containers \in Nat /\ \A d \in D, c \in 1 .. Containers : step[<<d, c>>] \in D
    BY <1>1, SlotsOfThePod DEF Workloads
  <2>. HIDE DEF D, step
  <2>. QED BY <2>1, LoopExists
<1>3. \A c \in 0 .. Containers : c # 0 => c - 1 \in 0 .. Containers /\ c \in Workloads
  BY SlotsOfThePod DEF Workloads
<1>4. Eq(at)
  <2>. HIDE DEF D, step
  <2>. QED BY <1>1, <1>2, <1>3 DEF Runs
<1>5. PICK bt : bt = (CHOOSE g : Eq(g))
  OBVIOUS
<1>6. Eq(bt) /\ DropQuantumResourceOps(w) = bt[Containers]
  <2>1. Eq(bt)
    <3>. HIDE DEF Eq
    <3>. QED BY <1>4, <1>5
  <2>2. DropQuantumResourceOps(w) = bt[Containers]
    BY <1>5 DEF DropQuantumResourceOps, EachContainer
  <2>. QED BY <2>1, <2>2
<1>7. bt[0] = w /\ \A c \in 1 .. Containers : bt[c] = DropQpu(bt[c - 1], c)
  BY <1>3, <1>6, SlotsOfThePod DEF Workloads
<1>8. bt \in [0 .. Containers -> D]
  <2>1. ASSUME NEW c \in 1 .. Containers, bt[c - 1] \in D PROVE bt[c] \in D
    <3>1. bt[c] = DropQpu(bt[c - 1], c) /\ c \in Workloads
      BY <1>7 DEF Workloads
    <3>. HIDE DEF D, step
    <3>. QED BY <1>1, <2>1, <3>1
  <2>2. w \in D /\ Containers \in Nat
    BY SlotsOfThePod
  <2>3. \A c \in 0 .. Containers : bt[c] \in D
    <3>. HIDE DEF D, Eq
    <3>. QED BY <1>7, <2>1, <2>2, LoopTyped
  <2>. QED BY <1>6, <2>3
<1>. QED BY <1>6, <1>7, <1>8 DEF Workloads

LEMMA DropQuantumResourceSound ==
  ASSUME NEW pod \in Docs, NEW r, NEW w \in Sound(pod, r), r = "worker"
  PROVE  /\ DropQuantumResourceOps(w) \in Sound(pod, r)
         /\ Grows(w, DropQuantumResourceOps(w), AllRequests)
         /\ \A c \in Workloads : "qpu" \notin Names(DropQuantumResourceOps(w).view, Requests(c))
<1>1. PICK at \in [0 .. Containers -> Sound(pod, r)] :
        /\ at[0] = w /\ at[Containers] = DropQuantumResourceOps(w)
        /\ \A c \in Workloads : at[c] = DropQpu(at[c - 1], c)
  BY DropQpuLoop
<1>2. \A c \in Workloads : c - 1 \in 0 .. Containers /\ c \in 0 .. Containers
  BY SlotsOfThePod DEF Workloads
<1>3. ASSUME NEW c \in Workloads
      PROVE  /\ Grows(at[c - 1], at[c], {Requests(c)})
             /\ "qpu" \notin Names(at[c].view, Requests(c))
  <2>1. at[c - 1] \in Sound(pod, r) /\ at[c] = DropQpu(at[c - 1], c)
    BY <1>1, <1>2
  <2>. QED BY <2>1, DropQpuSound
<1>4. \A a, b \in 0 .. Containers : a <= b => Grows(at[a], at[b], AllRequests)
  <2>1. ASSUME NEW c \in Workloads PROVE Grows(at[c - 1], at[c], AllRequests)
    <3>1. Grows(at[c - 1], at[c], {Requests(c)}) /\ {Requests(c)} \subseteq AllRequests
      BY <1>3 DEF AllRequests
    <3>. QED BY <3>1, GrowsWider
  <2>. QED BY <2>1, LoopGrows
<1>5. 0 \in 0 .. Containers /\ Containers \in 0 .. Containers /\ 0 <= Containers
  BY SlotsOfThePod
<1>6. ASSUME NEW c \in Workloads PROVE "qpu" \notin Names(at[Containers].view, Requests(c))
  <2> DEFINE F == {i \in 0 .. Containers : "qpu" \notin Names(at[i].view, Requests(c))}
  <2>1. c \in F /\ c \in 0 .. Containers /\ Containers \in Nat
    BY <1>2, <1>3, SlotsOfThePod
  <2>2. ASSUME NEW i \in 1 .. Containers, i > c, i - 1 \in F PROVE i \in F
    <3>1. i \in Workloads /\ i \in 0 .. Containers /\ i # c /\ c \in 1 .. Sidecar
      BY <1>2, <2>2, SlotsOfThePod DEF Workloads
    <3>2. Requests(c) \in Slots \ {Requests(i)}
      BY <3>1, SlotsOfThePod DEF Requests
    <3>3. at[i].view[Requests(c)] = at[i - 1].view[Requests(c)]
      BY <1>3, <3>1, <3>2 DEF Grows
    <3>. QED BY <2>2, <3>1, <3>3 DEF Names, Entries
  <2>3. Containers \in F
    <3>. HIDE DEF F
    <3>. QED BY <2>1, <2>2, LoopReaches
  <2>. QED BY <2>3
<1>. QED BY <1>1, <1>4, <1>5, <1>6

-----------------------------------------------------------------------------
(* The sidecar and the submitting pods.                                     *)

SidecarSlots == {Of("containers"), Env(Sidecar), Mounts(Sidecar), Of("serviceAccount")}

\* The added container's own name first, then its fields.
LEMMA SidecarFields ==
  ASSUME NEW pod \in Submissions, NEW r, NEW w \in Sound(pod, r),
         NEW slot \in Slots \ UserSlots, slot[2] = Sidecar, NEW xs \in SUBSET Entry,
         slot[1] = "env" => Once(xs)
  PROVE  LET v == Emit(w, Put(slot, xs))
         IN  /\ v \in Sound(pod, r) /\ Grows(w, v, {slot}) /\ v.view = w.view
             /\ Entries(v.patched, slot) = xs
<1> DEFINE o == Put(slot, xs)
<1>1. pod \in Docs /\ slot \in Slots /\ Entries(pod, slot) = {}
  BY SubmissionsAssumption DEF Entries
<1>3. Apply(w.patched, o) = With(w.patched, slot, xs)
  BY <1>1, PutEffect, SoundFields
<1>. HIDE DEF o
<1>4. /\ Emit(w, o) \in Sound(pod, r) /\ Grows(w, Emit(w, o), {slot})
      /\ Emit(w, o).view = w.view
      /\ Emit(w, o).patched[slot] = xs /\ Entries(Emit(w, o).patched, slot) = xs
  <2>1. \A x \in Entries(pod, slot) : x \in xs \/ Excused(r, slot, x)
    BY <1>1
  <2>. QED BY <1>1, <1>3, <2>1, EmitSound
<1>. QED BY <1>4 DEF o

LEMMA AccountSound ==
  ASSUME NEW pod \in Docs, NEW r, NEW w \in Sound(pod, r), NEW xs \in SUBSET Entry
  PROVE  LET v == Emit(w, Put(Of("serviceAccount"), xs))
         IN  v \in Sound(pod, r) /\ Grows(w, v, {Of("serviceAccount")}) /\ v.view = w.view
<1> DEFINE slot == Of("serviceAccount")
           o    == Put(slot, xs)
<1>1. slot \in Slots \ UserSlots /\ slot[1] = "serviceAccount"
  BY SlotKinds DEF Of, PodFields
<1>2. Apply(w.patched, o) = With(w.patched, slot, xs)
  BY <1>1, PutEffect, SoundFields
<1>3. \A x \in Entries(pod, slot) : x \in xs \/ Excused(r, slot, x)
  BY <1>1 DEF Excused
<1>. HIDE DEF o, slot
<1>4. /\ Emit(w, o) \in Sound(pod, r) /\ Grows(w, Emit(w, o), {slot})
      /\ Emit(w, o).view = w.view
      /\ Emit(w, o).patched[slot] = xs /\ Entries(Emit(w, o).patched, slot) = xs
  BY <1>1, <1>2, <1>3, EmitSound
<1>. QED BY <1>4 DEF o, slot

LEMMA SidecarSound ==
  ASSUME NEW pod \in Submissions, NEW r, NEW w \in Sound(pod, r), NEW extra \in SUBSET OwnEnv
  PROVE  LET v == SidecarContainerOps(w, extra)
         IN  /\ v \in Sound(pod, r) /\ Grows(w, v, SidecarSlots) /\ v.view = w.view
             /\ extra \subseteq Names(v.patched, Env(Sidecar))
             /\ \A x \in Entries(w.view, Env(1)) :
                  x[2] = "secret" => x[1] \in Names(v.patched, Env(Sidecar))
             /\ "handoff" \in Names(w.view, Of("volumes")) =>
                  "handoff" \in Names(v.patched, Mounts(Sidecar))
<1> DEFINE x      == <<"sidecar", "fluence">>
           own    == {"FLUENCE_POD_UID"} \cup Injected \cup extra
           keys   == {e \in Entries(w.view, Env(1)) : e[2] = "secret" /\ e[1] \notin own}
           xs     == Stamps(own) \cup keys
           mounts == {e \in Entries(w.view, Of("volumes")) : e[1] = "handoff"}
           s      == Emit(w, FirstOrNext(w.view, Of("containers"), x))
           t      == Emit(s, Put(Env(Sidecar), xs))
           u      == Emit(t, Put(Mounts(Sidecar), mounts))
           a      == {x}
           v      == Emit(u, Put(Of("serviceAccount"), a))
<1>1. /\ pod \in Docs /\ w.view \in Docs /\ Env(1) \in Slots /\ 1 \in 1 .. Sidecar
      /\ Of("volumes") \in Slots /\ Of("containers") \in EmitSlots \ Keyed
      /\ Of("containers") \in Slots /\ Of("containers")[1] # "env"
      /\ Env(Sidecar) \in Slots /\ Mounts(Sidecar) \in Slots
      /\ Env(Sidecar) # Mounts(Sidecar)
      /\ Of("serviceAccount") \notin {Env(Sidecar), Mounts(Sidecar)}
  BY SubmissionsAssumption, SoundFields, SlotKinds, SlotsOfThePod
     DEF Keyed, Of, Env, Mounts, PodFields
<1>2. x \in Entry /\ a \in SUBSET Entry
  BY Written DEF Words, OwnWords
<1>3. /\ xs \in SUBSET Entry /\ Once(xs) /\ mounts \in SUBSET Entry
      /\ \A k \in own : k \in {e[1] : e \in xs}
      /\ \A e \in Entries(w.view, Env(1)) : e[2] = "secret" => e[1] \in {y[1] : y \in xs}
  <2>1. own \in SUBSET Words
    BY DEF Words, OwnEnv
  <2>2. Stamps(own) \in SUBSET Entry
    <3>. HIDE DEF own
    <3>. QED BY <2>1, Stamped
  <2>3. /\ Entries(w.view, Env(1)) \in SUBSET Entry /\ Once(Entries(w.view, Env(1)))
        /\ Entries(w.view, Of("volumes")) \in SUBSET Entry
    BY <1>1, EntriesTyped, SoundFields
  <2>. HIDE DEF own
  <2>4. Once(xs)
    <3>1. \A y, z \in Stamps(own) : y[1] = z[1] => y = z
      BY DEF Stamps
    <3>2. \A y \in Stamps(own) : y[1] \in own
      BY DEF Stamps
    <3>3. \A y, z \in keys : y[1] = z[1] => y = z
      BY <2>3 DEF Once
    <3>4. \A y \in keys : y[1] \notin own
      OBVIOUS
    <3>. HIDE DEF keys
    <3>. QED BY <3>1, <3>2, <3>3, <3>4 DEF Once
  <2>5. \A k \in own : <<k, "fluence">> \in xs /\ <<k, "fluence">>[1] = k
    BY DEF Stamps
  <2>6. \A k \in own : k \in {e[1] : e \in xs}
    <3>. HIDE DEF xs
    <3>. QED BY <2>5
  <2>7. \A e \in Entries(w.view, Env(1)) : e[2] = "secret" => e \in xs \/ e[1] \in own
    OBVIOUS
  <2>8. \A e \in Entries(w.view, Env(1)) : e[2] = "secret" => e[1] \in {y[1] : y \in xs}
    <3>. HIDE DEF xs
    <3>. QED BY <2>6, <2>7
  <2>. QED BY <2>2, <2>3, <2>4, <2>6, <2>8
<1>4. SidecarContainerOps(w, extra)
        = IF Names(w.view, Of("serviceAccount")) \subseteq {"default"} THEN v ELSE u
  BY DEF SidecarContainerOps
<1>5. extra \subseteq own /\ ("handoff" \in Names(w.view, Of("volumes")) =>
        "handoff" \in {e[1] : e \in mounts})
  BY DEF Names
<1>. HIDE DEF own, keys, xs, mounts, x, a
<1>6. s \in Sound(pod, r) /\ Grows(w, s, {Of("containers")}) /\ s.view = w.view
  BY <1>1, <1>2, EmitFirstOrNext
<1>. HIDE DEF s
<1>7. /\ Env(Sidecar) \in Slots \ UserSlots /\ Mounts(Sidecar) \in Slots \ UserSlots
       /\ Env(Sidecar)[2] = Sidecar /\ Mounts(Sidecar)[2] = Sidecar /\ Mounts(Sidecar)[1] # "env"
  BY <1>1, SlotKinds DEF Env, Mounts
<1>8. /\ t \in Sound(pod, r) /\ Grows(s, t, {Env(Sidecar)}) /\ t.view = s.view
      /\ Entries(t.patched, Env(Sidecar)) = xs
  BY <1>3, <1>6, <1>7, SidecarFields
<1>. HIDE DEF t
<1>9. /\ u \in Sound(pod, r) /\ Grows(t, u, {Mounts(Sidecar)}) /\ u.view = t.view
      /\ Entries(u.patched, Mounts(Sidecar)) = mounts
  <2>1. /\ t \in Sound(pod, r) /\ mounts \in SUBSET Entry
        /\ Mounts(Sidecar)[1] = "env" => Once(mounts)
    BY <1>3, <1>7, <1>8
  <2>2. /\ Emit(t, Put(Mounts(Sidecar), mounts)) \in Sound(pod, r)
        /\ Grows(t, Emit(t, Put(Mounts(Sidecar), mounts)), {Mounts(Sidecar)})
        /\ Emit(t, Put(Mounts(Sidecar), mounts)).view = t.view
        /\ Entries(Emit(t, Put(Mounts(Sidecar), mounts)).patched, Mounts(Sidecar)) = mounts
    BY <1>7, <2>1, SidecarFields
  <2>. QED BY <2>2
<1>. HIDE DEF u
<1>10. v \in Sound(pod, r) /\ Grows(u, v, {Of("serviceAccount")}) /\ v.view = u.view
  BY <1>1, <1>2, <1>9, AccountSound
<1>. HIDE DEF v
<1>11. Grows(w, u, SidecarSlots) /\ Grows(w, v, SidecarSlots)
  <2>1. Grows(w, t, {Of("containers")} \cup {Env(Sidecar)})
    BY <1>6, <1>8, GrowsTransitive
  <2>2. Grows(w, u, ({Of("containers")} \cup {Env(Sidecar)}) \cup {Mounts(Sidecar)})
    BY <1>9, <2>1, GrowsTransitive
  <2>3. Grows(w, v, (({Of("containers")} \cup {Env(Sidecar)}) \cup {Mounts(Sidecar)})
                      \cup {Of("serviceAccount")})
    BY <1>10, <2>2, GrowsTransitive
  <2>4. Grows(w, u, SidecarSlots)
    BY <2>2, GrowsWider DEF SidecarSlots
  <2>5. Grows(w, v, SidecarSlots)
    BY <2>3, GrowsWider DEF SidecarSlots
  <2>. QED BY <2>4, <2>5
<1>12. /\ u.view = w.view /\ v.view = w.view
       /\ Entries(u.patched, Env(Sidecar)) = xs /\ Entries(v.patched, Env(Sidecar)) = xs
       /\ Entries(v.patched, Mounts(Sidecar)) = mounts
  BY <1>1, <1>6, <1>8, <1>9, <1>10 DEF Grows, Entries
<1>13. /\ Names(u.patched, Env(Sidecar)) = {e[1] : e \in xs}
       /\ Names(v.patched, Env(Sidecar)) = {e[1] : e \in xs}
       /\ Names(u.patched, Mounts(Sidecar)) = {e[1] : e \in mounts}
       /\ Names(v.patched, Mounts(Sidecar)) = {e[1] : e \in mounts}
  BY <1>9, <1>12 DEF Names
<1>. QED BY <1>3, <1>4, <1>5, <1>9, <1>10, <1>11, <1>12, <1>13

SubmitterSlots == {Of("volumes"), Of("initContainers")} \cup AllMounts \cup AllEnv

\* Python finds the staged package; there is a place for the job id.
Staged(v)  == \A c \in Workloads :
                /\ "stage" \in Names(v.patched, Mounts(c))
                /\ {"PYTHONPATH", "FLUENCE_POD_UID"} \subseteq Names(v.patched, Env(c))
Handed(v)  == \A c \in Workloads : /\ "handoff" \in Names(v.patched, Mounts(c))
                                   /\ "FLUENCE_HANDOFF_DIR" \in Names(v.patched, Env(c))

LEMMA SubmitterLasts ==
  ASSUME NEW w, NEW v, NEW T, Grows(w, v, T)
  PROVE  (Staged(w) => Staged(v)) /\ (Handed(w) => Handed(v))
BY GrowsNames, GrowKinds DEF Staged, Handed

LEMMA InterceptorSound ==
  ASSUME NEW pod \in Docs, NEW r, NEW w \in Sound(pod, r)
  PROVE  LET v == InterceptorOps(w)
         IN  /\ v \in Sound(pod, r) /\ Grows(w, v, SubmitterSlots) /\ Staged(v)
             /\ "handoff" \in Names(v.view, Of("volumes")) =>
                  "handoff" \in Names(w.view, Of("volumes"))
<1> DEFINE x == <<"stage", "fluence">>
           s == Insert(w, Of("volumes"), x)
           t == Emit(s, FirstOrNext(w.view, Of("initContainers"), x))
           v == InterceptAll(t)
<1>1. /\ Of("volumes") \in UserSlots /\ Of("volumes") \in GrowSlots /\ Of("volumes") \in Slots
      /\ Of("volumes")[1] # "env" /\ Of("volumes") \notin AllMounts \cup AllEnv
      /\ Of("initContainers") \in EmitSlots \ Keyed /\ Of("initContainers") \in Slots
      /\ Of("initContainers")[1] # "env" /\ Of("initContainers") # Of("volumes")
  BY SlotKinds, GrowKinds DEF Of, Keyed, PodFields, AllMounts, AllEnv, Mounts, Env
<1>2. x \in Entry /\ x[1] = "stage"
  BY Written DEF Words, OwnWords
<1>3. InterceptorOps(w) = v
  BY DEF InterceptorOps, InterceptAll
<1>. HIDE DEF x
<1>4. /\ s \in Sound(pod, r) /\ Grows(w, s, {Of("volumes")})
      /\ Entries(s.view, Of("volumes")) = Entries(w.view, Of("volumes")) \cup {x}
  <2>1. s \in Sound(pod, r)
    BY <1>1, <1>2, InsertSound
  <2>2. /\ Grows(w, Insert(w, Of("volumes"), x), {Of("volumes")})
        /\ Entries(Insert(w, Of("volumes"), x).view, Of("volumes"))
             = Entries(w.view, Of("volumes")) \cup {x}
        /\ x[1] \in Names(Insert(w, Of("volumes"), x).patched, Of("volumes"))
    BY <1>1, <1>2, InsertGrows
  <2>. QED BY <2>1, <2>2
<1>5. Entries(w.view, Of("initContainers")) = Entries(s.view, Of("initContainers"))
  BY <1>1, <1>4 DEF Grows, Entries
<1>. HIDE DEF s
<1>6. t \in Sound(pod, r) /\ Grows(s, t, {Of("initContainers")}) /\ t.view = s.view
  BY <1>1, <1>2, <1>4, <1>5, EmitFirstOrNext
<1>. HIDE DEF t
<1>7. v \in Sound(pod, r) /\ Grows(t, v, AllMounts \cup AllEnv) /\ Staged(v)
  BY <1>6, InterceptAllSound DEF Staged
<1>. HIDE DEF v
<1>8. Grows(w, v, SubmitterSlots)
  <2>1. Grows(w, t, {Of("volumes")} \cup {Of("initContainers")})
    BY <1>4, <1>6, GrowsTransitive
  <2>2. Grows(w, v, ({Of("volumes")} \cup {Of("initContainers")}) \cup (AllMounts \cup AllEnv))
    BY <1>7, <2>1, GrowsTransitive
  <2>. QED BY <2>2, GrowsWider DEF SubmitterSlots
<1>9. Entries(v.view, Of("volumes")) = Entries(w.view, Of("volumes")) \cup {x}
  BY <1>1, <1>4, <1>6, <1>7 DEF Grows, Entries
<1>10. "handoff" \in Names(v.view, Of("volumes")) => "handoff" \in Names(w.view, Of("volumes"))
  BY <1>2, <1>9 DEF Names
<1>. QED BY <1>3, <1>7, <1>8, <1>10

\* A pod that submits: the interceptor, then the handoff volume.
LEMMA SubmitterSound ==
  ASSUME NEW pod \in Docs, NEW r, NEW w \in Sound(pod, r)
  PROVE  LET v == HandoffOps(InterceptorOps(w))
         IN  /\ v \in Sound(pod, r) /\ Grows(w, v, SubmitterSlots) /\ Staged(v)
             /\ "handoff" \in Names(v.view, Of("volumes"))
             /\ "handoff" \notin Names(w.view, Of("volumes")) => Handed(v)
<1> DEFINE s == InterceptorOps(w)
           v == HandoffOps(s)
<1>1. /\ s \in Sound(pod, r) /\ Grows(w, s, SubmitterSlots) /\ Staged(s)
      /\ "handoff" \in Names(s.view, Of("volumes")) => "handoff" \in Names(w.view, Of("volumes"))
  BY InterceptorSound
<1>. HIDE DEF s
<1>2. /\ v \in Sound(pod, r) /\ Grows(s, v, {Of("volumes")} \cup AllMounts \cup AllEnv)
      /\ "handoff" \in Names(v.view, Of("volumes"))
      /\ "handoff" \notin Names(s.view, Of("volumes")) => Handed(v)
  BY <1>1, HandoffSound DEF Handed
<1>. HIDE DEF v
<1>3. Grows(w, v, SubmitterSlots)
  <2>1. Grows(w, v, SubmitterSlots \cup ({Of("volumes")} \cup AllMounts \cup AllEnv))
    BY <1>1, <1>2, GrowsTransitive
  <2>. QED BY <2>1, GrowsWider DEF SubmitterSlots
<1>4. Staged(v)
  BY <1>1, <1>2, SubmitterLasts
<1>. QED BY <1>1, <1>2, <1>3, <1>4 DEF v, s

LEMMA RehearsalTyped ==
  ASSUME NEW doc
  PROVE  Rehearsal(doc) \in SUBSET OwnEnv
BY DEF Rehearsal, OwnEnv

-----------------------------------------------------------------------------
(* The branches of Mutate.                                                  *)

LEMMA AdmissionSound ==
  ASSUME NEW pod \in Docs, NEW r, NEW w \in Sound(pod, r), NEW keys \in SUBSET OwnAnnotations
  PROVE  LET v == AdmissionOps(w, keys)
         IN  /\ v \in Sound(pod, r) /\ Grows(w, v, {Ann}) /\ v.view[Ann] # Absent
             /\ {"protected", "admitted-group"} \cup keys \subseteq Names(v.patched, Ann)
<1> DEFINE all == {"protected", "admitted-group"} \cup keys
<1>1. all \in SUBSET OwnAnnotations
  BY DEF OwnAnnotations
<1>2. AdmissionOps(w, keys) = AnnotateOps(w, all)
  BY DEF AdmissionOps
<1>. HIDE DEF all
<1>3. /\ AnnotateOps(w, all) \in Sound(pod, r)
      /\ Grows(w, AnnotateOps(w, all), {Ann})
      /\ AnnotateOps(w, all).view[Ann] # Absent
      /\ all \subseteq Names(AnnotateOps(w, all).patched, Ann)
  BY <1>1, AnnotateOpsSound
<1>. QED BY <1>2, <1>3 DEF all

LEMMA SlotsApart ==
  /\ Ann \in Slots /\ Labels \in Slots /\ Sched \in Slots /\ Gates \in Slots
  /\ Ann \notin AllEnv \cup SubmitterSlots \cup SidecarSlots \cup AllRequests
  /\ Labels \notin AllEnv \cup SubmitterSlots \cup SidecarSlots \cup {Ann}
  /\ Sched \notin AllEnv \cup SubmitterSlots \cup SidecarSlots \cup AllRequests
       \cup {Ann, Gates, Priority}
  /\ Gates \notin AllEnv \cup AllRequests
  /\ Of("volumes") \in Slots
  /\ Of("volumes") \notin {Ann, Labels, Sched} \cup AllEnv
  /\ \A c \in Workloads :
       /\ Requests(c) \in Slots
       /\ Requests(c) \notin {Ann, Labels, Sched, Gates, Priority} \cup AllEnv
                              \cup SubmitterSlots \cup SidecarSlots
<1>1. /\ Ann \in Slots /\ Labels \in Slots /\ Sched \in Slots /\ Gates \in Slots
      /\ Of("volumes") \in Slots
  BY SlotsOfThePod DEF Ann, Labels, Sched, Gates, PodFields
<1>2. \A c \in Workloads : Requests(c) \in Slots
  BY SlotsOfThePod
<1>3. \A f \in {"annotations", "labels", "schedulingGroup", "gates"} :
        Of(f) \notin AllEnv \cup SubmitterSlots \cup SidecarSlots \cup AllRequests
  BY DEF AllEnv, AllMounts, AllRequests, SubmitterSlots, SidecarSlots, Of, Env, Mounts, Requests
<1>4. \A c \in Workloads : Requests(c) \notin {Ann, Labels, Sched, Gates, Priority} \cup AllEnv
                              \cup SubmitterSlots \cup SidecarSlots
  BY DEF AllEnv, AllMounts, SubmitterSlots, SidecarSlots, Of, Env, Mounts, Requests,
         Ann, Labels, Sched, Gates, Priority
<1>5. Of("volumes") \notin {Ann, Labels, Sched} \cup AllEnv
  BY DEF AllEnv, Of, Env, Ann, Labels, Sched
<1>6. Labels # Ann /\ Sched \notin {Ann, Gates, Priority}
  BY DEF Of, Ann, Labels, Sched, Gates, Priority
<1>. QED BY <1>1, <1>2, <1>3, <1>4, <1>5, <1>6 DEF Ann, Labels, Sched, Gates

\* A field no operation wrote has the names it had.
LEMMA Untouched ==
  ASSUME NEW w, NEW v, NEW T, Grows(w, v, T), NEW slot \in Slots, slot \notin T
  PROVE  /\ v.view[slot] = w.view[slot] /\ v.patched[slot] = w.patched[slot]
         /\ Entries(v.view, slot) = Entries(w.view, slot)
         /\ Names(v.view, slot) = Names(w.view, slot)
         /\ Entries(v.patched, slot) = Entries(w.patched, slot)
         /\ Names(v.patched, slot) = Names(w.patched, slot)
BY DEF Grows, Entries, Names

StandaloneSlots == {Ann} \cup SubmitterSlots \cup SidecarSlots

LEMMA StandaloneSound ==
  ASSUME NEW pod \in Submissions, NEW r, NEW w \in Sound(pod, r)
  PROVE  LET v == Standalone(w)
         IN  /\ v \in Sound(pod, r) /\ Grows(w, v, StandaloneSlots) /\ Staged(v)
             /\ {"protected", "admitted-group", "admitted-cores"} \subseteq Names(v.patched, Ann)
             /\ "handoff" \notin Names(w.view, Of("volumes")) => Handed(v)
<1> DEFINE three == {"protected", "admitted-group", "admitted-cores"}
           s == AdmissionOps(w, {"admitted-cores"})
           t == HandoffOps(InterceptorOps(s))
           u == RehearsalOps(t)
           extra == {"FLUENCE_OBSERVE"} \cup Rehearsal(w.view)
           v == SidecarContainerOps(u, extra)
<1>1. Standalone(w) = IF Labelled(w.view, "observe") THEN v ELSE u
  BY DEF Standalone
<1>2. pod \in Docs /\ extra \in SUBSET OwnEnv
  BY SubmissionsAssumption, RehearsalTyped DEF OwnEnv
<1>. HIDE DEF extra
<1>3. s \in Sound(pod, r) /\ Grows(w, s, {Ann}) /\ three \subseteq Names(s.patched, Ann)
  <2>1. {"admitted-cores"} \in SUBSET OwnAnnotations
    BY DEF OwnAnnotations
  <2>2. /\ s \in Sound(pod, r) /\ Grows(w, s, {Ann}) /\ s.view[Ann] # Absent
        /\ {"protected", "admitted-group"} \cup {"admitted-cores"} \subseteq Names(s.patched, Ann)
    BY <1>2, <2>1, AdmissionSound
  <2>. QED BY <2>2
<1>. HIDE DEF three, s
<1>4. /\ t \in Sound(pod, r) /\ Grows(s, t, SubmitterSlots) /\ Staged(t)
      /\ "handoff" \notin Names(s.view, Of("volumes")) => Handed(t)
  BY <1>2, <1>3, SubmitterSound
<1>. HIDE DEF t
<1>5. u \in Sound(pod, r) /\ Grows(t, u, AllEnv)
  BY <1>2, <1>4, RehearsalSound
<1>. HIDE DEF u
<1>6. v \in Sound(pod, r) /\ Grows(u, v, SidecarSlots)
  BY <1>2, <1>5, SidecarSound
<1>. HIDE DEF v
<1>7. Grows(s, u, SubmitterSlots \cup AllEnv)
  BY <1>4, <1>5, GrowsTransitive
<1>8. Grows(s, v, SubmitterSlots \cup AllEnv \cup SidecarSlots)
  BY <1>6, <1>7, GrowsTransitive
<1>9. Grows(w, u, StandaloneSlots) /\ Grows(w, v, StandaloneSlots)
  <2>1. Grows(w, u, {Ann} \cup (SubmitterSlots \cup AllEnv))
    BY <1>3, <1>7, GrowsTransitive
  <2>2. Grows(w, v, {Ann} \cup (SubmitterSlots \cup AllEnv \cup SidecarSlots))
    BY <1>3, <1>8, GrowsTransitive
  <2>3. Grows(w, u, StandaloneSlots)
    BY <2>1, GrowsWider DEF StandaloneSlots, SubmitterSlots
  <2>4. Grows(w, v, StandaloneSlots)
    BY <2>2, GrowsWider DEF StandaloneSlots, SubmitterSlots
  <2>. QED BY <2>3, <2>4
<1>10. Staged(u) /\ Staged(v) /\ (Handed(t) => Handed(u) /\ Handed(v))
  <2>1. Staged(u) /\ (Handed(t) => Handed(u))
    BY <1>4, <1>5, SubmitterLasts
  <2>2. Staged(v) /\ (Handed(u) => Handed(v))
    BY <1>6, <2>1, SubmitterLasts
  <2>. QED BY <2>1, <2>2
<1>11. Names(s.view, Of("volumes")) = Names(w.view, Of("volumes"))
  BY <1>3, SlotsApart, Untouched
<1>12. three \subseteq Names(u.patched, Ann) /\ three \subseteq Names(v.patched, Ann)
  <2>1. Ann \in Slots /\ Ann \notin SubmitterSlots \cup AllEnv \cup SidecarSlots
    BY SlotsApart
  <2>2. Names(u.patched, Ann) = Names(s.patched, Ann)
    BY <1>7, <2>1, Untouched
  <2>3. Names(v.patched, Ann) = Names(s.patched, Ann)
    BY <1>8, <2>1, Untouched
  <2>. QED BY <1>3, <2>2, <2>3
<1>. QED BY <1>1, <1>4, <1>5, <1>6, <1>9, <1>10, <1>11, <1>12 DEF three

ScoutSlots == {Labels, Sched} \cup SubmitterSlots \cup SidecarSlots

LEMMA MutateScoutSound ==
  ASSUME NEW pod \in Submissions, NEW r, r = "scout", NEW w \in Sound(pod, r)
  PROVE  LET v == MutateScout(w)
         IN  /\ v \in Sound(pod, r) /\ Grows(w, v, ScoutSlots) /\ Staged(v)
             /\ "handoff" \notin Names(w.view, Of("volumes")) => Handed(v)
             /\ w.patched[Sched] = w.view[Sched] => v.patched[Sched] = Link(ScoutGang)
             /\ w.patched[Labels] = w.view[Labels] =>
                  <<"group", ScoutGang>> \in Entries(v.patched, Labels)
             /\ "handoff" \in Names(v.patched, Mounts(Sidecar))
             /\ "FLUENCE_GANG_GROUP" \in Names(v.patched, Env(Sidecar))
             /\ \A x \in Entries(w.patched, Env(1)) :
                  x[2] = "secret" => x[1] \in Names(v.patched, Env(Sidecar))
<1> DEFINE s == LinkGroupOps(w, ScoutGang)
           t == HandoffOps(InterceptorOps(s))
           u == SetContainerEnvOps(t, "FLUENCE_COORDINATION_ROLE")
           extra == {"FLUENCE_GANG_GROUP"} \cup Rehearsal(w.view)
           v == SidecarContainerOps(u, extra)
<1>1. MutateScout(w) = v
  BY DEF MutateScout
<1>2. /\ pod \in Docs /\ extra \in SUBSET OwnEnv /\ "FLUENCE_GANG_GROUP" \in extra
      /\ "FLUENCE_COORDINATION_ROLE" \in Words
  BY SubmissionsAssumption, RehearsalTyped DEF OwnEnv, WorkerEnv, Words
<1>. HIDE DEF extra
<1>3. /\ s \in Sound(pod, r) /\ Grows(w, s, LinkSlots)
      /\ w.patched[Labels] = w.view[Labels] => <<"group", ScoutGang>> \in Entries(s.patched, Labels)
      /\ w.patched[Sched] = w.view[Sched] => s.patched[Sched] = Link(ScoutGang)
  <2>1. Links(pod, r, ScoutGang)
    BY SubmissionsAssumption DEF Links, Labels
  <2>. QED BY <1>2, <2>1, LinkGroupSound
<1>. HIDE DEF s
<1>4. /\ t \in Sound(pod, r) /\ Grows(s, t, SubmitterSlots) /\ Staged(t)
      /\ "handoff" \in Names(t.view, Of("volumes"))
      /\ "handoff" \notin Names(s.view, Of("volumes")) => Handed(t)
  BY <1>2, <1>3, SubmitterSound
<1>. HIDE DEF t
<1>5. u \in Sound(pod, r) /\ Grows(t, u, AllEnv)
  BY <1>2, <1>4, SetContainerEnvSound
<1>. HIDE DEF u
<1>6. /\ v \in Sound(pod, r) /\ Grows(u, v, SidecarSlots)
      /\ extra \subseteq Names(v.patched, Env(Sidecar))
      /\ \A x \in Entries(u.view, Env(1)) : x[2] = "secret" =>
           x[1] \in Names(v.patched, Env(Sidecar))
      /\ "handoff" \in Names(u.view, Of("volumes")) =>
           "handoff" \in Names(v.patched, Mounts(Sidecar))
  BY <1>2, <1>5, SidecarSound
<1>. HIDE DEF v
<1>7. Grows(s, v, SubmitterSlots \cup AllEnv \cup SidecarSlots)
  <2>1. Grows(s, u, SubmitterSlots \cup AllEnv)
    BY <1>4, <1>5, GrowsTransitive
  <2>. QED BY <1>6, <2>1, GrowsTransitive
<1>8. Grows(w, v, ScoutSlots)
  <2>1. Grows(w, v, LinkSlots \cup (SubmitterSlots \cup AllEnv \cup SidecarSlots))
    BY <1>3, <1>7, GrowsTransitive
  <2>. QED BY <2>1, GrowsWider DEF ScoutSlots, SubmitterSlots, LinkSlots
<1>9. Staged(v) /\ (Handed(t) => Handed(v))
  <2>1. Staged(u) /\ (Handed(t) => Handed(u))
    BY <1>4, <1>5, SubmitterLasts
  <2>. QED BY <1>6, <2>1, SubmitterLasts
<1>10. /\ Names(s.view, Of("volumes")) = Names(w.view, Of("volumes"))
       /\ Names(u.view, Of("volumes")) = Names(t.view, Of("volumes"))
  <2>1. Of("volumes") \in Slots /\ Of("volumes") \notin LinkSlots /\ Of("volumes") \notin AllEnv
    BY SlotsApart DEF LinkSlots
  <2>2. Names(s.view, Of("volumes")) = Names(w.view, Of("volumes"))
    BY <1>3, <2>1, Untouched
  <2>3. Names(u.view, Of("volumes")) = Names(t.view, Of("volumes"))
    BY <1>5, <2>1, Untouched
  <2>. QED BY <2>2, <2>3
<1>11. v.patched[Sched] = s.patched[Sched]
         /\ Entries(v.patched, Labels) = Entries(s.patched, Labels)
  <2>1. /\ Sched \in Slots /\ Sched \notin SubmitterSlots \cup AllEnv \cup SidecarSlots
        /\ Labels \in Slots /\ Labels \notin SubmitterSlots \cup AllEnv \cup SidecarSlots
    BY SlotsApart
  <2>2. v.patched[Sched] = s.patched[Sched]
    BY <1>7, <2>1, Untouched
  <2>3. Entries(v.patched, Labels) = Entries(s.patched, Labels)
    BY <1>7, <2>1, Untouched
  <2>. QED BY <2>2, <2>3
<1>12. Entries(w.patched, Env(1)) \subseteq Entries(u.view, Env(1))
  <2>1. Env(1) \in GrowSlots /\ Env(1) \in UserSlots
    BY GrowKinds, SlotKinds, SlotsOfThePod
  <2>2. Grows(w, u, LinkSlots \cup (SubmitterSlots \cup AllEnv))
    <3>1. Grows(s, u, SubmitterSlots \cup AllEnv)
      BY <1>4, <1>5, GrowsTransitive
    <3>. QED BY <1>3, <3>1, GrowsTransitive
  <2>3. Entries(w.patched, Env(1)) \subseteq Entries(u.patched, Env(1))
    BY <2>1, <2>2 DEF Grows
  <2>4. Entries(u.patched, Env(1)) = Entries(u.view, Env(1))
    BY <1>2, <1>5, <2>1, SoundFields
  <2>. QED BY <2>3, <2>4
<1>. QED BY <1>1, <1>2, <1>3, <1>4, <1>6, <1>8, <1>9, <1>10, <1>11, <1>12

WorkerSlots == {Labels, Sched, Gates, Priority, Ann} \cup AllEnv \cup AllRequests

LEMMA MutateWorkerSound ==
  ASSUME NEW pod \in Submissions, NEW r, r = "worker", NEW w \in Sound(pod, r),
         w.view[Ann] # Absent
  PROVE  LET v == MutateWorker(w)
         IN  /\ v \in Sound(pod, r) /\ Grows(w, v, WorkerSlots)
             /\ Names(w.patched, Ann) \cup Dependencies \subseteq Names(v.patched, Ann)
             /\ "quantum" \in Names(v.patched, Gates)
             /\ w.patched[Sched] = w.view[Sched] => v.patched[Sched] = Link(Gang)
             /\ \A c \in Workloads : /\ WorkerEnv \subseteq Names(v.patched, Env(c))
                                     /\ "qpu" \notin Names(v.view, Requests(c))
<1> DEFINE s == LinkGroupOps(w, Gang)
           t == DependencyOps(s)
           u == WorkerEnvOps(t)
           v == DropQuantumResourceOps(u)
<1>1. MutateWorker(w) = v
  BY DEF MutateWorker
<1>2. pod \in Docs
  BY SubmissionsAssumption
<1>3. /\ s \in Sound(pod, r) /\ Grows(w, s, LinkSlots) /\ s.view = w.view
      /\ w.patched[Sched] = w.view[Sched] => s.patched[Sched] = Link(Gang)
  <2>1. Links(pod, r, Gang)
    BY SubmissionsAssumption DEF Links, Labels, Gang, ScoutGang
  <2>. HIDE DEF s
  <2>2. /\ LinkGroupOps(w, Gang) \in Sound(pod, r)
        /\ Grows(w, LinkGroupOps(w, Gang), LinkSlots)
        /\ LinkGroupOps(w, Gang).view = w.view
        /\ w.patched[Labels] = w.view[Labels] =>
             <<"group", Gang>> \in Entries(LinkGroupOps(w, Gang).patched, Labels)
        /\ w.patched[Sched] = w.view[Sched] => LinkGroupOps(w, Gang).patched[Sched] = Link(Gang)
    BY <1>2, <2>1, LinkGroupSound
  <2>. QED BY <2>2 DEF s
<1>. HIDE DEF s
<1>4. /\ t \in Sound(pod, r) /\ Grows(s, t, {Gates, Priority, Ann})
      /\ "quantum" \in Names(t.patched, Gates)
      /\ Names(s.patched, Ann) \cup Dependencies \subseteq Names(t.patched, Ann)
  <2>1. s.view[Ann] # Absent
    BY <1>3
  <2>. QED BY <1>2, <1>3, <2>1, DependencySound
<1>. HIDE DEF t
<1>5. /\ u \in Sound(pod, r) /\ Grows(t, u, AllEnv)
      /\ \A c \in Workloads : WorkerEnv \subseteq Names(u.patched, Env(c))
  BY <1>2, <1>4, WorkerEnvSound
<1>. HIDE DEF u
<1>6. /\ v \in Sound(pod, r) /\ Grows(u, v, AllRequests)
      /\ \A c \in Workloads : "qpu" \notin Names(v.view, Requests(c))
  BY <1>2, <1>5, DropQuantumResourceSound
<1>. HIDE DEF v
<1>7. Grows(t, v, AllEnv \cup AllRequests)
  BY <1>5, <1>6, GrowsTransitive
<1>8. Grows(s, v, {Gates, Priority, Ann} \cup (AllEnv \cup AllRequests))
  BY <1>4, <1>7, GrowsTransitive
<1>9. Grows(w, v, WorkerSlots)
  <2>1. Grows(w, v, LinkSlots \cup ({Gates, Priority, Ann} \cup (AllEnv \cup AllRequests)))
    BY <1>3, <1>8, GrowsTransitive
  <2>. QED BY <2>1, GrowsWider DEF WorkerSlots, LinkSlots
<1>10. Names(s.patched, Ann) = Names(w.patched, Ann)
  <2>1. Ann \in Slots /\ Ann \notin LinkSlots
    BY SlotsApart DEF LinkSlots, Ann, Labels, Sched, Of
  <2>. QED BY <1>3, <2>1, Untouched
<1>11. Names(v.patched, Ann) = Names(t.patched, Ann)
         /\ Names(v.patched, Gates) = Names(t.patched, Gates)
  <2>1. /\ Ann \in Slots /\ Ann \notin AllEnv \cup AllRequests
        /\ Gates \in Slots /\ Gates \notin AllEnv \cup AllRequests
    BY SlotsApart
  <2>. QED BY <1>7, <2>1, Untouched
<1>12. v.patched[Sched] = s.patched[Sched]
  <2>1. Sched \in Slots /\ Sched \notin {Gates, Priority, Ann} \cup (AllEnv \cup AllRequests)
    BY SlotsApart
  <2>. QED BY <1>8, <2>1, Untouched
<1>13. \A c \in Workloads : WorkerEnv \subseteq Names(v.patched, Env(c))
  BY <1>5, <1>6, GrowsNames, GrowKinds
<1>. QED BY <1>1, <1>3, <1>4, <1>6, <1>9, <1>10, <1>11, <1>12, <1>13

-----------------------------------------------------------------------------
(* The handlers, and the inductive invariant.                               *)

Roles      == {"alone", "scout", "worker"}
Fresh(pod) == [view |-> pod, patched |-> pod]

\* A worker or a scout is admitted first.
LEMMA AdmittedSound ==
  ASSUME NEW pod \in Docs, NEW r, NEW w \in Sound(pod, r)
  PROVE  LET s == RehearsalOps(AdmissionOps(w, {}))
         IN  /\ s \in Sound(pod, r) /\ Grows(w, s, {Ann} \cup AllEnv) /\ s.view[Ann] # Absent
             /\ {"protected", "admitted-group"} \subseteq Names(s.patched, Ann)
<1> DEFINE a == AdmissionOps(w, {})
           s == RehearsalOps(a)
<1>1. /\ a \in Sound(pod, r) /\ Grows(w, a, {Ann}) /\ a.view[Ann] # Absent
      /\ {"protected", "admitted-group"} \cup {} \subseteq Names(a.patched, Ann)
  <2>1. {} \in SUBSET OwnAnnotations
    OBVIOUS
  <2>. QED BY <2>1, AdmissionSound
<1>. HIDE DEF a
<1>2. s \in Sound(pod, r) /\ Grows(a, s, AllEnv)
  BY <1>1, RehearsalSound
<1>. HIDE DEF s
<1>3. Grows(w, s, {Ann} \cup AllEnv)
  BY <1>1, <1>2, GrowsTransitive
<1>4. s.view[Ann] = a.view[Ann] /\ Names(s.patched, Ann) = Names(a.patched, Ann)
  BY <1>2, SlotsApart, Untouched
<1>. QED BY <1>1, <1>2, <1>3, <1>4 DEF s, a

LEMMA MutateSound ==
  ASSUME NEW pod \in Submissions, role \in Roles, NEW w \in Sound(pod, role)
  PROVE  Mutate(w) \in Sound(pod, role)
<1> DEFINE s == RehearsalOps(AdmissionOps(w, {}))
<1>1. pod \in Docs
  BY SubmissionsAssumption
<1>2. s \in Sound(pod, role) /\ s.view[Ann] # Absent
  BY <1>1, AdmittedSound
<1>3. CASE role = "alone"
  BY <1>3, StandaloneSound DEF Mutate
<1>4. CASE role = "scout"
  <2>1. Mutate(w) = MutateScout(s)
    BY <1>4 DEF Mutate
  <2>. HIDE DEF s
  <2>. QED BY <1>2, <1>4, <2>1, MutateScoutSound
<1>5. CASE role = "worker"
  <2>1. Mutate(w) = MutateWorker(s)
    BY <1>5 DEF Mutate
  <2>. HIDE DEF s
  <2>. QED BY <1>2, <1>5, <2>1, MutateWorkerSound
<1>. QED BY <1>3, <1>4, <1>5 DEF Roles

PatchInv ==
  /\ submitted \in Submissions /\ role \in Roles
  /\ work \in Sound(submitted, role)
  /\ stored # NotYet => stored = work.patched /\ todo = <<>>

LEMMA FreshSound ==
  ASSUME NEW pod \in Submissions, NEW r
  PROVE  Fresh(pod) \in Sound(pod, r)
BY SubmissionsAssumption DEF Fresh, Sound, Works, Agrees, Keeps

LEMMA PatchInit ==
  Init => PatchInv
<1> SUFFICES ASSUME Init PROVE PatchInv
  OBVIOUS
<1>1. submitted \in Submissions /\ role \in Roles /\ work = Fresh(submitted) /\ stored = NotYet
  BY DEF Init, Roles, Fresh
<1>. QED BY <1>1, FreshSound DEF PatchInv

\* Nothing is done after Store.
LEMMA TurnIsBeforeStore ==
  ASSUME PatchInv, NEW h, Turn(h)
  PROVE  stored = NotYet
BY DEF PatchInv, Turn

LEMMA PatchStep ==
  PatchInv /\ [Next]_vars => PatchInv'
<1> SUFFICES ASSUME PatchInv, [Next]_vars PROVE PatchInv'
  OBVIOUS
<1>1. submitted \in Submissions /\ submitted \in Docs /\ role \in Roles
        /\ work \in Sound(submitted, role)
  BY SubmissionsAssumption DEF PatchInv
<1>2. CASE FluxionHandler
  <2>1. InjectEnvOps(work) \in Sound(submitted, role)
    BY <1>1, InjectEnvOpsSound
  <2>. QED BY <1>1, <1>2, <2>1, TurnIsBeforeStore DEF FluxionHandler, PatchInv
<1>3. CASE QuantumHandler
  <2>1. Mutate(work) \in Sound(submitted, role)
    BY <1>1, MutateSound
  <2>. QED BY <1>1, <1>3, <2>1, TurnIsBeforeStore DEF QuantumHandler, PatchInv
<1>4. CASE GangHandler
  <2>1. SchedulingGroupOps(work, Gang) \in Sound(submitted, role)
    BY <1>1, SchedulingGroupSound
  <2>. QED BY <1>1, <1>4, <2>1, TurnIsBeforeStore DEF GangHandler, PatchInv
<1>5. CASE Store
  BY <1>1, <1>5 DEF Store, PatchInv
<1>6. CASE UNCHANGED vars
  BY <1>6 DEF vars, PatchInv
<1>. QED BY <1>2, <1>3, <1>4, <1>5, <1>6 DEF Next

\* Between handlers the changed copy is the document the emitted operations
\* make of the submitted pod, and each handler keeps to what it may touch.
THEOREM PatchInvariant == Spec => []PatchInv
BY PatchInit, PatchStep, PTL DEF Spec

\* Copy and document stay documents, and no container is given a variable
\* twice, whatever handlers run in whatever order (setContainerEnvOps looks
\* for the variable in the copy it changes).
THEOREM TypeCorrect == Spec => []TypeOK
<1>1. PatchInv => TypeOK
  <2> SUFFICES ASSUME PatchInv PROVE TypeOK
    OBVIOUS
  <2>1. work \in Works /\ EnvOnce(work.view) /\ EnvOnce(work.patched)
    BY DEF PatchInv, Sound, Agrees
  <2>2. work \in [view : Docs, patched : Docs \cup {Refused}]
    BY <2>1 DEF Works
  <2>3. stored = NotYet \/ stored = work.patched
    BY DEF PatchInv
  <2>. QED BY <2>1, <2>2, <2>3 DEF PatchInv, Roles, TypeOK, Works
<1>. QED BY <1>1, PatchInvariant, PTL

\* The API server never refuses the patch: a field that is appended to, keyed
\* or emptied is there when its turn comes, for every pod and every --handlers.
THEOREM PatchesApply == Spec => []PatchApplies
<1>1. PatchInv => PatchApplies
  <2> SUFFICES ASSUME PatchInv PROVE PatchApplies
    OBVIOUS
  <2>1. work.patched \in Docs
    BY DEF PatchInv, Sound, Works
  <2>. QED BY <2>1, ConstantsAssumption DEF PatchInv, PatchApplies
<1>. QED BY <1>1, PatchInvariant, PTL

\* What the user submitted is stored, but for what the roles and the webhook's
\* own names excuse.
THEOREM NothingIsLost == Spec => []NothingLost
<1>1. PatchInv => NothingLost
  <2> SUFFICES ASSUME PatchInv, stored \notin {NotYet, Refused},
                      NEW slot \in Slots, NEW x \in Entries(submitted, slot)
               PROVE  x \in Entries(stored, slot) \/ Excused(role, slot, x)
    BY DEF NothingLost, Excused
  <2>1. Keeps(submitted, role, work) /\ stored = work.patched
    BY DEF PatchInv, Sound
  <2>. QED BY <2>1 DEF Keeps
<1>. QED BY <1>1, PatchInvariant, PTL

-----------------------------------------------------------------------------
(* What a role needs, handler by handler.                                   *)

\* A container of a Fluxion resource knows its backend.
Equipped(pod, w) ==
  \A c \in Workloads : Entries(pod, Requests(c)) # {} => Injected \subseteq Names(w.patched, Env(c))

AfterFluxion(pod, w) == Grows(Fresh(pod), w, AllEnv) /\ Equipped(pod, w)

Submits(pod, w) ==
  Staged(w) /\ ("handoff" \notin Names(pod, Of("volumes")) => Handed(w)) /\ RequestsQpu(w.view)

Gated(w) ==
  /\ Dependencies \subseteq Names(w.patched, Ann) /\ "quantum" \in Names(w.patched, Gates)
  /\ w.patched[Sched] = Link(Gang)
  /\ \A c \in Workloads : /\ WorkerEnv \subseteq Names(w.patched, Env(c))
                          /\ "qpu" \notin Names(w.view, Requests(c))

Coordinates(pod, w) ==
  /\ w.patched[Sched] = Link(ScoutGang)
  /\ <<"group", ScoutGang>> \in Entries(w.patched, Labels)
  /\ "handoff" \in Names(w.patched, Mounts(Sidecar))
  /\ "FLUENCE_GANG_GROUP" \in Names(w.patched, Env(Sidecar))
  /\ \A x \in Entries(pod, Env(1)) : x[2] = "secret" => x[1] \in Names(w.patched, Env(Sidecar))

Complete(pod, r, w) ==
  /\ Equipped(pod, w)
  /\ {"protected", "admitted-group"} \subseteq Names(w.patched, Ann)
  /\ r # "worker" => Submits(pod, w)
  /\ r = "alone"  => "admitted-cores" \in Names(w.patched, Ann)
  /\ r = "worker" => Gated(w)
  /\ r = "scout"  => Coordinates(pod, w)

LEMMA EquippedLasts ==
  ASSUME NEW pod, NEW w, NEW v, NEW T, Grows(w, v, T), Equipped(pod, w)
  PROVE  Equipped(pod, v)
BY GrowsNames, GrowKinds DEF Equipped

\* The requests stay where the operations leave them alone.
LEMMA QpuLasts ==
  ASSUME NEW w, NEW v, NEW T, Grows(w, v, T), \A c \in Workloads : Requests(c) \notin T
  PROVE  RequestsQpu(w.view) <=> RequestsQpu(v.view)
<1>1. \A c \in Workloads : Names(v.view, Requests(c)) = Names(w.view, Requests(c))
  <2> SUFFICES ASSUME NEW c \in Workloads
               PROVE  Names(v.view, Requests(c)) = Names(w.view, Requests(c))
    OBVIOUS
  <2>1. Requests(c) \in Slots /\ Requests(c) \notin T
    BY SlotsOfThePod
  <2>. QED BY <2>1, Untouched
<1>. QED BY <1>1 DEF RequestsQpu, Workloads

LEMMA FluxionCompletes ==
  ASSUME NEW pod \in Submissions, NEW r
  PROVE  AfterFluxion(pod, InjectEnvOps(Fresh(pod)))
<1> DEFINE w == Fresh(pod)
<1>1. w \in Sound(pod, r) /\ pod \in Docs /\ w.view = pod
  BY FreshSound, SubmissionsAssumption DEF Fresh
<1>. HIDE DEF w
<1>2. /\ InjectEnvOps(w) \in Sound(pod, r)
      /\ Grows(w, InjectEnvOps(w), AllEnv)
      /\ \A c \in Workloads : Entries(w.view, Requests(c)) # {} =>
           Injected \subseteq Names(InjectEnvOps(w).patched, Env(c))
  BY <1>1, InjectEnvOpsSound
<1>. QED BY <1>1, <1>2 DEF AfterFluxion, Equipped, w

\* The quantum handler finds the fields it links by as they were submitted.
LEMMA FreshLinks ==
  ASSUME NEW pod \in Submissions, NEW w, AfterFluxion(pod, w), RequestsQpu(pod)
  PROVE  /\ \A slot \in {Labels, Sched, Of("volumes")} :
              /\ w.patched[slot] = w.view[slot] /\ Entries(w.view, slot) = Entries(pod, slot)
              /\ Names(w.view, slot) = Names(pod, slot)
         /\ RequestsQpu(w.view) /\ Entries(pod, Env(1)) \subseteq Entries(w.patched, Env(1))
<1> DEFINE f == Fresh(pod)
<1>1. f.view = pod /\ f.patched = pod /\ Grows(f, w, AllEnv)
  BY DEF Fresh, AfterFluxion
<1>. HIDE DEF f
<1>2. \A slot \in {Labels, Sched, Of("volumes")} :
        /\ w.patched[slot] = w.view[slot] /\ Entries(w.view, slot) = Entries(pod, slot)
        /\ Names(w.view, slot) = Names(pod, slot)
  <2> SUFFICES ASSUME NEW slot \in {Labels, Sched, Of("volumes")}
               PROVE  /\ w.patched[slot] = w.view[slot]
                      /\ Entries(w.view, slot) = Entries(pod, slot)
                      /\ Names(w.view, slot) = Names(pod, slot)
    OBVIOUS
  <2>1. slot \in Slots /\ slot \notin AllEnv
    BY SlotsApart
  <2>2. /\ w.view[slot] = f.view[slot] /\ w.patched[slot] = f.patched[slot]
        /\ Entries(w.view, slot) = Entries(f.view, slot)
        /\ Names(w.view, slot) = Names(f.view, slot)
    BY <1>1, <2>1, Untouched
  <2>. QED BY <1>1, <2>2
<1>3. RequestsQpu(w.view)
  BY <1>1, SlotsApart, QpuLasts
<1>4. Env(1) \in GrowSlots
  BY GrowKinds, SlotsOfThePod
<1>. QED BY <1>1, <1>2, <1>3, <1>4 DEF Grows

LEMMA QuantumCompletes ==
  ASSUME NEW pod \in Submissions, role \in Roles, NEW w \in Sound(pod, role),
         AfterFluxion(pod, w), RequestsQpu(pod)
  PROVE  Complete(pod, role, Mutate(w))
<1> DEFINE s == RehearsalOps(AdmissionOps(w, {}))
           v == Mutate(w)
<1>1. /\ pod \in Docs /\ Equipped(pod, w)
      /\ w.patched[Labels] = w.view[Labels] /\ w.patched[Sched] = w.view[Sched]
      /\ Names(w.view, Of("volumes")) = Names(pod, Of("volumes"))
      /\ RequestsQpu(w.view) /\ Entries(pod, Env(1)) \subseteq Entries(w.patched, Env(1))
  BY FreshLinks, SubmissionsAssumption DEF AfterFluxion
<1>2. /\ s \in Sound(pod, role) /\ Grows(w, s, {Ann} \cup AllEnv) /\ s.view[Ann] # Absent
      /\ {"protected", "admitted-group"} \subseteq Names(s.patched, Ann)
  BY <1>1, AdmittedSound
<1>3. /\ s.patched[Labels] = s.view[Labels] /\ s.patched[Sched] = s.view[Sched]
      /\ Names(s.view, Of("volumes")) = Names(pod, Of("volumes"))
      /\ RequestsQpu(s.view) /\ Entries(pod, Env(1)) \subseteq Entries(s.patched, Env(1))
      /\ Equipped(pod, s)
  <2>. HIDE DEF s
  <2>1. /\ Labels \in Slots /\ Sched \in Slots /\ Of("volumes") \in Slots
        /\ Labels \notin {Ann} \cup AllEnv /\ Sched \notin {Ann} \cup AllEnv
        /\ Of("volumes") \notin {Ann} \cup AllEnv
        /\ \A c \in Workloads : Requests(c) \notin {Ann} \cup AllEnv
    BY SlotsApart
  <2>2. /\ s.view[Labels] = w.view[Labels] /\ s.patched[Labels] = w.patched[Labels]
        /\ s.view[Sched] = w.view[Sched] /\ s.patched[Sched] = w.patched[Sched]
    BY <1>2, <2>1 DEF Grows
  <2>3. Names(s.view, Of("volumes")) = Names(w.view, Of("volumes"))
    BY <1>2, <2>1, Untouched
  <2>4. RequestsQpu(s.view)
    BY <1>1, <1>2, <2>1, QpuLasts
  <2>5. Entries(w.patched, Env(1)) \subseteq Entries(s.patched, Env(1))
    BY <1>2, GrowKinds, SlotsOfThePod DEF Grows
  <2>6. Equipped(pod, s)
    BY <1>1, <1>2, EquippedLasts
  <2>. QED BY <1>1, <2>2, <2>3, <2>4, <2>5, <2>6
<1>4. CASE role = "alone"
  <2>1. /\ Grows(w, v, StandaloneSlots) /\ Staged(v)
        /\ {"protected", "admitted-group", "admitted-cores"} \subseteq Names(v.patched, Ann)
        /\ "handoff" \notin Names(w.view, Of("volumes")) => Handed(v)
    BY <1>4, StandaloneSound DEF Mutate
  <2>. HIDE DEF v, s
  <2>2. \A c \in Workloads : Requests(c) \notin StandaloneSlots
    BY SlotsApart DEF StandaloneSlots
  <2>3. RequestsQpu(v.view) /\ Equipped(pod, v)
    BY <1>1, <2>1, <2>2, QpuLasts, EquippedLasts
  <2>. QED BY <1>1, <1>4, <2>1, <2>3 DEF Complete, Submits, v
<1>5. CASE role = "scout"
  <2>1. v = MutateScout(s)
    BY <1>5 DEF Mutate
  <2>. HIDE DEF s, v
  <2>2. /\ Grows(s, v, ScoutSlots) /\ Staged(v)
        /\ "handoff" \notin Names(s.view, Of("volumes")) => Handed(v)
        /\ s.patched[Sched] = s.view[Sched] => v.patched[Sched] = Link(ScoutGang)
        /\ s.patched[Labels] = s.view[Labels] =>
             <<"group", ScoutGang>> \in Entries(v.patched, Labels)
        /\ "handoff" \in Names(v.patched, Mounts(Sidecar))
        /\ "FLUENCE_GANG_GROUP" \in Names(v.patched, Env(Sidecar))
        /\ \A x \in Entries(s.patched, Env(1)) :
             x[2] = "secret" => x[1] \in Names(v.patched, Env(Sidecar))
    BY <1>2, <1>5, <2>1, MutateScoutSound
  <2>3. Coordinates(pod, v)
    BY <1>3, <2>2 DEF Coordinates
  <2>4. Ann \in Slots /\ Ann \notin ScoutSlots /\ \A c \in Workloads : Requests(c) \notin ScoutSlots
    <3>1. Ann \notin LinkSlots
      BY DEF LinkSlots, Ann, Labels, Sched, Of
    <3>. QED BY <3>1, SlotsApart DEF ScoutSlots, LinkSlots
  <2>5. RequestsQpu(v.view) /\ Equipped(pod, v) /\ Names(v.patched, Ann) = Names(s.patched, Ann)
    <3>1. RequestsQpu(v.view)
      BY <1>3, <2>2, <2>4, QpuLasts
    <3>2. Equipped(pod, v)
      BY <1>3, <2>2, EquippedLasts
    <3>3. Names(v.patched, Ann) = Names(s.patched, Ann)
      BY <2>2, <2>4, Untouched
    <3>. QED BY <3>1, <3>2, <3>3
  <2>6. Submits(pod, v)
    BY <1>3, <2>2, <2>5 DEF Submits
  <2>. QED BY <1>2, <1>5, <2>3, <2>5, <2>6 DEF Complete, v
<1>6. CASE role = "worker"
  <2>1. v = MutateWorker(s)
    BY <1>6 DEF Mutate
  <2>. HIDE DEF s, v
  <2>2. /\ Grows(s, v, WorkerSlots)
        /\ Names(s.patched, Ann) \cup Dependencies \subseteq Names(v.patched, Ann)
        /\ "quantum" \in Names(v.patched, Gates)
        /\ s.patched[Sched] = s.view[Sched] => v.patched[Sched] = Link(Gang)
        /\ \A c \in Workloads : /\ WorkerEnv \subseteq Names(v.patched, Env(c))
                                /\ "qpu" \notin Names(v.view, Requests(c))
    BY <1>2, <1>6, <2>1, MutateWorkerSound
  <2>3. Gated(v)
    BY <1>3, <2>2 DEF Gated
  <2>4. Equipped(pod, v)
    BY <1>3, <2>2, EquippedLasts
  <2>. QED BY <1>2, <1>6, <2>2, <2>3, <2>4 DEF Complete, v
<1>. QED BY <1>4, <1>5, <1>6 DEF Roles

\* The gang handler has nothing to do for a pod that submits, and links a
\* worker to the gang it is linked to already.
LEMMA GangCompletes ==
  ASSUME NEW pod \in Docs, NEW r \in Roles, NEW w \in Sound(pod, r), Complete(pod, r, w),
         ~RequestsQpu(w.view)
  PROVE  Complete(pod, r, SchedulingGroupOps(w, Gang))
<1> DEFINE v == SchedulingGroupOps(w, Gang)
<1>1. r = "worker" /\ Gated(w)
  BY DEF Complete, Submits, Roles
<1>2. /\ Grows(w, v, {Sched}) /\ v.view = w.view
      /\ w.patched[Sched] = w.view[Sched] \/ w.patched[Sched] = Link(Gang) =>
           v.patched[Sched] = Link(Gang)
  BY SchedulingGroupSound
<1>. HIDE DEF v
<1>3. Ann \in Slots /\ Ann # Sched /\ Gates \in Slots /\ Gates # Sched
  BY SlotsApart DEF Ann, Sched, Gates, Of
<1>4. Names(v.patched, Ann) = Names(w.patched, Ann)
        /\ Names(v.patched, Gates) = Names(w.patched, Gates)
  BY <1>2, <1>3, Untouched
<1>5. \A c \in Workloads : Names(w.patched, Env(c)) \subseteq Names(v.patched, Env(c))
  BY <1>2, GrowsNames, GrowKinds
<1>6. Gated(v)
  BY <1>1, <1>2, <1>4, <1>5 DEF Gated
<1>7. Equipped(pod, v)
  BY <1>2, EquippedLasts DEF Complete
<1>. QED BY <1>1, <1>4, <1>6, <1>7 DEF Complete, v

\* How far a pod has come where all three handlers run.
RoleInv ==
  active = DefaultHandlerOrder /\ RequestsQpu(submitted) =>
    \/ todo = DefaultHandlerOrder /\ work = Fresh(submitted)
    \/ todo = <<"quantum", "gang">> /\ AfterFluxion(submitted, work)
    \/ todo \in {<<"gang">>, <<>>} /\ Complete(submitted, role, work)

LEMMA Turns ==
  /\ Head(DefaultHandlerOrder) = "fluxion" /\ Tail(DefaultHandlerOrder) = <<"quantum", "gang">>
  /\ Head(<<"quantum", "gang">>) = "quantum" /\ Tail(<<"quantum", "gang">>) = <<"gang">>
  /\ Head(<<"gang">>) = "gang" /\ Tail(<<"gang">>) = <<>>
<1>1. Head(DefaultHandlerOrder) = "fluxion" /\ Tail(DefaultHandlerOrder) = <<"quantum", "gang">>
  BY DEF DefaultHandlerOrder
<1>2. Head(<<"quantum", "gang">>) = "quantum" /\ Tail(<<"quantum", "gang">>) = <<"gang">>
  OBVIOUS
<1>3. Head(<<"gang">>) = "gang" /\ Tail(<<"gang">>) = <<>>
  OBVIOUS
<1>. QED BY <1>1, <1>2, <1>3

LEMMA RoleInit ==
  Init => RoleInv
BY DEF Init, RoleInv, Fresh

LEMMA RoleStep ==
  PatchInv /\ RoleInv /\ [Next]_vars => RoleInv'
<1> SUFFICES ASSUME PatchInv, RoleInv, [Next]_vars PROVE RoleInv'
  OBVIOUS
<1>1. submitted \in Submissions /\ submitted \in Docs /\ role \in Roles
        /\ work \in Sound(submitted, role)
  BY SubmissionsAssumption DEF PatchInv
<1>2. CASE UNCHANGED vars
  BY <1>2 DEF vars, RoleInv
<1>3. CASE Store
  BY <1>3 DEF Store, RoleInv
<1>4. CASE ~(active = DefaultHandlerOrder /\ RequestsQpu(submitted))
  BY <1>4 DEF Next, vars, FluxionHandler, QuantumHandler, GangHandler, Store, RoleInv
<1>5. ASSUME active = DefaultHandlerOrder, RequestsQpu(submitted), FluxionHandler PROVE RoleInv'
  <2>1. todo = DefaultHandlerOrder /\ work = Fresh(submitted) /\ todo' = <<"quantum", "gang">>
    BY <1>5, Turns DEF FluxionHandler, Turn, RoleInv
  <2>2. RequestsFluxion(work.view)
    BY <1>5, <2>1 DEF Fresh, RequestsQpu, RequestsFluxion, Names
  <2>3. AfterFluxion(submitted, work')
    BY <1>1, <1>5, <2>1, <2>2, FluxionCompletes DEF FluxionHandler
  <2>. QED BY <1>5, <2>1, <2>3 DEF FluxionHandler, RoleInv
<1>6. ASSUME active = DefaultHandlerOrder, RequestsQpu(submitted), QuantumHandler PROVE RoleInv'
  <2>1. AfterFluxion(submitted, work) /\ todo' = <<"gang">>
    BY <1>6, Turns DEF QuantumHandler, Turn, RoleInv
  <2>2. RequestsQpu(work.view)
    BY <1>1, <1>6, <2>1, FreshLinks
  <2>3. work' = Mutate(work)
    BY <1>6, <2>2 DEF QuantumHandler
  <2>4. Complete(submitted, role, Mutate(work))
    BY <1>1, <1>6, <2>1, QuantumCompletes
  <2>. QED BY <1>6, <2>1, <2>3, <2>4 DEF QuantumHandler, RoleInv
<1>7. ASSUME active = DefaultHandlerOrder, RequestsQpu(submitted), GangHandler PROVE RoleInv'
  <2>1. Complete(submitted, role, work) /\ todo' = <<>>
    BY <1>7, Turns DEF GangHandler, Turn, RoleInv
  <2>2. Complete(submitted, role, work')
    BY <1>1, <1>7, <2>1, GangCompletes DEF GangHandler
  <2>. QED BY <1>7, <2>1, <2>2 DEF GangHandler, RoleInv
<1>. QED BY <1>2, <1>3, <1>4, <1>5, <1>6, <1>7 DEF Next

\* A pod that asks for a qpu is stored with all that its role needs at run
\* time, where all three handlers run: a pod that submits is still seen to ask
\* for a qpu by the gang handler, a worker is not, and is linked once.
THEOREM RolesComplete == Spec => []RoleComplete
<1>1. PatchInv /\ RoleInv => RoleComplete
  <2> SUFFICES ASSUME PatchInv, RoleInv, stored \notin {NotYet, Refused},
                      active = DefaultHandlerOrder, RequestsQpu(submitted)
               PROVE  RoleComplete
    BY DEF RoleComplete
  <2>1. /\ stored = work.patched /\ Complete(submitted, role, work)
        /\ submitted \in Docs /\ work \in Sound(submitted, role) /\ role \in Roles
    BY SubmissionsAssumption DEF PatchInv, RoleInv, DefaultHandlerOrder
  <2>2. \A c \in Workloads : Entries(work.patched, Requests(c)) = Entries(work.view, Requests(c))
    BY <2>1, SoundFields, SlotKinds
  <2>3. role = "worker" => ~RequestsQpu(stored)
    BY <2>1, <2>2 DEF Complete, Gated, RequestsQpu, Workloads, Names
  <2>4. ASSUME NEW c \in 1 .. Containers
        PROVE  /\ Entries(submitted, Requests(c)) # {} => Has(Env(c), Injected)
               /\ IF role = "worker" THEN Has(Env(c), WorkerEnv)
                  ELSE /\ Has(Mounts(c), {"stage"})
                       /\ Has(Env(c), {"PYTHONPATH", "FLUENCE_POD_UID"})
                       /\ "handoff" \notin Names(submitted, Of("volumes")) =>
                            Has(Mounts(c), {"handoff"}) /\ Has(Env(c), {"FLUENCE_HANDOFF_DIR"})
    BY <2>1 DEF Complete, Equipped, Gated, Submits, Staged, Handed, Has, Workloads
  <2>5. /\ Has(Of("annotations"), {"protected", "admitted-group"})
        /\ role = "alone" => Has(Of("annotations"), {"admitted-cores"})
    BY <2>1 DEF Complete, Has, Ann
  <2>6. role = "worker" =>
          /\ Has(Of("annotations"), Dependencies) /\ Has(Of("gates"), {"quantum"})
          /\ stored[Of("schedulingGroup")] = {<<Gang, "link">>}
    BY <2>1 DEF Complete, Gated, Has, Ann, Gates, Sched, Link
  <2>7. role = "scout" =>
          /\ stored[Of("schedulingGroup")] = {<<ScoutGang, "link">>}
          /\ <<"group", ScoutGang>> \in Entries(stored, Of("labels"))
          /\ Has(Mounts(Sidecar), {"handoff"}) /\ Has(Env(Sidecar), {"FLUENCE_GANG_GROUP"})
          /\ \A x \in Entries(submitted, Env(1)) : x[2] = "secret" => Has(Env(Sidecar), {x[1]})
    BY <2>1 DEF Complete, Coordinates, Has, Sched, Labels, Link
  <2>. QED BY <2>3, <2>4, <2>5, <2>6, <2>7 DEF RoleComplete
<1>. QED BY <1>1, RoleInit, RoleStep, PatchInvariant, PTL DEF Spec
=============================================================================
