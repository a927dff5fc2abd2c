-------------------------- MODULE ReconcilerProofs --------------------------
(* Reconciler is type correct, never deletes a user's PodGroup unless it has  *)
(* the name of a scout's, and frees nothing under a gang that waited for all  *)
(* its members.                                                              *)
EXTENDS Reconciler, FiniteSetTheorems, TLAPS

-----------------------------------------------------------------------------
(* Type correctness.                                                        *)

LEMMA IdleRecType == IdleRec \in RecType
BY DEF IdleRec, RecType

\* A call that starts, returns or moves on is typed.
LEMMA RecTypes ==
  ASSUME TypeOK, NEW r \in Callers
  PROVE  /\ Return(r) => rec' \in [Callers -> RecType]
         /\ \A g \in Groups : Call(r, g) => rec' \in [Callers -> RecType]
<1>1. \A g \in Groups : [IdleRec EXCEPT !.pc = "get", !.key = g] \in RecType
  BY DEF IdleRec, RecType
<1>. QED
  BY <1>1, IdleRecType DEF TypeOK, Return, Call

LEMMA RecUpdate ==
  ASSUME TypeOK, NEW r \in Callers, NEW v \in RecType, rec' = [rec EXCEPT ![r] = v]
  PROVE  rec' \in [Callers -> RecType]
BY DEF TypeOK

LEMMA EnsureType ==
  ASSUME TypeOK, NEW g \in Groups
  PROVE  EnsurePodGroup(g) \in [Groups -> PodGroup]
BY DEF TypeOK, EnsurePodGroup, PodGroup

LEMMA DeleteType ==
  ASSUME TypeOK, NEW g \in Groups, DeleteByName(g)
  PROVE  pg' \in [Groups -> PodGroup] /\ deletions' \in Seq(Groups)
<1>1. pg' \in [Groups -> PodGroup]
  BY DEF TypeOK, DeleteByName, PodGroup
<1>2. deletions' \in Seq(Groups)
  <2>1. Append(deletions, g) \in Seq(Groups)
    BY DEF TypeOK
  <2>. QED BY <2>1 DEF TypeOK, DeleteByName
<1>. QED BY <1>1, <1>2

LEMMA TypeInit == Init => TypeOK
<1> SUFFICES ASSUME Init PROVE TypeOK
  OBVIOUS
<1>1. pg \in [Groups -> PodGroup]
  BY DEF Init, PodGroup
<1>2. rec \in [Callers -> RecType]
  BY IdleRecType DEF Init
<1>3. pod \in [Pods -> Phases] /\ cache \in [Pods -> Phases]
  BY DEF Init, Phases, Unborn
<1>. QED
  BY <1>1, <1>2, <1>3 DEF Init, TypeOK

LEMMA PodStepType ==
  ASSUME TypeOK, NEW p \in Pods,
         \/ Admit(p) \/ Store(p) \/ Ungate(p) \/ Start(p)
         \/ Finish(p) \/ Remove(p) \/ Deliver(p)
  PROVE  TypeOK'
<1>0. GroupOf[p] \in Groups
  BY ConstantsAssumption
<1>1. CASE Admit(p)
  BY <1>0, <1>1, EnsureType DEF Admit, TypeOK, Phases, Unborn
<1>2. CASE Store(p) \/ Ungate(p) \/ Finish(p) \/ Remove(p)
  BY <1>2 DEF Store, Ungate, Finish, Remove, TypeOK, Phases, Live, Over
<1>3. CASE Start(p)
  BY <1>0, <1>3 DEF Start, TypeOK, PodGroup, Phases, Live
<1>4. CASE Deliver(p)
  <2>1. notes' \in Seq(Groups)
    BY <1>0, <1>4 DEF Deliver, TypeOK
  <2>. QED BY <1>4, <2>1 DEF Deliver, TypeOK
<1>. QED BY <1>1, <1>2, <1>3, <1>4

LEMMA GroupStepType ==
  ASSUME TypeOK, NEW g \in Groups, Permit(g) \/ Age(g) \/ Sweep(g)
  PROVE  TypeOK'
<1>1. CASE Permit(g)
  BY <1>1 DEF Permit, TypeOK, Phases, Live
<1>2. CASE Age(g)
  BY <1>2 DEF Age, TypeOK, PodGroup
<1>3. CASE Sweep(g)
  <2>. "sweep" \in Callers
    BY DEF Callers
  <2>. QED BY <1>3, RecTypes DEF Sweep, TypeOK
<1>. QED BY <1>1, <1>2, <1>3

LEMMA QueueStepType ==
  ASSUME TypeOK, Miss \/ FreeGroup \/ HandlePod
  PROVE  TypeOK'
<1>1. CASE Miss
  BY <1>1 DEF Miss, TypeOK
<1>2. CASE FreeGroup
  BY <1>2 DEF FreeGroup, TypeOK
<1>3. CASE HandlePod
  <2>1. "handler" \in Callers /\ Head(notes) \in Groups /\ Tail(notes) \in Seq(Groups)
    BY <1>3 DEF Callers, HandlePod, TypeOK
  <2>. QED BY <1>3, <2>1, RecTypes DEF HandlePod, TypeOK
<1>. QED BY <1>1, <1>2, <1>3

LEMMA CallStepType ==
  ASSUME TypeOK, NEW r \in Callers, Reconcile(r) \/ ReconcileError(r)
  PROVE  TypeOK'
<1>0. rec[r] \in RecType
  BY DEF TypeOK
<1>1. CASE GetPodGroup(r)
  <2>1. CASE Return(r)
    BY <1>1, <2>1, RecTypes DEF GetPodGroup, TypeOK
  <2>2. CASE ~Return(r)
    <3> DEFINE g == rec[r].key
               v == [rec[r] EXCEPT !.pc = "list", !.uid = pg[g].uid,
                                   !.scheduled = pg[g].scheduled]
    <3>1. g \in Groups /\ pg[g] \in PodGroup
      BY <1>0, <1>1 DEF GetPodGroup, RecType, TypeOK
    <3>2. v \in RecType
      BY <1>0, <3>1 DEF RecType, PodGroup
    <3>3. rec' = [rec EXCEPT ![r] = v]
      BY <1>1, <2>2 DEF GetPodGroup, TypeOK
    <3>. QED BY <1>1, <3>2, <3>3, RecUpdate DEF GetPodGroup, TypeOK
  <2>. QED BY <2>1, <2>2
<1>2. CASE ListMembers(r)
  <2>1. CASE Return(r)
    BY <1>2, <2>1, RecTypes DEF ListMembers, TypeOK
  <2>2. CASE ~Return(r)
    <3>1. [rec[r] EXCEPT !.pc = "delete"] \in RecType
      BY <1>0, <1>2 DEF ListMembers, RecType
    <3>2. rec' = [rec EXCEPT ![r] = [rec[r] EXCEPT !.pc = "delete"]]
      BY <1>2, <2>2 DEF ListMembers, TypeOK
    <3>. QED BY <1>2, <3>1, <3>2, RecUpdate DEF ListMembers, TypeOK
  <2>. QED BY <2>1, <2>2
<1>3. CASE DeletePodGroup(r)
  <2>0. rec[r].key \in Groups /\ DeleteByName(rec[r].key)
    BY <1>0, <1>3 DEF DeletePodGroup, RecType
  <2>1. CASE Return(r)
    BY <1>3, <2>0, <2>1, RecTypes, DeleteType DEF DeletePodGroup, TypeOK
  <2>2. CASE ~Return(r)
    <3>1. [rec[r] EXCEPT !.pc = "scout"] \in RecType
      BY <1>0, <1>3, <2>2 DEF DeletePodGroup, RecType
    <3>2. rec' = [rec EXCEPT ![r] = [rec[r] EXCEPT !.pc = "scout"]]
      BY <1>3, <2>2 DEF DeletePodGroup, TypeOK
    <3>. QED BY <1>3, <2>0, <3>1, <3>2, RecUpdate, DeleteType DEF DeletePodGroup, TypeOK
  <2>. QED BY <2>1, <2>2
<1>4. CASE DeleteScout(r)
  <2>1. ScoutGroup[rec[r].key] \in Groups
    BY <1>0, <1>4, ConstantsAssumption DEF DeleteScout, RecType
  <2>. QED BY <1>4, <2>1, RecTypes, DeleteType DEF DeleteScout, TypeOK
<1>5. CASE ReconcileError(r)
  <2>1. [spent EXCEPT !.faults = @ + 1] \in [faults : Nat, missed : Nat]
    BY DEF TypeOK
  <2>. QED BY <1>5, <2>1, RecTypes DEF ReconcileError, TypeOK
<1>. QED BY <1>1, <1>2, <1>3, <1>4, <1>5 DEF Reconcile

LEMMA TypeNext == TypeOK /\ [Next]_vars => TypeOK'
<1>1. ASSUME TypeOK, Next PROVE TypeOK'
  BY <1>1, PodStepType, GroupStepType, QueueStepType, CallStepType DEF Next
<1>2. ASSUME TypeOK, UNCHANGED vars PROVE TypeOK'
  BY <1>2 DEF TypeOK, vars
<1>. QED BY <1>1, <1>2

\* Objects, caches, queues and goroutine locals are always typed, whatever the
\* groups, pods and bounds (reconcileGroup and its callers).
THEOREM ReconcilerTypeCorrect == Spec => []TypeOK
BY TypeInit, TypeNext, PTL DEF Spec

-----------------------------------------------------------------------------
(* Rule 1.                                                                  *)

\* An object never loses the ownership annotation, one that appears has it, and
\* one that goes is a call's own group or the scout group of it.
LEMMA OwnershipStep ==
  ASSUME TypeOK, Next, NEW g \in Groups
  PROVE  /\ pg[g].owned => pg'[g].owned
         /\ pg'[g].exists => pg[g].exists \/ pg'[g].owned
         /\ Reaped(g) => \E r \in Callers :
              \/ rec[r].pc = "delete" /\ g = rec[r].key
              \/ rec[r].pc = "scout" /\ g = ScoutGroup[rec[r].key]
<1>0. pg[g] \in PodGroup
  BY DEF TypeOK
<1>1. ASSUME NEW p \in Pods, Admit(p) \/ Start(p)
      PROVE  /\ pg[g].owned => pg'[g].owned
             /\ pg'[g].exists => pg[g].exists \/ pg'[g].owned
             /\ ~Reaped(g)
  <2>0. GroupOf[p] \in Groups
    BY ConstantsAssumption
  <2>1. CASE Admit(p)
    BY <1>0, <2>0, <2>1 DEF Admit, EnsurePodGroup, TypeOK, PodGroup, Reaped
  <2>2. CASE Start(p)
    BY <1>0, <2>0, <2>2 DEF Start, TypeOK, PodGroup, Reaped
  <2>. QED BY <1>1, <2>1, <2>2
<1>2. ASSUME NEW r \in Callers, DeletePodGroup(r) \/ DeleteScout(r)
      PROVE  /\ pg'[g].owned = pg[g].owned
             /\ pg'[g].exists => pg[g].exists
             /\ Reaped(g) =>
                  \/ rec[r].pc = "delete" /\ g = rec[r].key
                  \/ rec[r].pc = "scout" /\ g = ScoutGroup[rec[r].key]
  <2>1. CASE DeletePodGroup(r)
    BY <1>0, <2>1 DEF DeletePodGroup, DeleteByName, TypeOK, PodGroup, Reaped
  <2>2. CASE DeleteScout(r)
    BY <1>0, <2>2 DEF DeleteScout, DeleteByName, TypeOK, PodGroup, Reaped
  <2>. QED BY <1>2, <2>1, <2>2
<1>3. \/ pg' = pg
      \/ \E p \in Pods : Admit(p) \/ Start(p)
      \/ \E r \in Callers : DeletePodGroup(r) \/ DeleteScout(r)
  BY DEF Next, Reconcile, Store, Ungate, Finish, Remove, Deliver, Permit, Age, Sweep,
         Miss, FreeGroup, HandlePod, GetPodGroup, ListMembers, ReconcileError
<1>. QED BY <1>1, <1>2, <1>3 DEF Reaped

\* A call gets past rule 1 only on an object Fluence owns, and stays on it.
LEMMA RuleOneStep ==
  ASSUME TypeOK, Next, NEW r \in Callers, PastRuleOne(r)'
  PROVE  \/ PastRuleOne(r) /\ rec'[r].key = rec[r].key
         \/ rec'[r].key = rec[r].key /\ pg[rec[r].key].owned /\ pg' = pg
<1>1. ASSUME NEW q \in Callers, Return(q) PROVE q # r
  BY <1>1 DEF Return, TypeOK, PastRuleOne, IdleRec
<1>2. ASSUME NEW q \in Callers, NEW g \in Groups, Call(q, g) PROVE q # r
  BY <1>2 DEF Call, TypeOK, PastRuleOne, IdleRec
<1>3. ASSUME NEW q \in Callers, q # r,
             \/ Return(q) \/ (\E g \in Groups : Call(q, g))
      PROVE  rec'[r] = rec[r]
  BY <1>3 DEF Return, Call, TypeOK
<1>4. CASE rec'[r] = rec[r]
  BY <1>4 DEF PastRuleOne
<1>5. CASE \E q \in Callers : Return(q) \/ (\E g \in Groups : Call(q, g))
  BY <1>1, <1>2, <1>3, <1>4, <1>5
<1>6. ASSUME NEW q \in Callers, ~Return(q), GetPodGroup(q)
      PROVE  \/ rec'[r] = rec[r]
             \/ rec'[r].key = rec[r].key /\ pg[rec[r].key].owned /\ pg' = pg
  BY <1>6 DEF GetPodGroup, TypeOK, RecType
<1>7. ASSUME NEW q \in Callers, ~Return(q), ListMembers(q) \/ DeletePodGroup(q)
      PROVE  rec'[r] = rec[r] \/ (PastRuleOne(r) /\ rec'[r].key = rec[r].key)
  BY <1>7 DEF ListMembers, DeletePodGroup, TypeOK, RecType, PastRuleOne
<1>8. \/ rec' = rec
      \/ \E q \in Callers : Return(q) \/ (\E g \in Groups : Call(q, g))
      \/ \E q \in Callers : ~Return(q) /\ GetPodGroup(q)
      \/ \E q \in Callers : ~Return(q) /\ (ListMembers(q) \/ DeletePodGroup(q))
  <2>1. HandlePod => \E q \in Callers, g \in Groups : Call(q, g)
    BY DEF HandlePod, TypeOK, Callers
  <2>2. ASSUME NEW g \in Groups, Sweep(g) PROVE \E q \in Callers : Call(q, g)
    BY <2>2 DEF Sweep, Callers
  <2>. QED
    BY <2>1, <2>2 DEF Next, Reconcile, Admit, Start, Store, Ungate, Finish, Remove, Deliver,
       Permit, Age, Miss, FreeGroup, DeleteScout, ReconcileError
<1>. QED BY <1>4, <1>5, <1>6, <1>7, <1>8

LEMMA OwnershipNext == OwnershipInv /\ [Next]_vars => OwnershipInv'
<1>1. ASSUME OwnershipInv, Next PROVE OwnershipInv'
  <2>0. TypeOK /\ TypeOK'
    BY <1>1, TypeNext DEF OwnershipInv
  <2>1. ASSUME NEW r \in Callers, PastRuleOne(r)' PROVE pg'[rec'[r].key].owned
    <3>1. rec'[r].key \in Groups
      BY <2>0, <2>1 DEF TypeOK, RecType, PastRuleOne
    <3>. QED BY <1>1, <2>0, <2>1, <3>1, RuleOneStep, OwnershipStep DEF OwnershipInv
  <2>2. ASSUME NEW g \in Groups \ UserGroups, pg'[g].exists PROVE pg'[g].owned
    BY <1>1, <2>0, <2>2, OwnershipStep DEF OwnershipInv
  <2>. QED BY <2>0, <2>1, <2>2 DEF OwnershipInv, PastRuleOne
<1>2. ASSUME OwnershipInv, UNCHANGED vars PROVE OwnershipInv'
  BY <1>2, TypeNext DEF OwnershipInv, PastRuleOne, vars
<1>. QED BY <1>1, <1>2

\* Rule 1 holds of every group and schedule, unless a user's PodGroup has the
\* name of a scout's (reconcileGroup; the scout's is deleted unread).
THEOREM UserGroupsSafe ==
  ASSUME UserGroups \cap ScoutGroups = {}
  PROVE  Spec => UserGroupsUntouched
<1>1. Init => OwnershipInv
  <2> SUFFICES ASSUME Init PROVE OwnershipInv
    OBVIOUS
  <2>1. \A r \in Callers : ~PastRuleOne(r)
    BY DEF Init, PastRuleOne, IdleRec
  <2>2. \A g \in Groups : pg[g].exists => g \in UserGroups
    BY DEF Init
  <2>. QED BY <2>1, <2>2, TypeInit DEF OwnershipInv
<1>2. ASSUME OwnershipInv, Next, NEW g \in Groups, Reaped(g) PROVE pg[g].owned
  <2>0. TypeOK
    BY <1>2 DEF OwnershipInv
  <2>1. PICK r \in Callers :
          \/ rec[r].pc = "delete" /\ g = rec[r].key
          \/ rec[r].pc = "scout" /\ g = ScoutGroup[rec[r].key]
    BY <1>2, <2>0, OwnershipStep
  <2>2. CASE rec[r].pc = "delete" /\ g = rec[r].key
    BY <1>2, <2>2 DEF OwnershipInv, PastRuleOne
  <2>3. CASE rec[r].pc = "scout" /\ g = ScoutGroup[rec[r].key]
    <3>1. rec[r].key \in Groups /\ g # NoGroup
      BY <2>0, <2>3, ConstantsAssumption DEF TypeOK, RecType
    <3>2. g \notin UserGroups
      BY <2>3, <3>1 DEF ScoutGroups
    <3>. QED BY <1>2, <3>2 DEF OwnershipInv, Reaped
  <2>. QED BY <2>1, <2>2, <2>3
<1>3. OwnershipInv /\ [Next]_vars
        => [\A g \in Groups : Reaped(g) => pg[g].owned]_vars
  BY <1>2
<1>. QED BY <1>1, <1>3, OwnershipNext, PTL DEF Spec, UserGroupsUntouched
-----------------------------------------------------------------------------
(* No gang loses its PodGroup, or its allocation, under a live member.       *)

\* What is over stays over, what is in the cache stays in it.
LEMMA MembersForward ==
  ASSUME TypeOK, CacheLags, Next, NEW p \in Pods
  PROVE  /\ pod[p] \in Over => pod'[p] \in Over
         /\ cache[p] \notin Unborn => cache'[p] \notin Unborn
<1>1. ASSUME NEW q \in Pods, Admit(q) \/ Store(q) \/ Ungate(q) \/ Start(q) \/ Finish(q) \/ Remove(q)
      PROVE  cache' = cache /\ (pod[p] \in Over => pod'[p] \in Over)
  BY <1>1 DEF Admit, Store, Ungate, Start, Finish, Remove, TypeOK, Over, Live
<1>2. ASSUME NEW q \in Pods, Deliver(q)
      PROVE  pod' = pod /\ (cache[p] \notin Unborn => cache'[p] \notin Unborn)
  BY <1>2 DEF Deliver, TypeOK, CacheLags
<1>3. ASSUME NEW g \in Groups, Permit(g)
      PROVE  cache' = cache /\ (pod[p] \in Over => pod'[p] \in Over)
  BY <1>3 DEF Permit, TypeOK, Over
<1>4. \/ pod' = pod /\ cache' = cache
      \/ \E q \in Pods : \/ Admit(q) \/ Store(q) \/ Ungate(q) \/ Start(q)
                         \/ Finish(q) \/ Remove(q) \/ Deliver(q)
      \/ \E g \in Groups : Permit(g)
  BY DEF Next, Reconcile, Age, Sweep, Miss, FreeGroup, HandlePod, GetPodGroup, ListMembers,
         DeletePodGroup, DeleteScout, ReconcileError
<1>. QED BY <1>1, <1>2, <1>3, <1>4

LEMMA GangForward ==
  ASSUME TypeOK, CacheLags, Next, NEW g \in Groups
  PROVE  (AllCached(g) => AllCached(g)') /\ (AllOver(g) => AllOver(g)')
BY MembersForward DEF AllCached, AllOver, Members

LEMMA CacheStep ==
  ASSUME TypeOK, CacheLags, Next
  PROVE  CacheLags'
<1>1. ASSUME NEW q \in Pods, Admit(q) \/ Store(q) \/ Ungate(q) \/ Start(q) \/ Finish(q) \/ Remove(q)
      PROVE  CacheLags'
  <2> SUFFICES ASSUME NEW p \in Pods
               PROVE  /\ cache[p] \notin Unborn => pod'[p] \notin Unborn
                      /\ cache[p] = "done" => pod'[p] \in Over
                      /\ cache[p] = "gone" => pod'[p] = "gone"
    BY <1>1 DEF CacheLags, Admit, Store, Ungate, Start, Finish, Remove
  <2>. QED BY <1>1 DEF CacheLags, Admit, Store, Ungate, Start, Finish, Remove, TypeOK, Over, Live, Unborn
<1>2. ASSUME NEW q \in Pods, Deliver(q) PROVE CacheLags'
  BY <1>2 DEF CacheLags, Deliver, TypeOK, Over, Unborn
<1>3. ASSUME NEW g \in Groups, Permit(g) PROVE CacheLags'
  BY <1>3 DEF CacheLags, Permit, TypeOK, Over, Unborn
<1>4. \/ pod' = pod /\ cache' = cache
      \/ \E q \in Pods : \/ Admit(q) \/ Store(q) \/ Ungate(q) \/ Start(q)
                         \/ Finish(q) \/ Remove(q) \/ Deliver(q)
      \/ \E g \in Groups : Permit(g)
  BY DEF Next, Reconcile, Age, Sweep, Miss, FreeGroup, HandlePod, GetPodGroup, ListMembers,
         DeletePodGroup, DeleteScout, ReconcileError
<1>. QED BY <1>1, <1>2, <1>3, <1>4 DEF CacheLags

\* The gate opens for a whole gang, every member of which the cache has.
LEMMA WholeGang ==
  ASSUME MembersInv, NEW g \in Groups \ ScoutGroups, Permit(g),
         MinCount[g] >= Cardinality(Members(g))
  PROVE  AllCached(g)
<1> DEFINE arrived == {p \in Members(g) : pod[p] = "waiting" /\ cache[p] = "waiting"}
           assumed == {p \in Members(g) : pod[p] \in {"permitted", "running"}}
<1>1. IsFiniteSet(Members(g))
  BY FS_Subset, ConstantsAssumption DEF Members
<1>2. /\ arrived \cup assumed \in SUBSET Members(g)
      /\ Cardinality(arrived \cup assumed) >= MinCount[g]
  BY DEF Permit
<1>3. Cardinality(arrived \cup assumed) = Cardinality(Members(g))
  <2>1. Cardinality(arrived \cup assumed) <= Cardinality(Members(g))
    BY <1>1, <1>2, FS_Subset
  <2>2. /\ Cardinality(arrived \cup assumed) \in Nat /\ Cardinality(Members(g)) \in Nat
        /\ MinCount[g] \in Nat
    BY <1>1, <1>2, FS_Subset, FS_CardinalityType, ConstantsAssumption
  <2>. QED BY <1>2, <2>1, <2>2
<1>4. arrived \cup assumed = Members(g)
  BY <1>1, <1>2, <1>3, FS_Subset
<1>5. CASE assumed = {}
  BY <1>4, <1>5 DEF AllCached, Unborn
<1>6. CASE assumed # {}
  <2>1. Scheduled(g)
    BY <1>6 DEF Scheduled
  <2>. QED BY <2>1 DEF MembersInv
<1>. QED BY <1>5, <1>6

\* Who is found completed has no member left.
LEMMA CompletedIsOver ==
  ASSUME MembersInv, NEW r \in Callers, Completed(r),
         rec[r].key \in Groups \ ScoutGroups
  PROVE  AllOver(rec[r].key)
<1> DEFINE g == rec[r].key
           seen == {p \in Members(g) : cache[p] \in Present}
<1>1. Scheduled(g)
  <2>1. CASE seen = {}
    BY <2>1 DEF Completed, Scheduled
  <2>2. ASSUME NEW p \in seen PROVE Scheduled(g)
    <3>1. p \in Members(g) /\ cache[p] = "done"
      BY <2>2 DEF Completed
    <3>. QED BY <3>1 DEF Scheduled
  <2>. QED BY <2>1, <2>2
<1>2. AllCached(g)
  BY <1>1 DEF MembersInv
<1>3. ASSUME NEW p \in Members(g) PROVE pod[p] \in Over
  <2>1. p \in Pods /\ cache[p] \in Phases \ Unborn
    BY <1>2 DEF AllCached, MembersInv, TypeOK, Members
  <2>2. cache[p] \in {"done", "gone"}
    BY <1>3, <2>1 DEF Completed, Phases, Present, Over
  <2>. QED BY <2>1, <2>2 DEF MembersInv, CacheLags, Over
<1>. QED BY <1>3 DEF AllOver

\* A gang is scheduled, or old, only once the cache has all of it.
LEMMA ScheduledStep ==
  ASSUME MembersInv, Next, NEW g \in Groups \ ScoutGroups, Successors = {},
         MinCount[g] >= Cardinality(Members(g)), Scheduled(g)'
  PROVE  AllCached(g)'
<1>0. TypeOK /\ CacheLags /\ g \in Groups /\ pg[g] \in PodGroup
  BY DEF MembersInv, TypeOK
<1>1. SUFFICES AllCached(g)
  BY <1>0, GangForward
<1>2. SUFFICES ASSUME ~Scheduled(g) PROVE AllCached(g)
  BY DEF MembersInv
<1>3. ASSUME NEW p \in Pods, Admit(p) \/ Store(p) \/ Ungate(p) \/ Finish(p) \/ Remove(p) PROVE FALSE
  <2>1. UNCHANGED <<aged, cache, rec>> /\ GroupOf[p] \in Groups
    BY <1>3, ConstantsAssumption DEF Admit, Store, Ungate, Finish, Remove
  <2>2. ~pg'[g].scheduled
    <3>1. ~pg[g].scheduled
      BY <1>2 DEF Scheduled
    <3>2. pg' = pg \/ pg' = EnsurePodGroup(GroupOf[p])
      BY <1>3 DEF Admit, Store, Ungate, Finish, Remove
    <3>. QED BY <1>0, <2>1, <3>1, <3>2 DEF EnsurePodGroup, TypeOK
  <2>3. ASSUME NEW q \in Members(g), pod'[q] \in {"permitted", "running", "done"}
        PROVE  pod[q] \in {"permitted", "running", "done"}
    BY <1>0, <1>3, <2>3 DEF Admit, Store, Ungate, Finish, Remove, TypeOK, Members
  <2>. QED BY <1>2, <2>1, <2>2, <2>3 DEF Scheduled, Members
<1>4. ASSUME NEW p \in Pods, Start(p) PROVE FALSE
  <2>1. UNCHANGED <<aged, cache, rec>> /\ GroupOf[p] \in Groups
    BY <1>4, ConstantsAssumption DEF Start
  <2>2. p \notin Members(g)
    BY <1>2, <1>4 DEF Start, Scheduled
  <2>3. pg'[g].scheduled = pg[g].scheduled
    BY <1>0, <1>4, <2>1, <2>2 DEF Start, TypeOK, PodGroup, Members
  <2>4. \A q \in Members(g) : pod'[q] = pod[q]
    BY <1>0, <1>4, <2>2 DEF Start, TypeOK, Members
  <2>. QED BY <1>2, <2>1, <2>3, <2>4 DEF Scheduled, Members
<1>5. ASSUME NEW p \in Pods, Deliver(p) PROVE FALSE
  <2>1. UNCHANGED <<aged, pg, pod, rec>>
    BY <1>5 DEF Deliver
  <2>2. \A q \in Members(g) : cache'[q] = "done" => cache[q] = "done" \/ pod[q] = "done"
    BY <1>0, <1>5 DEF Deliver, TypeOK, Members
  <2>. QED BY <1>2, <2>1, <2>2 DEF Scheduled, Members
<1>6. ASSUME NEW h \in Groups, Permit(h) PROVE AllCached(g)
  <2>1. CASE h = g
    BY <1>6, <2>1, WholeGang
  <2>2. CASE h # g
    <3>1. UNCHANGED <<aged, pg, cache, rec>> /\ \A q \in Members(g) : pod'[q] = pod[q]
      BY <1>0, <1>6, <2>2 DEF Permit, TypeOK, Members
    <3>. QED BY <1>2, <3>1 DEF Scheduled, Members
  <2>. QED BY <2>1, <2>2
<1>7. ASSUME NEW h \in Groups, Age(h) PROVE AllCached(g)
  <2>1. UNCHANGED <<pg, pod, cache, rec>> /\ aged' = aged \cup {<<h, pg[h].uid>>}
    BY <1>7 DEF Age
  <2>2. h = g
    BY <1>2, <2>1 DEF Scheduled, Members
  <2>. QED BY <1>7, <2>2 DEF Age, AllCached, First
<1>8. ASSUME NEW r \in Callers, \/ DeletePodGroup(r) \/ DeleteScout(r) \/ GetPodGroup(r)
                                \/ ListMembers(r) \/ ReconcileError(r)
      PROVE  FALSE
  <2>1. UNCHANGED <<aged, pod, cache>>
    BY <1>8 DEF DeletePodGroup, DeleteScout, GetPodGroup, ListMembers, ReconcileError
  <2>2. ~pg'[g].scheduled
    <3>1. ~pg[g].scheduled
      BY <1>2 DEF Scheduled
    <3>2. pg' = pg \/ \E h : pg' = [pg EXCEPT ![h].exists = FALSE]
      BY <1>8 DEF DeletePodGroup, DeleteScout, GetPodGroup, ListMembers, ReconcileError, DeleteByName
    <3>. QED BY <1>0, <3>1, <3>2 DEF TypeOK, PodGroup
  <2>3. ASSUME NEW q \in Callers, rec'[q].key = g, rec'[q].scheduled PROVE FALSE
    <3>1. ~(rec[q].key = g /\ rec[q].scheduled) /\ ~pg[g].scheduled
      BY <1>2 DEF Scheduled
    <3>2. rec'[q] # IdleRec
      BY <2>3 DEF IdleRec
    <3>3. CASE rec'[q] = rec[q]
      BY <2>3, <3>1, <3>3
    <3>4. CASE rec'[q] # rec[q]
      <4>1. q = r /\ ~Return(r)
        BY <1>0, <1>8, <3>2, <3>4 DEF DeletePodGroup, DeleteScout, GetPodGroup, ListMembers,
           ReconcileError, Return, TypeOK
      <4>2. rec[r] \in RecType
        BY <1>0 DEF TypeOK
      <4>3. CASE GetPodGroup(r)
        <5>1. rec' = [rec EXCEPT ![r].pc = "list", ![r].uid = pg[rec[r].key].uid,
                                 ![r].scheduled = pg[rec[r].key].scheduled]
          BY <4>1, <4>3 DEF GetPodGroup
        <5>2. rec'[r] = [rec[r] EXCEPT !.pc = "list", !.uid = pg[rec[r].key].uid,
                                       !.scheduled = pg[rec[r].key].scheduled]
          BY <1>0, <5>1 DEF TypeOK
        <5>3. rec'[r].key = rec[r].key /\ rec'[r].scheduled = pg[rec[r].key].scheduled
          BY <4>2, <5>2 DEF RecType
        <5>. QED BY <2>3, <3>1, <4>1, <5>3
      <4>4. CASE ListMembers(r) \/ DeletePodGroup(r)
        <5>1. PICK x \in {"delete", "scout"} : rec' = [rec EXCEPT ![r].pc = x]
          BY <4>1, <4>4 DEF ListMembers, DeletePodGroup
        <5>2. rec'[r] = [rec[r] EXCEPT !.pc = x]
          BY <1>0, <5>1 DEF TypeOK
        <5>3. rec'[r].key = rec[r].key /\ rec'[r].scheduled = rec[r].scheduled
          BY <4>2, <5>2 DEF RecType
        <5>. QED BY <2>3, <3>1, <4>1, <5>3
      <4>. QED BY <1>8, <4>1, <4>3, <4>4 DEF DeleteScout, ReconcileError
    <3>. QED BY <3>3, <3>4
  <2>. QED BY <1>2, <2>1, <2>2, <2>3 DEF Scheduled, Members
<1>9. ASSUME NEW h \in Groups, NEW r \in Callers, Call(r, h), UNCHANGED <<pg, aged, pod, cache>>
      PROVE  FALSE
  <2>1. \A q \in Callers : rec'[q] = rec[q] \/ ~rec'[q].scheduled
    BY <1>0, <1>9 DEF Call, IdleRec, TypeOK
  <2>. QED BY <1>2, <1>9, <2>1 DEF Scheduled, Members
<1>10. HandlePod => \E h \in Groups, r \in Callers : Call(r, h) /\ UNCHANGED <<pg, aged, pod, cache>>
  BY <1>0 DEF HandlePod, Callers, TypeOK
<1>11. \A h \in Groups : Sweep(h) => \E r \in Callers : Call(r, h) /\ UNCHANGED <<pg, aged, pod, cache>>
  BY DEF Sweep, Callers
<1>12. Miss \/ FreeGroup => Scheduled(g)
  BY DEF Miss, FreeGroup, Scheduled, Members
<1>. QED
  BY <1>2, <1>3, <1>4, <1>5, <1>6, <1>7, <1>8, <1>9, <1>10, <1>11, <1>12 DEF Next, Reconcile

\* The delete events that are waiting.
LEMMA DeletionsStep ==
  ASSUME TypeOK, NEW g \in Groups, NEW h \in Groups, DeleteByName(h), g # h,
         NEW i \in DOMAIN deletions', deletions'[i] = g
  PROVE  \E j \in DOMAIN deletions : deletions[j] = g
BY DEF DeleteByName, TypeOK

\* A PodGroup goes, and its event waits, only with all its members over.
LEMMA EndingStep ==
  ASSUME MembersInv, Next, NEW g \in Groups \ ScoutGroups, Ending(g)'
  PROVE  AllOver(g)'
<1>0. TypeOK /\ CacheLags /\ g \in Groups
  BY DEF MembersInv
<1>1. SUFFICES AllOver(g)
  BY <1>0, GangForward
<1>2. SUFFICES ASSUME ~Ending(g) PROVE AllOver(g)
  BY DEF MembersInv
<1>3. CASE \E i \in DOMAIN deletions' : deletions'[i] = g
  <2>1. PICK i \in DOMAIN deletions' : deletions'[i] = g
    BY <1>3
  <2>2. CASE FreeGroup
    BY <1>0, <1>2, <2>1, <2>2 DEF FreeGroup, TypeOK, Ending
  <2>3. ASSUME NEW r \in Callers, DeletePodGroup(r) PROVE FALSE
    <3>1. rec[r].key \in Groups /\ DeleteByName(rec[r].key) /\ rec[r].key # g
      BY <1>0, <1>2, <2>3 DEF DeletePodGroup, TypeOK, RecType, Ending
    <3>. QED BY <1>0, <1>2, <2>1, <3>1, DeletionsStep DEF Ending
  <2>4. ASSUME NEW r \in Callers, DeleteScout(r) PROVE FALSE
    <3>1. rec[r].key \in Groups /\ ScoutGroup[rec[r].key] # NoGroup
      BY <1>0, <2>4 DEF DeleteScout, TypeOK, RecType
    <3>2. ScoutGroup[rec[r].key] \in Groups /\ ScoutGroup[rec[r].key] # g
      BY <3>1, ConstantsAssumption DEF ScoutGroups
    <3>. QED BY <1>0, <1>2, <2>1, <2>4, <3>2, DeletionsStep DEF Ending, DeleteScout
  <2>5. CASE deletions' = deletions
    BY <1>2, <2>1, <2>5 DEF Ending
  <2>. QED
    BY <2>2, <2>3, <2>4, <2>5 DEF Next, Reconcile, Admit, Store, Ungate, Start, Finish, Remove,
       Deliver, Permit, Age, Sweep, Miss, HandlePod, GetPodGroup, ListMembers, ReconcileError
<1>4. ASSUME NEW r \in Callers, rec'[r].key = g, rec'[r].pc = "delete" PROVE AllOver(g)
  <2>0. rec[r] \in RecType /\ rec'[r] # rec[r]
    BY <1>0, <1>2, <1>4 DEF TypeOK, Ending
  <2>1. rec'[r] # IdleRec /\ \A h \in Groups : rec'[r] # [IdleRec EXCEPT !.pc = "get", !.key = h]
    <3>1. IdleRec.pc = "idle" /\ \A h \in Groups : [IdleRec EXCEPT !.pc = "get", !.key = h].pc = "get"
      BY DEF IdleRec
    <3>. QED BY <1>4, <3>1
  <2>2. \A q \in Callers : ~(Return(q) /\ q = r) /\ \A h \in Groups : ~(Call(q, h) /\ q = r)
    BY <1>0, <2>1 DEF Return, Call, TypeOK
  <2>3. \A q \in Callers : (Return(q) \/ (\E h \in Groups : Call(q, h))) => q = r
    BY <1>0, <2>0 DEF Return, Call, TypeOK
  <2>4. \A q \in Callers : ~Return(q) /\ \A h \in Groups : ~Call(q, h)
    BY <2>2, <2>3
  <2>5. "handler" \in Callers /\ "sweep" \in Callers /\ (notes # <<>> => Head(notes) \in Groups)
    BY <1>0 DEF Callers, TypeOK
  <2>6. PICK q \in Callers : GetPodGroup(q) \/ ListMembers(q) \/ DeletePodGroup(q)
    BY <2>0, <2>4, <2>5 DEF Next, Reconcile, Admit, Store, Ungate, Start, Finish, Remove, Deliver,
       Permit, Age, Sweep, Miss, FreeGroup, HandlePod, DeleteScout, ReconcileError
  <2>7. q = r
    BY <1>0, <2>0, <2>4, <2>6 DEF GetPodGroup, ListMembers, DeletePodGroup, TypeOK
  <2>8. ListMembers(r) /\ Completed(r) /\ rec'[r].key = rec[r].key
    BY <1>0, <1>4, <2>0, <2>4, <2>6, <2>7 DEF GetPodGroup, ListMembers, DeletePodGroup, TypeOK, RecType
  <2>. QED BY <1>4, <2>8, CompletedIsOver
<1>. QED BY <1>3, <1>4 DEF Ending

\* A running member's PodGroup and allocation are there.
LEMMA BackedStep ==
  ASSUME MembersInv, Next, NEW g \in Groups \ ScoutGroups, NEW p \in Members(g)
  PROVE  /\ pod'[p] \in {"permitted", "running"} => g \in held'
         /\ pod'[p] = "running" => pg'[g].exists
<1>0. TypeOK /\ g \in Groups /\ p \in Pods /\ GroupOf[p] = g
  BY DEF MembersInv, Members
<1>1. /\ pod[p] \in {"permitted", "running"} => g \in held
      /\ pod[p] = "running" => pg[g].exists
  BY DEF MembersInv
<1>2. ASSUME NEW q \in Pods, \/ Admit(q) \/ Store(q) \/ Ungate(q) \/ Start(q)
                             \/ Finish(q) \/ Remove(q) \/ Deliver(q)
      PROVE  /\ pod'[p] \in {"permitted", "running"} => g \in held'
             /\ pod'[p] = "running" => pg'[g].exists
  <2>0. GroupOf[q] \in Groups /\ held' = held
    BY <1>2, ConstantsAssumption DEF Admit, Store, Ungate, Start, Finish, Remove, Deliver
  <2>1. pg[g].exists => pg'[g].exists
    BY <1>0, <1>2, <2>0 DEF Admit, Store, Ungate, Start, Finish, Remove, Deliver, EnsurePodGroup,
       TypeOK, PodGroup
  <2>2. pod'[p] \in {"permitted", "running"} =>
          \/ pod'[p] = pod[p]
          \/ pod[p] = "permitted" /\ pg[g].exists
    BY <1>0, <1>2 DEF Admit, Store, Ungate, Start, Finish, Remove, Deliver, TypeOK
  <2>. QED BY <1>1, <2>0, <2>1, <2>2
<1>3. ASSUME NEW h \in Groups, Permit(h)
      PROVE  /\ pod'[p] \in {"permitted", "running"} => g \in held'
             /\ pod'[p] = "running" => pg'[g].exists
  BY <1>0, <1>1, <1>3 DEF Permit, TypeOK, Members
<1>4. ASSUME FreeGroup
      PROVE  /\ pod'[p] \in {"permitted", "running"} => g \in held'
             /\ pod'[p] = "running" => pg'[g].exists
  <2>1. pod' = pod /\ pg' = pg /\ held' = held \ {Head(deletions)}
    BY <1>4 DEF FreeGroup
  <2>2. Head(deletions) = g => AllOver(g)
    BY <1>0, <1>4 DEF FreeGroup, TypeOK, MembersInv, Ending
  <2>. QED BY <1>1, <2>1, <2>2 DEF AllOver, Over
<1>5. ASSUME NEW r \in Callers, DeletePodGroup(r) \/ DeleteScout(r)
      PROVE  /\ pod'[p] \in {"permitted", "running"} => g \in held'
             /\ pod'[p] = "running" => pg'[g].exists
  <2>1. pod' = pod /\ held' = held
    BY <1>5 DEF DeletePodGroup, DeleteScout
  <2>2. pg[g].exists /\ ~pg'[g].exists => AllOver(g)
    <3>1. CASE DeletePodGroup(r)
      BY <1>0, <3>1 DEF DeletePodGroup, DeleteByName, TypeOK, MembersInv, Ending
    <3>2. CASE DeleteScout(r)
      <4>1. rec[r].key \in Groups /\ ScoutGroup[rec[r].key] # NoGroup
        BY <1>0, <3>2 DEF DeleteScout, TypeOK, RecType
      <4>2. ScoutGroup[rec[r].key] # g
        BY <4>1 DEF ScoutGroups
      <4>. QED BY <1>0, <3>2, <4>2 DEF DeleteScout, DeleteByName, TypeOK
    <3>. QED BY <1>5, <3>1, <3>2
  <2>. QED BY <1>1, <2>1, <2>2 DEF AllOver, Over
<1>6. CASE UNCHANGED <<pod, pg, held>>
  BY <1>1, <1>6
<1>. QED
  BY <1>2, <1>3, <1>4, <1>5, <1>6 DEF Next, Reconcile, Age, Sweep, Miss, HandlePod, GetPodGroup,
     ListMembers, ReconcileError

\* What the two theorems ask of the jobs: the webhook's minCount is the gang's
\* size, and no pod is created under the name of a gang that is over.
WholeGangs ==
  /\ Successors = {}
  /\ \A g \in Groups \ ScoutGroups : MinCount[g] >= Cardinality(Members(g))

\* The strengthened invariant holds of every behaviour of such jobs.
LEMMA MembersNext ==
  ASSUME WholeGangs PROVE MembersInv /\ [Next]_vars => MembersInv'
<1>1. ASSUME MembersInv, Next PROVE MembersInv'
  <2>1. TypeOK' /\ CacheLags'
    BY <1>1, TypeNext, CacheStep DEF MembersInv
  <2>2. ASSUME NEW g \in Groups \ ScoutGroups
        PROVE  /\ Scheduled(g)' => AllCached(g)'
               /\ Ending(g)' => AllOver(g)'
               /\ \A p \in Members(g) :
                    /\ pod'[p] \in {"permitted", "running"} => g \in held'
                    /\ pod'[p] = "running" => pg'[g].exists
    BY <1>1, ScheduledStep, EndingStep, BackedStep DEF WholeGangs
  <2>. QED BY <2>1, <2>2 DEF MembersInv, Members
<1>2. ASSUME MembersInv, UNCHANGED vars PROVE MembersInv'
  BY <1>2, TypeNext DEF MembersInv, vars, CacheLags, Scheduled, Ending, AllCached, AllOver, Members
<1>. QED BY <1>1, <1>2

LEMMA MembersInit == Init => MembersInv
<1> SUFFICES ASSUME Init PROVE MembersInv
  OBVIOUS
<1>1. CacheLags
  BY DEF Init, CacheLags, Unborn
<1>2. ASSUME NEW g \in Groups PROVE ~Scheduled(g) /\ ~Ending(g)
  BY DEF Init, Scheduled, Ending, IdleRec, Members
<1>3. \A p \in Pods : pod[p] = "new"
  BY DEF Init
<1>. QED BY <1>1, <1>2, <1>3, TypeInit DEF MembersInv, Members

\* Where every gang waits for all its members and no later job takes its name, no
\* interleaving of handler, sweep, deletions and failing calls frees the
\* allocation of a running worker (reconcileGroup), however stale the cache.
THEOREM WorkersKeepTheirs ==
  ASSUME WholeGangs
  PROVE  Spec => []WorkersBacked
<1>1. MembersInv => WorkersBacked
  <2> SUFFICES ASSUME MembersInv, NEW p \in Pods, GroupOf[p] \notin ScoutGroups PROVE Backed(p)
    BY DEF WorkersBacked
  <2>1. GroupOf[p] \in Groups \ ScoutGroups /\ p \in Members(GroupOf[p])
    BY ConstantsAssumption DEF Members
  <2>. QED BY <2>1 DEF MembersInv, Backed
<1>. QED BY <1>1, MembersInit, MembersNext, PTL DEF Spec

\* Under the same conditions no PodGroup is deleted while a member is live
\* (rule 3 of reconcileGroup).
THEOREM MembersKeepTheirs ==
  ASSUME WholeGangs
  PROVE  Spec => LiveMemberKeepsGang
<1>1. ASSUME MembersInv, Next, NEW g \in Groups \ ScoutGroups, Reaped(g), NEW p \in Members(g)
      PROVE  pod[p] \notin Live
  <2>0. TypeOK
    BY <1>1 DEF MembersInv
  <2>1. PICK r \in Callers :
          \/ rec[r].pc = "delete" /\ g = rec[r].key
          \/ rec[r].pc = "scout" /\ g = ScoutGroup[rec[r].key]
    BY <1>1, <2>0, OwnershipStep
  <2>2. rec[r].pc = "delete" /\ g = rec[r].key
    <3>1. rec[r].pc = "scout" => rec[r].key \in Groups /\ ScoutGroup[rec[r].key] # NoGroup
      BY <2>0 DEF TypeOK, RecType
    <3>. QED BY <2>1, <3>1 DEF ScoutGroups
  <2>3. AllOver(g)
    BY <1>1, <2>2 DEF MembersInv, Ending
  <2>. QED BY <1>1, <2>3 DEF AllOver, Over, Live
<1>2. MembersInv /\ [Next]_vars
        => [\A g \in Groups \ ScoutGroups :
              Reaped(g) => \A p \in Members(g) : pod[p] \notin Live]_vars
  BY <1>1
<1>. QED BY <1>2, MembersInit, MembersNext, PTL DEF Spec, LiveMemberKeepsGang
=============================================================================
