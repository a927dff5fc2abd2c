--------------------- MODULE FluencePluginSafetyProofs ---------------------
(* FluencePlugin is type correct; NoForeignReference, MemoHeld and           *)
(* MemoAvoidsExcluded hold in every reachable state of it, for every value   *)
(* of its constants, the first two when the scheduler does not restart; and  *)
(* it implements GroupGrants when the scheduler does not restart.            *)
EXTENDS FluencePluginInvariants, FiniteSetTheorems, TLAPS

-----------------------------------------------------------------------------
(* Type correctness.                                                        *)

\* What the helpers of the model return has the type it is used at.
LEMMA NullTypes ==
  /\ FreeJob \in Alloc /\ NoMemo \in Placement
  /\ IdleCycle \in CycleType /\ NoBind \in BindType
  /\ IdleHandler \in HandlerType /\ NewOwner \in OwnerType
  /\ \A p \in Pods : NewPod(p) \in PodType
BY DEF FreeJob, Alloc, NoMemo, Placement, IdleCycle, CycleType, CyclePcs, NoBind, BindType,
       BindPcs, IdleHandler, HandlerType, NewOwner, OwnerType, NewPod, PodType, Phases

LEMMA UnwindType ==
  ASSUME TypeOK, cycle.pod \in Pods, NEW jobs \in SUBSET JobIds, Unwind(jobs)
  PROVE  cycle' \in CycleType /\ (cycle'.pc # "idle" => cycle'.pod \in Pods)
BY NullTypes DEF Unwind, IdleCycle, CycleType, CyclePcs, NoMemo, Placement

LEMMA MatchType ==
  ASSUME TypeOK, NEW g \in Groups, NEW S \in SUBSET Slots, NEW B \in SUBSET Backends,
         MatchAllocate(g, S, B)
  PROVE  /\ job' \in [JobIds -> Alloc]
         /\ nextJob' \in 1 .. MaxJobs + 1
         /\ nextJob \in JobIds
<1>1. nextJob \in JobIds /\ nextJob' \in 1 .. MaxJobs + 1
  BY ConstantsAssumption DEF TypeOK, MatchAllocate, JobIds
<1>2. [group |-> g, slots |-> S, backends |-> B] \in Alloc
  BY DEF Alloc
<1>. QED
  BY <1>1, <1>2 DEF TypeOK, MatchAllocate

LEMMA CancelType ==
  ASSUME TypeOK, NEW j \in JobIds, Cancel(j)
  PROVE  job' \in [JobIds -> Alloc]
BY NullTypes DEF TypeOK, Cancel

LEMMA FaultType == TypeOK /\ Fault => spent' \in SpentType
BY DEF TypeOK, Fault, SpentType

LEMMA SpendType ==
  ASSUME spent \in SpentType
  PROVE  /\ [spent EXCEPT !.restarts = @ + 1] \in SpentType
         /\ [spent EXCEPT !.recreates = @ + 1] \in SpentType
<1>1. spent.restarts + 1 \in Nat /\ spent.recreates + 1 \in Nat
  BY DEF SpentType
<1>. QED
  BY <1>1 DEF SpentType

LEMMA NotifyType ==
  ASSUME TypeOK, NEW w \in Informers, NEW g \in Groups, Notify(w, g)
  PROVE  events' \in [Informers -> Seq(EventType)]
<1>1. [key |-> g, jobs |-> owner[g].jobs] \in EventType
  BY DEF TypeOK, OwnerType, EventType
<1>2. Append(events[w], [key |-> g, jobs |-> owner[g].jobs]) \in Seq(EventType)
  BY <1>1 DEF TypeOK
<1>. QED
  BY <1>2 DEF TypeOK, Notify

LEMMA CycleGroupType == cycle.pod \in Pods => CycleGroup \in Groups
BY ConstantsAssumption DEF CycleGroup

LEMMA MemberTypes ==
  ASSUME TypeOK
  PROVE  /\ cycle.place \in Placement /\ cycle.place.jobs \subseteq JobIds
         /\ cycle.pod \in Pods \cup {NoPod} /\ cycle.node \in Nodes \cup {NoNode}
         /\ \A g \in Groups : memo[g] \in Placement /\ memo[g].jobs \subseteq JobIds
         /\ \A w \in Informers : handler[w].jobs \subseteq JobIds
BY DEF TypeOK, CycleType, Placement, HandlerType

-----------------------------------------------------------------------------
LEMMA TypeInit == Init => TypeOK
<1> SUFFICES ASSUME Init PROVE TypeOK
  OBVIOUS
<1>1. nextJob \in 1 .. MaxJobs + 1
  BY ConstantsAssumption DEF Init
<1>2. spent \in SpentType
  BY DEF Init, SpentType
<1>3. /\ events \in [Informers -> Seq(EventType)]
      /\ handler \in [Informers -> HandlerType]
      /\ \A w \in Informers : handler[w].busy => handler[w].key \in Groups
  BY NullTypes DEF Init, IdleHandler
<1>. QED
  BY <1>1, <1>2, <1>3, NullTypes DEF Init, TypeOK, IdleCycle

LEMMA CycleKeepsType == TypeOK /\ CycleStep => TypeOK'
<1> SUFFICES ASSUME TypeOK, CycleStep PROVE TypeOK'
  OBVIOUS
<1> USE MemberTypes
<1>0. cycle.pod \in Pods /\ CycleGroup \in Groups
  BY CycleGroupType DEF TypeOK, CycleStep, ListGroupPods, BuildJobspecs, MatchCompute, MatchDevice, MatchFails,
     CancelJobid, StorePlacement, FilterPass, FilterReject, PostFilter, Reserve, ReserveFails
<1>0a. CASE ListGroupPods
  <2>1. Cardinality(GroupPods(cycle.pod)) \in Nat
    <3>1. GroupPods(cycle.pod) \subseteq Pods
      BY <1>0 DEF GroupPods, Members
    <3>. QED BY <3>1, FS_Subset, FS_CardinalityType, ConstantsAssumption
  <2>2. cycle' \in CycleType /\ (cycle'.pc # "idle" => cycle'.pod \in Pods)
    <3>1. CASE cycle' = IdleCycle
      BY <3>1, NullTypes DEF IdleCycle
    <3>2. CASE cycle' # IdleCycle
      BY <1>0, <1>0a, <2>1, <3>2 DEF TypeOK, ListGroupPods, CycleType, CyclePcs, MatchPcs
    <3>. QED BY <3>1, <3>2
  <2>. QED BY <1>0a, <2>2 DEF TypeOK, ListGroupPods
<1>1. CASE BuildJobspecs
  <2>1. cycle' \in CycleType /\ cycle'.pod \in Pods
    <3>1. excluded[CycleGroup] \in SUBSET Nodes
      BY <1>0 DEF TypeOK
    <3>. QED BY <1>0, <1>1, <3>1 DEF TypeOK, BuildJobspecs, CycleType, CyclePcs, MatchPcs
  <2>. QED BY <1>1, <2>1 DEF TypeOK, BuildJobspecs
<1>2. CASE MatchCompute
  <2> PICK S \in SUBSET Eligible(cycle.excl) :
        /\ MatchAllocate(CycleGroup, S, {})
        /\ \/ ParseFails
           \/ /\ cycle' = [cycle EXCEPT !.pc = IF cycle.device THEN "device" ELSE "store",
                                                  !.place = OnSlots(S)]
              /\ UNCHANGED spent
    BY <1>2 DEF MatchCompute
  <2>1. S \in SUBSET Slots /\ {NodeOf[s] : s \in S} \in SUBSET Nodes
    BY ConstantsAssumption DEF Eligible, FreeSlots
  <2>2. job' \in [JobIds -> Alloc] /\ nextJob' \in 1 .. MaxJobs + 1 /\ Number \in JobIds
    BY <1>0, <2>1, MatchType DEF Number
  <2>3. /\ cycle' \in CycleType /\ (cycle'.pc # "idle" => cycle'.pod \in Pods)
        /\ spent' \in SpentType
    <3>1. CASE ParseFails
      <4>1. cycle.place.jobs \cup {Number} \in SUBSET JobIds
        BY <2>2
      <4>. QED BY <1>0, <3>1, <4>1, UnwindType, FaultType DEF ParseFails
    <3>2. CASE ~ParseFails
      <4>1. OnSlots(S) \in Placement
        BY <2>1, <2>2 DEF Placement, OnSlots
      <4>. QED BY <1>0, <3>2, <4>1 DEF TypeOK, CycleType, CyclePcs, MatchPcs
    <3>. QED BY <3>1, <3>2
  <2>. QED BY <1>2, <2>2, <2>3 DEF TypeOK, MatchCompute
<1>3. CASE MatchDevice
  <2> PICK b \in FreeBackends :
        /\ MatchAllocate(CycleGroup, {}, {b})
        /\ \/ ParseFails
           \/ /\ cycle' = [cycle EXCEPT !.pc = "store",
                                                  !.place = OnBackend(b)]
              /\ UNCHANGED spent
    BY <1>3 DEF MatchDevice
  <2>1. b \in Backends /\ {b} \in SUBSET Backends /\ {} \in SUBSET Slots
    BY DEF FreeBackends
  <2>2. job' \in [JobIds -> Alloc] /\ nextJob' \in 1 .. MaxJobs + 1 /\ Number \in JobIds
    BY <1>0, <2>1, MatchType DEF Number
  <2>3. /\ cycle' \in CycleType /\ (cycle'.pc # "idle" => cycle'.pod \in Pods)
        /\ spent' \in SpentType
    <3>1. CASE ParseFails
      <4>1. cycle.place.jobs \cup {Number} \in SUBSET JobIds
        BY <2>2
      <4>. QED BY <1>0, <3>1, <4>1, UnwindType, FaultType DEF ParseFails
    <3>2. CASE ~ParseFails
      <4>1. OnBackend(b) \in Placement
        BY <2>1, <2>2 DEF Placement, OnBackend
      <4>. QED BY <1>0, <3>2, <4>1 DEF TypeOK, CycleType, CyclePcs, MatchPcs
    <3>. QED BY <3>1, <3>2
  <2>. QED BY <1>3, <2>2, <2>3 DEF TypeOK, MatchDevice
<1>4. CASE MatchFails
  <2>1. cycle' \in CycleType /\ (cycle'.pc # "idle" => cycle'.pod \in Pods)
    BY <1>0, <1>4, UnwindType DEF MatchFails
  <2>. QED BY <1>4, <2>1 DEF TypeOK, MatchFails
<1>5. CASE CancelJobid
  <2> PICK j \in cycle.place.jobs : Cancel(j) /\ Unwind(cycle.place.jobs \ {j})
    BY <1>5 DEF CancelJobid
  <2>1. job' \in [JobIds -> Alloc]
    BY CancelType
  <2>2. cycle' \in CycleType /\ (cycle'.pc # "idle" => cycle'.pod \in Pods)
    BY <1>0, UnwindType
  <2>. QED BY <1>5, <2>1, <2>2 DEF TypeOK, CancelJobid
<1>6. CASE StorePlacement
  <2>1. memo' \in [Groups -> Placement]
    BY <1>0, <1>6 DEF TypeOK, StorePlacement
  <2>2. cycle' \in CycleType /\ cycle'.pod \in Pods
    BY <1>0, <1>6, NullTypes DEF StorePlacement, IdleCycle, CycleType, CyclePcs
  <2>. QED BY <1>6, <2>1, <2>2 DEF TypeOK, StorePlacement
<1>7. CASE FilterPass
  <2>1. Permitted(CycleGroup) \subseteq Nodes
    BY <1>0 DEF TypeOK, Permitted, Placement
  <2>2. cycle' \in CycleType /\ cycle'.pod \in Pods
    BY <1>0, <1>7, <2>1 DEF TypeOK, FilterPass, CycleType, CyclePcs
  <2>. QED BY <1>7, <2>2 DEF TypeOK, FilterPass
<1>8. CASE FilterReject
  <2>1. cycle' \in CycleType /\ cycle'.pod \in Pods
    BY <1>0, <1>8 DEF TypeOK, FilterReject, CycleType, CyclePcs
  <2>2. spent' \in SpentType
    BY <1>8 DEF TypeOK, FilterReject, SpentType
  <2>. QED BY <1>8, <2>1, <2>2 DEF TypeOK, FilterReject
<1>9. CASE PostFilter
  <2>1. excluded' \in [Groups -> SUBSET Nodes]
    BY <1>0, <1>9 DEF TypeOK, PostFilter, Incompatible, Placement
  <2>2. memo' \in [Groups -> Placement]
    BY <1>9, NullTypes DEF TypeOK, PostFilter
  <2>3. cycle' \in CycleType /\ (cycle'.pc # "idle" => cycle'.pod \in Pods)
    <3>1. memo[CycleGroup].jobs \in SUBSET JobIds
      BY <1>0
    <3>. QED BY <1>0, <1>9, <3>1, UnwindType DEF PostFilter
  <2>4. bind' \in [Pods -> BindType]
    BY <1>9, NullTypes DEF TypeOK, PostFilter, Unreserve
  <2>. QED BY <1>9, <2>1, <2>2, <2>3, <2>4 DEF TypeOK, PostFilter
<1>10. CASE Reserve
  <2>1. pod' \in [Pods -> PodType]
    <3>1. memo[GroupOf[cycle.pod]].backend \in Backends \cup {NoBackend}
      BY <1>0 DEF CycleGroup, Placement
    <3>. QED BY <1>0, <1>10, <3>1 DEF TypeOK, Reserve, StampBackend, PodType
  <2>2. bind' \in [Pods -> BindType]
    <3>1. [NoBind EXCEPT !.pc = "preflight", !.node = cycle.node] \in BindType
      BY DEF NoBind, BindType, BindPcs
    <3>. QED BY <1>10, <3>1 DEF TypeOK, Reserve
  <2>. QED BY <1>10, <2>1, <2>2, NullTypes DEF TypeOK, Reserve, IdleCycle
<1>11. CASE ReserveFails
  <2>1. spent' \in SpentType
    BY <1>11, FaultType DEF TypeOK, ReserveFails
  <2>. QED BY <1>11, <2>1, NullTypes DEF TypeOK, ReserveFails, IdleCycle
<1>. QED
  BY <1>0a, <1>1, <1>2, <1>3, <1>4, <1>5, <1>6, <1>7, <1>8, <1>9, <1>10, <1>11 DEF CycleStep

LEMMA PreFilterKeepsType ==
  ASSUME TypeOK, NEW p \in Pods, PreFilterCached(p) \/ PreFilterMiss(p)
  PROVE  TypeOK'
<1>1. cycle' \in CycleType /\ cycle'.pod \in Pods
  <2>1. CASE PreFilterCached(p)
    BY <2>1, NullTypes DEF PreFilterCached, IdleCycle, CycleType, CyclePcs
  <2>2. CASE PreFilterMiss(p)
    BY <2>2, NullTypes DEF PreFilterMiss, IdleCycle, CycleType, CyclePcs, MatchPcs
  <2>. QED BY <2>1, <2>2
<1>. QED BY <1>1 DEF TypeOK, PreFilterCached, PreFilterMiss

LEMMA BindKeepsType ==
  ASSUME TypeOK, NEW p \in Pods, BindStep(p) \/ PermitReject(p)
  PROVE  TypeOK'
<1> DEFINE g == GroupOf[p]
<1>0. /\ g \in Groups /\ memo[g] \in Placement
      /\ memo[g].backend \in Backends \cup {NoBackend} /\ memo[g].jobs \in SUBSET JobIds
      /\ bind[p] \in BindType /\ bind[p].jobs \in SUBSET JobIds
  BY ConstantsAssumption DEF TypeOK, Placement, BindType
<1>1. CASE PreBindPreFlight(p)
  <2>0. (memo[g].jobs = {}) \in BOOLEAN
    OBVIOUS
  <2>1. [bind[p] EXCEPT !.pc = "permit", !.skip = (memo[g].jobs = {})] \in BindType
    BY <1>0, <2>0 DEF BindType, BindPcs
  <2>2. bind' \in [Pods -> BindType]
    BY <1>1, <2>1 DEF TypeOK, PreBindPreFlight
  <2>. QED BY <1>1, <2>2 DEF TypeOK, PreBindPreFlight
<1>2. CASE PreBind(p)
  <2>1. bind' \in [Pods -> BindType]
    BY <1>0, <1>2 DEF TypeOK, PreBind, BindType, BindPcs
  <2>. QED BY <1>2, <2>1 DEF TypeOK, PreBind
<1>3. CASE RecordJobIDs(p)
  <2>1. bind' \in [Pods -> BindType]
    BY <1>3 DEF TypeOK, RecordJobIDs, BindType, BindPcs
  <2>2. owner' \in [Groups -> OwnerType]
    BY <1>0, <1>3 DEF TypeOK, RecordJobIDs, OwnerType
  <2>. QED BY <1>3, <2>1, <2>2 DEF TypeOK, RecordJobIDs
<1>4. CASE PreBindStamp(p)
  <2>1. bind' \in [Pods -> BindType]
    BY <1>4 DEF TypeOK, PreBindStamp, BindType, BindPcs
  <2>2. pod' \in [Pods -> PodType]
    BY <1>0, <1>4 DEF TypeOK, PreBindStamp, StampBackend, PodType
  <2>. QED BY <1>4, <2>1, <2>2 DEF TypeOK, PreBindStamp
<1>5. CASE PreBindFails(p) \/ PermitReject(p)
  <2>1. bind' \in [Pods -> BindType]
    BY <1>5, NullTypes DEF TypeOK, PreBindFails, PermitReject
  <2>2. spent' \in SpentType
    BY <1>5, FaultType DEF TypeOK, PreBindFails, PermitReject
  <2>. QED BY <1>5, <2>1, <2>2 DEF TypeOK, PreBindFails, PermitReject
<1>6. CASE Bind(p)
  <2>1. bind' \in [Pods -> BindType]
    BY <1>6, NullTypes DEF TypeOK, Bind
  <2>2. pod' \in [Pods -> PodType]
    <3>1. bind[p].node \in Nodes \cup {NoNode}
      BY <1>0 DEF BindType
    <3>. QED BY <1>6, <3>1 DEF TypeOK, Bind, PodType, Phases
  <2>. QED BY <1>6, <2>1, <2>2 DEF TypeOK, Bind
<1>. QED
  BY <1>1, <1>2, <1>3, <1>4, <1>5, <1>6 DEF BindStep

LEMMA PermitKeepsType ==
  ASSUME TypeOK, NEW g \in Groups, PermitAllow(g)
  PROVE  TypeOK'
<1>1. bind' \in [Pods -> BindType]
  BY DEF TypeOK, PermitAllow, BindType, BindPcs
<1>. QED BY <1>1 DEF TypeOK, PermitAllow

LEMMA CancelGroupKeepsType ==
  ASSUME TypeOK, NEW w \in Informers, CancelGroup(w)
  PROVE  TypeOK'
<1>1. CASE CancelGroupRead(w)
  <2>1. events' \in [Informers -> Seq(EventType)]
    BY <1>1 DEF TypeOK, CancelGroupRead
  <2>2. Head(events[w]) \in EventType
    BY <1>1 DEF TypeOK, CancelGroupRead
  <2>3. /\ handler' \in [Informers -> HandlerType]
        /\ \A v \in Informers : handler'[v].busy => handler'[v].key \in Groups
    BY <1>1, <2>2 DEF TypeOK, CancelGroupRead, HandlerType, EventType, Placement
  <2>. QED BY <1>1, <2>1, <2>3 DEF TypeOK, CancelGroupRead
<1>2. CASE CancelGroupCancel(w)
  <2> PICK j \in handler[w].jobs :
        Cancel(j) /\ handler' = [handler EXCEPT ![w].jobs = @ \ {j}]
    BY <1>2 DEF CancelGroupCancel
  <2>1. job' \in [JobIds -> Alloc]
    BY MemberTypes, CancelType
  <2>2. /\ handler' \in [Informers -> HandlerType]
        /\ \A v \in Informers : handler'[v].busy => handler'[v].key \in Groups
    BY DEF TypeOK, HandlerType
  <2>. QED BY <1>2, <2>1, <2>2 DEF TypeOK, CancelGroupCancel
<1>3. CASE CancelGroupDrop(w)
  <2>1. memo' \in [Groups -> Placement] /\ excluded' \in [Groups -> SUBSET Nodes]
    BY <1>3, NullTypes DEF TypeOK, CancelGroupDrop
  <2>2. /\ handler' \in [Informers -> HandlerType]
        /\ \A v \in Informers : handler'[v].busy => handler'[v].key \in Groups
    BY <1>3, NullTypes DEF TypeOK, CancelGroupDrop, IdleHandler
  <2>. QED BY <1>3, <2>1, <2>2 DEF TypeOK, CancelGroupDrop
<1>. QED
  BY <1>1, <1>2, <1>3 DEF CancelGroup

LEMMA PodEventsKeepType ==
  ASSUME TypeOK, NEW p \in Pods, Ungate(p) \/ Finish(p) \/ DeletePod(p)
  PROVE  TypeOK'
<1>0. GroupOf[p] \in Groups
  BY ConstantsAssumption
<1>1. pod' \in [Pods -> PodType]
  <2>1. CASE Ungate(p)
    BY <2>1 DEF TypeOK, Ungate, PodType, Phases
  <2>2. CASE Finish(p)
    BY <2>2 DEF TypeOK, Finish, PodType, Phases
  <2>3. CASE DeletePod(p)
    BY <2>3 DEF TypeOK, DeletePod, PodType, Phases
  <2>. QED BY <2>1, <2>2, <2>3
<1>2. events' \in [Informers -> Seq(EventType)]
  <2>1. "pod" \in Informers
    BY DEF Informers
  <2>2. UNCHANGED events \/ Notify("pod", GroupOf[p])
    BY DEF Ungate, Finish, DeletePod
  <2>. QED BY <1>0, <2>1, <2>2, NotifyType DEF TypeOK
<1>3. owner' \in [Groups -> OwnerType]
  <2>1. [exists |-> FALSE, jobs |-> {}] \in OwnerType
    BY DEF OwnerType
  <2>. QED BY <2>1 DEF TypeOK, Ungate, Finish, DeletePod
<1>. QED
  BY <1>1, <1>2, <1>3 DEF TypeOK, Ungate, Finish, DeletePod

LEMMA OwnerEventsKeepType ==
  ASSUME TypeOK, NEW g \in Groups, RemovePodGroup(g) \/ Recreate(g)
  PROVE  TypeOK'
<1>1. CASE RemovePodGroup(g)
  <2>1. owner' \in [Groups -> OwnerType]
    BY <1>1 DEF TypeOK, RemovePodGroup, OwnerType
  <2>2. events' \in [Informers -> Seq(EventType)]
    BY <1>1, NotifyType DEF RemovePodGroup, Informers
  <2>. QED BY <1>1, <2>1, <2>2 DEF TypeOK, RemovePodGroup
<1>2. CASE Recreate(g)
  <2>1. owner' \in [Groups -> OwnerType] /\ pod' \in [Pods -> PodType]
    BY <1>2, NullTypes DEF TypeOK, Recreate
  <2>2. spent' \in SpentType
    BY <1>2, SpendType DEF TypeOK, Recreate
  <2>. QED BY <1>2, <2>1, <2>2 DEF TypeOK, Recreate
<1>. QED
  BY <1>1, <1>2

LEMMA RestartKeepsType == TypeOK /\ Restart => TypeOK'
<1> SUFFICES ASSUME TypeOK, Restart PROVE TypeOK'
  OBVIOUS
<1>1. nextJob' \in 1 .. MaxJobs + 1
  BY ConstantsAssumption DEF Restart
<1>2. spent' \in SpentType
  BY SpendType DEF TypeOK, Restart
<1>3. /\ events' \in [Informers -> Seq(EventType)]
      /\ handler' \in [Informers -> HandlerType]
      /\ \A w \in Informers : handler'[w].busy => handler'[w].key \in Groups
  BY NullTypes DEF Restart, IdleHandler
<1>. QED
  BY <1>1, <1>2, <1>3, NullTypes DEF Restart, TypeOK, IdleCycle

LEMMA TypeNext == TypeOK /\ [Next]_vars => TypeOK'
<1> SUFFICES ASSUME TypeOK, [Next]_vars PROVE TypeOK'
  OBVIOUS
<1>1. ASSUME NEW g \in Groups,
             ReconcileGroup(g) \/ UserDeletesPodGroup(g) \/ Recreate(g)
      PROVE  TypeOK'
  BY <1>1, OwnerEventsKeepType DEF ReconcileGroup, UserDeletesPodGroup
<1>2. CASE UNCHANGED vars
  BY <1>2 DEF TypeOK, vars
<1>. QED
  BY <1>1, <1>2, PreFilterKeepsType, CycleKeepsType, BindKeepsType, PermitKeepsType,
     CancelGroupKeepsType, PodEventsKeepType, RestartKeepsType DEF Next

\* The plugin's state is well typed in every reachable state, restarts and
\* faults included (the state kept by New and its goroutines).
THEOREM TypeCorrect == Spec => []TypeOK
BY TypeInit, TypeNext, PTL DEF Spec

-----------------------------------------------------------------------------
(* Exclusions.                                                              *)

LEMMA ExclusionInit == Init => ExclusionInv
<1> SUFFICES ASSUME Init PROVE ExclusionInv
  OBVIOUS
<1>1. TypeOK
  BY TypeInit
<1>2. MemoAvoidsExcluded
  BY DEF Init, MemoAvoidsExcluded, NoMemo
<1>3. MatchAvoidsExcluded
  BY DEF Init, MatchAvoidsExcluded, IdleCycle
<1>. QED
  BY <1>1, <1>2, <1>3 DEF ExclusionInv

\* A step outside the scheduling cycle changes exclusions and placements only
\* by clearing both of one group.
LEMMA ExclusionFrame ==
  ASSUME ExclusionInv, UNCHANGED cycle,
         \A g \in Groups : excluded'[g] = excluded[g] \/ excluded'[g] = {},
         \A g \in Groups : memo'[g] = memo[g] \/ memo'[g] = NoMemo
  PROVE  MemoAvoidsExcluded' /\ MatchAvoidsExcluded'
<1>1. MemoAvoidsExcluded'
  BY DEF ExclusionInv, MemoAvoidsExcluded, NoMemo
<1>2. MatchAvoidsExcluded'
  <2>1. CASE cycle.pc \in {"compute", "device", "store"}
    <3>1. CycleGroup \in Groups
      BY <2>1, CycleGroupType DEF ExclusionInv, TypeOK
    <3>2. excluded'[CycleGroup] \subseteq excluded[CycleGroup]
      BY <3>1
    <3>. QED BY <2>1, <3>2 DEF ExclusionInv, MatchAvoidsExcluded, CycleGroup
  <2>2. CASE cycle.pc \notin {"compute", "device", "store"}
    BY <2>2 DEF MatchAvoidsExcluded
  <2>. QED BY <2>1, <2>2
<1>. QED
  BY <1>1, <1>2

\* A step of the scheduling cycle that ends outside a match, and clears at
\* most the placement.
LEMMA ExclusionOutside ==
  ASSUME ExclusionInv, cycle'.pc \notin {"compute", "device", "store"},
         UNCHANGED <<memo, excluded>>
  PROVE  MemoAvoidsExcluded' /\ MatchAvoidsExcluded'
BY DEF ExclusionInv, MemoAvoidsExcluded, MatchAvoidsExcluded

LEMMA UnwindEnds ==
  ASSUME NEW jobs, Unwind(jobs)
  PROVE  cycle'.pc \in {"idle", "cancel"}
BY DEF Unwind, IdleCycle

LEMMA ExclusionCycle ==
  ASSUME ExclusionInv, CycleStep
  PROVE  MemoAvoidsExcluded' /\ MatchAvoidsExcluded'
<1>0. /\ TypeOK /\ cycle \in CycleType /\ cycle.place \in Placement
      /\ MemoAvoidsExcluded /\ MatchAvoidsExcluded
  BY MemberTypes DEF ExclusionInv, TypeOK
<1>0a. CASE ListGroupPods
  <2>1. cycle'.pc \in {"idle", "specs"}
    BY <1>0, <1>0a DEF ListGroupPods, IdleCycle, CycleType
  <2>. QED BY <1>0a, <2>1, ExclusionOutside DEF ListGroupPods
<1>1. CASE BuildJobspecs
  <2>1. cycle'.pc = "compute" /\ cycle'.pod = cycle.pod /\ cycle'.excl = excluded[CycleGroup]
    BY <1>0, <1>1 DEF BuildJobspecs, CycleType
  <2>2. UNCHANGED <<memo, excluded>>
    BY <1>1 DEF BuildJobspecs
  <2>. QED BY <1>0, <2>1, <2>2 DEF MemoAvoidsExcluded, MatchAvoidsExcluded, CycleGroup
<1>2. CASE MatchCompute
  <2> PICK S \in SUBSET Eligible(cycle.excl) :
        \/ ParseFails
        \/ cycle' = [cycle EXCEPT !.pc = IF cycle.device THEN "device" ELSE "store",
                                  !.place = OnSlots(S)]
    BY <1>2 DEF MatchCompute
  <2>0. cycle.pc = "compute" /\ UNCHANGED <<memo, excluded>>
    BY <1>2 DEF MatchCompute
  <2>1. CASE ParseFails
    BY <2>0, <2>1, ExclusionOutside, UnwindEnds DEF ParseFails
  <2>2. CASE ~ParseFails
    <3>1. /\ cycle'.pod = cycle.pod /\ cycle'.excl = cycle.excl
          /\ cycle'.place = OnSlots(S)
      BY <1>0, <2>2 DEF CycleType
    <3>2. OnSlots(S).nodes = {NodeOf[s] : s \in S}
      BY <1>0 DEF OnSlots, Placement
    <3>3. {NodeOf[s] : s \in S} \cap cycle.excl = {}
      BY DEF Eligible
    <3>. QED BY <1>0, <2>0, <3>1, <3>2, <3>3 DEF MemoAvoidsExcluded, MatchAvoidsExcluded, CycleGroup
  <2>. QED BY <2>1, <2>2
<1>3. CASE MatchDevice
  <2> PICK b \in FreeBackends :
        \/ ParseFails
        \/ cycle' = [cycle EXCEPT !.pc = "store", !.place = OnBackend(b)]
    BY <1>3 DEF MatchDevice
  <2>0. cycle.pc = "device" /\ UNCHANGED <<memo, excluded>>
    BY <1>3 DEF MatchDevice
  <2>1. CASE ParseFails
    BY <2>0, <2>1, ExclusionOutside, UnwindEnds DEF ParseFails
  <2>2. CASE ~ParseFails
    <3>1. /\ cycle'.pod = cycle.pod /\ cycle'.excl = cycle.excl
          /\ cycle'.place = OnBackend(b)
      BY <1>0, <2>2 DEF CycleType
    <3>2. OnBackend(b).nodes = cycle.place.nodes
      BY <1>0 DEF OnBackend, Placement
    <3>. QED BY <1>0, <2>0, <3>1, <3>2 DEF MemoAvoidsExcluded, MatchAvoidsExcluded, CycleGroup
  <2>. QED BY <2>1, <2>2
<1>4. CASE MatchFails
  BY <1>4, UnwindEnds, ExclusionOutside DEF MatchFails
<1>5. CASE CancelJobid
  BY <1>5, UnwindEnds, ExclusionOutside DEF CancelJobid
<1>6. CASE StorePlacement
  <2>1. /\ cycle'.pc = "filter" /\ UNCHANGED excluded
        /\ memo' = [memo EXCEPT ![CycleGroup] = cycle.place]
    BY <1>6 DEF StorePlacement, IdleCycle
  <2>2. cycle.place.nodes \cap excluded[CycleGroup] = {}
    BY <1>0, <1>6 DEF StorePlacement, MatchAvoidsExcluded
  <2>. QED BY <1>0, <2>1, <2>2 DEF TypeOK, MemoAvoidsExcluded, MatchAvoidsExcluded
<1>7. CASE FilterPass
  <2>1. cycle'.pc = "reserve"
    BY <1>0, <1>7 DEF FilterPass, CycleType
  <2>. QED BY <1>7, <2>1, ExclusionOutside DEF FilterPass
<1>8. CASE FilterReject
  <2>1. cycle'.pc = "postfilter"
    BY <1>0, <1>8 DEF FilterReject, CycleType
  <2>. QED BY <1>8, <2>1, ExclusionOutside DEF FilterReject
<1>9. CASE PostFilter
  <2>1. cycle'.pc \in {"idle", "cancel"}
    BY <1>9, UnwindEnds DEF PostFilter
  <2>2. /\ memo' = [memo EXCEPT ![CycleGroup] = NoMemo]
        /\ \A h \in Groups : h # CycleGroup => excluded'[h] = excluded[h]
    BY <1>0, <1>9 DEF TypeOK, PostFilter
  <2>3. MemoAvoidsExcluded'
    BY <1>0, <2>2 DEF TypeOK, MemoAvoidsExcluded, NoMemo
  <2>. QED BY <2>1, <2>3 DEF MatchAvoidsExcluded
<1>10. CASE Reserve \/ ReserveFails
  <2>1. cycle' = IdleCycle /\ UNCHANGED <<memo, excluded>>
    BY <1>10 DEF Reserve, ReserveFails
  <2>. QED BY <2>1, ExclusionOutside DEF IdleCycle
<1>. QED
  BY <1>0a, <1>1, <1>2, <1>3, <1>4, <1>5, <1>6, <1>7, <1>8, <1>9, <1>10 DEF CycleStep

LEMMA ExclusionNext == ExclusionInv /\ [Next]_vars => ExclusionInv'
<1> SUFFICES ASSUME ExclusionInv, [Next]_vars
             PROVE  MemoAvoidsExcluded' /\ MatchAvoidsExcluded'
  BY TypeNext DEF ExclusionInv
<1>1. ASSUME NEW p \in Pods, PreFilterCached(p) \/ PreFilterMiss(p)
      PROVE  MemoAvoidsExcluded' /\ MatchAvoidsExcluded'
  <2>1. cycle'.pc \in {"filter", "pods"} /\ UNCHANGED <<memo, excluded>>
    BY <1>1 DEF PreFilterCached, PreFilterMiss, IdleCycle
  <2>. QED BY <2>1, ExclusionOutside
<1>2. CASE CycleStep
  BY <1>2, ExclusionCycle
<1>3. ASSUME NEW p \in Pods, BindStep(p) \/ PermitReject(p) \/ Ungate(p) \/ Finish(p) \/ DeletePod(p)
      PROVE  MemoAvoidsExcluded' /\ MatchAvoidsExcluded'
  <2>1. UNCHANGED <<cycle, memo, excluded>>
    BY <1>3 DEF BindStep, PreBindPreFlight, PreBind, RecordJobIDs, PreBindStamp, PreBindFails,
                Bind, PermitReject, Ungate, Finish, DeletePod
  <2>. QED BY <2>1, ExclusionFrame
<1>4. ASSUME NEW g \in Groups,
             PermitAllow(g) \/ ReconcileGroup(g) \/ UserDeletesPodGroup(g) \/ Recreate(g)
      PROVE  MemoAvoidsExcluded' /\ MatchAvoidsExcluded'
  <2>1. UNCHANGED <<cycle, memo, excluded>>
    BY <1>4 DEF PermitAllow, ReconcileGroup, UserDeletesPodGroup, RemovePodGroup, Recreate
  <2>. QED BY <2>1, ExclusionFrame
<1>5. ASSUME NEW w \in Informers, CancelGroup(w)
      PROVE  MemoAvoidsExcluded' /\ MatchAvoidsExcluded'
  <2>1. /\ UNCHANGED cycle
        /\ \A g \in Groups : excluded'[g] = excluded[g] \/ excluded'[g] = {}
        /\ \A g \in Groups : memo'[g] = memo[g] \/ memo'[g] = NoMemo
    BY <1>5 DEF ExclusionInv, TypeOK, CancelGroup, CancelGroupRead, CancelGroupCancel, CancelGroupDrop
  <2>. QED BY <2>1, ExclusionFrame
<1>6. CASE Restart
  <2>1. cycle'.pc = "idle"
    BY <1>6 DEF Restart, IdleCycle
  <2>2. MemoAvoidsExcluded'
    BY <1>6 DEF Restart, MemoAvoidsExcluded, NoMemo
  <2>. QED BY <2>1, <2>2 DEF MatchAvoidsExcluded
<1>7. CASE UNCHANGED vars
  <2>1. UNCHANGED <<cycle, memo, excluded>>
    BY <1>7 DEF vars
  <2>. QED BY <2>1, ExclusionFrame
<1>. QED
  BY <1>1, <1>2, <1>3, <1>4, <1>5, <1>6, <1>7 DEF Next

\* The re-match after PostFilter is never given a node its group excludes,
\* however teardowns, restarts and other groups' matches interleave with it.
THEOREM ExclusionsRespected == Spec => []MemoAvoidsExcluded
<1>1. Spec => []ExclusionInv
  BY ExclusionInit, ExclusionNext, PTL DEF Spec
<1>2. ExclusionInv => MemoAvoidsExcluded
  BY DEF ExclusionInv
<1>. QED
  BY <1>1, <1>2, PTL

-----------------------------------------------------------------------------
(* References. What a step other than Restart can do to records, to the     *)
(* jobids in hand, to allocations and to placements.                        *)

\* The match in flight, of group g, is given jobid j by this step.
Issued(g, j) ==
  /\ cycle.pc \in {"compute", "device"} /\ CycleGroup = g
  /\ j = nextJob /\ nextJob' = nextJob + 1
  /\ job'[j].group = g

\* A cancelGroup, or the rollback in flight, cancels jobid j by this step.
TornDown(j) ==
  /\ \E w \in Informers : handler[w].busy /\ j \in handler[w].jobs
  /\ job'[j] = FreeJob
RolledBack(j) ==
  /\ cycle.pc = "cancel" /\ j \in cycle.place.jobs /\ cycle'.pc \in {"idle", "cancel"}
  /\ job'[j] = FreeJob

PluginStep == [Next]_vars /\ ~Restart

\* Records are only copied, dropped, or made by StorePlacement.
LEMMA RecordsStep ==
  ASSUME TypeOK, PluginStep, NEW g \in Groups, NEW j \in JobIds, Records(g, j)'
  PROVE  Records(g, j) \/ (StorePlacement /\ InHand(g, j))
<1>1. ASSUME UNCHANGED <<memo, owner, bind, events, handler>>
      PROVE  Records(g, j)
  BY <1>1 DEF Records
<1>2. ASSUME \A h \in Groups : memo'[h].jobs \subseteq memo[h].jobs,
             \A h \in Groups : owner'[h].jobs \subseteq owner[h].jobs,
             \A p \in Pods : bind'[p].jobs \subseteq bind[p].jobs,
             UNCHANGED <<events, handler>>
      PROVE  Records(g, j)
  BY <1>2 DEF Records, Members
<1>3. CASE StorePlacement
  <2>1. /\ memo' = [memo EXCEPT ![CycleGroup] = cycle.place]
        /\ UNCHANGED <<owner, bind, events, handler>>
        /\ cycle.pc # "idle"
    BY <1>3 DEF StorePlacement
  <2>. QED BY <1>3, <2>1 DEF TypeOK, Records, InHand
<1>4. CASE PostFilter
  <2>1. \A h \in Groups : memo'[h].jobs \subseteq memo[h].jobs
    BY <1>4 DEF TypeOK, PostFilter, NoMemo
  <2>2. \A p \in Pods : bind'[p].jobs \subseteq bind[p].jobs
    BY <1>4 DEF PostFilter, Unreserve, NoBind
  <2>3. UNCHANGED <<owner, events, handler>>
    BY <1>4 DEF PostFilter
  <2>. QED BY <1>2, <2>1, <2>2, <2>3
<1>5. CASE CycleStep
  <2>1. CASE Reserve
    <3>1. \A p \in Pods : bind'[p].jobs \subseteq bind[p].jobs
      BY <2>1 DEF TypeOK, Reserve, NoBind
    <3>2. UNCHANGED <<memo, owner, events, handler>>
      BY <2>1 DEF Reserve
    <3>. QED BY <1>2, <3>1, <3>2
  <2>2. CASE ListGroupPods \/ BuildJobspecs \/ MatchCompute \/ MatchDevice \/ MatchFails \/ CancelJobid
             \/ FilterPass \/ FilterReject \/ ReserveFails
    BY <1>1, <2>2 DEF ListGroupPods, BuildJobspecs, MatchCompute, MatchDevice, MatchFails, CancelJobid,
                      FilterPass, FilterReject, ReserveFails
  <2>. QED BY <1>3, <1>4, <1>5, <2>1, <2>2 DEF CycleStep
<1>6. ASSUME NEW p \in Pods, BindStep(p) \/ PermitReject(p)
      PROVE  Records(g, j)
  <2>1. CASE PreBind(p)
    <3>1. /\ UNCHANGED <<memo, owner, events, handler>>
          /\ \A q \in Pods : bind'[q].jobs = IF q = p THEN memo[GroupOf[p]].jobs ELSE bind[q].jobs
      BY <2>1 DEF TypeOK, PreBind, BindType
    <3>. QED BY <3>1 DEF Records, Members
  <2>2. CASE RecordJobIDs(p)
    <3>1. /\ UNCHANGED <<memo, events, handler>>
          /\ \A q \in Pods : bind'[q].jobs \subseteq bind[q].jobs
          /\ \A h \in Groups : owner'[h].jobs =
               IF h = GroupOf[p] THEN bind[p].jobs ELSE owner[h].jobs
      BY <2>2 DEF TypeOK, RecordJobIDs, BindType, OwnerType
    <3>. QED BY <3>1 DEF Records, Members
  <2>3. CASE PreBindPreFlight(p) \/ PreBindStamp(p)
    <3>1. \A q \in Pods : bind'[q].jobs \subseteq bind[q].jobs
      <4>1. CASE PreBindStamp(p)
        BY <4>1 DEF TypeOK, PreBindStamp, BindType
      <4>2. CASE PreBindPreFlight(p)
        <5>1. PICK skip : bind' = [bind EXCEPT ![p].pc = "permit", ![p].skip = skip]
          BY <4>2 DEF PreBindPreFlight
        <5>. QED BY <5>1 DEF TypeOK, BindType
      <4>. QED BY <2>3, <4>1, <4>2
    <3>2. UNCHANGED <<memo, owner, events, handler>>
      BY <2>3 DEF PreBindPreFlight, PreBindStamp
    <3>. QED BY <1>2, <3>1, <3>2
  <2>4. CASE PreBindFails(p) \/ Bind(p) \/ PermitReject(p)
    <3>1. \A q \in Pods : bind'[q].jobs \subseteq bind[q].jobs
      BY <2>4 DEF TypeOK, PreBindFails, Bind, PermitReject, NoBind
    <3>2. UNCHANGED <<memo, owner, events, handler>>
      BY <2>4 DEF PreBindFails, Bind, PermitReject
    <3>. QED BY <1>2, <3>1, <3>2
  <2>. QED BY <1>6, <2>1, <2>2, <2>3, <2>4 DEF BindStep
<1>7. ASSUME NEW h \in Groups, PermitAllow(h)
      PROVE  Records(g, j)
  <2>1. \A q \in Pods : bind'[q].jobs \subseteq bind[q].jobs
    BY <1>7 DEF TypeOK, PermitAllow, BindType
  <2>2. UNCHANGED <<memo, owner, events, handler>>
    BY <1>7 DEF PermitAllow
  <2>. QED BY <1>2, <2>1, <2>2
<1>8. ASSUME NEW w \in Informers, CancelGroup(w)
      PROVE  Records(g, j)
  <2>1. CASE CancelGroupRead(w)
    <3>1. UNCHANGED <<memo, owner, bind>> /\ events[w] # <<>>
      BY <2>1 DEF CancelGroupRead
    <3>2. \A v \in Informers : \A i \in DOMAIN events'[v] :
            \E k \in DOMAIN events[v] : events'[v][i] = events[v][k]
      BY <2>1 DEF TypeOK, CancelGroupRead
    <3>3. \A v \in Informers : handler'[v].key = g /\ j \in handler'[v].jobs =>
            \/ handler[v].key = g /\ j \in handler[v].jobs
            \/ /\ v = w /\ Head(events[w]).key = g
               /\ j \in Head(events[w]).jobs \/ j \in memo[g].jobs
      BY <2>1 DEF TypeOK, CancelGroupRead
    <3>4. 1 \in DOMAIN events[w] /\ Head(events[w]) = events[w][1]
      BY <3>1 DEF TypeOK
    <3>. QED BY <3>1, <3>2, <3>3, <3>4 DEF Records
  <2>2. CASE CancelGroupCancel(w) \/ CancelGroupDrop(w)
    <3>1. /\ UNCHANGED <<owner, bind, events>>
          /\ \A h \in Groups : memo'[h].jobs \subseteq memo[h].jobs
      BY <2>2 DEF TypeOK, CancelGroupCancel, CancelGroupDrop, NoMemo
    <3>2. \A v \in Informers : \/ handler'[v].jobs = {}
                               \/ /\ handler'[v].key = handler[v].key
                                  /\ handler'[v].jobs \subseteq handler[v].jobs
      <4>1. CASE CancelGroupCancel(w)
        <5>1. PICK k : handler' = [handler EXCEPT ![w].jobs = @ \ {k}]
          BY <4>1 DEF CancelGroupCancel
        <5>. QED BY <5>1 DEF TypeOK, HandlerType
      <4>2. CASE CancelGroupDrop(w)
        BY <4>2 DEF TypeOK, CancelGroupDrop, IdleHandler
      <4>. QED BY <2>2, <4>1, <4>2
    <3>. QED BY <3>1, <3>2 DEF Records
  <2>. QED BY <1>8, <2>1, <2>2 DEF CancelGroup
<1>9. ASSUME NEW w \in Informers, NEW h \in Groups, Notify(w, h),
             \A k \in Groups : owner'[k].jobs \subseteq owner[k].jobs,
             UNCHANGED <<memo, bind, handler>>
      PROVE  Records(g, j)
  <2>1. \A v \in Informers : \A i \in DOMAIN events'[v] :
          \/ i \in DOMAIN events[v] /\ events'[v][i] = events[v][i]
          \/ events'[v][i] = [key |-> h, jobs |-> owner[h].jobs]
    BY <1>9 DEF TypeOK, Notify
  <2>. QED BY <1>9, <2>1 DEF Records
<1>10. ASSUME NEW p \in Pods, Ungate(p) \/ Finish(p) \/ DeletePod(p)
       PROVE  Records(g, j)
  <2>1. UNCHANGED <<memo, bind, handler>> /\ GroupOf[p] \in Groups
    BY <1>10, ConstantsAssumption DEF Ungate, Finish, DeletePod
  <2>2. UNCHANGED <<events, owner>> \/ Notify("pod", GroupOf[p])
    BY <1>10 DEF Ungate, Finish, DeletePod
  <2>3. \A h \in Groups : owner'[h].jobs \subseteq owner[h].jobs
    <3>1. \/ UNCHANGED owner
          \/ owner' = [owner EXCEPT ![GroupOf[p]] = [exists |-> FALSE, jobs |-> {}]]
      BY <1>10 DEF Ungate, Finish, DeletePod
    <3>. QED BY <3>1 DEF TypeOK
  <2>4. "pod" \in Informers
    BY DEF Informers
  <2>5. CASE UNCHANGED <<events, owner>>
    BY <1>1, <2>1, <2>5
  <2>6. CASE Notify("pod", GroupOf[p])
    BY <1>9, <2>1, <2>3, <2>4, <2>6
  <2>. QED BY <2>2, <2>5, <2>6
<1>11. ASSUME NEW h \in Groups,
              ReconcileGroup(h) \/ UserDeletesPodGroup(h) \/ Recreate(h)
       PROVE  Records(g, j)
  <2>1. UNCHANGED <<memo, bind, handler>>
    BY <1>11 DEF ReconcileGroup, UserDeletesPodGroup, RemovePodGroup, Recreate
  <2>2. UNCHANGED events \/ Notify("podgroup", h)
    BY <1>11 DEF ReconcileGroup, UserDeletesPodGroup, RemovePodGroup, Recreate
  <2>3. \A k \in Groups : owner'[k].jobs \subseteq owner[k].jobs
    <3>1. PICK e : owner' = [owner EXCEPT ![h] = [exists |-> e, jobs |-> {}]]
      BY <1>11 DEF ReconcileGroup, UserDeletesPodGroup, RemovePodGroup, Recreate, NewOwner
    <3>. QED BY <3>1 DEF TypeOK
  <2>4. "podgroup" \in Informers
    BY DEF Informers
  <2>5. CASE UNCHANGED events
    BY <1>2, <2>1, <2>3, <2>5
  <2>6. CASE Notify("podgroup", h)
    BY <1>9, <2>1, <2>3, <2>4, <2>6
  <2>. QED BY <2>2, <2>5, <2>6
<1>12. CASE UNCHANGED vars
  BY <1>1, <1>12 DEF vars
<1>13. ASSUME NEW p \in Pods, PreFilterCached(p) \/ PreFilterMiss(p)
       PROVE  Records(g, j)
  BY <1>1, <1>13 DEF PreFilterCached, PreFilterMiss
<1>. QED
  BY <1>3, <1>5, <1>6, <1>7, <1>8, <1>10, <1>11, <1>12, <1>13 DEF PluginStep, Next

\* Steps outside the scheduling goroutine leave its locals and Fluxion's
\* numbering alone, cancel only what a cancelGroup has in hand, and drop a
\* placement no later than the cancelGroup that is over.
OutsideEffect ==
  /\ UNCHANGED <<cycle, nextJob>>
  /\ \A g \in Groups : memo'[g] = memo[g] \/ memo'[g] = NoMemo
  /\ \A g \in Groups : Cancelling(g) => Cancelling(g)' \/ memo'[g] = NoMemo
  /\ \A j \in JobIds : job'[j] = job[j] \/ TornDown(j)

LEMMA OutsideStep ==
  ASSUME TypeOK, PluginStep, ~CycleStep,
         \A p \in Pods : ~PreFilterCached(p) /\ ~PreFilterMiss(p)
  PROVE  OutsideEffect
<1>1. ASSUME UNCHANGED <<cycle, nextJob, memo, job, handler>>
      PROVE  OutsideEffect
  BY <1>1 DEF OutsideEffect, Cancelling
<1>2. ASSUME NEW p \in Pods, BindStep(p) \/ PermitReject(p) \/ Ungate(p) \/ Finish(p) \/ DeletePod(p)
      PROVE  OutsideEffect
  <2>1. UNCHANGED <<cycle, nextJob, memo, job, handler>>
    BY <1>2 DEF BindStep, PreBindPreFlight, PreBind, RecordJobIDs, PreBindStamp, PreBindFails,
                Bind, PermitReject, Ungate, Finish, DeletePod
  <2>. QED BY <1>1, <2>1
<1>3. ASSUME NEW g \in Groups,
             PermitAllow(g) \/ ReconcileGroup(g) \/ UserDeletesPodGroup(g) \/ Recreate(g)
      PROVE  OutsideEffect
  <2>1. UNCHANGED <<cycle, nextJob, memo, job, handler>>
    BY <1>3 DEF PermitAllow, ReconcileGroup, UserDeletesPodGroup, RemovePodGroup, Recreate
  <2>. QED BY <1>1, <2>1
<1>4. ASSUME NEW w \in Informers, CancelGroupRead(w)
      PROVE  OutsideEffect
  <2>1. UNCHANGED <<cycle, nextJob, memo, job>>
    BY <1>4 DEF CancelGroupRead
  <2>2. \A v \in Informers : handler[v].busy => handler'[v] = handler[v]
    BY <1>4 DEF TypeOK, CancelGroupRead
  <2>. QED BY <2>1, <2>2 DEF OutsideEffect, Cancelling
<1>5. ASSUME NEW w \in Informers, CancelGroupCancel(w)
      PROVE  OutsideEffect
  <2>1. UNCHANGED <<cycle, nextJob, memo>> /\ handler[w].busy
    BY <1>5 DEF CancelGroupCancel
  <2>2. PICK k \in handler[w].jobs : Cancel(k) /\ handler' = [handler EXCEPT ![w].jobs = @ \ {k}]
    BY <1>5 DEF CancelGroupCancel
  <2>3. \A v \in Informers : handler[v].busy => handler'[v].busy /\ handler'[v].key = handler[v].key
    BY <2>2 DEF TypeOK, HandlerType
  <2>4. \A j \in JobIds : job'[j] = job[j] \/ TornDown(j)
    BY <2>1, <2>2 DEF TypeOK, Cancel, TornDown
  <2>. QED BY <2>1, <2>3, <2>4 DEF OutsideEffect, Cancelling
<1>6. ASSUME NEW w \in Informers, CancelGroupDrop(w)
      PROVE  OutsideEffect
  <2>1. UNCHANGED <<cycle, nextJob, job>> /\ memo' = [memo EXCEPT ![handler[w].key] = NoMemo]
    BY <1>6 DEF CancelGroupDrop
  <2>2. \A v \in Informers : v # w => handler'[v] = handler[v]
    BY <1>6 DEF TypeOK, CancelGroupDrop
  <2>. QED BY <2>1, <2>2 DEF TypeOK, OutsideEffect, Cancelling
<1>7. ASSUME UNCHANGED vars
      PROVE  OutsideEffect
  BY <1>1, <1>7 DEF vars
<1>. QED
  BY <1>2, <1>3, <1>4, <1>5, <1>6, <1>7 DEF PluginStep, Next, CancelGroup

\* Steps of the scheduling goroutine start no cancelGroup, cancel only what
\* they roll back, cache only what the match obtained, start a match only for
\* a group without a placement, and take in hand only what was in hand, what
\* Fluxion just issued, or, to roll it back, what the group records.
CycleEffect ==
  /\ UNCHANGED handler /\ nextJob' \in {nextJob, nextJob + 1}
  /\ \A j \in JobIds :
       job'[j] = job[j] \/ (\E g \in Groups : Issued(g, j)) \/ RolledBack(j)
  /\ \A g \in Groups :
       \/ memo'[g] = memo[g] \/ memo'[g] = NoMemo
       \/ /\ StorePlacement /\ CycleGroup = g
          /\ memo'[g] = cycle.place /\ cycle'.pc = "filter"
  /\ \A g \in Groups : Matching(g)' => memo'[g].jobs = {} \/ (Matching(g) /\ memo'[g] = memo[g])
  /\ \A g \in Groups, j \in JobIds :
       InHand(g, j)' =>
         \/ InHand(g, j) /\ (cycle'.pc \in MatchPcs => cycle.pc \in MatchPcs)
         \/ Issued(g, j)
         \/ Records(g, j) /\ cycle'.pc = "cancel"

\* A step that makes no allocation, frees none and caches nothing.
LEMMA CycleFrame ==
  ASSUME UNCHANGED <<handler, nextJob, job, memo>>,
         \/ cycle'.pc \in {"idle", "filter"} /\ cycle'.place.jobs = {}
         \/ /\ cycle'.pod = cycle.pod /\ cycle'.place.jobs = cycle.place.jobs
            /\ cycle.pc # "idle" /\ cycle'.pc \notin MatchPcs \cup {"cancel"}
         \/ /\ cycle'.pod = cycle.pod /\ cycle'.place.jobs = cycle.place.jobs
            /\ cycle.pc \in MatchPcs
  PROVE  CycleEffect
BY DEF CycleEffect, Matching, InHand, CycleGroup, MatchPcs

\* What Unwind leaves in hand.
LEMMA UnwindHand ==
  ASSUME NEW jobs, Unwind(jobs)
  PROVE  \/ cycle' = IdleCycle
         \/ cycle'.pc = "cancel" /\ cycle'.pod = cycle.pod /\ cycle'.place.jobs = jobs
BY DEF Unwind, IdleCycle, NoMemo

LEMMA IdleHand == IdleCycle.pc = "idle" /\ IdleCycle.place.jobs = {}
BY DEF IdleCycle, NoMemo

\* A match that is given nextJob: it is kept in hand, or rolled back at once.
LEMMA MatchEffect ==
  ASSUME TypeOK, cycle.pc \in {"compute", "device"},
         NEW S \in SUBSET Slots, NEW B \in SUBSET Backends,
         MatchAllocate(CycleGroup, S, B),
         cycle'.pc \in {"device", "store", "cancel"}, cycle'.pod = cycle.pod,
         cycle'.place.jobs = cycle.place.jobs \cup {Number},
         UNCHANGED <<memo, handler>>
  PROVE  CycleEffect
<1>1. cycle.pod \in Pods /\ CycleGroup \in Groups
  BY CycleGroupType DEF TypeOK
<1>2. nextJob \in JobIds
  BY <1>1, MatchType
<1>3. Issued(CycleGroup, nextJob)
  <2>1. job'[nextJob] = [group |-> CycleGroup, slots |-> S, backends |-> B]
    BY <1>2 DEF TypeOK, MatchAllocate
  <2>. QED BY <2>1 DEF Issued, MatchAllocate
<1>4. \A j \in JobIds : job'[j] = job[j] \/ \E g \in Groups : Issued(g, j)
  <2>1. \A j \in JobIds : j # nextJob => job'[j] = job[j]
    BY DEF TypeOK, MatchAllocate
  <2>. QED BY <1>1, <1>3, <2>1
<1>5. nextJob' = nextJob + 1
  BY DEF MatchAllocate
<1>6. \A g \in Groups : Matching(g)' => Matching(g)
  BY DEF Matching, CycleGroup, MatchPcs
<1>7. \A g \in Groups, j \in JobIds :
        InHand(g, j)' => (InHand(g, j) /\ cycle.pc \in MatchPcs) \/ Issued(g, j)
  BY <1>3 DEF InHand, CycleGroup, MatchPcs, Number
<1>. QED
  BY <1>4, <1>5, <1>6, <1>7 DEF CycleEffect

\* A match that is given nextJob has it in hand, to keep or to roll back.
LEMMA MatchHand ==
  ASSUME TypeOK, MatchCompute \/ MatchDevice
  PROVE  /\ cycle'.pc \in {"device", "store", "cancel"} /\ cycle'.pod = cycle.pod
         /\ cycle'.place.jobs = cycle.place.jobs \cup {Number}
<1>0. cycle \in CycleType /\ cycle.place \in Placement /\ cycle.place.jobs \cup {Number} # {}
  BY MemberTypes DEF TypeOK
<1>1. CASE ParseFails
  BY <1>0, <1>1 DEF ParseFails, Unwind, IdleCycle, NoMemo
<1>2. CASE MatchCompute /\ ~ParseFails
  <2>1. PICK S \in SUBSET Eligible(cycle.excl) :
          cycle' = [cycle EXCEPT !.pc = IF cycle.device THEN "device" ELSE "store",
                                 !.place = OnSlots(S)]
    BY <1>2 DEF MatchCompute
  <2>2. OnSlots(S).jobs = cycle.place.jobs \cup {Number}
    BY <1>0 DEF OnSlots, Placement
  <2>. QED BY <1>0, <2>1, <2>2 DEF CycleType
<1>3. CASE MatchDevice /\ ~ParseFails
  <2>1. PICK b \in FreeBackends : cycle' = [cycle EXCEPT !.pc = "store", !.place = OnBackend(b)]
    BY <1>3 DEF MatchDevice
  <2>2. OnBackend(b).jobs = cycle.place.jobs \cup {Number}
    BY <1>0 DEF OnBackend, Placement
  <2>. QED BY <1>0, <2>1, <2>2 DEF CycleType
<1>. QED
  BY <1>1, <1>2, <1>3

LEMMA CycleStepEffect ==
  ASSUME TypeOK,
         CycleStep \/ \E p \in Pods : PreFilterCached(p) \/ PreFilterMiss(p)
  PROVE  CycleEffect
<1>0. cycle \in CycleType /\ cycle.place \in Placement
  BY MemberTypes DEF TypeOK
<1>1. ASSUME NEW p \in Pods, PreFilterCached(p)
      PROVE  CycleEffect
  <2>1. cycle'.pc = "filter" /\ cycle'.place.jobs = {}
    BY <1>1 DEF PreFilterCached, IdleCycle, NoMemo
  <2>. QED BY <1>1, <2>1, CycleFrame DEF PreFilterCached
<1>2. ASSUME NEW p \in Pods, PreFilterMiss(p)
      PROVE  CycleEffect
  <2>1. cycle'.pc = "pods" /\ cycle'.pod = p /\ cycle'.place.jobs = {}
    BY <1>2 DEF PreFilterMiss, IdleCycle, NoMemo
  <2>2. UNCHANGED <<handler, nextJob, job, memo>> /\ memo[GroupOf[p]].jobs = {}
    BY <1>2 DEF PreFilterMiss
  <2>. QED BY <2>1, <2>2 DEF CycleEffect, Matching, InHand, CycleGroup
<1>3. CASE ListGroupPods \/ BuildJobspecs
  <2>1. \/ cycle' = IdleCycle
        \/ cycle'.pod = cycle.pod /\ cycle'.place.jobs = cycle.place.jobs
    BY <1>0, <1>3 DEF ListGroupPods, BuildJobspecs, CycleType
  <2>2. UNCHANGED <<handler, nextJob, job, memo>> /\ cycle.pc \in MatchPcs
    BY <1>3 DEF ListGroupPods, BuildJobspecs, MatchPcs
  <2>. QED BY <2>1, <2>2, IdleHand, CycleFrame
<1>4. CASE MatchCompute
  <2>1. PICK S \in SUBSET Eligible(cycle.excl) : MatchAllocate(CycleGroup, S, {})
    BY <1>4 DEF MatchCompute
  <2>2. cycle.pc = "compute" /\ UNCHANGED <<memo, handler>> /\ S \in SUBSET Slots
    BY <1>4 DEF MatchCompute, Eligible, FreeSlots
  <2>. QED BY <1>4, <2>1, <2>2, MatchHand, MatchEffect
<1>5. CASE MatchDevice
  <2>1. PICK b \in FreeBackends : MatchAllocate(CycleGroup, {}, {b})
    BY <1>5 DEF MatchDevice
  <2>2. cycle.pc = "device" /\ UNCHANGED <<memo, handler>> /\ {b} \in SUBSET Backends
    BY <1>5 DEF MatchDevice, FreeBackends
  <2>. QED BY <1>5, <2>1, <2>2, MatchHand, MatchEffect
<1>6. CASE MatchFails
  <2>1. \/ cycle' = IdleCycle
        \/ cycle'.pod = cycle.pod /\ cycle'.place.jobs = cycle.place.jobs
    BY <1>6, UnwindHand DEF MatchFails
  <2>2. UNCHANGED <<handler, nextJob, job, memo>> /\ cycle.pc \in MatchPcs
    BY <1>6 DEF MatchFails, MatchPcs
  <2>. QED BY <2>1, <2>2, IdleHand, CycleFrame
<1>7. CASE CancelJobid
  <2>1. PICK k \in cycle.place.jobs : Cancel(k) /\ Unwind(cycle.place.jobs \ {k})
    BY <1>7 DEF CancelJobid
  <2>2. cycle.pc = "cancel" /\ UNCHANGED <<handler, nextJob, memo>>
    BY <1>7 DEF CancelJobid
  <2>3. \/ cycle'.pc = "idle"
        \/ /\ cycle'.pc = "cancel" /\ cycle'.pod = cycle.pod
           /\ cycle'.place.jobs = cycle.place.jobs \ {k}
    BY <2>1, UnwindHand, IdleHand
  <2>4. \A j \in JobIds : job'[j] = job[j] \/ RolledBack(j)
    BY <2>1, <2>2, <2>3 DEF TypeOK, Cancel, RolledBack
  <2>5. \A g \in Groups : Matching(g)' => Matching(g)
    BY <2>2, <2>3 DEF Matching, CycleGroup, MatchPcs
  <2>6. \A g \in Groups, j \in JobIds : InHand(g, j)' => InHand(g, j) /\ cycle'.pc \notin MatchPcs
    BY <2>2, <2>3 DEF InHand, CycleGroup, MatchPcs
  <2>. QED BY <2>2, <2>4, <2>5, <2>6 DEF CycleEffect
<1>8. CASE StorePlacement
  <2>1. /\ memo' = [memo EXCEPT ![CycleGroup] = cycle.place]
        /\ cycle'.pc = "filter" /\ cycle'.place.jobs = {}
        /\ UNCHANGED <<handler, nextJob, job>>
    BY <1>8 DEF StorePlacement, IdleCycle, NoMemo
  <2>2. \A g \in Groups : memo'[g] = IF g = CycleGroup THEN cycle.place ELSE memo[g]
    BY <2>1 DEF TypeOK
  <2>. QED BY <1>8, <2>1, <2>2 DEF CycleEffect, Matching, InHand, MatchPcs
<1>9. CASE FilterPass \/ FilterReject
  <2>1. /\ cycle.pc = "filter" /\ cycle'.pc \in {"reserve", "postfilter"}
        /\ cycle'.pod = cycle.pod /\ cycle'.place = cycle.place
    BY <1>0, <1>9 DEF FilterPass, FilterReject, CycleType
  <2>2. UNCHANGED <<handler, nextJob, job, memo>>
    BY <1>9 DEF FilterPass, FilterReject
  <2>. QED BY <2>1, <2>2, CycleFrame DEF MatchPcs
<1>10. CASE PostFilter
  <2>1. /\ UNCHANGED <<handler, nextJob, job>> /\ cycle.pc = "postfilter"
        /\ memo' = [memo EXCEPT ![CycleGroup] = NoMemo]
        /\ Unwind(memo[CycleGroup].jobs)
    BY <1>10 DEF PostFilter
  <2>2. CycleGroup \in Groups
    BY <2>1, CycleGroupType DEF TypeOK
  <2>3. \A g \in Groups : memo'[g] = IF g = CycleGroup THEN NoMemo ELSE memo[g]
    BY <2>1 DEF TypeOK
  <2>4. \/ cycle'.pc = "idle"
        \/ /\ cycle'.pc = "cancel" /\ cycle'.pod = cycle.pod
           /\ cycle'.place.jobs = memo[CycleGroup].jobs
    BY <2>1, UnwindHand, IdleHand
  <2>5. \A g \in Groups : Matching(g)' => memo'[g].jobs = {}
    BY <2>2, <2>3, <2>4 DEF Matching, CycleGroup, MatchPcs, NoMemo
  <2>6. \A g \in Groups, j \in JobIds : InHand(g, j)' => Records(g, j) /\ cycle'.pc = "cancel"
    BY <2>2, <2>4 DEF InHand, CycleGroup, Records
  <2>. QED BY <2>1, <2>3, <2>5, <2>6 DEF CycleEffect
<1>11. CASE Reserve \/ ReserveFails
  <2>1. cycle' = IdleCycle /\ UNCHANGED <<handler, nextJob, job, memo>>
    BY <1>11 DEF Reserve, ReserveFails
  <2>. QED BY <2>1, IdleHand, CycleFrame
<1>. QED
  BY <1>1, <1>2, <1>3, <1>4, <1>5, <1>6, <1>7, <1>8, <1>9, <1>10, <1>11 DEF CycleStep

-----------------------------------------------------------------------------
(* ReferenceInv is inductive as long as the scheduler does not restart.     *)

LEMMA ReferenceInit == Init => ReferenceInv
<1> SUFFICES ASSUME Init PROVE ReferenceInv
  OBVIOUS
<1>1. \A g \in Groups, j \in JobIds : ~Records(g, j) /\ ~InHand(g, j)
  BY DEF Init, Records, InHand, NoMemo, NewOwner, NoBind, IdleHandler, IdleCycle, Members
<1>2. MatchPrivate /\ SingleWriter
  BY DEF Init, MatchPrivate, SingleWriter, NoMemo, IdleCycle, MatchPcs
<1>3. MemoHeld
  BY DEF Init, MemoHeld, NoMemo
<1>. QED
  BY <1>1, <1>2, <1>3, TypeInit DEF ReferenceInv, OldReferences, NoForeignReference

\* A record or a jobid in hand after the step was one before, or was issued.
LEMMA NamesStep ==
  ASSUME TypeOK, PluginStep, OutsideEffect \/ CycleEffect,
         NEW g \in Groups, NEW j \in JobIds, Records(g, j)' \/ InHand(g, j)'
  PROVE  Records(g, j) \/ InHand(g, j) \/ Issued(g, j)
<1>1. CASE Records(g, j)'
  BY <1>1, RecordsStep
<1>2. CASE InHand(g, j)' /\ OutsideEffect
  BY <1>2 DEF OutsideEffect, InHand, CycleGroup
<1>3. CASE InHand(g, j)' /\ CycleEffect
  BY <1>3 DEF CycleEffect
<1>. QED
  BY <1>1, <1>2, <1>3

\* What happens to an allocation that was issued before the step.
LEMMA OldJobStep ==
  ASSUME TypeOK, OutsideEffect \/ CycleEffect, NEW j \in JobIds, j < nextJob
  PROVE  job'[j] = job[j] \/ TornDown(j) \/ RolledBack(j)
<1>1. \A g : ~Issued(g, j)
  BY DEF TypeOK, JobIds, Issued
<1>. QED
  BY <1>1 DEF OutsideEffect, CycleEffect

LEMMA ReferenceNext ==
  ASSUME ReferenceInv, [Next]_vars, ~Restart
  PROVE  ReferenceInv'
<1>0. /\ TypeOK /\ OldReferences /\ NoForeignReference
      /\ SingleWriter /\ MatchPrivate /\ MemoHeld /\ PluginStep
  BY DEF ReferenceInv, PluginStep
<1>1. TypeOK'
  BY <1>0, TypeNext
<1>2. \/ CycleEffect
      \/ OutsideEffect /\ ~StorePlacement
  BY <1>0, CycleStepEffect, OutsideStep DEF CycleStep
<1>3. nextJob \in Nat /\ nextJob' \in Nat /\ nextJob <= nextJob'
  BY <1>0, <1>2, ConstantsAssumption DEF TypeOK, OutsideEffect, CycleEffect
<1>4. OldReferences'
  <2> SUFFICES ASSUME NEW g \in Groups, NEW j \in JobIds, Records(g, j)' \/ InHand(g, j)'
               PROVE  j < nextJob'
    BY DEF OldReferences
  <2>1. Records(g, j) \/ InHand(g, j) => j < nextJob
    BY <1>0 DEF OldReferences
  <2>2. j \in Nat
    BY DEF JobIds
  <2>. QED BY <1>0, <1>2, <1>3, <2>1, <2>2, NamesStep DEF Issued
<1>5. NoForeignReference'
  <2> SUFFICES ASSUME NEW g \in Groups, NEW j \in JobIds, Records(g, j)' \/ InHand(g, j)'
               PROVE  job'[j].group \in {g, NoGroup}
    BY DEF NoForeignReference
  <2>1. CASE Issued(g, j)
    BY <2>1 DEF Issued
  <2>2. CASE Records(g, j) \/ InHand(g, j)
    <3>1. j < nextJob /\ job[j].group \in {g, NoGroup}
      BY <1>0, <2>2 DEF OldReferences, NoForeignReference
    <3>. QED BY <1>0, <1>2, <3>1, OldJobStep DEF TornDown, RolledBack, FreeJob
  <2>. QED BY <1>0, <1>2, <2>1, <2>2, NamesStep
<1>6. SingleWriter'
  <2> SUFFICES ASSUME NEW g \in Groups, Matching(g)'
               PROVE  memo'[g].jobs = {}
    BY DEF SingleWriter
  <2>1. CASE CycleEffect
    BY <1>0, <2>1 DEF CycleEffect, SingleWriter
  <2>2. CASE OutsideEffect
    <3>1. Matching(g)
      BY <2>2 DEF OutsideEffect, Matching, CycleGroup
    <3>. QED BY <1>0, <2>2, <3>1 DEF OutsideEffect, SingleWriter, NoMemo
  <2>. QED BY <1>2, <2>1, <2>2
<1>7. MatchPrivate'
  <2> SUFFICES ASSUME NEW g \in Groups, NEW j \in JobIds,
                      cycle'.pc \in MatchPcs, InHand(g, j)'
               PROVE  job'[j].group = g /\ \A h \in Groups : ~Records(h, j)'
    BY DEF MatchPrivate
  <2>1. ~StorePlacement
    BY <1>2 DEF StorePlacement, IdleCycle, MatchPcs
  <2>2. \A h \in Groups : Records(h, j)' => Records(h, j)
    BY <1>0, <2>1, RecordsStep
  <2>3. CASE Issued(g, j)
    <3>1. \A h \in Groups : ~Records(h, j)
      BY <1>0, <1>3, <2>3 DEF Issued, OldReferences
    <3>. QED BY <2>2, <2>3, <3>1 DEF Issued
  <2>4. CASE ~Issued(g, j)
    <3>1. InHand(g, j) /\ cycle.pc \in MatchPcs
      <4>1. CASE CycleEffect
        BY <2>4, <4>1 DEF CycleEffect, MatchPcs
      <4>2. CASE OutsideEffect
        BY <4>2 DEF OutsideEffect, InHand, CycleGroup
      <4>. QED BY <1>2, <4>1, <4>2
    <3>2. job[j].group = g /\ \A h \in Groups : ~Records(h, j)
      BY <1>0, <3>1 DEF MatchPrivate
    <3>3. j < nextJob
      BY <1>0, <3>1 DEF OldReferences
    <3>4. ~TornDown(j)
      BY <1>0, <3>2 DEF TornDown, TypeOK, Records
    <3>5. ~RolledBack(j)
      BY <3>1 DEF RolledBack, MatchPcs
    <3>. QED BY <1>0, <1>2, <2>2, <3>2, <3>3, <3>4, <3>5, OldJobStep
  <2>. QED BY <2>3, <2>4
<1>8. MemoHeld'
  <2> SUFFICES ASSUME NEW g \in Groups, ~Cancelling(g)', NEW j \in memo'[g].jobs
               PROVE  job'[j].group = g
    BY DEF MemoHeld
  <2>0. j \in JobIds
    BY <1>1 DEF TypeOK, Placement
  <2>1. CASE StorePlacement /\ CycleGroup = g /\ memo'[g] = cycle.place
    <3>1. cycle.pc \in MatchPcs /\ InHand(g, j) /\ job' = job
      BY <2>1 DEF StorePlacement, MatchPcs, InHand
    <3>. QED BY <1>0, <2>0, <3>1 DEF MatchPrivate
  <2>2. CASE memo'[g] = memo[g]
    <3>1. ~Cancelling(g)
      BY <1>2, <2>2 DEF OutsideEffect, CycleEffect, Cancelling, NoMemo
    <3>2. job[j].group = g /\ Records(g, j)
      BY <1>0, <2>2, <3>1 DEF MemoHeld, Records
    <3>3. j < nextJob
      BY <1>0, <2>0, <3>2 DEF OldReferences
    <3>4. ~TornDown(j)
      <4> SUFFICES ASSUME NEW w \in Informers, handler[w].busy, j \in handler[w].jobs
                   PROVE  FALSE
        BY DEF TornDown
      <4>1. handler[w].key \in Groups /\ handler[w].key # g
        BY <1>0, <3>1 DEF TypeOK, Cancelling
      <4>2. Records(handler[w].key, j)
        BY DEF Records
      <4>3. g # NoGroup
        BY ConstantsAssumption
      <4>. QED BY <1>0, <2>0, <3>2, <4>1, <4>2, <4>3 DEF NoForeignReference
    <3>5. ~RolledBack(j)
      <4> SUFFICES ASSUME cycle.pc = "cancel", j \in cycle.place.jobs
                   PROVE  FALSE
        BY DEF RolledBack
      <4>1. CycleGroup \in Groups /\ InHand(CycleGroup, j)
        BY <1>0, CycleGroupType DEF TypeOK, InHand
      <4>2. CycleGroup = g
        BY <1>0, <2>0, <3>2, <4>1, ConstantsAssumption DEF NoForeignReference
      <4>3. Matching(g)
        BY <4>2 DEF Matching
      <4>. QED BY <1>0, <2>2, <4>3 DEF SingleWriter
    <3>. QED BY <1>0, <1>2, <2>0, <3>2, <3>3, <3>4, <3>5, OldJobStep
  <2>3. CASE memo'[g] = NoMemo
    BY <2>3 DEF NoMemo
  <2>. QED BY <1>2, <2>1, <2>2, <2>3 DEF OutsideEffect, CycleEffect
<1>. QED
  BY <1>1, <1>4, <1>5, <1>6, <1>7, <1>8 DEF ReferenceInv

LEMMA ReferenceCorrect ==
  ASSUME MaxRestarts = 0
  PROVE  Spec => []ReferenceInv
<1>1. TypeOK /\ Restart => FALSE
  BY MaxRestarts = 0 DEF TypeOK, Restart, SpentType
<1>2. ReferenceInv /\ [Next]_vars => ReferenceInv'
  BY <1>1, ReferenceNext DEF ReferenceInv
<1>. QED
  BY <1>2, ReferenceInit, PTL DEF Spec

\* While the scheduler does not restart, whatever a teardown or a rollback
\* cancels is nobody else's (cancelGroup, cancelJobids, recordJobIDs).
THEOREM CancelsOnlyItsOwn ==
  ASSUME MaxRestarts = 0
  PROVE  Spec => []NoForeignReference
<1>1. ReferenceInv => NoForeignReference
  BY DEF ReferenceInv
<1>. QED
  BY <1>1, ReferenceCorrect, PTL

\* While the scheduler does not restart, PreFilter never reuses a placement
\* whose allocation is gone, except while its teardown runs.
THEOREM PlacementsAreHeld ==
  ASSUME MaxRestarts = 0
  PROVE  Spec => []MemoHeld
<1>1. ReferenceInv => MemoHeld
  BY DEF ReferenceInv
<1>. QED
  BY <1>1, ReferenceCorrect, PTL

-----------------------------------------------------------------------------
(* Fluxion gives nothing twice.                                             *)

\* An allocation is made of what is free, for the group being matched.
Allocates ==
  /\ nextJob \in JobIds /\ CycleGroup \in Groups
  /\ \E S \in SUBSET FreeSlots, B \in SUBSET FreeBackends : MatchAllocate(CycleGroup, S, B)

LEMMA MatchAllocates ==
  ASSUME TypeOK, MatchCompute \/ MatchDevice
  PROVE  Allocates
<1>1. CycleGroup \in Groups
  BY CycleGroupType DEF TypeOK, MatchCompute, MatchDevice
<1>2. CASE MatchCompute
  <2>1. PICK S \in SUBSET Eligible(cycle.excl) : MatchAllocate(CycleGroup, S, {})
    BY <1>2 DEF MatchCompute
  <2>2. S \in SUBSET FreeSlots /\ S \in SUBSET Slots /\ {} \in SUBSET FreeBackends
    BY DEF Eligible, FreeSlots
  <2>. QED BY <1>1, <2>1, <2>2, MatchType DEF Allocates
<1>3. CASE MatchDevice
  <2>1. PICK b \in FreeBackends : MatchAllocate(CycleGroup, {}, {b})
    BY <1>3 DEF MatchDevice
  <2>2. {b} \in SUBSET FreeBackends /\ {b} \in SUBSET Backends /\ {} \in SUBSET FreeSlots
    BY DEF FreeBackends
  <2>. QED BY <1>1, <2>1, <2>2, MatchType DEF Allocates
<1>. QED
  BY <1>2, <1>3

\* What a step can do to allocations.
LEMMA JobStep ==
  ASSUME TypeOK, [Next]_vars
  PROVE  \/ \A j \in JobIds : job'[j] \in {job[j], FreeJob}
         \/ Allocates
<1>1. CASE CycleStep
  <2>1. CASE MatchCompute \/ MatchDevice
    BY <2>1, MatchAllocates
  <2>2. CASE CancelJobid
    <3>1. PICK k \in cycle.place.jobs : Cancel(k)
      BY <2>2 DEF CancelJobid
    <3>2. k \in JobIds
      BY MemberTypes
    <3>. QED BY <3>1, <3>2 DEF TypeOK, Cancel
  <2>3. CASE ListGroupPods \/ BuildJobspecs \/ MatchFails \/ StorePlacement \/ FilterPass
             \/ FilterReject \/ PostFilter \/ Reserve \/ ReserveFails
    <3>1. UNCHANGED job
      BY <2>3 DEF ListGroupPods, BuildJobspecs, MatchFails, StorePlacement, FilterPass, FilterReject,
                  PostFilter, Reserve, ReserveFails
    <3>. QED BY <3>1
  <2>. QED BY <1>1, <2>1, <2>2, <2>3 DEF CycleStep
<1>2. CASE \E p \in Pods : PreFilterCached(p) \/ PreFilterMiss(p)
  <2>1. UNCHANGED job
    BY <1>2 DEF PreFilterCached, PreFilterMiss
  <2>. QED BY <2>1
<1>3. CASE Restart
  BY <1>3 DEF Restart
<1>4. CASE OutsideEffect
  BY <1>4 DEF OutsideEffect, TornDown
<1>. QED
  BY <1>1, <1>2, <1>3, <1>4, OutsideStep DEF PluginStep

LEMMA ExclusiveNext ==
  ASSUME TypeOK, Exclusive, [Next]_vars
  PROVE  Exclusive'
<1>1. CASE \A j \in JobIds : job'[j] \in {job[j], FreeJob}
  <2>1. \A j \in JobIds : job'[j].group = NoGroup => job'[j] = FreeJob
    BY <1>1 DEF Exclusive
  <2>2. \A j \in JobIds : /\ job'[j].slots \subseteq job[j].slots
                          /\ job'[j].backends \subseteq job[j].backends
    BY <1>1 DEF FreeJob
  <2>3. \A i, j \in JobIds : i # j => /\ job'[i].slots \cap job'[j].slots = {}
                                      /\ job'[i].backends \cap job'[j].backends = {}
    BY <2>2 DEF Exclusive
  <2>. QED BY <2>1, <2>3 DEF Exclusive
<1>2. CASE Allocates
  <2>1. PICK S \in SUBSET FreeSlots, B \in SUBSET FreeBackends : MatchAllocate(CycleGroup, S, B)
    BY <1>2 DEF Allocates
  <2>2. /\ job'[nextJob] = [group |-> CycleGroup, slots |-> S, backends |-> B]
        /\ CycleGroup # NoGroup
        /\ \A j \in JobIds : j # nextJob => job'[j] = job[j]
    BY <1>2, <2>1, ConstantsAssumption DEF TypeOK, Allocates, MatchAllocate
  <2>3. ASSUME NEW j \in JobIds
        PROVE  job[j].slots \cap S = {} /\ job[j].backends \cap B = {}
    <3>1. CASE job[j].group = NoGroup
      BY <3>1 DEF Exclusive, FreeJob
    <3>2. CASE job[j].group # NoGroup
      <4>1. j \in Held
        BY <3>2 DEF Held
      <4>. QED BY <4>1 DEF FreeSlots, FreeBackends
    <3>. QED BY <3>1, <3>2
  <2>4. \A j \in JobIds : job'[j].group = NoGroup => job'[j] = FreeJob
    BY <2>2 DEF Exclusive
  <2>5. \A i, j \in JobIds : i # j => /\ job'[i].slots \cap job'[j].slots = {}
                                      /\ job'[i].backends \cap job'[j].backends = {}
    BY <2>2, <2>3 DEF Exclusive
  <2>. QED BY <2>4, <2>5 DEF Exclusive
<1>. QED
  BY <1>1, <1>2, JobStep

-----------------------------------------------------------------------------
(* What a step does to the grant of a group whose placement it leaves alone. *)

\* An allocation a placement names is changed by being freed only.
LEMMA MemoJobStep ==
  ASSUME ReferenceInv, PluginStep, NEW g \in Groups, NEW j \in memo[g].jobs
  PROVE  j \in JobIds /\ (job'[j] = job[j] \/ TornDown(j) \/ RolledBack(j))
<1>0. TypeOK /\ OldReferences
  BY DEF ReferenceInv
<1>1. j \in JobIds /\ Records(g, j)
  BY <1>0, MemberTypes DEF Records
<1>2. j < nextJob
  BY <1>0, <1>1 DEF OldReferences
<1>3. OutsideEffect \/ CycleEffect
  BY <1>0, CycleStepEffect, OutsideStep
<1>. QED
  BY <1>0, <1>1, <1>2, <1>3, OldJobStep

\* No placement becomes backed by itself, and one that stays so keeps its jobs.
LEMMA BackedBefore ==
  ASSUME ReferenceInv, PluginStep, NEW g \in Groups, memo'[g] = memo[g], Backed(g)'
  PROVE  Backed(g) /\ \A j \in memo[g].jobs : job'[j] = job[j]
<1>1. ASSUME NEW j \in memo[g].jobs PROVE job'[j] = job[j]
  <2>1. job'[j].group = g /\ g # NoGroup
    BY ConstantsAssumption DEF Backed
  <2>. QED BY <2>1, MemoJobStep DEF TornDown, RolledBack, FreeJob
<1>. QED
  BY <1>1 DEF Backed

\* A rollback frees nothing of a backed placement.
LEMMA RollbackElsewhere ==
  ASSUME ReferenceInv, NEW g \in Groups, Backed(g), NEW j \in memo[g].jobs, RolledBack(j)
  PROVE  FALSE
<1>0. TypeOK /\ NoForeignReference /\ SingleWriter /\ j \in JobIds
  BY MemberTypes DEF ReferenceInv
<1>1. CycleGroup \in Groups /\ InHand(CycleGroup, j)
  BY <1>0, CycleGroupType DEF RolledBack, TypeOK, InHand
<1>2. CycleGroup = g
  BY <1>0, <1>1, ConstantsAssumption DEF NoForeignReference, Backed
<1>. QED
  BY <1>0, <1>2 DEF SingleWriter, RolledBack, Matching, Backed

\* A teardown frees nothing of another group's backed placement.
LEMMA TeardownElsewhere ==
  ASSUME ReferenceInv, NEW g \in Groups, Backed(g), NEW w \in Informers,
         NEW j \in handler[w].jobs, j \in memo[g].jobs, handler[w].key \in Groups
  PROVE  handler[w].key = g
<1>0. TypeOK /\ NoForeignReference /\ j \in JobIds
  BY MemberTypes DEF ReferenceInv
<1>1. Records(handler[w].key, j)
  BY DEF Records
<1>. QED
  BY <1>0, <1>1, ConstantsAssumption DEF NoForeignReference, Backed

Untouched(g) == memo'[g] = memo[g] /\ (Backed(g) => \A j \in memo[g].jobs : job'[j] = job[j])

\* A step touches the placement, or the backing, of one group at most.
LEMMA OneGroup ==
  ASSUME ReferenceInv, PluginStep
  PROVE  \/ \A h \in Groups : Untouched(h)
         \/ \E g \in Groups : \A h \in Groups \ {g} : Untouched(h)
<1>0. TypeOK
  BY DEF ReferenceInv
<1>1. CASE CycleStep \/ \E p \in Pods : PreFilterCached(p) \/ PreFilterMiss(p)
  <2>1. UNCHANGED handler
    BY <1>0, <1>1, CycleStepEffect DEF CycleEffect
  <2>2. ASSUME NEW h \in Groups, memo'[h] = memo[h]
        PROVE  Untouched(h)
    <3> SUFFICES ASSUME Backed(h), NEW j \in memo[h].jobs
                 PROVE  job'[j] = job[j]
      BY <2>2 DEF Untouched
    <3>1. j \in JobIds /\ j < nextJob
      BY <1>0, MemberTypes DEF ReferenceInv, OldReferences, Records
    <3>2. job'[j] = job[j] \/ RolledBack(j)
      <4>1. ~\E k \in Groups : Issued(k, j)
        BY <1>0, <3>1 DEF Issued, TypeOK, JobIds
      <4>. QED BY <1>0, <1>1, <3>1, <4>1, CycleStepEffect DEF CycleEffect
    <3>. QED BY <3>2, RollbackElsewhere
  <2>3. CASE UNCHANGED memo
    BY <2>2, <2>3
  <2>4. CASE StorePlacement \/ PostFilter
    <3>1. CycleGroup \in Groups /\ \A h \in Groups : h # CycleGroup => memo'[h] = memo[h]
      BY <1>0, <2>4, CycleGroupType DEF TypeOK, StorePlacement, PostFilter
    <3>. QED BY <2>2, <3>1
  <2>. QED
    BY <1>1, <2>3, <2>4
       DEF CycleStep, PreFilterCached, PreFilterMiss, ListGroupPods, BuildJobspecs, MatchCompute,
           MatchDevice, MatchFails, CancelJobid, FilterPass, FilterReject, Reserve, ReserveFails
<1>2. ASSUME NEW w \in Informers, CancelGroupCancel(w) \/ CancelGroupDrop(w)
      PROVE  \E g \in Groups : \A h \in Groups \ {g} : Untouched(h)
  <2>1. handler[w].key \in Groups /\ handler[w].busy
    BY <1>0, <1>2 DEF TypeOK, CancelGroupCancel, CancelGroupDrop
  <2>2. ASSUME NEW h \in Groups, h # handler[w].key
        PROVE  Untouched(h)
    <3>1. CASE CancelGroupDrop(w)
      BY <1>0, <2>2, <3>1 DEF TypeOK, CancelGroupDrop, Untouched
    <3>2. CASE CancelGroupCancel(w)
      <4>1. UNCHANGED memo
        BY <3>2 DEF CancelGroupCancel
      <4>2. PICK k \in handler[w].jobs : Cancel(k)
        BY <3>2 DEF CancelGroupCancel
      <4>3. ASSUME Backed(h), NEW j \in memo[h].jobs PROVE job'[j] = job[j]
        <5>1. j # k /\ j \in JobIds
          BY <1>0, <2>1, <2>2, <4>3, TeardownElsewhere, MemberTypes
        <5>. QED BY <1>0, <4>2, <5>1 DEF TypeOK, Cancel
      <4>. QED BY <4>1, <4>3 DEF Untouched
    <3>. QED BY <1>2, <3>1, <3>2
  <2>. QED BY <2>1, <2>2
<1>3. CASE UNCHANGED <<memo, job>>
  BY <1>3 DEF Untouched
<1>. QED
  BY <1>1, <1>2, <1>3
     DEF PluginStep, Next, vars, BindStep, CancelGroup, PreBindPreFlight, PreBind, RecordJobIDs,
         PreBindStamp, PreBindFails, Bind, PermitReject, PermitAllow, CancelGroupRead, Ungate, Finish,
         DeletePod, ReconcileGroup, UserDeletesPodGroup, RemovePodGroup, Recreate

-----------------------------------------------------------------------------
(* Whoever is granted something is granted slots.                           *)

LEMMA GrantInit == Init => GrantInv
<1> SUFFICES ASSUME Init PROVE GrantInv
  OBVIOUS
<1>1. Exclusive
  BY DEF Init, Exclusive, FreeJob
<1>2. GrantsSlots
  BY DEF Init, GrantsSlots, IdleCycle, Backed, NoMemo
<1>. QED
  BY <1>1, <1>2, ReferenceInit DEF GrantInv

\* What a match has obtained stays as it is while the match goes on.
LEMMA HandKept ==
  ASSUME ReferenceInv, PluginStep, cycle.pc \in MatchPcs, NEW j \in cycle.place.jobs
  PROVE  j \in JobIds /\ j < nextJob /\ job'[j] = job[j]
<1>0. TypeOK /\ OldReferences /\ MatchPrivate
  BY DEF ReferenceInv
<1>1. j \in JobIds /\ CycleGroup \in Groups /\ InHand(CycleGroup, j)
  BY <1>0, MemberTypes, CycleGroupType DEF InHand, TypeOK, MatchPcs
<1>2. j < nextJob /\ ~Records(CycleGroup, j) /\ \A h \in Groups : ~Records(h, j)
  BY <1>0, <1>1 DEF OldReferences, MatchPrivate
<1>3. ~TornDown(j) /\ ~RolledBack(j)
  BY <1>0, <1>2 DEF TornDown, RolledBack, TypeOK, Records, MatchPcs
<1>4. OutsideEffect \/ CycleEffect
  BY <1>0, CycleStepEffect, OutsideStep
<1>. QED
  BY <1>0, <1>1, <1>2, <1>3, <1>4, OldJobStep

\* Allocations that keep what they hold still hold slots with more of them.
LEMMA SlotsKept ==
  ASSUME NEW jobs, NEW more, jobs \subseteq more, SlotsOf(jobs) # {},
         \A j \in jobs : job'[j] = job[j]
  PROVE  UNION {job'[j].slots : j \in more} # {}
<1>1. PICK s : s \in SlotsOf(jobs)
  OBVIOUS
<1>2. PICK j \in jobs : s \in job[j].slots
  BY <1>1 DEF SlotsOf
<1>. QED
  BY <1>2

\* The match in flight is for as many slots as pods were listed, at least one,
\* and keeps them when the device jobspec is matched too.
LEMMA MatchSlots ==
  ASSUME GrantInv, PluginStep
  PROVE  /\ cycle'.pc \in {"specs", "compute"} => cycle'.size # 0
         /\ cycle'.pc \in {"device", "store"} => SlotsOf(cycle.place.jobs)' # {}
<1>0. /\ TypeOK /\ ReferenceInv /\ GrantsSlots
      /\ cycle \in CycleType /\ cycle.place \in Placement
  BY MemberTypes DEF GrantInv, ReferenceInv, TypeOK
<1>1. CASE UNCHANGED cycle
  <2>1. ASSUME cycle.pc \in {"device", "store"} PROVE SlotsOf(cycle.place.jobs)' # {}
    <3>1. \A j \in cycle.place.jobs : job'[j] = job[j]
      BY <1>0, <2>1, HandKept DEF MatchPcs
    <3>2. SlotsOf(cycle.place.jobs) # {}
      BY <1>0, <2>1 DEF GrantsSlots
    <3>. QED BY <1>1, <3>1, <3>2, SlotsKept DEF SlotsOf
  <2>. QED BY <1>0, <1>1, <2>1 DEF GrantsSlots
<1>2. CASE cycle'.pc \notin {"specs", "compute", "device", "store"}
  BY <1>2
<1>3. CASE ListGroupPods
  <2>1. CASE cycle' = IdleCycle
    BY <2>1 DEF IdleCycle
  <2>2. CASE cycle' # IdleCycle
    <3>1. /\ cycle'.pc = "specs" /\ GroupPods(cycle.pod) # {}
          /\ cycle'.size = Cardinality(GroupPods(cycle.pod))
      BY <1>0, <1>3, <2>2 DEF ListGroupPods, CycleType
    <3>2. IsFiniteSet(GroupPods(cycle.pod))
      <4>1. GroupPods(cycle.pod) \subseteq Pods
        BY <1>0, <1>3 DEF TypeOK, ListGroupPods, GroupPods, Members
      <4>. QED BY <4>1, FS_Subset, ConstantsAssumption
    <3>. QED BY <3>1, <3>2, FS_EmptySet
  <2>. QED BY <2>1, <2>2
<1>4. CASE BuildJobspecs
  <2>1. cycle'.pc = "compute" /\ cycle'.size = cycle.size /\ cycle.pc = "specs"
    BY <1>0, <1>4 DEF BuildJobspecs, CycleType
  <2>. QED BY <1>0, <2>1 DEF GrantsSlots
<1>5. CASE MatchCompute
  <2>1. PICK S \in SUBSET Eligible(cycle.excl) :
          /\ Cardinality(S) = cycle.size
          /\ MatchAllocate(CycleGroup, S, {})
          /\ \/ ParseFails
             \/ cycle' = [cycle EXCEPT !.pc = IF cycle.device THEN "device" ELSE "store",
                                       !.place = OnSlots(S)]
    BY <1>5 DEF MatchCompute
  <2>2. S # {}
    BY <1>0, <1>5, <2>1, FS_EmptySet DEF MatchCompute, GrantsSlots
  <2>3. CASE ParseFails
    <3>1. cycle'.pc \in {"idle", "cancel"}
      BY <2>3, UnwindEnds DEF ParseFails
    <3>. QED BY <1>2, <3>1
  <2>4. CASE ~ParseFails
    <3>1. cycle'.pc \in {"device", "store"} /\ cycle'.place = OnSlots(S)
      BY <1>0, <2>1, <2>4 DEF CycleType
    <3>2. nextJob \in cycle'.place.jobs
      BY <1>0, <3>1 DEF OnSlots, Placement, Number
    <3>3. job'[nextJob].slots = S
      <4>1. job'[nextJob] = [group |-> CycleGroup, slots |-> S, backends |-> {}]
        BY <1>0, <2>1 DEF TypeOK, MatchAllocate, JobIds
      <4>. QED BY <4>1
    <3>4. S \subseteq SlotsOf(cycle.place.jobs)'
      BY <3>2, <3>3 DEF SlotsOf
    <3>. QED BY <2>2, <3>1, <3>4
  <2>. QED BY <2>3, <2>4
<1>6. CASE MatchDevice
  <2>1. PICK b \in FreeBackends :
          \/ ParseFails
          \/ cycle' = [cycle EXCEPT !.pc = "store", !.place = OnBackend(b)]
    BY <1>6 DEF MatchDevice
  <2>2. CASE ParseFails
    <3>1. cycle'.pc \in {"idle", "cancel"}
      BY <2>2, UnwindEnds DEF ParseFails
    <3>. QED BY <1>2, <3>1
  <2>3. CASE ~ParseFails
    <3>1. cycle'.pc = "store" /\ cycle'.place = OnBackend(b)
      BY <1>0, <2>1, <2>3 DEF CycleType
    <3>2. cycle.place.jobs \subseteq cycle'.place.jobs
      BY <1>0, <3>1 DEF OnBackend, Placement
    <3>3. cycle.pc = "device"
      BY <1>6 DEF MatchDevice
    <3>4. \A j \in cycle.place.jobs : job'[j] = job[j]
      BY <1>0, <3>3, HandKept DEF MatchPcs
    <3>5. SlotsOf(cycle.place.jobs) # {}
      BY <1>0, <3>3 DEF GrantsSlots
    <3>. QED BY <3>1, <3>2, <3>4, <3>5, SlotsKept DEF SlotsOf
  <2>. QED BY <2>2, <2>3
<1>7. CASE MatchFails \/ CancelJobid \/ StorePlacement \/ FilterPass \/ FilterReject \/ PostFilter
           \/ Reserve \/ ReserveFails
  <2>1. CASE MatchFails \/ CancelJobid \/ PostFilter
    <3>1. cycle'.pc \in {"idle", "cancel"}
      BY <2>1, UnwindEnds DEF MatchFails, CancelJobid, PostFilter
    <3>. QED BY <1>2, <3>1
  <2>2. CASE StorePlacement
    <3>1. cycle'.pc = "filter"
      BY <2>2 DEF StorePlacement, IdleCycle
    <3>. QED BY <1>2, <3>1
  <2>3. CASE FilterPass \/ FilterReject
    <3>1. cycle'.pc \in {"reserve", "postfilter"}
      BY <1>0, <2>3 DEF FilterPass, FilterReject, CycleType
    <3>. QED BY <1>2, <3>1
  <2>4. CASE Reserve \/ ReserveFails
    <3>1. cycle' = IdleCycle
      BY <2>4 DEF Reserve, ReserveFails
    <3>. QED BY <1>2, <3>1, IdleHand
  <2>. QED BY <1>7, <2>1, <2>2, <2>3, <2>4
<1>8. CASE \E p \in Pods : PreFilterCached(p) \/ PreFilterMiss(p)
  <2>1. cycle'.pc \in {"filter", "pods"}
    BY <1>8 DEF PreFilterCached, PreFilterMiss, IdleCycle
  <2>. QED BY <1>2, <2>1
<1>9. CASE OutsideEffect
  BY <1>1, <1>9 DEF OutsideEffect
<1>. QED
  BY <1>0, <1>3, <1>4, <1>5, <1>6, <1>7, <1>8, <1>9, OutsideStep DEF CycleStep

\* What a step makes of a placement: it is kept, dropped, or stored.
LEMMA MemoStep ==
  ASSUME TypeOK, PluginStep, NEW g \in Groups
  PROVE  \/ memo'[g] = memo[g] \/ memo'[g] = NoMemo
         \/ StorePlacement /\ CycleGroup = g /\ memo'[g] = cycle.place
BY CycleStepEffect, OutsideStep DEF CycleEffect, OutsideEffect

LEMMA GrantNext ==
  ASSUME GrantInv, PluginStep
  PROVE  GrantInv'
<1>0. ReferenceInv /\ TypeOK /\ Exclusive /\ GrantsSlots /\ [Next]_vars
  BY DEF GrantInv, ReferenceInv, PluginStep
<1>1. ReferenceInv' /\ Exclusive'
  BY <1>0, ReferenceNext, ExclusiveNext DEF PluginStep
<1>2. ASSUME NEW g \in Groups, Backed(g)'
      PROVE  SlotsOf(memo[g].jobs)' # {}
  <2>1. CASE memo'[g] = memo[g]
    <3>1. Backed(g) /\ \A j \in memo[g].jobs : job'[j] = job[j]
      BY <1>0, <1>2, <2>1, BackedBefore
    <3>2. SlotsOf(memo[g].jobs) # {}
      BY <1>0, <3>1 DEF GrantsSlots
    <3>. QED BY <2>1, <3>1, <3>2, SlotsKept DEF SlotsOf
  <2>2. CASE memo'[g] = NoMemo
    BY <1>2, <2>2 DEF Backed, NoMemo
  <2>3. CASE StorePlacement /\ memo'[g] = cycle.place
    <3>1. cycle.pc = "store" /\ job' = job
      BY <2>3 DEF StorePlacement
    <3>. QED BY <1>0, <2>3, <3>1 DEF GrantsSlots, SlotsOf
  <2>. QED BY <1>0, <2>1, <2>2, <2>3, MemoStep
<1>3. GrantsSlots'
  BY <1>2, MatchSlots DEF GrantsSlots
<1>. QED
  BY <1>1, <1>3 DEF GrantInv

-----------------------------------------------------------------------------
(* The simulation.                                                          *)

LEMMA GrantOf ==
  ASSUME NEW g \in Groups
  PROVE  /\ Granted[g] = IF Backed(g)
                         THEN [slots |-> SlotsOf(memo[g].jobs), backends |-> BackendsOf(memo[g].jobs)]
                         ELSE Grants!Nothing
         /\ Granted'[g] = IF Backed(g)'
                          THEN [slots |-> SlotsOf(memo[g].jobs)',
                                backends |-> BackendsOf(memo[g].jobs)']
                          ELSE Grants!Nothing
BY DEF Granted, Grants!Nothing

LEMMA UntouchedGrant ==
  ASSUME ReferenceInv, PluginStep, NEW g \in Groups, Untouched(g)
  PROVE  Granted'[g] = Granted[g]
<1>1. CASE Backed(g)
  <2>1. memo'[g] = memo[g] /\ \A j \in memo[g].jobs : job'[j] = job[j]
    BY <1>1 DEF Untouched
  <2>2. Backed(g)'
    BY <1>1, <2>1 DEF Backed
  <2>3. /\ SlotsOf(memo[g].jobs)' = SlotsOf(memo[g].jobs)
        /\ BackendsOf(memo[g].jobs)' = BackendsOf(memo[g].jobs)
    BY <2>1 DEF SlotsOf, BackendsOf
  <2>. QED BY <1>1, <2>2, <2>3, GrantOf
<1>2. CASE ~Backed(g)
  <2>1. ~Backed(g)'
    BY <1>2, BackedBefore DEF Untouched
  <2>. QED BY <1>2, <2>1, GrantOf
<1>. QED
  BY <1>1, <1>2

\* Storing a placement grants it whole, on what nobody else is granted.
LEMMA StoreGrants ==
  ASSUME GrantInv, GrantInv', PluginStep, StorePlacement,
         NEW g \in Groups, CycleGroup = g, memo'[g] = cycle.place, Backed(g)',
         Granted' = [Granted EXCEPT ![g] = Granted'[g]]
  PROVE  Grants!GrantAll(g)
<1>0. TypeOK /\ ReferenceInv /\ SingleWriter /\ MatchPrivate /\ Exclusive /\ GrantsSlots'
  BY DEF GrantInv, ReferenceInv
<1>1. cycle.pc = "store" /\ job' = job
  BY DEF StorePlacement
<1>2. Granted[g] = Grants!Nothing
  <2>1. memo[g].jobs = {}
    BY <1>0, <1>1 DEF SingleWriter, Matching, MatchPcs
  <2>. QED BY <2>1, GrantOf DEF Backed
<1> DEFINE r == [slots |-> SlotsOf(cycle.place.jobs), backends |-> BackendsOf(cycle.place.jobs)]
<1>3. Granted'[g] = r
  <2>1. /\ SlotsOf(memo[g].jobs)' = SlotsOf(cycle.place.jobs)
        /\ BackendsOf(memo[g].jobs)' = BackendsOf(cycle.place.jobs)
    BY <1>1 DEF SlotsOf, BackendsOf
  <2>. QED BY <2>1, GrantOf
<1>4. r.slots # {}
  BY <1>0, <1>1 DEF GrantsSlots, SlotsOf
<1>5. r \in Grants!Grant
  <2>1. \A j \in cycle.place.jobs : job[j].slots \subseteq Slots /\ job[j].backends \subseteq Backends
    BY <1>0, MemberTypes DEF TypeOK, Alloc
  <2>2. SlotsOf(cycle.place.jobs) \in SUBSET Slots /\ BackendsOf(cycle.place.jobs) \in SUBSET Backends
    BY <2>1 DEF SlotsOf, BackendsOf
  <2>. QED BY <2>2 DEF Grants!Grant
<1>6. ASSUME NEW h \in Groups \ {g}
      PROVE  r.slots \cap Granted[h].slots = {} /\ r.backends \cap Granted[h].backends = {}
  <2>1. CASE ~Backed(h)
    <3>1. Granted[h] = Grants!Nothing
      BY <2>1, GrantOf
    <3>. QED BY <3>1 DEF Grants!Nothing
  <2>2. CASE Backed(h)
    <3>1. ASSUME NEW i \in cycle.place.jobs, NEW j \in memo[h].jobs
          PROVE  job[i].slots \cap job[j].slots = {} /\ job[i].backends \cap job[j].backends = {}
      <4>1. i \in JobIds /\ j \in JobIds
        BY <1>0, MemberTypes
      <4>2. InHand(g, i) /\ Records(h, j)
        BY <1>1 DEF InHand, Records
      <4>3. i # j
        BY <1>0, <1>1, <4>1, <4>2 DEF MatchPrivate, MatchPcs
      <4>. QED BY <1>0, <4>1, <4>3 DEF Exclusive
    <3>2. Granted[h] = [slots |-> SlotsOf(memo[h].jobs), backends |-> BackendsOf(memo[h].jobs)]
      BY <2>2, GrantOf
    <3>3. SlotsOf(cycle.place.jobs) \cap SlotsOf(memo[h].jobs) = {}
      BY <3>1 DEF SlotsOf
    <3>4. BackendsOf(cycle.place.jobs) \cap BackendsOf(memo[h].jobs) = {}
      BY <3>1 DEF BackendsOf
    <3>. QED BY <3>2, <3>3, <3>4
  <2>. QED BY <2>1, <2>2
<1>. QED
  BY <1>2, <1>3, <1>4, <1>5, <1>6 DEF Grants!GrantAll

LEMMA GrantStep ==
  ASSUME GrantInv, GrantInv', PluginStep
  PROVE  Grants!Next \/ Granted' = Granted
<1>0. TypeOK /\ ReferenceInv /\ GrantsSlots
  BY DEF GrantInv, ReferenceInv
<1>1. CASE \A h \in Groups : Untouched(h)
  <2>1. \A h \in Groups : Granted'[h] = Granted[h]
    BY <1>0, <1>1, UntouchedGrant
  <2>. QED BY <2>1 DEF Granted
<1>2. ASSUME NEW g \in Groups, \A h \in Groups \ {g} : Untouched(h)
      PROVE  Grants!Next \/ Granted' = Granted
  <2>1. Granted' = [Granted EXCEPT ![g] = Granted'[g]]
    <3>1. \A h \in Groups \ {g} : Granted'[h] = Granted[h]
      BY <1>0, <1>2, UntouchedGrant
    <3>. QED BY <3>1 DEF Granted
  <2>2. CASE Granted'[g] = Granted[g]
    BY <2>1, <2>2 DEF Granted
  <2>3. CASE Backed(g)'
    <3>1. CASE memo'[g] = memo[g]
      <4>1. Untouched(g)
        BY <1>0, <2>3, <3>1, BackedBefore DEF Untouched
      <4>. QED BY <1>0, <2>2, <4>1, UntouchedGrant
    <3>2. CASE memo'[g] = NoMemo
      BY <2>3, <3>2 DEF Backed, NoMemo
    <3>3. CASE StorePlacement /\ CycleGroup = g /\ memo'[g] = cycle.place
      BY <2>1, <2>3, <3>3, StoreGrants DEF Grants!Next
    <3>. QED BY <1>0, <3>1, <3>2, <3>3, MemoStep
  <2>4. CASE ~Backed(g)' /\ Backed(g)
    <3>1. Granted'[g] = Grants!Nothing
      BY <2>4, GrantOf
    <3>2. Granted[g].slots # {}
      <4>1. Granted[g] = [slots |-> SlotsOf(memo[g].jobs), backends |-> BackendsOf(memo[g].jobs)]
        BY <2>4, GrantOf
      <4>. QED BY <1>0, <2>4, <4>1 DEF GrantsSlots
    <3>3. Granted[g] # Grants!Nothing
      BY <3>2 DEF Grants!Nothing
    <3>. QED BY <2>1, <3>1, <3>3 DEF Grants!Next, Grants!ReleaseAll
  <2>5. CASE ~Backed(g)' /\ ~Backed(g)
    BY <2>2, <2>5, GrantOf
  <2>. QED BY <2>3, <2>4, <2>5
<1>. QED
  BY <1>0, <1>1, <1>2, OneGroup

\* While the scheduler does not restart, the plugin implements GroupGrants:
\* whatever interleaves with a group's match and its teardown, the group holds
\* its whole placement, on slots and backends no other group holds, or nothing.
THEOREM GrantsRefined ==
  ASSUME MaxRestarts = 0
  PROVE  Spec => RefinesGroupGrants
<1>1. TypeOK /\ Restart => FALSE
  BY MaxRestarts = 0 DEF TypeOK, Restart, SpentType
<1>2. GrantInv /\ [Next]_vars => GrantInv'
  BY <1>1, GrantNext DEF PluginStep, GrantInv, ReferenceInv
<1>3. Init => Grants!Init
  BY DEF Init, Grants!Init, Granted, Grants!Nothing, Backed, NoMemo
<1>4. GrantInv /\ GrantInv' /\ [Next]_vars => [Grants!Next]_Granted
  BY <1>1, GrantStep DEF PluginStep, GrantInv, ReferenceInv
<1>. QED
  BY <1>2, <1>3, <1>4, GrantInit, PTL DEF Spec, RefinesGroupGrants, Grants!Spec

=============================================================================
