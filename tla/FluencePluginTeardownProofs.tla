-------------------- MODULE FluencePluginTeardownProofs --------------------
(* For every value of the constants of FluencePlugin: TeardownComplete holds *)
(* in every reachable state, restarts, faults and reused names included,     *)
(* when owners and pods are not deleted before they complete; HeldAccounted  *)
(* does where moreover gangs pass Permit whole, no patch fails and names are *)
(* not reused, and the scheduler may restart; and where gangs are moreover   *)
(* rejected whole and the scheduler does not restart, BoundSeesHeldBackend   *)
(* does, and BoundOnAllocation if gangs are created ungated.                 *)
EXTENDS FluencePluginSafetyProofs

LEMMA TeardownInit == Init => TeardownInv
<1> SUFFICES ASSUME Init PROVE TeardownInv
  OBVIOUS
<1>1. MemoWhole
  BY DEF Init, MemoWhole, IdleCycle, NoMemo, NoBind
<1>2. PendingOnly
  BY DEF Init, PendingOnly, IdleCycle, NoBind
<1>3. OwnerOutlivesPods /\ TeardownPending
  BY DEF Init, OwnerOutlivesPods, TeardownPending, NewOwner
<1>4. ExclusionAnchored
  BY DEF Init, ExclusionAnchored, IdleCycle
<1>. QED
  BY <1>1, <1>2, <1>3, <1>4, TypeInit DEF TeardownInv

\* A restarted scheduler remembers nothing, so it has nothing to tear down.
LEMMA TeardownRestart ==
  ASSUME TeardownInv, Restart
  PROVE  TeardownInv'
<1>0. /\ memo' = [g \in Groups |-> NoMemo] /\ excluded' = [g \in Groups |-> {}]
      /\ cycle' = IdleCycle /\ bind' = [p \in Pods |-> NoBind] /\ UNCHANGED <<pod, owner>>
  BY DEF Restart
<1>1. MemoWhole' /\ PendingOnly'
  BY <1>0 DEF MemoWhole, PendingOnly, IdleCycle, NoMemo, NoBind
<1>2. OwnerOutlivesPods' /\ TeardownPending'
  BY <1>0 DEF TeardownInv, OwnerOutlivesPods, TeardownPending
<1>3. ExclusionAnchored'
  BY <1>0 DEF ExclusionAnchored, IdleCycle
<1>. QED
  BY <1>1, <1>2, <1>3, RestartKeepsType DEF TeardownInv

-----------------------------------------------------------------------------
(* What a step other than Restart does to one group, one pod, one owner.    *)

\* A placement and the exclusions are dropped together by cancelGroup, and
\* change for the group in the scheduling cycle otherwise.
CacheStep(g) ==
  \/ memo'[g] = memo[g] /\ excluded'[g] = excluded[g]
  \/ /\ memo'[g] = NoMemo /\ excluded'[g] = {}
     /\ \E w \in Informers : CancelGroupDrop(w) /\ handler[w].key = g
  \/ StorePlacement /\ CycleGroup = g /\ memo'[g] = cycle.place /\ excluded'[g] = excluded[g]
  \/ PostFilter /\ CycleGroup = g

LEMMA GroupCache ==
  ASSUME TypeOK, PluginStep, NEW g \in Groups
  PROVE  CacheStep(g)
<1>1. CASE UNCHANGED <<memo, excluded>>
  BY <1>1 DEF CacheStep
<1>2. CASE StorePlacement
  <2>1. memo' = [memo EXCEPT ![CycleGroup] = cycle.place] /\ UNCHANGED excluded
    BY <1>2 DEF StorePlacement
  <2>. QED BY <1>2, <2>1 DEF CacheStep, TypeOK
<1>3. CASE PostFilter
  <2>1. g # CycleGroup => memo'[g] = memo[g] /\ excluded'[g] = excluded[g]
    BY <1>3 DEF TypeOK, PostFilter
  <2>. QED BY <1>3, <2>1 DEF CacheStep
<1>4. ASSUME NEW w \in Informers, CancelGroupDrop(w)
      PROVE  CacheStep(g)
  BY <1>4 DEF TypeOK, CancelGroupDrop, CacheStep
<1>5. CASE CycleStep
  <2>1. CASE ListGroupPods \/ BuildJobspecs \/ MatchCompute \/ MatchDevice \/ MatchFails \/ CancelJobid
             \/ FilterPass \/ FilterReject \/ Reserve \/ ReserveFails
    <3>1. UNCHANGED <<memo, excluded>>
      BY <2>1 DEF ListGroupPods, BuildJobspecs, MatchCompute, MatchDevice, MatchFails, CancelJobid,
                  FilterPass, FilterReject, Reserve, ReserveFails
    <3>. QED BY <1>1, <3>1
  <2>. QED BY <1>2, <1>3, <1>5, <2>1 DEF CycleStep
<1>6. ASSUME NEW p \in Pods, PreFilterCached(p) \/ PreFilterMiss(p) \/ BindStep(p) \/ PermitReject(p)
                             \/ Ungate(p) \/ Finish(p) \/ DeletePod(p)
      PROVE  CacheStep(g)
  <2>1. UNCHANGED <<memo, excluded>>
    BY <1>6 DEF PreFilterCached, PreFilterMiss, BindStep, PreBindPreFlight, PreBind, RecordJobIDs,
                PreBindStamp, PreBindFails, Bind, PermitReject, Ungate, Finish, DeletePod
  <2>. QED BY <1>1, <2>1
<1>7. ASSUME NEW h \in Groups, PermitAllow(h) \/ ReconcileGroup(h) \/ UserDeletesPodGroup(h) \/ Recreate(h)
      PROVE  CacheStep(g)
  <2>1. UNCHANGED <<memo, excluded>>
    BY <1>7 DEF PermitAllow, ReconcileGroup, UserDeletesPodGroup, RemovePodGroup, Recreate
  <2>. QED BY <1>1, <2>1
<1>8. ASSUME NEW w \in Informers, CancelGroupRead(w) \/ CancelGroupCancel(w)
      PROVE  CacheStep(g)
  <2>1. UNCHANGED <<memo, excluded>>
    BY <1>8 DEF CancelGroupRead, CancelGroupCancel
  <2>. QED BY <1>1, <2>1
<1>9. CASE UNCHANGED vars
  BY <1>1, <1>9 DEF vars
<1>. QED
  BY <1>4, <1>5, <1>6, <1>7, <1>8, <1>9 DEF PluginStep, Next, CancelGroup

\* Where the scheduling goroutine is after a step.
LEMMA CyclePodStep ==
  ASSUME TypeOK, PluginStep, cycle'.pc # "idle"
  PROVE  \/ cycle'.pod = cycle.pod /\ cycle.pc # "idle" /\ ~Reserve
         \/ \E p \in Pods : (PreFilterCached(p) \/ PreFilterMiss(p)) /\ cycle'.pod = p
<1>0. cycle \in CycleType
  BY DEF TypeOK
<1>1. ASSUME NEW p \in Pods, PreFilterCached(p) \/ PreFilterMiss(p)
      PROVE  cycle'.pod = p
  BY <1>1 DEF PreFilterCached, PreFilterMiss, IdleCycle
<1>2. CASE UNCHANGED cycle
  BY <1>2 DEF Reserve, IdleCycle
<1>3. CASE CycleStep
  <2>1. CASE Reserve \/ ReserveFails
    BY <2>1 DEF Reserve, ReserveFails, IdleCycle
  <2>2. CASE ListGroupPods \/ BuildJobspecs \/ FilterPass \/ FilterReject
    <3>1. cycle' = IdleCycle \/ cycle'.pod = cycle.pod
      BY <1>0, <2>2 DEF ListGroupPods, BuildJobspecs, FilterPass, FilterReject, CycleType
    <3>2. cycle.pc \in {"pods", "specs", "filter"}
      BY <2>2 DEF ListGroupPods, BuildJobspecs, FilterPass, FilterReject
    <3>. QED BY <3>1, <3>2 DEF IdleCycle, Reserve
  <2>3. CASE StorePlacement
    BY <2>3 DEF StorePlacement, IdleCycle, Reserve
  <2>4. CASE MatchFails \/ CancelJobid \/ PostFilter
    <3>1. \E jobs : Unwind(jobs)
      BY <2>4 DEF MatchFails, CancelJobid, PostFilter
    <3>2. cycle'.pod = cycle.pod
      BY <3>1, UnwindHand, IdleHand
    <3>3. cycle.pc \in {"compute", "device", "cancel", "postfilter"}
      BY <2>4 DEF MatchFails, CancelJobid, PostFilter
    <3>. QED BY <3>2, <3>3 DEF Reserve
  <2>5. CASE MatchCompute \/ MatchDevice
    <3>1. cycle.pc \in {"compute", "device"}
      BY <2>5 DEF MatchCompute, MatchDevice
    <3>2. \/ \E jobs : Unwind(jobs)
          \/ cycle'.pod = cycle.pod
      <4>1. CASE MatchCompute
        <5>1. PICK S \in SUBSET Eligible(cycle.excl) :
                \/ ParseFails
                \/ cycle' = [cycle EXCEPT !.pc = IF cycle.device THEN "device" ELSE "store",
                                          !.place = OnSlots(S)]
          BY <4>1 DEF MatchCompute
        <5>. QED BY <1>0, <5>1 DEF ParseFails, CycleType
      <4>2. CASE MatchDevice
        <5>1. PICK b \in FreeBackends :
                \/ ParseFails
                \/ cycle' = [cycle EXCEPT !.pc = "store", !.place = OnBackend(b)]
          BY <4>2 DEF MatchDevice
        <5>. QED BY <1>0, <5>1 DEF ParseFails, CycleType
      <4>. QED BY <2>5, <4>1, <4>2
    <3>3. cycle'.pod = cycle.pod
      BY <3>2, UnwindHand, IdleHand
    <3>. QED BY <3>1, <3>3 DEF Reserve
  <2>. QED BY <1>3, <2>1, <2>2, <2>3, <2>4, <2>5 DEF CycleStep
<1>. QED
  BY <1>1, <1>2, <1>3, OutsideStep DEF OutsideEffect

\* How the scheduling goroutine comes to Filter and Reserve.
LEMMA CycleFilterStep ==
  ASSUME TypeOK, PluginStep, cycle'.pc \in {"filter", "reserve"}
  PROVE  \/ UNCHANGED cycle /\ ~PostFilter
         \/ \E p \in Pods : PreFilterCached(p) /\ cycle'.pod = p
         \/ StorePlacement /\ cycle'.pod = cycle.pod
         \/ FilterPass /\ cycle'.pod = cycle.pod
<1>0. cycle \in CycleType
  BY DEF TypeOK
<1>1. ASSUME NEW p \in Pods, PreFilterCached(p) \/ PreFilterMiss(p)
      PROVE  PreFilterCached(p) /\ cycle'.pod = p
  BY <1>1 DEF PreFilterCached, PreFilterMiss, IdleCycle
<1>2. CASE UNCHANGED cycle
  BY <1>2 DEF PostFilter
<1>3. CASE CycleStep
  <2>1. CASE Reserve \/ ReserveFails
    BY <2>1 DEF Reserve, ReserveFails, IdleCycle
  <2>2. CASE ListGroupPods
    BY <1>0, <2>2 DEF ListGroupPods, IdleCycle, CycleType
  <2>3. CASE BuildJobspecs \/ FilterReject
    BY <1>0, <2>3 DEF BuildJobspecs, FilterReject, CycleType
  <2>4. CASE FilterPass
    BY <1>0, <2>4 DEF FilterPass, CycleType
  <2>5. CASE StorePlacement
    BY <2>5 DEF StorePlacement, IdleCycle
  <2>6. CASE MatchFails \/ CancelJobid \/ PostFilter
    <3>1. \E jobs : Unwind(jobs)
      BY <2>6 DEF MatchFails, CancelJobid, PostFilter
    <3>. QED BY <3>1, UnwindEnds
  <2>7. CASE MatchCompute
    <3>1. PICK S \in SUBSET Eligible(cycle.excl) :
            \/ ParseFails
            \/ cycle' = [cycle EXCEPT !.pc = IF cycle.device THEN "device" ELSE "store",
                                      !.place = OnSlots(S)]
      BY <2>7 DEF MatchCompute
    <3>. QED BY <1>0, <3>1, UnwindEnds DEF ParseFails, CycleType
  <2>8. CASE MatchDevice
    <3>1. PICK b \in FreeBackends :
            \/ ParseFails
            \/ cycle' = [cycle EXCEPT !.pc = "store", !.place = OnBackend(b)]
      BY <2>8 DEF MatchDevice
    <3>. QED BY <1>0, <3>1, UnwindEnds DEF ParseFails, CycleType
  <2>. QED BY <1>3, <2>1, <2>2, <2>3, <2>4, <2>5, <2>6, <2>7, <2>8 DEF CycleStep
<1>. QED
  BY <1>1, <1>2, <1>3, OutsideStep DEF OutsideEffect

\* A pod and its binding goroutine move one at a time: Reserve starts the
\* goroutine, Bind ends it and binds the pod.
PodMoves(p) ==
  \/ pod'[p].phase = pod[p].phase /\ (bind[p].pc = "none" => bind'[p].pc = "none")
  \/ Reserve /\ cycle.pod = p /\ pod'[p].phase = pod[p].phase
  \/ bind[p].pc = "bind" /\ bind'[p].pc = "none"
  \/ /\ <<pod[p].phase, pod'[p].phase>> \in {<<"gated", "pending">>, <<"bound", "done">>, <<"done", "gone">>}
     /\ bind'[p] = bind[p]
  \/ /\ Recreate(GroupOf[p]) /\ pod[p].phase = "gone" /\ pod'[p].phase \in {"gated", "pending"}
     /\ bind'[p] = bind[p]

LEMMA PodStep ==
  ASSUME TypeOK, PluginStep, EarlyDelete = FALSE, NEW p \in Pods
  PROVE  PodMoves(p)
<1>0. pod \in [Pods -> PodType] /\ bind \in [Pods -> BindType]
  BY DEF TypeOK
<1>1. CASE UNCHANGED <<pod, bind>>
  BY <1>1 DEF PodMoves
<1>2. CASE Reserve
  <2>1. pod'[p].phase = pod[p].phase
    BY <1>0, <1>2 DEF Reserve, StampBackend, PodType
  <2>2. p # cycle.pod => bind'[p] = bind[p]
    BY <1>0, <1>2 DEF Reserve
  <2>. QED BY <1>2, <2>1, <2>2 DEF PodMoves
<1>3. CASE PostFilter
  BY <1>0, <1>3 DEF PostFilter, Unreserve, NoBind, PodMoves
<1>4. CASE CycleStep
  <2>1. CASE ListGroupPods \/ BuildJobspecs \/ MatchCompute \/ MatchDevice \/ MatchFails \/ CancelJobid
             \/ StorePlacement \/ FilterPass \/ FilterReject \/ ReserveFails
    <3>1. UNCHANGED <<pod, bind>>
      BY <2>1 DEF ListGroupPods, BuildJobspecs, MatchCompute, MatchDevice, MatchFails, CancelJobid,
                  StorePlacement, FilterPass, FilterReject, ReserveFails
    <3>. QED BY <1>1, <3>1
  <2>. QED BY <1>2, <1>3, <1>4, <2>1 DEF CycleStep
<1>5. ASSUME NEW q \in Pods, BindStep(q) \/ PermitReject(q)
      PROVE  PodMoves(p)
  <2>1. CASE Bind(q)
    <3>1. p # q => pod'[p] = pod[p] /\ bind'[p] = bind[p]
      BY <1>0, <2>1 DEF Bind
    <3>2. bind[q].pc = "bind" /\ bind'[q].pc = "none"
      BY <1>0, <2>1 DEF Bind, NoBind
    <3>. QED BY <3>1, <3>2 DEF PodMoves
  <2>2. CASE ~Bind(q)
    <3>1. pod'[p].phase = pod[p].phase
      <4>1. CASE PreBindStamp(q)
        BY <1>0, <4>1 DEF PreBindStamp, StampBackend, PodType
      <4>2. CASE ~PreBindStamp(q)
        BY <1>5, <2>2, <4>2
           DEF BindStep, PreBindPreFlight, PreBind, RecordJobIDs, PreBindFails, PermitReject
      <4>. QED BY <4>1, <4>2
    <3>2. p # q => bind'[p] = bind[p]
      BY <1>0, <1>5, <2>2
         DEF BindStep, PreBindPreFlight, PreBind, RecordJobIDs, PreBindStamp, PreBindFails, PermitReject
    <3>3. bind[q].pc # "none"
      BY <1>5, <2>2
         DEF BindStep, PreBindPreFlight, PreBind, RecordJobIDs, PreBindStamp, PreBindFails, PermitReject
    <3>. QED BY <3>1, <3>2, <3>3 DEF PodMoves
  <2>. QED BY <2>1, <2>2
<1>6. ASSUME NEW h \in Groups, PermitAllow(h)
      PROVE  PodMoves(p)
  <2>1. bind[p].pc = "none" => bind'[p] = bind[p]
    BY <1>0, <1>6 DEF PermitAllow
  <2>. QED BY <1>6, <2>1 DEF PermitAllow, PodMoves
<1>7. ASSUME NEW q \in Pods, Ungate(q) \/ Finish(q) \/ DeletePod(q)
      PROVE  PodMoves(p)
  <2>1. UNCHANGED bind
    BY <1>7 DEF Ungate, Finish, DeletePod
  <2>2. \/ pod'[p] = pod[p]
        \/ <<pod[p].phase, pod'[p].phase>> \in {<<"gated", "pending">>, <<"bound", "done">>, <<"done", "gone">>}
    <3>1. CASE Ungate(q)
      BY <1>0, <3>1 DEF Ungate, PodType
    <3>2. CASE Finish(q)
      BY <1>0, <3>2 DEF Finish, PodType
    <3>3. CASE DeletePod(q)
      BY <1>0, <3>3, EarlyDelete = FALSE DEF DeletePod, PodType
    <3>. QED BY <1>7, <3>1, <3>2, <3>3
  <2>. QED BY <2>1, <2>2 DEF PodMoves
<1>8. ASSUME NEW h \in Groups, Recreate(h)
      PROVE  PodMoves(p)
  <2>1. CASE GroupOf[p] = h
    <3>1. pod[p].phase = "gone" /\ UNCHANGED bind /\ pod'[p] = NewPod(p)
      BY <1>8, <2>1 DEF Recreate, Members
    <3>. QED BY <1>8, <2>1, <3>1 DEF NewPod, PodMoves
  <2>2. CASE GroupOf[p] # h
    BY <1>8, <2>2 DEF Recreate, PodMoves
  <2>. QED BY <2>1, <2>2
<1>9. CASE \/ \E q \in Pods : PreFilterCached(q) \/ PreFilterMiss(q)
           \/ \E w \in Informers : CancelGroup(w)
           \/ \E h \in Groups : ReconcileGroup(h) \/ UserDeletesPodGroup(h)
           \/ UNCHANGED vars
  <2>1. UNCHANGED <<pod, bind>>
    BY <1>9 DEF PreFilterCached, PreFilterMiss, CancelGroup, CancelGroupRead, CancelGroupCancel,
                CancelGroupDrop, ReconcileGroup, UserDeletesPodGroup, RemovePodGroup, vars
  <2>. QED BY <1>1, <2>1
<1>. QED
  BY <1>4, <1>5, <1>6, <1>7, <1>8, <1>9 DEF PluginStep, Next

\* Group g loses its owner by this step, at a time when its pods are over,
\* and an event with its annotation is sent.
Removed(g) ==
  /\ \A p \in Members(g) : pod'[p].phase \in {"done", "gone"} /\ pod[p].phase \in {"done", "gone"}
  /\ UNCHANGED <<memo, excluded>>
  /\ \E w \in Informers : Notify(w, g)

OwnerChanges(g) ==
  \/ owner'[g] = owner[g]
  \/ /\ \E p \in Members(g) : RecordJobIDs(p) /\ bind[p].jobs # {} /\ owner'[g].jobs = bind[p].jobs
     /\ owner[g].exists /\ owner'[g].exists
  \/ Recreate(g) /\ owner'[g].exists
  \/ Removed(g) /\ owner'[g] = [exists |-> FALSE, jobs |-> {}]

LEMMA OwnerStep ==
  ASSUME TypeOK, PluginStep, MemoWhole, EarlyDelete = FALSE, NEW g \in Groups
  PROVE  OwnerChanges(g)
<1>0. owner \in [Groups -> OwnerType] /\ pod \in [Pods -> PodType] /\ GroupOf \in [Pods -> Groups]
  BY ConstantsAssumption DEF TypeOK
<1>1. CASE UNCHANGED owner
  BY <1>1 DEF OwnerChanges
<1>2. ASSUME NEW p \in Pods, RecordJobIDs(p)
      PROVE  OwnerChanges(g)
  <2>1. bind[p].jobs # {}
    BY <1>2 DEF MemoWhole, RecordJobIDs
  <2>2. CASE GroupOf[p] = g
    <3>1. p \in Members(g) /\ owner[g].exists /\ owner'[g].exists /\ owner'[g].jobs = bind[p].jobs
      BY <1>0, <1>2, <2>2 DEF RecordJobIDs, OwnerType, Members
    <3>. QED BY <1>2, <2>1, <3>1 DEF OwnerChanges
  <2>3. CASE GroupOf[p] # g
    BY <1>0, <1>2, <2>3 DEF RecordJobIDs, OwnerChanges
  <2>. QED BY <2>2, <2>3
<1>3. ASSUME NEW p \in Pods, DeletePod(p)
      PROVE  OwnerChanges(g)
  <2>1. CASE GroupOf[p] \in Grouped
    BY <1>1, <1>3, <2>1 DEF DeletePod
  <2>2. CASE GroupOf[p] \notin Grouped /\ GroupOf[p] # g
    BY <1>0, <1>3, <2>2 DEF DeletePod, OwnerChanges
  <2>3. CASE GroupOf[p] \notin Grouped /\ GroupOf[p] = g
    <3>1. \A q \in Members(g) : q = p
      BY <2>3, LonePods DEF Members
    <3>2. pod[p].phase = "done" /\ pod'[p].phase = "gone"
      BY <1>0, <1>3, EarlyDelete = FALSE DEF DeletePod
    <3>3. Notify("pod", g) /\ "pod" \in Informers /\ UNCHANGED <<memo, excluded>>
      BY <1>3, <2>3 DEF DeletePod, Informers
    <3>4. owner'[g] = [exists |-> FALSE, jobs |-> {}]
      BY <1>0, <1>3, <2>3 DEF DeletePod
    <3>. QED BY <2>3, <3>1, <3>2, <3>3, <3>4 DEF OwnerChanges, Removed
  <2>. QED BY <2>1, <2>2, <2>3
<1>4. ASSUME NEW h \in Groups, ReconcileGroup(h) \/ UserDeletesPodGroup(h)
      PROVE  OwnerChanges(g)
  <2>1. ReconcileGroup(h) /\ RemovePodGroup(h)
    BY <1>4, EarlyDelete = FALSE DEF ReconcileGroup, UserDeletesPodGroup
  <2>2. CASE h # g
    BY <1>0, <2>1, <2>2 DEF RemovePodGroup, OwnerChanges
  <2>3. CASE h = g
    <3>1. UNCHANGED <<pod, memo, excluded>> /\ owner[g].exists /\ Notify("podgroup", g) /\ "podgroup" \in Informers
      BY <2>1, <2>3 DEF RemovePodGroup, Informers
    <3>2. \A p \in Members(g) : pod[p].phase \in {"done", "gone"}
      BY <2>1, <2>3 DEF ReconcileGroup
    <3>3. owner'[g] = [exists |-> FALSE, jobs |-> {}]
      BY <1>0, <2>1, <2>3 DEF RemovePodGroup
    <3>. QED BY <3>1, <3>2, <3>3 DEF OwnerChanges, Removed
  <2>. QED BY <2>2, <2>3
<1>5. ASSUME NEW h \in Groups, Recreate(h)
      PROVE  OwnerChanges(g)
  BY <1>0, <1>5 DEF Recreate, NewOwner, OwnerChanges
<1>6. CASE CycleStep
  BY <1>1, <1>6
     DEF CycleStep, ListGroupPods, BuildJobspecs, MatchCompute, MatchDevice, MatchFails, CancelJobid,
         StorePlacement, FilterPass, FilterReject, PostFilter, Reserve, ReserveFails
<1>7. ASSUME NEW p \in Pods, ~RecordJobIDs(p), BindStep(p) \/ PermitReject(p)
      PROVE  OwnerChanges(g)
  BY <1>1, <1>7
     DEF BindStep, PreBindPreFlight, PreBind, PreBindStamp, PreBindFails, Bind, PermitReject
<1>8. CASE \/ \E q \in Pods : PreFilterCached(q) \/ PreFilterMiss(q) \/ Ungate(q) \/ Finish(q)
           \/ \E w \in Informers : CancelGroup(w)
           \/ \E h \in Groups : PermitAllow(h)
           \/ UNCHANGED vars
  BY <1>1, <1>8 DEF PreFilterCached, PreFilterMiss, Ungate, Finish, CancelGroup, CancelGroupRead,
                    CancelGroupCancel, CancelGroupDrop, PermitAllow, vars
<1>. QED
  BY <1>2, <1>3, <1>4, <1>5, <1>6, <1>7, <1>8 DEF PluginStep, Next

LEMMA NotifyKeeps ==
  ASSUME TypeOK, NEW w \in Informers, NEW g \in Groups, Notify(w, g)
  PROVE  /\ \A v \in Informers : \A i \in DOMAIN events[v] :
              i \in DOMAIN events'[v] /\ events'[v][i] = events[v][i]
         /\ \E i \in DOMAIN events'[w] : events'[w][i] = [key |-> g, jobs |-> owner[g].jobs]
<1> DEFINE e == [key |-> g, jobs |-> owner[g].jobs]
<1>1. /\ events'[w] = Append(events[w], e) /\ \A v \in Informers : v # w => events'[v] = events[v]
      /\ \A v \in Informers : events[v] \in Seq(EventType)
  BY DEF TypeOK, Notify
<1>2. Len(events[w]) + 1 \in DOMAIN events'[w] /\ events'[w][Len(events[w]) + 1] = e
  BY <1>1
<1>3. \A i \in DOMAIN events[w] : i \in DOMAIN events'[w] /\ events'[w][i] = events[w][i]
  BY <1>1
<1>. QED
  BY <1>1, <1>2, <1>3

\* What is known of a teardown is not lost: an event of g that will find
\* jobids stays, or becomes a cancelGroup, which drops what the group has last.
LEMMA TeardownKept ==
  ASSUME TypeOK, PluginStep, NEW g \in Groups, TearsDown(g), memo'[g] = memo[g]
  PROVE  TearsDown(g)' \/ (memo'[g] = NoMemo /\ excluded'[g] = {})
<1>0. /\ handler \in [Informers -> HandlerType] /\ events \in [Informers -> Seq(EventType)]
      /\ memo \in [Groups -> Placement]
  BY DEF TypeOK
<1>1. CASE UNCHANGED <<events, handler>>
  BY <1>1 DEF TearsDown, Cancelling
<1>2. ASSUME NEW w \in Informers, NEW h \in Groups, Notify(w, h), UNCHANGED handler
      PROVE  TearsDown(g)'
  <2>1. \A v \in Informers : \A i \in DOMAIN events[v] :
          i \in DOMAIN events'[v] /\ events'[v][i] = events[v][i]
    BY <1>2, NotifyKeeps
  <2>. QED BY <1>2, <2>1 DEF TearsDown, Cancelling
<1>3. ASSUME NEW w \in Informers, CancelGroupRead(w)
      PROVE  TearsDown(g)'
  <2>1. /\ ~handler[w].busy /\ \A v \in Informers : handler[v].busy => handler'[v] = handler[v]
        /\ events[w] # <<>> /\ events' = [events EXCEPT ![w] = Tail(@)]
    BY <1>0, <1>3 DEF CancelGroupRead
  <2>2. CASE Cancelling(g)
    BY <2>1, <2>2 DEF TearsDown, Cancelling
  <2>3. ASSUME NEW v \in Informers, NEW i \in DOMAIN events[v],
               events[v][i].key = g, events[v][i].jobs # {} \/ memo[g].jobs # {}
        PROVE  TearsDown(g)'
    <3>1. CASE v # w
      BY <1>0, <2>1, <2>3, <3>1 DEF TearsDown
    <3>2. CASE v = w /\ i # 1
      <4>1. i - 1 \in DOMAIN events'[w] /\ events'[w][i - 1] = events[w][i]
        BY <1>0, <2>1, <3>2
      <4>. QED BY <2>3, <3>2, <4>1 DEF TearsDown
    <3>3. CASE v = w /\ i = 1
      <4>1. Head(events[w]) = events[w][1]
        BY <1>0, <2>1
      <4>2. handler'[w].busy /\ handler'[w].key = g
        BY <1>0, <1>3, <2>3, <3>3, <4>1 DEF CancelGroupRead
      <4>. QED BY <4>2 DEF TearsDown, Cancelling
    <3>. QED BY <3>1, <3>2, <3>3
  <2>. QED BY <2>2, <2>3 DEF TearsDown
<1>4. ASSUME NEW w \in Informers, CancelGroupCancel(w)
      PROVE  TearsDown(g)'
  <2>1. PICK k : handler' = [handler EXCEPT ![w].jobs = @ \ {k}]
    BY <1>4 DEF CancelGroupCancel
  <2>2. \A v \in Informers : handler'[v].busy = handler[v].busy /\ handler'[v].key = handler[v].key
    BY <1>0, <2>1 DEF HandlerType
  <2>3. UNCHANGED events
    BY <1>4 DEF CancelGroupCancel
  <2>. QED BY <2>2, <2>3 DEF TearsDown, Cancelling
<1>5. ASSUME NEW w \in Informers, CancelGroupDrop(w)
      PROVE  TearsDown(g)' \/ (memo'[g] = NoMemo /\ excluded'[g] = {})
  <2>1. CASE handler[w].key = g
    BY <1>5, <2>1 DEF TypeOK, CancelGroupDrop
  <2>2. CASE handler[w].key # g
    <3>1. UNCHANGED events /\ \A v \in Informers : v # w => handler'[v] = handler[v]
      BY <1>0, <1>5 DEF CancelGroupDrop
    <3>. QED BY <2>2, <3>1 DEF TearsDown, Cancelling
  <2>. QED BY <2>1, <2>2
<1>6. ASSUME NEW p \in Pods, Ungate(p) \/ Finish(p) \/ DeletePod(p)
      PROVE  TearsDown(g)'
  <2>1. UNCHANGED handler /\ (UNCHANGED events \/ Notify("pod", GroupOf[p])) /\ "pod" \in Informers
    BY <1>6 DEF Ungate, Finish, DeletePod, Informers
  <2>2. GroupOf[p] \in Groups
    BY ConstantsAssumption
  <2>3. CASE UNCHANGED events
    BY <2>1, <2>3 DEF TearsDown, Cancelling
  <2>. QED BY <1>2, <2>1, <2>2, <2>3
<1>7. ASSUME NEW h \in Groups, ReconcileGroup(h) \/ UserDeletesPodGroup(h)
      PROVE  TearsDown(g)'
  <2>1. UNCHANGED handler /\ Notify("podgroup", h) /\ "podgroup" \in Informers
    BY <1>7 DEF ReconcileGroup, UserDeletesPodGroup, RemovePodGroup, Informers
  <2>. QED BY <1>2, <2>1
<1>8. CASE CycleStep
  BY <1>1, <1>8
     DEF CycleStep, ListGroupPods, BuildJobspecs, MatchCompute, MatchDevice, MatchFails, CancelJobid,
         StorePlacement, FilterPass, FilterReject, PostFilter, Reserve, ReserveFails
<1>9. ASSUME NEW p \in Pods, BindStep(p) \/ PermitReject(p) \/ PreFilterCached(p) \/ PreFilterMiss(p)
      PROVE  TearsDown(g)'
  <2>1. UNCHANGED <<events, handler>>
    BY <1>9 DEF BindStep, PreBindPreFlight, PreBind, RecordJobIDs, PreBindStamp, PreBindFails, Bind,
                PermitReject, PreFilterCached, PreFilterMiss
  <2>. QED BY <2>1 DEF TearsDown, Cancelling
<1>10. CASE (\E h \in Groups : PermitAllow(h) \/ Recreate(h)) \/ UNCHANGED vars
  BY <1>1, <1>10 DEF PermitAllow, Recreate, vars
<1>. QED
  BY <1>3, <1>4, <1>5, <1>6, <1>7, <1>8, <1>9, <1>10 DEF PluginStep, Next, CancelGroup

-----------------------------------------------------------------------------
(* The conjuncts of TeardownInv.                                            *)

LEMMA MemoWholeNext ==
  ASSUME TypeOK, MemoWhole, PluginStep
  PROVE  MemoWhole'
<1>0. cycle \in CycleType /\ cycle.place \in Placement /\ bind \in [Pods -> BindType]
  BY MemberTypes DEF TypeOK
<1>1. ASSUME NEW g \in Groups, memo'[g].jobs = {}
      PROVE  memo'[g] = NoMemo
  <2>1. CASE PostFilter /\ CycleGroup = g
    BY <2>1 DEF TypeOK, PostFilter
  <2>2. CASE StorePlacement /\ memo'[g] = cycle.place
    BY <1>1, <2>2 DEF MemoWhole, StorePlacement
  <2>. QED BY <1>1, <2>1, <2>2, GroupCache DEF CacheStep, MemoWhole
<1>2. cycle'.pc \in {"device", "store"} => cycle'.place.jobs # {}
  <2> SUFFICES ASSUME cycle'.pc \in {"device", "store"} PROVE cycle'.place.jobs # {}
    OBVIOUS
  <2>1. CASE UNCHANGED cycle
    BY <2>1 DEF MemoWhole
  <2>2. CASE MatchCompute
    <3>1. PICK S \in SUBSET Eligible(cycle.excl) :
            \/ ParseFails
            \/ cycle' = [cycle EXCEPT !.pc = IF cycle.device THEN "device" ELSE "store",
                                      !.place = OnSlots(S)]
      BY <2>2 DEF MatchCompute
    <3>2. OnSlots(S).jobs # {}
      BY <1>0 DEF OnSlots, Placement
    <3>. QED BY <1>0, <3>1, <3>2, UnwindEnds DEF ParseFails, CycleType
  <2>3. CASE MatchDevice
    <3>1. PICK b \in FreeBackends :
            \/ ParseFails
            \/ cycle' = [cycle EXCEPT !.pc = "store", !.place = OnBackend(b)]
      BY <2>3 DEF MatchDevice
    <3>2. OnBackend(b).jobs # {}
      BY <1>0 DEF OnBackend, Placement
    <3>. QED BY <1>0, <3>1, <3>2, UnwindEnds DEF ParseFails, CycleType
  <2>4. CASE CycleStep /\ ~MatchCompute /\ ~MatchDevice
    <3>1. CASE MatchFails \/ CancelJobid \/ PostFilter
      <4>1. \E jobs : Unwind(jobs)
        BY <3>1 DEF MatchFails, CancelJobid, PostFilter
      <4>. QED BY <4>1, UnwindEnds
    <3>2. CASE ListGroupPods
      BY <1>0, <3>2 DEF ListGroupPods, IdleCycle, CycleType
    <3>3. CASE BuildJobspecs \/ FilterPass \/ FilterReject
      BY <1>0, <3>3 DEF BuildJobspecs, FilterPass, FilterReject, CycleType
    <3>4. CASE StorePlacement
      BY <3>4 DEF StorePlacement, IdleCycle
    <3>5. CASE Reserve \/ ReserveFails
      BY <3>5 DEF Reserve, ReserveFails, IdleCycle
    <3>. QED BY <2>4, <3>1, <3>2, <3>3, <3>4, <3>5 DEF CycleStep
  <2>5. ASSUME NEW p \in Pods, PreFilterCached(p) \/ PreFilterMiss(p) PROVE FALSE
    BY <2>5 DEF PreFilterCached, PreFilterMiss, IdleCycle
  <2>. QED BY <2>1, <2>2, <2>3, <2>4, <2>5, OutsideStep DEF OutsideEffect
<1>3. ASSUME NEW p \in Pods, bind'[p].pc = "record"
      PROVE  bind'[p].jobs # {}
  <2>1. CASE UNCHANGED bind
    BY <1>3, <2>1 DEF MemoWhole
  <2>2. ASSUME bind'[p] = bind[p] \/ bind'[p].pc # "record"
        PROVE  bind'[p].jobs # {}
    BY <1>3, <2>2 DEF MemoWhole
  <2>3. CASE Reserve \/ PostFilter
    <3>1. bind'[p] = bind[p] \/ bind'[p].pc # "record"
      <4>1. CASE Reserve
        BY <1>0, <4>1 DEF Reserve, NoBind
      <4>2. CASE PostFilter
        BY <4>2 DEF PostFilter, Unreserve, NoBind
      <4>. QED BY <2>3, <4>1, <4>2
    <3>. QED BY <2>2, <3>1
  <2>4. CASE CycleStep
    <3>1. UNCHANGED bind \/ Reserve \/ PostFilter
      BY <2>4 DEF CycleStep, ListGroupPods, BuildJobspecs, MatchCompute, MatchDevice, MatchFails,
                  CancelJobid, StorePlacement, FilterPass, FilterReject, ReserveFails
    <3>. QED BY <2>1, <2>3, <3>1
  <2>5. ASSUME NEW q \in Pods, PreBind(q)
        PROVE  bind'[p].jobs # {}
    <3>1. CASE p = q
      BY <1>0, <1>3, <2>5, <3>1 DEF PreBind, BindType
    <3>2. CASE p # q
      BY <1>0, <2>2, <2>5, <3>2 DEF PreBind
    <3>. QED BY <3>1, <3>2
  <2>6. ASSUME NEW q \in Pods, ~PreBind(q), BindStep(q) \/ PermitReject(q)
        PROVE  bind'[p].jobs # {}
    <3>1. bind'[p] = bind[p] \/ bind'[p].pc # "record"
      <4>1. CASE PreBindPreFlight(q)
        BY <1>0, <4>1 DEF PreBindPreFlight, BindType
      <4>2. CASE RecordJobIDs(q) \/ PreBindStamp(q)
        BY <1>0, <4>2 DEF RecordJobIDs, PreBindStamp, BindType
      <4>3. CASE PreBindFails(q) \/ Bind(q) \/ PermitReject(q)
        BY <1>0, <4>3 DEF PreBindFails, Bind, PermitReject, NoBind
      <4>. QED BY <2>6, <4>1, <4>2, <4>3 DEF BindStep
    <3>. QED BY <2>2, <3>1
  <2>7. ASSUME NEW h \in Groups, PermitAllow(h)
        PROVE  bind'[p].jobs # {}
    <3>1. bind'[p] = bind[p] \/ bind'[p].pc \in {"bind", "prebind"}
      BY <1>0, <2>7 DEF PermitAllow, BindType
    <3>. QED BY <2>2, <3>1
  <2>8. CASE \/ \E q \in Pods : PreFilterCached(q) \/ PreFilterMiss(q) \/ Ungate(q) \/ Finish(q) \/ DeletePod(q)
             \/ \E w \in Informers : CancelGroup(w)
             \/ \E h \in Groups : ReconcileGroup(h) \/ UserDeletesPodGroup(h) \/ Recreate(h)
             \/ UNCHANGED vars
    <3>1. UNCHANGED bind
      BY <2>8 DEF PreFilterCached, PreFilterMiss, Ungate, Finish, DeletePod, CancelGroup, CancelGroupRead,
                  CancelGroupCancel, CancelGroupDrop, ReconcileGroup, UserDeletesPodGroup, RemovePodGroup,
                  Recreate, vars
    <3>. QED BY <2>1, <3>1
  <2>. QED BY <2>4, <2>5, <2>6, <2>7, <2>8 DEF PluginStep, Next
<1>. QED
  BY <1>1, <1>2, <1>3 DEF MemoWhole

LEMMA PendingNext ==
  ASSUME TypeOK, PendingOnly, PluginStep, EarlyDelete = FALSE
  PROVE  PendingOnly'
<1>1. ASSUME NEW p \in Pods, bind'[p].pc # "none"
      PROVE  pod'[p].phase = "pending"
  <2>1. PodMoves(p)
    BY PodStep
  <2>2. bind[p].pc # "none" => pod[p].phase = "pending"
    BY DEF PendingOnly
  <2>3. CASE Reserve /\ cycle.pod = p /\ pod'[p].phase = pod[p].phase
    BY <2>3 DEF PendingOnly, Reserve
  <2>. QED BY <1>1, <2>1, <2>2, <2>3 DEF PodMoves
<1>2. ASSUME cycle'.pc # "idle"
      PROVE  pod'[cycle'.pod].phase = "pending" /\ bind'[cycle'.pod].pc = "none"
  <2>1. CASE cycle'.pod = cycle.pod /\ cycle.pc # "idle" /\ ~Reserve
    <3>1. pod[cycle.pod].phase = "pending" /\ bind[cycle.pod].pc = "none" /\ cycle.pod \in Pods
      BY <2>1 DEF PendingOnly, TypeOK
    <3>2. PodMoves(cycle.pod)
      BY <3>1, PodStep
    <3>. QED BY <2>1, <3>1, <3>2 DEF PodMoves
  <2>2. ASSUME NEW p \in Pods, PreFilterCached(p) \/ PreFilterMiss(p), cycle'.pod = p
        PROVE  pod'[cycle'.pod].phase = "pending" /\ bind'[cycle'.pod].pc = "none"
    BY <2>2 DEF PreFilterCached, PreFilterMiss
  <2>. QED BY <1>2, <2>1, <2>2, CyclePodStep
<1>. QED
  BY <1>1, <1>2 DEF PendingOnly

LEMMA OwnerOutlivesNext ==
  ASSUME TypeOK, MemoWhole, PendingOnly, OwnerOutlivesPods, PluginStep, EarlyDelete = FALSE
  PROVE  OwnerOutlivesPods'
<1> SUFFICES ASSUME NEW g \in Groups, ~owner'[g].exists, NEW p \in Members(g)
             PROVE  pod'[p].phase \in {"done", "gone"}
  BY DEF OwnerOutlivesPods, Members
<1>1. CASE Removed(g)
  BY <1>1 DEF Removed
<1>2. CASE ~owner[g].exists
  <2>1. /\ pod[p].phase \in {"done", "gone"} /\ p \in Pods /\ GroupOf[p] = g
    BY <1>2 DEF OwnerOutlivesPods, Members
  <2>2. bind[p].pc = "none" /\ ~(Reserve /\ cycle.pod = p)
    BY <2>1 DEF PendingOnly, Reserve
  <2>3. CASE Recreate(g)
    BY <2>3 DEF Recreate, NewOwner, TypeOK
  <2>. QED BY <2>1, <2>2, <2>3, PodStep DEF PodMoves
<1>. QED
  BY <1>1, <1>2, OwnerStep DEF OwnerChanges

\* The scheduling cycle of a group with exclusions is past PreFilter only with
\* a placement.
LEMMA FilterAnchored ==
  ASSUME TypeOK, MemoWhole, ExclusionAnchored, PluginStep, cycle'.pc \in {"filter", "reserve"}
  PROVE  excluded'[CycleGroup'] = {} \/ memo'[CycleGroup'].jobs # {}
<1>0. TypeOK' /\ cycle'.pod \in Pods /\ CycleGroup' \in Groups
  BY TypeNext, ConstantsAssumption DEF PluginStep, TypeOK, CycleGroup
<1>1. CASE UNCHANGED cycle /\ ~PostFilter
  <2>1. CycleGroup' = CycleGroup
    BY <1>1 DEF CycleGroup
  <2>2. excluded[CycleGroup] = {} \/ memo[CycleGroup].jobs # {}
    BY <1>1 DEF ExclusionAnchored
  <2>3. CacheStep(CycleGroup)
    BY <1>0, <2>1, GroupCache
  <2>. QED BY <1>1, <2>1, <2>2, <2>3 DEF CacheStep, MemoWhole, StorePlacement
<1>2. ASSUME NEW p \in Pods, PreFilterCached(p), cycle'.pod = p
      PROVE  memo'[CycleGroup'].jobs # {}
  BY <1>2 DEF PreFilterCached, CycleGroup
<1>3. CASE StorePlacement /\ cycle'.pod = cycle.pod
  <2>1. CycleGroup' = CycleGroup /\ cycle.place.jobs # {}
    BY <1>3 DEF CycleGroup, StorePlacement, MemoWhole
  <2>. QED BY <1>0, <1>3, <2>1 DEF StorePlacement, TypeOK
<1>4. CASE FilterPass /\ cycle'.pod = cycle.pod
  BY <1>4 DEF CycleGroup, FilterPass, ExclusionAnchored
<1>. QED
  BY <1>1, <1>2, <1>3, <1>4, CycleFilterStep

LEMMA AnchoredNext ==
  ASSUME TypeOK, MemoWhole, PendingOnly, ExclusionAnchored, PluginStep, EarlyDelete = FALSE
  PROVE  ExclusionAnchored'
<1>1. ASSUME NEW g \in Groups, PostFilter, CycleGroup = g
      PROVE  /\ cycle.pod \in Members(g)
             /\ pod'[cycle.pod].phase = "pending" /\ bind'[cycle.pod].pc = "none"
  <2>1. cycle.pod \in Members(g)
    BY <1>1 DEF PostFilter, TypeOK, Members, CycleGroup
  <2>2. pod[cycle.pod].phase = "pending" /\ bind[cycle.pod].pc = "none" /\ pod' = pod
    BY <1>1 DEF PostFilter, PendingOnly
  <2>3. bind'[cycle.pod].pc = "none"
    BY <1>1, <2>1, <2>2 DEF PostFilter, Unreserve, NoBind, Members
  <2>. QED BY <2>1, <2>2, <2>3
<1>2. ASSUME NEW g \in Groups, excluded'[g] # {}
      PROVE  Members(g) # {}
  BY <1>1, <1>2, GroupCache DEF CacheStep, ExclusionAnchored
<1>3. ASSUME NEW g \in Groups, owner'[g].exists, excluded'[g] # {}
      PROVE  \/ owner'[g].jobs # {} \/ memo'[g].jobs # {}
             \/ \E p \in Members(g) : pod'[p].phase \in {"gated", "pending"} /\ bind'[p].pc = "none"
  <2>1. CASE PostFilter /\ CycleGroup = g
    BY <1>1, <2>1
  <2>2. CASE StorePlacement /\ memo'[g] = cycle.place
    BY <2>2 DEF StorePlacement, MemoWhole
  <2>3. CASE memo'[g] = memo[g] /\ excluded'[g] = excluded[g]
    <3>1. CASE Recreate(g)
      <4>1. PICK p \in Members(g) : TRUE
        BY <1>2, <1>3
      <4>2. /\ p \in Pods /\ bind'[p].pc = "none" /\ pod'[p] = NewPod(p)
        BY <3>1 DEF Recreate, Members
      <4>. QED BY <4>2 DEF NewPod
    <3>2. CASE owner'[g] = owner[g] \/ (owner[g].exists /\ owner'[g].jobs # {})
      <4>1. CASE owner[g].jobs # {} \/ memo[g].jobs # {}
        BY <2>3, <3>2, <4>1
      <4>2. ASSUME NEW p \in Members(g), pod[p].phase \in {"gated", "pending"}, bind[p].pc = "none"
            PROVE  \/ memo'[g].jobs # {}
                   \/ pod'[p].phase \in {"gated", "pending"} /\ bind'[p].pc = "none"
        <5>1. p \in Pods /\ GroupOf[p] = g
          BY DEF Members
        <5>2. CASE Reserve /\ cycle.pod = p
          BY <1>3, <2>3, <5>1, <5>2 DEF Reserve, ExclusionAnchored, CycleGroup
        <5>. QED BY <4>2, <5>1, <5>2, PodStep DEF PodMoves
      <4>. QED BY <1>3, <2>3, <3>2, <4>1, <4>2 DEF ExclusionAnchored
    <3>3. owner'[g] # [exists |-> FALSE, jobs |-> {}]
      BY <1>3
    <3>. QED BY <3>1, <3>2, <3>3, OwnerStep DEF OwnerChanges
  <2>. QED BY <1>3, <2>1, <2>2, <2>3, GroupCache DEF CacheStep
<1>. QED
  BY <1>2, <1>3, FilterAnchored DEF ExclusionAnchored, CycleGroup

LEMMA TeardownPendingNext ==
  ASSUME TeardownInv, PluginStep, EarlyDelete = FALSE
  PROVE  TeardownPending'
<1>0. TypeOK /\ MemoWhole /\ PendingOnly /\ OwnerOutlivesPods /\ ExclusionAnchored /\ TeardownPending
  BY DEF TeardownInv
<1> SUFFICES ASSUME NEW g \in Groups, ~owner'[g].exists
             PROVE  TearsDown(g)' \/ (memo'[g] = NoMemo /\ excluded'[g] = {})
  BY DEF TeardownPending
<1>1. CASE Removed(g) /\ owner[g].exists
  <2>1. \A p \in Members(g) : pod[p].phase \in {"done", "gone"}
    BY <1>1 DEF Removed
  <2>2. excluded[g] = {} \/ owner[g].jobs # {} \/ memo[g].jobs # {}
    BY <1>0, <1>1, <2>1 DEF ExclusionAnchored
  <2>3. CASE owner[g].jobs # {} \/ memo[g].jobs # {}
    <3>1. PICK w \in Informers : Notify(w, g)
      BY <1>1 DEF Removed
    <3>2. PICK i \in DOMAIN events'[w] : events'[w][i] = [key |-> g, jobs |-> owner[g].jobs]
      BY <1>0, <3>1, NotifyKeeps
    <3>3. memo' = memo
      BY <1>1 DEF Removed
    <3>. QED BY <2>3, <3>2, <3>3 DEF TearsDown
  <2>4. CASE owner[g].jobs = {} /\ memo[g].jobs = {}
    BY <1>0, <1>1, <2>2, <2>4 DEF MemoWhole, Removed
  <2>. QED BY <2>3, <2>4
<1>2. CASE ~owner[g].exists
  <2>1. ~(StorePlacement /\ CycleGroup = g) /\ ~(PostFilter /\ CycleGroup = g)
    <3> SUFFICES ASSUME cycle.pc # "idle", CycleGroup = g PROVE FALSE
      BY DEF StorePlacement, PostFilter
    <3>1. cycle.pod \in Members(g) /\ pod[cycle.pod].phase = "pending"
      BY <1>0 DEF TypeOK, CycleGroup, Members, PendingOnly
    <3>. QED BY <1>0, <1>2, <3>1 DEF OwnerOutlivesPods
  <2>2. CASE memo'[g] = memo[g] /\ excluded'[g] = excluded[g]
    BY <1>0, <1>2, <2>2, TeardownKept DEF TeardownPending
  <2>. QED BY <1>0, <2>1, <2>2, GroupCache DEF CacheStep
<1>. QED
  BY <1>0, <1>1, <1>2, OwnerStep DEF OwnerChanges

LEMMA TeardownNext ==
  ASSUME TeardownInv, [Next]_vars, EarlyDelete = FALSE
  PROVE  TeardownInv'
<1>1. CASE Restart
  BY <1>1, TeardownRestart
<1>2. CASE PluginStep
  BY <1>2, TypeNext, MemoWholeNext, PendingNext, OwnerOutlivesNext, AnchoredNext, TeardownPendingNext
     DEF TeardownInv, PluginStep
<1>. QED
  BY <1>1, <1>2 DEF PluginStep

\* Once a deleted owner's events are handled the plugin remembers nothing of
\* the name, however teardowns, matches of other groups, failed patches,
\* restarts and a reuse of the name interleave, if owners and pods are not
\* deleted before they complete (cancelGroup).
THEOREM TeardownsComplete ==
  ASSUME EarlyDelete = FALSE
  PROVE  Spec => []TeardownComplete
<1>1. TeardownInv /\ [Next]_vars => TeardownInv'
  BY EarlyDelete = FALSE, TeardownNext
<1>2. TeardownInv => TeardownComplete
  BY DEF TeardownInv, TeardownPending, TeardownComplete, TearsDown, Quiet
<1>. QED
  BY <1>1, <1>2, TeardownInit, PTL DEF Spec

-----------------------------------------------------------------------------
\* Owners and pods outlive their work, patches succeed, names are used once.
Steady == EarlyDelete = FALSE /\ MaxFaults = 0 /\ MaxRecreates = 0

LEMMA SteadySteps ==
  ASSUME TypeOK, Steady
  PROVE  ~Fault /\ \A g \in Groups : ~Recreate(g)
BY DEF TypeOK, SpentType, Steady, Fault, Recreate

-----------------------------------------------------------------------------
(* What a step other than Restart does to one binding goroutine, one event,  *)
(* one cancelGroup, one allocation.                                         *)

\* A binding goroutine goes from line to line; before Permit is through,
\* PostFilter may drop it.
BindMoves(p) ==
  \/ bind'[p] = bind[p]
  \/ /\ PostFilter /\ GroupOf[p] = CycleGroup
     /\ bind[p].pc \in {"preflight", "permit"} /\ bind'[p] = NoBind
  \/ Reserve /\ cycle.pod = p /\ bind'[p].pc = "preflight" /\ bind'[p].node = cycle.node
  \/ /\ PreBindPreFlight(p) /\ bind'[p].pc = "permit" /\ bind'[p].node = bind[p].node
     /\ bind'[p].skip = (memo[GroupOf[p]].jobs = {})
  \/ /\ PermitAllow(GroupOf[p]) /\ bind[p].pc = "permit" /\ bind'[p].node = bind[p].node
     /\ bind'[p].pc = IF bind[p].skip THEN "bind" ELSE "prebind"
  \/ /\ PreBind(p) /\ bind'[p].node = bind[p].node /\ bind'[p].jobs = memo[GroupOf[p]].jobs
     /\ bind'[p].pc = IF memo[GroupOf[p]].jobs = {} THEN "bind" ELSE "record"
  \/ RecordJobIDs(p) /\ bind'[p].pc = "stamp" /\ bind'[p].node = bind[p].node
  \/ PreBindStamp(p) /\ bind'[p].pc = "bind" /\ bind'[p].node = bind[p].node
  \/ Bind(p) /\ bind'[p] = NoBind

\* PreBind does not fail by itself: its pod is pending and its owner exists.
LEMMA PreBindSucceeds ==
  ASSUME TypeOK, PendingOnly, OwnerOutlivesPods, Steady, NEW p \in Pods,
         PreBindFails(p) \/ PermitReject(p)
  PROVE  FALSE
<1>1. ~Fault
  BY SteadySteps
<1>2. bind[p].pc # "none" /\ p \in Members(GroupOf[p]) /\ GroupOf[p] \in Groups
  BY ConstantsAssumption DEF PreBindFails, PermitReject, Members
<1>3. pod[p].phase = "pending" /\ owner[GroupOf[p]].exists
  BY <1>2 DEF PendingOnly, OwnerOutlivesPods
<1>. QED
  BY <1>1, <1>3 DEF PreBindFails, PermitReject, Stampable

LEMMA BindGoroutineStep ==
  ASSUME TypeOK, PendingOnly, OwnerOutlivesPods, Steady, PluginStep, NEW p \in Pods
  PROVE  BindMoves(p)
<1>0. bind \in [Pods -> BindType]
  BY DEF TypeOK
<1>1. CASE UNCHANGED bind
  BY <1>1 DEF BindMoves
<1>2. CASE CycleStep
  <2>1. CASE Reserve
    <3>1. [NoBind EXCEPT !.pc = "preflight", !.node = cycle.node].pc = "preflight"
      BY DEF NoBind
    <3>2. [NoBind EXCEPT !.pc = "preflight", !.node = cycle.node].node = cycle.node
      BY DEF NoBind
    <3>3. bind'[p] = IF p = cycle.pod THEN [NoBind EXCEPT !.pc = "preflight", !.node = cycle.node]
                     ELSE bind[p]
      BY <1>0, <2>1 DEF Reserve
    <3>. QED BY <2>1, <3>1, <3>2, <3>3 DEF BindMoves
  <2>2. CASE PostFilter
    <3>1. \/ bind'[p] = bind[p]
          \/ GroupOf[p] = CycleGroup /\ bind[p].pc \in {"preflight", "permit"} /\ bind'[p] = NoBind
      BY <2>2 DEF PostFilter, Unreserve
    <3>. QED BY <2>2, <3>1 DEF BindMoves
  <2>3. UNCHANGED bind \/ Reserve \/ PostFilter
    BY <1>2 DEF CycleStep, ListGroupPods, BuildJobspecs, MatchCompute, MatchDevice, MatchFails,
                CancelJobid, StorePlacement, FilterPass, FilterReject, ReserveFails
  <2>. QED BY <1>1, <2>1, <2>2, <2>3
<1>3. ASSUME NEW q \in Pods, BindStep(q) \/ PermitReject(q)
      PROVE  BindMoves(p)
  <2>0. ~PreBindFails(q) /\ ~PermitReject(q)
    BY PreBindSucceeds
  <2>1. CASE p # q
    <3>1. bind'[p] = bind[p]
      BY <1>0, <1>3, <2>0, <2>1
         DEF BindStep, PreBindPreFlight, PreBind, RecordJobIDs, PreBindStamp, Bind
    <3>. QED BY <3>1 DEF BindMoves
  <2>2. CASE p = q
    <3>1. CASE PreBindPreFlight(p)
      BY <1>0, <3>1 DEF PreBindPreFlight, BindType, BindMoves
    <3>2. CASE PreBind(p)
      BY <1>0, <3>2 DEF PreBind, BindType, BindMoves
    <3>3. CASE RecordJobIDs(p)
      BY <1>0, <3>3 DEF RecordJobIDs, BindType, BindMoves
    <3>4. CASE PreBindStamp(p)
      BY <1>0, <3>4 DEF PreBindStamp, BindType, BindMoves
    <3>5. CASE Bind(p)
      BY <1>0, <3>5 DEF Bind, BindMoves
    <3>. QED BY <1>3, <2>0, <2>2, <3>1, <3>2, <3>3, <3>4, <3>5 DEF BindStep
  <2>. QED BY <2>1, <2>2
<1>4. ASSUME NEW h \in Groups, PermitAllow(h)
      PROVE  BindMoves(p)
  <2>1. CASE p \in Members(h) /\ bind[p].pc = "permit"
    <3>1. bind'[p] = [bind[p] EXCEPT !.pc = IF bind[p].skip THEN "bind" ELSE "prebind"]
      BY <1>4, <2>1 DEF PermitAllow
    <3>2. /\ bind'[p].pc = IF bind[p].skip THEN "bind" ELSE "prebind"
          /\ bind'[p].node = bind[p].node
      BY <1>0, <3>1 DEF BindType
    <3>. QED BY <1>4, <2>1, <3>2 DEF BindMoves, Members
  <2>2. CASE ~(p \in Members(h) /\ bind[p].pc = "permit")
    BY <1>4, <2>2 DEF PermitAllow, BindMoves
  <2>. QED BY <2>1, <2>2
<1>5. CASE \/ \E q \in Pods : PreFilterCached(q) \/ PreFilterMiss(q) \/ Ungate(q) \/ Finish(q) \/ DeletePod(q)
           \/ \E w \in Informers : CancelGroup(w)
           \/ \E h \in Groups : ReconcileGroup(h) \/ UserDeletesPodGroup(h) \/ Recreate(h)
           \/ UNCHANGED vars
  <2>1. UNCHANGED bind
    BY <1>5 DEF PreFilterCached, PreFilterMiss, Ungate, Finish, DeletePod, CancelGroup, CancelGroupRead,
                CancelGroupCancel, CancelGroupDrop, ReconcileGroup, UserDeletesPodGroup, RemovePodGroup,
                Recreate, vars
  <2>. QED BY <1>1, <2>1
<1>. QED
  BY <1>2, <1>3, <1>4, <1>5 DEF PluginStep, Next

\* An event is sent with the annotation when the last pod of its key is over.
Sent(e, g) ==
  /\ e = [key |-> g, jobs |-> owner[g].jobs]
  /\ \A p \in Members(g) : pod[p].phase # "pending" /\ pod'[p].phase \in {"done", "gone"}
  /\ UNCHANGED memo

LEMMA EventStep ==
  ASSUME TypeOK, Steady, PluginStep, NEW w \in Informers, NEW i \in DOMAIN events'[w]
  PROVE  \/ \E k \in DOMAIN events[w] : events'[w][i] = events[w][k]
         \/ \E g \in Groups : Sent(events'[w][i], g)
<1>0. events \in [Informers -> Seq(EventType)] /\ pod \in [Pods -> PodType]
  BY DEF TypeOK
<1>1. CASE UNCHANGED events
  BY <1>1
<1>2. ASSUME NEW v \in Informers, NEW g \in Groups, Notify(v, g)
      PROVE  \/ \E k \in DOMAIN events[w] : events'[w][i] = events[w][k]
             \/ events'[w][i] = [key |-> g, jobs |-> owner[g].jobs]
  <2>1. \/ i \in DOMAIN events[w] /\ events'[w][i] = events[w][i]
        \/ events'[w][i] = [key |-> g, jobs |-> owner[g].jobs]
    BY <1>0, <1>2 DEF Notify
  <2>. QED BY <2>1
<1>3. ASSUME NEW v \in Informers, CancelGroupRead(v)
      PROVE  \E k \in DOMAIN events[w] : events'[w][i] = events[w][k]
  BY <1>0, <1>3 DEF CancelGroupRead
<1>4. ASSUME NEW p \in Pods, Finish(p) \/ DeletePod(p), ~UNCHANGED events
      PROVE  \/ \E k \in DOMAIN events[w] : events'[w][i] = events[w][k]
             \/ \E g \in Groups : Sent(events'[w][i], g)
  <2>1. /\ Notify("pod", GroupOf[p]) /\ "pod" \in Informers /\ GroupOf[p] \in Groups
        /\ GroupOf[p] \notin Grouped /\ UNCHANGED memo
    BY <1>4, ConstantsAssumption DEF Finish, DeletePod, Informers
  <2>2. \A q \in Members(GroupOf[p]) : q = p
    BY <2>1, LonePods DEF Members
  <2>3. pod[p].phase # "pending" /\ pod'[p].phase \in {"done", "gone"}
    <3>1. CASE Finish(p)
      BY <1>0, <3>1 DEF Finish, PodType
    <3>2. CASE DeletePod(p)
      BY <1>0, <3>2 DEF DeletePod, Steady
    <3>. QED BY <1>4, <3>1, <3>2
  <2>. QED BY <1>2, <2>1, <2>2, <2>3 DEF Sent
<1>5. ASSUME NEW g \in Groups, ReconcileGroup(g) \/ UserDeletesPodGroup(g)
      PROVE  \/ \E k \in DOMAIN events[w] : events'[w][i] = events[w][k]
             \/ Sent(events'[w][i], g)
  <2>1. ReconcileGroup(g) /\ Notify("podgroup", g) /\ "podgroup" \in Informers /\ UNCHANGED <<memo, pod>>
    BY <1>5 DEF ReconcileGroup, UserDeletesPodGroup, RemovePodGroup, Steady, Informers
  <2>2. \A p \in Members(g) : pod[p].phase # "pending" /\ pod'[p].phase \in {"done", "gone"}
    BY <2>1 DEF ReconcileGroup
  <2>. QED BY <1>2, <2>1, <2>2 DEF Sent
<1>6. CASE CycleStep
  BY <1>1, <1>6
     DEF CycleStep, ListGroupPods, BuildJobspecs, MatchCompute, MatchDevice, MatchFails, CancelJobid,
         StorePlacement, FilterPass, FilterReject, PostFilter, Reserve, ReserveFails
<1>7. ASSUME NEW p \in Pods, BindStep(p) \/ PermitReject(p) \/ PreFilterCached(p) \/ PreFilterMiss(p) \/ Ungate(p)
      PROVE  UNCHANGED events
  BY <1>7 DEF BindStep, PreBindPreFlight, PreBind, RecordJobIDs, PreBindStamp, PreBindFails, Bind,
              PermitReject, PreFilterCached, PreFilterMiss, Ungate
<1>8. CASE \/ \E v \in Informers : CancelGroupCancel(v) \/ CancelGroupDrop(v)
           \/ \E h \in Groups : PermitAllow(h) \/ Recreate(h)
           \/ UNCHANGED vars
  BY <1>1, <1>8 DEF CancelGroupCancel, CancelGroupDrop, PermitAllow, Recreate, vars
<1>. QED
  BY <1>1, <1>3, <1>4, <1>5, <1>6, <1>7, <1>8 DEF PluginStep, Next, CancelGroup

\* A cancelGroup takes the jobids of the event, or the placement's; cancels
\* them; and drops the placement.
HandlerMoves(w) ==
  \/ handler'[w] = handler[w]
  \/ /\ ~handler[w].busy /\ events[w] # <<>> /\ handler'[w].busy
     /\ LET e == events[w][1] IN
          /\ handler'[w].key = e.key
          /\ handler'[w].jobs = IF e.jobs # {} THEN e.jobs ELSE memo[e.key].jobs
     /\ UNCHANGED <<memo, job>>
  \/ /\ handler[w].busy /\ handler'[w].busy /\ handler'[w].key = handler[w].key /\ UNCHANGED memo
     /\ \E k \in JobIds : handler'[w].jobs = handler[w].jobs \ {k} /\ job'[k] = FreeJob
  \/ handler[w].jobs = {} /\ handler'[w] = IdleHandler

LEMMA HandlerStep ==
  ASSUME TypeOK, PluginStep, NEW w \in Informers
  PROVE  HandlerMoves(w)
<1>0. /\ events \in [Informers -> Seq(EventType)] /\ handler \in [Informers -> HandlerType]
      /\ job \in [JobIds -> Alloc]
  BY DEF TypeOK
<1>1. CASE UNCHANGED handler
  BY <1>1 DEF HandlerMoves
<1>2. ASSUME NEW v \in Informers, CancelGroup(v), v # w
      PROVE  HandlerMoves(w)
  <2>1. handler'[w] = handler[w]
    BY <1>0, <1>2 DEF CancelGroup, CancelGroupRead, CancelGroupCancel, CancelGroupDrop
  <2>. QED BY <2>1 DEF HandlerMoves
<1>3. CASE CancelGroupRead(w)
  <2>1. Head(events[w]) = events[w][1]
    BY <1>0, <1>3 DEF CancelGroupRead
  <2>2. CASE UNCHANGED handler
    BY <1>1, <2>2
  <2>3. CASE ~UNCHANGED handler
    BY <1>0, <1>3, <2>1, <2>3 DEF CancelGroupRead, HandlerMoves
  <2>. QED BY <2>2, <2>3
<1>4. CASE CancelGroupCancel(w)
  <2>1. PICK k \in handler[w].jobs : Cancel(k) /\ handler' = [handler EXCEPT ![w].jobs = @ \ {k}]
    BY <1>4 DEF CancelGroupCancel
  <2>2. k \in JobIds /\ job'[k] = FreeJob
    BY <1>0, <2>1, MemberTypes DEF Cancel
  <2>3. /\ handler'[w].busy = handler[w].busy /\ handler'[w].key = handler[w].key
        /\ handler'[w].jobs = handler[w].jobs \ {k}
    BY <1>0, <2>1 DEF HandlerType
  <2>. QED BY <1>4, <2>2, <2>3 DEF HandlerMoves, CancelGroupCancel
<1>5. CASE CancelGroupDrop(w)
  BY <1>0, <1>5 DEF CancelGroupDrop, HandlerMoves
<1>6. CASE CycleStep
  BY <1>1, <1>6, CycleStepEffect DEF CycleEffect
<1>7. ASSUME NEW p \in Pods, \/ BindStep(p) \/ PermitReject(p) \/ PreFilterCached(p) \/ PreFilterMiss(p)
                             \/ Ungate(p) \/ Finish(p) \/ DeletePod(p)
      PROVE  UNCHANGED handler
  BY <1>7 DEF BindStep, PreBindPreFlight, PreBind, RecordJobIDs, PreBindStamp, PreBindFails, Bind,
              PermitReject, PreFilterCached, PreFilterMiss, Ungate, Finish, DeletePod
<1>8. CASE \/ \E h \in Groups : PermitAllow(h) \/ Recreate(h) \/ ReconcileGroup(h) \/ UserDeletesPodGroup(h)
           \/ UNCHANGED vars
  BY <1>1, <1>8 DEF PermitAllow, Recreate, ReconcileGroup, UserDeletesPodGroup, RemovePodGroup, vars
<1>. QED
  BY <1>1, <1>2, <1>3, <1>4, <1>5, <1>6, <1>7, <1>8 DEF PluginStep, Next, CancelGroup

\* Only the match in flight gives its group something.
LEMMA GroupJobs ==
  ASSUME TypeOK, PluginStep, NEW g \in Groups, NEW j \in JobIds, job'[j].group = g
  PROVE  job[j].group = g \/ (Issued(g, j) /\ CycleGroup = g /\ cycle.pc \in MatchPcs)
<1>1. FreeJob.group # g
  BY ConstantsAssumption DEF FreeJob
<1>2. OutsideEffect \/ CycleEffect
  BY CycleStepEffect, OutsideStep
<1>. QED
  BY <1>1, <1>2 DEF OutsideEffect, CycleEffect, TornDown, RolledBack, Issued, MatchPcs

-----------------------------------------------------------------------------
(* The conjuncts of AccountInv.                                             *)

\* Who is scheduled or bound is pending, so its group is not over.
LEMMA BusyNotOver ==
  ASSUME TypeOK, PendingOnly
  PROVE  /\ cycle.pc # "idle" => cycle.pod \in Members(CycleGroup) /\ CycleGroup \in Groups /\ ~Over(CycleGroup)
         /\ \A p \in Pods : bind[p].pc # "none" => p \in Members(GroupOf[p]) /\ ~Over(GroupOf[p])
BY ConstantsAssumption DEF TypeOK, PendingOnly, Members, CycleGroup, Over

LEMMA EventTypes ==
  ASSUME TypeOK, NEW w \in Informers
  PROVE  /\ \A i \in DOMAIN events[w] : events[w][i].key \in Groups /\ events[w][i].jobs \subseteq JobIds
         /\ events[w] # <<>> => 1 \in DOMAIN events[w]
<1>1. events[w] \in Seq(EventType)
  BY DEF TypeOK
<1>2. \A i \in DOMAIN events[w] : events[w][i] \in EventType
  BY <1>1
<1>. QED
  BY <1>1, <1>2 DEF EventType

LEMMA OverKept ==
  ASSUME TypeOK, PendingOnly, Steady, PluginStep, NEW g \in Groups, Over(g)
  PROVE  Over(g)' /\ memo'[g].jobs \subseteq memo[g].jobs
<1>1. ASSUME NEW p \in Members(g) PROVE pod'[p].phase \in {"done", "gone"}
  <2>1. p \in Pods /\ pod[p].phase \in {"done", "gone"} /\ bind[p].pc = "none"
    BY DEF Over, Members, PendingOnly
  <2>. QED BY <2>1, PodStep, SteadySteps, ConstantsAssumption DEF PodMoves, Steady
<1>2. ~(StorePlacement /\ CycleGroup = g) /\ ~(PostFilter /\ CycleGroup = g)
  BY BusyNotOver DEF StorePlacement, PostFilter
<1>. QED
  BY <1>1, <1>2, GroupCache DEF CacheStep, Over, NoMemo

LEMMA SingleWriterNext ==
  ASSUME TypeOK, SingleWriter, PluginStep
  PROVE  SingleWriter'
<1> SUFFICES ASSUME NEW g \in Groups, Matching(g)'
             PROVE  memo'[g].jobs = {}
  BY DEF SingleWriter
<1>1. CASE CycleEffect
  BY <1>1 DEF CycleEffect, SingleWriter
<1>2. CASE OutsideEffect
  <2>1. Matching(g)
    BY <1>2 DEF OutsideEffect, Matching, CycleGroup
  <2>. QED BY <1>2, <2>1 DEF OutsideEffect, SingleWriter, NoMemo
<1>. QED
  BY <1>1, <1>2, CycleStepEffect, OutsideStep

\* The gang's Permit lets nobody through before everybody has arrived.
LEMMA PermitWhole ==
  ASSUME FullGangs, NEW g \in Groups, PermitAllow(g), NEW q \in Members(g)
  PROVE  bind[q].pc \notin {"none", "preflight"} \/ pod[q].phase \in {"bound", "done"}
<1> DEFINE arrived == {p \in Members(g) : \/ bind[p].pc \notin {"none", "preflight"}
                                          \/ pod[p].phase \in {"bound", "done"}}
<1>1. IsFiniteSet(Members(g)) /\ arrived \subseteq Members(g)
  BY FS_Subset, ConstantsAssumption DEF Members
<1>2. Cardinality(arrived) >= MinCount[g] /\ Cardinality(Members(g)) <= MinCount[g]
  BY DEF PermitAllow, FullGangs
<1>3. /\ Cardinality(arrived) \in Nat /\ Cardinality(Members(g)) \in Nat /\ MinCount[g] \in Nat
      /\ Cardinality(arrived) <= Cardinality(Members(g))
      /\ Cardinality(arrived) = Cardinality(Members(g)) => arrived = Members(g)
  BY <1>1, FS_Subset, FS_CardinalityType, ConstantsAssumption
<1>4. arrived = Members(g)
  BY <1>2, <1>3
<1>. QED
  BY <1>4

LEMMA PastGateStep ==
  ASSUME TypeOK, PendingOnly, OwnerOutlivesPods, Steady, PluginStep, NEW p \in Pods, PastGate(p)'
  PROVE  PastGate(p) \/ PermitAllow(GroupOf[p])
<1>1. BindMoves(p)
  BY BindGoroutineStep
<1>2. bind'[p].pc \in {"prebind", "record", "stamp", "bind"}
  BY DEF PastGate
<1>3. CASE bind'[p] = bind[p]
  BY <1>2, <1>3 DEF PastGate
<1>4. CASE bind'[p] = NoBind
  BY <1>2, <1>4 DEF NoBind
<1>5. CASE PreBind(p) \/ RecordJobIDs(p) \/ PreBindStamp(p)
  BY <1>5 DEF PreBind, RecordJobIDs, PreBindStamp, PastGate
<1>. QED
  BY <1>1, <1>2, <1>3, <1>4, <1>5 DEF BindMoves

\* Who is through is through for good.
LEMMA ThroughKept ==
  ASSUME TypeOK, PendingOnly, OwnerOutlivesPods, Steady, PluginStep, NEW q \in Pods,
         PastGate(q) \/ pod[q].phase \in {"bound", "done", "gone"}
  PROVE  PastGate(q)' \/ pod'[q].phase \in {"bound", "done", "gone"}
<1>1. CASE PastGate(q)
  <2>1. CASE Bind(q)
    BY <1>1, <2>1 DEF Bind, PastGate, PendingOnly, TypeOK, PodType
  <2>2. CASE ~Bind(q)
    <3>1. ~(Reserve /\ cycle.pod = q)
      BY <1>1 DEF Reserve, PendingOnly, PastGate
    <3>2. BindMoves(q)
      BY BindGoroutineStep
    <3>. QED BY <1>1, <2>2, <3>1, <3>2 DEF BindMoves, PastGate, PreBindPreFlight
  <2>. QED BY <2>1, <2>2
<1>2. CASE pod[q].phase \in {"bound", "done", "gone"}
  <2>1. bind[q].pc = "none"
    BY <1>2 DEF PendingOnly
  <2>. QED BY <1>2, <2>1, PodStep, SteadySteps, ConstantsAssumption DEF PodMoves, Steady
<1>. QED
  BY <1>1, <1>2

LEMMA GateNext ==
  ASSUME TypeOK, PendingOnly, OwnerOutlivesPods, GateWhole, Steady, FullGangs, PluginStep
  PROVE  GateWhole'
<1> SUFFICES ASSUME NEW g \in Groups, NEW p \in Members(g), PastGate(p)', NEW q \in Members(g)
             PROVE  PastGate(q)' \/ pod'[q].phase \in {"bound", "done", "gone"}
  BY DEF GateWhole, Members
<1>0. p \in Pods /\ q \in Pods /\ GroupOf[p] = g /\ GroupOf[q] = g
  BY DEF Members
<1>1. CASE PermitAllow(g)
  <2>1. CASE bind[q].pc = "permit"
    <3>1. bind'[q] = [bind[q] EXCEPT !.pc = IF bind[q].skip THEN "bind" ELSE "prebind"]
      BY <1>0, <1>1, <2>1 DEF PermitAllow
    <3>. QED BY <1>0, <3>1 DEF TypeOK, BindType, PastGate
  <2>2. CASE bind[q].pc # "permit"
    <3>1. PastGate(q) \/ pod[q].phase \in {"bound", "done"}
      BY <1>0, <1>1, <2>2, PermitWhole DEF TypeOK, BindType, BindPcs, PastGate
    <3>. QED BY <1>0, <3>1, ThroughKept
  <2>. QED BY <2>1, <2>2
<1>2. CASE ~PermitAllow(g)
  <2>1. PastGate(q) \/ pod[q].phase \in {"bound", "done", "gone"}
    BY <1>0, <1>2, PastGateStep DEF GateWhole
  <2>. QED BY <1>0, <2>1, ThroughKept
<1>. QED
  BY <1>1, <1>2

\* Past Permit a group's placement stays: no member is matched or rejected any
\* more, and none is over yet.
LEMMA MemoPastGate ==
  ASSUME TypeOK, PendingOnly, GateWhole, TeardownAfterPods, PluginStep, NEW p \in Pods, PastGate(p)
  PROVE  memo'[GroupOf[p]] = memo[GroupOf[p]]
<1> DEFINE g == GroupOf[p]
<1>0. g \in Groups /\ p \in Members(g) /\ ~Over(g)
  BY BusyNotOver, ConstantsAssumption DEF PastGate
<1>1. ASSUME cycle.pc # "idle", CycleGroup = g PROVE FALSE
  <2>1. cycle.pod \in Members(g) /\ pod[cycle.pod].phase = "pending" /\ bind[cycle.pod].pc = "none"
    BY <1>1, BusyNotOver DEF PendingOnly
  <2>. QED BY <1>0, <2>1 DEF GateWhole, PastGate
<1>2. ASSUME NEW w \in Informers, CancelGroupDrop(w), handler[w].key = g PROVE FALSE
  BY <1>0, <1>2 DEF CancelGroupDrop, TeardownAfterPods
<1>. QED
  BY <1>0, <1>1, <1>2, GroupCache DEF CacheStep, StorePlacement, PostFilter

LEMMA RecordsMemoNext ==
  ASSUME TypeOK, PendingOnly, OwnerOutlivesPods, GateWhole, TeardownAfterPods, RecordsMemo,
         Steady, PluginStep
  PROVE  RecordsMemo'
<1> SUFFICES ASSUME NEW p \in Pods, bind'[p].pc = "record"
             PROVE  bind'[p].jobs = memo'[GroupOf[p]].jobs
  BY DEF RecordsMemo
<1>1. CASE bind'[p] = bind[p]
  BY <1>1, MemoPastGate DEF RecordsMemo, PastGate
<1>2. CASE PreBind(p) /\ bind'[p].jobs = memo[GroupOf[p]].jobs
  BY <1>2, MemoPastGate DEF PreBind, PastGate
<1>. QED
  BY <1>1, <1>2, BindGoroutineStep DEF BindMoves, NoBind

LEMMA AfterPodsNext ==
  ASSUME TypeOK, PendingOnly, TeardownAfterPods, Steady, PluginStep
  PROVE  TeardownAfterPods'
<1> DEFINE OverNow(g) == \A p \in Members(g) : pod'[p].phase \in {"done", "gone"}
<1>1. ASSUME NEW w \in Informers, NEW i \in DOMAIN events'[w]
      PROVE  OverNow(events'[w][i].key)
  <2>1. ASSUME NEW k \in DOMAIN events[w], events'[w][i] = events[w][k]
        PROVE  OverNow(events'[w][i].key)
    <3>1. events[w][k].key \in Groups /\ Over(events[w][k].key)
      BY EventTypes DEF TeardownAfterPods
    <3>. QED BY <2>1, <3>1, OverKept DEF Over
  <2>2. ASSUME NEW g \in Groups, Sent(events'[w][i], g)
        PROVE  OverNow(events'[w][i].key)
    BY <2>2 DEF Sent, Over
  <2>. QED BY <2>1, <2>2, EventStep
<1>2. ASSUME NEW w \in Informers
      PROVE  IF handler'[w].busy THEN OverNow(handler'[w].key) ELSE handler'[w].jobs = {}
  <2>1. CASE handler'[w].busy /\ handler[w].busy /\ handler'[w].key = handler[w].key
    <3>1. handler[w].key \in Groups /\ Over(handler[w].key)
      BY <2>1 DEF TypeOK, TeardownAfterPods
    <3>. QED BY <2>1, <3>1, OverKept DEF Over
  <2>2. CASE handler'[w].busy /\ events[w] # <<>> /\ handler'[w].key = events[w][1].key
    <3>1. 1 \in DOMAIN events[w] /\ events[w][1].key \in Groups
      BY <2>2, EventTypes
    <3>2. Over(events[w][1].key)
      BY <3>1 DEF TeardownAfterPods
    <3>. QED BY <2>2, <3>1, <3>2, OverKept DEF Over
  <2>3. CASE handler'[w] = IdleHandler
    BY <2>3 DEF IdleHandler
  <2>4. CASE handler'[w] = handler[w] /\ ~handler[w].busy
    BY <2>4 DEF TeardownAfterPods
  <2>. QED BY <2>1, <2>2, <2>3, <2>4, HandlerStep DEF HandlerMoves
<1>. QED
  BY <1>1, <1>2 DEF TeardownAfterPods, Over

\* Who is to record the placement still is, or has.
LEMMA RecorderKept ==
  ASSUME TypeOK, PendingOnly, OwnerOutlivesPods, RecordsMemo, Steady, PluginStep,
         NEW p \in Pods, WillRecord(p), memo[GroupOf[p]].jobs # {}
  PROVE  \/ WillRecord(p)'
         \/ RecordJobIDs(p) /\ bind[p].jobs = memo[GroupOf[p]].jobs
<1>1. pod[p].phase = "pending" /\ bind[p].pc \notin {"stamp", "bind"}
  BY DEF WillRecord
<1>2. pod'[p].phase = "pending"
  BY <1>1, PodStep DEF PodMoves, Steady
<1>3. CASE bind'[p] = bind[p]
  BY <1>2, <1>3 DEF WillRecord
<1>4. CASE bind'[p].pc \in {"none", "preflight"}
  BY <1>2, <1>4 DEF WillRecord
<1>5. CASE bind'[p].pc = "permit" /\ bind'[p].skip = (memo[GroupOf[p]].jobs = {})
  BY <1>2, <1>5 DEF WillRecord
<1>6. CASE bind[p].pc = "permit" /\ bind'[p].pc = IF bind[p].skip THEN "bind" ELSE "prebind"
  BY <1>2, <1>6 DEF WillRecord
<1>7. CASE bind'[p].pc = IF memo[GroupOf[p]].jobs = {} THEN "bind" ELSE "record"
  BY <1>2, <1>7 DEF WillRecord
<1>8. CASE RecordJobIDs(p)
  BY <1>8 DEF RecordJobIDs, RecordsMemo
<1>9. ~PreBindStamp(p) /\ ~Bind(p)
  BY <1>1 DEF PreBindStamp, Bind
<1>10. NoBind.pc = "none"
  BY DEF NoBind
<1>. QED
  BY <1>3, <1>4, <1>5, <1>6, <1>7, <1>8, <1>9, <1>10, BindGoroutineStep DEF BindMoves

LEMMA AnnotationNext ==
  ASSUME TypeOK, MemoWhole, PendingOnly, OwnerOutlivesPods, RecordsMemo, AnnotationCurrent,
         Steady, PluginStep
  PROVE  AnnotationCurrent'
<1> SUFFICES ASSUME NEW g \in Groups, owner'[g].exists, memo'[g].jobs # {}
             PROVE  owner'[g].jobs = memo'[g].jobs \/ \E p \in Members(g) : WillRecord(p)'
  BY DEF AnnotationCurrent, Members
<1>0. owner \in [Groups -> OwnerType] /\ EarlyDelete = FALSE
  BY DEF TypeOK, Steady
<1>1. CASE StorePlacement /\ CycleGroup = g
  <2>1. /\ cycle.pod \in Members(g) /\ pod[cycle.pod].phase = "pending" /\ bind[cycle.pod].pc = "none"
        /\ UNCHANGED <<pod, bind>>
    BY <1>1, BusyNotOver DEF StorePlacement, PendingOnly
  <2>. QED BY <2>1 DEF WillRecord
<1>2. CASE memo'[g] = memo[g]
  <2>1. CASE owner'[g] = owner[g]
    <3>1. CASE owner[g].jobs = memo[g].jobs
      BY <1>2, <2>1, <3>1
    <3>2. ASSUME NEW p \in Members(g), WillRecord(p)
          PROVE  owner'[g].jobs = memo'[g].jobs \/ WillRecord(p)'
      <4>1. p \in Pods /\ GroupOf[p] = g
        BY DEF Members
      <4>2. RecordJobIDs(p) => owner'[g].jobs = bind[p].jobs
        BY <1>0, <4>1 DEF RecordJobIDs, OwnerType
      <4>. QED BY <1>2, <3>2, <4>1, <4>2, RecorderKept
    <3>. QED BY <1>2, <2>1, <3>1, <3>2 DEF AnnotationCurrent
  <2>2. ASSUME NEW p \in Members(g), RecordJobIDs(p), owner'[g].jobs = bind[p].jobs
        PROVE  owner'[g].jobs = memo'[g].jobs
    BY <1>2, <2>2 DEF RecordJobIDs, RecordsMemo, Members
  <2>3. owner'[g] # [exists |-> FALSE, jobs |-> {}]
    OBVIOUS
  <2>. QED BY <1>0, <2>1, <2>2, <2>3, OwnerStep, SteadySteps DEF OwnerChanges
<1>3. CASE memo'[g] = NoMemo
  BY <1>3 DEF NoMemo
<1>4. CASE PostFilter /\ CycleGroup = g
  <2>1. memo'[g] = NoMemo
    BY <1>4 DEF PostFilter, TypeOK
  <2>. QED BY <1>3, <2>1
<1>. QED
  BY <1>1, <1>2, <1>3, <1>4, GroupCache DEF CacheStep

LEMMA CoversNext ==
  ASSUME TypeOK, PendingOnly, TeardownAfterPods, AnnotationCurrent, TeardownCovers,
         \A g \in Groups : ~owner[g].exists => owner[g].jobs = {},
         Steady, PluginStep
  PROVE  TeardownCovers'
<1>1. ASSUME NEW w \in Informers, NEW i \in DOMAIN events'[w]
      PROVE  events'[w][i].jobs = {} \/ memo'[events'[w][i].key].jobs \subseteq events'[w][i].jobs
  <2>1. ASSUME NEW k \in DOMAIN events[w], events'[w][i] = events[w][k]
        PROVE  events'[w][i].jobs = {} \/ memo'[events'[w][i].key].jobs \subseteq events'[w][i].jobs
    <3>1. events[w][k].key \in Groups /\ Over(events[w][k].key)
      BY EventTypes DEF TeardownAfterPods
    <3>2. memo'[events[w][k].key].jobs \subseteq memo[events[w][k].key].jobs
      BY <3>1, OverKept
    <3>. QED BY <2>1, <3>2 DEF TeardownCovers
  <2>2. ASSUME NEW g \in Groups, Sent(events'[w][i], g)
        PROVE  events'[w][i].jobs = {} \/ memo'[events'[w][i].key].jobs \subseteq events'[w][i].jobs
    <3>1. events'[w][i].key = g /\ events'[w][i].jobs = owner[g].jobs /\ memo' = memo
      BY <2>2 DEF Sent
    <3>2. ~\E p \in Members(g) : WillRecord(p)
      BY <2>2 DEF Sent, WillRecord
    <3>. QED BY <3>1, <3>2 DEF AnnotationCurrent
  <2>. QED BY <2>1, <2>2, EventStep
<1>2. ASSUME NEW w \in Informers, handler'[w].busy, NEW j \in memo'[handler'[w].key].jobs
      PROVE  j \in handler'[w].jobs \/ job'[j].group # handler'[w].key
  <2>1. CASE /\ ~handler[w].busy /\ events[w] # <<>> /\ memo' = memo
             /\ handler'[w].key = events[w][1].key
             /\ handler'[w].jobs = IF events[w][1].jobs # {} THEN events[w][1].jobs
                                   ELSE memo[events[w][1].key].jobs
    <3>1. 1 \in DOMAIN events[w]
      BY <2>1, EventTypes
    <3>. QED BY <1>2, <2>1, <3>1 DEF TeardownCovers
  <2>2. CASE handler[w].busy /\ handler'[w].key = handler[w].key
    <3>1. handler[w].key \in Groups /\ Over(handler[w].key)
      BY <2>2 DEF TypeOK, TeardownAfterPods
    <3>2. j \in memo[handler[w].key].jobs
      BY <2>2, <3>1, OverKept
    <3>3. j \in JobIds
      BY <3>1, <3>2, MemberTypes
    <3>4. job[j].group # handler[w].key => job'[j].group # handler[w].key
      BY <3>1, <3>3, GroupJobs, BusyNotOver DEF MatchPcs
    <3>5. CASE job[j].group # handler[w].key
      BY <2>2, <3>4, <3>5
    <3>6. CASE j \in handler[w].jobs
      <4>1. CASE handler'[w] = handler[w]
        BY <3>6, <4>1
      <4>2. ASSUME NEW k \in JobIds, handler'[w].jobs = handler[w].jobs \ {k}, job'[k] = FreeJob
            PROVE  j \in handler'[w].jobs \/ job'[j].group # handler'[w].key
        BY <2>2, <3>1, <3>6, <4>2, ConstantsAssumption DEF FreeJob
      <4>3. CASE handler[w].jobs = {}
        BY <3>6, <4>3
      <4>. QED BY <2>2, <4>1, <4>2, <4>3, HandlerStep DEF HandlerMoves
    <3>. QED BY <2>2, <3>2, <3>5, <3>6 DEF TeardownCovers
  <2>3. CASE handler'[w] = IdleHandler
    BY <1>2, <2>3 DEF IdleHandler
  <2>. QED BY <1>2, <2>1, <2>2, <2>3, HandlerStep DEF HandlerMoves
<1>. QED
  BY <1>1, <1>2 DEF TeardownCovers

\* Fluxion's numbering moves on only by a match.
LEMMA IssuedByMatch ==
  ASSUME TypeOK, PluginStep, nextJob' = nextJob + 1
  PROVE  MatchCompute \/ MatchDevice
<1>1. nextJob' # nextJob
  BY ConstantsAssumption DEF TypeOK
<1>2. CycleStep
  BY <1>1, OutsideStep DEF OutsideEffect, PreFilterCached, PreFilterMiss
<1>. QED
  BY <1>1, <1>2
     DEF CycleStep, ListGroupPods, BuildJobspecs, MatchFails, CancelJobid, StorePlacement, FilterPass,
         FilterReject, PostFilter, Reserve, ReserveFails

LEMMA UnwindKeeps ==
  ASSUME NEW jobs, NEW j \in jobs, Unwind(jobs)
  PROVE  cycle'.pc = "cancel" /\ cycle'.pod = cycle.pod /\ cycle'.place.jobs = jobs
BY DEF Unwind, IdleCycle, NoMemo

\* What the match or the rollback in flight has obtained stays in hand until
\* it is stored or cancelled.
LEMMA HandAccounted ==
  ASSUME TypeOK, PluginStep, cycle.pc = "pods" => cycle.place.jobs = {},
         NEW g \in Groups, Matching(g), NEW j \in cycle.place.jobs, job'[j].group = g
  PROVE  (Matching(g)' /\ j \in cycle'.place.jobs) \/ j \in memo'[g].jobs
<1>0. /\ cycle \in CycleType /\ CycleGroup = g /\ j \in JobIds
      /\ cycle.pc \in MatchPcs \cup {"cancel"} /\ g # NoGroup
  BY MemberTypes, ConstantsAssumption DEF TypeOK, Matching
<1>1. CASE UNCHANGED cycle
  BY <1>1 DEF Matching, CycleGroup
<1>2. CASE ListGroupPods
  BY <1>2 DEF ListGroupPods
<1>3. CASE BuildJobspecs
  <2>1. cycle'.pc = "compute" /\ cycle'.pod = cycle.pod /\ cycle'.place = cycle.place
    BY <1>0, <1>3 DEF BuildJobspecs, CycleType
  <2>. QED BY <1>0, <2>1 DEF Matching, CycleGroup, MatchPcs
<1>4. CASE MatchCompute \/ MatchDevice
  <2>1. /\ cycle'.pc \in {"device", "store", "cancel"} /\ cycle'.pod = cycle.pod
        /\ j \in cycle'.place.jobs
    BY <1>4, MatchHand
  <2>. QED BY <1>0, <2>1 DEF Matching, CycleGroup, MatchPcs
<1>5. ASSUME NEW jobs, j \in jobs, Unwind(jobs)
      PROVE  Matching(g)' /\ j \in cycle'.place.jobs
  BY <1>0, <1>5, UnwindKeeps DEF Matching, CycleGroup
<1>6. CASE MatchFails
  BY <1>5, <1>6 DEF MatchFails
<1>7. CASE CancelJobid
  <2>1. PICK k \in cycle.place.jobs : Cancel(k) /\ Unwind(cycle.place.jobs \ {k})
    BY <1>7 DEF CancelJobid
  <2>2. k \in JobIds /\ job'[k] = FreeJob
    BY <2>1, MemberTypes DEF Cancel, TypeOK
  <2>3. j # k
    BY <1>0, <2>2 DEF FreeJob
  <2>. QED BY <1>5, <2>1, <2>3
<1>8. CASE StorePlacement
  BY <1>0, <1>8 DEF StorePlacement, TypeOK
<1>9. CASE FilterPass \/ FilterReject \/ PostFilter \/ Reserve \/ ReserveFails
  BY <1>0, <1>9 DEF FilterPass, FilterReject, PostFilter, Reserve, ReserveFails, MatchPcs
<1>10. ASSUME NEW p \in Pods, PreFilterCached(p) \/ PreFilterMiss(p) PROVE FALSE
  BY <1>0, <1>10 DEF PreFilterCached, PreFilterMiss, MatchPcs
<1>. QED
  BY <1>1, <1>2, <1>3, <1>4, <1>6, <1>7, <1>8, <1>9, <1>10, OutsideStep DEF OutsideEffect, CycleStep

\* What the placement names stays named, or goes on to a rollback's hand.
LEMMA MemoAccounted ==
  ASSUME TypeOK, SingleWriter, TeardownCovers, PluginStep,
         NEW g \in Groups, NEW j \in memo[g].jobs, job[j].group = g
  PROVE  (Matching(g)' /\ j \in cycle'.place.jobs) \/ j \in memo'[g].jobs
<1>1. CASE memo'[g] = memo[g]
  BY <1>1
<1>2. ASSUME NEW w \in Informers, CancelGroupDrop(w), handler[w].key = g PROVE FALSE
  BY <1>2 DEF CancelGroupDrop, TeardownCovers
<1>3. CASE StorePlacement /\ CycleGroup = g
  BY <1>3 DEF StorePlacement, SingleWriter, Matching, MatchPcs
<1>4. CASE PostFilter /\ CycleGroup = g
  <2>1. Unwind(memo[g].jobs)
    BY <1>4 DEF PostFilter
  <2>. QED BY <1>4, <2>1, UnwindKeeps DEF Matching, CycleGroup
<1>. QED
  BY <1>1, <1>2, <1>3, <1>4, GroupCache DEF CacheStep

LEMMA AccountedNext ==
  ASSUME TypeOK, SingleWriter, TeardownAfterPods, TeardownCovers, HeldAccounted,
         cycle.pc = "pods" => cycle.place.jobs = {}, PluginStep
  PROVE  HeldAccounted'
<1> SUFFICES ASSUME NEW g \in Groups, NEW j \in JobIds, job'[j].group = g
             PROVE  \/ j \in memo'[g].jobs
                    \/ Matching(g)' /\ j \in cycle'.place.jobs
                    \/ \E w \in Informers : handler'[w].key = g /\ j \in handler'[w].jobs
  <2>1. TypeOK'
    BY TypeNext DEF PluginStep
  <2>. QED BY <2>1 DEF HeldAccounted, Held, TypeOK, Alloc
<1>1. CASE Issued(g, j) /\ CycleGroup = g
  <2>1. MatchCompute \/ MatchDevice
    BY <1>1, IssuedByMatch DEF Issued
  <2>2. /\ cycle'.pc \in {"device", "store", "cancel"} /\ cycle'.pod = cycle.pod
        /\ j \in cycle'.place.jobs
    BY <1>1, <2>1, MatchHand DEF Issued, Number
  <2>. QED BY <1>1, <2>2 DEF Matching, CycleGroup, MatchPcs
<1>2. CASE job[j].group = g
  <2>1. j \in Held
    BY <1>2, ConstantsAssumption DEF Held
  <2>2. ASSUME NEW w \in Informers, handler[w].key = g, j \in handler[w].jobs
        PROVE  handler'[w].key = g /\ j \in handler'[w].jobs
    <3>1. handler[w].busy
      BY <2>2 DEF TeardownAfterPods
    <3>2. \A k \in JobIds : job'[k] = FreeJob => j # k
      BY ConstantsAssumption DEF FreeJob
    <3>. QED BY <2>2, <3>1, <3>2, HandlerStep DEF HandlerMoves
  <2>. QED BY <1>2, <2>1, <2>2, HandAccounted, MemoAccounted DEF HeldAccounted
<1>. QED
  BY <1>1, <1>2, GroupJobs

\* PreFilter finds no placement for the group it is about to match.
LEMMA PodsNext ==
  ASSUME TypeOK, cycle.pc = "pods" => cycle.place.jobs = {}, PluginStep
  PROVE  cycle'.pc = "pods" => cycle'.place.jobs = {}
<1> SUFFICES ASSUME cycle'.pc = "pods" PROVE cycle'.place.jobs = {}
  OBVIOUS
<1>0. cycle \in CycleType
  BY DEF TypeOK
<1>1. CASE UNCHANGED cycle
  BY <1>1
<1>2. ASSUME NEW p \in Pods, PreFilterCached(p) \/ PreFilterMiss(p)
      PROVE  cycle'.place.jobs = {}
  <2>1. cycle'.place = NoMemo
    BY <1>2 DEF PreFilterCached, PreFilterMiss, IdleCycle
  <2>. QED BY <2>1 DEF NoMemo
<1>3. CASE CycleStep
  <2>1. CASE MatchCompute \/ MatchDevice
    BY <2>1, MatchHand
  <2>2. CASE MatchFails \/ CancelJobid \/ PostFilter
    <3>1. \E jobs : Unwind(jobs)
      BY <2>2 DEF MatchFails, CancelJobid, PostFilter
    <3>. QED BY <3>1, UnwindEnds
  <2>3. CASE ListGroupPods
    BY <1>0, <2>3 DEF ListGroupPods, CycleType, IdleCycle
  <2>4. CASE BuildJobspecs \/ FilterPass \/ FilterReject
    BY <1>0, <2>4 DEF BuildJobspecs, FilterPass, FilterReject, CycleType
  <2>5. CASE StorePlacement
    BY <2>5 DEF StorePlacement, IdleCycle
  <2>6. CASE Reserve \/ ReserveFails
    <3>1. cycle' = IdleCycle
      BY <2>6 DEF Reserve, ReserveFails
    <3>. QED BY <3>1, IdleHand
  <2>. QED BY <1>3, <2>1, <2>2, <2>3, <2>4, <2>5, <2>6 DEF CycleStep
<1>. QED
  BY <1>1, <1>2, <1>3, OutsideStep DEF OutsideEffect

LEMMA NoOwnerNoJobs ==
  ASSUME TypeOK, MemoWhole, \A g \in Groups : ~owner[g].exists => owner[g].jobs = {},
         Steady, PluginStep
  PROVE  \A g \in Groups : ~owner'[g].exists => owner'[g].jobs = {}
<1> SUFFICES ASSUME NEW g \in Groups, ~owner'[g].exists PROVE owner'[g].jobs = {}
  OBVIOUS
<1>1. CASE owner'[g] = owner[g]
  BY <1>1
<1>2. CASE owner'[g] = [exists |-> FALSE, jobs |-> {}]
  BY <1>2
<1>. QED
  BY <1>1, <1>2, OwnerStep DEF OwnerChanges, Steady

-----------------------------------------------------------------------------
(* AccountInv is inductive.                                                 *)

LEMMA AccountInit == Init => AccountInv
<1> SUFFICES ASSUME Init PROVE AccountInv
  OBVIOUS
<1>1. TeardownInv
  BY TeardownInit
<1>2. SingleWriter /\ AnnotationCurrent /\ (cycle.pc = "pods" => cycle.place.jobs = {})
  BY DEF Init, SingleWriter, AnnotationCurrent, NoMemo, IdleCycle
<1>3. GateWhole /\ RecordsMemo
  BY DEF Init, GateWhole, RecordsMemo, PastGate, NoBind, Members
<1>4. TeardownAfterPods /\ TeardownCovers
  BY DEF Init, TeardownAfterPods, TeardownCovers, IdleHandler
<1>5. HeldAccounted
  BY DEF Init, HeldAccounted, Held, FreeJob
<1>6. \A g \in Groups : ~owner[g].exists => owner[g].jobs = {}
  BY DEF Init, NewOwner
<1>. QED
  BY <1>1, <1>2, <1>3, <1>4, <1>5, <1>6 DEF AccountInv

\* A restarted scheduler has an empty graph and no placement.
LEMMA AccountRestart ==
  ASSUME AccountInv, Restart
  PROVE  AccountInv'
<1>0. /\ job' = [j \in JobIds |-> FreeJob] /\ memo' = [g \in Groups |-> NoMemo]
      /\ cycle' = IdleCycle /\ bind' = [p \in Pods |-> NoBind]
      /\ events' = [w \in Informers |-> <<>>] /\ handler' = [w \in Informers |-> IdleHandler]
      /\ UNCHANGED owner
  BY DEF Restart
<1>1. TeardownInv'
  BY TeardownRestart DEF AccountInv
<1>2. SingleWriter' /\ AnnotationCurrent' /\ (cycle'.pc = "pods" => cycle'.place.jobs = {})
  BY <1>0 DEF SingleWriter, AnnotationCurrent, NoMemo, IdleCycle
<1>3. GateWhole' /\ RecordsMemo'
  BY <1>0 DEF GateWhole, RecordsMemo, PastGate, NoBind, Members
<1>4. TeardownAfterPods' /\ TeardownCovers'
  BY <1>0 DEF TeardownAfterPods, TeardownCovers, IdleHandler
<1>5. HeldAccounted'
  BY <1>0 DEF HeldAccounted, Held, FreeJob
<1>6. \A g \in Groups : ~owner'[g].exists => owner'[g].jobs = {}
  BY <1>0 DEF AccountInv
<1>. QED
  BY <1>1, <1>2, <1>3, <1>4, <1>5, <1>6 DEF AccountInv

LEMMA AccountNext ==
  ASSUME AccountInv, PluginStep, Steady, FullGangs
  PROVE  AccountInv'
<1>0. /\ TeardownInv /\ TypeOK /\ MemoWhole /\ PendingOnly /\ OwnerOutlivesPods
      /\ SingleWriter /\ GateWhole /\ RecordsMemo /\ TeardownAfterPods
      /\ AnnotationCurrent /\ TeardownCovers /\ HeldAccounted
      /\ cycle.pc = "pods" => cycle.place.jobs = {}
      /\ \A g \in Groups : ~owner[g].exists => owner[g].jobs = {}
  BY DEF AccountInv, TeardownInv
<1>1. TeardownInv'
  BY <1>0, TeardownNext DEF Steady, PluginStep
<1>2. SingleWriter' /\ GateWhole' /\ RecordsMemo' /\ TeardownAfterPods'
  BY <1>0, SingleWriterNext, GateNext, RecordsMemoNext, AfterPodsNext
<1>3. AnnotationCurrent' /\ TeardownCovers' /\ HeldAccounted'
  BY <1>0, AnnotationNext, CoversNext, AccountedNext
<1>4. /\ cycle'.pc = "pods" => cycle'.place.jobs = {}
      /\ \A g \in Groups : ~owner'[g].exists => owner'[g].jobs = {}
  BY <1>0, PodsNext, NoOwnerNoJobs
<1>. QED
  BY <1>1, <1>2, <1>3, <1>4 DEF AccountInv

LEMMA AccountCorrect ==
  ASSUME Steady, FullGangs
  PROVE  Spec => []AccountInv
<1>1. AccountInv /\ [Next]_vars => AccountInv'
  BY Steady, FullGangs, AccountNext, AccountRestart DEF PluginStep
<1>. QED
  BY <1>1, AccountInit, PTL DEF Spec

\* All or nothing: Fluxion holds nothing for a group that its placement, its
\* match, its rollback or its teardown does not account for, however the
\* scheduling cycle, the binding goroutines, the informers and a restart of
\* the scheduler interleave, where gangs pass Permit whole, owners and pods are
\* not deleted before they complete, names are not reused and no patch fails
\* (matchGroup, cancelJobids, recordJobIDs, cancelGroup).
THEOREM AllocationsAccounted ==
  ASSUME EarlyDelete = FALSE, MaxFaults = 0, MaxRecreates = 0, FullGangs
  PROVE  Spec => []HeldAccounted
<1>1. Steady
  BY EarlyDelete = FALSE, MaxFaults = 0, MaxRecreates = 0 DEF Steady
<1>2. Spec => []AccountInv
  BY FullGangs, <1>1, AccountCorrect
<1>3. AccountInv => HeldAccounted
  BY DEF AccountInv
<1>. QED
  BY <1>2, <1>3, PTL

\* Under the same conditions a gang that runs, with nothing of it in flight, has
\* an annotation that names all that Fluxion holds for it: recordJobIDs wrote
\* what its teardown needs, restarts included ("the durable source of truth").
THEOREM AnnotationsAreTruth ==
  ASSUME EarlyDelete = FALSE, MaxFaults = 0, MaxRecreates = 0, FullGangs
  PROVE  Spec => []AnnotationIsTruth
<1>1. Spec => []AccountInv
  BY EarlyDelete = FALSE, MaxFaults = 0, MaxRecreates = 0, FullGangs, AccountCorrect DEF Steady
<1>2. AccountInv => AnnotationIsTruth
  <2> SUFFICES ASSUME AccountInv, NEW g \in Groups, Quiet(g), Live(g) = Members(g),
                      owner[g].jobs # {}, NEW j \in Held, job[j].group = g
               PROVE  j \in owner[g].jobs
    BY DEF AnnotationIsTruth
  <2>1. TypeOK /\ TeardownAfterPods /\ AnnotationCurrent /\ HeldAccounted
    BY DEF AccountInv, TeardownInv
  <2>2. \A w \in Informers : ~(handler[w].key = g /\ j \in handler[w].jobs)
    BY <2>1 DEF TeardownAfterPods, Quiet, Cancelling
  <2>3. ~Matching(g)
    BY <2>1 DEF Matching, MatchPcs, TypeOK, CycleGroup, Quiet, Members
  <2>4. j \in memo[g].jobs
    BY <2>1, <2>2, <2>3 DEF HeldAccounted
  <2>5. owner[g].exists
    BY DEF AccountInv
  <2>6. ~\E p \in Members(g) : WillRecord(p)
    BY DEF Live, WillRecord
  <2>. QED BY <2>1, <2>4, <2>5, <2>6 DEF AnnotationCurrent
<1>. QED
  BY <1>1, <1>2, PTL

\* Under the same conditions Fluxion holds nothing for a deleted owner once its
\* events are handled (README: "When that object is deleted an informer cancels
\* the allocations"; cancelGroup).
THEOREM DeletedOwnersHoldNothing ==
  ASSUME EarlyDelete = FALSE, MaxFaults = 0, MaxRecreates = 0, FullGangs
  PROVE  Spec => []DeletedOwnerHoldsNothing
<1>1. Spec => []AccountInv
  BY EarlyDelete = FALSE, MaxFaults = 0, MaxRecreates = 0, FullGangs, AccountCorrect DEF Steady
<1>2. AccountInv => DeletedOwnerHoldsNothing
  <2> SUFFICES ASSUME AccountInv, NEW g \in Groups, ~owner[g].exists, Quiet(g),
                      NEW j \in JobIds, job[j].group = g
               PROVE  FALSE
    BY DEF DeletedOwnerHoldsNothing
  <2>1. TypeOK /\ TeardownAfterPods /\ TeardownPending /\ HeldAccounted
    BY DEF AccountInv, TeardownInv
  <2>2. \A w \in Informers : ~(handler[w].key = g /\ j \in handler[w].jobs)
    BY <2>1 DEF TeardownAfterPods, Quiet, Cancelling
  <2>3. ~Matching(g)
    BY <2>1 DEF Matching, MatchPcs, TypeOK, CycleGroup, Quiet, Members
  <2>4. j \notin memo[g].jobs
    BY <2>1 DEF TeardownPending, TearsDown, Quiet, NoMemo
  <2>5. j \in Held
    BY ConstantsAssumption DEF Held
  <2>. QED BY <2>1, <2>2, <2>3, <2>4, <2>5 DEF HeldAccounted
<1>. QED
  BY <1>1, <1>2, PTL

-----------------------------------------------------------------------------
(* Whole gangs.                                                             *)

\* Gangs are rejected and let through as a whole.
WholeGangs == Steady /\ FullGangs /\ GroupReject = TRUE

-----------------------------------------------------------------------------
(* What GangInv says of a group in each of its two ages.                    *)

\* Whoever is scheduled finds its whole gang before the gate.
LEMMA BeforeTheGate ==
  ASSUME TypeOK, PendingOnly, GangTogether, cycle.pc # "idle"
  PROVE  \A p \in Members(CycleGroup) : /\ pod[p].phase \in {"gated", "pending"}
                                        /\ bind[p].pc \in {"none", "preflight", "permit"}
<1>1. /\ CycleGroup \in Groups /\ cycle.pod \in Members(CycleGroup)
      /\ pod[cycle.pod].phase = "pending" /\ bind[cycle.pod].pc = "none"
  BY BusyNotOver DEF PendingOnly
<1>. QED
  BY <1>1 DEF GangTogether, PastGate

\* The match of a gang is for all of it that is not gated.
LEMMA WholeListed ==
  ASSUME TypeOK, PendingOnly, UngatedOnly, GangTogether, cycle.pc # "idle"
  PROVE  /\ GroupPods(cycle.pod) = {p \in Members(CycleGroup) : pod[p].phase # "gated"}
         /\ Gated = {} => GroupPods(cycle.pod) = Members(CycleGroup)
<1>1. cycle.pod \in Pods /\ pod[cycle.pod].phase = "pending"
  BY DEF TypeOK, PendingOnly
<1>2. GroupPods(cycle.pod) = {p \in Members(CycleGroup) : pod[p].phase # "gated"}
  <2>1. CASE CycleGroup \in Grouped
    BY <2>1, BeforeTheGate DEF GroupPods, CycleGroup
  <2>2. CASE CycleGroup \notin Grouped
    BY <1>1, <2>2, LonePods DEF GroupPods, CycleGroup, Members
  <2>. QED BY <2>1, <2>2
<1>. QED
  BY <1>2 DEF UngatedOnly, Members

\* A placement in the cache is backed until its group is over.
LEMMA BackedUntilOver ==
  ASSUME MemoHeld, TeardownAfterPods, NEW g \in Groups, memo[g].jobs # {}, ~Over(g)
  PROVE  Backed(g)
BY DEF MemoHeld, TeardownAfterPods, Cancelling, Backed

\* A cached backend is one the jobids of the placement hold.
LEMMA BackendOf ==
  ASSUME PlacementsFit, NEW g \in Groups, Backed(g)
  PROVE  /\ memo[g].nodes = {NodeOf[s] : s \in SlotsOf(memo[g].jobs)}
         /\ memo[g].backend = NoBackend => Unstamped(g)
         /\ memo[g].backend # NoBackend => Led(g)
BY DEF PlacementsFit, Sized, Equipped

-----------------------------------------------------------------------------
(* GangTogether.                                                            *)

LEMMA TogetherNext ==
  ASSUME TypeOK, PendingOnly, OwnerOutlivesPods, GangTogether, WholeGangs, PluginStep
  PROVE  GangTogether'
<1>0. Steady /\ FullGangs /\ EarlyDelete = FALSE
  BY DEF WholeGangs, Steady
<1> DEFINE Before(p)  == pod[p].phase \in {"gated", "pending"} /\ bind[p].pc \in {"none", "preflight", "permit"}
           Through(p) == PastGate(p) \/ pod[p].phase \in {"bound", "done", "gone"}
<1> SUFFICES ASSUME NEW g \in Groups
             PROVE  (\A p \in Members(g) : Before(p)') \/ (\A p \in Members(g) : Through(p)')
  BY DEF GangTogether, Members
<1>1. CASE \A p \in Members(g) : Through(p)
  BY <1>0, <1>1, ThroughKept DEF Members
<1>2. CASE (\A p \in Members(g) : Before(p)) /\ PermitAllow(g)
  <2> SUFFICES ASSUME NEW p \in Members(g)
               PROVE  PastGate(p)'
    OBVIOUS
  <2>1. bind[p].pc = "permit" /\ p \in Pods
    BY <1>0, <1>2, PermitWhole DEF Members
  <2>2. bind'[p] = [bind[p] EXCEPT !.pc = IF bind[p].skip THEN "bind" ELSE "prebind"]
    BY <1>2, <2>1 DEF PermitAllow
  <2>. QED BY <2>1, <2>2 DEF TypeOK, BindType, PastGate
<1>3. CASE (\A p \in Members(g) : Before(p)) /\ ~PermitAllow(g)
  <2> SUFFICES ASSUME NEW p \in Members(g)
               PROVE  Before(p)'
    OBVIOUS
  <2>1. /\ p \in Pods /\ GroupOf[p] = g
        /\ pod[p].phase \in {"gated", "pending"} /\ bind[p].pc \in {"none", "preflight", "permit"}
    BY <1>3 DEF Members
  <2>2. pod'[p].phase \in {"gated", "pending"}
    BY <1>0, <2>1, PodStep DEF PodMoves
  <2>3. ~PreBind(p) /\ ~RecordJobIDs(p) /\ ~PreBindStamp(p) /\ ~Bind(p)
    BY <2>1 DEF PreBind, RecordJobIDs, PreBindStamp, Bind
  <2>4. BindMoves(p)
    BY <1>0, <2>1, BindGoroutineStep
  <2>5. bind'[p] = bind[p] \/ bind'[p].pc \in {"preflight", "permit"} \/ bind'[p] = NoBind
    BY <1>3, <2>1, <2>3, <2>4 DEF BindMoves
  <2>. QED BY <2>1, <2>2, <2>5 DEF NoBind
<1>. QED
  BY <1>1, <1>2, <1>3 DEF GangTogether

-----------------------------------------------------------------------------
(* What a step does to a pod.                                               *)

\* A pod's node and stamp: Reserve and PreBind stamp the placement's backend,
\* Bind names the node, and a deletion clears both.
Stamped(p) ==
  pod'[p].stamp = IF memo[GroupOf[p]].backend = NoBackend THEN pod[p].stamp
                  ELSE memo[GroupOf[p]].backend
SeatMoves(p) ==
  \/ /\ pod'[p].node = pod[p].node /\ pod'[p].stamp = pod[p].stamp
     /\ pod'[p].phase \in {"gated", "bound"} => pod'[p].phase = pod[p].phase
  \/ /\ (Reserve /\ cycle.pod = p) \/ PreBindStamp(p)
     /\ Stamped(p) /\ pod'[p].phase = pod[p].phase /\ pod'[p].node = pod[p].node
  \/ Bind(p) /\ pod'[p] = [pod[p] EXCEPT !.phase = "bound", !.node = bind[p].node]
  \/ pod'[p].phase = "gone" /\ pod'[p].stamp = NoBackend

LEMMA SeatStep ==
  ASSUME TypeOK, PendingOnly, Steady, PluginStep, NEW p \in Pods
  PROVE  SeatMoves(p)
<1>0. pod \in [Pods -> PodType]
  BY DEF TypeOK
<1>1. CASE pod'[p] = pod[p]
  BY <1>1 DEF SeatMoves
<1>2. ASSUME NEW q \in Pods, StampBackend(q), (Reserve /\ cycle.pod = q) \/ PreBindStamp(q)
      PROVE  SeatMoves(p)
  <2>1. CASE p = q
    BY <1>0, <1>2, <2>1 DEF StampBackend, PodType, Stamped, SeatMoves
  <2>2. CASE p # q
    <3>1. pod'[p] = pod[p]
      BY <1>0, <1>2, <2>2 DEF StampBackend
    <3>. QED BY <1>1, <3>1
  <2>. QED BY <2>1, <2>2
<1>3. CASE CycleStep
  <2>1. CASE Reserve
    BY <1>2, <2>1 DEF Reserve, PendingOnly, TypeOK
  <2>2. Reserve \/ UNCHANGED pod
    BY <1>3 DEF CycleStep, ListGroupPods, BuildJobspecs, MatchCompute, MatchDevice, MatchFails,
                CancelJobid, StorePlacement, FilterPass, FilterReject, PostFilter, ReserveFails
  <2>. QED BY <1>1, <2>1, <2>2
<1>4. ASSUME NEW q \in Pods, BindStep(q) \/ PermitReject(q)
      PROVE  SeatMoves(p)
  <2>1. CASE PreBindStamp(q)
    BY <1>2, <2>1 DEF PreBindStamp
  <2>2. CASE Bind(q)
    <3>1. p # q => pod'[p] = pod[p]
      BY <1>0, <2>2 DEF Bind
    <3>2. pod[q].phase = "pending"
      BY <2>2 DEF Bind, PendingOnly
    <3>3. p = q => pod'[p] = [pod[p] EXCEPT !.phase = "bound", !.node = bind[p].node]
      BY <1>0, <2>2, <3>2 DEF Bind, PodType
    <3>. QED BY <1>1, <2>2, <3>1, <3>3 DEF SeatMoves
  <2>3. PreBindStamp(q) \/ Bind(q) \/ UNCHANGED pod
    BY <1>4 DEF BindStep, PreBindPreFlight, PreBind, RecordJobIDs, PreBindFails, PermitReject
  <2>. QED BY <1>1, <2>1, <2>2, <2>3
<1>5. ASSUME NEW q \in Pods, Ungate(q) \/ Finish(q) \/ DeletePod(q)
      PROVE  SeatMoves(p)
  <2>1. CASE p # q
    <3>1. pod'[p] = pod[p]
      BY <1>0, <1>5, <2>1 DEF Ungate, Finish, DeletePod
    <3>. QED BY <1>1, <3>1
  <2>2. CASE p = q /\ (Ungate(q) \/ Finish(q))
    BY <1>0, <2>2 DEF Ungate, Finish, PodType, SeatMoves
  <2>3. CASE p = q /\ DeletePod(q)
    BY <1>0, <2>3 DEF DeletePod, SeatMoves
  <2>. QED BY <1>5, <2>1, <2>2, <2>3
<1>6. ~\E h \in Groups : Recreate(h)
  BY SteadySteps
<1>7. CASE \/ \E q \in Pods : PreFilterCached(q) \/ PreFilterMiss(q)
           \/ \E w \in Informers : CancelGroup(w)
           \/ \E h \in Groups : PermitAllow(h) \/ ReconcileGroup(h) \/ UserDeletesPodGroup(h)
           \/ UNCHANGED vars
  <2>1. UNCHANGED pod
    BY <1>7 DEF PreFilterCached, PreFilterMiss, CancelGroup, CancelGroupRead, CancelGroupCancel,
                CancelGroupDrop, PermitAllow, ReconcileGroup, UserDeletesPodGroup, RemovePodGroup, vars
  <2>. QED BY <1>1, <2>1
<1>. QED
  BY <1>3, <1>4, <1>5, <1>6, <1>7 DEF PluginStep, Next

-----------------------------------------------------------------------------
(* PlacementsFit.                                                           *)

\* Jobids that keep what they hold are as good a placement as they were.
LEMMA FitKept ==
  ASSUME NEW jobs, \A j \in jobs : job'[j] = job[j]
  PROVE  /\ UNION {job'[j].slots : j \in jobs} = SlotsOf(jobs)
         /\ UNION {job'[j].backends : j \in jobs} = BackendsOf(jobs)
BY DEF SlotsOf, BackendsOf

\* Nobody's gate comes back.
LEMMA GateLifted ==
  ASSUME TypeOK, PendingOnly, Steady, PluginStep, NEW p \in Pods, pod'[p].phase = "gated"
  PROVE  pod[p].phase = "gated"
<1>1. pod[p] \in PodType
  BY DEF TypeOK
<1>. QED
  BY <1>1, SeatStep DEF SeatMoves, PodType

LEMMA LedKept ==
  ASSUME TypeOK, PendingOnly, Steady, PluginStep, NEW g \in Groups, Led(g)
  PROVE  Led(g)'
BY GateLifted DEF Led, Members

LEMMA UngatedNext ==
  ASSUME TypeOK, PendingOnly, Steady, UngatedOnly, PluginStep
  PROVE  UngatedOnly'
BY GateLifted DEF UngatedOnly

\* Nobody is stamped with a backend its group's placement does not have.
LEMMA UnstampedKept ==
  ASSUME TypeOK, PendingOnly, Steady, PluginStep, NEW g \in Groups,
         Unstamped(g), memo[g].backend = NoBackend
  PROVE  Unstamped(g)'
<1> SUFFICES ASSUME NEW p \in Members(g)
             PROVE  pod'[p].stamp = NoBackend
  BY DEF Unstamped, Members
<1>1. p \in Pods /\ GroupOf[p] = g /\ pod[p].stamp = NoBackend /\ pod[p] \in PodType
  BY DEF Unstamped, Members, TypeOK
<1>. QED
  BY <1>1, SeatStep DEF SeatMoves, Stamped, PodType

LEMMA EquippedKept ==
  ASSUME TypeOK, PendingOnly, Steady, PluginStep, NEW g \in Groups, NEW place, Equipped(g, place),
         place.backend = NoBackend => memo[g].backend = NoBackend,
         \A j \in place.jobs : job'[j] = job[j]
  PROVE  IF place.backend = NoBackend THEN Unstamped(g)'
         ELSE place.backend \in UNION {job'[j].backends : j \in place.jobs} /\ Led(g)'
<1>1. CASE place.backend = NoBackend
  BY <1>1, UnstampedKept DEF Equipped
<1>2. CASE place.backend # NoBackend
  BY <1>2, LedKept, FitKept DEF Equipped
<1>. QED
  BY <1>1, <1>2

LEMMA BackedFitNext ==
  ASSUME GangInv, WholeGangs, PluginStep, NEW g \in Groups, Backed(g)'
  PROVE  Sized(g, memo[g])' /\ Equipped(g, memo[g])'
<1>0. ReferenceInv /\ TypeOK /\ PlacementsFit /\ PendingOnly /\ MemoWhole /\ SingleWriter /\ Steady
  BY DEF GangInv, GrantInv, AccountInv, TeardownInv, WholeGangs
<1>1. CASE memo'[g] = memo[g]
  <2>1. Backed(g) /\ \A j \in memo[g].jobs : job'[j] = job[j]
    BY <1>0, <1>1, BackedBefore
  <2>2. Sized(g, memo[g]) /\ Equipped(g, memo[g])
    BY <1>0, <2>1 DEF PlacementsFit
  <2>3. Equipped(g, memo[g])'
    BY <1>0, <1>1, <2>1, <2>2, EquippedKept DEF Equipped, BackendsOf
  <2>. QED BY <1>1, <2>1, <2>2, <2>3, FitKept DEF Sized, SlotsOf
<1>2. CASE memo'[g] = NoMemo
  BY <1>2 DEF Backed, NoMemo
<1>3. CASE StorePlacement /\ CycleGroup = g /\ memo'[g] = cycle.place
  <2>1. cycle.pc = "store" /\ job' = job /\ pod' = pod
    BY <1>3 DEF StorePlacement
  <2>2. Sized(g, cycle.place) /\ Equipped(g, cycle.place)
    BY <1>0, <1>3, <2>1 DEF PlacementsFit
  <2>. QED BY <1>3, <2>1, <2>2 DEF Sized, Equipped, Unstamped, Led, Members, SlotsOf, BackendsOf
<1>. QED
  BY <1>0, <1>1, <1>2, <1>3, MemoStep

\* During a match of g nobody of g is stamped, and no gate comes back.
LEMMA MatchKeeps ==
  ASSUME GangInv, WholeGangs, PluginStep, NEW g \in Groups, cycle.pc \in MatchPcs, CycleGroup = g
  PROVE  /\ memo[g].backend = NoBackend
         /\ Led(g) => Led(g)'
         /\ Unstamped(g) => Unstamped(g)'
<1>0. TypeOK /\ PendingOnly /\ MemoWhole /\ SingleWriter /\ Steady
  BY DEF GangInv, AccountInv, TeardownInv, WholeGangs
<1>1. memo[g] = NoMemo
  BY <1>0 DEF SingleWriter, Matching, MemoWhole
<1>. QED
  BY <1>0, <1>1, LedKept, UnstampedKept DEF NoMemo

\* The compute match gives a slot for every member that is listed.
LEMMA ComputeFits ==
  ASSUME GangInv, WholeGangs, PluginStep, MatchCompute, cycle'.pc \in {"device", "store"},
         NEW g \in Groups, CycleGroup = g
  PROVE  /\ CycleGroup' = g /\ Sized(g, cycle.place)'
         /\ IF cycle'.pc = "device" THEN Led(g)' ELSE Equipped(g, cycle.place)'
<1>0. /\ TypeOK /\ PlacementsFit /\ cycle \in CycleType /\ cycle.place \in Placement
      /\ cycle.pc = "compute"
  BY MemberTypes DEF GangInv, GrantInv, ReferenceInv, TypeOK, MatchCompute
<1>1. PICK S \in SUBSET Eligible(cycle.excl) :
        /\ Cardinality(S) = cycle.size
        /\ MatchAllocate(CycleGroup, S, {})
        /\ \/ ParseFails
           \/ cycle' = [cycle EXCEPT !.pc = IF cycle.device THEN "device" ELSE "store",
                                     !.place = OnSlots(S)]
  BY DEF MatchCompute
<1>2. cycle' = [cycle EXCEPT !.pc = IF cycle.device THEN "device" ELSE "store", !.place = OnSlots(S)]
  BY <1>1, UnwindEnds DEF ParseFails
<1>3. /\ cycle'.pod = cycle.pod /\ cycle'.place = OnSlots(S) /\ CycleGroup' = g
      /\ cycle'.pc = IF cycle.device THEN "device" ELSE "store"
  BY <1>0, <1>2 DEF CycleType, CycleGroup
<1>4. /\ cycle.place = NoMemo /\ IF cycle.device THEN Led(g) ELSE Unstamped(g)
      /\ Gated = {} => cycle.size = Cardinality(Members(g))
  BY <1>0 DEF PlacementsFit
<1>5. /\ OnSlots(S).jobs = {nextJob} /\ OnSlots(S).nodes = {NodeOf[s] : s \in S}
      /\ OnSlots(S).backend = NoBackend
  BY <1>4 DEF OnSlots, NoMemo, Number
<1>6. job'[nextJob].slots = S
  <2>1. job'[nextJob] = [group |-> CycleGroup, slots |-> S, backends |-> {}]
    BY <1>0, <1>1 DEF TypeOK, MatchAllocate, JobIds
  <2>. QED BY <2>1
<1>7. SlotsOf(cycle.place.jobs)' = S
  BY <1>3, <1>5, <1>6 DEF SlotsOf
<1>8. Sized(g, cycle.place)'
  BY <1>1, <1>3, <1>4, <1>5, <1>7 DEF Sized, Members
<1>9. IF cycle.device THEN Led(g)' ELSE Unstamped(g)'
  BY <1>0, <1>4, MatchKeeps DEF MatchPcs
<1>. QED
  BY <1>3, <1>5, <1>8, <1>9 DEF Equipped

\* The device match adds the backend a listed leader asks for.
LEMMA DeviceFits ==
  ASSUME GangInv, WholeGangs, PluginStep, MatchDevice, cycle'.pc = "store",
         NEW g \in Groups, CycleGroup = g
  PROVE  CycleGroup' = g /\ Sized(g, cycle.place)' /\ Equipped(g, cycle.place)'
<1>0. /\ TypeOK /\ ReferenceInv /\ PlacementsFit /\ cycle \in CycleType /\ cycle.place \in Placement
      /\ cycle.pc = "device"
  BY MemberTypes DEF GangInv, GrantInv, ReferenceInv, TypeOK, MatchDevice
<1>1. PICK b \in FreeBackends :
        /\ MatchAllocate(CycleGroup, {}, {b})
        /\ \/ ParseFails
           \/ cycle' = [cycle EXCEPT !.pc = "store", !.place = OnBackend(b)]
  BY DEF MatchDevice
<1>2. cycle' = [cycle EXCEPT !.pc = "store", !.place = OnBackend(b)]
  BY <1>1, UnwindEnds DEF ParseFails
<1>3. cycle'.pod = cycle.pod /\ cycle'.place = OnBackend(b) /\ CycleGroup' = g
  BY <1>0, <1>2 DEF CycleType, CycleGroup
<1>4. Sized(g, cycle.place) /\ Led(g)'
  BY <1>0, MatchKeeps DEF PlacementsFit, MatchPcs
<1>5. /\ OnBackend(b).jobs = cycle.place.jobs \cup {nextJob}
      /\ OnBackend(b).nodes = cycle.place.nodes /\ OnBackend(b).backend = b /\ b # NoBackend
  BY <1>0, ConstantsAssumption DEF OnBackend, Placement, Number, FreeBackends
<1>6. job'[nextJob].slots = {} /\ job'[nextJob].backends = {b}
  <2>1. job'[nextJob] = [group |-> CycleGroup, slots |-> {}, backends |-> {b}]
    BY <1>0, <1>1 DEF TypeOK, MatchAllocate, JobIds
  <2>. QED BY <2>1
<1>7. \A j \in cycle.place.jobs : job'[j] = job[j]
  BY <1>0, HandKept DEF MatchPcs
<1>8. SlotsOf(cycle.place.jobs)' = SlotsOf(cycle.place.jobs)
  <2>1. SlotsOf(cycle.place.jobs)' = UNION {job'[j].slots : j \in cycle.place.jobs \cup {nextJob}}
    BY <1>3, <1>5 DEF SlotsOf
  <2>2. UNION {job'[j].slots : j \in cycle.place.jobs} = SlotsOf(cycle.place.jobs)
    BY <1>7, FitKept
  <2>. QED BY <1>6, <2>1, <2>2
<1>9. b \in BackendsOf(cycle.place.jobs)'
  BY <1>3, <1>5, <1>6 DEF BackendsOf
<1>. QED
  BY <1>3, <1>4, <1>5, <1>8, <1>9 DEF Sized, Equipped, Members

\* The match in flight keeps to what its group is.
FitInFlight ==
  /\ cycle.pc \in {"specs", "compute"} =>
       /\ Gated = {} => cycle.size = Cardinality(Members(CycleGroup))
       /\ IF cycle.device THEN Led(CycleGroup) ELSE Unstamped(CycleGroup)
  /\ cycle.pc \in {"pods", "specs", "compute"} => cycle.place = NoMemo
  /\ cycle.pc = "device" => Sized(CycleGroup, cycle.place) /\ Led(CycleGroup)
  /\ cycle.pc = "store" => Sized(CycleGroup, cycle.place) /\ Equipped(CycleGroup, cycle.place)

\* The members that are listed have a leader, or nobody is stamped yet.
LEMMA ListedFits ==
  ASSUME GangInv, cycle.pc = "pods", NEW g \in Groups, CycleGroup = g
  PROVE  /\ Gated = {} => GroupPods(cycle.pod) = Members(g)
         /\ IF GroupPods(cycle.pod) \cap Leaders # {} THEN Led(g) ELSE Unstamped(g)
<1>0. TypeOK /\ PendingOnly /\ UngatedOnly /\ GangTogether /\ SeatsKept
  BY DEF GangInv, AccountInv, TeardownInv
<1>1. /\ GroupPods(cycle.pod) = {p \in Members(g) : pod[p].phase # "gated"}
      /\ Gated = {} => GroupPods(cycle.pod) = Members(g)
  BY <1>0, WholeListed
<1>2. Unstamped(g) \/ Led(g)
  BY <1>0 DEF SeatsKept
<1>. QED
  BY <1>1, <1>2 DEF Led

LEMMA MatchFitNext ==
  ASSUME GangInv, WholeGangs, PluginStep
  PROVE  FitInFlight'
<1>0. /\ TypeOK /\ ReferenceInv /\ PlacementsFit /\ PendingOnly /\ cycle \in CycleType
  BY DEF GangInv, GrantInv, AccountInv, TeardownInv, ReferenceInv, TypeOK
<1>1. CASE cycle'.pc \notin {"pods", "specs", "compute", "device", "store"}
  BY <1>1 DEF FitInFlight
<1>2. CASE UNCHANGED cycle /\ cycle'.pc \in MatchPcs
  <2>1. PICK g \in Groups : CycleGroup = g /\ CycleGroup' = g
    BY <1>0, <1>2, BusyNotOver DEF MatchPcs, CycleGroup
  <2>2. memo[g].backend = NoBackend /\ (Led(g) => Led(g)') /\ (Unstamped(g) => Unstamped(g)')
    BY <1>2, <2>1, MatchKeeps
  <2>3. CASE cycle.pc \in {"device", "store"}
    <3>1. \A j \in cycle.place.jobs : job'[j] = job[j]
      BY <1>0, <2>3, HandKept DEF MatchPcs
    <3>2. /\ SlotsOf(cycle.place.jobs)' = SlotsOf(cycle.place.jobs)
          /\ BackendsOf(cycle.place.jobs)' = BackendsOf(cycle.place.jobs)
      BY <1>2, <3>1, FitKept DEF SlotsOf, BackendsOf
    <3>. QED BY <1>0, <1>2, <2>1, <2>2, <2>3, <3>2 DEF PlacementsFit, FitInFlight, Sized, Equipped, Members
  <2>4. CASE cycle.pc \notin {"device", "store"}
    BY <1>0, <1>2, <2>1, <2>2, <2>4 DEF PlacementsFit, FitInFlight, Members
  <2>. QED BY <2>3, <2>4
<1>3. ASSUME NEW p \in Pods, PreFilterCached(p) \/ PreFilterMiss(p)
      PROVE  FitInFlight'
  <2>1. cycle'.place = NoMemo /\ cycle'.pc \in {"pods", "filter"}
    BY <1>3 DEF PreFilterCached, PreFilterMiss, IdleCycle
  <2>. QED BY <2>1 DEF FitInFlight
<1>4. CASE ListGroupPods
  <2>1. CASE cycle' = IdleCycle
    BY <1>1, <2>1, IdleHand
  <2>2. CASE cycle' # IdleCycle
    <3>1. cycle.pc = "pods" /\ cycle.place = NoMemo /\ pod' = pod
      BY <1>0, <1>4 DEF ListGroupPods, PlacementsFit
    <3>2. /\ cycle'.pc = "specs" /\ cycle'.pod = cycle.pod /\ cycle'.place = cycle.place
          /\ cycle'.size = Cardinality(GroupPods(cycle.pod))
          /\ cycle'.device = (GroupPods(cycle.pod) \cap Leaders # {})
      BY <1>0, <1>4, <2>2 DEF ListGroupPods, CycleType
    <3>3. PICK g \in Groups : CycleGroup = g /\ CycleGroup' = g
      BY <1>0, <3>1, <3>2, BusyNotOver DEF CycleGroup
    <3>4. /\ Gated = {} => cycle'.size = Cardinality(Members(g))
          /\ IF cycle'.device THEN Led(g) ELSE Unstamped(g)
      BY <3>1, <3>2, <3>3, ListedFits
    <3>5. IF cycle'.device THEN Led(g)' ELSE Unstamped(g)'
      BY <3>1, <3>4 DEF Led, Unstamped, Members
    <3>. QED BY <3>1, <3>2, <3>3, <3>4, <3>5 DEF FitInFlight, Members
  <2>. QED BY <2>1, <2>2
<1>5. CASE BuildJobspecs
  <2>1. /\ cycle'.pc = "compute" /\ cycle'.pod = cycle.pod /\ cycle'.place = cycle.place
        /\ cycle'.size = cycle.size /\ cycle'.device = cycle.device /\ cycle.pc = "specs" /\ pod' = pod
    BY <1>0, <1>5 DEF BuildJobspecs, CycleType
  <2>. QED BY <1>0, <2>1 DEF PlacementsFit, FitInFlight, Led, Unstamped, Members, CycleGroup
<1>6. CASE MatchCompute \/ MatchDevice
  <2>1. /\ cycle'.pc \in {"device", "store", "cancel"}
        /\ MatchDevice => cycle'.pc \in {"store", "cancel"}
    <3>1. cycle'.pc \in {"device", "store", "cancel"}
      BY <1>0, <1>6, MatchHand
    <3>2. ASSUME MatchDevice PROVE cycle'.pc \in {"store", "cancel"}
      <4>1. PICK b \in FreeBackends :
              \/ ParseFails
              \/ cycle' = [cycle EXCEPT !.pc = "store", !.place = OnBackend(b)]
        BY <3>2 DEF MatchDevice
      <4>. QED BY <1>0, <3>1, <4>1, UnwindEnds DEF ParseFails, CycleType
    <3>. QED BY <3>1, <3>2
  <2>2. PICK g \in Groups : CycleGroup = g
    BY <1>0, <1>6, BusyNotOver DEF MatchCompute, MatchDevice
  <2>3. CASE MatchCompute /\ cycle'.pc # "cancel"
    BY <2>1, <2>2, <2>3, ComputeFits DEF FitInFlight
  <2>4. CASE MatchDevice /\ cycle'.pc # "cancel"
    BY <2>1, <2>2, <2>4, DeviceFits DEF FitInFlight
  <2>. QED BY <1>1, <1>6, <2>3, <2>4
<1>7. CASE MatchFails \/ CancelJobid \/ PostFilter
  <2>1. \E jobs : Unwind(jobs)
    BY <1>7 DEF MatchFails, CancelJobid, PostFilter
  <2>. QED BY <1>1, <2>1, UnwindEnds
<1>8. CASE StorePlacement
  <2>1. cycle'.pc = "filter"
    BY <1>8 DEF StorePlacement, IdleCycle
  <2>. QED BY <1>1, <2>1
<1>9. CASE FilterPass \/ FilterReject
  <2>1. cycle'.pc \in {"reserve", "postfilter"}
    BY <1>0, <1>9 DEF FilterPass, FilterReject, CycleType
  <2>. QED BY <1>1, <2>1
<1>10. CASE Reserve \/ ReserveFails
  <2>1. cycle' = IdleCycle
    BY <1>10 DEF Reserve, ReserveFails
  <2>. QED BY <1>1, <2>1, IdleHand
<1>11. CASE UNCHANGED cycle
  BY <1>1, <1>2, <1>11 DEF MatchPcs
<1>. QED
  BY <1>0, <1>3, <1>4, <1>5, <1>6, <1>7, <1>8, <1>9, <1>10, <1>11, OutsideStep
     DEF CycleStep, OutsideEffect

LEMMA FitNext ==
  ASSUME GangInv, WholeGangs, PluginStep
  PROVE  PlacementsFit'
BY MatchFitNext, BackedFitNext DEF PlacementsFit, FitInFlight

-----------------------------------------------------------------------------
(* SeatsKept.                                                               *)

\* A pod that keeps its reservation, or its node, keeps its placement.
LEMMA PlacementStays ==
  ASSUME GangInv, WholeGangs, PluginStep, NEW p \in Pods,
         bind[p].pc # "none" \/ pod[p].phase = "bound",
         bind'[p].pc # "none" \/ pod'[p].phase = "bound"
  PROVE  memo'[GroupOf[p]] = memo[GroupOf[p]]
<1> DEFINE g == GroupOf[p]
<1>0. /\ TypeOK /\ PendingOnly /\ SingleWriter /\ TeardownAfterPods /\ GangTogether /\ SeatsKept
      /\ GroupReject = TRUE
  BY DEF GangInv, AccountInv, TeardownInv, WholeGangs
<1>1. /\ g \in Groups /\ p \in Members(g) /\ memo[g].jobs # {}
      /\ pod[p].phase \in {"pending", "bound"}
  BY <1>0, ConstantsAssumption DEF SeatsKept, Seated, PendingOnly, Members
<1>2. ASSUME NEW w \in Informers, CancelGroupDrop(w), handler[w].key = g PROVE FALSE
  BY <1>0, <1>1, <1>2 DEF CancelGroupDrop, TeardownAfterPods, Over
<1>3. ASSUME StorePlacement, CycleGroup = g PROVE FALSE
  BY <1>0, <1>1, <1>3 DEF StorePlacement, SingleWriter, Matching, MatchPcs
<1>4. ASSUME PostFilter, CycleGroup = g PROVE FALSE
  <2>1. pod[p].phase = "pending" /\ bind[p].pc \in {"preflight", "permit"}
    BY <1>0, <1>1, <1>4, BeforeTheGate DEF PostFilter
  <2>2. bind'[p] = NoBind /\ pod' = pod
    BY <1>0, <1>4, <2>1 DEF PostFilter, Unreserve
  <2>. QED BY <2>1, <2>2 DEF NoBind
<1>. QED
  BY <1>0, <1>1, <1>2, <1>3, <1>4, GroupCache DEF CacheStep

\* What is cached for a pod being scheduled or bound is backed.
LEMMA CachedBackend ==
  ASSUME GangInv, NEW p \in Pods, pod[p].phase \in {"pending", "bound"}, memo[GroupOf[p]].jobs # {}
  PROVE  /\ Backed(GroupOf[p]) /\ memo[GroupOf[p]].nodes # {}
         /\ memo[GroupOf[p]].backend = NoBackend => Unstamped(GroupOf[p])
         /\ memo[GroupOf[p]].backend # NoBackend => Led(GroupOf[p])
<1> DEFINE g == GroupOf[p]
<1>0. TypeOK /\ TeardownAfterPods /\ MemoHeld /\ PlacementsFit /\ GrantsSlots
  BY DEF GangInv, AccountInv, TeardownInv, GrantInv, ReferenceInv
<1>1. g \in Groups /\ p \in Members(g) /\ ~Over(g)
  BY ConstantsAssumption DEF Members, Over
<1>2. Backed(g)
  BY <1>0, <1>1, BackedUntilOver
<1>3. SlotsOf(memo[g].jobs) # {}
  BY <1>0, <1>1, <1>2 DEF GrantsSlots
<1>4. memo[g].nodes = {NodeOf[s] : s \in SlotsOf(memo[g].jobs)}
  BY <1>0, <1>1, <1>2, BackendOf
<1>. QED
  BY <1>0, <1>1, <1>2, <1>3, <1>4, BackendOf

\* How the scheduling goroutine comes to PostFilter.
LEMMA CycleRejectStep ==
  ASSUME TypeOK, PluginStep, cycle'.pc = "postfilter"
  PROVE  (UNCHANGED cycle \/ FilterReject) /\ cycle'.pod = cycle.pod
<1>0. cycle \in CycleType
  BY DEF TypeOK
<1>1. ASSUME NEW p \in Pods PROVE ~PreFilterCached(p) /\ ~PreFilterMiss(p)
  BY DEF PreFilterCached, PreFilterMiss, IdleCycle
<1>2. CASE CycleStep
  <2>1. CASE ListGroupPods \/ Reserve \/ ReserveFails
    <3>1. cycle' = IdleCycle \/ cycle'.pc = "specs"
      BY <1>0, <2>1 DEF ListGroupPods, Reserve, ReserveFails, CycleType
    <3>. QED BY <3>1, IdleHand
  <2>2. CASE BuildJobspecs \/ FilterPass \/ StorePlacement
    BY <1>0, <2>2 DEF BuildJobspecs, FilterPass, StorePlacement, IdleCycle, CycleType
  <2>3. CASE MatchCompute \/ MatchDevice
    BY <2>3, MatchHand
  <2>4. CASE MatchFails \/ CancelJobid \/ PostFilter
    <3>1. \E jobs : Unwind(jobs)
      BY <2>4 DEF MatchFails, CancelJobid, PostFilter
    <3>. QED BY <3>1, UnwindEnds
  <2>5. CASE FilterReject
    BY <1>0, <2>5 DEF FilterReject, CycleType
  <2>. QED BY <1>2, <2>1, <2>2, <2>3, <2>4, <2>5 DEF CycleStep
<1>. QED
  BY <1>1, <1>2, OutsideStep DEF OutsideEffect

\* From PreFilter to Reserve the placement is there, and Filter keeps to it.
LEMMA CycleSeatNext ==
  ASSUME GangInv, PluginStep, cycle'.pc \in {"filter", "postfilter", "reserve"}
  PROVE  /\ memo'[CycleGroup'].jobs # {}
         /\ cycle'.pc = "reserve" => cycle'.node \in memo'[CycleGroup'].nodes
<1> DEFINE Goal == /\ memo'[CycleGroup'].jobs # {}
                   /\ cycle'.pc = "reserve" => cycle'.node \in memo'[CycleGroup'].nodes
<1> SUFFICES Goal
  OBVIOUS
<1>0. /\ TypeOK /\ PendingOnly /\ MemoWhole /\ TeardownAfterPods /\ SeatsKept
      /\ cycle \in CycleType
  BY DEF GangInv, AccountInv, TeardownInv, TypeOK
<1>1. ASSUME cycle.pc \in {"filter", "postfilter", "reserve"}, ~StorePlacement, ~PostFilter
      PROVE  memo'[CycleGroup] = memo[CycleGroup]
  <2>1. CycleGroup \in Groups /\ ~Over(CycleGroup)
    BY <1>0, <1>1, BusyNotOver
  <2>2. ASSUME NEW w \in Informers, CancelGroupDrop(w), handler[w].key = CycleGroup PROVE FALSE
    BY <1>0, <2>1, <2>2 DEF CancelGroupDrop, TeardownAfterPods
  <2>. QED BY <1>0, <1>1, <2>1, <2>2, GroupCache DEF CacheStep
<1>2. CASE UNCHANGED cycle
  <2>1. ~StorePlacement
    BY <1>2 DEF StorePlacement
  <2>2. ~PostFilter
    <3>1. PostFilter => \E jobs : Unwind(jobs)
      BY DEF PostFilter
    <3>. QED BY <3>1, UnwindEnds
  <2>. QED BY <1>0, <1>1, <1>2, <2>1, <2>2 DEF SeatsKept, CycleGroup
<1>3. ASSUME NEW p \in Pods, PreFilterCached(p), cycle'.pod = p
      PROVE  Goal
  <2>1. memo' = memo /\ memo[GroupOf[p]].jobs # {} /\ cycle'.pc = "filter"
    BY <1>3 DEF PreFilterCached, IdleCycle
  <2>. QED BY <1>3, <2>1 DEF CycleGroup
<1>4. CASE StorePlacement /\ cycle'.pod = cycle.pod
  <2>1. cycle.pc = "store" /\ cycle'.pc = "filter" /\ memo' = [memo EXCEPT ![CycleGroup] = cycle.place]
    BY <1>4 DEF StorePlacement, IdleCycle
  <2>2. memo'[CycleGroup] = cycle.place
    BY <1>0, <2>1, BusyNotOver DEF TypeOK
  <2>. QED BY <1>0, <1>4, <2>1, <2>2 DEF MemoWhole, CycleGroup
<1>5. CASE FilterPass /\ cycle'.pod = cycle.pod
  <2>1. cycle.pc = "filter" /\ cycle'.pc = "reserve" /\ cycle'.node \in Permitted(CycleGroup) /\ memo' = memo
    BY <1>0, <1>5 DEF FilterPass, CycleType
  <2>2. cycle.pod \in Pods /\ pod[cycle.pod].phase = "pending" /\ memo[CycleGroup].jobs # {}
    BY <1>0, <2>1 DEF TypeOK, PendingOnly, SeatsKept
  <2>3. memo[CycleGroup].nodes # {}
    BY <2>2, CachedBackend DEF CycleGroup
  <2>. QED BY <1>5, <2>1, <2>2, <2>3 DEF Permitted, CycleGroup
<1>6. CASE FilterReject /\ cycle'.pod = cycle.pod
  <2>1. cycle.pc = "filter" /\ cycle'.pc = "postfilter" /\ memo' = memo
    BY <1>0, <1>6 DEF FilterReject, CycleType
  <2>. QED BY <1>0, <1>6, <2>1 DEF SeatsKept, CycleGroup
<1>. QED
  BY <1>0, <1>2, <1>3, <1>4, <1>5, <1>6, CycleFilterStep, CycleRejectStep

\* A member that is on the placement stays on it.
LEMMA SeatNext ==
  ASSUME GangInv, WholeGangs, PluginStep, NEW p \in Pods
  PROVE  /\ bind'[p].pc # "none" => Seated(p, bind[p].node)'
         /\ pod'[p].phase = "bound" => Seated(p, pod[p].node)'
<1> DEFINE g == GroupOf[p]
<1>0. /\ TypeOK /\ PendingOnly /\ OwnerOutlivesPods /\ SeatsKept /\ Steady
      /\ g \in Groups /\ p \in Members(g)
  BY ConstantsAssumption DEF GangInv, AccountInv, TeardownInv, WholeGangs, Members
<1>1. SeatMoves(p) /\ BindMoves(p)
  BY <1>0, SeatStep, BindGoroutineStep
<1>3. ASSUME memo[g].jobs # {}, pod[p].phase \in {"pending", "bound"}
      PROVE  Stamped(p) => pod'[p].stamp = memo[g].backend
  <2>1. memo[g].backend = NoBackend => pod[p].stamp = NoBackend
    BY <1>0, <1>3, CachedBackend DEF Unstamped
  <2>. QED BY <2>1 DEF Stamped
<1>4. CASE Reserve /\ cycle.pod = p
  <2>1. /\ cycle.pc = "reserve" /\ memo' = memo /\ pod[p].phase = "pending" /\ CycleGroup = g
        /\ memo[g].jobs # {} /\ cycle.node \in memo[g].nodes
    BY <1>0, <1>4 DEF Reserve, PendingOnly, SeatsKept, CycleGroup
  <2>2. bind'[p] = [NoBind EXCEPT !.pc = "preflight", !.node = cycle.node]
    BY <1>0, <1>4 DEF Reserve, TypeOK
  <2>3. bind'[p].node = cycle.node
    BY <2>2 DEF NoBind
  <2>4. Stamped(p) /\ pod'[p].phase = "pending"
    BY <1>0, <1>4, <2>1 DEF Reserve, StampBackend, Stamped, TypeOK, PodType
  <2>. QED BY <1>3, <2>1, <2>3, <2>4 DEF Seated
<1>5. CASE ~(Reserve /\ cycle.pod = p)
  <2>1. bind'[p].pc # "none" => bind[p].pc # "none" /\ bind'[p].node = bind[p].node
    BY <1>1, <1>5 DEF BindMoves, NoBind, PreBindPreFlight, PreBind, RecordJobIDs, PreBindStamp
  <2>2. CASE PreBindStamp(p) /\ Stamped(p) /\ pod'[p].phase = pod[p].phase /\ pod'[p].node = pod[p].node
    <3>1. memo' = memo /\ bind[p].pc # "none" /\ pod[p].phase = "pending"
      BY <1>0, <2>2 DEF PreBindStamp, PendingOnly
    <3>2. Seated(p, bind[p].node)
      BY <1>0, <3>1 DEF SeatsKept
    <3>. QED BY <1>3, <2>1, <2>2, <3>1, <3>2 DEF Seated
  <2>3. CASE Bind(p) /\ pod'[p] = [pod[p] EXCEPT !.phase = "bound", !.node = bind[p].node]
    <3>0. pod'[p].node = bind[p].node /\ pod'[p].stamp = pod[p].stamp
      BY <1>0, <2>3 DEF TypeOK, PodType
    <3>1. memo' = memo /\ bind[p].pc # "none" /\ bind'[p].pc = "none"
      BY <1>0, <2>3 DEF Bind, NoBind, TypeOK
    <3>. QED BY <1>0, <3>0, <3>1 DEF SeatsKept, Seated
  <2>4. CASE /\ pod'[p].node = pod[p].node /\ pod'[p].stamp = pod[p].stamp
             /\ pod'[p].phase \in {"gated", "bound"} => pod'[p].phase = pod[p].phase
    <3>1. ASSUME bind'[p].pc # "none"
          PROVE  Seated(p, bind[p].node)'
      <4>1. memo'[g] = memo[g] /\ bind[p].pc # "none" /\ bind'[p].node = bind[p].node
        BY <2>1, <3>1, PlacementStays
      <4>. QED BY <1>0, <2>4, <4>1 DEF SeatsKept, Seated
    <3>2. ASSUME pod'[p].phase = "bound"
          PROVE  Seated(p, pod[p].node)'
      <4>1. memo'[g] = memo[g] /\ pod[p].phase = "bound"
        BY <2>4, <3>2, PlacementStays
      <4>. QED BY <1>0, <2>4, <4>1 DEF SeatsKept, Seated
    <3>. QED BY <3>1, <3>2
  <2>5. CASE pod'[p].phase = "gone" /\ pod'[p].stamp = NoBackend
    <3>1. bind'[p].pc = "none"
      BY <1>0, <1>5, <2>5, PodStep DEF PodMoves, Steady, PendingOnly
    <3>. QED BY <2>5, <3>1
  <2>. QED BY <1>1, <1>5, <2>2, <2>3, <2>4, <2>5 DEF SeatMoves
<1>. QED
  BY <1>4, <1>5

\* Who is stamped is in a group with a leader that was listed.
LEMMA StampNext ==
  ASSUME GangInv, WholeGangs, PluginStep, NEW g \in Groups
  PROVE  Unstamped(g)' \/ Led(g)'
<1>0. TypeOK /\ PendingOnly /\ SeatsKept /\ Steady
  BY DEF GangInv, AccountInv, TeardownInv, WholeGangs
<1>1. CASE Led(g)
  BY <1>0, <1>1, LedKept
<1>2. CASE Unstamped(g)
  <2>1. ASSUME NEW p \in Members(g), pod'[p].stamp # NoBackend
        PROVE  Led(g)
    <3>1. p \in Pods /\ GroupOf[p] = g /\ pod[p].stamp = NoBackend /\ pod[p] \in PodType
      BY <1>0, <1>2 DEF Unstamped, Members, TypeOK
    <3>2. ((Reserve /\ cycle.pod = p) \/ PreBindStamp(p)) /\ memo[g].backend # NoBackend
      BY <1>0, <2>1, <3>1, SeatStep DEF SeatMoves, Stamped, PodType
    <3>3. pod[p].phase = "pending" /\ memo[g].jobs # {}
      BY <1>0, <3>1, <3>2 DEF Reserve, PreBindStamp, PendingOnly, SeatsKept, Seated, CycleGroup
    <3>. QED BY <3>1, <3>2, <3>3, CachedBackend
  <2>. QED BY <1>1, <2>1 DEF Unstamped, Members
<1>. QED
  BY <1>0, <1>1, <1>2 DEF SeatsKept

LEMMA SeatsNext ==
  ASSUME GangInv, WholeGangs, PluginStep
  PROVE  SeatsKept'
BY CycleSeatNext, SeatNext, StampNext DEF SeatsKept

-----------------------------------------------------------------------------
(* GangInv is inductive.                                                    *)

LEMMA GangInit ==
  ASSUME Init
  PROVE  GangInv
<1>1. GrantInv /\ AccountInv
  BY GrantInit, AccountInit
<1>2. \A p \in Pods : /\ pod[p].phase \in {"gated", "pending"} /\ pod[p].stamp = NoBackend
                      /\ pod[p].phase = "gated" => p \in Gated
                      /\ bind[p].pc = "none"
  BY DEF Init, NewPod, NoBind
<1>3. UngatedOnly /\ GangTogether /\ \A g \in Groups : Unstamped(g)
  BY <1>2 DEF UngatedOnly, GangTogether, Unstamped, Members
<1>4. cycle.pc = "idle" /\ \A g \in Groups : ~Backed(g)
  BY DEF Init, IdleCycle, Backed, NoMemo
<1>5. PlacementsFit /\ SeatsKept
  BY <1>2, <1>3, <1>4 DEF PlacementsFit, SeatsKept
<1>. QED
  BY <1>1, <1>3, <1>5 DEF GangInv

LEMMA GangNext ==
  ASSUME GangInv, WholeGangs, PluginStep
  PROVE  GangInv'
<1>0. /\ GrantInv /\ AccountInv /\ TypeOK /\ PendingOnly /\ OwnerOutlivesPods
      /\ UngatedOnly /\ GangTogether /\ Steady /\ FullGangs
  BY DEF GangInv, AccountInv, TeardownInv, WholeGangs
<1>1. GrantInv' /\ AccountInv' /\ UngatedOnly' /\ GangTogether'
  BY <1>0, GrantNext, AccountNext, UngatedNext, TogetherNext
<1>. QED
  BY <1>1, FitNext, SeatsNext DEF GangInv

LEMMA GangCorrect ==
  ASSUME WholeGangs, MaxRestarts = 0
  PROVE  Spec => []GangInv
<1>1. GangInv /\ [Next]_vars => GangInv'
  <2>1. GangInv /\ Restart => FALSE
    BY MaxRestarts = 0 DEF GangInv, AccountInv, TeardownInv, TypeOK, Restart, SpentType
  <2>. QED BY WholeGangs, <2>1, GangNext DEF PluginStep
<1>2. Init => GangInv
  BY GangInit
<1>. QED
  BY <1>1, <1>2, PTL DEF Spec

-----------------------------------------------------------------------------
(* What the running members have.                                           *)

\* The cached placement is held, so what it names is among what is held.
LEMMA BackedIsHeld ==
  ASSUME TypeOK, NEW g \in Groups, Backed(g)
  PROVE  /\ memo[g].jobs \subseteq {i \in Held : job[i].group = g}
         /\ SlotsOf(memo[g].jobs) \subseteq HeldSlots(g)
         /\ IsFiniteSet(HeldSlots(g))
<1>1. memo[g].jobs \subseteq {i \in Held : job[i].group = g}
  BY MemberTypes, ConstantsAssumption DEF Backed, Held
<1>2. HeldSlots(g) \subseteq Slots
  BY DEF TypeOK, Alloc, HeldSlots, Held
<1>. QED
  BY <1>1, <1>2, FS_Subset, ConstantsAssumption DEF SlotsOf, HeldSlots

\* A running member is on the placement its group has, which Fluxion backs.
LEMMA LiveSeated ==
  ASSUME GangInv, NEW g \in Groups, NEW p \in Live(g)
  PROVE  /\ TypeOK /\ Backed(g) /\ Sized(g, memo[g]) /\ Equipped(g, memo[g])
         /\ Seated(p, pod[p].node) /\ p \in Pods /\ GroupOf[p] = g
<1>1. p \in Pods /\ GroupOf[p] = g /\ pod[p].phase = "bound"
  BY DEF Live, Members
<1>2. Seated(p, pod[p].node)
  BY <1>1 DEF GangInv, SeatsKept
<1>3. Backed(g)
  BY <1>1, <1>2, CachedBackend DEF Seated
<1>. QED
  BY <1>1, <1>2, <1>3 DEF GangInv, AccountInv, TeardownInv, PlacementsFit

\* Pods run on nodes Fluxion gave their group: every running member of a group
\* is on a node of what the group holds, however matches, rejections, binding
\* goroutines and teardowns interleave, where a gang passes Permit whole and is
\* rejected whole, owners and pods are not deleted before they complete nor
\* named twice, no patch fails and the scheduler does not restart; members may
\* be gated (PreFilter, Filter, PostFilter, Reserve, cancelGroup).
THEOREM BoundOnHeldNodes ==
  ASSUME EarlyDelete = FALSE, MaxFaults = 0, MaxRecreates = 0, FullGangs,
         MaxRestarts = 0, GroupReject = TRUE
  PROVE  Spec => [](\A g \in Groups : \A p \in Live(g) :
                      pod[p].node \in {NodeOf[s] : s \in HeldSlots(g)})
<1>1. Spec => []GangInv
  BY EarlyDelete = FALSE, MaxFaults = 0, MaxRecreates = 0, FullGangs, MaxRestarts = 0,
     GroupReject = TRUE, GangCorrect DEF WholeGangs, Steady
<1>2. GangInv => \A g \in Groups : \A p \in Live(g) :
                   pod[p].node \in {NodeOf[s] : s \in HeldSlots(g)}
  BY LiveSeated, BackedIsHeld DEF Seated, Sized
<1>. QED
  BY <1>1, <1>2, PTL

\* And where no member is created gated there is a slot for each running one:
\* the match was for the whole gang (groupPods, matchGroup).
THEOREM BoundWhereAllocated ==
  ASSUME EarlyDelete = FALSE, MaxFaults = 0, MaxRecreates = 0, FullGangs,
         MaxRestarts = 0, GroupReject = TRUE, Gated = {}
  PROVE  Spec => []BoundOnAllocation
<1>1. Spec => []GangInv
  BY EarlyDelete = FALSE, MaxFaults = 0, MaxRecreates = 0, FullGangs, MaxRestarts = 0,
     GroupReject = TRUE, GangCorrect DEF WholeGangs, Steady
<1>2. Spec => [](\A g \in Groups : \A p \in Live(g) :
                   pod[p].node \in {NodeOf[s] : s \in HeldSlots(g)})
  BY EarlyDelete = FALSE, MaxFaults = 0, MaxRecreates = 0, FullGangs, MaxRestarts = 0,
     GroupReject = TRUE, BoundOnHeldNodes
<1>3. GangInv => \A g \in Groups : Cardinality(Live(g)) <= Cardinality(HeldSlots(g))
  <2> SUFFICES ASSUME GangInv, NEW g \in Groups
               PROVE  Cardinality(Live(g)) <= Cardinality(HeldSlots(g))
    OBVIOUS
  <2>1. /\ IsFiniteSet(Members(g)) /\ Live(g) \subseteq Members(g)
        /\ Cardinality(Live(g)) \in Nat /\ Cardinality(Live(g)) <= Cardinality(Members(g))
    BY FS_Subset, FS_CardinalityType, ConstantsAssumption DEF Members, Live
  <2>2. IsFiniteSet(HeldSlots(g)) /\ Cardinality(HeldSlots(g)) \in Nat
    <3>1. HeldSlots(g) \subseteq Slots
      BY DEF GangInv, AccountInv, TeardownInv, TypeOK, Alloc, HeldSlots, Held
    <3>. QED BY <3>1, FS_Subset, FS_CardinalityType, ConstantsAssumption
  <2>3. CASE Live(g) = {}
    BY <2>2, <2>3, FS_EmptySet
  <2>4. ASSUME NEW p \in Live(g)
        PROVE  Cardinality(Live(g)) <= Cardinality(HeldSlots(g))
    <3>1. /\ SlotsOf(memo[g].jobs) \subseteq HeldSlots(g)
          /\ Cardinality(SlotsOf(memo[g].jobs)) = Cardinality(Members(g))
      BY <2>4, LiveSeated, BackedIsHeld, Gated = {} DEF Sized
    <3>2. Cardinality(Members(g)) \in Nat /\ Cardinality(Members(g)) <= Cardinality(HeldSlots(g))
      BY <2>1, <2>2, <3>1, FS_Subset, FS_CardinalityType
    <3>. QED BY <2>1, <2>2, <3>2
  <2>. QED BY <2>3, <2>4
<1>4. (\A g \in Groups : \A p \in Live(g) : pod[p].node \in {NodeOf[s] : s \in HeldSlots(g)})
      /\ (\A g \in Groups : Cardinality(Live(g)) <= Cardinality(HeldSlots(g))) => BoundOnAllocation
  BY DEF BoundOnAllocation
<1>. QED
  BY <1>1, <1>2, <1>3, <1>4, PTL

\* The backend a running pod was told to use is one its group holds: the stamp
\* of Reserve and PreBind never outlives the allocation it was read from, under
\* the conditions of BoundOnHeldNodes, gated members included (stampBackend,
\* PostFilter, cancelGroup).
THEOREM StampsAreHeld ==
  ASSUME EarlyDelete = FALSE, MaxFaults = 0, MaxRecreates = 0, FullGangs,
         MaxRestarts = 0, GroupReject = TRUE
  PROVE  Spec => []BoundSeesHeldBackend
<1>1. Spec => []GangInv
  BY EarlyDelete = FALSE, MaxFaults = 0, MaxRecreates = 0, FullGangs, MaxRestarts = 0,
     GroupReject = TRUE, GangCorrect DEF WholeGangs, Steady
<1>2. GangInv => BoundSeesHeldBackend
  <2> SUFFICES ASSUME GangInv, NEW g \in Groups, NEW p \in Live(g), pod[p].stamp # NoBackend
               PROVE  \E j \in Held : job[j].group = g /\ pod[p].stamp \in job[j].backends
    BY DEF BoundSeesHeldBackend
  <2>1. pod[p].stamp \in BackendsOf(memo[g].jobs)
    BY LiveSeated DEF Seated, Equipped
  <2>2. memo[g].jobs \subseteq {i \in Held : job[i].group = g}
    BY LiveSeated, BackedIsHeld
  <2>. QED BY <2>1, <2>2 DEF BackendsOf
<1>. QED
  BY <1>1, <1>2, PTL

\* No two running pods of different groups drive the same device, under the
\* conditions of BoundOnHeldNodes: what the run that restarts the scheduler refutes holds as
\* long as it does not (stampBackend, matchGroup; exclusive virtual nodes).
THEOREM BackendsNotShared ==
  ASSUME EarlyDelete = FALSE, MaxFaults = 0, MaxRecreates = 0, FullGangs,
         MaxRestarts = 0, GroupReject = TRUE
  PROVE  Spec => []BackendNotDoubleBooked
<1>1. Spec => []GangInv
  BY EarlyDelete = FALSE, MaxFaults = 0, MaxRecreates = 0, FullGangs, MaxRestarts = 0,
     GroupReject = TRUE, GangCorrect DEF WholeGangs, Steady
<1>2. GangInv => BackendNotDoubleBooked
  <2> SUFFICES ASSUME GangInv, NEW p \in Pods, NEW q \in Pods,
                      pod[p].phase = "bound", pod[q].phase = "bound",
                      GroupOf[p] # GroupOf[q], pod[p].stamp = pod[q].stamp, pod[p].stamp # NoBackend
               PROVE  FALSE
    BY DEF BackendNotDoubleBooked
  <2>1. ASSUME NEW r \in Pods, pod[r].phase = "bound", pod[r].stamp # NoBackend
        PROVE  \E j \in JobIds : job[j].group = GroupOf[r] /\ pod[r].stamp \in job[j].backends
    <3>1. GroupOf[r] \in Groups /\ r \in Live(GroupOf[r])
      BY <2>1, ConstantsAssumption DEF Live, Members
    <3>2. pod[r].stamp \in BackendsOf(memo[GroupOf[r]].jobs)
      BY <2>1, <3>1, LiveSeated DEF Seated, Equipped
    <3>3. memo[GroupOf[r]].jobs \subseteq {i \in Held : job[i].group = GroupOf[r]}
      BY <3>1, LiveSeated, BackedIsHeld
    <3>. QED BY <3>2, <3>3 DEF BackendsOf, Held
  <2>2. PICK i \in JobIds : job[i].group = GroupOf[p] /\ pod[p].stamp \in job[i].backends
    BY <2>1
  <2>3. PICK j \in JobIds : job[j].group = GroupOf[q] /\ pod[q].stamp \in job[j].backends
    BY <2>1
  <2>. QED BY <2>2, <2>3 DEF GangInv, GrantInv, Exclusive
<1>. QED
  BY <1>1, <1>2, PTL
=============================================================================
