---------------------- MODULE FluencePluginInvariants ----------------------
(***************************************************************************)
(* The strengthenings that make the invariants of FluencePlugin inductive, *)
(* and what they assume of the deployment. They are parts of proofs; each  *)
(* part says what would have to go wrong first.                            *)
(***************************************************************************)
EXTENDS FluencePlugin

-----------------------------------------------------------------------------
(* The strengthenings that make NoForeignReference and MemoHeld, and        *)
(* MemoAvoidsExcluded, inductive.                                           *)

\* Every jobid named anywhere was issued, so the next match's is new to all.
OldReferences ==
  \A g \in Groups, j \in JobIds : Records(g, j) \/ InHand(g, j) => j < nextJob

\* While a group is matched or rolled back it has no cached placement.
SingleWriter == \A g \in Groups : Matching(g) => memo[g].jobs = {}

\* What a match has obtained is held, and no record names it before it is stored.
MatchPrivate ==
  \A g \in Groups, j \in JobIds :
    cycle.pc \in MatchPcs /\ InHand(g, j)
      => job[j].group = g /\ \A h \in Groups : ~Records(h, j)

ReferenceInv ==
  /\ TypeOK /\ OldReferences /\ NoForeignReference
  /\ SingleWriter /\ MatchPrivate /\ MemoHeld

\* A match in flight steers off at least what its group excludes now.
MatchAvoidsExcluded ==
  /\ cycle.pc \in {"compute", "device", "store"} => excluded[CycleGroup] \subseteq cycle.excl
  /\ cycle.pc \in {"device", "store"} => cycle.place.nodes \cap cycle.excl = {}

ExclusionInv == TypeOK /\ MemoAvoidsExcluded /\ MatchAvoidsExcluded

(* The strengthening that makes TeardownComplete inductive when owners and  *)
(* pods outlive the work (EarlyDelete = FALSE).                             *)

\* A placement without jobids is no placement, wherever it is in hand.
MemoWhole ==
  /\ \A g \in Groups : memo[g].jobs = {} => memo[g] = NoMemo
  /\ cycle.pc \in {"device", "store"} => cycle.place.jobs # {}
  /\ \A p \in Pods : bind[p].pc = "record" => bind[p].jobs # {}

\* Only pending pods are scheduled or bound, one goroutine at a time.
PendingOnly ==
  /\ cycle.pc # "idle" => pod[cycle.pod].phase = "pending" /\ bind[cycle.pod].pc = "none"
  /\ \A p \in Pods : bind[p].pc # "none" => pod[p].phase = "pending"

\* An owner goes when its pods are over.
OwnerOutlivesPods ==
  \A g \in Groups :
    ~owner[g].exists => \A p \in Members(g) : pod[p].phase \in {"done", "gone"}

\* An exclusion is never the last thing a group has: while its owner exists,
\* there is a jobid to tear down, or a member that has still to obtain one.
ExclusionAnchored ==
  /\ \A g \in Groups : owner[g].exists /\ excluded[g] # {} =>
       \/ owner[g].jobs # {} \/ memo[g].jobs # {}
       \/ \E p \in Members(g) : pod[p].phase \in {"gated", "pending"} /\ bind[p].pc = "none"
  /\ \A g \in Groups : excluded[g] # {} => Members(g) # {}
  /\ cycle.pc \in {"filter", "reserve"} =>
       excluded[CycleGroup] = {} \/ memo[CycleGroup].jobs # {}

\* A cancelGroup of g runs, or will once an event that finds jobids is handled.
TearsDown(g) ==
  \/ Cancelling(g)
  \/ \E w \in Informers : \E i \in DOMAIN events[w] :
       events[w][i].key = g /\ (events[w][i].jobs # {} \/ memo[g].jobs # {})

\* What a deleted owner's group has left is about to be dropped.
TeardownPending ==
  \A g \in Groups : ~owner[g].exists =>
    TearsDown(g) \/ (memo[g] = NoMemo /\ excluded[g] = {})

TeardownInv ==
  /\ TypeOK /\ MemoWhole /\ PendingOnly
  /\ OwnerOutlivesPods /\ ExclusionAnchored /\ TeardownPending

-----------------------------------------------------------------------------
(* For RefinesGroupGrants.                                                  *)

\* What the step simulation needs besides ReferenceInv: Fluxion gives nothing
\* twice and keeps nothing under a free jobid, and a group that is granted
\* something is granted slots, since a group that lists no pod is not matched.
Exclusive ==
  /\ \A j \in JobIds : job[j].group = NoGroup => job[j] = FreeJob
  /\ \A i, j \in JobIds : i # j => /\ job[i].slots \cap job[j].slots = {}
                                   /\ job[i].backends \cap job[j].backends = {}

GrantsSlots ==
  /\ cycle.pc \in {"specs", "compute"} => cycle.size # 0
  /\ cycle.pc \in {"device", "store"} => SlotsOf(cycle.place.jobs) # {}
  /\ \A g \in Groups : Backed(g) => SlotsOf(memo[g].jobs) # {}

GrantInv == ReferenceInv /\ Exclusive /\ GrantsSlots

-----------------------------------------------------------------------------
(* For HeldAccounted, in a deployment where a gang passes Permit whole: all *)
(* its members count for minCount.                                          *)

FullGangs == \A g \in Groups : Cardinality(Members(g)) <= MinCount[g]

PastGate(p) == bind[p].pc \in {"prebind", "record", "stamp", "bind"}
Over(g)     == \A p \in Members(g) : pod[p].phase \in {"done", "gone"}

\* Once a member is past Permit no member is scheduled any more.
GateWhole ==
  \A g \in Groups : (\E p \in Members(g) : PastGate(p))
    => \A q \in Members(g) : PastGate(q) \/ pod[q].phase \in {"bound", "done", "gone"}

\* What PreBind read is still the placement when recordJobIDs writes it.
RecordsMemo ==
  \A p \in Pods : bind[p].pc = "record" => bind[p].jobs = memo[GroupOf[p]].jobs

\* A group is torn down when its pods are over, so never during a match of it.
TeardownAfterPods ==
  /\ \A w \in Informers : \A i \in DOMAIN events[w] : Over(events[w][i].key)
  /\ \A w \in Informers : IF handler[w].busy THEN Over(handler[w].key) ELSE handler[w].jobs = {}

\* The annotation is the placement, or a member is on its way to make it so.
WillRecord(p) ==
  /\ pod[p].phase = "pending"
  /\ \/ bind[p].pc \in {"none", "preflight", "prebind", "record"}
     \/ bind[p].pc = "permit" /\ ~bind[p].skip
AnnotationCurrent ==
  \A g \in Groups : owner[g].exists /\ memo[g].jobs # {} =>
    owner[g].jobs = memo[g].jobs \/ \E p \in Members(g) : WillRecord(p)

\* A teardown cancels all that the placement it drops still holds.
TeardownCovers ==
  /\ \A w \in Informers : \A i \in DOMAIN events[w] :
       events[w][i].jobs = {} \/ memo[events[w][i].key].jobs \subseteq events[w][i].jobs
  /\ \A w \in Informers : handler[w].busy =>
       \A j \in memo[handler[w].key].jobs :
         j \in handler[w].jobs \/ job[j].group # handler[w].key

AccountInv ==
  /\ TeardownInv /\ SingleWriter /\ GateWhole /\ RecordsMemo /\ TeardownAfterPods
  /\ AnnotationCurrent /\ TeardownCovers /\ HeldAccounted
  /\ cycle.pc = "pods" => cycle.place.jobs = {}
  /\ \A g \in Groups : ~owner[g].exists => owner[g].jobs = {}

-----------------------------------------------------------------------------
(* For BoundSeesHeldBackend, where besides a member's failure unreserves its *)
(* gang; and for BoundOnAllocation, where moreover no pod is gated.          *)

UngatedOnly == \A p \in Pods : pod[p].phase = "gated" => p \in Gated

\* Members are scheduled together, or are through together.
GangTogether ==
  \A g \in Groups :
    \/ \A p \in Members(g) : /\ pod[p].phase \in {"gated", "pending"}
                             /\ bind[p].pc \in {"none", "preflight", "permit"}
    \/ \A p \in Members(g) : PastGate(p) \/ pod[p].phase \in {"bound", "done", "gone"}

\* A leader of g can be listed; no member of g is stamped.
Led(g)       == \E q \in Members(g) \cap Leaders : pod[q].phase # "gated"
Unstamped(g) == \A p \in Members(g) : pod[p].stamp = NoBackend

\* A placement for g: the nodes of its slots, a slot for every member where
\* none is gated, and a backend once a member was told to use one.
Sized(g, place) ==
  /\ place.nodes = {NodeOf[s] : s \in SlotsOf(place.jobs)}
  /\ Gated = {} => Cardinality(SlotsOf(place.jobs)) = Cardinality(Members(g))
Equipped(g, place) ==
  IF place.backend = NoBackend THEN Unstamped(g)
  ELSE place.backend \in BackendsOf(place.jobs) /\ Led(g)

PlacementsFit ==
  /\ cycle.pc \in {"specs", "compute"} =>
       /\ Gated = {} => cycle.size = Cardinality(Members(CycleGroup))
       /\ IF cycle.device THEN Led(CycleGroup) ELSE Unstamped(CycleGroup)
  /\ cycle.pc \in {"pods", "specs", "compute"} => cycle.place = NoMemo
  /\ cycle.pc = "device" => Sized(CycleGroup, cycle.place) /\ Led(CycleGroup)
  /\ cycle.pc = "store" => Sized(CycleGroup, cycle.place) /\ Equipped(CycleGroup, cycle.place)
  /\ \A g \in Groups : Backed(g) => Sized(g, memo[g]) /\ Equipped(g, memo[g])

\* Every pod from Reserve to its end is on the placement its group has now.
Seated(p, node) ==
  LET place == memo[GroupOf[p]] IN
    place.jobs # {} /\ node \in place.nodes /\ pod[p].stamp = place.backend

SeatsKept ==
  /\ cycle.pc \in {"filter", "postfilter", "reserve"} => memo[CycleGroup].jobs # {}
  /\ cycle.pc = "reserve" => cycle.node \in memo[CycleGroup].nodes
  /\ \A p \in Pods : bind[p].pc # "none" => Seated(p, bind[p].node)
  /\ \A p \in Pods : pod[p].phase = "bound" => Seated(p, pod[p].node)
  /\ \A g \in Groups : Unstamped(g) \/ Led(g)

GangInv == GrantInv /\ AccountInv /\ UngatedOnly /\ GangTogether /\ PlacementsFit /\ SeatsKept
=============================================================================
