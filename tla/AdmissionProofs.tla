--------------------------- MODULE AdmissionProofs ---------------------------
(***************************************************************************)
(* What the webhook keeps for every set of pods and gangs: the types of     *)
(* requests and objects, one scout per gang, PodGroups of the size of their *)
(* gangs, and what admission control promises fits. For the last: the sums  *)
(* a reading of the cluster is judged by, and the invariant that carries    *)
(* the judgement from the reading to the record or the pod it lets in.      *)
(***************************************************************************)
EXTENDS Admission, SumTheorems

-----------------------------------------------------------------------------
(* Types.                                                                   *)

LEMMA MaxOfTwo ==
  ASSUME NEW a \in Int, NEW b \in Int
  PROVE  Max({a, b}) \in {a, b} /\ Max({a, b}) >= a /\ Max({a, b}) >= b
<1>1. \E x \in {a, b} : \A y \in {a, b} : x >= y
  OBVIOUS
<1>2. \A y \in {a, b} : Max({a, b}) >= y
  BY <1>1 DEF Max
<1>3. Max({a, b}) \in {a, b}
  BY <1>1 DEF Max
<1>. QED BY <1>2, <1>3

LEMMA MaxBelow ==
  ASSUME NEW a \in Int, NEW b \in Int, NEW c \in Int, a <= c, b <= c
  PROVE  Max({a, b}) <= c
<1>1. Max({a, b}) \in {a, b}
  BY MaxOfTwo
<1>. QED BY <1>1

LEMMA LabelCountType ==
  ASSUME NEW g PROVE LabelCount(g) \in Nat
<1> DEFINE S == {p \in Standing : /\ GroupOf[p] = g
                                  /\ \/ pod[p].role = "worker"
                                     \/ p \in Labelled /\ pod[p].role # "scout"}
<1>1. S \subseteq Pods
  BY DEF Standing
<1>2. IsFiniteSet(S)
  BY <1>1, FS_Subset, ConstantsAssumption
<1>. QED BY <1>2, FS_CardinalityType DEF LabelCount

LEMMA SizeType ==
  ASSUME NEW p \in Pods, NEW ok \in BOOLEAN
  PROVE  ResolvedSize(p, ok) \in Nat \ {0} /\ ResolvedMinCount(p, ok) \in Nat \ {0}
<1>1. Size[p] \in Nat \ {0}
  BY ConstantsAssumption
<1>2. LabelCount(GroupOf[p]) \in Nat
  BY LabelCountType
<1>3. Max({1, LabelCount(GroupOf[p])}) \in Nat \ {0}
  BY <1>2, MaxOfTwo
<1>. QED BY <1>1, <1>3 DEF ResolvedSize, ResolvedMinCount

LEMMA CallType ==
  ASSUME TypeOK, NEW ok \in BOOLEAN, Call(ok)
  PROVE  faults' \in Nat /\ (faults' = 0 => faults = 0 /\ ok)
BY DEF TypeOK, Call

LEMMA EnsuredType ==
  ASSUME TypeOK, NEW x, NEW n \in Nat, NEW ok \in BOOLEAN
  PROVE  Ensured(x, n, ok) \in [PodGroups -> PodGroupType]
<1>1. Max({n, 1}) \in Nat /\ Max({n, 1}) > 0
  <2>1. Max({n, 1}) \in {n, 1} /\ Max({n, 1}) >= 1
    BY MaxOfTwo
  <2>. QED BY <2>1
<1>2. [exists |-> TRUE, minCount |-> Max({n, 1}), cores |-> 0] \in PodGroupType
  BY <1>1 DEF PodGroupType
<1>3. ASSUME NEW v \in PodGroupType
      PROVE  [pg EXCEPT ![x] = v] \in [PodGroups -> PodGroupType]
  BY DEF TypeOK
<1>. QED BY <1>2, <1>3 DEF Ensured, TypeOK

LEMMA NullTypes ==
  /\ NoReading \in ReadingType
  /\ IdleReq \in RequestType /\ Handled \in RequestType
  /\ [exists |-> FALSE, minCount |-> 0, cores |-> 0] \in PodGroupType
<1>1. NoReading \in ReadingType
  BY DEF NoReading, ReadingType
<1>2. IdleReq \in RequestType
  BY <1>1 DEF IdleReq, RequestType, Roles
<1>3. Handled \in RequestType
  BY <1>2 DEF Handled, RequestType
<1>4. [exists |-> FALSE, minCount |-> 0, cores |-> 0] \in PodGroupType
  BY DEF PodGroupType
<1>. QED BY <1>1, <1>2, <1>3, <1>4

LEMMA ReqUpdate ==
  ASSUME TypeOK, NEW p \in Pods, NEW v \in RequestType, req' = [req EXCEPT ![p] = v]
  PROVE  req' \in [Pods -> RequestType]
BY DEF TypeOK

LEMMA GotoType ==
  ASSUME TypeOK, NEW p \in Pods, NEW pc \in Deciding \cup Mutating, Goto(p, pc)
  PROVE  req' \in [Pods -> RequestType]
<1>1. [req[p] EXCEPT !.pc = pc] \in RequestType
  BY DEF TypeOK, RequestType
<1>2. req' = [req EXCEPT ![p] = [req[p] EXCEPT !.pc = pc]]
  BY DEF Goto
<1>. QED BY <1>1, <1>2, ReqUpdate

LEMMA TypeInit == Init => TypeOK
<1> SUFFICES ASSUME Init PROVE TypeOK
  OBVIOUS
<1>1. req \in [Pods -> RequestType]
  BY NullTypes DEF Init
<1>2. pg \in [PodGroups -> PodGroupType]
  BY NullTypes DEF Init
<1>3. pod \in [Pods -> [phase : Phases, role : Roles]]
  BY DEF Init, Phases, Roles
<1>. QED BY <1>1, <1>2, <1>3, ConstantsAssumption DEF Init, TypeOK

LEMMA DecideType ==
  ASSUME TypeOK, NEW p \in Pods, NEW ok \in BOOLEAN,
         \/ Arrive(p) \/ ResolveSize(p, ok) \/ GroupAdmitted(p, ok)
         \/ ListPods(p, ok) \/ Admit(p, ok)
  PROVE  TypeOK'
<1>0. req[p] \in RequestType
  BY DEF TypeOK
<1>1. CASE Arrive(p)
  <2> DEFINE v == [IdleReq EXCEPT
                !.pc = IF p \in SelfMarked THEN "refused"
                       ELSE IF p \in Quantum THEN "size" ELSE "gang",
                !.role = IF p \in Quantum THEN "none" ELSE "member"]
  <2>1. v \in RequestType
    BY NullTypes DEF RequestType, Deciding, Mutating, Roles
  <2>2. req' = [req EXCEPT ![p] = v]
    BY <1>1 DEF Arrive
  <2>. QED BY <1>1, <2>1, <2>2, ReqUpdate DEF Arrive, TypeOK
<1>2. CASE ResolveSize(p, ok)
  <2>1. PICK n \in Nat \ {0}, role \in Roles, pc \in Deciding \cup Mutating :
          req' = [req EXCEPT ![p] = [req[p] EXCEPT !.n = n, !.role = role, !.pc = pc]]
    <3> DEFINE n == ResolvedSize(p, ok)
               role == IF req[p].pc = "resize" /\ ~InGang(p, n) THEN "alone" ELSE req[p].role
               pc == CASE req[p].pc = "size"   /\ InGang(p, n)  -> "admitted"
                       [] req[p].pc = "size"   /\ ~InGang(p, n) -> "pods"
                       [] req[p].pc = "resize" /\ InGang(p, n)  -> "ensure"
                       [] OTHER -> "answer"
    <3>1. n \in Nat \ {0}
      BY SizeType
    <3>2. role \in Roles
      BY <1>0 DEF RequestType, Roles
    <3>3. pc \in Deciding \cup Mutating
      BY <1>2 DEF ResolveSize, Deciding, Mutating
    <3>4. req' = [req EXCEPT ![p] = [req[p] EXCEPT !.n = n, !.role = role, !.pc = pc]]
      BY <1>2 DEF ResolveSize
    <3>. QED BY <3>1, <3>2, <3>3, <3>4
  <2>2. [req[p] EXCEPT !.n = n, !.role = role, !.pc = pc] \in RequestType
    BY <1>0 DEF RequestType
  <2>. QED BY <1>2, <2>1, <2>2, ReqUpdate, CallType DEF ResolveSize, TypeOK
<1>3. CASE GroupAdmitted(p, ok)
  <2>1. req' \in [Pods -> RequestType]
    BY <1>3, GotoType DEF GroupAdmitted, Deciding, Mutating
  <2>. QED BY <1>3, <2>1, CallType DEF GroupAdmitted, TypeOK
<1>4. CASE ListPods(p, ok)
  <2>1. Reading \in ReadingType
    BY DEF Reading, ReadingType, Bound, Standing, TypeOK
  <2>2. [req[p] EXCEPT !.pc = "groups", !.seen = Reading] \in RequestType
        /\ [req[p] EXCEPT !.pc = "resize"] \in RequestType
    BY <1>0, <2>1 DEF RequestType, Deciding, Mutating
  <2>3. req' = [req EXCEPT ![p] = IF ok THEN [req[p] EXCEPT !.pc = "groups", !.seen = Reading]
                                  ELSE [req[p] EXCEPT !.pc = "resize"]]
    BY <1>4 DEF ListPods
  <2>4. overlapped' \in BOOLEAN
    BY <1>4 DEF ListPods, TypeOK
  <2>. QED BY <1>4, <2>2, <2>3, <2>4, ReqUpdate, CallType DEF ListPods, TypeOK
<1>5. CASE Admit(p, ok)
  <2>1. PICK pc \in {"refused", "resize"} :
          req' = [req EXCEPT ![p] =
                   [req[p] EXCEPT !.seen = [NoReading EXCEPT !.taken = TRUE], !.pc = pc]]
    <3> DEFINE pc == IF ok /\ Want(p) + Promised(req[p].seen) > Reachable(req[p].seen)
                     THEN "refused" ELSE "resize"
    <3>1. req' = [req EXCEPT ![p] =
                   [req[p] EXCEPT !.seen = [NoReading EXCEPT !.taken = TRUE], !.pc = pc]]
      BY <1>5 DEF Admit
    <3>2. pc \in {"refused", "resize"}
      OBVIOUS
    <3>. HIDE DEF pc
    <3>. QED BY <3>1, <3>2
  <2>2. [NoReading EXCEPT !.taken = TRUE] \in ReadingType
    BY NullTypes DEF ReadingType
  <2>3. [req[p] EXCEPT !.seen = [NoReading EXCEPT !.taken = TRUE], !.pc = pc] \in RequestType
    BY <1>0, <2>2 DEF RequestType, Deciding, Mutating
  <2>. QED BY <1>5, <2>1, <2>3, ReqUpdate, CallType DEF Admit, TypeOK
<1>. QED BY <1>1, <1>2, <1>3, <1>4, <1>5

LEMMA MutateType ==
  ASSUME TypeOK, NEW p \in Pods, NEW ok \in BOOLEAN,
         \/ EnsureGang(p, ok) \/ ReadRecord(p, ok) \/ PatchRecord(p, ok)
         \/ Elect(p, ok) \/ EnsureScout(p, ok) \/ \E sized \in BOOLEAN : GangHandler(p, sized, ok)
  PROVE  TypeOK'
<1>0. req[p] \in RequestType /\ req[p].n \in Nat \ {0}
  BY DEF TypeOK, RequestType
<1>1. CASE EnsureGang(p, ok)
  <2>1. pg' \in [PodGroups -> PodGroupType]
    <3>1. req[p].n - 1 \in Nat
      BY <1>0
    <3>. QED BY <1>1, <3>1, EnsuredType DEF EnsureGang
  <2>2. req' \in [Pods -> RequestType]
    BY <1>1, GotoType DEF EnsureGang, Mutating
  <2>. QED BY <1>1, <2>1, <2>2, CallType DEF EnsureGang, TypeOK
<1>2. CASE ReadRecord(p, ok)
  <2>1. req' \in [Pods -> RequestType]
    BY <1>2, GotoType DEF ReadRecord, Mutating
  <2>. QED BY <1>2, <2>1, CallType DEF ReadRecord, TypeOK
<1>3. CASE PatchRecord(p, ok)
  <2>1. req' \in [Pods -> RequestType]
    BY <1>3, GotoType DEF PatchRecord, Mutating
  <2>2. Want(p) \in Nat
    <3>1. \A a, b \in Nat : a * b \in Nat
      OBVIOUS
    <3>2. Cores[p] \in Nat
      BY ConstantsAssumption
    <3>. QED BY <1>0, <3>1, <3>2 DEF Want
  <2>3. pg' \in [PodGroups -> PodGroupType]
    BY <1>3, <2>2 DEF PatchRecord, TypeOK, PodGroupType
  <2>. QED BY <1>3, <2>1, <2>3, CallType DEF PatchRecord, TypeOK
<1>4. CASE Elect(p, ok)
  <2>1. PICK role \in Roles, pc \in Mutating :
          req' = [req EXCEPT ![p] = [req[p] EXCEPT !.role = role, !.pc = pc]]
    BY <1>4 DEF Elect, Roles, Mutating
  <2>2. [req[p] EXCEPT !.role = role, !.pc = pc] \in RequestType
    BY <1>0 DEF RequestType
  <2>3. overlapped' \in BOOLEAN
    BY <1>4 DEF Elect, TypeOK
  <2>. QED BY <1>4, <2>1, <2>2, <2>3, ReqUpdate, CallType DEF Elect, TypeOK
<1>5. CASE EnsureScout(p, ok)
  <2>1. pg' \in [PodGroups -> PodGroupType]
    BY <1>5, EnsuredType DEF EnsureScout
  <2>2. req' \in [Pods -> RequestType]
    BY <1>5, GotoType DEF EnsureScout, Mutating
  <2>. QED BY <1>5, <2>1, <2>2, CallType DEF EnsureScout, TypeOK
<1>6. ASSUME NEW sized \in BOOLEAN, GangHandler(p, sized, ok) PROVE TypeOK'
  <2>1. pg' \in [PodGroups -> PodGroupType]
    BY <1>6, EnsuredType, SizeType DEF GangHandler
  <2>2. req' \in [Pods -> RequestType]
    BY <1>6, GotoType DEF GangHandler, Mutating
  <2>3. (sized /\ ok) \in BOOLEAN /\ Call(sized /\ ok)
    BY <1>6 DEF GangHandler
  <2>4. faults' \in Nat
    BY <2>3, CallType
  <2>. QED BY <1>6, <2>1, <2>2, <2>4 DEF GangHandler, TypeOK
<1>. QED BY <1>1, <1>2, <1>3, <1>4, <1>5, <1>6

LEMMA AnswerType ==
  ASSUME TypeOK, NEW p \in Pods, Answer(p) \/ LoseAnswer(p) \/ TimeOut(p)
  PROVE  TypeOK'
<1>1. CASE Answer(p)
  <2>1. req[p].role \in Roles
    BY DEF TypeOK, RequestType
  <2>. QED BY <1>1, <2>1, NullTypes, ReqUpdate DEF Answer, TypeOK, Phases
<1>2. CASE LoseAnswer(p)
  BY <1>2, NullTypes, ReqUpdate, CallType DEF LoseAnswer, TypeOK
<1>3. CASE TimeOut(p)
  BY <1>3, NullTypes, ReqUpdate, CallType DEF TimeOut, TypeOK, Phases, Roles
<1>. QED BY <1>1, <1>2, <1>3

LEMMA ClusterType == TypeOK /\ Cluster => TypeOK'
<1> SUFFICES ASSUME TypeOK, Cluster PROVE TypeOK'
  OBVIOUS
<1>1. ASSUME NEW p \in Pods, Bind(p) PROVE TypeOK'
  BY <1>1 DEF Bind, TypeOK, Phases
<1>2. ASSUME NEW p \in Pods, Finish(p) \/ Delete(p) PROVE TypeOK'
  BY <1>2 DEF Finish, Delete, TypeOK, Phases
<1>3. ASSUME NEW c \in Classical, StartClassical(c) \/ FinishClassical(c) PROVE TypeOK'
  BY <1>3 DEF StartClassical, FinishClassical, TypeOK
<1>4. ASSUME NEW x \in PodGroups, Reap(x) PROVE TypeOK'
  <2>1. pg' \in [PodGroups -> PodGroupType]
    BY <1>4, NullTypes DEF Reap, TypeOK
  <2>. QED BY <1>4, <2>1 DEF Reap, TypeOK
<1>. QED BY <1>1, <1>2, <1>3, <1>4 DEF Cluster

LEMMA TypeNext == TypeOK /\ [Next]_vars => TypeOK'
<1> SUFFICES ASSUME TypeOK, [Next]_vars PROVE TypeOK'
  OBVIOUS
<1>1. CASE Cluster
  BY <1>1, ClusterType
<1>2. ASSUME NEW p \in Pods, Request(p) PROVE TypeOK'
  BY <1>2, DecideType, MutateType, AnswerType DEF Request, Step
<1>3. CASE UNCHANGED vars
  BY <1>3 DEF vars, TypeOK
<1>. QED BY <1>1, <1>2, <1>3 DEF Next

(* Requests, pods and PodGroups stay in their types: no handler ever resolves *)
(* a size of zero or makes a PodGroup that waits for nobody.                 *)
THEOREM TypeCorrect == Spec => []TypeOK
BY TypeInit, TypeNext, PTL DEF Spec

-----------------------------------------------------------------------------
(* One scout per gang.                                                      *)

\* A pod is, or its request is about to make it, the scout of its gang.
Claims(p) == req[p].role = "scout" \/ pod[p].role = "scout"

Quiet(g) ==
  /\ ~overlapped /\ faults = 0
  /\ \A r \in Pods : GroupOf[r] = g => pod[r].phase \notin Over

RequestInv ==
  \A p \in Pods :
    /\ req[p].pc # "over" => pod[p].role = "none" /\ pod[p].phase = "none"
    /\ req[p].role = "scout" => req[p].pc \in {"scoutGroup", "answer"}
    /\ Claims(p) /\ p \in Indexed => p \in First

\* The claim of an elected scout stands as the scout's PodGroup until no member
\* of the gang is left to be elected.
ClaimInv ==
  \A g \in Groups : Quiet(g) =>
    /\ \A p \in Pods \ Indexed :
         GroupOf[p] = g /\ Claims(p) /\ req[p].pc # "scoutGroup" =>
           \/ pg[<<g, "scout">>].exists
           \/ \A r \in Pods : GroupOf[r] = g => req[r].pc = "over"
    /\ \A p, q \in Pods \ Indexed :
         p # q /\ GroupOf[p] = g /\ GroupOf[q] = g => ~(Claims(p) /\ Claims(q))

LEMMA ClaimInit == Init => RequestInv /\ ClaimInv
BY DEF Init, RequestInv, ClaimInv, Claims, IdleReq

\* The steps of a request before it has a role of scout or after it lost it.
Plain(p) ==
  /\ pod' = pod
  /\ req[p].pc \notin {"over", "elect", "scoutGroup", "answer"}
  /\ req'[p].pc \notin {"over", "scoutGroup"} /\ (req[p].role # "scout" => req'[p].role # "scout")

LEMMA PlainSteps ==
  ASSUME TypeOK, NEW p \in Pods, NEW ok \in BOOLEAN,
         \/ Arrive(p) \/ ResolveSize(p, ok) \/ GroupAdmitted(p, ok) \/ ListPods(p, ok)
         \/ Admit(p, ok) \/ EnsureGang(p, ok) \/ ReadRecord(p, ok) \/ PatchRecord(p, ok)
         \/ \E sized \in BOOLEAN : GangHandler(p, sized, ok)
  PROVE  Plain(p)
<1>0. req[p] \in RequestType
  BY DEF TypeOK
<1>1. CASE Arrive(p)
  BY <1>1 DEF Arrive, Plain, TypeOK, IdleReq
<1>2. CASE ResolveSize(p, ok)
  <2>1. PICK n, role, pc :
          /\ req' = [req EXCEPT ![p].n = n, ![p].role = role, ![p].pc = pc]
          /\ role \in {"alone", req[p].role} /\ pc \in {"admitted", "pods", "ensure", "answer"}
    BY <1>2 DEF ResolveSize
  <2>2. req'[p].pc = pc /\ req'[p].role = role
    BY <1>0, <2>1 DEF TypeOK, RequestType
  <2>. QED BY <1>2, <2>1, <2>2 DEF ResolveSize, Plain
<1>3. CASE GroupAdmitted(p, ok) \/ ReadRecord(p, ok) \/ PatchRecord(p, ok) \/ EnsureGang(p, ok)
           \/ \E sized \in BOOLEAN : GangHandler(p, sized, ok)
  <2>1. PICK pc \in {"resize", "pods", "patch", "elect", "read", "gang", "answer"} :
          req' = [req EXCEPT ![p].pc = pc]
    BY <1>3 DEF GroupAdmitted, ReadRecord, PatchRecord, EnsureGang, GangHandler, Goto
  <2>2. req'[p].pc = pc /\ req'[p].role = req[p].role
    BY <1>0, <2>1 DEF TypeOK, RequestType
  <2>. QED BY <1>3, <2>1, <2>2 DEF GroupAdmitted, ReadRecord, PatchRecord, EnsureGang,
              GangHandler, Plain
<1>4. CASE ListPods(p, ok) \/ Admit(p, ok)
  <2>1. PICK pc \in {"groups", "resize", "refused"},
            seen \in {Reading, [NoReading EXCEPT !.taken = TRUE]} :
          \/ req' = [req EXCEPT ![p].pc = pc, ![p].seen = seen]
          \/ req' = [req EXCEPT ![p].seen = seen, ![p].pc = pc]
          \/ req' = [req EXCEPT ![p].pc = pc]
    BY <1>4 DEF ListPods, Admit
  <2>2. req'[p].pc = pc /\ req'[p].role = req[p].role
    BY <1>0, <2>1 DEF TypeOK, RequestType
  <2>. QED BY <1>4, <2>1, <2>2 DEF ListPods, Admit, Plain
<1>. QED BY <1>1, <1>2, <1>3, <1>4

\* What a request leaves alone: the other requests and pods, and every claim.
LEMMA RequestFrame ==
  ASSUME TypeOK, NEW p \in Pods, Request(p)
  PROVE  /\ \A q \in Pods : q # p => req'[q] = req[q] /\ pod'[q] = pod[q]
         /\ overlapped => overlapped'
         /\ faults' = 0 => faults = 0
         /\ \A x \in PodGroups : pg[x].exists => pg'[x].exists
<1>0. \A ok \in BOOLEAN : Call(ok) => (faults' = 0 => faults = 0)
  BY CallType
<1>1. ASSUME NEW q \in Pods, q # p PROVE req'[q] = req[q] /\ pod'[q] = pod[q]
  <2>1. ASSUME NEW ok \in BOOLEAN, Step(p, ok) PROVE req'[q] = req[q] /\ pod' = pod
    BY <1>1, <2>1 DEF Step, ResolveSize, GroupAdmitted, ListPods, Admit, EnsureGang,
       ReadRecord, PatchRecord, Elect, EnsureScout, Goto, TypeOK
  <2>2. ASSUME NEW sized \in BOOLEAN, NEW ok \in BOOLEAN, GangHandler(p, sized, ok)
        PROVE  req'[q] = req[q] /\ pod' = pod
    BY <1>1, <2>2 DEF GangHandler, Goto, TypeOK
  <2>3. CASE Arrive(p) \/ Answer(p) \/ LoseAnswer(p) \/ TimeOut(p)
    BY <1>1, <2>3 DEF Arrive, Answer, LoseAnswer, TimeOut, TypeOK
  <2>. QED BY <2>1, <2>2, <2>3 DEF Request
<1>2. overlapped => overlapped'
  BY DEF Request, Step, Arrive, ResolveSize, GroupAdmitted, ListPods, Admit, EnsureGang,
     ReadRecord, PatchRecord, Elect, EnsureScout, GangHandler, Answer, LoseAnswer, TimeOut
<1>3. faults' = 0 => faults = 0
  BY <1>0 DEF Request, Step, Arrive, ResolveSize, GroupAdmitted, ListPods, Admit, EnsureGang,
     ReadRecord, PatchRecord, Elect, EnsureScout, GangHandler, Answer, LoseAnswer, TimeOut
<1>4. ASSUME NEW x \in PodGroups, pg[x].exists PROVE pg'[x].exists
  <2>1. ASSUME NEW y, NEW n, NEW ok, pg' = Ensured(y, n, ok) PROVE pg'[x].exists
    BY <1>4, <2>1 DEF Ensured, TypeOK
  <2>2. ASSUME NEW ok \in BOOLEAN, PatchRecord(p, ok) PROVE pg'[x].exists
    BY <1>4, <2>2 DEF PatchRecord, TypeOK, PodGroupType
  <2>. QED BY <1>4, <2>1, <2>2 DEF Request, Step, Arrive, ResolveSize, GroupAdmitted, ListPods,
         Admit, EnsureGang, ReadRecord, Elect, EnsureScout, GangHandler, Answer, LoseAnswer,
         TimeOut
<1>. QED BY <1>1, <1>2, <1>3, <1>4

LEMMA PlainInv ==
  ASSUME TypeOK, RequestInv, ClaimInv, NEW p \in Pods, Request(p), Plain(p)
  PROVE  RequestInv' /\ ClaimInv'
<1>1. req[p].role # "scout" /\ req'[p].role # "scout" /\ pod[p].role = "none"
      /\ req[p].pc # "over" /\ req'[p].pc # "over" /\ pod' = pod
  BY DEF Plain, RequestInv
<1>2. \A q \in Pods : Claims(q)' <=> Claims(q)
  BY <1>1, RequestFrame DEF Claims
<1>3. RequestInv'
  BY <1>1, <1>2, RequestFrame DEF RequestInv
<1>4. \A g \in Groups : Quiet(g)' => Quiet(g)
  BY <1>1, RequestFrame DEF Quiet, TypeOK
<1>5. \A g \in Groups : <<g, "scout">> \in PodGroups
  BY DEF PodGroups
<1>6. ASSUME NEW g \in Groups, Quiet(g)', NEW q \in Pods \ Indexed,
             GroupOf[q] = g, Claims(q)', req'[q].pc # "scoutGroup"
      PROVE  \/ pg'[<<g, "scout">>].exists
             \/ \A r \in Pods : GroupOf[r] = g => req'[r].pc = "over"
  <2>1. q # p
    BY <1>1, <1>2, <1>6 DEF Claims
  <2>2. req'[q] = req[q]
    BY <2>1, <1>6, RequestFrame
  <2>3. \/ pg[<<g, "scout">>].exists
        \/ \A r \in Pods : GroupOf[r] = g => req[r].pc = "over"
    BY <1>2, <1>4, <1>6, <2>2 DEF ClaimInv
  <2>4. (\A r \in Pods : GroupOf[r] = g => req[r].pc = "over") =>
           \A r \in Pods : GroupOf[r] = g => req'[r].pc = "over"
    BY <1>1, RequestFrame
  <2>. QED BY <1>5, <2>3, <2>4, RequestFrame
<1>7. ASSUME NEW g \in Groups, Quiet(g)', NEW q \in Pods \ Indexed, NEW r \in Pods \ Indexed,
             q # r, GroupOf[q] = g, GroupOf[r] = g
      PROVE  ~(Claims(q)' /\ Claims(r)')
  BY <1>2, <1>4, <1>7 DEF ClaimInv
<1>. QED BY <1>3, <1>6, <1>7 DEF ClaimInv

\* An election as the scout: nobody else's claim is standing.
LEMMA ElectInv ==
  ASSUME TypeOK, RequestInv, ClaimInv, NEW p \in Pods, NEW ok \in BOOLEAN, Elect(p, ok)
  PROVE  RequestInv' /\ ClaimInv'
<1>0. Request(p)
  BY DEF Request, Step
<1>1. req[p].pc = "elect" /\ pod' = pod /\ pg' = pg /\ Call(ok)
      /\ req[p].role # "scout" /\ pod[p].role = "none" /\ pod[p].phase = "none"
  BY DEF Elect, RequestInv
<1>2. \/ /\ req'[p].role = "worker" /\ req'[p].pc = "workers"
      \/ /\ req'[p].role = "scout" /\ req'[p].pc = "scoutGroup" /\ IsScout(p, ok)
  BY DEF Elect, TypeOK, RequestType
<1>3. \A q \in Pods : q # p => (Claims(q)' <=> Claims(q))
  BY <1>0, <1>1, RequestFrame DEF Claims
<1>4. RequestInv'
  <2>1. Claims(p)' /\ p \in Indexed => p \in First
    BY <1>1, <1>2 DEF Claims, IsScout
  <2>. QED BY <1>0, <1>1, <1>2, <1>3, <2>1, RequestFrame DEF RequestInv
<1>5. \A g \in Groups : Quiet(g)' => Quiet(g) /\ ok
  BY <1>0, <1>1, RequestFrame, CallType DEF Quiet
<1>6. ASSUME NEW g \in Groups, Quiet(g)', NEW q \in Pods \ Indexed,
             GroupOf[q] = g, Claims(q)', req'[q].pc # "scoutGroup"
      PROVE  \/ pg'[<<g, "scout">>].exists
             \/ \A r \in Pods : GroupOf[r] = g => req'[r].pc = "over"
  <2>1. q # p
    BY <1>1, <1>2, <1>6 DEF Claims
  <2>2. \/ pg[<<g, "scout">>].exists
        \/ \A r \in Pods : GroupOf[r] = g => req[r].pc = "over"
    BY <1>0, <1>3, <1>5, <1>6, <2>1, RequestFrame DEF ClaimInv
  <2>3. GroupOf[p] # g \/ ~ \A r \in Pods : GroupOf[r] = g => req[r].pc = "over"
    BY <1>1
  <2>. QED BY <1>0, <1>1, <2>2, <2>3, RequestFrame
<1>7. ASSUME NEW g \in Groups, Quiet(g)', NEW q \in Pods \ Indexed, q # p, p \notin Indexed,
             GroupOf[q] = g, GroupOf[p] = g, Claims(q)', Claims(p)'
      PROVE  FALSE
  <2>1. IsScout(p, ok) /\ Claims(q)
    BY <1>1, <1>2, <1>3, <1>7 DEF Claims
  <2>2. ~pg[<<g, "scout">>].exists
    BY <1>5, <1>7, <2>1 DEF IsScout
  <2>3. req[q].pc # "scoutGroup"
    BY <1>7 DEF Elect, Quiet
  <2>. QED BY <1>1, <1>5, <1>7, <2>1, <2>2, <2>3 DEF ClaimInv
<1>8. ASSUME NEW g \in Groups, Quiet(g)', NEW q \in Pods \ Indexed, NEW r \in Pods \ Indexed,
             q # r, GroupOf[q] = g, GroupOf[r] = g
      PROVE  ~(Claims(q)' /\ Claims(r)')
  <2>1. CASE q # p /\ r # p
    BY <1>3, <1>5, <1>8, <2>1 DEF ClaimInv
  <2>. QED BY <1>7, <1>8, <2>1
<1>. QED BY <1>4, <1>6, <1>8 DEF ClaimInv

\* The claim becomes a PodGroup.
LEMMA EnsureScoutInv ==
  ASSUME TypeOK, RequestInv, ClaimInv, NEW p \in Pods, NEW ok \in BOOLEAN, EnsureScout(p, ok)
  PROVE  RequestInv' /\ ClaimInv'
<1>0. Request(p)
  BY DEF Request, Step
<1>1. /\ req[p].pc = "scoutGroup" /\ pod' = pod /\ Call(ok)
      /\ req'[p].pc = "answer" /\ req'[p].role = req[p].role
      /\ pg' = Ensured(<<GroupOf[p], "scout">>, 1, ok)
  BY DEF EnsureScout, Goto, TypeOK, RequestType
<1>2. \A q \in Pods : Claims(q)' <=> Claims(q)
  BY <1>0, <1>1, RequestFrame DEF Claims
<1>3. RequestInv'
  BY <1>0, <1>1, <1>2, RequestFrame DEF RequestInv
<1>4. \A g \in Groups : Quiet(g)' => Quiet(g) /\ ok
  BY <1>0, <1>1, RequestFrame, CallType DEF Quiet
<1>5. ASSUME ok, GroupOf[p] \in Groups PROVE pg'[<<GroupOf[p], "scout">>].exists
  BY <1>1, <1>5 DEF Ensured, TypeOK, PodGroups
<1>6. ASSUME NEW g \in Groups, Quiet(g)', NEW q \in Pods \ Indexed,
             GroupOf[q] = g, Claims(q)', req'[q].pc # "scoutGroup"
      PROVE  \/ pg'[<<g, "scout">>].exists
             \/ \A r \in Pods : GroupOf[r] = g => req'[r].pc = "over"
  <2>1. CASE q = p
    BY <1>4, <1>5, <1>6, <2>1
  <2>2. CASE q # p
    <3>1. \/ pg[<<g, "scout">>].exists
          \/ \A r \in Pods : GroupOf[r] = g => req[r].pc = "over"
      BY <1>0, <1>2, <1>4, <1>6, <2>2, RequestFrame DEF ClaimInv
    <3>2. <<g, "scout">> \in PodGroups
      BY DEF PodGroups
    <3>. QED BY <1>0, <1>1, <3>1, <3>2, RequestFrame
  <2>. QED BY <2>1, <2>2
<1>7. ASSUME NEW g \in Groups, Quiet(g)', NEW q \in Pods \ Indexed, NEW r \in Pods \ Indexed,
             q # r, GroupOf[q] = g, GroupOf[r] = g
      PROVE  ~(Claims(q)' /\ Claims(r)')
  BY <1>2, <1>4, <1>7 DEF ClaimInv
<1>. QED BY <1>3, <1>6, <1>7 DEF ClaimInv

\* The claim moves from the request to the pod, or nothing of it is left.
LEMMA AnswerInv ==
  ASSUME TypeOK, RequestInv, ClaimInv, NEW p \in Pods,
         Answer(p) \/ LoseAnswer(p) \/ TimeOut(p)
  PROVE  RequestInv' /\ ClaimInv'
<1>0. Request(p)
  BY DEF Request
<1>1. /\ req[p].pc # "over" /\ pg' = pg
      /\ req'[p].role = "none" /\ req'[p].pc \in {"over", "new"}
      /\ \/ pod'[p].role = "unpatched" /\ req'[p].pc = "over" /\ faults' # 0
         \/ pod'[p].role = req[p].role /\ req'[p].pc = "over" /\ req[p].pc = "answer"
            /\ pod'[p].phase = "stored" /\ overlapped' = overlapped
         \/ pod' = pod /\ req'[p].pc = "new" /\ faults' # 0
  <2>1. ~Call(FALSE) \/ faults' # 0
    BY CallType
  <2>2. \A v \in {IdleReq, Handled} : v.role = "none" /\ v.pc \in {"over", "new"}
        /\ IdleReq.pc = "new" /\ Handled.pc = "over"
    BY DEF IdleReq, Handled
  <2>3. InFlight(p) => req[p].pc # "over"
    BY DEF InFlight, Deciding, Mutating
  <2>4. CASE Answer(p)
    BY <2>2, <2>4 DEF Answer, TypeOK
  <2>5. CASE LoseAnswer(p)
    BY <2>1, <2>2, <2>5 DEF LoseAnswer, TypeOK
  <2>6. CASE TimeOut(p)
    BY <2>1, <2>2, <2>3, <2>6 DEF TimeOut, TypeOK
  <2>. QED BY <2>4, <2>5, <2>6
<1>2. pod[p].role = "none" /\ pod[p].phase = "none"
  BY <1>1 DEF RequestInv
<1>3. \A q \in Pods : q # p => (Claims(q)' <=> Claims(q))
  BY <1>0, RequestFrame DEF Claims
<1>4. Claims(p)' => Claims(p)
  BY <1>1, <1>2 DEF Claims
<1>5. RequestInv'
  BY <1>0, <1>1, <1>2, <1>3, <1>4, RequestFrame DEF RequestInv
<1>6. ASSUME NEW g \in Groups, Quiet(g)' PROVE Quiet(g) /\ (Claims(p)' => req[p].pc = "answer")
  <2>1. \A r \in Pods : GroupOf[r] = g => pod[r].phase \notin Over
    BY <1>0, <1>2, <1>6, RequestFrame DEF Quiet, Over
  <2>. QED BY <1>0, <1>1, <1>6, <2>1, RequestFrame DEF Quiet
<1>7. ASSUME NEW g \in Groups, Quiet(g)', NEW q \in Pods \ Indexed,
             GroupOf[q] = g, Claims(q)', req'[q].pc # "scoutGroup"
      PROVE  \/ pg'[<<g, "scout">>].exists
             \/ \A r \in Pods : GroupOf[r] = g => req'[r].pc = "over"
  <2>1. \/ pg[<<g, "scout">>].exists
        \/ \A r \in Pods : GroupOf[r] = g => req[r].pc = "over"
    BY <1>0, <1>3, <1>4, <1>6, <1>7, RequestFrame DEF ClaimInv
  <2>2. \A r \in Pods : req[r].pc = "over" => req'[r].pc = "over"
    BY <1>0, <1>1, RequestFrame
  <2>. QED BY <1>1, <2>1, <2>2
<1>8. ASSUME NEW g \in Groups, Quiet(g)', NEW q \in Pods \ Indexed, NEW r \in Pods \ Indexed,
             q # r, GroupOf[q] = g, GroupOf[r] = g
      PROVE  ~(Claims(q)' /\ Claims(r)')
  BY <1>3, <1>4, <1>6, <1>8 DEF ClaimInv
<1>. QED BY <1>5, <1>7, <1>8 DEF ClaimInv

\* A claim is reaped with the pods it was made for.
LEMMA ReapInv ==
  ASSUME TypeOK, RequestInv, ClaimInv, NEW x \in PodGroups, Reap(x)
  PROVE  RequestInv' /\ ClaimInv'
<1>1. UNCHANGED <<req, pod, faults>> /\ (overlapped => overlapped')
  BY DEF Reap
<1>2. RequestInv' /\ \A q \in Pods : Claims(q)' <=> Claims(q)
  BY <1>1 DEF RequestInv, Claims
<1>3. \A g \in Groups : Quiet(g)' => Quiet(g)
  BY <1>1 DEF Quiet
<1>4. ASSUME NEW g \in Groups, Quiet(g), pg[<<g, "scout">>].exists, ~pg'[<<g, "scout">>].exists
      PROVE  \A r \in Pods : GroupOf[r] = g => req[r].pc = "over"
  <2>1. <<g, "scout">> \in PodGroups
    BY DEF PodGroups
  <2>2. x[1] = g
    BY <1>4, <2>1 DEF Reap, PodGroups
  <2>3. LinkedTo(x) = {}
    <3>1. ASSUME NEW r \in LinkedTo(x) PROVE FALSE
      <4>1. pod[r].phase = "done" /\ r \in Pods /\ GroupOf[r] = g
        BY <2>2, <3>1 DEF Reap, LinkedTo, Standing
      <4>. QED BY <1>4, <4>1 DEF Quiet, Over
    <3>. QED BY <3>1
  <2>. QED BY <1>4, <2>2, <2>3 DEF Reap, Quiet, Over
<1>. QED BY <1>1, <1>2, <1>3, <1>4 DEF ClaimInv

LEMMA ClusterInv ==
  ASSUME TypeOK, RequestInv, ClaimInv, Cluster
  PROVE  RequestInv' /\ ClaimInv'
<1>1. ASSUME NEW p \in Pods, Bind(p) \/ Finish(p) \/ Delete(p)
      PROVE  RequestInv' /\ ClaimInv'
  <2>1. UNCHANGED <<req, pg, overlapped, faults>> /\ pod[p].phase # "none"
    BY <1>1 DEF Bind, Finish, Delete
  <2>2. /\ \A q \in Pods : pod'[q].role = pod[q].role
        /\ \A q \in Pods : q # p => pod'[q] = pod[q]
        /\ pod[p].phase \in Over => pod'[p].phase \in Over
    BY <1>1 DEF Bind, Finish, Delete, TypeOK, Over
  <2>3. \A q \in Pods : Claims(q)' <=> Claims(q)
    BY <2>1, <2>2 DEF Claims
  <2>4. \A g \in Groups : Quiet(g)' => Quiet(g)
    BY <2>1, <2>2 DEF Quiet
  <2>5. RequestInv'
    BY <2>1, <2>2, <2>3 DEF RequestInv
  <2>6. ClaimInv'
    BY <2>1, <2>3, <2>4 DEF ClaimInv
  <2>. QED BY <2>5, <2>6
<1>2. ASSUME NEW c \in Classical, StartClassical(c) \/ FinishClassical(c)
      PROVE  RequestInv' /\ ClaimInv'
  BY <1>2 DEF StartClassical, FinishClassical, RequestInv, ClaimInv, Claims, Quiet
<1>. QED BY <1>1, <1>2, ReapInv DEF Cluster

LEMMA ClaimNext ==
  TypeOK /\ RequestInv /\ ClaimInv /\ [Next]_vars => RequestInv' /\ ClaimInv'
<1> SUFFICES ASSUME TypeOK, RequestInv, ClaimInv, [Next]_vars PROVE RequestInv' /\ ClaimInv'
  OBVIOUS
<1>1. ASSUME NEW p \in Pods, Request(p) PROVE RequestInv' /\ ClaimInv'
  <2>1. \/ Plain(p) \/ Answer(p) \/ LoseAnswer(p) \/ TimeOut(p)
        \/ \E ok \in BOOLEAN : Elect(p, ok) \/ EnsureScout(p, ok)
    BY <1>1, PlainSteps DEF Request, Step
  <2>. QED BY <1>1, <2>1, PlainInv, ElectInv, EnsureScoutInv, AnswerInv
<1>2. CASE UNCHANGED vars
  BY <1>2 DEF vars, RequestInv, ClaimInv, Claims, Quiet
<1>. QED BY <1>1, <1>2, ClusterInv DEF Next

(* A gang never has two scouts alive: never when it is an indexed Job's, and  *)
(* otherwise as long as its elections do not overlap, no call fails and none  *)
(* of its pods is over, for every number of pods and gangs.                  *)
THEOREM OneScout == Spec => []OneLiveScout
<1>1. RequestInv /\ ClaimInv => OneLiveScout
  <2> SUFFICES ASSUME RequestInv, ClaimInv, NEW p \in Pods, NEW q \in Pods,
                      p # q, GroupOf[p] = GroupOf[q], GroupOf[p] # NoGroup,
                      Claims(p), Claims(q),
                      \/ {p, q} \subseteq Indexed
                      \/ {p, q} \cap Indexed = {} /\ Quiet(GroupOf[p])
               PROVE  FALSE
    BY DEF OneLiveScout, Claims, Quiet
  <2>1. CASE {p, q} \subseteq Indexed
    <3>1. p \in First /\ q \in First
      BY <2>1 DEF RequestInv
    <3>. QED BY <3>1, ConstantsAssumption
  <2>2. CASE {p, q} \cap Indexed = {} /\ Quiet(GroupOf[p])
    <3>1. GroupOf[p] \in Groups
      BY ConstantsAssumption
    <3>. QED BY <2>2, <3>1 DEF ClaimInv
  <2>. QED BY <2>1, <2>2
<1>. QED BY <1>1, TypeCorrect, ClaimInit, ClaimNext, PTL DEF Spec

-----------------------------------------------------------------------------
(* The size of a gang.                                                      *)

Gang(g)    == {p \in Pods : GroupOf[p] = g}
Workers(g) == Gang(g) \cap Quantum \cap Shared

\* A gang that coordinates a quantum job is of such pods only, and the size its
\* annotation or its owner gives is no more than they are.
TrueSizes ==
  \A g \in Groups : Workers(g) # {} =>
    /\ Gang(g) = Workers(g)
    /\ \A p \in Workers(g) : SizeFrom[p] # "count" => Size[p] <= Cardinality(Workers(g))

Calm(g) ==
  /\ faults = 0 /\ Workers(g) # {}
  /\ \A p \in Gang(g) : pod[p].phase \notin Over

\* The gang's PodGroup has its size from the first of its pods, exists before
\* the gang handler is asked for a size of its own, and no request ever has a
\* larger one in hand.
Fits(g, n)   == n <= Max({1, Cardinality(Workers(g)) - 1})
GangEnsured(p) == req[p].pc \in {"read", "patch", "elect", "scoutGroup", "workers", "gang"}
SizeInv ==
  \A g \in Groups : Calm(g) =>
    /\ pg[<<g, "gang">>].exists => Fits(g, pg[<<g, "gang">>].minCount)
    /\ \A p \in Gang(g) : /\ req[p].n <= Cardinality(Workers(g))
                          /\ GangEnsured(p) => pg[<<g, "gang">>].exists

LEMMA WorkerCount ==
  ASSUME NEW g
  PROVE  /\ IsFiniteSet(Gang(g)) /\ IsFiniteSet(Workers(g)) /\ Cardinality(Workers(g)) \in Nat
         /\ Workers(g) # {} => Cardinality(Workers(g)) >= 1
<1>1. IsFiniteSet(Gang(g))
  BY FS_Subset, ConstantsAssumption DEF Gang
<1>2. IsFiniteSet(Workers(g))
  BY <1>1, FS_Subset DEF Workers
<1>. QED
  BY <1>1, <1>2, FS_CardinalityType, FS_EmptySet

LEMMA ListedAreMembers ==
  ASSUME NEW g
  PROVE  LabelCount(g) <= Cardinality(Gang(g))
<1> DEFINE S == {p \in Standing : /\ GroupOf[p] = g
                                  /\ \/ pod[p].role = "worker"
                                     \/ p \in Labelled /\ pod[p].role # "scout"}
<1>1. S \subseteq Gang(g)
  BY DEF Standing, Gang
<1>2. Cardinality(S) <= Cardinality(Gang(g))
  BY <1>1, WorkerCount, FS_Subset
<1>. QED
  BY <1>2 DEF LabelCount

\* No size is resolved that is larger than the gang.
LEMMA ResolvedFits ==
  ASSUME TrueSizes, NEW g \in Groups, NEW p \in Gang(g), Workers(g) # {}, NEW ok \in BOOLEAN
  PROVE  ResolvedSize(p, ok) <= Cardinality(Workers(g))
<1>1. p \in Workers(g) /\ Gang(g) = Workers(g) /\ GroupOf[p] = g /\ p \in Pods
  BY DEF TrueSizes, Gang
<1>2. Size[p] \in Nat /\ SizeFrom[p] \in {"annotation", "owner", "count"} /\ LabelCount(g) \in Nat
  BY <1>1, LabelCountType, ConstantsAssumption
<1>3. /\ Cardinality(Workers(g)) \in Nat /\ Cardinality(Workers(g)) >= 1
      /\ LabelCount(g) <= Cardinality(Workers(g))
  BY <1>1, WorkerCount, ListedAreMembers
<1>4. Max({1, LabelCount(g)}) <= Cardinality(Workers(g))
  <2>1. \A a, b, c \in Int : a <= c /\ b <= c => Max({a, b}) <= c
    BY MaxBelow
  <2>. QED BY <1>2, <1>3, <2>1
<1>5. SizeFrom[p] # "count" => Size[p] <= Cardinality(Workers(g))
  BY <1>1 DEF TrueSizes
<1>. QED
  BY <1>1, <1>2, <1>3, <1>4, <1>5 DEF ResolvedSize

LEMMA SizeInit == Init => SizeInv
<1> SUFFICES ASSUME Init PROVE SizeInv
  OBVIOUS
<1>1. ASSUME NEW g \in Groups PROVE ~pg[<<g, "gang">>].exists
  BY DEF Init, PodGroups
<1>2. ASSUME NEW p \in Pods PROVE req[p].n = 1 /\ req[p].pc = "new"
  BY DEF Init, IdleReq
<1>. QED
  BY <1>1, <1>2, WorkerCount DEF SizeInv, Calm, Gang, GangEnsured

\* What a request does to its gang's PodGroup, and where it goes from there.
SizeMoves(p, g) ==
  /\ req'[p].n <= Cardinality(Workers(g))
  /\ \/ /\ pg'[<<g, "gang">>].exists = pg[<<g, "gang">>].exists
        /\ pg'[<<g, "gang">>].minCount = pg[<<g, "gang">>].minCount
        /\ GangEnsured(p)' => GangEnsured(p)
     \/ /\ pg'[<<g, "gang">>].exists
        /\ Fits(g, pg'[<<g, "gang">>].minCount)

LEMMA SizeStep ==
  ASSUME TypeOK, RequestInv, SizeInv, TrueSizes, NEW g \in Groups, NEW p \in Gang(g), Calm(g),
         faults' = 0, Request(p)
  PROVE  SizeMoves(p, g)
<1> DEFINE x == <<g, "gang">>
<1>0. /\ p \in Pods /\ GroupOf[p] = g /\ p \in Quantum /\ p \in Shared /\ x \in PodGroups
      /\ req[p] \in RequestType /\ pg \in [PodGroups -> PodGroupType]
      /\ Cardinality(Workers(g)) \in Nat /\ Cardinality(Workers(g)) >= 1
  BY WorkerCount DEF Calm, TrueSizes, Gang, Workers, PodGroups, TypeOK
<1>1. /\ req[p].n <= Cardinality(Workers(g)) /\ req[p].n \in Nat \ {0}
      /\ GangEnsured(p) => pg[x].exists
      /\ pg[x].exists => Fits(g, pg[x].minCount)
  BY <1>0 DEF SizeInv, RequestType
<1>2. \A ok \in BOOLEAN : Call(ok) => ok
  BY CallType
<1>3. CASE Arrive(p)
  <2>1. req'[p].n = 1 /\ req'[p].pc \in {"refused", "size"} /\ pg' = pg
    BY <1>0, <1>3 DEF Arrive, IdleReq, TypeOK
  <2>. QED BY <1>0, <2>1 DEF SizeMoves, GangEnsured
<1>4. ASSUME NEW ok \in BOOLEAN, ResolveSize(p, ok) PROVE SizeMoves(p, g)
  <2>1. PICK role, pc :
          /\ req' = [req EXCEPT ![p].n = ResolvedSize(p, ok), ![p].role = role, ![p].pc = pc]
          /\ pc \in {"admitted", "pods", "ensure", "answer"}
    BY <1>4 DEF ResolveSize
  <2>2. req'[p].n = ResolvedSize(p, ok) /\ req'[p].pc = pc
    BY <1>0, <2>1 DEF TypeOK, RequestType
  <2>3. ResolvedSize(p, ok) <= Cardinality(Workers(g))
    BY ResolvedFits DEF Calm
  <2>. QED BY <1>4, <2>1, <2>2, <2>3 DEF ResolveSize, SizeMoves, GangEnsured
<1>5. ASSUME NEW ok \in BOOLEAN, GroupAdmitted(p, ok) \/ ReadRecord(p, ok)
      PROVE  SizeMoves(p, g)
  <2>1. PICK pc \in {"resize", "pods", "patch", "elect"} : Goto(p, pc)
    BY <1>5 DEF GroupAdmitted, ReadRecord
  <2>2. req'[p].n = req[p].n /\ req'[p].pc = pc
    BY <1>0, <2>1 DEF Goto, TypeOK, RequestType
  <2>3. pg' = pg
    BY <1>5 DEF GroupAdmitted, ReadRecord
  <2>4. GangEnsured(p)' => GangEnsured(p)
    BY <1>0, <1>5, <2>2 DEF GroupAdmitted, ReadRecord, GangEnsured, Goto, TypeOK, RequestType
  <2>. QED BY <1>1, <2>2, <2>3, <2>4 DEF SizeMoves
<1>6. ASSUME NEW ok \in BOOLEAN, ListPods(p, ok) \/ Admit(p, ok)
      PROVE  SizeMoves(p, g)
  <2>1. PICK pc \in {"groups", "resize", "refused"},
            seen \in {Reading, [NoReading EXCEPT !.taken = TRUE]} :
          \/ req' = [req EXCEPT ![p].pc = pc, ![p].seen = seen]
          \/ req' = [req EXCEPT ![p].seen = seen, ![p].pc = pc]
          \/ req' = [req EXCEPT ![p].pc = pc]
    BY <1>6 DEF ListPods, Admit
  <2>2. req'[p].pc = pc /\ req'[p].n = req[p].n
    BY <1>0, <2>1 DEF TypeOK, RequestType
  <2>. QED BY <1>1, <1>6, <2>2 DEF ListPods, Admit, SizeMoves, GangEnsured
<1>7. ASSUME NEW ok \in BOOLEAN, EnsureGang(p, ok) PROVE SizeMoves(p, g)
  <2>1. pg' = Ensured(x, req[p].n - 1, TRUE)
    BY <1>0, <1>2, <1>7 DEF EnsureGang
  <2>2. pg'[x].exists /\ Fits(g, pg'[x].minCount)
    <3>1. CASE pg[x].exists
      BY <1>1, <2>1, <3>1 DEF Ensured
    <3>2. CASE ~pg[x].exists
      <4>1. pg'[x] = [exists |-> TRUE, minCount |-> Max({req[p].n - 1, 1}), cores |-> 0]
        BY <1>0, <2>1, <3>2 DEF Ensured
      <4>2. Max({req[p].n - 1, 1}) <= Max({1, Cardinality(Workers(g)) - 1})
        <5>1. ASSUME NEW a \in Int, NEW b \in Int, a <= b
              PROVE  Max({a, 1}) <= Max({1, b})
          <6>1. Max({1, b}) \in {1, b} /\ Max({1, b}) >= 1 /\ Max({1, b}) >= b
            BY MaxOfTwo
          <6>2. Max({a, 1}) \in {a, 1}
            BY MaxOfTwo
          <6>. QED BY <5>1, <6>1, <6>2
        <5>2. req[p].n - 1 \in Int /\ Cardinality(Workers(g)) - 1 \in Int
              /\ req[p].n - 1 <= Cardinality(Workers(g)) - 1
          BY <1>0, <1>1
        <5>. QED BY <5>1, <5>2
      <4>. QED BY <4>1, <4>2 DEF Fits
    <3>. QED BY <3>1, <3>2
  <2>3. req'[p].n = req[p].n
    BY <1>0, <1>7 DEF EnsureGang, Goto, TypeOK, RequestType
  <2>. QED BY <1>1, <2>2, <2>3 DEF SizeMoves
<1>8. ASSUME NEW ok \in BOOLEAN, PatchRecord(p, ok) PROVE SizeMoves(p, g)
  <2>1. req'[p].n = req[p].n /\ GangEnsured(p)
    BY <1>0, <1>8 DEF PatchRecord, Goto, TypeOK, RequestType, GangEnsured
  <2>2. pg'[x].exists = pg[x].exists /\ pg'[x].minCount = pg[x].minCount
    BY <1>0, <1>8 DEF PatchRecord, PodGroupType
  <2>. QED BY <1>1, <2>1, <2>2 DEF SizeMoves
<1>9. ASSUME NEW ok \in BOOLEAN, Elect(p, ok) PROVE SizeMoves(p, g)
  <2>1. req'[p].n = req[p].n /\ GangEnsured(p) /\ pg' = pg
    BY <1>0, <1>9 DEF Elect, TypeOK, RequestType, GangEnsured
  <2>. QED BY <1>1, <2>1 DEF SizeMoves
<1>10. ASSUME NEW ok \in BOOLEAN, EnsureScout(p, ok) PROVE SizeMoves(p, g)
  <2>1. req'[p].n = req[p].n /\ GangEnsured(p)
    BY <1>0, <1>10 DEF EnsureScout, Goto, TypeOK, RequestType, GangEnsured
  <2>2. pg'[x] = pg[x]
    BY <1>0, <1>10 DEF EnsureScout, Ensured
  <2>. QED BY <1>1, <2>1, <2>2 DEF SizeMoves
<1>11. ASSUME NEW sized \in BOOLEAN, NEW ok \in BOOLEAN, GangHandler(p, sized, ok)
       PROVE  SizeMoves(p, g)
  <2>1. req'[p].n = req[p].n /\ GangEnsured(p)
    BY <1>0, <1>11 DEF GangHandler, Goto, TypeOK, RequestType, GangEnsured
  <2>2. pg' = pg
    BY <1>0, <1>1, <1>11, <2>1 DEF GangHandler, Ensured
  <2>. QED BY <1>1, <2>1, <2>2 DEF SizeMoves
<1>12. CASE Answer(p) \/ LoseAnswer(p) \/ TimeOut(p)
  <2>1. req'[p] \in {IdleReq, Handled} /\ pg' = pg
    BY <1>0, <1>12 DEF Answer, LoseAnswer, TimeOut, TypeOK
  <2>2. req'[p].n = 1 /\ req'[p].pc \in {"new", "over"}
    BY <2>1 DEF IdleReq, Handled
  <2>. QED BY <1>0, <2>1, <2>2 DEF SizeMoves, GangEnsured
<1>. QED
  BY <1>3, <1>4, <1>5, <1>6, <1>7, <1>8, <1>9, <1>10, <1>11, <1>12 DEF Request, Step
\* A request is of a pod that is not stored yet, and makes PodGroups of its own
\* gang only.
LEMMA RequestScope ==
  ASSUME TypeOK, RequestInv, NEW p \in Pods, Request(p)
  PROVE  /\ pod[p].phase = "none"
         /\ \A g \in Groups : g # GroupOf[p] => pg'[<<g, "gang">>] = pg[<<g, "gang">>]
<1>1. req[p].pc # "over"
  BY DEF Request, Step, Arrive, ResolveSize, GroupAdmitted, ListPods, Admit, EnsureGang,
     ReadRecord, PatchRecord, Elect, EnsureScout, GangHandler, Answer, LoseAnswer, TimeOut,
     InFlight, Deciding, Mutating
<1>2. ASSUME NEW g \in Groups, g # GroupOf[p] PROVE pg'[<<g, "gang">>] = pg[<<g, "gang">>]
  <2> DEFINE x == <<g, "gang">>
  <2>0. x \in PodGroups /\ pg \in [PodGroups -> PodGroupType]
    BY DEF PodGroups, TypeOK
  <2>1. ASSUME NEW kind, NEW n, NEW ok, pg' = Ensured(<<GroupOf[p], kind>>, n, ok)
        PROVE  pg'[x] = pg[x]
    <3>1. x # <<GroupOf[p], kind>>
      BY <1>2
    <3>. QED BY <2>0, <2>1, <3>1 DEF Ensured
  <2>2. ASSUME NEW ok \in BOOLEAN, PatchRecord(p, ok) PROVE pg'[x] = pg[x]
    <3>1. x # <<GroupOf[p], "gang">>
      BY <1>2
    <3>. QED BY <2>0, <2>2, <3>1 DEF PatchRecord
  <2>3. ASSUME NEW ok \in BOOLEAN, EnsureGang(p, ok) \/ EnsureScout(p, ok) PROVE pg'[x] = pg[x]
    BY <2>1, <2>3 DEF EnsureGang, EnsureScout
  <2>4. ASSUME NEW sized \in BOOLEAN, NEW ok \in BOOLEAN, GangHandler(p, sized, ok)
        PROVE  pg'[x] = pg[x]
    BY <2>1, <2>4 DEF GangHandler
  <2>. QED BY <2>2, <2>3, <2>4 DEF Request, Step, Arrive, ResolveSize, GroupAdmitted, ListPods,
         Admit, ReadRecord, Elect, Answer, LoseAnswer, TimeOut
<1>. QED BY <1>1, <1>2 DEF RequestInv

LEMMA RequestSize ==
  ASSUME TypeOK, RequestInv, SizeInv, TrueSizes, NEW p \in Pods, Request(p)
  PROVE  SizeInv'
<1> SUFFICES ASSUME NEW g \in Groups, Calm(g)'
             PROVE  /\ pg'[<<g, "gang">>].exists => Fits(g, pg'[<<g, "gang">>].minCount)
                    /\ \A q \in Gang(g) : /\ req'[q].n <= Cardinality(Workers(g))
                                          /\ GangEnsured(q)' => pg'[<<g, "gang">>].exists
  BY DEF SizeInv, Fits, Gang, Workers
<1>1. /\ \A q \in Pods : q # p => req'[q] = req[q] /\ pod'[q] = pod[q]
      /\ faults' = 0 => faults = 0
      /\ pg[<<g, "gang">>].exists => pg'[<<g, "gang">>].exists
  <2>1. <<g, "gang">> \in PodGroups
    BY DEF PodGroups
  <2>. QED BY <2>1, RequestFrame
<1>2. Calm(g)
  <2>1. \A q \in Gang(g) : q \in Pods /\ pod[q].phase \notin Over
    BY <1>1, RequestScope DEF Calm, Gang, Over
  <2>. QED BY <1>1, <2>1 DEF Calm, Workers, Gang
<1>3. /\ pg[<<g, "gang">>].exists => Fits(g, pg[<<g, "gang">>].minCount)
      /\ \A q \in Gang(g) : /\ req[q].n <= Cardinality(Workers(g))
                            /\ GangEnsured(q) => pg[<<g, "gang">>].exists
  BY <1>2 DEF SizeInv
<1>4. CASE p \notin Gang(g)
  <2>1. pg'[<<g, "gang">>] = pg[<<g, "gang">>]
    BY <1>4, RequestScope DEF Gang
  <2>2. \A q \in Gang(g) : req'[q] = req[q]
    BY <1>1, <1>4 DEF Gang
  <2>. QED BY <1>3, <2>1, <2>2 DEF GangEnsured
<1>5. CASE p \in Gang(g)
  <2>1. SizeMoves(p, g)
    BY <1>2, <1>5, SizeStep DEF Calm
  <2>2. \A q \in Gang(g) : q # p => req'[q] = req[q]
    BY <1>1 DEF Gang
  <2>. QED BY <1>1, <1>3, <1>5, <2>1, <2>2 DEF SizeMoves, GangEnsured
<1>. QED BY <1>4, <1>5

\* A gang's PodGroup goes only when none of its pods is being created.
LEMMA ReapSize ==
  ASSUME TypeOK, SizeInv, NEW x \in PodGroups, Reap(x)
  PROVE  SizeInv'
<1> SUFFICES ASSUME NEW g \in Groups, Calm(g)'
             PROVE  /\ pg'[<<g, "gang">>].exists => Fits(g, pg'[<<g, "gang">>].minCount)
                    /\ \A q \in Gang(g) : /\ req'[q].n <= Cardinality(Workers(g))
                                          /\ GangEnsured(q)' => pg'[<<g, "gang">>].exists
  BY DEF SizeInv, Fits, Gang, Workers
<1>1. req' = req /\ pod' = pod /\ faults' = faults /\ <<g, "gang">> \in PodGroups
  BY DEF Reap, PodGroups
<1>2. Calm(g)
  BY <1>1 DEF Calm, Workers, Gang
<1>3. /\ pg[<<g, "gang">>].exists => Fits(g, pg[<<g, "gang">>].minCount)
      /\ \A q \in Gang(g) : /\ req[q].n <= Cardinality(Workers(g))
                            /\ GangEnsured(q) => pg[<<g, "gang">>].exists
  BY <1>2 DEF SizeInv
<1>4. CASE x # <<g, "gang">>
  <2>1. pg'[<<g, "gang">>] = pg[<<g, "gang">>]
    BY <1>1, <1>4 DEF Reap
  <2>. QED BY <1>1, <1>3, <2>1 DEF GangEnsured
<1>5. CASE x = <<g, "gang">>
  <2>1. LinkedTo(x) = {}
    <3>1. ASSUME NEW q \in LinkedTo(x) PROVE FALSE
      <4>1. pod[q].phase = "done" /\ q \in Gang(g)
        BY <1>5, <3>1 DEF Reap, LinkedTo, Standing, Gang
      <4>. QED BY <1>2, <4>1 DEF Calm, Over
    <3>. QED BY <3>1
  <2>2. \A q \in Gang(g) : req[q].pc = "over"
    BY <1>2, <1>5, <2>1 DEF Reap, Calm, Gang, Over
  <2>3. ~pg'[<<g, "gang">>].exists
    BY <1>1, <1>5 DEF Reap
  <2>. QED BY <1>1, <1>3, <2>2, <2>3 DEF GangEnsured
<1>. QED BY <1>4, <1>5

LEMMA SizeNext ==
  ASSUME TrueSizes
  PROVE  TypeOK /\ RequestInv /\ SizeInv /\ [Next]_vars => SizeInv'
<1> SUFFICES ASSUME TypeOK, RequestInv, SizeInv, [Next]_vars PROVE SizeInv'
  OBVIOUS
<1>1. ASSUME UNCHANGED <<req, pg, faults>>,
             \A q \in Pods : pod[q].phase \in Over => pod'[q].phase \in Over
      PROVE  SizeInv'
  <2>1. \A g \in Groups : Calm(g)' => Calm(g)
    BY <1>1 DEF Calm, Gang, Workers
  <2>. QED BY <1>1, <2>1 DEF SizeInv, GangEnsured, Gang, Workers, Fits
<1>2. ASSUME NEW p \in Pods, Bind(p) \/ Finish(p) \/ Delete(p) PROVE SizeInv'
  <2>1. UNCHANGED <<req, pg, faults>>
    BY <1>2 DEF Bind, Finish, Delete
  <2>2. \A q \in Pods : pod[q].phase \in Over => pod'[q].phase \in Over
    BY <1>2 DEF Bind, Finish, Delete, TypeOK, Over
  <2>. QED BY <1>1, <2>1, <2>2
<1>3. ASSUME NEW c \in Classical, StartClassical(c) \/ FinishClassical(c) PROVE SizeInv'
  BY <1>1, <1>3 DEF StartClassical, FinishClassical
<1>4. CASE UNCHANGED vars
  BY <1>1, <1>4 DEF vars
<1>. QED BY <1>2, <1>3, <1>4, ReapSize, RequestSize DEF Next, Cluster

(* A gang's PodGroup never waits for more pods than the gang has workers, for *)
(* every number of gangs and pods, as long as no call failed and none of the  *)
(* gang's pods is over: whichever pod's request comes first, and however the  *)
(* requests and the reconciler interleave, provided that the pods of a gang   *)
(* that coordinates are all quantum pods that share, and that no annotation   *)
(* or owner gives a size above their number.                                  *)
THEOREM GangsSized ==
  ASSUME TrueSizes
  PROVE  Spec => []GangSized
<1>1. SizeInv => GangSized
  BY DEF SizeInv, Calm, Fits, Gang, Workers, GangSized
<1>2. Init => SizeInv
  BY SizeInit
<1>3. TypeOK /\ RequestInv /\ SizeInv /\ [Next]_vars => SizeInv'
  BY SizeNext
<1>4. Spec => [](TypeOK /\ RequestInv /\ ClaimInv)
  BY TypeInit, TypeNext, ClaimInit, ClaimNext, PTL DEF Spec
<1>. QED BY <1>1, <1>2, <1>3, <1>4, PTL DEF Spec

-----------------------------------------------------------------------------
(* What a pod counts.                                                       *)

LEMMA CountsType ==
  ASSUME TypeOK
  PROVE  /\ \A p \in Pods : Counted(p) \in Nat /\ Cores[p] \in Nat /\ Cores[p] <= Counted(p)
         /\ \A S \in SUBSET Pods : IsFiniteSet(S) /\ CountedSum(S) \in Nat
<1>1. \A p \in Pods : Counted(p) \in Nat /\ Cores[p] \in Nat /\ Cores[p] <= Counted(p)
  BY ConstantsAssumption DEF Counted, SidecarCores
<1>2. ASSUME NEW S \in SUBSET Pods PROVE IsFiniteSet(S) /\ CountedSum(S) \in Nat
  <2>1. IsFiniteSet(S)
    BY FS_Subset, ConstantsAssumption
  <2> DEFINE f == [p \in Pods |-> Counted(p)]
  <2>2. \A x \in S : f[x] \in Nat
    BY <1>1
  <2>. HIDE DEF f
  <2>3. SumFunctionOnSet(f, S) \in Nat
    BY <2>1, <2>2, SumRemove
  <2>. QED BY <2>1, <2>3 DEF CountedSum, f
<1>. QED BY <1>1, <1>2

LEMMA CountedParts ==
  ASSUME TypeOK, NEW S \in SUBSET Pods, NEW T \in SUBSET Pods
  PROVE  /\ S \cap T = {} => CountedSum(S \cup T) = CountedSum(S) + CountedSum(T)
         /\ T \subseteq S => CountedSum(T) <= CountedSum(S)
         /\ \A p \in S : CountedSum(S) = Counted(p) + CountedSum(S \ {p})
<1> DEFINE f == [p \in Pods |-> Counted(p)]
<1>1. IsFiniteSet(S) /\ IsFiniteSet(T) /\ (\A x \in S \cup T : f[x] \in Nat)
      /\ (\A p \in Pods : f[p] = Counted(p))
  BY CountsType
<1>. HIDE DEF f
<1>2. S \cap T = {} => SumFunctionOnSet(f, S \cup T) = SumFunctionOnSet(f, S) + SumFunctionOnSet(f, T)
  BY <1>1, SumUnion
<1>3. T \subseteq S => SumFunctionOnSet(f, T) <= SumFunctionOnSet(f, S)
  BY <1>1, SumSubset
<1>4. \A p \in S : SumFunctionOnSet(f, S) = f[p] + SumFunctionOnSet(f, S \ {p})
  BY <1>1, SumRemove
<1>. QED BY <1>1, <1>2, <1>3, <1>4 DEF CountedSum, f

\* The sum over the same pods changes only with their roles.
LEMMA CountedSame ==
  ASSUME TypeOK, TypeOK', NEW S \in SUBSET Pods, \A q \in S : pod'[q].role = pod[q].role
  PROVE  CountedSum(S)' = CountedSum(S)
<1> DEFINE f == [p \in Pods |-> Counted(p)]
           h == [p \in Pods |-> Counted(p)']
<1>1. IsFiniteSet(S) /\ \A x \in S : h[x] \in Nat /\ h[x] = f[x]
  <2>1. \A x \in S : Counted(x)' = Counted(x)
    BY DEF Counted
  <2>. QED BY <2>1, CountsType
<1>. HIDE DEF f, h
<1>2. SumFunctionOnSet(h, S) = SumFunctionOnSet(f, S)
  BY <1>1, SumSame
<1>. QED BY <1>2 DEF CountedSum, f, h

LEMMA NoMore ==
  \A a, b, c, d, e \in Nat : a <= b /\ c <= d /\ b + d <= e => a + c <= e
OBVIOUS

LEMMA PositiveOf ==
  ASSUME NEW i \in Int
  PROVE  Positive(i) \in Nat /\ Positive(i) >= i /\ (i >= 0 => Positive(i) = i)
<1>1. Max({0, i}) \in {0, i} /\ Max({0, i}) >= 0 /\ Max({0, i}) >= i
  BY MaxOfTwo
<1>. QED BY <1>1 DEF Positive

LEMMA CardinalitySplit ==
  ASSUME NEW S, IsFiniteSet(S), NEW T
  PROVE  /\ Cardinality(S) = Cardinality(S \cap T) + Cardinality(S \ T)
         /\ Cardinality(S \cap T) \in Nat /\ Cardinality(S \ T) \in Nat
<1> DEFINE A == S \cap T
           B == S \ T
<1>1. IsFiniteSet(A) /\ IsFiniteSet(B)
  BY FS_Subset
<1>2. S = A \cup B /\ A \cap B = {}
  OBVIOUS
<1>. HIDE DEF A, B
<1>3. Cardinality(A) \in Nat /\ Cardinality(B) \in Nat
  BY <1>1, FS_CardinalityType
<1>4. Cardinality(A \cup B) = Cardinality(A) + Cardinality(B) - Cardinality(A \cap B)
  BY <1>1, FS_Union
<1>5. Cardinality(A \cap B) = 0
  BY <1>2, FS_EmptySet
<1>6. Cardinality(S) = Cardinality(A) + Cardinality(B)
  <2>1. Cardinality(S) = Cardinality(A \cup B)
    BY <1>2
  <2>. QED BY <1>3, <1>4, <1>5, <2>1
<1>. QED BY <1>3, <1>6 DEF A, B

-----------------------------------------------------------------------------
(* Judging a reading.                                                       *)

Recorded(g) == pg[<<g, "gang">>].cores
Alone       == {p \in Standing : pod[p].role = "alone"}
Guarded(seen) == {p \in seen.bound : Protected(p)}
HighRunning == Cardinality(running \cap High)

\* The records of gangs are covered by what is promised to them and by what
\* their members hold.
LEMMA GangsCovered ==
  ASSUME TypeOK, NEW seen \in ReadingType
  PROVE  LET G    == {g \in Groups : pg[<<g, "gang">>].cores > 0}
             team == {p \in seen.bound : pod[p].role \in {"scout", "worker"}}
             left == SumFunctionOnSet([g \in Groups |-> GangLeft(g, seen)], G)
         IN  /\ left \in Nat
             /\ SumFunctionOnSet([g \in Groups |-> pg[<<g, "gang">>].cores], Groups)
                  <= left + CountedSum(team)
<1> DEFINE G     == {g \in Groups : pg[<<g, "gang">>].cores > 0}
           team  == {p \in seen.bound : pod[p].role \in {"scout", "worker"}}
           rec   == [g \in Groups |-> pg[<<g, "gang">>].cores]
           left  == [g \in Groups |-> GangLeft(g, seen)]
           part  == [g \in Groups |-> seen.bound \cap MembersOf(g)]
           held  == [g \in Groups |-> CountedSum(part[g])]
           both  == [g \in Groups |-> left[g] + held[g]]
           f     == [p \in Pods |-> Counted(p)]
           U     == UNION {part[g] : g \in G}
<1>1. /\ IsFiniteSet(Groups) /\ IsFiniteSet(G) /\ IsFiniteSet(Groups \ G)
      /\ G \cap (Groups \ G) = {} /\ Groups = G \cup (Groups \ G)
  BY FS_Subset, ConstantsAssumption
<1>2. /\ team \in SUBSET Pods /\ \A g \in Groups : part[g] \in SUBSET Pods /\ part[g] \subseteq team
      /\ \A g, h \in Groups : g # h => part[g] \cap part[h] = {}
      /\ U \in SUBSET Pods /\ U \subseteq team
  BY DEF ReadingType, MembersOf
<1>3. \A g \in Groups : rec[g] \in Nat /\ left[g] \in Nat /\ held[g] \in Nat
                        /\ rec[g] <= both[g]
  <2> SUFFICES ASSUME NEW g \in Groups
               PROVE  rec[g] \in Nat /\ left[g] \in Nat /\ held[g] \in Nat
                      /\ rec[g] <= left[g] + held[g]
    OBVIOUS
  <2>1. rec[g] \in Nat
    <3>1. <<g, "gang">> \in PodGroups
      BY DEF PodGroups
    <3>. QED BY <3>1 DEF TypeOK, PodGroupType
  <2>2. held[g] \in Nat
    BY <1>2, CountsType
  <2>3. left[g] = Positive(rec[g] - held[g])
    BY DEF GangLeft
  <2>. HIDE DEF rec, held, left
  <2>. QED BY <2>1, <2>2, <2>3, PositiveOf
<1>4. \A g \in Groups \ G : rec[g] = 0
  <2>1. ASSUME NEW g \in Groups \ G PROVE rec[g] = 0
    <3>1. rec[g] \in Nat /\ ~(rec[g] > 0)
      BY <1>3
    <3>. HIDE DEF rec
    <3>. QED BY <3>1
  <2>. QED BY <2>1
<1>5. held = [g \in Groups |-> SumFunctionOnSet(f, part[g])] /\ CountedSum(U) = SumFunctionOnSet(f, U)
  BY DEF CountedSum
<1>6. \A x \in team : f[x] \in Nat
  BY <1>2, CountsType
<1>7. IsFiniteSet(team) /\ CountedSum(U) <= CountedSum(team) /\ CountedSum(U) \in Nat
      /\ CountedSum(team) \in Nat
  BY <1>2, CountsType, CountedParts
<1>. HIDE DEF rec, left, held, f, G, team
<1>8. SumFunctionOnSet(rec, Groups) = SumFunctionOnSet(rec, G) + 0
  <2>1. SumFunctionOnSet(rec, Groups \ G) = 0
    BY <1>1, <1>4, SumZero
  <2>2. \A x \in G \cup (Groups \ G) : rec[x] \in Nat
    BY <1>3 DEF G
  <2>3. SumFunctionOnSet(rec, G \cup (Groups \ G)) =
          SumFunctionOnSet(rec, G) + SumFunctionOnSet(rec, Groups \ G)
    BY <1>1, <2>2, SumUnion
  <2>. QED BY <1>1, <2>1, <2>3
<1>9. SumFunctionOnSet(rec, G) <= SumFunctionOnSet(both, G)
  <2>1. \A x \in G : rec[x] \in Nat /\ both[x] \in Nat /\ rec[x] <= both[x]
    BY <1>3 DEF G
  <2>. HIDE DEF both
  <2>. QED BY <1>1, <2>1, SumBelow
<1>10. SumFunctionOnSet(both, G) = SumFunctionOnSet(left, G) + SumFunctionOnSet(held, G)
  <2>1. \A x \in G : left[x] \in Nat /\ held[x] \in Nat /\ both[x] = left[x] + held[x]
    BY <1>3 DEF G
  <2>. HIDE DEF both
  <2>. QED BY <1>1, <2>1, SumPlus
<1>11. SumFunctionOnSet(held, G) = SumFunctionOnSet(f, U)
  <2>1. /\ \A g \in G : part[g] \subseteq team
        /\ \A g, h \in G : g # h => part[g] \cap part[h] = {}
        /\ \A g \in G : held[g] = SumFunctionOnSet(f, part[g])
    BY <1>2, <1>5 DEF G
  <2>. HIDE DEF part
  <2>. QED BY <1>1, <1>6, <1>7, <2>1, SumOfParts
<1>12. SumFunctionOnSet(left, G) \in Nat /\ SumFunctionOnSet(rec, G) \in Nat
       /\ SumFunctionOnSet(both, G) \in Nat
  <2>1. \A x \in G : left[x] \in Nat /\ rec[x] \in Nat /\ both[x] \in Nat
    BY <1>3 DEF G
  <2>. HIDE DEF both
  <2>. QED BY <1>1, <2>1, SumRemove
<1>13. SumFunctionOnSet(rec, Groups) <= SumFunctionOnSet(left, G) + CountedSum(team)
  <2>. HIDE DEF U, both
  <2>. QED BY <1>5, <1>7, <1>8, <1>9, <1>10, <1>11, <1>12
<1>. QED BY <1>12, <1>13 DEF rec, left, G, team

\* So are the pods that stand alone.
LEMMA AloneCovered ==
  ASSUME TypeOK, NEW seen \in ReadingType, Alone \subseteq seen.stored
  PROVE  LET left == SumFunctionOnSet([p \in Pods |-> AloneLeft(p, seen)], seen.stored)
         IN  /\ left \in Nat
             /\ SumFunctionOnSet(Cores, Alone) <= left + CountedSum(Alone \cap seen.bound)
<1> DEFINE left == [p \in Pods |-> AloneLeft(p, seen)]
           f    == [p \in Pods |-> Counted(p)]
           c    == [p \in Pods |-> IF p \in seen.bound THEN Counted(p) ELSE 0]
           both == [p \in Pods |-> left[p] + c[p]]
           A    == Alone
           B    == seen.bound
<1>1. /\ IsFiniteSet(A) /\ IsFiniteSet(seen.stored) /\ IsFiniteSet(A \cap B) /\ IsFiniteSet(A \ B)
      /\ A \subseteq Pods /\ seen.stored \subseteq Pods /\ A \in SUBSET seen.stored
      /\ A \cap B \in SUBSET Pods
  <2>1. A \in SUBSET Pods /\ seen.stored \in SUBSET Pods
    BY DEF ReadingType, Alone, Standing
  <2>. QED BY <2>1, FS_Subset, ConstantsAssumption
<1>2. \A p \in Pods : /\ left[p] \in Nat /\ c[p] \in Nat /\ f[p] \in Nat /\ Cores[p] \in Nat
                      /\ Cores[p] <= left[p] + c[p]
  <2> SUFFICES ASSUME NEW p \in Pods
               PROVE  /\ left[p] \in Nat /\ c[p] \in Nat /\ f[p] \in Nat /\ Cores[p] \in Nat
                      /\ Cores[p] <= left[p] + c[p]
    OBVIOUS
  <2>1. Counted(p) \in Nat /\ Cores[p] \in Nat
    BY CountsType
  <2> DEFINE d == IF p \in Named /\ p \in seen.bound THEN Counted(p) ELSE 0
  <2>2. d \in Nat /\ d <= c[p] /\ c[p] \in Nat /\ f[p] \in Nat
    BY <2>1
  <2>3. left[p] = Positive(Cores[p] - d)
    BY DEF AloneLeft
  <2>. HIDE DEF d, left, c, f
  <2>. QED BY <2>1, <2>2, <2>3, PositiveOf
<1>3. /\ \A x \in A \cap B : c[x] = f[x]
      /\ \A x \in A \ B : c[x] = 0
  BY <1>1
<1>4. CountedSum(A \cap B) = SumFunctionOnSet(f, A \cap B)
  BY DEF CountedSum
<1>. HIDE DEF left, f, c, A, B
<1>5. SumFunctionOnSet(Cores, A) <= SumFunctionOnSet(both, A)
  <2>1. \A x \in A : Cores[x] \in Nat /\ both[x] \in Nat /\ Cores[x] <= both[x]
    BY <1>1, <1>2
  <2>. HIDE DEF both
  <2>. QED BY <1>1, <2>1, SumBelow
<1>6. SumFunctionOnSet(both, A) = SumFunctionOnSet(left, A) + SumFunctionOnSet(c, A)
  <2>1. \A x \in A : left[x] \in Nat /\ c[x] \in Nat /\ both[x] = left[x] + c[x]
    BY <1>1, <1>2
  <2>. HIDE DEF both
  <2>. QED BY <1>1, <2>1, SumPlus
<1>7. SumFunctionOnSet(c, A) = SumFunctionOnSet(f, A \cap B)
  <2>1. A = (A \cap B) \cup (A \ B) /\ (A \cap B) \cap (A \ B) = {}
        /\ \A x \in (A \cap B) \cup (A \ B) : c[x] \in Nat
    BY <1>1, <1>2
  <2>2. SumFunctionOnSet(c, (A \cap B) \cup (A \ B)) =
          SumFunctionOnSet(c, A \cap B) + SumFunctionOnSet(c, A \ B)
    BY <1>1, <2>1, SumUnion
  <2>3. SumFunctionOnSet(c, A \ B) = 0
    BY <1>1, <1>3, SumZero
  <2>4. SumFunctionOnSet(c, A \cap B) = SumFunctionOnSet(f, A \cap B)
    <3>1. \A x \in A \cap B : c[x] \in Nat /\ c[x] = f[x]
      BY <1>1, <1>2, <1>3
    <3>. QED BY <1>1, <3>1, SumSame
  <2>5. SumFunctionOnSet(f, A \cap B) \in Nat
    <3>1. \A x \in A \cap B : f[x] \in Nat
      BY <1>1, <1>2
    <3>. QED BY <1>1, <3>1, SumRemove
  <2>. QED BY <2>1, <2>2, <2>3, <2>4, <2>5
<1>8. /\ SumFunctionOnSet(left, A) <= SumFunctionOnSet(left, seen.stored)
      /\ SumFunctionOnSet(left, A) \in Nat /\ SumFunctionOnSet(left, seen.stored) \in Nat
      /\ SumFunctionOnSet(f, A \cap B) \in Nat /\ SumFunctionOnSet(Cores, A) \in Nat
  <2>1. /\ \A x \in seen.stored : left[x] \in Nat
        /\ \A x \in A : left[x] \in Nat /\ Cores[x] \in Nat
        /\ \A x \in A \cap B : f[x] \in Nat
    BY <1>1, <1>2
  <2>. QED BY <1>1, <2>1, SumSubset, SumRemove
<1>9. SumFunctionOnSet(both, A) \in Nat
  <2>1. \A x \in A : both[x] \in Nat
    BY <1>1, <1>2
  <2>. HIDE DEF both
  <2>. QED BY <1>1, <2>1, SumRemove
<1>10. SumFunctionOnSet(Cores, A)
         <= SumFunctionOnSet(left, seen.stored) + SumFunctionOnSet(f, A \cap B)
  <2>. HIDE DEF both
  <2>. QED BY <1>5, <1>6, <1>7, <1>8, <1>9
<1>. QED BY <1>4, <1>8, <1>10 DEF left, A, B

\* A reading judged roomy enough for w more has room for w beside everything that
\* is recorded and everything above the ceiling.
LEMMA Judged ==
  ASSUME TypeOK, NEW seen \in ReadingType, NEW w \in Nat,
         Alone \subseteq seen.stored, running \cap High \subseteq seen.classical,
         CountedSum(seen.bound) + Cardinality(seen.classical) <= Allocatable,
         ~(w + Promised(seen) > Reachable(seen))
  PROVE  w + RecordedCores + HighRunning <= Allocatable
<1> DEFINE team  == {p \in seen.bound : pod[p].role \in {"scout", "worker"}}
           alone == Alone \cap seen.bound
           guard == Guarded(seen)
           loose == {p \in seen.bound : ~Protected(p)}
           gangs == SumFunctionOnSet([g \in Groups |-> pg[<<g, "gang">>].cores], Groups)
           ones  == SumFunctionOnSet(Cores, Alone)
           gangsLeft == SumFunctionOnSet([g \in Groups |-> GangLeft(g, seen)],
                                         {g \in Groups : pg[<<g, "gang">>].cores > 0})
           onesLeft  == SumFunctionOnSet([p \in Pods |-> AloneLeft(p, seen)], seen.stored)
           high  == Cardinality(seen.classical \cap High)
           low   == Cardinality(seen.classical \ High)
<1>1. gangsLeft \in Nat /\ gangs <= gangsLeft + CountedSum(team)
  BY GangsCovered
<1>2. onesLeft \in Nat /\ ones <= onesLeft + CountedSum(alone)
  BY AloneCovered
<1>3. /\ seen.bound \in SUBSET Pods /\ team \in SUBSET Pods /\ alone \in SUBSET Pods
      /\ guard \in SUBSET Pods /\ loose \in SUBSET Pods
      /\ team \cap alone = {} /\ team \cup alone \subseteq guard /\ team \cup alone \in SUBSET Pods
      /\ guard \cap loose = {} /\ guard \cup loose = seen.bound
  BY DEF ReadingType, Alone, Guarded, Protected
<1>4. CountedSum(team) + CountedSum(alone) <= CountedSum(guard)
  <2>. HIDE DEF team, alone, guard
  <2>1. CountedSum(team \cup alone) = CountedSum(team) + CountedSum(alone)
    BY <1>3, CountedParts
  <2>2. CountedSum(team \cup alone) <= CountedSum(guard)
    BY <1>3, CountedParts
  <2>. QED BY <2>1, <2>2
<1>5. CountedSum(seen.bound) = CountedSum(guard) + CountedSum(loose)
  <2>. HIDE DEF guard, loose
  <2>. QED BY <1>3, CountedParts
<1>6. /\ CountedSum(team) \in Nat /\ CountedSum(alone) \in Nat /\ CountedSum(guard) \in Nat
      /\ CountedSum(loose) \in Nat
  BY <1>3, CountsType
<1>7. Cardinality(seen.classical) = high + low /\ high \in Nat /\ low \in Nat
  <2>1. IsFiniteSet(seen.classical)
    BY FS_Subset, ConstantsAssumption DEF ReadingType
  <2>. QED BY <2>1, CardinalitySplit
<1>8. HighRunning \in Nat /\ HighRunning <= high
  <2>1. IsFiniteSet(seen.classical \cap High) /\ running \cap High \subseteq seen.classical \cap High
    BY FS_Subset, ConstantsAssumption DEF ReadingType
  <2>. QED BY <2>1, FS_Subset, FS_CardinalityType DEF HighRunning
<1>9. Reachable(seen) \in Int /\ Reachable(seen) <= Allocatable - CountedSum(guard) - high
  <2> DEFINE rest == Budget - RunningCores(seen)
  <2>1. Budget \in Nat /\ Budget <= Allocatable
    <3>1. Positive(Allocatable - Reserve) <= Allocatable
      BY ConstantsAssumption, MaxBelow DEF Positive
    <3>. QED BY <3>1, ConstantsAssumption, PositiveOf DEF Budget
  <2>2. RunningCores(seen) = CountedSum(guard) + CountedSum(loose) + high + low
        /\ RunningCores(seen) <= Allocatable
    <3>. HIDE DEF guard, loose, high, low
    <3>. QED BY <1>5, <1>6, <1>7 DEF RunningCores
  <2>3. Positive(rest) <= Allocatable - RunningCores(seen)
    <3>1. RunningCores(seen) \in Nat
      <4>. HIDE DEF guard, loose, high, low
      <4>. QED BY <1>6, <1>7, <2>2
    <3>2. rest \in Int /\ rest <= Allocatable - RunningCores(seen)
          /\ 0 <= Allocatable - RunningCores(seen) /\ Allocatable - RunningCores(seen) \in Int
      BY <2>1, <2>2, <3>1, ConstantsAssumption
    <3>. HIDE DEF rest
    <3>. QED BY <3>2, MaxBelow DEF Positive
  <2>4. Reachable(seen) = Positive(rest) + CountedSum(loose) + low /\ Positive(rest) \in Int
    <3>1. rest \in Int
      <4>. HIDE DEF guard, loose, high, low
      <4>. QED BY <1>6, <1>7, <2>1, <2>2
    <3>2. Positive(rest) \in Int
      BY <3>1, PositiveOf
    <3>3. Reachable(seen) = Positive(rest) + (CountedSum(loose) + low)
      BY DEF Reachable, Preemptible
    <3>. HIDE DEF rest, loose, low
    <3>. QED BY <1>6, <1>7, <3>2, <3>3
  <2>. HIDE DEF guard, loose, high, low, rest
  <2>. QED BY <1>6, <1>7, <2>2, <2>3, <2>4, ConstantsAssumption
<1>10. Promised(seen) = gangsLeft + onesLeft /\ RecordedCores = gangs + ones
  BY DEF Promised, RecordedCores, Alone
<1>11. gangs \in Nat /\ ones \in Nat
  <2>1. \A g \in Groups : [h \in Groups |-> pg[<<h, "gang">>].cores][g] \in Nat
    BY DEF TypeOK, PodGroupType, PodGroups
  <2>2. gangs \in Nat
    BY <2>1, SumRemove, ConstantsAssumption
  <2>3. Alone \in SUBSET Pods
    BY DEF Alone, Standing
  <2>4. ones \in Nat
    BY <2>3, SumRemove, CountsType
  <2>. QED BY <2>2, <2>4
<1>. HIDE DEF team, alone, guard, loose, gangs, ones, gangsLeft, onesLeft, high, low
<1>. QED BY <1>1, <1>2, <1>4, <1>6, <1>7, <1>8, <1>9, <1>10, <1>11, ConstantsAssumption

-----------------------------------------------------------------------------
(* What a step leaves of the pods and of the nodes.                         *)

LEMMA PodsKept ==
  ASSUME TypeOK, RequestInv, [Next]_vars
  PROVE  \A q \in Pods : pod[q].phase # "none" =>
           pod'[q].phase # "none" /\ pod'[q].role = pod[q].role
<1>1. ASSUME NEW p \in Pods, Request(p), NEW q \in Pods, pod[q].phase # "none"
      PROVE  pod'[q] = pod[q]
  <2>1. q # p
    BY <1>1, RequestScope
  <2>. QED BY <1>1, <2>1, RequestFrame
<1>2. ASSUME NEW p \in Pods, Bind(p) \/ Finish(p) \/ Delete(p), NEW q \in Pods,
             pod[q].phase # "none"
      PROVE  pod'[q].phase # "none" /\ pod'[q].role = pod[q].role
  BY <1>2 DEF Bind, Finish, Delete, TypeOK
<1>3. ASSUME NEW c \in Classical, StartClassical(c) \/ FinishClassical(c) PROVE pod' = pod
  BY <1>3 DEF StartClassical, FinishClassical
<1>4. ASSUME NEW x \in PodGroups, Reap(x) PROVE pod' = pod
  BY <1>4 DEF Reap
<1>. QED BY <1>1, <1>2, <1>3, <1>4 DEF Next, Cluster, vars

LEMMA UsedThen ==
  ASSUME TypeOK, TypeOK', NEW T \in SUBSET Pods, T = Bound',
         \A q \in T : pod'[q].role = pod[q].role
  PROVE  Used' = CountedSum(T) + Cardinality(running')
<1>1. CountedSum(T)' = CountedSum(T)
  BY CountedSame
<1>2. Used' = CountedSum(T)' + Cardinality(running')
  BY DEF Used, CountedSum
<1>. QED BY <1>1, <1>2

LEMMA RunningType ==
  ASSUME TypeOK
  PROVE  /\ IsFiniteSet(running) /\ Cardinality(running) \in Nat
         /\ Bound \in SUBSET Pods /\ CountedSum(Bound) \in Nat /\ Used \in Nat
<1>1. IsFiniteSet(running)
  BY FS_Subset, ConstantsAssumption DEF TypeOK
<1>2. Bound \in SUBSET Pods
  BY DEF Bound
<1>3. CountedSum(Bound) \in Nat
  BY <1>2, CountsType
<1>4. Cardinality(running) \in Nat
  BY <1>1, FS_CardinalityType
<1>. QED BY <1>1, <1>2, <1>3, <1>4 DEF Used

\* Nothing is bound beyond the nodes.
LEMMA UsedNext ==
  ASSUME TypeOK, TypeOK', RequestInv, [Next]_vars, Used <= Allocatable
  PROVE  Used' <= Allocatable
<1>1. PICK B \in SUBSET Pods : B = Bound
  BY RunningType
<1>2. PICK T \in SUBSET Pods : T = Bound'
  BY DEF Bound
<1>3. \A q \in B : pod'[q].role = pod[q].role
  BY <1>1, PodsKept DEF Bound
<1>4. Used = CountedSum(B) + Cardinality(running) /\ Cardinality(running) \in Nat
      /\ IsFiniteSet(running) /\ CountedSum(B) \in Nat /\ CountedSum(T) \in Nat
  BY <1>1, RunningType, CountsType DEF Used
<1>5. ASSUME T \subseteq B, running' \subseteq running
      PROVE  Used' <= Allocatable
  <2>1. Used' = CountedSum(T) + Cardinality(running')
    BY <1>2, <1>3, <1>5, UsedThen
  <2>2. CountedSum(T) <= CountedSum(B)
    BY <1>5, CountedParts
  <2>3. Cardinality(running') <= Cardinality(running) /\ Cardinality(running') \in Nat
    BY <1>4, <1>5, FS_Subset, FS_CardinalityType
  <2>. QED BY <1>4, <2>1, <2>2, <2>3, ConstantsAssumption
<1>6. ASSUME NEW p \in Pods, Request(p) PROVE Used' <= Allocatable
  <2>1. \A q \in Pods : pod'[q].phase = "bound" => pod[q].phase = "bound"
    <3>1. pod[p].phase = "none"
      BY <1>6, RequestScope
    <3>2. pod' = pod \/ Answer(p) \/ TimeOut(p)
      BY <1>6 DEF Request, Step, Arrive, ResolveSize, GroupAdmitted, ListPods, Admit,
         EnsureGang, ReadRecord, PatchRecord, Elect, EnsureScout, GangHandler, LoseAnswer
    <3>3. DOMAIN pod = Pods
      BY DEF TypeOK
    <3>4. CASE Answer(p) \/ TimeOut(p)
      <4>1. pod'[p].phase = "stored"
        <5>1. PICK r : pod' = [pod EXCEPT ![p] = [phase |-> "stored", role |-> r]]
          BY <3>4 DEF Answer, TimeOut
        <5>. QED BY <1>6, <3>3, <5>1
      <4>. QED BY <1>6, <4>1, RequestFrame
    <3>5. CASE pod' = pod
      BY <3>5
    <3>. QED BY <3>2, <3>4, <3>5
  <2>2. T \subseteq B
    BY <1>1, <1>2, <2>1 DEF Bound
  <2>3. running' = running
    BY <1>6 DEF Request, Step, Arrive, ResolveSize, GroupAdmitted, ListPods, Admit, EnsureGang,
       ReadRecord, PatchRecord, Elect, EnsureScout, GangHandler, Answer, LoseAnswer, TimeOut
  <2>. QED BY <1>5, <2>2, <2>3
<1>7. ASSUME NEW p \in Pods, Bind(p) PROVE Used' <= Allocatable
  <2>1. PICK E \in SUBSET (running \ High) :
          /\ Used + Counted(p) - Cardinality(E) <= Allocatable
          /\ running' = running \ E
    BY <1>7 DEF Bind
  <2>2. T = B \cup {p} /\ p \notin B /\ pod'[p].role = pod[p].role
    BY <1>1, <1>2, <1>7 DEF Bind, Bound, TypeOK
  <2>3. CountedSum(T) = Counted(p) + CountedSum(B)
    <3>1. p \in T /\ T \ {p} = B
      BY <2>2
    <3>. QED BY <3>1, CountedParts
  <2>4. Used' = CountedSum(T) + Cardinality(running')
    BY <1>2, <1>3, <2>2, UsedThen
  <2>5. Cardinality(running) = Cardinality(E) + Cardinality(running')
        /\ Cardinality(E) \in Nat /\ Cardinality(running') \in Nat
    <3>1. running \cap E = E
      OBVIOUS
    <3>. QED BY <1>4, <2>1, <3>1, CardinalitySplit
  <2>6. Counted(p) \in Nat
    BY CountsType
  <2>. QED BY <1>4, <2>1, <2>3, <2>4, <2>5, <2>6, ConstantsAssumption
<1>8. ASSUME NEW p \in Pods, Finish(p) \/ Delete(p) PROVE Used' <= Allocatable
  <2>1. T \subseteq B /\ running' = running
    BY <1>1, <1>2, <1>8 DEF Finish, Delete, Bound, TypeOK
  <2>. QED BY <1>5, <2>1
<1>9. ASSUME NEW c \in Classical, StartClassical(c) PROVE Used' <= Allocatable
  <2>1. T = B /\ running' = running \cup {c} /\ c \notin running /\ Used < Allocatable
    BY <1>1, <1>2, <1>9 DEF StartClassical, Bound
  <2>2. Used' = CountedSum(T) + Cardinality(running')
    BY <1>2, <1>3, <2>1, UsedThen
  <2>3. Cardinality(running') = Cardinality(running) + 1
    BY <1>4, <2>1, FS_AddElement
  <2>. QED BY <1>4, <2>1, <2>2, <2>3, ConstantsAssumption
<1>10. ASSUME NEW c \in Classical, FinishClassical(c) PROVE Used' <= Allocatable
  <2>1. T = B /\ running' \subseteq running
    BY <1>1, <1>2, <1>10 DEF FinishClassical, Bound
  <2>. QED BY <1>5, <2>1
<1>11. ASSUME NEW x \in PodGroups, Reap(x) PROVE Used' <= Allocatable
  <2>1. T = B /\ running' = running
    BY <1>1, <1>2, <1>11 DEF Reap, Bound
  <2>. QED BY <1>5, <2>1
<1>12. CASE UNCHANGED vars
  <2>1. T = B /\ running' = running
    BY <1>1, <1>2, <1>12 DEF vars, Bound
  <2>. QED BY <1>5, <2>1
<1>. QED BY <1>6, <1>7, <1>8, <1>9, <1>10, <1>11, <1>12 DEF Next, Cluster

LEMMA UsedInit ==
  ASSUME Cardinality(High) <= Allocatable, Init
  PROVE  Used <= Allocatable
<1>1. Bound = {} /\ running = High
  BY DEF Init, Bound
<1>2. CountedSum({}) = 0
  BY SumEmpty DEF CountedSum
<1>3. Cardinality(High) \in Nat
  BY FS_Subset, FS_CardinalityType, ConstantsAssumption
<1>. QED BY <1>1, <1>2, <1>3 DEF Used

-----------------------------------------------------------------------------
(* How the records grow.                                                    *)

LEMMA RecordedType ==
  ASSUME TypeOK
  PROVE  /\ \A g \in Groups : Recorded(g) \in Nat
         /\ Alone \in SUBSET Pods /\ IsFiniteSet(Alone)
         /\ SumFunctionOnSet([g \in Groups |-> Recorded(g)], Groups) \in Nat
         /\ SumFunctionOnSet(Cores, Alone) \in Nat
         /\ RecordedCores = SumFunctionOnSet([g \in Groups |-> Recorded(g)], Groups)
                            + SumFunctionOnSet(Cores, Alone)
         /\ RecordedCores \in Nat
<1> DEFINE rec == [g \in Groups |-> Recorded(g)]
<1>1. \A g \in Groups : Recorded(g) \in Nat /\ rec[g] = Recorded(g)
  BY DEF Recorded, TypeOK, PodGroupType, PodGroups
<1>2. Alone \in SUBSET Pods /\ IsFiniteSet(Alone)
  <2>1. Alone \in SUBSET Pods
    BY DEF Alone, Standing
  <2>. QED BY <2>1, FS_Subset, ConstantsAssumption
<1>3. SumFunctionOnSet(Cores, Alone) \in Nat
  BY <1>2, SumRemove, CountsType
<1>4. RecordedCores = SumFunctionOnSet(rec, Groups) + SumFunctionOnSet(Cores, Alone)
  BY DEF RecordedCores, Recorded, Alone
<1>. HIDE DEF rec
<1>5. SumFunctionOnSet(rec, Groups) \in Nat
  BY <1>1, SumRemove, ConstantsAssumption
<1>6. RecordedCores \in Nat
  BY <1>3, <1>4, <1>5
<1>. QED BY <1>1, <1>2, <1>3, <1>4, <1>5, <1>6 DEF rec

LEMMA RecordedTypeThen ==
  ASSUME TypeOK'
  PROVE  RecordedCores' \in Nat
<1>1. /\ \A g \in Groups : [h \in Groups |-> Recorded(h)'][g] \in Nat
      /\ Alone' \in SUBSET Pods
  BY DEF Recorded, TypeOK, PodGroupType, PodGroups, Alone, Standing
<1>2. SumFunctionOnSet([h \in Groups |-> Recorded(h)'], Groups) \in Nat
  BY <1>1, SumRemove, ConstantsAssumption
<1>3. SumFunctionOnSet(Cores, Alone') \in Nat
  BY <1>1, FS_Subset, SumRemove, ConstantsAssumption
<1>4. RecordedCores' = SumFunctionOnSet([h \in Groups |-> Recorded(h)'], Groups)
                       + SumFunctionOnSet(Cores, Alone')
  BY DEF RecordedCores, Recorded, Alone
<1>. QED BY <1>2, <1>3, <1>4

\* One gang's record grows by no more than w.
LEMMA RecordsGrow ==
  ASSUME TypeOK, TypeOK', NEW w \in Nat, NEW h \in Groups,
         \A g \in Groups \ {h} : Recorded(g)' <= Recorded(g),
         Recorded(h)' <= Recorded(h) + w, Alone' \subseteq Alone
  PROVE  RecordedCores' <= RecordedCores + w
<1> DEFINE rec  == [g \in Groups |-> Recorded(g)]
           then == [g \in Groups |-> Recorded(g)']
           more == [g \in Groups |-> IF g = h THEN w ELSE 0]
           both == [g \in Groups |-> rec[g] + more[g]]
           sum(f) == SumFunctionOnSet(f, Groups)
<1>1. PICK A \in SUBSET Pods : A = Alone
  BY RecordedType
<1>2. PICK C \in SUBSET Pods : C = Alone'
  BY DEF Alone, Standing
<1>3. RecordedCores = sum(rec) + SumFunctionOnSet(Cores, A)
  BY <1>1, RecordedType
<1>4. RecordedCores' = sum(then) + SumFunctionOnSet(Cores, C)
  BY <1>2 DEF RecordedCores, Recorded, Alone
<1>5. \A g \in Groups : /\ rec[g] \in Nat /\ then[g] \in Nat /\ more[g] \in Nat /\ both[g] \in Nat
                        /\ then[g] <= both[g] /\ both[g] = rec[g] + more[g]
                        /\ (g # h => more[g] = 0)
  <2>1. \A g \in Groups : Recorded(g) \in Nat /\ Recorded(g)' \in Nat
    BY DEF Recorded, TypeOK, PodGroupType, PodGroups
  <2>. QED BY <2>1
<1>6. more[h] = w
  OBVIOUS
<1>7. /\ SumFunctionOnSet(Cores, C) <= SumFunctionOnSet(Cores, A)
      /\ SumFunctionOnSet(Cores, C) \in Nat /\ SumFunctionOnSet(Cores, A) \in Nat
  <2>1. IsFiniteSet(A) /\ IsFiniteSet(C) /\ C \in SUBSET A
    BY <1>1, <1>2, FS_Subset, ConstantsAssumption
  <2>2. \A x \in A : Cores[x] \in Nat
    BY CountsType
  <2>. QED BY <2>1, <2>2, SumSubset, SumRemove
<1>. HIDE DEF rec, then, more, both
<1>8. sum(then) <= sum(both) /\ sum(both) = sum(rec) + sum(more)
  BY <1>5, SumBelow, SumPlus, ConstantsAssumption
<1>9. sum(more) = w
  <2>1. SumFunctionOnSet(more, Groups \ {h}) = 0
    BY <1>5, FS_Subset, ConstantsAssumption, SumZero
  <2>2. sum(more) = more[h] + SumFunctionOnSet(more, Groups \ {h})
    BY <1>5, ConstantsAssumption, SumRemove
  <2>. QED BY <1>6, <2>1, <2>2
<1>10. sum(then) \in Nat /\ sum(both) \in Nat /\ sum(rec) \in Nat
  BY <1>5, ConstantsAssumption, SumRemove
<1>. HIDE DEF sum
<1>. QED BY <1>3, <1>4, <1>7, <1>8, <1>9, <1>10

\* No record grows, and the pods that stand alone are joined by p at the most.
LEMMA AloneGrows ==
  ASSUME TypeOK, TypeOK', NEW p,
         \A g \in Groups : Recorded(g)' <= Recorded(g), Alone' \subseteq Alone \cup {p}
  PROVE  /\ p \in Pods => RecordedCores' <= RecordedCores + Cores[p]
         /\ Alone' \subseteq Alone => RecordedCores' <= RecordedCores
<1> DEFINE rec  == [g \in Groups |-> Recorded(g)]
           then == [g \in Groups |-> Recorded(g)']
           sum(f) == SumFunctionOnSet(f, Groups)
           ones(S) == SumFunctionOnSet(Cores, S)
<1>1. PICK A \in SUBSET Pods : A = Alone
  BY RecordedType
<1>2. PICK C \in SUBSET Pods : C = Alone'
  BY DEF Alone, Standing
<1>3. RecordedCores = sum(rec) + ones(A)
  BY <1>1, RecordedType
<1>4. RecordedCores' = sum(then) + ones(C)
  BY <1>2 DEF RecordedCores, Recorded, Alone
<1>5. \A g \in Groups : rec[g] \in Nat /\ then[g] \in Nat /\ then[g] <= rec[g]
  BY DEF Recorded, TypeOK, PodGroupType, PodGroups
<1>. HIDE DEF rec, then
<1>6. sum(then) <= sum(rec) /\ sum(then) \in Nat /\ sum(rec) \in Nat
  BY <1>5, SumBelow, SumRemove, ConstantsAssumption
<1>7. /\ IsFiniteSet(A) /\ IsFiniteSet(C) /\ IsFiniteSet(C \ {p})
      /\ \A x \in Pods : Cores[x] \in Nat
  BY FS_Subset, ConstantsAssumption, CountsType
<1>8. ones(A) \in Nat /\ ones(C) \in Nat /\ ones(C \ {p}) \in Nat
  BY <1>7, SumRemove
<1>9. C \subseteq A => ones(C) <= ones(A)
  BY <1>7, SumSubset
<1>10. ASSUME p \in Pods PROVE ones(C) <= ones(A) + Cores[p]
  <2>1. ones(C \ {p}) <= ones(A)
    <3>1. C \ {p} \in SUBSET A
      BY <1>1, <1>2
    <3>. QED BY <1>7, <3>1, SumSubset
  <2>2. CASE p \in C
    <3>1. ones(C) = Cores[p] + ones(C \ {p})
      BY <1>7, <2>2, SumRemove
    <3>. HIDE DEF ones
    <3>. QED BY <1>7, <1>8, <1>10, <2>1, <3>1
  <2>3. CASE p \notin C
    <3>1. C \ {p} = C
      BY <2>3
    <3>. HIDE DEF ones
    <3>. QED BY <1>7, <1>8, <1>10, <2>1, <3>1
  <2>. QED BY <2>2, <2>3
<1>. HIDE DEF sum, ones
<1>. QED BY <1>1, <1>2, <1>3, <1>4, <1>6, <1>7, <1>8, <1>9, <1>10

\* What a request does to the record of a gang: nothing, a new PodGroup without
\* one, or the record itself.
LEMMA RequestRecord ==
  ASSUME TypeOK, NEW p \in Pods, Request(p), NEW g \in Groups
  PROVE  LET x == <<g, "gang">> IN
         \/ pg'[x] = pg[x]
         \/ ~pg[x].exists /\ pg'[x].cores = 0
         \/ /\ PatchRecord(p, TRUE) /\ g = GroupOf[p] /\ pg[x].exists
            /\ pg'[x] = [pg[x] EXCEPT !.cores = Want(p)]
<1> DEFINE x == <<g, "gang">>
<1>0. x \in PodGroups /\ DOMAIN pg = PodGroups
  BY DEF PodGroups, TypeOK
<1>1. ASSUME NEW y, NEW n, NEW ok, pg' = Ensured(y, n, ok)
      PROVE  pg'[x] = pg[x] \/ (~pg[x].exists /\ pg'[x].cores = 0)
  <2>1. CASE x = y /\ ~pg[x].exists /\ ok
    BY <1>0, <1>1, <2>1 DEF Ensured
  <2>2. CASE ~(x = y /\ ~pg[x].exists /\ ok)
    BY <1>0, <1>1, <2>2 DEF Ensured
  <2>. QED BY <2>1, <2>2
<1>2. ASSUME NEW ok \in BOOLEAN, PatchRecord(p, ok)
      PROVE  \/ pg'[x] = pg[x]
             \/ /\ PatchRecord(p, TRUE) /\ g = GroupOf[p] /\ pg[x].exists
                /\ pg'[x] = [pg[x] EXCEPT !.cores = Want(p)]
  <2> DEFINE y == <<GroupOf[p], "gang">>
  <2>1. CASE ok /\ pg[y].exists /\ x = y
    <3>1. pg' = [pg EXCEPT ![y].cores = Want(p)]
      BY <1>2, <2>1 DEF PatchRecord
    <3>2. pg'[x] = [pg[x] EXCEPT !.cores = Want(p)]
      BY <1>0, <2>1, <3>1
    <3>3. ok = TRUE /\ g = GroupOf[p]
      BY <2>1
    <3>. QED BY <1>2, <2>1, <3>2, <3>3
  <2>2. CASE ~(ok /\ pg[y].exists /\ x = y)
    <3>1. pg' = pg \/ (x # y /\ pg' = [pg EXCEPT ![y].cores = Want(p)])
      BY <1>2, <2>2 DEF PatchRecord
    <3>. QED BY <1>0, <3>1
  <2>. QED BY <2>1, <2>2
<1>3. ASSUME NEW ok \in BOOLEAN, EnsureGang(p, ok) \/ EnsureScout(p, ok)
      PROVE  pg'[x] = pg[x] \/ (~pg[x].exists /\ pg'[x].cores = 0)
  BY <1>1, <1>3 DEF EnsureGang, EnsureScout
<1>4. ASSUME NEW sized \in BOOLEAN, NEW ok \in BOOLEAN, GangHandler(p, sized, ok)
      PROVE  pg'[x] = pg[x] \/ (~pg[x].exists /\ pg'[x].cores = 0)
  BY <1>1, <1>4 DEF GangHandler
<1>5. \/ pg' = pg \/ \E ok \in BOOLEAN : PatchRecord(p, ok) \/ EnsureGang(p, ok) \/ EnsureScout(p, ok)
      \/ \E sized, ok \in BOOLEAN : GangHandler(p, sized, ok)
  BY DEF Request, Step, Arrive, ResolveSize, GroupAdmitted, ListPods, Admit, ReadRecord, Elect,
     Answer, LoseAnswer, TimeOut
<1>. QED BY <1>2, <1>3, <1>4, <1>5

LEMMA WantType ==
  ASSUME TypeOK, NEW p \in Pods
  PROVE  Want(p) \in Nat /\ Want(p) > 0
<1>1. req[p].n \in Nat \ {0} /\ Cores[p] \in Nat \ {0}
  BY ConstantsAssumption DEF TypeOK, RequestType
<1>2. \A a, b \in Nat \ {0} : a * b \in Nat /\ a * b > 0
  <2> SUFFICES ASSUME NEW a \in Nat \ {0}, NEW b \in Nat \ {0}
               PROVE  a * b \in Nat /\ a * b > 0
    OBVIOUS
  <2>1. a * b = a + a * (b - 1) /\ b - 1 \in Nat
    OBVIOUS
  <2>2. \A c \in Nat : a * c \in Nat
    OBVIOUS
  <2>. QED BY <2>1, <2>2
<1>3. IF InGang(p, req[p].n) THEN req[p].n \in Nat \ {0} ELSE 1 \in Nat \ {0}
  BY <1>1
<1>. QED BY <1>1, <1>2, <1>3 DEF Want

\* A record is one of a PodGroup that exists.
RecordsExist == \A g \in Groups : Recorded(g) > 0 => pg[<<g, "gang">>].exists

LEMMA RecordsExistNext ==
  ASSUME TypeOK, TypeOK', RecordsExist, [Next]_vars
  PROVE  RecordsExist'
<1>1. ASSUME NEW p \in Pods, Request(p), NEW g \in Groups, Recorded(g)' > 0
      PROVE  pg'[<<g, "gang">>].exists
  <2> DEFINE x == <<g, "gang">>
  <2>1. CASE pg'[x] = pg[x]
    BY <1>1, <2>1 DEF Recorded, RecordsExist
  <2>2. CASE ~pg[x].exists /\ pg'[x].cores = 0
    BY <1>1, <2>2 DEF Recorded
  <2>3. CASE pg[x].exists /\ pg'[x] = [pg[x] EXCEPT !.cores = Want(p)]
    <3>1. pg[x] \in PodGroupType
      BY DEF TypeOK, PodGroups
    <3>. QED BY <2>3, <3>1 DEF PodGroupType
  <2>. QED BY <1>1, <2>1, <2>2, <2>3, RequestRecord
<1>2. ASSUME NEW y \in PodGroups, Reap(y), NEW g \in Groups, Recorded(g)' > 0
      PROVE  pg'[<<g, "gang">>].exists
  <2> DEFINE x == <<g, "gang">>
  <2>1. x \in PodGroups
    BY DEF PodGroups
  <2>2. pg'[x] = pg[x] \/ pg'[x] = [exists |-> FALSE, minCount |-> 0, cores |-> 0]
    BY <1>2, <2>1 DEF Reap
  <2>. QED BY <1>2, <2>2 DEF Recorded, RecordsExist
<1>3. CASE pg' = pg
  BY <1>3 DEF RecordsExist, Recorded
<1>4. \/ pg' = pg \/ (\E p \in Pods : Request(p)) \/ \E y \in PodGroups : Reap(y)
  BY DEF Next, Cluster, Bind, Finish, Delete, StartClassical, FinishClassical, vars
<1>. QED BY <1>1, <1>2, <1>3, <1>4 DEF RecordsExist

-----------------------------------------------------------------------------
(* From the reading to the record.                                          *)

\* Sizes come from the annotation or the owner: what Admit has checked is what
\* Mutate makes a record of.
FixedSizes == \A p \in Pods : p \in Shared /\ GroupOf[p] # NoGroup => SizeFrom[p] # "count"

Undisturbed == ~overlapped /\ faults = 0

\* The pods that make up a gang with others, and what is asked for at once.
Paired(p) == p \in Shared /\ GroupOf[p] # NoGroup /\ Size[p] > 1
Whole(p)  == Cores[p] * (IF Paired(p) THEN Size[p] ELSE 1)

\* A request between the judgement and its effect.
Checked(r) == r.pc \in {"resize", "ensure", "read", "patch"} \/ r.role = "alone"

\* The size a request goes by, and where it is asked for.
Sized(p, r) ==
  /\ /\ r.pc \in {"admitted", "pods", "groups", "resize", "ensure", "read", "patch"}
     /\ p \in Shared /\ GroupOf[p] # NoGroup
     => r.n = Size[p]
  /\ r.pc \in {"admitted", "ensure", "read", "patch"} => Paired(p)
  /\ r.role = "alone" => r.pc = "answer" /\ ~Paired(p)
  /\ r.pc = "groups" => r.seen.taken
  /\ r.pc \in {"size", "admitted", "pods"} => ~r.seen.taken

\* A request is let through by its own reading or by its gang's record.
Vouched(p, r) ==
  Checked(r) => \/ r.seen.taken
                \/ r.pc # "patch" /\ Paired(p) /\ Recorded(GroupOf[p]) > 0

\* A reading that is not judged yet is not behind where it matters.
Fresh(r) ==
  r.pc = "groups" =>
    /\ \A q \in r.seen.bound : pod[q].phase # "none"
    /\ CountedSum(r.seen.bound) + Cardinality(r.seen.classical) <= Allocatable
    /\ Alone \subseteq r.seen.stored
    /\ running \cap High \subseteq r.seen.classical

\* A request let through by its own reading has room for all it asked for.
Room(p, r) ==
  Checked(r) /\ r.seen.taken => Whole(p) + RecordedCores + HighRunning <= Allocatable

InOrder(p, r) == Sized(p, r) /\ Vouched(p, r) /\ Fresh(r) /\ Room(p, r)

OneReader ==
  \A p, q \in Pods :
    InFlight(p) /\ InFlight(q) /\ req[p].seen.taken /\ req[q].seen.taken => p = q

Fit == RecordedCores + HighRunning <= Allocatable

BudgetInv ==
  /\ Used <= Allocatable
  /\ RecordsExist
  /\ Undisturbed =>
       /\ OneReader /\ Fit
       /\ \A p \in Pods : InOrder(p, req[p])

LEMMA HighType == TypeOK => HighRunning \in Nat /\ IsFiniteSet(running \cap High)
<1> SUFFICES ASSUME TypeOK PROVE HighRunning \in Nat /\ IsFiniteSet(running \cap High)
  OBVIOUS
<1>1. IsFiniteSet(running)
  BY RunningType
<1>2. IsFiniteSet(running \cap High)
  BY <1>1, FS_Subset
<1>. QED BY <1>2, FS_CardinalityType DEF HighRunning

LEMMA WholeType ==
  ASSUME NEW p \in Pods
  PROVE  Whole(p) \in Nat /\ (~Paired(p) => Whole(p) = Cores[p])
<1>1. \A a, b \in Nat : a * b \in Nat /\ a * 1 = a
  OBVIOUS
<1>2. Cores[p] \in Nat /\ Size[p] \in Nat
  BY ConstantsAssumption
<1>. QED BY <1>1, <1>2 DEF Whole

\* The size that was asked for is the pod's own.
LEMMA WantsWhole ==
  ASSUME NEW p \in Pods, p \in Shared /\ GroupOf[p] # NoGroup => req[p].n = Size[p]
  PROVE  Want(p) = Whole(p) /\ (InGang(p, req[p].n) <=> Paired(p))
BY DEF Want, Whole, InGang, Paired

LEMMA FixedSize ==
  ASSUME FixedSizes, NEW p \in Pods
  PROVE  LET n == ResolvedSize(p, TRUE) IN
         /\ p \in Shared /\ GroupOf[p] # NoGroup => n = Size[p]
         /\ InGang(p, n) <=> Paired(p)
<1>1. SizeFrom[p] \in {"annotation", "owner", "count"}
  BY ConstantsAssumption
<1>2. p \in Shared /\ GroupOf[p] # NoGroup => ResolvedSize(p, TRUE) = Size[p]
  BY <1>1 DEF FixedSizes, ResolvedSize
<1>. QED BY <1>2 DEF InGang, Paired

\* Where a request goes whose calls succeed: on with the reading it has, idle, to
\* a new reading, or past the judgement.
Moves(p, r, t) ==
  \/ /\ t.seen = r.seen /\ t.pc # "groups"
     /\ Checked(t) => Checked(r) \/ ~r.seen.taken
  \/ t.seen = NoReading /\ ~Checked(t) /\ t.pc # "groups"
  \/ t.seen = Reading /\ ~Checked(t) /\ t.pc = "groups" /\ ListPods(p, TRUE)
  \/ /\ t.seen = [NoReading EXCEPT !.taken = TRUE] /\ r.pc = "groups" /\ pg' = pg /\ pod' = pod
     /\ \/ t.pc = "refused" /\ ~Checked(t)
        \/ t.pc = "resize" /\ ~(Want(p) + Promised(r.seen) > Reachable(r.seen))

LEMMA DecideMoves ==
  ASSUME TypeOK, FixedSizes, NEW p \in Pods, Sized(p, req[p]), Vouched(p, req[p]),
         \/ Arrive(p) \/ ResolveSize(p, TRUE) \/ GroupAdmitted(p, TRUE)
         \/ ListPods(p, TRUE) \/ Admit(p, TRUE)
  PROVE  Sized(p, req'[p]) /\ Vouched(p, req[p])' /\ Moves(p, req[p], req'[p])
<1>0. req[p] \in RequestType /\ DOMAIN req = Pods
  BY DEF TypeOK
<1>1. CASE Arrive(p)
  <2>1. /\ req'[p].pc \in {"refused", "size", "gang"} /\ req'[p].role \in {"none", "member"}
        /\ req'[p].seen = NoReading
    BY <1>0, <1>1 DEF Arrive, IdleReq
  <2>2. ~NoReading.taken
    BY DEF NoReading
  <2>. QED BY <2>1, <2>2 DEF Sized, Vouched, Moves, Checked
<1>2. CASE ResolveSize(p, TRUE)
  <2> DEFINE n == ResolvedSize(p, TRUE)
  <2>1. /\ p \in Shared /\ GroupOf[p] # NoGroup => n = Size[p]
        /\ InGang(p, n) <=> Paired(p)
    BY FixedSize
  <2>2. pg' = pg /\ req[p].pc \in {"size", "resize"}
    BY <1>2 DEF ResolveSize
  <2>3. /\ req'[p].n = n /\ req'[p].seen = req[p].seen
        /\ req'[p].role = IF req[p].pc = "resize" /\ ~InGang(p, n) THEN "alone" ELSE req[p].role
        /\ req[p].pc = "size"   /\ InGang(p, n)  => req'[p].pc = "admitted"
        /\ req[p].pc = "size"   /\ ~InGang(p, n) => req'[p].pc = "pods"
        /\ req[p].pc = "resize" /\ InGang(p, n)  => req'[p].pc = "ensure"
        /\ req[p].pc = "resize" /\ ~InGang(p, n) => req'[p].pc = "answer"
    <3>1. PICK m, role, pc :
            /\ req' = [req EXCEPT ![p].n = m, ![p].role = role, ![p].pc = pc]
            /\ m = n
            /\ role = IF req[p].pc = "resize" /\ ~InGang(p, n) THEN "alone" ELSE req[p].role
            /\ req[p].pc = "size"   /\ InGang(p, n)  => pc = "admitted"
            /\ req[p].pc = "size"   /\ ~InGang(p, n) => pc = "pods"
            /\ req[p].pc = "resize" /\ InGang(p, n)  => pc = "ensure"
            /\ req[p].pc = "resize" /\ ~InGang(p, n) => pc = "answer"
      BY <1>2 DEF ResolveSize
    <3>2. req'[p].n = m /\ req'[p].role = role /\ req'[p].pc = pc /\ req'[p].seen = req[p].seen
      BY <1>0, <3>1 DEF RequestType
    <3>. QED BY <3>1, <3>2
  <2>. HIDE DEF n
  <2>4. Sized(p, req'[p])
    BY <2>1, <2>2, <2>3 DEF Sized
  <2>5. req[p].pc = "resize" => req[p].seen.taken \/ (Paired(p) /\ Recorded(GroupOf[p]) > 0)
    BY DEF Vouched, Checked
  <2>6. Vouched(p, req[p])'
    BY <2>1, <2>2, <2>3, <2>5 DEF Vouched, Checked, Sized, Recorded
  <2>7. Moves(p, req[p], req'[p])
    BY <2>1, <2>2, <2>3 DEF Moves, Checked, Sized
  <2>. QED BY <2>4, <2>6, <2>7
<1>3. CASE GroupAdmitted(p, TRUE)
  <2>1. PICK pc : /\ req' = [req EXCEPT ![p].pc = pc]
                  /\ pc = IF Recorded(GroupOf[p]) > 0 THEN "resize" ELSE "pods"
    BY <1>3 DEF GroupAdmitted, Goto, Recorded
  <2>2. /\ req'[p].pc = pc /\ req'[p].role = req[p].role /\ req'[p].n = req[p].n
        /\ req'[p].seen = req[p].seen
    BY <1>0, <2>1 DEF RequestType
  <2>3. req[p].pc = "admitted" /\ Paired(p) /\ req[p].role # "alone" /\ ~req[p].seen.taken
        /\ pg' = pg
    BY <1>3 DEF GroupAdmitted, Sized
  <2>4. Sized(p, req'[p])
    BY <2>1, <2>2, <2>3 DEF Sized
  <2>5. Vouched(p, req[p])'
    <3>1. Recorded(GroupOf[p])' = Recorded(GroupOf[p])
      BY <2>3 DEF Recorded
    <3>. QED BY <2>1, <2>2, <2>3, <3>1 DEF Vouched, Checked
  <2>6. Moves(p, req[p], req'[p])
    <3>1. req'[p].seen = req[p].seen /\ req'[p].pc \in {"resize", "pods"} /\ ~req[p].seen.taken
      BY <2>1, <2>2, <2>3
    <3>. QED BY <3>1 DEF Moves
  <2>. QED BY <2>4, <2>5, <2>6
<1>4. CASE ListPods(p, TRUE)
  <2>1. req' = [req EXCEPT ![p].pc = "groups", ![p].seen = Reading]
    BY <1>4 DEF ListPods
  <2>2. /\ req'[p].pc = "groups" /\ req'[p].role = req[p].role /\ req'[p].n = req[p].n
        /\ req'[p].seen = Reading
    BY <1>0, <2>1 DEF RequestType
  <2>3. req[p].pc = "pods" /\ Reading.taken = TRUE
    BY <1>4 DEF ListPods, Reading
  <2>. QED BY <1>4, <2>2, <2>3 DEF Sized, Vouched, Moves, Checked
<1>5. CASE Admit(p, TRUE)
  <2> DEFINE over == Want(p) + Promised(req[p].seen) > Reachable(req[p].seen)
  <2>1. PICK pc : /\ req' = [req EXCEPT ![p].seen = [NoReading EXCEPT !.taken = TRUE], ![p].pc = pc]
                  /\ pc = IF over THEN "refused" ELSE "resize"
    BY <1>5 DEF Admit
  <2>2. /\ req'[p].pc = pc /\ req'[p].role = req[p].role /\ req'[p].n = req[p].n
        /\ req'[p].seen = [NoReading EXCEPT !.taken = TRUE]
    BY <1>0, <2>1 DEF RequestType
  <2>3. [NoReading EXCEPT !.taken = TRUE].taken
    BY DEF NoReading
  <2>4. req[p].pc = "groups" /\ req[p].role # "alone" /\ pg' = pg /\ pod' = pod
    BY <1>5 DEF Admit, Sized
  <2>5. \/ req'[p].pc = "refused"
        \/ req'[p].pc = "resize" /\ ~(Want(p) + Promised(req[p].seen) > Reachable(req[p].seen))
    BY <2>1, <2>2
  <2>. HIDE DEF over
  <2>6. Sized(p, req'[p])
    BY <2>2, <2>4, <2>5 DEF Sized
  <2>7. Vouched(p, req[p])'
    BY <2>2, <2>3 DEF Vouched
  <2>8. Moves(p, req[p], req'[p])
    BY <2>2, <2>4, <2>5 DEF Moves, Checked
  <2>. QED BY <2>6, <2>7, <2>8
<1>. QED BY <1>1, <1>2, <1>3, <1>4, <1>5

LEMMA RecordStays ==
  ASSUME TypeOK, RecordsExist, NEW p \in Pods, Request(p), NEW g \in Groups, Recorded(g) > 0
  PROVE  Recorded(g)' > 0
<1> DEFINE x == <<g, "gang">>
<1>1. pg[x].exists /\ pg[x] \in PodGroupType
  BY DEF RecordsExist, TypeOK, PodGroups
<1>2. CASE pg'[x] = pg[x]
  BY <1>2 DEF Recorded
<1>3. CASE pg'[x] = [pg[x] EXCEPT !.cores = Want(p)]
  BY <1>1, <1>3, WantType DEF Recorded, PodGroupType
<1>. QED BY <1>1, <1>2, <1>3, RequestRecord

LEMMA MutateMoves ==
  ASSUME TypeOK, RecordsExist, NEW p \in Pods, Sized(p, req[p]), Vouched(p, req[p]),
         \/ EnsureGang(p, TRUE) \/ ReadRecord(p, TRUE) \/ PatchRecord(p, TRUE)
         \/ Elect(p, TRUE) \/ EnsureScout(p, TRUE) \/ GangHandler(p, TRUE, TRUE) \/ Answer(p)
  PROVE  Sized(p, req'[p]) /\ Vouched(p, req[p])' /\ Moves(p, req[p], req'[p])
<1>0. req[p] \in RequestType /\ DOMAIN req = Pods /\ Request(p)
  BY DEF TypeOK, Request, Step
<1>1. Recorded(GroupOf[p]) > 0 /\ Paired(p) => Recorded(GroupOf[p])' > 0
  <2>1. Paired(p) => GroupOf[p] \in Groups
    BY ConstantsAssumption DEF Paired
  <2>. QED BY <1>0, <2>1, RecordStays
<1>2. CASE EnsureGang(p, TRUE)
  <2> DEFINE pc == CASE req[p].pc = "ensure" -> "read"
                     [] req[p].pc = "workers" /\ p \in Labelled -> "gang"
                     [] OTHER -> "answer"
  <2>1. \/ req[p].pc = "ensure" /\ pc = "read"
        \/ req[p].pc = "workers" /\ pc \in {"gang", "answer"}
    BY <1>2 DEF EnsureGang
  <2>2. req' = [req EXCEPT ![p].pc = pc]
    BY <1>2 DEF EnsureGang, Goto
  <2>. HIDE DEF pc
  <2>3. /\ req'[p].pc = pc /\ req'[p].role = req[p].role /\ req'[p].n = req[p].n
        /\ req'[p].seen = req[p].seen
    BY <1>0, <2>2 DEF RequestType
  <2>4. req[p].role # "alone"
    BY <2>1 DEF Sized
  <2>5. Sized(p, req'[p])
    BY <2>1, <2>3, <2>4 DEF Sized
  <2>6. Vouched(p, req[p])'
    BY <1>1, <2>1, <2>3, <2>4 DEF Vouched, Checked
  <2>7. (Checked(req'[p]) => Checked(req[p])) /\ req'[p].pc # "groups"
    BY <2>1, <2>3, <2>4 DEF Checked
  <2>. QED BY <2>3, <2>5, <2>6, <2>7 DEF Moves
<1>3. CASE ReadRecord(p, TRUE)
  <2>1. PICK pc : req' = [req EXCEPT ![p].pc = pc]
          /\ pc \in {"patch", "elect"} /\ (pc = "patch" => Recorded(GroupOf[p]) = 0)
    <3> DEFINE x == <<GroupOf[p], "gang">>
               c == IF TRUE /\ pg[x].exists /\ pg[x].cores = 0 THEN "patch" ELSE "elect"
    <3>1. req' = [req EXCEPT ![p].pc = c]
      BY <1>3 DEF ReadRecord, Goto
    <3>2. c \in {"patch", "elect"} /\ (c = "patch" => Recorded(GroupOf[p]) = 0)
      BY DEF Recorded
    <3>. HIDE DEF c
    <3>. QED BY <3>1, <3>2
  <2>2. /\ req'[p].pc = pc /\ req'[p].role = req[p].role /\ req'[p].n = req[p].n
        /\ req'[p].seen = req[p].seen
    BY <1>0, <2>1 DEF RequestType
  <2>3. req[p].role # "alone" /\ req[p].pc = "read"
    BY <1>3 DEF Sized, ReadRecord
  <2>4. Sized(p, req'[p])
    BY <2>1, <2>2, <2>3 DEF Sized
  <2>5. pc = "patch" => req[p].seen.taken
    BY <2>1, <2>3 DEF Vouched, Checked
  <2>6. Vouched(p, req[p])'
    BY <2>1, <2>2, <2>3, <2>5 DEF Vouched, Checked
  <2>7. (Checked(req'[p]) => Checked(req[p])) /\ req'[p].pc # "groups"
    BY <2>1, <2>2, <2>3 DEF Checked
  <2>. QED BY <2>2, <2>4, <2>6, <2>7 DEF Moves
<1>4. CASE PatchRecord(p, TRUE) \/ Elect(p, TRUE) \/ EnsureScout(p, TRUE)
           \/ GangHandler(p, TRUE, TRUE)
  <2>1. req[p].role # "alone"
    BY <1>4 DEF Sized, PatchRecord, Elect, EnsureScout, GangHandler
  <2>2. PICK pc, role :
          /\ req' = [req EXCEPT ![p].role = role, ![p].pc = pc] \/
             (req' = [req EXCEPT ![p].pc = pc] /\ role = req[p].role)
          /\ pc \in {"elect", "scoutGroup", "workers", "answer"}
          /\ role \in {req[p].role, "scout", "worker"}
    <3>1. CASE Elect(p, TRUE)
      BY <3>1 DEF Elect
    <3>2. CASE PatchRecord(p, TRUE) \/ EnsureScout(p, TRUE) \/ GangHandler(p, TRUE, TRUE)
      BY <3>2 DEF PatchRecord, EnsureScout, GangHandler, Goto
    <3>. QED BY <1>4, <3>1, <3>2
  <2>3. /\ req'[p].pc = pc /\ req'[p].role = role /\ req'[p].seen = req[p].seen
    BY <1>0, <2>2 DEF RequestType
  <2>4. ~Checked(req'[p]) /\ req'[p].pc # "groups"
    BY <2>1, <2>2, <2>3 DEF Checked
  <2>5. Sized(p, req'[p])
    BY <2>1, <2>2, <2>3 DEF Sized
  <2>. QED BY <2>3, <2>4, <2>5 DEF Vouched, Moves
<1>5. CASE Answer(p)
  <2>1. req'[p].pc = "over" /\ req'[p].role = "none" /\ req'[p].seen = NoReading
    BY <1>0, <1>5 DEF Answer, Handled, IdleReq
  <2>. QED BY <2>1 DEF Sized, Vouched, Moves, Checked
<1>. QED BY <1>2, <1>3, <1>4, <1>5

LEMMA RequestMoves ==
  ASSUME TypeOK, FixedSizes, RecordsExist, NEW p \in Pods, Request(p), faults' = 0,
         Sized(p, req[p]), Vouched(p, req[p])
  PROVE  Sized(p, req'[p]) /\ Vouched(p, req[p])' /\ Moves(p, req[p], req'[p])
<1>1. \A ok \in BOOLEAN : Call(ok) => ok
  BY CallType
<1>2. ASSUME NEW ok \in BOOLEAN, Step(p, ok) PROVE Step(p, TRUE)
  <2>1. Call(ok)
    BY <1>2 DEF Step, ResolveSize, GroupAdmitted, ListPods, Admit, EnsureGang, ReadRecord,
       PatchRecord, Elect, EnsureScout
  <2>2. ok = TRUE
    BY <1>1, <2>1
  <2>. QED BY <1>2, <2>2
<1>3. ASSUME NEW sized \in BOOLEAN, NEW ok \in BOOLEAN, GangHandler(p, sized, ok)
      PROVE  GangHandler(p, TRUE, TRUE)
  <2>1. Call(sized /\ ok)
    BY <1>3 DEF GangHandler
  <2>2. sized = TRUE /\ ok = TRUE
    BY <1>1, <2>1
  <2>. QED BY <1>3, <2>2
<1>4. ~LoseAnswer(p) /\ ~TimeOut(p)
  BY <1>1 DEF LoseAnswer, TimeOut
<1>5. Arrive(p) \/ Step(p, TRUE) \/ GangHandler(p, TRUE, TRUE) \/ Answer(p)
  BY <1>2, <1>3, <1>4 DEF Request
<1>. QED BY <1>5, DecideMoves, MutateMoves DEF Step

LEMMA CheckedInFlight ==
  ASSUME NEW p \in Pods, Sized(p, req[p]), Checked(req[p])
  PROVE  InFlight(p)
BY DEF Sized, Checked, InFlight, Deciding, Mutating

\* What is recorded grows by what one request asked for, when it has been let
\* through by its own reading, and not otherwise.
LEMMA RequestEffect ==
  ASSUME TypeOK, TypeOK', RequestInv, RecordsExist, NEW p \in Pods, Request(p), faults' = 0,
         Sized(p, req[p]), Vouched(p, req[p])
  PROVE  \/ RecordedCores' <= RecordedCores /\ Alone' \subseteq Alone
         \/ /\ Checked(req[p]) /\ req[p].seen.taken
            /\ RecordedCores' <= RecordedCores + Whole(p)
            /\ ~Checked(req'[p]) /\ req'[p].pc # "groups"
<1>0. req[p] \in RequestType /\ DOMAIN req = Pods /\ DOMAIN pod = Pods
  BY DEF TypeOK
<1>1. \A ok \in BOOLEAN : Call(ok) => ok
  BY CallType
<1>2. pod' = pod \/ Answer(p)
  BY <1>1 DEF Request, Step, Arrive, ResolveSize, GroupAdmitted, ListPods, Admit, EnsureGang,
     ReadRecord, PatchRecord, Elect, EnsureScout, GangHandler, LoseAnswer, TimeOut
<1>3. \A g \in Groups : Recorded(g) \in Nat
  BY RecordedType
<1>4. CASE PatchRecord(p, TRUE)
  <2>1. /\ req[p].pc = "patch" /\ req[p].role # "alone" /\ Paired(p) /\ pod' = pod
        /\ GroupOf[p] # NoGroup /\ req[p].n = Size[p]
    BY <1>4 DEF PatchRecord, Sized, Paired
  <2>2. Checked(req[p]) /\ req[p].seen.taken
    BY <2>1 DEF Vouched, Checked
  <2>3. req'[p].pc = "elect" /\ req'[p].role = req[p].role
    BY <1>0, <1>4 DEF PatchRecord, Goto, RequestType
  <2>4. Want(p) = Whole(p) /\ Whole(p) \in Nat /\ GroupOf[p] \in Groups
    BY <2>1, WantsWhole, WholeType, ConstantsAssumption
  <2>5. \A g \in Groups : \/ Recorded(g)' <= Recorded(g)
                          \/ g = GroupOf[p] /\ Recorded(g)' <= Recorded(g) + Whole(p)
    <3> SUFFICES ASSUME NEW g \in Groups
                 PROVE  \/ Recorded(g)' <= Recorded(g)
                        \/ g = GroupOf[p] /\ Recorded(g)' <= Recorded(g) + Whole(p)
      OBVIOUS
    <3> DEFINE x == <<g, "gang">>
    <3>1. pg[x] \in PodGroupType
      BY DEF TypeOK, PodGroups
    <3>2. CASE pg'[x] = pg[x]
      BY <1>3, <3>2 DEF Recorded
    <3>3. CASE pg'[x].cores = 0
      BY <1>3, <3>3 DEF Recorded
    <3>4. CASE g = GroupOf[p] /\ pg'[x] = [pg[x] EXCEPT !.cores = Want(p)]
      <4>1. Recorded(g)' = Whole(p)
        BY <2>4, <3>1, <3>4 DEF Recorded, PodGroupType
      <4>. QED BY <1>3, <2>4, <3>4, <4>1
    <3>. QED BY <3>2, <3>3, <3>4, RequestRecord
  <2>6. Alone' \subseteq Alone
    BY <2>1 DEF Alone, Standing
  <2>7. RecordedCores' <= RecordedCores + Whole(p)
    <3>1. PICK h \in Groups : h = GroupOf[p]
      BY <2>4
    <3>2. Recorded(h)' <= Recorded(h) + Whole(p)
          /\ \A g \in Groups \ {h} : Recorded(g)' <= Recorded(g)
      <4>1. \A g \in Groups : Recorded(g) \in Nat /\ Recorded(g)' \in Nat
        BY DEF Recorded, TypeOK, PodGroupType, PodGroups
      <4>. QED BY <2>4, <2>5, <3>1, <4>1
    <3>. QED BY <2>4, <2>6, <3>2, RecordsGrow
  <2>. QED BY <2>1, <2>2, <2>3, <2>7 DEF Checked
<1>5. CASE ~PatchRecord(p, TRUE)
  <2>1. \A g \in Groups : Recorded(g)' <= Recorded(g)
    <3>1. ASSUME NEW g \in Groups
          PROVE  Recorded(g)' = Recorded(g) \/ Recorded(g)' = 0
      BY <1>5, RequestRecord DEF Recorded
    <3>. QED BY <1>3, <3>1
  <2>2. CASE Alone' \subseteq Alone
    BY <2>1, <2>2, AloneGrows
  <2>3. CASE ~(Alone' \subseteq Alone)
    <3>1. Answer(p)
      BY <1>2, <2>3 DEF Alone, Standing
    <3>2. pod' = [pod EXCEPT ![p] = [phase |-> "stored", role |-> req[p].role]]
      BY <3>1 DEF Answer
    <3>3. Alone' \subseteq Alone \cup {p}
      BY <1>0, <3>2 DEF Alone, Standing
    <3>4. req[p].role = "alone"
      <4>1. pod'[p].role = req[p].role
        BY <1>0, <3>2
      <4>2. p \in Alone'
        BY <2>3, <3>3
      <4>. QED BY <4>1, <4>2 DEF Alone
    <3>5. Checked(req[p]) /\ ~Paired(p) /\ req[p].seen.taken
      BY <3>4 DEF Sized, Vouched, Checked
    <3>6. RecordedCores' <= RecordedCores + Whole(p)
      BY <2>1, <3>3, <3>5, WholeType, AloneGrows
    <3>7. req'[p].pc = "over" /\ req'[p].role = "none"
      BY <1>0, <3>1 DEF Answer, Handled, IdleReq
    <3>. QED BY <3>5, <3>6, <3>7 DEF Checked
  <2>. QED BY <2>2, <2>3
<1>. QED BY <1>4, <1>5

\* A reading stays good while nothing joins what it is judged by.
LEMMA FreshStays ==
  ASSUME TypeOK, TypeOK', RequestInv, [Next]_vars, NEW r \in RequestType, Fresh(r),
         r.pc = "groups" => Alone' \subseteq Alone,
         running' \cap High \subseteq running
  PROVE  Fresh(r)'
<1> SUFFICES ASSUME r.pc = "groups" PROVE Fresh(r)'
  BY DEF Fresh
<1>1. PICK S \in SUBSET Pods : S = r.seen.bound
  BY DEF RequestType, ReadingType
<1>2. \A q \in S : pod[q].phase # "none"
  BY <1>1 DEF Fresh
<1>3. \A q \in S : pod'[q].phase # "none" /\ pod'[q].role = pod[q].role
  BY <1>2, PodsKept
<1>4. CountedSum(S)' = CountedSum(S)
  BY <1>3, CountedSame
<1>5. CountedSum(S) + Cardinality(r.seen.classical) <= Allocatable
  BY <1>1 DEF Fresh
<1>6. Alone' \subseteq r.seen.stored /\ running' \cap High \subseteq r.seen.classical
  BY DEF Fresh
<1>7. CountedSum(r.seen.bound)' + Cardinality(r.seen.classical) <= Allocatable
  BY <1>1, <1>4, <1>5
<1>. QED BY <1>1, <1>3, <1>6, <1>7 DEF Fresh

LEMMA RequestBudget ==
  ASSUME TypeOK, TypeOK', RequestInv, FixedSizes, BudgetInv, Used' <= Allocatable,
         NEW p \in Pods, Request(p), Undisturbed'
  PROVE  (OneReader /\ Fit /\ \A q \in Pods : InOrder(q, req[q]))'
<1>0. [Next]_vars
  BY DEF Next
<1>1. /\ Undisturbed /\ faults' = 0 /\ ~overlapped' /\ RecordsExist /\ OneReader /\ Fit
      /\ \A q \in Pods : /\ Sized(q, req[q]) /\ Vouched(q, req[q]) /\ Fresh(req[q])
                         /\ Room(q, req[q]) /\ req[q] \in RequestType
  BY RequestFrame DEF Undisturbed, BudgetInv, InOrder, TypeOK
<1>2. Sized(p, req'[p]) /\ Vouched(p, req[p])' /\ Moves(p, req[p], req'[p])
  BY <1>1, RequestMoves
<1>3. running' = running /\ HighRunning' = HighRunning
  <2>1. running' = running
    BY DEF Request, Step, Arrive, ResolveSize, GroupAdmitted, ListPods, Admit, EnsureGang,
       ReadRecord, PatchRecord, Elect, EnsureScout, GangHandler, Answer, LoseAnswer, TimeOut
  <2>. QED BY <2>1 DEF HighRunning
<1>4. /\ RecordedCores \in Nat /\ RecordedCores' \in Nat /\ HighRunning \in Nat
      /\ \A q \in Pods : Whole(q) \in Nat
  BY RecordedType, RecordedTypeThen, HighType, WholeType
<1>5. \/ RecordedCores' <= RecordedCores /\ Alone' \subseteq Alone
      \/ /\ Checked(req[p]) /\ req[p].seen.taken
         /\ RecordedCores' <= RecordedCores + Whole(p)
         /\ ~Checked(req'[p]) /\ req'[p].pc # "groups"
  BY <1>1, RequestEffect
<1>6. Fit'
  <2>1. CASE RecordedCores' <= RecordedCores
    <3>1. RecordedCores + HighRunning <= Allocatable
      BY <1>1 DEF Fit
    <3>2. RecordedCores' + HighRunning' <= Allocatable
      <4>1. Allocatable \in Nat
        BY ConstantsAssumption
      <4>2. HighRunning' <= HighRunning /\ HighRunning' \in Nat
        BY <1>3, <1>4
      <4>. QED BY <1>4, <2>1, <3>1, <4>1, <4>2, NoMore
    <3>. QED BY <3>2 DEF Fit
  <2>2. CASE Checked(req[p]) /\ req[p].seen.taken /\ RecordedCores' <= RecordedCores + Whole(p)
    <3>1. Whole(p) + RecordedCores + HighRunning <= Allocatable
      BY <1>1, <2>2 DEF Room
    <3>2. PICK most \in Nat : most = RecordedCores + Whole(p)
      BY <1>4
    <3>3. RecordedCores' <= most /\ most + HighRunning <= Allocatable
      BY <1>4, <2>2, <3>1, <3>2
    <3>4. HighRunning' <= HighRunning /\ HighRunning' \in Nat /\ Allocatable \in Nat
      BY <1>3, <1>4, ConstantsAssumption
    <3>5. RecordedCores' + HighRunning' <= Allocatable
      BY <1>4, <3>3, <3>4, NoMore
    <3>. QED BY <3>5 DEF Fit
  <2>. QED BY <1>5, <2>1, <2>2
<1>7. ASSUME NEW q \in Pods, q # p PROVE req'[q] = req[q] /\ (InFlight(q)' <=> InFlight(q))
  BY <1>7, RequestFrame DEF InFlight
<1>8. OneReader'
  <2>1. ASSUME NEW q \in Pods, q # p, InFlight(q), req[q].seen.taken, InFlight(p)',
               req'[p].seen.taken
        PROVE  FALSE
    <3>1. CASE InFlight(p) /\ req[p].seen.taken
      BY <1>1, <2>1, <3>1 DEF OneReader
    <3>2. CASE ListPods(p, TRUE)
      BY <1>1, <2>1, <3>2 DEF ListPods
    <3>3. CASE req'[p].seen = NoReading
      BY <2>1, <3>3 DEF NoReading
    <3>4. CASE req'[p].seen = req[p].seen
      <4>1. InFlight(p) \/ Arrive(p)
        BY DEF Request, Step, Arrive, ResolveSize, GroupAdmitted, ListPods, Admit, EnsureGang,
           ReadRecord, PatchRecord, Elect, EnsureScout, GangHandler, Answer, LoseAnswer, TimeOut,
           InFlight, Deciding, Mutating
      <4>2. Arrive(p) => req'[p].seen = NoReading
        BY DEF Arrive, TypeOK, IdleReq
      <4>. QED BY <2>1, <3>1, <3>3, <3>4, <4>1, <4>2
    <3>5. CASE req[p].pc = "groups"
      <4>1. InFlight(p) /\ req[p].seen.taken
        BY <1>1, <3>5 DEF Sized, InFlight, Deciding
      <4>. QED BY <3>1, <4>1
    <3>. QED BY <1>2, <3>2, <3>3, <3>4, <3>5 DEF Moves
  <2>. QED BY <1>1, <1>7, <2>1 DEF OneReader
<1>9. ASSUME NEW q \in Pods, q # p PROVE InOrder(q, req[q])'
  <2>1. PICK r \in RequestType : r = req[q]
    BY <1>1
  <2>2. req'[q] = r /\ Sized(q, r) /\ Vouched(q, r) /\ Fresh(r) /\ Room(q, r)
    BY <1>1, <1>7, <1>9, <2>1
  <2>3. (Checked(r) \/ r.pc = "groups") /\ r.seen.taken =>
           RecordedCores' <= RecordedCores /\ Alone' \subseteq Alone
    <3>1. (Checked(r) \/ r.pc = "groups") => InFlight(q)
      BY <1>1, <2>1, CheckedInFlight DEF InFlight, Deciding
    <3>2. Checked(req[p]) => InFlight(p)
      BY <1>1, CheckedInFlight
    <3>. QED BY <1>1, <1>5, <1>9, <2>1, <3>1, <3>2 DEF OneReader
  <2>4. Vouched(q, r)'
    <3>1. Paired(q) => GroupOf[q] \in Groups
      BY ConstantsAssumption DEF Paired
    <3>2. Paired(q) /\ Recorded(GroupOf[q]) > 0 => Recorded(GroupOf[q])' > 0
      BY <1>1, <3>1, RecordStays
    <3>. QED BY <2>2, <3>2 DEF Vouched
  <2>5. Fresh(r)'
    <3>1. r.pc = "groups" => Alone' \subseteq Alone
      BY <2>2, <2>3 DEF Sized
    <3>. QED BY <1>0, <1>3, <2>2, <3>1, FreshStays
  <2>6. Room(q, r)'
    BY <1>3, <1>4, <2>2, <2>3, ConstantsAssumption DEF Room
  <2>7. InOrder(q, r)'
    BY <2>2, <2>4, <2>5, <2>6 DEF InOrder
  <2>. QED BY <2>2, <2>7 DEF InOrder, Vouched, Fresh, Room, CountedSum
<1>10. Fresh(req[p])'
  <2>1. CASE req'[p].pc # "groups"
    BY <2>1 DEF Fresh
  <2>2. CASE req'[p].pc = "groups"
    <3>1. ListPods(p, TRUE) /\ req'[p].seen = Reading
      BY <1>2, <2>2 DEF Moves
    <3>2. pod' = pod /\ Bound' = Bound
      BY <3>1 DEF ListPods, Bound
    <3>3. /\ req'[p].seen.bound = Bound' /\ req'[p].seen.classical = running'
          /\ req'[p].seen.stored = Alone'
      BY <1>3, <3>1, <3>2 DEF Reading, Alone, Standing
    <3>4. (CountedSum(req[p].seen.bound) + Cardinality(req[p].seen.classical))' <= Allocatable
      BY <3>3 DEF Used, CountedSum
    <3>5. \A x \in Bound' : pod'[x].phase # "none"
      BY DEF Bound
    <3>. QED BY <3>3, <3>4, <3>5 DEF Fresh
  <2>. QED BY <2>1, <2>2
<1>11. Room(p, req[p])'
  <2>1. CASE ~(Checked(req'[p]) /\ req'[p].seen.taken)
    BY <2>1 DEF Room
  <2>2. CASE Checked(req'[p]) /\ req'[p].seen.taken
    <3>1. RecordedCores' <= RecordedCores
      BY <1>5, <2>2
    <3>2. Whole(p) + RecordedCores + HighRunning <= Allocatable
      <4>1. CASE req'[p].seen = req[p].seen /\ (Checked(req[p]) \/ ~req[p].seen.taken)
        BY <1>1, <2>2, <4>1 DEF Room
      <4>2. CASE req[p].pc = "groups" /\ ~(Want(p) + Promised(req[p].seen) > Reachable(req[p].seen))
        <5>1. PICK seen \in ReadingType : seen = req[p].seen
          BY <1>1 DEF RequestType
        <5>2. /\ CountedSum(seen.bound) + Cardinality(seen.classical) <= Allocatable
              /\ Alone \subseteq seen.stored /\ running \cap High \subseteq seen.classical
          BY <1>1, <4>2, <5>1 DEF Fresh
        <5>3. Want(p) = Whole(p)
          BY <1>1, <4>2, WantsWhole DEF Sized
        <5>4. ~(Whole(p) + Promised(seen) > Reachable(seen))
          BY <4>2, <5>1, <5>3
        <5>. QED BY <1>4, <5>2, <5>4, Judged
      <4>. QED BY <1>2, <2>2, <4>1, <4>2 DEF Moves
    <3>. QED BY <1>3, <1>4, <3>1, <3>2, ConstantsAssumption DEF Room
  <2>. QED BY <2>1, <2>2
<1>12. InOrder(p, req[p])'
  <2>1. Sized(p, req[p])'
    BY <1>2 DEF Sized
  <2>. QED BY <1>2, <1>10, <1>11, <2>1 DEF InOrder
<1>. QED BY <1>6, <1>8, <1>9, <1>12

LEMMA ClusterBudget ==
  ASSUME TypeOK, TypeOK', RequestInv, BudgetInv, Cluster \/ UNCHANGED vars, Undisturbed'
  PROVE  (OneReader /\ Fit /\ \A q \in Pods : InOrder(q, req[q]))'
<1>0. [Next]_vars
  BY DEF Next
<1>1. /\ req' = req /\ Undisturbed
      /\ running' \cap High \subseteq running \cap High
      /\ Alone' \subseteq Alone
      /\ \/ pg' = pg
         \/ \E x \in PodGroups : Reap(x)
  <2>1. ASSUME NEW p \in Pods, Bind(p) \/ Finish(p) \/ Delete(p)
        PROVE  /\ UNCHANGED <<req, pg, overlapped, faults>> /\ Alone' \subseteq Alone
               /\ running' \subseteq running
    <3>1. UNCHANGED <<req, pg, overlapped, faults>> /\ running' \subseteq running
      BY <2>1 DEF Bind, Finish, Delete
    <3>2. \A q \in Pods : q \in Standing' => q \in Standing /\ pod'[q].role = pod[q].role
      BY <2>1 DEF Bind, Finish, Delete, Standing, TypeOK
    <3>3. Alone' \subseteq Alone
      BY <3>2 DEF Alone, Standing
    <3>. QED BY <3>1, <3>3
  <2>2. ASSUME NEW c \in Classical, StartClassical(c) \/ FinishClassical(c)
        PROVE  /\ UNCHANGED <<req, pg, pod, overlapped, faults>>
               /\ running' \cap High \subseteq running \cap High
    BY <2>2 DEF StartClassical, FinishClassical
  <2>3. ASSUME NEW x \in PodGroups, Reap(x)
        PROVE  UNCHANGED <<req, pod, running, faults>> /\ (overlapped => overlapped')
    BY <2>3 DEF Reap
  <2>4. pod' = pod => Alone' = Alone
    BY DEF Alone, Standing
  <2>. QED BY <2>1, <2>2, <2>3, <2>4 DEF Cluster, Undisturbed, vars
<1>2. /\ OneReader /\ Fit
      /\ \A q \in Pods : /\ Sized(q, req[q]) /\ Vouched(q, req[q]) /\ Fresh(req[q])
                         /\ Room(q, req[q]) /\ req[q] \in RequestType
  BY <1>1 DEF BudgetInv, InOrder, TypeOK
<1>3. HighRunning' <= HighRunning /\ HighRunning \in Nat /\ HighRunning' \in Nat
  <2>1. HighRunning \in Nat /\ IsFiniteSet(running \cap High)
    BY HighType
  <2>. QED BY <1>1, <2>1, FS_Subset, FS_CardinalityType DEF HighRunning
<1>4. \A g \in Groups : /\ Recorded(g)' <= Recorded(g) /\ Recorded(g) \in Nat
                        /\ Recorded(g)' \in Nat
  <2>1. \A g \in Groups : Recorded(g) \in Nat /\ Recorded(g)' \in Nat
    BY DEF Recorded, TypeOK, PodGroupType, PodGroups
  <2>2. CASE pg' = pg
    <3>1. \A g \in Groups : Recorded(g)' = Recorded(g) \/ Recorded(g)' = 0
      BY <2>2 DEF Recorded
    <3>. QED BY <2>1, <3>1
  <2>3. ASSUME NEW x \in PodGroups, Reap(x), NEW g \in Groups
        PROVE  Recorded(g)' = Recorded(g) \/ Recorded(g)' = 0
    <3>1. <<g, "gang">> \in PodGroups
      BY DEF PodGroups
    <3>. QED BY <2>3, <3>1 DEF Reap, Recorded
  <2>4. CASE \E x \in PodGroups : Reap(x)
    <3>1. \A g \in Groups : Recorded(g)' = Recorded(g) \/ Recorded(g)' = 0
      BY <2>3, <2>4
    <3>. QED BY <2>1, <3>1
  <2>. QED BY <1>1, <2>2, <2>4
<1>5. RecordedCores' <= RecordedCores /\ RecordedCores \in Nat /\ RecordedCores' \in Nat
  <2>1. Alone' \subseteq Alone \cup {NoGroup}
    BY <1>1
  <2>2. RecordedCores' <= RecordedCores
    BY <1>1, <1>4, <2>1, AloneGrows
  <2>. QED BY <2>2, RecordedType, RecordedTypeThen
<1>6. Fit'
  <2>1. RecordedCores + HighRunning <= Allocatable /\ Allocatable \in Nat
    BY <1>2, ConstantsAssumption DEF Fit
  <2>2. RecordedCores' + HighRunning' <= Allocatable
    BY <1>3, <1>5, <2>1, NoMore
  <2>. QED BY <2>2 DEF Fit
<1>7. OneReader'
  BY <1>1, <1>2 DEF OneReader, InFlight
<1>8. ASSUME NEW q \in Pods PROVE InOrder(q, req[q])'
  <2>1. PICK r \in RequestType : r = req[q]
    BY <1>2
  <2>2. req'[q] = r /\ Sized(q, r) /\ Vouched(q, r) /\ Fresh(r) /\ Room(q, r)
    BY <1>1, <1>2, <2>1
  <2>3. Vouched(q, r)'
    <3>1. Checked(r) => InFlight(q)
      BY <1>2, <2>1, CheckedInFlight
    <3>2. ASSUME InFlight(q), GroupOf[q] \in Groups
          PROVE  Recorded(GroupOf[q])' = Recorded(GroupOf[q])
      <4> DEFINE y == <<GroupOf[q], "gang">>
      <4>1. y \in PodGroups
        BY <3>2 DEF PodGroups
      <4>2. ASSUME NEW x \in PodGroups, Reap(x) PROVE pg'[y] = pg[y]
        <5>1. x[1] # GroupOf[q]
          BY <3>2, <4>2 DEF Reap, Undisturbed
        <5>. QED BY <4>1, <4>2, <5>1 DEF Reap
      <4>. QED BY <1>1, <4>2 DEF Recorded
    <3>3. Paired(q) => GroupOf[q] \in Groups
      BY ConstantsAssumption DEF Paired
    <3>. QED BY <2>2, <3>1, <3>2, <3>3 DEF Vouched
  <2>4. Fresh(r)'
    BY <1>0, <1>1, <2>2, FreshStays
  <2>5. Room(q, r)'
    <3>1. Whole(q) \in Nat
      BY WholeType
    <3>. QED BY <1>3, <1>5, <2>2, <3>1, ConstantsAssumption DEF Room
  <2>6. InOrder(q, r)'
    BY <2>2, <2>3, <2>4, <2>5 DEF InOrder
  <2>. QED BY <2>2, <2>6 DEF InOrder, Vouched, Fresh, Room, CountedSum
<1>. QED BY <1>6, <1>7, <1>8

LEMMA BudgetInit ==
  ASSUME Cardinality(High) <= Allocatable, Init
  PROVE  BudgetInv
<1>1. TypeOK
  BY TypeInit
<1>2. \A g \in Groups : Recorded(g) = 0 /\ <<g, "gang">> \in PodGroups
  BY DEF Init, Recorded, PodGroups
<1>3. Alone = {} /\ running \cap High = High
  BY DEF Init, Alone, Standing
<1>4. RecordedCores = 0
  <2>1. RecordedCores = SumFunctionOnSet([g \in Groups |-> Recorded(g)], Groups)
                        + SumFunctionOnSet(Cores, Alone)
    BY <1>1, RecordedType
  <2>2. SumFunctionOnSet([g \in Groups |-> Recorded(g)], Groups) = 0
    <3>1. \A g \in Groups : [h \in Groups |-> Recorded(h)][g] = 0
      BY <1>2
    <3>. QED BY <3>1, SumZero, ConstantsAssumption
  <2>3. SumFunctionOnSet(Cores, {}) = 0
    BY SumEmpty
  <2>. QED BY <1>3, <2>1, <2>2, <2>3
<1>5. Fit
  <2>1. Cardinality(High) \in Nat
    BY FS_Subset, FS_CardinalityType, ConstantsAssumption
  <2>2. HighRunning = Cardinality(High)
    BY <1>3 DEF HighRunning
  <2>. QED BY <1>4, <2>1, <2>2 DEF Fit
<1>6. \A p \in Pods : req[p] = IdleReq
  BY DEF Init
<1>7. OneReader
  BY <1>6 DEF OneReader, IdleReq, NoReading
<1>8. \A p \in Pods : InOrder(p, req[p])
  <2>1. IdleReq.pc = "new" /\ IdleReq.role = "none"
    BY DEF IdleReq
  <2>. QED BY <1>6, <2>1 DEF InOrder, Sized, Vouched, Fresh, Room, Checked
<1>. QED BY <1>2, <1>5, <1>7, <1>8, UsedInit DEF BudgetInv, RecordsExist

LEMMA BudgetNext ==
  ASSUME FixedSizes
  PROVE  TypeOK /\ TypeOK' /\ RequestInv /\ BudgetInv /\ [Next]_vars => BudgetInv'
<1> SUFFICES ASSUME TypeOK, TypeOK', RequestInv, BudgetInv, [Next]_vars PROVE BudgetInv'
  OBVIOUS
<1>1. Used' <= Allocatable
  BY UsedNext DEF BudgetInv
<1>2. RecordsExist'
  BY RecordsExistNext DEF BudgetInv
<1>3. Undisturbed' => (OneReader /\ Fit /\ \A q \in Pods : InOrder(q, req[q]))'
  BY <1>1, RequestBudget, ClusterBudget DEF Next
<1>. QED BY <1>1, <1>2, <1>3 DEF BudgetInv

(* What is recorded as admitted and what runs above the preemptible ceiling   *)
(* fit on the nodes together, as long as no two requests read the capacity    *)
(* side by side, no record was reaped under a request that had found it and   *)
(* no call failed, whatever is held in reserve, for every number of pods,     *)
(* gangs and cores: provided that what runs at first fits and that no gang's  *)
(* size is counted from the pods there are.                                   *)
THEOREM RecordsFit ==
  ASSUME FixedSizes, Cardinality(High) <= Allocatable
  PROVE  Spec => [](Undisturbed => RecordedCores + Cardinality(running \cap High) <= Allocatable)
<1>1. BudgetInv => (Undisturbed => RecordedCores + Cardinality(running \cap High) <= Allocatable)
  BY DEF BudgetInv, Fit, HighRunning
<1>2. Init => BudgetInv
  BY BudgetInit
<1>3. TypeOK /\ TypeOK' /\ RequestInv /\ BudgetInv /\ [Next]_vars => BudgetInv'
  BY BudgetNext
<1>4. Spec => [](TypeOK /\ RequestInv /\ ClaimInv)
  BY TypeInit, TypeNext, ClaimInit, ClaimNext, PTL DEF Spec
<1>. QED BY <1>1, <1>2, <1>3, <1>4, PTL DEF Spec

(* With nothing in reserve that is the budget Capacity works with.            *)
THEOREM RecordsBudgeted ==
  ASSUME FixedSizes, Cardinality(High) <= Allocatable, Reserve = 0
  PROVE  Spec => []RecordsWithinBudget
<1>1. Budget = Allocatable
  <2>1. Allocatable - Reserve = Allocatable /\ Allocatable \in Int /\ Allocatable >= 0
    BY ConstantsAssumption
  <2>. QED BY <2>1, PositiveOf DEF Budget
<1>2. (Undisturbed => RecordedCores + Cardinality(running \cap High) <= Allocatable)
        => RecordsWithinBudget
  BY <1>1 DEF Undisturbed, RecordsWithinBudget
<1>. QED BY <1>2, RecordsFit, PTL
=============================================================================
