------------------------- MODULE CoordinationProofs -------------------------
(***************************************************************************)
(* What the sidecar protocol keeps for every number of workers: when the   *)
(* gates go, when the session goes, and what a sidecar that gives up knows. *)
(***************************************************************************)
EXTENDS Coordination, TLAPS

-----------------------------------------------------------------------------
(* Types.                                                                   *)

LEMMA TypeInit == Init => TypeOK
BY ConstantsAssumption DEF Init, TypeOK, Confs, AppPcs, TaskStates, SideType, SidePcs,
   WorkerType, Waits, Quantum, Foreign

LEMMA CallType ==
  ASSUME TypeOK, NEW ok \in BOOLEAN, Call(ok)
  PROVE  faults' \in Nat
BY DEF TypeOK, Call

LEMMA AppType ==
  ASSUME TypeOK, AppStep \/ HoldExpires \/ Kill
  PROVE  TypeOK'
<1> USE DEF TypeOK, AppPcs, TaskStates
<1>1. ASSUME NEW ok \in BOOLEAN, Acquire(ok) PROVE TypeOK'
  BY <1>1 DEF Acquire
<1>2. ASSUME NEW ok \in BOOLEAN, Publish(ok) PROVE TypeOK'
  BY <1>2, CallType DEF Publish
<1>3. ASSUME NEW ok \in BOOLEAN, Exit(ok) PROVE TypeOK'
  BY <1>3, CallType DEF Exit, ExitMarker
<1>4. CASE Submit \/ SkipSubmit \/ BeginRelease \/ HoldEnds \/ Release
  BY <1>4 DEF Submit, SkipSubmit, BeginRelease, HoldEnds, Release
<1>5. CASE HoldExpires
  BY <1>5 DEF HoldExpires, Expires, Waits
<1>6. CASE Kill
  BY <1>6, CallType DEF Kill
<1>. QED
  BY <1>1, <1>2, <1>3, <1>4, <1>5, <1>6 DEF AppStep

\* A sidecar that moves on to a step other than the lifting stays in type.
LEMMA SideMoves ==
  ASSUME TypeOK, NEW pc \in SidePcs \ {"gate"}, NEW code \in {0, 1}
  PROVE  /\ [side EXCEPT !.pc = pc] \in SideType
         /\ [side EXCEPT !.pc = pc, !.code = code] \in SideType
         /\ [side EXCEPT !.pc = pc, !.found = TRUE] \in SideType
         /\ [side EXCEPT !.pc = pc, !.targets = Gated] \in SideType
BY DEF TypeOK, SideType, Gated, Present

LEMMA NotFoundType ==
  ASSUME TypeOK, NotFound PROVE side' \in SideType
BY SideMoves DEF NotFound, GiveUp, SidePcs

LEMMA VerdictType ==
  ASSUME TypeOK, NEW usable \in BOOLEAN, Verdict(usable)
  PROVE  side' \in SideType
BY SideMoves DEF Verdict, SidePcs

LEMMA SearchType ==
  ASSUME TypeOK, Resolve \/ ReadRecord \/ ReadMarker \/ Search \/ DiscoveryExpires
  PROVE  TypeOK'
<1>1. CASE Resolve
  <2>1. \/ side' = [side EXCEPT !.pc = "exit", !.code = 1]
        \/ side' = [side EXCEPT !.pc = "read"]
        \/ side' = [side EXCEPT !.pc = "marker"]
    <3>1. conf.provider \in {"none", "qrmi", "braket"}
      BY DEF TypeOK, Confs
    <3>. QED BY <1>1, <3>1 DEF Resolve, GiveUp
  <2>2. side' \in SideType
    BY <2>1, SideMoves DEF SidePcs
  <2>. QED BY <1>1, <2>2 DEF Resolve, TypeOK
<1>2. CASE ReadRecord
  BY <1>2, SideMoves DEF ReadRecord, SidePcs, TypeOK
<1>3. CASE ReadMarker
  BY <1>3, SideMoves, NotFoundType DEF ReadMarker, SidePcs, TypeOK
<1>4. CASE Search
  BY <1>4, SideMoves, NotFoundType, CallType DEF Search, SidePcs, TypeOK
<1>5. CASE DiscoveryExpires
  BY <1>5, NotFoundType DEF DiscoveryExpires, Expires, TypeOK, Waits
<1>. QED
  BY <1>1, <1>2, <1>3, <1>4, <1>5

LEMMA PollType ==
  ASSUME TypeOK, NEW fatal \in BOOLEAN, Poll \/ PollError(fatal)
  PROVE  TypeOK'
<1>1. CASE Poll
  <2>1. [side EXCEPT !.errors = 0] \in SideType
    BY ConstantsAssumption DEF TypeOK, SideType
  <2>. QED BY <1>1, <2>1, VerdictType DEF Poll, TypeOK
<1>2. CASE PollError(fatal)
  <2>1. side.errors + 1 # MaxErrors => [side EXCEPT !.errors = @ + 1] \in SideType
    BY ConstantsAssumption DEF TypeOK, SideType
  <2>2. faults' \in Nat
    BY <1>2, CallType DEF PollError
  <2>. QED BY <1>2, <2>1, <2>2, VerdictType DEF PollError, TypeOK
<1>. QED BY <1>1, <1>2

LEMMA WorkerUpdate ==
  ASSUME TypeOK, NEW w \in Workers, NEW v \in WorkerType, worker' = [worker EXCEPT ![w] = v]
  PROVE  worker' \in [Workers -> WorkerType]
BY DEF TypeOK

LEMMA ReleaseType ==
  ASSUME TypeOK,
         \/ List \/ ListExpires \/ Hold \/ WorkersExpires \/ SideKill
         \/ \E ok \in BOOLEAN : Mark(ok)
  PROVE  TypeOK'
<1>1. CASE List \/ Hold
  <2>1. \/ side' = [side EXCEPT !.pc = "annotate", !.targets = Gated]
        \/ side' = [side EXCEPT !.pc = "mark"]
    BY <1>1 DEF List, Hold
  <2>2. side' \in SideType
    BY <2>1, SideMoves DEF SidePcs
  <2>. QED BY <1>1, <2>2 DEF List, Hold, TypeOK
<1>2. CASE ListExpires \/ WorkersExpires
  <2>1. \/ side' = [side EXCEPT !.pc = "hold"]
        \/ side' = [side EXCEPT !.pc = "mark"]
    BY <1>2 DEF ListExpires, WorkersExpires
  <2>2. side' \in SideType
    BY <2>1, SideMoves DEF SidePcs
  <2>. QED BY <1>2, <2>2 DEF ListExpires, WorkersExpires, Expires, Waits, TypeOK
<1>3. CASE SideKill
  BY <1>3, SideMoves, CallType DEF SideKill, GiveUp, SidePcs, TypeOK
<1>4. ASSUME NEW ok \in BOOLEAN, Mark(ok) PROVE TypeOK'
  BY <1>4, SideMoves, CallType DEF Mark, SidePcs, TypeOK
<1>. QED BY <1>1, <1>2, <1>3, <1>4

LEMMA AnnotateType ==
  ASSUME TypeOK, NEW ok \in BOOLEAN, NEW w \in Workers, Annotate(w, ok)
  PROVE  TypeOK'
<1>1. side' \in SideType
  BY ConstantsAssumption DEF Annotate, TypeOK, SideType, SidePcs
<1>2. worker' \in [Workers -> WorkerType]
  <2>1. CASE ~ok
    BY <2>1 DEF Annotate, TypeOK
  <2>2. CASE ok
    <3>1. PICK sess \in BOOLEAN :
            worker' = [worker EXCEPT ![w].job = side.found, ![w].sess = sess]
      BY <2>2 DEF Annotate, TypeOK, SideType
    <3>2. worker[w] \in WorkerType /\ side.found \in BOOLEAN
      BY DEF TypeOK, SideType
    <3>3. [worker[w] EXCEPT !.job = side.found, !.sess = sess] \in WorkerType
      BY <3>2 DEF WorkerType
    <3>4. worker' = [worker EXCEPT ![w] = [worker[w] EXCEPT !.job = side.found, !.sess = sess]]
      BY <3>1
    <3>. QED BY <3>3, <3>4, WorkerUpdate
  <2>. QED BY <2>1, <2>2
<1>. QED BY <1>1, <1>2, CallType DEF Annotate, TypeOK

LEMMA RemoveGateType ==
  ASSUME TypeOK, NEW ok \in BOOLEAN, RemoveGate(ok)
  PROVE  TypeOK'
<1>1. side' \in SideType
  BY DEF RemoveGate, TypeOK, SideType, SidePcs
<1>2. worker' \in [Workers -> WorkerType]
  <2>1. side.pod \in Workers
    BY DEF RemoveGate, TypeOK, SideType
  <2>2. CASE ok
    <3>1. Tail(worker[side.pod].gates) \in Seq({Quantum, Foreign})
      BY <2>1, <2>2 DEF RemoveGate, TypeOK, WorkerType
    <3>. QED BY <2>1, <2>2, <3>1 DEF RemoveGate, TypeOK, WorkerType
  <2>. QED BY <2>2 DEF RemoveGate, TypeOK
<1>. QED BY <1>1, <1>2, CallType DEF RemoveGate, TypeOK

LEMMA EnvironmentType ==
  ASSUME TypeOK, WorkerStep \/ Advance \/ Fail
  PROVE  TypeOK'
<1>0. ASSUME NEW w \in Workers
      PROVE  worker[w] \in WorkerType
  BY DEF TypeOK
<1>1. ASSUME NEW w \in Workers, Create(w) PROVE TypeOK'
  <2> DEFINE gates == IF w \in conf.foreign THEN <<Foreign, Quantum>> ELSE <<Quantum>>
             v == [worker[w] EXCEPT !.phase = "pending", !.gates = gates]
  <2>1. gates \in Seq({Quantum, Foreign})
    <3>1. <<Foreign, Quantum>> \in Seq({Quantum, Foreign})
      OBVIOUS
    <3>2. <<Quantum>> \in Seq({Quantum, Foreign})
      OBVIOUS
    <3>. QED BY <3>1, <3>2
  <2>2. v \in WorkerType
    BY <1>0, <2>1 DEF WorkerType
  <2>3. worker' = [worker EXCEPT ![w] = v]
    BY <1>1 DEF Create
  <2>. QED BY <1>1, <2>2, <2>3, WorkerUpdate DEF Create, TypeOK
<1>2. ASSUME NEW w \in Workers, LiftForeign(w) PROVE TypeOK'
  <2> DEFINE gates == IF w \in Gated THEN <<Quantum>> ELSE <<>>
             v == [worker[w] EXCEPT !.gates = gates]
  <2>1. gates \in Seq({Quantum, Foreign})
    <3>1. <<Quantum>> \in Seq({Quantum, Foreign}) /\ <<>> \in Seq({Quantum, Foreign})
      OBVIOUS
    <3>. QED BY <3>1
  <2>2. v \in WorkerType
    BY <1>0, <2>1 DEF WorkerType
  <2>3. worker' = [worker EXCEPT ![w] = v]
    BY <1>2 DEF LiftForeign
  <2>. QED BY <1>2, <2>2, <2>3, WorkerUpdate DEF LiftForeign, TypeOK
<1>3. ASSUME NEW w \in Workers, Finish(w) PROVE TypeOK'
  BY <1>3 DEF Finish, TypeOK, WorkerType
<1>4. CASE Start
  BY <1>4 DEF Start, TypeOK, WorkerType
<1>5. CASE Advance \/ Fail
  BY <1>5 DEF Advance, Fail, TypeOK, TaskStates
<1>. QED BY <1>1, <1>2, <1>3, <1>4, <1>5 DEF WorkerStep

LEMMA TypeNext == TypeOK /\ [Next]_vars => TypeOK'
<1> SUFFICES ASSUME TypeOK, [Next]_vars PROVE TypeOK'
  OBVIOUS
<1>1. CASE AppStep \/ HoldExpires \/ Kill
  BY <1>1, AppType
<1>2. CASE SideStep \/ DiscoveryExpires \/ ListExpires \/ WorkersExpires \/ SideKill
  BY <1>2, SearchType, PollType, ReleaseType, AnnotateType, RemoveGateType DEF SideStep
<1>3. CASE WorkerStep \/ Advance \/ Fail
  BY <1>3, EnvironmentType
<1>4. CASE UNCHANGED vars
  BY <1>4 DEF vars, TypeOK
<1>. QED BY <1>1, <1>2, <1>3, <1>4 DEF Next

(* Files, processes and pods stay in their types in every reachable state.  *)
THEOREM TypeCorrect == Spec => []TypeOK
BY TypeInit, TypeNext, PTL DEF Spec

-----------------------------------------------------------------------------
(* When the gates go.                                                       *)

Searching == {"resolve", "read", "marker", "search"}

\* The sidecar's automaton: how its place and what it found may change.
SideGraph ==
  \/ side.pc \in Searching /\ side'.pc \in Searching /\ side'.found = side.found
  \/ /\ side.pc \in Searching /\ side'.pc = "poll" /\ side'.found
     /\ files.record \/ task # "none"
  \/ /\ side.pc \in Searching /\ side'.pc = "list" /\ side'.found = side.found
     /\ conf.mode = "rehearsal"
  \/ side.pc = "poll" /\ side'.pc = "poll" /\ side'.found = side.found
  \/ side.pc = "poll" /\ side'.pc = "list" /\ side'.found = side.found /\ Ready
  \/ side.pc = "poll" /\ side'.pc = "mark" /\ side'.found = side.found
  \/ /\ side.pc \in {"list", "annotate", "gate"} /\ side'.pc \in {"annotate", "gate", "hold"}
     /\ side'.found = side.found
  \/ /\ side.pc = "hold" /\ side'.pc = "mark" /\ side'.found = side.found
     /\ PodsDone \/ expired' # {}
  \/ side.pc # "exit" /\ side'.pc = "exit" /\ side'.found = side.found

SideAction == SideStep \/ DiscoveryExpires \/ ListExpires \/ WorkersExpires \/ SideKill

LEMMA SideRecord ==
  ASSUME TypeOK
  PROVE  side \in [pc : SidePcs, found : BOOLEAN, errors : 0 .. (MaxErrors - 1),
                   targets : SUBSET Workers, pod : Workers \cup {NoWorker}, code : {0, 1}]
BY DEF TypeOK, SideType

LEMMA SideFollows ==
  ASSUME TypeOK, SideAction PROVE SideGraph
<1> USE DEF SideGraph, Searching
<1>1. CASE Resolve
  <2>1. conf.provider \in {"none", "qrmi", "braket"}
    BY DEF TypeOK, Confs
  <2>. QED BY <1>1, <2>1, SideRecord DEF Resolve, GiveUp
<1>2. CASE ReadRecord
  BY <1>2, SideRecord DEF ReadRecord
<1>3. ASSUME NotFound, side.pc \in Searching PROVE SideGraph
  BY <1>3, SideRecord DEF NotFound, GiveUp
<1>4. CASE ReadMarker
  BY <1>3, <1>4, SideRecord DEF ReadMarker
<1>5. CASE Search
  BY <1>3, <1>5, SideRecord DEF Search
<1>6. CASE DiscoveryExpires
  BY <1>3, <1>6 DEF DiscoveryExpires
<1>7. ASSUME NEW u \in BOOLEAN, Verdict(u), u => Ready, side.pc = "poll" PROVE SideGraph
  BY <1>7, SideRecord DEF Verdict
<1>8. CASE Poll
  BY <1>7, <1>8, SideRecord DEF Poll
<1>9. ASSUME NEW fatal \in BOOLEAN, PollError(fatal) PROVE SideGraph
  <2>1. side.errors + 1 \in Int
    BY ConstantsAssumption DEF TypeOK, SideType
  <2>. QED BY <1>7, <1>9, <2>1, SideRecord DEF PollError
<1>10. CASE List \/ ListExpires \/ Hold \/ WorkersExpires \/ SideKill
  BY <1>10, SideRecord DEF List, ListExpires, Hold, WorkersExpires, SideKill, GiveUp, Expires
<1>11. ASSUME NEW ok \in BOOLEAN, Mark(ok) PROVE SideGraph
  BY <1>11, SideRecord DEF Mark
<1>12. ASSUME NEW ok \in BOOLEAN, NEW w \in Workers, Annotate(w, ok) PROVE SideGraph
  BY <1>12, SideRecord DEF Annotate
<1>13. ASSUME NEW ok \in BOOLEAN, RemoveGate(ok) PROVE SideGraph
  <2>1. side.targets \ {side.pod} \in SUBSET Workers
    BY DEF TypeOK, SideType
  <2>. QED BY <1>13, <2>1, SideRecord DEF RemoveGate
<1>. QED BY <1>1, <1>2, <1>4, <1>5, <1>6, <1>8, <1>9, <1>10, <1>11, <1>12, <1>13
     DEF SideAction, SideStep

\* What a step of the sidecar leaves alone; the worker pods change in two of
\* its steps, and the marker of its end is written in one.
LEMMA SideFrame ==
  ASSUME TypeOK, SideAction
  PROVE  /\ UNCHANGED <<conf, app, session, task>>
         /\ files'.record = files.record /\ files'.exited = files.exited
         /\ files'.done = files.done \/ side.pc = "mark"
         /\ expired' = {} => expired = {}
         /\ faults' = 0 => faults = 0
         /\ \/ \E ok \in BOOLEAN : RemoveGate(ok) \/ \E w \in Workers : Annotate(w, ok)
            \/ worker' = worker /\ side'.pc # "gate"
<1>0. ASSUME NEW ok \in BOOLEAN, Call(ok) PROVE faults' = 0 => faults = 0
  BY <1>0 DEF Call, TypeOK
<1> USE SideRecord DEF TypeOK
<1>1. CASE Resolve \/ ReadRecord \/ List \/ Hold \/ ListExpires \/ WorkersExpires \/ SideKill
  BY <1>0, <1>1 DEF Resolve, ReadRecord, List, Hold, ListExpires, WorkersExpires, SideKill,
     GiveUp, Expires, Confs
<1>2. CASE ReadMarker \/ Search \/ DiscoveryExpires
  BY <1>0, <1>2 DEF ReadMarker, Search, DiscoveryExpires, NotFound, GiveUp, Expires
<1>3. CASE Poll \/ \E fatal \in BOOLEAN : PollError(fatal)
  BY <1>0, <1>3 DEF Poll, PollError, Verdict
<1>4. ASSUME NEW ok \in BOOLEAN, Mark(ok)
      PROVE  /\ UNCHANGED <<conf, app, session, task, worker, expired>>
             /\ files'.record = files.record /\ files'.exited = files.exited
             /\ side.pc = "mark" /\ side'.pc = "exit" /\ (faults' = 0 => faults = 0)
  BY <1>0, <1>4 DEF Mark
<1>5. ASSUME NEW ok \in BOOLEAN, RemoveGate(ok) \/ \E w \in Workers : Annotate(w, ok)
      PROVE  /\ UNCHANGED <<conf, app, session, task, files, expired>>
             /\ (faults' = 0 => faults = 0)
  BY <1>0, <1>5 DEF RemoveGate, Annotate
<1>. QED BY <1>1, <1>2, <1>3, <1>4, <1>5 DEF SideAction, SideStep

\* The sidecar finds nothing before the vendor has the task, lifts nothing
\* while it searches or polls, and starts lifting only with a reason to.
UngateInv ==
  /\ app \in {"begin", "working"} => task = "none"
  /\ app = "submitted" => task # "none"
  /\ side.found \/ files.record => task # "none"
  /\ side.pc \in Searching => ~side.found
  /\ side.pc = "poll" => side.found
  /\ side.pc \in Searching \cup {"poll"} => \A w \in Workers : ~Lifted(w)
  /\ side.pc \in {"list", "annotate", "gate", "hold"} =>
       IF side.found THEN Usable ELSE conf.mode = "rehearsal"
  /\ UngatedOnlyWhenUsable

LEMMA UngateInit == Init => UngateInv
BY DEF Init, UngateInv, Lifted, UngatedOnlyWhenUsable, Searching

\* What a pod is created with, and what an owner leaves of its gates, keeps
\* the quantum gate where it was.
LEMMA LiftedByOthers ==
  ASSUME TypeOK, WorkerStep, NEW v \in Workers
  PROVE  Lifted(v)' <=> Lifted(v)
<1> USE DEF Lifted, Gated, Present, TypeOK, WorkerType
<1>1. ASSUME NEW w \in Workers, Create(w) PROVE Lifted(v)' <=> Lifted(v)
  <2>1. Quantum \in {<<Foreign, Quantum>>[i] : i \in DOMAIN <<Foreign, Quantum>>}
    OBVIOUS
  <2>2. Quantum \in {<<Quantum>>[i] : i \in DOMAIN <<Quantum>>}
    OBVIOUS
  <2>3. worker'[w].phase = "pending" /\ worker[w].phase = "absent"
        /\ worker'[w].gates \in {<<Foreign, Quantum>>, <<Quantum>>}
    BY <1>1 DEF Create
  <2>4. CASE v = w
    BY <2>1, <2>2, <2>3, <2>4
  <2>5. CASE v # w
    BY <1>1, <2>5 DEF Create
  <2>. QED BY <2>4, <2>5
<1>2. ASSUME NEW w \in Workers, LiftForeign(w) PROVE Lifted(v)' <=> Lifted(v)
  <2>1. Quantum \in {<<Quantum>>[i] : i \in DOMAIN <<Quantum>>}
        /\ Quantum \notin {<< >>[i] : i \in DOMAIN << >>}
    OBVIOUS
  <2>2. worker'[w].phase = worker[w].phase
        /\ worker'[w].gates = (IF w \in Gated THEN <<Quantum>> ELSE <<>>)
    BY <1>2 DEF LiftForeign
  <2>3. CASE v = w /\ w \in Gated
    <3>1. worker'[v].gates = <<Quantum>>
      BY <2>2, <2>3
    <3>. QED BY <2>1, <2>2, <2>3, <3>1
  <2>4. CASE v = w /\ w \notin Gated
    <3>1. worker'[v].gates = << >>
      BY <2>2, <2>4
    <3>. QED BY <2>1, <2>2, <2>4, <3>1
  <2>5. CASE v # w
    BY <1>2, <2>5 DEF LiftForeign
  <2>. QED BY <2>3, <2>4, <2>5
<1>3. ASSUME NEW w \in Workers, Finish(w) PROVE Lifted(v)' <=> Lifted(v)
  BY <1>3 DEF Finish
<1>4. CASE Start
  BY <1>4 DEF Start
<1>. QED BY <1>1, <1>2, <1>3, <1>4 DEF WorkerStep

LEMMA UngateNext == TypeOK /\ UngateInv /\ [Next]_vars => UngateInv'
<1> SUFFICES ASSUME TypeOK, UngateInv, [Next]_vars PROVE UngateInv'
  OBVIOUS
<1>1. ASSUME UNCHANGED <<conf, task, side, worker>>, files'.record = files.record,
             app' \in {"begin", "working"} => app \in {"begin", "working"},
             app' = "submitted" => app = "submitted"
      PROVE  UngateInv'
  BY <1>1 DEF UngateInv, Lifted, Gated, Present, UngatedOnlyWhenUsable, Usable, Searching
<1>2. CASE AppStep \/ HoldExpires \/ Kill
  <2>1. ASSUME NEW ok \in BOOLEAN, Acquire(ok) PROVE UngateInv'
    BY <2>1, <1>1 DEF Acquire
  <2>2. ASSUME NEW ok \in BOOLEAN, Publish(ok) PROVE UngateInv'
    <3>1. /\ UNCHANGED <<conf, task, side, worker>> /\ app' = "result"
          /\ app = "submitted"
      BY <2>2 DEF Publish
    <3>. QED BY <3>1 DEF UngateInv, Lifted, Gated, Present, UngatedOnlyWhenUsable, Usable
  <2>3. ASSUME NEW ok \in BOOLEAN, Exit(ok) PROVE UngateInv'
    BY <2>3, <1>1 DEF Exit, TypeOK
  <2>4. CASE Submit
    <3>1. /\ UNCHANGED <<conf, side, worker, files>> /\ app' = "submitted" /\ task' = "queued"
          /\ app = "working"
      BY <2>4 DEF Submit
    <3>2. \A w \in Workers : Lifted(w)' <=> Lifted(w)
      BY <3>1 DEF Lifted, Gated, Present
    <3>. QED BY <3>1, <3>2 DEF UngateInv, UngatedOnlyWhenUsable
  <2>5. CASE SkipSubmit \/ BeginRelease \/ HoldEnds \/ Release \/ HoldExpires \/ Kill
    BY <2>5, <1>1 DEF SkipSubmit, BeginRelease, HoldEnds, Release, HoldExpires, Kill
  <2>. QED BY <1>2, <2>1, <2>2, <2>3, <2>4, <2>5 DEF AppStep
<1>3. CASE SideAction
  <2>1. Usable' <=> Usable
    BY <1>3, SideFrame DEF Usable
  <2>2. Ready => Usable
    BY DEF Ready, Usable
  <2>3. CASE \E ok \in BOOLEAN : RemoveGate(ok)
    <3>1. side.pc = "gate"
      BY <2>3 DEF RemoveGate
    <3>. QED BY <1>3, <2>1, <3>1, SideFollows, SideFrame
         DEF UngateInv, SideGraph, Searching, UngatedOnlyWhenUsable
  <2>4. ASSUME \A w \in Workers : Lifted(w)' <=> Lifted(w) PROVE UngateInv'
    BY <1>3, <2>1, <2>2, <2>4, SideFollows, SideFrame
    DEF UngateInv, SideGraph, Searching, UngatedOnlyWhenUsable
  <2>5. ASSUME NEW ok \in BOOLEAN, NEW w \in Workers, Annotate(w, ok),
               NEW v \in Workers
        PROVE  Lifted(v)' <=> Lifted(v)
    BY <2>5 DEF Annotate, TypeOK, WorkerType, Lifted, Gated, Present
  <2>6. ASSUME worker' = worker, NEW v \in Workers PROVE Lifted(v)' <=> Lifted(v)
    BY <2>6 DEF Lifted, Gated, Present
  <2>. QED BY <1>3, <2>3, <2>4, <2>5, <2>6, SideFrame
<1>4. CASE WorkerStep
  <2>1. UNCHANGED <<conf, app, task, files, side>>
    BY <1>4 DEF WorkerStep, Create, LiftForeign, Finish, Start
  <2>2. \A w \in Workers : Lifted(w)' <=> Lifted(w)
    BY <1>4, LiftedByOthers
  <2>. QED BY <2>1, <2>2 DEF UngateInv, UngatedOnlyWhenUsable, Usable
<1>5. CASE Advance \/ Fail
  BY <1>5 DEF Advance, Fail, UngateInv, Lifted, Gated, Present, UngatedOnlyWhenUsable, Usable
<1>6. CASE UNCHANGED vars
  BY <1>6, <1>1 DEF vars
<1>. QED BY <1>2, <1>3, <1>4, <1>5, <1>6 DEF Next, SideAction

(* A worker's gate goes only for a task at the front of the queue, or in a   *)
(* rehearsal without one, for every set of workers and every interleaving.   *)
THEOREM GatesGoForAReason == Spec => []UngatedOnlyWhenUsable
<1>1. UngateInv => UngatedOnlyWhenUsable
  BY DEF UngateInv
<1>. QED BY <1>1, TypeCorrect, UngateInit, UngateNext, PTL DEF Spec

-----------------------------------------------------------------------------
(* When the session goes.                                                   *)

\* A pod runs without gates; a session is closed early only by a deadline, for
\* nobody, or after the sidecar has seen the workers' end; the sidecar writes
\* that it has when no worker runs and none that waits has lost its gate.
SessionInv ==
  /\ app \in {"begin", "working"} => session # "closed"
  /\ \A w \in Workers : worker[w].phase \in {"running", "over"} => worker[w].gates = << >>
  /\ \A w \in Workers : worker[w].sess => side.found /\ session # "none"
  /\ app = "releasing" \/ session = "closed" =>
       expired # {} \/ files.done \/ conf.mode = "observe" \/ task = "none"
  /\ files.done => side.pc = "exit"
  /\ expired = {} /\ (files.done \/ side.pc = "mark") =>
       \A w \in Workers : worker[w].phase # "running"
                         /\ (worker[w].phase = "pending" => ~Lifted(w))
  /\ conf.mode = "observe" => \A w \in Workers : worker[w].phase = "absent"

LEMMA SessionInit == Init => SessionInv
BY DEF Init, SessionInv, Confs

\* A pod with no gate that is there has lost the quantum gate.
LEMMA NoGateIsLifted ==
  ASSUME NEW w \in Workers, worker[w].phase # "absent", worker[w].gates = << >>
  PROVE  Lifted(w)
BY DEF Lifted, Gated, Present

LEMMA SessionWorkers ==
  ASSUME TypeOK, SessionInv, WorkerStep PROVE SessionInv'
<1>0. UNCHANGED <<conf, app, session, task, files, side, faults, expired>>
  BY DEF WorkerStep, Create, LiftForeign, Finish, Start
<1>1. \A w \in Workers : Lifted(w)' <=> Lifted(w)
  BY LiftedByOthers
<1>2. ASSUME NEW w \in Workers, Create(w) PROVE SessionInv'
  <2>1. /\ \A v \in Workers : v # w => worker'[v] = worker[v]
        /\ worker'[w].phase = "pending" /\ worker'[w].sess = worker[w].sess
        /\ worker[w].phase = "absent" /\ conf.mode # "observe"
    BY <1>2 DEF Create, TypeOK, WorkerType
  <2>2. ~Lifted(w)
    BY <2>1 DEF Lifted
  <2>. QED BY <1>0, <1>1, <2>1, <2>2 DEF SessionInv
<1>3. ASSUME NEW w \in Workers, LiftForeign(w) PROVE SessionInv'
  <2>1. /\ \A v \in Workers : v # w => worker'[v] = worker[v]
        /\ worker'[w].phase = worker[w].phase /\ worker'[w].sess = worker[w].sess
        /\ worker[w].gates # << >>
    BY <1>3 DEF LiftForeign, TypeOK, WorkerType
  <2>. QED BY <1>0, <1>1, <2>1 DEF SessionInv
<1>4. ASSUME NEW w \in Workers, Finish(w) PROVE SessionInv'
  <2>1. /\ \A v \in Workers : v # w => worker'[v] = worker[v]
        /\ worker'[w].phase = "over" /\ worker'[w].sess = worker[w].sess
        /\ worker'[w].gates = worker[w].gates /\ worker[w].phase = "running"
    BY <1>4 DEF Finish, TypeOK, WorkerType
  <2>. QED BY <1>0, <1>1, <2>1 DEF SessionInv
<1>5. CASE Start
  <2>1. \A v \in Workers : /\ worker'[v].sess = worker[v].sess
                           /\ worker[v].phase = "pending" /\ worker'[v].gates = << >>
                           /\ Lifted(v)
    BY <1>5, NoGateIsLifted DEF Start, TypeOK, WorkerType
  <2>. QED BY <1>0, <1>1, <2>1 DEF SessionInv
<1>. QED BY <1>2, <1>3, <1>4, <1>5 DEF WorkerStep

LEMMA SessionApp ==
  ASSUME TypeOK, UngateInv, SessionInv, AppStep \/ HoldExpires \/ Kill PROVE SessionInv'
<1>0. UNCHANGED <<conf, side, worker>> /\ files'.done = files.done
      /\ (expired' = {} => expired = {})
      /\ \A w \in Workers : Lifted(w)' <=> Lifted(w)
  BY DEF AppStep, HoldExpires, Kill, Acquire, Publish, Exit, Submit, SkipSubmit, BeginRelease,
     HoldEnds, Release, TypeOK, Lifted, Gated, Present, Expires
<1>1. \/ /\ app = "begin" /\ app' = "working" /\ session' # "closed" /\ task' = task
      \/ /\ app = "working" /\ app' = "submitted" /\ session' = session
      \/ /\ app' \notin {"begin", "working", "releasing"}
         /\ session' = session /\ task' = task
      \/ /\ app' = "releasing" /\ session' = session /\ task' = task
         /\ \/ app = "working" \/ conf.mode = "observe" \/ files.done \/ expired' # {}
      \/ /\ app = "releasing" /\ app' = "leaving" /\ session' = "closed" /\ task' = task
         /\ expired' = expired
  BY DEF AppStep, HoldExpires, Kill, Acquire, Publish, Exit, Submit, SkipSubmit, BeginRelease,
     HoldEnds, Release, Expires
<1>2. \A w \in Workers : worker[w].sess => app # "begin" /\ app # "working"
  BY DEF SessionInv, UngateInv
<1>. QED BY <1>0, <1>1, <1>2 DEF SessionInv, UngateInv

LEMMA SessionSide ==
  ASSUME TypeOK, UngateInv, SessionInv, SideAction PROVE SessionInv'
<1>1. CASE worker' = worker
  <2>1. \A w \in Workers : Lifted(w)' <=> Lifted(w)
    BY <1>1 DEF Lifted, Gated, Present
  <2>2. \A w \in Workers : worker[w].phase = "running" => Lifted(w)
    BY NoGateIsLifted DEF SessionInv
  <2>3. PodsDone => \A w \in Workers : worker[w].phase \in {"absent", "over"}
    BY DEF PodsDone, Present
  <2>4. files'.done => side'.pc = "exit"
    BY SideFollows, SideFrame DEF SideGraph, Searching, SessionInv
  <2>. QED BY <1>1, <2>1, <2>2, <2>3, <2>4, SideFollows, SideFrame
       DEF SideGraph, Searching, SessionInv, UngateInv
<1>2. ASSUME NEW ok \in BOOLEAN, RemoveGate(ok) \/ \E w \in Workers : Annotate(w, ok)
      PROVE  SessionInv'
  <2>1. side.pc \in {"annotate", "gate"} /\ side'.pc \in {"annotate", "gate", "hold"}
        /\ side'.found = side.found
    BY <1>2, SideRecord DEF RemoveGate, Annotate
  <2>2. ASSUME NEW w \in Workers
        PROVE  /\ worker[w] \in WorkerType
               /\ worker'[w].phase = worker[w].phase
               /\ worker'[w].sess => worker[w].sess \/ (side.found /\ session # "none")
               /\ worker[w].gates = << >> => worker'[w].gates = << >>
    <3>1. worker[w] \in WorkerType
      BY DEF TypeOK
    <3>2. CASE RemoveGate(ok)
      <4>1. \/ worker'[w] = worker[w]
            \/ /\ worker[w].gates # << >>
               /\ worker'[w] = [worker[w] EXCEPT !.gates = Tail(@)]
        BY <3>2 DEF RemoveGate, TypeOK
      <4>. QED BY <3>1, <4>1 DEF WorkerType
    <3>3. CASE \E v \in Workers : Annotate(v, ok)
      <4>1. PICK v \in Workers : Annotate(v, ok)
        BY <3>3
      <4>0. side.found \in BOOLEAN
        BY SideRecord
      <4>2. \E sess \in BOOLEAN :
              /\ \/ worker' = worker
                 \/ worker' = [worker EXCEPT ![v].job = side.found, ![v].sess = sess]
              /\ sess = TRUE => side.found /\ session # "none"
        BY <4>0, <4>1 DEF Annotate
      <4>3. worker'[w].gates = worker[w].gates /\ worker'[w].phase = worker[w].phase
        BY <3>1, <4>2 DEF TypeOK, WorkerType
      <4>4. CASE w = v
        BY <3>1, <4>0, <4>2, <4>3, <4>4, SMT DEF TypeOK, WorkerType
      <4>5. CASE w # v
        BY <3>1, <4>2, <4>3, <4>5 DEF TypeOK, WorkerType
      <4>. QED BY <3>1, <4>3, <4>4, <4>5
    <3>. QED BY <1>2, <3>1, <3>2, <3>3
  <2>. QED BY <2>1, <2>2, SideFrame DEF SessionInv
<1>. QED BY <1>1, <1>2, SideFrame

LEMMA SessionNext == TypeOK /\ UngateInv /\ SessionInv /\ [Next]_vars => SessionInv'
<1> SUFFICES ASSUME TypeOK, UngateInv, SessionInv, [Next]_vars PROVE SessionInv'
  OBVIOUS
<1>1. CASE Advance \/ Fail
  BY <1>1 DEF Advance, Fail, SessionInv, Lifted, Gated, Present
<1>2. CASE UNCHANGED vars
  BY <1>2 DEF vars, SessionInv, Lifted, Gated, Present
<1>. QED BY <1>1, <1>2, SessionWorkers, SessionApp, SessionSide DEF Next, SideAction

(* Until a wait runs into its deadline, no worker that was given a session   *)
(* runs outside it, whatever fails or is killed on the way.                  *)
THEOREM SessionsOutliveWorkers == Spec => []SessionOutlivesWorkers
<1>1. TypeOK /\ UngateInv /\ SessionInv => SessionOutlivesWorkers
  BY DEF TypeOK, UngateInv, SessionInv, SessionOutlivesWorkers
<1>. QED BY <1>1, TypeCorrect, UngateInit, UngateNext, SessionInit, SessionNext, PTL DEF Spec

-----------------------------------------------------------------------------
(* What the workers are told.                                               *)

\* As long as nothing fails, a pod without its gate has been told of the task,
\* and so has the pod whose gate goes next.
JobInv ==
  faults = 0 /\ conf.mode = "gang" =>
    /\ \A w \in Workers : Lifted(w) => worker[w].job
    /\ side.pc = "gate" => worker[side.pod].job

LEMMA JobInit == Init => JobInv
BY DEF Init, JobInv, Lifted

\* The two steps of the sidecar that write to a pod.
LEMMA JobTold ==
  ASSUME TypeOK, UngateInv, JobInv, NEW ok \in BOOLEAN,
         RemoveGate(ok) \/ \E w \in Workers : Annotate(w, ok)
  PROVE  JobInv'
<1>0. \A w \in Workers : worker[w] \in WorkerType
  BY DEF TypeOK
<1>1. conf' = conf
  BY DEF RemoveGate, Annotate
<1> SUFFICES ASSUME faults' = 0, conf.mode = "gang" PROVE JobInv'
  BY <1>1 DEF JobInv
<1>2. faults = 0 /\ ok
  <2>1. Call(ok)
    BY DEF RemoveGate, Annotate
  <2>. QED BY <2>1 DEF Call, TypeOK
<1>3. CASE RemoveGate(ok)
  <2>1. side.pod \in Workers /\ side.pc = "gate"
    BY <1>3 DEF RemoveGate, TypeOK, SideType
  <2>2. side'.pc # "gate"
    BY <1>3, SideRecord DEF RemoveGate
  <2>3. worker' = [worker EXCEPT ![side.pod].gates = Tail(@)]
    BY <1>2, <1>3 DEF RemoveGate
  <2>4. ASSUME NEW w \in Workers, Lifted(w)' PROVE worker'[w].job
    <3>1. CASE w = side.pod
      BY <1>0, <1>1, <1>2, <2>1, <2>3, <3>1 DEF JobInv, WorkerType, TypeOK
    <3>2. CASE w # side.pod
      <4>1. worker'[w] = worker[w]
        BY <2>3, <3>2 DEF TypeOK
      <4>. QED BY <1>1, <1>2, <2>4, <4>1 DEF JobInv, Lifted, Gated, Present
    <3>. QED BY <3>1, <3>2
  <2>. QED BY <2>2, <2>4 DEF JobInv
<1>4. ASSUME NEW w \in Workers, Annotate(w, ok) PROVE JobInv'
  <2>1. side.found = TRUE
    BY <1>1, <1>4, SideRecord DEF Annotate, UngateInv
  <2>2. side'.pod = w
    BY <1>4, SideRecord DEF Annotate
  <2>3. PICK sess :
          worker' = [worker EXCEPT ![w].job = TRUE, ![w].sess = sess]
    BY <1>2, <1>4, <2>1 DEF Annotate
  <2>4. worker'[w].job = TRUE /\ worker'[w].phase = worker[w].phase
        /\ worker'[w].gates = worker[w].gates
    BY <1>0, <2>3 DEF WorkerType, TypeOK
  <2>5. ASSUME NEW v \in Workers, Lifted(v)' PROVE worker'[v].job
    <3>1. CASE v # w
      <4>1. worker'[v] = worker[v]
        BY <2>3, <3>1 DEF TypeOK
      <4>. QED BY <1>1, <1>2, <2>5, <4>1 DEF JobInv, Lifted, Gated, Present
    <3>. QED BY <2>4, <3>1
  <2>. QED BY <2>2, <2>4, <2>5 DEF JobInv
<1>. QED BY <1>3, <1>4

LEMMA JobNext == TypeOK /\ UngateInv /\ JobInv /\ [Next]_vars => JobInv'
<1> SUFFICES ASSUME TypeOK, UngateInv, JobInv, [Next]_vars PROVE JobInv'
  OBVIOUS
<1>1. ASSUME UNCHANGED <<conf, side, worker>>, faults' = 0 => faults = 0 PROVE JobInv'
  BY <1>1 DEF JobInv, Lifted, Gated, Present
<1>2. ASSUME NEW ok \in BOOLEAN, Call(ok) PROVE faults' = 0 => faults = 0
  BY <1>2 DEF Call, TypeOK
<1>3. CASE AppStep \/ HoldExpires \/ Kill \/ Advance \/ Fail \/ UNCHANGED vars
  <2>1. UNCHANGED <<conf, side, worker>>
    BY <1>3 DEF AppStep, HoldExpires, Kill, Acquire, Publish, Exit, Submit, SkipSubmit,
       BeginRelease, HoldEnds, Release, Advance, Fail, vars
  <2>2. faults' = 0 => faults = 0
    BY <1>2, <1>3 DEF AppStep, HoldExpires, Kill, Acquire, Publish, Exit, Submit, SkipSubmit,
       BeginRelease, HoldEnds, Release, Advance, Fail, vars
  <2>. QED BY <2>1, <2>2, <1>1
<1>4. CASE SideAction
  <2>1. CASE worker' = worker /\ side'.pc # "gate"
    BY <1>4, <2>1, SideFrame DEF JobInv, Lifted, Gated, Present
  <2>. QED BY <1>4, <2>1, SideFrame, JobTold
<1>5. CASE WorkerStep
  <2>1. \A w \in Workers : worker[w] \in WorkerType
    BY DEF TypeOK
  <2>2. ASSUME NEW w \in Workers PROVE worker'[w].job = worker[w].job
    <3>1. CASE Start
      BY <2>1, <3>1 DEF Start, WorkerType
    <3>2. ASSUME NEW v \in Workers, Create(v) \/ LiftForeign(v) \/ Finish(v)
          PROVE  worker'[w].job = worker[w].job
      <4>1. worker[v] \in WorkerType /\ worker[w] \in WorkerType
        BY <2>1
      <4>2. CASE Create(v)
        <5>1. PICK gates : worker' = [worker EXCEPT ![v].phase = "pending", ![v].gates = gates]
          BY <4>2 DEF Create
        <5>. QED BY <4>1, <5>1 DEF TypeOK, WorkerType
      <4>3. CASE LiftForeign(v)
        <5>1. PICK gates : worker' = [worker EXCEPT ![v].gates = gates]
          BY <4>3 DEF LiftForeign
        <5>. QED BY <4>1, <5>1 DEF TypeOK, WorkerType
      <4>4. CASE Finish(v)
        BY <4>1, <4>4 DEF Finish, TypeOK, WorkerType
      <4>. QED BY <3>2, <4>2, <4>3, <4>4
    <3>. QED BY <1>5, <3>1, <3>2 DEF WorkerStep
  <2>3. UNCHANGED <<conf, side, faults>>
    BY <1>5 DEF WorkerStep, Create, LiftForeign, Finish, Start
  <2>4. side.pc = "gate" => side.pod \in Workers
    BY DEF TypeOK, SideType
  <2>. QED BY <1>5, <2>2, <2>3, <2>4, LiftedByOthers DEF JobInv
<1>. QED BY <1>3, <1>4, <1>5 DEF Next, SideAction

(* As long as nothing fails, no worker of a gang with a task starts before   *)
(* it has the job id.                                                       *)
THEOREM JobIdComesFirst == Spec => []JobIdBeforeStart
<1>1. TypeOK /\ SessionInv /\ JobInv => JobIdBeforeStart
  <2> SUFFICES ASSUME TypeOK, SessionInv, JobInv, faults = 0, conf.mode = "gang",
                      NEW w \in Workers, worker[w].phase \in {"running", "over"}
               PROVE  worker[w].job
    BY DEF JobIdBeforeStart
  <2>1. Lifted(w)
    BY NoGateIsLifted DEF SessionInv
  <2>. QED BY <2>1 DEF JobInv
<1>. QED BY <1>1, TypeCorrect, UngateInit, UngateNext, SessionInit, SessionNext,
         JobInit, JobNext, PTL DEF Spec

-----------------------------------------------------------------------------
(* What a sidecar that gives up knows.                                      *)

\* The exit marker is the last thing the application writes, and as long as
\* nothing fails it is written only by one that never had a task.
GiveUpInv ==
  /\ files.exited => app = "exited"
  /\ faults = 0 /\ conf.provider = "qrmi" =>
       /\ files.exited => task = "none"
       /\ task # "none" => app = "submitted" \/ files.record
  /\ side.pc = "search" => conf.provider # "qrmi"
  /\ GivenUp /\ conf.provider = "qrmi" /\ faults = 0 /\ expired = {} => files.exited

LEMMA GiveUpInit == Init => GiveUpInv
BY DEF Init, GiveUpInv, GivenUp

\* Why a search ends without a task.
LEMMA GivesUpFor ==
  ASSUME TypeOK, GiveUpInv, SideAction, side.pc \in Searching, ~GivenUp, GivenUp',
         conf.provider = "qrmi", faults' = 0, expired' = {}
  PROVE  files.exited
<1>0. ~Call(FALSE)
  BY DEF Call, TypeOK
<1>1. ~SideKill /\ ~DiscoveryExpires /\ ~ListExpires /\ ~WorkersExpires
  BY <1>0 DEF SideKill, DiscoveryExpires, ListExpires, WorkersExpires, Expires
<1>2. Resolve \/ ReadRecord \/ ReadMarker \/ Search
  BY <1>1 DEF SideAction, SideStep, Searching, Poll, List, Hold, PollError, RemoveGate, Mark,
     Annotate
<1>3. ~Resolve /\ ~ReadRecord
  BY SideRecord DEF Resolve, ReadRecord, GivenUp
<1>4. ~Search
  BY DEF Search, GiveUpInv
<1>5. ReadMarker => files.exited
  BY SideRecord DEF ReadMarker, GivenUp
<1>. QED BY <1>2, <1>3, <1>4, <1>5

LEMMA GiveUpNext == TypeOK /\ UngateInv /\ GiveUpInv /\ [Next]_vars => GiveUpInv'
<1> SUFFICES ASSUME TypeOK, UngateInv, GiveUpInv, [Next]_vars PROVE GiveUpInv'
  OBVIOUS
<1>0. ASSUME NEW ok \in BOOLEAN, Call(ok) PROVE faults' = 0 => faults = 0 /\ ok
  BY <1>0 DEF Call, TypeOK
<1>1. CASE AppStep \/ HoldExpires \/ Kill
  <2> USE DEF GiveUpInv, GivenUp, UngateInv
  <2>1. ASSUME NEW ok \in BOOLEAN, Acquire(ok) PROVE GiveUpInv'
    BY <2>1 DEF Acquire
  <2>2. ASSUME NEW ok \in BOOLEAN, Publish(ok) PROVE GiveUpInv'
    BY <1>0, <2>2 DEF Publish, TypeOK
  <2>3. ASSUME NEW ok \in BOOLEAN, Exit(ok) PROVE GiveUpInv'
    BY <1>0, <2>3 DEF Exit, ExitMarker, TypeOK
  <2>4. CASE Submit \/ SkipSubmit
    BY <2>4 DEF Submit, SkipSubmit
  <2>5. CASE BeginRelease \/ HoldEnds \/ Release \/ HoldExpires
    BY <2>5 DEF BeginRelease, HoldEnds, Release, HoldExpires, Expires
  <2>6. CASE Kill
    BY <1>0, <2>6 DEF Kill
  <2>. QED BY <1>1, <2>1, <2>2, <2>3, <2>4, <2>5, <2>6 DEF AppStep
<1>2. CASE SideAction
  <2>1. side'.pc = "search" => conf.provider # "qrmi"
    <3>1. CASE ReadMarker
      BY <3>1, SideRecord DEF ReadMarker, NotFound, GiveUp
    <3>2. CASE ~ReadMarker
      BY <1>2, <3>2, SideRecord DEF SideAction, SideStep, Resolve, ReadRecord, Search, Poll,
         PollError, List, Hold, ListExpires, WorkersExpires, DiscoveryExpires, SideKill, Mark,
         RemoveGate, Annotate, NotFound, GiveUp, Verdict
    <3>. QED BY <3>1, <3>2
  <2>2. GivenUp' /\ ~(side.pc \in Searching) => GivenUp
    BY <1>2, SideFollows DEF GivenUp, SideGraph, Searching, UngateInv
  <2>3. side.pc \in Searching => ~GivenUp
    BY DEF GivenUp, Searching
  <2>. QED BY <1>2, <2>1, <2>2, <2>3, SideFrame, GivesUpFor DEF GiveUpInv
<1>3. CASE WorkerStep \/ Advance \/ Fail
  BY <1>3 DEF WorkerStep, Create, LiftForeign, Finish, Start, Advance, Fail, GiveUpInv, GivenUp
<1>4. CASE UNCHANGED vars
  BY <1>4 DEF vars, GiveUpInv, GivenUp
<1>. QED BY <1>1, <1>2, <1>3, <1>4 DEF Next, SideAction

(* As long as nothing fails and no deadline passes, the sidecar of a QRMI    *)
(* gang that stops looking is right: there is no task.                       *)
THEOREM GivesUpOnlyWithoutTask == Spec => []GiveUpOnlyWithoutTask
<1>1. GiveUpInv => GiveUpOnlyWithoutTask
  BY DEF GiveUpInv, GiveUpOnlyWithoutTask
<1>. QED BY <1>1, TypeCorrect, UngateInit, UngateNext, GiveUpInit, GiveUpNext, PTL DEF Spec
=============================================================================
