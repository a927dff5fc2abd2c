---------------------------- MODULE Coordination ----------------------------
(***************************************************************************)
(* One shared quantum gang at run time (python/fluence): the scout's        *)
(* application under the interceptor, the sidecar in the same pod, the     *)
(* vendor's queue and the gated workers. The two processes meet in marker  *)
(* files (handoff.py), the sidecar and the workers in pod annotations and  *)
(* scheduling gates, and every wait ends at a time-out.                    *)
(*                                                                         *)
(* A step is one file operation, one vendor call or one kubectl call.      *)
(***************************************************************************)
EXTENDS Integers, Sequences, FiniteSets

CONSTANTS
  Workers,
  NoWorker,
  Late,          (* workers that may be created after the scout submits      *)
  Gated2,        (* workers that may be submitted with a gate of their own   *)
  MaxErrors,     (* FLUENCE_POLL_MAX_ERRORS                                  *)
  MaxFaults      (* bound: calls and writes that fail, processes killed      *)

VARIABLES
  conf,          (* what the submission asks for and where it was placed     *)
  app,           (* the scout's application                                  *)
  session,       (* the vendor session the application acquired              *)
  task,          (* the task in the vendor's queue                           *)
  files,         (* the marker files in the handoff volume                   *)
  side,          (* locals of the sidecar                                    *)
  worker,        (* worker pods: phase, scheduling gates and annotations     *)
  faults,        (* history and bound: failures so far                       *)
  expired        (* history: the kinds of waits that have timed out          *)

vars == <<conf, app, session, task, files, side, worker, faults, expired>>

ASSUME ConstantsAssumption ==
  /\ NoWorker \notin Workers
  /\ Late \subseteq Workers /\ Gated2 \subseteq Workers
  /\ MaxErrors \in Nat \ {0} /\ MaxFaults \in Nat

-----------------------------------------------------------------------------
Waits     == {"discovery", "list", "workers", "hold"}
Quantum   == "quantum"
Foreign   == "foreign"

Confs     == [mode : {"gang", "rehearsal", "observe"},
              provider : {"qrmi", "braket", "none"},
              late : SUBSET Late, foreign : SUBSET Gated2]
AppPcs    == {"begin", "working", "submitted", "result", "holding", "releasing",
              "leaving", "exited", "killed"}
TaskStates == {"none", "queued", "near", "running", "completed", "failed", "cancelled"}
SidePcs   == {"resolve", "read", "marker", "search", "poll", "list", "annotate", "gate",
              "hold", "mark", "exit"}
SideType  == {v \in [pc : SidePcs, found : BOOLEAN, errors : 0 .. (MaxErrors - 1),
                     targets : SUBSET Workers, pod : Workers \cup {NoWorker},
                     code : {0, 1}] :
                v.pc = "gate" => v.pod # NoWorker}
WorkerType == [phase : {"absent", "pending", "running", "over"},
               gates : Seq({Quantum, Foreign}), job : BOOLEAN, sess : BOOLEAN]

(* Files, processes and pods are typed; the sidecar never polls on with      *)
(* MaxErrors errors behind it, and lifts the gate of a pod.                 *)
TypeOK ==
  /\ conf \in Confs
  /\ app \in AppPcs
  /\ session \in {"none", "open", "closed"}
  /\ task \in TaskStates
  /\ files \in [record : BOOLEAN, exited : BOOLEAN, done : BOOLEAN]
  /\ side \in SideType
  /\ worker \in [Workers -> WorkerType]
  /\ faults \in Nat
  /\ expired \subseteq Waits

Init ==
  /\ conf \in Confs
  /\ app = "begin"
  /\ session = "none"
  /\ task = "none"
  /\ files = [record |-> FALSE, exited |-> FALSE, done |-> FALSE]
  /\ side = [pc |-> "resolve", found |-> FALSE, errors |-> 0, targets |-> {},
             pod |-> NoWorker, code |-> 0]
  /\ worker = [w \in Workers |-> [phase |-> "absent", gates |-> <<>>,
                                  job |-> FALSE, sess |-> FALSE]]
  /\ faults = 0
  /\ expired = {}

-----------------------------------------------------------------------------
\* A call succeeds, or fails within the bound.
Call(ok) ==
  /\ ok \/ faults < MaxFaults
  /\ faults' = IF ok THEN faults ELSE faults + 1

\* A wait may reach its deadline whenever it looks at it.
Expires(kind) == expired' = expired \cup {kind}

-----------------------------------------------------------------------------
(* The application, through the interceptor's patches.                      *)

\* acquire opens a session on a premium QRMI plan; a refused one continues.
Acquire(ok) ==
  /\ app = "begin"
  /\ app' = "working"
  /\ session' = IF ok /\ conf.provider = "qrmi" THEN "open" ELSE "none"
  /\ UNCHANGED <<conf, task, files, side, worker, faults, expired>>

\* task_start or run: the vendor has the task before anybody hears of it.
Submit ==
  /\ app = "working"
  /\ \A w \in Workers \ conf.late : worker[w].phase # "absent"
  /\ app' = "submitted"
  /\ task' = "queued"
  /\ UNCHANGED <<conf, session, files, side, worker, faults, expired>>

\* A rehearsal, or a failure before the submission.
SkipSubmit ==
  /\ app = "working"
  /\ app' = IF session = "open" THEN "releasing" ELSE "leaving"
  /\ UNCHANGED <<conf, session, task, files, side, worker, faults, expired>>

\* The QRMI hook publishes the job id; Braket's has tagged the task instead.
Publish(ok) ==
  /\ app = "submitted" /\ Call(ok)
  /\ app' = "result"
  /\ files' = [files EXCEPT !.record = ok /\ conf.provider = "qrmi"]
  /\ UNCHANGED <<conf, session, task, side, worker, expired>>

\* release: only a scout that submitted has workers to hold the session for.
BeginRelease ==
  /\ app = "result"
  /\ app' = IF session # "open" THEN "leaving"
            ELSE IF conf.mode = "observe" THEN "releasing" ELSE "holding"
  /\ UNCHANGED <<conf, session, task, files, side, worker, faults, expired>>

HoldEnds ==
  /\ app = "holding" /\ files.done
  /\ app' = "releasing"
  /\ UNCHANGED <<conf, session, task, files, side, worker, faults, expired>>

\* Seeded fault: the hold has no time-out.
HoldExpiresNever == FALSE /\ UNCHANGED vars

HoldExpires ==
  /\ app = "holding" /\ Expires("hold")
  /\ app' = "releasing"
  /\ UNCHANGED <<conf, session, task, files, side, worker, faults>>

Release ==
  /\ app = "releasing"
  /\ session' = "closed"
  /\ app' = "leaving"
  /\ UNCHANGED <<conf, task, files, side, worker, faults, expired>>

\* Seeded fault: the exit is marked whether or not a task was published.
ExitMarkerAlways == TRUE

\* mark_scout_exited writes nothing when a record can be read.
ExitMarker == ~files.record

Exit(ok) ==
  /\ app = "leaving" /\ Call(ok)
  /\ app' = "exited"
  /\ files' = [files EXCEPT !.exited = ok /\ ExitMarker]
  /\ UNCHANGED <<conf, session, task, side, worker, expired>>

\* No atexit hook runs in a process that is killed.
Kill ==
  /\ app \notin {"exited", "killed"} /\ Call(FALSE)
  /\ app' = "killed"
  /\ UNCHANGED <<conf, session, task, files, side, worker, expired>>

-----------------------------------------------------------------------------
(* The vendor's queue.                                                      *)

Advance ==
  /\ \/ task = "queued"  /\ task' = "near"
     \/ task = "near"    /\ task' = "running"
     \/ task = "running" /\ task' = "completed"
  /\ UNCHANGED <<conf, app, session, files, side, worker, faults, expired>>

Fail ==
  /\ \/ task \in {"queued", "near"} /\ task' = "cancelled"
     \/ task = "running" /\ task' = "failed"
  /\ UNCHANGED <<conf, app, session, files, side, worker, faults, expired>>

-----------------------------------------------------------------------------
(* The sidecar: find the task.                                              *)

\* A process that can do nothing more for the workers exits, leaving a code.
GiveUp(code) == side' = [side EXCEPT !.pc = "exit", !.code = code]

\* find_my_task returned nothing: only a rehearsal releases the workers.
NotFound ==
  IF conf.mode = "rehearsal" THEN side' = [side EXCEPT !.pc = "list"] ELSE GiveUp(1)

Resolve ==
  /\ side.pc = "resolve"
  /\ CASE conf.provider = "none"   -> GiveUp(1)
       [] conf.provider = "qrmi"   -> side' = [side EXCEPT !.pc = "read"]
       [] conf.provider = "braket" -> side' = [side EXCEPT !.pc = "marker"]
  /\ UNCHANGED <<conf, app, session, task, files, worker, faults, expired>>

\* QRMI looks for the record first and for the exit marker second ...
ReadRecord ==
  /\ side.pc = "read"
  /\ side' = IF files.record THEN [side EXCEPT !.pc = "poll", !.found = TRUE]
             ELSE [side EXCEPT !.pc = "marker"]
  /\ UNCHANGED <<conf, app, session, task, files, worker, faults, expired>>

\* ... Braket for the marker first, and searches the vendor second.
ReadMarker ==
  /\ side.pc = "marker"
  /\ IF files.exited THEN NotFound
     ELSE side' = [side EXCEPT !.pc = IF conf.provider = "qrmi" THEN "read" ELSE "search"]
  /\ UNCHANGED <<conf, app, session, task, files, worker, faults, expired>>

\* The vendor lists a task some time after it has it, or refuses the search.
Search ==
  /\ side.pc = "search"
  /\ \/ side' = [side EXCEPT !.pc = "marker"] /\ faults' = faults
     \/ task # "none" /\ side' = [side EXCEPT !.pc = "poll", !.found = TRUE] /\ faults' = faults
     \/ Call(FALSE) /\ NotFound
  /\ UNCHANGED <<conf, app, session, task, files, worker, expired>>

DiscoveryExpires ==
  /\ \/ side.pc = "read"
     \/ side.pc = "marker" /\ conf.provider = "braket"
  /\ Expires("discovery") /\ NotFound
  /\ UNCHANGED <<conf, app, session, task, files, worker, faults>>

-----------------------------------------------------------------------------
(* The sidecar: poll until the task is usable.                              *)

Failed == task \in {"failed", "cancelled"}

\* Seeded fault: a task that has been submitted is as good as one that runs.
ReadyQueued == task \in {"queued", "near", "running", "completed"}

\* Seeded fault: a task that completed between two polls is not noticed.
ReadyRunning == task = "running" \/ (conf.provider = "braket" /\ task = "near")

\* Braket also reports a position in the queue; QRMI does not.
Ready == task \in {"running", "completed"} \/ (conf.provider = "braket" /\ task = "near")

\* Observe mode ends with its answer; a task the gang cannot use frees the scout.
Verdict(usable) ==
  side' = IF conf.mode = "observe"
          THEN [side EXCEPT !.pc = "exit", !.code = IF usable THEN 0 ELSE 1]
          ELSE [side EXCEPT !.pc = IF usable THEN "list" ELSE "mark",
                            !.code = IF usable THEN 0 ELSE 1]

\* task_failed, then is_ready_to_ungate. No step of the vendor between the two
\* changes the outcome, so both read one state.
Poll ==
  /\ side.pc = "poll"
  /\ IF Failed THEN Verdict(FALSE)
     ELSE IF Ready THEN Verdict(TRUE)
     ELSE side' = [side EXCEPT !.errors = 0]
  /\ UNCHANGED <<conf, app, session, task, files, worker, faults, expired>>

\* Seeded fault: one error more than the limit.
PollErrorLate(fatal) ==
  /\ side.pc = "poll" /\ Call(FALSE)
  /\ IF fatal \/ side.errors + 1 > MaxErrors THEN Verdict(FALSE)
     ELSE side' = [side EXCEPT !.errors = @ + 1]
  /\ UNCHANGED <<conf, app, session, task, files, worker, expired>>

\* A call that fails is retried MaxErrors times, one that cannot work never.
PollError(fatal) ==
  /\ side.pc = "poll" /\ Call(FALSE)
  /\ IF fatal \/ side.errors + 1 = MaxErrors THEN Verdict(FALSE)
     ELSE side' = [side EXCEPT !.errors = @ + 1]
  /\ UNCHANGED <<conf, app, session, task, files, worker, expired>>

-----------------------------------------------------------------------------
(* The sidecar: release the workers.                                        *)

Present == {w \in Workers : worker[w].phase # "absent"}
Gated   == {w \in Present : Quantum \in {worker[w].gates[i] : i \in DOMAIN worker[w].gates}}

\* The first look that finds a gated pod is the last.
List ==
  /\ side.pc = "list" /\ Gated # {}
  /\ side' = [side EXCEPT !.pc = "annotate", !.targets = Gated]
  /\ UNCHANGED <<conf, app, session, task, files, worker, faults, expired>>

ListExpires ==
  /\ side.pc = "list" /\ Expires("list")
  /\ side' = [side EXCEPT !.pc = "hold"]
  /\ UNCHANGED <<conf, app, session, task, files, worker, faults>>

\* Seeded fault: the gate is lifted before the pod is told of the task.
AnnotateNothing(w, ok) ==
  /\ side.pc = "annotate" /\ w \in side.targets /\ Call(ok)
  /\ side' = [side EXCEPT !.pc = "gate", !.pod = w]
  /\ UNCHANGED <<conf, app, session, task, files, worker, expired>>

\* The job id when a task was found, the session when the record has one. A
\* failure is logged and the gate is lifted all the same.
Annotate(w, ok) ==
  /\ side.pc = "annotate" /\ w \in side.targets /\ Call(ok)
  /\ side' = [side EXCEPT !.pc = "gate", !.pod = w]
  /\ worker' = IF ~ok THEN worker ELSE
       [worker EXCEPT ![w].job  = side.found,
                      ![w].sess = side.found /\ conf.provider = "qrmi" /\ session # "none"]
  /\ UNCHANGED <<conf, app, session, task, files, expired>>

\* Seeded fault: the loop over the pods ends after the first.
RemoveGateOnce(ok) ==
  /\ side.pc = "gate" /\ Call(ok)
  /\ ok => worker[side.pod].gates # <<>>
  /\ side' = [side EXCEPT !.targets = {}, !.pod = NoWorker, !.pc = "hold"]
  /\ worker' = IF ok THEN [worker EXCEPT ![side.pod].gates = Tail(@)] ELSE worker
  /\ UNCHANGED <<conf, app, session, task, files, expired>>

\* The patch removes the first gate of the pod; nobody tries a failed one again.
RemoveGate(ok) ==
  /\ side.pc = "gate" /\ Call(ok)
  /\ ok => worker[side.pod].gates # <<>>
  /\ LET left == side.targets \ {side.pod}
     IN side' = [side EXCEPT !.targets = left, !.pod = NoWorker,
                             !.pc = IF left = {} THEN "hold" ELSE "annotate"]
  /\ worker' = IF ok THEN [worker EXCEPT ![side.pod].gates = Tail(@)] ELSE worker
  /\ UNCHANGED <<conf, app, session, task, files, expired>>

-----------------------------------------------------------------------------
(* The sidecar: keep the session until the workers are done.                *)

\* Seeded fault: one finished worker ends the wait for all of them.
PodsDoneAny == \E w \in Present : worker[w].phase = "over"

PodsDone == \A w \in Present : worker[w].phase = "over"

Hold ==
  /\ side.pc = "hold" /\ PodsDone
  /\ side' = [side EXCEPT !.pc = "mark"]
  /\ UNCHANGED <<conf, app, session, task, files, worker, faults, expired>>

WorkersExpires ==
  /\ side.pc = "hold" /\ Expires("workers")
  /\ side' = [side EXCEPT !.pc = "mark"]
  /\ UNCHANGED <<conf, app, session, task, files, worker, faults>>

Mark(ok) ==
  /\ side.pc = "mark" /\ Call(ok)
  /\ side' = [side EXCEPT !.pc = "exit"]
  /\ files' = [files EXCEPT !.done = ok]
  /\ UNCHANGED <<conf, app, session, task, worker, expired>>

SideKill ==
  /\ side.pc # "exit" /\ Call(FALSE) /\ GiveUp(1)
  /\ UNCHANGED <<conf, app, session, task, files, worker, expired>>

-----------------------------------------------------------------------------
(* The workers: their controller, the owner of a foreign gate, the scheduler.*)

\* gateWithName appends the quantum gate to the gates a pod came with.
Create(w) ==
  /\ conf.mode # "observe" /\ worker[w].phase = "absent"
  /\ worker' = [worker EXCEPT ![w].phase = "pending",
       ![w].gates = IF w \in conf.foreign THEN <<Foreign, Quantum>> ELSE <<Quantum>>]
  /\ UNCHANGED <<conf, app, session, task, files, side, faults, expired>>

LiftForeign(w) ==
  /\ \E i \in DOMAIN worker[w].gates : worker[w].gates[i] = Foreign
  /\ worker' = [worker EXCEPT ![w].gates = IF w \in Gated THEN <<Quantum>> ELSE <<>>]
  /\ UNCHANGED <<conf, app, session, task, files, side, faults, expired>>

\* The workers are one gang: they are bound together or not at all.
Start ==
  /\ \A w \in Workers : worker[w].phase = "pending" /\ worker[w].gates = <<>>
  /\ worker' = [w \in Workers |-> [worker[w] EXCEPT !.phase = "running"]]
  /\ UNCHANGED <<conf, app, session, task, files, side, faults, expired>>

Finish(w) ==
  /\ worker[w].phase = "running"
  /\ worker' = [worker EXCEPT ![w].phase = "over"]
  /\ UNCHANGED <<conf, app, session, task, files, side, faults, expired>>

-----------------------------------------------------------------------------
AppStep ==
  \/ \E ok \in BOOLEAN : Acquire(ok) \/ Publish(ok) \/ Exit(ok)
  \/ Submit \/ SkipSubmit \/ BeginRelease \/ HoldEnds \/ Release

SideStep ==
  \/ Resolve \/ ReadRecord \/ ReadMarker \/ Search \/ Poll \/ List \/ Hold
  \/ \E fatal \in BOOLEAN : PollError(fatal)
  \/ \E ok \in BOOLEAN : RemoveGate(ok) \/ Mark(ok) \/ \E w \in Workers : Annotate(w, ok)

WorkerStep ==
  \/ \E w \in Workers : Create(w) \/ LiftForeign(w) \/ Finish(w)
  \/ Start

Next ==
  \/ AppStep \/ HoldExpires \/ Kill
  \/ SideStep \/ DiscoveryExpires \/ ListExpires \/ WorkersExpires \/ SideKill
  \/ WorkerStep
  \/ Advance \/ Fail

Spec == Init /\ [][Next]_vars

(* Processes that are not killed go on, and clocks do. A deadline passes in  *)
(* the middle of a polling loop, hence SF for the one whose loop has steps.  *)
Fairness ==
  /\ WF_vars(AppStep) /\ WF_vars(SideStep) /\ WF_vars(Advance) /\ WF_vars(WorkerStep)
  /\ WF_vars(HoldExpires) /\ WF_vars(ListExpires) /\ WF_vars(WorkersExpires)
  /\ SF_vars(DiscoveryExpires)

FairSpec == Spec /\ Fairness

-----------------------------------------------------------------------------
(* Properties.                                                              *)

Lifted(w) == worker[w].phase # "absent" /\ w \notin Gated

Usable ==
  \/ task \in {"running", "completed", "failed"}
  \/ conf.provider = "braket" /\ task \in {"near", "cancelled"}

(* A worker's quantum gate is gone only when the task has come to the front  *)
(* of the vendor's queue, or the user labelled the run a rehearsal and no    *)
(* task was found: nodes are never taken for a task that still waits         *)
(* (sidecar.py main, is_ready_to_ungate).                                    *)
UngatedOnlyWhenUsable ==
  \A w \in Workers : Lifted(w) => (IF side.found THEN Usable ELSE conf.mode = "rehearsal")

(* Until a wait runs into its time-out, a worker that runs with a session   *)
(* runs in an open one, whatever failed on the way (_hold_for_workers,       *)
(* patched_release).                                                         *)
SessionOutlivesWorkers ==
  expired = {} => \A w \in Workers :
    worker[w].phase = "running" /\ worker[w].sess => session = "open"

(* When nothing fails, no worker of a run with a task starts without the job *)
(* id: the annotation lands before the gate goes (ungate_pods).              *)
JobIdBeforeStart ==
  faults = 0 /\ conf.mode = "gang" =>
    \A w \in Workers : worker[w].phase \in {"running", "over"} => worker[w].job

(* When nothing fails and no deadline passes, a sidecar that stops looking   *)
(* for a QRMI task is right: there is none, and there will be none           *)
(* (handoff.wait against publish and mark_scout_exited).                     *)
GivenUp == side.pc \notin {"resolve", "read", "marker", "search"} /\ ~side.found

GiveUpOnlyWithoutTask ==
  GivenUp /\ conf.provider = "qrmi" /\ faults = 0 /\ expired = {} => task = "none"

(* The sidecar exits: every one of its waits ends.                          *)
SidecarEnds == <>(side.pc = "exit")

(* A session that was opened is closed again, unless the scout is killed     *)
(* (patched_release, its time-out, and the marker of a sidecar that gives up).*)
SessionEnds == session = "open" ~> (session = "closed" \/ app = "killed")

(* A gang whose workers exist when the task completes, with no gate but the  *)
(* quantum one, runs to the end unless a call fails or a search times out.   *)
GangServed ==
  /\ task = "completed" /\ conf.mode = "gang" /\ conf.provider = "qrmi"
  /\ conf.late = {} /\ conf.foreign = {}
  ~> \/ \A w \in Workers : worker[w].phase = "over"
     \/ faults > 0 \/ expired \cap {"discovery", "list"} # {}

(* The sidecar removes the gate it was told to remove and no other one       *)
(* (docs/coordination-handler-design.md:139).                                *)
OwnGateOnly ==
  [][\A w \in Workers : (\E ok \in BOOLEAN : RemoveGate(ok)) /\ w \in Gated
        /\ worker'[w].gates # worker[w].gates => Lifted(w)']_vars

(* The scout never holds its session for a sidecar that has given up        *)
(* without telling it (docs/quantum-scheduling.md).                          *)
NoHoldForNobody ==
  ~(app = "holding" /\ side.pc = "exit" /\ ~files.done /\ faults = 0)
=============================================================================
