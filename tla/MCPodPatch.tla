----------------------------- MODULE MCPodPatch -----------------------------
(* Instances of PodPatch small enough for TLC: pods of two containers.       *)
EXTENDS PodPatch

MCUserWords == {"user", "secret", "mine", "coordination", "observe", "rehearsal", "TOKEN", "data",
                "qpu", "fpga", "main", "helper", "default", "other"}

User(names) == {<<n, "user">> : n \in names}
Group       == <<"group", Gang>>

\* Missing, empty and filled fields, with names that clash with the webhook's.
PodShapes ==
  [ann  : {Absent, {}, User({"mine", "admitted-cores"}), User({"coordination"})},
   lab  : {Absent, {}, {Group}, User({"observe", "rehearsal"}), {Group} \cup User({"rehearsal"})},
   env1 : {Absent, {}, User({"PYTHONPATH"}), User({"FLUXION_REGION"}) \cup {<<"TOKEN", "secret">>}},
   env2 : {Absent, User({"FLUENCE_POD_UID"})},
   vol  : {Absent, User({"data"}), User({"handoff"})},
   req  : {{"qpu"}, {"fpga"}, {}},
   rest : {Absent, User({"default"}), User({"other"})}]

Submission(c) ==
  [slot \in Slots |->
     CASE slot = Of("annotations") -> c.ann
       [] slot = Of("labels")      -> c.lab
       [] slot = Of("volumes")     -> c.vol
       [] slot = Of("containers")  -> User({"main", "helper"})
       [] slot = Env(1)            -> c.env1
       [] slot = Env(2)            -> c.env2
       [] slot = Mounts(1)         -> c.vol
       [] slot = Requests(1)       -> User(c.req)
       [] slot = Requests(2)       -> User(c.req \cap {"qpu"})
       [] slot[1] \in {"gates", "serviceAccount", "priorityClass"} -> c.rest
       [] OTHER -> Absent]
MCSubmissions == {Submission(c) : c \in PodShapes}

\* The default, another order, a subset with a name nobody registered.
MCFlags == {<<>>, <<"gang", "quantum", "fluxion">>, <<"quantum", "nosuch", "gang">>}
=============================================================================
