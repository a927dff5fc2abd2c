---------------------------- MODULE GroupGrants ----------------------------
(***************************************************************************)
(* What the scheduler plugin promises about allocations, without jobids,   *)
(* goroutines or annotations: a group is granted everything it needs in    *)
(* one step, on resources nobody else is granted, and gives it all up in   *)
(* one step. There is no partial grant.                                    *)
(***************************************************************************)
CONSTANTS Groups, Slots, Backends

VARIABLE granted

Grant   == [slots : SUBSET Slots, backends : SUBSET Backends]
Nothing == [slots |-> {}, backends |-> {}]

Init == granted = [g \in Groups |-> Nothing]

GrantAll(g) ==
  /\ granted[g] = Nothing
  /\ \E r \in Grant :
       /\ r.slots # {}
       /\ \A h \in Groups \ {g} : /\ r.slots \cap granted[h].slots = {}
                                  /\ r.backends \cap granted[h].backends = {}
       /\ granted' = [granted EXCEPT ![g] = r]

ReleaseAll(g) ==
  /\ granted[g] # Nothing
  /\ granted' = [granted EXCEPT ![g] = Nothing]

Next == \E g \in Groups : GrantAll(g) \/ ReleaseAll(g)

Spec == Init /\ [][Next]_granted
=============================================================================
