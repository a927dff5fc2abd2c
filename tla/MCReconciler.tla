---------------------------- MODULE MCReconciler ----------------------------
(* Instances of Reconciler small enough for TLC: the gang gw of two workers, *)
(* its scout group gs, and a user's group gu.                                *)
EXTENDS Reconciler, TLC

CONSTANTS gw, gs, gu, w1, w2, sc

\* A shared quantum gang: the scout sc lifts the workers' gates.
SharedGroupOf  == w1 :> gw @@ w2 :> gw @@ sc :> gs
SharedGates    == w1 :> sc @@ w2 :> sc
SharedScout    == gw :> gs @@ gs :> NoGroup
SharedMinCount == gw :> 2 @@ gs :> 1

\* A plain gang next to a user's PodGroup; nothing bears the scout's name.
PlainGroupOf   == w1 :> gw @@ w2 :> gw
PlainScout     == SharedScout @@ gu :> NoGroup
PlainMinCount  == SharedMinCount @@ gu :> 1
NoGates        == <<>>
=============================================================================
