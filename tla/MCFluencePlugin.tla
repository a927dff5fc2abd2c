-------------------------- MODULE MCFluencePlugin --------------------------
(* Instances of FluencePlugin small enough for TLC. Groups a and b; nodes n1 *)
(* and n2.                                                                   *)
EXTENDS FluencePluginInvariants, TLC

CONSTANTS a, b, a1, a2, b1, n1, n2, s1, s2, s3

\* Gang a of two pods, the leader a1 wanting a backend, and the lone pod b1.
MCGroupOf  == a1 :> a @@ a2 :> a @@ b1 :> b
MCMinCount == a :> 2 @@ b :> 1
\* Two slots on n1, one on n2.
MCNodeOf   == s1 :> n1 @@ s2 :> n1 @@ s3 :> n2
\* a2 tolerates only n1; b1 only n2; a1 runs anywhere.
MCIncompat == a1 :> {} @@ a2 :> {n2} @@ b1 :> {n1}

\* The gang fits on n1 only, b1 anywhere: b1 can take a slot the gang needs.
ContendedIncompat == a1 :> {n2} @@ a2 :> {n2} @@ b1 :> {}

\* Two lone pods that want the only backend.
SoloGroupOf  == a1 :> a @@ b1 :> b
SoloMinCount == a :> 1 @@ b :> 1
SoloNodeOf   == s1 :> n1 @@ s3 :> n2
SoloIncompat == a1 :> {n1} @@ b1 :> {}
=============================================================================
