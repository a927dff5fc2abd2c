---------------------------- MODULE MCAdmission ----------------------------
(* Instances of Admission small enough for TLC: the gang g of a0 and a1, and *)
(* the lone pod b.                                                           *)
EXTENDS Admission, TLC

CONSTANTS ga, a0, a1, b, c1, c2

PairGroup == a0 :> ga @@ a1 :> ga @@ b :> NoGroup
OwnerSize == a0 :> "owner" @@ a1 :> "owner" @@ b :> "count"
PairSize  == a0 :> 2 @@ a1 :> 2 @@ b :> 1
MCCores   == a0 :> 1 @@ a1 :> 1 @@ b :> 2
\* The lone pod and the gang do not fit together.
TightCores == a0 :> 1 @@ a1 :> 1 @@ b :> 3
=============================================================================
