--------------------------- MODULE MCCoordination ---------------------------
(* An instance of Coordination: two workers, of which w2 may be created late *)
(* or come with a gate of its own.                                           *)
EXTENDS Coordination

CONSTANTS w1, w2
=============================================================================
