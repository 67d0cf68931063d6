--------------------------- MODULE MCLocalReplica ---------------------------
(***************************************************************************)
(* LocalReplica for TLC, with the smallest value of the counter, whose      *)
(* negation overflows, among the deltas.                                    *)
(***************************************************************************)
EXTENDS LocalReplica

MCDeltas == {-Half, 1}
=============================================================================
