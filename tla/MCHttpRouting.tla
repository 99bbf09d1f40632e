---------------------------- MODULE MCHttpRouting ----------------------------
(***************************************************************************)
(* Instances of HttpRouting for TLC.                                       *)
(***************************************************************************)
EXTENDS HttpRouting, TLC

CONSTANTS u1, u2, d1, d2, r1, r2

Symmetries == Permutations({r1, r2}) \cup Permutations({u1, u2}) \cup Permutations({d1, d2})

=============================================================================
