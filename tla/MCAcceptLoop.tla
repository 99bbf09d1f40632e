---------------------------- MODULE MCAcceptLoop ----------------------------
(***************************************************************************)
(* Instances of AcceptLoop for TLC.                                        *)
(***************************************************************************)
EXTENDS AcceptLoop

CONSTANTS c1, c2, c3

=============================================================================
