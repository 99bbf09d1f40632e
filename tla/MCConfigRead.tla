---------------------------- MODULE MCConfigRead ----------------------------
(***************************************************************************)
(* An instance of ConfigRead for TLC: a GET next to mutations that add,    *)
(* remove and activate upstreams, switch one listener and add and remove   *)
(* another, and to a stop.                                                 *)
(***************************************************************************)
EXTENDS ConfigRead, MCControlPlane

ReadRequests ==
    Upserts({Open(u1, s1), Open(u2, s1)})
        \cup OnUpstreams({u1, u2})
        \cup Switches({l1}, {u1, u2})
        \cup Puts({Lis(l2, "http", a2, u2, TRUE)})
        \cup Deletes({l2})

=============================================================================
