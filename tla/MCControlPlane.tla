--------------------------- MODULE MCControlPlane ---------------------------
(***************************************************************************)
(* Instances of the control plane for TLC.  Three addresses: one of the    *)
(* default listener, one more, one that overlaps it (0.0.0.0:p and         *)
(* 127.0.0.1:p); and the admin address.                                    *)
(***************************************************************************)
EXTENDS ControlPlaneInvariant, TLC

CONSTANTS u1, u2, l1, l2, s1, s2, a1, a2, a3, web, usr, pw1, pw2, c1, c2

Clients2 == Permutations({c1, c2})

MCClash ==
    {<<a, a>> : a \in {a1, a2, a3, web}} \cup {<<a2, a3>>, <<a3, a2>>}

Up(id, server, user, pass) == [id |-> id, server |-> server, user |-> user, pass |-> pass]

Open(id, server) == Up(id, server, None, None)

Lis(id, type, addr, upstream, enabled) ==
    [id |-> id, type |-> type, addr |-> addr, upstream |-> upstream, enabled |-> enabled]

OneDefault == {Lis(l1, "http", a1, None, TRUE)}

OldFile ==
    [active |-> u1, upstreams |-> {Open(u1, s1)}, listeners |-> {}, null |-> TRUE]

FirstStarts == {NoFile, OldFile}

----------------------------------------------------------------------------

Upserts(items) == [kind : {"upsertUpstream"}, item : items]

OnUpstreams(ids) == [kind : {"deleteUpstream", "activate"}, id : ids]

Puts(items) == [kind : {"upsertListener"}, item : items]

Switches(ids, upstreams) == [kind : {"switchListener"}, id : ids, upstream : upstreams]

Deletes(ids) == [kind : {"deleteListener"}, id : ids]

(* Requests of every kind, the refused ones among them: an upstream that   *)
(* does not exist or is in use, a malformed address, the address of        *)
(* another program, of the admin listener, or one that overlaps another.   *)
AllRequests ==
    Upserts({Open(u1, s1), Open(u2, s1), Open(u2, Malformed)})
        \cup OnUpstreams({u1, u2})
        \cup Puts({Lis(l1, "http", a, u, e) : a \in {a1, a2}, u \in {None, u1}, e \in BOOLEAN})
        \cup Puts({Lis(l2, "http", a, u2, TRUE) : a \in {a3, web, Malformed}})
        \cup Deletes({l1, l2})
        \cup Switches({l1, l2}, {u1, u2})

(* Edits of an upstream with and without its credentials.                  *)
CredentialRequests ==
    Upserts({Up(u1, s, u, p) : s \in {s1, s2}, u \in {None, usr}, p \in {None, pw1, pw2}})
        \cup Upserts({Open(u2, s1), Up(u2, s2, usr, None)})
        \cup OnUpstreams({u1, u2})

(* One listener that moves and comes and goes, one upstream.               *)
MoveRequests ==
    Upserts({Open(u1, s1)})
        \cup OnUpstreams({u1})
        \cup Puts({Lis(l1, t, a, None, e) : t \in {"http", "socks5"}, a \in {a1, a2}, e \in BOOLEAN})
        \cup Deletes({l1})

(* Moves of two listeners onto addresses that overlap, and the admin's.    *)
RecoveryRequests ==
    Puts({Lis(l1, "http", a, None, e) : a \in {a1, a2, web}, e \in BOOLEAN})
        \cup Puts({Lis(l2, "http", a3, None, TRUE)})
        \cup Deletes({l1, l2})

=============================================================================
