------------------------------- MODULE Config -------------------------------
(***************************************************************************)
(* The configuration record of sk5proxy and its validation                 *)
(* (internal/config/config.go).                                            *)
(*                                                                         *)
(* A slice of upstreams or listeners is a set of records: no decision of   *)
(* the control plane depends on their order.  Every textual format rule    *)
(* (ID pattern, trimmed non-empty names, host:port) is one rule: the text  *)
(* is not Malformed.  The empty string of an optional field is None.       *)
(*                                                                         *)
(* One fact about slices does matter and is kept: a Go slice is nil or     *)
(* not, JSON writes a nil slice as null, and loadConfig takes a null for   *)
(* a file of an older version.  Field null says that Listeners is nil.     *)
(***************************************************************************)
CONSTANTS
    UpstreamIds,   \* well-formed IDs of upstream proxies
    ListenerIds,   \* well-formed IDs of local listeners
    Servers,       \* host:port of upstream proxies
    Addresses,     \* host:port a listening socket can be bound to
    Users,         \* upstream usernames
    Secrets,       \* upstream passwords
    Protocols,     \* what a listener speaks: socks5, http
    None,          \* the empty string
    Malformed,     \* stands for every text a format rule refuses
    NoFile,        \* an absent configuration file
    DefaultListeners   \* what app.Run offers loadConfig

ASSUME ConfigAssumption ==
    /\ None \notin UpstreamIds \cup Users \cup Secrets
    /\ Malformed \notin Servers \cup Addresses

Upstream == [id : UpstreamIds, server : Servers \cup {Malformed},
             user : Users \cup {None}, pass : Secrets \cup {None}]

Listener == [id : ListenerIds, type : Protocols, addr : Addresses \cup {Malformed},
             upstream : UpstreamIds \cup {None}, enabled : BOOLEAN]

ConfigRecord == [active : UpstreamIds \cup {None}, upstreams : SUBSET Upstream,
                 listeners : SUBSET Listener, null : BOOLEAN]

EmptyConfig == [active |-> None, upstreams |-> {}, listeners |-> {}, null |-> TRUE]

Ids(items) == {x.id : x \in items}

Addrs(items) == {x.addr : x \in items}

Enabled(listeners) == {l \in listeners : l.enabled}

UniqueIds(items) == \A x, y \in items : x.id = y.id => x = y

----------------------------------------------------------------------------
(* Validate: what Load, Save and both Prepare functions insist on.         *)

ValidUpstream(u) ==
    /\ u.server # Malformed
    /\ (u.user = None) <=> (u.pass = None)

\* Variant: the host:port check of a listener is missing.
AnyAddressListener(l, known) == l.upstream \in known \cup {None}

ValidListener(l, known) ==
    /\ l.addr # Malformed
    /\ l.upstream \in known \cup {None}

Validate(cfg) ==
    /\ \A u \in cfg.upstreams : ValidUpstream(u)
    /\ UniqueIds(cfg.upstreams)
    /\ cfg.active \in Ids(cfg.upstreams) \cup {None}
    /\ \A l \in cfg.listeners : ValidListener(l, Ids(cfg.upstreams))
    /\ UniqueIds(cfg.listeners)
    /\ \A l, k \in Enabled(cfg.listeners) : l.addr = k.addr => l = k

----------------------------------------------------------------------------
(* loadConfig (internal/app/config.go): what a start finds in the file, or *)
(* puts there.  A configuration without listeners gets the default ones,   *)
(* routed through the upstream an old version had active.                  *)

Provisioned(file) ==
    IF file = NoFile
    THEN [active |-> None, upstreams |-> {}, listeners |-> DefaultListeners, null |-> FALSE]
    ELSE IF ~file.null THEN file
    ELSE [file EXCEPT !.null = FALSE,
            !.listeners = {[l EXCEPT !.upstream = IF @ = None THEN file.active ELSE @] :
                              l \in DefaultListeners}]

(* currentConfig (internal/api/handler.go): a configuration read back from *)
(* memory, where a copy of an empty slice of listeners is nil.             *)
Current(cfg) == [cfg EXCEPT !.null = (cfg.listeners = {})]

=============================================================================
