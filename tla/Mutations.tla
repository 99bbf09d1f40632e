------------------------------ MODULE Mutations ------------------------------
(***************************************************************************)
(* What each request of the admin API does to a configuration              *)
(* (internal/api/mutations.go, internal/api/listeners.go), as a function   *)
(* of the configuration the handler has read.  Refused are the handler's   *)
(* own 404 and 409 answers, Edited is the configuration it then hands to   *)
(* persistAndInstall.                                                      *)
(***************************************************************************)
EXTENDS Config

Request ==
    [kind : {"upsertUpstream"}, item : Upstream]
        \cup [kind : {"deleteUpstream", "activate"}, id : UpstreamIds]
        \cup [kind : {"upsertListener"}, item : Listener]
        \cup [kind : {"deleteListener"}, id : ListenerIds]
        \cup [kind : {"switchListener"}, id : ListenerIds, upstream : UpstreamIds \cup {None}]

Without(items, id) == {x \in items : x.id # id}

----------------------------------------------------------------------------
(* Upstreams.  A PUT that replaces an upstream may leave the password out: *)
(* the stored one is then kept, unless the username was cleared too.       *)

\* Variant: an edit stores the request as it came.
AsSent(item, upstreams) == item

WithStoredPassword(item, upstreams) ==
    IF item.id \notin Ids(upstreams)
    THEN item
    ELSE [item EXCEPT !.pass = IF item.user = None THEN None
                               ELSE IF item.pass # None THEN item.pass
                               ELSE (CHOOSE u \in upstreams : u.id = item.id).pass]

UpsertUpstream(cfg, item) ==
    [cfg EXCEPT !.upstreams = Without(@, item.id) \cup {WithStoredPassword(item, @)}]

DeleteUpstream(cfg, id) == [cfg EXCEPT !.upstreams = Without(@, id)]

ActivateUpstream(cfg, id) == [cfg EXCEPT !.active = id]

----------------------------------------------------------------------------
(* Listeners.  replaceListener and deleteListener build a non-nil slice,   *)
(* also when the last listener goes.                                       *)

UpsertListener(cfg, item) ==
    [cfg EXCEPT !.listeners = Without(@, item.id) \cup {item}, !.null = FALSE]

\* Variant: a switch also makes the upstream the active one.
SwitchActivates(cfg, id, upstream) ==
    [cfg EXCEPT !.active = upstream, !.listeners =
        Without(@, id) \cup {[l EXCEPT !.upstream = upstream] : l \in {k \in @ : k.id = id}}]

SwitchListener(cfg, id, upstream) ==
    [cfg EXCEPT !.listeners =
        Without(@, id) \cup {[l EXCEPT !.upstream = upstream] : l \in {k \in @ : k.id = id}}]

\* Variant: what is left is copied to a slice that starts out as nil.
DeleteIntoNil(cfg, id) ==
    [cfg EXCEPT !.listeners = Without(@, id), !.null = (Without(cfg.listeners, id) = {})]

DeleteListener(cfg, id) ==
    [cfg EXCEPT !.listeners = Without(@, id), !.null = FALSE]

----------------------------------------------------------------------------

Refused(cfg, req) ==
    \/ /\ req.kind = "deleteUpstream"
       /\ \/ cfg.active = req.id
          \/ \E l \in cfg.listeners : l.upstream = req.id
          \/ req.id \notin Ids(cfg.upstreams)
    \/ /\ req.kind = "activate"
       /\ req.id \notin Ids(cfg.upstreams)
    \/ /\ req.kind \in {"switchListener", "deleteListener"}
       /\ req.id \notin Ids(cfg.listeners)

Edited(cfg, req) ==
    CASE req.kind = "upsertUpstream" -> UpsertUpstream(cfg, req.item)
      [] req.kind = "deleteUpstream" -> DeleteUpstream(cfg, req.id)
      [] req.kind = "activate"       -> ActivateUpstream(cfg, req.id)
      [] req.kind = "upsertListener" -> UpsertListener(cfg, req.item)
      [] req.kind = "deleteListener" -> DeleteListener(cfg, req.id)
      [] req.kind = "switchListener" -> SwitchListener(cfg, req.id, req.upstream)

----------------------------------------------------------------------------

(* A request finds nothing left to do: it is refused, or edits nothing.    *)
Repeated(cfg, req) ==
    Refused(cfg, req) \/ [Edited(cfg, req) EXCEPT !.null = cfg.null] = cfg

=============================================================================
