-------------------------- MODULE Mutations_proofs --------------------------
(***************************************************************************)
(* What the requests of the admin API do to a configuration, for every     *)
(* configuration and every request.                                        *)
(***************************************************************************)
EXTENDS Mutations, TLAPS

(* Storing an upstream keeps it an upstream.                               *)
LEMMA StoredIsUpstream ==
    ASSUME NEW upstreams \in SUBSET Upstream, NEW item \in Upstream
    PROVE  /\ WithStoredPassword(item, upstreams) \in Upstream
           /\ WithStoredPassword(item, upstreams).id = item.id
<1>1. CASE item.id \notin Ids(upstreams)
  BY <1>1 DEF WithStoredPassword
<1>2. CASE item.id \in Ids(upstreams)
  <2>1. PICK u \in upstreams : u.id = item.id
    BY <1>2 DEF Ids
  <2>2. (CHOOSE v \in upstreams : v.id = item.id) \in upstreams
    BY <2>1
  <2>3. (CHOOSE v \in upstreams : v.id = item.id).pass \in Secrets \cup {None}
    BY <2>2 DEF Upstream
  <2> QED BY <1>2, <2>3 DEF WithStoredPassword, Upstream
<1> QED BY <1>1, <1>2

(* A request turns a configuration into a configuration (the handlers in   *)
(* mutations.go and listeners.go).                                         *)
THEOREM EditedIsConfig ==
    ASSUME NEW cfg \in ConfigRecord, NEW req \in Request
    PROVE  Edited(cfg, req) \in ConfigRecord
<1>1. CASE req.kind = "upsertUpstream"
  <2>1. req.item \in Upstream
    BY <1>1 DEF Request
  <2>2. WithStoredPassword(req.item, cfg.upstreams) \in Upstream
    BY <2>1, StoredIsUpstream DEF ConfigRecord
  <2> QED BY <1>1, <2>2 DEF Edited, UpsertUpstream, ConfigRecord, Without
<1>2. CASE req.kind = "deleteUpstream"
  BY <1>2 DEF Edited, DeleteUpstream, ConfigRecord, Without
<1>3. CASE req.kind = "activate"
  BY <1>3 DEF Edited, ActivateUpstream, ConfigRecord, Request
<1>4. CASE req.kind = "upsertListener"
  <2>1. req.item \in Listener
    BY <1>4 DEF Request
  <2> QED BY <1>4, <2>1 DEF Edited, UpsertListener, ConfigRecord, Without
<1>5. CASE req.kind = "deleteListener"
  BY <1>5 DEF Edited, DeleteListener, ConfigRecord, Without
<1>6. CASE req.kind = "switchListener"
  <2>1. req.upstream \in UpstreamIds \cup {None}
    BY <1>6 DEF Request
  <2>2. \A l \in cfg.listeners : [l EXCEPT !.upstream = req.upstream] \in Listener
    BY <2>1 DEF ConfigRecord, Listener
  <2> QED BY <1>6, <2>2 DEF Edited, SwitchListener, ConfigRecord, Without
<1> QED BY <1>1, <1>2, <1>3, <1>4, <1>5, <1>6 DEF Request

(* Only a configuration without listeners is written as null: a request    *)
(* that names a listener writes a slice, the others keep what was read.    *)
LEMMA EditedNull ==
    ASSUME NEW cfg \in ConfigRecord, NEW req \in Request,
           cfg.null => cfg.listeners = {},
           ~Refused(cfg, req)
    PROVE  Edited(cfg, req).null => Edited(cfg, req).listeners = {}
<1>1. CASE req.kind = "upsertUpstream"
  BY <1>1 DEF Edited, UpsertUpstream, ConfigRecord
<1>2. CASE req.kind = "deleteUpstream"
  BY <1>2 DEF Edited, DeleteUpstream, ConfigRecord
<1>3. CASE req.kind = "activate"
  BY <1>3 DEF Edited, ActivateUpstream, ConfigRecord
<1>4. CASE req.kind = "upsertListener"
  BY <1>4 DEF Edited, UpsertListener, ConfigRecord
<1>5. CASE req.kind = "deleteListener"
  BY <1>5 DEF Edited, DeleteListener, ConfigRecord
<1>6. CASE req.kind = "switchListener"
  <2>1. cfg.listeners # {}
    BY <1>6 DEF Refused, Ids
  <2> QED BY <1>6, <2>1 DEF Edited, SwitchListener, ConfigRecord
<1> QED BY <1>1, <1>2, <1>3, <1>4, <1>5, <1>6 DEF Request

(* A request that is not refused removes no upstream a listener names:     *)
(* deleteUpstream looks for references, no other handler removes one.      *)
THEOREM EditedKeepsRoutes ==
    ASSUME NEW cfg \in ConfigRecord, NEW req \in Request,
           Validate(cfg), ~Refused(cfg, req),
           NEW l \in cfg.listeners
    PROVE  l.upstream \in Ids(Edited(cfg, req).upstreams) \cup {None}
<1> DEFINE id == l.upstream
<1>1. id \in Ids(cfg.upstreams) \cup {None}
  BY DEF Validate, ValidListener
<1> SUFFICES ASSUME id # None
             PROVE  id \in Ids(Edited(cfg, req).upstreams)
  OBVIOUS
<1>2. PICK u \in cfg.upstreams : u.id = id
  BY <1>1 DEF Ids
<1>3. CASE req.kind = "upsertUpstream"
  <2> DEFINE new == WithStoredPassword(req.item, cfg.upstreams)
  <2>1. req.item \in Upstream
    BY <1>3 DEF Request
  <2>2. new.id = req.item.id
    BY <2>1, StoredIsUpstream DEF ConfigRecord
  <2>3. Edited(cfg, req).upstreams = Without(cfg.upstreams, req.item.id) \cup {new}
    BY <1>3 DEF Edited, UpsertUpstream, ConfigRecord
  <2> QED BY <1>2, <2>2, <2>3 DEF Ids, Without
<1>4. CASE req.kind = "deleteUpstream"
  <2>1. u.id # req.id
    BY <1>2, <1>4 DEF Refused
  <2>2. Edited(cfg, req).upstreams = Without(cfg.upstreams, req.id)
    BY <1>4 DEF Edited, DeleteUpstream, ConfigRecord
  <2> QED BY <1>2, <2>1, <2>2 DEF Ids, Without
<1>5. CASE req.kind \notin {"upsertUpstream", "deleteUpstream"}
  <2>1. Edited(cfg, req).upstreams = cfg.upstreams
    BY <1>5 DEF Edited, ActivateUpstream, UpsertListener, DeleteListener, SwitchListener,
                ConfigRecord, Request
  <2> QED BY <1>2, <2>1 DEF Ids
<1> QED BY <1>3, <1>4, <1>5

(* Deleting an upstream that is not refused leaves a valid configuration:  *)
(* a delete is never answered with 400.                                    *)
THEOREM DeleteNeverInvalid ==
    ASSUME NEW cfg \in ConfigRecord, NEW req \in Request,
           req.kind \in {"deleteUpstream", "deleteListener", "activate"},
           Validate(cfg), ~Refused(cfg, req)
    PROVE  Validate(Edited(cfg, req))
<1> DEFINE new == Edited(cfg, req)
<1>1. CASE req.kind = "deleteUpstream"
  <2>1. new = [cfg EXCEPT !.upstreams = Without(cfg.upstreams, req.id)]
    BY <1>1 DEF Edited, DeleteUpstream
  <2>2. /\ new.upstreams = Without(cfg.upstreams, req.id)
        /\ new.active = cfg.active
        /\ new.listeners = cfg.listeners
    BY <2>1 DEF ConfigRecord
  <2>3. \A l \in new.listeners : ValidListener(l, Ids(new.upstreams))
    BY <2>2, EditedKeepsRoutes DEF Validate, ValidListener
  <2>4. new.active \in Ids(new.upstreams) \cup {None}
    <3>1. cfg.active # req.id
      BY <1>1 DEF Refused
    <3> QED BY <2>2, <3>1 DEF Validate, Ids, Without
  <2>5. (\A u \in new.upstreams : ValidUpstream(u)) /\ UniqueIds(new.upstreams)
    BY <2>2 DEF Validate, UniqueIds, Without
  <2> QED BY <2>2, <2>3, <2>4, <2>5 DEF Validate
<1>2. CASE req.kind = "deleteListener"
  <2>1. /\ new.upstreams = cfg.upstreams
        /\ new.active = cfg.active
        /\ new.listeners = Without(cfg.listeners, req.id)
    BY <1>2 DEF Edited, DeleteListener, ConfigRecord
  <2> QED BY <2>1 DEF Validate, UniqueIds, Without, Enabled
<1>3. CASE req.kind = "activate"
  <2>1. /\ new.upstreams = cfg.upstreams
        /\ new.active = req.id
        /\ new.listeners = cfg.listeners
    BY <1>3 DEF Edited, ActivateUpstream, ConfigRecord
  <2>2. req.id \in Ids(cfg.upstreams)
    BY <1>3 DEF Refused
  <2> QED BY <2>1, <2>2 DEF Validate
<1> QED BY <1>1, <1>2, <1>3

(* Sending an upstream back without its password changes nothing.          *)
THEOREM EditWithoutPassword ==
    ASSUME NEW cfg \in ConfigRecord, Validate(cfg), NEW u \in cfg.upstreams
    PROVE  UpsertUpstream(cfg, [u EXCEPT !.pass = None]) = cfg
<1> DEFINE item == [u EXCEPT !.pass = None]
           old  == CHOOSE v \in cfg.upstreams : v.id = item.id
<1>1. u \in Upstream /\ cfg.upstreams \in SUBSET Upstream
  BY DEF ConfigRecord
<1>2. item.id = u.id /\ item.user = u.user /\ item.pass = None
  BY <1>1 DEF Upstream
<1>3. \A v \in cfg.upstreams : v.id = u.id => v = u
  BY DEF Validate, UniqueIds
<1>4. old = u
  BY <1>2, <1>3
<1>5. u.user = None <=> u.pass = None
  BY DEF Validate, ValidUpstream
<1>6. WithStoredPassword(item, cfg.upstreams) = u
  <2>1. item.id \in Ids(cfg.upstreams)
    BY <1>2 DEF Ids
  <2>2. WithStoredPassword(item, cfg.upstreams) =
          [item EXCEPT !.pass = IF item.user = None THEN None
                                ELSE IF item.pass # None THEN item.pass ELSE old.pass]
    BY <2>1 DEF WithStoredPassword
  <2>3. WithStoredPassword(item, cfg.upstreams) = [item EXCEPT !.pass = u.pass]
    BY <1>2, <1>4, <1>5, <2>2
  <2> QED BY <1>1, <2>3 DEF Upstream
<1>7. Without(cfg.upstreams, item.id) \cup {u} = cfg.upstreams
  BY <1>2, <1>3 DEF Without
<1>8. UpsertUpstream(cfg, item) = [cfg EXCEPT !.upstreams = cfg.upstreams]
  BY <1>6, <1>7 DEF UpsertUpstream
<1> QED BY <1>8 DEF ConfigRecord

----------------------------------------------------------------------------

(* No request edits both upstreams and listeners (mutations.go edits       *)
(* active and upstreams, listeners.go listeners).                          *)
LEMMA EditedOneSide ==
    ASSUME NEW cfg \in ConfigRecord, NEW req \in Request
    PROVE  \/ Edited(cfg, req).listeners = cfg.listeners
           \/ /\ Edited(cfg, req).active = cfg.active
              /\ Edited(cfg, req).upstreams = cfg.upstreams
<1>1. CASE req.kind = "upsertUpstream"
  BY <1>1 DEF Edited, UpsertUpstream, ConfigRecord
<1>2. CASE req.kind = "deleteUpstream"
  BY <1>2 DEF Edited, DeleteUpstream, ConfigRecord
<1>3. CASE req.kind = "activate"
  BY <1>3 DEF Edited, ActivateUpstream, ConfigRecord
<1>4. CASE req.kind = "upsertListener"
  BY <1>4 DEF Edited, UpsertListener, ConfigRecord
<1>5. CASE req.kind = "deleteListener"
  BY <1>5 DEF Edited, DeleteListener, ConfigRecord
<1>6. CASE req.kind = "switchListener"
  BY <1>6 DEF Edited, SwitchListener, ConfigRecord
<1> QED BY <1>1, <1>2, <1>3, <1>4, <1>5, <1>6 DEF Request

Stored(upstreams, item) ==
    Without(upstreams, item.id) \cup {WithStoredPassword(item, upstreams)}

(* Storing again what has been stored changes nothing, with or without a   *)
(* password in the request.                                                *)
LEMMA StoredTwice ==
    ASSUME NEW upstreams \in SUBSET Upstream, NEW item \in Upstream,
           ValidUpstream(WithStoredPassword(item, upstreams)),
           NEW new, new = Stored(upstreams, item)
    PROVE  Stored(new, item) = new
<1> DEFINE w         == WithStoredPassword(item, upstreams)
           pass(old) == IF item.user = None THEN None
                        ELSE IF item.pass # None THEN item.pass ELSE old
<1>0. new = Without(upstreams, item.id) \cup {w}
  BY DEF Stored
<1>1. w \in Upstream /\ w.id = item.id
  BY StoredIsUpstream
<1>2. item.id \in Ids(new)
  BY <1>0, <1>1 DEF Ids
<1>3. (CHOOSE u \in new : u.id = item.id) = w
  <2>1. \A u \in new : u.id = item.id => u = w
    BY <1>0 DEF Without
  <2>2. w \in new
    BY <1>0
  <2> QED BY <1>1, <2>1, <2>2
<1>4. WithStoredPassword(item, new) = [item EXCEPT !.pass = pass(w.pass)]
  <2>1. WithStoredPassword(item, new) =
          [item EXCEPT !.pass = pass((CHOOSE u \in new : u.id = item.id).pass)]
    BY <1>2 DEF WithStoredPassword
  <2> HIDE DEF pass
  <2> QED BY <1>3, <2>1
<1>5. [item EXCEPT !.pass = pass(w.pass)] = w
  <2>1. CASE item.id \notin Ids(upstreams)
    <3>1. w = item
      BY <2>1 DEF WithStoredPassword
    <3>2. pass(w.pass) = item.pass
      BY <3>1 DEF ValidUpstream
    <3> QED BY <3>1, <3>2 DEF Upstream
  <2>2. CASE item.id \in Ids(upstreams)
    <3> DEFINE old == (CHOOSE u \in upstreams : u.id = item.id).pass
    <3>1. w = [item EXCEPT !.pass = pass(old)]
      BY <2>2 DEF WithStoredPassword
    <3>2. w.pass = pass(old)
      BY <3>1 DEF Upstream
    <3>3. pass(w.pass) = pass(old)
      BY <3>2
    <3> QED BY <3>1, <3>3
  <2> QED BY <2>1, <2>2
<1>6. Without(new, item.id) \cup {w} = new
  BY <1>0, <1>1 DEF Without
<1> QED BY <1>4, <1>5, <1>6 DEF Stored

Switched(listeners, id, up) ==
    Without(listeners, id) \cup
        {[l EXCEPT !.upstream = up] : l \in {k \in listeners : k.id = id}}

(* So does switching a listener to the upstream it already uses.           *)
LEMMA SwitchedTwice ==
    ASSUME NEW listeners \in SUBSET Listener, NEW id \in ListenerIds,
           NEW up \in UpstreamIds \cup {None},
           NEW new, new = Switched(listeners, id, up)
    PROVE  Switched(new, id, up) = new
<1> DEFINE to == {[l EXCEPT !.upstream = up] : l \in {k \in listeners : k.id = id}}
<1>1. \A l \in to : l.id = id /\ [l EXCEPT !.upstream = up] = l
  BY DEF Listener
<1>2. {k \in new : k.id = id} = to
  BY <1>1 DEF Without, Switched
<1>3. {[l EXCEPT !.upstream = up] : l \in to} = to
  BY <1>1
<1>4. Without(new, id) = Without(listeners, id)
  BY <1>1 DEF Without, Switched
<1>5. Switched(new, id, up) = Without(new, id) \cup {[l EXCEPT !.upstream = up] : l \in to}
  BY <1>2 DEF Switched
<1> QED BY <1>3, <1>4, <1>5 DEF Switched

(* A request that comes again is refused or changes nothing, also when a   *)
(* start has put default listeners in the place of null meanwhile: every   *)
(* handler sets what it edits to a value of the request's.                 *)
THEOREM EditedRepeats ==
    ASSUME NEW cfg \in ConfigRecord, NEW req \in Request,
           cfg.null => cfg.listeners = {},
           ~Refused(cfg, req), Validate(Edited(cfg, req)),
           NEW next \in ConfigRecord,
           next.active = Edited(cfg, req).active,
           next.upstreams = Edited(cfg, req).upstreams,
           ~Edited(cfg, req).null => next.listeners = Edited(cfg, req).listeners
    PROVE  Repeated(Current(next), req)
<1> DEFINE new == Edited(cfg, req)
           cur == Current(next)
<1>1. /\ cur \in ConfigRecord
      /\ cur.active = next.active /\ cur.upstreams = next.upstreams
      /\ cur.listeners = next.listeners
  BY DEF Current, ConfigRecord
<1>2. CASE req.kind = "upsertUpstream"
  <2>1. req.item \in Upstream /\ cfg.upstreams \in SUBSET Upstream
    BY <1>2 DEF Request, ConfigRecord
  <2>2. new.upstreams = Stored(cfg.upstreams, req.item)
    BY <1>2 DEF Edited, UpsertUpstream, Stored, ConfigRecord
  <2>3. ValidUpstream(WithStoredPassword(req.item, cfg.upstreams))
    BY <2>2 DEF Validate, Stored
  <2>4. Stored(cur.upstreams, req.item) = cur.upstreams
    BY <1>1, <2>1, <2>2, <2>3, StoredTwice
  <2>5. Edited(cur, req) = [cur EXCEPT !.upstreams = cur.upstreams]
    BY <1>2, <2>4 DEF Edited, UpsertUpstream, Stored
  <2> QED BY <1>1, <2>5 DEF Repeated, ConfigRecord
<1>3. CASE req.kind = "deleteUpstream"
  <2>1. new.upstreams = Without(cfg.upstreams, req.id)
    BY <1>3 DEF Edited, DeleteUpstream, ConfigRecord
  <2>2. req.id \notin Ids(cur.upstreams)
    BY <1>1, <2>1 DEF Ids, Without
  <2> QED BY <1>3, <2>2 DEF Repeated, Refused
<1>4. CASE req.kind = "activate"
  <2>1. new.active = req.id
    BY <1>4 DEF Edited, ActivateUpstream, ConfigRecord
  <2>2. Edited(cur, req) = [cur EXCEPT !.active = cur.active]
    BY <1>1, <1>4, <2>1 DEF Edited, ActivateUpstream
  <2> QED BY <1>1, <2>2 DEF Repeated, ConfigRecord
<1>5. CASE req.kind = "upsertListener"
  <2>1. new.listeners = Without(cfg.listeners, req.item.id) \cup {req.item} /\ ~new.null
    BY <1>5 DEF Edited, UpsertListener, ConfigRecord
  <2>2. Without(cur.listeners, req.item.id) \cup {req.item} = cur.listeners
    BY <1>1, <2>1 DEF Without
  <2>3. Edited(cur, req) = [cur EXCEPT !.listeners = cur.listeners, !.null = FALSE]
    BY <1>5, <2>2 DEF Edited, UpsertListener
  <2> QED BY <1>1, <2>3 DEF Repeated, ConfigRecord
<1>6. CASE req.kind = "deleteListener"
  <2>1. new.listeners = Without(cfg.listeners, req.id) /\ ~new.null
    BY <1>6 DEF Edited, DeleteListener, ConfigRecord
  <2>2. req.id \notin Ids(cur.listeners)
    BY <1>1, <2>1 DEF Ids, Without
  <2> QED BY <1>6, <2>2 DEF Repeated, Refused
<1>7. CASE req.kind = "switchListener"
  <2>1. req.id \in ListenerIds /\ req.upstream \in UpstreamIds \cup {None}
        /\ cfg.listeners \in SUBSET Listener
    BY <1>7 DEF Request, ConfigRecord
  <2>2. ~cfg.null
    BY <1>7 DEF Refused, Ids
  <2>3. new.listeners = Switched(cfg.listeners, req.id, req.upstream) /\ ~new.null
    BY <1>7, <2>2 DEF Edited, SwitchListener, Switched, ConfigRecord
  <2>4. Switched(cur.listeners, req.id, req.upstream) = cur.listeners
    BY <1>1, <2>1, <2>3, SwitchedTwice
  <2>5. Edited(cur, req) = [cur EXCEPT !.listeners = cur.listeners]
    BY <1>7, <2>4 DEF Edited, SwitchListener, Switched
  <2> QED BY <1>1, <2>5 DEF Repeated, ConfigRecord
<1> QED BY <1>2, <1>3, <1>4, <1>5, <1>6, <1>7 DEF Request

=============================================================================
