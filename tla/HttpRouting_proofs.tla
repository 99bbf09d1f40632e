------------------------- MODULE HttpRouting_proofs -------------------------
(***************************************************************************)
(* HttpRouting's safety, for any sets of upstreams, dialers, entries and   *)
(* requests and any number of mutations.                                   *)
(***************************************************************************)
EXTENDS HttpRouting, TLAPS

----------------------------------------------------------------------------
(* What the helpers return.                                                *)

(* What a route leads to in a table is the upstream it names, with the     *)
(* dialer that the table has for it.                                       *)
LEMMA RoutedVia ==
    ASSUME NEW table \in Table, NEW id \in UpstreamIds \cup {None}
    PROVE  /\ Routed(id, table) \in SUBSET Via
           /\ \A v \in Routed(id, table) : v.id = id
           /\ id # None => Routed(id, table) \subseteq Installed(table)
<1> USE RoutingAssumption DEF Table, Via
<1>1. CASE id = None \/ table[id] = None
  BY <1>1 DEF Routed
<1>2. CASE id # None /\ table[id] # None
  <2>1. Routed(id, table) = {[id |-> id, dialer |-> table[id]]}
    BY <1>2 DEF Routed
  <2>2. id \in UpstreamIds /\ table[id] \in Dialers
    BY <1>2
  <2>3. Routed(id, table) \subseteq Installed(table)
    BY <2>2 DEF Installed
  <2> QED
    BY <2>1, <2>2, <2>3
<1> QED
  BY <1>1, <1>2

(* What is installed is what some route leads to.                          *)
LEMMA InstalledRouted ==
    ASSUME NEW table \in Table, NEW v \in Installed(table)
    PROVE  v \in Via /\ v \in Routed(v.id, table)
<1>1. PICK u \in UpstreamIds : v \in Routed(u, table)
  BY DEF Installed
<1> QED
  BY <1>1, RoutedVia

(* What is installed, as a set.                                            *)
LEMMA InstalledType == \A table \in Table : Installed(table) \in SUBSET Via
  BY InstalledRouted

----------------------------------------------------------------------------
(* The steps of a request.                                                 *)

(* A goroutine's record is what its parts are.                             *)
LEMMA GoroutineType ==
    ASSUME NEW pc \in {"idle", "arrived"}, NEW e \in Entries,
           NEW routes \in SUBSET (UpstreamIds \cup {None}), NEW vias \in SUBSET Via
    PROVE  Goroutine(pc, e, routes, vias) \in Progress
<1> Goroutine(pc, e, routes, vias) =
        [pc |-> pc, entry |-> e, transport |-> 0, id |-> None, via |-> {},
         wanted |-> TRUE, routes |-> routes, vias |-> vias]
  BY DEF Goroutine
<1> QED
  BY RoutingAssumption DEF Progress, Numbers

(* A request changes nothing that a mutation reads or writes.              *)
LEMMA ForwardLeaves ==
    ASSUME NEW r \in Requests, Forward(r)
    PROVE  UNCHANGED <<dialers, upstreams, member, route, transport, change, changes, inEffect>>
BY DEF Forward, Arrive, Reuse, HandOver, TakeTransport, ReadRoute, Lookup, NoActive, Connected,
       Broken, Abandon, Respond, ConnectedLate, BecomesIdle, routing

(* A connection that becomes idle changes hands: the request that waits is *)
(* carried by it, its dial stays behind in the place of the one that had   *)
(* the connection.                                                         *)
LEMMA HandedOver ==
    ASSUME req \in [Requests -> Progress], NEW r \in Requests, NEW p \in Requests, HandOver(r, p)
    PROVE  /\ p # r /\ At(p) = At(r)
           /\ req[r].pc \in {"dialing", "using"} /\ req[p].pc \in {"routed", "dialing"}
           /\ req'[r] = [req[p] EXCEPT !.wanted = FALSE]
           /\ req'[p] = [req[p] EXCEPT !.pc = "using", !.id = None, !.via = req[r].via]
<1>1. p # r
  BY DEF HandOver
<1>2. req' = [req EXCEPT ![r] = [req[p] EXCEPT !.wanted = FALSE],
                         ![p] = [req[p] EXCEPT !.pc = "using", !.id = None, !.via = req[r].via]]
  BY <1>1 DEF HandOver
<1>3. req'[r] = [req[p] EXCEPT !.wanted = FALSE]
  BY <1>1, <1>2
<1>4. req'[p] = [req[p] EXCEPT !.pc = "using", !.id = None, !.via = req[r].via]
  BY <1>1, <1>2
<1> QED
  BY <1>1, <1>3, <1>4 DEF HandOver

(* Nobody else notices.                                                    *)
LEMMA OthersKept ==
    ASSUME req \in [Requests -> Progress],
           NEW r \in Requests, NEW p \in Requests, HandOver(r, p),
           NEW q \in Requests, q # r, q # p
    PROVE  req'[q] = req[q]
BY DEF HandOver

(* The types of both are kept.                                             *)
LEMMA HandOverTypes ==
    ASSUME req \in [Requests -> Progress], NEW r \in Requests, NEW p \in Requests, HandOver(r, p)
    PROVE  req' \in [Requests -> Progress]
<1> DEFINE left    == [req[p] EXCEPT !.wanted = FALSE]
           carried == [req[p] EXCEPT !.pc = "using", !.id = None, !.via = req[r].via]
<1>1. req[p] \in Progress /\ req[r] \in Progress
  OBVIOUS
<1>2. left \in Progress
  BY <1>1 DEF Progress
<1>3. req[r].via \in SUBSET Via
  BY <1>1 DEF Progress
<1>4. carried \in Progress
  BY <1>1, <1>3 DEF Progress
<1>5. req' = [req EXCEPT ![r] = left, ![p] = carried]
  BY DEF HandOver
<1> HIDE DEF left, carried
<1> QED
  BY <1>2, <1>4, <1>5

(* A request's steps keep the types.                                       *)
LEMMA ForwardTypes ==
    ASSUME TypeOK, NEW r \in Requests, Forward(r)
    PROVE  TypeOK'
<1> USE DEF TypeOK
<1> SUFFICES idle' \in SUBSET Pooled /\ closing' \in SUBSET Transports
             /\ req' \in [Requests -> Progress]
  BY ForwardLeaves
<1>a. req[r] \in Progress /\ req[r].entry \in Entries /\ req[r].via \in SUBSET Via
  BY DEF Progress
<1>b. \A q \in Requests : At(q) \in Transports
  BY DEF At, Transports, Progress
<1>c. End(r) \in [Requests -> Progress]
  <2>1. Idle(req[r].entry) \in Progress
    BY <1>a, GoroutineType DEF Idle
  <2> QED
    BY <2>1 DEF End
<1>d. \A q \in Requests : \A via \in SUBSET Via :
        {[transport |-> At(q), via |-> v] : v \in via} \in SUBSET Pooled
  BY <1>b DEF Pooled
<1>e. \A q \in Requests : Routed(req[q].id, dialers) \in SUBSET Via
  <2>1. \A q \in Requests : req[q].id \in UpstreamIds \cup {None}
    BY DEF Progress
  <2> QED
    BY <2>1, RoutedVia
<1>1. ASSUME NEW e \in Entries, Arrive(r, e) PROVE req' \in [Requests -> Progress] /\ UNCHANGED <<idle, closing>>
  <2>1. Goroutine("arrived", e, inEffect.routes[e], inEffect.vias) \in Progress
    BY GoroutineType
  <2> QED
    BY <2>1, <1>1 DEF Arrive
<1>2. ASSUME TakeTransport(r) PROVE req' \in [Requests -> Progress] /\ UNCHANGED <<idle, closing>>
  <2>1. transport[req[r].entry] \in Numbers
    BY <1>a
  <2>2. [req[r] EXCEPT !.pc = "trip", !.transport = transport[req[r].entry]] \in Progress
    BY <2>1, <1>a DEF Progress
  <2> QED
    BY <1>2, <2>2 DEF TakeTransport
<1>3. ASSUME NEW c \in idle, Reuse(r, c)
      PROVE  idle' \in SUBSET Pooled /\ closing' \in SUBSET Transports /\ req' \in [Requests -> Progress]
  <2>1. {c.via} \in SUBSET Via
    BY DEF Pooled
  <2>2. [req[r] EXCEPT !.pc = "using", !.via = {c.via}] \in Progress
    BY <2>1, <1>a DEF Progress
  <2> QED
    BY <1>3, <2>2 DEF Reuse
<1>4. ASSUME ReadRoute(r)
      PROVE  idle' \in SUBSET Pooled /\ closing' \in SUBSET Transports /\ req' \in [Requests -> Progress]
  <2>1. route[req[r].entry] \in UpstreamIds \cup {None}
    BY <1>a DEF Routes
  <2>2. [req[r] EXCEPT !.pc = "routed", !.id = route[req[r].entry]] \in Progress
    BY <2>1, <1>a DEF Progress
  <2> QED
    BY <1>4, <2>2 DEF ReadRoute
<1>5. ASSUME Lookup(r) PROVE req' \in [Requests -> Progress] /\ UNCHANGED <<idle, closing>>
  <2>1. [req[r] EXCEPT !.pc = "dialing", !.via = Routed(req[r].id, dialers)] \in Progress
    BY <1>a, <1>e DEF Progress
  <2> QED
    BY <1>5, <2>1 DEF Lookup
<1>6. ASSUME Connected(r) PROVE req' \in [Requests -> Progress] /\ UNCHANGED <<idle, closing>>
  <2>1. [req[r] EXCEPT !.pc = "using", !.id = None] \in Progress
    BY <1>a DEF Progress
  <2> QED
    BY <1>6, <2>1 DEF Connected
<1>7. ASSUME NoActive(r) \/ Broken(r) PROVE req' \in [Requests -> Progress] /\ UNCHANGED <<idle, closing>>
  BY <1>7, <1>c DEF NoActive, Broken
<1>8. ASSUME Respond(r) \/ ConnectedLate(r)
      PROVE  idle' \in SUBSET Pooled /\ closing' = closing /\ req' \in [Requests -> Progress]
  <2>1. {[transport |-> At(r), via |-> v] : v \in req[r].via} \in SUBSET Pooled
    BY <1>a, <1>d
  <2> QED
    BY <2>1, <1>8, <1>c DEF Respond, ConnectedLate, BecomesIdle
<1>9. ASSUME NEW q \in Requests, HandOver(r, q)
      PROVE  req' \in [Requests -> Progress] /\ UNCHANGED <<idle, closing>>
  BY <1>9, HandOverTypes DEF HandOver
<1>10. ASSUME Abandon(r) PROVE req' \in [Requests -> Progress] /\ UNCHANGED <<idle, closing>>
  <2>1. [req[r] EXCEPT !.wanted = FALSE] \in Progress
    BY <1>a DEF Progress
  <2> QED
    BY <1>10, <2>1 DEF Abandon
<1> QED
  BY <1>1, <1>2, <1>3, <1>4, <1>5, <1>6, <1>7, <1>8, <1>9, <1>10 DEF Forward

(* What transports have pooled, and will, stays within routes and dialers  *)
(* that include those of now, whatever requests do.                        *)
LEMMA ForwardOnlyVia ==
    ASSUME TypeOK, NEW r \in Requests, Forward(r),
           NEW t \in Transports, NEW routes, NEW vias, OnlyVia(t, routes, vias),
           route[t[1]] \in routes, Installed(dialers) \subseteq vias
    PROVE  OnlyVia(t, routes, vias)'
<1>a. \A q \in Requests : At(q) = <<req[q].entry, req[q].transport>>
  BY DEF At
<1>b. \A q \in Requests : At(q)' = <<req'[q].entry, req'[q].transport>>
  BY DEF At
<1>c. \A q \in Requests : req[q] \in Progress /\ req'[q] \in Progress
  BY ForwardTypes DEF TypeOK
<1>d. \A q \in Requests, v \in Via :
        v \in Routed(req[q].id, dialers) => v.id = req[q].id /\ v \in vias
  <2> SUFFICES ASSUME NEW q \in Requests, NEW v \in Via, v \in Routed(req[q].id, dialers)
               PROVE  v.id = req[q].id /\ v \in vias
    OBVIOUS
  <2>1. req[q].id \in UpstreamIds \cup {None} /\ dialers \in Table
    BY <1>c DEF Progress, TypeOK
  <2>2. req[q].id # None
    BY DEF Routed
  <2> QED
    BY <2>1, <2>2, RoutedVia
<1>e. \A q \in Requests : Routed(req[q].id, dialers) \in SUBSET Via
  <2>1. \A q \in Requests : req[q].id \in UpstreamIds \cup {None} /\ dialers \in Table
    BY <1>c DEF Progress, TypeOK
  <2> QED
    BY <2>1, RoutedVia
<1>f. \A q \in Requests : End(r)[q] = IF q = r THEN Idle(req[r].entry) ELSE req[q]
  BY DEF End, TypeOK
<1>g. Idle(req[r].entry).pc = "idle"
  BY DEF Idle, Goroutine
<1>1. ASSUME NEW c \in idle', c.transport = t
      PROVE  c.via.id \in routes /\ c.via \in vias
  <2>1. CASE c \in idle
    BY <2>1, <1>1 DEF OnlyVia
  <2>2. ASSUME c \notin idle, Respond(r) \/ ConnectedLate(r)
        PROVE  c.via.id \in routes /\ c.via \in vias
    <3>1. PICK v \in req[r].via : c = [transport |-> At(r), via |-> v]
      BY <2>2 DEF Respond, ConnectedLate, BecomesIdle
    <3>2. Holds(r) /\ At(r) = t /\ req[r].pc \in {"dialing", "using"} /\ c.via = v
      BY <3>1, <2>2, <1>1 DEF Respond, ConnectedLate, Holds
    <3> QED
      BY <3>2 DEF OnlyVia
  <2>3. c \in idle \/ Respond(r) \/ ConnectedLate(r)
    BY DEF Forward, Arrive, Reuse, HandOver, TakeTransport, ReadRoute, Lookup, NoActive, Connected,
           Broken, Abandon
  <2> QED
    BY <2>1, <2>2, <2>3
<1>2. ASSUME NEW q \in Requests, Holds(q)', At(q)' = t
      PROVE  /\ req'[q].pc \in {"routed", "dialing"} => req'[q].id \in routes
             /\ req'[q].pc \in {"dialing", "using"} =>
                   \A v \in req'[q].via : v.id \in routes /\ v \in vias
  <2> USE DEF TypeOK
  <2>1. CASE req'[q] = req[q]
    <3>1. Holds(q) /\ At(q) = t
      BY <2>1, <1>2, <1>a, <1>b DEF Holds
    <3> QED
      BY <3>1, <2>1 DEF OnlyVia
  <2>2. ASSUME q = r, NEW e \in Entries, Arrive(r, e) PROVE FALSE
    <3>1. req'[q].pc = "arrived"
      BY <2>2 DEF Arrive, Goroutine
    <3> QED
      BY <3>1, <1>2 DEF Holds
  <2>3. ASSUME q = r, TakeTransport(r) PROVE req'[q].pc = "trip"
    BY <2>3, <1>c DEF TakeTransport, Progress
  <2>4. ASSUME q = r, NEW c \in idle, Reuse(r, c)
        PROVE  req'[q].pc = "using" /\ \A v \in req'[q].via : v.id \in routes /\ v \in vias
    <3>1. /\ req'[q].pc = "using" /\ req'[q].via = {c.via}
          /\ req'[q].entry = req[q].entry /\ req'[q].transport = req[q].transport
      BY <2>4, <1>c DEF Reuse, Progress
    <3>2. c.transport = t
      BY <3>1, <2>4, <1>2, <1>a, <1>b DEF Reuse
    <3> QED
      BY <3>1, <3>2 DEF OnlyVia
  <2>5. ASSUME q = r, ReadRoute(r)
        PROVE  req'[q].pc = "routed" /\ req'[q].id \in routes
    <3>1. /\ req'[q].pc = "routed" /\ req'[q].id = route[req[q].entry]
          /\ req'[q].entry = req[q].entry
      BY <2>5, <1>c DEF ReadRoute, Progress
    <3>2. req[q].entry = t[1]
      BY <3>1, <1>2, <1>b
    <3> QED
      BY <3>1, <3>2
  <2>6. ASSUME q = r, Lookup(r)
        PROVE  /\ req'[q].pc = "dialing" /\ req'[q].id \in routes
               /\ \A v \in req'[q].via : v.id \in routes /\ v \in vias
    <3>1. /\ req'[q].pc = "dialing" /\ req'[q].via = Routed(req[q].id, dialers)
          /\ req'[q].id = req[q].id /\ req[q].pc = "routed"
          /\ req'[q].entry = req[q].entry /\ req'[q].transport = req[q].transport
      BY <2>6, <1>c DEF Lookup, Progress
    <3>2. Holds(q) /\ At(q) = t
      BY <3>1, <1>2, <1>a, <1>b DEF Holds
    <3>3. req[q].id \in routes
      BY <3>1, <3>2 DEF OnlyVia
    <3> QED
      BY <3>1, <3>3, <1>d, <1>e
  <2>7. ASSUME q = r, Connected(r)
        PROVE  req'[q].pc = "using" /\ \A v \in req'[q].via : v.id \in routes /\ v \in vias
    <3>1. /\ req'[q].pc = "using" /\ req'[q].via = req[q].via
          /\ req[q].pc = "dialing"
          /\ req'[q].entry = req[q].entry /\ req'[q].transport = req[q].transport
      BY <2>7, <1>c DEF Connected, Progress
    <3>2. Holds(q) /\ At(q) = t
      BY <3>1, <1>2, <1>a, <1>b DEF Holds
    <3> QED
      BY <3>1, <3>2 DEF OnlyVia
  <2>8. ASSUME q = r, NoActive(r) \/ Broken(r) \/ Respond(r) \/ ConnectedLate(r) PROVE FALSE
    <3>1. req'[q].pc = "idle"
      BY <2>8, <1>f, <1>g DEF NoActive, Broken, Respond, ConnectedLate, BecomesIdle
    <3> QED
      BY <3>1, <1>2 DEF Holds
  <2>9. ASSUME NEW p \in Requests, HandOver(r, p), q = p
        PROVE  req'[q].pc = "using" /\ \A v \in req'[q].via : v.id \in routes /\ v \in vias
    <3>1. At(p) = At(r) /\ req[r].pc \in {"dialing", "using"} /\ Holds(r)
      BY <2>9, HandedOver DEF Holds
    <3>2. req'[p] = [req[p] EXCEPT !.pc = "using", !.id = None, !.via = req[r].via]
      BY <2>9, HandedOver
    <3>3. /\ req'[p].pc = "using" /\ req'[p].via = req[r].via
          /\ req'[p].entry = req[p].entry /\ req'[p].transport = req[p].transport
      BY <3>2, <1>c DEF Progress
    <3>4. At(r) = t
      BY <3>1, <3>3, <2>9, <1>2, <1>a, <1>b
    <3> QED
      BY <3>1, <3>3, <3>4, <2>9 DEF OnlyVia
  <2>10. ASSUME NEW p \in Requests, p = q \/ (HandOver(r, p) /\ q = r),
                req'[q] = [req[p] EXCEPT !.wanted = FALSE]
         PROVE  /\ req'[q].pc \in {"routed", "dialing"} => req'[q].id \in routes
                /\ req'[q].pc \in {"dialing", "using"} =>
                      \A v \in req'[q].via : v.id \in routes /\ v \in vias
    <3>1. /\ req'[q].pc = req[p].pc /\ req'[q].via = req[p].via /\ req'[q].id = req[p].id
          /\ req'[q].entry = req[p].entry /\ req'[q].transport = req[p].transport
      BY <2>10, <1>c DEF Progress
    <3>2. Holds(p) /\ At(p) = t
      BY <3>1, <1>2, <1>a, <1>b DEF Holds
    <3> QED
      BY <3>1, <3>2 DEF OnlyVia
  <2>11. ASSUME q = r, Abandon(r)
         PROVE  req'[q] = [req[q] EXCEPT !.wanted = FALSE]
    BY <2>11 DEF Abandon
  <2>12. ASSUME NEW p \in Requests, HandOver(r, p)
         PROVE  \/ q = p \/ req'[q] = req[q]
                \/ q = r /\ req'[q] = [req[p] EXCEPT !.wanted = FALSE]
    <3>1. req'[r] = [req[p] EXCEPT !.wanted = FALSE]
      BY <2>12, HandedOver
    <3>2. CASE q = r
      BY <3>1, <3>2
    <3>3. CASE q \notin {r, p}
      BY <3>3, <2>12, OthersKept
    <3> QED
      BY <3>2, <3>3
  <2>13. \/ req'[q] = req[q]
         \/ /\ q = r
            /\ \/ \E e \in Entries : Arrive(r, e)
               \/ \E c \in idle : Reuse(r, c)
               \/ TakeTransport(r) \/ ReadRoute(r) \/ Lookup(r) \/ Connected(r) \/ Abandon(r)
               \/ NoActive(r) \/ Broken(r) \/ Respond(r) \/ ConnectedLate(r)
         \/ \E p \in Requests : HandOver(r, p)
    <3>1. ASSUME q # r,
                 \/ \E e \in Entries : Arrive(r, e)
                 \/ \E c \in idle : Reuse(r, c)
                 \/ TakeTransport(r) \/ ReadRoute(r) \/ Lookup(r) \/ Connected(r) \/ Abandon(r)
                 \/ NoActive(r) \/ Broken(r) \/ Respond(r) \/ ConnectedLate(r)
          PROVE  req'[q] = req[q]
      BY <3>1, <1>f DEF Arrive, Reuse, TakeTransport, ReadRoute, Lookup, Connected, Abandon,
                        NoActive, Broken, Respond, ConnectedLate, BecomesIdle
    <3> QED
      BY <3>1 DEF Forward
  <2> QED
    BY <2>1, <2>2, <2>3, <2>4, <2>5, <2>6, <2>7, <2>8, <2>9, <2>10, <2>11, <2>12, <2>13
<1> QED
  BY <1>1, <1>2 DEF OnlyVia

(* What a request or dial has, it had, or a request had it whose dial it   *)
(* is; or it has just arrived, or taken its entry's transport.             *)
LEMMA ForwardKeeps ==
    ASSUME TypeOK, NEW r \in Requests, Forward(r), NEW q \in Requests, InFlight(q)'
    PROVE  \/ /\ ~Holds(q)'
              /\ req'[q].routes = inEffect.routes[req'[q].entry]
              /\ req'[q].vias = inEffect.vias
           \/ \E p \in Requests :
              /\ InFlight(p)
              /\ req'[q].entry = req[p].entry
              /\ req'[q].routes = req[p].routes
              /\ req'[q].vias = req[p].vias
              /\ Holds(q)' => \/ Holds(p) /\ req'[q].transport = req[p].transport
                             \/ req'[q].transport = transport[req[p].entry]
<1> USE DEF Holds, InFlight, TypeOK
<1>c. \A p \in Requests : req[p] \in Progress
  OBVIOUS
<1>f. \A p \in Requests : End(r)[p] = IF p = r THEN Idle(req[r].entry) ELSE req[p]
  BY DEF End
<1>g. Idle(req[r].entry).pc = "idle"
  BY DEF Idle, Goroutine
<1>1. ASSUME NEW e \in Entries, Arrive(r, e) PROVE \/ req'[q] = req[q]
        \/ /\ ~Holds(q)'
           /\ req'[q].routes = inEffect.routes[req'[q].entry]
           /\ req'[q].vias = inEffect.vias
  BY <1>1 DEF Arrive, Goroutine
<1>2. ASSUME \/ \E c \in idle : Reuse(r, c)
             \/ TakeTransport(r) \/ ReadRoute(r) \/ Lookup(r) \/ Connected(r) \/ Abandon(r)
      PROVE  /\ req'[q].entry = req[q].entry /\ req'[q].routes = req[q].routes
             /\ req'[q].vias = req[q].vias /\ (InFlight(q) \/ req'[q] = req[q])
             /\ Holds(q)' => \/ Holds(q) /\ req'[q].transport = req[q].transport
                            \/ req'[q].transport = transport[req[q].entry]
  <2>1. CASE q # r
    BY <2>1, <1>2, <1>c DEF Reuse, TakeTransport, ReadRoute, Lookup, Connected, Abandon
  <2>2. CASE q = r
    <3>1. CASE TakeTransport(r)
      BY <3>1, <2>2, <1>c DEF TakeTransport, Progress
    <3>2. CASE \E c \in idle : Reuse(r, c)
      BY <3>2, <2>2, <1>c DEF Reuse, Progress
    <3>3. CASE ReadRoute(r) \/ Lookup(r) \/ Connected(r) \/ Abandon(r)
      BY <3>3, <2>2, <1>c DEF ReadRoute, Lookup, Connected, Abandon, Progress
    <3> QED
      BY <3>1, <3>2, <3>3, <1>2
  <2> QED
    BY <2>1, <2>2
<1>3. ASSUME NoActive(r) \/ Broken(r) \/ Respond(r) \/ ConnectedLate(r) PROVE req'[q] = req[q]
  BY <1>3, <1>f, <1>g DEF NoActive, Broken, Respond, ConnectedLate, BecomesIdle
<1>4. ASSUME NEW p \in Requests, HandOver(r, p), q \in {r, p}
      PROVE  /\ Holds(p) /\ InFlight(p)
             /\ req'[q].entry = req[p].entry /\ req'[q].routes = req[p].routes
             /\ req'[q].vias = req[p].vias /\ req'[q].transport = req[p].transport
  <2>1. req[p].pc \in {"routed", "dialing"}
    BY <1>4, HandedOver
  <2>2. \/ req'[q] = [req[p] EXCEPT !.wanted = FALSE]
        \/ req'[q] = [req[p] EXCEPT !.pc = "using", !.id = None, !.via = req[r].via]
    <3>1. req'[r] = [req[p] EXCEPT !.wanted = FALSE]
      BY <1>4, HandedOver
    <3>2. req'[p] = [req[p] EXCEPT !.pc = "using", !.id = None, !.via = req[r].via]
      BY <1>4, HandedOver
    <3> QED
      BY <3>1, <3>2, <1>4
  <2> QED
    BY <2>1, <2>2, <1>c DEF Progress
<1>5. ASSUME NEW p \in Requests, HandOver(r, p), q \notin {r, p}
      PROVE  req'[q] = req[q]
  BY <1>5, OthersKept
<1> QED
  BY <1>1, <1>2, <1>3, <1>4, <1>5 DEF Forward

(* What is in effect includes what routes and tables say now.              *)
LEMMA EffectNow ==
    ASSUME TypeOK, ChangeFollows, EffectFollows
    PROVE  /\ \A e \in Entries : route[e] \in inEffect.routes[e]
           /\ Installed(dialers) \subseteq inEffect.vias
<1> USE DEF TypeOK, ChangeFollows, EffectFollows, Change
<1>1. CASE change.pc = "none"
  BY <1>1
<1>2. CASE change.pc # "none"
  BY <1>2
<1> QED
  BY <1>1, <1>2

(* A request's steps keep every part of the invariant.                     *)
LEMMA ForwardInv ==
    ASSUME Inv, NEW r \in Requests, Forward(r)
    PROVE  Inv'
<1> USE DEF Inv
<1>a. UNCHANGED <<dialers, upstreams, member, route, transport, change, changes, inEffect>>
  BY ForwardLeaves
<1>1. TypeOK'
  BY ForwardTypes
<1>2. ChangeFollows' /\ EffectFollows' /\ MembersResolve'
  BY <1>a DEF ChangeFollows, EffectFollows, MembersResolve
<1>b. \A q \in Requests : At(q) = <<req[q].entry, req[q].transport>>
  BY DEF At
<1>c. \A q \in Requests : At(q)' = <<req'[q].entry, req'[q].transport>>
  BY DEF At
<1>d. \A q \in Requests : At(q) \in Transports /\ req[q].entry \in Entries
  BY <1>b DEF Transports, Progress, TypeOK
<1>e. \A e \in Entries : <<e, transport[e]>> \in Transports
  BY DEF Transports, TypeOK
<1>3. Witnessed'
  <2> SUFFICES ASSUME NEW q \in Requests, InFlight(q)'
               PROVE  /\ inEffect.routes[req'[q].entry] \subseteq req'[q].routes
                      /\ inEffect.vias \subseteq req'[q].vias
    BY <1>a DEF Witnessed
  <2> QED
    BY ForwardKeeps DEF Witnessed
<1>4. Numbered'
  <2>1. ASSUME NEW q \in Requests, Holds(q)'
        PROVE  req'[q].transport <= transport[req'[q].entry]
    <3>1. InFlight(q)'
      BY <2>1 DEF InFlight, Holds
    <3>2. PICK p \in Requests :
            /\ req'[q].entry = req[p].entry
            /\ \/ Holds(p) /\ req'[q].transport = req[p].transport
               \/ req'[q].transport = transport[req[p].entry]
      BY <3>1, <2>1, ForwardKeeps
    <3>3. transport[req[p].entry] \in Int
      BY <1>d DEF TypeOK, Numbers
    <3> QED
      BY <3>2, <3>3 DEF Numbered
  <2>2. ASSUME NEW c \in idle'
        PROVE  c.transport[2] <= transport[c.transport[1]]
    <3>1. c \in idle \/ \E q \in Requests : Holds(q) /\ c.transport = At(q)
      <4>1. CASE Respond(r) \/ ConnectedLate(r)
        BY <4>1, <2>2 DEF Respond, ConnectedLate, BecomesIdle, Holds
      <4>2. ASSUME ~Respond(r), ~ConnectedLate(r) PROVE c \in idle
        BY <4>2, <2>2 DEF Forward, Arrive, Reuse, HandOver, TakeTransport, ReadRoute, Lookup,
                          NoActive, Connected, Broken, Abandon
      <4> QED
        BY <4>1, <4>2
    <3> QED
      BY <3>1, <1>b DEF Numbered
  <2>3. \A e : Renewed(e)' = Renewed(e)
    BY <1>a DEF Renewed
  <2> QED
    BY <1>a, <2>1, <2>2, <2>3 DEF Numbered
<1>f. \A e \in Entries : route[e] \in inEffect.routes[e]
  BY EffectNow
<1>g. Installed(dialers) \subseteq inEffect.vias
  BY EffectNow
<1>5. CurrentPools'
  <2> SUFFICES ASSUME NEW e \in member
               PROVE  /\ OnlyVia(<<e, transport[e]>>, inEffect.routes[e], inEffect.vias)'
                      /\ Renewed(e)' => OnlyVia(<<e, transport[e]>>, {route[e]}, Installed(dialers))'
    BY <1>a DEF CurrentPools
  <2>0. e \in Entries
    BY DEF TypeOK
  <2>1. PICK t, routes, vias : t = <<e, transport[e]>> /\ routes = inEffect.routes[e] /\ vias = inEffect.vias
    OBVIOUS
  <2>2. OnlyVia(t, routes, vias)
    BY <2>1 DEF CurrentPools
  <2>3. OnlyVia(t, routes, vias)'
    BY <2>0, <2>1, <2>2, <1>e, <1>f, <1>g, ForwardOnlyVia
  <2>4. OnlyVia(<<e, transport[e]>>, inEffect.routes[e], inEffect.vias)'
    BY <2>1, <2>3, <1>a DEF OnlyVia
  <2>5. PICK now, then : now = {route[e]} /\ then = Installed(dialers)
    OBVIOUS
  <2>6. ASSUME Renewed(e)'
        PROVE  OnlyVia(<<e, transport[e]>>, {route[e]}, Installed(dialers))'
    <3>1. OnlyVia(t, now, then)
      BY <2>1, <2>5, <2>6, <1>a DEF CurrentPools, Renewed
    <3>2. OnlyVia(t, now, then)'
      BY <2>0, <2>1, <2>5, <3>1, <1>e, ForwardOnlyVia
    <3>3. Installed(dialers)' = then
      BY <2>5, <1>a
    <3> QED
      BY <2>1, <2>5, <3>2, <3>3, <1>a DEF OnlyVia
  <2> QED
    BY <2>4, <2>6
<1>6. TakenPools'
  <2> SUFFICES ASSUME NEW q \in Requests, Holds(q)', req'[q].entry \in member
               PROVE  OnlyVia(At(q), req[q].routes, req[q].vias)'
    BY <1>a DEF TakenPools
  <2>1. InFlight(q)'
    BY DEF InFlight, Holds
  <2>2. PICK p \in Requests :
          /\ InFlight(p) /\ req'[q].entry = req[p].entry /\ req'[q].routes = req[p].routes
          /\ req'[q].vias = req[p].vias
          /\ \/ Holds(p) /\ req'[q].transport = req[p].transport
             \/ req'[q].transport = transport[req[p].entry]
    BY <2>1, ForwardKeeps
  <2>3. PICK t, routes, vias : t = At(q)' /\ routes = req[p].routes /\ vias = req[p].vias
    OBVIOUS
  <2>4. inEffect.routes[req[p].entry] \subseteq routes /\ inEffect.vias \subseteq vias
    BY <2>2, <2>3 DEF Witnessed
  <2>5. OnlyVia(t, routes, vias)
    <3>1. CASE Holds(p) /\ req'[q].transport = req[p].transport
      BY <3>1, <2>2, <2>3, <1>b, <1>c DEF TakenPools
    <3>2. CASE req'[q].transport = transport[req[p].entry]
      <4>1. OnlyVia(t, inEffect.routes[req[p].entry], inEffect.vias)
        BY <3>2, <2>2, <2>3, <1>c DEF CurrentPools
      <4> QED
        BY <4>1, <2>4 DEF OnlyVia
    <3> QED
      BY <3>1, <3>2, <2>2
  <2>6. t[1] = req[p].entry /\ t \in Transports
    <3>1. t \in Transports
      BY <2>3, <1>1, <1>c DEF Transports, Progress, TypeOK
    <3> QED
      BY <3>1, <2>2, <2>3, <1>c
  <2>7. OnlyVia(t, routes, vias)'
    BY <2>4, <2>5, <2>6, <1>d, <1>f, <1>g, ForwardOnlyVia
  <2> QED
    BY <2>2, <2>3, <2>7 DEF OnlyVia
<1> QED
  BY <1>1, <1>2, <1>3, <1>4, <1>5, <1>6

----------------------------------------------------------------------------
(* The steps of a mutation.                                                *)

(* They neither move nor dial a connection.                                *)
LEMMA OnlyViaKept ==
    ASSUME NEW t, NEW routes, NEW vias, OnlyVia(t, routes, vias), idle' \subseteq idle,
           \A q \in Requests :
              /\ req'[q].pc = req[q].pc /\ req'[q].entry = req[q].entry
              /\ req'[q].transport = req[q].transport /\ req'[q].id = req[q].id
              /\ req'[q].via = req[q].via
    PROVE  OnlyVia(t, routes, vias)'
<1>1. \A q \in Requests : Holds(q)' = Holds(q) /\ At(q)' = At(q)
  BY DEF Holds, At
<1>2. \A c \in idle' : c.transport = t => c.via.id \in routes /\ c.via \in vias
  BY DEF OnlyVia
<1>3. ASSUME NEW q \in Requests, Holds(q)', At(q)' = t
      PROVE  /\ req'[q].pc \in {"routed", "dialing"} => req'[q].id \in routes
             /\ req'[q].pc \in {"dialing", "using"} =>
                   \A v \in req'[q].via : v.id \in routes /\ v \in vias
  BY <1>1, <1>3 DEF OnlyVia
<1> QED
  BY <1>2, <1>3 DEF OnlyVia

(* More is in effect while a mutation is under way.                        *)
LEMMA OnlyViaGrows ==
    ASSUME NEW t, NEW routes, NEW vias, OnlyVia(t, routes, vias),
           NEW more, NEW others, routes \subseteq more, vias \subseteq others
    PROVE  OnlyVia(t, more, others)
BY DEF OnlyVia

(* A mutation begins.                                                      *)
LEMMA BeginInv ==
    ASSUME Inv, NEW table \in Table, NEW routes \in Routes, NEW keep \in SUBSET member,
           BeginChange(table, routes, keep),
           \A e \in Entries : route[e] # routes[e] => e \in keep,
           \A e \in member : \A id \in {route[e], routes[e]} :
              id # None => dialers[id] # None /\ table[id] # None
    PROVE  Inv'
<1> USE DEF Inv
<1> DEFINE news == [routes |-> [e \in Entries |-> inEffect.routes[e] \cup {routes[e]}],
                    vias   |-> inEffect.vias \cup Installed(table)]
<1>1. /\ change.pc = "none" /\ changes < MaxChanges /\ changes' = changes + 1
      /\ change' = [pc |-> "saved", dialers |-> table, routes |-> routes,
                    keep |-> keep, todo |-> keep, at |-> None]
      /\ inEffect' = news
      /\ UNCHANGED <<routing, idle, closing>>
  BY DEF BeginChange
<1>2. req' = [r \in Requests |-> IF InFlight(r)
                 THEN [req[r] EXCEPT !.routes = @ \cup news.routes[req[r].entry],
                                     !.vias   = @ \cup news.vias]
                 ELSE req[r]]
  BY DEF BeginChange
<1> HIDE DEF news
<1>3. /\ news.vias = inEffect.vias \cup Installed(table)
      /\ \A e \in Entries : news.routes[e] = inEffect.routes[e] \cup {routes[e]}
      /\ news \in [routes : [Entries -> SUBSET (UpstreamIds \cup {None})], vias : SUBSET Via]
  <2>1. inEffect.vias \cup Installed(table) \in SUBSET Via
    BY InstalledType DEF TypeOK
  <2>2. \A e \in Entries : inEffect.routes[e] \cup {routes[e]} \in SUBSET (UpstreamIds \cup {None})
    BY DEF TypeOK, Routes
  <2> QED
    BY <2>1, <2>2 DEF news
<1>4. \A r \in Requests : req[r] \in Progress /\ req[r].entry \in Entries
  BY DEF TypeOK, Progress
<1>5. ASSUME NEW r \in Requests
      PROVE  /\ req'[r] \in Progress
             /\ req'[r].pc = req[r].pc /\ req'[r].entry = req[r].entry
             /\ req'[r].transport = req[r].transport /\ req'[r].id = req[r].id
             /\ req'[r].via = req[r].via
             /\ req[r].routes \subseteq req'[r].routes /\ req[r].vias \subseteq req'[r].vias
             /\ InFlight(r) => /\ news.routes[req[r].entry] \subseteq req'[r].routes
                              /\ news.vias \subseteq req'[r].vias
  <2>1. CASE ~InFlight(r)
    BY <2>1, <1>2, <1>4
  <2>2. CASE InFlight(r)
    <3>1. PICK seen, used : /\ seen = req[r].routes \cup news.routes[req[r].entry]
                            /\ used = req[r].vias \cup news.vias
      OBVIOUS
    <3>2. req'[r] = [req[r] EXCEPT !.routes = seen, !.vias = used]
      BY <3>1, <2>2, <1>2
    <3>3. seen \in SUBSET (UpstreamIds \cup {None}) /\ used \in SUBSET Via
      BY <3>1, <1>3, <1>4 DEF Progress
    <3>4. req[r] \in Progress
      BY <1>4
    <3>5. /\ req'[r] \in Progress /\ req'[r].routes = seen /\ req'[r].vias = used
          /\ req'[r].pc = req[r].pc /\ req'[r].entry = req[r].entry
          /\ req'[r].transport = req[r].transport /\ req'[r].id = req[r].id
          /\ req'[r].via = req[r].via
      BY <3>2, <3>3, <3>4 DEF Progress
    <3> QED
      BY <3>1, <3>5
  <2> QED
    BY <2>1, <2>2
<1>6. TypeOK'
  <2>1. req' \in [Requests -> Progress]
    BY <1>2, <1>5
  <2>2. change' \in Change
    BY <1>1 DEF Change, TypeOK
  <2>3. changes' \in Numbers
    BY <1>1, RoutingAssumption DEF TypeOK, Numbers
  <2> QED
    BY <2>1, <2>2, <2>3, <1>1, <1>3 DEF TypeOK, routing
<1>7. ChangeFollows'
  BY <1>1 DEF ChangeFollows, routing
<1>8. EffectFollows'
  <2>1. inEffect.vias = Installed(upstreams) /\ \A e \in Entries : inEffect.routes[e] = {route[e]}
    BY <1>1 DEF EffectFollows, ChangeFollows
  <2>2. Installed(upstreams)' = Installed(upstreams) /\ Installed(change.dialers)' = Installed(table)
    BY <1>1 DEF routing
  <2>3. keep \subseteq Entries
    BY DEF TypeOK
  <2> QED
    BY <2>1, <2>2, <2>3, <1>1, <1>3 DEF EffectFollows, routing
<1>9. Numbered'
  <2>1. \A e \in Entries : transport[e] \in Int /\ transport[e] < changes'
    BY <1>1 DEF Numbered, TypeOK, Numbers
  <2>2. \A r \in Requests : Holds(r)' => Holds(r)
    BY <1>5 DEF Holds
  <2>3. keep \subseteq Entries
    BY DEF TypeOK
  <2> QED
    BY <2>1, <2>2, <2>3, <1>1, <1>5 DEF Numbered, routing, TypeOK, Numbers
<1>10. Witnessed'
  <2>1. \A r \in Requests : InFlight(r)' => InFlight(r)
    BY <1>5 DEF InFlight
  <2> QED
    BY <2>1, <1>1, <1>5 DEF Witnessed
<1>11. MembersResolve'
  BY <1>1 DEF MembersResolve, routing
<1>12. CurrentPools'
  <2>1. \A e \in Entries : ~Renewed(e)'
    BY <1>1 DEF Renewed
  <2> SUFFICES ASSUME NEW e \in member
               PROVE  OnlyVia(<<e, transport[e]>>, inEffect.routes[e], inEffect.vias)'
    BY <2>1, <1>1 DEF CurrentPools, routing, TypeOK
  <2>2. PICK t, more, others : t = <<e, transport[e]>> /\ more = news.routes[e] /\ others = news.vias
    OBVIOUS
  <2>3. OnlyVia(t, more, others)
    <3>1. e \in Entries
      BY DEF TypeOK
    <3>2. OnlyVia(t, inEffect.routes[e], inEffect.vias)
      BY <2>2 DEF CurrentPools
    <3> QED
      BY <3>1, <3>2, <2>2, <1>3, OnlyViaGrows
  <2>4. OnlyVia(t, more, others)'
    BY <2>3, <1>1, <1>5, OnlyViaKept
  <2> QED
    BY <2>2, <2>4, <1>1 DEF OnlyVia, routing
<1>13. TakenPools'
  <2> SUFFICES ASSUME NEW r \in Requests, Holds(r)', req'[r].entry \in member
               PROVE  OnlyVia(At(r), req[r].routes, req[r].vias)'
    BY <1>1 DEF TakenPools, routing
  <2>1. Holds(r) /\ req[r].entry \in member /\ At(r)' = At(r)
    BY <1>5 DEF Holds, At
  <2>2. PICK t, more, others : t = At(r) /\ more = req'[r].routes /\ others = req'[r].vias
    OBVIOUS
  <2>3. OnlyVia(t, more, others)
    <3>1. OnlyVia(t, req[r].routes, req[r].vias)
      BY <2>1, <2>2 DEF TakenPools
    <3> QED
      BY <3>1, <2>2, <1>5, OnlyViaGrows
  <2>4. OnlyVia(t, more, others)'
    BY <2>3, <1>1, <1>5, OnlyViaKept
  <2> QED
    BY <2>1, <2>2, <2>4 DEF OnlyVia
<1> QED
  BY <1>6, <1>7, <1>8, <1>9, <1>10, <1>11, <1>12, <1>13

(* Every mutation begins so: upstreams change, or one route, or an entry   *)
(* is dropped, and no member's route is left without its upstream.         *)
LEMMA MutationBegins ==
    ASSUME Inv,
           \/ \E u \in UpstreamIds, d \in Dialers \cup {None} : EditUpstream(u, d)
           \/ \E e \in Entries, id \in UpstreamIds \cup {None} : SwitchRoute(e, id)
           \/ \E e \in Entries : DropEntry(e)
    PROVE  Inv'
<1> USE DEF Inv, TypeOK
<1>1. ASSUME NEW u \in UpstreamIds, NEW d \in Dialers \cup {None}, EditUpstream(u, d)
      PROVE  Inv'
  <2>1. PICK table : table = [dialers EXCEPT ![u] = d]
    OBVIOUS
  <2>2. BeginChange(table, route, member) /\ table \in Table
    BY <1>1, <2>1 DEF EditUpstream, Table
  <2>3. change.pc = "none" /\ Resolving(table, route, member)
    BY <2>2 DEF BeginChange
  <2>4. PICK routes, keep : routes = route /\ keep = member
    OBVIOUS
  <2>5. \A e \in member : \A id \in {route[e], routes[e]} : id # None => dialers[id] # None /\ table[id] # None
    BY <2>3, <2>4 DEF Resolving, MembersResolve
  <2> QED
    BY <2>2, <2>4, <2>5, BeginInv
<1>2. ASSUME NEW e \in Entries, NEW id \in UpstreamIds \cup {None}, SwitchRoute(e, id)
      PROVE  Inv'
  <2>1. PICK routes : routes = [route EXCEPT ![e] = id]
    OBVIOUS
  <2>2. BeginChange(dialers, routes, member) /\ routes \in Routes /\ e \in member
    BY <1>2, <2>1 DEF SwitchRoute, Routes
  <2>3. change.pc = "none" /\ Resolving(dialers, routes, member)
    BY <2>2 DEF BeginChange
  <2>4. PICK table, keep : table = dialers /\ keep = member
    OBVIOUS
  <2>5. \A m \in member : \A i \in {route[m], routes[m]} : i # None => dialers[i] # None /\ table[i] # None
    BY <2>3, <2>4 DEF Resolving, MembersResolve
  <2>6. \A m \in Entries : route[m] # routes[m] => m \in keep
    BY <2>1, <2>2, <2>4 DEF Routes
  <2> QED
    BY <2>2, <2>4, <2>5, <2>6, BeginInv
<1>3. ASSUME NEW e \in Entries, DropEntry(e)
      PROVE  Inv'
  <2>1. BeginChange(dialers, route, member \ {e})
    BY <1>3 DEF DropEntry
  <2>2. PICK table, routes, keep : table = dialers /\ routes = route /\ keep = member \ {e}
    OBVIOUS
  <2>3. change.pc = "none"
    BY <2>1 DEF BeginChange
  <2>4. \A m \in member : \A i \in {route[m], routes[m]} : i # None => dialers[i] # None /\ table[i] # None
    BY <2>2, <2>3 DEF MembersResolve
  <2> QED
    BY <2>1, <2>2, <2>4, BeginInv
<1> QED
  BY <1>1, <1>2, <1>3

(* Requests keep what they hold and have seen while a mutation goes on.    *)
LEMMA MutationLeaves ==
    ASSUME Inv, req' = req, transport' = transport \/ transport' \in [Entries -> Numbers],
           \A e \in Entries : transport[e] <= transport'[e],
           idle' \subseteq idle, member' \subseteq member, inEffect' = inEffect
    PROVE  /\ Witnessed' /\ TakenPools'
           /\ \A c \in idle' : c.transport[2] <= transport'[c.transport[1]]
           /\ \A r \in Requests : Holds(r)' => req'[r].transport <= transport'[req'[r].entry]
<1> USE DEF Inv
<1>1. Witnessed'
  BY DEF Witnessed, InFlight
<1>2. TakenPools'
  <2> SUFFICES ASSUME NEW r \in Requests, Holds(r)', req[r].entry \in member
               PROVE  OnlyVia(At(r), req[r].routes, req[r].vias)'
    BY DEF TakenPools
  <2>1. PICK t, routes, vias : t = At(r) /\ routes = req[r].routes /\ vias = req[r].vias
    OBVIOUS
  <2>2. OnlyVia(t, routes, vias)
    BY <2>1 DEF TakenPools, Holds
  <2>3. OnlyVia(t, routes, vias)'
    BY <2>2, OnlyViaKept
  <2>4. At(r)' = At(r)
    BY DEF At
  <2> QED
    BY <2>1, <2>3, <2>4 DEF OnlyVia
<1>3. \A e \in Entries : transport[e] \in Int /\ transport'[e] \in Int
  BY DEF TypeOK, Numbers
<1>4. ASSUME NEW c \in idle' PROVE c.transport[2] <= transport'[c.transport[1]]
  <2>1. c \in Pooled
    BY <1>4 DEF TypeOK
  <2>2. c.transport[1] \in Entries /\ c.transport[2] \in Int
    BY <2>1 DEF Pooled, Transports, Numbers
  <2>3. c.transport[2] <= transport[c.transport[1]]
    BY <1>4 DEF Numbered
  <2> QED
    BY <2>2, <2>3, <1>3
<1>5. ASSUME NEW r \in Requests, Holds(r)' PROVE req'[r].transport <= transport'[req'[r].entry]
  <2>1. req[r].entry \in Entries /\ req[r].transport \in Int
    BY DEF TypeOK, Progress, Numbers
  <2>2. req[r].transport <= transport[req[r].entry]
    BY <1>5 DEF Numbered, Holds
  <2> QED
    BY <2>1, <2>2, <1>3
<1> QED
  BY <1>1, <1>2, <1>4, <1>5

(* A pool within constant bounds stays there, as CurrentPools states it.   *)
LEMMA CurrentKept ==
    ASSUME req' = req, idle' \subseteq idle, NEW e \in Entries, transport'[e] = transport[e],
           NEW routes, NEW vias, OnlyVia(<<e, transport[e]>>, routes, vias)
    PROVE  OnlyVia(<<e, transport[e]>>, routes, vias)'
<1>1. PICK t : t = <<e, transport[e]>>
  OBVIOUS
<1>2. OnlyVia(t, routes, vias)'
  BY <1>1, OnlyViaKept
<1> QED
  BY <1>1, <1>2 DEF OnlyVia

(* The new table is installed.                                             *)
LEMMA InstallInv ==
    ASSUME Inv, Install
    PROVE  Inv'
<1> USE DEF Inv
<1>1. /\ change.pc = "saved" /\ dialers' = change.dialers
      /\ change' = [change EXCEPT !.pc = "committing"]
      /\ UNCHANGED <<upstreams, member, route, transport, idle, closing, changes, req, inEffect>>
  BY DEF Install
<1>2. change \in Change
  BY DEF TypeOK
<1>3. /\ change'.pc = "committing" /\ change'.dialers = change.dialers
      /\ change'.routes = change.routes /\ change'.keep = change.keep
      /\ change'.todo = change.todo /\ change'.at = change.at /\ change' \in Change
  BY <1>1, <1>2 DEF Change
<1>4. TypeOK'
  BY <1>1, <1>2, <1>3 DEF TypeOK, Change
<1>5. ChangeFollows'
  BY <1>1, <1>3 DEF ChangeFollows
<1>6. EffectFollows'
  <2>1. Installed(upstreams)' = Installed(upstreams) /\ Installed(change.dialers)' = Installed(change.dialers)
    BY <1>1, <1>3
  <2> QED
    BY <2>1, <1>1, <1>3 DEF EffectFollows
<1>7. \A e : ~Renewed(e) /\ ~Renewed(e)'
  BY <1>1, <1>3 DEF Renewed, ChangeFollows
<1>8. \A e \in Entries : transport[e] <= transport'[e]
  BY <1>1 DEF TypeOK, Numbers
<1>9. Witnessed' /\ TakenPools'
  BY <1>1, <1>8, MutationLeaves
<1>10. Numbered'
  <2>1. \A r : Holds(r)' = Holds(r)
    BY <1>1 DEF Holds
  <2> QED
    BY <2>1, <1>1, <1>3, <1>7 DEF Numbered
<1>11. MembersResolve'
  BY <1>1, <1>3 DEF MembersResolve
<1>12. CurrentPools'
  <2> SUFFICES ASSUME NEW e \in member
               PROVE  OnlyVia(<<e, transport[e]>>, inEffect.routes[e], inEffect.vias)'
    BY <1>1, <1>7 DEF CurrentPools
  <2>1. PICK routes, vias : routes = inEffect.routes[e] /\ vias = inEffect.vias
    OBVIOUS
  <2>2. OnlyVia(<<e, transport[e]>>, routes, vias) /\ e \in Entries
    BY <2>1 DEF CurrentPools, TypeOK
  <2>3. OnlyVia(<<e, transport[e]>>, routes, vias)'
    BY <2>2, <1>1, CurrentKept
  <2> QED
    BY <2>1, <2>3, <1>1 DEF OnlyVia
<1> QED
  BY <1>4, <1>5, <1>6, <1>9, <1>10, <1>11, <1>12

(* Pools keep to what is in effect, and those of renewed entries to what   *)
(* remains so, in the steps of Commit that leave transports and tables.    *)
LEMMA CommitPools ==
    ASSUME Inv, req' = req, idle' \subseteq idle, member' = member, inEffect' = inEffect,
           dialers' = dialers, transport' = transport,
           \A e \in Entries : Renewed(e)' =>
              \/ Renewed(e) /\ route'[e] = route[e]
              \/ inEffect.routes[e] = {route'[e]} /\ inEffect.vias = Installed(dialers)
    PROVE  CurrentPools'
<1> USE DEF Inv
<1> SUFFICES ASSUME NEW e \in member
             PROVE  /\ OnlyVia(<<e, transport[e]>>, inEffect.routes[e], inEffect.vias)'
                    /\ Renewed(e)' => OnlyVia(<<e, transport[e]>>, {route[e]}, Installed(dialers))'
  BY DEF CurrentPools
<1>0. e \in Entries
  BY DEF TypeOK
<1>1. PICK routes, vias : routes = inEffect.routes[e] /\ vias = inEffect.vias
  OBVIOUS
<1>2. OnlyVia(<<e, transport[e]>>, routes, vias)'
  <2>1. OnlyVia(<<e, transport[e]>>, routes, vias)
    BY <1>1 DEF CurrentPools
  <2> QED
    BY <2>1, <1>0, CurrentKept
<1>3. OnlyVia(<<e, transport[e]>>, inEffect.routes[e], inEffect.vias)'
  BY <1>1, <1>2 DEF OnlyVia
<1>4. ASSUME Renewed(e)'
      PROVE  OnlyVia(<<e, transport[e]>>, {route[e]}, Installed(dialers))'
  <2>1. PICK now, then : now = {route'[e]} /\ then = Installed(dialers)
    OBVIOUS
  <2>2. OnlyVia(<<e, transport[e]>>, now, then)
    BY <2>1, <1>0, <1>4 DEF CurrentPools
  <2>3. OnlyVia(<<e, transport[e]>>, now, then)'
    BY <2>2, <1>0, CurrentKept
  <2>4. Installed(dialers)' = then
    BY <2>1
  <2> QED
    BY <2>1, <2>3, <2>4 DEF OnlyVia
<1> QED
  BY <1>3, <1>4

(* Commit sets the route of an entry.  If it needs no new transport, the   *)
(* mutation changes nothing for it.                                        *)
LEMMA SetRouteInv ==
    ASSUME Inv, NEW e \in Entries, SetRoute(e)
    PROVE  Inv'
<1> USE DEF Inv
<1>1. /\ change.pc = "committing" /\ e \in change.todo
      /\ route' = [route EXCEPT ![e] = change.routes[e]]
      /\ change' = IF NeedsTransport(e)
                   THEN [change EXCEPT !.todo = @ \ {e}, !.pc = "routed", !.at = e]
                   ELSE [change EXCEPT !.todo = @ \ {e}]
      /\ UNCHANGED <<dialers, upstreams, member, transport, idle, closing, changes, req, inEffect>>
  BY DEF SetRoute
<1>2. change \in Change
  BY DEF TypeOK
<1>3. /\ change'.dialers = change.dialers /\ change'.routes = change.routes
      /\ change'.keep = change.keep /\ change'.todo = change.todo \ {e} /\ change' \in Change
      /\ \/ NeedsTransport(e) /\ change'.pc = "routed" /\ change'.at = e
         \/ ~NeedsTransport(e) /\ change'.pc = "committing"
  <2>1. PICK rest : rest = change.todo \ {e}
    OBVIOUS
  <2>2. rest \in SUBSET Entries
    BY <2>1, <1>2 DEF Change
  <2>3. CASE NeedsTransport(e)
    <3>1. change' = [change EXCEPT !.todo = rest, !.pc = "routed", !.at = e]
      BY <2>1, <2>3, <1>1
    <3> QED
      BY <3>1, <2>1, <2>2, <2>3, <1>2 DEF Change
  <2>4. CASE ~NeedsTransport(e)
    <3>1. change' = [change EXCEPT !.todo = rest]
      BY <2>1, <2>4, <1>1
    <3> QED
      BY <3>1, <2>1, <2>2, <2>4, <1>1, <1>2 DEF Change
  <2> QED
    BY <2>3, <2>4
<1>4. change.routes[e] \in UpstreamIds \cup {None} /\ change.routes \in Routes
  BY <1>2 DEF Change, Routes
<1>5. /\ route'[e] = change.routes[e] /\ route' \in Routes
      /\ \A m \in Entries : m # e => route'[m] = route[m]
  BY <1>1, <1>4 DEF TypeOK, Routes
<1>6. TypeOK'
  BY <1>1, <1>3, <1>5 DEF TypeOK
<1>7. ChangeFollows'
  BY <1>1, <1>3, <1>5 DEF ChangeFollows
<1>8. EffectFollows'
  <2>1. Installed(upstreams)' = Installed(upstreams) /\ Installed(change.dialers)' = Installed(change.dialers)
    BY <1>1, <1>3
  <2>2. \A m \in change'.todo : m \in Entries /\ m # e /\ m \in change.todo
    BY <1>2, <1>3 DEF Change
  <2> QED
    BY <2>1, <2>2, <1>1, <1>3, <1>5 DEF EffectFollows
<1>9. \A m \in Entries : transport[m] <= transport'[m]
  BY <1>1 DEF TypeOK, Numbers
<1>10. Witnessed' /\ TakenPools'
  BY <1>1, <1>9, MutationLeaves
<1>11. \A m : m # e => Renewed(m)' = Renewed(m)
  BY <1>1, <1>3 DEF Renewed
<1>12. ~Renewed(e)
  BY <1>1 DEF Renewed
<1>13. Numbered'
  <2>1. \A r : Holds(r)' = Holds(r)
    BY <1>1 DEF Holds
  <2> QED
    BY <2>1, <1>1, <1>3, <1>11, <1>12 DEF Numbered
<1>14. MembersResolve'
  BY <1>1, <1>3, <1>5 DEF MembersResolve, TypeOK
<1>15. CurrentPools'
  <2>1. ASSUME Renewed(e)'
        PROVE  inEffect.routes[e] = {route'[e]} /\ inEffect.vias = Installed(dialers)
    <3>1. ~NeedsTransport(e)
      BY <2>1, <1>3 DEF Renewed
    <3>2. upstreams = change.dialers /\ route[e] = change.routes[e]
      BY <3>1 DEF NeedsTransport
    <3>3. dialers = change.dialers
      BY <1>1 DEF ChangeFollows
    <3> QED
      BY <3>2, <3>3, <1>1, <1>5 DEF EffectFollows
  <2>2. \A m \in Entries : Renewed(m)' =>
          \/ Renewed(m) /\ route'[m] = route[m]
          \/ inEffect.routes[m] = {route'[m]} /\ inEffect.vias = Installed(dialers)
    BY <2>1, <1>5, <1>11
  <2> QED
    BY <2>2, <1>1, CommitPools
<1> QED
  BY <1>6, <1>7, <1>8, <1>10, <1>13, <1>14, <1>15

(* An entry's new transport has no connections and no requests yet.        *)
LEMMA ReplaceInv ==
    ASSUME Inv, ReplaceTransport
    PROVE  Inv'
<1> USE DEF Inv
<1> DEFINE at == change.at
<1>1. /\ change.pc = "routed" /\ change' = [change EXCEPT !.pc = "replaced"]
      /\ transport' = [transport EXCEPT ![at] = @ + 1]
      /\ UNCHANGED <<dialers, upstreams, member, route, idle, closing, changes, req, inEffect>>
  BY DEF ReplaceTransport
<1>2. change \in Change /\ at \in change.keep \ change.todo /\ at \in Entries
  BY <1>1 DEF TypeOK, ChangeFollows, Change
<1>3. /\ change'.pc = "replaced" /\ change'.dialers = change.dialers
      /\ change'.routes = change.routes /\ change'.keep = change.keep
      /\ change'.todo = change.todo /\ change'.at = at /\ change' \in Change
  BY <1>1, <1>2 DEF Change
<1>4. /\ transport[at] \in Int /\ transport[at] >= 0 /\ transport[at] < changes
      /\ changes \in Int /\ changes <= MaxChanges
  <2>1. ~Renewed(at)
    BY <1>1 DEF Renewed
  <2> QED
    BY <2>1, <1>2, RoutingAssumption DEF Numbered, TypeOK, Numbers
<1>5. /\ transport'[at] = transport[at] + 1 /\ transport' \in [Entries -> Numbers]
      /\ \A m \in Entries : m # at => transport'[m] = transport[m]
  <2>1. transport[at] + 1 \in Numbers
    BY <1>4, RoutingAssumption DEF Numbers
  <2> QED
    BY <2>1, <1>1, <1>2 DEF TypeOK
<1>6. \A m \in Entries : transport[m] \in Int /\ transport[m] <= transport'[m] /\ transport'[m] <= changes
  <2>1. \A m \in Entries : transport[m] \in Int /\ transport[m] <= changes
    BY DEF TypeOK, Numbers, Numbered
  <2> QED
    BY <2>1, <1>4, <1>5
<1>7. TypeOK'
  BY <1>1, <1>3, <1>5 DEF TypeOK
<1>8. ChangeFollows'
  BY <1>1, <1>2, <1>3 DEF ChangeFollows
<1>9. EffectFollows'
  <2>1. Installed(upstreams)' = Installed(upstreams) /\ Installed(change.dialers)' = Installed(change.dialers)
    BY <1>1, <1>3
  <2> QED
    BY <2>1, <1>1, <1>3 DEF EffectFollows
<1>10. /\ Witnessed' /\ TakenPools'
       /\ \A c \in idle' : c.transport[2] <= transport'[c.transport[1]]
       /\ \A r \in Requests : Holds(r)' => req'[r].transport <= transport'[req'[r].entry]
  BY <1>1, <1>5, <1>6, MutationLeaves
<1>11. \A m : m # at => Renewed(m)' = Renewed(m)
  BY <1>1, <1>3 DEF Renewed
<1>12. Renewed(at)'
  BY <1>2, <1>3 DEF Renewed
<1>13. Numbered'
  <2>1. ASSUME NEW m \in change'.keep, ~Renewed(m)' PROVE transport'[m] < changes'
    <3>1. m \in Entries /\ m # at /\ m \in change.keep /\ ~Renewed(m)
      BY <2>1, <1>2, <1>3, <1>11, <1>12 DEF Change
    <3> QED
      BY <3>1, <1>1, <1>5 DEF Numbered
  <2> QED
    BY <2>1, <1>1, <1>3, <1>4, <1>5, <1>6, <1>10 DEF Numbered
<1>14. MembersResolve'
  BY <1>1, <1>3 DEF MembersResolve
<1>15. CurrentPools'
  <2> SUFFICES ASSUME NEW e \in member
               PROVE  /\ OnlyVia(<<e, transport[e]>>, inEffect.routes[e], inEffect.vias)'
                      /\ Renewed(e)' => OnlyVia(<<e, transport[e]>>, {route[e]}, Installed(dialers))'
    BY <1>1 DEF CurrentPools
  <2>0. e \in Entries
    BY DEF TypeOK
  <2>1. CASE e = at
    <3>1. \A c \in idle' : c.transport # <<e, transport'[e]>>
      <4> SUFFICES ASSUME NEW c \in idle, c.transport = <<e, transport'[e]>> PROVE FALSE
        BY <1>1
      <4>1. c.transport[1] = e /\ c.transport[2] = transport'[e]
        OBVIOUS
      <4>2. c.transport[2] <= transport[e]
        BY <4>1 DEF Numbered
      <4> QED
        BY <4>1, <4>2, <2>1, <1>4, <1>5
    <3>2. \A q \in Requests : Holds(q)' => At(q)' # <<e, transport'[e]>>
      <4> SUFFICES ASSUME NEW q \in Requests, Holds(q), At(q) = <<e, transport'[e]>> PROVE FALSE
        BY <1>1 DEF Holds, At
      <4>1. req[q].entry = e /\ req[q].transport = transport'[e]
        BY DEF At
      <4>2. req[q].transport <= transport[e]
        BY <4>1 DEF Numbered
      <4> QED
        BY <4>1, <4>2, <2>1, <1>4, <1>5
    <3> QED
      BY <3>1, <3>2 DEF OnlyVia
  <2>2. CASE e # at
    <3>1. PICK routes, vias, now, then : /\ routes = inEffect.routes[e] /\ vias = inEffect.vias
                                         /\ now = {route[e]} /\ then = Installed(dialers)
      OBVIOUS
    <3>2. OnlyVia(<<e, transport[e]>>, routes, vias)
      BY <3>1 DEF CurrentPools
    <3>3. OnlyVia(<<e, transport[e]>>, routes, vias)'
      BY <3>2, <2>0, <2>2, <1>1, <1>5, CurrentKept
    <3>4. ASSUME Renewed(e)'
          PROVE  OnlyVia(<<e, transport[e]>>, now, then)'
      <4>1. OnlyVia(<<e, transport[e]>>, now, then)
        BY <3>1, <3>4, <2>2, <1>11 DEF CurrentPools
      <4> QED
        BY <4>1, <2>0, <2>2, <1>1, <1>5, CurrentKept
    <3>5. Installed(dialers)' = then
      BY <3>1, <1>1
    <3> QED
      BY <3>1, <3>3, <3>4, <3>5, <1>1 DEF OnlyVia
  <2> QED
    BY <2>1, <2>2
<1> QED
  BY <1>7, <1>8, <1>9, <1>10, <1>13, <1>14, <1>15

(* The previous transport closes its idle connections.                     *)
LEMMA CloseIdleInv ==
    ASSUME Inv, CloseIdle
    PROVE  Inv'
<1> USE DEF Inv
<1> DEFINE previous == <<change.at, transport[change.at] - 1>>
<1>1. /\ change.pc = "replaced" /\ change' = [change EXCEPT !.pc = "committing", !.at = None]
      /\ idle' \subseteq idle /\ closing' = closing \cup {previous}
      /\ UNCHANGED <<dialers, upstreams, member, route, transport, changes, req, inEffect>>
  BY DEF CloseIdle, routing
<1>2. change \in Change /\ change.at \in change.keep \ change.todo /\ change.at \in Entries
  BY <1>1 DEF TypeOK, ChangeFollows, Change
<1>3. /\ change'.pc = "committing" /\ change'.dialers = change.dialers
      /\ change'.routes = change.routes /\ change'.keep = change.keep
      /\ change'.todo = change.todo /\ change' \in Change
  BY <1>1, <1>2 DEF Change
<1>4. TypeOK'
  <2>1. transport[change.at] \in Numbers /\ transport[change.at] > 0
    BY <1>1, <1>2 DEF TypeOK, Numbered
  <2>2. previous \in Transports
    BY <2>1, <1>2, RoutingAssumption DEF Transports, Numbers
  <2> QED
    BY <2>2, <1>1, <1>3 DEF TypeOK
<1>5. ChangeFollows'
  BY <1>1, <1>3 DEF ChangeFollows
<1>6. EffectFollows'
  <2>1. Installed(upstreams)' = Installed(upstreams) /\ Installed(change.dialers)' = Installed(change.dialers)
    BY <1>1, <1>3
  <2> QED
    BY <2>1, <1>1, <1>3 DEF EffectFollows
<1>7. \A m \in Entries : transport[m] <= transport'[m]
  BY <1>1 DEF TypeOK, Numbers
<1>8. Witnessed' /\ TakenPools'
  BY <1>1, <1>7, MutationLeaves
<1>9. \A m : Renewed(m)' = Renewed(m)
  BY <1>1, <1>3 DEF Renewed
<1>10. Numbered'
  <2>1. \A r : Holds(r)' = Holds(r)
    BY <1>1 DEF Holds
  <2> QED
    BY <2>1, <1>1, <1>3, <1>9 DEF Numbered
<1>11. MembersResolve'
  BY <1>1, <1>3 DEF MembersResolve
<1>12. CurrentPools'
  BY <1>1, <1>9, CommitPools
<1> QED
  BY <1>4, <1>5, <1>6, <1>8, <1>10, <1>11, <1>12

(* A pooled connection goes.                                               *)
LEMMA ExpireInv ==
    ASSUME Inv, NEW c \in idle, Expire(c)
    PROVE  Inv'
<1> USE DEF Inv
<1>1. /\ idle' \subseteq idle
      /\ UNCHANGED <<dialers, upstreams, member, route, transport, closing, change, changes, req, inEffect>>
  BY DEF Expire, routing
<1>2. TypeOK' /\ ChangeFollows' /\ EffectFollows' /\ MembersResolve'
  BY <1>1 DEF TypeOK, ChangeFollows, EffectFollows, MembersResolve
<1>3. \A m \in Entries : transport[m] <= transport'[m]
  BY <1>1 DEF TypeOK, Numbers
<1>4. Witnessed' /\ TakenPools'
  BY <1>1, <1>3, MutationLeaves
<1>5. \A m : Renewed(m)' = Renewed(m)
  BY <1>1 DEF Renewed
<1>6. Numbered'
  <2>1. \A r : Holds(r)' = Holds(r)
    BY <1>1 DEF Holds
  <2> QED
    BY <2>1, <1>1, <1>5 DEF Numbered
<1>7. CurrentPools'
  BY <1>1, <1>5, CommitPools
<1> QED
  BY <1>2, <1>4, <1>6, <1>7

(* After the reply only the new routing is in effect: by then every member *)
(* has been renewed.                                                       *)
LEMMA ReplyInv ==
    ASSUME Inv, Reply
    PROVE  Inv'
<1> USE DEF Inv
<1>1. /\ change.pc = "committing" /\ change.todo = {} /\ member' = change.keep
      /\ upstreams' = change.dialers /\ change' = NoChange
      /\ inEffect' = [routes |-> [e \in Entries |-> {route[e]}], vias |-> Installed(dialers)]
      /\ UNCHANGED <<dialers, route, transport, idle, closing, changes, req>>
  BY DEF Reply
<1>2. change \in Change /\ dialers = change.dialers /\ member' \subseteq member
  BY <1>1 DEF TypeOK, ChangeFollows
<1>3. change'.pc = "none" /\ change'.keep = {} /\ change'.todo = {} /\ change' \in Change
  BY <1>1, RoutingAssumption DEF NoChange, Change, Table, Routes
<1>4. /\ inEffect' \in [routes : [Entries -> SUBSET (UpstreamIds \cup {None})], vias : SUBSET Via]
      /\ inEffect'.vias = Installed(dialers)
      /\ \A e \in Entries : inEffect'.routes[e] = {route[e]}
  <2>1. Installed(dialers) \in SUBSET Via
    BY InstalledType DEF TypeOK
  <2>2. \A e \in Entries : {route[e]} \in SUBSET (UpstreamIds \cup {None})
    BY DEF TypeOK, Routes
  <2> QED
    BY <2>1, <2>2, <1>1
<1>5. TypeOK'
  BY <1>1, <1>2, <1>3, <1>4 DEF TypeOK, Change
<1>6. ChangeFollows'
  BY <1>1, <1>2, <1>3 DEF ChangeFollows
<1>7. EffectFollows'
  <2>1. Installed(dialers)' = Installed(dialers)
    BY <1>1
  <2> QED
    BY <2>1, <1>1, <1>3 DEF EffectFollows
<1>8. Numbered'
  <2>1. \A r : Holds(r)' = Holds(r)
    BY <1>1 DEF Holds
  <2> QED
    BY <2>1, <1>1, <1>3 DEF Numbered
<1>9. \A e \in Entries : inEffect'.routes[e] \subseteq inEffect.routes[e]
  BY <1>4, EffectNow
<1>10. inEffect'.vias \subseteq inEffect.vias
  BY <1>4, EffectNow
<1>11. Witnessed'
  <2> SUFFICES ASSUME NEW r \in Requests, InFlight(r)
               PROVE  /\ inEffect'.routes[req[r].entry] \subseteq req[r].routes
                      /\ inEffect'.vias \subseteq req[r].vias
    BY <1>1 DEF Witnessed, InFlight
  <2>1. req[r].entry \in Entries
    BY DEF TypeOK, Progress
  <2> QED
    BY <2>1, <1>9, <1>10 DEF Witnessed
<1>12. MembersResolve'
  BY <1>1, <1>2, <1>3 DEF MembersResolve
<1>13. TakenPools'
  <2> SUFFICES ASSUME NEW r \in Requests, Holds(r), req[r].entry \in member
               PROVE  OnlyVia(At(r), req[r].routes, req[r].vias)'
    BY <1>1, <1>2 DEF TakenPools, Holds
  <2>1. OnlyVia(At(r), req[r].routes, req[r].vias)
    BY DEF TakenPools
  <2> QED
    BY <2>1, <1>1 DEF OnlyVia, At, Holds
<1>14. CurrentPools'
  <2>1. \A e : ~Renewed(e)'
    BY <1>3 DEF Renewed
  <2> SUFFICES ASSUME NEW e \in change.keep
               PROVE  OnlyVia(<<e, transport[e]>>, inEffect.routes[e], inEffect.vias)'
    BY <2>1, <1>1 DEF CurrentPools
  <2>2. Renewed(e) /\ e \in member /\ e \in Entries
    BY <1>1, <1>2 DEF Renewed, TypeOK
  <2>3. PICK now, then : now = {route[e]} /\ then = Installed(dialers)
    OBVIOUS
  <2>4. OnlyVia(<<e, transport[e]>>, now, then)
    BY <2>2, <2>3 DEF CurrentPools
  <2>5. OnlyVia(<<e, transport[e]>>, now, then)'
    BY <2>2, <2>4, <1>1, CurrentKept
  <2> QED
    BY <2>2, <2>3, <2>5, <1>4 DEF OnlyVia
<1> QED
  BY <1>5, <1>6, <1>7, <1>8, <1>11, <1>12, <1>13, <1>14

----------------------------------------------------------------------------
(* The invariant.                                                          *)

(* Before the first request and mutation it holds.                         *)
LEMMA InitInv == Init => Inv
<1> SUFFICES ASSUME Init PROVE Inv
  OBVIOUS
<1> USE RoutingAssumption DEF Init
<1>1. /\ dialers \in Table /\ \A u \in UpstreamIds : dialers[u] # None
      /\ route \in Routes
  BY DEF Table, Routes
<1>2. NoChange \in Change /\ NoChange.pc = "none" /\ NoChange.keep = {} /\ NoChange.todo = {}
  BY DEF NoChange, Change, Table, Routes
<1>3. \A r \in Requests : req[r] \in Progress /\ req[r].pc = "idle"
  <2> SUFFICES ASSUME NEW r \in Requests PROVE req[r] \in Progress /\ req[r].pc = "idle"
    OBVIOUS
  <2>1. PICK e \in Entries : req[r] = Idle(e)
    OBVIOUS
  <2>2. Idle(e) \in Progress
    BY GoroutineType DEF Idle
  <2>3. Idle(e).pc = "idle"
    BY DEF Idle, Goroutine
  <2> QED
    BY <2>1, <2>2, <2>3
<1>4. TypeOK
  <2>1. Installed(dialers) \in SUBSET Via
    BY <1>1, InstalledType
  <2>2. [e \in Entries |-> {route[e]}] \in [Entries -> SUBSET (UpstreamIds \cup {None})]
    BY <1>1 DEF Routes
  <2>3. inEffect \in [routes : [Entries -> SUBSET (UpstreamIds \cup {None})], vias : SUBSET Via]
    BY <2>1, <2>2
  <2>4. req \in [Requests -> Progress]
    BY <1>3
  <2>5. changes \in Numbers /\ transport \in [Entries -> Numbers]
    BY DEF Numbers
  <2> QED
    BY <1>1, <1>2, <2>3, <2>4, <2>5 DEF TypeOK
<1>5. ChangeFollows
  BY <1>2 DEF ChangeFollows
<1>6. EffectFollows
  BY <1>2 DEF EffectFollows
<1>7. Numbered
  BY <1>2, <1>3 DEF Numbered, Holds
<1>8. Witnessed /\ TakenPools
  BY <1>3 DEF Witnessed, TakenPools, InFlight, Holds
<1>9. MembersResolve
  BY <1>1, <1>2 DEF MembersResolve, Routes
<1>10. CurrentPools
  BY <1>2, <1>3 DEF CurrentPools, OnlyVia, Holds, Renewed
<1> QED
  BY <1>4, <1>5, <1>6, <1>7, <1>8, <1>9, <1>10 DEF Inv

(* Every step keeps it.                                                    *)
LEMMA NextInv == Inv /\ [Next]_vars => Inv'
<1> SUFFICES ASSUME Inv, [Next]_vars PROVE Inv'
  OBVIOUS
<1>1. CASE Mutate
  <2>1. CASE \E e \in Entries : SetRoute(e)
    BY <2>1, SetRouteInv
  <2>2. CASE Install \/ ReplaceTransport \/ CloseIdle \/ Reply
    BY <2>2, InstallInv, ReplaceInv, CloseIdleInv, ReplyInv
  <2>3. CASE \/ \E u \in UpstreamIds, d \in Dialers \cup {None} : EditUpstream(u, d)
             \/ \E e \in Entries, id \in UpstreamIds \cup {None} : SwitchRoute(e, id)
             \/ \E e \in Entries : DropEntry(e)
    BY <2>3, MutationBegins
  <2> QED
    BY <1>1, <2>1, <2>2, <2>3 DEF Mutate
<1>2. ASSUME NEW r \in Requests, Forward(r) PROVE Inv'
  BY <1>2, ForwardInv
<1>3. ASSUME NEW c \in idle, Expire(c) PROVE Inv'
  BY <1>3, ExpireInv
<1>4. CASE UNCHANGED vars
  <2> USE <1>4 DEF vars, routing
  <2>1. TypeOK' /\ ChangeFollows' /\ EffectFollows' /\ MembersResolve'
    BY DEF Inv, TypeOK, ChangeFollows, EffectFollows, MembersResolve
  <2>2. \A m : Renewed(m)' = Renewed(m)
    BY DEF Renewed
  <2>3. Numbered'
    BY <2>2 DEF Inv, Numbered, Holds
  <2>4. \A m \in Entries : transport[m] <= transport'[m]
    BY DEF Inv, TypeOK, Numbers
  <2>5. Witnessed' /\ TakenPools'
    BY <2>4, MutationLeaves
  <2>6. CurrentPools'
    BY <2>2, CommitPools
  <2> QED
    BY <2>1, <2>3, <2>5, <2>6 DEF Inv
<1> QED
  BY <1>1, <1>2, <1>3, <1>4 DEF Next

(* The invariant holds throughout.                                         *)
THEOREM Invariant == Spec => []Inv
<1>1. Inv /\ [Next]_vars => Inv'
  BY NextInv
<1> QED
  BY InitInv, <1>1, PTL DEF Spec

(* Every variable keeps its type; among others no entry gets more          *)
(* transports than there have been mutations.                              *)
THEOREM TypeCorrect == Spec => []TypeOK
<1>1. Inv => TypeOK
  BY DEF Inv
<1> QED
  BY Invariant, <1>1, PTL

(* A request that arrives after the reply to a mutation is never carried   *)
(* by a connection from before it (forward, RoutingChanged and Commit).    *)
THEOREM RequestsFollowRoutes == Spec => []MembersUseRouteInEffect
<1>1. Inv => MembersUseRouteInEffect
  <2> SUFFICES ASSUME Inv, NEW r \in Requests, req[r].entry \in member, req[r].pc = "using",
                      NEW v \in req[r].via
               PROVE  v.id \in req[r].routes /\ v \in req[r].vias
    BY DEF MembersUseRouteInEffect, Carried
  <2>1. Holds(r)
    BY DEF Holds
  <2>2. OnlyVia(At(r), req[r].routes, req[r].vias)
    BY <2>1 DEF Inv, TakenPools
  <2> QED
    BY <2>1, <2>2 DEF OnlyVia
<1> QED
  BY Invariant, <1>1, PTL

(* Between mutations pools hold connections of the present routes and      *)
(* upstreams only: RoutingChanged reaches every entry that needs it.       *)
THEOREM PoolsFollowRoutes == Spec => []PoolsMatchRoutes
<1>1. Inv => PoolsMatchRoutes
  <2> SUFFICES ASSUME Inv, change.pc = "none", NEW c \in idle, NEW e, e = c.transport[1],
                      e \in member, c.transport[2] = transport[e]
               PROVE  c.via \in Routed(route[e], dialers)
    BY DEF PoolsMatchRoutes
  <2>1. c.transport = <<e, transport[e]>> /\ e \in Entries
    BY DEF Inv, TypeOK, Pooled, Transports
  <2>2. c.via.id \in inEffect.routes[e] /\ c.via \in inEffect.vias
    BY <2>1 DEF Inv, CurrentPools, OnlyVia
  <2>3. c.via.id = route[e] /\ c.via \in Installed(dialers)
    BY <2>1, <2>2 DEF Inv, EffectFollows
  <2> QED
    BY <2>3, InstalledRouted DEF Inv, TypeOK
<1> QED
  BY Invariant, <1>1, PTL

(* A dial finds its upstream gone only if a mutation gave the listener     *)
(* another route meanwhile: deleteUpstream refuses one that is in use.     *)
THEOREM NoActiveFollowsChange == Spec => NoActiveOnlyDuringChange
<1>1. ASSUME Inv
      PROVE  \A r \in Requests :
               NoActive(r) /\ req[r].entry \in member /\ req[r].id # None
               => \E id \in req[r].routes : id # req[r].id
  <2> SUFFICES ASSUME NEW r \in Requests, NoActive(r), req[r].entry \in member, req[r].id # None
               PROVE  \E id \in req[r].routes : id # req[r].id
    OBVIOUS
  <2> DEFINE e == req[r].entry
  <2>1. dialers[req[r].id] = None /\ req[r].id \in UpstreamIds
    BY <1>1 DEF NoActive, Routed, Inv, TypeOK, Progress
  <2>2. route[e] # req[r].id
    BY <2>1, <1>1 DEF Inv, MembersResolve
  <2>3. InFlight(r) /\ e \in Entries
    BY <1>1 DEF NoActive, InFlight, Inv, TypeOK
  <2>4. route[e] \in req[r].routes
    BY <2>3, <1>1, EffectNow DEF Inv, Witnessed
  <2> QED
    BY <2>2, <2>4
<1> QED
  BY Invariant, <1>1, PTL DEF NoActiveOnlyDuringChange

=============================================================================
