----------------------------- MODULE HttpRouting -----------------------------
(***************************************************************************)
(* Plain HTTP requests through a listener's entry, while routes and        *)
(* upstreams change (internal/httpproxy/server.go: forward and             *)
(* RoutingChanged; internal/listener/manager.go: routeDialer and Commit;   *)
(* internal/upstream/selector.go: Install and DialContextFor).             *)
(*                                                                         *)
(* forward takes the server's transport, the transport takes a pooled      *)
(* connection or dials one, a dial reads the entry's route and then looks  *)
(* the upstream up: none of these steps holds a lock of the mutation that  *)
(* installs upstreams, sets routes and replaces transports.                *)
(*                                                                         *)
(* An entry is an object of Manager.running; a member is one that is still *)
(* in the map.  One that was dropped (its listener disabled, deleted or    *)
(* moved) still serves the client connections it had accepted.             *)
(*                                                                         *)
(* Simplifications.                                                        *)
(*  - One target: a pool is a set of connections, alike if dialed alike.   *)
(*  - A mutation whose Save fails is none.  Entries opened later are like  *)
(*    those of the start.                                                  *)
(*  - Looking for a pooled connection and reading the route for a dial are *)
(*    one step, no code of the program is between them.                    *)
(*  - A dial of the transport goes on when its request no longer waits for *)
(*    it; it then has the place of a request, so that requests and such    *)
(*    dials together are as many as Requests.                              *)
(***************************************************************************)
EXTENDS Integers

CONSTANTS
    UpstreamIds,
    Dialers,        \* what an upstream's configuration makes a dial do
    Entries,
    Requests,       \* requests, and dials without one, that may be under way
    None,
    MaxChanges      \* bound on the number of mutations

ASSUME RoutingAssumption ==
    /\ None \notin UpstreamIds \cup Dialers \cup Entries
    /\ MaxChanges \in Nat

VARIABLES
    dialers,      \* Selector.entries: the dialer of each upstream
    upstreams,    \* Manager.upstreams, as of the last Commit
    member,       \* the entries in Manager.running
    route,        \* routeDialer.upstreamID of each entry
    transport,    \* the number of each entry's current transport
    idle,         \* pooled connections
    closing,      \* transports told to close connections as they become idle
    change,       \* the mutation under way, from Save to reply
    changes,      \* how many there have been
    req,          \* each request's goroutine, or the dial it has left behind
    inEffect      \* history: the routes and dialers of a request that arrives now

routing == <<dialers, upstreams, member, route, transport>>
vars == <<routing, idle, closing, change, changes, req, inEffect>>

----------------------------------------------------------------------------

Via == [id : UpstreamIds, dialer : Dialers]

Numbers == 0..MaxChanges

Transports == Entries \X Numbers

Pooled == [transport : Transports, via : Via]

\* Variant: the upstream is not looked for before it is used.
RoutedAnyway(id, table) ==
    IF id = None THEN {} ELSE {[id |-> id, dialer |-> table[id]]}

(* What a dial along a route ends up with, if anything.                    *)
Routed(id, table) ==
    IF id = None \/ table[id] = None THEN {} ELSE {[id |-> id, dialer |-> table[id]]}

NoChange == [pc |-> "none", dialers |-> [u \in UpstreamIds |-> None],
             routes |-> [e \in Entries |-> None], keep |-> {}, todo |-> {}, at |-> None]

Goroutine(pc, e, routes, vias) ==
    [pc |-> pc, entry |-> e, transport |-> 0, id |-> None, via |-> {},
     wanted |-> TRUE, routes |-> routes, vias |-> vias]

Idle(e) == Goroutine("idle", e, {}, {})

At(r) == <<req[r].entry, req[r].transport>>

InFlight(r) == req[r].pc # "idle"

End(r) == [req EXCEPT ![r] = Idle(req[r].entry)]

----------------------------------------------------------------------------
(* A mutation that has been saved.  From here on both the old and the new  *)
(* routes and dialers are in effect, until the reply.                      *)

Installed(table) == UNION {Routed(u, table) : u \in UpstreamIds}

\* Variant: nobody checks whether an upstream is in use.
Unchecked(table, routes, keep) == TRUE

Resolving(table, routes, keep) ==
    \A e \in keep : routes[e] # None => table[routes[e]] # None

BeginChange(table, routes, keep) ==
    LET news == [routes |-> [e \in Entries |-> inEffect.routes[e] \cup {routes[e]}],
                 vias   |-> inEffect.vias \cup Installed(table)]
    IN
    /\ change.pc = "none"
    /\ changes < MaxChanges
    /\ changes' = changes + 1
    /\ Resolving(table, routes, keep)
    /\ change' = [pc |-> "saved", dialers |-> table, routes |-> routes,
                  keep |-> keep, todo |-> keep, at |-> None]
    /\ inEffect' = news
    /\ req' = [r \in Requests |-> IF InFlight(r)
                 THEN [req[r] EXCEPT !.routes = @ \cup news.routes[req[r].entry],
                                     !.vias   = @ \cup news.vias]
                 ELSE req[r]]
    /\ UNCHANGED <<routing, idle, closing>>

(* An upstream is added, edited or deleted (None).                         *)
EditUpstream(u, dialer) ==
    BeginChange([dialers EXCEPT ![u] = dialer], route, member)

SwitchRoute(e, id) ==
    e \in member /\ BeginChange(dialers, [route EXCEPT ![e] = id], member)

(* A listener is disabled, deleted, or moved to another address.           *)
DropEntry(e) ==
    e \in member /\ BeginChange(dialers, route, member \ {e})

Install ==
    /\ change.pc = "saved"
    /\ dialers' = change.dialers
    /\ change' = [change EXCEPT !.pc = "committing"]
    /\ UNCHANGED <<upstreams, member, route, transport, idle, closing, changes, req, inEffect>>

\* Variant: an edited upstream alone does not count.
RouteChangedOnly(e) == route[e] # change.routes[e]

NeedsTransport(e) == upstreams # change.dialers \/ route[e] # change.routes[e]

(* Commit, for each entry that stays: the route first ...                  *)
SetRoute(e) ==
    /\ change.pc = "committing"
    /\ e \in change.todo
    /\ route' = [route EXCEPT ![e] = change.routes[e]]
    /\ change' = IF NeedsTransport(e)
                 THEN [change EXCEPT !.todo = @ \ {e}, !.pc = "routed", !.at = e]
                 ELSE [change EXCEPT !.todo = @ \ {e}]
    /\ UNCHANGED <<dialers, upstreams, member, transport, idle, closing, changes, req, inEffect>>

\* Variant: the transport stays, only its idle connections are closed.
KeepTransport ==
    /\ change.pc = "routed"
    /\ idle' = {c \in idle : c.transport # <<change.at, transport[change.at]>>}
    /\ change' = [change EXCEPT !.pc = "committing", !.at = None]
    /\ UNCHANGED <<routing, closing, changes, req, inEffect>>

(* ... then RoutingChanged: a new transport, under the server's lock ...   *)
ReplaceTransport ==
    /\ change.pc = "routed"
    /\ transport' = [transport EXCEPT ![change.at] = @ + 1]
    /\ change' = [change EXCEPT !.pc = "replaced"]
    /\ UNCHANGED <<dialers, upstreams, member, route, idle, closing, changes, req, inEffect>>

(* ... and CloseIdleConnections on the one before.                         *)
CloseIdle ==
    LET previous == <<change.at, transport[change.at] - 1>>
    IN
    /\ change.pc = "replaced"
    /\ idle' = {c \in idle : c.transport # previous}
    /\ closing' = closing \cup {previous}
    /\ change' = [change EXCEPT !.pc = "committing", !.at = None]
    /\ UNCHANGED <<routing, changes, req, inEffect>>

(* The rest of Commit, and the reply: from here on only the new routing is *)
(* in effect.                                                              *)
Reply ==
    /\ change.pc = "committing"
    /\ change.todo = {}
    /\ member' = change.keep
    /\ upstreams' = change.dialers
    /\ inEffect' = [routes |-> [e \in Entries |-> {route[e]}], vias |-> Installed(dialers)]
    /\ change' = NoChange
    /\ UNCHANGED <<dialers, route, transport, idle, closing, changes, req>>

----------------------------------------------------------------------------
(* A request.                                                              *)

(* A client sends a request to an entry, on a connection the entry has.    *)
Arrive(r, e) ==
    /\ ~InFlight(r)
    /\ req' = [req EXCEPT ![r] = Goroutine("arrived", e, inEffect.routes[e], inEffect.vias)]
    /\ UNCHANGED <<routing, idle, closing, change, changes, inEffect>>

TakeTransport(r) ==
    /\ req[r].pc = "arrived"
    /\ req' = [req EXCEPT ![r].pc = "trip", ![r].transport = transport[req[r].entry]]
    /\ UNCHANGED <<routing, idle, closing, change, changes, inEffect>>

(* RoundTrip: a pooled connection is used if there is one.                 *)
Reuse(r, c) ==
    /\ req[r].pc = "trip"
    /\ c \in idle
    /\ c.transport = At(r)
    /\ idle' \in {idle, idle \ {c}}
    /\ closing' = closing \ {At(r)}
    /\ req' = [req EXCEPT ![r].pc = "using", ![r].via = {c.via}]
    /\ UNCHANGED <<routing, change, changes, inEffect>>

(* Otherwise one is dialed: routeDialer reads the route ...                *)
ReadRoute(r) ==
    /\ req[r].pc = "trip"
    /\ \A c \in idle : c.transport # At(r)
    /\ closing' = closing \ {At(r)}
    /\ req' = [req EXCEPT ![r].pc = "routed", ![r].id = route[req[r].entry]]
    /\ UNCHANGED <<routing, idle, change, changes, inEffect>>

(* ... and DialContextFor looks the upstream up,                           *)
Lookup(r) ==
    /\ req[r].pc = "routed"
    /\ Routed(req[r].id, dialers) # {}
    /\ req' = [req EXCEPT ![r].pc = "dialing", ![r].via = Routed(req[r].id, dialers)]
    /\ UNCHANGED <<routing, idle, closing, change, changes, inEffect>>

(* or finds none: ErrNoActive, 502.                                        *)
NoActive(r) ==
    /\ req[r].pc = "routed"
    /\ Routed(req[r].id, dialers) = {}
    /\ req' = End(r)
    /\ UNCHANGED <<routing, idle, closing, change, changes, inEffect>>

Connected(r) ==
    /\ req[r].pc = "dialing"
    /\ req[r].wanted
    /\ req' = [req EXCEPT ![r].pc = "using", ![r].id = None]
    /\ UNCHANGED <<routing, idle, closing, change, changes, inEffect>>

(* The dial fails, or the connection in use does.                          *)
Broken(r) ==
    /\ req[r].pc \in {"dialing", "using"}
    /\ req' = End(r)
    /\ UNCHANGED <<routing, idle, closing, change, changes, inEffect>>

(* The client goes away: RoundTrip returns, the dial goes on.              *)
Abandon(r) ==
    /\ req[r].pc \in {"routed", "dialing"}
    /\ req[r].wanted
    /\ req' = [req EXCEPT ![r].wanted = FALSE]
    /\ UNCHANGED <<routing, idle, closing, change, changes, inEffect>>

(* A connection becomes idle: the pool takes it, unless the transport has  *)
(* been told to close its idle ones.                                       *)
BecomesIdle(r) ==
    /\ idle' = IF At(r) \in closing THEN idle
               ELSE idle \cup {[transport |-> At(r), via |-> v] : v \in req[r].via}
    /\ req' = End(r)
    /\ UNCHANGED <<routing, closing, change, changes, inEffect>>

(* The response is complete,                                               *)
Respond(r) == req[r].pc = "using" /\ BecomesIdle(r)

(* or a dial that no request waits for is.                                 *)
ConnectedLate(r) == req[r].pc = "dialing" /\ ~req[r].wanted /\ BecomesIdle(r)

(* A connection that becomes idle is given to a request that waits for one *)
(* instead; the dial of that one goes on, nobody waiting for it.           *)
HandOver(r, q) ==
    /\ req[r].pc = "using" \/ (req[r].pc = "dialing" /\ ~req[r].wanted)
    /\ req[q].pc \in {"routed", "dialing"}
    /\ req[q].wanted
    /\ At(q) = At(r)
    /\ req' = [req EXCEPT ![r] = [req[q] EXCEPT !.wanted = FALSE],
                          ![q].pc = "using", ![q].id = None, ![q].via = req[r].via]
    /\ UNCHANGED <<routing, idle, closing, change, changes, inEffect>>

(* IdleConnTimeout, or the far end closes.                                 *)
Expire(c) ==
    /\ idle' = idle \ {c}
    /\ UNCHANGED <<routing, closing, change, changes, req, inEffect>>

----------------------------------------------------------------------------

Init ==
    /\ dialers \in [UpstreamIds -> Dialers]
    /\ upstreams = dialers
    /\ member = Entries
    /\ route \in [Entries -> UpstreamIds \cup {None}]
    /\ transport = [e \in Entries |-> 0]
    /\ idle = {}
    /\ closing = {}
    /\ change = NoChange
    /\ changes = 0
    /\ req \in [Requests -> {Idle(e) : e \in Entries}]
    /\ inEffect = [routes |-> [e \in Entries |-> {route[e]}], vias |-> Installed(dialers)]

Mutate ==
    \/ \E u \in UpstreamIds, d \in Dialers \cup {None} : EditUpstream(u, d)
    \/ \E e \in Entries : DropEntry(e) \/ SetRoute(e)
    \/ \E e \in Entries, id \in UpstreamIds \cup {None} : SwitchRoute(e, id)
    \/ Install \/ ReplaceTransport \/ CloseIdle \/ Reply

Forward(r) ==
    \/ \E e \in Entries : Arrive(r, e)
    \/ \E c \in idle : Reuse(r, c)
    \/ \E q \in Requests : HandOver(r, q)
    \/ TakeTransport(r) \/ ReadRoute(r) \/ Lookup(r) \/ NoActive(r)
    \/ Connected(r) \/ Broken(r) \/ Abandon(r) \/ Respond(r) \/ ConnectedLate(r)

Next ==
    \/ Mutate
    \/ \E r \in Requests : Forward(r)
    \/ \E c \in idle : Expire(c)

Spec == Init /\ [][Next]_vars

----------------------------------------------------------------------------

Table == [UpstreamIds -> Dialers \cup {None}]

Routes == [Entries -> UpstreamIds \cup {None}]

Change == [pc : {"none", "saved", "committing", "routed", "replaced"},
           dialers : Table, routes : Routes,
           keep : SUBSET Entries, todo : SUBSET Entries, at : Entries \cup {None}]

Progress == [pc : {"idle", "arrived", "trip", "routed", "dialing", "using"},
             entry : Entries, transport : Numbers, id : UpstreamIds \cup {None},
             via : SUBSET Via, wanted : BOOLEAN,
             routes : SUBSET (UpstreamIds \cup {None}), vias : SUBSET Via]

(* Every variable holds what its declaration says.                         *)
TypeOK ==
    /\ dialers \in Table
    /\ upstreams \in Table
    /\ member \in SUBSET Entries
    /\ route \in Routes
    /\ transport \in [Entries -> Numbers]
    /\ idle \in SUBSET Pooled
    /\ closing \in SUBSET Transports
    /\ change \in Change
    /\ changes \in Numbers
    /\ req \in [Requests -> Progress]
    /\ inEffect \in [routes : [Entries -> SUBSET (UpstreamIds \cup {None})], vias : SUBSET Via]

(* What carries the request was dialed along a route the entry had, by a   *)
(* dialer that upstream had, while the request was in flight.              *)
Carried(r) ==
    req[r].pc = "using" =>
        \A v \in req[r].via : v.id \in req[r].routes /\ v \in req[r].vias

(* A request that arrives after the reply to a change is never carried by  *)
(* a connection from before it (README: no pooling across routes), though  *)
(* requests, dials and pools go on while routes and transports change.     *)
MembersUseRouteInEffect ==
    \A r \in Requests : req[r].entry \in member => Carried(r)

(* Between mutations the pool a listener draws from holds connections of   *)
(* its present route and of that upstream's present configuration only,    *)
(* whatever was dialed or returned while they changed.                     *)
PoolsMatchRoutes ==
    change.pc = "none" =>
        \A c \in idle :
            LET e == c.transport[1]
            IN  e \in member /\ c.transport[2] = transport[e]
                => c.via \in Routed(route[e], dialers)

(* A request to a listener with a route fails for want of an upstream only *)
(* if a mutation that gives the listener another route overlapped it.      *)
NoActiveOnlyDuringChange ==
    [][\A r \in Requests :
        NoActive(r) /\ req[r].entry \in member /\ req[r].id # None
        => \E id \in req[r].routes : id # req[r].id]_vars

----------------------------------------------------------------------------
(* What makes them inductive.                                              *)

Holds(r) == req[r].pc \notin {"idle", "arrived"}

(* What transport t has pooled, and what the requests and dials that have  *)
(* taken it may pool there, was dialed along these routes by these dialers.*)
OnlyVia(t, routes, vias) ==
    /\ \A c \in idle : c.transport = t => c.via.id \in routes /\ c.via \in vias
    /\ \A q \in Requests : Holds(q) /\ At(q) = t =>
          /\ req[q].pc \in {"routed", "dialing"} => req[q].id \in routes
          /\ req[q].pc \in {"dialing", "using"} =>
                \A v \in req[q].via : v.id \in routes /\ v \in vias

(* Commit's loop is through with the entry, but for its idle connections.  *)
Renewed(e) ==
    /\ e \in change.keep \ change.todo
    /\ change.pc = "routed" => change.at # e

(* How far the mutation is, and what has been installed.                   *)
ChangeFollows ==
    /\ change.todo \subseteq change.keep
    /\ change.keep \subseteq member
    /\ change.pc = "none" => change = NoChange
    /\ change.pc = "saved" => change.todo = change.keep
    /\ change.pc \in {"none", "saved"} => dialers = upstreams
    /\ change.pc \in {"committing", "routed", "replaced"} => dialers = change.dialers
    /\ change.pc \in {"routed", "replaced"} => change.at \in change.keep \ change.todo
    /\ change.pc # "none" => \A e \in Entries : route[e] # change.routes[e] => e \in change.todo

EffectFollows ==
    /\ change.pc = "none" =>
          inEffect = [routes |-> [e \in Entries |-> {route[e]}], vias |-> Installed(dialers)]
    /\ change.pc # "none" =>
          /\ inEffect.vias = Installed(upstreams) \cup Installed(change.dialers)
          /\ \A e \in Entries : {route[e], change.routes[e]} \subseteq inEffect.routes[e]
          /\ \A e \in change.todo : inEffect.routes[e] = {route[e], change.routes[e]}

(* A transport's number is new when it is given.                           *)
Numbered ==
    /\ \A e \in Entries : transport[e] <= changes
    /\ \A e \in change.keep : ~Renewed(e) => transport[e] < changes
    /\ change.pc = "replaced" => transport[change.at] > 0
    /\ \A c \in idle : c.transport[2] <= transport[c.transport[1]]
    /\ \A r \in Requests : Holds(r) => req[r].transport <= transport[req[r].entry]

(* A request has seen what is in effect.                                   *)
Witnessed ==
    \A r \in Requests : InFlight(r) =>
        inEffect.routes[req[r].entry] \subseteq req[r].routes /\ inEffect.vias \subseteq req[r].vias

(* A mutation leaves no route of a member without its upstream, at any of  *)
(* its steps.                                                              *)
MembersResolve ==
    \A e \in member :
        \A id \in {route[e]} \cup (IF change.pc = "none" THEN {} ELSE {change.routes[e]}) :
            id # None =>
                /\ dialers[id] # None
                /\ change.pc # "none" => change.dialers[id] # None

(* A member's transport carries what is in effect, once renewed only what  *)
(* is to remain so; and the transport of a request what it has seen.       *)
CurrentPools ==
    \A e \in member :
        /\ OnlyVia(<<e, transport[e]>>, inEffect.routes[e], inEffect.vias)
        /\ Renewed(e) => OnlyVia(<<e, transport[e]>>, {route[e]}, Installed(dialers))

TakenPools ==
    \A r \in Requests :
        Holds(r) /\ req[r].entry \in member => OnlyVia(At(r), req[r].routes, req[r].vias)

Inv ==
    /\ TypeOK /\ ChangeFollows /\ EffectFollows /\ Numbered /\ Witnessed
    /\ MembersResolve /\ CurrentPools /\ TakenPools

----------------------------------------------------------------------------
(* What the documentation says, and the code does not do.                  *)

(* README: when a route or an upstream changes, pooled connections are not *)
(* used across the change: also by entries whose listener was disabled.    *)
UseRouteInEffect == \A r \in Requests : Carried(r)

=============================================================================
