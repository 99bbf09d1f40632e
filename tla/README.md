# A formal model of sk5proxy

sk5proxy offers local HTTP and SOCKS5 proxy listeners and forwards what comes
in through upstream HTTP and SOCKS5 proxies, with credentials where they ask for
them. A web console and its admin API
edit upstreams and listeners while the program runs; the configuration is one
JSON file. This directory holds TLA+ modules of the program, the TLC
configurations that check them, and proofs that TLAPS checks.

Run `tlc -config X.cfg M` for a run of `PROJECT.json` and `tlapm M.tla` for a
module whose name ends in `_proofs`.

## The system

| Component | State it keeps | Operations | Talks to |
|---|---|---|---|
| Configuration record (`internal/config/config.go`) | none | `Validate`, `ValidateID`, `Public` | everything |
| Configuration store (same file) | the file, temporary files | `Load`, `Save` | handlers, start |
| Admin API (`internal/api`) | `h.mu`, the mutation under way | GET; upsert, delete, activate an upstream; upsert, delete, switch a listener | selector, manager, store |
| Upstream selector (`internal/upstream/selector.go`) | the active ID and an entry with a dialer per upstream | `Prepare`, `Install`, `Config`, `DialContextFor` | handlers; dials of listeners |
| Upstream dialer (`internal/upstream/dialer.go`) | none; one connection per dial | `DialContext`: TCP, `CONNECT`, response | selector |
| Listener manager (`internal/listener/manager.go`) | `configs`, `running`, `closed` | `Prepare`, `Abort`, `Commit`, `Config`, `Close`, accept loops | handlers, start, stop; proxies |
| Dispatch listener (`internal/listener/dispatch_listener.go`) | a channel of connections, `done` | `deliver`, `Accept`, `Close` | accept loop to HTTP server |
| HTTP proxy (`internal/httpproxy`) | one server and the current transport per listener | `forward`, `connect`, `RoutingChanged` | route dialer |
| SOCKS5 proxy (`internal/socks5`) | per connection | handshake, dial, `Pump` | route dialer |
| Start and stop (`internal/app`, `cmd`) | the process | load and migrate, bind, serve, signal, close | all of the above |
| Web console (`internal/web/static`) | the last configuration it has seen, dialogs | load, save, delete, switch, toggle | admin API |

What is hard about it:

* A mutation reads two components, binds sockets, writes a file, and installs
  the result in two components, in that order. It can fail at each point and
  the process can be stopped or killed between any two.
* Go's slices: no listeners can be `[]` or `null`, and the next start
  distinguishes them.
* Addresses are compared as strings, the kernel compares what they denote
  (`0.0.0.0:1080` overlaps `127.0.0.1:1080`).
* Connections outlive the configuration they came in under: entries, accept
  loops, pooled upstream connections and tunnels are replaced while in use.
* A stop runs next to requests that are being handled.

What makes each component correct, in short: the store never shows half a
configuration and never one that does not validate; handlers are atomic towards
each other and towards crashes; a failed mutation changes nothing; selector and
manager hold what the file holds; a route always names an upstream that exists;
sockets are neither leaked nor closed under a listener that goes on; whatever is
saved can be started from; a connection that was accepted is served or closed; a
pooled connection is never used for another route than its own; a tunnel ends
when both sides have.

## Modules

| Module | What it is |
|---|---|
| `Config` | The configuration record, `Validate`, `loadConfig`'s defaults and migration (`Provisioned`), and what reading back from memory does to it (`Current`). |
| `Mutations` | The six requests as functions on a configuration, and when the handlers refuse them. |
| `ConfigService` | Abstract specification: one durable configuration; calls are applied at one instant, or refused. |
| `ControlPlane` | Process, handlers, selector, manager, file and sockets, step by step. |
| `ControlPlaneInvariant` | The inductive invariant of `ControlPlane`, in named parts. |
| `MCControlPlane` | Instances of it for TLC. |
| `HttpRouting` | Plain HTTP requests, pooled upstream connections and transports against mutations. |
| `MCHttpRouting` | Instances of it for TLC. |
| `AcceptLoop` | One entry from its socket to the handlers: accept loop, dispatch listener, HTTP server. |
| `MCAcceptLoop` | Instances of it for TLC. |
| `ConfigRead` | GET, which takes no lock, composed with `ControlPlane`. |
| `MCConfigRead` | An instance of it for TLC. |
| `AtomicStore` | Abstract specification of the configuration store: the file is replaced in one step, or not. |
| `ConfigStore` | `Save` on a file system, step by step, with failures, kills and power loss; what `Load` finds. |
| `Pipe` | Abstract specification of a tunnel: refused or opened once, two ordered streams, each side told of the end for a reason. |
| `Tunnel` | One SOCKS5 or CONNECT tunnel from handshake and dial to its end. |
| `Mutations_proofs` | Facts about `Mutations`, for every configuration. |
| `ControlPlaneSteps_proofs` | The steps as the proofs use them; types; mutual exclusion; sockets and restartability. |
| `ControlPlane_proofs` | Data, runtime and routes; the invariant; its consequences. |
| `ControlPlaneService_proofs` | `ControlPlane` implements `ConfigService`; which mutations can fail for their sockets or leave one behind; what a GET replies with. |
| `HttpRouting_proofs`, `AcceptLoop_proofs` | The safety properties of these modules. |
| `Tunnel_proofs` | The safety properties of `Tunnel`; it implements `Pipe`. |
| `ConfigStore_proofs` | Its safety properties; it implements `AtomicStore`. |

### ControlPlane and the code

| Variable | Code |
|---|---|
| `disk` | the JSON file (`Store.path`), or `NoFile` |
| `phase` | how far `app.Run` is: `binding` (after `loadConfig`), `serving` (listeners run), `up` (the admin socket is open), `stopping` (`serveAdmin` has been cancelled), `closed` (after the deferred `Manager.Close`), `down` |
| `selector` | `Selector.active`, `Selector.entries` |
| `configs`, `running` | `Manager.configs`, `Manager.running`; an entry is the listener it was made for |
| `accepting` | accept loops (`Manager.serve`), each with its open socket |
| `bound` | addresses for which this process has a listening socket |
| `foreign` | addresses other programs have bound |
| `mu` | the holder of `Handler.mu` |
| `op[c]` | local variables of client `c`'s handler: how far it is, the request, the configuration read and then the one desired, and what `Prepare` has returned |

| Actions | Code |
|---|---|
| `LoadConfig`, `StartListeners`, `OpenAdmin`, `StartFails` | `app.Run`, `loadConfig` |
| `Signal`, `CloseManager`, `Terminate`, `Crash` | `serveAdmin`, the deferred `Close`, end of the process |
| `Lock`, `ReadListeners` | `h.mu.Lock`, `currentConfig`'s two reads |
| `Refuse`, `RejectInvalid`, `BindFails` | 404/409 of the handlers; 400 and 409 of `persistAndInstall` |
| `Prepare` | both `Prepare` functions; the manager's binds |
| `BeginSave`, `SaveFails`, `SaveCompletes` | `Store.Save`, with `Abort` on failure |
| `Install`, `Commit`, `Reply` | `Selector.Install`, `Manager.Commit`, the reply and `Unlock` |
| `Occupy`, `Release` | other programs on the host |

### HttpRouting and the code

`ControlPlane` takes `Commit` as one step, as nothing in the control plane looks
in between. Requests through the listeners do, without any of its locks, so
`HttpRouting` has one step per lock they share with it.

| Variable | Code |
|---|---|
| `dialers` | `Selector.entries`: what the dialer of each upstream does |
| `upstreams` | `Manager.upstreams` |
| `member` | the entries in `Manager.running`; the others have been dropped and serve the client connections they have |
| `route` | `routeDialer.upstreamID` of each entry |
| `transport` | `Server.transport` of each entry, numbered |
| `idle`, `closing` | `net/http`: pooled connections; transports whose `CloseIdleConnections` has been called and that have not been used since |
| `change` | the mutation from `Save` to the reply, and how far `Commit`'s loop is |
| `req[r]` | a goroutine in `forward`, with the transport it has taken, the route its dial has read and what it sends the request on; or, no longer `wanted`, a dial that goes on without its request |
| `inEffect`, `req[r].routes`, `req[r].vias` | history: the routes and dialers there have been since the request arrived |

| Actions | Code |
|---|---|
| `EditUpstream`, `SwitchRoute`, `DropEntry` | a mutation that has been saved |
| `Install`, `SetRoute`, `ReplaceTransport`, `CloseIdle`, `Reply` | `Selector.Install`; `Commit`'s `setUpstream`; the two halves of `RoutingChanged`; the rest of `Commit` |
| `Arrive`, `TakeTransport` | `ServeHTTP`, `forward` up to `RUnlock` |
| `ReadRoute`, `Lookup`, `NoActive` | the dial: `routeDialer.DialContext`, `DialContextFor` |
| `Broken`, `Respond` | `RoundTrip` fails; the response has been copied |
| `Reuse`, `Connected`, `Abandon`, `ConnectedLate`, `HandOver`, `Expire` | what `net/http`'s transport does with connections (external): a dial whose request has left, or was given another connection, goes on, and what it connects is pooled or given to a request that waits |

### AcceptLoop and the code

`ControlPlane` knows an accept loop only as a member of `accepting`; `AcceptLoop`
takes one apart.

| Variable | Code |
|---|---|
| `socket`, `protocol` | `running.listener`, `running.config.Type` |
| `conn[c]` | a client's connection: in the kernel's queue, held by the accept loop, with a handler, closed |
| `loop` | where `running.serve` is and the connection it holds |
| `done`, `server`, `stopping` | `dispatchListener.done`; `http.Server.Serve`; `Shutdown` has been called |
| `cancelled` | the manager's context |
| `failed`, `seen` | history: `Accept` has failed with the socket open; the protocols since a connection was accepted |

| Actions | Code |
|---|---|
| `Accept`, `AcceptEnds`, `AcceptFails`, `Dispatch` | `running.serve` |
| `Deliver`, `DeliverFails` | `deliver` meeting `dispatchListener.Accept`, and its other two cases |
| `ServerStarts`, `ServerEnds`, `Shutdown` | `httpproxy.Server.Serve` and its goroutine |
| `SetProtocol`, `CloseSocket` | `Commit` on the entry; `Manager.Close` |
| `Stop`, `Finish`, `Connect` | the context; handlers; clients |

### ConfigRead and the code

Adds one variable to `ControlPlane`: `get`, a GET that has read the selector
(`ReadSelector`: `ServeHTTP`, `currentConfig`, `Selector.Config`) and not yet the
manager (`ReadManager`: `Manager.Config`), with, as history, the listeners that
have been in effect together with that selector and how many mutations were
published meanwhile. Every other step is one of `ControlPlane` (`Mutate`).

### ConfigStore and the code

| Variable | Code |
|---|---|
| `path` | the file at `Store.path`: contents, and whether they have been synced |
| `durable` | the files it may be after a power loss: the rename is durable only when the file system writes the directory, as `Save` does not sync it |
| `save` | the `Save` under way: how far it is, its configuration, `tmpName`; whether the last one returned an error |
| `temp` | the open temporary file |
| `temps`, `abandoned` | names of temporary files in the directory; history: those a kill or a failing `Remove` has left |

| Actions | Code |
|---|---|
| `Call`, `Refuse`, `Create` | up to `Chmod`, with `ctx.Err` and `Validate` |
| `Write`, `Sync`, `Close`, `Rename`, `Return` | the rest, in that order |
| `Fails`, `Remove`, `RemoveFails` | an error after `CreateTemp`, and the deferred function |
| `WriteDirectory`, `Kill`, `PowerLoss`, `Tidy` | the host and its administrator (external) |

`ImplementsAtomicStore` maps `Rename` to the one step `Replace`; `ControlPlane`'s
`SaveFails` and `SaveCompletes` are that store's outcomes.

### Tunnel and the code

The two servers differ in how a tunnel begins and share the rest: `kind.listener`
says which it is, `kind.upstream` which dialer is used.

| Variable | Code |
|---|---|
| `pc` | where `Handle` (SOCKS5) or `ServeHTTP`/`connect` is |
| `hello`, `answer` | what the client has asked in its handshake; what the upstream proxy has answered |
| `sent`, `end`, `wire` | what each side has sent, whether it has finished or is gone, what of it nobody has read (external) |
| `early` | read ahead: by net/http before the hijack (client), by `bufferedConn.reader` (remote) |
| `got`, `reply` | what each side has received through the tunnel; the last reply to the client |
| `conn` | the program's end of each connection: not made, still net/http's (`server`), open, closed for writing (`eof`), closed |
| `deferred` | the sides whose `Close` the handler has deferred by now |
| `copying` | the two goroutines of `pump` |
| `cancelled`, `request` | the manager's context; the CONNECT request's |

| Actions | Code |
|---|---|
| `Negotiate`, `ReadRequest`, `NegotiateFails`, `RequestFails` | the SOCKS5 handshake |
| `ServeConnect`, `ReadBackground` | net/http up to the handler, and while it runs |
| `Connected`, `ConnectFails` | the TCP connection: 30 s timeout, context |
| `Accepted`, `ExchangeFails` | the exchange with the upstream proxy; `bufferedConn`; on failure the dialer closes the connection |
| `DialFails` | the dial's error: reply 5 or 502 |
| `Hijack`, `HijackFails` | `connect` takes the client's connection over and defers both `Close` calls; or closes the remote side itself |
| `ReplySuccess`, `ReplyFails`, `ForwardEarly`, `ForwardFails` | the reply; data that came with the request |
| `Copy`, `CopyEnds`, `PumpReturns` | `pump` (the same in both packages) |
| `CloseClient`, `CloseBoth`, `Cancel` | the `AfterFunc`s, the stop |
| `Ask`, `Answer`, `Send`, `Finish`, `Leave` | client, upstream proxy and target |

A connection is closed where the code closes it: by the dialer while the exchange
fails, by `connect` while it cannot hijack, else by the calls deferred so far when the
handler returns (`Return`), or by an `AfterFunc`. The two servers defer at different
points: `Handle` the client's at once and the remote's behind the dial, `connect` both
behind the hijack. An upstream that refuses a CONNECT may be slow with the body of its refusal
(`answer` is `refusing` until it is complete): the dialer reads it to its end first.

Neither connection through an upstream proxy has `CloseWrite` (`bufferedConn`
embeds a `net.Conn`; x/net's SOCKS5 connection does too), so a client's end is not
passed on, the remote's is.

`ImplementsPipe` maps `reply` to the pipe's state, the sides whose connection is `eof`
or `closed` to those that have been told of the end, and the two contexts to what
can break a pipe: a stop at any time, the client's end only until the pipe is open
(net/http's background read ends with the hijack).

Operators with a comment "Variant" (`LockFree`, `PrepareUnbound`,
`RemovedOrChanged`, ...) are no part of the specification: they are the
plausible mistakes that `PROJECT.json` substitutes for a definition to show that
a property notices.

## Runs

| Run | Configuration | What it shows |
|---|---|---|
| `safety` | `ControlPlane_safety.cfg` | The inductive invariant and the safety properties, with all six kinds of request and every way of refusing them. |
| `service` | `ControlPlane_service.cfg` | `ControlPlane` implements `ConfigService`. |
| `secrets` | `ControlPlane_secrets.cfg` | Editing credentials never loses a stored password. |
| `recovery` | `ControlPlane_recovery.cfg` | Liveness: once the host is quiet the service comes up and stays up. |
| `removed` | `ControlPlane_removed.cfg` | Violation: a moved and then disabled listener still accepts on its first address. |
| `defaults` | `ControlPlane_defaults.cfg` | Violation: default listeners come back after the last one has been deleted. |
| `pools` | `HttpRouting_pools.cfg` | No request is carried by a connection from before the change that preceded it. |
| `dropped` | `HttpRouting_dropped.cfg` | Violation: through the connections of a disabled listener one is. |
| `dispatch` | `AcceptLoop_dispatch.cfg` | Every connection is served or closed, by the right protocol; the accept loop and the HTTP server end. |
| `store` | `ConfigStore_save.cfg` | The file is always valid or absent, whatever fails; `ConfigStore` implements `AtomicStore`. |
| `reads` | `ConfigRead_reads.cfg` | A GET overlapped by at most one published mutation shows a configuration that was in effect. |
| `tunnel` | `Tunnel_tunnel.cfg` | Tunnels deliver everything in order, pass ends on, leak nothing, and end. |

The properties of `safety`:

* `Inv`: the conjunction described under Proofs.
* `RuntimeFollowsDisk`: selector and manager hold the file's configuration,
  except between `Save` and `Commit` of the mutation under way.
* `RoutesResolve`: no running route names an upstream the selector lacks, also
  between `Install` and `Commit`, when the two are of different configurations.
* `SocketsAccounted`: every socket belongs to an accept loop or to the mutation
  that has just opened it.
* `RunningListenersAccept`: every enabled listener accepts, at every step.
* `DiskRestartable`: what is on disk can be bound by the next start.
* `RetryHarmless`: once a request has been saved, repeating it, on what runs or on what
  a restart makes of the file, is refused or changes nothing.
* `OnlyNewAddressesConflict`: 409 for want of a socket is only for a mutation that gives
  an enabled listener a new address, and only if that is taken. Editing upstreams,
  switching, disabling, deleting or re-sending a listener cannot run into it, whatever
  other programs or the sockets that earlier moves have left open hold meanwhile.
* `StrandedOnlyByMove`: only a move to another address leaves an accept loop without an
  entry. It bounds the leak that run `removed` exhibits.
* `SavedBeforeUsed`: a step gives selector and manager only what the file holds.
* `OnlyOthersBlockStart`: a start fails only when another program holds an address.

The properties of `pools`:

* `Inv`: the inductive invariant (see Proofs).
* `MembersUseRouteInEffect`: what carries a request was dialed along a route and
  by a dialer that were in effect while the request was in flight.
* `PoolsMatchRoutes`: between mutations a listener's current transport pools
  connections of its current route and upstream configuration only, whatever was
  dialed or came back while they changed.
* `NoActiveOnlyDuringChange`: a dial finds its upstream gone only if a mutation
  overlapped the request.

The properties of `dispatch`:

* `NoneLost`: an accepted connection that no handler has is the one the loop holds.
* `ProtocolInEffect`: a handler's protocol is one the listener had since `Accept`.
* `UnservedOnlyAtStop`: closing a listener never closes what it has accepted.
* `HandedOn`, `Answered`, `GoroutinesEnd`: no connection stays with the loop, none
  stays in the queue unless `Accept` has failed, and a closed entry's accept loop and
  HTTP server end (the goroutine that waits for the process's context stays).

The properties of `store`:

* `Inv`: the inductive invariant.
* `AlwaysLoads`: the next start finds a valid file or none, now and after a kill or
  a power loss at any step.
* `NoTempLeft`: a `Save` that returns has removed its temporary file, which holds
  passwords, unless removing it failed.
* `ImplementsAtomicStore`: an error means the old file, success the new one; a power
  loss at worst brings back a file the path has shown since the directory was last
  written.

The properties of `reads`: `ReadInv`, the inductive invariant, and
`ReadsOneConfiguration`. The latter rests on every request changing
upstreams or listeners, never both. With two mutations published between the two
reads it fails (TLC shows it when `get.published < 2` becomes `< 3`): the reply may
then list a route whose upstream it does not list. The console
then shows that listener's upstream as not selected until its next request.

The properties of `tunnel`:

* `Inv`: the inductive invariant.
* `StreamsIntact`: what a side has received is what the other sent, from the first
  byte on and in order, and the client receives none of it before its reply.
* `EndsWhole`: a side that is told of the end, or closed, has received everything,
  unless somebody has left or the process stops.
* `NothingLeaks`: whichever step fails or is overtaken by a stop, the separate closes
  leave no gap: nothing stays open behind a handler that has returned, nor the upstream
  connection of a failed dial while its client is being told.
* `ImplementsPipe`: every step is a step of `Pipe` or none. It adds to the two above
  what they leave open: nothing is delivered to a side that has been told of the end,
  a refused tunnel never opens, and only a stop breaks an open one.
* `TunnelEnds`, `EndReachesClient`, `CancelEnds`: what must happen. Their exceptions
  are what the code does not do: a client's end alone does not end a tunnel, and an
  HTTP upstream that does not answer `CONNECT`, or does not finish a refusal, holds it,
  a stop notwithstanding.

Bounds. `ControlPlane`: two clients (symmetric), so that one can try to begin while the other is
anywhere in a mutation; more only repeat this, `h.mu` lets one in. Two upstreams
and two listeners: one in use, one to switch to, delete, or collide with. Four
addresses: the default's, another, one that overlaps it, the admin's; another
program may take one. No counter is bounded and no depth is: the state spaces are
complete. Restarts, crashes and stops are unlimited. `secrets`, `recovery` and
`service` use fewer request kinds, to have more values of the one that matters.
`HttpRouting`: two upstreams with two configurations each; two requests (or dials without one), one to
pool or hand over a connection and one to use it; two mutations (`MaxChanges`),
as the violation needs two (drop, edit), and a late dial or answer overtaken by
one change can be met by the next. One entry: entries share no transport and no
pool, and `SetRoute` touches one at a time.
`AcceptLoop`: three connections: one with a handler, one in hand, one queued.
`ConfigStore`: two valid configurations and an invalid one; two temporary files, one
in use and one left by a kill. `ConfigRead`: one mutating client, as mutations are
serial, and requests that change upstreams, the active one, a route, and the set
of listeners, so that two of them give the mixtures a GET must not show.
`Tunnel`: each side sends up to two items (`MaxSent`), so that one can be read ahead
while the next is unread; one tunnel, as tunnels share nothing.

Fairness. In `Tunnel`, weak fairness of the handler, of each goroutine of `pump` and
of the functions `AfterFunc` runs: the scheduler runs what can run, and `ConnectFails`,
always enabled in a dial, is its timeout. Nothing is assumed of client, upstream,
target or stop; each property names what it needs of them. In `AcceptLoop`, weak fairness of the loop and of the HTTP server's own
goroutines, as the Go scheduler runs what can run; none on clients, handlers,
mutations or the stop. In `ControlPlane` (run `recovery`): weak fairness on `Start`, as `docker-compose.yml` has
`restart: unless-stopped` and `app.Run` goes on by itself; on `CloseManager`
and `Terminate`, as `app.Run` runs on when `serveAdmin` has returned. Nothing is
assumed about clients or about requests finishing. The premise is that from some
time on nobody signals or kills the process and other programs hold none of the
addresses.

## Proofs

Everything below holds for any sets of clients, upstreams, listeners, addresses
and requests that meet the assumptions in the modules: `ConfigAssumption` (the
empty string is no ID, user or password), `AddressAssumption` (overlap is
reflexive and symmetric), `ClientAssumption`, and `StartAssumption` (the default
addresses of the environment are distinct, well-formed and can be bound next to
the admin's; a file from before the first start validates, can be bound, and
`null` means that it has no listeners).

`Inv` is inductive (`InitInv`, `NextInv`, `StutterInv`, theorem `Invariant`). The
properties alone are not:

* `RuntimeFollowsDisk` says nothing while a mutation is between `Save` and
  `Commit`; `OpFollowsDisk` and `SelectorInstalled` say what it carries
  there, and `Mutex` that there is only one.
* `RoutesResolve` survives `Install` only because the old routes resolve in the
  new configuration too (`RoutesWillResolve`), which is what the handlers' refusal
  to delete an upstream in use is for (`EditedKeepsRoutes`).
* `SocketsAccounted` survives `Commit` because what was opened and what is
  reused was computed from the very map that `Commit` replaces (`PreparedMatches`);
  after `Manager.Close` that is no longer so, and the manager is then empty.
* `DiskRestartable` rests on `BoundApart`: sockets that are open together can be
  opened together; and `Prepare` binds before `Save` writes (`SavingRestartable`).
  `BeginSave`'s look at the cancelled context is needed here: without it a request
  could bind and save the admin's own address while the process stops.
* `RetryHarmless` already holds of what a mutation has prepared (`RetrySettled`), by
  `EditedRepeats`: two edits of the same kind with the same arguments are one, also
  through the nil slice and the defaults a restart may add.
* `OnlyOthersBlockStart` needs that a start has bound just the file's listeners
  (`StartBinds`) when it comes to the admin's address.
* `EditsOneSide`: a mutation leaves the selector or the manager as it is. `ReadInv`
  needs it: in the step between `Install` and `Commit` one of a GET's two reads is
  then of both configurations.

From `Inv`: `TypeCorrect`, `RuntimeFollows`, `RoutesAlwaysResolve`, `SocketsSafe`,
`AlwaysRestartable`, `SecretsKept`, `RetriesHarmless`; with the steps, `Implements` (every step of
`ControlPlane` is a step of `ConfigService` or a stutter), `OnlyNewAddresses`,
`StrandedByMove`, `SavedFirst` and `OnlyOthersBlock`. As a GET changes nothing, `Inv`
holds next to it too, and with it `ReadInvariant` and `ReadsAreWhole`. Every lemma `XStep` shows that a step keeps part X, one case per
action; `StepOf` reduces a handler's step to one client.

`AcceptLoop_proofs` proves, for any set of connections (`ConnectionAssumption`),
`NoConnectionLost`, `ProtocolIsInEffect` and `DisablingKeepsConnections`. Its
invariant adds to them that `done` is closed only when the loop has ended or the
process stops (`DoneOnlyAtEnd`), which is why `deliver` cannot fail earlier, and
that what the loop holds was accepted under a protocol it has seen (`HeldSeen`).

`HttpRouting_proofs` proves, for any entries, requests, upstreams, dialer
configurations and number of changes (`RoutingAssumption`), `RequestsFollowRoutes`,
`PoolsFollowRoutes` and `NoActiveFollowsChange`. What makes them inductive:

* `Witnessed`: a request's history includes what is in effect.
* `CurrentPools`: what the current transport of a listener has pooled, or a request
  that has taken it is about to pool, was dialed along routes and by dialers in
  effect; once the change has renewed that transport, along those that remain.
* `TakenPools`: the same of a transport a request has taken, for what was in effect
  since the request arrived. It took the transport after it arrived, and a change
  replaces the transport before it ends.
* `ChangeFollows`, `EffectFollows`: how far a change has come with each entry, and
  what is in effect meanwhile; `Numbered`: a new transport is new.
* A dial that goes on without its request keeps that request's history and transport,
  so the parts above speak of it too (`HandedOver`, `ForwardKeeps`).
* `MembersResolve`: no step of a change leaves a member's route without its upstream.

`Tunnel_proofs` proves, for any `MaxSent`, `StreamsAlwaysIntact`, `TunnelsEndWhole`,
`NothingEverLeaks` and `TunnelIsPipe`. `StreamsFlow` says that what has been received, what has been
read ahead and what is unread follow on each other without a gap; the lemmas about
`Piece` show that reading ahead, forwarding, copying, sending and a reset keep it so.
`DirectionsEndWhole` needs `ConnsFollow`, that only a cancelled context closes a
connection under a handler that goes on, as otherwise a copy could end with data unread.
`NothingEverLeaks` needs it as well, with `DefersFollow`, that each handler has deferred the
`Close` of what it owns by the time it may return: the lemma about `Return` fails for a
handler that returns before.
For the refinement, what a copy delivers is the next number because of `StreamsFlow`
(`Delivers`), a side is told of the end for one of the pipe's reasons because of
`EndsWhole` after the step (`Tells`), and a tunnel opens only once because a handler
that goes on has not refused (`HandlerFollows`).

`ConfigStore_proofs` proves `StoreAlwaysLoads`, `StoreLeavesNoTemp` and
`StoreImplementsAtomic` for any configurations and file names: only synced files are
ever renamed (`OnlySynced`, `TempHeld`).

Only model-checked: liveness (`ServiceRecovers`, `HandedOn`, `Answered`,
`GoroutinesEnd`, `TunnelEnds`, `EndReachesClient`, `CancelEnds`), as TLAPS proves none
under fairness. Every invariant and action property and every refinement that a passing
run checks is proved.

## Findings

* `Commit` closes old sockets by listener ID only. When a listener moves to
  another address, its old socket stays open in an accept loop nobody can reach
  any more; after the listener has been disabled or deleted the old address still
  accepts (run `removed`), against README.md:145.
* `Manager.Config` returns a nil slice when there is no listener; the next
  upstream edit saves it as `null`, and the next start recreates the default
  listeners (run `defaults`), against README.md:138 and 178.
* `Commit` calls `RoutingChanged` only on entries that stay. A disabled, deleted or
  moved listener's entry goes on serving its client connections with a transport
  that no later change replaces, so its pool outlives edits of the upstream (run
  `dropped`), against README.md:146.

## Simplifications

In `ControlPlane` `Save` is one step that happens or not, which `ConfigStore` shows it to be.
Slices are sets: no decision depends on order. Text rules (ID pattern, trimmed
names, `host:port`) are one rule, `Malformed`. `Selector.Upsert`, `Delete` and
`Activate` have no caller in the program. Request decoding refuses before any
state is read. Names and timestamps are left out; two addresses overlap as the
constant `Clash` says.

The admin server ends by a signal or with the process. Should its listener fail for good, `serveAdmin` returns another error
(app.go:100-102) and the admin socket is closed an instant before the contexts are
cancelled; net/http retries temporary `Accept` errors, so this is assumed not to happen.
Default addresses of the environment that cannot be bound are excluded
(`StartAssumption`): the first start writes them into the file all the same, and no
later start succeeds until somebody edits it.

`HttpRouting` has one target host, so that pooled connections that were dialed
alike are alike; limits of the pool, retries inside `net/http` and header copying
are left out, and so are the listener's own start and stop. Requests, and dials that go
on without one, are together as many as `Requests`. In `AcceptLoop` a handler's work is one step, and the end of the process is left out. In `ControlPlane`
`Accept` never fails while the socket is open; when it does (`AcceptFails`) the loop
ends, the socket stays open and the manager reuses the entry all the same.

In `ConfigStore` saves do not overlap, as `h.mu` and the order of a start see to. In
`Tunnel` a read and the write behind it are one step, peers take what they are sent,
and a handshake message arrives whole or not at all.

## Not modelled

* The web console. It is a view in the browser: whatever it shows or sends, the
  server sees one of the requests that `ControlPlane` takes in any order. Its replies
  replace the view in the order they arrive, and its toggle sends a listener as last seen;
  the repository promises nothing about either, so there is nothing to check them against.
* The static file server, which keeps no state.
* `Selector.Upsert`, `Delete`, `Activate` and `DialContext`, and `socks5.Server.Serve`, which nothing in the program
  calls.
* Environment parsing, logging, path routing and JSON decoding, header copying: plain
  data, or refusals before any state is read.
