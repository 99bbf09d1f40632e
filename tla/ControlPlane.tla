---------------------------- MODULE ControlPlane ----------------------------
(***************************************************************************)
(* The control plane of sk5proxy: process start and stop (internal/app),   *)
(* the admin API's handlers (internal/api), the upstream selector          *)
(* (internal/upstream/selector.go) and the listener manager                *)
(* (internal/listener/manager.go), over the configuration file.            *)
(*                                                                         *)
(* A mutation holds h.mu from its first read to its reply and runs         *)
(*   read selector, read listeners, Prepare (bind), Save, Install, Commit  *)
(* as separate steps, so that a crash, a shutdown, another client or       *)
(* another program binding an address can fall between any two of them.    *)
(*                                                                         *)
(* Simplifications.                                                        *)
(*  - Save replaces the file in one step or fails and leaves it.           *)
(*  - A manager operation under m.mu is one step; a request waiting for    *)
(*    h.mu has not begun.                                                  *)
(*  - An entry of Manager.running is the config it carries; its route is   *)
(*    that config's upstream (Prepare and Commit set both together), its   *)
(*    socket is the one bound to that config's address.                    *)
(*  - A failure to read or save the file at start leaves the process down: *)
(*    no step.                                                             *)
(*  - The admin server ends by a signal or with the process: its listener  *)
(*    never fails for good (serveAdmin would then return another error,    *)
(*    and close the admin socket before the contexts are cancelled).       *)
(***************************************************************************)
EXTENDS Mutations

CONSTANTS
    Clients, Requests, InitialFiles, NoRequest,
    Clash,          \* pairs of addresses that cannot both be bound
    WebAddr,        \* the address of the admin listener
    ForeignAddrs,   \* addresses other programs may bind
    Nobody          \* no client

ASSUME AddressAssumption ==
    /\ Clash \subseteq Addresses \X Addresses
    /\ \A a \in Addresses : <<a, a>> \in Clash
    /\ \A a, b \in Addresses : <<a, b>> \in Clash => <<b, a>> \in Clash
    /\ WebAddr \in Addresses
    /\ ForeignAddrs \subseteq Addresses

ASSUME ClientAssumption ==
    /\ Nobody \notin Clients
    /\ Requests \subseteq Request
    /\ NoRequest \notin Requests

VARIABLES
    disk,        \* the configuration file, or NoFile
    phase,       \* of the process
    selector,    \* Selector: active ID and entries
    configs,     \* Manager.configs
    running,     \* Manager.running
    accepting,   \* the entries whose accept loop runs, on an open socket
    bound,       \* addresses this process has bound for listeners
    foreign,     \* addresses other programs have bound
    mu,          \* holder of h.mu
    op           \* for each client the mutation it executes

vars == <<disk, phase, selector, configs, running, accepting, bound, foreign, mu, op>>

manager == <<configs, running, accepting, bound>>

Service == INSTANCE ConfigService WITH
    config <- disk,
    call <- [c \in Clients |->
              [st |-> IF op[c].pc = "idle" THEN "idle"
                      ELSE IF op[c].pc \in {"saved", "installed", "committed"} THEN "applied"
                      ELSE "called",
               req |-> op[c].req]]

----------------------------------------------------------------------------

Phases == {"down", "binding", "serving", "up", "stopping", "closed"}

Steps == {"idle", "snapshot", "current", "prepared", "saving", "saved", "installed", "committed"}

BeforeSave == {"idle", "snapshot", "current", "prepared", "saving"}

NoUpstreams == [active |-> None, upstreams |-> {}]

Mutation == [pc : Steps, req : Requests \cup {NoRequest}, cfg : ConfigRecord,
             reused : SUBSET Listener, opened : SUBSET Listener]

IdleOp == [pc |-> "idle", req |-> NoRequest, cfg |-> EmptyConfig, reused |-> {}, opened |-> {}]

Alive == phase \in {"up", "stopping", "closed"}

Clashes(a, b) == <<a, b>> \in Clash

(* What this process holds in the eyes of the operating system.            *)
Held == bound \cup (IF phase = "up" THEN {WebAddr} ELSE {})

Free(a) == \A b \in Held \cup foreign : ~Clashes(a, b)

(* net.Listen succeeds for each address in turn.                           *)
Bindable(addrs) ==
    /\ \A a \in addrs : Free(a)
    /\ \A a, b \in addrs : a # b => ~Clashes(a, b)

(* Enabled listeners that can be bound together, and next to the admin's.  *)
Restartable(listeners) ==
    /\ \A l \in Enabled(listeners) : ~Clashes(l.addr, WebAddr)
    /\ \A l, k \in Enabled(listeners) : l # k => ~Clashes(l.addr, k.addr)

(* The environment's default addresses, and a file from before the first   *)
(* start, can be bound.                                                    *)
ASSUME StartAssumption ==
    /\ NoFile \notin ConfigRecord
    /\ DefaultListeners \subseteq Listener
    /\ \A l \in DefaultListeners : l.addr # Malformed /\ l.upstream = None
    /\ UniqueIds(DefaultListeners)
    /\ Restartable(DefaultListeners)
    /\ InitialFiles \subseteq ConfigRecord \cup {NoFile}
    /\ \A file \in InitialFiles \ {NoFile} :
          /\ Validate(file)
          /\ Restartable(file.listeners)
          /\ file.null => file.listeners = {}

----------------------------------------------------------------------------
(* Start, in app.Run.                                                      *)

LoadConfig ==
    /\ phase = "down"
    /\ disk' = Provisioned(disk)
    /\ phase' = "binding"
    /\ UNCHANGED <<selector, manager, foreign, mu, op>>

(* NewSelector, then Prepare and Commit on a manager that runs nothing.    *)
StartListeners ==
    /\ phase = "binding"
    /\ Bindable(Addrs(Enabled(disk.listeners)))
    /\ selector' = [active |-> disk.active, upstreams |-> disk.upstreams]
    /\ configs' = disk.listeners
    /\ running' = Enabled(disk.listeners)
    /\ accepting' = Enabled(disk.listeners)
    /\ bound' = Addrs(Enabled(disk.listeners))
    /\ phase' = "serving"
    /\ UNCHANGED <<disk, foreign, mu, op>>

OpenAdmin ==
    /\ phase = "serving"
    /\ Free(WebAddr)
    /\ phase' = "up"
    /\ UNCHANGED <<disk, selector, manager, foreign, mu, op>>

(* The end of the process: the kernel closes its sockets, memory is gone.  *)
Exit ==
    /\ phase' = "down"
    /\ selector' = NoUpstreams
    /\ configs' = {}
    /\ running' = {}
    /\ accepting' = {}
    /\ bound' = {}
    /\ mu' = Nobody
    /\ op' = [c \in Clients |-> IdleOp]
    /\ UNCHANGED <<disk, foreign>>

(* An address of the configuration, or WebAddr, is taken: Run returns.     *)
StartFails ==
    /\ \/ phase = "binding" /\ ~Bindable(Addrs(Enabled(disk.listeners)))
       \/ phase = "serving" /\ ~Free(WebAddr)
    /\ Exit

----------------------------------------------------------------------------
(* Stop.  The signal cancels the context of every admin request, then      *)
(* Shutdown closes the admin socket and Serve returns: requests that are   *)
(* being handled go on.  Run's deferred Manager.Close follows, and after   *)
(* that the process may end at any moment.                                 *)

Signal ==
    /\ phase = "up"
    /\ phase' = "stopping"
    /\ UNCHANGED <<disk, selector, manager, foreign, mu, op>>

CloseManager ==
    /\ phase = "stopping"
    /\ phase' = "closed"
    /\ configs' = {}
    /\ running' = {}
    /\ accepting' = accepting \ running
    /\ bound' = bound \ Addrs(running)
    /\ UNCHANGED <<disk, selector, foreign, mu, op>>

Terminate == phase = "closed" /\ Exit

Crash == phase # "down" /\ Exit

----------------------------------------------------------------------------
(* A mutation of client c.                                                 *)

Unlock(c) ==
    /\ mu' = Nobody
    /\ op' = [op EXCEPT ![c] = IdleOp]

\* Variant: the handler does not take h.mu.
LockFree(c, req) ==
    /\ Alive
    /\ op[c].pc = "idle"
    /\ mu' = c
    /\ op' = [op EXCEPT ![c] = [IdleOp EXCEPT !.pc = "snapshot", !.req = req,
                    !.cfg = [active |-> selector.active, upstreams |-> selector.upstreams,
                             listeners |-> {}, null |-> TRUE]]]
    /\ UNCHANGED <<disk, phase, selector, manager, foreign>>

(* h.mu is taken; currentConfig reads the selector ...                     *)
Lock(c, req) ==
    /\ Alive
    /\ mu = Nobody
    /\ op[c].pc = "idle"
    /\ mu' = c
    /\ op' = [op EXCEPT ![c] = [IdleOp EXCEPT !.pc = "snapshot", !.req = req,
                    !.cfg = [active |-> selector.active, upstreams |-> selector.upstreams,
                             listeners |-> {}, null |-> TRUE]]]
    /\ UNCHANGED <<disk, phase, selector, manager, foreign>>

(* ... and then the manager.  A copy of an empty slice is nil.             *)
ReadListeners(c) ==
    /\ op[c].pc = "snapshot"
    /\ op' = [op EXCEPT ![c] = [@ EXCEPT !.pc = "current",
                    !.cfg = Current([op[c].cfg EXCEPT !.listeners = configs])]]
    /\ UNCHANGED <<disk, phase, selector, manager, foreign, mu>>

Desired(c) == Edited(op[c].cfg, op[c].req)

(* Entries that go on with their socket: same ID, same address.            *)
Reused(cfg) == {r \in running : \E l \in Enabled(cfg.listeners) : l.id = r.id /\ l.addr = r.addr}

\* Variant: an entry is reused only if nothing of its listener has changed.
OpenedUnlessSame(cfg) == Enabled(cfg.listeners) \ running

Opened(cfg) == {l \in Enabled(cfg.listeners) : ~ \E r \in running : r.id = l.id /\ r.addr = l.addr}

(* 404, 409: the handler's own checks.                                     *)
Refuse(c) ==
    /\ op[c].pc = "current"
    /\ Refused(op[c].cfg, op[c].req)
    /\ Unlock(c)
    /\ UNCHANGED <<disk, phase, selector, manager, foreign>>

(* 400: upstream.Prepare finds the configuration invalid.                  *)
RejectInvalid(c) ==
    /\ op[c].pc = "current"
    /\ ~Refused(op[c].cfg, op[c].req)
    /\ ~Validate(Desired(c))
    /\ Unlock(c)
    /\ UNCHANGED <<disk, phase, selector, manager, foreign>>

(* 409: Manager.Prepare cannot bind, or the manager is closed.             *)
BindFails(c) ==
    /\ op[c].pc = "current"
    /\ ~Refused(op[c].cfg, op[c].req)
    /\ Validate(Desired(c))
    /\ phase = "closed" \/ ~Bindable(Addrs(Opened(Desired(c))))
    /\ Unlock(c)
    /\ UNCHANGED <<disk, phase, selector, manager, foreign>>

\* Variant: the new addresses are not bound before the configuration is saved.
PrepareUnbound(c) ==
    /\ op[c].pc = "current"
    /\ ~Refused(op[c].cfg, op[c].req)
    /\ Validate(Desired(c))
    /\ phase # "closed"
    /\ op' = [op EXCEPT ![c] = [@ EXCEPT !.pc = "prepared", !.cfg = Desired(c),
                    !.reused = Reused(Desired(c))]]
    /\ UNCHANGED <<disk, phase, selector, manager, foreign, mu>>

Prepare(c) ==
    /\ op[c].pc = "current"
    /\ ~Refused(op[c].cfg, op[c].req)
    /\ Validate(Desired(c))
    /\ phase # "closed"
    /\ Bindable(Addrs(Opened(Desired(c))))
    /\ bound' = bound \cup Addrs(Opened(Desired(c)))
    /\ op' = [op EXCEPT ![c] = [@ EXCEPT !.pc = "prepared", !.cfg = Desired(c),
                    !.reused = Reused(Desired(c)), !.opened = Opened(Desired(c))]]
    /\ UNCHANGED <<disk, phase, selector, configs, running, accepting, foreign, mu>>

\* Variant: Save does not look at the request's context.
BeginSaveAnyway(c) ==
    /\ op[c].pc = "prepared"
    /\ op' = [op EXCEPT ![c] = [@ EXCEPT !.pc = "saving"]]
    /\ UNCHANGED <<disk, phase, selector, manager, foreign, mu>>

(* Save looks at the request's context once, before it writes.             *)
BeginSave(c) ==
    /\ op[c].pc = "prepared"
    /\ phase = "up"
    /\ op' = [op EXCEPT ![c] = [@ EXCEPT !.pc = "saving"]]
    /\ UNCHANGED <<disk, phase, selector, manager, foreign, mu>>

\* Variant: nothing closes what Prepare opened.
SaveFailsWithoutAbort(c) ==
    /\ op[c].pc \in {"prepared", "saving"}
    /\ Unlock(c)
    /\ UNCHANGED <<disk, phase, selector, manager, foreign>>

\* Variant: Save writes the file in place, and fails having written it.
SaveFailsInPlace(c) ==
    /\ op[c].pc \in {"prepared", "saving"}
    /\ disk' \in IF op[c].pc = "saving" THEN {disk, op[c].cfg} ELSE {disk}
    /\ bound' = bound \ Addrs(op[c].opened)
    /\ Unlock(c)
    /\ UNCHANGED <<phase, selector, configs, running, accepting, foreign>>

(* 500: the context is cancelled (the client left, the process stops) or   *)
(* the file cannot be written; Abort closes what Prepare opened.           *)
SaveFails(c) ==
    /\ op[c].pc \in {"prepared", "saving"}
    /\ bound' = bound \ Addrs(op[c].opened)
    /\ Unlock(c)
    /\ UNCHANGED <<disk, phase, selector, configs, running, accepting, foreign>>

SaveCompletes(c) ==
    /\ op[c].pc = "saving"
    /\ disk' = op[c].cfg
    /\ op' = [op EXCEPT ![c] = [@ EXCEPT !.pc = "saved"]]
    /\ UNCHANGED <<phase, selector, manager, foreign, mu>>

Install(c) ==
    /\ op[c].pc = "saved"
    /\ selector' = [active |-> op[c].cfg.active, upstreams |-> op[c].cfg.upstreams]
    /\ op' = [op EXCEPT ![c] = [@ EXCEPT !.pc = "installed"]]
    /\ UNCHANGED <<disk, phase, manager, foreign, mu>>

\* Variant: Commit compares whole configurations instead of IDs.
RemovedOrChanged(next) == running \ next

\* Variant: Commit closes nothing.
RemovedNone(next) == {}

(* Of the entries of the old map, Commit closes the socket of those whose  *)
(* ID is not in the new one.                                               *)
Removed(next) == {r \in running : r.id \notin Ids(next)}

\* Variant: a reused entry keeps the route it had.
StaleEntries(c) ==
    op[c].opened \cup
        {[l EXCEPT !.upstream = (CHOOSE r \in op[c].reused : r.id = l.id).upstream] :
            l \in {k \in Enabled(op[c].cfg.listeners) : k.id \in Ids(op[c].reused)}}

(* The entries of the new map: what Prepare opened, and what it reused,    *)
(* with the new configuration and route.                                   *)
Entries(c) == Enabled(op[c].cfg.listeners)

(* Commit does not look at closed: after Manager.Close it fills the map    *)
(* again, with entries whose sockets Close has closed.                     *)
Commit(c) ==
    LET live == (op[c].reused \cap accepting) \ Removed(Entries(c))
    IN
    /\ op[c].pc = "installed"
    /\ running' = Entries(c)
    /\ configs' = op[c].cfg.listeners
    /\ accepting' = (accepting \ (Removed(Entries(c)) \cup live))
                      \cup {l \in Entries(c) : \E r \in live : r.id = l.id}
                      \cup op[c].opened
    /\ bound' = bound \ Addrs(Removed(Entries(c)))
    /\ op' = [op EXCEPT ![c] = [@ EXCEPT !.pc = "committed", !.reused = {}, !.opened = {}]]
    /\ UNCHANGED <<disk, phase, selector, foreign, mu>>

Reply(c) ==
    /\ op[c].pc = "committed"
    /\ Unlock(c)
    /\ UNCHANGED <<disk, phase, selector, manager, foreign>>

----------------------------------------------------------------------------
(* Other programs of the host.                                             *)

Occupy(a) ==
    /\ Free(a)
    /\ foreign' = foreign \cup {a}
    /\ UNCHANGED <<disk, phase, selector, manager, mu, op>>

Release(a) ==
    /\ a \in foreign
    /\ foreign' = foreign \ {a}
    /\ UNCHANGED <<disk, phase, selector, manager, mu, op>>

----------------------------------------------------------------------------

Init ==
    /\ disk \in InitialFiles
    /\ phase = "down"
    /\ selector = NoUpstreams
    /\ configs = {}
    /\ running = {}
    /\ accepting = {}
    /\ bound = {}
    /\ foreign = {}
    /\ mu = Nobody
    /\ op = [c \in Clients |-> IdleOp]

Start == LoadConfig \/ StartListeners \/ OpenAdmin \/ StartFails

Handle(c) ==
    \/ ReadListeners(c) \/ Refuse(c) \/ RejectInvalid(c) \/ BindFails(c)
    \/ Prepare(c) \/ BeginSave(c) \/ SaveFails(c) \/ SaveCompletes(c)
    \/ Install(c) \/ Commit(c) \/ Reply(c)

Next ==
    \/ Start
    \/ Signal \/ CloseManager \/ Terminate \/ Crash
    \/ \E c \in Clients :
          \/ \E req \in Requests : Lock(c, req)
          \/ Handle(c)
    \/ \E a \in ForeignAddrs : Occupy(a) \/ Release(a)

Spec == Init /\ [][Next]_vars

(* restart: unless-stopped (docker-compose.yml) starts the process again   *)
(* whenever it has ended; app.Run goes on until it serves or fails, and    *)
(* once serveAdmin has returned, until the process has ended.              *)
FairSpec ==
    Spec /\ WF_vars(Start) /\ WF_vars(CloseManager) /\ WF_vars(Terminate)

----------------------------------------------------------------------------
(* What makes the control plane correct.                                   *)

(* Every variable holds what its declaration says.                         *)
TypeOK ==
    /\ disk \in ConfigRecord \cup {NoFile}
    /\ phase \in Phases
    /\ selector \in [active : UpstreamIds \cup {None}, upstreams : SUBSET Upstream]
    /\ configs \in SUBSET Listener
    /\ running \in SUBSET Listener
    /\ accepting \in SUBSET Listener
    /\ bound \in SUBSET Addresses
    /\ foreign \in SUBSET Addresses
    /\ mu \in Clients \cup {Nobody}
    /\ op \in [Clients -> Mutation]

RuntimeIs(cfg) ==
    /\ selector = [active |-> cfg.active, upstreams |-> cfg.upstreams]
    /\ configs = cfg.listeners
    /\ running = Enabled(cfg.listeners)

(* Selector and manager hold exactly what the file holds, except between   *)
(* the Save and the Commit of the mutation that has h.mu: what a mutation  *)
(* reads is what a restart would load, and one that fails at any step      *)
(* (persistAndInstall's early returns) has changed neither.                *)
RuntimeFollowsDisk ==
    /\ phase \in {"serving", "up", "stopping"}
    /\ mu # Nobody => op[mu].pc \in BeforeSave \cup {"committed"}
    => RuntimeIs(disk)

(* A route never names an upstream that the selector does not have: not    *)
(* between Install and Commit either, when the two are of different        *)
(* configurations (routeDialer.DialContext would fail with ErrNoActive).   *)
RoutesResolve ==
    \A id \in {selector.active} \cup {r.upstream : r \in running} :
        id \in Ids(selector.upstreams) \cup {None}

(* Every socket is in the hands of an accept loop or of the mutation that  *)
(* has just opened it, and no two loops share one: nothing Prepare opens   *)
(* stays open after a failed Save.                                         *)
SocketsAccounted ==
    /\ bound = Addrs(accepting) \cup UNION {Addrs(op[c].opened) : c \in Clients}
    /\ \A s, t \in accepting : s.addr = t.addr => s = t

(* Every enabled listener accepts, throughout every mutation: Commit       *)
(* never closes the socket of an entry that goes on.                       *)
RunningListenersAccept ==
    phase \in {"serving", "up", "stopping"} => running \subseteq accepting

(* Whatever is on the disk can be bound by the next start, as far as this  *)
(* program's own addresses go.  Validate compares addresses as strings,    *)
(* so this rests on every address having been bound before it was saved.   *)
DiskRestartable == disk # NoFile => Restartable(disk.listeners)

(* Sending an upstream back as GET shows it, without its password, changes *)
(* nothing: upsertUpstream keeps the stored password, so an edit in the    *)
(* console cannot lose one.                                                *)
EditKeepsSecrets ==
    disk # NoFile =>
        \A u \in disk.upstreams : UpsertUpstream(disk, [u EXCEPT !.pass = None]) = disk

(* A client that has seen no reply may send its request again: once the    *)
(* change has been saved, to the process that saved it or to the next one, *)
(* which may have written default listeners into the file, the request is  *)
(* refused or changes nothing.                                             *)
RetryHarmless ==
    \A c \in Clients : op[c].pc \in {"saved", "installed", "committed"} =>
        \A cfg \in {disk, Provisioned(disk)} : Repeated(Current(cfg), op[c].req)

(* Nothing takes effect before it is saved: what a step publishes in the   *)
(* selector or in the manager is what the file holds, so a crash at any    *)
(* instant takes back nothing that connections have been routed by.        *)
SavedBeforeUsed ==
    [][/\ selector' \notin {selector, NoUpstreams} =>
              selector' = [active |-> disk.active, upstreams |-> disk.upstreams]
       /\ configs' \notin {configs, {}} =>
              configs' = disk.listeners /\ running' = Enabled(disk.listeners)]_vars

(* A start fails only because of another program: never because of what    *)
(* the API was made to save, whatever was killed at which step.            *)
OnlyOthersBlockStart == [][StartFails => foreign # {}]_vars

(* A mutation is refused for its sockets only if it gives an enabled       *)
(* listener a new address, and that address is taken: editing upstreams,   *)
(* switching, disabling or deleting a listener and re-sending one as it is *)
(* never fail with 409, whatever other programs hold meanwhile and         *)
(* whatever sockets earlier moves left open (Prepare's reuse of entries).  *)
OnlyNewAddressesConflict ==
    [][\A c \in Clients : BindFails(c) /\ phase # "closed" =>
        /\ op[c].req.kind = "upsertListener" /\ op[c].req.item.enabled
        /\ ~ \E r \in running : r.id = op[c].req.item.id /\ r.addr = op[c].req.item.addr
        /\ ~Free(op[c].req.item.addr)]_vars

(* An accept loop loses its entry in the manager only in a step that gives *)
(* the same listener another address.                                      *)
StrandedOnlyByMove ==
    [][\A s \in accepting' \ running' :
        \/ s \in accepting \ running
        \/ \E l \in running' : l.id = s.id /\ l.addr # s.addr]_vars

(* The admin API implements the abstract service, the file being its       *)
(* configuration: Save is the instant a change happens, h.mu makes the     *)
(* read-modify-write of each mutation atomic.                              *)
ImplementsService == Service!Spec

(* Once the host is quiet (nobody kills or stops the process, no other     *)
(* program holds an address) the service comes up and stays up: whatever   *)
(* the API was made to save, and wherever a crash fell, it never keeps     *)
(* the next start from succeeding.                                         *)
Undisturbed == [][~Signal /\ (Crash => StartFails \/ Terminate)]_vars

ServiceRecovers ==
    <>Undisturbed /\ <>[](foreign = {}) => <>[](phase = "up")

----------------------------------------------------------------------------
(* What the documentation says, and the code does not do.                  *)

(* README: disabling or deleting a listener stops it from accepting new    *)
(* connections.                                                            *)
RemovedListenersStopAccepting ==
    phase = "up" /\ mu = Nobody =>
        \A s \in accepting : s.id \in Ids(Enabled(disk.listeners))

(* README: the default listeners are only for the first start and for a    *)
(* file of an old version; after that the file says what is listened on.   *)
DefaultsOnlyForOldFiles ==
    [][LoadConfig => disk' = disk \/ disk \in InitialFiles]_vars

=============================================================================
