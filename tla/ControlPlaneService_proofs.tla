--------------------- MODULE ControlPlaneService_proofs ---------------------
(***************************************************************************)
(* The control plane implements the abstract service: every step is a step *)
(* of ConfigService, or none.  Which mutations can fail for their sockets, *)
(* and which leave one behind.  And what a GET next to it replies with.    *)
(***************************************************************************)
EXTENDS ControlPlane_proofs, ConfigRead

(* The service's copy of the operators on configurations is the same.      *)
LEMMA SameProvisioned ==
    ASSUME NEW file
    PROVE  Service!Provisioned(file) = Provisioned(file)
BY DEF Service!Provisioned, Provisioned

(* The abstract service reads the configuration back as the handlers do.   *)
LEMMA SameCurrent ==
    ASSUME NEW cfg
    PROVE  Service!Current(cfg) = Current(cfg)
BY DEF Service!Current, Current

(* The abstract service refuses the same requests.                         *)
LEMMA SameRefused ==
    ASSUME NEW cfg, NEW req
    PROVE  Service!Refused(cfg, req) <=> Refused(cfg, req)
BY DEF Service!Refused, Refused, Service!Ids, Ids

(* The abstract service validates by the same rules.                       *)
LEMMA SameValidate ==
    ASSUME NEW cfg
    PROVE  Service!Validate(cfg) <=> Validate(cfg)
BY DEF Service!Validate, Validate, Service!ValidUpstream, ValidUpstream,
       Service!ValidListener, ValidListener, Service!UniqueIds, UniqueIds,
       Service!Ids, Ids, Service!Enabled, Enabled

(* The abstract service makes the same edit of a configuration.            *)
LEMMA SameEdited ==
    ASSUME NEW cfg, NEW req
    PROVE  Service!Edited(cfg, req) = Edited(cfg, req)
<1> USE DEF Service!Without, Without
<1>1. \A item, ups : Service!WithStoredPassword(item, ups) = WithStoredPassword(item, ups)
  BY DEF Service!WithStoredPassword, WithStoredPassword, Service!Ids, Ids
<1>2. \A item : Service!UpsertUpstream(cfg, item) = UpsertUpstream(cfg, item)
  BY <1>1 DEF Service!UpsertUpstream, UpsertUpstream
<1>3. \A id : /\ Service!DeleteUpstream(cfg, id) = DeleteUpstream(cfg, id)
               /\ Service!ActivateUpstream(cfg, id) = ActivateUpstream(cfg, id)
               /\ Service!DeleteListener(cfg, id) = DeleteListener(cfg, id)
  BY DEF Service!DeleteUpstream, DeleteUpstream, Service!ActivateUpstream, ActivateUpstream,
         Service!DeleteListener, DeleteListener
<1>4. \A item : Service!UpsertListener(cfg, item) = UpsertListener(cfg, item)
  BY DEF Service!UpsertListener, UpsertListener
<1>5. \A id, up : Service!SwitchListener(cfg, id, up) = SwitchListener(cfg, id, up)
  BY DEF Service!SwitchListener, SwitchListener
<1> QED BY <1>2, <1>3, <1>4, <1>5 DEF Service!Edited, Edited

----------------------------------------------------------------------------

(* The call of one client, as the service sees it.                         *)
CallOf(o) ==
    [st |-> IF o.pc = "idle" THEN "idle"
            ELSE IF o.pc \in {"saved", "installed", "committed"} THEN "applied"
            ELSE "called",
     req |-> o.req]

Calls == [c \in Clients |-> CallOf(op[c])]

(* An idle handler is an idle call.                                        *)
LEMMA IdleCall == CallOf(IdleOp) = Service!Idle
BY DEF CallOf, IdleOp, Service!Idle

(* A step of one mutation is, to the service, a step of that call.         *)
LEMMA OneCall ==
    ASSUME TypeOK, Mutex, NEW c \in Clients, HandlerStep(c)
    PROVE  Calls' = [Calls EXCEPT ![c] = CallOf(op'[c])]
<1>1. \A d \in Clients \ {c} : op'[d] = op[d]
  BY StepOf
<1>2. Calls' = [d \in Clients |-> CallOf(op'[d])]
  BY DEF Calls, CallOf
<1>3. [Calls EXCEPT ![c] = CallOf(op'[c])]
        = [d \in Clients |-> IF d = c THEN CallOf(op'[c]) ELSE CallOf(op[d])]
  BY DEF Calls
<1> QED BY <1>1, <1>2, <1>3

(* The program starts as the abstract service does.                        *)
LEMMA InitService ==
    ASSUME Init
    PROVE  Service!Init
<1>1. Calls = [c \in Clients |-> Service!Idle]
  BY IdleCall DEF Init, Calls
<1> QED BY <1>1 DEF Init, Service!Init, Calls, CallOf

(* Every step of the program is a step of the abstract service, or none.   *)
LEMMA NextService ==
    ASSUME Inv, Next
    PROVE  Service!Next \/ UNCHANGED Service!vars
<1>1. TypeOK /\ Mutex /\ DiskWellFormed /\ OpFollowsDisk
  BY DEF Inv
<1>2. CASE LoadConfig
  <2>1. disk' = Provisioned(disk) /\ op' = op
    BY <1>2 DEF LoadConfig
  <2>2. Service!Provision
    BY <2>1, SameProvisioned DEF Service!Provision
  <2> QED BY <2>2 DEF Service!Next
<1>3. CASE StartListeners \/ OpenAdmin \/ Signal \/ CloseManager
  <2>1. disk' = disk /\ op' = op
    BY <1>3 DEF StartListeners, OpenAdmin, Signal, CloseManager
  <2> QED BY <2>1 DEF Service!vars
<1>4. CASE Exit
  <2>1. Calls' = [c \in Clients |-> Service!Idle]
    BY <1>4, IdleCall DEF Exit, Calls
  <2> QED BY <1>4, <2>1 DEF Exit, Service!Next, Service!Crash, Calls, CallOf
<1>5. ASSUME NEW a \in ForeignAddrs, Occupy(a) \/ Release(a)
      PROVE  UNCHANGED Service!vars
  BY <1>5 DEF Occupy, Release, Service!vars
<1>6. ASSUME NEW c \in Clients, HandlerStep(c)
      PROVE  Service!Next \/ UNCHANGED Service!vars
  <2>1. Calls' = [Calls EXCEPT ![c] = CallOf(op'[c])]
    BY <1>1, <1>6, OneCall
  <2>2. Calls[c] = CallOf(op[c])
    BY DEF Calls
  <2>3. ASSUME NEW req \in Requests, Lock(c, req)
        PROVE  Service!Call(c, req)
    <3>1. op[c] = IdleOp /\ disk' = disk
      BY <1>1, <2>3 DEF Lock, Mutex
    <3>2. CallOf(op'[c]) = [st |-> "called", req |-> req]
      BY <1>1, <2>3, LockOp DEF CallOf
    <3>3. Calls[c] = Service!Idle
      BY <2>2, <3>1, IdleCall
    <3> QED BY <2>1, <3>1, <3>2, <3>3 DEF Service!Call, Calls, CallOf
  <2>4. ASSUME ReadListeners(c) \/ Prepare(c) \/ BeginSave(c) \/ Install(c) \/ Commit(c)
        PROVE  UNCHANGED Service!vars
    <3>1. disk' = disk
      BY <2>4 DEF ReadListeners, Prepare, BeginSave, Install, Commit
    <3>2. CallOf(op'[c]) = CallOf(op[c])
      BY <1>1, <2>4, ReadOp, PrepareOp, AdvanceOp, CommitOp
         DEF CallOf, ReadListeners, Prepare, Commit
    <3>3. Calls' = Calls
      BY <2>1, <2>2, <3>2 DEF Calls
    <3> QED BY <3>1, <3>3 DEF Service!vars, Calls, CallOf
  <2>5. ASSUME SaveFails(c) \/ Leave(c)
        PROVE  Service!Reject(c) \/ Service!Reply(c)
    <3>1. disk' = disk /\ op[c].pc \in {"current", "prepared", "saving", "committed"}
      BY <2>5 DEF SaveFails, Leave
    <3>2. Calls' = [Calls EXCEPT ![c] = Service!Idle]
      BY <1>1, <2>1, <2>5, EndOp, IdleCall
    <3>3. Calls[c].st \in {"called", "applied"}
      BY <2>2, <3>1 DEF CallOf
    <3> QED BY <3>1, <3>2, <3>3 DEF Service!Reject, Service!Reply, Calls, CallOf
  <2>6. ASSUME SaveCompletes(c)
        PROVE  Service!Apply(c)
    <3>1. op[c].pc = "saving" /\ disk' = op[c].cfg
      BY <2>6 DEF SaveCompletes
    <3>2. disk # NoFile
      BY <1>1, <3>1 DEF DiskWellFormed, Mutex
    <3>3. /\ ~Refused(Current(disk), op[c].req) /\ Validate(op[c].cfg)
          /\ op[c].cfg = Edited(Current(disk), op[c].req)
      BY <1>1, <3>1 DEF OpFollowsDisk, WellFormed, Mid
    <3>4. Calls[c].st = "called" /\ Calls[c].req = op[c].req
      BY <2>2, <3>1 DEF CallOf
    <3>5. CallOf(op'[c]) = [Calls[c] EXCEPT !.st = "applied"]
      BY <1>1, <2>2, <2>6, <3>1, AdvanceOp DEF CallOf
    <3>6. Calls' = [Calls EXCEPT ![c].st = "applied"]
      BY <2>1, <3>5
    <3>7. Service!Apply(c) <=>
            /\ Calls[c].st = "called"
            /\ disk # NoFile
            /\ ~Refused(Current(disk), Calls[c].req)
            /\ Validate(Edited(Current(disk), Calls[c].req))
            /\ disk' = Edited(Current(disk), Calls[c].req)
            /\ Calls' = [Calls EXCEPT ![c].st = "applied"]
      BY SameCurrent, SameRefused, SameValidate, SameEdited DEF Service!Apply, Calls, CallOf
    <3> QED BY <3>1, <3>2, <3>3, <3>4, <3>6, <3>7
  <2> QED BY <1>6, <2>3, <2>4, <2>5, <2>6 DEF HandlerStep, Service!Next
<1> QED BY <1>2, <1>3, <1>4, <1>5, <1>6, NextCases

(* Every mutation is atomic and durable to its clients, whatever crashes   *)
(* and interleavings (h.mu, Save before Install and Commit).               *)
THEOREM Implements == Spec => ImplementsService
<1>1. Init => Service!Init
  BY InitService
<1>2. Inv /\ [Next]_vars => [Service!Next]_(Service!vars)
  <2>1. Inv /\ Next => [Service!Next]_(Service!vars)
    BY NextService
  <2>2. UNCHANGED vars => UNCHANGED Service!vars
    BY DEF vars, Service!vars
  <2> QED BY <2>1, <2>2
<1> QED BY <1>1, <1>2, Invariant, PTL DEF Spec, ImplementsService, Service!Spec

----------------------------------------------------------------------------
(* Sockets: who may be refused one, and who leaves one behind.             *)

(* Only the listener that a request puts can need a new socket: what else  *)
(* is enabled afterwards was enabled, at the same address, before.         *)
LEMMA OpensOnlyItem ==
    ASSUME NEW cfg, NEW req \in Request, running = Enabled(cfg.listeners),
           NEW l \in Opened(Edited(Current(cfg), req)),
           cfg \in ConfigRecord
    PROVE  req.kind = "upsertListener" /\ l = req.item
<1> DEFINE cur == Current(cfg)
<1>1. cur \in ConfigRecord /\ cur.listeners = cfg.listeners
  BY DEF Current, ConfigRecord
<1>2. /\ l \in Edited(cur, req).listeners /\ l.enabled
      /\ ~ \E r \in running : r.id = l.id /\ r.addr = l.addr
  BY DEF Opened, Enabled
<1>3. ~ \E k \in cfg.listeners : k.enabled /\ k.id = l.id /\ k.addr = l.addr
  BY <1>2 DEF Enabled
<1>4. CASE req.kind \in {"upsertUpstream", "deleteUpstream", "activate"}
  <2>1. Edited(cur, req).listeners = cfg.listeners
    BY <1>1, <1>4 DEF Edited, UpsertUpstream, DeleteUpstream, ActivateUpstream, ConfigRecord
  <2> QED BY <1>2, <1>3, <2>1
<1>5. CASE req.kind = "deleteListener"
  <2>1. Edited(cur, req).listeners = Without(cfg.listeners, req.id)
    BY <1>1, <1>5 DEF Edited, DeleteListener, ConfigRecord
  <2> QED BY <1>2, <1>3, <2>1 DEF Without
<1>6. CASE req.kind = "switchListener"
  <2>1. Edited(cur, req).listeners
          = Without(cfg.listeners, req.id) \cup
              {[k EXCEPT !.upstream = req.upstream] : k \in {j \in cfg.listeners : j.id = req.id}}
    BY <1>1, <1>6 DEF Edited, SwitchListener, ConfigRecord
  <2>2. PICK k \in cfg.listeners : l \in {k, [k EXCEPT !.upstream = req.upstream]}
    BY <1>2, <2>1 DEF Without
  <2>3. k \in Listener
    BY <2>2 DEF ConfigRecord
  <2>4. l.id = k.id /\ l.addr = k.addr /\ l.enabled = k.enabled
    BY <2>2, <2>3 DEF Listener
  <2> QED BY <1>2, <1>3, <2>2, <2>4
<1>7. CASE req.kind = "upsertListener"
  <2>1. Edited(cur, req).listeners = Without(cfg.listeners, req.item.id) \cup {req.item}
    BY <1>1, <1>7 DEF Edited, UpsertListener, ConfigRecord
  <2> QED BY <1>2, <1>3, <1>7, <2>1 DEF Without
<1> QED BY <1>4, <1>5, <1>6, <1>7 DEF Request

(* Prepare finds an address taken only if the request is for that address. *)
LEMMA ConflictStep ==
    ASSUME Inv, NEW c \in Clients, BindFails(c), phase # "closed"
    PROVE  /\ op[c].req.kind = "upsertListener" /\ op[c].req.item.enabled
           /\ ~ \E r \in running : r.id = op[c].req.item.id /\ r.addr = op[c].req.item.addr
           /\ ~Free(op[c].req.item.addr)
<1> DEFINE req == op[c].req
           opened == Opened(Edited(Current(disk), req))
<1>1. op[c].pc = "current" /\ ~Bindable(Addrs(Opened(Desired(c))))
  BY DEF BindFails
<1>2. op[c].cfg = Current(disk) /\ req \in Request
  BY <1>1, ClientAssumption DEF Inv, OpFollowsDisk, Mutex
<1>3. phase \in {"up", "stopping"} /\ \A d \in Clients : op[d].pc \in BeforeSave \cup {"committed"}
  BY <1>1 DEF Inv, Mutex, TypeOK, Phases, BeforeSave
<1>4. RuntimeIs(disk) /\ disk # NoFile
  BY <1>3 DEF Inv, RuntimeStepwise, DiskWellFormed
<1>5. running = Enabled(disk.listeners) /\ disk \in ConfigRecord
  BY <1>4 DEF RuntimeIs, Inv, TypeOK
<1>6. ~Bindable(Addrs(opened))
  BY <1>1, <1>2 DEF Desired
<1>7. \A l \in opened : req.kind = "upsertListener" /\ l = req.item
  BY <1>2, <1>5, OpensOnlyItem
<1>8. \A a, b \in Addrs(opened) : a = b
  BY <1>7 DEF Addrs
<1>9. PICK l \in opened : ~Free(l.addr)
  BY <1>6, <1>8 DEF Bindable, Addrs
<1>10. l.enabled /\ ~ \E r \in running : r.id = l.id /\ r.addr = l.addr
  BY <1>9 DEF Opened, Enabled
<1> QED BY <1>7, <1>9, <1>10

(* A mutation that gives no enabled listener a new address is not refused  *)
(* for its sockets, whoever holds what (Prepare reuses the entries).       *)
THEOREM OnlyNewAddresses == Spec => OnlyNewAddressesConflict
<1>1. Inv /\ [Next]_vars =>
        [\A c \in Clients : BindFails(c) /\ phase # "closed" =>
            /\ op[c].req.kind = "upsertListener" /\ op[c].req.item.enabled
            /\ ~ \E r \in running : r.id = op[c].req.item.id /\ r.addr = op[c].req.item.addr
            /\ ~Free(op[c].req.item.addr)]_vars
  BY ConflictStep
<1> QED BY <1>1, Invariant, PTL DEF Spec, OnlyNewAddressesConflict

(* Commit leaves a socket without an entry only if it moves its listener.  *)
LEMMA StrandedCommit ==
    ASSUME Inv, NEW c \in Clients, Commit(c), NEW s \in accepting' \ running'
    PROVE  \/ s \in accepting \ running
           \/ \E l \in running' : l.id = s.id /\ l.addr # s.addr
<1>1. op[c].pc = "installed" /\ running' = Entries(c)
  BY DEF Commit
<1>2. /\ op[c].opened \subseteq running'
      /\ phase = "closed" => running = {}
      /\ phase # "closed" => op[c].reused = Reused(op[c].cfg)
  BY <1>1 DEF Inv, PreparedMatches, Mid, Entries
<1>3. s \in accepting /\ s \notin Removed(Entries(c)) /\ s \notin op[c].reused
  BY <1>1, <1>2 DEF Commit
<1>4. ASSUME s \in running
      PROVE  \E l \in running' : l.id = s.id /\ l.addr # s.addr
  <2>1. PICK l \in Entries(c) : l.id = s.id
    BY <1>3, <1>4 DEF Removed, Ids
  <2>2. l.addr # s.addr
    BY <1>2, <1>3, <1>4, <2>1 DEF Reused, Entries
  <2> QED BY <1>1, <2>1, <2>2
<1> QED BY <1>3, <1>4

(* No other step leaves a socket without an entry.                         *)
LEMMA StrandedStep ==
    ASSUME Inv, Next, NEW s \in accepting' \ running'
    PROVE  \/ s \in accepting \ running
           \/ \E l \in running' : l.id = s.id /\ l.addr # s.addr
<1>1. CASE LoadConfig \/ StartListeners \/ OpenAdmin \/ Exit \/ Signal \/ CloseManager
  BY <1>1 DEF LoadConfig, StartListeners, OpenAdmin, Exit, Signal, CloseManager, manager
<1>2. ASSUME NEW c \in Clients, HandlerStep(c), ~Commit(c)
      PROVE  s \in accepting \ running
  BY <1>2 DEF HandlerStep, Lock, ReadListeners, Prepare, BeginSave, SaveFails, SaveCompletes,
              Install, Leave, manager
<1>3. ASSUME NEW a \in ForeignAddrs, Occupy(a) \/ Release(a)
      PROVE  s \in accepting \ running
  BY <1>3 DEF Occupy, Release, manager
<1> QED BY <1>1, <1>2, <1>3, StrandedCommit, NextCases

(* Only a move to another address leaves an accept loop without an entry   *)
(* in the manager (Commit closes old sockets by ID).                       *)
THEOREM StrandedByMove == Spec => StrandedOnlyByMove
<1>1. Inv /\ [Next]_vars =>
        [\A s \in accepting' \ running' :
            \/ s \in accepting \ running
            \/ \E l \in running' : l.id = s.id /\ l.addr # s.addr]_vars
  BY StrandedStep
<1> QED BY <1>1, Invariant, PTL DEF Spec, StrandedOnlyByMove

----------------------------------------------------------------------------
(* GET /api/config.                                                        *)

(* A step other than Install and Commit leaves what a GET may read alone,  *)
(* while the admin's socket or its requests are there.                     *)
LEMMA Unpublished ==
    ASSUME Inv, Next, Alive, phase' \notin {"down", "closed"},
           \A c \in Clients : ~Install(c) /\ ~Commit(c)
    PROVE  /\ configs' = configs /\ selector' = selector /\ phase # "closed"
           /\ Installed' = Installed
           /\ \A c \in Installed : op'[c].cfg = op[c].cfg
<1>1. CASE LoadConfig \/ StartListeners \/ OpenAdmin \/ Signal \/ CloseManager \/ Exit
  BY <1>1 DEF Alive, LoadConfig, StartListeners, OpenAdmin, Signal, CloseManager, Exit, manager,
                  Installed
<1>2. ASSUME NEW c \in Clients, HandlerStep(c)
      PROVE  /\ configs' = configs /\ selector' = selector /\ phase # "closed"
             /\ Installed' = {} /\ Installed = {}
  <2>1. configs' = configs /\ selector' = selector
    BY <1>2 DEF HandlerStep, Lock, ReadListeners, Prepare, BeginSave, SaveFails, SaveCompletes,
                Leave, manager
  <2>2. op'[c].pc # "installed"
    BY <1>2, StepInto DEF Inv
  <2>3. op[c].pc # "installed"
    BY <1>2 DEF HandlerStep, Lock, ReadListeners, Prepare, BeginSave, SaveFails, SaveCompletes, Leave
  <2>4. phase' = phase /\ \A d \in Clients \ {c} : op'[d].pc # "installed" /\ op[d].pc # "installed"
    BY <1>2, StepOf DEF Inv, IdleOp
  <2> QED BY <2>1, <2>2, <2>3, <2>4 DEF Installed
<1>3. ASSUME NEW a \in ForeignAddrs, Occupy(a) \/ Release(a)
      PROVE  configs' = configs /\ selector' = selector /\ phase' = phase /\ op' = op
  BY <1>3 DEF Occupy, Release, manager
<1> QED BY <1>1, <1>2, <1>3, NextCases DEF Installed

(* Install changes the selector only of a mutation with the listeners that *)
(* are in effect.                                                          *)
LEMMA InstallsOneSide ==
    ASSUME Inv, NEW c \in Clients, Install(c), phase # "closed"
    PROVE  /\ configs' = configs /\ phase' = phase /\ op'[c].pc = "installed"
           /\ \A d \in Clients : op[d].pc # "installed"
           /\ \A d \in Clients : op'[d].pc = "installed" =>
                 op'[d].cfg.listeners = configs \/ selector' = selector
<1>1. /\ op[c].pc = "saved" /\ configs' = configs /\ phase' = phase
      /\ selector' = [active |-> op[c].cfg.active, upstreams |-> op[c].cfg.upstreams]
  BY DEF Install, manager
<1>2. op'[c].pc = "installed" /\ op'[c].cfg = op[c].cfg
  BY AdvanceOp DEF Inv
<1>3. op[c].cfg.listeners = configs \/ selector' = selector
  BY <1>1 DEF Inv, EditsOneSide
<1>4. \A d \in Clients \ {c} : op[d] = IdleOp /\ op'[d] = IdleOp
  BY StepOf DEF Inv, HandlerStep
<1> QED BY <1>1, <1>2, <1>3, <1>4 DEF IdleOp

(* What is observed of a step during a GET.                                *)
LEMMA Observed ==
    ASSUME ReadInv, TypeOK', Observe, get'.pc = "read"
    PROVE  /\ get.pc = "read" /\ phase' # "down" /\ get'.selector = get.selector
           /\ get'.seen = get.seen \cup {l \in {configs'} : selector' = get.selector}
           /\ get'.published \in {get.published, get.published + 1}
           /\ Publishes /\ get.published < 2 => get'.published = get.published + 1
           /\ get' \in [pc : {"idle", "read"}, published : 0..2,
                        selector : [active : UpstreamIds \cup {None}, upstreams : SUBSET Upstream],
                        seen : SUBSET SUBSET Listener]
<1> DEFINE new == {l \in {configs'} : selector' = get.selector}
           count == IF get.published < 2 /\ Publishes THEN get.published + 1 ELSE get.published
<1>1. get.pc = "read" /\ phase' # "down"
  BY DEF Observe, NoGet
<1>2. get' = [get EXCEPT !.seen = get.seen \cup new, !.published = count]
  BY <1>1 DEF Observe
<1>3. new \in SUBSET SUBSET Listener
  BY DEF TypeOK
<1>4. /\ count \in 0..2 /\ count \in {get.published, get.published + 1}
      /\ Publishes /\ get.published < 2 => count = get.published + 1
  BY DEF ReadInv
<1> HIDE DEF new, count
<1>5. get'.seen = get.seen \cup new /\ get'.published = count
      /\ get'.selector = get.selector /\ get'.pc = get.pc
  BY <1>2 DEF ReadInv
<1>6. get' \in [pc : {"idle", "read"}, published : 0..2,
                selector : [active : UpstreamIds \cup {None}, upstreams : SUBSET Upstream],
                seen : SUBSET SUBSET Listener]
  BY <1>2, <1>3, <1>4 DEF ReadInv
<1> QED BY <1>1, <1>4, <1>5, <1>6 DEF new

(* A step of the program, observed, keeps what is known of a GET.          *)
LEMMA MutateReadInv ==
    ASSUME Inv, Inv', ReadInv, Mutate
    PROVE  ReadInv'
<1> DEFINE Type == get \in [pc : {"idle", "read"}, published : 0..2,
                            selector : [active : UpstreamIds \cup {None}, upstreams : SUBSET Upstream],
                            seen : SUBSET SUBSET Listener]
           Fits == /\ get.published < 2 => configs \in get.seen
                   /\ get.published = 0 =>
                         /\ Installed = {} => selector = get.selector
                         /\ \A c \in Installed :
                               op[c].cfg.listeners = configs \/ selector = get.selector
<1>0. Next /\ Observe /\ TypeOK'
  BY DEF Mutate, Inv
<1>1. CASE get'.pc # "read"
  <2>1. get' \in {get, NoGet}
    <3>1. CASE get.pc = "read" /\ phase' # "down"
      <4>1. get'.pc = get.pc
        BY <1>0, <3>1 DEF Observe, ReadInv
      <4> QED BY <1>1, <3>1, <4>1
    <3>2. CASE get.pc = "idle" \/ phase' = "down"
      BY <1>0, <3>2 DEF Observe
    <3> QED BY <3>1, <3>2 DEF ReadInv
  <2>2. NoGet \in [pc : {"idle", "read"}, published : 0..2,
                   selector : [active : UpstreamIds \cup {None}, upstreams : SUBSET Upstream],
                   seen : SUBSET SUBSET Listener]
    BY DEF NoGet, NoUpstreams
  <2> QED BY <1>1, <2>1, <2>2 DEF ReadInv
<1>2. CASE get'.pc = "read"
  <2>1. /\ get.pc = "read" /\ phase' # "down" /\ get'.selector = get.selector
        /\ get'.seen = get.seen \cup {l \in {configs'} : selector' = get.selector}
        /\ get'.published \in {get.published, get.published + 1}
        /\ Publishes /\ get.published < 2 => get'.published = get.published + 1
        /\ Type'
    BY <1>0, <1>2, Observed
  <2>2. Alive /\ get.published \in 0..2
    BY <2>1 DEF ReadInv
  <2>3. Alive'
    <3>1. CASE LoadConfig \/ StartListeners \/ OpenAdmin \/ Signal \/ CloseManager \/ Exit
      BY <2>1, <2>2, <3>1 DEF Alive, LoadConfig, StartListeners, OpenAdmin, Signal, CloseManager, Exit
    <3>2. ASSUME NEW c \in Clients, HandlerStep(c)
          PROVE  Alive'
      BY <2>2, <3>2, StepOf DEF Inv, Alive
    <3>3. ASSUME NEW a \in ForeignAddrs, Occupy(a) \/ Release(a)
          PROVE  Alive'
      BY <2>2, <3>3 DEF Occupy, Release, Alive
    <3> QED BY <1>0, <3>1, <3>2, <3>3, NextCases
  <2>4. ASSUME phase' # "closed"
        PROVE  Fits'
    <3>1. CASE \A c \in Clients : ~Install(c) /\ ~Commit(c)
      <4>1. /\ configs' = configs /\ selector' = selector /\ phase # "closed"
            /\ Installed' = Installed
            /\ \A c \in Installed : op'[c].cfg = op[c].cfg
        BY <1>0, <2>1, <2>2, <2>4, <3>1, Unpublished
      <4>2. Fits
        BY <2>1, <4>1 DEF ReadInv
      <4>3. /\ get'.published = 0 => get.published = 0
            /\ get'.published < 2 => get.published < 2
        BY <2>1, <2>2
      <4> QED BY <2>1, <4>1, <4>2, <4>3
    <3>2. ASSUME NEW c \in Clients, Install(c)
          PROVE  Fits'
      <4>1. phase # "closed"
        BY <2>4, <3>2 DEF Install
      <4>2. /\ configs' = configs
            /\ Installed = {}
            /\ Installed' # {}
            /\ \A d \in Installed' : op'[d].cfg.listeners = configs \/ selector' = selector
        BY <3>2, <4>1, InstallsOneSide DEF Installed
      <4>3. Fits
        BY <2>1, <4>1 DEF ReadInv
      <4>4. /\ get'.published = 0 => get.published = 0
            /\ get'.published < 2 => get.published < 2
        BY <2>1, <2>2
      <4> QED BY <2>1, <4>2, <4>3, <4>4
    <3>3. ASSUME NEW c \in Clients, Commit(c)
          PROVE  Fits'
      <4>1. /\ op[c].pc = "installed" /\ phase # "closed"
            /\ configs' = op[c].cfg.listeners /\ selector' = selector
        BY <2>4, <3>3 DEF Commit
      <4>2. Publishes
        BY <3>3 DEF Publishes
      <4>3. Fits /\ c \in Installed
        BY <2>1, <4>1 DEF ReadInv, Installed
      <4>4. get'.published = 1 => get.published = 0
        BY <2>1, <2>2, <4>2
      <4>5. get'.published # 0
        BY <2>1, <2>2, <4>2
      <4>6. get'.published = 1 => configs' \in get'.seen
        BY <2>1, <4>1, <4>3, <4>4
      <4>7. get'.published \in 0..2
        BY <2>1
      <4> QED BY <4>5, <4>6, <4>7
    <3> QED BY <3>1, <3>2, <3>3
  <2> QED BY <2>1, <2>3, <2>4 DEF ReadInv
<1> QED BY <1>1, <1>2

(* So does the GET.                                                        *)
LEMMA GetReadInv ==
    ASSUME Inv, ReadInv, ReadSelector \/ ReadManager
    PROVE  ReadInv'
<1>1. CASE ReadSelector
  <2>1. selector \in [active : UpstreamIds \cup {None}, upstreams : SUBSET Upstream]
        /\ configs \in SUBSET Listener
    BY DEF Inv, TypeOK
  <2>2. UNCHANGED <<phase, configs, selector, op>>
    BY <1>1 DEF ReadSelector, vars, manager
  <2> QED BY <1>1, <2>1, <2>2 DEF ReadSelector, ReadInv, Alive, Installed
<1>2. CASE ReadManager
  BY <1>2 DEF ReadManager, ReadInv, NoGet, NoUpstreams
<1> QED BY <1>1, <1>2

(* A GET runs beside the control plane and changes none of it.             *)
LEMMA ReadNextNext == ReadNext => [Next]_vars
BY DEF ReadNext, Mutate, ReadSelector, ReadManager

(* What is known of a GET at every instant, and that it always holds.      *)
THEOREM ReadInvariant == ReadSpec => []ReadInv
<1>1. ReadInit => Init /\ ReadInv
  BY DEF ReadInit, ReadInv, NoGet, NoUpstreams
<1>2. Inv /\ Inv' /\ ReadInv /\ [ReadNext]_readVars => ReadInv'
  <2>1. Inv /\ Inv' /\ ReadInv /\ ReadNext => ReadInv'
    BY MutateReadInv, GetReadInv DEF ReadNext
  <2>2. ReadInv /\ UNCHANGED readVars => ReadInv'
    BY DEF readVars, vars, manager, ReadInv, Alive, Installed
  <2> QED BY <2>1, <2>2
<1>3. [ReadNext]_readVars => [Next]_vars
  BY ReadNextNext DEF readVars
<1>4. ReadSpec => []Inv
  BY <1>1, <1>3, Invariant, PTL DEF ReadSpec, Spec
<1> QED BY <1>1, <1>2, <1>4, PTL DEF ReadSpec

(* With at most one mutation published meanwhile, a GET replies with a     *)
(* configuration that was in effect as a whole: currentConfig needs no     *)
(* lock for that.                                                          *)
THEOREM ReadsAreWhole == ReadSpec => ReadsOneConfiguration
<1>1. ReadInv => (ReadManager /\ get.published < 2 /\ phase # "closed" => configs \in get.seen)
  BY DEF ReadInv, ReadManager
<1> QED BY <1>1, ReadInvariant, PTL DEF ReadsOneConfiguration

=============================================================================
