---------------------- MODULE ControlPlaneSteps_proofs ----------------------
(***************************************************************************)
(* The steps of the control plane, as its proofs use them: which there     *)
(* are, what each makes of the mutation that takes it, that types and the  *)
(* mutual exclusion of mutations are kept; and what becomes of sockets.    *)
(***************************************************************************)
EXTENDS ControlPlaneInvariant, Mutations_proofs

----------------------------------------------------------------------------

(* A mutation ends without a trace: refused, invalid, no bind, or replied. *)
Leave(c) ==
    /\ op[c].pc \in {"current", "committed"}
    /\ Unlock(c)
    /\ UNCHANGED <<disk, phase, selector, manager, foreign>>

HandlerStep(c) ==
    \/ \E req \in Requests : Lock(c, req)
    \/ ReadListeners(c) \/ Prepare(c) \/ BeginSave(c) \/ SaveFails(c)
    \/ SaveCompletes(c) \/ Install(c) \/ Commit(c) \/ Leave(c)

(* The actions, one by one, as the proofs by cases take them.              *)
LEMMA NextCases ==
    ASSUME Next
    PROVE  \/ LoadConfig \/ StartListeners \/ OpenAdmin
           \/ Exit \/ Signal \/ CloseManager
           \/ \E c \in Clients : HandlerStep(c)
           \/ \E a \in ForeignAddrs : Occupy(a) \/ Release(a)
<1>1. ASSUME NEW c \in Clients, Handle(c)
      PROVE  HandlerStep(c)
  BY <1>1 DEF Handle, HandlerStep, Leave, Refuse, RejectInvalid, BindFails, Reply
<1> QED BY <1>1 DEF Next, Start, StartFails, Terminate, Crash, HandlerStep

----------------------------------------------------------------------------
(* Types.                                                                  *)

(* What a request makes of a configuration record is one again.            *)
LEMMA EditedType ==
    ASSUME TypeOK, Mutex, NEW c \in Clients, op[c].pc = "current"
    PROVE  /\ op[c].req \in Request
           /\ op[c].cfg \in ConfigRecord
           /\ Desired(c) \in ConfigRecord
<1>1. op[c].req \in Request /\ op[c].cfg \in ConfigRecord
  BY ClientAssumption DEF TypeOK, Mutex, Mutation
<1> QED BY <1>1, EditedIsConfig DEF Desired

(* A valid configuration's addresses are addresses.                        *)
LEMMA ValidAddrs ==
    ASSUME NEW cfg \in ConfigRecord, Validate(cfg)
    PROVE  \A l \in cfg.listeners : l.addr \in Addresses
BY DEF ConfigRecord, Listener, Validate, ValidListener

(* loadConfig gives a valid configuration that can be bound.               *)
LEMMA ProvisionedOK ==
    ASSUME NEW file, file # NoFile => WellFormed(file) /\ Restartable(file.listeners)
    PROVE  /\ WellFormed(Provisioned(file))
           /\ Provisioned(file) # NoFile
           /\ Restartable(Provisioned(file).listeners)
<1> DEFINE new == Provisioned(file)
<1>1. CASE file = NoFile
  <2>1. new = [active |-> None, upstreams |-> {}, listeners |-> DefaultListeners, null |-> FALSE]
    BY <1>1 DEF Provisioned
  <2>2. /\ new.active = None /\ new.upstreams = {}
        /\ new.listeners = DefaultListeners /\ new.null = FALSE
    BY <2>1
  <2>3. new \in ConfigRecord
    BY <2>1, StartAssumption DEF ConfigRecord
  <2>4. \A l \in DefaultListeners : ValidListener(l, {})
    BY StartAssumption DEF ValidListener
  <2>5. \A l, k \in Enabled(DefaultListeners) : l.addr = k.addr => l = k
    BY <2>4, StartAssumption, AddressAssumption
       DEF Restartable, Enabled, Clashes, Listener, ValidListener
  <2>6. Validate(new)
    BY <2>2, <2>4, <2>5, StartAssumption DEF Validate, Ids, UniqueIds, ValidListener
  <2>7. WellFormed(new)
    BY <2>2, <2>3, <2>6 DEF WellFormed
  <2>8. new # NoFile
    BY <2>3, StartAssumption
  <2>9. Restartable(new.listeners)
    BY <2>2, StartAssumption
  <2> QED BY <2>7, <2>8, <2>9
<1>2. CASE file # NoFile /\ ~file.null
  BY <1>2, StartAssumption DEF Provisioned, WellFormed
<1>3. CASE file # NoFile /\ file.null
  <2> DEFINE up(l) == IF l.upstream = None THEN file.active ELSE l.upstream
             ls    == {[l EXCEPT !.upstream = up(l)] : l \in DefaultListeners}
  <2>1. new = [file EXCEPT !.null = FALSE, !.listeners = ls]
    BY <1>3 DEF Provisioned
  <2>2. file \in ConfigRecord /\ Validate(file)
    BY <1>3 DEF WellFormed
  <2>3. \A l \in DefaultListeners : l \in Listener /\ up(l) = file.active
    BY StartAssumption
  <2>4. file.active \in UpstreamIds \cup {None}
    BY <2>2 DEF ConfigRecord
  <2>5. ls \in SUBSET Listener
    BY <2>3, <2>4 DEF Listener
  <2>6. new \in ConfigRecord /\ new.listeners = ls /\ new.active = file.active
        /\ new.upstreams = file.upstreams /\ new.null = FALSE
    BY <2>1, <2>2, <2>5 DEF ConfigRecord
  <2>7. \A k \in ls : \E l \in DefaultListeners :
          /\ k = [l EXCEPT !.upstream = file.active]
          /\ k.id = l.id /\ k.addr = l.addr /\ k.enabled = l.enabled
          /\ k.upstream = file.active
    BY <2>3 DEF Listener
  <2>8. UniqueIds(ls)
    BY <2>7, StartAssumption DEF UniqueIds
  <2>9. Restartable(ls)
    BY <2>7, StartAssumption DEF Restartable, Enabled
  <2>10. \A l \in ls : ValidListener(l, Ids(file.upstreams))
    BY <2>2, <2>7, StartAssumption DEF ValidListener, Validate
  <2>11. \A l, k \in Enabled(ls) : l.addr = k.addr => l = k
    BY <2>5, <2>9, <2>10, AddressAssumption
       DEF Restartable, Enabled, Clashes, Listener, ValidListener
  <2>12. Validate(new)
    BY <2>2, <2>6, <2>8, <2>10, <2>11 DEF Validate
  <2> QED BY <2>6, <2>9, <2>12, StartAssumption DEF WellFormed
<1> QED BY <1>1, <1>2, <1>3

(* A handler without a request is a record of the right type.              *)
LEMMA IdleType == IdleOp \in Mutation
BY DEF IdleOp, Mutation, Steps, EmptyConfig, ConfigRecord

(* One mutation's record changes, the others' do not.                      *)
LEMMA OpType ==
    ASSUME NEW c \in Clients, NEW new \in Mutation, TypeOK, op' = [op EXCEPT ![c] = new]
    PROVE  op' \in [Clients -> Mutation]
BY DEF TypeOK

(* Every step keeps every variable in its type.                            *)
LEMMA TypeStep ==
    ASSUME TypeOK, Mutex, DiskWellFormed, DiskRestartable, OpFollowsDisk, Next
    PROVE  TypeOK'
<1> USE DEF TypeOK
<1>1. CASE LoadConfig
  BY <1>1, ProvisionedOK DEF LoadConfig, manager, DiskWellFormed, DiskRestartable, WellFormed, Phases
<1>2. CASE StartListeners
  <2>1. disk \in ConfigRecord /\ Validate(disk)
    BY <1>2 DEF StartListeners, DiskWellFormed, WellFormed
  <2>2. Addrs(Enabled(disk.listeners)) \in SUBSET Addresses
    BY <2>1, ValidAddrs DEF Addrs, Enabled
  <2> QED BY <1>2, <2>1, <2>2 DEF StartListeners, ConfigRecord, Enabled, Phases
<1>3. CASE OpenAdmin \/ Signal
  BY <1>3 DEF OpenAdmin, Signal, manager, Phases
<1>4. CASE Exit
  <2>1. op' \in [Clients -> Mutation]
    BY <1>4, IdleType DEF Exit
  <2> QED BY <1>4, <2>1 DEF Exit, NoUpstreams, Phases
<1>5. CASE CloseManager
  BY <1>5 DEF CloseManager, Phases
<1>6. ASSUME NEW c \in Clients, NEW req \in Requests, Lock(c, req)
      PROVE  TypeOK'
  <2> DEFINE cfg == [active |-> selector.active, upstreams |-> selector.upstreams,
                     listeners |-> {}, null |-> TRUE]
             new == [IdleOp EXCEPT !.pc = "snapshot", !.req = req, !.cfg = cfg]
  <2>1. op' = [op EXCEPT ![c] = new]
    BY <1>6 DEF Lock
  <2>2. cfg \in ConfigRecord
    BY DEF ConfigRecord
  <2>3. new \in Mutation
    BY <2>2, IdleType DEF Mutation, Steps
  <2>4. op' \in [Clients -> Mutation]
    BY <2>1, <2>3, OpType
  <2> QED BY <1>6, <2>4 DEF Lock, manager
<1>7. ASSUME NEW c \in Clients, ReadListeners(c)
      PROVE  TypeOK'
  <2> DEFINE cfg == Current([op[c].cfg EXCEPT !.listeners = configs])
             new == [op[c] EXCEPT !.pc = "current", !.cfg = cfg]
  <2>1. op' = [op EXCEPT ![c] = new]
    BY <1>7 DEF ReadListeners
  <2>2. op[c] \in Mutation /\ op[c].cfg \in ConfigRecord
    BY DEF Mutation
  <2>3. cfg \in ConfigRecord
    BY <2>2 DEF ConfigRecord, Current
  <2>4. new \in Mutation
    BY <2>2, <2>3 DEF Mutation, Steps
  <2>5. op' \in [Clients -> Mutation]
    BY <2>1, <2>4, OpType
  <2> QED BY <1>7, <2>5 DEF ReadListeners, manager
<1>8. ASSUME NEW c \in Clients, Prepare(c)
      PROVE  TypeOK'
  <2> DEFINE new == [op[c] EXCEPT !.pc = "prepared", !.cfg = Desired(c),
                        !.reused = Reused(Desired(c)), !.opened = Opened(Desired(c))]
  <2>1. Desired(c) \in ConfigRecord /\ Validate(Desired(c))
    BY <1>8, EditedType DEF Prepare
  <2>2. Opened(Desired(c)) \in SUBSET Listener /\ Reused(Desired(c)) \in SUBSET Listener
    BY <2>1 DEF Opened, Reused, Enabled, ConfigRecord
  <2>3. Addrs(Opened(Desired(c))) \in SUBSET Addresses
    BY <2>1, ValidAddrs DEF Opened, Enabled, Addrs
  <2>4. new \in Mutation
    BY <2>1, <2>2 DEF Mutation, Steps
  <2>5. op' \in [Clients -> Mutation]
    BY <1>8, <2>4, OpType DEF Prepare
  <2> QED BY <1>8, <2>3, <2>5 DEF Prepare
<1>9. ASSUME NEW c \in Clients, BeginSave(c) \/ SaveCompletes(c) \/ Install(c)
      PROVE  TypeOK'
  <2>1. op[c] \in Mutation /\ op[c].cfg \in ConfigRecord
    BY DEF Mutation
  <2>2. \A p \in Steps : [op[c] EXCEPT !.pc = p] \in Mutation
    BY <2>1 DEF Mutation
  <2>3. op' \in [Clients -> Mutation]
    BY <1>9, <2>2, OpType DEF BeginSave, SaveCompletes, Install, Steps
  <2>4. op[c].cfg.active \in UpstreamIds \cup {None} /\ op[c].cfg.upstreams \in SUBSET Upstream
    BY <2>1 DEF ConfigRecord
  <2> QED BY <1>9, <2>1, <2>3, <2>4 DEF BeginSave, SaveCompletes, Install, manager
<1>10. ASSUME NEW c \in Clients, Commit(c)
       PROVE  TypeOK'
  <2> DEFINE new == [op[c] EXCEPT !.pc = "committed", !.reused = {}, !.opened = {}]
  <2>1. op[c] \in Mutation /\ op[c].cfg \in ConfigRecord /\ op[c].opened \in SUBSET Listener
    BY DEF Mutation
  <2>2. Entries(c) \in SUBSET Listener /\ op[c].cfg.listeners \in SUBSET Listener
    BY <2>1 DEF Entries, Enabled, ConfigRecord
  <2>3. new \in Mutation
    BY <2>1 DEF Mutation, Steps
  <2>4. op' \in [Clients -> Mutation]
    BY <1>10, <2>3, OpType DEF Commit
  <2> QED BY <1>10, <2>1, <2>2, <2>4 DEF Commit
<1>11. ASSUME NEW c \in Clients, SaveFails(c) \/ Leave(c)
       PROVE  TypeOK'
  <2>1. op' \in [Clients -> Mutation]
    BY <1>11, IdleType, OpType DEF SaveFails, Leave, Unlock
  <2> QED BY <1>11, <2>1 DEF SaveFails, Leave, Unlock, manager
<1>12. ASSUME NEW a \in ForeignAddrs, Occupy(a) \/ Release(a)
       PROVE  TypeOK'
  BY <1>12, AddressAssumption DEF Occupy, Release, manager
<1> QED BY <1>1, <1>2, <1>3, <1>4, <1>5, <1>6, <1>7, <1>8, <1>9, <1>10, <1>11, <1>12,
           NextCases DEF HandlerStep

----------------------------------------------------------------------------
(* The steps of one mutation.                                              *)

(* Nobody else is inside a mutation.                                       *)
LEMMA OthersIdle ==
    ASSUME TypeOK, Mutex, NEW c \in Clients, op[c].pc # "idle" \/ mu = Nobody,
           NEW d \in Clients \ {c}
    PROVE  op[d] = IdleOp
<1>1. op[d].pc # "idle" => mu = d
  BY DEF Mutex
<1>2. op[c].pc # "idle" => mu = c
  BY DEF Mutex
<1>3. op[d].pc = "idle"
  BY <1>1, <1>2, ClientAssumption
<1> QED BY <1>3 DEF Mutex

(* Only the record of the mutation that takes a step changes.              *)
LEMMA OneRecord ==
    ASSUME TypeOK, NEW c \in Clients, NEW new, op' = [op EXCEPT ![c] = new]
    PROVE  op'[c] = new /\ \A d \in Clients \ {c} : op'[d] = op[d]
BY DEF TypeOK

(* Lock begins a mutation with the upstreams of the selector.              *)
LEMMA LockOp ==
    ASSUME TypeOK, NEW c \in Clients, NEW req \in Requests, Lock(c, req)
    PROVE  /\ op'[c].pc = "snapshot" /\ op'[c].req = req
           /\ op'[c].cfg = [active |-> selector.active, upstreams |-> selector.upstreams,
                            listeners |-> {}, null |-> TRUE]
           /\ op'[c].opened = {}
<1> DEFINE new == [IdleOp EXCEPT !.pc = "snapshot", !.req = req,
                      !.cfg = [active |-> selector.active, upstreams |-> selector.upstreams,
                               listeners |-> {}, null |-> TRUE]]
<1>1. op'[c] = new
  BY OneRecord DEF Lock
<1> QED BY <1>1 DEF IdleOp

(* ReadListeners completes what Lock has read.                             *)
LEMMA ReadOp ==
    ASSUME TypeOK, NEW c \in Clients, ReadListeners(c)
    PROVE  /\ op'[c].pc = "current" /\ op'[c].req = op[c].req
           /\ op'[c].cfg = Current([op[c].cfg EXCEPT !.listeners = configs])
           /\ op'[c].reused = op[c].reused /\ op'[c].opened = op[c].opened
<1> DEFINE new == [op[c] EXCEPT !.pc = "current",
                      !.cfg = Current([op[c].cfg EXCEPT !.listeners = configs])]
<1>1. op'[c] = new
  BY OneRecord DEF ReadListeners
<1> QED BY <1>1 DEF TypeOK, Mutation

(* Prepare fixes the configuration to save, and what was opened for it.    *)
LEMMA PrepareOp ==
    ASSUME TypeOK, NEW c \in Clients, Prepare(c)
    PROVE  /\ op'[c].pc = "prepared" /\ op'[c].req = op[c].req
           /\ op'[c].cfg = Desired(c)
           /\ op'[c].reused = Reused(Desired(c)) /\ op'[c].opened = Opened(Desired(c))
<1> DEFINE new == [op[c] EXCEPT !.pc = "prepared", !.cfg = Desired(c),
                      !.reused = Reused(Desired(c)), !.opened = Opened(Desired(c))]
<1>1. op'[c] = new
  BY OneRecord DEF Prepare
<1> QED BY <1>1 DEF TypeOK, Mutation

(* Saving and installing change nothing but the step itself.               *)
LEMMA AdvanceOp ==
    ASSUME TypeOK, NEW c \in Clients, BeginSave(c) \/ SaveCompletes(c) \/ Install(c)
    PROVE  /\ op'[c].req = op[c].req /\ op'[c].cfg = op[c].cfg
           /\ op'[c].reused = op[c].reused /\ op'[c].opened = op[c].opened
           /\ BeginSave(c) => op[c].pc = "prepared" /\ op'[c].pc = "saving"
           /\ SaveCompletes(c) => op[c].pc = "saving" /\ op'[c].pc = "saved"
           /\ Install(c) => op[c].pc = "saved" /\ op'[c].pc = "installed"
<1>1. op[c] \in Mutation
  BY DEF TypeOK
<1>2. CASE BeginSave(c)
  <2>1. op'[c] = [op[c] EXCEPT !.pc = "saving"] /\ op[c].pc = "prepared"
    BY <1>2, OneRecord DEF BeginSave
  <2> QED BY <1>1, <1>2, <2>1 DEF Mutation, SaveCompletes, Install
<1>3. CASE SaveCompletes(c)
  <2>1. op'[c] = [op[c] EXCEPT !.pc = "saved"] /\ op[c].pc = "saving"
    BY <1>3, OneRecord DEF SaveCompletes
  <2> QED BY <1>1, <1>3, <2>1 DEF Mutation, BeginSave, Install
<1>4. CASE Install(c)
  <2>1. op'[c] = [op[c] EXCEPT !.pc = "installed"] /\ op[c].pc = "saved"
    BY <1>4, OneRecord DEF Install
  <2> QED BY <1>1, <1>4, <2>1 DEF Mutation, BeginSave, SaveCompletes
<1> QED BY <1>2, <1>3, <1>4

(* Commit leaves the reply to be written.                                  *)
LEMMA CommitOp ==
    ASSUME TypeOK, NEW c \in Clients, Commit(c)
    PROVE  /\ op'[c].pc = "committed" /\ op'[c].req = op[c].req
           /\ op'[c].cfg = op[c].cfg /\ op'[c].opened = {}
<1> DEFINE new == [op[c] EXCEPT !.pc = "committed", !.reused = {}, !.opened = {}]
<1>1. op'[c] = new
  BY OneRecord DEF Commit
<1> QED BY <1>1 DEF TypeOK, Mutation

(* A mutation that ends leaves nothing.                                    *)
LEMMA EndOp ==
    ASSUME TypeOK, NEW c \in Clients, SaveFails(c) \/ Leave(c)
    PROVE  op'[c] = IdleOp /\ mu' = Nobody
BY OneRecord DEF SaveFails, Leave, Unlock

(* A step of one mutation happens while the process lives and no other     *)
(* mutation is under way.                                                  *)
LEMMA StepOf ==
    ASSUME TypeOK, Mutex, NEW c \in Clients, HandlerStep(c)
    PROVE  /\ phase' = phase /\ foreign' = foreign
           /\ phase \in {"up", "stopping", "closed"}
           /\ \A d \in Clients \ {c} : op[d] = IdleOp /\ op'[d] = IdleOp
           /\ \/ op'[c] = IdleOp /\ mu' = Nobody
              \/ op'[c].pc # "idle" /\ op'[c].req \in Requests /\ mu' = c
<1>1. op[c].pc # "idle" => op[c].req \in Requests /\ mu = c
                          /\ phase \in {"up", "stopping", "closed"}
  BY DEF Mutex, TypeOK, Phases
<1>2. ASSUME NEW req \in Requests, Lock(c, req)
      PROVE  /\ mu = Nobody /\ phase \in {"up", "stopping", "closed"} /\ mu' = c
             /\ phase' = phase /\ foreign' = foreign
             /\ \A d \in Clients \ {c} : op'[d] = op[d]
             /\ op'[c].pc # "idle" /\ op'[c].req \in Requests
  <2>1. op'[c].pc # "idle" /\ op'[c].req \in Requests
    BY <1>2, LockOp
  <2> QED BY <1>2, <2>1 DEF Lock, Alive, TypeOK
<1>3. CASE ReadListeners(c) \/ Prepare(c) \/ BeginSave(c) \/ SaveCompletes(c) \/ Install(c) \/ Commit(c)
  <2>1. op[c].pc # "idle" /\ mu' = mu /\ phase' = phase /\ foreign' = foreign
    BY <1>3 DEF ReadListeners, Prepare, BeginSave, SaveCompletes, Install, Commit
  <2>2. \A d \in Clients \ {c} : op'[d] = op[d]
    BY <1>3 DEF TypeOK, ReadListeners, Prepare, BeginSave, SaveCompletes, Install, Commit
  <2>3. op'[c].pc # "idle" /\ op'[c].req = op[c].req
    BY <1>3, ReadOp, PrepareOp, AdvanceOp, CommitOp
  <2> QED BY <1>1, <2>1, <2>2, <2>3, OthersIdle
<1>4. CASE SaveFails(c) \/ Leave(c)
  <2>1. op[c].pc # "idle" /\ phase' = phase /\ foreign' = foreign
    BY <1>4 DEF SaveFails, Leave
  <2>2. \A d \in Clients \ {c} : op'[d] = op[d]
    BY <1>4 DEF TypeOK, SaveFails, Leave, Unlock
  <2> QED BY <1>1, <1>4, <2>1, <2>2, EndOp, OthersIdle
<1> QED BY <1>2, <1>3, <1>4, OthersIdle DEF HandlerStep

(* Which step leads to which point of a mutation.                          *)
LEMMA StepInto ==
    ASSUME TypeOK, NEW c \in Clients, HandlerStep(c)
    PROVE  /\ op'[c].pc = "prepared" => Prepare(c)
           /\ op'[c].pc = "saving" => BeginSave(c)
           /\ op'[c].pc = "saved" => SaveCompletes(c)
           /\ op'[c].pc = "installed" => Install(c)
<1>1. ASSUME NEW req \in Requests, Lock(c, req)
      PROVE  op'[c].pc = "snapshot"
  BY <1>1, LockOp
<1>2. ReadListeners(c) => op'[c].pc = "current"
  BY ReadOp
<1>3. Prepare(c) => op'[c].pc = "prepared"
  BY PrepareOp
<1>4. /\ BeginSave(c) => op'[c].pc = "saving"
      /\ SaveCompletes(c) => op'[c].pc = "saved"
      /\ Install(c) => op'[c].pc = "installed"
  BY AdvanceOp
<1>5. Commit(c) => op'[c].pc = "committed"
  BY CommitOp
<1>6. SaveFails(c) \/ Leave(c) => op'[c].pc = "idle"
  BY EndOp DEF IdleOp
<1> QED BY <1>1, <1>2, <1>3, <1>4, <1>5, <1>6 DEF HandlerStep

(* Handler.mu lets one mutation in at a time.                              *)
LEMMA MutexStep ==
    ASSUME TypeOK, Mutex, Next
    PROVE  Mutex'
<1>1. CASE LoadConfig \/ StartListeners \/ OpenAdmin \/ Signal \/ CloseManager
  BY <1>1 DEF Mutex, LoadConfig, StartListeners, OpenAdmin, Signal, CloseManager
<1>2. CASE Exit
  BY <1>2 DEF Mutex, Exit, IdleOp
<1>3. ASSUME NEW c \in Clients, HandlerStep(c)
      PROVE  Mutex'
  <2>1. \A d \in Clients \ {c} : op'[d] = IdleOp
    BY <1>3, StepOf
  <2>2. \/ op'[c] = IdleOp /\ mu' = Nobody
        \/ op'[c].pc # "idle" /\ op'[c].req \in Requests /\ mu' = c
    BY <1>3, StepOf
  <2>3. phase' \notin {"down", "binding", "serving"}
    BY <1>3, StepOf
  <2> QED BY <2>1, <2>2, <2>3 DEF Mutex, IdleOp
<1>4. ASSUME NEW a \in ForeignAddrs, Occupy(a) \/ Release(a)
      PROVE  Mutex'
  BY <1>4 DEF Mutex, Occupy, Release
<1> QED BY <1>1, <1>2, <1>3, <1>4, NextCases

----------------------------------------------------------------------------
(* Sockets: each one bound is in an accept loop or was just opened, a      *)
(* listener that goes on keeps its own, and what is about to be saved can  *)
(* be bound again.                                                         *)

(* The sockets of accept loops, and of the mutation that opens new ones.   *)
SocketParts == SocketsAccounted /\ RunningListenersAccept /\ PreparedMatches

(* Only one mutation can have sockets of its own.                          *)
LEMMA OpenedByOne ==
    ASSUME NEW c \in Clients, \A d \in Clients \ {c} : op[d] = IdleOp
    PROVE  UNION {Addrs(op[d].opened) : d \in Clients} = Addrs(op[c].opened)
BY DEF IdleOp, Addrs

(* When no mutation has opened a socket, none is opened.                   *)
LEMMA OpenedByNone ==
    ASSUME \A d \in Clients : op[d].opened = {}
    PROVE  UNION {Addrs(op[d].opened) : d \in Clients} = {}
BY DEF Addrs

(* Prepare opens addresses this process does not have, for listeners of    *)
(* the configuration to come.                                              *)
LEMMA OpenedApart ==
    ASSUME TypeOK, Mutex, NEW c \in Clients, Prepare(c)
    PROVE  /\ Desired(c) \in ConfigRecord /\ Validate(Desired(c))
           /\ Opened(Desired(c)) \subseteq Enabled(Desired(c).listeners)
           /\ Addrs(Opened(Desired(c))) \in SUBSET Addresses
           /\ Addrs(Opened(Desired(c))) \cap bound = {}
           /\ Bindable(Addrs(Opened(Desired(c))))
<1>1. op[c].pc = "current" /\ Validate(Desired(c)) /\ Bindable(Addrs(Opened(Desired(c))))
  BY DEF Prepare
<1>2. Desired(c) \in ConfigRecord
  BY <1>1, EditedType
<1>3. Opened(Desired(c)) \subseteq Enabled(Desired(c).listeners)
  BY DEF Opened
<1>4. Addrs(Opened(Desired(c))) \in SUBSET Addresses
  BY <1>1, <1>2, <1>3, ValidAddrs DEF Enabled, Addrs
<1>5. Addrs(Opened(Desired(c))) \cap bound = {}
  BY <1>1, <1>4, AddressAssumption DEF Bindable, Free, Held, Clashes
<1> QED BY <1>1, <1>2, <1>3, <1>4, <1>5

----------------------------------------------------------------------------
(* Commit, while the manager is open: entries of the old map are either    *)
(* reused or not; those not in the new map by ID lose their socket.        *)

(* What Commit does to the entries and accept loops of an open manager.    *)
LEMMA CommitOpen ==
    ASSUME TypeOK, Mutex, OpFollowsDisk, SocketParts,
           NEW c \in Clients, Commit(c), phase # "closed"
    PROVE  /\ bound' = Addrs(accepting')
           /\ \A s, t \in accepting' : s.addr = t.addr => s = t
           /\ running' \subseteq accepting'
<1> DEFINE cfg     == op[c].cfg
           reused  == op[c].reused
           opened  == op[c].opened
           removed == Removed(Entries(c))
           kept    == {l \in Entries(c) : \E r \in reused : r.id = l.id}
           rest    == accepting \ (removed \cup reused)
<1>1. op[c].pc = "installed" /\ phase \in {"up", "stopping"}
  BY DEF Commit, Mutex, TypeOK, Phases
<1>2. cfg \in ConfigRecord /\ UniqueIds(cfg.listeners)
      /\ \A l, k \in Enabled(cfg.listeners) : l.addr = k.addr => l = k
  BY <1>1 DEF OpFollowsDisk, WellFormed, Validate, Mid
<1>3. reused = Reused(cfg) /\ opened = Opened(cfg) /\ Addrs(opened) \cap Addrs(accepting) = {}
  BY <1>1 DEF SocketParts, PreparedMatches, Mid
<1>4. running \subseteq accepting
  BY <1>1 DEF SocketParts, RunningListenersAccept
<1>5. bound = Addrs(accepting) \cup Addrs(opened)
  <2>1. \A d \in Clients \ {c} : op[d] = IdleOp
    BY <1>1, OthersIdle
  <2> QED BY <2>1, OpenedByOne DEF SocketParts, SocketsAccounted
<1>6. \A s, t \in accepting : s.addr = t.addr => s = t
  BY DEF SocketParts, SocketsAccounted
<1>7. reused \subseteq accepting /\ removed \subseteq accepting
  BY <1>3, <1>4 DEF Reused, Removed
<1>8. reused \cap removed = {}
  BY <1>3 DEF Reused, Removed, Entries, Ids
<1>9. accepting' = rest \cup kept \cup opened /\ bound' = bound \ Addrs(removed)
      /\ running' = Entries(c)
  <2>1. (op[c].reused \cap accepting) \ Removed(Entries(c)) = reused
    BY <1>7, <1>8
  <2> QED BY <2>1 DEF Commit
<1>10. \A l \in kept : \E r \in reused : r.addr = l.addr
  BY <1>2, <1>3 DEF Reused, Entries, Enabled, UniqueIds
<1>11. \A r \in reused : \E l \in kept : r.addr = l.addr
  BY <1>3 DEF Reused, Entries
<1>12. kept \subseteq Enabled(cfg.listeners) /\ opened \subseteq Enabled(cfg.listeners)
  BY <1>3 DEF Opened, Entries
<1>13. bound' = Addrs(accepting')
  <2>1. Addrs(accepting') = Addrs(rest) \cup Addrs(reused) \cup Addrs(opened)
    <3>1. Addrs(kept) = Addrs(reused)
      BY <1>10, <1>11 DEF Addrs
    <3>2. Addrs(rest \cup kept \cup opened) = Addrs(rest) \cup Addrs(kept) \cup Addrs(opened)
      BY DEF Addrs
    <3> QED BY <1>9, <3>1, <3>2
  <2>2. Addrs(rest) \cup Addrs(reused) = Addrs(accepting) \ Addrs(removed)
    BY <1>6, <1>7, <1>8 DEF Addrs
  <2>3. Addrs(opened) \cap Addrs(removed) = {}
    BY <1>3, <1>7 DEF Addrs
  <2> QED BY <1>5, <1>9, <2>1, <2>2, <2>3
<1>14. \A s, t \in accepting' : s.addr = t.addr => s = t
  <2>1. \A s \in kept \cup opened, t \in kept \cup opened : s.addr = t.addr => s = t
    BY <1>2, <1>12
  <2>2. \A s \in rest, t \in kept : s.addr # t.addr
    BY <1>6, <1>7, <1>10
  <2>3. \A s \in rest, t \in opened : s.addr # t.addr
    BY <1>3 DEF Addrs
  <2> QED BY <1>6, <1>9, <2>1, <2>2, <2>3
<1>15. Entries(c) \subseteq kept \cup opened
  BY <1>3 DEF Entries, Opened, Reused
<1> QED BY <1>9, <1>13, <1>14, <1>15

(* After Manager.Close there is nothing left to keep or to remove.         *)
LEMMA CommitClosed ==
    ASSUME TypeOK, Mutex, OpFollowsDisk, SocketParts,
           NEW c \in Clients, Commit(c), phase = "closed"
    PROVE  /\ bound' = Addrs(accepting')
           /\ \A s, t \in accepting' : s.addr = t.addr => s = t
<1> DEFINE opened == op[c].opened
<1>1. op[c].pc = "installed"
  BY DEF Commit
<1>2. \A l, k \in Enabled(op[c].cfg.listeners) : l.addr = k.addr => l = k
  BY <1>1 DEF OpFollowsDisk, WellFormed, Validate, Mid
<1>3. /\ opened \subseteq Enabled(op[c].cfg.listeners)
      /\ Addrs(opened) \cap Addrs(accepting) = {}
      /\ running = {} /\ op[c].reused \cap accepting = {}
  BY <1>1 DEF SocketParts, PreparedMatches, Mid
<1>4. bound = Addrs(accepting) \cup Addrs(opened)
  <2>1. \A d \in Clients \ {c} : op[d] = IdleOp
    BY <1>1, OthersIdle
  <2> QED BY <2>1, OpenedByOne DEF SocketParts, SocketsAccounted
<1>5. Removed(Entries(c)) = {}
  BY <1>3 DEF Removed
<1>6. accepting' = accepting \cup opened /\ bound' = bound
  BY <1>3, <1>5 DEF Commit, Addrs
<1>7. \A s \in accepting, t \in opened : s.addr # t.addr
  BY <1>3 DEF Addrs
<1>8. \A s, t \in accepting : s.addr = t.addr => s = t
  BY DEF SocketParts, SocketsAccounted
<1> QED BY <1>2, <1>3, <1>4, <1>6, <1>7, <1>8 DEF Addrs

----------------------------------------------------------------------------

(* The sockets of the listeners that start are accounted for.              *)
LEMMA SocketsStart ==
    ASSUME TypeOK, Mutex, DiskWellFormed, StartListeners, SocketParts
    PROVE  SocketParts'
<1>1. /\ accepting' = Enabled(disk.listeners) /\ running' = Enabled(disk.listeners)
      /\ bound' = Addrs(Enabled(disk.listeners)) /\ op' = op
      /\ phase = "binding"
  BY DEF StartListeners
<1>2. \A d \in Clients : op[d].pc = "idle" /\ op[d].opened = {}
  BY <1>1 DEF Mutex, IdleOp
<1>3. \A l, k \in Enabled(disk.listeners) : l.addr = k.addr => l = k
  BY <1>1 DEF DiskWellFormed, WellFormed, Validate
<1>4. SocketsAccounted'
  BY <1>1, <1>2, <1>3, OpenedByNone DEF SocketsAccounted
<1>5. RunningListenersAccept' /\ PreparedMatches'
  BY <1>1, <1>2 DEF RunningListenersAccept, PreparedMatches, Mid
<1> QED BY <1>4, <1>5 DEF SocketParts

(* Manager.Close leaves accounted what it does not close.                  *)
LEMMA SocketsClose ==
    ASSUME TypeOK, Mutex, SocketParts, CloseManager
    PROVE  SocketParts'
<1>1. /\ phase = "stopping" /\ phase' = "closed" /\ running' = {} /\ op' = op
      /\ accepting' = accepting \ running /\ bound' = bound \ Addrs(running)
  BY DEF CloseManager
<1>2. running \subseteq accepting
  BY <1>1 DEF SocketParts, RunningListenersAccept
<1>3. \A s, t \in accepting : s.addr = t.addr => s = t
  BY DEF SocketParts, SocketsAccounted
<1>4. Addrs(accepting') = Addrs(accepting) \ Addrs(running)
  BY <1>1, <1>2, <1>3 DEF Addrs
<1>5. \A d \in Clients : Addrs(op[d].opened) \cap Addrs(running) = {}
  <2>1. \A d \in Clients : Addrs(op[d].opened) \cap Addrs(accepting) = {}
    BY DEF SocketParts, PreparedMatches, Addrs
  <2> QED BY <1>2, <2>1 DEF Addrs
<1>6. bound' = Addrs(accepting') \cup UNION {Addrs(op'[d].opened) : d \in Clients}
  <2> DEFINE all == UNION {Addrs(op[d].opened) : d \in Clients}
  <2>1. bound = Addrs(accepting) \cup all
    BY DEF SocketParts, SocketsAccounted
  <2>2. all \cap Addrs(running) = {}
    BY <1>5
  <2> QED BY <1>1, <1>4, <2>1, <2>2
<1>7. \A d \in Clients : op[d].pc \in Mid => op[d].reused \subseteq running
  BY <1>1 DEF SocketParts, PreparedMatches, Reused
<1>8. PreparedMatches'
  BY <1>1, <1>7 DEF SocketParts, PreparedMatches, Addrs
<1>9. \A s, t \in accepting' : s.addr = t.addr => s = t
  BY <1>1, <1>3
<1> QED BY <1>1, <1>6, <1>8, <1>9 DEF SocketParts, SocketsAccounted, RunningListenersAccept

(* The steps of a mutation, but Commit.                                    *)
LEMMA SocketsHandler ==
    ASSUME TypeOK, Mutex, SocketParts, NEW c \in Clients, HandlerStep(c), ~Commit(c)
    PROVE  SocketParts'
<1> DEFINE Matches(d) ==
        /\ op[d].pc \in Mid =>
              /\ op[d].opened \subseteq Enabled(op[d].cfg.listeners)
              /\ Addrs(op[d].opened) \cap Addrs(accepting) = {}
              /\ phase # "closed" =>
                    /\ op[d].reused = Reused(op[d].cfg)
                    /\ op[d].opened = Opened(op[d].cfg)
              /\ phase = "closed" => running = {} /\ op[d].reused \cap accepting = {}
        /\ op[d].pc \notin Mid => op[d].opened = {}
<1>1. /\ phase' = phase /\ phase \in {"up", "stopping", "closed"}
      /\ \A d \in Clients \ {c} : op[d] = IdleOp /\ op'[d] = IdleOp
  BY StepOf
<1>2. running' = running /\ accepting' = accepting
  BY DEF HandlerStep, Lock, ReadListeners, Prepare, BeginSave, SaveFails, SaveCompletes,
         Install, Leave, manager
<1>3. Matches(c)
  BY DEF SocketParts, PreparedMatches
<1>4. /\ bound = Addrs(accepting) \cup Addrs(op[c].opened)
      /\ \A s, t \in accepting : s.addr = t.addr => s = t
  BY <1>1, OpenedByOne DEF SocketParts, SocketsAccounted
<1>5. ASSUME NEW req \in Requests, Lock(c, req)
      PROVE  Matches(c)' /\ bound' = Addrs(accepting') \cup Addrs(op'[c].opened)
  <2>1. op[c].opened = {} /\ bound' = bound
    BY <1>3, <1>5 DEF Lock, Mid, manager
  <2> QED BY <1>2, <1>4, <1>5, <2>1, LockOp DEF Mid
<1>6. ASSUME ReadListeners(c)
      PROVE  Matches(c)' /\ bound' = Addrs(accepting') \cup Addrs(op'[c].opened)
  <2>1. op[c].opened = {} /\ bound' = bound
    BY <1>3, <1>6 DEF ReadListeners, Mid, manager
  <2> QED BY <1>2, <1>4, <1>6, <2>1, ReadOp DEF Mid
<1>7. ASSUME Prepare(c)
      PROVE  Matches(c)' /\ bound' = Addrs(accepting') \cup Addrs(op'[c].opened)
  <2>1. op[c].opened = {} /\ phase # "closed" /\ bound' = bound \cup Addrs(Opened(Desired(c)))
    BY <1>3, <1>7 DEF Prepare, Mid
  <2>2. bound = Addrs(accepting)
    BY <1>4, <2>1 DEF Addrs
  <2>4. /\ op'[c].cfg = Desired(c) /\ op'[c].pc = "prepared"
        /\ op'[c].reused = Reused(op'[c].cfg) /\ op'[c].opened = Opened(op'[c].cfg)
    BY <1>7, PrepareOp
  <2>5. Opened(op'[c].cfg) \subseteq Enabled(op'[c].cfg.listeners)
        /\ Addrs(Opened(op'[c].cfg)) \cap Addrs(accepting) = {}
    BY <1>7, <2>2, <2>4, OpenedApart
  <2>6. (Reused(op[c].cfg))' = Reused(op'[c].cfg) /\ (Opened(op[c].cfg))' = Opened(op'[c].cfg)
    BY <1>2 DEF Reused, Opened
  <2> QED BY <1>1, <1>2, <2>1, <2>2, <2>4, <2>5, <2>6 DEF Mid
<1>8. ASSUME BeginSave(c) \/ SaveCompletes(c) \/ Install(c)
      PROVE  Matches(c)' /\ bound' = Addrs(accepting') \cup Addrs(op'[c].opened)
  <2>1. bound' = bound
    BY <1>8 DEF BeginSave, SaveCompletes, Install, manager
  <2>2. /\ op'[c].cfg = op[c].cfg /\ op'[c].reused = op[c].reused /\ op'[c].opened = op[c].opened
        /\ op[c].pc \in Mid /\ op'[c].pc \in Mid
    BY <1>8, AdvanceOp DEF Mid
  <2>3. (Reused(op[c].cfg))' = Reused(op[c].cfg) /\ (Opened(op[c].cfg))' = Opened(op[c].cfg)
    BY <1>2, <2>2 DEF Reused, Opened
  <2> QED BY <1>1, <1>2, <1>3, <1>4, <2>1, <2>2, <2>3
<1>9. ASSUME SaveFails(c)
      PROVE  Matches(c)' /\ bound' = Addrs(accepting') \cup Addrs(op'[c].opened)
  <2>1. bound' = bound \ Addrs(op[c].opened) /\ op[c].pc \in Mid
    BY <1>9 DEF SaveFails, Mid
  <2>2. Addrs(op[c].opened) \cap Addrs(accepting) = {}
    BY <1>3, <2>1
  <2>3. op'[c].pc = "idle" /\ op'[c].opened = {} /\ Addrs(op'[c].opened) = {}
    BY <1>9, EndOp DEF IdleOp, Addrs
  <2> QED BY <1>2, <1>4, <2>1, <2>2, <2>3 DEF Mid
<1>10. ASSUME Leave(c)
       PROVE  Matches(c)' /\ bound' = Addrs(accepting') \cup Addrs(op'[c].opened)
  <2>1. op[c].opened = {} /\ bound' = bound
    BY <1>3, <1>10 DEF Leave, Mid, manager
  <2>2. op'[c].pc = "idle" /\ op'[c].opened = {}
    BY <1>10, EndOp DEF IdleOp
  <2> QED BY <1>2, <1>4, <2>1, <2>2 DEF Mid
<1>11. Matches(c)' /\ bound' = Addrs(accepting') \cup Addrs(op'[c].opened)
  BY <1>5, <1>6, <1>7, <1>8, <1>9, <1>10 DEF HandlerStep
<1>12. PreparedMatches'
  <2>1. \A d \in Clients \ {c} : Matches(d)'
    BY <1>1 DEF IdleOp, Mid
  <2> QED BY <1>11, <2>1 DEF PreparedMatches
<1>13. SocketsAccounted'
  <2>1. UNION {Addrs(op'[d].opened) : d \in Clients} = Addrs(op'[c].opened)
    BY <1>1 DEF IdleOp, Addrs
  <2> QED BY <1>2, <1>4, <1>11, <2>1 DEF SocketsAccounted
<1>14. RunningListenersAccept'
  BY <1>1, <1>2 DEF SocketParts, RunningListenersAccept
<1> QED BY <1>12, <1>13, <1>14 DEF SocketParts

(* Commit passes what was opened to accept loops and closes the rest.      *)
LEMMA SocketsCommit ==
    ASSUME TypeOK, Mutex, OpFollowsDisk, SocketParts, NEW c \in Clients, Commit(c)
    PROVE  SocketParts'
<1>1. phase' = phase /\ \A d \in Clients \ {c} : op'[d] = IdleOp
  BY StepOf DEF HandlerStep
<1>2. op'[c].pc = "committed" /\ op'[c].opened = {}
  BY CommitOp
<1>3. \A d \in Clients : op'[d].opened = {} /\ op'[d].pc \notin Mid
  BY <1>1, <1>2 DEF IdleOp, Mid
<1>4. UNION {Addrs(op'[d].opened) : d \in Clients} = {}
  BY <1>3 DEF Addrs
<1>5. bound' = Addrs(accepting') /\ \A s, t \in accepting' : s.addr = t.addr => s = t
  BY CommitOpen, CommitClosed
<1>6. SocketsAccounted'
  BY <1>4, <1>5 DEF SocketsAccounted
<1>7. RunningListenersAccept'
  BY <1>1, CommitOpen DEF RunningListenersAccept
<1>8. PreparedMatches'
  BY <1>3 DEF PreparedMatches
<1> QED BY <1>6, <1>7, <1>8 DEF SocketParts

(* No step leaks a socket or makes two owners share one.                   *)
LEMMA SocketsStep ==
    ASSUME TypeOK, Mutex, Fresh, DiskWellFormed, OpFollowsDisk, SocketParts, Next
    PROVE  SocketParts'
<1>1. CASE LoadConfig \/ OpenAdmin \/ Signal
  <2>1. UNCHANGED <<running, accepting, bound, op>>
        /\ phase # "closed" /\ phase' # "closed"
        /\ (phase' \in {"serving", "up", "stopping"} => phase \in {"serving", "up", "stopping"})
    BY <1>1 DEF LoadConfig, OpenAdmin, Signal, manager
  <2> QED BY <2>1 DEF SocketParts, SocketsAccounted, RunningListenersAccept, PreparedMatches,
                      Reused, Opened
<1>2. CASE Exit
  <2>1. accepting' = {} /\ bound' = {} /\ phase' = "down"
        /\ \A d \in Clients : op'[d].opened = {} /\ op'[d].pc = "idle"
    BY <1>2 DEF Exit, IdleOp
  <2>2. UNION {Addrs(op'[d].opened) : d \in Clients} = {}
    BY <2>1 DEF Addrs
  <2> QED BY <2>1, <2>2 DEF SocketParts, SocketsAccounted, RunningListenersAccept,
                            PreparedMatches, Addrs, Mid
<1>3. ASSUME NEW c \in Clients, HandlerStep(c)
      PROVE  SocketParts'
  BY <1>3, SocketsHandler, SocketsCommit
<1>4. ASSUME NEW a \in ForeignAddrs, Occupy(a) \/ Release(a)
      PROVE  SocketParts'
  BY <1>4 DEF Occupy, Release, manager, SocketParts, SocketsAccounted, RunningListenersAccept,
              PreparedMatches, Reused, Opened
<1> QED BY <1>1, <1>2, <1>3, <1>4, SocketsStart, SocketsClose, NextCases

----------------------------------------------------------------------------
(* What is bound together can be bound together again.                     *)

(* Sockets that are open together never overlap: net.Listen refuses.       *)
LEMMA BoundStep ==
    ASSUME TypeOK, Mutex, Fresh, DiskWellFormed, BoundApart, Next
    PROVE  BoundApart'
<1>1. CASE StartListeners
  <2>1. bound' = Addrs(Enabled(disk.listeners)) /\ Bindable(bound') /\ phase' = "serving"
    BY <1>1 DEF StartListeners
  <2> QED BY <2>1 DEF BoundApart, Bindable
<1>2. CASE OpenAdmin
  <2>1. bound' = bound /\ Free(WebAddr) /\ bound \in SUBSET Addresses
    BY <1>2 DEF OpenAdmin, manager, TypeOK
  <2>2. \A a \in bound : ~Clashes(WebAddr, a)
    BY <2>1 DEF Free, Held
  <2>3. \A a \in bound : ~Clashes(a, WebAddr)
    BY <2>1, <2>2, AddressAssumption DEF Clashes
  <2> QED BY <2>1, <2>3 DEF BoundApart
<1>3. CASE LoadConfig \/ Exit \/ Signal \/ CloseManager
  <2>1. bound' \subseteq bound /\ phase' # "up"
    BY <1>3 DEF LoadConfig, Exit, Signal, CloseManager, manager
  <2> QED BY <2>1 DEF BoundApart
<1>4. ASSUME NEW c \in Clients, Prepare(c)
      PROVE  BoundApart'
  <2> DEFINE new == Addrs(Opened(Desired(c)))
  <2>1. bound' = bound \cup new /\ phase' = phase /\ bound \in SUBSET Addresses
    BY <1>4 DEF Prepare, TypeOK
  <2>2. new \in SUBSET Addresses /\ Bindable(new)
    BY <1>4, OpenedApart
  <2>3. \A a \in new, b \in bound : ~Clashes(a, b) /\ ~Clashes(b, a)
    BY <2>1, <2>2, AddressAssumption DEF Bindable, Free, Held, Clashes
  <2>4. phase = "up" => \A a \in new : ~Clashes(a, WebAddr)
    BY <2>2 DEF Bindable, Free, Held
  <2>5. \A a, b \in new : a # b => ~Clashes(a, b)
    BY <2>2 DEF Bindable
  <2> QED BY <2>1, <2>3, <2>4, <2>5 DEF BoundApart
<1>5. ASSUME NEW c \in Clients, HandlerStep(c), ~Prepare(c)
      PROVE  BoundApart'
  <2>1. bound' \subseteq bound
    BY <1>5 DEF HandlerStep, Lock, ReadListeners, BeginSave, SaveFails, SaveCompletes,
                Install, Commit, Leave, manager
  <2>2. phase' = phase
    BY <1>5, StepOf
  <2> QED BY <2>1, <2>2 DEF BoundApart
<1>6. ASSUME NEW a \in ForeignAddrs, Occupy(a) \/ Release(a)
      PROVE  BoundApart'
  BY <1>6 DEF Occupy, Release, manager, BoundApart
<1> QED BY <1>1, <1>2, <1>3, <1>4, <1>5, <1>6, NextCases

(* Every address of the configuration to come is bound once Prepare is     *)
(* done: just opened, or that of an entry that runs.                       *)
LEMMA PreparedIsBound ==
    ASSUME TypeOK, Mutex, SocketParts, BoundApart, BoundApart',
           NEW c \in Clients, Prepare(c), phase = "up"
    PROVE  Restartable(Desired(c).listeners)
<1> DEFINE next == Enabled(Desired(c).listeners)
<1>1. bound' = bound \cup Addrs(Opened(Desired(c))) /\ phase' = "up"
  BY DEF Prepare
<1>2. \A l, k \in next : l.addr = k.addr => l = k
  BY OpenedApart DEF Validate
<1>3. \A r \in running : r.addr \in bound
  BY DEF SocketParts, SocketsAccounted, RunningListenersAccept, Addrs
<1>4. \A l \in next : l.addr \in bound'
  BY <1>1, <1>3 DEF Opened, Addrs
<1> QED BY <1>1, <1>2, <1>4 DEF BoundApart, Restartable

(* What is about to be saved can be bound together with the admin address. *)
LEMMA SavingStep ==
    ASSUME TypeOK, Mutex, SocketParts, BoundApart, BoundApart', SavingRestartable, Next
    PROVE  SavingRestartable'
<1>1. CASE LoadConfig \/ StartListeners \/ OpenAdmin
  BY <1>1 DEF LoadConfig, StartListeners, OpenAdmin, Mutex, SavingRestartable
<1>2. CASE Signal \/ CloseManager
  BY <1>2 DEF Signal, CloseManager, SavingRestartable
<1>3. CASE Exit
  BY <1>3 DEF Exit, IdleOp, SavingRestartable
<1>4. ASSUME NEW c \in Clients, HandlerStep(c)
      PROVE  SavingRestartable'
  <2> DEFINE Saving(d) == \/ op[d].pc = "saving"
                          \/ op[d].pc = "prepared" /\ phase = "up"
                          => Restartable(op[d].cfg.listeners)
  <2>1. \A d \in Clients \ {c} : Saving(d)'
    BY <1>4, StepOf DEF IdleOp
  <2>2. phase' = phase
    BY <1>4, StepOf
  <2>3. Prepare(c) => Saving(c)'
    BY <2>2, PrepareOp, PreparedIsBound
  <2>4. BeginSave(c) => Saving(c)'
    BY AdvanceOp DEF SavingRestartable, BeginSave
  <2>5. ~Prepare(c) /\ ~BeginSave(c) => op'[c].pc \notin {"prepared", "saving"}
    BY <1>4, StepInto
  <2> QED BY <2>1, <2>3, <2>4, <2>5 DEF SavingRestartable
<1>5. ASSUME NEW a \in ForeignAddrs, Occupy(a) \/ Release(a)
      PROVE  SavingRestartable'
  BY <1>5 DEF Occupy, Release, SavingRestartable
<1> QED BY <1>1, <1>2, <1>3, <1>4, <1>5, NextCases

=============================================================================
