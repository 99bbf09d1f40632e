------------------------- MODULE ControlPlane_proofs -------------------------
(***************************************************************************)
(* The control plane keeps its invariant, for every set of clients,        *)
(* requests, upstreams, listeners and addresses.  Module                   *)
(* ControlPlaneInvariant holds the parts of Inv; lemma XStep shows that a  *)
(* step from the parts it needs leads to part X.                           *)
(***************************************************************************)
EXTENDS ControlPlaneSteps_proofs


----------------------------------------------------------------------------

(* A process that has not started its listeners has no runtime state.      *)
LEMMA FreshStep ==
    ASSUME TypeOK, Mutex, Fresh, Next
    PROVE  Fresh'
<1>1. CASE LoadConfig \/ StartListeners \/ OpenAdmin \/ Signal \/ CloseManager
  BY <1>1 DEF Fresh, LoadConfig, StartListeners, OpenAdmin, Signal, CloseManager, manager
<1>2. CASE Exit
  BY <1>2 DEF Fresh, Exit
<1>3. ASSUME NEW c \in Clients, HandlerStep(c)
      PROVE  Fresh'
  BY <1>3, StepOf DEF Fresh
<1>4. ASSUME NEW a \in ForeignAddrs, Occupy(a) \/ Release(a)
      PROVE  Fresh'
  BY <1>4 DEF Fresh, Occupy, Release, manager
<1> QED BY <1>1, <1>2, <1>3, <1>4, NextCases

(* A mutation touches the disk only when its Save completes.               *)
LEMMA DiskOf ==
    ASSUME NEW c \in Clients, HandlerStep(c), disk' # disk
    PROVE  SaveCompletes(c) /\ disk' = op[c].cfg
BY DEF HandlerStep, Lock, ReadListeners, Prepare, BeginSave, SaveFails, SaveCompletes,
       Install, Commit, Leave

(* Every step keeps the saved configuration valid and restartable.         *)
LEMMA DiskStep ==
    ASSUME TypeOK, Mutex, DiskWellFormed, DiskRestartable, OpFollowsDisk, SavingRestartable, Next
    PROVE  DiskWellFormed' /\ DiskRestartable'
<1>1. CASE LoadConfig
  <2>1. disk # NoFile => WellFormed(disk) /\ Restartable(disk.listeners)
    BY DEF DiskWellFormed, DiskRestartable
  <2>2. disk' = Provisioned(disk)
    BY <1>1 DEF LoadConfig
  <2>3. WellFormed(disk') /\ disk' # NoFile /\ Restartable(disk'.listeners)
    BY <2>1, <2>2, ProvisionedOK
  <2> QED BY <2>3 DEF DiskWellFormed, DiskRestartable
<1>2. CASE StartListeners \/ OpenAdmin \/ Signal \/ CloseManager \/ Exit
  <2>1. disk' = disk /\ (phase' # "down" => phase # "down")
    BY <1>2 DEF StartListeners, OpenAdmin, Signal, CloseManager, Exit
  <2> QED BY <2>1 DEF DiskWellFormed, DiskRestartable
<1>3. ASSUME NEW c \in Clients, HandlerStep(c)
      PROVE  DiskWellFormed' /\ DiskRestartable'
  <2>1. phase # "down" /\ phase' = phase
    BY <1>3, StepOf
  <2>2. CASE disk' = disk
    BY <2>1, <2>2 DEF DiskWellFormed, DiskRestartable
  <2>3. CASE disk' # disk
    <3>1. op[c].pc = "saving" /\ disk' = op[c].cfg
      BY <1>3, <2>3, DiskOf DEF SaveCompletes
    <3>2. WellFormed(disk') /\ Restartable(disk'.listeners)
      BY <3>1 DEF OpFollowsDisk, SavingRestartable, Mid
    <3>3. disk' # NoFile
      BY <3>2, StartAssumption DEF WellFormed
    <3> QED BY <3>2, <3>3 DEF DiskWellFormed, DiskRestartable
  <2> QED BY <2>2, <2>3
<1>4. ASSUME NEW a \in ForeignAddrs, Occupy(a) \/ Release(a)
      PROVE  DiskWellFormed' /\ DiskRestartable'
  BY <1>4 DEF DiskWellFormed, DiskRestartable, Occupy, Release
<1> QED BY <1>1, <1>2, <1>3, <1>4, NextCases

----------------------------------------------------------------------------

(* The configuration a mutation makes of what it has read can be saved.    *)
LEMMA DesiredOK ==
    ASSUME TypeOK, Mutex, DiskWellFormed, OpFollowsDisk,
           NEW c \in Clients, Prepare(c)
    PROVE  /\ WellFormed(Desired(c))
           /\ op[c].req \in Request
           /\ Current(disk) \in ConfigRecord /\ Validate(Current(disk))
           /\ ~Refused(Current(disk), op[c].req)
           /\ Desired(c) = Edited(Current(disk), op[c].req)
<1>1. op[c].pc = "current" /\ phase # "closed" /\ Validate(Desired(c)) /\ ~Refused(op[c].cfg, op[c].req)
  BY DEF Prepare
<1>2. op[c].req \in Request /\ Desired(c) \in ConfigRecord
  BY <1>1, EditedType
<1>3. op[c].cfg = Current(disk)
  BY <1>1 DEF OpFollowsDisk
<1>4. phase # "down"
  BY <1>1 DEF Mutex
<1>5. disk \in ConfigRecord /\ Validate(disk)
  BY <1>4 DEF DiskWellFormed, WellFormed
<1>6. Current(disk) \in ConfigRecord
  BY <1>5 DEF Current, ConfigRecord
<1>7. /\ Current(disk).active = disk.active /\ Current(disk).upstreams = disk.upstreams
      /\ Current(disk).listeners = disk.listeners /\ Current(disk).null = (disk.listeners = {})
  BY <1>5 DEF Current, ConfigRecord
<1>8. Validate(Current(disk))
  BY <1>5, <1>7 DEF Validate
<1>9. Desired(c).null => Desired(c).listeners = {}
  BY <1>1, <1>2, <1>3, <1>6, <1>7, EditedNull DEF Desired
<1> QED BY <1>1, <1>2, <1>3, <1>6, <1>8, <1>9 DEF WellFormed, Desired

(* Configurations are equal when their fields are.                         *)
LEMMA SameConfig ==
    ASSUME NEW a \in ConfigRecord, NEW b \in ConfigRecord,
           a.active = b.active, a.upstreams = b.upstreams,
           a.listeners = b.listeners, a.null = b.null
    PROVE  a = b
BY DEF ConfigRecord

(* What a mutation reads is the configuration on the disk.                 *)
LEMMA ReadIsCurrent ==
    ASSUME TypeOK, Mutex, DiskWellFormed, OpFollowsDisk, RuntimeStepwise,
           NEW c \in Clients, ReadListeners(c), phase # "closed"
    PROVE  op'[c].cfg = Current(disk)
<1>1. op[c].pc = "snapshot"
  BY DEF ReadListeners
<1>2. phase \in {"up", "stopping"}
  BY <1>1 DEF Mutex, TypeOK, Phases
<1>3. \A d \in Clients : op[d].pc \in BeforeSave
  BY <1>1, OthersIdle DEF BeforeSave, IdleOp
<1>4. configs = disk.listeners
  BY <1>2, <1>3 DEF RuntimeStepwise, RuntimeIs
<1>5. op[c].cfg = [active |-> disk.active, upstreams |-> disk.upstreams,
                   listeners |-> {}, null |-> TRUE]
  BY <1>1 DEF OpFollowsDisk
<1>6. disk \in ConfigRecord
  BY <1>2 DEF DiskWellFormed, WellFormed
<1> DEFINE read == Current([op[c].cfg EXCEPT !.listeners = configs])
<1>7. /\ read \in ConfigRecord
      /\ read.active = disk.active /\ read.upstreams = disk.upstreams
      /\ read.listeners = configs /\ read.null = (configs = {})
  <2>1. op[c].cfg \in ConfigRecord /\ configs \in SUBSET Listener
    BY DEF TypeOK, Mutation
  <2>2. op[c].cfg.active = disk.active /\ op[c].cfg.upstreams = disk.upstreams
    BY <1>5
  <2> QED BY <2>1, <2>2 DEF Current, ConfigRecord
<1>8. /\ Current(disk) \in ConfigRecord
      /\ Current(disk).active = disk.active /\ Current(disk).upstreams = disk.upstreams
      /\ Current(disk).listeners = disk.listeners /\ Current(disk).null = (disk.listeners = {})
  BY <1>6 DEF Current, ConfigRecord
<1>9. read = Current(disk)
  BY <1>4, <1>7, <1>8, SameConfig
<1> QED BY <1>9, ReadOp

(* What a mutation has read or saved is what the file holds.               *)
LEMMA OpFollowsDiskStep ==
    ASSUME TypeOK, Mutex, DiskWellFormed, OpFollowsDisk, RuntimeStepwise, Next
    PROVE  OpFollowsDisk'
<1> DEFINE Follows(d) ==
        /\ op[d].pc = "snapshot" /\ phase # "closed" =>
              op[d].cfg = [active |-> disk.active, upstreams |-> disk.upstreams,
                           listeners |-> {}, null |-> TRUE]
        /\ op[d].pc = "current" /\ phase # "closed" => op[d].cfg = Current(disk)
        /\ op[d].pc \in Mid \cup {"committed"} => WellFormed(op[d].cfg)
        /\ op[d].pc \in {"prepared", "saving"} =>
              /\ ~Refused(Current(disk), op[d].req)
              /\ op[d].cfg = Edited(Current(disk), op[d].req)
        /\ op[d].pc \in {"saved", "installed", "committed"} => disk = op[d].cfg
<1>1. CASE LoadConfig \/ StartListeners \/ OpenAdmin
  BY <1>1 DEF LoadConfig, StartListeners, OpenAdmin, OpFollowsDisk, Mutex, Mid
<1>2. CASE Exit
  BY <1>2 DEF Exit, OpFollowsDisk, IdleOp, Mid
<1>3. CASE Signal \/ CloseManager
  BY <1>3 DEF Signal, CloseManager, OpFollowsDisk
<1>4. ASSUME NEW c \in Clients, HandlerStep(c)
      PROVE  OpFollowsDisk'
  <2>1. \A d \in Clients \ {c} : Follows(d)'
    BY <1>4, StepOf DEF IdleOp, Mid
  <2>2. phase' = phase /\ phase \in {"up", "stopping", "closed"}
    BY <1>4, StepOf
  <2>3. Follows(c)
    BY DEF OpFollowsDisk
  <2>4. ASSUME NEW req \in Requests, Lock(c, req)
        PROVE  Follows(c)'
    <3>1. \A d \in Clients : op[d].pc \in BeforeSave
      BY <2>4, OthersIdle DEF Lock, BeforeSave, IdleOp
    <3>2. phase # "closed" => selector = [active |-> disk.active, upstreams |-> disk.upstreams]
      BY <2>2, <3>1 DEF RuntimeStepwise, RuntimeIs
    <3>3. disk' = disk
      BY <2>4 DEF Lock
    <3> QED BY <2>2, <2>4, <3>2, <3>3, LockOp DEF Mid
  <2>5. ASSUME ReadListeners(c)
        PROVE  Follows(c)'
    <3>1. disk' = disk
      BY <2>5 DEF ReadListeners
    <3> QED BY <2>2, <2>5, <3>1, ReadOp, ReadIsCurrent DEF Mid
  <2>6. ASSUME Prepare(c)
        PROVE  Follows(c)'
    <3>1. disk' = disk
      BY <2>6 DEF Prepare
    <3> QED BY <2>2, <2>6, <3>1, PrepareOp, DesiredOK DEF Mid
  <2>7. ASSUME BeginSave(c) \/ Install(c)
        PROVE  Follows(c)'
    <3>1. disk' = disk
      BY <2>7 DEF BeginSave, Install
    <3> QED BY <2>2, <2>3, <2>7, <3>1, AdvanceOp DEF Mid
  <2>8. ASSUME SaveCompletes(c)
        PROVE  Follows(c)'
    <3>1. disk' = op[c].cfg
      BY <2>8 DEF SaveCompletes
    <3> QED BY <2>2, <2>3, <2>8, <3>1, AdvanceOp DEF Mid
  <2>9. ASSUME Commit(c)
        PROVE  Follows(c)'
    <3>1. disk' = disk /\ op[c].pc = "installed"
      BY <2>9 DEF Commit
    <3> QED BY <2>2, <2>3, <2>9, <3>1, CommitOp DEF Mid
  <2>10. ASSUME SaveFails(c) \/ Leave(c)
         PROVE  Follows(c)'
    BY <2>10, EndOp DEF IdleOp, Mid
  <2>11. Follows(c)'
    BY <1>4, <2>4, <2>5, <2>6, <2>7, <2>8, <2>9, <2>10 DEF HandlerStep
  <2> QED BY <2>1, <2>11 DEF OpFollowsDisk
<1>5. ASSUME NEW a \in ForeignAddrs, Occupy(a) \/ Release(a)
      PROVE  OpFollowsDisk'
  BY <1>5 DEF Occupy, Release, OpFollowsDisk
<1> QED BY <1>1, <1>2, <1>3, <1>4, <1>5, NextCases

(* Selector and manager go on holding what the file holds.                 *)
LEMMA RuntimeStep ==
    ASSUME TypeOK, Mutex, OpFollowsDisk, RuntimeStepwise, SelectorInstalled, Next
    PROVE  RuntimeStepwise'
<1>1. CASE LoadConfig \/ CloseManager \/ Exit
  BY <1>1 DEF LoadConfig, CloseManager, Exit, RuntimeStepwise
<1>2. CASE StartListeners
  BY <1>2 DEF StartListeners, RuntimeStepwise, RuntimeIs
<1>3. CASE OpenAdmin \/ Signal
  BY <1>3 DEF OpenAdmin, Signal, RuntimeStepwise, RuntimeIs, manager
<1>4. ASSUME NEW c \in Clients, HandlerStep(c)
      PROVE  RuntimeStepwise'
  <2>1. phase' = phase /\ phase \in {"up", "stopping", "closed"}
    BY <1>4, StepOf
  <2>2. \A d \in Clients \ {c} : op[d].pc \in BeforeSave
    BY <1>4, StepOf DEF IdleOp, BeforeSave
  <2>3. CASE \E req \in Requests : Lock(c, req)
    BY <2>1, <2>2, <2>3 DEF Lock, RuntimeStepwise, RuntimeIs, manager, BeforeSave
  <2>4. CASE ReadListeners(c) \/ Prepare(c) \/ BeginSave(c) \/ SaveFails(c) \/ Leave(c)
    <3>1. op[c].pc \in BeforeSave \cup {"committed"} /\ disk' = disk
          /\ selector' = selector /\ configs' = configs /\ running' = running
      BY <2>4 DEF ReadListeners, Prepare, BeginSave, SaveFails, Leave, BeforeSave, manager
    <3> QED BY <2>1, <2>2, <3>1 DEF RuntimeStepwise, RuntimeIs
  <2>5. CASE SaveCompletes(c) \/ Install(c)
    <3>1. op'[c].pc \in {"saved", "installed"} /\ configs' = configs /\ running' = running
      BY <2>5, AdvanceOp DEF SaveCompletes, Install, manager
    <3> QED BY <2>1, <3>1 DEF RuntimeStepwise, BeforeSave
  <2>6. CASE Commit(c)
    <3>1. op[c].pc = "installed" /\ disk' = disk /\ selector' = selector
          /\ configs' = op[c].cfg.listeners /\ running' = Enabled(op[c].cfg.listeners)
      BY <2>6 DEF Commit, Entries
    <3>2. disk = op[c].cfg
      BY <3>1 DEF OpFollowsDisk
    <3>3. selector = [active |-> op[c].cfg.active, upstreams |-> op[c].cfg.upstreams]
      BY <3>1 DEF SelectorInstalled
    <3> QED BY <3>1, <3>2, <3>3 DEF RuntimeStepwise, RuntimeIs
  <2> QED BY <1>4, <2>3, <2>4, <2>5, <2>6 DEF HandlerStep
<1>5. ASSUME NEW a \in ForeignAddrs, Occupy(a) \/ Release(a)
      PROVE  RuntimeStepwise'
  BY <1>5 DEF Occupy, Release, RuntimeStepwise, RuntimeIs, manager
<1> QED BY <1>1, <1>2, <1>3, <1>4, <1>5, NextCases

----------------------------------------------------------------------------

(* Until Commit the old routes resolve in the configuration to come, too.  *)
LEMMA RoutesStep ==
    ASSUME TypeOK, Mutex, DiskWellFormed, OpFollowsDisk, RuntimeStepwise,
           RoutesWillResolve, Next
    PROVE  RoutesWillResolve'
<1>1. CASE LoadConfig \/ StartListeners \/ OpenAdmin
  BY <1>1 DEF LoadConfig, StartListeners, OpenAdmin, Mutex, RoutesWillResolve, Mid
<1>2. CASE Signal \/ CloseManager
  BY <1>2 DEF Signal, CloseManager, manager, RoutesWillResolve
<1>3. CASE Exit
  BY <1>3 DEF Exit, IdleOp, RoutesWillResolve, Mid
<1>4. ASSUME NEW c \in Clients, HandlerStep(c)
      PROVE  RoutesWillResolve'
  <2> DEFINE Resolve(d) == op[d].pc \in Mid =>
                \A r \in running : r.upstream \in Ids(op[d].cfg.upstreams) \cup {None}
  <2>1. \A d \in Clients \ {c} : Resolve(d)'
    BY <1>4, StepOf DEF IdleOp, Mid
  <2>2. ASSUME Prepare(c)
        PROVE  Resolve(c)'
    <3>1. phase \in {"up", "stopping"} /\ running' = running /\ op[c].pc = "current"
      BY <2>2 DEF Prepare, Mutex, TypeOK, Phases
    <3>2. \A d \in Clients : op[d].pc \in BeforeSave
      BY <3>1, OthersIdle DEF BeforeSave, IdleOp
    <3>3. disk \in ConfigRecord
      BY <3>1 DEF DiskWellFormed, WellFormed
    <3>4. running \subseteq Current(disk).listeners
      BY <3>1, <3>2, <3>3 DEF RuntimeStepwise, RuntimeIs, Enabled, Current, ConfigRecord
    <3>5. \A r \in running : r.upstream \in Ids(Desired(c).upstreams) \cup {None}
      BY <2>2, <3>4, DesiredOK, EditedKeepsRoutes
    <3> QED BY <2>2, <3>1, <3>5, PrepareOp
  <2>3. ASSUME BeginSave(c) \/ SaveCompletes(c) \/ Install(c)
        PROVE  Resolve(c)'
    <3>1. running' = running /\ op[c].pc \in Mid /\ op'[c].cfg = op[c].cfg
      BY <2>3, AdvanceOp DEF BeginSave, SaveCompletes, Install, manager, Mid
    <3> QED BY <3>1 DEF RoutesWillResolve
  <2>4. ~Prepare(c) /\ ~BeginSave(c) /\ ~SaveCompletes(c) /\ ~Install(c) => op'[c].pc \notin Mid
    BY <1>4, StepInto DEF Mid
  <2> QED BY <2>1, <2>2, <2>3, <2>4 DEF RoutesWillResolve
<1>5. ASSUME NEW a \in ForeignAddrs, Occupy(a) \/ Release(a)
      PROVE  RoutesWillResolve'
  BY <1>5 DEF Occupy, Release, manager, RoutesWillResolve
<1> QED BY <1>1, <1>2, <1>3, <1>4, <1>5, NextCases

(* The selector holds what was last installed.                             *)
LEMMA SelectorStep ==
    ASSUME TypeOK, Mutex, SelectorInstalled, Next
    PROVE  SelectorInstalled'
<1>1. CASE LoadConfig \/ StartListeners \/ OpenAdmin
  BY <1>1 DEF LoadConfig, StartListeners, OpenAdmin, Mutex, SelectorInstalled
<1>2. CASE Signal \/ CloseManager
  BY <1>2 DEF Signal, CloseManager, SelectorInstalled
<1>3. CASE Exit
  BY <1>3 DEF Exit, IdleOp, SelectorInstalled
<1>4. ASSUME NEW c \in Clients, HandlerStep(c)
      PROVE  SelectorInstalled'
  <2>1. \A d \in Clients \ {c} : op'[d].pc # "installed"
    BY <1>4, StepOf DEF IdleOp
  <2>2. Install(c) => selector' = [active |-> op'[c].cfg.active, upstreams |-> op'[c].cfg.upstreams]
    BY AdvanceOp DEF Install
  <2>3. ~Install(c) => op'[c].pc # "installed"
    BY <1>4, StepInto
  <2> QED BY <2>1, <2>2, <2>3 DEF SelectorInstalled
<1>5. ASSUME NEW a \in ForeignAddrs, Occupy(a) \/ Release(a)
      PROVE  SelectorInstalled'
  BY <1>5 DEF Occupy, Release, SelectorInstalled
<1> QED BY <1>1, <1>2, <1>3, <1>4, <1>5, NextCases

(* A valid configuration's routes and active upstream are in it.           *)
LEMMA ValidRoutes ==
    ASSUME NEW cfg, Validate(cfg)
    PROVE  /\ cfg.active \in Ids(cfg.upstreams) \cup {None}
           /\ \A r \in Enabled(cfg.listeners) : r.upstream \in Ids(cfg.upstreams) \cup {None}
BY DEF Validate, ValidListener, Enabled

(* Routes go on naming upstreams that the selector has.                    *)
LEMMA ResolveStep ==
    ASSUME TypeOK, Mutex, DiskWellFormed, OpFollowsDisk, RoutesResolve,
           RoutesWillResolve, SelectorInstalled, Next
    PROVE  RoutesResolve'
<1> USE DEF RoutesResolve
<1>1. CASE StartListeners
  <2>1. Validate(disk)
    BY <1>1 DEF StartListeners, DiskWellFormed, WellFormed
  <2> QED BY <1>1, <2>1, ValidRoutes DEF StartListeners
<1>2. CASE LoadConfig \/ OpenAdmin \/ Signal \/ CloseManager
  BY <1>2 DEF LoadConfig, OpenAdmin, Signal, CloseManager, manager
<1>3. CASE Exit
  BY <1>3 DEF Exit, NoUpstreams
<1>4. ASSUME NEW c \in Clients, Install(c)
      PROVE  RoutesResolve'
  <2>1. Validate(op[c].cfg)
    BY <1>4 DEF Install, OpFollowsDisk, WellFormed, Mid
  <2>2. \A r \in running : r.upstream \in Ids(op[c].cfg.upstreams) \cup {None}
    BY <1>4 DEF Install, RoutesWillResolve, Mid
  <2> QED BY <1>4, <2>1, <2>2, ValidRoutes DEF Install, manager
<1>5. ASSUME NEW c \in Clients, Commit(c)
      PROVE  RoutesResolve'
  <2>1. Validate(op[c].cfg)
    BY <1>5 DEF Commit, OpFollowsDisk, WellFormed, Mid
  <2>2. selector = [active |-> op[c].cfg.active, upstreams |-> op[c].cfg.upstreams]
    BY <1>5 DEF Commit, SelectorInstalled
  <2> QED BY <1>5, <2>1, <2>2, ValidRoutes DEF Commit, Entries
<1>6. ASSUME NEW c \in Clients, HandlerStep(c), ~Install(c), ~Commit(c)
      PROVE  RoutesResolve'
  <2>1. selector' = selector /\ running' = running
    BY <1>6 DEF HandlerStep, Lock, ReadListeners, Prepare, BeginSave, SaveFails,
                SaveCompletes, Leave, manager
  <2> QED BY <2>1
<1>7. ASSUME NEW a \in ForeignAddrs, Occupy(a) \/ Release(a)
      PROVE  RoutesResolve'
  BY <1>7 DEF Occupy, Release, manager
<1> QED BY <1>1, <1>2, <1>3, <1>4, <1>5, <1>6, <1>7, NextCases

----------------------------------------------------------------------------
(* Requests that are sent again; what a mutation and a start leave alone.  *)

(* loadConfig keeps the upstreams, and listeners that are not null.        *)
LEMMA ProvisionedKeeps ==
    ASSUME NEW file \in ConfigRecord
    PROVE  /\ Provisioned(file) \in ConfigRecord
           /\ Provisioned(file).active = file.active
           /\ Provisioned(file).upstreams = file.upstreams
           /\ ~file.null => Provisioned(file) = file
<1>1. file # NoFile
  BY StartAssumption
<1>2. CASE ~file.null
  BY <1>1, <1>2 DEF Provisioned
<1>3. CASE file.null
  <2> DEFINE ls == {[l EXCEPT !.upstream = IF @ = None THEN file.active ELSE @] :
                      l \in DefaultListeners}
  <2>1. Provisioned(file) = [file EXCEPT !.null = FALSE, !.listeners = ls]
    BY <1>1, <1>3 DEF Provisioned
  <2>2. file.active \in UpstreamIds \cup {None}
    BY DEF ConfigRecord
  <2>3. ls \in SUBSET Listener
    BY <2>2, StartAssumption DEF Listener
  <2> HIDE DEF ls
  <2> QED BY <1>3, <2>1, <2>3 DEF ConfigRecord
<1> QED BY <1>2, <1>3

(* A mutation that is prepared would find nothing to do after itself.      *)
LEMMA RetryPrepared ==
    ASSUME TypeOK, Mutex, DiskWellFormed, OpFollowsDisk,
           NEW c \in Clients, Prepare(c),
           NEW cfg \in {Desired(c), Provisioned(Desired(c))}
    PROVE  Repeated(Current(cfg), op[c].req)
<1>1. /\ WellFormed(Desired(c))
      /\ op[c].req \in Request
      /\ Current(disk) \in ConfigRecord
      /\ ~Refused(Current(disk), op[c].req)
      /\ Desired(c) = Edited(Current(disk), op[c].req)
  BY DesiredOK
<1>2. disk \in ConfigRecord
  BY DEF Prepare, Mutex, DiskWellFormed, WellFormed
<1>3. Current(disk).null => Current(disk).listeners = {}
  BY <1>2 DEF Current, ConfigRecord
<1>4. Desired(c) \in ConfigRecord /\ Validate(Desired(c))
  BY <1>1 DEF WellFormed
<1>5. /\ cfg \in ConfigRecord
      /\ cfg.active = Desired(c).active /\ cfg.upstreams = Desired(c).upstreams
      /\ ~Desired(c).null => cfg.listeners = Desired(c).listeners
  BY <1>4, ProvisionedKeeps
<1> QED BY <1>1, <1>3, <1>4, <1>5, EditedRepeats

(* And goes on to find nothing to do, as it saves what it has prepared.    *)
LEMMA RetryStep ==
    ASSUME TypeOK, Mutex, DiskWellFormed, OpFollowsDisk, RetrySettled, Next
    PROVE  RetrySettled'
<1> DEFINE Settled(d) == op[d].pc \in Mid \cup {"committed"} =>
             \A cfg \in {op[d].cfg, Provisioned(op[d].cfg)} : Repeated(Current(cfg), op[d].req)
<1>1. CASE LoadConfig \/ StartListeners \/ OpenAdmin \/ Signal \/ CloseManager
  BY <1>1 DEF LoadConfig, StartListeners, OpenAdmin, Signal, CloseManager, RetrySettled
<1>2. CASE Exit
  BY <1>2 DEF Exit, IdleOp, RetrySettled, Mid
<1>3. ASSUME NEW c \in Clients, HandlerStep(c)
      PROVE  RetrySettled'
  <2>1. \A d \in Clients \ {c} : Settled(d)'
    BY <1>3, StepOf DEF IdleOp, Mid
  <2>2. ASSUME Prepare(c)
        PROVE  Settled(c)'
    <3>1. op'[c].cfg = Desired(c) /\ op'[c].req = op[c].req
      BY <2>2, PrepareOp
    <3> QED BY <2>2, <3>1, RetryPrepared
  <2>3. ASSUME BeginSave(c) \/ SaveCompletes(c) \/ Install(c) \/ Commit(c)
        PROVE  Settled(c)'
    <3>1. /\ op[c].pc \in Mid
          /\ op'[c].cfg = op[c].cfg /\ op'[c].req = op[c].req
      BY <2>3, AdvanceOp, CommitOp DEF BeginSave, SaveCompletes, Install, Commit, Mid
    <3> QED BY <3>1 DEF RetrySettled
  <2>4. ASSUME (\E req \in Requests : Lock(c, req)) \/ ReadListeners(c) \/ SaveFails(c) \/ Leave(c)
        PROVE  Settled(c)'
    <3>1. ASSUME NEW req \in Requests, Lock(c, req)
          PROVE  op'[c].pc = "snapshot"
      BY <3>1, LockOp
    <3>2. ReadListeners(c) => op'[c].pc = "current"
      BY ReadOp
    <3>3. SaveFails(c) \/ Leave(c) => op'[c].pc = "idle"
      BY EndOp DEF IdleOp
    <3> QED BY <2>4, <3>1, <3>2, <3>3 DEF Mid
  <2>5. Settled(c)'
    BY <1>3, <2>2, <2>3, <2>4 DEF HandlerStep
  <2> QED BY <2>1, <2>5 DEF RetrySettled
<1>4. ASSUME NEW a \in ForeignAddrs, Occupy(a) \/ Release(a)
      PROVE  RetrySettled'
  BY <1>4 DEF Occupy, Release, RetrySettled
<1> QED BY <1>1, <1>2, <1>3, <1>4, NextCases

(* A mutation leaves alone the upstreams or the listeners it has read.     *)
LEMMA OneSideStep ==
    ASSUME TypeOK, Mutex, DiskWellFormed, OpFollowsDisk, RuntimeStepwise, EditsOneSide, Next
    PROVE  EditsOneSide'
<1> DEFINE OneSide(d) == phase # "closed" /\ op[d].pc \in {"prepared", "saving", "saved"} =>
             \/ op[d].cfg.listeners = configs
             \/ selector = [active |-> op[d].cfg.active, upstreams |-> op[d].cfg.upstreams]
<1>1. CASE LoadConfig \/ StartListeners \/ OpenAdmin
  BY <1>1 DEF LoadConfig, StartListeners, OpenAdmin, Mutex, EditsOneSide
<1>2. CASE Signal \/ CloseManager
  BY <1>2 DEF Signal, CloseManager, manager, EditsOneSide
<1>3. CASE Exit
  BY <1>3 DEF Exit, IdleOp, EditsOneSide
<1>4. ASSUME NEW c \in Clients, HandlerStep(c)
      PROVE  EditsOneSide'
  <2>1. \A d \in Clients \ {c} : OneSide(d)'
    BY <1>4, StepOf DEF IdleOp
  <2>2. ASSUME Prepare(c)
        PROVE  OneSide(c)'
    <3>1. /\ phase \in {"up", "stopping"} /\ op[c].pc = "current"
          /\ selector' = selector /\ configs' = configs
      BY <2>2 DEF Prepare, Mutex, TypeOK, Phases
    <3>2. \A d \in Clients : op[d].pc \in BeforeSave
      BY <3>1, OthersIdle DEF BeforeSave, IdleOp
    <3>3. RuntimeIs(disk) /\ disk \in ConfigRecord
      BY <3>1, <3>2 DEF RuntimeStepwise, DiskWellFormed, WellFormed
    <3>4. /\ Current(disk).active = disk.active /\ Current(disk).upstreams = disk.upstreams
          /\ Current(disk).listeners = disk.listeners
      BY <3>3 DEF Current, ConfigRecord
    <3>5. /\ op[c].req \in Request /\ Current(disk) \in ConfigRecord
          /\ Desired(c) = Edited(Current(disk), op[c].req)
      BY <2>2, DesiredOK
    <3>6. \/ Desired(c).listeners = disk.listeners
          \/ Desired(c).active = disk.active /\ Desired(c).upstreams = disk.upstreams
      BY <3>4, <3>5, EditedOneSide
    <3>7. op'[c].cfg = Desired(c)
      BY <2>2, PrepareOp
    <3> QED BY <3>1, <3>3, <3>6, <3>7 DEF RuntimeIs
  <2>3. ASSUME BeginSave(c) \/ SaveCompletes(c)
        PROVE  OneSide(c)'
    <3>1. /\ op[c].pc \in {"prepared", "saving"} /\ op'[c].cfg = op[c].cfg
          /\ phase' = phase /\ selector' = selector /\ configs' = configs
      BY <2>3, AdvanceOp DEF BeginSave, SaveCompletes, manager
    <3> QED BY <3>1 DEF EditsOneSide
  <2>4. ASSUME ~Prepare(c), ~BeginSave(c), ~SaveCompletes(c)
        PROVE  op'[c].pc \notin {"prepared", "saving", "saved"}
    BY <1>4, <2>4, StepInto
  <2> QED BY <2>1, <2>2, <2>3, <2>4 DEF EditsOneSide
<1>5. ASSUME NEW a \in ForeignAddrs, Occupy(a) \/ Release(a)
      PROVE  EditsOneSide'
  BY <1>5 DEF Occupy, Release, manager, EditsOneSide
<1> QED BY <1>1, <1>2, <1>3, <1>4, <1>5, NextCases

(* Until the admin socket is open nothing else is bound.                   *)
LEMMA StartBindsStep ==
    ASSUME TypeOK, Mutex, StartBinds, Next
    PROVE  StartBinds'
<1>1. CASE StartListeners
  BY <1>1 DEF StartListeners, StartBinds
<1>2. CASE LoadConfig \/ OpenAdmin \/ Signal \/ CloseManager \/ Exit
  BY <1>2 DEF LoadConfig, OpenAdmin, Signal, CloseManager, Exit, StartBinds
<1>3. ASSUME NEW c \in Clients, HandlerStep(c)
      PROVE  StartBinds'
  BY <1>3, StepOf DEF StartBinds
<1>4. ASSUME NEW a \in ForeignAddrs, Occupy(a) \/ Release(a)
      PROVE  StartBinds'
  BY <1>4 DEF Occupy, Release, manager, StartBinds
<1> QED BY <1>1, <1>2, <1>3, <1>4, NextCases

----------------------------------------------------------------------------
(* The invariant.                                                          *)

(* The invariant holds before the first start.                             *)
LEMMA InitInv ==
    ASSUME Init
    PROVE  Inv
<1> USE DEF Init
<1>1. \A c \in Clients : op[c] = IdleOp
  OBVIOUS
<1>2. TypeOK
  BY IdleType, StartAssumption DEF TypeOK, Phases, NoUpstreams
<1>3. Mutex /\ Fresh
  BY <1>1 DEF Mutex, Fresh, IdleOp
<1>4. DiskWellFormed /\ DiskRestartable
  BY StartAssumption DEF DiskWellFormed, DiskRestartable, WellFormed
<1>5. OpFollowsDisk /\ RuntimeStepwise /\ RoutesWillResolve /\ SelectorInstalled
  BY <1>1 DEF OpFollowsDisk, RuntimeStepwise, RoutesWillResolve, SelectorInstalled, IdleOp, Mid
<1>6. RoutesResolve
  BY DEF RoutesResolve, NoUpstreams
<1>7. SocketParts
  <2>1. \A c \in Clients : op[c].opened = {} /\ op[c].pc = "idle"
    BY <1>1 DEF IdleOp
  <2>2. UNION {Addrs(op[c].opened) : c \in Clients} = {}
    BY <2>1, OpenedByNone
  <2> QED BY <2>1, <2>2 DEF SocketParts, SocketsAccounted, RunningListenersAccept,
                            PreparedMatches, Addrs, Mid
<1>8. BoundApart /\ SavingRestartable
  BY <1>1 DEF BoundApart, SavingRestartable, IdleOp
<1>9. RetrySettled /\ EditsOneSide /\ StartBinds
  BY <1>1 DEF RetrySettled, EditsOneSide, StartBinds, IdleOp, Mid
<1> QED BY <1>2, <1>3, <1>4, <1>5, <1>6, <1>7, <1>8, <1>9 DEF Inv, SocketParts

(* Every step keeps the invariant.                                         *)
LEMMA NextInv ==
    ASSUME Inv, Next
    PROVE  Inv'
<1>1. /\ TypeOK /\ Mutex /\ Fresh /\ DiskWellFormed /\ OpFollowsDisk /\ RuntimeStepwise
      /\ RoutesResolve /\ RoutesWillResolve /\ SelectorInstalled /\ SocketParts
      /\ BoundApart /\ DiskRestartable /\ SavingRestartable
      /\ RetrySettled /\ EditsOneSide /\ StartBinds
  BY DEF Inv, SocketParts
<1>2. TypeOK' /\ Mutex' /\ Fresh'
  BY <1>1, TypeStep, MutexStep, FreshStep
<1>3. DiskWellFormed' /\ DiskRestartable'
  BY <1>1, DiskStep
<1>4. OpFollowsDisk' /\ RuntimeStepwise' /\ SelectorInstalled'
  BY <1>1, OpFollowsDiskStep, RuntimeStep, SelectorStep
<1>5. RoutesResolve' /\ RoutesWillResolve'
  BY <1>1, ResolveStep, RoutesStep
<1>6. SocketParts' /\ BoundApart'
  BY <1>1, SocketsStep, BoundStep
<1>7. SavingRestartable'
  BY <1>1, <1>6, SavingStep
<1>8. RetrySettled' /\ EditsOneSide' /\ StartBinds'
  BY <1>1, RetryStep, OneSideStep, StartBindsStep
<1> QED BY <1>2, <1>3, <1>4, <1>5, <1>6, <1>7, <1>8 DEF Inv, SocketParts

(* A step that changes nothing keeps the invariant.                        *)
LEMMA StutterInv ==
    ASSUME Inv, UNCHANGED vars
    PROVE  Inv'
<1> USE DEF Inv, vars, manager
<1>1. TypeOK' /\ Mutex' /\ Fresh'
  BY DEF TypeOK, Mutex, Fresh
<1>2. DiskWellFormed' /\ DiskRestartable' /\ OpFollowsDisk'
  BY DEF DiskWellFormed, DiskRestartable, OpFollowsDisk
<1>3. RuntimeStepwise' /\ SelectorInstalled'
  BY DEF RuntimeStepwise, RuntimeIs, SelectorInstalled
<1>4. RoutesResolve' /\ RoutesWillResolve'
  BY DEF RoutesResolve, RoutesWillResolve
<1>5. SocketsAccounted' /\ RunningListenersAccept'
  BY DEF SocketsAccounted, RunningListenersAccept
<1>6. PreparedMatches'
  BY DEF PreparedMatches, Reused, Opened
<1>7. BoundApart' /\ SavingRestartable'
  BY DEF BoundApart, SavingRestartable
<1>8. RetrySettled' /\ EditsOneSide' /\ StartBinds'
  BY DEF RetrySettled, EditsOneSide, StartBinds
<1> QED BY <1>1, <1>2, <1>3, <1>4, <1>5, <1>6, <1>7, <1>8

(* The invariant holds in every reachable state.                           *)
THEOREM Invariant == Spec => []Inv
<1>1. Init => Inv
  BY InitInv
<1>2. Inv /\ [Next]_vars => Inv'
  BY NextInv, StutterInv
<1> QED BY <1>1, <1>2, PTL DEF Spec

----------------------------------------------------------------------------
(* What it gives.                                                          *)

(* Types: the program never saves or runs a record outside its format,     *)
(* and never holds a socket on a malformed address (Validate in Load,      *)
(* Save and both Prepare functions).                                       *)
THEOREM TypeCorrect == Spec => []TypeOK
<1>1. Inv => TypeOK
  BY DEF Inv
<1> QED BY <1>1, Invariant, PTL

(* Selector and manager hold what the file holds, but between Save and     *)
(* Commit of the one mutation under way (persistAndInstall).               *)
THEOREM RuntimeFollows == Spec => []RuntimeFollowsDisk
<1>1. Inv => RuntimeFollowsDisk
  <2> SUFFICES ASSUME Inv, phase \in {"serving", "up", "stopping"},
                      mu # Nobody => op[mu].pc \in BeforeSave \cup {"committed"}
               PROVE  RuntimeIs(disk)
    BY DEF RuntimeFollowsDisk
  <2>1. TypeOK /\ Mutex /\ RuntimeStepwise
    BY DEF Inv
  <2>2. ASSUME NEW c \in Clients
        PROVE  op[c].pc \in BeforeSave \cup {"committed"}
    <3>1. CASE op[c].pc = "idle"
      BY <3>1 DEF BeforeSave
    <3>2. CASE op[c].pc # "idle"
      <4>1. mu = c /\ mu # Nobody
        BY <2>1, <3>2, ClientAssumption DEF Mutex
      <4> QED BY <4>1
    <3> QED BY <3>1, <3>2
  <2> QED BY <2>1, <2>2 DEF RuntimeStepwise
<1> QED BY <1>1, Invariant, PTL

(* A dial never finds its route without an upstream: neither in a settled  *)
(* configuration nor between Install and Commit.                           *)
THEOREM RoutesAlwaysResolve == Spec => []RoutesResolve
<1>1. Inv => RoutesResolve
  BY DEF Inv
<1> QED BY <1>1, Invariant, PTL

(* No socket is lost and none is shared; every enabled listener accepts    *)
(* (Prepare, Abort, Commit, Close).                                        *)
THEOREM SocketsSafe == Spec => [](SocketsAccounted /\ RunningListenersAccept)
<1>1. Inv => SocketsAccounted /\ RunningListenersAccept
  BY DEF Inv
<1> QED BY <1>1, Invariant, PTL

(* In particular a listener that is enabled never stops accepting, while   *)
(* mutations fail, move, add and remove others (Commit).                   *)
THEOREM ListenersAccept == Spec => []RunningListenersAccept
<1>1. Inv => RunningListenersAccept
  BY DEF Inv
<1> QED BY <1>1, Invariant, PTL

(* What is on the disk can be bound by the next start.                     *)
THEOREM AlwaysRestartable == Spec => []DiskRestartable
<1>1. Inv => DiskRestartable
  BY DEF Inv
<1> QED BY <1>1, Invariant, PTL

(* Sending back what GET shows loses no password (upsertUpstream).         *)
THEOREM SecretsKept == Spec => []EditKeepsSecrets
<1>1. Inv => EditKeepsSecrets
  BY EditWithoutPassword DEF Inv, DiskWellFormed, WellFormed, EditKeepsSecrets
<1> QED BY <1>1, Invariant, PTL

(* A request sent again after its change was saved, to this process or to  *)
(* the next, finds nothing to do (the handlers in mutations.go and         *)
(* listeners.go, and loadConfig).                                          *)
THEOREM RetriesHarmless == Spec => []RetryHarmless
<1>1. Inv => RetryHarmless
  <2> SUFFICES ASSUME Inv, NEW c \in Clients, op[c].pc \in {"saved", "installed", "committed"},
                      NEW cfg \in {disk, Provisioned(disk)}
               PROVE  Repeated(Current(cfg), op[c].req)
    BY DEF RetryHarmless
  <2>1. OpFollowsDisk /\ RetrySettled
    BY DEF Inv
  <2>2. disk = op[c].cfg
    BY <2>1 DEF OpFollowsDisk
  <2> QED BY <2>1, <2>2 DEF RetrySettled, Mid
<1> QED BY <1>1, Invariant, PTL

(* Nothing is routed by a configuration that is not on the disk            *)
(* (persistAndInstall: Save, then Install and Commit).                     *)
LEMMA SavedBeforeStep ==
    ASSUME Inv, Next
    PROVE  /\ selector' \notin {selector, NoUpstreams} =>
                 selector' = [active |-> disk.active, upstreams |-> disk.upstreams]
           /\ configs' \notin {configs, {}} =>
                 configs' = disk.listeners /\ running' = Enabled(disk.listeners)
<1>1. CASE StartListeners
  BY <1>1 DEF StartListeners
<1>2. CASE LoadConfig \/ OpenAdmin \/ Signal \/ CloseManager \/ Exit
  BY <1>2 DEF LoadConfig, OpenAdmin, Signal, CloseManager, Exit, manager
<1>3. ASSUME NEW c \in Clients, Install(c) \/ Commit(c)
      PROVE  /\ selector' # selector =>
                   selector' = [active |-> disk.active, upstreams |-> disk.upstreams]
             /\ configs' # configs =>
                   configs' = disk.listeners /\ running' = Enabled(disk.listeners)
  <2>1. op[c].pc \in {"saved", "installed"}
    BY <1>3 DEF Install, Commit
  <2>2. disk = op[c].cfg
    BY <2>1 DEF Inv, OpFollowsDisk
  <2> QED BY <1>3, <2>2 DEF Install, Commit, Entries, manager
<1>4. ASSUME NEW c \in Clients, HandlerStep(c), ~Install(c), ~Commit(c)
      PROVE  selector' = selector /\ configs' = configs
  BY <1>4 DEF HandlerStep, Lock, ReadListeners, Prepare, BeginSave, SaveFails, SaveCompletes,
              Leave, manager
<1>5. ASSUME NEW a \in ForeignAddrs, Occupy(a) \/ Release(a)
      PROVE  selector' = selector /\ configs' = configs
  BY <1>5 DEF Occupy, Release, manager
<1> QED BY <1>1, <1>2, <1>3, <1>4, <1>5, NextCases

(* What is in effect has been saved before: a crash takes nothing back     *)
(* that connections have been routed by.                                   *)
THEOREM SavedFirst == Spec => SavedBeforeUsed
<1>1. Inv /\ [Next]_vars =>
        [/\ selector' \notin {selector, NoUpstreams} =>
                 selector' = [active |-> disk.active, upstreams |-> disk.upstreams]
         /\ configs' \notin {configs, {}} =>
                 configs' = disk.listeners /\ running' = Enabled(disk.listeners)]_vars
  BY SavedBeforeStep
<1> QED BY <1>1, Invariant, PTL DEF Spec, SavedBeforeUsed

(* While no other program holds an address, whatever is on the disk can be *)
(* bound, and the admin address next to it (app.Run).                      *)
LEMMA StartFinds ==
    ASSUME Inv, foreign = {}
    PROVE  /\ phase = "binding" => Bindable(Addrs(Enabled(disk.listeners)))
           /\ phase = "serving" => Free(WebAddr)
<1> DEFINE addrs == Addrs(Enabled(disk.listeners))
<1>1. TypeOK /\ Fresh /\ DiskWellFormed /\ DiskRestartable /\ StartBinds
  BY DEF Inv
<1>2. ASSUME phase \in {"binding", "serving"}
      PROVE  /\ \A a \in addrs : a \in Addresses /\ ~Clashes(a, WebAddr)
             /\ \A a, b \in addrs : a # b => ~Clashes(a, b)
  <2>1. disk \in ConfigRecord /\ Validate(disk) /\ Restartable(disk.listeners)
    BY <1>1, <1>2 DEF DiskWellFormed, DiskRestartable, WellFormed
  <2>2. \A l \in Enabled(disk.listeners) : l.addr \in Addresses
    BY <2>1, ValidAddrs DEF Enabled
  <2>3. \A l, k \in Enabled(disk.listeners) : l.addr # k.addr => ~Clashes(l.addr, k.addr)
    BY <2>1 DEF Restartable
  <2> QED BY <2>1, <2>2, <2>3 DEF Restartable, Addrs
<1>3. ASSUME phase = "binding"
      PROVE  Bindable(addrs)
  <2>1. Held = {}
    BY <1>1, <1>3 DEF Held, Fresh
  <2> QED BY <1>2, <1>3, <2>1 DEF Bindable, Free
<1>4. ASSUME phase = "serving"
      PROVE  Free(WebAddr)
  <2>1. Held = addrs
    BY <1>1, <1>4 DEF Held, StartBinds
  <2>2. \A a \in addrs : ~Clashes(WebAddr, a)
    BY <1>2, <1>4, AddressAssumption DEF Clashes
  <2> QED BY <2>1, <2>2 DEF Free
<1> QED BY <1>3, <1>4

(* So a start fails only because of another program.                       *)
THEOREM OnlyOthersBlock == Spec => OnlyOthersBlockStart
<1>1. Inv => [StartFails => foreign # {}]_vars
  BY StartFinds DEF StartFails
<1> QED BY <1>1, Invariant, PTL DEF OnlyOthersBlockStart

=============================================================================
