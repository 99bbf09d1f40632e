-------------------------- MODULE ConfigStore_proofs --------------------------
(***************************************************************************)
(* The configuration store, for any configurations and temporary names: a  *)
(* start always finds a configuration it accepts, no temporary file is     *)
(* left behind, and Save implements the one-step Save of AtomicStore.      *)
(***************************************************************************)
EXTENDS ConfigStore, TLAPS

(* A store on which nothing has happened yet satisfies the invariant.      *)
LEMMA InitInv == Init => Inv
<1> SUFFICES ASSUME Init PROVE Inv
  OBVIOUS
<1> USE StoreAssumption DEF Init
<1>1. path \in Files /\ path.synced /\ path.data \in Valid \cup {NoFile}
  <2>1. ASSUME NEW cfg \in Valid \cup {NoFile}, path = [data |-> cfg, synced |-> TRUE]
        PROVE  path \in Files /\ path.synced /\ path.data \in Valid \cup {NoFile}
    BY <2>1 DEF Files
  <2>2. \E cfg \in Valid \cup {NoFile} : path = [data |-> cfg, synced |-> TRUE]
    BY DEF File, Absent
  <2> QED
    BY <2>1, <2>2
<1>2. save \in [pc : Steps, cfg : Configs \cup {NoFile}, temp : TempNames \cup {NoTemp}, error : BOOLEAN]
  BY DEF IdleSave, Steps
<1>3. temp \in Files
  BY DEF File, Files
<1>4. TypeOK
  BY <1>1, <1>2, <1>3 DEF TypeOK
<1>5. AlwaysLoads /\ NoTempLeft /\ TempHeld /\ OnlySynced
  BY <1>1 DEF AlwaysLoads, Loads, NoTempLeft, TempHeld, OnlySynced, IdleSave
<1> QED
  BY <1>4, <1>5 DEF Inv

(* A synced file survives a power loss as it is.                           *)
LEMMA SyncedSurvives ==
    ASSUME NEW file, file.synced
    PROVE  AfterLoss(file) = {file}
  BY DEF AfterLoss

(* The steps of Save that do not touch the path keep the invariant.        *)
LEMMA SaveInv ==
    ASSUME Inv,
           \/ \E cfg \in Configs : Call(cfg)
           \/ \E name \in TempNames : Create(name)
           \/ Refuse \/ Write \/ Sync \/ Close \/ Return \/ Fails \/ Remove \/ RemoveFails
    PROVE  Inv'
<1> USE StoreAssumption
    DEF Inv, TypeOK, AlwaysLoads, NoTempLeft, TempHeld, OnlySynced, Files, File, IdleSave, Steps, Loads
<1>1. ASSUME NEW cfg \in Configs, Call(cfg) PROVE Inv'
  BY <1>1 DEF Call
<1>2. ASSUME NEW name \in TempNames, Create(name) PROVE Inv'
  BY <1>2 DEF Create
<1>3. CASE Refuse
  BY <1>3 DEF Refuse
<1>4. CASE Write
  BY <1>4 DEF Write
<1>5. CASE Sync
  BY <1>5 DEF Sync
<1>6. CASE Close
  BY <1>6 DEF Close
<1>7. CASE Return
  BY <1>7 DEF Return
<1>8. CASE Fails
  BY <1>8 DEF Fails
<1>9. CASE Remove
  BY <1>9 DEF Remove
<1>10. CASE RemoveFails
  BY <1>10 DEF RemoveFails
<1> QED
  BY <1>1, <1>2, <1>3, <1>4, <1>5, <1>6, <1>7, <1>8, <1>9, <1>10

(* The rename puts a synced, valid configuration at the path.              *)
LEMMA RenameInv ==
    ASSUME Inv, Rename
    PROVE  Inv'
<1> USE StoreAssumption
    DEF Inv, TypeOK, AlwaysLoads, NoTempLeft, TempHeld, OnlySynced, Files, File, Steps, Loads
<1>1. temp.synced /\ temp.data \in Valid
  BY DEF Rename
<1>2. AfterLoss(temp) = {temp}
  BY <1>1, SyncedSurvives
<1> QED
  BY <1>1, <1>2 DEF Rename

(* So does whatever the host does.                                         *)
LEMMA HostInv ==
    ASSUME Inv, WriteDirectory \/ Kill \/ PowerLoss \/ \E name \in TempNames : Tidy(name)
    PROVE  Inv'
<1> USE StoreAssumption
    DEF Inv, TypeOK, AlwaysLoads, NoTempLeft, TempHeld, OnlySynced, Files, File, IdleSave, Steps, Loads
<1>1. CASE WriteDirectory
  <2>1. AfterLoss(path) = {path}
    BY SyncedSurvives
  <2> QED
    BY <1>1, <2>1 DEF WriteDirectory
<1>2. CASE Kill
  BY <1>2 DEF Kill, Stop
<1>3. CASE PowerLoss
  BY <1>3 DEF PowerLoss, Stop
<1>4. ASSUME NEW name \in TempNames, Tidy(name) PROVE Inv'
  BY <1>4 DEF Tidy
<1> QED
  BY <1>1, <1>2, <1>3, <1>4

(* A step that changes nothing keeps the invariant.                        *)
LEMMA StutterInv == Inv /\ UNCHANGED vars => Inv'
  BY DEF vars, Inv, TypeOK, AlwaysLoads, NoTempLeft, TempHeld, OnlySynced, Files, Loads

(* The invariant holds throughout.                                         *)
THEOREM Invariant == Spec => []Inv
<1>1. Inv /\ Next => Inv'
  BY SaveInv, RenameInv, HostInv DEF Next
<1> QED
  BY <1>1, InitInv, StutterInv, PTL DEF Spec

(* Every variable holds what its declaration says.                         *)
THEOREM TypeCorrect == Spec => []TypeOK
  BY Invariant, PTL DEF Inv

(* Load succeeds at every start, whatever step a kill or a power loss fell *)
(* into: what the path shows and what it may show after a power loss is a  *)
(* configuration Validate accepts, or no file.                             *)
THEOREM StoreAlwaysLoads == Spec => []AlwaysLoads
  BY Invariant, PTL DEF Inv

(* A Save that has returned has removed its temporary file, unless the     *)
(* removal failed.                                                         *)
THEOREM StoreLeavesNoTemp == Spec => []NoTempLeft
  BY Invariant, PTL DEF Inv

----------------------------------------------------------------------------

(* The first state of the store is one of AtomicStore.                     *)
LEMMA InitAtomic == Init => Atomic!Init
  BY StoreAssumption DEF Init, IdleSave, File, Absent, Atomic!Init, Atomic!Idle

(* Each step of Save is a step of the one-step Save, or none.              *)
LEMMA SaveAtomic ==
    ASSUME Inv,
           \/ \E cfg \in Configs : Call(cfg)
           \/ \E name \in TempNames : Create(name)
           \/ Refuse \/ Write \/ Sync \/ Close \/ Return \/ Fails \/ Remove \/ RemoveFails
    PROVE  [Atomic!Next]_(Atomic!vars)
<1> USE DEF Inv, TypeOK, Atomic!vars, Atomic!Next, IdleSave
<1>1. ASSUME NEW cfg \in Configs, Call(cfg) PROVE Atomic!Begin(cfg)
  BY <1>1 DEF Call, Atomic!Begin
<1>2. ASSUME Refuse \/ Remove \/ RemoveFails PROVE Atomic!Fail
  <2>1. /\ save.pc \notin {"idle", "renamed"}
        /\ save' = [pc |-> "idle", cfg |-> NoFile, temp |-> NoTemp, error |-> TRUE]
        /\ path' = path /\ durable' = durable
    BY <1>2 DEF Refuse, Remove, RemoveFails
  <2> QED
    BY <2>1 DEF Atomic!Fail
<1>3. CASE Return
  BY <1>3 DEF Return, Atomic!Return, Atomic!Idle
<1>4. CASE Write \/ Sync \/ Close \/ Fails \/ \E name \in TempNames : Create(name)
  BY <1>4 DEF Write, Sync, Close, Fails, Create
<1> QED
  BY <1>1, <1>2, <1>3, <1>4

(* The rename is the instant at which the file is replaced.                *)
LEMMA RenameAtomic ==
    ASSUME Inv, Rename
    PROVE  Atomic!Replace
<1> USE DEF Inv, TypeOK, TempHeld
<1>1. temp.synced /\ temp.data = save.cfg /\ save.cfg \in Valid
  BY DEF Rename
<1>2. durable' = durable \cup {temp}
  BY <1>1, SyncedSurvives DEF Rename
<1> QED
  BY <1>1, <1>2 DEF Rename, Atomic!Replace

(* Kills and power losses are those of AtomicStore; the directory is       *)
(* written there too.                                                      *)
LEMMA HostAtomic ==
    ASSUME Inv, WriteDirectory \/ Kill \/ PowerLoss \/ \E name \in TempNames : Tidy(name)
    PROVE  [Atomic!Next]_(Atomic!vars)
<1> USE DEF Inv, OnlySynced, Atomic!Next, Atomic!vars, IdleSave
<1>1. CASE WriteDirectory
  <2>1. AfterLoss(path) = {path}
    BY SyncedSurvives
  <2> QED
    BY <1>1, <2>1 DEF WriteDirectory, Atomic!Written
<1>2. CASE Kill
  BY <1>2 DEF Kill, Stop, Atomic!Kill, Atomic!Idle
<1>3. CASE PowerLoss
  BY <1>3 DEF PowerLoss, Stop, Atomic!PowerLoss, Atomic!Idle
<1>4. CASE \E name \in TempNames : Tidy(name)
  BY <1>4 DEF Tidy
<1> QED
  BY <1>1, <1>2, <1>3, <1>4

(* Save with its temporary file, failures, kills and power losses          *)
(* implements the Save that replaces the file in one step or not at all.   *)
THEOREM StoreImplementsAtomic == Spec => ImplementsAtomicStore
<1>1. Inv /\ [Next]_vars => [Atomic!Next]_(Atomic!vars)
  <2>1. Inv /\ Next => [Atomic!Next]_(Atomic!vars)
    BY SaveAtomic, RenameAtomic, HostAtomic DEF Next, Atomic!Next
  <2>2. UNCHANGED vars => UNCHANGED Atomic!vars
    BY DEF vars, Atomic!vars
  <2> QED
    BY <2>1, <2>2
<1> QED
  BY <1>1, InitAtomic, Invariant, PTL DEF Spec, ImplementsAtomicStore, Atomic!Spec

=============================================================================
