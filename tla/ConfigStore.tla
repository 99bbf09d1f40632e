----------------------------- MODULE ConfigStore -----------------------------
(***************************************************************************)
(* The configuration store (internal/config/config.go, Load and Save) on a *)
(* file system: Save writes a temporary file, syncs it and renames it over *)
(* the path.  Each step may fail, the process may be killed between any    *)
(* two of them, the host may lose power.                                   *)
(*                                                                         *)
(* The file system (external).  A file's contents survive a power loss     *)
(* once they have been synced, otherwise only part of them may.  A rename  *)
(* is atomic, and survives once the directory has been written, which the  *)
(* file system does when it likes: Save does not sync the directory.       *)
(*                                                                         *)
(* Simplifications.                                                        *)
(*  - Creating the directory and the temporary file, and its mode, are one *)
(*    step; so are a failure and the closing of the file that follows it.  *)
(*  - Saves do not overlap: the handlers hold h.mu, a start is alone.      *)
(*  - A power loss may also undo the creation or removal of a temporary    *)
(*    file.  Nothing reads one, so this is left out.                       *)
(***************************************************************************)
EXTENDS FiniteSets

CONSTANTS
    Configs,      \* configurations Save is called with
    Valid,        \* those that Validate accepts
    Torn,         \* the contents of a file of which only a part was written
    NoFile,
    TempNames,    \* names of temporary files: bounds how many there can be
    NoTemp

ASSUME StoreAssumption ==
    /\ Valid \subseteq Configs
    /\ Torn \notin Configs
    /\ NoFile \notin Configs \cup {Torn}
    /\ NoTemp \notin TempNames

VARIABLES
    path,        \* the file at Store.path
    durable,     \* the files it may be after a power loss
    save,        \* the Save under way: where it is, its configuration,
                 \*   its temporary file, whether the last one failed
    temp,        \* the temporary file Save has open or is about to rename
    temps,       \* names of temporary files in the directory
    abandoned    \* history: those a kill, or a failing Remove, has left there

vars == <<path, durable, save, temp, temps, abandoned>>

----------------------------------------------------------------------------

File(data, synced) == [data |-> data, synced |-> synced]

Absent == File(NoFile, TRUE)

(* What a power loss may make of a file.                                   *)
AfterLoss(file) == IF file.synced THEN {file} ELSE {file, File(Torn, TRUE)}

Steps == {"idle", "called", "created", "written", "synced", "closed", "renamed", "failing"}

IdleSave(error) == [pc |-> "idle", cfg |-> NoFile, temp |-> NoTemp, error |-> error]

(* Load: the configuration a start finds.  An absent file is no error for  *)
(* loadConfig, everything else that is not a valid configuration is.       *)
Loads(file) == file.data \in Valid \cup {NoFile}

----------------------------------------------------------------------------
(* Save.                                                                   *)

Call(cfg) ==
    /\ save.pc = "idle"
    /\ save' = [pc |-> "called", cfg |-> cfg, temp |-> NoTemp, error |-> FALSE]
    /\ UNCHANGED <<path, durable, temp, temps, abandoned>>

\* Variant: a configuration is written without being validated.
CreateUnchecked(name) ==
    /\ save.pc = "called"
    /\ name \notin temps
    /\ save' = [save EXCEPT !.pc = "created", !.temp = name]
    /\ temp' = File(Torn, FALSE)
    /\ temps' = temps \cup {name}
    /\ UNCHANGED <<path, durable, abandoned>>

(* Validate, encode, CreateTemp under a name that is new, Chmod.           *)
Create(name) ==
    /\ save.pc = "called"
    /\ save.cfg \in Valid
    /\ name \notin temps
    /\ save' = [save EXCEPT !.pc = "created", !.temp = name]
    /\ temp' = File(Torn, FALSE)
    /\ temps' = temps \cup {name}
    /\ UNCHANGED <<path, durable, abandoned>>

(* The context is cancelled, the configuration is invalid, or there is no  *)
(* temporary file.                                                         *)
Refuse ==
    /\ save.pc = "called"
    /\ save' = IdleSave(TRUE)
    /\ UNCHANGED <<path, durable, temp, temps, abandoned>>

Write ==
    /\ save.pc = "created"
    /\ temp' = File(save.cfg, FALSE)
    /\ save' = [save EXCEPT !.pc = "written"]
    /\ UNCHANGED <<path, durable, temps, abandoned>>

\* Variant: the file is not synced.
SkipSync ==
    /\ save.pc = "written"
    /\ save' = [save EXCEPT !.pc = "synced"]
    /\ UNCHANGED <<path, durable, temp, temps, abandoned>>

Sync ==
    /\ save.pc = "written"
    /\ temp' = [temp EXCEPT !.synced = TRUE]
    /\ save' = [save EXCEPT !.pc = "synced"]
    /\ UNCHANGED <<path, durable, temps, abandoned>>

Close ==
    /\ save.pc = "synced"
    /\ save' = [save EXCEPT !.pc = "closed"]
    /\ UNCHANGED <<path, durable, temp, temps, abandoned>>

Rename ==
    /\ save.pc = "closed"
    /\ path' = temp
    /\ durable' = durable \cup AfterLoss(temp)
    /\ temps' = temps \ {save.temp}
    /\ save' = [save EXCEPT !.pc = "renamed"]
    /\ UNCHANGED <<temp, abandoned>>

Return ==
    /\ save.pc = "renamed"
    /\ save' = IdleSave(FALSE)
    /\ UNCHANGED <<path, durable, temp, temps, abandoned>>

\* Variant: one more step can fail, after the rename (say, syncing the
\* directory), and its error is returned.
FailsLate ==
    /\ save.pc \in {"created", "written", "synced", "closed", "renamed"}
    /\ save' = [save EXCEPT !.pc = "failing"]
    /\ UNCHANGED <<path, durable, temp, temps, abandoned>>

\* Variant: the file is only closed, not removed.
FailsAtOnce ==
    /\ save.pc \in {"created", "written", "synced", "closed"}
    /\ save' = IdleSave(TRUE)
    /\ UNCHANGED <<path, durable, temp, temps, abandoned>>

(* Write (half of the data may be in the file), Sync, Close or Rename      *)
(* fails: the deferred function closes the file ...                        *)
Fails ==
    /\ save.pc \in {"created", "written", "synced", "closed"}
    /\ save' = [save EXCEPT !.pc = "failing"]
    /\ UNCHANGED <<path, durable, temp, temps, abandoned>>

(* ... and removes it,                                                     *)
Remove ==
    /\ save.pc = "failing"
    /\ temps' = temps \ {save.temp}
    /\ save' = IdleSave(TRUE)
    /\ UNCHANGED <<path, durable, temp, abandoned>>

(* or reports that it cannot.                                              *)
RemoveFails ==
    /\ save.pc = "failing"
    /\ abandoned' = abandoned \cup {save.temp}
    /\ save' = IdleSave(TRUE)
    /\ UNCHANGED <<path, durable, temp, temps>>

----------------------------------------------------------------------------
(* The host.                                                               *)

(* The file system writes the directory.                                   *)
WriteDirectory ==
    /\ durable' = AfterLoss(path)
    /\ UNCHANGED <<path, save, temp, temps, abandoned>>

(* The process ends, whatever it was doing.                                *)
Stop ==
    /\ save' = IdleSave(FALSE)
    /\ abandoned' = temps
    /\ UNCHANGED <<temp, temps>>

Kill ==
    /\ Stop
    /\ UNCHANGED <<path, durable>>

PowerLoss ==
    /\ Stop
    /\ path' \in durable
    /\ durable' = {path'}

(* The administrator tidies up.                                            *)
Tidy(name) ==
    /\ name \in abandoned
    /\ temps' = temps \ {name}
    /\ abandoned' = abandoned \ {name}
    /\ UNCHANGED <<path, durable, save, temp>>

----------------------------------------------------------------------------

Init ==
    /\ path \in {File(cfg, TRUE) : cfg \in Valid} \cup {Absent}
    /\ durable = {path}
    /\ save = IdleSave(FALSE)
    /\ temp = File(Torn, FALSE)
    /\ temps = {}
    /\ abandoned = {}

Next ==
    \/ \E cfg \in Configs : Call(cfg)
    \/ \E name \in TempNames : Create(name) \/ Tidy(name)
    \/ Refuse \/ Write \/ Sync \/ Close \/ Rename \/ Return
    \/ Fails \/ Remove \/ RemoveFails
    \/ WriteDirectory \/ Kill \/ PowerLoss

Spec == Init /\ [][Next]_vars

----------------------------------------------------------------------------

Files == [data : Configs \cup {Torn, NoFile}, synced : BOOLEAN]

(* Every variable holds what its declaration says.                         *)
TypeOK ==
    /\ path \in Files
    /\ durable \in SUBSET Files
    /\ save \in [pc : Steps, cfg : Configs \cup {NoFile},
                 temp : TempNames \cup {NoTemp}, error : BOOLEAN]
    /\ temp \in Files
    /\ temps \in SUBSET TempNames
    /\ abandoned \in SUBSET TempNames

(* The next start finds a configuration it accepts, or none at all: now,   *)
(* and after a kill or a power loss in the middle of any step.  Load would *)
(* refuse anything else at every start from then on.                       *)
AlwaysLoads == \A file \in durable \cup {path} : Loads(file)

(* A Save that returns, whichever step has failed, leaves no temporary     *)
(* file (they hold the passwords): only kills and a failing Remove do.     *)
NoTempLeft == \A name \in temps : name \in abandoned \/ name = save.temp

(* What Save carries from step to step, and what the path may come to      *)
(* show: the parts that make the above inductive.                          *)
TempHeld ==
    /\ abandoned \subseteq temps
    /\ save.pc \in {"idle", "called", "renamed"} => save.temp \notin temps
    /\ save.pc \in {"created", "written", "synced", "closed", "failing"} =>
          save.temp \in temps /\ save.temp \notin abandoned /\ save.cfg \in Valid
    /\ save.pc \in {"written", "synced", "closed"} => temp.data = save.cfg
    /\ save.pc \in {"synced", "closed"} => temp.synced

OnlySynced == \A file \in durable \cup {path} : file.synced

Inv == TypeOK /\ AlwaysLoads /\ NoTempLeft /\ TempHeld /\ OnlySynced

(* Save is what ControlPlane takes it for: one step that replaces the file *)
(* or fails and changes nothing; whoever is told of an error finds the old *)
(* file, and a power loss at worst brings back a former one.               *)
Atomic == INSTANCE AtomicStore WITH
    file <- path.data,
    recent <- {file.data : file \in durable},
    call <- [st |-> IF save.pc = "idle" THEN "idle"
                    ELSE IF save.pc = "renamed" THEN "saved"
                    ELSE "saving",
             cfg |-> save.cfg, error |-> save.error]

ImplementsAtomicStore == Atomic!Spec

=============================================================================
