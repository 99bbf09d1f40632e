----------------------------- MODULE AtomicStore -----------------------------
(***************************************************************************)
(* What the rest of the program takes a configuration store for, and what  *)
(* ControlPlane models it as: the file is replaced whole or not at all,    *)
(* Save says which, and the end of the process changes nothing.  A power   *)
(* loss may bring back an older file, one the path has shown since the     *)
(* file system last wrote the directory, and that one whole too.           *)
(***************************************************************************)
CONSTANTS Configs, Valid, NoFile

VARIABLES
    file,     \* what the path shows
    recent,   \* what it may show after a power loss
    call      \* the Save under way: its configuration, how far it is

vars == <<file, recent, call>>

Idle == [st |-> "idle", cfg |-> NoFile, error |-> FALSE]

Init ==
    /\ file \in Valid \cup {NoFile}
    /\ recent = {file}
    /\ call = Idle

Begin(cfg) ==
    /\ call.st = "idle"
    /\ call' = [st |-> "saving", cfg |-> cfg, error |-> FALSE]
    /\ UNCHANGED <<file, recent>>

Replace ==
    /\ call.st = "saving"
    /\ call.cfg \in Valid
    /\ file' = call.cfg
    /\ recent' = recent \cup {call.cfg}
    /\ call' = [call EXCEPT !.st = "saved"]

Return ==
    /\ call.st = "saved"
    /\ call' = Idle
    /\ UNCHANGED <<file, recent>>

Fail ==
    /\ call.st = "saving"
    /\ call' = [st |-> "idle", cfg |-> NoFile, error |-> TRUE]
    /\ UNCHANGED <<file, recent>>

Written ==
    /\ recent' = {file}
    /\ UNCHANGED <<file, call>>

Kill ==
    /\ call' = Idle
    /\ UNCHANGED <<file, recent>>

PowerLoss ==
    /\ file' \in recent
    /\ recent' = {file'}
    /\ call' = Idle

Next ==
    \/ \E cfg \in Configs : Begin(cfg)
    \/ Replace \/ Return \/ Fail
    \/ Written \/ Kill \/ PowerLoss

Spec == Init /\ [][Next]_vars

=============================================================================
