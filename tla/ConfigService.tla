---------------------------- MODULE ConfigService ----------------------------
(***************************************************************************)
(* What the admin API promises: one durable configuration.  A change a     *)
(* client calls for is applied to it at one instant, whole, on top of the  *)
(* configuration of that instant; or it is refused and changes nothing.  A *)
(* reply of success comes after that instant.  A crash loses calls, never  *)
(* the configuration.  The program may fill in the default listeners, only *)
(* when the configuration is absent or has none (null).                    *)
(***************************************************************************)
EXTENDS Mutations

CONSTANTS
    Clients,        \* users of the admin API
    Requests,       \* the requests they may send
    InitialFiles,   \* what the disk may hold before the first start
    NoRequest

VARIABLES
    config,   \* the durable configuration, or NoFile
    call      \* for each client the state of its call

vars == <<config, call>>

Idle == [st |-> "idle", req |-> NoRequest]

Init ==
    /\ config \in InitialFiles
    /\ call = [c \in Clients |-> Idle]

Provision ==
    /\ config' = Provisioned(config)
    /\ UNCHANGED call

Call(c, req) ==
    /\ call[c] = Idle
    /\ call' = [call EXCEPT ![c] = [st |-> "called", req |-> req]]
    /\ UNCHANGED config

Apply(c) ==
    /\ call[c].st = "called"
    /\ config # NoFile
    /\ ~Refused(Current(config), call[c].req)
    /\ Validate(Edited(Current(config), call[c].req))
    /\ config' = Edited(Current(config), call[c].req)
    /\ call' = [call EXCEPT ![c].st = "applied"]

Reject(c) ==
    /\ call[c].st = "called"
    /\ call' = [call EXCEPT ![c] = Idle]
    /\ UNCHANGED config

Reply(c) ==
    /\ call[c].st = "applied"
    /\ call' = [call EXCEPT ![c] = Idle]
    /\ UNCHANGED config

Crash ==
    /\ call' = [c \in Clients |-> Idle]
    /\ UNCHANGED config

Next ==
    \/ Provision
    \/ Crash
    \/ \E c \in Clients :
          \/ \E req \in Requests : Call(c, req)
          \/ Apply(c) \/ Reject(c) \/ Reply(c)

Spec == Init /\ [][Next]_vars

=============================================================================
