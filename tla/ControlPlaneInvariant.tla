------------------------ MODULE ControlPlaneInvariant ------------------------
(***************************************************************************)
(* The inductive invariant of the control plane, in named parts.  TLC      *)
(* checks it (run safety), module ControlPlane_proofs proves it.           *)
(***************************************************************************)
EXTENDS ControlPlane

(* h.mu: only its holder is inside a mutation.                             *)
Mutex ==
    /\ \A c \in Clients : op[c].pc = "idle" => op[c] = IdleOp
    /\ \A c \in Clients : op[c].pc # "idle" => mu = c
    /\ \A c \in Clients : op[c].pc # "idle" => op[c].req \in Requests
    /\ phase \in {"down", "binding", "serving"} =>
          /\ mu = Nobody
          /\ \A c \in Clients : op[c].pc = "idle"

(* Nothing of an ended process survives.                                   *)
Fresh ==
    phase \in {"down", "binding"} =>
        /\ selector = NoUpstreams
        /\ configs = {} /\ running = {} /\ accepting = {} /\ bound = {}

(* What has been or may be saved is a valid configuration.                 *)
WellFormed(cfg) ==
    /\ cfg \in ConfigRecord
    /\ Validate(cfg)
    /\ cfg.null => cfg.listeners = {}

DiskWellFormed ==
    /\ disk # NoFile => WellFormed(disk)
    /\ phase # "down" => disk # NoFile

Mid == {"prepared", "saving", "saved", "installed"}

(* What a mutation has read, and what it has made of it.                   *)
OpFollowsDisk ==
    \A c \in Clients :
        /\ op[c].pc = "snapshot" /\ phase # "closed" =>
              op[c].cfg = [active |-> disk.active, upstreams |-> disk.upstreams,
                           listeners |-> {}, null |-> TRUE]
        /\ op[c].pc = "current" /\ phase # "closed" => op[c].cfg = Current(disk)
        /\ op[c].pc \in Mid \cup {"committed"} => WellFormed(op[c].cfg)
        /\ op[c].pc \in {"prepared", "saving"} =>
              /\ ~Refused(Current(disk), op[c].req)
              /\ op[c].cfg = Edited(Current(disk), op[c].req)
        /\ op[c].pc \in {"saved", "installed", "committed"} => disk = op[c].cfg

(* The runtime, at each step of the mutation that holds h.mu.              *)
RuntimeStepwise ==
    phase \in {"serving", "up", "stopping"} =>
        /\ running = Enabled(configs)
        /\ (\A c \in Clients : op[c].pc \in BeforeSave \cup {"committed"}) => RuntimeIs(disk)

(* The routes now running also resolve in the configuration to come.       *)
RoutesWillResolve ==
    \A c \in Clients : op[c].pc \in Mid =>
        \A r \in running : r.upstream \in Ids(op[c].cfg.upstreams) \cup {None}

SelectorInstalled ==
    \A c \in Clients : op[c].pc = "installed" =>
        selector = [active |-> op[c].cfg.active, upstreams |-> op[c].cfg.upstreams]

(* What Prepare has put in its result.                                     *)
PreparedMatches ==
    \A c \in Clients :
        /\ op[c].pc \in Mid =>
              /\ op[c].opened \subseteq Enabled(op[c].cfg.listeners)
              /\ Addrs(op[c].opened) \cap Addrs(accepting) = {}
              /\ phase # "closed" =>
                    /\ op[c].reused = Reused(op[c].cfg)
                    /\ op[c].opened = Opened(op[c].cfg)
              /\ phase = "closed" => running = {} /\ op[c].reused \cap accepting = {}
        /\ op[c].pc \notin Mid => op[c].opened = {}

(* The kernel lets no two sockets overlap.                                 *)
BoundApart ==
    /\ \A a, b \in bound : a # b => ~Clashes(a, b)
    /\ phase = "up" => \A a \in bound : ~Clashes(a, WebAddr)

(* A configuration about to be saved has been bound next to WebAddr.       *)
SavingRestartable ==
    \A c \in Clients :
        \/ op[c].pc = "saving"
        \/ op[c].pc = "prepared" /\ phase = "up"
        => Restartable(op[c].cfg.listeners)

(* Already when a mutation is prepared, a second one like it would find    *)
(* nothing to do in what the first is about to save.                       *)
RetrySettled ==
    \A c \in Clients : op[c].pc \in Mid \cup {"committed"} =>
        \A cfg \in {op[c].cfg, Provisioned(op[c].cfg)} : Repeated(Current(cfg), op[c].req)

(* A mutation leaves the selector or the manager as it is.                 *)
EditsOneSide ==
    \A c \in Clients : phase # "closed" /\ op[c].pc \in {"prepared", "saving", "saved"} =>
        \/ op[c].cfg.listeners = configs
        \/ selector = [active |-> op[c].cfg.active, upstreams |-> op[c].cfg.upstreams]

(* What a start has bound is what the file asks for.                       *)
StartBinds == phase = "serving" => bound = Addrs(Enabled(disk.listeners))

(* Between any two steps of any handler, a start, a stop or a crash: what  *)
(* is on disk, what a mutation carries, what runs and what is bound fit    *)
(* together, so that whichever step comes next can be taken safely.        *)
Inv ==
    /\ TypeOK /\ Mutex /\ Fresh
    /\ DiskWellFormed /\ OpFollowsDisk /\ RuntimeStepwise
    /\ RoutesResolve /\ RoutesWillResolve /\ SelectorInstalled
    /\ SocketsAccounted /\ RunningListenersAccept /\ PreparedMatches
    /\ BoundApart /\ DiskRestartable /\ SavingRestartable
    /\ RetrySettled /\ EditsOneSide /\ StartBinds

=============================================================================
