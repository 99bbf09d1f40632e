----------------------------- MODULE ConfigRead -----------------------------
(***************************************************************************)
(* GET /api/config next to the mutations of ControlPlane: ServeHTTP and    *)
(* currentConfig (internal/api/handler.go) read the selector and then the  *)
(* manager, without h.mu.  One GET at a time: GETs do not affect anything. *)
(***************************************************************************)
EXTENDS ControlPlane, Integers

VARIABLE get   \* the GET: whether it runs and the selector as it has read it;
               \*   and as history the listeners that were in effect together
               \*   with that selector, and the mutations published, since

readVars == <<vars, get>>

----------------------------------------------------------------------------

NoGet == [pc |-> "idle", selector |-> NoUpstreams, seen |-> {}, published |-> 0]

ReadSelector ==
    /\ Alive
    /\ get.pc = "idle"
    /\ get' = [pc |-> "read", selector |-> selector, seen |-> {configs}, published |-> 0]
    /\ UNCHANGED vars

(* The manager is read, and the reply is what the two have said.           *)
ReadManager ==
    /\ get.pc = "read"
    /\ get' = NoGet
    /\ UNCHANGED vars

Publishes == \E c \in Clients : Commit(c)

(* History, while a GET runs: two mutations published in its time are told *)
(* from one, not from more.                                                *)
Observe ==
    get' = IF phase' = "down" THEN NoGet
           ELSE IF get.pc = "idle" THEN get
           ELSE [get EXCEPT
                   !.seen = @ \cup {l \in {configs'} : selector' = get.selector},
                   !.published = IF @ < 2 /\ Publishes THEN @ + 1 ELSE @]

Mutate == Next /\ Observe

ReadInit == Init /\ get = NoGet

ReadNext == Mutate \/ ReadSelector \/ ReadManager

ReadSpec == ReadInit /\ [][ReadNext]_readVars

----------------------------------------------------------------------------

(* The inductive invariant.  While no mutation has been published since    *)
(* the selector was read, the selector is the one read, but for a mutation *)
(* between Install and Commit; and that one either had no new selector to  *)
(* install or has no new listeners to commit.                              *)
Installed == {c \in Clients : op[c].pc = "installed"}

ReadInv ==
    /\ get \in [pc : {"idle", "read"}, published : 0..2,
               selector : [active : UpstreamIds \cup {None}, upstreams : SUBSET Upstream],
               seen : SUBSET SUBSET Listener]
    /\ get.pc = "read" => Alive
    /\ get.pc = "read" /\ phase # "closed" =>
          /\ get.published < 2 => configs \in get.seen
          /\ get.published = 0 =>
                /\ Installed = {} => selector = get.selector
                /\ \A c \in Installed :
                      op[c].cfg.listeners = configs \/ selector = get.selector

(* A GET during which at most one mutation was published replies with a    *)
(* configuration that was in effect, as a whole, at some instant of the    *)
(* GET: without the lock this rests on every request changing upstreams or *)
(* listeners, never both.  During two it may list a listener's route and   *)
(* not the upstream it names.  (After Manager.Close there is nothing to    *)
(* show.)                                                                  *)
ReadsOneConfiguration ==
    [][ReadManager /\ get.published < 2 /\ phase # "closed" => configs \in get.seen]_readVars

=============================================================================
