-------------------------------- MODULE Pipe --------------------------------
(***************************************************************************)
(* What a client takes a tunnel for: it is refused, or opened once, and    *)
(* then joins two streams.  Each side gets what the other sends, in order  *)
(* and from the first number on, until it is told of the end; and it is    *)
(* told only when that was all, when a side is gone, or when the pipe has  *)
(* been broken.  It can be broken by a stop of the process, and, until it  *)
(* is open, by a client that sends no more.                                *)
(***************************************************************************)
EXTENDS Integers, Sequences

CONSTANT MaxSent

VARIABLES
    state,     \* of the pipe, to the client
    sent,      \* how much each side has sent
    end,       \* what each side has done with its end
    got,       \* what each side has got
    told,      \* the sides that have been told of the end
    stopped,   \* the process stops
    aborted    \* the client has sent its last before the pipe was open

vars == <<state, sent, end, got, told, stopped, aborted>>

Sides == {"client", "remote"}

Other(s) == IF s = "client" THEN "remote" ELSE "client"

Init ==
    /\ state = "asked"
    /\ sent = [s \in Sides |-> 0]
    /\ end = [s \in Sides |-> "open"]
    /\ got = [s \in Sides |-> <<>>]
    /\ told = {}
    /\ stopped = FALSE
    /\ aborted = FALSE

----------------------------------------------------------------------------

Open ==
    /\ state = "asked"
    /\ told = {}
    /\ state' = "open"
    /\ UNCHANGED <<sent, end, got, told, stopped, aborted>>

(* Refused with an answer, or by closing the connection only.              *)
Refuse ==
    /\ state = "asked"
    /\ state' \in {"asked", "refused"}
    /\ told' \in SUBSET Sides
    /\ told \subseteq told'
    /\ UNCHANGED <<sent, end, got, stopped, aborted>>

(* Numbers reach s, up to n, none left out.                                *)
Deliver(s, n) ==
    /\ state = "open"
    /\ s \notin told
    /\ end[s] # "gone"
    /\ Len(got[s]) < n
    /\ got' = [got EXCEPT ![s] = [i \in 1..n |-> i]]
    /\ UNCHANGED <<state, sent, end, told, stopped, aborted>>

AllDelivered(s) == end[Other(s)] # "open" /\ Len(got[s]) = sent[Other(s)]

Disturbed == stopped \/ aborted \/ \E s \in Sides : end[s] = "gone"

Tell(group) ==
    /\ state = "open"
    /\ \A s \in group : Disturbed \/ AllDelivered(s)
    /\ told' = told \cup group
    /\ UNCHANGED <<state, sent, end, got, stopped, aborted>>

----------------------------------------------------------------------------

Send(s) ==
    /\ end[s] = "open"
    /\ sent[s] < MaxSent
    /\ sent' = [sent EXCEPT ![s] = @ + 1]
    /\ UNCHANGED <<state, end, got, told, stopped, aborted>>

Finish(s) ==
    /\ end[s] = "open"
    /\ end' = [end EXCEPT ![s] = "finished"]
    /\ UNCHANGED <<state, sent, got, told, stopped, aborted>>

Leave(s) ==
    /\ end[s] # "gone"
    /\ end' = [end EXCEPT ![s] = "gone"]
    /\ UNCHANGED <<state, sent, got, told, stopped, aborted>>

Stop ==
    /\ stopped' = TRUE
    /\ UNCHANGED <<state, sent, end, got, told, aborted>>

Abort ==
    /\ state = "asked"
    /\ end["client"] # "open"
    /\ aborted' = TRUE
    /\ UNCHANGED <<state, sent, end, got, told, stopped>>

----------------------------------------------------------------------------

Next ==
    \/ Open \/ Refuse
    \/ \E s \in Sides : \E n \in 1..sent[Other(s)] : Deliver(s, n)
    \/ \E group \in SUBSET Sides : Tell(group)
    \/ \E s \in Sides : Send(s) \/ Finish(s) \/ Leave(s)
    \/ Stop \/ Abort

Spec == Init /\ [][Next]_vars

=============================================================================
