-------------------------- MODULE AcceptLoop_proofs --------------------------
(***************************************************************************)
(* AcceptLoop's safety, for any set of connections.                        *)
(***************************************************************************)
EXTENDS AcceptLoop, TLAPS

(* An entry that has just been opened satisfies the invariant.             *)
LEMMA InitInv == Init => Inv
<1> SUFFICES ASSUME Init PROVE Inv
  OBVIOUS
<1> USE ConnectionAssumption DEF Init, Waiting, Protocols
<1>1. TypeOK
  <2>1. \A c \in Connections : conn[c] = "new" /\ seen[c] = {}
    OBVIOUS
  <2> QED
    BY <2>1 DEF TypeOK
<1>2. NoneLost /\ DoneOnlyAtEnd /\ HeldSeen /\ ProtocolInEffect
  BY DEF NoneLost, DoneOnlyAtEnd, HeldSeen, ProtocolInEffect
<1> QED
  BY <1>1, <1>2 DEF Inv

(* Clients, mutations and the stop keep the invariant.                     *)
LEMMA OutsideInv ==
    ASSUME Inv,
           \/ \E c \in Connections : Connect(c) \/ Finish(c)
           \/ \E t \in Protocols : SetProtocol(t)
           \/ CloseSocket \/ Stop
    PROVE  Inv'
<1> USE DEF Inv, TypeOK, NoneLost, DoneOnlyAtEnd, HeldSeen, ProtocolInEffect, Protocols, history
<1>1. ASSUME NEW c \in Connections, Connect(c) PROVE Inv'
  BY <1>1 DEF Connect
<1>2. ASSUME NEW t \in Protocols, SetProtocol(t) PROVE Inv'
  BY <1>2 DEF SetProtocol
<1>3. CASE CloseSocket
  BY <1>3 DEF CloseSocket
<1>4. CASE Stop
  BY <1>4 DEF Stop
<1>5. ASSUME NEW c \in Connections, Finish(c) PROVE Inv'
  BY <1>5 DEF Finish
<1> QED
  BY <1>1, <1>2, <1>3, <1>4, <1>5

(* The accept loop keeps it.                                               *)
LEMMA LoopInv ==
    ASSUME Inv, Loop \/ AcceptFails
    PROVE  Inv'
<1> USE ConnectionAssumption
    DEF Inv, TypeOK, NoneLost, DoneOnlyAtEnd, HeldSeen, ProtocolInEffect, Protocols, history, Waiting, Return
<1>1. ASSUME NEW c \in Connections, Accept(c)
      PROVE  Inv'
  <2>1. /\ loop.pc = "accept" /\ conn[c] = "queued" /\ loop' = [pc |-> "accepted", conn |-> c]
        /\ conn' = [conn EXCEPT ![c] = "held"] /\ seen' = [seen EXCEPT ![c] = {protocol}]
        /\ socket' = socket /\ protocol' = protocol /\ done' = done /\ server' = server
        /\ cancelled' = cancelled /\ stopping' = stopping /\ failed' = failed
    BY <1>1 DEF Accept
  <2>2. \A d \in Connections : conn[d] # "held"
    BY <2>1
  <2>3. TypeOK'
    BY <2>1
  <2> QED
    BY <2>1, <2>2, <2>3
<1>2. CASE AcceptEnds
  BY <1>2 DEF AcceptEnds
<1>3. CASE AcceptFails
  BY <1>3 DEF AcceptFails
<1>4. CASE Dispatch
  BY <1>4 DEF Dispatch
<1>5. CASE Deliver
  BY <1>5 DEF Deliver
<1>6. CASE DeliverFails
  BY <1>6 DEF DeliverFails
<1> QED
  BY <1>1, <1>2, <1>3, <1>4, <1>5, <1>6 DEF Loop

(* The HTTP server keeps it.                                               *)
LEMMA ServerInv ==
    ASSUME Inv, Server
    PROVE  Inv'
<1> USE DEF Inv, TypeOK, NoneLost, DoneOnlyAtEnd, HeldSeen, ProtocolInEffect, Protocols, history
<1>1. CASE ServerStarts
  BY <1>1 DEF ServerStarts
<1>2. CASE ServerEnds
  BY <1>2 DEF ServerEnds
<1>3. CASE Shutdown
  <2>1. done' \in BOOLEAN
    BY <1>3, Zenon DEF Shutdown
  <2> QED
    BY <1>3, <2>1 DEF Shutdown
<1> QED
  BY <1>1, <1>2, <1>3 DEF Server

(* Every step keeps it.                                                    *)
LEMMA NextInv == Inv /\ [Next]_vars => Inv'
<1>1. CASE Inv /\ Next
  BY <1>1, OutsideInv, LoopInv, ServerInv DEF Next
<1>2. CASE Inv /\ UNCHANGED vars
  BY <1>2 DEF vars, history, Inv, TypeOK, NoneLost, DoneOnlyAtEnd, HeldSeen, ProtocolInEffect
<1> QED
  BY <1>1, <1>2

(* The invariant holds throughout, for any set of connections: none is     *)
(* lost between the goroutines, none is served by an outdated protocol.    *)
THEOREM Invariant == Spec => []Inv
<1>1. Inv /\ [Next]_vars => Inv'
  BY NextInv
<1> QED
  BY InitInv, <1>1, PTL DEF Spec

(* Every variable keeps its type.                                          *)
THEOREM TypeCorrect == Spec => []TypeOK
<1>1. Inv => TypeOK
  BY DEF Inv
<1> QED
  BY Invariant, <1>1, PTL

(* No connection gets lost between the goroutines.                         *)
THEOREM NoConnectionLost == Spec => []NoneLost
<1>1. Inv => NoneLost
  BY DEF Inv
<1> QED
  BY Invariant, <1>1, PTL

(* Connections are served by a protocol in effect since they were accepted.*)
THEOREM ProtocolIsInEffect == Spec => []ProtocolInEffect
<1>1. Inv => ProtocolInEffect
  BY DEF Inv
<1> QED
  BY Invariant, <1>1, PTL

(* A step that closes a connection before it is served is a step of a      *)
(* process that stops.                                                     *)
LEMMA UnservedStep ==
    ASSUME Inv, [Next]_vars, NEW c \in Connections, conn[c] = "held", conn'[c] = "closed"
    PROVE  cancelled
<1> USE DEF Inv, TypeOK, NoneLost, DoneOnlyAtEnd, Protocols, history
<1>1. CASE UNCHANGED vars
  BY <1>1 DEF vars
<1>2. ASSUME NEW d \in Connections, NEW t \in Protocols,
             Connect(d) \/ Finish(d) \/ SetProtocol(t) \/ CloseSocket \/ Stop
      PROVE  cancelled
  BY <1>2 DEF Connect, Finish, SetProtocol, CloseSocket, Stop
<1>3. ASSUME NEW d \in Connections, Accept(d)
      PROVE  cancelled
  BY <1>3 DEF Accept
<1>4. CASE AcceptEnds \/ AcceptFails \/ Dispatch \/ Deliver
  BY <1>4 DEF AcceptEnds, AcceptFails, Dispatch, Deliver
<1>5. CASE DeliverFails
  BY <1>5 DEF DeliverFails
<1>6. CASE Server
  BY <1>6 DEF Server, ServerStarts, ServerEnds, Shutdown
<1> QED
  BY <1>1, <1>2, <1>3, <1>4, <1>5, <1>6 DEF Next, Loop, Protocols

(* Disabling or deleting a listener cuts off no accepted connection.       *)
THEOREM DisablingKeepsConnections == Spec => UnservedOnlyAtStop
<1>1. Inv /\ [Next]_vars =>
        [\A c \in Connections : conn[c] = "held" /\ conn'[c] = "closed" => cancelled]_vars
  BY UnservedStep
<1> QED
  BY Invariant, <1>1, PTL DEF Spec, UnservedOnlyAtStop

=============================================================================
