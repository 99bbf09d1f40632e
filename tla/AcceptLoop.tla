----------------------------- MODULE AcceptLoop -----------------------------
(***************************************************************************)
(* One entry of the listener manager from its socket to the servers that   *)
(* handle its connections (internal/listener/manager.go: serve;            *)
(* internal/listener/dispatch_listener.go; internal/httpproxy/server.go:   *)
(* Serve).                                                                 *)
(*                                                                         *)
(* The accept loop takes a connection, looks up the listener's protocol    *)
(* and either starts a SOCKS5 handler for it or passes it on to the HTTP   *)
(* server, through an unbuffered channel.  Meanwhile mutations change the  *)
(* protocol or close the socket, and a stop of the process cancels the     *)
(* context, which makes the HTTP server shut down.                         *)
(*                                                                         *)
(* Simplifications.                                                        *)
(*  - A client connects once; there are as many clients as Connections.    *)
(*  - What a handler does with its connection is one step, Finish.         *)
(*  - The process ends somewhere after Stop; that is left out, so what is  *)
(*    said of a stop does not rest on the end of the process.              *)
(***************************************************************************)
EXTENDS Integers

CONSTANTS
    Connections,
    None

ASSUME ConnectionAssumption == None \notin Connections

VARIABLES
    socket,       \* running.listener
    protocol,     \* running.config.Type
    conn,         \* how far each connection is
    loop,         \* the accept loop: where it is, with which connection
    done,         \* dispatchListener.done is closed
    server,       \* http.Server.Serve
    cancelled,    \* the context of the manager
    stopping,     \* http.Server.Shutdown has been called
    failed,       \* history: Accept has returned an error though the socket is open
    seen          \* history: the protocols there have been since a connection was accepted

vars == <<socket, protocol, conn, loop, done, server, cancelled, stopping, failed, seen>>

history == <<failed, seen>>

----------------------------------------------------------------------------

Protocols == {"socks5", "http"}

Waiting == [pc |-> "accept", conn |-> None]

(* serve returns: the deferred httpListener.Close.                         *)
Return ==
    /\ loop' = [pc |-> "ended", conn |-> None]
    /\ done' = TRUE

----------------------------------------------------------------------------
(* Clients, mutations, and the stop of the process.                        *)

Connect(c) ==
    /\ socket = "open"
    /\ conn[c] = "new"
    /\ conn' = [conn EXCEPT ![c] = "queued"]
    /\ UNCHANGED <<socket, protocol, loop, done, server, cancelled, stopping, history>>

(* Commit of a mutation that keeps the entry.                              *)
SetProtocol(t) ==
    /\ socket = "open"
    /\ protocol' = t
    /\ seen' = [c \in Connections |-> IF conn[c] = "held" THEN seen[c] \cup {t} ELSE seen[c]]
    /\ UNCHANGED <<socket, conn, loop, done, server, cancelled, stopping, failed>>

\* Variant: what the HTTP server listens on is closed along with the socket.
CloseBoth ==
    /\ socket = "open"
    /\ socket' = "closed"
    /\ done' = TRUE
    /\ conn' = [c \in Connections |-> IF conn[c] = "queued" THEN "closed" ELSE conn[c]]
    /\ UNCHANGED <<protocol, loop, server, cancelled, stopping, history>>

(* Commit of a mutation that drops the entry, or Manager.Close.  Whoever   *)
(* has not been accepted yet is refused.                                   *)
CloseSocket ==
    /\ socket = "open"
    /\ socket' = "closed"
    /\ conn' = [c \in Connections |-> IF conn[c] = "queued" THEN "closed" ELSE conn[c]]
    /\ UNCHANGED <<protocol, loop, done, server, cancelled, stopping, history>>

Stop ==
    /\ ~cancelled
    /\ cancelled' = TRUE
    /\ UNCHANGED <<socket, protocol, conn, loop, done, server, stopping, history>>

----------------------------------------------------------------------------
(* The accept loop.                                                        *)

Accept(c) ==
    /\ loop.pc = "accept"
    /\ conn[c] = "queued"
    /\ conn' = [conn EXCEPT ![c] = "held"]
    /\ loop' = [pc |-> "accepted", conn |-> c]
    /\ seen' = [seen EXCEPT ![c] = {protocol}]
    /\ UNCHANGED <<socket, protocol, done, server, cancelled, stopping, failed>>

\* Variant: the socket's end alone leaves the HTTP server waiting.
AcceptEndsAlone ==
    /\ loop.pc = "accept"
    /\ socket = "closed"
    /\ loop' = [pc |-> "ended", conn |-> None]
    /\ UNCHANGED <<socket, protocol, conn, done, server, cancelled, stopping, history>>

AcceptEnds ==
    /\ loop.pc = "accept"
    /\ socket = "closed"
    /\ Return
    /\ UNCHANGED <<socket, protocol, conn, server, cancelled, stopping, history>>

(* Any other error of Accept, such as no free file descriptor, ends the    *)
(* loop too; the socket stays open.                                        *)
AcceptFails ==
    /\ loop.pc = "accept"
    /\ socket = "open"
    /\ Return
    /\ failed' = TRUE
    /\ UNCHANGED <<socket, protocol, conn, server, cancelled, stopping, seen>>

\* Variant: everything goes to the HTTP server.
DispatchAsBefore ==
    /\ loop.pc = "accepted"
    /\ loop' = [loop EXCEPT !.pc = "deliver"]
    /\ UNCHANGED <<socket, protocol, conn, done, server, cancelled, stopping, history>>

Dispatch ==
    /\ loop.pc = "accepted"
    /\ \/ /\ protocol = "socks5"
          /\ conn' = [conn EXCEPT ![loop.conn] = "socks5"]
          /\ loop' = Waiting
       \/ /\ protocol = "http"
          /\ loop' = [loop EXCEPT !.pc = "deliver"]
          /\ UNCHANGED conn
    /\ UNCHANGED <<socket, protocol, done, server, cancelled, stopping, history>>

(* deliver and dispatchListener.Accept meet ...                            *)
Deliver ==
    /\ loop.pc = "deliver"
    /\ server = "accepting"
    /\ conn' = [conn EXCEPT ![loop.conn] = "http"]
    /\ loop' = Waiting
    /\ UNCHANGED <<socket, protocol, done, server, cancelled, stopping, history>>

\* Variant: a plain send on the channel.
DeliverWaits == FALSE /\ UNCHANGED vars

\* Variant: the connection is forgotten.
DeliverForgets ==
    /\ loop.pc = "deliver"
    /\ done \/ cancelled
    /\ loop' = Waiting
    /\ UNCHANGED <<socket, protocol, conn, done, server, cancelled, stopping, history>>

\* Variant: the loop gives up.
DeliverReturns ==
    /\ loop.pc = "deliver"
    /\ done \/ cancelled
    /\ conn' = [conn EXCEPT ![loop.conn] = "closed"]
    /\ Return
    /\ UNCHANGED <<socket, protocol, server, cancelled, stopping, history>>

(* ... or deliver sees the end of the listener or of the context.          *)
DeliverFails ==
    /\ loop.pc = "deliver"
    /\ done \/ cancelled
    /\ conn' = [conn EXCEPT ![loop.conn] = "closed"]
    /\ loop' = Waiting
    /\ UNCHANGED <<socket, protocol, done, server, cancelled, stopping, history>>

----------------------------------------------------------------------------
(* The HTTP server, and the handlers.                                      *)

(* Serve is a goroutine of its own; a server that shuts down refuses.      *)
ServerStarts ==
    /\ server = "starting"
    /\ IF stopping THEN server' = "ended" /\ done' = TRUE
                   ELSE server' = "accepting" /\ UNCHANGED done
    /\ UNCHANGED <<socket, protocol, conn, loop, cancelled, stopping, history>>

(* dispatchListener.Accept returns net.ErrClosed.                          *)
ServerEnds ==
    /\ server = "accepting"
    /\ done
    /\ server' = "ended"
    /\ UNCHANGED <<socket, protocol, conn, loop, done, cancelled, stopping, history>>

(* The goroutine that waits for the context: Shutdown closes the listener  *)
(* the server serves.                                                      *)
Shutdown ==
    /\ cancelled
    /\ ~stopping
    /\ stopping' = TRUE
    /\ done' = (done \/ server = "accepting")
    /\ UNCHANGED <<socket, protocol, conn, loop, server, cancelled, history>>

(* A handler is done with its connection.                                  *)
Finish(c) ==
    /\ conn[c] \in Protocols
    /\ conn' = [conn EXCEPT ![c] = "closed"]
    /\ UNCHANGED <<socket, protocol, loop, done, server, cancelled, stopping, history>>

----------------------------------------------------------------------------

Init ==
    /\ socket = "open"
    /\ protocol \in Protocols
    /\ conn = [c \in Connections |-> "new"]
    /\ loop = Waiting
    /\ done = FALSE
    /\ server = "starting"
    /\ cancelled = FALSE
    /\ stopping = FALSE
    /\ failed = FALSE
    /\ seen = [c \in Connections |-> {}]

Loop ==
    \/ \E c \in Connections : Accept(c)
    \/ AcceptEnds \/ Dispatch \/ Deliver \/ DeliverFails

Server == ServerStarts \/ ServerEnds \/ Shutdown

Next ==
    \/ \E c \in Connections : Connect(c) \/ Finish(c)
    \/ \E t \in Protocols : SetProtocol(t)
    \/ CloseSocket \/ Stop
    \/ Loop \/ AcceptFails \/ Server

(* The goroutines of the entry run on as long as they can.                 *)
Spec == Init /\ [][Next]_vars /\ WF_vars(Loop) /\ WF_vars(Server)

----------------------------------------------------------------------------

TypeOK ==
    /\ socket \in {"open", "closed"}
    /\ protocol \in Protocols
    /\ conn \in [Connections -> {"new", "queued", "held", "closed"} \cup Protocols]
    /\ loop \in [pc : {"accept", "accepted", "deliver", "ended"}, conn : Connections \cup {None}]
    /\ done \in BOOLEAN
    /\ server \in {"starting", "accepting", "ended"}
    /\ cancelled \in BOOLEAN
    /\ stopping \in BOOLEAN
    /\ failed \in BOOLEAN
    /\ seen \in [Connections -> SUBSET Protocols]

(* No connection gets lost on its way: one that has been accepted and is   *)
(* neither closed nor in a server's hands is the one the loop is busy with.*)
NoneLost ==
    /\ \A c \in Connections : conn[c] = "held" => loop.conn = c
    /\ loop.pc \in {"accepted", "deliver"} => conn[loop.conn] = "held"

(* A connection is served by a protocol that the listener had after the    *)
(* connection was accepted, not by one from before.                        *)
ProtocolInEffect ==
    \A c \in Connections : conn[c] \in Protocols => conn[c] \in seen[c]

(* The inductive invariant.  The channel is closed early only by a stop;   *)
(* what the loop holds was accepted under a protocol it has seen.          *)
DoneOnlyAtEnd ==
    /\ done => loop.pc = "ended" \/ cancelled
    /\ stopping => cancelled

HeldSeen ==
    /\ \A c \in Connections : conn[c] = "held" => protocol \in seen[c]
    /\ loop.pc = "deliver" => "http" \in seen[loop.conn]

Inv ==
    /\ TypeOK
    /\ NoneLost
    /\ loop.pc \in {"accept", "ended"} => loop.conn = None
    /\ loop.pc \in {"accepted", "deliver"} => loop.conn \in Connections
    /\ DoneOnlyAtEnd
    /\ HeldSeen
    /\ ProtocolInEffect

(* README: disabling or deleting a listener does not cut off connections.  *)
(* One that has been accepted is closed unserved only by the process's     *)
(* stop, wherever on its way it was when the socket was closed.            *)
UnservedOnlyAtStop ==
    [][\A c \in Connections : conn[c] = "held" /\ conn'[c] = "closed" => cancelled]_vars

(* The loop never keeps a connection for ever, whatever stops meanwhile.   *)
HandedOn == \A c \in Connections : conn[c] = "held" ~> conn[c] # "held"

(* As long as Accept has not failed, whoever connects is answered in the   *)
(* end: served, or closed.                                                 *)
Answered == \A c \in Connections : conn[c] = "queued" ~> conn[c] # "queued" \/ failed

(* Once its socket is closed the entry's loop and its HTTP server's end.   *)
GoroutinesEnd == socket = "closed" ~> loop.pc = "ended" /\ server = "ended"

=============================================================================
