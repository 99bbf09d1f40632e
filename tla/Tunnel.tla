------------------------------- MODULE Tunnel -------------------------------
(***************************************************************************)
(* One tunnel: a client's connection, from the SOCKS5 handshake            *)
(* (internal/socks5) or an HTTP CONNECT request (internal/httpproxy) over  *)
(* the dial through an HTTP or SOCKS5 upstream proxy                       *)
(* (internal/upstream/dialer.go) to the two copying goroutines of pump and *)
(* to its end.  The remote side is the upstream proxy, with the target     *)
(* behind it.                                                              *)
(*                                                                         *)
(* What either side sends through the tunnel are the numbers 1, 2, ...; a  *)
(* number stands for any stretch of bytes.                                 *)
(*                                                                         *)
(* Simplifications.                                                        *)
(*  - A handshake message is read or written in one step: io.ReadFull      *)
(*    reads exactly the message.  The rounds of a SOCKS5 upstream's        *)
(*    handshake (external, x/net) are one.                                 *)
(*  - A read and the write that follows it in io.Copy are one step.        *)
(*  - A write does not block: peers take what they are sent.               *)
(*  - The header of a CONNECT request has arrived: net/http calls the      *)
(*    handler then.                                                        *)
(***************************************************************************)
EXTENDS Integers, Sequences

CONSTANT MaxSent   \* bound on what each side sends through the tunnel

ASSUME TunnelAssumption == MaxSent \in Nat

VARIABLES
    kind,        \* what the listener and the upstream proxy speak
    pc,          \* of the handler
    hello,       \* how far the client's handshake is, and what it asked for
    answer,      \* the upstream proxy's answer to the dial
    sent,        \* how much each side has sent through the tunnel
    end,         \* what each side has done with its connection
    wire,        \* what each side has sent and nobody has read
    early,       \* what has been read ahead: by net/http, by bufferedConn
    got,         \* what each side has received through the tunnel
    reply,       \* the last reply written to the client
    conn,        \* the handler's end of the connection with each side
    deferred,    \* the sides whose Close the handler has deferred
    copying,     \* the goroutines of pump, named by the side they read from
    cancelled,   \* the manager's context
    request      \* the context of the CONNECT request

peers == <<kind, hello, answer, sent, end>>
data == <<wire, early, got>>
contexts == <<cancelled, request>>

vars == <<peers, pc, data, reply, conn, deferred, copying, contexts>>

----------------------------------------------------------------------------

Sides == {"client", "remote"}

Protocols == {"http", "socks5"}

Other(s) == IF s = "client" THEN "remote" ELSE "client"

(* The tunnel as a client sees it.                                         *)
Joined == INSTANCE Pipe WITH
    state <- IF reply = "ok" THEN "open" ELSE IF reply = "failed" THEN "refused" ELSE "asked",
    told <- {s \in Sides : conn[s] \in {"eof", "closed"}},
    stopped <- cancelled,
    aborted <- request = "cancelled"

(* The context that the dial and pump are given.                           *)
Done == cancelled \/ request = "cancelled"

Ended(s) == end[s] # "open"

(* A first write to a peer that is gone succeeds, a later one fails.       *)
CanWrite(s) == conn[s] \in {"server", "open"}

WriteFails(s) == ~CanWrite(s) \/ end[s] = "gone"

Received(s, items) == IF end[s] = "gone" THEN got[s] ELSE got[s] \o items

Owned == {"open", "eof"}

Defer(sides) == deferred' = deferred \cup sides

(* The handler returns: the Close calls it has deferred by now run.        *)
Return ==
    /\ pc' = "ended"
    /\ conn' = [s \in Sides |-> IF s \in deferred /\ conn[s] \in Owned THEN "closed" ELSE conn[s]]
    /\ UNCHANGED <<peers, data, deferred, copying, contexts>>

(* The same after a reply of failure, if that can still be written.        *)
ReplyFailure ==
    /\ reply' = IF CanWrite("client") THEN "failed" ELSE reply
    /\ Return

----------------------------------------------------------------------------
(* The SOCKS5 handshake.                                                   *)

(* negotiate: the client offers the method without authentication.         *)
Negotiate ==
    /\ pc = "greeting"
    /\ hello \in {"greeted", "connect", "other"}
    /\ CanWrite("client")
    /\ pc' = "request"
    /\ reply' = "method"
    /\ UNCHANGED <<peers, data, conn, deferred, copying, contexts>>

(* It does not, or speaks another protocol, or has left.                   *)
NegotiateFails ==
    /\ pc = "greeting"
    /\ hello = "bad" \/ (hello = "none" /\ Ended("client")) \/ WriteFails("client")
    /\ reply' = reply
    /\ Return

ReadRequest ==
    /\ pc = "request"
    /\ hello = "connect"
    /\ conn["client"] = "open"
    /\ pc' = "dial"
    /\ UNCHANGED <<peers, data, reply, conn, deferred, copying, contexts>>

(* A malformed request, another command than CONNECT, or none.             *)
RequestFails ==
    /\ pc = "request"
    /\ hello = "other" \/ (hello = "greeted" /\ Ended("client")) \/ WriteFails("client")
    /\ ReplyFailure

----------------------------------------------------------------------------
(* An HTTP CONNECT request.                                                *)

(* Some of what s has sent is read ahead.                                  *)
ReadAhead(s, n) ==
    /\ early' = [early EXCEPT ![s] = @ \o SubSeq(wire[s], 1, n)]
    /\ wire' = [wire EXCEPT ![s] = SubSeq(wire[s], n + 1, Len(wire[s]))]

(* net/http reads the header, perhaps more, and calls the handler.         *)
ServeConnect(n) ==
    /\ pc = "header"
    /\ ReadAhead("client", n)
    /\ pc' = "dial"
    /\ UNCHANGED <<peers, got, reply, conn, deferred, copying, contexts>>

(* Until the handler hijacks the connection net/http reads on in the       *)
(* background: one byte, or the end, which cancels the request.            *)
ReadBackground ==
    /\ pc \in {"dial", "exchange", "hijack", "refuse"}
    /\ request = "watched"
    /\ \/ /\ wire["client"] # <<>>
          /\ ReadAhead("client", 1)
          /\ request' = "read"
       \/ /\ wire["client"] = <<>>
          /\ Ended("client")
          /\ request' = "cancelled"
          /\ UNCHANGED <<early, wire>>
    /\ UNCHANGED <<peers, pc, got, reply, conn, deferred, copying, cancelled>>

----------------------------------------------------------------------------
(* The dial.                                                               *)

(* The TCP connection to the upstream proxy: with a timeout, and the       *)
(* context.                                                                *)
Connected ==
    /\ pc = "dial"
    /\ ~Done
    /\ pc' = "exchange"
    /\ conn' = [conn EXCEPT !["remote"] = "open"]
    /\ UNCHANGED <<peers, data, reply, deferred, copying, contexts>>

(* Timeout, refused, cancelled, or no upstream to dial.                    *)
ConnectFails ==
    /\ pc = "dial"
    /\ pc' = "refuse"
    /\ UNCHANGED <<peers, data, reply, conn, deferred, copying, contexts>>

(* The dial returns a connection.  Handle defers its Close at once,        *)
(* connect has yet to hijack the client's.                                 *)
Dialed ==
    IF kind.listener = "http"
    THEN pc' = "hijack" /\ Defer({})
    ELSE pc' = "reply" /\ Defer({"remote"})

\* Variant: the connection is used without the reader that read the answer.
AcceptedRaw(n) ==
    /\ pc = "exchange"
    /\ answer = "accept"
    /\ kind.upstream = "socks5" => n = 0
    /\ wire' = [wire EXCEPT !["remote"] = SubSeq(@, n + 1, Len(@))]
    /\ Dialed
    /\ UNCHANGED <<peers, early, got, reply, conn, copying, contexts>>

(* The upstream proxy accepts.  CONNECT's bufio.Reader may have read on    *)
(* behind the answer: bufferedConn keeps it.                               *)
Accepted(n) ==
    /\ pc = "exchange"
    /\ answer = "accept"
    /\ kind.upstream = "socks5" => n = 0
    /\ ReadAhead("remote", n)
    /\ Dialed
    /\ UNCHANGED <<peers, got, reply, conn, copying, contexts>>

\* Variant: only an answer counts, not the end of the connection.
FailingIfAnswered ==
    \/ answer = "refuse"
    \/ kind.upstream = "socks5" /\ Done

(* It refuses or closes.  A refusal of CONNECT is read to the end of its   *)
(* body first.  A SOCKS5 exchange sees the context; CONNECT's does not,    *)
(* and waits as long as the upstream proxy is silent.                      *)
Failing ==
    \/ answer = "refuse"
    \/ answer \in {"none", "refusing"} /\ Ended("remote")
    \/ end["remote"] = "gone"
    \/ kind.upstream = "socks5" /\ Done

\* Variant: the connection of a failed exchange is left open.
ExchangeLeaks ==
    /\ pc = "exchange"
    /\ Failing
    /\ pc' = "refuse"
    /\ UNCHANGED <<peers, data, reply, conn, deferred, copying, contexts>>

(* The dialer closes the connection itself, its caller never sees it.      *)
ExchangeFails ==
    /\ pc = "exchange"
    /\ Failing
    /\ pc' = "refuse"
    /\ conn' = [conn EXCEPT !["remote"] = "closed"]
    /\ UNCHANGED <<peers, data, reply, deferred, copying, contexts>>

(* The dial has returned an error: 5 or 502.                               *)
DialFails == pc = "refuse" /\ ReplyFailure

----------------------------------------------------------------------------
(* The reply.                                                              *)

Hijack ==
    /\ pc = "hijack"
    /\ conn' = [conn EXCEPT !["client"] = "open"]
    /\ Defer(Sides)
    /\ pc' = "reply"
    /\ UNCHANGED <<peers, data, reply, copying, contexts>>

(* net/http does not give the client's connection away: no defer is there  *)
(* yet, connect closes the remote side itself.  It answers 500 or nothing. *)
HijackFails ==
    /\ pc = "hijack"
    /\ pc' = "ended"
    /\ conn' = [conn EXCEPT !["remote"] = "closed"]
    /\ reply' \in {reply, "failed"}
    /\ UNCHANGED <<peers, data, deferred, copying, contexts>>

ReplySuccess ==
    /\ pc = "reply"
    /\ CanWrite("client")
    /\ reply' = "ok"
    /\ IF kind.listener = "http"
       THEN pc' = "early" /\ UNCHANGED copying
       ELSE pc' = "pump" /\ copying' = [s \in Sides |-> TRUE]
    /\ UNCHANGED <<peers, data, conn, deferred, contexts>>

ReplyFails ==
    /\ pc = "reply"
    /\ WriteFails("client")
    /\ reply' = reply
    /\ Return

\* Variant: what net/http had read ahead stays in its buffer.
ForwardNothing ==
    /\ pc = "early"
    /\ early' = [early EXCEPT !["client"] = <<>>]
    /\ pc' = "pump"
    /\ copying' = [s \in Sides |-> TRUE]
    /\ UNCHANGED <<peers, got, wire, reply, conn, deferred, contexts>>

(* What net/http had read ahead goes first.                                *)
ForwardEarly ==
    /\ pc = "early"
    /\ CanWrite("remote")
    /\ got' = [got EXCEPT !["remote"] = Received("remote", early["client"])]
    /\ early' = [early EXCEPT !["client"] = <<>>]
    /\ pc' = "pump"
    /\ copying' = [s \in Sides |-> TRUE]
    /\ UNCHANGED <<peers, wire, reply, conn, deferred, contexts>>

ForwardFails ==
    /\ pc = "early"
    /\ early["client"] # <<>>
    /\ WriteFails("remote")
    /\ reply' = reply
    /\ Return

----------------------------------------------------------------------------
(* pump.  The goroutine that reads from s writes to the other side.        *)

Unread(s) == early[s] \o wire[s]

Take(s) ==
    IF early[s] # <<>>
    THEN early' = [early EXCEPT ![s] = Tail(@)] /\ UNCHANGED wire
    ELSE wire' = [wire EXCEPT ![s] = Tail(@)] /\ UNCHANGED early

Copy(s) ==
    /\ copying[s]
    /\ conn[s] # "closed"
    /\ Unread(s) # <<>>
    /\ CanWrite(Other(s))
    /\ got' = [got EXCEPT ![Other(s)] = Received(Other(s), <<Head(Unread(s))>>)]
    /\ Take(s)
    /\ UNCHANGED <<peers, pc, reply, conn, deferred, copying, contexts>>

\* Variant: the other side is not told.
NotTold(s) == conn

\* Variant: the destination is closed, for reading too.
ClosedForBoth(s) == [conn EXCEPT ![s] = "closed"]

(* CloseWrite, which a TCP connection has and neither connection through   *)
(* an upstream proxy: a client's end is not passed on.                     *)
WithEnd(s) == IF s = "client" /\ conn[s] = "open" THEN [conn EXCEPT ![s] = "eof"] ELSE conn

(* io.Copy returns: a read or a write fails, or everything has been read.  *)
CopyEnds(s) ==
    /\ copying[s]
    /\ \/ conn[s] = "closed"
       \/ Unread(s) = <<>> /\ Ended(s)
       \/ Unread(s) # <<>> /\ WriteFails(Other(s))
    /\ copying' = [copying EXCEPT ![s] = FALSE]
    /\ conn' = WithEnd(Other(s))
    /\ UNCHANGED <<peers, pc, data, reply, deferred, contexts>>

\* Variant: pump returns when one direction has ended.
FirstOver == \E s \in Sides : ~copying[s]

BothOver == \A s \in Sides : ~copying[s]

PumpReturns ==
    /\ pc = "pump"
    /\ BothOver
    /\ reply' = reply
    /\ Return

----------------------------------------------------------------------------
(* Cancellation: the functions that AfterFunc runs.                        *)

(* Handle's closes the client, ...                                         *)
CloseClient ==
    /\ cancelled
    /\ kind.listener = "socks5"
    /\ conn["client"] \in Owned
    /\ conn' = [conn EXCEPT !["client"] = "closed"]
    /\ UNCHANGED <<peers, pc, data, reply, deferred, copying, contexts>>

\* Variant: pump does not watch its context.
CloseNeither == FALSE /\ UNCHANGED vars

(* ... pump's both.                                                        *)
CloseBoth ==
    /\ Done
    /\ pc = "pump"
    /\ \E s \in Sides : conn[s] \in Owned
    /\ conn' = [s \in Sides |-> "closed"]
    /\ UNCHANGED <<peers, pc, data, reply, deferred, copying, contexts>>

----------------------------------------------------------------------------
(* The client and the remote side, and the stop of the process.            *)

Present(s) == end[s] = "open" /\ conn[s] \notin {"none", "closed"}

(* A client may send its handshake, and data behind it, without waiting.   *)
Ask(next) ==
    /\ Present("client")
    /\ \/ hello = "none" /\ next \in {"greeted", "bad"}
       \/ hello = "greeted" /\ next \in {"connect", "other"}
    /\ hello' = next
    /\ UNCHANGED <<kind, answer, sent, end, pc, data, reply, conn, deferred, copying, contexts>>

(* A refusal over HTTP can have a body that takes its time.                *)
Answer(a) ==
    /\ Present("remote")
    /\ answer = "none" \/ (answer = "refusing" /\ a = "refuse")
    /\ a = "refusing" => kind.upstream = "http"
    /\ answer' = a
    /\ UNCHANGED <<kind, hello, sent, end, pc, data, reply, conn, deferred, copying, contexts>>

Send(s) ==
    /\ Present(s)
    /\ IF s = "client" THEN hello = "connect" ELSE answer = "accept"
    /\ sent[s] < MaxSent
    /\ sent' = [sent EXCEPT ![s] = @ + 1]
    /\ wire' = [wire EXCEPT ![s] = Append(@, sent[s] + 1)]
    /\ UNCHANGED <<kind, hello, answer, end, pc, early, got, reply, conn, deferred, copying, contexts>>

(* It sends no more, but goes on receiving.                                *)
Finish(s) ==
    /\ Present(s)
    /\ end' = [end EXCEPT ![s] = "finished"]
    /\ UNCHANGED <<kind, hello, answer, sent, pc, data, reply, conn, deferred, copying, contexts>>

(* It is gone; a reset may take along what it had sent.                    *)
Leave(s) ==
    /\ end[s] # "gone"
    /\ conn[s] \notin {"none", "closed"}
    /\ end' = [end EXCEPT ![s] = "gone"]
    /\ wire' \in {wire, [wire EXCEPT ![s] = <<>>]}
    /\ UNCHANGED <<kind, hello, answer, sent, pc, early, got, reply, conn, deferred, copying, contexts>>

Cancel ==
    /\ ~cancelled
    /\ cancelled' = TRUE
    /\ UNCHANGED <<peers, pc, data, reply, conn, deferred, copying, request>>

----------------------------------------------------------------------------

Init ==
    /\ kind \in [listener : Protocols, upstream : Protocols]
    /\ pc = IF kind.listener = "http" THEN "header" ELSE "greeting"
    /\ hello = IF kind.listener = "http" THEN "connect" ELSE "none"
    /\ answer = "none"
    /\ sent = [s \in Sides |-> 0]
    /\ end = [s \in Sides |-> "open"]
    /\ wire = [s \in Sides |-> <<>>]
    /\ early = [s \in Sides |-> <<>>]
    /\ got = [s \in Sides |-> <<>>]
    /\ reply = "none"
    /\ conn = [s \in Sides |-> IF s = "remote" THEN "none"
                               ELSE IF kind.listener = "http" THEN "server" ELSE "open"]
    /\ deferred = IF kind.listener = "http" THEN {} ELSE {"client"}
    /\ copying = [s \in Sides |-> FALSE]
    /\ cancelled = FALSE
    /\ request = IF kind.listener = "http" THEN "watched" ELSE "none"

Handler ==
    \/ Negotiate \/ NegotiateFails \/ ReadRequest \/ RequestFails
    \/ \E n \in 0..Len(wire["client"]) : ServeConnect(n)
    \/ Connected \/ ConnectFails
    \/ \E n \in 0..Len(wire["remote"]) : Accepted(n)
    \/ ExchangeFails \/ DialFails
    \/ Hijack \/ HijackFails \/ ReplySuccess \/ ReplyFails \/ ForwardEarly \/ ForwardFails
    \/ PumpReturns

Direction(s) == Copy(s) \/ CopyEnds(s)

Peers ==
    \/ \E next \in {"greeted", "bad", "connect", "other"} : Ask(next)
    \/ \E a \in {"accept", "refusing", "refuse"} : Answer(a)
    \/ \E s \in Sides : Send(s) \/ Finish(s) \/ Leave(s)

Next ==
    \/ Handler
    \/ ReadBackground
    \/ \E s \in Sides : Direction(s)
    \/ CloseClient \/ CloseBoth
    \/ Peers
    \/ Cancel

Spec == Init /\ [][Next]_vars

(* Goroutines that can run do, and the dial has a timeout.  Nothing is     *)
(* assumed about the client, the remote side, or the stop.                 *)
FairSpec ==
    /\ Spec
    /\ WF_vars(Handler)
    /\ \A s \in Sides : WF_vars(Direction(s))
    /\ WF_vars(CloseClient)
    /\ WF_vars(CloseBoth)

----------------------------------------------------------------------------

TypeOK ==
    /\ kind \in [listener : Protocols, upstream : Protocols]
    /\ pc \in {"greeting", "request", "header", "dial", "exchange", "refuse", "hijack", "reply",
               "early", "pump", "ended"}
    /\ hello \in {"none", "greeted", "bad", "connect", "other"}
    /\ answer \in {"none", "accept", "refusing", "refuse"}
    /\ sent \in [Sides -> 0..MaxSent]
    /\ end \in [Sides -> {"open", "finished", "gone"}]
    /\ wire \in [Sides -> Seq(1..MaxSent)]
    /\ early \in [Sides -> Seq(1..MaxSent)]
    /\ got \in [Sides -> Seq(1..MaxSent)]
    /\ reply \in {"none", "method", "failed", "ok"}
    /\ conn \in [Sides -> {"none", "server", "open", "eof", "closed"}]
    /\ deferred \subseteq Sides
    /\ copying \in [Sides -> BOOLEAN]
    /\ cancelled \in BOOLEAN
    /\ request \in {"none", "watched", "read", "cancelled"}

(* What a side receives is what the other has sent, from its first byte on *)
(* and in order, through both buffers that had read ahead: CONNECT data    *)
(* that came with the request or before the reply, and data that the       *)
(* target sent right behind the upstream proxy's answer.  A client gets it *)
(* after the reply.                                                        *)
StreamsIntact ==
    /\ \A s \in Sides :
          /\ Len(got[s]) <= sent[Other(s)]
          /\ \A i \in 1..Len(got[s]) : got[s][i] = i
    /\ got["client"] # <<>> => reply = "ok"

(* A tunnel is not cut short: a side that is told of the end, or closed,   *)
(* though nobody has left or stopped the process, has received everything. *)
EndsWhole ==
    \A s \in Sides :
        /\ reply = "ok"
        /\ conn[s] \in {"eof", "closed"}
        /\ ~Done
        /\ \A t \in Sides : end[t] # "gone"
        => Ended(Other(s)) /\ Len(got[s]) = sent[Other(s)]

(* The handshakes, dials, buffers and goroutines amount to a pipe.         *)
ImplementsPipe == Joined!Spec

(* Whichever way the handler has ended, every connection it had made or    *)
(* taken over is closed, though no one place closes them: the dialer, the  *)
(* branches of connect before its defers, and the defers of both servers   *)
(* have to leave no gap.  A client that is still to be told of a failed    *)
(* dial does not hold the connection to the upstream proxy meanwhile.      *)
NothingLeaks ==
    /\ pc = "ended" => \A s \in Sides : conn[s] \notin Owned
    /\ pc = "refuse" => conn["remote"] \notin Owned

(* A tunnel all of whose sides have ended theirs ends, at any stage, the   *)
(* handshake included.  The client alone cannot make it end: its end is    *)
(* not passed on to a remote side that has been connected to.              *)
TunnelEnds ==
    (\A s \in Sides : Ended(s) \/ conn[s] = "none")
    ~> pc = "ended" \/ (conn["remote"] = "open" /\ ~Ended("remote"))

(* The end of what the remote side sends reaches the client, also when the *)
(* client itself goes on.                                                  *)
EndReachesClient == pc = "pump" /\ Ended("remote") ~> conn["client"] \in {"eof", "closed"}

(* A stop of the process ends every tunnel, except one whose upstream      *)
(* proxy has not answered a CONNECT, or not sent all of its refusal: that  *)
(* exchange does not see the stop.                                         *)
CancelEnds ==
    cancelled ~> pc = "ended" \/ (pc = "exchange" /\ kind.upstream = "http")

----------------------------------------------------------------------------
(* What makes the safety properties inductive.                             *)

Counts(items, n) == \A i \in 1..Len(items) : items[i] = n + i

(* What has been sent is on its way in one piece: received, read ahead,    *)
(* unread.  What goes to a side that is gone does not matter.              *)
StreamsFlow ==
    \A s \in Sides :
        LET o == Other(s)
        IN
        /\ Counts(got[o], 0)
        /\ Len(got[o]) <= sent[s]
        /\ end[o] # "gone" =>
              /\ Counts(early[s], Len(got[o]))
              /\ Counts(wire[s], Len(got[o]) + Len(early[s]))
              /\ Len(got[o]) + Len(early[s]) + Len(wire[s]) <= sent[s]
              /\ end[s] # "gone" => Len(got[o]) + Len(early[s]) + Len(wire[s]) = sent[s]

(* How far the handler is and what it has.                                 *)
HandlerFollows ==
    /\ pc \in {"greeting", "request"} => kind.listener = "socks5"
    /\ pc \in {"header", "hijack", "early"} => kind.listener = "http"
    /\ pc \in {"early", "pump"} => reply = "ok"
    /\ pc \notin {"early", "pump", "ended"} => reply # "ok"
    /\ pc # "ended" => reply # "failed"
    /\ pc \notin {"pump", "ended"} => got["client"] = <<>>
    /\ got["client"] # <<>> => reply = "ok"
    /\ pc # "pump" => \A s \in Sides : ~copying[s]

(* Its connections: only a cancelled context closes one under a handler    *)
(* that goes on.                                                           *)
ConnsFollow ==
    /\ conn["remote"] # "eof" /\ conn["client"] # "none"
    /\ pc \in {"greeting", "request", "header", "dial"} => conn["remote"] = "none"
    /\ pc \in {"exchange", "hijack", "reply", "early"} => conn["remote"] = "open"
    /\ pc = "refuse" => conn["remote"] \in {"none", "closed"}
    /\ kind.listener = "http" /\ pc \in {"header", "dial", "exchange", "refuse", "hijack"} =>
          conn["client"] = "server"
    /\ kind.listener = "socks5" \/ pc \in {"reply", "early"} => conn["client"] # "server"
    /\ pc = "pump" => conn["client"] \in {"open", "eof", "closed"} /\ conn["remote"] \in {"open", "closed"}
    /\ pc \notin {"refuse", "ended"} => \A s \in Sides : conn[s] = "closed" => Done
    /\ conn["client"] = "eof" => pc = "pump" /\ ~copying["remote"]
    /\ pc = "ended" => \A s \in Sides : conn[s] \notin Owned

(* What the handler owns is closed however it returns, except while the    *)
(* dialer still has the connection, and until connect has hijacked.        *)
DefersFollow ==
    /\ kind.listener = "socks5" => "client" \in deferred
    /\ pc \in {"reply", "early", "pump"} => deferred = Sides

(* As long as nothing was cut off, a direction is over when all that its   *)
(* side had to send has been delivered.                                    *)
Undisturbed == ~Done /\ \A s \in Sides : end[s] # "gone"

DirectionsEndWhole ==
    Undisturbed =>
        \A s \in Sides :
            (pc = "pump" /\ ~copying[s]) \/ (pc = "ended" /\ reply = "ok")
            => Ended(s) /\ early[s] = <<>> /\ wire[s] = <<>>

Inv ==
    /\ TypeOK
    /\ StreamsFlow
    /\ HandlerFollows
    /\ ConnsFollow
    /\ DefersFollow
    /\ DirectionsEndWhole

=============================================================================
