------------------------------- MODULE Session ------------------------------
(***************************************************************************)
(* One proxied TCP connection from accept to close: the inbound's          *)
(* handshake (protocol/socks5.cpp, protocol/http_proxy.cpp), the dispatch  *)
(* to an outbound (main.cpp), and the outbounds DirectOutbound,            *)
(* VlessOutbound and BlockOutbound with their two relay coroutines.        *)
(*                                                                         *)
(* A socket is what it has received and not handed over yet (buf), the way *)
(* its peer ended it (end), and whether the peer does nothing at present   *)
(* (stalled): it does not read, or a remote that is being connected does   *)
(* not answer.                                                             *)
(* Data are units: Req the proxy request, VlessReq and VlessHdr the VLESS  *)
(* request and response headers, Ok the success reply, Empty a WebSocket   *)
(* message of length zero, and the numbers 1, 2, ... the payload of each   *)
(* direction.                                                              *)
(***************************************************************************)
EXTENDS Integers, SequencesExt

CONSTANTS
    MaxUp,      \* bound: payload units the client sends
    MaxDown     \* bound: payload units the remote sends

ASSUME SessionAssumption == MaxUp \in Nat /\ MaxDown \in Nat

VARIABLES
    via,        \* the inbound protocol, the outbound, override_address
    pc,         \* control state of handle_client and handle
    in,         \* the client's socket
    out,        \* the remote's socket
    head,       \* what handle still writes before the relays start
    up,         \* the relay from client to remote
    down,       \* the relay from remote to client
    toRemote,   \* what reached the remote
    toClient,   \* what reached the client
    sent,       \* payload units sent so far by each side
    dropped     \* payload units read with a CONNECT request and forgotten

vars == << via, pc, in, out, head, up, down, toRemote, toClient, sent, dropped >>

Protocols == {"socks5", "connect", "absolute", "tun"}
Outbounds == {"direct", "vless_tcp", "vless_ws", "block", "unknown"}
IsVless   == via.out \in {"vless_tcp", "vless_ws"}

\* The units that are not payload.
Req      == -1
VlessReq == -2
VlessHdr == -3
Ok       == -4
Empty    == -5
Nothing  == 0      \* a relay holds no unit

Quiet == [buf |-> << >>, end |-> "none", stalled |-> FALSE]
Idle  == [st |-> "idle", unit |-> Nothing, first_message |-> TRUE]

Init ==
    /\ via \in [in : Protocols, out : Outbounds, override_address : BOOLEAN]
    /\ pc = IF via.in = "tun" THEN "dispatch" ELSE "handshake"
    /\ in = IF via.in = "tun" THEN Quiet ELSE [Quiet EXCEPT !.buf = << Req >>]
    /\ out = Quiet
    /\ head = << >>
    /\ up = Idle
    /\ down = Idle
    /\ toRemote = << >>
    /\ toClient = << >>
    /\ sent = [client |-> 0, remote |-> 0]
    /\ dropped = 0

-----------------------------------------------------------------------------
(***************************************************************************)
(* The handshake of the inbound.                                           *)
(***************************************************************************)

\* An exception anywhere before the relays: the sockets are closed.
Abandon == pc' = "closing" /\ UNCHANGED << in, head, toClient, dropped >>

\* socks5::read_session reads exactly the bytes of the request; the reply
\* goes out before any outbound is connected.
ReadSocks5 ==
    /\ in' = [in EXCEPT !.buf = Tail(@)]
    /\ toClient' = << Ok >>
    /\ UNCHANGED << head, dropped >>

\* http_proxy::read_session reads up to the end of the header and whatever
\* came with it, n units.  For CONNECT these are forgotten; otherwise they
\* follow the rewritten request in initial_payload.
ReadHttp(n) ==
    LET rest == Tail(in.buf)
    IN  /\ in' = [in EXCEPT !.buf = SubSeq(rest, n + 1, Len(rest))]
        /\ IF via.in = "connect"
           THEN /\ toClient' = << Ok >>
                /\ dropped' = n
                /\ UNCHANGED head
           ELSE /\ head' = << Req >> \o SubSeq(rest, 1, n)
                /\ UNCHANGED << toClient, dropped >>

\* read_session, or its exception: a malformed request, a client that left.
Handshake ==
    /\ pc = "handshake"
    /\ \/ /\ in.buf # << >>
          /\ pc' = "dispatch"
          /\ IF via.in = "socks5" THEN ReadSocks5
             ELSE \E n \in 0 .. (Len(in.buf) - 1) : ReadHttp(n)
       \/ Abandon
    /\ UNCHANGED << via, out, up, down, toRemote, sent >>

\* The handler of main: an unknown tag throws, BlockOutbound closes, and
\* VlessOutbound may first wait for the client's first bytes.
Dispatch ==
    /\ pc = "dispatch"
    /\ pc' = CASE via.out \in {"block", "unknown"} -> "closing"
               [] IsVless /\ via.override_address /\ head = << >> -> "sniff"
               [] OTHER -> "connect"
    /\ UNCHANGED << via, in, out, head, up, down, toRemote, toClient, sent, dropped >>

\* VlessOutbound::read_initial_payload.
ReadInitialPayload ==
    /\ pc = "sniff"
    /\ \/ /\ in.buf # << >>
          /\ head' = << Head(in.buf) >>
          /\ in' = [in EXCEPT !.buf = Tail(@)]
          /\ pc' = "connect"
       \/ /\ in.buf = << >> /\ in.end \in {"eof", "reset"}
          /\ pc' = "connect"
          /\ UNCHANGED << in, head >>
       \/ /\ in.buf = << >> /\ in.end = "error"
          /\ pc' = "closing"
          /\ UNCHANGED << in, head >>
    /\ UNCHANGED << via, out, up, down, toRemote, toClient, sent, dropped >>

\* Mutant of Connect: the first bytes of the client are not kept.
Connect_no_payload ==
    /\ pc = "connect" /\ ~out.stalled
    /\ pc' = "head" /\ head' = IF IsVless THEN << VlessReq >> ELSE << >>
    /\ UNCHANGED << via, in, out, up, down, toRemote, toClient, sent, dropped >>

\* connector_.connect (and the TLS and WebSocket handshakes), which waits for
\* the remote, or for a nameserver asked for its name, as long as they are
\* silent; then the VLESS request goes in front of the initial payload.  It
\* fails too when the name found in the first bytes is one that Host::domain
\* refuses.
Connect ==
    /\ pc = "connect" /\ ~out.stalled
    /\ \/ pc' = "head" /\ head' = IF IsVless THEN << VlessReq >> \o head ELSE head
       \/ pc' = "closing" /\ UNCHANGED head
    /\ UNCHANGED << via, in, out, up, down, toRemote, toClient, sent, dropped >>

-----------------------------------------------------------------------------
(***************************************************************************)
(* Reads and writes.                                                       *)
(***************************************************************************)

\* What writing to socket s can come to.  Errors that is_stream_closed knows
\* are "closed"; a reset also shows up as others (connection_aborted,
\* broken_pipe).
WriteResults(s) ==
    CASE s.end = "reset" -> {"closed", "error"}
      [] s.end = "error" -> {"error"}
      [] OTHER           -> IF s.stalled THEN {} ELSE {"ok"}

\* What a write towards the remote does to its coroutine: asio::async_write
\* throws, Stream::write returns normally on a closed stream.
UpWrite(r) ==
    CASE r = "ok" -> "goes on"
      [] r = "closed" -> IF IsVless THEN "goes on" ELSE "throws"
      [] r = "error" -> "throws"

WriteHead ==
    /\ pc = "head"
    /\ head # << >>
    /\ \E r \in WriteResults(out) :
          /\ toRemote' = IF r = "ok" THEN Append(toRemote, Head(head)) ELSE toRemote
          /\ IF UpWrite(r) = "goes on"
             THEN head' = Tail(head) /\ UNCHANGED pc
             ELSE pc' = "closing" /\ UNCHANGED head
    /\ UNCHANGED << via, in, out, up, down, toClient, sent, dropped >>

StartRelays ==
    /\ pc = "head"
    /\ head = << >>
    /\ pc' = "relay"
    /\ up' = [up EXCEPT !.st = "read"]
    /\ down' = [down EXCEPT !.st = "read"]
    /\ UNCHANGED << via, in, out, head, toRemote, toClient, sent, dropped >>

-----------------------------------------------------------------------------
(***************************************************************************)
(* relay || relay: the first one to return normally cancels the other; an  *)
(* exception in one leaves the other running (external: the operator|| of  *)
(* asio's awaitable_operators).                                            *)
(***************************************************************************)

\* Mutant of Settled: any completion, an exception too, cancels the other.
Settled_any(u, d) == {u.st, d.st} \cap {"done", "threw"} # {}

\* Mutant of Settled: relay && relay.
Settled_all(u, d) == {u.st, d.st} \subseteq {"done", "threw"}

Settled(u, d) == "done" \in {u.st, d.st} \/ (u.st = "threw" /\ d.st = "threw")

Settle == pc' = IF Settled(up', down') THEN "closing" ELSE pc

Afterwards(end) == IF end \in {"eof", "reset"} THEN "done" ELSE "threw"

\* A relay whose write is over reads again, unless it was cancelled.
WriteOver(c) ==
    [c EXCEPT !.st = IF pc = "relay" THEN "read" ELSE "cancelled", !.unit = Nothing]

\* async_read_some of the upward relay.
UpRead ==
    /\ pc = "relay" /\ up.st = "read"
    /\ \/ /\ in.buf # << >>
          /\ up' = [up EXCEPT !.st = "write", !.unit = Head(in.buf)]
          /\ in' = [in EXCEPT !.buf = Tail(@)]
       \/ /\ in.buf = << >> /\ in.end # "none"
          /\ up' = [up EXCEPT !.st = Afterwards(in.end)]
          /\ UNCHANGED in
    /\ UNCHANGED down
    /\ Settle
    /\ UNCHANGED << via, out, head, toRemote, toClient, sent, dropped >>

\* Its write; one that was under way when it was cancelled may still land.
UpWriteDone ==
    /\ pc \in {"relay", "closing"} /\ up.st = "write"
    /\ \E r \in WriteResults(out) :
          /\ toRemote' = IF r = "ok" THEN Append(toRemote, up.unit) ELSE toRemote
          /\ up' = IF UpWrite(r) = "throws" THEN [up EXCEPT !.st = "threw"]
                   ELSE WriteOver(up)
    /\ UNCHANGED down
    /\ Settle
    /\ UNCHANGED << via, in, out, head, toClient, sent, dropped >>

\* Mutant of Strips: no message is stripped.
Strips_never == FALSE

\* if (first_message), in relay_stream_to_tcp.
Strips == IsVless /\ down.first_message

\* Stream::read or async_read_some of the downward relay.  An empty message
\* is taken for the end of the stream.  The first message loses its header
\* to strip_response_header; a TCP stream may have returned less than the
\* header, which throws.
DownRead ==
    /\ pc = "relay" /\ down.st = "read"
    /\ \/ /\ out.buf # << >> /\ Head(out.buf) = Empty
          /\ out' = [out EXCEPT !.buf = Tail(@)]
          /\ down' = [down EXCEPT !.st = "done", !.unit = Empty]
       \/ /\ out.buf # << >> /\ Head(out.buf) # Empty
          /\ out' = [out EXCEPT !.buf = Tail(@)]
          /\ \/ /\ ~Strips
                /\ down' = [down EXCEPT !.st = "write", !.unit = Head(out.buf)]
             \/ /\ Strips
                /\ down' = [down EXCEPT !.first_message = FALSE]
             \/ /\ Strips /\ via.out = "vless_tcp"
                /\ down' = [down EXCEPT !.first_message = FALSE, !.st = "threw"]
       \/ /\ out.buf = << >> /\ out.end # "none"
          /\ down' = [down EXCEPT !.st = Afterwards(out.end)]
          /\ UNCHANGED out
    /\ UNCHANGED up
    /\ Settle
    /\ UNCHANGED << via, in, head, toRemote, toClient, sent, dropped >>

\* Its write to the client: DirectOutbound throws on every error,
\* VlessOutbound returns when the client's socket is closed.
DownWriteDone ==
    /\ pc \in {"relay", "closing"} /\ down.st = "write"
    /\ \E r \in WriteResults(in) :
          /\ toClient' = IF r = "ok" THEN Append(toClient, down.unit) ELSE toClient
          /\ down' = CASE r = "ok" -> WriteOver(down)
                       [] r = "closed" /\ IsVless -> [down EXCEPT !.st = "done"]
                       [] OTHER -> [down EXCEPT !.st = "threw"]
    /\ UNCHANGED up
    /\ Settle
    /\ UNCHANGED << via, in, out, head, toRemote, sent, dropped >>

\* Both sockets are closed, by close or by their destructors.
Close ==
    /\ pc = "closing"
    /\ pc' = "over"
    /\ UNCHANGED << via, in, out, head, up, down, toRemote, toClient, sent, dropped >>

-----------------------------------------------------------------------------
(***************************************************************************)
(* External: the client and the remote.                                    *)
(***************************************************************************)
Connected == pc \in {"head", "relay"}

ClientSends ==
    /\ pc # "over"
    /\ in.end = "none"
    /\ sent.client < MaxUp
    /\ sent' = [sent EXCEPT !.client = @ + 1]
    /\ in' = [in EXCEPT !.buf = Append(@, sent.client + 1)]
    /\ UNCHANGED << via, pc, out, head, up, down, toRemote, toClient, dropped >>

\* A VLESS server puts its header in front of its first payload.
RemoteSends ==
    /\ Connected
    /\ out.end = "none"
    /\ sent.remote < MaxDown
    /\ sent' = [sent EXCEPT !.remote = @ + 1]
    /\ out' = [out EXCEPT !.buf =
          @ \o (IF IsVless /\ sent.remote = 0 THEN << VlessHdr >> ELSE << >>)
            \o << sent.remote + 1 >>]
    /\ UNCHANGED << via, pc, in, head, up, down, toRemote, toClient, dropped >>

\* A WebSocket server may send a message without payload.
RemoteSendsEmpty ==
    /\ Connected
    /\ via.out = "vless_ws"
    /\ out.end = "none"
    /\ Empty \notin ToSet(out.buf)
    /\ out' = [out EXCEPT !.buf = Append(@, Empty)]
    /\ UNCHANGED << via, pc, in, head, up, down, toRemote, toClient, sent, dropped >>

\* A half or full close, a reset (which may discard what was received), or
\* the connection is lost in another way (timed_out).
Ended(s) ==
    {[s EXCEPT !.end = e, !.buf = b] :
       e \in {"reset", "error"}, b \in {s.buf, << >>}} \cup {[s EXCEPT !.end = "eof"]}

ClientEnds ==
    /\ pc # "over"
    /\ in.end = "none"
    /\ in' \in Ended(in)
    /\ UNCHANGED << via, pc, out, head, up, down, toRemote, toClient, sent, dropped >>

RemoteEnds ==
    /\ Connected
    /\ out.end = "none"
    /\ out' \in Ended(out)
    /\ UNCHANGED << via, pc, in, head, up, down, toRemote, toClient, sent, dropped >>

ClientStalls ==
    /\ pc # "over"
    /\ in' = [in EXCEPT !.stalled = ~@]
    /\ UNCHANGED << via, pc, out, head, up, down, toRemote, toClient, sent, dropped >>

\* The remote, or the way to it, may be silent before it is connected too.
RemoteStalls ==
    /\ pc = "connect" \/ Connected
    /\ out' = [out EXCEPT !.stalled = ~@]
    /\ UNCHANGED << via, pc, in, head, up, down, toRemote, toClient, sent, dropped >>

-----------------------------------------------------------------------------
Handler ==
    \/ Handshake \/ Dispatch \/ ReadInitialPayload \/ Connect
    \/ WriteHead \/ StartRelays \/ Close
UpRelay   == UpRead \/ UpWriteDone
DownRelay == DownRead \/ DownWriteDone

Next ==
    \/ Handler \/ UpRelay \/ DownRelay
    \/ ClientSends \/ RemoteSends \/ RemoteSendsEmpty \/ ClientEnds \/ RemoteEnds
    \/ ClientStalls \/ RemoteStalls

\* The io_context runs what is ready; nothing forces the peers.
Fairness == WF_vars(Handler) /\ WF_vars(UpRelay) /\ WF_vars(DownRelay)

Spec == Init /\ [][Next]_vars /\ Fairness

-----------------------------------------------------------------------------
(***************************************************************************)
(* Properties.                                                             *)
(***************************************************************************)
\* What the remote should see: the VLESS request, the rewritten HTTP request,
\* then the client's units behind those that came with a CONNECT request.
Headers ==
    (IF IsVless THEN << VlessReq >> ELSE << >>)
    \o (IF via.in = "absolute" THEN << Req >> ELSE << >>)
UpUnit(i) == IF i <= Len(Headers) THEN Headers[i] ELSE dropped + (i - Len(Headers))

\* What the client should see: the proxy's reply, then the remote's units.
Replies == IF via.in \in {"socks5", "connect"} THEN 1 ELSE 0
DownUnit(i) == IF i <= Replies THEN Ok ELSE i - Replies

\* What the remote receives is the headers and then what the client sent, in
\* order, without a gap and nothing else, across initial_payload, the sniffed
\* first bytes and the relay.  The only units missing came with a CONNECT
\* request.
UpstreamIntact ==
    /\ \A i \in DOMAIN toRemote : toRemote[i] = UpUnit(i)
    /\ dropped + (Len(toRemote) - Len(Headers)) <= sent.client
    /\ dropped > 0 => via.in = "connect"

\* What the client receives is the proxy's reply and then what the remote
\* sent, in order, without a gap and nothing else; the VLESS response header
\* is not in it.
DownstreamIntact ==
    /\ \A i \in DOMAIN toClient : toClient[i] = DownUnit(i)
    /\ Len(toClient) - Replies <= sent.remote

\* While the client is there, a session never ends with bytes of the remote
\* unread or undelivered, even when the upward relay has failed: unless the
\* downward relay threw or was ended by an empty message, it has drained the
\* remote's socket.
NothingAbandoned ==
    /\ pc \in {"closing", "over"}
    /\ up.st # "idle"
    /\ in.end = "none"
    /\ down.st # "threw" /\ down.unit # Empty
    => out.buf = << >> /\ down.st # "write"

Stalled == in.stalled \/ out.stalled

\* Once the client has closed, or the remote has while its relay still runs,
\* the session ends, unless a peer has stopped reading or the remote does not
\* answer while it is being connected (there is no timeout, and a client that
\* leaves does not end the wait).
PeerCloseEndsSession ==
    /\ (in.end \in {"eof", "reset"}) ~> (pc = "over" \/ Stalled)
    /\ (out.end \in {"eof", "reset"}) ~> (pc = "over" \/ Stalled \/ down.st = "threw")
=============================================================================
