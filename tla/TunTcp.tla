------------------------------- MODULE TunTcp -------------------------------
(***************************************************************************)
(* The TCP half of the TUN inbound (inbound/tun_inbound.cpp).  A TCP       *)
(* packet of an application is rewritten to go from tun_next_ip:nat_port   *)
(* to the relay listening on tun_ip (handle_tcp_from_stack); the relay's   *)
(* packets are rewritten back (handle_tcp_from_local_relay); accept_loop   *)
(* and handle_client find a connection's real destination by its peer port *)
(* and erase the NAT session when the handler is done.                     *)
(*                                                                         *)
(* The two ends of a connection are in the operating system's TCP stack,   *)
(* which is external: an application opens connections, one at a time per  *)
(* flow key, and either end may send a packet as long as it exists, also   *)
(* after the other end is gone (retransmissions, FIN, RST).  A reset takes *)
(* the relay socket out of the stack at once, while handle_client goes on  *)
(* until handler_ notices; its peer port may then be connected again.      *)
(***************************************************************************)
EXTENDS NatTable

CONSTANT MaxConns    \* bound: connections opened by applications

\* tcp_nat_ is made with max_sessions_ = 0.
ASSUME TunTcpAssumption == MaxConns \in Nat /\ MaxSessions = 0

VARIABLES
    tcp_nat_,   \* the NAT table (no session limit)
    conns,      \* the connections opened so far
    spinning,   \* the packet thread is caught in allocate_port_locked
    allocs,     \* history: how often each port was handed out
    stray,      \* history: ports handed out for a packet that opened nothing
    toRelay,    \* history: packets that reached another flow's relay socket
    toApp,      \* history: relay packets that went to another flow
    robbed      \* history: sessions erased under a connection being relayed

vars == << tcp_nat_, conns, spinning, allocs, stray, toRelay, toApp, robbed >>

Conns == 1 .. Len(conns)

Init ==
    /\ tcp_nat_ = EmptyTable
    /\ conns = << >>
    /\ spinning = FALSE
    /\ allocs = [p \in Ports |-> 0]
    /\ stray = {}
    /\ toRelay = {}
    /\ toApp = {}
    /\ robbed = {}

\* accept_loop and handle_client are not done with connection c.
Handling(c) == conns[c].relay \in {"backlog", "accepted", "relaying", "erase"}

\* c's relay socket is an open connection of the stack: not yet accepted, or
\* held by a handler, and not reset by its peer.
RelayAlive(c) == conns[c].socket = "open"

\* The process closes a socket, which may have been reset before.
Closed(socket) == IF socket = "open" THEN "closing" ELSE socket

\* The port of c's relay socket was handed out again after c got it.
Reused(c, count) == count[conns[c].port] > conns[c].born

\* The relay socket whose peer port is p, if the stack has one.
RelayOf(p) == {c \in Conns : RelayAlive(c) /\ conns[c].port = p}

-----------------------------------------------------------------------------
(***************************************************************************)
(* External: the applications and the TCP stack.                           *)
(***************************************************************************)

\* An application connects; the stack reuses a flow key only after the
\* earlier connection's end is gone.
Open(k) ==
    /\ Len(conns) < MaxConns
    /\ \A c \in Conns : conns[c].key = k => conns[c].app = "gone"
    /\ conns' = Append(conns, [key |-> k, app |-> "syn", relay |-> "none", socket |-> "none",
                               port |-> NoPort, born |-> 0, session |-> NoKey])
    /\ UNCHANGED << tcp_nat_, spinning, allocs, stray, toRelay, toApp, robbed >>

\* The application's end disappears and sends nothing any more.
AppGone(c) ==
    /\ conns[c].app # "gone"
    /\ conns' = [conns EXCEPT ![c].app = "gone"]
    /\ UNCHANGED << tcp_nat_, spinning, allocs, stray, toRelay, toApp, robbed >>

\* A reset of the application's, or a timeout of its own, ends a relay socket;
\* the stack may then drop one that was not yet accepted.
RelayReset(c) ==
    /\ RelayAlive(c)
    /\ \/ /\ conns' = [conns EXCEPT ![c].socket = "reset"]
          /\ UNCHANGED stray
       \/ /\ conns[c].relay = "backlog"
          /\ conns' = [conns EXCEPT ![c].socket = "reset", ![c].relay = "ended"]
          /\ stray' = stray \cup {conns[c].port}
    /\ UNCHANGED << tcp_nat_, spinning, allocs, toRelay, toApp, robbed >>

-----------------------------------------------------------------------------
(***************************************************************************)
(* The packet thread.                                                      *)
(***************************************************************************)

\* handle_tcp_from_stack on a packet of c.  The rewritten packet goes to the
\* relay's listener: a SYN opens a relay socket for its port unless the stack
\* still has one, another packet reaches the socket with that peer port.
FromStack(c) ==
    /\ ~spinning
    /\ conns[c].app # "gone"
    /\ ~Exhausted(tcp_nat_, conns[c].key)
    /\ LET r == lookup_or_create(tcp_nat_, conns[c].key)
           p == r.nat_port
           fresh == tcp_nat_.forward[conns[c].key] = NoPort
           opens == conns[c].app = "syn" /\ RelayOf(p) = {}
       IN  /\ tcp_nat_' = r.table
           /\ allocs' = IF fresh THEN [allocs EXCEPT ![p] = @ + 1] ELSE allocs
           /\ stray' = IF opens THEN stray \ {p}
                       ELSE IF fresh THEN stray \cup {p} ELSE stray
           /\ conns' = IF opens
                       THEN [conns EXCEPT ![c].app = "open", ![c].relay = "backlog",
                                          ![c].socket = "open", ![c].port = p,
                                          ![c].born = allocs'[p]]
                       ELSE conns
           /\ toRelay' = IF opens THEN toRelay
                         ELSE toRelay \cup
                              {[from |-> c, to |-> d, reused |-> Reused(d, allocs')] :
                                  d \in {e \in RelayOf(p) : conns[e].key # conns[c].key}}
    /\ UNCHANGED << spinning, toApp, robbed >>

\* The same with every port mapped: the search for a port does not end.
FromStackForever(c) ==
    /\ ~spinning
    /\ conns[c].app # "gone"
    /\ Exhausted(tcp_nat_, conns[c].key)
    /\ spinning' = TRUE
    /\ UNCHANGED << tcp_nat_, conns, allocs, stray, toRelay, toApp, robbed >>

\* handle_tcp_from_local_relay on a packet of c's relay socket, which the
\* stack may send until some time after the socket is closed: dropped when
\* the session is unknown.
FromLocalRelay(c) ==
    /\ ~spinning
    /\ conns[c].socket \in {"open", "closing"}
    /\ LET k == lookup_back(tcp_nat_, conns[c].port)
       IN  toApp' = IF k \in {NoKey, conns[c].key} THEN toApp
                    ELSE toApp \cup {[from |-> c, to |-> k, reused |-> Reused(c, allocs)]}
    /\ UNCHANGED << tcp_nat_, conns, spinning, allocs, stray, toRelay, robbed >>

-----------------------------------------------------------------------------
(***************************************************************************)
(* The io thread, which runs from the return of handler_ to the erasure    *)
(* without taking up another coroutine.                                    *)
(***************************************************************************)
IoFree == \A c \in Conns : conns[c].relay # "erase"

\* accept_loop takes a connection and spawns handle_client.
Accept(c) ==
    /\ IoFree
    /\ conns[c].relay = "backlog"
    /\ conns' = [conns EXCEPT ![c].relay = "accepted"]
    /\ UNCHANGED << tcp_nat_, spinning, allocs, stray, toRelay, toApp, robbed >>

\* Mutant of HandleClient: the session is erased before it is used.
HandleClient_erase_early(c) ==
    /\ ~spinning /\ IoFree
    /\ conns[c].relay = "accepted"
    /\ LET k == lookup_back(tcp_nat_, conns[c].port)
       IN  conns' = [conns EXCEPT ![c].relay = IF k = NoKey THEN "ended" ELSE "relaying",
                                  ![c].socket = IF k = NoKey THEN Closed(@) ELSE @,
                                  ![c].session = k]
    /\ tcp_nat_' = erase(tcp_nat_, conns[c].port)
    /\ UNCHANGED << spinning, allocs, stray, toRelay, toApp, robbed >>

\* handle_client up to the call of handler_: the destination is the one the
\* peer port is mapped to; without a session the socket is closed.
HandleClient(c) ==
    /\ ~spinning /\ IoFree
    /\ conns[c].relay = "accepted"
    /\ LET k == lookup_back(tcp_nat_, conns[c].port)
       IN  conns' = [conns EXCEPT ![c].relay = IF k = NoKey THEN "ended" ELSE "relaying",
                                  ![c].socket = IF k = NoKey THEN Closed(@) ELSE @,
                                  ![c].session = k]
    /\ UNCHANGED << tcp_nat_, spinning, allocs, stray, toRelay, toApp, robbed >>

\* remote_endpoint fails because the peer has reset the connection: the
\* socket is closed and the NAT session stays.
HandleClientReset(c) ==
    /\ IoFree
    /\ conns[c].relay = "accepted" /\ conns[c].socket = "reset"
    /\ conns' = [conns EXCEPT ![c].relay = "ended"]
    /\ stray' = stray \cup {conns[c].port}
    /\ UNCHANGED << tcp_nat_, spinning, allocs, toRelay, toApp, robbed >>

\* handler_ returns or throws; it has closed the socket.
HandlerReturns(c) ==
    /\ IoFree
    /\ conns[c].relay = "relaying"
    /\ conns' = [conns EXCEPT ![c].relay = "erase", ![c].socket = Closed(@)]
    /\ UNCHANGED << tcp_nat_, spinning, allocs, stray, toRelay, toApp, robbed >>

\* Mutant of EraseSession: the session is not erased.
EraseSession_forgotten(c) ==
    /\ ~spinning
    /\ conns[c].relay = "erase"
    /\ conns' = [conns EXCEPT ![c].relay = "ended"]
    /\ UNCHANGED << tcp_nat_, spinning, allocs, stray, toRelay, toApp, robbed >>

\* tcp_nat_.erase(nat_port), whoever's session that is by now; the call blocks
\* while the packet thread spins.
EraseSession(c) ==
    /\ ~spinning
    /\ conns[c].relay = "erase"
    /\ tcp_nat_' = erase(tcp_nat_, conns[c].port)
    /\ conns' = [conns EXCEPT ![c].relay = "ended"]
    /\ stray' = stray \ {conns[c].port}
    /\ robbed' = robbed \cup {[by |-> c, of |-> d] : d \in {e \in RelayOf(conns[c].port) :
                                                            conns[e].relay = "relaying"}}
    /\ UNCHANGED << spinning, allocs, toRelay, toApp >>

\* External: the stack forgets the closed relay socket.
RelayGone(c) ==
    /\ conns[c].socket = "closing"
    /\ conns' = [conns EXCEPT ![c].socket = "gone"]
    /\ UNCHANGED << tcp_nat_, spinning, allocs, stray, toRelay, toApp, robbed >>

Next ==
    \/ \E k \in FlowKeys : Open(k)
    \/ \E c \in Conns :
          \/ AppGone(c) \/ RelayReset(c)
          \/ FromStack(c) \/ FromStackForever(c) \/ FromLocalRelay(c)
          \/ Accept(c) \/ HandleClient(c) \/ HandleClientReset(c)
          \/ HandlerReturns(c) \/ EraseSession(c) \/ RelayGone(c)

Spec == Init /\ [][Next]_vars

-----------------------------------------------------------------------------
(***************************************************************************)
(* Properties.                                                             *)
(***************************************************************************)

\* handle_client relays a connection to the destination the application
\* dialled, whatever happened between the SYN and the lookup, unless the port
\* was handed out again in between.
RightDestination ==
    \A c \in Conns :
       \/ conns[c].session \in {NoKey, conns[c].key}
       \/ Reused(c, allocs)

\* An application's packet never reaches the relay socket of another flow,
\* unless the port was handed out again after that socket was opened.
NoCrossTalk == \A x \in toRelay : x.reused

\* A packet of the relay is translated back to the flow its connection
\* belongs to, or dropped, with the same exception.
AnswersReturnToFlow == \A x \in toApp : x.reused

\* Between them: until a port is handed out again, no packet and no accepted
\* socket finds another flow's translation.
PacketsFindTheirFlow == RightDestination /\ NoCrossTalk /\ AnswersReturnToFlow

\* A connection that is relayed keeps its translation as long as its socket
\* is open, unless the handler of another connection erases it: handle_client
\* erases by port number.  That handler's own socket was reset before this one
\* was opened, and the application dialled the same destination from the same
\* port again before the handler noticed; or the port was handed out again.
LiveSessionsKept ==
    /\ \A c \in Conns : conns[c].relay = "relaying" /\ RelayAlive(c) =>
          \/ tcp_nat_.reverse[conns[c].port] = conns[c].session
          \/ \E x \in robbed : x.of = c
    /\ \A x \in robbed :
          /\ conns[x.by].socket = "reset" /\ conns[x.by].port = conns[x.of].port
          /\ conns[x.by].key = conns[x.of].key \/ Reused(x.by, allocs)

\* When every handler is done, the sessions that remain in the table (TCP
\* sessions are never evicted) are those of stray packets: packets that came
\* after the erasure, or a peer that reset before handle_client looked.
LeaksComeFromStrayPackets ==
    (\A c \in Conns : ~Handling(c)) => Used(tcp_nat_) \subseteq stray
=============================================================================
