---------------------------- MODULE TunTcpProofs ----------------------------
(***************************************************************************)
(* Proofs about TunTcp: for any flow keys, any port range and any number   *)
(* of connections, packets and accepted sockets find their own flow until  *)
(* a port is handed out again, relayed connections keep their translation, *)
(* and only stray packets leak sessions.                                   *)
(***************************************************************************)
EXTENDS TunTcp, NatTableProofs

RelayStates == {"none", "backlog", "accepted", "relaying", "erase", "ended"}

SocketStates == {"none", "open", "closing", "reset", "gone"}

Conn == [key : FlowKeys, app : {"syn", "open", "gone"}, relay : RelayStates,
         socket : SocketStates, port : Ports \cup {NoPort}, born : Nat,
         session : FlowKeys \cup {NoKey}]

Typed ==
    /\ WellFormed(tcp_nat_)
    /\ conns \in Seq(Conn)
    /\ allocs \in [Ports -> Nat]

\* A connection has a port once it has a relay socket, which the packet of an
\* unanswered SYN has not, and a session while handler_ runs; only the process
\* itself closes a socket it is not done with.
Shape ==
    \A c \in Conns :
       /\ conns[c].relay = "none" <=> conns[c].port = NoPort
       /\ conns[c].relay = "none" <=> conns[c].socket = "none"
       /\ conns[c].app = "syn" => conns[c].relay = "none"
       /\ conns[c].relay = "none" => conns[c].session = NoKey
       /\ conns[c].relay = "relaying" => conns[c].session # NoKey
       /\ conns[c].relay \in {"backlog", "accepted", "relaying"} =>
             conns[c].socket \in {"open", "reset"}
       /\ conns[c].relay # "none" => conns[c].born <= allocs[conns[c].port]

\* Until it is handed out again, the port of a relay socket is mapped to the
\* connection's own key or to nothing.
Owner ==
    \A c \in Conns : conns[c].relay # "none" =>
       \/ Reused(c, allocs)
       \/ tcp_nat_.reverse[conns[c].port] \in {NoKey, conns[c].key}

\* Every session is that of a connection being handled, or of a stray packet.
Covered ==
    \A p \in Used(tcp_nat_) :
       p \in stray \/ \E c \in Conns : Handling(c) /\ conns[c].port = p

\* An open socket is the only open one of its port, and of the same flow as
\* the others unless the port was handed out again.
Successors ==
    \A c, d \in Conns :
       c # d /\ conns[c].port = conns[d].port /\ conns[c].socket = "open" =>
          /\ conns[d].socket # "open"
          /\ conns[d].key = conns[c].key \/ Reused(d, allocs)

\* A handler about to erase under a relayed connection has had its own socket
\* reset: it did not close the socket itself.
Race ==
    \A c, d \in Conns :
       /\ c # d /\ conns[c].port = conns[d].port
       /\ conns[c].relay = "relaying" /\ conns[c].socket = "open"
       /\ conns[d].relay = "erase"
       => conns[d].socket = "reset"

Robberies == \A x \in robbed : x.by \in Conns /\ x.of \in Conns

IndInv ==
    /\ Typed /\ Shape /\ Owner /\ RightDestination /\ NoCrossTalk
    /\ AnswersReturnToFlow /\ Covered /\ Successors /\ Race /\ Robberies
    /\ LiveSessionsKept

\* Before the first connection.
LEMMA InitInv == Init => IndInv
<1> SUFFICES ASSUME Init PROVE IndInv
  OBVIOUS
<1>1. Typed
  BY EmptyWellFormed DEF Init, Typed
<1>2. Conns = {}
  BY DEF Init, Conns
<1>3. Covered /\ NoCrossTalk /\ AnswersReturnToFlow
  BY EmptyWellFormed DEF Init, Covered, NoCrossTalk, AnswersReturnToFlow
<1>4. Robberies /\ LiveSessionsKept
  BY <1>2 DEF Init, Robberies, LiveSessionsKept
<1> QED
  BY <1>1, <1>2, <1>3, <1>4
     DEF IndInv, Shape, Owner, RightDestination, Successors, Race

-----------------------------------------------------------------------------
(***************************************************************************)
(* One connection changes.                                                 *)
(***************************************************************************)

\* What replacing one connection does to all of them.
LEMMA UpdateFacts ==
  ASSUME Typed, NEW c \in Conns, NEW r \in Conn, conns' = [conns EXCEPT ![c] = r]
  PROVE  /\ conns' \in Seq(Conn)
         /\ Conns' = Conns
         /\ conns'[c] = r
         /\ \A d \in Conns : d # c => conns'[d] = conns[d]
<1>1. conns \in Seq(Conn) /\ Len(conns) \in Nat /\ DOMAIN conns = 1 .. Len(conns)
  BY DEF Typed
<1>2. c \in DOMAIN conns
  BY <1>1 DEF Conns
<1>3. conns' \in Seq(Conn) /\ Len(conns') = Len(conns)
  BY <1>1, <1>2
<1> QED
  BY <1>1, <1>2, <1>3 DEF Conns

\* A connection is a record of its type.
LEMMA ConnFacts ==
  ASSUME Typed, NEW c \in Conns
  PROVE  conns[c] \in Conn
BY DEF Typed, Conns

\* A step of connection c that leaves the table alone: r is what it makes of
\* the connection.
LEMMA MoveInv ==
  ASSUME IndInv, NEW c \in Conns, NEW r \in Conn,
         conns' = [conns EXCEPT ![c] = r],
         UNCHANGED << tcp_nat_, allocs, toRelay, toApp, robbed >>,
         stray \subseteq stray',
         r.key = conns[c].key, r.port = conns[c].port, r.born = conns[c].born,
         r.relay = "none" <=> conns[c].relay = "none",
         r.socket = "none" <=> conns[c].socket = "none",
         r.socket = "open" => conns[c].socket = "open",
         conns[c].socket = "reset" => r.socket = "reset",
         r.relay \in {"backlog", "accepted", "relaying"} => r.socket \in {"open", "reset"},
         r.relay = "erase" => \/ conns[c].relay = "erase"
                              \/ conns[c].socket = "open"
                              \/ r.socket = "reset",
         r.app = "syn" => conns[c].app = "syn",
         r.session = conns[c].session \/
            (conns[c].relay # "none" /\ r.session = tcp_nat_.reverse[conns[c].port]),
         r.relay = "relaying" =>
            \/ conns[c].relay = "relaying" /\ r.session = conns[c].session
            \/ /\ r.session # NoKey /\ r.session = tcp_nat_.reverse[conns[c].port]
               /\ IoFree,
         Handling(c) => \/ r.relay \in {"backlog", "accepted", "relaying", "erase"}
                        \/ conns[c].port \notin Used(tcp_nat_)
                        \/ conns[c].port \in stray'
  PROVE  IndInv'
<1> USE DEF IndInv
<1>1. /\ conns' \in Seq(Conn)
      /\ Conns' = Conns
      /\ conns'[c] = r
      /\ \A d \in Conns : d # c => conns'[d] = conns[d]
  BY UpdateFacts
<1>2. \A d \in Conns :
         /\ conns'[d].key = conns[d].key /\ conns'[d].port = conns[d].port
         /\ conns'[d].born = conns[d].born
         /\ conns'[d].relay = "none" <=> conns[d].relay = "none"
         /\ conns'[d].socket = "open" => conns[d].socket = "open"
         /\ conns[d].socket = "reset" => conns'[d].socket = "reset"
         /\ Reused(d, allocs)' <=> Reused(d, allocs)
  BY <1>1 DEF Reused
<1>3. Typed'
  BY <1>1 DEF Typed
<1>4. Shape'
  BY <1>1, <1>2 DEF Shape
<1>5. Owner'
  BY <1>1, <1>2 DEF Owner
<1>6. RightDestination'
  BY <1>1, <1>2 DEF RightDestination, Owner
<1>7. NoCrossTalk' /\ AnswersReturnToFlow' /\ Robberies'
  BY <1>1 DEF NoCrossTalk, AnswersReturnToFlow, Robberies
<1>8. Successors'
  BY <1>1, <1>2 DEF Successors
<1>9. Race'
  <2> SUFFICES ASSUME NEW e \in Conns, NEW d \in Conns, e # d,
                      conns[e].port = conns[d].port,
                      conns'[e].relay = "relaying", conns'[e].socket = "open",
                      conns'[d].relay = "erase"
               PROVE  conns'[d].socket = "reset"
    BY <1>1, <1>2 DEF Race
  <2>1. conns[e].socket = "open" /\ conns[d].socket # "open"
    BY <1>2 DEF Successors
  <2>2. CASE d = c
    <3>1. conns'[e] = conns[e] /\ conns'[d] = r
      BY <1>1, <2>2
    <3> QED
      BY <1>2, <2>1, <2>2, <3>1 DEF Race
  <2>3. CASE d # c
    <3>1. conns'[d] = conns[d] /\ ~IoFree
      BY <1>1, <2>3 DEF IoFree
    <3>2. conns[e].relay = "relaying"
      BY <1>1, <3>1
    <3> QED
      BY <2>1, <3>1, <3>2 DEF Race
  <2> QED
    BY <2>2, <2>3
<1>10. LiveSessionsKept'
  <2>1. ASSUME NEW d \in Conns, conns'[d].relay = "relaying", conns'[d].socket = "open"
        PROVE  \/ tcp_nat_.reverse[conns[d].port] = conns'[d].session
               \/ \E x \in robbed : x.of = d
    <3>1. conns[d].socket = "open"
      BY <1>2, <2>1
    <3>2. \/ conns[d].relay = "relaying" /\ conns'[d].session = conns[d].session
          \/ conns'[d].session = tcp_nat_.reverse[conns[d].port]
      BY <1>1, <2>1
    <3> QED
      BY <3>1, <3>2 DEF LiveSessionsKept, RelayAlive
  <2>2. ASSUME NEW x \in robbed
        PROVE  /\ conns'[x.by].socket = "reset" /\ conns'[x.by].port = conns'[x.of].port
               /\ conns'[x.by].key = conns'[x.of].key \/ Reused(x.by, allocs)'
    <3>1. x.by \in Conns /\ x.of \in Conns
      BY DEF Robberies
    <3> QED
      BY <1>2, <3>1 DEF LiveSessionsKept
  <2> QED
    BY <1>1, <1>2, <2>1, <2>2 DEF LiveSessionsKept, RelayAlive
<1>11. Covered'
  <2> SUFFICES ASSUME NEW p \in Used(tcp_nat_), p \notin stray'
               PROVE  \E d \in Conns : Handling(d)' /\ conns[d].port = p
    BY <1>1, <1>2 DEF Covered
  <2>1. PICK d \in Conns : Handling(d) /\ conns[d].port = p
    BY DEF Covered
  <2>2. Handling(d)'
    BY <1>1, <2>1 DEF Handling
  <2> QED
    BY <2>1, <2>2
<1> QED
  BY <1>3, <1>4, <1>5, <1>6, <1>7, <1>8, <1>9, <1>10, <1>11

\* The application's end disappears.
LEMMA AppGoneInv ==
  ASSUME IndInv, NEW c \in Conns, AppGone(c)
  PROVE  IndInv'
<1> DEFINE r == [conns[c] EXCEPT !.app = "gone"]
<1>1. conns[c] \in Conn
  BY ConnFacts DEF IndInv
<1>2. /\ r \in Conn
      /\ r.key = conns[c].key /\ r.port = conns[c].port /\ r.born = conns[c].born
      /\ r.relay = conns[c].relay /\ r.socket = conns[c].socket
      /\ r.app = "gone" /\ r.session = conns[c].session
  BY <1>1 DEF Conn
<1>3. /\ conns' = [conns EXCEPT ![c] = r]
      /\ UNCHANGED << tcp_nat_, allocs, stray, toRelay, toApp, robbed >>
  BY DEF AppGone
<1> HIDE DEF r
<1>4. conns[c].relay = "relaying" => r.relay = "relaying" /\ r.session = conns[c].session
  BY <1>2
<1>5. r.relay \in {"backlog", "accepted", "relaying"} => r.socket \in {"open", "reset"}
  BY <1>2 DEF IndInv, Shape
<1> QED
  BY <1>2, <1>3, <1>4, <1>5, MoveInv DEF Handling

\* A socket is reset, accepted or closed, its handler returns, the stack
\* forgets it.
LEMMA RelayMovesInv ==
  ASSUME IndInv, NEW c \in Conns, NEW to \in RelayStates, NEW sock \in SocketStates,
         conns' = [conns EXCEPT ![c].relay = to, ![c].socket = sock],
         UNCHANGED << tcp_nat_, allocs, toRelay, toApp, robbed >>,
         stray \subseteq stray',
         conns[c].relay # "none", to # "none", sock # "none",
         to = "relaying" => conns[c].relay = "relaying",
         sock = "open" => conns[c].socket = "open",
         conns[c].socket = "reset" => sock = "reset",
         to \in {"backlog", "accepted", "relaying"} => sock \in {"open", "reset"},
         to = "erase" => \/ conns[c].relay = "erase"
                         \/ conns[c].socket = "open"
                         \/ sock = "reset",
         Handling(c) => \/ to \in {"backlog", "accepted", "relaying", "erase"}
                        \/ conns[c].port \in stray'
  PROVE  IndInv'
<1> DEFINE r == [conns[c] EXCEPT !.relay = to, !.socket = sock]
<1>1. conns[c] \in Conn
  BY ConnFacts DEF IndInv
<1>2. /\ r \in Conn
      /\ r.key = conns[c].key /\ r.port = conns[c].port /\ r.born = conns[c].born
      /\ r.relay = to /\ r.socket = sock
      /\ r.app = conns[c].app /\ r.session = conns[c].session
  BY <1>1 DEF Conn
<1>3. conns' = [conns EXCEPT ![c] = r]
  OBVIOUS
<1> HIDE DEF r
<1>4. /\ r.relay = "none" <=> conns[c].relay = "none"
      /\ r.socket = "none" <=> conns[c].socket = "none"
      /\ r.socket = "open" => conns[c].socket = "open"
      /\ conns[c].socket = "reset" => r.socket = "reset"
      /\ r.relay \in {"backlog", "accepted", "relaying"} => r.socket \in {"open", "reset"}
      /\ r.relay = "erase" => \/ conns[c].relay = "erase"
                              \/ conns[c].socket = "open"
                              \/ r.socket = "reset"
  BY <1>2 DEF IndInv, Shape
<1>5. Handling(c) => \/ r.relay \in {"backlog", "accepted", "relaying", "erase"}
                     \/ conns[c].port \notin Used(tcp_nat_)
                     \/ conns[c].port \in stray'
  BY <1>2
<1>6. /\ r.app = "syn" => conns[c].app = "syn"
      /\ \/ r.session = conns[c].session
         \/ conns[c].relay # "none" /\ r.session = tcp_nat_.reverse[conns[c].port]
      /\ r.relay = "relaying" =>
            \/ conns[c].relay = "relaying" /\ r.session = conns[c].session
            \/ /\ r.session # NoKey /\ r.session = tcp_nat_.reverse[conns[c].port]
               /\ IoFree
  BY <1>2
<1> QED
  BY <1>2, <1>3, <1>4, <1>5, <1>6, MoveInv

\* The stack ends a relay socket.
LEMMA RelayResetInv ==
  ASSUME IndInv, NEW c \in Conns, RelayReset(c)
  PROVE  IndInv'
<1>1. /\ conns[c] \in Conn
      /\ conns[c].socket = "open" /\ conns[c].relay # "none"
  BY ConnFacts DEF IndInv, Shape, RelayReset, RelayAlive
<1>2. UNCHANGED << tcp_nat_, allocs, toRelay, toApp, robbed >> /\ stray \subseteq stray'
  BY DEF RelayReset
<1>3. CASE conns' = [conns EXCEPT ![c].socket = "reset"] /\ UNCHANGED stray
  <2>1. conns' = [conns EXCEPT ![c].relay = conns[c].relay, ![c].socket = "reset"]
    BY <1>1, <1>3 DEF Conn
  <2>2. conns[c].relay \in RelayStates
    BY <1>1 DEF Conn
  <2> QED
    BY <1>1, <1>2, <2>1, <2>2, RelayMovesInv DEF SocketStates, Handling
<1>4. CASE /\ conns[c].relay = "backlog"
           /\ conns' = [conns EXCEPT ![c].socket = "reset", ![c].relay = "ended"]
           /\ stray' = stray \cup {conns[c].port}
  <2>1. conns' = [conns EXCEPT ![c].relay = "ended", ![c].socket = "reset"]
    BY <1>1, <1>4 DEF Conn
  <2> QED
    BY <1>1, <1>2, <1>4, <2>1, RelayMovesInv DEF SocketStates, RelayStates
<1> QED
  BY <1>3, <1>4 DEF RelayReset

\* accept_loop takes a socket.
LEMMA AcceptInv ==
  ASSUME IndInv, NEW c \in Conns, Accept(c)
  PROVE  IndInv'
<1>1. conns[c] \in Conn /\ conns[c].relay = "backlog"
  BY ConnFacts DEF IndInv, Accept
<1>2. conns[c].socket \in SocketStates /\ conns[c].socket \in {"open", "reset"}
  BY <1>1 DEF Conn, IndInv, Shape
<1>3. /\ conns' = [conns EXCEPT ![c].relay = "accepted", ![c].socket = conns[c].socket]
      /\ UNCHANGED << tcp_nat_, allocs, stray, toRelay, toApp, robbed >>
  BY <1>1 DEF Accept, Conn
<1> QED
  BY <1>1, <1>2, <1>3, RelayMovesInv DEF RelayStates

\* handle_client finds its socket reset.
LEMMA HandleClientResetInv ==
  ASSUME IndInv, NEW c \in Conns, HandleClientReset(c)
  PROVE  IndInv'
<1>1. conns[c] \in Conn /\ conns[c].relay = "accepted" /\ conns[c].socket = "reset"
  BY ConnFacts DEF IndInv, HandleClientReset
<1>2. /\ conns' = [conns EXCEPT ![c].relay = "ended", ![c].socket = "reset"]
      /\ UNCHANGED << tcp_nat_, allocs, toRelay, toApp, robbed >>
      /\ stray' = stray \cup {conns[c].port}
  BY <1>1 DEF HandleClientReset, Conn
<1> QED
  BY <1>1, <1>2, RelayMovesInv DEF RelayStates, SocketStates

\* handler_ is done and has closed the socket.
LEMMA HandlerReturnsInv ==
  ASSUME IndInv, NEW c \in Conns, HandlerReturns(c)
  PROVE  IndInv'
<1> DEFINE sock == Closed(conns[c].socket)
<1>1. conns[c] \in Conn /\ conns[c].relay = "relaying" /\ conns[c].socket \in {"open", "reset"}
  BY ConnFacts DEF IndInv, HandlerReturns, Shape
<1>2. /\ conns' = [conns EXCEPT ![c].relay = "erase", ![c].socket = sock]
      /\ UNCHANGED << tcp_nat_, allocs, stray, toRelay, toApp, robbed >>
  BY <1>1 DEF HandlerReturns, Conn
<1>3. /\ sock \in SocketStates /\ sock \notin {"none", "open"}
      /\ conns[c].socket = "reset" => sock = "reset"
  BY <1>1 DEF Closed, SocketStates
<1> HIDE DEF sock
<1> QED
  BY <1>1, <1>2, <1>3, RelayMovesInv DEF RelayStates

\* The stack forgets a closed socket.
LEMMA RelayGoneInv ==
  ASSUME IndInv, NEW c \in Conns, RelayGone(c)
  PROVE  IndInv'
<1>1. /\ conns[c] \in Conn /\ conns[c].socket = "closing"
      /\ conns[c].relay \notin {"none", "backlog", "accepted", "relaying"}
  BY ConnFacts DEF IndInv, RelayGone, Shape
<1>2. conns[c].relay \in RelayStates
  BY <1>1 DEF Conn
<1>3. /\ conns' = [conns EXCEPT ![c].relay = conns[c].relay, ![c].socket = "gone"]
      /\ UNCHANGED << tcp_nat_, allocs, stray, toRelay, toApp, robbed >>
  BY <1>1 DEF RelayGone, Conn
<1> QED
  BY <1>1, <1>2, <1>3, RelayMovesInv DEF SocketStates, Handling

\* handle_client finds the session of its peer port, or none.
LEMMA HandleClientInv ==
  ASSUME IndInv, NEW c \in Conns, HandleClient(c)
  PROVE  IndInv'
<1> DEFINE k == lookup_back(tcp_nat_, conns[c].port)
           to == IF k = NoKey THEN "ended" ELSE "relaying"
           sock == IF k = NoKey THEN Closed(conns[c].socket) ELSE conns[c].socket
           r == [conns[c] EXCEPT !.relay = to, !.socket = sock, !.session = k]
<1>1. /\ conns[c] \in Conn
      /\ conns[c].relay = "accepted"
      /\ conns[c].port \in Ports
      /\ conns[c].socket \in {"open", "reset"}
  <2>1. conns[c] \in Conn
    BY ConnFacts DEF IndInv
  <2> QED
    BY <2>1 DEF IndInv, Shape, HandleClient, Conn
<1>2. k \in FlowKeys \cup {NoKey} /\ k = tcp_nat_.reverse[conns[c].port]
  BY <1>1, PortFacts DEF lookup_back, IndInv, Typed, WellFormed, Tables
<1>3. /\ conns' = [conns EXCEPT ![c] = r]
      /\ UNCHANGED << tcp_nat_, allocs, stray, toRelay, toApp, robbed >>
      /\ IoFree
  BY DEF HandleClient
<1>4. k = NoKey => conns[c].port \notin Used(tcp_nat_)
  BY <1>2 DEF Used
<1> HIDE DEF k
<1>5. /\ to \in RelayStates /\ sock \in SocketStates
      /\ sock # "none" /\ (sock = "open" => conns[c].socket = "open")
      /\ conns[c].socket = "reset" => sock = "reset"
      /\ to = "relaying" => sock \in {"open", "reset"} /\ k # NoKey
      /\ to \in {"ended", "relaying"}
      /\ to = "ended" => k = NoKey
  BY <1>1 DEF RelayStates, SocketStates, Closed
<1> HIDE DEF to, sock
<1>6. /\ r \in Conn
      /\ r.key = conns[c].key /\ r.port = conns[c].port /\ r.born = conns[c].born
      /\ r.relay = to /\ r.socket = sock /\ r.app = conns[c].app /\ r.session = k
  BY <1>1, <1>2, <1>5 DEF Conn
<1> HIDE DEF r
<1> QED
  BY <1>1, <1>2, <1>3, <1>4, <1>5, <1>6, MoveInv

\* The handler's end erases the session of its port.
LEMMA EraseSessionInv ==
  ASSUME IndInv, NEW c \in Conns, EraseSession(c)
  PROVE  IndInv'
<1> USE DEF IndInv
<1> DEFINE r == [conns[c] EXCEPT !.relay = "ended"]
           q == conns[c].port
           Victims == {e \in RelayOf(q) : conns[e].relay = "relaying"}
<1>1. /\ conns[c] \in Conn
      /\ conns[c].relay = "erase"
      /\ q \in Ports /\ q \in UInt16
  <2>1. conns[c] \in Conn
    BY ConnFacts
  <2> QED
    BY <2>1, PortFacts DEF Shape, EraseSession, Conn
<1>2. /\ r \in Conn
      /\ r.key = conns[c].key /\ r.port = q /\ r.born = conns[c].born
      /\ r.relay = "ended" /\ r.socket = conns[c].socket
      /\ r.app = conns[c].app /\ r.session = conns[c].session
  BY <1>1 DEF Conn, RelayStates
<1>3. /\ conns' = [conns EXCEPT ![c] = r]
      /\ tcp_nat_' = erase(tcp_nat_, q)
      /\ stray' = stray \ {q}
      /\ robbed' = robbed \cup {[by |-> c, of |-> d] : d \in Victims}
      /\ UNCHANGED << allocs, toRelay, toApp >>
  BY DEF EraseSession
<1> HIDE DEF r
<1>4. /\ WellFormed(tcp_nat_')
      /\ Used(tcp_nat_') = Used(tcp_nat_) \ {q}
      /\ \A p \in UInt16 :
            tcp_nat_'.reverse[p] = IF p = q THEN NoKey ELSE tcp_nat_.reverse[p]
  BY <1>1, <1>3, EraseFacts DEF Typed
<1>5. /\ conns' \in Seq(Conn)
      /\ Conns' = Conns
      /\ conns'[c] = r
      /\ \A d \in Conns : d # c => conns'[d] = conns[d]
  BY <1>2, <1>3, UpdateFacts
<1>6. \A d \in Conns :
         /\ conns'[d].key = conns[d].key /\ conns'[d].port = conns[d].port
         /\ conns'[d].born = conns[d].born /\ conns'[d].session = conns[d].session
         /\ conns'[d].socket = conns[d].socket
         /\ conns'[d].relay = "none" <=> conns[d].relay = "none"
         /\ conns'[d].relay = "erase" => d # c /\ conns[d].relay = "erase"
         /\ conns'[d].relay = "relaying" => d # c /\ conns[d].relay = "relaying"
         /\ Reused(d, allocs)' <=> Reused(d, allocs)
         /\ conns[d].relay # "none" => conns[d].port \in UInt16
  <2>1. \A d \in Conns : conns[d].relay # "none" => conns[d].port \in UInt16
    <3> SUFFICES ASSUME NEW d \in Conns, conns[d].relay # "none"
                 PROVE  conns[d].port \in UInt16
      OBVIOUS
    <3>1. conns[d] \in Conn
      BY ConnFacts
    <3> QED
      BY <3>1, PortFacts DEF Conn, Shape
  <2> QED
    BY <1>1, <1>2, <1>3, <1>5, <2>1 DEF Reused
<1>7. Typed'
  BY <1>3, <1>4, <1>5 DEF Typed
<1>8. Shape'
  BY <1>1, <1>2, <1>3, <1>5 DEF Shape
<1>9. Owner'
  BY <1>4, <1>5, <1>6 DEF Owner
<1>10. RightDestination'
  BY <1>5, <1>6 DEF RightDestination
<1>11. NoCrossTalk' /\ AnswersReturnToFlow'
  BY <1>3 DEF NoCrossTalk, AnswersReturnToFlow
<1>12. Successors' /\ Race'
  BY <1>5, <1>6 DEF Successors, Race
<1>13. \A d \in Victims : /\ d \in Conns /\ d # c /\ conns[d].port = q
                          /\ conns[d].relay = "relaying" /\ conns[d].socket = "open"
  BY <1>1 DEF RelayOf, RelayAlive
<1>14. Robberies'
  BY <1>3, <1>5, <1>13 DEF Robberies
<1>15. LiveSessionsKept'
  <2>1. ASSUME NEW d \in Conns, conns'[d].relay = "relaying", conns'[d].socket = "open"
        PROVE  \/ tcp_nat_'.reverse[conns[d].port] = conns[d].session
               \/ \E x \in robbed' : x.of = d
    <3>1. /\ conns[d].relay = "relaying" /\ conns[d].socket = "open"
          /\ conns[d].port \in UInt16
      BY <1>6, <2>1
    <3>2. CASE conns[d].port = q
      <4>1. d \in Victims
        BY <3>1, <3>2 DEF RelayOf, RelayAlive
      <4>2. [by |-> c, of |-> d] \in robbed'
        BY <1>3, <4>1
      <4> QED
        BY <4>2
    <3>3. CASE conns[d].port # q
      <4>1. tcp_nat_'.reverse[conns[d].port] = tcp_nat_.reverse[conns[d].port]
        BY <1>4, <3>1, <3>3
      <4> QED
        BY <1>3, <3>1, <4>1 DEF LiveSessionsKept, RelayAlive
    <3> QED
      BY <3>2, <3>3
  <2>2. ASSUME NEW x \in robbed'
        PROVE  /\ conns[x.by].socket = "reset" /\ conns[x.by].port = conns[x.of].port
               /\ conns[x.by].key = conns[x.of].key \/ Reused(x.by, allocs)
               /\ x.by \in Conns /\ x.of \in Conns
    <3>1. CASE x \in robbed
      BY <3>1 DEF LiveSessionsKept, Robberies
    <3>2. CASE x \notin robbed
      <4>1. PICK d \in Victims : x = [by |-> c, of |-> d]
        BY <1>3, <2>2, <3>2
      <4>2. x.by = c /\ x.of = d /\ d \in Conns
        BY <1>13, <4>1
      <4>3. conns[c].socket = "reset" /\ conns[c].port = conns[d].port
        BY <1>1, <1>13, <4>1 DEF Race
      <4>4. conns[c].key = conns[d].key \/ Reused(c, allocs)
        BY <1>13, <4>1 DEF Successors
      <4> QED
        BY <4>2, <4>3, <4>4
    <3> QED
      BY <3>1, <3>2
  <2>3. \A x \in robbed' :
           /\ conns'[x.by].socket = "reset" /\ conns'[x.by].port = conns'[x.of].port
           /\ conns'[x.by].key = conns'[x.of].key \/ Reused(x.by, allocs)'
    BY <1>6, <2>2
  <2> QED
    BY <1>5, <1>6, <2>1, <2>3 DEF LiveSessionsKept, RelayAlive
<1>16. Covered'
  <2> SUFFICES ASSUME NEW p \in Used(tcp_nat_'), p \notin stray'
               PROVE  \E d \in Conns : Handling(d)' /\ conns[d].port = p
    BY <1>3, <1>5, <1>6 DEF Covered
  <2>1. p \in Used(tcp_nat_) /\ p # q /\ p \notin stray
    BY <1>3, <1>4
  <2>2. PICK d \in Conns : Handling(d) /\ conns[d].port = p
    BY <2>1 DEF Covered
  <2>3. Handling(d)'
    BY <1>5, <2>1, <2>2 DEF Handling
  <2> QED
    BY <2>2, <2>3
<1> QED
  BY <1>7, <1>8, <1>9, <1>10, <1>11, <1>12, <1>14, <1>15, <1>16

-----------------------------------------------------------------------------
(***************************************************************************)
(* A packet from an application: the port it gets, and what that does to   *)
(* the connections.                                                        *)
(***************************************************************************)

\* lookup_or_create as the packet thread sees it, with no limit on sessions.
\* The port is mapped to the key; a port that is handed out was mapped to
\* nothing, and is counted.
LEMMA PortGiven ==
  ASSUME IndInv, NEW c \in Conns, FromStack(c)
  PROVE  LET k == conns[c].key
             p == lookup_or_create(tcp_nat_, k).nat_port
         IN  /\ k \in FlowKeys
             /\ WellFormed(tcp_nat_')
             /\ p \in Ports
             /\ \A q \in UInt16 :
                   tcp_nat_'.reverse[q] = IF q = p THEN k ELSE tcp_nat_.reverse[q]
             /\ allocs' \in [Ports -> Nat]
             /\ \A q \in Ports : q # p => allocs'[q] = allocs[q]
             /\ IF tcp_nat_.forward[k] = NoPort
                THEN tcp_nat_.reverse[p] = NoKey /\ allocs'[p] = allocs[p] + 1
                ELSE tcp_nat_.reverse[p] = k /\ allocs' = allocs
<1> USE DEF IndInv
<1> DEFINE k == conns[c].key
           r == lookup_or_create(tcp_nat_, k)
           p == r.nat_port
<1>1. k \in FlowKeys
  BY ConnFacts DEF Conn
<1>2. /\ tcp_nat_' = r.table
      /\ allocs' = IF tcp_nat_.forward[k] = NoPort THEN [allocs EXCEPT ![p] = @ + 1]
                   ELSE allocs
      /\ ~Exhausted(tcp_nat_, k)
  BY DEF FromStack
<1>3. WellFormed(tcp_nat_) /\ WithinLimit(tcp_nat_) /\ allocs \in [Ports -> Nat]
  BY TunTcpAssumption DEF Typed, WithinLimit
<1> HIDE DEF k, r
<1>4. CASE tcp_nat_.forward[k] = NoPort
  <2>1. /\ WellFormed(r.table)
        /\ p \in Ports
        /\ r.evicted = NoPort
        /\ tcp_nat_.reverse[p] = NoKey \/ p = r.evicted
        /\ \A q \in UInt16 :
              r.table.reverse[q] = IF q = p THEN k
                                   ELSE IF q = r.evicted THEN NoKey
                                   ELSE tcp_nat_.reverse[q]
    BY <1>1, <1>2, <1>3, <1>4, LookupMiss, TunTcpAssumption DEF r
  <2>2. NoPort \notin UInt16 /\ NoPort \notin Ports
    BY PortFacts
  <2>3. /\ tcp_nat_.reverse[p] = NoKey
        /\ \A q \in UInt16 :
              tcp_nat_'.reverse[q] = IF q = p THEN k ELSE tcp_nat_.reverse[q]
    BY <1>2, <2>1, <2>2
  <2>4. /\ allocs' \in [Ports -> Nat]
        /\ \A q \in Ports : q # p => allocs'[q] = allocs[q]
        /\ allocs'[p] = allocs[p] + 1
    BY <1>2, <1>3, <1>4, <2>1
  <2> QED
    BY <1>1, <1>2, <1>4, <2>1, <2>3, <2>4 DEF k, r
<1>5. CASE tcp_nat_.forward[k] # NoPort
  <2>1. /\ WellFormed(r.table)
        /\ r.table.reverse = tcp_nat_.reverse
        /\ p \in Ports
        /\ tcp_nat_.reverse[p] = k
    BY <1>1, <1>3, <1>5, LookupHit DEF r
  <2> QED
    BY <1>1, <1>2, <1>3, <1>5, <2>1 DEF k, r
<1> QED
  BY <1>4, <1>5

\* What the port given to a packet means for the relay sockets there are:
\* either the port was handed out anew, or its mapping is as before.
LEMMA PortGivenToOthers ==
  ASSUME IndInv, NEW c \in Conns, FromStack(c), NEW d \in Conns, conns[d].relay # "none"
  PROVE  /\ conns[d].port \in Ports
         /\ Reused(d, allocs) => allocs'[conns[d].port] > conns[d].born
         /\ conns[d].born <= allocs'[conns[d].port]
         /\ \/ tcp_nat_'.reverse[conns[d].port] = tcp_nat_.reverse[conns[d].port]
            \/ /\ tcp_nat_.reverse[conns[d].port] = NoKey
               /\ allocs'[conns[d].port] > conns[d].born
<1> USE DEF IndInv
<1> DEFINE k == conns[c].key
           p == lookup_or_create(tcp_nat_, k).nat_port
           q == conns[d].port
<1>1. /\ \A x \in UInt16 :
            tcp_nat_'.reverse[x] = IF x = p THEN k ELSE tcp_nat_.reverse[x]
      /\ allocs' \in [Ports -> Nat]
      /\ \A x \in Ports : x # p => allocs'[x] = allocs[x]
      /\ IF tcp_nat_.forward[k] = NoPort
         THEN tcp_nat_.reverse[p] = NoKey /\ allocs'[p] = allocs[p] + 1
         ELSE tcp_nat_.reverse[p] = k /\ allocs' = allocs
  BY PortGiven
<1>2. q \in Ports /\ q \in UInt16 /\ conns[d].born \in Nat
  <2>1. conns[d] \in Conn
    BY ConnFacts
  <2> QED
    BY <2>1, PortFacts DEF Shape, Conn
<1>3. conns[d].born <= allocs[q] /\ allocs[q] \in Nat
  BY <1>2 DEF Shape, Typed
<1> HIDE DEF k, p
<1>4. CASE q = p /\ tcp_nat_.forward[k] = NoPort
  BY <1>1, <1>2, <1>3, <1>4 DEF Reused
<1>5. CASE ~(q = p /\ tcp_nat_.forward[k] = NoPort)
  <2>1. allocs'[q] = allocs[q] /\ tcp_nat_'.reverse[q] = tcp_nat_.reverse[q]
    BY <1>1, <1>2, <1>5
  <2> QED
    BY <1>2, <1>3, <2>1 DEF Reused
<1> QED
  BY <1>4, <1>5

\* The packet reaches the listener or a relay socket and opens nothing.
LEMMA PacketInv ==
  ASSUME IndInv, NEW c \in Conns, FromStack(c), conns' = conns,
         ~(conns[c].app = "syn"
              /\ RelayOf(lookup_or_create(tcp_nat_, conns[c].key).nat_port) = {})
  PROVE  IndInv'
<1> USE DEF IndInv
<1> DEFINE k == conns[c].key
           p == lookup_or_create(tcp_nat_, k).nat_port
           fresh == tcp_nat_.forward[k] = NoPort
<1>1. /\ k \in FlowKeys
      /\ WellFormed(tcp_nat_')
      /\ p \in Ports
      /\ \A x \in UInt16 :
            tcp_nat_'.reverse[x] = IF x = p THEN k ELSE tcp_nat_.reverse[x]
      /\ allocs' \in [Ports -> Nat]
      /\ IF fresh THEN tcp_nat_.reverse[p] = NoKey /\ allocs'[p] = allocs[p] + 1
         ELSE tcp_nat_.reverse[p] = k /\ allocs' = allocs
  BY PortGiven
<1>2. /\ stray' = IF fresh THEN stray \cup {p} ELSE stray
      /\ toRelay' = toRelay \cup
                      {[from |-> c, to |-> d, reused |-> Reused(d, allocs')] :
                          d \in {e \in RelayOf(p) : conns[e].key # k}}
      /\ toApp' = toApp /\ robbed' = robbed
  BY DEF FromStack
<1> HIDE DEF k, p
<1>3. /\ Conns' = Conns
      /\ \A d \in Conns : conns[d].relay # "none" =>
            /\ conns[d].port \in Ports
            /\ Reused(d, allocs) => allocs'[conns[d].port] > conns[d].born
            /\ conns[d].born <= allocs'[conns[d].port]
            /\ \/ tcp_nat_'.reverse[conns[d].port] = tcp_nat_.reverse[conns[d].port]
               \/ /\ tcp_nat_.reverse[conns[d].port] = NoKey
                  /\ allocs'[conns[d].port] > conns[d].born
  BY PortGivenToOthers DEF Conns
<1>4. Typed'
  BY <1>1 DEF Typed
<1>5. Shape'
  BY <1>3 DEF Shape
<1>6. Owner'
  BY <1>3 DEF Owner, Reused
<1>7. RightDestination'
  <2>1. \A d \in Conns : conns[d].relay = "none" => conns[d].session = NoKey
    BY DEF Shape
  <2> QED
    BY <1>3, <2>1 DEF RightDestination, Reused
<1>8. NoCrossTalk'
  <2>1. ASSUME NEW d \in Conns, d \in RelayOf(p), conns[d].key # k
        PROVE  Reused(d, allocs')
    <3>1. conns[d].relay # "none" /\ conns[d].port = p
      BY <2>1 DEF RelayOf, RelayAlive, Shape
    <3>2. tcp_nat_'.reverse[p] = k /\ k # NoKey
      BY <1>1, PortFacts, NatTableAssumption
    <3>3. CASE tcp_nat_'.reverse[p] = tcp_nat_.reverse[p]
      <4>1. Reused(d, allocs)
        BY <2>1, <3>1, <3>2, <3>3 DEF Owner
      <4> QED
        BY <1>3, <3>1, <4>1 DEF Reused
    <3>4. CASE allocs'[p] > conns[d].born
      BY <3>1, <3>4 DEF Reused
    <3> QED
      BY <1>3, <3>1, <3>3, <3>4
  <2> SUFFICES ASSUME NEW x \in toRelay' PROVE x.reused
    BY DEF NoCrossTalk
  <2>2. CASE x \in toRelay
    BY <2>2 DEF NoCrossTalk
  <2>3. CASE x \notin toRelay
    <3>1. PICK d \in {e \in RelayOf(p) : conns[e].key # k} :
             x = [from |-> c, to |-> d, reused |-> Reused(d, allocs')]
      BY <1>2, <2>3
    <3>2. Reused(d, allocs')
      BY <2>1, <3>1 DEF RelayOf
    <3> QED
      BY <3>1, <3>2
  <2> QED
    BY <2>2, <2>3
<1>9. AnswersReturnToFlow'
  BY <1>2 DEF AnswersReturnToFlow
<1>10. \A d \in Conns : conns[d].relay # "none" /\ Reused(d, allocs) => Reused(d, allocs')
  BY <1>3 DEF Reused
<1>11. \A d, e \in Conns : conns[d].port = conns[e].port /\ conns[d].socket = "open" =>
                              conns[e].relay # "none"
  <2> SUFFICES ASSUME NEW d \in Conns, NEW e \in Conns, conns[d].port = conns[e].port,
                      conns[d].socket = "open"
               PROVE  conns[e].relay # "none"
    OBVIOUS
  <2>1. conns[d].port # NoPort
    BY DEF Shape
  <2> QED
    BY <2>1 DEF Shape
<1>12. Successors'
  BY <1>3, <1>10, <1>11 DEF Successors, Reused
<1>13. Race' /\ Robberies'
  BY <1>2, <1>3 DEF Race, Robberies
<1>14. LiveSessionsKept'
  <2>1. ASSUME NEW d \in Conns, conns[d].relay = "relaying", RelayAlive(d)
        PROVE  \/ tcp_nat_'.reverse[conns[d].port] = conns[d].session
               \/ \E x \in robbed : x.of = d
    <3>1. conns[d].session # NoKey
      BY <2>1 DEF Shape
    <3> QED
      BY <1>3, <2>1, <3>1 DEF LiveSessionsKept
  <2>2. ASSUME NEW x \in robbed
        PROVE  /\ conns[x.by].socket = "reset" /\ conns[x.by].port = conns[x.of].port
               /\ conns[x.by].key = conns[x.of].key \/ Reused(x.by, allocs')
    <3>1. x.by \in Conns /\ conns[x.by].socket = "reset"
      BY DEF Robberies, LiveSessionsKept
    <3>2. conns[x.by].relay # "none"
      BY <3>1 DEF Shape
    <3> QED
      BY <1>10, <3>1, <3>2 DEF LiveSessionsKept
  <2> QED
    BY <1>2, <1>3, <2>1, <2>2 DEF LiveSessionsKept, RelayAlive, Reused
<1>15. Covered'
  <2> SUFFICES ASSUME NEW x \in Used(tcp_nat_'), x \notin stray'
               PROVE  \E d \in Conns : Handling(d) /\ conns[d].port = x
    BY <1>3 DEF Covered, Handling
  <2>1. x \in Ports /\ x \in UInt16 /\ tcp_nat_'.reverse[x] # NoKey /\ x \notin stray
    BY <1>2, PortFacts DEF Used
  <2>2. tcp_nat_.reverse[x] # NoKey
    BY <1>1, <1>2, <2>1, NatTableAssumption
  <2> QED
    BY <2>1, <2>2 DEF Covered, Used
<1> QED
  BY <1>4, <1>5, <1>6, <1>7, <1>8, <1>9, <1>12, <1>13, <1>14, <1>15

\* The SYN opens a relay socket.
LEMMA SynInv ==
  ASSUME IndInv, NEW c \in Conns, FromStack(c),
         conns[c].app = "syn",
         RelayOf(lookup_or_create(tcp_nat_, conns[c].key).nat_port) = {}
  PROVE  IndInv'
<1> USE DEF IndInv
<1> DEFINE k == conns[c].key
           p == lookup_or_create(tcp_nat_, k).nat_port
           r == [conns[c] EXCEPT !.app = "open", !.relay = "backlog", !.socket = "open",
                                 !.port = p, !.born = allocs'[p]]
<1>1. /\ k \in FlowKeys
      /\ WellFormed(tcp_nat_')
      /\ p \in Ports
      /\ \A x \in UInt16 :
            tcp_nat_'.reverse[x] = IF x = p THEN k ELSE tcp_nat_.reverse[x]
      /\ allocs' \in [Ports -> Nat]
  BY PortGiven
<1>2. /\ stray' = stray \ {p}
      /\ toRelay' = toRelay
      /\ toApp' = toApp /\ robbed' = robbed
      /\ conns' = [conns EXCEPT ![c] = r]
      /\ RelayOf(p) = {}
  <2>1. /\ stray' = stray \ {p}
        /\ toRelay' = toRelay
        /\ toApp' = toApp /\ robbed' = robbed
    BY DEF FromStack
  <2>2. conns' = [conns EXCEPT ![c].app = "open", ![c].relay = "backlog",
                               ![c].socket = "open", ![c].port = p, ![c].born = allocs'[p]]
    BY DEF FromStack
  <2>3. RelayOf(p) = {}
    OBVIOUS
  <2> HIDE DEF p
  <2> QED
    BY <2>1, <2>2, <2>3
<1> HIDE DEF p
<1>3. conns[c] \in Conn
  BY ConnFacts
<1>4. /\ r \in Conn
      /\ r.key = conns[c].key /\ r.port = p /\ r.born = allocs'[p]
      /\ r.relay = "backlog" /\ r.socket = "open"
      /\ r.app = "open" /\ r.session = conns[c].session
  <2>1. allocs'[p] \in Nat
    BY <1>1
  <2> QED
    BY <1>1, <1>3, <2>1 DEF Conn, RelayStates, SocketStates
<1> HIDE DEF r, k
<1>5. /\ conns' \in Seq(Conn)
      /\ Conns' = Conns
      /\ conns'[c] = r
      /\ \A d \in Conns : d # c => conns'[d] = conns[d]
  BY <1>2, <1>4, UpdateFacts
<1>6. conns[c].relay = "none" /\ conns[c].session = NoKey /\ conns[c].socket = "none"
  BY DEF Shape
<1>7. \A d \in Conns : conns[d].relay # "none" =>
         /\ conns[d].port \in Ports
         /\ Reused(d, allocs) => allocs'[conns[d].port] > conns[d].born
         /\ conns[d].born <= allocs'[conns[d].port]
         /\ \/ tcp_nat_'.reverse[conns[d].port] = tcp_nat_.reverse[conns[d].port]
            \/ /\ tcp_nat_.reverse[conns[d].port] = NoKey
               /\ allocs'[conns[d].port] > conns[d].born
  BY PortGivenToOthers
<1>8. p \in UInt16 /\ p # NoPort /\ tcp_nat_'.reverse[p] = k /\ allocs'[p] \in Nat
  BY <1>1, PortFacts
<1>9. Typed'
  BY <1>1, <1>5 DEF Typed
<1>10. Shape'
  BY <1>4, <1>5, <1>6, <1>7, <1>8 DEF Shape
<1>11. Owner'
  <2> SUFFICES ASSUME NEW d \in Conns, conns'[d].relay # "none"
               PROVE  \/ allocs'[conns'[d].port] > conns'[d].born
                      \/ tcp_nat_'.reverse[conns'[d].port] \in {NoKey, conns'[d].key}
    BY <1>5 DEF Owner, Reused
  <2>1. CASE d = c
    BY <1>4, <1>5, <1>8, <2>1 DEF k
  <2>2. CASE d # c
    BY <1>5, <1>7, <2>2 DEF Owner
  <2> QED
    BY <2>1, <2>2
<1>12. RightDestination'
  <2> SUFFICES ASSUME NEW d \in Conns
               PROVE  \/ conns'[d].session \in {NoKey, conns'[d].key}
                      \/ allocs'[conns'[d].port] > conns'[d].born
    BY <1>5 DEF RightDestination, Reused
  <2>1. CASE d = c
    BY <1>4, <1>5, <1>6, <2>1
  <2>2. CASE d # c
    BY <1>5, <1>7, <2>2 DEF RightDestination, Shape
  <2> QED
    BY <2>1, <2>2
<1>13. NoCrossTalk' /\ AnswersReturnToFlow'
  BY <1>2 DEF NoCrossTalk, AnswersReturnToFlow
<1>14. \A d \in Conns :
          conns[d].relay # "none" /\ Reused(d, allocs) => allocs'[conns[d].port] > conns[d].born
  BY <1>7
<1>15. Successors'
  <2> SUFFICES ASSUME NEW e \in Conns, NEW d \in Conns, e # d,
                      conns'[e].port = conns'[d].port, conns'[e].socket = "open"
               PROVE  /\ conns'[d].socket # "open"
                      /\ \/ conns'[d].key = conns'[e].key
                         \/ allocs'[conns'[d].port] > conns'[d].born
    BY <1>5 DEF Successors, Reused
  <2>1. CASE e = c
    <3>1. conns'[d] = conns[d] /\ conns[d].port = p /\ conns'[e].key = k
      BY <1>4, <1>5, <2>1 DEF k
    <3>2. conns[d].socket # "open"
      BY <1>2, <3>1 DEF RelayOf, RelayAlive
    <3>3. conns[d].relay # "none"
      BY <1>8, <3>1 DEF Shape
    <3>4. \/ allocs'[conns[d].port] > conns[d].born
          \/ tcp_nat_'.reverse[conns[d].port] \in {NoKey, conns[d].key}
      BY <1>5, <1>11, <3>1, <3>3 DEF Owner, Reused
    <3>5. k # NoKey
      BY <1>1, NatTableAssumption
    <3> QED
      BY <1>8, <3>1, <3>2, <3>4, <3>5
  <2>2. CASE d = c
    <3>1. conns'[e] = conns[e] /\ conns[e].port = p
      BY <1>4, <1>5, <2>2
    <3> QED
      BY <1>2, <3>1 DEF RelayOf, RelayAlive
  <2>3. CASE e # c /\ d # c
    <3>1. conns'[e] = conns[e] /\ conns'[d] = conns[d]
      BY <1>5, <2>3
    <3>2. conns[d].relay # "none"
      <4>1. conns[e].port # NoPort
        BY <3>1 DEF Shape
      <4> QED
        BY <3>1, <4>1 DEF Shape
    <3> QED
      BY <1>14, <3>1, <3>2 DEF Successors
  <2> QED
    BY <2>1, <2>2, <2>3
<1>16. Race'
  <2> SUFFICES ASSUME NEW e \in Conns, NEW d \in Conns, e # d,
                      conns'[e].port = conns'[d].port,
                      conns'[e].relay = "relaying", conns'[e].socket = "open",
                      conns'[d].relay = "erase"
               PROVE  conns'[d].socket = "reset"
    BY <1>5 DEF Race
  <2>1. e # c /\ d # c
    BY <1>4, <1>5
  <2> QED
    BY <1>5, <2>1 DEF Race
<1>17. Robberies'
  BY <1>2, <1>5 DEF Robberies
<1>18. LiveSessionsKept'
  <2>1. ASSUME NEW d \in Conns, conns'[d].relay = "relaying", conns'[d].socket = "open"
        PROVE  \/ tcp_nat_'.reverse[conns'[d].port] = conns'[d].session
               \/ \E x \in robbed : x.of = d
    <3>1. d # c /\ conns'[d] = conns[d]
      BY <1>4, <1>5, <2>1
    <3>2. conns[d].session # NoKey
      BY <2>1, <3>1 DEF Shape
    <3> QED
      BY <1>7, <2>1, <3>1, <3>2 DEF LiveSessionsKept, RelayAlive
  <2>2. ASSUME NEW x \in robbed
        PROVE  /\ conns'[x.by].socket = "reset" /\ conns'[x.by].port = conns'[x.of].port
               /\ \/ conns'[x.by].key = conns'[x.of].key
                  \/ allocs'[conns'[x.by].port] > conns'[x.by].born
    <3>1. /\ x.by \in Conns /\ x.of \in Conns
          /\ conns[x.by].socket = "reset" /\ conns[x.by].port = conns[x.of].port
      BY DEF Robberies, LiveSessionsKept
    <3>2. conns[x.by].relay # "none" /\ conns[x.by].port # NoPort
      BY <3>1 DEF Shape
    <3>3. conns[x.of].relay # "none"
      BY <3>1, <3>2 DEF Shape
    <3>4. conns'[x.by] = conns[x.by] /\ conns'[x.of] = conns[x.of]
      BY <1>5, <1>6, <3>1, <3>2, <3>3
    <3> QED
      BY <1>14, <3>1, <3>2, <3>4 DEF LiveSessionsKept
  <2> QED
    BY <1>2, <1>5, <2>1, <2>2 DEF LiveSessionsKept, RelayAlive, Reused
<1>19. Covered'
  <2> SUFFICES ASSUME NEW x \in Used(tcp_nat_'), x \notin stray'
               PROVE  \E d \in Conns : Handling(d)' /\ conns'[d].port = x
    BY <1>5 DEF Covered
  <2>1. CASE x = p
    BY <1>4, <1>5, <2>1 DEF Handling
  <2>2. CASE x # p
    <3>1. x \in Used(tcp_nat_) /\ x \notin stray
      BY <1>1, <1>2, <2>2, PortFacts DEF Used
    <3>2. PICK d \in Conns : Handling(d) /\ conns[d].port = x
      BY <3>1 DEF Covered
    <3>3. d # c
      BY <1>6, <3>2 DEF Handling
    <3> QED
      BY <1>5, <3>2, <3>3 DEF Handling
  <2> QED
    BY <2>1, <2>2
<1> QED
  BY <1>9, <1>10, <1>11, <1>12, <1>13, <1>15, <1>16, <1>17, <1>18, <1>19

\* Either way.
LEMMA FromStackInv ==
  ASSUME IndInv, NEW c \in Conns, FromStack(c)
  PROVE  IndInv'
<1> DEFINE opens == /\ conns[c].app = "syn"
                    /\ RelayOf(lookup_or_create(tcp_nat_, conns[c].key).nat_port) = {}
<1>1. CASE opens
  BY <1>1, SynInv
<1>2. CASE ~opens
  <2>1. conns' = conns
    BY <1>2 DEF FromStack
  <2> QED
    BY <1>2, <2>1, PacketInv
<1> QED
  BY <1>1, <1>2

-----------------------------------------------------------------------------
(***************************************************************************)
(* The other steps, and the results.                                       *)
(***************************************************************************)

\* An application connects.
LEMMA OpenInv ==
  ASSUME IndInv, NEW k \in FlowKeys, Open(k)
  PROVE  IndInv'
<1> USE DEF IndInv
<1> DEFINE r == [key |-> k, app |-> "syn", relay |-> "none", socket |-> "none",
                 port |-> NoPort, born |-> 0, session |-> NoKey]
           n == Len(conns) + 1
<1>1. /\ conns' = Append(conns, r)
      /\ UNCHANGED << tcp_nat_, allocs, stray, toRelay, toApp, robbed >>
  BY DEF Open
<1>2. /\ r \in Conn
      /\ r.app = "syn" /\ r.relay = "none" /\ r.socket = "none"
      /\ r.port = NoPort /\ r.session = NoKey
  BY DEF Conn, RelayStates, SocketStates
<1> HIDE DEF r
<1>3. conns \in Seq(Conn) /\ Len(conns) \in Nat
  BY DEF Typed
<1>4. /\ conns' \in Seq(Conn)
      /\ Len(conns') = n
      /\ conns'[n] = r
      /\ \A d \in 1 .. Len(conns) : conns'[d] = conns[d]
  BY <1>1, <1>2, <1>3
<1>5. /\ Conns' = Conns \cup {n} /\ n \notin Conns
      /\ \A d \in Conns : conns'[d] = conns[d]
  BY <1>3, <1>4 DEF Conns
<1>6. Typed'
  BY <1>1, <1>4 DEF Typed
<1>7. Shape'
  <2> SUFFICES ASSUME NEW d \in Conns'
               PROVE  /\ conns'[d].relay = "none" <=> conns'[d].port = NoPort
                      /\ conns'[d].relay = "none" <=> conns'[d].socket = "none"
                      /\ conns'[d].app = "syn" => conns'[d].relay = "none"
                      /\ conns'[d].relay = "none" => conns'[d].session = NoKey
                      /\ conns'[d].relay = "relaying" => conns'[d].session # NoKey
                      /\ conns'[d].relay \in {"backlog", "accepted", "relaying"} =>
                            conns'[d].socket \in {"open", "reset"}
                      /\ conns'[d].relay # "none" => conns'[d].born <= allocs[conns'[d].port]
    BY <1>1 DEF Shape
  <2>1. CASE d = n
    BY <1>2, <1>4, <2>1
  <2>2. CASE d \in Conns
    BY <1>5, <2>2 DEF Shape
  <2> QED
    BY <1>5, <2>1, <2>2
<1>8. Owner'
  BY <1>1, <1>2, <1>4, <1>5 DEF Owner, Reused
<1>9. RightDestination'
  BY <1>1, <1>2, <1>4, <1>5 DEF RightDestination, Reused
<1>10. NoCrossTalk' /\ AnswersReturnToFlow'
  BY <1>1 DEF NoCrossTalk, AnswersReturnToFlow
<1>11. Successors'
  <2> SUFFICES ASSUME NEW e \in Conns', NEW d \in Conns', e # d,
                      conns'[e].port = conns'[d].port, conns'[e].socket = "open"
               PROVE  /\ conns'[d].socket # "open"
                      /\ \/ conns'[d].key = conns'[e].key
                         \/ allocs[conns'[d].port] > conns'[d].born
    BY <1>1 DEF Successors, Reused
  <2>1. e \in Conns /\ conns'[e] = conns[e]
    BY <1>2, <1>4, <1>5
  <2>2. conns[e].port # NoPort
    BY <2>1 DEF Shape
  <2>3. d \in Conns /\ conns'[d] = conns[d]
    BY <1>2, <1>4, <1>5, <2>1, <2>2
  <2> QED
    BY <2>1, <2>3 DEF Successors, Reused
<1>12. Race'
  <2> SUFFICES ASSUME NEW e \in Conns', NEW d \in Conns', e # d,
                      conns'[e].port = conns'[d].port,
                      conns'[e].relay = "relaying", conns'[e].socket = "open",
                      conns'[d].relay = "erase"
               PROVE  conns'[d].socket = "reset"
    BY DEF Race
  <2>1. /\ e \in Conns /\ conns'[e] = conns[e]
        /\ d \in Conns /\ conns'[d] = conns[d]
    BY <1>2, <1>4, <1>5
  <2> QED
    BY <2>1 DEF Race
<1>13. Robberies'
  BY <1>1, <1>5 DEF Robberies
<1>14. LiveSessionsKept'
  <2>1. ASSUME NEW d \in Conns', conns'[d].relay = "relaying", conns'[d].socket = "open"
        PROVE  \/ tcp_nat_.reverse[conns'[d].port] = conns'[d].session
               \/ \E x \in robbed : x.of = d
    <3>1. d \in Conns /\ conns'[d] = conns[d]
      BY <1>2, <1>4, <1>5, <2>1
    <3> QED
      BY <2>1, <3>1 DEF LiveSessionsKept, RelayAlive
  <2>2. ASSUME NEW x \in robbed
        PROVE  /\ conns'[x.by].socket = "reset" /\ conns'[x.by].port = conns'[x.of].port
               /\ \/ conns'[x.by].key = conns'[x.of].key
                  \/ allocs[conns'[x.by].port] > conns'[x.by].born
    <3>1. conns'[x.by] = conns[x.by] /\ conns'[x.of] = conns[x.of]
      BY <1>5 DEF Robberies
    <3> QED
      BY <3>1 DEF LiveSessionsKept, Reused
  <2> QED
    BY <1>1, <2>1, <2>2 DEF LiveSessionsKept, RelayAlive, Reused
<1>15. Covered'
  BY <1>1, <1>5 DEF Covered, Handling
<1> QED
  BY <1>6, <1>7, <1>8, <1>9, <1>10, <1>11, <1>12, <1>13, <1>14, <1>15

\* A packet of the relay socket.
LEMMA FromLocalRelayInv ==
  ASSUME IndInv, NEW c \in Conns, FromLocalRelay(c)
  PROVE  IndInv'
<1> USE DEF IndInv
<1> DEFINE k == lookup_back(tcp_nat_, conns[c].port)
<1>1. /\ UNCHANGED << tcp_nat_, conns, allocs, stray, toRelay, robbed >>
      /\ toApp' = IF k \in {NoKey, conns[c].key} THEN toApp
                  ELSE toApp \cup {[from |-> c, to |-> k, reused |-> Reused(c, allocs)]}
      /\ conns[c].relay # "none"
  BY DEF FromLocalRelay, Shape
<1>2. k \notin {NoKey, conns[c].key} => Reused(c, allocs)
  BY <1>1 DEF Owner, lookup_back
<1>3. AnswersReturnToFlow'
  <2> HIDE DEF k
  <2> SUFFICES ASSUME NEW x \in toApp' PROVE x.reused
    BY DEF AnswersReturnToFlow
  <2> QED
    BY <1>1, <1>2 DEF AnswersReturnToFlow
<1>4. Typed' /\ Shape' /\ Owner' /\ RightDestination' /\ NoCrossTalk'
  BY <1>1 DEF Typed, Shape, Owner, RightDestination, NoCrossTalk, Conns, Reused
<1>5. LiveSessionsKept' /\ Covered' /\ Successors' /\ Race' /\ Robberies'
  BY <1>1 DEF LiveSessionsKept, Covered, Conns, RelayAlive, Handling, Reused,
              Successors, Race, Robberies
<1> QED
  BY <1>3, <1>4, <1>5

\* Nothing but the packet thread's own state changes.
LEMMA StutterInv ==
  ASSUME IndInv, UNCHANGED << tcp_nat_, conns, allocs, stray, toRelay, toApp, robbed >>
  PROVE  IndInv'
<1>1. Typed' /\ Shape' /\ Owner' /\ RightDestination' /\ NoCrossTalk' /\ AnswersReturnToFlow'
  BY DEF IndInv, Typed, Shape, Owner, RightDestination, NoCrossTalk, AnswersReturnToFlow,
         Conns, Reused
<1>2. LiveSessionsKept' /\ Covered' /\ Successors' /\ Race' /\ Robberies'
  BY DEF IndInv, LiveSessionsKept, Covered, Conns, RelayAlive, Handling, Reused,
         Successors, Race, Robberies
<1> QED
  BY <1>1, <1>2 DEF IndInv

\* Every step keeps the invariant.
LEMMA NextInv == IndInv /\ [Next]_vars => IndInv'
<1> SUFFICES ASSUME IndInv, [Next]_vars PROVE IndInv'
  OBVIOUS
<1>1. CASE UNCHANGED vars
  BY <1>1, StutterInv DEF vars
<1>2. ASSUME NEW k \in FlowKeys, Open(k) PROVE IndInv'
  BY <1>2, OpenInv
<1>3. ASSUME NEW c \in Conns, AppGone(c) PROVE IndInv'
  BY <1>3, AppGoneInv
<1>4. ASSUME NEW c \in Conns, FromStack(c) PROVE IndInv'
  BY <1>4, FromStackInv
<1>5. ASSUME NEW c \in Conns, FromStackForever(c) PROVE IndInv'
  BY <1>5, StutterInv DEF FromStackForever
<1>6. ASSUME NEW c \in Conns, FromLocalRelay(c) PROVE IndInv'
  BY <1>6, FromLocalRelayInv
<1>7. ASSUME NEW c \in Conns, Accept(c) PROVE IndInv'
  BY <1>7, AcceptInv
<1>8. ASSUME NEW c \in Conns, HandleClient(c) PROVE IndInv'
  BY <1>8, HandleClientInv
<1>9. ASSUME NEW c \in Conns, HandleClientReset(c) PROVE IndInv'
  BY <1>9, HandleClientResetInv
<1>10. ASSUME NEW c \in Conns, HandlerReturns(c) PROVE IndInv'
  BY <1>10, HandlerReturnsInv
<1>11. ASSUME NEW c \in Conns, EraseSession(c) PROVE IndInv'
  BY <1>11, EraseSessionInv
<1>12. ASSUME NEW c \in Conns, RelayGone(c) PROVE IndInv'
  BY <1>12, RelayGoneInv
<1>13. ASSUME NEW c \in Conns, RelayReset(c) PROVE IndInv'
  BY <1>13, RelayResetInv
<1> QED
  BY <1>1, <1>2, <1>3, <1>4, <1>5, <1>6, <1>7, <1>8, <1>9, <1>10, <1>11, <1>12, <1>13 DEF Next

\* IndInv is an inductive invariant of TunTcp.
LEMMA Invariant == Spec => []IndInv
<1> QED
  BY InitInv, NextInv, PTL DEF Spec

\* For any flow keys, port range and number of connections: handle_client,
\* handle_tcp_from_stack and handle_tcp_from_local_relay never confuse two
\* flows until a port has been handed out again.
THEOREM TunTcpPacketsFindTheirFlow == Spec => []PacketsFindTheirFlow
<1>1. IndInv => PacketsFindTheirFlow
  BY DEF IndInv, PacketsFindTheirFlow
<1> QED
  BY <1>1, Invariant, PTL

\* For any flow keys, port range and number of connections: a connection in
\* handler_ whose socket is open keeps its NAT session, unless the handler of
\* a connection that was reset before it erases by the same port number, after
\* a redial of the same flow or after the port was handed out again.
THEOREM TunTcpLiveSessionsKept == Spec => []LiveSessionsKept
<1>1. IndInv => LiveSessionsKept
  BY DEF IndInv
<1> QED
  BY <1>1, Invariant, PTL

\* For any flow keys, port range and number of connections: when no connection
\* is being handled, the sessions in tcp_nat_ are those of stray packets.
THEOREM TunTcpLeaksComeFromStrayPackets == Spec => []LeaksComeFromStrayPackets
<1>1. IndInv => LeaksComeFromStrayPackets
  BY DEF IndInv, Covered, LeaksComeFromStrayPackets
<1> QED
  BY <1>1, Invariant, PTL

=============================================================================
