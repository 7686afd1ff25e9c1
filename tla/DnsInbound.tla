----------------------------- MODULE DnsInbound -----------------------------
(***************************************************************************)
(* The DNS inbound (dns/dns_inbound.cpp): one coroutine receives requests  *)
(* on a UDP socket and starts a handle_request for each, which asks a      *)
(* nameserver through DnsServer::query and the transports of dns/dns.cpp   *)
(* and passes the reply on.  The coroutines share one thread and suspend   *)
(* whenever they wait, so requests overlap in any order.                   *)
(*                                                                         *)
(* A reply is known by the request it answers, and by whether the parser   *)
(* accepts it.  Nothing compares a reply with the request: over UDP the    *)
(* only tie between them is the ephemeral port of the query's socket.      *)
(***************************************************************************)
EXTENDS Integers, FiniteSets, SequencesExt

CONSTANTS
    Clients,       \* the endpoints requests come from
    Ports,         \* the ephemeral ports of the queries' sockets
    MaxRequests    \* bound: requests the clients send

ASSUME DnsInboundAssumption == IsFiniteSet(Clients) /\ MaxRequests \in Nat

VARIABLES
    rules,       \* dns.rules is not empty
    ask,         \* the requests sent so far: client, name and transport of each
    arriving,    \* requests on their way to the inbound's socket
    loop,        \* the coroutine start: "receive", or "ended"
    stopping_,
    handle,      \* the coroutine handle_request of each request
    replies,     \* replies on their way to a query's UDP socket
    silent,      \* requests whose nameserver says nothing more
    faults,      \* history: requests the network or a nameserver failed
    sent         \* history: the replies sent to clients

vars == << rules, ask, arriving, loop, stopping_, handle, replies, silent, faults, sent >>

Requests == 1 .. MaxRequests

\* A question may be unhostable: no Host can be made of its name (the root, or
\* more than 255 characters), and the first rule's own lists do not cover it.
\* A garbled one does not parse.  The type is that of the nameserver the rules
\* select, where "tcp" stands for "tls" too.
Kinds == {[name |-> "name", type |-> t] : t \in {"udp", "tcp", "https"}}
            \cup {[name |-> n, type |-> "udp"] : n \in {"unhostable", "garbled"}}

NoPort  == 0
NoReply == [to |-> NoPort, answers |-> 0, parses |-> FALSE]
NotYet  == [pc |-> "none", port |-> NoPort, reply |-> NoReply]

Init ==
    /\ rules \in BOOLEAN
    /\ ask = << >>
    /\ arriving = {}
    /\ loop = "receive"
    /\ stopping_ = FALSE
    /\ handle = [q \in Requests |-> NotYet]
    /\ replies = {}
    /\ silent = {}
    /\ faults = {}
    /\ sent = {}

-----------------------------------------------------------------------------
(***************************************************************************)
(* DnsInbound::start and stop.                                             *)
(***************************************************************************)
At(q, pc) == handle[q].pc = pc

\* Mutant of MayReceive: the loop awaits handle_request instead of spawning
\* it.
MayReceive_sequential ==
    loop = "receive" /\ \A q \in Requests : handle[q].pc \in {"none", "answered", "dropped"}

MayReceive == loop = "receive"

\* async_receive_from, then co_spawn of handle_request.
Receive(q) ==
    /\ MayReceive
    /\ q \in arriving
    /\ arriving' = arriving \ {q}
    /\ handle' = [handle EXCEPT ![q].pc = "parse"]
    /\ UNCHANGED << rules, ask, loop, stopping_, replies, silent, faults, sent >>

\* async_receive_from throws, for whatever reason; on Windows it is enough that
\* a reply sent earlier found no socket.  The exception leaves the loop, and
\* nothing starts it again; requests already received are not affected.
ReceiveFails ==
    /\ loop = "receive"
    /\ loop' = "ended"
    /\ UNCHANGED << rules, ask, arriving, stopping_, handle, replies, silent, faults, sent >>

\* stop closes the socket: the pending receive is aborted.
Stop ==
    /\ ~stopping_
    /\ stopping_' = TRUE
    /\ loop' = "ended"
    /\ UNCHANGED << rules, ask, arriving, handle, replies, silent, faults, sent >>

-----------------------------------------------------------------------------
(***************************************************************************)
(* handle_request.                                                         *)
(***************************************************************************)

\* Any exception ends the request without an answer; the socket of the query
\* goes with it.
Drop(q) ==
    /\ handle' = [handle EXCEPT ![q] = [NotYet EXCEPT !.pc = "dropped"]]
    /\ UNCHANGED replies

\* The network or the nameserver is to blame.
Fault(q) == faults' = faults \cup {q} /\ Drop(q)

\* Mutant of Refused: a name is made a Host before the rules are looked at.
Refused_always(q) == ask[q].name \in {"garbled", "unhostable"}

\* parse_question or pick_nameserver throws: match_rule makes a Host of a name
\* that the lists of the first rule do not cover, for its rule sets.
Refused(q) == ask[q].name = "garbled" \/ (ask[q].name = "unhostable" /\ rules)

PickNameserver(q) ==
    /\ At(q, "parse")
    /\ IF Refused(q) THEN Drop(q)
       ELSE handle' = [handle EXCEPT ![q].pc = "connect"] /\ UNCHANGED replies
    /\ UNCHANGED << rules, ask, arriving, loop, stopping_, silent, faults, sent >>

\* Open and connect a socket of its own (with the TLS handshake, and a lookup
\* of the nameserver's own name), and send the query.
FreePorts == Ports \ {handle[q].port : q \in Requests}
SendQuery(q) ==
    /\ At(q, "connect")
    /\ q \notin silent
    /\ \/ /\ \E p \in IF ask[q].type = "udp" THEN FreePorts ELSE {NoPort} :
                handle' = [handle EXCEPT ![q].pc = "wait", ![q].port = p]
          /\ UNCHANGED << replies, faults >>
       \/ Fault(q)
    /\ UNCHANGED << rules, ask, arriving, loop, stopping_, silent, sent >>

\* async_receive in async_query_udp: whatever reply has reached the port.
ReadDatagram(q) ==
    /\ At(q, "wait") /\ ask[q].type = "udp"
    /\ \E r \in replies :
          /\ r.to = handle[q].port
          /\ replies' = replies \ {r}
          /\ handle' = [handle EXCEPT ![q] = [pc |-> "reply", port |-> NoPort, reply |-> r]]
    /\ UNCHANGED << rules, ask, arriving, loop, stopping_, silent, faults, sent >>

\* async_read of a framed reply, or of an HTTP response.
ReadStream(q) ==
    /\ At(q, "wait") /\ ask[q].type # "udp"
    /\ q \notin silent
    /\ \E parses \in BOOLEAN :
          handle' = [handle EXCEPT
             ![q].pc = IF ask[q].type = "https" THEN "shutdown" ELSE "reply",
             ![q].reply = [to |-> NoPort, answers |-> q, parses |-> parses]]
    /\ UNCHANGED << rules, ask, arriving, loop, stopping_, replies, silent, faults, sent >>

\* The connection attempt or the read throws: it times out, the connection
\* ends early, the reply does not fit.
QueryFails(q) ==
    /\ At(q, "connect") \/ At(q, "wait")
    /\ Fault(q)
    /\ UNCHANGED << rules, ask, arriving, loop, stopping_, silent, sent >>

\* async_query_https waits for the server to close TLS before it looks at the
\* status of the response it already has.
ShutDownTls(q) ==
    /\ At(q, "shutdown")
    /\ q \notin silent
    /\ \/ handle' = [handle EXCEPT ![q].pc = "reply"] /\ UNCHANGED << replies, faults >>
       \/ Fault(q)
    /\ UNCHANGED << rules, ask, arriving, loop, stopping_, silent, sent >>

\* Mutant of Client: the loop's variable is captured by reference.
Client_shared(q) ==
    LET received == {i \in DOMAIN ask : ~At(i, "none")}
    IN  ask[CHOOSE i \in received : \A j \in received : j <= i].client

\* The endpoint handle_request was started with.
Client(q) == ask[q].client

\* ip_list_text parses the reply for the log first: one the parser refuses is
\* never sent.  async_send_to throws once stop has closed the socket.
Answer(q) ==
    /\ At(q, "reply")
    /\ \/ /\ handle[q].reply.parses /\ ~stopping_
          /\ handle' = [handle EXCEPT ![q] = [NotYet EXCEPT !.pc = "answered"]]
          /\ sent' = sent \cup {[request |-> q, client |-> Client(q), reply |-> handle[q].reply]}
          /\ UNCHANGED << replies, faults >>
       \/ /\ handle[q].reply.parses /\ stopping_
          /\ Drop(q)
          /\ UNCHANGED << faults, sent >>
       \/ /\ ~handle[q].reply.parses
          /\ Fault(q)
          /\ UNCHANGED sent
    /\ UNCHANGED << rules, ask, arriving, loop, stopping_, silent >>

Handle(q) ==
    \/ PickNameserver(q) \/ SendQuery(q) \/ ReadDatagram(q) \/ ReadStream(q)
    \/ ShutDownTls(q) \/ Answer(q)

-----------------------------------------------------------------------------
(***************************************************************************)
(* External: the clients, the network and the nameservers.                 *)
(***************************************************************************)

\* A client's request; one the network loses is one that was never sent.
Ask(c, k) ==
    /\ Len(ask) < MaxRequests /\ loop = "receive"
    /\ ask' = Append(ask, [client |-> c, name |-> k.name, type |-> k.type])
    /\ arriving' = arriving \cup {Len(ask) + 1}
    /\ UNCHANGED << rules, loop, stopping_, handle, replies, silent, faults, sent >>

\* A nameserver answers a datagram; it may do so again while its last reply is
\* still on the way.
Reply(q) ==
    /\ At(q, "wait") /\ ask[q].type = "udp"
    /\ q \notin silent
    /\ \E parses \in BOOLEAN :
          replies' = replies \cup {[to |-> handle[q].port, answers |-> q, parses |-> parses]}
    /\ UNCHANGED << rules, ask, arriving, loop, stopping_, handle, silent, faults, sent >>

LoseReply(r) ==
    /\ replies' = replies \ {r}
    /\ silent' = IF At(r.answers, "wait") THEN silent \cup {r.answers} ELSE silent
    /\ UNCHANGED << rules, ask, arriving, loop, stopping_, handle, faults, sent >>

\* The query was lost, or the server hangs, in a handshake too: no timeout of
\* the inbound's ends the wait.
FallSilent(q) ==
    /\ handle[q].pc \in {"connect", "wait", "shutdown"}
    /\ silent' = silent \cup {q}
    /\ UNCHANGED << rules, ask, arriving, loop, stopping_, handle, replies, faults, sent >>

-----------------------------------------------------------------------------
Network ==
    \/ \E c \in Clients, k \in Kinds : Ask(c, k)
    \/ \E q \in Requests : QueryFails(q) \/ FallSilent(q)
    \/ \E r \in replies : LoseReply(r)

Next ==
    \/ \E q \in Requests : Receive(q) \/ Handle(q) \/ Reply(q)
    \/ ReceiveFails \/ Stop
    \/ Network

\* The io_context runs what is ready, and a nameserver that is not silent
\* answers; nothing else is forced.
Fairness ==
    \A q \in Requests : WF_vars(Receive(q)) /\ WF_vars(Handle(q)) /\ WF_vars(Reply(q))

Spec == Init /\ [][Next]_vars /\ Fairness

-----------------------------------------------------------------------------
(***************************************************************************)
(* Properties.                                                             *)
(***************************************************************************)

\* A reply goes to the client whose request it answers, once: requests that
\* overlap are never mixed up.  The one exception is a late datagram that
\* finds its port taken over by another query, after its own has ended.
AnswersOwnQuestion ==
    \A s \in sent :
       /\ s.reply.answers # s.request =>
             /\ s.reply.to \in Ports
             /\ handle[s.reply.answers].pc \in {"reply", "answered", "dropped"}
       /\ s.reply.answers = s.request => s.client = ask[s.request].client
       /\ \A t \in sent : s.request = t.request => s = t

\* A request that got as far as the inbound goes unanswered only for a reason:
\* its question is malformed, no Host can be made of its name for the rules,
\* the network or the nameserver failed it or gave a reply the parser refuses,
\* or the inbound was stopped.  That the loop has ended on a failed receive is
\* no reason.  And a request counts as answered only if its client was sent a
\* reply, which a refused one never is.
DropsForAReason ==
    \A q \in DOMAIN ask :
       LET refused == ask[q].name = "garbled" \/ (ask[q].name = "unhostable" /\ rules)
       IN  /\ At(q, "dropped") => refused \/ q \in faults \/ stopping_
           /\ At(q, "answered") => ~refused /\ \E s \in sent : s.request = q

\* Every request that reaches the inbound is settled, however long the others
\* take, unless its own nameserver stays silent or the loop ends.
RequestsSettle ==
    \A q \in Requests :
       q \in arriving ~> \/ handle[q].pc \in {"answered", "dropped"}
                         \/ q \in silent
                         \/ loop = "ended"
=============================================================================
