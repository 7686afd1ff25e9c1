------------------------------- MODULE Resolve ------------------------------
(***************************************************************************)
(* Opening one outgoing connection: Connector::connect for TCP and UDP     *)
(* (transport/connector.cpp) and, for a domain, DnsServer::resolve with    *)
(* its two queries, A and then AAAA (dns/dns.cpp).  A nameserver is always *)
(* an IP address, so a query never needs another resolution.               *)
(*                                                                         *)
(* A reply is the list of addresses parse_response finds in it; records of *)
(* other types are skipped, and one malformed record spoils the reply.     *)
(***************************************************************************)
EXTENDS Integers, SequencesExt

CONSTANTS
    Addresses,    \* the addresses replies may carry
    MaxRecords    \* bound: addresses in one reply

ASSUME ResolveAssumption == MaxRecords \in Nat

VARIABLES
    job,        \* "tcp" or "udp" socket, "ip" or "domain" host
    pc,         \* control state of connect
    query,      \* 1 while QueryType::A is asked, 2 for AAAA
    output,     \* the addresses collected by resolve
    last_error, \* resolve has caught an exception
    next,       \* the address connect tries next
    failed,     \* history: the addresses that could not be connected, in order
    replies,    \* history: the addresses of each well-formed reply
    silent,     \* no answer to the current query will come
    unbound,    \* history: bind_socket_to_interface failed
    peer        \* the address the socket is connected to

vars == << job, pc, query, output, last_error, next, failed, replies, silent, unbound, peer >>

NoAddress == "none"
Lists == UNION {[1 .. n -> Addresses] : n \in 0 .. MaxRecords}

Init ==
    /\ job \in [socket : {"tcp", "udp"}, host : {"ip", "domain"}]
    /\ pc = "resolve"
    /\ query = 0
    /\ output = << >>
    /\ last_error = FALSE
    /\ next = 1
    /\ failed = << >>
    /\ replies = << >>
    /\ silent = FALSE
    /\ unbound = FALSE
    /\ peer = NoAddress

-----------------------------------------------------------------------------
(***************************************************************************)
(* resolve_destination and DnsServer::resolve.                             *)
(***************************************************************************)

\* An IP address is its own resolution; for a domain the A query starts.
ResolveDestination ==
    /\ pc = "resolve"
    /\ \/ /\ job.host = "ip"
          /\ \E a \in Addresses : output' = << a >> /\ replies' = << << a >> >>
          /\ pc' = "try"
          /\ UNCHANGED query
       \/ /\ job.host = "domain"
          /\ query' = 1
          /\ pc' = "ask"
          /\ UNCHANGED << output, replies >>
    /\ UNCHANGED << job, last_error, next, failed, silent, unbound, peer >>

\* Mutant of AfterQueries: an error of either query is rethrown.
AfterQueries_strict(found, error) == IF error THEN "threw" ELSE "try"

\* The end of resolve: addresses win over errors.
AfterQueries(found, error) == IF found # << >> THEN "try" ELSE "threw"

\* Mutant of NextQuery: a failed query is repeated without limit.
NextQuery_retry(found, error) ==
    /\ output' = found
    /\ last_error' = error
    /\ CASE error     -> UNCHANGED query /\ pc' = "ask"
         [] query = 1 -> query' = 2 /\ pc' = "ask"
         [] OTHER     -> UNCHANGED query /\ pc' = AfterQueries(found, error)

\* One query is over: found were collected so far, error says whether an
\* exception was caught.
NextQuery(found, error) ==
    /\ output' = found
    /\ last_error' = error
    /\ IF query = 1
       THEN query' = 2 /\ pc' = "ask"
       ELSE UNCHANGED query /\ pc' = AfterQueries(found, error)

\* query and query_dns: connect to the nameserver, which is an address, and
\* send; each step may throw, which resolve catches.
Ask ==
    /\ pc = "ask"
    /\ \/ pc' = "wait" /\ UNCHANGED << query, output, last_error >>
       \/ NextQuery(output, TRUE)
    /\ UNCHANGED << job, next, failed, replies, silent, unbound, peer >>

\* The reply is read and parsed, or reading or parsing throws.
Reply ==
    /\ pc = "wait" /\ ~silent
    /\ \/ \E r \in Lists :
             /\ NextQuery(output \o r, last_error)
             /\ replies' = Append(replies, r)
       \/ NextQuery(output, TRUE) /\ UNCHANGED replies
    /\ UNCHANGED << job, next, failed, silent, unbound, peer >>

\* External: no answer comes.  Over UDP the query or the answer is lost, over
\* a stream the server stays silent; the read waits without a timeout.
Silence ==
    /\ pc = "wait" /\ ~silent
    /\ silent' = TRUE
    /\ UNCHANGED << job, pc, query, output, last_error, next, failed, replies, unbound, peer >>

-----------------------------------------------------------------------------
(***************************************************************************)
(* Connector::connect.                                                     *)
(***************************************************************************)

\* The loop over the addresses: UDP takes addresses.front() and stops.
MayRetry == job.socket = "tcp" /\ next < Len(output)

\* Mutant of Candidate: the newest answers first.
Candidate_last == output[Len(output) + 1 - next]

Candidate == output[next]

\* open, or the connection, fails.
TryFails ==
    /\ pc = "try"
    /\ failed' = Append(failed, Candidate)
    /\ next' = next + 1
    /\ pc' = IF MayRetry THEN "try" ELSE "threw"
    /\ UNCHANGED << job, query, output, last_error, replies, silent, unbound, peer >>

\* The socket opens but cannot be bound to the outbound interface: connect
\* throws at once, whatever addresses are left.
BindFails ==
    /\ pc = "try"
    /\ unbound' = TRUE
    /\ pc' = "threw"
    /\ UNCHANGED << job, query, output, last_error, next, failed, replies, silent, peer >>

TrySucceeds ==
    /\ pc = "try"
    /\ peer' = Candidate
    /\ pc' = "connected"
    /\ UNCHANGED << job, query, output, last_error, next, failed, replies, silent, unbound >>

-----------------------------------------------------------------------------
Step == ResolveDestination \/ Ask \/ Reply \/ TryFails \/ BindFails \/ TrySucceeds

Next == Step \/ Silence

\* What is ready runs, and a connect ends by success or a system timeout.
Spec == Init /\ [][Next]_vars /\ WF_vars(Step)

-----------------------------------------------------------------------------
(***************************************************************************)
(* Properties.                                                             *)
(***************************************************************************)
Resolved == FlattenSeq(replies)

\* A connected socket goes to the first address, A records before AAAA, that
\* was not found unreachable: all before it were tried and failed.
FirstReachable ==
    pc = "connected" =>
       /\ peer = Resolved[Len(failed) + 1]
       /\ failed = SubSeq(Resolved, 1, Len(failed))

\* connect gives up only for a reason: nothing resolved, every address (for
\* UDP, the first) failed, or the interface could not be bound.  In
\* particular one failed query never hides the other one's addresses.
GivesUpForAReason ==
    pc = "threw" =>
       \/ Resolved = << >>
       \/ unbound
       \/ failed = SubSeq(Resolved, 1, IF job.socket = "tcp" THEN Len(Resolved) ELSE 1)

\* connect ends, unless a nameserver stays silent: then it waits for ever,
\* even when the A query already brought addresses.
ConnectEnds == <>(pc \in {"connected", "threw"} \/ silent)
=============================================================================
