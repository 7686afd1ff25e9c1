# Formal model of cppbox

cppbox is a proxy client: it accepts connections as a SOCKS5 or HTTP proxy or,
on Windows, as a TUN adapter that captures all IP traffic, picks an outbound for
each by rules, and relays it directly or through a VLESS server. The program is
one `io_context` run by the main thread; the TUN adapter adds a packet thread,
and Windows calls the console handler on threads of its own.

All paths below are relative to `src/` of the repository.

## Inventory

| Part | State | Operations | Correct when |
|---|---|---|---|
| `inbound/tun_nat` (TunNat) | `forward_`, `reverse_`, `lru_`, `next_port_`, a mutex | `lookup_or_create`, `lookup_back`, `erase` | one port per flow, one flow per port; the LRU session goes first; calls return |
| `inbound/tun_inbound`, UDP | `udp_nat_`, `udp_flows_`, per flow a queue and three flags | `handle_udp_packet`, `enqueue`, `start`, `send_loop`, `recv_loop`, `erase_udp_flow`, `stop` | datagrams go to their destination, in order, none stranded; flows and sessions end together |
| `inbound/tun_inbound`, TCP | `tcp_nat_` | `handle_tcp_from_stack`, `handle_tcp_from_local_relay`, `accept_loop`, `handle_client` | a connection reaches the destination dialled, answers the right application |
| `main`, `core/shutdown`, `inbound/tun_route`, `inbound/tun_wintun`, `platform/windows_proxy` | inbounds, stop callbacks, adapter, routes, proxy setting | start-up, `request_stop`, `TunInbound::start`/`stop`, destructors | the system is left as it was found; a stop request ends the process |
| inbounds, `protocol/socks5`, `protocol/http_proxy`, outbounds, `transport/stream_utils` | one coroutine per connection, two relays | `read_session`, `handle`, `relay*` | bytes arrive complete and in order, headers first; a closed session ends |
| `transport/connector`, `dns/dns` | none beyond the call | `connect`, `resolve` | the first reachable address is used; errors of one query do not hide the other |
| `route/router`, `route/rule_set`, rules of `dns/dns` | the rules and rule sets | `pick_outbound`, `pick_nameserver` | the first rule that covers the destination decides |
| `config/config`, `common/json_common` | the configuration | `load_config`, the constructors of `Router` and `DnsServer` | what is accepted is what is used |
| `dns/dns_inbound`, `DnsServer::query` | one coroutine per request, a socket per query | `start`, `handle_request`, the four transports, `stop` | a client gets the answer to its own question; requests do not wait for each other |
| `dns/dns_message`, `protocol/tls_sniffer`, `protocol/http_proxy` (targets), `inbound/tun_checksum` | none | parsers and encoders | they agree with the format on every input, cut or malformed, and end |
| `protocol/vless`, `core/tls`, `core/address`, `core/utils`, `core/log` | none | encoders, setup, accessors | see *Not modelled* |

How the parts interact. The packet thread and the io thread share the two NAT
tables (each with its own mutex), `udp_flows_` and the queues of the flows, and
the packet thread posts coroutines to the `io_context`. Inbounds call the handler
lambda of `main`, which asks the router and hands the socket to an outbound;
outbounds connect through the connector, which resolves through the DNS server,
which connects to its nameservers through the connector (by IP address, so the
recursion ends). `Shutdown` runs the stop callbacks on the io thread, where
`TunInbound::stop` joins the packet thread.

What is hard: the two threads of the TUN inbound, which release a lock between
looking something up and using it; ports used again for another flow; the
cancellation rule of `relay || relay`; start-up and shutdown with a failure at
any system call, or a kill between two of them; DNS requests that overlap while
answers are late, lost or malformed; lengths and pointers in received bytes. The hazards are listed in `PROJECT.json` at the line where each
bites, with the properties that look at them.

## Modules

| Module | Models | Checked by |
|---|---|---|
| `NatTable` | the member functions of `TunNat` as operators on a table | through `TunNat`, `TunUdp`, `TunTcp`; lemmas in `NatTableProofs` |
| `TunNat` | one table under concurrent calls | `MCTunNat`, proofs in `TunNatProofs` |
| `NatSpec` | what callers rely on: a partial injection of flows to ports | implemented by `TunNat` (`AbstractSpec`) |
| `TunUdp` | the UDP half of the TUN inbound; uses `NatTable` | `MCTunUdp`, proofs in `TunUdpProofs` |
| `TunTcp` | the TCP half; uses `NatTable` | `MCTunTcp`, proofs in `TunTcpProofs` |
| `Lifecycle` | start, stop and end of the process | `MCLifecycle`, proofs in `LifecycleProofs` |
| `Session` | one proxied connection, every inbound protocol with every outbound | `MCSession`, proofs in `SessionProofs` |
| `Resolve` | one outgoing connection, with name resolution | `MCResolve`, proofs in `DestinationProofs` |
| `DnsInbound` | the DNS inbound with the queries it makes | `MCDnsInbound`, proofs in `DnsProofs` |
| `Address` | the names a `Host` can hold | through `Match` and `HttpTarget` |
| `Match` | rules, rule sets and the choice of outbound and nameserver | through `Algorithms`, proofs in `DestinationProofs` |
| `HttpTarget` | authorities, ports, hosts and the DNS inbound's listen address | through `Algorithms`, proofs in `DestinationProofs` |
| `Checksum` | the Internet checksums of rewritten packets | through `Algorithms` |
| `DnsMessage` | the DNS parser, step by step, and `build_query` | through `Algorithms`, proofs in `DnsProofs` |
| `TlsSniffer` | the SNI sniffer, step by step | through `Algorithms`, proofs in `DestinationProofs` |
| `Algorithms` | composes the five: one call on one input, and its result | `MCAlgorithms` |
| `Config` | `load_config` and the constructors that check its result | `MCConfig` |

Conventions. A definition has the name of the function it models where TLA+
allows it; member variables keep their trailing underscore. A definition named
`X_something` that is introduced as a mutant of `X` is a plausible bug in the
code of `X`; no specification uses it, and the property it belongs to
(`PROJECT.json`, "mutants") fails when it takes the place of `X`. Variables
commented `history` record what happened for a property and never guard a step.

**NatTable, TunNat, NatSpec.** Every public member function of `TunNat` holds
`mutex_` from its first to its last statement, so each is one operator and one
step. `allocate_port_locked` is the first free port from `next_port_` on; when no
port is free its loop does not end, which is the action `AllocateForever` (the
mutex stays locked, so no other action follows). `PortSpan` stands for 2^16 and
`FirstPort` for 10000. `NatSpec` states the contract without LRU order and port
search; the refinement mapping takes `map` to `forward_`.

**TunUdp.** A step is one critical section with the local code behind it. The
packet thread's `handle_udp_packet` takes up to seven steps (lookup, the two parts
of `erase_udp_flow`, reverse lookup, find or create the flow, `enqueue`,
`co_spawn`); the io thread runs posted handlers in FIFO order, and its own
`erase_udp_flow` takes two steps between which the packet thread runs.
Asynchronous operations complete at any time, with success or failure; closing a
socket makes later operations on it fail. The properties name the windows in
which the code does not keep flows and sessions paired (`raced`, `stale`): they
say that nothing outside these windows goes wrong.

**TunTcp.** The operating system's TCP stack lies between the two ends of a
translated connection and is external: applications open connections, one at a
time per four-tuple, and both ends may send late packets. A relay socket and its
handler are separate (`socket` and `relay` of a connection): the stack may reset the
socket while `handle_client` still waits for `handler_`, and then a SYN with the same
NAT port opens another socket beside the old handler. What such a handler erases
under the new connection is recorded in `robbed`. On the io thread nothing runs
between the return of `handler_` and the erasure, but the packet thread does. The
model follows which NAT entry each packet and each accepted socket finds.

**Lifecycle.** The main thread goes through `main` in order; each call to the
system may be refused. `TunInbound::start` runs as a posted coroutine, so its
exceptions are dropped (`co_spawn` with `detached`) and what it made stays. What
outlives a step is kept in `os` (proxy setting, address, route). A handler
thread that calls a destroyed `Shutdown` is undefined behaviour: nothing happens
or the process dies. After a kill the program may be started again (`Restart`),
with any configuration: of the state only the proxy setting survives, as the
adapter takes its address and route with it.

**Session.** Data are units (requests, headers, numbered payload). A socket is
its receive buffer, how its peer ended it (`eof`, `reset`, or an error that
`is_stream_closed` does not know), and whether the peer stopped reading. A remote
that falls silent may do so while `Connect` still waits for it, in the TCP, TLS or
WebSocket handshake or behind a nameserver that does not answer, and then `Connect`
never ends. `Settled`
is the rule of asio's `operator||`: the first relay that returns normally cancels
the other, an exception leaves the other running. A TCP stream may deliver less
than the VLESS response header, which throws. A WebSocket peer may send an empty
message, which `relay_stream_to_tcp` takes for the end of the stream.

**Resolve.** Both queries, each with any reply, error or silence; then the loop
over the addresses for TCP, or the first address for UDP.

**DnsInbound.** The loop in `start` spawns one `handle_request` per datagram, and
each opens a socket of its own for its query. A coroutine's step ends where it
waits. Replies are in flight as a set; each knows the port it goes to and the
request it answers, which the code never compares. Replies may be lost, repeated,
late or refused by the parser, nameservers fall silent, while a connection to them
is being made too, any receive may fail (on Windows a reply to a client that left
makes the next one fail) and ends the loop, and `stop` closes the socket at any time.
A question is a name, one that does not parse, or one that no `Host` can hold and
the first rule does not cover by its own lists. `tls` behaves like `tcp` here.

**Address.** A name of a request or a DNS message may be any text; `DomainName`
refuses the empty one and those longer than `MaxDomain` (255). Whatever makes a
`Host` throws with it.

**Match.** Rules in order, with exact, suffix, keyword and CIDR conditions and rule
sets, for `Router` on raw and for `DnsServer` on normalised names. A test says yes,
no or throws: a malformed CIDR throws when a destination reaches it, a name that no
`Host` can hold when it reaches a DNS rule that does not cover it. An entry without a
slash is compared as a text, so an entry has a spelling, and only the one
`to_string` gives matches. `Router` implements CIDR once on a 32-bit number and once
byte by byte; a shift takes its count modulo the width, as the build does, so that
the test for prefix 0 matters. The references are definitions by labels and by bits,
and the first covering rule or entry.

**HttpTarget.** Texts are short sequences over digits, a letter, brackets, colons
and slashes; which texts are addresses is a constant (asio's parser is external),
and a text that is none must be a domain of at most `MaxDomain` characters.
The reference is the grammar: a result is a reading of the text as host and port
(`AuthorityMeant`), and a text with a reading has a result (`AuthorityTaken`).

**Checksum.** The four functions on bytes. The reference is what a receiver does:
add everything up and accept a multiple of 2^16 - 1.

**DnsMessage, TlsSniffer.** Both parsers are step machines on a sequence of bytes,
with the offsets the code keeps. `read_name` calls itself at a pointer and returns
right after the call, so one frame suffices. `steps` counts its iterations, `reach`
is the furthest byte the sniffer looked at and `turns` counts the turns of its two
loops: all are history. For the results the references are encoders: what was
encoded is what is decoded, and a cut packet is refused. How far the parsers get is
stated without one. `ParserBounded`: a pointer into a circle ends (`ReadNameEnds`)
and a record takes bytes of its own whatever the header counts (`RecordsFit`).
`SnifferBounded`: the sniffer reads nothing past the end (`SnifferStaysInside`) and
takes bytes in every turn (`SnifferEnds`). `MessageSpec` and `SniffSpec` are the parsers alone, on any bytes.

**Algorithms.** The constants are sets of calls, one for each algorithm, which the MC
module enumerates; the state is the call (`call`), the parsers' state and, for the
functions that are evaluated in one step, the result (`got`). `CallSpec` is one call.

**Config.** A JSON object is a function from its keys, and `Wrong` a value of another
JSON type. Each section of `load_config` is one step that throws or adds to
`config`; then come the constructors of `Router` (with `RuleSet::load_source`) and
of `DnsServer`, which tests much of it again. Without a `windows_proxy` section
`enabled` is never assigned, so `LoadWindowsProxy` may leave either value.

## Runs

The name of a run is the name of its `.cfg`.

| Run | Bounds | Shows |
|---|---|---|
| `TunNatBounded` | 4 flows, 4 ports, limit 2 | maps, LRU list, limit, LRU order, no hang, implements `NatSpec` (which also has the limit) |
| `TunNatUnbounded` | 4 flows, 3 ports, no limit | implements `NatSpec`, hang included |
| `TunUdpReuse` | 2 flows, 1 port, limit 1, 4 datagrams, 3 flow objects | what port reuse can and cannot confuse; one sender per queue, order |
| `TunUdpSessions` | 2 flows, 2 ports, limit 1, 2 datagrams, 3 flow objects | pairing of flows and sessions; queued datagrams leave, the packet thread exits |
| `TunTcp` | 2 flows, 1 port, 3 connections | packets find their flow, live sessions kept, what leaks |
| `Lifecycle` | 2 listeners, 2 stop events, 2 runs, every combination of TUN, proxy and DNS | nothing left behind, callbacks once, stop ends the process |
| `Session` | 2 units each way, 4 protocols, 5 outbounds | integrity and order both ways, sessions end |
| `Resolve` | 3 addresses, 2 per reply | first reachable address, reasons for giving up, termination |
| `DnsInbound` | 2 clients, 2 requests, 2 ephemeral ports, every transport | own answers only, reasons for silence, requests settle |
| `Algorithms` | see `MCAlgorithms`; 3-bit bytes and 2-byte addresses for CIDR, domains of at most 4 characters, ports up to 10, 16 pointers per name | the algorithms agree with their references |
| `ConfigPorts`, `ConfigRules` | one full configuration and its variations in one place | the two findings (expected violations) |

Why the bounds are enough. In the NAT runs `next_port_` wraps several times, every
port is reused, and the limit is reached with flows to spare. `TunUdpReuse` has a
single port so that reuse happens at once; with four datagrams a flow can be
created, torn down, replaced, hit by a late erase, and still have two datagrams
queued whose order matters. `TunUdpSessions` has more flows than sessions and more
ports than sessions, so evictions happen without reuse. In `TunTcp` three connections
over one port include a four-tuple dialled again beside the old handler, and the
other flow getting the port while that handler still runs. `Lifecycle` needs two events for the race
of two stop requests, and two runs for what a killed one leaves to the next. Two units per direction tell loss, duplication and
reordering apart, and let one unit be in a buffer while another is in flight.
Two-byte addresses have prefixes inside, at and beyond a byte boundary. With domains
of at most four characters names are empty, at the limit, above it, and above it only
until a trailing dot is gone. Two
requests with two ports are enough for a reply to meet the port of another query,
and for one request to wait while the other is served. The packets for the
DNS parser include pointers to the question, into a name, to themselves and in
circles, cuts inside every field, and up to three records in a packet that claims
255; the ClientHellos every cut, and every byte
outside the random field replaced.

Flow keys are interchangeable, so the safety runs of `TunUdp` and `TunTcp` use
symmetry where their `.cfg` says so; runs with temporal properties do not. `CHECK_DEADLOCK FALSE` stands
where the system ends (a process exits, a connection is over) or the bounded
environment sends no more.

Fairness. The scheduler runs both threads and the io thread runs what is ready:
weak fairness on the steps of a thread (`PacketWork`, `EraseWork`, `MainStep`,
`Handler`, the relays). `Connect` is part of `Handler`, and is not enabled while the
remote is silent. `FlowWork(f)` is fair per flow because asynchronous connects
and sends end, by success or by an error of the system; in `Resolve` a connect ends
for the same reason. In `DnsInbound` a nameserver that is not silent
answers, and silence is a step of its own. `PacketThreadEnds` is fair since `packet_loop` wakes up every
100 ms. Nothing forces packets, peers, signals, receive errors or a nameserver's
answer; `ConnectEnds`, `RequestsSettle` and `PeerCloseEndsSession` name silence and
stalled peers as the exceptions they are, for the code has no timeouts.

### What the runs show about the code

- A TUN datagram or connection goes astray only when a port was handed out again
  while something of its earlier flow was still under way. With 55536 ports and
  1024 UDP sessions that takes a full turn of `next_port_`.
- `erase_udp_flow` takes the flow out first and the NAT entry afterwards; a
  datagram that arrives in between gets a flow without a session.
- TCP NAT entries leak through late packets and early resets; as the table has no
  limit, enough leaks fill it, and then the packet thread spins with the mutex
  held and `stop` waits for ever (`StopRequestsEndProcess` excepts this case).
- A fatal console event may end the process before the posted stop runs; the
  system proxy then stays set, and only a later run that configures the proxy
  removes it when it stops. Every other way out, failed starts included, leaves
  nothing behind that the system let the program undo.
- `handle_client` erases by port number. When a relay socket is reset and the
  application dials the same destination from the same port before the old handler
  has noticed, the old handler erases the NAT entry under the new connection, whose
  packets are then dropped. This, or the same after the port was handed out again,
  is the only way a relayed connection loses its entry.
- Bytes sent right behind a CONNECT request are dropped. Nothing else is lost
  upstream, in any combination of protocols and closes.
- A client that closes its sending side ends the session: the upward relay returns
  normally, the downward one is cancelled, and what the remote still sends is lost.
  `NothingAbandoned` therefore speaks of clients that have not ended their side.
- A silent nameserver blocks a connect for ever, also when the other query
  already brought addresses. A DoH server that does not close its connection
  holds its complete answer back.
- Overlapping DNS requests are never mixed up, except that a late UDP answer may
  find its port taken over by another query: there is no check of ID or question.
- A DNS client goes without an answer when its question is malformed, asks for the
  root name or a name of more than 255 characters that the first rule does not cover
  by its own lists, or gets a reply that `parse_response` refuses
  (the reply is parsed for the log only). One receive error ends the DNS inbound.
- An empty WebSocket message ends a VLESS session.
- A malformed `ip_cidr` throws only when a destination reaches it. An entry without
  a slash matches only in the spelling of `to_string`: `2001:DB8::1` never does. A DNS rule
  matches names regardless of case and trailing dots, a routing rule does not.
- `read_name` ends on every packet, within one pass over the packet per level, and
  a packet yields no more records than its bytes have room for, whatever it claims.
- The sniffer stays inside its bytes although it never compares the end of a list
  of names with the end of its extension: every read has a test of its own.

### Findings

- `ConfigPorts`: `get_u16` says "need u16" (`src/common/json_common.cpp:39`) but
  tests only the upper bound; -1 becomes 65535.
- `ConfigRules`: the constructor of `DnsServer` throws "dns rule must not be null"
  (`src/dns/dns.cpp:112`) exactly for a rule that has all four kinds of condition.

## Proofs

Every safety property that a passing run checks of `TunNat`, `TunUdp`, `TunTcp`,
`Lifecycle`, `Session`, `Resolve` and `DnsInbound` is also a theorem, for every
value of the constants; so are the refinement of `NatSpec`, the bounds on both
parsers (`ParserBounded`, `SnifferBounded`), and for
texts of any length the choice of a rule for a name (`FirstNameRuleDecides`) and the
meaning of a destination (`AuthorityMeant`). The theorems are listed in
`PROJECT.json`. Each rests on an inductive invariant (`IndInv`; `InboundInv`,
`NameInv` and `Advances` in `DnsProofs`; `SnifferInv` and `Evaluated` in
`DestinationProofs`), and those of the state machines were checked with TLC, conjunct
by conjunct, on the instance of the run before they were proved. A proof has one
lemma per action, and temporal steps only combine these.

Assumptions. The constants are as the code fixes them, no more:
`NatTableAssumption` (`NoKey` is no key, `FirstPort` is positive and below `PortSpan`,
`MaxSessions` is a natural number); `TunUdpAssumption` (there is a limit, and it fits
the port range: 1024 sessions, 55536 ports); `TunTcpAssumption` (`MaxSessions = 0`,
as `tcp_nat_` is constructed); the bounds on datagrams, flows, connections, events,
runs, units, records and requests are any natural numbers; `Listeners` and `Clients`
are any finite sets. `CallAssumption` gives the shapes of the calls' arguments: rules
of any number and length over sets of texts. `HttpTargetAssumption` says of the texts
the library takes for addresses that none is of both families and that one of IPv6
has a colon; `AddressAssumption` only that `MaxDomain` is a natural number.

**NatTableProofs** states what each member function does to a table, once for the
three modules that use it. `WellFormed` says that the two maps are inverse and that
the LRU list holds the mapped ports, each once. `MinNat` and `RemoveFirstDistinct`
are about minima and lists without duplicates; `UnmapFacts`, `EraseFacts`,
`EvictFacts`, `AllocateFacts`, `InsertFacts`, `HitFacts` follow the helpers;
`MakeRoomFacts`, `LookupHit`, `LookupMiss`, `NeverExhausted` give
`lookup_or_create`. Cardinalities come from `FiniteSetTheorems`.

**TunNatProofs.** None of the five invariants is inductive alone: an erasure keeps
the maps inverse only if they were; the size stays within the limit only if
eviction finds a mapped port, which needs the LRU list to hold every mapped port;
and the allocator finds a port only if the size was within the limit and the
eviction has just lowered it. `IndInv` is their conjunction.
- `TunNatImplementsNatSpec`: each step is a step of `NatSpec` under the mapping, or
  changes nothing it sees. A miss is `NatSpec`'s creation of a flow: the port is
  free because the maps are inverse, and the flow that disappears is the evicted
  one. The hang is allowed only when all ports are held, for which the number of
  holders is counted through the bijection the maps are (`HoldersCount`).
- `TunNatEvictsLeastRecentlyUsed`: `MCTunNat` keeps the relation `since`, "b was
  looked up after a last was". `LruOrder` says that the list is sorted by it; a hit
  moves its port to the end and its flow behind all others, an erasure removes one
  entry, and the rest keeps its order. The head of the list is therefore the flow
  silent longest.

**TunUdpProofs.** The flags are changed by two threads and by callbacks posted long
before they run, so the invariant has to say who may still do what.
- Sending: `OneSender` and `NoLostWakeup` (the two halves of `QueueHasItsSender`)
  count the posted `send` handlers, the sends in progress and the spawn the packet
  thread is about to make; the lemmas `CountAppend` and `CountTail` are about the
  queue of handlers. For `InOrder`, `InSequence` relates the datagrams sent, in
  progress and queued, and `UpTo` says that the one in the packet thread's hand is
  newer than all of them.
- Ports: `Owner` says that until a port is handed out again its session is the
  flow's own or none; `InHand` the same of the datagram being handled; `Detached`
  and `RacedSince` follow a flow through the window in which it is out of
  `udp_flows_` but its session is still there; `Successors` orders the flows of one
  port. `MisdeliveryNeedsPortReuse`, `FlowsHaveSessions` and `TearsDownOwnFlow` are
  conjuncts that need these.
- Closing: a flow taken out will be closed, its close is posted behind its start,
  or it is closed and no start is posted (`Closing`).

**TunTcpProofs.** `Owner` as above, for connections; `Covered` says that each
session has a handler at work for its port or belongs to a stray packet. The two
need `Shape`, which pairs the states of a socket and of its handler. For
`LiveSessionsKept`, `Successors` says that an open socket is the only open one of its
port, and of the same flow as the others unless the port was handed out again, and
`Race` that a handler about to erase beside a relayed connection had its own socket
reset: had it closed the socket itself, the io thread would not have come round to
relaying the new one.

**LifecycleProofs.** `Progress` pairs the control state of `main` with the callbacks
still registered and the ones that ran, which makes "once" inductive. `Routes` and
`Proxy` say of everything set in the system that a flag remembers it or the system
refused to take it back; `Untouched` that a failed start-up has not reached
`TunInbound::start`.

**SessionProofs.** The properties speak only of what has arrived, so the invariant
describes the whole stream: `Before` the handshake, the sniffed and the initial
payload; `Upward` what has arrived, what is about to be written and what the socket
holds, as consecutive units (as long as writes succeed); `Downward` the same for the
other direction, up to an empty message, with the response header still ahead or
not. `Control` and `Returned` say which relay may be in which state and why it
returned, which is what `NothingAbandoned` needs.

**DestinationProofs** is about where a connection goes.
- `Resolve`: `output` is the concatenation of the well-formed replies
  (`FlattenFacts`), `failed` the part of it before `next`.
- The sniffer: `SnifferStaysInside` follows from the cursor being inside, which needs
  the end of the extension to be inside too, as the cursor goes there after a list
  of names. For `SnifferEnds`, `Paid` says that each turn is paid for by bytes in
  front of the place where the next one starts; inside a list the turn of the
  extension is paid for by those in front of its end, for the list may be longer.
- Rules (`FirstNameRuleDecides`): `SuffixExact` and `KeywordExact` show that the tests on a name and the
  definitions by labels and positions agree (`DottedSuffix` character by character);
  `FirstOfNames` and `PickNames` that the scans find the first rule; and
  `DnsRuleExact` adds the normal form and the names no `Host` can hold. Nothing here is induction:
  minima and maxima come from the well-foundedness of `<` (`LeastNat`,
  `GreatestUpTo`).
- Destinations (`AuthorityMeant`): `BetweenBrackets`, `Closing` and `ReadAs` cut a text at its bracket
  and colon; `AuthorityIsMeant` and `EndpointIsMeant` go through the branches of the
  two parsers, with `DomainRefused` for the hosts that are too long; `ReadingHasPort` tells a text with a port from one without. The
  value of a port stays opaque: both sides use the same.

**DnsProofs.** The parser: `ReadNameEnds` says only what has been spent in total, so
it is not inductive; `NameInv` adds that inside a name the iterations so far are at
most `depth` passes over the packet and the bytes up to `pos`, and also at most
`depth + 1` passes, since a pointer may lead past the end. A label costs at least
the byte it moves `pos` by, a pointer trades the rest of a pass for one level
(`Levels`), and the depth is limited. That offsets are numbers (`Bytes`) needs the
bounds the code tests before each read, and, for the record after a CNAME, the
offset the parser saved. For `RecordsFit`, `Advances` says that the records collected
take eleven bytes each in front of a floor, the offset where the current record
began, and that the offset to go on at never falls below it: `read_name` may jump
back, but returns behind the first pointer, and the data of a CNAME is left at the
offset saved (`Floor`, `Onward`). The inbound: `OwnPorts` says that queries that wait at the
same time have different ports, `InFlight` that a datagram on its way was sent to
the port of its query, which still waits there or is past its wait; together they
give that what a coroutine holds and sends (`Held`, `Sent`) is its own answer or a
late one. `Reasons` carries why something was dropped.

Only model-checked:
- liveness, which is beyond the prover: `QueuedDatagramsLeave`, `PacketThreadExits`,
  `StopRequestsEndProcess`, `PeerCloseEndsSession`, `ConnectEnds`, `RequestsSettle`;
- comparisons with references that are folds or powers of two, of which the prover
  knows nothing: `FirstAddressRuleDecides`, `ChecksumAccepted`, and what the encoders and decoders agree on (`DnsDecodes`,
  `SniffsServerName`);
- `AuthorityTaken`: it depends on which characters an address of the library may
  contain (a closing bracket in a zone, a port), which differs between platforms;
- the two findings in `Config`, which are counterexamples.

## Not modelled

TLS setup (`core/tls`: calls that configure OpenSSL), logging, address accessors;
the byte layout of the VLESS request and the UUID parser, straight-line writes of
fixed fields; the field-by-field parsing of SOCKS5 and the rewriting of HTTP header
fields, which are one step that reads a request or throws; the choice of the
default interface by metric; packets the length and fragment tests refuse;
`write_udp_response`, which changes no state; the accept loops' end on an accept
error; lifetimes of objects that coroutines refer to (two inbounds with one tag).
`wintun.h` is the driver's header. JSON syntax, TLS, WebSocket and HTTP framing,
and the parsing of addresses, belong to libraries.

## Plan

The modules planned are written, and every safety property of the state machines is
proved, as are the bounds of both parsers, the rules on names and the meaning of
destinations. What is left is under *Only model-checked*, with the reasons.
