------------------------------- MODULE TunUdp -------------------------------
(***************************************************************************)
(* The UDP half of the TUN inbound (inbound/tun_inbound.cpp): the packet   *)
(* thread (packet_loop, handle_udp_packet), the io thread that runs the    *)
(* coroutines of the flows (TunUdpFlow), and what they share: udp_nat_     *)
(* (its own mutex), udp_flows_ (udp_flows_mutex_), the queue and flags of  *)
(* a flow (the flow's mutex), and the io_context's queue of handlers.      *)
(*                                                                         *)
(* A step is one critical section together with the thread-local code      *)
(* after it, so the two threads interleave wherever the code can be        *)
(* pre-empted with an effect on the other.  The single io thread runs the  *)
(* posted handlers in FIFO order; asynchronous operations (connect, send,  *)
(* receive) complete at any later time, successfully or not.               *)
(***************************************************************************)
EXTENDS NatTable

CONSTANTS
    MaxDatagrams,  \* bound: UDP packets read from the adapter
    MaxFlows       \* bound: TunUdpFlow objects created

ASSUME TunUdpAssumption ==
    /\ MaxDatagrams \in Nat
    /\ MaxFlows \in Nat
    /\ MaxSessions # 0
    /\ MaxSessions <= PortSpan - FirstPort    \* 1024 sessions, 55536 ports

VARIABLES
    udp_nat_,    \* the NAT table
    udp_flows_,  \* port -> flow (an index of heap), or NoFlow
    heap,        \* the TunUdpFlow objects created so far
    pk,          \* packet thread: control state and locals of handle_udp_packet
    io,          \* io thread: control state and locals of erase_udp_flow
    ready,       \* handlers and coroutines posted to io_, in order
    stopping_,   \* TunInbound::stop has run
    received,    \* datagrams read so far
    allocs       \* history: how often each port was handed out

vars == << udp_nat_, udp_flows_, heap, pk, io, ready, stopping_, received, allocs >>

NoFlow == 0
Flows == 1 .. Len(heap)
InMap(f) == udp_flows_[heap[f].port] = f

\* A datagram is known by its number of arrival.
PkIdle == [pc |-> "receive"]
IoIdle == [pc |-> "run"]

Init ==
    /\ udp_nat_ = EmptyTable
    /\ udp_flows_ = [p \in Ports |-> NoFlow]
    /\ heap = << >>
    /\ pk = PkIdle
    /\ io = IoIdle
    /\ ready = << >>
    /\ stopping_ = FALSE
    /\ received = 0
    /\ allocs = [p \in Ports |-> 0]

-----------------------------------------------------------------------------
(***************************************************************************)
(* The packet thread.  Packets that fail the length, protocol or fragment  *)
(* tests of handle_udp_packet leave no trace and are not modelled.         *)
(***************************************************************************)

\* Mutant of AfterLookup: the evicted port is ignored.
AfterLookup_ignore(evicted) == "lookup_back"

\* if (nat_result.evicted_nat_port) erase_udp_flow(...)
AfterLookup(evicted) == IF evicted # NoPort THEN "evict" ELSE "lookup_back"

\* packet_loop reads a datagram of flow key k; lookup_or_create.
ReceiveDatagram(k) ==
    /\ pk.pc = "receive"
    /\ ~stopping_
    /\ received < MaxDatagrams
    /\ Len(heap) < MaxFlows
    /\ LET r == lookup_or_create(udp_nat_, k)
           fresh == udp_nat_.forward[k] = NoPort
       IN  /\ udp_nat_' = r.table
           /\ pk' = [pc |-> AfterLookup(r.evicted),
                     key |-> k, msg |-> received + 1, nat_port |-> r.nat_port,
                     evicted |-> r.evicted]
           /\ allocs' = IF fresh THEN [allocs EXCEPT ![r.nat_port] = @ + 1]
                        ELSE allocs
    /\ received' = received + 1
    /\ UNCHANGED << udp_flows_, heap, io, ready, stopping_ >>

\* udp_flows_.erase(it)
FlowTaken(p) == [udp_flows_ EXCEPT ![p] = NoFlow]

\* erase_udp_flow(evicted), first critical section.  With no flow at the port
\* the NAT entry is erased under the same lock and the call returns.
EvictFlow ==
    /\ pk.pc = "evict"
    /\ IF udp_flows_[pk.evicted] = NoFlow
       THEN /\ udp_nat_' = erase(udp_nat_, pk.evicted)
            /\ pk' = [pk EXCEPT !.pc = "lookup_back"]
            /\ UNCHANGED << udp_flows_, heap >>
       ELSE /\ pk' = [pc |-> "evict_nat", key |-> pk.key, msg |-> pk.msg,
                      nat_port |-> pk.nat_port, evicted |-> pk.evicted,
                      old |-> udp_flows_[pk.evicted]]
            /\ udp_flows_' = FlowTaken(pk.evicted)
            /\ UNCHANGED << udp_nat_, heap >>
    /\ UNCHANGED << io, ready, stopping_, received, allocs >>

\* erase_udp_flow(evicted), after the lock: udp_nat_.erase, then post close.
EvictNat ==
    /\ pk.pc = "evict_nat"
    /\ udp_nat_' = erase(udp_nat_, pk.evicted)
    /\ ready' = Append(ready, << "close", pk.old >>)
    /\ pk' = [pc |-> "lookup_back", key |-> pk.key, msg |-> pk.msg,
              nat_port |-> pk.nat_port, evicted |-> pk.evicted]
    /\ UNCHANGED << udp_flows_, heap, io, stopping_, received, allocs >>

\* lookup_back(nat_port): the datagram is dropped when the entry is gone.
LookupSession ==
    /\ pk.pc = "lookup_back"
    /\ LET session == lookup_back(udp_nat_, pk.nat_port)
       IN  pk' = IF session = NoKey THEN PkIdle
                 ELSE [pc |-> "flow", key |-> pk.key, msg |-> pk.msg,
                       nat_port |-> pk.nat_port, session |-> session]
    /\ UNCHANGED << udp_nat_, udp_flows_, heap, io, ready, stopping_, received,
                    allocs >>

NewFlow(p, k) ==
    [port |-> p, session |-> k, pending |-> << >>,
     connecting |-> FALSE, connected |-> FALSE, sending |-> FALSE,
     open |-> FALSE,           \* the socket
     connect |-> "none",       \* none, waiting, done, failed
     tx |-> << >>,             \* sends in progress, one per running send_loop
     rx |-> "none",            \* none, waiting, aborted, done
     out |-> << >>,            \* history: datagrams handed to the network
     failed |-> FALSE,         \* history: a send of this flow failed
     born |-> allocs[p],       \* history: allocations of the port at creation
     raced |-> udp_nat_.reverse[p] # k \/ (io.pc = "erase_nat" /\ io.port = p),
                               \* history: created after, or just before, the
                               \* io thread erased the NAT entry
     stale |-> FALSE]          \* history: taken out of udp_flows_ while the
                               \* packet thread held a pointer to it

\* Mutant of FindFlow: a flow is created whether or not the port has one.
FindFlow_always_create ==
    /\ pk.pc = "flow"
    /\ heap' = Append(heap, NewFlow(pk.nat_port, pk.session))
    /\ udp_flows_' = [udp_flows_ EXCEPT ![pk.nat_port] = Len(heap) + 1]
    /\ pk' = [pc |-> "enqueue", key |-> pk.key, msg |-> pk.msg,
              flow |-> Len(heap) + 1]
    /\ UNCHANGED << udp_nat_, io, ready, stopping_, received, allocs >>

\* Find or create the flow of the port, under udp_flows_mutex_.
FindFlow ==
    /\ pk.pc = "flow"
    /\ LET f == udp_flows_[pk.nat_port]
           hold(g) == [pc |-> "enqueue", key |-> pk.key, msg |-> pk.msg, flow |-> g]
       IN  IF f # NoFlow
           THEN pk' = hold(f) /\ UNCHANGED << udp_flows_, heap >>
           ELSE /\ heap' = Append(heap, NewFlow(pk.nat_port, pk.session))
                /\ udp_flows_' = [udp_flows_ EXCEPT ![pk.nat_port] = Len(heap) + 1]
                /\ pk' = hold(Len(heap) + 1)
    /\ UNCHANGED << udp_nat_, io, ready, stopping_, received, allocs >>

\* Mutant of WhatToSpawn: a sender is started without looking at sending.
WhatToSpawn_always(f) ==
    IF ~f.connecting /\ ~f.connected THEN "start"
    ELSE IF f.connected THEN "send" ELSE "none"

\* should_start / should_send of enqueue
WhatToSpawn(f) ==
    IF ~f.connecting /\ ~f.connected THEN "start"
    ELSE IF f.connected /\ ~f.sending THEN "send" ELSE "none"

\* TunUdpFlow::enqueue, the critical section.
Enqueue ==
    /\ pk.pc = "enqueue"
    /\ LET f == heap[pk.flow]
           spawn == WhatToSpawn(f)
       IN  /\ heap' = [heap EXCEPT ![pk.flow] =
                  [f EXCEPT !.pending = Append(@, pk.msg),
                            !.connecting = @ \/ spawn = "start",
                            !.sending = @ \/ spawn = "send"]]
           /\ pk' = IF spawn = "none" THEN PkIdle
                    ELSE [pc |-> "spawn", flow |-> pk.flow, spawn |-> spawn]
    /\ UNCHANGED << udp_nat_, udp_flows_, io, ready, stopping_, received, allocs >>

\* TunUdpFlow::enqueue, co_spawn of start or send_loop.
Spawn ==
    /\ pk.pc = "spawn"
    /\ ready' = Append(ready, << pk.spawn, pk.flow >>)
    /\ pk' = PkIdle
    /\ UNCHANGED << udp_nat_, udp_flows_, heap, io, stopping_, received, allocs >>

-----------------------------------------------------------------------------
(***************************************************************************)
(* The io thread.  It runs one handler at a time; erase_udp_flow is called *)
(* from start, send_loop and recv_loop and takes two steps.                *)
(***************************************************************************)

IoTurn == io.pc = "run" /\ ~stopping_

\* The handler at the head of the queue is << kind, f >>.
Turn(kind, f) ==
    /\ IoTurn
    /\ ready # << >>
    /\ Head(ready) = << kind, f >>

\* A coroutine of flow f calls erase_udp_flow(nat_port); by is a history field.
CallErase(f) == [pc |-> "erase_flow", port |-> heap[f].port, by |-> f]

\* start: Connector::connect opens the socket and awaits async_connect, or
\* fails at once (open, bind to the interface).
StartFlow(f) ==
    /\ Turn("start", f)
    /\ ready' = Tail(ready)
    /\ \/ /\ heap' = [heap EXCEPT ![f].open = TRUE, ![f].connect = "waiting"]
          /\ UNCHANGED io
       \/ /\ heap' = [heap EXCEPT ![f].open = FALSE, ![f].connect = "failed"]
          /\ io' = CallErase(f)
    /\ UNCHANGED << udp_nat_, udp_flows_, pk, stopping_, received, allocs >>

\* Mutant of Connected: the sender is not started by start.
Connected_no_send(f) ==
    /\ heap' = [heap EXCEPT ![f].connect = "done", ![f].connected = TRUE,
                            ![f].connecting = FALSE]
    /\ ready' = Append(ready, << "recv", f >>)

\* The flags after a successful connect, and the coroutines it spawns.
Connected(f) ==
    /\ heap' = [heap EXCEPT ![f].connect = "done", ![f].connected = TRUE,
                            ![f].connecting = FALSE, ![f].sending = TRUE]
    /\ ready' = ready \o (IF heap[f].sending THEN << >> ELSE << << "send", f >> >>)
                      \o << << "recv", f >> >>

\* start continues when async_connect completes, also when the socket was
\* closed in the meantime.  On failure connecting stays true.
ConnectDone(f) ==
    /\ IoTurn
    /\ heap[f].connect = "waiting"
    /\ \/ Connected(f) /\ UNCHANGED io
       \/ /\ heap' = [heap EXCEPT ![f].connect = "failed"]
          /\ io' = CallErase(f)
          /\ UNCHANGED ready
    /\ UNCHANGED << udp_nat_, udp_flows_, pk, stopping_, received, allocs >>

\* Mutant of NextSend: the newest datagram is taken first.
NextSend_lifo(f) ==
    IF f.pending = << >>
    THEN [f EXCEPT !.sending = FALSE]
    ELSE [f EXCEPT !.pending = Front(@),
                   !.tx = Append(@, [msg |-> Last(f.pending), ok |-> f.open])]

\* One turn of the loop in send_loop: take the next datagram and start
\* sending it (on a closed socket that will fail), or stop.
NextSend(f) ==
    IF f.pending = << >>
    THEN [f EXCEPT !.sending = FALSE]
    ELSE [f EXCEPT !.pending = Tail(@),
                   !.tx = Append(@, [msg |-> Head(f.pending), ok |-> f.open])]

SendStart(f) ==
    /\ Turn("send", f)
    /\ ready' = Tail(ready)
    /\ heap' = [heap EXCEPT ![f] = NextSend(@)]
    /\ UNCHANGED << udp_nat_, udp_flows_, pk, io, stopping_, received, allocs >>

\* async_send completed: the datagram left, go round the loop.
SendDone(f) ==
    /\ IoTurn
    /\ \E i \in DOMAIN heap[f].tx :
          /\ heap[f].tx[i].ok
          /\ heap' = [heap EXCEPT ![f] =
                NextSend([heap[f] EXCEPT !.tx = RemoveAt(@, i),
                                         !.out = Append(@, heap[f].tx[i].msg)])]
    /\ UNCHANGED << udp_nat_, udp_flows_, pk, io, ready, stopping_, received,
                    allocs >>

\* async_send failed: the loop ends with sending still set.
SendFailed(f) ==
    /\ IoTurn
    /\ \E i \in DOMAIN heap[f].tx :
          heap' = [heap EXCEPT ![f].tx = RemoveAt(@, i), ![f].failed = TRUE]
    /\ io' = CallErase(f)
    /\ UNCHANGED << udp_nat_, udp_flows_, pk, ready, stopping_, received, allocs >>

\* recv_loop starts receiving; on a socket closed before, that fails.
RecvStart(f) ==
    /\ Turn("recv", f)
    /\ ready' = Tail(ready)
    /\ heap' = [heap EXCEPT ![f].rx = IF heap[f].open THEN "waiting" ELSE "aborted"]
    /\ UNCHANGED << udp_nat_, udp_flows_, pk, io, stopping_, received, allocs >>

\* async_receive failed.  (A datagram received is written to the adapter and
\* changes nothing here.)
RecvFailed(f) ==
    /\ IoTurn
    /\ heap[f].rx \in {"waiting", "aborted"}
    /\ heap' = [heap EXCEPT ![f].rx = "done"]
    /\ io' = CallErase(f)
    /\ UNCHANGED << udp_nat_, udp_flows_, pk, ready, stopping_, received, allocs >>

\* The posted close: pending operations are aborted.
CloseFlow(f) ==
    /\ Turn("close", f)
    /\ ready' = Tail(ready)
    /\ heap' = [heap EXCEPT
          ![f].open = FALSE,
          ![f].rx = IF @ = "waiting" THEN "aborted" ELSE @]
    /\ UNCHANGED << udp_nat_, udp_flows_, pk, io, stopping_, received, allocs >>

\* The packet thread holds a pointer to flow f.
PacketThreadHolds(f) == pk.pc \in {"enqueue", "spawn"} /\ pk.flow = f

\* erase_udp_flow on the io thread, first critical section.
IoEraseFlow ==
    /\ io.pc = "erase_flow"
    /\ LET f == udp_flows_[io.port]
       IN  IF f = NoFlow
           THEN /\ udp_nat_' = erase(udp_nat_, io.port)
                /\ io' = IoIdle
                /\ UNCHANGED << udp_flows_, heap >>
           ELSE /\ udp_flows_' = FlowTaken(io.port)
                /\ io' = [pc |-> "erase_nat", port |-> io.port, flow |-> f, by |-> io.by]
                /\ heap' = [heap EXCEPT ![f].stale = @ \/ PacketThreadHolds(f)]
                /\ UNCHANGED udp_nat_
    /\ UNCHANGED << pk, ready, stopping_, received, allocs >>

\* Mutant of IoEraseNat: close is not posted.
IoEraseNat_no_close ==
    /\ io.pc = "erase_nat"
    /\ udp_nat_' = erase(udp_nat_, io.port)
    /\ io' = IoIdle
    /\ UNCHANGED << udp_flows_, heap, pk, ready, stopping_, received, allocs >>

\* erase_udp_flow on the io thread, after the lock.
IoEraseNat ==
    /\ io.pc = "erase_nat"
    /\ udp_nat_' = erase(udp_nat_, io.port)
    /\ ready' = Append(ready, << "close", io.flow >>)
    /\ io' = IoIdle
    /\ UNCHANGED << udp_flows_, heap, pk, stopping_, received, allocs >>

\* TunInbound::stop, called on the io thread by Shutdown, which stops the
\* io_context right after: the posted closes never run.
Stop ==
    /\ IoTurn
    /\ stopping_' = TRUE
    /\ udp_flows_' = [p \in Ports |-> NoFlow]
    /\ ready' = ready \o SetToSeq({<< "close", udp_flows_[p] >> :
                                     p \in {q \in Ports : udp_flows_[q] # NoFlow}})
    /\ UNCHANGED << udp_nat_, heap, pk, io, received, allocs >>

\* Mutant of PacketExit: the wait for packets has no timeout, so stopping_ is
\* only seen after one more packet.
PacketExit_no_timeout ==
    /\ pk.pc = "receive"
    /\ stopping_
    /\ received < MaxDatagrams
    /\ pk' = [pc |-> "exited"]
    /\ UNCHANGED << udp_nat_, udp_flows_, heap, io, ready, stopping_, received,
                    allocs >>

\* packet_loop leaves its loop once it sees stopping_; it waits for packets
\* at most 100 ms at a time.
PacketExit ==
    /\ pk.pc = "receive"
    /\ stopping_
    /\ pk' = [pc |-> "exited"]
    /\ UNCHANGED << udp_nat_, udp_flows_, heap, io, ready, stopping_, received,
                    allocs >>

-----------------------------------------------------------------------------
\* What the packet thread does once it holds a packet or has to stop.
PacketWork ==
    EvictFlow \/ EvictNat \/ LookupSession \/ FindFlow \/ Enqueue \/ Spawn \/ PacketExit

\* What the io thread does for flow f.
FlowWork(f) ==
    /\ f \in Flows
    /\ \/ StartFlow(f) \/ ConnectDone(f)
       \/ SendStart(f) \/ SendDone(f) \/ SendFailed(f)
       \/ RecvStart(f) \/ CloseFlow(f)

EraseWork == IoEraseFlow \/ IoEraseNat

Next ==
    \/ \E k \in FlowKeys : ReceiveDatagram(k)
    \/ PacketWork
    \/ \E f \in Flows : FlowWork(f) \/ RecvFailed(f)
    \/ EraseWork
    \/ Stop

\* Both threads run while they have something to do, and connects and sends
\* complete.  Nothing makes a datagram or a receive error arrive.
Fairness ==
    /\ WF_vars(PacketWork)
    /\ WF_vars(EraseWork)
    /\ \A f \in 1 .. MaxFlows : WF_vars(FlowWork(f))

Spec == Init /\ [][Next]_vars /\ Fairness

-----------------------------------------------------------------------------
(***************************************************************************)
(* Properties.                                                             *)
(***************************************************************************)

\* The shared state has its types, and ports name existing flows.
TypeOK ==
    /\ udp_nat_ \in Tables
    /\ udp_flows_ \in [Ports -> 0 .. Len(heap)]
    /\ \A p \in Ports : udp_flows_[p] # NoFlow => heap[udp_flows_[p]].port = p
    /\ \A i \in DOMAIN ready :
          /\ ready[i][1] \in {"start", "send", "recv", "close"}
          /\ ready[i][2] \in Flows
    /\ pk.pc \in {"receive", "evict", "evict_nat", "lookup_back", "flow",
                  "enqueue", "spawn", "exited"}
    /\ io.pc \in {"run", "erase_flow", "erase_nat"}

\* The send_loop coroutines of f: running, posted, or about to be posted.
Senders(f) ==
    Len(heap[f].tx)
    + Cardinality({i \in DOMAIN ready : ready[i] = << "send", f >>})
    + (IF pk.pc = "spawn" /\ pk.flow = f /\ pk.spawn = "send" THEN 1 ELSE 0)

\* The flag `sending` means exactly one send_loop: two would interleave
\* datagrams and sends on one socket, none would strand them.  After a failed
\* send the flag stays set with no loop, so no later enqueue revives the flow.
OneSender ==
    \A f \in Flows :
       Senders(f) = IF heap[f].sending /\ ~heap[f].failed THEN 1 ELSE 0

\* No lost wake-up: a queued datagram has somebody on the way to send it.
NoLostWakeup ==
    \A f \in Flows : heap[f].pending # << >> =>
       IF heap[f].connected THEN heap[f].sending ELSE heap[f].connecting

\* Whichever way enqueue, start and send_loop interleave, each flow has one
\* sender at most and no queued datagram is left without one.
QueueHasItsSender == OneSender /\ NoLostWakeup

\* A flow hands its datagrams to the network in order of arrival, none twice.
InOrder ==
    \A f \in Flows : LET q == heap[f].out \o heap[f].pending
                     IN  \A i, j \in DOMAIN q : i < j => q[i] < q[j]

\* A datagram is queued on a flow to another destination only when the port
\* was handed out again after that flow was created: as long as next_port_
\* has not come round to a flow's port, no interleaving misdelivers.
MisdeliveryNeedsPortReuse ==
    pk.pc = "enqueue" =>
       \/ heap[pk.flow].session = pk.key
       \/ allocs[heap[pk.flow].port] > heap[pk.flow].born

\* Every flow in udp_flows_ has its NAT session, except while the packet
\* thread is between evicting the session and erasing the flow, and for flows
\* created in the windows of erase_udp_flow and of handle_udp_packet in which
\* the io thread erases the NAT entry of a port without a flow.
FlowsHaveSessions ==
    \A f \in Flows : InMap(f) =>
       \/ udp_nat_.reverse[heap[f].port] = heap[f].session
       \/ pk.pc = "evict" /\ pk.evicted = heap[f].port
       \/ heap[f].raced

\* A coroutine tears down a flow other than its own only if that flow is one
\* of the raced ones or the port was handed out again in between.
TearsDownOwnFlow ==
    io.pc = "erase_nat" =>
       \/ io.flow = io.by
       \/ heap[io.flow].raced
       \/ heap[io.flow].born > heap[io.by].born

\* Once both threads are idle, the socket of a flow that was taken out of
\* udp_flows_ is closed, unless the packet thread enqueued on it through a
\* pointer it got before the flow was taken out (start then runs after close
\* and opens the socket of a flow nobody will erase again).
DroppedFlowsAreClosed ==
    pk.pc = "receive" /\ io.pc = "run" /\ ready = << >> /\ ~stopping_ =>
       \A f \in Flows : ~InMap(f) /\ ~heap[f].stale => ~heap[f].open

\* Datagram m waits on flow f, which has not failed.
Waiting(f, m) ==
    /\ f \in Flows
    /\ m \in ToSet(heap[f].pending)
    /\ ~heap[f].failed
    /\ heap[f].connect # "failed"
    /\ ~stopping_

\* A queued datagram is eventually taken by a sender, or its flow fails to
\* connect or to send, or the inbound is stopped.
QueuedDatagramsLeave ==
    \A f \in 1 .. MaxFlows, m \in 1 .. MaxDatagrams :
       Waiting(f, m) ~> ~Waiting(f, m)

\* The packet thread leaves its loop after stop, so the join in stop returns.
PacketThreadExits == stopping_ ~> pk.pc = "exited"
=============================================================================
