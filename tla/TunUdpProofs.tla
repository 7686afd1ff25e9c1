---------------------------- MODULE TunUdpProofs ----------------------------
(***************************************************************************)
(* Proofs about TunUdp: for any flow keys, port range, session limit and   *)
(* number of datagrams and flows, whichever way the packet thread and the  *)
(* io thread interleave.                                                   *)
(***************************************************************************)
EXTENDS TunUdp, NatTableProofs

Flow ==
    [port : Ports, session : FlowKeys, pending : Seq(Nat),
     connecting : BOOLEAN, connected : BOOLEAN, sending : BOOLEAN, open : BOOLEAN,
     connect : {"none", "waiting", "done", "failed"},
     tx : Seq([msg : Nat, ok : BOOLEAN]),
     rx : {"none", "waiting", "aborted", "done"},
     out : Seq(Nat), failed : BOOLEAN, born : Nat, raced : BOOLEAN, stale : BOOLEAN]

Handlers == {"start", "send", "recv", "close"} \X Nat

\* The packet thread has a datagram it has not queued yet, and knows its port.
Carries == pk.pc \in {"evict", "evict_nat", "lookup_back", "flow", "enqueue"}
HasPort == pk.pc \in {"evict", "evict_nat", "lookup_back", "flow"}

Typed ==
    /\ WellFormed(udp_nat_) /\ WithinLimit(udp_nat_)
    /\ heap \in Seq(Flow)
    /\ udp_flows_ \in [Ports -> Nat]
    /\ allocs \in [Ports -> Nat]
    /\ received \in Nat
    /\ ready \in Seq(Handlers)
    /\ \A i \in DOMAIN ready : ready[i][2] \in Flows
    /\ \A p \in Ports : udp_flows_[p] # NoFlow =>
          udp_flows_[p] \in Flows /\ heap[udp_flows_[p]].port = p

PkTyped ==
    /\ pk.pc \in {"receive", "evict", "evict_nat", "lookup_back", "flow", "enqueue",
                  "spawn", "exited"}
    /\ Carries => pk.key \in FlowKeys /\ pk.msg = received
    /\ HasPort => pk.nat_port \in Ports
    /\ pk.pc = "evict" => pk = [pc |-> "evict", key |-> pk.key, msg |-> pk.msg,
                                nat_port |-> pk.nat_port, evicted |-> pk.evicted]
    /\ pk.pc \in {"evict", "evict_nat"} => pk.evicted \in Ports
    /\ pk.pc = "evict_nat" => /\ pk.old \in Flows
                              /\ heap[pk.old].port = pk.evicted
                              /\ udp_flows_[pk.evicted] = NoFlow
    /\ pk.pc = "flow" => pk.session = pk.key
    /\ pk.pc \in {"enqueue", "spawn"} => pk.flow \in Flows
    /\ pk.pc = "spawn" => pk.spawn \in {"start", "send"}

IoTyped ==
    /\ io.pc \in {"run", "erase_flow", "erase_nat"}
    /\ io.pc # "run" => io.by \in Flows /\ io.port = heap[io.by].port
    /\ io.pc = "erase_nat" => io.flow \in Flows /\ heap[io.flow].port = io.port
    /\ stopping_ => io.pc = "run"

-----------------------------------------------------------------------------
(***************************************************************************)
(* Ports and sessions.                                                     *)
(***************************************************************************)

\* The port of flow f was handed out again after f was created.
Renewed(f) == allocs[heap[f].port] > heap[f].born

\* Until then, the NAT session of the port is the flow's own or none.
Owner ==
    \A f \in Flows :
       /\ heap[f].born <= allocs[heap[f].port]
       /\ Renewed(f) \/ udp_nat_.reverse[heap[f].port] \in {NoKey, heap[f].session}

\* The same of the datagram in hand, and of the flows at its port.
InHand ==
    HasPort =>
       /\ udp_nat_.reverse[pk.nat_port] \in {NoKey, pk.key}
       /\ \A f \in Flows : heap[f].port = pk.nat_port =>
             heap[f].session = pk.key \/ Renewed(f)

\* While the io thread is inside erase_udp_flow, a flow at the port is one
\* created since.
RacedSince ==
    io.pc = "erase_nat" /\ udp_flows_[io.port] # NoFlow => heap[udp_flows_[io.port]].raced

\* A flow that was taken out of udp_flows_ has lost its session, is about to,
\* or its port was handed out again.
Detached ==
    ~stopping_ => \A f \in Flows : ~InMap(f) =>
       \/ udp_nat_.reverse[heap[f].port] = NoKey
       \/ Renewed(f)
       \/ io.pc = "erase_nat" /\ io.port = heap[f].port
       \/ pk.pc = "evict_nat" /\ pk.evicted = heap[f].port

\* Of the flows of one port, the later ones were raced or have a newer
\* allocation, and udp_flows_ holds the last.
Successors ==
    ~stopping_ => \A f, g \in Flows : heap[f].port = heap[g].port =>
       /\ g < f => heap[f].raced \/ heap[f].born > heap[g].born
       /\ InMap(f) => g <= f

PortInv ==
    /\ Owner /\ InHand /\ RacedSince /\ Detached /\ Successors
    /\ MisdeliveryNeedsPortReuse /\ FlowsHaveSessions /\ TearsDownOwnFlow

-----------------------------------------------------------------------------
(***************************************************************************)
(* Closing.                                                                *)
(***************************************************************************)

\* erase_udp_flow is about to post the close of flow f.
CloseComing(f) ==
    \/ io.pc = "erase_nat" /\ io.flow = f
    \/ pk.pc = "evict_nat" /\ pk.old = f

\* The close of f is posted, behind the start of f if that is posted too.
CloseLast(f, q) ==
    \E j \in DOMAIN q :
       /\ q[j] = << "close", f >>
       /\ \A i \in DOMAIN q : q[i] = << "start", f >> => i < j

NoStart(f, q) == \A i \in DOMAIN q : q[i] # << "start", f >>

\* The socket is closed for good.
Closed(f) == ~heap[f].open /\ NoStart(f, ready)

Closing ==
    ~stopping_ => \A f \in Flows : ~InMap(f) /\ ~heap[f].stale =>
       /\ ~PacketThreadHolds(f)
       /\ CloseComing(f) \/ CloseLast(f, ready) \/ Closed(f)

-----------------------------------------------------------------------------
(***************************************************************************)
(* Sending.                                                                *)
(***************************************************************************)

\* The datagrams of a flow in the order they came: sent, being sent, queued.
InSequence(h) ==
    /\ \A i, j \in DOMAIN h.out : i < j => h.out[i] < h.out[j]
    /\ \A i, j \in DOMAIN h.pending : i < j => h.pending[i] < h.pending[j]
    /\ \A i \in DOMAIN h.out, j \in DOMAIN h.pending : h.out[i] < h.pending[j]
    /\ \A i \in DOMAIN h.tx :
          /\ \A j \in DOMAIN h.out : h.out[j] < h.tx[i].msg
          /\ \A j \in DOMAIN h.pending : h.tx[i].msg < h.pending[j]

\* None of them is newer than n.
UpTo(h, n) ==
    /\ \A i \in DOMAIN h.out : h.out[i] <= n
    /\ \A i \in DOMAIN h.pending : h.pending[i] <= n
    /\ \A i \in DOMAIN h.tx : h.tx[i].msg <= n

\* The last datagram that can be on a queue.
LastQueued == IF Carries THEN received - 1 ELSE received

SendInv ==
    /\ OneSender /\ NoLostWakeup
    /\ \A f \in Flows :
          /\ heap[f].failed => heap[f].sending
          /\ InSequence(heap[f])
          /\ UpTo(heap[f], LastQueued)

IndInv == Typed /\ PkTyped /\ IoTyped /\ PortInv /\ Closing /\ SendInv

-----------------------------------------------------------------------------
(***************************************************************************)
(* The queue of handlers.                                                  *)
(***************************************************************************)

Count(q, x) == Cardinality({i \in DOMAIN q : q[i] = x})

\* A queue with a handler appended.
LEMMA AppendFacts ==
  ASSUME NEW S, NEW q \in Seq(S), NEW x \in S
  PROVE  /\ Append(q, x) \in Seq(S)
         /\ Len(q) \in Nat /\ DOMAIN q = 1 .. Len(q)
         /\ DOMAIN Append(q, x) = 1 .. (Len(q) + 1)
         /\ \A i \in 1 .. Len(q) : Append(q, x)[i] = q[i]
         /\ Append(q, x)[Len(q) + 1] = x
         /\ Len(q) + 1 \in DOMAIN Append(q, x) /\ Len(q) + 1 \notin DOMAIN q
         /\ DOMAIN Append(q, x) = DOMAIN q \cup {Len(q) + 1}
OBVIOUS

\* Posting a list of one handler is appending it.
LEMMA ConcatOne ==
  ASSUME NEW S, NEW q \in Seq(S), NEW x \in S
  PROVE  q \o << x >> = Append(q, x) /\ Append(q, x) \in Seq(S)
OBVIOUS

\* A queue whose first handler was taken.
LEMMA TailFacts ==
  ASSUME NEW S, NEW q \in Seq(S), q # << >>
  PROVE  /\ Tail(q) \in Seq(S)
         /\ Head(q) = q[1] /\ Head(q) \in S /\ 1 \in DOMAIN q
         /\ \A i \in DOMAIN Tail(q) : i + 1 \in DOMAIN q /\ Tail(q)[i] = q[i + 1]
         /\ \A i \in DOMAIN q : i # 1 => i - 1 \in DOMAIN Tail(q) /\ Tail(q)[i - 1] = q[i]
         /\ DOMAIN q \subseteq Nat /\ DOMAIN Tail(q) \subseteq Nat
<1>1. /\ Tail(q) \in Seq(S)
      /\ Head(q) = q[1] /\ Head(q) \in S /\ 1 \in DOMAIN q
      /\ Len(q) \in Nat /\ Len(Tail(q)) = Len(q) - 1
      /\ DOMAIN q = 1 .. Len(q) /\ DOMAIN Tail(q) = 1 .. (Len(q) - 1)
  OBVIOUS
<1>2. \A i \in DOMAIN Tail(q) : i + 1 \in DOMAIN q /\ Tail(q)[i] = q[i + 1]
  OBVIOUS
<1>3. \A i \in DOMAIN q : i # 1 => i - 1 \in DOMAIN Tail(q) /\ Tail(q)[i - 1] = q[i]
  <2> SUFFICES ASSUME NEW i \in DOMAIN q, i # 1
               PROVE  i - 1 \in DOMAIN Tail(q) /\ Tail(q)[i - 1] = q[i]
    OBVIOUS
  <2>1. i - 1 \in DOMAIN Tail(q) /\ (i - 1) + 1 = i
    BY <1>1
  <2> QED
    BY <1>2, <2>1
<1> QED
  BY <1>1, <1>2, <1>3

\* How often a handler is posted is a number.
LEMMA CountType ==
  ASSUME NEW S, NEW q \in Seq(S), NEW x
  PROVE  /\ IsFiniteSet({i \in DOMAIN q : q[i] = x})
         /\ Count(q, x) \in Nat
         /\ \A i \in DOMAIN q : q[i] = x => Count(q, x) >= 1
         /\ (\A i \in DOMAIN q : q[i] # x) => Count(q, x) = 0
<1> DEFINE I == {i \in DOMAIN q : q[i] = x}
<1>1. IsFiniteSet(1 .. Len(q)) /\ I \subseteq 1 .. Len(q)
  BY FS_Interval
<1>2. IsFiniteSet(I)
  BY <1>1, FS_Subset
<1>3. Cardinality(I) \in Nat
  BY <1>2, FS_CardinalityType
<1>4. Cardinality(I) = 0 <=> I = {}
  BY <1>2, FS_EmptySet
<1>5. Count(q, x) = Cardinality(I)
  BY DEF Count
<1>6. /\ \A i \in DOMAIN q : q[i] = x => I # {}
      /\ (\A i \in DOMAIN q : q[i] # x) => I = {}
  OBVIOUS
<1>7. Count(q, x) \in Nat /\ (Count(q, x) = 0 <=> I = {})
  BY <1>3, <1>4, <1>5
<1> HIDE DEF I
<1>8. \A i \in DOMAIN q : q[i] = x => Count(q, x) >= 1
  BY <1>6, <1>7
<1>9. (\A i \in DOMAIN q : q[i] # x) => Count(q, x) = 0
  BY <1>6, <1>7
<1> QED
  BY <1>2, <1>7, <1>8, <1>9 DEF I

\* A posted handler counts one more.
LEMMA CountAppend ==
  ASSUME NEW S, NEW q \in Seq(S), NEW y \in S, NEW x
  PROVE  Count(Append(q, y), x) = Count(q, x) + (IF y = x THEN 1 ELSE 0)
<1> DEFINE n == Len(q) + 1
           I == {i \in DOMAIN q : q[i] = x}
           J == {i \in DOMAIN Append(q, y) : Append(q, y)[i] = x}
<1>1. /\ DOMAIN Append(q, y) = DOMAIN q \cup {n} /\ n \notin DOMAIN q
      /\ \A i \in DOMAIN q : Append(q, y)[i] = q[i]
      /\ Append(q, y)[n] = y
  BY AppendFacts
<1>2. J = IF y = x THEN I \cup {n} ELSE I
  BY <1>1
<1>3. IsFiniteSet(I) /\ n \notin I /\ Cardinality(I) \in Nat
  BY <1>1, CountType DEF Count
<1>4. Cardinality(I \cup {n}) = Cardinality(I) + 1
  BY <1>3, FS_AddElement
<1>5. Count(q, x) = Cardinality(I) /\ Count(Append(q, y), x) = Cardinality(J)
  BY DEF Count
<1> HIDE DEF I, J
<1> QED
  BY <1>2, <1>3, <1>4, <1>5

\* The handler taken from the queue counts one less.
LEMMA CountTail ==
  ASSUME NEW S, NEW q \in Seq(S), q # << >>, NEW x
  PROVE  Count(q, x) = Count(Tail(q), x) + (IF Head(q) = x THEN 1 ELSE 0)
<1> DEFINE t == Tail(q)
           I == {i \in DOMAIN q : q[i] = x}
           J == {i \in DOMAIN t : t[i] = x}
           g == [i \in J |-> i + 1]
<1>0. /\ t \in Seq(S)
      /\ Head(q) = q[1] /\ 1 \in DOMAIN q
      /\ \A i \in DOMAIN t : i + 1 \in DOMAIN q /\ t[i] = q[i + 1]
      /\ \A i \in DOMAIN q : i # 1 => i - 1 \in DOMAIN t /\ t[i - 1] = q[i]
      /\ DOMAIN q \subseteq Nat /\ DOMAIN t \subseteq Nat
      /\ 0 \notin DOMAIN t
  BY TailFacts
<1> HIDE DEF t
<1>1. IsFiniteSet(I) /\ IsFiniteSet(J)
  <2>1. IsFiniteSet(I)
    BY CountType
  <2>2. IsFiniteSet(J)
    <3>1. IsFiniteSet(1 .. Len(t)) /\ DOMAIN t = 1 .. Len(t)
      BY <1>0, FS_Interval
    <3>2. J \subseteq 1 .. Len(t)
      BY <3>1
    <3> QED
      BY <3>1, <3>2, FS_Subset
  <2> QED
    BY <2>1, <2>2
<1>2. g \in Bijection(J, I \ {1})
  <2>1. g \in [J -> I \ {1}]
    BY <1>0
  <2>2. \A a, b \in J : g[a] = g[b] => a = b
    BY <1>0
  <2>3. \A b \in I \ {1} : \E a \in J : g[a] = b
    <3> SUFFICES ASSUME NEW b \in I \ {1} PROVE \E a \in J : g[a] = b
      OBVIOUS
    <3>1. b - 1 \in J /\ g[b - 1] = b
      BY <1>0
    <3> QED
      BY <3>1
  <2> QED
    BY <2>1, <2>2, <2>3 DEF Bijection, Injection, Surjection, IsInjective
<1>3. Cardinality(I \ {1}) = Cardinality(J)
  BY <1>1, <1>2, FS_Bijection DEF ExistsBijection
<1>4. Cardinality(I \ {1}) = IF 1 \in I THEN Cardinality(I) - 1 ELSE Cardinality(I)
  BY <1>1, FS_RemoveElement
<1>5. Cardinality(I) \in Nat /\ Cardinality(J) \in Nat
  BY <1>1, FS_CardinalityType
<1>6. 1 \in I <=> Head(q) = x
  BY <1>0
<1>7. Count(q, x) = Cardinality(I) /\ Count(Tail(q), x) = Cardinality(J)
  BY DEF Count, t
<1> HIDE DEF I, J
<1> QED
  BY <1>3, <1>4, <1>5, <1>6, <1>7

\* Handlers of another kind do not count.
LEMMA CountConcat ==
  ASSUME NEW S, NEW q \in Seq(S), NEW t \in Seq(S), NEW x,
         \A i \in DOMAIN t : t[i] # x
  PROVE  Count(q \o t, x) = Count(q, x)
<1>1. /\ Len(q) \in Nat /\ Len(t) \in Nat
      /\ DOMAIN q = 1 .. Len(q) /\ DOMAIN t = 1 .. Len(t)
      /\ DOMAIN (q \o t) = 1 .. (Len(q) + Len(t))
      /\ \A i \in 1 .. Len(q) : (q \o t)[i] = q[i]
      /\ \A i \in 1 .. Len(t) : (q \o t)[Len(q) + i] = t[i]
  BY ConcatProperties
<1>2. ASSUME NEW i \in DOMAIN (q \o t), i \notin DOMAIN q PROVE (q \o t)[i] # x
  <2>1. i - Len(q) \in 1 .. Len(t) /\ Len(q) + (i - Len(q)) = i
    BY <1>1, <1>2
  <2> QED
    BY <1>1, <2>1
<1>3. {i \in DOMAIN (q \o t) : (q \o t)[i] = x} = {i \in DOMAIN q : q[i] = x}
  BY <1>1, <1>2
<1> QED
  BY <1>3 DEF Count

\* Where the close of a flow stands in the queue.
LEMMA CloseAppend ==
  ASSUME NEW q \in Seq(Handlers), NEW x \in Handlers, NEW f
  PROVE  /\ x # << "start", f >> /\ CloseLast(f, q) => CloseLast(f, Append(q, x))
         /\ x # << "start", f >> /\ NoStart(f, q) => NoStart(f, Append(q, x))
         /\ x = << "close", f >> => CloseLast(f, Append(q, x))
<1> DEFINE a == Append(q, x)
           n == Len(q) + 1
<1>1. /\ Len(q) \in Nat /\ DOMAIN q = 1 .. Len(q)
      /\ \A i \in DOMAIN q : a[i] = q[i]
      /\ a[n] = x
      /\ DOMAIN a = DOMAIN q \cup {n}
  BY AppendFacts
<1> HIDE DEF a
<1>2. << "close", f >> # << "start", f >>
  OBVIOUS
<1>3. ASSUME x # << "start", f >>, CloseLast(f, q) PROVE CloseLast(f, a)
  <2>1. PICK j \in DOMAIN q : /\ q[j] = << "close", f >>
                              /\ \A i \in DOMAIN q : q[i] = << "start", f >> => i < j
    BY <1>3 DEF CloseLast
  <2>2. j \in DOMAIN a /\ a[j] = << "close", f >>
    BY <1>1, <2>1
  <2>3. \A i \in DOMAIN a : a[i] = << "start", f >> => i < j
    BY <1>1, <1>3, <2>1
  <2> QED
    BY <2>2, <2>3 DEF CloseLast
<1>4. x # << "start", f >> /\ NoStart(f, q) => NoStart(f, a)
  BY <1>1 DEF NoStart
<1>5. ASSUME x = << "close", f >> PROVE CloseLast(f, a)
  <2>1. n \in DOMAIN a /\ a[n] = << "close", f >>
    BY <1>1, <1>5
  <2>2. \A i \in DOMAIN a : a[i] = << "start", f >> => i < n
    BY <1>1, <1>2, <1>5
  <2> QED
    BY <2>1, <2>2 DEF CloseLast
<1> QED
  BY <1>3, <1>4, <1>5 DEF a

\* Taking a handler leaves a posted close last, unless it is the close.
LEMMA CloseTail ==
  ASSUME NEW q \in Seq(Handlers), q # << >>, NEW f
  PROVE  /\ CloseLast(f, q) =>
               \/ CloseLast(f, Tail(q))
               \/ Head(q) = << "close", f >> /\ NoStart(f, Tail(q))
         /\ NoStart(f, q) => NoStart(f, Tail(q)) /\ Head(q) # << "start", f >>
<1>1. /\ Head(q) = q[1] /\ 1 \in DOMAIN q
      /\ \A i \in DOMAIN Tail(q) : i + 1 \in DOMAIN q /\ Tail(q)[i] = q[i + 1]
      /\ \A i \in DOMAIN q : i # 1 => i - 1 \in DOMAIN Tail(q) /\ Tail(q)[i - 1] = q[i]
      /\ DOMAIN q \subseteq Nat /\ DOMAIN Tail(q) \subseteq Nat
      /\ 0 \notin DOMAIN Tail(q)
  BY TailFacts
<1>2. NoStart(f, q) => NoStart(f, Tail(q)) /\ Head(q) # << "start", f >>
  BY <1>1 DEF NoStart
<1>3. ASSUME CloseLast(f, q)
      PROVE  \/ CloseLast(f, Tail(q))
             \/ Head(q) = << "close", f >> /\ NoStart(f, Tail(q))
  <2>1. PICK j \in DOMAIN q : /\ q[j] = << "close", f >>
                              /\ \A i \in DOMAIN q : q[i] = << "start", f >> => i < j
    BY <1>3 DEF CloseLast
  <2>2. CASE j = 1
    <3>1. ASSUME NEW i \in DOMAIN Tail(q), Tail(q)[i] = << "start", f >> PROVE FALSE
      <4>1. i + 1 \in DOMAIN q /\ q[i + 1] = << "start", f >> /\ i \in Nat /\ i # 0
        BY <1>1, <3>1
      <4>2. i + 1 < 1
        BY <2>1, <2>2, <4>1
      <4> QED
        BY <4>1, <4>2
    <3> QED
      BY <1>1, <2>1, <2>2, <3>1 DEF NoStart
  <2>3. CASE j # 1
    <3>1. j - 1 \in DOMAIN Tail(q) /\ Tail(q)[j - 1] = << "close", f >>
      BY <1>1, <2>1, <2>3
    <3>2. ASSUME NEW i \in DOMAIN Tail(q), Tail(q)[i] = << "start", f >> PROVE i < j - 1
      <4>1. i + 1 \in DOMAIN q /\ q[i + 1] = << "start", f >> /\ i \in Nat /\ j \in Nat
        BY <1>1, <2>1, <3>2
      <4>2. i + 1 < j
        BY <2>1, <4>1
      <4> QED
        BY <4>1, <4>2
    <3> QED
      BY <3>1, <3>2 DEF CloseLast
  <2> QED
    BY <2>2, <2>3
<1> QED
  BY <1>2, <1>3

-----------------------------------------------------------------------------
(***************************************************************************)
(* Init.                                                                   *)
(***************************************************************************)

\* Before the first datagram.
LEMMA InitInv == Init => IndInv
<1> SUFFICES ASSUME Init PROVE IndInv
  OBVIOUS
<1>1. Typed
  <2>1. WellFormed(udp_nat_) /\ WithinLimit(udp_nat_)
    BY EmptyWellFormed, FS_EmptySet, NatTableAssumption DEF Init, WithinLimit, Size
  <2> QED
    BY <2>1 DEF Init, Typed, NoFlow
<1>2. Flows = {}
  BY DEF Init, Flows
<1>3. pk.pc = "receive" /\ io.pc = "run" /\ ~stopping_
  BY DEF Init, PkIdle, IoIdle
<1>4. PkTyped /\ IoTyped
  BY <1>3 DEF PkTyped, IoTyped, Carries, HasPort
<1>5. PortInv
  BY <1>2, <1>3 DEF PortInv, Owner, InHand, HasPort, RacedSince, Detached, Successors,
        MisdeliveryNeedsPortReuse, FlowsHaveSessions, TearsDownOwnFlow
<1>6. Closing /\ SendInv
  BY <1>2 DEF Closing, SendInv, OneSender, NoLostWakeup
<1> QED
  BY <1>1, <1>4, <1>5, <1>6 DEF IndInv

-----------------------------------------------------------------------------
(***************************************************************************)
(* One flow changes.                                                       *)
(***************************************************************************)

\* The members of a flow have their types.
LEMMA FlowFacts ==
  ASSUME Typed, NEW f \in Flows
  PROVE  /\ heap[f] \in Flow
         /\ heap[f].port \in Ports /\ heap[f].port \in UInt16
         /\ heap[f].session \in FlowKeys /\ heap[f].session # NoKey
         /\ heap[f].born \in Nat /\ allocs[heap[f].port] \in Nat
         /\ f \in Nat /\ f # NoFlow
<1>1. heap[f] \in Flow /\ f \in Nat /\ f # 0
  BY DEF Typed, Flows
<1>2. heap[f].port \in Ports /\ heap[f].session \in FlowKeys /\ heap[f].born \in Nat
  BY <1>1 DEF Flow
<1> QED
  BY <1>1, <1>2, PortFacts, NatTableAssumption DEF Typed, NoFlow

\* What replacing one flow does to all of them.
LEMMA HeapUpdate ==
  ASSUME heap \in Seq(Flow), NEW f \in Flows, NEW h \in Flow,
         heap' = [heap EXCEPT ![f] = h]
  PROVE  /\ heap' \in Seq(Flow) /\ Flows' = Flows /\ Len(heap') = Len(heap)
         /\ \A g \in Flows : heap'[g] = IF g = f THEN h ELSE heap[g]
BY DEF Flows

\* What a flow is created with and keeps.
Same(h, k) ==
    h.port = k.port /\ h.session = k.session /\ h.born = k.born /\ h.raced = k.raced

\* Steps that leave the ports, the sessions and udp_flows_ alone.
LEMMA PortsKept ==
  ASSUME IndInv, Flows' = Flows, \A g \in Flows : Same(heap'[g], heap[g]),
         UNCHANGED << udp_nat_, udp_flows_, allocs, stopping_ >>,
         \/ pk' = pk
         \/ pk.pc \notin {"evict", "evict_nat"} /\ pk'.pc \in {"receive", "spawn", "exited"},
         io' = io \/ (io.pc = "run" /\ io'.pc = "erase_flow")
  PROVE  PortInv'
<1>1. /\ Typed /\ PkTyped /\ IoTyped /\ Owner /\ InHand /\ RacedSince /\ Detached /\ Successors
      /\ MisdeliveryNeedsPortReuse /\ FlowsHaveSessions /\ TearsDownOwnFlow
  BY DEF IndInv, PortInv
<1>2. /\ \A g \in Flows : InMap(g)' <=> InMap(g)
      /\ \A g \in Flows : Renewed(g)' <=> Renewed(g)
  BY DEF InMap, Renewed, Same
<1>3. Owner'
  BY <1>1, <1>2 DEF Owner, Same
<1>4. InHand'
  BY <1>1, <1>2 DEF InHand, HasPort, Same
<1>5. RacedSince'
  <2> SUFFICES ASSUME io'.pc = "erase_nat", udp_flows_'[io'.port] # NoFlow
               PROVE  heap'[udp_flows_'[io'.port]].raced
    BY DEF RacedSince
  <2>1. io' = io /\ io.port \in Ports
    BY <1>1, FlowFacts DEF IoTyped
  <2>2. udp_flows_[io.port] \in Flows
    BY <1>1, <2>1 DEF Typed
  <2> QED
    BY <1>1, <2>1, <2>2 DEF RacedSince, Same
<1>6. Detached'
  BY <1>1, <1>2 DEF Detached, Same
<1>7. Successors'
  BY <1>1, <1>2 DEF Successors, Same
<1>8. MisdeliveryNeedsPortReuse'
  BY <1>1 DEF MisdeliveryNeedsPortReuse, Same, PkTyped
<1>9. FlowsHaveSessions'
  BY <1>1, <1>2 DEF FlowsHaveSessions, Same
<1>10. TearsDownOwnFlow'
  BY <1>1 DEF TearsDownOwnFlow, Same, IoTyped
<1> QED
  BY <1>3, <1>4, <1>5, <1>6, <1>7, <1>8, <1>9, <1>10 DEF PortInv

\* The state of one flow changes on the io thread: its handlers in the queue
\* may be taken or added, and it may call erase_udp_flow.
LEMMA FlowStepInv ==
  ASSUME IndInv, NEW f \in Flows, NEW h \in Flow,
         heap' = [heap EXCEPT ![f] = h], Same(h, heap[f]), h.stale = heap[f].stale,
         UNCHANGED << udp_nat_, udp_flows_, pk, stopping_, received, allocs >>,
         io.pc = "run", ~stopping_, io' = io \/ io' = CallErase(f),
         ready' \in Seq(Handlers), \A i \in DOMAIN ready' : ready'[i][2] \in Flows,
         \A g \in Flows : CloseLast(g, ready) =>
            CloseLast(g, ready') \/ (g = f /\ ~h.open /\ NoStart(g, ready')),
         \A g \in Flows : NoStart(g, ready) /\ ~heap[g].open =>
            NoStart(g, ready') /\ (g = f => ~h.open),
         \A g \in Flows \ {f} : Count(ready', << "send", g >>) = Count(ready, << "send", g >>),
         Senders(f)' = IF h.sending /\ ~h.failed THEN 1 ELSE 0,
         h.pending # << >> => IF h.connected THEN h.sending ELSE h.connecting,
         h.failed => h.sending, InSequence(h), UpTo(h, LastQueued)
  PROVE  IndInv'
<1>1. /\ heap' \in Seq(Flow) /\ Flows' = Flows
      /\ \A g \in Flows : heap'[g] = IF g = f THEN h ELSE heap[g]
      /\ Typed /\ PkTyped /\ IoTyped /\ PortInv /\ Closing /\ SendInv
  BY HeapUpdate DEF IndInv, Typed
<1>2. \A g \in Flows : Same(heap'[g], heap[g]) /\ heap'[g].stale = heap[g].stale
  BY <1>1 DEF Same
<1>3. Typed'
  BY <1>1, <1>2 DEF Typed, Same
<1>4. PkTyped'
  BY <1>1, <1>2 DEF PkTyped, Carries, HasPort, Same
<1>5. IoTyped'
  BY <1>1, <1>2 DEF IoTyped, CallErase, Same
<1>6. PortInv'
  BY <1>1, <1>2, PortsKept DEF CallErase
<1>7. Closing'
  <2> SUFFICES ASSUME NEW g \in Flows, ~InMap(g)', ~heap'[g].stale
               PROVE  /\ ~PacketThreadHolds(g)'
                      /\ CloseComing(g)' \/ CloseLast(g, ready') \/ Closed(g)'
    BY <1>1 DEF Closing
  <2>1. ~InMap(g) /\ ~heap[g].stale
    BY <1>2 DEF InMap, Same
  <2>2. ~PacketThreadHolds(g) /\ (CloseComing(g) \/ CloseLast(g, ready) \/ Closed(g))
    BY <1>1, <2>1 DEF Closing
  <2>3. ~PacketThreadHolds(g)'
    BY <2>2 DEF PacketThreadHolds
  <2>4. CASE CloseComing(g)
    BY <2>3, <2>4 DEF CloseComing
  <2>5. CASE CloseLast(g, ready)
    BY <1>1, <2>3, <2>5 DEF Closed
  <2>6. CASE Closed(g)
    BY <1>1, <2>3, <2>6 DEF Closed
  <2> QED
    BY <2>2, <2>4, <2>5, <2>6
<1>8. SendInv'
  <2>1. ASSUME NEW g \in Flows, g # f
        PROVE  Senders(g)' = Senders(g)
    BY <1>1, <2>1 DEF Senders, Count
  <2>2. OneSender'
    BY <1>1, <2>1 DEF OneSender, SendInv
  <2>3. NoLostWakeup'
    BY <1>1 DEF NoLostWakeup, SendInv
  <2>4. LastQueued' = LastQueued
    BY DEF LastQueued, Carries
  <2>5. \A g \in Flows : /\ heap'[g].failed => heap'[g].sending
                         /\ InSequence(heap'[g])
                         /\ UpTo(heap'[g], LastQueued)
    BY <1>1 DEF SendInv
  <2> QED
    BY <1>1, <2>2, <2>3, <2>4, <2>5 DEF SendInv
<1> QED
  BY <1>3, <1>4, <1>5, <1>6, <1>7, <1>8 DEF IndInv

\* The packet thread is about to post a send_loop of f.
PkSends(f) == IF pk.pc = "spawn" /\ pk.flow = f /\ pk.spawn = "send" THEN 1 ELSE 0

\* The senders of a flow, counted.
LEMMA SendersFacts ==
  ASSUME IndInv, NEW f \in Flows
  PROVE  /\ heap[f] \in Flow /\ Len(heap[f].tx) \in Nat
         /\ Count(ready, << "send", f >>) \in Nat
         /\ PkSends(f) \in {0, 1}
         /\ Len(heap[f].tx) + Count(ready, << "send", f >>) + PkSends(f)
              = IF heap[f].sending /\ ~heap[f].failed THEN 1 ELSE 0
<1>1. heap[f] \in Flow /\ ready \in Seq(Handlers)
  BY FlowFacts DEF IndInv, Typed
<1>2. heap[f].tx \in Seq([msg : Nat, ok : BOOLEAN])
  BY <1>1 DEF Flow
<1>3. Len(heap[f].tx) \in Nat
  BY <1>2
<1>4. Senders(f) = IF heap[f].sending /\ ~heap[f].failed THEN 1 ELSE 0
  BY DEF IndInv, SendInv, OneSender
<1>5. Senders(f) = Len(heap[f].tx) + Count(ready, << "send", f >>) + PkSends(f)
  BY DEF Senders, Count, PkSends
<1> QED
  BY <1>1, <1>3, <1>4, <1>5, CountType DEF PkSends

\* A handler of flow f has been taken off the queue.
LEMMA TurnFacts ==
  ASSUME IndInv, NEW f \in Flows, NEW kind, Turn(kind, f)
  PROVE  /\ Tail(ready) \in Seq(Handlers)
         /\ \A i \in DOMAIN Tail(ready) : Tail(ready)[i][2] \in Flows
         /\ \A g \in Flows : CloseLast(g, ready) =>
               \/ CloseLast(g, Tail(ready))
               \/ g = f /\ kind = "close" /\ NoStart(g, Tail(ready))
         /\ \A g \in Flows : NoStart(g, ready) =>
               NoStart(g, Tail(ready)) /\ ~(g = f /\ kind = "start")
         /\ \A g \in Flows : Count(ready, << "send", g >>) =
               Count(Tail(ready), << "send", g >>) + IF kind = "send" /\ g = f THEN 1 ELSE 0
         /\ \A g \in Flows : Count(Tail(ready), << "send", g >>) \in Nat
         /\ io.pc = "run" /\ ~stopping_
<1>1. /\ ready \in Seq(Handlers) /\ ready # << >> /\ Head(ready) = << kind, f >>
      /\ \A i \in DOMAIN ready : ready[i][2] \in Flows
      /\ io.pc = "run" /\ ~stopping_
  BY DEF IndInv, Typed, Turn, IoTurn
<1>2. /\ Tail(ready) \in Seq(Handlers)
      /\ \A i \in DOMAIN Tail(ready) : Tail(ready)[i][2] \in Flows
  BY <1>1, TailFacts
<1>3. \A a, b, g : << a, f >> = << b, g >> <=> a = b /\ f = g
  OBVIOUS
<1>4. ASSUME NEW g \in Flows
      PROVE  /\ CloseLast(g, ready) =>
                   \/ CloseLast(g, Tail(ready))
                   \/ g = f /\ kind = "close" /\ NoStart(g, Tail(ready))
             /\ NoStart(g, ready) => NoStart(g, Tail(ready)) /\ ~(g = f /\ kind = "start")
  <2>1. /\ CloseLast(g, ready) =>
              \/ CloseLast(g, Tail(ready))
              \/ Head(ready) = << "close", g >> /\ NoStart(g, Tail(ready))
        /\ NoStart(g, ready) => NoStart(g, Tail(ready)) /\ Head(ready) # << "start", g >>
    BY <1>1, CloseTail
  <2> QED
    BY <1>1, <1>3, <2>1
<1>5. ASSUME NEW g \in Flows
      PROVE  Count(ready, << "send", g >>) =
               Count(Tail(ready), << "send", g >>) + IF kind = "send" /\ g = f THEN 1 ELSE 0
  <2>1. Count(ready, << "send", g >>) =
          Count(Tail(ready), << "send", g >>) + IF Head(ready) = << "send", g >> THEN 1 ELSE 0
    BY <1>1, CountTail
  <2>2. Head(ready) = << "send", g >> <=> kind = "send" /\ g = f
    BY <1>1, <1>3
  <2> QED
    BY <2>1, <2>2
<1>6. \A g \in Flows : Count(Tail(ready), << "send", g >>) \in Nat
  BY <1>2, CountType
<1> QED
  BY <1>1, <1>2, <1>4, <1>5, <1>6

\* A handler that is not a send leaves the sends waiting.
LEMMA QuietTurn ==
  ASSUME IndInv, NEW f \in Flows, NEW kind, Turn(kind, f), kind # "send"
  PROVE  \A g \in Flows : Count(Tail(ready), << "send", g >>) = Count(ready, << "send", g >>)
<1> SUFFICES ASSUME NEW g \in Flows
             PROVE  Count(Tail(ready), << "send", g >>) = Count(ready, << "send", g >>)
  OBVIOUS
<1>1. PICK n \in Nat : n = Count(Tail(ready), << "send", g >>)
  BY TurnFacts
<1>2. Count(ready, << "send", g >>) =
         Count(Tail(ready), << "send", g >>) + IF kind = "send" /\ g = f THEN 1 ELSE 0
  BY TurnFacts
<1>3. Count(ready, << "send", g >>) = n + 0
  BY <1>1, <1>2
<1> QED
  BY <1>1, <1>3

\* A queue in order takes one that is newer than all of them.
LEMMA AppendInOrder ==
  ASSUME NEW w \in Seq(Nat), NEW x \in Nat,
         \A i, j \in DOMAIN w : i < j => w[i] < w[j],
         \A i \in DOMAIN w : w[i] < x
  PROVE  \A i, j \in DOMAIN Append(w, x) : i < j => Append(w, x)[i] < Append(w, x)[j]
<1>1. PICK L \in Nat : L = Len(w) /\ DOMAIN w = 1 .. L
  OBVIOUS
<1>2. PICK q \in Seq(Nat) : q = Append(w, x)
  BY AppendFacts
<1>3. /\ DOMAIN q = 1 .. (L + 1) /\ q[L + 1] = x
      /\ \A i \in 1 .. L : q[i] = w[i]
  BY <1>1, <1>2, AppendFacts
<1>4. \A n \in Nat : \A i, j \in 1 .. (n + 1) : i < j => i \in 1 .. n /\ (j \in 1 .. n \/ j = n + 1)
  OBVIOUS
<1> QED
  BY <1>1, <1>2, <1>3, <1>4

\* The flow's datagrams and the flags of its sender do not change.
LEMMA QuietStepInv ==
  ASSUME IndInv, NEW f \in Flows, NEW h \in Flow,
         heap' = [heap EXCEPT ![f] = h], Same(h, heap[f]), h.stale = heap[f].stale,
         h.pending = heap[f].pending, h.tx = heap[f].tx, h.out = heap[f].out,
         h.sending = heap[f].sending, h.failed = heap[f].failed,
         h.connected = heap[f].connected, h.connecting = heap[f].connecting,
         UNCHANGED << udp_nat_, udp_flows_, pk, stopping_, received, allocs >>,
         io.pc = "run", ~stopping_, io' = io \/ io' = CallErase(f),
         ready' \in Seq(Handlers), \A i \in DOMAIN ready' : ready'[i][2] \in Flows,
         \A g \in Flows : CloseLast(g, ready) =>
            CloseLast(g, ready') \/ (g = f /\ ~h.open /\ NoStart(g, ready')),
         \A g \in Flows : NoStart(g, ready) /\ ~heap[g].open =>
            NoStart(g, ready') /\ (g = f => ~h.open),
         \A g \in Flows : Count(ready', << "send", g >>) = Count(ready, << "send", g >>)
  PROVE  IndInv'
<1>0. heap \in Seq(Flow)
  BY DEF IndInv, Typed
<1>1. heap'[f] = h
  BY <1>0 DEF Flows
<1>2. Senders(f)' = Senders(f)
  BY <1>1 DEF Senders, Count
<1>3. Senders(f)' = IF h.sending /\ ~h.failed THEN 1 ELSE 0
  BY <1>2 DEF IndInv, SendInv, OneSender
<1>4. /\ h.pending # << >> => IF h.connected THEN h.sending ELSE h.connecting
      /\ h.failed => h.sending
  BY DEF IndInv, SendInv, NoLostWakeup
<1>5. InSequence(h) /\ UpTo(h, LastQueued)
  BY DEF IndInv, SendInv, InSequence, UpTo
<1>6. \A g \in Flows \ {f} : Count(ready', << "send", g >>) = Count(ready, << "send", g >>)
  OBVIOUS
<1> QED
  BY <1>3, <1>4, <1>5, <1>6, FlowStepInv

\* start begins to connect.
LEMMA StartFlowInv ==
  ASSUME IndInv, NEW f \in Flows, StartFlow(f)
  PROVE  IndInv'
<1>1. /\ heap \in Seq(Flow) /\ heap[f] \in Flow /\ f \in DOMAIN heap
      /\ UNCHANGED << udp_nat_, udp_flows_, pk, stopping_, received, allocs >>
      /\ Turn("start", f) /\ ready' = Tail(ready)
  BY FlowFacts DEF IndInv, Typed, StartFlow, Flows
<1>2. ASSUME NEW b \in BOOLEAN, NEW c \in {"waiting", "failed"},
             heap' = [heap EXCEPT ![f].open = b, ![f].connect = c],
             io' = io \/ io' = CallErase(f)
      PROVE  IndInv'
  <2> DEFINE h == [heap[f] EXCEPT !.open = b, !.connect = c]
  <2>1. heap' = [heap EXCEPT ![f] = h]
    BY <1>1, <1>2
  <2>2. /\ h \in Flow /\ Same(h, heap[f]) /\ h.stale = heap[f].stale
        /\ h.pending = heap[f].pending /\ h.tx = heap[f].tx /\ h.out = heap[f].out
        /\ h.sending = heap[f].sending /\ h.failed = heap[f].failed
        /\ h.connected = heap[f].connected /\ h.connecting = heap[f].connecting
    BY <1>1 DEF Flow, Same
  <2> HIDE DEF h
  <2>3. /\ \A g \in Flows : CloseLast(g, ready) => CloseLast(g, ready')
        /\ \A g \in Flows : NoStart(g, ready) => NoStart(g, ready') /\ g # f
        /\ \A g \in Flows : Count(ready', << "send", g >>) = Count(ready, << "send", g >>)
        /\ ready' \in Seq(Handlers) /\ \A i \in DOMAIN ready' : ready'[i][2] \in Flows
        /\ io.pc = "run" /\ ~stopping_
    BY <1>1, TurnFacts
  <2>4. /\ \A g \in Flows : CloseLast(g, ready) =>
              CloseLast(g, ready') \/ (g = f /\ ~h.open /\ NoStart(g, ready'))
        /\ \A g \in Flows : NoStart(g, ready) /\ ~heap[g].open =>
              NoStart(g, ready') /\ (g = f => ~h.open)
    BY <2>3
  <2> QED
    BY <1>1, <1>2, <2>1, <2>2, <2>3, <2>4, QuietStepInv
<1> QED
  BY <1>2 DEF StartFlow

\* recv_loop begins to receive.
LEMMA RecvStartInv ==
  ASSUME IndInv, NEW f \in Flows, RecvStart(f)
  PROVE  IndInv'
<1> DEFINE x == IF heap[f].open THEN "waiting" ELSE "aborted"
           h == [heap[f] EXCEPT !.rx = x]
<1>1. /\ heap \in Seq(Flow) /\ heap[f] \in Flow
      /\ UNCHANGED << udp_nat_, udp_flows_, pk, io, stopping_, received, allocs >>
      /\ Turn("recv", f) /\ ready' = Tail(ready)
      /\ heap' = [heap EXCEPT ![f].rx = x]
  BY FlowFacts DEF IndInv, Typed, RecvStart
<1>2. x \in {"waiting", "aborted"}
  OBVIOUS
<1> HIDE DEF x
<1>3. heap' = [heap EXCEPT ![f] = h]
  BY <1>1
<1>4. /\ h \in Flow /\ Same(h, heap[f]) /\ h.stale = heap[f].stale /\ h.open = heap[f].open
      /\ h.pending = heap[f].pending /\ h.tx = heap[f].tx /\ h.out = heap[f].out
      /\ h.sending = heap[f].sending /\ h.failed = heap[f].failed
      /\ h.connected = heap[f].connected /\ h.connecting = heap[f].connecting
  BY <1>1, <1>2 DEF Flow, Same
<1> HIDE DEF h
<1>5. /\ \A g \in Flows : CloseLast(g, ready) => CloseLast(g, ready')
      /\ \A g \in Flows : NoStart(g, ready) => NoStart(g, ready')
      /\ \A g \in Flows : Count(ready', << "send", g >>) = Count(ready, << "send", g >>)
      /\ ready' \in Seq(Handlers) /\ \A i \in DOMAIN ready' : ready'[i][2] \in Flows
      /\ io.pc = "run" /\ ~stopping_
  BY <1>1, TurnFacts, QuietTurn
<1> QED
  BY <1>1, <1>3, <1>4, <1>5, QuietStepInv

\* A receive fails, and recv_loop enters erase_udp_flow.
LEMMA RecvFailedInv ==
  ASSUME IndInv, NEW f \in Flows, RecvFailed(f)
  PROVE  IndInv'
<1> DEFINE h == [heap[f] EXCEPT !.rx = "done"]
<1>1. /\ heap \in Seq(Flow) /\ heap[f] \in Flow
      /\ ready \in Seq(Handlers) /\ \A i \in DOMAIN ready : ready[i][2] \in Flows
      /\ UNCHANGED << udp_nat_, udp_flows_, pk, ready, stopping_, received, allocs >>
      /\ io.pc = "run" /\ ~stopping_ /\ io' = CallErase(f)
      /\ heap' = [heap EXCEPT ![f] = h]
  BY FlowFacts DEF IndInv, Typed, RecvFailed, IoTurn
<1>2. /\ h \in Flow /\ Same(h, heap[f]) /\ h.stale = heap[f].stale /\ h.open = heap[f].open
      /\ h.pending = heap[f].pending /\ h.tx = heap[f].tx /\ h.out = heap[f].out
      /\ h.sending = heap[f].sending /\ h.failed = heap[f].failed
      /\ h.connected = heap[f].connected /\ h.connecting = heap[f].connecting
  BY <1>1 DEF Flow, Same
<1> HIDE DEF h
<1> QED
  BY <1>1, <1>2, QuietStepInv

\* The posted close of a socket.
LEMMA CloseFlowInv ==
  ASSUME IndInv, NEW f \in Flows, CloseFlow(f)
  PROVE  IndInv'
<1> DEFINE x == IF heap[f].rx = "waiting" THEN "aborted" ELSE heap[f].rx
           h == [heap[f] EXCEPT !.open = FALSE, !.rx = x]
<1>1. /\ heap \in Seq(Flow) /\ heap[f] \in Flow
      /\ UNCHANGED << udp_nat_, udp_flows_, pk, io, stopping_, received, allocs >>
      /\ Turn("close", f) /\ ready' = Tail(ready)
      /\ heap' = [heap EXCEPT ![f].open = FALSE,
                              ![f].rx = IF @ = "waiting" THEN "aborted" ELSE @]
  BY FlowFacts DEF IndInv, Typed, CloseFlow
<1>2. heap' = [heap EXCEPT ![f] = h]
  BY <1>1
<1>3. x \in {"none", "waiting", "aborted", "done"}
  BY <1>1 DEF Flow
<1> HIDE DEF x
<1>4. /\ h \in Flow /\ Same(h, heap[f]) /\ h.stale = heap[f].stale /\ h.open = FALSE
      /\ h.pending = heap[f].pending /\ h.tx = heap[f].tx /\ h.out = heap[f].out
      /\ h.sending = heap[f].sending /\ h.failed = heap[f].failed
      /\ h.connected = heap[f].connected /\ h.connecting = heap[f].connecting
  BY <1>1, <1>3 DEF Flow, Same
<1> HIDE DEF h
<1>5. /\ \A g \in Flows : CloseLast(g, ready) =>
            CloseLast(g, ready') \/ (g = f /\ NoStart(g, ready'))
      /\ \A g \in Flows : NoStart(g, ready) => NoStart(g, ready')
      /\ \A g \in Flows : Count(ready', << "send", g >>) = Count(ready, << "send", g >>)
      /\ ready' \in Seq(Handlers) /\ \A i \in DOMAIN ready' : ready'[i][2] \in Flows
      /\ io.pc = "run" /\ ~stopping_
  BY <1>1, TurnFacts, QuietTurn
<1>6. /\ \A g \in Flows : CloseLast(g, ready) =>
            CloseLast(g, ready') \/ (g = f /\ ~h.open /\ NoStart(g, ready'))
      /\ \A g \in Flows : NoStart(g, ready) /\ ~heap[g].open =>
            NoStart(g, ready') /\ (g = f => ~h.open)
  BY <1>4, <1>5
<1> QED
  BY <1>1, <1>2, <1>4, <1>5, <1>6, QuietStepInv

\* One turn of send_loop by the only sender of the flow.
LEMMA NextSendFacts ==
  ASSUME NEW h \in Flow, h.tx = << >>, h.sending, ~h.failed, NEW n \in Int,
         InSequence(h), UpTo(h, n),
         h.pending # << >> => IF h.connected THEN h.sending ELSE h.connecting
  PROVE  LET k == NextSend(h)
         IN  /\ k \in Flow /\ Same(k, h) /\ k.stale = h.stale /\ k.open = h.open
             /\ ~k.failed /\ InSequence(k) /\ UpTo(k, n)
             /\ k.pending # << >> => IF k.connected THEN k.sending ELSE k.connecting
             /\ Len(k.tx) = IF k.sending THEN 1 ELSE 0
<1>0. /\ h.pending \in Seq(Nat) /\ h.out \in Seq(Nat)
      /\ h.open \in BOOLEAN /\ h.connected \in BOOLEAN /\ h.connecting \in BOOLEAN
  BY DEF Flow
<1>1. CASE h.pending = << >>
  <2> DEFINE k == [h EXCEPT !.sending = FALSE]
  <2>1. NextSend(h) = k
    BY <1>1 DEF NextSend
  <2>2. /\ k \in Flow /\ Same(k, h) /\ k.stale = h.stale /\ k.open = h.open
        /\ k.failed = h.failed /\ k.pending = h.pending /\ k.tx = h.tx /\ k.out = h.out
        /\ k.sending = FALSE
    BY DEF Flow, Same
  <2> HIDE DEF k
  <2>3. InSequence(k) /\ UpTo(k, n)
    BY <2>2 DEF InSequence, UpTo
  <2>4. Len(k.tx) = 0
    BY <2>2
  <2> QED
    BY <1>1, <2>1, <2>2, <2>3, <2>4
<1>2. CASE h.pending # << >>
  <2> DEFINE x == [msg |-> Head(h.pending), ok |-> h.open]
             t == Append(h.tx, x)
             k == [h EXCEPT !.pending = Tail(h.pending), !.tx = t]
  <2>1. NextSend(h) = k
    BY <1>2 DEF NextSend
  <2>2. /\ Head(h.pending) \in Nat /\ Head(h.pending) = h.pending[1] /\ 1 \in DOMAIN h.pending
        /\ Tail(h.pending) \in Seq(Nat)
        /\ \A i \in DOMAIN Tail(h.pending) : /\ i \in Nat /\ i # 0 /\ i + 1 \in DOMAIN h.pending
                                             /\ Tail(h.pending)[i] = h.pending[i + 1]
    BY <1>0, <1>2, TailFacts
  <2>3. x \in [msg : Nat, ok : BOOLEAN] /\ x.msg = h.pending[1]
    BY <1>0, <2>2
  <2> HIDE DEF x
  <2>4. t \in Seq([msg : Nat, ok : BOOLEAN]) /\ Len(t) = 1 /\ DOMAIN t = {1} /\ t[1] = x
    BY <2>3
  <2> HIDE DEF t
  <2>5. /\ k \in Flow /\ Same(k, h) /\ k.stale = h.stale /\ k.open = h.open
        /\ k.failed = h.failed /\ k.pending = Tail(h.pending) /\ k.tx = t /\ k.out = h.out
        /\ k.sending = h.sending /\ k.connected = h.connected /\ k.connecting = h.connecting
    BY <2>2, <2>4 DEF Flow, Same
  <2> HIDE DEF k
  <2>6. InSequence(k)
    <3>1. \A i, j \in DOMAIN k.out : i < j => k.out[i] < k.out[j]
      BY <2>5 DEF InSequence
    <3>2. \A i, j \in DOMAIN k.pending : i < j => k.pending[i] < k.pending[j]
      <4> SUFFICES ASSUME NEW i \in DOMAIN k.pending, NEW j \in DOMAIN k.pending, i < j
                   PROVE  k.pending[i] < k.pending[j]
        OBVIOUS
      <4>1. i + 1 < j + 1
        BY <2>2, <2>5
      <4> QED
        BY <2>2, <2>5, <4>1 DEF InSequence
    <3>3. \A i \in DOMAIN k.out, j \in DOMAIN k.pending : k.out[i] < k.pending[j]
      BY <2>2, <2>5 DEF InSequence
    <3>4. \A j \in DOMAIN k.out : k.out[j] < x.msg
      BY <2>2, <2>3, <2>5 DEF InSequence
    <3>5. \A j \in DOMAIN k.pending : x.msg < k.pending[j]
      <4> SUFFICES ASSUME NEW j \in DOMAIN k.pending PROVE x.msg < k.pending[j]
        OBVIOUS
      <4>1. 1 < j + 1
        BY <2>2, <2>5
      <4> QED
        BY <2>2, <2>3, <2>5, <4>1 DEF InSequence
    <3> QED
      BY <2>4, <2>5, <3>1, <3>2, <3>3, <3>4, <3>5 DEF InSequence
  <2>7. UpTo(k, n)
    BY <2>2, <2>3, <2>4, <2>5 DEF UpTo
  <2> QED
    BY <1>2, <2>1, <2>4, <2>5, <2>6, <2>7
<1> QED
  BY <1>1, <1>2

\* The last datagram that can be on a queue is a number.
LEMMA LastQueuedInt ==
  ASSUME IndInv
  PROVE  LastQueued \in Int
BY DEF IndInv, Typed, LastQueued

\* send_loop takes its first datagram.
LEMMA SendStartInv ==
  ASSUME IndInv, NEW f \in Flows, SendStart(f)
  PROVE  IndInv'
<1> DEFINE h == NextSend(heap[f])
<1>1. /\ heap \in Seq(Flow) /\ heap[f] \in Flow
      /\ UNCHANGED << udp_nat_, udp_flows_, pk, io, stopping_, received, allocs >>
      /\ Turn("send", f) /\ ready' = Tail(ready)
      /\ heap' = [heap EXCEPT ![f] = h]
  BY FlowFacts DEF IndInv, Typed, SendStart
<1>2. /\ \A g \in Flows : CloseLast(g, ready) => CloseLast(g, ready')
      /\ \A g \in Flows : NoStart(g, ready) => NoStart(g, ready')
      /\ \A g \in Flows \ {f} : Count(ready', << "send", g >>) = Count(ready, << "send", g >>)
      /\ Count(ready, << "send", f >>) = Count(ready', << "send", f >>) + 1
      /\ Count(ready', << "send", f >>) \in Nat
      /\ ready' \in Seq(Handlers) /\ \A i \in DOMAIN ready' : ready'[i][2] \in Flows
      /\ io.pc = "run" /\ ~stopping_
  BY <1>1, TurnFacts
<1>3. /\ heap[f].sending /\ ~heap[f].failed /\ Len(heap[f].tx) = 0
      /\ Count(ready', << "send", f >>) = 0 /\ PkSends(f) = 0
  BY <1>2, SendersFacts
<1>4. heap[f].tx = << >>
  BY <1>1, <1>3 DEF Flow
<1>5. /\ InSequence(heap[f]) /\ UpTo(heap[f], LastQueued)
      /\ heap[f].pending # << >> =>
            IF heap[f].connected THEN heap[f].sending ELSE heap[f].connecting
  BY DEF IndInv, SendInv, NoLostWakeup
<1>6. /\ h \in Flow /\ Same(h, heap[f]) /\ h.stale = heap[f].stale /\ h.open = heap[f].open
      /\ ~h.failed /\ InSequence(h) /\ UpTo(h, LastQueued)
      /\ h.pending # << >> => IF h.connected THEN h.sending ELSE h.connecting
      /\ Len(h.tx) = IF h.sending THEN 1 ELSE 0
  BY <1>1, <1>3, <1>4, <1>5, LastQueuedInt, NextSendFacts
<1> HIDE DEF h
<1>7. heap'[f] = h
  BY <1>1 DEF Flows
<1>8. Senders(f)' = IF h.sending /\ ~h.failed THEN 1 ELSE 0
  <2>1. Senders(f)' = Len(h.tx) + Count(ready', << "send", f >>) + PkSends(f)
    BY <1>1, <1>7 DEF Senders, Count, PkSends
  <2> QED
    BY <1>3, <1>6, <2>1
<1>9. /\ \A g \in Flows : CloseLast(g, ready) =>
            CloseLast(g, ready') \/ (g = f /\ ~h.open /\ NoStart(g, ready'))
      /\ \A g \in Flows : NoStart(g, ready) /\ ~heap[g].open =>
            NoStart(g, ready') /\ (g = f => ~h.open)
  BY <1>2, <1>6
<1> QED
  BY <1>1, <1>2, <1>6, <1>8, <1>9, FlowStepInv

\* A send in progress is that of the only sender, and the only one.
LEMMA SendInProgress ==
  ASSUME IndInv, NEW f \in Flows, NEW i \in DOMAIN heap[f].tx
  PROVE  /\ heap[f].sending /\ ~heap[f].failed
         /\ i = 1 /\ heap[f].tx[1] \in [msg : Nat, ok : BOOLEAN] /\ DOMAIN heap[f].tx = {1}
         /\ RemoveAt(heap[f].tx, i) = << >>
         /\ Count(ready, << "send", f >>) = 0 /\ PkSends(f) = 0
<1>1. heap[f] \in Flow /\ heap[f].tx \in Seq([msg : Nat, ok : BOOLEAN])
  BY SendersFacts DEF Flow
<1>2. Len(heap[f].tx) >= 1 /\ i \in 1 .. Len(heap[f].tx)
  BY <1>1
<1>3. /\ heap[f].sending /\ ~heap[f].failed /\ Len(heap[f].tx) = 1
      /\ Count(ready, << "send", f >>) = 0 /\ PkSends(f) = 0
  <2>1. /\ Len(heap[f].tx) \in Nat /\ Count(ready, << "send", f >>) \in Nat
        /\ PkSends(f) \in {0, 1}
        /\ Len(heap[f].tx) + Count(ready, << "send", f >>) + PkSends(f)
             = IF heap[f].sending /\ ~heap[f].failed THEN 1 ELSE 0
    BY SendersFacts
  <2>2. heap[f].sending /\ ~heap[f].failed
    <3> SUFFICES ASSUME ~(heap[f].sending /\ ~heap[f].failed) PROVE FALSE
      OBVIOUS
    <3>1. Len(heap[f].tx) + Count(ready, << "send", f >>) + PkSends(f) = 0
      BY <2>1
    <3> QED
      BY <1>2, <2>1, <3>1
  <2>3. Len(heap[f].tx) + Count(ready, << "send", f >>) + PkSends(f) = 1
    BY <2>1, <2>2
  <2>4. Len(heap[f].tx) = 1 /\ Count(ready, << "send", f >>) = 0 /\ PkSends(f) = 0
    <3> DEFINE L == Len(heap[f].tx)
               C == Count(ready, << "send", f >>)
               P == PkSends(f)
    <3>1. L \in Nat /\ L >= 1 /\ C \in Nat /\ P \in Nat /\ L + C + P = 1
      BY <1>2, <2>1, <2>3
    <3> HIDE DEF L, C, P
    <3>2. L = 1 /\ C = 0 /\ P = 0
      BY <3>1
    <3> QED
      BY <3>2 DEF L, C, P
  <2> QED
    BY <2>2, <2>4
<1>4. i = 1 /\ heap[f].tx[1] \in [msg : Nat, ok : BOOLEAN] /\ DOMAIN heap[f].tx = {1}
  <2>1. DOMAIN heap[f].tx = 1 .. Len(heap[f].tx)
    BY <1>1
  <2>2. 1 .. Len(heap[f].tx) = {1}
    BY <1>3
  <2>3. i = 1 /\ 1 \in DOMAIN heap[f].tx
    BY <2>1, <2>2
  <2>4. heap[f].tx[1] \in [msg : Nat, ok : BOOLEAN]
    <3> DEFINE t == heap[f].tx
               R == [msg : Nat, ok : BOOLEAN]
    <3>1. t \in Seq(R) /\ 1 \in DOMAIN t
      BY <1>1, <2>3
    <3> HIDE DEF t, R
    <3>2. t[1] \in R
      BY <3>1
    <3> QED
      BY <3>2 DEF t, R
  <2> QED
    BY <2>1, <2>2, <2>3, <2>4
<1>5. RemoveAt(heap[f].tx, i) = << >>
  <2> DEFINE t == heap[f].tx
  <2> HIDE DEF t
  <2>1. t \in Seq([msg : Nat, ok : BOOLEAN]) /\ Len(t) = 1
    BY <1>1, <1>3 DEF t
  <2>2. SubSeq(t, 1, 0) = << >> /\ SubSeq(t, 2, 1) = << >>
    BY <2>1
  <2>3. RemoveAt(t, 1) = SubSeq(t, 1, 0) \o SubSeq(t, 2, 1)
    BY <2>1 DEF RemoveAt
  <2> QED
    BY <1>4, <2>2, <2>3 DEF t
<1> QED
  BY <1>3, <1>4, <1>5

\* A send succeeds, and send_loop takes the next datagram or ends.
LEMMA SendDoneInv ==
  ASSUME IndInv, NEW f \in Flows, SendDone(f)
  PROVE  IndInv'
<1> DEFINE m == heap[f].tx[1].msg
           o == Append(heap[f].out, m)
           e == Len(heap[f].out) + 1
           h0 == [heap[f] EXCEPT !.tx = << >>, !.out = o]
           h == NextSend(h0)
<1>1. PICK i \in DOMAIN heap[f].tx :
         heap' = [heap EXCEPT ![f] = NextSend([heap[f] EXCEPT
                    !.tx = RemoveAt(@, i), !.out = Append(@, heap[f].tx[i].msg)])]
  BY Zenon DEF SendDone
<1>2. /\ heap \in Seq(Flow) /\ heap[f] \in Flow
      /\ ready \in Seq(Handlers) /\ \A j \in DOMAIN ready : ready[j][2] \in Flows
      /\ UNCHANGED << udp_nat_, udp_flows_, pk, io, ready, stopping_, received, allocs >>
      /\ io.pc = "run" /\ ~stopping_
  BY FlowFacts DEF IndInv, Typed, SendDone, IoTurn
<1>3. /\ heap[f].sending /\ ~heap[f].failed
      /\ i = 1 /\ heap[f].tx[1] \in [msg : Nat, ok : BOOLEAN] /\ DOMAIN heap[f].tx = {1}
      /\ RemoveAt(heap[f].tx, i) = << >>
      /\ Count(ready, << "send", f >>) = 0 /\ PkSends(f) = 0
  BY SendInProgress
<1>4. heap' = [heap EXCEPT ![f] = h]
  <2>1. [heap[f] EXCEPT !.tx = RemoveAt(@, i), !.out = Append(@, heap[f].tx[i].msg)] = h0
    BY <1>2, <1>3 DEF Flow
  <2> QED
    BY <1>1, <2>1
<1>5. /\ InSequence(heap[f]) /\ UpTo(heap[f], LastQueued)
      /\ heap[f].pending # << >> =>
            IF heap[f].connected THEN heap[f].sending ELSE heap[f].connecting
  BY DEF IndInv, SendInv, NoLostWakeup
<1>6. /\ heap[f].out \in Seq(Nat) /\ heap[f].pending \in Seq(Nat) /\ m \in Nat
      /\ \A j \in DOMAIN heap[f].out : heap[f].out[j] < m
      /\ \A j \in DOMAIN heap[f].pending : m < heap[f].pending[j]
      /\ m <= LastQueued
  BY <1>2, <1>3, <1>5 DEF Flow, InSequence, UpTo
<1> HIDE DEF m
<1>7. /\ o \in Seq(Nat) /\ DOMAIN o = DOMAIN heap[f].out \cup {e} /\ e \notin DOMAIN heap[f].out
      /\ \A j \in DOMAIN heap[f].out : o[j] = heap[f].out[j] /\ j < e /\ j \in Nat
      /\ o[e] = m /\ e \in Nat
  <2>1. /\ o \in Seq(Nat) /\ Len(heap[f].out) \in Nat
        /\ DOMAIN heap[f].out = 1 .. Len(heap[f].out)
        /\ \A j \in 1 .. Len(heap[f].out) : o[j] = heap[f].out[j]
        /\ o[e] = m /\ DOMAIN o = DOMAIN heap[f].out \cup {e}
    <3>1. PICK w \in Seq(Nat) : w = heap[f].out
      BY <1>6
    <3>2. o = Append(w, m) /\ e = Len(w) + 1
      BY <3>1
    <3> HIDE DEF o, e
    <3>3. /\ o \in Seq(Nat) /\ Len(w) \in Nat /\ DOMAIN w = 1 .. Len(w)
          /\ \A j \in 1 .. Len(w) : o[j] = w[j]
          /\ o[e] = m /\ DOMAIN o = DOMAIN w \cup {e}
      BY <1>6, <3>2, AppendFacts
    <3> QED
      BY <3>1, <3>3
  <2> HIDE DEF o
  <2> QED
    BY <2>1
<1> HIDE DEF o, e
<1>8. /\ h0 \in Flow /\ Same(h0, heap[f]) /\ h0.stale = heap[f].stale /\ h0.open = heap[f].open
      /\ h0.tx = << >> /\ h0.out = o /\ h0.pending = heap[f].pending
      /\ h0.sending = heap[f].sending /\ h0.failed = heap[f].failed
      /\ h0.connected = heap[f].connected /\ h0.connecting = heap[f].connecting
  <2>1. << >> \in Seq([msg : Nat, ok : BOOLEAN])
    OBVIOUS
  <2> QED
    BY <1>2, <1>7, <2>1 DEF Flow, Same
<1> HIDE DEF h0
<1>9. InSequence(h0)
  <2>1. \A a, b \in DOMAIN o : a < b => o[a] < o[b]
    BY <1>5, <1>6, <1>7 DEF InSequence
  <2>2. \A a \in DOMAIN o, b \in DOMAIN h0.pending : o[a] < h0.pending[b]
    BY <1>5, <1>6, <1>7, <1>8 DEF InSequence
  <2>3. \A a, b \in DOMAIN h0.pending : a < b => h0.pending[a] < h0.pending[b]
    BY <1>5, <1>8 DEF InSequence
  <2>4. DOMAIN h0.tx = {}
    BY <1>8
  <2> QED
    BY <1>8, <2>1, <2>2, <2>3, <2>4 DEF InSequence
<1>10. UpTo(h0, LastQueued)
  <2>1. DOMAIN h0.tx = {}
    BY <1>8
  <2> QED
    BY <1>5, <1>6, <1>7, <1>8, <2>1 DEF UpTo
<1>11. /\ h \in Flow /\ Same(h, h0) /\ h.stale = h0.stale /\ h.open = h0.open
       /\ ~h.failed /\ InSequence(h) /\ UpTo(h, LastQueued)
       /\ h.pending # << >> => IF h.connected THEN h.sending ELSE h.connecting
       /\ Len(h.tx) = IF h.sending THEN 1 ELSE 0
  BY <1>3, <1>5, <1>8, <1>9, <1>10, LastQueuedInt, NextSendFacts
<1> HIDE DEF h
<1>12. heap'[f] = h
  BY <1>2, <1>4 DEF Flows
<1>13. Senders(f)' = IF h.sending /\ ~h.failed THEN 1 ELSE 0
  <2>1. Senders(f)' = Len(h.tx) + Count(ready, << "send", f >>) + PkSends(f)
    BY <1>2, <1>12 DEF Senders, Count, PkSends
  <2> QED
    BY <1>3, <1>11, <2>1
<1>14. Same(h, heap[f]) /\ h.stale = heap[f].stale /\ h.open = heap[f].open
  BY <1>8, <1>11 DEF Same
<1>15. /\ \A g \in Flows : CloseLast(g, ready) =>
             CloseLast(g, ready') \/ (g = f /\ ~h.open /\ NoStart(g, ready'))
       /\ \A g \in Flows : NoStart(g, ready) /\ ~heap[g].open =>
             NoStart(g, ready') /\ (g = f => ~h.open)
       /\ \A g \in Flows \ {f} : Count(ready', << "send", g >>) = Count(ready, << "send", g >>)
       /\ ready' \in Seq(Handlers) /\ \A j \in DOMAIN ready' : ready'[j][2] \in Flows
  BY <1>2, <1>14
<1> QED
  BY <1>2, <1>4, <1>11, <1>13, <1>14, <1>15, FlowStepInv

\* A send fails, and send_loop enters erase_udp_flow.
LEMMA SendFailedInv ==
  ASSUME IndInv, NEW f \in Flows, SendFailed(f)
  PROVE  IndInv'
<1> DEFINE h == [heap[f] EXCEPT !.tx = << >>, !.failed = TRUE]
<1>1. PICK i \in DOMAIN heap[f].tx :
         heap' = [heap EXCEPT ![f].tx = RemoveAt(@, i), ![f].failed = TRUE]
  BY Zenon DEF SendFailed
<1>2. /\ heap \in Seq(Flow) /\ heap[f] \in Flow
      /\ ready \in Seq(Handlers) /\ \A j \in DOMAIN ready : ready[j][2] \in Flows
      /\ UNCHANGED << udp_nat_, udp_flows_, pk, ready, stopping_, received, allocs >>
      /\ io.pc = "run" /\ ~stopping_ /\ io' = CallErase(f)
  BY FlowFacts DEF IndInv, Typed, SendFailed, IoTurn
<1>3. /\ heap[f].sending /\ ~heap[f].failed
      /\ RemoveAt(heap[f].tx, i) = << >>
      /\ Count(ready, << "send", f >>) = 0 /\ PkSends(f) = 0
  BY SendInProgress
<1>4. heap' = [heap EXCEPT ![f] = h]
  BY <1>1, <1>2, <1>3 DEF Flows
<1>5. /\ h \in Flow /\ Same(h, heap[f]) /\ h.stale = heap[f].stale /\ h.open = heap[f].open
      /\ h.tx = << >> /\ h.out = heap[f].out /\ h.pending = heap[f].pending
      /\ h.sending = heap[f].sending /\ h.failed = TRUE
      /\ h.connected = heap[f].connected /\ h.connecting = heap[f].connecting
  <2>1. << >> \in Seq([msg : Nat, ok : BOOLEAN])
    OBVIOUS
  <2> QED
    BY <1>2, <2>1 DEF Flow, Same
<1> HIDE DEF h
<1>6. /\ InSequence(heap[f]) /\ UpTo(heap[f], LastQueued)
      /\ heap[f].pending # << >> =>
            IF heap[f].connected THEN heap[f].sending ELSE heap[f].connecting
  BY DEF IndInv, SendInv, NoLostWakeup
<1>7. DOMAIN h.tx = {} /\ Len(h.tx) = 0
  BY <1>5
<1>8. InSequence(h) /\ UpTo(h, LastQueued)
  BY <1>5, <1>6, <1>7 DEF InSequence, UpTo
<1>9. heap'[f] = h
  BY <1>2, <1>4 DEF Flows
<1>10. Senders(f)' = IF h.sending /\ ~h.failed THEN 1 ELSE 0
  <2>1. Senders(f)' = Len(h.tx) + Count(ready, << "send", f >>) + PkSends(f)
    BY <1>2, <1>9 DEF Senders, Count, PkSends
  <2> QED
    BY <1>3, <1>5, <1>7, <2>1
<1>11. /\ \A g \in Flows : CloseLast(g, ready) =>
             CloseLast(g, ready') \/ (g = f /\ ~h.open /\ NoStart(g, ready'))
       /\ \A g \in Flows : NoStart(g, ready) /\ ~heap[g].open =>
             NoStart(g, ready') /\ (g = f => ~h.open)
       /\ \A g \in Flows \ {f} : Count(ready', << "send", g >>) = Count(ready, << "send", g >>)
       /\ ready' \in Seq(Handlers) /\ \A j \in DOMAIN ready' : ready'[j][2] \in Flows
  BY <1>2, <1>5
<1>12. /\ h.pending # << >> => IF h.connected THEN h.sending ELSE h.connecting
       /\ h.failed => h.sending
  BY <1>3, <1>5, <1>6
<1> QED
  BY <1>2, <1>4, <1>5, <1>8, <1>10, <1>11, <1>12, FlowStepInv

\* A handler of a flow, other than start, is added to the queue.
LEMMA PostFacts ==
  ASSUME NEW q \in Seq(Handlers), \A i \in DOMAIN q : q[i][2] \in Flows,
         NEW x \in Handlers, x[2] \in Flows, \A g : x # << "start", g >>
  PROVE  /\ Append(q, x) \in Seq(Handlers)
         /\ \A i \in DOMAIN Append(q, x) : Append(q, x)[i][2] \in Flows
         /\ \A g \in Flows : CloseLast(g, q) => CloseLast(g, Append(q, x))
         /\ \A g \in Flows : NoStart(g, q) => NoStart(g, Append(q, x))
         /\ \A g \in Flows : x = << "close", g >> => CloseLast(g, Append(q, x))
         /\ \A g \in Flows : Count(q, << "send", g >>) \in Nat
         /\ \A g \in Flows : x = << "send", g >> =>
               Count(Append(q, x), << "send", g >>) = Count(q, << "send", g >>) + 1
         /\ \A g \in Flows : x # << "send", g >> =>
               Count(Append(q, x), << "send", g >>) = Count(q, << "send", g >>)
<1>1. /\ Append(q, x) \in Seq(Handlers)
      /\ \A i \in DOMAIN Append(q, x) : Append(q, x)[i][2] \in Flows
  <2>1. /\ Append(q, x) \in Seq(Handlers)
        /\ DOMAIN Append(q, x) = DOMAIN q \cup {Len(q) + 1}
        /\ \A i \in DOMAIN q : Append(q, x)[i] = q[i]
        /\ Append(q, x)[Len(q) + 1] = x
    BY AppendFacts
  <2> QED
    BY <2>1
<1>2. \A g \in Flows : /\ CloseLast(g, q) => CloseLast(g, Append(q, x))
                       /\ NoStart(g, q) => NoStart(g, Append(q, x))
                       /\ x = << "close", g >> => CloseLast(g, Append(q, x))
  BY CloseAppend
<1>3. \A g \in Flows : Count(q, << "send", g >>) \in Nat
  BY CountType
<1>4. ASSUME NEW g \in Flows
      PROVE  Count(Append(q, x), << "send", g >>) =
                Count(q, << "send", g >>) + IF x = << "send", g >> THEN 1 ELSE 0
  BY CountAppend
<1>5. \A g \in Flows : x = << "send", g >> =>
         Count(Append(q, x), << "send", g >>) = Count(q, << "send", g >>) + 1
  BY <1>4
<1>6. \A g \in Flows : x # << "send", g >> =>
         Count(Append(q, x), << "send", g >>) = Count(q, << "send", g >>)
  BY <1>3, <1>4
<1> QED
  BY <1>1, <1>2, <1>3, <1>5, <1>6

\* The connect ends: the loops are spawned, or the flow is erased.
LEMMA ConnectDoneInv ==
  ASSUME IndInv, NEW f \in Flows, ConnectDone(f)
  PROVE  IndInv'
<1>1. /\ heap \in Seq(Flow) /\ heap[f] \in Flow /\ f \in Nat
      /\ ready \in Seq(Handlers) /\ \A j \in DOMAIN ready : ready[j][2] \in Flows
      /\ UNCHANGED << udp_nat_, udp_flows_, pk, stopping_, received, allocs >>
      /\ io.pc = "run" /\ ~stopping_
  BY FlowFacts DEF IndInv, Typed, ConnectDone, IoTurn
<1>2. ASSUME heap' = [heap EXCEPT ![f].connect = "failed"], io' = CallErase(f), UNCHANGED ready
      PROVE  IndInv'
  <2> DEFINE h == [heap[f] EXCEPT !.connect = "failed"]
  <2>1. heap' = [heap EXCEPT ![f] = h]
    BY <1>2
  <2>2. /\ h \in Flow /\ Same(h, heap[f]) /\ h.stale = heap[f].stale /\ h.open = heap[f].open
        /\ h.pending = heap[f].pending /\ h.tx = heap[f].tx /\ h.out = heap[f].out
        /\ h.sending = heap[f].sending /\ h.failed = heap[f].failed
        /\ h.connected = heap[f].connected /\ h.connecting = heap[f].connecting
    BY <1>1 DEF Flow, Same
  <2> HIDE DEF h
  <2> QED
    BY <1>1, <1>2, <2>1, <2>2, QuietStepInv
<1>3. ASSUME Connected(f), UNCHANGED io
      PROVE  IndInv'
  <2> DEFINE h == [heap[f] EXCEPT !.connect = "done", !.connected = TRUE,
                                  !.connecting = FALSE, !.sending = TRUE]
             r == IF heap[f].sending THEN ready ELSE Append(ready, << "send", f >>)
  <2>1. heap' = [heap EXCEPT ![f] = h]
    BY <1>1, <1>3 DEF Connected, Flows
  <2>2. /\ h \in Flow /\ Same(h, heap[f]) /\ h.stale = heap[f].stale /\ h.open = heap[f].open
        /\ h.pending = heap[f].pending /\ h.tx = heap[f].tx /\ h.out = heap[f].out
        /\ h.sending = TRUE /\ h.failed = heap[f].failed /\ h.connected = TRUE
    BY <1>1 DEF Flow, Same
  <2> HIDE DEF h
  <2>3. << "send", f >> \in Handlers /\ << "recv", f >> \in Handlers
    BY <1>1 DEF Handlers
  <2>4. r \in Seq(Handlers) /\ ready' = Append(r, << "recv", f >>)
    <3>1. CASE heap[f].sending
      <4>1. ready' = ready \o << >> \o << << "recv", f >> >>
        BY <1>3, <3>1 DEF Connected
      <4> QED
        BY <1>1, <2>3, <3>1, <4>1
    <3>2. CASE ~heap[f].sending
      <4>1. ready' = ready \o << << "send", f >> >> \o << << "recv", f >> >>
        BY <1>3, <3>2 DEF Connected
      <4>2. r = ready \o << << "send", f >> >> /\ r \in Seq(Handlers)
        BY <1>1, <2>3, <3>2, ConcatOne
      <4> HIDE DEF r
      <4> QED
        BY <2>3, <4>1, <4>2, ConcatOne
    <3> QED
      BY <3>1, <3>2
  <2>5. /\ \A i \in DOMAIN r : r[i][2] \in Flows
        /\ \A g \in Flows : CloseLast(g, ready) => CloseLast(g, r)
        /\ \A g \in Flows : NoStart(g, ready) => NoStart(g, r)
        /\ \A g \in Flows : Count(ready, << "send", g >>) \in Nat
        /\ \A g \in Flows : Count(r, << "send", g >>) =
              Count(ready, << "send", g >>) + IF ~heap[f].sending /\ g = f THEN 1 ELSE 0
    <3>1. CASE heap[f].sending
      <4>1. r = ready
        BY <3>1
      <4>2. \A g \in Flows : Count(ready, << "send", g >>) \in Nat
        BY <1>1, CountType
      <4> QED
        BY <1>1, <3>1, <4>1, <4>2
    <3>2. CASE ~heap[f].sending
      <4>1. r = Append(ready, << "send", f >>)
        BY <3>2
      <4> HIDE DEF r
      <4>2. /\ \A i \in DOMAIN r : r[i][2] \in Flows
            /\ \A g \in Flows : CloseLast(g, ready) => CloseLast(g, r)
            /\ \A g \in Flows : NoStart(g, ready) => NoStart(g, r)
            /\ \A g \in Flows : Count(ready, << "send", g >>) \in Nat
            /\ Count(r, << "send", f >>) = Count(ready, << "send", f >>) + 1
            /\ \A g \in Flows : g # f => Count(r, << "send", g >>) = Count(ready, << "send", g >>)
        <5> DEFINE x == << "send", f >>
        <5>1. /\ x \in Handlers /\ x[2] \in Flows /\ \A g : x # << "start", g >>
              /\ \A g : x = << "send", g >> <=> g = f
          BY <2>3
        <5>2. r = Append(ready, x)
          BY <4>1
        <5> HIDE DEF x
        <5>3. /\ ready \in Seq(Handlers) /\ \A i \in DOMAIN ready : ready[i][2] \in Flows
          BY <1>1
        <5>4. /\ \A i \in DOMAIN r : r[i][2] \in Flows
              /\ \A g \in Flows : CloseLast(g, ready) => CloseLast(g, r)
              /\ \A g \in Flows : NoStart(g, ready) => NoStart(g, r)
              /\ \A g \in Flows : Count(ready, << "send", g >>) \in Nat
          BY <5>1, <5>2, <5>3, PostFacts
        <5>5. /\ \A g \in Flows : x = << "send", g >> =>
                    Count(r, << "send", g >>) = Count(ready, << "send", g >>) + 1
              /\ \A g \in Flows : x # << "send", g >> =>
                    Count(r, << "send", g >>) = Count(ready, << "send", g >>)
          BY <5>1, <5>2, <5>3, PostFacts
        <5> QED
          BY <5>1, <5>4, <5>5
      <4> QED
        BY <3>2, <4>2
    <3> QED
      BY <3>1, <3>2
  <2> HIDE DEF r
  <2>6. /\ ready' \in Seq(Handlers) /\ \A i \in DOMAIN ready' : ready'[i][2] \in Flows
        /\ \A g \in Flows : CloseLast(g, r) => CloseLast(g, ready')
        /\ \A g \in Flows : NoStart(g, r) => NoStart(g, ready')
        /\ \A g \in Flows : Count(r, << "send", g >>) \in Nat
        /\ \A g \in Flows : Count(ready', << "send", g >>) = Count(r, << "send", g >>)
    <3>1. /\ \A g \in Flows : Count(r, << "send", g >>) \in Nat
          /\ \A g \in Flows : Count(ready', << "send", g >>) = Count(r, << "send", g >>)
          /\ ready' \in Seq(Handlers) /\ \A i \in DOMAIN ready' : ready'[i][2] \in Flows
          /\ \A g \in Flows : CloseLast(g, r) => CloseLast(g, ready')
          /\ \A g \in Flows : NoStart(g, r) => NoStart(g, ready')
      <4> DEFINE x == << "recv", f >>
      <4>1. /\ x \in Handlers /\ x[2] \in Flows /\ \A g : x # << "start", g >>
            /\ \A g : x # << "send", g >>
        BY <2>3
      <4>2. ready' = Append(r, x)
        BY <2>4
      <4> HIDE DEF x
      <4>3. r \in Seq(Handlers) /\ \A i \in DOMAIN r : r[i][2] \in Flows
        BY <2>4, <2>5
      <4>4. /\ ready' \in Seq(Handlers) /\ \A i \in DOMAIN ready' : ready'[i][2] \in Flows
            /\ \A g \in Flows : CloseLast(g, r) => CloseLast(g, ready')
            /\ \A g \in Flows : NoStart(g, r) => NoStart(g, ready')
            /\ \A g \in Flows : Count(r, << "send", g >>) \in Nat
        BY <4>1, <4>2, <4>3, PostFacts
      <4>5. \A g \in Flows : x # << "send", g >> =>
               Count(ready', << "send", g >>) = Count(r, << "send", g >>)
        BY <4>1, <4>2, <4>3, PostFacts
      <4> QED
        BY <4>1, <4>4, <4>5
    <3> QED
      BY <3>1
  <2>7. InSequence(h) /\ UpTo(h, LastQueued) /\ (h.failed => h.sending)
        /\ (heap[f].failed => heap[f].sending)
    BY <2>2 DEF IndInv, SendInv, InSequence, UpTo
  <2>8. heap'[f] = h
    BY <1>1, <2>1 DEF Flows
  <2>9. Senders(f)' = IF h.sending /\ ~h.failed THEN 1 ELSE 0
    <3>1. Senders(f)' = Len(h.tx) + Count(ready', << "send", f >>) + PkSends(f)
      BY <1>1, <2>8 DEF Senders, Count, PkSends
    <3>2. /\ Len(h.tx) \in Nat /\ Count(ready, << "send", f >>) \in Nat
          /\ PkSends(f) \in {0, 1}
          /\ Len(h.tx) + Count(ready, << "send", f >>) + PkSends(f)
               = IF heap[f].sending /\ ~heap[f].failed THEN 1 ELSE 0
      BY <2>2, SendersFacts
    <3>3. CASE heap[f].sending
      BY <2>2, <2>5, <2>6, <3>1, <3>2, <3>3
    <3>4. CASE ~heap[f].sending
      <4>1. Count(ready', << "send", f >>) = Count(ready, << "send", f >>) + 1
        BY <2>5, <2>6, <3>4
      <4>2. h.sending /\ ~h.failed
        BY <2>2, <2>7, <3>4
      <4>3. Len(h.tx) + Count(ready, << "send", f >>) + PkSends(f) = 0
        BY <3>2, <3>4
      <4> QED
        BY <3>1, <3>2, <4>1, <4>2, <4>3
    <3> QED
      BY <3>3, <3>4
  <2>10. /\ \A g \in Flows : CloseLast(g, ready) =>
               CloseLast(g, ready') \/ (g = f /\ ~h.open /\ NoStart(g, ready'))
         /\ \A g \in Flows : NoStart(g, ready) /\ ~heap[g].open =>
               NoStart(g, ready') /\ (g = f => ~h.open)
         /\ \A g \in Flows \ {f} : Count(ready', << "send", g >>) = Count(ready, << "send", g >>)
         /\ h.pending # << >> => IF h.connected THEN h.sending ELSE h.connecting
    BY <2>2, <2>5, <2>6
  <2> QED
    BY <1>1, <1>3, <2>1, <2>2, <2>6, <2>7, <2>9, <2>10, FlowStepInv
<1> QED
  BY <1>2, <1>3 DEF ConnectDone

-----------------------------------------------------------------------------
(***************************************************************************)
(* The packet thread.                                                      *)
(***************************************************************************)

SameQueue(h, k) ==
    /\ h.pending = k.pending /\ h.tx = k.tx /\ h.out = k.out
    /\ h.sending = k.sending /\ h.failed = k.failed
    /\ h.connected = k.connected /\ h.connecting = k.connecting

\* What is no newer than m is no newer than anything from m on.
LEMMA UpToMore ==
  ASSUME NEW h \in Flow, NEW m \in Int, NEW n \in Int, m <= n, UpTo(h, m)
  PROVE  UpTo(h, n)
<1>1. /\ h.out \in Seq(Nat) /\ h.pending \in Seq(Nat)
      /\ h.tx \in Seq([msg : Nat, ok : BOOLEAN])
  BY DEF Flow
<1>2. /\ \A i \in DOMAIN h.out : h.out[i] \in Nat
      /\ \A i \in DOMAIN h.pending : h.pending[i] \in Nat
      /\ \A i \in DOMAIN h.tx : h.tx[i].msg \in Nat
  <2> DEFINE R == [msg : Nat, ok : BOOLEAN]
  <2>1. \A r \in R : r.msg \in Nat
    OBVIOUS
  <2>2. h.tx \in Seq(R)
    BY <1>1
  <2> HIDE DEF R
  <2>3. \A i \in DOMAIN h.tx : h.tx[i] \in R
    BY <2>2
  <2> QED
    BY <1>1, <2>1, <2>3
<1> QED
  BY <1>2 DEF UpTo

\* Steps that leave the datagrams and the senders of every flow alone.
LEMMA SendKept ==
  ASSUME IndInv, Flows' = Flows, \A g \in Flows : SameQueue(heap'[g], heap[g]),
         \A g \in Flows : Count(ready', << "send", g >>) + PkSends(g)'
                            = Count(ready, << "send", g >>) + PkSends(g),
         \A g \in Flows : Count(ready', << "send", g >>) \in Nat,
         LastQueued' \in Int, LastQueued <= LastQueued'
  PROVE  SendInv'
<1>1. ASSUME NEW g \in Flows PROVE Senders(g)' = Senders(g)
  <2>1. Senders(g)' = Len(heap'[g].tx) + Count(ready', << "send", g >>) + PkSends(g)'
    BY DEF Senders, Count, PkSends
  <2>2. Senders(g) = Len(heap[g].tx) + Count(ready, << "send", g >>) + PkSends(g)
    BY DEF Senders, Count, PkSends
  <2>3. /\ Len(heap[g].tx) \in Nat /\ Count(ready, << "send", g >>) \in Nat
        /\ PkSends(g) \in {0, 1}
    BY SendersFacts
  <2>4. PkSends(g)' \in {0, 1}
    BY DEF PkSends
  <2>5. heap'[g].tx = heap[g].tx
    BY DEF SameQueue
  <2> DEFINE L == Len(heap[g].tx)
             C == Count(ready, << "send", g >>)
             D == Count(ready', << "send", g >>)
             P == PkSends(g)
             Q == PkSends(g)'
  <2>6. /\ L \in Nat /\ C \in Nat /\ D \in Nat /\ P \in Nat /\ Q \in Nat /\ D + Q = C + P
        /\ Senders(g)' = L + D + Q /\ Senders(g) = L + C + P
    BY <2>1, <2>2, <2>3, <2>4, <2>5
  <2> HIDE DEF L, C, D, P, Q
  <2> QED
    BY <2>6
<1>2. OneSender'
  BY <1>1 DEF OneSender, SameQueue, IndInv, SendInv
<1>3. NoLostWakeup'
  BY DEF NoLostWakeup, SameQueue, IndInv, SendInv
<1>4. ASSUME NEW g \in Flows
      PROVE  /\ heap'[g].failed => heap'[g].sending
             /\ InSequence(heap'[g]) /\ UpTo(heap'[g], LastQueued')
  <2>1. /\ heap[g].failed => heap[g].sending
        /\ InSequence(heap[g]) /\ UpTo(heap[g], LastQueued) /\ heap[g] \in Flow
    BY FlowFacts DEF IndInv, SendInv
  <2>2. UpTo(heap[g], LastQueued')
    BY <2>1, LastQueuedInt, UpToMore
  <2>3. SameQueue(heap'[g], heap[g])
    OBVIOUS
  <2> QED
    BY <2>1, <2>2, <2>3 DEF SameQueue, InSequence, UpTo
<1> QED
  BY <1>2, <1>3, <1>4 DEF SendInv

\* A flow out of udp_flows_ stays closed, or on the way to it.
LEMMA ClosingKept ==
  ASSUME IndInv, Flows' = Flows, stopping_' = stopping_,
         \A g \in Flows : ~InMap(g)' /\ ~heap'[g].stale =>
            \/ ~PacketThreadHolds(g)' /\ CloseComing(g)'
            \/ /\ ~InMap(g) /\ ~heap[g].stale
               /\ ~PacketThreadHolds(g) => ~PacketThreadHolds(g)'
               /\ CloseComing(g) => CloseComing(g)' \/ CloseLast(g, ready')
               /\ ~PacketThreadHolds(g) /\ CloseLast(g, ready) => CloseLast(g, ready')
               /\ ~PacketThreadHolds(g) /\ Closed(g) => Closed(g)'
  PROVE  Closing'
<1> SUFFICES ASSUME ~stopping_, NEW g \in Flows, ~InMap(g)', ~heap'[g].stale
             PROVE  /\ ~PacketThreadHolds(g)'
                    /\ CloseComing(g)' \/ CloseLast(g, ready') \/ Closed(g)'
  BY DEF Closing
<1>1. ~InMap(g) /\ ~heap[g].stale =>
         ~PacketThreadHolds(g) /\ (CloseComing(g) \/ CloseLast(g, ready) \/ Closed(g))
  BY DEF IndInv, Closing
<1> QED
  BY <1>1, Zenon

\* Without a change of the queue the counts stay.
LEMMA QueueKept ==
  ASSUME IndInv, UNCHANGED ready
  PROVE  \A g \in Flows : /\ Count(ready', << "send", g >>) \in Nat
                          /\ Count(ready', << "send", g >>) = Count(ready, << "send", g >>)
BY SendersFacts

\* The packet thread drops the datagram, goes on to the flow, or exits.
LEMMA LookupSessionInv ==
  ASSUME IndInv, LookupSession \/ PacketExit
  PROVE  IndInv'
<1>1. /\ UNCHANGED << udp_nat_, udp_flows_, heap, io, ready, stopping_, received, allocs >>
      /\ Flows' = Flows
      /\ Typed /\ PkTyped /\ IoTyped /\ PortInv /\ Closing /\ SendInv
  BY DEF IndInv, LookupSession, PacketExit, Flows
<1>2. /\ pk.pc \in {"lookup_back", "receive"}
      /\ \/ pk'.pc \in {"receive", "exited"}
         \/ /\ pk.pc = "lookup_back" /\ udp_nat_.reverse[pk.nat_port] # NoKey
            /\ pk' = [pc |-> "flow", key |-> pk.key, msg |-> pk.msg,
                      nat_port |-> pk.nat_port, session |-> udp_nat_.reverse[pk.nat_port]]
  BY DEF LookupSession, PacketExit, PkIdle, lookup_back
<1>3. Typed' /\ IoTyped'
  BY <1>1 DEF Typed, IoTyped
<1>4. CASE pk'.pc \in {"receive", "exited"}
  <2>1. PkTyped'
    BY <1>4 DEF PkTyped, Carries, HasPort
  <2>2. PortInv'
    BY <1>1, <1>2, <1>4, PortsKept DEF Same
  <2>3. Closing'
    BY <1>1, <1>2, <1>4, ClosingKept DEF InMap, PacketThreadHolds, CloseComing, Closed
  <2>4. \A g \in Flows : PkSends(g)' = PkSends(g)
    BY <1>2, <1>4 DEF PkSends
  <2>5. LastQueued' \in Int /\ LastQueued <= LastQueued'
    BY <1>1, <1>4 DEF LastQueued, Carries, Typed
  <2>6. SendInv'
    BY <1>1, <2>4, <2>5, QueueKept, SendKept DEF SameQueue
  <2> QED
    BY <1>3, <2>1, <2>2, <2>3, <2>6 DEF IndInv
<1>5. CASE pk'.pc \notin {"receive", "exited"}
  <2>1. /\ pk.pc = "lookup_back" /\ udp_nat_.reverse[pk.nat_port] # NoKey
        /\ pk'.pc = "flow" /\ pk'.key = pk.key /\ pk'.msg = pk.msg
        /\ pk'.nat_port = pk.nat_port /\ pk'.session = udp_nat_.reverse[pk.nat_port]
    BY <1>2, <1>5
  <2>2. HasPort /\ HasPort' /\ Carries /\ Carries'
    BY <2>1 DEF HasPort, Carries
  <2>3. PkTyped'
    BY <1>1, <2>1, <2>2 DEF PkTyped, PortInv, InHand
  <2>4. \A g \in Flows : (InMap(g)' <=> InMap(g)) /\ (Renewed(g)' <=> Renewed(g))
    BY <1>1 DEF InMap, Renewed
  <2>5. PortInv'
    <3>1. Owner' /\ RacedSince' /\ Successors' /\ TearsDownOwnFlow'
      BY <1>1, <2>4 DEF PortInv, Owner, RacedSince, Successors, TearsDownOwnFlow
    <3>2. InHand'
      BY <1>1, <2>1, <2>2, <2>4 DEF PortInv, InHand
    <3>3. Detached'
      BY <1>1, <2>1, <2>4 DEF PortInv, Detached
    <3>4. MisdeliveryNeedsPortReuse' /\ FlowsHaveSessions'
      BY <1>1, <2>1, <2>4 DEF PortInv, MisdeliveryNeedsPortReuse, FlowsHaveSessions
    <3> QED
      BY <3>1, <3>2, <3>3, <3>4 DEF PortInv
  <2>6. Closing'
    BY <1>1, <2>1, ClosingKept DEF InMap, PacketThreadHolds, CloseComing, Closed
  <2>7. \A g \in Flows : PkSends(g)' = PkSends(g)
    BY <2>1 DEF PkSends
  <2>8. LastQueued' \in Int /\ LastQueued <= LastQueued'
    BY <1>1, <2>2 DEF LastQueued, Typed
  <2>9. SendInv'
    BY <1>1, <2>7, <2>8, QueueKept, SendKept DEF SameQueue
  <2> QED
    BY <1>3, <2>3, <2>5, <2>6, <2>9 DEF IndInv
<1> QED
  BY <1>4, <1>5

\* The packet thread posts start or send_loop.
LEMMA SpawnInv ==
  ASSUME IndInv, Spawn
  PROVE  IndInv'
<1> DEFINE f == pk.flow
           x == << pk.spawn, f >>
<1>1. /\ UNCHANGED << udp_nat_, udp_flows_, heap, io, stopping_, received, allocs >>
      /\ Flows' = Flows
      /\ Typed /\ PkTyped /\ IoTyped /\ PortInv /\ Closing /\ SendInv
      /\ pk.pc = "spawn" /\ pk'.pc = "receive" /\ ready' = Append(ready, x)
      /\ f \in Flows /\ pk.spawn \in {"start", "send"}
  BY DEF IndInv, Spawn, Flows, PkTyped, PkIdle
<1>2. /\ x \in Handlers /\ x[2] = f
      /\ \A g : x = << "start", g >> => g = f
      /\ \A g : x = << "send", g >> <=> g = f /\ pk.spawn = "send"
  BY <1>1, FlowFacts DEF Handlers
<1> HIDE DEF x
<1>3. /\ ready' \in Seq(Handlers)
      /\ DOMAIN ready' = DOMAIN ready \cup {Len(ready) + 1}
      /\ \A i \in DOMAIN ready : ready'[i] = ready[i]
      /\ ready'[Len(ready) + 1] = x
  BY <1>1, <1>2, AppendFacts DEF Typed
<1>4. Typed'
  <2>1. \A i \in DOMAIN ready' : ready'[i][2] \in Flows
    BY <1>1, <1>2, <1>3 DEF Typed
  <2> QED
    BY <1>1, <1>3, <2>1 DEF Typed
<1>5. PkTyped' /\ IoTyped'
  BY <1>1 DEF PkTyped, IoTyped, Carries, HasPort
<1>6. PortInv'
  BY <1>1, PortsKept DEF Same
<1>7. ASSUME NEW g \in Flows, g # f
      PROVE  /\ CloseLast(g, ready) => CloseLast(g, ready')
             /\ NoStart(g, ready) => NoStart(g, ready')
  <2>1. ready \in Seq(Handlers) /\ x # << "start", g >>
    BY <1>1, <1>2, <1>7 DEF Typed
  <2> QED
    BY <1>1, <1>2, <2>1, CloseAppend
<1>8. Closing'
  <2>1. ASSUME NEW g \in Flows
        PROVE  /\ ~PacketThreadHolds(g)'
               /\ CloseComing(g) => CloseComing(g)'
               /\ ~PacketThreadHolds(g) => g # f
    BY <1>1 DEF PacketThreadHolds, CloseComing
  <2> QED
    BY <1>1, <1>7, <2>1, ClosingKept DEF InMap, Closed
<1>9. ASSUME NEW g \in Flows
      PROVE  /\ Count(ready', << "send", g >>) \in Nat
             /\ Count(ready', << "send", g >>) + PkSends(g)'
                  = Count(ready, << "send", g >>) + PkSends(g)
  <2>1. Count(ready', << "send", g >>) =
          Count(ready, << "send", g >>) + IF x = << "send", g >> THEN 1 ELSE 0
    <3>1. ready \in Seq(Handlers) /\ x \in Handlers
      BY <1>1, <1>2 DEF Typed
    <3>2. Count(Append(ready, x), << "send", g >>) =
            Count(ready, << "send", g >>) + IF x = << "send", g >> THEN 1 ELSE 0
      BY <3>1, CountAppend
    <3> QED
      BY <1>1, <3>2
  <2>2. Count(ready, << "send", g >>) \in Nat
    BY SendersFacts
  <2>3. PkSends(g)' = 0 /\ PkSends(g) = IF x = << "send", g >> THEN 1 ELSE 0
    BY <1>1, <1>2 DEF PkSends
  <2> QED
    BY <2>1, <2>2, <2>3
<1>10. LastQueued' \in Int /\ LastQueued <= LastQueued'
  BY <1>1 DEF LastQueued, Carries, Typed
<1>11. SendInv'
  BY <1>1, <1>9, <1>10, SendKept DEF SameQueue
<1> QED
  BY <1>4, <1>5, <1>6, <1>8, <1>11 DEF IndInv

\* enqueue queues the datagram and decides whether to spawn.
LEMMA EnqueueInv ==
  ASSUME IndInv, Enqueue
  PROVE  IndInv'
<1> DEFINE f == pk.flow
           spawn == WhatToSpawn(heap[f])
           c == heap[f].connecting \/ spawn = "start"
           d == heap[f].sending \/ spawn = "send"
           q == Append(heap[f].pending, pk.msg)
           h == [heap[f] EXCEPT !.pending = q, !.connecting = c, !.sending = d]
<1>1. /\ UNCHANGED << udp_nat_, udp_flows_, io, ready, stopping_, received, allocs >>
      /\ Typed /\ PkTyped /\ IoTyped /\ PortInv /\ Closing /\ SendInv
      /\ pk.pc = "enqueue" /\ f \in Flows /\ pk.msg = received /\ received \in Nat
      /\ heap \in Seq(Flow) /\ heap[f] \in Flow
      /\ Carries /\ LastQueued = received - 1
  BY FlowFacts DEF IndInv, Enqueue, PkTyped, Carries, Typed, LastQueued
<1>2. /\ heap[f].connecting \in BOOLEAN /\ heap[f].sending \in BOOLEAN
      /\ heap[f].connected \in BOOLEAN
      /\ heap[f].pending \in Seq(Nat) /\ heap[f].out \in Seq(Nat)
  BY <1>1 DEF Flow
<1>3. heap' = [heap EXCEPT ![f] = h]
  BY <1>1 DEF Enqueue, Flow
<1>4. \/ /\ pk'.pc = "spawn" /\ pk'.flow = f /\ pk'.spawn = spawn
         /\ spawn \in {"start", "send"}
      \/ pk'.pc = "receive" /\ spawn = "none"
  BY DEF Enqueue, PkIdle, WhatToSpawn
<1>5. /\ spawn = "start" => ~heap[f].connected
      /\ spawn = "send" => heap[f].connected /\ ~heap[f].sending
      /\ spawn = "none" => IF heap[f].connected THEN heap[f].sending ELSE heap[f].connecting
  BY <1>2 DEF WhatToSpawn
<1> HIDE DEF spawn
<1>6. c \in BOOLEAN /\ d \in BOOLEAN
  BY <1>2
<1>7. /\ q \in Seq(Nat) /\ Len(heap[f].pending) \in Nat
      /\ DOMAIN heap[f].pending = 1 .. Len(heap[f].pending)
      /\ DOMAIN q = DOMAIN heap[f].pending \cup {Len(heap[f].pending) + 1}
      /\ \A i \in DOMAIN heap[f].pending : q[i] = heap[f].pending[i]
      /\ q[Len(heap[f].pending) + 1] = received
  <2> DEFINE w == heap[f].pending
  <2>1. w \in Seq(Nat) /\ received \in Nat
    BY <1>1, <1>2
  <2>2. q = Append(w, received)
    BY <1>1
  <2> HIDE DEF w, q
  <2>3. /\ q \in Seq(Nat) /\ Len(w) \in Nat /\ DOMAIN w = 1 .. Len(w)
        /\ DOMAIN q = DOMAIN w \cup {Len(w) + 1}
        /\ \A i \in DOMAIN w : q[i] = w[i]
        /\ q[Len(w) + 1] = received
    BY <2>1, <2>2, AppendFacts
  <2> QED
    BY <2>3 DEF w
<1>8. c <=> heap[f].connecting \/ spawn = "start"
  OBVIOUS
<1>9. d <=> heap[f].sending \/ spawn = "send"
  OBVIOUS
<1> HIDE DEF c, d, q
<1>10. /\ h \in Flow /\ Same(h, heap[f]) /\ h.stale = heap[f].stale /\ h.open = heap[f].open
       /\ h.pending = q /\ h.tx = heap[f].tx /\ h.out = heap[f].out
       /\ h.sending = d /\ h.failed = heap[f].failed
       /\ h.connected = heap[f].connected /\ h.connecting = c
  BY <1>1, <1>6, <1>7 DEF Flow, Same
<1> HIDE DEF h
<1>11. /\ heap' \in Seq(Flow) /\ Flows' = Flows
       /\ \A g \in Flows : heap'[g] = IF g = f THEN h ELSE heap[g]
  BY <1>1, <1>3, <1>10, HeapUpdate
<1>12. \A g \in Flows : /\ Same(heap'[g], heap[g]) /\ heap'[g].stale = heap[g].stale
                        /\ heap'[g].open = heap[g].open
  BY <1>10, <1>11 DEF Same
<1>13. Typed'
  <2>1. \A p \in Ports : udp_flows_[p] # NoFlow =>
           udp_flows_[p] \in Flows /\ heap'[udp_flows_[p]].port = p
    BY <1>1, <1>12 DEF Typed, Same
  <2>2. \A i \in DOMAIN ready : ready[i][2] \in Flows
    BY <1>1 DEF Typed
  <2> QED
    BY <1>1, <1>11, <2>1, <2>2 DEF Typed
<1>14. PkTyped'
  BY <1>1, <1>4, <1>11 DEF PkTyped, Carries, HasPort
<1>15. IoTyped'
  BY <1>1, <1>11, <1>12 DEF IoTyped, Same
<1>16. PortInv'
  BY <1>1, <1>4, <1>11, <1>12, PortsKept
<1>17. Closing'
  <2>1. ASSUME NEW g \in Flows
        PROVE  /\ ~PacketThreadHolds(g) => ~PacketThreadHolds(g)'
               /\ CloseComing(g) => CloseComing(g)'
    BY <1>1, <1>4 DEF PacketThreadHolds, CloseComing
  <2>2. \A g \in Flows : (InMap(g)' <=> InMap(g)) /\ (Closed(g) => Closed(g)')
    BY <1>1, <1>12 DEF InMap, Closed, Same
  <2> QED
    BY <1>1, <1>11, <1>12, <2>1, <2>2, ClosingKept
<1>18. LastQueued' = received /\ \A g \in Flows : PkSends(g) = 0
  BY <1>1, <1>4 DEF LastQueued, Carries, PkSends
<1>19. ASSUME NEW g \in Flows
       PROVE  Senders(g)' = IF heap'[g].sending /\ ~heap'[g].failed THEN 1 ELSE 0
  <2>1. Senders(g)' = Len(heap'[g].tx) + Count(ready, << "send", g >>) + PkSends(g)'
    BY <1>1 DEF Senders, Count, PkSends
  <2>2. /\ Len(heap[g].tx) \in Nat /\ Count(ready, << "send", g >>) \in Nat
        /\ Len(heap[g].tx) + Count(ready, << "send", g >>)
             = IF heap[g].sending /\ ~heap[g].failed THEN 1 ELSE 0
    BY <1>18, SendersFacts
  <2>3. heap'[g].tx = heap[g].tx
    BY <1>10, <1>11
  <2>4. CASE g = f /\ spawn = "send"
    <3>1. ~heap[f].sending /\ ~heap[f].failed
      BY <1>1, <1>5, <2>4 DEF SendInv
    <3>2. PkSends(g)' = 1
      BY <1>4, <2>4 DEF PkSends
    <3>3. heap'[g].sending /\ ~heap'[g].failed
      BY <1>9, <1>10, <1>11, <2>4, <3>1
    <3> QED
      BY <2>1, <2>2, <2>3, <2>4, <3>1, <3>2, <3>3
  <2>5. CASE ~(g = f /\ spawn = "send")
    <3>1. PkSends(g)' = 0
      BY <1>4, <2>5 DEF PkSends
    <3>2. /\ heap'[g].sending <=> heap[g].sending
          /\ heap'[g].failed = heap[g].failed
      BY <1>9, <1>10, <1>11, <2>5
    <3> QED
      BY <2>1, <2>2, <2>3, <3>1, <3>2
  <2> QED
    BY <2>4, <2>5
<1>20. /\ h.pending # << >> => IF h.connected THEN h.sending ELSE h.connecting
       /\ h.failed => h.sending
  BY <1>1, <1>4, <1>5, <1>8, <1>9, <1>10 DEF SendInv
<1>21. InSequence(h) /\ UpTo(h, received)
  <2> DEFINE n == Len(heap[f].pending) + 1
  <2>0. InSequence(heap[f]) /\ UpTo(heap[f], received - 1)
    BY <1>1 DEF SendInv
  <2>1. /\ \A i \in DOMAIN heap[f].out : heap[f].out[i] \in Nat /\ heap[f].out[i] < received
        /\ \A i \in DOMAIN heap[f].pending :
              heap[f].pending[i] \in Nat /\ heap[f].pending[i] < received
    <3>1. /\ \A i \in DOMAIN heap[f].out : heap[f].out[i] \in Nat
          /\ \A i \in DOMAIN heap[f].pending : heap[f].pending[i] \in Nat
      BY <1>2
    <3>2. /\ \A i \in DOMAIN heap[f].out : heap[f].out[i] <= received - 1
          /\ \A i \in DOMAIN heap[f].pending : heap[f].pending[i] <= received - 1
      BY <2>0 DEF UpTo
    <3>3. \A x \in Nat : x <= received - 1 => x < received
      BY <1>1
    <3> QED
      BY <3>1, <3>2, <3>3
  <2>2. \A i \in DOMAIN heap[f].tx : heap[f].tx[i].msg \in Nat /\ heap[f].tx[i].msg < received
    <3> SUFFICES ASSUME NEW i \in DOMAIN heap[f].tx
                 PROVE  heap[f].tx[i].msg \in Nat /\ heap[f].tx[i].msg < received
      OBVIOUS
    <3>1. heap[f].tx[i].msg \in Nat
      BY <1>1, SendInProgress
    <3> QED
      BY <1>1, <2>0, <3>1 DEF UpTo
  <2>3. \A i, j \in DOMAIN q : i < j => q[i] < q[j]
    <3>1. PICK w \in Seq(Nat) : w = heap[f].pending
      BY <1>2
    <3>2. q = Append(w, received)
      BY <1>1, <3>1 DEF q
    <3>3. /\ \A i, j \in DOMAIN w : i < j => w[i] < w[j]
          /\ \A i \in DOMAIN w : w[i] < received
      BY <2>0, <2>1, <3>1 DEF InSequence
    <3>4. received \in Nat
      BY <1>1
    <3> QED
      BY <3>2, <3>3, <3>4, AppendInOrder
  <2>4. \A i \in DOMAIN heap[f].out, j \in DOMAIN q : heap[f].out[i] < q[j]
    BY <1>7, <2>0, <2>1 DEF InSequence
  <2>5. \A i \in DOMAIN heap[f].tx : \A j \in DOMAIN q : heap[f].tx[i].msg < q[j]
    BY <1>7, <2>0, <2>2 DEF InSequence
  <2>6. InSequence(h)
    BY <1>10, <2>0, <2>3, <2>4, <2>5 DEF InSequence
  <2>7. UpTo(h, received)
    <3>1. \A x \in Nat : x < received \/ x = received => x <= received
      BY <1>1
    <3>2. \A i \in DOMAIN q : q[i] \in Nat /\ (q[i] < received \/ q[i] = received)
      BY <1>1, <1>7, <2>1
    <3>3. \A i \in DOMAIN q : q[i] <= received
      BY <3>1, <3>2
    <3>4. /\ \A i \in DOMAIN heap[f].out : heap[f].out[i] <= received
          /\ \A i \in DOMAIN heap[f].tx : heap[f].tx[i].msg <= received
      BY <2>1, <2>2, <3>1
    <3> QED
      BY <1>10, <3>3, <3>4 DEF UpTo
  <2> QED
    BY <2>6, <2>7
<1>22. SendInv'
  <2>1. OneSender'
    BY <1>11, <1>19 DEF OneSender
  <2>2. NoLostWakeup'
    BY <1>1, <1>11, <1>20 DEF NoLostWakeup, SendInv
  <2>3. ASSUME NEW g \in Flows
        PROVE  /\ heap'[g].failed => heap'[g].sending
               /\ InSequence(heap'[g]) /\ UpTo(heap'[g], received)
    <3>1. CASE g = f
      BY <1>11, <1>20, <1>21, <3>1
    <3>2. CASE g # f
      <4>1. heap'[g] = heap[g] /\ heap[g] \in Flow /\ UpTo(heap[g], received - 1)
        BY <1>1, <1>11, <3>2, FlowFacts DEF SendInv
      <4>2. UpTo(heap[g], received)
        BY <1>1, <4>1, UpToMore
      <4> QED
        BY <1>1, <4>1, <4>2 DEF SendInv
    <3> QED
      BY <3>1, <3>2
  <2> QED
    BY <1>11, <1>18, <2>1, <2>2, <2>3 DEF SendInv
<1> QED
  BY <1>13, <1>14, <1>15, <1>16, <1>17, <1>22 DEF IndInv

\* The packet thread finds the flow of its port, or creates it.
LEMMA FindFlowInv ==
  ASSUME IndInv, FindFlow
  PROVE  IndInv'
<1> DEFINE p == pk.nat_port
<1>1. /\ UNCHANGED << udp_nat_, io, ready, stopping_, received, allocs >>
      /\ Typed /\ PkTyped /\ IoTyped /\ PortInv /\ Closing /\ SendInv
      /\ pk.pc = "flow" /\ p \in Ports /\ pk.key \in FlowKeys /\ pk.msg = received
      /\ pk.session = pk.key /\ received \in Nat
      /\ heap \in Seq(Flow) /\ HasPort /\ Carries /\ pk.key # NoKey
  BY NatTableAssumption DEF IndInv, FindFlow, PkTyped, Carries, HasPort, Typed
<1>2. ASSUME pk' = [pc |-> "enqueue", key |-> pk.key, msg |-> pk.msg, flow |-> udp_flows_[p]],
             udp_flows_[p] # NoFlow, UNCHANGED << udp_flows_, heap >>
      PROVE  IndInv'
  <2>1. /\ pk'.pc = "enqueue" /\ pk'.key = pk.key /\ pk'.msg = pk.msg
        /\ pk'.flow = udp_flows_[p] /\ Flows' = Flows
    BY <1>2 DEF Flows
  <2>2. pk'.flow \in Flows /\ heap[pk'.flow].port = p
    BY <1>1, <1>2, <2>1 DEF Typed
  <2>3. Typed' /\ IoTyped'
    BY <1>1, <1>2, <2>1 DEF Typed, IoTyped
  <2>4. PkTyped'
    BY <1>1, <2>1, <2>2 DEF PkTyped, Carries, HasPort
  <2>5. PortInv'
    <3>1. \A g \in Flows : (InMap(g)' <=> InMap(g)) /\ (Renewed(g)' <=> Renewed(g))
      BY <1>1, <1>2 DEF InMap, Renewed
    <3>2. Owner' /\ RacedSince' /\ Successors' /\ TearsDownOwnFlow'
      BY <1>1, <1>2, <2>1, <3>1
         DEF PortInv, Owner, RacedSince, Successors, TearsDownOwnFlow
    <3>3. InHand'
      BY <2>1 DEF InHand, HasPort
    <3>4. Detached' /\ FlowsHaveSessions'
      BY <1>1, <1>2, <2>1, <3>1 DEF PortInv, Detached, FlowsHaveSessions
    <3>5. MisdeliveryNeedsPortReuse'
      BY <1>1, <1>2, <2>1, <2>2 DEF PortInv, InHand, Renewed, MisdeliveryNeedsPortReuse
    <3> QED
      BY <3>2, <3>3, <3>4, <3>5 DEF PortInv
  <2>6. Closing'
    <3>1. ASSUME NEW g \in Flows, ~InMap(g)'
          PROVE  /\ ~InMap(g) /\ ~PacketThreadHolds(g)'
                 /\ CloseComing(g) => CloseComing(g)'
                 /\ Closed(g) => Closed(g)'
      BY <1>1, <1>2, <2>1, <2>2, <3>1 DEF InMap, PacketThreadHolds, CloseComing, Closed
    <3> QED
      BY <1>1, <1>2, <2>1, <3>1, ClosingKept
  <2>7. \A g \in Flows : PkSends(g)' = PkSends(g)
    BY <1>1, <2>1 DEF PkSends
  <2>8. LastQueued' \in Int /\ LastQueued <= LastQueued'
    BY <1>1, <2>1 DEF LastQueued, Carries
  <2>9. SendInv'
    BY <1>1, <1>2, <2>1, <2>7, <2>8, QueueKept, SendKept DEF SameQueue
  <2> QED
    BY <2>3, <2>4, <2>5, <2>6, <2>9 DEF IndInv
<1>3. ASSUME udp_flows_[p] = NoFlow,
             heap' = Append(heap, NewFlow(p, pk.session)),
             udp_flows_' = [udp_flows_ EXCEPT ![p] = Len(heap) + 1],
             pk' = [pc |-> "enqueue", key |-> pk.key, msg |-> pk.msg, flow |-> Len(heap) + 1]
      PROVE  IndInv'
  <2>0. PICK n : n = Len(heap) + 1
    OBVIOUS
  <2> DEFINE h == NewFlow(p, pk.session)
  <2>1. /\ pk'.pc = "enqueue" /\ pk'.key = pk.key /\ pk'.msg = pk.msg /\ pk'.flow = n
    BY <1>3, <2>0
  <2>2. h \in Flow
    <3>1. allocs[p] \in Nat
      BY <1>1 DEF Typed
    <3>2. (udp_nat_.reverse[p] # pk.session \/ (io.pc = "erase_nat" /\ io.port = p)) \in BOOLEAN
      OBVIOUS
    <3>3. << >> \in Seq(Nat) /\ << >> \in Seq([msg : Nat, ok : BOOLEAN])
      OBVIOUS
    <3> QED
      BY <1>1, <3>1, <3>2, <3>3 DEF NewFlow, Flow
  <2>3. /\ h.port = p /\ h.session = pk.key /\ h.born = allocs[p] /\ ~h.stale
        /\ h.pending = << >> /\ h.tx = << >> /\ h.out = << >>
        /\ h.sending = FALSE /\ h.failed = FALSE
        /\ h.raced <=> udp_nat_.reverse[p] # pk.key \/ (io.pc = "erase_nat" /\ io.port = p)
    BY <1>1 DEF NewFlow
  <2>4. heap' = Append(heap, h)
    BY <1>3
  <2> HIDE DEF h
  <2>5. /\ heap' \in Seq(Flow) /\ n \in Nat /\ n # NoFlow /\ n \notin Flows
        /\ Flows' = Flows \cup {n} /\ heap'[n] = h
        /\ \A g \in Flows : heap'[g] = heap[g] /\ g < n /\ g \in Nat
    BY <1>1, <2>0, <2>2, <2>4 DEF Flows, NoFlow
  <2>6. /\ udp_flows_' \in [Ports -> Nat] /\ udp_flows_'[p] = n
        /\ \A r \in Ports : r # p => udp_flows_'[r] = udp_flows_[r]
    BY <1>1, <1>3, <2>0, <2>5 DEF Typed
  <2>7. /\ InMap(n)'
        /\ \A g \in Flows : InMap(g)' <=> InMap(g)
        /\ \A g \in Flows : heap[g].port = p => ~InMap(g)
    <3>1. InMap(n)'
      BY <2>3, <2>5, <2>6 DEF InMap
    <3>2. ASSUME NEW g \in Flows PROVE InMap(g)' <=> InMap(g)
      <4>1. heap[g].port \in Ports /\ g # NoFlow /\ g # n
        BY <1>1, <2>5, FlowFacts
      <4> QED
        BY <1>3, <2>5, <2>6, <4>1 DEF InMap
    <3>3. \A g \in Flows : heap[g].port = p => ~InMap(g)
      BY <1>1, <1>3, FlowFacts DEF InMap
    <3> QED
      BY <3>1, <3>2, <3>3
  <2>8. Typed'
    <3>1. \A r \in Ports : udp_flows_'[r] # NoFlow =>
             udp_flows_'[r] \in Flows' /\ heap'[udp_flows_'[r]].port = r
      <4> SUFFICES ASSUME NEW r \in Ports, udp_flows_'[r] # NoFlow
                   PROVE  udp_flows_'[r] \in Flows' /\ heap'[udp_flows_'[r]].port = r
        OBVIOUS
      <4>1. CASE r = p
        BY <2>3, <2>5, <2>6, <4>1
      <4>2. CASE r # p
        <5>1. /\ udp_flows_'[r] = udp_flows_[r] /\ udp_flows_[r] \in Flows
              /\ heap[udp_flows_[r]].port = r
          BY <1>1, <2>6, <4>2 DEF Typed
        <5> QED
          BY <2>5, <5>1
      <4> QED
        BY <4>1, <4>2
    <3>2. \A i \in DOMAIN ready : ready[i][2] \in Flows'
      BY <1>1, <2>5 DEF Typed
    <3> QED
      BY <1>1, <2>5, <2>6, <3>1, <3>2 DEF Typed
  <2>9. PkTyped'
    BY <1>1, <2>1, <2>5 DEF PkTyped, Carries, HasPort
  <2>10. IoTyped'
    BY <1>1, <2>5 DEF IoTyped
  <2>11. \A g \in Flows : Renewed(g)' <=> Renewed(g)
    BY <1>1, <2>5 DEF Renewed
  <2>12. PortInv'
    <3>1. Owner'
      <4>1. ASSUME NEW g \in Flows
            PROVE  /\ heap'[g].born <= allocs[heap'[g].port]
                   /\ Renewed(g)' \/ udp_nat_.reverse[heap'[g].port] \in {NoKey, heap'[g].session}
        BY <1>1, <2>5, <2>11 DEF PortInv, Owner
      <4>2. /\ heap'[n].born <= allocs[heap'[n].port]
            /\ udp_nat_.reverse[heap'[n].port] \in {NoKey, heap'[n].session}
        BY <1>1, <2>3, <2>5 DEF PortInv, InHand, Typed
      <4> QED
        BY <1>1, <2>5, <4>1, <4>2 DEF Owner
    <3>2. InHand'
      BY <2>1 DEF InHand, HasPort
    <3>3. RacedSince'
      <4> SUFFICES ASSUME io.pc = "erase_nat", udp_flows_'[io.port] # NoFlow
                   PROVE  heap'[udp_flows_'[io.port]].raced
        BY <1>1 DEF RacedSince
      <4>1. CASE io.port = p
        BY <2>3, <2>5, <2>6, <4>1
      <4>2. CASE io.port # p
        <5>1. io.port \in Ports
          BY <1>1, FlowFacts DEF IoTyped
        <5>2. udp_flows_'[io.port] = udp_flows_[io.port] /\ udp_flows_[io.port] \in Flows
          BY <1>1, <2>6, <4>2, <5>1 DEF Typed
        <5> QED
          BY <1>1, <2>5, <5>2 DEF PortInv, RacedSince
      <4> QED
        BY <4>1, <4>2
    <3>4. Detached'
      <4> SUFFICES ASSUME ~stopping_, NEW g \in Flows, ~InMap(g)
                   PROVE  \/ udp_nat_.reverse[heap[g].port] = NoKey
                          \/ Renewed(g)
                          \/ io.pc = "erase_nat" /\ io.port = heap[g].port
        BY <1>1, <2>5, <2>7, <2>11 DEF Detached
      <4> QED
        BY <1>1 DEF PortInv, Detached
    <3>5. Successors'
      <4> SUFFICES ASSUME ~stopping_, NEW a \in Flows', NEW b \in Flows',
                          heap'[a].port = heap'[b].port
                   PROVE  /\ b < a => heap'[a].raced \/ heap'[a].born > heap'[b].born
                          /\ InMap(a)' => b <= a
        BY <1>1 DEF Successors
      <4>1. CASE a \in Flows /\ b \in Flows
        BY <1>1, <2>5, <2>7, <4>1 DEF PortInv, Successors
      <4>2. CASE a = n /\ b \in Flows
        <5>1. heap[b].port = p /\ ~InMap(b) /\ heap'[b] = heap[b]
          BY <2>3, <2>5, <2>7, <4>2
        <5>2. \/ udp_nat_.reverse[p] = NoKey
              \/ Renewed(b)
              \/ io.pc = "erase_nat" /\ io.port = p
          BY <1>1, <4>2, <5>1 DEF PortInv, Detached
        <5>3. h.raced \/ h.born > heap[b].born
          BY <1>1, <2>3, <5>1, <5>2 DEF Renewed
        <5>4. heap'[a] = h /\ heap'[b] = heap[b] /\ b < n /\ b \in Nat /\ n \in Nat
          BY <2>5, <4>2, <5>1
        <5>5. b <= a
          BY <4>2, <5>4
        <5> QED
          BY <5>3, <5>4, <5>5
      <4>3. CASE a \in Flows /\ b = n
        <5>1. ~InMap(a)' /\ ~(n < a)
          BY <2>3, <2>5, <2>7, <4>3
        <5> QED
          BY <4>3, <5>1
      <4>4. CASE a = n /\ b = n
        BY <2>5, <4>4
      <4> QED
        BY <2>5, <4>1, <4>2, <4>3, <4>4
    <3>6. MisdeliveryNeedsPortReuse'
      BY <2>1, <2>3, <2>5 DEF MisdeliveryNeedsPortReuse
    <3>7. FlowsHaveSessions'
      <4>1. udp_nat_.reverse[heap'[n].port] = heap'[n].session \/ heap'[n].raced
        BY <2>3, <2>5
      <4>2. ASSUME NEW g \in Flows, InMap(g)
            PROVE  udp_nat_.reverse[heap'[g].port] = heap'[g].session \/ heap'[g].raced
        BY <1>1, <2>5, <4>2 DEF PortInv, FlowsHaveSessions
      <4> QED
        BY <1>1, <2>5, <2>7, <4>1, <4>2 DEF FlowsHaveSessions
    <3>8. TearsDownOwnFlow'
      BY <1>1, <2>5 DEF TearsDownOwnFlow, PortInv, IoTyped
    <3> QED
      BY <3>1, <3>2, <3>3, <3>4, <3>5, <3>6, <3>7, <3>8 DEF PortInv
  <2>13. Closing'
    <3> SUFFICES ASSUME ~stopping_, NEW g \in Flows, ~InMap(g), ~heap[g].stale
                 PROVE  /\ ~PacketThreadHolds(g)'
                        /\ CloseComing(g)' \/ CloseLast(g, ready) \/ Closed(g)'
      BY <1>1, <2>5, <2>7 DEF Closing
    <3>1. CloseComing(g) \/ CloseLast(g, ready) \/ Closed(g)
      BY <1>1 DEF Closing
    <3>2. ~PacketThreadHolds(g)'
      BY <2>1, <2>5 DEF PacketThreadHolds
    <3>3. (CloseComing(g) => CloseComing(g)') /\ (Closed(g) => Closed(g)')
      BY <1>1, <2>5 DEF CloseComing, Closed
    <3> QED
      BY <3>1, <3>2, <3>3
  <2>14. LastQueued' = LastQueued
    BY <1>1, <2>1 DEF LastQueued, Carries
  <2>15. SendInv'
    <3>1. ASSUME NEW g \in Flows PROVE Senders(g)' = Senders(g)
      BY <1>1, <2>1, <2>5 DEF Senders
    <3>2. Senders(n)' = 0
      <4>1. Senders(n)' = Len(h.tx) + Count(ready, << "send", n >>) + 0
        BY <1>1, <2>1, <2>5 DEF Senders, Count
      <4>2. \A i \in DOMAIN ready : ready[i] # << "send", n >>
        BY <1>1, <2>5 DEF Typed
      <4>3. Count(ready, << "send", n >>) = 0
        <5>1. ready \in Seq(Handlers)
          BY <1>1 DEF Typed
        <5> QED
          BY <4>2, <5>1, CountType
      <4>4. Len(h.tx) = 0
        BY <2>3
      <4> QED
        BY <4>1, <4>3, <4>4
    <3>3. OneSender'
      BY <1>1, <2>3, <2>5, <3>1, <3>2 DEF OneSender, SendInv
    <3>4. NoLostWakeup'
      BY <1>1, <2>3, <2>5 DEF NoLostWakeup, SendInv
    <3>5. DOMAIN h.pending = {} /\ DOMAIN h.out = {} /\ DOMAIN h.tx = {}
      BY <2>3
    <3>6. InSequence(h) /\ UpTo(h, LastQueued)
      BY <3>5 DEF InSequence, UpTo
    <3>7. \A g \in Flows' : /\ heap'[g].failed => heap'[g].sending
                            /\ InSequence(heap'[g]) /\ UpTo(heap'[g], LastQueued)
      BY <1>1, <2>3, <2>5, <3>6 DEF SendInv
    <3> QED
      BY <2>14, <3>3, <3>4, <3>7 DEF SendInv
  <2> QED
    BY <2>8, <2>9, <2>10, <2>12, <2>13, <2>15 DEF IndInv
<1> QED
  BY <1>1, <1>2, <1>3 DEF FindFlow

-----------------------------------------------------------------------------
(***************************************************************************)
(* erase_udp_flow and stop.                                                *)
(***************************************************************************)

\* Erasing a session from the table.
LEMMA EraseNat ==
  ASSUME Typed, NEW p \in Ports, udp_nat_' = erase(udp_nat_, p)
  PROVE  /\ WellFormed(udp_nat_') /\ WithinLimit(udp_nat_')
         /\ \A r \in Ports : udp_nat_'.reverse[r] =
               IF r = p THEN NoKey ELSE udp_nat_.reverse[r]
<1>1. /\ WellFormed(udp_nat_') /\ Used(udp_nat_') = Used(udp_nat_) \ {p}
      /\ \A r \in UInt16 : udp_nat_'.reverse[r] =
            IF r = p THEN NoKey ELSE udp_nat_.reverse[r]
  BY PortFacts, EraseFacts DEF Typed
<1>2. WithinLimit(udp_nat_')
  <2>1. Size(udp_nat_') <= Size(udp_nat_)
    BY <1>1, UsedFacts, FS_Subset DEF Size
  <2> QED
    BY <2>1, UsedFacts, NatTableAssumption DEF Typed, WithinLimit
<1> QED
  BY <1>1, <1>2, PortFacts

\* A port loses its NAT session: what remains of the invariant on ports.
LEMMA NatErased ==
  ASSUME IndInv, NEW p \in Ports, udp_nat_' = erase(udp_nat_, p),
         UNCHANGED << heap, udp_flows_, allocs, stopping_ >>
  PROVE  /\ Flows' = Flows
         /\ WellFormed(udp_nat_') /\ WithinLimit(udp_nat_')
         /\ \A r \in Ports : udp_nat_'.reverse[r] =
               IF r = p THEN NoKey ELSE udp_nat_.reverse[r]
         /\ Owner' /\ Successors'
         /\ \A g \in Flows : (InMap(g)' <=> InMap(g)) /\ (Renewed(g)' <=> Renewed(g))
<1>1. Typed /\ Owner /\ Successors
  BY DEF IndInv, PortInv
<1>2. /\ WellFormed(udp_nat_') /\ WithinLimit(udp_nat_')
      /\ \A r \in Ports : udp_nat_'.reverse[r] =
            IF r = p THEN NoKey ELSE udp_nat_.reverse[r]
  BY <1>1, EraseNat
<1>3. Flows' = Flows
  BY DEF Flows
<1>4. \A g \in Flows : (InMap(g)' <=> InMap(g)) /\ (Renewed(g)' <=> Renewed(g))
  BY DEF InMap, Renewed
<1>5. Owner'
  <2> SUFFICES ASSUME NEW g \in Flows
               PROVE  /\ heap[g].born <= allocs[heap[g].port]
                      /\ \/ Renewed(g)
                         \/ udp_nat_'.reverse[heap[g].port] \in {NoKey, heap[g].session}
    BY <1>3, <1>4 DEF Owner
  <2> QED
    BY <1>1, <1>2, FlowFacts DEF Owner
<1>6. Successors'
  BY <1>1, <1>3, <1>4 DEF Successors
<1> QED
  BY <1>2, <1>3, <1>4, <1>5, <1>6

\* The evicted port has no flow: its session is erased again.
LEMMA EvictNoFlowInv ==
  ASSUME IndInv, EvictFlow, udp_flows_[pk.evicted] = NoFlow
  PROVE  IndInv'
<1>1. /\ UNCHANGED << heap, udp_flows_, io, ready, stopping_, received, allocs >>
      /\ udp_nat_' = erase(udp_nat_, pk.evicted) /\ pk.evicted \in Ports
      /\ Typed /\ PkTyped /\ IoTyped /\ PortInv /\ Closing /\ SendInv
      /\ pk.pc = "evict" /\ pk' = [pk EXCEPT !.pc = "lookup_back"]
      /\ pk = [pc |-> "evict", key |-> pk.key, msg |-> pk.msg,
               nat_port |-> pk.nat_port, evicted |-> pk.evicted]
  BY DEF IndInv, EvictFlow, PkTyped
<1>2. /\ pk'.pc = "lookup_back" /\ pk'.key = pk.key /\ pk'.msg = pk.msg
      /\ pk'.nat_port = pk.nat_port
  <2> DEFINE a == pk.key
             b == pk.msg
             c == pk.nat_port
             e == pk.evicted
  <2>1. pk = [pc |-> "evict", key |-> a, msg |-> b, nat_port |-> c, evicted |-> e]
    BY <1>1
  <2>2. pk' = [pk EXCEPT !.pc = "lookup_back"]
    BY <1>1
  <2> HIDE DEF a, b, c, e
  <2>3. pk' = [pc |-> "lookup_back", key |-> a, msg |-> b, nat_port |-> c, evicted |-> e]
    BY <2>1, <2>2
  <2>4. pk'.pc = "lookup_back" /\ pk'.key = a /\ pk'.msg = b /\ pk'.nat_port = c
    BY <2>3
  <2> QED
    BY <2>4 DEF a, b, c
<1>3. /\ Flows' = Flows
      /\ WellFormed(udp_nat_') /\ WithinLimit(udp_nat_')
      /\ \A r \in Ports : udp_nat_'.reverse[r] =
            IF r = pk.evicted THEN NoKey ELSE udp_nat_.reverse[r]
      /\ Owner' /\ Successors'
      /\ \A g \in Flows : (InMap(g)' <=> InMap(g)) /\ (Renewed(g)' <=> Renewed(g))
  BY <1>1, NatErased
<1>4. HasPort /\ HasPort' /\ Carries /\ Carries'
  BY <1>1, <1>2 DEF HasPort, Carries
<1>5. Typed' /\ PkTyped' /\ IoTyped'
  BY <1>1, <1>2, <1>3, <1>4 DEF Typed, PkTyped, IoTyped
<1>6. \A g \in Flows : heap[g].port \in Ports /\ g # NoFlow
  BY <1>1, FlowFacts
<1>7. InHand'
  BY <1>1, <1>2, <1>3, <1>4 DEF PortInv, InHand, PkTyped
<1>8. RacedSince' /\ TearsDownOwnFlow' /\ MisdeliveryNeedsPortReuse'
  BY <1>1, <1>2 DEF PortInv, RacedSince, TearsDownOwnFlow, MisdeliveryNeedsPortReuse
<1>9. Detached'
  BY <1>1, <1>2, <1>3, <1>6 DEF PortInv, Detached
<1>10. FlowsHaveSessions'
  <2> SUFFICES ASSUME NEW g \in Flows, InMap(g)
               PROVE  udp_nat_'.reverse[heap[g].port] = heap[g].session \/ heap[g].raced
    BY <1>1, <1>3 DEF FlowsHaveSessions
  <2>1. heap[g].port # pk.evicted
    BY <1>6 DEF InMap
  <2> QED
    BY <1>1, <1>3, <1>6, <2>1 DEF PortInv, FlowsHaveSessions
<1>11. PortInv'
  BY <1>3, <1>7, <1>8, <1>9, <1>10 DEF PortInv
<1>12. Closing'
  BY <1>1, <1>2, <1>3, ClosingKept DEF PacketThreadHolds, CloseComing, Closed
<1>13. \A g \in Flows : PkSends(g)' = PkSends(g)
  BY <1>1, <1>2 DEF PkSends
<1>14. LastQueued' \in Int /\ LastQueued <= LastQueued'
  BY <1>1, <1>4 DEF LastQueued, Typed
<1>15. SendInv'
  BY <1>1, <1>3, <1>13, <1>14, QueueKept, SendKept DEF SameQueue
<1> QED
  BY <1>5, <1>11, <1>12, <1>15 DEF IndInv

\* A flow leaves udp_flows_; its fields other than stale do not change.
LEMMA FlowTakenFacts ==
  ASSUME IndInv, NEW p \in Ports, udp_flows_[p] # NoFlow, udp_flows_' = FlowTaken(p),
         heap' \in Seq(Flow), Flows' = Flows, \A g \in Flows : Same(heap'[g], heap[g]),
         UNCHANGED << udp_nat_, allocs, stopping_ >>
  PROVE  /\ udp_flows_' \in [Ports -> Nat] /\ udp_flows_'[p] = NoFlow
         /\ \A r \in Ports : r # p => udp_flows_'[r] = udp_flows_[r]
         /\ \A r \in Ports : udp_flows_'[r] # NoFlow =>
               udp_flows_'[r] \in Flows' /\ heap'[udp_flows_'[r]].port = r
         /\ \A g \in Flows : InMap(g)' <=> InMap(g) /\ heap[g].port # p
         /\ \A g \in Flows : Renewed(g)' <=> Renewed(g)
         /\ Owner' /\ Successors'
         /\ \A g \in Flows : heap[g].port = p /\ InMap(g) <=> g = udp_flows_[p]
<1>1. Typed /\ Owner /\ Successors
  BY DEF IndInv, PortInv
<1>2. /\ udp_flows_' \in [Ports -> Nat] /\ udp_flows_'[p] = NoFlow
      /\ \A r \in Ports : r # p => udp_flows_'[r] = udp_flows_[r]
  BY <1>1 DEF FlowTaken, Typed, NoFlow
<1>3. ASSUME NEW r \in Ports, udp_flows_'[r] # NoFlow
      PROVE  udp_flows_'[r] \in Flows' /\ heap'[udp_flows_'[r]].port = r
  <2>1. /\ udp_flows_'[r] = udp_flows_[r] /\ udp_flows_[r] \in Flows
        /\ heap[udp_flows_[r]].port = r
    BY <1>1, <1>2, <1>3 DEF Typed
  <2> QED
    BY <2>1 DEF Same
<1>4. \A g \in Flows : heap[g].port \in Ports /\ g # NoFlow
  BY <1>1, FlowFacts
<1>5. \A g \in Flows : InMap(g)' <=> InMap(g) /\ heap[g].port # p
  BY <1>2, <1>4 DEF InMap, Same
<1>6. \A g \in Flows : Renewed(g)' <=> Renewed(g)
  BY DEF Renewed, Same
<1>7. Owner'
  BY <1>1, <1>6 DEF Owner, Same
<1>8. Successors'
  BY <1>1, <1>5 DEF Successors, Same
<1>9. \A g \in Flows : heap[g].port = p /\ InMap(g) <=> g = udp_flows_[p]
  BY <1>1 DEF InMap, Typed
<1> QED
  BY <1>2, <1>3, <1>5, <1>6, <1>7, <1>8, <1>9

\* The flow of the evicted port leaves udp_flows_.
LEMMA EvictSomeFlowInv ==
  ASSUME IndInv, EvictFlow, udp_flows_[pk.evicted] # NoFlow
  PROVE  IndInv'
<1>0. PICK p : p = pk.evicted
  OBVIOUS
<1>1. /\ UNCHANGED << udp_nat_, heap, io, ready, stopping_, received, allocs >>
      /\ udp_flows_' = FlowTaken(p) /\ p \in Ports /\ udp_flows_[p] # NoFlow
      /\ Typed /\ PkTyped /\ IoTyped /\ PortInv /\ Closing /\ SendInv
      /\ pk.pc = "evict" /\ heap \in Seq(Flow)
      /\ pk' = [pc |-> "evict_nat", key |-> pk.key, msg |-> pk.msg,
                nat_port |-> pk.nat_port, evicted |-> p, old |-> udp_flows_[p]]
  BY <1>0 DEF IndInv, EvictFlow, PkTyped, Typed
<1>2. /\ pk'.pc = "evict_nat" /\ pk'.key = pk.key /\ pk'.msg = pk.msg
      /\ pk'.nat_port = pk.nat_port /\ pk'.evicted = p /\ pk'.old = udp_flows_[p]
  BY <1>1
<1>3. /\ Flows' = Flows /\ heap' = heap
      /\ udp_flows_' \in [Ports -> Nat] /\ udp_flows_'[p] = NoFlow
      /\ \A r \in Ports : r # p => udp_flows_'[r] = udp_flows_[r]
      /\ \A r \in Ports : udp_flows_'[r] # NoFlow =>
            udp_flows_'[r] \in Flows' /\ heap'[udp_flows_'[r]].port = r
      /\ \A g \in Flows : InMap(g)' <=> InMap(g) /\ heap[g].port # p
      /\ \A g \in Flows : Renewed(g)' <=> Renewed(g)
      /\ Owner' /\ Successors'
      /\ \A g \in Flows : heap[g].port = p /\ InMap(g) <=> g = udp_flows_[p]
  <2>1. Flows' = Flows /\ heap' \in Seq(Flow) /\ \A g \in Flows : Same(heap'[g], heap[g])
    BY <1>1 DEF Flows, Same
  <2> QED
    BY <1>1, <2>1, FlowTakenFacts
<1>4. HasPort /\ HasPort' /\ Carries /\ Carries'
  BY <1>1, <1>2 DEF HasPort, Carries
<1>5. udp_flows_[p] \in Flows /\ heap[udp_flows_[p]].port = p
  BY <1>1 DEF Typed
<1>6. Typed' /\ IoTyped'
  BY <1>1, <1>3 DEF Typed, IoTyped
<1>7. PkTyped'
  BY <1>1, <1>2, <1>3, <1>4, <1>5 DEF PkTyped
<1>8. InHand'
  BY <1>1, <1>2, <1>3, <1>4 DEF PortInv, InHand
<1>9. RacedSince'
  <2> SUFFICES ASSUME io.pc = "erase_nat", udp_flows_'[io.port] # NoFlow
               PROVE  heap[udp_flows_'[io.port]].raced
    BY <1>1 DEF RacedSince
  <2>1. io.port \in Ports
    BY <1>1, FlowFacts DEF IoTyped
  <2> QED
    BY <1>1, <1>3, <2>1 DEF PortInv, RacedSince
<1>10. TearsDownOwnFlow' /\ MisdeliveryNeedsPortReuse'
  BY <1>1, <1>2 DEF PortInv, TearsDownOwnFlow, MisdeliveryNeedsPortReuse
<1>11. Detached' /\ FlowsHaveSessions'
  <2>1. ASSUME ~stopping_, NEW g \in Flows, ~InMap(g)'
        PROVE  \/ udp_nat_.reverse[heap[g].port] = NoKey
               \/ Renewed(g)
               \/ io.pc = "erase_nat" /\ io.port = heap[g].port
               \/ p = heap[g].port
    BY <1>1, <1>3, <2>1 DEF PortInv, Detached
  <2>2. ASSUME NEW g \in Flows, InMap(g)'
        PROVE  udp_nat_.reverse[heap[g].port] = heap[g].session \/ heap[g].raced
    BY <1>0, <1>1, <1>3, <2>2 DEF PortInv, FlowsHaveSessions
  <2> QED
    BY <1>1, <1>2, <1>3, <2>1, <2>2 DEF Detached, FlowsHaveSessions
<1>12. PortInv'
  BY <1>3, <1>8, <1>9, <1>10, <1>11 DEF PortInv
<1>13. Closing'
  <2>1. ASSUME NEW g \in Flows, ~InMap(g)'
        PROVE  \/ ~PacketThreadHolds(g)' /\ CloseComing(g)'
               \/ /\ ~InMap(g)
                  /\ ~PacketThreadHolds(g)'
                  /\ CloseComing(g) => CloseComing(g)'
                  /\ Closed(g) => Closed(g)'
    BY <1>1, <1>2, <1>3, <2>1 DEF PacketThreadHolds, CloseComing, Closed
  <2> QED
    BY <1>1, <1>3, <2>1, ClosingKept
<1>14. \A g \in Flows : PkSends(g)' = PkSends(g)
  BY <1>1, <1>2 DEF PkSends
<1>15. LastQueued' \in Int /\ LastQueued <= LastQueued'
  BY <1>1, <1>4 DEF LastQueued, Typed
<1>16. SendInv'
  BY <1>1, <1>3, <1>14, <1>15, QueueKept, SendKept DEF SameQueue
<1> QED
  BY <1>6, <1>7, <1>12, <1>13, <1>16 DEF IndInv

\* The close of flow f is posted.
LEMMA PostClose ==
  ASSUME IndInv, NEW f \in Flows, ready' = Append(ready, << "close", f >>)
  PROVE  /\ ready' \in Seq(Handlers) /\ \A i \in DOMAIN ready' : ready'[i][2] \in Flows
         /\ \A g \in Flows : CloseLast(g, ready) => CloseLast(g, ready')
         /\ \A g \in Flows : NoStart(g, ready) => NoStart(g, ready')
         /\ CloseLast(f, ready')
         /\ \A g \in Flows : Count(ready', << "send", g >>) \in Nat
         /\ \A g \in Flows : Count(ready', << "send", g >>) = Count(ready, << "send", g >>)
<1> DEFINE x == << "close", f >>
<1>1. /\ ready \in Seq(Handlers) /\ \A i \in DOMAIN ready : ready[i][2] \in Flows
      /\ f \in Nat
  BY FlowFacts DEF IndInv, Typed
<1>2. /\ x \in Handlers /\ x[2] \in Flows /\ \A g : x # << "start", g >>
      /\ \A g : x # << "send", g >>
  BY <1>1 DEF Handlers
<1>3. ready' = Append(ready, x) /\ x = << "close", f >>
  OBVIOUS
<1> HIDE DEF x
<1>4. /\ ready' \in Seq(Handlers) /\ \A i \in DOMAIN ready' : ready'[i][2] \in Flows
      /\ \A g \in Flows : CloseLast(g, ready) => CloseLast(g, ready')
      /\ \A g \in Flows : NoStart(g, ready) => NoStart(g, ready')
      /\ \A g \in Flows : x = << "close", g >> => CloseLast(g, ready')
      /\ \A g \in Flows : Count(ready, << "send", g >>) \in Nat
  BY <1>1, <1>2, <1>3, PostFacts
<1>5. \A g \in Flows : x # << "send", g >> =>
         Count(ready', << "send", g >>) = Count(ready, << "send", g >>)
  BY <1>1, <1>2, <1>3, PostFacts
<1>6. CloseLast(f, ready')
  BY <1>3, <1>4
<1> QED
  BY <1>2, <1>4, <1>5, <1>6

\* The packet thread erases the session of the evicted flow and posts its close.
LEMMA EvictNatInv ==
  ASSUME IndInv, EvictNat
  PROVE  IndInv'
<1>0. PICK p, f : p = pk.evicted /\ f = pk.old
  OBVIOUS
<1>1. /\ UNCHANGED << heap, udp_flows_, io, stopping_, received, allocs >>
      /\ udp_nat_' = erase(udp_nat_, p) /\ p \in Ports
      /\ Typed /\ PkTyped /\ IoTyped /\ PortInv /\ Closing /\ SendInv
      /\ pk.pc = "evict_nat" /\ udp_flows_[p] = NoFlow
      /\ f \in Flows /\ ready' = Append(ready, << "close", f >>)
      /\ pk' = [pc |-> "lookup_back", key |-> pk.key, msg |-> pk.msg,
                nat_port |-> pk.nat_port, evicted |-> pk.evicted]
  BY <1>0 DEF IndInv, EvictNat, PkTyped
<1>2. /\ pk'.pc = "lookup_back" /\ pk'.key = pk.key /\ pk'.msg = pk.msg
      /\ pk'.nat_port = pk.nat_port
  BY <1>1
<1>3. /\ Flows' = Flows
      /\ WellFormed(udp_nat_') /\ WithinLimit(udp_nat_')
      /\ \A r \in Ports : udp_nat_'.reverse[r] = IF r = p THEN NoKey ELSE udp_nat_.reverse[r]
      /\ Owner' /\ Successors'
      /\ \A g \in Flows : (InMap(g)' <=> InMap(g)) /\ (Renewed(g)' <=> Renewed(g))
  BY <1>1, NatErased
<1>4. HasPort /\ HasPort' /\ Carries /\ Carries'
  BY <1>1, <1>2 DEF HasPort, Carries
<1>5. /\ ready' \in Seq(Handlers) /\ \A i \in DOMAIN ready' : ready'[i][2] \in Flows
      /\ \A g \in Flows : CloseLast(g, ready) => CloseLast(g, ready')
      /\ \A g \in Flows : NoStart(g, ready) => NoStart(g, ready')
      /\ CloseLast(f, ready')
      /\ \A g \in Flows : Count(ready', << "send", g >>) \in Nat
      /\ \A g \in Flows : Count(ready', << "send", g >>) = Count(ready, << "send", g >>)
  BY <1>1, PostClose
<1>6. Typed' /\ PkTyped' /\ IoTyped'
  BY <1>1, <1>2, <1>3, <1>4, <1>5 DEF Typed, PkTyped, IoTyped
<1>7. \A g \in Flows : heap[g].port \in Ports /\ g # NoFlow
  BY <1>1, FlowFacts
<1>8. InHand'
  BY <1>1, <1>2, <1>3, <1>4 DEF PortInv, InHand, PkTyped
<1>9. RacedSince' /\ TearsDownOwnFlow' /\ MisdeliveryNeedsPortReuse'
  BY <1>1, <1>2 DEF PortInv, RacedSince, TearsDownOwnFlow, MisdeliveryNeedsPortReuse
<1>10. Detached'
  <2>1. ASSUME ~stopping_, NEW g \in Flows, ~InMap(g)
        PROVE  \/ udp_nat_'.reverse[heap[g].port] = NoKey
               \/ Renewed(g)
               \/ io.pc = "erase_nat" /\ io.port = heap[g].port
    BY <1>0, <1>1, <1>3, <1>7, <2>1 DEF PortInv, Detached
  <2> QED
    BY <1>1, <1>3, <2>1 DEF Detached
<1>11. FlowsHaveSessions'
  <2> SUFFICES ASSUME NEW g \in Flows, InMap(g)
               PROVE  udp_nat_'.reverse[heap[g].port] = heap[g].session \/ heap[g].raced
    BY <1>1, <1>3 DEF FlowsHaveSessions
  <2>1. heap[g].port # p
    BY <1>1, <1>7 DEF InMap
  <2> QED
    BY <1>1, <1>3, <1>7, <2>1 DEF PortInv, FlowsHaveSessions
<1>12. PortInv'
  BY <1>3, <1>8, <1>9, <1>10, <1>11 DEF PortInv
<1>13. Closing'
  <2>1. ASSUME NEW g \in Flows
        PROVE  /\ ~PacketThreadHolds(g)'
               /\ CloseComing(g) => CloseComing(g)' \/ CloseLast(g, ready')
               /\ Closed(g) => Closed(g)'
    BY <1>0, <1>1, <1>2, <1>5 DEF PacketThreadHolds, CloseComing, Closed
  <2> QED
    BY <1>1, <1>3, <1>5, <2>1, ClosingKept
<1>14. \A g \in Flows : PkSends(g)' = PkSends(g)
  BY <1>1, <1>2 DEF PkSends
<1>15. LastQueued' \in Int /\ LastQueued <= LastQueued'
  BY <1>1, <1>4 DEF LastQueued, Typed
<1>16. SendInv'
  BY <1>1, <1>3, <1>5, <1>14, <1>15, SendKept DEF SameQueue
<1> QED
  BY <1>6, <1>12, <1>13, <1>16 DEF IndInv

\* The io thread finds no flow at the port: the session is erased.
LEMMA IoEraseNoFlowInv ==
  ASSUME IndInv, IoEraseFlow, udp_flows_[io.port] = NoFlow
  PROVE  IndInv'
<1>0. PICK p : p = io.port
  OBVIOUS
<1>1. /\ UNCHANGED << heap, udp_flows_, pk, ready, stopping_, received, allocs >>
      /\ udp_nat_' = erase(udp_nat_, p) /\ udp_flows_[p] = NoFlow
      /\ Typed /\ PkTyped /\ IoTyped /\ PortInv /\ Closing /\ SendInv
      /\ io.pc = "erase_flow" /\ io'.pc = "run" /\ p \in Ports
  BY <1>0, FlowFacts DEF IndInv, IoEraseFlow, IoTyped, IoIdle
<1>2. /\ Flows' = Flows
      /\ WellFormed(udp_nat_') /\ WithinLimit(udp_nat_')
      /\ \A r \in Ports : udp_nat_'.reverse[r] = IF r = p THEN NoKey ELSE udp_nat_.reverse[r]
      /\ Owner' /\ Successors'
      /\ \A g \in Flows : (InMap(g)' <=> InMap(g)) /\ (Renewed(g)' <=> Renewed(g))
  BY <1>1, NatErased
<1>3. Typed' /\ PkTyped' /\ IoTyped'
  BY <1>1, <1>2 DEF Typed, PkTyped, IoTyped, Carries, HasPort
<1>4. \A g \in Flows : heap[g].port \in Ports /\ g # NoFlow
  BY <1>1, FlowFacts
<1>5. InHand'
  BY <1>1, <1>2 DEF PortInv, InHand, PkTyped, HasPort
<1>6. RacedSince' /\ TearsDownOwnFlow' /\ MisdeliveryNeedsPortReuse'
  BY <1>1 DEF PortInv, RacedSince, TearsDownOwnFlow, MisdeliveryNeedsPortReuse
<1>7. Detached'
  BY <1>1, <1>2, <1>4 DEF PortInv, Detached
<1>8. FlowsHaveSessions'
  <2> SUFFICES ASSUME NEW g \in Flows, InMap(g)
               PROVE  \/ udp_nat_'.reverse[heap[g].port] = heap[g].session
                      \/ pk.pc = "evict" /\ pk.evicted = heap[g].port
                      \/ heap[g].raced
    BY <1>1, <1>2 DEF FlowsHaveSessions
  <2>1. heap[g].port # p
    BY <1>1, <1>4 DEF InMap
  <2> QED
    BY <1>1, <1>2, <1>4, <2>1 DEF PortInv, FlowsHaveSessions
<1>9. PortInv'
  BY <1>2, <1>5, <1>6, <1>7, <1>8 DEF PortInv
<1>10. Closing'
  BY <1>1, <1>2, ClosingKept DEF PacketThreadHolds, CloseComing, Closed
<1>11. \A g \in Flows : PkSends(g)' = PkSends(g)
  BY <1>1 DEF PkSends
<1>12. LastQueued' \in Int /\ LastQueued <= LastQueued'
  BY <1>1 DEF LastQueued, Typed, Carries
<1>13. SendInv'
  BY <1>1, <1>2, <1>11, <1>12, QueueKept, SendKept DEF SameQueue
<1> QED
  BY <1>3, <1>9, <1>10, <1>13 DEF IndInv

\* The io thread takes the flow of the port out of udp_flows_.
LEMMA IoEraseSomeFlowInv ==
  ASSUME IndInv, IoEraseFlow, udp_flows_[io.port] # NoFlow
  PROVE  IndInv'
<1>0. PICK p, f, b : p = io.port /\ f = udp_flows_[io.port] /\ b = io.by
  OBVIOUS
<1>1. /\ UNCHANGED << udp_nat_, pk, ready, stopping_, received, allocs >>
      /\ udp_flows_' = FlowTaken(p) /\ f = udp_flows_[p] /\ f # NoFlow
      /\ Typed /\ PkTyped /\ IoTyped /\ PortInv /\ Closing /\ SendInv
      /\ io.pc = "erase_flow" /\ p \in Ports /\ ~stopping_
      /\ b \in Flows /\ heap[b].port = p
      /\ io' = [pc |-> "erase_nat", port |-> p, flow |-> f, by |-> b]
      /\ heap' = [heap EXCEPT ![f].stale = @ \/ PacketThreadHolds(f)]
  BY <1>0, FlowFacts DEF IndInv, IoEraseFlow, IoTyped
<1>2. io'.pc = "erase_nat" /\ io'.port = p /\ io'.flow = f /\ io'.by = b
  BY <1>1
<1>3. /\ f \in Flows /\ heap[f].port = p /\ heap \in Seq(Flow) /\ heap[f] \in Flow
  BY <1>1, FlowFacts DEF Typed
<1> DEFINE s == heap[f].stale \/ PacketThreadHolds(f)
           h == [heap[f] EXCEPT !.stale = s]
<1>4. heap' = [heap EXCEPT ![f] = h]
  BY <1>1
<1>5. s \in BOOLEAN /\ (s <=> heap[f].stale \/ PacketThreadHolds(f))
  BY <1>3 DEF Flow
<1> HIDE DEF s
<1>6. /\ h \in Flow /\ Same(h, heap[f]) /\ SameQueue(h, heap[f]) /\ h.open = heap[f].open
      /\ h.stale = s
  BY <1>3, <1>5 DEF Flow, Same, SameQueue
<1> HIDE DEF h
<1>7. /\ heap' \in Seq(Flow) /\ Flows' = Flows
      /\ \A g \in Flows : heap'[g] = IF g = f THEN h ELSE heap[g]
  BY <1>3, <1>4, <1>6, HeapUpdate
<1>8. \A g \in Flows : /\ Same(heap'[g], heap[g]) /\ SameQueue(heap'[g], heap[g])
                       /\ heap'[g].open = heap[g].open
                       /\ heap'[g].stale = IF g = f THEN s ELSE heap[g].stale
  BY <1>6, <1>7 DEF Same, SameQueue
<1>9. /\ udp_flows_' \in [Ports -> Nat] /\ udp_flows_'[p] = NoFlow
      /\ \A r \in Ports : r # p => udp_flows_'[r] = udp_flows_[r]
      /\ \A r \in Ports : udp_flows_'[r] # NoFlow =>
            udp_flows_'[r] \in Flows' /\ heap'[udp_flows_'[r]].port = r
      /\ \A g \in Flows : InMap(g)' <=> InMap(g) /\ heap[g].port # p
      /\ \A g \in Flows : Renewed(g)' <=> Renewed(g)
      /\ Owner' /\ Successors'
      /\ \A g \in Flows : heap[g].port = p /\ InMap(g) <=> g = f
  <2>1. udp_flows_[p] # NoFlow /\ \A g \in Flows : Same(heap'[g], heap[g])
    BY <1>1, <1>8
  <2>2. /\ udp_flows_' \in [Ports -> Nat] /\ udp_flows_'[p] = NoFlow
        /\ \A r \in Ports : r # p => udp_flows_'[r] = udp_flows_[r]
        /\ \A r \in Ports : udp_flows_'[r] # NoFlow =>
              udp_flows_'[r] \in Flows' /\ heap'[udp_flows_'[r]].port = r
        /\ \A g \in Flows : InMap(g)' <=> InMap(g) /\ heap[g].port # p
        /\ \A g \in Flows : Renewed(g)' <=> Renewed(g)
        /\ Owner' /\ Successors'
        /\ \A g \in Flows : heap[g].port = p /\ InMap(g) <=> g = udp_flows_[p]
    BY <1>1, <1>7, <2>1, FlowTakenFacts
  <2> QED
    BY <1>1, <2>2, Zenon
<1>10. Typed'
  BY <1>1, <1>7, <1>9 DEF Typed
<1>11. PkTyped'
  <2>1. pk.pc = "evict_nat" => udp_flows_'[pk.evicted] = NoFlow
    BY <1>1, <1>9 DEF PkTyped
  <2> QED
    BY <1>1, <1>7, <1>8, <2>1 DEF PkTyped, Carries, HasPort, Same
<1>12. IoTyped'
  BY <1>1, <1>2, <1>3, <1>7, <1>8 DEF IoTyped, Same
<1>13. InHand'
  BY <1>1, <1>7, <1>8, <1>9 DEF PortInv, InHand, HasPort, Same
<1>14. RacedSince'
  BY <1>2, <1>9 DEF RacedSince
<1>15. TearsDownOwnFlow'
  <2>1. InMap(f) /\ (InMap(f) => b <= f)
    BY <1>1, <1>3, <1>9 DEF PortInv, Successors
  <2>2. f \in Nat /\ b \in Nat
    BY <1>1, <1>3, FlowFacts
  <2>3. b = f \/ heap[f].raced \/ heap[f].born > heap[b].born
    BY <1>1, <1>3, <2>1, <2>2 DEF PortInv, Successors
  <2> QED
    BY <1>1, <1>2, <1>3, <1>8, <2>3 DEF TearsDownOwnFlow, Same
<1>16. MisdeliveryNeedsPortReuse'
  BY <1>1, <1>8 DEF PortInv, MisdeliveryNeedsPortReuse, PkTyped, Same
<1>17. Detached'
  <2>1. ASSUME NEW g \in Flows, ~InMap(g)'
        PROVE  \/ udp_nat_.reverse[heap[g].port] = NoKey
               \/ Renewed(g)
               \/ p = heap[g].port
               \/ pk.pc = "evict_nat" /\ pk.evicted = heap[g].port
    BY <1>1, <1>9, <2>1 DEF PortInv, Detached
  <2> QED
    BY <1>1, <1>2, <1>7, <1>8, <1>9, <2>1 DEF Detached, Same
<1>18. FlowsHaveSessions'
  BY <1>1, <1>7, <1>8, <1>9 DEF PortInv, FlowsHaveSessions, Same
<1>19. PortInv'
  BY <1>9, <1>13, <1>14, <1>15, <1>16, <1>17, <1>18 DEF PortInv
<1>20. Closing'
  <2>1. ASSUME NEW g \in Flows, ~InMap(g)', ~heap'[g].stale, g = f
        PROVE  ~PacketThreadHolds(g)' /\ CloseComing(g)'
    BY <1>1, <1>2, <1>5, <1>8, <2>1 DEF PacketThreadHolds, CloseComing
  <2>2. ASSUME NEW g \in Flows, ~InMap(g)', ~heap'[g].stale, g # f
        PROVE  /\ ~InMap(g) /\ ~heap[g].stale
               /\ ~PacketThreadHolds(g) => ~PacketThreadHolds(g)'
               /\ CloseComing(g) => CloseComing(g)'
               /\ Closed(g) => Closed(g)'
    <3>1. ~InMap(g) /\ ~heap[g].stale
      BY <1>8, <1>9, <2>2
    <3>2. ~PacketThreadHolds(g) => ~PacketThreadHolds(g)'
      BY <1>1 DEF PacketThreadHolds
    <3>3. (CloseComing(g) => CloseComing(g)') /\ (Closed(g) => Closed(g)')
      BY <1>1, <1>8 DEF CloseComing, Closed
    <3> QED
      BY <3>1, <3>2, <3>3
  <2> QED
    BY <1>1, <1>7, <2>1, <2>2, ClosingKept
<1>21. \A g \in Flows : PkSends(g)' = PkSends(g)
  BY <1>1 DEF PkSends
<1>22. LastQueued' \in Int /\ LastQueued <= LastQueued'
  BY <1>1 DEF LastQueued, Typed, Carries
<1>23. SendInv'
  BY <1>1, <1>7, <1>8, <1>21, <1>22, QueueKept, SendKept
<1> QED
  BY <1>10, <1>11, <1>12, <1>19, <1>20, <1>23 DEF IndInv

\* The io thread erases the session of the port and posts the close.
LEMMA IoEraseNatInv ==
  ASSUME IndInv, IoEraseNat
  PROVE  IndInv'
<1>0. PICK p, f : p = io.port /\ f = io.flow
  OBVIOUS
<1>1. /\ UNCHANGED << heap, udp_flows_, pk, stopping_, received, allocs >>
      /\ udp_nat_' = erase(udp_nat_, p) /\ ready' = Append(ready, << "close", f >>)
      /\ Typed /\ PkTyped /\ IoTyped /\ PortInv /\ Closing /\ SendInv
      /\ io.pc = "erase_nat" /\ io'.pc = "run" /\ f \in Flows
  BY <1>0 DEF IndInv, IoEraseNat, IoTyped, IoIdle
<1>2. p \in Ports
  BY <1>0, <1>1, FlowFacts DEF IoTyped
<1>3. /\ Flows' = Flows
      /\ WellFormed(udp_nat_') /\ WithinLimit(udp_nat_')
      /\ \A r \in Ports : udp_nat_'.reverse[r] = IF r = p THEN NoKey ELSE udp_nat_.reverse[r]
      /\ Owner' /\ Successors'
      /\ \A g \in Flows : (InMap(g)' <=> InMap(g)) /\ (Renewed(g)' <=> Renewed(g))
  BY <1>1, <1>2, NatErased
<1>4. /\ ready' \in Seq(Handlers) /\ \A i \in DOMAIN ready' : ready'[i][2] \in Flows
      /\ \A g \in Flows : CloseLast(g, ready) => CloseLast(g, ready')
      /\ \A g \in Flows : NoStart(g, ready) => NoStart(g, ready')
      /\ CloseLast(f, ready')
      /\ \A g \in Flows : Count(ready', << "send", g >>) \in Nat
      /\ \A g \in Flows : Count(ready', << "send", g >>) = Count(ready, << "send", g >>)
  BY <1>1, PostClose
<1>5. Typed' /\ PkTyped' /\ IoTyped'
  BY <1>1, <1>3, <1>4 DEF Typed, PkTyped, IoTyped, Carries, HasPort
<1>6. \A g \in Flows : heap[g].port \in Ports /\ g # NoFlow
  BY <1>1, FlowFacts
<1>7. InHand'
  BY <1>1, <1>3 DEF PortInv, InHand, PkTyped, HasPort
<1>8. RacedSince' /\ TearsDownOwnFlow' /\ MisdeliveryNeedsPortReuse'
  BY <1>1 DEF PortInv, RacedSince, TearsDownOwnFlow, MisdeliveryNeedsPortReuse
<1>9. Detached'
  <2>1. ASSUME ~stopping_, NEW g \in Flows, ~InMap(g)
        PROVE  \/ udp_nat_'.reverse[heap[g].port] = NoKey
               \/ Renewed(g)
               \/ pk.pc = "evict_nat" /\ pk.evicted = heap[g].port
    BY <1>0, <1>1, <1>3, <1>6, <2>1 DEF PortInv, Detached
  <2> QED
    BY <1>1, <1>3, <2>1 DEF Detached
<1>10. FlowsHaveSessions'
  <2> SUFFICES ASSUME NEW g \in Flows, InMap(g)
               PROVE  \/ udp_nat_'.reverse[heap[g].port] = heap[g].session
                      \/ pk.pc = "evict" /\ pk.evicted = heap[g].port
                      \/ heap[g].raced
    BY <1>1, <1>3 DEF FlowsHaveSessions
  <2>1. CASE heap[g].port = p
    BY <1>0, <1>1, <1>6, <2>1 DEF PortInv, RacedSince, InMap
  <2>2. CASE heap[g].port # p
    BY <1>1, <1>3, <1>6, <2>2 DEF PortInv, FlowsHaveSessions
  <2> QED
    BY <2>1, <2>2
<1>11. PortInv'
  BY <1>3, <1>7, <1>8, <1>9, <1>10 DEF PortInv
<1>12. Closing'
  <2>1. ASSUME NEW g \in Flows
        PROVE  /\ ~PacketThreadHolds(g) => ~PacketThreadHolds(g)'
               /\ CloseComing(g) => CloseComing(g)' \/ CloseLast(g, ready')
               /\ Closed(g) => Closed(g)'
    BY <1>0, <1>1, <1>4 DEF PacketThreadHolds, CloseComing, Closed
  <2> QED
    BY <1>1, <1>3, <1>4, <2>1, ClosingKept
<1>13. \A g \in Flows : PkSends(g)' = PkSends(g)
  BY <1>1 DEF PkSends
<1>14. LastQueued' \in Int /\ LastQueued <= LastQueued'
  BY <1>1 DEF LastQueued, Typed, Carries
<1>15. SendInv'
  BY <1>1, <1>3, <1>4, <1>13, <1>14, SendKept DEF SameQueue
<1> QED
  BY <1>5, <1>11, <1>12, <1>15 DEF IndInv

\* stop lists the flows of udp_flows_ in some order.
LEMMA SetToSeqFacts ==
  ASSUME NEW S, IsFiniteSet(S), NEW T, S \subseteq T
  PROVE  /\ SetToSeq(S) \in Seq(T)
         /\ \A i \in DOMAIN SetToSeq(S) : SetToSeq(S)[i] \in S
<1> DEFINE n == Cardinality(S)
<1>1. n \in Nat /\ \E b : b \in Bijection(1 .. n, S)
  BY FS_CardinalityType DEF ExistsBijection
<1>2. \E b \in [1 .. n -> S] : IsInjective(b)
  BY <1>1 DEF Bijection, Injection
<1>3. SetToSeq(S) \in [1 .. n -> S]
  BY <1>2 DEF SetToSeq
<1> HIDE DEF n
<1> QED
  BY <1>1, <1>3

\* stop takes out all flows and posts their closes.
LEMMA StopInv ==
  ASSUME IndInv, Stop
  PROVE  IndInv'
<1> DEFINE D == {q \in Ports : udp_flows_[q] # NoFlow}
           S == {<< "close", udp_flows_[q] >> : q \in D}
           t == SetToSeq(S)
<1>1. /\ UNCHANGED << udp_nat_, heap, pk, io, received, allocs >>
      /\ stopping_' /\ io.pc = "run" /\ Flows' = Flows
      /\ ready' = ready \o t
      /\ udp_flows_' = [q \in Ports |-> NoFlow]
      /\ Typed /\ PkTyped /\ IoTyped /\ PortInv /\ SendInv
  BY DEF IndInv, Stop, IoTurn, Flows
<1>2. IsFiniteSet(S)
  <2> DEFINE m == [q \in D |-> << "close", udp_flows_[q] >>]
  <2>1. IsFiniteSet(D)
    BY PortFacts, FS_Subset
  <2>2. m \in Surjection(D, S)
    BY DEF Surjection
  <2> HIDE DEF m, D, S
  <2> QED
    BY <2>1, <2>2, FS_Surjection
<1>3. ASSUME NEW x \in S
      PROVE  x \in Handlers /\ x[2] \in Flows /\ \A g : x # << "send", g >>
  <2>1. PICK q \in D : x = << "close", udp_flows_[q] >>
    OBVIOUS
  <2>2. udp_flows_[q] \in Flows /\ udp_flows_[q] \in Nat
    BY <1>1 DEF Typed
  <2> QED
    BY <2>1, <2>2 DEF Handlers
<1> HIDE DEF S, D
<1>4. t \in Seq(Handlers) /\ \A i \in DOMAIN t : t[i] \in S
  BY <1>2, <1>3, SetToSeqFacts
<1> HIDE DEF t
<1>5. /\ ready' \in Seq(Handlers)
      /\ \A i \in DOMAIN ready' : ready'[i][2] \in Flows
  <2>1. /\ ready \in Seq(Handlers) /\ \A i \in DOMAIN ready : ready[i][2] \in Flows
        /\ \A i \in DOMAIN t : t[i][2] \in Flows
    BY <1>1, <1>3, <1>4 DEF Typed
  <2>2. /\ ready' \in Seq(Handlers) /\ Len(ready) \in Nat /\ Len(t) \in Nat
        /\ DOMAIN ready = 1 .. Len(ready) /\ DOMAIN t = 1 .. Len(t)
        /\ DOMAIN ready' = 1 .. (Len(ready) + Len(t))
        /\ \A i \in 1 .. (Len(ready) + Len(t)) :
              ready'[i] = IF i <= Len(ready) THEN ready[i] ELSE t[i - Len(ready)]
    BY <1>1, <1>4, <2>1, ConcatProperties
  <2>3. ASSUME NEW i \in DOMAIN ready' PROVE ready'[i][2] \in Flows
    <3>1. CASE i <= Len(ready)
      <4>1. i \in DOMAIN ready /\ ready'[i] = ready[i]
        BY <2>2, <3>1
      <4> QED
        BY <2>1, <4>1
    <3>2. CASE ~(i <= Len(ready))
      <4>1. i - Len(ready) \in DOMAIN t /\ ready'[i] = t[i - Len(ready)]
        BY <2>2, <3>2
      <4> QED
        BY <2>1, <4>1
    <3> QED
      BY <3>1, <3>2
  <2> QED
    BY <2>2, <2>3
<1>6. ASSUME NEW g \in Flows
      PROVE  /\ Count(ready', << "send", g >>) \in Nat
             /\ Count(ready', << "send", g >>) = Count(ready, << "send", g >>)
  <2>1. \A i \in DOMAIN t : t[i] # << "send", g >>
    BY <1>3, <1>4
  <2>2. Count(ready \o t, << "send", g >>) = Count(ready, << "send", g >>)
    BY <1>1, <1>4, <2>1, CountConcat DEF Typed
  <2> QED
    BY <1>1, <2>2, SendersFacts
<1>7. \A q \in Ports : udp_flows_'[q] = NoFlow
  BY <1>1
<1>8. Typed'
  BY <1>1, <1>5, <1>7 DEF Typed, NoFlow
<1>9. PkTyped' /\ IoTyped'
  BY <1>1, <1>7 DEF PkTyped, IoTyped, Carries, HasPort
<1>10. \A g \in Flows : ~InMap(g)' /\ (Renewed(g)' <=> Renewed(g))
  BY <1>1, <1>7, FlowFacts DEF InMap, Renewed
<1>11. PortInv'
  <2>1. Owner' /\ InHand'
    BY <1>1, <1>10 DEF PortInv, Owner, InHand, HasPort
  <2>2. RacedSince' /\ Detached' /\ Successors' /\ TearsDownOwnFlow'
    BY <1>1 DEF RacedSince, Detached, Successors, TearsDownOwnFlow
  <2>3. MisdeliveryNeedsPortReuse' /\ FlowsHaveSessions'
    BY <1>1, <1>10 DEF PortInv, MisdeliveryNeedsPortReuse, FlowsHaveSessions
  <2> QED
    BY <2>1, <2>2, <2>3 DEF PortInv
<1>12. Closing'
  BY <1>1 DEF Closing
<1>13. \A g \in Flows : PkSends(g)' = PkSends(g)
  BY <1>1 DEF PkSends
<1>14. LastQueued' \in Int /\ LastQueued <= LastQueued'
  BY <1>1 DEF LastQueued, Typed, Carries
<1>15. SendInv'
  BY <1>1, <1>6, <1>13, <1>14, SendKept DEF SameQueue
<1> QED
  BY <1>8, <1>9, <1>11, <1>12, <1>15 DEF IndInv

\* The packet thread reads a datagram and asks udp_nat_ for its port.
LEMMA ReceiveDatagramInv ==
  ASSUME IndInv, NEW k \in FlowKeys, ReceiveDatagram(k)
  PROVE  IndInv'
<1> DEFINE r == lookup_or_create(udp_nat_, k)
<1>0. PICK p, e : p = r.nat_port /\ e = r.evicted
  OBVIOUS
<1>1. /\ UNCHANGED << udp_flows_, heap, io, ready, stopping_ >>
      /\ Flows' = Flows /\ received \in Nat /\ received' = received + 1
      /\ Typed /\ PkTyped /\ IoTyped /\ PortInv /\ Closing /\ SendInv
      /\ WellFormed(udp_nat_) /\ WithinLimit(udp_nat_)
      /\ pk.pc = "receive" /\ udp_nat_' = r.table
      /\ allocs \in [Ports -> Nat]
  BY DEF IndInv, ReceiveDatagram, Flows, Typed
<1>2. /\ pk' = [pc |-> AfterLookup(e), key |-> k, msg |-> received + 1,
                nat_port |-> p, evicted |-> e]
      /\ allocs' = IF udp_nat_.forward[k] = NoPort THEN [allocs EXCEPT ![p] = @ + 1] ELSE allocs
  BY <1>0 DEF ReceiveDatagram
<1>3. /\ pk'.pc = AfterLookup(e) /\ pk'.key = k /\ pk'.msg = received'
      /\ pk'.nat_port = p /\ pk'.evicted = e
  BY <1>1, <1>2
<1>4. pk'.pc = IF e = NoPort THEN "lookup_back" ELSE "evict"
  BY <1>3 DEF AfterLookup
<1>5. k # NoKey /\ NoPort \notin Ports
  BY NatTableAssumption, PortFacts
\* What the table says afterwards.
<1>6. /\ WellFormed(udp_nat_') /\ WithinLimit(udp_nat_')
      /\ p \in Ports /\ e \in Ports \cup {NoPort}
      /\ udp_nat_'.reverse[p] = k
      /\ \A q \in Ports : \/ udp_nat_'.reverse[q] = udp_nat_.reverse[q]
                          \/ udp_nat_'.reverse[q] = NoKey /\ e = q
                          \/ q = p /\ allocs'[p] = allocs[p] + 1
      /\ udp_nat_.reverse[p] \in {NoKey, k} \/ p = e
      /\ (udp_nat_.reverse[p] = k /\ e = NoPort) \/ allocs'[p] = allocs[p] + 1
      /\ allocs' \in [Ports -> Nat] /\ \A q \in Ports : q # p => allocs'[q] = allocs[q]
      /\ allocs'[p] >= allocs[p]
  <2>1. CASE udp_nat_.forward[k] # NoPort
    <3>1. /\ WellFormed(udp_nat_') /\ WithinLimit(udp_nat_')
          /\ udp_nat_'.reverse = udp_nat_.reverse
          /\ p \in Ports /\ udp_nat_.reverse[p] = k /\ e = NoPort
      BY <1>0, <1>1, <2>1, LookupHit
    <3>2. allocs' = allocs /\ allocs[p] \in Nat
      BY <1>1, <1>2, <2>1, <3>1
    <3> QED
      BY <1>1, <3>1, <3>2
  <2>2. CASE udp_nat_.forward[k] = NoPort
    <3>1. ~Exhausted(udp_nat_, k)
      BY <1>1, NeverExhausted, TunUdpAssumption
    <3>2. /\ WellFormed(udp_nat_') /\ WithinLimit(udp_nat_')
          /\ p \in Ports /\ e \in Used(udp_nat_) \cup {NoPort}
          /\ udp_nat_.reverse[p] = NoKey \/ p = e
          /\ \A q \in UInt16 : udp_nat_'.reverse[q] = IF q = p THEN k
                                                      ELSE IF q = e THEN NoKey
                                                      ELSE udp_nat_.reverse[q]
      BY <1>0, <1>1, <2>2, <3>1, LookupMiss
    <3>3. /\ allocs' = [allocs EXCEPT ![p] = @ + 1] /\ allocs[p] \in Nat
      BY <1>1, <1>2, <2>2, <3>2
    <3>4. /\ allocs' \in [Ports -> Nat] /\ allocs'[p] = allocs[p] + 1
          /\ \A q \in Ports : q # p => allocs'[q] = allocs[q]
      BY <1>1, <3>2, <3>3
    <3>5. allocs'[p] >= allocs[p]
      BY <3>3, <3>4
    <3>6. e \in Ports \cup {NoPort} /\ Ports \subseteq UInt16
      BY <3>2, UsedFacts, PortFacts
    <3> QED
      BY <3>2, <3>4, <3>5, <3>6
  <2> QED
    BY <2>1, <2>2
<1> HIDE DEF r
<1>7. \A g \in Flows : /\ heap[g].port \in Ports /\ g # NoFlow
                       /\ heap[g].session # NoKey
                       /\ heap[g].born \in Nat /\ allocs[heap[g].port] \in Nat
                       /\ heap[g].born <= allocs[heap[g].port]
  BY <1>1, FlowFacts DEF PortInv, Owner
<1>8. /\ \A g \in Flows : InMap(g)' <=> InMap(g)
      /\ \A g \in Flows : Renewed(g) => Renewed(g)'
      /\ \A g \in Flows : heap[g].port = p /\ allocs'[p] = allocs[p] + 1 => Renewed(g)'
  <2>1. ASSUME NEW g \in Flows, Renewed(g) PROVE Renewed(g)'
    BY <1>1, <1>6, <1>7, <2>1 DEF Renewed
  <2>2. ASSUME NEW g \in Flows, heap[g].port = p, allocs'[p] = allocs[p] + 1
        PROVE  Renewed(g)'
    BY <1>1, <1>6, <1>7, <2>2 DEF Renewed
  <2> QED
    BY <1>1, <2>1, <2>2 DEF InMap
<1>9. Typed'
  BY <1>1, <1>6 DEF Typed
<1>10. HasPort' /\ Carries' /\ ~Carries
  BY <1>1, <1>4 DEF HasPort, Carries
<1>11. PkTyped'
  <2>1. /\ pk'.pc \in {"lookup_back", "evict"}
        /\ pk'.pc = "evict" => e \in Ports
    BY <1>4, <1>6
  <2>2. pk'.pc = "evict" => pk' = [pc |-> "evict", key |-> pk'.key, msg |-> pk'.msg,
                                   nat_port |-> pk'.nat_port, evicted |-> pk'.evicted]
    BY <1>2, <1>3
  <2> QED
    BY <1>1, <1>3, <1>6, <1>10, <2>1, <2>2 DEF PkTyped
<1>12. IoTyped'
  BY <1>1 DEF IoTyped
<1>13. Owner'
  <2> SUFFICES ASSUME NEW g \in Flows
               PROVE  /\ heap[g].born <= allocs'[heap[g].port]
                      /\ \/ Renewed(g)'
                         \/ udp_nat_'.reverse[heap[g].port] \in {NoKey, heap[g].session}
    BY <1>1 DEF Owner
  <2>1. heap[g].born <= allocs'[heap[g].port]
    BY <1>6, <1>7
  <2>2. Renewed(g) \/ udp_nat_.reverse[heap[g].port] \in {NoKey, heap[g].session}
    BY <1>1 DEF PortInv, Owner
  <2> QED
    BY <1>6, <1>7, <1>8, <2>1, <2>2
<1>14. InHand'
  <2> SUFFICES ASSUME NEW g \in Flows, heap[g].port = p
               PROVE  heap[g].session = k \/ Renewed(g)'
    BY <1>1, <1>3, <1>6 DEF InHand
  <2>1. Renewed(g) \/ udp_nat_.reverse[p] \in {NoKey, heap[g].session}
    BY <1>1 DEF PortInv, Owner
  <2> QED
    BY <1>5, <1>6, <1>8, <2>1
<1>15. RacedSince' /\ Successors' /\ TearsDownOwnFlow'
  BY <1>1, <1>8 DEF PortInv, RacedSince, Successors, TearsDownOwnFlow
<1>16. Detached'
  <2> SUFFICES ASSUME ~stopping_, NEW g \in Flows, ~InMap(g)
               PROVE  \/ udp_nat_'.reverse[heap[g].port] = NoKey
                      \/ Renewed(g)'
                      \/ io.pc = "erase_nat" /\ io.port = heap[g].port
    BY <1>1, <1>8 DEF Detached
  <2>1. \/ udp_nat_.reverse[heap[g].port] = NoKey
        \/ Renewed(g)
        \/ io.pc = "erase_nat" /\ io.port = heap[g].port
    BY <1>1 DEF PortInv, Detached
  <2> QED
    BY <1>6, <1>7, <1>8, <2>1
<1>17. MisdeliveryNeedsPortReuse'
  BY <1>4 DEF MisdeliveryNeedsPortReuse
<1>18. FlowsHaveSessions'
  <2> SUFFICES ASSUME NEW g \in Flows, InMap(g)
               PROVE  \/ udp_nat_'.reverse[heap[g].port] = heap[g].session
                      \/ pk'.pc = "evict" /\ pk'.evicted = heap[g].port
                      \/ heap[g].raced
    BY <1>1, <1>8 DEF FlowsHaveSessions
  <2>1. udp_nat_.reverse[heap[g].port] = heap[g].session \/ heap[g].raced
    BY <1>1 DEF PortInv, FlowsHaveSessions
  <2>2. e = heap[g].port => pk'.pc = "evict" /\ pk'.evicted = heap[g].port
    BY <1>3, <1>4, <1>5, <1>7
  <2>3. CASE heap[g].port = p
    BY <1>6, <1>7, <2>1, <2>2, <2>3
  <2>4. CASE heap[g].port # p
    BY <1>6, <1>7, <2>1, <2>2, <2>4
  <2> QED
    BY <2>3, <2>4
<1>19. PortInv'
  BY <1>13, <1>14, <1>15, <1>16, <1>17, <1>18 DEF PortInv
<1>20. Closing'
  BY <1>1, <1>4, <1>8, ClosingKept DEF PacketThreadHolds, CloseComing, Closed
<1>21. \A g \in Flows : PkSends(g)' = PkSends(g)
  BY <1>1, <1>4 DEF PkSends
<1>22. LastQueued' \in Int /\ LastQueued <= LastQueued'
  BY <1>1, <1>10 DEF LastQueued
<1>23. SendInv'
  BY <1>1, <1>21, <1>22, QueueKept, SendKept DEF SameQueue
<1> QED
  BY <1>9, <1>11, <1>12, <1>19, <1>20, <1>23 DEF IndInv

-----------------------------------------------------------------------------
(***************************************************************************)
(* The theorems.                                                           *)
(***************************************************************************)

\* A step that changes nothing.
LEMMA StutterInv ==
  ASSUME IndInv, UNCHANGED vars
  PROVE  IndInv'
<1>1. /\ UNCHANGED << udp_nat_, udp_flows_, heap, pk, io, ready, stopping_, received, allocs >>
      /\ Flows' = Flows
      /\ Typed /\ PkTyped /\ IoTyped
  BY DEF vars, Flows, IndInv
<1>2. Typed' /\ PkTyped' /\ IoTyped'
  BY <1>1 DEF Typed, PkTyped, IoTyped, Carries, HasPort
<1>3. PortInv'
  BY <1>1, PortsKept DEF Same
<1>4. Closing'
  BY <1>1, ClosingKept DEF InMap, PacketThreadHolds, CloseComing, Closed
<1>5. \A g \in Flows : PkSends(g)' = PkSends(g)
  BY <1>1 DEF PkSends
<1>6. LastQueued' \in Int /\ LastQueued <= LastQueued'
  BY <1>1 DEF LastQueued, Typed, Carries
<1>7. SendInv'
  BY <1>1, <1>5, <1>6, QueueKept, SendKept DEF SameQueue
<1> QED
  BY <1>2, <1>3, <1>4, <1>7 DEF IndInv

\* Every step keeps the invariant.
LEMMA NextInv == IndInv /\ [Next]_vars => IndInv'
<1> SUFFICES ASSUME IndInv, [Next]_vars PROVE IndInv'
  OBVIOUS
<1>1. CASE UNCHANGED vars
  BY <1>1, StutterInv
<1>2. ASSUME NEW k \in FlowKeys, ReceiveDatagram(k) PROVE IndInv'
  BY <1>2, ReceiveDatagramInv
<1>3. CASE PacketWork
  <2>1. CASE EvictFlow
    BY <2>1, EvictNoFlowInv, EvictSomeFlowInv
  <2>2. CASE EvictNat
    BY <2>2, EvictNatInv
  <2>3. CASE LookupSession \/ PacketExit
    BY <2>3, LookupSessionInv
  <2>4. CASE FindFlow
    BY <2>4, FindFlowInv
  <2>5. CASE Enqueue
    BY <2>5, EnqueueInv
  <2>6. CASE Spawn
    BY <2>6, SpawnInv
  <2> QED
    BY <1>3, <2>1, <2>2, <2>3, <2>4, <2>5, <2>6 DEF PacketWork
<1>4. ASSUME NEW f \in Flows, FlowWork(f) \/ RecvFailed(f) PROVE IndInv'
  <2>1. CASE StartFlow(f)
    BY <2>1, StartFlowInv
  <2>2. CASE ConnectDone(f)
    BY <2>2, ConnectDoneInv
  <2>3. CASE SendStart(f)
    BY <2>3, SendStartInv
  <2>4. CASE SendDone(f)
    BY <2>4, SendDoneInv
  <2>5. CASE SendFailed(f)
    BY <2>5, SendFailedInv
  <2>6. CASE RecvStart(f)
    BY <2>6, RecvStartInv
  <2>7. CASE CloseFlow(f)
    BY <2>7, CloseFlowInv
  <2>8. CASE RecvFailed(f)
    BY <2>8, RecvFailedInv
  <2> QED
    BY <1>4, <2>1, <2>2, <2>3, <2>4, <2>5, <2>6, <2>7, <2>8 DEF FlowWork
<1>5. CASE EraseWork
  <2>1. CASE IoEraseFlow
    BY <2>1, IoEraseNoFlowInv, IoEraseSomeFlowInv
  <2>2. CASE IoEraseNat
    BY <2>2, IoEraseNatInv
  <2> QED
    BY <1>5, <2>1, <2>2 DEF EraseWork
<1>6. CASE Stop
  BY <1>6, StopInv
<1> QED
  BY <1>1, <1>2, <1>3, <1>4, <1>5, <1>6 DEF Next

\* IndInv is an inductive invariant of TunUdp.
LEMMA Invariant == Spec => []IndInv
<1> QED
  BY InitInv, NextInv, PTL DEF Spec

\* For any number of datagrams and flows: whichever way enqueue, start and
\* send_loop interleave, a flow has one send_loop exactly while its flag
\* `sending` says so, and a queued datagram has somebody on the way to it.
THEOREM TunUdpQueueHasItsSender == Spec => []QueueHasItsSender
<1>1. IndInv => QueueHasItsSender
  BY DEF IndInv, SendInv, QueueHasItsSender
<1> QED
  BY <1>1, Invariant, PTL

\* For any number of datagrams and flows: send_loop hands the datagrams of a
\* flow to the network in the order enqueue took them, none twice.
THEOREM TunUdpInOrder == Spec => []InOrder
<1>1. ASSUME IndInv PROVE InOrder
  <2> SUFFICES ASSUME NEW f \in Flows
               PROVE  LET q == heap[f].out \o heap[f].pending
                      IN  \A i, j \in DOMAIN q : i < j => q[i] < q[j]
    BY DEF InOrder
  <2> DEFINE a == heap[f].out
             b == heap[f].pending
             q == a \o b
  <2>1. a \in Seq(Nat) /\ b \in Seq(Nat)
    BY <1>1, FlowFacts DEF IndInv, Flow
  <2>2. /\ \A i, j \in DOMAIN a : i < j => a[i] < a[j]
        /\ \A i, j \in DOMAIN b : i < j => b[i] < b[j]
        /\ \A i \in DOMAIN a, j \in DOMAIN b : a[i] < b[j]
    BY <1>1 DEF IndInv, SendInv, InSequence
  <2> HIDE DEF a, b
  <2>3. /\ Len(a) \in Nat /\ Len(b) \in Nat
        /\ DOMAIN a = 1 .. Len(a) /\ DOMAIN b = 1 .. Len(b)
        /\ DOMAIN q = 1 .. (Len(a) + Len(b))
        /\ \A i \in 1 .. (Len(a) + Len(b)) : q[i] = IF i <= Len(a) THEN a[i] ELSE b[i - Len(a)]
    BY <2>1, ConcatProperties
  <2> HIDE DEF q
  <2>4. ASSUME NEW i \in DOMAIN q, NEW j \in DOMAIN q, i < j PROVE q[i] < q[j]
    <3>1. i \in Nat /\ j \in Nat
      BY <2>3
    <3>2. CASE j <= Len(a)
      <4>1. i \in DOMAIN a /\ j \in DOMAIN a /\ q[i] = a[i] /\ q[j] = a[j]
        BY <2>3, <2>4, <3>1, <3>2
      <4> QED
        BY <2>2, <2>4, <4>1
    <3>3. CASE i <= Len(a) /\ ~(j <= Len(a))
      <4>1. i \in DOMAIN a /\ j - Len(a) \in DOMAIN b /\ q[i] = a[i] /\ q[j] = b[j - Len(a)]
        BY <2>3, <3>1, <3>3
      <4> QED
        BY <2>2, <4>1
    <3>4. CASE ~(i <= Len(a))
      <4>1. /\ i - Len(a) \in DOMAIN b /\ j - Len(a) \in DOMAIN b
            /\ i - Len(a) < j - Len(a)
            /\ q[i] = b[i - Len(a)] /\ q[j] = b[j - Len(a)]
        BY <2>3, <2>4, <3>1, <3>4
      <4> QED
        BY <2>2, <4>1
    <3> QED
      BY <2>3, <3>1, <3>2, <3>3, <3>4
  <2> QED
    BY <2>4 DEF q, a, b
<1> QED
  BY <1>1, Invariant, PTL

\* For any flow keys, port range and limit of sessions: handle_udp_packet
\* queues a datagram on a flow to another destination only after the flow's
\* port was handed out again.
THEOREM TunUdpMisdeliveryNeedsPortReuse == Spec => []MisdeliveryNeedsPortReuse
<1>1. IndInv => MisdeliveryNeedsPortReuse
  BY DEF IndInv, PortInv
<1> QED
  BY <1>1, Invariant, PTL

\* For any flow keys, port range and limit of sessions: a flow in udp_flows_
\* has its session in udp_nat_, but for the windows the property names.
THEOREM TunUdpFlowsHaveSessions == Spec => []FlowsHaveSessions
<1>1. IndInv => FlowsHaveSessions
  BY DEF IndInv, PortInv
<1> QED
  BY <1>1, Invariant, PTL

\* For any number of flows: erase_udp_flow, called by a coroutine of a flow,
\* takes out that flow, a raced one or one of a newer allocation of the port.
THEOREM TunUdpTearsDownOwnFlow == Spec => []TearsDownOwnFlow
<1>1. IndInv => TearsDownOwnFlow
  BY DEF IndInv, PortInv
<1> QED
  BY <1>1, Invariant, PTL

\* For any number of flows: once both threads are idle, a flow taken out of
\* udp_flows_ has its socket closed, unless the packet thread held it then.
THEOREM TunUdpDroppedFlowsAreClosed == Spec => []DroppedFlowsAreClosed
<1>1. ASSUME IndInv PROVE DroppedFlowsAreClosed
  <2> SUFFICES ASSUME pk.pc = "receive", io.pc = "run", ready = << >>, ~stopping_,
                      NEW f \in Flows, ~InMap(f), ~heap[f].stale
               PROVE  ~heap[f].open
    BY DEF DroppedFlowsAreClosed
  <2>1. CloseComing(f) \/ CloseLast(f, ready) \/ Closed(f)
    BY <1>1 DEF IndInv, Closing
  <2>2. ~CloseComing(f)
    BY DEF CloseComing
  <2>3. DOMAIN ready = {}
    OBVIOUS
  <2>4. ~CloseLast(f, ready)
    BY <2>3 DEF CloseLast
  <2> QED
    BY <2>1, <2>2, <2>4 DEF Closed
<1> QED
  BY <1>1, Invariant, PTL

=============================================================================
