------------------------------ MODULE NatTable ------------------------------
(***************************************************************************)
(* The port-translation table of the TUN inbound, class TunNat             *)
(* (inbound/tun_nat.cpp).  Every public member function of the class holds *)
(* mutex_ from its first to its last statement, so here each of them is    *)
(* one operator from a table to a table, and one atomic step wherever it   *)
(* is called.                                                              *)
(*                                                                         *)
(* The TCP path uses a table with max_sessions_ = 0 (unbounded), the UDP   *)
(* path one with max_sessions_ = 1024 (tun_inbound.hpp).                   *)
(***************************************************************************)
EXTENDS Integers, FiniteSets, SequencesExt

CONSTANTS
    FlowKeys,     \* the TunFlowKey values: (src ip, src port, dst ip, dst port)
    NoKey,        \* std::nullopt where a key is expected
    FirstPort,    \* the first port handed out (10000)
    PortSpan,     \* number of values of next_port_ (2^16)
    MaxSessions   \* max_sessions_; 0 means no limit

ASSUME NatTableAssumption ==
    /\ NoKey \notin FlowKeys
    /\ FirstPort \in Nat \ {0}
    /\ PortSpan \in Nat
    /\ FirstPort < PortSpan
    /\ MaxSessions \in Nat

UInt16 == 0 .. (PortSpan - 1)

\* The ports the allocator can return: FirstPort up to the largest uint16.
Ports == FirstPort .. (PortSpan - 1)

\* std::nullopt where a port is expected.
NoPort == -1

Tables ==
    [forward : [FlowKeys -> Ports \cup {NoPort}],
     reverse : [UInt16 -> FlowKeys \cup {NoKey}],
     lru     : Seq(Ports),
     next    : UInt16]

EmptyTable ==
    [forward |-> [k \in FlowKeys |-> NoPort],
     reverse |-> [p \in UInt16 |-> NoKey],
     lru     |-> << >>,
     next    |-> FirstPort]

\* The ports that are keys of reverse_, and reverse_.size().
Used(t) == {p \in Ports : t.reverse[p] # NoKey}
Size(t) == Cardinality(Used(t))
Free(t) == Ports \ Used(t)

-----------------------------------------------------------------------------
(***************************************************************************)
(* The private helpers.                                                    *)
(***************************************************************************)

\* Mutant of touch_locked: a hit leaves the port where it is.
touch_locked_no_move(q, p) == IF p \in ToSet(q) THEN q ELSE Append(q, p)

\* Mutant of touch_locked: push_back without erasing the old position.
touch_locked_no_erase(q, p) == Append(q, p)

\* touch_locked: move the port to the back of lru_.
touch_locked(q, p) == Append(RemoveFirst(q, p), p)

\* forward_.erase(it->second); reverse_.erase(it), with q left in lru_.
Unmap(t, p, q) ==
    [t EXCEPT !.forward[t.reverse[p]] = NoPort, !.reverse[p] = NoKey, !.lru = q]

\* Mutant of evict_one_locked: the port stays in reverse_.
evict_one_locked_keeps_reverse(t) ==
    IF t.lru = << >> THEN [table |-> t, port |-> NoPort]
    ELSE [table |-> [t EXCEPT !.forward[t.reverse[t.lru[1]]] = NoPort,
                              !.lru = Tail(@)],
          port  |-> t.lru[1]]

\* evict_one_locked: pop lru_ from the front until a mapped port comes off.
evict_one_locked(t) ==
    LET live == {i \in 1 .. Len(t.lru) : t.reverse[t.lru[i]] # NoKey}
        i    == Min(live)
    IN  IF live = {}
        THEN [table |-> [t EXCEPT !.lru = << >>], port |-> NoPort]
        ELSE [table |-> Unmap(t, t.lru[i], SubSeq(t.lru, i + 1, Len(t.lru))),
              port  |-> t.lru[i]]

\* Mutant of allocate_port_locked: the probe of reverse_ is left out.
allocate_port_no_probe(t) == IF t.next = 0 THEN FirstPort ELSE t.next

\* allocate_port_locked: the first unmapped port at or after next_port_,
\* starting over at FirstPort when next_port_ wraps to 0.  Defined when some
\* port is free; when none is, the loop in the code does not terminate.
allocate_port_locked(t) ==
    LET ahead == {p \in Free(t) : p >= t.next}
    IN  IF ahead # {} THEN Min(ahead) ELSE Min(Free(t))

\* Mutant of Succ16: the counter is wider than sixteen bits.
Succ16_wide(p) == p + 1

\* next_port_++ in sixteen bits.
Succ16(p) == IF p = PortSpan - 1 THEN 0 ELSE p + 1

-----------------------------------------------------------------------------
(***************************************************************************)
(* The public member functions.                                            *)
(***************************************************************************)

\* Mutant of MakeRoom: the limit test is off by one.
MakeRoom_off_by_one(t) ==
    IF MaxSessions # 0 /\ Size(t) > MaxSessions
    THEN evict_one_locked(t)
    ELSE [table |-> t, port |-> NoPort]

\* The table, and the evicted port, on which allocate_port_locked is called
\* when lookup_or_create misses.
MakeRoom(t) ==
    IF MaxSessions # 0 /\ Size(t) >= MaxSessions
    THEN evict_one_locked(t)
    ELSE [table |-> t, port |-> NoPort]

\* lookup_or_create(k) misses and no port is free: allocate_port_locked loops
\* for ever, with mutex_ held.
Exhausted(t, k) ==
    /\ t.forward[k] = NoPort
    /\ Free(MakeRoom(t).table) = {}

\* forward_[key] = nat_port; reverse_[nat_port] = key; touch_locked(nat_port),
\* after the search left next_port_ one past the port.
Insert(t, k, p) ==
    [t EXCEPT !.forward[k] = p, !.reverse[p] = k,
              !.lru = touch_locked(t.lru, p), !.next = Succ16(p)]

\* A hit refreshes the port's place in lru_; a miss makes room and inserts.
lookup_or_create(t, k) ==
    LET room == MakeRoom(t)
        p    == allocate_port_locked(room.table)
    IN  IF t.forward[k] # NoPort
        THEN [table    |-> [t EXCEPT !.lru = touch_locked(t.lru, t.forward[k])],
              nat_port |-> t.forward[k],
              evicted  |-> NoPort]
        ELSE [table    |-> Insert(room.table, k, p),
              nat_port |-> p,
              evicted  |-> room.port]

\* Mutant of erase: forward_ keeps the key.
erase_keeps_forward(t, p) ==
    IF t.reverse[p] = NoKey THEN t
    ELSE [t EXCEPT !.reverse[p] = NoKey, !.lru = RemoveFirst(@, p)]

erase(t, p) ==
    IF t.reverse[p] = NoKey THEN t
    ELSE Unmap(t, p, RemoveFirst(t.lru, p))

lookup_back(t, p) == t.reverse[p]

-----------------------------------------------------------------------------
(***************************************************************************)
(* What the members of a table have to do with each other.                 *)
(***************************************************************************)

\* forward_ and reverse_ are inverse to each other.
Inverse2(t) ==
    /\ \A k \in FlowKeys :
          t.forward[k] # NoPort => t.reverse[t.forward[k]] = k
    /\ \A p \in Ports :
          t.reverse[p] # NoKey => t.forward[t.reverse[p]] = p

\* lru_ lists the mapped ports, each once.
LruExact(t) ==
    /\ \A p \in Ports : t.reverse[p] # NoKey <=> \E i \in DOMAIN t.lru : t.lru[i] = p
    /\ \A i, j \in DOMAIN t.lru : t.lru[i] = t.lru[j] => i = j
=============================================================================
