------------------------------- MODULE TunNat -------------------------------
(***************************************************************************)
(* One TunNat object used by any number of threads, with each member       *)
(* function one atomic step (mutex_ is held throughout it).                *)
(***************************************************************************)
EXTENDS NatTable

VARIABLES
    nat,    \* forward_, reverse_, lru_ and next_port_
    ret,    \* what the last completed call returned
    hung    \* a thread loops in allocate_port_locked with mutex_ held

vars == << nat, ret, hung >>

Init ==
    /\ nat = EmptyTable
    /\ ret = [op |-> "none"]
    /\ hung = FALSE

LookupOrCreate(k) ==
    /\ ~hung
    /\ ~Exhausted(nat, k)
    /\ LET r == lookup_or_create(nat, k)
       IN  /\ nat' = r.table
           /\ ret' = [op |-> "port",
                      nat_port |-> r.nat_port, evicted |-> r.evicted]
    /\ UNCHANGED hung

\* The for(;;) of allocate_port_locked finds every port mapped.
AllocateForever(k) ==
    /\ ~hung
    /\ Exhausted(nat, k)
    /\ hung' = TRUE
    /\ UNCHANGED << nat, ret >>

Erase(p) ==
    /\ ~hung
    /\ nat' = erase(nat, p)
    /\ ret' = [op |-> "erased"]
    /\ UNCHANGED hung

LookupBack(p) ==
    /\ ~hung
    /\ ret' = [op |-> "key", key |-> lookup_back(nat, p)]
    /\ UNCHANGED << nat, hung >>

Next ==
    \/ \E k \in FlowKeys : LookupOrCreate(k) \/ AllocateForever(k)
    \/ \E p \in UInt16 : Erase(p) \/ LookupBack(p)

Spec == Init /\ [][Next]_vars

-----------------------------------------------------------------------------
Results ==
    [op : {"none", "erased"}]
    \cup [op : {"port"}, nat_port : Ports, evicted : Ports \cup {NoPort}]
    \cup [op : {"key"}, key : FlowKeys \cup {NoKey}]

\* The state of the table stays within its C++ types, and only ports from
\* FirstPort on ever carry a key.
TypeOK ==
    /\ nat \in Tables
    /\ ret \in Results
    /\ hung \in BOOLEAN
    /\ \A p \in UInt16 \ Ports : nat.reverse[p] = NoKey

\* forward_ and reverse_ are inverse to each other: translating a packet out
\* and its answer back always ends at the same flow, and no two flows share
\* a port (every insertion and erasure updates both maps).
MapsInverse == Inverse2(nat)

\* lru_ lists exactly the mapped ports, each once: eviction (the only reader)
\* can neither miss a session nor find the list empty while sessions exist.
LruListsSessions == LruExact(nat)

\* forward_, reverse_ and lru_, which every member function updates one by
\* one, describe one and the same set of sessions.
CopiesAgree == MapsInverse /\ LruListsSessions

\* A table with a limit never holds more sessions than max_sessions_.
SizeBound == MaxSessions # 0 => Size(nat) <= MaxSessions

\* With a limit no larger than the number of ports, lookup_or_create always
\* returns: eviction runs before the port search, so a port is free.
NeverHangs == MaxSessions # 0 /\ MaxSessions <= PortSpan - FirstPort => ~hung

\* What the callers rely on: module NatSpec.
Abstract == INSTANCE NatSpec WITH map <- nat.forward
AbstractSpec == Abstract!Spec
=============================================================================
