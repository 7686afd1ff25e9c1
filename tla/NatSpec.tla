------------------------------ MODULE NatSpec -------------------------------
(***************************************************************************)
(* What the packet and relay code relies on from a TunNat: a partial       *)
(* injection from flow keys to ports.  A lookup answers the port a key     *)
(* already has, or gives it a port no other key has, possibly after one    *)
(* other key lost its port; the reverse lookup answers exactly the key     *)
(* that holds the port.  Nothing is said about the order in which ports    *)
(* are handed out or sessions evicted.                                     *)
(***************************************************************************)
EXTENDS Integers, FiniteSets

CONSTANTS FlowKeys, NoKey, Ports, NoPort, UInt16, MaxSessions

VARIABLES
    map,    \* the port of each key, or NoPort
    ret,    \* what the last completed call returned
    hung    \* a call will never return, and blocks every later one

vars == << map, ret, hung >>

Holders(m) == {k \in FlowKeys : m[k] # NoPort}
HeldPorts(m) == {m[k] : k \in Holders(m)}

Init ==
    /\ map = [k \in FlowKeys |-> NoPort]
    /\ ret = [op |-> "none"]
    /\ hung = FALSE

Lookup(k) ==
    /\ map[k] # NoPort
    /\ ret' = [op |-> "port", nat_port |-> map[k], evicted |-> NoPort]
    /\ UNCHANGED << map, hung >>

\* k gets a port nobody holds; p and k2 = k say that nobody was evicted.
Create(k, k2) ==
    /\ map[k] = NoPort
    /\ LET rest == [map EXCEPT ![k2] = NoPort]
       IN  \E p \in Ports \ HeldPorts(rest) :
              /\ map' = [rest EXCEPT ![k] = p]
              /\ MaxSessions # 0 => Cardinality(Holders(map')) <= MaxSessions
              /\ ret' = [op |-> "port", nat_port |-> p, evicted |-> map[k2]]
    /\ UNCHANGED hung

Hang ==
    /\ MaxSessions = 0 \/ Cardinality(Ports) < MaxSessions
    /\ HeldPorts(map) = Ports
    /\ hung' = TRUE
    /\ UNCHANGED << map, ret >>

Erase(p) ==
    /\ map' = [k \in FlowKeys |-> IF map[k] = p THEN NoPort ELSE map[k]]
    /\ ret' = [op |-> "erased"]
    /\ UNCHANGED hung

LookupBack(p) ==
    /\ \/ \E k \in FlowKeys : map[k] = p /\ ret' = [op |-> "key", key |-> k]
       \/ p \notin HeldPorts(map) /\ ret' = [op |-> "key", key |-> NoKey]
    /\ UNCHANGED << map, hung >>

Next ==
    /\ ~hung
    /\ \/ \E k \in FlowKeys : Lookup(k)
       \/ \E k, k2 \in FlowKeys : Create(k, k2)
       \/ Hang
       \/ \E p \in UInt16 : Erase(p) \/ LookupBack(p)

Spec == Init /\ [][Next]_vars
=============================================================================
