------------------------------ MODULE MCTunNat ------------------------------
(***************************************************************************)
(* TunNat with a history of the order in which keys were looked up.        *)
(***************************************************************************)
EXTENDS TunNat

VARIABLE since  \* history: << a, b >> when b was looked up after a last was

mcVars == << nat, ret, hung, since >>

MCInit == Init /\ since = {}

MCNext ==
    \/ \E k \in FlowKeys :
          /\ LookupOrCreate(k)
          /\ since' = {q \in since : q[1] # k} \cup ((FlowKeys \ {k}) \X {k})
    \/ \E k \in FlowKeys : AllocateForever(k) /\ UNCHANGED since
    \/ \E p \in UInt16 : (Erase(p) \/ LookupBack(p)) /\ UNCHANGED since
    \/ hung /\ UNCHANGED mcVars      \* the hung thread keeps looping

MCSpec == MCInit /\ [][MCNext]_mcVars

\* The session lookup_or_create evicts is the one whose flow has been silent
\* longest: every other session was looked up after the evicted one, also
\* when hits and erasures came in between.
EvictsLeastRecentlyUsed ==
    [][\A k, k2 \in FlowKeys :
          /\ nat' # nat
          /\ ret'.op = "port"
          /\ ret'.evicted # NoPort
          /\ nat.forward[k] = ret'.evicted
          /\ nat.forward[k2] # NoPort
          /\ k2 # k
          => << k, k2 >> \in since]_mcVars
=============================================================================
