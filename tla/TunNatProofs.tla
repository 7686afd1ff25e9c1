---------------------------- MODULE TunNatProofs ----------------------------
(***************************************************************************)
(* Proofs about one TunNat under concurrent calls: its invariants, that it *)
(* implements NatSpec, and that it evicts the least recently used session. *)
(***************************************************************************)
EXTENDS MCTunNat, NatTableProofs, FunctionTheorems

-----------------------------------------------------------------------------
(***************************************************************************)
(* The inductive invariant.                                                *)
(***************************************************************************)

IndInv ==
    /\ TypeOK
    /\ MapsInverse
    /\ LruListsSessions
    /\ SizeBound
    /\ NeverHangs

\* IndInv in terms of the predicates on tables.
LEMMA IndInvTable ==
  IndInv <=> /\ WellFormed(nat)
             /\ WithinLimit(nat)
             /\ ret \in Results
             /\ hung \in BOOLEAN
             /\ NeverHangs
BY DEF IndInv, TypeOK, MapsInverse, LruListsSessions, SizeBound, WellFormed,
       WithinLimit

\* The same for the next state.
LEMMA IndInvTablePrime ==
  IndInv' <=> /\ WellFormed(nat')
              /\ WithinLimit(nat')
              /\ ret' \in Results
              /\ hung' \in BOOLEAN
              /\ NeverHangs'
BY DEF IndInv, TypeOK, MapsInverse, LruListsSessions, SizeBound, WellFormed,
       WithinLimit

\* The invariant holds of a new table.
LEMMA InitInv == Init => IndInv
<1> SUFFICES ASSUME Init PROVE IndInv
  OBVIOUS
<1>1. WellFormed(nat) /\ Used(nat) = {}
  BY EmptyWellFormed DEF Init
<1>2. WithinLimit(nat)
  BY <1>1, FS_EmptySet, NatTableAssumption DEF WithinLimit, Size
<1>3. ret \in Results /\ hung \in BOOLEAN /\ NeverHangs
  BY DEF Init, Results, NeverHangs
<1> QED
  BY <1>1, <1>2, <1>3, IndInvTable

\* Every member function preserves it.
LEMMA NextInv == IndInv /\ [Next]_vars => IndInv'
<1> SUFFICES ASSUME IndInv, [Next]_vars PROVE IndInv'
  OBVIOUS
<1>1. /\ WellFormed(nat) /\ WithinLimit(nat)
      /\ ret \in Results /\ hung \in BOOLEAN /\ NeverHangs
  BY IndInvTable
<1>2. ASSUME NEW k \in FlowKeys, LookupOrCreate(k) PROVE IndInv'
  <2> DEFINE r == lookup_or_create(nat, k)
  <2>1. /\ WellFormed(r.table)
        /\ WithinLimit(r.table)
        /\ r.nat_port \in Ports
        /\ r.evicted \in Ports \cup {NoPort}
    BY <1>1, <1>2, LookupFacts DEF LookupOrCreate
  <2>2. /\ nat' = r.table
        /\ ret' = [op |-> "port", nat_port |-> r.nat_port, evicted |-> r.evicted]
        /\ hung' = hung
    BY <1>2 DEF LookupOrCreate
  <2> HIDE DEF r
  <2>3. ret' \in Results
    BY <2>1, <2>2 DEF Results
  <2>4. NeverHangs'
    BY <1>1, <2>2 DEF NeverHangs
  <2> QED
    BY <1>1, <2>1, <2>2, <2>3, <2>4, IndInvTablePrime
<1>3. ASSUME NEW k \in FlowKeys, AllocateForever(k) PROVE IndInv'
  <2>1. ~(MaxSessions # 0 /\ MaxSessions <= PortSpan - FirstPort)
    BY <1>1, <1>3, NeverExhausted DEF AllocateForever
  <2> QED
    BY <1>1, <1>3, <2>1, IndInvTablePrime DEF AllocateForever, NeverHangs
<1>4. ASSUME NEW p \in UInt16, Erase(p) PROVE IndInv'
  <2>1. WellFormed(nat') /\ Used(nat') = Used(nat) \ {p}
    BY <1>1, <1>4, EraseFacts DEF Erase
  <2>2. Size(nat') <= Size(nat)
    BY <2>1, UsedFacts, FS_RemoveElement DEF Size
  <2>3. WithinLimit(nat')
    BY <1>1, <2>2, UsedFacts, NatTableAssumption DEF WithinLimit
  <2>4. ret' \in Results /\ hung' = hung /\ NeverHangs'
    BY <1>1, <1>4 DEF Erase, Results, NeverHangs
  <2> QED
    BY <1>1, <2>1, <2>3, <2>4, IndInvTablePrime
<1>5. ASSUME NEW p \in UInt16, LookupBack(p) PROVE IndInv'
  <2>1. nat.reverse[p] \in FlowKeys \cup {NoKey}
    BY <1>1 DEF WellFormed, Tables
  <2>2. ret' \in Results
    BY <1>5, <2>1 DEF LookupBack, lookup_back, Results
  <2> QED
    BY <1>1, <1>5, <2>2, IndInvTablePrime DEF LookupBack, NeverHangs
<1>6. CASE UNCHANGED vars
  BY <1>1, <1>6, IndInvTablePrime DEF vars, NeverHangs
<1> QED
  BY <1>2, <1>3, <1>4, <1>5, <1>6 DEF Next

\* The inductive invariant holds in every reachable state of a TunNat.
THEOREM TunNatInvariant == Spec => []IndInv
<1> QED
  BY InitInv, NextInv, PTL DEF Spec

\* Type correctness of the table (TypeOK), for every port range and limit.
THEOREM TunNatTypeOK == Spec => []TypeOK
<1>1. IndInv => TypeOK
  BY DEF IndInv
<1> QED
  BY <1>1, TunNatInvariant, PTL

\* The two maps are inverse to each other, and lru_ lists exactly the mapped
\* ports, each once (CopiesAgree).
THEOREM TunNatCopiesAgree == Spec => []CopiesAgree
<1>1. IndInv => CopiesAgree
  BY DEF IndInv, CopiesAgree
<1> QED
  BY <1>1, TunNatInvariant, PTL

\* The number of sessions never exceeds max_sessions_.
THEOREM TunNatSizeBound == Spec => []SizeBound
<1>1. IndInv => SizeBound
  BY DEF IndInv
<1> QED
  BY <1>1, TunNatInvariant, PTL

\* A table whose limit fits the port range never loops in the port search.
THEOREM TunNatNeverHangs == Spec => []NeverHangs
<1>1. IndInv => NeverHangs
  BY DEF IndInv
<1> QED
  BY <1>1, TunNatInvariant, PTL

-----------------------------------------------------------------------------
(***************************************************************************)
(* TunNat implements NatSpec.  With map taken to forward_, a miss of       *)
(* lookup_or_create is Create(k, k2), where k2 is the flow whose session   *)
(* was evicted, or k itself when none was.                                 *)
(***************************************************************************)

\* NatSpec counts with its own instance of FiniteSets.
LEMMA SameCardinality == \A S : Abstract!Cardinality(S) = Cardinality(S)
BY Zenon DEF Abstract!Cardinality, Cardinality, Abstract!IsFiniteSet, IsFiniteSet

\* Size counts the flows that have a port as well as the ports in use.
LEMMA HoldersCount ==
  ASSUME NEW t, WellFormed(t)
  PROVE  Cardinality(Abstract!Holders(t.forward)) = Size(t)
<1> DEFINE H == Abstract!Holders(t.forward)
           f == [p \in Used(t) |-> t.reverse[p]]
<1>1. IsFiniteSet(Used(t))
  BY UsedFacts
<1>2. f \in Bijection(Used(t), H)
  <2>1. \A p \in Used(t) : f[p] \in H /\ t.forward[f[p]] = p
    BY PortFacts DEF WellFormed, Tables, Inverse2, Used, Abstract!Holders
  <2>2. \A k \in H : t.forward[k] \in Used(t) /\ f[t.forward[k]] = k
    BY NatTableAssumption DEF WellFormed, Tables, Inverse2, Used, Abstract!Holders
  <2> HIDE DEF H
  <2>3. f \in [Used(t) -> H]
    BY <2>1
  <2>4. \A p, q \in Used(t) : f[p] = f[q] => p = q
    BY <2>1
  <2>5. \A k \in H : \E p \in Used(t) : f[p] = k
    BY <2>2
  <2> HIDE DEF f
  <2> QED
    BY <2>3, <2>4, <2>5, Fun_IsBij
<1> HIDE DEF H, f
<1>3. Cardinality(Used(t)) = Cardinality(H)
  BY <1>1, <1>2, FS_Bijection DEF ExistsBijection
<1> QED
  BY <1>3 DEF Size, H

\* A port is held by a flow exactly when it is in reverse_.
LEMMA HeldPortsUsed ==
  ASSUME NEW t, WellFormed(t)
  PROVE  Abstract!HeldPorts(t.forward) = Used(t)
<1>1. ASSUME NEW p \in Used(t) PROVE p \in Abstract!HeldPorts(t.forward)
  <2>1. t.reverse[p] \in FlowKeys /\ t.forward[t.reverse[p]] = p
    BY PortFacts DEF WellFormed, Tables, Inverse2, Used
  <2> QED
    BY <2>1, PortFacts DEF Used, Abstract!HeldPorts, Abstract!Holders
<1>2. ASSUME NEW p \in Abstract!HeldPorts(t.forward) PROVE p \in Used(t)
  BY <1>2, NatTableAssumption
     DEF WellFormed, Tables, Inverse2, Used, Abstract!HeldPorts, Abstract!Holders
<1> QED
  BY <1>1, <1>2

\* Every step of a TunNat is a step of NatSpec, or changes none of what
\* NatSpec speaks of.
LEMMA NextImplements == IndInv /\ [Next]_vars => [Abstract!Next]_Abstract!vars
<1> SUFFICES ASSUME IndInv, Next PROVE Abstract!Next \/ UNCHANGED Abstract!vars
  BY DEF vars, Abstract!vars
<1>1. WellFormed(nat) /\ WithinLimit(nat)
  BY IndInvTable
<1>2. ASSUME NEW k \in FlowKeys, LookupOrCreate(k), nat.forward[k] # NoPort
      PROVE  Abstract!Next
  <2> DEFINE r == lookup_or_create(nat, k)
  <2>1. /\ r.table.forward = nat.forward
        /\ r.nat_port = nat.forward[k]
        /\ r.evicted = NoPort
    BY <1>1, <1>2, LookupHit
  <2>2. /\ ~hung
        /\ nat' = r.table
        /\ ret' = [op |-> "port", nat_port |-> r.nat_port, evicted |-> r.evicted]
        /\ hung' = hung
    BY <1>2 DEF LookupOrCreate
  <2> HIDE DEF r
  <2>3. Abstract!Lookup(k)
    BY <1>2, <2>1, <2>2 DEF Abstract!Lookup
  <2> QED
    BY <2>2, <2>3 DEF Abstract!Next
<1>3. ASSUME NEW k \in FlowKeys, LookupOrCreate(k), nat.forward[k] = NoPort
      PROVE  Abstract!Next
  <2> DEFINE r == lookup_or_create(nat, k)
             p == r.nat_port
             e == r.evicted
  <2>1. /\ WellFormed(r.table) /\ WithinLimit(r.table)
        /\ p \in Ports
        /\ e \in Used(nat) \cup {NoPort}
        /\ nat.reverse[p] = NoKey \/ p = e
        /\ \A j \in FlowKeys :
              r.table.forward[j] = IF j = k THEN p
                                   ELSE IF nat.forward[j] = e THEN NoPort
                                   ELSE nat.forward[j]
    BY <1>1, <1>3, LookupMiss DEF LookupOrCreate
  <2>2. /\ ~hung
        /\ nat' = r.table
        /\ ret' = [op |-> "port", nat_port |-> p, evicted |-> e]
        /\ hung' = hung
    BY <1>3 DEF LookupOrCreate
  <2> HIDE DEF r
  <2>3. PICK k2 \in FlowKeys : nat.forward[k2] = e
    <3>1. CASE e = NoPort
      BY <1>3, <3>1
    <3>2. CASE e \in Used(nat)
      BY <1>1, <3>2, PortFacts DEF Used, WellFormed, Tables, Inverse2
    <3> QED
      BY <2>1, <3>1, <3>2
  <2> DEFINE rest == [nat.forward EXCEPT ![k2] = NoPort]
  <2>4. /\ nat.forward \in [FlowKeys -> Ports \cup {NoPort}]
        /\ nat'.forward \in [FlowKeys -> Ports \cup {NoPort}]
    BY <1>1, <2>1, <2>2 DEF WellFormed, Tables
  <2>5. \A j \in FlowKeys : nat.forward[j] = e /\ e # NoPort => j = k2
    BY <1>1, <2>3 DEF WellFormed, Inverse2
  <2>6. nat'.forward = [rest EXCEPT ![k] = p]
    <3>1. \A j \in FlowKeys : nat'.forward[j] = [rest EXCEPT ![k] = p][j]
      BY <2>1, <2>2, <2>3, <2>4, <2>5
    <3>2. [rest EXCEPT ![k] = p] \in [FlowKeys -> Ports \cup {NoPort}]
      BY <2>1, <2>4
    <3> QED
      BY <2>4, <3>1, <3>2
  <2>7. p \notin Abstract!HeldPorts(rest)
    <3> SUFFICES ASSUME NEW j \in FlowKeys, rest[j] # NoPort, rest[j] = p
                 PROVE  FALSE
      BY DEF Abstract!HeldPorts, Abstract!Holders
    <3>1. j # k2 /\ nat.forward[j] = p
      BY <2>4
    <3>2. nat.reverse[p] = j
      BY <1>1, <3>1, <2>1, PortFacts DEF WellFormed, Inverse2
    <3> QED
      BY <2>1, <2>3, <2>5, <3>1, <3>2, NatTableAssumption, PortFacts
  <2>8. MaxSessions # 0
          => Abstract!Cardinality(Abstract!Holders(nat'.forward)) <= MaxSessions
    BY <2>1, <2>2, HoldersCount, SameCardinality DEF WithinLimit
  <2>9. Abstract!Create(k, k2)
    BY <1>3, <2>1, <2>2, <2>3, <2>6, <2>7, <2>8 DEF Abstract!Create
  <2> QED
    BY <2>2, <2>9 DEF Abstract!Next
<1>4. ASSUME NEW k \in FlowKeys, AllocateForever(k) PROVE Abstract!Next
  <2>1. ~(MaxSessions # 0 /\ MaxSessions <= PortSpan - FirstPort)
    BY <1>1, <1>4, NeverExhausted DEF AllocateForever
  <2>2. MaxSessions = 0 \/ Abstract!Cardinality(Ports) < MaxSessions
    BY <2>1, PortFacts, SameCardinality, NatTableAssumption
  <2>3. MakeRoom(nat).table = nat
    <3>1. Size(nat) <= PortSpan - FirstPort
      BY UsedFacts
    <3> QED
      BY <2>1, <3>1, UsedFacts, NatTableAssumption DEF MakeRoom
  <2>4. Used(nat) = Ports
    BY <1>4, <2>3, UsedFacts DEF AllocateForever, Exhausted, Free
  <2>5. Abstract!HeldPorts(nat.forward) = Ports
    BY <1>1, <2>4, HeldPortsUsed
  <2>6. Abstract!Hang
    BY <1>4, <2>2, <2>5 DEF AllocateForever, Abstract!Hang
  <2> QED
    BY <1>4, <2>6 DEF AllocateForever, Abstract!Next
<1>5. ASSUME NEW p \in UInt16, Erase(p) PROVE Abstract!Next
  <2>1. /\ WellFormed(nat')
        /\ \A k \in FlowKeys :
              nat'.forward[k] = IF nat.forward[k] = p THEN NoPort ELSE nat.forward[k]
    BY <1>1, <1>5, EraseFacts DEF Erase
  <2>2. nat'.forward = [k \in FlowKeys |-> IF nat.forward[k] = p THEN NoPort
                                           ELSE nat.forward[k]]
    BY <2>1 DEF WellFormed, Tables
  <2>3. Abstract!Erase(p)
    BY <1>5, <2>2 DEF Erase, Abstract!Erase
  <2> QED
    BY <1>5, <2>3 DEF Erase, Abstract!Next
<1>6. ASSUME NEW p \in UInt16, LookupBack(p) PROVE Abstract!Next
  <2>1. CASE nat.reverse[p] = NoKey
    <3>1. p \notin Abstract!HeldPorts(nat.forward)
      BY <1>1, <2>1, HeldPortsUsed DEF Used
    <3> QED
      BY <1>6, <2>1, <3>1
         DEF LookupBack, lookup_back, Abstract!Next, Abstract!LookupBack
  <2>2. CASE nat.reverse[p] # NoKey
    <3>1. nat.reverse[p] \in FlowKeys /\ nat.forward[nat.reverse[p]] = p
      BY <1>1, <2>2 DEF WellFormed, Tables, Inverse2
    <3>2. Abstract!LookupBack(p)
      BY <1>6, <3>1 DEF LookupBack, lookup_back, Abstract!LookupBack
    <3> QED
      BY <1>6, <3>2 DEF LookupBack, Abstract!Next
  <2> QED
    BY <2>1, <2>2
<1> QED
  BY <1>2, <1>3, <1>4, <1>5, <1>6 DEF Next

\* A TunNat, with whatever limit, keeps its promise to the packet and relay
\* code (AbstractSpec): a partial injection of flows to ports, in which a
\* lookup disturbs at most the one flow it reports as evicted.
THEOREM TunNatImplementsNatSpec == Spec => AbstractSpec
<1>1. Init => Abstract!Init
  BY DEF Init, Abstract!Init, EmptyTable
<1> QED
  BY <1>1, NextImplements, TunNatInvariant, PTL DEF Spec, AbstractSpec, Abstract!Spec
-----------------------------------------------------------------------------
(***************************************************************************)
(* The session that is evicted is the one looked up least recently.  The   *)
(* history since only records; lru_ agrees with it in every state.         *)
(***************************************************************************)

LruOrder ==
    \A a, b \in Ports :
       Ordered(nat.lru, a, b) => << nat.reverse[a], nat.reverse[b] >> \in since

\* A port in lru_ has a key, and that key has the port.
LEMMA ListedPorts ==
  ASSUME NEW t, WellFormed(t), NEW a, NEW b, Ordered(t.lru, a, b)
  PROVE  /\ a \in Used(t) /\ t.reverse[a] \in FlowKeys /\ t.forward[t.reverse[a]] = a
         /\ b \in Used(t) /\ t.reverse[b] \in FlowKeys /\ t.forward[t.reverse[b]] = b
<1>1. t.lru \in Seq(Ports) /\ Holds(t.lru, a) /\ Holds(t.lru, b)
  BY DEF WellFormed, Tables, Ordered, Holds
<1>2. a \in Ports /\ b \in Ports
  BY <1>1 DEF Holds
<1> QED
  BY <1>1, <1>2, PortFacts DEF WellFormed, Tables, Inverse2, LruExact, Used, Holds

\* What lookup_or_create does to the order of lru_: its port goes to the back.
LEMMA LookupOrder ==
  ASSUME NEW t, WellFormed(t), WithinLimit(t), NEW k \in FlowKeys, ~Exhausted(t, k)
  PROVE  LET r == lookup_or_create(t, k)
         IN  /\ \A a, b : Ordered(r.table.lru, a, b)
                          => a # r.nat_port /\ (Ordered(t.lru, a, b) \/ b = r.nat_port)
             /\ r.evicted # NoPort =>
                   \A a \in Used(t) : a # r.evicted => Ordered(t.lru, r.evicted, a)
<1>1. CASE t.forward[k] # NoPort
  <2> DEFINE p == t.forward[k]
             q == touch_locked(t.lru, p)
             u == [t EXCEPT !.lru = q]
  <2>1. t \in Tables /\ p \in Ports /\ t.lru \in Seq(Ports) /\ Distinct(t.lru)
    BY <1>1 DEF WellFormed, Tables, LruExact, Distinct
  <2>2. \A a, b : Ordered(q, a, b) => a # p /\ (Ordered(t.lru, a, b) \/ b = p)
    BY <2>1, TouchDistinct
  <2>3. lookup_or_create(t, k)
          = [table |-> u, nat_port |-> p, evicted |-> NoPort]
    BY <1>1 DEF lookup_or_create
  <2> HIDE DEF q
  <2>4. u.lru = q
    BY <2>1 DEF Tables
  <2> HIDE DEF p, u
  <2> QED
    BY <2>2, <2>3, <2>4
<1>2. CASE t.forward[k] = NoPort
  <2> DEFINE m == MakeRoom(t)
             p == allocate_port_locked(m.table)
             q == touch_locked(m.table.lru, p)
             u == Insert(m.table, k, p)
  <2>1. /\ WellFormed(m.table)
        /\ \A a, b : Ordered(m.table.lru, a, b) => Ordered(t.lru, a, b)
        /\ m.port # NoPort =>
              \A a \in Used(t) : a # m.port => Ordered(t.lru, m.port, a)
    BY MakeRoomFacts
  <2>2. p \in Ports
    BY <1>2, AllocateFacts DEF Exhausted, Free
  <2>3. lookup_or_create(t, k) = [table |-> u, nat_port |-> p, evicted |-> m.port]
    BY <1>2 DEF lookup_or_create
  <2> HIDE DEF m, p
  <2>4. m.table \in Tables /\ m.table.lru \in Seq(Ports) /\ Distinct(m.table.lru)
    BY <2>1 DEF WellFormed, Tables, LruExact, Distinct
  <2>5. \A a, b : Ordered(q, a, b) => a # p /\ (Ordered(m.table.lru, a, b) \/ b = p)
    BY <2>2, <2>4, TouchDistinct
  <2>6. u.lru = q
    BY <2>4 DEF Insert, Tables
  <2> HIDE DEF q, u
  <2> QED
    BY <2>1, <2>3, <2>5, <2>6
<1> QED
  BY <1>1, <1>2

\* lru_ and the history agree after every step.
LEMMA OrderStep == IndInv /\ LruOrder /\ [MCNext]_mcVars => LruOrder'
<1> SUFFICES ASSUME IndInv, LruOrder, [MCNext]_mcVars, NEW a \in Ports, NEW b \in Ports,
                    Ordered(nat'.lru, a, b)
             PROVE  << nat'.reverse[a], nat'.reverse[b] >> \in since'
  BY DEF LruOrder
<1>1. WellFormed(nat) /\ WithinLimit(nat) /\ a \in UInt16 /\ b \in UInt16
  BY IndInvTable, PortFacts
<1>2. ASSUME NEW k \in FlowKeys, LookupOrCreate(k),
             since' = {q \in since : q[1] # k} \cup ((FlowKeys \ {k}) \X {k})
      PROVE  << nat'.reverse[a], nat'.reverse[b] >> \in since'
  <2> DEFINE r == lookup_or_create(nat, k)
             p == r.nat_port
  <2>1. nat' = r.table /\ ~Exhausted(nat, k)
    BY <1>2 DEF LookupOrCreate
  <2>2. /\ WellFormed(nat') /\ p \in Ports
        /\ nat'.reverse[p] = k
        /\ \A c \in UInt16 : c # p /\ nat'.reverse[c] # NoKey => nat'.reverse[c] = nat.reverse[c]
    <3>1. CASE nat.forward[k] # NoPort
      BY <1>1, <2>1, <3>1, LookupHit
    <3>2. CASE nat.forward[k] = NoPort
      <4>1. /\ WellFormed(r.table) /\ r.nat_port \in Ports
            /\ \A c \in UInt16 :
                  r.table.reverse[c] = IF c = r.nat_port THEN k
                                       ELSE IF c = r.evicted THEN NoKey
                                       ELSE nat.reverse[c]
        BY <1>1, <2>1, <3>2, LookupMiss
      <4> HIDE DEF r
      <4> QED
        BY <2>1, <4>1, PortFacts
    <3> QED
      BY <3>1, <3>2
  <2>3. a # p /\ (Ordered(nat.lru, a, b) \/ b = p)
    BY <1>1, <2>1, LookupOrder
  <2> HIDE DEF r, p
  <2>4. /\ a \in Used(nat') /\ nat'.reverse[a] \in FlowKeys
        /\ b \in Used(nat') /\ nat'.reverse[b] \in FlowKeys
    BY <2>2, ListedPorts
  <2>5. nat'.reverse[a] # k
    BY <2>2, <2>3, <2>4 DEF WellFormed, Inverse2, Used
  <2>6. CASE b = p
    BY <1>2, <2>2, <2>4, <2>5, <2>6
  <2>7. CASE b # p
    <3>1. nat'.reverse[a] = nat.reverse[a] /\ nat'.reverse[b] = nat.reverse[b]
      BY <1>1, <2>2, <2>3, <2>4, <2>7 DEF Used
    <3>2. << nat.reverse[a], nat.reverse[b] >> \in since
      BY <2>3, <2>7 DEF LruOrder
    <3> DEFINE x == << nat.reverse[a], nat.reverse[b] >>
    <3>3. x \in since /\ x[1] # k
      BY <2>5, <3>1, <3>2
    <3> HIDE DEF x
    <3>4. x \in since'
      BY <1>2, <3>3
    <3> QED
      BY <3>1, <3>4 DEF x
  <2> QED
    BY <2>6, <2>7
<1>3. ASSUME NEW p \in UInt16, Erase(p), since' = since
      PROVE  << nat'.reverse[a], nat'.reverse[b] >> \in since'
  <2>1. /\ WellFormed(nat')
        /\ \A c \in UInt16 : nat'.reverse[c] = IF c = p THEN NoKey ELSE nat.reverse[c]
    <3> DEFINE u == erase(nat, p)
    <3>1. /\ WellFormed(u)
          /\ \A c \in UInt16 : u.reverse[c] = IF c = p THEN NoKey ELSE nat.reverse[c]
      BY <1>1, EraseFacts
    <3>2. nat' = u
      BY <1>3 DEF Erase
    <3> HIDE DEF u
    <3> QED
      BY <3>1, <3>2
  <2>2. Ordered(nat.lru, a, b)
    <3>1. CASE nat.reverse[p] = NoKey
      BY <1>3, <3>1 DEF Erase, erase
    <3>2. CASE nat.reverse[p] # NoKey
      <4> DEFINE q == RemoveFirst(nat.lru, p)
      <4>1. nat \in Tables /\ nat.lru \in Seq(Ports) /\ Distinct(nat.lru)
        BY <1>1 DEF WellFormed, Tables, LruExact, Distinct
      <4>2. \A c, d : Ordered(q, c, d) => Ordered(nat.lru, c, d)
        BY <4>1, RemoveFirstDistinct
      <4>3. nat' = Unmap(nat, p, q)
        BY <1>3, <3>2 DEF Erase, erase
      <4> HIDE DEF q
      <4>4. nat'.lru = q
        BY <4>1, <4>3 DEF Unmap, Tables
      <4> QED
        BY <4>2, <4>4
    <3> QED
      BY <3>1, <3>2
  <2>3. a \in Used(nat') /\ b \in Used(nat')
    BY <2>1, ListedPorts
  <2>4. nat'.reverse[a] = nat.reverse[a] /\ nat'.reverse[b] = nat.reverse[b]
    BY <1>1, <2>1, <2>3 DEF Used
  <2> QED
    BY <1>3, <2>2, <2>4 DEF LruOrder
<1>4. ASSUME nat' = nat, since' = since
      PROVE  << nat'.reverse[a], nat'.reverse[b] >> \in since'
  BY <1>4 DEF LruOrder
<1>5. ASSUME NEW k \in FlowKeys, AllocateForever(k), UNCHANGED since
      PROVE  nat' = nat /\ since' = since
  BY <1>5 DEF AllocateForever
<1>6. ASSUME NEW p \in UInt16, LookupBack(p), UNCHANGED since
      PROVE  nat' = nat /\ since' = since
  BY <1>6 DEF LookupBack
<1>7. UNCHANGED mcVars => nat' = nat /\ since' = since
  BY DEF mcVars
<1> QED
  BY <1>2, <1>3, <1>4, <1>5, <1>6, <1>7 DEF MCNext

\* The step of EvictsLeastRecentlyUsed.
LEMMA EvictionStep ==
  ASSUME IndInv, LruOrder, [MCNext]_mcVars, NEW k \in FlowKeys, NEW k2 \in FlowKeys,
         nat' # nat, ret'.op = "port", ret'.evicted # NoPort,
         nat.forward[k] = ret'.evicted, nat.forward[k2] # NoPort, k2 # k
  PROVE  << k, k2 >> \in since
<1>1. WellFormed(nat) /\ WithinLimit(nat)
  BY IndInvTable
<1>2. PICK j \in FlowKeys : LookupOrCreate(j)
  <2>1. ASSUME NEW p \in UInt16 PROVE ~Erase(p)
    BY <2>1 DEF Erase
  <2>2. ASSUME NEW p \in UInt16 PROVE ~LookupBack(p)
    BY <2>2 DEF LookupBack
  <2>3. ASSUME NEW i \in FlowKeys PROVE ~AllocateForever(i)
    BY <2>3 DEF AllocateForever
  <2> QED
    BY <2>1, <2>2, <2>3 DEF MCNext, mcVars
<1> DEFINE r == lookup_or_create(nat, j)
<1>3. ret'.evicted = r.evicted /\ ~Exhausted(nat, j)
  BY <1>2 DEF LookupOrCreate
<1>4. \A a \in Used(nat) : a # r.evicted => Ordered(nat.lru, r.evicted, a)
  BY <1>1, <1>3, LookupOrder
<1> HIDE DEF r
<1> DEFINE e == nat.forward[k]
           f == nat.forward[k2]
<1>5. /\ e \in Ports /\ nat.reverse[e] = k
      /\ f \in Ports /\ nat.reverse[f] = k2 /\ f \in Used(nat)
  BY <1>1, NatTableAssumption DEF WellFormed, Tables, Inverse2, Used
<1> HIDE DEF e, f
<1>6. f # e
  BY <1>5
<1>7. Ordered(nat.lru, e, f)
  BY <1>3, <1>4, <1>5, <1>6 DEF e
<1>8. << nat.reverse[e], nat.reverse[f] >> \in since
  BY <1>5, <1>7 DEF LruOrder
<1> QED
  BY <1>5, <1>8

\* Eviction takes the session whose flow has been silent longest
\* (EvictsLeastRecentlyUsed), for every set of flows, port range and limit.
THEOREM TunNatEvictsLeastRecentlyUsed == MCSpec => EvictsLeastRecentlyUsed
<1> DEFINE Inv == IndInv /\ LruOrder
           Evicts == \A k, k2 \in FlowKeys :
              /\ nat' # nat
              /\ ret'.op = "port"
              /\ ret'.evicted # NoPort
              /\ nat.forward[k] = ret'.evicted
              /\ nat.forward[k2] # NoPort
              /\ k2 # k
              => << k, k2 >> \in since
<1>1. MCInit => Inv
  <2> SUFFICES ASSUME MCInit PROVE Inv
    OBVIOUS
  <2>1. IndInv
    BY InitInv DEF MCInit
  <2>2. nat.lru = << >>
    BY DEF MCInit, Init, EmptyTable
  <2>3. LruOrder
    BY <2>2 DEF LruOrder, Ordered
  <2> QED
    BY <2>1, <2>3
<1>2. Inv /\ [MCNext]_mcVars => Inv'
  <2> SUFFICES ASSUME Inv, [MCNext]_mcVars PROVE Inv'
    OBVIOUS
  <2>1. [Next]_vars
    BY DEF MCNext, mcVars, Next, vars
  <2> QED
    BY <2>1, NextInv, OrderStep
<1>3. Inv /\ [MCNext]_mcVars => [Evicts]_mcVars
  BY EvictionStep
<1> HIDE DEF Inv
<1> QED
  BY <1>1, <1>2, <1>3, PTL DEF MCSpec, EvictsLeastRecentlyUsed
=============================================================================
