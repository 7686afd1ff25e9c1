--------------------------- MODULE NatTableProofs ---------------------------
(***************************************************************************)
(* Lemmas about the member functions of TunNat as operators on a table,    *)
(* for every set of flow keys, every port range and every session limit.   *)
(* The proofs about TunNat, TunTcp and TunUdp cite them.                   *)
(***************************************************************************)
EXTENDS NatTable, FiniteSetTheorems, SequenceTheorems, WellFoundedInduction, TLAPS

-----------------------------------------------------------------------------
(***************************************************************************)
(* Minimum of a set of naturals; sequences without repetition.             *)
(***************************************************************************)

\* Min picks the least element of any non-empty set of naturals.
LEMMA MinNat ==
  ASSUME NEW S \in SUBSET Nat, S # {}
  PROVE  Min(S) \in S /\ \A y \in S : Min(S) <= y
<1>1. \E x \in S : \A y \in S : << y, x >> \notin OpToRel(<, Nat)
  BY NatLessThanWellFounded, WFMin, Zenon
<1>2. PICK x \in S : \A y \in S : << y, x >> \notin OpToRel(<, Nat)
  BY <1>1
<1>3. ASSUME NEW y \in S PROVE x <= y
  <2>1. << y, x >> \in Nat \X Nat /\ << y, x >>[1] = y /\ << y, x >>[2] = x
    OBVIOUS
  <2>2. y < x => << y, x >> \in OpToRel(<, Nat)
    BY <2>1, Zenon DEF OpToRel
  <2>3. ~(y < x)
    BY <1>2, <2>2, Zenon
  <2> QED
    BY <2>3
<1> QED
  BY <1>3 DEF Min

Distinct(s) == \A i, j \in DOMAIN s : s[i] = s[j] => i = j
Holds(s, p) == \E i \in DOMAIN s : s[i] = p
Ordered(s, a, b) == \E i, j \in DOMAIN s : i < j /\ s[i] = a /\ s[j] = b

\* lru_.erase(find(p)) takes exactly p out of a list without repetition and
\* keeps the order of the others.
LEMMA RemoveFirstDistinct ==
  ASSUME NEW T, NEW s \in Seq(T), NEW p, Distinct(s)
  PROVE  /\ RemoveFirst(s, p) \in Seq(T)
         /\ Distinct(RemoveFirst(s, p))
         /\ \A q : Holds(RemoveFirst(s, p), q) <=> Holds(s, q) /\ q # p
         /\ \A a, b : Ordered(RemoveFirst(s, p), a, b) => Ordered(s, a, b)
<1>1. CASE ~ \E i \in 1 .. Len(s) : s[i] = p
  BY <1>1 DEF RemoveFirst, Holds
<1>2. CASE \E i \in 1 .. Len(s) : s[i] = p
  <2> DEFINE I == {i \in 1 .. Len(s) : s[i] = p}
             k == SelectInSeq(s, LAMBDA v : v = p)
             r == RemoveAt(s, k)
  <2>1. k \in 1 .. Len(s) /\ s[k] = p
    <3>1. I \in SUBSET Nat /\ I # {}
      BY <1>2
    <3>2. Min(I) \in I
      BY <3>1, MinNat
    <3>3. k = Min(I)
      BY <3>1 DEF SelectInSeq
    <3> QED
      BY <3>2, <3>3
  <2>2. RemoveFirst(s, p) = r
    BY <1>2 DEF RemoveFirst
  <2> HIDE DEF k
  <2>3. /\ r \in Seq(T)
        /\ Len(r) = Len(s) - 1
        /\ \A i \in 1 .. Len(r) : r[i] = IF i < k THEN s[i] ELSE s[i + 1]
    <3> DEFINE u == SubSeq(s, 1, k - 1)
               v == SubSeq(s, k + 1, Len(s))
    <3>1. /\ u \in Seq(T) /\ Len(u) = k - 1
          /\ \A i \in 1 .. Len(u) : u[i] = s[i]
      BY <2>1, SubSeqProperties
    <3>2. /\ v \in Seq(T) /\ Len(v) = Len(s) - k
          /\ \A i \in 1 .. Len(v) : v[i] = s[i + k]
      BY <2>1, SubSeqProperties
    <3>3. r = u \o v
      BY DEF RemoveAt
    <3> HIDE DEF u, v, r
    <3>4. /\ r \in Seq(T) /\ Len(r) = Len(u) + Len(v)
          /\ \A i \in 1 .. Len(r) :
                r[i] = IF i <= Len(u) THEN u[i] ELSE v[i - Len(u)]
      <4>1. u \in Seq(T) /\ v \in Seq(T)
        BY <3>1, <3>2
      <4> QED
        BY <4>1, <3>3, ConcatProperties
    <3>5. ASSUME NEW i \in 1 .. Len(r)
          PROVE  r[i] = IF i < k THEN s[i] ELSE s[i + 1]
      <4>1. CASE i < k
        BY <4>1, <2>1, <3>1, <3>4
      <4>2. CASE i >= k
        <5>1. i - Len(u) \in 1 .. Len(v) /\ ~(i <= Len(u))
          BY <4>2, <2>1, <3>1, <3>2, <3>4
        <5>2. v[i - Len(u)] = s[(i - Len(u)) + k]
          BY <5>1, <3>2
        <5>3. (i - Len(u)) + k = i + 1
          BY <2>1, <3>1
        <5> QED
          BY <4>2, <5>1, <5>2, <5>3, <3>4, <2>1
      <4> QED
        BY <4>1, <4>2, <2>1
    <3> QED
      BY <2>1, <3>1, <3>2, <3>4, <3>5
  <2> HIDE DEF r
  <2>4. Distinct(r)
    BY <2>1, <2>3 DEF Distinct
  <2>5. ASSUME NEW q, Holds(r, q)
        PROVE  Holds(s, q) /\ q # p
    BY <2>1, <2>3, <2>5 DEF Holds, Distinct
  <2>6. ASSUME NEW q, Holds(s, q), q # p
        PROVE  Holds(r, q)
    <3>1. PICK i \in 1 .. Len(s) : s[i] = q
      BY <2>6 DEF Holds
    <3>2. CASE i < k
      BY <3>1, <3>2, <2>1, <2>3 DEF Holds
    <3>3. CASE i > k
      <4>1. i - 1 \in DOMAIN r /\ r[i - 1] = q
        BY <3>1, <3>3, <2>1, <2>3
      <4> QED
        BY <4>1 DEF Holds
    <3> QED
      BY <3>1, <3>2, <3>3, <2>1, <2>6
  <2>7. ASSUME NEW a, NEW b, Ordered(r, a, b)
        PROVE  Ordered(s, a, b)
    <3>1. PICK i \in 1 .. Len(r), j \in 1 .. Len(r) : i < j /\ r[i] = a /\ r[j] = b
      BY <2>3, <2>7 DEF Ordered
    <3> DEFINE i2 == IF i < k THEN i ELSE i + 1
               j2 == IF j < k THEN j ELSE j + 1
    <3>2. i2 \in 1 .. Len(s) /\ j2 \in 1 .. Len(s) /\ i2 < j2
      BY <2>1, <2>3, <3>1
    <3>3. s[i2] = a /\ s[j2] = b
      BY <2>3, <3>1
    <3> HIDE DEF i2, j2
    <3> QED
      BY <3>2, <3>3 DEF Ordered
  <2> QED
    BY <2>2, <2>3, <2>4, <2>5, <2>6, <2>7
<1> QED
  BY <1>1, <1>2

\* touch_locked puts p at the back and keeps the list without repetition.
LEMMA TouchDistinct ==
  ASSUME NEW T, NEW s \in Seq(T), NEW p \in T, Distinct(s)
  PROVE  /\ touch_locked(s, p) \in Seq(T)
         /\ Distinct(touch_locked(s, p))
         /\ \A q : Holds(touch_locked(s, p), q) <=> Holds(s, q) \/ q = p
         /\ \A b, c : Ordered(touch_locked(s, p), b, c)
                       => b # p /\ Holds(s, b) /\ (Ordered(s, b, c) \/ c = p)
<1> DEFINE r == RemoveFirst(s, p)
           a == Append(r, p)
<1>1. /\ r \in Seq(T)
      /\ Distinct(r)
      /\ \A q : Holds(r, q) <=> Holds(s, q) /\ q # p
      /\ \A b, c : Ordered(r, b, c) => Ordered(s, b, c)
  BY RemoveFirstDistinct
<1> HIDE DEF r
<1>2. /\ a \in Seq(T)
      /\ Len(a) = Len(r) + 1
      /\ \A i \in 1 .. Len(r) : a[i] = r[i]
      /\ a[Len(r) + 1] = p
  BY <1>1
<1>3. touch_locked(s, p) = a
  BY DEF touch_locked, r
<1> HIDE DEF a
<1>4. Distinct(a)
  <2> SUFFICES ASSUME NEW i \in DOMAIN a, NEW j \in DOMAIN a, a[i] = a[j]
               PROVE  i = j
    BY DEF Distinct
  <2>1. \A n \in 1 .. Len(r) : r[n] # p
    <3>1. ~Holds(r, p) /\ DOMAIN r = 1 .. Len(r)
      BY <1>1
    <3> QED
      BY <3>1 DEF Holds
  <2>2. CASE i \in 1 .. Len(r) /\ j \in 1 .. Len(r)
    BY <2>2, <1>1, <1>2 DEF Distinct
  <2>3. /\ i \in 1 .. Len(r) \/ i = Len(r) + 1
        /\ j \in 1 .. Len(r) \/ j = Len(r) + 1
    BY <1>1, <1>2
  <2>4. i \in 1 .. Len(r) => a[i] # p
    BY <1>2, <2>1
  <2>5. j \in 1 .. Len(r) => a[j] # p
    BY <1>2, <2>1
  <2> QED
    BY <2>2, <2>3, <2>4, <2>5, <1>2
<1>5. ASSUME NEW q PROVE Holds(a, q) <=> Holds(r, q) \/ q = p
  <2>1. /\ DOMAIN r = 1 .. Len(r) /\ DOMAIN a = DOMAIN r \cup {Len(r) + 1}
        /\ \A i \in DOMAIN r : a[i] = r[i]
    BY <1>1, <1>2
  <2> QED
    BY <1>2, <2>1 DEF Holds
<1>6. ASSUME NEW b, NEW c, Ordered(a, b, c)
      PROVE  b # p /\ Holds(s, b) /\ (Ordered(s, b, c) \/ c = p)
  <2>1. PICK i \in 1 .. Len(a), j \in 1 .. Len(a) : i < j /\ a[i] = b /\ a[j] = c
    BY <1>2, <1>6 DEF Ordered
  <2>2. i \in 1 .. Len(r) /\ r[i] = b
    BY <1>1, <1>2, <2>1
  <2>3. Holds(r, b)
    BY <1>1, <2>2 DEF Holds
  <2>4. CASE j \in 1 .. Len(r)
    <3>1. Ordered(r, b, c)
      BY <1>1, <1>2, <2>1, <2>2, <2>4 DEF Ordered
    <3> QED
      BY <1>1, <2>3, <3>1
  <2>5. CASE j = Len(r) + 1
    BY <1>1, <1>2, <2>1, <2>3, <2>5
  <2> QED
    BY <1>1, <1>2, <2>1, <2>4, <2>5
<1> QED
  BY <1>1, <1>2, <1>3, <1>4, <1>5, <1>6

-----------------------------------------------------------------------------
(***************************************************************************)
(* The operators of NatTable preserve the well-formedness of a table.      *)
(***************************************************************************)

WellFormed(t) ==
    /\ t \in Tables
    /\ \A p \in UInt16 \ Ports : t.reverse[p] = NoKey
    /\ Inverse2(t)
    /\ LruExact(t)

\* Elementary facts about the port range.
LEMMA PortFacts ==
  /\ Ports \subseteq UInt16
  /\ Ports \subseteq Nat
  /\ NoPort \notin UInt16
  /\ IsFiniteSet(Ports)
  /\ Cardinality(Ports) = PortSpan - FirstPort
  /\ \A p \in Ports : Succ16(p) \in UInt16
<1> USE NatTableAssumption DEF Ports, UInt16, NoPort
<1>1. IsFiniteSet(Ports) /\ Cardinality(Ports) = PortSpan - FirstPort
  BY FS_Interval
<1> QED
  BY <1>1 DEF Succ16

\* reverse_.size() is a natural number no larger than the number of ports.
LEMMA UsedFacts ==
  ASSUME NEW t
  PROVE  /\ IsFiniteSet(Used(t))
         /\ Used(t) \subseteq Ports
         /\ Size(t) \in Nat
         /\ Size(t) <= PortSpan - FirstPort
<1>1. Used(t) \in SUBSET Ports
  BY DEF Used
<1>2. IsFiniteSet(Used(t)) /\ Cardinality(Used(t)) <= Cardinality(Ports)
  BY <1>1, PortFacts, FS_Subset
<1> QED
  BY <1>1, <1>2, PortFacts, FS_CardinalityType DEF Size

\* The initial table is well formed and holds no session.
LEMMA EmptyWellFormed == WellFormed(EmptyTable) /\ Used(EmptyTable) = {}
<1>1. EmptyTable \in Tables
  BY NatTableAssumption, EmptySeq, PortFacts
     DEF EmptyTable, Tables, Ports, UInt16
<1>2. /\ \A p \in UInt16 : EmptyTable.reverse[p] = NoKey
      /\ \A k \in FlowKeys : EmptyTable.forward[k] = NoPort
      /\ EmptyTable.lru = << >>
  BY DEF EmptyTable
<1>3. DOMAIN EmptyTable.lru = {}
  BY <1>2
<1>4. LruExact(EmptyTable)
  BY <1>2, <1>3, PortFacts DEF LruExact
<1> QED
  BY <1>1, <1>2, <1>4, PortFacts DEF WellFormed, Inverse2, Used

\* Dropping a session from both maps removes exactly its port.
LEMMA UnmapFacts ==
  ASSUME NEW t, WellFormed(t), NEW p \in Ports, t.reverse[p] # NoKey,
         NEW q \in Seq(Ports)
  PROVE  /\ Unmap(t, p, q) \in Tables
         /\ \A r \in UInt16 \ Ports : Unmap(t, p, q).reverse[r] = NoKey
         /\ Inverse2(Unmap(t, p, q))
         /\ Used(Unmap(t, p, q)) = Used(t) \ {p}
         /\ Unmap(t, p, q).lru = q
         /\ \A r \in UInt16 :
               Unmap(t, p, q).reverse[r] = IF r = p THEN NoKey ELSE t.reverse[r]
         /\ \A k \in FlowKeys :
               Unmap(t, p, q).forward[k]
                 = IF t.forward[k] = p THEN NoPort ELSE t.forward[k]
<1> DEFINE u == Unmap(t, p, q)
<1>1. t.reverse[p] \in FlowKeys /\ t.forward[t.reverse[p]] = p
  BY PortFacts DEF WellFormed, Tables, Inverse2
<1>2. /\ u.forward = [t.forward EXCEPT ![t.reverse[p]] = NoPort]
      /\ u.reverse = [t.reverse EXCEPT ![p] = NoKey]
      /\ u.lru = q
      /\ u.next = t.next
      /\ u \in Tables
  BY <1>1, PortFacts DEF Unmap, WellFormed, Tables
<1> HIDE DEF u
<1>3. \A r \in UInt16 \ Ports : u.reverse[r] = NoKey
  BY <1>2 DEF WellFormed, Tables
<1>4. Inverse2(u)
  BY <1>1, <1>2, PortFacts, NatTableAssumption DEF WellFormed, Tables, Inverse2
<1>5. Used(u) = Used(t) \ {p}
  BY <1>2, PortFacts DEF WellFormed, Tables, Used
<1>6. \A k \in FlowKeys :
         u.forward[k] = IF t.forward[k] = p THEN NoPort ELSE t.forward[k]
  <2>1. \A k \in FlowKeys : t.forward[k] = p <=> k = t.reverse[p]
    BY <1>1, PortFacts DEF WellFormed, Inverse2
  <2> QED
    BY <1>1, <1>2, <2>1 DEF WellFormed, Tables
<1>7. \A r \in UInt16 : u.reverse[r] = IF r = p THEN NoKey ELSE t.reverse[r]
  BY <1>2, PortFacts DEF WellFormed, Tables
<1> QED
  BY <1>1, <1>2, <1>3, <1>4, <1>5, <1>6, <1>7 DEF u

\* erase(p) leaves a well-formed table without p and disturbs no other flow.
LEMMA EraseFacts ==
  ASSUME NEW t, WellFormed(t), NEW p \in UInt16
  PROVE  /\ WellFormed(erase(t, p))
         /\ Used(erase(t, p)) = Used(t) \ {p}
         /\ \A r \in UInt16 :
               erase(t, p).reverse[r] = IF r = p THEN NoKey ELSE t.reverse[r]
         /\ \A k \in FlowKeys :
               erase(t, p).forward[k]
                 = IF t.forward[k] = p THEN NoPort ELSE t.forward[k]
<1>1. CASE t.reverse[p] = NoKey
  <2>1. \A k \in FlowKeys : t.forward[k] # p
    BY <1>1, PortFacts, NatTableAssumption DEF WellFormed, Inverse2
  <2> QED
    BY <1>1, <2>1 DEF erase, Used
<1>2. CASE t.reverse[p] # NoKey
  <2>1. p \in Ports
    BY <1>2 DEF WellFormed
  <2>2. t.lru \in Seq(Ports) /\ Distinct(t.lru)
    BY DEF WellFormed, Tables, LruExact, Distinct
  <2> DEFINE q == RemoveFirst(t.lru, p)
             u == Unmap(t, p, q)
  <2>3. /\ q \in Seq(Ports)
        /\ Distinct(q)
        /\ \A r : Holds(q, r) <=> Holds(t.lru, r) /\ r # p
    BY <2>2, RemoveFirstDistinct
  <2>5. erase(t, p) = u
    BY <1>2 DEF erase
  <2> HIDE DEF q
  <2>6. /\ u \in Tables
        /\ \A r \in UInt16 \ Ports : u.reverse[r] = NoKey
        /\ Inverse2(u)
        /\ Used(u) = Used(t) \ {p}
        /\ u.lru = q
        /\ \A r \in UInt16 : u.reverse[r] = IF r = p THEN NoKey ELSE t.reverse[r]
        /\ \A k \in FlowKeys :
              u.forward[k] = IF t.forward[k] = p THEN NoPort ELSE t.forward[k]
    BY <1>2, <2>1, <2>3, UnmapFacts
  <2> HIDE DEF u
  <2>7. \A r \in Ports : r \in Used(u) <=> Holds(u.lru, r)
    BY <2>3, <2>6 DEF WellFormed, LruExact, Used, Holds
  <2>8. LruExact(u)
    BY <2>3, <2>6, <2>7 DEF LruExact, Used, Holds, Distinct
  <2> QED
    BY <2>5, <2>6, <2>8 DEF WellFormed
<1> QED
  BY <1>1, <1>2

\* On a table that holds a session, evict_one_locked takes exactly one out:
\* the one at the front of lru_.
LEMMA EvictFacts ==
  ASSUME NEW t, WellFormed(t), Used(t) # {}
  PROVE  LET r == evict_one_locked(t)
         IN  /\ r.port = t.lru[1]
             /\ r.port \in Used(t)
             /\ WellFormed(r.table)
             /\ Used(r.table) = Used(t) \ {r.port}
             /\ \A p \in UInt16 :
                   r.table.reverse[p] = IF p = r.port THEN NoKey ELSE t.reverse[p]
             /\ \A k \in FlowKeys :
                   r.table.forward[k]
                     = IF t.forward[k] = r.port THEN NoPort ELSE t.forward[k]
             /\ \A a, b : Ordered(r.table.lru, a, b) => Ordered(t.lru, a, b)
             /\ \A a \in Used(t) : a # r.port => Ordered(t.lru, r.port, a)
<1> DEFINE live == {i \in 1 .. Len(t.lru) : t.reverse[t.lru[i]] # NoKey}
           p == t.lru[1]
           q == SubSeq(t.lru, 2, Len(t.lru))
           u == Unmap(t, p, q)
<1>1. /\ t.lru \in Seq(Ports)
      /\ \A i \in 1 .. Len(t.lru) : t.lru[i] \in Used(t)
      /\ Distinct(t.lru)
  BY DEF WellFormed, Tables, LruExact, Used, Distinct
<1>2. Len(t.lru) >= 1 /\ live = 1 .. Len(t.lru)
  <2>1. PICK r \in Ports : t.reverse[r] # NoKey
    BY DEF Used
  <2>2. \E i \in DOMAIN t.lru : t.lru[i] = r
    BY <2>1 DEF WellFormed, LruExact
  <2> QED
    BY <1>1, <2>2 DEF Used
<1>3. Min(live) = 1
  <2>1. live \in SUBSET Nat /\ live # {} /\ 1 \in live
    BY <1>2
  <2>2. Min(live) \in live /\ Min(live) <= 1
    BY <2>1, MinNat
  <2> QED
    BY <1>2, <2>2
<1>4. evict_one_locked(t) = [table |-> u, port |-> p]
  <2>1. live # {}
    BY <1>2
  <2> HIDE DEF live
  <2>2. evict_one_locked(t)
          = [table |-> Unmap(t, t.lru[Min(live)],
                             SubSeq(t.lru, Min(live) + 1, Len(t.lru))),
             port  |-> t.lru[Min(live)]]
    BY <2>1 DEF evict_one_locked, live
  <2>3. 1 + 1 = 2
    OBVIOUS
  <2> QED
    BY <1>3, <2>2, <2>3
<1>5. p \in Ports /\ p \in Used(t) /\ t.reverse[p] # NoKey
  BY <1>1, <1>2 DEF Used
<1>6. /\ q \in Seq(Ports) /\ Len(q) = Len(t.lru) - 1
      /\ \A i \in 1 .. Len(q) : q[i] = t.lru[i + 1]
  BY <1>1, <1>2, SubSeqProperties
<1> HIDE DEF q
<1>7. /\ u \in Tables
      /\ \A r \in UInt16 \ Ports : u.reverse[r] = NoKey
      /\ Inverse2(u)
      /\ Used(u) = Used(t) \ {p}
      /\ u.lru = q
      /\ \A r \in UInt16 : u.reverse[r] = IF r = p THEN NoKey ELSE t.reverse[r]
      /\ \A k \in FlowKeys :
            u.forward[k] = IF t.forward[k] = p THEN NoPort ELSE t.forward[k]
  BY <1>5, <1>6, UnmapFacts
<1> HIDE DEF u
<1>8. Distinct(q)
  BY <1>1, <1>6 DEF Distinct
<1>9. ASSUME NEW r PROVE Holds(q, r) <=> Holds(t.lru, r) /\ r # p
  <2>1. Holds(q, r) => Holds(t.lru, r) /\ r # p
    BY <1>1, <1>2, <1>6 DEF Holds, Distinct
  <2>2. ASSUME NEW i \in 1 .. Len(t.lru), t.lru[i] = r, r # p
        PROVE  Holds(q, r)
    <3>1. i - 1 \in DOMAIN q /\ q[i - 1] = r
      BY <1>1, <1>2, <1>6, <2>2
    <3> QED
      BY <3>1 DEF Holds
  <2> QED
    BY <1>1, <2>1, <2>2 DEF Holds
<1>10. \A r \in Ports : r \in Used(u) <=> Holds(u.lru, r)
  BY <1>7, <1>9 DEF WellFormed, LruExact, Used, Holds
<1>11. LruExact(u)
  BY <1>7, <1>8, <1>10 DEF LruExact, Used, Holds, Distinct
<1>12. ASSUME NEW a, NEW b, Ordered(q, a, b) PROVE Ordered(t.lru, a, b)
  <2>1. PICK i \in 1 .. Len(q), j \in 1 .. Len(q) : i < j /\ q[i] = a /\ q[j] = b
    BY <1>6, <1>12 DEF Ordered
  <2>2. /\ i + 1 \in 1 .. Len(t.lru) /\ j + 1 \in 1 .. Len(t.lru) /\ i + 1 < j + 1
        /\ t.lru[i + 1] = a /\ t.lru[j + 1] = b
    BY <1>1, <1>6, <2>1
  <2> QED
    BY <1>1, <2>2 DEF Ordered
<1>13. ASSUME NEW a \in Used(t), a # p PROVE Ordered(t.lru, p, a)
  <2>1. PICK j \in DOMAIN t.lru : t.lru[j] = a
    BY <1>13 DEF Used, WellFormed, LruExact
  <2>2. 1 \in DOMAIN t.lru /\ 1 < j /\ t.lru[1] = p
    BY <1>1, <1>2, <1>13, <2>1
  <2> HIDE DEF p
  <2> QED
    BY <2>1, <2>2 DEF Ordered
<1> HIDE DEF p
<1> QED
  BY <1>4, <1>5, <1>7, <1>11, <1>12, <1>13 DEF WellFormed, p

\* allocate_port_locked returns an unmapped port whenever there is one.
LEMMA AllocateFacts ==
  ASSUME NEW t, Free(t) # {}
  PROVE  allocate_port_locked(t) \in Free(t)
<1> DEFINE ahead == {p \in Free(t) : p >= t.next}
<1>1. Free(t) \in SUBSET Nat /\ ahead \in SUBSET Nat
  BY PortFacts DEF Free
<1>2. Min(Free(t)) \in Free(t)
  BY <1>1, MinNat
<1>3. ahead # {} => Min(ahead) \in ahead
  BY <1>1, MinNat
<1> QED
  BY <1>2, <1>3 DEF allocate_port_locked

\* Inserting an unmapped key at a free port keeps the table well formed.
LEMMA InsertFacts ==
  ASSUME NEW t, WellFormed(t), NEW k \in FlowKeys, t.forward[k] = NoPort,
         NEW p \in Free(t)
  PROVE  /\ WellFormed(Insert(t, k, p))
         /\ Used(Insert(t, k, p)) = Used(t) \cup {p}
         /\ Insert(t, k, p).reverse = [t.reverse EXCEPT ![p] = k]
         /\ \A j \in FlowKeys :
               Insert(t, k, p).forward[j] = IF j = k THEN p ELSE t.forward[j]
<1> DEFINE u == Insert(t, k, p)
           q == touch_locked(t.lru, p)
<1>1. p \in Ports /\ p \in UInt16 /\ t.reverse[p] = NoKey
  BY PortFacts DEF Free, Used
<1>2. t.lru \in Seq(Ports) /\ Distinct(t.lru)
  BY DEF WellFormed, Tables, LruExact, Distinct
<1>3. /\ q \in Seq(Ports)
      /\ Distinct(q)
      /\ \A r : Holds(q, r) <=> Holds(t.lru, r) \/ r = p
  BY <1>1, <1>2, TouchDistinct
<1> HIDE DEF q
<1>4. Succ16(p) \in UInt16
  BY <1>1, PortFacts
<1>5. /\ u.forward = [t.forward EXCEPT ![k] = p]
      /\ u.reverse = [t.reverse EXCEPT ![p] = k]
      /\ u.lru = q
      /\ u \in Tables
  BY <1>1, <1>3, <1>4 DEF Insert, WellFormed, Tables, q
<1> HIDE DEF u
<1>6. \A r \in UInt16 \ Ports : u.reverse[r] = NoKey
  BY <1>1, <1>5 DEF WellFormed, Tables
<1>7. Inverse2(u)
  BY <1>1, <1>5, PortFacts, NatTableAssumption DEF WellFormed, Tables, Inverse2
<1>8. Used(u) = Used(t) \cup {p}
  BY <1>1, <1>5, PortFacts, NatTableAssumption DEF WellFormed, Tables, Used
<1>9. \A r \in Ports : r \in Used(u) <=> Holds(u.lru, r)
  BY <1>3, <1>5, <1>8 DEF WellFormed, LruExact, Used, Holds
<1>10. LruExact(u)
  BY <1>3, <1>5, <1>9 DEF LruExact, Used, Holds, Distinct
<1>11. \A j \in FlowKeys : u.forward[j] = IF j = k THEN p ELSE t.forward[j]
  BY <1>5 DEF WellFormed, Tables
<1> QED
  BY <1>5, <1>6, <1>7, <1>8, <1>10, <1>11 DEF WellFormed, u

\* A hit only reorders lru_.
LEMMA HitFacts ==
  ASSUME NEW t, WellFormed(t), NEW p \in Used(t)
  PROVE  LET u == [t EXCEPT !.lru = touch_locked(t.lru, p)]
         IN  /\ WellFormed(u) /\ Used(u) = Used(t)
             /\ u.forward = t.forward /\ u.reverse = t.reverse
<1> DEFINE q == touch_locked(t.lru, p)
           u == [t EXCEPT !.lru = q]
<1>1. p \in Ports /\ Holds(t.lru, p)
  BY DEF Used, WellFormed, LruExact, Holds
<1>2. t.lru \in Seq(Ports) /\ Distinct(t.lru)
  BY DEF WellFormed, Tables, LruExact, Distinct
<1>3. /\ q \in Seq(Ports)
      /\ Distinct(q)
      /\ \A r : Holds(q, r) <=> Holds(t.lru, r) \/ r = p
  BY <1>1, <1>2, TouchDistinct
<1> HIDE DEF q
<1>4. /\ u.forward = t.forward
      /\ u.reverse = t.reverse
      /\ u.lru = q
      /\ u \in Tables
  BY <1>3 DEF WellFormed, Tables
<1> HIDE DEF u
<1>5. Used(u) = Used(t)
  BY <1>4 DEF Used
<1>6. \A r \in Ports : r \in Used(u) <=> Holds(u.lru, r)
  <2>1. \A r \in Ports : r \in Used(t) <=> Holds(t.lru, r)
    BY DEF WellFormed, LruExact, Used, Holds
  <2> QED
    BY <1>1, <1>3, <1>4, <1>5, <2>1
<1>7. LruExact(u)
  BY <1>3, <1>4, <1>6 DEF LruExact, Used, Holds, Distinct
<1> QED
  BY <1>4, <1>5, <1>7 DEF WellFormed, Inverse2, u, q

\* Within the limit of the table.
WithinLimit(t) == MaxSessions # 0 => Size(t) <= MaxSessions

\* MakeRoom leaves a well-formed table with room for one more session, and
\* disturbs at most the session it reports as evicted.
LEMMA MakeRoomFacts ==
  ASSUME NEW t, WellFormed(t), WithinLimit(t)
  PROVE  LET m == MakeRoom(t)
         IN  /\ WellFormed(m.table)
             /\ MaxSessions # 0 => Size(m.table) < MaxSessions
             /\ MaxSessions = 0 => m.table = t
             /\ m.port \in Used(t) \cup {NoPort}
             /\ \A p \in UInt16 :
                   m.table.reverse[p] = IF p = m.port THEN NoKey ELSE t.reverse[p]
             /\ \A k \in FlowKeys :
                   m.table.forward[k]
                     = IF t.forward[k] = m.port THEN NoPort ELSE t.forward[k]
             /\ \A a, b : Ordered(m.table.lru, a, b) => Ordered(t.lru, a, b)
             /\ m.port # NoPort =>
                   \A a \in Used(t) : a # m.port => Ordered(t.lru, m.port, a)
<1> DEFINE e == evict_one_locked(t)
<1>1. CASE ~(MaxSessions # 0 /\ Size(t) >= MaxSessions)
  <2>1. MakeRoom(t) = [table |-> t, port |-> NoPort]
    BY <1>1 DEF MakeRoom
  <2> QED
    BY <1>1, <2>1, UsedFacts, PortFacts, NatTableAssumption
<1>2. CASE MaxSessions # 0 /\ Size(t) >= MaxSessions
  <2>1. MakeRoom(t) = e
    BY <1>2 DEF MakeRoom
  <2>2. Used(t) # {}
    <3>1. Size(t) # 0
      BY <1>2, UsedFacts, NatTableAssumption
    <3> QED
      BY <3>1, FS_EmptySet DEF Size
  <2>3. /\ e.port \in Used(t)
        /\ WellFormed(e.table)
        /\ Used(e.table) = Used(t) \ {e.port}
        /\ \A p \in UInt16 :
              e.table.reverse[p] = IF p = e.port THEN NoKey ELSE t.reverse[p]
        /\ \A k \in FlowKeys :
              e.table.forward[k]
                = IF t.forward[k] = e.port THEN NoPort ELSE t.forward[k]
        /\ \A a, b : Ordered(e.table.lru, a, b) => Ordered(t.lru, a, b)
        /\ \A a \in Used(t) : a # e.port => Ordered(t.lru, e.port, a)
    BY <2>2, EvictFacts
  <2> HIDE DEF e
  <2>4. Size(e.table) = Size(t) - 1
    BY <2>3, UsedFacts, FS_RemoveElement DEF Size
  <2>5. Size(e.table) < MaxSessions
    BY <1>2, <2>4, UsedFacts, NatTableAssumption DEF WithinLimit
  <2> QED
    BY <1>2, <2>1, <2>3, <2>5
<1> QED
  BY <1>1, <1>2

\* A hit of lookup_or_create returns the port the key has and changes no
\* mapping.
LEMMA LookupHit ==
  ASSUME NEW t, WellFormed(t), WithinLimit(t), NEW k \in FlowKeys,
         t.forward[k] # NoPort
  PROVE  LET r == lookup_or_create(t, k)
         IN  /\ WellFormed(r.table)
             /\ WithinLimit(r.table)
             /\ r.table.forward = t.forward
             /\ r.table.reverse = t.reverse
             /\ r.nat_port = t.forward[k]
             /\ r.nat_port \in Ports
             /\ t.reverse[r.nat_port] = k
             /\ r.evicted = NoPort
<1> DEFINE p == t.forward[k]
           u == [t EXCEPT !.lru = touch_locked(t.lru, p)]
<1>1. p \in Ports /\ t.reverse[p] = k
  BY DEF WellFormed, Tables, Inverse2
<1>2. p \in Used(t)
  BY <1>1, NatTableAssumption DEF Used
<1>3. lookup_or_create(t, k) = [table |-> u, nat_port |-> p, evicted |-> NoPort]
  BY DEF lookup_or_create
<1> HIDE DEF p
<1>4. /\ WellFormed(u) /\ Used(u) = Used(t)
      /\ u.forward = t.forward /\ u.reverse = t.reverse
  BY <1>2, HitFacts
<1> HIDE DEF u
<1> QED
  BY <1>1, <1>3, <1>4 DEF WithinLimit, Size, p

\* A miss maps the key to a port that no flow has once the session reported as
\* evicted, if any, is gone; every other flow keeps its mapping.
LEMMA LookupMiss ==
  ASSUME NEW t, WellFormed(t), WithinLimit(t), NEW k \in FlowKeys,
         ~Exhausted(t, k), t.forward[k] = NoPort
  PROVE  LET r == lookup_or_create(t, k)
         IN  /\ WellFormed(r.table)
             /\ WithinLimit(r.table)
             /\ r.nat_port \in Ports
             /\ r.evicted \in Used(t) \cup {NoPort}
             /\ MaxSessions = 0 => r.evicted = NoPort
             /\ t.reverse[r.nat_port] = NoKey \/ r.nat_port = r.evicted
             /\ \A p \in UInt16 :
                   r.table.reverse[p] = IF p = r.nat_port THEN k
                                        ELSE IF p = r.evicted THEN NoKey
                                        ELSE t.reverse[p]
             /\ \A j \in FlowKeys :
                   r.table.forward[j] = IF j = k THEN r.nat_port
                                        ELSE IF t.forward[j] = r.evicted THEN NoPort
                                        ELSE t.forward[j]
<1> DEFINE m == MakeRoom(t)
           p == allocate_port_locked(m.table)
           u == Insert(m.table, k, p)
<1>1. /\ WellFormed(m.table)
      /\ MaxSessions # 0 => Size(m.table) < MaxSessions
      /\ m.port \in Used(t) \cup {NoPort}
      /\ \A r \in UInt16 :
            m.table.reverse[r] = IF r = m.port THEN NoKey ELSE t.reverse[r]
      /\ \A j \in FlowKeys :
            m.table.forward[j] = IF t.forward[j] = m.port THEN NoPort ELSE t.forward[j]
  BY MakeRoomFacts
<1>2. MaxSessions = 0 => m.port = NoPort
  BY DEF MakeRoom
<1>3. p \in Free(m.table)
  BY AllocateFacts DEF Exhausted
<1>4. lookup_or_create(t, k) = [table |-> u, nat_port |-> p, evicted |-> m.port]
  BY DEF lookup_or_create
<1> HIDE DEF m, p
<1>5. m.table.forward[k] = NoPort
  BY <1>1
<1>6. /\ WellFormed(u) /\ Used(u) = Used(m.table) \cup {p}
      /\ u.reverse = [m.table.reverse EXCEPT ![p] = k]
      /\ \A j \in FlowKeys : u.forward[j] = IF j = k THEN p ELSE m.table.forward[j]
  BY <1>1, <1>3, <1>5, InsertFacts
<1> HIDE DEF u
<1>7. /\ p \in Ports /\ p \in UInt16 /\ p \notin Used(m.table)
      /\ m.table.reverse[p] = NoKey
  BY <1>3, PortFacts DEF Free, Used
<1>8. Size(u) = Size(m.table) + 1
  BY <1>6, <1>7, UsedFacts, FS_AddElement DEF Size
<1>9. WithinLimit(u)
  BY <1>1, <1>8, UsedFacts, NatTableAssumption DEF WithinLimit
<1>10. \A r \in UInt16 : u.reverse[r] = IF r = p THEN k
                                        ELSE IF r = m.port THEN NoKey
                                        ELSE t.reverse[r]
  BY <1>1, <1>6, <1>7 DEF WellFormed, Tables
<1>11. t.reverse[p] = NoKey \/ p = m.port
  BY <1>1, <1>7
<1>12. \A j \in FlowKeys : u.forward[j] = IF j = k THEN p
                                          ELSE IF t.forward[j] = m.port THEN NoPort
                                          ELSE t.forward[j]
  BY <1>1, <1>6
<1> DEFINE r == lookup_or_create(t, k)
<1>13. r.table = u /\ r.nat_port = p /\ r.evicted = m.port
  BY <1>4
<1> HIDE DEF r
<1>14. /\ WellFormed(r.table)
       /\ WithinLimit(r.table)
       /\ r.nat_port \in Ports
       /\ r.evicted \in Used(t) \cup {NoPort}
       /\ MaxSessions = 0 => r.evicted = NoPort
       /\ t.reverse[r.nat_port] = NoKey \/ r.nat_port = r.evicted
  BY <1>1, <1>2, <1>6, <1>7, <1>9, <1>11, <1>13
<1> QED
  BY <1>10, <1>12, <1>13, <1>14 DEF r

\* Hit or miss, lookup_or_create leaves a well-formed table within its limit.
LEMMA LookupFacts ==
  ASSUME NEW t, WellFormed(t), WithinLimit(t), NEW k \in FlowKeys,
         ~Exhausted(t, k)
  PROVE  LET r == lookup_or_create(t, k)
         IN  /\ WellFormed(r.table)
             /\ WithinLimit(r.table)
             /\ r.nat_port \in Ports
             /\ r.evicted \in Ports \cup {NoPort}
<1>1. CASE t.forward[k] # NoPort
  BY <1>1, LookupHit
<1>2. CASE t.forward[k] = NoPort
  BY <1>2, LookupMiss, UsedFacts
<1> QED
  BY <1>1, <1>2

\* With a limit that fits the port range, the search for a port always finds
\* one.
LEMMA NeverExhausted ==
  ASSUME NEW t, WellFormed(t), WithinLimit(t), NEW k \in FlowKeys,
         MaxSessions # 0, MaxSessions <= PortSpan - FirstPort
  PROVE  ~Exhausted(t, k)
<1> DEFINE m == MakeRoom(t).table
<1>1. Size(m) < MaxSessions
  BY MakeRoomFacts
<1> HIDE DEF m
<1>2. Used(m) # Ports
  BY <1>1, UsedFacts, PortFacts, NatTableAssumption DEF Size
<1> QED
  BY <1>2, UsedFacts DEF Exhausted, Free, m
=============================================================================
