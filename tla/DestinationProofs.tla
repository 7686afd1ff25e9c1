-------------------------- MODULE DestinationProofs -------------------------
(***************************************************************************)
(* Proofs about where a connection goes: the address that is connected     *)
(* (Resolve), the server name sniffed from its first bytes, the rule that  *)
(* decides for a name, and the destination a request names (Algorithms).   *)
(* They hold for replies, bytes, rules and texts of any length.            *)
(***************************************************************************)
EXTENDS Resolve, Algorithms, SequenceTheorems, FiniteSetTheorems, WellFoundedInduction, TLAPS

\* The lists a reply may carry are sequences of addresses.
LEMMA ListsAreSeqs == Lists \subseteq Seq(Addresses)
BY ResolveAssumption, IsASeq DEF Lists

\* A second reply behind the first.
LEMMA AppendSecond ==
  ASSUME NEW x, NEW r
  PROVE  Append(<< x >>, r) = << x, r >>
<1> DEFINE S == {x, r}
           s == Append(<< x >>, r)
           t == << x, r >>
<1>1. << x >> \in Seq(S) /\ Len(<< x >>) = 1 /\ << x >>[1] = x /\ r \in S
  OBVIOUS
<1>2. t \in Seq(S) /\ Len(t) = 2 /\ t[1] = x /\ t[2] = r
  OBVIOUS
<1>3. s \in Seq(S) /\ Len(s) = 2 /\ s[1] = x /\ s[2] = r
  BY <1>1, AppendProperties
<1> HIDE DEF S, s, t
<1>4. \A i \in 1 .. Len(s) : s[i] = t[i]
  BY <1>2, <1>3
<1>5. s = t
  BY <1>2, <1>3, <1>4, SeqEqual
<1> QED
  BY <1>5 DEF s, t

\* Fewer replies than queries.
LEMMA BelowQuery ==
  ASSUME NEW n \in Nat, NEW q \in {1, 2}, n < q
  PROVE  n \in {0, 1}
OBVIOUS

\* What FlattenSeq gives for none, one or two replies.
LEMMA FlattenFacts ==
  /\ FlattenSeq(<< >>) = << >>
  /\ \A a : FlattenSeq(<< a >>) = a
  /\ \A a, b : FlattenSeq(<< a, b >>) = a \o b
<1>1. FlattenSeq(<< >>) = << >>
  BY DEF FlattenSeq
<1>2. ASSUME NEW a PROVE FlattenSeq(<< a >>) = a
  <2> DEFINE s == << a >>
             D(f) == [i \in 1 .. Len(s) |-> IF i = 1 THEN s[i] ELSE f[i - 1] \o s[i]]
             f == CHOOSE g : g = D(g)
             w == [i \in 1 .. Len(s) |-> a]
  <2>1. Len(s) = 1 /\ s[1] = a /\ Len(s) # 0 /\ 1 \in 1 .. Len(s)
    OBVIOUS
  <2>2. w = D(w)
    OBVIOUS
  <2>3. f = D(f)
    BY <2>2, Zenon
  <2>4. FlattenSeq(s) = f[Len(s)]
    BY <2>1, Zenon DEF FlattenSeq
  <2> HIDE DEF f
  <2>5. f[1] = D(f)[1]
    BY <2>3, Zenon
  <2> QED
    BY <2>1, <2>4, <2>5
<1>3. ASSUME NEW a, NEW b PROVE FlattenSeq(<< a, b >>) = a \o b
  <2> DEFINE s == << a, b >>
             D(f) == [i \in 1 .. Len(s) |-> IF i = 1 THEN s[i] ELSE f[i - 1] \o s[i]]
             f == CHOOSE g : g = D(g)
             w == [i \in 1 .. Len(s) |-> IF i = 1 THEN a ELSE a \o b]
  <2>1. Len(s) = 2 /\ s[1] = a /\ s[2] = b /\ Len(s) # 0
    OBVIOUS
  <2>2. w = D(w)
    OBVIOUS
  <2>3. f = D(f)
    BY <2>2, Zenon
  <2>4. FlattenSeq(s) = f[Len(s)]
    BY <2>1, Zenon DEF FlattenSeq
  <2> HIDE DEF f
  <2>5. f[1] = D(f)[1] /\ f[2] = D(f)[2]
    BY <2>3, Zenon
  <2>6. D(f)[1] = s[1] /\ D(f)[2] = f[2 - 1] \o s[2]
    BY <2>1
  <2>7. 2 - 1 = 1
    OBVIOUS
  <2> HIDE DEF D, s
  <2>8. f[2] = a \o b
    BY <2>1, <2>5, <2>6, <2>7, Zenon
  <2> QED
    BY <2>1, <2>4, <2>8, Zenon DEF s
<1> QED
  BY <1>1, <1>2, <1>3

-----------------------------------------------------------------------------
(***************************************************************************)
(* The inductive invariant.  output, which connect works on, is the        *)
(* concatenation of the replies, and the addresses before next are the     *)
(* ones that failed.                                                       *)
(***************************************************************************)
TypeInv ==
    /\ job \in [socket : {"tcp", "udp"}, host : {"ip", "domain"}]
    /\ pc \in {"resolve", "ask", "wait", "try", "connected", "threw"}
    /\ query \in 0 .. 2
    /\ output \in Seq(Addresses)
    /\ replies \in Seq(Seq(Addresses))
    /\ failed \in Seq(Addresses)

\* resolve collects the addresses of each well-formed reply, and asks twice.
Collected ==
    /\ output = Resolved
    /\ pc = "resolve" => replies = << >>
    /\ pc \in {"ask", "wait"} => query \in {1, 2} /\ Len(replies) < query

\* connect has tried the addresses before next, in order, and nothing else.
Tried ==
    /\ next = Len(failed) + 1
    /\ Len(failed) <= Len(output)
    /\ \A i \in 1 .. Len(failed) : failed[i] = output[i]
    /\ pc \in {"resolve", "ask", "wait"} => failed = << >>

\* Where connect is, and how it got there.
Outcome ==
    /\ pc = "try" => /\ Len(failed) < Len(output)
                     /\ job.socket = "udp" => failed = << >>
    /\ pc = "connected" => peer = output[Len(failed) + 1]
    /\ pc = "threw" =>
          \/ output = << >>
          \/ unbound
          \/ Len(failed) = IF job.socket = "tcp" THEN Len(output) ELSE 1

IndInv == TypeInv /\ Collected /\ Tried /\ Outcome

\* The invariant holds before anything was resolved.
LEMMA InitInv == Init => IndInv
<1> SUFFICES ASSUME Init PROVE IndInv
  OBVIOUS
<1>1. TypeInv
  BY EmptySeq DEF Init, TypeInv
<1>2. Resolved = << >>
  BY FlattenFacts DEF Init, Resolved
<1> QED
  BY <1>1, <1>2, EmptySeq DEF Init, IndInv, Collected, Tried, Outcome

\* The end of a query keeps it: r are the addresses the query brought, rs the
\* replies so far.
LEMMA NextQueryInv ==
  ASSUME IndInv, pc \in {"ask", "wait"},
         NEW r \in Seq(Addresses), NEW error,
         NextQuery(output \o r, error),
         \/ r = << >> /\ replies' = replies
         \/ replies' = Append(replies, r),
         UNCHANGED << job, next, failed, unbound, peer >>
  PROVE  IndInv'
<1> USE DEF IndInv
<1>1. output' = output \o r /\ output' \in Seq(Addresses)
  BY ConcatProperties DEF NextQuery, TypeInv
<1>2. /\ pc' \in {"ask", "try", "threw"}
      /\ query' \in {1, 2}
      /\ pc' = "ask" => query = 1 /\ query' = 2
      /\ pc' = "try" => output' # << >>
      /\ pc' = "threw" => output' = << >>
  BY <1>1 DEF NextQuery, AfterQueries, Collected
<1>3. failed = << >> /\ Len(failed) = 0
  BY DEF Tried
<1>4. replies' \in Seq(Seq(Addresses)) /\ (query = 1 => Len(replies') <= 1)
  BY DEF TypeInv, Collected
<1>5. output' = Resolved'
  <2>1. CASE r = << >> /\ replies' = replies
    BY <1>1, <2>1, ConcatEmptySeq DEF Collected, Resolved, TypeInv
  <2>2. CASE replies' = Append(replies, r)
    <3>1. Len(replies) \in {0, 1}
      <4>1. replies \in Seq(Seq(Addresses))
        BY DEF TypeInv
      <4>2. query \in {1, 2} /\ Len(replies) < query
        BY DEF Collected
      <4>3. Len(replies) \in Nat
        BY <4>1, LenProperties
      <4> QED
        BY <4>2, <4>3, BelowQuery, Zenon
    <3>2. CASE Len(replies) = 0
      <4>1. replies = << >> /\ replies' = << r >>
        BY <2>2, <3>2 DEF TypeInv
      <4>2. output = << >>
        BY <4>1, FlattenFacts DEF Collected, Resolved
      <4>3. output' = r
        BY <1>1, <4>2, ConcatEmptySeq
      <4> QED
        BY <4>1, <4>3, FlattenFacts DEF Resolved
    <3>3. CASE Len(replies) = 1
      <4>1. replies = << replies[1] >> /\ replies' = << replies[1], r >>
        <5> DEFINE x == replies[1]
        <5>1. x \in Seq(Addresses)
          BY <3>3, ElementOfSeq DEF TypeInv
        <5> HIDE DEF x
        <5>2. /\ << x >> \in Seq(Seq(Addresses)) /\ Len(<< x >>) = 1 /\ << x >>[1] = x
              /\ Append(<< x >>, r) = << x, r >>
          <6> DEFINE T == Seq(Addresses)
          <6>1. x \in T
            BY <5>1
          <6> HIDE DEF T
          <6>2. << x >> \in Seq(T) /\ Len(<< x >>) = 1 /\ << x >>[1] = x
            BY <6>1
          <6>3. Append(<< x >>, r) = << x, r >>
            BY AppendSecond, Zenon
          <6> QED
            BY <6>2, <6>3 DEF T
        <5>3. \A i \in 1 .. Len(replies) : replies[i] = << x >>[i]
          BY <3>3, <5>2 DEF x
        <5>4. replies = << x >>
          BY <3>3, <5>2, <5>3, SeqEqual DEF TypeInv
        <5> QED
          BY <2>2, <5>2, <5>4 DEF x
      <4>2. output = replies[1]
        BY <4>1, FlattenFacts DEF Collected, Resolved
      <4>3. FlattenSeq(<< replies[1], r >>) = replies[1] \o r
        BY FlattenFacts
      <4> QED
        BY <1>1, <4>1, <4>2, <4>3 DEF Resolved
    <3> QED
      BY <3>1, <3>2, <3>3
  <2> QED
    BY <2>1, <2>2
<1>6. TypeInv'
  BY <1>1, <1>2, <1>4 DEF TypeInv
<1>7. Collected'
  BY <1>2, <1>4, <1>5 DEF Collected
<1>8. Tried'
  BY <1>1, <1>3 DEF Tried, TypeInv
<1>9. Outcome'
  BY <1>1, <1>2, <1>3, EmptySeq DEF Outcome
<1> QED
  BY <1>6, <1>7, <1>8, <1>9

\* Every step keeps it.
LEMMA NextInv == IndInv /\ [Next]_vars => IndInv'
<1> SUFFICES ASSUME IndInv, [Next]_vars PROVE IndInv'
  OBVIOUS
<1>0. output \o << >> = output /\ << >> \in Seq(Addresses)
  BY ConcatEmptySeq, EmptySeq DEF IndInv, TypeInv
<1>1. CASE ResolveDestination
  <2>1. CASE job.host = "domain"
    BY <1>1, <2>1
       DEF ResolveDestination, IndInv, TypeInv, Collected, Tried, Outcome, Resolved
  <2>2. CASE job.host = "ip"
    <3>1. PICK a \in Addresses : output' = << a >> /\ replies' = << << a >> >>
      BY <1>1, <2>2 DEF ResolveDestination
    <3>2. /\ pc' = "try"
          /\ UNCHANGED << job, query, next, failed, unbound, peer >>
          /\ failed = << >>
      BY <1>1, <2>2 DEF ResolveDestination, IndInv, Tried
    <3>3. FlattenSeq(<< << a >> >>) = << a >>
      BY FlattenFacts
    <3>4. /\ << a >> \in Seq(Addresses) /\ Len(<< a >>) = 1
          /\ << << a >> >> \in Seq(Seq(Addresses))
      OBVIOUS
    <3>5. TypeInv' /\ Collected'
      BY <3>1, <3>2, <3>3, <3>4 DEF IndInv, TypeInv, Collected, Resolved
    <3>6. Tried' /\ Outcome'
      BY <3>1, <3>2, <3>4, EmptySeq DEF IndInv, Tried, Outcome
    <3> QED
      BY <3>5, <3>6 DEF IndInv
  <2> QED
    BY <2>1, <2>2 DEF IndInv, TypeInv
<1>2. CASE Ask
  <2>1. CASE pc' = "wait" /\ UNCHANGED << query, output, last_error >>
    BY <1>2, <2>1 DEF Ask, IndInv, TypeInv, Collected, Tried, Outcome, Resolved
  <2>2. CASE NextQuery(output, TRUE)
    BY <1>0, <1>2, <2>2, NextQueryInv DEF Ask
  <2> QED
    BY <1>2, <2>1, <2>2 DEF Ask
<1>3. CASE Reply
  <2>1. ASSUME NEW r \in Lists, NextQuery(output \o r, last_error),
               replies' = Append(replies, r)
        PROVE  IndInv'
    BY <1>3, <2>1, ListsAreSeqs, NextQueryInv DEF Reply
  <2>2. CASE NextQuery(output, TRUE) /\ UNCHANGED replies
    BY <1>0, <1>3, <2>2, NextQueryInv DEF Reply
  <2> QED
    BY <1>3, <2>1, <2>2 DEF Reply
<1>4. CASE Silence
  BY <1>4 DEF Silence, IndInv, TypeInv, Collected, Tried, Outcome, Resolved
<1>5. CASE TryFails
  <2>1. /\ pc = "try" /\ failed' = Append(failed, output[next]) /\ next' = next + 1
        /\ pc' = IF job.socket = "tcp" /\ next < Len(output) THEN "try" ELSE "threw"
        /\ UNCHANGED << job, query, output, replies, unbound, peer >>
    BY <1>5 DEF TryFails, Candidate, MayRetry
  <2>2. /\ next = Len(failed) + 1 /\ Len(failed) < Len(output)
        /\ Len(failed) \in Nat /\ Len(output) \in Nat
        /\ output[next] \in Addresses
    BY <2>1 DEF IndInv, TypeInv, Tried, Outcome
  <2>3. /\ failed' \in Seq(Addresses)
        /\ Len(failed') = Len(failed) + 1
        /\ \A i \in 1 .. Len(failed') : failed'[i] = output[i]
    BY <2>1, <2>2 DEF IndInv, TypeInv, Tried
  <2>4. TypeInv'
    BY <2>1, <2>3 DEF IndInv, TypeInv
  <2>5. Collected'
    BY <2>1 DEF IndInv, Collected, Resolved
  <2>6. Tried'
    BY <2>1, <2>2, <2>3 DEF IndInv, Tried
  <2>7. Outcome'
    <3>1. job.socket \in {"tcp", "udp"} /\ (job.socket = "udp" => Len(failed) = 0)
      BY <2>1, EmptySeq DEF IndInv, TypeInv, Outcome
    <3> QED
      BY <2>1, <2>2, <2>3, <3>1 DEF Outcome
  <2> QED
    BY <2>4, <2>5, <2>6, <2>7 DEF IndInv
<1>6. CASE BindFails
  BY <1>6 DEF BindFails, IndInv, TypeInv, Collected, Tried, Outcome, Resolved
<1>7. CASE TrySucceeds
  BY <1>7 DEF TrySucceeds, Candidate, IndInv, TypeInv, Collected, Tried, Outcome, Resolved
<1>8. CASE UNCHANGED vars
  BY <1>8 DEF vars, IndInv, TypeInv, Collected, Tried, Outcome, Resolved
<1> QED
  BY <1>1, <1>2, <1>3, <1>4, <1>5, <1>6, <1>7, <1>8 DEF Next, Step

\* The inductive invariant holds throughout connect.
LEMMA ResolveInvariant == Spec => []IndInv
<1> QED
  BY InitInv, NextInv, PTL DEF Spec

\* The addresses that failed are the first of those resolved.
LEMMA FailedIsPrefix ==
  ASSUME IndInv
  PROVE  /\ failed = SubSeq(Resolved, 1, Len(failed))
         /\ output = Resolved
<1> DEFINE s == SubSeq(output, 1, Len(failed))
<1>1. Len(failed) \in Nat /\ Len(output) \in Nat /\ Len(failed) <= Len(output)
  BY DEF IndInv, TypeInv, Tried
<1>2. \A i \in 1 .. Len(failed) : output[i] \in Addresses
  BY <1>1 DEF IndInv, TypeInv
<1>3. s \in Seq(Addresses) /\ Len(s) = Len(failed) /\ \A i \in 1 .. Len(s) : s[i] = output[i]
  BY <1>1, <1>2, SubSeqProperties
<1> HIDE DEF s
<1>4. failed = s
  BY <1>3, SeqEqual DEF IndInv, TypeInv, Tried
<1> QED
  BY <1>4 DEF s, IndInv, Collected

\* A connected socket goes to the first address that was not found
\* unreachable (FirstReachable), whatever the two queries brought.
THEOREM ResolveFirstReachable == Spec => []FirstReachable
<1>1. IndInv => FirstReachable
  BY FailedIsPrefix DEF FirstReachable, IndInv, Outcome
<1> QED
  BY <1>1, ResolveInvariant, PTL

\* connect gives up only for a reason (GivesUpForAReason).
THEOREM ResolveGivesUpForAReason == Spec => []GivesUpForAReason
<1>1. IndInv => GivesUpForAReason
  BY FailedIsPrefix DEF GivesUpForAReason, IndInv, Outcome
<1> QED
  BY <1>1, ResolveInvariant, PTL
-----------------------------------------------------------------------------
(***************************************************************************)
(* The TLS sniffer, on any bytes.                                          *)
(***************************************************************************)
Stages == {"record", "session_id", "cipher_suites", "compression_methods", "extensions",
           "extension", "name", "returned"}
Fields == {"session_id", "cipher_suites", "compression_methods", "extensions"}

SnifferTyped ==
    /\ hello \in Seq(0 .. 255)
    /\ stage \in Stages
    /\ cursor \in Nat /\ cursor <= Len(hello)
    /\ reach \in Nat /\ reach <= Len(hello)
    /\ ends \in [extensions : Nat, extension : Nat, names : Nat]
    /\ turns \in [extensions : Nat, names : Nat]

\* Each turn is paid for by the bytes in front of the place where the next one
\* starts; that of an extension, where its list of names is read, by those in
\* front of its end.
Paid ==
    /\ stage \in {"record"} \cup Fields => turns = [extensions |-> 0, names |-> 0]
    /\ stage \in Fields => cursor >= 43
    /\ stage = "extension" => 4 * turns.extensions + 4 <= cursor
    /\ stage = "name" => /\ 4 * turns.extensions + 4 <= ends.extension
                         /\ ends.extension <= Len(hello)
                         /\ 3 * turns.names + 3 <= cursor

SnifferInv == SnifferTyped /\ Paid /\ SnifferEnds

\* Bytes and lengths are natural numbers, also past the end.
LEMMA HelloBytes ==
    ASSUME SnifferTyped
    PROVE  Len(hello) \in Nat /\ \A i \in Nat : At(i) \in Nat /\ Be(i) \in Nat
<1>1. hello \in Seq(0 .. 255) /\ Len(hello) \in Nat /\ DOMAIN hello = 1 .. Len(hello)
  BY DEF SnifferTyped
<1>2. ASSUME NEW i \in Nat
      PROVE  At(i) \in Nat
  <2>1. CASE i < Len(hello)
    <3>1. i + 1 \in DOMAIN hello
      BY <1>1, <2>1
    <3>2. hello[i + 1] \in 0 .. 255
      BY <1>1, <3>1, ElementOfSeq
    <3>3. hello[i + 1] \in Nat
      BY <3>2
    <3> QED
      BY <2>1, <3>3 DEF At
  <2>2. CASE ~(i < Len(hello))
    BY <2>2 DEF At
  <2> QED
    BY <2>1, <2>2
<1>3. ASSUME NEW i \in Nat
      PROVE  Be(i) \in Nat
  <2>1. At(i) \in Nat /\ At(i + 1) \in Nat
    BY <1>2
  <2>2. \A x, y \in Nat : x * 256 + y \in Nat
    OBVIOUS
  <2> QED
    BY <2>1, <2>2 DEF Be
<1> QED
  BY <1>1, <1>2, <1>3

\* Looking at bytes up to offset i, inside the hello.
LEMMA LookedInside ==
    ASSUME SnifferTyped, NEW i \in Nat, i <= Len(hello), Looked(i)
    PROVE  reach' \in Nat /\ reach' <= Len(hello)
BY DEF SnifferTyped, Looked

\* A step that returns: the turns are those of the loops, one more at most.
LEMMA ReturnedInv ==
    ASSUME SnifferInv, hello' = hello, cursor' = cursor, ends' = ends, stage' = "returned",
           reach' \in Nat, reach' <= Len(hello),
           turns' \in [extensions : Nat, names : Nat],
           4 * turns'.extensions <= Len(hello), 3 * turns'.names <= Len(hello)
    PROVE  SnifferInv'
<1>1. SnifferTyped'
  BY DEF SnifferInv, SnifferTyped, Stages
<1>2. Paid'
  BY DEF Paid, Fields
<1>3. SnifferEnds'
  BY DEF SnifferEnds
<1> QED
  BY <1>1, <1>2, <1>3 DEF SnifferInv

\* A step to one of the fields in front of the extensions.
LEMMA FieldInv ==
    ASSUME SnifferInv, NEW i \in Nat, i <= Len(hello), i >= 43, NEW f \in Fields, GoOn(f, i),
           reach' \in Nat, reach' <= Len(hello), turns' = turns,
           stage \in {"record"} \cup Fields
    PROVE  SnifferInv'
<1>1. hello' = hello /\ cursor' = i /\ ends' = ends /\ stage' = f
  BY DEF GoOn
<1>2. SnifferTyped'
  BY <1>1 DEF SnifferInv, SnifferTyped, Stages, Fields
<1>3. Paid'
  BY <1>1 DEF SnifferInv, Paid, Fields
<1>4. SnifferEnds'
  BY <1>1 DEF SnifferInv, SnifferEnds
<1> QED
  BY <1>2, <1>3, <1>4 DEF SnifferInv

\* The step is one of those that return.
LEMMA NulloptInv ==
    ASSUME SnifferInv, Nullopt, NEW i \in Nat, i <= Len(hello), Looked(i), turns' = turns
    PROVE  SnifferInv'
<1>1. reach' \in Nat /\ reach' <= Len(hello)
  BY LookedInside DEF SnifferInv
<1>2. /\ hello' = hello /\ cursor' = cursor /\ ends' = ends /\ stage' = "returned"
      /\ turns' \in [extensions : Nat, names : Nat]
      /\ 4 * turns'.extensions <= Len(hello) /\ 3 * turns'.names <= Len(hello)
  BY DEF Nullopt, SnifferInv, SnifferTyped, SnifferEnds
<1> QED
  BY <1>1, <1>2, ReturnedInv

LEMMA ReadRecordInv ==
    ASSUME SnifferInv, ReadRecord
    PROVE  SnifferInv'
<1>1. turns' = turns /\ stage = "record" /\ Len(hello) \in Nat
  BY HelloBytes DEF ReadRecord, SnifferInv
<1>2. CASE Nullopt
  <2>1. \E i \in Nat : i <= Len(hello) /\ Looked(i)
    BY <1>1 DEF ReadRecord, has_bytes
  <2> QED
    BY <1>1, <1>2, <2>1, NulloptInv
<1>3. CASE ~Nullopt
  <2>1. GoOn("session_id", 43) /\ Looked(9) /\ 43 <= Len(hello)
    BY <1>1, <1>3 DEF ReadRecord, has_bytes, Random
  <2>2. 9 <= Len(hello)
    BY <1>1, <2>1
  <2>3. reach' \in Nat /\ reach' <= Len(hello)
    BY <2>1, <2>2, LookedInside DEF SnifferInv
  <2>4. "session_id" \in Fields
    BY DEF Fields
  <2> QED
    BY <1>1, <2>1, <2>3, <2>4, FieldInv
<1> QED
  BY <1>2, <1>3

LEMMA SkipFieldInv ==
    ASSUME SnifferInv, SkipField
    PROVE  SnifferInv'
<1> DEFINE n == Skipped[stage].size
           len == IF n = 1 THEN At(cursor) ELSE Be(cursor)
<1>1. /\ stage \in Fields /\ n \in {1, 2} /\ Skipped[stage].next \in Fields
  BY DEF SkipField, Skipped, Fields
<1>2. /\ turns' = turns /\ Len(hello) \in Nat /\ cursor \in Nat /\ cursor <= Len(hello)
      /\ cursor >= 43
  BY <1>1, HelloBytes DEF SkipField, SnifferInv, SnifferTyped, Paid
<1>3. PICK l \in Nat : l = len
  BY <1>2, HelloBytes DEF SnifferInv
<1>4. \/ Nullopt /\ Looked(cursor)
      \/ has_bytes(cursor, n) /\ Nullopt /\ Looked(cursor + n)
      \/ /\ has_bytes(cursor, n) /\ has_bytes(cursor + n, l) /\ Looked(cursor + n)
         /\ GoOn(Skipped[stage].next, cursor + n + l)
  BY <1>3 DEF SkipField
<1> HIDE DEF n, len
<1>5. CASE Nullopt /\ Looked(cursor)
  BY <1>2, <1>5, NulloptInv
<1>6. CASE has_bytes(cursor, n) /\ Nullopt /\ Looked(cursor + n)
  <2>1. cursor + n \in Nat /\ cursor + n <= Len(hello)
    BY <1>1, <1>2, <1>6 DEF has_bytes
  <2> QED
    BY <1>2, <1>6, <2>1, NulloptInv
<1>7. CASE /\ has_bytes(cursor, n) /\ has_bytes(cursor + n, l) /\ Looked(cursor + n)
           /\ GoOn(Skipped[stage].next, cursor + n + l)
  <2>1. /\ cursor + n \in Nat /\ cursor + n <= Len(hello)
        /\ cursor + n + l \in Nat /\ cursor + n + l <= Len(hello) /\ cursor + n + l >= 43
    BY <1>1, <1>2, <1>3, <1>7 DEF has_bytes
  <2>2. reach' \in Nat /\ reach' <= Len(hello)
    BY <1>7, <2>1, LookedInside DEF SnifferInv
  <2> QED
    BY <1>1, <1>2, <1>7, <2>1, <2>2, FieldInv
<1> QED
  BY <1>4, <1>5, <1>6, <1>7

LEMMA ReadExtensionsLenInv ==
    ASSUME SnifferInv, ReadExtensionsLen
    PROVE  SnifferInv'
<1>1. /\ turns' = turns /\ stage = "extensions" /\ Len(hello) \in Nat
      /\ cursor \in Nat /\ cursor <= Len(hello) /\ cursor >= 43
      /\ turns = [extensions |-> 0, names |-> 0]
  BY HelloBytes DEF ReadExtensionsLen, SnifferInv, SnifferTyped, Paid, Fields
<1>2. PICK l \in Nat : l = Be(cursor)
  BY <1>1, HelloBytes DEF SnifferInv
<1>3. \/ Nullopt /\ Looked(cursor)
      \/ has_bytes(cursor, 2) /\ Nullopt /\ Looked(cursor + 2)
      \/ /\ has_bytes(cursor, 2) /\ Looked(cursor + 2)
         /\ stage' = "extension" /\ cursor' = cursor + 2 /\ hello' = hello
         /\ ends' = [ends EXCEPT !.extensions = cursor + 2 + l]
  BY <1>2 DEF ReadExtensionsLen
<1>4. CASE Nullopt /\ Looked(cursor)
  BY <1>1, <1>4, NulloptInv
<1>5. CASE has_bytes(cursor, 2) /\ Nullopt /\ Looked(cursor + 2)
  <2>1. cursor + 2 \in Nat /\ cursor + 2 <= Len(hello)
    BY <1>1, <1>5 DEF has_bytes
  <2> QED
    BY <1>1, <1>5, <2>1, NulloptInv
<1>6. CASE /\ has_bytes(cursor, 2) /\ Looked(cursor + 2)
           /\ stage' = "extension" /\ cursor' = cursor + 2 /\ hello' = hello
           /\ ends' = [ends EXCEPT !.extensions = cursor + 2 + l]
  <2>1. cursor + 2 \in Nat /\ cursor + 2 <= Len(hello)
    BY <1>1, <1>6 DEF has_bytes
  <2>2. reach' \in Nat /\ reach' <= Len(hello)
    BY <1>6, <2>1, LookedInside DEF SnifferInv
  <2>3. ends' \in [extensions : Nat, extension : Nat, names : Nat]
    <3>1. cursor + 2 + l \in Nat
      BY <1>1, <1>2
    <3> QED
      BY <1>6, <3>1 DEF SnifferInv, SnifferTyped
  <2>4. SnifferTyped'
    BY <1>1, <1>6, <2>1, <2>2, <2>3 DEF SnifferInv, SnifferTyped, Stages
  <2>5. Paid'
    BY <1>1, <1>6 DEF Paid, Fields
  <2>6. SnifferEnds'
    BY <1>1, <1>6 DEF SnifferInv, SnifferEnds
  <2> QED
    BY <2>4, <2>5, <2>6 DEF SnifferInv
<1> QED
  BY <1>3, <1>4, <1>5, <1>6

\* The end of a turn that does not return: the next place to read at.
LEMMA OnwardInv ==
    ASSUME SnifferInv, hello' = hello, stage' \in {"extension", "name"},
           cursor' \in Nat, cursor' <= Len(hello), reach' \in Nat, reach' <= Len(hello),
           ends' \in [extensions : Nat, extension : Nat, names : Nat],
           turns' \in [extensions : Nat, names : Nat],
           stage' = "extension" => 4 * turns'.extensions + 4 <= cursor',
           stage' = "name" => /\ 4 * turns'.extensions + 4 <= ends'.extension
                              /\ ends'.extension <= Len(hello)
                              /\ 3 * turns'.names + 3 <= cursor',
           4 * turns'.extensions <= Len(hello), 3 * turns'.names <= Len(hello)
    PROVE  SnifferInv'
<1>1. SnifferTyped'
  BY DEF SnifferInv, SnifferTyped, Stages
<1>2. Paid'
  BY DEF Paid, Fields
<1>3. SnifferEnds'
  BY DEF SnifferEnds
<1> QED
  BY <1>1, <1>2, <1>3 DEF SnifferInv

LEMMA ReadExtensionInv ==
    ASSUME SnifferInv, ReadExtension
    PROVE  SnifferInv'
<1>1. /\ stage = "extension" /\ cursor \in Nat /\ cursor <= Len(hello)
      /\ reach \in Nat /\ reach <= Len(hello) /\ Len(hello) \in Nat
      /\ ends \in [extensions : Nat, extension : Nat, names : Nat]
      /\ turns \in [extensions : Nat, names : Nat]
  BY HelloBytes DEF ReadExtension, SnifferInv, SnifferTyped
<1>2. PICK e \in Nat : /\ e = turns.extensions
                       /\ 4 * e + 4 <= cursor
  BY <1>1 DEF SnifferInv, Paid
<1>3. PICK len \in Nat, list \in Nat : len = Be(cursor + 2) /\ list = Be(cursor + 4)
  <2>1. cursor + 2 \in Nat /\ cursor + 4 \in Nat
    BY <1>1
  <2>2. Be(cursor + 2) \in Nat /\ Be(cursor + 4) \in Nat
    BY <2>1, HelloBytes DEF SnifferInv
  <2> QED
    BY <2>2
<1>4. CASE cursor >= ends.extensions
  <2>1. Nullopt /\ reach' = reach /\ turns' = turns
    BY <1>4 DEF ReadExtension
  <2>2. 4 * turns.extensions <= Len(hello) /\ 3 * turns.names <= Len(hello)
    BY DEF SnifferInv, SnifferEnds
  <2> QED
    BY <1>1, <2>1, <2>2, ReturnedInv DEF Nullopt
<1>5. CASE ~(cursor >= ends.extensions)
  <2>1. /\ turns' = [extensions |-> e + 1, names |-> 0]
        /\ turns' \in [extensions : Nat, names : Nat]
        /\ turns'.extensions = e + 1 /\ turns'.names = 0
    <3>1. turns' = [extensions |-> e + 1, names |-> 0]
      BY <1>2, <1>5 DEF ReadExtension
    <3> QED
      BY <1>2, <3>1
  <2>2. 4 * turns'.extensions <= Len(hello) /\ 3 * turns'.names <= Len(hello)
    BY <1>1, <1>2, <2>1
  <2>3. \/ Nullopt /\ \/ Looked(cursor)
                      \/ has_bytes(cursor, 4) /\ Looked(cursor + 4)
                      \/ has_bytes(cursor + 4, 2) /\ Looked(cursor + 4 + 2)
        \/ /\ has_bytes(cursor, 4) /\ has_bytes(cursor + 4, len) /\ Looked(cursor + 4)
           /\ GoOn("extension", cursor + 4 + len)
        \/ /\ has_bytes(cursor + 4, len) /\ has_bytes(cursor + 4, 2) /\ Looked(cursor + 4 + 2)
           /\ stage' = "name" /\ cursor' = cursor + 4 + 2 /\ hello' = hello
           /\ ends' = [ends EXCEPT !.extension = cursor + 4 + len,
                                   !.names = cursor + 4 + 2 + list]
    BY <1>3, <1>5 DEF ReadExtension
  <2>4. CASE Nullopt /\ \/ Looked(cursor)
                        \/ has_bytes(cursor, 4) /\ Looked(cursor + 4)
                        \/ has_bytes(cursor + 4, 2) /\ Looked(cursor + 4 + 2)
    <3>1. \E i \in Nat : i <= Len(hello) /\ Looked(i)
      BY <1>1, <2>4 DEF has_bytes
    <3>2. reach' \in Nat /\ reach' <= Len(hello)
      BY <3>1, LookedInside DEF SnifferInv
    <3> QED
      BY <2>1, <2>2, <2>4, <3>2, ReturnedInv DEF Nullopt
  <2>5. CASE /\ has_bytes(cursor, 4) /\ has_bytes(cursor + 4, len) /\ Looked(cursor + 4)
             /\ GoOn("extension", cursor + 4 + len)
    <3>1. /\ cursor + 4 \in Nat /\ cursor + 4 <= Len(hello)
          /\ cursor + 4 + len \in Nat /\ cursor + 4 + len <= Len(hello)
          /\ 4 * (e + 1) + 4 <= cursor + 4 + len
      <4>1. cursor + 4 <= Len(hello) /\ cursor + 4 + len <= Len(hello)
        BY <2>5 DEF has_bytes
      <4>2. \A c, n \in Nat : /\ c + 4 \in Nat /\ c + 4 + n \in Nat
                              /\ 4 * e + 4 <= c => 4 * (e + 1) + 4 <= c + 4 + n
        BY <1>2
      <4>3. PICK c \in Nat : c = cursor
        BY <1>1
      <4>4. /\ c + 4 \in Nat /\ c + 4 + len \in Nat
            /\ 4 * (e + 1) + 4 <= c + 4 + len
        BY <1>2, <1>3, <4>2, <4>3
      <4> QED
        BY <4>1, <4>3, <4>4
    <3>2. reach' \in Nat /\ reach' <= Len(hello)
      BY <2>5, <3>1, LookedInside DEF SnifferInv
    <3>3. hello' = hello /\ stage' = "extension" /\ cursor' = cursor + 4 + len /\ ends' = ends
      BY <2>5 DEF GoOn
    <3>4. 4 * turns'.extensions + 4 <= cursor'
      BY <2>1, <3>1, <3>3
    <3> QED
      BY <1>1, <2>1, <2>2, <3>1, <3>2, <3>3, <3>4, OnwardInv
  <2>6. CASE /\ has_bytes(cursor + 4, len) /\ has_bytes(cursor + 4, 2)
             /\ Looked(cursor + 4 + 2)
             /\ stage' = "name" /\ cursor' = cursor + 4 + 2 /\ hello' = hello
             /\ ends' = [ends EXCEPT !.extension = cursor + 4 + len,
                                     !.names = cursor + 4 + 2 + list]
    <3>1. /\ cursor + 4 + 2 \in Nat /\ cursor + 4 + 2 <= Len(hello)
          /\ cursor + 4 + len \in Nat /\ cursor + 4 + len <= Len(hello)
          /\ cursor + 4 + 2 + list \in Nat
          /\ 4 * (e + 1) + 4 <= cursor + 4 + len
      <4>1. cursor + 4 + 2 <= Len(hello) /\ cursor + 4 + len <= Len(hello)
        BY <2>6 DEF has_bytes
      <4>2. \A c, n \in Nat : /\ c + 4 + n \in Nat /\ c + 4 + 2 + n \in Nat
                              /\ c + 4 + 2 \in Nat
                              /\ 4 * e + 4 <= c => 4 * (e + 1) + 4 <= c + 4 + n
        BY <1>2
      <4>3. PICK c \in Nat : c = cursor
        BY <1>1
      <4>4. /\ c + 4 \in Nat /\ c + 4 + len \in Nat /\ c + 4 + 2 \in Nat /\ c + 4 + 2 + list \in Nat
            /\ 4 * (e + 1) + 4 <= c + 4 + len
        BY <1>2, <1>3, <4>2, <4>3
      <4> QED
        BY <4>1, <4>3, <4>4
    <3>2. reach' \in Nat /\ reach' <= Len(hello)
      BY <2>6, <3>1, LookedInside DEF SnifferInv
    <3>3. /\ ends' \in [extensions : Nat, extension : Nat, names : Nat]
          /\ ends'.extension = cursor + 4 + len
      BY <1>1, <2>6, <3>1
    <3>4. /\ 4 * turns'.extensions + 4 <= ends'.extension /\ ends'.extension <= Len(hello)
          /\ 3 * turns'.names + 3 <= cursor'
      <4>1. 3 * 0 + 3 <= cursor + 4 + 2
        BY <1>1
      <4> QED
        BY <2>1, <2>6, <3>1, <3>3, <4>1
    <3> QED
      BY <2>1, <2>2, <2>6, <3>1, <3>2, <3>3, <3>4, OnwardInv
  <2> QED
    BY <2>3, <2>4, <2>5, <2>6
<1> QED
  BY <1>4, <1>5

LEMMA ReadServerNameInv ==
    ASSUME SnifferInv, ReadServerName
    PROVE  SnifferInv'
<1>1. /\ stage = "name" /\ cursor \in Nat /\ cursor <= Len(hello)
      /\ reach \in Nat /\ reach <= Len(hello) /\ Len(hello) \in Nat
      /\ ends \in [extensions : Nat, extension : Nat, names : Nat]
      /\ turns \in [extensions : Nat, names : Nat]
      /\ 4 * turns.extensions <= Len(hello) /\ 3 * turns.names <= Len(hello)
      /\ 4 * turns.extensions + 4 <= ends.extension /\ ends.extension <= Len(hello)
  BY HelloBytes DEF ReadServerName, SnifferInv, SnifferTyped, SnifferEnds, Paid
<1>2. PICK m \in Nat : m = turns.names /\ 3 * m + 3 <= cursor
  BY <1>1 DEF SnifferInv, Paid
<1>3. PICK len \in Nat : len = Be(cursor + 1)
  <2>1. cursor + 1 \in Nat
    BY <1>1
  <2>2. Be(cursor + 1) \in Nat
    BY <2>1, HelloBytes DEF SnifferInv
  <2> QED
    BY <2>2
<1>4. CASE cursor >= ends.names
  <2>1. /\ hello' = hello /\ stage' = "extension" /\ cursor' = ends.extension
        /\ ends' = ends /\ reach' = reach /\ turns' = turns
    BY <1>4 DEF ReadServerName, GoOn
  <2> QED
    BY <1>1, <2>1, OnwardInv
<1>5. CASE ~(cursor >= ends.names)
  <2>1. /\ turns' \in [extensions : Nat, names : Nat]
        /\ turns'.extensions = turns.extensions /\ turns'.names = m + 1
    <3>1. turns' = [turns EXCEPT !.names = turns.names + 1]
      BY <1>5 DEF ReadServerName
    <3>2. m + 1 \in Nat /\ turns' = [turns EXCEPT !.names = m + 1]
      BY <1>2, <3>1
    <3> QED
      BY <1>1, <3>2
  <2>2. 4 * turns'.extensions <= Len(hello) /\ 3 * turns'.names <= Len(hello)
    BY <1>1, <1>2, <2>1
  <2>3. \/ /\ stage' = "returned" /\ hello' = hello /\ cursor' = cursor /\ ends' = ends
           /\ \/ Looked(cursor)
              \/ has_bytes(cursor, 3) /\ Looked(cursor + 3)
              \/ has_bytes(cursor + 3, len) /\ Looked(cursor + 3 + len)
        \/ /\ has_bytes(cursor, 3) /\ has_bytes(cursor + 3, len) /\ Looked(cursor + 3)
           /\ GoOn("name", cursor + 3 + len)
    <3>1. \/ ~has_bytes(cursor, 3) /\ Nullopt /\ Looked(cursor)
          \/ has_bytes(cursor, 3) /\ ~has_bytes(cursor + 3, len) /\ Nullopt /\ Looked(cursor + 3)
          \/ /\ has_bytes(cursor, 3) /\ has_bytes(cursor + 3, len) /\ Looked(cursor + 3)
             /\ GoOn("name", cursor + 3 + len)
          \/ /\ has_bytes(cursor + 3, len) /\ Looked(cursor + 3 + len) /\ stage' = "returned"
             /\ hello' = hello /\ cursor' = cursor /\ ends' = ends
      BY <1>3, <1>5 DEF ReadServerName
    <3> QED
      BY <3>1 DEF Nullopt
  <2>4. CASE /\ stage' = "returned" /\ hello' = hello /\ cursor' = cursor /\ ends' = ends
             /\ \/ Looked(cursor)
                \/ has_bytes(cursor, 3) /\ Looked(cursor + 3)
                \/ has_bytes(cursor + 3, len) /\ Looked(cursor + 3 + len)
    <3>1. \E i \in Nat : i <= Len(hello) /\ Looked(i)
      <4>1. CASE Looked(cursor)
        BY <1>1, <4>1
      <4>2. CASE has_bytes(cursor, 3) /\ Looked(cursor + 3)
        <5>1. cursor + 3 \in Nat /\ cursor + 3 <= Len(hello)
          BY <1>1, <4>2 DEF has_bytes
        <5> QED
          BY <4>2, <5>1
      <4>3. CASE has_bytes(cursor + 3, len) /\ Looked(cursor + 3 + len)
        <5>1. cursor + 3 + len <= Len(hello)
          BY <4>3 DEF has_bytes
        <5>2. \A c, n \in Nat : c + 3 + n \in Nat
          OBVIOUS
        <5>3. cursor + 3 + len \in Nat
          BY <1>1, <1>3, <5>2
        <5> QED
          BY <4>3, <5>1, <5>3
      <4> QED
        BY <2>4, <4>1, <4>2, <4>3
    <3>2. reach' \in Nat /\ reach' <= Len(hello)
      BY <3>1, LookedInside DEF SnifferInv
    <3> QED
      BY <2>1, <2>2, <2>4, <3>2, ReturnedInv
  <2>5. CASE /\ has_bytes(cursor, 3) /\ has_bytes(cursor + 3, len) /\ Looked(cursor + 3)
             /\ GoOn("name", cursor + 3 + len)
    <3>1. /\ cursor + 3 \in Nat /\ cursor + 3 <= Len(hello)
          /\ cursor + 3 + len \in Nat /\ cursor + 3 + len <= Len(hello)
          /\ 3 * (m + 1) + 3 <= cursor + 3 + len
      <4>1. cursor + 3 <= Len(hello) /\ cursor + 3 + len <= Len(hello)
        BY <2>5 DEF has_bytes
      <4>2. \A c, n \in Nat : /\ c + 3 \in Nat /\ c + 3 + n \in Nat
                              /\ 3 * m + 3 <= c => 3 * (m + 1) + 3 <= c + 3 + n
        BY <1>2
      <4>3. PICK c \in Nat : c = cursor
        BY <1>1
      <4>4. /\ c + 3 \in Nat /\ c + 3 + len \in Nat
            /\ 3 * (m + 1) + 3 <= c + 3 + len
        BY <1>2, <1>3, <4>2, <4>3
      <4> QED
        BY <4>1, <4>3, <4>4
    <3>2. reach' \in Nat /\ reach' <= Len(hello)
      BY <2>5, <3>1, LookedInside DEF SnifferInv
    <3>3. hello' = hello /\ stage' = "name" /\ cursor' = cursor + 3 + len /\ ends' = ends
      BY <2>5 DEF GoOn
    <3>4. /\ 4 * turns'.extensions + 4 <= ends'.extension /\ ends'.extension <= Len(hello)
          /\ 3 * turns'.names + 3 <= cursor'
      BY <1>1, <2>1, <3>1, <3>3
    <3> QED
      BY <1>1, <2>1, <2>2, <3>1, <3>2, <3>3, <3>4, OnwardInv
  <2> QED
    BY <2>3, <2>4, <2>5
<1> QED
  BY <1>4, <1>5

\* The invariant holds on any bytes.
LEMMA SnifferInvariant == SniffSpec => []SnifferInv
<1>1. SniffInit => SnifferInv
  <2> SUFFICES ASSUME NEW bytes \in Seq(0 .. 255), Sniff(bytes)
               PROVE  SnifferInv
    BY DEF SniffInit
  <2>1. Len(hello) \in Nat /\ hello \in Seq(0 .. 255)
    BY DEF Sniff
  <2>2. /\ turns \in [extensions : Nat, names : Nat]
        /\ turns.extensions = 0 /\ turns.names = 0
        /\ ends \in [extensions : Nat, extension : Nat, names : Nat]
    BY DEF Sniff
  <2>3. SnifferTyped
    BY <2>1, <2>2 DEF Sniff, SnifferTyped, Stages
  <2>4. Paid
    BY DEF Sniff, Paid, Fields
  <2>5. SnifferEnds
    BY <2>1, <2>2 DEF SnifferEnds
  <2> QED
    BY <2>3, <2>4, <2>5 DEF SnifferInv
<1>2. SnifferInv /\ [SniffStep]_sniffer => SnifferInv'
  <2>1. SnifferInv /\ UNCHANGED sniffer => SnifferInv'
    BY DEF SnifferInv, SnifferTyped, Paid, SnifferEnds, sniffer
  <2> QED
    BY <2>1, ReadRecordInv, SkipFieldInv, ReadExtensionsLenInv, ReadExtensionInv,
       ReadServerNameInv DEF SniffStep
<1> QED
  BY <1>1, <1>2, PTL DEF SniffSpec

\* sniff_tls_sni reads no byte past the end, and its two loops run at most once
\* per four and per three bytes (SnifferBounded), whatever the bytes are.
THEOREM SnifferIsBounded == SniffSpec => []SnifferBounded
<1>1. SnifferInv => SnifferBounded
  BY DEF SnifferInv, SnifferTyped, SnifferStaysInside, SnifferBounded
<1> QED
  BY <1>1, SnifferInvariant, PTL

-----------------------------------------------------------------------------
(***************************************************************************)
(* The rule that decides, for any rules and any name.                      *)
(***************************************************************************)

\* Min picks the least element of any non-empty set of naturals.
LEMMA LeastNat ==
    ASSUME NEW S \in SUBSET Nat, S # {}
    PROVE  Min(S) \in S /\ \A y \in S : Min(S) <= y
<1>1. PICK x \in S : \A y \in S : << y, x >> \notin OpToRel(<, Nat)
  BY NatLessThanWellFounded, WFMin, Zenon
<1>2. ASSUME NEW y \in S PROVE x <= y
  <2>1. << y, x >> \in Nat \X Nat /\ << y, x >>[1] = y /\ << y, x >>[2] = x
    OBVIOUS
  <2>2. y < x => << y, x >> \in OpToRel(<, Nat)
    BY <2>1, Zenon DEF OpToRel
  <2>3. ~(y < x)
    BY <1>1, <2>2, Zenon
  <2> QED
    BY <2>3
<1> QED
  BY <1>2 DEF Min

\* Max picks the greatest element of any non-empty set of positions.
LEMMA GreatestUpTo ==
    ASSUME NEW n \in Nat, NEW S \in SUBSET (1 .. n), S # {}
    PROVE  Max(S) \in S
<1> DEFINE T == {k \in Nat : n - k \in S}
<1>1. T \in SUBSET Nat /\ T # {}
  <2>1. PICK s \in S : TRUE
    OBVIOUS
  <2>2. s \in 1 .. n /\ n - s \in Nat /\ n - (n - s) = s
    BY <2>1
  <2> QED
    BY <2>1, <2>2
<1>2. PICK t \in T : \A k \in T : t <= k
  BY <1>1, LeastNat
<1>3. PICK x \in S : x = n - t /\ t \in Nat
  BY <1>2
<1>4. ASSUME NEW y \in S PROVE x >= y
  <2>1. y \in 1 .. n /\ n - y \in Nat /\ n - (n - y) = y
    OBVIOUS
  <2>2. n - y \in T
    BY <2>1
  <2>3. t <= n - y
    BY <1>2, <2>2
  <2> QED
    BY <1>3, <2>1, <2>3
<1>5. \E z \in S : \A y \in S : z >= y
  BY <1>4
<1> QED
  BY <1>5, Zenon DEF Max

\* Tests of names never throw.
YesOrNo(tests) ==
    /\ \E n \in Nat : DOMAIN tests = 1 .. n
    /\ \A i \in DOMAIN tests : tests[i] \in {"yes", "no"}

\* FirstOf of such tests says whether one of them says yes.
LEMMA FirstOfNames ==
    ASSUME NEW tests, YesOrNo(tests)
    PROVE  /\ FirstOf(tests) \in {"yes", "no"}
           /\ FirstOf(tests) = "yes" <=> \E i \in DOMAIN tests : tests[i] = "yes"
<1>1. Hits(tests) \in SUBSET Nat /\ Hits(tests) \subseteq DOMAIN tests
  BY DEF Hits, YesOrNo
<1>2. \A i \in DOMAIN tests : i \in Hits(tests) <=> tests[i] = "yes"
  BY DEF Hits, YesOrNo
<1>3. CASE Hits(tests) = {}
  BY <1>2, <1>3 DEF FirstOf
<1>4. CASE Hits(tests) # {}
  <2>1. Min(Hits(tests)) \in Hits(tests)
    BY <1>1, <1>4, LeastNat
  <2>2. FirstOf(tests) = tests[Min(Hits(tests))]
    BY <1>4 DEF FirstOf
  <2> QED
    BY <1>1, <1>2, <2>1, <2>2
<1> QED
  BY <1>3, <1>4

\* Pick of such tests is the first one that says yes.
LEMMA PickNames ==
    ASSUME NEW tests, YesOrNo(tests)
    PROVE  IsFirst(Pick(tests), {i \in DOMAIN tests : tests[i] = "yes"})
<1>1. Hits(tests) \in SUBSET Nat /\ Hits(tests) = {i \in DOMAIN tests : tests[i] = "yes"}
  BY DEF Hits, YesOrNo
<1>2. CASE Hits(tests) = {}
  <2>1. Pick(tests) = 0
    BY <1>2 DEF Pick
  <2> QED
    BY <1>1, <1>2, <2>1 DEF IsFirst
<1>3. CASE Hits(tests) # {}
  <2>1. /\ Deciding(tests) \in Hits(tests)
        /\ \A i \in Hits(tests) : Deciding(tests) <= i
    BY <1>1, <1>3, LeastNat DEF Deciding
  <2>2. tests[Deciding(tests)] = "yes"
    BY <1>1, <2>1
  <2>3. Pick(tests) = Deciding(tests)
    BY <1>3, <2>2 DEF Pick
  <2> QED
    BY <1>1, <2>1, <2>3 DEF IsFirst
<1> QED
  BY <1>2, <1>3

Characters == STRING \cup {".", "a", "[", "]"}
Text == Seq(Characters)

LEMMA StringsAreText == Seq(STRING) \subseteq Text
<1> SUFFICES ASSUME NEW s \in Seq(STRING) PROVE s \in Text
  OBVIOUS
<1>1. Len(s) \in Nat /\ s = [i \in 1 .. Len(s) |-> s[i]] /\ \A i \in 1 .. Len(s) : s[i] \in STRING
  OBVIOUS
<1>2. [i \in 1 .. Len(s) |-> s[i]] \in Seq(Characters)
  BY <1>1, IsASeq DEF Characters
<1> QED
  BY <1>1, <1>2 DEF Text

\* What is left of a text from position i on, character by character.
LEMMA RestIs ==
    ASSUME NEW d \in Text, NEW t \in Text, NEW i \in 1 .. Len(d) + 1
    PROVE  SubSeq(d, i, Len(d)) = t <=>
              Len(t) = Len(d) - i + 1 /\ \A k \in 1 .. Len(t) : d[i + k - 1] = t[k]
<1>1. PICK L \in Nat, M \in Nat : L = Len(d) /\ M = Len(t)
  BY DEF Text
<1> DEFINE s == SubSeq(d, i, L)
<1>2. i \in Nat /\ i >= 1 /\ i <= L + 1
  BY <1>1
<1>3. /\ s \in Seq(Characters) /\ Len(s) = L - i + 1
      /\ \A k \in 1 .. (L - i + 1) : s[k] = d[i + k - 1]
  <2>1. \A k \in i .. L : d[k] \in Characters
    BY <1>1, <1>2 DEF Text
  <2>2. (IF i <= L THEN L - i + 1 ELSE 0) = L - i + 1
    BY <1>1, <1>2
  <2> QED
    BY <1>1, <1>2, <2>1, <2>2, SubSeqProperties DEF Text
<1> HIDE DEF s
<1>4. s = t <=> Len(s) = Len(t) /\ \A k \in 1 .. Len(s) : s[k] = t[k]
  BY <1>3, SeqEqual DEF Text
<1>5. Len(s) = Len(t) => \A k \in 1 .. Len(t) : s[k] = d[i + k - 1]
  BY <1>3
<1>6. s = t <=> Len(t) = L - i + 1 /\ \A k \in 1 .. Len(t) : d[i + k - 1] = t[k]
  BY <1>3, <1>4, <1>5
<1> QED
  BY <1>1, <1>6 DEF s

\* A text that begins with a dot ends a name where a label begins behind it.
LEMMA DottedSuffix ==
    ASSUME NEW d \in Text, NEW x \in Text, x # << >>, x[1] = "."
    PROVE  EndsWith(d, x) <=> \E i \in LabelStarts(d) \ {1} : SubSeq(d, i, Len(d)) = Tail(x)
<1>1. PICK L \in Nat, M \in Nat : /\ L = Len(d) /\ M = Len(x)
                                  /\ DOMAIN d = 1 .. L /\ DOMAIN x = 1 .. M
  BY DEF Text
<1>2. \A i : i \in LabelStarts(d) \ {1} <=> i \in 2 .. L + 1 /\ d[i - 1] = "."
  <2>1. ASSUME NEW i \in LabelStarts(d) \ {1} PROVE i \in 2 .. L + 1 /\ d[i - 1] = "."
    <3>1. PICK j \in 1 .. L : i = j + 1 /\ d[j] = "."
      BY <1>1 DEF LabelStarts
    <3>2. i - 1 = j /\ i \in 2 .. L + 1
      BY <1>1, <3>1
    <3> QED
      BY <3>1, <3>2
  <2>2. ASSUME NEW i \in 2 .. L + 1, d[i - 1] = "." PROVE i \in LabelStarts(d) \ {1}
    <3>1. i - 1 \in 1 .. L /\ (i - 1) + 1 = i /\ i # 1
      BY <1>1
    <3> QED
      BY <1>1, <2>2, <3>1 DEF LabelStarts
  <2> QED
    BY <2>1, <2>2
<1>3. M >= 1
  BY <1>1, EmptySeq DEF Text
<1>4. PICK t \in Text : /\ t = Tail(x) /\ Len(t) = M - 1
                        /\ \A k \in 1 .. (M - 1) : t[k] = x[k + 1]
  <2>1. x \in Seq(Characters)
    BY DEF Text
  <2>2. Tail(x) \in Seq(Characters) /\ Len(Tail(x)) = Len(x) - 1
    BY <2>1, HeadTailProperties
  <2>3. \A k \in 1 .. Len(Tail(x)) : Tail(x)[k] = x[k + 1]
    BY <2>1, HeadTailProperties
  <2> QED
    BY <1>1, <2>2, <2>3 DEF Text
<1>5. ASSUME NEW i \in 2 .. L + 1
      PROVE  d[i - 1] = "." /\ SubSeq(d, i, L) = t <=> SubSeq(d, i - 1, L) = x
  <2>1. i \in 1 .. Len(d) + 1 /\ i - 1 \in 1 .. Len(d) + 1
    BY <1>1
  <2>2. SubSeq(d, i, L) = t <=>
           M - 1 = L - i + 1 /\ \A k \in 1 .. (M - 1) : d[i + k - 1] = t[k]
    <3>1. t \in Text /\ Len(t) = M - 1
      BY <1>4
    <3>2. SubSeq(d, i, Len(d)) = t <=>
             Len(t) = Len(d) - i + 1 /\ \A k \in 1 .. Len(t) : d[i + k - 1] = t[k]
      BY <2>1, <3>1, RestIs
    <3> QED
      BY <1>1, <3>1, <3>2
  <2>3. SubSeq(d, i - 1, L) = x <=>
           M = L - (i - 1) + 1 /\ \A k \in 1 .. M : d[(i - 1) + k - 1] = x[k]
    BY <1>1, <2>1, RestIs
  <2>4. (i - 1) + 1 - 1 = i - 1 /\ 1 \in 1 .. M
    BY <1>1, <1>3
  <2>5. ASSUME \A k \in 1 .. M : d[(i - 1) + k - 1] = x[k]
        PROVE  d[i - 1] = "." /\ \A k \in 1 .. (M - 1) : d[i + k - 1] = t[k]
    <3>1. \A k \in 1 .. (M - 1) : k + 1 \in 1 .. M /\ (i - 1) + (k + 1) - 1 = i + k - 1
      BY <1>1
    <3> QED
      BY <1>4, <2>4, <2>5, <3>1
  <2>6. ASSUME d[i - 1] = ".", \A k \in 1 .. (M - 1) : d[i + k - 1] = t[k],
               NEW k \in 1 .. M
        PROVE  d[(i - 1) + k - 1] = x[k]
    <3>1. CASE k = 1
      BY <2>4, <2>6, <3>1
    <3>2. CASE k # 1
      <4>1. PICK j \in 1 .. (M - 1) : k = j + 1 /\ i + j - 1 = (i - 1) + k - 1
        <5>1. /\ k - 1 \in 1 .. (M - 1) /\ k = (k - 1) + 1
              /\ i + (k - 1) - 1 = (i - 1) + k - 1
          BY <1>1, <3>2
        <5> QED
          BY <5>1
      <4>2. d[i + j - 1] = t[j] /\ t[j] = x[j + 1]
        BY <1>4, <2>6
      <4> QED
        BY <4>1, <4>2
    <3> QED
      BY <3>1, <3>2
  <2>7. M - 1 = L - i + 1 <=> M = L - (i - 1) + 1
    BY <1>1
  <2> QED
    BY <2>2, <2>3, <2>5, <2>6, <2>7
<1>6. EndsWith(d, x) <=> \E i \in 2 .. L + 1 : SubSeq(d, i - 1, L) = x
  <2>1. EndsWith(d, x) <=> L >= M /\ SubSeq(d, L - M + 1, L) = x
    BY <1>1 DEF EndsWith
  <2>2. ASSUME L >= M, SubSeq(d, L - M + 1, L) = x
        PROVE  \E i \in 2 .. L + 1 : SubSeq(d, i - 1, L) = x
    <3>1. L - M + 2 \in 2 .. L + 1 /\ (L - M + 2) - 1 = L - M + 1
      BY <1>1, <1>3, <2>2
    <3> QED
      BY <2>2, <3>1
  <2>3. ASSUME NEW i \in 2 .. L + 1, SubSeq(d, i - 1, L) = x
        PROVE  L >= M /\ SubSeq(d, L - M + 1, L) = x
    <3>1. i - 1 \in 1 .. Len(d) + 1
      BY <1>1
    <3>2. M = L - (i - 1) + 1
      BY <1>1, <2>3, <3>1, RestIs
    <3>3. L >= M /\ L - M + 1 = i - 1
      BY <1>1, <3>2
    <3> QED
      BY <2>3, <3>3
  <2> QED
    BY <2>1, <2>2, <2>3
<1> QED
  BY <1>1, <1>2, <1>4, <1>5, <1>6

\* A suffix is matched where a label begins.
LEMMA SuffixExact ==
    ASSUME NEW d \in Text, NEW x \in Text
    PROVE  SuffixMatches(d, x) <=> SuffixCovers(x, d)
<1>1. CASE x = << >>
  BY <1>1 DEF SuffixMatches, SuffixCovers
<1>2. CASE x # << >> /\ x[1] = "."
  BY <1>2, DottedSuffix DEF SuffixMatches, SuffixCovers
<1>3. CASE x # << >> /\ x[1] # "."
  <2>1. PICK p \in Text : p = << "." >> \o x /\ p # << >> /\ p[1] = "." /\ Tail(p) = x
    <3>1. /\ << "." >> \in Seq(Characters)
          /\ Len(<< "." >>) = 1 /\ << "." >>[1] = "."
      <4>1. "." \in Characters
        BY DEF Characters
      <4> QED
        BY <4>1
    <3>2. PICK p \in Seq(Characters) : p = << "." >> \o x
      BY <3>1, ConcatProperties DEF Text
    <3>3. /\ Len(p) = Len(x) + 1 /\ p[1] = "."
          /\ \A k \in 1 .. Len(x) : p[k + 1] = x[k]
      BY <3>1, <3>2, ConcatProperties DEF Text
    <3>4. Len(x) \in Nat /\ p # << >>
      BY <3>3 DEF Text
    <3>5. /\ Tail(p) \in Seq(Characters) /\ Len(Tail(p)) = Len(p) - 1
          /\ \A k \in 1 .. Len(Tail(p)) : Tail(p)[k] = p[k + 1]
      BY <3>2, <3>4, HeadTailProperties
    <3>6. Len(Tail(p)) = Len(x) /\ \A k \in 1 .. Len(x) : Tail(p)[k] = x[k]
      BY <3>3, <3>4, <3>5
    <3>7. Tail(p) = x
      BY <3>5, <3>6, SeqEqual DEF Text
    <3> QED
      BY <3>2, <3>3, <3>4, <3>7 DEF Text
  <2>2. SuffixMatches(d, x) <=> d = x \/ \E i \in LabelStarts(d) \ {1} : SubSeq(d, i, Len(d)) = x
    BY <1>3, <2>1, DottedSuffix DEF SuffixMatches
  <2>3. SubSeq(d, 1, Len(d)) = d
    BY SubSeqFull DEF Text
  <2>4. 1 \in LabelStarts(d)
    BY DEF LabelStarts
  <2> QED
    BY <1>3, <2>2, <2>3, <2>4 DEF SuffixCovers
<1> QED
  BY <1>1, <1>2, <1>3

\* A keyword is matched at any place in the name.
LEMMA KeywordExact ==
    ASSUME NEW d \in Text, NEW k \in Text
    PROVE  IsIn(k, d) <=> KeywordCovers(k, d)
<1>1. PICK L \in Nat, M \in Nat : L = Len(d) /\ M = Len(k)
  BY DEF Text
<1>2. ASSUME NEW i \in 0 .. (L - M), SubSeq(d, i + 1, i + M) = k
      PROVE  \E a, b \in 0 .. L : SubSeq(d, a + 1, b) = k
  <2>1. i \in 0 .. L /\ i + M \in 0 .. L
    BY <1>1
  <2> QED
    BY <1>2, <2>1
<1>3. ASSUME NEW i \in 0 .. L, NEW j \in 0 .. L, SubSeq(d, i + 1, j) = k
      PROVE  \E a \in 0 .. (L - M) : SubSeq(d, a + 1, a + M) = k
  <2>1. \A n \in (i + 1) .. j : d[n] \in Characters
    BY <1>1 DEF Text
  <2>2. M = IF i + 1 <= j THEN j - (i + 1) + 1 ELSE 0
    BY <1>1, <1>3, <2>1, SubSeqProperties
  <2>3. CASE i + 1 <= j
    <3>1. j = i + M /\ i \in 0 .. (L - M)
      BY <1>1, <2>2, <2>3
    <3> QED
      BY <1>3, <3>1
  <2>4. CASE ~(i + 1 <= j)
    <3>1. M = 0 /\ 0 \in 0 .. (L - M) /\ 0 + 1 = 1 /\ 0 + M = 0
      BY <1>1, <2>2, <2>4
    <3>2. k = << >>
      BY <1>1, <3>1, EmptySeq DEF Text
    <3>3. SubSeq(d, 1, 0) = << >>
      BY SubSeqEmpty
    <3>4. SubSeq(d, 0 + 1, 0 + M) = k
      BY <3>1, <3>2, <3>3
    <3> QED
      BY <3>1, <3>4
  <2> QED
    BY <2>3, <2>4
<1>4. IsIn(k, d) <=> \E a \in 0 .. (L - M) : SubSeq(d, a + 1, a + M) = k
  BY <1>1 DEF IsIn
<1>5. KeywordCovers(k, d) <=> \E a, b \in 0 .. L : SubSeq(d, a + 1, b) = k
  BY <1>1 DEF KeywordCovers
<1> QED
  BY <1>2, <1>3, <1>4, <1>5

\* A name in normal form is a name.
LEMMA NormalIsText ==
    ASSUME NEW s \in Text
    PROVE  normalize_domain(s) \in Text
<1> DEFINE kept == {k \in 1 .. Len(s) : s[k] # "."}
           n == IF kept = {} THEN 0 ELSE Max(kept)
<1>1. Len(s) \in Nat /\ \A k \in 1 .. Len(s) : s[k] \in Characters
  BY DEF Text
<1>2. n \in 0 .. Len(s)
  <2>1. kept \in SUBSET (1 .. Len(s))
    OBVIOUS
  <2>2. CASE kept = {}
    BY <1>1, <2>2
  <2>3. CASE kept # {}
    <3>1. n = Max(kept)
      BY <2>3
    <3> HIDE DEF kept, n
    <3>2. PICK m \in kept : m = Max(kept)
      BY <1>1, <2>1, <2>3, GreatestUpTo
    <3>3. m \in 1 .. Len(s)
      BY <2>1
    <3>4. m \in 0 .. Len(s)
      BY <1>1, <3>3
    <3> QED
      BY <3>1, <3>2, <3>4
  <2> QED
    BY <2>2, <2>3
<1>3. normalize_domain(s) = [i \in 1 .. n |-> ToLower(s[i])]
  BY DEF normalize_domain
<1> HIDE DEF n
<1>4. n \in Nat /\ \A i \in 1 .. n : s[i] \in Characters
  BY <1>1, <1>2
<1>5. \A c \in Characters : ToLower(c) \in Characters
  BY DEF ToLower, Characters
<1>6. [i \in 1 .. n |-> ToLower(s[i])] \in Seq(Characters)
  BY <1>4, <1>5, IsASeq
<1> QED
  BY <1>3, <1>6 DEF Text

\* Router's conditions on names are what the rules mean.
LEMMA ConditionsExact ==
    ASSUME NEW rule, rule.domain_suffix \in SUBSET Text, rule.domain_keyword \in SUBSET Text,
           NEW d \in Text
    PROVE  match_domain(rule, d) <=> NameCovered(rule, d)
BY SuffixExact, KeywordExact DEF match_domain, NameCovered

\* Those of the DNS rules are, in normal form.
LEMMA DnsConditionsExact ==
    ASSUME NEW rule \in Rules, NEW d \in Text
    PROVE  DnsMatches(rule, d) <=> NameCovered(Normal(rule), d)
<1> DEFINE r == Normal(rule)
<1>1. /\ r.domain = {normalize_domain(s) : s \in rule.domain}
      /\ r.domain_suffix = {normalize_domain(s) : s \in rule.domain_suffix}
      /\ r.domain_keyword = {normalize_domain(s) : s \in rule.domain_keyword} \ {<< >>}
  BY DEF Normal, Rules
<1>2. \A s \in rule.domain_suffix \cup rule.domain_keyword : s \in Text
  BY StringsAreText DEF Rules
<1> HIDE DEF r
<1>3. (\E s \in r.domain_suffix : SuffixCovers(s, d)) <=>
         \E s \in rule.domain_suffix : SuffixMatches(d, normalize_domain(s))
  BY <1>1, <1>2, NormalIsText, SuffixExact
<1>4. (\E k \in r.domain_keyword : KeywordCovers(k, d)) <=>
         \E k \in rule.domain_keyword :
            normalize_domain(k) # << >> /\ IsIn(normalize_domain(k), d)
  BY <1>1, <1>2, NormalIsText, KeywordExact
<1>5. NameCovered(r, d) <=> DnsMatches(rule, d)
  BY <1>1, <1>3, <1>4 DEF NameCovered, DnsMatches
<1> QED
  BY <1>5 DEF r

\* The names of rules are texts.
LEMMA RuleTexts ==
    ASSUME NEW rule \in Rules
    PROVE  /\ rule.domain_suffix \in SUBSET Text /\ rule.domain_keyword \in SUBSET Text
           /\ rule.rule_set \in Seq(STRING)
           /\ Len(rule.rule_set) \in Nat /\ DOMAIN rule.rule_set = 1 .. Len(rule.rule_set)
<1>1. /\ rule.domain_suffix \in SUBSET Seq(STRING) /\ rule.domain_keyword \in SUBSET Seq(STRING)
      /\ rule.rule_set \in Seq(STRING)
  BY DEF Rules
<1> QED
  BY <1>1, StringsAreText

\* A rule set says yes to the names one of its rules covers.
LEMMA RuleSetExact ==
    ASSUME NEW sets, sets \in [DOMAIN sets -> Seq(Rules)], NEW tag,
           NEW dst, dst.family = "domain", dst.text \in Text
    PROVE  /\ match_rule_set(sets, tag, dst) \in {"yes", "no"}
           /\ match_rule_set(sets, tag, dst) = "yes" <=>
                 /\ tag \in DOMAIN sets
                 /\ \E s \in ToSet(sets[tag]) : NameCovered(s, dst.text)
<1>1. CASE tag \notin DOMAIN sets
  BY <1>1 DEF match_rule_set
<1>2. CASE tag \in DOMAIN sets
  <2>1. PICK rs \in Seq(Rules) : rs = sets[tag]
    BY <1>2
  <2>2. Len(rs) \in Nat /\ DOMAIN rs = 1 .. Len(rs) /\ \A i \in DOMAIN rs : rs[i] \in Rules
    <3>1. Len(rs) \in Nat /\ DOMAIN rs = 1 .. Len(rs)
      BY LenProperties
    <3> QED
      BY <3>1, ElementOfSeq
  <2> DEFINE tests == [i \in DOMAIN rs |-> match_rule_conditions(rs[i], dst)]
  <2>3. DOMAIN tests = DOMAIN rs
    OBVIOUS
  <2>4. ASSUME NEW i \in DOMAIN rs
        PROVE  /\ tests[i] \in {"yes", "no"}
               /\ tests[i] = "yes" <=> NameCovered(rs[i], dst.text)
    <3>1. tests[i] = Says(match_domain(rs[i], dst.text))
      BY DEF match_rule_conditions
    <3> HIDE DEF tests
    <3>2. match_domain(rs[i], dst.text) <=> NameCovered(rs[i], dst.text)
      BY <2>2, RuleTexts, ConditionsExact
    <3> QED
      BY <3>1, <3>2 DEF Says
  <2>5. match_rule_set(sets, tag, dst) = FirstOf(tests)
    BY <1>2, <2>1 DEF match_rule_set
  <2> HIDE DEF tests
  <2>6. YesOrNo(tests)
    BY <2>2, <2>3, <2>4 DEF YesOrNo
  <2>7. /\ FirstOf(tests) \in {"yes", "no"}
        /\ FirstOf(tests) = "yes" <=> \E i \in DOMAIN rs : NameCovered(rs[i], dst.text)
    BY <2>3, <2>4, <2>6, FirstOfNames
  <2>8. (\E s \in ToSet(rs) : NameCovered(s, dst.text)) <=>
           \E i \in DOMAIN rs : NameCovered(rs[i], dst.text)
    BY DEF ToSet
  <2> QED
    BY <1>2, <2>1, <2>5, <2>7, <2>8
<1> QED
  BY <1>1, <1>2

\* The rule sets of a rule, with the name as it is given to them.
LEMMA SetTests ==
    ASSUME NEW sets, sets \in [DOMAIN sets -> Seq(Rules)], sets = call.sets,
           NEW rule \in Rules, NEW dst, dst.family = "domain", dst.text \in Text,
           NEW tests,
           tests = [i \in DOMAIN rule.rule_set |-> match_rule_set(sets, rule.rule_set[i], dst)]
    PROVE  /\ YesOrNo(tests)
           /\ SetsCover(rule, dst.text) <=> \E i \in DOMAIN tests : tests[i] = "yes"
<1>1. DOMAIN tests = DOMAIN rule.rule_set /\ DOMAIN rule.rule_set = 1 .. Len(rule.rule_set)
      /\ Len(rule.rule_set) \in Nat
  BY RuleTexts
<1>2. ASSUME NEW i \in DOMAIN rule.rule_set
      PROVE  /\ tests[i] \in {"yes", "no"}
             /\ tests[i] = "yes" <=>
                   /\ rule.rule_set[i] \in DOMAIN sets
                   /\ \E s \in ToSet(sets[rule.rule_set[i]]) : NameCovered(s, dst.text)
  <2>1. tests[i] = match_rule_set(sets, rule.rule_set[i], dst)
    OBVIOUS
  <2> QED
    BY <2>1, RuleSetExact
<1>3. YesOrNo(tests)
  BY <1>1, <1>2 DEF YesOrNo
<1>4. SetsCover(rule, dst.text) <=> \E i \in DOMAIN tests : tests[i] = "yes"
  BY <1>1, <1>2 DEF SetsCover
<1> QED
  BY <1>3, <1>4

\* Router::match_rule says yes to the names the rule covers.
LEMMA RuleExact ==
    ASSUME NEW sets, sets \in [DOMAIN sets -> Seq(Rules)], sets = call.sets,
           NEW rule \in Rules, NEW dst, dst.family = "domain", dst.text \in Text
    PROVE  /\ match_rule(sets, rule, dst) \in {"yes", "no"}
           /\ match_rule(sets, rule, dst) = "yes" <=>
                 NameCovered(rule, dst.text) \/ SetsCover(rule, dst.text)
<1>1. PICK tests : tests = [i \in DOMAIN rule.rule_set |->
                              match_rule_set(sets, rule.rule_set[i], dst)]
  OBVIOUS
<1>2. /\ YesOrNo(tests)
      /\ SetsCover(rule, dst.text) <=> \E i \in DOMAIN tests : tests[i] = "yes"
  BY <1>1, SetTests
<1>3. PICK first \in {"yes", "no"} : /\ first = match_rule_conditions(rule, dst)
                                     /\ first = "yes" <=> NameCovered(rule, dst.text)
  <2>1. match_rule_conditions(rule, dst) = Says(match_domain(rule, dst.text))
    BY DEF match_rule_conditions
  <2>2. match_domain(rule, dst.text) <=> NameCovered(rule, dst.text)
    BY RuleTexts, ConditionsExact
  <2> QED
    BY <2>1, <2>2 DEF Says
<1>4. PICK n \in Nat : DOMAIN tests = 1 .. n
  BY <1>2 DEF YesOrNo
<1>5. tests \in Seq({"yes", "no"}) /\ Len(tests) = n
  <2>1. tests = [i \in 1 .. n |-> tests[i]] /\ \A i \in 1 .. n : tests[i] \in {"yes", "no"}
    BY <1>1, <1>2, <1>4 DEF YesOrNo
  <2>2. [i \in 1 .. n |-> tests[i]] \in Seq({"yes", "no"})
    BY <2>1, IsASeq
  <2> QED
    BY <1>4, <2>1, <2>2
<1>6. PICK all \in Seq({"yes", "no"}) :
         /\ all = << first >> \o tests /\ Len(all) = n + 1 /\ DOMAIN all = 1 .. n + 1
         /\ \A i \in 1 .. n + 1 : all[i] = IF i = 1 THEN first ELSE tests[i - 1]
  <2>1. << first >> \in Seq({"yes", "no"}) /\ Len(<< first >>) = 1 /\ << first >>[1] = first
    OBVIOUS
  <2>2. PICK all \in Seq({"yes", "no"}) : all = << first >> \o tests
    BY <1>5, <2>1, ConcatProperties
  <2>3. /\ Len(all) = 1 + n
        /\ \A i \in 1 .. 1 + n : all[i] = IF i <= 1 THEN << first >>[i] ELSE tests[i - 1]
    BY <1>5, <2>1, <2>2, ConcatProperties
  <2>4. Len(all) = n + 1 /\ DOMAIN all = 1 .. n + 1
    BY <2>2, <2>3
  <2>5. \A i \in 1 .. n + 1 : i \in 1 .. 1 + n /\ (i <= 1 <=> i = 1)
    OBVIOUS
  <2> QED
    BY <2>1, <2>2, <2>3, <2>4, <2>5
<1>7. YesOrNo(all)
  <2>1. n + 1 \in Nat /\ \A i \in DOMAIN all : all[i] \in {"yes", "no"}
    BY <1>6
  <2> QED
    BY <1>6, <2>1 DEF YesOrNo
<1>8. (\E i \in DOMAIN all : all[i] = "yes") <=>
         first = "yes" \/ \E i \in DOMAIN tests : tests[i] = "yes"
  <2>1. 1 \in DOMAIN all /\ all[1] = first
    <3>1. 1 \in 1 .. n + 1
      OBVIOUS
    <3> QED
      BY <1>6, <3>1
  <2>2. ASSUME NEW i \in DOMAIN tests PROVE i + 1 \in DOMAIN all /\ all[i + 1] = tests[i]
    <3>1. i + 1 \in 1 .. n + 1 /\ i + 1 # 1 /\ (i + 1) - 1 = i
      BY <1>4
    <3> QED
      BY <1>6, <3>1
  <2>3. ASSUME NEW i \in DOMAIN all, i # 1
        PROVE  i - 1 \in DOMAIN tests /\ all[i] = tests[i - 1]
    <3>1. i \in 1 .. n + 1
      BY <1>6
    <3>2. i - 1 \in 1 .. n
      BY <2>3, <3>1
    <3> QED
      BY <1>4, <1>6, <2>3, <3>1, <3>2
  <2> QED
    BY <2>1, <2>2, <2>3
<1>9. match_rule(sets, rule, dst) = FirstOf(all)
  <2>1. match_rule(sets, rule, dst) = FirstOf(<< first >> \o tests)
    <3>1. match_rule(sets, rule, dst) = FirstOf(<< match_rule_conditions(rule, dst) >> \o tests)
      BY <1>1, Zenon DEF match_rule
    <3>2. match_rule_conditions(rule, dst) = first
      BY <1>3
    <3> QED
      BY <3>1, <3>2, Zenon
  <2>2. all = << first >> \o tests
    BY <1>6
  <2> QED
    BY <2>1, <2>2, Zenon
<1>10. /\ FirstOf(all) \in {"yes", "no"}
       /\ FirstOf(all) = "yes" <=> \E i \in DOMAIN all : all[i] = "yes"
  BY <1>7, FirstOfNames
<1>11. match_rule(sets, rule, dst) = "yes" <=>
          first = "yes" \/ \E i \in DOMAIN tests : tests[i] = "yes"
  BY <1>8, <1>9, <1>10, Zenon
<1>12. first = "yes" <=> NameCovered(rule, dst.text)
  BY <1>3
<1> QED
  BY <1>2, <1>9, <1>10, <1>11, <1>12, Zenon

\* DnsServer::match_rule says yes to the names the rule covers in normal form;
\* for a name no Host can hold it says yes, by the rule's own entries, or throws.
LEMMA DnsRuleExact ==
    ASSUME NEW sets, sets \in [DOMAIN sets -> Seq(Rules)], sets = call.sets,
           NEW rule \in Rules, NEW d \in Text
    PROVE  /\ ~DomainThrows(d) =>
                 /\ dns_match_rule(sets, rule, d) \in {"yes", "no"}
                 /\ dns_match_rule(sets, rule, d) = "yes" <=>
                       NameCovered(Normal(rule), d) \/ SetsCover(rule, d)
           /\ DomainThrows(d) =>
                 dns_match_rule(sets, rule, d) =
                    IF NameCovered(Normal(rule), d) THEN "yes" ELSE "throws"
<1>1. PICK dst : dst = [family |-> "domain", text |-> d]
  OBVIOUS
<1>2. dst.family = "domain" /\ dst.text = d /\ dst.text \in Text
  BY <1>1
<1>3. PICK tests : tests = [i \in DOMAIN rule.rule_set |->
                              match_rule_set(sets, rule.rule_set[i], dst)]
  OBVIOUS
<1>4. /\ YesOrNo(tests)
      /\ SetsCover(rule, dst.text) <=> \E i \in DOMAIN tests : tests[i] = "yes"
  BY <1>2, <1>3, SetTests
<1>5. /\ FirstOf(tests) \in {"yes", "no"}
      /\ FirstOf(tests) = "yes" <=> \E i \in DOMAIN tests : tests[i] = "yes"
  BY <1>4, FirstOfNames
<1>6. DnsMatches(rule, d) <=> NameCovered(Normal(rule), d)
  BY DnsConditionsExact
<1>7. dns_match_rule(sets, rule, d) =
         IF DnsMatches(rule, d) THEN "yes"
         ELSE IF DomainThrows(d) THEN "throws" ELSE FirstOf(tests)
  BY <1>1, <1>3, Zenon DEF dns_match_rule
<1>8. CASE ~DomainThrows(d)
  BY <1>2, <1>4, <1>5, <1>6, <1>7, <1>8
<1>9. CASE DomainThrows(d)
  BY <1>6, <1>7, <1>9
<1> QED
  BY <1>8, <1>9

\* What pick_outbound and pick_nameserver return, for any rules and name.
LEMMA NamePicked ==
    ASSUME NEW rules \in Seq(Rules), NEW sets, sets \in [DOMAIN sets -> Seq(Rules)],
           sets = call.sets, NEW dst, dst.family = "domain", dst.text \in Text,
           NEW n \in Text, n = normalize_domain(dst.text)
    PROVE  /\ IsFirst(pick_outbound(sets, rules, dst),
                 {i \in DOMAIN rules :
                    NameCovered(rules[i], dst.text) \/ SetsCover(rules[i], dst.text)})
           /\ ~DomainThrows(n) => IsFirst(pick_nameserver(sets, rules, dst.text),
                 {i \in DOMAIN rules :
                    NameCovered(Normal(rules[i]), n) \/ SetsCover(rules[i], n)})
           /\ DomainThrows(n) /\ rules = << >> => pick_nameserver(sets, rules, dst.text) = 0
           /\ DomainThrows(n) /\ rules # << >> =>
                 pick_nameserver(sets, rules, dst.text) =
                    IF NameCovered(Normal(rules[1]), n) THEN 1 ELSE -1
<1>1. Len(rules) \in Nat /\ DOMAIN rules = 1 .. Len(rules) /\ \A i \in DOMAIN rules : rules[i] \in Rules
  <2>1. Len(rules) \in Nat /\ DOMAIN rules = 1 .. Len(rules)
    BY LenProperties
  <2> QED
    BY <2>1, ElementOfSeq
<1>2. PICK out : out = [i \in DOMAIN rules |-> match_rule(sets, rules[i], dst)]
  OBVIOUS
<1>3. PICK served : served = [i \in DOMAIN rules |-> dns_match_rule(sets, rules[i], n)]
  OBVIOUS
<1>4. pick_outbound(sets, rules, dst) = Pick(out)
  BY <1>2, Zenon DEF pick_outbound
<1>5. pick_nameserver(sets, rules, dst.text) = Pick(served)
  BY <1>3, Zenon DEF pick_nameserver
<1>6. IsFirst(Pick(out), {i \in DOMAIN rules :
                            NameCovered(rules[i], dst.text) \/ SetsCover(rules[i], dst.text)})
  <2>1. ASSUME NEW i \in DOMAIN rules
        PROVE  /\ out[i] \in {"yes", "no"}
               /\ out[i] = "yes" <=>
                     NameCovered(rules[i], dst.text) \/ SetsCover(rules[i], dst.text)
    <3>1. out[i] = match_rule(sets, rules[i], dst)
      BY <1>2
    <3>2. rules[i] \in Rules
      BY <1>1
    <3> QED
      BY <3>1, <3>2, RuleExact
  <2>2. DOMAIN out = DOMAIN rules
    BY <1>2
  <2>3. YesOrNo(out)
    BY <1>1, <2>1, <2>2 DEF YesOrNo
  <2>4. IsFirst(Pick(out), {i \in DOMAIN out : out[i] = "yes"})
    BY <2>3, PickNames
  <2>5. {i \in DOMAIN out : out[i] = "yes"} =
           {i \in DOMAIN rules : NameCovered(rules[i], dst.text) \/ SetsCover(rules[i], dst.text)}
    BY <2>1, <2>2
  <2> QED
    BY <2>4, <2>5, Zenon
<1>7. DOMAIN served = DOMAIN rules
  BY <1>3
<1>8. ASSUME ~DomainThrows(n)
      PROVE  IsFirst(Pick(served), {i \in DOMAIN rules :
                                    NameCovered(Normal(rules[i]), n) \/ SetsCover(rules[i], n)})
  <2>1. ASSUME NEW i \in DOMAIN rules
        PROVE  /\ served[i] \in {"yes", "no"}
               /\ served[i] = "yes" <=> NameCovered(Normal(rules[i]), n) \/ SetsCover(rules[i], n)
    <3>1. served[i] = dns_match_rule(sets, rules[i], n)
      BY <1>3
    <3>2. rules[i] \in Rules
      BY <1>1
    <3> QED
      BY <1>8, <3>1, <3>2, DnsRuleExact
  <2>2. YesOrNo(served)
    BY <1>1, <1>7, <2>1 DEF YesOrNo
  <2>3. IsFirst(Pick(served), {i \in DOMAIN served : served[i] = "yes"})
    BY <2>2, PickNames
  <2>4. {i \in DOMAIN served : served[i] = "yes"} =
           {i \in DOMAIN rules : NameCovered(Normal(rules[i]), n) \/ SetsCover(rules[i], n)}
    BY <1>7, <2>1
  <2> QED
    BY <2>3, <2>4, Zenon
<1>9. ASSUME DomainThrows(n), rules # << >>
      PROVE  Pick(served) = IF NameCovered(Normal(rules[1]), n) THEN 1 ELSE -1
  <2>1. ASSUME NEW i \in DOMAIN rules
        PROVE  served[i] = IF NameCovered(Normal(rules[i]), n) THEN "yes" ELSE "throws"
    <3>1. served[i] = dns_match_rule(sets, rules[i], n)
      BY <1>3
    <3>2. rules[i] \in Rules
      BY <1>1
    <3> QED
      BY <1>9, <3>1, <3>2, DnsRuleExact
  <2>2. 1 \in DOMAIN rules
    <3>1. Len(rules) \in Nat \ {0}
      BY <1>9, EmptySeq
    <3> QED
      BY <1>1, <3>1
  <2>3. Hits(served) = DOMAIN rules
    <3>1. \A i \in DOMAIN rules : served[i] # "no"
      BY <2>1
    <3> QED
      BY <1>7, <3>1 DEF Hits
  <2>4. Deciding(served) = 1
    <3>1. Hits(served) \in SUBSET Nat /\ Hits(served) # {}
      BY <1>1, <2>2, <2>3
    <3>2. PICK k \in Hits(served) : k = Deciding(served) /\ \A y \in Hits(served) : k <= y
      BY <3>1, LeastNat DEF Deciding
    <3>3. k \in Nat /\ 1 <= k /\ k <= 1
      BY <1>1, <2>2, <2>3, <3>2
    <3> QED
      BY <3>2, <3>3
  <2>5. Hits(served) # {}
    BY <2>2, <2>3
  <2>6. Pick(served) = IF served[1] = "throws" THEN -1 ELSE 1
    BY <2>4, <2>5 DEF Pick
  <2> QED
    BY <2>1, <2>2, <2>6
<1>10. ASSUME rules = << >> PROVE Pick(served) = 0
  <2>1. DOMAIN rules = {}
    BY <1>10
  <2>2. Hits(served) = {}
    BY <1>7, <2>1 DEF Hits
  <2> QED
    BY <2>2 DEF Pick
<1> QED
  BY <1>4, <1>5, <1>6, <1>8, <1>9, <1>10

\* A call keeps its arguments, and has its result once it is evaluated.
Evaluated ==
    /\ call.fn = "pick" => call \in RouteCalls
    /\ call.fn = "target" => call \in TargetCalls
    /\ got \in {<< >>, << Result >>}

LEMMA EvaluatedInvariant == CallSpec => []Evaluated
<1>1. CallInit => Evaluated
  BY CallAssumption DEF CallInit, Evaluated
<1>2. Evaluated /\ [CallNext]_calls => Evaluated'
  <2> SUFFICES ASSUME Evaluated, [CallNext]_calls
               PROVE  Evaluated'
    OBVIOUS
  <2>1. call' = call
    BY DEF CallNext, Evaluate, ParseMessage, SniffHello, calls
  <2>2. call' = call => Result' = Result
    BY DEF Result
  <2>3. got' \in {got, << Result >>}
    <3>1. CASE Evaluate
      BY <3>1 DEF Evaluate
    <3>2. CASE ParseMessage
      BY <3>2 DEF ParseMessage
    <3>3. CASE SniffHello
      BY <3>3 DEF SniffHello
    <3>4. CASE UNCHANGED calls
      BY <3>4 DEF calls
    <3> QED
      BY <3>1, <3>2, <3>3, <3>4 DEF CallNext
  <2>4. Result' = Result
    BY <2>1, <2>2
  <2> QED
    BY <2>1, <2>3, <2>4 DEF Evaluated
<1> QED
  BY <1>1, <1>2, PTL DEF CallSpec

\* Names are routed by the first rule that covers them, and resolved by the
\* nameserver of the first one (FirstNameRuleDecides), for any rules, rule sets
\* and names; a name no Host can hold is left to the first DNS rule, or throws.
THEOREM NamesFirstRuleDecides == CallSpec => []FirstNameRuleDecides
<1>1. Evaluated => FirstNameRuleDecides
  <2> SUFFICES ASSUME Evaluated, Done("pick"), call.dst.family = "domain"
               PROVE  FirstNameRuleDecides
    BY DEF FirstNameRuleDecides
  <2>1. call.fn = "pick" /\ call \in RouteCalls /\ got = << Result >>
    BY DEF Done, Evaluated
  <2>2. /\ call.rules \in Seq(Rules) /\ call.sets \in [DOMAIN call.sets -> Seq(Rules)]
        /\ call.dst.text \in Text
    BY <2>1, CallAssumption, StringsAreText
  <2>3. normalize_domain(call.dst.text) \in Text
    BY <2>2, NormalIsText
  <2>4. Answer = Result
    BY <2>1 DEF Answer
  <2>5. /\ ~DomainThrows(call.dst.text) =>
              Answer.outbound = pick_outbound(call.sets, call.rules, call.dst)
        /\ Answer.nameserver = pick_nameserver(call.sets, call.rules, call.dst.text)
    BY <2>1, <2>4 DEF Result, IsDestination
  <2>6. PICK n \in Text : n = normalize_domain(call.dst.text)
    BY <2>3
  <2>7. /\ ~DomainThrows(call.dst.text) => IsFirst(Answer.outbound,
              {i \in DOMAIN call.rules :
                 \/ NameCovered(call.rules[i], call.dst.text)
                 \/ SetsCover(call.rules[i], call.dst.text)})
        /\ ~DomainThrows(n) => IsFirst(Answer.nameserver,
              {i \in DOMAIN call.rules :
                 NameCovered(Normal(call.rules[i]), n) \/ SetsCover(call.rules[i], n)})
        /\ DomainThrows(n) /\ call.rules = << >> => Answer.nameserver = 0
        /\ DomainThrows(n) /\ call.rules # << >> =>
              Answer.nameserver = IF NameCovered(Normal(call.rules[1]), n) THEN 1 ELSE -1
    <3>1. PICK rules \in Seq(Rules) : rules = call.rules
      BY <2>2
    <3>2. PICK sets : sets = call.sets
      OBVIOUS
    <3>3. PICK dst : dst = call.dst
      OBVIOUS
    <3>4. /\ sets \in [DOMAIN sets -> Seq(Rules)]
          /\ dst.family = "domain" /\ dst.text \in Text /\ n = normalize_domain(dst.text)
      BY <2>2, <2>6, <3>2, <3>3
    <3>5. /\ IsFirst(pick_outbound(sets, rules, dst),
                {i \in DOMAIN rules :
                   NameCovered(rules[i], dst.text) \/ SetsCover(rules[i], dst.text)})
          /\ ~DomainThrows(n) => IsFirst(pick_nameserver(sets, rules, dst.text),
                {i \in DOMAIN rules :
                   NameCovered(Normal(rules[i]), n) \/ SetsCover(rules[i], n)})
          /\ DomainThrows(n) /\ rules = << >> => pick_nameserver(sets, rules, dst.text) = 0
          /\ DomainThrows(n) /\ rules # << >> =>
                pick_nameserver(sets, rules, dst.text) =
                   IF NameCovered(Normal(rules[1]), n) THEN 1 ELSE -1
      BY <3>2, <3>4, NamePicked
    <3> QED
      BY <2>5, <3>1, <3>2, <3>3, <3>5, Zenon
  <2> QED
    BY <2>6, <2>7, Zenon DEF FirstNameRuleDecides
<1> QED
  BY <1>1, EvaluatedInvariant, PTL
-----------------------------------------------------------------------------
(***************************************************************************)
(* The destination of a request, for any text.                             *)
(***************************************************************************)

\* A piece of a text, character by character.
LEMMA Piece ==
    ASSUME NEW d \in Text, NEW a \in Nat, NEW b \in Nat, 1 <= a, a <= b + 1, b <= Len(d)
    PROVE  /\ SubSeq(d, a, b) \in Text /\ Len(SubSeq(d, a, b)) = b - a + 1
           /\ \A k \in 1 .. (b - a + 1) : SubSeq(d, a, b)[k] = d[a + k - 1]
<1>1. \A i \in a .. b : d[i] \in Characters
  BY DEF Text
<1>2. /\ SubSeq(d, a, b) \in Seq(Characters)
      /\ Len(SubSeq(d, a, b)) = IF a <= b THEN b - a + 1 ELSE 0
      /\ \A k \in 1 .. (b - a + 1) : SubSeq(d, a, b)[k] = d[a + k - 1]
  BY <1>1, SubSeqProperties
<1>3. (IF a <= b THEN b - a + 1 ELSE 0) = b - a + 1
  OBVIOUS
<1> QED
  BY <1>2, <1>3 DEF Text

\* A text in brackets, character by character.
LEMMA Brackets ==
    ASSUME NEW t \in Text
    PROVE  /\ << "[" >> \o t \o << "]" >> \in Text
           /\ Len(<< "[" >> \o t \o << "]" >>) = Len(t) + 2
           /\ (<< "[" >> \o t \o << "]" >>)[1] = "["
           /\ (<< "[" >> \o t \o << "]" >>)[Len(t) + 2] = "]"
           /\ \A k \in 1 .. Len(t) : (<< "[" >> \o t \o << "]" >>)[k + 1] = t[k]
<1>1. PICK M \in Nat : M = Len(t)
  BY DEF Text
<1>2. /\ << "[" >> \in Seq(Characters) /\ Len(<< "[" >>) = 1 /\ << "[" >>[1] = "["
      /\ << "]" >> \in Seq(Characters) /\ Len(<< "]" >>) = 1 /\ << "]" >>[1] = "]"
  <2>1. "[" \in Characters /\ "]" \in Characters
    BY DEF Characters
  <2> QED
    BY <2>1
<1>3. PICK u \in Seq(Characters) : u = << "[" >> \o t
  BY <1>2, ConcatProperties DEF Text
<1>4. /\ Len(u) = M + 1 /\ u[1] = "["
      /\ \A k \in 1 .. M : u[k + 1] = t[k]
  BY <1>1, <1>2, <1>3, ConcatProperties DEF Text
<1>5. PICK v \in Seq(Characters) : v = u \o << "]" >>
  BY <1>2, <1>3, ConcatProperties
<1>6. /\ Len(v) = Len(u) + 1
      /\ \A k \in 1 .. Len(u) + 1 : v[k] = IF k <= Len(u) THEN u[k] ELSE << "]" >>[k - Len(u)]
  BY <1>2, <1>3, <1>5, ConcatProperties
<1>7. Len(v) = M + 2 /\ v[1] = "[" /\ v[M + 2] = "]" /\ \A k \in 1 .. M : v[k + 1] = t[k]
  <2>1. Len(v) = M + 2 /\ \A k \in 1 .. (M + 1) : v[k] = u[k]
    BY <1>1, <1>4, <1>6
  <2>2. v[M + 2] = << "]" >>[1]
    BY <1>1, <1>4, <1>6
  <2>3. 1 \in 1 .. (M + 1) /\ \A k \in 1 .. M : k + 1 \in 1 .. (M + 1)
    BY <1>1
  <2> QED
    BY <1>2, <1>4, <2>1, <2>2, <2>3
<1>8. v = << "[" >> \o t \o << "]" >>
  BY <1>3, <1>5
<1> QED
  BY <1>1, <1>5, <1>7, <1>8 DEF Text

\* A text from its first bracket to a closing one is what is between them, in
\* brackets.
LEMMA BetweenBrackets ==
    ASSUME NEW d \in Text, NEW c \in 2 .. Len(d), d[1] = "[", d[c] = "]"
    PROVE  /\ SubSeq(d, 2, c - 1) \in Text
           /\ SubSeq(d, 1, c) = << "[" >> \o SubSeq(d, 2, c - 1) \o << "]" >>
<1>1. Len(d) \in Nat /\ c \in Nat /\ 2 <= c /\ c <= Len(d) /\ c - 1 \in Nat
  BY DEF Text
<1>2. PICK t \in Text : /\ t = SubSeq(d, 2, c - 1) /\ Len(t) = c - 2
                        /\ \A k \in 1 .. (c - 2) : t[k] = d[k + 1]
  <2>1. 1 <= 2 /\ 2 <= (c - 1) + 1 /\ c - 1 <= Len(d) /\ (c - 1) - 2 + 1 = c - 2
    BY <1>1
  <2>2. /\ SubSeq(d, 2, c - 1) \in Text /\ Len(SubSeq(d, 2, c - 1)) = (c - 1) - 2 + 1
        /\ \A k \in 1 .. ((c - 1) - 2 + 1) : SubSeq(d, 2, c - 1)[k] = d[2 + k - 1]
    BY <1>1, <2>1, Piece
  <2>3. SubSeq(d, 2, c - 1) \in Text /\ Len(SubSeq(d, 2, c - 1)) = c - 2
    BY <2>1, <2>2
  <2>4. \A k \in 1 .. (c - 2) : k \in 1 .. ((c - 1) - 2 + 1) /\ 2 + k - 1 = k + 1
    BY <1>1
  <2>5. \A k \in 1 .. (c - 2) : SubSeq(d, 2, c - 1)[k] = d[k + 1]
    BY <2>2, <2>4
  <2> QED
    BY <2>3, <2>5
<1>3. PICK u \in Text : /\ u = SubSeq(d, 1, c) /\ Len(u) = c
                        /\ \A k \in 1 .. c : u[k] = d[k]
  <2>1. /\ SubSeq(d, 1, c) \in Text /\ Len(SubSeq(d, 1, c)) = c - 1 + 1
        /\ \A k \in 1 .. (c - 1 + 1) : SubSeq(d, 1, c)[k] = d[1 + k - 1]
    BY <1>1, Piece
  <2>2. c - 1 + 1 = c /\ \A k \in 1 .. c : 1 + k - 1 = k
    BY <1>1
  <2> QED
    BY <2>1, <2>2
<1>4. PICK v \in Text : /\ v = << "[" >> \o t \o << "]" >> /\ Len(v) = c /\ v[1] = "[" /\ v[c] = "]"
                        /\ \A k \in 1 .. (c - 2) : v[k + 1] = t[k]
  <2>1. Len(t) = c - 2 /\ Len(t) + 2 = c
    BY <1>1, <1>2
  <2>2. PICK v \in Text : v = << "[" >> \o t \o << "]" >>
    BY Brackets
  <2>3. Len(v) = Len(t) + 2 /\ v[1] = "[" /\ v[Len(t) + 2] = "]"
    BY <2>2, Brackets
  <2>4. \A k \in 1 .. Len(t) : v[k + 1] = t[k]
    BY <2>2, Brackets
  <2> QED
    BY <2>1, <2>2, <2>3, <2>4
<1>5. ASSUME NEW k \in 1 .. c PROVE u[k] = v[k]
  <2>1. CASE k = 1
    BY <1>1, <1>3, <1>4, <2>1
  <2>2. CASE k = c
    BY <1>1, <1>3, <1>4, <2>2
  <2>3. CASE k # 1 /\ k # c
    <3>1. PICK j \in 1 .. (c - 2) : k = j + 1
      <4>1. k - 1 \in 1 .. (c - 2) /\ k = (k - 1) + 1
        BY <1>1, <2>3
      <4> QED
        BY <4>1
    <3> QED
      BY <1>2, <1>3, <1>4, <3>1
  <2> QED
    BY <2>1, <2>2, <2>3
<1>6. u = v
  BY <1>3, <1>4, <1>5, SeqEqual DEF Text
<1> QED
  BY <1>2, <1>3, <1>4, <1>6

\* With a port in range, a destination has that port, unless its host is no Host.
LEMMA GivenPort ==
    ASSUME NEW least \in Nat, NEW type, NEW host, NEW port
    PROVE  \/ Destination(type, host, PortOr(port, least)) = Threw
           \/ /\ IsNumber(port) /\ Value(port) \in least .. MaxPort
              /\ Destination(type, host, PortOr(port, least)) =
                    [type |-> type, host |-> host, port |-> Value(port)]
<1>1. CASE IsNumber(port) /\ Value(port) \in least .. MaxPort
  <2>1. PortOr(port, least) = Value(port)
    BY <1>1 DEF PortOr
  <2>2. PICK v \in least .. MaxPort : v = Value(port)
    BY <1>1
  <2>3. ~(v < 0)
    BY <2>2, HttpTargetAssumption
  <2>4. CASE type = "domain" /\ DomainThrows(host)
    BY <2>4 DEF Destination
  <2>5. CASE ~(type = "domain" /\ DomainThrows(host))
    BY <1>1, <2>1, <2>2, <2>3, <2>5 DEF Destination
  <2> QED
    BY <2>4, <2>5
<1>2. CASE ~(IsNumber(port) /\ Value(port) \in least .. MaxPort)
  <2>1. PortOr(port, least) = -1
    BY <1>2 DEF PortOr
  <2>2. -1 < 0
    OBVIOUS
  <2> QED
    BY <2>1, <2>2 DEF Destination
<1> QED
  BY <1>1, <1>2

\* What is split at a colon into a host and a port is one reading of the text.
LEMMA ReadAs ==
    ASSUME NEW text, NEW i \in Find(text, ":"), NEW hosts, NEW least \in Nat, NEW host, NEW d,
           SubSeq(text, 1, i - 1) \in hosts,
           SubSeq(text, 1, i - 1) \in {host} \cup InBrackets({host}),
           d = Destination(HostType(host), host, PortOr(From(text, i + 1), least))
    PROVE  d = Threw \/ \E s \in Readings(text, hosts, least) : Means(d, s)
<1> SUFFICES ASSUME d # Threw
             PROVE  \E s \in Readings(text, hosts, least) : Means(d, s)
  OBVIOUS
<1>1. PICK port : port = From(text, i + 1)
  OBVIOUS
<1>2. PICK front : front = SubSeq(text, 1, i - 1)
  OBVIOUS
<1>3. /\ IsNumber(port) /\ Value(port) \in least .. MaxPort
      /\ d = [type |-> HostType(host), host |-> host, port |-> Value(port)]
  BY <1>1, GivenPort
<1>4. PICK s : s = [host |-> front, port |-> port]
  OBVIOUS
<1>5. s.host = front /\ s.port = port
  BY <1>4
<1>6. s \in Splits(text)
  BY <1>1, <1>2, <1>4, Zenon DEF Splits
<1>7. s \in Readings(text, hosts, least)
  BY <1>2, <1>3, <1>5, <1>6, Zenon DEF Readings
<1>8. d.type = HostType(host) /\ d.host = host /\ d.port = Value(port)
  BY <1>3
<1>9. front \in {host} \cup InBrackets({host})
  BY <1>2
<1>10. Means(d, s)
  BY <1>5, <1>8, <1>9, Zenon DEF Means, MeansHost
<1> QED
  BY <1>7, <1>10

\* Addresses are texts, and Host::parse tells the two families apart.
LEMMA AddressTexts ==
    /\ Ipv4Texts \subseteq Text /\ Ipv6Texts \subseteq Text
    /\ \A t \in Ipv4Texts : HostType(t) = "ipv4"
    /\ \A t \in Ipv6Texts : HostType(t) = "ipv6"
BY HttpTargetAssumption, StringsAreText DEF HostType, IsIpv4, IsIpv6

\* A text Host::parse takes for a domain and refuses gives no destination.
LEMMA DomainRefused ==
    ASSUME NEW text \in Text, NEW port, text \notin Ipv4Texts, ":" \notin ToSet(text),
           ~(Len(text) <= MaxDomain)
    PROVE  Destination(HostType(text), text, port) = Threw
<1>1. HostType(text) = "domain"
  BY HttpTargetAssumption DEF HostType, IsIpv4, IsIpv6
<1>2. DomainThrows(text)
  BY AddressAssumption DEF DomainThrows, Text
<1> QED
  BY <1>1, <1>2 DEF Destination

\* The places of a character.
LEMMA FindFacts ==
    ASSUME NEW text \in Text, NEW c
    PROVE  /\ Find(text, c) \in SUBSET (1 .. Len(text)) /\ Len(text) \in Nat
           /\ \A i \in 1 .. Len(text) : i \in Find(text, c) <=> text[i] = c
           /\ c \in ToSet(text) <=> Find(text, c) # {}
<1>1. Len(text) \in Nat /\ DOMAIN text = 1 .. Len(text)
  BY DEF Text
<1> QED
  BY <1>1 DEF Find, ToSet

\* The closing bracket, and what is behind it.
LEMMA Closing ==
    ASSUME NEW text \in Text, text # << >>, text[1] = "[", Find(text, "]") # {}
    PROVE  LET close == Min(Find(text, "]"))
           IN  /\ close \in 2 .. Len(text) /\ text[close] = "]"
               /\ Len(From(text, close + 1)) = Len(text) - close
               /\ From(text, close + 1) = << >> <=> close = Len(text)
               /\ close < Len(text) =>
                     /\ From(text, close + 1)[1] = text[close + 1]
                     /\ Tail(From(text, close + 1)) = From(text, close + 2)
<1>1. PICK L \in Nat : L = Len(text)
  BY DEF Text
<1>2. PICK c : c = Min(Find(text, "]"))
  OBVIOUS
<1>3. c \in 1 .. L /\ text[c] = "]"
  <2>1. Find(text, "]") \in SUBSET Nat
    BY FindFacts
  <2>2. c \in Find(text, "]")
    BY <1>2, <2>1, LeastNat
  <2> QED
    BY <1>1, <2>2, FindFacts
<1>4. c \in 2 .. L /\ c \in Nat /\ c + 1 \in Nat /\ c + 2 \in Nat
  <2>1. c # 1
    BY <1>3
  <2> QED
    BY <1>1, <1>3, <2>1
<1>5. PICK u \in Text : /\ u = From(text, c + 1) /\ Len(u) = L - c
                        /\ \A k \in 1 .. (L - c) : u[k] = text[c + k]
  <2>1. 1 <= c + 1 /\ c + 1 <= L + 1 /\ L - (c + 1) + 1 = L - c
    BY <1>1, <1>4
  <2>2. /\ SubSeq(text, c + 1, L) \in Text /\ Len(SubSeq(text, c + 1, L)) = L - (c + 1) + 1
        /\ \A k \in 1 .. (L - (c + 1) + 1) : SubSeq(text, c + 1, L)[k] = text[(c + 1) + k - 1]
    BY <1>1, <1>4, <2>1, Piece
  <2>3. \A k \in 1 .. (L - c) : (c + 1) + k - 1 = c + k
    BY <1>1, <1>4
  <2>4. From(text, c + 1) = SubSeq(text, c + 1, L)
    BY <1>1 DEF From
  <2>5. \A k \in 1 .. (L - c) : SubSeq(text, c + 1, L)[k] = text[c + k]
    BY <2>1, <2>2, <2>3
  <2> QED
    BY <2>1, <2>2, <2>4, <2>5
<1>6. u = << >> <=> c = L
  <2>1. u = << >> <=> Len(u) = 0
    BY <1>5, EmptySeq DEF Text
  <2> QED
    BY <1>1, <1>4, <1>5, <2>1
<1>7. ASSUME c < L
      PROVE  u[1] = text[c + 1] /\ Tail(u) = From(text, c + 2)
  <2>1. u[1] = text[c + 1]
    <3>1. 1 \in 1 .. (L - c)
      BY <1>1, <1>4, <1>7
    <3> QED
      BY <1>5, <3>1
  <2>2. u \in Seq(Characters) /\ u # << >>
    BY <1>1, <1>4, <1>6, <1>7 DEF Text
  <2>3. /\ Tail(u) \in Text /\ Len(Tail(u)) = L - c - 1
        /\ \A k \in 1 .. (L - c - 1) : Tail(u)[k] = text[c + (k + 1)]
    <3>1. /\ Tail(u) \in Seq(Characters) /\ Len(Tail(u)) = Len(u) - 1
          /\ \A k \in 1 .. Len(Tail(u)) : Tail(u)[k] = u[k + 1]
      BY <2>2, HeadTailProperties
    <3>2. Len(Tail(u)) = L - c - 1
      BY <1>5, <3>1
    <3>3. \A k \in 1 .. (L - c - 1) : k + 1 \in 1 .. (L - c)
      BY <1>1, <1>4
    <3> QED
      BY <1>5, <3>1, <3>2, <3>3 DEF Text
  <2>4. PICK w \in Text : /\ w = From(text, c + 2) /\ Len(w) = L - c - 1
                          /\ \A k \in 1 .. (L - c - 1) : w[k] = text[c + (k + 1)]
    <3>1. 1 <= c + 2 /\ c + 2 <= L + 1 /\ L - (c + 2) + 1 = L - c - 1
      BY <1>1, <1>4, <1>7
    <3>2. /\ SubSeq(text, c + 2, L) \in Text /\ Len(SubSeq(text, c + 2, L)) = L - (c + 2) + 1
          /\ \A k \in 1 .. (L - (c + 2) + 1) : SubSeq(text, c + 2, L)[k] = text[(c + 2) + k - 1]
      BY <1>1, <1>4, <3>1, Piece
    <3>3. \A k \in 1 .. (L - c - 1) : (c + 2) + k - 1 = c + (k + 1)
      BY <1>1, <1>4
    <3>4. From(text, c + 2) = SubSeq(text, c + 2, L)
      BY <1>1 DEF From
    <3>5. \A k \in 1 .. (L - c - 1) : SubSeq(text, c + 2, L)[k] = text[c + (k + 1)]
      BY <3>1, <3>2, <3>3
    <3> QED
      BY <3>1, <3>2, <3>4, <3>5
  <2>5. Tail(u) = w
    BY <2>3, <2>4, SeqEqual DEF Text
  <2> QED
    BY <2>1, <2>4, <2>5
<1> QED
  BY <1>1, <1>2, <1>3, <1>4, <1>5, <1>6, <1>7

\* A text that is a host in brackets up to its last character.
LEMMA WholeInBrackets ==
    ASSUME NEW text \in Text, NEW close \in 2 .. Len(text), text[1] = "[", text[close] = "]",
           close = Len(text)
    PROVE  text = << "[" >> \o SubSeq(text, 2, close - 1) \o << "]" >>
<1>1. SubSeq(text, 1, close) = << "[" >> \o SubSeq(text, 2, close - 1) \o << "]" >>
  BY BetweenBrackets
<1>2. SubSeq(text, 1, Len(text)) = text
  BY SubSeqFull DEF Text
<1> QED
  BY <1>1, <1>2

\* What is returned without a port, if that is allowed.
PortLeftOut(d, text, default_port, explicit) ==
    /\ ~explicit
    /\ WithoutPort(text)
    /\ \E host : /\ d = Destination(HostType(host), host, default_port)
                 /\ text \in {host} \cup InBrackets({host})

LEMMA BracketedMeant ==
    ASSUME NEW text \in Text, text # << >>, text[1] = "[", NEW default_port,
           NEW explicit \in BOOLEAN, NEW d, d = Bracketed(text, default_port, explicit)
    PROVE  \/ d = Threw
           \/ \E s \in Readings(text, InBrackets(Ipv6Texts), 1) : Means(d, s)
           \/ PortLeftOut(d, text, default_port, explicit)
<1>1. PICK close : close = Min(Find(text, "]"))
  OBVIOUS
<1>2. PICK host : host = SubSeq(text, 2, close - 1)
  OBVIOUS
<1>3. PICK suffix : suffix = From(text, close + 1)
  OBVIOUS
<1>4. d = IF Find(text, "]") = {} \/ ~IsIpv6(host) THEN Threw
          ELSE IF suffix = << >>
          THEN IF explicit THEN Threw ELSE Destination("ipv6", host, default_port)
          ELSE IF suffix[1] # ":" THEN Threw
          ELSE Destination("ipv6", host, PortOr(Tail(suffix), 1))
  BY <1>1, <1>2, <1>3, Zenon DEF Bracketed
<1>5. CASE Find(text, "]") = {} \/ ~IsIpv6(host)
  BY <1>4, <1>5
<1>6. CASE Find(text, "]") # {} /\ IsIpv6(host)
  <2>1. /\ close \in 2 .. Len(text) /\ text[close] = "]"
        /\ suffix = << >> <=> close = Len(text)
        /\ close < Len(text) => suffix[1] = text[close + 1] /\ Tail(suffix) = From(text, close + 2)
    BY <1>1, <1>3, <1>6, Closing
  <2>2. host \in Ipv6Texts /\ HostType(host) = "ipv6"
    BY <1>6, AddressTexts DEF IsIpv6
  <2>3. Len(text) \in Nat
    BY DEF Text
  <2>4. CASE suffix = << >>
    <3>1. text = << "[" >> \o host \o << "]" >>
      BY <1>2, <2>1, <2>4, WholeInBrackets
    <3>2. text \in InBrackets(Ipv6Texts) /\ text \in {host} \cup InBrackets({host})
      BY <2>2, <3>1, Zenon DEF InBrackets
    <3>3. explicit \/ d = Destination(HostType(host), host, default_port)
      BY <1>4, <1>6, <2>2, <2>4
    <3>4. explicit => d = Threw
      BY <1>4, <1>6, <2>4
    <3> QED
      BY <3>2, <3>3, <3>4, Zenon DEF PortLeftOut, WithoutPort
  <2>5. CASE suffix # << >> /\ suffix[1] # ":"
    BY <1>4, <1>6, <2>5
  <2>6. CASE suffix # << >> /\ suffix[1] = ":"
    <3>1. close < Len(text) /\ close + 1 \in 1 .. Len(text)
      BY <2>1, <2>3, <2>6
    <3>2. text[close + 1] = ":" /\ Tail(suffix) = From(text, close + 2)
      BY <2>1, <2>6, <3>1
    <3>3. PICK i \in Find(text, ":") : i = close + 1
      BY <3>1, <3>2, FindFacts
    <3>4. i - 1 = close /\ i + 1 = close + 2
      BY <2>1, <3>3
    <3>5. SubSeq(text, 1, close) = << "[" >> \o host \o << "]" >>
      BY <1>2, <2>1, BetweenBrackets
    <3>6. SubSeq(text, 1, i - 1) = << "[" >> \o host \o << "]" >>
      BY <3>4, <3>5
    <3>7. /\ SubSeq(text, 1, i - 1) \in InBrackets(Ipv6Texts)
          /\ SubSeq(text, 1, i - 1) \in {host} \cup InBrackets({host})
      BY <2>2, <3>6, Zenon DEF InBrackets
    <3>8. d = Destination(HostType(host), host, PortOr(From(text, i + 1), 1))
      <4>1. Tail(suffix) = From(text, i + 1)
        BY <3>2, <3>4
      <4>2. d = Destination("ipv6", host, PortOr(Tail(suffix), 1))
        BY <1>4, <1>6, <2>6
      <4> QED
        BY <2>2, <4>1, <4>2
    <3> QED
      BY <3>7, <3>8, ReadAs
  <2> QED
    BY <2>4, <2>5, <2>6
<1> QED
  BY <1>5, <1>6

\* parse_authority: what it returns is what the text means.
LEMMA AuthorityIsMeant ==
    ASSUME NEW text \in Text, NEW default_port, NEW explicit \in BOOLEAN,
           NEW d, d = parse_authority(text, default_port, explicit)
    PROVE  \/ d = Threw
           \/ \E s \in Readings(text, Hosts(text), 1) : Means(d, s)
           \/ PortLeftOut(d, text, default_port, explicit)
<1>1. PICK colon : colon = LastColon(text)
  OBVIOUS
<1>2. PICK host : host = SubSeq(text, 1, colon - 1)
  OBVIOUS
<1>3. d = IF text = << >> THEN Threw
          ELSE IF text[1] = "[" THEN Bracketed(text, default_port, explicit)
          ELSE IF Find(text, ":") = {}
          THEN IF explicit THEN Threw ELSE Destination(HostType(text), text, default_port)
          ELSE IF host = << >> \/ Find(host, ":") # {} THEN Threw
          ELSE Destination(HostType(host), host, PortOr(From(text, colon + 1), 1))
  BY <1>1, <1>2, Zenon DEF parse_authority
<1>4. CASE text = << >>
  BY <1>3, <1>4
<1>5. CASE text # << >> /\ text[1] = "["
  <2>1. d = Bracketed(text, default_port, explicit)
    BY <1>3, <1>5
  <2>2. InBrackets(Ipv6Texts) \subseteq Hosts(text)
    BY DEF Hosts
  <2>3. \A s \in Readings(text, InBrackets(Ipv6Texts), 1) : s \in Readings(text, Hosts(text), 1)
    BY <2>2, Zenon DEF Readings
  <2> QED
    BY <1>5, <2>1, <2>3, BracketedMeant
<1>6. CASE text # << >> /\ text[1] # "[" /\ Find(text, ":") = {}
  <2>1. d = IF explicit THEN Threw ELSE Destination(HostType(text), text, default_port)
    BY <1>3, <1>6
  <2>2. CASE text \in Ipv4Texts \/ Len(text) <= MaxDomain
    <3>1. IsHost(text)
      BY <1>6, <2>2, FindFacts DEF IsHost
    <3> QED
      BY <2>1, <3>1 DEF PortLeftOut, WithoutPort
  <2>3. CASE ~(text \in Ipv4Texts \/ Len(text) <= MaxDomain)
    BY <1>6, <2>1, <2>3, FindFacts, DomainRefused
  <2> QED
    BY <2>2, <2>3
<1>7. CASE text # << >> /\ text[1] # "[" /\ Find(text, ":") # {}
  <2>1. colon \in Find(text, ":")
    BY <1>1, <1>7, FindFacts, GreatestUpTo DEF LastColon
  <2>2. colon \in 1 .. Len(text) /\ Len(text) \in Nat
    BY <2>1, FindFacts
  <2>3. CASE host = << >> \/ Find(host, ":") # {}
    BY <1>3, <1>7, <2>3
  <2>4. CASE host # << >> /\ Find(host, ":") = {}
    <3>1. d = Destination(HostType(host), host, PortOr(From(text, colon + 1), 1))
      BY <1>3, <1>7, <2>4
    <3>2. /\ host \in Text /\ Len(host) = colon - 1
          /\ \A k \in 1 .. (colon - 1) : host[k] = text[k]
      <4>1. colon - 1 \in Nat /\ 1 <= (colon - 1) + 1 /\ colon - 1 <= Len(text)
            /\ (colon - 1) - 1 + 1 = colon - 1
        BY <2>2
      <4>2. /\ host \in Text /\ Len(host) = (colon - 1) - 1 + 1
            /\ \A k \in 1 .. ((colon - 1) - 1 + 1) : host[k] = text[1 + k - 1]
        BY <1>2, <4>1, Piece
      <4>3. \A k \in 1 .. (colon - 1) : 1 + k - 1 = k
        BY <2>2
      <4> QED
        BY <4>1, <4>2, <4>3
    <3>3. host[1] # "["
      <4>1. Len(host) \in Nat \ {0}
        BY <2>4, <3>2, EmptySeq DEF Text
      <4>2. 1 \in 1 .. (colon - 1)
        BY <2>2, <3>2, <4>1
      <4> QED
        BY <1>7, <3>2, <4>2
    <3>4. CASE host \in Ipv4Texts \/ Len(host) <= MaxDomain
      <4>1. IsHost(host)
        BY <2>4, <3>2, <3>3, <3>4, FindFacts DEF IsHost
      <4>2. PICK s : s = [host |-> SubSeq(text, 1, colon - 1), port |-> From(text, colon + 1)]
        OBVIOUS
      <4>3. s \in Splits(text)
        BY <2>1, <4>2, Zenon DEF Splits
      <4>4. s.host = host
        BY <1>2, <4>2
      <4>5. host \in Hosts(text)
        BY <4>1, <4>3, <4>4, Zenon DEF Hosts
      <4> QED
        BY <1>2, <2>1, <3>1, <4>5, ReadAs
    <3>5. CASE ~(host \in Ipv4Texts \/ Len(host) <= MaxDomain)
      BY <2>4, <3>1, <3>2, <3>5, FindFacts, DomainRefused
    <3> QED
      BY <3>4, <3>5
  <2> QED
    BY <2>3, <2>4
<1> QED
  BY <1>4, <1>5, <1>6, <1>7

\* A text with a port is not one without.
LEMMA ReadingHasPort ==
    ASSUME NEW text \in Text, NEW hosts, NEW least, NEW s \in Readings(text, hosts, least)
    PROVE  ~WithoutPort(text)
<1>1. PICK L \in Nat : L = Len(text)
  BY DEF Text
<1>2. PICK i \in Find(text, ":") :
         s = [host |-> SubSeq(text, 1, i - 1), port |-> From(text, i + 1)]
  BY Zenon DEF Readings, Splits
<1>3. i \in 1 .. L /\ i \in Nat
  BY <1>1, FindFacts
<1>4. ~IsHost(text)
  BY <1>2, FindFacts DEF IsHost
<1>5. PICK p : p = From(text, i + 1) /\ IsNumber(p)
  <2>1. s.port = From(text, i + 1)
    BY <1>2
  <2> QED
    BY <2>1 DEF Readings
<1>6. /\ p \in Text /\ Len(p) = L - i
      /\ \A k \in 1 .. (L - i) : p[k] = text[i + k]
  <2>1. i + 1 \in Nat /\ 1 <= i + 1 /\ i + 1 <= L + 1 /\ L - (i + 1) + 1 = L - i
    BY <1>1, <1>3
  <2>2. p = SubSeq(text, i + 1, L)
    BY <1>1, <1>5 DEF From
  <2>3. /\ p \in Text /\ Len(p) = L - (i + 1) + 1
        /\ \A k \in 1 .. (L - (i + 1) + 1) : p[k] = text[(i + 1) + k - 1]
    BY <1>1, <2>1, <2>2, Piece
  <2>4. \A k \in 1 .. (L - i) : (i + 1) + k - 1 = i + k
    BY <1>1, <1>3
  <2> QED
    BY <2>1, <2>3, <2>4
<1>7. text[L] \in {"0", "1"}
  <2>1. Len(p) \in Nat \ {0}
    BY <1>5, <1>6, EmptySeq DEF IsNumber, Text
  <2>2. L - i \in 1 .. (L - i) /\ i + (L - i) = L
    BY <1>1, <1>3, <1>6, <2>1
  <2>3. p[L - i] = text[L]
    BY <1>6, <2>2
  <2>4. p[L - i] \in ToSet(p)
    BY <1>6, <2>2 DEF ToSet, Text
  <2> QED
    BY <1>5, <2>3, <2>4 DEF IsNumber, Digit
<1>8. ASSUME NEW t \in Ipv6Texts, text = << "[" >> \o t \o << "]" >>
      PROVE  FALSE
  <2>1. t \in Text
    BY AddressTexts
  <2>2. Len(text) = Len(t) + 2 /\ text[Len(t) + 2] = "]"
    BY <1>8, <2>1, Brackets
  <2>3. text[L] = "]"
    BY <1>1, <2>2
  <2> QED
    BY <1>7, <2>3
<1>9. text \notin InBrackets(Ipv6Texts)
  BY <1>8, Zenon DEF InBrackets
<1> QED
  BY <1>4, <1>9 DEF WithoutPort

\* An address and a port of the DNS inbound.
EndpointOf(host, port) ==
    IF IsIpv4(host) \/ IsIpv6(host)
    THEN Destination(HostType(host), host, PortOr(port, 0)) ELSE Threw

\* parse_endpoint: what it returns is what the text means.
LEMMA EndpointIsMeant ==
    ASSUME NEW text \in Text, NEW d, d = parse_endpoint(text)
    PROVE  d = Threw \/ \E s \in Readings(text, Listens, 0) : Means(d, s)
<1>1. PICK close : close = Min(Find(text, "]"))
  OBVIOUS
<1>2. PICK colon : colon = LastColon(text)
  OBVIOUS
<1>3. d = IF text # << >> /\ text[1] = "["
          THEN IF Find(text, "]") = {} \/ close + 1 > Len(text) THEN Threw
               ELSE IF text[close + 1] # ":" THEN Threw
               ELSE EndpointOf(SubSeq(text, 2, close - 1), From(text, close + 2))
          ELSE IF Cardinality(Find(text, ":")) # 1 THEN Threw
          ELSE EndpointOf(SubSeq(text, 1, colon - 1), From(text, colon + 1))
  BY <1>1, <1>2, Zenon DEF parse_endpoint, EndpointOf
<1>4. Len(text) \in Nat
  BY DEF Text
<1>5. CASE text # << >> /\ text[1] = "["
  <2>1. CASE Find(text, "]") = {} \/ close + 1 > Len(text)
    BY <1>3, <1>5, <2>1
  <2>2. CASE Find(text, "]") # {} /\ ~(close + 1 > Len(text)) /\ text[close + 1] # ":"
    BY <1>3, <1>5, <2>2
  <2>3. CASE Find(text, "]") # {} /\ ~(close + 1 > Len(text)) /\ text[close + 1] = ":"
    <3>1. PICK host : host = SubSeq(text, 2, close - 1)
      OBVIOUS
    <3>2. d = EndpointOf(host, From(text, close + 2))
      BY <1>3, <1>5, <2>3, <3>1
    <3>3. CASE ~(IsIpv4(host) \/ IsIpv6(host))
      BY <3>2, <3>3 DEF EndpointOf
    <3>4. CASE IsIpv4(host) \/ IsIpv6(host)
      <4>1. close \in 2 .. Len(text) /\ text[close] = "]"
        BY <1>1, <1>5, <2>3, Closing
      <4>2. close + 1 \in 1 .. Len(text)
        BY <1>4, <2>3, <4>1
      <4>3. PICK i \in Find(text, ":") : i = close + 1
        BY <2>3, <4>2, FindFacts
      <4>4. i - 1 = close /\ i + 1 = close + 2
        BY <4>1, <4>3
      <4>5. SubSeq(text, 1, close) = << "[" >> \o host \o << "]" >>
        BY <1>5, <3>1, <4>1, BetweenBrackets
      <4>6. SubSeq(text, 1, i - 1) = << "[" >> \o host \o << "]" >>
        BY <4>4, <4>5
      <4>7. host \in Ipv4Texts \cup Ipv6Texts
        BY <3>4 DEF IsIpv4, IsIpv6
      <4>8. /\ SubSeq(text, 1, i - 1) \in Listens
            /\ SubSeq(text, 1, i - 1) \in {host} \cup InBrackets({host})
        BY <4>6, <4>7, Zenon DEF InBrackets, Listens
      <4>9. d = Destination(HostType(host), host, PortOr(From(text, i + 1), 0))
        BY <3>2, <3>4, <4>4 DEF EndpointOf
      <4> QED
        BY <4>8, <4>9, ReadAs
    <3> QED
      BY <3>3, <3>4
  <2> QED
    BY <2>1, <2>2, <2>3
<1>6. CASE ~(text # << >> /\ text[1] = "[")
  <2>1. CASE Cardinality(Find(text, ":")) # 1
    BY <1>3, <1>6, <2>1
  <2>2. CASE Cardinality(Find(text, ":")) = 1
    <3>1. PICK host : host = SubSeq(text, 1, colon - 1)
      OBVIOUS
    <3>2. d = EndpointOf(host, From(text, colon + 1))
      BY <1>3, <1>6, <2>2, <3>1
    <3>3. PICK i : Find(text, ":") = {i}
      <4>1. IsFiniteSet(1 .. Len(text))
        BY <1>4, FS_Interval
      <4>2. IsFiniteSet(Find(text, ":"))
        BY <4>1, FindFacts, FS_Subset
      <4> QED
        BY <2>2, <4>2, FS_Singleton
    <3>4. colon = i /\ colon \in Find(text, ":") /\ colon \in 1 .. Len(text)
      <4>1. colon \in Find(text, ":")
        BY <1>2, <1>4, <3>3, FindFacts, GreatestUpTo DEF LastColon
      <4> QED
        BY <3>3, <4>1, FindFacts
    <3>5. /\ host \in Text /\ Len(host) = colon - 1
          /\ \A k \in 1 .. (colon - 1) : host[k] = text[k]
      <4>1. colon - 1 \in Nat /\ 1 <= (colon - 1) + 1 /\ colon - 1 <= Len(text)
            /\ (colon - 1) - 1 + 1 = colon - 1
        BY <1>4, <3>4
      <4>2. /\ host \in Text /\ Len(host) = (colon - 1) - 1 + 1
            /\ \A k \in 1 .. ((colon - 1) - 1 + 1) : host[k] = text[1 + k - 1]
        BY <3>1, <4>1, Piece
      <4>3. \A k \in 1 .. (colon - 1) : 1 + k - 1 = k
        BY <3>4
      <4> QED
        BY <4>1, <4>2, <4>3
    <3>6. host \notin Ipv6Texts
      <4>1. SUFFICES ASSUME ":" \in ToSet(host) PROVE FALSE
        BY HttpTargetAssumption
      <4>2. PICK k \in 1 .. (colon - 1) : host[k] = ":"
        BY <3>5, <4>1 DEF ToSet, Text
      <4>3. k \in 1 .. Len(text) /\ k # colon /\ text[k] = ":"
        BY <1>4, <3>4, <3>5, <4>2
      <4> QED
        BY <3>3, <3>4, <4>3, FindFacts
    <3>7. CASE ~IsIpv4(host)
      BY <3>2, <3>6, <3>7 DEF EndpointOf, IsIpv6
    <3>8. CASE IsIpv4(host)
      <4>1. host \in Listens /\ host \in {host} \cup InBrackets({host})
        BY <3>8 DEF IsIpv4, Listens
      <4>2. d = Destination(HostType(host), host, PortOr(From(text, colon + 1), 0))
        BY <3>2, <3>8 DEF EndpointOf
      <4> QED
        BY <3>1, <3>4, <4>1, <4>2, ReadAs
    <3> QED
      BY <3>7, <3>8
  <2> QED
    BY <2>1, <2>2
<1> QED
  BY <1>5, <1>6

\* A destination, or the endpoint of the DNS inbound, is what its text means
\* (AuthorityMeant), for any text and whatever texts the library takes for
\* addresses, as long as those of IPv6 have a colon.
THEOREM DestinationIsMeant == CallSpec => []AuthorityMeant
<1>1. Evaluated => AuthorityMeant
  <2> SUFFICES ASSUME Evaluated, Done("target")
               PROVE  AuthorityMeant
    BY DEF AuthorityMeant
  <2>1. call.fn = "target" /\ call \in TargetCalls /\ got = << Result >>
    BY DEF Done, Evaluated
  <2>2. PICK text \in Text : text = call.text
    BY <2>1, CallAssumption, StringsAreText
  <2>3. PICK before \in Text : before = Authority(text)
    <3>1. CASE Find(text, "/") = {}
      BY <3>1 DEF Authority
    <3>2. CASE Find(text, "/") # {}
      <4>1. Find(text, "/") \in SUBSET Nat /\ Len(text) \in Nat
        BY FindFacts
      <4>2. PICK slash \in 1 .. Len(text) : slash = Min(Find(text, "/"))
        BY <3>2, <4>1, LeastNat, FindFacts
      <4>3. PICK m \in Nat : m = slash - 1 /\ 1 <= m + 1 /\ m <= Len(text)
        BY <4>1
      <4>4. SubSeq(text, 1, m) \in Text
        BY <4>3, Piece
      <4> QED
        BY <3>2, <4>2, <4>3, <4>4 DEF Authority
    <3> QED
      BY <3>1, <3>2
  <2>4. /\ Answer.connect = parse_connect_target(text)
        /\ Answer.absolute = parse_http_absolute_target(text)
        /\ Answer.listen = parse_endpoint(text)
    BY <2>1, <2>2 DEF Answer, Result
  <2>5. PICK connect : connect = Answer.connect
    OBVIOUS
  <2>6. PICK absolute : absolute = Answer.absolute
    OBVIOUS
  <2>7. PICK listen : listen = Answer.listen
    OBVIOUS
  <2>8. connect = Threw \/ \E s \in Readings(text, Hosts(text), 1) : Means(connect, s)
    <3>1. connect = parse_authority(text, 0, TRUE)
      BY <2>4, <2>5 DEF parse_connect_target
    <3>2. ~PortLeftOut(connect, text, 0, TRUE)
      BY DEF PortLeftOut
    <3> QED
      BY <3>1, <3>2, AuthorityIsMeant
  <2>9. listen = Threw \/ \E s \in Readings(text, Listens, 0) : Means(listen, s)
    BY <2>4, <2>7, EndpointIsMeant
  <2>10. absolute = parse_authority(before, 80, FALSE)
    BY <2>3, <2>4, <2>6, Zenon DEF parse_http_absolute_target, Authority
  <2>11. \/ absolute = Threw
         \/ \E s \in Readings(before, Hosts(before), 1) : Means(absolute, s)
         \/ PortLeftOut(absolute, before, 80, FALSE)
    BY <2>10, AuthorityIsMeant
  <2>12. ASSUME WithoutPort(before)
         PROVE  absolute = Threw \/ (absolute.port = 80 /\ MeansHost(absolute, before))
    <3>1. Readings(before, Hosts(before), 1) = {}
      BY <2>12, ReadingHasPort
    <3>2. CASE PortLeftOut(absolute, before, 80, FALSE)
      <4>1. PICK host : /\ absolute = Destination(HostType(host), host, 80)
                        /\ before \in {host} \cup InBrackets({host})
        BY <3>2 DEF PortLeftOut
      <4>2. \/ absolute = Threw
            \/ absolute = [type |-> HostType(host), host |-> host, port |-> 80]
        BY <4>1 DEF Destination
      <4>3. \/ absolute = Threw
            \/ absolute.type = HostType(host) /\ absolute.host = host /\ absolute.port = 80
        BY <4>2
      <4> QED
        BY <4>1, <4>3, Zenon DEF MeansHost
    <3> QED
      BY <2>11, <3>1, <3>2
  <2>13. ASSUME ~WithoutPort(before)
         PROVE  absolute = Threw \/ \E s \in Readings(before, Hosts(before), 1) : Means(absolute, s)
    BY <2>11, <2>13 DEF PortLeftOut
  <2> QED
    BY <2>2, <2>3, <2>5, <2>6, <2>7, <2>8, <2>9, <2>12, <2>13, Zenon DEF AuthorityMeant
<1> QED
  BY <1>1, EvaluatedInvariant, PTL
=============================================================================
