------------------------------ MODULE DnsProofs -----------------------------
(***************************************************************************)
(* Proofs about DNS: read_name ends on every packet, for every limit on    *)
(* the number of pointers; and the DNS inbound mixes up no requests and    *)
(* drops none without a reason, for any number of clients, requests and    *)
(* ports.                                                                  *)
(***************************************************************************)
EXTENDS DnsMessage, DnsInbound, TLAPS

-----------------------------------------------------------------------------
(***************************************************************************)
(* The parser.                                                             *)
(***************************************************************************)

\* What the offsets are made of.
Typed ==
    /\ packet \in Packets
    /\ pos \in Nat /\ resume \in Nat /\ steps \in Nat
    /\ depth \in 0 .. MaxDepth
    /\ reading = "cname" /\ at \in {"name", "after"} => record.value[1] \in Nat

\* Within one level an iteration costs at least a byte, and what earlier levels
\* cost is bounded by one pass over the packet each.
Spent ==
    /\ at = "name" => /\ steps <= depth * Size + pos
                      /\ steps <= depth * Size + Size
    /\ steps <= (MaxDepth + 1) * Size

NameInv == Typed /\ Spent

\* One more level is one more pass, and no level is above the last.
LEMMA Levels ==
    ASSUME NEW n \in Nat, NEW d \in Nat, NEW m \in Nat, d <= m
    PROVE  /\ d * n \in Nat
           /\ (d + 1) * n = d * n + n
           /\ d * n + n <= (m + 1) * n
<1>1. d * n \in Nat /\ (m - d) * n \in Nat
  OBVIOUS
<1>2. (d + 1) * n = d * n + n
  OBVIOUS
<1>3. (m + 1) * n = d * n + n + (m - d) * n
  OBVIOUS
<1> QED
  BY <1>1, <1>2, <1>3

\* A byte inside the packet is a byte, and two of them are a number.
LEMMA Bytes ==
    ASSUME Typed
    PROVE  /\ Size \in Nat
           /\ \A i \in Nat : i < Size => Byte(i) \in 0 .. 255
           /\ \A i \in Nat : i + 1 < Size => Be16(i) \in Nat
<1>1. packet \in Seq(0 .. 255) /\ Size \in Nat /\ DOMAIN packet = 1 .. Size
  BY DEF Typed, Packets, Size
<1>2. ASSUME NEW i \in Nat, i < Size
      PROVE  Byte(i) \in 0 .. 255
  <2>1. i + 1 \in 1 .. Len(packet)
    BY <1>1, <1>2 DEF Size
  <2>2. packet[i + 1] \in 0 .. 255
    BY <1>1, <2>1
  <2> QED
    BY <2>2 DEF Byte
<1>3. ASSUME NEW i \in Nat, i + 1 < Size
      PROVE  Be16(i) \in Nat
  <2>1. Byte(i) \in 0 .. 255
    BY <1>1, <1>2, <1>3
  <2>2. Byte(i + 1) \in 0 .. 255
    BY <1>1, <1>2, <1>3
  <2>3. \A x, y \in 0 .. 255 : x * 256 + y \in Nat
    OBVIOUS
  <2> QED
    BY <2>1, <2>2, <2>3 DEF Be16
<1> QED
  BY <1>1, <1>2, <1>3

\* Either parser starts at the first byte, with no iteration spent.
LEMMA InitNameInv == MessageInit => NameInv
<1> SUFFICES ASSUME NEW bytes \in Packets, NEW f, Parse(bytes, f)
             PROVE  NameInv
  BY DEF MessageInit
<1>1. Typed
  BY DnsMessageAssumption DEF Parse, Typed
<1>2. (MaxDepth + 1) * Size \in Nat
  BY <1>1, Bytes, DnsMessageAssumption
<1> QED
  BY <1>1, <1>2 DEF NameInv, Spent, Parse

\* A name is begun, or the function returns: in both cases nothing has been
\* spent on it that was not paid before.
LEMMA ContinueNameInv ==
    ASSUME NameInv, NEW i \in Nat, NEW l, Continue(i, l), packet' = packet
    PROVE  NameInv'
<1>1. \/ ReadName(i, "question")
      \/ ReadName(i, "record")
      \/ Return(i)
  BY DEF Continue
<1>2. Size' = Size /\ Size \in Nat
  BY Bytes DEF NameInv, Size
<1>3. 0 * Size = 0 /\ (MaxDepth + 1) * Size \in Nat
  BY <1>2, DnsMessageAssumption
<1>4. CASE ReadName(i, "question") \/ ReadName(i, "record")
  <2>1. at' = "name" /\ pos' = i /\ depth' = 0 /\ resume' = 0 /\ steps' = 0
        /\ reading' # "cname"
    BY <1>4 DEF ReadName
  <2>2. Typed'
    BY <2>1, DnsMessageAssumption DEF NameInv, Typed
  <2> QED
    BY <1>2, <1>3, <2>1, <2>2 DEF NameInv, Spent
<1>5. CASE Return(i)
  <2>1. Typed'
    BY <1>5 DEF NameInv, Typed, Return
  <2> QED
    BY <1>2, <1>5, <2>1 DEF NameInv, Spent, Return
<1> QED
  BY <1>1, <1>4, <1>5

\* An error ends the parser and spends nothing.
LEMMA ThrowNameInv ==
    ASSUME NameInv, Throw, packet' = packet
    PROVE  NameInv'
  BY DEF NameInv, Typed, Spent, Throw, Size

\* Reading the header leads to the first name, or to the end.
LEMMA HeaderNameInv ==
    ASSUME NameInv, ReadHeader
    PROVE  NameInv'
<1>1. packet' = packet /\ (Throw \/ \E l : Continue(Header, l))
  BY DEF ReadHeader
<1> QED
  BY <1>1, ThrowNameInv, ContinueNameInv DEF Header

\* One iteration: the three outcomes of a byte that is in place.
LEMMA StepNameInv ==
    ASSUME NameInv, NameStep
    PROVE  NameInv'
<1>1. CASE BadLabel
  BY <1>1, ThrowNameInv DEF NameStep
<1>2. CASE ~BadLabel
  <2>1. /\ at = "name" /\ packet' = packet /\ Size' = Size
        /\ steps' = steps + 1 /\ reading' = reading /\ record' = record
        /\ Finished \/ Follow \/ TakeLabel
    BY <1>2 DEF NameStep, Size
  <2>2. Size \in Nat /\ pos \in Nat /\ pos < Size /\ Byte(pos) \in 0 .. 255
    BY <1>2, Bytes DEF NameInv, Typed, BadLabel
  <2>3. /\ depth \in Nat /\ MaxDepth \in Nat /\ depth <= MaxDepth
        /\ steps \in Nat /\ resume \in Nat
        /\ steps <= depth * Size + pos
    BY <2>1, DnsMessageAssumption DEF NameInv, Typed, Spent
  <2>4. /\ depth * Size \in Nat
        /\ (depth + 1) * Size = depth * Size + Size
        /\ depth * Size + Size <= (MaxDepth + 1) * Size
        /\ (MaxDepth + 1) * Size \in Nat
    BY <2>2, <2>3, Levels
  <2>5. /\ steps + 1 <= depth * Size + pos + 1
        /\ steps + 1 <= depth * Size + Size
        /\ steps + 1 <= (MaxDepth + 1) * Size
    BY <2>2, <2>3, <2>4
  <2>6. CASE Finished
    <3>1. Typed'
      BY <2>1, <2>2, <2>3, <2>6 DEF NameInv, Typed, Finished
    <3> QED
      BY <2>1, <2>5, <2>6, <3>1 DEF NameInv, Spent, Finished
  <2>7. CASE TakeLabel
    <3>1. depth' = depth /\ resume' = resume /\ pos' = pos + 1 + Byte(pos)
      BY <2>7 DEF TakeLabel
    <3>2. Typed'
      BY <2>1, <2>2, <2>3, <3>1 DEF NameInv, Typed
    <3>3. steps' <= depth' * Size' + pos'
      BY <2>1, <2>2, <2>3, <2>4, <2>5, <3>1
    <3>4. steps' <= depth' * Size' + Size' /\ steps' <= (MaxDepth + 1) * Size'
      BY <2>1, <2>5, <3>1
    <3> QED
      BY <3>2, <3>3, <3>4 DEF NameInv, Spent
  <2>8. CASE Follow /\ Byte(pos) >= 192
    <3>1. depth < MaxDepth /\ pos + 1 < Size
      BY <1>2, <2>2, <2>3, <2>8 DEF BadLabel, Holds
    <3>2. Byte(pos + 1) \in 0 .. 255
      BY <2>2, <3>1, Bytes DEF NameInv
    <3>3. \A x, y \in 0 .. 255 : (x % 64) * 256 + y \in Nat
      <4>1. \A x \in 0 .. 255 : x % 64 \in Nat
        OBVIOUS
      <4>2. \A u \in Nat, y \in 0 .. 255 : u * 256 + y \in Nat
        OBVIOUS
      <4> QED
        BY <4>1, <4>2
    <3>4. pos' \in Nat /\ depth' = depth + 1 /\ resume' \in Nat
      <4>1. pos' = (Byte(pos) % 64) * 256 + Byte(pos + 1) /\ depth' = depth + 1
        BY <2>8 DEF Follow
      <4>2. pos' \in Nat
        BY <2>2, <3>2, <3>3, <4>1
      <4>3. resume' = IF depth = 0 THEN pos + 2 ELSE resume
        BY <2>8 DEF Follow
      <4> QED
        BY <2>2, <2>3, <4>1, <4>2, <4>3
    <3>5. Typed'
      BY <2>1, <2>3, <3>1, <3>4 DEF NameInv, Typed
    <3>6. steps' <= depth' * Size'
      BY <2>1, <2>4, <2>5, <3>4
    <3>7. depth' * Size' \in Nat /\ steps' \in Nat
      BY <2>1, <2>2, <2>3, <2>4, <3>4
    <3>8. steps' <= depth' * Size' + pos' /\ steps' <= depth' * Size' + Size'
      BY <2>1, <2>2, <3>4, <3>6, <3>7
    <3> QED
      BY <2>1, <2>5, <3>5, <3>8 DEF NameInv, Spent
  <2> QED
    BY <1>2, <2>2, <2>6, <2>7, <2>8 DEF NameStep
<1> QED
  BY <1>1, <1>2

\* Behind a question comes the next one, a record, or the end.
LEMMA QuestionNameInv ==
    ASSUME NameInv, SkipQuestion \/ ReturnQuestion
    PROVE  NameInv'
<1>1. CASE Throw
  BY <1>1, ThrowNameInv DEF SkipQuestion, ReturnQuestion
<1>2. CASE SkipQuestion /\ ~Throw
  <2>1. packet' = packet /\ \E l : Continue(pos + 4, l)
    BY <1>2 DEF SkipQuestion
  <2>2. pos + 4 \in Nat
    BY DEF NameInv, Typed
  <2> QED
    BY <2>1, <2>2, ContinueNameInv
<1>3. CASE ReturnQuestion /\ ~Throw
  BY <1>3 DEF ReturnQuestion, NameInv, Typed, Spent, Size
<1> QED
  BY <1>1, <1>2, <1>3

\* Behind the name of a record come its data, or the name of a CNAME.
LEMMA RecordNameInv ==
    ASSUME NameInv, AfterRecord
    PROVE  NameInv'
<1>1. CASE Throw
  BY <1>1, ThrowNameInv DEF AfterRecord
<1>2. CASE ~Throw
  <2> DEFINE n == Be16(pos + 8)
             data == pos + 10
  <2>1. packet' = packet /\ Holds(pos, 10)
    BY <1>2 DEF AfterRecord
  <2>2. pos \in Nat /\ Size \in Nat /\ n \in Nat /\ data \in Nat /\ data + n \in Nat
    <3>1. pos \in Nat /\ Size \in Nat /\ pos + 8 \in Nat /\ (pos + 8) + 1 < Size
      BY <2>1, Bytes DEF NameInv, Typed, Holds
    <3> QED
      BY <3>1, Bytes DEF NameInv
  <2>3. \/ \E l : Continue(data + n, l)
        \/ ReadName(data, "cname") /\ record' = [type |-> CNAME, value |-> << data + n >>]
    BY <1>2 DEF AfterRecord, NextRecord
  <2>4. CASE \E l : Continue(data + n, l)
    BY <2>1, <2>2, <2>4, ContinueNameInv
  <2>5. CASE ReadName(data, "cname") /\ record' = [type |-> CNAME, value |-> << data + n >>]
    <3>1. record'.value[1] = data + n
      BY <2>5
    <3>2. Typed'
      BY <2>1, <2>2, <2>5, <3>1, DnsMessageAssumption DEF NameInv, Typed, ReadName
    <3>3. 0 * Size = 0 /\ (MaxDepth + 1) * Size \in Nat
      BY <2>2, DnsMessageAssumption
    <3> QED
      BY <2>1, <2>2, <2>5, <3>2, <3>3 DEF NameInv, Spent, ReadName, Size
  <2> QED
    BY <2>3, <2>4, <2>5
<1> QED
  BY <1>1, <1>2

\* Behind the name of a CNAME the parser goes on at the offset it saved.
LEMMA CnameNameInv ==
    ASSUME NameInv, AfterCname
    PROVE  NameInv'
<1>1. packet' = packet /\ reading = "cname" /\ at = "after" /\ \E l : Continue(record.value[1], l)
  BY DEF AfterCname, NextRecord
<1>2. record.value[1] \in Nat
  BY <1>1 DEF NameInv, Typed
<1> QED
  BY <1>1, <1>2, ContinueNameInv

\* Every step of the parser keeps the invariant.
LEMMA NameInvNext ==
    ASSUME NameInv, [ParseStep]_message
    PROVE  NameInv'
<1>1. CASE UNCHANGED message
  BY <1>1 DEF message, NameInv, Typed, Spent, Size
<1> QED
  BY <1>1, HeaderNameInv, StepNameInv, QuestionNameInv, RecordNameInv, CnameNameInv
     DEF ParseStep

\* Whatever the packet and the limit on pointers, the loops of read_name run at
\* most once per byte and nesting level: no chain or circle of compression
\* pointers keeps it running.
THEOREM DnsReadNameEnds == MessageSpec => []ReadNameEnds
<1>1. MessageInit => NameInv
  BY InitNameInv
<1>2. NameInv /\ [ParseStep]_message => NameInv'
  BY NameInvNext
<1>3. NameInv => ReadNameEnds
  BY DEF NameInv, Spent, ReadNameEnds
<1> QED
  BY <1>1, <1>2, <1>3, PTL DEF MessageSpec

-----------------------------------------------------------------------------
(***************************************************************************)
(* The offset of the parser's callers, apart from the pointers, only moves *)
(* on: Floor is where the records returned so far end at the earliest, and *)
(* whatever is read next, or is gone back to after a pointer or after the  *)
(* name in a CNAME's data, lies at or behind it.                           *)
(***************************************************************************)
Floor == Header + 11 * Len(records)

Listed(s) == \E S : s \in Seq(S)

\* An offset that the caller of read_name may go on from.
Onward(i) == i <= Size /\ (reading # "cname" => Floor + 1 <= i)

Advances ==
    /\ Listed(records)
    /\ at = "header" => records = << >>
    /\ at \in {"name", "after", "done"} \/ records # << >> => Floor <= Size
    /\ at = "name" /\ depth = 0 /\ reading # "cname" => Floor <= pos
    /\ at = "name" /\ depth > 0 => Onward(resume)
    /\ at = "after" => Onward(pos)
    /\ at \in {"name", "after"} /\ reading = "cname" =>
          Floor + 11 <= record.value[1] /\ record.value[1] <= Size
    /\ at = "done" => pos <= Size

\* A list is as long as a natural number says, and takes one more.
LEMMA ListFacts ==
    ASSUME NEW s, Listed(s)
    PROVE  Len(s) \in Nat /\ \A x : Listed(Append(s, x)) /\ Len(Append(s, x)) = Len(s) + 1
<1>1. PICK S : s \in Seq(S)
  BY DEF Listed
<1>2. ASSUME NEW x
      PROVE  Append(s, x) \in Seq(S \cup {x}) /\ Len(Append(s, x)) = Len(s) + 1
  <2>1. s \in Seq(S \cup {x}) /\ x \in S \cup {x}
    BY <1>1
  <2> QED
    BY <2>1
<1>3. Len(s) \in Nat
  BY <1>1
<1>4. ASSUME NEW x PROVE Listed(Append(s, x))
  BY <1>2 DEF Listed
<1> QED
  BY <1>2, <1>3, <1>4

\* Where the records end is an offset.
LEMMA FloorNat ==
    ASSUME Advances
    PROVE  Floor \in Nat /\ Header \in Nat
<1>1. Len(records) \in Nat
  BY ListFacts DEF Advances
<1> QED
  BY <1>1 DEF Floor, Header

\* Nothing has been returned when a parse begins.
LEMMA InitAdvances == MessageInit => Advances
<1> SUFFICES ASSUME NEW bytes \in Packets, NEW f, Parse(bytes, f)
             PROVE  Advances
  BY DEF MessageInit
<1>1. << >> \in Seq({})
  OBVIOUS
<1>2. Listed(records)
  BY <1>1 DEF Parse, Listed
<1> QED
  BY <1>2 DEF Parse, Advances

\* The parser goes on at offset i, with as many records as fit in front of it.
LEMMA ContinueAdvances ==
    ASSUME NameInv, NEW i \in Nat, NEW l, Continue(i, l), packet' = packet,
           Listed(records'), Floor' \in Nat, Floor' <= i, i <= Size
    PROVE  Advances'
<1>1. Size' = Size /\ Size \in Nat
  BY Bytes DEF NameInv, Size
<1>2. Floor' <= Size'
  BY <1>1
<1>3. \/ at' = "name" /\ pos' = i /\ depth' = 0 /\ reading' # "cname"
      \/ at' = "done" /\ pos' = i
  BY DEF Continue, ReadName, Return
<1> QED
  BY <1>1, <1>2, <1>3 DEF Advances

\* An exception leaves the records as they are.
LEMMA ThrowAdvances ==
    ASSUME Advances, Throw, packet' = packet
    PROVE  Advances'
<1>1. Size' = Size /\ Floor' = Floor /\ records' = records /\ at' = "threw"
  BY DEF Throw, Size, Floor
<1> QED
  BY <1>1 DEF Advances

LEMMA HeaderAdvances ==
    ASSUME NameInv, Advances, ReadHeader
    PROVE  Advances'
<1>1. CASE Throw
  BY <1>1, ThrowAdvances DEF ReadHeader
<1>2. CASE ~Throw
  <2>1. /\ packet' = packet /\ records' = records /\ records = << >>
        /\ \E l : Continue(Header, l)
        /\ ~(Size < Header)
    BY <1>2 DEF ReadHeader, Advances
  <2>2. Len(<< >>) = 0 /\ 12 + 11 * 0 = 12
    OBVIOUS
  <2>3. Floor' = 12 /\ Header = 12 /\ Size \in Nat /\ 12 <= Size
    BY <2>1, <2>2, Bytes DEF Floor, Header, NameInv
  <2>4. Listed(records')
    BY <2>1 DEF Advances
  <2> QED
    BY <2>1, <2>3, <2>4, ContinueAdvances
<1> QED
  BY <1>1, <1>2

\* Inside a name: a label moves on, a pointer leaves its caller behind itself.
LEMMA NameAdvances ==
    ASSUME NameInv, Advances, NameStep
    PROVE  Advances'
<1>1. CASE Throw
  BY <1>1, ThrowAdvances DEF NameStep
<1>2. CASE ~Throw
  <2>1. /\ at = "name" /\ ~BadLabel
        /\ Finished \/ (Follow /\ Byte(pos) >= 192) \/ TakeLabel
        /\ UNCHANGED << packet, reading, record, records >>
    BY <1>2 DEF NameStep
  <2>2. /\ Size' = Size /\ Floor' = Floor /\ Size \in Nat /\ Floor \in Nat
        /\ pos \in Nat /\ resume \in Nat /\ depth \in Nat /\ pos < Size
        /\ Byte(pos) \in 0 .. 255
    <3>1. Size' = Size /\ Floor' = Floor
      BY <2>1 DEF Size, Floor
    <3>2. pos \in Nat /\ resume \in Nat /\ depth \in Nat
      BY DEF NameInv, Typed
    <3>3. Size \in Nat /\ Floor \in Nat /\ (pos < Size => Byte(pos) \in 0 .. 255)
      BY <3>2, FloorNat, Bytes DEF NameInv
    <3>4. pos < Size
      BY <2>1, <3>2, <3>3 DEF BadLabel
    <3> QED
      BY <3>1, <3>2, <3>3, <3>4
  <2>3. /\ Listed(records') /\ Floor <= Size
        /\ depth = 0 /\ reading # "cname" => Floor <= pos
        /\ depth > 0 => Onward(resume)
        /\ reading = "cname" => Floor + 11 <= record.value[1] /\ record.value[1] <= Size
    BY <2>1 DEF Advances
  <2>4. CASE Finished
    <3>1. at' = "after" /\ pos' = IF depth = 0 THEN pos + 1 ELSE resume
      BY <2>4 DEF Finished
    <3>2. Onward(pos)'
      <4>1. CASE depth = 0
        BY <2>1, <2>2, <2>3, <3>1, <4>1 DEF Onward
      <4>2. CASE depth > 0
        BY <2>1, <2>2, <2>3, <3>1, <4>2 DEF Onward
      <4> QED
        BY <2>2, <4>1, <4>2
    <3> QED
      BY <2>1, <2>2, <2>3, <3>1, <3>2 DEF Advances
  <2>5. CASE Follow /\ Byte(pos) >= 192
    <3>1. /\ at' = "name" /\ depth' = depth + 1
          /\ resume' = IF depth = 0 THEN pos + 2 ELSE resume
      BY <2>1, <2>5 DEF Follow
    <3>2. pos + 2 <= Size
      BY <2>1, <2>2, <2>5 DEF BadLabel, Holds
    <3>3. Onward(resume)'
      <4>1. CASE depth = 0
        BY <2>1, <2>2, <2>3, <3>1, <3>2, <4>1 DEF Onward
      <4>2. CASE depth > 0
        BY <2>1, <2>2, <2>3, <3>1, <4>2 DEF Onward
      <4> QED
        BY <2>2, <4>1, <4>2
    <3>4. depth' > 0
      BY <2>2, <3>1
    <3> QED
      BY <2>1, <2>2, <2>3, <3>1, <3>3, <3>4 DEF Advances
  <2>6. CASE TakeLabel
    <3>1. /\ at' = "name" /\ depth' = depth /\ resume' = resume
          /\ pos' = pos + 1 + Byte(pos)
      BY <2>1, <2>6 DEF TakeLabel
    <3>2. Floor <= pos => Floor <= pos'
      BY <2>2, <3>1
    <3>3. Onward(resume) => Onward(resume)'
      BY <2>1, <2>2, <3>1 DEF Onward
    <3> QED
      BY <2>1, <2>2, <2>3, <3>1, <3>2, <3>3 DEF Advances
  <2> QED
    BY <2>1, <2>4, <2>5, <2>6
<1> QED
  BY <1>1, <1>2

LEMMA QuestionAdvances ==
    ASSUME NameInv, Advances, SkipQuestion \/ ReturnQuestion
    PROVE  Advances'
<1>1. CASE Throw
  BY <1>1, ThrowAdvances DEF SkipQuestion, ReturnQuestion
<1>2. /\ at = "after" /\ reading = "question" /\ Onward(pos) /\ Listed(records)
      /\ Floor <= Size
  BY DEF SkipQuestion, ReturnQuestion, Advances
<1>3. Size \in Nat /\ Floor \in Nat /\ pos \in Nat /\ Floor + 1 <= pos /\ pos <= Size
  BY <1>2, FloorNat, Bytes DEF Onward, NameInv, Typed
<1>4. CASE SkipQuestion /\ ~Throw
  <2>1. /\ packet' = packet /\ records' = records /\ Holds(pos, 4)
        /\ \E l : Continue(pos + 4, l)
    BY <1>4 DEF SkipQuestion
  <2>2. Floor' = Floor /\ pos + 4 \in Nat /\ Floor <= pos + 4 /\ pos + 4 <= Size
    BY <1>3, <2>1 DEF Floor, Holds
  <2> QED
    BY <1>2, <1>3, <2>1, <2>2, ContinueAdvances
<1>5. CASE ReturnQuestion /\ ~Throw
  <2>1. at' = "done" /\ UNCHANGED << packet, pos, records >>
    BY <1>5 DEF ReturnQuestion
  <2>2. Size' = Size /\ Floor' = Floor
    BY <2>1 DEF Size, Floor
  <2> QED
    BY <1>2, <1>3, <2>1, <2>2 DEF Advances
<1> QED
  BY <1>1, <1>4, <1>5

\* A record takes at least a byte for its owner and ten for its fields.
LEMMA RecordAdvances ==
    ASSUME NameInv, Advances, AfterRecord
    PROVE  Advances'
<1>1. CASE Throw
  BY <1>1, ThrowAdvances DEF AfterRecord
<1>2. CASE ~Throw
  <2> DEFINE n == Be16(pos + 8)
             data == pos + 10
  <2>1. /\ packet' = packet /\ Holds(pos, 10) /\ Holds(data, n)
        /\ at = "after" /\ reading = "record"
    BY <1>2 DEF AfterRecord
  <2>2. pos \in Nat /\ Size \in Nat /\ n \in Nat
    <3>1. pos \in Nat /\ Size \in Nat /\ pos + 8 \in Nat /\ (pos + 8) + 1 < Size
      BY <2>1, Bytes DEF NameInv, Typed, Holds
    <3> QED
      BY <3>1, Bytes DEF NameInv
  <2>3. Floor \in Nat /\ Floor + 1 <= pos /\ Listed(records) /\ Floor <= Size
    BY <2>1, FloorNat DEF Advances, Onward
  <2>4. PICK e \in Nat : e = data + n
    BY <2>2
  <2>5. Floor + 11 <= e /\ e <= Size
    BY <2>1, <2>2, <2>3, <2>4 DEF Holds
  <2>6. \/ \E l, r : Continue(e, l) /\ records' = Append(records, r)
        \/ records' = records /\ \E l : Continue(e, l)
        \/ /\ ReadName(data, "cname") /\ records' = records
           /\ record' = [type |-> CNAME, value |-> << e >>]
    BY <1>2, <2>4 DEF AfterRecord, NextRecord
  <2>7. CASE \E l, r : Continue(e, l) /\ records' = Append(records, r)
    <3>1. Listed(records') /\ Len(records') = Len(records) + 1 /\ Len(records) \in Nat
      BY <2>3, <2>7, ListFacts
    <3>2. Floor' = Floor + 11
      BY <3>1 DEF Floor, Header
    <3>3. Floor' \in Nat /\ Floor' <= e
      BY <2>3, <2>5, <3>2
    <3> QED
      BY <2>1, <2>4, <2>5, <2>7, <3>1, <3>3, ContinueAdvances
  <2>8. CASE records' = records /\ \E l : Continue(e, l)
    <3>1. Floor' = Floor /\ Floor <= e
      BY <2>3, <2>4, <2>5, <2>8 DEF Floor
    <3> QED
      BY <2>1, <2>3, <2>4, <2>5, <2>8, <3>1, ContinueAdvances
  <2>9. CASE /\ ReadName(data, "cname") /\ records' = records
             /\ record' = [type |-> CNAME, value |-> << e >>]
    <3>1. record'.value[1] = e /\ at' = "name" /\ reading' = "cname" /\ depth' = 0
      BY <2>9 DEF ReadName
    <3>2. Floor' = Floor /\ Size' = Size
      BY <2>1, <2>9 DEF Floor, Size
    <3> QED
      BY <2>3, <2>5, <2>9, <3>1, <3>2 DEF Advances
  <2> QED
    BY <2>6, <2>7, <2>8, <2>9
<1> QED
  BY <1>1, <1>2

LEMMA CnameAdvances ==
    ASSUME NameInv, Advances, AfterCname
    PROVE  Advances'
<1>1. /\ packet' = packet /\ reading = "cname" /\ at = "after"
      /\ \E l, r : Continue(record.value[1], l) /\ records' = Append(records, r)
  BY DEF AfterCname, NextRecord
<1>2. PICK e \in Nat : e = record.value[1]
  BY <1>1 DEF NameInv, Typed
<1>3. Floor \in Nat /\ Floor + 11 <= e /\ e <= Size /\ Listed(records)
  BY <1>1, <1>2, FloorNat DEF Advances
<1>4. Listed(records') /\ Len(records') = Len(records) + 1 /\ Len(records) \in Nat
  BY <1>1, <1>3, ListFacts
<1>5. Floor' = Floor + 11
  BY <1>4 DEF Floor, Header
<1>6. Floor' \in Nat /\ Floor' <= e
  BY <1>2, <1>3, <1>5
<1> QED
  BY <1>1, <1>2, <1>3, <1>4, <1>6, ContinueAdvances

\* Whatever the packet and the counts in its header, parse_response returns no
\* more records than the packet holds, and its offset stays in the packet.
THEOREM DnsRecordsFit == MessageSpec => []RecordsFit
<1> DEFINE Inv == NameInv /\ Advances
<1>1. MessageInit => Inv
  BY InitNameInv, InitAdvances
<1>2. Inv /\ [ParseStep]_message => Inv'
  <2> SUFFICES ASSUME NameInv, Advances, [ParseStep]_message
               PROVE  NameInv' /\ Advances'
    OBVIOUS
  <2>1. CASE UNCHANGED message
    <3>1. UNCHANGED << packet, at, reading, pos, depth, resume, record, records >>
      BY <2>1 DEF message
    <3>2. /\ Size' = Size /\ Floor' = Floor /\ (Listed(records) => Listed(records'))
          /\ (Onward(pos) => Onward(pos)') /\ (Onward(resume) => Onward(resume)')
      BY <3>1 DEF Size, Floor, Onward
    <3>3. Advances'
      BY <3>1, <3>2 DEF Advances
    <3> QED
      BY <3>3, NameInvNext
  <2> QED
    BY <2>1, NameInvNext, HeaderAdvances, NameAdvances, QuestionAdvances, RecordAdvances,
       CnameAdvances DEF ParseStep
<1>3. Inv => RecordsFit
  BY DEF Advances, Onward, Floor, RecordsFit
<1> QED
  BY <1>1, <1>2, <1>3, PTL DEF MessageSpec

\* Both bounds (ParserBounded): parse_question and parse_response end, and
\* return no more than the packet holds.
THEOREM DnsParserBounded == MessageSpec => []ParserBounded
<1>1. ReadNameEnds /\ RecordsFit => ParserBounded
  BY DEF ParserBounded
<1> QED
  BY <1>1, DnsReadNameEnds, DnsRecordsFit, PTL

-----------------------------------------------------------------------------
(***************************************************************************)
(* The DNS inbound.                                                        *)
(***************************************************************************)
PCs == {"none", "parse", "connect", "wait", "shutdown", "reply", "answered", "dropped"}

\* A query that has left its wait never comes back to it.
Past(q) == handle[q].pc \in {"reply", "answered", "dropped"}

\* A query that waits for a datagram.
Listens(q) == q \in Requests /\ At(q, "wait") /\ ask[q].type = "udp"

\* A reply to q that q may read, or that is all the inbound has left of it.
Own(q, r) == r.answers = q \/ (r.to \in Ports /\ r.answers \in Requests /\ Past(r.answers))

\* A request as its client sent it.
Asked == [client : Clients, name : {"name", "unhostable", "garbled"}, type : {"udp", "tcp", "https"}]

InboundTyped ==
    /\ ask \in Seq(Asked)
    /\ Len(ask) <= MaxRequests
    /\ DOMAIN handle = Requests
    /\ \A q \in Requests : handle[q] = [pc |-> handle[q].pc, port |-> handle[q].port,
                                        reply |-> handle[q].reply]
    /\ \A q \in Requests : handle[q].pc \in PCs

\* A request is received once, and only one that was sent.
ReceivedOnce ==
    /\ \A q \in arriving : q \in DOMAIN ask /\ At(q, "none")
    /\ \A q \in Requests : ~At(q, "none") => q \in DOMAIN ask

\* Queries that listen at the same time have ports of their own.
OwnPorts ==
    /\ \A q \in Requests : Listens(q) => handle[q].port \in Ports
    /\ \A q, p \in Requests :
          Listens(q) /\ Listens(p) /\ handle[q].port = handle[p].port => q = p

\* A datagram on its way was sent to the port of its query, which still
\* listens there or is past its wait.
InFlight ==
    \A r \in replies :
       /\ r.to \in Ports
       /\ r.answers \in Requests
       /\ Past(r.answers) \/ (Listens(r.answers) /\ handle[r.answers].port = r.to)

\* What handle_request holds is a reply to its own query or a stray one.
Held == \A q \in Requests :
           At(q, "reply") \/ At(q, "shutdown") => Own(q, handle[q].reply)

\* What was sent to a client answered its request, and ended it.
Sent ==
    /\ \A s \in sent :
          /\ s.request \in Requests
          /\ At(s.request, "answered")
          /\ s.client = ask[s.request].client
          /\ Own(s.request, s.reply)
    /\ \A s, t \in sent : s.request = t.request => s = t

\* A request whose nameserver has been chosen.
Accepted(q) == handle[q].pc \notin {"none", "parse", "dropped"}

\* Why a request was dropped or answered.
Reasons ==
    /\ \A q \in Requests : At(q, "dropped") => Refused(q) \/ q \in faults \/ stopping_
    /\ \A q \in Requests : Accepted(q) => ~Refused(q)
    /\ \A q \in Requests : At(q, "answered") => \E s \in sent : s.request = q

InboundInv ==
    /\ InboundTyped /\ ReceivedOnce /\ OwnPorts /\ InFlight /\ Held /\ Sent /\ Reasons

\* Before the first request.
LEMMA InitInbound == Init => InboundInv
<1> SUFFICES ASSUME Init PROVE InboundInv
  OBVIOUS
<1>1. InboundTyped
  BY DnsInboundAssumption DEF Init, InboundTyped, Requests, NotYet, PCs
<1>2. ReceivedOnce /\ OwnPorts /\ InFlight /\ Held /\ Sent /\ Reasons
  BY DEF Init, ReceivedOnce, OwnPorts, InFlight, Held, Sent, Reasons, NotYet, At,
     Listens, Accepted
<1> QED
  BY <1>1, <1>2 DEF InboundInv

\* A step of the coroutine of q that neither starts to listen nor answers a
\* client keeps the invariant: h is what the step leaves of the coroutine.
LEMMA MoveInv ==
  ASSUME InboundInv, NEW q \in Requests, NEW h,
         h = [pc |-> h.pc, port |-> h.port, reply |-> h.reply],
         h.pc \in PCs,
         handle' = [handle EXCEPT ![q] = h],
         UNCHANGED << rules, ask, loop, stopping_, sent >>,
         replies' \subseteq replies,
         ~At(q, "none") \/ q \in arriving,
         arriving' \subseteq arriving \ {q},
         faults \subseteq faults',
         h.pc \notin {"none", "answered"},
         ~(At(q, "answered")),
         Past(q) => h.pc \in {"reply", "answered", "dropped"},
         Listens(q) => h.pc \in {"reply", "dropped"},
         h.pc = "wait" => ask[q].type # "udp",
         h.pc \in {"reply", "shutdown"} => Own(q, h.reply),
         h.pc = "dropped" => Refused(q) \/ q \in faults' \/ stopping_,
         h.pc \in {"parse", "dropped"} \/ Accepted(q) \/ ~Refused(q)
  PROVE  InboundInv'
<1> USE DEF InboundInv
<1>1. /\ handle'[q] = h
      /\ \A p \in Requests : p # q => handle'[p] = handle[p]
      /\ DOMAIN handle' = Requests
  BY DEF InboundTyped
<1>2. \A p \in Requests : Past(p) => Past(p)'
  BY <1>1 DEF Past
<1>3. \A p \in Requests : Listens(p)' => p # q /\ Listens(p) /\ handle'[p] = handle[p]
  BY <1>1 DEF Listens, At, Past
<1>4. \A p \in Requests : \A r : Own(p, r) => Own(p, r)'
  BY <1>2 DEF Own
<1>5. InboundTyped'
  BY <1>1 DEF InboundTyped
<1>6. ReceivedOnce'
  BY <1>1 DEF ReceivedOnce, At
<1>7. OwnPorts'
  BY <1>1, <1>3 DEF OwnPorts
<1>8. InFlight'
  BY <1>1, <1>2 DEF InFlight, Listens, Past, At
<1>9. Held'
  BY <1>1, <1>4 DEF Held, At, Own
<1>10. Sent'
  BY <1>1, <1>4 DEF Sent, At
<1>11. Reasons'
  <2>1. \A p \in Requests : Refused(p)' <=> Refused(p)
    BY DEF Refused
  <2> QED
    BY <1>1, <2>1 DEF Reasons, Accepted, At
<1> QED
  BY <1>5, <1>6, <1>7, <1>8, <1>9, <1>10, <1>11

\* The coroutine of q ends without an answer, for a reason.
LEMMA DropInv ==
  ASSUME InboundInv, NEW q \in Requests, Drop(q),
         UNCHANGED << rules, ask, arriving, loop, stopping_, sent >>,
         handle[q].pc \notin {"none", "answered"},
         faults \subseteq faults',
         Refused(q) \/ q \in faults' \/ stopping_
  PROVE  InboundInv'
<1> DEFINE h == [NotYet EXCEPT !.pc = "dropped"]
<1>1. h = [pc |-> "dropped", port |-> NoPort, reply |-> NoReply]
  BY DEF NotYet
<1>2. handle' = [handle EXCEPT ![q] = h] /\ replies' = replies
  BY DEF Drop
<1> HIDE DEF h
<1>3. /\ h = [pc |-> h.pc, port |-> h.port, reply |-> h.reply]
      /\ h.pc = "dropped" /\ h.pc \in PCs
  BY <1>1 DEF PCs
<1>4. arriving' \subseteq arriving \ {q}
  BY DEF InboundInv, ReceivedOnce, At
<1> QED
  BY <1>2, <1>3, <1>4, MoveInv DEF At, Past

\* The network or the nameserver fails q.
LEMMA FaultInv ==
  ASSUME InboundInv, NEW q \in Requests, Fault(q),
         UNCHANGED << rules, ask, arriving, loop, stopping_, sent >>,
         handle[q].pc \notin {"none", "answered"}
  PROVE  InboundInv'
BY DropInv DEF Fault

\* Receiving a request.
LEMMA ReceiveInv ==
  ASSUME InboundInv, NEW q \in Requests, Receive(q)
  PROVE  InboundInv'
<1> DEFINE h == [pc |-> "parse", port |-> handle[q].port, reply |-> handle[q].reply]
<1>1. handle[q] = [pc |-> handle[q].pc, port |-> handle[q].port, reply |-> handle[q].reply]
  BY DEF InboundInv, InboundTyped
<1>2. handle' = [handle EXCEPT ![q] = h]
  <2>1. [handle[q] EXCEPT !.pc = "parse"] = h
    BY <1>1
  <2>2. handle' = [handle EXCEPT ![q] = [handle[q] EXCEPT !.pc = "parse"]]
    BY DEF Receive
  <2> QED
    BY <2>1, <2>2
<1>3. At(q, "none") /\ q \in arriving /\ arriving' = arriving \ {q}
  BY DEF Receive, InboundInv, ReceivedOnce
<1>4. /\ h = [pc |-> h.pc, port |-> h.port, reply |-> h.reply]
      /\ h.pc = "parse" /\ h.pc \in PCs
  BY DEF PCs
<1> HIDE DEF h
<1> QED
  BY <1>2, <1>3, <1>4, MoveInv DEF Receive, At, Past, Listens

\* Choosing the nameserver.
LEMMA PickNameserverInv ==
  ASSUME InboundInv, NEW q \in Requests, PickNameserver(q)
  PROVE  InboundInv'
<1>0. At(q, "parse")
  BY DEF PickNameserver
<1>1. CASE Refused(q)
  <2>1. Drop(q) /\ UNCHANGED faults
    BY <1>1 DEF PickNameserver
  <2> QED
    BY <1>0, <1>1, <2>1, DropInv DEF PickNameserver, At
<1>2. CASE ~Refused(q)
  <2> DEFINE h == [pc |-> "connect", port |-> handle[q].port, reply |-> handle[q].reply]
  <2>1. handle[q] = [pc |-> handle[q].pc, port |-> handle[q].port, reply |-> handle[q].reply]
    BY DEF InboundInv, InboundTyped
  <2>2. handle' = [handle EXCEPT ![q] = h] /\ replies' = replies
    BY <1>2, <2>1 DEF PickNameserver
  <2>3. q \notin arriving
    BY <1>0 DEF InboundInv, ReceivedOnce, At
  <2>4. /\ h = [pc |-> h.pc, port |-> h.port, reply |-> h.reply]
        /\ h.pc = "connect" /\ h.pc \in PCs
    BY DEF PCs
  <2> HIDE DEF h
  <2> QED
    BY <1>0, <1>2, <2>2, <2>3, <2>4, MoveInv DEF PickNameserver, At, Past, Listens
<1> QED
  BY <1>1, <1>2

\* The state of a coroutine set,
LEMMA SetPc ==
  ASSUME NEW h, h = [pc |-> h.pc, port |-> h.port, reply |-> h.reply], NEW x
  PROVE  [h EXCEPT !.pc = x] = [pc |-> x, port |-> h.port, reply |-> h.reply]
OBVIOUS

\* its port,
LEMMA SetPort ==
  ASSUME NEW a, NEW b, NEW c, NEW y
  PROVE  [[pc |-> a, port |-> b, reply |-> c] EXCEPT !.port = y]
            = [pc |-> a, port |-> y, reply |-> c]
OBVIOUS

\* its reply,
LEMMA SetReply ==
  ASSUME NEW a, NEW b, NEW c, NEW y
  PROVE  [[pc |-> a, port |-> b, reply |-> c] EXCEPT !.reply = y]
            = [pc |-> a, port |-> b, reply |-> y]
OBVIOUS

\* state and port,
LEMMA SetPcPort ==
  ASSUME NEW h, h = [pc |-> h.pc, port |-> h.port, reply |-> h.reply], NEW x, NEW y
  PROVE  [[h EXCEPT !.pc = x] EXCEPT !.port = y]
            = [pc |-> x, port |-> y, reply |-> h.reply]
<1>1. [h EXCEPT !.pc = x] = [pc |-> x, port |-> h.port, reply |-> h.reply]
  BY SetPc
<1>2. [[pc |-> x, port |-> h.port, reply |-> h.reply] EXCEPT !.port = y]
         = [pc |-> x, port |-> y, reply |-> h.reply]
  BY SetPort
<1> QED
  BY <1>1, <1>2, Zenon

\* state and reply.
LEMMA SetPcReply ==
  ASSUME NEW h, h = [pc |-> h.pc, port |-> h.port, reply |-> h.reply], NEW x, NEW y
  PROVE  [[h EXCEPT !.pc = x] EXCEPT !.reply = y]
            = [pc |-> x, port |-> h.port, reply |-> y]
<1>1. [h EXCEPT !.pc = x] = [pc |-> x, port |-> h.port, reply |-> h.reply]
  BY SetPc
<1>2. [[pc |-> x, port |-> h.port, reply |-> h.reply] EXCEPT !.reply = y]
         = [pc |-> x, port |-> h.port, reply |-> y]
  BY SetReply
<1> QED
  BY <1>1, <1>2, Zenon

\* Sending the query: over UDP its socket gets a port no other query has.
LEMMA SendQueryInv ==
  ASSUME InboundInv, NEW q \in Requests, SendQuery(q)
  PROVE  InboundInv'
<1>0. At(q, "connect") /\ q \notin arriving /\ q \in DOMAIN ask
  BY DEF SendQuery, InboundInv, ReceivedOnce, At
<1>1. CASE Fault(q)
  BY <1>0, <1>1, FaultInv DEF SendQuery, At
<1>2. \A w, y : [[handle[q] EXCEPT !.pc = w] EXCEPT !.port = y]
                  = [pc |-> w, port |-> y, reply |-> handle[q].reply]
  <2>1. handle[q] = [pc |-> handle[q].pc, port |-> handle[q].port, reply |-> handle[q].reply]
    BY DEF InboundInv, InboundTyped
  <2> QED
    BY <2>1, SetPcPort, Zenon
<1>3. CASE ~Fault(q)
  <2>1. PICK p \in IF ask[q].type = "udp" THEN FreePorts ELSE {NoPort} :
               handle' = [handle EXCEPT ![q].pc = "wait", ![q].port = p]
    BY <1>3 DEF SendQuery
  <2>2. UNCHANGED << rules, ask, arriving, loop, stopping_, sent,
                     replies, faults >>
    BY <1>3 DEF SendQuery
  <2> DEFINE h == [pc |-> "wait", port |-> p, reply |-> handle[q].reply]
  <2>4. handle' = [handle EXCEPT ![q] = h]
    <3>1. [[handle[q] EXCEPT !.pc = "wait"] EXCEPT !.port = p] = h
      BY <1>2
    <3>2. handle' = [handle EXCEPT ![q] =
                       [[handle[q] EXCEPT !.pc = "wait"] EXCEPT !.port = p]]
      BY <2>1 DEF InboundInv, InboundTyped
    <3> QED
      BY <3>1, <3>2
  <2>5. /\ h = [pc |-> h.pc, port |-> h.port, reply |-> h.reply]
        /\ h.pc = "wait" /\ h.pc \in PCs /\ h.port = p
    BY DEF PCs
  <2> HIDE DEF h
  <2>6. CASE ask[q].type # "udp"
    BY <1>0, <2>2, <2>4, <2>5, <2>6, MoveInv DEF At, Past, Listens, Accepted
  <2>7. CASE ask[q].type = "udp"
    <3> USE DEF InboundInv
    <3>1. /\ p \in Ports
          /\ \A x \in Requests : handle[x].port # p
      BY <2>1, <2>7 DEF FreePorts
    <3>2. /\ handle'[q] = h
          /\ \A x \in Requests : x # q => handle'[x] = handle[x]
          /\ DOMAIN handle' = Requests
      BY <2>4 DEF InboundTyped
    <3>3. \A x \in Requests : Past(x) => Past(x)'
      BY <1>0, <3>2 DEF Past, At
    <3>4. \A x \in Requests : \A r : Own(x, r) => Own(x, r)'
      BY <3>3 DEF Own
    <3>5. InboundTyped'
      BY <2>2, <2>5, <3>2 DEF InboundTyped
    <3>6. ReceivedOnce'
      <4>1. \A x \in arriving : x \in Requests
        BY DnsInboundAssumption DEF ReceivedOnce, InboundTyped, Requests
      <4> QED
        BY <1>0, <2>2, <2>5, <3>2, <4>1 DEF ReceivedOnce, At
    <3>7. OwnPorts'
      BY <2>2, <2>5, <3>1, <3>2 DEF OwnPorts, Listens, At
    <3>8. InFlight'
      BY <1>0, <2>2, <3>2, <3>3 DEF InFlight, Listens, At
    <3>9. Held'
      BY <2>2, <2>5, <3>2, <3>4 DEF Held, At
    <3>10. Sent'
      BY <1>0, <2>2, <3>2, <3>4 DEF Sent, At
    <3>11. Reasons'
      <4>1. Accepted(q) /\ \A x \in Requests : Refused(x)' <=> Refused(x)
        BY <1>0, <2>2 DEF Accepted, Refused, At
      <4> QED
        BY <2>2, <2>5, <3>2, <4>1 DEF Reasons, Accepted, At
    <3> QED
      BY <3>5, <3>6, <3>7, <3>8, <3>9, <3>10, <3>11
  <2> QED
    BY <2>6, <2>7
<1> QED
  BY <1>1, <1>3

\* Reading a datagram: what has reached q's port is its own reply, or one to a
\* query that had the port before.
LEMMA ReadDatagramInv ==
  ASSUME InboundInv, NEW q \in Requests, ReadDatagram(q)
  PROVE  InboundInv'
<1>0. Listens(q) /\ q \notin arriving
  BY DEF ReadDatagram, Listens, InboundInv, ReceivedOnce, At
<1>1. PICK r \in replies :
         /\ r.to = handle[q].port
         /\ replies' = replies \ {r}
         /\ handle' = [handle EXCEPT ![q] = [pc |-> "reply", port |-> NoPort, reply |-> r]]
  BY DEF ReadDatagram
<1>2. Own(q, r)
  <2>1. r.to \in Ports /\ r.answers \in Requests
    BY DEF InboundInv, InFlight
  <2>2. CASE Past(r.answers)
    BY <2>1, <2>2 DEF Own
  <2>3. CASE Listens(r.answers) /\ handle[r.answers].port = r.to
    BY <1>0, <1>1, <2>1, <2>3 DEF Own, InboundInv, OwnPorts
  <2> QED
    BY <2>2, <2>3 DEF InboundInv, InFlight
<1> DEFINE h == [pc |-> "reply", port |-> NoPort, reply |-> r]
<1>3. /\ h = [pc |-> h.pc, port |-> h.port, reply |-> h.reply]
      /\ h.pc = "reply" /\ h.pc \in PCs /\ h.reply = r
      /\ handle' = [handle EXCEPT ![q] = h]
  BY <1>1 DEF PCs
<1> HIDE DEF h
<1>4. UNCHANGED << rules, ask, arriving, loop, stopping_, silent, faults, sent >>
  BY DEF ReadDatagram
<1>5. At(q, "wait") /\ replies' \subseteq replies /\ arriving' \subseteq arriving \ {q}
  BY <1>0, <1>1, <1>4 DEF Listens
<1> QED
  BY <1>2, <1>3, <1>4, <1>5, MoveInv DEF At, Past, Accepted

\* Reading from a stream: the reply is the query's own.
LEMMA ReadStreamInv ==
  ASSUME InboundInv, NEW q \in Requests, ReadStream(q)
  PROVE  InboundInv'
<1>0. /\ At(q, "wait") /\ ask[q].type # "udp" /\ q \notin arriving
      /\ UNCHANGED << rules, ask, arriving, loop, stopping_, replies, silent, faults, sent >>
  BY DEF ReadStream, InboundInv, ReceivedOnce, At
<1> DEFINE n == IF ask[q].type = "https" THEN "shutdown" ELSE "reply"
<1>1. PICK parses \in BOOLEAN :
         handle' = [handle EXCEPT
            ![q].pc = n, ![q].reply = [to |-> NoPort, answers |-> q, parses |-> parses]]
  BY DEF ReadStream
<1> DEFINE r == [to |-> NoPort, answers |-> q, parses |-> parses]
           h == [pc |-> n, port |-> handle[q].port, reply |-> r]
<1>2. handle' = [handle EXCEPT ![q] = h]
  <2>1. handle[q] = [pc |-> handle[q].pc, port |-> handle[q].port, reply |-> handle[q].reply]
    BY DEF InboundInv, InboundTyped
  <2> HIDE DEF n, r
  <2>2. [[handle[q] EXCEPT !.pc = n] EXCEPT !.reply = r] = h
    BY <2>1, SetPcReply, Zenon
  <2>3. handle' = [handle EXCEPT ![q] =
                     [[handle[q] EXCEPT !.pc = n] EXCEPT !.reply = r]]
    BY <1>1 DEF r, InboundInv, InboundTyped
  <2> QED
    BY <2>2, <2>3
<1>3. /\ h = [pc |-> h.pc, port |-> h.port, reply |-> h.reply]
      /\ h.pc \in {"shutdown", "reply"} /\ h.pc \in PCs
      /\ h.reply.answers = q
  BY DEF PCs
<1> HIDE DEF h
<1>4. Own(q, h.reply)
  BY <1>3 DEF Own
<1> QED
  BY <1>0, <1>2, <1>3, <1>4, MoveInv DEF At, Past, Listens, Accepted

\* Waiting for the server to close TLS.
LEMMA ShutDownTlsInv ==
  ASSUME InboundInv, NEW q \in Requests, ShutDownTls(q)
  PROVE  InboundInv'
<1>0. /\ At(q, "shutdown") /\ q \notin arriving
      /\ UNCHANGED << rules, ask, arriving, loop, stopping_, silent, sent >>
  BY DEF ShutDownTls, InboundInv, ReceivedOnce, At
<1>1. CASE Fault(q)
  BY <1>0, <1>1, FaultInv DEF At
<1>2. CASE ~Fault(q)
  <2> DEFINE h == [pc |-> "reply", port |-> handle[q].port, reply |-> handle[q].reply]
  <2>1. handle[q] = [pc |-> handle[q].pc, port |-> handle[q].port, reply |-> handle[q].reply]
    BY DEF InboundInv, InboundTyped
  <2>2. /\ handle' = [handle EXCEPT ![q] = [handle[q] EXCEPT !.pc = "reply"]]
        /\ UNCHANGED << replies, faults >>
    BY <1>2 DEF ShutDownTls
  <2>3. [handle[q] EXCEPT !.pc = "reply"] = h
    BY <2>1
  <2>4. Own(q, handle[q].reply)
    BY <1>0 DEF InboundInv, Held
  <2>5. /\ h = [pc |-> h.pc, port |-> h.port, reply |-> h.reply]
        /\ h.pc = "reply" /\ h.pc \in PCs /\ h.reply = handle[q].reply
        /\ handle' = [handle EXCEPT ![q] = h]
    BY <2>2, <2>3 DEF PCs
  <2> HIDE DEF h
  <2> QED
    BY <1>0, <2>2, <2>4, <2>5, MoveInv DEF At, Past, Listens, Accepted
<1> QED
  BY <1>1, <1>2

\* Sending the answer ends the request.
LEMMA AnswerInv ==
  ASSUME InboundInv, NEW q \in Requests, Answer(q)
  PROVE  InboundInv'
<1>0. /\ At(q, "reply") /\ q \notin arriving /\ q \in DOMAIN ask
      /\ UNCHANGED << rules, ask, arriving, loop, stopping_, silent >>
  BY DEF Answer, InboundInv, ReceivedOnce, At
<1>1. CASE /\ handle[q].reply.parses /\ stopping_
           /\ Drop(q)
           /\ UNCHANGED << faults, sent >>
  BY <1>0, <1>1, DropInv DEF At
<1>2. CASE /\ ~handle[q].reply.parses
           /\ Fault(q)
           /\ UNCHANGED sent
  BY <1>0, <1>2, FaultInv DEF At
<1>3. CASE /\ handle[q].reply.parses /\ ~stopping_
           /\ handle' = [handle EXCEPT ![q] = [NotYet EXCEPT !.pc = "answered"]]
           /\ sent' = sent \cup {[request |-> q, client |-> Client(q),
                                  reply |-> handle[q].reply]}
           /\ UNCHANGED << replies, faults >>
  <2> USE DEF InboundInv
  <2> DEFINE h == [NotYet EXCEPT !.pc = "answered"]
             a == [request |-> q, client |-> Client(q), reply |-> handle[q].reply]
  <2>1. h = [pc |-> h.pc, port |-> h.port, reply |-> h.reply] /\ h.pc = "answered"
    BY DEF NotYet
  <2>2. /\ a.request = q /\ a.client = ask[q].client /\ a.reply = handle[q].reply
        /\ sent' = sent \cup {a}
    BY <1>3 DEF Client
  <2> HIDE DEF h, a
  <2>3. /\ handle'[q] = h
        /\ \A x \in Requests : x # q => handle'[x] = handle[x]
        /\ DOMAIN handle' = Requests
    BY <1>3 DEF InboundTyped, h
  <2>4. \A x \in Requests : Past(x) => Past(x)'
    BY <2>1, <2>3 DEF Past
  <2>5. \A x \in Requests : \A r : Own(x, r) => Own(x, r)'
    BY <2>4 DEF Own
  <2>6. InboundTyped'
    BY <1>0, <2>1, <2>3 DEF InboundTyped, PCs
  <2>7. ReceivedOnce'
    <3>1. \A x \in arriving : x \in Requests
      BY DnsInboundAssumption DEF ReceivedOnce, InboundTyped, Requests
    <3> QED
      BY <1>0, <2>1, <2>3, <3>1 DEF ReceivedOnce, At
  <2>8. OwnPorts'
    BY <1>0, <2>1, <2>3 DEF OwnPorts, Listens, At
  <2>9. InFlight'
    BY <1>0, <1>3, <2>1, <2>3, <2>4 DEF InFlight, Listens, At
  <2>10. Held'
    BY <2>1, <2>3, <2>5 DEF Held, At
  <2>11. Sent'
    <3>0. PICK r : r = handle[q].reply
      OBVIOUS
    <3>1. Own(q, r)'
      <4>1. Own(q, r)
        BY <1>0, <3>0 DEF Held
      <4> QED
        BY <2>5, <4>1
    <3>2. \A s \in sent : s.request # q
      BY <1>0 DEF Sent, At
    <3>3. \A s \in sent' :
             /\ s.request \in Requests
             /\ At(s.request, "answered")'
             /\ s.client = ask[s.request].client
      BY <2>1, <2>2, <2>3 DEF Sent, At
    <3>4. ASSUME NEW s \in sent' PROVE Own(s.request, s.reply)'
      <4>1. CASE s = a
        BY <2>2, <3>0, <3>1, <4>1
      <4>2. CASE s \in sent
        BY <2>5, <4>2 DEF Sent
      <4> QED
        BY <2>2, <4>1, <4>2
    <3>5. \A s, t \in sent' : s.request = t.request => s = t
      BY <2>2, <3>2 DEF Sent
    <3> QED
      BY <1>0, <3>3, <3>4, <3>5 DEF Sent
  <2>12. Reasons'
    <3>1. Accepted(q) /\ \A x \in Requests : Refused(x)' <=> Refused(x)
      BY <1>0 DEF Accepted, Refused, At
    <3>2. \A x \in Requests : At(x, "answered")' => \E s \in sent' : s.request = x
      BY <2>2, <2>3 DEF Reasons, At
    <3> QED
      BY <1>0, <1>3, <2>1, <2>3, <3>1, <3>2 DEF Reasons, Accepted, At
  <2> QED
    BY <2>6, <2>7, <2>8, <2>9, <2>10, <2>11, <2>12
<1> QED
  BY <1>1, <1>2, <1>3 DEF Answer

\* A client sends a request: it is a new one.
LEMMA AskInv ==
  ASSUME InboundInv, NEW c \in Clients, NEW k \in Kinds, Ask(c, k)
  PROVE  InboundInv'
<1> USE DEF InboundInv
<1> DEFINE n == Len(ask) + 1
<1>0. UNCHANGED << rules, loop, stopping_, handle, replies, silent, faults, sent >>
  BY DEF Ask
<1>1. /\ ask' = Append(ask, [client |-> c, name |-> k.name, type |-> k.type])
      /\ arriving' = arriving \cup {n}
      /\ Len(ask) < MaxRequests
  BY DEF Ask
<1>2. /\ Len(ask) \in Nat
      /\ DOMAIN ask = 1 .. Len(ask)
      /\ DOMAIN ask' = 1 .. n
      /\ Len(ask') = n
      /\ \A q \in DOMAIN ask : ask'[q] = ask[q]
  BY <1>1 DEF InboundTyped
<1>3. n \in Requests /\ n \notin DOMAIN ask /\ At(n, "none")
  BY <1>1, <1>2, DnsInboundAssumption DEF Requests, ReceivedOnce
<1>4. \A q \in Requests : ~At(q, "none") => ask'[q] = ask[q]
  BY <1>2 DEF ReceivedOnce
<1>5. \A q \in Requests : Past(q)' <=> Past(q)
  BY <1>0 DEF Past
<1>6. \A q \in Requests : Listens(q)' <=> Listens(q)
  BY <1>0, <1>4 DEF Listens, At
<1>7. \A p \in Requests : \A r : Own(p, r) => Own(p, r)'
  BY <1>5 DEF Own
<1>8. InboundTyped'
  <2>1. k.name \in {"name", "unhostable", "garbled"} /\ k.type \in {"udp", "tcp", "https"}
    <3>1. CASE k \in {[name |-> "name", type |-> t] : t \in {"udp", "tcp", "https"}}
      <4>1. PICK t \in {"udp", "tcp", "https"} : k = [name |-> "name", type |-> t]
        BY <3>1
      <4> QED
        BY <4>1
    <3>2. CASE k \in {[name |-> m, type |-> "udp"] : m \in {"unhostable", "garbled"}}
      <4>1. PICK m \in {"unhostable", "garbled"} : k = [name |-> m, type |-> "udp"]
        BY <3>2
      <4> QED
        BY <4>1
    <3> QED
      BY <3>1, <3>2 DEF Kinds
  <2>2. ask' \in Seq(Asked)
    BY <1>1, <2>1 DEF InboundTyped, Asked
  <2>3. Len(ask') <= MaxRequests
    BY <1>1, <1>2, DnsInboundAssumption
  <2> QED
    BY <1>0, <2>2, <2>3 DEF InboundTyped
<1>9. ReceivedOnce'
  BY <1>0, <1>1, <1>2, <1>3 DEF ReceivedOnce, At
<1>10. OwnPorts'
  BY <1>0, <1>6 DEF OwnPorts
<1>11. InFlight'
  BY <1>0, <1>5, <1>6 DEF InFlight
<1>12. Held'
  BY <1>0, <1>7 DEF Held, At
<1>13. Sent'
  BY <1>0, <1>4, <1>7 DEF Sent, At
<1>14. Reasons'
  BY <1>0, <1>4 DEF Reasons, Refused, Accepted, At
<1> QED
  BY <1>8, <1>9, <1>10, <1>11, <1>12, <1>13, <1>14

\* A nameserver answers a datagram, at the port it came from.
LEMMA ReplyInv ==
  ASSUME InboundInv, NEW q \in Requests, Reply(q)
  PROVE  InboundInv'
<1> USE DEF InboundInv
<1>0. /\ UNCHANGED << rules, ask, arriving, loop, stopping_, handle,
                      faults, sent >>
      /\ Listens(q)
  BY DEF Reply, Listens
<1>1. PICK parses \in BOOLEAN :
         replies' = replies \cup {[to |-> handle[q].port, answers |-> q, parses |-> parses]}
  BY DEF Reply
<1>2. InFlight'
  BY <1>0, <1>1 DEF InFlight, Listens, OwnPorts, Past, At
<1>3. InboundTyped' /\ ReceivedOnce' /\ OwnPorts'
  BY <1>0 DEF InboundTyped, ReceivedOnce, OwnPorts, At, Listens
<1>4. Held' /\ Sent' /\ Reasons'
  BY <1>0 DEF Held, Sent, Reasons, Own, Past, At, Refused, Accepted
<1> QED
  BY <1>2, <1>3, <1>4

\* Replies get lost, servers fall silent, the loop ends.
LEMMA OutsideInv ==
  ASSUME InboundInv,
         UNCHANGED << rules, ask, arriving, handle, faults, sent >>,
         replies' \subseteq replies,
         stopping_ => stopping_'
  PROVE  InboundInv'
<1> USE DEF InboundInv
<1>1. InboundTyped' /\ ReceivedOnce' /\ OwnPorts'
  BY DEF InboundTyped, ReceivedOnce, OwnPorts, At, Listens
<1>2. InFlight'
  BY DEF InFlight, Listens, Past, At
<1>3. Held' /\ Sent'
  BY DEF Held, Sent, Own, Past, At
<1>4. Reasons'
  BY DEF Reasons, At, Refused, Accepted
<1> QED
  BY <1>1, <1>2, <1>3, <1>4

\* Every step keeps the invariant.
LEMMA NextInbound == InboundInv /\ [Next]_vars => InboundInv'
<1> SUFFICES ASSUME InboundInv, [Next]_vars PROVE InboundInv'
  OBVIOUS
<1>1. CASE UNCHANGED vars
  BY <1>1, OutsideInv DEF vars
<1>2. ASSUME NEW q \in Requests, Receive(q) \/ Handle(q) \/ Reply(q)
      PROVE  InboundInv'
  BY <1>2, ReceiveInv, PickNameserverInv, SendQueryInv, ReadDatagramInv, ReadStreamInv,
     ShutDownTlsInv, AnswerInv, ReplyInv DEF Handle
<1>3. CASE ReceiveFails
  BY <1>3, OutsideInv DEF ReceiveFails
<1>4. CASE Stop
  BY <1>4, OutsideInv DEF Stop
<1>6. ASSUME NEW c \in Clients, NEW k \in Kinds, Ask(c, k) PROVE InboundInv'
  BY <1>6, AskInv
<1>7. ASSUME NEW q \in Requests, QueryFails(q) PROVE InboundInv'
  BY <1>7, FaultInv DEF QueryFails, At
<1>8. ASSUME NEW q \in Requests, FallSilent(q) PROVE InboundInv'
  BY <1>8, OutsideInv DEF FallSilent
<1>9. ASSUME NEW r \in replies, LoseReply(r) PROVE InboundInv'
  BY <1>9, OutsideInv DEF LoseReply
<1> QED
  BY <1>1, <1>2, <1>3, <1>4, <1>6, <1>7, <1>8, <1>9 DEF Next, Network

\* InboundInv is an inductive invariant of the DNS inbound.
LEMMA InboundInvariant == Spec => []InboundInv
<1> QED
  BY InitInbound, NextInbound, PTL DEF Spec

\* For any number of clients, ports and requests: what the inbound sends a
\* client is the reply to that client's own request, sent once, or a late
\* datagram of a query that had the port before and is past its wait.
THEOREM DnsAnswersOwnQuestion == Spec => []AnswersOwnQuestion
<1>1. InboundInv => AnswersOwnQuestion
  BY DEF InboundInv, Sent, Own, Past, AnswersOwnQuestion
<1> QED
  BY <1>1, InboundInvariant, PTL

\* For any number of clients, ports and requests: handle_request leaves a
\* request unanswered only for the reasons DropsForAReason names, whenever and
\* however the receiving loop ends, and answers none that it refuses.
THEOREM DnsDropsForAReason == Spec => []DropsForAReason
<1>1. ASSUME InboundInv PROVE DropsForAReason
  <2>1. DOMAIN ask \subseteq Requests
    <3>1. Len(ask) \in Nat /\ DOMAIN ask = 1 .. Len(ask) /\ Len(ask) <= MaxRequests
      BY <1>1 DEF InboundInv, InboundTyped
    <3> QED
      BY <3>1, DnsInboundAssumption DEF Requests
  <2>2. \A q \in DOMAIN ask :
           /\ At(q, "dropped") => Refused(q) \/ q \in faults \/ stopping_
           /\ At(q, "answered") => ~Refused(q) /\ \E s \in sent : s.request = q
    BY <1>1, <2>1 DEF InboundInv, Reasons, Accepted, At
  <2> QED
    BY <2>2 DEF Refused, DropsForAReason
<1> QED
  BY <1>1, InboundInvariant, PTL

=============================================================================
