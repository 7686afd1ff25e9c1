----------------------------- MODULE DnsMessage -----------------------------
(***************************************************************************)
(* Reading DNS messages (dns/dns_message.cpp): read_name with its          *)
(* compression pointers, parse_question and parse_response, one step per   *)
(* iteration of read_name's loop; and build_query, which writes the        *)
(* queries of DnsServer::resolve.                                          *)
(*                                                                         *)
(* packet is a sequence of bytes, and packet[i + 1] the byte at offset i.  *)
(* read_name calls itself for a pointer and returns right after, so one    *)
(* frame is enough: where it reads (pos), how deep it is, and the offset   *)
(* its first caller goes on from (resume).                                 *)
(***************************************************************************)
EXTENDS Integers, SequencesExt

CONSTANT MaxDepth       \* pointers followed in one name (16)

ASSUME DnsMessageAssumption == MaxDepth \in Nat

VARIABLES
    packet,
    parsing,    \* "question" or "response": which function runs
    at,         \* control state: "header", "name", "after" a name, "done", "threw"
    reading,    \* whose name: a "question", a "record" or the data of a "cname"
    pos,        \* offset of the next byte
    depth,      \* pointers followed in this name
    resume,     \* the caller's offset, once a pointer was followed
    name,       \* the characters of the name so far
    left,       \* questions and records still to read
    record,     \* the record being read
    records,    \* the records returned
    steps       \* history: iterations of read_name's loop in this name

message == << packet, parsing, at, reading, pos, depth, resume, name, left, record,
              records, steps >>

Dot      == 46
A        == 1
CNAME    == 5
AAAA     == 28
Internet == 1
Header   == 12      \* bytes before the first question

Size    == Len(packet)
Byte(i) == packet[i + 1]

\* There are n more bytes from offset i on.
Holds(i, n) == i + n <= Size

Be16(i) == Byte(i) * 256 + Byte(i + 1)

NoRecord == [type |-> 0, value |-> << >>]

-----------------------------------------------------------------------------
(***************************************************************************)
(* build_query.                                                            *)
(***************************************************************************)
TwoBytes(n) == << n \div 256, n % 256 >>

\* Where the labels begin, as offsets; a dot at the end begins none.
LabelOffsets(domain) == {i \in 0 .. (Len(domain) - 1) : i = 0 \/ domain[i] = Dot}

LabelLen(domain, i) ==
    LET dots == {j \in (i + 1) .. Len(domain) : domain[j] = Dot}
    IN  (IF dots = {} THEN Len(domain) ELSE Min(dots) - 1) - i

\* The exception "invalid domain label".
Encodes(domain) == \A i \in LabelOffsets(domain) : LabelLen(domain, i) \in 1 .. 63

EncodedName(domain) ==
    FlattenSeq([k \in 1 .. Cardinality(LabelOffsets(domain)) |->
       LET i == SetToSortSeq(LabelOffsets(domain), <)[k]
           n == LabelLen(domain, i)
       IN  << n >> \o SubSeq(domain, i + 1, i + n)]) \o << 0 >>

build_query(domain, type) ==
    << 18, 52, 1, 0, 0, 1, 0, 0, 0, 0, 0, 0 >>
       \o EncodedName(domain) \o TwoBytes(type) \o TwoBytes(Internet)

-----------------------------------------------------------------------------
(***************************************************************************)
(* Parsing.                                                                *)
(***************************************************************************)

\* A parse of bytes begins.
Parse(bytes, f) ==
    /\ packet = bytes
    /\ parsing = f
    /\ at = "header" /\ reading = "question"
    /\ pos = 0 /\ depth = 0 /\ resume = 0 /\ steps = 0
    /\ name = << >>
    /\ left = [questions |-> 0, records |-> 0]
    /\ record = NoRecord
    /\ records = << >>

Throw ==
    /\ at' = "threw"
    /\ UNCHANGED << reading, pos, depth, resume, name, left, record, records, steps >>

\* Call read_name at offset i.
ReadName(i, what) ==
    /\ at' = "name"
    /\ reading' = what
    /\ pos' = i
    /\ depth' = 0 /\ resume' = 0 /\ steps' = 0
    /\ name' = << >>

Return(i) == at' = "done" /\ pos' = i /\ UNCHANGED << reading, depth, resume, name, steps >>

\* What is read at offset i, when l is left: the questions, then the records.
Continue(i, l) ==
    /\ left' = l
    /\ CASE l.questions > 0 -> ReadName(i, "question")
         [] l.questions = 0 /\ l.records > 0 -> ReadName(i, "record")
         [] OTHER -> Return(i)

\* The size and the counts; parse_question reads one question and no record.
ReadHeader ==
    /\ at = "header"
    /\ IF Size < Header \/ (parsing = "question" /\ Be16(4) = 0) THEN Throw
       ELSE /\ Continue(Header, IF parsing = "question"
                                THEN [questions |-> 1, records |-> 0]
                                ELSE [questions |-> Be16(4), records |-> Be16(6)])
            /\ UNCHANGED << record, records >>
    /\ UNCHANGED << packet, parsing >>

\* The name is complete: its reader goes on at the caller's offset.
Finished ==
    /\ at' = "after"
    /\ pos' = IF depth = 0 THEN pos + 1 ELSE resume
    /\ UNCHANGED << depth, resume, name >>

\* Mutant of Follow: the depth is not passed on.
Follow_no_depth ==
    /\ pos' = (Byte(pos) % 64) * 256 + Byte(pos + 1)
    /\ resume' = IF depth = 0 THEN pos + 2 ELSE resume
    /\ UNCHANGED << at, depth, name >>

\* Mutant of Follow: the caller's offset follows the pointer.
Follow_no_resume ==
    /\ pos' = (Byte(pos) % 64) * 256 + Byte(pos + 1)
    /\ depth' = depth + 1
    /\ resume' = (Byte(pos) % 64) * 256 + Byte(pos + 1)
    /\ UNCHANGED << at, name >>

\* read_name calls itself at the offset a pointer names.
Follow ==
    /\ pos' = (Byte(pos) % 64) * 256 + Byte(pos + 1)
    /\ depth' = depth + 1
    /\ resume' = IF depth = 0 THEN pos + 2 ELSE resume
    /\ UNCHANGED << at, name >>

TakeLabel ==
    LET n == Byte(pos)
    IN  /\ name' = name \o (IF name = << >> THEN << >> ELSE << Dot >>)
                        \o SubSeq(packet, pos + 2, pos + 1 + n)
        /\ pos' = pos + 1 + n
        /\ UNCHANGED << at, depth, resume >>

\* The byte at pos cannot be the start of a label, a pointer or the end.
BadLabel ==
    \/ pos >= Size
    \/ Byte(pos) \in 1 .. 63 /\ ~Holds(pos + 1, Byte(pos))
    \/ Byte(pos) \in 64 .. 191
    \/ Byte(pos) >= 192 /\ (~Holds(pos + 1, 1) \/ depth >= MaxDepth)

\* One iteration of the loop of read_name.
NameStep ==
    /\ at = "name"
    /\ IF BadLabel THEN Throw
       ELSE /\ CASE Byte(pos) = 0    -> Finished
                 [] Byte(pos) >= 192 -> Follow
                 [] OTHER            -> TakeLabel
            /\ steps' = steps + 1
            /\ UNCHANGED << reading, left, record, records >>
    /\ UNCHANGED << packet, parsing >>

\* The type and class of a question: skip_question passes over them, ...
SkipQuestion ==
    /\ at = "after" /\ reading = "question" /\ parsing = "response"
    /\ IF ~Holds(pos, 4) THEN Throw
       ELSE /\ Continue(pos + 4, [left EXCEPT !.questions = @ - 1])
            /\ UNCHANGED << record, records >>
    /\ UNCHANGED << packet, parsing >>

\* ... and parse_question returns the type with the name.
ReturnQuestion ==
    /\ at = "after" /\ reading = "question" /\ parsing = "question"
    /\ IF ~Holds(pos, 4) THEN Throw
       ELSE /\ at' = "done"
            /\ record' = [type |-> Be16(pos), value |-> name]
            /\ UNCHANGED << reading, pos, depth, resume, name, left, records, steps >>
    /\ UNCHANGED << packet, parsing >>

\* The bytes that ipv4_text and ipv6_text insist on.
AddressLen(type) == IF type = A THEN 4 ELSE 16

NextRecord(end, found) ==
    /\ records' = found
    /\ record' = NoRecord
    /\ Continue(end, [left EXCEPT !.records = @ - 1])

\* The fixed fields of a record and its data.  Addresses are kept, for a CNAME
\* the name in the data is read, any other type or class is passed over.
AfterRecord ==
    /\ at = "after" /\ reading = "record"
    /\ IF ~Holds(pos, 10) \/ ~Holds(pos + 10, Be16(pos + 8)) THEN Throw
       ELSE LET type  == Be16(pos)
                klass == Be16(pos + 2)
                n     == Be16(pos + 8)
                data  == pos + 10
            IN  \/ /\ klass = Internet /\ type \in {A, AAAA} /\ n = AddressLen(type)
                   /\ NextRecord(data + n, Append(records,
                         [type |-> type, value |-> SubSeq(packet, data + 1, data + n)]))
                \/ klass = Internet /\ type \in {A, AAAA} /\ n # AddressLen(type) /\ Throw
                \/ /\ klass = Internet /\ type = CNAME
                   /\ record' = [type |-> CNAME, value |-> << data + n >>]
                   /\ ReadName(data, "cname")
                   /\ UNCHANGED << left, records >>
                \/ /\ klass # Internet \/ type \notin {A, AAAA, CNAME}
                   /\ NextRecord(data + n, records)
    /\ UNCHANGED << packet, parsing >>

\* The name of a CNAME is read; the next record follows its data.
AfterCname ==
    /\ at = "after" /\ reading = "cname"
    /\ NextRecord(record.value[1], Append(records, [type |-> CNAME, value |-> name]))
    /\ UNCHANGED << packet, parsing >>

ParseStep ==
    \/ ReadHeader \/ NameStep \/ SkipQuestion \/ ReturnQuestion \/ AfterRecord \/ AfterCname

Packets == Seq(0 .. 255)

\* Either function, called with any packet.
MessageInit == \E bytes \in Packets, f \in {"question", "response"} : Parse(bytes, f)
MessageSpec == MessageInit /\ [][ParseStep]_message

-----------------------------------------------------------------------------
(***************************************************************************)
(* Properties.                                                             *)
(***************************************************************************)

\* Whatever the packet, read_name ends: compression pointers, which may lead
\* backwards or in a circle, cannot make its loops run more often than once
\* per byte and nesting level.
ReadNameEnds == steps <= (MaxDepth + 1) * Size

\* Whatever the counts in the header claim, parse_response returns no more
\* records than the packet has room for, eleven bytes each: a compression
\* pointer, the name in a CNAME's data and a data length of 0 never take the
\* offset back to bytes that were read as a record before, nor out of the packet.
RecordsFit ==
    /\ at \in {"after", "done"} => pos <= Size
    /\ records # << >> => Header + 11 * Len(records) <= Size

\* Received bytes can neither keep the parser running nor make it return more
\* than they hold, whatever their pointers and counts say.
ParserBounded == ReadNameEnds /\ RecordsFit
=============================================================================
