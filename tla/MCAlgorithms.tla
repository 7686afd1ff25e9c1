---------------------------- MODULE MCAlgorithms ----------------------------
(***************************************************************************)
(* Inputs of Algorithms for TLC.                                           *)
(***************************************************************************)
EXTENDS Algorithms

Strings(n, chars) == UNION {[1 .. k -> chars] : k \in 0 .. n}

\* Rules with one condition, or with two of different kinds.
NoConditions == [domain |-> {}, domain_suffix |-> {}, domain_keyword |-> {},
                 ip_cidr |-> << >>, rule_set |-> << >>]
Items == Strings(2, {"a", "A", "."}) \cup {<< "b", ".", "a" >>}
OneCondition ==
    UNION {{[NoConditions EXCEPT !.domain = {s}],
            [NoConditions EXCEPT !.domain_suffix = {s}],
            [NoConditions EXCEPT !.domain_keyword = {s}]} : s \in Items}
WithSet == {[NoConditions EXCEPT !.rule_set = << "known" >>],
            [NoConditions EXCEPT !.rule_set = << "unknown" >>],
            [NoConditions EXCEPT !.rule_set = << "unknown", "known" >>,
                                 !.domain_keyword = {<< "b" >>}]}
\* The root name, as text and with its dot, and names that are too long for a
\* Host, all of them or only until they are in normal form.
Names == Strings(3, {"a", "A", "."})
         \cup {<< "b", ".", "a" >>, << "b", "a" >>, << "b", ".", "a", "." >>,
               << "b", "b", ".", "A", "." >>, << "b", "b", "b", ".", "a" >>,
               << "b", "b", "b", ".", "A", "." >>, << "b", "b", "b", "b", "b" >>}

MCNameCalls ==
    {[fn |-> "pick", sets |-> [known |-> << s >>], rules |-> rs,
      dst |-> [family |-> "domain", text |-> n]] :
       s \in {[NoConditions EXCEPT !.domain_suffix = {<< "a" >>}],
              [NoConditions EXCEPT !.domain_keyword = {<< "A" >>}]},
       rs \in {<< >>} \cup {<< r >> : r \in OneCondition \cup WithSet}
                \cup {<< r, q >> : r \in OneCondition \cup WithSet, q \in WithSet}
                \cup {<< q, r >> : r \in OneCondition, q \in WithSet},
       n \in Names}

Addr == [1 .. AddressBytes -> 0 .. (2^ByteBits - 1)]
Entry(family, form, spelling, base, prefix) ==
    [family |-> family, form |-> form, spelling |-> spelling, base |-> base, prefix |-> prefix]
Cidrs(f) == {Entry(f, "slash", "canonical", b, p) :
               b \in {<< 0, 0 >>, << 2, 1 >>}, p \in {0, 1, ByteBits, ByteBits + 1, Bits + 1}}
            \cup {Entry(f, "slash", "other", << 2, 1 >>, Bits),
                  Entry(f, "plain", "canonical", << 2, 1 >>, 0),
                  Entry(f, "plain", "other", << 2, 1 >>, 0),
                  Entry(f, "malformed", "other", << >>, 0)}
Few(f) == {Entry(f, "plain", "canonical", << 2, 1 >>, 0)}
          \cup {Entry(any, "malformed", "other", << >>, 0) : any \in {"ipv4", "ipv6"}}
WithEntries(cs) == [NoConditions EXCEPT !.ip_cidr = cs]

\* Rules with two entries, with one, and with a rule set that may be in front.
AddressRules(f) ==
    {<< WithEntries(<< c, d >>), [WithEntries(<< g >>) EXCEPT !.rule_set = tags] >> :
       c \in Cidrs(f), d \in Few(f), tags \in {<< >>, << "unknown", "known" >>},
       g \in {Entry(f, "plain", "canonical", << 0, 0 >>, 0),
              Entry(f, "malformed", "other", << >>, 0)}}
    \cup {<< [NoConditions EXCEPT !.rule_set = << "known" >>], WithEntries(<< c >>) >> :
            c \in Cidrs(f)}
AddressCalls(f) ==
    {[fn |-> "pick", sets |-> [known |-> << WithEntries(<< >>), WithEntries(<< e >>) >>],
      rules |-> rs, dst |-> [family |-> f, bytes |-> a, text |-> << >>]] :
       rs \in AddressRules(f), e \in Few(f), a \in {<< 0, 0 >>, << 2, 1 >>, << 2, 2 >>}}
MCAddressCalls == AddressCalls("ipv4") \cup AddressCalls("ipv6")

MCRouteCalls == MCNameCalls \cup MCAddressCalls

MCCidrCalls ==
    {[fn |-> "cidr", addr |-> a, base |-> b, prefix |-> p] :
       a \in Addr, b \in Addr, p \in -1 .. (Bits + 1)}

MCIpv4Texts == {<< "4" >>}
MCIpv6Texts == {<< ":", ":" >>, << ":", ":", "1" >>}
MCTargetCalls ==
    {[fn |-> "target", text |-> t] :
       t \in Strings(4, {"h", "0", "1", "4", ":", "[", "]"})
             \cup Strings(6, {"1", ":", "[", "]"})
             \cup Strings(4, {"h", "1", ":", "/"})
             \cup Strings(7, {"h", "1", ":"})}

\* A TCP or UDP segment of 18 to 21 bytes behind a header without options.
IpHeader(a, b, n) ==
    << 69, 0, 0, n, a, b, 0, 0, 64, 6, 0, 0, 0, 0, a, b, 0, 0, 0, 0 >>
MCSegmentCalls ==
    {[fn |-> "checksum", ip |-> IpHeader(a, b, 38 + Len(tail)),
      segment |-> << a, a >> \o << 0, 0, 0, c >> \o [i \in 1 .. 12 |-> 0] \o tail] :
       a \in {0, 1, 255}, b \in {0, 255}, c \in {0, 1, 255},
       tail \in {<< >>, << 255, 255 >>} \cup {<< x >> : x \in 0 .. 255}
                \cup {<< 255, x >> : x \in 0 .. 255} \cup {<< 255, 255, x >> : x \in {0, 1, 255}}}

Long(n) == [i \in 1 .. n |-> 97]
MCQueryCalls ==
    {[fn |-> "parse_question", labels |-> ls, type |-> t] :
       ls \in UNION {[1 .. k -> {<< >>, << 97 >>, << 98, 98 >>, Long(63), Long(64)}] : k \in 0 .. 3},
       t \in {A, AAAA}}

\* Records with their owners written out or compressed, of all types, of
\* another class, and with addresses of a wrong length.
Question == << << 97, 97 >>, << 98 >> >>
ToQuestion == << 192, 12 >>
ToLastLabel == << 192, 15 >>
Rec(owner, type, class, data, means, valid) ==
    [owner |-> owner, type |-> type, class |-> class, data |-> data, means |-> means,
     valid |-> valid]
Found(type, value) == << [type |-> type, value |-> value] >>
V4 == << 10, 0, 0, 1 >>
V6 == [i \in 1 .. 16 |-> i]
SampleRecords ==
    {Rec(o, A, 1, V4, Found(A, V4), TRUE) :
       o \in {ToQuestion, << 0 >>, << 1, 99 >> \o ToLastLabel, EncodeLabels(Question) \o << 0 >>}}
    \cup {Rec(ToQuestion, AAAA, 1, V6, Found(AAAA, V6), TRUE),
          Rec(ToQuestion, CNAME, 1, << 1, 99 >> \o ToLastLabel,
              Found(CNAME, << 99, Dot, 98 >>), TRUE),
          Rec(ToQuestion, CNAME, 1, ToLastLabel, Found(CNAME, << 98 >>), TRUE),
          Rec(ToQuestion, 6, 1, << 1, 2, 3 >>, << >>, TRUE),
          Rec(ToQuestion, 6, 1, << >>, << >>, TRUE),
          Rec(ToQuestion, A, 3, << 1 >>, << >>, TRUE),
          Rec(ToQuestion, A, 1, << 10, 0, 0 >>, << >>, FALSE),
          Rec(ToQuestion, AAAA, 1, V4, << >>, FALSE)}
MCResponseCalls ==
    {c \in {[fn |-> "parse_response", question |-> Question, records |-> rs, cut |-> n] :
              rs \in UNION {[1 .. k -> SampleRecords] : k \in 0 .. 2},
              n \in {0, 1, 2, 4, 5, 10, 11, 12, 16, 17, 20, 30}} :
       c.cut <= Len(EncodeResponse(c.question, c.records))}

\* One to three records, some owned by the first one's name, in a packet that
\* claims 255; the data of a CNAME may be empty.
MCClaims ==
    {[fn |-> "any packet",
      bytes |-> << 0, 0, 0, 0, 0, 0, 0, 255, 0, 0, 0, 0 >>
                   \o FlattenSeq([i \in DOMAIN rs |-> EncodeRecord(rs[i])])] :
       rs \in UNION {[1 .. k -> {Rec(o, t.type, 1, t.data, << >>, TRUE) :
                                   o \in {<< 0 >>, << 1, 97, 0 >>, ToQuestion},
                                   t \in {[type |-> A, data |-> V4],
                                          [type |-> CNAME, data |-> << >>],
                                          [type |-> CNAME, data |-> ToQuestion]}}] :
                     k \in 1 .. 3}}

MCPacketCalls ==
    {[fn |-> "any packet",
      bytes |-> << 0, 0, 0, 0, 0, q, 0, 1, 0, 0, 0, 0 >> \o tail] :
       q \in {0, 1}, tail \in Strings(4, {0, 1, 12, 14, 64, 192})}
    \cup MCClaims

\* Extensions before, with and without a host name, and names of other types.
Name(type, text) == [type |-> type, text |-> text]
Extensions ==
    {[type |-> 10, names |-> << Name(0, << 97 >>) >>],
     [type |-> 0, names |-> << >>],
     [type |-> 0, names |-> << Name(0, << 104, 104 >>) >>],
     [type |-> 0, names |-> << Name(0, << >>) >>],
     [type |-> 0, names |-> << Name(1, << 120 >>), Name(0, << 121 >>) >>]}
Hellos ==
    {[session_id |-> s, cipher_suites |-> << 19, 1 >>, extensions |-> es] :
       s \in {<< >>, << 5, 5 >>}, es \in UNION {[1 .. k -> Extensions] : k \in 0 .. 2}}
HelloCall(h, cut, change) ==
    [fn |-> "sniff_tls_sni", session_id |-> h.session_id, cipher_suites |-> h.cipher_suites,
     extensions |-> h.extensions, cut |-> cut, change |-> change]
MCHelloCalls ==
    UNION {{HelloCall(h, n, [at |-> 0, to |-> 0]) : n \in 0 .. Len(EncodeHello(h))}
           \cup {HelloCall(h, 0, [at |-> i, to |-> v]) :
                   i \in (1 .. Len(EncodeHello(h))) \ (12 .. 43), v \in {0, 1, 255}} : h \in Hellos}
=============================================================================
