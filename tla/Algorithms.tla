----------------------------- MODULE Algorithms -----------------------------
(***************************************************************************)
(* One call of one of the program's pure functions, on any of the given    *)
(* inputs, against a reference definition of its result: rule matching     *)
(* (Match), request targets (HttpTarget), checksums (Checksum), DNS        *)
(* messages (DnsMessage) and the TLS sniffer (TlsSniffer).  The parsers    *)
(* run step by step; the other functions are evaluated in one.             *)
(***************************************************************************)
EXTENDS Match, HttpTarget, Checksum, DnsMessage, TlsSniffer

CONSTANTS
    RouteCalls,     \* rule sets, rules and a destination
    CidrCalls,      \* two addresses and a prefix length
    TargetCalls,    \* a text
    SegmentCalls,   \* an IPv4 header and a segment
    QueryCalls,     \* the labels of a domain, and a query type
    ResponseCalls,  \* a question and records, and how much of the end is cut off
    PacketCalls,    \* any bytes
    HelloCalls      \* the fields of a ClientHello, a cut and a changed byte

\* Rules as the configuration holds them, and what a route call is given.
CidrEntries == [family : {"ipv4", "ipv6"}, form : {"plain", "slash", "malformed"},
                spelling : {"canonical", "other"}, base : Seq(Nat), prefix : Int]
Rules == [domain : SUBSET Seq(STRING), domain_suffix : SUBSET Seq(STRING),
          domain_keyword : SUBSET Seq(STRING), ip_cidr : Seq(CidrEntries),
          rule_set : Seq(STRING)]

ASSUME CallAssumption ==
    /\ \A c \in RouteCalls :
          /\ c.fn = "pick"
          /\ c.rules \in Seq(Rules)
          /\ c.sets \in [DOMAIN c.sets -> Seq(Rules)]
          /\ c.dst.text \in Seq(STRING)
    /\ \A c \in CidrCalls : c.fn = "cidr"
    /\ \A c \in TargetCalls : c.fn = "target" /\ c.text \in Seq(STRING)
    /\ \A c \in SegmentCalls : c.fn = "checksum"
    /\ \A c \in QueryCalls : c.fn = "parse_question"
    /\ \A c \in ResponseCalls : c.fn = "parse_response"
    /\ \A c \in PacketCalls : c.fn = "any packet"
    /\ \A c \in HelloCalls : c.fn = "sniff_tls_sni"

VARIABLES
    call,       \* the function and its arguments
    got         \* << the result >> once it was evaluated

calls == << call, got, message, sniffer >>

-----------------------------------------------------------------------------
(***************************************************************************)
(* Encoders: messages as their standards lay them out.                     *)
(***************************************************************************)
EncodeLabels(labels) ==
    FlattenSeq([i \in DOMAIN labels |-> << Len(labels[i]) >> \o labels[i]])

\* A domain as text.
Joined(labels) ==
    FlattenSeq([i \in DOMAIN labels |-> (IF i = 1 THEN << >> ELSE << Dot >>) \o labels[i]])

\* A record: its owner's name, type, class, ttl and data.
EncodeRecord(r) ==
    r.owner \o TwoBytes(r.type) \o TwoBytes(r.class) \o << 0, 0, 0, 60 >>
       \o TwoBytes(Len(r.data)) \o r.data

EncodeResponse(question, rs) ==
    << 18, 52, 129, 128, 0, 1, 0, Len(rs), 0, 0, 0, 0 >>
       \o EncodeLabels(question) \o << 0, 0, A, 0, Internet >>
       \o FlattenSeq([i \in DOMAIN rs |-> EncodeRecord(rs[i])])

WithLen16(bytes) == TwoBytes(Len(bytes)) \o bytes

\* The names of a server_name extension, or the data of another one.
EncodeNames(ns) ==
    WithLen16(FlattenSeq([i \in DOMAIN ns |-> << ns[i].type >> \o WithLen16(ns[i].text)]))
EncodeExtension(e) == TwoBytes(e.type) \o WithLen16(EncodeNames(e.names))

EncodeHello(c) ==
    LET body == << 3, 3 >> \o [i \in 1 .. Random |-> 7]
                   \o << Len(c.session_id) >> \o c.session_id
                   \o WithLen16(c.cipher_suites) \o << 1, 0 >>
                   \o WithLen16(FlattenSeq([i \in DOMAIN c.extensions |->
                                              EncodeExtension(c.extensions[i])]))
    IN  << 22, 3, 1 >> \o WithLen16(<< 1, 0 >> \o WithLen16(body))

Cut(bytes, n) == SubSeq(bytes, 1, Len(bytes) - n)

\* The bytes a parser is given.
Input ==
    CASE call.fn = "parse_question" -> IF Encodes(Joined(call.labels))
                                       THEN build_query(Joined(call.labels), call.type)
                                       ELSE << >>
      [] call.fn = "parse_response" ->
            Cut(EncodeResponse(call.question, call.records), call.cut)
      [] call.fn = "any packet" -> call.bytes
      [] call.fn = "sniff_tls_sni" ->
            IF call.change.at = 0 THEN Cut(EncodeHello(call), call.cut)
            ELSE [EncodeHello(call) EXCEPT ![call.change.at] = call.change.to]
      [] OTHER -> << >>

-----------------------------------------------------------------------------
(***************************************************************************)
(* The calls.                                                              *)
(***************************************************************************)
Parsers == {"parse_question", "parse_response", "any packet"}

CallInit ==
    /\ \/ call \in RouteCalls \/ call \in CidrCalls \/ call \in TargetCalls
       \/ call \in SegmentCalls \/ call \in QueryCalls \/ call \in ResponseCalls
       \/ call \in PacketCalls \/ call \in HelloCalls
    /\ got = << >>
    /\ Parse(IF call.fn \in Parsers THEN Input ELSE << >>,
             IF call.fn = "parse_question" THEN "question" ELSE "response")
    /\ Sniff(IF call.fn = "sniff_tls_sni" THEN Input ELSE << >>)

\* What a Host can hold.  A DNS message may ask for any other name as well.
IsDestination(dst) == dst.family = "domain" => ~DomainThrows(dst.text)

Result ==
    CASE call.fn = "pick" ->
            [outbound   |-> IF IsDestination(call.dst)
                            THEN pick_outbound(call.sets, call.rules, call.dst) ELSE 0,
             nameserver |-> IF call.dst.family = "domain"
                            THEN pick_nameserver(call.sets, call.rules, call.dst.text) ELSE 0]
      [] call.fn = "cidr" ->
            [v4 |-> match_ipv4_cidr(call.addr, call.base, call.prefix),
             v6 |-> match_ipv6_cidr(call.addr, call.base, call.prefix)]
      [] call.fn = "target" ->
            [connect  |-> parse_connect_target(call.text),
             absolute |-> parse_http_absolute_target(call.text),
             listen   |-> parse_endpoint(call.text)]
      [] call.fn = "checksum" ->
            [ip  |-> recalc_ipv4_checksum(call.ip),
             tcp |-> recalc_tcp_checksum(call.ip, call.segment),
             udp |-> recalc_udp_checksum(call.ip, call.segment)]

Evaluate ==
    /\ call.fn \in {"pick", "cidr", "target", "checksum"}
    /\ got = << >>
    /\ got' = << Result >>
    /\ UNCHANGED << call, message, sniffer >>

ParseMessage ==
    /\ call.fn \in Parsers
    /\ ParseStep
    /\ UNCHANGED << call, got, sniffer >>

SniffHello ==
    /\ call.fn = "sniff_tls_sni"
    /\ SniffStep
    /\ UNCHANGED << call, got, message >>

CallNext == Evaluate \/ ParseMessage \/ SniffHello

CallSpec == CallInit /\ [][CallNext]_calls

-----------------------------------------------------------------------------
(***************************************************************************)
(* Properties.                                                             *)
(***************************************************************************)
Done(fn) == call.fn = fn /\ got # << >>
Answer == got[1]

\* n is the first rule of those covering, or 0 if there is none.
IsFirst(n, covering) ==
    \/ n = 0 /\ covering = {}
    \/ n \in covering /\ \A i \in covering : n <= i

SetsCover(rule, d) ==
    \E i \in DOMAIN rule.rule_set :
       /\ rule.rule_set[i] \in DOMAIN call.sets
       /\ \E s \in ToSet(call.sets[rule.rule_set[i]]) : NameCovered(s, d)

\* The rule as the DNS rules mean it: in normal form, without empty entries.
Normal(rule) ==
    [rule EXCEPT !.domain         = {normalize_domain(s) : s \in @},
                 !.domain_suffix  = {normalize_domain(s) : s \in @},
                 !.domain_keyword = {normalize_domain(s) : s \in @} \ {<< >>}]

\* The entries of a rule and of its rule sets, in the order of the rule.
Entries(rule) ==
    LET Of(tag) == IF tag \in DOMAIN call.sets
                   THEN FlattenSeq([i \in DOMAIN call.sets[tag] |-> call.sets[tag][i].ip_cidr])
                   ELSE << >>
    IN  rule.ip_cidr \o FlattenSeq([i \in DOMAIN rule.rule_set |-> Of(rule.rule_set[i])])

\* Those that cover an address, or are malformed for its family.
Concerning(rule, dst) ==
    LET Concerns(c) ==
           /\ c.family = dst.family
           /\ \/ c.form = "malformed"
              \/ c.form = "plain" /\ c.spelling = "canonical" /\ c.base = dst.bytes
              \/ c.form = "slash" /\ SamePrefix(dst.bytes, c.base, c.prefix)
    IN  SelectSeq(Entries(rule), Concerns)

\* The first rule that covers a name decides, for the outbound and for the
\* nameserver: a name is covered by an equal entry, by a suffix of whole
\* labels, by a keyword, or by a rule set.  The DNS rules compare in normal
\* form.  A name no Host can hold, the root name or one that is too long, gets
\* no further than the first of them: that rule takes it by its own entries, or
\* the query throws.
FirstNameRuleDecides ==
    Done("pick") /\ call.dst.family = "domain" =>
       LET rules == call.rules
           d == call.dst.text
           n == normalize_domain(d)
       IN  /\ ~DomainThrows(d) => IsFirst(Answer.outbound,
                 {i \in DOMAIN rules : NameCovered(rules[i], d) \/ SetsCover(rules[i], d)})
           /\ ~DomainThrows(n) => IsFirst(Answer.nameserver,
                 {i \in DOMAIN rules :
                    NameCovered(Normal(rules[i]), n) \/ SetsCover(rules[i], n)})
           /\ DomainThrows(n) /\ rules = << >> => Answer.nameserver = 0
           /\ DomainThrows(n) /\ rules # << >> =>
                 Answer.nameserver = IF NameCovered(Normal(rules[1]), n) THEN 1 ELSE -1

\* The first entry that covers an address, in the order of the rules, of their
\* own entries and then of their rule sets, decides its outbound; an entry for
\* its family that is malformed throws if and only if none before it covers the
\* address.  A prefix covers the addresses that agree on all of its bits, a
\* plain entry the one that is written in the same way.
\* The two CIDR tests, one on a number and one byte by byte, both compare
\* exactly the first prefix bits, and refuse prefixes that are out of range.
FirstAddressRuleDecides ==
    /\ Done("pick") /\ call.dst.family # "domain" =>
          LET found == {i \in DOMAIN call.rules : Concerning(call.rules[i], call.dst) # << >>}
              entry == Concerning(call.rules[Min(found)], call.dst)[1]
          IN  Answer.outbound = IF found = {} THEN 0
                                ELSE IF entry.form = "malformed" THEN -1 ELSE Min(found)
    /\ Done("cidr") =>
          /\ Answer.v4 = SamePrefix(call.addr, call.base, call.prefix)
          /\ Answer.v6 = SamePrefix(call.addr, call.base, call.prefix)

Hosts(text) == {s.host : s \in {t \in Splits(text) : IsHost(t.host)}} \cup InBrackets(Ipv6Texts)

\* What parse_endpoint takes for an address.
Listens == Ipv4Texts \cup InBrackets(Ipv4Texts \cup Ipv6Texts)

\* What comes before the first slash.
Authority(text) ==
    IF Find(text, "/") = {} THEN text ELSE SubSeq(text, 1, Min(Find(text, "/")) - 1)

\* A destination is what its text means: an IPv4 address, a domain of at most
\* MaxDomain characters, or an IPv6 address in brackets, with a port in range
\* and nothing else around them; the absolute form may leave the port out.  The
\* DNS inbound takes only addresses, in brackets or not, and also port 0.
AuthorityMeant ==
    Done("target") =>
       LET text   == call.text
           before == Authority(text)
           Meant(d, readings) == d = Threw \/ \E s \in readings : Means(d, s)
       IN  /\ Meant(Answer.connect, Readings(text, Hosts(text), 1))
           /\ Meant(Answer.listen, Readings(text, Listens, 0))
           /\ IF WithoutPort(before)
              THEN \/ Answer.absolute = Threw
                   \/ Answer.absolute.port = 80 /\ MeansHost(Answer.absolute, before)
              ELSE Meant(Answer.absolute, Readings(before, Hosts(before), 1))

\* No such text is refused; a domain that is too long is not one of them.
AuthorityTaken ==
    Done("target") =>
       LET text   == call.text
           before == Authority(text)
       IN  /\ Readings(text, Hosts(text), 1) # {} => Answer.connect # Threw
           /\ Readings(text, Listens, 0) # {} => Answer.listen # Threw
           /\ WithoutPort(before) \/ Readings(before, Hosts(before), 1) # {} =>
                 Answer.absolute # Threw

OnlyChanges(old, new, i) ==
    DOMAIN new = DOMAIN old /\ \A k \in DOMAIN old \ {i + 1, i + 2} : new[k] = old[k]

\* A receiver accepts every checksum the program writes, whatever the carries
\* and also for an odd number of bytes, no UDP checksum is the 0 that means
\* there is none, and no other byte changes.
ChecksumAccepted ==
    Done("checksum") =>
       /\ Accepted(HeaderOf(Answer.ip)) /\ OnlyChanges(call.ip, Answer.ip, 10)
       /\ Accepted(Pseudo(call.ip, 6, Answer.tcp)) /\ OnlyChanges(call.segment, Answer.tcp, 16)
       /\ Accepted(Pseudo(call.ip, 17, Answer.udp)) /\ OnlyChanges(call.segment, Answer.udp, 6)
       /\ SubSeq(Answer.udp, 7, 8) # << 0, 0 >>

LabelOk(l) == Len(l) \in 1 .. 63

\* parse_question gives back the name and type that build_query was asked for,
\* and build_query refuses exactly the names with an empty label inside or one
\* of more than 63 bytes.  parse_response gives back the addresses and aliases
\* of a well-formed response, through compressed names, and never a part of
\* them: a response that ends early, or has an address of a wrong length, is
\* refused.
DnsDecodes ==
    at \in {"done", "threw"} =>
       /\ call.fn = "parse_question" =>
             LET labels == call.labels
                 valid  == \A i \in DOMAIN labels :
                              LabelOk(labels[i]) \/ (i = Len(labels) /\ labels[i] = << >>)
             IN  IF valid
                 THEN /\ at = "done"
                      /\ record.type = call.type
                      /\ record.value = Joined(SelectSeq(labels, LabelOk))
                 ELSE at = "threw"
       /\ call.fn = "parse_response" =>
             IF call.cut = 0 /\ \A i \in DOMAIN call.records : call.records[i].valid
             THEN /\ at = "done"
                  /\ records = FlattenSeq([i \in DOMAIN call.records |-> call.records[i].means])
             ELSE at = "threw"

HostNames(c) ==
    SelectSeq(FlattenSeq([i \in DOMAIN c.extensions |->
                            IF c.extensions[i].type = 0 THEN c.extensions[i].names ELSE << >>]),
              LAMBDA n : n.type = 0)

\* The sniffer returns the first host name of a well-formed ClientHello and
\* nothing for one that has not arrived in full.
SniffsServerName ==
    call.fn = "sniff_tls_sni" /\ stage = "returned" /\ call.change.at = 0 =>
       IF call.cut > 0 \/ HostNames(call) = << >> THEN sni = << >>
       ELSE sni = << HostNames(call)[1].text >>
=============================================================================
