-------------------------------- MODULE Match -------------------------------
(***************************************************************************)
(* How a destination picks its outbound, by the rules and rule sets of     *)
(* Router (route/router.cpp, route/rule_set.cpp), and a name its           *)
(* nameserver, by the rules of DnsServer (dns/dns.cpp).  Both take the     *)
(* first rule that matches.                                                *)
(*                                                                         *)
(* A name is a sequence of characters; "A" stands for the upper-case form  *)
(* of "a".  A rule has the sets domain, domain_suffix and domain_keyword,  *)
(* and the sequences ip_cidr and rule_set.  An address is a family and a   *)
(* sequence of bytes, and a byte a number below 2^ByteBits, so that a      *)
(* prefix that ends inside a byte can be told from one that ends between   *)
(* two.  An entry of ip_cidr is a text: its family (IPv6 if it has a       *)
(* colon), its form, the address it names and how that is spelled, in the  *)
(* way to_string spells it (canonical) or another.                         *)
(***************************************************************************)
EXTENDS Address, SequencesExt

CONSTANTS
    ByteBits,       \* bits in a byte (8)
    AddressBytes    \* bytes in an address (4 and 16)

ASSUME MatchAssumption == ByteBits \in Nat \ {0} /\ AddressBytes \in Nat \ {0}

Bits == AddressBytes * ByteBits

-----------------------------------------------------------------------------
(***************************************************************************)
(* Names.                                                                  *)
(***************************************************************************)
EndsWith(s, t) == Len(s) >= Len(t) /\ SubSeq(s, Len(s) - Len(t) + 1, Len(s)) = t

IsIn(t, s) == \E i \in 0 .. (Len(s) - Len(t)) : SubSeq(s, i + 1, i + Len(t)) = t

ToLower(c) == IF c = "A" THEN "a" ELSE c

\* normalize_domain: lower case, without dots at the end.
normalize_domain(s) ==
    LET kept == {k \in 1 .. Len(s) : s[k] # "."}
    IN  [i \in 1 .. (IF kept = {} THEN 0 ELSE Max(kept)) |-> ToLower(s[i])]

\* Mutant of SuffixMatches: the suffix may begin inside a label.
SuffixMatches_inside(d, suffix) == suffix # << >> /\ EndsWith(d, suffix)

\* The test both classes apply to one entry of domain_suffix.
SuffixMatches(d, suffix) ==
    /\ suffix # << >>
    /\ IF suffix[1] = "." THEN EndsWith(d, suffix)
       ELSE d = suffix \/ EndsWith(d, << "." >> \o suffix)

\* Router::match_domain: the strings as they are; an empty keyword is in every
\* name.
match_domain(rule, d) ==
    \/ d \in rule.domain
    \/ \E s \in rule.domain_suffix : SuffixMatches(d, s)
    \/ \E k \in rule.domain_keyword : IsIn(k, d)

-----------------------------------------------------------------------------
(***************************************************************************)
(* Addresses.                                                              *)
(***************************************************************************)

\* x & (all ones << n): without its last n bits.
Masked(x, n) == x - (x % 2^n)

\* A shift of a number as wide as an address: the build takes the count modulo
\* that width, so that a shift by all of it, undefined in C++, shifts nothing.
ShiftCount(n) == n % Bits

\* The address as one number, most significant byte first (ipv4_to_u32).
Number(a) == FoldLeft(LAMBDA n, b : n * 2^ByteBits + b, 0, a)

\* Mutant of match_ipv4_cidr: the empty prefix has no mask of its own.
match_ipv4_cidr_shift(a, b, p) ==
    /\ p \in 0 .. Bits
    /\ Masked(Number(b), ShiftCount(Bits - p)) = Masked(Number(a), ShiftCount(Bits - p))

\* The mask of the empty prefix is 0, and no shift.
match_ipv4_cidr(a, b, p) ==
    LET n == ShiftCount(Bits - p)
    IN  /\ p \in 0 .. Bits
        /\ p # 0 => Masked(Number(b), n) = Masked(Number(a), n)

\* The whole bytes are compared one by one, then the rest of the next one.
match_ipv6_cidr(a, b, p) ==
    LET full_bytes == p \div ByteBits
        rest_bits  == p % ByteBits
    IN  /\ p \in 0 .. Bits
        /\ \A i \in 1 .. full_bytes : b[i] = a[i]
        /\ rest_bits # 0 =>
              Masked(b[full_bytes + 1], ByteBits - rest_bits)
                 = Masked(a[full_bytes + 1], ByteBits - rest_bits)

-----------------------------------------------------------------------------
(***************************************************************************)
(* Rules.  A test says "yes", "no" or "throws"; the first of several that  *)
(* does not say no is the result.                                          *)
(***************************************************************************)
Says(matches) == IF matches THEN "yes" ELSE "no"

Hits(tests) == {i \in DOMAIN tests : tests[i] # "no"}

FirstOf(tests) == IF Hits(tests) = {} THEN "no" ELSE tests[Min(Hits(tests))]

\* What an address, and an entry without a slash, look like as texts.
AddressText(dst) == [spelling |-> "canonical", bytes |-> dst.bytes]
EntryText(cidr) == [spelling |-> cidr.spelling, bytes |-> cidr.base]

\* One entry of ip_cidr against an address of its family: without a slash the
\* texts are compared; with one, the rest may not parse, and that throws.
CidrTest(dst, cidr) ==
    CASE cidr.form = "plain"     -> Says(AddressText(dst) = EntryText(cidr))
      [] cidr.form = "malformed" -> "throws"
      [] cidr.form = "slash" /\ dst.family = "ipv4" ->
            Says(match_ipv4_cidr(dst.bytes, cidr.base, cidr.prefix))
      [] cidr.form = "slash" /\ dst.family = "ipv6" ->
            Says(match_ipv6_cidr(dst.bytes, cidr.base, cidr.prefix))

\* match_rule_conditions: match_domain, or match_ip_cidr over the entries of
\* the destination's family.
match_rule_conditions(rule, dst) ==
    IF dst.family = "domain" THEN Says(match_domain(rule, dst.text))
    ELSE LET entries == SelectSeq(rule.ip_cidr, LAMBDA c : c.family = dst.family)
         IN  FirstOf([i \in DOMAIN entries |-> CidrTest(dst, entries[i])])

\* RuleSet::match, for a tag that is known.
match_rule_set(sets, tag, dst) ==
    IF tag \in DOMAIN sets
    THEN FirstOf([i \in DOMAIN sets[tag] |-> match_rule_conditions(sets[tag][i], dst)])
    ELSE "no"

\* Router::match_rule.
match_rule(sets, rule, dst) ==
    FirstOf(<< match_rule_conditions(rule, dst) >> \o
            [i \in DOMAIN rule.rule_set |-> match_rule_set(sets, rule.rule_set[i], dst)])

\* The scan stops at the first rule that matches or throws.
Deciding(tests) == Min(Hits(tests))

\* The number of the rule that decides: 0 for the final outbound or server,
\* -1 for an exception.
Pick(tests) ==
    IF Hits(tests) = {} THEN 0
    ELSE IF tests[Deciding(tests)] = "throws" THEN -1 ELSE Deciding(tests)

pick_outbound(sets, rules, dst) ==
    Pick([i \in DOMAIN rules |-> match_rule(sets, rules[i], dst)])

\* DnsServer::match_rule on a normalised name: its own test normalises the
\* entries and passes over empty ones; then the name is made a Host for the
\* rule sets, which may throw, though the rule may have none.
DnsMatches(rule, d) ==
    \/ d \in {normalize_domain(s) : s \in rule.domain}
    \/ \E s \in rule.domain_suffix : SuffixMatches(d, normalize_domain(s))
    \/ \E k \in rule.domain_keyword :
          normalize_domain(k) # << >> /\ IsIn(normalize_domain(k), d)

dns_match_rule(sets, rule, d) ==
    IF DnsMatches(rule, d) THEN "yes"
    ELSE IF DomainThrows(d) THEN "throws"
    ELSE FirstOf([i \in DOMAIN rule.rule_set |->
            match_rule_set(sets, rule.rule_set[i], [family |-> "domain", text |-> d])])

pick_nameserver(sets, rules, name) ==
    Pick([i \in DOMAIN rules |-> dns_match_rule(sets, rules[i], normalize_domain(name))])

-----------------------------------------------------------------------------
(***************************************************************************)
(* Reference: what a rule covers.                                          *)
(***************************************************************************)

\* Where the labels of a name begin.
LabelStarts(s) == {1} \cup {i + 1 : i \in {j \in 1 .. Len(s) : s[j] = "."}}

\* An entry of domain_suffix covers the names that end in its labels; with a
\* leading dot, only those with a label in front of them.
SuffixCovers(suffix, d) ==
    \/ suffix # << >> /\ suffix[1] # "." /\ \E i \in LabelStarts(d) :
          SubSeq(d, i, Len(d)) = suffix
    \/ suffix # << >> /\ suffix[1] = "." /\ \E i \in LabelStarts(d) \ {1} :
          SubSeq(d, i, Len(d)) = Tail(suffix)

KeywordCovers(k, d) == \E i, j \in 0 .. Len(d) : SubSeq(d, i + 1, j) = k

NameCovered(rule, d) ==
    \/ d \in rule.domain
    \/ \E s \in rule.domain_suffix : SuffixCovers(s, d)
    \/ \E k \in rule.domain_keyword : KeywordCovers(k, d)

\* Two addresses agree on the first p bits.
Bit(a, i) == (a[((i - 1) \div ByteBits) + 1] \div 2^(ByteBits - 1 - ((i - 1) % ByteBits))) % 2
SamePrefix(a, b, p) == p \in 0 .. Bits /\ \A i \in 1 .. p : Bit(a, i) = Bit(b, i)
=============================================================================
