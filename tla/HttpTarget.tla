----------------------------- MODULE HttpTarget -----------------------------
(***************************************************************************)
(* How the target of a proxied HTTP request becomes a destination          *)
(* (parse_port, parse_authority and their two callers in                   *)
(* protocol/http_proxy.cpp, Host::parse in core/address.cpp), and the      *)
(* address of the DNS inbound an endpoint (parse_endpoint in               *)
(* dns/dns_inbound.cpp).                                                   *)
(*                                                                         *)
(* A text is a sequence of characters: "0" and "1" are the digits, "h" any *)
(* letter, and "4" an IPv4 address.  Threw stands for the exception.       *)
(***************************************************************************)
EXTENDS Address, SequencesExt

CONSTANTS
    MaxPort,      \* the largest port (65535)
    Ipv4Texts,    \* external: the texts make_address_v4 accepts
    Ipv6Texts     \* external: the texts make_address_v6 accepts

ASSUME HttpTargetAssumption ==
    /\ MaxPort \in Nat
    /\ Ipv4Texts \subseteq Seq(STRING) /\ Ipv6Texts \subseteq Seq(STRING)
    /\ Ipv4Texts \cap Ipv6Texts = {}
    /\ \A t \in Ipv6Texts : ":" \in ToSet(t)

Threw == [type |-> "threw", host |-> << >>, port |-> 0]

Digit == [c \in {"0", "1"} |-> IF c = "1" THEN 1 ELSE 0]

Find(text, c) == {i \in DOMAIN text : text[i] = c}
From(text, i) == SubSeq(text, i, Len(text))

\* std::from_chars into an unsigned int that must take up the whole text.
Value(text) == FoldLeft(LAMBDA n, c : 10 * n + Digit[c], 0, text)
IsNumber(text) == text # << >> /\ ToSet(text) \subseteq DOMAIN Digit

\* Mutant of PortOr: a number that is too large is cut to 16 bits.
PortOr_wraps(text, least) ==
    IF IsNumber(text) /\ Value(text) >= least THEN Value(text) % (MaxPort + 1) ELSE -1

\* Mutant of PortOr: the largest port is refused.
PortOr_below(text, least) ==
    IF IsNumber(text) /\ Value(text) \in least .. (MaxPort - 1) THEN Value(text) ELSE -1

\* http_proxy's parse_port; the one of dns_inbound takes 0 as well.
PortOr(text, least) ==
    IF IsNumber(text) /\ Value(text) \in least .. MaxPort THEN Value(text) ELSE -1

\* IPv4Address::is_valid and parse, IPv6Address::is_valid and parse.
IsIpv4(text) == text \in Ipv4Texts
IsIpv6(text) == text \in Ipv6Texts

\* Host::parse: an address if it reads as one, or else a domain.
HostType(text) ==
    CASE IsIpv4(text) -> "ipv4"
      [] IsIpv6(text) -> "ipv6"
      [] OTHER        -> "domain"

\* What is returned, unless the port or the Host throws.
Destination(type, host, port) ==
    IF port < 0 \/ (type = "domain" /\ DomainThrows(host)) THEN Threw
    ELSE [type |-> type, host |-> host, port |-> port]

\* "[" ipv6 "]" with or without a port.
Bracketed(authority, default_port, explicit) ==
    LET close  == Min(Find(authority, "]"))
        host   == SubSeq(authority, 2, close - 1)
        suffix == From(authority, close + 1)
    IN  IF Find(authority, "]") = {} \/ ~IsIpv6(host) THEN Threw
        ELSE IF suffix = << >>
        THEN IF explicit THEN Threw ELSE Destination("ipv6", host, default_port)
        ELSE IF suffix[1] # ":" THEN Threw
        ELSE Destination("ipv6", host, PortOr(Tail(suffix), 1))

\* rfind(':')
LastColon(text) == Max(Find(text, ":"))

parse_authority(authority, default_port, explicit) ==
    LET colon == LastColon(authority)
        host  == SubSeq(authority, 1, colon - 1)
    IN  IF authority = << >> THEN Threw
        ELSE IF authority[1] = "[" THEN Bracketed(authority, default_port, explicit)
        ELSE IF Find(authority, ":") = {}
        THEN IF explicit THEN Threw
             ELSE Destination(HostType(authority), authority, default_port)
        ELSE IF host = << >> \/ Find(host, ":") # {} THEN Threw
        ELSE Destination(HostType(host), host, PortOr(From(authority, colon + 1), 1))

parse_connect_target(target) == parse_authority(target, 0, TRUE)

\* What follows "http://", up to the first slash.
parse_http_absolute_target(rest) ==
    LET slash == Min(Find(rest, "/"))
    IN  parse_authority(IF Find(rest, "/") = {} THEN rest ELSE SubSeq(rest, 1, slash - 1),
                        80, FALSE)

\* parse_endpoint: a port is needed, and an address.
parse_endpoint(listen) ==
    LET close == Min(Find(listen, "]"))
        colon == LastColon(listen)
        Endpoint(host, port) ==
           IF IsIpv4(host) \/ IsIpv6(host)
           THEN Destination(HostType(host), host, PortOr(port, 0)) ELSE Threw
    IN  IF listen # << >> /\ listen[1] = "["
        THEN IF Find(listen, "]") = {} \/ close + 1 > Len(listen) THEN Threw
             ELSE IF listen[close + 1] # ":" THEN Threw
             ELSE Endpoint(SubSeq(listen, 2, close - 1), From(listen, close + 2))
        ELSE IF Cardinality(Find(listen, ":")) # 1 THEN Threw
        ELSE Endpoint(SubSeq(listen, 1, colon - 1), From(listen, colon + 1))

-----------------------------------------------------------------------------
(***************************************************************************)
(* Reference: the grammar of an authority.                                 *)
(***************************************************************************)
IsHost(text) ==
    /\ text # << >> /\ text[1] # "[" /\ ":" \notin ToSet(text)
    /\ text \in Ipv4Texts \/ Len(text) <= MaxDomain
InBrackets(texts) == {<< "[" >> \o t \o << "]" >> : t \in texts}

\* What is left and right of each colon.
Splits(text) ==
    {[host |-> SubSeq(text, 1, i - 1), port |-> From(text, i + 1)] : i \in Find(text, ":")}

\* The ways to read text as a host in hosts and a port.
Readings(text, hosts, least) ==
    {s \in Splits(text) :
       s.host \in hosts /\ IsNumber(s.port) /\ Value(s.port) \in least .. MaxPort}

\* A host, or an IPv6 address in brackets, and no port.
WithoutPort(text) == IsHost(text) \/ text \in InBrackets(Ipv6Texts)

\* d is what the host, and the reading s, mean.
MeansHost(d, host) ==
    /\ host \in {d.host} \cup InBrackets({d.host})
    /\ d.type = HostType(d.host)
Means(d, s) == d.port = Value(s.port) /\ MeansHost(d, s.host)
=============================================================================
