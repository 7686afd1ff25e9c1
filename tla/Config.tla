------------------------------- MODULE Config -------------------------------
(***************************************************************************)
(* What stands between config.json and a running program: load_config      *)
(* (config/config.cpp) with the getters of common/json_common.cpp, section *)
(* by section, and the constructors of Router (route/router.cpp, which     *)
(* loads the rule sets) and of DnsServer (dns/dns.cpp), which check the    *)
(* configuration once more.  A JSON object is a function from the keys it  *)
(* has to their values; Wrong is a value of a JSON type not asked for.     *)
(* A condition of a rule is a sequence; a lone string is one of length 1.  *)
(***************************************************************************)
EXTENDS Integers, SequencesExt

CONSTANTS
    Wrong,      \* a JSON value of another type than the program expects
    Roots,      \* the objects config.json may contain
    Sources,    \* the readable rule-set files: a function from path to rules
    Literals,   \* the texts that is_ip_literal accepts
    Slashed     \* the texts that start with a slash

VARIABLES
    root,       \* the object in config.json
    pc,         \* the next section or constructor, or how start-up ended
    config      \* what load_config has read so far

vars == << root, pc, config >>

Init ==
    /\ root \in Roots
    /\ pc = "inbounds"
    /\ config = << >>

-----------------------------------------------------------------------------
\* The getters.  get_bool accepts like get_string, another JSON type.
Has(o, key) == key \in DOMAIN o /\ o[key] # Wrong
Lacks(o, keys) == \E key \in keys : ~Has(o, key)

\* get_u16: only the upper bound is tested; the cast keeps sixteen bits.
get_u16_throws(o, key) == ~Has(o, key) \/ o[key] > 65535
get_u16(o, key) == o[key] % 65536

\* Anything that is neither a string nor an array counts as no condition;
\* an item of the array that is no string makes as_string throw.
get_string_array(o, key) == IF Has(o, key) THEN o[key] ELSE << >>
ArrayThrows(o, keys) == \E key \in keys : Contains(get_string_array(o, key), Wrong)

DnsConditions == {"domain", "domain_suffix", "domain_keyword", "rule_set"}
RouteConditions == DnsConditions \cup {"ip_cidr"}
NoCondition(rule, keys) == \A key \in keys : get_string_array(rule, key) = << >>

\* The array under a key that may be missing or of another type.
Items(o, key) == IF Has(o, key) THEN o[key] ELSE << >>
SomeItem(items, Bad(_)) == \E i \in DOMAIN items : items[i] = Wrong \/ Bad(items[i])
Each(items, Read(_)) == [i \in DOMAIN items |-> Read(items[i])]

\* One section: throw, or store what was read and go on.
Section(at, throws, read, next) ==
    /\ pc = at
    /\ IF throws THEN pc' = "refused" /\ UNCHANGED config
                 ELSE pc' = next /\ config' = config @@ read
    /\ UNCHANGED root

-----------------------------------------------------------------------------
(* load_config *)

InboundThrows(o) == Lacks(o, {"type", "tag", "listen"}) \/ get_u16_throws(o, "listen_port")
ReadInbound(o) == [o EXCEPT !.listen_port = get_u16(o, "listen_port")]

LoadInbounds ==
    LET inbounds == Items(root, "inbounds")
    IN  Section("inbounds", SomeItem(inbounds, InboundThrows),
                [inbounds |-> Each(inbounds, ReadInbound)], "outbounds")

\* Only a vless outbound has more fields than type and tag.
TlsThrows(o) ==
    \/ Lacks(o.tls, {"enabled"})
    \/ o.tls.enabled /\ Lacks(o.tls, {"server_name", "insecure"})
OutboundThrows(o) ==
    \/ Lacks(o, {"type", "tag"})
    \/ /\ o.type = "vless"
       /\ \/ Lacks(o, {"server", "uuid"}) \/ get_u16_throws(o, "server_port")
          \/ Has(o, "tls") /\ TlsThrows(o)
          \/ Has(o, "transport") /\ Lacks(o.transport, {"type", "path"})
ReadOutbound(o) ==
    IF o.type = "vless" THEN [o EXCEPT !.server_port = get_u16(o, "server_port")]
    ELSE [type |-> o.type, tag |-> o.tag]

\* Without an array of outbounds as_array throws.
LoadOutbounds ==
    Section("outbounds",
            ~Has(root, "outbounds") \/ SomeItem(root.outbounds, OutboundThrows),
            [outbounds |-> Each(root.outbounds, ReadOutbound)], "route")

RuleSetThrows(o) == Lacks(o, {"type", "tag", "format", "path"})
RouteRuleThrows(o) ==
    \/ ArrayThrows(o, RouteConditions)
    \/ NoCondition(o, RouteConditions)
    \/ Lacks(o, {"outbound"})
Same(o) == o

LoadRoute ==
    Section("route",
            \/ ~Has(root, "route")
            \/ Lacks(root.route, {"final"})
            \/ SomeItem(Items(root.route, "rule_set"), RuleSetThrows)
            \/ SomeItem(Items(root.route, "rules"), RouteRuleThrows),
            [final_outbound |-> root.route.final,
             rule_sets |-> Each(Items(root.route, "rule_set"), Same),
             rules |-> Each(Items(root.route, "rules"), Same)], "windows_proxy")

\* Address and port are read only when the proxy setting is enabled.  Without
\* the section nothing is assigned to enabled, which AppConfig does not
\* initialise: main then reads either value.
LoadWindowsProxy ==
    LET wp == root.windows_proxy
        given == Has(root, "windows_proxy")
    IN  \E enabled \in IF given THEN {~Lacks(wp, {"enabled"}) /\ wp.enabled} ELSE BOOLEAN :
            Section("windows_proxy",
                    given /\ \/ Lacks(wp, {"enabled"})
                             \/ enabled /\ (Lacks(wp, {"addr"}) \/ get_u16_throws(wp, "port")),
                    [proxy |-> enabled,
                     proxy_port |-> IF given /\ enabled THEN get_u16(wp, "port") ELSE 0], "dns")

Types == {"udp", "tcp", "tls", "https"}
Secure == {"tls", "https"}

\* The duplicate test comes before the test of the type; the order only
\* decides the text of the error.
DnsServerThrows(o) ==
    \/ Lacks(o, {"tag", "type", "server"}) \/ get_u16_throws(o, "server_port")
    \/ o.type \notin Types
    \/ o.type = "https" /\ (Lacks(o, {"path"}) \/ o.path \notin Slashed)
    \/ o.type \in Secure /\ "server_name" \in DOMAIN o /\ o.server_name = Wrong
\* A server_name is read for tls and https only, a path for https only.
ReadDnsServer(o) ==
    [tag |-> o.tag, type |-> o.type, server |-> o.server,
     server_port |-> get_u16(o, "server_port"),
     path |-> IF o.type = "https" THEN o.path ELSE "",
     server_name |-> IF o.type \in Secure /\ "server_name" \in DOMAIN o
                     THEN o.server_name ELSE ""]
Tags(servers) == {servers[i].tag : i \in DOMAIN servers}
Duplicates(servers) == \E i, j \in DOMAIN servers : i # j /\ servers[i].tag = servers[j].tag
DnsRuleThrows(o) ==
    \/ ArrayThrows(o, DnsConditions)
    \/ Lacks(o, {"server"})
    \/ NoCondition(o, DnsConditions)

DnsThrows(dns) ==
    \/ "listen" \in DOMAIN dns /\ dns.listen = Wrong
    \/ ~Has(dns, "servers") \/ dns.servers = << >>
    \/ SomeItem(dns.servers, DnsServerThrows)
    \/ Duplicates(dns.servers)
    \/ "rules" \in DOMAIN dns /\ dns.rules = Wrong
    \/ SomeItem(Items(dns, "rules"), DnsRuleThrows)
    \/ \E i \in DOMAIN Items(dns, "rules") : dns.rules[i].server \notin Tags(dns.servers)
    \/ Lacks(dns, {"final"}) \/ dns.final \notin Tags(dns.servers)

LoadDns ==
    Section("dns", ~Has(root, "dns") \/ DnsThrows(root.dns),
            [listen |-> Has(root.dns, "listen"),
             servers |-> Each(root.dns.servers, ReadDnsServer),
             dns_rules |-> Each(Items(root.dns, "rules"), Same),
             final |-> root.dns.final], "tun")

LoadTun ==
    Section("tun",
            Has(root, "tun") /\
                \/ Lacks(root.tun, {"enable"})
                \/ root.tun.enable /\ Lacks(root.tun, {"tun_ip", "tun_next_ip"}),
            [override_address |-> Has(root, "override_address") /\ root.override_address,
             tun |-> Has(root, "tun") /\ root.tun.enable], "router")

-----------------------------------------------------------------------------
(* The constructors main calls next *)

\* RuleSet::load_source: an unreadable file, or a rule in it without a
\* condition; rule_set is not among the conditions it reads.
SourceConditions == RouteConditions \ {"rule_set"}
SourceRuleThrows(o) == ArrayThrows(o, SourceConditions) \/ NoCondition(o, SourceConditions)
load_source_throws(path) ==
    path \notin DOMAIN Sources \/ SomeItem(Sources[path], SourceRuleThrows)

\* Router::Router.
ConstructRouter ==
    /\ pc = "router"
    /\ pc' = IF \E i \in DOMAIN config.rule_sets :
                    LET set == config.rule_sets[i]
                    IN  \/ set.type # "local" \/ set.format # "source"
                        \/ set.path = "" \/ load_source_throws(set.path)
             THEN "refused" ELSE "dns_server"
    /\ UNCHANGED << root, config >>

\* DnsServer::DnsServer, what it tests of each server ...
ServerRefused(s) ==
    \/ s.tag = "" \/ s.server \notin Literals \/ s.server_port = 0
    \/ s.type \notin Types
    \/ (s.type \in Secure) # (s.server_name # "")
    \/ s.type = "https" /\ s.path \notin Slashed
\* ... and of the rules, one after the other: it throws "dns rule must not be
\* null" when all four lists are non-empty, then looks the server up.
AllConditions(rule) == \A key \in DnsConditions : get_string_array(rule, key) # << >>
find_nameserver_throws(tag) == tag \notin Tags(config.servers)
FirstBadRule(rules) ==
    SelectInSeq(rules, LAMBDA r : AllConditions(r) \/ find_nameserver_throws(r.server))

ConstructDnsServer ==
    /\ pc = "dns_server"
    /\ LET bad == FirstBadRule(config.dns_rules)
       IN  pc' = CASE \/ config.servers = << >>
                      \/ SomeItem(config.servers, ServerRefused)
                      \/ Duplicates(config.servers)
                      \/ find_nameserver_throws(config.final) -> "refused"
                   [] OTHER -> IF bad = 0 THEN "running"
                               ELSE IF AllConditions(config.dns_rules[bad])
                                    THEN "null_rule" ELSE "refused"
    /\ UNCHANGED << root, config >>

Next ==
    \/ LoadInbounds \/ LoadOutbounds \/ LoadRoute \/ LoadWindowsProxy \/ LoadDns \/ LoadTun
    \/ ConstructRouter \/ ConstructDnsServer

-----------------------------------------------------------------------------
\* What the error text of get_u16 says, "need u16": a number that is no
\* uint16 is refused, so a program that starts uses the ports as written.
PortsAreAsWritten ==
    pc = "running" =>
        /\ \A i \in DOMAIN config.inbounds :
              config.inbounds[i].listen_port = root.inbounds[i].listen_port
        /\ \A i \in DOMAIN config.servers :
              config.servers[i].server_port = root.dns.servers[i].server_port

\* What the error text of the constructor says, "dns rule must not be null":
\* it throws for a rule without conditions, so never when all rules have some.
OnlyNullRulesRefused ==
    pc = "null_rule" =>
        \E i \in DOMAIN config.dns_rules : NoCondition(config.dns_rules[i], DnsConditions)
=============================================================================
