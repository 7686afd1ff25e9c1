------------------------------ MODULE MCConfig ------------------------------
(***************************************************************************)
(* Instances of Config for TLC: one configuration that uses every section, *)
(* and every configuration that differs from it in one place.              *)
(***************************************************************************)
EXTENDS Config

MCLiterals == {"1.1.1.1"}
MCSlashed == {"/ws", "/q"}
MCSources == [p \in {"r.json"} |-> << [domain |-> << "x" >>] >>]

\* Both ends of the sixteen-bit range and their neighbours.
MCPorts == {-1, 0, 1, 65535, 65536, Wrong}

Inbound == [type |-> "mixed", tag |-> "in", listen |-> "127.0.0.1", listen_port |-> 80]
Vless == [type |-> "vless", tag |-> "v", server |-> "h", server_port |-> 443, uuid |-> "u",
          tls |-> [enabled |-> TRUE, server_name |-> "h", insecure |-> FALSE],
          transport |-> [type |-> "ws", path |-> "/ws"]]
Udp == [tag |-> "a", type |-> "udp", server |-> "1.1.1.1", server_port |-> 53]
Https == [tag |-> "b", type |-> "https", server |-> "1.1.1.1", server_port |-> 443,
          path |-> "/q", server_name |-> "h"]
DnsRule(keys) == [key \in keys |-> << "x" >>] @@ [server |-> "a"]
Base == [inbounds |-> << Inbound >>,
         outbounds |-> << [type |-> "direct", tag |-> "d"], Vless >>,
         route |-> [final |-> "d", rules |-> << [ip_cidr |-> << "c" >>, outbound |-> "v"] >>,
                    rule_set |-> << [type |-> "local", tag |-> "s", format |-> "source",
                                     path |-> "r.json"] >>],
         windows_proxy |-> [enabled |-> TRUE, addr |-> "127.0.0.1", port |-> 80],
         dns |-> [listen |-> "l", servers |-> << Udp, Https >>, final |-> "b",
                  rules |-> << DnsRule({"domain"}) >>],
         tun |-> [enable |-> FALSE], override_address |-> TRUE]

Without(o, key) == [k \in DOMAIN o \ {key} |-> o[k]]
\* An object with one of its keys missing or of the wrong type.
Damaged(o) == {Without(o, key) : key \in DOMAIN o} \cup {[o EXCEPT ![key] = Wrong] : key \in DOMAIN o}

MCRoots ==
    {Base} \cup Damaged(Base)
    \cup {[Base EXCEPT !.inbounds = << i >>] :
            i \in Damaged(Inbound) \cup {[Inbound EXCEPT !.listen_port = p] : p \in MCPorts}}
    \cup {[Base EXCEPT !.outbounds = << o >>] : o \in Damaged(Vless)}
    \cup {[Base EXCEPT !.route = r] : r \in Damaged(Base.route)}
    \cup {[Base EXCEPT !.windows_proxy = w] : w \in Damaged(Base.windows_proxy)}
    \cup {[Base EXCEPT !.dns = d] : d \in Damaged(Base.dns)}
    \cup {[Base EXCEPT !.dns.servers = << s, t >>] :
            s \in Damaged(Udp) \cup {Udp} \cup {[Udp EXCEPT !.server_port = p] : p \in MCPorts},
            t \in Damaged(Https) \cup {Https, Udp, [Https EXCEPT !.path = "q"]}}
    \cup {[Base EXCEPT !.dns.rules = << DnsRule(keys) >>] : keys \in SUBSET DnsConditions}
=============================================================================
