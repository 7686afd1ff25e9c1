---------------------------- MODULE MCDnsInbound ----------------------------
(***************************************************************************)
(* Instances of DnsInbound for TLC.                                        *)
(***************************************************************************)
EXTENDS DnsInbound
=============================================================================
