------------------------------ MODULE Address -------------------------------
(***************************************************************************)
(* The names a Host can hold (core/address.cpp).  A name that comes from a *)
(* DNS message, a request or a configuration may be any text.              *)
(***************************************************************************)
EXTENDS Integers, Sequences

CONSTANT MaxDomain      \* the longest domain, in characters (255)

ASSUME AddressAssumption == MaxDomain \in Nat

\* The constructor of DomainName, which Host::domain and Host::parse call,
\* refuses the empty name and one that is too long.
DomainThrows(text) == text = << >> \/ Len(text) > MaxDomain
=============================================================================
