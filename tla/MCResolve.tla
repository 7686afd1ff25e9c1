----------------------------- MODULE MCResolve ------------------------------
(***************************************************************************)
(* Instances of Resolve for TLC.                                           *)
(***************************************************************************)
EXTENDS Resolve
=============================================================================
