------------------------------ MODULE MCTunTcp ------------------------------
(***************************************************************************)
(* Instances of TunTcp for TLC.                                            *)
(***************************************************************************)
EXTENDS TunTcp

\* Flow keys are interchangeable.
KeySymmetry == Permutations(FlowKeys)
=============================================================================
