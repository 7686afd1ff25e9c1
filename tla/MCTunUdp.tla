------------------------------ MODULE MCTunUdp ------------------------------
(***************************************************************************)
(* Instances of TunUdp for TLC.                                            *)
(***************************************************************************)
EXTENDS TunUdp

\* Flow keys are interchangeable in the safety runs.
KeySymmetry == Permutations(FlowKeys)
=============================================================================
