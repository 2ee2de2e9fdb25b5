------------------------------ MODULE MCRelay ------------------------------
(* Publishers are interchangeable in Relay.                                *)
EXTENDS Relay, TLC

Symmetry == Permutations(Publishers)
=============================================================================
