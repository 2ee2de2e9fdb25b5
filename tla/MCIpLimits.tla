----------------------------- MODULE MCIpLimits -----------------------------
(* Addresses are interchangeable in IpLimits.                              *)
EXTENDS IpLimits, TLC

Symmetry == Permutations(Ips)
=============================================================================
