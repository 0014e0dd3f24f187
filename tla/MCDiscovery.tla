----------------------------- MODULE MCDiscovery -----------------------------
(* Model-checking instance of Discovery: addresses are interchangeable.     *)
EXTENDS Discovery, TLC

AddrSymmetry == Permutations(Addr)
=============================================================================
