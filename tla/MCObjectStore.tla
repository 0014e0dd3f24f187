---------------------------- MODULE MCObjectStore ----------------------------
(* Model-checking instance of ObjectStore: addresses are interchangeable.   *)
EXTENDS ObjectStore, TLC

AddrSymmetry == Permutations(Addr)
=============================================================================
