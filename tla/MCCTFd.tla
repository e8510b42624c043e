------------------------------ MODULE MCCTFd ------------------------------
(* Small instances of CTFd for TLC. *)
EXTENDS CTFd, TLC

Symmetry == Permutations(Teams) \cup Permutations(Conns) \cup Permutations(Reqs)
===========================================================================
