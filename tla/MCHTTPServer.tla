---------------------------- MODULE MCHTTPServer ----------------------------
(* Finite instances of HTTPServerVerdict for TLC. *)
EXTENDS HTTPServerVerdict, TLC

(* Threads, addresses and heap nodes are interchangeable. *)
Symmetry == Permutations(Workers) \union Permutations(IPs) \union Permutations(Nodes)
=============================================================================
