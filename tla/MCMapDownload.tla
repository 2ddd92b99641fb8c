--------------------------- MODULE MCMapDownload ----------------------------
(* Finite instances of MapDownloadVerdict for TLC. *)
EXTENDS MapDownloadVerdict, TLC

(* Threads, maps and heap addresses are interchangeable. *)
Symmetry == Permutations(Workers) \union Permutations(Maps) \union Permutations(Elements)
=============================================================================
