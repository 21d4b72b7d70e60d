---------------------------- MODULE MCPrintStatus ----------------------------
(* PrintStatus on a small instance: files and parts are interchangeable. *)
EXTENDS PrintStatus, TLC

Symmetry == Permutations(Files) \cup Permutations(Parts)
=============================================================================
