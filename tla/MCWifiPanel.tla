----------------------------- MODULE MCWifiPanel -----------------------------
(* WifiPanel with interchangeable networks. *)
EXTENDS WifiPanel, TLC

Symmetry == Permutations(Ssids)
=============================================================================
