------------------------------ MODULE MCServer ------------------------------
(* Instances of Server for TLC: connections and workers are interchangeable. *)
EXTENDS Server, TLC

MCSymmetry == Permutations(Conns) \cup Permutations(Workers)
=============================================================================
