----------------------------- MODULE MCWorkers -----------------------------
(* An instance of Workers for TLC.                                         *)
EXTENDS Workers, TLC

CONSTANTS h1, h2
MCReqs == h1 :> 2 @@ h2 :> 1
MCSymmetry == Permutations(Threads)
=============================================================================
