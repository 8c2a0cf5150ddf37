---------------------------- MODULE MCThreadPool ----------------------------
(* Instances of ThreadPool for TLC; the constants are in the .cfg files.   *)
(* No symmetry: liveness is checked with the invariants in one run.        *)
EXTENDS ThreadPool
=============================================================================
