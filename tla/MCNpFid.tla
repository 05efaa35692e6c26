------------------------------ MODULE MCNpFid ------------------------------
(* NpFid on small instances: see the .cfg files. *)
EXTENDS NpFid, TLC

\* Numbers, memory and requests are interchangeable: no definition chooses one.
Symmetry == Permutations(Nums) \cup Permutations(Mem) \cup Permutations(Reqs)
============================================================================
