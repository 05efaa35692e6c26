------------------------------ MODULE MCNpConn ------------------------------
(* NpConn on small instances: see the .cfg files. *)
EXTENDS NpConn

\* Requests and workers are interchangeable: no definition chooses one.
Symmetry == Permutations(Reqs) \cup Permutations(Workers)
=============================================================================
