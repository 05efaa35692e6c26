------------------------------ MODULE MCNpReq ------------------------------
(* NpReq on small instances: see the .cfg files. *)
EXTENDS NpReq

\* Requests' memory and the workers are interchangeable: no definition
\* chooses one.
Symmetry == Permutations(Obj) \cup Permutations(Workers)
============================================================================
