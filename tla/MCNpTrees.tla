----------------------------- MODULE MCNpTrees -----------------------------
(***************************************************************************)
(* The trees a server may offer, side by side in one model: a synthetic    *)
(* tree (NpFile), what one file of it holds (NpFileData), and a tree of    *)
(* the host (NpUfs).  A behaviour is one of the three; the variables of    *)
(* the other two keep their first values.                                  *)
(***************************************************************************)
EXTENDS NpFileData, NpUfs

VARIABLE which

\* The first values of the parts that do not run.
TreeRests == NpFileInit /\ polite
DataRests ==
    /\ gentle = TRUE /\ wild = FALSE /\ data = EmptyFile
    /\ df = [x \in FFids |-> Closed] /\ dw = [w \in Workers |-> Resting]
UfsRests == UfsInit /\ mapped /\ ino[2].kind = "none"

MCInit ==
    \/ which = "tree" /\ NpFileInit /\ DataRests /\ UfsRests
    \/ which = "data" /\ TreeRests /\ DataInit /\ UfsRests
    \/ which = "ufs" /\ TreeRests /\ DataRests /\ UfsInit

MCNext ==
    /\ UNCHANGED which
    /\ \/ which = "tree" /\ NpFileNext /\ UNCHANGED <<dvars, uvars>>
       \/ which = "data" /\ DataNext /\ UNCHANGED <<vars, uvars>>
       \/ which = "ufs" /\ UfsNext /\ UNCHANGED <<vars, dvars>>

MCSpec == MCInit /\ [][MCNext]_<<which, vars, dvars, uvars>>

\* UFids and UNames have the values of FFids and Names.
Symmetry == Permutations(FFids) \cup Permutations(Workers) \cup Permutations(Names)
=============================================================================
