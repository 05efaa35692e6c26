----------------------------- MODULE NpFidList -----------------------------
(***************************************************************************)
(* NpFid with a thread that takes a checkpoint of the connection: it lists *)
(* the pool with a reference on every fid, reads the fids, and gives the   *)
(* references up (conn.c, fidpool.c, libufs/ufs.c).                        *)
(***************************************************************************)
EXTENDS NpFid

VARIABLE listed  \* the fids np_conn_list_fids has handed out

listVars == <<vars, listed>>

\* np_conn_list_fids, np_fidpool_list: under conn->lock, which none of the
\* handlers takes.
np_conn_list_fids ==
    /\ listed = {}
    /\ listed' = {pool[n] : n \in Nums} \ {None}
    /\ refs' = [f \in Mem |-> IF f \in listed' THEN refs[f] + 1 ELSE refs[f]]
    /\ UNCHANGED <<pool, live, type, omode, user, rq, granted>>

\* ufs_checkpoint has serialized the fids and gives up the last one.
ufs_checkpoint ==
    \E f \in listed :
      /\ listed' = listed \ {f}
      /\ np_fid_decref(f)
      /\ IF Zero(f) = None
         THEN UNCHANGED <<pool, live>>
         ELSE /\ pool' = [n \in Nums |-> IF pool[n] = f THEN None ELSE pool[n]]
              /\ live' = live \ {f}
      /\ UNCHANGED <<type, omode, user, rq, granted>>

ListInit == Init /\ listed = {}

ListNext ==
    \/ Next /\ UNCHANGED listed
    \/ np_conn_list_fids
    \/ ufs_checkpoint

ListSpec == ListInit /\ [][ListNext]_listVars

(***************************************************************************)
(* ufs_checkpoint's assert(fid->user != NULL): a fid the pool hands out is *)
(* fully constructed.                                                      *)
(***************************************************************************)
ListedConstructed == \A f \in listed : user[f]
============================================================================
