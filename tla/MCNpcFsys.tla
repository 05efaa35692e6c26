----------------------------- MODULE MCNpcFsys -----------------------------
(* NpcFsys on a small instance: see the .cfg file. *)
EXTENDS NpcFsys
CONSTANTS c1, c2

\* One of the two threads reads in two parts with npc_readnb.
MCParts == [c \in {c1, c2} |-> IF c = c1 THEN 2 ELSE 0]
=============================================================================
