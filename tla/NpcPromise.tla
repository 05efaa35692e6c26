----------------------------- MODULE NpcPromise -----------------------------
(***************************************************************************)
(* What the client library promises whoever makes a call: the call is      *)
(* answered at most once, with the reply to the message it sent or with an *)
(* error, and not before it was made.                                      *)
(***************************************************************************)
CONSTANTS Slots,     \* places for a call: npc_rpc's r, npc_readnb's calls[i]
          Groups,    \* the places whose answers are taken together
          Messages,  \* what is sent
          None,      \* nothing yet
          Error      \* an answer that is no reply

VARIABLE place       \* the call in each place

Calls == [st : {"idle", "asked", "answered"},
          m : Messages \cup {None},
          got : Messages \cup {None, Error},   \* whose reply it got
          out : {"ok", "short", "err"}]       \* and what it said

NoCall == [st |-> "idle", m |-> None, got |-> None, out |-> "ok"]

Init == place = [s \in Slots |-> NoCall]

Ask(s) ==
    /\ place[s].st = "idle"
    /\ place'[s].m \in Messages
    /\ place' = [place EXCEPT ![s] = [NoCall EXCEPT !.st = "asked", !.m = place'[s].m]]

Answer(s) ==
    /\ place[s].st = "asked"
    /\ \E a \in {place[s].m, Error}, out \in {"ok", "short", "err"} :
         /\ a = Error => out = "err"
         /\ place' = [place EXCEPT ![s].st = "answered", ![s].got = a, ![s].out = out]

\* The answers of a group are taken when all are there, or with the last.
Take(S) ==
    /\ \A x, y \in S : x # y => "answered" \in {place[x].st, place[y].st}
    /\ \A x \in S : place[x].st # "idle"
    /\ place' = [x \in Slots |-> IF x \in S THEN NoCall ELSE place[x]]

Next ==
    \/ \E s \in Slots : Ask(s) \/ Answer(s)
    \/ \E S \in Groups : Take(S)

Spec == Init /\ [][Next]_place
=============================================================================
