------------------------------ MODULE MCBattle ------------------------------
(* A battle of two agents, and a run of its own beside it.                 *)
EXTENDS Battle

CONSTANTS k1, k2, k3, c1, c2

MCOrder == <<k1, k2>>
=============================================================================
