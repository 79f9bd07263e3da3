------------------------- MODULE MCConnectionPolicy -------------------------
(* Instantiates ConnectionPolicy for root (uid 0) and one user (uid 1),   *)
(* each with and without supplementary groups 0 and 1.                    *)
EXTENDS ConnectionPolicy

MCIds == {0, 1}

(* Every peer with uid and groups drawn from MCIds. *)
MCPeers == [uid : MCIds, gids : SUBSET MCIds]

MCPriorities == 1..3

(* The priorities with 0, the neutral decision's, added. *)
MCPrioritiesFromZero == 0..3
=============================================================================
