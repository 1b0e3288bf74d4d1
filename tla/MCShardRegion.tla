---------------------------- MODULE MCShardRegion ----------------------------
(* ShardRegion for TLC.  Node identifiers are interchangeable, so they are      *)
(* drawn in a fixed order: every behaviour is one of these up to a renaming,    *)
(* which, unlike SYMMETRY, is sound for the temporal properties too.            *)
EXTENDS ShardRegion

DrawnInOrder ==
    \A p \in Servers :
        (current[p] = NoNode /\ current'[p] # NoNode)
            => current'[p] = CHOOSE n \in Nodes : manager[n].owner = "none" /\ n \notin expired
MCSpec == Init /\ [][Next /\ DrawnInOrder]_vars /\ Fairness
=============================================================================
