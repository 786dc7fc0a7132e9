---------------------------- MODULE MCDominators ----------------------------
(***************************************************************************)
(* Small instances of Dominators: every graph of four blocks, some of them *)
(* unreachable perhaps, and every graph of five blocks that can be reached *)
(* and are all joins but the entry, which leads to one of them.            *)
(***************************************************************************)
EXTENDS Dominators, MCGraphs

FourBlocks == OneOfEach(Smaller)

FourJoins ==
    LET joined(g) == \A b \in Blocks \ {Entry} : Cardinality(PreBlocks(g, b)) >= 2
        single == {g \in Graphs(Blocks) : Cardinality(g[Entry]) = 1 /\ joined(g)}
    IN  OneOfEach(ReachedBut({}, single))

MCCFGs == FourBlocks \cup FourJoins
=============================================================================
