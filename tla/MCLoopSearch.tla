---------------------------- MODULE MCLoopSearch ----------------------------
(***************************************************************************)
(* Small instances of LoopSearch: every graph of four blocks that can be   *)
(* reached, irreducible ones included, and the graphs of five blocks of    *)
(* the shape the IR builder makes: reducible, each loop entered by an      *)
(* unconditional branch, no block that loops on itself.                    *)
(***************************************************************************)
EXTENDS LoopSearch, MCGraphs

FourBlocks == OneOfEach(ReachedBut({a4}, Smaller))

Structured ==
    LET loopless == {g \in Graphs(Blocks) : \A b \in Blocks : b \notin g[b]}
    IN  {g \in OneOfEach(ReachedBut({}, loopless)) : Reducible(g) /\ EnteredByBr(g)}

MCCFGs == FourBlocks \cup Structured
=============================================================================
