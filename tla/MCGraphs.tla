------------------------------ MODULE MCGraphs ------------------------------
(***************************************************************************)
(* Small graphs for the analyses.  A block ends in ret, br or a            *)
(* conditional br with two targets, and none leads to the entry.           *)
(***************************************************************************)
EXTENDS ControlFlow, TLC

CONSTANT a4    \* one of the blocks

Graphs(S) == [S -> {T \in SUBSET (S \ {Entry}) : Cardinality(T) <= 2}]

\* The graphs of four blocks, beside a block that is nowhere named.
Smaller == {[b \in Blocks |-> IF b = a4 THEN {} ELSE g[b]] : g \in Graphs(Blocks \ {a4})}

\* The graphs of S in which every block but those of U can be reached.
ReachedBut(U, S) ==
    {g \in S : \A T \in SUBSET Blocks :
        Entry \in T /\ (\A b \in T : g[b] \subseteq T) => Blocks \ U \subseteq T}

\* g with its blocks named otherwise.
Renamed(g, p) ==
    [b \in Blocks |-> LET old == CHOOSE c \in Blocks : p[c] = b IN {p[c] : c \in g[old]}]

\* One of the graphs of S for each way they can look, whatever the names.
OneOfEach(S) ==
    LET perms == {[b \in Blocks |-> IF b = Entry THEN Entry ELSE p[b]] :
                     p \in Permutations(Blocks \ {Entry})}
    IN  {CHOOSE h \in {Renamed(g, p) : p \in perms} : TRUE : g \in S}
=============================================================================
