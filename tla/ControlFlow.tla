---------------------------- MODULE ControlFlow ----------------------------
(***************************************************************************)
(* The control-flow graph of a function, as the passes see it through      *)
(* BasicBlock's successor and predecessor lists, and the textbook notions  *)
(* the passes are checked against.  A graph g maps each block to the set   *)
(* of its successors; lists keep the order in which branches were made,    *)
(* which no notion below depends on.                                       *)
(*                                                                         *)
(* Paths are described by the sets of blocks closed under g, so that every *)
(* definition is a formula without recursion.                              *)
(***************************************************************************)
EXTENDS Integers, Sequences, FiniteSets, SequencesExt

CONSTANTS
    Blocks,   \* the basic blocks of the function
    Entry,    \* f->get_entry_block()
    Null,     \* nullptr
    CFGs      \* the graphs considered

\* The entry block is made before any branch and no branch targets it.
ASSUME BlocksAssumption ==
    /\ IsFiniteSet(Blocks)
    /\ Entry \in Blocks
    /\ Null \notin Blocks
    /\ CFGs \subseteq [Blocks -> SUBSET (Blocks \ {Entry})]

\* get_pre_basic_blocks() of b.
PreBlocks(g, b) == {a \in Blocks : b \in g[a]}

\* b is reachable from the entry: it is in every closed set that holds Entry.
IsReachable(g, b) ==
    \A S \in SUBSET Blocks :
        Entry \in S /\ (\A s \in S : g[s] \subseteq S) => b \in S

\* Every path from the entry to b passes a: a set without b holds the entry
\* and is closed under the edges that do not enter a.
Dominates(g, a, b) ==
    \/ a = b \/ a = Entry
    \/ \E S \in SUBSET (Blocks \ {a, b}) :
            Entry \in S /\ \A s \in S : g[s] \subseteq S \cup {a}

StrictlyDominates(g, a, b) == a # b /\ Dominates(g, a, b)

\* t can be reached from s by one edge or more inside the blocks N.
Path(g, N, s, t) ==
    \A S \in SUBSET N :
        g[s] \cap N \subseteq S /\ (\A x \in S : g[x] \cap N \subseteq S) => t \in S

\* The strongly connected components of two blocks or more of g inside N.
Components(g, N) ==
    {C \in {{b \in N : b = a \/ (Path(g, N, a, b) /\ Path(g, N, b, a))} : a \in N} :
        Cardinality(C) > 1}

\* Natural loops: a header, with the blocks that reach one of its latches
\* without passing it.
Latches(g, h) == {n \in PreBlocks(g, h) \ {h} : Dominates(g, h, n)}
Headers(g) == {h \in Blocks : Latches(g, h) # {}}

NaturalLoop(g, h) ==
    {h} \cup {b \in Blocks \ {h} :
                 \E n \in Latches(g, h) : b = n \/ Path(g, Blocks \ {h}, b, n)}
=============================================================================
