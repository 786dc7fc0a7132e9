----------------------------- MODULE LoopSearch -----------------------------
(***************************************************************************)
(* The LoopSearch pass of src/src/optimization/LoopSearch.cpp on one       *)
(* function: rounds of Tarjan's algorithm on the blocks that are left; in  *)
(* every component of two blocks or more a base is chosen, the component   *)
(* is recorded as the base's loop, and the base is taken out of the graph  *)
(* so that the next round finds the loops inside.                          *)
(*                                                                         *)
(* Nodes, successors and components live in std::unordered_set's of        *)
(* pointers, so every loop over one picks its next element freely.         *)
(***************************************************************************)
EXTENDS ControlFlow

VARIABLES
    succ,         \* the function's graph; never changes
    pc,           \* "scc": in strongly_connected_components; "loops": over its result
    nodes,        \* the blocks whose CFGNode is still in nodes
    succs,        \* CFGNode::succs
    prevs,        \* CFGNode::prevs
    index,        \* CFGNode::index, -1 when not visited
    lowlink,      \* CFGNode::lowlink
    onStack,      \* the nodes with CFGNode::onStack
    index_count,  \* index_count
    stack,        \* Tarjan's stack
    calls,        \* active calls of traverse: node n, successors still to examine
    sccs,         \* the components found in this round and not yet processed
    reserved,     \* the bases taken out
    base2loop,    \* base2loop; Null for no loop
    bb2base       \* bb2base; Null for no entry

graphVars  == <<nodes, succs, prevs>>
tarjanVars == <<index, lowlink, onStack, index_count, stack, calls>>
loopVars   == <<reserved, base2loop, bb2base>>
vars       == <<succ, pc, graphVars, tarjanVars, sccs, loopVars>>

Least(a, b) == IF a < b THEN a ELSE b
-----------------------------------------------------------------------------
\* build_cfg.
Init ==
    /\ succ \in CFGs
    /\ pc = "scc"
    /\ nodes = Blocks
    /\ succs = succ
    /\ prevs = [b \in Blocks |-> PreBlocks(succ, b)]
    /\ index = [b \in Blocks |-> -1]
    /\ lowlink = [b \in Blocks |-> -1]
    /\ onStack = {}
    /\ index_count = 0
    /\ stack = <<>>
    /\ calls = <<>>
    /\ sccs = {}
    /\ reserved = {}
    /\ base2loop = [b \in Blocks |-> {}]
    /\ bb2base = [b \in Blocks |-> Null]

(***************************************************************************)
(* strongly_connected_components and traverse.                             *)
(***************************************************************************)
\* The first lines of traverse(n), up to its loop over n->succs; below are
\* the calls that are active already.
Enter(n, below) ==
    /\ index' = [index EXCEPT ![n] = index_count]
    /\ lowlink' = [lowlink EXCEPT ![n] = index_count]
    /\ index_count' = index_count + 1
    /\ stack' = Append(stack, n)
    /\ onStack' = onStack \cup {n}
    /\ calls' = Append(below, [n |-> n, todo |-> succs[n]])

TraverseRoot ==
    /\ pc = "scc" /\ calls = <<>>
    /\ \E n \in nodes : index[n] = -1 /\ Enter(n, <<>>)
    /\ UNCHANGED <<succ, pc, graphVars, sccs, loopVars>>

Top == Last(calls)
\* The active calls once the top one has examined su.
Examined(su) == Append(Front(calls), [Top EXCEPT !.todo = @ \ {su}])

\* A successor without index is traversed first.
TraverseSuccessor ==
    /\ pc = "scc" /\ calls # <<>>
    /\ \E su \in Top.todo : index[su] = -1 /\ Enter(su, Examined(su))
    /\ UNCHANGED <<succ, pc, graphVars, sccs, loopVars>>

\* A wrong ExamineVisited, which does not ask whether su is on the stack.
ExamineVisitedAnywhere ==
    /\ pc = "scc" /\ calls # <<>>
    /\ \E su \in Top.todo :
         /\ index[su] # -1
         /\ lowlink' = [lowlink EXCEPT ![Top.n] = Least(index[su], @)]
         /\ calls' = Examined(su)
    /\ UNCHANGED <<succ, pc, graphVars, index, onStack, index_count, stack, sccs, loopVars>>

\* A visited successor lowers lowlink if it is on the stack.
ExamineVisited ==
    /\ pc = "scc" /\ calls # <<>>
    /\ \E su \in Top.todo :
         /\ index[su] # -1
         /\ lowlink' = IF su \in onStack
                       THEN [lowlink EXCEPT ![Top.n] = Least(index[su], @)] ELSE lowlink
         /\ calls' = Examined(su)
    /\ UNCHANGED <<succ, pc, graphVars, index, onStack, index_count, stack, sccs, loopVars>>

\* The tail of the stack from n on, which traverse pops.
Popped(n) == {stack[i] : i \in {j \in 1..Len(stack) :
                                   \E k \in 1..j : stack[k] = n}}
Remaining(n) == SubSeq(stack, 1, Len(stack) - Cardinality(Popped(n)))

\* traverse(n) ends: a root of a component pops it, and the caller takes
\* over n's lowlink.
Return ==
    /\ pc = "scc" /\ calls # <<>> /\ Top.todo = {}
    /\ LET n == Top.n
           isRoot == index[n] = lowlink[n]
           up == Len(calls) - 1
       IN  /\ stack' = IF isRoot THEN Remaining(n) ELSE stack
           /\ onStack' = IF isRoot THEN onStack \ Popped(n) ELSE onStack
           /\ sccs' = IF isRoot /\ Cardinality(Popped(n)) # 1
                      THEN sccs \cup {Popped(n)} ELSE sccs
           /\ lowlink' = IF up = 0 THEN lowlink
                         ELSE [lowlink EXCEPT ![calls[up].n] = Least(lowlink[n], @)]
           /\ calls' = Front(calls)
    /\ UNCHANGED <<succ, pc, graphVars, index, index_count, loopVars>>

SearchDone == pc = "scc" /\ calls = <<>> /\ \A n \in nodes : index[n] # -1

LoopsFound ==
    /\ SearchDone /\ sccs # {}
    /\ pc' = "loops"
    /\ UNCHANGED <<succ, graphVars, tarjanVars, sccs, loopVars>>

NoLoopFound ==
    /\ SearchDone /\ sccs = {}
    /\ pc' = "done"
    /\ UNCHANGED <<succ, graphVars, tarjanVars, sccs, loopVars>>

(***************************************************************************)
(* run: one component after the other.                                     *)
(***************************************************************************)
\* A wrong EnteredFromOutside: the blocks that leave the component.
LeftToOutside(scc) == {n \in scc : succs[n] \ scc # {}}

\* What find_loop_base may return: a block of the component entered from
\* outside it or, failing that, a successor of a base taken out earlier.
\* With neither it returns nullptr, which run dereferences.
EnteredFromOutside(scc) == {n \in scc : prevs[n] \ scc # {}}
AfterReserved(scc) == scc \cap UNION {succs[r] : r \in reserved}
\* A wrong BaseChoices, without the search behind the reserved bases.
BaseChoicesUnreserved(scc) == EnteredFromOutside(scc)

BaseChoices(scc) ==
    IF EnteredFromOutside(scc) # {} THEN EnteredFromOutside(scc) ELSE AfterReserved(scc)

\* A wrong ProcessLoop: bb2base.insert, which keeps the outer base.
ProcessLoopInserting ==
    /\ pc = "loops"
    /\ \E scc \in sccs : \E base \in BaseChoices(scc) :
         /\ base2loop' = [base2loop EXCEPT ![base] = scc]
         /\ bb2base' = [b \in Blocks |-> IF b \in scc /\ bb2base[b] = Null THEN base
                                                                          ELSE bb2base[b]]
         /\ reserved' = reserved \cup {base}
         /\ nodes' = nodes \ {base}
         /\ prevs' = [b \in Blocks |-> IF b \in succs[base] THEN prevs[b] \ {base} ELSE prevs[b]]
         /\ succs' = [b \in Blocks |-> IF b \in prevs'[base] THEN succs[b] \ {base} ELSE succs[b]]
         /\ sccs' = sccs \ {scc}
    /\ UNCHANGED <<succ, pc, tarjanVars>>

\* A wrong ProcessLoop, which leaves the base in the graph.
ProcessLoopKeepingBase ==
    /\ pc = "loops"
    /\ \E scc \in sccs : \E base \in BaseChoices(scc) :
         /\ base2loop' = [base2loop EXCEPT ![base] = scc]
         /\ bb2base' = [b \in Blocks |-> IF b \in scc THEN base ELSE bb2base[b]]
         /\ reserved' = reserved \cup {base}
         /\ sccs' = sccs \ {scc}
    /\ UNCHANGED <<succ, pc, graphVars, tarjanVars>>

ProcessLoop ==
    /\ pc = "loops"
    /\ \E scc \in sccs : \E base \in BaseChoices(scc) :
         /\ base2loop' = [base2loop EXCEPT ![base] = scc]
         /\ bb2base' = [b \in Blocks |-> IF b \in scc THEN base ELSE bb2base[b]]
         /\ reserved' = reserved \cup {base}
         /\ nodes' = nodes \ {base}
         /\ prevs' = [b \in Blocks |-> IF b \in succs[base] THEN prevs[b] \ {base} ELSE prevs[b]]
         /\ succs' = [b \in Blocks |-> IF b \in prevs'[base] THEN succs[b] \ {base} ELSE succs[b]]
         /\ sccs' = sccs \ {scc}
    /\ UNCHANGED <<succ, pc, tarjanVars>>

\* A wrong NextRound, which resets index_count with the indices.
NextRoundFromMinusOne ==
    /\ pc = "loops" /\ sccs = {}
    /\ pc' = "scc"
    /\ index' = [b \in Blocks |-> IF b \in nodes THEN -1 ELSE index[b]]
    /\ lowlink' = [b \in Blocks |-> IF b \in nodes THEN -1 ELSE lowlink[b]]
    /\ onStack' = onStack \ nodes
    /\ index_count' = -1
    /\ stack' = <<>>
    /\ UNCHANGED <<succ, graphVars, calls, sccs, loopVars>>

\* The round is over: indices are reset for the next one.
NextRound ==
    /\ pc = "loops" /\ sccs = {}
    /\ pc' = "scc"
    /\ index' = [b \in Blocks |-> IF b \in nodes THEN -1 ELSE index[b]]
    /\ lowlink' = [b \in Blocks |-> IF b \in nodes THEN -1 ELSE lowlink[b]]
    /\ onStack' = onStack \ nodes
    /\ index_count' = 0
    /\ stack' = <<>>
    /\ UNCHANGED <<succ, graphVars, calls, sccs, loopVars>>

Done == pc = "done" /\ UNCHANGED vars

Next ==
    \/ TraverseRoot \/ TraverseSuccessor \/ ExamineVisited \/ Return
    \/ LoopsFound \/ NoLoopFound \/ ProcessLoop \/ NextRound \/ Done

Spec == Init /\ [][Next]_vars
FairSpec == Spec /\ WF_vars(Next)

(***************************************************************************)
(* What the pass answers its users.                                        *)
(***************************************************************************)
Bases == {b \in Blocks : base2loop[b] # {}}

get_inner_loop(b) == IF bb2base[b] = Null THEN {} ELSE base2loop[bb2base[b]]

\* A wrong get_parent_loop, which may ask a latch.
parent_loop_by_any_pred(base) ==
    LET answer(p) == IF base \in get_inner_loop(p) THEN get_inner_loop(p) ELSE {}
    IN  {answer(p) : p \in PreBlocks(succ, base)}

\* The possible results for the loop of base, {} for nullptr: the answer comes
\* from the first predecessor of base outside the loop, in list order.
get_parent_loop(base) ==
    LET outside == PreBlocks(succ, base) \ base2loop[base]
        answer(p) == IF base \in get_inner_loop(p) THEN get_inner_loop(p) ELSE {}
    IN  IF outside = {} THEN {{}} ELSE {answer(p) : p \in outside}
-----------------------------------------------------------------------------
TypeOK ==
    /\ succ \in CFGs
    /\ pc \in {"scc", "loops", "done"}
    /\ nodes \subseteq Blocks /\ onStack \subseteq Blocks /\ reserved \subseteq Blocks
    /\ succs \in [Blocks -> SUBSET Blocks] /\ prevs \in [Blocks -> SUBSET Blocks]
    /\ index_count \in Nat
    /\ index \in [Blocks -> Nat \cup {-1}] /\ lowlink \in [Blocks -> Nat \cup {-1}]
    /\ stack \in Seq(Blocks)
    /\ calls \in Seq([n : Blocks, todo : SUBSET Blocks])
    /\ sccs \subseteq SUBSET Blocks
    /\ base2loop \in [Blocks -> SUBSET Blocks]
    /\ bb2base \in [Blocks -> Blocks \cup {Null}]

\* Without the edges to a dominator the graph has no cycle.
Reducible(g) ==
    LET forward == [a \in Blocks |-> {b \in g[a] : ~Dominates(g, b, a)}]
    IN  \A b \in Blocks : ~Path(forward, Blocks, b, b)

\* A loop is entered by unconditional branches only, as ASTIterationStmt
\* enters its condition block.
EnteredByBr(g) ==
    \A h \in Headers(g) : \A p \in PreBlocks(g, h) \ NaturalLoop(g, h) : g[p] = {h}

\* The innermost of the loops found that satisfy P.
Smallest(loops) ==
    IF loops = {} THEN {} ELSE CHOOSE l \in loops : \A m \in loops : l \subseteq m
-----------------------------------------------------------------------------
(***************************************************************************)
(* Properties.                                                             *)
(***************************************************************************)

\* Each search ends with exactly the components of two blocks or more of what
\* is left of the graph, whatever the order of roots and successors: traverse
\* neither merges, splits nor loses one.
SearchFindsComponents == SearchDone => sccs = Components(succs, nodes)

\* A component always has a block to be its base: find_loop_base never returns
\* the nullptr that run would dereference, although the bases taken out before
\* no longer count as entering it.
BaseExists == pc = "loops" => \A scc \in sccs : BaseChoices(scc) # {}

\* On a reducible graph the loops found are the natural loops, base and all.
FindsNaturalLoops ==
    pc = "done" /\ Reducible(succ) =>
        \A b \in Blocks : base2loop[b] = IF b \in Headers(succ) THEN NaturalLoop(succ, b) ELSE {}

\* On any graph two loops are disjoint or nested, and get_inner_loop is the
\* innermost loop around a block although bb2base is overwritten round after
\* round.
InnerLoopIsInnermost ==
    pc = "done" =>
        /\ \A a, b \in Bases : \/ base2loop[a] \cap base2loop[b] = {}
                               \/ base2loop[a] \subseteq base2loop[b]
                               \/ base2loop[b] \subseteq base2loop[a]
        /\ \A b \in Blocks :
             get_inner_loop(b) = Smallest({base2loop[a] : a \in Bases} \cap
                                          {l \in SUBSET Blocks : b \in l})

\* get_parent_loop, which LoopInvHoist climbs to hoist out of nested loops,
\* names the next loop around, whichever predecessor it looks at first.
ParentLoopIsNextAround ==
    pc = "done" /\ Reducible(succ) /\ EnteredByBr(succ) =>
        \A h \in Bases :
            get_parent_loop(h) =
                {Smallest({base2loop[a] : a \in {x \in Bases \ {h} :
                                          base2loop[h] \subseteq base2loop[x]}})}

\* The rounds end: each takes at least one block out of the graph.
Terminates == <>(pc = "done")
=============================================================================
