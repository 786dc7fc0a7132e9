----------------------------- MODULE Dominators -----------------------------
(***************************************************************************)
(* The Dominators analysis of src/src/optimization/Dominators.cpp on the   *)
(* control-flow graph of one function: the depth-first walk that numbers   *)
(* the blocks, the Cooper-Harvey-Kennedy iteration for immediate           *)
(* dominators, the dominance frontiers and the dominator tree.             *)
(*                                                                         *)
(* succ[b] is a set.  The code walks succ_bbs_ and pre_bbs_ in list order, *)
(* which is the order in which the branches were created; every order is   *)
(* possible, so a loop over such a list picks its next element freely.     *)
(* The blocks of a function are listed in creation order, which is         *)
(* unrelated to the graph, so a loop over them picks freely too.           *)
(***************************************************************************)
EXTENDS ControlFlow

VARIABLES
    succ,                 \* succ_bbs_ of each block; never changes
    pc,                   \* the loop the analysis is in
    visited,              \* the walk's visited set
    stack,                \* the blocks of post_order_visit's active calls
    reverse_post_order,   \* reverse_post_order_: post order until reversed
    post_order_id,        \* post_order_id_; a missing key reads as 0
    idom,                 \* idom_; a missing key (nullptr too) reads as nullptr
    changed,              \* create_idom's changed
    pos,                  \* place in reverse_post_order of the current pass
    rest,                 \* the predecessors the current block has yet to fold in
    new_idom,             \* create_idom's new_idom, and intersect's b2
    b1,                   \* intersect's b1
    todo,                 \* blocks the current loop over the block list has left
    joinPreds,            \* predecessors the current join block has left
    bb,                   \* the join block whose frontiers are being computed
    runner,               \* create_dominance_frontier's runner
    dom_frontier,         \* dom_frontier_
    dom_tree_succ         \* dom_tree_succ_blocks_

dfsVars  == <<visited, stack, reverse_post_order, post_order_id>>
idomVars == <<idom, changed, pos, rest, new_idom, b1>>
dfVars   == <<todo, joinPreds, bb, runner, dom_frontier>>
vars     == <<succ, pc, dfsVars, idomVars, dfVars, dom_tree_succ>>

MaybeBlock == Blocks \cup {Null}
Pre(b) == PreBlocks(succ, b)
\* A wrong Joins, of three predecessors or more.
JoinsOfThree == {b \in Blocks : Cardinality(Pre(b)) >= 3}

Joins == {b \in Blocks : Cardinality(Pre(b)) >= 2}
Finished == Range(reverse_post_order)
-----------------------------------------------------------------------------
Init ==
    /\ succ \in CFGs
    /\ pc = "post_order_visit"
    /\ visited = {Entry}
    /\ stack = <<Entry>>
    /\ reverse_post_order = <<>>
    /\ post_order_id = [b \in Blocks |-> 0]
    /\ idom = [b \in MaybeBlock |-> Null]
    /\ changed = FALSE
    /\ pos = 1
    /\ rest = {}
    /\ new_idom = Null
    /\ b1 = Null
    /\ todo = {}
    /\ joinPreds = {}
    /\ bb = Null
    /\ runner = Null
    /\ dom_frontier = [b \in MaybeBlock |-> {}]
    /\ dom_tree_succ = [b \in MaybeBlock |-> {}]

(***************************************************************************)
(* create_reverse_post_order.                                              *)
(***************************************************************************)

\* post_order_visit(bb) meets a successor no call has visited and recurses.
VisitSuccessor ==
    /\ pc = "post_order_visit" /\ stack # <<>>
    /\ \E b \in succ[Last(stack)] \ visited :
         /\ visited' = visited \cup {b}
         /\ stack' = Append(stack, b)
    /\ UNCHANGED <<succ, pc, reverse_post_order, post_order_id, idomVars, dfVars,
                   dom_tree_succ>>

\* A wrong FinishVisit, which counts the blocks from -1.
FinishVisitFromMinusOne ==
    /\ pc = "post_order_visit" /\ stack # <<>>
    /\ succ[Last(stack)] \subseteq visited
    /\ post_order_id' = [post_order_id EXCEPT ![Last(stack)] = Len(reverse_post_order) - 1]
    /\ reverse_post_order' = Append(reverse_post_order, Last(stack))
    /\ stack' = Front(stack)
    /\ UNCHANGED <<succ, pc, visited, idomVars, dfVars, dom_tree_succ>>

\* All successors are visited: the block gets its number and the call returns.
FinishVisit ==
    /\ pc = "post_order_visit" /\ stack # <<>>
    /\ succ[Last(stack)] \subseteq visited
    /\ post_order_id' = [post_order_id EXCEPT ![Last(stack)] = Len(reverse_post_order)]
    /\ reverse_post_order' = Append(reverse_post_order, Last(stack))
    /\ stack' = Front(stack)
    /\ UNCHANGED <<succ, pc, visited, idomVars, dfVars, dom_tree_succ>>

\* A wrong StartIdom, which forgets reverse().
StartIdomInPostOrder ==
    /\ pc = "post_order_visit" /\ stack = <<>>
    /\ pc' = "create_idom"
    /\ idom' = [b \in MaybeBlock |-> IF b = Entry THEN Entry ELSE Null]
    /\ changed' = FALSE
    /\ pos' = 1
    /\ UNCHANGED <<succ, visited, stack, reverse_post_order, post_order_id, rest, new_idom,
                   b1, dfVars, dom_tree_succ>>

\* reverse_post_order_.reverse(), then create_idom resets every idom.
StartIdom ==
    /\ pc = "post_order_visit" /\ stack = <<>>
    /\ pc' = "create_idom"
    /\ reverse_post_order' = Reverse(reverse_post_order)
    /\ idom' = [b \in MaybeBlock |-> IF b = Entry THEN Entry ELSE Null]
    /\ changed' = FALSE
    /\ pos' = 1
    /\ UNCHANGED <<succ, visited, stack, post_order_id, rest, new_idom, b1, dfVars,
                   dom_tree_succ>>

(***************************************************************************)
(* create_idom and intersect.                                              *)
(***************************************************************************)
Current == reverse_post_order[pos]
\* A wrong PredsWithIdom, which takes predecessors without idom too.
AllPreds(b) == Pre(b)

PredsWithIdom(b) == {p \in Pre(b) : idom[p] # Null}

SkipRoot ==
    /\ pc = "create_idom" /\ pos <= Len(reverse_post_order) /\ Current = Entry
    /\ pos' = pos + 1
    /\ UNCHANGED <<succ, pc, dfsVars, idom, changed, rest, new_idom, b1, dfVars,
                   dom_tree_succ>>

\* A wrong PickPred, which leaves the other predecessors out.
PickOnlyPred ==
    /\ pc = "create_idom" /\ pos <= Len(reverse_post_order) /\ Current # Entry
    /\ new_idom' \in PredsWithIdom(Current)
    /\ rest' = {}
    /\ pc' = "fold"
    /\ UNCHANGED <<succ, dfsVars, idom, changed, pos, b1, dfVars, dom_tree_succ>>

\* The first predecessor with an idom; assert(pred) is AssertPred below.
PickPred ==
    /\ pc = "create_idom" /\ pos <= Len(reverse_post_order) /\ Current # Entry
    /\ \E pred \in PredsWithIdom(Current) :
         /\ new_idom' = pred
         /\ rest' = PredsWithIdom(Current) \ {pred}
    /\ pc' = "fold"
    /\ UNCHANGED <<succ, dfsVars, idom, changed, pos, b1, dfVars, dom_tree_succ>>

\* new_idom = intersect(p, new_idom) is called for another such predecessor.
CallIntersect ==
    /\ pc = "fold"
    /\ \E p \in rest :
         /\ b1' = p
         /\ rest' = rest \ {p}
    /\ pc' = "intersect"
    /\ UNCHANGED <<succ, dfsVars, idom, changed, pos, new_idom, dfVars, dom_tree_succ>>

ClimbB1 ==
    /\ pc = "intersect" /\ b1 # new_idom
    /\ post_order_id[b1] < post_order_id[new_idom]
    /\ b1' = idom[b1]
    /\ UNCHANGED <<succ, pc, dfsVars, idom, changed, pos, rest, new_idom, dfVars,
                   dom_tree_succ>>

ClimbB2 ==
    /\ pc = "intersect" /\ b1 # new_idom
    /\ post_order_id[new_idom] < post_order_id[b1]
    /\ new_idom' = idom[new_idom]
    /\ UNCHANGED <<succ, pc, dfsVars, idom, changed, pos, rest, b1, dfVars,
                   dom_tree_succ>>

ReturnIntersect ==
    /\ pc = "intersect" /\ b1 = new_idom
    /\ pc' = "fold"
    /\ UNCHANGED <<succ, dfsVars, idomVars, dfVars, dom_tree_succ>>

\* A wrong SetIdom, which reports a change even when there is none.
SetIdomAlwaysChanged ==
    /\ pc = "fold" /\ rest = {}
    /\ idom' = [idom EXCEPT ![Current] = new_idom]
    /\ changed' = TRUE
    /\ pos' = pos + 1
    /\ pc' = "create_idom"
    /\ UNCHANGED <<succ, dfsVars, rest, new_idom, b1, dfVars, dom_tree_succ>>

\* set_idom, when the block's idom differs, and on to the next block.
SetIdom ==
    /\ pc = "fold" /\ rest = {}
    /\ idom' = [idom EXCEPT ![Current] = new_idom]
    /\ changed' = (changed \/ idom[Current] # new_idom)
    /\ pos' = pos + 1
    /\ pc' = "create_idom"
    /\ UNCHANGED <<succ, dfsVars, rest, new_idom, b1, dfVars, dom_tree_succ>>

\* while (changed): another pass.
NextPass ==
    /\ pc = "create_idom" /\ pos > Len(reverse_post_order) /\ changed
    /\ changed' = FALSE
    /\ pos' = 1
    /\ UNCHANGED <<succ, pc, dfsVars, idom, rest, new_idom, b1, dfVars, dom_tree_succ>>

StartFrontier ==
    /\ pc = "create_idom" /\ pos > Len(reverse_post_order) /\ ~changed
    /\ pc' = "create_dominance_frontier"
    /\ todo' = Joins
    /\ UNCHANGED <<succ, dfsVars, idomVars, joinPreds, bb, runner, dom_frontier,
                   dom_tree_succ>>

(***************************************************************************)
(* create_dominance_frontier.                                              *)
(***************************************************************************)

\* The next block with two predecessors or more.
NextJoin ==
    /\ pc = "create_dominance_frontier" /\ joinPreds = {}
    /\ \E b \in todo :
         /\ bb' = b
         /\ todo' = todo \ {b}
         /\ joinPreds' = Pre(b)
    /\ UNCHANGED <<succ, pc, dfsVars, idomVars, runner, dom_frontier, dom_tree_succ>>

StartRunner ==
    /\ pc = "create_dominance_frontier"
    /\ \E p \in joinPreds :
         /\ runner' = p
         /\ joinPreds' = joinPreds \ {p}
    /\ pc' = "runner"
    /\ UNCHANGED <<succ, dfsVars, idomVars, todo, bb, dom_frontier, dom_tree_succ>>

\* One turn of while (runner != get_idom(bb)).  A runner that has become
\* nullptr stays so: idom_[nullptr] is nullptr.
MoveRunner ==
    /\ pc = "runner" /\ runner # idom[bb]
    /\ dom_frontier' = [dom_frontier EXCEPT ![runner] = @ \cup {bb}]
    /\ runner' = idom[runner]
    /\ UNCHANGED <<succ, pc, dfsVars, idomVars, todo, joinPreds, bb, dom_tree_succ>>

RunnerDone ==
    /\ pc = "runner" /\ runner = idom[bb]
    /\ pc' = "create_dominance_frontier"
    /\ UNCHANGED <<succ, dfsVars, idomVars, dfVars, dom_tree_succ>>

(***************************************************************************)
(* create_dom_tree_succ: one insertion for each block but the entry.       *)
(***************************************************************************)
\* A wrong CreateDomTreeSucc, upside down.
CreateDomTreePred ==
    /\ pc = "create_dominance_frontier" /\ todo = {} /\ joinPreds = {}
    /\ dom_tree_succ' = [a \in MaybeBlock |-> {b \in Blocks : idom[a] = b /\ a # b}]
    /\ pc' = "done"
    /\ UNCHANGED <<succ, dfsVars, idomVars, dfVars>>

CreateDomTreeSucc ==
    /\ pc = "create_dominance_frontier" /\ todo = {} /\ joinPreds = {}
    /\ dom_tree_succ' = [a \in MaybeBlock |-> {b \in Blocks : idom[b] = a /\ a # b}]
    /\ pc' = "done"
    /\ UNCHANGED <<succ, dfsVars, idomVars, dfVars>>

Done == pc = "done" /\ UNCHANGED vars

Next ==
    \/ VisitSuccessor \/ FinishVisit \/ StartIdom
    \/ SkipRoot \/ PickPred \/ CallIntersect \/ ClimbB1 \/ ClimbB2
    \/ ReturnIntersect \/ SetIdom \/ NextPass
    \/ StartFrontier \/ NextJoin \/ StartRunner \/ MoveRunner \/ RunnerDone
    \/ CreateDomTreeSucc \/ Done

Spec == Init /\ [][Next]_vars
FairSpec == Spec /\ WF_vars(Next)
-----------------------------------------------------------------------------
TypeOK ==
    /\ succ \in CFGs
    /\ pc \in {"post_order_visit", "create_idom", "fold", "intersect",
               "create_dominance_frontier", "runner", "done"}
    /\ visited \subseteq Blocks
    /\ stack \in Seq(Blocks)
    /\ reverse_post_order \in Seq(Blocks)
    /\ post_order_id \in [Blocks -> Nat]
    /\ idom \in [MaybeBlock -> MaybeBlock]
    /\ changed \in BOOLEAN
    /\ pos \in Nat \ {0}
    /\ rest \subseteq Blocks
    /\ new_idom \in MaybeBlock /\ b1 \in MaybeBlock
    /\ todo \subseteq Blocks /\ joinPreds \subseteq Blocks
    /\ bb \in MaybeBlock /\ runner \in MaybeBlock
    /\ dom_frontier \in [MaybeBlock -> SUBSET Blocks]
    /\ dom_tree_succ \in [MaybeBlock -> SUBSET Blocks]

(***************************************************************************)
(* What the analysis is checked against.                                   *)
(***************************************************************************)
Reachable(b) == IsReachable(succ, b)
Dom(a, b) == Dominates(succ, a, b)
StrictDom(a, b) == StrictlyDominates(succ, a, b)

\* The strict dominator of b that all others dominate.
IsImmediateDominator(a, b) ==
    /\ StrictDom(a, b)
    /\ \A c \in Blocks : StrictDom(c, b) => Dom(c, a)

\* a dominates a predecessor of b without strictly dominating b.
Frontier(a) == {b \in Blocks : ~StrictDom(a, b) /\ \E p \in Pre(b) : Dom(a, p)}

IdomsFinal == pc \in {"create_dominance_frontier", "runner", "done"}
Numbered == pc # "post_order_visit"
-----------------------------------------------------------------------------
(***************************************************************************)
(* Properties.                                                             *)
(***************************************************************************)

\* The walk numbers exactly the reachable blocks, the entry highest, and an
\* edge that goes up in the numbering closes a cycle: reverse post order is a
\* topological order of the acyclic part (post_order_visit).
ReversePostOrder ==
    Numbered =>
        /\ Finished = {b \in Blocks : Reachable(b)}
        /\ \A b \in Finished \ {Entry} : post_order_id[b] < post_order_id[Entry]
        /\ \A i, j \in 1..Len(reverse_post_order) :
              i < j => post_order_id[reverse_post_order[i]]
                         > post_order_id[reverse_post_order[j]]
        /\ \A a \in Finished : \A b \in succ[a] :
              post_order_id[a] <= post_order_id[b] => Path(succ, Blocks, b, a)

\* assert(pred), and the asserts in intersect with the progress of its loops:
\* a block's turn finds a predecessor that has an idom, and the two fingers
\* are never nullptr nor two blocks with the same number.
AssertsHold ==
    /\ (pc = "create_idom" /\ pos <= Len(reverse_post_order) /\ Current # Entry)
         => PredsWithIdom(Current) # {}
    /\ pc = "intersect" =>
         /\ b1 # Null /\ new_idom # Null
         /\ b1 # new_idom => post_order_id[b1] # post_order_id[new_idom]

\* Following idom always climbs to a higher post order number, in every
\* intermediate state of the iteration: what makes intersect's loops, the
\* runner's loop and every walk up the tree end.
IdomClimbs ==
    \A b \in Blocks \ {Entry} :
        idom[b] # Null => post_order_id[b] < post_order_id[idom[b]]

\* When create_idom ends, idom is the immediate dominator of every reachable
\* block but the entry and nullptr for every unreachable one.
IdomIsImmediateDominator ==
    IdomsFinal =>
        \A b \in Blocks \ {Entry} :
            IF Reachable(b) THEN idom[b] # Null /\ IsImmediateDominator(idom[b], b)
                            ELSE idom[b] = Null

\* When the analysis ends, the frontier of every reachable block is its
\* dominance frontier (create_dominance_frontier), which is where Mem2Reg
\* puts its phis.
FrontierIsDominanceFrontier ==
    pc = "done" =>
        \A a \in Blocks : Reachable(a) =>
            dom_frontier[a] = {b \in Frontier(a) : Reachable(b)}

\* The dominator tree below a block holds exactly what it dominates, so
\* that re_name's recursion from the entry meets every reachable block
\* (create_dom_tree_succ): a set closed under dom_tree_succ that holds a
\* contains every reachable block a dominates, and those form such a set.
DomTreeBelowIsDominated ==
    pc = "done" =>
        \A a \in Blocks : Reachable(a) =>
            LET below == {b \in Blocks : Reachable(b) /\ Dom(a, b)}
                Closed(S) == a \in S /\ \A s \in S : dom_tree_succ[s] \subseteq S
            IN  Closed(below) /\ \A S \in SUBSET below : Closed(S) => S = below

\* While the passes repeat, an idom that is set is only ever replaced by a
\* higher one: the iteration cannot oscillate (create_idom).
IdomOnlyRises ==
    [][\A b \in Blocks :
         pc = "fold" /\ idom[b] # Null =>
             post_order_id[idom'[b]] >= post_order_id[idom[b]]]_vars

\* A reachable join block with a predecessor that cannot be reached.
UnreachableIntoJoin == \E b \in Joins : Reachable(b) /\ \E p \in Pre(b) : ~Reachable(p)

\* The analysis ends unless the graph has such a block; then the runner
\* leaves the tree at the unreachable predecessor and never stops.
EndsUnlessUnreachableIntoJoin ==
    /\ ~UnreachableIntoJoin ~> pc = "done"
    /\ UnreachableIntoJoin ~> [](pc = "runner" /\ runner = Null)
=============================================================================
