# A verification model of the cminus-f compiler

The repository is a compiler for cminus-f, a small C: a flex lexer and a bison
parser build a syntax tree, `ast.cpp` turns it into an AST, `CminusfBuilder`
visits the AST and emits LightIR (an LLVM-like intermediate representation),
optimization passes rewrite or annotate the IR, and the driver prints it and
calls clang. This directory holds TLA+ models of these parts, the TLC
configurations that check them, and TLAPS proofs about them.

The program is sequential. What makes it hard is not concurrency but:

- iteration over `std::set` and `std::unordered_set` of pointers, whose order
  depends on addresses: the models pick the next element freely;
- the input: every program, every control-flow graph;
- state that outlives the visitor or the function that wrote it (flags,
  `curr_op`, label counters, stacks, maps, use lists);
- lists that are changed while a loop goes over them;
- fixpoint iterations and recursive walks over half-built results;
- assertions, which are live in the debug build the project uses.

## Inventory

| Part | State | Operations | What makes it correct | Here |
|---|---|---|---|---|
| Grammar and syntax tree (`syntax_analyzer.y`) | tree nodes | one rule per nonterminal | the tree of what is written | `SyntaxTree` (its shape; the automaton is generated) |
| AST construction (`ast.cpp`) | a stack per list | `transform_node_iter` | order of lists, types, operators, operands | `SyntaxTree`, `Expressions` |
| Expression visitors of `CminusfBuilder` | `expression`, `curr_op` | one visitor per expression | evaluation order, conversions, types of operands | `Expressions` |
| `Scope` (`cminusf_builder.hpp`) | a stack of symbol tables | enter, exit, push, find | the innermost binding; balanced | `Expressions` |
| Statement visitors (`cminusf_builder.cpp`) | the blocks made so far, the builder's insert point, `curr_block`, `return_block`, `is_returned`, `is_returned_record`, `label_cnt` | one visitor per statement, the index check of `ASTVar` | every block closed once, unique labels, the blocks run the statements as written | `CodeGen` |
| Blocks and branches (`BasicBlock`, `BranchInst`, `Function::remove`) | instruction list, `pre_bbs_`, `succ_bbs_` | create, append, delete, branch, remove | lists and branches agree | `LightIR`, `CodeGen`, `ControlFlow` |
| Values, users, use lists (`Value`, `User`) | `operands_`, `use_list_` | `add_operand`, `set_operand`, `replace_all_use_with`, `remove_use_of_ops` | use lists and operands agree | `LightIR` |
| `Dominators` | post order numbers, `idom_`, `dom_frontier_`, `dom_tree_succ_blocks_` | `create_reverse_post_order`, `create_idom`, `create_dominance_frontier`, `create_dom_tree_succ` | immediate dominators, frontiers, tree; assertions; termination | `Dominators` |
| `LoopSearch` | the `CFGNode`s, Tarjan's stack, `base2loop`, `loop2base`, `bb2base` | `run` and the functions it calls, `get_inner_loop`, `get_parent_loop` | natural loops, their nesting; no null base; termination | `LoopSearch` |
| `Mem2Reg` | `var_val_stack`, phis | `generate_phi`, `re_name`, `remove_alloca` | each load gets the value the store before it left | `Mem2Reg`, `VariableStore` |
| `ActiveVars` | `live_in`, `live_out`, the post order | the liveness iteration | exactly the live values; termination | `ActiveVars` |
| `ConstPropagation` | the IR itself, the labels taken | folding, branch folding, block removal | same output, graph still consistent | `ConstPropagation` |
| `LoopInvHoist` | the IR itself, what varies | hoisting out of each loop and its parents | same output, definitions before uses | `LoopInvHoist` |
| `PassManager`, driver (`cminusfc.cpp`) | the list of passes | add, run in order | facts a pass needs hold when it runs | `BeforeAndAfter`, `Optimizer` (one option besides `-mem2reg`) |
| Lexer, `io.c`, logging, printing | positions | generated automaton, I/O, text | | not modelled |

The parts meet in the AST and in the IR. `CodeGen` makes the graph; `Mem2Reg`
runs `Dominators` and trusts its frontier and tree; `ActiveVars`,
`ConstPropagation` and `LoopInvHoist` go on from what `Mem2Reg` leaves;
`LoopInvHoist` runs `LoopSearch` and climbs `get_parent_loop`. So the graphs the
analyses are checked on include the graphs the builder makes, unreachable
blocks and all.

## Modules

**`ControlFlow`** is the common vocabulary: a graph maps each block to the set
of its successors (what `get_succ_basic_blocks` and `get_pre_basic_blocks`
show), and the textbook notions of reachability, dominance, path and component,
each defined by the sets of blocks closed under the edges. They are written
independently of the algorithms and without recursion, so that proofs may use
them.

**`Dominators`** is the pass on one function, one action per loop turn or
call: the recursive walk (`VisitSuccessor`, `FinishVisit`, with `stack` for the
C++ stack), `create_idom` (`StartIdom` ... `NextPass`, with `intersect`'s two
fingers `b1` and `new_idom` moved by `ClimbB1` and `ClimbB2`), the frontier
(`NextJoin`, `StartRunner`, `MoveRunner`, `RunnerDone`) and the tree. Choices
over predecessors and successors are free, so every list order is covered.
The maps are indexed by `nullptr` too, as `std::map::operator[]` allows.
`create_doms` has no caller and is left out.

**`LoopSearch`** is the pass on one function: Tarjan's search call by call
(`calls` is the C++ stack, with the successors each call has still to look at),
then one `ProcessLoop` per component, then `NextRound`. `get_inner_loop` and
`get_parent_loop` are operators on the result; where the code answers from the
first predecessor in a list, the operator gives the set of possible answers.

**`CodeGen`** is the statement visitors. The AST is not built beforehand: when
a visitor accepts a child, the model chooses what the child is, so that every
program within the bounds is visited. `frames` is the C++ stack of visitors,
with the local variables each keeps over the visit of a child (`orig_block`,
`trueBB_location`, `label_now`, ...). An expression is the index checks it
makes and an `op` that stands for its instructions. `exits`, `flow` and
`dead_ends` are not in the code: they accumulate, from the meaning of the
statements in `Documentations/common/cminusf.md`, which statement may run right
after which, and behind which `if` nothing can run. `RunsAsWritten` compares the
first two with the blocks, `DeadCodeIsBehindReturningIf` the last. The initial
`is_returned_record` is free: it is a global variable that the function
compiled before may have left true. A statement that emits nothing (`1;`) is
left out here.

**`SyntaxTree`** has the trees the grammar gives a program (`Parsed...`, one
operator per nonterminal, a list growing to the left) and `transform_node_iter`
(`Transformed` and one operator per kind of node): a list is read from its end
by way of a stack (`Flattened`), a type name is compared with `"int"` only (so
`void x;` declares a float), a level without an operator becomes a node of one
operand.

**`Expressions`** takes a program from its source through `BuildAST` and the
visitors of declarations (`VisitGlobal`, `VisitFunction`, `VisitCompound`,
`LeaveFunction`, with `inner` for `Scope`) and of expressions, expression and
return statements. `frames` is again the C++ stack, an action accepts the next
child or returns, and `expression` and `curr_op` are the members through which
the visitors talk. Instructions have the types LightIR gives them. Control flow is `CodeGen`'s: a
body here is a list of statements, and an index check is one instruction. The
ASTs come from a constant function, `AST`, so that the module has no recursion
and can be proved about for any AST; **`AbstractSyntax`** has what its nodes are.
`AreTyped` says what the types in a body must be like for the program to be
one of the language: a class for each expression (a number, a truth value, the
address of elements, nothing), by the names in the scopes. `TakeTruthForInt` are
the nodes that store a truth value in an int element or pass one for an int.

**`ExpressionsMeaning`** says what the program as it is *written* means:
`Executed` runs the instructions made, `Intended` evaluates the source by the
manual. It is independent of the AST, so that an error in `ast.cpp`, in a scope
or in a visitor would show alike. `ASTOf` is the AST `SyntaxTree` makes of a
program, which `MCExpressions` gives `AST` for its value.

**`LightIR`** is the IR as the passes see it: a function is a record of blocks,
instructions, operands, use lists and neighbour lists, and its operators are
what `BasicBlock`, `Function`, `User` and `Value` do with them. It says what an
instruction does when it runs too, which the code leaves to LLVM (marked
external in the map). Lists of uses are sets: no pass depends on their order.

**`Mem2Reg`** is the pass on one function: phi placement with its work list
(which grows while the loop goes over it), the renaming walk with
`var_val_stack` and the C++ stack of `re_name`, the assertion, the deletions,
and then the function it leaves, running. It EXTENDS `ControlFlow`, whose
dominance, frontier and tree are those `Dominators` was shown to compute
(`IdomIsImmediateDominator`, `FrontierIsDominanceFrontier`,
`DomTreeBelowIsDominated`). What it promises is **`VariableStore`**: a function
in which every variable is a cell of memory. The refinement (`Meaning`) maps a
promoted variable to the value of the name the stack had for it at the end of
the block that ran last. What it is given is a function as the IR builder makes
it (`BuiltByIRBuilder`, which `FunctionsAssumption` asks of every function of an
instance): an instruction stands in one place, use lists are complete, there is
no phi yet, and no block has the same successor twice. The last is why `PhisToFill`
may be a set where line 125 goes over a list: a block that is entered twice from
the same branches comes from an array access in a loop's condition, which
`codegen_indexed_condition` reports. The loops of the code are folds over the
list they go through.

**`ActiveVars`** EXTENDS `Mem2Reg` with the post order, the used and defined
sets and the iteration, one block a step.

**`BeforeAndAfter`** composes `Mem2Reg` with the pass the driver was given the
option of, and runs the function that pass was given (`was`) and the one it leaves
(`is`) on the same input.
**`ConstPropagation`** and **`LoopInvHoist`** EXTEND it. The former has an
action per instruction (`Fold`, `FoldPhi`, `SkipInstr`) and per branch
(`TakeFirst`, `TakeSecond`), with the positions of the loops over blocks and
instructions as they stand while both lists change. In the latter the loops and
their blocks come in any order, as the unordered sets give them, and the
loops themselves are the natural loops `LoopSearch` was shown to find.
**`Optimizer`** is the driver: `Mem2Reg`, and behind it the one of the three passes
that `option` names.

**`ControlFlowProofs`**, **`DominatorsProofs`**, **`LoopSearchProofs`**,
**`CodeGenProofs`**, **`ExpressionsProofs`**, **`Folding`**, **`Mem2RegProofs`**
and **`LaterPassesProofs`** hold the theorems; see Proofs.

**`MCGraphs`** and **`MCStatements`** hold what the `MC...` modules share: small
graphs up to renaming, and functions written as sequences of instructions.

Operators and actions whose comment begins "A wrong ..." are plausible bugs,
used to see that each property can fail; no specification uses them.

## Runs

| Run | Bounds | Question |
|---|---|---|
| `dominators_all_graphs` (`MCDominators.cfg`) | every graph of 4 blocks up to renaming, unreachable blocks included; every graph of 5 reachable blocks that are all joins | types, order, assertions, idoms, frontiers, tree; when does it end? |
| `loops_all_graphs` (`MCLoopSearch.cfg`) | every graph of 4 reachable blocks, irreducible included; graphs of 5 blocks of the builder's shape | components, bases, natural loops, nesting, termination |
| `codegen_checked_arrays` (`MCCodeGen.cfg`) | 4 statements, or 3 with array accesses (1 per expression); 7 visitors deep | well-formed blocks, labels, flow, dead code |
| `codegen_indexed_condition` (`MCCodeGenIndexed.cfg`) | 2 statements; `while` may index an array in its condition | violated, see below |
| `codegen_bare_body` (`MCCodeGenBare.cfg`) | 3 statements; bodies may lack braces | violated, see below |
| `codegen_inner_block` (`MCCodeGenInner.cfg`) | 3 statements; a compound statement may stand in a list | violated, see below |
| `codegen_runs_off_its_end` (`MCCodeGenEnd.cfg`) | 2 statements, no feature but braced bodies | violated, see below |
| `expressions` (`MCExpressions.cfg`) | 7450 programs: two lists of declarations, with and without names that hide others, times bodies of up to three statements over every pair of operand kinds | types of operands; the effects and results of the manual |
| `passes` (`MCOptimizer.cfg`) | `-activevars`: 5 graphs of 5 blocks (if, loop, their nests), 3 to 5 bodies for each block, 2 locals, 1 global; `-const_propagation`: 5 shapes of 4 to 6 blocks, constant and varying conditions; `-loop_inv_hoist`: a loop in a loop and an if in a loop, of 6 and 7 blocks, 3 locals; runs of up to 14 blocks on every input | `Mem2Reg` refines `VariableStore`; stacks; complete SSA; liveness by paths, and the analysis ends; same output behind `ConstPropagation`, loops over changing lists, lists of neighbours; no instruction lost by `LoopInvHoist`, nothing invariant left, the order of adding |
| `passes_local_of_branch` (`MCOptimizerBranch.cfg`) | the graphs of `-activevars`, a variable in one arm only | violated, see below |
| `const_propagation_index` (`MCOptimizerIndex.cfg`) | a check of each constant index from -2 to 3 | violated, see below |
| `loop_inv_hoist_order` (`MCOptimizerHoist.cfg`) | one `while` loop with `y = w + 1` in it, two starts | violated, see below |

A block has two successors at most, as `br` allows. Four blocks hold every
shape these algorithms turn on (a join, a loop, a loop entered twice, a nest of
two, a cycle that cannot be reached); a fifth gives joins that feed each other
and a nest of three. One graph stands for all that differ in the names of
blocks: the models compare blocks only for equality, and choose among them
freely. For `CodeGen` three statements nest as deep as three and put an arm
beside an arm; the fourth puts a statement after the join as well. For the
passes the interest lies in how definitions reach uses: the shapes have every
way two blocks can stand to each other (before, behind, beside, around), and
the bodies a definition, a use, a copy and nothing for each block. For
expressions a conversion depends on the types of two neighbours in the tree
and on `curr_op`, which depends on the node before: depth three over all pairs
of operand kinds has these. The inputs are the globals, 0 or 1 each.

`CodeGen`, `Expressions`, `Dominators` and `LoopSearch` are checked for
deadlock, so a visitor never gets stuck; the runs of the passes behind
`Mem2Reg` switch it off, since a function that returned, or a compiler that
aborted, stops.

Fairness: `FairSpec` of `Dominators` and `LoopSearch` is weak fairness of the
whole next-state relation, `OptimizerSpec` has weak fairness of the steps of
`ActiveVars`. The compiler is one thread that takes its next step as long as there
is one, which is all that weak fairness says. The function that runs in
`Mem2Reg` has none. With `-activevars` the function that `Mem2Reg` leaves
is either run or analysed; an analysis that has begun goes on.

### What the runs show

- **Dominators** computes immediate dominators, frontiers and the tree on every
  graph; it ends exactly on those without a reachable join that has an
  unreachable predecessor (`EndsUnlessUnreachableIntoJoin`). On the others
  `while (runner != get_idom(bb))` (line 151) climbs from the unreachable
  predecessor to `nullptr` and stays there. The builder makes such graphs
  (`DeadCodeIsBehindReturningIf`): behind an `if` whose arms both return, the
  end block has no predecessor, and branches on to whatever encloses it.
- **LoopSearch** finds the components and never dereferences a null base, in any
  order, on any graph. The loops are the natural loops if the graph is
  reducible, and `get_parent_loop` is the next loop around if, moreover, a loop
  is entered by unconditional branches only. `ASTIterationStmt` sees to both.
- **CodeGen** is right for programs whose bodies have braces, whose compound
  statements are bodies, whose loop conditions do not index arrays and whose
  functions end with a `return` or a statement that leaves an empty block. Outside
  these it is wrong in four ways, each a run:
  - `while (a[i])`: the index check closes `startBB`, and line 464 puts a
    second conditional branch into it;
  - `if (c) x = 1;` after a function that ends in `return`: the stale
    `is_returned_record` suppresses the branch behind the body (line 333, and
    441 for loops);
  - `{ return; } x = 1;`: leaving the inner block clears `is_returned` (line
    286), and the list goes on behind the branch;
  - `void main(void) { output(1); }`: line 220 gives only an empty last block its
    branch to `returnBB`, so a body that ends with an instruction leaves a block
    without a terminator, and never returns (`codegen_runs_off_its_end` checks
    `RunsAsWritten`). `RunsAsWrittenButOffItsEnd` is the same property but for this
    one way to return, so that the other runs look past it.
- **Expressions**: the instructions made are well typed and do what the manual
  says of the program as written, however operands mix int, float and truth
  values. `RunsAsDocumented` and `OperandsFit` name what is excepted:
  - a comparison stored in an element of an int array, or passed for an int
    parameter, stays an i1 (lines 758 and 1142 ask `is_integer_type`, which
    is true of i1 too): ill-typed LightIR, against `cminusf.md:147` and `:163`.
    `OperandsFit` allows for it in the functions that have such a store or call
    (`TakeTruthForInt`) and asks for the exact types everywhere else;
  - the value of `a[i] = v` is the index and not `v`, where `cminusf.md:136`
    gives an assignment the value assigned;
  - the right side of an assignment is visited before the index on the left
    (line 890), where `cminusf.md:136` has the index first; it shows when one
    changes what the other reads.

  The empty statement `;`, which `cminusf.md:103` allows, follows a null
  pointer at line 292 (`VisitEmpty`). The message at line 241 that no variable
  may be void never appears, since `ast.cpp` (lines 56-59) makes it a float.
- **Mem2Reg** implements `VariableStore` on every path (`RunsLikeSource`) when
  each local is stored in a block that dominates its uses. A variable declared
  and used in one arm of an `if` only has a phi at the join, and renaming the
  other predecessor fails the assertion of line 134: `passes_local_of_branch`.
- **ActiveVars** ends, never finds a value live that is not, and misses a live
  value only where it is a phi operand that is live behind another predecessor
  of the phi too (line 73 erases it), or a phi that a later phi of its block
  has as operand (line 161).
- **ConstPropagation** keeps the output wherever its choices are right.
  `ChoicesAreRight` spells out what it does not see to: the target of a
  constant branch must have no other way in, and a folded phi must get its
  value from the only predecessor left. Neighbour lists fall short of the
  branches for merged blocks, and a false condition without `else` leaves an
  instruction in two blocks. Constants are folded by the compiler's own
  division, by zero too (`FoldCrashes`). A comparison with a zero is folded as
  `!=` whatever its operator, so a constant positive index calls
  `neg_idx_except`: `const_propagation_index`.
- **LoopInvHoist** loses no instruction, leaves none that computes from outside
  values only, and keeps an instruction below the ones of its own block that
  compute its operands, out of however many loops both are taken
  (`OperandsOfBlockStayAbove`), which is what the report means by the right order
  (`report-phase2.md:239`). But it puts them at the *front* of a predecessor, above
  a load or an addition there that computes an operand, and it takes out an instruction
  although an operand is a load of the loop, and a division the loop's condition
  guarded. The function it leaves then puts out something else:
  `loop_inv_hoist_order` checks `HoistRunsAsGiven`, on the loop
  `while (x < 2) { y = w + 1; x = x + 1; }`.

## Proofs

TLC checks graphs of up to five blocks and programs of up to four statements;
the theorems hold for every finite set of blocks and every graph whose edges do
not enter the entry (`BlocksAssumption`, in `ControlFlow`), and for programs of
any length, nesting and number of array accesses (`BoundsAssumption`, in
`CodeGen`), and for every function that is as the IR builder makes them
(`FunctionsAssumption`, in `Mem2Reg`). The one about `Expressions` assumes
nothing of the constants: it holds for every set of programs and whatever their
ASTs are. `ControlFlowProofs` holds the lemmas the proofs about graphs share.
The provers have no induction with a predicate of one's own; where a proof wants
one it picks a set closed under the edges (reachability, dominance and paths
are defined by such sets) or the least number of a kind (`LeastNumber`, which
follows from the library's well-foundedness of strict inclusion). In the same
way a set of numbers that has 0, and with a number the next, has them all
(`UpTo`): induction for a set, of which the definition of the set is the
predicate.

### Dominators

`DominatorsProofs` proves every safety and action property the runs check.

| Theorem | `Spec => ...` |
|---|---|
| `TypeCorrect` | `[]TypeOK` |
| `IdomAlwaysClimbs` | `[]IdomClimbs` |
| `AssertsAlwaysHold` | `[]AssertsHold` |
| `WalkIsReversePostOrder` | `[]ReversePostOrder` |
| `IdomsRise` | `IdomOnlyRises` |
| `IdomsAreImmediateDominators` | `[]IdomIsImmediateDominator` |
| `FrontiersAreDominanceFrontiers` | `[]FrontierIsDominanceFrontier` |
| `DomTreeSpansDominated` | `[]DomTreeBelowIsDominated` |

`TypeOK` is not inductive: what `MoveRunner` puts into a frontier is `bb`, which
has to be a block and not `nullptr`. `TypeInv` adds that. The rest needs more,
because that an idom has a higher number than its block depends on how the
numbers came about. The invariant `IdomInv` joins `TypeInv` with:

- `WalkInv`, during the depth-first walk: each finished block has the number of
  its place, the stack is a path from the entry without repetition, and a
  finished block has a predecessor on the stack or finished later, the caller
  of its visit;
- `OrderInv`, after it: numbers fall along `reverse_post_order`, and each block
  but the entry has a predecessor earlier in it (from `WalkInv` and `Reverse`);
- `ClimbInv`: a block with an idom is numbered, its idom has an idom too, and is
  higher;
- `PassInv`: the blocks before `pos` have an idom, so that the block at `pos`
  finds a predecessor with one, which is `assert(pred)`;
- `FoldInv`: each predecessor folded so far lies at or below `new_idom` or a
  finger of `intersect`, so that the idom set in the end is higher than the
  block, by the predecessor `OrderInv` gives.

What the pass computes follows from `TreeInv` on top of it. `DfsInv` and `RpoInv`
say that the walk meets exactly the reachable blocks and that a branch back in
the order closes a cycle. A block's *chain* is what following `idom` meets. In
every intermediate state no strict dominator is skipped (`DominatorInv`), inside
`intersect` what is on the chains of all predecessors folded is on that of
`new_idom` (`MergeInv`), and a block's idom keeps everything its predecessors'
chains share even when it is out of date (`MeetInv`, `ForwardInv`); a pass that
changes nothing leaves each idom on the chains of all predecessors
(`SettledInv`). From these the chain of a block is exactly its dominators. The
runners then collect exactly the frontiers (`FrontierInv`: what has been
collected is right, and what is missing is still ahead of the runner or in
`joinPreds`).

### LoopSearch

`LoopSearchProofs` proves every safety property the run checks.

| Theorem | Hypothesis | `Spec => ...` |
|---|---|---|
| `TypeCorrect` | | `[]TypeOK` |
| `SearchFindsAllComponents` | | `[]SearchFindsComponents` |
| `BaseAlwaysExists` | `EveryLoopIsEntered` | `[]BaseExists` |
| `LoopsNest` | | `[]InnerLoopIsInnermost` |
| `NaturalLoopsAreFound` | `EveryBranchIsReached` | `[]FindsNaturalLoops` |
| `ParentLoopsAreNextAround` | `EveryBranchIsReached` | `[]ParentLoopIsNextAround` |

The search is Tarjan's, and its invariant `SearchInv` says why it works: indices
rise along the stack and along the calls (`StackInv`, `CallInv`); a block on the
stack leads to those above it and to an active block not above it (`ReachInv`);
what has left the stack is closed under the edges and is divided into the
components in `sccs` (`OffInv`); `lowlink` is the index of a block on the stack
that can be reached, and no block on the stack that an examined edge leads to
has a lower one (`LowInv`). So a block whose lowlink is its own index heads a
component, and it is the part of the stack above it. `GraphInv` relates the
graph that shrinks from round to round to the function's.

`NestInv` says that a loop found is never crossed by a cycle of what is left, so
that a later component is inside or outside; `InnerInv` that `bb2base` names the
smallest loop. `NatInv` says that the loops recorded are the natural loops of
the headers taken out, and that those of the headers left are left as a whole.

The hypotheses are about the set of graphs. `EveryLoopIsEntered` (a cycle has an
edge into it from outside) is what `find_loop_base` relies on: on a cycle that
floats free it does answer `nullptr`. A loop the builder makes has the branch in
front of it, reached or not. `EveryBranchIsReached` implies it. It excludes the
code behind an `if` whose arms both return: an edge from there into a loop or
past one is no edge of a natural loop, but the components see it. Both hold of
the graphs the run checks.

### CodeGen

`CodeGenProofs` proves six of the seven properties the run checks, all but
`RunsAsWrittenButOffItsEnd`.

| Theorem | Hypothesis | `Spec => ...` |
|---|---|---|
| `TypeCorrect` | | `[]TypeOK` |
| `InsertPointIsCurrBlock` | | `[]InsertsIntoCurrBlock` |
| `LabelsDistinct` | | `[]LabelsAreUnique` |
| `NothingBehindTerminators` | `WithoutInnerOrIndexed` | `[]NothingAfterTerminator` |
| `EveryBlockGetsATerminator` | `Plain` | `[]EveryBlockIsClosed` |
| `DeadCodeBehindReturningIf` | `Braced` | `[]DeadCodeIsBehindReturningIf` |

A lemma per helper says what it does to a sequence of blocks (`Created`, `Fills`,
`Ends`, `Grown`), one per visitor what it does as a whole (`ExpressionMade`,
`SelectionMade`, `IfEnded`, ...), with the recursive function `Evaluate` followed
from one index check to the next. Then seven invariants:

- `TypeInv`: `TypeOK` with the types of the active visitors, whose local
  variables name blocks that exist;
- `LabelInv`: labels are numbered up to `label_cnt`, and the labels a visitor is
  yet to use (`selFalseBB` and `selEndBB` of its `label_now`, made after any
  number of nested statements) are unused and promised to no other visitor;
- `OpenInv`: a block has no terminator or one at its end; the blocks a visitor
  waits to close (`orig_block`, `startBB`, the end of the first arm) are open,
  are waited for by that visitor alone and are not where the builder is; unless
  the statement has returned, the block where it is is open too;
- `ClosedInv`: every block that nobody waits for, but the current one and
  `return_block`, is closed; the current one is closed if the statement has
  returned. It needs that compound statements and `if` or `while` take turns on
  the C++ stack: that is what keeps `is_returned_record` fresh for its reader;
- `ReturnInv`, for programs with braces: what the flags take for a return is one.
  Where `is_returned` or a fresh `is_returned_record` says that the statement has
  returned, the language knows no way out of it either (`exits = {}`), and a
  visitor that waits for its second arm has remembered so of the first
  (`FramesRight`). This is where the braces are needed: without them the record
  may be another statement's;
- `DeadEndInv`: the `dead_ends` are blocks of the function;
- `LinkInv`: `returnBB` apart, a block has a branch from a block made before it,
  or a visitor on the stack is yet to branch to it (`Pending`), or nothing
  branches to it and it is the entry or in `dead_ends`: when `EndIf` leaves out the
  branches of both arms, `ReturnInv` says that both have returned. So at the end
  every block is reached from one nothing branches to, along the order in which
  blocks were made; `ReachedFrom` is a fold over that order.

The hypotheses are about `Features`, the constant that says which programs are
visited, and the code makes them necessary: a compound statement in a list
makes the builder go on behind a branch (`codegen_inner_block`), an array access
in a loop's condition closes `startBB` twice (`codegen_indexed_condition`), and
a body without braces may be left without its branch, and the end of its `if`
without a predecessor though an arm goes on (`codegen_bare_body`). `Plain` is what
the run `codegen_checked_arrays` checks.

### Expressions

`ExpressionsProofs` proves `OperandsAlwaysFit`: `Spec => []OperandsFit`. Its
hypothesis, `AreTyped(BodyNodes)`, is part of the property: in a body whose types
are what the language asks for, each instruction made so far has operands of
exactly the types LightIR asks for, and the type it is given. `BodyNodes` are the
nodes of a body down to `MaxNesting` levels, and `AreTyped` asks that they be closed
under `Children`, so that no program nested less deeply is left out; for the
theorem `MaxNesting` is any number.

A lemma per helper says what the code becomes and of what type the value is
(`Yields`: `WidenedYields`, `ConvertedYields`, `SidesMatch`, `ElementYields`,
`CallYields`, ...), one per action that it keeps the invariant `ExpressionInv`.
`OperandsFit` alone is not inductive: a visitor takes what it finds in
`expression`, left by a visitor it called, and what it saved before. So the
invariant is about the whole C++ stack, for the nodes of the body, which are closed
under `Children` (that spares the induction over the tree):

- `Sound`: the instructions so far fit, and their operands have been made before;
- `KeepsValues`: what a visitor has saved are numbers, or the arguments so far, as
  they are passed, and making more instructions changes the type of none
  (`Extends`);
- `AcceptedBy`: the node above is of the class the visitor below waits for
  (`Awaited`), so what comes back fits (`IsOf`): a number for an operand or an
  index, an i1 only where the class is truth value; for an assigned value what its
  variable can hold (`IsToStore`), for an argument what its parameter needs
  (`IsPassed`);
- `Begins`: when a variable is visited and `curr_op` is `STORE`, there is a number
  in `expression`, and a variable without an index is a scalar. This is the part
  that depends on every visitor setting `curr_op` before it visits a child. A call
  and an expression statement do not set it: their children are never bare
  variables, since the grammar puts nodes of one operand around those
  (`IsArgument`), and these do.

An i1 where an int is needed can come about in two places only: in an element,
since `ASTVar` converts the saved value without widening it, and as an argument for
an int parameter. `IsToStore` and `IsPassed` show that the node that does so is in
`Takers`, the body's `TakeTruthForInt`, which is empty for a body without such a
node. Then each type is exact.

### Mem2Reg

`Mem2RegProofs` proves every property of `Mem2Reg` the run `passes` checks, but
`RunsLikeSource`.

| Theorem | Hypothesis | `Spec => ...` |
|---|---|---|
| `TypeCorrect` | | `[]TypeOK` |
| `StacksAlwaysFollowTheTree` | | `[]StacksFollowTheTree` |
| `AbortsOnlyWithoutFirstStore` | | `[](control = "aborted" => SomeNotInEntry)` |
| `AssertAlwaysHolds` | each variable stored is stored in `Entry` | `[]AssertHolds` |
| `SSAIsComplete` | `StartsWithStores`, `KeepsDeadCodeApart` | `[]LeavesCompleteSSA` |

`re_name` is made of loops over lists, folds in the model, and the community
modules define a fold by a recursive function over sets of places, which exists
only if somebody shows it. `Folding` does so for an arbitrary operation (a
CONSTANT) and turns the fold into the sequence of what it has made after each
element; `Mem2RegProofs` takes an instance for each of the eight loops (the
lemmas `SkipSteps` to `RunSteps`). A fact about a loop is then shown for one
element and goes up the sequence by `UpTo`.

A stack is pushed when a block is entered and popped when it is left, over the
instructions the block has then. That the numbers agree depends on what happens
between: the function is changed by every child. The invariant `Inv` joins

- `TypeInv`, with `Derived(source, f)`: what is left in a block stood in that
  block of the source or is a phi for a stored variable, no instruction is in a
  block twice, a load or a store that is left is still one and of the same
  variable (replacing the uses of a load never replaces a variable, since use
  lists say who uses what), and the edges are those of the source;
- `PathInv`, while blocks are renamed: the frames are a path of the dominator
  tree from the entry (each block strictly dominates those below it, so none is
  on it twice), and the depth of each stack is the number of definitions the
  blocks of the path have (`StacksHold`);
- `PhaseInv`: before, the stacks are empty; and until the entry is left it has
  all its instructions.

Entering a block adds its definitions on both sides (`RenameInv`), leaving it
takes them off both: what the block made is still counted, so no pop finds an
empty stack (`LeaveBlockInv`, `PopAllEffect`), and the deletions are in that
block only, which is on the path no more. Placing a phi adds to a block, and it
is not there yet (`PlacePhisInv`).

The assertion fails when a stack exists and is empty, so when no block on the
path defines the variable. The entry is on every path: that is
`AbortsOnlyWithoutFirstStore`. It needs no hypothesis, and says what the
functions that abort have in common (`passes_local_of_branch` is one). The
hypothesis of `AssertAlwaysHolds` is its other side; it holds of the functions
of the run `passes`, and of a program whose locals, like its parameters, are
given a value at the start of the function.

That the function is complete SSA when all calls of `re_name` have returned
(`control` is then "alloca") is about what is *not* left behind, so it
needs that nothing was missed. `SSAInv` joins `Inv` with

- `UseInv`: the use lists are complete (`replace_all_use_with` and the deletions
  go by them), the operands of a phi come in pairs, and what a call of `re_name`
  is to delete stands in its block;
- `WalkInv`: the calls walk the dominator tree, with nothing entered twice and
  nothing left out (`Walked`), and the tree spans the reachable blocks
  (`TreeSpans`: of two blocks the one dominated has more dominators, so
  going up by least numbers ends at the entry);
- `CompleteInv`: a phi has exactly one pair for each predecessor entered so far
  (`Filled`); in a block that has been entered an access to a local waits for its
  deletion; and the address of a local is an operand of such accesses only, never
  a value on a stack.

At the end each reachable block has been entered, so each phi has its pairs and
no access is left. The hypotheses are in `Mem2Reg`, and `MCOptimizer` asks them of
the functions of its run (`StoresComeFirst`). Both are needed. A load the renaming
walk meets while no stack exists is left as it is, and its variable's
`alloca` with it; without a store in the entry the assertion may fail
(`passes_local_of_branch`). A dead block that branches to a live one is a
predecessor no call of `re_name` enters, and makes a join on which `Dominators`
does not end.

### The passes behind Mem2Reg

`LaterPassesProofs` starts from what `Mem2Reg` leaves on any function (`Inv`) and
proves the properties that are about where instructions and blocks are while the
lists change under the loops over them.

| Theorem | Hypothesis | |
|---|---|---|
| `HoistKeepsInstructions` | | `HoistSpec => []KeepsInstructions` |
| `PropagationStandsOnBlock` | `ForksGoForward` | `PropagationSpec => []LoopStandsOnBlock` |
| `PropagationKeepsOneBlock` | `ForksGoForward`, `ForksOwnTheirTargets` | `PropagationSpec => []OneBlockPerInstruction` |
| `PropagationKeepsLists` | `ForksGoForward`, `EndsItsBlocks`, `ListsFollowBranches` | `PropagationSpec => []ListsFollowBranchesNotMerged` |

- `HoistInv`: an instruction of the function given is in one block, once, or in
  hand (`need_to_out`), in whatever order loops, blocks and predecessors come.
- `PropagationInv`: whatever blocks have been merged into a block, a conditional
  branch in it goes to blocks behind it in the list of the source (`Forward`). So
  what `ConstPropagation` removes from the list, or merges, is ahead of the
  iterator, which keeps standing on a block of the function and on an
  instruction of that block.
- `OnceInv`: a target that has been merged is out of the list, no conditional
  branch that is left leads to it, and the blocks that may still come to work
  share no instruction (`Apart`), unless a second target stayed to which the
  first one leads (`SecondStays`, the exception `OneBlockPerInstruction` spells
  out, where the code does leave an instruction in two blocks).
- `ListsInv`: `Function::remove` takes a block out of its neighbours' lists and
  nothing else, so the lists stay those of the source among the blocks that are
  left, in their order (`Listed`). What is hard is the other side, where the
  branches go. A block ends as it did in the source, with nothing merged
  into it (`IsUnjoined`), or as some block behind it does (`IsJoined`). The
  branches a block is to lose at its end (`wait_delete`) were made in blocks
  before the one whose end it has got, so it keeps that end although branch and
  end may both have come to it by merges. This starts from `EndsStay`: `Mem2Reg`
  deletes loads and stores only, and puts phis in front.

The hypotheses say what the statement visitors do: they make new blocks for the
targets of each conditional branch, after the block the branch is in; no block
has anything behind its branch or return (`NothingBehindTerminators` and
`EveryBlockGetsATerminator`, for the programs they are about; a block that a body
runs off from is outside of `EndsItsBlocks`); and a branch enters both blocks in
each other's lists as it is made. `MCOptimizer` asks them of the functions it gives
the pass (`ForksAssumption`).

### Model-checked only

- Termination (`EndsUnlessUnreachableIntoJoin`, `Terminates`, and the one of
  `ActiveVars`): liveness is out of these provers' reach.
- `RunsAsWrittenButOffItsEnd` of `CodeGen`, `RunsLikeSource` of `Mem2Reg` and
  `RunsAsGiven` of `ConstPropagation`: they compare what two programs do along
  whole runs, which is an induction over data.
- `FindsLiveValues` of `ActiveVars`: it compares a fixpoint with the paths of the
  function, along each of which one would have to go by induction.
- `NothingInvariantIsLeft` of `LoopInvHoist`: what an inner loop gives its parent
  depends on the order in which `get_parent_loop` climbs, over the nesting
  of the natural loops of a reducible graph, and on every loop having a
  predecessor outside. `OperandsOfBlockStayAbove` is about the places of
  instructions after moves through several loops, in that order too.
- `RunsAsDocumented` of `ExpressionsMeaning`, which evaluates trees with RECURSIVE
  operators, as `SyntaxTree` builds them: what a recursive definition computes is
  an induction over data. `TypeOK` of `Expressions` is about declarations
  too, so about what `SyntaxTree` makes of them.

## Not modelled

- The lexer and the parsing automaton (generated); `selection-stmt` and
  `iteration-stmt` in `SyntaxTree`: their visitors are in `CodeGen`, which
  chooses the statements itself.
- The runtime library, logging, printing of the IR and of the AST: I/O and text.
  The fixed 30 bytes of a node's name (`syntax_tree.c:10`) and the uncaught
  `std::stoi` (`ast.cpp`) are listed as hazards; names and literals are
  abstract here.
- Uniquing of types and constants: they are compared by value.
- `var_val_stack` and the label counters of several functions after each other
  (but for `is_returned_record`): the passes are modelled on one function.
- Several options at once, so sequences of three passes and more, and the call of
  clang in the driver.
- `create_doms`, `remove_operands`, `dump_graph`: no caller, or only files.

## Plan

Every component of the inventory that is modelled is model-checked, and of the
properties without a proof each is listed above with what stands against it. What
would come next, for whoever goes on:

1. In `LoopInvHoist`, `NothingInvariantIsLeft` and `OperandsOfBlockStayAbove` for
   reducible graphs.
2. That what `SyntaxTree` makes of a program the grammar accepts is as
   `AreTyped` says but for the names and types: recursive functions in place of
   its operators.
3. `selection-stmt` and `iteration-stmt` in `SyntaxTree`.
