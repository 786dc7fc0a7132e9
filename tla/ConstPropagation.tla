-------------------------- MODULE ConstPropagation --------------------------
(***************************************************************************)
(* The ConstPropagation pass (src/src/optimization/ConstPropagation.cpp)   *)
(* on the function that Mem2Reg leaves, as the driver orders them          *)
(* (src/src/cminusfc/cminusfc.cpp), and then the function before and after *)
(* the pass running on the same input.                                     *)
(*                                                                         *)
(* The pass goes over the blocks of the function twice, instruction by     *)
(* instruction.  Both rounds fold instructions and phis; the first only    *)
(* notes which way constant conditions go, the second takes it: the target *)
(* taken is merged into the block that branches, blocks are removed, and   *)
(* the loops over the lists go on over what has changed.                   *)
(***************************************************************************)
EXTENDS BeforeAndAfter

VARIABLES
    round, bb, instr,
    wait_delete,
    true_block, flase_block,    \* labels taken, and not taken
    merged,         \* the branches taken in round 2: the block given had it in, its
                    \* target taken, the other one, whether it was the first
    chosen          \* for each phi folded: the label its value came with

loopVars == <<round, bb, instr, wait_delete>>
takenVars == <<true_block, flase_block, merged, chosen>>
foldVars == <<loopVars, takenVars>>
allVars == <<vars, runVars, foldVars>>

PropagationStart ==
    /\ round = 0 /\ bb = Null /\ instr = 0 /\ wait_delete = <<>>
    /\ true_block = {} /\ flase_block = {} /\ merged = {} /\ chosen = {}

PropagationInit == RunsInit /\ PropagationStart

StartPass ==
    /\ GivePass("const_propagation")
    /\ round' = 1 /\ bb' = Head(f.blocks) /\ instr' = 1 /\ wait_delete' = <<>>
    /\ UNCHANGED takenVars
-----------------------------------------------------------------------------
IsInt(v) == v[1] = "const"
IsFp(v) == v[1] = "fp"

\* Whether run folds instruction i to a constant: compute of two constants of
\* one type, a comparison of such, or of one with a ConstantZero, or a cast.
IsFolded(i) ==
    LET a == f.args[i]
    IN  \/ f.op[i] \in Binary /\ ((IsInt(a[1]) /\ IsInt(a[2])) \/ (IsFp(a[1]) /\ IsFp(a[2])))
        \/ f.op[i] \in ICmp /\ IsInt(a[1]) /\ (IsInt(a[2]) \/ a[2] = Zero)
        \/ f.op[i] \in FCmp /\ IsFp(a[1]) /\ (IsFp(a[2]) \/ a[2] = Zero)
        \/ f.op[i] \in {"sitofp", "zext"} /\ IsInt(a[1])
        \/ f.op[i] = "fptosi" /\ IsFp(a[1])

\* The constant.  Against a ConstantZero every comparison is taken for !=.
FoldedValue(i) ==
    LET a == f.args[i]
    IN  IF Len(a) = 2 /\ a[2] = Zero THEN Const(IF Number(a[1]) # 0 THEN 1 ELSE 0)
        ELSE Compute(f.op[i], a)

Divides0(i) == f.op[i] = "sdiv" /\ f.args[i][2] = Const(0)

\* The pairs of value and label phi i may be folded to, in the order they are
\* tried: only the first two pairs are looked at, and each stands for the other
\* when that comes from a block not taken.  What a phi of one pair has behind its
\* operands is no label.
PhiChoices(i) ==
    LET a == f.args[i]
        label(n) == IF n <= Len(a) THEN a[n] ELSE Undef
        tried == << <<label(2) \in true_block, 1>>, <<label(4) \in true_block, 3>>,
                    <<label(2) \in flase_block, 3>>, <<label(4) \in flase_block, 1>> >>
    IN  SelectSeq(tried, LAMBDA c : c[1])

IsConstantBranch(i) == f.op[i] = "br" /\ Len(f.args[i]) = 3 /\ IsInt(f.args[i][1])

\* The loop has come to instruction i.
At(i) == stage = "pass" /\ instr <= Len(f.code[bb]) /\ i = f.code[bb][instr]

Step ==
    /\ instr' = instr + 1
    /\ UNCHANGED <<source, passVars, machine, option, given, was, is, round, bb>>

Fold ==
    /\ \E i \in Placed(f) :
         /\ At(i) /\ IsFolded(i) /\ ~Divides0(i)
         /\ f' = ReplaceAllUseWith(f, i, FoldedValue(i))
         /\ wait_delete' = Append(wait_delete, i)
    /\ Step
    /\ UNCHANGED <<stage, takenVars>>

\* The compiler divides by zero itself.
FoldCrashes ==
    /\ \E i \in Placed(f) : At(i) /\ IsFolded(i) /\ Divides0(i)
    /\ stage' = "crashed"
    /\ UNCHANGED <<vars, option, given, was, is, foldVars>>

FoldPhi ==
    /\ \E i \in Placed(f) :
         /\ At(i) /\ IsPhi(i) /\ PhiChoices(i) # <<>>
         /\ LET n == Head(PhiChoices(i))[2]
            IN  /\ f' = ReplaceAllUseWith(f, i, f.args[i][n])
                /\ chosen' = chosen \cup {<<i, f.args[i][n + 1]>>}
         /\ wait_delete' = Append(wait_delete, i)
    /\ Step
    /\ UNCHANGED <<stage, true_block, flase_block, merged>>

\* Block to is merged into bb: its instructions, the branch at their end
\* included, are appended to the list the loop is going over.
Merge(g, to) == [g EXCEPT !.code[bb] = @ \o g.code[to]]

\* A wrong TakeFirst, which always removes the second target.
TakeFirstAlone(a) ==
    RemoveBlock(Merge(RemoveBlock(f, BlockOf(a[3])), BlockOf(a[2])), BlockOf(a[2]))

\* A wrong TakeFirst, which leaves the merged block in the function.
TakeFirstTwice(a) ==
    LET T == BlockOf(a[2])
        F == BlockOf(a[3])
    IN  Merge(IF F \in ToSet(f.succ[T]) THEN f ELSE RemoveBlock(f, F), T)

\* What becomes of the blocks when the branch a goes to its first target: the
\* second is removed unless the first leads to it.
TakeFirst(a) ==
    LET T == BlockOf(a[2])
        F == BlockOf(a[3])
    IN  RemoveBlock(Merge(IF F \in ToSet(f.succ[T]) THEN f ELSE RemoveBlock(f, F), T), T)

\* And to its second: the first is removed; the second is unless the first leads
\* to it.
TakeSecond(a) ==
    LET T == BlockOf(a[2])
        F == BlockOf(a[3])
        g == RemoveBlock(f, T)
    IN  Merge(IF F \in ToSet(g.succ[T]) THEN g ELSE RemoveBlock(g, F), F)

TakeBranch ==
    /\ \E i \in Placed(f) :
         /\ At(i) /\ IsConstantBranch(i)
         /\ LET a == f.args[i]
                first == a[1] = Const(1)
                taken == IF first THEN a[2] ELSE a[3]
                other == IF first THEN a[3] ELSE a[2]
            IN  /\ true_block' = true_block \cup {taken}
                /\ flase_block' = flase_block \cup {other}
                /\ IF round = 1 THEN UNCHANGED <<f, wait_delete, merged>>
                   ELSE /\ f' = IF first THEN TakeFirst(a) ELSE TakeSecond(a)
                        /\ wait_delete' = Append(wait_delete, i)
                        /\ merged' = merged \cup {[from |-> i[2], to |-> BlockOf(taken),
                                                    other |-> BlockOf(other), first |-> first]}
    /\ Step
    /\ UNCHANGED <<stage, chosen>>

SkipInstr ==
    /\ \E i \in Placed(f) :
         /\ At(i) /\ ~IsFolded(i) /\ ~IsConstantBranch(i)
         /\ IsPhi(i) => PhiChoices(i) = <<>>
    /\ Step
    /\ UNCHANGED <<stage, f, wait_delete, takenVars>>

\* A wrong EndBlock, which starts a third round.
EndBlockOnceMore ==
    /\ stage = "pass" /\ instr > Len(f.code[bb])
    /\ f' = FoldLeft(LAMBDA g, i : DeleteInstr(g, bb, i), f, wait_delete)
    /\ wait_delete' = <<>> /\ instr' = 1
    /\ IF bb # Last(f.blocks)
       THEN bb' = f.blocks[SelectInSeq(f.blocks, LAMBDA b : b = bb) + 1] /\ UNCHANGED <<round, stage>>
       ELSE /\ bb' = Head(f.blocks) /\ round' = round + 1
            /\ stage' = IF round = 3 THEN "before" ELSE stage
    /\ UNCHANGED <<source, passVars, machine, option, given, was, is, takenVars>>

\* bb is done: what was folded is deleted.  The next block of the list follows,
\* after the last one the next round, then the pass is over.
EndBlock ==
    /\ stage = "pass" /\ instr > Len(f.code[bb])
    /\ f' = FoldLeft(LAMBDA g, i : DeleteInstr(g, bb, i), f, wait_delete)
    /\ wait_delete' = <<>> /\ instr' = 1
    /\ IF bb # Last(f.blocks)
       THEN bb' = f.blocks[SelectInSeq(f.blocks, LAMBDA b : b = bb) + 1] /\ UNCHANGED <<round, stage>>
       ELSE /\ bb' = Head(f.blocks) /\ round' = round + 1
            /\ stage' = IF round = 2 THEN "before" ELSE stage
    /\ UNCHANGED <<source, passVars, machine, option, given, was, is, takenVars>>

Propagate ==
    \/ StartPass
    \/ Fold \/ FoldCrashes \/ FoldPhi \/ TakeBranch \/ SkipInstr \/ EndBlock

\* Mem2Reg, then the pass, then the functions before and after it run.
PropagationNext ==
    \/ control # "run" /\ Next /\ UNCHANGED <<runVars, foldVars>>
    \/ Propagate
    \/ Run /\ UNCHANGED foldVars

PropagationSpec == PropagationInit /\ [][PropagationNext]_allVars
-----------------------------------------------------------------------------
(***************************************************************************)
(* The pass is right on functions where each choice it makes is: it only   *)
(* looks at a branch and its targets, never at how else they are reached.  *)
(***************************************************************************)
\* The graph of the given function, constant branches going one way only.
Pruned ==
    [b \in Blocks |->
        LET taken == {m.to : m \in {n \in merged : n.from = b}}
        IN  IF taken = {} THEN ToSet(given.succ[b]) ELSE taken]

\* The blocks control may come to b from.
Sources(b) == {p \in PreBlocks(Pruned, b) : IsReachable(Pruned, p)}

\* Where a branch goes only that branch goes, and nothing goes where it does not,
\* unless the block stays: as the next block of a target that is merged.
OnlyWay(m) ==
    LET follows(b, c) == c \in ToSet(given.succ[b])
    IN  /\ Sources(m.to) = {m.from} \/ (~m.first /\ follows(m.other, m.to))
        /\ ~IsReachable(Pruned, m.other) \/ (m.first /\ follows(m.to, m.other))

\* A phi takes the value of the only block control may come from; or it keeps the
\* blocks it names, and none of them, nor its own, is merged into another.
RightPhi(i) ==
    LET at == i[2]
        moved == {m.to : m \in merged}
    IN  IF \E c \in chosen : c[1] = i
        THEN \A c \in chosen : c[1] = i => Sources(at) \subseteq {BlockOf(c[2])}
        ELSE ({at} \cup Sources(at)) \cap moved = {}

ChoicesAreRight ==
    \A b \in {c \in Blocks : IsReachable(Pruned, c)} :
        /\ \A m \in merged : m.from = b => OnlyWay(m)
        /\ \A i \in PhisIn(given, b) : RightPhi(i)

\* Where its choices are right, the function the pass leaves puts out what the
\* given one does.
RunsAsGiven ==
    option = "const_propagation" /\ stage = "end" /\ ChoicesAreRight => SameOutput

\* Functions as the statement visitors make them: a conditional branch goes to
\* blocks made for it, behind its own block in the list of the function and the
\* targets of no other conditional branch.
IsFork(g, i) == g.op[i] = "br" /\ Len(g.args[i]) = 3

ForksGoForward(g) ==
    \A m \in DOMAIN g.blocks : \A i \in ToSet(g.code[g.blocks[m]]) :
        IsFork(g, i) =>
            \A n \in {2, 3} : \E k \in (m + 1)..Len(g.blocks) : g.args[i][n] = Label(g.blocks[k])

ForksOwnTheirTargets(g) ==
    \A i, j \in Placed(g) :
        IsFork(g, i) /\ IsFork(g, j) /\ i # j =>
            {g.args[i][2], g.args[i][3]} \cap {g.args[j][2], g.args[j][3]} = {}

\* Where the branches in block b go.
Targets(g, b) ==
    UNION {IF IsFork(g, i) THEN {BlockOf(g.args[i][2]), BlockOf(g.args[i][3])}
           ELSE {BlockOf(g.args[i][1])} :
              i \in {j \in ToSet(g.code[b]) : g.op[j] = "br"}}

\* Each block ends with its only branch or return.  An instruction is named for
\* the block it is made in.
IsEnd(op) == op \in {"br", "ret"}

EndsItsBlocks(g) ==
    \A b \in ToSet(g.blocks) :
        /\ g.code[b] # <<>>
        /\ \A k \in DOMAIN g.code[b] :
             /\ IsEnd(g.op[g.code[b][k]]) <=> k = Len(g.code[b])
             /\ g.code[b][k][2] = b

\* The lists of neighbours are those of the branches.
ListsFollowBranches(g) ==
    \A b \in ToSet(g.blocks) :
        /\ ToSet(g.succ[b]) = Targets(g, b)
        /\ ToSet(g.pre[b]) = {c \in ToSet(g.blocks) : b \in ToSet(g.succ[c])}

\* The loop over the blocks stands at a block of the function, whatever has been
\* removed, and goes round twice.
LoopStandsOnBlock ==
    /\ stage \in {"waiting", "pass", "crashed", "before", "after", "end"}
    /\ option = "const_propagation" /\ stage = "pass" =>
         round \in {1, 2} /\ bb \in ToSet(f.blocks) /\ instr \in 1..(Len(f.code[bb]) + 1)

HasMerged(b) == \E i \in ToSet(f.code[b]) : i[2] # b

\* Behind the pass the lists of neighbours, which later passes go by, are those
\* of the branches, but for a block that another was merged into: its list has
\* nothing of the branch that came with it.
ListsFollowBranchesNotMerged ==
    stage = "before" =>
        \A b \in ToSet(f.blocks) :
            /\ HasMerged(b) \/ ToSet(f.succ[b]) = Targets(f, b) \cap ToSet(f.blocks)
            /\ ToSet(f.pre[b]) = {c \in ToSet(f.blocks) : b \in ToSet(f.succ[c])}

\* The call of neg_idx_except() by an index check.
NegIdxExcept == Const(-1)

\* A constant index ends the program only when the check of the given function
\* does: when it is negative.
AbortsOnNegativeIndexOnly ==
    stage = "end" /\ NegIdxExcept \in ToSet(is.all) => NegIdxExcept \in ToSet(was.all)

\* An instruction is in one block only, unless a constant false if without else
\* was folded whose body leads to the end.
OneBlockPerInstruction ==
    stage = "before" =>
        \A b, c \in ToSet(f.blocks) :
            b # c /\ ToSet(f.code[b]) \cap ToSet(f.code[c]) # {}
                => \E m \in merged : ~m.first /\ m.to \in ToSet(given.succ[m.other])
=============================================================================
