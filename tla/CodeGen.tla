------------------------------ MODULE CodeGen ------------------------------
(***************************************************************************)
(* The statement visitors of CminusfBuilder                                *)
(* (src/src/cminusfc/cminusf_builder.cpp): how the blocks, branches and    *)
(* labels of one function are made.                                        *)
(*                                                                         *)
(* The syntax tree is chosen while it is visited: when a visitor accepts a *)
(* child, the model picks which statement the child is.  frames is the     *)
(* C++ call stack of visitors.  An expression is what it does to the       *)
(* blocks: a number of checked array accesses, then perhaps instructions.  *)
(* A run of instructions that are not branches is one "op".                *)
(*                                                                         *)
(* exits, flow and dead_ends are not in the code.  They record, by the     *)
(* meaning of the statements (Documentations/common/cminusf.md), which     *)
(* statement may run after which, and behind which none may, for the graph *)
(* to be compared with.                                                    *)
(***************************************************************************)
EXTENDS Integers, Sequences, FiniteSets, SequencesExt

CONSTANTS
    MaxStatements,  \* bound: statements visited, compound statements not counted
    MaxWithArrays,  \* bound: the same where some expression accesses an array
    MaxFrames,      \* bound: visitors active at a time
    MaxIndexed,     \* bound: array accesses in an expression
    Features        \* what the programs may have beyond the plain ones:
                    \* "bare body": an if or while whose body has no braces
                    \* "inner block": a compound statement in a statement list
                    \* "indexed condition": a while that indexes an array in its condition

ASSUME BoundsAssumption ==
    /\ {MaxStatements, MaxWithArrays, MaxIndexed} \subseteq Nat
    /\ MaxWithArrays <= MaxStatements
    /\ MaxFrames \in Nat \ {0}
    /\ Features \subseteq {"bare body", "inner block", "indexed condition"}

VARIABLES
    blocks,              \* the function's blocks, in the order they were made
    insert,              \* builder's insert point
    curr_block, return_block,
    is_returned, is_returned_record,
    label_cnt,
    frames,              \* active visitors, the innermost last
    control,             \* "visit": a child is accepted; "back": it has returned; "end"
    statements,          \* statements visited, also the name of the last one
    exits,               \* the statements that control may leave to what comes next
    flow,                \* <<s, t>>: t may run right after s
    dead_ends            \* the selEndBBs of the ifs whose arms both return

codeVars == <<blocks, insert, curr_block, return_block>>
flagVars == <<is_returned, is_returned_record>>
specVars == <<exits, flow, dead_ends>>
vars == <<codeVars, flagVars, label_cnt, frames, control, statements, specVars>>

Start  == 0     \* where a function's flow starts
Return == -1    \* and ends: ret
-----------------------------------------------------------------------------
(***************************************************************************)
(* Blocks and instructions.  An op carries the statement it belongs to, 0  *)
(* for the ones that belong to none.                                       *)
(***************************************************************************)
NewBlock(kind, n) == [label |-> <<kind, n>>, instrs |-> <<>>, succ |-> {}, pre |-> {}]

\* BasicBlock::create; the new block is the last.
Create(bs, kind, n) == Append(bs, NewBlock(kind, n))

AddInstr(bs, b, op, s) == [bs EXCEPT ![b].instrs = Append(@, [op |-> op, of |-> s])]

\* Instructions that are not branches; a run of one statement's is one op.
AddOp(bs, b, s) ==
    IF bs[b].instrs # <<>> /\ Last(bs[b].instrs) = [op |-> "op", of |-> s]
    THEN bs ELSE AddInstr(bs, b, "op", s)

AddEdges(bs, b, targets) ==
    [i \in DOMAIN bs |->
        [bs[i] EXCEPT !.pre = IF i \in targets THEN @ \cup {b} ELSE @,
                      !.succ = IF i = b THEN @ \cup targets ELSE @]]

\* BranchInst::create_br and create_cond_br.
Br(bs, b, target) == AddInstr(AddEdges(bs, b, {target}), b, "br", 0)
CondBr(bs, b, if_true, if_false) ==
    AddInstr(AddEdges(bs, b, {if_true, if_false}), b, "cond_br", 0)

\* A wrong IndexCheck, which does not count the label it takes.
IndexCheckUncounted(c) ==
    LET neg == Len(c.blocks) + 1
        ok  == neg + 1
        n   == c.label_cnt + 1
        made == Create(Create(AddOp(c.blocks, c.at, 0), "arr_neg", n), "arr_ok", n)
    IN  [blocks |-> Br(AddOp(CondBr(made, c.at, neg, ok), neg, 0), neg, ok),
         at |-> ok, label_cnt |-> c.label_cnt]

\* The index check of ASTVar, made where at is: arr_neg and arr_ok are the two
\* blocks made last, and arr_ok the place to go on.
IndexCheck(c) ==
    LET neg == Len(c.blocks) + 1
        ok  == neg + 1
        n   == c.label_cnt + 1
        made == Create(Create(AddOp(c.blocks, c.at, 0), "arr_neg", n), "arr_ok", n)
    IN  [blocks |-> Br(AddOp(CondBr(made, c.at, neg, ok), neg, 0), neg, ok),
         at |-> ok, label_cnt |-> n]

\* An expression of statement s with n array accesses, evaluated at block b;
\* emits tells whether it leaves instructions after the last check.
Evaluate(bs, b, count, n, s, emits) ==
    LET checked[k \in 0..n] ==
            IF k = 0 THEN [blocks |-> bs, at |-> b, label_cnt |-> count]
            ELSE IndexCheck(checked[k - 1])
        e == checked[n]
    IN  [e EXCEPT !.blocks = IF emits THEN AddOp(@, e.at, s) ELSE @]
-----------------------------------------------------------------------------
(***************************************************************************)
(* ASTFunDeclaration, up to the visit of its body.  A parameter or a       *)
(* result leaves instructions in entry; the flags are what the function    *)
(* before left.                                                            *)
(***************************************************************************)
Init ==
    /\ \E allocas \in BOOLEAN :
         LET made == Create(<<NewBlock("entry", 0)>>, "returnBB", 0)
         IN  blocks = IF allocas THEN AddOp(made, 1, 0) ELSE made
    /\ insert = 1 /\ curr_block = 1 /\ return_block = 2
    /\ is_returned = FALSE
    /\ is_returned_record \in BOOLEAN
    /\ label_cnt = 0
    /\ frames = <<[kind |-> "compound"]>>
    /\ control = "back"
    /\ statements = 0
    /\ exits = {Start}
    /\ flow = {}
    /\ dead_ends = {}

\* A statement of its own starts: it may run after those control left.
Begin == statements' = statements + 1
Runs(s) == flow' = flow \cup (exits \X {s})

Below == Front(frames)
Top == Last(frames)
In(kind) == control = "back" /\ frames # <<>> /\ Top.kind = kind

\* Whether the bounds allow another statement, and the accesses it may make.
HasArrays == \E b \in DOMAIN blocks : blocks[b].label[1] = "arr_ok"
MayVisit == statements < IF HasArrays THEN MaxWithArrays ELSE MaxStatements
Accesses == IF statements < MaxWithArrays THEN 0..MaxIndexed ELSE {0}

\* A statement is to be visited, by a compound statement or as a body.
Visits == control = "visit" /\ MayVisit
MayBeBare == Top.kind = "compound" \/ "bare body" \in Features

(***************************************************************************)
(* ASTCompoundStmt.                                                        *)
(***************************************************************************)
VisitCompound ==
    /\ control = "visit" /\ Len(frames) < MaxFrames
    /\ Top.kind = "compound" => "inner block" \in Features
    /\ \E allocas \in BOOLEAN :
         blocks' = IF allocas THEN AddOp(blocks, insert, 0) ELSE blocks
    /\ is_returned' = FALSE
    /\ frames' = Append(frames, [kind |-> "compound"])
    /\ control' = "back"
    /\ UNCHANGED <<insert, curr_block, return_block, is_returned_record, label_cnt,
                   statements, specVars>>

\* A wrong NextStatement, which goes on behind a return.
NextStatementBehindReturn ==
    /\ In("compound") /\ MayVisit
    /\ control' = "visit"
    /\ UNCHANGED <<codeVars, flagVars, label_cnt, frames, statements, specVars>>

NextStatement ==
    /\ In("compound") /\ ~is_returned /\ MayVisit
    /\ control' = "visit"
    /\ UNCHANGED <<codeVars, flagVars, label_cnt, frames, statements, specVars>>

\* A wrong LeaveCompound, whose record of a return is never taken back.
LeaveCompoundSticky ==
    /\ In("compound")
    /\ is_returned_record' = (is_returned_record \/ is_returned)
    /\ is_returned' = FALSE
    /\ frames' = Below
    /\ UNCHANGED <<codeVars, label_cnt, control, statements, specVars>>

\* The list has ended, or a return statement has ended the loop over it.
LeaveCompound ==
    /\ In("compound")
    /\ is_returned_record' = is_returned
    /\ is_returned' = FALSE
    /\ frames' = Below
    /\ UNCHANGED <<codeVars, label_cnt, control, statements, specVars>>

(***************************************************************************)
(* ASTExpressionStmt and ASTReturnStmt.  An expression statement without   *)
(* instructions, such as 1;, is as good as none and is left out.           *)
(***************************************************************************)
\* A wrong VisitExpression, which moves the insert point alone.
VisitExpressionInBlock ==
    /\ Visits /\ MayBeBare
    /\ \E n \in Accesses :
         LET e == Evaluate(blocks, insert, label_cnt, n, statements + 1, TRUE)
         IN  /\ blocks' = e.blocks /\ label_cnt' = e.label_cnt
             /\ insert' = e.at
    /\ Begin /\ Runs(statements + 1)
    /\ exits' = {statements + 1}
    /\ control' = "back"
    /\ UNCHANGED <<curr_block, return_block, flagVars, frames, dead_ends>>

VisitExpression ==
    /\ Visits /\ MayBeBare
    /\ \E n \in Accesses :
         LET e == Evaluate(blocks, insert, label_cnt, n, statements + 1, TRUE)
         IN  /\ blocks' = e.blocks /\ label_cnt' = e.label_cnt
             /\ insert' = e.at
             /\ curr_block' = IF n > 0 THEN e.at ELSE curr_block
    /\ Begin /\ Runs(statements + 1)
    /\ exits' = {statements + 1}
    /\ control' = "back"
    /\ UNCHANGED <<return_block, flagVars, frames, dead_ends>>

VisitReturn ==
    /\ Visits /\ MayBeBare
    /\ \E n \in Accesses, emits \in BOOLEAN :
         LET e == Evaluate(blocks, insert, label_cnt, n, statements + 1, emits)
         IN  /\ n > 0 => emits
             /\ blocks' = Br(e.blocks, e.at, return_block) /\ label_cnt' = e.label_cnt
             /\ insert' = e.at
             /\ curr_block' = IF n > 0 THEN e.at ELSE curr_block
             /\ flow' = flow \cup IF emits
                                  THEN (exits \X {statements + 1}) \cup {<<statements + 1, Return>>}
                                  ELSE exits \X {Return}
    /\ exits' = {}
    /\ is_returned' = TRUE /\ is_returned_record' = TRUE
    /\ Begin
    /\ control' = "back"
    /\ UNCHANGED <<return_block, frames, dead_ends>>

(***************************************************************************)
(* ASTSelectionStmt: the condition, then the two arms, then the branches.  *)
(***************************************************************************)
VisitSelection ==
    /\ Visits /\ MayBeBare /\ Len(frames) + 2 <= MaxFrames
    /\ \E n \in Accesses :
         LET e == Evaluate(blocks, insert, label_cnt, n, statements + 1, TRUE)
             trueBB == Len(e.blocks) + 1
         IN  /\ blocks' = Create(e.blocks, "selTrueBB", e.label_cnt + 1)
             /\ label_cnt' = e.label_cnt + 1
             /\ frames' = Append(frames,
                    [kind |-> "then", label_now |-> label_cnt', trueBB |-> trueBB,
                     orig_block |-> IF n > 0 THEN e.at ELSE curr_block,
                     cond |-> statements + 1])
             /\ insert' = trueBB /\ curr_block' = trueBB
    /\ Begin /\ Runs(statements + 1)
    /\ exits' = {statements + 1}
    /\ control' = "visit"
    /\ UNCHANGED <<return_block, flagVars, dead_ends>>

\* The branch an arm ends with, unless it has returned.
EndArm(bs, location, returned, endBB) == IF returned THEN bs ELSE Br(bs, location, endBB)

\* A wrong EndIf, which branches to an endBB that is never made.
EndIfUnmade ==
    /\ In("then")
    /\ LET endBB == Len(blocks) + 1
       IN  /\ blocks' = EndArm(CondBr(blocks, Top.orig_block, Top.trueBB, endBB),
                               curr_block, is_returned_record, endBB)
           /\ insert' = endBB /\ curr_block' = endBB
    /\ is_returned' = FALSE
    /\ exits' = exits \cup {Top.cond}
    /\ frames' = Below
    /\ UNCHANGED <<return_block, is_returned_record, label_cnt, control, statements, flow,
                   dead_ends>>

\* if without else.
EndIf ==
    /\ In("then")
    /\ LET made == Create(blocks, "selEndBB", Top.label_now)
           endBB == Len(made)
       IN  /\ blocks' = EndArm(CondBr(made, Top.orig_block, Top.trueBB, endBB),
                               curr_block, is_returned_record, endBB)
           /\ insert' = endBB /\ curr_block' = endBB
    /\ is_returned' = FALSE
    /\ exits' = exits \cup {Top.cond}
    /\ frames' = Below
    /\ UNCHANGED <<return_block, is_returned_record, label_cnt, control, statements, flow,
                   dead_ends>>

VisitElse ==
    /\ In("then")
    /\ LET made == Create(blocks, "selFalseBB", Top.label_now)
           falseBB == Len(made)
       IN  /\ blocks' = made
           /\ frames' = Append(Below,
                  [kind |-> "else", label_now |-> Top.label_now, trueBB |-> Top.trueBB,
                   orig_block |-> Top.orig_block, falseBB |-> falseBB,
                   trueBB_location |-> curr_block, trueBB_returned |-> is_returned_record,
                   trueExits |-> exits])
           /\ insert' = falseBB /\ curr_block' = falseBB
    /\ exits' = {Top.cond}
    /\ control' = "visit"
    /\ UNCHANGED <<return_block, flagVars, label_cnt, statements, flow, dead_ends>>

EndElse ==
    /\ In("else")
    /\ LET made == Create(blocks, "selEndBB", Top.label_now)
           endBB == Len(made)
           branched == CondBr(made, Top.orig_block, Top.trueBB, Top.falseBB)
           trueEnded == EndArm(branched, Top.trueBB_location, Top.trueBB_returned, endBB)
           falseEnded == EndArm(trueEnded, curr_block, is_returned_record, endBB)
       IN  /\ blocks' = IF falseEnded[curr_block].instrs = <<>>
                        THEN Br(falseEnded, curr_block, endBB) ELSE falseEnded
           /\ insert' = endBB /\ curr_block' = endBB
    /\ is_returned' = FALSE
    /\ exits' = exits \cup Top.trueExits
    /\ dead_ends' = IF exits' = {} THEN dead_ends \cup {insert'} ELSE dead_ends
    /\ frames' = Below
    /\ UNCHANGED <<return_block, is_returned_record, label_cnt, control, statements, flow>>

(***************************************************************************)
(* ASTIterationStmt.  The conditional branch is put into startBB, wherever *)
(* the condition has been evaluated to.                                    *)
(***************************************************************************)
VisitIteration ==
    /\ Visits /\ MayBeBare /\ Len(frames) + 2 <= MaxFrames
    /\ \E n \in Accesses :
         LET startBB == Len(blocks) + 1
             entered == Br(Create(blocks, "loopStartBB", label_cnt + 1), insert, startBB)
             e == Evaluate(entered, startBB, label_cnt + 1, n, statements + 1, TRUE)
             bodyBB == Len(e.blocks) + 1
         IN  /\ n > 0 => "indexed condition" \in Features
             /\ blocks' = Create(e.blocks, "loopBodyBB", label_cnt + 1)
             /\ label_cnt' = e.label_cnt
             /\ frames' = Append(frames,
                    [kind |-> "body", label_now |-> label_cnt + 1, startBB |-> startBB,
                     bodyBB |-> bodyBB, cond |-> statements + 1])
             /\ insert' = bodyBB /\ curr_block' = bodyBB
    /\ Begin /\ Runs(statements + 1)
    /\ exits' = {statements + 1}
    /\ control' = "visit"
    /\ UNCHANGED <<return_block, flagVars, dead_ends>>

\* A wrong EndIteration, whose condition always enters the body.
EndIterationNeverLeaving ==
    /\ In("body")
    /\ LET ended == IF is_returned_record THEN blocks ELSE Br(blocks, insert, Top.startBB)
           made == Create(ended, "loopEndBB", Top.label_now)
           endBB == Len(made)
       IN  /\ blocks' = Br(made, Top.startBB, Top.bodyBB)
           /\ insert' = endBB /\ curr_block' = endBB
    /\ is_returned' = FALSE
    /\ Runs(Top.cond)
    /\ exits' = {Top.cond}
    /\ frames' = Below
    /\ UNCHANGED <<return_block, is_returned_record, label_cnt, control, statements, dead_ends>>

EndIteration ==
    /\ In("body")
    /\ LET ended == IF is_returned_record THEN blocks ELSE Br(blocks, insert, Top.startBB)
           made == Create(ended, "loopEndBB", Top.label_now)
           endBB == Len(made)
       IN  /\ blocks' = CondBr(made, Top.startBB, Top.bodyBB, endBB)
           /\ insert' = endBB /\ curr_block' = endBB
    /\ is_returned' = FALSE
    /\ Runs(Top.cond)
    /\ exits' = {Top.cond}
    /\ frames' = Below
    /\ UNCHANGED <<return_block, is_returned_record, label_cnt, control, statements, dead_ends>>

(***************************************************************************)
(* ASTFunDeclaration, after its body.                                      *)
(***************************************************************************)
EndFunction ==
    /\ control = "back" /\ frames = <<>>
    /\ LET returns == AddInstr(blocks, return_block, "ret", Return)
           falls == returns[curr_block].instrs = <<>>
       IN  /\ blocks' = IF falls THEN Br(returns, curr_block, return_block) ELSE returns
           /\ insert' = IF falls THEN curr_block ELSE return_block
    /\ flow' = flow \cup (exits \X {Return})
    /\ control' = "end"
    /\ UNCHANGED <<curr_block, return_block, flagVars, label_cnt, frames, statements, exits,
                   dead_ends>>

Done == control = "end" /\ UNCHANGED vars

Next ==
    \/ VisitCompound \/ NextStatement \/ LeaveCompound
    \/ VisitExpression \/ VisitReturn
    \/ VisitSelection \/ EndIf \/ VisitElse \/ EndElse
    \/ VisitIteration \/ EndIteration
    \/ EndFunction \/ Done

Spec == Init /\ [][Next]_vars
-----------------------------------------------------------------------------
BlockIndex == DOMAIN blocks

Kinds == {"entry", "returnBB", "arr_neg", "arr_ok", "selTrueBB", "selFalseBB",
          "selEndBB", "loopStartBB", "loopBodyBB", "loopEndBB"}

Instrs == [op : {"op", "br", "cond_br", "ret"}, of : -1..MaxStatements]

TypeOK ==
    /\ \A b \in BlockIndex :
         /\ blocks[b].label \in Kinds \X Nat
         /\ blocks[b].instrs \in Seq(Instrs)
         /\ blocks[b].succ \subseteq BlockIndex /\ blocks[b].pre \subseteq BlockIndex
    /\ {insert, curr_block, return_block} \subseteq BlockIndex
    /\ {is_returned, is_returned_record} \subseteq BOOLEAN
    /\ label_cnt \in Nat
    /\ Len(frames) <= MaxFrames
    /\ \A i \in 1..Len(frames) : frames[i].kind \in {"compound", "then", "else", "body"}
    /\ control \in {"visit", "back", "end"}
    /\ statements \in 0..MaxStatements
    /\ exits \subseteq 0..MaxStatements
    /\ flow \subseteq (0..MaxStatements) \X (-1..MaxStatements)
    /\ dead_ends \subseteq BlockIndex

(***************************************************************************)
(* The flow between statements in the blocks that were made.               *)
(***************************************************************************)
\* The statements in block b, in order.
Marks(b) == SelectSeq(blocks[b].instrs, LAMBDA i : i.of # 0)

\* The statements that run first from the start of each block on: a block
\* that holds none leads where its successors lead.
Leads ==
    LET pass(leads, k) ==
            [b \in BlockIndex |->
                IF Marks(b) # <<>> THEN {Head(Marks(b)).of}
                ELSE UNION {leads[t] : t \in blocks[b].succ}]
    IN  FoldLeft(pass, [b \in BlockIndex |-> {}], [k \in BlockIndex |-> k])

FlowOfBlocks ==
    LET leads == Leads
        within(b) == {<<Marks(b)[i].of, Marks(b)[i + 1].of>> : i \in 1..(Len(Marks(b)) - 1)}
        leaving(b) == IF Marks(b) = <<>> THEN {}
                      ELSE {Last(Marks(b)).of} \X UNION {leads[t] : t \in blocks[b].succ}
    IN  ({Start} \X leads[1]) \cup UNION {within(b) \cup leaving(b) : b \in BlockIndex}

ReachedFrom(starts) ==
    FoldLeft(LAMBDA S, b : S \cup UNION {blocks[a].succ : a \in S}, starts,
             [b \in BlockIndex |-> b])

\* A body may run off its end after an instruction: its last block is then
\* left without a terminator (only an empty one is given a br, and is insert).
RunsOffItsEnd == control = "end" /\ exits # {} /\ insert = return_block

IsTerminator(i) == i.op \in {"br", "cond_br", "ret"}
Cut(b) == RunsOffItsEnd /\ b = curr_block
-----------------------------------------------------------------------------
(***************************************************************************)
(* Properties.                                                             *)
(***************************************************************************)

\* A terminator is the last instruction of its block, at any time: no visitor
\* goes on in a block that another, or it itself, has closed.
NothingAfterTerminator ==
    \A b \in BlockIndex : \A i \in 1..(Len(blocks[b].instrs) - 1) :
        ~IsTerminator(blocks[b].instrs[i])

\* In the finished function every block has its terminator, although branches
\* are added by a visitor other than the one that filled the block; all but
\* the last block of a body that runs off its end.
EveryBlockIsClosed ==
    control = "end" =>
        \A b \in BlockIndex :
            \/ Cut(b)
            \/ blocks[b].instrs # <<>> /\ IsTerminator(Last(blocks[b].instrs))

\* The builder's insert point and curr_block, which are moved separately and
\* of which each visitor uses the one or the other, agree between statements.
InsertsIntoCurrBlock == control # "end" => insert = curr_block

\* No two blocks of a function get the same label.
LabelsAreUnique ==
    \A a, b \in BlockIndex : blocks[a].label = blocks[b].label => a = b

\* The blocks run the statements in the orders the language gives them, and in
\* no others, and return where it says: through if, else, while and return, however
\* they are nested, and at the end of the body.
RunsAsWritten == control = "end" => FlowOfBlocks = flow

\* The same but for the end of the body: one that ends with an instruction instead
\* of a return statement is left without the branch to returnBB, and loses this one
\* way to return (RunsAsWritten fails by that).
RunsAsWrittenButOffItsEnd ==
    control = "end" =>
        FlowOfBlocks = IF RunsOffItsEnd THEN flow \ (exits \X {Return}) ELSE flow

\* A finished function has unreachable code only behind an if whose arms both
\* return, and a returnBB no return statement leads to: a visitor that leaves out
\* the branch of an arm that goes on leaves an end that is neither.
DeadCodeIsBehindReturningIf ==
    LET cold == {b \in BlockIndex : blocks[b].pre = {}}
    IN  control = "end" =>
            /\ cold \subseteq {1, return_block} \cup dead_ends
            /\ ReachedFrom(cold) = BlockIndex
=============================================================================
