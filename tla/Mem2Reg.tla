------------------------------ MODULE Mem2Reg ------------------------------
(***************************************************************************)
(* The Mem2Reg pass (src/src/optimization/Mem2Reg.cpp) on one function,    *)
(* with what Dominators has found, and then the function it leaves running.*)
(*                                                                         *)
(* The recursion of re_name is the stack frames: a block is renamed when   *)
(* it is entered (steps 3 to 6) and cleaned up when it is left (step 7).   *)
(* Children of the dominator tree are kept in a set ordered by address, so *)
(* any order may be taken.                                                 *)
(***************************************************************************)
EXTENDS ControlFlow, LightIR

CONSTANTS
    Locals,      \* scalar variables, each with an alloca
    Globals,     \* global variables, and cells reached through a getelementptr
    Functions    \* the functions considered

Scalars == {Variable(v) : v \in Locals}
Memory == Scalars \cup {Variable(v) : v \in Globals}


VARIABLES
    source,         \* the function the pass is given
    f,              \* the function as the pass leaves it so far
    control,        \* "phi", "rename", "alloca", "run", "aborted"
    to_place,       \* global_live_var_name, the variables not done yet
    work_list,
    var_val_stack,
    frames,         \* active calls of re_name
    names,          \* for each renamed block, the name of each variable at its end
    machine         \* the function running

passVars == <<control, to_place, work_list, var_val_stack, frames, names>>
vars == <<source, f, passVars, machine>>

Graph(g) == [b \in Blocks |-> ToSet(g.succ[b])]

\* A function as the IR builder makes it: an instruction is in one place and has
\* its operands, a store its variable second, a branch its labels last, there is
\* no phi, and no block leads to another twice (as one does that CodeGen's second
\* terminator has been put into).
BuiltByIRBuilder(g) ==
    /\ DOMAIN g = {"code", "op", "args", "uses", "blocks", "succ", "pre"}
    /\ g.succ \in [Blocks -> Seq(Blocks)] /\ g.pre \in [Blocks -> Seq(Blocks)]
    /\ Graph(g) \in CFGs
    /\ g.blocks \in Seq(Blocks) /\ IsInjective(g.blocks) /\ Entry \in ToSet(g.blocks)
    /\ \A b \in Blocks : Graph(g)[b] \subseteq ToSet(g.blocks) /\ IsInjective(g.succ[b])
    /\ g.code \in [Blocks -> Seq(DOMAIN g.op)]
    /\ \A b \in Blocks : IsInjective(g.code[b])
    /\ \A b, c \in Blocks : b # c => ToSet(g.code[b]) \cap ToSet(g.code[c]) = {}
    /\ DOMAIN g.op = DOMAIN g.args /\ g.uses = UsesOf(g.args)
    /\ \A i \in DOMAIN g.op :
         /\ i[1] = "i"
         /\ g.op[i] = "load" => g.args[i] = <<g.args[i][1]>> /\ g.args[i][1] \in Memory
         /\ g.op[i] = "store" =>
              g.args[i] = <<g.args[i][1], g.args[i][2]>> /\ g.args[i][2] \in Memory
         /\ g.op[i] = "br" => \/ \E b \in Blocks : g.args[i] = <<Label(b)>>
                              \/ \E b, c \in Blocks : g.args[i] = <<g.args[i][1], Label(b), Label(c)>>

ASSUME FunctionsAssumption == \A g \in Functions : BuiltByIRBuilder(g)

\* dominators_->get_dominance_frontier(b).
Frontier(g, b) ==
    {c \in Blocks : /\ ~StrictlyDominates(g, b, c)
                    /\ \E p \in PreBlocks(g, c) : Dominates(g, b, p)
                    /\ IsReachable(g, c)}

\* dominators_->get_dom_tree_succ_blocks(b).
Children(g, b) ==
    {c \in Blocks \ {b} : /\ StrictlyDominates(g, b, c)
                          /\ \A d \in Blocks : StrictlyDominates(g, d, c) => Dominates(g, d, b)
                          /\ IsReachable(g, c)}
-----------------------------------------------------------------------------
(***************************************************************************)
(* generate_phi.                                                           *)
(***************************************************************************)
\* A wrong Promoted, which takes every variable.
PromotedAlways(v) == TRUE

Promoted(v) == v \notin {Variable(g) : g \in Globals}   \* neither global nor from a gep

Stores(g, v, b) == \E i \in ToSet(g.code[b]) : g.op[i] = "store" /\ g.args[i][2] = v

StoredVariables(g) == {v \in Memory : Promoted(v) /\ \E b \in Blocks : Stores(g, v, b)}

Init ==
    /\ source \in Functions
    /\ f = source
    /\ control = "phi"
    /\ to_place = StoredVariables(source)
    /\ work_list = <<>>
    /\ var_val_stack = <<>>
    /\ frames = <<>>
    /\ names = <<>>
    /\ machine = [at |-> Null, env |-> <<>>, mem |-> [v \in Memory |-> Undef], out |-> <<>>]

\* The next variable: its work list is the blocks that store it.
NextVariable ==
    /\ control = "phi" /\ work_list = <<>>
    /\ \E v \in to_place :
         /\ work_list' = SetToSeq({<<b, v>> : b \in {c \in Blocks : Stores(f, v, c)}})
         /\ to_place' = to_place \ {v}
    /\ UNCHANGED <<source, f, control, var_val_stack, frames, names, machine>>

PhiOf(b, v) == <<"phi", b, v>>

AddPhi(g, b, v) ==
    LET i == PhiOf(b, v)
        Extend(fun, x) == [j \in DOMAIN fun \cup {i} |-> IF j = i THEN x ELSE fun[j]]
    IN  AddInstrBegin([g EXCEPT !.op = Extend(@, "phi"), !.args = Extend(@, <<>>)], b, i)

\* A wrong PlacePhis: a phi is not taken for the definition it is.
PlacePhisOnce ==
    /\ control = "phi" /\ work_list # <<>>
    /\ LET v == Head(work_list)[2]
           missing == {b \in Frontier(Graph(f), Head(work_list)[1]) : PhiOf(b, v) \notin Placed(f)}
       IN  /\ f' = FoldLeft(LAMBDA g, b : AddPhi(g, b, v), f, SetToSeq(missing))
           /\ work_list' = Tail(work_list)
    /\ UNCHANGED <<source, control, to_place, var_val_stack, frames, names, machine>>

\* The next block of the work list: its frontier gets the phis it lacks, and
\* joins the work list.
PlacePhis ==
    /\ control = "phi" /\ work_list # <<>>
    /\ LET v == Head(work_list)[2]
           missing == {b \in Frontier(Graph(f), Head(work_list)[1]) : PhiOf(b, v) \notin Placed(f)}
       IN  /\ f' = FoldLeft(LAMBDA g, b : AddPhi(g, b, v), f, SetToSeq(missing))
           /\ work_list' = Tail(work_list) \o SetToSeq({<<b, v>> : b \in missing})
    /\ UNCHANGED <<source, control, to_place, var_val_stack, frames, names, machine>>
-----------------------------------------------------------------------------
(***************************************************************************)
(* re_name.                                                                *)
(***************************************************************************)
Push(stack, v, x) ==
    [w \in DOMAIN stack \cup {v} |->
        IF w # v THEN stack[w] ELSE IF v \in DOMAIN stack THEN Append(stack[v], x) ELSE <<x>>]

Pop(stack, v) == [stack EXCEPT ![v] = Front(@)]

\* back() of a vector, which is no value at all when the vector is empty.
Back(stack, v) ==
    IF v \in DOMAIN stack /\ stack[v] # <<>> THEN Last(stack[v]) ELSE Undef

\* Steps 4 and 5, for one instruction: a load is replaced with the top of its
\* variable's stack, a store pushes its r_val.  Both wait for their deletion.
RenameInstr(r, i) ==
    LET v == Last(r.f.args[i])
    IN  CASE r.f.op[i] = "load" /\ Promoted(v) /\ v \in DOMAIN r.stack ->
               [r EXCEPT !.f = ReplaceAllUseWith(@, i, Back(r.stack, v)), !.delete = Append(@, i)]
          [] r.f.op[i] = "store" /\ Promoted(v) ->
               [r EXCEPT !.stack = Push(@, v, r.f.args[i][1]), !.delete = Append(@, i)]
          [] OTHER -> r

\* Step 3, for one instruction: a phi pushes itself.
PushPhi(stack, i) == IF IsPhi(i) THEN Push(stack, i[3], i) ELSE stack

PhisIn(g, b) == {i \in ToSet(g.code[b]) : IsPhi(i)}

\* Step 6: the phis of the blocks behind b whose variable has a stack.  The code
\* goes over the list of successors, which names each of them once.
PhisToFill(g, stack, b) ==
    {i \in UNION {PhisIn(g, c) : c \in Graph(g)[b]} : i[3] \in DOMAIN stack}

FillPhi(g, stack, b, i) == AddOperand(AddOperand(g, i, Back(stack, i[3])), i, Label(b))

\* re_name(b) up to its recursion, called with below on the call stack.  The
\* assertion of step 6 aborts.
Rename(b, below) ==
    LET pushed == FoldLeft(PushPhi, var_val_stack, f.code[b])
        renamed == FoldLeft(RenameInstr, [f |-> f, stack |-> pushed, delete |-> <<>>], f.code[b])
        fill == PhisToFill(renamed.f, renamed.stack, b)
        fails == \E i \in fill : renamed.stack[i[3]] = <<>>
    IN  /\ var_val_stack' = renamed.stack
        /\ frames' = Append(below, [bb |-> b, todo |-> Children(Graph(f), b),
                                    wait_delete |-> renamed.delete])
        /\ names' = [c \in DOMAIN names \cup {b} |->
                       IF c = b THEN [v \in Scalars |-> Back(renamed.stack, v)] ELSE names[c]]
        /\ control' = IF fails THEN "aborted" ELSE "rename"
        /\ f' = IF fails THEN renamed.f
                ELSE FoldLeft(LAMBDA g, i : FillPhi(g, renamed.stack, b, i),
                              renamed.f, SetToSeq(fill))
        /\ UNCHANGED <<source, to_place, work_list, machine>>

StartRenaming ==
    /\ control = "phi" /\ to_place = {} /\ work_list = <<>>
    /\ Rename(Entry, <<>>)

\* The innermost call goes on to a child of its block.
RenameChild ==
    /\ control = "rename" /\ frames # <<>>
    /\ \E c \in Last(frames).todo : Rename(c, [frames EXCEPT ![Len(frames)].todo = @ \ {c}])

\* A wrong PoppedBy, which leaves what the phis have pushed.
PoppedByStores(g, stack, i) ==
    IF g.op[i] = "store" /\ Promoted(g.args[i][2]) THEN Pop(stack, g.args[i][2]) ELSE stack

\* A wrong PoppedBy, which pops for loads too.
PoppedByLoads(g, stack, i) ==
    IF g.args[i] # <<>> /\ Last(g.args[i]) \in DOMAIN stack THEN Pop(stack, Last(g.args[i])) ELSE stack

\* Step 7, for one instruction.
PoppedBy(g, stack, i) ==
    CASE g.op[i] = "store" /\ Promoted(g.args[i][2]) -> Pop(stack, g.args[i][2])
      [] IsPhi(i) /\ i[3] \in DOMAIN stack -> Pop(stack, i[3])
      [] OTHER -> stack

\* The innermost call has no child left: it pops what it pushed, deletes the
\* loads and stores it has replaced, and returns.
LeaveBlock ==
    /\ control = "rename" /\ frames # <<>> /\ Last(frames).todo = {}
    /\ LET top == Last(frames)
       IN  /\ var_val_stack' = FoldLeft(LAMBDA s, i : PoppedBy(f, s, i), var_val_stack, f.code[top.bb])
           /\ f' = FoldLeft(LAMBDA g, i : DeleteInstr(g, top.bb, i), f, top.wait_delete)
    /\ frames' = Front(frames)
    /\ control' = IF Len(frames) = 1 THEN "alloca" ELSE control
    /\ UNCHANGED <<source, to_place, work_list, names, machine>>

\* remove_alloca: the cells of the scalars are gone.
RemoveAlloca ==
    /\ control = "alloca"
    /\ machine' = [machine EXCEPT !.mem = [v \in Memory \ Scalars |-> @[v]]]
    /\ control' = "run"
    /\ UNCHANGED <<source, f, to_place, work_list, var_val_stack, frames, names>>
-----------------------------------------------------------------------------
(***************************************************************************)
(* The function runs.                                                      *)
(***************************************************************************)
RunNextBlock ==
    /\ control = "run"
    /\ \E b \in IF machine.at = Null THEN {Entry} ELSE Graph(f)[machine.at] :
         machine' = RunBlock(f, machine, b)
    /\ UNCHANGED <<source, f, passVars>>

Next ==
    \/ NextVariable \/ PlacePhis
    \/ StartRenaming \/ RenameChild \/ LeaveBlock
    \/ RemoveAlloca
    \/ RunNextBlock

Spec == Init /\ [][Next]_vars
-----------------------------------------------------------------------------
TypeOK ==
    /\ control \in {"phi", "rename", "alloca", "run", "aborted"}
    /\ to_place \subseteq Scalars
    /\ ToSet(work_list) \subseteq Blocks \X Scalars
    /\ DOMAIN var_val_stack \subseteq Scalars
    /\ \A k \in DOMAIN frames : frames[k].bb \in Blocks /\ frames[k].todo \subseteq Blocks
    /\ DOMAIN names \subseteq Blocks
    /\ machine.at \in Blocks \cup {Null}

\* What a variable would hold: the value of the name it has where control is.
Held(v) ==
    IF v \notin Scalars THEN machine.mem[v]
    ELSE IF machine.at = Null THEN Undef ELSE Eval(machine, names[machine.at][v])

Meaning == INSTANCE VariableStore
    WITH Variables <- Memory, program <- source, at <- machine.at,
         mem <- [v \in Memory |-> Held(v)], out <- machine.out

\* The function Mem2Reg leaves implements the one it was given: on every path,
\* through every block, it puts out the same, and what a variable of the source
\* holds is the value of the name that var_val_stack had for it.
RunsLikeSource == Meaning!Spec

\* The assertion of step 6 (line 134) never fails.
AssertHolds == control # "aborted"

\* What renaming block b pushes for v.
PushedBy(b, v) ==
    {i \in ToSet(f.code[b]) : IF IsPhi(i) THEN i[3] = v ELSE f.op[i] = "store" /\ f.args[i][2] = v}

\* A definition is visible exactly below its block: between two calls a stack
\* holds, from the bottom, definitions of the blocks on the path to the block
\* being renamed, nearest last, as many as they make.
StacksFollowTheTree ==
    control = "rename" =>
        \A v \in DOMAIN var_val_stack :
            Len(var_val_stack[v]) =
                Cardinality(UNION {{k} \X PushedBy(frames[k].bb, v) : k \in DOMAIN frames})

\* When re_name is done each phi has one operand for each predecessor, the loads
\* and stores of scalars are gone, and each use list is complete: nothing asks for
\* a cell that remove_alloca is about to delete.
LeavesCompleteSSA ==
    control = "alloca" =>
        /\ \A b \in Blocks : \A i \in PhisIn(f, b) :
             /\ Len(f.args[i]) = 2 * Cardinality(PreBlocks(Graph(f), b))
             /\ {f.args[i][n] : n \in {k \in DOMAIN f.args[i] : k % 2 = 0}}
                    = {Label(p) : p \in PreBlocks(Graph(f), b)}
        /\ \A i \in Placed(f) : OperandsOf(f, i) \cap Scalars = {}
        /\ UsesKnown(f)
(***************************************************************************)
(* What the pass asks of a function to leave SSA form.                     *)
(***************************************************************************)
\* Operand n of instruction i is the variable it loads or stores.
IsAddress(g, i, n) ==
    /\ i \in DOMAIN g.op
    /\ (g.op[i] = "load" /\ n = 1) \/ (g.op[i] = "store" /\ n = 2)

\* A local is loaded and stored and nothing else, and the entry block stores it,
\* ahead of what it loads itself.
StartsWithStores(g) ==
    \A b \in Blocks : \A k \in DOMAIN g.code[b] : \A n \in DOMAIN g.args[g.code[b][k]] :
        LET i == g.code[b][k]
            first == g.code[Entry]
        IN  g.args[i][n] \in Scalars =>
              /\ IsAddress(g, i, n) /\ Promoted(g.args[i][n])
              /\ \E j \in DOMAIN first :
                   /\ g.op[first[j]] = "store" /\ g.args[first[j]][2] = g.args[i][n]
                   /\ b = Entry /\ g.op[i] = "load" => j < k

\* A block that cannot be reached neither uses a local nor branches to one that
\* can: a join behind such a block is where Dominators does not end.
KeepsDeadCodeApart(g) ==
    \A b \in Blocks : ~IsReachable(Graph(g), b) =>
        /\ \A c \in Graph(g)[b] : ~IsReachable(Graph(g), c)
        /\ \A i \in ToSet(g.code[b]) : OperandsOf(g, i) \cap Scalars = {}
=============================================================================
