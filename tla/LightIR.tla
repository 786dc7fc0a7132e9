------------------------------ MODULE LightIR ------------------------------
(***************************************************************************)
(* LightIR as the passes see it (src/include/lightir, src/src/lightir):    *)
(* blocks hold instructions, instructions have operands, and every value   *)
(* has the list of its uses.  A function f is a record:                    *)
(*    f.code[b]   the instructions of block b, in order                    *)
(*    f.op[i]     what instruction i does                                  *)
(*    f.args[i]   its operands                                             *)
(*    f.uses      <<v, i, n>>: the use list of v has operand n of i        *)
(*    f.succ[b], f.pre[b]  the lists of neighbours of b                    *)
(*    f.blocks    the list of its blocks                                   *)
(* Operands count from 1.  Every value is a tuple that starts with its     *)
(* kind; a phi is <<"phi", b, v>> for the variable v it was made for.      *)
(***************************************************************************)
EXTENDS Integers, Sequences, FiniteSets, SequencesExt

Const(n) == <<"const", n>>     \* ConstantInt
Fp(n) == <<"fp", n>>           \* ConstantFP, of a whole number
Zero == <<"zero">>             \* ConstantZero
Label(b) == <<"block", b>>
Variable(v) == <<"var", v>>    \* an alloca or a global variable
Undef == <<"undef">>

OperandsOf(f, i) == ToSet(f.args[i])

\* The uses a function has when it is built operand by operand.
UsesOf(args) == UNION {{<<args[i][n], i, n>> : n \in DOMAIN args[i]} : i \in DOMAIN args}

\* A wrong AddOperand, which the operand's use list does not learn of.
AddOperandUnused(f, i, v) == [f EXCEPT !.args[i] = Append(@, v)]

\* User::add_operand.
AddOperand(f, i, v) ==
    [f EXCEPT !.args[i] = Append(@, v),
              !.uses = @ \cup {<<v, i, Len(f.args[i]) + 1>>}]

\* Value::replace_all_use_with: set_operand for every use of v, which leaves v's
\* own use list as it was.
ReplaceAllUseWith(f, v, w) ==
    LET used == {u \in f.uses : u[1] = v}
    IN  [f EXCEPT !.args = [i \in DOMAIN f.args |->
                              [n \in DOMAIN f.args[i] |->
                                  IF <<v, i, n>> \in used THEN w ELSE f.args[i][n]]],
                  !.uses = @ \cup {<<w, u[2], u[3]>> : u \in used}]

\* A list without i (std::list::remove).
Without(s, i) == FoldLeft(LAMBDA t, j : IF j = i THEN t ELSE Append(t, j), <<>>, s)

\* BasicBlock::delete_instr, with User::remove_use_of_ops.
DeleteInstr(f, b, i) ==
    [f EXCEPT !.code[b] = Without(@, i),
              !.uses = {u \in @ : ~(u[2] = i /\ u[1] \in OperandsOf(f, i))}]

\* BasicBlock::add_instr_begin.
AddInstrBegin(f, b, i) == [f EXCEPT !.code[b] = <<i>> \o @]

\* A wrong RemoveBlock, whose successors keep it in their lists.
RemoveBlockOneWay(f, b) ==
    [f EXCEPT !.blocks = Without(@, b),
              !.succ = [c \in DOMAIN @ |-> IF c \in ToSet(f.pre[b]) THEN Without(@[c], b) ELSE @[c]]]

\* Function::remove: the lists of b itself stay.
RemoveBlock(f, b) ==
    [f EXCEPT !.blocks = Without(@, b),
              !.succ = [c \in DOMAIN @ |-> IF c \in ToSet(f.pre[b]) THEN Without(@[c], b) ELSE @[c]],
              !.pre = [c \in DOMAIN @ |-> IF c \in ToSet(f.succ[b]) THEN Without(@[c], b) ELSE @[c]]]

\* The instructions that are in some block of the function.
Placed(f) == UNION {ToSet(f.code[b]) : b \in ToSet(f.blocks)}

\* The use lists know every operand of the instructions in the blocks.
UsesKnown(f) ==
    \A i \in Placed(f) : \A n \in DOMAIN f.args[i] : <<f.args[i][n], i, n>> \in f.uses
-----------------------------------------------------------------------------
(***************************************************************************)
(* What a function does when it runs.  A machine s is in block s.at, has   *)
(* the values s.env of instructions and s.mem of variables, and has made   *)
(* the output s.out.                                                       *)
(***************************************************************************)
IsPhi(i) == i[1] = "phi"

Eval(s, v) ==
    IF v[1] \in {"const", "fp", "zero"} THEN v ELSE IF v \in DOMAIN s.env THEN s.env[v] ELSE Undef

Bind(s, i, x) == [s EXCEPT !.env = [j \in DOMAIN @ \cup {i} |-> IF j = i THEN x ELSE @[j]]]

\* The operand of phi i that belongs to the block the machine comes from.
PhiValue(f, s, i) ==
    LET from == {n \in DOMAIN f.args[i] : f.args[i][n] = Label(s.at)}
    IN  IF from = {} THEN Undef ELSE Eval(s, f.args[i][(CHOOSE n \in from : TRUE) - 1])

Binary == {"add", "sub", "mul", "sdiv"}    \* of ints, or of floats
ICmp == {"icmp_eq", "icmp_ne", "icmp_lt", "icmp_le", "icmp_gt", "icmp_ge"}
FCmp == {"fcmp_eq", "fcmp_ne", "fcmp_lt", "fcmp_le", "fcmp_gt", "fcmp_ge"}
Casts == {"sitofp", "fptosi", "zext"}
Pure == Binary \cup ICmp \cup FCmp \cup Casts

Number(v) == IF v \in {Zero, Undef} THEN 0 ELSE v[2]

Holds(op, x, y) ==
    CASE op \in {"icmp_eq", "fcmp_eq"} -> x = y  [] op \in {"icmp_ne", "fcmp_ne"} -> x # y
      [] op \in {"icmp_lt", "fcmp_lt"} -> x < y  [] op \in {"icmp_le", "fcmp_le"} -> x <= y
      [] op \in {"icmp_gt", "fcmp_gt"} -> x > y  [] op \in {"icmp_ge", "fcmp_ge"} -> x >= y

Quotient(x, y) ==
    LET abs(n) == IF n < 0 THEN -n ELSE n
        q == abs(x) \div abs(y)
    IN  IF (x < 0) = (y < 0) THEN q ELSE -q

\* What an instruction without memory or output yields for the values a.
Compute(op, a) ==
    LET x == Number(a[1])
        y == Number(a[2])
    IN  IF Undef \in ToSet(a) \/ (op = "sdiv" /\ y = 0) THEN Undef ELSE
        CASE op = "add"  -> <<a[1][1], x + y>>
          [] op = "sub"  -> <<a[1][1], x - y>>
          [] op = "mul"  -> <<a[1][1], x * y>>
          [] op = "sdiv" -> <<a[1][1], Quotient(x, y)>>
          [] op \in ICmp \cup FCmp -> Const(IF Holds(op, x, y) THEN 1 ELSE 0)
          [] op = "sitofp" -> Fp(x)
          [] op \in {"fptosi", "zext"} -> Const(x)

\* What can be seen of a division by zero.
Trap == <<"trap">>

Perform(f, s, i) ==
    LET arg(n) == f.args[i][n]
        computed == Compute(f.op[i], [n \in DOMAIN f.args[i] |-> Eval(s, arg(n))])
        traps == f.op[i] = "sdiv" /\ Number(Eval(s, arg(2))) = 0
    IN  CASE f.op[i] \in Pure -> [Bind(s, i, computed) EXCEPT !.out = IF traps THEN Append(@, Trap) ELSE @]
          [] f.op[i] = "load"  -> Bind(s, i, IF arg(1) \in DOMAIN s.mem THEN s.mem[arg(1)] ELSE Undef)
          [] f.op[i] = "store" -> [s EXCEPT !.mem = [v \in DOMAIN @ |-> IF v = arg(2) THEN Eval(s, arg(1)) ELSE @[v]]]
          [] f.op[i] = "print" -> [s EXCEPT !.out = Append(@, Eval(s, arg(1)))]
          [] OTHER -> s

\* s enters block b and runs it: the phis at once, then the rest in order.
RunBlock(f, s, b) ==
    LET phis == {i \in ToSet(f.code[b]) : IsPhi(i)}
        entered == [at |-> b, mem |-> s.mem, out |-> <<>>,
                    env |-> [i \in DOMAIN s.env \cup phis |->
                               IF i \in phis THEN PhiValue(f, s, i) ELSE s.env[i]]]
    IN  FoldLeft(LAMBDA t, i : Perform(f, t, i), entered, f.code[b])

\* The label a machine at the end of its block goes to; Undef when its branch has
\* no condition to go by, or the block no branch.
Target(f, s) ==
    LET branches == SelectSeq(f.code[s.at], LAMBDA i : f.op[i] = "br")
        a == f.args[Head(branches)]
    IN  IF branches = <<>> THEN Undef
        ELSE IF Len(a) = 1 THEN a[1]
        ELSE IF Eval(s, a[1]) = Undef THEN Undef
        ELSE IF Number(Eval(s, a[1])) = 0 THEN a[3] ELSE a[2]
=============================================================================
