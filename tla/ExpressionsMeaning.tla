------------------------ MODULE ExpressionsMeaning ------------------------
(***************************************************************************)
(* What the code Expressions makes of a program does when it runs, against *)
(* what the manual (Documentations/common/cminusf.md) says of the program  *)
(* as it is written (see SyntaxTree).                                      *)
(***************************************************************************)
EXTENDS Expressions, SyntaxTree

ASTOf(declarations) == Transformed(ParsedProgram(declarations))
-----------------------------------------------------------------------------
(***************************************************************************)
(* The code run.  A machine s has the memory s.mem, the values s.env of    *)
(* the instructions so far, and the calls s.out it made; it has stopped    *)
(* when an index was negative.                                             *)
(***************************************************************************)
Cell(k, n) == <<k, n>>
Pointer(k, n) == <<"pointer", k, n>>
OfType(ty, n) == IF ty = Float THEN Fp(2 * n) ELSE Const(n)

\* Cells out of an array's range read as zero and keep nothing.
Read(mem, k, n) == IF Cell(k, n) \in DOMAIN mem THEN mem[Cell(k, n)] ELSE OfType(decls[k].elem, 0)
Write(mem, k, n, x) == [c \in DOMAIN mem |-> IF c = Cell(k, n) THEN x ELSE mem[c]]

\* What call number n of a function that returns ty yields.
Answer(ty, n) == OfType(ty, n + 1)

ValueOf(s, v) == CASE v[1] = "i" -> s.env[v[2]]
                   [] v[1] = "alloca" -> Pointer(v[2], 0)
                   [] v[1] = "return_alloca" -> Pointer(0, 0)
                   [] OTHER -> v

\* Arithmetic of two ints, or of two floats.
Arithmetic(op, x, y) ==
    CASE x[1] = "fp" /\ op = "mul"  -> Fp(Quotient(x[2] * y[2], 2))
      [] x[1] = "fp" /\ op = "sdiv" -> Fp(Quotient(2 * x[2], y[2]))
      [] OTHER -> Compute(op, <<x, y>>)

\* A number as one of type ty.
As(ty, x) == CASE ty = Float /\ x[1] = "const" -> Fp(2 * x[2])
               [] ty = I32 /\ x[1] = "fp" -> Const(Quotient(x[2], 2))
               [] OTHER -> x

\* An i1 is -1 when it is read as signed.
Result(op, a) ==
    CASE op \in ICmp \cup FCmp -> <<"i1", Number(Compute(op, a))>>
      [] op = "sitofp" -> As(Float, Const(IF a[1][1] = "i1" THEN -a[1][2] ELSE a[1][2]))
      [] op = "fptosi" -> As(I32, a[1])
      [] op = "zext" -> Const(a[1][2])
      [] op \in Binary -> Arithmetic(op, a[1], a[2])

Yield(s, x) == [s EXCEPT !.env = Append(@, x)]

Execute(s, i) ==
    LET a == [n \in DOMAIN i.args |-> ValueOf(s, i.args[n])]
    IN  IF s.stopped THEN s ELSE
        CASE i.op \in Pure -> Yield(s, Result(i.op, a))
          [] i.op = "load" -> Yield(s, Read(s.mem, a[1][2], a[1][3]))
          [] i.op = "store" -> Yield([s EXCEPT !.mem = Write(@, a[2][2], a[2][3], a[1])], Undef)
          [] i.op = "gep" -> Yield(s, Pointer(a[1][2], a[1][3] + Number(Last(a))))
          [] i.op = "check" -> Yield([s EXCEPT !.stopped = Number(a[1]) < 0], Undef)
          [] i.op = "call" -> Yield([s EXCEPT !.out = Append(@, a)], Answer(i.ty, Len(s.out)))

\* The declarations a body sees, and where what it returns is kept.
Seen == {k \in DOMAIN decls : decls[k].of \in {0, place}}
Cells == UNION {CASE decls[k].shape = "array" -> {Cell(k, n) : n \in 0..decls[k].size - 1}
                  [] decls[k].shape = "function" -> {}
                  [] OTHER -> {Cell(k, 0)} : k \in Seen} \cup {Cell(0, 0)}

\* The memory a body starts with: ints hold 2, floats 2.5, element n holds n, a
\* pointer parameter the address of an array.
MemoryBefore ==
    LET array(elem) == CHOOSE k \in Seen : decls[k].shape = "array" /\ decls[k].elem = elem /\ decls[k].level = 1
    IN  [c \in Cells |->
            CASE c[1] = 0 -> Undef
              [] c[1] # 0 /\ decls[c[1]].shape = "pointer" -> Pointer(array(decls[c[1]].elem), 0)
              [] c[1] # 0 /\ decls[c[1]].shape = "array" -> OfType(decls[c[1]].elem, c[2])
              [] OTHER -> IF decls[c[1]].elem = Float THEN Fp(5) ELSE Const(2)]

Executed == FoldLeft(Execute, [mem |-> MemoryBefore, env |-> <<>>, out |-> <<>>, stopped |-> FALSE], code)
-----------------------------------------------------------------------------
(***************************************************************************)
(* The same body, as it is written, by the manual                          *)
(* (Documentations/common/cminusf.md).  indexFirst tells which of an       *)
(* element's index and the value assigned to it is evaluated first.        *)
(***************************************************************************)
Body == program[place].statements

\* A name means the declaration of the innermost level.
Meant(id) == CHOOSE k \in Seen :
    decls[k].id = id /\ \A m \in Seen : decls[m].id = id => decls[m].level <= decls[k].level

Meaning(op) ==
    ("<=" :> "icmp_le" @@ "<" :> "icmp_lt" @@ ">" :> "icmp_gt" @@ ">=" :> "icmp_ge" @@ "==" :> "icmp_eq"
     @@ "!=" :> "icmp_ne" @@ "+" :> "add" @@ "-" :> "sub" @@ "*" :> "mul" @@ "/" :> "sdiv")[op]

Operation(n, x, y) ==
    LET ty == IF "fp" \in {x[1], y[1]} THEN Float ELSE I32
    IN  Arithmetic(Meaning(n.op), As(ty, x), As(ty, y))

Valued(s, x) == [s EXCEPT !.value = x]

\* Where element n of variable k lies.
Lies(s, k, n) == IF decls[k].shape = "pointer"
                 THEN Cell(Read(s.mem, k, 0)[2], n) ELSE Cell(k, n)

RECURSIVE Evaluated(_, _, _)
Evaluated(n, s, indexFirst) ==
    LET after(t, m) == IF t.stopped THEN t ELSE Evaluated(m, t, indexFirst)
        \* the cell of the variable, its index evaluated in t
        cell(t, v) == LET u == after(t, v.index)
                          i == As(I32, u.value)[2]
                      IN  IF u.stopped \/ i < 0 THEN [u EXCEPT !.stopped = TRUE]
                          ELSE Valued(u, Lies(u, Meant(v.id), i))
    IN  CASE n.kind = "integer" -> Valued(s, Const(n.number))
          [] n.kind = "float" -> Valued(s, Fp(n.number))
          [] n.kind = "var" ->
               LET k == Meant(n.id)
                   t == cell(s, n)
               IN  IF n.index # None
                   THEN IF t.stopped THEN t ELSE Valued(t, Read(t.mem, t.value[1], t.value[2]))
                   ELSE Valued(s, IF decls[k].shape = "array" THEN Pointer(k, 0) ELSE s.mem[Cell(k, 0)])
          [] n.kind \in {"simple", "additive", "term"} ->
               LET l == after(s, n.left)
                   r == after(l, n.right)
               IN  IF r.stopped THEN r ELSE Valued(r, Operation(n, l.value, r.value))
          [] n.kind = "assign" ->
               LET ty == decls[Meant(n.var.id)].elem
                   put(t, c, x) == [t EXCEPT !.mem = Write(@, c[1], c[2], As(ty, x)), !.value = As(ty, x)]
                   right == after(s, n.right)
                   p == IF indexFirst THEN cell(s, n.var) ELSE cell(right, n.var)
                   last == IF indexFirst THEN after(p, n.right) ELSE p
               IN  IF n.var.index = None
                   THEN IF right.stopped THEN right ELSE put(right, Cell(Meant(n.var.id), 0), right.value)
                   ELSE IF last.stopped THEN last
                   ELSE put(last, p.value, IF indexFirst THEN last.value ELSE right.value)
          [] n.kind = "call" ->
               LET d == decls[Meant(n.id)]
                   given == FoldLeft(LAMBDA t, k :
                                IF t.stopped THEN t
                                ELSE LET u == after(t, n.args[k])
                                     IN  [u EXCEPT !.args = Append(t.args, As(d.params[k], u.value))],
                                [s EXCEPT !.args = <<>>], [k \in DOMAIN n.args |-> k])
                   called == <<<<"function", n.id>>>> \o given.args
               IN  IF given.stopped THEN given
                   ELSE [given EXCEPT !.out = Append(@, called), !.value = Answer(d.elem, Len(given.out))]
          [] n.kind = "stmt" -> after(s, n.expr)
          [] n.kind = "return" ->
               LET t == IF n.expr = None THEN s ELSE after(s, n.expr)
                   ty == IF program[place].type = "float" THEN Float ELSE I32
               IN  IF t.stopped THEN t
                   ELSE [t EXCEPT !.mem = IF n.expr = None THEN @ ELSE Write(@, 0, 0, As(ty, t.value)),
                                  !.over = TRUE]

Intended(indexFirst) ==
    FoldLeft(LAMBDA s, n : IF s.stopped \/ s.over THEN s ELSE Evaluated(n, s, indexFirst),
             [mem |-> MemoryBefore, out |-> <<>>, stopped |-> FALSE, over |-> FALSE,
              value |-> Undef, args |-> <<>>],
             Body)
-----------------------------------------------------------------------------
\* The nodes a node is made of, as it is written.
Parts(n) == CASE n.kind \in {"none", "integer", "float"} -> {}
              [] n.kind = "var" -> {n.index}
              [] n.kind = "assign" -> {n.var, n.right}
              [] n.kind = "call" -> ToSet(n.args)
              [] n.kind \in {"stmt", "return"} -> {n.expr}
              [] OTHER -> {n.left, n.right}

RECURSIVE NodesOf(_)
NodesOf(n) == {n} \cup UNION {NodesOf(m) : m \in Parts(n)}
NodesWritten == UNION {NodesOf(n) : n \in ToSet(Body)}

SetsElement(n) == n.kind = "assign" /\ n.var.index # None

\* An i1 is stored in an element, or passed, as it is.
PassesTruth ==
    \E n \in NodesWritten :
        \/ SetsElement(n) /\ n.right.kind = "simple"
        \/ n.kind = "call" /\ \E m \in ToSet(n.args) : m.kind = "simple"

\* The value of an assignment to an element is used.
UsesAssignedElement ==
    \E n \in NodesWritten : n.kind # "stmt" /\ \E m \in Parts(n) : SetsElement(m)

\* The body of a function, run, has the effects and the result the manual gives what is
\* written: calls with their arguments in order, stores, the value returned, a stop at a
\* negative index.  Three things are excepted: a comparison stored in an element or
\* passed as it is, an assignment to an element used as a value, and bodies that tell
\* whether an index or the right side of the assignment to the element is evaluated
\* first.
RunsAsDocumented ==
    BodyVisited /\ ~PassesTruth /\ ~UsesAssignedElement /\ Intended(TRUE) = Intended(FALSE) =>
        LET s == Executed
            m == Intended(TRUE)
        IN  s.mem = m.mem /\ s.out = m.out /\ s.stopped = m.stopped
=============================================================================
