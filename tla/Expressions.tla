---------------------------- MODULE Expressions ----------------------------
(***************************************************************************)
(* A program on its way to instructions: its AST, and CminusfBuilder's     *)
(* visitors (src/src/cminusfc/cminusf_builder.cpp) of declarations, the    *)
(* names of which are kept in a Scope (src/include/cminusf_builder.hpp),   *)
(* of expressions, and of expression and return statements.                *)
(*                                                                         *)
(* frames is the C++ call stack of expression visitors: the node a visitor *)
(* is at, and what it saved before it accepted its last child.  The two    *)
(* blocks of an index check are one instruction "check" (CodeGen has the   *)
(* blocks).                                                                *)
(* A float <<"fp", n>> is n halves, products and quotients are rounded to  *)
(* halves: it is modelled what converts what, not how the machine rounds.  *)
(***************************************************************************)
EXTENDS LightIR, AbstractSyntax

CONSTANTS
    Programs,       \* the programs considered
    AST,            \* the AST of each: SyntaxTree makes one
    MaxNesting      \* the levels of nodes in a body that OperandsFit looks at

VARIABLES
    program, ast,
    place,              \* the declaration at work
    decls, inner,       \* what has been declared, and the scopes: name -> its place in decls
    position,           \* the statement at work in the body
    frames,
    control,            \* "parse", "declare", "compound", "statements", "visit": a node is
                        \* accepted, "back", "returned", "crashed"
    expression,         \* the value the last visitor left
    curr_op,            \* what a variable is visited for: LOAD or STORE
    code                \* the function's instructions, [op, args, ty]; <<"i", n>> is the nth

treeVars == <<program, ast>>
scopeVars == <<place, decls, inner>>
bodyVars == <<position, frames>>
valueVars == <<expression, curr_op, code>>
vars == <<treeVars, scopeVars, bodyVars, control, valueVars>>

LOAD == "LOAD"
STORE == "STORE"
-----------------------------------------------------------------------------
(***************************************************************************)
(* Types, and the instructions that convert.                               *)
(***************************************************************************)
I1 == <<"i1">>
I32 == <<"i32">>
Float == <<"float">>
Void == <<"void">>
PointerTo(ty) == <<"ptr", ty>>

TypeNamed(type) ==
    CASE type = "TYPE_INT" -> I32 [] type = "TYPE_FLOAT" -> Float [] type = "TYPE_VOID" -> Void

\* What the memory of a declaration holds.
Held(d) == CASE d.shape = "scalar"  -> d.elem
             [] d.shape = "array"   -> <<"array", d.elem>>
             [] d.shape = "pointer" -> PointerTo(d.elem)

Alloca(k) == <<"alloca", k>>
ReturnAlloca == <<"return_alloca">>
ReturnType == TypeNamed(ast.declarations[place].type)

TypeOf(c, v) == CASE v[1] = "const" -> I32
                  [] v[1] = "fp" -> Float
                  [] v[1] = "alloca" -> PointerTo(Held(decls[v[2]]))
                  [] v[1] = "return_alloca" -> PointerTo(ReturnType)
                  [] v[1] = "i" -> c[v[2]].ty

\* The code with one instruction more, and its value.
Make(c, op, args, ty) ==
    [code |-> Append(c, [op |-> op, args |-> args, ty |-> ty]), value |-> <<"i", Len(c) + 1>>]

Have(c, v) == [code |-> c, value |-> v]
Type(e) == TypeOf(e.code, e.value)

\* A truth value is widened, anything else stays.
Widened(e) == IF Type(e) = I1 THEN Make(e.code, "zext", <<e.value>>, I32) ELSE e

\* The conversion to type ty of an argument, an assigned or a returned value; to the
\* code an i1 is an integer like an i32.
Converted(e, ty) ==
    CASE ty # I32 /\ Type(e) \in {I1, I32} -> Make(e.code, "sitofp", <<e.value>>, Float)
      [] ty # Float /\ Type(e) = Float -> Make(e.code, "fptosi", <<e.value>>, I32)
      [] OTHER -> e

AsIndex(e) == IF Type(e) = Float THEN Make(e.code, "fptosi", <<e.value>>, I32) ELSE e

\* The scopes from the innermost out: the first that knows the name.
Find(id) == LET knows == {n \in DOMAIN inner : id \in DOMAIN inner[n]}
            IN  inner[CHOOSE n \in knows : \A m \in knows : m <= n][id]
-----------------------------------------------------------------------------
(***************************************************************************)
(* Declarations.  An object is [id, shape, elem], of an array with its     *)
(* size, of a function with params; level and of tell where it was made.   *)
(***************************************************************************)
Object(id, shape, elem, level) ==
    [id |-> id, shape |-> shape, elem |-> elem, level |-> level, of |-> IF level = 1 THEN 0 ELSE place]

VariableObject(d, level) ==
    IF d.num = None THEN Object(d.id, "scalar", TypeNamed(d.type), level)
    ELSE [size |-> d.num.number] @@ Object(d.id, "array", TypeNamed(d.type), level)

ParamObject(p) == Object(p.id, IF p.isarray THEN "pointer" ELSE "scalar", TypeNamed(p.type), 2)

FunctionObject(id, ty, params) ==
    [id |-> id, shape |-> "function", elem |-> ty, level |-> 1, of |-> 0, params |-> params]

\* Scope::push of an object made: the name keeps what it was bound to in the scope.
Push(s, object) ==
    LET names == Last(s.inner)
        k == Len(s.decls) + 1
    IN  [decls |-> Append(s.decls, object),
         inner |-> Front(s.inner) \o
                   <<[n \in DOMAIN names \cup {object.id} |-> IF n \in DOMAIN names THEN names[n] ELSE k]>>]

Declare(s, objects) == FoldLeft(Push, s, objects)
Enter(s) == [s EXCEPT !.inner = Append(@, <<>>)]
Scoped(s) == decls' = s.decls /\ inner' = s.inner

\* The functions of the runtime library, in the global scope from the start.
Predefined ==
    Declare([decls |-> <<>>, inner |-> <<<<>>>>],
            <<FunctionObject("input", I32, <<>>), FunctionObject("output", Void, <<I32>>),
              FunctionObject("outputFloat", Void, <<Float>>), FunctionObject("neg_idx_except", Void, <<>>)>>)

Init ==
    /\ program \in Programs
    /\ ast = None
    /\ place = 1
    /\ decls = Predefined.decls /\ inner = Predefined.inner
    /\ position = 0 /\ frames = <<>> /\ control = "parse"
    /\ expression = None /\ curr_op = LOAD
    /\ code = <<>>

BuildAST ==
    /\ control = "parse"
    /\ ast' = AST[program]
    /\ control' = "declare"
    /\ UNCHANGED <<program, scopeVars, bodyVars, valueVars>>

Declaration == ast.declarations[place]
DeclaresA(kind) == control = "declare" /\ place <= Len(ast.declarations) /\ Declaration.kind = kind
Scopes == [decls |-> decls, inner |-> inner]

VisitGlobal ==
    /\ DeclaresA("var-declaration")
    /\ Scoped(Push(Scopes, VariableObject(Declaration, 1)))
    /\ place' = place + 1
    /\ UNCHANGED <<treeVars, bodyVars, control, valueVars>>

\* ASTFunDeclaration up to its body: the function is known before its parameters.
VisitFunction ==
    /\ DeclaresA("fun-declaration")
    /\ LET params == Declaration.params
           types == [n \in DOMAIN params |-> Held(ParamObject(params[n]))]
           function == FunctionObject(Declaration.id, TypeNamed(Declaration.type), types)
       IN  Scoped(Declare(Enter(Push(Scopes, function)), [n \in DOMAIN params |-> ParamObject(params[n])]))
    /\ control' = "compound"
    /\ code' = <<>>
    /\ UNCHANGED <<treeVars, place, bodyVars, expression, curr_op>>

VisitCompound ==
    /\ control = "compound"
    /\ LET locals == Declaration.compound_stmt.local_declarations
       IN  Scoped(Declare(Enter(Scopes), [n \in DOMAIN locals |-> VariableObject(locals[n], 3)]))
    /\ control' = "statements"
    /\ position' = 0
    /\ UNCHANGED <<treeVars, place, frames, valueVars>>

Frame(n) == [node |-> n, saved |-> <<>>]

Statements == Declaration.compound_stmt.statement_list

NextStatement ==
    /\ control = "statements" /\ position < Len(Statements)
    /\ position' = position + 1
    /\ frames' = <<Frame(Statements[position + 1])>>
    /\ control' = "visit"
    /\ UNCHANGED <<treeVars, scopeVars, valueVars>>

\* Every statement has been visited, or a return.
BodyVisited == control = "returned" \/ (control = "statements" /\ position = Len(Statements))

\* Scope::exit for the body and for the parameters.
LeaveFunction ==
    /\ BodyVisited
    /\ inner' = Front(Front(inner))
    /\ place' = place + 1
    /\ control' = "declare"
    /\ UNCHANGED <<treeVars, decls, bodyVars, valueVars>>
-----------------------------------------------------------------------------
Node == Last(frames).node
Saved == Last(frames).saved
At(kind) == frames # <<>> /\ Node.kind = kind
Visited(kind) == control = "visit" /\ At(kind)
Back(kind) == control = "back" /\ At(kind)

Here == Have(code, expression)

\* The visitor accepts a child, having saved these values, or returns with e.
Accept(child, saved) ==
    /\ frames' = Append(Front(frames), [Last(frames) EXCEPT !.saved = saved]) \o <<Frame(child)>>
    /\ control' = "visit"
    /\ UNCHANGED <<treeVars, scopeVars, position, expression>>

Leave(e) ==
    /\ code' = e.code /\ expression' = e.value
    /\ frames' = Front(frames)
    /\ control' = IF Len(frames) > 1 THEN "back" ELSE IF Node.kind = "return" THEN "returned" ELSE "statements"
    /\ UNCHANGED <<treeVars, scopeVars, position>>

VisitNum ==
    /\ Visited("num")
    /\ Leave(Have(code, IF Node.type = "TYPE_INT" THEN Const(Node.number) ELSE Fp(Node.number)))
    /\ UNCHANGED curr_op

(***************************************************************************)
(* ASTSimpleExpression, ASTAdditiveExpression and ASTTerm: the left side,  *)
(* the right side, then the operation of the two values.                   *)
(***************************************************************************)
Relations == [le |-> <<"icmp_le", "fcmp_le">>, lt |-> <<"icmp_lt", "fcmp_lt">>,
              gt |-> <<"icmp_gt", "fcmp_gt">>, ge |-> <<"icmp_ge", "fcmp_ge">>,
              eq |-> <<"icmp_eq", "fcmp_eq">>, neq |-> <<"icmp_ne", "fcmp_ne">>]

\* An ASTSimpleExpression, ASTAdditiveExpression or ASTTerm of one operand.
VisitSingle ==
    /\ Visited("single")
    /\ curr_op' = LOAD
    /\ frames' = Append(Front(frames), Frame(Node.expr))
    /\ UNCHANGED <<treeVars, scopeVars, position, control, expression, code>>

VisitLeft ==
    /\ control = "visit" /\ frames # <<>> /\ Node.kind \in {"simple", "additive", "term"}
    /\ curr_op' = LOAD
    /\ Accept(Node.left, <<>>) /\ UNCHANGED code

\* A wrong VisitRight, which leaves curr_op as the left side left it.
VisitRightAsLeft ==
    /\ control = "back" /\ frames # <<>> /\ Node.kind \in {"simple", "additive", "term"} /\ Saved = <<>>
    /\ Accept(Node.right, <<expression>>) /\ UNCHANGED <<code, curr_op>>

VisitRight ==
    /\ control = "back" /\ frames # <<>> /\ Node.kind \in {"simple", "additive", "term"} /\ Saved = <<>>
    /\ curr_op' = LOAD
    /\ Accept(Node.right, <<expression>>) /\ UNCHANGED code

\* The two sides, widened, and made floats where one of them is.
Sides ==
    LET l == Widened(Have(code, Saved[1]))
        r == Widened(Have(l.code, expression))
        lf == Converted(Have(r.code, l.value), Float)
        rf == Converted(Have(lf.code, r.value), Float)
    IN  IF Type(l) = I32 /\ Type(r) = I32
        THEN [code |-> r.code, args |-> <<l.value, r.value>>, ty |-> I32]
        ELSE [code |-> rf.code, args |-> <<lf.value, rf.value>>, ty |-> Float]

BackSimple ==
    /\ Back("simple") /\ Saved # <<>>
    /\ LET s == Sides
       IN  Leave(Make(s.code, Relations[Node.op][IF s.ty = I32 THEN 1 ELSE 2], s.args, I1))
    /\ UNCHANGED curr_op

BackAdditive ==
    /\ Back("additive") /\ Saved # <<>>
    /\ LET s == Sides IN Leave(Make(s.code, Node.op, s.args, s.ty))
    /\ UNCHANGED curr_op

BackTerm ==
    /\ Back("term") /\ Saved # <<>>
    /\ LET s == Sides IN Leave(Make(s.code, Node.op, s.args, s.ty))
    /\ UNCHANGED curr_op

(***************************************************************************)
(* ASTAssignExpression: the right side, then the variable, for a STORE;    *)
(* what the variable leaves in expression is the value of the assignment.  *)
(***************************************************************************)
VisitAssign ==
    /\ Visited("assign")
    /\ curr_op' = LOAD
    /\ Accept(Node.right, <<>>) /\ UNCHANGED code

VisitTarget ==
    /\ Back("assign")
    /\ curr_op' = STORE
    /\ frames' = Append(Front(frames), Frame(Node.var))
    /\ control' = "visit"
    /\ UNCHANGED <<treeVars, scopeVars, position, expression, code>>

(***************************************************************************)
(* ASTVar.  It visits its index for a LOAD whatever it is visited for      *)
(* itself; for a STORE it saves the right side first.                      *)
(***************************************************************************)
LoadScalar ==
    /\ Visited("var") /\ curr_op = LOAD /\ Node.index = None
    /\ LET k == Find(Node.id)
           d == decls[k]
           loaded == Make(code, "load", <<Alloca(k)>>, Held(d))
       IN  CASE d.shape = "scalar" -> Leave(loaded)
             [] d.shape = "array" ->
                  Leave(Make(code, "gep", <<Alloca(k), Const(0), Const(0)>>, PointerTo(d.elem)))
             [] OTHER ->
                  Leave(Make(loaded.code, "gep", <<loaded.value, Const(0)>>, PointerTo(d.elem)))
    /\ UNCHANGED curr_op

VisitIndex ==
    /\ Visited("var") /\ curr_op = LOAD /\ Node.index # None
    /\ curr_op' = LOAD
    /\ Accept(Node.index, <<>>) /\ UNCHANGED code

\* A wrong Element, which steps from the array as a whole.
ElementOneIndex(index) ==
    LET k == Find(Node.id)
        d == decls[k]
        i == AsIndex(index)
        checked == Make(i.code, "check", <<i.value>>, I32)
        loaded == Make(checked.code, "load", <<Alloca(k)>>, Held(d))
        again(c) == AsIndex(Have(c, index.value))
    IN  IF d.shape = "pointer"
        THEN LET n == again(loaded.code)
             IN  Make(n.code, "gep", <<loaded.value, n.value>>, PointerTo(d.elem))
        ELSE LET n == again(checked.code)
             IN  Make(n.code, "gep", <<Alloca(k), n.value>>, PointerTo(Held(d)))

\* The address of the element an index names, behind the check of the index.
Element(index) ==
    LET k == Find(Node.id)
        d == decls[k]
        i == AsIndex(index)
        checked == Make(i.code, "check", <<i.value>>, I32)
        loaded == Make(checked.code, "load", <<Alloca(k)>>, Held(d))
        again(c) == AsIndex(Have(c, index.value))
    IN  IF d.shape = "pointer"
        THEN LET n == again(loaded.code)
             IN  Make(n.code, "gep", <<loaded.value, n.value>>, PointerTo(d.elem))
        ELSE LET n == again(checked.code)
             IN  Make(n.code, "gep", <<Alloca(k), Const(0), n.value>>, PointerTo(d.elem))

LoadElement ==
    /\ Back("var") /\ Saved = <<>>
    /\ LET e == Element(Widened(Here))
       IN  Leave(Make(e.code, "load", <<e.value>>, decls[Find(Node.id)].elem))
    /\ UNCHANGED curr_op

StoreScalar ==
    /\ Visited("var") /\ curr_op = STORE /\ Node.index = None
    /\ LET k == Find(Node.id)
           e == Converted(Widened(Here), decls[k].elem)
           stored == Make(e.code, "store", <<e.value, Alloca(k)>>, Void)
       IN  Leave(Have(stored.code, e.value))
    /\ UNCHANGED curr_op

VisitStoreIndex ==
    /\ Visited("var") /\ curr_op = STORE /\ Node.index # None
    /\ curr_op' = LOAD
    /\ Accept(Node.index, <<expression>>) /\ UNCHANGED code

\* The value it leaves is the index.
StoreElement ==
    /\ Back("var") /\ Saved # <<>>
    /\ LET index == Widened(Here)
           right == Converted(Have(index.code, Saved[1]), decls[Find(Node.id)].elem)
           e == Element(Have(right.code, index.value))
           stored == Make(e.code, "store", <<right.value, e.value>>, Void)
       IN  Leave(Have(stored.code, index.value))
    /\ UNCHANGED curr_op

(***************************************************************************)
(* ASTCall: each argument is converted before the next is visited.         *)
(***************************************************************************)
Call(c, args) ==
    LET d == decls[Find(Node.id)] IN Make(c, "call", <<<<"function", Node.id>>>> \o args, d.elem)

VisitCall ==
    /\ Visited("call")
    /\ IF Node.args = <<>> THEN Leave(Call(code, <<>>))
       ELSE Accept(Head(Node.args), <<>>) /\ UNCHANGED code
    /\ UNCHANGED curr_op

\* A wrong BackFromArgument, which converts to the type of the first parameter.
BackFromArgumentFirstType ==
    /\ Back("call")
    /\ LET param == decls[Find(Node.id)].params[1]
           e == Converted(Here, param)
           args == Append(Saved, e.value)
       IN  IF Len(args) = Len(Node.args) THEN Leave(Call(e.code, args))
           ELSE Accept(Node.args[Len(args) + 1], args) /\ code' = e.code
    /\ UNCHANGED curr_op

BackFromArgument ==
    /\ Back("call")
    /\ LET param == decls[Find(Node.id)].params[Len(Saved) + 1]
           e == Converted(Here, param)
           args == Append(Saved, e.value)
       IN  IF Len(args) = Len(Node.args) THEN Leave(Call(e.code, args))
           ELSE Accept(Node.args[Len(args) + 1], args) /\ code' = e.code
    /\ UNCHANGED curr_op

(***************************************************************************)
(* ASTExpressionStmt and ASTReturnStmt.                                    *)
(***************************************************************************)
VisitStatement ==
    /\ Visited("stmt") \/ Visited("return")
    /\ Node.expr # None
    /\ curr_op' = IF Node.kind = "return" THEN LOAD ELSE curr_op
    /\ Accept(Node.expr, <<>>) /\ UNCHANGED code

\* The visitor of an empty statement follows a null pointer.
VisitEmpty ==
    /\ Visited("stmt") /\ Node.expr = None
    /\ control' = "crashed"
    /\ UNCHANGED <<treeVars, scopeVars, bodyVars, valueVars>>

BackToStatement == Back("stmt") /\ Leave(Here) /\ UNCHANGED curr_op

\* A return without a value only branches.
VisitBareReturn == Visited("return") /\ Node.expr = None /\ Leave(Here) /\ UNCHANGED curr_op

BackToReturn ==
    /\ Back("return")
    /\ LET e == Converted(Widened(Here), ReturnType)
           stored == Make(e.code, "store", <<e.value, ReturnAlloca>>, Void)
       IN  Leave(Have(stored.code, expression))
    /\ UNCHANGED curr_op

Declares == BuildAST \/ VisitGlobal \/ VisitFunction \/ VisitCompound \/ NextStatement \/ LeaveFunction
Visits == VisitNum \/ VisitSingle \/ VisitLeft \/ VisitRight \/ VisitAssign \/ VisitTarget \/ VisitIndex
          \/ VisitStoreIndex \/ VisitCall \/ VisitStatement \/ VisitEmpty
Returns == BackSimple \/ BackAdditive \/ BackTerm \/ LoadScalar \/ LoadElement \/ StoreScalar
           \/ StoreElement \/ BackFromArgument \/ BackToStatement \/ VisitBareReturn \/ BackToReturn

\* The program has been visited, or the builder is gone.
Done ==
    /\ control = "crashed" \/ (control = "declare" /\ place > Len(ast.declarations))
    /\ UNCHANGED vars

Next == Declares \/ Visits \/ Returns \/ Done
Spec == Init /\ [][Next]_vars
-----------------------------------------------------------------------------
(***************************************************************************)
(* What the language asks of the types in a body, with the names in the    *)
(* scopes there.  A node is an int or a float, a truth value (what a       *)
(* comparison is, until it is widened), the address of the elements of an  *)
(* array, or Void: a statement, or a call of a void function.  Where the   *)
(* language asks for a number it takes a truth value for an int.           *)
(***************************************************************************)
Numeric == <<"number">>
Truth == <<"truth">>
NumberClasses == {Numeric, Truth}
ElementTypes == {I32, Float}
ParamTypes == ElementTypes \cup {PointerTo(ty) : ty \in ElementTypes}
Named(id) == decls[Find(id)]

Class(n) ==
    LET m == Written(n)
    IN  CASE m.kind \in {"stmt", "return"} -> Void
          [] m.kind = "simple" -> Truth
          [] m.kind = "call" /\ Named(m.id).elem = Void -> Void
          [] m.kind = "var" /\ m.index = None /\ Named(m.id).shape # "scalar" -> PointerTo(Named(m.id).elem)
          [] OTHER -> Numeric

\* An argument is anything but a bare variable: that is below nodes of one operand.
IsArgument(n, ty) == n.kind # "var" /\ Class(n) \in IF ty \in ElementTypes THEN NumberClasses ELSE {ty}

IsVariable(id) == Find(id) \in DOMAIN decls /\ Named(id).elem \in ElementTypes
                  /\ Named(id).shape \in {"scalar", "array", "pointer"}
IsFunction(id) == Find(id) \in DOMAIN decls /\ Named(id).elem \in ElementTypes \cup {Void}
                  /\ Named(id).shape = "function" /\ Named(id).params \in Seq(ParamTypes)

TypedVar(n) == /\ IsVariable(n.id)
               /\ n.index # None => Named(n.id).shape # "scalar" /\ Class(n.index) \in NumberClasses

TypedCall(n) ==
    LET params == Named(n.id).params
    IN  /\ IsFunction(n.id)
        /\ n.args \in Seq(Children(n)) /\ Len(n.args) = Len(params)
        /\ \A k \in DOMAIN params : IsArgument(n.args[k], params[k])

IsTyped(n) ==
    /\ n.kind = "single" => Class(n.expr) = Class(n)
    /\ n.kind \in Operations => {Class(n.left), Class(n.right)} \subseteq NumberClasses
    /\ n.kind = "simple" => n.op \in DOMAIN Relations
    /\ n.kind \in {"additive", "term"} => n.op \in Binary
    /\ n.kind = "assign" =>
         /\ Class(n.right) \in NumberClasses /\ n.var.kind = "var"
         /\ n.var.index = None => Named(n.var.id).shape = "scalar"
    /\ n.kind = "var" => TypedVar(n)
    /\ n.kind = "call" => TypedCall(n)
    /\ n.kind = "stmt" => n.expr.kind # "var"
    /\ n.kind = "return" /\ n.expr # None => Class(n.expr) \in NumberClasses /\ ReturnType \in ElementTypes

\* The nodes are those of the body, and typed.
AreTyped(nodes) ==
    /\ Statements \in Seq(nodes)
    /\ \A n \in ToSet(Statements) : n.kind \in {"stmt", "return"}
    /\ \A n \in nodes : Children(n) \subseteq nodes /\ IsTyped(n)

InBody == control \in {"statements", "visit", "back", "returned", "crashed"}
BodyNodes == NodesBelow(ToSet(Statements), MaxNesting)

\* The nodes that store a truth value in an element of an int array, or pass one for an int.
TakeTruthForInt(nodes) ==
    {n \in nodes :
       \/ /\ n.kind = "assign" /\ n.var.index # None
          /\ Named(n.var.id).elem = I32 /\ Class(n.right) = Truth
       \/ n.kind = "call" /\ \E k \in DOMAIN n.args : Named(n.id).params[k] = I32 /\ Class(n.args[k]) = Truth}
-----------------------------------------------------------------------------
TypeOK ==
    /\ {code[n].ty : n \in DOMAIN code} \subseteq
           {I1, I32, Float, PointerTo(I32), PointerTo(Float), Void}
    /\ Len(inner) \in 1..3
    /\ \A names \in ToSet(inner) : \A id \in DOMAIN names : decls[names[id]].id = id
    /\ curr_op \in {LOAD, STORE}
    /\ control \in {"parse", "declare", "compound", "statements", "visit", "back", "returned", "crashed"}

\* What an instruction of the code c needs of its operands, and has for a type.  In the code of
\* these nodes, where there are any, an i1 may be stored in an int element or passed for an int.
OperandsFitIn(c, i, takers) ==
    LET ty(n) == TypeOf(c, i.args[n])
    IN  CASE i.op \in Binary -> i.ty \in ElementTypes /\ ty(1) = i.ty /\ ty(2) = i.ty
          [] i.op \in ICmp -> i.ty = I1 /\ ty(1) = I32 /\ ty(2) = I32
          [] i.op \in FCmp -> i.ty = I1 /\ ty(1) = Float /\ ty(2) = Float
          [] i.op = "zext" -> i.ty = I32 /\ ty(1) = I1
          [] i.op = "sitofp" -> i.ty = Float /\ ty(1) \in {I1, I32}
          [] i.op = "fptosi" -> i.ty = I32 /\ ty(1) = Float
          [] i.op = "store" -> \/ ty(2) = PointerTo(ty(1))
                               \/ takers # {} /\ ty(1) = I1 /\ ty(2) = PointerTo(I32) /\ i.args[2][1] = "i"
          [] i.op = "load" -> ty(1) = PointerTo(i.ty)
          [] i.op = "check" -> ty(1) = I32
          [] i.op = "gep" ->
               /\ ty(Len(i.args)) = I32
               /\ \E elem \in ElementTypes :
                     /\ i.ty = PointerTo(elem)
                     /\ ty(1) = IF Len(i.args) = 2 THEN PointerTo(elem) ELSE PointerTo(<<"array", elem>>)
          [] i.op = "call" ->
               LET function == Named(i.args[1][2])
               IN  /\ i.ty = function.elem /\ Len(i.args) = Len(function.params) + 1
                   /\ \A n \in DOMAIN function.params :
                         \/ ty(n + 1) = function.params[n]
                         \/ takers # {} /\ ty(n + 1) = I1 /\ function.params[n] = I32

\* In a body whose types are what the language asks for, the operands of every instruction made
\* have exactly the types LightIR asks for, however the expressions mix and nest int, float and
\* truth values, assignments, elements and calls: unless the body itself stores a comparison in
\* an int element or passes one for an int parameter.  There the builder leaves the i1 as it is,
\* an ill-typed store or call, and these two alone are allowed for.
OperandsFit ==
    LET nodes == BodyNodes
        takers == TakeTruthForInt(nodes)
    IN  InBody /\ AreTyped(nodes) => \A n \in DOMAIN code : OperandsFitIn(code, code[n], takers)
=============================================================================
