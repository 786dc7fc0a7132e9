---------------------------- MODULE SyntaxTree ----------------------------
(***************************************************************************)
(* From a program to its AST: the tree the grammar                         *)
(* (src/src/parser/syntax_analyzer.y) gives a program, and what ast.cpp    *)
(* (src/src/common/ast.cpp) makes of that tree.  A tree is a name and its  *)
(* children, a token a tree without children.                              *)
(*                                                                         *)
(* A program is a sequence of declarations, each a record of its kind:     *)
(*    var-declaration   type, id, num (the size of an array, or None)      *)
(*    fun-declaration   type, id, params, locals, statements               *)
(* A statement is a stmt or a return of an expr, or of None.  An           *)
(* expression is a record of its kind too, and is written with the         *)
(* parentheses it needs and no others.                                     *)
(***************************************************************************)
EXTENDS AbstractSyntax

Tree(name, children) == [name |-> name, children |-> children]
Token(name) == Tree(name, <<>>)
Epsilon == <<Token("epsilon")>>
-----------------------------------------------------------------------------
(***************************************************************************)
(* The grammar: expressions nest in five levels, lists grow to the left.   *)
(***************************************************************************)
\* The list t continued with the trees xs, each behind the tokens of between.
List(name, t, between, xs) ==
    FoldLeft(LAMBDA list, x : Tree(name, <<list>> \o between \o <<x>>), t, xs)

RECURSIVE Parsed(_, _)

\* Two operands of a level, or what is on the level below.
ParsedLevel(level, e, kind, left, op, right) ==
    IF e.kind = kind
    THEN Tree(level, <<Parsed(left, e.left), Tree(op, <<Token(e.op)>>), Parsed(right, e.right)>>)
    ELSE Tree(level, <<Parsed(right, e)>>)

ParsedFactor(e) ==
    Tree("factor",
         CASE e.kind \in {"var", "call"}   -> <<Parsed(e.kind, e)>>
           [] e.kind \in {"integer", "float"} -> <<Tree(e.kind, <<Token(e.number)>>)>>
           [] OTHER -> <<Token("("), Parsed("expression", e), Token(")")>>)

ParsedArgs(args) ==
    LET each == [n \in DOMAIN args |-> Parsed("expression", args[n])]
    IN  Tree("args", IF args = <<>> THEN Epsilon
                     ELSE <<List("arg-list", Tree("arg-list", <<Head(each)>>), <<Token(",")>>, Tail(each))>>)

\* The tree of e as the nonterminal level.
Parsed(level, e) ==
    CASE level = "expression" ->
           IF e.kind = "assign"
           THEN Tree(level, <<Parsed("var", e.var), Token("="), Parsed(level, e.right)>>)
           ELSE Tree(level, <<Parsed("simple-expression", e)>>)
      [] level = "simple-expression" ->
           ParsedLevel(level, e, "simple", "additive-expression", "relop", "additive-expression")
      [] level = "additive-expression" ->
           ParsedLevel(level, e, "additive", "additive-expression", "addop", "term")
      [] level = "term" -> ParsedLevel(level, e, "term", "term", "mulop", "factor")
      [] level = "factor" -> ParsedFactor(e)
      [] level = "var" ->
           Tree(level, IF e.index = None THEN <<Token(e.id)>>
                       ELSE <<Token(e.id), Token("["), Parsed("expression", e.index), Token("]")>>)
      [] level = "call" -> Tree(level, <<Token(e.id), Token("("), ParsedArgs(e.args), Token(")")>>)

Specifier(type) == Tree("type-specifier", <<Token(type)>>)

ParsedVariable(d) ==
    Tree("var-declaration",
         <<Specifier(d.type), Token(d.id)>>
           \o (IF d.num = None THEN <<>> ELSE <<Token("["), Token(d.num.number), Token("]")>>) \o <<Token(";")>>)

ParsedParam(p) ==
    Tree("param", <<Specifier(p.type), Token(p.id)>> \o (IF p.isarray THEN <<Token("[]")>> ELSE <<>>))

ParsedParams(params) ==
    LET each == [n \in DOMAIN params |-> ParsedParam(params[n])]
    IN  Tree("params", IF params = <<>> THEN <<Token("void")>>
                       ELSE <<List("param-list", Tree("param-list", <<Head(each)>>), <<Token(",")>>, Tail(each))>>)

ParsedStatement(s) ==
    LET expression == IF s.expr = None THEN <<>> ELSE <<Parsed("expression", s.expr)>>
    IN  Tree("statement",
             IF s.kind = "return"
             THEN <<Tree("return-stmt", <<Token("return")>> \o expression \o <<Token(";")>>)>>
             ELSE <<Tree("expression-stmt", expression \o <<Token(";")>>)>>)

ParsedCompound(locals, statements) ==
    LET local(n) == ParsedVariable(locals[n])
        statement(n) == ParsedStatement(statements[n])
    IN  Tree("compound-stmt",
             <<Token("{"),
               List("local-declarations", Tree("local-declarations", Epsilon), <<>>,
                    [n \in DOMAIN locals |-> local(n)]),
               List("statement-list", Tree("statement-list", Epsilon), <<>>,
                    [n \in DOMAIN statements |-> statement(n)]),
               Token("}")>>)

ParsedFunction(d) ==
    Tree("fun-declaration",
         <<Specifier(d.type), Token(d.id), Token("("), ParsedParams(d.params), Token(")"),
           ParsedCompound(d.locals, d.statements)>>)

ParsedProgram(declarations) ==
    LET each == [n \in DOMAIN declarations |->
                    Tree("declaration", <<IF declarations[n].kind = "var-declaration"
                                          THEN ParsedVariable(declarations[n])
                                          ELSE ParsedFunction(declarations[n])>>)]
    IN  Tree("program", <<List("declaration-list", Tree("declaration-list", <<Head(each)>>), <<>>, Tail(each))>>)
-----------------------------------------------------------------------------
(***************************************************************************)
(* transform_node_iter.  The code counts children from 0.                  *)
(***************************************************************************)
RECURSIVE Flattened(_, _)

\* The elements of a list in order, by way of a stack: a list of size children is
\* another list and an element; what the grammar begins a list with is an element
\* but for the two lists that may be empty.
Flattened(list, size) ==
    IF Len(list.children) = size THEN Append(Flattened(Head(list.children), size), Last(list.children))
    ELSE IF list.name \in {"local-declarations", "statement-list"} THEN <<>>
    ELSE <<Head(list.children)>>

RECURSIVE Transformed(_)

Each(trees) == [n \in DOMAIN trees |-> Transformed(trees[n])]

Size(n) == Len(n.children)
Child(n, k) == Transformed(n.children[k])

\* The text of the token below child k.
Text(n, k) == Head(n.children[k].children).name

\* A variable, or a parameter, is a float unless it is an int.
VariableType(n) == IF Text(n, 1) = "int" THEN "TYPE_INT" ELSE "TYPE_FLOAT"

FunctionType(n) ==
    CASE Text(n, 1) = "int" -> "TYPE_INT"
      [] Text(n, 1) = "float" -> "TYPE_FLOAT"
      [] OTHER -> "TYPE_VOID"

VarDeclaration(n) ==
    [kind |-> "var-declaration", type |-> VariableType(n), id |-> n.children[2].name,
     num |-> IF Size(n) = 3 THEN None
             ELSE [kind |-> "num", type |-> "TYPE_INT", number |-> n.children[4].name]]

Param(n) == [type |-> VariableType(n), id |-> n.children[2].name, isarray |-> Size(n) = 3]

Params(list) == IF list.children = <<>> THEN <<>> ELSE Each(Flattened(list, 3))

FunDeclaration(n) ==
    [kind |-> "fun-declaration", type |-> FunctionType(n), id |-> n.children[2].name,
     params |-> Params(Head(n.children[4].children)), compound_stmt |-> Child(n, 6)]

CompoundStmt(n) ==
    [local_declarations |-> Each(Flattened(n.children[2], 2)),
     statement_list |-> Each(Flattened(n.children[3], 2))]

ExpressionStmt(n) == [kind |-> "stmt", expr |-> IF Size(n) = 2 THEN Child(n, 1) ELSE None]

ReturnStmt(n) == [kind |-> "return", expr |-> IF Size(n) = 3 THEN Child(n, 2) ELSE None]

Expression(n) ==
    IF Size(n) = 1 THEN Child(n, 1)
    ELSE [kind |-> "assign", var |-> Child(n, 1), right |-> Child(n, 3)]

Var(n) ==
    [kind |-> "var", id |-> Head(n.children).name, index |-> IF Size(n) = 4 THEN Child(n, 3) ELSE None]

\* OP_LE and so on.
Op(n) ==
    LET written == <<"<=", "<", ">", ">=", "==", "!=", "+", "-", "*", "/">>
        op == <<"le", "lt", "gt", "ge", "eq", "neq", "add", "sub", "mul", "sdiv">>
    IN  op[CHOOSE k \in DOMAIN written : written[k] = Text(n, 2)]

\* An ASTSimpleExpression, ASTAdditiveExpression or ASTTerm of two operands, and
\* one of a single operand.
Operands(n, kind) ==
    IF Size(n) = 3 THEN [kind |-> kind, op |-> Op(n), left |-> Child(n, 1), right |-> Child(n, 3)]
    ELSE [kind |-> "single", expr |-> Child(n, 1)]

\* The children of a factor in parentheses count from 1.
Factor(n) ==
    LET k == IF Size(n) = 3 THEN 2 ELSE 1
        name == n.children[k].name
    IN  CASE name \in {"expression", "var", "call"} -> Child(n, k)
          [] name = "integer" -> [kind |-> "num", type |-> "TYPE_INT", number |-> Text(n, k)]
          [] name = "float" -> [kind |-> "num", type |-> "TYPE_FLOAT", number |-> Text(n, k)]

CallExpression(n) ==
    LET list == Head(n.children[3].children)
    IN  [kind |-> "call", id |-> Head(n.children).name,
         args |-> IF list.name = "arg-list" THEN Each(Flattened(list, 3)) ELSE <<>>]

Transformed(n) ==
    CASE n.name \in {"declaration", "statement"} -> Child(n, 1)
      [] n.name = "program" -> [declarations |-> Each(Flattened(Head(n.children), 2))]
      [] n.name = "var-declaration" -> VarDeclaration(n)
      [] n.name = "fun-declaration" -> FunDeclaration(n)
      [] n.name = "param" -> Param(n)
      [] n.name = "compound-stmt" -> CompoundStmt(n)
      [] n.name = "expression-stmt" -> ExpressionStmt(n)
      [] n.name = "return-stmt" -> ReturnStmt(n)
      [] n.name = "expression" -> Expression(n)
      [] n.name = "var" -> Var(n)
      [] n.name = "simple-expression" -> Operands(n, "simple")
      [] n.name = "additive-expression" -> Operands(n, "additive")
      [] n.name = "term" -> Operands(n, "term")
      [] n.name = "factor" -> Factor(n)
      [] n.name = "call" -> CallExpression(n)
=============================================================================
