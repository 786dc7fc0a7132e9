--------------------------- MODULE AbstractSyntax ---------------------------
(***************************************************************************)
(* The nodes of an AST (src/include/ast.hpp), each a record of its kind.   *)
(* Those of a function's body are                                          *)
(*    stmt, return               expr, or None                             *)
(*    assign                     var, right                                *)
(*    simple, additive, term     op, left, right                           *)
(*    single                     expr: one of these three, of one operand  *)
(*    var                        id, index, or None                        *)
(*    call                       id, args                                  *)
(*    num                        type, number                              *)
(***************************************************************************)
EXTENDS Sequences, SequencesExt

None == [kind |-> "none"]       \* a node that is not there

Operations == {"simple", "additive", "term"}

Children(n) == CASE n.kind \in {"stmt", "return"} -> {n.expr} \ {None}
                 [] n.kind = "single" -> {n.expr}
                 [] n.kind = "assign" -> {n.var, n.right}
                 [] n.kind \in Operations -> {n.left, n.right}
                 [] n.kind = "var" -> {n.index} \ {None}
                 [] n.kind = "call" -> ToSet(n.args)
                 [] OTHER -> {}

\* The nodes trees of at most this many levels consist of.
NodesBelow(trees, levels) ==
    FoldLeft(LAMBDA nodes, k : nodes \cup UNION {Children(n) : n \in nodes},
             trees, [k \in 1..levels |-> k])

\* What is written below three nodes of a single operand, if n is the upper of them:
\* what the grammar has for an operand that is used as it is.
Written(n) ==
    LET below(m) == IF m.kind = "single" THEN m.expr ELSE m IN below(below(below(n)))
=============================================================================
