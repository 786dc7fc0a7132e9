---------------------------- MODULE MCOptimizer -----------------------------
(***************************************************************************)
(* Small instances of Optimizer: functions of the shapes the IR builder    *)
(* makes, with the statements that matter to each pass.                    *)
(***************************************************************************)
EXTENDS Optimizer, TLC

S == INSTANCE MCStatements

CONSTANTS b1, b2, b3, b4, b5, b6

(***************************************************************************)
(* A shape lists the blocks of a function, each with the places in the     *)
(* list of its successors.                                                 *)
(***************************************************************************)
InOrder == <<Entry, b1, b2, b3, b4, b5, b6>>
Place == [b \in Blocks |-> CHOOSE n \in DOMAIN InOrder : InOrder[n] = b]

Successors(s) ==
    [b \in Blocks |-> IF Place[b] > Len(s) THEN <<>>
                      ELSE [k \in DOMAIN s[Place[b]] |-> InOrder[s[Place[b]][k]]]]

\* The functions of shape s whose n-th block has one of the bodies choices[n].
Made(s, choices) ==
    LET add(tuples, some) == {Append(t, x) : t \in tuples, x \in some}
    IN  {S!Function(SubSeq(InOrder, 1, Len(s)), Successors(s),
                    [b \in Blocks |-> IF Place[b] > Len(s) THEN <<>> ELSE t[Place[b]]]) :
            t \in FoldLeft(add, {<<>>}, choices)}

\* The ends block n of shape s may have, with these conditions to branch on.
Ends(s, n, conditions) ==
    LET to(k) == InOrder[s[n][k]]
    IN  CASE s[n] = <<>> -> {S!Return}
          [] Len(s[n]) = 1 -> {S!Jump(to(1))}
          [] Len(s[n]) = 2 -> {S!Fork(c[1], c[2], c[3], to(1), to(2)) : c \in conditions}

IfElse     == << <<2, 3>>, <<4>>, <<4>>, <<>> >>
IfElseThen == << <<2, 3>>, <<4>>, <<4>>, <<5>>, <<>> >>
TwoIfs     == << <<2, 3>>, <<3>>, <<4, 5>>, <<5>>, <<>> >>
IfWhile    == << <<2, 3>>, <<3>>, <<4>>, <<4, 5>>, <<>> >>
While      == << <<2>>, <<3, 4>>, <<2>>, <<>> >>
IfInIf     == << <<2, 5>>, <<3, 4>>, <<4>>, <<5>>, <<>> >>
WhileWhile == << <<2>>, <<3, 5>>, <<3, 4>>, <<2>>, <<>> >>
WhileIf    == << <<2>>, <<3, 5>>, <<4, 2>>, <<2>>, <<>> >>
Returning  == << <<2, 3>>, <<6>>, <<4, 5>>, <<6>>, <<6>>, <<>> >>
Check      == << <<2, 3>>, <<3>>, <<>> >>
LoopInLoop == << <<2>>, <<3, 7>>, <<4>>, <<5, 6>>, <<4>>, <<2>>, <<>> >>
IfInLoop   == << <<2>>, <<3, 6>>, <<4, 5>>, <<5>>, <<2>>, <<>> >>

MCCFGs ==
    {[b \in Blocks |-> ToSet(Successors(s)[b])] :
        s \in {IfElse, IfElseThen, TwoIfs, IfWhile, While, IfInIf, WhileWhile, WhileIf, Returning,
               Check, LoopInLoop, IfInLoop}}

(***************************************************************************)
(* For Mem2Reg and ActiveVars.  The entry block stores every local, as a   *)
(* function does that reads no local before it was assigned.  What a block *)
(* branches on does not matter.                                            *)
(***************************************************************************)
\* output(v = w), whose load has two uses
PutCopy(v, w) == <<<<"load", Variable(w)>>, <<"store", S!Ago(1), Variable(v)>>, <<"print", S!Ago(2)>>>>

Moves == {<<>>, PutCopy("y", "x"), S!Copy("x", "y") \o S!Copy("g", "x")}
Bodies == Moves \cup {S!Set("x", 2), S!Copy("x", "g")}

Analysed ==
    UNION {Made(s, <<{S!Set("x", 0) \o S!Set("y", 1)}, Moves \cup {S!Set("x", 2)}, Bodies, Moves,
                {<<>>, PutCopy("y", "x")}>>) :
              s \in {IfElseThen, IfWhile, WhileWhile, WhileIf, IfInIf}}

\* A local of one branch: { int x; x = 2; ... } and nothing of x elsewhere.
MCLocalsOfBranches ==
    UNION {Made(s, <<{<<>>}, {S!Set("x", 2), S!Set("x", 2) \o PutCopy("y", "x")},
                     {<<>>}, {<<>>}, {<<>>}>>) :
              s \in {IfElseThen, IfWhile, WhileWhile, WhileIf, IfInIf}}

(***************************************************************************)
(* For ConstPropagation.                                                   *)
(***************************************************************************)
Divide0 == S!Assign("x", "x", "sdiv", Const(0))
AsFloat == <<<<"load", Variable("x")>>, <<"sitofp", S!Ago(1)>>, <<"add", S!Ago(1), Fp(1)>>,
             <<"fcmp_gt", S!Ago(1), Fp(1)>>, <<"zext", S!Ago(1)>>, <<"store", S!Ago(1), Variable("x")>>>>

Propagated(s) ==
    LET only(set) == IF s = IfElse THEN set ELSE {}
        conditions == {<<"x", "icmp_ne", Zero>>, <<"g", "icmp_ne", Zero>>}
                        \cup only({<<"x", "icmp_lt", Const(1)>>})
        body(n) ==
            CASE n = 1 -> {S!Set("x", k) : k \in {0, 1}} \cup only({S!Set("x", 1) \o AsFloat})
              [] n > 1 /\ s[n] = <<>> -> {S!Put("x")}
              [] s = Returning -> IF n = 2 THEN {<<>>} ELSE {<<>>, S!Set("x", 0)}
              [] OTHER -> {<<>>, S!Set("x", 0), S!Assign("x", "x", "add", Const(1))}
                            \cup only({Divide0, S!Put("x")})
    IN  Made(s, [n \in DOMAIN s |-> {x \o y : x \in body(n), y \in Ends(s, n, conditions)}])

\* a[n] for a constant n: the index check and what follows it.
MCChecks ==
    Made(Check, <<{S!Set("x", n) \o S!Fork("x", "icmp_lt", Zero, b1, b2) : n \in -2..3},
                  {<<<<"print", NegIdxExcept>>>> \o S!Jump(b2)}, {S!Put("x") \o S!Return}>>)

(***************************************************************************)
(* For LoopInvHoist: while (x < 2) { ... } with another loop, or an if, in *)
(* its body.                                                               *)
(***************************************************************************)
Add(v, w, n) == S!Assign(v, w, "add", n)

\* y = w / x, a division
Divide == <<<<"load", Variable("w")>>, <<"load", Variable("x")>>, <<"sdiv", S!Ago(2), S!Ago(1)>>,
            <<"store", S!Ago(1), Variable("y")>>>>

\* y = w + 1 + 1
AddTwo == <<<<"load", Variable("w")>>, <<"add", S!Ago(1), Const(1)>>, <<"add", S!Ago(1), Const(1)>>,
            <<"store", S!Ago(1), Variable("y")>>>>

Starts == {S!Set("x", 0) \o S!Set("y", 1) \o w :
             w \in {S!Set("w", 1), S!Copy("w", "g") \o Add("w", "w", Const(1))}}
Steps == {<<>>, AddTwo, Add("w", "y", Const(1)) \o Add("y", "w", Const(1))}

\* The functions of shape s with these bodies: the loops test x, an if tests g.
Looping(s, bodies) ==
    LET loops == {2, 4}
        condition(n) == IF n \in loops THEN {<<"x", "icmp_lt", Const(2)>>} ELSE {<<"g", "icmp_ne", Zero>>}
    IN  Made(s, [n \in DOMAIN s |-> {x \o y : x \in bodies[n], y \in Ends(s, n, condition(n))}])

Then(bodies, last) == {x \o last : x \in bodies}
Count == Add("x", "x", Const(1))

Hoisted ==
    Looping(LoopInLoop, <<Starts, {<<>>}, Steps, {<<>>}, Then(Steps \ {<<>>}, Count),
                          {<<>>, Add("y", "g", Const(1))}, {S!Put("y")}>>)
      \cup Looping(IfInLoop, <<Starts, {<<>>}, {<<>>}, Steps \cup {Divide}, {Count, AddTwo \o Count},
                               {S!Put("y")}>>)

\* while (x < 2) { y = w + 1; x = x + 1; }
MCLoops ==
    Looping(While, <<Starts, {<<>>}, {Add("y", "w", Const(1)) \o Count}, {S!Put("y")}>>)
-----------------------------------------------------------------------------
MCFunctions ==
    Analysed \cup Hoisted \cup UNION {Propagated(s) : s \in {IfElse, TwoIfs, While, IfInIf, Returning}}

\* Each function goes to the pass it was made for.
Branches(g) == \E i \in DOMAIN g.op : g.op[i] = "br"
Loops(g) == \E i \in DOMAIN g.op : g.op[i] = "icmp_lt" /\ g.args[i][2] = Const(2)

MCOptionsOf(g) ==
    CASE ~Branches(g) -> {"activevars"}
      [] Loops(g) -> {"loop_inv_hoist"}
      [] OTHER -> {"const_propagation"}

\* So Mem2Reg leaves SSA form.
ASSUME StoresComeFirst == \A g \in MCFunctions : StartsWithStores(g) /\ KeepsDeadCodeApart(g)

ASSUME ForksAssumption ==
    \A g \in Functions : "const_propagation" \in OptionsOf(g) =>
        /\ ForksGoForward(g) /\ ForksOwnTheirTargets(g)
        /\ EndsItsBlocks(g) /\ ListsFollowBranches(g)
=============================================================================
