--------------------------- MODULE MCExpressions ---------------------------
(***************************************************************************)
(* Programs for Expressions: every operation of every two operands, and    *)
(* assignments, calls and returns of them, in a function below two lists   *)
(* of declarations, in one of which locals and parameters hide globals.    *)
(***************************************************************************)
EXTENDS ExpressionsMeaning

Integer(n) == [kind |-> "integer", number |-> n]
Halves(n) == [kind |-> "float", number |-> n]
At0(id) == [kind |-> "var", id |-> id, index |-> None]
Of(id, index) == [kind |-> "var", id |-> id, index |-> index]
Assign(var, right) == [kind |-> "assign", var |-> var, right |-> right]
Operate(kind, op, left, right) == [kind |-> kind, op |-> op, left |-> left, right |-> right]
CallOf(id, args) == [kind |-> "call", id |-> id, args |-> args]
Statement(e) == [kind |-> "stmt", expr |-> e]
ReturnOf(e) == [kind |-> "return", expr |-> e]

Less(l, r) == Operate("simple", "<", l, r)
Minus(l, r) == Operate("additive", "-", l, r)
Input == CallOf("input", <<>>)

\* Factors, and expressions of one factor.
Numbers == {Integer(1), Halves(3)}
Factors == Numbers \cup {At0("x"), At0("y"), Input}

Two == {Less(l, r) : l \in Factors, r \in Factors}
       \cup {Minus(l, r) : l \in Factors, r \in Factors}
       \cup {Operate("term", "*", l, r) : l \in Factors, r \in Factors}

Indices == {Integer(1), At0("y"), Input,
            Minus(Integer(1), At0("x")), Minus(Integer(1), Halves(3)), Less(Halves(3), At0("x")),
            Assign(At0("x"), Halves(3))}
Elements == {Of(id, i) : id \in {"a", "b", "p"}, i \in Indices} \cup {Of("a", Of("p", Integer(1)))}

\* Factors that change what is visited for what: assignments in parentheses.
Assigned == {Assign(At0(id), e) : id \in {"x", "y"}, e \in Numbers \cup {Input}}
            \cup {Assign(At0("y"), Assign(At0("x"), Halves(3))), Assign(Of("b", Integer(1)), Integer(2)),
                  Assign(At0("x"), Less(Input, Halves(3)))}

Rich == Two \cup Elements \cup Assigned
Mixed == {CallOf("mix", <<e, d, At0(id)>>) :
             e \in Factors \cup Elements, d \in Factors \cup Assigned, id \in {"a", "p"}}
Deep == {Operate("simple", op, e, At0("x")) : op \in {"<=", "==", "!="}, e \in Rich}
        \cup {Operate("additive", "+", e, At0(id)) : e \in Rich, id \in {"x", "y"}}
        \cup {Operate("term", "/", e, At0(id)) : e \in Rich, id \in {"x", "y"}}

\* A type of function and a body: one statement, or a few.
Bodies ==
    {<<type, <<ReturnOf(e)>>>> : type \in {"int", "float"}, e \in Rich \cup Deep \cup Factors}
    \cup {<<"int", <<Statement(Assign(At0(id), e))>>>> : id \in {"x", "y"}, e \in Rich}
    \cup {<<"int", <<Statement(Assign(v, e))>>>> :
             v \in Elements, e \in (Rich \ Two) \cup Factors \cup {Less(At0("x"), Halves(3))}}
    \cup {<<"int", <<Statement(e)>>>> : e \in Mixed}
    \cup {<<"float", <<Statement(Assign(At0("x"), e)), Statement(CallOf("outputFloat", <<d>>)), ReturnOf(At0("x"))>>>> :
             e \in Rich, d \in Numbers \cup {At0("x")}}
    \cup {<<"int", <<ReturnOf(e), Statement(CallOf("output", <<e>>))>>>> : e \in Factors}
    \cup {<<"void", <<Statement(CallOf("output", <<e>>)), ReturnOf(None), Statement(Input)>>>> : e \in Factors}
    \cup {<<"void", <<Statement(None)>>>>, <<"void", <<>>>>}

V(type, id) == [kind |-> "var-declaration", type |-> type, id |-> id, num |-> None]
A(type, id) == [kind |-> "var-declaration", type |-> type, id |-> id, num |-> [number |-> 3]]
P(type, id, isarray) == [type |-> type, id |-> id, isarray |-> isarray]
F(type, id, params, locals, statements) ==
    [kind |-> "fun-declaration", type |-> type, id |-> id, params |-> params, locals |-> locals,
     statements |-> statements]

Mix == F("float", "mix", <<P("float", "x", FALSE), P("int", "y", FALSE), P("int", "p", TRUE)>>, <<>>,
         <<Statement(Assign(Of("p", At0("y")), At0("x")))>>)

MCPrograms ==
    {<<A("int", "a"), A("float", "b"), V("int", "x"), V("float", "y"), Mix,
       F(b[1], "f", <<P("int", "p", TRUE)>>, <<>>, b[2])>> : b \in Bodies}
    \cup {<<A("int", "a"), A("float", "b"), V("float", "x"), V("int", "y"), V("float", "p"), Mix,
            F(b[1], "f", <<P("float", "x", FALSE), P("int", "p", TRUE)>>,
              <<V("int", "x"), V("float", "y"), A("int", "a"), A("float", "b")>>, b[2])>> : b \in Bodies}

MCAST == [p \in MCPrograms |-> ASTOf(p)]
=============================================================================
