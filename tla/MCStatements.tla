--------------------------- MODULE MCStatements ----------------------------
(***************************************************************************)
(* Functions for small instances.  A body is a sequence of instructions    *)
(* <<op, operand, ...>>; the operand Ago(n) is the instruction n places    *)
(* before.                                                                 *)
(***************************************************************************)
EXTENDS LightIR

Ago(n) == <<"ago", n>>

Set(v, n) == <<<<"store", Const(n), Variable(v)>>>>
Copy(v, w) == <<<<"load", Variable(w)>>, <<"store", Ago(1), Variable(v)>>>>
Put(v) == <<<<"load", Variable(v)>>, <<"print", Ago(1)>>>>
\* v = w op n
Assign(v, w, op, n) ==
    <<<<"load", Variable(w)>>, <<op, Ago(1), n>>, <<"store", Ago(1), Variable(v)>>>>
Jump(b) == <<<<"br", Label(b)>>>>
Return == <<<<"ret">>>>
\* if (v op n) and while (v op n)
Fork(v, op, n, b, c) ==
    <<<<"load", Variable(v)>>, <<op, Ago(1), n>>, <<"br", Ago(1), Label(b), Label(c)>>>>

\* The function of these blocks with the bodies and successors given.
Function(blocks, succ, body) ==
    LET names == DOMAIN body
        ids == UNION {{<<"i", b, k>> : k \in DOMAIN body[b]} : b \in names}
        operand(i, v) == IF v[1] = "ago" THEN <<"i", i[2], i[3] - v[2]>> ELSE v
        args == [i \in ids |-> [n \in DOMAIN Tail(body[i[2]][i[3]]) |->
                                   operand(i, body[i[2]][i[3]][n + 1])]]
    IN  [code |-> [b \in names |-> [k \in DOMAIN body[b] |-> <<"i", b, k>>]],
         op |-> [i \in ids |-> Head(body[i[2]][i[3]])],
         args |-> args,
         uses |-> UsesOf(args),
         blocks |-> blocks,
         succ |-> succ,
         pre |-> [b \in names |-> SelectSeq(blocks, LAMBDA c : b \in ToSet(succ[c]))]]
=============================================================================
