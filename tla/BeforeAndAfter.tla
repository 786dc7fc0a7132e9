------------------------- MODULE BeforeAndAfter ----------------------------
(***************************************************************************)
(* A pass that follows Mem2Reg, as in src/src/cminusfc/cminusfc.cpp: the   *)
(* function it is given, and this function and the one it leaves running   *)
(* on the same input.  One option is given besides -mem2reg.               *)
(***************************************************************************)
EXTENDS Mem2Reg

CONSTANT MaxBlocks    \* how many blocks a run of a function may go through

VARIABLES
    option,         \* the option the driver was given
    stage,          \* "waiting", "pass", "crashed", "before", "after", "end"
    given,          \* the function before the pass
    was, is         \* the runs of that function and of f

Options == {"activevars", "const_propagation", "loop_inv_hoist"}

runVars == <<option, stage, given, was, is>>

Idle == [at |-> Null, env |-> <<>>, mem |-> <<>>, out |-> <<>>, all |-> <<>>, count |-> 0]

RunsStart ==
    /\ option \in Options
    /\ stage = "waiting"
    /\ given = source
    /\ was = Idle /\ is = Idle

RunsInit == Init /\ RunsStart

\* Mem2Reg is done: the pass is given what it left, when its option is set.
GivePass(o) ==
    /\ option = o
    /\ control = "run" /\ stage = "waiting"
    /\ stage' = "pass"
    /\ given' = f
    /\ UNCHANGED <<vars, option, was, is>>

\* The input: what the globals hold.
ReadInput ==
    /\ stage = "before" /\ was.count = 0
    /\ \E mem \in [Memory \ Scalars -> {Const(0), Const(1)}] :
         /\ was' = [Idle EXCEPT !.mem = mem, !.count = 1]
         /\ is' = [Idle EXCEPT !.mem = mem, !.count = 1]
    /\ UNCHANGED <<vars, option, stage, given>>

\* The block a label names.
BlockOf(label) == label[2]

\* The label s goes to next in g, or Undef where it cannot go on.
GoesTo(g, s) == IF s.at = Null THEN Label(Entry) ELSE Target(g, s)

\* s runs its next block in g.
Advance(g, s) ==
    LET t == RunBlock(g, s, BlockOf(GoesTo(g, s)))
    IN  [at |-> t.at, env |-> t.env, mem |-> t.mem, out |-> t.out,
         all |-> s.all \o t.out, count |-> s.count + 1]

\* A function has returned: its last block has no branch.
Returned(g, s) == s.at # Null /\ ~\E i \in ToSet(g.code[s.at]) : g.op[i] = "br"

RunGiven ==
    /\ stage = "before" /\ was.count \in 1..MaxBlocks
    /\ IF Returned(given, was) THEN stage' = "after" /\ UNCHANGED was
       ELSE was' = Advance(given, was) /\ UNCHANGED stage
    /\ UNCHANGED <<vars, option, given, is>>

CanGoOn(s) == GoesTo(f, s) # Undef /\ BlockOf(GoesTo(f, s)) \in ToSet(f.blocks)

RunResult ==
    /\ stage = "after"
    /\ IF CanGoOn(is) /\ is.count <= MaxBlocks
       THEN is' = Advance(f, is) /\ UNCHANGED stage
       ELSE stage' = "end" /\ UNCHANGED is
    /\ UNCHANGED <<vars, option, given, was>>

Run == ReadInput \/ RunGiven \/ RunResult

SameOutput == Returned(f, is) /\ is.all = was.all
=============================================================================
