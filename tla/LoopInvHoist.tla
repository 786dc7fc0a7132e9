--------------------------- MODULE LoopInvHoist ----------------------------
(***************************************************************************)
(* The LoopInvHoist pass (src/src/optimization/LoopInvHoist.cpp) on the    *)
(* function that Mem2Reg leaves.  What LoopSearch tells it are the natural *)
(* loops (LoopSearch!FindsNaturalLoops, ParentLoopIsNextAround).           *)
(*                                                                         *)
(* Loops and their blocks are kept in unordered sets: any order may be     *)
(* taken.                                                                  *)
(***************************************************************************)
EXTENDS BeforeAndAfter

VARIABLES
    todo,           \* headers of the loops the loop over all_loops has not come to
    base,           \* bb_base, the header of the loop at work
    scanned,        \* its blocks that were scanned
    nocon_value,
    need_to_out

hoistVars == <<todo, base, scanned, nocon_value, need_to_out>>

HoistStart ==
    /\ todo = {} /\ base = Null /\ scanned = {}
    /\ nocon_value = {} /\ need_to_out = <<>>

HoistInit == RunsInit /\ HoistStart

StartHoist ==
    /\ GivePass("loop_inv_hoist")
    /\ todo' = Headers(Graph(f))
    /\ UNCHANGED <<base, scanned, nocon_value, need_to_out>>

Loop(h) == NaturalLoop(Graph(f), h)

\* The loop h comes to work: every phi of its blocks varies.
EnterLoop(h) ==
    /\ base' = h
    /\ scanned' = {}
    /\ nocon_value' = UNION {PhisIn(f, b) : b \in Loop(h)}
    /\ need_to_out' = <<>>

NextLoop ==
    /\ stage = "pass" /\ base = Null
    /\ \E h \in todo : EnterLoop(h) /\ todo' = todo \ {h}
    /\ UNCHANGED <<vars, runVars>>

\* A wrong Scan, which takes constants only for invariant.
ScanConstants(g, r, i) ==
    IF g.op[i] \notin Binary THEN r
    ELSE IF \A v \in OperandsOf(g, i) : v[1] = "const" THEN [r EXCEPT !.out = Append(@, i)]
    ELSE [r EXCEPT !.nocon = @ \cup {i}]

\* A binary instruction varies when an operand is known to; else it is taken out.
Scan(g, r, i) ==
    IF g.op[i] \notin Binary THEN r
    ELSE IF OperandsOf(g, i) \cap r.nocon # {} THEN [r EXCEPT !.nocon = @ \cup {i}]
    ELSE [r EXCEPT !.out = Append(@, i)]

ScanAll(g, nocon, s) == FoldLeft(LAMBDA r, i : Scan(g, r, i), [nocon |-> nocon, out |-> <<>>], s)

\* A wrong ScanBlock, which forgets what was taken out of other blocks.
ScanBlockAlone ==
    /\ stage = "pass" /\ base # Null
    /\ \E b \in Loop(base) \ scanned :
         LET r == ScanAll(f, nocon_value, f.code[b])
         IN  /\ nocon_value' = r.nocon
             /\ need_to_out' = r.out
             /\ f' = FoldLeft(LAMBDA g, i : DeleteInstr(g, b, i), f, r.out)
             /\ scanned' = scanned \cup {b}
    /\ UNCHANGED <<source, passVars, machine, runVars, todo, base>>

\* The next block of the loop: what does not vary is taken out of it.
ScanBlock ==
    /\ stage = "pass" /\ base # Null
    /\ \E b \in Loop(base) \ scanned :
         LET r == ScanAll(f, nocon_value, f.code[b])
         IN  /\ nocon_value' = r.nocon
             /\ need_to_out' = need_to_out \o r.out
             /\ f' = FoldLeft(LAMBDA g, i : DeleteInstr(g, b, i), f, r.out)
             /\ scanned' = scanned \cup {b}
    /\ UNCHANGED <<source, passVars, machine, runVars, todo, base>>

Outside(h) == PreBlocks(Graph(f), h) \ Loop(h)

\* The header of the next loop around h, which get_parent_loop names.
Parents(h) ==
    LET around == {k \in Headers(Graph(f)) \ {h} : Loop(h) \subseteq Loop(k)}
    IN  {k \in around : \A m \in around : Loop(k) \subseteq Loop(m)}

\* A wrong PutOut, which turns the order round.
PutOutTurned ==
    /\ stage = "pass" /\ base # Null /\ scanned = Loop(base)
    /\ \E p \in Outside(base) :
         f' = FoldLeft(LAMBDA g, i : AddInstrBegin(g, p, i), f, need_to_out)
    /\ IF Parents(base) = {} THEN base' = Null /\ UNCHANGED <<scanned, nocon_value, need_to_out>>
       ELSE \E h \in Parents(base) : EnterLoop(h)
    /\ UNCHANGED <<source, passVars, machine, runVars, todo>>

\* What was taken out goes to the front of a predecessor of the header outside
\* the loop, in the order it was found; then it is the parent loop's turn.
PutOut ==
    /\ stage = "pass" /\ base # Null /\ scanned = Loop(base)
    /\ \E p \in Outside(base) :
         f' = FoldLeft(LAMBDA g, i : AddInstrBegin(g, p, i), f, Reverse(need_to_out))
    /\ IF Parents(base) = {} THEN base' = Null /\ UNCHANGED <<scanned, nocon_value, need_to_out>>
       ELSE \E h \in Parents(base) : EnterLoop(h)
    /\ UNCHANGED <<source, passVars, machine, runVars, todo>>

EndHoist ==
    /\ stage = "pass" /\ base = Null /\ todo = {}
    /\ stage' = "before"
    /\ UNCHANGED <<vars, option, given, was, is, hoistVars>>

Hoist == StartHoist \/ NextLoop \/ ScanBlock \/ PutOut \/ EndHoist

\* Mem2Reg, then the pass, then the functions before and after it run.
HoistNext ==
    \/ control # "run" /\ Next /\ UNCHANGED <<runVars, hoistVars>>
    \/ Hoist
    \/ Run /\ UNCHANGED hoistVars

HoistSpec == HoistInit /\ [][HoistNext]_<<vars, runVars, hoistVars>>
-----------------------------------------------------------------------------
\* The pass has no side effects (Documentations/lab5/README.md:91): the function
\* it leaves puts out what the given one does.
HoistRunsAsGiven == option = "loop_inv_hoist" /\ stage = "end" => SameOutput

\* No instruction is lost or doubled between its block and its place outside,
\* however many loops it is taken out of.
KeepsInstructions ==
    option = "loop_inv_hoist" /\ stage # "waiting" =>
        \A i \in Placed(given) :
            Cardinality({b \in Blocks : i \in ToSet(f.code[b])})
              + (IF i \in ToSet(need_to_out) /\ base # Null THEN 1 ELSE 0) = 1

\* Nothing is left behind (Reports/lab5/report-phase2.md:227): no instruction of
\* a loop computes from constants and from values of outside the loop only.
NothingInvariantIsLeft ==
    option = "loop_inv_hoist" /\ stage = "before" =>
        \A h \in Headers(Graph(f)) : \A b \in Loop(h) : \A i \in ToSet(f.code[b]) :
            f.op[i] \in Binary =>
                \E v \in OperandsOf(f, i) : \E c \in Loop(h) : v \in ToSet(f.code[c])

\* Instruction v stands above i: before it in its block, or in a block that every
\* path to that block passes.
IsAbove(v, i) ==
    \E b, c \in Blocks : \E k \in DOMAIN f.code[b], n \in DOMAIN f.code[c] :
        /\ f.code[b][k] = v /\ f.code[c][n] = i
        /\ IF b = c THEN k < n ELSE StrictlyDominates(Graph(f), b, c)

\* The order of taking out and adding is right (Reports/lab5/report-phase2.md:239):
\* an instruction stays below the binary operands computed before it in its own
\* block, whichever of them are put out, and out of how many loops.  (It does not
\* stay below others, such as a load: HoistRunsAsGiven fails by that.)
OperandsOfBlockStayAbove ==
    option = "loop_inv_hoist" /\ stage = "before" =>
        \A b \in Blocks : \A k, n \in DOMAIN given.code[b] :
            /\ k < n /\ given.code[b][k] \in OperandsOf(given, given.code[b][n])
            /\ given.op[given.code[b][k]] \in Binary
            => IsAbove(given.code[b][k], given.code[b][n])
=============================================================================
