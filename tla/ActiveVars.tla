----------------------------- MODULE ActiveVars -----------------------------
(***************************************************************************)
(* The ActiveVars pass (src/src/optimization/ActiveVars.cpp) on the        *)
(* function that Mem2Reg leaves, in the order of the driver                *)
(* (src/src/cminusfc/cminusfc.cpp): liveness by iteration, block by block, *)
(* with phi operands taken out again on the edges they do not belong to.   *)
(***************************************************************************)
EXTENDS Mem2Reg

VARIABLES
    phase,            \* "waiting", "order", "block", "printed"
    calls,            \* active calls of PostOrder
    visited,
    BBlist,           \* the blocks in post order
    turn,             \* the place in BBlist of the block whose turn it is
    Used_v, Def_v,
    live_in, live_out,
    pre_live_in

setVars == <<Used_v, Def_v, live_in, live_out, pre_live_in>>
analysisVars == <<phase, calls, visited, BBlist, turn, setVars>>

NoValues == [b \in Blocks |-> {}]

AnalysisStart ==
    /\ phase = "waiting"
    /\ calls = <<>> /\ visited = {} /\ BBlist = <<>>
    /\ turn = 1
    /\ Used_v = NoValues /\ Def_v = NoValues
    /\ live_in = NoValues /\ live_out = NoValues /\ pre_live_in = NoValues

AnalysisInit == Init /\ AnalysisStart
-----------------------------------------------------------------------------
\* PostOrder, called for the entry block: a call goes on to the first successor
\* that was not visited, or lists its block and returns.
StartPostOrder ==
    /\ control = "run" /\ machine.at = Null /\ phase = "waiting"
    /\ calls' = <<Entry>> /\ visited' = {Entry}
    /\ phase' = "order"
    /\ UNCHANGED <<vars, BBlist, turn, setVars>>

NotVisited(b) == SelectSeq(f.succ[b], LAMBDA s : s \notin visited)

VisitSuccessor ==
    /\ phase = "order" /\ calls # <<>> /\ NotVisited(Last(calls)) # <<>>
    /\ LET s == Head(NotVisited(Last(calls)))
       IN  calls' = Append(calls, s) /\ visited' = visited \cup {s}
    /\ UNCHANGED <<vars, phase, BBlist, turn, setVars>>

ListBlock ==
    /\ phase = "order" /\ calls # <<>> /\ NotVisited(Last(calls)) = <<>>
    /\ BBlist' = Append(BBlist, Last(calls))
    /\ calls' = Front(calls)
    /\ UNCHANGED <<vars, phase, visited, turn, setVars>>

\* An Instruction, an Argument or a GlobalVariable.
IsTracked(v) == v[1] \in {"i", "phi", "var"}

\* I_Get_used_v, from the first instruction of a block to the last: an operand
\* is used here unless it was defined here before, and the other way round.
Get_used_v(b) ==
    FoldLeft(LAMBDA ud, i :
               LET used == ud.used \cup {v \in OperandsOf(f, i) : IsTracked(v) /\ v \notin ud.def}
               IN  [used |-> used, def |-> IF i \in used THEN ud.def ELSE ud.def \cup {i}],
             [used |-> {}, def |-> {}], f.code[b])

StartAnalysis ==
    /\ phase = "order" /\ calls = <<>>
    /\ Used_v' = [b \in Blocks |-> Get_used_v(b).used]
    /\ Def_v' = [b \in Blocks |-> Get_used_v(b).def]
    /\ phase' = "block"
    /\ UNCHANGED <<vars, calls, visited, BBlist, turn, live_in, live_out, pre_live_in>>

\* The operands of the phis of s that come from other blocks than b.
OperandsFromOthers(s, b) ==
    UNION {{f.args[i][n] : n \in {k \in DOMAIN f.args[i] :
                k % 2 = 1 /\ f.args[i][k + 1] # Label(b)}} : i \in PhisIn(f, s)}

\* A wrong LiveOut, which leaves every phi operand live on every edge.
LiveOutOnEveryEdge(b) == UNION {live_in[s] : s \in ToSet(f.succ[b])}

\* What is live behind b, from one successor to the next: what is live in
\* front of it, without the operands its phis have from others.
LiveOut(b) ==
    FoldLeft(LAMBDA live, s : (live \cup live_in[s]) \ OperandsFromOthers(s, b), {}, f.succ[b])

\* One block of a pass over BBlist.
UpdateBlock ==
    /\ phase = "block" /\ turn <= Len(BBlist)
    /\ LET b == BBlist[turn]
       IN  /\ live_out' = [live_out EXCEPT ![b] = LiveOut(b)]
           /\ live_in' = [live_in EXCEPT ![b] = Used_v[b] \cup (LiveOut(b) \ Def_v[b])]
    /\ turn' = turn + 1
    /\ UNCHANGED <<vars, phase, calls, visited, BBlist, Used_v, Def_v, pre_live_in>>

\* A wrong EndPass, which does not keep what it found for the next comparison.
EndPassUnsaved ==
    /\ phase = "block" /\ turn > Len(BBlist)
    /\ phase' = IF \A b \in ToSet(BBlist) : live_in[b] = pre_live_in[b] THEN "printed" ELSE phase
    /\ turn' = 1
    /\ UNCHANGED <<vars, calls, visited, BBlist, setVars>>

\* The pass is over: the next one starts unless nothing has changed, block by
\* block; then the result is printed.
EndPass ==
    /\ phase = "block" /\ turn > Len(BBlist)
    /\ pre_live_in' = live_in
    /\ phase' = IF \A b \in ToSet(BBlist) : live_in[b] = pre_live_in[b] THEN "printed" ELSE phase
    /\ turn' = 1
    /\ UNCHANGED <<vars, calls, visited, BBlist, Used_v, Def_v, live_in, live_out>>

Analyse ==
    \/ StartPostOrder \/ VisitSuccessor \/ ListBlock
    \/ StartAnalysis \/ UpdateBlock \/ EndPass

\* The function runs, or it is analysed.
AnalysisNext ==
    \/ phase = "waiting" /\ Next /\ UNCHANGED analysisVars
    \/ Analyse

\* The compiler runs until it is done; nothing else gives it its turn.
AnalysisSpec ==
    AnalysisInit /\ [][AnalysisNext]_<<vars, analysisVars>> /\ WF_<<vars, analysisVars>>(Analyse)
-----------------------------------------------------------------------------
(***************************************************************************)
(* Liveness by paths.  A phi uses its operand at the end of the block the  *)
(* operand belongs to (Documentations/lab5/README.md:98).                  *)
(***************************************************************************)
Values == UNION {OperandsOf(f, i) : i \in Placed(f)}

DefinedIn(v, b) == v \in ToSet(f.code[b])

UsedInside(v, b) == \E i \in ToSet(f.code[b]) : ~IsPhi(i) /\ v \in OperandsOf(f, i)

UsedOnEdge(v, p, b) ==
    \E i \in PhisIn(f, b) : \E n \in DOMAIN f.args[i] :
        n % 2 = 1 /\ f.args[i][n] = v /\ f.args[i][n + 1] = Label(p)

\* The blocks from whose end control may go, in at most n steps, to a use of v
\* without passing v's definition.
LiveWithin(v, n) ==
    LET uses == {s \in Blocks : ~DefinedIn(v, s) /\ UsedInside(v, s)}
        passes == {s \in Blocks : ~DefinedIn(v, s)}
        ends == {p \in Blocks : \E s \in ToSet(f.succ[p]) : UsedOnEdge(v, p, s) \/ s \in uses}
    IN  FoldLeft(LAMBDA live, k : live \cup {p \in Blocks : ToSet(f.succ[p]) \cap live \cap passes # {}},
                 ends, [k \in 1..(n - 1) |-> k])

LiveBehind(v) == LiveWithin(v, Cardinality(Blocks))

\* A phi has v from one block, and v is among live behind another block that
\* enters it.
SharedOperand(v, live) ==
    \E b \in Blocks : \E p \in PreBlocks(Graph(f), b) :
        UsedOnEdge(v, p, b) /\ (PreBlocks(Graph(f), b) \ {p}) \cap live # {}

\* A phi has the phi v of its own block, which stands before it.
PhiOfPhi(v) ==
    \E b \in Blocks : \E j, k \in DOMAIN f.code[b] :
        j < k /\ f.code[b][j] = v /\ IsPhi(f.code[b][k]) /\ v \in OperandsOf(f, f.code[b][k])

\* What the pass prints: no value is live that is not used on some path, and
\* every value that is is found, but for two kinds of phi operands: one that is
\* also live behind another block that enters the phi, and the phi of a loop
\* that another phi of the loop has from the last time around.
FindsLiveValues ==
    phase = "printed" =>
        \A v \in Values : IsTracked(v) =>
            LET live  == LiveBehind(v)
                found == {b \in Blocks : v \in live_out[b]}
            IN  found \subseteq live /\ (found = live \/ SharedOperand(v, live) \/ PhiOfPhi(v))

\* The iteration ends, although each pass takes phi operands out again.
AnalysisEnds == phase = "order" ~> phase = "printed"
=============================================================================
