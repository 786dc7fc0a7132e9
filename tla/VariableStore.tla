--------------------------- MODULE VariableStore ---------------------------
(***************************************************************************)
(* What a function promises before any pass: it runs from block to block,  *)
(* every variable is a cell of memory, a load reads what was last stored,  *)
(* and each block makes its output.  Values of instructions are used in    *)
(* their own block only and are not part of the state.                     *)
(***************************************************************************)
EXTENDS LightIR

CONSTANTS Blocks, Entry, Null, Variables

VARIABLES
    program,   \* the function
    at,        \* the block run last
    mem,       \* the variables after it
    out        \* what it has put out

Init ==
    /\ at = Null
    /\ mem = [v \in Variables |-> Undef]
    /\ out = <<>>

NextBlocks == IF at = Null THEN {Entry} ELSE ToSet(program.succ[at])

\* Control goes to block b, which runs to its end.
Run(b) ==
    LET s == RunBlock(program, [at |-> at, env |-> <<>>, mem |-> mem, out |-> <<>>], b)
    IN  /\ b \in NextBlocks
        /\ at' = b /\ mem' = s.mem /\ out' = s.out
        /\ UNCHANGED program

Next == \E b \in Blocks : Run(b)

Spec == Init /\ [][Next]_<<program, at, mem, out>>
=============================================================================
