----------------------------- MODULE Optimizer -----------------------------
(***************************************************************************)
(* The passes as the driver runs them (main of src/src/cminusfc/           *)
(* cminusfc.cpp, PassManager::run): Mem2Reg always, and behind it the pass *)
(* the compiler was given the option of.  The function that ConstPropa-    *)
(* gation or LoopInvHoist leaves is run beside the one it was given; with  *)
(* -activevars the function is run as Mem2Reg leaves it, or analysed.      *)
(***************************************************************************)
EXTENDS ActiveVars, ConstPropagation, LoopInvHoist

CONSTANT OptionsOf(_)    \* the options a function is compiled with, one at a time

optimizerVars == <<vars, analysisVars, runVars, foldVars, hoistVars>>

OptimizerInit ==
    /\ Init /\ AnalysisStart
    /\ RunsStart /\ PropagationStart /\ HoistStart
    /\ option \in OptionsOf(source)

\* The loop of PassManager::run over the passes that were added.
OptimizerNext ==
    \/ option = "activevars" /\ AnalysisNext /\ UNCHANGED <<runVars, foldVars, hoistVars>>
    \/ option = "const_propagation" /\ PropagationNext /\ UNCHANGED <<analysisVars, hoistVars>>
    \/ option = "loop_inv_hoist" /\ HoistNext /\ UNCHANGED <<analysisVars, foldVars>>

\* The compiler runs until it is done; nothing else gives ActiveVars its turn.
OptimizerSpec ==
    /\ OptimizerInit /\ [][OptimizerNext]_optimizerVars
    /\ WF_<<vars, analysisVars>>(option = "activevars" /\ Analyse)
=============================================================================
