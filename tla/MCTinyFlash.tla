---------------------------- MODULE MCTinyFlash ----------------------------
(***************************************************************************)
(* TinyFlash for TLC: values of one and of three bytes.                    *)
(***************************************************************************)
EXTENDS TinyFlashModes, TLC

CONSTANTS short, long
MCVals == {short, long}
MCValLen == short :> 1 @@ long :> 3

\* The processor keeps executing a call until it returns.
MCSpec == ModesSpec /\ WF_vars(Step)
=============================================================================
