--------------------------- MODULE TinyFlashModes ---------------------------
(***************************************************************************)
(* TinyFlash used in one way or the other: a behaviour has formats or      *)
(* power losses, not both.  tinyFlash_Format leaves the RAM addresses      *)
(* alone, so that after a format a reboot may choose the other sector, and *)
(* no code of the firmware calls it.  For each way of using it, what       *)
(* tinyFlash promises as a dictionary.                                     *)
(***************************************************************************)
EXTENDS TinyFlash

CONSTANT Modes   \* of "formats", "losses", "neither"

VARIABLE mode    \* which of them this behaviour has

ModesInit == Init /\ mode \in Modes
ModesNext ==
  /\ \/ CallRead \/ CallDelete \/ CallWrite
     \/ Step \/ Undefined
     \/ mode = "formats" /\ Format
     \/ mode = "losses" /\ PowerLoss
  /\ UNCHANGED mode
ModesSpec == ModesInit /\ [][ModesNext]_<<vars, mode>>

\* Refinement: without power loss, what tinyFlash_Read can see is at every
\* moment the dictionary of KVStore, and every step of the code is a step of
\* KVStore or invisible: a read or a delete returns -1 only when its key has no
\* value, and never a damaged one, through any number of swaps and formats, none
\* of which copies into a sector that is not erased.
ImplementsKV ==
  /\ InSession!KVInit
  /\ [][mode = "losses" \/ (InSession!KVNext /\ ~tainted)]_(InSession!kvVars)

\* Refinement: what a reboot at this very moment would find is the dictionary
\* too.  A power loss costs at most the key being written, which is left with
\* its old value, none, the new one, or a damaged one; after it every call again
\* returns what the dictionary says.  This holds up to the first Swap into the
\* remains of an interrupted one, from which nothing protects the code.
SurvivesPowerLoss ==
  /\ AfterBoot!KVInit
  /\ [][mode = "formats" \/ tainted' \/ AfterBoot!KVNext \/ AfterBoot!PowerLoss]_(AfterBoot!kvVars)
=============================================================================
