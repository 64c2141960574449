----------------------------- MODULE Snapshots -----------------------------
(***************************************************************************)
(* The client of GovHub's snapshot store.  A snapshot is read and replaced *)
(* as a whole; nothing locks it, and a load that fails cannot be told from *)
(* one that finds nothing.                                                 *)
(***************************************************************************)

CONSTANTS
    SaveFaults,  \* TRUE: a save may fail, or be stored and its answer lost
    LoadFaults   \* TRUE: a load may fail, and is then taken for "not found"

ASSUME FaultAssumption == {SaveFaults, LoadFaults} \subseteq BOOLEAN

(* What a load may return, given the stored value and the empty default.   *)
Loaded(stored, empty) == IF LoadFaults THEN {stored, empty} ELSE {stored}

SaveResults == IF SaveFaults THEN {"ok", "failed", "lost"} ELSE {"ok"}

Stored(result, old, new) == IF result = "failed" THEN old ELSE new
=============================================================================
