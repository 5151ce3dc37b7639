---------------------------- MODULE MCVMManager ----------------------------
(* Small instances of VMManager for TLC.                                   *)
EXTENDS VMManager, TLC

(* The calls of Start are interchangeable, and so are the names.           *)
MCSymmetry == Permutations(Attempts) \cup Permutations(Ids)
=============================================================================
