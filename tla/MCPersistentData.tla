-------------------------- MODULE MCPersistentData --------------------------
(***************************************************************************)
(* Instances of PersistentData for TLC.  Pages are two bytes, files at most *)
(* two pages; the lower file ends inside its second page.                   *)
(***************************************************************************)
EXTENDS PersistentData

NewFile == <<>>
LowerFile == <<1, 0, 1>>
NoCrashes == {{}}
KillsOrPower == {{"process", "unsynced"}, {"power"}}
=============================================================================
