---------------------------- MODULE MCConfigCheck ----------------------------
(* An instance of ConfigCheck for TLC: a check of the process that a       *)
(* rolling update replaces, and the sweeper of its successor, whose        *)
(* timeout is shorter but whose window is not.                             *)
EXTENDS ConfigCheck, TLC

CONSTANTS old, new, running

MCProcess == {old, new}
MCCheck == {running}
MCOwner == (running :> old)
MCTimeout == (old :> 3) @@ (new :> 2)
=============================================================================
