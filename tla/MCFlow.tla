------------------------------- MODULE MCFlow -------------------------------
(***************************************************************************)
(* Instances of SnukFlow for TLC: one object with methods, and the whole   *)
(* language.                                                               *)
(***************************************************************************)
EXTENDS SnukFlow

CONSTANTS obj, null

OneObject == {obj}
AllConstructs == Expressions \cup Statements
=============================================================================
