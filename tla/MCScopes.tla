------------------------------ MODULE MCScopes ------------------------------
(***************************************************************************)
(* Instances of SnukScopes for TLC: the grammars of the programs that each *)
(* question is about.                                                      *)
(***************************************************************************)
EXTENDS SnukScopes, TLC

CONSTANTS x, y

In(outer, inner) == outer \X inner

\* The native functions of the builtin type.
None == << >>
OneNative == <<x>>

\* Every construct of the language, with the parts that can hold or drop scopes.
AnyProgram ==
    In({"exec_item"}, Expressions \cup Statements)
    \cup In({"block"}, {"fn", "inst", "call", "extend", "var", "self"})
    \cup In({"type", "extend"}, {"fn", "var", "name"})
    \cup In({"fn"}, {"fn", "block", "name"})
    \cup In({"inst"}, {"fn", "call", "name"})
    \cup In({"call", "member"}, {"fn", "inst", "member"})
    \cup In({"assign"}, {"fn", "member", "field"})
    \cup In({"var"}, {"fn", "inst", "type", "member"})

\* Functions passed to functions.
FunctionArguments == In({"exec_item"}, {"call"}) \cup In({"call"}, {"call", "fn"})

\* Types, their methods, instances and variables; a method is called on its
\* instance or taken from it.
Methods ==
    In({"exec_item"}, {"type", "assign", "call", "var"})
    \cup In({"type"}, {"fn", "name"})
    \cup In({"fn"}, {"name"})
    \cup In({"call"}, {"member"})
    \cup In({"assign"}, {"inst", "member"})
    \cup In({"block"}, {"assign"})

\* Methods of literals, of null and of the builtin type: called, kept in variables
\* and members, added, and used after the type's name was given to something else.
NativeMethods ==
    In({"exec_item"}, {"call", "assign", "var", "extend"})
    \cup In({"call", "var"}, {"member"})
    \cup In({"assign"}, {"member", "inst", "field"})
    \cup In({"extend"}, {"var"})

\* Bounds: an item leaves the global scope, a type, a method and an instance, with a
\* few references to each; a check that fails ends the program with its item.
OneInstance ==
    /\ error => stack = << >> \/ Running("exec_item", "done")
    /\ ~error /\ stack = << >> => /\ Cardinality(DOMAIN heap) <= 4
                                  /\ \A r \in DOMAIN heap : heap[r].strong <= 3 /\ heap[r].weak <= 3

\* The same beside the builtin type and its native function.
OneLiteral ==
    /\ ~error
    /\ stack = << >> => /\ Cardinality(DOMAIN heap) <= 4
                        /\ \A r \in DOMAIN heap : heap[r].strong <= (IF r = Global THEN 3 ELSE 2) /\ heap[r].weak <= 2

BothNames == Permutations({x, y})
=============================================================================
