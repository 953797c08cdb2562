------------------------------ MODULE MCCalls ------------------------------
(***************************************************************************)
(* Instances of SnukCalls for TLC.                                         *)
(***************************************************************************)
EXTENDS SnukCalls, FiniteSets

\* The function has both names for parameters, the method one that is not a field.
TwoAndOne == [c \in Callables |-> IF c = "fn" THEN <<"x", "y">> ELSE <<"y">>]

\* The same with a parameter of the method that has the name of a field.
TwoAndField == [c \in Callables |-> IF c = "fn" THEN <<"x", "y">> ELSE <<"x">>]

CONSTANT Usual      \* the value that most names have

\* Bounds the search: one name in one scope has another value, and at most two
\* variables are declared.
MostlyUsual ==
    /\ Cardinality({b \in Scopes \X Names : env[b[1]][b[2]] \notin {Absent, Usual}}) <= 1
    /\ Cardinality({b \in Scopes \X Names : b[1][1] \in {"global", "local"}
                                          /\ env[b[1]][b[2]] # Absent}) <= 2
=============================================================================
