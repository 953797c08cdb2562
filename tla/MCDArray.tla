------------------------------ MODULE MCDArray ------------------------------
(***************************************************************************)
(* A small instance of SnukDArray: two arrays that grow from one element,  *)
(* and five small pages, of which the arenas take two and one.             *)
(***************************************************************************)
EXTENDS SnukDArray

CONSTANTS xs, ys, e, f

TwoArrays == {xs, ys}
TwoElements == {e, f}
Arenas == [runtime |-> 2, interpreter |-> 1]
=============================================================================
