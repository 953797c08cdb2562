---------------------------- MODULE SnukSequences ----------------------------
(***************************************************************************)
(* What the dynamic arrays of Snuk promise (snuk/darray.h): each one is a  *)
(* sequence of its own, whatever happens to the others and to the memory   *)
(* they live in.                                                           *)
(***************************************************************************)
EXTENDS Naturals, Sequences, SequencesExt

CONSTANTS Arrays, Elements

VARIABLE seqs       \* the contents of each array there is

Set(a, s) == seqs' = [b \in DOMAIN seqs \cup {a} |-> IF b = a THEN s ELSE seqs[b]]

Create(a) == a \notin DOMAIN seqs /\ Set(a, << >>)
Push(a, e) == a \in DOMAIN seqs /\ Set(a, Append(seqs[a], e))
Pop(a) == a \in DOMAIN seqs /\ seqs[a] # << >> /\ Set(a, Front(seqs[a]))
PopAt(a, i) == a \in DOMAIN seqs /\ i \in 1 .. Len(seqs[a]) /\ Set(a, RemoveAt(seqs[a], i))
Clear(a) == a \in DOMAIN seqs /\ Set(a, << >>)
Destroy(gone) == seqs' = [b \in DOMAIN seqs \ gone |-> seqs[b]]

Init == seqs = [b \in {} |-> << >>]

Next ==
    \/ \E a \in Arrays : Create(a) \/ Pop(a) \/ Clear(a)
    \/ \E a \in Arrays, e \in Elements : Push(a, e)
    \/ \E a \in DOMAIN seqs : \E i \in 1 .. Len(seqs[a]) : PopAt(a, i)
    \/ \E gone \in SUBSET Arrays : Destroy(gone)

Spec == Init /\ [][Next]_seqs
=============================================================================
