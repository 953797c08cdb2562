---------------------------- MODULE SnukControl ----------------------------
(***************************************************************************)
(* What the language promises about control flow, with no interpreter in   *)
(* sight: a program is a stack of open constructs, and `return`, `break`   *)
(* and `continue` leave, in one step, every construct up to the nearest    *)
(* one that catches them (docs/snuk_language.snuk, "all signals propagate  *)
(* outward to the nearest handler").  SnukFlow is shown to implement it.   *)
(***************************************************************************)
EXTENDS Naturals, Sequences

VARIABLE ctl                    \* open constructs, innermost last

Kinds == {"body", "loop", "loopbody", "branch", "block", "plain"}
Jumps == {"return", "break", "continue"}

\* nested: the construct is an operand of the enclosing one.
\* done:   nothing inside the construct may run any more.
Construct == [kind : Kinds, nested : BOOLEAN, done : BOOLEAN]

\* The construct that catches each signal.
Catches(c, sig) ==
    CASE sig = "return"   -> c.kind = "body"
      [] sig = "break"    -> c.kind \in {"loop", "block"}
      [] sig = "continue" -> c.kind = "loopbody"

\* Constructs a signal leaves on its way out: statements of the same function.
Transparent(c) == ~c.nested /\ c.kind # "body"

\* h is the nearest construct that catches sig.
Nearest(sig, h) ==
    /\ Catches(ctl[h], sig)
    /\ \A k \in h+1 .. Len(ctl) : Transparent(ctl[k]) /\ ~Catches(ctl[k], sig)

Init == ctl = << >>

TopDone == ctl # << >> /\ ctl[Len(ctl)].done

Enter(c) ==
    /\ ~TopDone
    /\ ~c.done
    /\ ctl' = Append(ctl, c)

Finish ==
    /\ ctl # << >>
    /\ ctl[Len(ctl)].kind # "plain"
    /\ ctl' = [ctl EXCEPT ![Len(ctl)].done = TRUE]

Leave ==
    /\ ctl # << >>
    /\ TopDone \/ ctl[Len(ctl)].kind = "plain"
    /\ ctl' = SubSeq(ctl, 1, Len(ctl) - 1)

Jump(sig) ==
    \E h \in 1 .. Len(ctl) :
        /\ Nearest(sig, h)
        /\ ctl' = [SubSeq(ctl, 1, h) EXCEPT ![h].done = TRUE]

Next ==
    \/ \E c \in Construct : Enter(c)
    \/ Finish
    \/ Leave
    \/ \E sig \in Jumps : Jump(sig)

\* A construct that was jumped to or ran to its end is eventually left.
LeaveDone == TopDone /\ Leave

SafeSpec == Init /\ [][Next]_ctl

Spec == SafeSpec /\ WF_ctl(LeaveDone)
=============================================================================
