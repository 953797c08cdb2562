-------------------------- MODULE SnukFlow_proofs ---------------------------
(***************************************************************************)
(* Scopes, signals and the language's control flow in the interpreter, for *)
(* programs of every size and shape.  Three parts, each on the one before: *)
(* the invariant FlowInv, the invariant SignalInv, and the refinement of   *)
(* SnukControl.                                                            *)
(*                                                                         *)
(* The scope and instance discipline: FlowInv is kept by each move of the  *)
(* C stack (BecomeInv, CallInv, ReturnInv), hence by each building block   *)
(* of the handlers (push_scope, pop_scope, evaluating a child, failing a   *)
(* check), hence by each handler.                                          *)
(***************************************************************************)
EXTENDS SnukFlow, SnukOrder_proofs, SequenceTheorems, TLAPS

\* Two abbreviations of the handlers, read as what they stand for throughout.
USE DEF Proceed, Done

Latches ==
    /\ signal' \in Signals \cup {None}
    /\ panic_mode' \in BOOLEAN /\ error' \in BOOLEAN
    /\ trapped' \in Causes \cup {"no"}
    /\ error => error'

AtEntry(f) == ~InOwnScope(f) /\ ~InEnteredScope(f) /\ ~InMethod(f)

SamePlace(f, g) ==
    /\ InOwnScope(f) <=> InOwnScope(g)
    /\ InEnteredScope(f) <=> InEnteredScope(g)
    /\ InMethod(f) <=> InMethod(g)

(***************************************************************************)
(* Chains.                                                                 *)
(***************************************************************************)
LEMMA ChildIsChain ==
    ASSUME NEW c \in Chain, NEW n \in Nat
    PROVE  /\ Child(c, n) \in Chain
           /\ c # Unknown => Child(c, n) # Unknown /\ Parent(Child(c, n)) = c
<1>1. CASE c = Unknown
  BY <1>1 DEF Child
<1>2. CASE c # Unknown
  <2>1. /\ c \in Seq(Nat) /\ c # << >> /\ c[1] = 0 /\ Len(c) \in Nat \ {0}
    BY <1>2, EmptySeq DEF Chain, Unknown
  <2>2. /\ Append(c, n) \in Seq(Nat) /\ Append(c, n) # << >>
        /\ Len(Append(c, n)) = Len(c) + 1
        /\ \A i \in 1 .. Len(c) : Append(c, n)[i] = c[i]
    BY <2>1, AppendProperties
  <2>3. Append(c, n)[1] = 0
    BY <2>1, <2>2
  <2>4. SubSeq(Append(c, n), 1, Len(c)) = c
    <3>1. \A i \in 1 .. Len(c) : Append(c, n)[i] \in Nat
      BY <2>1, <2>2
    <3>2. /\ SubSeq(Append(c, n), 1, Len(c)) \in Seq(Nat)
          /\ Len(SubSeq(Append(c, n), 1, Len(c))) = Len(c)
          /\ \A i \in 1 .. Len(c) : SubSeq(Append(c, n), 1, Len(c))[i] = Append(c, n)[i]
      BY <2>1, <3>1, SubSeqProperties, Z3
    <3> QED BY <2>1, <2>2, <3>2, SeqEqual
  <2>5. Len(Append(c, n)) - 1 = Len(c)
    BY <2>1, <2>2
  <2> QED BY <1>2, <2>2, <2>3, <2>4, <2>5, Zenon DEF Child, Parent, Chain, Unknown
<1> QED BY <1>1, <1>2

LEMMA PrefixIsChain ==
    ASSUME NEW c \in Chain, NEW n \in 1 .. Len(c)
    PROVE  SubSeq(c, 1, n) \in Chain /\ SubSeq(c, 1, n) # Unknown
<1>1. /\ c \in Seq(Nat) /\ c[1] = 0 /\ Len(c) \in Nat
  BY EmptySeq DEF Chain, Unknown
<1>2. \A i \in 1 .. n : c[i] \in Nat
  BY <1>1
<1>3. /\ SubSeq(c, 1, n) \in Seq(Nat) /\ Len(SubSeq(c, 1, n)) = n
      /\ SubSeq(c, 1, n)[1] = c[1]
  BY <1>1, <1>2, SubSeqProperties, Z3
<1>4. SubSeq(c, 1, n) # << >>
  BY <1>3, EmptySeq
<1> QED BY <1>1, <1>3, <1>4 DEF Chain, Unknown

LEMMA ParentIsChain ==
    ASSUME NEW c \in Chain, c # Global
    PROVE  Parent(c) \in Chain
<1>1. CASE c = Unknown
  <2>1. Len(c) = 0 /\ c \in Seq(Nat)
    BY <1>1, EmptySeq DEF Unknown
  <2>2. SubSeq(c, 1, 0 - 1) \in Seq(Nat) /\ Len(SubSeq(c, 1, 0 - 1)) = 0
    BY <2>1, SubSeqProperties
  <2> QED BY <2>1, <2>2, EmptySeq DEF Parent, Chain, Unknown
<1>2. CASE c # Unknown
  <2>1. /\ c \in Seq(Nat) /\ c # << >> /\ c[1] = 0 /\ Len(c) \in Nat \ {0}
    BY <1>2, EmptySeq DEF Chain, Unknown
  <2>2. Len(c) # 1
    <3> SUFFICES ASSUME Len(c) = 1 PROVE FALSE
      OBVIOUS
    <3>1. <<0>> \in Seq(Nat) /\ Len(<<0>>) = 1 /\ <<0>>[1] = 0
      OBVIOUS
    <3> QED BY <2>1, <3>1, SeqEqual DEF Global
  <2>3. \A m \in Nat \ {0} : m # 1 => m - 1 \in 1 .. m
    OBVIOUS
  <2>4. Len(c) - 1 \in 1 .. Len(c)
    BY <2>1, <2>2, <2>3
  <2> QED BY <2>4, PrefixIsChain, Zenon DEF Parent
<1> QED BY <1>1, <1>2

(***************************************************************************)
(* The stack.                                                              *)
(***************************************************************************)
LEMMA ReplaceLast ==
    ASSUME NEW S, NEW s \in Seq(S), s # << >>, NEW e \in S
    PROVE  /\ [s EXCEPT ![Len(s)] = e] \in Seq(S)
           /\ Len([s EXCEPT ![Len(s)] = e]) = Len(s)
           /\ \A j \in 1 .. Len(s) :
                [s EXCEPT ![Len(s)] = e][j] = IF j = Len(s) THEN e ELSE s[j]
<1>1. Len(s) \in 1 .. Len(s)
  BY EmptySeq
<1> QED BY <1>1, ExceptSeq

LEMMA DropLast ==
    ASSUME NEW S, NEW s \in Seq(S), s # << >>
    PROVE  /\ SubSeq(s, 1, Len(s) - 1) \in Seq(S)
           /\ Len(SubSeq(s, 1, Len(s) - 1)) = Len(s) - 1
           /\ \A j \in 1 .. Len(s) - 1 : SubSeq(s, 1, Len(s) - 1)[j] = s[j]
<1> DEFINE n == Len(s) - 1
<1>1. Len(s) \in Nat \ {0} /\ n \in Nat /\ \A i \in 1 .. n : s[i] \in S
  BY EmptySeq
<1> HIDE DEF n
<1>2. /\ SubSeq(s, 1, n) \in Seq(S)
      /\ Len(SubSeq(s, 1, n)) = IF 1 <= n THEN n - 1 + 1 ELSE 0
      /\ \A i \in 1 .. n - 1 + 1 : SubSeq(s, 1, n)[i] = s[1 + i - 1]
  BY <1>1, SubSeqProperties
<1>3. /\ Len(SubSeq(s, 1, n)) = n
      /\ \A i \in 1 .. n : SubSeq(s, 1, n)[i] = s[i]
  BY <1>1, <1>2
<1> QED BY <1>2, <1>3 DEF n

LEMMA TopType ==
    ASSUME TypeOK, stack # << >>
    PROVE  /\ Top \in FrameType /\ Level \in Nat \ {0}
           /\ \A pc \in Points : /\ At(pc) \in FrameType
                                 /\ At(pc) = [Top EXCEPT !.pc = pc]
           /\ \A k \in 1 .. Level : stack[k] \in FrameType
<1>1. Level \in Nat \ {0} /\ \A k \in 1 .. Level : stack[k] \in FrameType
  BY EmptySeq DEF TypeOK, Level
<1>2. Top \in FrameType
  BY <1>1 DEF Top, Level
<1> QED BY <1>1, <1>2 DEF At, FrameType

LEMMA SameCallers ==
    ASSUME NEW m \in Nat, \A j \in 1 .. m : stack'[j] = stack[j]
    PROVE  \A k \in 1 .. m + 1 : /\ CallerChain(k)' = CallerChain(k)
                                 /\ CallerInstance(k)' = CallerInstance(k)
<1> SUFFICES ASSUME NEW k \in 1 .. m + 1
             PROVE  /\ CallerChain(k)' = CallerChain(k)
                    /\ CallerInstance(k)' = CallerInstance(k)
  OBVIOUS
<1>1. CASE k = 1
  BY <1>1 DEF CallerChain, CallerInstance
<1>2. CASE k # 1
  <2>1. stack'[k - 1] = stack[k - 1]
    BY <1>2
  <2> QED BY <1>2, <2>1 DEF CallerChain, CallerInstance, ChainIn, InstanceIn
<1> QED BY <1>1, <1>2

(***************************************************************************)
(* Each move of the stack preserves the invariant.                         *)
(***************************************************************************)

\* The running function moves on, with or without touching the registers.
LEMMA BecomeInv ==
    ASSUME FlowInv, stack # << >>, Latches,
           NEW f \in FrameType, Become(f),
           f.fn = Top.fn, f.entry = Top.entry, f.self = Top.self,
           current' \in Chain, instance' \in Insts,
           ~error => /\ f.temp = f.entry /\ f.prev = f.self /\ f.scope # Unknown
                     /\ current' = ChainIn(f, Level) /\ instance' = InstanceIn(f)
    PROVE  FlowInv'
<1>0. PICK n \in Nat \ {0} : n = Len(stack)
  BY TopType DEF FlowInv, Level
<1>1. \A k \in 1 .. n : stack[k] \in FrameType
  BY <1>0, TopType DEF FlowInv, Level
<1>2. /\ stack' \in Seq(FrameType) /\ Len(stack') = n
      /\ \A j \in 1 .. n : stack'[j] = IF j = n THEN f ELSE stack[j]
  BY <1>0, ReplaceLast DEF Become, FlowInv, TypeOK
<1>3. stack' # << >>
  BY <1>2
<1>4. /\ Level' = n /\ Level = n /\ stack'[n] = f /\ stack[n] = Top
      /\ n + 1 # 1 /\ (n + 1) - 1 = n
  BY <1>0, <1>2 DEF Top, Level
<1>5. TypeOK'
  <2>1. ASSUME ~error' PROVE /\ current' # Unknown
                             /\ \A k \in 1 .. Len(stack') : KnownFrame(stack'[k])
    <3>1. ~error /\ KnownFrame(Top)
      BY <1>0, <1>4, <2>1 DEF FlowInv, TypeOK, ChainsKnown, Latches
    <3>2. Top.entry \in Chain /\ Level \in Nat
      BY <1>1, <1>4 DEF FrameType
    <3>3. Top.entry # Unknown
      BY <3>1 DEF KnownFrame
    <3>4. KnownFrame(f)
      BY <3>1, <3>3 DEF KnownFrame
    <3>5. Child(Top.entry, Level) # Unknown
      BY <3>2, <3>3, ChildIsChain
    <3>6. current' # Unknown
      BY <3>1, <3>3, <3>5 DEF ChainIn
    <3> QED BY <1>0, <1>2, <3>1, <3>4, <3>6 DEF FlowInv, TypeOK, ChainsKnown
  <2> QED BY <1>2, <2>1 DEF FlowInv, TypeOK, ChainsKnown, Latches
<1>6. ScopesNest'
  <2> SUFFICES ASSUME ~error'
               PROVE  /\ \A k \in 1 .. n : /\ stack'[k].entry = CallerChain(k)'
                                           /\ stack'[k].self = CallerInstance(k)'
                      /\ current' = CallerChain(n + 1)'
                      /\ instance' = CallerInstance(n + 1)'
    BY <1>4 DEF ScopesNest
  <2>1. ~error
    BY DEF Latches
  <2>2. \A k \in 1 .. n : /\ CallerChain(k)' = CallerChain(k)
                          /\ CallerInstance(k)' = CallerInstance(k)
    <3>1. \A j \in 1 .. n - 1 : stack'[j] = stack[j]
      BY <1>2
    <3>2. n - 1 \in Nat /\ (n - 1) + 1 = n
      OBVIOUS
    <3> QED BY <3>1, <3>2, SameCallers
  <2>3. CallerChain(n + 1)' = ChainIn(f, n) /\ CallerInstance(n + 1)' = InstanceIn(f)
    BY <1>4 DEF CallerChain, CallerInstance
  <2>4. \A k \in 1 .. n : stack'[k].entry = stack[k].entry /\ stack'[k].self = stack[k].self
    BY <1>2, <1>4
  <2> QED BY <1>4, <2>1, <2>2, <2>3, <2>4 DEF FlowInv, ScopesNest
<1>7. SavedIntact'
  <2>1. \A k \in 1 .. n : stack'[k].fn = stack[k].fn
    BY <1>2, <1>4
  <2>2. ~error' => \A k \in 1 .. n : /\ stack'[k].temp = stack'[k].entry
                                     /\ stack'[k].prev = stack'[k].self
    BY <1>0, <1>2, <1>4 DEF FlowInv, SavedIntact, Latches
  <2> QED BY <1>0, <1>2, <2>1, <2>2 DEF FlowInv, SavedIntact
<1>8. PanicIffSignal'
  BY <1>3 DEF PanicIffSignal
<1> QED BY <1>5, <1>6, <1>7, <1>8 DEF FlowInv

\* ... without touching them.
LEMMA GotoInv ==
    ASSUME FlowInv, stack # << >>, Latches, NEW pc \in Points, Goto(pc),
           SamePlace(Top, At(pc)), UNCHANGED <<current, instance>>
    PROVE  FlowInv'
<1>1. /\ Top \in FrameType /\ At(pc) \in FrameType /\ At(pc) = [Top EXCEPT !.pc = pc]
      /\ Level \in Nat \ {0} /\ Top = stack[Level]
  BY TopType DEF FlowInv, Top, Level
<1>2. PICK f \in FrameType : f = At(pc)
  BY <1>1
<1>3. /\ f.fn = Top.fn /\ f.entry = Top.entry /\ f.self = Top.self /\ f.temp = Top.temp
      /\ f.prev = Top.prev /\ f.scope = Top.scope /\ f.method = Top.method
  BY <1>1, <1>2 DEF FrameType
<1>4. ChainIn(f, Level) = ChainIn(Top, Level) /\ InstanceIn(f) = InstanceIn(Top)
  BY <1>2, <1>3, Zenon DEF ChainIn, InstanceIn, SamePlace
<1>5. ~error => /\ current = ChainIn(Top, Level) /\ instance = InstanceIn(Top)
                /\ Top.temp = Top.entry /\ Top.prev = Top.self /\ Top.scope # Unknown
  <2>1. Level + 1 # 1 /\ (Level + 1) - 1 = Level /\ Level \in 1 .. Level
    BY <1>1
  <2>2. ~error => Top.scope # Unknown
    BY <1>1, <2>1 DEF FlowInv, TypeOK, ChainsKnown, KnownFrame, Level
  <2> QED
    BY <1>1, <2>1, <2>2
    DEF FlowInv, ScopesNest, SavedIntact, CallerChain, CallerInstance, Level
<1>6. /\ current' \in Chain /\ instance' \in Insts /\ Become(f)
      /\ current' = current /\ instance' = instance
  BY <1>2 DEF FlowInv, TypeOK, Goto
<1> QED BY <1>3, <1>4, <1>5, <1>6, BecomeInv

\* The registers of the running function, and what it saved.
LEMMA RunningTop ==
    ASSUME FlowInv, stack # << >>
    PROVE  /\ Top \in FrameType /\ Level \in Nat \ {0} /\ Level = Len(stack)
           /\ Level \in 1 .. Level /\ stack[Level] = Top
           /\ ~error => /\ current = ChainIn(Top, Level) /\ instance = InstanceIn(Top)
                        /\ Top.temp = Top.entry /\ Top.prev = Top.self
                        /\ current # Unknown /\ Top.entry # Unknown /\ Top.scope # Unknown
<1>1. /\ Top \in FrameType /\ Level \in Nat \ {0} /\ Top = stack[Level] /\ Level = Len(stack)
  BY TopType DEF FlowInv, Top, Level
<1>2. Level + 1 # 1 /\ (Level + 1) - 1 = Level /\ Level \in 1 .. Level
  BY <1>1
<1>3. ~error => current # Unknown /\ Top.entry # Unknown /\ Top.scope # Unknown
  BY <1>1, <1>2 DEF FlowInv, TypeOK, ChainsKnown, KnownFrame
<1> QED
  BY <1>1, <1>2, <1>3 DEF FlowInv, ScopesNest, SavedIntact, CallerChain, CallerInstance

\* A frame for a function called now.
Fresh(g) ==
    /\ g \in FrameType /\ g.fn # "exec_item" /\ AtEntry(g)
    /\ g.entry = current /\ g.temp = current /\ g.scope = current
    /\ g.self = instance /\ g.prev = instance

\* A child is called.
LEMMA CallInv ==
    ASSUME FlowInv, stack # << >>, Latches, NEW pc \in Points, NEW g \in FrameType,
           Call(pc, g), Fresh(g), SamePlace(Top, At(pc)), UNCHANGED <<current, instance>>
    PROVE  FlowInv'
<1>0. PICK n \in Nat \ {0} : n = Len(stack)
  BY TopType DEF FlowInv, Level
<1>1. PICK f \in FrameType : f = At(pc) /\ f = [Top EXCEPT !.pc = pc]
  BY TopType DEF FlowInv
<1>2. \A k \in 1 .. n : stack[k] \in FrameType
  BY <1>0, TopType DEF FlowInv, Level
<1>3. /\ [stack EXCEPT ![n] = f] \in Seq(FrameType) /\ Len([stack EXCEPT ![n] = f]) = n
      /\ \A j \in 1 .. n : [stack EXCEPT ![n] = f][j] = IF j = n THEN f ELSE stack[j]
  BY <1>0, ReplaceLast DEF FlowInv, TypeOK
<1>4. stack' = Append([stack EXCEPT ![n] = f], g)
  BY <1>0, <1>1 DEF Call
<1>5. /\ stack' \in Seq(FrameType) /\ Len(stack') = n + 1 /\ stack'[n + 1] = g
      /\ \A j \in 1 .. n : stack'[j] = IF j = n THEN f ELSE stack[j]
  BY <1>3, <1>4, AppendProperties
<1>6. /\ Level' = n + 1 /\ Level = n /\ stack[n] = Top /\ stack'[n] = f /\ stack' # << >>
      /\ n + 1 # 1 /\ (n + 1) - 1 = n /\ n + 2 # 1 /\ (n + 2) - 1 = n + 1
      /\ (n + 1) + 1 = n + 2
  BY <1>0, <1>5 DEF Top, Level
<1>7. /\ f.fn = Top.fn /\ f.entry = Top.entry /\ f.self = Top.self /\ f.temp = Top.temp
      /\ f.prev = Top.prev /\ f.scope = Top.scope /\ f.method = Top.method
  BY <1>1, <1>2, <1>6 DEF FrameType
<1>8. ChainIn(f, n) = ChainIn(Top, n) /\ InstanceIn(f) = InstanceIn(Top)
  BY <1>1, <1>7, Zenon DEF ChainIn, InstanceIn, SamePlace
<1>9. ChainIn(g, n + 1) = current /\ InstanceIn(g) = instance
  BY DEF Fresh, AtEntry, ChainIn, InstanceIn
<1>10. TypeOK'
  <2>1. ASSUME ~error' PROVE /\ current' # Unknown
                             /\ \A k \in 1 .. n + 1 : KnownFrame(stack'[k])
    <3>1. ~error /\ current # Unknown /\ \A k \in 1 .. n : KnownFrame(stack[k])
      BY <1>0, <2>1 DEF FlowInv, TypeOK, ChainsKnown, Latches
    <3>2. KnownFrame(f) /\ KnownFrame(g)
      BY <1>6, <1>7, <3>1 DEF KnownFrame, Fresh
    <3>3. \A k \in 1 .. n + 1 : k \in 1 .. n \/ k = n + 1
      OBVIOUS
    <3> QED BY <1>5, <3>1, <3>2, <3>3
  <2> QED BY <1>5, <2>1 DEF FlowInv, TypeOK, ChainsKnown, Latches
<1>11. ScopesNest'
  <2> SUFFICES ASSUME ~error'
               PROVE  /\ \A k \in 1 .. n + 1 : /\ stack'[k].entry = CallerChain(k)'
                                               /\ stack'[k].self = CallerInstance(k)'
                      /\ current' = CallerChain(n + 2)'
                      /\ instance' = CallerInstance(n + 2)'
    BY <1>6 DEF ScopesNest
  <2>1. ~error /\ current = ChainIn(Top, n) /\ instance = InstanceIn(Top)
    BY <1>6, RunningTop DEF Latches
  <2>2. \A k \in 1 .. n : /\ CallerChain(k)' = CallerChain(k)
                          /\ CallerInstance(k)' = CallerInstance(k)
    <3>1. \A j \in 1 .. n - 1 : stack'[j] = stack[j]
      BY <1>5
    <3>2. n - 1 \in Nat /\ (n - 1) + 1 = n
      OBVIOUS
    <3> QED BY <3>1, <3>2, SameCallers
  <2>3. CallerChain(n + 1)' = current /\ CallerInstance(n + 1)' = instance
    BY <1>6, <1>8, <2>1 DEF CallerChain, CallerInstance
  <2>4. CallerChain(n + 2)' = current /\ CallerInstance(n + 2)' = instance
    BY <1>5, <1>6, <1>9 DEF CallerChain, CallerInstance
  <2>5. \A k \in 1 .. n : stack'[k].entry = stack[k].entry /\ stack'[k].self = stack[k].self
    BY <1>5, <1>6, <1>7
  <2>6. \A k \in 1 .. n : /\ stack'[k].entry = CallerChain(k)'
                          /\ stack'[k].self = CallerInstance(k)'
    BY <1>6, <2>1, <2>2, <2>5 DEF FlowInv, ScopesNest
  <2>7. stack'[n + 1].entry = CallerChain(n + 1)' /\ stack'[n + 1].self = CallerInstance(n + 1)'
    BY <1>5, <2>3 DEF Fresh
  <2> QED BY <2>4, <2>6, <2>7
<1>12. SavedIntact'
  <2>1. \A k \in 1 .. n : /\ stack'[k].fn = stack[k].fn
                          /\ stack'[k].temp = stack[k].temp /\ stack'[k].entry = stack[k].entry
                          /\ stack'[k].prev = stack[k].prev /\ stack'[k].self = stack[k].self
    BY <1>5, <1>6, <1>7
  <2>2. \A k \in 1 .. n : /\ (stack'[k].fn = "exec_item") <=> (k = 1)
                          /\ ~error' => /\ stack'[k].temp = stack'[k].entry
                                        /\ stack'[k].prev = stack'[k].self
    BY <1>0, <2>1 DEF FlowInv, SavedIntact, Latches
  <2>3. /\ (stack'[n + 1].fn = "exec_item") <=> (n + 1 = 1)
        /\ stack'[n + 1].temp = stack'[n + 1].entry /\ stack'[n + 1].prev = stack'[n + 1].self
    BY <1>5, <1>6 DEF Fresh
  <2>4. \A k \in 1 .. n + 1 : k \in 1 .. n \/ k = n + 1
    OBVIOUS
  <2> QED BY <1>5, <2>2, <2>3, <2>4 DEF SavedIntact
<1>13. PanicIffSignal'
  BY <1>6 DEF PanicIffSignal
<1> QED BY <1>10, <1>11, <1>12, <1>13 DEF FlowInv

\* A function other than exec_item returns.
LEMMA ReturnInv ==
    ASSUME FlowInv, stack # << >>, Latches, Top.fn # "exec_item", Return,
           current' \in Chain, instance' \in Insts,
           ~error' => current' = Top.entry /\ instance' = Top.self
    PROVE  FlowInv'
<1>0. PICK n \in Nat \ {0} : n = Len(stack)
  BY TopType DEF FlowInv, Level
<1>1. n # 1 /\ stack[n] = Top /\ Level = n
  BY <1>0 DEF FlowInv, SavedIntact, Top, Level
<1>2. PICK m \in Nat \ {0} : m = n - 1 /\ n = m + 1
  BY <1>1
<1>3. /\ stack' \in Seq(FrameType) /\ Len(stack') = m
      /\ \A j \in 1 .. m : stack'[j] = stack[j]
  BY <1>0, <1>2, DropLast DEF Return, FlowInv, TypeOK
<1>4. stack' # << >> /\ Level' = m
  BY <1>3 DEF Level
<1>5. TypeOK'
  <2>1. ~error' => ~error /\ Top.entry # Unknown /\ \A k \in 1 .. m : KnownFrame(stack[k])
    BY <1>0, <1>2, RunningTop DEF FlowInv, TypeOK, ChainsKnown, Latches
  <2> QED BY <1>3, <2>1 DEF FlowInv, TypeOK, ChainsKnown, Latches
<1>6. ScopesNest'
  <2> SUFFICES ASSUME ~error'
               PROVE  /\ \A k \in 1 .. m : /\ stack'[k].entry = CallerChain(k)'
                                           /\ stack'[k].self = CallerInstance(k)'
                      /\ current' = CallerChain(m + 1)'
                      /\ instance' = CallerInstance(m + 1)'
    BY <1>4 DEF ScopesNest
  <2>1. ~error
    BY DEF Latches
  <2>2. \A k \in 1 .. m + 1 : /\ CallerChain(k)' = CallerChain(k)
                              /\ CallerInstance(k)' = CallerInstance(k)
    BY <1>3, SameCallers
  <2>3. \A k \in 1 .. n : stack[k].entry = CallerChain(k) /\ stack[k].self = CallerInstance(k)
    BY <1>1, <2>1 DEF FlowInv, ScopesNest
  <2>4. CallerChain(m + 1) = Top.entry /\ CallerInstance(m + 1) = Top.self
    BY <1>1, <1>2, <2>3
  <2> QED BY <1>2, <1>3, <2>2, <2>3, <2>4
<1>7. SavedIntact'
  BY <1>0, <1>2, <1>3 DEF FlowInv, SavedIntact, Latches
<1>8. PanicIffSignal'
  BY <1>4 DEF PanicIffSignal
<1> QED BY <1>5, <1>6, <1>7, <1>8 DEF FlowInv

(***************************************************************************)
(* The building blocks of the handlers.                                    *)
(***************************************************************************)
LEMMA AtFields ==
    ASSUME FlowInv, stack # << >>, NEW pc \in Points
    PROVE  /\ At(pc) \in FrameType /\ At(pc).fn = Top.fn /\ At(pc).pc = pc
           /\ At(pc).entry = Top.entry /\ At(pc).self = Top.self
           /\ At(pc).temp = Top.temp /\ At(pc).prev = Top.prev
           /\ At(pc).scope = Top.scope /\ At(pc).method = Top.method
<1>1. Top \in FrameType /\ At(pc) \in FrameType /\ At(pc) = [Top EXCEPT !.pc = pc]
  BY TopType DEF FlowInv
<1> QED BY <1>1 DEF FrameType

LEMMA FrameIsFresh ==
    ASSUME FlowInv, NEW fn \in Functions \ {"exec_item"}, NEW pc \in Points, NEW role \in Roles,
           NEW capture \in SUBSET Signals, NEW pass \in SUBSET Signals,
           pc = "start" \/ fn \in {"while", "do"}
    PROVE  Fresh(Frame(fn, pc, role, capture, pass))
<1>1. current \in Chain /\ instance \in Insts
  BY DEF FlowInv, TypeOK
<1>2. AtEntry(Frame(fn, pc, role, capture, pass))
  BY DEF AtEntry, Frame, InOwnScope, InEnteredScope, InMethod, Members
<1>3. Frame(fn, pc, role, capture, pass) \in FrameType
  BY <1>1 DEF Frame, FrameType
<1> QED BY <1>2, <1>3 DEF Fresh, Frame

LEMMA ChildIsFresh ==
    ASSUME FlowInv, NEW role \in Roles
    PROVE  /\ \A fn \in Functions \ {"exec_item"} : Fresh(ChildFrame(fn, role))
           /\ Fresh(Branch) /\ Fresh(LoopBlock) /\ Fresh(FnBody)
           /\ Fresh(Frame("if", "start", "branch", {}, {}))
<1>1. \A fn \in Functions \ {"exec_item"} : Fresh(ChildFrame(fn, role))
  <2> TAKE fn \in Functions \ {"exec_item"}
  <2>1. CASE fn = "block"
    <3>1. Fresh(Frame("block", "start", role, {"break"}, {"return", "continue"}))
      BY <2>1, FrameIsFresh DEF Points, Signals
    <3> QED BY <2>1, <3>1 DEF ChildFrame, BlockExpr
  <2>2. CASE fn # "block"
    <3>1. StartOf(fn) \in Points /\ (StartOf(fn) = "start" \/ fn \in {"while", "do"})
      BY DEF StartOf, Points
    <3>2. Fresh(Frame(fn, StartOf(fn), role, {}, {}))
      BY <3>1, FrameIsFresh
    <3> QED BY <2>2, <3>2 DEF ChildFrame
  <2> QED BY <2>1, <2>2
<1>2. /\ "block" \in Functions \ {"exec_item"} /\ "if" \in Functions \ {"exec_item"}
      /\ "start" \in Points /\ {"branch", "loopbody", "body"} \subseteq Roles
      /\ {"continue"} \in SUBSET Signals /\ {"return"} \in SUBSET Signals
      /\ {"return", "break"} \in SUBSET Signals
  BY DEF Functions, Expressions, Points, Roles, Signals
<1>3. Fresh(Branch)
  BY <1>2, FrameIsFresh DEF Branch
<1>4. Fresh(LoopBlock)
  BY <1>2, FrameIsFresh DEF LoopBlock
<1>5. Fresh(FnBody)
  BY <1>2, FrameIsFresh DEF FnBody
<1>6. Fresh(Frame("if", "start", "branch", {}, {}))
  BY <1>2, FrameIsFresh
<1> QED BY <1>1, <1>3, <1>4, <1>5, <1>6

LEMMA FailInv ==
    ASSUME FlowInv, stack # << >>, Top.fn # "exec_item", Fail
    PROVE  FlowInv'
<1>1. Latches /\ Return /\ error' /\ current' \in Chain /\ instance' \in Insts
  BY DEF Fail, InterpreterError, Latches, FlowInv, TypeOK
<1> QED BY <1>1, ReturnInv

LEMMA TrapInv ==
    ASSUME FlowInv, NEW cause \in Causes, Trap(cause)
    PROVE  FlowInv'
<1>1. Level' = Level /\ Top' = Top
  BY DEF Trap, Level, Top
<1>2. \A k : CallerChain(k)' = CallerChain(k) /\ CallerInstance(k)' = CallerInstance(k)
  BY DEF Trap, CallerChain, CallerInstance
<1>3. TypeOK' /\ SavedIntact' /\ PanicIffSignal'
  BY DEF Trap, FlowInv, TypeOK, ChainsKnown, SavedIntact, PanicIffSignal
<1>4. ScopesNest'
  BY <1>1, <1>2 DEF Trap, FlowInv, ScopesNest
<1> QED BY <1>3, <1>4 DEF FlowInv

LEMMA EvalExprInv ==
    ASSUME FlowInv, stack # << >>, NEW pc \in Points, EvalExpr(pc), SamePlace(Top, At(pc))
    PROVE  FlowInv'
<1>1. CASE Trap("value")
  BY <1>1, TrapInv DEF Causes
<1>2. CASE Goto(pc) /\ UNCHANGED registers
  <2>1. Latches /\ UNCHANGED <<current, instance>>
    BY <1>2 DEF registers, Latches, FlowInv, TypeOK
  <2> QED BY <1>2, <2>1, GotoInv
<1>3. CASE Goto(pc) /\ InterpreterError /\ UNCHANGED <<current, instance, signal, trapped>>
  <2>1. Latches /\ UNCHANGED <<current, instance>>
    BY <1>3 DEF Latches, InterpreterError, FlowInv, TypeOK
  <2> QED BY <1>3, <2>1, GotoInv
<1>4. ASSUME NEW fn \in Constructs \cap Expressions, Call(pc, ChildFrame(fn, RoleOfChild)),
             UNCHANGED registers
      PROVE  FlowInv'
  <2>1. Latches /\ UNCHANGED <<current, instance>>
    BY <1>4 DEF registers, Latches, FlowInv, TypeOK
  <2>2. RoleOfChild \in Roles /\ fn \in Functions \ {"exec_item"}
    BY DEF RoleOfChild, Roles, Functions, Expressions, Loops, Members, Operators
  <2>3. Fresh(ChildFrame(fn, RoleOfChild))
    BY <2>2, ChildIsFresh
  <2>4. PICK g \in FrameType : g = ChildFrame(fn, RoleOfChild)
    BY <2>3 DEF Fresh
  <2> QED BY <1>4, <2>1, <2>3, <2>4, CallInv
<1> QED BY <1>1, <1>2, <1>3, <1>4 DEF EvalExpr, Unlisted, ShouldNotReach

LEMMA ExecItemInv ==
    ASSUME FlowInv, stack # << >>, NEW pc \in Points, ExecItem(pc), SamePlace(Top, At(pc))
    PROVE  FlowInv'
<1>1. CASE EvalExpr(pc)
  BY <1>1, EvalExprInv
<1>2. CASE \E fn \in Constructs \cap {"var", "print", "return", "break", "extend"} :
             Call(pc, ChildFrame(fn, RoleOfChild)) /\ UNCHANGED registers
  <2>1. PICK fn \in {"var", "print", "return", "break", "extend"} :
          Call(pc, ChildFrame(fn, RoleOfChild)) /\ UNCHANGED registers
    BY <1>2
  <2>2. RoleOfChild \in Roles /\ fn \in Functions \ {"exec_item"}
    BY DEF RoleOfChild, Roles, Functions, Expressions, Loops, Members, Operators
  <2>3. Fresh(ChildFrame(fn, RoleOfChild))
    BY <2>2, ChildIsFresh
  <2>4. PICK g \in FrameType : g = ChildFrame(fn, RoleOfChild)
    BY <2>3 DEF Fresh
  <2>5. Latches /\ UNCHANGED <<current, instance>>
    BY <2>1 DEF registers, Latches, FlowInv, TypeOK
  <2> QED BY <2>1, <2>3, <2>4, <2>5, CallInv
<1>3. CASE \E sig \in Constructs \cap Signals :
             /\ signal' = sig /\ Goto(pc)
             /\ UNCHANGED <<current, instance, panic_mode, error, trapped>>
  <2>1. Latches /\ Goto(pc) /\ UNCHANGED <<current, instance>>
    BY <1>3 DEF Latches, FlowInv, TypeOK
  <2> QED BY <2>1, GotoInv
<1> QED BY <1>1, <1>2, <1>3 DEF ExecItem

\* Nothing but the stack changes.
LEMMA StayInv ==
    ASSUME FlowInv, stack # << >>, NEW pc \in Points, Goto(pc), UNCHANGED registers,
           SamePlace(Top, At(pc))
    PROVE  FlowInv'
<1>1. Latches /\ UNCHANGED <<current, instance>>
  BY DEF registers, Latches, FlowInv, TypeOK
<1> QED BY <1>1, GotoInv

LEMMA CallFreshInv ==
    ASSUME FlowInv, stack # << >>, NEW pc \in Points, NEW g, Call(pc, g), Fresh(g),
           UNCHANGED registers, SamePlace(Top, At(pc))
    PROVE  FlowInv'
<1>1. Latches /\ UNCHANGED <<current, instance>>
  BY DEF registers, Latches, FlowInv, TypeOK
<1>2. g \in FrameType
  BY DEF Fresh
<1> QED BY <1>1, <1>2, CallInv

\* A function that has no scope of its own open returns.
LEMMA LeaveInv ==
    ASSUME FlowInv, stack # << >>, Top.fn # "exec_item", AtEntry(Top), Return, Latches,
           UNCHANGED <<current, instance>>
    PROVE  FlowInv'
<1>1. ~error => current = Top.entry /\ instance = Top.self
  BY RunningTop DEF AtEntry, ChainIn, InstanceIn
<1>2. current' \in Chain /\ instance' \in Insts /\ (error => error')
  BY DEF FlowInv, TypeOK, Latches
<1> QED BY <1>1, <1>2, ReturnInv

LEMMA DoneInv ==
    ASSUME FlowInv, stack # << >>, Top.fn # "exec_item", AtEntry(Top), Return,
           UNCHANGED registers
    PROVE  FlowInv'
<1>1. Latches /\ UNCHANGED <<current, instance>>
  BY DEF registers, Latches, FlowInv, TypeOK
<1> QED BY <1>1, LeaveInv

LEMMA PushScopeInv ==
    ASSUME FlowInv, stack # << >>, NEW pc \in Points, PushScope(pc), AtEntry(Top),
           InOwnScope(At(pc)), ~InMethod(At(pc))
    PROVE  FlowInv'
<1>1. PICK f \in FrameType : f = At(pc)
  BY AtFields
<1>2. /\ f.fn = Top.fn /\ f.entry = Top.entry /\ f.self = Top.self /\ f.temp = Top.temp
      /\ f.prev = Top.prev /\ f.scope = Top.scope
  BY <1>1, AtFields
<1>3. Latches /\ Become(f) /\ instance' = instance /\ current' = Child(current, Level)
  BY <1>1 DEF PushScope, Goto, Latches, FlowInv, TypeOK
<1>4. current' \in Chain /\ instance' \in Insts
  BY <1>3, RunningTop, ChildIsChain DEF FlowInv, TypeOK
<1>5. ~error => /\ current = Top.entry /\ instance = Top.self
                /\ Top.temp = Top.entry /\ Top.prev = Top.self /\ Top.scope # Unknown
  BY RunningTop DEF AtEntry, ChainIn, InstanceIn
<1>6. ~error => current' = ChainIn(f, Level) /\ instance' = InstanceIn(f)
  BY <1>1, <1>2, <1>3, <1>5, Zenon DEF ChainIn, InstanceIn
<1> QED BY <1>2, <1>3, <1>4, <1>5, <1>6, BecomeInv

\* What a function that pops its own scope finds.
LEMMA PopScopeFacts ==
    ASSUME FlowInv, stack # << >>, InOwnScope(Top), ~InMethod(Top), current # Global,
           current' = Parent(current), UNCHANGED <<instance, signal, panic_mode, error, trapped>>
    PROVE  /\ Latches /\ current' \in Chain /\ instance' \in Insts
           /\ ~error => /\ current' = Top.entry /\ instance' = Top.self
                        /\ Top.temp = Top.entry /\ Top.prev = Top.self
                        /\ Top.scope # Unknown
<1>1. Latches
  BY DEF Latches, FlowInv, TypeOK
<1>2. current' \in Chain /\ instance' \in Insts
  BY ParentIsChain DEF FlowInv, TypeOK
<1>3. ASSUME ~error
      PROVE  /\ current' = Top.entry /\ instance' = Top.self
             /\ Top.temp = Top.entry /\ Top.prev = Top.self /\ Top.scope # Unknown
  <2>1. /\ Top \in FrameType /\ Level \in Nat /\ current = Child(Top.entry, Level)
        /\ instance = Top.self /\ Top.temp = Top.entry /\ Top.prev = Top.self
        /\ Top.entry # Unknown /\ Top.scope # Unknown
    BY <1>3, RunningTop DEF ChainIn, InstanceIn
  <2>2. Top.entry \in Chain
    BY <2>1 DEF FrameType
  <2> QED BY <2>1, <2>2, ChildIsChain
<1> QED BY <1>1, <1>2, <1>3

LEMMA PopReturnInv ==
    ASSUME FlowInv, stack # << >>, Top.fn # "exec_item", InOwnScope(Top), ~InMethod(Top),
           PopScope(Return)
    PROVE  FlowInv'
<1>1. CASE current # Global /\ ~Trap("bottom")
  <2>1. Return /\ current' = Parent(current) /\ current # Global
        /\ UNCHANGED <<instance, signal, panic_mode, error, trapped>>
    BY <1>1 DEF PopScope
  <2>2. error' = error
    BY <2>1
  <2> QED BY <2>1, <2>2, PopScopeFacts, ReturnInv
<1>2. CASE Trap("bottom")
  BY <1>2, TrapInv DEF Causes
<1> QED BY <1>1, <1>2 DEF PopScope

LEMMA PopGotoInv ==
    ASSUME FlowInv, stack # << >>, NEW pc \in Points, InOwnScope(Top), ~InMethod(Top),
           AtEntry(At(pc)), PopScope(Goto(pc))
    PROVE  FlowInv'
<1>1. CASE current # Global /\ ~Trap("bottom")
  <2>1. Goto(pc) /\ current' = Parent(current) /\ current # Global
        /\ UNCHANGED <<instance, signal, panic_mode, error, trapped>>
    BY <1>1 DEF PopScope
  <2>2. PICK f \in FrameType : f = At(pc)
    BY AtFields
  <2>3. /\ f.fn = Top.fn /\ f.entry = Top.entry /\ f.self = Top.self /\ f.temp = Top.temp
        /\ f.prev = Top.prev /\ f.scope = Top.scope
    BY <2>2, AtFields
  <2>4. /\ Latches /\ current' \in Chain /\ instance' \in Insts
        /\ ~error => /\ current' = Top.entry /\ instance' = Top.self
                     /\ Top.temp = Top.entry /\ Top.prev = Top.self
                     /\ Top.scope # Unknown
    BY <2>1, PopScopeFacts
  <2>5. ~error => current' = ChainIn(f, Level) /\ instance' = InstanceIn(f)
    BY <2>2, <2>3, <2>4, Zenon DEF AtEntry, ChainIn, InstanceIn
  <2>6. Become(f)
    BY <2>1, <2>2 DEF Goto
  <2> QED BY <2>3, <2>4, <2>5, <2>6, BecomeInv
<1>2. CASE Trap("bottom")
  BY <1>2, TrapInv DEF Causes
<1> QED BY <1>1, <1>2 DEF PopScope

(***************************************************************************)
(* Each handler preserves the invariant.                                   *)
(***************************************************************************)

\* Which scope the running function is in, by function and point.
LEMMA Whereabouts ==
    ASSUME FlowInv, stack # << >>, NEW pc \in Points
    PROVE  /\ InOwnScope(At(pc)) <=>
                \/ Top.fn = "block" /\ pc \in {"items", "signal", "exit"}
                \/ Top.fn = "call" /\ pc \in {"args", "argcheck"}
                \/ Top.fn = "for" /\ pc # "start"
                \/ Top.fn \in Members /\ pc \in {"members", "check"}
           /\ InEnteredScope(At(pc)) <=>
                \/ Top.fn = "call" /\ pc \in {"body", "ret"}
                \/ Top.fn = "extend" /\ pc \in {"members", "check"}
           /\ InMethod(At(pc)) <=>
                Top.fn = "call" /\ pc \in {"args", "argcheck", "body", "ret"}
<1>1. At(pc).fn = Top.fn /\ At(pc).pc = pc
  BY AtFields
<1> QED BY <1>1 DEF InOwnScope, InEnteredScope, InMethod

\* Functions that never open a scope.
Plain == Functions \ ({"block", "call", "for", "extend"} \cup Members)

LEMMA PlainPlace ==
    ASSUME FlowInv, stack # << >>, Top.fn \in Plain
    PROVE  AtEntry(Top) /\ \A pc \in Points : SamePlace(Top, At(pc)) /\ AtEntry(At(pc))
<1>1. AtEntry(Top)
  BY DEF AtEntry, InOwnScope, InEnteredScope, InMethod, Plain
<1>2. \A pc \in Points : AtEntry(At(pc))
  BY Whereabouts DEF AtEntry, Plain
<1> QED BY <1>1, <1>2, Zenon DEF AtEntry, SamePlace

LEMMA BlockSignalInv ==
    ASSUME FlowInv, BlockSignal
    PROVE  FlowInv'
<1>1. /\ stack # << >> /\ Top.fn = "block" /\ Top.pc = "signal"
      /\ {"items", "exit"} \subseteq Points
  BY DEF BlockSignal, Running, Points
<1>2. SamePlace(Top, At("items")) /\ SamePlace(Top, At("exit"))
  BY <1>1, Whereabouts DEF SamePlace, InOwnScope, InEnteredScope, InMethod, Members
<1>3. CASE Trap("signal")
  BY <1>3, TrapInv DEF Causes
<1>4. CASE UNCHANGED registers /\ (Goto("items") \/ Goto("exit"))
  BY <1>1, <1>2, <1>4, StayInv
<1>5. CASE /\ signal' = None /\ Goto("exit")
           /\ UNCHANGED <<current, instance, panic_mode, error, trapped>>
  <2>1. Latches
    BY <1>5 DEF Latches, FlowInv, TypeOK
  <2> QED BY <1>1, <1>2, <1>5, <2>1, GotoInv
<1> QED BY <1>3, <1>4, <1>5 DEF BlockSignal, ShouldNotReach

LEMMA BlockInv ==
    ASSUME FlowInv, ExecuteBlockExpr
    PROVE  FlowInv'
<1>1. CASE BlockSignal
  BY <1>1, BlockSignalInv
<1>2. ASSUME Running({"block"}, "start"), PushScope("items") PROVE FlowInv'
  <2>1. stack # << >> /\ Top.fn = "block" /\ Top.pc = "start" /\ "items" \in Points
    BY <1>2 DEF Running, Points
  <2>2. AtEntry(Top) /\ InOwnScope(At("items")) /\ ~InMethod(At("items"))
    BY <2>1, Whereabouts DEF AtEntry, InOwnScope, InEnteredScope, InMethod, Members
  <2> QED BY <1>2, <2>1, <2>2, PushScopeInv
<1>3. ASSUME Running({"block"}, "items"),
             ExecItem("signal") \/ (Goto("exit") /\ UNCHANGED registers)
      PROVE  FlowInv'
  <2>1. /\ stack # << >> /\ Top.fn = "block" /\ Top.pc = "items"
        /\ {"signal", "exit"} \subseteq Points
    BY <1>3 DEF Running, Points
  <2>2. SamePlace(Top, At("signal")) /\ SamePlace(Top, At("exit"))
    BY <2>1, Whereabouts DEF SamePlace, InOwnScope, InEnteredScope, InMethod, Members
  <2> QED BY <1>3, <2>1, <2>2, ExecItemInv, StayInv
<1>4. ASSUME Running({"block"}, "exit"), PopScope(Return) PROVE FlowInv'
  <2>1. stack # << >> /\ Top.fn = "block" /\ Top.pc = "exit"
    BY <1>4 DEF Running
  <2>2. InOwnScope(Top) /\ ~InMethod(Top)
    BY <2>1 DEF InOwnScope, InMethod
  <2> QED BY <1>4, <2>1, <2>2, PopReturnInv
<1> QED BY <1>1, <1>2, <1>3, <1>4 DEF ExecuteBlockExpr

LEMMA IfInv ==
    ASSUME FlowInv, ExecuteIfExpr
    PROVE  FlowInv'
<1>1. stack # << >> /\ Top.fn = "if" /\ {"branch", "done"} \subseteq Points
  BY DEF ExecuteIfExpr, Running, Points
<1>2. AtEntry(Top) /\ SamePlace(Top, At("branch")) /\ SamePlace(Top, At("done"))
  <2>1. Top.fn \in Plain
    BY <1>1 DEF Plain, Functions, Expressions, Members
  <2> QED BY <1>1, <2>1, PlainPlace
<1>3. Fresh(Branch) /\ Fresh(Frame("if", "start", "branch", {}, {}))
  <2>1. "operand" \in Roles
    BY DEF Roles
  <2> QED BY <2>1, ChildIsFresh
<1>4. CASE EvalExpr("branch")
  BY <1>1, <1>2, <1>4, EvalExprInv
<1>5. ASSUME UNCHANGED registers,
             \/ Call("done", Branch)
             \/ Call("done", Frame("if", "start", "branch", {}, {}))
             \/ Goto("done")
      PROVE  FlowInv'
  BY <1>1, <1>2, <1>3, <1>5, CallFreshInv, StayInv
<1>6. CASE Return /\ UNCHANGED registers
  BY <1>1, <1>2, <1>6, DoneInv
<1> QED BY <1>4, <1>5, <1>6 DEF ExecuteIfExpr

\* The parts that every loop shares: they neither open nor close a scope.
LEMMA LoopPlace ==
    ASSUME FlowInv, stack # << >>, Top.fn \in Loops, Top.pc # "start"
    PROVE  \A pc \in Points \ {"start"} : SamePlace(Top, At(pc))
<1> SUFFICES ASSUME NEW pc \in Points \ {"start"} PROVE SamePlace(Top, At(pc))
  OBVIOUS
<1>1. At(pc).fn = Top.fn /\ At(pc).pc # "start"
  BY AtFields
<1> QED
  BY <1>1 DEF SamePlace, InOwnScope, InEnteredScope, InMethod, Members, Loops

LEMMA LoopInv ==
    ASSUME FlowInv, LoopTest \/ LoopBody \/ LoopSwitch
    PROVE  FlowInv'
<1>1. stack # << >> /\ Top.fn \in Loops /\ Top.pc # "start"
  BY DEF LoopTest, LoopBody, LoopSwitch, Running
<1>2. /\ {"body", "exit", "after", "update", "cond"} \subseteq Points \ {"start"}
      /\ "operand" \in Roles
  BY DEF Points, Roles
<1>3. \A pc \in Points \ {"start"} : SamePlace(Top, At(pc))
  BY <1>1, LoopPlace
<1>4. ASSUME UNCHANGED registers, NEW pc \in {"body", "exit", "update", "cond"}, Goto(pc)
      PROVE  FlowInv'
  BY <1>1, <1>2, <1>3, <1>4, StayInv
<1>5. CASE LoopTest
  BY <1>4, <1>5 DEF LoopTest
<1>6. CASE LoopBody
  <2>1. Fresh(LoopBlock)
    BY <1>2, ChildIsFresh
  <2> QED BY <1>1, <1>2, <1>3, <1>6, <2>1, CallFreshInv DEF LoopBody
<1>7. CASE LoopSwitch
  <2>1. CASE Trap("signal")
    BY <2>1, TrapInv DEF Causes
  <2>2. CASE Proceed("exit") \/ NextIteration
    BY <1>4, <2>2 DEF NextIteration
  <2>3. CASE /\ signal' = None /\ Goto("exit")
             /\ UNCHANGED <<current, instance, panic_mode, error, trapped>>
    <3>1. Latches
      BY <2>3 DEF Latches, FlowInv, TypeOK
    <3> QED BY <1>1, <1>2, <1>3, <2>3, <3>1, GotoInv
  <2> QED BY <1>7, <2>1, <2>2, <2>3 DEF LoopSwitch, ShouldNotReach
<1> QED BY <1>5, <1>6, <1>7

LEMMA WhileInv ==
    ASSUME FlowInv, ExecuteWhileExpr
    PROVE  FlowInv'
<1>1. stack # << >> /\ Top.fn \in {"while", "do"} /\ "test" \in Points
  BY DEF ExecuteWhileExpr, Running, Points
<1>2. AtEntry(Top) /\ SamePlace(Top, At("test")) /\ Top.fn # "exec_item"
  <2>1. Top.fn \in Plain
    BY <1>1 DEF Plain, Functions, Expressions, Loops, Members
  <2> QED BY <1>1, <2>1, PlainPlace
<1>3. EvalExpr("test") \/ (Return /\ UNCHANGED registers)
  BY DEF ExecuteWhileExpr
<1> QED BY <1>1, <1>2, <1>3, EvalExprInv, DoneInv

LEMMA ForInv ==
    ASSUME FlowInv, ExecuteForExpr
    PROVE  FlowInv'
<1>1. /\ stack # << >> /\ Top.fn = "for"
      /\ {"init", "initcheck", "cond", "test", "body"} \subseteq Points
  BY DEF ExecuteForExpr, Running, Points
<1>2. ASSUME Top.pc = "start", PushScope("init") PROVE FlowInv'
  <2>1. AtEntry(Top) /\ InOwnScope(At("init")) /\ ~InMethod(At("init"))
    BY <1>1, <1>2, Whereabouts DEF AtEntry, InOwnScope, InEnteredScope, InMethod, Members
  <2> QED BY <1>1, <1>2, <2>1, PushScopeInv
<1>3. ASSUME Top.pc # "start", NEW pc \in {"initcheck", "cond", "test", "body"},
             ExecItem(pc) \/ EvalExpr(pc) \/ (Proceed(pc))
      PROVE  FlowInv'
  <2>1. SamePlace(Top, At(pc))
    BY <1>1, <1>3, LoopPlace DEF Loops
  <2> QED BY <1>1, <1>3, <2>1, ExecItemInv, EvalExprInv, StayInv
<1>4. CASE Fail
  BY <1>1, <1>4, FailInv
<1>5. ASSUME Top.pc = "exit", PopScope(Return) PROVE FlowInv'
  <2>1. InOwnScope(Top) /\ ~InMethod(Top)
    BY <1>1, <1>5 DEF InOwnScope, InMethod
  <2> QED BY <1>1, <1>5, <2>1, PopReturnInv
<1> QED BY <1>2, <1>3, <1>4, <1>5 DEF ExecuteForExpr, Check, Running

\* What types, function values and instances have in common.
LEMMA MembersInv ==
    ASSUME FlowInv, stack # << >>, Top.fn \in Members,
           \/ Top.pc = "start" /\ (PushScope("members") \/ Fail)
           \/ Top.pc = "members" /\ (ExecItem("check") \/ EvalExpr("check") \/ Fail)
           \/ Top.pc = "check" /\ ((Goto("members") /\ UNCHANGED registers) \/ Fail)
           \/ FillScope(Top.fn)
    PROVE  FlowInv'
<1>1. /\ {"members", "check", "named"} \subseteq Points /\ Top.fn # "exec_item"
      /\ Top.fn \in {"type", "fn", "inst"}
  BY DEF Points, Members
<1>2. CASE Fail
  BY <1>1, <1>2, FailInv
<1>3. ASSUME Top.pc = "start", PushScope("members") PROVE FlowInv'
  <2>1. AtEntry(Top) /\ InOwnScope(At("members")) /\ ~InMethod(At("members"))
    BY <1>1, <1>3, Whereabouts DEF AtEntry, InOwnScope, InEnteredScope, InMethod, Members
  <2> QED BY <1>1, <1>3, <2>1, PushScopeInv
<1>4. ASSUME Top.pc \in {"members", "check"}, NEW pc \in {"members", "check"},
             ExecItem(pc) \/ EvalExpr(pc) \/ (Proceed(pc))
      PROVE  FlowInv'
  <2>1. SamePlace(Top, At(pc))
    BY <1>1, <1>4, Whereabouts DEF SamePlace, InOwnScope, InEnteredScope, InMethod, Members
  <2> QED BY <1>1, <1>4, <2>1, ExecItemInv, EvalExprInv, StayInv
<1>5. ASSUME Top.pc = "members", PopScope(Goto("named")) PROVE FlowInv'
  <2>1. InOwnScope(Top) /\ ~InMethod(Top) /\ AtEntry(At("named"))
    BY <1>1, <1>5, Whereabouts DEF AtEntry, InOwnScope, InEnteredScope, InMethod, Members
  <2> QED BY <1>1, <1>5, <2>1, PopGotoInv
<1>6. ASSUME Top.pc = "named", Return, UNCHANGED registers PROVE FlowInv'
  <2>1. AtEntry(Top)
    BY <1>1, <1>6 DEF AtEntry, InOwnScope, InEnteredScope, InMethod
  <2> QED BY <1>1, <1>6, <2>1, DoneInv
<1> QED
  BY <1>1, <1>2, <1>3, <1>4, <1>5, <1>6 DEF FillScope, CheckValue, Running

LEMMA TypeInv ==
    ASSUME FlowInv, ExecuteTypeDeclaration
    PROVE  FlowInv'
<1>1. stack # << >> /\ Top.fn = "type"
  BY DEF ExecuteTypeDeclaration, FillScope, Running
<1> QED BY <1>1, MembersInv DEF ExecuteTypeDeclaration, Check, Running, Members

LEMMA FnInv ==
    ASSUME FlowInv, ExecuteFnExpr
    PROVE  FlowInv'
<1>1. stack # << >> /\ Top.fn = "fn"
  BY DEF ExecuteFnExpr, FillScope, Running
<1> QED BY <1>1, MembersInv DEF ExecuteFnExpr, CheckValue, Running, Members

LEMMA InstInv ==
    ASSUME FlowInv, ExecuteInstCreation
    PROVE  FlowInv'
<1>1. stack # << >> /\ Top.fn = "inst"
  BY DEF ExecuteInstCreation, FillScope, Running
<1>2. Proceed("check") => EvalExpr("check")
  BY DEF EvalExpr
<1> QED BY <1>1, <1>2, MembersInv DEF ExecuteInstCreation, CheckValue, Running, Members

\* A function value's scope chain is a chain, and a known one where the current is.
LEMMA ClosureIsChain ==
    ASSUME FlowInv, NEW closure \in Closures
    PROVE  closure \in Chain /\ (current # Unknown => closure # Unknown)
<1>1. CASE current = Unknown
  BY <1>1 DEF Closures, FlowInv, TypeOK
<1>2. CASE current # Unknown
  <2>1. Captured \in Nat
    BY ConstantsAssumption DEF Captured
  <2>2. PICK n \in 1 .. Len(current) : closure = Child(SubSeq(current, 1, n), Captured)
    BY <1>2 DEF Closures
  <2>3. SubSeq(current, 1, n) \in Chain /\ SubSeq(current, 1, n) # Unknown
    BY PrefixIsChain DEF FlowInv, TypeOK
  <2> QED BY <2>1, <2>2, <2>3, ChildIsChain
<1> QED BY <1>1, <1>2

LEMMA CallEnterInv ==
    ASSUME FlowInv, stack # << >>, Top.fn = "call", Top.pc = "callee", CallEnter
    PROVE  FlowInv'
<1>1. PICK inst \in Insts :
        /\ Become([At("args") EXCEPT !.prev = instance, !.method = inst])
        /\ instance' = inst
        /\ current' = Child(current, Level)
        /\ UNCHANGED <<signal, panic_mode, error, trapped>>
  BY DEF CallEnter, Insts
<1>2. /\ At("args") \in FrameType /\ At("args").fn = "call" /\ At("args").pc = "args"
      /\ At("args").entry = Top.entry /\ At("args").self = Top.self
      /\ At("args").temp = Top.temp /\ At("args").scope = Top.scope
  BY AtFields DEF Points
<1>3. instance \in Insts /\ current \in Chain /\ Latches
  BY <1>1 DEF FlowInv, TypeOK, Latches
<1>4. PICK f \in FrameType : f = [At("args") EXCEPT !.prev = instance, !.method = inst]
  BY <1>2, <1>3 DEF FrameType
<1>5. /\ f.fn = "call" /\ f.pc = "args" /\ f.entry = Top.entry /\ f.self = Top.self
      /\ f.temp = Top.temp /\ f.scope = Top.scope /\ f.prev = instance /\ f.method = inst
  BY <1>2, <1>4 DEF FrameType
<1>6. ~error => /\ current = Top.entry /\ instance = Top.self
                /\ Top.temp = Top.entry /\ Top.scope # Unknown
  <2>1. AtEntry(Top)
    BY DEF AtEntry, InOwnScope, InEnteredScope, InMethod, Members
  <2> QED BY <2>1, RunningTop DEF AtEntry, ChainIn, InstanceIn
<1>7. ChainIn(f, Level) = Child(f.entry, Level) /\ InstanceIn(f) = f.method
  BY <1>5 DEF ChainIn, InstanceIn, InOwnScope, InMethod
<1>8. current' \in Chain /\ instance' \in Insts
  BY <1>1, <1>3, RunningTop, ChildIsChain
<1> QED BY <1>1, <1>3, <1>4, <1>5, <1>6, <1>7, <1>8, BecomeInv

\* The scope a call found current and the one it runs its body in.
LEMMA ReparentedFacts ==
    ASSUME FlowInv, stack # << >>, Top.fn = "call", Top.pc = "args",
           NEW closure \in Closures
    PROVE  /\ Reparented(closure).outer \in Chain /\ Reparented(closure).inner \in Chain
           /\ ~error => /\ Reparented(closure).outer = Top.entry
                        /\ Reparented(closure).inner = Child(closure, Level)
                        /\ closure # Unknown /\ Reparented(closure).inner # Unknown
<1>1. /\ Unknown \in Chain /\ Level \in Nat /\ Top.entry \in Chain /\ closure \in Chain
      /\ Child(closure, Level) \in Chain
      /\ closure # Unknown => Child(closure, Level) # Unknown
  <2>1. << >> \in Seq(Nat)
    OBVIOUS
  <2> QED BY <2>1, RunningTop, ClosureIsChain, ChildIsChain DEF Chain, Unknown, FrameType
<1>2. CASE current = Child(Top.entry, Level)
  <2>1. /\ Reparented(closure).outer = Parent(current)
        /\ Reparented(closure).inner = Child(closure, Level)
    BY <1>2 DEF Reparented
  <2>2. Parent(current) \in Chain
    <3>1. CASE Top.entry = Unknown
      <4>1. current = Unknown /\ Unknown # Global
        <5>1. Len(<< >>) = 0 /\ Len(<<0>>) = 1
          OBVIOUS
        <5> QED BY <1>2, <3>1, <5>1, Zenon DEF Child, Unknown, Global
      <4> QED BY <1>1, <4>1, ParentIsChain
    <3>2. CASE Top.entry # Unknown
      BY <1>1, <1>2, <3>2, ChildIsChain
    <3> QED BY <3>1, <3>2
  <2>3. ~error => Parent(current) = Top.entry /\ closure # Unknown
    BY <1>1, <1>2, RunningTop, ChildIsChain, ClosureIsChain
  <2> QED BY <1>1, <2>1, <2>2, <2>3
<1>3. CASE current # Child(Top.entry, Level)
  <2>1. Reparented(closure).outer = Unknown /\ Reparented(closure).inner = Unknown
    BY <1>3 DEF Reparented
  <2>2. InOwnScope(Top)
    BY DEF InOwnScope
  <2>3. error
    BY <1>3, <2>2, RunningTop DEF ChainIn
  <2> QED BY <1>1, <2>1, <2>3
<1> QED BY <1>2, <1>3

LEMMA CallBodyInv ==
    ASSUME FlowInv, stack # << >>, Top.fn = "call", Top.pc = "args", CallBody
    PROVE  FlowInv'
<1>1. CASE Trap("bottom")
  BY <1>1, TrapInv DEF Causes
<1>2. CASE ~Trap("bottom")
  <2>1. PICK closure \in Closures :
          /\ Become([At("body") EXCEPT !.temp = Reparented(closure).outer,
                                       !.scope = Reparented(closure).inner])
          /\ current' = Reparented(closure).inner
          /\ UNCHANGED <<instance, signal, panic_mode, error, trapped>>
    BY <1>2 DEF CallBody
  <2>2. /\ At("body") \in FrameType /\ At("body").fn = "call" /\ At("body").pc = "body"
        /\ At("body").entry = Top.entry /\ At("body").self = Top.self
        /\ At("body").prev = Top.prev /\ At("body").method = Top.method
    BY AtFields DEF Points
  <2>3. /\ Reparented(closure).outer \in Chain /\ Reparented(closure).inner \in Chain
        /\ ~error => /\ Reparented(closure).outer = Top.entry
                     /\ Reparented(closure).inner # Unknown
    BY ReparentedFacts
  <2>4. PICK f \in FrameType :
          f = [At("body") EXCEPT !.temp = Reparented(closure).outer,
                                 !.scope = Reparented(closure).inner]
    BY <2>2, <2>3 DEF FrameType
  <2>5. /\ f.fn = "call" /\ f.pc = "body" /\ f.entry = Top.entry /\ f.self = Top.self
        /\ f.prev = Top.prev /\ f.method = Top.method
        /\ f.temp = Reparented(closure).outer /\ f.scope = Reparented(closure).inner
    BY <2>2, <2>4 DEF FrameType
  <2>6. ~error => instance = Top.method /\ Top.prev = Top.self
    <3>1. InMethod(Top)
      BY DEF InMethod
    <3> QED BY <3>1, RunningTop DEF InstanceIn
  <2>7. ChainIn(f, Level) = f.scope /\ InstanceIn(f) = f.method
    BY <2>5 DEF ChainIn, InstanceIn, InOwnScope, InEnteredScope, InMethod, Members
  <2>8. Latches /\ current' \in Chain /\ instance' \in Insts
    BY <2>1, <2>3 DEF FlowInv, TypeOK, Latches
  <2> QED BY <2>1, <2>3, <2>4, <2>5, <2>6, <2>7, <2>8, BecomeInv
<1> QED BY <1>1, <1>2

\* What a function restores is a chain, and until a check fails the one it saved.
LEMMA RestoredFacts ==
    ASSUME FlowInv, stack # << >>
    PROVE  Restored \in Chain /\ (~error => Restored = Top.temp)
<1>1. << >> \in Seq(Nat)
  OBVIOUS
<1> QED BY <1>1, RunningTop DEF Restored, Chain, Unknown, FrameType

LEMMA CallReturnInv ==
    ASSUME FlowInv, stack # << >>, Top.fn = "call", CallReturn
    PROVE  FlowInv'
<1>1. Latches /\ Return /\ current' = Restored /\ instance' = Top.prev
  BY DEF CallReturn, Latches, FlowInv, TypeOK
<1>2. current' \in Chain /\ instance' \in Insts
  BY <1>1, RunningTop, RestoredFacts DEF FrameType
<1>3. ~error' => current' = Top.entry /\ instance' = Top.self
  BY <1>1, RunningTop, RestoredFacts DEF Latches
<1> QED BY <1>1, <1>2, <1>3, ReturnInv

LEMMA CallExprInv ==
    ASSUME FlowInv, ExecuteCallExpr
    PROVE  FlowInv'
<1>1. /\ stack # << >> /\ Top.fn = "call"
      /\ {"callee", "args", "argcheck", "body", "ret"} \subseteq Points
  BY DEF ExecuteCallExpr, Running, Points
<1>2. CASE Fail
  BY <1>1, <1>2, FailInv
<1>3. ASSUME Top.pc = "start", EvalExpr("callee") PROVE FlowInv'
  <2>1. SamePlace(Top, At("callee"))
    BY <1>1, <1>3, Whereabouts DEF SamePlace, InOwnScope, InEnteredScope, InMethod, Members
  <2> QED BY <1>1, <1>3, <2>1, EvalExprInv
<1>4. ASSUME Top.pc \in {"args", "argcheck"}, NEW pc \in {"args", "argcheck"},
             EvalExpr(pc) \/ (Proceed(pc))
      PROVE  FlowInv'
  <2>1. SamePlace(Top, At(pc))
    BY <1>1, <1>4, Whereabouts DEF SamePlace, InOwnScope, InEnteredScope, InMethod, Members
  <2> QED BY <1>1, <1>4, <2>1, EvalExprInv, StayInv
<1>5. ASSUME Top.pc = "body", (Call("ret", FnBody) \/ Goto("ret")), UNCHANGED registers
      PROVE  FlowInv'
  <2>1. SamePlace(Top, At("ret"))
    BY <1>1, <1>5, Whereabouts DEF SamePlace, InOwnScope, InEnteredScope, InMethod, Members
  <2>2. "operand" \in Roles
    BY DEF Roles
  <2>3. Fresh(FnBody)
    BY <2>2, ChildIsFresh
  <2> QED BY <1>1, <1>5, <2>1, <2>3, CallFreshInv, StayInv
<1> QED
  BY <1>1, <1>2, <1>3, <1>4, <1>5, CallEnterInv, CallBodyInv, CallReturnInv
  DEF ExecuteCallExpr, CheckValue, Running

LEMMA ExtendEnterInv ==
    ASSUME FlowInv, stack # << >>, Top.fn = "extend", Top.pc = "type", ExtendEnter
    PROVE  FlowInv'
<1>1. PICK closure \in Closures :
        /\ Become([At("members") EXCEPT !.temp = current, !.scope = closure])
        /\ current' = closure
        /\ UNCHANGED <<instance, signal, panic_mode, error, trapped>>
  BY DEF ExtendEnter
<1>2. /\ At("members") \in FrameType /\ At("members").fn = "extend"
      /\ At("members").pc = "members" /\ At("members").entry = Top.entry
      /\ At("members").self = Top.self /\ At("members").prev = Top.prev
  BY AtFields DEF Points
<1>3. closure \in Chain /\ current \in Chain /\ instance \in Insts
  BY ClosureIsChain DEF FlowInv, TypeOK
<1>4. PICK f \in FrameType : f = [At("members") EXCEPT !.temp = current, !.scope = closure]
  BY <1>2, <1>3 DEF FrameType
<1>5. /\ f.fn = "extend" /\ f.pc = "members" /\ f.entry = Top.entry /\ f.self = Top.self
      /\ f.prev = Top.prev /\ f.temp = current /\ f.scope = closure
  BY <1>2, <1>4 DEF FrameType
<1>6. ~error => /\ current = Top.entry /\ instance = Top.self /\ Top.prev = Top.self
                /\ closure # Unknown
  <2>1. AtEntry(Top)
    BY DEF AtEntry, InOwnScope, InEnteredScope, InMethod, Members
  <2> QED BY <2>1, RunningTop, ClosureIsChain DEF AtEntry, ChainIn, InstanceIn
<1>7. ChainIn(f, Level) = f.scope /\ InstanceIn(f) = f.self
  BY <1>5 DEF ChainIn, InstanceIn, InOwnScope, InEnteredScope, InMethod, Members
<1>8. Latches /\ current' \in Chain /\ instance' \in Insts
  BY <1>1, <1>3 DEF FlowInv, TypeOK, Latches
<1> QED BY <1>1, <1>4, <1>5, <1>6, <1>7, <1>8, BecomeInv

LEMMA ExtendInv ==
    ASSUME FlowInv, ExecuteExtend
    PROVE  FlowInv'
<1>1. stack # << >> /\ Top.fn = "extend" /\ {"type", "members", "check"} \subseteq Points
  BY DEF ExecuteExtend, Running, Points
<1>2. CASE Fail
  BY <1>1, <1>2, FailInv
<1>3. ASSUME Top.pc = "start", EvalExpr("type") PROVE FlowInv'
  <2>1. SamePlace(Top, At("type"))
    BY <1>1, <1>3, Whereabouts DEF SamePlace, InOwnScope, InEnteredScope, InMethod, Members
  <2> QED BY <1>1, <1>3, <2>1, EvalExprInv
<1>4. ASSUME Top.pc \in {"members", "check"}, NEW pc \in {"members", "check"},
             ExecItem(pc) \/ (Proceed(pc))
      PROVE  FlowInv'
  <2>1. SamePlace(Top, At(pc))
    BY <1>1, <1>4, Whereabouts DEF SamePlace, InOwnScope, InEnteredScope, InMethod, Members
  <2> QED BY <1>1, <1>4, <2>1, ExecItemInv, StayInv
<1>5. ASSUME current' = Restored, Return, Top.pc = "members",
             UNCHANGED <<instance, signal, panic_mode, error, trapped>>
      PROVE  FlowInv'
  <2>1. Latches /\ instance' \in Insts /\ current' \in Chain
    BY <1>1, <1>5, RestoredFacts DEF Latches, FlowInv, TypeOK
  <2>2. InstanceIn(Top) = Top.self
    BY <1>1 DEF InstanceIn, InMethod
  <2>3. ~error' => current' = Top.entry /\ instance' = Top.self
    BY <1>1, <1>5, <2>2, RunningTop, RestoredFacts
  <2> QED BY <1>1, <1>5, <2>1, <2>3, ReturnInv
<1> QED
  BY <1>1, <1>2, <1>3, <1>4, <1>5, ExtendEnterInv
  DEF ExecuteExtend, Check, CheckValue, Running

\* Operators and simple statements.
LEMMA SimpleInv ==
    ASSUME FlowInv, stack # << >>, Top.fn \in Plain \ {"exec_item"},
           \/ \E pc \in {"operand", "right", "owner"} : EvalExpr(pc)
           \/ Call("owner", BoxedValue) /\ UNCHANGED registers
           \/ Done \/ Fail \/ \E sig \in {"return", "break"} : RaiseSignal(sig)
           \/ Trap("value")
    PROVE  FlowInv'
<1>1. {"operand", "right", "owner"} \subseteq Points
  BY DEF Points
<1>2. AtEntry(Top) /\ \A pc \in {"operand", "right", "owner"} : SamePlace(Top, At(pc))
  BY <1>1, PlainPlace
<1>3. CASE \E pc \in {"operand", "right", "owner"} : EvalExpr(pc)
  BY <1>1, <1>2, <1>3, EvalExprInv
<1>4. CASE Done
  BY <1>2, <1>4, DoneInv DEF Done
<1>5. CASE Fail
  BY <1>5, FailInv
<1>6. ASSUME NEW sig \in {"return", "break"}, RaiseSignal(sig) PROVE FlowInv'
  <2>1. Return /\ Latches /\ UNCHANGED <<current, instance>>
    BY <1>6 DEF RaiseSignal, Latches, FlowInv, TypeOK, Signals
  <2> QED BY <1>2, <2>1, LeaveInv
<1>7. CASE Call("owner", BoxedValue) /\ UNCHANGED registers
  <2>1. Fresh(BoxedValue)
    <3>1. /\ "inst" \in Functions \ {"exec_item"} /\ "start" \in Points /\ "boxed" \in Roles
          /\ {} \in SUBSET Signals
      BY DEF Functions, Expressions, Members, Points, Roles
    <3> QED BY <3>1, FrameIsFresh DEF BoxedValue
  <2> QED BY <1>1, <1>2, <1>7, <2>1, CallFreshInv
<1>8. CASE Trap("value")
  BY <1>8, TrapInv DEF Causes
<1> QED BY <1>3, <1>4, <1>5, <1>6, <1>7, <1>8

LEMMA OperatorsInv ==
    ASSUME FlowInv,
           \/ ExecuteUnaryOp \/ ExecuteBinaryOp \/ ExecuteAssignExpr \/ ExecuteMemberGet
           \/ ExecutePrintItem \/ ExecuteVarDecl \/ ExecuteSignalItem
    PROVE  FlowInv'
<1>1. /\ stack # << >>
      /\ Top.fn \in {"unary", "binary", "assign", "member", "print", "var", "return", "break"}
  BY DEF ExecuteUnaryOp, ExecuteBinaryOp, ExecuteAssignExpr, ExecuteMemberGet,
         ExecutePrintItem, ExecuteVarDecl, ExecuteSignalItem, Operands, Running
<1>2. Top.fn \in Plain \ {"exec_item"}
  BY <1>1 DEF Plain, Functions, Expressions, Loops, Members, Operators
<1>3. \/ \E pc \in {"operand", "right", "owner"} : EvalExpr(pc)
      \/ Call("owner", BoxedValue) /\ UNCHANGED registers
      \/ Done \/ Fail \/ \E sig \in {"return", "break"} : RaiseSignal(sig)
      \/ Trap("value")
  BY DEF ExecuteUnaryOp, ExecuteBinaryOp, ExecuteAssignExpr, ExecuteMemberGet,
         ExecutePrintItem, ExecuteVarDecl, ExecuteSignalItem, Operands, CheckValue, Another,
         Unlisted, ShouldNotReach
<1> QED BY <1>1, <1>2, <1>3, SimpleInv

LEMMA TopStartInv ==
    ASSUME FlowInv, stack = << >>, stack' = <<TopFrame>>, UNCHANGED registers
    PROVE  FlowInv'
<1>1. TypeOK /\ TopFrame \in FrameType
  BY DEF FlowInv, TypeOK, TopFrame, Frame, FrameType, Functions, Points, Roles
<1>2. /\ stack' \in Seq(FrameType) /\ Len(stack') = 1 /\ stack'[1] = TopFrame
      /\ stack' # << >> /\ Level' = 1 /\ Level = 0
  BY <1>1 DEF Level
<1>3. /\ TopFrame.fn = "exec_item" /\ TopFrame.entry = current /\ TopFrame.self = instance
      /\ TopFrame.temp = current /\ TopFrame.prev = instance
      /\ AtEntry(TopFrame)
  BY DEF TopFrame, Frame, AtEntry, InOwnScope, InEnteredScope, InMethod, Members
<1>4. TypeOK'
  <2>1. ~error => current # Unknown /\ KnownFrame(TopFrame)
    BY <1>1 DEF TypeOK, ChainsKnown, KnownFrame, TopFrame, Frame
  <2>2. \A k \in 1 .. Len(stack') : stack'[k] = TopFrame
    BY <1>2
  <2> QED BY <1>1, <1>2, <2>1, <2>2 DEF TypeOK, ChainsKnown, registers
<1>5. ScopesNest'
  <2> SUFFICES ASSUME ~error
               PROVE  /\ \A k \in 1 .. 1 : /\ stack'[k].entry = CallerChain(k)'
                                           /\ stack'[k].self = CallerInstance(k)'
                      /\ current = CallerChain(2)'
                      /\ instance = CallerInstance(2)'
    BY <1>2 DEF ScopesNest, registers
  <2>1. current = Global /\ instance = NoInstance
    BY <1>2 DEF FlowInv, ScopesNest, CallerChain, CallerInstance
  <2>2. CallerChain(1)' = Global /\ CallerInstance(1)' = NoInstance
    BY DEF CallerChain, CallerInstance
  <2>3. CallerChain(2)' = current /\ CallerInstance(2)' = instance
    BY <1>2, <1>3 DEF CallerChain, CallerInstance, ChainIn, InstanceIn, AtEntry
  <2> QED BY <1>2, <1>3, <2>1, <2>2, <2>3
<1>6. SavedIntact'
  BY <1>2, <1>3 DEF SavedIntact
<1>7. PanicIffSignal'
  BY <1>2 DEF PanicIffSignal
<1> QED BY <1>4, <1>5, <1>6, <1>7 DEF FlowInv

LEMMA TopEndInv ==
    ASSUME FlowInv, stack # << >>, Top.fn = "exec_item", TopResult, Return,
           UNCHANGED <<current, instance, signal, trapped>>
    PROVE  FlowInv'
<1>1. Level = 1 /\ Len(stack) = 1 /\ stack[1] = Top
  BY RunningTop DEF FlowInv, SavedIntact, Level
<1>2. /\ stack' \in Seq(FrameType) /\ Len(stack') = 0
  BY <1>1, DropLast DEF Return, FlowInv, TypeOK
<1>3. stack' = << >> /\ Level' = 0
  BY <1>2, EmptySeq DEF Level
<1>4. (error => error') /\ panic_mode' \in BOOLEAN /\ error' \in BOOLEAN
      /\ (panic_mode' <=> signal # None)
  BY DEF TopResult, InterpreterError, FlowInv, TypeOK
<1>5. TypeOK'
  BY <1>2, <1>4 DEF FlowInv, TypeOK, ChainsKnown
<1>6. ScopesNest'
  <2>1. ~error => Top.entry = Global /\ Top.self = NoInstance
    BY <1>1 DEF FlowInv, ScopesNest, CallerChain, CallerInstance
  <2>2. AtEntry(Top)
    BY DEF AtEntry, InOwnScope, InEnteredScope, InMethod, Members
  <2>3. ~error => current = Global /\ instance = NoInstance
    BY <2>1, <2>2, RunningTop DEF AtEntry, ChainIn, InstanceIn
  <2>4. CallerChain(1)' = Global /\ CallerInstance(1)' = NoInstance
    BY DEF CallerChain, CallerInstance
  <2> QED BY <1>3, <1>4, <2>3, <2>4 DEF ScopesNest
<1>7. SavedIntact'
  BY <1>2 DEF SavedIntact
<1>8. PanicIffSignal'
  BY <1>4 DEF PanicIffSignal
<1> QED BY <1>5, <1>6, <1>7, <1>8 DEF FlowInv

LEMMA TopItemInv ==
    ASSUME FlowInv, ExecuteTopItem
    PROVE  FlowInv'
<1>1. CASE stack = << >>
  BY <1>1, TopStartInv DEF ExecuteTopItem, Running
<1>2. ASSUME stack # << >>, Top.fn = "exec_item", ExecItem("signal") PROVE FlowInv'
  <2>1. "signal" \in Points /\ Top.fn \in Plain
    BY <1>2 DEF Points, Plain, Functions, Members
  <2>2. SamePlace(Top, At("signal"))
    BY <1>2, <2>1, PlainPlace
  <2> QED BY <1>2, <2>1, <2>2, ExecItemInv
<1> QED BY <1>1, <1>2, TopEndInv DEF ExecuteTopItem, Running

(***************************************************************************)
(* The theorems.                                                           *)
(***************************************************************************)

\* The interpreter starts in the global scope, outside any method, with no
\* signal, no error and nothing running.
LEMMA InitInv == Init => FlowInv
<1> SUFFICES ASSUME Init PROVE FlowInv
  OBVIOUS
<1>1. Global \in Chain
  <2>1. /\ <<0>> \in Seq(Nat) /\ Len(<<0>>) = 1 /\ <<0>>[1] = 0
    OBVIOUS
  <2> QED BY <2>1 DEF Global, Chain
<1>2. stack \in Seq(FrameType) /\ Level = 0
  BY DEF Init, Level
<1>3. TypeOK
  <2>1. ChainsKnown
    BY <1>2 DEF Init, ChainsKnown, Level, Global, Unknown
  <2> QED BY <1>1, <1>2, <2>1 DEF Init, TypeOK, Insts, Signals, None
<1>4. ScopesNest /\ SavedIntact
  BY <1>2 DEF Init, ScopesNest, SavedIntact, CallerChain, CallerInstance, Level
<1> QED BY <1>3, <1>4 DEF Init, FlowInv, PanicIffSignal

LEMMA NextInv == FlowInv /\ [Next]_vars => FlowInv'
<1> SUFFICES ASSUME FlowInv, [Next]_vars PROVE FlowInv'
  OBVIOUS
<1>1. CASE UNCHANGED vars
  <2>1. /\ TypeOK' <=> TypeOK
        /\ SavedIntact' <=> SavedIntact
        /\ PanicIffSignal' <=> PanicIffSignal
    BY <1>1 DEF vars, TypeOK, ChainsKnown, SavedIntact, PanicIffSignal
  <2>2. ScopesNest' <=> ScopesNest
    BY <1>1 DEF vars, ScopesNest, Level, CallerChain, CallerInstance
  <2> QED BY <2>1, <2>2 DEF FlowInv
<1>2. CASE Next
  BY <1>2, TopItemInv, BlockInv, IfInv, LoopInv, WhileInv, ForInv, TypeInv, FnInv, InstInv,
     CallExprInv, ExtendInv, OperatorsInv
  DEF Next
<1> QED BY <1>1, <1>2

\* The inductive invariant holds in every reachable state, whatever the
\* program, the depth of its nesting, its errors and the build.
THEOREM FlowInvariant == Spec => []FlowInv
<1> QED BY InitInv, NextInv, PTL DEF Spec

\* Every register and every frame of the interpreter has its type, and until a
\* check fails every scope chain, those that execute_call_expr and
\* execute_extend have saved included, ends at the global scope.  (Once a check
\* has failed, execute_call_expr may give a new parent to a scope that is not
\* its own, and nothing is claimed of the chains through it.)
THEOREM TypeCorrect == Spec => []TypeOK
<1>1. FlowInv => TypeOK
  BY DEF FlowInv
<1> QED BY <1>1, FlowInvariant, PTL

\* Until a check has failed, scopes and method instances nest: every function
\* gives back the scope and the instance it was called with (push_scope and
\* pop_scope, the saved current and instance of execute_call_expr and
\* execute_extend), through any mix of signals, loops, calls and closures.
THEOREM ScopeDiscipline == Spec => []ScopesNest
<1>1. FlowInv => ScopesNest
  BY DEF FlowInv
<1> QED BY <1>1, FlowInvariant, PTL

\* The registers a function has saved are the ones it was called with, until a
\* check fails, so what it gives back to its caller is what it was given
\* (execute_call_expr, execute_extend).
THEOREM SavedRegisters == Spec => []SavedIntact
<1>1. FlowInv => SavedIntact
  BY DEF FlowInv
<1> QED BY <1>1, FlowInvariant, PTL

\* Between top-level items the interpreter is in panic exactly when a signal
\* is left pending (snuk_interpreter_exec_item).
THEOREM PanicDiscipline == Spec => []PanicIffSignal
<1>1. FlowInv => PanicIffSignal
  BY DEF FlowInv
<1> QED BY <1>1, FlowInvariant, PTL

(***************************************************************************)
(* How a raised signal finds the construct that catches it, in programs    *)
(* whose signals are raised in statement position, until the first         *)
(* run-time error: every step of the interpreter is one of nine moves of   *)
(* the C stack, or stops the process over a value (Move), and each move    *)
(* keeps the invariant SignalInv and is a step, or a stutter, of           *)
(* SnukControl.                                                            *)
(***************************************************************************)

\* What the step lemmas assume: the invariants, and a step without an error.
Setting == FlowInv /\ SignalInv /\ Structured /\ ~error /\ ~error'

SameConstruct(f, g) ==
    f.fn = g.fn /\ f.role = g.role /\ f.capture = g.capture /\ f.pass = g.pass

\* Constructs that have an end of their own, and those that have come to it.
Scoped(f) == f.fn = "block" \/ f.fn \in Loops
Finished(f) == Scoped(f) /\ f.pc = "exit"

(***************************************************************************)
(* The moves.  The first four leave no signal pending, the next two raise  *)
(* one, the next three have one pending.  In the last nothing moves: a     *)
(* value has stopped the process.                                          *)
(***************************************************************************)
Quiet == signal = None /\ signal' = None

Starts == Quiet /\ stack = << >> /\ stack' = <<TopFrame>>

Runs ==
    /\ Quiet /\ stack # << >> /\ ~Finished(Top)
    /\ \E f \in FrameType : Become(f) /\ SameConstruct(f, Top)

Calls ==
    /\ Quiet /\ stack # << >> /\ ~Finished(Top)
    /\ \E pc \in Points, g \in FrameType :
         /\ Call(pc, g) /\ Awaits(At(pc), g.role) /\ ~Finished(At(pc))
         /\ WellFormed(g) /\ ~Finished(g)
         /\ g.fn \in {"return", "break"} => Caught(stack, g.fn)

Leaves == Quiet /\ stack # << >> /\ Return /\ (Scoped(Top) => Finished(Top))

Raises ==
    /\ stack # << >> /\ Top.fn = "block" /\ Top.pc = "items"
    /\ signal = None /\ signal' \in Signals /\ Caught(stack, signal')
    /\ Goto("signal")

LeavesRaising ==
    /\ stack # << >> /\ Top.fn \in {"return", "break"}
    /\ signal = None /\ signal' = Top.fn
    /\ Return

Passes ==
    /\ stack # << >> /\ signal # None /\ signal' = signal
    /\ \E pc \in Points : Goto(pc) /\ Unwinds(At(pc), signal)

LeavesPassing ==
    /\ stack # << >> /\ signal # None /\ signal' = signal
    /\ Return /\ ~Catches(Top, signal)
    /\ Top.role = "loopbody" => signal # "continue"

Takes ==
    /\ stack # << >> /\ signal # None /\ signal' = None
    /\ Scoped(Top) /\ Catches(Top, signal)
    /\ Goto("exit")

Stops == Trap("value")

Move ==
    \/ /\ trapped' = trapped
       /\ \/ Starts \/ Runs \/ Calls \/ Leaves
          \/ Raises \/ LeavesRaising
          \/ Passes \/ LeavesPassing \/ Takes
    \/ Stops

(***************************************************************************)
(* What the stack looks like after each change of it.                      *)
(***************************************************************************)
LEMMA StackFacts ==
    ASSUME FlowInv, stack # << >>
    PROVE  /\ Len(stack) \in Nat \ {0} /\ Top = stack[Len(stack)] /\ Top \in FrameType
           /\ \A k \in 1 .. Len(stack) : stack[k] \in FrameType
  BY TopType DEF FlowInv, Top, Level

LEMMA BecomeShape ==
    ASSUME FlowInv, stack # << >>, NEW f \in FrameType, Become(f)
    PROVE  /\ stack' \in Seq(FrameType) /\ Len(stack') = Len(stack) /\ stack' # << >>
           /\ \A j \in 1 .. Len(stack) :
                stack'[j] = IF j = Len(stack) THEN f ELSE stack[j]
           /\ Top' = f
<1>1. /\ stack' \in Seq(FrameType) /\ Len(stack') = Len(stack)
      /\ \A j \in 1 .. Len(stack) :
           stack'[j] = IF j = Len(stack) THEN f ELSE stack[j]
  BY ReplaceLast DEF Become, FlowInv, TypeOK
<1>2. Len(stack) \in 1 .. Len(stack)
  BY StackFacts
<1> QED BY <1>1, <1>2 DEF Top

LEMMA CallShape ==
    ASSUME FlowInv, stack # << >>, NEW pc \in Points, NEW g \in FrameType, Call(pc, g)
    PROVE  /\ stack' \in Seq(FrameType) /\ Len(stack') = Len(stack) + 1 /\ stack' # << >>
           /\ \A j \in 1 .. Len(stack) :
                stack'[j] = IF j = Len(stack) THEN At(pc) ELSE stack[j]
           /\ stack'[Len(stack) + 1] = g /\ Top' = g
<1> DEFINE s == [stack EXCEPT ![Len(stack)] = At(pc)]
<1>1. At(pc) \in FrameType /\ stack \in Seq(FrameType)
  BY AtFields DEF FlowInv, TypeOK
<1>2. /\ s \in Seq(FrameType) /\ Len(s) = Len(stack)
      /\ \A j \in 1 .. Len(stack) : s[j] = IF j = Len(stack) THEN At(pc) ELSE stack[j]
  BY <1>1, ReplaceLast
<1>3. stack' = Append(s, g)
  BY DEF Call
<1> HIDE DEF s
<1>4. /\ stack' \in Seq(FrameType) /\ Len(stack') = Len(s) + 1
      /\ \A j \in 1 .. Len(s) : stack'[j] = s[j]
      /\ stack'[Len(s) + 1] = g
  BY <1>2, <1>3, AppendProperties
<1>5. stack' # << >> /\ Len(stack) \in Nat
  BY <1>2, <1>4, StackFacts
<1> QED BY <1>2, <1>4, <1>5 DEF Top

LEMMA GotoShape ==
    ASSUME FlowInv, stack # << >>, NEW pc \in Points
    PROVE  /\ At(pc) \in FrameType /\ SameConstruct(At(pc), Top)
           /\ At(pc).fn = Top.fn /\ At(pc).pc = pc
           /\ Goto(pc) => Become(At(pc))
  BY AtFields, StackFacts DEF At, SameConstruct, FrameType, Goto

LEMMA ReturnShape ==
    ASSUME FlowInv, stack # << >>, Return
    PROVE  /\ stack' \in Seq(FrameType) /\ Len(stack') = Len(stack) - 1
           /\ \A j \in 1 .. Len(stack) - 1 : stack'[j] = stack[j]
           /\ stack' # << >> => Top' = stack[Len(stack) - 1]
<1>1. /\ stack' \in Seq(FrameType) /\ Len(stack') = Len(stack) - 1
      /\ \A j \in 1 .. Len(stack) - 1 : stack'[j] = stack[j]
  BY DropLast DEF Return, FlowInv, TypeOK
<1>2. ASSUME stack' # << >> PROVE Top' = stack[Len(stack) - 1]
  <2>1. Len(stack') \in Nat \ {0}
    BY <1>1, <1>2, EmptySeq
  <2>2. Len(stack) - 1 \in 1 .. Len(stack) - 1
    BY <1>1, <2>1
  <2> QED BY <1>1, <2>2 DEF Top
<1> QED BY <1>1, <1>2

LEMMA StartShape ==
    ASSUME FlowInv, Starts
    PROVE  /\ stack' \in Seq(FrameType) /\ Len(stack') = 1 /\ stack'[1] = TopFrame
           /\ stack' # << >> /\ TopFrame \in FrameType
           /\ TopFrame.fn = "exec_item" /\ TopFrame.role = "operand" /\ TopFrame.pc = "start"
<1>1. TopFrame \in FrameType
  BY DEF FlowInv, TypeOK, TopFrame, Frame, FrameType, Functions, Points, Roles
<1> QED BY <1>1 DEF Starts, TopFrame, Frame

\* What a running function knows of itself and of a pending signal.
LEMMA Known ==
    ASSUME Setting
    PROVE  /\ FlowInv /\ NeverTraps /\ StackLinked /\ RaisersCaught /\ PendingCaught
           /\ signal \in Signals \cup {None} /\ None \notin Signals
           /\ stack = << >> => signal = None
           /\ stack # << >> => WellFormed(Top)
           /\ signal # None => Unwinds(Top, signal)
<1>1. FlowInv /\ NeverTraps /\ StackLinked /\ RaisersCaught /\ PendingCaught
  BY DEF Setting, SignalInv
<1>2. stack # << >> => WellFormed(Top)
  BY <1>1, StackFacts DEF StackLinked
<1>3. stack = << >> => signal = None
  BY <1>1 DEF PendingCaught
<1> QED BY <1>1, <1>2, <1>3 DEF PendingCaught, FlowInv, TypeOK, Signals, None

(***************************************************************************)
(* Each move keeps SignalInv.                                              *)
(***************************************************************************)

\* Who catches what depends on the functions and the roles of the frames only.
LEMMA CaughtKept ==
    ASSUME NEW n \in Nat,
           \A j \in 1 .. n : stack'[j].fn = stack[j].fn /\ stack'[j].role = stack[j].role
    PROVE  \A m \in 0 .. n : \A h \in 1 .. m : \A sig \in Signals :
             CaughtAt(h, m, sig)' <=> CaughtAt(h, m, sig)
<1> TAKE m \in 0 .. n
<1> TAKE h \in 1 .. m
<1> TAKE sig \in Signals
<1>1. \A k \in h+1 .. m : stack'[k].role = stack[k].role
  OBVIOUS
<1>2. Catches(stack'[h], sig) <=> Catches(stack[h], sig)
  <2>1. stack'[h].fn = stack[h].fn /\ stack'[h].role = stack[h].role
    OBVIOUS
  <2> QED BY <2>1 DEF Catches, Signals
<1> QED BY <1>1, <1>2 DEF CaughtAt

\* A caller that only changes how it runs keeps all the links.
LEMMA BecomeLinks ==
    ASSUME FlowInv, stack # << >>, NEW f \in FrameType, Become(f), SameConstruct(f, Top),
           StackLinked, RaisersCaught
    PROVE  /\ StackLinked' /\ RaisersCaught'
           /\ \A sig \in Signals : Caught(stack, sig) =>
                \E h \in 1 .. Len(stack) : CaughtAt(h, Len(stack), sig)'
<1>1. PICK n \in Nat \ {0} : n = Len(stack)
  BY StackFacts
<1>2. /\ Len(stack') = n /\ stack' # << >> /\ stack[n] = Top
      /\ \A j \in 1 .. n : stack'[j] = IF j = n THEN f ELSE stack[j]
  BY <1>1, BecomeShape, StackFacts
<1>3. \A j \in 1 .. n : SameConstruct(stack'[j], stack[j])
  BY <1>2 DEF SameConstruct
<1>4. \A j \in 1 .. n : WellFormed(stack'[j])
  <2> TAKE j \in 1 .. n
  <2>1. SameConstruct(stack'[j], stack[j]) /\ WellFormed(stack[j])
    BY <1>1, <1>3 DEF StackLinked
  <2> QED BY <2>1 DEF SameConstruct, WellFormed
<1>5. \A k \in 2 .. n : Awaits(stack'[k - 1], stack'[k].role)
  <2> TAKE k \in 2 .. n
  <2>1. stack'[k - 1] = stack[k - 1] /\ stack'[k].role = stack[k].role
    BY <1>2, <1>3 DEF SameConstruct
  <2>2. Awaits(stack[k - 1], stack[k].role)
    BY <1>1 DEF StackLinked
  <2> QED BY <2>1, <2>2
<1>6. stack'[1].role = "operand"
  BY <1>3 DEF StackLinked, SameConstruct
<1>7. StackLinked'
  BY <1>2, <1>4, <1>5, <1>6 DEF StackLinked
<1>8. \A m \in 0 .. n : \A h \in 1 .. m : \A sig \in Signals :
        CaughtAt(h, m, sig)' <=> CaughtAt(h, m, sig)
  BY <1>3, CaughtKept DEF SameConstruct
<1>9. RaisersCaught'
  <2> SUFFICES ASSUME NEW k \in 1 .. n, stack'[k].fn \in {"return", "break"}
               PROVE  \E h \in 1 .. k - 1 : CaughtAt(h, k - 1, stack[k].fn)'
    BY <1>2, <1>3 DEF RaisersCaught, SameConstruct, CaughtAt
  <2>1. stack[k].fn = stack'[k].fn /\ stack[k].fn \in Signals
    BY <1>3 DEF SameConstruct, Signals
  <2>2. PICK h \in 1 .. k - 1 : CaughtAt(h, k - 1, stack[k].fn)
    BY <1>1, <2>1 DEF RaisersCaught
  <2>3. k - 1 \in 0 .. n
    OBVIOUS
  <2> QED BY <1>8, <2>1, <2>2, <2>3
<1>10. \A sig \in Signals : Caught(stack, sig) =>
          \E h \in 1 .. n : CaughtAt(h, n, sig)'
  BY <1>1, <1>8 DEF Caught, CaughtAt
<1> QED BY <1>1, <1>2, <1>7, <1>9, <1>10

\* A callee that fits the point where its caller waits is linked to it.
LEMMA CallLinks ==
    ASSUME FlowInv, stack # << >>, NEW pc \in Points, NEW g \in FrameType, Call(pc, g),
           WellFormed(g), Awaits(At(pc), g.role), StackLinked, RaisersCaught,
           g.fn \in {"return", "break"} => Caught(stack, g.fn)
    PROVE  StackLinked' /\ RaisersCaught'
<1>1. PICK n \in Nat \ {0} : n = Len(stack)
  BY StackFacts
<1>2. /\ Len(stack') = n + 1 /\ stack' # << >> /\ stack[n] = Top /\ stack'[n + 1] = g
      /\ \A j \in 1 .. n : stack'[j] = IF j = n THEN At(pc) ELSE stack[j]
  BY <1>1, CallShape, StackFacts
<1>3. \A j \in 1 .. n : SameConstruct(stack'[j], stack[j])
  <2>1. SameConstruct(At(pc), Top)
    BY StackFacts DEF At, SameConstruct, FrameType
  <2> QED BY <1>2, <2>1 DEF SameConstruct
<1>4. \A j \in 1 .. n + 1 : WellFormed(stack'[j])
  <2>1. \A j \in 1 .. n : WellFormed(stack'[j])
    <3> TAKE j \in 1 .. n
    <3>1. SameConstruct(stack'[j], stack[j]) /\ WellFormed(stack[j])
      BY <1>1, <1>3 DEF StackLinked
    <3> QED BY <3>1 DEF SameConstruct, WellFormed
  <2>2. \A j \in 1 .. n + 1 : j \in 1 .. n \/ j = n + 1
    OBVIOUS
  <2> QED BY <1>2, <2>1, <2>2
<1>5. \A k \in 2 .. n + 1 : Awaits(stack'[k - 1], stack'[k].role)
  <2> TAKE k \in 2 .. n + 1
  <2>1. CASE k = n + 1
    BY <1>2, <2>1
  <2>2. CASE k # n + 1
    <3>1. stack'[k - 1] = stack[k - 1] /\ stack'[k].role = stack[k].role
      BY <1>2, <1>3, <2>2 DEF SameConstruct
    <3>2. Awaits(stack[k - 1], stack[k].role)
      BY <1>1, <2>2 DEF StackLinked
    <3> QED BY <3>1, <3>2
  <2> QED BY <2>1, <2>2
<1>6. stack'[1].role = "operand"
  BY <1>3 DEF StackLinked, SameConstruct
<1>7. StackLinked'
  BY <1>2, <1>4, <1>5, <1>6 DEF StackLinked
<1>8. \A m \in 0 .. n : \A h \in 1 .. m : \A sig \in Signals :
        CaughtAt(h, m, sig)' <=> CaughtAt(h, m, sig)
  BY <1>3, CaughtKept DEF SameConstruct
<1>9. RaisersCaught'
  <2> SUFFICES ASSUME NEW k \in 1 .. n + 1, stack'[k].fn \in {"return", "break"}
               PROVE  \E h \in 1 .. k - 1 : CaughtAt(h, k - 1, stack[k].fn)'
    BY <1>2 DEF RaisersCaught
  <2>1. CASE k = n + 1
    <3>1. PICK h \in 1 .. n : CaughtAt(h, n, g.fn)
      BY <1>1, <1>2, <2>1 DEF Caught, CaughtAt
    <3>2. g.fn \in Signals
      BY <1>2, <2>1 DEF Signals
    <3> QED BY <1>2, <1>8, <2>1, <3>1, <3>2
  <2>2. CASE k # n + 1
    <3>1. stack[k].fn = stack'[k].fn /\ stack[k].fn \in Signals
      BY <1>3, <2>2 DEF SameConstruct, Signals
    <3>2. PICK h \in 1 .. k - 1 : CaughtAt(h, k - 1, stack[k].fn)
      BY <1>1, <2>2, <3>1 DEF RaisersCaught
    <3>3. k - 1 \in 0 .. n
      OBVIOUS
    <3> QED BY <1>8, <3>1, <3>2, <3>3
  <2> QED BY <2>1, <2>2
<1> QED BY <1>7, <1>9

\* A return leaves the links below it alone, and takes the top frame out of
\* the way of a signal that it does not catch itself.
LEMMA ReturnLinks ==
    ASSUME FlowInv, stack # << >>, Return, StackLinked, RaisersCaught
    PROVE  /\ StackLinked' /\ RaisersCaught'
           /\ stack' # << >> => Awaits(Top', Top.role)
           /\ \A sig \in {"return", "break"} : Top.fn = sig =>
                stack' # << >> /\ \E h \in 1 .. Len(stack') : CaughtAt(h, Len(stack), sig)'
           /\ \A sig \in Signals :
                /\ \E h \in 1 .. Len(stack) : CaughtAt(h, Len(stack), sig)
                /\ ~Catches(Top, sig)
                => stack' # << >> /\ \E h \in 1 .. Len(stack') : CaughtAt(h, Len(stack), sig)'
<1>1. PICK n \in Nat \ {0} : n = Len(stack)
  BY StackFacts
<1>2. PICK m \in Nat : m = n - 1 /\ n = m + 1
  BY <1>1
<1>3. /\ Len(stack') = m /\ stack[n] = Top
      /\ \A j \in 1 .. m : stack'[j] = stack[j]
      /\ stack' # << >> => m # 0 /\ Top' = stack[m]
  BY <1>1, <1>2, ReturnShape, StackFacts, EmptySeq
<1>4. StackLinked'
  BY <1>1, <1>2, <1>3 DEF StackLinked
<1>5. \A k \in 0 .. m : \A h \in 1 .. k : \A sig \in Signals :
        CaughtAt(h, k, sig)' <=> CaughtAt(h, k, sig)
  BY <1>3, CaughtKept
<1>6. RaisersCaught'
  <2> SUFFICES ASSUME NEW k \in 1 .. m, stack[k].fn \in {"return", "break"}
               PROVE  \E h \in 1 .. k - 1 : CaughtAt(h, k - 1, stack[k].fn)'
    BY <1>3 DEF RaisersCaught
  <2>1. PICK h \in 1 .. k - 1 : CaughtAt(h, k - 1, stack[k].fn)
    BY <1>1, <1>2 DEF RaisersCaught
  <2>2. k - 1 \in 0 .. m /\ stack'[k].fn = stack[k].fn /\ stack[k].fn \in Signals
    BY <1>3 DEF Signals
  <2> QED BY <1>5, <2>1, <2>2
<1>7. ASSUME stack' # << >> PROVE Awaits(Top', Top.role)
  <2>1. Awaits(stack[n - 1], stack[n].role)
    BY <1>1, <1>2, <1>3, <1>7 DEF StackLinked
  <2> QED BY <1>2, <1>3, <1>7, <2>1
<1>8. ASSUME NEW sig \in {"return", "break"}, Top.fn = sig
      PROVE  stack' # << >> /\ \E h \in 1 .. m : CaughtAt(h, m, sig)'
  <2>1. PICK h \in 1 .. m : CaughtAt(h, m, sig)
    BY <1>1, <1>2, <1>3, <1>8 DEF RaisersCaught
  <2>2. CaughtAt(h, m, sig)'
    BY <1>5, <2>1 DEF Signals
  <2>3. stack' # << >>
    BY <1>3, <2>1
  <2> QED BY <2>2, <2>3
<1>9. ASSUME NEW sig \in Signals, NEW h \in 1 .. n, CaughtAt(h, n, sig), ~Catches(Top, sig)
      PROVE  stack' # << >> /\ CaughtAt(h, m, sig)' /\ h \in 1 .. m
  <2>1. h # n /\ h \in 1 .. m
    BY <1>2, <1>3, <1>9 DEF CaughtAt
  <2>2. CaughtAt(h, m, sig)
    BY <1>2, <1>9, <2>1 DEF CaughtAt
  <2>3. CaughtAt(h, m, sig)'
    BY <1>5, <2>1, <2>2
  <2>4. stack' # << >>
    BY <1>3, <2>1
  <2> QED BY <2>1, <2>3, <2>4
<1> QED BY <1>1, <1>3, <1>4, <1>6, <1>7, <1>8, <1>9

LEMMA MoveKeepsSignalInv ==
    ASSUME Setting, Move
    PROVE  SignalInv'
<1>1. /\ FlowInv /\ NeverTraps' /\ StackLinked /\ RaisersCaught /\ PendingCaught
      /\ None \notin Signals
  BY Known DEF Move, Stops, Trap, NeverTraps
<1> SUFFICES StackLinked' /\ RaisersCaught' /\ PendingCaught'
  BY <1>1 DEF SignalInv
<1>11. CASE Stops
  BY <1>1, <1>11
  DEF Stops, Trap, StackLinked, RaisersCaught, PendingCaught, CaughtAt, Top
<1>2. CASE Starts
  <2>1. /\ Len(stack') = 1 /\ stack'[1] = TopFrame /\ TopFrame.fn = "exec_item"
        /\ TopFrame.role = "operand" /\ signal' = None
    BY <1>1, <1>2, StartShape DEF Starts, Quiet
  <2> QED BY <2>1 DEF StackLinked, RaisersCaught, PendingCaught, WellFormed
<1>3. CASE Runs
  <2>1. StackLinked' /\ RaisersCaught'
    BY <1>1, <1>3, BecomeLinks DEF Runs
  <2> QED BY <1>3, <2>1 DEF Runs, Quiet, PendingCaught
<1>4. CASE Calls
  <2>1. StackLinked' /\ RaisersCaught'
    BY <1>1, <1>4, CallLinks DEF Calls
  <2> QED BY <1>4, <2>1 DEF Calls, Quiet, PendingCaught
<1>5. CASE Leaves
  <2>1. StackLinked' /\ RaisersCaught'
    BY <1>1, <1>5, ReturnLinks DEF Leaves
  <2> QED BY <1>5, <2>1 DEF Leaves, Quiet, PendingCaught
<1>6. CASE Raises
  <2>1. /\ At("signal") \in FrameType /\ Become(At("signal")) /\ SameConstruct(At("signal"), Top)
        /\ At("signal").fn = "block" /\ At("signal").pc = "signal" /\ stack # << >>
    BY <1>1, <1>6, GotoShape DEF Raises, Points
  <2>2. StackLinked' /\ RaisersCaught'
    BY <1>1, <2>1, BecomeLinks
  <2>3. Top' = At("signal")
    BY <1>1, <2>1, BecomeShape
  <2>4. Unwinds(Top, signal)'
    BY <2>1, <2>3 DEF Unwinds
  <2>5. PICK sig \in Signals : signal' = sig /\ Caught(stack, sig)
    BY <1>6 DEF Raises
  <2>6. PICK h \in 1 .. Len(stack) : CaughtAt(h, Len(stack), sig)'
    BY <1>1, <2>1, <2>5, BecomeLinks
  <2>7. Len(stack') = Len(stack)
    BY <1>1, <2>1, BecomeShape
  <2> QED BY <2>2, <2>4, <2>5, <2>6, <2>7 DEF PendingCaught
<1>7. CASE LeavesRaising
  <2>1. PICK sig \in {"return", "break"} : signal' = sig /\ Top.fn = sig
    BY <1>7 DEF LeavesRaising
  <2>2. Return /\ stack # << >> /\ StackLinked' /\ RaisersCaught'
    BY <1>1, <1>7, ReturnLinks DEF LeavesRaising
  <2>3. /\ stack' # << >> /\ Awaits(Top', Top.role)
        /\ \E h \in 1 .. Len(stack') : CaughtAt(h, Len(stack), sig)'
    BY <1>1, <2>1, <2>2, ReturnLinks
  <2>4. Top.role = "statement"
    BY <1>7, <2>1, Known DEF WellFormed, LeavesRaising
  <2>5. Unwinds(Top', sig)
    BY <2>3, <2>4 DEF Awaits, Unwinds
  <2> QED BY <2>1, <2>2, <2>3, <2>5 DEF PendingCaught
<1>8. CASE Passes
  <2>1. PICK pc \in Points : Goto(pc) /\ Unwinds(At(pc), signal)
    BY <1>8 DEF Passes
  <2>2. PICK sig \in Signals : signal = sig /\ signal' = sig
    BY <1>8, Known DEF Passes
  <2>3. /\ At(pc) \in FrameType /\ Become(At(pc)) /\ SameConstruct(At(pc), Top) /\ stack # << >>
    BY <1>1, <1>8, <2>1, GotoShape DEF Passes
  <2>4. StackLinked' /\ RaisersCaught'
    BY <1>1, <2>3, BecomeLinks
  <2>5. Top' = At(pc) /\ Len(stack') = Len(stack)
    BY <1>1, <2>3, BecomeShape
  <2>6. Caught(stack, sig)
    BY <1>1, <1>8, <2>2 DEF PendingCaught, Caught, CaughtAt, Passes
  <2>7. PICK h \in 1 .. Len(stack) : CaughtAt(h, Len(stack), sig)'
    BY <1>1, <2>2, <2>3, <2>6, BecomeLinks
  <2> QED BY <2>1, <2>2, <2>4, <2>5, <2>7 DEF PendingCaught
<1>9. CASE LeavesPassing
  <2>1. PICK sig \in Signals : signal = sig /\ signal' = sig /\ sig # None
    BY <1>1, <1>9, Known DEF LeavesPassing
  <2>2. /\ Return /\ stack # << >> /\ ~Catches(Top, sig) /\ Unwinds(Top, sig)
        /\ Top.role = "loopbody" => sig # "continue"
    BY <1>9, <2>1, Known DEF LeavesPassing
  <2>3. \E h \in 1 .. Len(stack) : CaughtAt(h, Len(stack), sig)
    BY <1>1, <2>1 DEF PendingCaught
  <2>4. /\ StackLinked' /\ RaisersCaught' /\ stack' # << >> /\ Awaits(Top', Top.role)
        /\ \E h \in 1 .. Len(stack') : CaughtAt(h, Len(stack), sig)'
    BY <1>1, <2>2, <2>3, ReturnLinks
  <2>5. Top.role \in {"statement", "branch", "loopbody"}
    <3>1. Top.role \notin {"operand", "body"}
      <4>1. PICK h \in 1 .. Len(stack) : CaughtAt(h, Len(stack), sig)
        BY <2>3
      <4>2. Len(stack) \in h + 1 .. Len(stack)
        BY <1>1, <2>2, <4>1, StackFacts DEF CaughtAt
      <4> QED BY <1>1, <2>2, <4>1, <4>2, StackFacts DEF CaughtAt
    <3>2. Top.role # "boxed"
      BY <2>2, Known DEF WellFormed, Unwinds, Loops
    <3>3. Top.role \in Roles
      BY <1>1, <2>2, StackFacts DEF FrameType
    <3> QED BY <3>1, <3>2, <3>3 DEF Roles
  <2>6. Unwinds(Top', sig)
    BY <2>2, <2>4, <2>5 DEF Awaits, Unwinds
  <2> QED BY <2>1, <2>4, <2>6 DEF PendingCaught
<1>10. CASE Takes
  <2>1. /\ At("exit") \in FrameType /\ Become(At("exit")) /\ SameConstruct(At("exit"), Top)
        /\ stack # << >>
    BY <1>1, <1>10, GotoShape DEF Takes, Points
  <2>2. StackLinked' /\ RaisersCaught'
    BY <1>1, <2>1, BecomeLinks
  <2> QED BY <1>10, <2>2 DEF PendingCaught, Takes
<1> QED BY <1>2, <1>3, <1>4, <1>5, <1>6, <1>7, <1>8, <1>9, <1>10, <1>11 DEF Move

(***************************************************************************)
(* The building blocks of the handlers are moves.  Where no function waits *)
(* for a signal, none is pending.                                          *)
(***************************************************************************)
Waits(f) ==
    \/ f.fn = "block" /\ f.pc \in {"signal", "exit"}
    \/ f.fn = "if" /\ f.pc = "done"
    \/ f.fn \in Loops /\ f.pc \in {"after", "exit"}

LEMMA NoSignal ==
    ASSUME Setting, stack # << >>, ~Waits(Top)
    PROVE  signal = None /\ ~Finished(Top)
<1>1. signal # None => Unwinds(Top, signal)
  BY Known
<1> QED BY <1>1 DEF Waits, Unwinds, Finished, Scoped

LEMMA RunMove ==
    ASSUME Setting, stack # << >>, signal = None, ~Finished(Top), signal' = signal,
           trapped' = trapped, NEW f \in FrameType, Become(f), SameConstruct(f, Top)
    PROVE  Move
  BY DEF Move, Runs, Quiet

LEMMA GotoMove ==
    ASSUME Setting, stack # << >>, signal = None, ~Finished(Top), signal' = signal,
           trapped' = trapped, NEW pc \in Points, Goto(pc)
    PROVE  Move
<1>1. FlowInv
  BY DEF Setting
<1> QED BY <1>1, GotoShape, RunMove

LEMMA CallMove ==
    ASSUME Setting, stack # << >>, signal = None, ~Finished(Top), UNCHANGED registers,
           NEW pc \in Points, NEW g, Call(pc, g), Fresh(g), Awaits(At(pc), g.role),
           ~Finished(At(pc)), WellFormed(g), ~Finished(g),
           g.fn \in {"return", "break"} => Caught(stack, g.fn)
    PROVE  Move
<1>1. g \in FrameType /\ Quiet /\ trapped' = trapped
  BY DEF Fresh, Quiet, registers
<1>2. Calls
  BY <1>1 DEF Calls
<1> QED BY <1>1, <1>2 DEF Move

LEMMA ReturnMove ==
    ASSUME Setting, stack # << >>, signal = None, signal' = signal, trapped' = trapped,
           Return, Scoped(Top) => Finished(Top)
    PROVE  Move
  BY DEF Move, Leaves, Quiet

\* Without an error nothing fails.
LEMMA NoFailure == Setting => ~Fail /\ ~InterpreterError
  BY DEF Setting, Fail, InterpreterError

\* A scope of one's own is not the global one.
LEMMA OwnScope ==
    ASSUME Setting, stack # << >>, InOwnScope(Top)
    PROVE  current \notin {Global, Unknown}
<1>1. FlowInv /\ ~error
  BY DEF Setting
<1>2. /\ current = Child(Top.entry, Level) /\ Top.entry \in Chain /\ Level \in Nat
      /\ Top.entry # Unknown /\ current # Unknown
  BY <1>1, RunningTop DEF ChainIn, FrameType
<1>3. Top.entry \in Seq(Nat) /\ Len(Top.entry) \in Nat \ {0}
  BY <1>2, EmptySeq DEF Chain, Unknown
<1>4. Len(current) = Len(Top.entry) + 1
  BY <1>2, <1>3, AppendProperties DEF Child
<1>5. Len(Global) = 1
  BY DEF Global
<1>6. Len(current) # 1
  <2>1. \A k \in Nat \ {0} : k + 1 # 1
    OBVIOUS
  <2> QED BY <1>3, <1>4, <2>1
<1> QED BY <1>2, <1>5, <1>6

LEMMA PopMove ==
    ASSUME Setting, stack # << >>, signal = None, InOwnScope(Top),
           \/ PopScope(Return) /\ (Scoped(Top) => Finished(Top))
           \/ ~Finished(Top) /\ \E pc \in Points : PopScope(Goto(pc))
    PROVE  Move
<1>1. current \notin {Global, Unknown}
  BY OwnScope
<1>2. CASE PopScope(Return) /\ (Scoped(Top) => Finished(Top))
  <2>1. Return /\ signal' = signal /\ trapped' = trapped
    BY <1>1, <1>2 DEF PopScope
  <2> QED BY <1>2, <2>1, ReturnMove
<1>3. ASSUME ~Finished(Top), NEW pc \in Points, PopScope(Goto(pc)) PROVE Move
  <2>1. Goto(pc) /\ signal' = signal /\ trapped' = trapped
    BY <1>1, <1>3 DEF PopScope
  <2> QED BY <1>3, <2>1, GotoMove
<1> QED BY <1>2, <1>3

LEMMA PushMove ==
    ASSUME Setting, stack # << >>, signal = None, ~Finished(Top), NEW pc \in Points,
           PushScope(pc)
    PROVE  Move
  BY GotoMove DEF PushScope

\* What a child looks like when it is called.
LEMMA ChildFits ==
    ASSUME FlowInv, stack # << >>, NEW fn \in Functions \ {"exec_item"},
           fn \in {"return", "break"} => Top.fn = "block"
    PROVE  /\ Fresh(ChildFrame(fn, RoleOfChild)) /\ WellFormed(ChildFrame(fn, RoleOfChild))
           /\ ChildFrame(fn, RoleOfChild).fn = fn
           /\ ChildFrame(fn, RoleOfChild).role = RoleOfChild
           /\ ~Finished(ChildFrame(fn, RoleOfChild))
<1>1. RoleOfChild \in {"statement", "operand"} /\ (Top.fn = "block" => RoleOfChild = "statement")
  BY DEF RoleOfChild
<1>2. Fresh(ChildFrame(fn, RoleOfChild))
  BY <1>1, ChildIsFresh DEF Roles
<1>3. CASE fn = "block"
  <2>1. ChildFrame(fn, RoleOfChild) =
          Frame("block", "start", RoleOfChild, {"break"}, {"return", "continue"})
    BY <1>3 DEF ChildFrame, BlockExpr
  <2> QED BY <1>1, <1>2, <1>3, <2>1 DEF Frame, WellFormed, Finished
<1>4. CASE fn # "block"
  <2>1. ChildFrame(fn, RoleOfChild) = Frame(fn, StartOf(fn), RoleOfChild, {}, {})
    BY <1>4 DEF ChildFrame
  <2>2. StartOf(fn) # "exit"
    BY DEF StartOf
  <2> QED BY <1>1, <1>2, <1>4, <2>1, <2>2 DEF Frame, WellFormed, Finished
<1> QED BY <1>3, <1>4

\* The caller of a child evaluates it at a point that waits for it.
LEMMA CallerWaits ==
    ASSUME FlowInv, stack # << >>, NEW pc \in Points, pc # "exit",
           Top.fn = "block" => pc = "signal"
    PROVE  Awaits(At(pc), RoleOfChild) /\ ~Finished(At(pc))
<1>1. At(pc).fn = Top.fn /\ At(pc).pc = pc
  BY AtFields
<1> QED BY <1>1 DEF Awaits, RoleOfChild, Finished

LEMMA EvalMove ==
    ASSUME Setting, stack # << >>, signal = None, ~Finished(Top), NEW pc \in Points,
           pc # "exit", Top.fn = "block" => pc = "signal", EvalExpr(pc)
    PROVE  Move
<1>1. FlowInv /\ ~InterpreterError
  BY NoFailure DEF Setting
<1>2. CASE Proceed(pc)
  BY <1>2, GotoMove DEF registers
<1>3. ASSUME NEW fn \in Expressions, Call(pc, ChildFrame(fn, RoleOfChild)),
             UNCHANGED registers
      PROVE  Move
  <2>1. fn \in Functions \ {"exec_item"} /\ fn \notin {"return", "break"}
    BY <1>3 DEF Functions, Expressions, Loops, Members, Operators
  <2> QED BY <1>1, <1>3, <2>1, ChildFits, CallerWaits, CallMove
<1>4. CASE Trap("value")
  BY <1>4 DEF Move, Stops
<1> QED BY <1>1, <1>2, <1>3, <1>4 DEF EvalExpr, Unlisted, ShouldNotReach

LEMMA ItemMove ==
    ASSUME Setting, stack # << >>, signal = None, ~Finished(Top), NEW pc \in Points,
           pc # "exit", Top.fn = "block" => Top.pc = "items" /\ pc = "signal", ExecItem(pc)
    PROVE  Move
<1>1. FlowInv /\ Structured
  BY DEF Setting
<1>2. \A sig : MayRaise(stack, sig) => Top.fn = "block" /\ Caught(stack, sig)
  BY <1>1 DEF MayRaise, Top
<1>3. ASSUME NEW fn \in {"var", "print", "return", "break", "extend"},
             fn \in Signals => MayRaise(stack, fn),
             Call(pc, ChildFrame(fn, RoleOfChild)), UNCHANGED registers
      PROVE  Move
  <2>1. /\ fn \in Functions \ {"exec_item"}
        /\ fn \in {"return", "break"} => Top.fn = "block" /\ Caught(stack, fn)
    BY <1>2, <1>3 DEF Functions, Signals
  <2> QED BY <1>1, <1>3, <2>1, ChildFits, CallerWaits, CallMove
<1>4. ASSUME NEW sig \in Signals, MayRaise(stack, sig), signal' = sig, Goto(pc),
             trapped' = trapped
      PROVE  Move
  BY <1>2, <1>4 DEF Move, Raises
<1> QED BY <1>3, <1>4, EvalMove DEF ExecItem

(***************************************************************************)
(* Every handler is a move.                                                *)
(***************************************************************************)

\* A block takes or passes every signal that can reach it: a function's body
\* sees only a return, since the program raises nothing its body cannot catch.
LEMMA BlockMasks ==
    ASSUME Setting, stack # << >>, Top.fn = "block", signal # None
    PROVE  /\ signal \in Top.capture \cup Top.pass
           /\ signal \in Top.capture => Catches(Top, signal)
           /\ signal \in Top.pass => ~Catches(Top, signal)
           /\ signal \in Top.pass /\ Top.role = "loopbody" => signal # "continue"
<1>1. /\ FlowInv /\ WellFormed(Top) /\ PendingCaught /\ signal \in Signals
      /\ Top.role \in Roles
  BY Known, StackFacts DEF FrameType
<1>2. CASE Top.role = "body"
  <2>1. PICK h \in 1 .. Len(stack) : CaughtAt(h, Len(stack), signal)
    BY <1>1 DEF PendingCaught
  <2>2. Catches(Top, signal)
    <3>1. h \notin 1 .. Len(stack) - 1
      <4> SUFFICES ASSUME h \in 1 .. Len(stack) - 1 PROVE FALSE
        OBVIOUS
      <4>1. Len(stack) \in h + 1 .. Len(stack) /\ stack[Len(stack)] = Top
        BY <1>1, StackFacts
      <4> QED BY <1>2, <2>1, <4>1 DEF CaughtAt
    <3>2. h = Len(stack) /\ stack[Len(stack)] = Top
      BY <1>1, <3>1, StackFacts
    <3> QED BY <2>1, <3>2 DEF CaughtAt
  <2>3. signal = "return"
    BY <1>1, <1>2, <2>2 DEF Catches, Signals, Loops
  <2> QED BY <1>1, <1>2, <2>2, <2>3 DEF WellFormed
<1>3. CASE Top.role = "loopbody"
  BY <1>1, <1>3 DEF WellFormed, Catches, Signals, Loops
<1>4. CASE Top.role = "branch"
  BY <1>1, <1>4 DEF WellFormed, Catches, Signals, Loops
<1>5. CASE Top.role \in {"statement", "operand"}
  BY <1>1, <1>5 DEF WellFormed, Catches, Signals, Loops
<1>6. Top.role # "boxed"
  BY <1>1 DEF WellFormed
<1> QED BY <1>1, <1>2, <1>3, <1>4, <1>5, <1>6 DEF Roles

LEMMA BlockSignalMove ==
    ASSUME Setting, BlockSignal
    PROVE  Move
<1>1. /\ stack # << >> /\ Top.fn = "block" /\ Top.pc = "signal" /\ ~Finished(Top)
      /\ FlowInv /\ {"items", "exit"} \subseteq Points
  BY DEF BlockSignal, Running, Finished, Points, Setting
<1>2. CASE signal = None /\ Proceed("items")
  BY <1>1, <1>2, GotoMove DEF registers
<1>3. CASE signal \in Top.capture /\ signal' = None /\ Goto("exit") /\ trapped' = trapped
  <2>1. signal # None
    BY <1>1, <1>3, StackFacts, Known DEF FrameType
  <2> QED BY <1>1, <1>3, <2>1, BlockMasks DEF Move, Takes, Scoped
<1>4. CASE signal \in Top.pass /\ Proceed("exit")
  <2>1. signal # None
    BY <1>1, <1>4, StackFacts, Known DEF FrameType
  <2>2. At("exit").fn = "block" /\ At("exit").pc = "exit" /\ At("exit").pass = Top.pass
    BY <1>1, GotoShape DEF SameConstruct
  <2> QED BY <1>1, <1>4, <2>1, <2>2 DEF Move, Passes, Unwinds, registers
<1>5. CASE signal \notin Top.capture \cup Top.pass \cup {None}
  BY <1>1, <1>5, BlockMasks
<1> QED BY <1>2, <1>3, <1>4, <1>5 DEF BlockSignal

LEMMA BlockMove ==
    ASSUME Setting, ExecuteBlockExpr
    PROVE  Move
<1>1. stack # << >> \/ BlockSignal
  BY DEF ExecuteBlockExpr, Running
<1>2. CASE BlockSignal
  BY <1>2, BlockSignalMove
<1>3. {"items", "signal", "exit"} \subseteq Points
  BY DEF Points
<1>4. ASSUME stack # << >>, Top.fn = "block", Top.pc = "start", PushScope("items")
      PROVE  Move
  BY <1>3, <1>4, NoSignal, PushMove DEF Waits, Loops
<1>5. ASSUME stack # << >>, Top.fn = "block", Top.pc = "items",
             ExecItem("signal") \/ Proceed("exit")
      PROVE  Move
  <2>1. signal = None /\ ~Finished(Top)
    BY <1>5, NoSignal DEF Waits, Loops
  <2> QED BY <1>3, <1>5, <2>1, ItemMove, GotoMove DEF registers
<1>6. ASSUME stack # << >>, Top.fn = "block", Top.pc = "exit", PopScope(Return)
      PROVE  Move
  <2>1. InOwnScope(Top) /\ Finished(Top)
    BY <1>6 DEF InOwnScope, Finished, Scoped
  <2>2. CASE signal = None
    BY <1>6, <2>1, <2>2, PopMove
  <2>3. CASE signal # None
    <3>1. Return /\ signal' = signal /\ trapped' = trapped
      BY <1>6, <2>1, OwnScope DEF PopScope
    <3>2. signal \in Top.pass
      BY <1>6, <2>3, Known DEF Unwinds, Loops
    <3> QED BY <1>6, <2>3, <3>1, <3>2, BlockMasks DEF Move, LeavesPassing
  <2> QED BY <2>2, <2>3
<1> QED BY <1>1, <1>2, <1>4, <1>5, <1>6 DEF ExecuteBlockExpr, Running

\* An `if` returns to its caller with whatever its branch left pending.
LEMMA IfMove ==
    ASSUME Setting, ExecuteIfExpr
    PROVE  Move
<1>1. /\ stack # << >> /\ Top.fn = "if" /\ FlowInv /\ ~Scoped(Top) /\ ~Finished(Top)
      /\ {"start", "branch", "done"} \subseteq Points /\ "branch" \in Roles
  BY DEF ExecuteIfExpr, Running, Setting, Scoped, Finished, Loops, Points, Roles
<1>2. ASSUME Top.pc = "start", EvalExpr("branch") PROVE Move
  <2>1. signal = None
    BY <1>1, <1>2, NoSignal DEF Waits, Loops
  <2> QED BY <1>1, <1>2, <2>1, EvalMove
<1>3. ASSUME Top.pc = "branch", UNCHANGED registers,
             NEW g \in {Branch, Frame("if", "start", "branch", {}, {})}, Call("done", g)
      PROVE  Move
  <2>1. signal = None
    BY <1>1, <1>3, NoSignal DEF Waits, Loops
  <2>2. Fresh(g)
    BY <1>1, <1>3, ChildIsFresh
  <2>3. g.fn \in {"if", "block"} /\ g.role = "branch" /\ g.pc = "start" /\ WellFormed(g)
    BY DEF Branch, Frame, WellFormed
  <2>4. At("done").fn = "if" /\ At("done").pc = "done"
    BY <1>1, AtFields
  <2>5. Awaits(At("done"), g.role) /\ ~Finished(At("done")) /\ ~Finished(g)
    BY <2>3, <2>4 DEF Awaits, Finished
  <2> QED BY <1>1, <1>3, <2>1, <2>2, <2>3, <2>5, CallMove
<1>4. ASSUME Top.pc = "branch", Goto("done"), UNCHANGED registers PROVE Move
  <2>1. signal = None
    BY <1>1, <1>4, NoSignal DEF Waits, Loops
  <2> QED BY <1>1, <1>4, <2>1, GotoMove DEF registers
<1>5. ASSUME Top.pc = "done", Done PROVE Move
  <2>1. CASE signal = None
    BY <1>1, <1>5, <2>1, ReturnMove DEF registers
  <2>2. CASE signal # None
    <3>1. ~Catches(Top, signal) /\ Top.role # "loopbody"
      BY <1>1, <2>2, Known DEF WellFormed, Catches, Signals, Loops
    <3> QED BY <1>1, <1>5, <2>2, <3>1 DEF Move, LeavesPassing, registers
  <2> QED BY <2>1, <2>2
<1> QED BY <1>2, <1>3, <1>4, <1>5 DEF ExecuteIfExpr, Running

\* A loop takes a break after its body, and passes a return.
LEMMA LoopMove ==
    ASSUME Setting, LoopTest \/ LoopBody \/ LoopSwitch
    PROVE  Move
<1>1. /\ stack # << >> /\ Top.fn \in Loops /\ Top.pc \in {"test", "body", "after"} /\ FlowInv
      /\ ~Finished(Top) /\ Scoped(Top) /\ "loopbody" \in Roles
      /\ {"exit", "body", "after", "update", "cond"} \subseteq Points
  BY DEF LoopTest, LoopBody, LoopSwitch, Running, Setting, Finished, Scoped, Points, Roles
<1>2. Top.fn \notin {"block", "if"}
  BY <1>1 DEF Loops
<1>3. CASE LoopTest
  <2>1. Top.pc = "test" /\ (Goto("body") \/ Goto("exit")) /\ UNCHANGED registers
    BY <1>3 DEF LoopTest, Running
  <2>2. signal = None
    BY <1>1, <1>2, <2>1, NoSignal DEF Waits
  <2> QED BY <1>1, <2>1, <2>2, GotoMove DEF registers
<1>4. CASE LoopBody
  <2>1. Top.pc = "body" /\ Call("after", LoopBlock) /\ UNCHANGED registers
    BY <1>4 DEF LoopBody, Running
  <2>2. signal = None
    BY <1>1, <1>2, <2>1, NoSignal DEF Waits
  <2>3. Fresh(LoopBlock)
    BY <1>1, ChildIsFresh
  <2>4. /\ LoopBlock.fn = "block" /\ LoopBlock.role = "loopbody" /\ LoopBlock.pc = "start"
        /\ WellFormed(LoopBlock)
    BY DEF LoopBlock, Frame, WellFormed
  <2>5. At("after").fn \in Loops /\ At("after").pc = "after"
    BY <1>1, AtFields
  <2>6. Awaits(At("after"), LoopBlock.role) /\ ~Finished(At("after")) /\ ~Finished(LoopBlock)
    BY <2>4, <2>5 DEF Awaits, Finished
  <2> QED BY <1>1, <2>1, <2>2, <2>3, <2>4, <2>6, CallMove
<1>5. ASSUME LoopSwitch PROVE Move
  <2>1. Top.pc = "after" /\ (signal # None => signal # "continue")
    BY <1>1, <1>2, <1>5, Known DEF LoopSwitch, Running, Unwinds
  <2>2. CASE signal = "return" /\ Proceed("exit")
    <3>1. At("exit").fn \in Loops /\ At("exit").pc = "exit"
      BY <1>1, AtFields
    <3>2. signal # None
      BY <2>2 DEF None
    <3> QED BY <1>1, <2>2, <3>1, <3>2 DEF Move, Passes, Unwinds, registers
  <2>3. CASE signal = "break" /\ signal' = None /\ Goto("exit") /\ trapped' = trapped
    <3>1. Catches(Top, signal) /\ signal # None
      BY <1>1, <2>3 DEF Catches, None
    <3> QED BY <1>1, <2>3, <3>1 DEF Move, Takes
  <2>4. CASE signal = None /\ NextIteration
    BY <1>1, <2>4, GotoMove DEF NextIteration, registers
  <2>5. signal # "continue"
    BY <2>1 DEF None
  <2> QED BY <1>5, <2>2, <2>3, <2>4, <2>5 DEF LoopSwitch
<1> QED BY <1>3, <1>4, <1>5

\* What a loop leaves pending when it returns is not for it to take.
LEMMA LoopLeaves ==
    ASSUME Setting, stack # << >>, Top.fn \in Loops, Top.pc = "exit", Return,
           signal' = signal, trapped' = trapped
    PROVE  Move
<1>1. Top.fn \notin {"block", "if"}
  BY DEF Loops
<1>2. CASE signal = None
  BY <1>2, ReturnMove DEF Finished, Scoped
<1>3. CASE signal # None
  <2>1. signal = "return"
    BY <1>1, <1>3, Known DEF Unwinds
  <2>2. Top.role \notin {"body", "loopbody"}
    BY <1>1, Known DEF WellFormed
  <2>3. ~Catches(Top, signal)
    BY <2>1, <2>2 DEF Catches
  <2> QED BY <1>3, <2>2, <2>3 DEF Move, LeavesPassing
<1> QED BY <1>2, <1>3

LEMMA WhileMove ==
    ASSUME Setting, ExecuteWhileExpr
    PROVE  Move
<1>1. stack # << >> /\ Top.fn \in Loops /\ Top.fn \notin {"block", "if"} /\ "test" \in Points
  BY DEF ExecuteWhileExpr, Running, Loops, Points
<1>2. ASSUME Top.pc = "cond", EvalExpr("test") PROVE Move
  <2>1. signal = None /\ ~Finished(Top)
    BY <1>1, <1>2, NoSignal DEF Waits
  <2> QED BY <1>1, <1>2, <2>1, EvalMove
<1> QED BY <1>1, <1>2, LoopLeaves DEF ExecuteWhileExpr, Running, registers

LEMMA ForMove ==
    ASSUME Setting, ExecuteForExpr
    PROVE  Move
<1>1. /\ stack # << >> /\ Top.fn = "for" /\ "for" \in Loops
      /\ {"init", "initcheck", "cond", "test", "body"} \subseteq Points
  BY DEF ExecuteForExpr, Running, Loops, Points
<1>2. Top.pc \notin {"after", "exit"} => signal = None /\ ~Finished(Top)
  BY <1>1, NoSignal DEF Waits
<1>3. ASSUME Top.pc = "start", PushScope("init") PROVE Move
  BY <1>1, <1>2, <1>3, PushMove
<1>4. ASSUME Top.pc \in {"init", "initcheck", "cond", "update"},
             NEW pc \in {"initcheck", "cond", "test", "body"},
             ExecItem(pc) \/ EvalExpr(pc) \/ Proceed(pc)
      PROVE  Move
  BY <1>1, <1>2, <1>4, ItemMove, EvalMove, GotoMove DEF registers
<1>5. ASSUME Top.pc = "exit", PopScope(Return) PROVE Move
  <2>1. InOwnScope(Top)
    BY <1>1, <1>5 DEF InOwnScope
  <2>2. Return /\ signal' = signal /\ trapped' = trapped
    BY <1>1, <1>5, <2>1, OwnScope DEF PopScope
  <2> QED BY <1>1, <1>5, <2>2, LoopLeaves
<1> QED BY <1>1, <1>3, <1>4, <1>5, NoFailure DEF ExecuteForExpr, Running, Check

\* The functions that never wait for a signal evaluate, enter and return.
LEMMA SimpleMove ==
    ASSUME Setting, stack # << >>, Top.fn \notin {"block", "if"} \cup Loops,
           \/ \E pc \in Points \ {"exit"} : EvalExpr(pc) \/ ExecItem(pc)
           \/ \E pc \in Points : Proceed(pc)
           \/ Return /\ signal' = signal /\ trapped' = trapped
           \/ \E f \in FrameType : /\ Become(f) /\ SameConstruct(f, Top)
                                   /\ signal' = signal /\ trapped' = trapped
    PROVE  Move
<1>1. signal = None /\ ~Finished(Top) /\ ~Scoped(Top)
  BY NoSignal DEF Waits, Scoped
<1> QED BY <1>1, EvalMove, ItemMove, GotoMove, ReturnMove, RunMove DEF registers

LEMMA MembersMove ==
    ASSUME Setting, NEW fn \in Members, FillScope(fn)
    PROVE  Move
<1>1. /\ stack # << >> /\ Top.fn = fn /\ fn \notin {"block", "if"} \cup Loops
      /\ "named" \in Points
  BY DEF FillScope, Running, Members, Loops, Points
<1>2. ASSUME Top.pc = "members", PopScope(Goto("named")) PROVE Move
  <2>1. InOwnScope(Top) /\ signal = None /\ ~Finished(Top)
    BY <1>1, <1>2, NoSignal DEF InOwnScope, Waits
  <2> QED BY <1>1, <1>2, <2>1, PopMove
<1>3. CASE Done
  BY <1>1, <1>3, SimpleMove DEF registers
<1> QED BY <1>1, <1>2, <1>3, NoFailure DEF FillScope, CheckValue, Running

LEMMA DeclarationMove ==
    ASSUME Setting, ExecuteTypeDeclaration \/ ExecuteFnExpr \/ ExecuteInstCreation
    PROVE  Move
<1>1. {"type", "fn", "inst"} \subseteq Members /\ {"members", "check"} \subseteq Points \ {"exit"}
  BY DEF Members, Points
<1>2. ASSUME NEW fn \in {"type", "fn", "inst"}, Running({fn}, "start"), PushScope("members")
      PROVE  Move
  <2>1. stack # << >> /\ ~Waits(Top)
    BY <1>2 DEF Running, Waits, Loops
  <2> QED BY <1>1, <1>2, <2>1, NoSignal, PushMove
<1>3. ASSUME NEW fn \in {"type", "fn", "inst"}, NEW at, Running({fn}, at),
             NEW pc \in {"members", "check"}, ExecItem(pc) \/ EvalExpr(pc) \/ Proceed(pc)
      PROVE  Move
  <2>1. stack # << >> /\ Top.fn \notin {"block", "if"} \cup Loops
    BY <1>3 DEF Running, Loops
  <2>2. pc \in Points \ {"exit"} /\ pc \in Points
    BY <1>1
  <2> QED BY <1>3, <2>1, <2>2, SimpleMove
<1>4. CASE ExecuteTypeDeclaration
  BY <1>1, <1>2, <1>3, <1>4, MembersMove, NoFailure DEF ExecuteTypeDeclaration, Check
<1>5. CASE ExecuteFnExpr
  BY <1>1, <1>2, <1>3, <1>5, MembersMove, NoFailure DEF ExecuteFnExpr, CheckValue
<1>6. CASE ExecuteInstCreation
  BY <1>1, <1>2, <1>3, <1>6, MembersMove, NoFailure DEF ExecuteInstCreation, CheckValue
<1> QED BY <1>4, <1>5, <1>6

\* A call that enters its parameter scope, or its closure, is the same construct.
LEMMA CallEnterMove ==
    ASSUME Setting, stack # << >>, Top.fn = "call",
           CallEnter \/ (Top.pc = "args" /\ CallBody)
    PROVE  Move
<1>1. Top \in FrameType /\ FlowInv /\ {"args", "body"} \subseteq Points
  BY StackFacts DEF Setting, Points
<1>2. CASE CallEnter
  <2>1. PICK inst \in Instances \cup {NoInstance} :
          /\ Become([At("args") EXCEPT !.prev = instance, !.method = inst])
          /\ signal' = signal /\ trapped' = trapped
    BY <1>2 DEF CallEnter
  <2>2. At("args") \in FrameType /\ instance \in Insts /\ inst \in Insts
    BY <1>1, AtFields DEF FlowInv, TypeOK, Insts
  <2>3. PICK f \in FrameType : f = [At("args") EXCEPT !.prev = instance, !.method = inst]
    BY <2>2 DEF FrameType
  <2>4. SameConstruct(f, At("args")) /\ SameConstruct(At("args"), Top)
    BY <1>1, <2>2, <2>3, GotoShape DEF SameConstruct, FrameType
  <2>5. SameConstruct(f, Top) /\ Top.fn \notin {"block", "if"} \cup Loops
    BY <2>4 DEF SameConstruct, Loops
  <2> QED BY <2>1, <2>3, <2>5, SimpleMove
<1>3. ASSUME Top.pc = "args", CallBody PROVE Move
  <2>1. ~Trap("bottom") \/ ~(current \in {Global, Unknown})
    BY <1>3, OwnScope DEF InOwnScope
  <2>2. PICK closure \in Closures :
          /\ Become([At("body") EXCEPT !.temp = Reparented(closure).outer,
                                       !.scope = Reparented(closure).inner])
          /\ signal' = signal /\ trapped' = trapped
    BY <1>3, <2>1 DEF CallBody
  <2>3. /\ At("body") \in FrameType
        /\ Reparented(closure).outer \in Chain /\ Reparented(closure).inner \in Chain
    BY <1>1, <1>3, AtFields, ReparentedFacts
  <2>4. PICK f \in FrameType : f = [At("body") EXCEPT !.temp = Reparented(closure).outer,
                                                   !.scope = Reparented(closure).inner]
    BY <2>3 DEF FrameType
  <2>5. SameConstruct(f, At("body")) /\ SameConstruct(At("body"), Top)
    BY <1>1, <2>3, <2>4, GotoShape DEF SameConstruct, FrameType
  <2>6. SameConstruct(f, Top) /\ Top.fn \notin {"block", "if"} \cup Loops
    BY <2>5 DEF SameConstruct, Loops
  <2> QED BY <2>2, <2>4, <2>6, SimpleMove
<1> QED BY <1>2, <1>3

LEMMA CallExprMove ==
    ASSUME Setting, ExecuteCallExpr
    PROVE  Move
<1>1. /\ stack # << >> /\ Top.fn = "call" /\ FlowInv /\ Top.fn \notin {"block", "if"} \cup Loops
      /\ {"callee", "args", "argcheck", "ret"} \subseteq Points \ {"exit"} /\ "operand" \in Roles
  BY DEF ExecuteCallExpr, Running, Setting, Loops, Points, Roles
<1>2. ASSUME NEW pc \in {"callee", "args", "argcheck", "ret"}, EvalExpr(pc) \/ Proceed(pc)
      PROVE  Move
  BY <1>1, <1>2, SimpleMove
<1>3. ASSUME Top.pc = "args", CallBody PROVE Move
  BY <1>1, <1>3, CallEnterMove
<1>4. ASSUME Call("ret", FnBody), UNCHANGED registers PROVE Move
  <2>1. signal = None /\ ~Finished(Top)
    BY <1>1, NoSignal DEF Waits
  <2>2. Fresh(FnBody)
    BY <1>1, ChildIsFresh
  <2>3. /\ FnBody.fn = "block" /\ FnBody.role = "body" /\ FnBody.pc = "start"
        /\ WellFormed(FnBody)
    BY DEF FnBody, Frame, WellFormed
  <2>4. At("ret").fn = "call" /\ At("ret").pc = "ret"
    BY <1>1, AtFields
  <2>5. Awaits(At("ret"), FnBody.role) /\ ~Finished(At("ret")) /\ ~Finished(FnBody)
    BY <2>3, <2>4 DEF Awaits, Finished
  <2> QED BY <1>1, <1>4, <2>1, <2>2, <2>3, <2>5, CallMove
<1>5. CASE CallReturn
  BY <1>1, <1>5, SimpleMove DEF CallReturn
<1> QED
  BY <1>1, <1>2, <1>3, <1>4, <1>5, CallEnterMove, NoFailure
  DEF ExecuteCallExpr, CheckValue, Running

LEMMA ExtendMove ==
    ASSUME Setting, ExecuteExtend
    PROVE  Move
<1>1. /\ stack # << >> /\ Top.fn = "extend" /\ FlowInv /\ Top.fn \notin {"block", "if"} \cup Loops
      /\ {"type", "members", "check"} \subseteq Points \ {"exit"}
  BY DEF ExecuteExtend, Running, Setting, Loops, Points
<1>2. ASSUME NEW pc \in {"type", "members", "check"}, EvalExpr(pc) \/ ExecItem(pc) \/ Proceed(pc)
      PROVE  Move
  BY <1>1, <1>2, SimpleMove
<1>3. CASE ExtendEnter
  <2>1. PICK closure \in Closures :
          /\ Become([At("members") EXCEPT !.temp = current, !.scope = closure])
          /\ signal' = signal /\ trapped' = trapped
    BY <1>3 DEF ExtendEnter
  <2>2. At("members") \in FrameType /\ current \in Chain /\ closure \in Chain
    BY <1>1, AtFields, ClosureIsChain DEF FlowInv, TypeOK
  <2>3. PICK f \in FrameType : f = [At("members") EXCEPT !.temp = current, !.scope = closure]
    BY <2>2 DEF FrameType
  <2>4. SameConstruct(f, At("members")) /\ SameConstruct(At("members"), Top)
    BY <1>1, <2>2, <2>3, GotoShape DEF SameConstruct, FrameType
  <2>5. SameConstruct(f, Top)
    BY <2>4 DEF SameConstruct
  <2> QED BY <1>1, <2>1, <2>3, <2>5, SimpleMove
<1>4. ASSUME Return, UNCHANGED <<signal, trapped>> PROVE Move
  BY <1>1, <1>4, SimpleMove
<1> QED
  BY <1>1, <1>2, <1>3, <1>4, NoFailure DEF ExecuteExtend, Check, CheckValue, Running

LEMMA OperatorsMove ==
    ASSUME Setting,
           \/ ExecuteUnaryOp \/ ExecuteBinaryOp \/ ExecuteAssignExpr \/ ExecuteMemberGet
           \/ ExecutePrintItem \/ ExecuteVarDecl \/ ExecuteSignalItem
    PROVE  Move
<1>1. /\ stack # << >> /\ FlowInv
      /\ Top.fn \in {"unary", "binary", "assign", "member", "print", "var", "return", "break"}
      /\ {"operand", "right", "owner"} \subseteq Points \ {"exit"}
  BY DEF ExecuteUnaryOp, ExecuteBinaryOp, ExecuteAssignExpr, ExecuteMemberGet,
         ExecutePrintItem, ExecuteVarDecl, ExecuteSignalItem, Operands, Running, Points, Setting
<1>2. Top.fn \notin {"block", "if"} \cup Loops
  BY <1>1 DEF Loops
<1>3. \/ \E pc \in {"operand", "right", "owner"} : EvalExpr(pc)
      \/ Top.fn = "member" /\ Call("owner", BoxedValue) /\ UNCHANGED registers
      \/ Done \/ Fail \/ \E sig \in {"return", "break"} : Top.fn = sig /\ RaiseSignal(sig)
      \/ Trap("value")
  BY DEF ExecuteUnaryOp, ExecuteBinaryOp, ExecuteAssignExpr, ExecuteMemberGet,
         ExecutePrintItem, ExecuteVarDecl, ExecuteSignalItem, Operands, CheckValue, Another,
         Unlisted, ShouldNotReach, Running
<1>4. ASSUME NEW pc \in {"operand", "right", "owner"}, EvalExpr(pc) PROVE Move
  BY <1>1, <1>2, <1>4, SimpleMove
<1>5. CASE Done
  BY <1>1, <1>2, <1>5, SimpleMove DEF registers
<1>6. ASSUME NEW sig \in {"return", "break"}, Top.fn = sig, RaiseSignal(sig) PROVE Move
  <2>1. signal = None
    BY <1>1, <1>2, NoSignal DEF Waits
  <2> QED BY <1>1, <1>6, <2>1 DEF Move, LeavesRaising, RaiseSignal
<1>7. ASSUME Top.fn = "member", Call("owner", BoxedValue), UNCHANGED registers PROVE Move
  <2>1. signal = None /\ ~Finished(Top)
    BY <1>1, <1>2, NoSignal DEF Waits
  <2>2. Fresh(BoxedValue)
    <3>1. /\ "inst" \in Functions \ {"exec_item"} /\ "start" \in Points /\ "boxed" \in Roles
          /\ {} \in SUBSET Signals
      BY DEF Functions, Expressions, Members, Points, Roles
    <3> QED BY <1>1, <3>1, FrameIsFresh DEF BoxedValue
  <2>3. /\ BoxedValue.fn = "inst" /\ BoxedValue.role = "boxed" /\ BoxedValue.pc = "start"
        /\ WellFormed(BoxedValue)
    BY DEF BoxedValue, Frame, WellFormed
  <2>4. At("owner").fn = "member" /\ At("owner").pc = "owner"
    BY <1>1, <1>7, AtFields
  <2>5. Awaits(At("owner"), BoxedValue.role) /\ ~Finished(At("owner")) /\ ~Finished(BoxedValue)
    BY <2>3, <2>4 DEF Awaits, Finished
  <2> QED BY <1>1, <1>7, <2>1, <2>2, <2>3, <2>5, CallMove
<1>8. CASE Trap("value")
  BY <1>8 DEF Move, Stops
<1> QED BY <1>3, <1>4, <1>5, <1>6, <1>7, <1>8, NoFailure

LEMMA TopItemMove ==
    ASSUME Setting, ExecuteTopItem
    PROVE  Move
<1>1. CASE stack = << >>
  <2>1. signal = None
    BY <1>1, Known
  <2> QED BY <1>1, <2>1 DEF ExecuteTopItem, Running, Move, Starts, Quiet, registers
<1>2. ASSUME stack # << >>, Top.fn = "exec_item", ExecItem("signal") PROVE Move
  BY <1>2, SimpleMove DEF Points, Loops
<1>3. ASSUME stack # << >>, Top.fn = "exec_item", Return, UNCHANGED <<signal, trapped>>
      PROVE  Move
  BY <1>3, SimpleMove DEF Loops
<1> QED BY <1>1, <1>2, <1>3 DEF ExecuteTopItem, Running

LEMMA NextIsMove ==
    ASSUME Setting, Next
    PROVE  Move
  BY TopItemMove, BlockMove, IfMove, LoopMove, WhileMove, ForMove, DeclarationMove,
     CallExprMove, ExtendMove, OperatorsMove
  DEF Next

(***************************************************************************)
(* The theorems.                                                           *)
(***************************************************************************)
\* An error is never taken back, and without run-time faults only the checks
\* on a signal left by a declaration or a top-level item raise one.
LEMMA ErrorRaised ==
    ASSUME Next
    PROVE  \/ error' = error
           \/ error' /\ (Faults \/ (signal # None /\ stack # << >> /\ ~Waits(Top)))
<1> DEFINE Stuck == signal # None /\ stack # << >> /\ ~Waits(Top)
           Kept == error' = error \/ (error' /\ (Faults \/ Stuck))
<1>1. \A pc : (EvalExpr(pc) \/ ExecItem(pc) => Kept) /\ (PushScope(pc) => Kept)
  BY DEF EvalExpr, ExecItem, PushScope, InterpreterError, registers, Unlisted, ShouldNotReach,
         Trap
<1>2. /\ Fail /\ (Faults \/ Stuck) => Kept
      /\ UNCHANGED registers => Kept
      /\ \A cause : Trap(cause) => Kept
  BY DEF Fail, InterpreterError, registers, Trap
<1>3. PopScope(Return) \/ (\E pc : PopScope(Goto(pc))) => Kept
  BY <1>2 DEF PopScope
<1>4. /\ Running({"for"}, "initcheck") /\ signal # None => Stuck
      /\ Running({"type", "extend"}, "check") /\ signal # None => Stuck
      /\ Running({"exec_item"}, "signal") /\ signal # None => Stuck
  BY DEF Running, Waits, Loops
<1>5. Running({"type"}, "check") \/ Running({"extend"}, "check") =>
        Running({"type", "extend"}, "check")
  BY DEF Running
<1> HIDE DEF Kept, Stuck
<1>6. \A fn : FillScope(fn) => Kept
  BY <1>2, <1>3 DEF FillScope, CheckValue
<1>7. ExecuteTopItem => Kept
  BY <1>1, <1>4 DEF ExecuteTopItem, TopResult, InterpreterError, registers, Kept
<1>8. BlockSignal => Kept
  BY <1>2 DEF BlockSignal, ShouldNotReach, Kept
<1>9. ExecuteBlockExpr => Kept
  BY <1>1, <1>2, <1>3, <1>8 DEF ExecuteBlockExpr
<1>10. ExecuteIfExpr => Kept
  BY <1>1, <1>2 DEF ExecuteIfExpr
<1>11. LoopTest \/ LoopBody \/ LoopSwitch => Kept
  BY <1>2 DEF LoopTest, LoopBody, LoopSwitch, NextIteration, ShouldNotReach, Kept
<1>12. ExecuteWhileExpr \/ ExecuteForExpr => Kept
  BY <1>1, <1>2, <1>3, <1>4 DEF ExecuteWhileExpr, ExecuteForExpr, Check
<1>13. ExecuteTypeDeclaration => Kept
  BY <1>1, <1>2, <1>4, <1>5, <1>6 DEF ExecuteTypeDeclaration, Check
<1>14. ExecuteFnExpr \/ ExecuteInstCreation => Kept
  BY <1>1, <1>2, <1>6 DEF ExecuteFnExpr, ExecuteInstCreation, CheckValue
<1>15. CallEnter \/ CallBody \/ CallReturn \/ ExtendEnter => Kept
  BY <1>2 DEF CallEnter, CallBody, CallReturn, ExtendEnter, Kept
<1>16. ExecuteCallExpr => Kept
  BY <1>1, <1>2, <1>15 DEF ExecuteCallExpr, CheckValue
<1>17. ExecuteExtend => Kept
  BY <1>1, <1>2, <1>4, <1>5, <1>15 DEF ExecuteExtend, Check, CheckValue, Kept
<1>18. \A sig : RaiseSignal(sig) => Kept
  BY DEF RaiseSignal, Kept
<1>19. \/ ExecuteUnaryOp \/ ExecuteBinaryOp \/ ExecuteAssignExpr \/ ExecuteMemberGet
       \/ ExecutePrintItem \/ ExecuteVarDecl \/ ExecuteSignalItem
       => Kept
  BY <1>1, <1>2, <1>18
  DEF ExecuteUnaryOp, ExecuteBinaryOp, ExecuteAssignExpr, ExecuteMemberGet, ExecutePrintItem,
      ExecuteVarDecl, ExecuteSignalItem, Operands, CheckValue, Another, Unlisted, ShouldNotReach
<1>20. Kept
  BY <1>7, <1>9, <1>10, <1>11, <1>12, <1>13, <1>14, <1>16, <1>17, <1>19 DEF Next
<1> QED BY <1>20 DEF Kept, Stuck

LEMMA InitSignalInv == Init => SignalInv
  BY DEF Init, SignalInv, NeverTraps, StackLinked, RaisersCaught, PendingCaught

LEMMA NextSignalInv == FlowInv /\ SignalInv /\ [Next]_vars => SignalInv'
<1> SUFFICES ASSUME FlowInv, SignalInv, [Next]_vars PROVE SignalInv'
  OBVIOUS
<1>1. CASE UNCHANGED vars
  BY <1>1 DEF vars, SignalInv, NeverTraps, StackLinked, RaisersCaught, PendingCaught, CaughtAt,
              Top
<1>2. CASE Next /\ Structured /\ ~error /\ ~error'
  BY <1>2, NextIsMove, MoveKeepsSignalInv DEF Setting
<1>3. CASE ~Structured \/ error'
  BY <1>3 DEF SignalInv
<1>4. CASE Next /\ error
  BY <1>4, ErrorRaised DEF SignalInv
<1> QED BY <1>1, <1>2, <1>3, <1>4

\* The inductive invariant of programs with any run-time faults.
THEOREM SignalInvariant == Spec => []SignalInv
<1>1. FlowInv /\ SignalInv /\ [Next]_vars => (FlowInv /\ SignalInv)'
  BY NextInv, NextSignalInv
<1>2. Init => FlowInv /\ SignalInv
  BY InitInv, InitSignalInv
<1> QED BY <1>1, <1>2, PTL DEF Spec

\* A structured program without run-time faults never ends in an error.
NoErrorInv == FlowInv /\ SignalInv /\ ~error

LEMMA NextNoError ==
    ASSUME Structured, ~Faults
    PROVE  NoErrorInv /\ [Next]_vars => NoErrorInv'
<1> SUFFICES ASSUME NoErrorInv, [Next]_vars PROVE NoErrorInv'
  OBVIOUS
<1>1. FlowInv' /\ SignalInv'
  BY NextInv, NextSignalInv DEF NoErrorInv
<1>2. CASE UNCHANGED vars
  BY <1>1, <1>2 DEF NoErrorInv, vars
<1>3. CASE Next
  <2>1. signal # None => Unwinds(Top, signal)
    BY DEF NoErrorInv, SignalInv, PendingCaught
  <2>2. stack # << >> /\ ~Waits(Top) => signal = None
    BY <2>1 DEF Unwinds, Waits
  <2>3. error' = error
    BY <1>3, <2>2, ErrorRaised
  <2> QED BY <1>1, <2>3 DEF NoErrorInv
<1> QED BY <1>2, <1>3

LEMMA NoErrorInvariant ==
    ASSUME Structured, ~Faults
    PROVE  Spec => []NoErrorInv
<1>1. Init => NoErrorInv
  BY InitInv, InitSignalInv DEF Init, NoErrorInv
<1> QED BY <1>1, NextNoError, PTL DEF Spec

\* In a program that raises signals in statement position and has no run-time
\* faults, no signal reaches a point marked SNUK_SHOULD_NOT_REACH_HERE and the
\* global scope is never popped.
THEOREM SignalsNeverTrap ==
    ASSUME Structured, ~Faults
    PROVE  Spec => []NeverTraps
<1>1. NoErrorInv => NeverTraps
  BY DEF NoErrorInv, SignalInv
<1> QED BY <1>1, NoErrorInvariant, PTL

\* While a signal is pending no program text is evaluated: from the statement
\* that raised it to the construct that takes it the C stack only shrinks.
THEOREM PendingSignalUnwinds ==
    ASSUME Structured, ~Faults
    PROVE  Spec => SignalStopsEvaluation
<1>1. NoErrorInv /\ NoErrorInv' /\ [Next]_vars =>
        [signal # None => Len(stack') <= Len(stack)]_vars
  <2> SUFFICES ASSUME NoErrorInv, NoErrorInv', Next, signal # None
               PROVE  Len(stack') <= Len(stack)
    BY DEF vars
  <2>1. Setting /\ FlowInv
    BY DEF NoErrorInv, Setting
  <2>2. Passes \/ LeavesPassing \/ Takes \/ Stops
    BY <2>1, NextIsMove
    DEF Move, Starts, Runs, Calls, Leaves, Raises, LeavesRaising, Quiet
  <2>3. CASE Passes
    <3>1. PICK pc \in Points : Goto(pc) /\ stack # << >>
      BY <2>3 DEF Passes
    <3>2. Len(stack') = Len(stack) /\ Len(stack) \in Nat
      BY <2>1, <3>1, GotoShape, BecomeShape, StackFacts
    <3> QED BY <3>2
  <2>4. CASE LeavesPassing
    <3>1. Len(stack') = Len(stack) - 1 /\ Len(stack) \in Nat
      BY <2>1, <2>4, ReturnShape, StackFacts DEF LeavesPassing
    <3> QED BY <3>1
  <2>5. CASE Takes
    <3>1. "exit" \in Points /\ Goto("exit") /\ stack # << >>
      BY <2>5 DEF Takes, Points
    <3>2. Len(stack') = Len(stack) /\ Len(stack) \in Nat
      BY <2>1, <3>1, GotoShape, BecomeShape, StackFacts
    <3> QED BY <3>2
  <2>6. CASE Stops
    BY <2>1, <2>6 DEF Stops, Trap, FlowInv, TypeOK
  <2> QED BY <2>2, <2>3, <2>4, <2>5, <2>6
<1> QED BY <1>1, NoErrorInvariant, PTL DEF SignalStopsEvaluation, Spec

(***************************************************************************)
(* The interpreter implements the language's control flow: every step of   *)
(* SnukFlow is a step or a stutter of SnukControl.  A frame is a construct *)
(* (ConstructFacts), the stack up to the nearest catcher is the stack of   *)
(* open constructs (OpenedFacts), and each move of the last part maps to   *)
(* Enter, Finish, Leave, Jump or nothing.                                  *)
(***************************************************************************)
HIDE DEF Proceed, Done

(***************************************************************************)
(* Frames as constructs.                                                   *)
(***************************************************************************)
LEMMA ConstructFacts ==
    ASSUME NEW f \in FrameType, WellFormed(f), NEW caught \in BOOLEAN
    PROVE  LET c == ConstructAt(f, caught) IN
           /\ c \in Control!Construct
           /\ c.kind # "plain" <=> Scoped(f)
           /\ c.kind = "body" <=> f.role = "body"
           /\ c.nested <=> f.role = "operand"
           /\ c.done <=> caught \/ Finished(f)
           /\ \A sig \in Signals : Control!Catches(c, sig) <=> Catches(f, sig)
<1> DEFINE c == ConstructAt(f, caught)
<1>1. /\ f.role = "body" => c.kind = "body" /\ f.fn = "block"
      /\ f.role = "loopbody" => c.kind = "loopbody" /\ f.fn = "block"
      /\ f.role \notin {"body", "loopbody"} =>
           /\ f.fn = "block" /\ f.role = "branch" => c.kind = "branch"
           /\ f.fn = "block" /\ f.role # "branch" => c.kind = "block"
           /\ f.fn \in Loops => c.kind = "loop"
           /\ f.fn # "block" /\ f.fn \notin Loops => c.kind = "plain"
  <2>6. f.fn \in Loops => f.fn # "block"
    BY DEF Loops
  <2>1. c.kind = KindOf(f)
    BY DEF ConstructAt
  <2>2. f.role = "body" => KindOf(f) = "body"
    BY DEF KindOf
  <2>3. f.role = "loopbody" => KindOf(f) = "loopbody"
    BY DEF KindOf
  <2>4. f.role \notin {"body", "loopbody"} /\ f.fn = "block" =>
          KindOf(f) = IF f.role = "branch" THEN "branch" ELSE "block"
    BY <2>6 DEF KindOf
  <2>5. f.role \notin {"body", "loopbody"} /\ f.fn # "block" =>
          KindOf(f) = IF f.fn \in Loops THEN "loop" ELSE "plain"
    BY <2>6 DEF KindOf
  <2> QED BY <2>1, <2>2, <2>3, <2>4, <2>5, <2>6 DEF WellFormed
<1>2. f.role \in Roles /\ (f.role = "boxed" => f.fn = "inst") /\ "block" \notin Loops
  BY DEF FrameType, WellFormed, Loops
<1>3. c.kind \in Control!Kinds /\ (c.kind # "plain" <=> Scoped(f))
  BY <1>1, <1>2 DEF Control!Kinds, Scoped
<1>4. /\ c.nested <=> f.role = "operand"
      /\ c.done <=> caught \/ Finished(f)
      /\ c.nested \in BOOLEAN /\ c.done \in BOOLEAN
  BY <1>3 DEF ConstructAt, Finished
<1>5. c \in Control!Construct
  BY <1>3, <1>4 DEF ConstructAt, Control!Construct
<1>6. c.kind = "body" <=> f.role = "body"
  BY <1>1, <1>2
<1>7. \A sig \in Signals : Control!Catches(c, sig) <=> Catches(f, sig)
  BY <1>1, <1>2 DEF Control!Catches, Catches, Signals, Roles, Loops
<1> QED BY <1>3, <1>4, <1>5, <1>6, <1>7

(***************************************************************************)
(* The nearest construct that catches a signal.                            *)
(***************************************************************************)
LEMMA ExtentIs ==
    ASSUME NEW frames \in Seq(FrameType), NEW sig \in Signals, NEW h \in 1 .. Len(frames),
           Catches(frames[h], sig), \A k \in h+1 .. Len(frames) : ~Catches(frames[k], sig)
    PROVE  Extent(frames, sig) = h
<1> DEFINE n == Len(frames)
           Last(c) == Catches(frames[c], sig) /\ \A k \in c+1 .. n : ~Catches(frames[k], sig)
<1>1. n \in Nat /\ sig # None
  BY DEF Signals, None
<1>2. Extent(frames, sig) = CHOOSE c \in 1 .. n : Last(c)
  BY <1>1 DEF Extent
<1>3. Last(h) /\ \A c \in 1 .. n : Last(c) => c = h
  BY <1>1
<1> QED BY <1>2, <1>3

LEMMA NearestExists ==
    ASSUME NEW frames \in Seq(FrameType), NEW sig \in Signals, Caught(frames, sig)
    PROVE  LET h == Extent(frames, sig) IN
           /\ h \in 1 .. Len(frames) /\ Catches(frames[h], sig)
           /\ \A k \in h+1 .. Len(frames) : /\ ~Catches(frames[k], sig)
                                            /\ frames[k].role \notin {"operand", "body"}
<1>1. PICK n \in Nat : n = Len(frames)
  OBVIOUS
<1>2. PICK g \in 1 .. n :
        /\ Catches(frames[g], sig)
        /\ \A k \in g+1 .. n : frames[k].role \notin {"operand", "body"}
  BY <1>1 DEF Caught
<1> DEFINE S == {k \in 1 .. n : Catches(frames[k], sig)}
<1>3. S \in SUBSET (0 .. n) /\ S # {}
  BY <1>2
<1>4. PICK h \in S : \A k \in S : k <= h
  <2> HIDE DEF S
  <2> QED BY <1>3, Greatest
<1>5. h \in 1 .. n /\ Catches(frames[h], sig) /\ \A k \in h+1 .. n : ~Catches(frames[k], sig)
  BY <1>4
<1>6. g <= h
  BY <1>2, <1>4
<1>7. \A k \in h+1 .. n : k \in g+1 .. n
  BY <1>2, <1>5, <1>6
<1>8. Extent(frames, sig) = h
  BY <1>1, <1>5, ExtentIs
<1> QED BY <1>1, <1>2, <1>5, <1>7, <1>8

(***************************************************************************)
(* Stacks as open constructs.                                              *)
(***************************************************************************)

\* The level at which construct k counts as done because of the signal.
Reached(frames, sig, k) == sig # None /\ k = Extent(frames, sig)

\* A stack whose constructs are well formed, and whose signal has a catcher.
Readable(frames, sig) ==
    /\ frames \in Seq(FrameType)
    /\ \A k \in 1 .. Len(frames) : WellFormed(frames[k])
    /\ sig \in Signals \cup {None} /\ (sig # None => Caught(frames, sig))

LEMMA OpenedFacts ==
    ASSUME NEW frames, NEW sig, Readable(frames, sig)
    PROVE  /\ Extent(frames, sig) \in 0 .. Len(frames) /\ Len(frames) \in Nat
           /\ Opened(frames, sig) \in Seq(Control!Construct)
           /\ Len(Opened(frames, sig)) = Extent(frames, sig)
           /\ \A k \in 1 .. Extent(frames, sig) :
                /\ k \in 1 .. Len(frames) /\ frames[k] \in FrameType /\ WellFormed(frames[k])
                /\ Opened(frames, sig)[k] = ConstructAt(frames[k], Reached(frames, sig, k))
                /\ Opened(frames, sig)[k] \in Control!Construct
           /\ sig = None => Extent(frames, sig) = Len(frames)
<1>1. Len(frames) \in Nat /\ \A k \in 1 .. Len(frames) : frames[k] \in FrameType
  BY DEF Readable
<1>2. Extent(frames, sig) \in 0 .. Len(frames)
  <2>1. CASE sig = None
    BY <1>1, <2>1 DEF Extent
  <2>2. CASE sig # None
    BY <1>1, <2>2, NearestExists DEF Readable
  <2> QED BY <2>1, <2>2
<1>3. PICK e \in Nat : e = Extent(frames, sig)
  BY <1>1, <1>2
<1> DEFINE c == Opened(frames, sig)
<1>4. c = [k \in 1 .. e |-> ConstructAt(frames[k], Reached(frames, sig, k))]
  BY <1>3 DEF Opened, Reached
<1>5. \A k \in 1 .. e :
        /\ k \in 1 .. Len(frames) /\ frames[k] \in FrameType /\ WellFormed(frames[k])
        /\ c[k] = ConstructAt(frames[k], Reached(frames, sig, k))
        /\ c[k] \in Control!Construct
  <2> TAKE k \in 1 .. e
  <2>1. k \in 1 .. Len(frames) /\ frames[k] \in FrameType /\ WellFormed(frames[k])
    BY <1>1, <1>2, <1>3 DEF Readable
  <2>2. Reached(frames, sig, k) \in BOOLEAN
    BY DEF Reached
  <2>3. ConstructAt(frames[k], Reached(frames, sig, k)) \in Control!Construct
    BY <2>1, <2>2, ConstructFacts
  <2> QED BY <1>4, <2>1, <2>3
<1>6. c \in [1 .. e -> Control!Construct]
  BY <1>4, <1>5
<1>7. c \in Seq(Control!Construct) /\ Len(c) = e
  BY <1>6, SeqDef
<1> QED BY <1>1, <1>2, <1>3, <1>5, <1>7 DEF Extent

\* Without a signal the whole stack is read.
LEMMA QuietOpened ==
    ASSUME NEW frames, Readable(frames, None)
    PROVE  /\ Opened(frames, None) \in Seq(Control!Construct)
           /\ Len(Opened(frames, None)) = Len(frames) /\ Len(frames) \in Nat
           /\ \A k \in 1 .. Len(frames) :
                /\ Opened(frames, None)[k] = ConstructAt(frames[k], FALSE)
                /\ Opened(frames, None)[k] \in Control!Construct
                /\ WellFormed(frames[k]) /\ frames[k] \in FrameType
<1>1. Extent(frames, None) = Len(frames)
  BY OpenedFacts
<1>2. \A k \in 1 .. Len(frames) :
        Opened(frames, None)[k] = ConstructAt(frames[k], Reached(frames, None, k))
  BY <1>1, OpenedFacts
<1>3. /\ Opened(frames, None) \in Seq(Control!Construct)
      /\ Len(Opened(frames, None)) = Len(frames) /\ Len(frames) \in Nat
  BY <1>1, OpenedFacts
<1>4. \A k \in 1 .. Len(frames) :
        /\ Opened(frames, None)[k] \in Control!Construct
        /\ WellFormed(frames[k]) /\ frames[k] \in FrameType
  BY <1>1, OpenedFacts
<1>5. \A k \in 1 .. Len(frames) : Opened(frames, None)[k] = ConstructAt(frames[k], FALSE)
  <2> TAKE k \in 1 .. Len(frames)
  <2>1. Reached(frames, None, k) = FALSE
    BY DEF Reached
  <2> QED BY <1>2, <2>1, Zenon
<1> QED BY <1>3, <1>4, <1>5

\* Frames of the same construct, both done or both not, read the same.
LEMMA SameReading ==
    ASSUME NEW f, NEW g, SameConstruct(f, g), NEW a \in BOOLEAN, NEW b \in BOOLEAN,
           WellFormed(f), WellFormed(g), a \/ Finished(f) <=> b \/ Finished(g)
    PROVE  ConstructAt(f, a) = ConstructAt(g, b)
<1>1. /\ KindOf(f) = KindOf(g)
      /\ (KindOf(f) # "plain" <=> Scoped(f)) /\ (KindOf(g) # "plain" <=> Scoped(g))
  <2>1. "block" \notin Loops
    BY DEF Loops
  <2>2. KindOf(f) = KindOf(g)
    BY DEF SameConstruct, KindOf
  <2>3. KindOf(f) # "plain" <=> Scoped(f)
    <3>1. CASE f.role \in {"body", "loopbody"}
      BY <3>1 DEF KindOf, WellFormed, Scoped
    <3>2. CASE f.role \notin {"body", "loopbody"} /\ f.fn = "block"
      BY <2>1, <3>2 DEF KindOf, Scoped
    <3>3. CASE f.role \notin {"body", "loopbody"} /\ f.fn # "block"
      BY <3>3 DEF KindOf, Scoped
    <3> QED BY <3>1, <3>2, <3>3
  <2> QED BY <2>2, <2>3 DEF SameConstruct, Scoped
<1>2. a \/ (KindOf(f) # "plain" /\ f.pc = "exit") <=> b \/ (KindOf(g) # "plain" /\ g.pc = "exit")
  BY <1>1 DEF Finished
<1>3. (a \/ (KindOf(f) # "plain" /\ f.pc = "exit")) = (b \/ (KindOf(g) # "plain" /\ g.pc = "exit"))
  BY <1>2, Zenon
<1>4. (f.role = "operand") = (g.role = "operand")
  BY DEF SameConstruct
<1> QED BY <1>1, <1>3, <1>4, Zenon DEF ConstructAt

\* Two stacks have the same constructs open, done or not.
Agree(frames, sig, frames2, sig2) ==
    /\ Extent(frames, sig) = Extent(frames2, sig2)
    /\ \A k \in 1 .. Extent(frames, sig) :
         /\ SameConstruct(frames2[k], frames[k])
         /\ Reached(frames2, sig2, k) \/ Finished(frames2[k]) <=>
              Reached(frames, sig, k) \/ Finished(frames[k])

LEMMA SameOpened ==
    ASSUME NEW frames, NEW sig, Readable(frames, sig),
           NEW frames2, NEW sig2, Readable(frames2, sig2),
           Agree(frames, sig, frames2, sig2)
    PROVE  Opened(frames2, sig2) = Opened(frames, sig)
<1> DEFINE c == Opened(frames, sig)
           c2 == Opened(frames2, sig2)
<1>1. /\ c \in Seq(Control!Construct) /\ c2 \in Seq(Control!Construct)
      /\ Len(c) = Extent(frames, sig) /\ Len(c2) = Len(c)
      /\ Extent(frames, sig) = Extent(frames2, sig2)
  BY OpenedFacts DEF Agree
<1>2. ASSUME NEW k \in 1 .. Extent(frames, sig)
      PROVE  c2[k] = c[k]
  <2>1. /\ c[k] = ConstructAt(frames[k], Reached(frames, sig, k))
        /\ c2[k] = ConstructAt(frames2[k], Reached(frames2, sig2, k))
        /\ WellFormed(frames[k]) /\ WellFormed(frames2[k])
    BY <1>1, OpenedFacts
  <2>2. Reached(frames, sig, k) \in BOOLEAN /\ Reached(frames2, sig2, k) \in BOOLEAN
    BY DEF Reached
  <2>3. ConstructAt(frames2[k], Reached(frames2, sig2, k)) =
          ConstructAt(frames[k], Reached(frames, sig, k))
    BY <2>1, <2>2, SameReading DEF Agree
  <2> QED BY <2>1, <2>3
<1> QED BY <1>1, <1>2, SeqEqual

\* A frame that is done reads as its construct with done set.
LEMMA DoneReading ==
    ASSUME NEW f \in FrameType, NEW g \in FrameType, SameConstruct(f, g),
           NEW a \in BOOLEAN, NEW b \in BOOLEAN,
           WellFormed(f), WellFormed(g), a \/ Finished(f)
    PROVE  ConstructAt(f, a) = [ConstructAt(g, b) EXCEPT !.done = TRUE]
<1>1. ConstructAt(f, a) \in Control!Construct /\ ConstructAt(g, b) \in Control!Construct
  BY ConstructFacts
<1>2. ConstructAt(f, a).done
  BY ConstructFacts
<1>3. /\ ConstructAt(f, a).kind = ConstructAt(g, b).kind
      /\ ConstructAt(f, a).nested = ConstructAt(g, b).nested
  BY DEF ConstructAt, SameConstruct, KindOf
<1> QED BY <1>1, <1>2, <1>3 DEF Control!Construct

\* The top construct comes to its end.
LEMMA FinishReads ==
    ASSUME NEW frames, Readable(frames, None), NEW frames2, Readable(frames2, None),
           frames # << >>, Len(frames2) = Len(frames),
           \A k \in 1 .. Len(frames) - 1 : frames2[k] = frames[k],
           SameConstruct(frames2[Len(frames)], frames[Len(frames)]),
           Finished(frames2[Len(frames)])
    PROVE  LET c == Opened(frames, None) IN
           /\ c # << >> /\ c[Len(c)].kind # "plain"
           /\ Opened(frames2, None) = [c EXCEPT ![Len(c)].done = TRUE]
<1> DEFINE c == Opened(frames, None)
           c2 == Opened(frames2, None)
           n == Len(frames)
<1>1. n \in Nat \ {0}
  BY EmptySeq DEF Readable
<1>2. /\ c \in Seq(Control!Construct) /\ c2 \in Seq(Control!Construct)
      /\ Len(c) = n /\ Len(c2) = n
      /\ \A k \in 1 .. n :
           /\ c[k] = ConstructAt(frames[k], FALSE) /\ c2[k] = ConstructAt(frames2[k], FALSE)
           /\ c[k] \in Control!Construct /\ c2[k] \in Control!Construct
           /\ WellFormed(frames[k]) /\ WellFormed(frames2[k])
           /\ frames[k] \in FrameType /\ frames2[k] \in FrameType
  BY QuietOpened
<1> HIDE DEF c, c2
<1>3. c2[n] = [c[n] EXCEPT !.done = TRUE] /\ c[n].kind # "plain"
  <2>1. n \in 1 .. n
    BY <1>1
  <2>0. /\ c[n] = ConstructAt(frames[n], FALSE) /\ c2[n] = ConstructAt(frames2[n], FALSE)
        /\ WellFormed(frames[n]) /\ WellFormed(frames2[n])
        /\ frames[n] \in FrameType /\ frames2[n] \in FrameType
    BY <1>2, <2>1
  <2>2. c2[n] = [c[n] EXCEPT !.done = TRUE]
    <3>1. ASSUME NEW f \in FrameType, NEW g \in FrameType, SameConstruct(f, g),
                 WellFormed(f), WellFormed(g), Finished(f)
          PROVE  ConstructAt(f, FALSE) = [ConstructAt(g, FALSE) EXCEPT !.done = TRUE]
      BY <3>1, DoneReading
    <3>2. ConstructAt(frames2[n], FALSE) = [ConstructAt(frames[n], FALSE) EXCEPT !.done = TRUE]
      BY <2>0, <3>1
    <3> QED BY <2>0, <3>2
  <2>3. Scoped(frames[n])
    BY DEF Finished, Scoped, SameConstruct
  <2>4. c[n].kind # "plain"
    BY <1>2, <2>1, <2>3, ConstructFacts
  <2> QED BY <2>2, <2>4
<1> DEFINE d == [c[n] EXCEPT !.done = TRUE]
<1>4. d \in Control!Construct /\ n \in 1 .. Len(c)
  <2>1. n \in 1 .. n
    BY <1>1
  <2>2. c[n] \in Control!Construct
    BY <1>2, <2>1
  <2> QED BY <1>2, <2>1, <2>2 DEF Control!Construct
<1>5. [c EXCEPT ![n].done = TRUE] = [c EXCEPT ![n] = d]
  OBVIOUS
<1> HIDE DEF d
<1>6. /\ [c EXCEPT ![n] = d] \in Seq(Control!Construct) /\ Len([c EXCEPT ![n] = d]) = n
      /\ \A k \in 1 .. n : [c EXCEPT ![n] = d][k] = IF k = n THEN d ELSE c[k]
  BY <1>2, <1>4, ExceptSeq
<1>7. \A k \in 1 .. n : c2[k] = [c EXCEPT ![n] = d][k]
  <2> TAKE k \in 1 .. n
  <2>1. CASE k = n
    BY <1>3, <1>6, <2>1 DEF d
  <2>2. CASE k # n
    <3>1. frames2[k] = frames[k]
      BY <2>2
    <3> QED BY <1>2, <1>6, <2>2, <3>1
  <2> QED BY <2>1, <2>2
<1>8. c2 = [c EXCEPT ![n] = d]
  BY <1>2, <1>6, <1>7, SeqEqual
<1>9. c # << >>
  BY <1>1, <1>2
<1> QED BY <1>2, <1>3, <1>5, <1>8, <1>9 DEF c, c2

\* A construct is entered.
Entered(frames, frames2) ==
    /\ Len(frames2) = Len(frames) + 1
    /\ \A k \in 1 .. Len(frames) : /\ SameConstruct(frames2[k], frames[k])
                                   /\ Finished(frames2[k]) <=> Finished(frames[k])
    /\ ~Finished(frames2[Len(frames) + 1])
    /\ frames # << >> => ~Finished(frames[Len(frames)])

LEMMA EnterReads ==
    ASSUME NEW frames, Readable(frames, None), NEW frames2, Readable(frames2, None),
           Entered(frames, frames2)
    PROVE  LET c == Opened(frames, None)
               d == ConstructAt(frames2[Len(frames) + 1], FALSE) IN
           /\ d \in Control!Construct /\ ~d.done
           /\ ~(c # << >> /\ c[Len(c)].done)
           /\ Opened(frames2, None) = Append(c, d)
<1> DEFINE c == Opened(frames, None)
           c2 == Opened(frames2, None)
           n == Len(frames)
           d == ConstructAt(frames2[n + 1], FALSE)
<1>1. n \in Nat /\ (frames # << >> => n \in 1 .. n)
  BY EmptySeq DEF Readable
<1>2. /\ c \in Seq(Control!Construct) /\ c2 \in Seq(Control!Construct)
      /\ Len(c) = n /\ Len(c2) = n + 1
      /\ \A k \in 1 .. n :
           /\ c[k] = ConstructAt(frames[k], FALSE) /\ c[k] \in Control!Construct
           /\ WellFormed(frames[k]) /\ frames[k] \in FrameType
      /\ \A k \in 1 .. n + 1 :
           /\ c2[k] = ConstructAt(frames2[k], FALSE) /\ c2[k] \in Control!Construct
           /\ WellFormed(frames2[k]) /\ frames2[k] \in FrameType
  BY QuietOpened DEF Entered
<1> HIDE DEF c, c2
<1>3. d \in Control!Construct /\ ~d.done /\ d = c2[n + 1]
  <2>1. n + 1 \in 1 .. n + 1
    BY <1>1
  <2> QED BY <1>2, <2>1, ConstructFacts DEF Entered
<1>4. c # << >> => ~c[n].done
  <2> SUFFICES ASSUME c # << >> PROVE ~c[n].done
    OBVIOUS
  <2>1. frames # << >> /\ n \in 1 .. n
    BY <1>1, <1>2, EmptySeq
  <2> QED BY <1>2, <2>1, ConstructFacts DEF Entered
<1>5. \A k \in 1 .. n : c2[k] = c[k]
  <2> TAKE k \in 1 .. n
  <2>1. k \in 1 .. n + 1
    BY <1>1
  <2>2. /\ c[k] = ConstructAt(frames[k], FALSE) /\ c2[k] = ConstructAt(frames2[k], FALSE)
        /\ WellFormed(frames[k]) /\ WellFormed(frames2[k])
    BY <1>2, <2>1
  <2> QED BY <2>2, SameReading DEF Entered
<1> HIDE DEF d
<1>6. /\ Append(c, d) \in Seq(Control!Construct) /\ Len(Append(c, d)) = n + 1
      /\ \A k \in 1 .. n : Append(c, d)[k] = c[k]
      /\ Append(c, d)[n + 1] = d
  BY <1>2, <1>3, AppendProperties
<1>7. \A k \in 1 .. n + 1 : c2[k] = Append(c, d)[k]
  <2> TAKE k \in 1 .. n + 1
  <2>1. k \in 1 .. n \/ k = n + 1
    BY <1>1
  <2> QED BY <1>3, <1>5, <1>6, <2>1
<1>8. c2 = Append(c, d)
  BY <1>2, <1>6, <1>7, SeqEqual
<1> QED BY <1>2, <1>3, <1>4, <1>8 DEF c, c2, d

\* The top construct is left.
LEMMA LeaveReads ==
    ASSUME NEW frames, Readable(frames, None), NEW frames2, Readable(frames2, None),
           frames # << >>, Len(frames2) = Len(frames) - 1,
           \A k \in 1 .. Len(frames) - 1 : frames2[k] = frames[k],
           Scoped(frames[Len(frames)]) => Finished(frames[Len(frames)])
    PROVE  LET c == Opened(frames, None) IN
           /\ c # << >> /\ (c[Len(c)].done \/ c[Len(c)].kind = "plain")
           /\ Opened(frames2, None) = SubSeq(c, 1, Len(c) - 1)
<1> DEFINE c == Opened(frames, None)
           c2 == Opened(frames2, None)
           n == Len(frames)
<1>1. n \in Nat \ {0} /\ n \in 1 .. n
  BY EmptySeq DEF Readable
<1>2. /\ c \in Seq(Control!Construct) /\ c2 \in Seq(Control!Construct)
      /\ Len(c) = n /\ Len(c2) = n - 1
      /\ \A k \in 1 .. n :
           /\ c[k] = ConstructAt(frames[k], FALSE)
           /\ WellFormed(frames[k]) /\ frames[k] \in FrameType
      /\ \A k \in 1 .. n - 1 : c2[k] = ConstructAt(frames2[k], FALSE)
  BY QuietOpened
<1> HIDE DEF c, c2
<1>3. c # << >>
  BY <1>1, <1>2
<1>4. c[n].done \/ c[n].kind = "plain"
  BY <1>1, <1>2, ConstructFacts
<1>5. /\ SubSeq(c, 1, n - 1) \in Seq(Control!Construct) /\ Len(SubSeq(c, 1, n - 1)) = n - 1
      /\ \A k \in 1 .. n - 1 : SubSeq(c, 1, n - 1)[k] = c[k]
  BY <1>2, <1>3, DropLast
<1>6. \A k \in 1 .. n - 1 : c2[k] = SubSeq(c, 1, n - 1)[k]
  <2> TAKE k \in 1 .. n - 1
  <2>1. k \in 1 .. n
    BY <1>1
  <2> QED BY <1>2, <1>5, <2>1
<1>7. c2 = SubSeq(c, 1, n - 1)
  BY <1>2, <1>5, <1>6, SeqEqual
<1> QED BY <1>2, <1>3, <1>4, <1>7 DEF c, c2

\* A signal leaves every construct above the nearest that catches it.
LEMMA JumpReads ==
    ASSUME NEW frames, Readable(frames, None), NEW sig \in Signals,
           NEW frames2, Readable(frames2, sig),
           NEW h \in 1 .. Len(frames), h = Extent(frames2, sig),
           \A k \in 1 .. h : SameConstruct(frames2[k], frames[k]),
           \A k \in 1 .. h - 1 : Finished(frames2[k]) <=> Finished(frames[k]),
           \A k \in h+1 .. Len(frames) : /\ ~Catches(frames[k], sig)
                                         /\ frames[k].role \notin {"operand", "body"}
    PROVE  LET c == Opened(frames, None) IN
           /\ h \in 1 .. Len(c) /\ Control!Catches(c[h], sig)
           /\ \A k \in h+1 .. Len(c) : /\ Control!Transparent(c[k])
                                       /\ ~Control!Catches(c[k], sig)
           /\ Opened(frames2, sig) = [SubSeq(c, 1, h) EXCEPT ![h].done = TRUE]
<1> DEFINE c == Opened(frames, None)
           c2 == Opened(frames2, sig)
           n == Len(frames)
           p == SubSeq(c, 1, h)
<1>1. n \in Nat /\ sig # None /\ h \in 1 .. n /\ h \in 1 .. h
  BY QuietOpened DEF Signals, None
<1>2. /\ c \in Seq(Control!Construct) /\ Len(c) = n
      /\ \A k \in 1 .. n :
           /\ c[k] = ConstructAt(frames[k], FALSE) /\ c[k] \in Control!Construct
           /\ WellFormed(frames[k]) /\ frames[k] \in FrameType
  BY QuietOpened
<1>3. /\ c2 \in Seq(Control!Construct) /\ Len(c2) = h /\ h \in 1 .. Len(frames2)
      /\ \A k \in 1 .. h :
           /\ c2[k] = ConstructAt(frames2[k], Reached(frames2, sig, k))
           /\ WellFormed(frames2[k]) /\ frames2[k] \in FrameType
  BY <1>1, OpenedFacts
<1>4. \A k \in 1 .. h : Reached(frames2, sig, k) <=> k = h
  BY <1>1 DEF Reached
<1>5. Control!Catches(c[h], sig)
  <2>1. Catches(frames2[h], sig)
    BY <1>1, NearestExists DEF Readable
  <2>2. Catches(frames[h], sig)
    BY <1>1, <2>1 DEF SameConstruct, Catches, Signals
  <2> QED BY <1>1, <1>2, <2>2, ConstructFacts
<1>6. \A k \in h+1 .. n : Control!Transparent(c[k]) /\ ~Control!Catches(c[k], sig)
  <2> TAKE k \in h+1 .. n
  <2>1. k \in 1 .. n
    BY <1>1
  <2>2. /\ WellFormed(frames[k]) /\ frames[k] \in FrameType
        /\ c[k] = ConstructAt(frames[k], FALSE)
    BY <1>2, <2>1
  <2>3. ~Catches(frames[k], sig) /\ frames[k].role \notin {"operand", "body"}
    OBVIOUS
  <2> QED BY <2>2, <2>3, ConstructFacts DEF Control!Transparent
<1> HIDE DEF c, c2
<1>7. p \in Seq(Control!Construct) /\ Len(p) = h /\ \A k \in 1 .. h : p[k] = c[k]
  <2>1. \A k \in 1 .. h : c[k] \in Control!Construct
    BY <1>1, <1>2
  <2>2. /\ SubSeq(c, 1, h) \in Seq(Control!Construct)
        /\ Len(SubSeq(c, 1, h)) = IF 1 <= h THEN h - 1 + 1 ELSE 0
        /\ \A k \in 1 .. h - 1 + 1 : SubSeq(c, 1, h)[k] = c[1 + k - 1]
    BY <1>1, <2>1, SubSeqProperties
  <2>3. 1 <= h /\ h - 1 + 1 = h /\ \A k \in 1 .. h : 1 + k - 1 = k
    BY <1>1
  <2> QED BY <2>2, <2>3
<1> DEFINE d == [c[h] EXCEPT !.done = TRUE]
<1>8. c[h] \in Control!Construct /\ d \in Control!Construct
  <2>1. c[h] \in Control!Construct
    BY <1>1, <1>2
  <2> QED BY <2>1 DEF Control!Construct
<1>9. c2[h] = d
  <2>1. /\ c[h] = ConstructAt(frames[h], FALSE) /\ WellFormed(frames[h]) /\ frames[h] \in FrameType
        /\ c2[h] = ConstructAt(frames2[h], Reached(frames2, sig, h))
        /\ WellFormed(frames2[h]) /\ frames2[h] \in FrameType
        /\ SameConstruct(frames2[h], frames[h])
    BY <1>1, <1>2, <1>3
  <2>2. ASSUME NEW f \in FrameType, NEW g \in FrameType, SameConstruct(f, g),
               NEW a \in BOOLEAN, a, WellFormed(f), WellFormed(g)
        PROVE  ConstructAt(f, a) = [ConstructAt(g, FALSE) EXCEPT !.done = TRUE]
    BY <2>2, DoneReading
  <2>3. Reached(frames2, sig, h) /\ Reached(frames2, sig, h) \in BOOLEAN
    BY <1>1, <1>4 DEF Reached
  <2>4. ConstructAt(frames2[h], Reached(frames2, sig, h)) =
          [ConstructAt(frames[h], FALSE) EXCEPT !.done = TRUE]
    BY <2>1, <2>2, <2>3
  <2> QED BY <2>1, <2>4
<1>10. \A k \in 1 .. h - 1 : c2[k] = c[k]
  <2> TAKE k \in 1 .. h - 1
  <2>1. k \in 1 .. h /\ k \in 1 .. n /\ k # h
    BY <1>1
  <2>2. /\ c[k] = ConstructAt(frames[k], FALSE) /\ WellFormed(frames[k])
        /\ c2[k] = ConstructAt(frames2[k], Reached(frames2, sig, k)) /\ WellFormed(frames2[k])
        /\ SameConstruct(frames2[k], frames[k])
        /\ Finished(frames2[k]) <=> Finished(frames[k])
    BY <1>2, <1>3, <2>1
  <2>3. Reached(frames2, sig, k) = FALSE
    BY <2>1 DEF Reached
  <2>4. ConstructAt(frames2[k], FALSE) = ConstructAt(frames[k], FALSE)
    BY <2>2, SameReading
  <2>5. c2[k] = ConstructAt(frames2[k], FALSE)
    BY <2>2, <2>3, Zenon
  <2> QED BY <2>2, <2>4, <2>5
<1>11. [p EXCEPT ![h].done = TRUE] = [p EXCEPT ![h] = d]
  BY <1>1, <1>7
<1> HIDE DEF d, p
<1>12. /\ [p EXCEPT ![h] = d] \in Seq(Control!Construct) /\ Len([p EXCEPT ![h] = d]) = h
       /\ \A k \in 1 .. h : [p EXCEPT ![h] = d][k] = IF k = h THEN d ELSE p[k]
  BY <1>1, <1>7, <1>8, ExceptSeq
<1>13. \A k \in 1 .. h : c2[k] = [p EXCEPT ![h] = d][k]
  <2> TAKE k \in 1 .. h
  <2>1. k = h \/ k \in 1 .. h - 1
    BY <1>1
  <2> QED BY <1>7, <1>9, <1>10, <1>12, <2>1
<1>14. c2 = [p EXCEPT ![h] = d]
  BY <1>3, <1>12, <1>13, SeqEqual
<1> QED BY <1>1, <1>2, <1>5, <1>6, <1>11, <1>14 DEF c, c2, p

(***************************************************************************)
(* Each move is a step of SnukControl, or none.                            *)
(***************************************************************************)
LEMMA ReadableNow ==
    ASSUME Setting
    PROVE  Readable(stack, signal)
<1>1. /\ StackLinked /\ PendingCaught /\ signal \in Signals \cup {None}
      /\ stack \in Seq(FrameType)
  BY Known DEF FlowInv, TypeOK
<1>2. signal # None => Caught(stack, signal)
  BY <1>1 DEF PendingCaught, Caught, CaughtAt
<1> QED BY <1>1, <1>2 DEF Readable, StackLinked

LEMMA ReadableNext ==
    ASSUME FlowInv', SignalInv', Structured, ~error'
    PROVE  Readable(stack', signal')
<1>1. /\ StackLinked' /\ PendingCaught' /\ signal' \in Signals \cup {None}
      /\ stack' \in Seq(FrameType)
  BY DEF FlowInv, TypeOK, SignalInv
<1>2. signal' # None => Caught(stack', signal')
  BY <1>1 DEF PendingCaught, Caught, CaughtAt
<1> QED BY <1>1, <1>2 DEF Readable, StackLinked

LEMMA QuietMoves ==
    ASSUME Setting, FlowInv', SignalInv', Starts \/ Runs \/ Calls \/ Leaves
    PROVE  Control!Next \/ UNCHANGED OpenConstructs
<1> DEFINE c == Opened(stack, None)
<1>1. /\ FlowInv /\ signal = None /\ signal' = None
      /\ Readable(stack, None) /\ Readable(stack', None)
      /\ OpenConstructs = c /\ OpenConstructs' = Opened(stack', None)
  BY ReadableNow, ReadableNext
  DEF Setting, Starts, Runs, Calls, Leaves, Quiet, OpenConstructs
<1>2. CASE Starts
  <2>1. /\ Len(stack) = 0 /\ Len(stack') = 1 /\ stack'[1] = TopFrame /\ stack = << >>
        /\ ~Finished(TopFrame)
    BY <1>1, <1>2, StartShape DEF Starts, Finished
  <2>4. Entered(stack, stack')
    BY <2>1 DEF Entered
  <2> DEFINE d == ConstructAt(stack'[Len(stack) + 1], FALSE)
  <2>2. /\ d \in Control!Construct /\ ~d.done /\ ~(c # << >> /\ c[Len(c)].done)
        /\ Opened(stack', None) = Append(c, d)
    BY <1>1, <2>4, EnterReads
  <2> HIDE DEF d
  <2>3. Control!Enter(d)
    BY <1>1, <2>2 DEF Control!Enter, Control!TopDone
  <2> QED BY <2>2, <2>3 DEF Control!Next
<1>3. CASE Runs
  <2>1. PICK f \in FrameType : Become(f) /\ SameConstruct(f, Top) /\ ~Finished(Top) /\ stack # << >>
    BY <1>3 DEF Runs
  <2>2. PICK n \in Nat \ {0} : n = Len(stack) /\ Top = stack[n]
    BY <1>1, <2>1, StackFacts
  <2>3. /\ Len(stack') = n /\ \A j \in 1 .. n : stack'[j] = IF j = n THEN f ELSE stack[j]
    BY <1>1, <2>1, <2>2, BecomeShape
  <2>4. stack'[n] = f /\ \A k \in 1 .. n - 1 : stack'[k] = stack[k]
    BY <2>3
  <2>5. CASE Finished(f)
    <3>1. /\ c # << >> /\ c[Len(c)].kind # "plain"
          /\ Opened(stack', None) = [c EXCEPT ![Len(c)].done = TRUE]
      BY <1>1, <2>1, <2>2, <2>3, <2>4, <2>5, FinishReads
    <3>2. Control!Finish
      BY <1>1, <3>1 DEF Control!Finish
    <3> QED BY <3>2 DEF Control!Next
  <2>6. CASE ~Finished(f)
    <3>1. Extent(stack, None) = n /\ Extent(stack', None) = n
      BY <1>1, <2>2, <2>3, OpenedFacts
    <3>2. \A k \in 1 .. n :
            /\ SameConstruct(stack'[k], stack[k])
            /\ Reached(stack', None, k) \/ Finished(stack'[k]) <=>
                 Reached(stack, None, k) \/ Finished(stack[k])
      BY <2>1, <2>2, <2>3, <2>6 DEF Reached, SameConstruct
    <3>4. Agree(stack, None, stack', None)
      BY <3>1, <3>2 DEF Agree
    <3>3. Opened(stack', None) = Opened(stack, None)
      BY <1>1, <3>4, SameOpened
    <3> QED BY <1>1, <3>3
  <2> QED BY <2>5, <2>6
<1>4. CASE Calls
  <2>1. PICK pc \in Points, g \in FrameType :
          /\ Call(pc, g) /\ ~Finished(At(pc)) /\ ~Finished(g) /\ ~Finished(Top) /\ stack # << >>
    BY <1>4 DEF Calls
  <2>2. PICK n \in Nat \ {0} : n = Len(stack) /\ Top = stack[n]
    BY <1>1, <2>1, StackFacts
  <2>3. /\ Len(stack') = n + 1 /\ stack'[n + 1] = g
        /\ \A j \in 1 .. n : stack'[j] = IF j = n THEN At(pc) ELSE stack[j]
    BY <1>1, <2>1, <2>2, CallShape
  <2>4. SameConstruct(At(pc), Top)
    BY <1>1, <2>1, GotoShape
  <2>5. \A k \in 1 .. n : /\ SameConstruct(stack'[k], stack[k])
                          /\ Finished(stack'[k]) <=> Finished(stack[k])
    BY <2>1, <2>2, <2>3, <2>4 DEF SameConstruct
  <2>8. Entered(stack, stack')
    BY <2>1, <2>2, <2>3, <2>5 DEF Entered
  <2> DEFINE d == ConstructAt(stack'[Len(stack) + 1], FALSE)
  <2>6. /\ d \in Control!Construct /\ ~d.done /\ ~(c # << >> /\ c[Len(c)].done)
        /\ Opened(stack', None) = Append(c, d)
    BY <1>1, <2>8, EnterReads
  <2> HIDE DEF d
  <2>7. Control!Enter(d)
    BY <1>1, <2>6 DEF Control!Enter, Control!TopDone
  <2> QED BY <2>6, <2>7 DEF Control!Next
<1>5. CASE Leaves
  <2>1. /\ stack # << >> /\ Return /\ (Scoped(Top) => Finished(Top))
        /\ Top = stack[Len(stack)]
    BY <1>1, <1>5, StackFacts DEF Leaves
  <2>2. /\ Len(stack') = Len(stack) - 1
        /\ \A k \in 1 .. Len(stack) - 1 : stack'[k] = stack[k]
    BY <1>1, <2>1, ReturnShape
  <2>3. /\ c # << >> /\ (c[Len(c)].done \/ c[Len(c)].kind = "plain")
        /\ Opened(stack', None) = SubSeq(c, 1, Len(c) - 1)
    BY <1>1, <2>1, <2>2, LeaveReads
  <2>4. Control!Leave
    BY <1>1, <2>3 DEF Control!Leave, Control!TopDone
  <2> QED BY <2>4 DEF Control!Next
<1> QED BY <1>2, <1>3, <1>4, <1>5

LEMMA RaisingMoves ==
    ASSUME Setting, FlowInv', SignalInv', Raises \/ LeavesRaising
    PROVE  Control!Next
<1>1. PICK sig \in Signals : signal' = sig
  BY DEF Raises, LeavesRaising, Signals
<1> DEFINE c == Opened(stack, None)
           h == Extent(stack', sig)
<1>2. /\ FlowInv /\ signal = None /\ stack # << >> /\ sig # None
      /\ Readable(stack, None) /\ Readable(stack', sig) /\ Caught(stack', sig)
      /\ OpenConstructs = c /\ OpenConstructs' = Opened(stack', sig)
  <2>1. FlowInv /\ signal = None /\ stack # << >> /\ sig # None
    BY DEF Setting, Raises, LeavesRaising, Signals, None
  <2>2. Readable(stack, None) /\ Readable(stack', sig)
    BY <1>1, <2>1, ReadableNow, ReadableNext DEF Setting
  <2> QED BY <1>1, <2>1, <2>2 DEF OpenConstructs, Readable
<1>3. PICK n \in Nat \ {0} : n = Len(stack) /\ Top = stack[n]
  BY <1>2, StackFacts
<1>4. /\ h \in 1 .. Len(stack') /\ stack' \in Seq(FrameType)
      /\ \A k \in h+1 .. Len(stack') : /\ ~Catches(stack'[k], sig)
                                       /\ stack'[k].role \notin {"operand", "body"}
  BY <1>2, NearestExists DEF Readable
<1>5. /\ h \in 1 .. n
      /\ \A k \in 1 .. h : SameConstruct(stack'[k], stack[k])
      /\ \A k \in 1 .. h - 1 : Finished(stack'[k]) <=> Finished(stack[k])
      /\ \A k \in h+1 .. n : /\ ~Catches(stack[k], sig)
                             /\ stack[k].role \notin {"operand", "body"}
  <2>1. CASE Raises
    <3>1. "signal" \in Points /\ Goto("signal")
      BY <2>1 DEF Raises, Points
    <3>2. /\ At("signal") \in FrameType /\ Become(At("signal")) /\ SameConstruct(At("signal"), Top)
      BY <1>2, <3>1, GotoShape
    <3>3. Len(stack') = n /\ \A j \in 1 .. n : stack'[j] = IF j = n THEN At("signal") ELSE stack[j]
      BY <1>2, <1>3, <3>2, BecomeShape
    <3>4. \A k \in 1 .. n : SameConstruct(stack'[k], stack[k])
      BY <1>3, <3>2, <3>3 DEF SameConstruct
    <3>5. \A k \in h+1 .. n : k \in 1 .. n
      BY <1>4, <3>3
    <3>6. \A k \in h+1 .. n : /\ ~Catches(stack[k], sig)
                              /\ stack[k].role \notin {"operand", "body"}
      BY <1>4, <3>3, <3>4, <3>5 DEF SameConstruct, Catches, Signals
    <3> QED BY <1>4, <3>3, <3>4, <3>6
  <2>2. CASE LeavesRaising
    <3>1. Return /\ Top.fn \in {"return", "break"} /\ sig = Top.fn /\ WellFormed(Top)
      BY <1>1, <1>2, <2>2, Known DEF LeavesRaising
    <3>2. Len(stack') = n - 1 /\ \A j \in 1 .. n - 1 : stack'[j] = stack[j]
      BY <1>2, <1>3, <3>1, ReturnShape
    <3>3. ~Catches(Top, sig) /\ Top.role \notin {"operand", "body"}
      BY <3>1 DEF WellFormed, Catches, Loops
    <3>4. \A k \in h+1 .. n : k \in h+1 .. n - 1 \/ k = n
      BY <1>4, <3>2
    <3>5. \A k \in h+1 .. n - 1 : k \in 1 .. n - 1
      BY <1>4, <3>2
    <3>6. \A k \in h+1 .. n : /\ ~Catches(stack[k], sig)
                              /\ stack[k].role \notin {"operand", "body"}
      BY <1>3, <1>4, <3>2, <3>3, <3>4, <3>5
    <3>7. h \in 1 .. n /\ \A k \in 1 .. h : stack'[k] = stack[k]
      BY <1>4, <3>2
    <3> QED BY <3>6, <3>7 DEF SameConstruct
  <2> QED BY <2>1, <2>2
<1>6. /\ h \in 1 .. Len(c) /\ Control!Catches(c[h], sig)
      /\ \A k \in h+1 .. Len(c) : /\ Control!Transparent(c[k])
                                  /\ ~Control!Catches(c[k], sig)
      /\ Opened(stack', sig) = [SubSeq(c, 1, h) EXCEPT ![h].done = TRUE]
  BY <1>2, <1>3, <1>5, JumpReads
<1>7. Control!Jump(sig)
  BY <1>2, <1>6 DEF Control!Jump, Control!Nearest
<1>8. sig \in Control!Jumps
  BY DEF Control!Jumps, Signals
<1> QED BY <1>7, <1>8 DEF Control!Next

LEMMA UnwindingMoves ==
    ASSUME Setting, FlowInv', SignalInv', Passes \/ LeavesPassing \/ Takes
    PROVE  UNCHANGED OpenConstructs
<1>1. PICK sig \in Signals : signal = sig /\ sig # None
  BY Known DEF Passes, LeavesPassing, Takes
<1> DEFINE h == Extent(stack, sig)
<1>2. /\ FlowInv /\ stack # << >> /\ Readable(stack, sig) /\ Readable(stack', signal')
      /\ Caught(stack, sig) /\ stack \in Seq(FrameType) /\ stack' \in Seq(FrameType)
      /\ OpenConstructs = Opened(stack, sig) /\ OpenConstructs' = Opened(stack', signal')
  <2>1. Readable(stack, sig) /\ Readable(stack', signal')
    BY <1>1, ReadableNow, ReadableNext DEF Setting
  <2> QED BY <1>1, <2>1 DEF OpenConstructs, Readable, Setting, Passes, LeavesPassing, Takes
<1>3. PICK n \in Nat \ {0} : n = Len(stack) /\ Top = stack[n]
  BY <1>2, StackFacts
<1>4. /\ h \in 1 .. n /\ Catches(stack[h], sig)
      /\ \A k \in h+1 .. n : ~Catches(stack[k], sig)
  BY <1>2, <1>3, NearestExists
<1>5. CASE Passes
  <2>1. PICK pc \in Points : Goto(pc) /\ signal' = sig
    BY <1>1, <1>5 DEF Passes
  <2>2. /\ At(pc) \in FrameType /\ Become(At(pc)) /\ SameConstruct(At(pc), Top)
    BY <1>2, <2>1, GotoShape
  <2>3. Len(stack') = n /\ \A j \in 1 .. n : stack'[j] = IF j = n THEN At(pc) ELSE stack[j]
    BY <1>2, <1>3, <2>2, BecomeShape
  <2>4. \A k \in 1 .. n : SameConstruct(stack'[k], stack[k])
    BY <1>3, <2>2, <2>3 DEF SameConstruct
  <2>5. \A k \in 1 .. n : Catches(stack'[k], sig) <=> Catches(stack[k], sig)
    BY <2>4 DEF SameConstruct, Catches, Signals
  <2>6. h \in 1 .. Len(stack') /\ \A k \in h+1 .. n : k \in 1 .. n
    BY <1>4, <2>3
  <2>7. Catches(stack'[h], sig) /\ \A k \in h+1 .. Len(stack') : ~Catches(stack'[k], sig)
    BY <1>4, <2>3, <2>5, <2>6
  <2>8. Extent(stack', sig) = h
    BY <1>2, <2>6, <2>7, ExtentIs
  <2>9. \A k \in 1 .. h : /\ SameConstruct(stack'[k], stack[k])
                          /\ Reached(stack', sig, k) \/ Finished(stack'[k]) <=>
                               Reached(stack, sig, k) \/ Finished(stack[k])
    BY <1>1, <1>4, <2>3, <2>4, <2>8 DEF Reached
  <2>11. Agree(stack, sig, stack', sig)
    <3>1. Extent(stack, sig) = Extent(stack', sig)
      BY <2>8
    <3>2. \A k \in 1 .. Extent(stack, sig) :
           /\ SameConstruct(stack'[k], stack[k])
           /\ Reached(stack', sig, k) \/ Finished(stack'[k]) <=>
              Reached(stack, sig, k) \/ Finished(stack[k])
      BY <2>9
    <3> QED BY <3>1, <3>2, Zenon DEF Agree
  <2>12. Readable(stack', sig)
    BY <1>2, <2>1
  <2>10. Opened(stack', sig) = Opened(stack, sig)
    BY <1>2, <2>11, <2>12, SameOpened
  <2> QED BY <1>2, <2>1, <2>10
<1>6. CASE LeavesPassing
  <2>1. Return /\ signal' = sig /\ ~Catches(Top, sig)
    BY <1>1, <1>6 DEF LeavesPassing
  <2>2. Len(stack') = n - 1 /\ \A j \in 1 .. n - 1 : stack'[j] = stack[j]
    BY <1>2, <1>3, <2>1, ReturnShape
  <2>3. h \in 1 .. n - 1
    BY <1>3, <1>4, <2>1
  <2>4. Catches(stack'[h], sig) /\ \A k \in h+1 .. Len(stack') : ~Catches(stack'[k], sig)
    BY <1>4, <2>2, <2>3
  <2>5. Extent(stack', sig) = h
    BY <1>2, <2>2, <2>3, <2>4, ExtentIs
  <2>6. \A k \in 1 .. h : /\ SameConstruct(stack'[k], stack[k])
                          /\ Reached(stack', sig, k) \/ Finished(stack'[k]) <=>
                               Reached(stack, sig, k) \/ Finished(stack[k])
    BY <2>2, <2>3, <2>5 DEF Reached, SameConstruct
  <2>8. Agree(stack, sig, stack', sig)
    BY <1>2, <2>1, <2>5, <2>6 DEF Agree
  <2>12. Readable(stack', sig)
    BY <1>2, <2>1
  <2>7. Opened(stack', sig) = Opened(stack, sig)
    BY <1>2, <2>8, <2>12, SameOpened
  <2> QED BY <1>2, <2>1, <2>7
<1>7. CASE Takes
  <2>1. /\ Goto("exit") /\ "exit" \in Points /\ signal' = None /\ Catches(Top, sig) /\ Scoped(Top)
    BY <1>1, <1>7 DEF Takes, Points
  <2>2. /\ At("exit") \in FrameType /\ Become(At("exit")) /\ SameConstruct(At("exit"), Top)
        /\ Finished(At("exit"))
    BY <1>2, <2>1, GotoShape DEF Finished, Scoped
  <2>3. Len(stack') = n /\ \A j \in 1 .. n : stack'[j] = IF j = n THEN At("exit") ELSE stack[j]
    BY <1>2, <1>3, <2>2, BecomeShape
  <2>4. h = n
    BY <1>2, <1>3, <2>1, ExtentIs
  <2>5. Extent(stack', None) = n
    BY <1>2, <2>1, <2>3, OpenedFacts
  <2>6. \A k \in 1 .. n : /\ SameConstruct(stack'[k], stack[k])
                          /\ Reached(stack', None, k) \/ Finished(stack'[k]) <=>
                               Reached(stack, sig, k) \/ Finished(stack[k])
    BY <1>1, <1>3, <2>2, <2>3, <2>4 DEF Reached, SameConstruct
  <2>8. Agree(stack, sig, stack', None)
    BY <1>2, <2>1, <2>4, <2>5, <2>6 DEF Agree
  <2>12. Readable(stack', None)
    BY <1>2, <2>1
  <2>7. Opened(stack', None) = Opened(stack, sig)
    BY <1>2, <2>8, <2>12, SameOpened
  <2> QED BY <1>2, <2>1, <2>7
<1> QED BY <1>5, <1>6, <1>7

(***************************************************************************)
(* The theorem.                                                            *)
(***************************************************************************)

\* The interpreter implements the language's rule of control flow: in every
\* structured program without run-time faults, entering, ending and leaving
\* constructs and raising signals are the steps of SnukControl, so that a
\* signal leaves exactly the constructs up to the nearest one that catches it.
THEOREM FollowsControl ==
    ASSUME Structured, ~Faults
    PROVE  Spec => Control!SafeSpec
<1>1. Init => Control!Init
  <2> SUFFICES ASSUME Init PROVE OpenConstructs = << >>
    BY DEF Control!Init
  <2>1. stack = << >> /\ signal = None
    BY DEF Init
  <2>2. Readable(stack, None) /\ Len(stack) = 0
    BY <2>1 DEF Readable
  <2>3. /\ Opened(stack, None) \in Seq(Control!Construct)
        /\ Len(Opened(stack, None)) = 0
    BY <2>2, QuietOpened
  <2> QED BY <2>1, <2>3, EmptySeq DEF OpenConstructs
<1>2. NoErrorInv /\ NoErrorInv' /\ [Next]_vars => [Control!Next]_OpenConstructs
  <2> SUFFICES ASSUME NoErrorInv, NoErrorInv', [Next]_vars
               PROVE  Control!Next \/ UNCHANGED OpenConstructs
    OBVIOUS
  <2>1. CASE UNCHANGED vars
    BY <2>1 DEF vars, OpenConstructs
  <2>2. CASE Next
    <3>1. Setting /\ FlowInv' /\ SignalInv'
      BY DEF NoErrorInv, Setting
    <3>2. Move
      BY <2>2, <3>1, NextIsMove
    <3>3. CASE Stops
      BY <3>3 DEF Stops, Trap, OpenConstructs
    <3> QED BY <3>1, <3>2, <3>3, QuietMoves, RaisingMoves, UnwindingMoves DEF Move
  <2> QED BY <2>1, <2>2
<1> QED BY <1>1, <1>2, NoErrorInvariant, PTL DEF Spec, Control!SafeSpec
=============================================================================
