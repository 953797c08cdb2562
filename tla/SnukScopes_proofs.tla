-------------------------- MODULE SnukScopes_proofs --------------------------
(***************************************************************************)
(* Proofs about SnukScopes: whatever program runs and whatever checks fail *)
(* in it, a counter never counts less than what refers to it.              *)
(***************************************************************************)
EXTENDS SnukScopes, SnukHeap_proofs

Labels == Names \cup {Self, Builtin, "value"}
Functions == Constructs \cup {"literal"}
Points == {"arg", "args", "body", "callee", "done", "init", "item", "items", "literal", "member",
           "members", "owner", "param", "return", "start", "type", "value"}
Frames == [fn : Functions, pc : Points, weak : BOOLEAN, val : Values, type : Values,
           hold : References, prev : References, params : References, builtin : BOOLEAN]

\* What a strong reference to r is for the handle x, and what is held by a frame,
\* by the stack, by the values of a sequence and by the registers.
Ref(r, x) == One(Handle(r, FALSE), x)
FrameHeld(f, x) == HeldBy(f.val, x) + HeldBy(f.type, x) + Ref(f.hold, x) + Ref(f.prev, x)
StackHeld(s, x) == Total([k \in DOMAIN s |-> FrameHeld(s[k], x)])
ValuesHeld(t, x) == Total([i \in DOMAIN t |-> HeldBy(t[i], x)])
Owns(v, c, i, t, x) == HeldBy(v, x) + Ref(c, x) + Ref(i, x) + ValuesHeld(t, x)
Root == IF trapped = "exit" THEN NoScope ELSE Global
Held(x) == StackHeld(stack, x) + Owns(ret, current, instance, trash, x) + Ref(Root, x)

LEMMA RefType == \A r, x : Ref(r, x) \in Nat
BY OneType DEF Ref

LEMMA RefNothing == \A x \in Targets : Ref(NoScope, x) = 0
<1> TAKE x \in Targets
<1>1. One(Handle(NoScope, FALSE), x) = 0
  BY NobodyHolds
<1> QED BY <1>1 DEF Ref

LEMMA RefSelf == \A r : Ref(r, Handle(r, FALSE)) = 1
BY DEF Ref, One

LEMMA RefWeak == \A r, x : x.weak = TRUE => Ref(r, x) = 0
<1> TAKE r, x
<1> HAVE x.weak = TRUE
<1>1. Handle(r, FALSE).weak = FALSE
  BY DEF Handle
<1> DEFINE a == Handle(r, FALSE)
<1> HIDE DEF a
<1>2. a # x
  BY <1>1 DEF a
<1> QED BY <1>2 DEF Ref, One, a

LEMMA FrameHeldType == \A f, x : FrameHeld(f, x) \in Nat
<1> TAKE f, x
<1>1. HeldBy(f.val, x) \in Nat /\ HeldBy(f.type, x) \in Nat /\ Ref(f.hold, x) \in Nat /\ Ref(f.prev, x) \in Nat
  BY HeldByType, RefType
<1> QED BY <1>1 DEF FrameHeld

(***************************************************************************)
(* Sums over sequences.                                                    *)
(***************************************************************************)
LEMMA TotalOfOneMore ==
    ASSUME NEW n \in Nat, NEW f \in [1 .. n -> Nat], NEW g \in [1 .. n + 1 -> Nat],
           \A i \in 1 .. n : g[i] = f[i]
    PROVE  Total(g) = Total(f) + g[n + 1]
<1>1. IsFiniteSet(1 .. n)
  BY FS_Interval
<1>2. (1 .. n) \cup {n + 1} = 1 .. n + 1 /\ n + 1 \notin 1 .. n
  OBVIOUS
<1>3. Splits(g, f, n + 1)
  BY <1>1, <1>2, TotalNew
<1> QED BY <1>3 DEF Splits

LEMMA StackHeldType ==
    ASSUME NEW s \in Seq(Frames), NEW x
    PROVE  StackHeld(s, x) \in Nat
<1> DEFINE f == [k \in DOMAIN s |-> FrameHeld(s[k], x)]
<1>1. IsFiniteSet(DOMAIN s) /\ DOMAIN s = 1 .. Len(s) /\ Len(s) \in Nat
  BY FS_Interval
<1>2. f \in [DOMAIN s -> Nat]
  BY FrameHeldType
<1> HIDE DEF f
<1>3. Total(f) \in Nat
  BY <1>1, <1>2, UnitsFinite
<1> QED BY <1>3 DEF StackHeld, f

LEMMA StackTop ==
    ASSUME NEW s \in Seq(Frames), s # << >>, NEW t \in Seq(Frames), Len(t) = Len(s) - 1,
           \A k \in 1 .. Len(t) : t[k] = s[k], NEW x
    PROVE  StackHeld(s, x) = StackHeld(t, x) + FrameHeld(s[Len(s)], x)
<1> DEFINE g == [k \in DOMAIN s |-> FrameHeld(s[k], x)]
           f == [k \in DOMAIN t |-> FrameHeld(t[k], x)]
           n == Len(t)
<1>1. n \in Nat /\ Len(s) = n + 1 /\ DOMAIN s = 1 .. n + 1 /\ DOMAIN t = 1 .. n
  OBVIOUS
<1>2. f \in [1 .. n -> Nat] /\ g \in [1 .. n + 1 -> Nat]
  BY <1>1, FrameHeldType
<1>3. \A k \in 1 .. n : g[k] = f[k]
  BY <1>1
<1>4. g[n + 1] = FrameHeld(s[Len(s)], x)
  BY <1>1
<1> HIDE DEF f, g, n
<1>5. Total(g) = Total(f) + g[n + 1]
  BY <1>1, <1>2, <1>3, TotalOfOneMore
<1> QED BY <1>4, <1>5 DEF StackHeld, f, g

LEMMA StackEmpty == \A x : StackHeld(<< >>, x) = 0
<1> TAKE x
<1> DEFINE f == [k \in DOMAIN << >> |-> FrameHeld(<< >>[k], x)]
<1>1. \A d \in DOMAIN f : f[d] = 0
  OBVIOUS
<1> HIDE DEF f
<1>2. Total(f) = 0
  BY <1>1, TotalZero
<1> QED BY <1>2 DEF StackHeld, f

LEMMA ValuesHeldType ==
    ASSUME NEW t \in Seq(Proper), NEW x
    PROVE  ValuesHeld(t, x) \in Nat
<1> DEFINE f == [k \in DOMAIN t |-> HeldBy(t[k], x)]
<1>1. IsFiniteSet(DOMAIN t) /\ DOMAIN t = 1 .. Len(t) /\ Len(t) \in Nat
  BY FS_Interval
<1>2. f \in [DOMAIN t -> Nat]
  BY HeldByType
<1> HIDE DEF f
<1>3. Total(f) \in Nat
  BY <1>1, <1>2, UnitsFinite
<1> QED BY <1>3 DEF ValuesHeld, f

LEMMA ValuesEmpty == \A x : ValuesHeld(<< >>, x) = 0
<1> TAKE x
<1> DEFINE f == [k \in DOMAIN << >> |-> HeldBy(<< >>[k], x)]
<1>1. \A d \in DOMAIN f : f[d] = 0
  OBVIOUS
<1> HIDE DEF f
<1>2. Total(f) = 0
  BY <1>1, TotalZero
<1> QED BY <1>2 DEF ValuesHeld, f

LEMMA ValuesLast ==
    ASSUME NEW s \in Seq(Proper), s # << >>, NEW t \in Seq(Proper), Len(t) = Len(s) - 1,
           \A k \in 1 .. Len(t) : t[k] = s[k], NEW x
    PROVE  ValuesHeld(s, x) = ValuesHeld(t, x) + HeldBy(s[Len(s)], x)
<1> DEFINE g == [k \in DOMAIN s |-> HeldBy(s[k], x)]
           f == [k \in DOMAIN t |-> HeldBy(t[k], x)]
           n == Len(t)
<1>1. n \in Nat /\ Len(s) = n + 1 /\ DOMAIN s = 1 .. n + 1 /\ DOMAIN t = 1 .. n
  OBVIOUS
<1>2. f \in [1 .. n -> Nat] /\ g \in [1 .. n + 1 -> Nat]
  BY <1>1, HeldByType
<1>3. \A k \in 1 .. n : g[k] = f[k]
  BY <1>1
<1>4. g[n + 1] = HeldBy(s[Len(s)], x)
  BY <1>1
<1> HIDE DEF f, g, n
<1>5. Total(g) = Total(f) + g[n + 1]
  BY <1>1, <1>2, <1>3, TotalOfOneMore
<1> QED BY <1>4, <1>5 DEF ValuesHeld, f, g

LEMMA ValuesAppend ==
    ASSUME NEW t \in Seq(Proper), NEW v \in Proper
    PROVE  /\ Append(t, v) \in Seq(Proper)
           /\ \A x : ValuesHeld(Append(t, v), x) = ValuesHeld(t, x) + HeldBy(v, x)
<1> DEFINE s == Append(t, v)
<1>1. /\ s \in Seq(Proper) /\ s # << >> /\ Len(s) = Len(t) + 1 /\ Len(t) \in Nat
      /\ \A k \in 1 .. Len(t) : t[k] = s[k]
      /\ s[Len(s)] = v
  BY AppendProperties
<1> HIDE DEF s
<1>2. \A x : ValuesHeld(s, x) = ValuesHeld(t, x) + HeldBy(v, x)
  BY <1>1, ValuesLast
<1> QED BY <1>1, <1>2 DEF s

(***************************************************************************)
(* The invariant.  A frame holds values and scopes only at the points of   *)
(* its function where the C function does; the value that was returned     *)
(* last is waiting for the frame on top, and only where that takes it.     *)
(***************************************************************************)
Bare(f) == f.val = Plain /\ f.type = Plain /\ f.hold = NoScope /\ f.prev = NoScope

InstHolds(f) ==
    /\ f.val \in Proper /\ f.val.kind = "inst" /\ f.val.weak = FALSE
    /\ f.type \in Proper /\ f.hold = NoScope /\ f.prev = NoScope
CallHolds(f) ==
    /\ f.val \in Proper /\ f.val.kind \in FunctionKinds /\ f.type = Plain
AssignHolds(f) ==
    /\ f.val \in Proper /\ f.type = Plain /\ f.hold = NoScope /\ f.prev = NoScope
ExtendHolds(f) ==
    /\ f.val.kind = "type" /\ f.val.weak = FALSE /\ f.val.scope = NoScope
    /\ f.type = Plain /\ f.hold # NoScope /\ f.prev = NoScope

FrameOK(f) ==
    /\ f.fn \notin {"inst", "literal", "call", "assign", "extend"} => Bare(f)
    /\ f.fn \in {"inst", "literal"} => (IF f.pc = "start" THEN Bare(f) ELSE InstHolds(f))
    /\ f.fn = "call" => /\ f.pc \in {"start", "callee"} => Bare(f)
                        /\ f.pc \notin {"start", "callee"} => CallHolds(f)
                        /\ f.pc \in {"args", "arg"} => f.hold = NoScope
                        /\ f.pc \in {"body", "return"} => f.hold # NoScope
    /\ f.fn = "assign" => (IF f.pc \in {"start", "value"} THEN Bare(f) ELSE AssignHolds(f))
    /\ f.fn = "extend" => (IF f.pc \in {"start", "type"} THEN Bare(f) ELSE ExtendHolds(f))

\* The points where the value of a child is taken.
Waits(f) ==
    \/ f.fn = "block" /\ f.pc = "items"
    \/ f.fn = "fn" /\ f.pc = "param"
    \/ f.fn = "type" /\ f.pc = "member"
    \/ f.fn = "inst" /\ f.pc = "init"
    \/ f.fn = "call" /\ f.pc \in {"callee", "arg", "return"}
    \/ f.fn = "member" /\ f.pc \in {"owner", "literal"}
    \/ f.fn = "assign" /\ f.pc \in {"value", "owner"}
    \/ f.fn = "var" /\ f.pc = "value"
    \/ f.fn = "extend" /\ f.pc \in {"type", "member"}
    \/ f.fn = "exec_item" /\ f.pc = "done"

Traps == {"no", "exit", "dangling", "destroyed", "bottom", "assertion", "unowned", "instance",
          "unreachable", "uninitialized"}

Registers ==
    /\ current \in References /\ instance \in References
    /\ trapped = "no" => current # NoScope
    /\ trash \in Seq(Proper) /\ ret \in Proper
    /\ error \in BOOLEAN /\ trapped \in Traps

Stacked ==
    /\ stack \in Seq(Frames)
    /\ \A k \in 1 .. Len(stack) : FrameOK(stack[k])
    /\ \A k \in 1 .. Len(stack) - 1 : Waits(stack[k])
    /\ stack # << >> => stack[1].fn = "exec_item"
    /\ stack = << >> \/ ~Waits(Top) => ret.scope = NoScope

\* The references there are against those that are held outside the heap.
Account(x) ==
    /\ Spare(heap, x) >= Held(x)
    /\ ~error /\ x.weak = FALSE => Spare(heap, x) = Held(x)

Inv == Sound(heap, Labels) /\ Registers /\ Stacked /\ \A x \in Targets : Account(x)

(***************************************************************************)
(* The frame on top, and the others.                                       *)
(***************************************************************************)
Front == SubSeq(stack, 1, Len(stack) - 1)
Rest(x) == StackHeld(Front, x) + Ref(Global, x)

LEMMA TopAndFront ==
    ASSUME stack \in Seq(Frames), stack # << >>
    PROVE  /\ Top \in Frames /\ Len(stack) \in 1 .. Len(stack) /\ Len(stack) \in Nat
           /\ Front \in Seq(Frames) /\ Len(Front) = Len(stack) - 1
           /\ \A k \in 1 .. Len(Front) : Front[k] = stack[k]
<1>1. Len(stack) \in Nat /\ Len(stack) >= 1 /\ \A k \in 1 .. Len(stack) : stack[k] \in Frames
  OBVIOUS
<1>2. Top \in Frames
  BY <1>1 DEF Top
<1> DEFINE n == Len(stack) - 1
<1>3. n \in Nat /\ n \in Int /\ 1 \in Int /\ \A i \in 1 .. n : stack[i] \in Frames
  BY <1>1
<1>4. /\ SubSeq(stack, 1, n) \in Seq(Frames)
      /\ Len(SubSeq(stack, 1, n)) = IF 1 <= n THEN n - 1 + 1 ELSE 0
      /\ \A i \in 1 .. n - 1 + 1 : SubSeq(stack, 1, n)[i] = stack[1 + i - 1]
  BY <1>3, SubSeqProperties
<1>5. Len(SubSeq(stack, 1, n)) = n /\ n - 1 + 1 = n
  <2> DEFINE m == Len(SubSeq(stack, 1, n))
  <2>1. n \in Nat /\ m = IF 1 <= n THEN n - 1 + 1 ELSE 0
    BY <1>3, <1>4
  <2> HIDE DEF n, m
  <2>2. m = n /\ n - 1 + 1 = n
    BY <2>1
  <2> QED BY <2>2 DEF m
<1>6. \A i \in 1 .. n : 1 + i - 1 = i
  BY <1>3
<1>7. \A k \in 1 .. Len(SubSeq(stack, 1, n)) : SubSeq(stack, 1, n)[k] = stack[k]
  BY <1>4, <1>5, <1>6
<1> QED BY <1>1, <1>2, <1>4, <1>5, <1>7 DEF Front

\* What is held, frame by frame.
LEMMA HeldNow ==
    ASSUME Inv, trapped = "no", stack # << >>, NEW x \in Targets
    PROVE  /\ Held(x) = Rest(x) + FrameHeld(Top, x) + Owns(ret, current, instance, trash, x)
           /\ Rest(x) \in Nat /\ FrameHeld(Top, x) \in Nat /\ Owns(ret, current, instance, trash, x) \in Nat
           /\ Spare(heap, x) \in Int
<1>1. stack \in Seq(Frames) /\ trash \in Seq(Proper) /\ Sound(heap, Labels)
  BY DEF Inv, Stacked, Registers
<1>2. StackHeld(stack, x) = StackHeld(Front, x) + FrameHeld(Top, x)
  BY <1>1, TopAndFront, StackTop DEF Top
<1>3. StackHeld(Front, x) \in Nat /\ FrameHeld(Top, x) \in Nat /\ Ref(Global, x) \in Nat
  BY <1>1, TopAndFront, StackHeldType, FrameHeldType, RefType
<1>4. Owns(ret, current, instance, trash, x) \in Nat
  <2>1. HeldBy(ret, x) \in Nat /\ Ref(current, x) \in Nat /\ Ref(instance, x) \in Nat /\ ValuesHeld(trash, x) \in Nat
    BY <1>1, HeldByType, RefType, ValuesHeldType
  <2> QED BY <2>1 DEF Owns
<1>5. Held(x) = StackHeld(stack, x) + Owns(ret, current, instance, trash, x) + Ref(Global, x)
  BY DEF Held, Root
<1>6. Spare(heap, x) \in Int
  BY <1>1, SpareType
<1> HIDE DEF Inv
<1> QED BY <1>2, <1>3, <1>4, <1>5, <1>6 DEF Rest

\* What the running function holds is counted.
LEMMA Budget ==
    ASSUME Inv, trapped = "no", stack # << >>, NEW x \in Targets
    PROVE  /\ HeldBy(Top.val, x) \in Nat /\ HeldBy(Top.type, x) \in Nat /\ Ref(Top.hold, x) \in Nat
           /\ Ref(Top.prev, x) \in Nat /\ HeldBy(ret, x) \in Nat /\ Ref(current, x) \in Nat
           /\ Ref(instance, x) \in Nat /\ ValuesHeld(trash, x) \in Nat /\ Spare(heap, x) \in Int
           /\ Spare(heap, x) >= HeldBy(Top.val, x) + HeldBy(Top.type, x) + Ref(Top.hold, x) + Ref(Top.prev, x)
                                + HeldBy(ret, x) + Ref(current, x) + Ref(instance, x) + ValuesHeld(trash, x)
<1>1. Spare(heap, x) >= Held(x)
  BY DEF Inv, Account
<1>2. /\ HeldBy(Top.val, x) \in Nat /\ HeldBy(Top.type, x) \in Nat /\ Ref(Top.hold, x) \in Nat
      /\ Ref(Top.prev, x) \in Nat /\ HeldBy(ret, x) \in Nat /\ Ref(current, x) \in Nat
      /\ Ref(instance, x) \in Nat /\ ValuesHeld(trash, x) \in Nat
  <2>1. trash \in Seq(Proper)
    BY DEF Inv, Registers
  <2> QED BY <2>1, HeldByType, RefType, ValuesHeldType
<1>3. /\ Held(x) = Rest(x) + FrameHeld(Top, x) + Owns(ret, current, instance, trash, x)
      /\ Rest(x) \in Nat /\ Spare(heap, x) \in Int
  BY HeldNow
<1>4. FrameHeld(Top, x) = HeldBy(Top.val, x) + HeldBy(Top.type, x) + Ref(Top.hold, x) + Ref(Top.prev, x)
  BY DEF FrameHeld
<1>5. Owns(ret, current, instance, trash, x)
      = HeldBy(ret, x) + Ref(current, x) + Ref(instance, x) + ValuesHeld(trash, x)
  BY DEF Owns
<1> DEFINE a == HeldBy(Top.val, x)
           b == HeldBy(Top.type, x)
           c == Ref(Top.hold, x)
           d == Ref(Top.prev, x)
           e == HeldBy(ret, x) + Ref(current, x) + Ref(instance, x) + ValuesHeld(trash, x)
<1>6. a \in Nat /\ b \in Nat /\ c \in Nat /\ d \in Nat /\ e \in Nat
  BY <1>2
<1>7. Spare(heap, x) >= Rest(x) + (a + b + c + d) + e
  BY <1>1, <1>3, <1>4, <1>5
<1> HIDE DEF a, b, c, d, e
<1>8. Spare(heap, x) >= a + b + c + d + e
  BY <1>3, <1>6, <1>7
<1>9. /\ Spare(heap, x) >= HeldBy(Top.val, x) + HeldBy(Top.type, x) + Ref(Top.hold, x) + Ref(Top.prev, x) + e
  BY <1>8 DEF a, b, c, d
<1>10. Spare(heap, x) >= HeldBy(Top.val, x) + HeldBy(Top.type, x) + Ref(Top.hold, x) + Ref(Top.prev, x)
                         + HeldBy(ret, x) + Ref(current, x) + Ref(instance, x) + ValuesHeld(trash, x)
  BY <1>2, <1>9, SMTT(30) DEF e
<1> QED BY <1>2, <1>3, <1>10

LEMMA AllCovered ==
    ASSUME Inv
    PROVE  Covered(heap)
<1> SUFFICES ASSUME NEW x \in Targets PROVE Spare(heap, x) >= 0
  BY DEF Covered
<1>1. stack \in Seq(Frames) /\ trash \in Seq(Proper) /\ Sound(heap, Labels) /\ Spare(heap, x) >= Held(x)
  BY DEF Inv, Stacked, Registers, Account
<1>2. StackHeld(stack, x) \in Nat /\ Owns(ret, current, instance, trash, x) \in Nat /\ Ref(Root, x) \in Nat
  <2>1. HeldBy(ret, x) \in Nat /\ Ref(current, x) \in Nat /\ Ref(instance, x) \in Nat /\ ValuesHeld(trash, x) \in Nat
    BY <1>1, HeldByType, RefType, ValuesHeldType
  <2>2. Owns(ret, current, instance, trash, x) \in Nat
    BY <2>1 DEF Owns
  <2> QED BY <1>1, <2>2, StackHeldType, RefType
<1>3. Held(x) \in Nat
  BY <1>2 DEF Held
<1>4. Spare(heap, x) \in Int
  BY <1>1, SpareType
<1> QED BY <1>1, <1>3, <1>4

(***************************************************************************)
(* The ways a step can end.  What matters of each is the same: the heap    *)
(* gains or loses as many references as the step takes or gives up.        *)
(***************************************************************************)
\* Before the step a references were held for the handle x, after it b are.
Fair(x, a, b) ==
    /\ Spare(heap, x)' + a >= Spare(heap, x) + b
    /\ ~error' /\ x.weak = FALSE => Spare(heap, x)' + a = Spare(heap, x) + b

\* The registers after a step of the running process.
Settles ==
    /\ Sound(heap', Labels)
    /\ current' \in References /\ instance' \in References /\ current' # NoScope
    /\ trash' \in Seq(Proper) /\ ret' \in Proper
    /\ error' \in BOOLEAN /\ (error => error') /\ trapped' = "no"

Mine(x) == FrameHeld(Top, x) + Owns(ret, current, instance, trash, x)

LEMMA MineType ==
    ASSUME Inv, trapped = "no", stack # << >>, NEW x \in Targets
    PROVE  /\ Held(x) = Rest(x) + Mine(x) /\ Rest(x) \in Nat /\ Mine(x) \in Nat
           /\ Spare(heap, x) \in Int
<1>1. /\ Held(x) = Rest(x) + FrameHeld(Top, x) + Owns(ret, current, instance, trash, x)
      /\ Rest(x) \in Nat /\ FrameHeld(Top, x) \in Nat /\ Owns(ret, current, instance, trash, x) \in Nat
      /\ Spare(heap, x) \in Int
  BY HeldNow
<1> DEFINE a == FrameHeld(Top, x)
           b == Owns(ret, current, instance, trash, x)
<1>2. Mine(x) = a + b
  BY DEF Mine
<1> HIDE DEF a, b
<1>3. a \in Nat /\ b \in Nat /\ Held(x) = Rest(x) + a + b /\ Rest(x) \in Nat /\ Spare(heap, x) \in Int
  BY <1>1 DEF a, b
<1> QED BY <1>2, <1>3

LEMMA OwnsType ==
    ASSUME NEW v, NEW c, NEW i, NEW t \in Seq(Proper), NEW x
    PROVE  Owns(v, c, i, t, x) \in Nat
<1>1. HeldBy(v, x) \in Nat /\ Ref(c, x) \in Nat /\ Ref(i, x) \in Nat /\ ValuesHeld(t, x) \in Nat
  BY HeldByType, RefType, ValuesHeldType
<1> QED BY <1>1 DEF Owns

LEMMA Cancels ==
    ASSUME NEW s \in Int, NEW m \in Nat, NEW p \in Nat, NEW q \in Nat, NEW n \in Nat, NEW o \in Nat,
           s + m = p + q + m + n + o
    PROVE  s = p + n + o + q
OBVIOUS

\* The accounts after a step that leaves n references in the frames above Front.
LEMMA AccountAfter ==
    ASSUME Inv, trapped = "no", stack # << >>, Settles, NEW x \in Targets, NEW n \in Nat,
           StackHeld(stack', x) = StackHeld(Front, x) + n,
           Fair(x, Mine(x), n + Owns(ret', current', instance', trash', x))
    PROVE  Account(x)'
<1> DEFINE o == Owns(ret', current', instance', trash', x)
           s == Spare(heap', x)
<1>1. o \in Nat
  BY OwnsType DEF Settles
<1>2. s \in Int
  BY SpareType DEF Settles
<1>3. Held(x)' = StackHeld(stack', x) + o + Ref(Global, x)
  BY DEF Held, Settles, Root
<1>4. StackHeld(Front, x) \in Nat /\ Ref(Global, x) \in Nat
  <2>1. stack \in Seq(Frames)
    BY DEF Inv, Stacked
  <2> QED BY <2>1, TopAndFront, StackHeldType, RefType
<1>5. Held(x) = Rest(x) + Mine(x) /\ Mine(x) \in Nat /\ Spare(heap, x) \in Int
  BY MineType
<1>6. Rest(x) = StackHeld(Front, x) + Ref(Global, x)
  BY DEF Rest
<1>7. Spare(heap, x) >= Held(x) /\ (~error /\ x.weak = FALSE => Spare(heap, x) = Held(x))
  BY DEF Inv, Account
<1>8. s + Mine(x) >= Spare(heap, x) + (n + o)
  BY DEF Fair
<1>9. ~error' /\ x.weak = FALSE => s + Mine(x) = Spare(heap, x) + (n + o)
  BY DEF Fair
<1>10. error => error'
  BY DEF Settles
<1> HIDE DEF o, s, Inv
<1>11. s >= Held(x)'
  BY <1>1, <1>2, <1>3, <1>4, <1>5, <1>6, <1>7, <1>8
<1>12. (Spare(heap, x) = Held(x) /\ s + Mine(x) = Spare(heap, x) + (n + o)) => s = Held(x)'
  <2> SUFFICES ASSUME Spare(heap, x) = Held(x), s + Mine(x) = Spare(heap, x) + (n + o) PROVE s = Held(x)'
    OBVIOUS
  <2>1. Held(x)' = StackHeld(Front, x) + n + o + Ref(Global, x)
    BY <1>3
  <2>2. Held(x) = StackHeld(Front, x) + Ref(Global, x) + Mine(x)
    BY <1>5, <1>6
  <2>3. s + Mine(x) = StackHeld(Front, x) + Ref(Global, x) + Mine(x) + n + o
    BY <1>1, <1>4, <1>5, <2>2
  <2>4. s = StackHeld(Front, x) + n + o + Ref(Global, x)
    <3> DEFINE m == Mine(x)
               p == StackHeld(Front, x)
               q == Ref(Global, x)
    <3>1. s \in Int /\ m \in Nat /\ p \in Nat /\ q \in Nat /\ o \in Nat
      BY <1>1, <1>2, <1>4, <1>5
    <3>2. s + m = p + q + m + n + o
      BY <2>3
    <3> HIDE DEF m, p, q
    <3>3. s = p + n + o + q
      BY <3>1, <3>2, Cancels
    <3> QED BY <3>3 DEF p, q
  <2> QED BY <2>1, <2>4
<1>13. ~error' /\ x.weak = FALSE => s = Held(x)'
  BY <1>7, <1>9, <1>10, <1>12, Zenon
<1> QED BY <1>11, <1>13 DEF Account, s

LEMMA RegistersAfter ==
    ASSUME Settles
    PROVE  Sound(heap, Labels)' /\ Registers'
BY DEF Settles, Registers, Traps

\* The running function returns.
LEMMA ReturnLaw ==
    ASSUME Inv, trapped = "no", stack # << >>, Settles, NEW v, Return(v),
           Top.fn = "exec_item" => v.scope = NoScope,
           \A x \in Targets : Fair(x, Mine(x), Owns(ret', current', instance', trash', x))
    PROVE  Inv'
<1>1. stack \in Seq(Frames) /\ Stacked
  BY DEF Inv, Stacked
<1>2. stack' = Front /\ ret' = v
  BY DEF Return, Front
<1>3. /\ Len(stack) \in Nat /\ Len(stack) >= 1 /\ Front \in Seq(Frames) /\ Len(Front) = Len(stack) - 1
      /\ \A k \in 1 .. Len(Front) : Front[k] = stack[k]
  BY <1>1, TopAndFront
<1> DEFINE t == Front
           n == Len(stack)
<1>4. Stacked'
  <2> HIDE DEF Front
  <2>1. \A k \in 1 .. Len(t) : k \in 1 .. n /\ k \in 1 .. n - 1 /\ t[k] = stack[k]
    BY <1>3
  <2>2. \A k \in 1 .. Len(t) : FrameOK(t[k]) /\ Waits(t[k])
    BY <1>1, <2>1 DEF Stacked
  <2>3. t # << >> => t[1].fn = "exec_item" /\ Waits(t[Len(t)])
    <3> SUFFICES ASSUME t # << >> PROVE t[1].fn = "exec_item" /\ Waits(t[Len(t)])
      OBVIOUS
    <3>1. Len(t) >= 1 /\ Len(t) \in 1 .. Len(t) /\ 1 \in 1 .. Len(t)
      BY <1>3
    <3> QED BY <1>1, <2>1, <2>2, <3>1 DEF Stacked
  <2>4. t = << >> => v.scope = NoScope
    <3> SUFFICES ASSUME t = << >> PROVE v.scope = NoScope
      OBVIOUS
    <3>1. n = 1
      BY <1>3
    <3>2. Top.fn = "exec_item"
      BY <1>1, <3>1 DEF Stacked, Top
    <3> QED BY <3>2
  <2>5. \A k \in 1 .. Len(t) - 1 : Waits(t[k])
    <3>1. \A k \in 1 .. Len(t) - 1 : k \in 1 .. Len(t)
      BY <1>3
    <3> QED BY <2>2, <3>1
  <2> QED BY <1>2, <1>3, <2>2, <2>3, <2>4, <2>5 DEF Stacked, Top
<1>5. \A x \in Targets : Account(x)'
  <2> TAKE x \in Targets
  <2>1. StackHeld(stack', x) = StackHeld(Front, x) + 0
    <3>1. StackHeld(Front, x) \in Nat
      BY <1>3, StackHeldType
    <3> QED BY <1>2, <3>1
  <2>2. 0 + Owns(ret', current', instance', trash', x) = Owns(ret', current', instance', trash', x)
    <3>1. Owns(ret', current', instance', trash', x) \in Nat
      BY OwnsType DEF Settles
    <3> QED BY <3>1
  <2>3. Fair(x, Mine(x), 0 + Owns(ret', current', instance', trash', x))
    BY <2>2
  <2> QED BY <2>1, <2>3, AccountAfter
<1> QED BY <1>4, <1>5, RegistersAfter DEF Inv

\* It goes on with another frame.
LEMMA BecomeLaw ==
    ASSUME Inv, trapped = "no", stack # << >>, Settles, NEW f \in Frames, Become(f),
           FrameOK(f), f.fn = Top.fn, Waits(f) \/ ret'.scope = NoScope,
           \A x \in Targets : Fair(x, Mine(x), FrameHeld(f, x) + Owns(ret', current', instance', trash', x))
    PROVE  Inv'
<1>1. stack \in Seq(Frames) /\ Stacked
  BY DEF Inv, Stacked
<1> DEFINE n == Len(stack)
           t == [stack EXCEPT ![n] = f]
<1>2. stack' = t
  BY DEF Become
<1>3. /\ n \in Nat /\ n >= 1 /\ n \in 1 .. n /\ Front \in Seq(Frames) /\ Len(Front) = n - 1
      /\ \A k \in 1 .. n - 1 : Front[k] = stack[k]
  BY <1>1, TopAndFront
<1>4. /\ t \in Seq(Frames) /\ Len(t) = n /\ t[n] = f
      /\ \A k \in 1 .. n - 1 : k \in 1 .. n /\ t[k] = stack[k]
  <2>1. /\ t \in Seq(Frames) /\ Len(t) = Len(stack)
        /\ \A j \in 1 .. Len(stack) : t[j] = IF j = n THEN f ELSE stack[j]
    BY <1>1, <1>3, ExceptSeq
  <2> HIDE DEF t
  <2> QED BY <1>3, <2>1
<1> HIDE DEF t
<1>5. Stacked'
  <2>1. \A k \in 1 .. n : k \in 1 .. n - 1 \/ k = n
    BY <1>3
  <2>2. \A k \in 1 .. n : FrameOK(t[k])
    BY <1>1, <1>4, <2>1 DEF Stacked
  <2>3. \A k \in 1 .. n - 1 : Waits(t[k])
    BY <1>1, <1>4 DEF Stacked
  <2>4. t[1].fn = "exec_item"
    <3>1. CASE n = 1
      <4>1. f.fn = "exec_item"
        BY <1>1, <3>1 DEF Stacked, Top
      <4> QED BY <1>4, <3>1, <4>1
    <3>2. CASE n # 1
      <4>1. 1 \in 1 .. n - 1
        BY <1>3, <3>2
      <4> QED BY <1>1, <1>4, <4>1 DEF Stacked
    <3> QED BY <3>1, <3>2
  <2>5. t # << >>
    BY <1>3, <1>4
  <2>6. ret'.scope = NoScope \/ Waits(t[Len(t)])
    BY <1>4
  <2> QED BY <1>2, <1>4, <2>2, <2>3, <2>4, <2>5, <2>6 DEF Stacked, Top
<1>6. \A x \in Targets : Account(x)'
  <2> TAKE x \in Targets
  <2>1. StackHeld(stack', x) = StackHeld(Front, x) + FrameHeld(f, x)
    <3>1. t # << >> /\ Len(Front) = Len(t) - 1 /\ \A k \in 1 .. Len(Front) : Front[k] = t[k]
      BY <1>3, <1>4
    <3> QED BY <1>2, <1>3, <1>4, <3>1, StackTop
  <2>2. FrameHeld(f, x) \in Nat
    BY FrameHeldType
  <2> QED BY <2>1, <2>2, AccountAfter
<1> QED BY <1>5, <1>6, RegistersAfter DEF Inv

\* A frame moves on to another point of its function.
At_(pc) == [Top EXCEPT !.pc = pc]
SameSlots(f, g) ==
    f.fn = g.fn /\ f.weak = g.weak /\ f.val = g.val /\ f.type = g.type /\ f.hold = g.hold /\ f.prev = g.prev

LEMMA GoesTo ==
    ASSUME stack \in Seq(Frames), stack # << >>, NEW pc \in Points
    PROVE  /\ At_(pc) \in Frames /\ At_(pc).pc = pc /\ SameSlots(At_(pc), Top)
           /\ \A x : FrameHeld(At_(pc), x) = FrameHeld(Top, x)
           /\ [stack EXCEPT ![Len(stack)].pc = pc] = [stack EXCEPT ![Len(stack)] = At_(pc)]
<1>1. Top \in Frames
  BY TopAndFront
<1>2. At_(pc) \in Frames /\ At_(pc).pc = pc /\ SameSlots(At_(pc), Top)
  BY <1>1 DEF At_, Frames, SameSlots
<1>3. \A x : FrameHeld(At_(pc), x) = FrameHeld(Top, x)
  BY <1>2 DEF FrameHeld, SameSlots
<1>4. [stack EXCEPT ![Len(stack)].pc = pc] = [stack EXCEPT ![Len(stack)] = At_(pc)]
  BY DEF At_, Top
<1> QED BY <1>2, <1>3, <1>4

LEMMA TopOK ==
    ASSUME Inv, stack # << >>
    PROVE  FrameOK(Top) /\ Top \in Frames /\ stack \in Seq(Frames) /\ (~Waits(Top) => ret.scope = NoScope)
<1>1. stack \in Seq(Frames)
  BY DEF Inv, Stacked
<1>2. Top \in Frames /\ Len(stack) \in 1 .. Len(stack)
  BY <1>1, TopAndFront
<1>3. FrameOK(Top)
  BY <1>2 DEF Inv, Stacked, Top
<1> QED BY <1>1, <1>2, <1>3 DEF Inv, Stacked

LEMMA NewFrame ==
    ASSUME NEW fn \in Functions, NEW weak \in BOOLEAN
    PROVE  /\ Frame(fn, weak) \in Frames /\ FrameOK(Frame(fn, weak)) /\ ~Waits(Frame(fn, weak))
           /\ \A x \in Targets : FrameHeld(Frame(fn, weak), x) = 0
<1> DEFINE f == Frame(fn, weak)
<1>1. Plain \in Values /\ NoScope \in References
  BY PlainHolds DEF References
<1>2. /\ f \in Frames /\ f.fn = fn /\ f.pc = "start" /\ f.val = Plain /\ f.type = Plain
      /\ f.hold = NoScope /\ f.prev = NoScope
  <2> DEFINE p == Plain
             no == FALSE
             pc == "start"
             nil == NoScope
  <2>a. p \in Values /\ nil \in References
    BY <1>1
  <2>b. no \in BOOLEAN
    BY Zenon
  <2>c. pc \in Points
    BY DEF Points
  <2>0. p \in Values /\ no \in BOOLEAN /\ pc \in Points /\ nil \in References
    BY <2>a, <2>b, <2>c, Zenon
  <2>1. f = [fn |-> fn, pc |-> pc, weak |-> weak, val |-> p, type |-> p,
             hold |-> nil, prev |-> nil, params |-> nil, builtin |-> no]
    BY DEF Frame
  <2> HIDE DEF p, f, no, pc, nil
  <2>2. f \in Frames
    BY <2>0, <2>1 DEF Frames
  <2>3. f.fn = fn /\ f.pc = "start" /\ f.val = p /\ f.type = p /\ f.hold = NoScope /\ f.prev = NoScope
    BY <2>1 DEF pc, nil
  <2> QED BY <2>2, <2>3 DEF p
<1> HIDE DEF f
<1>3. FrameOK(f)
  BY <1>2 DEF FrameOK, Bare
<1>4. ~Waits(f)
  BY <1>2 DEF Waits
<1>5. \A x \in Targets : FrameHeld(f, x) = 0
  <2> TAKE x \in Targets
  <2>1. HeldBy(Plain, x) = 0 /\ Ref(NoScope, x) = 0
    BY PlainHolds, RefNothing
  <2> QED BY <1>2, <2>1 DEF FrameHeld
<1> QED BY <1>2, <1>3, <1>4, <1>5 DEF f

\* It calls another function.
LEMMA CallLaw ==
    ASSUME Inv, trapped = "no", stack # << >>, NEW pc \in Points, NEW fn \in Functions, NEW weak \in BOOLEAN,
           Call(pc, Frame(fn, weak)), UNCHANGED <<heap, registers, trash, ret, status>>,
           FrameOK(At_(pc)), Waits(At_(pc)), ret.scope = NoScope
    PROVE  Inv'
<1>1. stack \in Seq(Frames) /\ Stacked
  BY DEF Inv, Stacked
<1> DEFINE n == Len(stack)
           f == At_(pc)
           c == Frame(fn, weak)
           t == [stack EXCEPT ![n] = f]
           u == Append(t, c)
<1>2. f \in Frames /\ SameSlots(f, Top) /\ (\A x : FrameHeld(f, x) = FrameHeld(Top, x))
      /\ stack' = u
  BY <1>1, GoesTo DEF Call
<1>3. /\ n \in Nat /\ n >= 1 /\ n \in 1 .. n /\ Front \in Seq(Frames) /\ Len(Front) = n - 1
      /\ \A k \in 1 .. n - 1 : Front[k] = stack[k]
  BY <1>1, TopAndFront
<1>4. /\ t \in Seq(Frames) /\ Len(t) = n /\ t[n] = f
      /\ \A k \in 1 .. n - 1 : k \in 1 .. n /\ t[k] = stack[k]
  <2>1. /\ t \in Seq(Frames) /\ Len(t) = Len(stack)
        /\ \A j \in 1 .. Len(stack) : t[j] = IF j = n THEN f ELSE stack[j]
    BY <1>1, <1>2, <1>3, ExceptSeq
  <2> HIDE DEF t, f
  <2> QED BY <1>3, <2>1
<1>5. c \in Frames /\ FrameOK(c) /\ ~Waits(c) /\ \A x \in Targets : FrameHeld(c, x) = 0
  BY NewFrame
<1> HIDE DEF t, f, c
<1>6. /\ u \in Seq(Frames) /\ u # << >> /\ Len(u) = n + 1 /\ u[n + 1] = c
      /\ \A k \in 1 .. n : u[k] = t[k]
  BY <1>4, <1>5, AppendProperties
<1> HIDE DEF u
<1>7. FrameOK(f) /\ Waits(f) /\ f.fn = Top.fn
  BY <1>2 DEF f, SameSlots
<1>8. Stacked'
  <2>1. \A k \in 1 .. n + 1 : k \in 1 .. n - 1 \/ k = n \/ k = n + 1
    BY <1>3
  <2>2. \A k \in 1 .. n - 1 : k \in 1 .. n /\ u[k] = stack[k] /\ FrameOK(stack[k]) /\ Waits(stack[k])
    BY <1>1, <1>4, <1>6 DEF Stacked
  <2>3. u[n] = f
    BY <1>3, <1>4, <1>6
  <2>4. \A k \in 1 .. n + 1 : FrameOK(u[k])
    BY <1>5, <1>6, <1>7, <2>1, <2>2, <2>3
  <2>5. \A k \in 1 .. n : Waits(u[k])
    <3>1. \A k \in 1 .. n : k \in 1 .. n - 1 \/ k = n
      BY <1>3
    <3> QED BY <1>7, <2>2, <2>3, <3>1
  <2>6. u[1].fn = "exec_item"
    <3>1. CASE n = 1
      BY <1>1, <1>7, <2>3, <3>1 DEF Stacked, Top
    <3>2. CASE n # 1
      <4>1. 1 \in 1 .. n - 1
        BY <1>3, <3>2
      <4> QED BY <1>1, <2>2, <4>1 DEF Stacked
    <3> QED BY <3>1, <3>2
  <2>7. Len(u) - 1 = n
    BY <1>3, <1>6
  <2> QED BY <1>2, <1>6, <2>4, <2>5, <2>6, <2>7 DEF Stacked
<1>9. \A x \in Targets : Held(x)' = Held(x)
  <2> TAKE x \in Targets
  <2>1. StackHeld(u, x) = StackHeld(t, x) + FrameHeld(c, x)
    <3>1. Len(t) = Len(u) - 1 /\ u[Len(u)] = c /\ \A k \in 1 .. Len(t) : t[k] = u[k]
      BY <1>3, <1>4, <1>6
    <3> QED BY <1>4, <1>6, <3>1, StackTop
  <2>2. StackHeld(t, x) = StackHeld(Front, x) + FrameHeld(f, x)
    <3>1. t # << >> /\ Len(Front) = Len(t) - 1 /\ t[Len(t)] = f /\ \A k \in 1 .. Len(Front) : Front[k] = t[k]
      BY <1>3, <1>4
    <3> QED BY <1>3, <1>4, <3>1, StackTop
  <2>3. StackHeld(stack, x) = StackHeld(Front, x) + FrameHeld(Top, x)
    BY <1>1, TopAndFront, StackTop DEF Top
  <2>4. StackHeld(t, x) \in Nat /\ FrameHeld(c, x) = 0 /\ FrameHeld(f, x) = FrameHeld(Top, x)
    BY <1>2, <1>4, <1>5, StackHeldType
  <2>5. StackHeld(u, x) = StackHeld(stack, x)
    BY <2>1, <2>2, <2>3, <2>4
  <2> QED BY <1>2, <2>5 DEF Held, Root, registers, status
<1>10. \A x \in Targets : Account(x)'
  BY <1>9 DEF Inv, Account, status
<1>11. Sound(heap, Labels)' /\ Registers'
  BY DEF Inv, Registers, registers, status
<1> QED BY <1>8, <1>10, <1>11 DEF Inv

\* The process stops.
LEMMA TrapLaw ==
    ASSUME Inv, trapped = "no", NEW why, why \in Traps \ {"no", "exit"}, Trap(why)
    PROVE  Inv'
<1>1. Stacked'
  BY DEF Inv, Stacked, Trap, Top
<1>2. \A x \in Targets : Account(x)'
  <2> TAKE x \in Targets
  <2>1. Root' = Root
    BY DEF Root, Trap
  <2>2. Held(x)' = Held(x)
    BY <2>1 DEF Held, Trap
  <2> QED BY <2>2 DEF Inv, Account, Trap
<1>3. Sound(heap, Labels)' /\ Registers'
  BY DEF Inv, Registers, Trap
<1> QED BY <1>1, <1>2, <1>3 DEF Inv

\* A function returns after a failed check: what it took may be lost.
LEMMA ErrorLaw ==
    ASSUME Inv, trapped = "no", stack # << >>, Sound(heap', Labels),
           \A x \in Targets : Spare(heap', x) >= Spare(heap, x),
           error' = TRUE, Return(Plain), UNCHANGED <<registers, trash, trapped>>
    PROVE  Inv'
<1>1. Plain \in Proper /\ (\A x \in Targets : HeldBy(Plain, x) = 0) /\ Plain.scope = NoScope
  BY PlainHolds DEF Plain, Value
<1>2. Settles
  BY <1>1 DEF Settles, Inv, Registers, registers, Return
<1>3. \A x \in Targets : Fair(x, Mine(x), Owns(ret', current', instance', trash', x))
  <2> TAKE x \in Targets
  <2> DEFINE s == Spare(heap', x)
             m == HeldBy(ret, x)
             p == Ref(current, x)
             q == Ref(instance, x)
             u == ValuesHeld(trash, x)
             f == FrameHeld(Top, x)
  <2>1. /\ m \in Nat /\ p \in Nat /\ q \in Nat /\ u \in Nat /\ f \in Nat
        /\ s \in Int /\ Spare(heap, x) \in Int
    <3>1. Sound(heap, Labels) /\ trash \in Seq(Proper)
      BY DEF Inv, Registers
    <3> QED BY <3>1, HeldByType, RefType, ValuesHeldType, FrameHeldType, SpareType
  <2>2. Mine(x) = f + (m + p + q + u)
    BY DEF Mine, Owns
  <2>3. Owns(ret', current', instance', trash', x) = 0 + p + q + u
    BY <1>1 DEF Owns, Return, registers
  <2>4. s >= Spare(heap, x)
    OBVIOUS
  <2> HIDE DEF s, m, p, q, u, f
  <2>5. s + (f + (m + p + q + u)) >= Spare(heap, x) + (0 + p + q + u)
    BY <2>1, <2>4
  <2> QED BY <2>2, <2>3, <2>5 DEF Fair, s
<1> DEFINE v == Plain
<1>4. Return(v) /\ v.scope = NoScope
  BY <1>1
<1> HIDE DEF v
<1>5. Top.fn = "exec_item" => v.scope = NoScope
  BY <1>4
<1> QED BY <1>2, <1>3, <1>4, <1>5, ReturnLaw

LEMMA FailLaw ==
    ASSUME Inv, trapped = "no", stack # << >>, Fail
    PROVE  Inv'
<1>1. Sound(heap', Labels) /\ \A x \in Targets : Spare(heap', x) >= Spare(heap, x)
  <2>1. Sound(heap, Labels) /\ heap' = heap
    BY DEF Inv, Fail
  <2>2. \A x \in Targets : Spare(heap, x) >= Spare(heap, x)
    <3> TAKE x \in Targets
    <3>1. Spare(heap, x) \in Int
      BY <2>1, SpareType
    <3> QED BY <3>1
  <2> QED BY <2>1, <2>2
<1>2. error' = TRUE /\ Return(Plain) /\ UNCHANGED <<registers, trash, trapped>>
  BY DEF Fail, registers
<1> QED BY <1>1, <1>2, ErrorLaw


(***************************************************************************)
(* The same, for steps that give back exactly what they take.              *)
(***************************************************************************)
LEMMA MineIs ==
    \A x : Mine(x) = FrameHeld(Top, x)
                     + (HeldBy(ret, x) + Ref(current, x) + Ref(instance, x) + ValuesHeld(trash, x))
BY DEF Mine, Owns

\* The registers are as before, but for current, ret and the trash.
Runs ==
    /\ Sound(heap', Labels)
    /\ current' \in References /\ current' # NoScope /\ trash' \in Seq(Proper) /\ ret' \in Proper
    /\ instance' = instance /\ trapped' = "no"
    /\ error' = TRUE \/ error' = error

LEMMA RunsSettle ==
    ASSUME Inv, Runs
    PROVE  Settles
<1>1. error' \in BOOLEAN /\ (error => error')
  <2>1. error \in BOOLEAN
    BY DEF Inv, Registers
  <2>2. CASE error' = TRUE
    BY <2>2
  <2>3. CASE error' = error
    BY <2>1, <2>3
  <2> QED BY <2>2, <2>3 DEF Runs
<1>2. instance \in References
  BY DEF Inv, Registers
<1> QED BY <1>1, <1>2 DEF Runs, Settles

\* The function goes on at another point.
LEMMA GoLaw ==
    ASSUME Inv, trapped = "no", stack # << >>, Runs, trash' = trash, NEW pc \in Points,
           stack' = [stack EXCEPT ![Len(stack)] = At_(pc)],
           FrameOK(At_(pc)), Waits(At_(pc)) \/ ret'.scope = NoScope,
           \A x \in Targets : Spare(heap', x) + HeldBy(ret, x) + Ref(current, x)
                              = Spare(heap, x) + HeldBy(ret', x) + Ref(current', x)
    PROVE  Inv'
<1>1. Settles
  BY RunsSettle
<1>2. /\ stack \in Seq(Frames) /\ At_(pc) \in Frames /\ SameSlots(At_(pc), Top)
      /\ \A x : FrameHeld(At_(pc), x) = FrameHeld(Top, x)
  BY TopOK, GoesTo
<1> DEFINE f == At_(pc)
<1> HIDE DEF f
<1>3. \A x \in Targets : Fair(x, Mine(x), FrameHeld(f, x) + Owns(ret', current', instance', trash', x))
  <2> TAKE x \in Targets
  <2> DEFINE s == Spare(heap', x)
             o == Spare(heap, x)
             m == HeldBy(ret, x)
             mm == HeldBy(ret', x)
             p == Ref(current, x)
             pp == Ref(current', x)
             q == Ref(instance, x)
             u == ValuesHeld(trash, x)
             e == FrameHeld(Top, x)
  <2>1. /\ m \in Nat /\ mm \in Nat /\ p \in Nat /\ pp \in Nat /\ q \in Nat /\ u \in Nat /\ e \in Nat
        /\ s \in Int /\ o \in Int
    <3>1. Sound(heap, Labels) /\ trash \in Seq(Proper) /\ Sound(heap', Labels)
      BY DEF Inv, Registers, Runs
    <3> QED BY <3>1, HeldByType, RefType, ValuesHeldType, FrameHeldType, SpareType
  <2>2. Mine(x) = e + (m + p + q + u)
    BY MineIs
  <2>3. Owns(ret', current', instance', trash', x) = mm + pp + q + u
    BY DEF Owns, Runs
  <2>4. FrameHeld(f, x) = e
    BY <1>2 DEF f
  <2>5. s + m + p = o + mm + pp
    OBVIOUS
  <2> HIDE DEF s, o, m, mm, p, pp, q, u, e
  <2>6. s + (e + (m + p + q + u)) = o + (e + (mm + pp + q + u))
    BY <2>1, <2>5
  <2>7. s + (e + (m + p + q + u)) \in Int
    BY <2>1
  <2>8. s + (e + (m + p + q + u)) >= o + (e + (mm + pp + q + u))
    BY <2>6, <2>7
  <2> QED BY <2>2, <2>3, <2>4, <2>6, <2>8 DEF Fair, s, o
<1>4. f.fn = Top.fn /\ Become(f) /\ FrameOK(f) /\ f \in Frames /\ (Waits(f) \/ ret'.scope = NoScope)
  BY <1>2 DEF f, SameSlots, Become
<1> QED BY <1>1, <1>3, <1>4, BecomeLaw

\* The function returns.
LEMMA EndLaw ==
    ASSUME Inv, trapped = "no", stack # << >>, Runs, stack' = Front,
           Top.fn = "exec_item" => ret'.scope = NoScope,
           \A x \in Targets :
               Spare(heap', x) + FrameHeld(Top, x) + HeldBy(ret, x) + Ref(current, x) + ValuesHeld(trash, x)
               = Spare(heap, x) + HeldBy(ret', x) + Ref(current', x) + ValuesHeld(trash', x)
    PROVE  Inv'
<1>1. Settles
  BY RunsSettle
<1>2. \A x \in Targets : Fair(x, Mine(x), Owns(ret', current', instance', trash', x))
  <2> TAKE x \in Targets
  <2> DEFINE s == Spare(heap', x)
             o == Spare(heap, x)
             m == HeldBy(ret, x)
             mm == HeldBy(ret', x)
             p == Ref(current, x)
             pp == Ref(current', x)
             q == Ref(instance, x)
             u == ValuesHeld(trash, x)
             uu == ValuesHeld(trash', x)
             e == FrameHeld(Top, x)
  <2>1. /\ m \in Nat /\ mm \in Nat /\ p \in Nat /\ pp \in Nat /\ q \in Nat /\ u \in Nat /\ uu \in Nat
        /\ e \in Nat /\ s \in Int /\ o \in Int
    <3>1. Sound(heap, Labels) /\ trash \in Seq(Proper) /\ Sound(heap', Labels) /\ trash' \in Seq(Proper)
      BY DEF Inv, Registers, Runs
    <3> QED BY <3>1, HeldByType, RefType, ValuesHeldType, FrameHeldType, SpareType
  <2>2. Mine(x) = e + (m + p + q + u)
    BY MineIs
  <2>3. Owns(ret', current', instance', trash', x) = mm + pp + q + uu
    BY DEF Owns, Runs
  <2>5. s + e + m + p + u = o + mm + pp + uu
    OBVIOUS
  <2> HIDE DEF s, o, m, mm, p, pp, q, u, uu, e
  <2>6. s + (e + (m + p + q + u)) = o + (mm + pp + q + uu)
    BY <2>1, <2>5
  <2>7. s + (e + (m + p + q + u)) \in Int
    BY <2>1
  <2>8. s + (e + (m + p + q + u)) >= o + (mm + pp + q + uu)
    BY <2>6, <2>7
  <2> QED BY <2>2, <2>3, <2>6, <2>8 DEF Fair, s, o
<1> DEFINE v == ret'
<1>3. Return(v) /\ (Top.fn = "exec_item" => v.scope = NoScope)
  BY DEF Return, Front
<1> QED BY <1>1, <1>2, <1>3, ReturnLaw

\* The function returns after a failed check, in another scope: what it took may be lost.
LEMMA LostLaw ==
    ASSUME Inv, trapped = "no", stack # << >>, Runs, stack' = Front, trash' = trash,
           ret' = Plain, error' = TRUE,
           \A x \in Targets : Spare(heap', x) + Ref(current, x) >= Spare(heap, x) + Ref(current', x)
    PROVE  Inv'
<1>1. Settles
  BY RunsSettle
<1>2. \A x \in Targets : Fair(x, Mine(x), Owns(ret', current', instance', trash', x))
  <2> TAKE x \in Targets
  <2> DEFINE s == Spare(heap', x)
             o == Spare(heap, x)
             m == HeldBy(ret, x)
             p == Ref(current, x)
             pp == Ref(current', x)
             q == Ref(instance, x)
             u == ValuesHeld(trash, x)
             e == FrameHeld(Top, x)
  <2>1. /\ m \in Nat /\ p \in Nat /\ pp \in Nat /\ q \in Nat /\ u \in Nat /\ e \in Nat
        /\ s \in Int /\ o \in Int
    <3>1. Sound(heap, Labels) /\ trash \in Seq(Proper) /\ Sound(heap', Labels)
      BY DEF Inv, Registers, Runs
    <3> QED BY <3>1, HeldByType, RefType, ValuesHeldType, FrameHeldType, SpareType
  <2>2. Mine(x) = e + (m + p + q + u)
    BY MineIs
  <2>3. Owns(ret', current', instance', trash', x) = 0 + pp + q + u
    BY PlainHolds DEF Owns, Runs
  <2>5. s + p >= o + pp
    OBVIOUS
  <2> HIDE DEF s, o, m, p, pp, q, u, e
  <2>6. s + (e + (m + p + q + u)) >= o + (0 + pp + q + u)
    BY <2>1, <2>5
  <2> QED BY <2>2, <2>3, <2>6 DEF Fair, s, o
<1> DEFINE v == Plain
<1>3. Return(v) /\ v.scope = NoScope
  BY DEF Return, Front, Plain, Value
<1> HIDE DEF v
<1>4. Top.fn = "exec_item" => v.scope = NoScope
  BY <1>3
<1> QED BY <1>1, <1>2, <1>3, <1>4, ReturnLaw


(***************************************************************************)
(* Children: what an item or an expression evaluates to.                   *)
(***************************************************************************)
LEMMA NothingHeld ==
    ASSUME NEW v \in Proper, v.scope = NoScope, NEW x \in Targets
    PROVE  HeldBy(v, x) = 0
<1>1. v.owner = NoScope
  BY DEF Proper
<1>2. x.target # NoScope
  BY DEF Targets, Scopes
<1> DEFINE a == ScopeHandle(v)
           b == OwnerHandle(v)
<1>3. a.target = NoScope /\ b.target = NoScope
  BY <1>1 DEF ScopeHandle, OwnerHandle, Handle
<1> HIDE DEF a, b
<1>4. a # x /\ b # x
  BY <1>2, <1>3
<1> QED BY <1>4 DEF HeldBy, One, a, b

LEMMA ResolveLaw ==
    ASSUME NEW h, NEW r, NEW name, Resolve(h, r, name) \notin {NoScope, Dangling}
    PROVE  name \in Bound(h, Resolve(h, r, name))
<1> DEFINE walk[n \in 0 .. Cardinality(DOMAIN h)] ==
               IF n = 0 THEN r
               ELSE LET s == walk[n - 1]
                    IN IF At(h, s).mem /\ name \notin Bound(h, s) THEN h[s].parent ELSE s
           last == walk[Cardinality(DOMAIN h)]
<1>1. Resolve(h, r, name) = CASE last = NoScope -> NoScope
                              [] last # NoScope /\ name \in Bound(h, last) -> last
                              [] last # NoScope /\ name \notin Bound(h, last) -> Dangling
  BY Zenon DEF Resolve
<1> HIDE DEF last, walk
<1> QED BY <1>1

\* A name is looked up where it is bound.
LEMMA LookupBound ==
    ASSUME NEW name, Lookup(name) \notin {NoScope, Dangling}
    PROVE  name \in Bound(heap, Lookup(name))
<1>1. CASE instance # NoScope /\ name \notin Bound(heap, current) /\ name \in Bound(heap, instance)
  <2>1. Lookup(name) = instance
    BY <1>1 DEF Lookup
  <2> QED BY <1>1, <2>1
<1>2. CASE ~(instance # NoScope /\ name \notin Bound(heap, current) /\ name \in Bound(heap, instance))
  <2>1. Lookup(name) = Resolve(heap, current, name)
    BY <1>2 DEF Lookup
  <2> QED BY <2>1, ResolveLaw
<1> QED BY <1>1, <1>2

LEMMA LookupLaw ==
    ASSUME Inv, NEW name, Lookup(name) \in DOMAIN heap
    PROVE  name \in Bound(heap, Lookup(name))
<1>1. DOMAIN heap \subseteq Scopes
  BY HeapsHave DEF Inv, Sound
<1>2. Lookup(name) \notin {NoScope, Dangling}
  BY <1>1 DEF Scopes, NoScope, Dangling
<1> QED BY <1>2, LookupBound

LEMMA LookupValue ==
    ASSUME Inv, NEW name, Lookup(name) \in DOMAIN heap
    PROVE  ValueOf(heap, Lookup(name), name) \in Proper /\ Vouched(heap, ValueOf(heap, Lookup(name), name))
<1>1. Sound(heap, Labels)
  BY DEF Inv
<1>2. name \in Bound(heap, Lookup(name))
  BY LookupLaw
<1> QED BY <1>1, <1>2, AllCovered, BoundValue

LEMMA ResultLaw ==
    ASSUME Inv, trapped = "no", stack # << >>, ret.scope = NoScope, NEW pc \in Points,
           FrameOK(At_(pc)), Waits(At_(pc)), NEW v \in Proper, Vouched(heap, v), Result(pc, v)
    PROVE  Inv'
<1>1. Sound(heap, Labels) /\ Registers /\ stack \in Seq(Frames) /\ ret \in Proper /\ v \in Values
  BY DEF Inv, Registers, Stacked, Proper
<1>2. heap' = ValueCopy(heap, v) /\ ret' = v /\ UNCHANGED <<registers, trash, status>>
  BY DEF Result
<1>3. /\ Sound(heap', Labels)
      /\ \A x \in Targets : Spare(heap', x) = Spare(heap, x) + HeldBy(v, x)
  BY <1>1, <1>2, ValueCopyLaw DEF Adds
<1>4. Runs /\ trash' = trash /\ current' = current
  BY <1>1, <1>2, <1>3 DEF Runs, Registers, registers, status
<1>5. \A x \in Targets : Spare(heap', x) + HeldBy(ret, x) + Ref(current, x)
                         = Spare(heap, x) + HeldBy(ret', x) + Ref(current', x)
  <2> TAKE x \in Targets
  <2>1. HeldBy(ret, x) = 0
    BY <1>1, NothingHeld
  <2>2. Ref(current, x) \in Nat /\ HeldBy(v, x) \in Nat /\ Spare(heap, x) \in Int
    BY <1>1, RefType, HeldByType, SpareType
  <2> QED BY <1>2, <1>3, <1>4, <2>1, <2>2
<1>6. stack' = [stack EXCEPT ![Len(stack)] = At_(pc)]
  BY DEF Result, Goto, Become, At_
<1> QED BY <1>4, <1>5, <1>6, GoLaw

LEMMA IdentifierLaw ==
    ASSUME Inv, trapped = "no", stack # << >>, ret.scope = NoScope, NEW pc \in Points,
           FrameOK(At_(pc)), Waits(At_(pc)), NEW name, EvalIdentifier(pc, name)
    PROVE  Inv'
<1> DEFINE scope == Lookup(name)
           v == ValueOf(heap, scope, name)
<1>1. CASE Trap("dangling")
  <2> DEFINE why == "dangling"
  <2>1. Trap(why) /\ why \in Traps \ {"no", "exit"}
    BY <1>1 DEF Traps
  <2> HIDE DEF why
  <2> QED BY <2>1, TrapLaw
<1>2. CASE Result(pc, Unknown)
  <2> DEFINE u == Unknown
  <2>1. u \in Proper /\ Vouched(heap, u) /\ Result(pc, u)
    BY <1>2, PlainHolds DEF Vouched
  <2> HIDE DEF u
  <2> QED BY <2>1, ResultLaw
<1>3. CASE scope \in DOMAIN heap /\ Result(pc, v)
  <2>1. v \in Proper /\ Vouched(heap, v) /\ Result(pc, v)
    BY <1>3, LookupValue
  <2> HIDE DEF v
  <2> QED BY <2>1, ResultLaw
<1> QED BY <1>1, <1>2, <1>3 DEF EvalIdentifier

LEMMA ChildLaw ==
    ASSUME Inv, trapped = "no", stack # << >>, ret.scope = NoScope, NEW pc \in Points, NEW weak, weak \in BOOLEAN,
           FrameOK(At_(pc)), Waits(At_(pc)), ExecItem(pc, weak)
    PROVE  Inv'
<1>1. CASE Result(pc, Plain)
  <2> DEFINE u == Plain
  <2>1. u \in Proper /\ Vouched(heap, u) /\ Result(pc, u)
    BY <1>1, PlainHolds DEF Vouched
  <2> HIDE DEF u
  <2> QED BY <2>1, ResultLaw
<1>2. CASE \E name \in Identifiers : EvalIdentifier(pc, name)
  BY <1>2, IdentifierLaw
<1>3. CASE EvalSelf(pc)
  <2>1. CASE EvalIdentifier(pc, Self)
    <3> DEFINE s == Self
    <3>1. EvalIdentifier(pc, s)
      BY <2>1
    <3> HIDE DEF s
    <3> QED BY <3>1, IdentifierLaw
  <2>2. CASE /\ error' = TRUE
             /\ Goto(pc)
             /\ UNCHANGED <<heap, registers, trash, ret, trapped>>
    <3>1. Sound(heap, Labels) /\ Registers /\ stack \in Seq(Frames)
      BY DEF Inv, Stacked
    <3>2. Runs /\ trash' = trash /\ current' = current /\ heap' = heap /\ ret' = ret
      BY <2>2, <3>1 DEF Runs, Registers, registers
    <3>3. \A x \in Targets : Spare(heap', x) + HeldBy(ret, x) + Ref(current, x)
                             = Spare(heap, x) + HeldBy(ret', x) + Ref(current', x)
      BY <3>2
    <3>4. stack' = [stack EXCEPT ![Len(stack)] = At_(pc)]
      BY <2>2 DEF Goto, Become, At_
    <3> QED BY <3>2, <3>3, <3>4, GoLaw
  <2> QED BY <1>3, <2>1, <2>2 DEF EvalSelf
<1>4. ASSUME NEW kinds, kinds \subseteq Functions, Choice(kinds, pc, weak)
      PROVE  Inv'
  <2>1. PICK fn \in kinds : /\ Call(pc, Frame(fn, weak))
                            /\ UNCHANGED <<heap, registers, trash, ret, status>>
    BY <1>4 DEF Choice
  <2>2. fn \in Functions
    BY <1>4
  <2> QED BY <2>1, <2>2, CallLaw
<1>5. Expressions \subseteq Functions /\ Statements \subseteq Functions
  BY DEF Functions, Constructs
<1>6. CASE Choice(Expressions, pc, weak)
  <2> DEFINE k == Expressions
  <2>1. k \subseteq Functions /\ Choice(k, pc, weak)
    BY <1>5, <1>6
  <2> HIDE DEF k
  <2> QED BY <1>4, <2>1
<1>7. CASE Choice(Statements, pc, weak)
  <2> DEFINE k == Statements
  <2>1. k \subseteq Functions /\ Choice(k, pc, weak)
    BY <1>5, <1>7
  <2> HIDE DEF k
  <2> QED BY <1>4, <2>1
<1> QED BY <1>1, <1>2, <1>3, <1>6, <1>7 DEF ExecItem, EvalExpr


(***************************************************************************)
(* What the operators on the heap do to strong references.                 *)
(***************************************************************************)
LEMMA Vouching ==
    ASSUME NEW h, Sound(h, Labels), NEW r \in Scopes, \A x \in Targets : Spare(h, x) >= Ref(r, x)
    PROVE  /\ Refs(h, Handle(r, FALSE)) >= 1 /\ Spare(h, Handle(r, FALSE)) >= 1
           /\ r \in DOMAIN h /\ At(h, r) = h[r] /\ h[r].strong >= 1 /\ h[r].mem
<1> DEFINE no == FALSE
<1>1. no \in BOOLEAN
  BY Zenon
<1>2. Handle(r, no) \in Targets /\ Ref(r, Handle(r, no)) = 1
  BY HandleHas, RefSelf
<1>3. Spare(h, Handle(r, no)) >= 1
  BY <1>2
<1>4. Refs(h, Handle(r, no)) >= 1
  BY <1>1, <1>3, Backing
<1>5. r \in DOMAIN h /\ At(h, r) = h[r] /\ h[r].strong >= 1 /\ h[r].mem
  BY <1>4, Alive
<1> QED BY <1>3, <1>4, <1>5

LEMMA TakeLaw ==
    ASSUME NEW h, Sound(h, Labels), NEW r, Refs(h, Handle(r, FALSE)) >= 1
    PROVE  /\ Adds(Labels, h, Retain(h, r))
           /\ \A x \in Targets : Spare(Retain(h, r), x) = Spare(h, x) + Ref(r, x)
<1>1. /\ Adds(Labels, h, Retain(h, r))
      /\ \A x \in Targets : Spare(Retain(h, r), x) = Spare(h, x) + One(Handle(r, FALSE), x)
  BY RetainLaw, ZenonT(60)
<1>2. \A x : Ref(r, x) = One(Handle(r, FALSE), x)
  BY DEF Ref
<1> QED BY <1>1, <1>2

LEMMA LetLaw ==
    ASSUME NEW h, Sound(h, Labels), NEW r \in References, \A x \in Targets : Spare(h, x) >= Ref(r, x)
    PROVE  /\ Lets(Labels, h, Release(h, r))
           /\ \A x \in Targets : Spare(Release(h, r), x) = Spare(h, x) - Ref(r, x)
BY ReleaseLaw DEF Ref

\* A scope on top of parent, which it holds instead of the caller.
Opened(h, g, r, parent) ==
    /\ Sound(g, Labels) /\ DOMAIN g = DOMAIN h \cup {r} /\ g[r] = Cell(parent)
    /\ \A x \in Targets : Refs(g, x) >= Refs(h, x)
    /\ \A x \in Targets : Spare(g, x) = Spare(h, x) + Ref(r, x) - Ref(parent, x)
    /\ \A s : Firm(h, s) => Firm(g, s)

LEMMA OpenLaw ==
    ASSUME NEW h, Sound(h, Labels), NEW parent \in References
    PROVE  FreshIn(h) \in Scopes /\ Opened(h, Create(h, FreshIn(h), parent), FreshIn(h), parent)
<1>1. FreshIn(h) \in Scopes /\ FreshIn(h) \notin DOMAIN h
  BY FreshLaw
<1> DEFINE r == FreshIn(h)
           g == Create(h, r, parent)
<1> HIDE DEF r
<1>2. /\ Sound(g, Labels) /\ DOMAIN g = DOMAIN h \cup {r} /\ g[r] = Cell(parent)
      /\ \A x \in Targets : Refs(g, x) >= Refs(h, x)
      /\ \A x \in Targets : Spare(g, x) = Spare(h, x) + One(Handle(r, FALSE), x) - One(Handle(parent, FALSE), x)
      /\ \A s : Firm(h, s) => Firm(g, s)
  BY <1>1, CreateLaw DEF r
<1>3. Opened(h, g, r, parent)
  BY <1>2 DEF Opened, Ref
<1> QED BY <1>1, <1>3 DEF r

\* A binding that takes the value over.
LEMMA BindLaw ==
    ASSUME NEW h, Sound(h, Labels), NEW r, Refs(h, Handle(r, FALSE)) >= 1,
           NEW name \in Labels, NEW v \in Proper, \A x \in Targets : Spare(h, x) >= HeldBy(v, x)
    PROVE  /\ Sound(BindIn(h, r, name, v), Labels)
           /\ \A x \in Targets : Spare(BindIn(h, r, name, v), x) = Spare(h, x) - HeldBy(v, x)
           /\ \A s : Firm(h, s) => Firm(BindIn(h, r, name, v), s)
<1> DEFINE g == AddEnv(h, r, name, v)
<1>1. Vouched(h, v) /\ v \in Values
  BY HolderVouches DEF Proper
<1>2. Even(Labels, h, g)
  BY <1>1, AddEnvLaw
<1> HIDE DEF g
<1>3. Sound(g, Labels) /\ \A x \in Targets : Spare(g, x) = Spare(h, x)
  BY <1>2 DEF Even
<1>4. /\ Lets(Labels, g, ValueFree(g, v))
      /\ \A x \in Targets : Spare(ValueFree(g, v), x) = Spare(g, x) - HeldBy(v, x)
  BY <1>1, <1>3, ValueFreeLaw
<1>5. \A s : Firm(h, s) => Firm(ValueFree(g, v), s)
  BY <1>2, <1>4, KeepsFirm DEF Even, Lets
<1> QED BY <1>3, <1>4, <1>5 DEF BindIn, Lets, g

(***************************************************************************)
(* The current scope is popped.                                            *)
(***************************************************************************)
Pops(h, g) ==
    /\ Sound(g, Labels) /\ PopTo(h) \in Scopes /\ Refs(g, Handle(PopTo(h), FALSE)) >= 1
    /\ \A x \in Targets : Spare(g, x) = Spare(h, x) + Ref(PopTo(h), x) - Ref(current, x)

LEMMA PoppedLaw ==
    ASSUME NEW h, Sound(h, Labels), current \in Scopes, CanPop(h),
           \A x \in Targets : Spare(h, x) >= Ref(current, x)
    PROVE  Pops(h, Popped(h)) /\ Keeps(h, Popped(h))
<1>1. current \in DOMAIN h
  BY Vouching
<1> DEFINE p == PopTo(h)
           k == Retain(h, p)
           g == Release(k, current)
<1>2. p \in References /\ p # NoScope /\ ~Expired(h, p)
  BY <1>1, SoundCell DEF CanPop, PopTo
<1>3. p \in Scopes /\ p \in DOMAIN h /\ h[p].strong # 0
  BY <1>2 DEF Expired, At, Freed, References
<1>4. Refs(h, Handle(p, FALSE)) >= 1
  <2>1. h[p].strong \in Nat
    BY <1>3, SoundCell
  <2> QED BY <1>3, <2>1 DEF Refs, Handle
<1> HIDE DEF p
<1>5. Adds(Labels, h, k) /\ \A x \in Targets : Spare(k, x) = Spare(h, x) + Ref(p, x)
  BY <1>4, TakeLaw
<1> HIDE DEF k
<1>6. Sound(k, Labels) /\ Keeps(h, k)
  BY <1>5 DEF Adds
<1>7. \A x \in Targets : /\ Spare(h, x) \in Int /\ Ref(p, x) \in Nat /\ Ref(current, x) \in Nat
                         /\ Spare(k, x) >= Ref(current, x)
  <2> TAKE x \in Targets
  <2>1. Spare(h, x) \in Int /\ Ref(p, x) \in Nat /\ Ref(current, x) \in Nat
    BY SpareType, RefType
  <2> QED BY <1>5, <2>1
<1>8. Lets(Labels, k, g) /\ \A x \in Targets : Spare(g, x) = Spare(k, x) - Ref(current, x)
  <2>1. current \in References
    BY DEF References
  <2> QED BY <1>6, <1>7, <2>1, LetLaw
<1>9. g = Popped(h)
  BY DEF Popped, g, k, p
<1> HIDE DEF g
<1>10. Sound(g, Labels) /\ Keeps(h, g)
  BY <1>6, <1>8, KeepsOn DEF Lets
<1>11. \A x \in Targets : Spare(g, x) = Spare(h, x) + Ref(p, x) - Ref(current, x)
  BY <1>5, <1>7, <1>8
<1>12. Refs(g, Handle(p, FALSE)) >= 1
  <2> DEFINE x == Handle(p, FALSE)
             no == FALSE
  <2>1. x \in Targets /\ Ref(p, x) = 1 /\ no \in BOOLEAN
    BY <1>3, HandleHas, RefSelf, Zenon
  <2> HIDE DEF x
  <2>2. Spare(h, x) >= Ref(current, x) /\ Spare(g, x) = Spare(h, x) + 1 - Ref(current, x)
    BY <1>11, <2>1
  <2>3. Spare(g, x) >= 1
    BY <1>7, <2>1, <2>2
  <2>4. Spare(g, Handle(p, no)) >= 1
    BY <2>3 DEF x
  <2>5. Refs(g, Handle(p, no)) >= 1
    BY <1>3, <1>10, <2>1, <2>4, Backing
  <2> QED BY <2>5
<1> QED BY <1>3, <1>9, <1>10, <1>11, <1>12 DEF Pops, p


\* It is popped while something keeps the scope kept.
LEMMA PopKeptLaw ==
    ASSUME NEW h, Sound(h, Labels), current \in Scopes, NEW kept \in Scopes, CanPop(h),
           ~(Top.weak /\ h[kept].weak_ref),
           \A x \in Targets : Spare(h, x) >= Ref(current, x) + Ref(kept, x)
    PROVE  Pops(h, PopKept(h, kept))
<1> DEFINE g == Popped(h)
           p == PopTo(h)
<1>1. \A x \in Targets : /\ Spare(h, x) \in Int /\ Ref(current, x) \in Nat /\ Ref(kept, x) \in Nat
                         /\ Ref(p, x) \in Nat
  BY SpareType, RefType
<1>2. \A x \in Targets : Spare(h, x) >= Ref(current, x) /\ Spare(h, x) >= Ref(kept, x)
  <2> TAKE x \in Targets
  <2>1. Spare(h, x) >= Ref(current, x) + Ref(kept, x)
    OBVIOUS
  <2> QED BY <1>1, <2>1
<1>3. Pops(h, g) /\ Keeps(h, g)
  BY <1>2, PoppedLaw
<1> HIDE DEF g
<1>4. Sound(g, Labels) /\ p \in Scopes /\ Refs(g, Handle(p, FALSE)) >= 1
      /\ \A x \in Targets : Spare(g, x) = Spare(h, x) + Ref(p, x) - Ref(current, x)
  BY <1>3 DEF Pops
<1> HIDE DEF p
<1>5. CASE ~Top.weak
  <2>1. PopKept(h, kept) = g
    BY <1>5 DEF PopKept, g
  <2> QED BY <1>3, <2>1
<1>6. CASE Top.weak
  <2>1. h[kept].weak_ref = FALSE
    <3>1. kept \in DOMAIN h
      BY <1>2, Vouching
    <3>2. h[kept].weak_ref \in BOOLEAN
      BY <3>1, SoundCell
    <3> QED BY <1>6, <3>2
  <2>2. Firm(h, kept)
    BY <2>1 DEF Firm
  <2>3. Firm(g, kept)
    BY <1>3, <2>2, KeepsFirm
  <2>4. \A x \in Targets : Spare(g, x) >= Ref(kept, x)
    <3> TAKE x \in Targets
    <3>1. Spare(h, x) >= Ref(current, x) + Ref(kept, x) /\ Spare(g, x) = Spare(h, x) + Ref(p, x) - Ref(current, x)
      BY <1>4
    <3> QED BY <1>1, <3>1
  <2>5. kept \in DOMAIN g
    BY <1>4, <2>4, Vouching
  <2>6. Covered(g)
    <3> SUFFICES ASSUME NEW x \in Targets PROVE Spare(g, x) >= 0
      BY DEF Covered
    <3>1. Spare(g, x) \in Int
      BY <1>4, SpareType
    <3> QED BY <1>1, <2>4, <3>1
  <2> DEFINE k == DowngradeParent(g, kept)
  <2>7. Sound(k, Labels) /\ \A x \in Targets : Spare(k, x) = Spare(g, x)
    BY <1>4, <2>3, <2>5, <2>6, DowngradeParentLaw
  <2>8. k = PopKept(h, kept)
    BY <1>6 DEF PopKept, g
  <2> HIDE DEF k
  <2>9. Refs(k, Handle(p, FALSE)) >= 1
    <3> DEFINE y == Handle(p, FALSE)
               no == FALSE
    <3>1. y \in Targets /\ Ref(p, y) = 1 /\ no \in BOOLEAN
      BY <1>4, HandleHas, RefSelf, Zenon
    <3> HIDE DEF y
    <3>2. Spare(h, y) >= Ref(current, y) /\ Spare(k, y) = Spare(h, y) + 1 - Ref(current, y)
      BY <1>2, <1>4, <2>7, <3>1
    <3>3. Spare(k, y) >= 1
      BY <1>1, <3>1, <3>2
    <3>4. Spare(k, Handle(p, no)) >= 1
      BY <3>3 DEF y
    <3>5. Refs(k, Handle(p, no)) >= 1
      BY <1>4, <2>7, <3>1, <3>4, Backing
    <3> QED BY <3>5
  <2>10. \A x \in Targets : Spare(k, x) = Spare(h, x) + Ref(p, x) - Ref(current, x)
    BY <1>4, <2>7
  <2> QED BY <1>4, <2>7, <2>8, <2>9, <2>10 DEF Pops, p
<1> QED BY <1>5, <1>6

\* The new scope's value is returned, and may get a name.
LEMMA ReturnNamedLaw ==
    ASSUME Inv, trapped = "no", stack # << >>, Top.fn # "exec_item",
           NEW h, Sound(h, Labels), NEW to \in Scopes, Refs(h, Handle(to, FALSE)) >= 1,
           NEW v \in Proper, NEW used \in Seq(Proper), ReturnNamed(h, to, v, used),
           \A x \in Targets : Spare(h, x) + Ref(current, x) >= Spare(heap, x) + Ref(to, x),
           \A x \in Targets :
               Spare(h, x) + FrameHeld(Top, x) + HeldBy(ret, x) + Ref(current, x) + ValuesHeld(trash, x)
               = Spare(heap, x) + HeldBy(v, x) + Ref(to, x) + ValuesHeld(used, x)
    PROVE  Inv'
<1>1. Sound(heap, Labels) /\ Registers /\ trash \in Seq(Proper) /\ to \in References /\ to # NoScope
  BY DEF Inv, Registers, Scopes, References
<1>2. current' = to /\ UNCHANGED <<instance, trapped>>
  BY DEF ReturnNamed
<1>3. ASSUME NEW g, Sound(g, Labels), \A x \in Targets : Spare(g, x) = Spare(h, x),
             heap' = g, Return(v), trash' = used, UNCHANGED error
      PROVE  Inv'
  <2>1. stack' = Front /\ ret' = v
    BY <1>3 DEF Return, Front
  <2>2. Runs
    BY <1>1, <1>2, <1>3, <2>1 DEF Runs
  <2>3. \A x \in Targets :
            Spare(heap', x) + FrameHeld(Top, x) + HeldBy(ret, x) + Ref(current, x) + ValuesHeld(trash, x)
            = Spare(heap, x) + HeldBy(ret', x) + Ref(current', x) + ValuesHeld(trash', x)
    BY <1>2, <1>3, <2>1
  <2> QED BY <2>1, <2>2, <2>3, EndLaw
<1>4. ASSUME heap' = h, Return(Plain), error' = TRUE, UNCHANGED trash
      PROVE  Inv'
  <2>1. stack' = Front /\ ret' = Plain
    BY <1>4 DEF Return, Front
  <2>2. Runs
    BY <1>1, <1>2, <1>4, <2>1, PlainHolds DEF Runs
  <2>3. \A x \in Targets : Spare(heap', x) + Ref(current, x) >= Spare(heap, x) + Ref(current', x)
    BY <1>2, <1>4
  <2> QED BY <1>4, <2>1, <2>2, <2>3, LostLaw
<1>5. Vouched(h, v)
  <2>1. \A x \in Targets : Spare(h, x) >= HeldBy(v, x)
    <3> TAKE x \in Targets
    <3> DEFINE s == Spare(h, x)
               o == Spare(heap, x)
               m == HeldBy(ret, x)
               mm == HeldBy(v, x)
               p == Ref(current, x)
               pp == Ref(to, x)
               q == Ref(instance, x)
               u == ValuesHeld(trash, x)
               uu == ValuesHeld(used, x)
               e == FrameHeld(Top, x)
    <3>1. /\ m \in Nat /\ mm \in Nat /\ p \in Nat /\ pp \in Nat /\ q \in Nat /\ u \in Nat /\ uu \in Nat
          /\ e \in Nat /\ s \in Int /\ o \in Int
      BY <1>1, HeldByType, RefType, ValuesHeldType, FrameHeldType, SpareType
    <3>2. s + e + m + p + u = o + mm + pp + uu
      OBVIOUS
    <3>3. o >= e + m + p + q + u
      BY Budget DEF FrameHeld
    <3> HIDE DEF s, o, m, mm, p, pp, q, u, uu, e
    <3>4. s >= mm
      BY <3>1, <3>2, <3>3
    <3> QED BY <3>4 DEF s, mm
  <2> QED BY <2>1, HolderVouches
<1>6. ASSUME NEW name \in Names, heap' = AddEnv(h, to, name, v), Return(v), trash' = used, UNCHANGED error
      PROVE  Inv'
  <2> DEFINE g == AddEnv(h, to, name, v)
  <2>1. Even(Labels, h, g)
    BY <1>5, AddEnvLaw DEF Labels
  <2> HIDE DEF g
  <2>2. Sound(g, Labels) /\ \A x \in Targets : Spare(g, x) = Spare(h, x)
    BY <2>1 DEF Even
  <2>3. heap' = g
    BY <1>6 DEF g
  <2> QED BY <1>3, <1>6, <2>2, <2>3
<1>7. CASE heap' = h /\ Return(v) /\ trash' = used /\ UNCHANGED error
  BY <1>3, <1>7
<1> QED BY <1>4, <1>6, <1>7 DEF ReturnNamed


(***************************************************************************)
(* The actions.                                                            *)
(***************************************************************************)
LEMMA Here ==
    ASSUME Inv, trapped = "no", stack # << >>
    PROVE  /\ Sound(heap, Labels) /\ Covered(heap) /\ ret \in Proper /\ ret \in Values /\ trash \in Seq(Proper)
           /\ current \in Scopes /\ current \in References /\ current # NoScope /\ instance \in References
           /\ \A x \in Targets : Spare(heap, x) >= Ref(current, x) /\ Spare(heap, x) >= HeldBy(ret, x)
           /\ Refs(heap, Handle(current, FALSE)) >= 1
<1>1. Sound(heap, Labels) /\ Registers /\ ret \in Proper /\ trash \in Seq(Proper) /\ ret \in Values
  BY DEF Inv, Registers, Proper
<1>2. current \in Scopes /\ current \in References /\ current # NoScope /\ instance \in References
  BY <1>1 DEF Registers, References
<1>3. \A x \in Targets : Spare(heap, x) >= Ref(current, x) /\ Spare(heap, x) >= HeldBy(ret, x)
  BY Budget, SMTT(30)
<1>4. Refs(heap, Handle(current, FALSE)) >= 1
  BY <1>1, <1>2, <1>3, Vouching
<1> QED BY <1>1, <1>2, <1>3, <1>4, AllCovered

LEMMA BareHolds ==
    ASSUME NEW f, Bare(f), NEW x \in Targets
    PROVE  FrameHeld(f, x) = 0
<1>1. HeldBy(Plain, x) = 0 /\ Ref(NoScope, x) = 0
  BY PlainHolds, RefNothing
<1> QED BY <1>1 DEF Bare, FrameHeld

\* A function that never holds anything itself.
Simple == Top.fn \notin {"inst", "literal", "call", "assign", "extend"}

LEMMA SimpleGoes ==
    ASSUME Inv, stack # << >>, Simple
    PROVE  /\ \A pc \in Points : FrameOK(At_(pc)) /\ At_(pc).fn = Top.fn /\ At_(pc).pc = pc
           /\ \A x \in Targets : FrameHeld(Top, x) = 0
<1>1. Bare(Top) /\ stack \in Seq(Frames)
  BY TopOK DEF FrameOK, Simple
<1>2. ASSUME NEW pc \in Points
      PROVE  FrameOK(At_(pc)) /\ At_(pc).fn = Top.fn /\ At_(pc).pc = pc
  <2> DEFINE f == At_(pc)
  <2>1. f.pc = pc /\ SameSlots(f, Top)
    BY <1>1, GoesTo
  <2> HIDE DEF f
  <2>2. FrameOK(f) /\ f.fn = Top.fn
    BY <1>1, <2>1 DEF FrameOK, Bare, SameSlots, Simple
  <2> QED BY <2>1, <2>2 DEF f
<1>3. \A x \in Targets : FrameHeld(Top, x) = 0
  BY <1>1, BareHolds
<1> QED BY <1>2, <1>3

LEMMA FreeItemLaw ==
    ASSUME Inv, NEW fn, NEW pc, NEW next \in Points, FreeItem(fn, pc, next), FrameOK(At_(next))
    PROVE  Inv'
<1>1. trapped = "no" /\ stack # << >>
  BY DEF FreeItem, Running
<1>2. /\ heap' = ValueFree(heap, ret) /\ ret' = Plain /\ UNCHANGED <<registers, trash, status>>
      /\ stack' = [stack EXCEPT ![Len(stack)] = At_(next)]
  BY DEF FreeItem, Goto, Become, At_
<1>3. Sound(heap', Labels) /\ \A x \in Targets : Spare(heap', x) = Spare(heap, x) - HeldBy(ret, x)
  BY <1>1, <1>2, Here, ValueFreeLaw DEF Lets
<1>4. Runs /\ trash' = trash /\ current' = current
  BY <1>1, <1>2, <1>3, Here, PlainHolds DEF Runs, registers, status
<1>5. \A x \in Targets : Spare(heap', x) + HeldBy(ret, x) + Ref(current, x)
                         = Spare(heap, x) + HeldBy(ret', x) + Ref(current', x)
  <2> TAKE x \in Targets
  <2>1. HeldBy(ret', x) = 0
    BY <1>2, PlainHolds
  <2>2. Ref(current, x) \in Nat /\ HeldBy(ret, x) \in Nat /\ Spare(heap, x) \in Int
    BY <1>1, Here, RefType, HeldByType, SpareType
  <2> QED BY <1>3, <1>4, <2>1, <2>2
<1>6. ret'.scope = NoScope
  BY <1>2 DEF Plain, Value
<1> QED BY <1>1, <1>2, <1>4, <1>5, <1>6, GoLaw

LEMMA EnterLaw ==
    ASSUME Inv, NEW fn, NEW pc \in Points, Enter(fn, pc), FrameOK(At_(pc)), ~Waits(Top)
    PROVE  Inv'
<1>1. trapped = "no" /\ stack # << >>
  BY DEF Enter, Running
<1>2. /\ heap' = Create(heap, FreshIn(heap), current) /\ current' = FreshIn(heap)
      /\ UNCHANGED <<instance, trash, ret, status>>
      /\ stack' = [stack EXCEPT ![Len(stack)] = At_(pc)]
  BY DEF Enter, PushScope, Fresh, Goto, Become, At_
<1>3. current' \in Scopes /\ Opened(heap, heap', current', current)
  BY <1>1, <1>2, Here, OpenLaw
<1>4. Sound(heap', Labels) /\ \A x \in Targets : Spare(heap', x) = Spare(heap, x) + Ref(current', x) - Ref(current, x)
  BY <1>3 DEF Opened
<1>5. Runs /\ trash' = trash /\ ret' = ret
  BY <1>1, <1>2, <1>3, <1>4, Here DEF Runs, status, References, Scopes
<1>6. \A x \in Targets : Spare(heap', x) + HeldBy(ret, x) + Ref(current, x)
                         = Spare(heap, x) + HeldBy(ret', x) + Ref(current', x)
  <2> TAKE x \in Targets
  <2>1. /\ Ref(current, x) \in Nat /\ Ref(current', x) \in Nat /\ HeldBy(ret, x) \in Nat
        /\ Spare(heap, x) \in Int
    BY <1>1, Here, RefType, HeldByType, SpareType
  <2> QED BY <1>4, <1>5, <2>1
<1>7. ret'.scope = NoScope
  BY <1>1, <1>5, TopOK
<1> QED BY <1>1, <1>2, <1>5, <1>6, <1>7, GoLaw

LEMMA TrapsLaw ==
    ASSUME Inv, trapped = "no",
           \/ Trap("bottom") \/ Trap("assertion") \/ Trap("dangling") \/ Trap("destroyed")
           \/ Trap("unreachable") \/ Trap("uninitialized") \/ Trap("instance")
    PROVE  Inv'
<1>1. ASSUME NEW why \in Traps \ {"no", "exit"}, Trap(why)
      PROVE  Inv'
  BY <1>1, TrapLaw
<1>2. "bottom" \in Traps \ {"no", "exit"} /\ "assertion" \in Traps \ {"no", "exit"}
      /\ "dangling" \in Traps \ {"no", "exit"} /\ "destroyed" \in Traps \ {"no", "exit"}
      /\ "unreachable" \in Traps \ {"no", "exit"} /\ "uninitialized" \in Traps \ {"no", "exit"}
      /\ "instance" \in Traps \ {"no", "exit"}
  BY DEF Traps
<1>3. CASE Trap("bottom")
  BY <1>1, <1>2, <1>3
<1>4. CASE Trap("assertion")
  BY <1>1, <1>2, <1>4
<1>5. CASE Trap("dangling")
  BY <1>1, <1>2, <1>5
<1>6. CASE Trap("destroyed")
  BY <1>1, <1>2, <1>6
<1>7. CASE Trap("unreachable")
  BY <1>1, <1>2, <1>7
<1>8. CASE Trap("uninitialized")
  BY <1>1, <1>2, <1>8
<1>9. CASE Trap("instance")
  BY <1>1, <1>2, <1>9
<1> QED BY <1>3, <1>4, <1>5, <1>6, <1>7, <1>8, <1>9

\* The current scope, held once more while it is popped.
LEMMA HeldScope ==
    ASSUME Inv, trapped = "no", stack # << >>
    PROVE  /\ Sound(Retain(heap, current), Labels)
           /\ \A x \in Targets : /\ Spare(Retain(heap, current), x) = Spare(heap, x) + Ref(current, x)
                                 /\ Spare(Retain(heap, current), x) >= Ref(current, x) + Ref(current, x)
<1> DEFINE h == Retain(heap, current)
<1>1. Sound(h, Labels) /\ \A x \in Targets : Spare(h, x) = Spare(heap, x) + Ref(current, x)
  BY Here, TakeLaw DEF Adds
<1> HIDE DEF h
<1>2. \A x \in Targets : Spare(h, x) >= Ref(current, x) + Ref(current, x)
  <2> TAKE x \in Targets
  <2>1. Spare(heap, x) >= Ref(current, x) /\ Ref(current, x) \in Nat /\ Spare(heap, x) \in Int
    BY Here, RefType, SpareType
  <2> QED BY <1>1, <2>1
<1> QED BY <1>1, <1>2 DEF h

LEMMA BlockLaw ==
    ASSUME Inv, ExecuteBlockExpr, trapped' # "unowned"
    PROVE  Inv'
<1>1. trapped = "no" /\ stack # << >> /\ Top.fn = "block" /\ Top.pc \in {"start", "item", "items"}
  BY DEF ExecuteBlockExpr, Enter, FreeItem, Running
<1>2. /\ \A pc \in Points : FrameOK(At_(pc)) /\ At_(pc).fn = Top.fn /\ At_(pc).pc = pc
      /\ \A x \in Targets : FrameHeld(Top, x) = 0
  BY <1>1, SimpleGoes DEF Simple
<1>3. "items" \in Points /\ "item" \in Points
  BY DEF Points
<1>4. CASE Enter("block", "items")
  <2>1. ~Waits(Top)
    BY <1>4 DEF Enter, Running, Waits
  <2> QED BY <1>2, <1>3, <1>4, <2>1, EnterLaw
<1>5. CASE FreeItem("block", "items", "item")
  BY <1>2, <1>3, <1>5, FreeItemLaw
<1>6. CASE Running("block", "item") /\ ExecItem("items", FALSE)
  <2> DEFINE pc == "items"
             weak == FALSE
  <2>1. ~Waits(Top)
    BY <1>6 DEF Running, Waits
  <2>2. ret.scope = NoScope
    BY <1>1, <2>1, TopOK
  <2>3. pc \in Points /\ weak \in BOOLEAN /\ ExecItem(pc, weak)
    BY <1>3, <1>6, Zenon
  <2>4. FrameOK(At_(pc)) /\ Waits(At_(pc))
    BY <1>1, <1>2, <1>3 DEF Waits
  <2> HIDE DEF pc, weak
  <2> QED BY <1>1, <2>2, <2>3, <2>4, ChildLaw
<1>7. CASE /\ Running("block", "items")
           /\ LET held == Retain(heap, current)
              IN PopToKeep(held, current,
                     /\ heap' = Release(PopKept(held, current), current)
                     /\ current' = PopTo(held)
                     /\ Return(ret)
                     /\ UNCHANGED <<instance, trash, status>>)
  <2> DEFINE h == Retain(heap, current)
             g == PopKept(h, current)
             to == PopTo(h)
  <2>1. CASE Trap("bottom") \/ Trap("assertion")
    BY <1>1, <2>1, TrapsLaw
  <2>2. CASE /\ CanPop(h) /\ ~(Top.weak /\ h[current].weak_ref)
             /\ heap' = Release(g, current)
             /\ current' = to
             /\ Return(ret)
             /\ UNCHANGED <<instance, trash, status>>
    <3>1. /\ Sound(h, Labels)
          /\ \A x \in Targets : /\ Spare(h, x) = Spare(heap, x) + Ref(current, x)
                                /\ Spare(h, x) >= Ref(current, x) + Ref(current, x)
      BY <1>1, HeldScope
    <3> HIDE DEF h
    <3>2. Pops(h, g)
      BY <1>1, <2>2, <3>1, Here, PopKeptLaw
    <3> HIDE DEF g
    <3>3. Sound(g, Labels) /\ to \in Scopes
          /\ \A x \in Targets : Spare(g, x) = Spare(h, x) + Ref(to, x) - Ref(current, x)
      BY <3>2 DEF Pops
    <3> HIDE DEF to
    <3>4. \A x \in Targets : /\ Spare(heap, x) \in Int /\ Ref(to, x) \in Nat /\ Ref(current, x) \in Nat
                             /\ Spare(heap, x) >= Ref(current, x) /\ HeldBy(ret, x) \in Nat
      BY <1>1, Here, SpareType, RefType, HeldByType
    <3>5. \A x \in Targets : Spare(g, x) >= Ref(current, x)
      <4> TAKE x \in Targets
      <4> QED BY <3>1, <3>3, <3>4
    <3>6. Sound(heap', Labels) /\ \A x \in Targets : Spare(heap', x) = Spare(g, x) - Ref(current, x)
      BY <1>1, <2>2, <3>3, <3>5, Here, LetLaw DEF Lets
    <3>7. stack' = Front /\ ret' = ret /\ trash' = trash /\ current' = to
      BY <2>2 DEF Return, Front
    <3>8. Runs
      BY <1>1, <2>2, <3>3, <3>6, <3>7, Here DEF Runs, status, References, Scopes
    <3>9. \A x \in Targets :
            Spare(heap', x) + FrameHeld(Top, x) + HeldBy(ret, x) + Ref(current, x) + ValuesHeld(trash, x)
            = Spare(heap, x) + HeldBy(ret', x) + Ref(current', x) + ValuesHeld(trash', x)
      <4> TAKE x \in Targets
      <4>1. ValuesHeld(trash, x) \in Nat /\ FrameHeld(Top, x) = 0
        BY <1>1, <1>2, Here, ValuesHeldType
      <4>2. Spare(heap', x) = Spare(heap, x) + Ref(current, x) + Ref(to, x) - Ref(current, x) - Ref(current, x)
        <5>1. /\ Spare(h, x) = Spare(heap, x) + Ref(current, x)
              /\ Spare(g, x) = Spare(h, x) + Ref(to, x) - Ref(current, x)
              /\ Spare(heap', x) = Spare(g, x) - Ref(current, x)
          BY <3>1, <3>3, <3>6
        <5>2. Spare(heap, x) \in Int /\ Ref(to, x) \in Nat /\ Ref(current, x) \in Nat
          BY <3>4
        <5> QED BY <5>1, <5>2
      <4> DEFINE s == Spare(heap', x)
                 o == Spare(heap, x)
                 m == HeldBy(ret, x)
                 p == Ref(current, x)
                 pp == Ref(to, x)
                 u == ValuesHeld(trash, x)
                 e == FrameHeld(Top, x)
      <4>3. s = o + p + pp - p - p /\ o \in Int /\ p \in Nat /\ pp \in Nat /\ u \in Nat /\ e = 0 /\ m \in Nat
        BY <3>4, <4>1, <4>2
      <4> HIDE DEF s, o, m, p, pp, u, e
      <4>4. s + e + m + p + u = o + m + pp + u
        BY <4>3
      <4> QED BY <3>7, <4>4 DEF s, o, m, p, pp, u, e
    <3> QED BY <1>1, <3>7, <3>8, <3>9, EndLaw
  <2> QED BY <1>7, <2>1, <2>2 DEF PopToKeep, DowngradeAgain
<1> QED BY <1>4, <1>5, <1>6, <1>7 DEF ExecuteBlockExpr


\* Values that keep one scope.
LEMMA ScopeValue ==
    ASSUME NEW r \in Scopes, NEW kind \in {"fn", "type", "native", "null_fn"}
    PROVE  /\ Value(kind, r, FALSE, NoScope) \in Proper
           /\ \A x \in Targets : HeldBy(Value(kind, r, FALSE, NoScope), x) = Ref(r, x)
<1> DEFINE v == Value(kind, r, FALSE, NoScope)
<1>1. v.kind = kind /\ v.scope = r /\ v.weak = FALSE /\ v.owner = NoScope
  BY DEF Value
<1>2. r \in References /\ NoScope \in References /\ r # NoScope
  BY DEF References, Scopes
<1>3. kind \in Kinds /\ kind \notin {"plain", "unknown"}
  BY DEF Kinds, FunctionKinds
<1>4. v \in Values
  <2> DEFINE no == FALSE
             nil == NoScope
  <2>1. no \in BOOLEAN /\ nil \in References
    BY <1>2, Zenon
  <2>2. v = [kind |-> kind, scope |-> r, weak |-> no, owner |-> nil]
    BY DEF Value
  <2> HIDE DEF v, no, nil
  <2> QED BY <1>2, <1>3, <2>1, <2>2 DEF Values
<1> HIDE DEF v
<1>5. v \in Proper
  BY <1>1, <1>2, <1>3, <1>4 DEF Proper
<1>6. \A x \in Targets : HeldBy(v, x) = Ref(r, x)
  <2> TAKE x \in Targets
  <2>1. ScopeHandle(v) = Handle(r, FALSE)
    BY <1>1 DEF ScopeHandle
  <2> DEFINE b == OwnerHandle(v)
  <2>2. b.target = NoScope
    BY <1>1 DEF OwnerHandle, Handle
  <2> HIDE DEF b
  <2>3. b # x
    BY <2>2 DEF Targets, Scopes
  <2>4. One(b, x) = 0
    BY <2>3 DEF One
  <2>5. Ref(r, x) \in Nat
    BY RefType
  <2>6. One(ScopeHandle(v), x) = Ref(r, x)
    BY <2>1 DEF Ref
  <2> QED BY <2>4, <2>5, <2>6 DEF HeldBy, b
<1> QED BY <1>5, <1>6 DEF v

LEMMA FinishLaw ==
    ASSUME Inv, NEW fn \in {"fn", "type"}, NEW kind \in {"fn", "type"}, FinishScope(fn, kind),
           trapped' # "unowned"
    PROVE  Inv'
<1>1. trapped = "no" /\ stack # << >> /\ Top.fn = fn /\ Top.pc = "members"
  BY DEF FinishScope, Running
<1>2. Simple /\ ~Waits(Top) /\ Top.fn # "exec_item"
  BY <1>1 DEF Simple, Waits
<1>3. ret.scope = NoScope /\ (\A x \in Targets : FrameHeld(Top, x) = 0)
  BY <1>1, <1>2, TopOK, SimpleGoes
<1> DEFINE h == Retain(heap, current)
           g == PopKept(h, current)
           to == PopTo(h)
           v == Value(kind, current, FALSE, NoScope)
<1>4. CASE Trap("bottom") \/ Trap("assertion")
  BY <1>1, <1>4, TrapsLaw
<1>5. CASE /\ CanPop(h) /\ ~(Top.weak /\ h[current].weak_ref)
           /\ ReturnNamed(g, to, v, trash)
  <2>1. /\ Sound(h, Labels)
        /\ \A x \in Targets : /\ Spare(h, x) = Spare(heap, x) + Ref(current, x)
                              /\ Spare(h, x) >= Ref(current, x) + Ref(current, x)
    BY <1>1, HeldScope
  <2>2. v \in Proper /\ \A x \in Targets : HeldBy(v, x) = Ref(current, x)
    <3>1. current \in Scopes /\ kind \in {"fn", "type", "native", "null_fn"}
      BY <1>1, Here
    <3> QED BY <3>1, ScopeValue
  <2> HIDE DEF h
  <2>3. Pops(h, g)
    BY <1>1, <1>5, <2>1, Here, PopKeptLaw
  <2> HIDE DEF g, v
  <2>4. Sound(g, Labels) /\ to \in Scopes /\ Refs(g, Handle(to, FALSE)) >= 1
        /\ \A x \in Targets : Spare(g, x) = Spare(h, x) + Ref(to, x) - Ref(current, x)
    BY <2>3 DEF Pops
  <2> HIDE DEF to
  <2>5. ASSUME NEW x \in Targets
        PROVE  /\ Spare(g, x) + Ref(current, x) >= Spare(heap, x) + Ref(to, x)
               /\ Spare(g, x) + FrameHeld(Top, x) + HeldBy(ret, x) + Ref(current, x) + ValuesHeld(trash, x)
                  = Spare(heap, x) + HeldBy(v, x) + Ref(to, x) + ValuesHeld(trash, x)
    <3> DEFINE s == Spare(g, x)
               k == Spare(h, x)
               o == Spare(heap, x)
               m == HeldBy(ret, x)
               mm == HeldBy(v, x)
               p == Ref(current, x)
               pp == Ref(to, x)
               u == ValuesHeld(trash, x)
               e == FrameHeld(Top, x)
    <3>1. /\ o \in Int /\ p \in Nat /\ pp \in Nat /\ u \in Nat
          /\ e = 0 /\ m = 0 /\ mm = p /\ s = k + pp - p /\ k = o + p
      BY <1>1, <1>3, <2>1, <2>2, <2>4, Here, SpareType, RefType, ValuesHeldType, NothingHeld
    <3> HIDE DEF s, k, o, m, mm, p, pp, u, e
    <3>2. s + p >= o + pp
      BY <3>1
    <3>3. s + e + m + p + u = o + mm + pp + u
      BY <3>1
    <3> QED BY <3>2, <3>3 DEF s, o, m, mm, p, pp, u, e
  <2>6. trash \in Seq(Proper) /\ ReturnNamed(g, to, v, trash)
    BY <1>1, <1>5, Here
  <2> QED BY <1>1, <1>2, <2>2, <2>4, <2>5, <2>6, ReturnNamedLaw
<1> QED BY <1>4, <1>5 DEF FinishScope, PopToKeep, DowngradeAgain

\* A name is bound to the value that was returned.
LEMMA BindNextLaw ==
    ASSUME Inv, trapped = "no", stack # << >>, NEW name \in Labels, NEW next \in Points,
           FrameOK(At_(next)), heap' = Bind(name, ret), ret' = Plain, Goto(next),
           UNCHANGED <<registers, trash, status>>
    PROVE  Inv'
<1>1. stack' = [stack EXCEPT ![Len(stack)] = At_(next)]
  BY DEF Goto, Become, At_
<1>2. Sound(heap', Labels) /\ \A x \in Targets : Spare(heap', x) = Spare(heap, x) - HeldBy(ret, x)
  BY Here, BindLaw DEF Bind
<1>3. Runs /\ trash' = trash /\ current' = current
  BY <1>2, Here, PlainHolds DEF Runs, registers, status
<1>4. \A x \in Targets : Spare(heap', x) + HeldBy(ret, x) + Ref(current, x)
                         = Spare(heap, x) + HeldBy(ret', x) + Ref(current', x)
  <2> TAKE x \in Targets
  <2>1. HeldBy(ret', x) = 0
    BY PlainHolds
  <2>2. Ref(current, x) \in Nat /\ HeldBy(ret, x) \in Nat /\ Spare(heap, x) \in Int
    BY Here, RefType, HeldByType, SpareType
  <2> QED BY <1>2, <1>3, <2>1, <2>2
<1>5. ret'.scope = NoScope
  BY DEF Plain, Value
<1> QED BY <1>1, <1>3, <1>4, <1>5, GoLaw

LEMMA FnLaw ==
    ASSUME Inv, ExecuteFnExpr, trapped' # "unowned"
    PROVE  Inv'
<1>1. trapped = "no" /\ stack # << >> /\ Top.fn = "fn" /\ Top.pc \in {"start", "members", "param"}
  BY DEF ExecuteFnExpr, Enter, FinishScope, Running
<1>2. /\ \A pc \in Points : FrameOK(At_(pc)) /\ At_(pc).fn = Top.fn /\ At_(pc).pc = pc
      /\ \A x \in Targets : FrameHeld(Top, x) = 0
  BY <1>1, SimpleGoes DEF Simple
<1>3. "members" \in Points /\ "param" \in Points
  BY DEF Points
<1>4. CASE Enter("fn", "members")
  <2>1. ~Waits(Top)
    BY <1>4 DEF Enter, Running, Waits
  <2> QED BY <1>2, <1>3, <1>4, <2>1, EnterLaw
<1>5. CASE Running("fn", "members") /\ (EvalExpr("param", FALSE) \/ Result("param", Unknown))
  <2> DEFINE pc == "param"
             weak == FALSE
             u == Unknown
  <2>1. ~Waits(Top)
    BY <1>5 DEF Running, Waits
  <2>2. ret.scope = NoScope
    BY <1>1, <2>1, TopOK
  <2>3. pc \in Points /\ weak \in BOOLEAN /\ u \in Proper /\ Vouched(heap, u)
    <3>1. u \in Proper /\ Vouched(heap, u)
      BY PlainHolds DEF Vouched
    <3> QED BY <1>3, <3>1, Zenon
  <2>4. FrameOK(At_(pc)) /\ Waits(At_(pc))
    BY <1>1, <1>2, <1>3 DEF Waits
  <2>5. ExecItem(pc, weak) \/ Result(pc, u)
    BY <1>5 DEF ExecItem
  <2> HIDE DEF pc, weak, u
  <2>6. CASE ExecItem(pc, weak)
    BY <1>1, <2>2, <2>3, <2>4, <2>6, ChildLaw
  <2>7. CASE Result(pc, u)
    BY <1>1, <2>2, <2>3, <2>4, <2>7, ResultLaw
  <2> QED BY <2>5, <2>6, <2>7
<1>6. CASE /\ Running("fn", "param")
           /\ \E name \in Names :
                CheckType(CanDeclare(name), ret,
                    /\ heap' = Bind(name, ret)
                    /\ ret' = Plain
                    /\ Goto("members")
                    /\ UNCHANGED <<registers, trash, status>>)
  <2>1. CASE Fail
    BY <1>1, <2>1, FailLaw
  <2>2. ASSUME NEW name \in Names, heap' = Bind(name, ret), ret' = Plain, Goto("members"),
               UNCHANGED <<registers, trash, status>>
        PROVE  Inv'
    <3> DEFINE pc == "members"
    <3>1. pc \in Points /\ FrameOK(At_(pc)) /\ Goto(pc) /\ name \in Labels
      BY <1>2, <1>3, <2>2 DEF Labels
    <3> HIDE DEF pc
    <3> QED BY <1>1, <2>2, <3>1, BindNextLaw
  <2> QED BY <1>6, <2>1, <2>2 DEF CheckType, Check
<1>7. CASE FinishScope("fn", "fn")
  <2> DEFINE f == "fn"
  <2>1. f \in {"fn", "type"} /\ FinishScope(f, f)
    BY <1>7
  <2> HIDE DEF f
  <2> QED BY <2>1, FinishLaw
<1> QED BY <1>4, <1>5, <1>6, <1>7 DEF ExecuteFnExpr

LEMMA TypeLaw ==
    ASSUME Inv, ExecuteTypeDeclaration, trapped' # "unowned"
    PROVE  Inv'
<1>1. trapped = "no" /\ stack # << >> /\ Top.fn = "type" /\ Top.pc \in {"start", "members", "member"}
  BY DEF ExecuteTypeDeclaration, Enter, FreeItem, FinishScope, Running
<1>2. /\ \A pc \in Points : FrameOK(At_(pc)) /\ At_(pc).fn = Top.fn /\ At_(pc).pc = pc
      /\ \A x \in Targets : FrameHeld(Top, x) = 0
  BY <1>1, SimpleGoes DEF Simple
<1>3. "members" \in Points /\ "member" \in Points
  BY DEF Points
<1>4. CASE Enter("type", "members")
  <2>1. ~Waits(Top)
    BY <1>4 DEF Enter, Running, Waits
  <2> QED BY <1>2, <1>3, <1>4, <2>1, EnterLaw
<1>5. CASE Running("type", "members") /\ ExecItem("member", TRUE)
  <2> DEFINE pc == "member"
             weak == TRUE
  <2>1. ~Waits(Top)
    BY <1>5 DEF Running, Waits
  <2>2. ret.scope = NoScope
    BY <1>1, <2>1, TopOK
  <2>3. pc \in Points /\ weak \in BOOLEAN /\ ExecItem(pc, weak)
    BY <1>3, <1>5, Zenon
  <2>4. FrameOK(At_(pc)) /\ Waits(At_(pc))
    BY <1>1, <1>2, <1>3 DEF Waits
  <2> HIDE DEF pc, weak
  <2> QED BY <1>1, <2>2, <2>3, <2>4, ChildLaw
<1>6. CASE FreeItem("type", "member", "members")
  BY <1>2, <1>3, <1>6, FreeItemLaw
<1>7. CASE Fail
  BY <1>1, <1>7, FailLaw
<1>8. CASE FinishScope("type", "type")
  <2> DEFINE f == "type"
  <2>1. f \in {"fn", "type"} /\ FinishScope(f, f)
    BY <1>8
  <2> HIDE DEF f
  <2> QED BY <2>1, FinishLaw
<1> QED BY <1>4, <1>5, <1>6, <1>7, <1>8 DEF ExecuteTypeDeclaration


\* A child that the function asks for is evaluated as weakly as the function is.
LEMMA ChildWeakLaw ==
    ASSUME Inv, trapped = "no", stack # << >>, ~Waits(Top), NEW pc \in Points,
           FrameOK(At_(pc)), Waits(At_(pc)), EvalExpr(pc, Top.weak)
    PROVE  Inv'
<1>1. ret.scope = NoScope
  BY TopOK
<1> DEFINE weak == Top.weak
<1>2. weak \in BOOLEAN
  BY TopOK DEF Frames
<1>3. ExecItem(pc, weak)
  BY DEF ExecItem
<1> HIDE DEF weak
<1> QED BY <1>1, <1>2, <1>3, ChildLaw

\* Something is bound and returned.
LEMMA DeclareLaw ==
    ASSUME Inv, trapped = "no", stack # << >>, NEW name \in Names, NEW v \in Proper, Vouched(heap, v),
           \A x \in Targets : FrameHeld(Top, x) = 0, Top.fn # "exec_item",
           \A x \in Targets : HeldBy(v, x) = HeldBy(ret, x),
           heap' = Declare(name, v), Return(v), UNCHANGED <<registers, trash, status>>
    PROVE  Inv'
<1>1. Even(Labels, heap, heap')
  BY Here, AddEnvLaw DEF Declare, Labels
<1>2. Sound(heap', Labels) /\ \A x \in Targets : Spare(heap', x) = Spare(heap, x)
  BY <1>1 DEF Even
<1>3. stack' = Front /\ ret' = v
  BY DEF Return, Front
<1>4. Runs /\ trash' = trash /\ current' = current
  BY <1>2, <1>3, Here DEF Runs, registers, status
<1>5. \A x \in Targets :
          Spare(heap', x) + FrameHeld(Top, x) + HeldBy(ret, x) + Ref(current, x) + ValuesHeld(trash, x)
          = Spare(heap, x) + HeldBy(ret', x) + Ref(current', x) + ValuesHeld(trash', x)
  <2> TAKE x \in Targets
  <2>1. FrameHeld(Top, x) = 0 /\ HeldBy(ret', x) = HeldBy(ret, x) /\ Spare(heap, x) \in Int
    BY <1>3, Here, SpareType
  <2> QED BY <1>2, <1>4, <2>1
<1> QED BY <1>3, <1>4, <1>5, EndLaw

LEMMA VarLaw ==
    ASSUME Inv, ExecuteVarDecl
    PROVE  Inv'
<1>1. trapped = "no" /\ stack # << >> /\ Top.fn = "var" /\ Top.pc \in {"start", "value"}
  BY DEF ExecuteVarDecl, Running
<1>2. /\ \A pc \in Points : FrameOK(At_(pc)) /\ At_(pc).fn = Top.fn /\ At_(pc).pc = pc
      /\ \A x \in Targets : FrameHeld(Top, x) = 0
  BY <1>1, SimpleGoes DEF Simple
<1>3. CASE Running("var", "start") /\ EvalExpr("value", Top.weak)
  <2> DEFINE pc == "value"
  <2>1. pc \in Points
    BY DEF Points
  <2>2. ~Waits(Top)
    BY <1>3 DEF Running, Waits
  <2>3. FrameOK(At_(pc)) /\ Waits(At_(pc)) /\ EvalExpr(pc, Top.weak)
    BY <1>1, <1>2, <1>3, <2>1 DEF Waits
  <2> HIDE DEF pc
  <2> QED BY <1>1, <2>1, <2>2, <2>3, ChildWeakLaw
<1>4. CASE /\ Running("var", "value")
           /\ \E name \in Names :
                CheckType(CanDeclare(name), ret,
                    /\ heap' = Declare(name, ret)
                    /\ Return(ret)
                    /\ UNCHANGED <<registers, trash, status>>)
  <2>1. CASE Fail
    BY <1>1, <2>1, FailLaw
  <2>2. ASSUME NEW name \in Names, heap' = Declare(name, ret), Return(ret), UNCHANGED <<registers, trash, status>>
        PROVE  Inv'
    <3> DEFINE v == ret
    <3>1. v \in Proper /\ Vouched(heap, v) /\ heap' = Declare(name, v) /\ Return(v)
          /\ \A x \in Targets : HeldBy(v, x) = HeldBy(ret, x)
      BY <1>1, <2>2, Here, HolderVouches
    <3> HIDE DEF v
    <3> QED BY <1>1, <1>2, <2>2, <3>1, DeclareLaw
  <2> QED BY <1>4, <2>1, <2>2 DEF CheckType, Check
<1> QED BY <1>3, <1>4 DEF ExecuteVarDecl

LEMMA InterfaceLaw ==
    ASSUME Inv, ExecuteInterface
    PROVE  Inv'
<1>1. trapped = "no" /\ stack # << >> /\ Top.fn = "interface" /\ Top.pc = "start"
  BY DEF ExecuteInterface, Running
<1>2. /\ \A x \in Targets : FrameHeld(Top, x) = 0
      /\ ret.scope = NoScope
  BY <1>1, SimpleGoes, TopOK DEF Simple, Waits
<1>3. CASE Fail
  BY <1>1, <1>3, FailLaw
<1>4. ASSUME NEW name \in Names, heap' = Declare(name, Plain), Return(Plain), UNCHANGED <<registers, trash, status>>
      PROVE  Inv'
  <2> DEFINE v == Plain
  <2>1. v \in Proper /\ Vouched(heap, v) /\ heap' = Declare(name, v) /\ Return(v)
    BY <1>4, PlainHolds DEF Vouched
  <2>2. \A x \in Targets : HeldBy(v, x) = HeldBy(ret, x)
    BY <1>1, <1>2, PlainHolds, NothingHeld, Here
  <2> HIDE DEF v
  <2> QED BY <1>1, <1>2, <1>4, <2>1, <2>2, DeclareLaw
<1> QED BY <1>3, <1>4 DEF ExecuteInterface, Check

(***************************************************************************)
(* Members.                                                                *)
(***************************************************************************)
\* A member is read and written in a scope that is alive.
LEMMA MemberLaw ==
    ASSUME Sound(heap, Labels), NEW of, NEW name, MemberScope(of, name) \notin {Dangling, NoScope}
    PROVE  /\ name \in Bound(heap, MemberScope(of, name))
           /\ MemberScope(of, name) # of.scope => name \notin Bound(heap, of.scope)
           /\ of.scope \in DOMAIN heap /\ Refs(heap, Handle(of.scope, FALSE)) >= 1
<1> DEFINE r == of.scope
<1>1. At(heap, r).mem
  BY DEF MemberScope
<1>2. r \in DOMAIN heap /\ heap[r].mem
  BY <1>1 DEF At, Freed
<1>3. Settled(heap[r]) /\ heap[r].strong \in Nat
  BY <1>2, SoundCell
<1>4. heap[r].strong # 0
  BY <1>2, <1>3 DEF Settled
<1>5. Refs(heap, Handle(r, FALSE)) >= 1
  BY <1>2, <1>3, <1>4 DEF Refs, Handle
<1>6. CASE name \in Bound(heap, r)
  <2>1. MemberScope(of, name) = r
    BY <1>1, <1>6 DEF MemberScope
  <2> QED BY <1>2, <1>5, <1>6, <2>1
<1>7. CASE name \notin Bound(heap, r)
  <2>1. MemberScope(of, name) = of.owner /\ name \in Bound(heap, of.owner)
    BY <1>1, <1>7 DEF MemberScope
  <2> QED BY <1>2, <1>5, <1>7, <2>1
<1> QED BY <1>6, <1>7

LEMMA MemberSetLaw ==
    ASSUME Sound(heap, Labels), Covered(heap), NEW of, NEW name \in Labels, NEW v \in Proper,
           MemberScope(of, name) \notin {Dangling, NoScope},
           \A x \in Targets : Spare(heap, x) >= HeldBy(v, x),
           MemberScope(of, name) = of.scope => ~AssignDestroys(heap, of.scope, name)
    PROVE  /\ Sound(MemberSet(of, name, v), Labels)
           /\ \A x \in Targets : Spare(MemberSet(of, name, v), x) = Spare(heap, x)
<1>1. name \in Bound(heap, MemberScope(of, name)) /\ Refs(heap, Handle(of.scope, FALSE)) >= 1
  BY MemberLaw
<1>2. CASE MemberScope(of, name) = of.scope
  <2> DEFINE g == AssignValue(heap, of.scope, name, v)
  <2>1. MemberSet(of, name, v) = g
    BY <1>2 DEF MemberSet
  <2>2. Sound(g, Labels) /\ \A x \in Targets : Spare(g, x) = Spare(heap, x)
    BY <1>1, <1>2, AssignLaw
  <2> QED BY <2>1, <2>2
<1>3. CASE MemberScope(of, name) # of.scope
  <2> DEFINE g == AddEnv(heap, of.scope, name, v)
  <2>1. MemberSet(of, name, v) = g
    BY <1>3 DEF MemberSet
  <2>2. Vouched(heap, v)
    BY HolderVouches
  <2>3. Even(Labels, heap, g)
    BY <1>1, <2>2, AddEnvLaw
  <2> QED BY <2>1, <2>3 DEF Even
<1> QED BY <1>2, <1>3


\* The function goes on with another frame and gives back exactly what it takes.
LEMMA BecomesLaw ==
    ASSUME Inv, trapped = "no", stack # << >>, Settles, NEW f \in Frames, Become(f),
           FrameOK(f), f.fn = Top.fn, Waits(f) \/ ret'.scope = NoScope,
           \A x \in Targets :
               Spare(heap', x) + FrameHeld(Top, x) + HeldBy(ret, x) + Ref(current, x) + Ref(instance, x)
               + ValuesHeld(trash, x)
               = Spare(heap, x) + FrameHeld(f, x) + HeldBy(ret', x) + Ref(current', x) + Ref(instance', x)
                 + ValuesHeld(trash', x)
    PROVE  Inv'
<1>1. \A x \in Targets : Fair(x, Mine(x), FrameHeld(f, x) + Owns(ret', current', instance', trash', x))
  <2> TAKE x \in Targets
  <2> DEFINE s == Spare(heap', x)
             o == Spare(heap, x)
             m == HeldBy(ret, x)
             mm == HeldBy(ret', x)
             p == Ref(current, x)
             pp == Ref(current', x)
             q == Ref(instance, x)
             qq == Ref(instance', x)
             u == ValuesHeld(trash, x)
             uu == ValuesHeld(trash', x)
             e == FrameHeld(Top, x)
             ee == FrameHeld(f, x)
  <2>1. /\ m \in Nat /\ mm \in Nat /\ p \in Nat /\ pp \in Nat /\ q \in Nat /\ qq \in Nat /\ u \in Nat /\ uu \in Nat
        /\ e \in Nat /\ ee \in Nat /\ s \in Int /\ o \in Int
    <3>1. Sound(heap, Labels) /\ trash \in Seq(Proper) /\ Sound(heap', Labels) /\ trash' \in Seq(Proper)
      BY DEF Inv, Registers, Settles
    <3> QED BY <3>1, HeldByType, RefType, ValuesHeldType, FrameHeldType, SpareType
  <2>2. Mine(x) = e + (m + p + q + u)
    BY MineIs
  <2>3. Owns(ret', current', instance', trash', x) = mm + pp + qq + uu
    BY DEF Owns
  <2>5. s + e + m + p + q + u = o + ee + mm + pp + qq + uu
    OBVIOUS
  <2> HIDE DEF s, o, m, mm, p, pp, q, qq, u, uu, e, ee
  <2>6. s + (e + (m + p + q + u)) = o + (ee + (mm + pp + qq + uu))
    BY <2>1, <2>5
  <2>7. s + (e + (m + p + q + u)) \in Int
    BY <2>1
  <2>8. s + (e + (m + p + q + u)) >= o + (ee + (mm + pp + qq + uu))
    BY <2>6, <2>7
  <2> QED BY <2>2, <2>3, <2>6, <2>8 DEF Fair, s, o, ee
<1> QED BY <1>1, BecomeLaw

\* Something is returned and what was used is kept in the trash.
LEMMA AssignVariableLaw ==
    ASSUME Inv, trapped = "no", stack # << >>, Top.fn # "exec_item",
           \A x \in Targets : FrameHeld(Top, x) = 0, NEW name, AssignVariable(name)
    PROVE  Inv'
<1> DEFINE scope == Lookup(name)
<1>1. CASE Trap("dangling") \/ Trap("destroyed")
  BY <1>1, TrapsLaw
<1>2. CASE Fail
  BY <1>2, FailLaw
<1>3. CASE /\ scope \notin {NoScope, Dangling} /\ ~AssignDestroys(heap, scope, name)
           /\ heap' = AssignValue(heap, scope, name, ret)
           /\ Return(ret)
           /\ UNCHANGED <<registers, trash, status>>
  <2>1. name \in Bound(heap, scope)
    BY <1>3, LookupBound
  <2>2. Sound(heap', Labels) /\ \A x \in Targets : Spare(heap', x) = Spare(heap, x)
    <3> HIDE DEF scope
    <3> QED BY <1>3, <2>1, Here, AssignLaw
  <2>3. stack' = Front /\ ret' = ret
    BY <1>3 DEF Return, Front
  <2>4. Runs /\ trash' = trash /\ current' = current
    BY <1>3, <2>2, <2>3, Here DEF Runs, registers, status
  <2>5. \A x \in Targets :
            Spare(heap', x) + FrameHeld(Top, x) + HeldBy(ret, x) + Ref(current, x) + ValuesHeld(trash, x)
            = Spare(heap, x) + HeldBy(ret', x) + Ref(current', x) + ValuesHeld(trash', x)
    <3> TAKE x \in Targets
    <3>1. FrameHeld(Top, x) = 0 /\ HeldBy(ret', x) = HeldBy(ret, x) /\ Spare(heap, x) \in Int
      BY <2>3, Here, SpareType
    <3> QED BY <2>2, <2>3, <2>4, <3>1
  <2> QED BY <2>3, <2>4, <2>5, EndLaw
<1> QED BY <1>1, <1>2, <1>3 DEF AssignVariable

LEMMA AssignExprLaw ==
    ASSUME Inv, ExecuteAssignExpr
    PROVE  Inv'
<1>1. trapped = "no" /\ stack # << >> /\ Top.fn = "assign" /\ Top.pc \in {"start", "value", "member", "owner"}
  BY DEF ExecuteAssignExpr, Running
<1>2. FrameOK(Top) /\ Top \in Frames /\ stack \in Seq(Frames) /\ (~Waits(Top) => ret.scope = NoScope)
  BY <1>1, TopOK
<1>3. "value" \in Points /\ "member" \in Points /\ "owner" \in Points
  BY DEF Points
<1>4. ASSUME NEW pc \in Points
      PROVE  At_(pc).fn = "assign" /\ At_(pc).pc = pc /\ SameSlots(At_(pc), Top)
  BY <1>1, <1>2, GoesTo DEF SameSlots
<1>5. CASE Running("assign", "start") /\ EvalExpr("value", Top.weak)
  <2> DEFINE pc == "value"
             f == At_(pc)
  <2>1. ~Waits(Top) /\ Bare(Top)
    BY <1>1, <1>2, <1>5 DEF Running, Waits, FrameOK
  <2>2. f.fn = "assign" /\ f.pc = "value" /\ Bare(f)
    BY <1>3, <1>4, <2>1 DEF Bare, SameSlots
  <2> HIDE DEF f
  <2>3. FrameOK(f) /\ Waits(f)
    BY <2>2 DEF FrameOK, Waits
  <2>4. FrameOK(At_(pc)) /\ Waits(At_(pc)) /\ EvalExpr(pc, Top.weak) /\ pc \in Points
    BY <1>3, <1>5, <2>3 DEF f
  <2> HIDE DEF pc
  <2> QED BY <1>1, <2>1, <2>4, ChildWeakLaw
<1>6. CASE Running("assign", "value") /\ \E name \in Identifiers : AssignVariable(name)
  <2>1. Bare(Top)
    BY <1>1, <1>2, <1>6 DEF Running, FrameOK
  <2>2. \A x \in Targets : FrameHeld(Top, x) = 0
    BY <2>1, BareHolds
  <2> QED BY <1>1, <1>6, <2>2, AssignVariableLaw
<1>7. CASE /\ Running("assign", "value")
           /\ Become([Top EXCEPT !.pc = "member", !.val = ret])
           /\ ret' = Plain
           /\ UNCHANGED <<heap, registers, trash, status>>
  <2> DEFINE f == [Top EXCEPT !.pc = "member", !.val = ret]
  <2>1. Bare(Top)
    BY <1>1, <1>2, <1>7 DEF Running, FrameOK
  <2>2. ret \in Proper /\ ret \in Values
    BY <1>1, Here
  <2>3. /\ f \in Frames /\ f.fn = "assign" /\ f.pc = "member" /\ f.val = ret /\ f.type = Top.type
        /\ f.hold = Top.hold /\ f.prev = Top.prev
    BY <1>1, <1>2, <1>3, <2>2 DEF Frames
  <2>4. Become(f)
    BY <1>7
  <2> HIDE DEF f
  <2>5. FrameOK(f)
    BY <2>1, <2>2, <2>3 DEF FrameOK, AssignHolds, Bare
  <2>6. Settles /\ heap' = heap /\ current' = current /\ instance' = instance /\ trash' = trash /\ ret'.scope = NoScope
    <3>1. Runs /\ heap' = heap /\ current' = current /\ instance' = instance /\ trash' = trash
      BY <1>1, <1>7, Here, PlainHolds DEF Runs, registers, status
    <3>2. ret'.scope = NoScope
      BY <1>7 DEF Plain, Value
    <3> QED BY <3>1, <3>2, RunsSettle
  <2>7. \A x \in Targets :
          Spare(heap', x) + FrameHeld(Top, x) + HeldBy(ret, x) + Ref(current, x) + Ref(instance, x)
          + ValuesHeld(trash, x)
          = Spare(heap, x) + FrameHeld(f, x) + HeldBy(ret', x) + Ref(current', x) + Ref(instance', x)
            + ValuesHeld(trash', x)
    <3> TAKE x \in Targets
    <3>1. FrameHeld(Top, x) = 0 /\ HeldBy(ret', x) = 0 /\ FrameHeld(f, x) = HeldBy(ret, x)
      <4>1. HeldBy(Plain, x) = 0 /\ Ref(NoScope, x) = 0 /\ HeldBy(ret, x) \in Nat
        BY PlainHolds, RefNothing, HeldByType
      <4>2. f.type = Plain /\ f.hold = NoScope /\ f.prev = NoScope
        BY <2>1, <2>3 DEF Bare
      <4>3. FrameHeld(f, x) = HeldBy(ret, x)
        BY <2>3, <4>1, <4>2 DEF FrameHeld
      <4> QED BY <1>7, <2>1, <4>1, <4>3, BareHolds
    <3>2. /\ Spare(heap, x) \in Int /\ HeldBy(ret, x) \in Nat /\ Ref(current, x) \in Nat
          /\ Ref(instance, x) \in Nat /\ ValuesHeld(trash, x) \in Nat
      BY <1>1, Here, SpareType, HeldByType, RefType, ValuesHeldType
    <3> QED BY <2>6, <3>1, <3>2
  <2> QED BY <1>1, <2>3, <2>4, <2>5, <2>6, <2>7, BecomesLaw
<1>8. CASE Running("assign", "member") /\ EvalExpr("owner", Top.weak)
  <2> DEFINE pc == "owner"
             f == At_(pc)
  <2>1. ~Waits(Top) /\ AssignHolds(Top)
    BY <1>1, <1>2, <1>8 DEF Running, Waits, FrameOK
  <2>2. f.fn = "assign" /\ f.pc = "owner" /\ AssignHolds(f)
    BY <1>3, <1>4, <2>1 DEF AssignHolds, SameSlots
  <2> HIDE DEF f
  <2>3. FrameOK(f) /\ Waits(f)
    BY <2>2 DEF FrameOK, Waits
  <2>4. FrameOK(At_(pc)) /\ Waits(At_(pc)) /\ EvalExpr(pc, Top.weak) /\ pc \in Points
    BY <1>3, <1>8, <2>3 DEF f
  <2> HIDE DEF pc
  <2> QED BY <1>1, <2>1, <2>4, ChildWeakLaw
<1>9. ASSUME Running("assign", "owner"), NEW name \in Members,
             SetMember(ret, name, Top.val,
                /\ heap' = MemberSet(ret, name, Top.val)
                /\ trash' = Append(trash, ret)
                /\ Return(Top.val)
                /\ UNCHANGED <<registers, status>>)
      PROVE  Inv'
  <2> DEFINE scope == IF ret.kind \in {"type", "inst"} THEN MemberScope(ret, name) ELSE NoScope
             v == Top.val
  <2>1. CASE Trap("dangling") \/ Trap("destroyed")
    BY <1>1, <2>1, TrapsLaw
  <2>2. CASE Fail
    BY <1>1, <2>2, FailLaw
  <2>3. CASE /\ scope \notin {NoScope, Dangling}
             /\ ~(scope = ret.scope /\ AssignDestroys(heap, scope, name))
             /\ heap' = MemberSet(ret, name, v)
             /\ trash' = Append(trash, ret)
             /\ Return(v)
             /\ UNCHANGED <<registers, status>>
    <3>1. AssignHolds(Top)
      BY <1>1, <1>2, <1>9 DEF Running, FrameOK
    <3>2. v \in Proper /\ name \in Labels
      BY <3>1 DEF AssignHolds, Members, Labels
    <3>3. scope = MemberScope(ret, name)
      BY <2>3
    <3>4. \A x \in Targets : FrameHeld(Top, x) = HeldBy(v, x)
      <4> TAKE x \in Targets
      <4>1. HeldBy(Plain, x) = 0 /\ Ref(NoScope, x) = 0 /\ HeldBy(v, x) \in Nat
        BY PlainHolds, RefNothing, HeldByType
      <4> QED BY <3>1, <4>1 DEF FrameHeld, AssignHolds
    <3>5. \A x \in Targets : Spare(heap, x) >= HeldBy(v, x)
      <4> TAKE x \in Targets
      <4> DEFINE o == Spare(heap, x)
                 a == HeldBy(Top.val, x)
                 b == HeldBy(Top.type, x)
                 c == Ref(Top.hold, x)
                 d == Ref(Top.prev, x)
                 e == HeldBy(ret, x)
                 p == Ref(current, x)
                 q == Ref(instance, x)
                 u == ValuesHeld(trash, x)
      <4>1. /\ a \in Nat /\ b \in Nat /\ c \in Nat /\ d \in Nat /\ e \in Nat /\ p \in Nat /\ q \in Nat /\ u \in Nat
            /\ o \in Int /\ o >= a + b + c + d + e + p + q + u
        BY <1>1, Budget
      <4> HIDE DEF o, a, b, c, d, e, p, q, u
      <4>2. o >= a
        BY <4>1
      <4> QED BY <4>2 DEF o, a
    <3> HIDE DEF v
    <3>6. Sound(heap', Labels) /\ \A x \in Targets : Spare(heap', x) = Spare(heap, x)
      BY <1>1, <2>3, <3>2, <3>3, <3>5, Here, MemberSetLaw
    <3>7. stack' = Front /\ ret' = v
      BY <2>3 DEF Return, Front
    <3>8. trash' \in Seq(Proper) /\ \A x : ValuesHeld(trash', x) = ValuesHeld(trash, x) + HeldBy(ret, x)
      BY <1>1, <2>3, Here, ValuesAppend
    <3>9. Runs /\ current' = current
      BY <1>1, <2>3, <3>2, <3>6, <3>7, <3>8, Here DEF Runs, registers, status
    <3>10. \A x \in Targets :
            Spare(heap', x) + FrameHeld(Top, x) + HeldBy(ret, x) + Ref(current, x) + ValuesHeld(trash, x)
            = Spare(heap, x) + HeldBy(ret', x) + Ref(current', x) + ValuesHeld(trash', x)
      <4> TAKE x \in Targets
      <4>1. /\ Spare(heap, x) \in Int /\ HeldBy(ret, x) \in Nat /\ Ref(current, x) \in Nat
            /\ HeldBy(v, x) \in Nat /\ ValuesHeld(trash, x) \in Nat
        BY <1>1, Here, SpareType, HeldByType, RefType, ValuesHeldType
      <4>2. /\ FrameHeld(Top, x) = HeldBy(v, x) /\ ValuesHeld(trash', x) = ValuesHeld(trash, x) + HeldBy(ret, x)
            /\ Spare(heap', x) = Spare(heap, x) /\ HeldBy(ret', x) = HeldBy(v, x) /\ Ref(current', x) = Ref(current, x)
        BY <3>4, <3>6, <3>7, <3>8, <3>9
      <4> QED BY <4>1, <4>2
    <3>11. Top.fn # "exec_item"
      BY <1>1
    <3> QED BY <1>1, <3>7, <3>9, <3>10, <3>11, EndLaw
  <2> QED BY <1>9, <2>1, <2>2, <2>3 DEF SetMember
<1> QED BY <1>5, <1>6, <1>7, <1>8, <1>9 DEF ExecuteAssignExpr


\* A method is read: what is returned refers to the instance, and to nothing that
\* its binding refers to weakly.
LEMMA MethodLaw ==
    ASSUME NEW v \in Proper, v.kind \in FunctionKinds, NEW r \in Scopes
    PROVE  /\ [v EXCEPT !.owner = r] \in Proper
           /\ \A x \in Targets : HeldBy([v EXCEPT !.owner = r], x) <= HeldBy(v, x) + One(Handle(r, TRUE), x)
           /\ \A x \in Targets :
                  x.weak = FALSE => HeldBy([v EXCEPT !.owner = r], x) = HeldBy(v, x) + One(Handle(r, TRUE), x)
<1> DEFINE w == [v EXCEPT !.owner = r]
<1>1. v \in Values /\ v.scope # NoScope /\ v.weak = FALSE /\ r \in References /\ r # NoScope
  <2>1. v.kind \notin {"plain", "unknown", "inst"}
    BY DEF FunctionKinds
  <2>2. v \in Values /\ v.weak \in BOOLEAN
    BY DEF Proper, Values
  <2> QED BY <2>1, <2>2 DEF Proper, References, Scopes
<1>2. /\ w \in Values /\ w.kind = v.kind /\ w.scope = v.scope /\ w.weak = v.weak /\ w.owner = r
  BY <1>1 DEF Values
<1> HIDE DEF w
<1>3. w \in Proper
  BY <1>1, <1>2 DEF Proper
<1>4. ScopeHandle(w) = ScopeHandle(v)
  BY <1>2 DEF ScopeHandle
<1>5. OwnerHandle(w) = Handle(r, TRUE) /\ OwnerHandle(v) = Handle(v.owner, TRUE)
  <2>1. v.kind \in FunctionKinds /\ w.kind \in FunctionKinds
    BY <1>2
  <2>2. OwnerHandle(w).target = r /\ OwnerHandle(w).weak = TRUE
    BY <1>2, <2>1 DEF OwnerHandle, Handle
  <2> QED BY <1>2, <2>1 DEF OwnerHandle, Handle
<1>6. ASSUME NEW x \in Targets
      PROVE  /\ HeldBy(w, x) <= HeldBy(v, x) + One(Handle(r, TRUE), x)
             /\ x.weak = FALSE => HeldBy(w, x) = HeldBy(v, x) + One(Handle(r, TRUE), x)
  <2> DEFINE a == One(ScopeHandle(v), x)
             b == One(Handle(r, TRUE), x)
             c == One(Handle(v.owner, TRUE), x)
  <2>1. a \in Nat /\ b \in Nat /\ c \in Nat
    BY OneType
  <2>2. HeldBy(w, x) = a + b /\ HeldBy(v, x) = a + c
    BY <1>4, <1>5 DEF HeldBy
  <2>3. x.weak = FALSE => c = 0
    <3> SUFFICES ASSUME x.weak = FALSE PROVE c = 0
      OBVIOUS
    <3> DEFINE y == Handle(v.owner, TRUE)
    <3>1. y.weak = TRUE
      BY DEF Handle
    <3> HIDE DEF y
    <3>2. y # x
      BY <3>1
    <3>3. One(y, x) = 0
      BY <3>2 DEF One
    <3> QED BY <3>3 DEF y
  <2> HIDE DEF a, b, c
  <2>4. a + b <= (a + c) + b
    BY <2>1
  <2>5. x.weak = FALSE => a + b = (a + c) + b
    BY <2>1, <2>3
  <2> QED BY <2>2, <2>4, <2>5 DEF b
<1> QED BY <1>3, <1>6 DEF w

\* A member is returned, and its owner kept in the trash.
LEMMA MemberReturns ==
    ASSUME Inv, trapped = "no", stack # << >>, Top.fn # "exec_item",
           \A x \in Targets : FrameHeld(Top, x) = 0,
           Sound(heap', Labels), NEW v \in Proper, Return(v), trash' = Append(trash, ret),
           UNCHANGED <<registers, status>>,
           \A x \in Targets : Spare(heap', x) >= Spare(heap, x) + HeldBy(v, x),
           \A x \in Targets : x.weak = FALSE => Spare(heap', x) = Spare(heap, x) + HeldBy(v, x)
    PROVE  Inv'
<1>1. trash' \in Seq(Proper) /\ \A x : ValuesHeld(trash', x) = ValuesHeld(trash, x) + HeldBy(ret, x)
  BY Here, ValuesAppend
<1>2. ret' = v /\ current' = current /\ instance' = instance /\ error' = error /\ trapped' = trapped
  BY DEF Return, registers, status
<1>3. Settles
  BY <1>1, <1>2, Here DEF Settles, Inv, Registers
<1>4. \A x \in Targets : Fair(x, Mine(x), Owns(ret', current', instance', trash', x))
  <2> TAKE x \in Targets
  <2> DEFINE s == Spare(heap', x)
             o == Spare(heap, x)
             m == HeldBy(ret, x)
             mm == HeldBy(v, x)
             p == Ref(current, x)
             q == Ref(instance, x)
             u == ValuesHeld(trash, x)
             e == FrameHeld(Top, x)
  <2>1. /\ m \in Nat /\ mm \in Nat /\ p \in Nat /\ q \in Nat /\ u \in Nat /\ e = 0 /\ s \in Int /\ o \in Int
    BY Here, HeldByType, RefType, ValuesHeldType, SpareType
  <2>2. Mine(x) = e + (m + p + q + u)
    BY MineIs
  <2>3. Owns(ret', current', instance', trash', x) = mm + p + q + (u + m)
    BY <1>1, <1>2 DEF Owns
  <2>4. s >= o + mm /\ (x.weak = FALSE => s = o + mm)
    OBVIOUS
  <2> HIDE DEF s, o, m, mm, p, q, u, e
  <2>5. s + (e + (m + p + q + u)) >= o + (mm + p + q + (u + m))
    BY <2>1, <2>4
  <2>6. x.weak = FALSE => s + (e + (m + p + q + u)) = o + (mm + p + q + (u + m))
    BY <2>1, <2>4
  <2> QED BY <2>2, <2>3, <2>5, <2>6 DEF Fair, s, o
<1> QED BY <1>3, <1>4, ReturnLaw

LEMMA GetMemberLaw ==
    ASSUME Inv, trapped = "no", stack # << >>, Top.fn # "exec_item",
           \A x \in Targets : FrameHeld(Top, x) = 0,
           NEW name, GetMember(ret, name)
    PROVE  Inv'
<1> DEFINE scope == MemberScope(ret, name)
           member == IF scope = NoScope THEN Unknown ELSE ValueOf(heap, scope, name)
           copied == ValueCopy(heap, member)
<1>1. CASE Trap("dangling")
  BY <1>1, TrapsLaw
<1>2. CASE Fail
  BY <1>2, FailLaw
<1>3. CASE /\ scope # Dangling /\ member.kind # "unknown"
           /\ heap' = IF IsMethod(ret, member) THEN RetainWeak(copied, ret.scope) ELSE copied
           /\ Return(IF IsMethod(ret, member) THEN [member EXCEPT !.owner = ret.scope] ELSE member)
           /\ trash' = Append(trash, ret)
           /\ UNCHANGED <<registers, status>>
  <2>1. scope # NoScope
    <3>1. Unknown.kind = "unknown"
      BY DEF Unknown, Value
    <3> QED BY <1>3, <3>1
  <2>2. name \in Bound(heap, scope) /\ ret.scope \in DOMAIN heap
    BY <1>3, <2>1, Here, MemberLaw
  <2>3. member \in Proper /\ member \in Values /\ Vouched(heap, member)
    <3>1. member = ValueOf(heap, scope, name)
      BY <2>1
    <3> HIDE DEF member, scope
    <3>2. member \in Proper /\ Vouched(heap, member)
      BY <2>2, <3>1, Here, BoundValue
    <3> QED BY <3>2 DEF Proper
  <2> HIDE DEF member
  <2>4. Adds(Labels, heap, copied) /\ \A x \in Targets : Spare(copied, x) = Spare(heap, x) + HeldBy(member, x)
    BY <2>3, Here, ValueCopyLaw
  <2> HIDE DEF copied
  <2>5. CASE ~IsMethod(ret, member)
    <3>1. heap' = copied /\ Return(member)
      BY <1>3, <2>5
    <3>2. Sound(heap', Labels)
      BY <2>4, <3>1 DEF Adds
    <3>3. \A x \in Targets : /\ Spare(heap', x) >= Spare(heap, x) + HeldBy(member, x)
                             /\ Spare(heap', x) = Spare(heap, x) + HeldBy(member, x)
      <4> TAKE x \in Targets
      <4>1. Spare(heap, x) \in Int /\ HeldBy(member, x) \in Nat
        BY Here, SpareType, HeldByType
      <4> QED BY <2>4, <3>1, <4>1
    <3> QED BY <1>3, <2>3, <3>1, <3>2, <3>3, MemberReturns
  <2>6. CASE IsMethod(ret, member)
    <3> DEFINE r == ret.scope
               v == [member EXCEPT !.owner = r]
    <3>1. heap' = RetainWeak(copied, r) /\ Return(v) /\ member.kind \in FunctionKinds
      BY <1>3, <2>6 DEF IsMethod
    <3>2. r \in Scopes
      BY <2>2, Here, SoundCell
    <3>3. /\ v \in Proper
          /\ \A x \in Targets : HeldBy(v, x) <= HeldBy(member, x) + One(Handle(r, TRUE), x)
          /\ \A x \in Targets : x.weak = FALSE => HeldBy(v, x) = HeldBy(member, x) + One(Handle(r, TRUE), x)
      BY <2>3, <3>1, <3>2, MethodLaw
    <3>4. Sound(copied, Labels) /\ r \in DOMAIN copied
      BY <2>2, <2>4 DEF Adds, SameBodies
    <3> HIDE DEF v, r
    <3>5. Sound(heap', Labels) /\ \A x \in Targets : Spare(heap', x) = Spare(copied, x) + One(Handle(r, TRUE), x)
      BY <3>1, <3>4, RetainWeakLaw DEF Adds
    <3>6. ASSUME NEW x \in Targets
          PROVE  /\ Spare(heap', x) >= Spare(heap, x) + HeldBy(v, x)
                 /\ x.weak = FALSE => Spare(heap', x) = Spare(heap, x) + HeldBy(v, x)
      <4> DEFINE s == Spare(heap', x)
                 o == Spare(heap, x)
                 k == Spare(copied, x)
                 m == HeldBy(member, x)
                 mm == HeldBy(v, x)
                 i == One(Handle(r, TRUE), x)
      <4>1. /\ o \in Int /\ m \in Nat /\ mm \in Nat /\ i \in Nat /\ k = o + m /\ s = k + i
            /\ mm <= m + i /\ (x.weak = FALSE => mm = m + i)
        BY <2>4, <3>3, <3>5, Here, SpareType, HeldByType, OneType
      <4> HIDE DEF s, o, k, m, mm, i
      <4>2. s >= o + mm
        BY <4>1
      <4>3. x.weak = FALSE => s = o + mm
        BY <4>1
      <4> QED BY <4>2, <4>3 DEF s, o, mm
    <3> QED BY <1>3, <3>1, <3>3, <3>5, <3>6, MemberReturns
  <2> QED BY <2>5, <2>6
<1> QED BY <1>1, <1>2, <1>3 DEF GetMember

(***************************************************************************)
(* Native functions and types, whose scopes hold their parents weakly.     *)
(***************************************************************************)
KeptSo(h, g, r, parent) ==
    /\ Sound(g, Labels)
    /\ \A x \in Targets : Spare(g, x) = Spare(h, x) + Ref(parent, x)
    /\ \A s : s # r /\ Firm(h, s) => Firm(g, s)

LEMMA KeptWeaklyLaw ==
    ASSUME NEW h, Sound(h, Labels), NEW r \in Scopes, NEW parent,
           Refs(h, Handle(r, FALSE)) >= 1, Refs(h, Handle(parent, FALSE)) >= 1, Firm(h, r),
           \A x \in Targets : Spare(h, x) + Ref(parent, x) >= Ref(r, x)
    PROVE  KeptSo(h, KeptWeakly(h, r, parent), r, parent)
<1> DEFINE a == Retain(h, r)
           b == Retain(a, parent)
           c == Release(b, r)
           g == DowngradeParent(c, r)
<1>1. Adds(Labels, h, a) /\ \A x \in Targets : Spare(a, x) = Spare(h, x) + Ref(r, x)
  BY TakeLaw
<1>2. g = KeptWeakly(h, r, parent)
  BY DEF KeptWeakly
<1> HIDE DEF a
<1>3. Sound(a, Labels) /\ Keeps(h, a) /\ Refs(a, Handle(parent, FALSE)) >= 1
  <2> DEFINE y == Handle(parent, FALSE)
  <2>1. parent \in Scopes
    <3>1. parent \in DOMAIN h
      <4> DEFINE no == FALSE
      <4>1. no \in BOOLEAN /\ Refs(h, Handle(parent, no)) >= 1
        BY Zenon
      <4> HIDE DEF no
      <4> QED BY <4>1, Alive
    <3> QED BY <3>1, SoundCell
  <2>2. y \in Targets
    BY <2>1, HandleHas
  <2> HIDE DEF y
  <2>3. Refs(a, y) >= Refs(h, y) /\ Refs(h, y) >= 1 /\ Refs(h, y) \in Nat /\ Refs(a, y) \in Nat
    BY <1>1, <2>2, SpareType DEF Adds, y
  <2>4. Refs(a, y) >= 1
    BY <2>3
  <2> QED BY <1>1, <2>4 DEF Adds, y
<1>4. Adds(Labels, a, b) /\ \A x \in Targets : Spare(b, x) = Spare(a, x) + Ref(parent, x)
  BY <1>3, TakeLaw
<1> HIDE DEF b
<1>5. \A x \in Targets : /\ Spare(h, x) \in Int /\ Ref(r, x) \in Nat /\ Ref(parent, x) \in Nat
                         /\ Spare(h, x) + Ref(parent, x) >= Ref(r, x)
  BY SpareType, RefType
<1>6. \A x \in Targets : Spare(b, x) = Spare(h, x) + Ref(r, x) + Ref(parent, x) /\ Spare(b, x) >= Ref(r, x)
  <2> TAKE x \in Targets
  <2>1. Spare(a, x) = Spare(h, x) + Ref(r, x) /\ Spare(b, x) = Spare(a, x) + Ref(parent, x)
    BY <1>1, <1>4
  <2> QED BY <1>5, <2>1
<1>7. r \in References /\ Sound(b, Labels) /\ Keeps(a, b)
  BY <1>4 DEF References, Adds
<1>8. Lets(Labels, b, c) /\ \A x \in Targets : Spare(c, x) = Spare(b, x) - Ref(r, x)
  BY <1>6, <1>7, LetLaw
<1> HIDE DEF c
<1>9. Sound(c, Labels) /\ \A x \in Targets : /\ Spare(c, x) = Spare(h, x) + Ref(parent, x)
                                             /\ Spare(c, x) >= Ref(r, x) /\ Spare(c, x) >= 0
  <2>1. Sound(c, Labels)
    BY <1>8 DEF Lets
  <2>2. ASSUME NEW x \in Targets
        PROVE  Spare(c, x) = Spare(h, x) + Ref(parent, x) /\ Spare(c, x) >= Ref(r, x) /\ Spare(c, x) >= 0
    <3>1. Spare(b, x) = Spare(h, x) + Ref(r, x) + Ref(parent, x) /\ Spare(c, x) = Spare(b, x) - Ref(r, x)
      BY <1>6, <1>8
    <3>2. Spare(c, x) = Spare(h, x) + Ref(parent, x)
      BY <1>5, <3>1
    <3> QED BY <1>5, <3>2
  <2> QED BY <2>1, <2>2
<1>10. Keeps(h, c)
  BY <1>3, <1>7, <1>8, KeepsOn DEF Lets
<1>11. Firm(c, r) /\ r \in DOMAIN c /\ Covered(c)
  BY <1>9, <1>10, KeepsFirm, Vouching DEF Covered
<1>12. /\ Sound(g, Labels) /\ \A x \in Targets : Spare(g, x) = Spare(c, x)
       /\ \A s : s # r /\ Firm(c, s) => Firm(g, s)
  BY <1>9, <1>11, DowngradeParentLaw
<1> HIDE DEF g
<1>13. \A s : Firm(h, s) => Firm(c, s)
  BY <1>10, KeepsFirm
<1> QED BY <1>2, <1>9, <1>12, <1>13 DEF KeptSo

\* The scope of a new native function.
NativeMade(h, g, r) ==
    /\ Sound(g, Labels)
    /\ \A x \in Targets : Spare(g, x) = Spare(h, x) + Ref(r, x)
    /\ \A s : s # r /\ Firm(h, s) => Firm(g, s)

LEMMA NativeFnLaw ==
    ASSUME NEW h, Sound(h, Labels), Covered(h), NEW parent \in Scopes, Refs(h, Handle(parent, FALSE)) >= 1
    PROVE  FreshIn(h) \in Scopes /\ NativeMade(h, NativeFn(h, FreshIn(h), parent), FreshIn(h))
<1> DEFINE r == FreshIn(h)
           k == Create(h, r, parent)
           g == KeptWeakly(k, r, parent)
<1>1. r \in Scopes /\ Opened(h, k, r, parent)
  <2>1. parent \in References
    BY DEF References
  <2> QED BY <2>1, OpenLaw
<1>2. g = NativeFn(h, r, parent)
  BY DEF NativeFn
<1> HIDE DEF r
<1>3. /\ Sound(k, Labels) /\ DOMAIN k = DOMAIN h \cup {r} /\ k[r] = Cell(parent)
      /\ \A x \in Targets : Refs(k, x) >= Refs(h, x)
      /\ \A x \in Targets : Spare(k, x) = Spare(h, x) + Ref(r, x) - Ref(parent, x)
      /\ \A s : Firm(h, s) => Firm(k, s)
  BY <1>1 DEF Opened
<1> HIDE DEF k
<1>4. Refs(k, Handle(parent, FALSE)) >= 1
  <2> DEFINE y == Handle(parent, FALSE)
  <2>1. y \in Targets
    BY HandleHas
  <2> HIDE DEF y
  <2>2. Refs(k, y) >= Refs(h, y) /\ Refs(h, y) >= 1 /\ Refs(h, y) \in Nat /\ Refs(k, y) \in Nat
    BY <1>3, <2>1, SpareType DEF y
  <2>3. Refs(k, y) >= 1
    BY <2>2
  <2> QED BY <2>3 DEF y
<1>5. Refs(k, Handle(r, FALSE)) >= 1 /\ Firm(k, r)
  <2>1. r \in DOMAIN k /\ k[r].strong = 1 /\ k[r].weak_ref = FALSE
    BY <1>3 DEF Cell
  <2> QED BY <2>1 DEF Refs, Handle, Firm
<1>6. \A x \in Targets : /\ Spare(h, x) \in Int /\ Ref(r, x) \in Nat /\ Ref(parent, x) \in Nat
                         /\ Spare(h, x) >= 0
  BY SpareType, RefType DEF Covered
<1>7. \A x \in Targets : Spare(k, x) + Ref(parent, x) >= Ref(r, x)
  <2> TAKE x \in Targets
  <2>1. Spare(k, x) = Spare(h, x) + Ref(r, x) - Ref(parent, x)
    BY <1>3
  <2> QED BY <1>6, <2>1
<1>8. KeptSo(k, g, r, parent)
  BY <1>1, <1>3, <1>4, <1>5, <1>7, KeptWeaklyLaw
<1> HIDE DEF g
<1>9. NativeMade(h, g, r)
  <2>1. Sound(g, Labels) /\ (\A s : s # r /\ Firm(h, s) => Firm(g, s))
        /\ \A x \in Targets : Spare(g, x) = Spare(k, x) + Ref(parent, x)
    BY <1>3, <1>8 DEF KeptSo
  <2>2. \A x \in Targets : Spare(g, x) = Spare(h, x) + Ref(r, x)
    <3> TAKE x \in Targets
    <3>1. Spare(g, x) = Spare(k, x) + Ref(parent, x) /\ Spare(k, x) = Spare(h, x) + Ref(r, x) - Ref(parent, x)
      BY <1>3, <2>1
    <3> QED BY <1>6, <3>1
  <2> QED BY <2>1, <2>2 DEF NativeMade
<1> QED BY <1>1, <1>2, <1>9 DEF r


LEMMA MemberGetLaw ==
    ASSUME Inv, ExecuteMemberGet
    PROVE  Inv'
<1>1. trapped = "no" /\ stack # << >> /\ Top.fn = "member" /\ Top.pc \in {"start", "owner", "literal"}
  BY DEF ExecuteMemberGet, Running
<1>2. /\ \A pc \in Points : FrameOK(At_(pc)) /\ At_(pc).fn = Top.fn /\ At_(pc).pc = pc
      /\ \A x \in Targets : FrameHeld(Top, x) = 0
      /\ Top.fn # "exec_item"
  BY <1>1, SimpleGoes DEF Simple
<1>3. "owner" \in Points /\ "literal" \in Points /\ "literal" \in Functions
  BY DEF Points, Functions
<1>4. CASE Running("member", "start") /\ EvalExpr("owner", Top.weak)
  <2> DEFINE pc == "owner"
  <2>1. ~Waits(Top)
    BY <1>4 DEF Running, Waits
  <2>2. FrameOK(At_(pc)) /\ Waits(At_(pc)) /\ EvalExpr(pc, Top.weak) /\ pc \in Points
    BY <1>1, <1>2, <1>3, <1>4 DEF Waits
  <2> HIDE DEF pc
  <2> QED BY <1>1, <2>1, <2>2, ChildWeakLaw
<1>5. CASE Fail
  BY <1>1, <1>5, FailLaw
<1>6. CASE \E name \in Members : GetMember(ret, name)
  BY <1>1, <1>2, <1>6, GetMemberLaw
<1>7. CASE Trap("unreachable")
  BY <1>1, <1>7, TrapsLaw
<1>8. CASE GetMemberOfNull
  <2>1. CASE /\ heap' = NativeFn(heap, Fresh, current)
             /\ Return(Value("null_fn", Fresh, FALSE, NoScope))
             /\ trash' = Append(trash, ret)
             /\ UNCHANGED <<registers, status>>
    <3> DEFINE r == FreshIn(heap)
               kind == "null_fn"
               v == Value(kind, r, FALSE, NoScope)
    <3>1. r \in Scopes /\ NativeMade(heap, heap', r)
      BY <1>1, <2>1, Here, NativeFnLaw DEF Fresh
    <3>2. Return(v)
      BY <2>1 DEF Fresh
    <3> HIDE DEF r
    <3>3. v \in Proper /\ \A x \in Targets : HeldBy(v, x) = Ref(r, x)
      <4>1. kind \in {"fn", "type", "native", "null_fn"}
        OBVIOUS
      <4> HIDE DEF kind
      <4> QED BY <3>1, <4>1, ScopeValue
    <3> HIDE DEF v
    <3>4. Sound(heap', Labels) /\ \A x \in Targets : Spare(heap', x) = Spare(heap, x) + HeldBy(v, x)
      BY <3>1, <3>3 DEF NativeMade
    <3>5. \A x \in Targets : Spare(heap', x) >= Spare(heap, x) + HeldBy(v, x)
      <4> TAKE x \in Targets
      <4>1. Spare(heap, x) \in Int /\ HeldBy(v, x) \in Nat
        BY <1>1, Here, SpareType, HeldByType
      <4> QED BY <3>4, <4>1
    <3> QED BY <1>1, <1>2, <2>1, <3>2, <3>3, <3>4, <3>5, MemberReturns
  <2> QED BY <1>5, <1>8, <2>1 DEF GetMemberOfNull
<1>9. CASE InstanceOfLiteral /\ ret.kind = "plain" /\ Running("member", "owner")
  <2> DEFINE pc == "literal"
             weak == Top.weak
  <2>1. ret.scope = NoScope
    BY <1>1, <1>9, Here DEF Proper
  <2>2. weak \in BOOLEAN
    BY <1>1, TopOK DEF Frames
  <2>3. FrameOK(At_(pc)) /\ Waits(At_(pc)) /\ pc \in Points /\ pc \in Functions
    BY <1>1, <1>2, <1>3 DEF Waits
  <2>4. Call(pc, Frame(pc, weak)) /\ UNCHANGED <<heap, registers, trash, ret, status>>
    BY <1>9 DEF InstanceOfLiteral
  <2> HIDE DEF pc, weak
  <2> QED BY <1>1, <2>1, <2>2, <2>3, <2>4, CallLaw
<1>10. CASE /\ Running("member", "owner")
            /\ CASE ret.kind \in {"type", "inst"} -> \E name \in Members : GetMember(ret, name)
                 [] ret.kind = "plain" -> GetMemberOfNull \/ InstanceOfLiteral \/ Trap("unreachable")
                 [] OTHER -> Trap("unreachable")
  BY <1>6, <1>7, <1>8, <1>9, <1>10
<1>11. CASE /\ Running("member", "literal")
            /\ IF ret.kind = "inst" THEN \E name \in Members : GetMember(ret, name) ELSE Fail
  BY <1>5, <1>6, <1>11
<1> QED BY <1>4, <1>10, <1>11 DEF ExecuteMemberGet

(***************************************************************************)
(* extend: the frame keeps the type without its scope, which is current.   *)
(***************************************************************************)
LEMMA TypeJoin ==
    ASSUME NEW w \in Values, w.kind = "type", w.weak = FALSE, w.scope = NoScope, NEW r \in Scopes
    PROVE  /\ [w EXCEPT !.scope = r] \in Proper
           /\ \A x \in Targets : HeldBy([w EXCEPT !.scope = r], x) = HeldBy(w, x) + Ref(r, x)
<1> DEFINE v == [w EXCEPT !.scope = r]
<1>1. r \in References /\ r # NoScope
  BY DEF References, Scopes
<1>2. v \in Values /\ v.kind = "type" /\ v.weak = FALSE /\ v.scope = r /\ v.owner = w.owner
  BY <1>1 DEF Values
<1> HIDE DEF v
<1>3. v \in Proper
  BY <1>1, <1>2 DEF Proper
<1>4. \A x \in Targets : HeldBy(v, x) = HeldBy(w, x) + Ref(r, x)
  <2> TAKE x \in Targets
  <2>1. OwnerHandle(v) = OwnerHandle(w)
    BY <1>2 DEF OwnerHandle
  <2>2. ScopeHandle(v) = Handle(r, FALSE)
    BY <1>2 DEF ScopeHandle
  <2> DEFINE a == ScopeHandle(w)
             c == OwnerHandle(w)
  <2>3. a.target = NoScope
    BY DEF ScopeHandle, Handle
  <2> HIDE DEF a, c
  <2>4. a # x
    BY <2>3 DEF Targets, Scopes
  <2>5. One(a, x) = 0
    BY <2>4 DEF One
  <2>6. HeldBy(w, x) = One(a, x) + One(c, x)
    BY DEF HeldBy, a, c
  <2>7. HeldBy(v, x) = Ref(r, x) + One(c, x)
    BY <2>1, <2>2 DEF HeldBy, Ref, c
  <2>8. Ref(r, x) \in Nat /\ One(c, x) \in Nat
    BY RefType, OneType
  <2> QED BY <2>5, <2>6, <2>7, <2>8
<1> QED BY <1>3, <1>4 DEF v

LEMMA TypeSplit ==
    ASSUME NEW v \in Proper, v.kind = "type"
    PROVE  /\ v.scope \in Scopes /\ [v EXCEPT !.scope = NoScope] \in Values
           /\ [v EXCEPT !.scope = NoScope].kind = "type" /\ [v EXCEPT !.scope = NoScope].weak = FALSE
           /\ [v EXCEPT !.scope = NoScope].scope = NoScope
           /\ \A x \in Targets : HeldBy(v, x) = HeldBy([v EXCEPT !.scope = NoScope], x) + Ref(v.scope, x)
<1> DEFINE w == [v EXCEPT !.scope = NoScope]
<1>1. v \in Values /\ v.scope # NoScope /\ v.weak = FALSE
  <2>1. v \in Values /\ v.weak \in BOOLEAN
    BY DEF Proper, Values
  <2> QED BY <2>1 DEF Proper
<1>2. v.scope \in Scopes /\ NoScope \in References
  BY <1>1 DEF Values, References
<1>3. w \in Values /\ w.kind = "type" /\ w.weak = FALSE /\ w.scope = NoScope
  BY <1>1, <1>2 DEF Values
<1>4. v = [w EXCEPT !.scope = v.scope]
  BY <1>1 DEF Values
<1> HIDE DEF w
<1>5. \A x \in Targets : HeldBy(v, x) = HeldBy(w, x) + Ref(v.scope, x)
  <2> DEFINE r == v.scope
             u == [w EXCEPT !.scope = r]
  <2>1. r \in Scopes /\ u = v
    BY <1>2, <1>4
  <2>2. \A x \in Targets : HeldBy(u, x) = HeldBy(w, x) + Ref(r, x)
    <3> HIDE DEF r
    <3> QED BY <1>3, <2>1, TypeJoin
  <2> HIDE DEF u
  <2> QED BY <2>1, <2>2
<1> QED BY <1>2, <1>3, <1>5 DEF w

LEMMA ExtendLaw ==
    ASSUME Inv, ExecuteExtend
    PROVE  Inv'
<1>1. trapped = "no" /\ stack # << >> /\ Top.fn = "extend" /\ Top.pc \in {"start", "type", "members", "member"}
  BY DEF ExecuteExtend, ExtendLeave, Running, FreeItem
<1>2. FrameOK(Top) /\ Top \in Frames /\ stack \in Seq(Frames) /\ (~Waits(Top) => ret.scope = NoScope)
  BY <1>1, TopOK
<1>3. "type" \in Points /\ "members" \in Points /\ "member" \in Points
  BY DEF Points
<1>4. ASSUME NEW pc \in Points
      PROVE  At_(pc).fn = "extend" /\ At_(pc).pc = pc /\ SameSlots(At_(pc), Top)
  BY <1>1, <1>2, GoesTo DEF SameSlots
<1>5. CASE Running("extend", "start") /\ EvalExpr("type", Top.weak)
  <2> DEFINE pc == "type"
             f == At_(pc)
  <2>1. ~Waits(Top) /\ Bare(Top)
    BY <1>1, <1>2, <1>5 DEF Running, Waits, FrameOK
  <2>2. f.fn = "extend" /\ f.pc = "type" /\ Bare(f)
    BY <1>3, <1>4, <2>1 DEF Bare, SameSlots
  <2> HIDE DEF f
  <2>3. FrameOK(f) /\ Waits(f)
    BY <2>2 DEF FrameOK, Waits
  <2>4. FrameOK(At_(pc)) /\ Waits(At_(pc)) /\ EvalExpr(pc, Top.weak) /\ pc \in Points
    BY <1>3, <1>5, <2>3 DEF f
  <2> HIDE DEF pc
  <2> QED BY <1>1, <2>1, <2>4, ChildWeakLaw
<1>6. CASE Fail
  BY <1>1, <1>6, FailLaw
<1>7. CASE /\ Running("extend", "type")
           /\ ret.kind = "type"
           /\ Become([Top EXCEPT !.pc = "members", !.hold = current, !.val = [ret EXCEPT !.scope = NoScope]])
           /\ current' = ret.scope
           /\ ret' = Plain
           /\ UNCHANGED <<heap, instance, trash, status>>
  <2> DEFINE w == [ret EXCEPT !.scope = NoScope]
             f == [Top EXCEPT !.pc = "members", !.hold = current, !.val = w]
  <2>1. Bare(Top)
    BY <1>1, <1>2, <1>7 DEF Running, FrameOK
  <2>2. ret.scope \in Scopes /\ w \in Values /\ w.kind = "type" /\ w.weak = FALSE /\ w.scope = NoScope
        /\ \A x \in Targets : HeldBy(ret, x) = HeldBy(w, x) + Ref(ret.scope, x)
    BY <1>1, <1>7, Here, TypeSplit
  <2>3. Become(f)
    BY <1>7
  <2> HIDE DEF w
  <2>4. /\ f \in Frames /\ f.fn = "extend" /\ f.pc = "members" /\ f.val = w /\ f.type = Top.type
        /\ f.hold = current /\ f.prev = Top.prev
    <3>1. current \in References
      BY <1>1, Here
    <3> QED BY <1>1, <1>2, <1>3, <2>2, <3>1 DEF Frames
  <2> HIDE DEF f
  <2>5. FrameOK(f)
    <3>1. current # NoScope
      BY <1>1, Here
    <3> QED BY <2>1, <2>2, <2>4, <3>1 DEF FrameOK, ExtendHolds, Bare
  <2>6. Settles /\ heap' = heap /\ instance' = instance /\ trash' = trash /\ ret'.scope = NoScope
    <3>1. Runs /\ heap' = heap /\ instance' = instance /\ trash' = trash
      BY <1>1, <1>7, <2>2, Here, PlainHolds DEF Runs, status, References, Scopes
    <3>2. ret'.scope = NoScope
      BY <1>7 DEF Plain, Value
    <3> QED BY <3>1, <3>2, RunsSettle
  <2>7. \A x \in Targets :
          Spare(heap', x) + FrameHeld(Top, x) + HeldBy(ret, x) + Ref(current, x) + Ref(instance, x)
          + ValuesHeld(trash, x)
          = Spare(heap, x) + FrameHeld(f, x) + HeldBy(ret', x) + Ref(current', x) + Ref(instance', x)
            + ValuesHeld(trash', x)
    <3> TAKE x \in Targets
    <3> DEFINE o == Spare(heap, x)
               m == HeldBy(ret, x)
               a == HeldBy(w, x)
               p == Ref(current, x)
               pp == Ref(ret.scope, x)
               q == Ref(instance, x)
               u == ValuesHeld(trash, x)
    <3>1. FrameHeld(Top, x) = 0 /\ HeldBy(ret', x) = 0 /\ FrameHeld(f, x) = a + p
      <4>1. HeldBy(Plain, x) = 0 /\ Ref(NoScope, x) = 0 /\ a \in Nat /\ p \in Nat
        BY PlainHolds, RefNothing, HeldByType, RefType
      <4>2. f.type = Plain /\ f.prev = NoScope
        BY <2>1, <2>4 DEF Bare
      <4>3. FrameHeld(f, x) = a + p
        BY <2>4, <4>1, <4>2 DEF FrameHeld
      <4> QED BY <1>7, <2>1, <4>1, <4>3, BareHolds
    <3>2. o \in Int /\ m = a + pp /\ a \in Nat /\ p \in Nat /\ pp \in Nat /\ q \in Nat /\ u \in Nat
      BY <1>1, <2>2, Here, SpareType, HeldByType, RefType, ValuesHeldType
    <3> HIDE DEF o, m, a, p, pp, q, u
    <3>3. o + 0 + m + p + q + u = o + (a + p) + 0 + pp + q + u
      BY <3>2
    <3> QED BY <1>7, <2>6, <3>1, <3>3 DEF o, m, a, p, pp, q, u
  <2> QED BY <1>1, <2>3, <2>4, <2>5, <2>6, <2>7, BecomesLaw
<1>8. \A pc \in {"members", "member"} : Top.pc \in {"members", "member"} => FrameOK(At_(pc))
  <2> TAKE pc \in {"members", "member"}
  <2> HAVE Top.pc \in {"members", "member"}
  <2> DEFINE f == At_(pc)
  <2>1. ExtendHolds(Top)
    BY <1>1, <1>2 DEF FrameOK
  <2>2. f.fn = "extend" /\ f.pc = pc /\ SameSlots(f, Top)
    BY <1>3, <1>4
  <2> HIDE DEF f
  <2>3. ExtendHolds(f)
    BY <2>1, <2>2 DEF ExtendHolds, SameSlots
  <2>4. FrameOK(f)
    BY <2>2, <2>3 DEF FrameOK
  <2> QED BY <2>4 DEF f
<1>9. CASE Running("extend", "members") /\ ExecItem("member", TRUE)
  <2> DEFINE pc == "member"
             weak == TRUE
  <2>1. ~Waits(Top) /\ Top.pc = "members"
    BY <1>9 DEF Running, Waits
  <2>2. ret.scope = NoScope
    BY <1>2, <2>1
  <2>3. pc \in Points /\ weak \in BOOLEAN /\ ExecItem(pc, weak)
    BY <1>3, <1>9, Zenon
  <2>4. FrameOK(At_(pc)) /\ Waits(At_(pc))
    BY <1>3, <1>4, <1>8, <2>1 DEF Waits
  <2> HIDE DEF pc, weak
  <2> QED BY <1>1, <2>2, <2>3, <2>4, ChildLaw
<1>10. CASE FreeItem("extend", "member", "members")
  <2>1. Top.pc = "member"
    BY <1>10 DEF FreeItem, Running
  <2>2. FrameOK(At_("members"))
    BY <1>8, <2>1
  <2> QED BY <1>3, <1>10, <2>2, FreeItemLaw
<1>11. CASE /\ Running("extend", "members")
            /\ current' = Top.hold
            /\ Return([Top.val EXCEPT !.scope = current])
            /\ UNCHANGED <<heap, instance, trash, status>>
  <2> DEFINE w == Top.val
             r == current
             v == [w EXCEPT !.scope = r]
  <2>1. ExtendHolds(Top) /\ ret.scope = NoScope
    BY <1>1, <1>2, <1>11 DEF FrameOK, Running, Waits
  <2>2. w \in Values /\ Top.hold \in References
    BY <1>2 DEF Frames
  <2>3. v \in Proper /\ \A x \in Targets : HeldBy(v, x) = HeldBy(w, x) + Ref(r, x)
    <3>1. w.kind = "type" /\ w.weak = FALSE /\ w.scope = NoScope /\ r \in Scopes
      BY <1>1, <2>1, Here DEF ExtendHolds
    <3> HIDE DEF w, r
    <3> QED BY <2>2, <3>1, TypeJoin
  <2>4. stack' = Front /\ ret' = v /\ current' = Top.hold /\ UNCHANGED <<heap, instance, trash, status>>
    BY <1>11 DEF Return, Front
  <2> HIDE DEF v
  <2>5. Runs /\ trash' = trash /\ heap' = heap
    BY <1>1, <2>1, <2>2, <2>3, <2>4, Here DEF Runs, status, ExtendHolds
  <2>6. \A x \in Targets :
          Spare(heap', x) + FrameHeld(Top, x) + HeldBy(ret, x) + Ref(current, x) + ValuesHeld(trash, x)
          = Spare(heap, x) + HeldBy(ret', x) + Ref(current', x) + ValuesHeld(trash', x)
    <3> TAKE x \in Targets
    <3> DEFINE o == Spare(heap, x)
               a == HeldBy(w, x)
               p == Ref(current, x)
               pp == Ref(Top.hold, x)
               u == ValuesHeld(trash, x)
    <3>1. /\ o \in Int /\ a \in Nat /\ p \in Nat /\ pp \in Nat /\ u \in Nat
      BY <1>1, Here, SpareType, HeldByType, RefType, ValuesHeldType
    <3>2. FrameHeld(Top, x) = a + pp
      <4>1. HeldBy(Plain, x) = 0 /\ Ref(NoScope, x) = 0
        BY PlainHolds, RefNothing
      <4> QED BY <2>1, <3>1, <4>1 DEF FrameHeld, ExtendHolds
    <3>3. HeldBy(ret, x) = 0 /\ HeldBy(ret', x) = a + p
      <4>1. HeldBy(ret, x) = 0
        BY <1>1, <2>1, Here, NothingHeld
      <4>2. HeldBy(v, x) = a + p
        BY <2>3
      <4> QED BY <2>4, <4>1, <4>2
    <3> HIDE DEF o, a, p, pp, u
    <3>4. o + (a + pp) + 0 + p + u = o + (a + p) + pp + u
      BY <3>1
    <3> QED BY <2>4, <2>5, <3>2, <3>3, <3>4 DEF o, a, p, pp, u
  <2>7. Top.fn # "exec_item"
    BY <1>1
  <2> QED BY <1>1, <2>4, <2>5, <2>6, <2>7, EndLaw
<1> QED BY <1>5, <1>6, <1>7, <1>9, <1>10, <1>11 DEF ExecuteExtend, ExtendLeave, Check

(***************************************************************************)
(* execute_inst_creation.                                                  *)
(***************************************************************************)
\* An instance and the weak `self` in its scope.
LEMMA InstHandles ==
    ASSUME NEW v \in Proper, v.kind = "inst", v.weak = FALSE
    PROVE  /\ v.scope \in Scopes /\ v.owner \in References
           /\ \A x : HeldBy(v, x) = Ref(v.scope, x) + Ref(v.owner, x)
           /\ [v EXCEPT !.weak = TRUE] \in Proper
           /\ \A x : HeldBy([v EXCEPT !.weak = TRUE], x) = One(Handle(v.scope, TRUE), x) + Ref(v.owner, x)
<1> DEFINE w == [v EXCEPT !.weak = TRUE]
<1>1. v \in Values /\ v.scope # NoScope
  BY DEF Proper
<1>2. v.scope \in Scopes /\ v.owner \in References
  BY <1>1 DEF Values, References, Scopes
<1>3. w \in Values /\ w.kind = "inst" /\ w.weak = TRUE /\ w.scope = v.scope /\ w.owner = v.owner
  BY <1>1 DEF Values
<1> HIDE DEF w
<1>4. w \in Proper
  BY <1>1, <1>3 DEF Proper
<1>5. "inst" \notin FunctionKinds
  BY DEF FunctionKinds
<1>6. ScopeHandle(v) = Handle(v.scope, FALSE) /\ ScopeHandle(w) = Handle(v.scope, TRUE)
  BY <1>3 DEF ScopeHandle
<1>7. OwnerHandle(v) = Handle(v.owner, FALSE) /\ OwnerHandle(w) = Handle(v.owner, FALSE)
  <2> DEFINE b == v.kind \in FunctionKinds
             c == w.kind \in FunctionKinds
  <2>1. OwnerHandle(v) = Handle(v.owner, b) /\ OwnerHandle(w) = Handle(v.owner, c)
    BY <1>3 DEF OwnerHandle
  <2>2. b = FALSE /\ c = FALSE
    BY <1>3, <1>5
  <2> HIDE DEF b, c
  <2> QED BY <2>1, <2>2
<1>8. \A x : HeldBy(v, x) = Ref(v.scope, x) + Ref(v.owner, x)
  BY <1>6, <1>7 DEF HeldBy, Ref
<1>9. \A x : HeldBy(w, x) = One(Handle(v.scope, TRUE), x) + Ref(v.owner, x)
  BY <1>6, <1>7 DEF HeldBy, Ref
<1> QED BY <1>2, <1>4, <1>8, <1>9 DEF w

LEMMA FreshSame ==
    ASSUME NEW h, NEW g, DOMAIN g = DOMAIN h
    PROVE  FreshIn(g) = FreshIn(h)
BY DEF FreshIn

\* The heap once the instance of a type has been opened.
LEMMA InstOpenLaw ==
    ASSUME Inv, trapped = "no", stack # << >>, NEW t \in Proper, t.scope # NoScope, t.weak = FALSE, Vouched(heap, t)
    PROVE  LET g == Retain(Retain(Create(ValueCopy(heap, t), Fresh, current), Fresh), t.scope) IN
           /\ Fresh \in Scopes /\ t.scope \in Scopes /\ Sound(g, Labels)
           /\ \A x \in Targets : Spare(g, x) + Ref(current, x)
                                 = Spare(heap, x) + HeldBy(t, x) + Ref(Fresh, x) + Ref(t.scope, x) + Ref(Fresh, x)
<1> DEFINE c == ValueCopy(heap, t)
           r == Fresh
           o == Create(c, r, current)
           a == Retain(o, r)
           g == Retain(a, t.scope)
<1>1. t \in Values /\ t.scope \in Scopes
  BY DEF Proper, Values, References, Scopes
<1>2. Adds(Labels, heap, c) /\ \A x \in Targets : Spare(c, x) = Spare(heap, x) + HeldBy(t, x)
  BY <1>1, Here, ValueCopyLaw
<1>3. Sound(c, Labels) /\ FreshIn(c) = r /\ \A x \in Targets : Refs(c, x) >= Refs(heap, x)
  BY <1>2, FreshSame DEF Adds, SameBodies, Fresh
<1>4. current \in References
  BY Here
<1> HIDE DEF c
<1>5. r \in Scopes /\ Opened(c, o, r, current)
  BY <1>3, <1>4, OpenLaw
<1>6. Sound(o, Labels) /\ (\A x \in Targets : Spare(o, x) = Spare(c, x) + Ref(r, x) - Ref(current, x))
      /\ r \in DOMAIN o /\ o[r].strong = 1 /\ \A x \in Targets : Refs(o, x) >= Refs(c, x)
  BY <1>5 DEF Opened, Cell
<1> HIDE DEF o, r
<1>7. Refs(o, Handle(r, FALSE)) >= 1
  BY <1>6 DEF Refs, Handle
<1>8. Adds(Labels, o, a) /\ \A x \in Targets : Spare(a, x) = Spare(o, x) + Ref(r, x)
  BY <1>6, <1>7, TakeLaw
<1>9. Sound(a, Labels) /\ \A x \in Targets : Refs(a, x) >= Refs(o, x)
  BY <1>8 DEF Adds
<1>10. Handle(t.scope, FALSE) \in Targets /\ HeldBy(t, Handle(t.scope, FALSE)) >= 1
  <2>1. ScopeHandle(t) = Handle(t.scope, FALSE)
    BY DEF ScopeHandle
  <2> DEFINE y == Handle(t.scope, FALSE)
             z == One(OwnerHandle(t), y)
             k == HeldBy(t, y)
  <2>2. One(ScopeHandle(t), y) = 1
    BY <2>1, RefSelf DEF Ref
  <2>3. k = 1 + z /\ z \in Nat
    BY <2>2, OneType DEF HeldBy
  <2> HIDE DEF z, k
  <2>4. k >= 1
    BY <2>3
  <2> QED BY <1>1, <2>4, HandleHas DEF k
<1>11. Refs(a, Handle(t.scope, FALSE)) >= 1
  <2> DEFINE y == Handle(t.scope, FALSE)
  <2>1. Refs(heap, y) >= 1
    BY <1>10 DEF Vouched
  <2>2. Refs(c, y) >= Refs(heap, y) /\ Refs(o, y) >= Refs(c, y) /\ Refs(a, y) >= Refs(o, y)
    BY <1>3, <1>6, <1>9, <1>10
  <2>3. Refs(heap, y) \in Nat /\ Refs(c, y) \in Nat /\ Refs(o, y) \in Nat /\ Refs(a, y) \in Nat
    BY <1>3, <1>6, <1>9, <1>10, Here, SpareType
  <2> HIDE DEF y
  <2>4. Refs(a, y) >= 1
    BY <2>1, <2>2, <2>3
  <2> QED BY <2>4 DEF y
<1> HIDE DEF a
<1>12. Adds(Labels, a, g) /\ \A x \in Targets : Spare(g, x) = Spare(a, x) + Ref(t.scope, x)
  BY <1>9, <1>11, TakeLaw
<1>13. Sound(g, Labels)
  BY <1>12 DEF Adds
<1> HIDE DEF g
<1>14. \A x \in Targets : Spare(g, x) + Ref(current, x)
                          = Spare(heap, x) + HeldBy(t, x) + Ref(r, x) + Ref(t.scope, x) + Ref(r, x)
  <2> TAKE x \in Targets
  <2> DEFINE s0 == Spare(heap, x)
             s1 == Spare(c, x)
             s2 == Spare(o, x)
             s3 == Spare(a, x)
             s4 == Spare(g, x)
             h == HeldBy(t, x)
             p == Ref(r, x)
             q == Ref(current, x)
             u == Ref(t.scope, x)
  <2>1. s0 \in Int /\ s1 \in Int /\ s2 \in Int /\ s3 \in Int /\ s4 \in Int
    BY <1>3, <1>6, <1>9, <1>13, Here, SpareType
  <2>2. h \in Nat /\ p \in Nat /\ q \in Nat /\ u \in Nat
    BY HeldByType, RefType
  <2>3. s1 = s0 + h /\ s2 = s1 + p - q /\ s3 = s2 + p /\ s4 = s3 + u
    BY <1>2, <1>6, <1>8, <1>12
  <2> HIDE DEF s0, s1, s2, s3, s4, h, p, q, u
  <2>4. s4 + q = s0 + h + p + u + p
    BY <2>1, <2>2, <2>3
  <2> QED BY <2>4 DEF s0, s4, h, p, q, u
<1> QED BY <1>1, <1>5, <1>13, <1>14 DEF g, a, o, r, c

\* What a running instance creation holds is counted.
LEMMA InstHere ==
    ASSUME Inv, trapped = "no", stack # << >>, InstHolds(Top)
    PROVE  /\ Top.val \in Proper /\ Top.val \in Values /\ Top.val.kind = "inst" /\ Top.val.weak = FALSE
           /\ Top.type \in Proper /\ Top.val.scope \in Scopes
           /\ \A x \in Targets : FrameHeld(Top, x) = HeldBy(Top.val, x) + HeldBy(Top.type, x)
           /\ \A x \in Targets : Spare(heap, x) >= HeldBy(Top.val, x)
           /\ \A x \in Targets : Spare(heap, x) >= Ref(current, x) + Ref(Top.val.scope, x)
<1>1. /\ Top.val \in Proper /\ Top.val.kind = "inst" /\ Top.val.weak = FALSE
      /\ Top.type \in Proper /\ Top.hold = NoScope /\ Top.prev = NoScope
  BY DEF InstHolds
<1>2. Top.val \in Values
  BY <1>1 DEF Proper
<1>3. Top.val.scope \in Scopes /\ \A x : HeldBy(Top.val, x) = Ref(Top.val.scope, x) + Ref(Top.val.owner, x)
  BY <1>1, InstHandles
<1>4. ASSUME NEW x \in Targets
      PROVE  /\ FrameHeld(Top, x) = HeldBy(Top.val, x) + HeldBy(Top.type, x)
             /\ Spare(heap, x) >= HeldBy(Top.val, x)
             /\ Spare(heap, x) >= Ref(current, x) + Ref(Top.val.scope, x)
  <2> DEFINE o == Spare(heap, x)
             a == HeldBy(Top.val, x)
             b == HeldBy(Top.type, x)
             c == Ref(Top.hold, x)
             d == Ref(Top.prev, x)
             e == HeldBy(ret, x)
             p == Ref(current, x)
             q == Ref(instance, x)
             u == ValuesHeld(trash, x)
             s == Ref(Top.val.scope, x)
             w == Ref(Top.val.owner, x)
  <2>1. /\ a \in Nat /\ b \in Nat /\ c \in Nat /\ d \in Nat /\ e \in Nat /\ p \in Nat /\ q \in Nat /\ u \in Nat
        /\ o \in Int /\ o >= a + b + c + d + e + p + q + u
    BY Budget
  <2>2. c = 0 /\ d = 0 /\ a = s + w /\ s \in Nat /\ w \in Nat
    BY <1>1, <1>3, RefNothing, RefType
  <2>3. FrameHeld(Top, x) = a + b + c + d
    BY DEF FrameHeld
  <2> HIDE DEF o, a, b, c, d, e, p, q, u, s, w
  <2>4. FrameHeld(Top, x) = a + b /\ o >= a /\ o >= p + s
    BY <2>1, <2>2, <2>3
  <2> QED BY <2>4 DEF o, a, b, p, s
<1> QED BY <1>1, <1>2, <1>3, <1>4

LEMMA InstantiateLaw ==
    ASSUME Inv, trapped = "no", stack # << >>, Top.fn \in {"inst", "literal"}, Top.pc = "start",
           NEW name, Instantiate(name)
    PROVE  Inv'
<1> DEFINE scope == Lookup(name)
           t == IF scope \in DOMAIN heap THEN ValueOf(heap, scope, name) ELSE Unknown
           c == ValueCopy(heap, t)
           r == Fresh
           v == Value("inst", r, FALSE, t.scope)
           b == name = Builtin
           g == Retain(Retain(Create(c, r, current), r), t.scope)
           f == [Top EXCEPT !.pc = "members", !.type = t, !.builtin = b, !.val = v]
<1>1. FrameOK(Top) /\ Top \in Frames /\ stack \in Seq(Frames) /\ ret.scope = NoScope /\ Bare(Top)
  <2>1. ~Waits(Top)
    BY DEF Waits
  <2>2. FrameOK(Top) /\ Top \in Frames /\ stack \in Seq(Frames) /\ ret.scope = NoScope
    BY <2>1, TopOK
  <2> QED BY <2>2 DEF FrameOK
<1>2. t \in Proper /\ Vouched(heap, t)
  <2>1. CASE scope \in DOMAIN heap
    BY <2>1, LookupValue
  <2>2. CASE scope \notin DOMAIN heap
    <3>1. t = Unknown
      BY <2>2
    <3> HIDE DEF t
    <3>2. \A x \in Targets : HeldBy(Unknown, x) = 0
      BY PlainHolds
    <3> QED BY <3>1, <3>2, PlainHolds DEF Vouched
  <2> QED BY <2>1, <2>2
<1>3. CASE Trap("dangling")
  BY <1>3, TrapsLaw
<1>4. CASE /\ heap' = c
           /\ error' = TRUE
           /\ Return(Plain)
           /\ UNCHANGED <<registers, trash, trapped>>
  <2> HIDE DEF t
  <2>1. t \in Values
    BY <1>2 DEF Proper
  <2>2. Adds(Labels, heap, c) /\ \A x \in Targets : Spare(c, x) = Spare(heap, x) + HeldBy(t, x)
    BY <1>2, <2>1, Here, ValueCopyLaw
  <2>3. Sound(heap', Labels)
    BY <1>4, <2>2 DEF Adds
  <2>4. ASSUME NEW x \in Targets PROVE Spare(heap', x) >= Spare(heap, x)
    <3> DEFINE o == Spare(heap, x)
               k == HeldBy(t, x)
    <3>1. o \in Int /\ k \in Nat /\ Spare(heap', x) = o + k
      BY <1>4, <2>2, Here, SpareType, HeldByType
    <3> HIDE DEF o, k
    <3>2. o + k >= o
      BY <3>1
    <3> QED BY <3>1, <3>2 DEF o
  <2> QED BY <1>4, <2>3, <2>4, ErrorLaw
<1>5. CASE /\ t.kind = "type"
           /\ heap' = g
           /\ current' = r
           /\ Become(f)
           /\ UNCHANGED <<instance, trash, ret, status>>
  <2> HIDE DEF t
  <2>1. t.scope # NoScope /\ t.weak = FALSE
    BY <1>2, <1>5 DEF Proper
  <2>2. /\ r \in Scopes /\ t.scope \in Scopes /\ Sound(g, Labels)
        /\ \A x \in Targets : Spare(g, x) + Ref(current, x)
                              = Spare(heap, x) + HeldBy(t, x) + Ref(r, x) + Ref(t.scope, x) + Ref(r, x)
    BY <1>2, <2>1, InstOpenLaw
  <2> HIDE DEF g, r
  <2>3. /\ v \in Proper /\ v \in Values /\ v.kind = "inst" /\ v.weak = FALSE
        /\ \A x \in Targets : HeldBy(v, x) = Ref(r, x) + Ref(t.scope, x)
    <3>1. t.scope \in References
      BY <2>2 DEF References
    <3>2. v.kind = "inst" /\ v.weak = FALSE /\ v.scope = r /\ v.owner = t.scope
      BY DEF Value
    <3>3. v \in Values
      BY <2>2, <3>1 DEF Value, Values, Kinds, References
    <3> HIDE DEF v
    <3>4. v \in Proper
      BY <2>2, <3>2, <3>3 DEF Proper, Scopes
    <3>5. \A x : HeldBy(v, x) = Ref(r, x) + Ref(t.scope, x)
      BY <3>2, <3>4, InstHandles
    <3> QED BY <3>2, <3>3, <3>4, <3>5
  <2> HIDE DEF v
  <2>4. /\ f \in Frames /\ f.fn = Top.fn /\ f.pc = "members" /\ f.val = v /\ f.type = t
        /\ f.hold = Top.hold /\ f.prev = Top.prev
    <3>1. t \in Values /\ b \in BOOLEAN /\ "members" \in Points
      BY <1>2 DEF Proper, Points
    <3> HIDE DEF b
    <3> QED BY <1>1, <2>3, <3>1 DEF Frames
  <2>5. Become(f)
    BY <1>5
  <2> HIDE DEF f
  <2>6. FrameOK(f)
    <3>1. InstHolds(f)
      BY <1>1, <1>2, <2>3, <2>4 DEF InstHolds, Bare
    <3> QED BY <2>4, <3>1 DEF FrameOK
  <2>7. Settles /\ instance' = instance /\ trash' = trash /\ ret' = ret
    <3>1. Runs /\ instance' = instance /\ trash' = trash /\ ret' = ret
      BY <1>5, <2>2, Here DEF Runs, status, References, Scopes
    <3> QED BY <3>1, RunsSettle
  <2>8. \A x \in Targets :
          Spare(heap', x) + FrameHeld(Top, x) + HeldBy(ret, x) + Ref(current, x) + Ref(instance, x)
          + ValuesHeld(trash, x)
          = Spare(heap, x) + FrameHeld(f, x) + HeldBy(ret', x) + Ref(current', x) + Ref(instance', x)
            + ValuesHeld(trash', x)
    <3> TAKE x \in Targets
    <3> DEFINE s == Spare(g, x)
               o == Spare(heap, x)
               e == HeldBy(ret, x)
               a == HeldBy(v, x)
               k == HeldBy(t, x)
               p == Ref(current, x)
               pp == Ref(r, x)
               q == Ref(instance, x)
               u == ValuesHeld(trash, x)
               w == Ref(t.scope, x)
    <3>1. FrameHeld(Top, x) = 0 /\ FrameHeld(f, x) = a + k
      <4>1. Ref(NoScope, x) = 0 /\ a \in Nat /\ k \in Nat
        BY RefNothing, HeldByType
      <4>2. f.hold = NoScope /\ f.prev = NoScope
        BY <1>1, <2>4 DEF Bare
      <4>3. FrameHeld(f, x) = a + k
        BY <2>4, <4>1, <4>2 DEF FrameHeld
      <4> QED BY <1>1, <4>3, BareHolds
    <3>2. /\ s \in Int /\ o \in Int /\ e \in Nat /\ a = pp + w /\ k \in Nat /\ p \in Nat /\ pp \in Nat /\ w \in Nat
          /\ q \in Nat /\ u \in Nat /\ s + p = o + k + pp + w + pp
      BY <2>2, <2>3, Here, SpareType, HeldByType, RefType, ValuesHeldType
    <3> HIDE DEF s, o, e, a, k, p, pp, q, u, w
    <3>3. s + 0 + e + p + q + u = o + (a + k) + e + pp + q + u
      BY <3>2
    <3> QED BY <1>5, <2>7, <3>1, <3>3 DEF s, o, e, a, k, p, pp, q, u, w
  <2>9. Waits(f) \/ ret'.scope = NoScope
    BY <1>1, <2>7
  <2> QED BY <2>4, <2>5, <2>6, <2>7, <2>8, <2>9, BecomesLaw
<1>6. scope = Dangling => Trap("dangling")
  BY DEF Instantiate
<1>7. scope # Dangling /\ t.kind # "type" =>
           /\ heap' = c /\ error' = TRUE /\ Return(Plain) /\ UNCHANGED <<registers, trash, trapped>>
  BY DEF Instantiate
<1>8. scope # Dangling /\ t.kind = "type" =>
           /\ heap' = g /\ current' = r /\ Become(f) /\ UNCHANGED <<instance, trash, ret, status>>
  BY DEF Instantiate
<1> QED BY <1>3, <1>4, <1>5, <1>6, <1>7, <1>8

LEMMA InstMemberLaw ==
    ASSUME Inv, trapped = "no", stack # << >>, InstHolds(Top), NEW name \in Labels, NEW next \in Points,
           FrameOK(At_(next)), InstMember(name, next)
    PROVE  Inv'
<1> DEFINE v == Top.val
           scope == IF v.kind \in {"type", "inst"} THEN MemberScope(v, name) ELSE NoScope
           m == MemberSet(v, name, ret)
<1>1. CASE Trap("dangling") \/ Trap("destroyed")
  BY <1>1, TrapsLaw
<1>2. CASE Fail
  BY <1>2, FailLaw
<1>3. CASE /\ scope \notin {NoScope, Dangling}
           /\ ~(scope = v.scope /\ AssignDestroys(heap, scope, name))
           /\ heap' = ValueFree(m, ret)
           /\ ret' = Plain
           /\ Goto(next)
           /\ UNCHANGED <<registers, trash, status>>
  <2>1. scope = MemberScope(v, name)
    BY <1>3
  <2>2. ret \in Proper /\ ret \in Values /\ \A x \in Targets : Spare(heap, x) >= HeldBy(ret, x)
    BY Here
  <2> HIDE DEF v
  <2>3. Sound(m, Labels) /\ \A x \in Targets : Spare(m, x) = Spare(heap, x)
    BY <1>3, <2>1, <2>2, Here, MemberSetLaw
  <2> HIDE DEF m
  <2>4. \A x \in Targets : Spare(m, x) >= HeldBy(ret, x)
    BY <2>2, <2>3
  <2>5. Sound(heap', Labels) /\ \A x \in Targets : Spare(heap', x) = Spare(heap, x) - HeldBy(ret, x)
    <3>1. Lets(Labels, m, ValueFree(m, ret)) /\ \A x \in Targets : Spare(ValueFree(m, ret), x) = Spare(m, x) - HeldBy(ret, x)
      BY <2>2, <2>3, <2>4, ValueFreeLaw
    <3> QED BY <1>3, <2>3, <3>1 DEF Lets
  <2>6. Runs /\ trash' = trash /\ current' = current
    BY <1>3, <2>5, Here, PlainHolds DEF Runs, registers, status
  <2>7. stack' = [stack EXCEPT ![Len(stack)] = At_(next)]
    BY <1>3 DEF Goto, Become, At_
  <2>8. ret'.scope = NoScope
    BY <1>3 DEF Plain, Value
  <2>9. \A x \in Targets : Spare(heap', x) + HeldBy(ret, x) + Ref(current, x)
                           = Spare(heap, x) + HeldBy(ret', x) + Ref(current', x)
    <3> TAKE x \in Targets
    <3> DEFINE o == Spare(heap, x)
               s == Spare(heap', x)
               e == HeldBy(ret, x)
               p == Ref(current, x)
    <3>1. o \in Int /\ e \in Nat /\ p \in Nat /\ s = o - e /\ HeldBy(ret', x) = 0
      BY <1>3, <2>5, Here, SpareType, HeldByType, RefType, PlainHolds
    <3> HIDE DEF o, s, e, p
    <3>2. s + e + p = o + 0 + p
      BY <3>1
    <3> QED BY <2>6, <3>1, <3>2 DEF o, s, e, p
  <2> QED BY <2>6, <2>7, <2>8, <2>9, GoLaw
<1> QED BY <1>1, <1>2, <1>3 DEF InstMember, Check, SetMember

\* The heap once `self` is bound.
LEMMA SelfLaw ==
    ASSUME Inv, trapped = "no", stack # << >>, InstHolds(Top)
    PROVE  LET self == [Top.val EXCEPT !.weak = TRUE]
               g == Downgrade(ValueCopy(heap, Top.val), Top.val.scope)
               b == BindIn(g, current, Self, self)
           IN /\ Sound(g, Labels) /\ Sound(b, Labels)
              /\ \A x \in Targets : Spare(g, x) >= Spare(heap, x)
              /\ \A x \in Targets : Spare(b, x) = Spare(heap, x)
<1> DEFINE v == Top.val
           self == [v EXCEPT !.weak = TRUE]
           c == ValueCopy(heap, v)
           r == v.scope
           w == v.owner
           g == Downgrade(c, r)
           b == BindIn(g, current, Self, self)
<1>1. v \in Proper /\ v \in Values /\ v.kind = "inst" /\ v.weak = FALSE /\ r \in Scopes
      /\ \A x \in Targets : Spare(heap, x) >= HeldBy(v, x)
  BY InstHere
<1> HIDE DEF v
<1>2. /\ \A x : HeldBy(v, x) = Ref(r, x) + Ref(w, x)
      /\ self \in Proper
      /\ \A x : HeldBy(self, x) = One(Handle(r, TRUE), x) + Ref(w, x)
  BY <1>1, InstHandles
<1> HIDE DEF self, w
<1>3. Vouched(heap, v)
  BY <1>1, Here, HolderVouches
<1>4. Adds(Labels, heap, c) /\ \A x \in Targets : Spare(c, x) = Spare(heap, x) + HeldBy(v, x)
  BY <1>1, <1>3, Here, ValueCopyLaw
<1>5. Sound(c, Labels)
  BY <1>4 DEF Adds
<1> HIDE DEF c, r
<1>6. ASSUME NEW x \in Targets
      PROVE  /\ Spare(heap, x) \in Int /\ Ref(r, x) \in Nat /\ Ref(w, x) \in Nat /\ One(Handle(r, TRUE), x) \in Nat
             /\ Spare(c, x) = Spare(heap, x) + Ref(r, x) + Ref(w, x) /\ Ref(current, x) \in Nat
             /\ Spare(heap, x) >= Ref(r, x) + Ref(w, x) /\ Spare(heap, x) >= Ref(current, x)
  <2> DEFINE o == Spare(heap, x)
             k == Spare(c, x)
             h == HeldBy(v, x)
             p == Ref(r, x)
             q == Ref(w, x)
  <2>1. o \in Int /\ p \in Nat /\ q \in Nat /\ One(Handle(r, TRUE), x) \in Nat /\ Ref(current, x) \in Nat
        /\ o >= Ref(current, x)
    BY Here, SpareType, RefType, OneType
  <2>2. h = p + q /\ k = o + h /\ o >= h
    BY <1>1, <1>2, <1>4
  <2> HIDE DEF o, k, h, p, q
  <2>3. k = o + p + q /\ o >= p + q
    BY <2>1, <2>2
  <2> QED BY <2>1, <2>3 DEF o, k, p, q
<1>7. \A x \in Targets : Spare(c, x) + One(Handle(r, TRUE), x) >= One(Handle(r, FALSE), x) /\ Spare(c, x) >= Ref(r, x)
  <2> TAKE x \in Targets
  <2> DEFINE o == Spare(heap, x)
             k == Spare(c, x)
             p == Ref(r, x)
             q == Ref(w, x)
             t == One(Handle(r, TRUE), x)
  <2>1. o \in Int /\ p \in Nat /\ q \in Nat /\ t \in Nat /\ k = o + p + q /\ o >= p + q
    BY <1>6
  <2>2. One(Handle(r, FALSE), x) = p
    BY DEF Ref
  <2> HIDE DEF o, k, p, q, t
  <2>3. k + t >= p /\ k >= p
    BY <2>1
  <2> QED BY <2>2, <2>3 DEF k, p, t
<1>8. r \in DOMAIN c
  <2>1. r \in Scopes
    BY <1>1 DEF r
  <2> QED BY <1>5, <1>7, <2>1, Vouching
<1>9. Lets(Labels, c, g) /\ \A x \in Targets : Spare(g, x) = Spare(c, x) + One(Handle(r, TRUE), x) - One(Handle(r, FALSE), x)
  BY <1>5, <1>7, <1>8, DowngradeLaw
<1>10. Sound(g, Labels)
  BY <1>9 DEF Lets
<1> HIDE DEF g
<1>11. ASSUME NEW x \in Targets
       PROVE  /\ Spare(g, x) = Spare(heap, x) + HeldBy(self, x) /\ Spare(g, x) >= HeldBy(self, x)
              /\ Spare(g, x) >= Ref(current, x) /\ Spare(g, x) >= Spare(heap, x)
  <2> DEFINE o == Spare(heap, x)
             k == Spare(c, x)
             s == Spare(g, x)
             p == Ref(r, x)
             q == Ref(w, x)
             t == One(Handle(r, TRUE), x)
             e == HeldBy(self, x)
             u == Ref(current, x)
  <2>1. o \in Int /\ p \in Nat /\ q \in Nat /\ t \in Nat /\ u \in Nat /\ k = o + p + q /\ o >= u /\ e = t + q
    BY <1>2, <1>6
  <2>2. s = k + t - p
    BY <1>9 DEF Ref
  <2> HIDE DEF o, k, s, p, q, t, e, u
  <2>3. s = o + e /\ o >= 0 /\ e \in Nat
    BY <2>1, <2>2
  <2>4. s >= e /\ s >= u /\ s >= o
    BY <2>1, <2>3
  <2> QED BY <2>3, <2>4 DEF o, s, e, u
<1>12. Refs(g, Handle(current, FALSE)) >= 1
  <2>1. current \in Scopes
    BY Here
  <2> QED BY <1>10, <1>11, <2>1, Vouching
<1>13. Self \in Labels
  BY DEF Labels
<1>14. Sound(b, Labels) /\ \A x \in Targets : Spare(b, x) = Spare(g, x) - HeldBy(self, x)
  BY <1>2, <1>10, <1>11, <1>12, <1>13, BindLaw
<1>15. \A x \in Targets : Spare(b, x) = Spare(heap, x)
  <2> TAKE x \in Targets
  <2> DEFINE o == Spare(heap, x)
             s == Spare(g, x)
             e == HeldBy(self, x)
             z == Spare(b, x)
  <2>1. o \in Int /\ e \in Nat /\ s = o + e /\ z = s - e
    BY <1>6, <1>11, <1>14, HeldByType
  <2> HIDE DEF o, s, e, z
  <2>2. z = o
    BY <2>1
  <2> QED BY <2>2 DEF o, z
<1> QED BY <1>10, <1>11, <1>14, <1>15 DEF v, self, r, c, g

LEMMA InstFinishLaw ==
    ASSUME Inv, trapped = "no", stack # << >>, Top.fn # "exec_item", InstHolds(Top), ret.scope = NoScope, InstFinish,
           trapped' # "unowned"
    PROVE  Inv'
<1> DEFINE self == [Top.val EXCEPT !.weak = TRUE]
           d == Downgrade(ValueCopy(heap, Top.val), Top.val.scope)
           h == BindIn(d, current, Self, self)
           kept == Top.val.scope
           g == PopKept(h, kept)
           to == PopTo(h)
           v == Top.val
           used == Append(trash, Top.type)
<1>1. /\ Sound(d, Labels) /\ Sound(h, Labels)
      /\ \A x \in Targets : Spare(d, x) >= Spare(heap, x)
      /\ \A x \in Targets : Spare(h, x) = Spare(heap, x)
  BY SelfLaw
<1>2. CASE Trap("bottom") \/ Trap("assertion")
  BY <1>2, TrapsLaw
<1>3. CASE /\ heap' = d
           /\ error' = TRUE
           /\ Return(Plain)
           /\ UNCHANGED <<registers, trash, trapped>>
  BY <1>1, <1>3, ErrorLaw
<1>4. CASE /\ CanPop(h) /\ ~(Top.weak /\ h[kept].weak_ref)
           /\ ReturnNamed(g, to, v, used)
  <2> HIDE DEF d
  <2>1. /\ v \in Proper /\ Top.type \in Proper /\ kept \in Scopes
        /\ \A x \in Targets : FrameHeld(Top, x) = HeldBy(v, x) + HeldBy(Top.type, x)
        /\ \A x \in Targets : Spare(heap, x) >= Ref(current, x) + Ref(kept, x)
    BY InstHere
  <2>2. used \in Seq(Proper) /\ \A x : ValuesHeld(used, x) = ValuesHeld(trash, x) + HeldBy(Top.type, x)
    BY <2>1, Here, ValuesAppend
  <2> HIDE DEF h, kept
  <2>3. Pops(h, g)
    <3>1. \A x \in Targets : Spare(h, x) >= Ref(current, x) + Ref(kept, x)
      BY <1>1, <2>1
    <3> QED BY <1>1, <1>4, <2>1, <3>1, Here, PopKeptLaw
  <2> HIDE DEF g, v
  <2>4. Sound(g, Labels) /\ to \in Scopes /\ Refs(g, Handle(to, FALSE)) >= 1
        /\ \A x \in Targets : Spare(g, x) = Spare(h, x) + Ref(to, x) - Ref(current, x)
    BY <2>3 DEF Pops
  <2> HIDE DEF to, used
  <2>5. ASSUME NEW x \in Targets
        PROVE  /\ Spare(g, x) + Ref(current, x) >= Spare(heap, x) + Ref(to, x)
               /\ Spare(g, x) + FrameHeld(Top, x) + HeldBy(ret, x) + Ref(current, x) + ValuesHeld(trash, x)
                  = Spare(heap, x) + HeldBy(v, x) + Ref(to, x) + ValuesHeld(used, x)
    <3> DEFINE s == Spare(g, x)
               o == Spare(heap, x)
               m == HeldBy(ret, x)
               mm == HeldBy(v, x)
               t == HeldBy(Top.type, x)
               p == Ref(current, x)
               pp == Ref(to, x)
               u == ValuesHeld(trash, x)
               uu == ValuesHeld(used, x)
               e == FrameHeld(Top, x)
    <3>1. o \in Int /\ p \in Nat /\ pp \in Nat /\ u \in Nat /\ mm \in Nat /\ t \in Nat
      BY Here, SpareType, RefType, ValuesHeldType, HeldByType
    <3>2. e = mm + t /\ m = 0 /\ s = o + pp - p /\ uu = u + t
      BY <1>1, <2>1, <2>2, <2>4, Here, NothingHeld
    <3> HIDE DEF s, o, m, mm, t, p, pp, u, uu, e
    <3>3. s + p >= o + pp
      BY <3>1, <3>2
    <3>4. s + e + m + p + u = o + mm + pp + uu
      BY <3>1, <3>2
    <3> QED BY <3>3, <3>4 DEF s, o, m, mm, p, pp, u, uu, e
  <2>6. ReturnNamed(g, to, v, used)
    BY <1>4
  <2>7. v \in Proper /\ used \in Seq(Proper)
    BY <2>1, <2>2
  <2>8. \A x \in Targets : Spare(g, x) + Ref(current, x) >= Spare(heap, x) + Ref(to, x)
    BY <2>5
  <2>9. \A x \in Targets :
            Spare(g, x) + FrameHeld(Top, x) + HeldBy(ret, x) + Ref(current, x) + ValuesHeld(trash, x)
            = Spare(heap, x) + HeldBy(v, x) + Ref(to, x) + ValuesHeld(used, x)
    BY <2>5
  <2>10. Sound(g, Labels) /\ to \in Scopes /\ Refs(g, Handle(to, FALSE)) >= 1
    BY <2>4
  <2> QED BY <2>6, <2>7, <2>8, <2>9, <2>10, ReturnNamedLaw
<1> QED BY <1>2, <1>3, <1>4 DEF InstFinish, PopToKeep, DowngradeAgain, BindIn

LEMMA InstLaw ==
    ASSUME Inv, ExecuteInstCreation, trapped' # "unowned"
    PROVE  Inv'
<1>1. /\ trapped = "no" /\ stack # << >> /\ Top.fn \in {"inst", "literal"}
      /\ Top.fn = "inst" => Top.pc \in {"start", "members", "init"}
      /\ Top.fn = "literal" => Top.pc \in {"start", "members", "value"}
  BY DEF ExecuteInstCreation, Running
<1>2. FrameOK(Top) /\ Top \in Frames /\ stack \in Seq(Frames) /\ (~Waits(Top) => ret.scope = NoScope)
  BY <1>1, TopOK
<1>3. "members" \in Points /\ "init" \in Points /\ "value" \in Points /\ Top.fn # "exec_item"
  BY <1>1 DEF Points
<1>4. Top.pc # "start" => InstHolds(Top)
  BY <1>1, <1>2 DEF FrameOK
<1>5. \A pc \in {"members", "init", "value"} : InstHolds(Top) => FrameOK(At_(pc)) /\ At_(pc).fn = Top.fn /\ At_(pc).pc = pc
  <2> TAKE pc \in {"members", "init", "value"}
  <2> HAVE InstHolds(Top)
  <2> DEFINE f == At_(pc)
  <2>1. f.fn = Top.fn /\ f.pc = pc /\ SameSlots(f, Top)
    BY <1>1, <1>2, <1>3, GoesTo DEF SameSlots
  <2> HIDE DEF f
  <2>2. InstHolds(f)
    BY <2>1 DEF InstHolds, SameSlots
  <2>3. FrameOK(f)
    BY <1>1, <2>1, <2>2 DEF FrameOK
  <2> QED BY <2>1, <2>3 DEF f
<1>6. ASSUME NEW name, Top.pc = "start", Instantiate(name)
      PROVE  Inv'
  BY <1>1, <1>6, InstantiateLaw
<1>7. CASE Running("inst", "members") /\ EvalExpr("init", TRUE)
  <2> DEFINE pc == "init"
             weak == TRUE
  <2>1. ~Waits(Top) /\ Top.pc = "members" /\ Top.fn = "inst"
    BY <1>7 DEF Running, Waits
  <2>2. ret.scope = NoScope /\ InstHolds(Top)
    BY <1>2, <1>4, <2>1
  <2>3. pc \in Points /\ weak \in BOOLEAN /\ EvalExpr(pc, weak)
    BY <1>3, <1>7, Zenon
  <2>4. FrameOK(At_(pc)) /\ Waits(At_(pc))
    BY <1>5, <2>1, <2>2 DEF Waits
  <2> HIDE DEF pc, weak
  <2>5. ExecItem(pc, weak)
    BY <2>3 DEF ExecItem
  <2> QED BY <1>1, <2>2, <2>3, <2>4, <2>5, ChildLaw
<1>8. ASSUME NEW name \in Members, Running("inst", "init"), InstMember(name, "members")
      PROVE  Inv'
  <2> DEFINE next == "members"
  <2>1. Top.pc = "init"
    BY <1>8 DEF Running
  <2>2. InstHolds(Top) /\ next \in Points /\ name \in Labels
    BY <1>3, <1>4, <2>1 DEF Members, Labels
  <2>3. FrameOK(At_(next)) /\ InstMember(name, next)
    BY <1>5, <1>8, <2>2
  <2> HIDE DEF next
  <2> QED BY <1>1, <2>2, <2>3, InstMemberLaw
<1>9. CASE Top.pc \in {"members", "value"} /\ InstFinish
  <2>1. ret.scope = NoScope /\ InstHolds(Top)
    BY <1>1, <1>2, <1>4, <1>9 DEF Waits
  <2> QED BY <1>1, <1>3, <1>9, <2>1, InstFinishLaw
<1>10. CASE Running("literal", "members") /\ InstMember("value", "value")
  <2> DEFINE next == "value"
             name == "value"
  <2>1. Top.pc = "members"
    BY <1>10 DEF Running
  <2>2. InstHolds(Top) /\ next \in Points /\ name \in Labels
    BY <1>3, <1>4, <2>1 DEF Labels
  <2>3. FrameOK(At_(next)) /\ InstMember(name, next)
    BY <1>5, <1>10, <2>2
  <2> HIDE DEF next, name
  <2> QED BY <1>1, <2>2, <2>3, InstMemberLaw
<1>11. CASE Running("inst", "start") /\ \E name \in Identifiers : Instantiate(name)
  BY <1>6, <1>11 DEF Running
<1>12. CASE Running("literal", "start") /\ Instantiate(Builtin)
  BY <1>6, <1>12 DEF Running
<1>13. CASE Running("inst", "init") /\ \E name \in Members : InstMember(name, "members")
  BY <1>8, <1>13
<1>14. CASE (Running("inst", "members") /\ InstFinish) \/ (Running("literal", "value") /\ InstFinish)
  BY <1>9, <1>14 DEF Running
<1> QED BY <1>7, <1>10, <1>11, <1>12, <1>13, <1>14 DEF ExecuteInstCreation

(***************************************************************************)
(* execute_call_expr.  The default values are bound one after the other.   *)
(***************************************************************************)
DefaultRun(n) ==
    CHOOSE run : run = [k \in 0 .. n |->
        IF k = 0 THEN heap
        ELSE IF ~Missing(k) THEN run[k - 1]
        ELSE AddEnv(run[k - 1], current, Params[k].name, Params[k].value)]

LEMMA DefaultRunIs ==
    ASSUME NEW m \in Nat
    PROVE  /\ Defaulted(m) = DefaultRun(m)[m]
           /\ DefaultRun(m)[0] = heap
           /\ \A k \in 1 .. m :
                  DefaultRun(m)[k] = IF ~Missing(k) THEN DefaultRun(m)[k - 1]
                                     ELSE AddEnv(DefaultRun(m)[k - 1], current, Params[k].name, Params[k].value)
<1> DEFINE Fill(h, k) == IF ~Missing(k) THEN h ELSE AddEnv(h, current, Params[k].name, Params[k].value)
           Step(d, k) == IF k = 0 THEN heap ELSE Fill(d[k - 1], k)
           Exists(j) == \E d : d = [k \in 0 .. j |-> Step(d, k)]
           Failing == {j \in Nat : ~Exists(j)}
<1> HIDE DEF Fill
<1>2. Exists(0)
  <2> DEFINE e == [k \in 0 .. 0 |-> heap]
  <2>1. e = [k \in 0 .. 0 |-> Step(e, k)]
    BY DEF Step
  <2> HIDE DEF Step, e
  <2> QED BY <2>1
<1>3. ASSUME NEW j \in Nat, Exists(j) PROVE Exists(j + 1)
  <2>1. PICK d : d = [k \in 0 .. j |-> Step(d, k)]
    BY <1>3
  <2> DEFINE e == [k \in 0 .. j + 1 |-> IF k = j + 1 THEN Step(d, k) ELSE d[k]]
  <2>2. ASSUME NEW k \in 0 .. j + 1 PROVE e[k] = Step(e, k)
    <3>1. CASE k = 0
      <4>1. d[0] = heap
        BY <2>1
      <4> QED BY <3>1, <4>1
    <3>2. CASE k # 0
      <4>1. k - 1 \in 0 .. j /\ e[k - 1] = d[k - 1]
        BY <3>2
      <4>2. Step(e, k) = Step(d, k)
        BY <3>2, <4>1
      <4>3. k # j + 1 => d[k] = Step(d, k)
        BY <2>1
      <4> QED BY <4>2, <4>3
    <3> QED BY <3>1, <3>2
  <2> HIDE DEF Step
  <2>3. e = [k \in 0 .. j + 1 |-> Step(e, k)]
    BY <2>2
  <2> HIDE DEF e
  <2> QED BY <2>3
<1> HIDE DEF Exists
<1>4. Failing = {}
  <2> SUFFICES ASSUME Failing # {} PROVE FALSE
    OBVIOUS
  <2>1. PICK j \in Failing : \A i \in Failing : j <= i
    BY Smallest
  <2>2. j # 0 /\ j - 1 \in Nat
    BY <1>2, <2>1
  <2>3. Exists(j - 1)
    BY <2>1, <2>2
  <2> QED BY <1>3, <2>1, <2>2, <2>3
<1>5. Exists(m)
  BY <1>4
<1> DEFINE run == DefaultRun(m)
<1>6. run = CHOOSE d : d = [k \in 0 .. m |-> Step(d, k)]
  BY DEF DefaultRun, Fill
<1>7. Defaulted(m) = run[m]
  BY <1>6 DEF Defaulted, Fill
<1> HIDE DEF run
<1>8. run = [k \in 0 .. m |-> Step(run, k)]
  <2> HIDE DEF Step
  <2> QED BY <1>5, <1>6 DEF Exists
<1> HIDE DEF Step
<1>9. \A k \in 0 .. m : run[k] = Step(run, k)
  BY <1>8
<1>10. run[0] = heap /\ \A k \in 1 .. m : run[k] = Fill(run[k - 1], k)
  BY <1>9 DEF Step
<1> QED BY <1>7, <1>10 DEF run, Fill

LEMMA EvenItself ==
    ASSUME NEW h, Sound(h, Labels)
    PROVE  Even(Labels, h, h)
<1>1. \A x \in Targets : Refs(h, x) \in Nat
  BY SpareType
<1> QED BY <1>1 DEF Even

LEMMA EvenOn ==
    ASSUME NEW f, NEW g, NEW h, Sound(f, Labels), Even(Labels, f, g), Even(Labels, g, h)
    PROVE  Even(Labels, f, h)
<1>1. Sound(g, Labels) /\ Sound(h, Labels) /\ DOMAIN h = DOMAIN f
  BY DEF Even
<1>2. \A x \in Targets : Spare(h, x) = Spare(f, x)
  BY DEF Even
<1>3. \A x \in Targets : Refs(h, x) >= Refs(f, x)
  <2> TAKE x \in Targets
  <2>1. Refs(f, x) \in Nat /\ Refs(g, x) \in Nat /\ Refs(h, x) \in Nat
    BY <1>1, SpareType
  <2>2. Refs(g, x) >= Refs(f, x) /\ Refs(h, x) >= Refs(g, x)
    BY DEF Even
  <2> QED BY <2>1, <2>2
<1>4. \A r : Firm(f, r) => Firm(h, r)
  BY DEF Even
<1> QED BY <1>1, <1>2, <1>3, <1>4 DEF Even

\* The parameters of the function that is called.
LEMMA ParamsAre ==
    ASSUME Inv, NEW n \in 1 .. Len(Params)
    PROVE  Params[n].name \in Labels /\ Params[n].value \in Proper /\ Vouched(heap, Params[n].value)
<1> DEFINE r == Top.val.scope
<1>1. Sound(heap, Labels) /\ Covered(heap)
  BY AllCovered DEF Inv
<1>2. CASE r \in DOMAIN heap
  <2>1. Params = heap[r].vars
    BY <1>2 DEF Params, At
  <2> HIDE DEF r
  <2> QED BY <1>1, <1>2, <2>1, BindingVouches
<1>3. CASE r \notin DOMAIN heap
  <2>1. Params = << >>
    BY <1>3 DEF Params, At, Freed, Cell
  <2>2. Len(Params) = 0
    BY <2>1
  <2> QED BY <2>2
<1> QED BY <1>2, <1>3

LEMMA ParamsSequence ==
    ASSUME Inv
    PROVE  Len(Params) \in Nat /\ DOMAIN Params = 1 .. Len(Params)
<1> DEFINE r == Top.val.scope
<1>1. Sound(heap, Labels)
  BY DEF Inv
<1>2. CASE r \in DOMAIN heap
  <2>1. Params = heap[r].vars
    BY <1>2 DEF Params, At
  <2>2. heap[r].vars \in Seq(Entries(Labels))
    BY <1>1, <1>2, SoundCell
  <2> QED BY <2>1, <2>2
<1>3. CASE r \notin DOMAIN heap
  <2>1. Params = << >>
    BY <1>3 DEF Params, At, Freed, Cell
  <2> QED BY <2>1
<1> QED BY <1>2, <1>3

\* Defaults are bound without a reference gained or lost.
LEMMA DefaultedLaw ==
    ASSUME Inv, trapped = "no", stack # << >>, NEW m \in 0 .. Len(Params)
    PROVE  Even(Labels, heap, Defaulted(m))
<1> DEFINE run == DefaultRun(m)
           Good(k) == Even(Labels, heap, run[k])
           Failing == {k \in 0 .. m : ~Good(k)}
<1>1. Len(Params) \in Nat
  BY ParamsSequence
<1>2. m \in Nat /\ m <= Len(Params)
  BY <1>1
<1>3. /\ Defaulted(m) = run[m] /\ run[0] = heap
      /\ \A k \in 1 .. m : run[k] = IF ~Missing(k) THEN run[k - 1]
                                    ELSE AddEnv(run[k - 1], current, Params[k].name, Params[k].value)
  BY <1>2, DefaultRunIs
<1> HIDE DEF run
<1>4. Sound(heap, Labels) /\ current \in Scopes /\ Refs(heap, Handle(current, FALSE)) >= 1
  BY Here
<1>5. Good(0)
  BY <1>3, <1>4, EvenItself
<1>6. ASSUME NEW k \in 1 .. m, Good(k - 1) PROVE Good(k)
  <2>1. CASE ~Missing(k)
    BY <1>3, <1>6, <2>1
  <2>2. CASE Missing(k)
    <3> DEFINE h == run[k - 1]
               name == Params[k].name
               v == Params[k].value
    <3>1. run[k] = AddEnv(h, current, name, v)
      BY <1>3, <2>2
    <3>2. name \in Labels /\ v \in Proper /\ Vouched(heap, v)
      <4>1. k \in 1 .. Len(Params)
        BY <1>1, <1>2
      <4> QED BY <4>1, ParamsAre
    <3>3. Even(Labels, heap, h)
      BY <1>6
    <3> HIDE DEF h, name, v
    <3>4. Sound(h, Labels) /\ \A x \in Targets : Refs(h, x) >= Refs(heap, x)
      BY <3>3 DEF Even
    <3>5. \A x \in Targets : Refs(heap, x) >= 1 => Refs(h, x) >= 1
      <4> TAKE x \in Targets
      <4>1. Refs(heap, x) \in Nat /\ Refs(h, x) \in Nat /\ Refs(h, x) >= Refs(heap, x)
        BY <1>4, <3>4, SpareType
      <4> QED BY <4>1
    <3>6. Vouched(h, v)
      BY <3>2, <3>5 DEF Vouched
    <3>7. Refs(h, Handle(current, FALSE)) >= 1
      <4>1. Handle(current, FALSE) \in Targets
        BY <1>4, HandleHas
      <4> QED BY <1>4, <3>5, <4>1
    <3>8. Even(Labels, h, AddEnv(h, current, name, v))
      BY <3>2, <3>4, <3>6, <3>7, AddEnvLaw
    <3> QED BY <1>4, <3>1, <3>3, <3>8, EvenOn
  <2> QED BY <2>1, <2>2
<1> HIDE DEF Good
<1>7. Failing = {}
  <2> SUFFICES ASSUME Failing # {} PROVE FALSE
    OBVIOUS
  <2>1. Failing \in SUBSET Nat
    OBVIOUS
  <2>2. PICK k \in Failing : \A j \in Failing : k <= j
    BY <2>1, Smallest
  <2>3. k \in 1 .. m /\ k - 1 \in 0 .. m
    BY <1>2, <1>5, <2>2
  <2>4. Good(k - 1)
    BY <2>2, <2>3
  <2> QED BY <1>6, <2>2, <2>3, <2>4
<1>8. Good(m)
  BY <1>2, <1>7
<1> QED BY <1>3, <1>8 DEF Good

\* The heap when a call begins: it holds the instance and a new scope.
LEMMA CallOpenLaw ==
    ASSUME Inv, trapped = "no", stack # << >>, NEW owner
    PROVE  LET self == IF owner = NoScope THEN NoScope ELSE Retained(heap, owner)
               h == IF self = NoScope THEN heap ELSE Retain(heap, self)
               g == Create(h, Fresh, current)
           IN /\ self \in References /\ Fresh \in Scopes /\ Sound(g, Labels)
              /\ \A x \in Targets : Spare(g, x) + Ref(current, x) = Spare(heap, x) + Ref(self, x) + Ref(Fresh, x)
<1> DEFINE self == IF owner = NoScope THEN NoScope ELSE Retained(heap, owner)
           h == IF self = NoScope THEN heap ELSE Retain(heap, self)
           r == Fresh
           g == Create(h, r, current)
<1>1. Sound(heap, Labels) /\ current \in References
  BY Here
<1>2. /\ self \in References /\ Sound(h, Labels) /\ DOMAIN h = DOMAIN heap
      /\ \A x \in Targets : Spare(h, x) = Spare(heap, x) + Ref(self, x)
  <2>1. CASE self = NoScope
    <3> HIDE DEF self
    <3>1. \A x \in Targets : Spare(heap, x) = Spare(heap, x) + Ref(self, x)
      <4> TAKE x \in Targets
      <4>1. Spare(heap, x) \in Int /\ Ref(self, x) = 0
        BY <1>1, <2>1, SpareType, RefNothing
      <4> QED BY <4>1
    <3> QED BY <1>1, <2>1, <3>1 DEF References
  <2>2. CASE self # NoScope
    <3>1. self = owner /\ ~Expired(heap, self)
      BY <2>2 DEF Retained
    <3> HIDE DEF self
    <3>2. self \in DOMAIN heap /\ heap[self].strong # 0
      BY <3>1 DEF Expired, At, Freed, Cell
    <3>3. self \in Scopes /\ heap[self].strong \in Nat
      BY <1>1, <3>2, SoundCell
    <3>4. Refs(heap, Handle(self, FALSE)) >= 1
      BY <3>2, <3>3 DEF Refs, Handle
    <3>5. Adds(Labels, heap, h) /\ \A x \in Targets : Spare(h, x) = Spare(heap, x) + Ref(self, x)
      BY <1>1, <2>2, <3>4, TakeLaw
    <3> QED BY <3>3, <3>5 DEF Adds, SameBodies, References
  <2> QED BY <2>1, <2>2
<1>3. FreshIn(h) = r
  BY <1>2, FreshSame DEF Fresh
<1> HIDE DEF self, h, r
<1>4. r \in Scopes /\ Opened(h, g, r, current)
  BY <1>1, <1>2, <1>3, OpenLaw
<1>5. Sound(g, Labels) /\ \A x \in Targets : Spare(g, x) = Spare(h, x) + Ref(r, x) - Ref(current, x)
  BY <1>4 DEF Opened
<1>6. \A x \in Targets : Spare(g, x) + Ref(current, x) = Spare(heap, x) + Ref(self, x) + Ref(r, x)
  <2> TAKE x \in Targets
  <2> DEFINE o == Spare(heap, x)
             k == Spare(h, x)
             s == Spare(g, x)
             p == Ref(current, x)
             q == Ref(self, x)
             t == Ref(r, x)
  <2>1. o \in Int /\ p \in Nat /\ q \in Nat /\ t \in Nat /\ k = o + q /\ s = k + t - p
    BY <1>1, <1>2, <1>5, SpareType, RefType
  <2> HIDE DEF o, k, s, p, q, t
  <2>2. s + p = o + q + t
    BY <2>1
  <2> QED BY <2>2 DEF o, s, p, q, t
<1> QED BY <1>2, <1>4, <1>5, <1>6 DEF self, h, r

LEMMA CallEnterLaw ==
    ASSUME Inv, CallEnter
    PROVE  Inv'
<1> DEFINE self == IF ret.owner = NoScope THEN NoScope ELSE Retained(heap, ret.owner)
           h == IF self = NoScope THEN heap ELSE Retain(heap, self)
           r == Fresh
           g == Create(h, r, current)
           f == [Top EXCEPT !.pc = "args", !.val = ret, !.prev = instance]
<1>1. trapped = "no" /\ stack # << >> /\ Top.fn = "call" /\ Top.pc = "callee"
  BY DEF CallEnter, Running
<1>2. FrameOK(Top) /\ Top \in Frames /\ stack \in Seq(Frames) /\ Bare(Top)
  BY <1>1, TopOK DEF FrameOK
<1>3. CASE Fail
  BY <1>1, <1>3, FailLaw
<1>4. CASE /\ ret.kind \in FunctionKinds
           /\ heap' = g /\ current' = r
           /\ instance' = self
           /\ Become(f)
           /\ ret' = Plain
           /\ UNCHANGED <<trash, status>>
  <2>1. /\ self \in References /\ r \in Scopes /\ Sound(g, Labels)
        /\ \A x \in Targets : Spare(g, x) + Ref(current, x) = Spare(heap, x) + Ref(self, x) + Ref(r, x)
    BY <1>1, CallOpenLaw
  <2> HIDE DEF self, r, g
  <2>2. ret \in Proper /\ ret \in Values /\ instance \in References
    BY <1>1, Here
  <2>3. /\ f \in Frames /\ f.fn = "call" /\ f.pc = "args" /\ f.val = ret /\ f.type = Top.type
        /\ f.hold = Top.hold /\ f.prev = instance
    <3>1. "args" \in Points
      BY DEF Points
    <3> QED BY <1>1, <1>2, <2>2, <3>1 DEF Frames
  <2>4. Become(f)
    BY <1>4
  <2> HIDE DEF f
  <2>5. FrameOK(f)
    BY <1>2, <1>4, <2>2, <2>3 DEF FrameOK, CallHolds, Bare
  <2>6. Settles /\ trash' = trash /\ ret'.scope = NoScope
    <3>1. trash \in Seq(Proper) /\ error \in BOOLEAN
      BY DEF Inv, Registers
    <3>2. Plain \in Proper /\ ret'.scope = NoScope
      BY <1>4, PlainHolds DEF Plain, Value
    <3>3. r \in References /\ r # NoScope
      BY <2>1 DEF References, Scopes
    <3> QED BY <1>1, <1>4, <2>1, <3>1, <3>2, <3>3 DEF Settles, status
  <2>7. \A x \in Targets :
          Spare(heap', x) + FrameHeld(Top, x) + HeldBy(ret, x) + Ref(current, x) + Ref(instance, x)
          + ValuesHeld(trash, x)
          = Spare(heap, x) + FrameHeld(f, x) + HeldBy(ret', x) + Ref(current', x) + Ref(instance', x)
            + ValuesHeld(trash', x)
    <3> TAKE x \in Targets
    <3> DEFINE s == Spare(g, x)
               o == Spare(heap, x)
               e == HeldBy(ret, x)
               p == Ref(current, x)
               pp == Ref(r, x)
               q == Ref(instance, x)
               qq == Ref(self, x)
               u == ValuesHeld(trash, x)
    <3>1. FrameHeld(Top, x) = 0 /\ FrameHeld(f, x) = e + q /\ HeldBy(ret', x) = 0
      <4>1. Ref(NoScope, x) = 0 /\ e \in Nat /\ q \in Nat /\ HeldBy(Plain, x) = 0
        BY RefNothing, HeldByType, RefType, PlainHolds
      <4>2. f.hold = NoScope /\ f.type = Plain
        BY <1>2, <2>3 DEF Bare
      <4>3. FrameHeld(f, x) = e + q
        BY <2>3, <4>1, <4>2 DEF FrameHeld
      <4> QED BY <1>2, <1>4, <4>1, <4>3, BareHolds
    <3>2. /\ s \in Int /\ o \in Int /\ e \in Nat /\ p \in Nat /\ pp \in Nat /\ q \in Nat /\ qq \in Nat /\ u \in Nat
          /\ s + p = o + qq + pp
      BY <1>1, <2>1, Here, SpareType, HeldByType, RefType, ValuesHeldType
    <3> HIDE DEF s, o, e, p, pp, q, qq, u
    <3>3. s + 0 + e + p + q + u = o + (e + q) + 0 + pp + qq + u
      BY <3>2
    <3> QED BY <1>4, <2>6, <3>1, <3>3 DEF s, o, e, p, pp, q, qq, u
  <2> QED BY <1>1, <2>3, <2>4, <2>5, <2>6, <2>7, BecomesLaw
<1> QED BY <1>3, <1>4 DEF CallEnter, PushScope

\* What a call holds is counted.
LEMMA CallHere ==
    ASSUME Inv, trapped = "no", stack # << >>, CallHolds(Top)
    PROVE  /\ Top.val \in Proper /\ Top.val.scope \in Scopes
           /\ \A x \in Targets : FrameHeld(Top, x) = HeldBy(Top.val, x) + Ref(Top.hold, x) + Ref(Top.prev, x)
           /\ \A x \in Targets : Spare(heap, x) >= Ref(current, x) + Ref(Top.val.scope, x)
           /\ \A x \in Targets : Spare(heap, x) >= Ref(current, x) + Ref(instance, x)
<1> DEFINE v == Top.val
<1>1. v \in Proper /\ v.kind \in FunctionKinds /\ Top.type = Plain
  BY DEF CallHolds
<1> HIDE DEF v
<1>2. v.weak = FALSE /\ v.scope \in Scopes
  <2>1. v \in Values /\ (v.weak => v.kind = "inst") /\ v.weak \in BOOLEAN
    BY <1>1 DEF Proper, Values
  <2>2. v.kind # "inst" /\ v.kind \notin {"plain", "unknown"}
    BY <1>1 DEF FunctionKinds
  <2>3. v.scope # NoScope
    BY <1>1, <2>2 DEF Proper
  <2> QED BY <2>1, <2>2, <2>3 DEF Values, References, Scopes
<1>3. ScopeHandle(v) = Handle(v.scope, FALSE)
  BY <1>2 DEF ScopeHandle
<1>4. ASSUME NEW x \in Targets
      PROVE  /\ FrameHeld(Top, x) = HeldBy(v, x) + Ref(Top.hold, x) + Ref(Top.prev, x)
             /\ Spare(heap, x) >= Ref(current, x) + Ref(v.scope, x)
             /\ Spare(heap, x) >= Ref(current, x) + Ref(instance, x)
  <2> DEFINE o == Spare(heap, x)
             a == HeldBy(v, x)
             b == HeldBy(Top.type, x)
             c == Ref(Top.hold, x)
             d == Ref(Top.prev, x)
             e == HeldBy(ret, x)
             p == Ref(current, x)
             q == Ref(instance, x)
             u == ValuesHeld(trash, x)
             s == Ref(v.scope, x)
             w == One(OwnerHandle(v), x)
  <2>1. /\ a \in Nat /\ b \in Nat /\ c \in Nat /\ d \in Nat /\ e \in Nat /\ p \in Nat /\ q \in Nat /\ u \in Nat
        /\ o \in Int /\ o >= a + b + c + d + e + p + q + u
    BY Budget DEF v
  <2>2. b = 0 /\ s \in Nat /\ w \in Nat
    BY <1>1, PlainHolds, RefType, OneType
  <2>3. a = s + w
    BY <1>3 DEF HeldBy, Ref
  <2>4. FrameHeld(Top, x) = a + b + c + d
    BY DEF FrameHeld, v
  <2> HIDE DEF o, a, b, c, d, e, p, q, u, s, w
  <2>5. FrameHeld(Top, x) = a + c + d /\ o >= p + s /\ o >= p + q
    BY <2>1, <2>2, <2>3, <2>4
  <2> QED BY <2>5 DEF o, a, c, d, p, q, s
<1> QED BY <1>1, <1>2, <1>4 DEF v

\* The heap when the body begins: the parameters belong to the closure.
LEMMA CallOverLaw ==
    ASSUME Inv, trapped = "no", stack # << >>, CallHolds(Top), CanPop(Retain(Defaulted(Len(Params)), current))
    PROVE  LET held == Retain(Defaulted(Len(Params)), current)
               g == SetParent(Retain(Popped(held), Top.val.scope), current, Top.val.scope)
           IN /\ PopTo(held) \in Scopes /\ Sound(g, Labels)
              /\ \A x \in Targets : Spare(g, x) = Spare(heap, x) + Ref(PopTo(held), x)
<1> DEFINE d == Defaulted(Len(Params))
           h == Retain(d, current)
           p == Popped(h)
           r == Top.val.scope
           k == Retain(p, r)
           g == SetParent(k, current, r)
           to == PopTo(h)
<1>1. Sound(heap, Labels) /\ current \in Scopes /\ Refs(heap, Handle(current, FALSE)) >= 1
  BY Here
<1>2. r \in Scopes /\ \A x \in Targets : Spare(heap, x) >= Ref(current, x) + Ref(r, x)
  BY CallHere
<1>3. Even(Labels, heap, d)
  <2>1. Len(Params) \in 0 .. Len(Params)
    BY ParamsSequence
  <2> DEFINE m == Len(Params)
  <2> HIDE DEF m
  <2>2. m \in 0 .. Len(Params)
    BY <2>1 DEF m
  <2>3. Even(Labels, heap, Defaulted(m))
    BY <2>1, <2>2, DefaultedLaw DEF m
  <2> QED BY <2>3 DEF m
<1> HIDE DEF d, r
<1>4. Sound(d, Labels) /\ \A x \in Targets : Spare(d, x) = Spare(heap, x) /\ Refs(d, x) >= Refs(heap, x)
  BY <1>3 DEF Even
<1>5. Refs(d, Handle(current, FALSE)) >= 1
  <2> DEFINE y == Handle(current, FALSE)
  <2>1. y \in Targets
    BY <1>1, HandleHas
  <2>2. Refs(heap, y) >= 1
    BY <1>1
  <2> HIDE DEF y
  <2>3. Refs(heap, y) \in Nat /\ Refs(d, y) \in Nat /\ Refs(d, y) >= Refs(heap, y)
    BY <1>1, <1>4, <2>1, SpareType
  <2>4. Refs(d, y) >= 1
    BY <2>2, <2>3
  <2> QED BY <2>4 DEF y
<1>6. Adds(Labels, d, h) /\ \A x \in Targets : Spare(h, x) = Spare(d, x) + Ref(current, x)
  BY <1>4, <1>5, TakeLaw
<1>7. Sound(h, Labels)
  BY <1>6 DEF Adds
<1>8. CanPop(h)
  BY DEF d
<1> HIDE DEF h
<1>9. \A x \in Targets : /\ Spare(h, x) = Spare(heap, x) + Ref(current, x) /\ Spare(h, x) >= Ref(current, x)
                         /\ Spare(heap, x) \in Int /\ Ref(current, x) \in Nat
  <2> TAKE x \in Targets
  <2> DEFINE o == Spare(heap, x)
             s == Spare(h, x)
             c == Ref(current, x)
  <2>1. o \in Int /\ c \in Nat /\ o >= c
    BY <1>1, Here, SpareType, RefType
  <2>2. s = o + c
    BY <1>4, <1>6
  <2> HIDE DEF o, s, c
  <2>3. s >= c
    BY <2>1, <2>2
  <2> QED BY <2>1, <2>2, <2>3 DEF o, s, c
<1>10. Pops(h, p)
  BY <1>1, <1>7, <1>8, <1>9, PoppedLaw
<1> HIDE DEF p, to
<1>11. Sound(p, Labels) /\ to \in Scopes /\ \A x \in Targets : Spare(p, x) = Spare(h, x) + Ref(to, x) - Ref(current, x)
  BY <1>10 DEF Pops, to
<1>12. \A x \in Targets : /\ Spare(p, x) = Spare(heap, x) + Ref(to, x) /\ Spare(p, x) >= Ref(r, x)
                          /\ Spare(p, x) >= Ref(current, x) /\ Spare(p, x) >= 0
  <2> TAKE x \in Targets
  <2> DEFINE o == Spare(heap, x)
             s == Spare(h, x)
             z == Spare(p, x)
             c == Ref(current, x)
             t == Ref(to, x)
             q == Ref(r, x)
  <2>1. o \in Int /\ c \in Nat /\ t \in Nat /\ q \in Nat /\ o >= c + q
    BY <1>1, <1>2, SpareType, RefType
  <2>2. s = o + c /\ z = s + t - c
    BY <1>9, <1>11
  <2> HIDE DEF o, s, z, c, t, q
  <2>3. z = o + t /\ z >= q /\ z >= c /\ z >= 0
    BY <2>1, <2>2
  <2> QED BY <2>3 DEF o, z, c, t, q
<1>13. Refs(p, Handle(r, FALSE)) >= 1
  BY <1>2, <1>11, <1>12, Vouching
<1>14. Adds(Labels, p, k) /\ \A x \in Targets : Spare(k, x) = Spare(p, x) + Ref(r, x)
  BY <1>11, <1>13, TakeLaw
<1>15. Sound(k, Labels)
  BY <1>14 DEF Adds
<1> HIDE DEF k
<1>16. \A x \in Targets : /\ Spare(k, x) \in Int /\ Spare(k, x) >= Ref(current, x) /\ Spare(k, x) >= 0
                          /\ Spare(k, x) = Spare(heap, x) + Ref(to, x) + Ref(r, x)
                          /\ Ref(to, x) \in Nat /\ Ref(r, x) \in Nat /\ Spare(heap, x) \in Int
  <2> TAKE x \in Targets
  <2> DEFINE o == Spare(heap, x)
             z == Spare(p, x)
             s == Spare(k, x)
             c == Ref(current, x)
             t == Ref(to, x)
             q == Ref(r, x)
  <2>1. o \in Int /\ c \in Nat /\ t \in Nat /\ q \in Nat
    BY <1>1, SpareType, RefType
  <2>2. s = z + q /\ z = o + t /\ z >= c /\ z >= 0
    BY <1>12, <1>14
  <2> HIDE DEF o, s, z, c, t, q
  <2>3. s \in Int /\ s = o + t + q /\ s >= c /\ s >= 0
    BY <2>1, <2>2
  <2> QED BY <2>1, <2>3 DEF o, s, c, t, q
<1>17. Covered(k)
  BY <1>16 DEF Covered
<1>18. Spare(k, Handle(current, FALSE)) >= 1
  BY <1>1, <1>15, <1>16, Vouching
<1>19. Sound(g, Labels) /\ \A x \in Targets : Spare(g, x) = Spare(k, x) - One(Handle(r, FALSE), x)
  <2>1. r \in References
    BY <1>2 DEF References
  <2> QED BY <1>1, <1>15, <1>17, <1>18, <2>1, SetParentLaw
<1> HIDE DEF g
<1>20. \A x \in Targets : Spare(g, x) = Spare(heap, x) + Ref(to, x)
  <2> TAKE x \in Targets
  <2> DEFINE o == Spare(heap, x)
             s == Spare(k, x)
             z == Spare(g, x)
             t == Ref(to, x)
             q == Ref(r, x)
  <2>1. o \in Int /\ t \in Nat /\ q \in Nat /\ s = o + t + q
    BY <1>16
  <2>2. z = s - q
    BY <1>19 DEF Ref
  <2> HIDE DEF o, s, z, t, q
  <2>3. z = o + t
    BY <2>1, <2>2
  <2> QED BY <2>3 DEF o, z, t
<1> QED BY <1>11, <1>19, <1>20 DEF g, k, p, h, d, r, to

LEMMA CallBodyLaw ==
    ASSUME Inv, CallBody
    PROVE  Inv'
<1> DEFINE held == Retain(Defaulted(Len(Params)), current)
           g == SetParent(Retain(Popped(held), Top.val.scope), current, Top.val.scope)
           to == PopTo(held)
           f == [Top EXCEPT !.pc = "body", !.hold = to, !.params = current]
<1>1. trapped = "no" /\ stack # << >> /\ Top.fn = "call" /\ Top.pc = "args"
  BY DEF CallBody, Running
<1>2. /\ FrameOK(Top) /\ Top \in Frames /\ stack \in Seq(Frames) /\ CallHolds(Top) /\ Top.hold = NoScope
      /\ ret.scope = NoScope
  <2>1. ~Waits(Top)
    BY <1>1 DEF Waits
  <2>2. FrameOK(Top) /\ Top \in Frames /\ stack \in Seq(Frames) /\ ret.scope = NoScope
    BY <1>1, <2>1, TopOK
  <2> QED BY <1>1, <2>2 DEF FrameOK
<1>3. CASE Trap("bottom")
  BY <1>1, <1>3, TrapsLaw
<1>4. CASE /\ CanPop(held)
           /\ heap' = g
           /\ Become(f)
           /\ UNCHANGED <<registers, trash, ret, status>>
  <2>1. to \in Scopes /\ Sound(g, Labels) /\ \A x \in Targets : Spare(g, x) = Spare(heap, x) + Ref(to, x)
    BY <1>1, <1>2, <1>4, CallOverLaw
  <2> HIDE DEF g, to
  <2>2. current \in References
    BY <1>1, Here
  <2>3. /\ f \in Frames /\ f.fn = "call" /\ f.pc = "body" /\ f.val = Top.val /\ f.type = Top.type
        /\ f.hold = to /\ f.prev = Top.prev
    <3>1. "body" \in Points /\ to \in References
      BY <2>1 DEF Points, References
    <3> QED BY <1>1, <1>2, <2>2, <3>1 DEF Frames
  <2>4. Become(f)
    BY <1>4
  <2> HIDE DEF f
  <2>5. FrameOK(f)
    BY <1>2, <2>1, <2>3 DEF FrameOK, CallHolds, Scopes
  <2>6. Settles /\ UNCHANGED <<registers, trash, ret>>
    <3>1. Runs /\ UNCHANGED <<registers, trash, ret>>
      BY <1>1, <1>4, <2>1, Here DEF Runs, registers, status
    <3> QED BY <3>1, RunsSettle
  <2>7. \A x \in Targets :
          Spare(heap', x) + FrameHeld(Top, x) + HeldBy(ret, x) + Ref(current, x) + Ref(instance, x)
          + ValuesHeld(trash, x)
          = Spare(heap, x) + FrameHeld(f, x) + HeldBy(ret', x) + Ref(current', x) + Ref(instance', x)
            + ValuesHeld(trash', x)
    <3> TAKE x \in Targets
    <3> DEFINE s == Spare(g, x)
               o == Spare(heap, x)
               e == HeldBy(ret, x)
               a == HeldBy(Top.val, x)
               b == HeldBy(Top.type, x)
               d == Ref(Top.prev, x)
               p == Ref(current, x)
               q == Ref(instance, x)
               u == ValuesHeld(trash, x)
               t == Ref(to, x)
    <3>1. FrameHeld(Top, x) = a + b + 0 + d /\ FrameHeld(f, x) = a + b + t + d
      <4>1. Ref(Top.hold, x) = 0
        BY <1>2, RefNothing
      <4> QED BY <2>3, <4>1 DEF FrameHeld
    <3>2. /\ o \in Int /\ e \in Nat /\ a \in Nat /\ b \in Nat /\ d \in Nat /\ p \in Nat /\ q \in Nat /\ u \in Nat
          /\ t \in Nat /\ s = o + t
      BY <1>1, <2>1, Here, SpareType, HeldByType, RefType, ValuesHeldType
    <3> HIDE DEF s, o, e, a, b, d, p, q, u, t
    <3>3. s + (a + b + 0 + d) + e + p + q + u = o + (a + b + t + d) + e + p + q + u
      BY <3>2
    <3> QED BY <1>4, <2>6, <3>1, <3>3 DEF s, o, e, a, b, d, p, q, u, t, registers
  <2>8. ret'.scope = NoScope
    BY <1>2, <2>6
  <2> QED BY <1>1, <2>3, <2>4, <2>5, <2>6, <2>7, <2>8, BecomesLaw
<1> QED BY <1>3, <1>4 DEF CallBody

LEMMA CallReturnLaw ==
    ASSUME Inv, CallReturn
    PROVE  Inv'
<1> DEFINE left == Release(heap, current)
           g == IF instance = NoScope THEN left ELSE Release(left, instance)
<1>1. trapped = "no" /\ stack # << >> /\ Top.fn = "call" /\ Top.pc = "return"
  BY DEF CallReturn, Running
<1>2. FrameOK(Top) /\ Top \in Frames /\ CallHolds(Top) /\ Top.hold # NoScope
  BY <1>1, TopOK DEF FrameOK
<1>3. /\ Top.val \in Proper
      /\ \A x \in Targets : FrameHeld(Top, x) = HeldBy(Top.val, x) + Ref(Top.hold, x) + Ref(Top.prev, x)
      /\ \A x \in Targets : Spare(heap, x) >= Ref(current, x) + Ref(instance, x)
  BY <1>1, <1>2, CallHere
<1>4. Sound(heap, Labels) /\ current \in References /\ instance \in References /\ ret \in Proper /\ trash \in Seq(Proper)
  BY <1>1, Here
<1>5. ASSUME NEW x \in Targets
      PROVE  /\ Spare(heap, x) \in Int /\ Ref(current, x) \in Nat /\ Ref(instance, x) \in Nat
             /\ Spare(heap, x) >= Ref(current, x) /\ Spare(heap, x) >= Ref(current, x) + Ref(instance, x)
  <2> DEFINE o == Spare(heap, x)
             p == Ref(current, x)
             q == Ref(instance, x)
  <2>1. o \in Int /\ p \in Nat /\ q \in Nat /\ o >= p + q
    BY <1>3, <1>4, SpareType, RefType
  <2> HIDE DEF o, p, q
  <2>2. o >= p
    BY <2>1
  <2> QED BY <2>1, <2>2 DEF o, p, q
<1>6. Lets(Labels, heap, left) /\ \A x \in Targets : Spare(left, x) = Spare(heap, x) - Ref(current, x)
  BY <1>4, <1>5, LetLaw
<1>7. Sound(left, Labels)
  BY <1>6 DEF Lets
<1> HIDE DEF left
<1>8. Sound(g, Labels) /\ \A x \in Targets : Spare(g, x) = Spare(heap, x) - Ref(current, x) - Ref(instance, x)
  <2>1. CASE instance = NoScope
    <3>1. \A x \in Targets : Spare(left, x) = Spare(heap, x) - Ref(current, x) - Ref(instance, x)
      <4> TAKE x \in Targets
      <4> DEFINE o == Spare(heap, x)
                 p == Ref(current, x)
      <4>1. o \in Int /\ p \in Nat /\ Ref(instance, x) = 0 /\ Spare(left, x) = o - p
        BY <1>5, <1>6, <2>1, RefNothing
      <4> HIDE DEF o, p
      <4>2. o - p = o - p - 0
        BY <4>1
      <4> QED BY <4>1, <4>2 DEF o, p
    <3> QED BY <1>7, <2>1, <3>1
  <2>2. CASE instance # NoScope
    <3>1. \A x \in Targets : Spare(left, x) >= Ref(instance, x)
      <4> TAKE x \in Targets
      <4> DEFINE o == Spare(heap, x)
                 p == Ref(current, x)
                 q == Ref(instance, x)
                 s == Spare(left, x)
      <4>1. o \in Int /\ p \in Nat /\ q \in Nat /\ o >= p + q /\ s = o - p
        BY <1>5, <1>6
      <4> HIDE DEF o, p, q, s
      <4>2. s >= q
        BY <4>1
      <4> QED BY <4>2 DEF q, s
    <3>2. Lets(Labels, left, g) /\ \A x \in Targets : Spare(g, x) = Spare(left, x) - Ref(instance, x)
      BY <1>4, <1>7, <2>2, <3>1, LetLaw
    <3> HIDE DEF g
    <3> QED BY <1>6, <3>2 DEF Lets
  <2> QED BY <2>1, <2>2
<1>9. /\ heap' = g /\ current' = Top.hold /\ instance' = Top.prev /\ trash' = Append(trash, Top.val)
      /\ Return(ret) /\ error' = error /\ trapped' = trapped
  BY DEF CallReturn, status, left
<1> HIDE DEF g
<1>10. trash' \in Seq(Proper) /\ \A x : ValuesHeld(trash', x) = ValuesHeld(trash, x) + HeldBy(Top.val, x)
  BY <1>3, <1>4, <1>9, ValuesAppend
<1>11. Settles
  <2>1. Top.hold \in References /\ Top.prev \in References
    BY <1>2 DEF Frames
  <2>2. ret' = ret /\ error \in BOOLEAN
    BY <1>9 DEF Return, Inv, Registers
  <2> QED BY <1>1, <1>2, <1>4, <1>8, <1>9, <1>10, <2>1, <2>2 DEF Settles
<1>12. \A x \in Targets : Fair(x, Mine(x), Owns(ret', current', instance', trash', x))
  <2> TAKE x \in Targets
  <2> DEFINE s == Spare(g, x)
             o == Spare(heap, x)
             e == HeldBy(ret, x)
             a == HeldBy(Top.val, x)
             c == Ref(Top.hold, x)
             d == Ref(Top.prev, x)
             p == Ref(current, x)
             q == Ref(instance, x)
             u == ValuesHeld(trash, x)
             m == Mine(x)
             n == Owns(ret', current', instance', trash', x)
  <2>1. ret' = ret
    BY <1>9 DEF Return
  <2>2. m = (a + c + d) + (e + p + q + u)
    BY <1>3, MineIs
  <2>3. n = e + c + d + (u + a)
    BY <1>9, <1>10, <2>1 DEF Owns
  <2>4. /\ o \in Int /\ e \in Nat /\ a \in Nat /\ c \in Nat /\ d \in Nat /\ p \in Nat /\ q \in Nat /\ u \in Nat
        /\ s = o - p - q
    BY <1>4, <1>8, SpareType, HeldByType, RefType, ValuesHeldType
  <2>5. Spare(heap, x)' = s
    BY <1>9
  <2> HIDE DEF s, o, e, a, c, d, p, q, u, m, n
  <2>6. s + m = o + n /\ s + m >= o + n
    BY <2>2, <2>3, <2>4
  <2> QED BY <2>5, <2>6 DEF Fair, o, m, n
<1> QED BY <1>1, <1>9, <1>11, <1>12, ReturnLaw

LEMMA NativeBodyLaw ==
    ASSUME Inv, Running("call", "body"), NativeBody
    PROVE  Inv'
<1>1. trapped = "no" /\ stack # << >> /\ Top.fn = "call" /\ Top.pc = "body"
  BY DEF Running
<1>2. FrameOK(Top) /\ Top \in Frames /\ stack \in Seq(Frames) /\ CallHolds(Top) /\ Top.hold # NoScope
      /\ ret.scope = NoScope
  <2>1. ~Waits(Top)
    BY <1>1 DEF Waits
  <2>2. FrameOK(Top) /\ Top \in Frames /\ stack \in Seq(Frames) /\ ret.scope = NoScope
    BY <1>1, <2>1, TopOK
  <2> QED BY <1>1, <2>2 DEF FrameOK
<1>3. CASE Trap("dangling") \/ Trap("uninitialized")
  BY <1>1, <1>3, TrapsLaw
<1>4. ASSUME NEW v \in {Plain, Unknown}, NativeReturn(v) PROVE Inv'
  <2> DEFINE pc == "return"
             f == At_(pc)
  <2>1. ret' = v /\ Goto(pc) /\ UNCHANGED <<heap, registers, trash, status>>
    BY <1>4 DEF NativeReturn
  <2>2. pc \in Points
    BY DEF Points
  <2>3. f.fn = "call" /\ f.pc = "return" /\ SameSlots(f, Top)
    BY <1>1, <1>2, <2>2, GoesTo DEF SameSlots
  <2>4. stack' = [stack EXCEPT ![Len(stack)] = At_(pc)]
    BY <2>1 DEF Goto, Become, At_
  <2> HIDE DEF f
  <2>5. FrameOK(f) /\ Waits(f)
    BY <1>2, <2>3 DEF FrameOK, Waits, CallHolds, SameSlots
  <2>6. FrameOK(At_(pc)) /\ Waits(At_(pc))
    BY <2>5 DEF f
  <2>7. v \in Proper /\ \A x \in Targets : HeldBy(v, x) = 0
    BY PlainHolds
  <2>8. Runs /\ trash' = trash /\ heap' = heap /\ current' = current
    BY <1>1, <2>1, <2>7, Here DEF Runs, registers, status
  <2> HIDE DEF pc
  <2>9. \A x \in Targets : Spare(heap', x) + HeldBy(ret, x) + Ref(current, x)
                           = Spare(heap, x) + HeldBy(ret', x) + Ref(current', x)
    <3> TAKE x \in Targets
    <3>1. HeldBy(ret, x) = 0 /\ HeldBy(ret', x) = 0
      BY <1>1, <1>2, <2>1, <2>7, Here, NothingHeld
    <3> QED BY <2>8, <3>1
  <2> QED BY <1>1, <2>2, <2>4, <2>6, <2>8, <2>9, GoLaw
<1>5. Plain \in {Plain, Unknown} /\ Unknown \in {Plain, Unknown}
  OBVIOUS
<1> QED BY <1>3, <1>4, <1>5 DEF NativeBody

LEMMA CallExprLaw ==
    ASSUME Inv, ExecuteCallExpr
    PROVE  Inv'
<1>1. /\ trapped = "no" /\ stack # << >> /\ Top.fn = "call"
      /\ Top.pc \in {"start", "callee", "args", "arg", "body", "return"}
  BY DEF ExecuteCallExpr, CallEnter, CallArgument, CallDefault, CallBody, CallReturn, Running
<1>2. FrameOK(Top) /\ Top \in Frames /\ stack \in Seq(Frames) /\ (~Waits(Top) => ret.scope = NoScope)
  BY <1>1, TopOK
<1>3. "callee" \in Points /\ "args" \in Points /\ "arg" \in Points /\ "return" \in Points
  BY DEF Points
<1>4. ASSUME NEW pc \in Points
      PROVE  At_(pc).fn = "call" /\ At_(pc).pc = pc /\ SameSlots(At_(pc), Top)
  BY <1>1, <1>2, GoesTo DEF SameSlots
<1>5. CASE Running("call", "start") /\ EvalExpr("callee", Top.weak)
  <2> DEFINE pc == "callee"
             f == At_(pc)
  <2>1. ~Waits(Top) /\ Bare(Top)
    BY <1>1, <1>2, <1>5 DEF Running, Waits, FrameOK
  <2>2. f.fn = "call" /\ f.pc = "callee" /\ Bare(f)
    BY <1>3, <1>4, <2>1 DEF Bare, SameSlots
  <2> HIDE DEF f
  <2>3. FrameOK(f) /\ Waits(f)
    BY <2>2 DEF FrameOK, Waits
  <2>4. FrameOK(At_(pc)) /\ Waits(At_(pc)) /\ EvalExpr(pc, Top.weak) /\ pc \in Points
    BY <1>3, <1>5, <2>3 DEF f
  <2> HIDE DEF pc
  <2> QED BY <1>1, <2>1, <2>4, ChildWeakLaw
<1>6. ASSUME NEW pc \in {"args", "arg"}, Top.pc \in {"args", "arg"} PROVE FrameOK(At_(pc))
  <2> DEFINE f == At_(pc)
  <2>1. CallHolds(Top) /\ Top.hold = NoScope
    BY <1>1, <1>2, <1>6 DEF FrameOK
  <2>2. f.fn = "call" /\ f.pc = pc /\ SameSlots(f, Top)
    BY <1>3, <1>4
  <2> HIDE DEF f
  <2>3. FrameOK(f)
    BY <2>1, <2>2 DEF FrameOK, CallHolds, SameSlots
  <2> QED BY <2>3 DEF f
<1>7. CASE CallArgument
  <2>1. CASE Fail
    BY <1>1, <2>1, FailLaw
  <2>2. CASE Running("call", "args") /\ EvalExpr("arg", TRUE)
    <3> DEFINE pc == "arg"
               weak == TRUE
    <3>1. ~Waits(Top) /\ Top.pc = "args"
      BY <2>2 DEF Running, Waits
    <3>2. ret.scope = NoScope
      BY <1>2, <3>1
    <3>3. pc \in Points /\ weak \in BOOLEAN /\ EvalExpr(pc, weak)
      BY <1>3, <2>2, Zenon
    <3>4. FrameOK(At_(pc)) /\ Waits(At_(pc))
      BY <1>3, <1>4, <1>6, <3>1 DEF Waits
    <3> HIDE DEF pc, weak
    <3>5. ExecItem(pc, weak)
      BY <3>3 DEF ExecItem
    <3> QED BY <1>1, <3>2, <3>3, <3>4, <3>5, ChildLaw
  <2>3. ASSUME NEW name \in Bound(heap, Top.val.scope), Running("call", "arg"),
               heap' = Bind(name, ret), ret' = Plain, Goto("args"), UNCHANGED <<registers, trash, status>>
        PROVE  Inv'
    <3> DEFINE next == "args"
               r == Top.val.scope
    <3>1. next \in Points /\ FrameOK(At_(next)) /\ Goto(next)
      BY <1>3, <1>6, <2>3 DEF Running
    <3> HIDE DEF next
    <3>2. name \in Labels
      <4>1. Sound(heap, Labels) /\ Covered(heap)
        BY <1>1, Here
      <4>2. name \in Bound(heap, r)
        BY <2>3
      <4> HIDE DEF r
      <4>3. r \in DOMAIN heap /\ Binding(heap, r, name) \in 1 .. Len(heap[r].vars)
            /\ heap[r].vars[Binding(heap, r, name)].name = name
        BY <4>1, <4>2, BoundValue
      <4> QED BY <4>1, <4>3, BindingVouches
    <3> QED BY <1>1, <2>3, <3>1, <3>2, BindNextLaw
  <2> QED BY <1>7, <2>1, <2>2, <2>3 DEF CallArgument, CheckType, Check
<1>8. CASE CallDefault
  <2>1. PICK n \in DOMAIN Params : heap' = Defaulted(n - 1)
    BY <1>8 DEF CallDefault
  <2> DEFINE m == n - 1
             g == Defaulted(m)
  <2>2. m \in 0 .. Len(Params)
    BY ParamsSequence, <2>1
  <2>3. heap' = g
    BY <2>1
  <2> HIDE DEF m
  <2>4. Even(Labels, heap, g)
    BY <1>1, <2>2, DefaultedLaw
  <2> HIDE DEF g
  <2>5. Sound(heap', Labels) /\ \A x \in Targets : Spare(heap', x) >= Spare(heap, x)
    <3>1. ASSUME NEW x \in Targets PROVE Spare(heap', x) >= Spare(heap, x)
      <4>1. Spare(heap', x) = Spare(heap, x) /\ Spare(heap, x) \in Int
        BY <1>1, <2>3, <2>4, Here, SpareType DEF Even
      <4> QED BY <4>1
    <3> QED BY <2>3, <2>4, <3>1 DEF Even
  <2> QED BY <1>1, <1>8, <2>5, ErrorLaw DEF CallDefault
<1>9. CASE /\ Running("call", "body")
           /\ Call("return", Frame("block", FALSE))
           /\ UNCHANGED <<heap, registers, trash, ret, status>>
  <2> DEFINE pc == "return"
             fn == "block"
             weak == FALSE
             f == At_(pc)
  <2>1. ~Waits(Top) /\ CallHolds(Top) /\ Top.hold # NoScope
    BY <1>1, <1>2, <1>9 DEF Running, Waits, FrameOK
  <2>2. f.fn = "call" /\ f.pc = "return" /\ SameSlots(f, Top)
    BY <1>3, <1>4
  <2> HIDE DEF f
  <2>3. FrameOK(f) /\ Waits(f)
    BY <2>1, <2>2 DEF FrameOK, Waits, CallHolds, SameSlots
  <2>4. FrameOK(At_(pc)) /\ Waits(At_(pc)) /\ pc \in Points
    BY <1>3, <2>3 DEF f
  <2>5. Call(pc, Frame(fn, weak)) /\ fn \in Functions /\ weak \in BOOLEAN
    <3>1. Call(pc, Frame(fn, weak))
      BY <1>9, Zenon
    <3>2. fn \in Functions /\ weak \in BOOLEAN
      BY Zenon DEF Functions, Constructs, Expressions
    <3> QED BY <3>1, <3>2
  <2>6. ret.scope = NoScope /\ UNCHANGED <<heap, registers, trash, ret, status>>
    BY <1>2, <1>9, <2>1
  <2> HIDE DEF pc, fn, weak
  <2> QED BY <1>1, <2>4, <2>5, <2>6, CallLaw
<1>10. CASE Running("call", "body") /\ NativeBody
  BY <1>10, NativeBodyLaw
<1> QED BY <1>5, <1>7, <1>8, <1>9, <1>10, CallEnterLaw, CallBodyLaw, CallReturnLaw DEF ExecuteCallExpr

(***************************************************************************)
(* Top-level items.  The values in the trash are freed one after the other. *)
(***************************************************************************)
LEMMA ValuesFirst ==
    ASSUME NEW s \in Seq(Proper), s # << >>, NEW t \in Seq(Proper), Len(t) = Len(s) - 1,
           \A k \in 1 .. Len(t) : t[k] = s[k + 1], NEW x
    PROVE  ValuesHeld(s, x) = ValuesHeld(t, x) + HeldBy(s[1], x)
<1> DEFINE n == Len(s)
           f == [i \in DOMAIN s |-> HeldBy(s[i], x)]
           g == [i \in DOMAIN t |-> HeldBy(t[i], x)]
<1>1. n \in Nat /\ n > 0 /\ DOMAIN s = 1 .. n /\ DOMAIN t = 1 .. n - 1 /\ Len(t) = n - 1
  OBVIOUS
<1>2. f \in [1 .. n -> Nat] /\ g \in [1 .. n - 1 -> Nat]
  BY <1>1, HeldByType
<1>3. \A i \in 1 .. n - 1 : g[i] = f[i + 1]
  BY <1>1
<1>4. f[1] = HeldBy(s[1], x)
  BY <1>1
<1> HIDE DEF f, g, n
<1>5. Splits(f, g, 1)
  BY <1>1, <1>2, <1>3, TotalTail
<1>6. Total(f) = Total(g) + HeldBy(s[1], x)
  BY <1>4, <1>5 DEF Splits
<1> QED BY <1>6 DEF ValuesHeld, f, g

TrashRun ==
    CHOOSE run : run = [n \in 0 .. Len(trash) |->
        IF n = 0 THEN heap ELSE ValueFree(run[n - 1], trash[n])]

LEMMA TrashRunIs ==
    ASSUME trash \in Seq(Proper)
    PROVE  /\ ClearedTrash = TrashRun[Len(trash)]
           /\ TrashRun[0] = heap
           /\ \A k \in 1 .. Len(trash) : TrashRun[k] = ValueFree(TrashRun[k - 1], trash[k])
<1> DEFINE Fill(h, k) == ValueFree(h, trash[k])
           Step(d, k) == IF k = 0 THEN heap ELSE Fill(d[k - 1], k)
           Exists(j) == \E d : d = [k \in 0 .. j |-> Step(d, k)]
           Failing == {j \in Nat : ~Exists(j)}
           m == Len(trash)
<1>1. m \in Nat
  OBVIOUS
<1> HIDE DEF Fill
<1>2. Exists(0)
  <2> DEFINE e == [k \in 0 .. 0 |-> heap]
  <2>1. e = [k \in 0 .. 0 |-> Step(e, k)]
    BY DEF Step
  <2> HIDE DEF Step, e
  <2> QED BY <2>1
<1>3. ASSUME NEW j \in Nat, Exists(j) PROVE Exists(j + 1)
  <2>1. PICK d : d = [k \in 0 .. j |-> Step(d, k)]
    BY <1>3
  <2> DEFINE e == [k \in 0 .. j + 1 |-> IF k = j + 1 THEN Step(d, k) ELSE d[k]]
  <2>2. ASSUME NEW k \in 0 .. j + 1 PROVE e[k] = Step(e, k)
    <3>1. CASE k = 0
      <4>1. d[0] = heap
        BY <2>1
      <4> QED BY <3>1, <4>1
    <3>2. CASE k # 0
      <4>1. k - 1 \in 0 .. j /\ e[k - 1] = d[k - 1]
        BY <3>2
      <4>2. Step(e, k) = Step(d, k)
        BY <3>2, <4>1
      <4>3. k # j + 1 => d[k] = Step(d, k)
        BY <2>1
      <4> QED BY <4>2, <4>3
    <3> QED BY <3>1, <3>2
  <2> HIDE DEF Step
  <2>3. e = [k \in 0 .. j + 1 |-> Step(e, k)]
    BY <2>2
  <2> HIDE DEF e
  <2> QED BY <2>3
<1> HIDE DEF Exists
<1>4. Failing = {}
  <2> SUFFICES ASSUME Failing # {} PROVE FALSE
    OBVIOUS
  <2>1. PICK j \in Failing : \A i \in Failing : j <= i
    BY Smallest
  <2>2. j # 0 /\ j - 1 \in Nat
    BY <1>2, <2>1
  <2>3. Exists(j - 1)
    BY <2>1, <2>2
  <2> QED BY <1>3, <2>1, <2>2, <2>3
<1>5. Exists(m)
  BY <1>1, <1>4
<1> DEFINE run == TrashRun
<1>6. run = CHOOSE d : d = [k \in 0 .. m |-> Step(d, k)]
  BY DEF TrashRun, Fill
<1>7. ClearedTrash = run[m]
  BY <1>6 DEF ClearedTrash, Fill
<1> HIDE DEF run
<1>8. run = [k \in 0 .. m |-> Step(run, k)]
  <2> HIDE DEF Step
  <2> QED BY <1>5, <1>6 DEF Exists
<1> HIDE DEF Step
<1>9. \A k \in 0 .. m : run[k] = Step(run, k)
  BY <1>8
<1>10. run[0] = heap /\ \A k \in 1 .. m : run[k] = Fill(run[k - 1], k)
  BY <1>1, <1>9 DEF Step
<1> QED BY <1>7, <1>10 DEF run, Fill

LEMMA ClearedLaw ==
    ASSUME Sound(heap, Labels), trash \in Seq(Proper),
           \A x \in Targets : Spare(heap, x) >= ValuesHeld(trash, x)
    PROVE  /\ Sound(ClearedTrash, Labels)
           /\ \A x \in Targets : Spare(ClearedTrash, x) = Spare(heap, x) - ValuesHeld(trash, x)
<1> DEFINE run == TrashRun
           m == Len(trash)
           Left(k) == [i \in 1 .. m - k |-> trash[i + k]]
           Good(k) == /\ Sound(run[k], Labels)
                      /\ \A x \in Targets :
                             Spare(run[k], x) = Spare(heap, x) - ValuesHeld(trash, x) + ValuesHeld(Left(k), x)
           Failing == {k \in 0 .. m : ~Good(k)}
<1>1. /\ ClearedTrash = run[m] /\ run[0] = heap
      /\ \A k \in 1 .. m : run[k] = ValueFree(run[k - 1], trash[k])
  BY TrashRunIs
<1>2. m \in Nat
  OBVIOUS
<1>3. \A k \in 0 .. m : Left(k) \in Seq(Proper) /\ Len(Left(k)) = m - k
  <2> TAKE k \in 0 .. m
  <2>1. m - k \in Nat /\ \A i \in 1 .. m - k : i + k \in 1 .. m
    BY <1>2
  <2>2. Left(k) \in [1 .. m - k -> Proper]
    BY <2>1
  <2> QED BY <2>1, <2>2
<1>4. \A k \in 0 .. m, x \in Targets : /\ ValuesHeld(trash, x) \in Nat /\ ValuesHeld(Left(k), x) \in Nat
                                       /\ Spare(heap, x) \in Int
  BY <1>3, ValuesHeldType, SpareType
<1>5. Left(0) = trash
  BY <1>2
<1>6. \A k \in 1 .. m, x \in Targets : ValuesHeld(Left(k - 1), x) = ValuesHeld(Left(k), x) + HeldBy(trash[k], x)
  <2> TAKE k \in 1 .. m, x \in Targets
  <2> DEFINE s == Left(k - 1)
             t == Left(k)
  <2>1. k - 1 \in 0 .. m /\ k \in 0 .. m
    BY <1>2
  <2>2. s \in Seq(Proper) /\ t \in Seq(Proper) /\ Len(s) = m - k + 1 /\ Len(t) = m - k
    BY <1>2, <1>3, <2>1
  <2>3. Len(t) = Len(s) - 1 /\ s[1] = trash[k]
    BY <1>2, <2>2
  <2>4. \A i \in 1 .. Len(t) : t[i] = s[i + 1]
    BY <1>2, <2>2
  <2>5. Len(s) # 0
    BY <1>2, <2>2
  <2> HIDE DEF s, t
  <2>6. s # << >>
    BY <2>5
  <2>7. ValuesHeld(s, x) = ValuesHeld(t, x) + HeldBy(s[1], x)
    BY <2>2, <2>3, <2>4, <2>6, ValuesFirst
  <2> QED BY <2>3, <2>7 DEF s, t
<1>7. \A x : ValuesHeld(Left(m), x) = 0
  <2>1. Left(m) = << >>
    BY <1>2
  <2> QED BY <2>1, ValuesEmpty
<1> HIDE DEF run, Left
<1>8. Good(0)
  <2>1. ASSUME NEW x \in Targets
        PROVE  Spare(heap, x) = Spare(heap, x) - ValuesHeld(trash, x) + ValuesHeld(Left(0), x)
    <3>1. 0 \in 0 .. m
      BY <1>2
    <3> DEFINE a == Spare(heap, x)
               b == ValuesHeld(trash, x)
    <3>2. a \in Int /\ b \in Nat
      BY <1>4, <3>1
    <3> HIDE DEF a, b
    <3>3. a = a - b + b
      BY <3>2
    <3> QED BY <1>5, <3>3 DEF a, b
  <2> QED BY <1>1, <2>1
<1>9. ASSUME NEW k \in 1 .. m, Good(k - 1) PROVE Good(k)
  <2> DEFINE h == run[k - 1]
             v == trash[k]
             g == ValueFree(h, v)
  <2>1. k - 1 \in 0 .. m /\ k \in 0 .. m /\ v \in Proper /\ v \in Values /\ run[k] = g
    BY <1>1, <1>2 DEF Proper
  <2>2. Sound(h, Labels)
    BY <1>9
  <2>3. ASSUME NEW x \in Targets
        PROVE  /\ Spare(h, x) >= HeldBy(v, x)
               /\ Spare(h, x) - HeldBy(v, x)
                  = Spare(heap, x) - ValuesHeld(trash, x) + ValuesHeld(Left(k), x)
    <3> DEFINE a == Spare(heap, x)
               b == ValuesHeld(trash, x)
               c == ValuesHeld(Left(k), x)
               cc == ValuesHeld(Left(k - 1), x)
               d == HeldBy(v, x)
               s == Spare(h, x)
    <3>1. a \in Int /\ b \in Nat /\ c \in Nat /\ cc \in Nat /\ d \in Nat
      BY <1>4, <2>1, HeldByType
    <3>2. cc = c + d /\ a >= b
      BY <1>6
    <3>3. s = a - b + cc
      BY <1>9
    <3> HIDE DEF a, b, c, cc, d, s
    <3>4. s >= d /\ s - d = a - b + c
      BY <3>1, <3>2, <3>3
    <3> QED BY <3>4 DEF a, b, c, d, s
  <2> HIDE DEF h, v
  <2>4. Sound(g, Labels) /\ \A x \in Targets : Spare(g, x) = Spare(h, x) - HeldBy(v, x)
    BY <2>1, <2>2, <2>3, ValueFreeLaw DEF Lets
  <2> HIDE DEF g
  <2> QED BY <2>1, <2>3, <2>4
<1> HIDE DEF Good
<1>10. Failing = {}
  <2> SUFFICES ASSUME Failing # {} PROVE FALSE
    OBVIOUS
  <2>1. Failing \in SUBSET Nat
    OBVIOUS
  <2>2. PICK k \in Failing : \A j \in Failing : k <= j
    BY <2>1, Smallest
  <2>3. k \in 1 .. m /\ k - 1 \in 0 .. m
    BY <1>2, <1>8, <2>2
  <2>4. Good(k - 1)
    BY <2>2, <2>3
  <2> QED BY <1>9, <2>2, <2>3, <2>4
<1>11. Good(m)
  BY <1>2, <1>10
<1>12. m \in 0 .. m
  BY <1>2
<1>13. \A x \in Targets : Spare(run[m], x) = Spare(heap, x) - ValuesHeld(trash, x)
  <2> TAKE x \in Targets
  <2> DEFINE a == Spare(heap, x)
             b == ValuesHeld(trash, x)
  <2>1. a \in Int /\ b \in Nat
    BY <1>4, <1>12
  <2>2. Spare(run[m], x) = a - b + 0
    BY <1>7, <1>11 DEF Good
  <2> HIDE DEF a, b
  <2>3. a - b + 0 = a - b
    BY <2>1
  <2> QED BY <2>2, <2>3 DEF a, b
<1> QED BY <1>1, <1>11, <1>13 DEF Good

\* What is held between two top-level items, and the heap without the trash.
LEMMA BetweenItems ==
    ASSUME Inv, trapped = "no", stack = << >>
    PROVE  /\ Sound(ClearedTrash, Labels)
           /\ \A x \in Targets :
                  Held(x) = Ref(Global, x) + HeldBy(ret, x) + Ref(current, x) + Ref(instance, x) + ValuesHeld(trash, x)
           /\ \A x \in Targets : Spare(ClearedTrash, x) = Spare(heap, x) - ValuesHeld(trash, x)
           /\ \A x \in Targets : /\ Spare(heap, x) \in Int /\ ValuesHeld(trash, x) \in Nat
                                 /\ HeldBy(ret, x) \in Nat /\ Ref(current, x) \in Nat
                                 /\ Ref(instance, x) \in Nat /\ Ref(Global, x) \in Nat
<1>1. Sound(heap, Labels) /\ trash \in Seq(Proper)
  BY DEF Inv, Registers
<1>2. ASSUME NEW x \in Targets
      PROVE  /\ Spare(heap, x) \in Int /\ ValuesHeld(trash, x) \in Nat
             /\ HeldBy(ret, x) \in Nat /\ Ref(current, x) \in Nat
             /\ Ref(instance, x) \in Nat /\ Ref(Global, x) \in Nat
  BY <1>1, SpareType, ValuesHeldType, HeldByType, RefType
<1>3. ASSUME NEW x \in Targets
      PROVE  /\ Held(x) = Ref(Global, x) + HeldBy(ret, x) + Ref(current, x) + Ref(instance, x) + ValuesHeld(trash, x)
             /\ Spare(heap, x) >= ValuesHeld(trash, x)
  <2> DEFINE a == Ref(Global, x)
             b == HeldBy(ret, x)
             c == Ref(current, x)
             d == Ref(instance, x)
             e == ValuesHeld(trash, x)
             s == Spare(heap, x)
  <2>1. StackHeld(stack, x) = 0
    BY StackEmpty
  <2>2. Held(x) = 0 + (b + c + d + e) + a
    BY <2>1 DEF Held, Owns, Root
  <2>3. s >= Held(x)
    BY DEF Inv, Account
  <2>4. a \in Nat /\ b \in Nat /\ c \in Nat /\ d \in Nat /\ e \in Nat /\ s \in Int
    BY <1>2
  <2> HIDE DEF a, b, c, d, e, s
  <2>5. Held(x) = a + b + c + d + e /\ s >= e
    BY <2>2, <2>3, <2>4
  <2> QED BY <2>5 DEF a, b, c, d, e, s
<1>4. /\ Sound(ClearedTrash, Labels)
      /\ \A x \in Targets : Spare(ClearedTrash, x) = Spare(heap, x) - ValuesHeld(trash, x)
  BY <1>1, <1>3, ClearedLaw
<1> QED BY <1>2, <1>3, <1>4

LEMMA NextItemLaw ==
    ASSUME Inv, trapped = "no", stack = << >>, heap' = ClearedTrash, trash' = << >>,
           stack' = <<Frame("exec_item", TRUE)>>, UNCHANGED <<registers, ret, status>>
    PROVE  Inv'
<1> DEFINE fn == "exec_item"
           weak == TRUE
           f == Frame(fn, weak)
           s == <<f>>
           none == << >>
<1>1. fn \in Functions /\ weak \in BOOLEAN /\ stack' = s /\ f.fn = fn
  BY Zenon DEF Functions, Constructs, Frame
<1>2. f.fn = "exec_item"
  BY <1>1
<1> HIDE DEF fn, weak
<1>3. f \in Frames /\ FrameOK(f) /\ ~Waits(f) /\ \A x \in Targets : FrameHeld(f, x) = 0
  BY <1>1, NewFrame
<1> HIDE DEF f
<1>4. s \in Seq(Frames) /\ Len(s) = 1 /\ s # << >> /\ s[1] = f /\ none \in Seq(Frames) /\ Len(none) = 0
  BY <1>3
<1>5. \A x \in Targets : StackHeld(s, x) = 0
  <2> TAKE x \in Targets
  <2>1. Len(none) = Len(s) - 1 /\ \A k \in 1 .. Len(none) : none[k] = s[k]
    BY <1>4
  <2>2. StackHeld(s, x) = StackHeld(none, x) + FrameHeld(s[Len(s)], x)
    <3> HIDE DEF s, none
    <3> QED BY <1>4, <2>1, StackTop
  <2>3. StackHeld(none, x) = 0 /\ FrameHeld(s[Len(s)], x) = 0
    BY <1>3, <1>4, StackEmpty
  <2> QED BY <2>2, <2>3
<1>6. ret.scope = NoScope
  BY DEF Inv, Stacked
<1> HIDE DEF s, none
<1>7. Stacked'
  <2>1. \A k \in 1 .. Len(s) : FrameOK(s[k])
    BY <1>3, <1>4
  <2>2. \A k \in 1 .. Len(s) - 1 : Waits(s[k])
    BY <1>4
  <2>3. s[1].fn = "exec_item"
    BY <1>2, <1>4
  <2> QED BY <1>1, <1>4, <1>6, <2>1, <2>2, <2>3 DEF Stacked
<1>8. Sound(heap, Labels)' /\ \A x \in Targets : Spare(heap', x) = Spare(heap, x) - ValuesHeld(trash, x)
  BY BetweenItems
<1>9. Registers'
  BY DEF Inv, Registers, registers, status
<1>10. \A x \in Targets : Account(x)'
  <2> TAKE x \in Targets
  <2> DEFINE a == Ref(Global, x)
             b == HeldBy(ret, x)
             c == Ref(current, x)
             d == Ref(instance, x)
             e == ValuesHeld(trash, x)
             o == Spare(heap, x)
             n == Spare(heap', x)
  <2>1. Held(x)' = 0 + (b + c + d + 0) + a
    <3>1. StackHeld(stack', x) = 0 /\ ValuesHeld(trash', x) = 0
      BY <1>1, <1>5, ValuesEmpty
    <3>2. Root' = Global
      BY DEF Root, status
    <3> QED BY <3>1, <3>2 DEF Held, Owns, registers
  <2>2. Held(x) = a + b + c + d + e /\ n = o - e
    BY <1>8, BetweenItems
  <2>3. a \in Nat /\ b \in Nat /\ c \in Nat /\ d \in Nat /\ e \in Nat /\ o \in Int
    BY BetweenItems
  <2>4. o >= Held(x) /\ (~error /\ x.weak = FALSE => o = Held(x))
    BY DEF Inv, Account
  <2> HIDE DEF a, b, c, d, e, o, n
  <2>5. n >= Held(x)' /\ (o = Held(x) => n = Held(x)')
    BY <2>1, <2>2, <2>3, <2>4
  <2>6. error' = error
    BY DEF status
  <2> QED BY <2>4, <2>5, <2>6 DEF Account, n
<1> QED BY <1>7, <1>8, <1>9, <1>10 DEF Inv

LEMMA TopItemLaw ==
    ASSUME Inv, ExecuteTopItem
    PROVE  Inv'
<1>1. CASE /\ trapped = "no" /\ stack = << >>
           /\ heap' = ClearedTrash
           /\ trash' = << >>
           /\ stack' = <<Frame("exec_item", TRUE)>>
           /\ UNCHANGED <<registers, ret, status>>
  BY <1>1, NextItemLaw
<1>2. ASSUME trapped = "no", stack # << >>, Top.fn = "exec_item"
      PROVE  /\ \A pc \in Points : FrameOK(At_(pc)) /\ At_(pc).fn = Top.fn /\ At_(pc).pc = pc
             /\ \A x \in Targets : FrameHeld(Top, x) = 0
  BY <1>2, SimpleGoes DEF Simple
<1>3. CASE Running("exec_item", "start") /\ ExecItem("done", TRUE)
  <2> DEFINE pc == "done"
             weak == TRUE
  <2>1. trapped = "no" /\ stack # << >> /\ Top.fn = "exec_item" /\ ~Waits(Top)
    BY <1>3 DEF Running, Waits
  <2>2. ret.scope = NoScope
    BY <2>1, TopOK
  <2>3. pc \in Points /\ weak \in BOOLEAN /\ ExecItem(pc, weak)
    BY <1>3, Zenon DEF Points
  <2>4. FrameOK(At_(pc)) /\ Waits(At_(pc))
    BY <1>2, <2>1, <2>3 DEF Waits
  <2> HIDE DEF pc, weak
  <2> QED BY <2>1, <2>2, <2>3, <2>4, ChildLaw
<1>4. CASE /\ Running("exec_item", "done")
           /\ heap' = ValueFree(heap, ret)
           /\ Return(Plain)
           /\ UNCHANGED <<registers, trash, status>>
  <2>1. trapped = "no" /\ stack # << >> /\ \A x \in Targets : FrameHeld(Top, x) = 0
    BY <1>2, <1>4 DEF Running
  <2>2. Sound(heap', Labels) /\ \A x \in Targets : Spare(heap', x) = Spare(heap, x) - HeldBy(ret, x)
    BY <1>4, <2>1, Here, ValueFreeLaw DEF Lets
  <2>3. Runs /\ stack' = Front /\ ret' = Plain /\ current' = current /\ trash' = trash
    BY <1>4, <2>1, <2>2, Here, PlainHolds DEF Runs, Return, Front, registers, status
  <2>4. \A x \in Targets :
            Spare(heap', x) + FrameHeld(Top, x) + HeldBy(ret, x) + Ref(current, x) + ValuesHeld(trash, x)
            = Spare(heap, x) + HeldBy(ret', x) + Ref(current', x) + ValuesHeld(trash', x)
    <3> TAKE x \in Targets
    <3> DEFINE a == HeldBy(ret, x)
               b == Ref(current, x)
               c == ValuesHeld(trash, x)
               o == Spare(heap, x)
    <3>1. a \in Nat /\ b \in Nat /\ c \in Nat /\ o \in Int
      BY <2>1, Here, RefType, HeldByType, SpareType, ValuesHeldType
    <3>2. FrameHeld(Top, x) = 0 /\ HeldBy(ret', x) = 0 /\ Spare(heap', x) = o - a
      BY <2>1, <2>2, <2>3, PlainHolds
    <3> HIDE DEF a, b, c, o
    <3>3. (o - a) + 0 + a + b + c = o + 0 + b + c
      BY <3>1
    <3> QED BY <2>3, <3>2, <3>3 DEF a, b, c, o
  <2>5. ret'.scope = NoScope
    BY <2>3 DEF Plain, Value
  <2> QED BY <2>1, <2>3, <2>4, <2>5, EndLaw
<1> QED BY <1>1, <1>3, <1>4 DEF ExecuteTopItem

\* snuk_interpreter_deinit.
LEMMA ExitLaw ==
    ASSUME Inv, trapped = "no", stack = << >>, Exit
    PROVE  Inv'
<1>1. trapped = "no" /\ stack = << >>
  OBVIOUS
<1> DEFINE h == ClearedTrash
           k == Release(h, current)
           g == Release(k, Global)
<1>2. heap' = g
  BY DEF Exit
<1>3. Sound(h, Labels) /\ current \in References /\ Global \in References /\ NoScope \in References
  BY <1>1, BetweenItems DEF Inv, Registers, Global, References, Scopes, NoScope
<1>4. \A x \in Targets :
          /\ Spare(h, x) >= Ref(current, x)
          /\ Spare(h, x) - Ref(current, x) >= Ref(Global, x)
  <2> TAKE x \in Targets
  <2> DEFINE a == Ref(Global, x)
             b == HeldBy(ret, x)
             c == Ref(current, x)
             d == Ref(instance, x)
             e == ValuesHeld(trash, x)
             o == Spare(heap, x)
             n == Spare(h, x)
  <2>1. Held(x) = a + b + c + d + e /\ n = o - e
    BY <1>1, BetweenItems
  <2>2. a \in Nat /\ b \in Nat /\ c \in Nat /\ d \in Nat /\ e \in Nat /\ o \in Int
    BY <1>1, BetweenItems
  <2>3. o >= Held(x)
    BY DEF Inv, Account
  <2> HIDE DEF a, b, c, d, e, o, n
  <2>4. n >= c /\ n - c >= a
    BY <2>1, <2>2, <2>3
  <2> QED BY <2>4 DEF a, c, n
<1> HIDE DEF h
<1>5. Sound(k, Labels) /\ \A x \in Targets : Spare(k, x) = Spare(h, x) - Ref(current, x)
  BY <1>3, <1>4, LetLaw DEF Lets
<1>6. \A x \in Targets : Spare(k, x) >= Ref(Global, x)
  BY <1>4, <1>5
<1> HIDE DEF k
<1>7. Sound(g, Labels) /\ \A x \in Targets : Spare(g, x) = Spare(k, x) - Ref(Global, x)
  BY <1>3, <1>5, <1>6, LetLaw DEF Lets
<1> HIDE DEF g
<1>8. ret.scope = NoScope
  BY <1>1 DEF Inv, Stacked
<1>9. Stacked'
  BY <1>1, <1>8 DEF Inv, Stacked, Exit
<1>10. Registers'
  <2>1. trash' \in Seq(Proper)
    BY DEF Exit
  <2>2. trapped' \in Traps /\ trapped' # "no"
    BY DEF Exit, Traps
  <2> QED BY <1>3, <2>1, <2>2 DEF Inv, Registers, Exit
<1>11. \A x \in Targets : Account(x)'
  <2> TAKE x \in Targets
  <2> DEFINE a == Ref(Global, x)
             b == HeldBy(ret, x)
             c == Ref(current, x)
             d == Ref(instance, x)
             e == ValuesHeld(trash, x)
             o == Spare(heap, x)
             n == Spare(heap', x)
  <2>1. Held(x)' = 0 + (b + 0 + d + 0) + 0
    <3>1. StackHeld(stack', x) = 0 /\ ValuesHeld(trash', x) = 0
      BY <1>1, StackEmpty, ValuesEmpty DEF Exit
    <3>2. Root' = NoScope /\ current' = NoScope /\ instance' = instance /\ ret' = ret
      BY DEF Root, Exit
    <3>3. Ref(NoScope, x) = 0
      BY RefNothing
    <3> QED BY <3>1, <3>2, <3>3 DEF Held, Owns
  <2>2. Held(x) = a + b + c + d + e /\ n = o - e - c - a
    BY <1>1, <1>2, <1>5, <1>7, BetweenItems DEF h
  <2>3. a \in Nat /\ b \in Nat /\ c \in Nat /\ d \in Nat /\ e \in Nat /\ o \in Int
    BY <1>1, BetweenItems
  <2>4. o >= Held(x) /\ (~error /\ x.weak = FALSE => o = Held(x))
    BY DEF Inv, Account
  <2> HIDE DEF a, b, c, d, e, o, n
  <2>5. n >= Held(x)' /\ (o = Held(x) => n = Held(x)')
    BY <2>1, <2>2, <2>3, <2>4
  <2>6. error' = error
    BY DEF Exit
  <2> QED BY <2>4, <2>5, <2>6 DEF Account, n
<1> QED BY <1>2, <1>7, <1>9, <1>10, <1>11 DEF Inv

LEMMA DeinitLaw ==
    ASSUME Inv, Deinit
    PROVE  Inv'
<1>1. trapped = "no" /\ stack = << >>
  BY DEF Deinit
<1>2. CASE Trap("instance")
  BY <1>1, <1>2, TrapsLaw
<1>3. CASE Exit
  BY <1>1, <1>3, ExitLaw
<1> QED BY <1>2, <1>3 DEF Deinit

(***************************************************************************)
(* The start: the global scope, and the builtin type with its functions.   *)
(***************************************************************************)
LEMMA GlobalLaw ==
    /\ Sound(GlobalOnly, Labels)
    /\ \A x \in Targets : Spare(GlobalOnly, x) = Ref(Global, x) + Ref(Global, x)
<1> DEFINE h == GlobalOnly
           c == [Cell(NoScope) EXCEPT !.strong = 2]
<1>1. DOMAIN h = {Global} /\ h[Global] = c /\ Global \in Scopes /\ IsFiniteSet({Global})
  BY FS_Singleton DEF GlobalOnly, Global, Scopes, NoScope
<1>2. /\ c \in Cells(Labels) /\ Settled(c) /\ c.strong = 2 /\ c.weak = 0 /\ c.vars = << >>
      /\ c.parent = NoScope /\ c.weak_ref = FALSE
  <2> DEFINE d == Cell(NoScope)
  <2>1. << >> \in Seq(Entries(Labels)) /\ NoScope \in References
    BY DEF References
  <2>2. /\ d \in Cells(Labels) /\ d.weak = 0 /\ d.vars = << >>
        /\ d.parent = NoScope /\ d.weak_ref = FALSE /\ d.mem = TRUE
    BY <2>1 DEF Cell, Cells
  <2> HIDE DEF d
  <2>3. /\ c \in Cells(Labels) /\ c.strong = 2 /\ c.weak = d.weak /\ c.vars = d.vars
        /\ c.parent = d.parent /\ c.weak_ref = d.weak_ref /\ c.mem = d.mem
    BY <2>2 DEF Cells, d
  <2> HIDE DEF c
  <2> QED BY <2>2, <2>3 DEF Settled
<1> HIDE DEF c
<1>3. h \in [DOMAIN h -> Cells(Labels)]
  BY <1>1, <1>2 DEF GlobalOnly, c
<1> HIDE DEF h
<1>4. Sound(h, Labels)
  BY <1>1, <1>2, <1>3, IsHeap DEF Sound
<1>5. ASSUME NEW x \in Targets
      PROVE  Spare(h, x) = Ref(Global, x) + Ref(Global, x)
  <2> DEFINE f == [r \in DOMAIN h |-> CellHeld(h[r], x)]
             no == FALSE
  <2>1. no \in BOOLEAN /\ c.weak_ref = no
    BY <1>2, Zenon
  <2> HIDE DEF no
  <2>2. CellHeld(c, x) = 0
    <3>1. VarsHeld(c.vars, x) = 0
      BY <1>2, VarsHeldEmpty
    <3>2. One(Handle(NoScope, no), x) = 0
      BY <2>1, NobodyHolds
    <3> QED BY <1>2, <2>1, <3>1, <3>2 DEF CellHeld
  <2>3. \A d \in DOMAIN f : f[d] = 0
    BY <1>1, <2>2
  <2> HIDE DEF f
  <2>4. HeapHeld(h, x) = 0
    BY <2>3, TotalZero DEF HeapHeld, f
  <2>5. Refs(h, x) = Ref(Global, x) + Ref(Global, x)
    <3>1. x = Handle(Global, FALSE) <=> x.target = Global /\ ~x.weak
      BY HandleIs
    <3>2. CASE x = Handle(Global, FALSE)
      <4>0. x.target = Global /\ ~x.weak
        BY <3>1, <3>2
      <4>1. Refs(h, x) = 2
        BY <1>1, <1>2, <4>0 DEF Refs
      <4>2. Ref(Global, x) = 1
        BY <3>2, RefSelf
      <4> QED BY <4>1, <4>2
    <3>3. CASE x # Handle(Global, FALSE)
      <4>1. Refs(h, x) = 0
        BY <1>1, <1>2, <3>1, <3>3 DEF Refs
      <4>2. Ref(Global, x) = 0
        BY <3>3 DEF Ref, One
      <4> QED BY <4>1, <4>2
    <3> QED BY <3>2, <3>3
  <2>6. Ref(Global, x) \in Nat
    BY RefType
  <2> QED BY <2>4, <2>5, <2>6 DEF Spare
<1> QED BY <1>4, <1>5 DEF h

\* The heap while the builtin type is made: its scope r is open and nothing is lost.
Filling(h, r) ==
    /\ Sound(h, Labels) /\ Firm(h, r)
    /\ \A x \in Targets : Spare(h, x) = Ref(Global, x) + Ref(r, x)

LEMMA FillingHas ==
    ASSUME NEW h, NEW r \in Scopes, Filling(h, r)
    PROVE  /\ Covered(h) /\ Refs(h, Handle(r, FALSE)) >= 1 /\ r \in DOMAIN h
           /\ Refs(h, Handle(Global, FALSE)) >= 1
<1>1. \A x \in Targets : /\ Spare(h, x) = Ref(Global, x) + Ref(r, x)
                         /\ Ref(Global, x) \in Nat /\ Ref(r, x) \in Nat
  BY RefType DEF Filling
<1>2. \A x \in Targets : Spare(h, x) >= 0 /\ Spare(h, x) >= Ref(Global, x) /\ Spare(h, x) >= Ref(r, x)
  BY <1>1
<1>3. Global \in Scopes
  BY DEF Global, Scopes, NoScope
<1>4. Refs(h, Handle(r, FALSE)) >= 1 /\ r \in DOMAIN h
  BY <1>2, Vouching DEF Filling
<1>5. Refs(h, Handle(Global, FALSE)) >= 1
  <2> DEFINE g == Global
  <2>1. g \in Scopes /\ \A x \in Targets : Spare(h, x) >= Ref(g, x)
    BY <1>2, <1>3
  <2> HIDE DEF g
  <2>2. Refs(h, Handle(g, FALSE)) >= 1
    BY <2>1, Vouching DEF Filling
  <2> QED BY <2>2 DEF g
<1> QED BY <1>2, <1>4, <1>5 DEF Covered

LEMMA AddNativeLaw ==
    ASSUME NEW h, NEW r \in Scopes, Filling(h, r), NEW name \in Labels
    PROVE  Filling(AddNative(h, r, name), r)
<1> DEFINE s == FreshIn(h)
           k == NativeFn(h, s, r)
           kind == "native"
           v == Value(kind, s, FALSE, NoScope)
           g == BindIn(k, r, name, v)
<1>1. Sound(h, Labels) /\ Covered(h) /\ Refs(h, Handle(r, FALSE)) >= 1 /\ r \in DOMAIN h
  BY FillingHas DEF Filling
<1>2. s \in Scopes /\ NativeMade(h, k, s)
  BY <1>1, NativeFnLaw
<1>3. s # r
  BY <1>1, FreshLaw
<1>4. kind \in {"fn", "type", "native", "null_fn"} /\ AddNative(h, r, name) = g
  BY DEF AddNative
<1> HIDE DEF k, s, kind
<1>5. v \in Proper /\ \A x \in Targets : HeldBy(v, x) = Ref(s, x)
  BY <1>2, <1>4, ScopeValue
<1> HIDE DEF v
<1>6. Sound(k, Labels) /\ Firm(k, r)
  BY <1>2, <1>3 DEF NativeMade, Filling
<1>7. ASSUME NEW x \in Targets
      PROVE  /\ Spare(k, x) >= HeldBy(v, x) /\ Spare(k, x) >= Ref(r, x)
             /\ Spare(k, x) - HeldBy(v, x) = Ref(Global, x) + Ref(r, x)
  <2> DEFINE a == Ref(Global, x)
             b == Ref(r, x)
             c == Ref(s, x)
  <2>1. a \in Nat /\ b \in Nat /\ c \in Nat
    BY RefType
  <2>2. HeldBy(v, x) = c /\ Spare(k, x) = a + b + c
    BY <1>2, <1>5 DEF NativeMade, Filling
  <2> HIDE DEF a, b, c
  <2>3. a + b + c >= c /\ a + b + c >= b /\ a + b + c - c = a + b
    BY <2>1
  <2> QED BY <2>1, <2>2, <2>3 DEF a, b
<1>8. Refs(k, Handle(r, FALSE)) >= 1
  BY <1>6, <1>7, Vouching
<1>9. /\ Sound(g, Labels) /\ Firm(g, r)
      /\ \A x \in Targets : Spare(g, x) = Spare(k, x) - HeldBy(v, x)
  BY <1>5, <1>6, <1>7, <1>8, BindLaw
<1> HIDE DEF g
<1> QED BY <1>4, <1>7, <1>9 DEF Filling

NativesRun(h, r) ==
    CHOOSE run : run = [n \in 0 .. Len(Natives) |->
        IF n = 0 THEN h ELSE AddNative(run[n - 1], r, Natives[n])]

LEMMA NativesRunIs ==
    ASSUME NEW h, NEW r
    PROVE  /\ NativesRun(h, r)[0] = h
           /\ \A k \in 1 .. Len(Natives) : NativesRun(h, r)[k] = AddNative(NativesRun(h, r)[k - 1], r, Natives[k])
<1> DEFINE Fill(g, k) == AddNative(g, r, Natives[k])
           Step(d, k) == IF k = 0 THEN h ELSE Fill(d[k - 1], k)
           Exists(j) == \E d : d = [k \in 0 .. j |-> Step(d, k)]
           Failing == {j \in Nat : ~Exists(j)}
           m == Len(Natives)
<1>1. m \in Nat
  BY ScopesAssumption
<1> HIDE DEF Fill
<1>2. Exists(0)
  <2> DEFINE e == [k \in 0 .. 0 |-> h]
  <2>1. e = [k \in 0 .. 0 |-> Step(e, k)]
    BY DEF Step
  <2> HIDE DEF Step, e
  <2> QED BY <2>1
<1>3. ASSUME NEW j \in Nat, Exists(j) PROVE Exists(j + 1)
  <2>1. PICK d : d = [k \in 0 .. j |-> Step(d, k)]
    BY <1>3
  <2> DEFINE e == [k \in 0 .. j + 1 |-> IF k = j + 1 THEN Step(d, k) ELSE d[k]]
  <2>2. ASSUME NEW k \in 0 .. j + 1 PROVE e[k] = Step(e, k)
    <3>1. CASE k = 0
      <4>1. d[0] = h
        BY <2>1
      <4> QED BY <3>1, <4>1
    <3>2. CASE k # 0
      <4>1. k - 1 \in 0 .. j /\ e[k - 1] = d[k - 1]
        BY <3>2
      <4>2. Step(e, k) = Step(d, k)
        BY <3>2, <4>1
      <4>3. k # j + 1 => d[k] = Step(d, k)
        BY <2>1
      <4> QED BY <4>2, <4>3
    <3> QED BY <3>1, <3>2
  <2> HIDE DEF Step
  <2>3. e = [k \in 0 .. j + 1 |-> Step(e, k)]
    BY <2>2
  <2> HIDE DEF e
  <2> QED BY <2>3
<1> HIDE DEF Exists
<1>4. Failing = {}
  <2> SUFFICES ASSUME Failing # {} PROVE FALSE
    OBVIOUS
  <2>1. PICK j \in Failing : \A i \in Failing : j <= i
    BY Smallest
  <2>2. j # 0 /\ j - 1 \in Nat
    BY <1>2, <2>1
  <2>3. Exists(j - 1)
    BY <2>1, <2>2
  <2> QED BY <1>3, <2>1, <2>2, <2>3
<1>5. Exists(m)
  BY <1>1, <1>4
<1> DEFINE run == NativesRun(h, r)
<1>6. run = CHOOSE d : d = [k \in 0 .. m |-> Step(d, k)]
  BY DEF NativesRun, Fill
<1> HIDE DEF run
<1>8. run = [k \in 0 .. m |-> Step(run, k)]
  <2> HIDE DEF Step
  <2> QED BY <1>5, <1>6 DEF Exists
<1> HIDE DEF Step
<1>9. \A k \in 0 .. m : run[k] = Step(run, k)
  BY <1>8
<1>10. run[0] = h /\ \A k \in 1 .. m : run[k] = Fill(run[k - 1], k)
  BY <1>1, <1>9 DEF Step
<1> QED BY <1>10 DEF run, Fill

LEMMA NativesFill ==
    ASSUME NEW h, NEW r \in Scopes, Filling(h, r)
    PROVE  Filling(NativesRun(h, r)[Len(Natives)], r)
<1> DEFINE run == NativesRun(h, r)
           m == Len(Natives)
           Good(k) == Filling(run[k], r)
           Failing == {k \in 0 .. m : ~Good(k)}
<1>1. run[0] = h /\ \A k \in 1 .. m : run[k] = AddNative(run[k - 1], r, Natives[k])
  BY NativesRunIs
<1>2. m \in Nat /\ \A k \in 1 .. m : Natives[k] \in Labels
  BY ScopesAssumption DEF Labels
<1> HIDE DEF run
<1>3. Good(0)
  BY <1>1
<1>4. ASSUME NEW k \in 1 .. m, Good(k - 1) PROVE Good(k)
  BY <1>1, <1>2, <1>4, AddNativeLaw
<1> HIDE DEF Good
<1>5. Failing = {}
  <2> SUFFICES ASSUME Failing # {} PROVE FALSE
    OBVIOUS
  <2>1. Failing \in SUBSET Nat
    OBVIOUS
  <2>2. PICK k \in Failing : \A j \in Failing : k <= j
    BY <2>1, Smallest
  <2>3. k \in 1 .. m /\ k - 1 \in 0 .. m
    BY <1>2, <1>3, <2>2
  <2>4. Good(k - 1)
    BY <2>2, <2>3
  <2> QED BY <1>4, <2>2, <2>3, <2>4
<1>6. Good(m)
  BY <1>2, <1>5
<1> QED BY <1>6 DEF Good, run

LEMMA AddBuiltinLaw ==
    ASSUME NEW h, Sound(h, Labels), \A x \in Targets : Spare(h, x) = Ref(Global, x) + Ref(Global, x)
    PROVE  /\ Sound(AddBuiltin(h), Labels)
           /\ \A x \in Targets : Spare(AddBuiltin(h), x) = Ref(Global, x) + Ref(Global, x)
<1> DEFINE r == FreshIn(h)
           c == Create(h, r, Global)
           label == "value"
           p == Plain
           o == AddEnv(c, r, label, p)
           f == NativesRun(o, r)[Len(Natives)]
           k == KeptWeakly(f, r, Global)
           kind == "type"
           v == Value(kind, r, FALSE, NoScope)
           b == Builtin
           g == BindIn(k, Global, b, v)
<1>1. AddBuiltin(h) = g
  BY DEF AddBuiltin, NativesRun
<1>2. Global \in References /\ Global \in Scopes
  BY DEF Global, References, Scopes, NoScope
<1>3. r \in Scopes /\ Opened(h, c, r, Global)
  BY <1>2, OpenLaw
<1> HIDE DEF c, r
<1>4. Filling(c, r)
  <2>1. Firm(c, r) /\ Sound(c, Labels)
    BY <1>3 DEF Opened, Firm, Cell
  <2>2. ASSUME NEW x \in Targets PROVE Spare(c, x) = Ref(Global, x) + Ref(r, x)
    <3> DEFINE a == Ref(Global, x)
               d == Ref(r, x)
    <3>1. a \in Nat /\ d \in Nat /\ Spare(c, x) = a + a + d - a
      BY <1>3, RefType DEF Opened
    <3> HIDE DEF a, d
    <3>2. a + a + d - a = a + d
      BY <3>1
    <3> QED BY <3>1, <3>2 DEF a, d
  <2> QED BY <2>1, <2>2 DEF Filling
<1>5. label \in Labels /\ p \in Proper /\ Vouched(c, p) /\ b \in Labels
  BY PlainHolds DEF Labels, Vouched
<1> HIDE DEF label, p, b
<1>6. Even(Labels, c, o)
  BY <1>3, <1>4, <1>5, FillingHas, AddEnvLaw DEF Filling
<1> HIDE DEF o
<1>7. Filling(o, r)
  BY <1>4, <1>6 DEF Even, Filling
<1>8. Filling(f, r)
  BY <1>3, <1>7, NativesFill
<1> HIDE DEF f
<1>9. KeptSo(f, k, r, Global)
  <2>1. \A x \in Targets : Spare(f, x) + Ref(Global, x) >= Ref(r, x)
    <3> TAKE x \in Targets
    <3> DEFINE a == Ref(Global, x)
               d == Ref(r, x)
    <3>1. a \in Nat /\ d \in Nat /\ Spare(f, x) = a + d
      BY <1>8, RefType DEF Filling
    <3> HIDE DEF a, d
    <3>2. a + d + a >= d
      BY <3>1
    <3> QED BY <3>1, <3>2 DEF a, d
  <2> QED BY <1>3, <1>8, <2>1, FillingHas, KeptWeaklyLaw DEF Filling
<1> HIDE DEF k
<1>10. kind \in {"fn", "type", "native", "null_fn"}
  OBVIOUS
<1> HIDE DEF kind
<1>11. v \in Proper /\ \A x \in Targets : HeldBy(v, x) = Ref(r, x)
  BY <1>3, <1>10, ScopeValue
<1> HIDE DEF v
<1>12. ASSUME NEW x \in Targets
       PROVE  /\ Spare(k, x) >= HeldBy(v, x) /\ Spare(k, x) >= Ref(Global, x)
              /\ Spare(k, x) - HeldBy(v, x) = Ref(Global, x) + Ref(Global, x)
  <2> DEFINE a == Ref(Global, x)
             d == Ref(r, x)
  <2>1. a \in Nat /\ d \in Nat /\ Spare(k, x) = a + d + a /\ HeldBy(v, x) = d
    BY <1>8, <1>9, <1>11, RefType DEF Filling, KeptSo
  <2> HIDE DEF a, d
  <2>2. a + d + a >= d /\ a + d + a >= a /\ a + d + a - d = a + a
    BY <2>1
  <2> QED BY <2>1, <2>2 DEF a
<1>13. Sound(k, Labels)
  BY <1>9 DEF KeptSo
<1>14. Refs(k, Handle(Global, FALSE)) >= 1
  <2> DEFINE y == Global
  <2>1. y \in Scopes /\ \A x \in Targets : Spare(k, x) >= Ref(y, x)
    BY <1>2, <1>12
  <2> HIDE DEF y
  <2>2. Refs(k, Handle(y, FALSE)) >= 1
    BY <1>13, <2>1, Vouching
  <2> QED BY <2>2 DEF y
<1>15. /\ Sound(g, Labels)
       /\ \A x \in Targets : Spare(g, x) = Spare(k, x) - HeldBy(v, x)
  <2> DEFINE y == Global
  <2>1. \A x \in Targets : Spare(k, x) >= HeldBy(v, x)
    BY <1>12
  <2>2. Refs(k, Handle(y, FALSE)) >= 1 /\ g = BindIn(k, y, b, v)
    BY <1>14
  <2> HIDE DEF y, g
  <2>3. /\ Sound(BindIn(k, y, b, v), Labels)
        /\ \A x \in Targets : Spare(BindIn(k, y, b, v), x) = Spare(k, x) - HeldBy(v, x)
    BY <1>5, <1>11, <1>13, <2>1, <2>2, BindLaw
  <2> QED BY <2>2, <2>3
<1> HIDE DEF g
<1> QED BY <1>1, <1>12, <1>15

LEMMA InitLaw ==
    ASSUME Init
    PROVE  Inv
<1>1. /\ Sound(heap, Labels)
      /\ \A x \in Targets : Spare(heap, x) = Ref(Global, x) + Ref(Global, x)
  <2>1. CASE Natives = << >>
    BY <2>1, GlobalLaw DEF Init
  <2>2. CASE Natives # << >>
    <3> DEFINE h == GlobalOnly
    <3>1. Sound(h, Labels) /\ \A x \in Targets : Spare(h, x) = Ref(Global, x) + Ref(Global, x)
      BY GlobalLaw
    <3>2. heap = AddBuiltin(h)
      BY <2>2 DEF Init
    <3> HIDE DEF h
    <3> QED BY <3>1, <3>2, AddBuiltinLaw
  <2> QED BY <2>1, <2>2
<1>2. Registers
  <2>1. /\ current = Global /\ instance = NoScope /\ trash = << >> /\ ret = Plain
        /\ error \in BOOLEAN /\ trapped = "no"
    BY Zenon DEF Init
  <2>2. Global \in References /\ NoScope \in References /\ Global # NoScope /\ Plain \in Proper
    BY PlainHolds DEF Global, References, Scopes, NoScope
  <2>3. trash \in Seq(Proper) /\ trapped \in Traps
    BY <2>1 DEF Traps
  <2> QED BY <2>1, <2>2, <2>3 DEF Registers
<1>3. Stacked
  BY DEF Stacked, Init, Plain, Value
<1>4. \A x \in Targets : Account(x)
  <2> TAKE x \in Targets
  <2>1. Held(x) = 0 + (0 + Ref(Global, x) + 0 + 0) + Ref(Global, x)
    <3>1. StackHeld(stack, x) = 0 /\ ValuesHeld(trash, x) = 0 /\ HeldBy(ret, x) = 0 /\ Ref(instance, x) = 0
      BY StackEmpty, ValuesEmpty, PlainHolds, RefNothing DEF Init
    <3>2. Root = Global /\ current = Global
      BY DEF Root, Init
    <3> QED BY <3>1, <3>2 DEF Held, Owns
  <2> DEFINE a == Ref(Global, x)
  <2>2. a \in Nat /\ Spare(heap, x) = a + a /\ Held(x) = 0 + (0 + a + 0 + 0) + a
    BY <1>1, <2>1, RefType
  <2> HIDE DEF a
  <2>3. Spare(heap, x) = Held(x) /\ Spare(heap, x) >= Held(x)
    BY <2>2
  <2> QED BY <2>3 DEF Account
<1> QED BY <1>1, <1>2, <1>3, <1>4 DEF Inv

(***************************************************************************)
(* The invariant holds in every run.                                       *)
(***************************************************************************)
LEMMA StutterLaw ==
    ASSUME Inv, UNCHANGED vars
    PROVE  Inv'
<1>1. /\ heap' = heap /\ current' = current /\ instance' = instance /\ trash' = trash
      /\ stack' = stack /\ ret' = ret /\ error' = error /\ trapped' = trapped
  BY DEF vars
<1>2. Sound(heap, Labels)' /\ Registers'
  BY <1>1 DEF Inv, Registers
<1>3. Stacked'
  BY <1>1 DEF Inv, Stacked, Top
<1>4. \A x \in Targets : Account(x)'
  <2> TAKE x \in Targets
  <2>1. Held(x)' = Held(x)
    BY <1>1 DEF Held, Root
  <2> QED BY <1>1, <2>1 DEF Inv, Account
<1> QED BY <1>2, <1>3, <1>4 DEF Inv

\* A process that stopped does nothing more.
LEMMA OnlyRunning == Next => trapped = "no"
<1> SUFFICES ASSUME Next PROVE trapped = "no"
  OBVIOUS
<1>1. ExecuteTopItem \/ ExecuteBlockExpr => trapped = "no"
  BY DEF ExecuteTopItem, ExecuteBlockExpr, Enter, FreeItem, Running
<1>2. ExecuteFnExpr \/ ExecuteTypeDeclaration => trapped = "no"
  BY DEF ExecuteFnExpr, ExecuteTypeDeclaration, Enter, FreeItem, FinishScope, Running
<1>3. ExecuteInstCreation \/ ExecuteMemberGet \/ ExecuteAssignExpr => trapped = "no"
  BY DEF ExecuteInstCreation, ExecuteMemberGet, ExecuteAssignExpr, Running
<1>4. ExecuteCallExpr => trapped = "no"
  BY DEF ExecuteCallExpr, CallEnter, CallArgument, CallDefault, CallBody, CallReturn, Running
<1>5. ExecuteVarDecl \/ ExecuteInterface => trapped = "no"
  BY DEF ExecuteVarDecl, ExecuteInterface, Running
<1>6. ExecuteExtend \/ Deinit => trapped = "no"
  BY DEF ExecuteExtend, ExtendLeave, FreeItem, Deinit, Running
<1> QED BY <1>1, <1>2, <1>3, <1>4, <1>5, <1>6 DEF Next

\* In every run of every program the references that C code holds are counted, and a
\* frame holds values only where its function does: the invariant that what follows
\* rests on.  It ends where a scope gives a reference up that it does not hold, which
\* the assertion of snuk_scope_downgrade_parent keeps from happening in a debug build.
Books == trapped # "unowned" => Inv

THEOREM ReferencesCounted == Spec => []Books
<1>1. Init => Books
  BY InitLaw DEF Books
<1>2. Books /\ [Next]_vars => Books'
  <2> SUFFICES ASSUME Books, [Next]_vars, trapped' # "unowned" PROVE Inv'
    BY DEF Books
  <2>14. trapped # "unowned"
    BY OnlyRunning DEF vars
  <2>15. Inv
    BY <2>14 DEF Books
  <2>1. CASE UNCHANGED vars
    BY <2>1, <2>15, StutterLaw
  <2>2. CASE ExecuteTopItem
    BY <2>2, <2>15, TopItemLaw
  <2>3. CASE ExecuteBlockExpr
    BY <2>3, <2>15, BlockLaw
  <2>4. CASE ExecuteFnExpr
    BY <2>4, <2>15, FnLaw
  <2>5. CASE ExecuteTypeDeclaration
    BY <2>5, <2>15, TypeLaw
  <2>6. CASE ExecuteInstCreation
    BY <2>6, <2>15, InstLaw
  <2>7. CASE ExecuteCallExpr
    BY <2>7, <2>15, CallExprLaw
  <2>8. CASE ExecuteMemberGet
    BY <2>8, <2>15, MemberGetLaw
  <2>9. CASE ExecuteAssignExpr
    BY <2>9, <2>15, AssignExprLaw
  <2>10. CASE ExecuteVarDecl
    BY <2>10, <2>15, VarLaw
  <2>11. CASE ExecuteExtend
    BY <2>11, <2>15, ExtendLaw
  <2>12. CASE ExecuteInterface
    BY <2>12, <2>15, InterfaceLaw
  <2>13. CASE Deinit
    BY <2>13, <2>15, DeinitLaw
  <2> QED BY <2>1, <2>2, <2>3, <2>4, <2>5, <2>6, <2>7, <2>8, <2>9, <2>10, <2>11, <2>12, <2>13 DEF Next
<1> QED BY <1>1, <1>2, PTL DEF Spec

\* Every counter, binding, register and frame has its type, in every run, up to there.
THEOREM ScopesTyped == Spec => [](trapped # "unowned" => TypeOK)
<1>1. Inv => TypeOK
  <2> SUFFICES ASSUME Inv PROVE TypeOK
    OBVIOUS
  <2>1. Sound(heap, Labels) /\ Registers /\ Stacked
    BY DEF Inv
  <2>2. DOMAIN heap \subseteq Scopes
    BY <2>1, SoundCell
  <2>3. ASSUME NEW r \in DOMAIN heap
        PROVE  /\ heap[r].strong \in Nat /\ heap[r].weak \in Nat
               /\ heap[r].parent \in References
               /\ \A i \in DOMAIN heap[r].vars : heap[r].vars[i].value \in Values
    <3>1. /\ heap[r].strong \in Nat /\ heap[r].weak \in Nat
          /\ heap[r].parent \in References /\ heap[r].vars \in Seq(Entries(Labels))
      BY <2>1, SoundCell
    <3> DEFINE s == heap[r].vars
    <3> HIDE DEF s
    <3>2. s \in Seq(Entries(Labels))
      BY <3>1 DEF s
    <3>3. \A i \in DOMAIN s : s[i].value \in Values
      <4>1. \A i \in DOMAIN s : s[i] \in Entries(Labels)
        BY <3>2
      <4>2. \A e \in Entries(Labels) : e.value \in Values
        BY DEF Entries, Proper
      <4> QED BY <4>1, <4>2
    <3> QED BY <3>1, <3>3 DEF s
  <2>4. \A i \in DOMAIN trash : trash[i] \in Values
    <3>1. trash \in Seq(Proper)
      BY <2>1 DEF Registers
    <3>2. \A i \in DOMAIN trash : trash[i] \in Proper
      BY <3>1
    <3> QED BY <3>2 DEF Proper
  <2>5. \A k \in DOMAIN stack : {stack[k].val, stack[k].type} \subseteq Values
    <3>1. stack \in Seq(Frames)
      BY <2>1 DEF Stacked
    <3>2. \A k \in DOMAIN stack : stack[k] \in Frames
      BY <3>1
    <3>3. \A f \in Frames : f.val \in Values /\ f.type \in Values
      BY DEF Frames
    <3> QED BY <3>2, <3>3
  <2>6. {current, instance} \subseteq References /\ ret \in Values
    BY <2>1 DEF Registers, Proper
  <2>7. error \in BOOLEAN
    BY <2>1, Zenon DEF Registers
  <2>8. trapped \in {"no", "exit", "dangling", "destroyed", "bottom", "assertion",
                     "unowned", "instance", "unreachable", "uninitialized"}
    BY <2>1 DEF Registers, Traps
  <2> QED BY <2>2, <2>3, <2>4, <2>5, <2>6, <2>7, <2>8, Zenon DEF TypeOK
<1>2. Books => (trapped # "unowned" => TypeOK)
  BY <1>1 DEF Books
<1> QED BY <1>2, ReferencesCounted, PTL

(***************************************************************************)
(* The handles, place by place.                                            *)
(***************************************************************************)
Where(S, x) == {p \in S : p[3] = x}
Counts(S, n) == IsFiniteSet(S) /\ Cardinality(S) = n

\* What disjoint sets hold together.
LEMMA CountUnion ==
    ASSUME NEW D, IsFiniteSet(D), NEW f \in [D -> Nat], NEW A,
           \A d \in D : Counts(A[d], f[d]),
           \A d \in D, e \in D : \A p \in A[d] : p \in A[e] => d = e
    PROVE  Counts(UNION {A[d] : d \in D}, Total(f))
<1> DEFINE U == UNION {A[d] : d \in D}
           Line(d) == CHOOSE b : b \in Bijection(1 .. f[d], A[d])
           line == [d \in D |-> Line(d)]
           move == [q \in Units(f) |-> line[q[1]][q[2] + 1]]
<1>1. \A d \in D : line[d] \in Bijection(1 .. f[d], A[d])
  <2> TAKE d \in D
  <2>1. IsFiniteSet(A[d]) /\ Cardinality(A[d]) = f[d]
    BY DEF Counts
  <2>2. ExistsBijection(1 .. Cardinality(A[d]), A[d])
    BY <2>1, FS_CardinalityType
  <2>3. \E b : b \in Bijection(1 .. f[d], A[d])
    BY <2>1, <2>2 DEF ExistsBijection
  <2>4. Line(d) \in Bijection(1 .. f[d], A[d])
    BY <2>3
  <2> QED BY <2>4
<1> HIDE DEF line
<1>2. \A d \in D : /\ line[d] \in [1 .. f[d] -> A[d]]
                   /\ \A i, j \in 1 .. f[d] : line[d][i] = line[d][j] => i = j
                   /\ \A p \in A[d] : \E i \in 1 .. f[d] : line[d][i] = p
  BY <1>1 DEF Bijection, Injection, Surjection, IsInjective
<1>3. ASSUME NEW q \in Units(f)
      PROVE  /\ q[1] \in D /\ q[2] \in Nat /\ q = <<q[1], q[2]>> /\ q[2] + 1 \in 1 .. f[q[1]]
             /\ line[q[1]][q[2] + 1] \in A[q[1]]
  <2>1. q[1] \in D /\ q[2] \in Nat /\ q = <<q[1], q[2]>> /\ q[2] < f[q[1]]
    BY DEF Units
  <2>2. q[2] + 1 \in 1 .. f[q[1]]
    BY <2>1
  <2> QED BY <1>2, <2>1, <2>2
<1>4. move \in [Units(f) -> U]
  <2>1. \A q \in Units(f) : line[q[1]][q[2] + 1] \in U
    BY <1>3
  <2> HIDE DEF U
  <2> QED BY <2>1
<1>5. \A q \in Units(f) : move[q] = line[q[1]][q[2] + 1]
  OBVIOUS
<1> HIDE DEF move
<1>6. \A q, r \in Units(f) : move[q] = move[r] => q = r
  <2> TAKE q, r \in Units(f)
  <2> HAVE move[q] = move[r]
  <2>1. q[1] = r[1]
    BY <1>3, <1>5
  <2>2. line[q[1]][q[2] + 1] = line[q[1]][r[2] + 1] /\ r[2] + 1 \in 1 .. f[q[1]] /\ q[2] + 1 \in 1 .. f[q[1]]
    BY <1>3, <1>5, <2>1
  <2>3. q[2] + 1 = r[2] + 1
    BY <1>2, <1>3, <2>2
  <2>4. q[2] \in Nat /\ r[2] \in Nat /\ q = <<q[1], q[2]>> /\ r = <<r[1], r[2]>>
    BY <1>3
  <2>5. q[2] = r[2]
    BY <2>3, <2>4
  <2> QED BY <2>1, <2>4, <2>5
<1>7. \A p \in U : \E q \in Units(f) : move[q] = p
  <2> TAKE p \in U
  <2>1. PICK d \in D : p \in A[d]
    OBVIOUS
  <2>2. PICK i \in 1 .. f[d] : line[d][i] = p
    BY <1>2, <2>1
  <2>3. i - 1 \in Nat /\ i - 1 < f[d] /\ i - 1 + 1 = i
    BY <2>2
  <2>4. <<d, i - 1>> \in Units(f)
    BY <2>3 DEF Units
  <2>5. move[<<d, i - 1>>] = p
    BY <1>5, <2>2, <2>3, <2>4
  <2> QED BY <2>4, <2>5
<1> HIDE DEF U
<1>8. ExistsBijection(Units(f), U)
  <2>1. move \in Bijection(Units(f), U)
    BY <1>4, <1>6, <1>7 DEF Bijection, Injection, Surjection, IsInjective
  <2> QED BY <2>1 DEF ExistsBijection
<1>9. IsFiniteSet(Units(f))
  BY UnitsFinite
<1>10. IsFiniteSet(U) /\ Cardinality(U) = Cardinality(Units(f))
  BY <1>8, <1>9, FS_Bijection
<1> QED BY <1>10 DEF Counts, Total, U

LEMMA CountParts ==
    ASSUME NEW D, IsFiniteSet(D), NEW f \in [D -> Nat], NEW A, NEW U,
           \A p : p \in U <=> \E d \in D : p \in A[d],
           \A d \in D : Counts(A[d], f[d]),
           \A d \in D, e \in D : \A p \in A[d] : p \in A[e] => d = e
    PROVE  Counts(U, Total(f))
<1>1. UNION {A[d] : d \in D} = U
  OBVIOUS
<1>2. Counts(UNION {A[d] : d \in D}, Total(f))
  BY CountUnion
<1> QED BY <1>1, <1>2

LEMMA CountTwo ==
    ASSUME NEW S, NEW m \in Nat, Counts(S, m), NEW T, NEW n \in Nat, Counts(T, n),
           \A p \in S : p \notin T
    PROVE  Counts(S \cup T, m + n)
<1>1. S \cap T = {}
  OBVIOUS
<1>2. Cardinality(S \cap T) = 0
  BY <1>1, FS_EmptySet
<1>3. IsFiniteSet(S \cup T) /\ Cardinality(S \cup T) = m + n - 0
  BY <1>2, FS_Union DEF Counts
<1> QED BY <1>3 DEF Counts

LEMMA CountOne ==
    ASSUME NEW place, NEW n, NEW y, NEW x
    PROVE  Counts(Where({<<place, n, y>>}, x), One(y, x))
<1> DEFINE p == <<place, n, y>>
<1>1. p[3] = y
  OBVIOUS
<1> HIDE DEF p
<1>2. CASE y = x
  <2>1. Where({p}, x) = {p}
    BY <1>1, <1>2 DEF Where
  <2>2. IsFiniteSet({p}) /\ Cardinality({p}) = 1
    BY FS_Singleton
  <2> QED BY <1>2, <2>1, <2>2 DEF Counts, One, p
<1>3. CASE y # x
  <2>1. Where({p}, x) = {}
    BY <1>1, <1>3 DEF Where
  <2>2. IsFiniteSet({}) /\ Cardinality({}) = 0
    BY FS_EmptySet
  <2> QED BY <1>3, <2>1, <2>2 DEF Counts, One, p
<1> QED BY <1>2, <1>3

\* The handles of a value.
LEMMA CountValue ==
    ASSUME NEW place, NEW v, NEW x
    PROVE  Counts(Where(HandlesIn(place, v), x), HeldBy(v, x))
<1> DEFINE S == {<<place, 1, ScopeHandle(v)>>}
           T == {<<place, 2, OwnerHandle(v)>>}
           m == One(ScopeHandle(v), x)
           n == One(OwnerHandle(v), x)
<1>1. Where(HandlesIn(place, v), x) = Where(S, x) \cup Where(T, x)
  BY DEF HandlesIn, Where
<1>2. \A p \in Where(S, x) : p \notin Where(T, x)
  <2>1. \A p \in S : p[2] = 1
    OBVIOUS
  <2>2. \A p \in T : p[2] = 2
    OBVIOUS
  <2> HIDE DEF S, T
  <2> QED BY <2>1, <2>2 DEF Where
<1>3. Counts(Where(S, x), m) /\ Counts(Where(T, x), n) /\ m \in Nat /\ n \in Nat
  BY CountOne, OneType
<1> HIDE DEF S, T, m, n
<1>4. Counts(Where(S, x) \cup Where(T, x), m + n)
  BY <1>2, <1>3, CountTwo
<1> QED BY <1>1, <1>4 DEF HeldBy, m, n

CellHandles(r) == BindingHandles(r) \cup ParentHandle(r)

LEMMA InPlace ==
    ASSUME NEW place, NEW v
    PROVE  \A p \in HandlesIn(place, v) : p[1] = place /\ p[3] \in {ScopeHandle(v), OwnerHandle(v)}
<1> TAKE p \in HandlesIn(place, v)
<1>1. p = <<place, 1, ScopeHandle(v)>> \/ p = <<place, 2, OwnerHandle(v)>>
  BY DEF HandlesIn
<1> QED BY <1>1

LEMMA AtPlace ==
    ASSUME NEW place, NEW r
    PROVE  \A p \in Strong(place, r) : p[1] = place /\ p[3] = Handle(r, FALSE)
<1> TAKE p \in Strong(place, r)
<1> DEFINE y == Handle(r, FALSE)
<1>1. p = <<place, 0, y>>
  BY DEF Strong
<1> HIDE DEF y
<1>2. p[1] = place /\ p[3] = y
  BY <1>1
<1> QED BY <1>2 DEF y

LEMMA CountRef ==
    ASSUME NEW place, NEW r, NEW x
    PROVE  Counts(Where(Strong(place, r), x), Ref(r, x))
<1> DEFINE y == Handle(r, FALSE)
<1>1. Strong(place, r) = {<<place, 0, y>>} /\ Ref(r, x) = One(y, x)
  BY DEF Strong, Ref
<1> HIDE DEF y
<1> QED BY <1>1, CountOne

\* The places of the handles in a cell, and in a frame.
LEMMA CellPlaces ==
    ASSUME NEW r, NEW p \in CellHandles(r)
    PROVE  p[1][1] \in {"binding", "parent"} /\ p[1][2] = r
<1>1. CASE p \in ParentHandle(r)
  <2> DEFINE y == Handle(heap[r].parent, heap[r].weak_ref)
  <2>1. p = <<<<"parent", r>>, 0, y>>
    BY <1>1 DEF ParentHandle
  <2> HIDE DEF y
  <2>2. p[1] = <<"parent", r>>
    BY <2>1
  <2> QED BY <2>2
<1>2. ASSUME NEW i \in 1 .. Len(heap[r].vars), p \in HandlesIn(<<"binding", r, i>>, heap[r].vars[i].value)
      PROVE  p[1][1] = "binding" /\ p[1][2] = r
  <2> DEFINE at == <<"binding", r, i>>
             v == heap[r].vars[i].value
  <2>1. p \in HandlesIn(at, v)
    BY <1>2
  <2> HIDE DEF at, v
  <2>2. p[1] = at
    BY <2>1, InPlace
  <2> QED BY <2>2 DEF at
<1>3. CASE p \in BindingHandles(r)
  <2>1. PICK i \in 1 .. Len(heap[r].vars) : p \in HandlesIn(<<"binding", r, i>>, heap[r].vars[i].value)
    BY <1>3 DEF BindingHandles
  <2>2. p[1][1] = "binding" /\ p[1][2] = r
    BY <1>2, <2>1
  <2> QED BY <2>2
<1> QED BY <1>1, <1>3 DEF CellHandles

LEMMA FramePlaces ==
    ASSUME NEW k, NEW p \in FrameHandles(k)
    PROVE  p[1][1] \in {"val", "type", "hold", "prev"} /\ p[1][2] = k
<1> DEFINE v == <<"val", k>>
           t == <<"type", k>>
           h == <<"hold", k>>
           q == <<"prev", k>>
           g == stack[k]
<1>1. \/ p \in HandlesIn(v, g.val) \/ p \in HandlesIn(t, g.type)
      \/ p \in Strong(h, g.hold) \/ p \in Strong(q, g.prev)
  BY DEF FrameHandles
<1> HIDE DEF v, t, h, q, g
<1>2. p[1] = v \/ p[1] = t \/ p[1] = h \/ p[1] = q
  <2>1. CASE p \in HandlesIn(v, g.val)
    BY <2>1, InPlace
  <2>2. CASE p \in HandlesIn(t, g.type)
    BY <2>2, InPlace
  <2>3. CASE p \in Strong(h, g.hold)
    BY <2>3, AtPlace
  <2>4. CASE p \in Strong(q, g.prev)
    BY <2>4, AtPlace
  <2> QED BY <1>1, <2>1, <2>2, <2>3, <2>4
<1> QED BY <1>2 DEF v, t, h, q

\* A scope holds what its bindings and its parent stand for.
LEMMA CountCell ==
    ASSUME Sound(heap, Labels), NEW r \in DOMAIN heap, NEW x
    PROVE  Counts(Where(CellHandles(r), x), CellHeld(heap[r], x))
<1> DEFINE s == heap[r].vars
           D == DOMAIN s
           In(i) == HandlesIn(<<"binding", r, i>>, s[i].value)
           A == [i \in D |-> Where(In(i), x)]
           f == [i \in D |-> HeldBy(s[i].value, x)]
           y == Handle(heap[r].parent, heap[r].weak_ref)
           place == <<"parent", r>>
           P == {<<place, 0, y>>}
<1>1. s \in Seq(Entries(Labels))
  BY SoundCell
<1> HIDE DEF s
<1>2. D = 1 .. Len(s) /\ IsFiniteSet(D) /\ f \in [D -> Nat]
  BY <1>1, FS_Interval, HeldByType
<1>3. \A d \in D : Counts(A[d], f[d])
  <2> TAKE d \in D
  <2> DEFINE at == <<"binding", r, d>>
             v == s[d].value
  <2>1. A[d] = Where(HandlesIn(at, v), x) /\ f[d] = HeldBy(v, x)
    OBVIOUS
  <2> HIDE DEF at, v, A, f
  <2> QED BY <2>1, CountValue
<1>4. \A i \in D : \A p \in In(i) : p[1][3] = i /\ p[1][1] = "binding"
  <2> TAKE i \in D
  <2> TAKE p \in In(i)
  <2>1. p[1] = <<"binding", r, i>>
    BY InPlace
  <2> QED BY <2>1
<1>5. \A p : p \in Where(UNION {In(i) : i \in D}, x) <=> \E d \in D : p \in A[d]
  <2> HIDE DEF In
  <2> QED BY DEF Where
<1>6. \A d \in D, e \in D : \A p \in A[d] : p \in A[e] => d = e
  <2> TAKE d \in D, e \in D
  <2> TAKE p \in A[d]
  <2> HAVE p \in A[e]
  <2>1. p \in In(d) /\ p \in In(e)
    BY DEF Where
  <2> HIDE DEF In, A
  <2> QED BY <1>4, <2>1
<1> HIDE DEF A, f, In
<1>7. Counts(Where(UNION {In(i) : i \in D}, x), Total(f))
  <2> DEFINE U == Where(UNION {In(i) : i \in D}, x)
  <2>1. \A p : p \in U <=> \E d \in D : p \in A[d]
    BY <1>5
  <2>2. IsFiniteSet(D) /\ f \in [D -> Nat]
    BY <1>2
  <2> HIDE DEF D, U
  <2>3. Counts(U, Total(f))
    BY <1>3, <1>6, <2>1, <2>2, CountParts
  <2> QED BY <2>3 DEF U
<1>8. Total(f) = VarsHeld(s, x) /\ VarsHeld(s, x) \in Nat
  BY <1>1, VarsHeldType DEF VarsHeld, f
<1>9. Counts(Where(P, x), One(y, x)) /\ One(y, x) \in Nat
  BY CountOne, OneType
<1>10. \A p \in Where(UNION {In(i) : i \in D}, x) : p \notin Where(P, x)
  <2>1. \A p \in UNION {In(i) : i \in D} : p[1][1] = "binding"
    BY <1>4
  <2>2. \A p \in P : p[1][1] = "parent"
    <3> TAKE p \in P
    <3> HIDE DEF y
    <3>1. p[1] = <<"parent", r>>
      OBVIOUS
    <3> QED BY <3>1
  <2>3. \A p \in UNION {In(i) : i \in D} : p \notin P
    BY <2>1, <2>2
  <2> QED BY <2>3 DEF Where
<1>11. Where(CellHandles(r), x) = Where(UNION {In(i) : i \in D}, x) \cup Where(P, x)
  <2>1. BindingHandles(r) = UNION {In(i) : i \in D}
    BY <1>2 DEF BindingHandles, In, s
  <2>2. ParentHandle(r) = P
    BY DEF ParentHandle
  <2> HIDE DEF P
  <2> QED BY <2>1, <2>2 DEF CellHandles, Where
<1> HIDE DEF P, y
<1>12. Counts(Where(CellHandles(r), x), VarsHeld(s, x) + One(y, x))
  BY <1>7, <1>8, <1>9, <1>10, <1>11, CountTwo
<1> QED BY <1>12 DEF CellHeld, y, s

LEMMA CountHeap ==
    ASSUME Sound(heap, Labels), NEW x
    PROVE  Counts(Where(HeapHandles, x), HeapHeld(heap, x))
<1> DEFINE D == DOMAIN heap
           A == [r \in D |-> Where(CellHandles(r), x)]
           f == [r \in D |-> CellHeld(heap[r], x)]
<1>1. IsFiniteSet(D) /\ f \in [D -> Nat]
  <2>1. heap \in Heaps(Labels)
    BY DEF Sound
  <2> QED BY <2>1, HeapsHave, HeldFunction
<1>2. \A d \in D : Counts(A[d], f[d])
  BY CountCell
<1>3. \A d \in D, e \in D : \A p \in A[d] : p \in A[e] => d = e
  <2> TAKE d \in D, e \in D
  <2> TAKE p \in A[d]
  <2> HAVE p \in A[e]
  <2>1. p \in CellHandles(d) /\ p \in CellHandles(e)
    BY DEF Where
  <2> QED BY <2>1, CellPlaces
<1>4. \A p : p \in Where(HeapHandles, x) <=> \E d \in D : p \in A[d]
  BY DEF Where, HeapHandles, CellHandles
<1> HIDE DEF D, A, f
<1>5. Counts(Where(HeapHandles, x), Total(f))
  BY <1>1, <1>2, <1>3, <1>4, CountParts
<1> QED BY <1>5 DEF HeapHeld, D, f

LEMMA CountFrame ==
    ASSUME NEW k, NEW x
    PROVE  Counts(Where(FrameHandles(k), x), FrameHeld(stack[k], x))
<1> DEFINE g == stack[k]
           v == <<"val", k>>
           t == <<"type", k>>
           h == <<"hold", k>>
           q == <<"prev", k>>
           A == HandlesIn(v, g.val)
           B == HandlesIn(t, g.type)
           C == Strong(h, g.hold)
           E == Strong(q, g.prev)
           a == HeldBy(g.val, x)
           b == HeldBy(g.type, x)
           c == Ref(g.hold, x)
           e == Ref(g.prev, x)
<1>1. /\ \A p \in A : p[1][1] = "val"
      /\ \A p \in B : p[1][1] = "type"
      /\ \A p \in C : p[1][1] = "hold"
      /\ \A p \in E : p[1][1] = "prev"
  <2>1. (\A p \in A : p[1] = v) /\ (\A p \in B : p[1] = t) /\ (\A p \in C : p[1] = h) /\ (\A p \in E : p[1] = q)
    BY InPlace, AtPlace
  <2> HIDE DEF A, B, C, E
  <2> QED BY <2>1
<1>2. /\ Counts(Where(A, x), a) /\ Counts(Where(B, x), b)
      /\ Counts(Where(C, x), c) /\ Counts(Where(E, x), e)
  <2> HIDE DEF v, t, h, q
  <2> QED BY CountValue, CountRef
<1>3. a \in Nat /\ b \in Nat /\ c \in Nat /\ e \in Nat
  BY HeldByType, RefType
<1>4. FrameHandles(k) = A \cup B \cup C \cup E /\ FrameHeld(g, x) = a + b + c + e
  BY DEF FrameHandles, FrameHeld
<1> HIDE DEF A, B, C, E, a, b, c, e, g
<1>5. Where(FrameHandles(k), x) = (Where(A, x) \cup Where(B, x)) \cup (Where(C, x) \cup Where(E, x))
  BY <1>4 DEF Where
<1>6. Counts(Where(A, x) \cup Where(B, x), a + b)
  <2>1. \A p \in Where(A, x) : p \notin Where(B, x)
    BY <1>1 DEF Where
  <2> QED BY <1>2, <1>3, <2>1, CountTwo
<1>7. Counts(Where(C, x) \cup Where(E, x), c + e)
  <2>1. \A p \in Where(C, x) : p \notin Where(E, x)
    BY <1>1 DEF Where
  <2> QED BY <1>2, <1>3, <2>1, CountTwo
<1>8. Counts((Where(A, x) \cup Where(B, x)) \cup (Where(C, x) \cup Where(E, x)), (a + b) + (c + e))
  <2>1. \A p \in Where(A, x) \cup Where(B, x) : p \notin Where(C, x) \cup Where(E, x)
    BY <1>1 DEF Where
  <2>2. a + b \in Nat /\ c + e \in Nat
    BY <1>3
  <2> QED BY <1>6, <1>7, <2>1, <2>2, CountTwo
<1>9. (a + b) + (c + e) = a + b + c + e
  BY <1>3
<1> QED BY <1>4, <1>5, <1>8, <1>9 DEF g

LEMMA CountStack ==
    ASSUME stack \in Seq(Frames), NEW x
    PROVE  Counts(Where(StackHandles, x), StackHeld(stack, x))
<1> DEFINE D == DOMAIN stack
           A == [k \in D |-> Where(FrameHandles(k), x)]
           f == [k \in D |-> FrameHeld(stack[k], x)]
<1>1. D = 1 .. Len(stack) /\ IsFiniteSet(D) /\ f \in [D -> Nat]
  BY FS_Interval, FrameHeldType
<1>2. \A d \in D : Counts(A[d], f[d])
  BY CountFrame
<1>3. \A d \in D, e \in D : \A p \in A[d] : p \in A[e] => d = e
  <2> TAKE d \in D, e \in D
  <2> TAKE p \in A[d]
  <2> HAVE p \in A[e]
  <2>1. p \in FrameHandles(d) /\ p \in FrameHandles(e)
    BY DEF Where
  <2> QED BY <2>1, FramePlaces
<1>4. \A p : p \in Where(StackHandles, x) <=> \E d \in D : p \in A[d]
  BY <1>1 DEF Where, StackHandles
<1> HIDE DEF D, A, f
<1>5. Counts(Where(StackHandles, x), Total(f))
  BY <1>1, <1>2, <1>3, <1>4, CountParts
<1> QED BY <1>5 DEF StackHeld, D, f

LEMMA CountTrash ==
    ASSUME trash \in Seq(Proper), NEW x
    PROVE  Counts(Where(TrashHandles, x), ValuesHeld(trash, x))
<1> DEFINE D == DOMAIN trash
           In(i) == HandlesIn(<<"trash", i>>, trash[i])
           A == [i \in D |-> Where(In(i), x)]
           f == [i \in D |-> HeldBy(trash[i], x)]
<1>1. D = 1 .. Len(trash) /\ IsFiniteSet(D) /\ f \in [D -> Nat]
  BY FS_Interval, HeldByType
<1>2. ASSUME NEW d \in D PROVE Counts(A[d], f[d])
  <2> DEFINE at == <<"trash", d>>
             v == trash[d]
  <2>1. A[d] = Where(HandlesIn(at, v), x) /\ f[d] = HeldBy(v, x)
    OBVIOUS
  <2> HIDE DEF at, v, A, f
  <2> QED BY <2>1, CountValue
<1>3. \A i \in D : \A p \in In(i) : p[1][2] = i
  <2> TAKE i \in D
  <2> TAKE p \in In(i)
  <2>1. p[1] = <<"trash", i>>
    BY InPlace
  <2> QED BY <2>1
<1>4. \A d \in D, e \in D : \A p \in A[d] : p \in A[e] => d = e
  <2> TAKE d \in D, e \in D
  <2> TAKE p \in A[d]
  <2> HAVE p \in A[e]
  <2>1. p \in In(d) /\ p \in In(e)
    BY DEF Where
  <2> HIDE DEF In, A
  <2> QED BY <1>3, <2>1
<1>5. \A p : p \in Where(TrashHandles, x) <=> \E d \in D : p \in A[d]
  <2>1. TrashHandles = UNION {In(i) : i \in D}
    BY <1>1 DEF TrashHandles
  <2> HIDE DEF In
  <2> QED BY <2>1 DEF Where
<1> HIDE DEF D, A, f, In
<1>6. \A d \in D : Counts(A[d], f[d])
  BY <1>2
<1>7. Counts(Where(TrashHandles, x), Total(f))
  BY <1>1, <1>4, <1>5, <1>6, CountParts
<1> QED BY <1>7 DEF ValuesHeld, D, f

\* Every handle is one, of a scope or of nothing.
LEMMA HandlesAreLoose ==
    ASSUME Inv, NEW p \in AllHandles
    PROVE  p[3] \in Loose
<1>1. Sound(heap, Labels) /\ Registers /\ Stacked
  BY DEF Inv
<1>2. ASSUME NEW place, NEW v \in Values, p \in HandlesIn(place, v) PROVE p[3] \in Loose
  <2>1. p[3] \in {ScopeHandle(v), OwnerHandle(v)}
    BY <1>2, InPlace
  <2> QED BY <2>1, HandlesOfValue
<1>3. ASSUME NEW place, NEW r \in References, p \in Strong(place, r) PROVE p[3] \in Loose
  <2>1. p[3] = Handle(r, FALSE)
    BY <1>3, AtPlace
  <2> QED BY <2>1 DEF Loose, Handle
<1>4. CASE p \in HeapHandles
  <2>1. PICK r \in DOMAIN heap : p \in BindingHandles(r) \/ p \in ParentHandle(r)
    BY <1>4 DEF HeapHandles
  <2>2. heap[r].parent \in References /\ heap[r].weak_ref \in BOOLEAN /\ heap[r].vars \in Seq(Entries(Labels))
    BY <1>1, SoundCell
  <2>3. CASE p \in BindingHandles(r)
    <3>1. PICK i \in 1 .. Len(heap[r].vars) : p \in HandlesIn(<<"binding", r, i>>, heap[r].vars[i].value)
      BY <2>3 DEF BindingHandles
    <3>2. heap[r].vars[i].value \in Values
      <4> DEFINE s == heap[r].vars
      <4>1. s \in Seq(Entries(Labels)) /\ i \in 1 .. Len(s)
        BY <2>2, <3>1
      <4> HIDE DEF s
      <4>2. s[i] \in Entries(Labels)
        BY <4>1
      <4>3. s[i].value \in Proper
        BY <4>2 DEF Entries
      <4> QED BY <4>3 DEF Proper, s
    <3> DEFINE at == <<"binding", r, i>>
               v == heap[r].vars[i].value
    <3> HIDE DEF at, v
    <3>3. p \in HandlesIn(at, v) /\ v \in Values
      BY <3>1, <3>2 DEF at, v
    <3> QED BY <1>2, <3>3
  <2>4. CASE p \in ParentHandle(r)
    <3> DEFINE y == Handle(heap[r].parent, heap[r].weak_ref)
    <3>1. p = <<<<"parent", r>>, 0, y>> /\ y \in Loose
      BY <2>2, <2>4 DEF ParentHandle, Loose, Handle
    <3> HIDE DEF y
    <3> QED BY <3>1
  <2> QED BY <2>1, <2>3, <2>4
<1>5. CASE p \in StackHandles
  <2>1. PICK k \in 1 .. Len(stack) : p \in FrameHandles(k)
    BY <1>5 DEF StackHandles
  <2>2. stack[k] \in Frames
    BY <1>1, <2>1 DEF Stacked
  <2>3. /\ stack[k].val \in Values /\ stack[k].type \in Values
        /\ stack[k].hold \in References /\ stack[k].prev \in References
    BY <2>2 DEF Frames
  <2> DEFINE v == <<"val", k>>
             t == <<"type", k>>
             h == <<"hold", k>>
             q == <<"prev", k>>
  <2>4. \/ p \in HandlesIn(v, stack[k].val) \/ p \in HandlesIn(t, stack[k].type)
        \/ p \in Strong(h, stack[k].hold) \/ p \in Strong(q, stack[k].prev)
    BY <2>1 DEF FrameHandles
  <2> HIDE DEF v, t, h, q
  <2> QED BY <1>2, <1>3, <2>3, <2>4
<1>6. CASE p \in TrashHandles
  <2>1. PICK i \in 1 .. Len(trash) : p \in HandlesIn(<<"trash", i>>, trash[i])
    BY <1>6 DEF TrashHandles
  <2>2. trash[i] \in Values
    BY <1>1, <2>1 DEF Registers, Proper
  <2> DEFINE at == <<"trash", i>>
             v == trash[i]
  <2> HIDE DEF at, v
  <2>3. p \in HandlesIn(at, v) /\ v \in Values
    BY <2>1, <2>2 DEF at, v
  <2> QED BY <1>2, <2>3
<1>7. CASE p \notin HeapHandles \cup StackHandles \cup TrashHandles
  <2> DEFINE a == <<"ret">>
             b == <<"current">>
             c == <<"instance">>
             d == <<"global">>
  <2>1. ret \in Values /\ current \in References /\ instance \in References /\ Root \in References
    BY <1>1 DEF Registers, Proper, Root, Global, References, Scopes, NoScope
  <2>2. p \in HandlesIn(a, ret) \/ p \in Strong(b, current) \/ p \in Strong(c, instance) \/ p \in Strong(d, Root)
    BY <1>7 DEF AllHandles, Root
  <2> HIDE DEF a, b, c, d
  <2> QED BY <1>2, <1>3, <2>1, <2>2
<1> QED BY <1>4, <1>5, <1>6, <1>7

\* The parts of the handles are told apart by where they are.
LEMMA Places ==
    /\ \A p \in HeapHandles : p[1][1] \in {"binding", "parent"}
    /\ \A p \in StackHandles : p[1][1] \in {"val", "type", "hold", "prev"}
    /\ \A p \in TrashHandles : p[1][1] = "trash"
<1>1. \A p \in HeapHandles : p[1][1] \in {"binding", "parent"}
  <2> TAKE p \in HeapHandles
  <2>1. PICK r \in DOMAIN heap : p \in CellHandles(r)
    BY DEF HeapHandles, CellHandles
  <2> QED BY <2>1, CellPlaces
<1>2. \A p \in StackHandles : p[1][1] \in {"val", "type", "hold", "prev"}
  <2> TAKE p \in StackHandles
  <2>1. PICK k \in 1 .. Len(stack) : p \in FrameHandles(k)
    BY DEF StackHandles
  <2> QED BY <2>1, FramePlaces
<1>3. \A p \in TrashHandles : p[1][1] = "trash"
  <2> TAKE p \in TrashHandles
  <2>1. PICK i \in 1 .. Len(trash) : p \in HandlesIn(<<"trash", i>>, trash[i])
    BY DEF TrashHandles
  <2> DEFINE v == trash[i]
             at == <<"trash", i>>
  <2>2. p \in HandlesIn(at, v)
    BY <2>1
  <2> HIDE DEF v, at
  <2>3. p[1] = at
    BY <2>2, InPlace
  <2> QED BY <2>3 DEF at
<1> QED BY <1>1, <1>2, <1>3

\* The handles of the registers, and of all.
LEMMA CountRegisters ==
    ASSUME NEW x
    PROVE  /\ Counts(Where(HandlesIn(<<"ret">>, ret) \cup Strong(<<"current">>, current)
                           \cup Strong(<<"instance">>, instance) \cup Strong(<<"global">>, Root), x),
                     HeldBy(ret, x) + Ref(current, x) + Ref(instance, x) + Ref(Root, x))
           /\ \A p \in HandlesIn(<<"ret">>, ret) \cup Strong(<<"current">>, current)
                       \cup Strong(<<"instance">>, instance) \cup Strong(<<"global">>, Root) :
                p[1][1] \in {"ret", "current", "instance", "global"}
<1> DEFINE v == <<"ret">>
           t == <<"current">>
           h == <<"instance">>
           q == <<"global">>
           A == HandlesIn(v, ret)
           B == Strong(t, current)
           C == Strong(h, instance)
           E == Strong(q, Root)
           a == HeldBy(ret, x)
           b == Ref(current, x)
           c == Ref(instance, x)
           e == Ref(Root, x)
<1>1. /\ \A p \in A : p[1][1] = "ret"
      /\ \A p \in B : p[1][1] = "current"
      /\ \A p \in C : p[1][1] = "instance"
      /\ \A p \in E : p[1][1] = "global"
  <2>1. (\A p \in A : p[1] = v) /\ (\A p \in B : p[1] = t) /\ (\A p \in C : p[1] = h) /\ (\A p \in E : p[1] = q)
    BY InPlace, AtPlace
  <2> HIDE DEF A, B, C, E
  <2> QED BY <2>1
<1>2. /\ Counts(Where(A, x), a) /\ Counts(Where(B, x), b)
      /\ Counts(Where(C, x), c) /\ Counts(Where(E, x), e)
  <2> HIDE DEF v, t, h, q
  <2> QED BY CountValue, CountRef
<1>3. a \in Nat /\ b \in Nat /\ c \in Nat /\ e \in Nat
  BY HeldByType, RefType
<1> HIDE DEF A, B, C, E, a, b, c, e
<1>4. Where(A \cup B \cup C \cup E, x) = (Where(A, x) \cup Where(B, x)) \cup (Where(C, x) \cup Where(E, x))
  BY DEF Where
<1>5. Counts(Where(A, x) \cup Where(B, x), a + b)
  <2>1. \A p \in Where(A, x) : p \notin Where(B, x)
    BY <1>1 DEF Where
  <2> QED BY <1>2, <1>3, <2>1, CountTwo
<1>6. Counts(Where(C, x) \cup Where(E, x), c + e)
  <2>1. \A p \in Where(C, x) : p \notin Where(E, x)
    BY <1>1 DEF Where
  <2> QED BY <1>2, <1>3, <2>1, CountTwo
<1>7. Counts((Where(A, x) \cup Where(B, x)) \cup (Where(C, x) \cup Where(E, x)), (a + b) + (c + e))
  <2>1. \A p \in Where(A, x) \cup Where(B, x) : p \notin Where(C, x) \cup Where(E, x)
    BY <1>1 DEF Where
  <2>2. a + b \in Nat /\ c + e \in Nat
    BY <1>3
  <2> QED BY <1>5, <1>6, <2>1, <2>2, CountTwo
<1>8. (a + b) + (c + e) = a + b + c + e
  BY <1>3
<1>9. \A p \in A \cup B \cup C \cup E : p[1][1] \in {"ret", "current", "instance", "global"}
  BY <1>1
<1> QED BY <1>4, <1>7, <1>8, <1>9 DEF A, B, C, E, a, b, c, e

LEMMA CountAll ==
    ASSUME Inv, NEW x
    PROVE  Counts(Where(AllHandles, x), HeapHeld(heap, x) + Held(x))
<1> DEFINE R == HandlesIn(<<"ret">>, ret) \cup Strong(<<"current">>, current)
                \cup Strong(<<"instance">>, instance) \cup Strong(<<"global">>, Root)
           H == HeapHandles
           S == StackHandles
           T == TrashHandles
           h == HeapHeld(heap, x)
           s == StackHeld(stack, x)
           t == ValuesHeld(trash, x)
           a == HeldBy(ret, x)
           b == Ref(current, x)
           c == Ref(instance, x)
           e == Ref(Root, x)
<1>1. Sound(heap, Labels) /\ trash \in Seq(Proper) /\ stack \in Seq(Frames)
  BY DEF Inv, Registers, Stacked
<1>2. AllHandles = (H \cup S) \cup (T \cup R)
  BY DEF AllHandles, Root
<1>3. Held(x) = s + (a + b + c + t) + e
  BY DEF Held, Owns
<1>4. h \in Nat /\ s \in Nat /\ t \in Nat /\ a \in Nat /\ b \in Nat /\ c \in Nat /\ e \in Nat
  BY <1>1, HeapHeldType, StackHeldType, ValuesHeldType, HeldByType, RefType DEF Sound
<1>5. Counts(Where(H, x), h) /\ Counts(Where(S, x), s) /\ Counts(Where(T, x), t)
  BY <1>1, CountHeap, CountStack, CountTrash
<1>6. Counts(Where(R, x), a + b + c + e) /\ \A p \in R : p[1][1] \in {"ret", "current", "instance", "global"}
  BY CountRegisters
<1>7. /\ \A p \in H : p[1][1] \in {"binding", "parent"}
      /\ \A p \in S : p[1][1] \in {"val", "type", "hold", "prev"}
      /\ \A p \in T : p[1][1] = "trash"
  BY Places
<1> HIDE DEF R, H, S, T, h, s, t, a, b, c, e
<1>8. Where(AllHandles, x) = (Where(H, x) \cup Where(S, x)) \cup (Where(T, x) \cup Where(R, x))
  BY <1>2 DEF Where
<1>9. Counts(Where(H, x) \cup Where(S, x), h + s)
  <2>1. \A p \in Where(H, x) : p \notin Where(S, x)
    BY <1>7 DEF Where
  <2> QED BY <1>4, <1>5, <2>1, CountTwo
<1>10. Counts(Where(T, x) \cup Where(R, x), t + (a + b + c + e))
  <2>1. \A p \in Where(T, x) : p \notin Where(R, x)
    BY <1>6, <1>7 DEF Where
  <2>2. a + b + c + e \in Nat
    BY <1>4
  <2> QED BY <1>4, <1>5, <1>6, <2>1, <2>2, CountTwo
<1>11. Counts((Where(H, x) \cup Where(S, x)) \cup (Where(T, x) \cup Where(R, x)), (h + s) + (t + (a + b + c + e)))
  <2>1. \A p \in Where(H, x) \cup Where(S, x) : p \notin Where(T, x) \cup Where(R, x)
    BY <1>6, <1>7 DEF Where
  <2>2. h + s \in Nat /\ t + (a + b + c + e) \in Nat
    BY <1>4
  <2> QED BY <1>9, <1>10, <2>1, <2>2, CountTwo
<1>12. (h + s) + (t + (a + b + c + e)) = h + (s + (a + b + c + t) + e)
  BY <1>4
<1> QED BY <1>3, <1>8, <1>11, <1>12 DEF h


LEMMA HeldType ==
    ASSUME Inv, NEW x
    PROVE  Held(x) \in Nat
<1> DEFINE a == StackHeld(stack, x)
           b == HeldBy(ret, x)
           c == Ref(current, x)
           d == Ref(instance, x)
           e == ValuesHeld(trash, x)
           f == Ref(Root, x)
<1>1. stack \in Seq(Frames) /\ trash \in Seq(Proper)
  BY DEF Inv, Stacked, Registers
<1>2. a \in Nat /\ b \in Nat /\ c \in Nat /\ d \in Nat /\ e \in Nat /\ f \in Nat
  BY <1>1, StackHeldType, ValuesHeldType, HeldByType, RefType
<1>3. Held(x) = a + (b + c + d + e) + f
  BY DEF Held, Owns
<1> HIDE DEF a, b, c, d, e, f
<1> QED BY <1>2, <1>3

\* What is counted for each handle there is to a scope.
LEMMA CountedIs ==
    ASSUME Inv, NEW x \in Targets
    PROVE  /\ IsFiniteSet(Where(AllHandles, x)) /\ Cardinality(Where(AllHandles, x)) \in Nat
           /\ Refs(heap, x) \in Nat /\ Refs(heap, x) >= Cardinality(Where(AllHandles, x))
           /\ ~error /\ x.weak = FALSE => Refs(heap, x) = Cardinality(Where(AllHandles, x))
<1> DEFINE c == Cardinality(Where(AllHandles, x))
           h == HeapHeld(heap, x)
           o == Held(x)
           r == Refs(heap, x)
           s == Spare(heap, x)
<1>1. Counts(Where(AllHandles, x), h + o)
  BY CountAll
<1>2. Sound(heap, Labels) /\ Account(x)
  BY DEF Inv
<1>3. s \in Int /\ r \in Nat /\ h \in Nat /\ s = r - h
  BY <1>2, SpareType
<1>4. IsFiniteSet(Where(AllHandles, x)) /\ c = h + o
  BY <1>1 DEF Counts
<1>5. c \in Nat
  BY <1>4, FS_CardinalityType
<1>6. s >= o /\ (~error /\ x.weak = FALSE => s = o)
  BY <1>2 DEF Account
<1>7. o \in Nat
  BY HeldType
<1> HIDE DEF c, h, o, r, s
<1>8. r >= c
  BY <1>3, <1>4, <1>6, <1>7
<1>9. ~error /\ x.weak = FALSE => r = c
  <2>1. s = o => r = c
    BY <1>3, <1>4, <1>7
  <2> QED BY <1>6, <2>1
<1> QED BY <1>3, <1>4, <1>5, <1>8, <1>9 DEF c, r

\* The references of one scope.
LEMMA CountedOf ==
    ASSUME Inv, NEW r \in DOMAIN heap
    PROVE  /\ heap[r].strong >= Counted(AllHandles, r, FALSE)
           /\ heap[r].weak >= Counted(AllHandles, r, TRUE)
           /\ ~error => heap[r].strong = Counted(AllHandles, r, FALSE)
<1> DEFINE x == Handle(r, FALSE)
           y == Handle(r, TRUE)
<1>1. r \in Scopes
  BY SoundCell DEF Inv
<1>2. x \in Targets /\ x.weak = FALSE /\ x.target = r /\ y \in Targets /\ y.weak = TRUE /\ y.target = r
  BY <1>1, HandleHas
<1>3. Counted(AllHandles, r, FALSE) = Cardinality(Where(AllHandles, x))
      /\ Counted(AllHandles, r, TRUE) = Cardinality(Where(AllHandles, y))
  BY DEF Counted, Where
<1> HIDE DEF x, y
<1>4. Refs(heap, x) = heap[r].strong /\ Refs(heap, y) = heap[r].weak
  BY <1>2 DEF Refs
<1> QED BY <1>2, <1>3, <1>4, CountedIs

\* What a handle refers to is there.
LEMMA HeldIsThere ==
    ASSUME Inv, NEW p \in AllHandles, p[3].target # NoScope
    PROVE  p[3].target \in DOMAIN heap
<1> DEFINE x == p[3]
           S == Where(AllHandles, x)
<1>1. x \in Targets
  BY HandlesAreLoose DEF Loose, Targets, References
<1>2. p \in S
  BY DEF Where
<1>3. IsFiniteSet(S) /\ Cardinality(S) \in Nat /\ Refs(heap, x) \in Nat /\ Refs(heap, x) >= Cardinality(S)
  BY <1>1, CountedIs
<1> HIDE DEF x, S
<1>4. Cardinality(S) # 0
  BY <1>2, <1>3, FS_EmptySet
<1>5. Refs(heap, x) # 0
  BY <1>3, <1>4
<1> QED BY <1>5 DEF Refs, x

\* CountsCoverHandles holds in every run of every program, whatever checks fail: no
\* counter of refcount.h counts less than the handles on it, so the release of one
\* handle never destroys what another one still refers to.  In a debug build this is
\* so throughout; in a release build, until a scope whose parent is weak already
\* gives up a strong reference to it.
THEOREM CountsNeverShort == Spec => []CountsCoverHandles
<1>1. Books => CountsCoverHandles
  <2> SUFFICES ASSUME Inv PROVE HandlesCovered
    BY DEF Books, CountsCoverHandles
  <2>1. \A p \in AllHandles : p[3].target \in DOMAIN heap \cup {NoScope}
    BY HeldIsThere
  <2>2. \A r \in DOMAIN heap : /\ heap[r].strong >= Counted(AllHandles, r, FALSE)
                               /\ heap[r].weak >= Counted(AllHandles, r, TRUE)
    BY CountedOf
  <2> QED BY <2>1, <2>2 DEF HandlesCovered
<1> QED BY <1>1, ReferencesCounted, PTL

\* StrongCountsExact holds in every run in which no check fails: every retain of
\* the interpreter is released again.
THEOREM NoStrongReferenceLost == Spec => []StrongCountsExact
<1>1. Books => StrongCountsExact
  BY CountedOf DEF Books, StrongCountsExact
<1> QED BY <1>1, ReferencesCounted, PTL

\* OnlyCyclesLeak holds when snuk_interpreter_deinit is done and no check has
\* failed: a scope that is left has a holder in the heap, which is left as well.
THEOREM LeaksAreCycles == Spec => []OnlyCyclesLeak
<1>1. Books => OnlyCyclesLeak
  <2> SUFFICES ASSUME Inv, ~error, NEW r \in DOMAIN heap, heap[r].mem
               PROVE  r \in {p[3].target : p \in AllHandles}
    BY DEF Books, OnlyCyclesLeak
  <2>1. heap[r].strong = Counted(AllHandles, r, FALSE) /\ heap[r].strong \in Nat /\ Settled(heap[r]) /\ r \in Scopes
    BY CountedOf, SoundCell DEF Inv
  <2>2. heap[r].strong # 0
    BY <2>1 DEF Settled
  <2> DEFINE x == Handle(r, FALSE)
             S == Where(AllHandles, x)
  <2>3. Cardinality(S) # 0
    BY <2>1, <2>2 DEF Counted, Where
  <2>4. x.target = r
    BY HandleHas
  <2> HIDE DEF x
  <2>5. S # {}
    BY <2>3, FS_EmptySet
  <2>6. PICK p \in S : TRUE
    BY <2>5
  <2>7. p \in AllHandles /\ p[3] = x
    BY <2>6 DEF Where
  <2> QED BY <2>4, <2>7
<1> QED BY <1>1, ReferencesCounted, PTL
=============================================================================
