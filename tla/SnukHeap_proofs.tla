---------------------------- MODULE SnukHeap_proofs ----------------------------
(***************************************************************************)
(* What the operators of SnukHeap do to the references there are: how many *)
(* handles of each kind a heap holds, how each operator changes the counts *)
(* and the handles, and that a release gives back exactly what it owes.    *)
(***************************************************************************)
EXTENDS SnukHeap, SnukOrder_proofs, FiniteSetTheorems, SequenceTheorems

(***************************************************************************)
(* Sums of naturals over a finite set.                                     *)
(***************************************************************************)
Units(f) == {p \in (DOMAIN f) \X Nat : p[2] < f[p[1]]}
Total(f) == Cardinality(Units(f))

\* g is f without its summand d; g is f with another summand d.
Splits(f, g, d) == Total(f) = Total(g) + f[d]
Changes(f, g, d) == Total(g) = Total(f) - f[d] + g[d]
Covers(f, d) == Total(f) >= f[d]

LEMMA RunOfUnits ==
    ASSUME NEW d, NEW n \in Nat
    PROVE  /\ IsFiniteSet({<<d, i>> : i \in 0 .. n - 1})
           /\ Cardinality({<<d, i>> : i \in 0 .. n - 1}) = n
<1> DEFINE S == {<<d, i>> : i \in 0 .. n - 1}
           b == [i \in 0 .. n - 1 |-> <<d, i>>]
<1>1. IsFiniteSet(0 .. n - 1) /\ Cardinality(0 .. n - 1) = n
  BY FS_Interval
<1>2. b \in [0 .. n - 1 -> S]
  OBVIOUS
<1>3. \A i, j \in 0 .. n - 1 : b[i] = b[j] => i = j
  OBVIOUS
<1>4. \A s \in S : \E i \in 0 .. n - 1 : b[i] = s
  OBVIOUS
<1> HIDE DEF b, S
<1>5. b \in Bijection(0 .. n - 1, S)
  BY <1>2, <1>3, <1>4 DEF Bijection, Injection, Surjection, IsInjective
<1>6. ExistsBijection(0 .. n - 1, S)
  BY <1>5 DEF ExistsBijection
<1>7. IsFiniteSet(S) /\ Cardinality(S) = n
  BY <1>1, <1>6, FS_Bijection
<1> QED BY <1>7 DEF S

LEMMA UnitsFinite ==
    ASSUME NEW D, IsFiniteSet(D), NEW f \in [D -> Nat]
    PROVE  IsFiniteSet(Units(f)) /\ Total(f) \in Nat
<1> DEFINE Row(d) == {<<d, i>> : i \in 0 .. f[d] - 1}
           rows == [d \in D |-> Row(d)]
           R == {Row(d) : d \in D}
<1>1. rows \in Surjection(D, R)
  <2>1. rows \in [D -> R] /\ \A d \in D : rows[d] = Row(d)
    OBVIOUS
  <2>2. \A T \in R : \E d \in D : T = Row(d)
    OBVIOUS
  <2> HIDE DEF rows, R, Row
  <2> QED BY <2>1, <2>2 DEF Surjection
<1>2. IsFiniteSet(R)
  BY <1>1, FS_Surjection
<1>3. \A T \in R : IsFiniteSet(T)
  <2> TAKE T \in R
  <2>1. PICK d \in D : T = Row(d)
    OBVIOUS
  <2>2. f[d] \in Nat
    OBVIOUS
  <2> QED BY <2>1, <2>2, RunOfUnits
<1>4. Units(f) = UNION R
  <2>1. ASSUME NEW p \in Units(f) PROVE p \in UNION R
    <3>1. p[1] \in D /\ p[2] \in 0 .. f[p[1]] - 1 /\ p = <<p[1], p[2]>> /\ f[p[1]] \in Nat
      BY DEF Units
    <3>2. p \in Row(p[1])
      BY <3>1
    <3> QED BY <3>1, <3>2
  <2>2. ASSUME NEW p \in UNION R PROVE p \in Units(f)
    <3>1. PICK d \in D : p \in Row(d)
      OBVIOUS
    <3>2. PICK i \in 0 .. f[d] - 1 : p = <<d, i>>
      BY <3>1
    <3>3. f[d] \in Nat
      OBVIOUS
    <3> QED BY <3>2, <3>3 DEF Units
  <2> QED BY <2>1, <2>2
<1>5. IsFiniteSet(Units(f))
  BY <1>2, <1>3, <1>4, FS_UNION
<1> QED BY <1>5, FS_CardinalityType DEF Total

\* One summand taken out.
LEMMA TotalSplit ==
    ASSUME NEW D, IsFiniteSet(D), NEW f \in [D -> Nat], NEW d \in D,
           NEW g \in [D \ {d} -> Nat], \A e \in D \ {d} : g[e] = f[e]
    PROVE  Splits(f, g, d)
<1> DEFINE Row == {<<d, i>> : i \in 0 .. f[d] - 1}
<1>1. f[d] \in Nat /\ g \in [D \ {d} -> Nat] /\ DOMAIN g = D \ {d} /\ DOMAIN f = D
  OBVIOUS
<1>2. IsFiniteSet(Row) /\ Cardinality(Row) = f[d]
  <2>1. \A n \in Nat : n = f[d] => IsFiniteSet(Row) /\ Cardinality(Row) = n
    BY RunOfUnits, ZenonT(60)
  <2> HIDE DEF Row
  <2> QED BY <1>1, <2>1
<1>3. IsFiniteSet(D \ {d})
  BY FS_RemoveElement
<1>4. IsFiniteSet(Units(g)) /\ Total(g) \in Nat
  BY <1>1, <1>3, UnitsFinite
<1>5. \A p \in Row : p[1] = d
  OBVIOUS
<1>6. \A p \in Units(g) : p[1] # d
  BY <1>1 DEF Units
<1>7. Units(g) \cap Row = {}
  BY <1>5, <1>6
<1>8. Units(f) = Units(g) \cup Row
  <2>1. ASSUME NEW p \in Units(f) PROVE p \in Units(g) \cup Row
    <3>1. p[1] \in D /\ p[2] \in Nat /\ p = <<p[1], p[2]>> /\ p[2] < f[p[1]]
      BY DEF Units
    <3>2. CASE p[1] = d
      <4>1. p[2] \in 0 .. f[d] - 1
        BY <3>1, <3>2, <1>1
      <4> QED BY <3>1, <3>2, <4>1
    <3>3. CASE p[1] # d
      <4>1. p[1] \in DOMAIN g /\ g[p[1]] = f[p[1]]
        BY <3>1, <3>3
      <4> QED BY <3>1, <4>1 DEF Units
    <3> QED BY <3>2, <3>3
  <2>2. ASSUME NEW p \in Units(g) PROVE p \in Units(f)
    BY <1>1 DEF Units
  <2>3. ASSUME NEW p \in Row PROVE p \in Units(f)
    <3>1. PICK i \in 0 .. f[d] - 1 : p = <<d, i>>
      OBVIOUS
    <3> QED BY <1>1, <3>1 DEF Units
  <2> QED BY <2>1, <2>2, <2>3
<1> HIDE DEF Row
<1>9. Cardinality(Units(f)) = Cardinality(Units(g)) + Cardinality(Row) - Cardinality(Units(g) \cap Row)
  BY <1>2, <1>4, <1>8, FS_Union
<1>10. Cardinality(Units(g) \cap Row) = 0
  BY <1>7, FS_EmptySet
<1> QED BY <1>1, <1>2, <1>4, <1>9, <1>10 DEF Total, Splits

\* Two sums that differ in one summand.
LEMMA TotalChange ==
    ASSUME NEW D, IsFiniteSet(D), NEW f \in [D -> Nat], NEW g \in [D -> Nat], NEW d \in D,
           \A e \in D \ {d} : g[e] = f[e]
    PROVE  Changes(f, g, d)
<1> DEFINE a == [e \in D \ {d} |-> f[e]]
           b == [e \in D \ {d} |-> g[e]]
<1>1. a = b
  OBVIOUS
<1>2. a \in [D \ {d} -> Nat] /\ IsFiniteSet(D \ {d})
  BY FS_RemoveElement
<1>3. b \in [D \ {d} -> Nat]
  OBVIOUS
<1>4. \A e \in D \ {d} : a[e] = f[e] /\ b[e] = g[e]
  OBVIOUS
<1> HIDE DEF a, b
<1>5. Total(f) = Total(a) + f[d] /\ Total(g) = Total(b) + g[d]
  BY <1>2, <1>3, <1>4, TotalSplit DEF Splits
<1>6. Total(a) \in Nat
  BY <1>2, UnitsFinite
<1> QED BY <1>1, <1>5, <1>6 DEF Changes

\* A sum with one more summand.
LEMMA TotalNew ==
    ASSUME NEW D, IsFiniteSet(D), NEW d, d \notin D, NEW f \in [D -> Nat],
           NEW g \in [D \cup {d} -> Nat], \A e \in D : g[e] = f[e]
    PROVE  Splits(g, f, d)
<1> DEFINE a == [e \in (D \cup {d}) \ {d} |-> g[e]]
<1>1. (D \cup {d}) \ {d} = D
  OBVIOUS
<1>2. a = f
  BY <1>1
<1>3. IsFiniteSet(D \cup {d}) /\ d \in D \cup {d}
  BY FS_AddElement
<1> QED BY <1>1, <1>2, <1>3, TotalSplit

LEMMA TotalCovers ==
    ASSUME NEW D, IsFiniteSet(D), NEW f \in [D -> Nat], NEW d \in D
    PROVE  Covers(f, d)
<1> DEFINE a == [e \in D \ {d} |-> f[e]]
<1>1. a \in [D \ {d} -> Nat] /\ IsFiniteSet(D \ {d})
  BY FS_RemoveElement
<1>2. Total(f) = Total(a) + f[d]
  <2>1. \A e \in D \ {d} : a[e] = f[e]
    OBVIOUS
  <2> HIDE DEF a
  <2> QED BY <1>1, <2>1, TotalSplit DEF Splits
<1>3. Total(a) \in Nat
  BY <1>1, UnitsFinite
<1> QED BY <1>2, <1>3 DEF Covers

LEMMA TotalZero ==
    ASSUME NEW f, \A d \in DOMAIN f : f[d] = 0
    PROVE  Total(f) = 0
<1>1. Units(f) = {}
  <2> SUFFICES ASSUME NEW p \in Units(f) PROVE FALSE
    OBVIOUS
  <2>1. p[1] \in DOMAIN f /\ p[2] \in Nat /\ p[2] < f[p[1]]
    BY DEF Units
  <2> QED BY <2>1
<1> QED BY <1>1, FS_EmptySet DEF Total

\* The sum over a sequence without its first element.
LEMMA TotalTail ==
    ASSUME NEW n \in Nat, n > 0, NEW f \in [1 .. n -> Nat], NEW g \in [1 .. n - 1 -> Nat],
           \A i \in 1 .. n - 1 : g[i] = f[i + 1]
    PROVE  Splits(f, g, 1)
<1> DEFINE a == [e \in (1 .. n) \ {1} |-> f[e]]
           move == [p \in Units(g) |-> <<p[1] + 1, p[2]>>]
<1>1. IsFiniteSet(1 .. n) /\ IsFiniteSet(1 .. n - 1)
  BY FS_Interval
<1>2. 1 \in 1 .. n
  OBVIOUS
<1>3. Splits(f, a, 1)
  <2>1. a \in [(1 .. n) \ {1} -> Nat] /\ \A e \in (1 .. n) \ {1} : a[e] = f[e]
    OBVIOUS
  <2> HIDE DEF a
  <2> QED BY <1>1, <1>2, <2>1, TotalSplit
<1>4. IsFiniteSet(Units(g)) /\ Total(g) \in Nat
  BY <1>1, UnitsFinite
<1>5. DOMAIN a = (1 .. n) \ {1} /\ DOMAIN g = 1 .. n - 1 /\ \A e \in DOMAIN a : a[e] = f[e]
  OBVIOUS
<1> HIDE DEF a
<1>6. ASSUME NEW p \in Units(g)
      PROVE  /\ p[1] \in 1 .. n - 1 /\ p[2] \in Nat /\ p = <<p[1], p[2]>>
             /\ <<p[1] + 1, p[2]>> \in Units(a)
  <2>1. p[1] \in 1 .. n - 1 /\ p[2] \in Nat /\ p = <<p[1], p[2]>> /\ p[2] < g[p[1]]
    BY <1>5 DEF Units
  <2>2. p[1] + 1 \in DOMAIN a /\ a[p[1] + 1] = g[p[1]]
    BY <1>5, <2>1
  <2> QED BY <2>1, <2>2 DEF Units
<1>7. move \in [Units(g) -> Units(a)]
  BY <1>6
<1>8. \A p, q \in Units(g) : move[p] = move[q] => p = q
  <2> TAKE p, q \in Units(g)
  <2>1. move[p] = <<p[1] + 1, p[2]>> /\ move[q] = <<q[1] + 1, q[2]>>
    OBVIOUS
  <2> HAVE move[p] = move[q]
  <2>2. p[1] + 1 = q[1] + 1 /\ p[2] = q[2]
    BY <2>1
  <2>3. p[1] \in 1 .. n - 1 /\ q[1] \in 1 .. n - 1
    BY <1>6
  <2>4. p[1] = q[1]
    <3>1. \A i, j \in 1 .. n - 1 : i + 1 = j + 1 => i = j
      OBVIOUS
    <3> QED BY <2>2, <2>3, <3>1
  <2>5. p = <<p[1], p[2]>> /\ q = <<q[1], q[2]>>
    BY <1>6
  <2> QED BY <2>2, <2>4, <2>5
<1>9. \A q \in Units(a) : \E p \in Units(g) : move[p] = q
  <2> TAKE q \in Units(a)
  <2>1. q[1] \in (1 .. n) \ {1} /\ q[2] \in Nat /\ q = <<q[1], q[2]>> /\ q[2] < f[q[1]]
    BY <1>5 DEF Units
  <2>2. q[1] - 1 \in 1 .. n - 1 /\ g[q[1] - 1] = f[q[1]]
    BY <2>1
  <2>3. <<q[1] - 1, q[2]>> \in Units(g)
    BY <1>5, <2>1, <2>2 DEF Units
  <2>4. move[<<q[1] - 1, q[2]>>] = q
    BY <2>1, <2>3
  <2> QED BY <2>3, <2>4
<1> HIDE DEF move
<1>10. move \in Bijection(Units(g), Units(a))
  BY <1>7, <1>8, <1>9 DEF Bijection, Injection, Surjection, IsInjective
<1>11. Cardinality(Units(a)) = Cardinality(Units(g))
  BY <1>4, <1>10, FS_Bijection DEF ExistsBijection
<1> QED BY <1>3, <1>11 DEF Total, Splits

(***************************************************************************)
(* The handles that values, bindings, scopes and a whole heap hold.        *)
(***************************************************************************)
One(y, x) == IF y = x THEN 1 ELSE 0
Targets == [target : Scopes, weak : BOOLEAN]

\* Values as the interpreter makes them: only `self` is weak, and whatever can hold
\* a scope does.
Proper ==
    {v \in Values : /\ v.weak => v.kind = "inst"
                    /\ v.scope = NoScope <=> v.kind \in {"plain", "unknown"}
                    /\ v.scope = NoScope => v.owner = NoScope}
Entries(N) == [name : N, value : Proper]
Cells(N) == [strong : Nat, weak : Nat, mem : BOOLEAN, parent : References,
             weak_ref : BOOLEAN, vars : Seq(Entries(N))]

HeldBy(v, x) == One(ScopeHandle(v), x) + One(OwnerHandle(v), x)
VarsHeld(s, x) == Total([i \in DOMAIN s |-> HeldBy(s[i].value, x)])
CellHeld(cell, x) == VarsHeld(cell.vars, x) + One(Handle(cell.parent, cell.weak_ref), x)
HeapHeld(h, x) == Total([r \in DOMAIN h |-> CellHeld(h[r], x)])

LEMMA OneType == \A y, x : One(y, x) \in Nat
  BY DEF One

LEMMA HeldByType == \A v, x : HeldBy(v, x) \in Nat
  BY OneType DEF HeldBy

LEMMA VarsHeldType ==
    ASSUME NEW N, NEW s \in Seq(Entries(N)), NEW x
    PROVE  VarsHeld(s, x) \in Nat
<1> DEFINE f == [i \in DOMAIN s |-> HeldBy(s[i].value, x)]
<1>1. IsFiniteSet(DOMAIN s)
  <2>1. DOMAIN s = 1 .. Len(s) /\ Len(s) \in Nat
    OBVIOUS
  <2> QED BY <2>1, FS_Interval
<1>2. f \in [DOMAIN s -> Nat]
  BY HeldByType
<1> HIDE DEF f
<1>3. Total(f) \in Nat
  BY <1>1, <1>2, UnitsFinite
<1> QED BY <1>3 DEF VarsHeld, f

LEMMA VarsHeldEmpty == \A x : VarsHeld(<< >>, x) = 0
  BY TotalZero DEF VarsHeld

LEMMA VarsHeldAppend ==
    ASSUME NEW N, NEW s \in Seq(Entries(N)), NEW e, NEW x
    PROVE  VarsHeld(Append(s, e), x) = VarsHeld(s, x) + HeldBy(e.value, x)
<1> DEFINE t == Append(s, e)
           n == Len(s)
           f == [i \in DOMAIN s |-> HeldBy(s[i].value, x)]
           g == [i \in DOMAIN t |-> HeldBy(t[i].value, x)]
<1>1. n \in Nat /\ DOMAIN s = 1 .. n /\ DOMAIN t = 1 .. n + 1 /\ t[n + 1] = e
      /\ \A i \in 1 .. n : t[i] = s[i]
  OBVIOUS
<1>2. 1 .. n + 1 = (1 .. n) \cup {n + 1} /\ n + 1 \notin 1 .. n
  BY <1>1
<1>3. f \in [1 .. n -> Nat] /\ g \in [(1 .. n) \cup {n + 1} -> Nat]
  BY <1>1, <1>2, HeldByType
<1>4. \A i \in 1 .. n : g[i] = f[i]
  BY <1>1
<1>5. g[n + 1] = HeldBy(e.value, x)
  BY <1>1
<1>6. IsFiniteSet(1 .. n)
  BY <1>1, FS_Interval
<1> HIDE DEF f, g
<1>7. Splits(g, f, n + 1)
  BY <1>2, <1>3, <1>4, <1>6, TotalNew
<1> QED BY <1>5, <1>7 DEF Splits, VarsHeld, f, g

LEMMA VarsHeldTail ==
    ASSUME NEW N, NEW s \in Seq(Entries(N)), s # << >>, NEW x
    PROVE  VarsHeld(Tail(s), x) = VarsHeld(s, x) - HeldBy(s[1].value, x)
<1> DEFINE t == Tail(s)
           n == Len(s)
           f == [i \in DOMAIN s |-> HeldBy(s[i].value, x)]
           g == [i \in DOMAIN t |-> HeldBy(t[i].value, x)]
<1>1. n \in Nat /\ n > 0 /\ DOMAIN s = 1 .. n /\ DOMAIN t = 1 .. n - 1
      /\ \A i \in 1 .. n - 1 : t[i] = s[i + 1]
  OBVIOUS
<1>2. f \in [1 .. n -> Nat] /\ g \in [1 .. n - 1 -> Nat]
  BY <1>1, HeldByType
<1>3. \A i \in 1 .. n - 1 : g[i] = f[i + 1]
  BY <1>1
<1>4. f[1] = HeldBy(s[1].value, x)
  BY <1>1
<1> HIDE DEF f, g
<1>5. Splits(f, g, 1)
  BY <1>1, <1>2, <1>3, TotalTail
<1>6. Total(f) = Total(g) + HeldBy(s[1].value, x)
  BY <1>4, <1>5 DEF Splits
<1>7. IsFiniteSet(1 .. n - 1)
  BY <1>1, FS_Interval
<1>8. Total(g) \in Nat
  BY <1>1, <1>2, <1>7, UnitsFinite
<1>9. HeldBy(s[1].value, x) \in Nat
  BY HeldByType
<1>10. Total(g) = Total(f) - HeldBy(s[1].value, x)
  BY <1>6, <1>8, <1>9
<1> QED BY <1>10 DEF VarsHeld, f, g

LEMMA VarsHeldAssign ==
    ASSUME NEW N, NEW s \in Seq(Entries(N)), NEW i \in 1 .. Len(s), NEW v, NEW x
    PROVE  VarsHeld([s EXCEPT ![i].value = v], x)
           = VarsHeld(s, x) - HeldBy(s[i].value, x) + HeldBy(v, x)
<1> DEFINE t == [s EXCEPT ![i].value = v]
           n == Len(s)
           f == [k \in DOMAIN s |-> HeldBy(s[k].value, x)]
           g == [k \in DOMAIN t |-> HeldBy(t[k].value, x)]
<1>1. n \in Nat /\ DOMAIN s = 1 .. n /\ DOMAIN t = 1 .. n /\ i \in 1 .. n
  OBVIOUS
<1>2. s[i] \in Entries(N)
  OBVIOUS
<1>3. t[i].value = v
  BY <1>2 DEF Entries
<1>4. \A k \in (1 .. n) \ {i} : t[k] = s[k]
  OBVIOUS
<1>5. f \in [1 .. n -> Nat] /\ g \in [1 .. n -> Nat]
  BY <1>1, HeldByType
<1>6. (\A k \in (1 .. n) \ {i} : g[k] = f[k]) /\ f[i] = HeldBy(s[i].value, x) /\ g[i] = HeldBy(v, x)
  BY <1>1, <1>3, <1>4
<1> HIDE DEF f, g
<1>7. IsFiniteSet(1 .. n)
  BY <1>1, FS_Interval
<1>8. Changes(f, g, i)
  BY <1>1, <1>5, <1>6, <1>7, TotalChange
<1> QED BY <1>6, <1>8 DEF Changes, VarsHeld, f, g

LEMMA VarsHeldCovers ==
    ASSUME NEW N, NEW s \in Seq(Entries(N)), NEW i \in 1 .. Len(s), NEW x
    PROVE  VarsHeld(s, x) >= HeldBy(s[i].value, x)
<1> DEFINE f == [k \in DOMAIN s |-> HeldBy(s[k].value, x)]
           n == Len(s)
<1>1. n \in Nat /\ DOMAIN s = 1 .. n
  OBVIOUS
<1>2. f \in [1 .. n -> Nat] /\ f[i] = HeldBy(s[i].value, x)
  BY <1>1, HeldByType
<1> HIDE DEF f
<1>3. IsFiniteSet(1 .. n)
  BY <1>1, FS_Interval
<1>4. Covers(f, i)
  BY <1>1, <1>2, <1>3, TotalCovers
<1> QED BY <1>2, <1>4 DEF Covers, VarsHeld, f

(***************************************************************************)
(* Heaps.                                                                  *)
(***************************************************************************)
Heaps(N) == UNION {[D -> Cells(N)] : D \in {S \in SUBSET Scopes : IsFiniteSet(S)}}

LEMMA HeapsHave ==
    ASSUME NEW N, NEW h \in Heaps(N)
    PROVE  /\ h \in [DOMAIN h -> Cells(N)]
           /\ IsFiniteSet(DOMAIN h)
           /\ DOMAIN h \subseteq Scopes
<1>1. PICK D \in SUBSET Scopes : IsFiniteSet(D) /\ h \in [D -> Cells(N)]
  BY DEF Heaps
<1> QED BY <1>1

LEMMA IsHeap ==
    ASSUME NEW N, NEW h, IsFiniteSet(DOMAIN h), DOMAIN h \subseteq Scopes, h \in [DOMAIN h -> Cells(N)]
    PROVE  h \in Heaps(N)
  BY DEF Heaps

LEMMA CellHeldType ==
    ASSUME NEW N, NEW c \in Cells(N), NEW x
    PROVE  CellHeld(c, x) \in Nat
<1>1. c.vars \in Seq(Entries(N))
  BY DEF Cells
<1>2. VarsHeld(c.vars, x) \in Nat
  BY <1>1, VarsHeldType
<1>3. One(Handle(c.parent, c.weak_ref), x) \in Nat
  BY OneType
<1> QED BY <1>2, <1>3 DEF CellHeld

LEMMA HeldFunction ==
    ASSUME NEW N, NEW h \in Heaps(N), NEW x
    PROVE  [r \in DOMAIN h |-> CellHeld(h[r], x)] \in [DOMAIN h -> Nat]
<1>1. \A r \in DOMAIN h : h[r] \in Cells(N)
  BY HeapsHave
<1>2. \A r \in DOMAIN h : CellHeld(h[r], x) \in Nat
  BY <1>1, CellHeldType
<1> QED BY <1>2

LEMMA HeapHeldType ==
    ASSUME NEW N, NEW h \in Heaps(N), NEW x
    PROVE  HeapHeld(h, x) \in Nat
<1> DEFINE f == [r \in DOMAIN h |-> CellHeld(h[r], x)]
<1>1. f \in [DOMAIN h -> Nat] /\ IsFiniteSet(DOMAIN h)
  BY HeldFunction, HeapsHave
<1> HIDE DEF f
<1>2. Total(f) \in Nat
  BY <1>1, UnitsFinite
<1> QED BY <1>2 DEF HeapHeld, f

LEMMA HeapHeldCovers ==
    ASSUME NEW N, NEW h \in Heaps(N), NEW r \in DOMAIN h, NEW x
    PROVE  HeapHeld(h, x) >= CellHeld(h[r], x)
<1> DEFINE f == [s \in DOMAIN h |-> CellHeld(h[s], x)]
<1>1. f \in [DOMAIN h -> Nat] /\ IsFiniteSet(DOMAIN h)
  BY HeldFunction, HeapsHave
<1>2. f[r] = CellHeld(h[r], x)
  OBVIOUS
<1> HIDE DEF f
<1>3. Covers(f, r)
  BY <1>1, TotalCovers
<1> QED BY <1>2, <1>3 DEF Covers, HeapHeld, f

\* A heap with one cell more or with another cell.
LEMMA UpdateType ==
    ASSUME NEW N, NEW h \in Heaps(N), NEW r \in Scopes, NEW c \in Cells(N)
    PROVE  /\ Update(h, r, c) \in Heaps(N)
           /\ DOMAIN Update(h, r, c) = DOMAIN h \cup {r}
           /\ Update(h, r, c)[r] = c
           /\ \A s \in DOMAIN h \ {r} : Update(h, r, c)[s] = h[s]
<1> DEFINE g == Update(h, r, c)
<1>1. g = [s \in DOMAIN h \cup {r} |-> IF s = r THEN c ELSE h[s]]
  BY DEF Update
<1>2. h \in [DOMAIN h -> Cells(N)] /\ IsFiniteSet(DOMAIN h) /\ DOMAIN h \subseteq Scopes
  BY HeapsHave
<1>3. IsFiniteSet(DOMAIN h \cup {r})
  BY <1>2, FS_AddElement
<1> HIDE DEF g
<1>4. g \in [DOMAIN g -> Cells(N)] /\ DOMAIN g = DOMAIN h \cup {r} /\ DOMAIN g \subseteq Scopes
  BY <1>1, <1>2
<1>5. g \in Heaps(N)
  BY <1>3, <1>4, IsHeap
<1>6. g[r] = c /\ \A s \in DOMAIN h \ {r} : g[s] = h[s]
  BY <1>1
<1> QED BY <1>4, <1>5, <1>6 DEF g

LEMMA UpdateHere ==
    ASSUME NEW N, NEW h \in Heaps(N), NEW r \in DOMAIN h, NEW c \in Cells(N)
    PROVE  /\ Update(h, r, c) \in Heaps(N)
           /\ DOMAIN Update(h, r, c) = DOMAIN h
           /\ Update(h, r, c)[r] = c
           /\ \A s \in DOMAIN h \ {r} : Update(h, r, c)[s] = h[s]
<1>1. r \in Scopes
  BY HeapsHave
<1>2. Update(h, r, c) \in Heaps(N)
  BY <1>1, UpdateType
<1>3. DOMAIN Update(h, r, c) = DOMAIN h
  BY DEF Update
<1>4. Update(h, r, c)[r] = c
  BY DEF Update
<1>5. \A s \in DOMAIN h \ {r} : Update(h, r, c)[s] = h[s]
  BY DEF Update
<1> QED BY <1>2, <1>3, <1>4, <1>5

LEMMA HeldAfterChange ==
    ASSUME NEW N, NEW h \in Heaps(N), NEW r \in DOMAIN h, NEW c \in Cells(N), NEW x
    PROVE  HeapHeld(Update(h, r, c), x) = HeapHeld(h, x) - CellHeld(h[r], x) + CellHeld(c, x)
<1> DEFINE k == Update(h, r, c)
           f == [s \in DOMAIN h |-> CellHeld(h[s], x)]
           g == [s \in DOMAIN k |-> CellHeld(k[s], x)]
<1>1. r \in Scopes /\ IsFiniteSet(DOMAIN h)
  BY HeapsHave
<1>2. k \in Heaps(N) /\ DOMAIN k = DOMAIN h /\ k[r] = c /\ \A s \in DOMAIN h \ {r} : k[s] = h[s]
  BY UpdateHere
<1> HIDE DEF k
<1>3. f \in [DOMAIN h -> Nat] /\ g \in [DOMAIN h -> Nat]
  BY <1>2, HeldFunction
<1>4. (\A s \in DOMAIN h \ {r} : g[s] = f[s]) /\ f[r] = CellHeld(h[r], x) /\ g[r] = CellHeld(c, x)
  BY <1>2
<1> HIDE DEF f, g
<1>5. Changes(f, g, r)
  BY <1>1, <1>3, <1>4, TotalChange
<1> QED BY <1>4, <1>5 DEF Changes, HeapHeld, f, g, k

LEMMA HeldAfterNew ==
    ASSUME NEW N, NEW h \in Heaps(N), NEW r \in Scopes \ DOMAIN h, NEW c \in Cells(N), NEW x
    PROVE  HeapHeld(Update(h, r, c), x) = HeapHeld(h, x) + CellHeld(c, x)
<1> DEFINE k == Update(h, r, c)
           f == [s \in DOMAIN h |-> CellHeld(h[s], x)]
           g == [s \in DOMAIN k |-> CellHeld(k[s], x)]
<1>1. IsFiniteSet(DOMAIN h)
  BY HeapsHave
<1>2. k \in Heaps(N) /\ DOMAIN k = DOMAIN h \cup {r} /\ k[r] = c /\ \A s \in DOMAIN h \ {r} : k[s] = h[s]
  BY UpdateType
<1> HIDE DEF k
<1>3. f \in [DOMAIN h -> Nat] /\ g \in [DOMAIN h \cup {r} -> Nat]
  <2>1. g \in [DOMAIN k -> Nat]
    BY <1>2, HeldFunction
  <2> QED BY <1>2, <2>1, HeldFunction
<1>4. (\A s \in DOMAIN h : g[s] = f[s]) /\ g[r] = CellHeld(c, x)
  BY <1>2
<1> HIDE DEF f, g
<1>5. Splits(g, f, r)
  BY <1>1, <1>3, <1>4, TotalNew
<1> QED BY <1>4, <1>5 DEF Splits, HeapHeld, f, g, k

LEMMA WithoutType ==
    ASSUME NEW N, NEW h \in Heaps(N), NEW r
    PROVE  /\ Without(h, r) \in Heaps(N)
           /\ DOMAIN Without(h, r) = DOMAIN h \ {r}
           /\ \A s \in DOMAIN h \ {r} : Without(h, r)[s] = h[s]
<1>1. h \in [DOMAIN h -> Cells(N)] /\ IsFiniteSet(DOMAIN h) /\ DOMAIN h \subseteq Scopes
  BY HeapsHave
<1>2. IsFiniteSet(DOMAIN h \ {r})
  BY <1>1, FS_RemoveElement
<1>3. /\ Without(h, r) \in [DOMAIN Without(h, r) -> Cells(N)]
      /\ DOMAIN Without(h, r) = DOMAIN h \ {r}
      /\ \A s \in DOMAIN h \ {r} : Without(h, r)[s] = h[s]
  BY <1>1 DEF Without
<1>4. Without(h, r) \in Heaps(N)
  BY <1>1, <1>2, <1>3, IsHeap
<1> QED BY <1>3, <1>4

LEMMA HeldAfterDrop ==
    ASSUME NEW N, NEW h \in Heaps(N), NEW r \in DOMAIN h, NEW x
    PROVE  HeapHeld(Without(h, r), x) = HeapHeld(h, x) - CellHeld(h[r], x)
<1> DEFINE k == Without(h, r)
           f == [s \in DOMAIN h |-> CellHeld(h[s], x)]
           g == [s \in DOMAIN k |-> CellHeld(k[s], x)]
<1>1. IsFiniteSet(DOMAIN h)
  BY HeapsHave
<1>2. k \in Heaps(N) /\ DOMAIN k = DOMAIN h \ {r} /\ \A s \in DOMAIN h \ {r} : k[s] = h[s]
  BY WithoutType
<1> HIDE DEF k
<1>3. f \in [DOMAIN h -> Nat] /\ g \in [DOMAIN h \ {r} -> Nat]
  <2>1. g \in [DOMAIN k -> Nat]
    BY <1>2, HeldFunction
  <2> QED BY <1>2, <2>1, HeldFunction
<1>4. (\A s \in DOMAIN h \ {r} : g[s] = f[s]) /\ f[r] = CellHeld(h[r], x)
  BY <1>2
<1>5. CellHeld(h[r], x) \in Nat
  BY HeapsHave, CellHeldType
<1> HIDE DEF f, g
<1>6. Splits(f, g, r)
  BY <1>1, <1>3, <1>4, TotalSplit
<1>7. Total(g) \in Nat
  BY <1>1, <1>3, UnitsFinite, FS_RemoveElement
<1>8. Total(g) = Total(f) - CellHeld(h[r], x)
  BY <1>4, <1>5, <1>6, <1>7 DEF Splits
<1> QED BY <1>8 DEF HeapHeld, f, g, k

(***************************************************************************)
(* Sound heaps: a counter exists as long as it is counted, and owns its    *)
(* scope as long as it is counted strongly.  The references to spare are   *)
(* those that are not to a handle of the heap itself.                      *)
(***************************************************************************)
Settled(c) ==
    /\ c.strong + c.weak > 0
    /\ c.strong > 0 => c.mem
    /\ c.strong = 0 => ~c.mem /\ c.vars = << >> /\ c.parent = NoScope
Sound(h, N) == h \in Heaps(N) /\ \A r \in DOMAIN h : Settled(h[r])

Refs(h, x) ==
    IF x.target \notin DOMAIN h THEN 0
    ELSE IF x.weak THEN h[x.target].weak ELSE h[x.target].strong
Spare(h, x) == Refs(h, x) - HeapHeld(h, x)
Covered(h) == \A x \in Targets : Spare(h, x) >= 0

\* What is alive in g was so in h, with the same bindings and the same parent.
SameBody(c, d) == c.vars = d.vars /\ c.parent = d.parent /\ c.weak_ref = d.weak_ref
Keeps(h, g) ==
    \A r \in DOMAIN g : g[r].strong > 0 => /\ r \in DOMAIN h /\ h[r].strong > 0
                                           /\ SameBody(g[r], h[r])

LEMMA KeepsItself == \A h : Keeps(h, h)
  BY DEF Keeps, SameBody

LEMMA KeepsOn ==
    ASSUME NEW f, NEW g, NEW h, Keeps(f, g), Keeps(g, h)
    PROVE  Keeps(f, h)
  BY DEF Keeps, SameBody

LEMMA HandleIs ==
    ASSUME NEW x \in Targets, NEW r
    PROVE  /\ x = Handle(r, FALSE) <=> x.target = r /\ ~x.weak
           /\ x = Handle(r, TRUE) <=> x.target = r /\ x.weak
           /\ Handle(r, x.weak) = x <=> x.target = r
  BY DEF Targets, Handle

LEMMA HandleHas ==
    ASSUME NEW r, NEW b \in BOOLEAN
    PROVE  /\ Handle(r, b).target = r /\ Handle(r, b).weak = b
           /\ r \in Scopes => Handle(r, b) \in Targets
           /\ r \notin Scopes => Handle(r, b) \notin Targets
  BY DEF Targets, Handle

LEMMA SoundCell ==
    ASSUME NEW N, NEW h, Sound(h, N), NEW r \in DOMAIN h
    PROVE  /\ r \in Scopes /\ h[r] \in Cells(N) /\ Settled(h[r])
           /\ h[r].strong \in Nat /\ h[r].weak \in Nat
           /\ h[r].vars \in Seq(Entries(N)) /\ h[r].parent \in References
           /\ h[r].weak_ref \in BOOLEAN /\ h[r].mem \in BOOLEAN
<1>1. h \in Heaps(N) /\ Settled(h[r])
  BY DEF Sound
<1>2. h[r] \in Cells(N) /\ r \in Scopes
  BY <1>1, HeapsHave
<1> QED BY <1>1, <1>2 DEF Cells

LEMMA SpareType ==
    ASSUME NEW N, NEW h, Sound(h, N), NEW x \in Targets
    PROVE  Spare(h, x) \in Int /\ Refs(h, x) \in Nat /\ HeapHeld(h, x) \in Nat
           /\ Spare(h, x) = Refs(h, x) - HeapHeld(h, x)
<1>1. HeapHeld(h, x) \in Nat
  BY HeapHeldType DEF Sound
<1>2. Refs(h, x) \in Nat
  BY SoundCell DEF Refs
<1> QED BY <1>1, <1>2 DEF Spare

\* A reference that is counted is to a counter that exists.
LEMMA Counted_ ==
    ASSUME NEW N, NEW h, Sound(h, N), NEW r \in Scopes, NEW b \in BOOLEAN,
           Refs(h, Handle(r, b)) > 0
    PROVE  r \in DOMAIN h /\ (IF b THEN h[r].weak > 0 ELSE h[r].strong > 0)
  BY DEF Refs, Handle

\* c has i references of one kind more than d.
Recounts(c, d, b, i) ==
    IF b THEN c.weak = d.weak + i /\ c.strong = d.strong
         ELSE c.strong = d.strong + i /\ c.weak = d.weak
Gains(h, g, r, b, i) ==
    \A x \in Targets : Spare(g, x) = Spare(h, x) + (IF x = Handle(r, b) THEN i ELSE 0)

\* g is h but for the cell c of r, with other counts, or none.
Recounted(N, h, g, r, c, b, i) ==
    /\ Sound(g, N) /\ DOMAIN g = DOMAIN h
    /\ g[r] = c /\ \A s \in DOMAIN h \ {r} : g[s] = h[s]
    /\ h[r].strong > 0 \/ c.strong = 0 => Keeps(h, g)
    /\ Gains(h, g, r, b, i)
Dropped(N, h, g, r, b) ==
    /\ Sound(g, N) /\ DOMAIN g = DOMAIN h \ {r} /\ Keeps(h, g)
    /\ \A s \in DOMAIN h \ {r} : g[s] = h[s]
    /\ Gains(h, g, r, b, -1)

\* A cell with other counts.
LEMMA OtherCounts ==
    ASSUME NEW N, NEW h, Sound(h, N), NEW r \in DOMAIN h,
           NEW c \in Cells(N), Settled(c), SameBody(c, h[r]), NEW b \in BOOLEAN, NEW i, i \in Int,
           Recounts(c, h[r], b, i)
    PROVE  Recounted(N, h, Update(h, r, c), r, c, b, i)
<1> DEFINE g == Update(h, r, c)
<1>1. h \in Heaps(N) /\ r \in Scopes /\ h[r] \in Cells(N)
  BY SoundCell DEF Sound
<1>2. g \in Heaps(N) /\ DOMAIN g = DOMAIN h /\ g[r] = c /\ \A s \in DOMAIN h \ {r} : g[s] = h[s]
  BY <1>1, UpdateHere
<1>3. \A x : HeapHeld(g, x) = HeapHeld(h, x) - CellHeld(h[r], x) + CellHeld(c, x)
  BY <1>1, HeldAfterChange
<1> HIDE DEF g
<1>4. Sound(g, N)
  BY <1>2 DEF Sound
<1>5. \A x : CellHeld(c, x) = CellHeld(h[r], x)
  BY DEF CellHeld, SameBody
<1>6. ASSUME NEW x \in Targets
      PROVE  Spare(g, x) = Spare(h, x) + (IF x = Handle(r, b) THEN i ELSE 0)
  <2>1. HeapHeld(h, x) \in Nat /\ CellHeld(h[r], x) \in Nat
    BY <1>1, HeapHeldType, CellHeldType
  <2>2. HeapHeld(g, x) = HeapHeld(h, x)
    BY <1>3, <1>5, <2>1
  <2>3. h[r].strong \in Nat /\ h[r].weak \in Nat /\ c.strong \in Nat /\ c.weak \in Nat
    BY <1>1 DEF Cells
  <2>4. Refs(h, x) \in Nat
    BY SpareType
  <2>5. Refs(g, x) = Refs(h, x) + (IF x = Handle(r, b) THEN i ELSE 0)
    <3>1. CASE x.target # r
      <4>1. Refs(g, x) = Refs(h, x)
        BY <1>2, <3>1 DEF Refs
      <4>2. x # Handle(r, b)
        BY <3>1, HandleHas
      <4> QED BY <2>4, <4>1, <4>2
    <3>2. CASE x.target = r /\ x.weak
      <4>1. Refs(g, x) = c.weak /\ Refs(h, x) = h[r].weak
        BY <1>2, <3>2 DEF Refs
      <4>2. x = Handle(r, b) <=> b
        BY <3>2, HandleIs, HandleHas
      <4> QED BY <2>3, <4>1, <4>2 DEF Recounts
    <3>3. CASE x.target = r /\ ~x.weak
      <4>1. Refs(g, x) = c.strong /\ Refs(h, x) = h[r].strong
        BY <1>2, <3>3 DEF Refs
      <4>2. x = Handle(r, b) <=> ~b
        <5>1. CASE b = TRUE
          BY <3>3, <5>1, HandleIs
        <5>2. CASE b = FALSE
          BY <3>3, <5>2, HandleIs
        <5> QED BY <5>1, <5>2
      <4> QED BY <2>3, <4>1, <4>2 DEF Recounts
    <3> QED BY <3>1, <3>2, <3>3
  <2> DEFINE d == IF x = Handle(r, b) THEN i ELSE 0
  <2>6. d \in Int
    OBVIOUS
  <2> HIDE DEF d
  <2>7. Refs(g, x) = Refs(h, x) + d
    BY <2>5 DEF d
  <2>8. Spare(g, x) = Spare(h, x) + d
    BY <2>1, <2>2, <2>4, <2>6, <2>7 DEF Spare
  <2> QED BY <2>8 DEF d
<1>7. (h[r].strong > 0 \/ c.strong = 0) => Keeps(h, g)
  <2>1. \A s \in DOMAIN h \ {r} : SameBody(g[s], h[s]) /\ g[s].strong = h[s].strong
    BY <1>2 DEF SameBody
  <2>2. SameBody(g[r], h[r]) /\ g[r].strong = c.strong
    BY <1>2
  <2>3. c.strong = 0 => ~(c.strong > 0)
    OBVIOUS
  <2> QED BY <1>2, <2>1, <2>2, <2>3 DEF Keeps
<1> QED BY <1>2, <1>4, <1>6, <1>7 DEF g, Gains, Recounted

LEMMA OneMore ==
    ASSUME NEW N, NEW h, Sound(h, N), NEW r \in DOMAIN h,
           NEW c \in Cells(N), Settled(c), SameBody(c, h[r]), NEW b \in BOOLEAN, Recounts(c, h[r], b, 1)
    PROVE  Recounted(N, h, Update(h, r, c), r, c, b, 1)
  BY OtherCounts

LEMMA OneLess ==
    ASSUME NEW N, NEW h, Sound(h, N), NEW r \in DOMAIN h,
           NEW c \in Cells(N), Settled(c), SameBody(c, h[r]), NEW b \in BOOLEAN, Recounts(c, h[r], b, -1)
    PROVE  Recounted(N, h, Update(h, r, c), r, c, b, -1)
  BY OtherCounts

\* The counter goes with its last reference.
LEMMA GoneCell ==
    ASSUME NEW N, NEW h, Sound(h, N), NEW r \in DOMAIN h, h[r].vars = << >>, h[r].parent = NoScope,
           NEW b \in BOOLEAN, Recounts(Freed, h[r], b, -1)
    PROVE  Dropped(N, h, Without(h, r), r, b)
<1> DEFINE g == Without(h, r)
<1>1. h \in Heaps(N) /\ r \in Scopes /\ h[r] \in Cells(N)
  BY SoundCell DEF Sound
<1>2. g \in Heaps(N) /\ DOMAIN g = DOMAIN h \ {r} /\ \A s \in DOMAIN h \ {r} : g[s] = h[s]
  BY <1>1, WithoutType
<1>3. \A x : HeapHeld(g, x) = HeapHeld(h, x) - CellHeld(h[r], x)
  BY <1>1, HeldAfterDrop
<1> HIDE DEF g
<1>4. Sound(g, N) /\ Keeps(h, g)
  BY <1>2 DEF Sound, Keeps, SameBody
<1>5. \A x \in Targets : CellHeld(h[r], x) = 0
  <2> TAKE x \in Targets
  <2>1. Handle(NoScope, h[r].weak_ref) # x
    BY DEF Handle, Targets, Scopes
  <2> QED BY <2>1, VarsHeldEmpty DEF CellHeld, One
<1>6. IF b THEN h[r].weak = 1 /\ h[r].strong = 0 ELSE h[r].strong = 1 /\ h[r].weak = 0
  <2>1. h[r].strong \in Nat /\ h[r].weak \in Nat /\ Freed.strong = 0 /\ Freed.weak = 0
    BY SoundCell DEF Freed, Cell
  <2> HIDE DEF Freed
  <2> QED BY <2>1 DEF Recounts
<1>7. ASSUME NEW x \in Targets
      PROVE  Spare(g, x) = Spare(h, x) + (IF x = Handle(r, b) THEN -1 ELSE 0)
  <2>1. HeapHeld(h, x) \in Nat
    BY <1>1, HeapHeldType
  <2>2. HeapHeld(g, x) = HeapHeld(h, x)
    BY <1>3, <1>5, <2>1
  <2>4. Refs(h, x) \in Nat
    BY SpareType
  <2>5. Refs(g, x) = Refs(h, x) + (IF x = Handle(r, b) THEN -1 ELSE 0)
    <3>1. CASE x.target # r
      <4>1. Refs(g, x) = Refs(h, x)
        BY <1>2, <3>1 DEF Refs
      <4>2. x # Handle(r, b)
        BY <3>1, HandleHas
      <4> QED BY <2>4, <4>1, <4>2
    <3>2. CASE x.target = r /\ x.weak
      <4>1. Refs(g, x) = 0 /\ Refs(h, x) = h[r].weak
        BY <1>2, <3>2 DEF Refs
      <4>2. x = Handle(r, b) <=> b
        BY <3>2, HandleIs, HandleHas
      <4> QED BY <1>6, <4>1, <4>2
    <3>3. CASE x.target = r /\ ~x.weak
      <4>1. Refs(g, x) = 0 /\ Refs(h, x) = h[r].strong
        BY <1>2, <3>3 DEF Refs
      <4>2. x = Handle(r, b) <=> ~b
        <5>1. CASE b = TRUE
          BY <3>3, <5>1, HandleIs
        <5>2. CASE b = FALSE
          BY <3>3, <5>2, HandleIs
        <5> QED BY <5>1, <5>2
      <4> QED BY <1>6, <4>1, <4>2
    <3> QED BY <3>1, <3>2, <3>3
  <2> DEFINE d == IF x = Handle(r, b) THEN -1 ELSE 0
  <2>6. d \in Int
    OBVIOUS
  <2> HIDE DEF d
  <2>7. Refs(g, x) = Refs(h, x) + d
    BY <2>5 DEF d
  <2>8. Spare(g, x) = Spare(h, x) + d
    BY <2>1, <2>2, <2>4, <2>6, <2>7 DEF Spare
  <2> QED BY <2>8 DEF d
<1> QED BY <1>2, <1>4, <1>7 DEF g, Gains, Dropped

\* A cell with other bindings or another parent.
LEMMA OtherBody ==
    ASSUME NEW N, NEW h, Sound(h, N), NEW r \in DOMAIN h, NEW c \in Cells(N), Settled(c),
           c.strong = h[r].strong, c.weak = h[r].weak
    PROVE  /\ Sound(Update(h, r, c), N) /\ DOMAIN Update(h, r, c) = DOMAIN h
           /\ Update(h, r, c)[r] = c /\ \A s \in DOMAIN h \ {r} : Update(h, r, c)[s] = h[s]
           /\ \A x \in Targets : Spare(Update(h, r, c), x)
                                 = Spare(h, x) + CellHeld(h[r], x) - CellHeld(c, x)
<1> DEFINE g == Update(h, r, c)
<1>1. h \in Heaps(N) /\ r \in Scopes /\ h[r] \in Cells(N)
  BY SoundCell DEF Sound
<1>2. g \in Heaps(N) /\ DOMAIN g = DOMAIN h /\ g[r] = c /\ \A s \in DOMAIN h \ {r} : g[s] = h[s]
  BY <1>1, UpdateHere
<1>3. \A x : HeapHeld(g, x) = HeapHeld(h, x) - CellHeld(h[r], x) + CellHeld(c, x)
  BY <1>1, HeldAfterChange
<1> HIDE DEF g
<1>5. Sound(g, N)
  BY <1>2 DEF Sound
<1>6. ASSUME NEW x \in Targets
      PROVE  Spare(g, x) = Spare(h, x) + CellHeld(h[r], x) - CellHeld(c, x)
  <2>1. HeapHeld(h, x) \in Nat /\ CellHeld(h[r], x) \in Nat /\ CellHeld(c, x) \in Nat
    BY <1>1, HeapHeldType, CellHeldType
  <2>2. Refs(h, x) \in Nat
    BY SpareType
  <2>3. Refs(g, x) = Refs(h, x)
    BY <1>2 DEF Refs
  <2> QED BY <1>3, <2>1, <2>2, <2>3 DEF Spare
<1> QED BY <1>2, <1>5, <1>6 DEF g

(***************************************************************************)
(* Counting a reference more, or one less where nothing has to be freed.   *)
(***************************************************************************)
\* g has the counters of h, and their scopes.
SameBodies(h, g) ==
    /\ DOMAIN g = DOMAIN h
    /\ \A r \in DOMAIN h : SameBody(g[r], h[r]) /\ g[r].mem = h[r].mem

LEMMA Backing ==
    ASSUME NEW N, NEW h, Sound(h, N), NEW r \in Scopes, NEW b \in BOOLEAN, Spare(h, Handle(r, b)) >= 1
    PROVE  Refs(h, Handle(r, b)) >= 1
<1>1. Handle(r, b) \in Targets
  BY HandleHas
<1>2. Spare(h, Handle(r, b)) = Refs(h, Handle(r, b)) - HeapHeld(h, Handle(r, b))
      /\ Refs(h, Handle(r, b)) \in Nat /\ HeapHeld(h, Handle(r, b)) \in Nat
  BY <1>1, SpareType
<1> QED BY <1>2

LEMMA Alive ==
    ASSUME NEW N, NEW h, Sound(h, N), NEW r, NEW b \in BOOLEAN, Refs(h, Handle(r, b)) >= 1
    PROVE  /\ r \in DOMAIN h /\ At(h, r) = h[r]
           /\ b => h[r].weak >= 1
           /\ ~b => h[r].strong >= 1 /\ h[r].mem /\ ~Expired(h, r)
<1>1. r \in DOMAIN h
  BY HandleHas DEF Refs
<1>2. Refs(h, Handle(r, b)) = IF b THEN h[r].weak ELSE h[r].strong
  BY <1>1, HandleHas DEF Refs
<1>3. h[r].strong \in Nat /\ Settled(h[r])
  BY <1>1, SoundCell
<1> QED BY <1>1, <1>2, <1>3 DEF At, Expired, Settled

LEMMA Loss ==
    ASSUME NEW N, NEW h, Sound(h, N), NEW g, NEW r, NEW b \in BOOLEAN, Gains(h, g, r, b, -1)
    PROVE  \A x \in Targets : Spare(g, x) = Spare(h, x) - One(Handle(r, b), x)
<1> TAKE x \in Targets
<1>1. Spare(h, x) \in Int
  BY SpareType
<1>2. CASE x = Handle(r, b)
  <2>1. One(Handle(r, b), x) = 1
    BY <1>2 DEF One
  <2>2. Spare(g, x) = Spare(h, x) + (-1)
    BY <1>2 DEF Gains
  <2> QED BY <1>1, <2>1, <2>2
<1>3. CASE x # Handle(r, b)
  <2>1. One(Handle(r, b), x) = 0
    BY <1>3 DEF One
  <2>2. Spare(g, x) = Spare(h, x) + 0
    BY <1>3 DEF Gains
  <2> QED BY <1>1, <2>1, <2>2
<1> QED BY <1>2, <1>3

\* g is h with other counts, and none is less.
Adds(N, h, g) ==
    /\ Sound(g, N) /\ SameBodies(h, g) /\ Keeps(h, g)
    /\ \A x \in Targets : Refs(g, x) >= Refs(h, x)

LEMMA RetainLaw ==
    ASSUME NEW N, NEW h, Sound(h, N), NEW r, Refs(h, Handle(r, FALSE)) >= 1
    PROVE  /\ Adds(N, h, Retain(h, r))
           /\ \A x \in Targets : Spare(Retain(h, r), x) = Spare(h, x) + One(Handle(r, FALSE), x)
<1> DEFINE c == [h[r] EXCEPT !.strong = @ + 1]
           g == Retain(h, r)
<1>1. r \in DOMAIN h /\ h[r].strong >= 1 /\ h[r].mem /\ ~Expired(h, r)
  BY Alive
<1>2. h[r] \in Cells(N) /\ Settled(h[r]) /\ h[r].strong \in Nat /\ h[r].weak \in Nat
  BY <1>1, SoundCell
<1>3. /\ c \in Cells(N) /\ SameBody(c, h[r]) /\ c.mem = h[r].mem
      /\ c.strong = h[r].strong + 1 /\ c.weak = h[r].weak
  BY <1>2 DEF Cells, SameBody
<1>4. Settled(c)
  BY <1>1, <1>2, <1>3 DEF Settled, SameBody
<1>5. g = Update(h, r, c)
  BY <1>1 DEF Retain
<1> HIDE DEF c, g
<1>6. /\ Sound(g, N) /\ DOMAIN g = DOMAIN h
      /\ g[r] = c /\ \A s \in DOMAIN h \ {r} : g[s] = h[s]
      /\ h[r].strong > 0 \/ c.strong = 0 => Keeps(h, g)
      /\ Gains(h, g, r, FALSE, 1)
  <2>1. Recounts(c, h[r], FALSE, 1)
    BY <1>3 DEF Recounts
  <2>2. Recounted(N, h, g, r, c, FALSE, 1)
    BY <1>1, <1>3, <1>4, <1>5, <2>1, OneMore
  <2> QED BY <2>2 DEF Recounted
<1>7. h[r].strong > 0
  BY <1>1, <1>2
<1>8. SameBodies(h, g)
  BY <1>3, <1>6 DEF SameBodies, SameBody
<1>9. \A x \in Targets : Spare(g, x) = Spare(h, x) + One(Handle(r, FALSE), x)
  BY <1>6 DEF One, Gains
<1>10. \A x \in Targets : Refs(g, x) >= Refs(h, x)
  <2> TAKE x \in Targets
  <2>1. CASE x.target = r
    BY <1>1, <1>2, <1>3, <1>6, <2>1 DEF Refs
  <2>2. CASE x.target # r
    <3>1. Refs(g, x) = Refs(h, x) /\ Refs(h, x) \in Nat
      BY <1>6, <2>2, SpareType DEF Refs
    <3> QED BY <3>1
  <2> QED BY <2>1, <2>2
<1> QED BY <1>6, <1>7, <1>8, <1>9, <1>10 DEF g, Adds

LEMMA RetainWeakLaw ==
    ASSUME NEW N, NEW h, Sound(h, N), NEW r \in DOMAIN h
    PROVE  /\ Adds(N, h, RetainWeak(h, r))
           /\ \A x \in Targets : Spare(RetainWeak(h, r), x) = Spare(h, x) + One(Handle(r, TRUE), x)
<1> DEFINE c == [h[r] EXCEPT !.weak = @ + 1]
           g == RetainWeak(h, r)
<1>2. h[r] \in Cells(N) /\ Settled(h[r]) /\ h[r].strong \in Nat /\ h[r].weak \in Nat
  BY SoundCell
<1>3. /\ c \in Cells(N) /\ SameBody(c, h[r]) /\ c.mem = h[r].mem
      /\ c.weak = h[r].weak + 1 /\ c.strong = h[r].strong
  BY <1>2 DEF Cells, SameBody
<1>4. Settled(c)
  BY <1>2, <1>3 DEF Settled, SameBody
<1>5. g = Update(h, r, c)
  BY DEF RetainWeak, At
<1> HIDE DEF c, g
<1>6. /\ Sound(g, N) /\ DOMAIN g = DOMAIN h
      /\ g[r] = c /\ \A s \in DOMAIN h \ {r} : g[s] = h[s]
      /\ h[r].strong > 0 \/ c.strong = 0 => Keeps(h, g)
      /\ Gains(h, g, r, TRUE, 1)
  <2>1. Recounts(c, h[r], TRUE, 1)
    BY <1>3 DEF Recounts
  <2>2. Recounted(N, h, g, r, c, TRUE, 1)
    BY <1>3, <1>4, <1>5, <2>1, OneMore
  <2> QED BY <2>2 DEF Recounted
<1>7. h[r].strong > 0 \/ c.strong = 0
  BY <1>2, <1>3
<1>8. SameBodies(h, g)
  BY <1>3, <1>6 DEF SameBodies, SameBody
<1>9. \A x \in Targets : Spare(g, x) = Spare(h, x) + One(Handle(r, TRUE), x)
  BY <1>6 DEF One, Gains
<1>10. \A x \in Targets : Refs(g, x) >= Refs(h, x)
  <2> TAKE x \in Targets
  <2>1. CASE x.target = r
    BY <1>2, <1>3, <1>6, <2>1 DEF Refs
  <2>2. CASE x.target # r
    <3>1. Refs(g, x) = Refs(h, x) /\ Refs(h, x) \in Nat
      BY <1>6, <2>2, SpareType DEF Refs
    <3> QED BY <3>1
  <2> QED BY <2>1, <2>2
<1> QED BY <1>6, <1>7, <1>8, <1>9, <1>10 DEF g, Adds

\* k is h when the handle a has been given up and nothing more.
GivenUp(N, h, k, a) ==
    /\ Sound(k, N) /\ DOMAIN k \subseteq DOMAIN h
    /\ \A s \in DOMAIN k :
           /\ SameBody(k[s], h[s])
           /\ a # Handle(s, FALSE) => k[s].strong = h[s].strong
           /\ a = Handle(s, FALSE) => k[s].strong = h[s].strong - 1
    /\ \A x \in Targets : Spare(k, x) = Spare(h, x) - One(a, x)

LEMMA ReleaseWeakLaw ==
    ASSUME NEW N, NEW h, Sound(h, N), NEW r, Refs(h, Handle(r, TRUE)) >= 1
    PROVE  GivenUp(N, h, ReleaseWeak(h, r), Handle(r, TRUE))
<1> DEFINE c == [h[r] EXCEPT !.weak = @ - 1]
           g == ReleaseWeak(h, r)
<1>1. r \in DOMAIN h /\ h[r].weak >= 1 /\ At(h, r) = h[r]
  BY Alive
<1>2. h[r] \in Cells(N) /\ Settled(h[r]) /\ h[r].strong \in Nat /\ h[r].weak \in Nat
  BY <1>1, SoundCell
<1>3. /\ c \in Cells(N) /\ SameBody(c, h[r]) /\ c.mem = h[r].mem
      /\ c.weak = h[r].weak - 1 /\ c.strong = h[r].strong
  BY <1>1, <1>2 DEF Cells, SameBody
<1>4. g = IF c.strong + c.weak = 0 THEN Without(h, r) ELSE Update(h, r, c)
  BY <1>1 DEF ReleaseWeak, Settle
<1> HIDE DEF c, g
<1>5. c.strong \in Nat /\ c.weak \in Nat
  BY <1>1, <1>2, <1>3
<1>8. \A s : Handle(r, TRUE) # Handle(s, FALSE)
  BY DEF Handle
<1>6. CASE c.strong + c.weak = 0
  <2>1. h[r].weak = 1 /\ h[r].strong = 0
    BY <1>2, <1>3, <1>5, <1>6
  <2>2. h[r].vars = << >> /\ h[r].parent = NoScope
    BY <1>2, <2>1 DEF Settled
  <2>3. g = Without(h, r)
    BY <1>4, <1>6
  <2>4. /\ Sound(g, N) /\ DOMAIN g = DOMAIN h \ {r} /\ Keeps(h, g)
        /\ \A s \in DOMAIN h \ {r} : g[s] = h[s]
        /\ Gains(h, g, r, TRUE, -1)
    <3>1. Recounts(Freed, h[r], TRUE, -1)
      BY <2>1 DEF Recounts, Freed, Cell
    <3>2. Dropped(N, h, g, r, TRUE)
      BY <1>1, <2>2, <2>3, <3>1, GoneCell
    <3> QED BY <3>2 DEF Dropped
  <2>5. \A x \in Targets : Spare(g, x) = Spare(h, x) - One(Handle(r, TRUE), x)
    <3>1. Gains(h, g, r, TRUE, -1)
      BY <2>4
    <3> QED BY <3>1, Loss, ZenonT(60)
  <2>6. \A s \in DOMAIN g : SameBody(g[s], h[s]) /\ g[s].strong = h[s].strong
    BY <2>4 DEF SameBody
  <2> QED BY <1>8, <2>4, <2>5, <2>6 DEF GivenUp, g
<1>7. CASE c.strong + c.weak # 0
  <2>1. Settled(c)
    BY <1>2, <1>3, <1>5, <1>7, SMTT(30) DEF Settled, SameBody
  <2>2. g = Update(h, r, c)
    BY <1>4, <1>7
  <2>3. c.weak = h[r].weak + (-1)
    BY <1>2, <1>3
  <2>4. /\ Sound(g, N) /\ DOMAIN g = DOMAIN h
        /\ g[r] = c /\ \A s \in DOMAIN h \ {r} : g[s] = h[s]
        /\ h[r].strong > 0 \/ c.strong = 0 => Keeps(h, g)
        /\ Gains(h, g, r, TRUE, -1)
    <3>1. Recounts(c, h[r], TRUE, -1)
      BY <1>3, <2>3 DEF Recounts
    <3>2. Recounted(N, h, g, r, c, TRUE, -1)
      BY <1>1, <1>3, <2>1, <2>2, <3>1, OneLess
    <3> QED BY <3>2 DEF Recounted
  <2>5. h[r].strong > 0 \/ c.strong = 0
    BY <1>2, <1>3
  <2>6. \A x \in Targets : Spare(g, x) = Spare(h, x) - One(Handle(r, TRUE), x)
    <3>1. Gains(h, g, r, TRUE, -1)
      BY <2>4
    <3> QED BY <3>1, Loss
  <2>7. \A s \in DOMAIN g : SameBody(g[s], h[s]) /\ g[s].strong = h[s].strong
    BY <1>3, <2>4 DEF SameBody
  <2> QED BY <1>8, <2>4, <2>6, <2>7 DEF GivenUp, g
<1> QED BY <1>6, <1>7

LEMMA ReleaseStrongLaw ==
    ASSUME NEW N, NEW h, Sound(h, N), NEW r, Refs(h, Handle(r, FALSE)) >= 1,
           h[r].strong = 1 => h[r].vars = << >> /\ h[r].parent = NoScope
    PROVE  GivenUp(N, h, ReleaseStrong(h, r), Handle(r, FALSE))
<1> DEFINE c == [h[r] EXCEPT !.strong = @ - 1, !.mem = @ /\ h[r].strong # 1]
           g == ReleaseStrong(h, r)
<1>1. r \in DOMAIN h /\ h[r].strong >= 1 /\ h[r].mem /\ At(h, r) = h[r]
  BY Alive
<1>2. h[r] \in Cells(N) /\ Settled(h[r]) /\ h[r].strong \in Nat /\ h[r].weak \in Nat /\ h[r].mem \in BOOLEAN
  BY <1>1, SoundCell
<1>3. /\ c \in Cells(N) /\ SameBody(c, h[r])
      /\ c.mem <=> h[r].strong # 1
      /\ c.strong = h[r].strong - 1 /\ c.weak = h[r].weak
  <2> DEFINE m == h[r].mem /\ h[r].strong # 1
  <2>1. m \in BOOLEAN /\ (m <=> h[r].strong # 1)
    BY <1>1, <1>2
  <2>2. c = [h[r] EXCEPT !.strong = @ - 1, !.mem = m]
    OBVIOUS
  <2>3. h[r].strong - 1 \in Nat
    BY <1>1, <1>2
  <2> HIDE DEF c, m
  <2>4. c \in Cells(N)
    BY <1>2, <2>1, <2>2, <2>3 DEF Cells
  <2>5. SameBody(c, h[r]) /\ c.mem = m /\ c.strong = h[r].strong - 1 /\ c.weak = h[r].weak
    BY <1>2, <2>1, <2>2 DEF Cells, SameBody
  <2> QED BY <2>1, <2>4, <2>5
<1>4. g = IF c.strong + c.weak = 0 THEN Without(h, r) ELSE Update(h, r, c)
  BY <1>1 DEF ReleaseStrong, Settle
<1> HIDE DEF c, g
<1>5. c.strong \in Nat /\ c.weak \in Nat
  BY <1>1, <1>2, <1>3
<1>8. \A s : Handle(r, FALSE) = Handle(s, FALSE) <=> s = r
  BY DEF Handle
<1>6. CASE c.strong + c.weak = 0
  <2>1. h[r].strong = 1 /\ h[r].weak = 0
    BY <1>1, <1>2, <1>3, <1>5, <1>6
  <2>2. h[r].vars = << >> /\ h[r].parent = NoScope
    BY <2>1
  <2>3. g = Without(h, r)
    BY <1>4, <1>6
  <2>4. /\ Sound(g, N) /\ DOMAIN g = DOMAIN h \ {r} /\ Keeps(h, g)
        /\ \A s \in DOMAIN h \ {r} : g[s] = h[s]
        /\ Gains(h, g, r, FALSE, -1)
    <3>1. Recounts(Freed, h[r], FALSE, -1)
      BY <2>1 DEF Recounts, Freed, Cell
    <3>2. Dropped(N, h, g, r, FALSE)
      BY <1>1, <2>2, <2>3, <3>1, GoneCell
    <3> QED BY <3>2 DEF Dropped
  <2>5. \A x \in Targets : Spare(g, x) = Spare(h, x) - One(Handle(r, FALSE), x)
    <3>1. Gains(h, g, r, FALSE, -1)
      BY <2>4
    <3> QED BY <3>1, Loss, ZenonT(60)
  <2>6. \A s \in DOMAIN g : s # r /\ SameBody(g[s], h[s]) /\ g[s].strong = h[s].strong
    BY <2>4 DEF SameBody
  <2> QED BY <1>8, <2>4, <2>5, <2>6 DEF GivenUp, g
<1>7. CASE c.strong + c.weak # 0
  <2>1. Settled(c)
    <3>1. c.strong > 0 <=> h[r].strong # 1
      BY <1>1, <1>2, <1>3
    <3>2. c.strong = 0 => c.vars = << >> /\ c.parent = NoScope
      BY <1>1, <1>2, <1>3 DEF SameBody
    <3> QED BY <1>3, <1>5, <1>7, <3>1, <3>2 DEF Settled
  <2>2. g = Update(h, r, c)
    BY <1>4, <1>7
  <2>3. c.strong = h[r].strong + (-1)
    BY <1>2, <1>3
  <2>4. /\ Sound(g, N) /\ DOMAIN g = DOMAIN h
        /\ g[r] = c /\ \A s \in DOMAIN h \ {r} : g[s] = h[s]
        /\ h[r].strong > 0 \/ c.strong = 0 => Keeps(h, g)
        /\ Gains(h, g, r, FALSE, -1)
    <3>1. Recounts(c, h[r], FALSE, -1)
      BY <1>3, <2>3 DEF Recounts
    <3>2. Recounted(N, h, g, r, c, FALSE, -1)
      BY <1>1, <1>3, <2>1, <2>2, <3>1, OneLess
    <3> QED BY <3>2 DEF Recounted
  <2>5. h[r].strong > 0
    BY <1>1, <1>2
  <2>6. \A x \in Targets : Spare(g, x) = Spare(h, x) - One(Handle(r, FALSE), x)
    <3>1. Gains(h, g, r, FALSE, -1)
      BY <2>4
    <3> QED BY <3>1, Loss, ZenonT(60)
  <2>7. \A s \in DOMAIN g : /\ SameBody(g[s], h[s])
                            /\ s # r => g[s].strong = h[s].strong
                            /\ s = r => g[s].strong = h[s].strong - 1
    BY <1>3, <2>4 DEF SameBody
  <2> QED BY <1>8, <2>4, <2>6, <2>7 DEF GivenUp, g
<1> QED BY <1>6, <1>7

(***************************************************************************)
(* What is owed: sequences of handles that are still to be given up.       *)
(***************************************************************************)
Loose == [target : References, weak : BOOLEAN]
Owed(owed, x) == Total([i \in DOMAIN owed |-> One(owed[i], x)])

LEMMA OwedType ==
    ASSUME NEW owed \in Seq(Loose), NEW x
    PROVE  Owed(owed, x) \in Nat
<1> DEFINE f == [i \in DOMAIN owed |-> One(owed[i], x)]
<1>1. IsFiniteSet(DOMAIN owed)
  <2>1. DOMAIN owed = 1 .. Len(owed) /\ Len(owed) \in Nat
    OBVIOUS
  <2> QED BY <2>1, FS_Interval
<1>2. f \in [DOMAIN owed -> Nat]
  BY OneType
<1> HIDE DEF f
<1>3. Total(f) \in Nat
  BY <1>1, <1>2, UnitsFinite
<1> QED BY <1>3 DEF Owed, f

LEMMA OwedNothing == \A x : Owed(<< >>, x) = 0
  BY TotalZero DEF Owed

LEMMA OwedTail ==
    ASSUME NEW owed \in Seq(Loose), owed # << >>, NEW x
    PROVE  Owed(owed, x) = Owed(Tail(owed), x) + One(Head(owed), x)
<1> DEFINE t == Tail(owed)
           n == Len(owed)
           f == [i \in DOMAIN owed |-> One(owed[i], x)]
           g == [i \in DOMAIN t |-> One(t[i], x)]
<1>1. n \in Nat /\ n > 0 /\ DOMAIN owed = 1 .. n /\ DOMAIN t = 1 .. n - 1
      /\ Head(owed) = owed[1] /\ \A i \in 1 .. n - 1 : t[i] = owed[i + 1]
  OBVIOUS
<1>2. f \in [1 .. n -> Nat] /\ g \in [1 .. n - 1 -> Nat]
  BY <1>1, OneType
<1>3. \A i \in 1 .. n - 1 : g[i] = f[i + 1]
  BY <1>1
<1>4. f[1] = One(Head(owed), x)
  BY <1>1
<1> HIDE DEF f, g
<1>5. Splits(f, g, 1)
  BY <1>1, <1>2, <1>3, TotalTail
<1>6. Total(f) = Total(g) + One(Head(owed), x)
  BY <1>4, <1>5 DEF Splits
<1> QED BY <1>6 DEF Owed, f, g

LEMMA OwedOther ==
    ASSUME NEW owed \in Seq(Loose), owed # << >>, NEW x, Head(owed) # x
    PROVE  Owed(Tail(owed), x) = Owed(owed, x)
<1>1. Tail(owed) \in Seq(Loose)
  OBVIOUS
<1>2. Owed(owed, x) = Owed(Tail(owed), x) + 0 /\ Owed(Tail(owed), x) \in Nat
  BY <1>1, OwedTail, OwedType DEF One
<1> QED BY <1>2

LEMMA OwedMore ==
    ASSUME NEW owed \in Seq(Loose), NEW a \in Loose, NEW x
    PROVE  /\ <<a>> \o owed \in Seq(Loose)
           /\ Owed(<<a>> \o owed, x) = Owed(owed, x) + One(a, x)
<1> DEFINE o == <<a>> \o owed
<1>1. o \in Seq(Loose) /\ o # << >> /\ Tail(o) = owed /\ Head(o) = a
  OBVIOUS
<1> HIDE DEF o
<1>2. Owed(o, x) = Owed(owed, x) + One(a, x)
  BY <1>1, OwedTail
<1> QED BY <1>1, <1>2 DEF o

LEMMA OwedTwo ==
    ASSUME NEW owed \in Seq(Loose), NEW a \in Loose, NEW b \in Loose, NEW x
    PROVE  /\ <<a, b>> \o owed \in Seq(Loose)
           /\ Owed(<<a, b>> \o owed, x) = Owed(owed, x) + One(a, x) + One(b, x)
<1>1. <<a, b>> \o owed = <<a>> \o (<<b>> \o owed)
  <2> DEFINE c == <<a>> \o <<b>>
             d == <<a, b>>
  <2>1. <<a>> \in Seq(Loose) /\ <<b>> \in Seq(Loose)
    OBVIOUS
  <2>2. c \in Seq(Loose) /\ Len(c) = 2 /\ c[1] = a /\ c[2] = b
    BY <2>1, ConcatProperties
  <2>3. d \in Seq(Loose) /\ Len(d) = 2 /\ d[1] = a /\ d[2] = b
    OBVIOUS
  <2> HIDE DEF c, d
  <2>4. \A i \in 1 .. 2 : c[i] = d[i]
    <3>1. \A i \in 1 .. 2 : i = 1 \/ i = 2
      OBVIOUS
    <3> QED BY <2>2, <2>3, <3>1
  <2>5. c = d
    BY <2>2, <2>3, <2>4, SeqEqual
  <2>6. (<<a>> \o <<b>>) \o owed = <<a>> \o (<<b>> \o owed)
    BY <2>1, ConcatAssociative
  <2>7. c \o owed = <<a>> \o (<<b>> \o owed)
    BY <2>6 DEF c
  <2>8. d \o owed = <<a>> \o (<<b>> \o owed)
    BY <2>5, <2>7
  <2> QED BY <2>8 DEF d
<1> DEFINE o == <<b>> \o owed
           p == <<a>> \o o
<1>2. o \in Seq(Loose) /\ Owed(o, x) = Owed(owed, x) + One(b, x)
  BY OwedMore
<1> HIDE DEF o
<1>3. p \in Seq(Loose) /\ Owed(p, x) = Owed(o, x) + One(a, x)
  BY <1>2, OwedMore
<1>4. Owed(owed, x) \in Nat /\ One(a, x) \in Nat /\ One(b, x) \in Nat
  BY OwedType, OneType
<1> HIDE DEF p
<1>5. Owed(p, x) = Owed(owed, x) + One(a, x) + One(b, x)
  BY <1>2, <1>3, <1>4
<1> QED BY <1>1, <1>3, <1>5 DEF p, o

LEMMA OwedFirst ==
    ASSUME NEW owed \in Seq(Loose), owed # << >>
    PROVE  /\ Head(owed) \in Loose /\ Tail(owed) \in Seq(Loose) /\ Len(Tail(owed)) = Len(owed) - 1
           /\ Owed(owed, Head(owed)) >= 1
<1>1. Head(owed) \in Loose /\ Tail(owed) \in Seq(Loose) /\ Len(Tail(owed)) = Len(owed) - 1
  OBVIOUS
<1>2. Owed(owed, Head(owed)) = Owed(Tail(owed), Head(owed)) + 1
  BY OwedTail DEF One
<1>3. Owed(Tail(owed), Head(owed)) \in Nat
  BY <1>1, OwedType
<1> QED BY <1>1, <1>2, <1>3

(***************************************************************************)
(* A step of FreeAll.                                                      *)
(***************************************************************************)
Net(h, o, x) == Spare(h, x) - Owed(o, x)
Backed(N, h, o) ==
    Sound(h, N) /\ o \in Seq(Loose) /\ \A x \in Targets : Net(h, o, x) >= 0

\* What is left of the scopes of f: those that are being emptied are owed.
Emptied(f, h, o) ==
    /\ DOMAIN h \subseteq DOMAIN f
    /\ \A r \in DOMAIN h : h[r].strong > 0 =>
           /\ f[r].strong > 0
           /\ SameBody(h[r], f[r]) \/ (h[r].strong = 1 /\ Owed(o, Handle(r, FALSE)) >= 1)

Size(h, o) == Len(o) + 3 * Cardinality(Contents(h))
Progress(N, h, o, k, p) ==
    /\ Backed(N, k, p) /\ \A x \in Targets : Net(k, p, x) = Net(h, o, x)
    /\ \A f : Emptied(f, h, o) => Emptied(f, k, p)
    /\ Size(k, p) < Size(h, o)

LEMMA NetType ==
    ASSUME NEW N, NEW h, Sound(h, N), NEW o \in Seq(Loose), NEW x \in Targets
    PROVE  Net(h, o, x) \in Int /\ Spare(h, x) \in Int /\ Owed(o, x) \in Nat
           /\ Net(h, o, x) = Spare(h, x) - Owed(o, x)
  BY SpareType, OwedType DEF Net

LEMMA BackedBy ==
    ASSUME NEW N, NEW h, Sound(h, N), NEW o \in Seq(Loose), NEW k, Sound(k, N), NEW p \in Seq(Loose),
           \A x \in Targets : Net(k, p, x) = Net(h, o, x), Backed(N, h, o)
    PROVE  Backed(N, k, p)
  BY DEF Backed

\* The first handle that is owed counts.
LEMMA OwedBacked ==
    ASSUME NEW N, NEW h, NEW o, Backed(N, h, o), o # << >>, Head(o).target # NoScope
    PROVE  /\ Head(o).target \in DOMAIN h /\ Head(o).weak \in BOOLEAN
           /\ Head(o) = Handle(Head(o).target, Head(o).weak) /\ Head(o) \in Targets
           /\ Refs(h, Head(o)) >= 1
<1>1. Sound(h, N) /\ o \in Seq(Loose)
  BY DEF Backed
<1>2. Head(o) \in Loose /\ Owed(o, Head(o)) >= 1
  BY <1>1, OwedFirst
<1>3. Head(o) \in Targets /\ Head(o).weak \in BOOLEAN /\ Head(o) = Handle(Head(o).target, Head(o).weak)
  BY <1>2 DEF Loose, Targets, References, Handle
<1>4. Net(h, o, Head(o)) >= 0 /\ Net(h, o, Head(o)) = Spare(h, Head(o)) - Owed(o, Head(o))
      /\ Spare(h, Head(o)) \in Int /\ Owed(o, Head(o)) \in Nat
  BY <1>1, <1>3, NetType DEF Backed
<1>5. Spare(h, Head(o)) >= 1
  BY <1>2, <1>4
<1>6. Spare(h, Head(o)) = Refs(h, Head(o)) - HeapHeld(h, Head(o))
      /\ Refs(h, Head(o)) \in Nat /\ HeapHeld(h, Head(o)) \in Nat
  BY <1>1, <1>3, SpareType
<1>7. Refs(h, Head(o)) >= 1
  BY <1>5, <1>6
<1>8. Head(o).target \in DOMAIN h
  BY <1>7 DEF Refs
<1> QED BY <1>3, <1>7, <1>8

Row(h, r) == {r} \X ((IF h[r].parent = NoScope THEN 1 ELSE 0) .. Len(h[r].vars))

LEMMA ContentsAre ==
    ASSUME NEW h, NEW q
    PROVE  q \in Contents(h) <=> \E r \in DOMAIN h : q \in Row(h, r)
  BY DEF Contents, Row

LEMMA ContentsFinite ==
    ASSUME NEW N, NEW h, Sound(h, N)
    PROVE  IsFiniteSet(Contents(h)) /\ Cardinality(Contents(h)) \in Nat
<1> DEFINE rows == [r \in DOMAIN h |-> Row(h, r)]
           R == {Row(h, r) : r \in DOMAIN h}
<1>1. IsFiniteSet(DOMAIN h)
  BY HeapsHave DEF Sound
<1>2. rows \in Surjection(DOMAIN h, R)
  <2>1. rows \in [DOMAIN h -> R] /\ \A r \in DOMAIN h : rows[r] = Row(h, r)
    OBVIOUS
  <2>2. \A T \in R : \E r \in DOMAIN h : T = Row(h, r)
    OBVIOUS
  <2> HIDE DEF rows, R
  <2> QED BY <2>1, <2>2 DEF Surjection
<1>3. IsFiniteSet(R)
  BY <1>1, <1>2, FS_Surjection
<1>4. \A T \in R : IsFiniteSet(T)
  <2> SUFFICES ASSUME NEW r \in DOMAIN h PROVE IsFiniteSet(Row(h, r))
    OBVIOUS
  <2>1. Len(h[r].vars) \in Nat
    BY SoundCell
  <2>2. \A a, b \in Int : IsFiniteSet(a .. b)
    BY FS_Interval
  <2>3. IsFiniteSet((IF h[r].parent = NoScope THEN 1 ELSE 0) .. Len(h[r].vars))
    BY <2>1, <2>2
  <2>4. IsFiniteSet({r})
    BY FS_Singleton
  <2> QED BY <2>3, <2>4, FS_Product DEF Row
<1>5. Contents(h) = UNION R
  BY DEF Contents, Row
<1>6. IsFiniteSet(Contents(h))
  BY <1>3, <1>4, <1>5, FS_UNION
<1> QED BY <1>6, FS_CardinalityType

LEMMA ContentsShrink ==
    ASSUME NEW N, NEW h, Sound(h, N), NEW k, Sound(k, N), DOMAIN k \subseteq DOMAIN h,
           \A r \in DOMAIN k : SameBody(k[r], h[r])
    PROVE  Cardinality(Contents(k)) <= Cardinality(Contents(h))
<1>1. \A r \in DOMAIN k : Row(k, r) = Row(h, r)
  BY DEF Row, SameBody
<1>2. Contents(k) \subseteq Contents(h)
  BY <1>1, ContentsAre
<1> QED BY <1>2, ContentsFinite, FS_Subset

LEMMA ContentsLess ==
    ASSUME NEW N, NEW h, Sound(h, N), NEW k, DOMAIN k = DOMAIN h, NEW r \in DOMAIN h,
           \A s \in DOMAIN h \ {r} : k[s] = h[s], NEW i,
           <<r, i>> \in Row(h, r), Row(k, r) = Row(h, r) \ {<<r, i>>}
    PROVE  Cardinality(Contents(k)) = Cardinality(Contents(h)) - 1
<1>1. \A s \in DOMAIN h \ {r} : Row(k, s) = Row(h, s)
  BY DEF Row
<1>2. \A s \in DOMAIN h \ {r} : <<r, i>> \notin Row(h, s)
  BY DEF Row
<1>3. Contents(k) = Contents(h) \ {<<r, i>>}
  <2>1. ASSUME NEW q \in Contents(k) PROVE q \in Contents(h) \ {<<r, i>>}
    <3>1. PICK s \in DOMAIN k : q \in Row(k, s)
      BY ContentsAre
    <3>2. q \in Row(h, s) /\ q # <<r, i>>
      BY <1>1, <1>2, <3>1
    <3> QED BY <3>2, ContentsAre
  <2>2. ASSUME NEW q \in Contents(h) \ {<<r, i>>} PROVE q \in Contents(k)
    <3>1. PICK s \in DOMAIN h : q \in Row(h, s)
      BY ContentsAre
    <3>2. q \in Row(k, s)
      BY <1>1, <3>1
    <3> QED BY <3>2, ContentsAre
  <2> QED BY <2>1, <2>2
<1>4. <<r, i>> \in Contents(h)
  BY ContentsAre
<1> QED BY <1>3, <1>4, ContentsFinite, FS_RemoveElement

\* A handle is given up whose scope stays or is empty.
LEMMA StepDrop ==
    ASSUME NEW N, NEW h, NEW o, Backed(N, h, o), o # << >>,
           NEW k, GivenUp(N, h, k, Head(o))
    PROVE  Progress(N, h, o, k, Tail(o))
<1> DEFINE p == Tail(o)
<1>1. Sound(h, N) /\ o \in Seq(Loose) /\ Sound(k, N) /\ DOMAIN k \subseteq DOMAIN h
  BY DEF Backed, GivenUp
<1>2. p \in Seq(Loose) /\ Len(p) = Len(o) - 1
  BY <1>1, OwedFirst
<1>3. \A x : Owed(o, x) = Owed(p, x) + One(Head(o), x)
  BY <1>1, OwedTail
<1> HIDE DEF p
<1>4. \A x \in Targets : Net(k, p, x) = Net(h, o, x)
  <2> TAKE x \in Targets
  <2>1. Spare(h, x) \in Int /\ Owed(p, x) \in Nat /\ One(Head(o), x) \in Nat
    BY <1>1, <1>2, NetType, OneType
  <2>2. Spare(k, x) = Spare(h, x) - One(Head(o), x) /\ Owed(o, x) = Owed(p, x) + One(Head(o), x)
    BY <1>3 DEF GivenUp
  <2> QED BY <2>1, <2>2 DEF Net
<1>5. Backed(N, k, p)
  BY <1>1, <1>2, <1>4, BackedBy
<1>6. ASSUME NEW f, Emptied(f, h, o) PROVE Emptied(f, k, p)
  <2> SUFFICES ASSUME NEW r \in DOMAIN k, k[r].strong > 0
               PROVE  /\ f[r].strong > 0
                      /\ SameBody(k[r], f[r]) \/ (k[r].strong = 1 /\ Owed(p, Handle(r, FALSE)) >= 1)
    BY <1>1, <1>6 DEF Emptied
  <2>1. r \in DOMAIN h /\ h[r].strong \in Nat /\ k[r].strong \in Nat /\ SameBody(k[r], h[r])
    BY <1>1, SoundCell DEF GivenUp
  <2>2. CASE Head(o) # Handle(r, FALSE)
    <3>1. k[r].strong = h[r].strong
      BY <2>2 DEF GivenUp
    <3>2. f[r].strong > 0 /\ (SameBody(h[r], f[r]) \/ (h[r].strong = 1 /\ Owed(o, Handle(r, FALSE)) >= 1))
      BY <1>6, <2>1, <3>1 DEF Emptied
    <3>3. Owed(p, Handle(r, FALSE)) = Owed(o, Handle(r, FALSE))
      BY <1>1, <2>2, OwedOther DEF p
    <3>4. CASE SameBody(h[r], f[r])
      BY <2>1, <3>2, <3>4 DEF SameBody
    <3>5. CASE h[r].strong = 1 /\ Owed(o, Handle(r, FALSE)) >= 1
      BY <3>1, <3>2, <3>3, <3>5
    <3> QED BY <3>2, <3>4, <3>5
  <2>3. CASE Head(o) = Handle(r, FALSE)
    <3>1. k[r].strong = h[r].strong - 1
      BY <2>3 DEF GivenUp
    <3>2. h[r].strong > 0 /\ h[r].strong # 1
      BY <2>1, <3>1
    <3>3. f[r].strong > 0 /\ SameBody(h[r], f[r])
      BY <1>6, <2>1, <3>2 DEF Emptied
    <3> QED BY <2>1, <3>3 DEF SameBody
  <2> QED BY <2>2, <2>3
<1>7. Size(k, p) < Size(h, o)
  <2>1. Cardinality(Contents(k)) <= Cardinality(Contents(h))
    <3>1. \A s \in DOMAIN k : SameBody(k[s], h[s])
      BY DEF GivenUp
    <3> QED BY <1>1, <3>1, ContentsShrink
  <2>2. Cardinality(Contents(k)) \in Nat /\ Cardinality(Contents(h)) \in Nat /\ Len(o) \in Nat
    BY <1>1, ContentsFinite
  <2> QED BY <1>2, <2>1, <2>2 DEF Size
<1> QED BY <1>4, <1>5, <1>6, <1>7 DEF Progress, p

\* Something that the last reference's scope holds is given up first.
LEMMA StepOpen ==
    ASSUME NEW N, NEW h, NEW o, Backed(N, h, o), NEW r \in DOMAIN h,
           h[r].strong = 1, Owed(o, Handle(r, FALSE)) >= 1,
           NEW k, Sound(k, N), DOMAIN k = DOMAIN h, k[r].strong = 1,
           \A s \in DOMAIN h \ {r} : k[s] = h[s],
           NEW p \in Seq(Loose),
           \A x : Owed(o, x) >= 1 => Owed(p, x) >= 1,
           \A x \in Targets : Net(k, p, x) = Net(h, o, x), Size(k, p) < Size(h, o)
    PROVE  Progress(N, h, o, k, p)
<1>1. Sound(h, N) /\ o \in Seq(Loose)
  BY DEF Backed
<1>2. Backed(N, k, p)
  BY <1>1, BackedBy
<1>3. ASSUME NEW f, Emptied(f, h, o) PROVE Emptied(f, k, p)
  <2> SUFFICES ASSUME NEW s \in DOMAIN k, k[s].strong > 0
               PROVE  /\ f[s].strong > 0
                      /\ SameBody(k[s], f[s]) \/ (k[s].strong = 1 /\ Owed(p, Handle(s, FALSE)) >= 1)
    BY <1>3 DEF Emptied
  <2>1. s \in DOMAIN h /\ h[s].strong > 0
    BY DEF Emptied
  <2>2. f[s].strong > 0 /\ (SameBody(h[s], f[s]) \/ (h[s].strong = 1 /\ Owed(o, Handle(s, FALSE)) >= 1))
    BY <1>3, <2>1 DEF Emptied
  <2>3. CASE s = r
    BY <2>2, <2>3
  <2>4. CASE s # r
    <3>1. k[s] = h[s]
      BY <2>4
    <3> QED BY <2>2, <3>1
  <2> QED BY <2>3, <2>4
<1> QED BY <1>2, <1>3 DEF Progress

LEMMA StepBinding ==
    ASSUME NEW N, NEW h, NEW o, Backed(N, h, o), o # << >>, NEW r \in DOMAIN h,
           Head(o) = Handle(r, FALSE), h[r].strong = 1, h[r].vars # << >>
    PROVE  Progress(N, h, o, Update(h, r, [h[r] EXCEPT !.vars = Tail(@)]),
                    HandlesOf(h[r].vars[1].value) \o o)
<1> DEFINE c == [h[r] EXCEPT !.vars = Tail(@)]
           k == Update(h, r, c)
           v == h[r].vars[1].value
           p == HandlesOf(v) \o o
<1>1. Sound(h, N) /\ o \in Seq(Loose)
  BY DEF Backed
<1>2. h[r] \in Cells(N) /\ Settled(h[r]) /\ h[r].vars \in Seq(Entries(N)) /\ h[r].strong \in Nat /\ h[r].weak \in Nat
  BY <1>1, SoundCell
<1>3. Tail(h[r].vars) \in Seq(Entries(N)) /\ Len(Tail(h[r].vars)) = Len(h[r].vars) - 1
      /\ h[r].vars[1] \in Entries(N) /\ Len(h[r].vars) \in Nat /\ Len(h[r].vars) > 0
  BY <1>2
<1>4. /\ c \in Cells(N) /\ c.strong = h[r].strong /\ c.weak = h[r].weak /\ c.mem = h[r].mem
      /\ c.parent = h[r].parent /\ c.weak_ref = h[r].weak_ref /\ c.vars = Tail(h[r].vars)
  BY <1>2, <1>3 DEF Cells
<1>5. Settled(c)
  BY <1>2, <1>4 DEF Settled
<1>6. v \in Values
  BY <1>3 DEF Entries, Proper
<1>7. ScopeHandle(v) \in Loose /\ OwnerHandle(v) \in Loose
  BY <1>6 DEF Values, ScopeHandle, OwnerHandle, Handle, Loose
<1>8. HandlesOf(v) = <<ScopeHandle(v), OwnerHandle(v)>>
  BY DEF HandlesOf
<1>9. p \in Seq(Loose) /\ Len(p) = Len(o) + 2
  <2>1. p \in Seq(Loose)
    BY <1>1, <1>7, <1>8, OwedTwo
  <2>2. HandlesOf(v) \in Seq(Loose) /\ Len(HandlesOf(v)) = 2
    BY <1>7, <1>8
  <2>3. Len(o) \in Nat
    BY <1>1
  <2>4. Len(HandlesOf(v) \o o) = Len(HandlesOf(v)) + Len(o)
    BY <1>1, <2>2, ConcatProperties
  <2> QED BY <2>1, <2>2, <2>3, <2>4
<1>10. \A x : Owed(p, x) = Owed(o, x) + HeldBy(v, x)
  <2> TAKE x
  <2>1. Owed(p, x) = Owed(o, x) + One(ScopeHandle(v), x) + One(OwnerHandle(v), x)
    BY <1>1, <1>7, <1>8, OwedTwo
  <2>2. Owed(o, x) \in Nat /\ One(ScopeHandle(v), x) \in Nat /\ One(OwnerHandle(v), x) \in Nat
    BY <1>1, OwedType, OneType
  <2> QED BY <2>1, <2>2 DEF HeldBy
<1> HIDE DEF c, p, v
<1>11. /\ Sound(k, N) /\ DOMAIN k = DOMAIN h
       /\ k[r] = c /\ \A s \in DOMAIN h \ {r} : k[s] = h[s]
       /\ \A x \in Targets : Spare(k, x) = Spare(h, x) + CellHeld(h[r], x) - CellHeld(c, x)
  BY <1>1, <1>4, <1>5, OtherBody
<1> HIDE DEF k
<1>12. \A x \in Targets : CellHeld(h[r], x) - CellHeld(c, x) = HeldBy(v, x)
  <2> TAKE x \in Targets
  <2>1. VarsHeld(c.vars, x) = VarsHeld(h[r].vars, x) - HeldBy(v, x)
    BY <1>2, <1>4, VarsHeldTail DEF v
  <2>2. VarsHeld(h[r].vars, x) \in Nat /\ HeldBy(v, x) \in Nat
        /\ One(Handle(h[r].parent, h[r].weak_ref), x) \in Nat
    BY <1>2, VarsHeldType, HeldByType, OneType
  <2> QED BY <1>4, <2>1, <2>2 DEF CellHeld
<1>13. \A x \in Targets : Net(k, p, x) = Net(h, o, x)
  <2> TAKE x \in Targets
  <2>1. Spare(h, x) \in Int /\ Owed(o, x) \in Nat /\ HeldBy(v, x) \in Nat
        /\ CellHeld(h[r], x) \in Nat /\ CellHeld(c, x) \in Nat
    BY <1>1, <1>2, <1>4, NetType, HeldByType, CellHeldType
  <2>2. Spare(k, x) = Spare(h, x) + CellHeld(h[r], x) - CellHeld(c, x)
    BY <1>11
  <2>3. Owed(p, x) = Owed(o, x) + HeldBy(v, x)
    BY <1>10
  <2>4. CellHeld(h[r], x) - CellHeld(c, x) = HeldBy(v, x)
    BY <1>12
  <2> QED BY <2>1, <2>2, <2>3, <2>4 DEF Net
<1>14. Size(k, p) < Size(h, o)
  <2> DEFINE n == Len(h[r].vars)
             a == IF h[r].parent = NoScope THEN 1 ELSE 0
  <2>1. Row(h, r) = {r} \X (a .. n) /\ Row(k, r) = {r} \X (a .. n - 1)
    BY <1>3, <1>4, <1>11 DEF Row
  <2>2. n \in Nat /\ n > 0 /\ a \in {0, 1}
    BY <1>3
  <2> HIDE DEF n, a
  <2>3. n \in a .. n /\ a .. n - 1 = (a .. n) \ {n}
    BY <2>2
  <2>4. <<r, n>> \in Row(h, r) /\ Row(k, r) = Row(h, r) \ {<<r, n>>}
    BY <2>1, <2>3
  <2>5. Cardinality(Contents(k)) = Cardinality(Contents(h)) - 1
    BY <1>1, <1>11, <2>4, ContentsLess
  <2>6. Cardinality(Contents(h)) \in Nat /\ Len(o) \in Nat
    BY <1>1, ContentsFinite
  <2> QED BY <1>9, <2>5, <2>6 DEF Size
<1>15. Owed(o, Handle(r, FALSE)) >= 1
  BY <1>1, OwedFirst
<1>16. \A x : Owed(o, x) >= 1 => Owed(p, x) >= 1
  <2> TAKE x
  <2>1. Owed(o, x) \in Nat /\ HeldBy(v, x) \in Nat /\ Owed(p, x) = Owed(o, x) + HeldBy(v, x)
    BY <1>1, <1>10, OwedType, HeldByType
  <2> QED BY <2>1
<1>17. Progress(N, h, o, k, p)
  BY <1>4, <1>9, <1>11, <1>13, <1>14, <1>15, <1>16, StepOpen
<1> QED BY <1>17 DEF k, p, c, v

LEMMA StepParent ==
    ASSUME NEW N, NEW h, NEW o, Backed(N, h, o), o # << >>, NEW r \in DOMAIN h,
           Head(o) = Handle(r, FALSE), h[r].strong = 1, h[r].parent # NoScope
    PROVE  Progress(N, h, o, Update(h, r, [h[r] EXCEPT !.parent = NoScope]),
                    <<Handle(h[r].parent, h[r].weak_ref)>> \o o)
<1> DEFINE c == [h[r] EXCEPT !.parent = NoScope]
           k == Update(h, r, c)
           a == Handle(h[r].parent, h[r].weak_ref)
           p == <<a>> \o o
<1>1. Sound(h, N) /\ o \in Seq(Loose)
  BY DEF Backed
<1>2. h[r] \in Cells(N) /\ Settled(h[r]) /\ h[r].vars \in Seq(Entries(N)) /\ h[r].strong \in Nat
      /\ h[r].weak \in Nat /\ h[r].parent \in References /\ h[r].weak_ref \in BOOLEAN
  BY <1>1, SoundCell
<1>3. /\ c \in Cells(N) /\ c.strong = h[r].strong /\ c.weak = h[r].weak /\ c.mem = h[r].mem
      /\ c.parent = NoScope /\ c.weak_ref = h[r].weak_ref /\ c.vars = h[r].vars
  BY <1>2 DEF Cells, References
<1>4. Settled(c)
  BY <1>2, <1>3 DEF Settled
<1>5. a \in Loose
  BY <1>2 DEF Handle, Loose
<1>6. p \in Seq(Loose) /\ \A x : Owed(p, x) = Owed(o, x) + One(a, x)
  BY <1>1, <1>5, OwedMore
<1>7. Len(p) = Len(o) + 1 /\ Len(o) \in Nat
  <2>1. <<a>> \in Seq(Loose) /\ Len(<<a>>) = 1 /\ Len(o) \in Nat
    BY <1>1, <1>5
  <2>2. Len(<<a>> \o o) = Len(<<a>>) + Len(o)
    BY <1>1, <2>1, ConcatProperties
  <2> QED BY <2>1, <2>2
<1> HIDE DEF c, p, a
<1>8. /\ Sound(k, N) /\ DOMAIN k = DOMAIN h
      /\ k[r] = c /\ \A s \in DOMAIN h \ {r} : k[s] = h[s]
      /\ \A x \in Targets : Spare(k, x) = Spare(h, x) + CellHeld(h[r], x) - CellHeld(c, x)
  BY <1>1, <1>3, <1>4, OtherBody
<1> HIDE DEF k
<1>9. \A x \in Targets : Net(k, p, x) = Net(h, o, x)
  <2> TAKE x \in Targets
  <2>1. One(Handle(NoScope, h[r].weak_ref), x) = 0
    <3>1. Handle(NoScope, h[r].weak_ref) # x
      BY DEF Handle, Targets, Scopes
    <3> QED BY <3>1 DEF One
  <2>2. CellHeld(h[r], x) = VarsHeld(h[r].vars, x) + One(a, x)
        /\ CellHeld(c, x) = VarsHeld(h[r].vars, x) + 0
    BY <1>3, <2>1 DEF CellHeld, a
  <2>3. Spare(h, x) \in Int /\ Owed(o, x) \in Nat /\ One(a, x) \in Nat /\ VarsHeld(h[r].vars, x) \in Nat
    BY <1>1, <1>2, NetType, OneType, VarsHeldType
  <2>4. Spare(k, x) = Spare(h, x) + CellHeld(h[r], x) - CellHeld(c, x)
    BY <1>8
  <2>5. Owed(p, x) = Owed(o, x) + One(a, x)
    BY <1>6
  <2> QED BY <2>2, <2>3, <2>4, <2>5 DEF Net
<1>10. \A x : Owed(o, x) >= 1 => Owed(p, x) >= 1
  <2> TAKE x
  <2>1. Owed(o, x) \in Nat /\ One(a, x) \in Nat /\ Owed(p, x) = Owed(o, x) + One(a, x)
    BY <1>1, <1>6, OwedType, OneType
  <2> QED BY <2>1
<1>11. Size(k, p) < Size(h, o)
  <2> DEFINE n == Len(h[r].vars)
  <2>1. Row(h, r) = {r} \X (0 .. n) /\ Row(k, r) = {r} \X (1 .. n)
    BY <1>3, <1>8 DEF Row
  <2>2. n \in Nat
    BY <1>2
  <2> HIDE DEF n
  <2>3. 0 \in 0 .. n /\ 1 .. n = (0 .. n) \ {0}
    BY <2>2
  <2>4. <<r, 0>> \in Row(h, r) /\ Row(k, r) = Row(h, r) \ {<<r, 0>>}
    BY <2>1, <2>3
  <2>5. Cardinality(Contents(k)) = Cardinality(Contents(h)) - 1
    BY <1>1, <1>8, <2>4, ContentsLess
  <2>6. Cardinality(Contents(h)) \in Nat
    BY <1>1, ContentsFinite
  <2> QED BY <1>7, <2>5, <2>6 DEF Size
<1>12. Owed(o, Handle(r, FALSE)) >= 1
  BY <1>1, OwedFirst
<1>13. Progress(N, h, o, k, p)
  BY <1>3, <1>6, <1>8, <1>9, <1>10, <1>11, <1>12, StepOpen
<1> QED BY <1>13 DEF k, p, c, a

\* What a step of FreeAll comes to.
Stepped(N, h, o, t) ==
    t = [heap |-> t.heap, owed |-> t.owed] /\ Progress(N, h, o, t.heap, t.owed)

LEMMA SteppedTo ==
    ASSUME NEW N, NEW h, NEW o, NEW k, NEW p, Progress(N, h, o, k, p)
    PROVE  Stepped(N, h, o, [heap |-> k, owed |-> p])
  BY DEF Stepped

LEMMA FreeStepLaw ==
    ASSUME NEW N, NEW h, NEW o, Backed(N, h, o), o # << >>
    PROVE  Stepped(N, h, o, FreeStep([heap |-> h, owed |-> o]))
<1> DEFINE s == [heap |-> h, owed |-> o]
           r == Head(o).target
           cell == At(h, r)
           t == FreeStep(s)
<1>1. Sound(h, N) /\ o \in Seq(Loose)
  BY DEF Backed
<1>2. Head(o) \in Loose /\ r \in References /\ Head(o).weak \in BOOLEAN
  BY <1>1, OwedFirst DEF Loose
<1>3. s.heap = h /\ s.owed = o
  OBVIOUS
<1> HIDE DEF s
<1> SUFFICES \E k, p : t = [heap |-> k, owed |-> p] /\ Progress(N, h, o, k, p)
  BY SteppedTo DEF s
<1>4. CASE r = NoScope
  <2>1. t = [s EXCEPT !.owed = Tail(o)]
    BY <1>3, <1>4 DEF FreeStep
  <2>2. t = [heap |-> h, owed |-> Tail(o)]
    BY <2>1 DEF s
  <2>3. \A x \in Targets : Spare(h, x) = Spare(h, x) - One(Head(o), x)
    <3> TAKE x \in Targets
    <3>1. Head(o) # x
      BY <1>4 DEF Targets, Scopes
    <3>2. Spare(h, x) \in Int /\ One(Head(o), x) = 0
      BY <1>1, <3>1, SpareType DEF One
    <3> QED BY <3>2
  <2>4. \A q \in DOMAIN h : SameBody(h[q], h[q]) /\ Head(o) # Handle(q, FALSE)
    <3> TAKE q \in DOMAIN h
    <3>1. q \in Scopes
      BY <1>1, SoundCell
    <3> QED BY <1>4, <3>1 DEF SameBody, Handle, Scopes
  <2>5. GivenUp(N, h, h, Head(o))
    BY <1>1, <2>3, <2>4 DEF GivenUp
  <2>6. Progress(N, h, o, h, Tail(o))
    BY <2>5, StepDrop
  <2> QED BY <2>2, <2>6
<1>5. CASE r # NoScope
  <2>1. /\ r \in DOMAIN h /\ Head(o) = Handle(r, Head(o).weak) /\ Head(o) \in Targets
        /\ Refs(h, Head(o)) >= 1
    BY <1>5, OwedBacked
  <2>2. cell = h[r]
    BY <2>1 DEF At
  <2>3. CASE Head(o).weak
    <3>1. t = [heap |-> ReleaseWeak(h, r), owed |-> Tail(o)]
      BY <1>3, <1>5, <2>3 DEF FreeStep
    <3>2. Head(o) = Handle(r, TRUE) /\ Refs(h, Handle(r, TRUE)) >= 1
      BY <1>2, <2>1, <2>3
    <3>3. GivenUp(N, h, ReleaseWeak(h, r), Handle(r, TRUE))
      BY <1>1, <3>2, ReleaseWeakLaw
    <3>4. Progress(N, h, o, ReleaseWeak(h, r), Tail(o))
      BY <3>2, <3>3, StepDrop, ZenonT(60)
    <3> QED BY <3>1, <3>4
  <2>4. CASE ~Head(o).weak
    <3>1. Head(o) = Handle(r, FALSE) /\ Refs(h, Handle(r, FALSE)) >= 1
      BY <1>2, <2>1, <2>4, ZenonT(60)
    <3>2. CASE h[r].strong = 1 /\ h[r].vars # << >>
      <4>1. t = [heap |-> Update(h, r, [h[r] EXCEPT !.vars = Tail(@)]),
                 owed |-> HandlesOf(h[r].vars[1].value) \o o]
        BY <1>3, <1>5, <2>2, <2>4, <3>2 DEF FreeStep
      <4>2. Progress(N, h, o, Update(h, r, [h[r] EXCEPT !.vars = Tail(@)]), HandlesOf(h[r].vars[1].value) \o o)
        BY <2>1, <3>1, <3>2, StepBinding
      <4> QED BY <4>1, <4>2
    <3>3. CASE h[r].strong = 1 /\ h[r].vars = << >> /\ h[r].parent # NoScope
      <4>1. t = [heap |-> Update(h, r, [h[r] EXCEPT !.parent = NoScope]),
                 owed |-> <<Handle(h[r].parent, h[r].weak_ref)>> \o o]
        BY <1>3, <1>5, <2>2, <2>4, <3>3 DEF FreeStep
      <4>2. Progress(N, h, o, Update(h, r, [h[r] EXCEPT !.parent = NoScope]),
                     <<Handle(h[r].parent, h[r].weak_ref)>> \o o)
        BY <2>1, <3>1, <3>3, StepParent
      <4> QED BY <4>1, <4>2
    <3>4. CASE h[r].strong = 1 => h[r].vars = << >> /\ h[r].parent = NoScope
      <4>1. t = [heap |-> ReleaseStrong(h, r), owed |-> Tail(o)]
        BY <1>3, <1>5, <2>2, <2>4, <3>4 DEF FreeStep
      <4>2. GivenUp(N, h, ReleaseStrong(h, r), Handle(r, FALSE))
        BY <1>1, <3>1, <3>4, ReleaseStrongLaw
      <4>3. Progress(N, h, o, ReleaseStrong(h, r), Tail(o))
        BY <3>1, <4>2, StepDrop
      <4> QED BY <4>1, <4>3
    <3> QED BY <3>2, <3>3, <3>4
  <2> QED BY <2>3, <2>4
<1> QED BY <1>4, <1>5

\* The states that FreeAll goes through.
FreeRun(h, owed) ==
    CHOOSE run : run = [n \in 0 .. Steps(h, owed) |->
        IF n = 0 THEN [heap |-> h, owed |-> owed]
        ELSE IF run[n - 1].owed = << >> THEN run[n - 1] ELSE FreeStep(run[n - 1])]

LEMMA FreeRunIs ==
    ASSUME NEW h, NEW owed, Steps(h, owed) \in Nat
    PROVE  /\ FreeAll(h, owed) = FreeRun(h, owed)[Steps(h, owed)].heap
           /\ FreeRun(h, owed)[0] = [heap |-> h, owed |-> owed]
           /\ \A n \in 1 .. Steps(h, owed) :
                  FreeRun(h, owed)[n] = IF FreeRun(h, owed)[n - 1].owed = << >> THEN FreeRun(h, owed)[n - 1]
                                        ELSE FreeStep(FreeRun(h, owed)[n - 1])
<1> DEFINE Next(s) == IF s.owed = << >> THEN s ELSE FreeStep(s)
           Step(d, n) == IF n = 0 THEN [heap |-> h, owed |-> owed] ELSE Next(d[n - 1])
           Exists(m) == \E d : d = [n \in 0 .. m |-> Step(d, n)]
           Failing == {m \in Nat : ~Exists(m)}
<1>1. PICK m \in Nat : m = Steps(h, owed)
  OBVIOUS
<1> HIDE DEF Next
<1>2. Exists(0)
  <2> DEFINE e == [n \in 0 .. 0 |-> [heap |-> h, owed |-> owed]]
  <2>1. e = [n \in 0 .. 0 |-> Step(e, n)]
    BY DEF Step
  <2> HIDE DEF Step, e
  <2> QED BY <2>1
<1>3. ASSUME NEW k \in Nat, Exists(k) PROVE Exists(k + 1)
  <2>1. PICK d : d = [n \in 0 .. k |-> Step(d, n)]
    BY <1>3
  <2> DEFINE e == [n \in 0 .. k + 1 |-> IF n = k + 1 THEN Step(d, n) ELSE d[n]]
  <2>2. ASSUME NEW n \in 0 .. k + 1 PROVE e[n] = Step(e, n)
    <3>1. CASE n = 0
      <4>1. d[0] = [heap |-> h, owed |-> owed]
        BY <2>1
      <4> QED BY <3>1, <4>1
    <3>2. CASE n # 0
      <4>1. n - 1 \in 0 .. k /\ e[n - 1] = d[n - 1]
        BY <3>2
      <4>2. Step(e, n) = Step(d, n)
        BY <3>2, <4>1
      <4>3. n # k + 1 => d[n] = Step(d, n)
        BY <2>1
      <4> QED BY <4>2, <4>3
    <3> QED BY <3>1, <3>2
  <2> HIDE DEF Step
  <2>3. e = [n \in 0 .. k + 1 |-> Step(e, n)]
    BY <2>2
  <2> HIDE DEF e
  <2> QED BY <2>3
<1> HIDE DEF Exists
<1>4. Failing = {}
  <2> SUFFICES ASSUME Failing # {} PROVE FALSE
    OBVIOUS
  <2>1. PICK k \in Failing : \A j \in Failing : k <= j
    BY Smallest
  <2>2. k # 0 /\ k - 1 \in Nat
    BY <1>2, <2>1
  <2>3. Exists(k - 1)
    BY <2>1, <2>2
  <2> QED BY <1>3, <2>1, <2>2, <2>3
<1>5. Exists(m)
  BY <1>4
<1> DEFINE run == FreeRun(h, owed)
<1>6. run = CHOOSE d : d = [n \in 0 .. m |-> Step(d, n)]
  BY <1>1 DEF FreeRun, Next
<1>7. FreeAll(h, owed) = run[m].heap
  BY <1>1, <1>6 DEF FreeAll, Next
<1> HIDE DEF run
<1>8. run = [n \in 0 .. m |-> Step(run, n)]
  <2> HIDE DEF Step
  <2> QED BY <1>5, <1>6 DEF Exists
<1> HIDE DEF Step
<1>9. \A n \in 0 .. m : run[n] = Step(run, n)
  BY <1>8
<1>10. run[0] = [heap |-> h, owed |-> owed] /\ \A n \in 1 .. m : run[n] = Next(run[n - 1])
  BY <1>9 DEF Step
<1> QED BY <1>1, <1>7, <1>10 DEF run, Next

\* Nothing is freed but what is owed, and all of it.
Frees(N, h, g, o) ==
    /\ Sound(g, N) /\ DOMAIN g \subseteq DOMAIN h /\ Keeps(h, g)
    /\ \A x \in Targets : Spare(g, x) = Spare(h, x) - Owed(o, x)

\* snuk_scope_destroy ends, through whatever chains and cycles of scopes it goes, and
\* gives up the references that are owed and no other: what still has a strong
\* reference keeps its bindings and its parent.
THEOREM FreeAllLaw ==
    ASSUME NEW N, NEW h, NEW o, Backed(N, h, o)
    PROVE  Frees(N, h, FreeAll(h, o), o)
<1> DEFINE M == Size(h, o)
           run == FreeRun(h, o)
           Good(n) == /\ run[n] = [heap |-> run[n].heap, owed |-> run[n].owed]
                      /\ Backed(N, run[n].heap, run[n].owed)
                      /\ \A x \in Targets : Net(run[n].heap, run[n].owed, x) = Net(h, o, x)
                      /\ Emptied(h, run[n].heap, run[n].owed)
                      /\ run[n].owed = << >> \/ Size(run[n].heap, run[n].owed) + n <= M
           Failing == {n \in 0 .. M : ~Good(n)}
<1>1. Sound(h, N) /\ o \in Seq(Loose)
  BY DEF Backed
<1>2. \A k, p : Backed(N, k, p) => Size(k, p) \in Nat /\ Size(k, p) >= Len(p) /\ Len(p) \in Nat
  <2> TAKE k, p
  <2> HAVE Backed(N, k, p)
  <2>1. Cardinality(Contents(k)) \in Nat /\ Len(p) \in Nat
    BY ContentsFinite DEF Backed
  <2> QED BY <2>1 DEF Size
<1>3. M \in Nat /\ Steps(h, o) = M
  BY <1>2 DEF Size, Steps
<1>4. /\ FreeAll(h, o) = run[M].heap
      /\ run[0] = [heap |-> h, owed |-> o]
      /\ \A n \in 1 .. M : run[n] = IF run[n - 1].owed = << >> THEN run[n - 1] ELSE FreeStep(run[n - 1])
  BY <1>3, FreeRunIs
<1> HIDE DEF run, M
<1>5. Good(0)
  <2>1. run[0].heap = h /\ run[0].owed = o
    BY <1>4
  <2>2. Emptied(h, h, o)
    BY DEF Emptied, SameBody
  <2>3. Size(h, o) + 0 <= M
    BY <1>3 DEF M
  <2> QED BY <1>4, <2>1, <2>2, <2>3
<1>6. ASSUME NEW n \in 1 .. M, Good(n - 1) PROVE Good(n)
  <2>1. CASE run[n - 1].owed = << >>
    <3>1. run[n] = run[n - 1]
      BY <1>4, <2>1
    <3> QED BY <1>6, <2>1, <3>1
  <2>2. CASE run[n - 1].owed # << >>
    <3> DEFINE k == run[n - 1].heap
               p == run[n - 1].owed
               t == FreeStep([heap |-> k, owed |-> p])
    <3>1. run[n] = t
      BY <1>4, <1>6, <2>2
    <3>2. /\ Backed(N, k, p) /\ p # << >> /\ Emptied(h, k, p)
          /\ Size(k, p) + (n - 1) <= M
          /\ \A x \in Targets : Net(k, p, x) = Net(h, o, x)
      BY <1>6, <2>2
    <3>3. Stepped(N, k, p, t)
      BY <3>2, FreeStepLaw
    <3> HIDE DEF k, p, t
    <3>4. t = [heap |-> t.heap, owed |-> t.owed] /\ Progress(N, k, p, t.heap, t.owed)
      BY <3>3 DEF Stepped
    <3>5. Backed(N, t.heap, t.owed) /\ Emptied(h, t.heap, t.owed)
      BY <3>2, <3>4 DEF Progress
    <3>6. \A x \in Targets : Net(t.heap, t.owed, x) = Net(h, o, x)
      BY <3>2, <3>4 DEF Progress
    <3>7. Size(t.heap, t.owed) < Size(k, p)
      BY <3>4 DEF Progress
    <3>8. Size(t.heap, t.owed) \in Nat /\ Size(k, p) \in Nat
      BY <1>2, <3>2, <3>5
    <3>9. Size(t.heap, t.owed) + n <= M
      BY <1>3, <3>2, <3>7, <3>8
    <3> QED BY <3>1, <3>4, <3>5, <3>6, <3>9
  <2> QED BY <2>1, <2>2
<1> HIDE DEF Good
<1>7. Failing = {}
  <2> SUFFICES ASSUME Failing # {} PROVE FALSE
    OBVIOUS
  <2>1. Failing \in SUBSET Nat
    OBVIOUS
  <2>2. PICK n \in Failing : \A j \in Failing : n <= j
    BY <2>1, Smallest
  <2>3. n \in 1 .. M /\ n - 1 \in 0 .. M
    BY <1>3, <1>5, <2>2
  <2>4. Good(n - 1)
    BY <2>2, <2>3
  <2> QED BY <1>6, <2>2, <2>3, <2>4
<1>8. Good(M)
  BY <1>3, <1>7
<1> DEFINE g == run[M].heap
           q == run[M].owed
<1>9. /\ Backed(N, g, q) /\ Emptied(h, g, q) /\ (q = << >> \/ Size(g, q) + M <= M)
      /\ \A x \in Targets : Net(g, q, x) = Net(h, o, x)
  BY <1>8 DEF Good
<1> HIDE DEF g, q
<1>10. q = << >>
  <2>1. Size(g, q) \in Nat /\ Size(g, q) >= Len(q) /\ Len(q) \in Nat /\ q \in Seq(Loose)
    BY <1>2, <1>9 DEF Backed
  <2>2. CASE Size(g, q) + M <= M
    <3>1. Len(q) = 0
      BY <1>3, <2>1, <2>2
    <3> QED BY <2>1, <3>1
  <2> QED BY <1>9, <2>2
<1>11. \A x : Owed(q, x) = 0 /\ ~(Owed(q, x) >= 1)
  <2> TAKE x
  <2>1. Owed(q, x) = 0
    BY <1>10, OwedNothing
  <2> QED BY <2>1
<1>12. Sound(g, N) /\ DOMAIN g \subseteq DOMAIN h
  BY <1>9 DEF Backed, Emptied
<1>13. Keeps(h, g)
  <2> SUFFICES ASSUME NEW r \in DOMAIN g, g[r].strong > 0
               PROVE  r \in DOMAIN h /\ h[r].strong > 0 /\ SameBody(g[r], h[r])
    BY DEF Keeps
  <2>1. ~(Owed(q, Handle(r, FALSE)) >= 1)
    BY <1>11
  <2> QED BY <1>9, <2>1 DEF Emptied
<1>14. \A x \in Targets : Spare(g, x) = Spare(h, x) - Owed(o, x)
  <2> TAKE x \in Targets
  <2>1. Net(g, q, x) = Net(h, o, x) /\ Owed(q, x) = 0
    BY <1>9, <1>11
  <2>2. Spare(g, x) \in Int /\ Spare(h, x) \in Int /\ Owed(o, x) \in Nat
    BY <1>1, <1>12, NetType, SpareType
  <2>3. Spare(g, x) - 0 = Spare(h, x) - Owed(o, x)
    BY <2>1 DEF Net
  <2> QED BY <2>2, <2>3
<1> QED BY <1>4, <1>12, <1>13, <1>14 DEF Frees, g


(***************************************************************************)
(* Giving up one reference, and those of a value.                          *)
(***************************************************************************)
\* g is h with less.
Lets(N, h, g) == Sound(g, N) /\ DOMAIN g \subseteq DOMAIN h /\ Keeps(h, g)

LEMMA OwedOne ==
    ASSUME NEW a \in Loose, NEW x
    PROVE  <<a>> \in Seq(Loose) /\ Owed(<<a>>, x) = One(a, x)
<1>1. << >> \in Seq(Loose) /\ <<a>> = <<a>> \o << >>
  OBVIOUS
<1>2. <<a>> \o << >> \in Seq(Loose) /\ Owed(<<a>> \o << >>, x) = Owed(<< >>, x) + One(a, x)
  BY <1>1, OwedMore
<1>3. Owed(<< >>, x) = 0 /\ One(a, x) \in Nat
  BY OwedNothing, OneType
<1> QED BY <1>1, <1>2, <1>3

LEMMA OwedPair ==
    ASSUME NEW a \in Loose, NEW b \in Loose, NEW x
    PROVE  <<a, b>> \in Seq(Loose) /\ Owed(<<a, b>>, x) = One(a, x) + One(b, x)
<1>1. <<b>> \in Seq(Loose) /\ Owed(<<b>>, x) = One(b, x)
  BY OwedOne
<1>2. <<a>> \o <<b>> \in Seq(Loose) /\ Owed(<<a>> \o <<b>>, x) = Owed(<<b>>, x) + One(a, x)
  BY <1>1, OwedMore
<1>3. <<a>> \o <<b>> = <<a, b>>
  <2> DEFINE c == <<a>> \o <<b>>
             d == <<a, b>>
  <2>1. <<a>> \in Seq(Loose) /\ <<b>> \in Seq(Loose)
    OBVIOUS
  <2>2. c \in Seq(Loose) /\ Len(c) = 2 /\ c[1] = a /\ c[2] = b
    BY <2>1, ConcatProperties
  <2>3. d \in Seq(Loose) /\ Len(d) = 2 /\ d[1] = a /\ d[2] = b
    OBVIOUS
  <2> HIDE DEF c, d
  <2>4. \A i \in 1 .. 2 : c[i] = d[i]
    <3>1. \A i \in 1 .. 2 : i = 1 \/ i = 2
      OBVIOUS
    <3> QED BY <2>2, <2>3, <3>1
  <2>5. c = d
    BY <2>2, <2>3, <2>4, SeqEqual
  <2> QED BY <2>5 DEF c, d
<1>4. One(a, x) \in Nat /\ One(b, x) \in Nat
  BY OneType
<1>5. <<a, b>> \in Seq(Loose)
  OBVIOUS
<1>6. Owed(<<a, b>>, x) = One(b, x) + One(a, x)
  BY <1>1, <1>2, <1>3, Zenon
<1> QED BY <1>4, <1>5, <1>6

LEMMA FreeOneLaw ==
    ASSUME NEW N, NEW h, Sound(h, N), NEW a \in Loose,
           \A x \in Targets : Spare(h, x) >= One(a, x)
    PROVE  /\ Lets(N, h, FreeAll(h, <<a>>))
           /\ \A x \in Targets : Spare(FreeAll(h, <<a>>), x) = Spare(h, x) - One(a, x)
<1>1. \A x : <<a>> \in Seq(Loose) /\ Owed(<<a>>, x) = One(a, x)
  BY OwedOne
<1> DEFINE o == <<a>>
<1> HIDE DEF o
<1>2. o \in Seq(Loose) /\ \A x : Owed(o, x) = One(a, x)
  BY <1>1 DEF o
<1>3. Backed(N, h, o)
  <2>1. \A x \in Targets : Net(h, o, x) >= 0
    <3> TAKE x \in Targets
    <3>1. Spare(h, x) \in Int /\ One(a, x) \in Nat /\ Spare(h, x) >= One(a, x)
      BY SpareType, OneType
    <3>2. Net(h, o, x) = Spare(h, x) - One(a, x)
      BY <1>2 DEF Net
    <3> QED BY <3>1, <3>2
  <2> QED BY <1>2, <2>1 DEF Backed
<1>4. Frees(N, h, FreeAll(h, o), o)
  BY <1>3, FreeAllLaw
<1>5. Lets(N, h, FreeAll(h, o)) /\ \A x \in Targets : Spare(FreeAll(h, o), x) = Spare(h, x) - One(a, x)
  BY <1>2, <1>4 DEF Frees, Lets
<1> QED BY <1>5 DEF o

LEMMA ReleaseLaw ==
    ASSUME NEW N, NEW h, Sound(h, N), NEW r \in References,
           \A x \in Targets : Spare(h, x) >= One(Handle(r, FALSE), x)
    PROVE  /\ Lets(N, h, Release(h, r))
           /\ \A x \in Targets : Spare(Release(h, r), x) = Spare(h, x) - One(Handle(r, FALSE), x)
<1>1. Handle(r, FALSE) \in Loose
  BY DEF Handle, Loose
<1> QED BY <1>1, FreeOneLaw DEF Release

LEMMA HandlesOfValue ==
    ASSUME NEW v \in Values
    PROVE  ScopeHandle(v) \in Loose /\ OwnerHandle(v) \in Loose
BY DEF Values, Loose, ScopeHandle, OwnerHandle, Handle

LEMMA ValueFreeLaw ==
    ASSUME NEW N, NEW h, Sound(h, N), NEW v \in Values,
           \A x \in Targets : Spare(h, x) >= HeldBy(v, x)
    PROVE  /\ Lets(N, h, ValueFree(h, v))
           /\ \A x \in Targets : Spare(ValueFree(h, v), x) = Spare(h, x) - HeldBy(v, x)
<1> DEFINE o == HandlesOf(v)
<1>1. o \in Seq(Loose) /\ \A x : Owed(o, x) = HeldBy(v, x)
  BY HandlesOfValue, OwedPair DEF HandlesOf, HeldBy
<1> HIDE DEF o
<1>2. Backed(N, h, o)
  <2>1. \A x \in Targets : Net(h, o, x) >= 0
    <3> TAKE x \in Targets
    <3>1. Spare(h, x) \in Int /\ HeldBy(v, x) \in Nat /\ Spare(h, x) >= HeldBy(v, x)
      BY SpareType, HeldByType
    <3>2. Net(h, o, x) = Spare(h, x) - HeldBy(v, x)
      BY <1>1 DEF Net
    <3> QED BY <3>1, <3>2
  <2> QED BY <1>1, <2>1 DEF Backed
<1>3. Frees(N, h, FreeAll(h, o), o)
  BY <1>2, FreeAllLaw
<1>4. ValueFree(h, v) = FreeAll(h, o)
  BY DEF ValueFree, o
<1> QED BY <1>1, <1>3, <1>4 DEF Frees, Lets

(***************************************************************************)
(* Taking a reference, and those of a value.                               *)
(***************************************************************************)
\* A copy of v can be taken: what it refers to is counted.
Vouched(h, v) == \A x \in Targets : HeldBy(v, x) >= 1 => Refs(h, x) >= 1

LEMMA SameBodiesItself == \A h : SameBodies(h, h)
BY DEF SameBodies, SameBody

LEMMA AddsOn ==
    ASSUME NEW N, NEW f, Sound(f, N), NEW g, Adds(N, f, g), NEW h, Adds(N, g, h)
    PROVE  Adds(N, f, h)
<1>1. Sound(h, N) /\ Keeps(f, h)
  BY KeepsOn DEF Adds
<1>2. SameBodies(f, h)
  BY DEF SameBodies, SameBody, Adds
<1>3. \A x \in Targets : Refs(h, x) >= Refs(f, x)
  <2> TAKE x \in Targets
  <2>1. Refs(h, x) >= Refs(g, x) /\ Refs(g, x) >= Refs(f, x) /\ Sound(g, N)
    BY DEF Adds
  <2>2. Refs(h, x) \in Nat /\ Refs(g, x) \in Nat /\ Refs(f, x) \in Nat
    BY <1>1, <2>1, SpareType
  <2> QED BY <2>1, <2>2
<1> QED BY <1>1, <1>2, <1>3 DEF Adds

LEMMA RetainHandleLaw ==
    ASSUME NEW N, NEW h, Sound(h, N), NEW a \in Loose,
           \A x \in Targets : One(a, x) >= 1 => Refs(h, x) >= 1
    PROVE  /\ Adds(N, h, RetainHandle(h, a))
           /\ \A x \in Targets : Spare(RetainHandle(h, a), x) = Spare(h, x) + One(a, x)
<1> DEFINE r == a.target
<1>1. a = Handle(r, a.weak) /\ r \in References /\ a.weak \in BOOLEAN /\ a.target = r
  BY DEF Loose, Handle
<1> HIDE DEF r
<1>2. CASE r = NoScope
  <2>1. RetainHandle(h, a) = h
    BY <1>1, <1>2 DEF RetainHandle
  <2>2. \A x \in Targets : One(a, x) = 0
    <3> TAKE x \in Targets
    <3>1. x.target # NoScope
      BY DEF Targets, Scopes
    <3>2. a # x
      BY <1>1, <1>2, <3>1
    <3> QED BY <3>2 DEF One
  <2>3. Adds(N, h, h)
    <3>1. \A x \in Targets : Refs(h, x) >= Refs(h, x)
      BY SpareType
    <3> QED BY <3>1, SameBodiesItself, KeepsItself DEF Adds
  <2>4. \A x \in Targets : Spare(h, x) = Spare(h, x) + One(a, x)
    <3> TAKE x \in Targets
    <3>1. Spare(h, x) \in Int /\ One(a, x) = 0
      BY <2>2, SpareType
    <3> QED BY <3>1
  <2> QED BY <2>1, <2>3, <2>4
<1>3. CASE r # NoScope
  <2>1. r \in Scopes /\ a \in Targets
    BY <1>1, <1>3 DEF References, Targets, Handle
  <2>2. Refs(h, a) >= 1
    BY <2>1 DEF One
  <2>3. CASE a.weak = TRUE
    <3>1. a = Handle(r, TRUE)
      BY <1>1, <2>3
    <3>2. r \in DOMAIN h
      BY <2>2, <3>1, Alive
    <3>3. RetainHandle(h, a) = RetainWeak(h, r)
      BY <1>1, <1>3, <2>3 DEF RetainHandle
    <3>4. Adds(N, h, RetainWeak(h, r))
      BY <3>2, RetainWeakLaw
    <3>5. \A x \in Targets : Spare(RetainWeak(h, r), x) = Spare(h, x) + One(Handle(r, TRUE), x)
      BY <3>2, RetainWeakLaw
    <3>6. \A x \in Targets : Spare(RetainWeak(h, r), x) = Spare(h, x) + One(a, x)
      BY <3>1, <3>5, Zenon
    <3> QED BY <3>3, <3>4, <3>6
  <2>4. CASE a.weak = FALSE
    <3>1. a = Handle(r, FALSE)
      BY <1>1, <2>4
    <3>2. Refs(h, Handle(r, FALSE)) >= 1
      BY <2>2, <3>1
    <3>3. RetainHandle(h, a) = Retain(h, r)
      BY <1>1, <1>3, <2>4 DEF RetainHandle
    <3>4. Adds(N, h, Retain(h, r))
      BY <3>2, RetainLaw
    <3>5. \A x \in Targets : Spare(Retain(h, r), x) = Spare(h, x) + One(Handle(r, FALSE), x)
      BY <3>2, RetainLaw, ZenonT(60)
    <3>6. \A x \in Targets : Spare(Retain(h, r), x) = Spare(h, x) + One(a, x)
      BY <3>1, <3>5, Zenon
    <3> QED BY <3>3, <3>4, <3>6
  <2> QED BY <1>1, <2>3, <2>4
<1> QED BY <1>2, <1>3

LEMMA ValueCopyLaw ==
    ASSUME NEW N, NEW h, Sound(h, N), NEW v \in Values, Vouched(h, v)
    PROVE  /\ Adds(N, h, ValueCopy(h, v))
           /\ \A x \in Targets : Spare(ValueCopy(h, v), x) = Spare(h, x) + HeldBy(v, x)
<1> DEFINE a == ScopeHandle(v)
           b == OwnerHandle(v)
           g == RetainHandle(h, a)
           k == RetainHandle(g, b)
<1>1. a \in Loose /\ b \in Loose
  BY HandlesOfValue
<1>2. \A x : HeldBy(v, x) = One(a, x) + One(b, x) /\ One(a, x) \in Nat /\ One(b, x) \in Nat
  BY OneType DEF HeldBy
<1>3. ValueCopy(h, v) = k
  BY DEF ValueCopy
<1> HIDE DEF a, b
<1>4. \A x \in Targets : One(a, x) >= 1 => Refs(h, x) >= 1
  <2> SUFFICES ASSUME NEW x \in Targets, One(a, x) >= 1 PROVE Refs(h, x) >= 1
    OBVIOUS
  <2>1. HeldBy(v, x) >= 1
    BY <1>2
  <2> QED BY <2>1 DEF Vouched
<1>5. Adds(N, h, g) /\ \A x \in Targets : Spare(g, x) = Spare(h, x) + One(a, x)
  BY <1>1, <1>4, RetainHandleLaw
<1> HIDE DEF g
<1>6. \A x \in Targets : One(b, x) >= 1 => Refs(g, x) >= 1
  <2> SUFFICES ASSUME NEW x \in Targets, One(b, x) >= 1 PROVE Refs(g, x) >= 1
    OBVIOUS
  <2>1. HeldBy(v, x) >= 1
    BY <1>2
  <2>2. Refs(h, x) >= 1 /\ Refs(g, x) >= Refs(h, x) /\ Sound(g, N)
    BY <1>5, <2>1 DEF Vouched, Adds
  <2>3. Refs(h, x) \in Nat /\ Refs(g, x) \in Nat
    BY <2>2, SpareType
  <2> QED BY <2>2, <2>3
<1>7. Sound(g, N)
  BY <1>5 DEF Adds
<1>8. Adds(N, g, k) /\ \A x \in Targets : Spare(k, x) = Spare(g, x) + One(b, x)
  BY <1>1, <1>6, <1>7, RetainHandleLaw
<1> HIDE DEF k
<1>9. \A x \in Targets : Spare(k, x) = Spare(h, x) + HeldBy(v, x)
  <2> TAKE x \in Targets
  <2>1. Spare(h, x) \in Int
    BY SpareType
  <2> QED BY <1>2, <1>5, <1>8, <2>1
<1> QED BY <1>3, <1>5, <1>8, <1>9, AddsOn

\* What someone holds, and what a binding holds, can be copied.
LEMMA HolderVouches ==
    ASSUME NEW N, NEW h, Sound(h, N), NEW v, \A x \in Targets : Spare(h, x) >= HeldBy(v, x)
    PROVE  Vouched(h, v)
<1> SUFFICES ASSUME NEW x \in Targets, HeldBy(v, x) >= 1 PROVE Refs(h, x) >= 1
  BY DEF Vouched
<1>1. Spare(h, x) = Refs(h, x) - HeapHeld(h, x) /\ Refs(h, x) \in Nat /\ HeapHeld(h, x) \in Nat
  BY SpareType
<1>2. HeldBy(v, x) \in Nat /\ Spare(h, x) >= HeldBy(v, x)
  BY HeldByType
<1> QED BY <1>1, <1>2

LEMMA BindingVouches ==
    ASSUME NEW N, NEW h, Sound(h, N), Covered(h), NEW r \in DOMAIN h, NEW i \in 1 .. Len(h[r].vars)
    PROVE  h[r].vars[i].value \in Proper /\ h[r].vars[i].name \in N /\ Vouched(h, h[r].vars[i].value)
<1> DEFINE s == h[r].vars
           v == s[i].value
<1>1. s \in Seq(Entries(N)) /\ i \in 1 .. Len(s) /\ h[r] \in Cells(N)
  BY SoundCell
<1>2. s[i] \in Entries(N)
  BY <1>1, ElementOfSeq
<1>3. v \in Proper /\ s[i].name \in N
  BY <1>2 DEF Entries
<1>4. Vouched(h, v)
  <2> SUFFICES ASSUME NEW x \in Targets, HeldBy(v, x) >= 1 PROVE Refs(h, x) >= 1
    BY DEF Vouched
  <2>1. h \in Heaps(N)
    BY DEF Sound
  <2>2. HeapHeld(h, x) >= CellHeld(h[r], x)
    BY <2>1, HeapHeldCovers
  <2>3. VarsHeld(s, x) >= HeldBy(v, x)
    BY <1>1, VarsHeldCovers
  <2>4. CellHeld(h[r], x) = VarsHeld(s, x) + One(Handle(h[r].parent, h[r].weak_ref), x)
    BY DEF CellHeld
  <2>5. One(Handle(h[r].parent, h[r].weak_ref), x) \in Nat /\ VarsHeld(s, x) \in Nat /\ HeldBy(v, x) \in Nat
    BY <1>1, OneType, VarsHeldType, HeldByType
  <2> HIDE DEF s, v
  <2>6. CellHeld(h[r], x) >= 1
    BY <2>3, <2>4, <2>5
  <2>7. HeapHeld(h, x) \in Nat /\ Refs(h, x) \in Nat /\ Spare(h, x) = Refs(h, x) - HeapHeld(h, x) /\ Spare(h, x) >= 0
    BY SpareType DEF Covered
  <2>8. CellHeld(h[r], x) \in Nat
    BY <1>1, CellHeldType
  <2> QED BY <2>2, <2>6, <2>7, <2>8
<1> QED BY <1>3, <1>4

\* What has a name in a scope.
LEMMA BoundValue ==
    ASSUME NEW N, NEW h, Sound(h, N), Covered(h), NEW r, NEW name, name \in Bound(h, r)
    PROVE  /\ r \in DOMAIN h /\ r \in Scopes
           /\ Binding(h, r, name) \in 1 .. Len(h[r].vars)
           /\ h[r].vars[Binding(h, r, name)].name = name
           /\ ValueOf(h, r, name) \in Proper /\ Vouched(h, ValueOf(h, r, name))
<1>1. r \in DOMAIN h /\ At(h, r) = h[r]
  <2> SUFFICES ASSUME r \notin DOMAIN h PROVE FALSE
    BY DEF At
  <2>1. At(h, r).vars = << >>
    BY DEF At, Freed, Cell
  <2> QED BY <2>1 DEF Bound
<1>2. \E i \in 1 .. Len(h[r].vars) : h[r].vars[i].name = name
  BY <1>1 DEF Bound
<1>3. Binding(h, r, name) \in 1 .. Len(h[r].vars) /\ h[r].vars[Binding(h, r, name)].name = name
  BY <1>2 DEF Binding
<1> DEFINE i == Binding(h, r, name)
<1> HIDE DEF i
<1>4. i \in 1 .. Len(h[r].vars)
  BY <1>3 DEF i
<1>5. h[r].vars[i].value \in Proper /\ Vouched(h, h[r].vars[i].value)
  BY <1>1, <1>4, BindingVouches
<1>6. r \in Scopes
  BY <1>1, SoundCell
<1> QED BY <1>1, <1>3, <1>5, <1>6 DEF ValueOf, i

(***************************************************************************)
(* Scopes and their bindings.                                              *)
(***************************************************************************)
\* While r is a scope, it does not hold its parent weakly.
Firm(h, r) == (r \in DOMAIN h /\ h[r].strong > 0) => h[r].weak_ref = FALSE

LEMMA KeepsFirm ==
    ASSUME NEW h, NEW g, Keeps(h, g), NEW r, Firm(h, r)
    PROVE  Firm(g, r)
BY DEF Firm, Keeps, SameBody

\* g is h with as many references to spare.
Even(N, h, g) ==
    /\ Sound(g, N) /\ DOMAIN g = DOMAIN h
    /\ \A x \in Targets : Spare(g, x) = Spare(h, x) /\ Refs(g, x) >= Refs(h, x)
    /\ \A r : Firm(h, r) => Firm(g, r)

LEMMA AddEnvLaw ==
    ASSUME NEW N, NEW h, Sound(h, N), NEW r, Refs(h, Handle(r, FALSE)) >= 1,
           NEW name \in N, NEW v \in Proper, Vouched(h, v)
    PROVE  Even(N, h, AddEnv(h, r, name, v))
<1> DEFINE k == ValueCopy(h, v)
           e == [name |-> name, value |-> v]
           c == [k[r] EXCEPT !.vars = Append(@, e)]
           g == Update(k, r, c)
<1>1. v \in Values /\ e \in Entries(N)
  BY DEF Proper, Entries
<1>2. Adds(N, h, k) /\ \A x \in Targets : Spare(k, x) = Spare(h, x) + HeldBy(v, x)
  BY <1>1, ValueCopyLaw
<1>3. r \in DOMAIN h /\ h[r].strong >= 1
  BY Alive
<1>4. r \in Scopes /\ Handle(r, FALSE) \in Targets
  BY <1>3, SoundCell, HandleHas
<1> HIDE DEF k
<1>5. Sound(k, N) /\ DOMAIN k = DOMAIN h /\ Refs(k, Handle(r, FALSE)) >= Refs(h, Handle(r, FALSE))
  BY <1>2, <1>4 DEF Adds, SameBodies
<1>6. Refs(k, Handle(r, FALSE)) >= 1
  <2> DEFINE a == Handle(r, FALSE)
  <2>1. a \in Targets /\ Refs(k, a) >= Refs(h, a) /\ Refs(h, a) >= 1
    BY <1>4, <1>5
  <2> HIDE DEF a
  <2>2. Refs(k, a) \in Nat /\ Refs(h, a) \in Nat
    BY <1>5, <2>1, SpareType
  <2>3. Refs(k, a) >= 1
    BY <2>1, <2>2
  <2> QED BY <2>3 DEF a
<1>7. r \in DOMAIN k /\ At(k, r) = k[r] /\ k[r].strong >= 1
  BY <1>5, <1>6, Alive
<1>8. k[r] \in Cells(N) /\ Settled(k[r]) /\ k[r].vars \in Seq(Entries(N)) /\ k[r].strong \in Nat
  BY <1>5, <1>7, SoundCell
<1>9. AddEnv(h, r, name, v) = g
  BY <1>7 DEF AddEnv, k
<1>10. Append(k[r].vars, e) \in Seq(Entries(N))
  BY <1>1, <1>8
<1> HIDE DEF e
<1>11. /\ c \in Cells(N) /\ c.strong = k[r].strong /\ c.weak = k[r].weak /\ c.mem = k[r].mem
       /\ c.parent = k[r].parent /\ c.weak_ref = k[r].weak_ref /\ c.vars = Append(k[r].vars, e)
  BY <1>8, <1>10 DEF Cells
<1> HIDE DEF c
<1>12. Settled(c)
  BY <1>7, <1>8, <1>11 DEF Settled
<1>13. /\ Sound(g, N) /\ DOMAIN g = DOMAIN k /\ g[r] = c /\ \A s \in DOMAIN k \ {r} : g[s] = k[s]
       /\ \A x \in Targets : Spare(g, x) = Spare(k, x) + CellHeld(k[r], x) - CellHeld(c, x)
  BY <1>5, <1>7, <1>11, <1>12, OtherBody
<1>14. \A x \in Targets : CellHeld(c, x) = CellHeld(k[r], x) + HeldBy(v, x)
  <2> TAKE x \in Targets
  <2>1. VarsHeld(c.vars, x) = VarsHeld(k[r].vars, x) + HeldBy(e.value, x)
    BY <1>8, <1>11, VarsHeldAppend
  <2>2. HeldBy(e.value, x) = HeldBy(v, x)
    BY DEF e
  <2>3. CellHeld(c, x) = VarsHeld(c.vars, x) + One(Handle(k[r].parent, k[r].weak_ref), x)
    BY <1>11 DEF CellHeld
  <2>4. CellHeld(k[r], x) = VarsHeld(k[r].vars, x) + One(Handle(k[r].parent, k[r].weak_ref), x)
    BY DEF CellHeld
  <2>5. VarsHeld(k[r].vars, x) \in Nat /\ HeldBy(v, x) \in Nat /\ One(Handle(k[r].parent, k[r].weak_ref), x) \in Nat
    BY <1>8, VarsHeldType, HeldByType, OneType
  <2> HIDE DEF g
  <2> QED BY <2>1, <2>2, <2>3, <2>4, <2>5
<1> HIDE DEF g
<1>15. \A x \in Targets : Spare(g, x) = Spare(h, x)
  <2> TAKE x \in Targets
  <2>1. Spare(g, x) = Spare(k, x) + CellHeld(k[r], x) - CellHeld(c, x) /\ Spare(k, x) = Spare(h, x) + HeldBy(v, x)
    BY <1>2, <1>13
  <2>2. CellHeld(c, x) = CellHeld(k[r], x) + HeldBy(v, x)
    BY <1>14
  <2>3. Spare(h, x) \in Int /\ HeldBy(v, x) \in Nat /\ CellHeld(k[r], x) \in Nat
    BY <1>8, SpareType, HeldByType, CellHeldType
  <2> QED BY <2>1, <2>2, <2>3
<1>16. \A x \in Targets : Refs(g, x) >= Refs(h, x)
  <2> TAKE x \in Targets
  <2>1. Refs(g, x) = Refs(k, x)
    BY <1>11, <1>13 DEF Refs
  <2>2. Refs(k, x) >= Refs(h, x)
    BY <1>2 DEF Adds
  <2> QED BY <2>1, <2>2
<1>17. \A s : Firm(h, s) => Firm(g, s)
  <2> TAKE s
  <2> HAVE Firm(h, s)
  <2>1. Firm(k, s)
    BY <1>2, KeepsFirm DEF Adds
  <2> QED BY <1>7, <1>11, <1>13, <2>1 DEF Firm
<1> QED BY <1>5, <1>9, <1>13, <1>15, <1>16, <1>17 DEF Even

\* A new scope with one reference; the reference to its parent is its own now.
LEMMA CreateLaw ==
    ASSUME NEW N, NEW h, Sound(h, N), NEW r \in Scopes, r \notin DOMAIN h, NEW parent \in References
    PROVE  LET g == Create(h, r, parent) IN
           /\ Sound(g, N) /\ DOMAIN g = DOMAIN h \cup {r} /\ g[r] = Cell(parent)
           /\ \A x \in Targets : Refs(g, x) >= Refs(h, x)
           /\ \A x \in Targets :
                  Spare(g, x) = Spare(h, x) + One(Handle(r, FALSE), x) - One(Handle(parent, FALSE), x)
           /\ \A s : Firm(h, s) => Firm(g, s)
<1> DEFINE c == Cell(parent)
           g == Update(h, r, c)
           a == Handle(r, FALSE)
           b == Handle(parent, FALSE)
<1>1. << >> \in Seq(Entries(N))
  OBVIOUS
<1>2. /\ c \in Cells(N) /\ c.strong = 1 /\ c.weak = 0 /\ c.vars = << >>
      /\ c.parent = parent /\ c.weak_ref = FALSE /\ c.mem = TRUE
  BY <1>1 DEF Cell, Cells
<1> HIDE DEF c
<1>3. Settled(c)
  BY <1>2 DEF Settled
<1>4. h \in Heaps(N)
  BY DEF Sound
<1>5. /\ g \in Heaps(N) /\ DOMAIN g = DOMAIN h \cup {r} /\ g[r] = c
      /\ \A s \in DOMAIN h : g[s] = h[s]
  <2>1. c \in Cells(N)
    BY <1>2
  <2>2. g \in Heaps(N)
    BY <1>4, <2>1, UpdateType
  <2>3. DOMAIN g = DOMAIN h \cup {r} /\ g[r] = c /\ \A s \in DOMAIN h : g[s] = h[s]
    BY DEF Update
  <2> QED BY <2>2, <2>3
<1>6. Sound(g, N)
  BY <1>3, <1>5 DEF Sound
<1>7. \A x \in Targets : HeapHeld(g, x) = HeapHeld(h, x) + One(b, x)
  <2> TAKE x \in Targets
  <2>1. HeapHeld(g, x) = HeapHeld(h, x) + CellHeld(c, x)
    BY <1>2, <1>4, HeldAfterNew
  <2>2. CellHeld(c, x) = 0 + One(b, x)
    BY <1>2, VarsHeldEmpty DEF CellHeld
  <2>3. One(b, x) \in Nat /\ HeapHeld(h, x) \in Nat
    BY OneType, SpareType
  <2> HIDE DEF g, b
  <2> QED BY <2>1, <2>2, <2>3
<1> HIDE DEF g
<1>8. \A x \in Targets : Refs(g, x) = Refs(h, x) + One(a, x)
  <2> TAKE x \in Targets
  <2>0. Refs(h, x) \in Nat
    BY SpareType
  <2>1. CASE x.target # r
    <3>1. Refs(g, x) = Refs(h, x)
      BY <1>5, <2>1 DEF Refs
    <3>2. One(a, x) = 0
      BY <2>1, HandleIs DEF One
    <3> HIDE DEF a
    <3> QED BY <2>0, <3>1, <3>2
  <2>2. CASE x.target = r /\ x.weak
    <3>1. Refs(g, x) = 0 /\ Refs(h, x) = 0
      BY <1>2, <1>5, <2>2 DEF Refs
    <3>2. One(a, x) = 0
      BY <2>2, HandleIs DEF One
    <3> HIDE DEF a
    <3> QED BY <3>1, <3>2
  <2>3. CASE x.target = r /\ ~x.weak
    <3>1. Refs(g, x) = 1 /\ Refs(h, x) = 0
      BY <1>2, <1>5, <2>3 DEF Refs
    <3>2. One(a, x) = 1
      BY <2>3, HandleIs DEF One
    <3> HIDE DEF a
    <3> QED BY <3>1, <3>2
  <2> QED BY <2>1, <2>2, <2>3
<1>9. \A x \in Targets : /\ Refs(g, x) >= Refs(h, x)
                       /\ Spare(g, x) = Spare(h, x) + One(a, x) - One(b, x)
  <2> TAKE x \in Targets
  <2> HIDE DEF a, b
  <2>1. One(a, x) \in Nat /\ One(b, x) \in Nat
    BY OneType
  <2>2. Refs(h, x) \in Nat /\ HeapHeld(h, x) \in Nat /\ Spare(h, x) = Refs(h, x) - HeapHeld(h, x)
    BY SpareType
  <2>3. Spare(g, x) = Refs(g, x) - HeapHeld(g, x)
    BY <1>6, SpareType
  <2>4. Refs(g, x) = Refs(h, x) + One(a, x) /\ HeapHeld(g, x) = HeapHeld(h, x) + One(b, x)
    BY <1>7, <1>8
  <2> QED BY <2>1, <2>2, <2>3, <2>4
<1>10. \A s : Firm(h, s) => Firm(g, s)
  BY <1>2, <1>5 DEF Firm
<1> QED BY <1>5, <1>6, <1>9, <1>10 DEF Create, g, c

LEMMA SameBinding ==
    ASSUME NEW h, NEW g, NEW r, NEW name, Len(g[r].vars) = Len(h[r].vars),
           \A i \in 1 .. Len(h[r].vars) : g[r].vars[i].name = h[r].vars[i].name
    PROVE  Binding(g, r, name) = Binding(h, r, name)
BY DEF Binding

\* Plain values hold nothing.
LEMMA PlainHolds ==
    /\ Plain \in Proper /\ Unknown \in Proper /\ Plain \in Values /\ Unknown \in Values
    /\ \A x \in Targets : HeldBy(Plain, x) = 0 /\ HeldBy(Unknown, x) = 0
<1>1. Plain \in Values /\ Unknown \in Values
  BY DEF Values, Plain, Unknown, Value, Kinds, References
<1>2. Plain \in Proper /\ Unknown \in Proper
  BY <1>1 DEF Proper, Plain, Unknown, Value
<1>3. ASSUME NEW x \in Targets, NEW v, v.scope = NoScope, v.owner = NoScope PROVE HeldBy(v, x) = 0
  <2>1. ScopeHandle(v).target = NoScope /\ OwnerHandle(v).target = NoScope
    BY <1>3 DEF ScopeHandle, OwnerHandle, Handle
  <2>2. x.target # NoScope
    BY DEF Targets, Scopes
  <2>3. ScopeHandle(v) # x /\ OwnerHandle(v) # x
    BY <2>1, <2>2
  <2>4. One(ScopeHandle(v), x) = 0 /\ One(OwnerHandle(v), x) = 0
    BY <2>3 DEF One
  <2> QED BY <2>4 DEF HeldBy
<1>4. Plain.scope = NoScope /\ Plain.owner = NoScope /\ Unknown.scope = NoScope /\ Unknown.owner = NoScope
  BY DEF Plain, Unknown, Value
<1>5. \A x \in Targets : HeldBy(Plain, x) = 0 /\ HeldBy(Unknown, x) = 0
  BY <1>3, <1>4
<1> QED BY <1>1, <1>2, <1>5

\* The binding i of r gets another value; what the old one held is to spare.
Rebind(h, r, i, v) == Update(h, r, [h[r] EXCEPT !.vars[i].value = v])
Rebound(N, h, g, r, i, v) ==
    /\ Sound(g, N) /\ DOMAIN g = DOMAIN h
    /\ g[r].mem = h[r].mem
    /\ Len(g[r].vars) = Len(h[r].vars)
    /\ \A j \in 1 .. Len(h[r].vars) : g[r].vars[j].name = h[r].vars[j].name
    /\ g[r].vars[i].value = v
    /\ \A x \in Targets : Spare(g, x) = Spare(h, x) + HeldBy(h[r].vars[i].value, x) - HeldBy(v, x)

LEMMA RebindLaw ==
    ASSUME NEW N, NEW h, Sound(h, N), NEW r \in DOMAIN h, NEW i \in 1 .. Len(h[r].vars), NEW v \in Proper
    PROVE  Rebound(N, h, Rebind(h, r, i, v), r, i, v)
<1> DEFINE c == [h[r] EXCEPT !.vars[i].value = v]
           s == h[r].vars
           t == [s EXCEPT ![i].value = v]
           g == Update(h, r, c)
<1>1. /\ h[r] \in Cells(N) /\ Settled(h[r]) /\ s \in Seq(Entries(N))
  BY SoundCell
<1>2. i \in 1 .. Len(s) /\ s[i] \in Entries(N)
  BY <1>1, ElementOfSeq
<1>3. /\ t \in Seq(Entries(N)) /\ Len(t) = Len(s) /\ t[i].value = v
      /\ \A j \in 1 .. Len(s) : t[j].name = s[j].name
  <2>1. [s[i] EXCEPT !.value = v] \in Entries(N) /\ [s[i] EXCEPT !.value = v].name = s[i].name
    BY <1>2 DEF Entries
  <2>2. t = [s EXCEPT ![i] = [s[i] EXCEPT !.value = v]]
    OBVIOUS
  <2>3. t \in Seq(Entries(N)) /\ Len(t) = Len(s)
    BY <1>1, <1>2, <2>1, <2>2, ExceptSeq
  <2>4. \A j \in 1 .. Len(s) : t[j] = IF j = i THEN [s[i] EXCEPT !.value = v] ELSE s[j]
    BY <1>1, <2>2
  <2>5. [s[i] EXCEPT !.value = v].value = v
    BY <1>2 DEF Entries
  <2> QED BY <1>2, <2>1, <2>3, <2>4, <2>5
<1>4. /\ c \in Cells(N) /\ c.vars = t /\ c.strong = h[r].strong /\ c.weak = h[r].weak /\ c.mem = h[r].mem
      /\ c.parent = h[r].parent /\ c.weak_ref = h[r].weak_ref
  <2>1. c = [h[r] EXCEPT !.vars = t]
    BY <1>1 DEF Cells
  <2> HIDE DEF c, t
  <2> QED BY <1>1, <1>3, <2>1 DEF Cells
<1>5. Settled(c)
  <2>1. h[r].vars # << >>
    BY <1>1, <1>2
  <2>2. h[r].strong # 0
    BY <1>1, <2>1 DEF Settled
  <2> HIDE DEF c
  <2> QED BY <1>1, <1>4, <2>2 DEF Settled
<1>6. /\ Sound(g, N) /\ DOMAIN g = DOMAIN h /\ g[r] = c
      /\ \A x \in Targets : Spare(g, x) = Spare(h, x) + CellHeld(h[r], x) - CellHeld(c, x)
  <2>1. c \in Cells(N) /\ c.strong = h[r].strong /\ c.weak = h[r].weak
    BY <1>4
  <2> HIDE DEF c
  <2> QED BY <1>5, <2>1, OtherBody
<1> HIDE DEF c, g
<1>7. \A x \in Targets : Spare(g, x) = Spare(h, x) + HeldBy(s[i].value, x) - HeldBy(v, x)
  <2> TAKE x \in Targets
  <2>1. VarsHeld(t, x) = VarsHeld(s, x) - HeldBy(s[i].value, x) + HeldBy(v, x)
    BY <1>1, <1>2, VarsHeldAssign
  <2> DEFINE p == One(Handle(h[r].parent, h[r].weak_ref), x)
  <2>2. CellHeld(c, x) = VarsHeld(t, x) + p
    BY <1>4 DEF CellHeld
  <2>3. CellHeld(h[r], x) = VarsHeld(s, x) + p
    BY DEF CellHeld
  <2>4. /\ VarsHeld(s, x) \in Nat /\ HeldBy(v, x) \in Nat /\ HeldBy(s[i].value, x) \in Nat
        /\ p \in Nat /\ Spare(h, x) \in Int
    BY <1>1, VarsHeldType, HeldByType, OneType, SpareType
  <2>5. Spare(g, x) = Spare(h, x) + CellHeld(h[r], x) - CellHeld(c, x)
    BY <1>6
  <2> HIDE DEF s, t, p
  <2> QED BY <2>1, <2>2, <2>3, <2>4, <2>5
<1>8. g[r].mem = h[r].mem /\ g[r].vars = t
  BY <1>4, <1>6
<1>9. g = Rebind(h, r, i, v)
  BY DEF g, c, Rebind
<1>10. Rebound(N, h, g, r, i, v)
  BY <1>3, <1>6, <1>7, <1>8 DEF Rebound
<1> QED BY <1>9, <1>10

LEMMA AssignLaw ==
    ASSUME NEW N, NEW h, Sound(h, N), Covered(h), NEW r, NEW name, name \in Bound(h, r),
           NEW v \in Proper, \A x \in Targets : Spare(h, x) >= HeldBy(v, x),
           ~AssignDestroys(h, r, name)
    PROVE  LET g == AssignValue(h, r, name, v) IN
           Sound(g, N) /\ \A x \in Targets : Spare(g, x) = Spare(h, x)
<1> DEFINE i == Binding(h, r, name)
           old == ValueOf(h, r, name)
           e == Rebind(h, r, i, Plain)
           f == Cleared(h, r, name)
           k == ValueCopy(f, v)
           g == AssignValue(h, r, name, v)
<1>1. /\ r \in DOMAIN h /\ i \in 1 .. Len(h[r].vars) /\ old \in Values
      /\ old = h[r].vars[i].value
  BY BoundValue DEF ValueOf, Proper
<1>2. Plain \in Proper /\ \A x \in Targets : HeldBy(Plain, x) = 0
  BY PlainHolds
<1>3. f = ValueFree(e, old)
  BY DEF Cleared, Rebind
<1> HIDE DEF i, e, f, old
<1>4. Rebound(N, h, e, r, i, Plain)
  BY <1>1, <1>2, RebindLaw DEF e
<1>5. \A x \in Targets : Spare(e, x) = Spare(h, x) + HeldBy(old, x)
  <2> TAKE x \in Targets
  <2>1. Spare(h, x) \in Int /\ HeldBy(old, x) \in Nat
    BY SpareType, HeldByType
  <2>2. Spare(e, x) = Spare(h, x) + HeldBy(old, x) - 0
    BY <1>1, <1>2, <1>4 DEF Rebound
  <2> QED BY <2>1, <2>2
<1>6. \A x \in Targets : Spare(e, x) >= HeldBy(old, x)
  <2> TAKE x \in Targets
  <2>1. Spare(h, x) \in Int /\ HeldBy(old, x) \in Nat /\ Spare(h, x) >= 0
    BY SpareType, HeldByType DEF Covered
  <2>2. Spare(e, x) = Spare(h, x) + HeldBy(old, x)
    BY <1>5
  <2> QED BY <2>1, <2>2
<1>7. Lets(N, e, f) /\ \A x \in Targets : Spare(f, x) = Spare(e, x) - HeldBy(old, x)
  BY <1>1, <1>3, <1>4, <1>6, ValueFreeLaw DEF Rebound
<1>8. \A x \in Targets : Spare(f, x) = Spare(h, x)
  <2> TAKE x \in Targets
  <2>1. Spare(h, x) \in Int /\ HeldBy(old, x) \in Nat
    BY SpareType, HeldByType
  <2>2. Spare(e, x) = Spare(h, x) + HeldBy(old, x) /\ Spare(f, x) = Spare(e, x) - HeldBy(old, x)
    BY <1>5, <1>7
  <2> QED BY <2>1, <2>2
<1>9. r \in DOMAIN f /\ f[r].strong > 0
  <2>1. At(f, r).mem = TRUE \/ At(f, r).mem # FALSE
    BY DEF AssignDestroys, f
  <2>2. r \in DOMAIN f
    BY <2>1 DEF At, Freed, Cell
  <2>3. f[r].strong \in Nat /\ Settled(f[r]) /\ f[r].mem \in BOOLEAN
    BY <1>7, <2>2, SoundCell DEF Lets
  <2>4. f[r].strong # 0
    BY <2>1, <2>2, <2>3 DEF At, Settled
  <2> QED BY <2>2, <2>3, <2>4
<1>10. f[r].vars = e[r].vars
  BY <1>7, <1>9 DEF Lets, Keeps, SameBody
<1>11. Vouched(f, v) /\ v \in Values /\ Sound(f, N)
  BY <1>7, <1>8, HolderVouches DEF Lets, Proper
<1>12. Adds(N, f, k) /\ \A x \in Targets : Spare(k, x) = Spare(f, x) + HeldBy(v, x)
  BY <1>11, ValueCopyLaw
<1>13. g = Update(k, r, [k[r] EXCEPT !.vars[Binding(k, r, name)].value = v])
  BY DEF AssignValue, f
<1> HIDE DEF k, g
<1>14. Sound(k, N) /\ r \in DOMAIN k /\ k[r].vars = e[r].vars
  BY <1>9, <1>10, <1>12 DEF Adds, SameBodies, SameBody
<1>15. Binding(k, r, name) = i
  <2>1. /\ Len(k[r].vars) = Len(h[r].vars)
        /\ \A j \in 1 .. Len(h[r].vars) : k[r].vars[j].name = h[r].vars[j].name
    BY <1>4, <1>14 DEF Rebound
  <2> QED BY <2>1, SameBinding DEF i
<1>16. /\ i \in 1 .. Len(k[r].vars) /\ k[r].vars[i].value = Plain
  BY <1>1, <1>4, <1>14 DEF Rebound
<1>17. g = Rebind(k, r, i, v)
  BY <1>13, <1>15 DEF Rebind
<1>18. Rebound(N, k, g, r, i, v)
  BY <1>14, <1>16, <1>17, RebindLaw
<1>19. \A x \in Targets : Spare(g, x) = Spare(h, x)
  <2> TAKE x \in Targets
  <2>1. Spare(h, x) \in Int /\ HeldBy(v, x) \in Nat
    BY SpareType, HeldByType
  <2>2. Spare(k, x) = Spare(h, x) + HeldBy(v, x)
    BY <1>8, <1>12
  <2>3. Spare(g, x) = Spare(k, x) + 0 - HeldBy(v, x)
    BY <1>2, <1>16, <1>18 DEF Rebound
  <2> QED BY <2>1, <2>2, <2>3
<1> QED BY <1>18, <1>19 DEF g, Rebound

LEMMA NobodyHolds ==
    ASSUME NEW b \in BOOLEAN, NEW x \in Targets
    PROVE  One(Handle(NoScope, b), x) = 0
<1>1. x.target # NoScope
  BY DEF Targets, Scopes
<1>2. Handle(NoScope, b).target = NoScope
  BY DEF Handle
<1> DEFINE a == Handle(NoScope, b)
<1> HIDE DEF a
<1>3. a # x
  BY <1>1, <1>2 DEF a
<1>4. One(a, x) = 0
  BY <1>3 DEF One
<1> QED BY <1>4 DEF a

\* A strong reference becomes a weak one.
LEMMA DowngradeLaw ==
    ASSUME NEW N, NEW h, Sound(h, N), NEW r \in DOMAIN h,
           \A x \in Targets : Spare(h, x) + One(Handle(r, TRUE), x) >= One(Handle(r, FALSE), x)
    PROVE  /\ Lets(N, h, Downgrade(h, r))
           /\ \A x \in Targets : Spare(Downgrade(h, r), x)
                                 = Spare(h, x) + One(Handle(r, TRUE), x) - One(Handle(r, FALSE), x)
<1> DEFINE k == RetainWeak(h, r)
           g == Release(k, r)
           a == Handle(r, FALSE)
           b == Handle(r, TRUE)
<1>1. Adds(N, h, k) /\ \A x \in Targets : Spare(k, x) = Spare(h, x) + One(b, x)
  BY RetainWeakLaw
<1>2. r \in References /\ Downgrade(h, r) = g
  BY SoundCell DEF References, Downgrade
<1> HIDE DEF k, a, b
<1>3. \A x \in Targets : Spare(k, x) >= One(a, x)
  <2> TAKE x \in Targets
  <2>1. Spare(h, x) + One(b, x) >= One(a, x)
    BY DEF a, b
  <2>2. Spare(h, x) \in Int /\ One(a, x) \in Nat /\ One(b, x) \in Nat
    BY SpareType, OneType
  <2> QED BY <1>1, <2>1, <2>2
<1>4. Sound(k, N)
  BY <1>1 DEF Adds
<1>5. Lets(N, k, g) /\ \A x \in Targets : Spare(g, x) = Spare(k, x) - One(a, x)
  BY <1>2, <1>3, <1>4, ReleaseLaw DEF a
<1> HIDE DEF g
<1>6. Lets(N, h, g)
  <2>1. Keeps(h, g)
    BY <1>1, <1>5, KeepsOn DEF Lets, Adds
  <2> QED BY <1>1, <1>5, <2>1 DEF Lets, Adds, SameBodies
<1>7. \A x \in Targets : Spare(g, x) = Spare(h, x) + One(b, x) - One(a, x)
  <2> TAKE x \in Targets
  <2>1. Spare(h, x) \in Int /\ One(a, x) \in Nat /\ One(b, x) \in Nat
    BY SpareType, OneType
  <2>2. Spare(g, x) = Spare(k, x) - One(a, x) /\ Spare(k, x) = Spare(h, x) + One(b, x)
    BY <1>1, <1>5
  <2> QED BY <2>1, <2>2
<1> QED BY <1>2, <1>6, <1>7 DEF a, b

\* A cell gets another parent.
Reparent(h, r, p, w) == Update(h, r, [h[r] EXCEPT !.parent = p, !.weak_ref = w])
Reparented(N, h, g, r, p, w) ==
    /\ Sound(g, N) /\ DOMAIN g = DOMAIN h
    /\ \A s \in DOMAIN h \ {r} : g[s] = h[s]
    /\ g[r].parent = p /\ g[r].weak_ref = w /\ g[r].strong = h[r].strong
    /\ \A x \in Targets : Spare(g, x) = Spare(h, x) + One(Handle(h[r].parent, h[r].weak_ref), x)
                                                   - One(Handle(p, w), x)

LEMMA ReparentLaw ==
    ASSUME NEW N, NEW h, Sound(h, N), NEW r \in DOMAIN h, NEW p \in References, NEW w, w \in BOOLEAN,
           h[r].strong > 0 \/ p = NoScope
    PROVE  Reparented(N, h, Reparent(h, r, p, w), r, p, w)
<1> DEFINE c == [h[r] EXCEPT !.parent = p, !.weak_ref = w]
           g == Update(h, r, c)
           a == Handle(h[r].parent, h[r].weak_ref)
           b == Handle(p, w)
<1>1. h[r] \in Cells(N) /\ Settled(h[r]) /\ h[r].vars \in Seq(Entries(N)) /\ h[r].strong \in Nat
  BY SoundCell
<1>2. /\ c \in Cells(N) /\ c.vars = h[r].vars /\ c.strong = h[r].strong /\ c.weak = h[r].weak
      /\ c.mem = h[r].mem /\ c.parent = p /\ c.weak_ref = w
  BY <1>1 DEF Cells
<1> HIDE DEF c
<1>3. Settled(c)
  BY <1>1, <1>2 DEF Settled
<1>4. /\ Sound(g, N) /\ DOMAIN g = DOMAIN h /\ g[r] = c /\ \A s \in DOMAIN h \ {r} : g[s] = h[s]
      /\ \A x \in Targets : Spare(g, x) = Spare(h, x) + CellHeld(h[r], x) - CellHeld(c, x)
  BY <1>2, <1>3, OtherBody
<1> HIDE DEF g
<1>5. \A x \in Targets : Spare(g, x) = Spare(h, x) + One(a, x) - One(b, x)
  <2> TAKE x \in Targets
  <2>1. CellHeld(h[r], x) = VarsHeld(h[r].vars, x) + One(a, x)
    BY DEF CellHeld
  <2>2. CellHeld(c, x) = VarsHeld(h[r].vars, x) + One(b, x)
    BY <1>2 DEF CellHeld
  <2> HIDE DEF a, b
  <2>3. VarsHeld(h[r].vars, x) \in Nat /\ One(a, x) \in Nat /\ One(b, x) \in Nat /\ Spare(h, x) \in Int
    BY <1>1, VarsHeldType, OneType, SpareType
  <2>4. Spare(g, x) = Spare(h, x) + CellHeld(h[r], x) - CellHeld(c, x)
    BY <1>4
  <2> QED BY <2>1, <2>2, <2>3, <2>4
<1>6. g = Reparent(h, r, p, w)
  BY DEF Reparent, g, c
<1>7. Reparented(N, h, g, r, p, w)
  BY <1>2, <1>4, <1>5 DEF Reparented, a, b
<1> QED BY <1>6, <1>7

LEMMA DowngradeParentLaw ==
    ASSUME NEW N, NEW h, Sound(h, N), Covered(h), NEW r \in DOMAIN h, Firm(h, r)
    PROVE  LET g == DowngradeParent(h, r) IN
           /\ Sound(g, N) /\ DOMAIN g \subseteq DOMAIN h
           /\ \A x \in Targets : Spare(g, x) = Spare(h, x)
           /\ \A s : s # r /\ Firm(h, s) => Firm(g, s)
<1> DEFINE p == h[r].parent
           f == Reparent(h, r, p, TRUE)
           a == Handle(p, FALSE)
           b == Handle(p, TRUE)
<1>1. /\ h[r] \in Cells(N) /\ Settled(h[r]) /\ h[r].strong \in Nat /\ p \in References
      /\ h[r].weak_ref \in BOOLEAN
  BY SoundCell
<1>2. [h[r] EXCEPT !.weak_ref = TRUE] = [h[r] EXCEPT !.parent = p, !.weak_ref = TRUE]
  BY <1>1 DEF Cells
<1>3. DowngradeParent(h, r) = IF p = NoScope THEN f ELSE Downgrade(f, p)
  BY <1>2 DEF DowngradeParent, At, Reparent
<1>4. h[r].strong > 0 \/ p = NoScope
  BY <1>1 DEF Settled
<1>5. /\ Sound(f, N) /\ DOMAIN f = DOMAIN h
      /\ \A s \in DOMAIN h \ {r} : f[s] = h[s]
      /\ \A x \in Targets : Spare(f, x) = Spare(h, x) + One(Handle(h[r].parent, h[r].weak_ref), x) - One(b, x)
  <2>1. Reparented(N, h, f, r, p, TRUE)
    BY <1>1, <1>4, ReparentLaw
  <2> HIDE DEF f
  <2> QED BY <2>1 DEF Reparented
<1> HIDE DEF f
<1>6. \A s : s # r /\ Firm(h, s) => Firm(f, s)
  BY <1>5 DEF Firm
<1>7. CASE p = NoScope
  <2>1. \A x \in Targets : Spare(f, x) = Spare(h, x)
    <3> TAKE x \in Targets
    <3> DEFINE u == h[r].weak_ref
    <3>0. u \in BOOLEAN
      BY <1>1
    <3> HIDE DEF u
    <3>1. One(Handle(NoScope, u), x) = 0 /\ One(Handle(NoScope, TRUE), x) = 0
      BY <3>0, NobodyHolds
    <3>2. One(Handle(h[r].parent, h[r].weak_ref), x) = 0 /\ One(b, x) = 0
      BY <1>7, <3>1 DEF u
    <3>3. Spare(h, x) \in Int
      BY SpareType
    <3>4. Spare(f, x) = Spare(h, x) + One(Handle(h[r].parent, h[r].weak_ref), x) - One(b, x)
      BY <1>5
    <3> DEFINE m == One(Handle(h[r].parent, h[r].weak_ref), x)
               n == One(b, x)
    <3> HIDE DEF m, n
    <3>5. m = 0 /\ n = 0 /\ Spare(f, x) = Spare(h, x) + m - n
      BY <3>2, <3>4 DEF m, n
    <3> QED BY <3>3, <3>5
  <2> QED BY <1>3, <1>5, <1>6, <1>7, <2>1
<1>8. CASE p # NoScope
  <2> DEFINE g == Downgrade(f, p)
  <2>1. h[r].weak_ref = FALSE
    BY <1>4, <1>8 DEF Firm
  <2>2. \A x \in Targets : Spare(f, x) = Spare(h, x) + One(a, x) - One(b, x)
    BY <1>5, <2>1
  <2>3. p \in DOMAIN h
    <3>1. p \in Scopes /\ a \in Targets
      BY <1>1, <1>8, HandleHas DEF References
    <3>2. h \in Heaps(N)
      BY DEF Sound
    <3>3. HeapHeld(h, a) >= CellHeld(h[r], a)
      BY <3>2, HeapHeldCovers
    <3>4. CellHeld(h[r], a) = VarsHeld(h[r].vars, a) + 1
      BY <2>1 DEF CellHeld, One
    <3>5. VarsHeld(h[r].vars, a) \in Nat /\ CellHeld(h[r], a) \in Nat
      BY SoundCell, VarsHeldType, CellHeldType
    <3> HIDE DEF a
    <3>6. Refs(h, a) \in Nat /\ HeapHeld(h, a) \in Nat /\ Spare(h, a) = Refs(h, a) - HeapHeld(h, a) /\ Spare(h, a) >= 0
      BY <3>1, SpareType DEF Covered
    <3>7. Refs(h, a) >= 1
      BY <3>3, <3>4, <3>5, <3>6
    <3> QED BY <3>7, Alive DEF a
  <2>4. p \in DOMAIN f
    BY <1>5, <2>3
  <2> HIDE DEF a, b, p
  <2>5. \A x \in Targets : Spare(f, x) + One(b, x) >= One(a, x)
    <3> TAKE x \in Targets
    <3>1. Spare(h, x) \in Int /\ One(a, x) \in Nat /\ One(b, x) \in Nat /\ Spare(h, x) >= 0
      BY SpareType, OneType DEF Covered
    <3> QED BY <2>2, <3>1
  <2>6. /\ Lets(N, f, g)
        /\ \A x \in Targets : Spare(g, x) = Spare(f, x) + One(b, x) - One(a, x)
    BY <1>5, <2>4, <2>5, DowngradeLaw DEF a, b
  <2> HIDE DEF g
  <2>7. \A x \in Targets : Spare(g, x) = Spare(h, x)
    <3> TAKE x \in Targets
    <3>1. Spare(h, x) \in Int /\ One(a, x) \in Nat /\ One(b, x) \in Nat
      BY SpareType, OneType
    <3>2. Spare(f, x) = Spare(h, x) + One(a, x) - One(b, x) /\ Spare(g, x) = Spare(f, x) + One(b, x) - One(a, x)
      BY <2>2, <2>6
    <3> QED BY <3>1, <3>2
  <2>8. \A s : s # r /\ Firm(h, s) => Firm(g, s)
    BY <1>6, <2>6, KeepsFirm DEF Lets
  <2>9. DowngradeParent(h, r) = g
    BY <1>3, <1>8 DEF g
  <2> QED BY <1>5, <2>6, <2>7, <2>8, <2>9 DEF Lets
<1> QED BY <1>7, <1>8

LEMMA SetParentLaw ==
    ASSUME NEW N, NEW h, Sound(h, N), Covered(h), NEW r, Spare(h, Handle(r, FALSE)) >= 1, NEW p \in References,
           r \in Scopes
    PROVE  LET g == SetParent(h, r, p) IN
           /\ Sound(g, N)
           /\ \A x \in Targets : Spare(g, x) = Spare(h, x) - One(Handle(p, FALSE), x)
<1> DEFINE d == Reparent(h, r, NoScope, FALSE)
           q == Handle(h[r].parent, h[r].weak_ref)
           f == FreeAll(d, <<q>>)
           g == Reparent(f, r, p, FALSE)
           a == Handle(r, FALSE)
           b == Handle(p, FALSE)
<1>1. Refs(h, Handle(r, FALSE)) >= 1
  BY Backing
<1>2. r \in DOMAIN h /\ At(h, r) = h[r] /\ a \in Targets
  <2>1. r \in DOMAIN h /\ At(h, r) = h[r]
    BY <1>1, Alive
  <2>2. Handle(r, FALSE) \in Targets
    BY HandleHas
  <2> QED BY <2>1, <2>2
<1>3. h[r].parent \in References /\ h[r].weak_ref \in BOOLEAN
  BY <1>2, SoundCell
<1>4. q \in Loose
  BY <1>3 DEF Loose, Handle
<1>5. Reparented(N, h, d, r, NoScope, FALSE)
  <2>1. NoScope \in References /\ FALSE \in BOOLEAN
    BY DEF References
  <2> QED BY <1>2, <2>1, ReparentLaw
<1>6. SetParent(h, r, p) = Update(f, r, [At(f, r) EXCEPT !.parent = p])
  BY <1>2 DEF SetParent, Reparent
<1> HIDE DEF d, q, a
<1>7. Sound(d, N) /\ \A x \in Targets : Spare(d, x) = Spare(h, x) + One(q, x)
  <2>1. Sound(d, N)
    BY <1>5 DEF Reparented
  <2>2. ASSUME NEW x \in Targets PROVE Spare(d, x) = Spare(h, x) + One(q, x)
    <3> DEFINE n == One(Handle(NoScope, FALSE), x)
    <3>1. n = 0
      BY NobodyHolds
    <3> HIDE DEF n
    <3>2. Spare(d, x) = Spare(h, x) + One(q, x) - n
      BY <1>5 DEF Reparented, q, n
    <3>3. Spare(h, x) \in Int /\ One(q, x) \in Nat
      BY SpareType, OneType
    <3> QED BY <3>1, <3>2, <3>3
  <2> QED BY <2>1, <2>2
<1>8. \A x \in Targets : Spare(d, x) >= One(q, x)
  <2> TAKE x \in Targets
  <2>1. Spare(h, x) \in Int /\ One(q, x) \in Nat /\ Spare(h, x) >= 0
    BY SpareType, OneType DEF Covered
  <2> QED BY <1>7, <2>1
<1>9. Lets(N, d, f) /\ \A x \in Targets : Spare(f, x) = Spare(d, x) - One(q, x)
  BY <1>4, <1>7, <1>8, FreeOneLaw
<1> HIDE DEF f
<1>10. \A x \in Targets : Spare(f, x) = Spare(h, x)
  <2> TAKE x \in Targets
  <2>1. Spare(h, x) \in Int /\ One(q, x) \in Nat
    BY SpareType, OneType
  <2>2. Spare(f, x) = Spare(d, x) - One(q, x) /\ Spare(d, x) = Spare(h, x) + One(q, x)
    BY <1>7, <1>9
  <2> QED BY <2>1, <2>2
<1>11. Sound(f, N)
  BY <1>9 DEF Lets
<1>12. Refs(f, a) >= 1
  <2>1. Spare(f, a) >= 1
    BY <1>2, <1>10 DEF a
  <2> QED BY <1>11, <2>1, Backing DEF a
<1>13. r \in DOMAIN f /\ At(f, r) = f[r] /\ f[r].strong > 0
  <2>1. r \in DOMAIN f /\ At(f, r) = f[r] /\ f[r].strong >= 1
    BY <1>11, <1>12, Alive DEF a
  <2>2. f[r].strong \in Nat
    BY <1>11, <2>1, SoundCell
  <2> QED BY <2>1, <2>2
<1>14. f[r].parent = NoScope /\ f[r].weak_ref = FALSE
  <2>1. SameBody(f[r], d[r])
    BY <1>9, <1>13 DEF Lets, Keeps
  <2>2. d[r].parent = NoScope /\ d[r].weak_ref = FALSE
    BY <1>5 DEF Reparented
  <2> QED BY <2>1, <2>2 DEF SameBody
<1>15. SetParent(h, r, p) = g
  <2>1. f[r] \in Cells(N)
    BY <1>11, <1>13, SoundCell
  <2>2. [f[r] EXCEPT !.parent = p] = [f[r] EXCEPT !.parent = p, !.weak_ref = FALSE]
    BY <1>14, <2>1 DEF Cells
  <2> QED BY <1>6, <1>13, <2>2 DEF Reparent
<1>16. Reparented(N, f, g, r, p, FALSE)
  <2>1. FALSE \in BOOLEAN
    OBVIOUS
  <2> QED BY <1>11, <1>13, <2>1, ReparentLaw
<1> HIDE DEF g, b
<1>17. \A x \in Targets : Spare(g, x) = Spare(h, x) - One(b, x)
  <2> TAKE x \in Targets
  <2> DEFINE n == One(Handle(NoScope, FALSE), x)
  <2>1. n = 0
    BY NobodyHolds
  <2>2. Handle(f[r].parent, f[r].weak_ref) = Handle(NoScope, FALSE)
    BY <1>14
  <2> HIDE DEF n
  <2>3. Spare(g, x) = Spare(f, x) + n - One(b, x)
    BY <1>16, <2>2 DEF Reparented, b, n
  <2>4. Spare(f, x) = Spare(h, x) /\ Spare(h, x) \in Int /\ One(b, x) \in Nat
    BY <1>10, SpareType, OneType
  <2> QED BY <2>1, <2>3, <2>4
<1> QED BY <1>15, <1>16, <1>17 DEF b, Reparented

(***************************************************************************)
(* The number of a new counter is free.                                    *)
(***************************************************************************)
LEMMA FreshLaw ==
    ASSUME NEW N, NEW h, Sound(h, N)
    PROVE  FreshIn(h) \in Scopes /\ FreshIn(h) \notin DOMAIN h
<1> DEFINE n == Cardinality(DOMAIN h)
           free == (1 .. n + 1) \ DOMAIN h
<1>1. IsFiniteSet(DOMAIN h) /\ n \in Nat
  BY HeapsHave, FS_CardinalityType DEF Sound
<1>2. IsFiniteSet(1 .. n + 1) /\ Cardinality(1 .. n + 1) = n + 1
  <2>1. 1 \in Int /\ n + 1 \in Int /\ n + 1 >= 1
    BY <1>1
  <2>2. Cardinality(1 .. n + 1) = (n + 1) - 1 + 1 /\ IsFiniteSet(1 .. n + 1)
    BY <2>1, FS_Interval
  <2> QED BY <1>1, <2>2
<1> HIDE DEF n
<1>3. free # {}
  <2> SUFFICES ASSUME free = {} PROVE FALSE
    OBVIOUS
  <2>1. 1 .. n + 1 \subseteq DOMAIN h
    OBVIOUS
  <2>2. Cardinality(1 .. n + 1) <= Cardinality(DOMAIN h)
    BY <1>1, <2>1, FS_Subset
  <2> QED BY <1>1, <1>2, <2>2 DEF n
<1>4. free \in SUBSET Nat
  BY <1>1
<1>5. \E r \in free : \A s \in free : r <= s
  BY <1>3, <1>4, Smallest
<1>6. FreshIn(h) \in free
  <2>1. FreshIn(h) = CHOOSE r \in free : \A s \in free : r <= s
    BY DEF FreshIn, n
  <2> HIDE DEF free
  <2> QED BY <1>5, <2>1
<1> QED BY <1>1, <1>6 DEF Scopes, NoScope
=============================================================================
