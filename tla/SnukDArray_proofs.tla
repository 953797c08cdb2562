--------------------------- MODULE SnukDArray_proofs ---------------------------
(***************************************************************************)
(* Proofs about SnukDArray: for any number of pages, sizes of arenas and   *)
(* pages, arrays and elements, no two arrays ever share a cell, and pages  *)
(* are given back in the order they were taken.                            *)
(***************************************************************************)
EXTENDS SnukDArray, SequenceTheorems, TLAPS

(***************************************************************************)
(* The inductive invariant.  The pages: which arenas there are follows     *)
(* from the phase, and they are the last pages of the reservation.         *)
(***************************************************************************)
NoArena == DOMAIN mem = {} /\ reverse_committed_pages = 0

OneArena ==
    /\ DOMAIN mem = {"runtime"}
    /\ mem["runtime"] = TotalPages - PAGES["runtime"]
    /\ reverse_committed_pages = PAGES["runtime"]

TwoArenas ==
    /\ DOMAIN mem = Users
    /\ mem["runtime"] = TotalPages - PAGES["runtime"]
    /\ mem["interpreter"] = TotalPages - PAGES["runtime"] - PAGES["interpreter"]
    /\ reverse_committed_pages = PAGES["runtime"] + PAGES["interpreter"]

PagesInv ==
    /\ committed_pages \in Nat /\ reverse_committed_pages \in Nat
    /\ committed_pages + reverse_committed_pages <= TotalPages
    /\ \/ NoArena /\ phase \in {"main", "memory", "closed", "exit", "failed"}
       \/ OneArena /\ phase \in {"runtime", "closing", "failed"}
       \/ TwoArenas /\ phase \in {"running", "failed", "crashed"}

(***************************************************************************)
(* The arrays and the pending request.                                     *)
(***************************************************************************)
Contained == Elements \cup {Garbage}
SomeCells == UNION {[1 .. n -> Contained] : n \in Nat}
ArrayRecord ==
    [allocator : Allocators, base : Nat, capacity : Nat, size : Nat, cells : SomeCells]
WellFormed(array) ==
    /\ array \in ArrayRecord
    /\ array.size <= array.capacity
    /\ array.cells \in [1 .. array.capacity -> Contained]

OffsetOK == offset \in [Users -> Nat] /\ \A u \in Users : offset[u] <= ArenaSize(u)

ArraysInv ==
    /\ OffsetOK
    /\ DOMAIN arrays \subseteq Arrays
    /\ \A a \in DOMAIN arrays : WellFormed(arrays[a])
    /\ ArraysApart

\* A request leaves room for what is to be pushed, which is an element.
AnyRequest ==
    [array : Arrays, allocator : Allocators, capacity : Nat, element : Contained]
Fitting(req) ==
    req.array \in DOMAIN arrays =>
        /\ arrays[req.array].allocator = req.allocator
        /\ arrays[req.array].size < req.capacity
        /\ arrays[req.array].capacity <= req.capacity
        /\ req.element \in Elements

RequestInv ==
    \/ request = << >>
    \/ \E req \in AnyRequest : request = <<req>> /\ req.allocator = Heap /\ Fitting(req)

DArrayInv == PagesInv /\ ArraysInv /\ RequestInv

(***************************************************************************)
(* Arithmetic of pages and cells.                                          *)
(***************************************************************************)
\* More pages have at least as many cells.
LEMMA MorePages ==
    ASSUME NEW m \in Nat, NEW n \in Nat, m <= n
    PROVE  m * PageCells <= n * PageCells
BY DArrayAssumption

\* The cells behind some pages are those of the first ones and of the rest.
LEMMA PagesBehind ==
    ASSUME NEW m \in Nat, NEW n \in Nat
    PROVE  (m + n) * PageCells = m * PageCells + n * PageCells
BY DArrayAssumption

\* Pages are counted in cells by natural numbers.
LEMMA CellsOfPages ==
    ASSUME NEW n \in Nat
    PROVE  n * PageCells \in Nat
BY DArrayAssumption

(***************************************************************************)
(* What the operations make of an array.                                   *)
(***************************************************************************)
\* The cells of an array of some capacity are cells.
LEMMA CellsAreCells ==
    ASSUME NEW n \in Nat, NEW cells \in [1 .. n -> Contained]
    PROVE  cells \in SomeCells
BY DEF SomeCells

\* impl_snuk_darray_create returns an empty array of the capacity asked for.
LEMMA NewIsWellFormed ==
    ASSUME NEW allocator \in Allocators, NEW base \in Nat, NEW capacity \in Nat
    PROVE  LET array == New(allocator, base, capacity)
           IN /\ WellFormed(array)
              /\ array.allocator = allocator /\ array.base = base
              /\ array.capacity = capacity
<1> DEFINE cells == [i \in 1 .. capacity |-> Garbage]
<1>1. cells \in [1 .. capacity -> Contained] BY DEF Contained
<1>2. cells \in SomeCells BY <1>1, CellsAreCells
<1> HIDE DEF cells
<1>3. New(allocator, base, capacity)
        = [allocator |-> allocator, base |-> base, capacity |-> capacity, size |-> 0, cells |-> cells]
  BY DEF New, cells
<1> QED BY <1>1, <1>2, <1>3 DEF WellFormed, ArrayRecord

\* impl_snuk_darray_resize keeps what is in the array.
LEMMA ResizedIsWellFormed ==
    ASSUME NEW array, WellFormed(array), NEW base \in Nat, NEW capacity \in Nat,
           array.capacity <= capacity
    PROVE  LET new == Resized(array, base, capacity)
           IN /\ WellFormed(new)
              /\ new.allocator = array.allocator /\ new.base = base
              /\ new.capacity = capacity /\ new.size = array.size
<1> DEFINE cells == [i \in 1 .. capacity |->
                       IF i <= array.capacity THEN array.cells[i] ELSE Garbage]
<1>1. cells \in [1 .. capacity -> Contained]
  <2> SUFFICES ASSUME NEW i \in 1 .. capacity
               PROVE  (IF i <= array.capacity THEN array.cells[i] ELSE Garbage) \in Contained
    OBVIOUS
  <2>1. array.capacity \in Nat BY DEF WellFormed, ArrayRecord
  <2>2. CASE i <= array.capacity
    <3>1. i \in 1 .. array.capacity BY <2>1, <2>2
    <3> QED BY <3>1, <2>2 DEF WellFormed
  <2>3. CASE ~(i <= array.capacity) BY <2>3 DEF Contained
  <2> QED BY <2>2, <2>3
<1>2. cells \in SomeCells BY <1>1, CellsAreCells
<1> HIDE DEF cells
<1>3. Resized(array, base, capacity)
        = [array EXCEPT !.base = base, !.capacity = capacity, !.cells = cells]
  BY DEF Resized, cells
<1>4. array \in ArrayRecord BY DEF WellFormed
<1>5. Resized(array, base, capacity)
        = [allocator |-> array.allocator, base |-> base, capacity |-> capacity,
           size |-> array.size, cells |-> cells]
  BY <1>3, <1>4 DEF ArrayRecord
<1> QED BY <1>1, <1>2, <1>4, <1>5 DEF WellFormed, ArrayRecord

\* impl_snuk_darray_push writes one cell of an array that has room.
LEMMA PushedIsWellFormed ==
    ASSUME NEW array, WellFormed(array), array.size < array.capacity, NEW e \in Contained
    PROVE  LET new == Pushed(array, e)
           IN /\ WellFormed(new)
              /\ new.allocator = array.allocator /\ new.base = array.base
              /\ new.capacity = array.capacity
<1> DEFINE cells == [array.cells EXCEPT ![array.size + 1] = e]
<1>1. array.capacity \in Nat /\ array.size \in Nat BY DEF WellFormed, ArrayRecord
<1>2. cells \in [1 .. array.capacity -> Contained] BY <1>1 DEF WellFormed
<1>3. cells \in SomeCells BY <1>1, <1>2, CellsAreCells
<1>4. array \in ArrayRecord BY DEF WellFormed
<1>5. Pushed(array, e) = [array EXCEPT !.cells = cells, !.size = array.size + 1]
  BY DEF Pushed
<1> HIDE DEF cells
<1>6. Pushed(array, e)
        = [allocator |-> array.allocator, base |-> array.base, capacity |-> array.capacity,
           size |-> array.size + 1, cells |-> cells]
  BY <1>4, <1>5 DEF ArrayRecord
<1> QED BY <1>1, <1>2, <1>3, <1>4, <1>6 DEF WellFormed, ArrayRecord

\* Removing elements leaves an array well formed and where it is.
LEMMA ShrunkIsWellFormed ==
    ASSUME NEW array, WellFormed(array), NEW size \in 0 .. array.size,
           NEW cells \in [1 .. array.capacity -> Contained]
    PROVE  LET new == [array EXCEPT !.size = size, !.cells = cells]
           IN /\ WellFormed(new)
              /\ new.allocator = array.allocator /\ new.base = array.base
              /\ new.capacity = array.capacity
<1>1. array.capacity \in Nat /\ array.size \in Nat BY DEF WellFormed, ArrayRecord
<1>2. cells \in SomeCells BY <1>1, CellsAreCells
<1>3. array \in ArrayRecord BY DEF WellFormed
<1> DEFINE new == [array EXCEPT !.size = size, !.cells = cells]
<1>4. /\ new.allocator = array.allocator /\ new.base = array.base
      /\ new.capacity = array.capacity /\ new.size = size /\ new.cells = cells
  BY <1>3 DEF ArrayRecord
<1>5. size \in Nat /\ size <= array.capacity BY <1>1 DEF WellFormed
<1>6. new \in ArrayRecord BY <1>2, <1>3, <1>5 DEF ArrayRecord
<1> QED BY <1>4, <1>5, <1>6 DEF WellFormed

(***************************************************************************)
(* Where blocks are.                                                       *)
(***************************************************************************)
\* Located, with the pages and offsets as parameters.
Within(array, committed, arenas, used) ==
    LET end == array.base + BlockSize(array.capacity)
    IN IF array.allocator = Heap
       THEN end <= committed * PageCells
       ELSE /\ array.allocator \in DOMAIN arenas
            /\ arenas[array.allocator] * PageCells <= array.base
            /\ end <= arenas[array.allocator] * PageCells + used[array.allocator]

BlocksApart(array1, array2) ==
    Apart(array1.base, BlockSize(array1.capacity), array2.base, BlockSize(array2.capacity))

\* Arenas lie behind the pages of the general allocator and do not meet.
LEMMA ArenasApart ==
    ASSUME PagesInv
    PROVE  /\ committed_pages * PageCells \in Nat
           /\ \A u \in DOMAIN mem :
                /\ u \in Users
                /\ ArenaStart(u) \in Nat /\ ArenaSize(u) \in Nat
                /\ committed_pages * PageCells <= ArenaStart(u)
           /\ \A u, v \in DOMAIN mem :
                u # v => Apart(ArenaStart(u), ArenaSize(u), ArenaStart(v), ArenaSize(v))
<1> USE PagesAssumption
<1>1. \A u \in DOMAIN mem : u \in Users /\ mem[u] \in Nat /\ committed_pages <= mem[u]
  BY DEF PagesInv, NoArena, OneArena, TwoArenas, Users
<1>2. \A u \in Users : PAGES[u] \in Nat OBVIOUS
<1>3. committed_pages * PageCells \in Nat BY CellsOfPages DEF PagesInv
<1>4. \A u \in DOMAIN mem : ArenaStart(u) \in Nat /\ ArenaSize(u) \in Nat
  BY <1>1, <1>2, CellsOfPages DEF ArenaStart, ArenaSize
<1>5. \A u \in DOMAIN mem : committed_pages * PageCells <= ArenaStart(u)
  BY <1>1, MorePages DEF ArenaStart, PagesInv
<1>6. \A u, v \in DOMAIN mem :
        u # v => Apart(ArenaStart(u), ArenaSize(u), ArenaStart(v), ArenaSize(v))
  <2> SUFFICES ASSUME NEW u \in DOMAIN mem, NEW v \in DOMAIN mem, u # v
               PROVE  Apart(ArenaStart(u), ArenaSize(u), ArenaStart(v), ArenaSize(v))
    OBVIOUS
  <2>1. TwoArenas BY DEF PagesInv, NoArena, OneArena
  <2>2. {u, v} = {"runtime", "interpreter"} BY <2>1 DEF TwoArenas, Users
  <2>3. mem["interpreter"] + PAGES["interpreter"] = mem["runtime"]
    BY <2>1, <1>1, <1>2 DEF TwoArenas, Users
  <2>4. (mem["interpreter"] + PAGES["interpreter"]) * PageCells
          = ArenaStart("interpreter") + ArenaSize("interpreter")
    BY <2>1, <1>1, <1>2, PagesBehind DEF TwoArenas, Users, ArenaStart, ArenaSize
  <2>5. ArenaStart("interpreter") + ArenaSize("interpreter") = ArenaStart("runtime")
    BY <2>3, <2>4 DEF ArenaStart
  <2>6. ArenaStart("interpreter") + ArenaSize("interpreter") <= ArenaStart("runtime")
    BY <2>1, <2>5, <1>4 DEF TwoArenas, Users
  <2> QED BY <2>2, <2>6 DEF Apart
<1> QED BY <1>1, <1>3, <1>4, <1>5, <1>6

\* Located is Within, now and after a step.
LEMMA LocatedIsWithin ==
    /\ \A a \in DOMAIN arrays :
         Located(arrays[a]) <=> Within(arrays[a], committed_pages, mem, offset)
    /\ \A a \in DOMAIN arrays' :
         Located(arrays[a])' <=> Within(arrays'[a], committed_pages', mem', offset')
BY DEF Located, Within, ArenaStart

\* An array is put where no other one is.
LEMMA PlacedKeepsInv ==
    ASSUME PagesInv, ArraysInv, UNCHANGED pages, OffsetOK', \A u \in Users : offset[u] <= offset'[u],
           NEW a \in Arrays, NEW array, WellFormed(array), With(a, array),
           Within(array, committed_pages, mem, offset'),
           \A b \in DOMAIN arrays \ {a} : BlocksApart(array, arrays[b])
    PROVE  ArraysInv'
<1>1. /\ DOMAIN arrays' = DOMAIN arrays \cup {a}
      /\ arrays'[a] = array
      /\ \A b \in DOMAIN arrays \ {a} : arrays'[b] = arrays[b]
  BY DEF With
<1>2. DOMAIN arrays' \subseteq Arrays BY <1>1 DEF ArraysInv
<1>3. \A b \in DOMAIN arrays' : WellFormed(arrays'[b])
  BY <1>1 DEF ArraysInv
<1>4. \A b \in DOMAIN arrays' : Within(arrays'[b], committed_pages', mem', offset')
  <2> SUFFICES ASSUME NEW b \in DOMAIN arrays \ {a}
               PROVE  Within(arrays[b], committed_pages, mem, offset')
    BY <1>1 DEF pages
  <2>1. Within(arrays[b], committed_pages, mem, offset)
    BY LocatedIsWithin DEF ArraysInv, ArraysApart
  <2>2. arrays[b] \in ArrayRecord BY DEF ArraysInv, WellFormed
  <2>3. CASE arrays[b].allocator = Heap BY <2>1, <2>3 DEF Within
  <2>4. CASE arrays[b].allocator # Heap
    <3>1. arrays[b].allocator \in Users BY <2>2, <2>4 DEF ArrayRecord, Allocators
    <3>2. /\ offset[arrays[b].allocator] \in Nat /\ offset'[arrays[b].allocator] \in Nat
          /\ offset[arrays[b].allocator] <= offset'[arrays[b].allocator]
      BY <3>1 DEF ArraysInv, OffsetOK
    <3>3. arrays[b].base \in Nat /\ BlockSize(arrays[b].capacity) \in Nat
      BY <2>2 DEF ArrayRecord, BlockSize
    <3>4. ArenaStart(arrays[b].allocator) \in Nat BY <2>1, <2>4, ArenasApart DEF Within
    <3> QED BY <2>1, <2>4, <3>2, <3>3, <3>4 DEF Within, ArenaStart
  <2> QED BY <2>3, <2>4
<1>5. \A b, c \in DOMAIN arrays' : b # c => BlocksApart(arrays'[b], arrays'[c])
  <2> SUFFICES ASSUME NEW b \in DOMAIN arrays', NEW c \in DOMAIN arrays', b # c
               PROVE  BlocksApart(arrays'[b], arrays'[c])
    OBVIOUS
  <2>1. CASE b = a BY <2>1, <1>1
  <2>2. CASE c = a BY <2>2, <1>1 DEF BlocksApart, Apart
  <2>3. CASE b # a /\ c # a
    BY <2>3, <1>1 DEF ArraysInv, ArraysApart, BlocksApart, Block
  <2> QED BY <2>1, <2>2, <2>3
<1> QED BY <1>2, <1>3, <1>4, <1>5, LocatedIsWithin
         DEF ArraysInv, ArraysApart, BlocksApart, Block

\* An array is changed where it is.
LEMMA ChangedKeepsInv ==
    ASSUME PagesInv, ArraysInv, UNCHANGED <<pages, offset>>,
           NEW a \in DOMAIN arrays, NEW array, WellFormed(array), With(a, array),
           array.allocator = arrays[a].allocator, array.base = arrays[a].base,
           array.capacity = arrays[a].capacity
    PROVE  ArraysInv'
<1>1. a \in Arrays BY DEF ArraysInv
<1>2. OffsetOK' /\ \A u \in Users : offset[u] <= offset'[u]
  BY DEF ArraysInv, OffsetOK, ArenaSize
<1>3. Within(array, committed_pages, mem, offset')
  BY LocatedIsWithin DEF ArraysInv, ArraysApart, Within
<1>4. \A b \in DOMAIN arrays \ {a} : BlocksApart(array, arrays[b])
  BY DEF ArraysInv, ArraysApart, BlocksApart, Block
<1> QED BY <1>1, <1>2, <1>3, <1>4, PlacedKeepsInv

\* Arrays may go, and memory around the others may change, if they stay in it.
LEMMA RemainingKeepInv ==
    ASSUME ArraysInv, UNCHANGED offset, DOMAIN arrays' \subseteq DOMAIN arrays,
           \A b \in DOMAIN arrays' : arrays'[b] = arrays[b],
           \A b \in DOMAIN arrays' : Within(arrays[b], committed_pages', mem', offset)
    PROVE  ArraysInv'
<1>1. OffsetOK' BY DEF ArraysInv, OffsetOK, ArenaSize
<1>2. \A b \in DOMAIN arrays' : WellFormed(arrays'[b]) BY DEF ArraysInv
<1>3. \A b \in DOMAIN arrays' : Located(arrays[b])' BY LocatedIsWithin
<1>4. \A b, c \in DOMAIN arrays' : b # c => BlocksApart(arrays'[b], arrays'[c])
  BY DEF ArraysInv, ArraysApart, BlocksApart, Block
<1> QED BY <1>1, <1>2, <1>3, <1>4 DEF ArraysInv, ArraysApart, BlocksApart, Block

\* The block of a request becomes an array of the allocator and capacity asked for.
LEMMA PlaceMakesArray ==
    ASSUME ArraysInv, NEW req \in AnyRequest, Fitting(req), NEW base \in Nat, Place(req, base)
    PROVE  /\ UNCHANGED phase
           /\ \E array : /\ WellFormed(array) /\ With(req.array, array)
                         /\ array.allocator = req.allocator /\ array.base = base
                         /\ array.capacity = req.capacity
<1> USE DEF AnyRequest
<1>1. CASE req.array \in DOMAIN arrays
  <2> DEFINE old == arrays[req.array]
             resized == Resized(old, base, req.capacity)
  <2>1. WellFormed(old) BY <1>1 DEF ArraysInv
  <2>2. /\ WellFormed(resized) /\ resized.allocator = req.allocator
        /\ resized.base = base /\ resized.capacity = req.capacity
        /\ resized.size < resized.capacity
    BY <1>1, <2>1, ResizedIsWellFormed DEF Fitting
  <2>3. UNCHANGED phase /\ With(req.array, Pushed(resized, req.element))
    BY <1>1, <2>2 DEF Place, Store
  <2> HIDE DEF resized
  <2> QED BY <2>2, <2>3, PushedIsWellFormed
<1>2. CASE req.array \notin DOMAIN arrays
  <2>1. UNCHANGED phase /\ With(req.array, New(req.allocator, base, req.capacity))
    BY <1>2 DEF Place
  <2> QED BY <2>1, NewIsWellFormed
<1> QED BY <1>1, <1>2

\* Where the blocks of an arena and of the general allocator end.
LEMMA BlocksEnd ==
    ASSUME PagesInv, ArraysInv, NEW b \in DOMAIN arrays
    PROVE  /\ arrays[b].base \in Nat /\ BlockSize(arrays[b].capacity) \in Nat
           /\ arrays[b].allocator = Heap =>
                arrays[b].base + BlockSize(arrays[b].capacity) <= committed_pages * PageCells
           /\ arrays[b].allocator # Heap =>
                LET u == arrays[b].allocator
                IN /\ u \in DOMAIN mem /\ offset[u] \in Nat /\ offset[u] <= ArenaSize(u)
                   /\ ArenaStart(u) <= arrays[b].base
                   /\ arrays[b].base + BlockSize(arrays[b].capacity) <= ArenaStart(u) + offset[u]
<1>1. arrays[b] \in ArrayRecord BY DEF ArraysInv, WellFormed
<1>2. Within(arrays[b], committed_pages, mem, offset)
  BY LocatedIsWithin DEF ArraysInv, ArraysApart
<1>3. arrays[b].allocator # Heap => arrays[b].allocator \in Users
  BY <1>1 DEF ArrayRecord, Allocators
<1>4. \A u \in Users : offset[u] \in Nat /\ offset[u] <= ArenaSize(u)
  BY DEF ArraysInv, OffsetOK
<1>5. arrays[b].base \in Nat /\ BlockSize(arrays[b].capacity) \in Nat
  BY <1>1 DEF ArrayRecord, BlockSize
<1> QED BY <1>2, <1>3, <1>4, <1>5 DEF Within, ArenaStart

\* A block behind everything in its arena meets no other block.
LEMMA EndOfArenaIsFree ==
    ASSUME PagesInv, ArraysInv, NEW u \in DOMAIN mem, NEW size \in Nat,
           offset[u] + size <= ArenaSize(u), NEW b \in DOMAIN arrays
    PROVE  Apart(ArenaStart(u) + offset[u], size, arrays[b].base, BlockSize(arrays[b].capacity))
<1> DEFINE base == arrays[b].base
           length == BlockSize(arrays[b].capacity)
           v == arrays[b].allocator
<1>1. /\ base \in Nat /\ length \in Nat
      /\ v = Heap => base + length <= committed_pages * PageCells
      /\ v # Heap => /\ v \in DOMAIN mem /\ offset[v] \in Nat /\ offset[v] <= ArenaSize(v)
                     /\ ArenaStart(v) <= base
                     /\ base + length <= ArenaStart(v) + offset[v]
  BY BlocksEnd
<1>2. /\ committed_pages * PageCells \in Nat
      /\ ArenaStart(u) \in Nat /\ ArenaSize(u) \in Nat
      /\ committed_pages * PageCells <= ArenaStart(u)
      /\ offset[u] \in Nat
  BY ArenasApart DEF ArraysInv, OffsetOK
<1> HIDE DEF base, length, v
<1>3. Apart(ArenaStart(u) + offset[u], size, base, length)
  <2>1. CASE v = Heap BY <2>1, <1>1, <1>2 DEF Apart
  <2>2. CASE v = u /\ v # Heap BY <2>2, <1>1, <1>2 DEF Apart
  <2>3. CASE v # u /\ v # Heap
    <3>1. /\ ArenaStart(v) \in Nat /\ ArenaSize(v) \in Nat
          /\ \/ ArenaStart(u) + ArenaSize(u) <= ArenaStart(v)
             \/ ArenaStart(v) + ArenaSize(v) <= ArenaStart(u)
      BY <2>3, <1>1, ArenasApart DEF Apart
    <3> QED BY <2>3, <3>1, <1>1, <1>2 DEF Apart
  <2> QED BY <2>1, <2>2, <2>3
<1> QED BY <1>3 DEF base, length

\* runtime_alloc_fn and runtime_realloc_fn: the arena advances by the block.
LEMMA LinearKeepsInv ==
    ASSUME DArrayInv, request = << >>, phase = "running",
           NEW req \in AnyRequest, req.allocator # Heap, Fitting(req), LinearAllocate(req)
    PROVE  DArrayInv'
<1> DEFINE u == req.allocator
           size == BlockSize(req.capacity)
           base == ArenaStart(u) + offset[u]
<1>1. u \in Users /\ size \in Nat /\ req.array \in Arrays /\ req.capacity \in Nat
  BY DEF AnyRequest, Allocators, BlockSize
<1>2. PagesInv /\ ArraysInv /\ RequestInv BY DEF DArrayInv
<1>3. DOMAIN mem = Users BY <1>2 DEF PagesInv, NoArena, OneArena, TwoArenas
<1>4. ArenaStart(u) \in Nat /\ offset[u] \in Nat /\ ArenaSize(u) \in Nat
  BY <1>1, <1>2, <1>3, ArenasApart DEF ArraysInv, OffsetOK
<1>5. CASE offset[u] + size <= ArenaSize(u)
  <2>1. /\ Place(req, base)
        /\ offset' = [offset EXCEPT ![u] = offset[u] + size]
        /\ UNCHANGED <<pages, request>>
    BY <1>5 DEF LinearAllocate
  <2>2. base \in Nat BY <1>4
  <2> HIDE DEF base
  <2>3. UNCHANGED phase BY <1>2, <2>1, <2>2, PlaceMakesArray
  <2>4. PICK array : /\ WellFormed(array) /\ With(req.array, array)
                     /\ array.allocator = u /\ array.base = base
                     /\ array.capacity = req.capacity
    BY <1>2, <2>1, <2>2, PlaceMakesArray
  <2>5. OffsetOK' /\ \A w \in Users : offset[w] <= offset'[w]
    <3>1. offset \in [Users -> Nat] /\ \A w \in Users : offset[w] <= ArenaSize(w)
      BY <1>2 DEF ArraysInv, OffsetOK
    <3>2. offset'[u] = offset[u] + size /\ \A w \in Users \ {u} : offset'[w] = offset[w]
      BY <1>1, <2>1, <3>1
    <3>3. offset' \in [Users -> Nat] BY <1>1, <1>4, <2>1, <3>1
    <3>4. \A w \in Users : offset'[w] <= ArenaSize(w) BY <1>5, <3>1, <3>2
    <3> QED BY <1>1, <1>4, <3>1, <3>2, <3>3, <3>4 DEF OffsetOK, ArenaSize
  <2>6. offset'[u] = offset[u] + size BY <1>1, <1>2, <2>1 DEF ArraysInv, OffsetOK
  <2>7. Within(array, committed_pages, mem, offset')
    <3>1. base + size <= ArenaStart(u) + offset'[u] /\ ArenaStart(u) <= base
      BY <1>1, <1>4, <2>6 DEF base
    <3> QED BY <1>1, <1>3, <2>4, <3>1 DEF Within, ArenaStart
  <2>8. \A b \in DOMAIN arrays : BlocksApart(array, arrays[b])
    BY <1>1, <1>2, <1>3, <1>5, <2>4, EndOfArenaIsFree DEF BlocksApart, base
  <2>9. ArraysInv'
    BY <1>1, <1>2, <2>1, <2>4, <2>5, <2>7, <2>8, PlacedKeepsInv
  <2>10. PagesInv' BY <1>2, <2>1, <2>3 DEF PagesInv, pages, NoArena, OneArena, TwoArenas
  <2> QED BY <2>1, <2>9, <2>10 DEF DArrayInv, RequestInv
<1>6. CASE ~(offset[u] + size <= ArenaSize(u))
  <2>1. phase' = "crashed" /\ UNCHANGED <<pages, offset, arrays, request>>
    BY <1>6 DEF LinearAllocate
  <2>2. PagesInv' BY <1>2, <2>1 DEF PagesInv, pages, NoArena, OneArena, TwoArenas
  <2>3. ArraysInv'
    BY <1>2, <2>1 DEF ArraysInv, OffsetOK, ArenaSize, ArraysApart, Located, ArenaStart, Block, pages
  <2> QED BY <2>1, <2>2, <2>3 DEF DArrayInv, RequestInv
<1> QED BY <1>5, <1>6

\* snuk_alloc and snuk_realloc find a place that is free.
LEMMA HeapKeepsInv ==
    ASSUME DArrayInv, HeapAllocate
    PROVE  DArrayInv'
<1>1. PagesInv /\ ArraysInv BY DEF DArrayInv
<1>2. PICK req \in AnyRequest : request = <<req>> /\ req.allocator = Heap /\ Fitting(req)
  BY DEF DArrayInv, RequestInv, HeapAllocate
<1>3. PICK base \in 0 .. committed_pages * PageCells :
        Free(base, BlockSize(req.capacity), req.array) /\ Place(req, base)
  BY <1>2 DEF HeapAllocate
<1>4. request' = << >> /\ UNCHANGED <<pages, offset>> BY DEF HeapAllocate
<1>5. base \in Nat /\ BlockSize(req.capacity) \in Nat /\ req.array \in Arrays
  BY <1>3, <1>2 DEF AnyRequest, BlockSize
<1>6. UNCHANGED phase BY <1>1, <1>2, <1>3, <1>5, PlaceMakesArray
<1>7. PICK array : /\ WellFormed(array) /\ With(req.array, array)
                   /\ array.allocator = Heap /\ array.base = base
                   /\ array.capacity = req.capacity
  BY <1>1, <1>2, <1>3, <1>5, PlaceMakesArray
<1>8. OffsetOK' /\ \A u \in Users : offset[u] <= offset'[u]
  BY <1>1, <1>4 DEF ArraysInv, OffsetOK, ArenaSize
<1>9. Within(array, committed_pages, mem, offset') BY <1>3, <1>7 DEF Within, Free
<1>10. \A b \in DOMAIN arrays \ {req.array} : BlocksApart(array, arrays[b])
  <2> SUFFICES ASSUME NEW b \in DOMAIN arrays \ {req.array}
               PROVE  Apart(base, BlockSize(req.capacity),
                            arrays[b].base, BlockSize(arrays[b].capacity))
    BY <1>7 DEF BlocksApart
  <2>1. CASE arrays[b].allocator = Heap BY <1>3, <2>1 DEF Free, Block
  <2>2. CASE arrays[b].allocator # Heap
    <3>1. /\ arrays[b].base \in Nat /\ arrays[b].allocator \in DOMAIN mem
          /\ ArenaStart(arrays[b].allocator) <= arrays[b].base
      BY <1>1, <2>2, BlocksEnd
    <3>2. /\ committed_pages * PageCells \in Nat
          /\ ArenaStart(arrays[b].allocator) \in Nat
          /\ committed_pages * PageCells <= ArenaStart(arrays[b].allocator)
      BY <1>1, <3>1, ArenasApart
    <3>3. base + BlockSize(req.capacity) <= committed_pages * PageCells
      BY <1>3 DEF Free
    <3> QED BY <1>5, <3>1, <3>2, <3>3 DEF Apart
  <2> QED BY <2>1, <2>2
<1>11. ArraysInv'
  BY <1>1, <1>4, <1>5, <1>7, <1>8, <1>9, <1>10, PlacedKeepsInv
<1>12. PagesInv' BY <1>1, <1>4, <1>6 DEF PagesInv, pages, NoArena, OneArena, TwoArenas
<1> QED BY <1>4, <1>11, <1>12 DEF DArrayInv, RequestInv

(***************************************************************************)
(* The steps.                                                              *)
(***************************************************************************)
\* The memory of an array that stays is not given away.
LEMMA MemoryStays ==
    ASSUME ArraysInv, UNCHANGED offset, DOMAIN arrays' \subseteq DOMAIN arrays,
           \A b \in DOMAIN arrays' : arrays'[b] = arrays[b],
           committed_pages \in Nat, committed_pages' \in Nat, committed_pages <= committed_pages',
           \A b \in DOMAIN arrays' : arrays[b].allocator \in DOMAIN mem =>
             /\ arrays[b].allocator \in DOMAIN mem'
             /\ mem'[arrays[b].allocator] = mem[arrays[b].allocator]
    PROVE  ArraysInv'
<1> SUFFICES ASSUME NEW b \in DOMAIN arrays'
             PROVE  Within(arrays[b], committed_pages', mem', offset)
  BY RemainingKeepInv
<1>1. Within(arrays[b], committed_pages, mem, offset)
  BY LocatedIsWithin DEF ArraysInv, ArraysApart
<1>2. CASE arrays[b].allocator = Heap
  <2>1. committed_pages * PageCells <= committed_pages' * PageCells BY MorePages
  <2>2. committed_pages * PageCells \in Nat /\ committed_pages' * PageCells \in Nat
    BY CellsOfPages
  <2>3. arrays[b].base \in Nat /\ BlockSize(arrays[b].capacity) \in Nat
    BY DEF ArraysInv, WellFormed, ArrayRecord, BlockSize
  <2> QED BY <1>1, <1>2, <2>1, <2>2, <2>3 DEF Within
<1>3. CASE arrays[b].allocator # Heap BY <1>1, <1>3 DEF Within
<1> QED BY <1>2, <1>3

\* Another page for the general allocator, or the end of the process.
LEMMA GrowthKeepsInv ==
    ASSUME PagesInv, ArraysInv, UNCHANGED <<offset, arrays>>,
           \/ CommitPage /\ (UNCHANGED phase \/ (phase = "main" /\ phase' = "memory"))
           \/ RunOut,
           phase \in Live \cup {"main"}
    PROVE  PagesInv' /\ ArraysInv'
<1> USE DEF PagesInv, NoArena, OneArena, TwoArenas, Live, Users
<1>1. /\ committed_pages' \in Nat /\ committed_pages <= committed_pages'
      /\ UNCHANGED <<reverse_committed_pages, mem>>
  BY DEF CommitPage, RunOut, pages
<1>2. committed_pages' + reverse_committed_pages <= TotalPages
  BY PagesAssumption DEF CommitPage, RunOut, pages, Fits
<1>3. PagesInv'
  <2>1. CASE RunOut BY <1>1, <1>2, <2>1 DEF RunOut
  <2>2. CASE ~RunOut BY <1>1, <1>2, <2>2
  <2> QED BY <2>1, <2>2
<1>4. ArraysInv' BY <1>1, MemoryStays
<1> QED BY <1>3, <1>4

\* The runtime and the interpreter take their pages from the top.
LEMMA StartKeepsInv ==
    ASSUME DArrayInv, Start
    PROVE  DArrayInv'
<1>1. PagesInv /\ ArraysInv BY DEF DArrayInv
<1>2. request' = << >> /\ UNCHANGED <<offset, arrays>> BY DEF Start
<1>3. CASE MemoryInit
  BY <1>1, <1>2, <1>3, GrowthKeepsInv DEF MemoryInit, DArrayInv, RequestInv
<1>4. ASSUME NEW user \in Users, NEW next, AllocatePages(user, next),
             \/ user = "runtime" /\ phase = "memory" /\ next = "runtime"
             \/ user = "interpreter" /\ phase = "runtime" /\ next = "running"
      PROVE  PagesInv' /\ ArraysInv'
  <2>1. CASE RunOut
    BY <1>1, <1>2, <1>4, <2>1, GrowthKeepsInv DEF Live
  <2>2. CASE ~RunOut
    <3>1. /\ PAGES[user] + committed_pages + reverse_committed_pages <= TotalPages
          /\ reverse_committed_pages' = reverse_committed_pages + PAGES[user]
          /\ mem' = [u \in DOMAIN mem \cup {user} |->
                       IF u = user THEN TotalPages - reverse_committed_pages - PAGES[user] ELSE mem[u]]
          /\ phase' = next /\ UNCHANGED committed_pages
      BY <1>4, <2>2 DEF AllocatePages, Fits
    <3>2. PAGES["runtime"] \in Nat /\ PAGES["interpreter"] \in Nat /\ TotalPages \in Nat
      BY PagesAssumption DEF Users
    <3>3. CASE user = "runtime"
      <4>1. NoArena /\ phase' = "runtime" BY <1>1, <1>4, <3>1, <3>3 DEF PagesInv
      <4>2. OneArena' BY <3>1, <3>2, <3>3, <4>1 DEF NoArena, OneArena
      <4>3. PagesInv'
        BY <1>1, <3>1, <3>2, <3>3, <4>1, <4>2 DEF PagesInv, NoArena
      <4>4. \A u \in DOMAIN mem : u \in DOMAIN mem' /\ mem'[u] = mem[u] BY <4>1 DEF NoArena
      <4> QED BY <1>1, <1>2, <3>1, <4>3, <4>4, MemoryStays DEF PagesInv
    <3>4. CASE user = "interpreter"
      <4>1. OneArena /\ phase' = "running" BY <1>1, <1>4, <3>1, <3>4 DEF PagesInv
      <4>2. TwoArenas' BY <3>1, <3>2, <3>4, <4>1 DEF OneArena, TwoArenas, Users
      <4>3. PagesInv'
        BY <1>1, <3>1, <3>2, <3>4, <4>1, <4>2 DEF PagesInv, OneArena
      <4>4. \A u \in DOMAIN mem : u \in DOMAIN mem' /\ mem'[u] = mem[u]
        BY <3>1, <3>4, <4>1 DEF OneArena
      <4> QED BY <1>1, <1>2, <3>1, <4>3, <4>4, MemoryStays DEF PagesInv
    <3> QED BY <3>3, <3>4 DEF Users
  <2> QED BY <2>1, <2>2
<1>5. CASE RuntimeInit
  BY <1>2, <1>4, <1>5 DEF RuntimeInit, Users, DArrayInv, RequestInv
<1>6. CASE InterpreterInit
  BY <1>2, <1>4, <1>6 DEF InterpreterInit, Users, DArrayInv, RequestInv
<1> QED BY <1>3, <1>5, <1>6 DEF Start

\* The pages of the top are given back in stack order, the assertion of
\* snuk_free_pages holds, and the arrays in them are gone.
LEMMA StopKeepsInv ==
    ASSUME DArrayInv, Stop
    PROVE  DArrayInv'
<1>1. PagesInv /\ ArraysInv BY DEF DArrayInv
<1>2. request' = << >> /\ UNCHANGED offset BY DEF Stop
<1>3. PAGES["runtime"] \in Nat /\ PAGES["interpreter"] \in Nat /\ TotalPages \in Nat
  BY PagesAssumption DEF Users
<1>4. CASE InterpreterDeinit /\ Destroyed(In("interpreter"))
  <2>1. TwoArenas BY <1>1, <1>4 DEF PagesInv, InterpreterDeinit
  <2>2. mem["interpreter"] = TotalPages - reverse_committed_pages
    BY <1>3, <2>1 DEF TwoArenas
  <2>3. /\ reverse_committed_pages' = reverse_committed_pages - PAGES["interpreter"]
        /\ mem' = [u \in DOMAIN mem \ {"interpreter"} |-> mem[u]]
        /\ phase' = "closing" /\ UNCHANGED committed_pages
    BY <1>4, <2>2 DEF InterpreterDeinit, FreePages
  <2>4. OneArena' BY <1>3, <2>1, <2>3 DEF TwoArenas, OneArena, Users
  <2>5. PagesInv' BY <1>1, <1>3, <2>3, <2>4 DEF PagesInv, OneArena
  <2>6. ArraysInv'
    <3>1. /\ DOMAIN arrays' = DOMAIN arrays \ In("interpreter")
          /\ \A b \in DOMAIN arrays' : arrays'[b] = arrays[b]
      BY <1>4 DEF Destroyed
    <3>2. \A b \in DOMAIN arrays' : arrays[b].allocator # "interpreter" BY <3>1 DEF In
    <3>3. \A b \in DOMAIN arrays' : arrays[b].allocator \in DOMAIN mem =>
            /\ arrays[b].allocator \in DOMAIN mem'
            /\ mem'[arrays[b].allocator] = mem[arrays[b].allocator]
      BY <2>3, <3>2
    <3>4. committed_pages \in Nat /\ committed_pages' = committed_pages
      BY <1>1, <2>3 DEF PagesInv
    <3>5. DOMAIN arrays' \subseteq DOMAIN arrays BY <3>1
    <3> QED BY <1>1, <1>2, <3>1, <3>3, <3>4, <3>5, MemoryStays
  <2> QED BY <1>2, <2>5, <2>6 DEF DArrayInv, RequestInv
<1>5. CASE RuntimeDeinit /\ Destroyed(In("runtime"))
  <2>1. OneArena BY <1>1, <1>5 DEF PagesInv, RuntimeDeinit
  <2>2. mem["runtime"] = TotalPages - reverse_committed_pages
    BY <1>3, <2>1 DEF OneArena
  <2>3. /\ reverse_committed_pages' = reverse_committed_pages - PAGES["runtime"]
        /\ mem' = [u \in DOMAIN mem \ {"runtime"} |-> mem[u]]
        /\ phase' = "closed" /\ UNCHANGED committed_pages
    BY <1>5, <2>2 DEF RuntimeDeinit, FreePages
  <2>4. NoArena' BY <1>3, <2>1, <2>3 DEF OneArena, NoArena
  <2>5. PagesInv' BY <1>1, <1>3, <2>3, <2>4 DEF PagesInv, NoArena
  <2>6. ArraysInv'
    <3>1. /\ DOMAIN arrays' = DOMAIN arrays \ In("runtime")
          /\ \A b \in DOMAIN arrays' : arrays'[b] = arrays[b]
      BY <1>5 DEF Destroyed
    <3>2. \A b \in DOMAIN arrays' : arrays[b].allocator \notin DOMAIN mem
      BY <2>1, <3>1 DEF In, OneArena
    <3> QED BY <1>1, <1>2, <2>3, <3>1, <3>2, MemoryStays DEF PagesInv
  <2> QED BY <1>2, <2>5, <2>6 DEF DArrayInv, RequestInv
<1>6. CASE MemoryDeinit /\ Destroyed(DOMAIN arrays)
  <2>1. NoArena BY <1>1, <1>6 DEF PagesInv, MemoryDeinit
  <2>2. PagesInv' BY <1>3, <1>6, <2>1 DEF PagesInv, NoArena, MemoryDeinit
  <2>3. DOMAIN arrays' = {} BY <1>6 DEF Destroyed
  <2>4. ArraysInv' BY <1>1, <1>2, <2>3, RemainingKeepInv
  <2> QED BY <1>2, <2>2, <2>4 DEF DArrayInv, RequestInv
<1> QED BY <1>4, <1>5, <1>6 DEF Stop

\* Create and a Push that grows the array: from an arena at once, from the
\* general allocator by a request.
LEMMA AllocateKeepsInv ==
    ASSUME DArrayInv, NEW req \in AnyRequest, Ready(req.allocator), Fitting(req), Allocate(req)
    PROVE  DArrayInv'
<1>1. CASE req.allocator = Heap
  <2>1. request' = <<req>> /\ UNCHANGED <<phase, pages, offset, arrays>>
    BY <1>1 DEF Allocate
  <2>2. PagesInv' BY <2>1 DEF DArrayInv, PagesInv, pages, NoArena, OneArena, TwoArenas
  <2>3. ArraysInv'
    BY <2>1 DEF DArrayInv, ArraysInv, OffsetOK, ArenaSize, ArraysApart, Located, ArenaStart, Block, pages
  <2>4. RequestInv' BY <1>1, <2>1 DEF RequestInv, Fitting
  <2> QED BY <2>2, <2>3, <2>4 DEF DArrayInv
<1>2. CASE req.allocator # Heap
  BY <1>2, LinearKeepsInv DEF Allocate, Ready
<1> QED BY <1>1, <1>2

\* An operation that leaves the block of its array where it is.
LEMMA OperateKeepsInv ==
    ASSUME DArrayInv, request = << >>, UNCHANGED <<phase, pages, offset, request>>,
           NEW a \in DOMAIN arrays, NEW array, WellFormed(array), With(a, array),
           array.allocator = arrays[a].allocator, array.base = arrays[a].base,
           array.capacity = arrays[a].capacity
    PROVE  DArrayInv'
<1>1. ArraysInv' BY ChangedKeepsInv DEF DArrayInv
<1>2. PagesInv' BY DEF DArrayInv, PagesInv, pages, NoArena, OneArena, TwoArenas
<1> QED BY <1>1, <1>2 DEF DArrayInv, RequestInv

\* Pop and Clear change the size alone.
LEMMA SizeIsWellFormed ==
    ASSUME NEW array, WellFormed(array), NEW size \in 0 .. array.size
    PROVE  LET new == [array EXCEPT !.size = size]
           IN /\ WellFormed(new)
              /\ new.allocator = array.allocator /\ new.base = array.base
              /\ new.capacity = array.capacity
<1>1. array.cells \in [1 .. array.capacity -> Contained] BY DEF WellFormed
<1>2. array \in ArrayRecord BY DEF WellFormed
<1> DEFINE new == [array EXCEPT !.size = size, !.cells = array.cells]
<1>3. [array EXCEPT !.size = size] = new BY <1>2 DEF ArrayRecord
<1>4. /\ WellFormed(new)
      /\ new.allocator = array.allocator /\ new.base = array.base
      /\ new.capacity = array.capacity
  BY <1>1, ShrunkIsWellFormed
<1> HIDE DEF new
<1> QED BY <1>3, <1>4

\* Every operation on an array keeps the invariant.
LEMMA OperationsKeepInv ==
    ASSUME DArrayInv, Create \/ Push \/ Pop \/ PopAt \/ Clear \/ Destroy
    PROVE  DArrayInv'
<1>1. PagesInv /\ ArraysInv /\ \A a \in DOMAIN arrays : WellFormed(arrays[a]) /\ a \in Arrays
  BY DEF DArrayInv, ArraysInv
<1>2. CASE Create
  <2>1. PICK a \in Arrays \ DOMAIN arrays, allocator \in Allocators, capacity \in Capacities :
          Ready(allocator) /\ Allocate(Request(a, allocator, capacity, Garbage))
    BY <1>2 DEF Create
  <2> DEFINE req == Request(a, allocator, capacity, Garbage)
  <2>2. req \in AnyRequest BY DArrayAssumption DEF Request, AnyRequest, Contained
  <2>3. Fitting(req) /\ req.allocator = allocator BY DEF Request, Fitting
  <2> QED BY <2>1, <2>2, <2>3, AllocateKeepsInv
<1>3. CASE Push
  <2>1. PICK a \in DOMAIN arrays, e \in Elements :
          /\ Ready(arrays[a].allocator)
          /\ arrays[a].capacity # 0
          /\ IF arrays[a].capacity <= arrays[a].size
             THEN Allocate(Request(a, arrays[a].allocator, 2 * arrays[a].capacity, e))
             ELSE Store(a, arrays[a], e) /\ UNCHANGED <<pages, offset, request>>
    BY <1>3 DEF Push
  <2>2. /\ WellFormed(arrays[a]) /\ a \in Arrays /\ e \in Contained
        /\ arrays[a].allocator \in Allocators
        /\ arrays[a].capacity \in Nat /\ arrays[a].size \in Nat
        /\ arrays[a].size <= arrays[a].capacity
    BY <1>1 DEF WellFormed, ArrayRecord, Contained
  <2>3. CASE arrays[a].capacity <= arrays[a].size
    <3> DEFINE req == Request(a, arrays[a].allocator, 2 * arrays[a].capacity, e)
    <3>1. req \in AnyRequest BY <2>2 DEF Request, AnyRequest
    <3>2. /\ req.array = a /\ req.allocator = arrays[a].allocator
          /\ req.capacity = 2 * arrays[a].capacity /\ req.element = e
      BY DEF Request
    <3>3. Fitting(req) BY <2>1, <2>2, <3>2 DEF Fitting
    <3> QED BY <2>1, <2>3, <3>1, <3>2, <3>3, AllocateKeepsInv
  <2>4. CASE ~(arrays[a].capacity <= arrays[a].size)
    <3>1. arrays[a].size < arrays[a].capacity BY <2>2, <2>4
    <3>2. /\ request = << >> /\ UNCHANGED <<phase, pages, offset, request>>
          /\ With(a, Pushed(arrays[a], e))
      BY <2>1, <2>4, <3>1 DEF Store, Ready
    <3> QED BY <2>2, <3>1, <3>2, PushedIsWellFormed, OperateKeepsInv
  <2> QED BY <2>3, <2>4
<1>4. ASSUME NEW a \in DOMAIN arrays, NEW array, WellFormed(array), Operate(a, array),
             array.allocator = arrays[a].allocator, array.base = arrays[a].base,
             array.capacity = arrays[a].capacity
      PROVE  DArrayInv'
  BY <1>4, OperateKeepsInv DEF Operate, Ready
<1>5. CASE Pop
  <2>1. PICK a \in DOMAIN arrays :
          arrays[a].size # 0 /\ Operate(a, [arrays[a] EXCEPT !.size = arrays[a].size - 1])
    BY <1>5 DEF Pop
  <2>2. arrays[a].size - 1 \in 0 .. arrays[a].size
    BY <1>1, <2>1 DEF WellFormed, ArrayRecord
  <2> QED BY <1>1, <1>4, <2>1, <2>2, SizeIsWellFormed
<1>6. CASE PopAt
  <2>1. PICK a \in DOMAIN arrays : \E index \in 1 .. arrays[a].size :
          Operate(a, [arrays[a] EXCEPT
            !.size = @ - 1,
            !.cells = [i \in 1 .. arrays[a].capacity |->
                         IF i \in index .. arrays[a].size - 1 THEN @[i + 1] ELSE @[i]]])
    BY <1>6 DEF PopAt
  <2>2. PICK index \in 1 .. arrays[a].size :
          Operate(a, [arrays[a] EXCEPT
            !.size = @ - 1,
            !.cells = [i \in 1 .. arrays[a].capacity |->
                         IF i \in index .. arrays[a].size - 1 THEN @[i + 1] ELSE @[i]]])
    BY <2>1
  <2> DEFINE cells == [i \in 1 .. arrays[a].capacity |->
                         IF i \in index .. arrays[a].size - 1
                         THEN arrays[a].cells[i + 1] ELSE arrays[a].cells[i]]
  <2>3. /\ arrays[a].size \in Nat /\ arrays[a].capacity \in Nat
        /\ arrays[a].size <= arrays[a].capacity
        /\ arrays[a].cells \in [1 .. arrays[a].capacity -> Contained]
    BY <1>1 DEF WellFormed, ArrayRecord
  <2>4. cells \in [1 .. arrays[a].capacity -> Contained]
    <3> SUFFICES ASSUME NEW i \in 1 .. arrays[a].capacity
                 PROVE  (IF i \in index .. arrays[a].size - 1
                         THEN arrays[a].cells[i + 1] ELSE arrays[a].cells[i]) \in Contained
      OBVIOUS
    <3>1. i \in index .. arrays[a].size - 1 => i + 1 \in 1 .. arrays[a].capacity BY <2>3
    <3> QED BY <2>3, <3>1
  <2>5. arrays[a].size - 1 \in 0 .. arrays[a].size BY <2>3
  <2>6. Operate(a, [arrays[a] EXCEPT !.size = arrays[a].size - 1, !.cells = cells])
    BY <2>2
  <2> HIDE DEF cells
  <2> QED BY <1>1, <1>4, <2>4, <2>5, <2>6, ShrunkIsWellFormed
<1>7. CASE Clear
  <2>1. PICK a \in DOMAIN arrays : Operate(a, [arrays[a] EXCEPT !.size = 0])
    BY <1>7 DEF Clear
  <2>2. 0 \in 0 .. arrays[a].size BY <1>1 DEF WellFormed, ArrayRecord
  <2> QED BY <1>1, <1>4, <2>1, <2>2, SizeIsWellFormed
<1>8. CASE Destroy
  <2>1. PICK a \in DOMAIN arrays :
          request = << >> /\ Destroyed({a}) /\ UNCHANGED <<phase, pages, offset, request>>
    BY <1>8 DEF Destroy, Ready
  <2>2. PagesInv' BY <1>1, <2>1 DEF PagesInv, pages, NoArena, OneArena, TwoArenas
  <2>3. ArraysInv' BY <1>1, <2>1, MemoryStays DEF Destroyed, PagesInv, pages
  <2> QED BY <2>1, <2>2, <2>3 DEF DArrayInv, RequestInv
<1> QED BY <1>2, <1>3, <1>5, <1>6, <1>7, <1>8

(***************************************************************************)
(* The theorems.                                                           *)
(***************************************************************************)
\* Pages, arenas, blocks and the pending request fit together in every state.
THEOREM DArrayInvariant == Spec => []DArrayInv
<1>1. Init => DArrayInv
  <2> SUFFICES ASSUME Init PROVE DArrayInv OBVIOUS
  <2>1. PagesInv BY PagesAssumption DEF Init, PagesInit, PagesInv, NoArena
  <2>2. ArraysInv
    <3>1. \A u \in Users : ArenaSize(u) \in Nat
      BY PagesAssumption, CellsOfPages DEF ArenaSize
    <3> QED BY <3>1 DEF Init, ArraysInv, OffsetOK, ArraysApart
  <2> QED BY <2>1, <2>2 DEF Init, DArrayInv, RequestInv
<1>2. DArrayInv /\ [Next]_vars => DArrayInv'
  <2> SUFFICES ASSUME DArrayInv, [Next]_vars PROVE DArrayInv' OBVIOUS
  <2>1. CASE Start BY <2>1, StartKeepsInv
  <2>2. CASE Stop BY <2>2, StopKeepsInv
  <2>3. CASE HeapAllocate BY <2>3, HeapKeepsInv
  <2>4. CASE HeapGrow
    <3>1. UNCHANGED <<offset, arrays, request>> /\ TryIncreasingAllocatorSize
      BY <2>4 DEF HeapGrow
    <3>2. PagesInv' /\ ArraysInv'
      BY <3>1, GrowthKeepsInv DEF DArrayInv, TryIncreasingAllocatorSize
    <3>3. RequestInv' BY <3>1 DEF DArrayInv, RequestInv, Fitting
    <3> QED BY <3>2, <3>3 DEF DArrayInv
  <2>5. CASE Create \/ Push \/ Pop \/ PopAt \/ Clear \/ Destroy
    BY <2>5, OperationsKeepInv
  <2>6. CASE UNCHANGED vars
    <3>1. PagesInv' BY <2>6 DEF DArrayInv, PagesInv, vars, NoArena, OneArena, TwoArenas
    <3>2. ArraysInv'
      BY <2>6 DEF DArrayInv, ArraysInv, OffsetOK, ArenaSize, ArraysApart, Located, ArenaStart, Block, vars
    <3> QED BY <2>6, <3>1, <3>2 DEF DArrayInv, RequestInv, Fitting, vars
  <2> QED BY <2>1, <2>2, <2>3, <2>4, <2>5, <2>6 DEF Next
<1> QED BY <1>1, <1>2, PTL DEF Spec

\* No two arrays ever share a cell, and each lies in memory that is committed:
\* what snuk_alloc, snuk_realloc and the linear allocators return is nobody else's.
THEOREM ArraysNeverMeet == Spec => []ArraysApart
<1>1. DArrayInv => ArraysApart BY DEF DArrayInv, ArraysInv
<1> QED BY <1>1, DArrayInvariant, PTL

\* commit_pages and reverse_commit_pages never commit a page twice.
THEOREM PagesNeverMeet == Spec => []PagesApart
<1>1. DArrayInv => PagesApart
  <2> SUFFICES ASSUME PagesInv PROVE PagesApart BY DEF DArrayInv
  <2>1. PAGES["runtime"] \in Nat /\ PAGES["interpreter"] \in Nat /\ TotalPages \in Nat
    BY PagesAssumption DEF Users
  <2> QED BY <2>1 DEF PagesInv, PagesApart, NoArena, OneArena, TwoArenas, Users
<1> QED BY <1>1, DArrayInvariant, PTL

\* impl_snuk_darray_push never writes behind the capacity it made or found.
THEOREM NoOverrun == Spec => []StaysInside
<1>1. DArrayInv => StaysInside BY DEF DArrayInv, PagesInv, StaysInside
<1> QED BY <1>1, DArrayInvariant, PTL

\* The assertion of snuk_free_pages never fails: pages taken from the top are
\* given back in stack order, all of them.
THEOREM StackDiscipline == Spec => []StackOrder
<1>1. DArrayInv => StackOrder
  BY DEF DArrayInv, PagesInv, StackOrder, NoArena, OneArena, TwoArenas
<1> QED BY <1>1, DArrayInvariant, PTL

\* The types of the model, as the runs check them.
THEOREM TypeCorrect == Spec => []TypeOK
<1>1. DArrayInv => TypeOK
  <2> SUFFICES ASSUME PagesInv, ArraysInv, RequestInv PROVE TypeOK BY DEF DArrayInv
  <2>1. phase \in Phases BY DEF PagesInv, Phases, Live
  <2>2. /\ {committed_pages, reverse_committed_pages} \subseteq Nat
        /\ DOMAIN mem \subseteq Users /\ \A u \in DOMAIN mem : mem[u] \in Nat
    <3>1. PAGES["runtime"] \in Nat /\ PAGES["interpreter"] \in Nat /\ TotalPages \in Nat
      BY PagesAssumption DEF Users
    <3>2. \A u \in DOMAIN mem : u \in Users /\ mem[u] \in Nat
      <4>1. CASE NoArena BY <4>1 DEF NoArena
      <4>2. CASE OneArena BY <3>1, <4>2 DEF PagesInv, OneArena, Users
      <4>3. CASE TwoArenas BY <3>1, <4>3 DEF PagesInv, TwoArenas, Users
      <4> QED BY <4>1, <4>2, <4>3 DEF PagesInv
    <3>3. committed_pages \in Nat /\ reverse_committed_pages \in Nat BY DEF PagesInv
    <3> QED BY <3>2, <3>3
  <2>3. \A u \in Users : offset[u] \in 0 .. ArenaSize(u)
    <3> SUFFICES ASSUME NEW u \in Users PROVE offset[u] \in 0 .. ArenaSize(u) OBVIOUS
    <3>1. ArenaSize(u) \in Nat BY PagesAssumption, CellsOfPages DEF ArenaSize
    <3> QED BY <3>1 DEF ArraysInv, OffsetOK
  <2>4. \A a \in DOMAIN arrays :
          /\ arrays[a].allocator \in Allocators
          /\ {arrays[a].base, arrays[a].capacity} \subseteq Nat
          /\ arrays[a].size \in 0 .. arrays[a].capacity
          /\ arrays[a].cells \in [1 .. arrays[a].capacity -> Contained]
    BY DEF ArraysInv, WellFormed, ArrayRecord
  <2>5. request \in Seq(RequestType)
    <3>1. CASE request = << >> BY <3>1
    <3>2. CASE request # << >>
      <4>1. PICK req \in AnyRequest : request = <<req>> /\ req.allocator = Heap
        BY <3>2 DEF RequestInv
      <4>2. req \in RequestType BY <4>1 DEF AnyRequest, RequestType, Contained
      <4> QED BY <4>1, <4>2
    <3> QED BY <3>1, <3>2
  <2> QED BY <2>1, <2>2, <2>3, <2>4, <2>5 DEF TypeOK, ArraysInv, Contained
<1> QED BY <1>1, DArrayInvariant, PTL
(***************************************************************************)
(* The arrays are sequences.  What an array holds is the cells in use; each *)
(* operation on the array is the operation of SnukSequences on what it     *)
(* holds.                                                                  *)
(***************************************************************************)
Held(array) == SubSeq(array.cells, 1, array.size)

LEMMA HeldFacts ==
    ASSUME NEW array, WellFormed(array)
    PROVE  /\ Held(array) \in Seq(Contained) /\ Len(Held(array)) = array.size
           /\ \A i \in 1 .. array.size : Held(array)[i] = array.cells[i]
           /\ array.size \in Nat /\ array.capacity \in Nat /\ array.size <= array.capacity
<1>1. /\ array.size \in Nat /\ array.capacity \in Nat /\ array.size <= array.capacity
      /\ \A i \in 1 .. array.size : array.cells[i] \in Contained
  BY DEF WellFormed, ArrayRecord
<1>2. /\ Held(array) \in Seq(Contained)
      /\ Len(Held(array)) = IF 1 <= array.size THEN array.size - 1 + 1 ELSE 0
      /\ \A i \in 1 .. array.size - 1 + 1 : Held(array)[i] = array.cells[1 + i - 1]
  BY <1>1, SubSeqProperties DEF Held
<1> QED BY <1>1, <1>2

\* Arrays with the same elements in use hold the same.
LEMMA HeldSame ==
    ASSUME NEW array, WellFormed(array), NEW s \in Seq(Contained), Len(s) = array.size,
           \A i \in 1 .. array.size : array.cells[i] = s[i]
    PROVE  Held(array) = s
BY HeldFacts, SeqEqual

\* A new array is empty, and so is a cleared one.
LEMMA HeldEmpty ==
    ASSUME NEW array, WellFormed(array), array.size = 0
    PROVE  Held(array) = << >>
BY HeldFacts, EmptySeq

\* impl_snuk_darray_resize copies what the array holds.
LEMMA HeldResized ==
    ASSUME NEW array, WellFormed(array), NEW base \in Nat, NEW capacity \in Nat,
           array.capacity <= capacity
    PROVE  Held(Resized(array, base, capacity)) = Held(array)
<1> DEFINE new == Resized(array, base, capacity)
<1>1. WellFormed(new) /\ new.size = array.size
  BY ResizedIsWellFormed
<1>2. \A i \in 1 .. array.size : new.cells[i] = array.cells[i]
  <2>1. new.cells = [i \in 1 .. capacity |->
                       IF i <= array.capacity THEN array.cells[i] ELSE Garbage]
    BY DEF Resized, WellFormed, ArrayRecord
  <2> QED BY <2>1, HeldFacts
<1> HIDE DEF new
<1>3. /\ Held(array) \in Seq(Contained) /\ Len(Held(array)) = new.size
      /\ \A i \in 1 .. new.size : new.cells[i] = Held(array)[i]
  BY <1>1, <1>2, HeldFacts
<1>4. Held(new) = Held(array)
  BY <1>1, <1>3, HeldSame
<1> QED BY <1>4 DEF new

\* impl_snuk_darray_push appends.
LEMMA HeldPushed ==
    ASSUME NEW array, WellFormed(array), array.size < array.capacity, NEW e \in Contained
    PROVE  Held(Pushed(array, e)) = Append(Held(array), e)
<1> DEFINE new == Pushed(array, e)
           s == Append(Held(array), e)
<1>1. WellFormed(new)
  BY PushedIsWellFormed
<1>2. /\ array.size \in Nat /\ array.capacity \in Nat /\ Held(array) \in Seq(Contained)
      /\ Len(Held(array)) = array.size
      /\ \A i \in 1 .. array.size : Held(array)[i] = array.cells[i]
  BY HeldFacts
<1>3. /\ s \in Seq(Contained) /\ Len(s) = array.size + 1
      /\ \A i \in 1 .. array.size : s[i] = array.cells[i]
      /\ s[array.size + 1] = e
  BY <1>2, AppendProperties
<1>4. /\ new.size = array.size + 1
      /\ \A i \in 1 .. array.capacity :
           new.cells[i] = IF i = array.size + 1 THEN e ELSE array.cells[i]
  <2>1. new.size = array.size + 1 /\ new.cells = [array.cells EXCEPT ![array.size + 1] = e]
    BY DEF Pushed, WellFormed, ArrayRecord
  <2>2. array.cells \in [1 .. array.capacity -> Contained]
    BY DEF WellFormed
  <2> QED BY <2>1, <2>2
<1> HIDE DEF new, s
<1>5. \A i \in 1 .. array.size + 1 : new.cells[i] = s[i]
  <2> TAKE i \in 1 .. array.size + 1
  <2>1. i \in 1 .. array.capacity /\ (i = array.size + 1 \/ i \in 1 .. array.size)
    BY <1>2
  <2> QED BY <1>2, <1>3, <1>4, <2>1
<1>6. Held(new) = s
  BY <1>1, <1>3, <1>4, <1>5, HeldSame
<1> QED BY <1>6 DEF new, s

\* impl_snuk_darray_pop drops the last element.
LEMMA HeldPopped ==
    ASSUME NEW array, WellFormed(array), array.size # 0
    PROVE  /\ Held(array) # << >>
           /\ Held([array EXCEPT !.size = @ - 1]) = Sequence!Front(Held(array))
<1> DEFINE new == [array EXCEPT !.size = array.size - 1]
           s == SubSeq(Held(array), 1, array.size - 1)
<1>1. /\ array.size \in Nat \ {0} /\ Held(array) \in Seq(Contained)
      /\ Len(Held(array)) = array.size
      /\ \A i \in 1 .. array.size : Held(array)[i] = array.cells[i]
  BY HeldFacts
<1>2. Held(array) # << >>
  BY <1>1
<1>3. WellFormed(new) /\ new.size = array.size - 1 /\ new.cells = array.cells
  BY <1>1, SizeIsWellFormed DEF WellFormed, ArrayRecord
<1>4. /\ s \in Seq(Contained) /\ Len(s) = array.size - 1
      /\ \A i \in 1 .. array.size - 1 : s[i] = array.cells[i]
  <2>1. \A i \in 1 .. array.size - 1 : i \in 1 .. array.size
    BY <1>1
  <2>2. \A i \in 1 .. array.size - 1 : Held(array)[i] \in Contained
    BY <1>1, <2>1, ElementOfSeq
  <2>3. /\ s \in Seq(Contained)
        /\ Len(s) = IF 1 <= array.size - 1 THEN array.size - 1 - 1 + 1 ELSE 0
        /\ \A i \in 1 .. array.size - 1 - 1 + 1 : s[i] = Held(array)[1 + i - 1]
    BY <1>1, <2>2, SubSeqProperties
  <2> QED BY <1>1, <2>1, <2>3
<1> HIDE DEF new, s
<1>5. Held(new) = s
  BY <1>3, <1>4, HeldSame
<1> QED BY <1>1, <1>2, <1>5 DEF new, s, Sequence!Front

\* impl_snuk_darray_pop_at takes out one element and keeps the others in order.
LEMMA HeldPoppedAt ==
    ASSUME NEW array, WellFormed(array), NEW index \in 1 .. array.size
    PROVE  LET cells == [i \in 1 .. array.capacity |->
                           IF i \in index .. array.size - 1
                           THEN array.cells[i + 1] ELSE array.cells[i]]
               new == [array EXCEPT !.size = array.size - 1, !.cells = cells]
           IN WellFormed(new) => Held(new) = Sequence!RemoveAt(Held(array), index)
<1> DEFINE cells == [i \in 1 .. array.capacity |->
                       IF i \in index .. array.size - 1
                       THEN array.cells[i + 1] ELSE array.cells[i]]
           new == [array EXCEPT !.size = array.size - 1, !.cells = cells]
           h == Held(array)
           n == array.size
           s1 == SubSeq(h, 1, index - 1)
           s2 == SubSeq(h, index + 1, n)
<1>1. /\ n \in Nat \ {0} /\ array.capacity \in Nat /\ n <= array.capacity
      /\ h \in Seq(Contained) /\ Len(h) = n /\ index \in 1 .. n
      /\ \A i \in 1 .. n : h[i] = array.cells[i] /\ h[i] \in Contained
  BY HeldFacts, ElementOfSeq
<1>2. new.size = n - 1 /\ new.cells = cells
  BY DEF WellFormed, ArrayRecord
<1> HIDE DEF h
<1>3. /\ s1 \in Seq(Contained) /\ Len(s1) = index - 1
      /\ \A i \in 1 .. index - 1 : s1[i] = h[i]
  <2>1. \A i \in 1 .. index - 1 : h[i] \in Contained
    BY <1>1
  <2>2. /\ s1 \in Seq(Contained)
        /\ Len(s1) = IF 1 <= index - 1 THEN index - 1 - 1 + 1 ELSE 0
        /\ \A i \in 1 .. index - 1 - 1 + 1 : s1[i] = h[1 + i - 1]
    BY <1>1, <2>1, SubSeqProperties
  <2> QED BY <1>1, <2>2
<1>4. /\ s2 \in Seq(Contained) /\ Len(s2) = n - index
      /\ \A i \in 1 .. n - index : s2[i] = h[index + i]
  <2>1. \A i \in index + 1 .. n : h[i] \in Contained
    BY <1>1
  <2>2. /\ s2 \in Seq(Contained)
        /\ Len(s2) = IF index + 1 <= n THEN n - (index + 1) + 1 ELSE 0
        /\ \A i \in 1 .. n - (index + 1) + 1 : s2[i] = h[index + 1 + i - 1]
    BY <1>1, <2>1, SubSeqProperties
  <2> QED BY <1>1, <2>2
<1> HIDE DEF s1, s2
<1>5. /\ s1 \o s2 \in Seq(Contained) /\ Len(s1 \o s2) = n - 1
      /\ \A i \in 1 .. n - 1 :
           (s1 \o s2)[i] = IF i <= index - 1 THEN s1[i] ELSE s2[i - (index - 1)]
  <2>1. /\ s1 \o s2 \in Seq(Contained) /\ Len(s1 \o s2) = Len(s1) + Len(s2)
        /\ \A i \in 1 .. Len(s1) + Len(s2) :
             (s1 \o s2)[i] = IF i <= Len(s1) THEN s1[i] ELSE s2[i - Len(s1)]
    BY <1>3, <1>4, ConcatProperties
  <2>2. Len(s1) + Len(s2) = n - 1
    BY <1>1, <1>3, <1>4
  <2> QED BY <1>3, <2>1, <2>2
<1>6. \A i \in 1 .. n - 1 : cells[i] = (s1 \o s2)[i]
  <2> TAKE i \in 1 .. n - 1
  <2>1. i \in 1 .. array.capacity /\ i \in 1 .. n /\ i + 1 \in 1 .. n
    BY <1>1
  <2>2. CASE i <= index - 1
    <3>1. i \in 1 .. index - 1 /\ i \notin index .. n - 1
      BY <1>1, <2>2
    <3> QED BY <1>1, <1>3, <1>5, <2>1, <2>2, <3>1
  <2>3. CASE ~(i <= index - 1)
    <3>1. /\ i \in index .. n - 1 /\ i - (index - 1) \in 1 .. n - index
          /\ index + (i - (index - 1)) = i + 1
      BY <1>1, <2>3
    <3>2. cells[i] = h[i + 1]
      BY <1>1, <2>1, <3>1
    <3> QED BY <1>4, <1>5, <2>3, <3>1, <3>2
  <2> QED BY <2>2, <2>3
<1> HIDE DEF cells
<1>7. WellFormed(new) => Held(new) = s1 \o s2
  <2> HIDE DEF new
  <2> QED BY <1>1, <1>2, <1>5, <1>6, HeldSame
<1> QED BY <1>1, <1>7 DEF h, s1, s2, cells, Sequence!RemoveAt

\* An array is made or changed, and the others hold what they held.
LEMMA SetReads ==
    ASSUME NEW a, NEW array, With(a, array)
    PROVE  Sequence!Set(a, Held(array))
<1>1. /\ DOMAIN arrays' = DOMAIN arrays \cup {a}
      /\ \A b \in DOMAIN arrays' : arrays'[b] = IF b = a THEN array ELSE arrays[b]
  BY DEF With
<1>2. /\ DOMAIN Contents = DOMAIN arrays
      /\ \A b \in DOMAIN arrays : Contents[b] = Held(arrays[b])
  BY DEF Contents, Held
<1>3. Contents' = [b \in DOMAIN arrays' |-> Held(arrays'[b])]
  BY DEF Contents, Held
<1>4. [b \in DOMAIN arrays' |-> Held(arrays'[b])] =
        [b \in DOMAIN Contents \cup {a} |-> IF b = a THEN Held(array) ELSE Contents[b]]
  BY <1>1, <1>2
<1> QED BY <1>3, <1>4 DEF Sequence!Set

\* Arrays are destroyed, alone or with their memory.
LEMMA DestroyReads ==
    ASSUME NEW gone, gone \subseteq Arrays, Destroyed(gone)
    PROVE  Sequence!Next
<1>1. Contents' = [b \in DOMAIN arrays' |-> Held(arrays'[b])]
  BY DEF Contents, Held
<1>2. /\ DOMAIN Contents = DOMAIN arrays
      /\ \A b \in DOMAIN arrays : Contents[b] = Held(arrays[b])
  BY DEF Contents, Held
<1>3. /\ DOMAIN arrays' = DOMAIN arrays \ gone
      /\ \A b \in DOMAIN arrays' : arrays'[b] = arrays[b]
  BY DEF Destroyed
<1>4. Contents' = [b \in DOMAIN Contents \ gone |-> Contents[b]]
  BY <1>1, <1>2, <1>3
<1> QED BY <1>4 DEF Sequence!Destroy, Sequence!Next

\* The contents of an array that was not destroyed.
LEMMA ContentsOf ==
    ASSUME ArraysInv, NEW a \in DOMAIN arrays
    PROVE  /\ a \in Arrays /\ a \in DOMAIN Contents /\ Contents[a] = Held(arrays[a])
           /\ WellFormed(arrays[a])
BY DEF ArraysInv, Contents, Held

\* An element is pushed to an array that has room for it.
LEMMA StoreReads ==
    ASSUME ArraysInv, NEW a \in DOMAIN arrays, NEW array, NEW e \in Elements,
           WellFormed(array), array.size < array.capacity,
           Held(array) = Held(arrays[a]), Store(a, array, e)
    PROVE  Sequence!Next
<1>1. With(a, Pushed(array, e)) /\ e \in Contained
  BY DEF Store, Contained
<1>2. Sequence!Set(a, Append(Contents[a], e))
  <2>1. Held(Pushed(array, e)) = Append(Held(arrays[a]), e)
    BY <1>1, HeldPushed
  <2>2. Sequence!Set(a, Held(Pushed(array, e)))
    BY <1>1, SetReads
  <2> QED BY <2>1, <2>2, ContentsOf
<1>3. Sequence!Push(a, e)
  BY <1>2, ContentsOf DEF Sequence!Push
<1> QED BY <1>3, ContentsOf DEF Sequence!Next

\* The answer of an allocator is the creation of an array, or the end of a push.
LEMMA PlaceReads ==
    ASSUME ArraysInv, NEW req \in AnyRequest, Fitting(req), NEW base \in Nat, Place(req, base)
    PROVE  Sequence!Next
<1>1. req.array \in Arrays /\ req.allocator \in Allocators /\ req.capacity \in Nat
  BY DEF AnyRequest
<1>2. CASE req.array \in DOMAIN arrays
  <2> DEFINE old == arrays[req.array]
             new == Resized(old, base, req.capacity)
  <2>1. /\ WellFormed(old) /\ old.capacity <= req.capacity /\ old.size < req.capacity
        /\ req.element \in Elements
    BY <1>2, ContentsOf DEF Fitting
  <2>2. WellFormed(new) /\ new.capacity = req.capacity /\ new.size = old.size
    BY <1>1, <2>1, ResizedIsWellFormed
  <2>3. Held(new) = Held(old)
    BY <1>1, <2>1, HeldResized
  <2>4. Store(req.array, new, req.element)
    BY <1>2 DEF Place
  <2> HIDE DEF new
  <2> QED BY <1>2, <2>1, <2>2, <2>3, <2>4, StoreReads
<1>3. CASE req.array \notin DOMAIN arrays
  <2> DEFINE new == New(req.allocator, base, req.capacity)
  <2>1. With(req.array, new)
    BY <1>3 DEF Place
  <2>2. WellFormed(new) /\ new.size = 0
    BY <1>1, NewIsWellFormed DEF New
  <2> HIDE DEF new
  <2>3. Sequence!Set(req.array, << >>)
    BY <2>1, <2>2, HeldEmpty, SetReads
  <2>4. Sequence!Create(req.array)
    BY <1>3, <2>3 DEF Sequence!Create, Contents
  <2> QED BY <1>1, <2>4 DEF Sequence!Next
<1> QED BY <1>2, <1>3

\* The general allocator answers later, an arena at once or never.
LEMMA AllocateReads ==
    ASSUME DArrayInv, NEW req \in AnyRequest, Ready(req.allocator), Fitting(req), Allocate(req)
    PROVE  Sequence!Next \/ UNCHANGED Contents
<1>1. CASE UNCHANGED arrays
  BY <1>1 DEF Contents
<1>2. CASE ~UNCHANGED arrays
  <2>1. req.allocator # Heap /\ LinearAllocate(req)
    BY <1>2 DEF Allocate
  <2>2. Place(req, ArenaStart(req.allocator) + offset[req.allocator])
    BY <1>2, <2>1 DEF LinearAllocate
  <2>3. req.allocator \in Users /\ phase = "running"
    BY <2>1 DEF AnyRequest, Allocators, Ready
  <2>4. req.allocator \in DOMAIN mem
    BY <2>3 DEF DArrayInv, PagesInv, OneArena, TwoArenas, NoArena
  <2>5. ArenaStart(req.allocator) + offset[req.allocator] \in Nat
    BY <2>3, <2>4, ArenasApart DEF DArrayInv, ArraysInv, OffsetOK
  <2> QED BY <2>2, <2>5, PlaceReads DEF DArrayInv
<1> QED BY <1>1, <1>2

\* The operations of darray.h on an array that has its memory.
LEMMA OperationsRead ==
    ASSUME DArrayInv, Pop \/ PopAt \/ Clear \/ Destroy
    PROVE  Sequence!Next
<1>1. ArraysInv
  BY DEF DArrayInv
<1>2. CASE Pop
  <2>1. PICK a \in DOMAIN arrays :
          /\ arrays[a].size # 0
          /\ With(a, [arrays[a] EXCEPT !.size = @ - 1])
    BY <1>2 DEF Pop, Operate
  <2>2. /\ Held(arrays[a]) # << >>
        /\ Held([arrays[a] EXCEPT !.size = @ - 1]) = Sequence!Front(Held(arrays[a]))
    BY <1>1, <2>1, ContentsOf, HeldPopped
  <2>3. Sequence!Pop(a)
    BY <1>1, <2>1, <2>2, ContentsOf, SetReads DEF Sequence!Pop
  <2> QED BY <1>1, <2>3, ContentsOf DEF Sequence!Next
<1>3. CASE PopAt
  <2>1. PICK a \in DOMAIN arrays : \E index \in 1 .. arrays[a].size :
          With(a, [arrays[a] EXCEPT
            !.size = @ - 1,
            !.cells = [i \in 1 .. arrays[a].capacity |->
                         IF i \in index .. arrays[a].size - 1 THEN @[i + 1] ELSE @[i]]])
    BY <1>3 DEF PopAt, Operate
  <2>2. PICK index \in 1 .. arrays[a].size :
          With(a, [arrays[a] EXCEPT
            !.size = @ - 1,
            !.cells = [i \in 1 .. arrays[a].capacity |->
                         IF i \in index .. arrays[a].size - 1 THEN @[i + 1] ELSE @[i]]])
    BY <2>1
  <2> DEFINE cells == [i \in 1 .. arrays[a].capacity |->
                         IF i \in index .. arrays[a].size - 1
                         THEN arrays[a].cells[i + 1] ELSE arrays[a].cells[i]]
             new == [arrays[a] EXCEPT !.size = arrays[a].size - 1, !.cells = cells]
  <2>3. With(a, new)
    BY <2>2
  <2>4. WellFormed(new)
    <3>1. /\ arrays[a].size \in Nat /\ arrays[a].capacity \in Nat
          /\ arrays[a].size <= arrays[a].capacity
          /\ arrays[a].cells \in [1 .. arrays[a].capacity -> Contained]
          /\ WellFormed(arrays[a])
      BY <1>1, ContentsOf DEF WellFormed, ArrayRecord
    <3>2. cells \in [1 .. arrays[a].capacity -> Contained]
      <4> SUFFICES ASSUME NEW i \in 1 .. arrays[a].capacity
                   PROVE  (IF i \in index .. arrays[a].size - 1
                           THEN arrays[a].cells[i + 1] ELSE arrays[a].cells[i]) \in Contained
        OBVIOUS
      <4>1. i \in index .. arrays[a].size - 1 => i + 1 \in 1 .. arrays[a].capacity
        BY <3>1
      <4> QED BY <3>1, <4>1
    <3>3. arrays[a].size - 1 \in 0 .. arrays[a].size
      BY <3>1
    <3> HIDE DEF cells
    <3> QED BY <3>1, <3>2, <3>3, ShrunkIsWellFormed
  <2>5. Held(new) = Sequence!RemoveAt(Held(arrays[a]), index)
    BY <1>1, <2>4, ContentsOf, HeldPoppedAt
  <2> HIDE DEF new
  <2>6. Sequence!Set(a, Sequence!RemoveAt(Contents[a], index))
    BY <1>1, <2>3, <2>5, ContentsOf, SetReads
  <2>7. index \in 1 .. Len(Contents[a])
    BY <1>1, ContentsOf, HeldFacts
  <2>8. Sequence!PopAt(a, index) /\ a \in DOMAIN Contents
    BY <1>1, <2>6, <2>7, ContentsOf DEF Sequence!PopAt
  <2> QED BY <2>7, <2>8 DEF Sequence!Next
<1>4. CASE Clear
  <2>1. PICK a \in DOMAIN arrays : With(a, [arrays[a] EXCEPT !.size = 0])
    BY <1>4 DEF Clear, Operate
  <2> DEFINE new == [arrays[a] EXCEPT !.size = 0]
  <2>2. WellFormed(new) /\ new.size = 0
    <3>1. WellFormed(arrays[a]) /\ 0 \in 0 .. arrays[a].size
      BY <1>1, ContentsOf DEF WellFormed, ArrayRecord
    <3> QED BY <3>1, SizeIsWellFormed DEF WellFormed, ArrayRecord
  <2>3. With(a, new)
    BY <2>1
  <2> HIDE DEF new
  <2>4. Sequence!Clear(a)
    BY <1>1, <2>2, <2>3, ContentsOf, HeldEmpty, SetReads DEF Sequence!Clear
  <2> QED BY <1>1, <2>4, ContentsOf DEF Sequence!Next
<1>5. CASE Destroy
  <2>1. PICK a \in DOMAIN arrays : Destroyed({a})
    BY <1>5 DEF Destroy
  <2>2. {a} \subseteq Arrays
    BY <1>1, ContentsOf
  <2> QED BY <2>1, <2>2, DestroyReads
<1> QED BY <1>2, <1>3, <1>4, <1>5

\* Whatever becomes of the memory, an array is a sequence that only its own
\* operations change: moving it to a larger block, and the growth, the moves and
\* the end of the arrays around it, leave what it holds as it was.
THEOREM ArraysAreSequences == Spec => ImplementsSequences
<1>1. Init => Sequence!Init
  <2> SUFFICES ASSUME Init PROVE Contents = [b \in {} |-> << >>]
    BY DEF Sequence!Init
  <2>1. DOMAIN arrays = {}
    BY DEF Init
  <2> QED BY <2>1 DEF Contents
<1>2. DArrayInv /\ [Next]_vars => [Sequence!Next]_Contents
  <2> SUFFICES ASSUME DArrayInv, [Next]_vars
               PROVE  Sequence!Next \/ UNCHANGED Contents
    OBVIOUS
  <2>1. ArraysInv
    BY DEF DArrayInv
  <2>2. CASE UNCHANGED arrays
    BY <2>2 DEF Contents
  <2>3. CASE HeapAllocate
    <3>1. PICK req \in AnyRequest : request = <<req>> /\ req.allocator = Heap /\ Fitting(req)
      BY <2>3 DEF DArrayInv, RequestInv, HeapAllocate
    <3>2. PICK base \in 0 .. committed_pages * PageCells : Place(req, base)
      BY <2>3, <3>1 DEF HeapAllocate
    <3>3. base \in Nat
      BY CellsOfPages DEF DArrayInv, PagesInv
    <3> QED BY <2>1, <3>1, <3>2, <3>3, PlaceReads
  <2>4. CASE Create
    <3>1. PICK a \in Arrays \ DOMAIN arrays, allocator \in Allocators, capacity \in Capacities :
            Ready(allocator) /\ Allocate(Request(a, allocator, capacity, Garbage))
      BY <2>4 DEF Create
    <3> DEFINE req == Request(a, allocator, capacity, Garbage)
    <3>2. req \in AnyRequest
      BY DArrayAssumption DEF Request, AnyRequest, Contained
    <3>3. Fitting(req) /\ req.allocator = allocator
      BY DEF Request, Fitting
    <3> QED BY <3>1, <3>2, <3>3, AllocateReads
  <2>5. CASE Push
    <3>1. PICK a \in DOMAIN arrays, e \in Elements :
            /\ Ready(arrays[a].allocator) /\ arrays[a].capacity # 0
            /\ IF arrays[a].capacity <= arrays[a].size
               THEN Allocate(Request(a, arrays[a].allocator, 2 * arrays[a].capacity, e))
               ELSE Store(a, arrays[a], e)
      BY <2>5 DEF Push
    <3>2. /\ WellFormed(arrays[a]) /\ a \in Arrays /\ e \in Contained
          /\ arrays[a].allocator \in Allocators
          /\ arrays[a].capacity \in Nat /\ arrays[a].size \in Nat
          /\ arrays[a].size <= arrays[a].capacity
      BY <2>1, ContentsOf DEF WellFormed, ArrayRecord, Contained
    <3>3. CASE arrays[a].capacity <= arrays[a].size
      <4> DEFINE req == Request(a, arrays[a].allocator, 2 * arrays[a].capacity, e)
      <4>1. req \in AnyRequest
        BY <3>2 DEF Request, AnyRequest
      <4>2. /\ req.array = a /\ req.allocator = arrays[a].allocator
            /\ req.capacity = 2 * arrays[a].capacity /\ req.element = e
        BY DEF Request
      <4>3. Fitting(req)
        BY <3>1, <3>2, <4>2 DEF Fitting
      <4> QED BY <3>1, <3>3, <4>1, <4>2, <4>3, AllocateReads
    <3>4. CASE ~(arrays[a].capacity <= arrays[a].size)
      <4>1. arrays[a].size < arrays[a].capacity /\ Store(a, arrays[a], e)
        BY <3>1, <3>2, <3>4
      <4> QED BY <2>1, <3>2, <4>1, StoreReads
    <3> QED BY <3>3, <3>4
  <2>6. CASE Stop
    <3>1. PICK gone : gone \subseteq DOMAIN arrays /\ Destroyed(gone)
      BY <2>6 DEF Stop, In
    <3>2. gone \subseteq Arrays
      BY <2>1, <3>1, ContentsOf
    <3> QED BY <3>1, <3>2, DestroyReads
  <2> QED BY <2>2, <2>3, <2>4, <2>5, <2>6, OperationsRead DEF Next, Start, HeapGrow, vars
<1> QED BY <1>1, <1>2, DArrayInvariant, PTL DEF Spec, ImplementsSequences, Sequence!Spec
=============================================================================
