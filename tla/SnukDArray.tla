------------------------------ MODULE SnukDArray ------------------------------
(***************************************************************************)
(* The dynamic arrays of Snuk (src/darray.c) in the memory they live in:   *)
(* the general allocator of src/memory.c, which grows page by page, or the *)
(* arena of the runtime or of the interpreter (repl/runtime.h,             *)
(* interpreter.c), where every allocation follows the last one and nothing *)
(* is freed.  An array is a block: a header of one cell, then `capacity`   *)
(* cells of which the first `size` are in use.                             *)
(*                                                                         *)
(* The free list of the general allocator is external (snmemory): a block  *)
(* goes wherever it fits, and a request may fail although it fits.         *)
(***************************************************************************)
EXTENDS SnukPages, Sequences

CONSTANTS
    Arrays,         \* the arrays of a program
    Elements,       \* what is pushed
    Garbage,        \* the contents of a cell nothing was written to
    PageCells,      \* cells of a page
    Capacities,     \* capacities arrays are created with
    MaxLength       \* bound on the length of an array

ASSUME DArrayAssumption ==
    /\ Garbage \notin Elements
    /\ PageCells \in Nat \ {0}
    /\ Capacities \subseteq Nat
    /\ MaxLength \in Nat

VARIABLES
    offset,         \* cells used of each arena
    arrays,         \* header and cells of every array that was not destroyed
    request         \* the allocation snuk_alloc or snuk_realloc is working on, if any

vars == <<phase, committed_pages, reverse_committed_pages, mem, offset, arrays, request>>

Heap == "heap"
Allocators == Users \cup {Heap}

BlockSize(capacity) == capacity + 1
ArenaStart(user) == mem[user] * PageCells
ArenaSize(user) == PAGES[user] * PageCells

\* When code uses an allocator: the interpreter makes its first arrays before it
\* has its arena.
Ready(allocator) ==
    /\ request = << >>
    /\ phase = "running" \/ (phase = "runtime" /\ allocator = Heap)

Apart(start1, size1, start2, size2) ==
    start1 + size1 <= start2 \/ start2 + size2 <= start1

Block(a) == BlockSize(arrays[a].capacity)

(***************************************************************************)
(* Contents.                                                               *)
(***************************************************************************)
With(a, array) ==
    arrays' = [b \in DOMAIN arrays \cup {a} |-> IF b = a THEN array ELSE arrays[b]]

New(allocator, base, capacity) ==
    [allocator |-> allocator, base |-> base, capacity |-> capacity, size |-> 0,
     cells |-> [i \in 1 .. capacity |-> Garbage]]

\* Mutant: the last element is not copied.
Resized_Short(array, base, capacity) ==
    [array EXCEPT !.base = base, !.capacity = capacity,
                  !.cells = [i \in 1 .. capacity |->
                               IF i < array.capacity THEN array.cells[i] ELSE Garbage]]

\* impl_snuk_darray_resize once the block is at base: the old cells are copied.
Resized(array, base, capacity) ==
    [array EXCEPT !.base = base, !.capacity = capacity,
                  !.cells = [i \in 1 .. capacity |->
                               IF i <= array.capacity THEN array.cells[i] ELSE Garbage]]

\* The end of impl_snuk_darray_push.  Behind the last cell it writes to memory
\* that is not the array's.
Pushed(array, e) ==
    [array EXCEPT !.cells = [@ EXCEPT ![array.size + 1] = e], !.size = @ + 1]
Store(a, array, e) ==
    IF array.size < array.capacity
    THEN With(a, Pushed(array, e)) /\ UNCHANGED phase
    ELSE phase' = "overrun" /\ UNCHANGED arrays

(***************************************************************************)
(* Allocation.  A new array has no element to push yet.                    *)
(***************************************************************************)
Request(a, allocator, capacity, element) ==
    [array |-> a, allocator |-> allocator, capacity |-> capacity, element |-> element]

Place(req, base) ==
    IF req.array \in DOMAIN arrays
    THEN Store(req.array, Resized(arrays[req.array], base, req.capacity), req.element)
    ELSE With(req.array, New(req.allocator, base, req.capacity)) /\ UNCHANGED phase

\* Mutant: the old block of a resized array is used again.
LinearAllocate_Reuses(req) ==
    LET user == req.allocator
        size == BlockSize(req.capacity)
        old == IF req.array \in DOMAIN arrays THEN Block(req.array) ELSE 0
    IN IF offset[user] + size <= ArenaSize(user)
       THEN /\ Place(req, ArenaStart(user) + offset[user])
            /\ offset' = [offset EXCEPT ![user] = @ + size - old]
            /\ UNCHANGED <<pages, request>>
       ELSE /\ phase' = "crashed"
            /\ UNCHANGED <<pages, offset, arrays, request>>

\* sn_linear_allocator_allocate; runtime_alloc_fn and runtime_realloc_fn use its
\* result as it is, and the NULL of a full arena crashes the process.
LinearAllocate(req) ==
    LET user == req.allocator
        size == BlockSize(req.capacity)
    IN IF offset[user] + size <= ArenaSize(user)
       THEN /\ Place(req, ArenaStart(user) + offset[user])
            /\ offset' = [offset EXCEPT ![user] = @ + size]
            /\ UNCHANGED <<pages, request>>
       ELSE /\ phase' = "crashed"
            /\ UNCHANGED <<pages, offset, arrays, request>>

Allocate(req) ==
    IF req.allocator = Heap
    THEN request' = <<req>> /\ UNCHANGED <<phase, pages, offset, arrays>>
    ELSE LinearAllocate(req)

\* A place of the general allocator that is free, but for the block being moved.
Free(base, size, moved) ==
    /\ base + size <= committed_pages * PageCells
    /\ \A b \in DOMAIN arrays \ {moved} :
        arrays[b].allocator = Heap => Apart(base, size, arrays[b].base, Block(b))

\* snuk_alloc and snuk_realloc: until the free list has a place, grow by a page.
HeapAllocate ==
    /\ request # << >> /\ phase \in Live
    /\ \E base \in 0 .. committed_pages * PageCells :
        /\ Free(base, BlockSize(Head(request).capacity), Head(request).array)
        /\ Place(Head(request), base)
    /\ request' = << >>
    /\ UNCHANGED <<pages, offset>>

HeapGrow ==
    /\ request # << >>
    /\ TryIncreasingAllocatorSize
    /\ UNCHANGED <<offset, arrays, request>>

(***************************************************************************)
(* The operations of darray.h.                                             *)
(***************************************************************************)
Create ==
    \E a \in Arrays \ DOMAIN arrays, allocator \in Allocators, capacity \in Capacities :
        /\ Ready(allocator)
        /\ Allocate(Request(a, allocator, capacity, Garbage))

\* Mutant: the array grows one element late.
Push_GrowsLate ==
    \E a \in DOMAIN arrays, e \in Elements :
        /\ Ready(arrays[a].allocator)
        /\ arrays[a].capacity # 0 /\ arrays[a].size < MaxLength
        /\ IF arrays[a].capacity < arrays[a].size
           THEN Allocate(Request(a, arrays[a].allocator, 2 * arrays[a].capacity, e))
           ELSE Store(a, arrays[a], e) /\ UNCHANGED <<pages, offset, request>>

\* impl_snuk_darray_push.  An array created with capacity 0 would never grow;
\* no caller pushes to one.
Push ==
    \E a \in DOMAIN arrays, e \in Elements :
        /\ Ready(arrays[a].allocator)
        /\ arrays[a].capacity # 0 /\ arrays[a].size < MaxLength
        /\ IF arrays[a].capacity <= arrays[a].size
           THEN Allocate(Request(a, arrays[a].allocator, 2 * arrays[a].capacity, e))
           ELSE Store(a, arrays[a], e) /\ UNCHANGED <<pages, offset, request>>

Operate(a, array) ==
    /\ Ready(array.allocator)
    /\ With(a, array)
    /\ UNCHANGED <<phase, pages, offset, request>>

\* Mutant: an empty array is popped.
Pop_Empty == \E a \in DOMAIN arrays : Operate(a, [arrays[a] EXCEPT !.size = @ - 1])

\* impl_snuk_darray_pop, which leaves an empty array as it is.
Pop ==
    \E a \in DOMAIN arrays :
        /\ arrays[a].size # 0
        /\ Operate(a, [arrays[a] EXCEPT !.size = @ - 1])

\* impl_snuk_darray_pop_at of an index it asserts to be in bounds.
PopAt ==
    \E a \in DOMAIN arrays : \E index \in 1 .. arrays[a].size :
        Operate(a, [arrays[a] EXCEPT
            !.size = @ - 1,
            !.cells = [i \in 1 .. arrays[a].capacity |->
                         IF i \in index .. arrays[a].size - 1 THEN @[i + 1] ELSE @[i]]])

Clear == \E a \in DOMAIN arrays : Operate(a, [arrays[a] EXCEPT !.size = 0])

Destroyed(gone) == arrays' = [b \in DOMAIN arrays \ gone |-> arrays[b]]

\* impl_snuk_darray_destroy; an arena frees nothing before its user is gone.
Destroy ==
    \E a \in DOMAIN arrays :
        /\ Ready(arrays[a].allocator)
        /\ Destroyed({a})
        /\ UNCHANGED <<phase, pages, offset, request>>

(***************************************************************************)
(* The life of the process; arrays die with the memory they live in.       *)
(***************************************************************************)
In(allocator) == {a \in DOMAIN arrays : arrays[a].allocator = allocator}

Start ==
    /\ MemoryInit \/ RuntimeInit \/ InterpreterInit
    /\ request = << >>
    /\ UNCHANGED <<offset, arrays, request>>

Stop ==
    /\ request = << >>
    /\ \/ InterpreterDeinit /\ Destroyed(In("interpreter"))
       \/ RuntimeDeinit /\ Destroyed(In("runtime"))
       \/ MemoryDeinit /\ Destroyed(DOMAIN arrays)
    /\ UNCHANGED <<offset, request>>

Init ==
    /\ PagesInit
    /\ offset = [user \in Users |-> 0]
    /\ arrays = [a \in {} |-> << >>]
    /\ request = << >>

Next ==
    \/ Start \/ Stop
    \/ HeapAllocate \/ HeapGrow
    \/ Create \/ Push \/ Pop \/ PopAt \/ Clear \/ Destroy

Spec == Init /\ [][Next]_vars

\* The process is a single thread that keeps running.
FairSpec == Spec /\ WF_vars(Next)

(***************************************************************************)
(* Properties.                                                             *)
(***************************************************************************)
RequestType ==
    [array : Arrays, allocator : {Heap}, capacity : Nat, element : Elements \cup {Garbage}]

TypeOK ==
    /\ phase \in Phases
    /\ {committed_pages, reverse_committed_pages} \subseteq Nat
    /\ DOMAIN mem \subseteq Users /\ \A u \in DOMAIN mem : mem[u] \in Nat
    /\ \A u \in Users : offset[u] \in 0 .. ArenaSize(u)
    /\ DOMAIN arrays \subseteq Arrays
    /\ \A a \in DOMAIN arrays :
        /\ arrays[a].allocator \in Allocators
        /\ {arrays[a].base, arrays[a].capacity} \subseteq Nat
        /\ arrays[a].size \in 0 .. arrays[a].capacity
        /\ arrays[a].cells \in [1 .. arrays[a].capacity -> Elements \cup {Garbage}]
    /\ request \in Seq(RequestType)

\* No two arrays share a cell, in whichever allocator they are and however they
\* and the memory around them have grown: each lies in the used part of its
\* arena, or in the pages of the general allocator.
Located(array) ==
    LET end == array.base + BlockSize(array.capacity)
    IN IF array.allocator = Heap
       THEN end <= committed_pages * PageCells
       ELSE /\ array.allocator \in DOMAIN mem
            /\ ArenaStart(array.allocator) <= array.base
            /\ end <= ArenaStart(array.allocator) + offset[array.allocator]
ArraysApart ==
    /\ \A a \in DOMAIN arrays : Located(arrays[a])
    /\ \A a, b \in DOMAIN arrays :
        a # b => Apart(arrays[a].base, Block(a), arrays[b].base, Block(b))

\* An array is never written to behind its last cell.
StaysInside == phase # "overrun"

\* A request for memory is answered, or the process exits: snuk_alloc and
\* snuk_realloc call themselves again only after growing.  That the process may
\* exit is what the code does; memory.h says that a failed allocation returns NULL.
AllocationEnds == request # << >> ~> (request = << >> \/ phase = "failed")

\* The arrays are sequences, and each one is only changed by its own operations.
Contents == [a \in DOMAIN arrays |-> SubSeq(arrays[a].cells, 1, arrays[a].size)]
Sequence == INSTANCE SnukSequences WITH seqs <- Contents
ImplementsSequences == Sequence!Spec
=============================================================================
