\* Two arrays in all allocators, from the start of the process to its end.
SPECIFICATION FairSpec
CONSTANTS
    xs = xs
    ys = ys
    e = e
    f = f
    Arrays <- TwoArrays
    Elements <- TwoElements
    Garbage = 0
    TotalPages = 5
    PAGES <- Arenas
    PageCells = 3
    Capacities = {1}
    MaxLength = 3
INVARIANTS TypeOK PagesApart ArraysApart StaysInside StackOrder
PROPERTIES AllocationEnds ImplementsSequences
CHECK_DEADLOCK FALSE
