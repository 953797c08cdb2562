------------------------------ MODULE SnukPages ------------------------------
(***************************************************************************)
(* The pages of the Snuk process (src/memory.c) and those who ask for      *)
(* them, in the order of repl/main.c and repl/runtime.h.  One reservation  *)
(* is committed from both ends: from the bottom for the general allocator, *)
(* one page at a time; from the top, in stack order, for the arenas of the *)
(* runtime (syntax trees) and of its interpreter.                          *)
(*                                                                         *)
(* Pages are numbered from 0.  The sums of the code are 32 bits wide, far  *)
(* above the pages of its one gigabyte, and do not wrap here.              *)
(***************************************************************************)
EXTENDS Naturals

CONSTANTS
    TotalPages,     \* allocator->total_pages
    PAGES           \* pages of the arena of each user: PAGES of runtime.h, interpreter.c

Users == {"runtime", "interpreter"}

ASSUME PagesAssumption == TotalPages \in Nat /\ PAGES \in [Users -> Nat \ {0}]

VARIABLES
    phase,                      \* how far main has come, or why it stopped
    committed_pages,            \* pages committed from the bottom
    reverse_committed_pages,    \* pages committed from the top
    mem                         \* first page of the arena of each user that has one

pageVars == <<phase, committed_pages, reverse_committed_pages, mem>>
pages == <<committed_pages, reverse_committed_pages, mem>>

\* log_fatal and exit(EXIT_FAILURE); the system may refuse to commit at any time.
RunOut == phase' = "failed" /\ UNCHANGED pages

\* Mutant: the pages committed from the other end are overlooked.
Fits_OneEnd(n) == n + committed_pages <= TotalPages

Fits(n) == n + committed_pages + reverse_committed_pages <= TotalPages

\* The phases in which memory may be asked for.
Live == {"memory", "runtime", "running", "closing", "closed"}

\* commit_pages of one page.
CommitPage ==
    /\ Fits(1)
    /\ committed_pages' = committed_pages + 1
    /\ UNCHANGED <<reverse_committed_pages, mem>>

\* Mutant: what cannot be committed is asked for again.
TryIncreasingAllocatorSize_Silent ==
    /\ phase \in Live
    /\ \/ CommitPage /\ UNCHANGED phase
       \/ ~Fits(1) /\ UNCHANGED pageVars

TryIncreasingAllocatorSize ==
    /\ phase \in Live
    /\ (CommitPage /\ UNCHANGED phase) \/ RunOut

\* snuk_allocate_pages, reverse_commit_pages.
AllocatePages(user, next) ==
    \/ /\ Fits(PAGES[user])
       /\ reverse_committed_pages' = reverse_committed_pages + PAGES[user]
       /\ mem' = [u \in DOMAIN mem \cup {user} |->
                    IF u = user THEN TotalPages - reverse_committed_pages - PAGES[user] ELSE mem[u]]
       /\ phase' = next
       /\ UNCHANGED committed_pages
    \/ RunOut

\* snuk_free_pages, reverse_decommit_pages: asserts that the arena is the last one.
FreePages(user, next) ==
    IF mem[user] = TotalPages - reverse_committed_pages
    THEN /\ reverse_committed_pages' = reverse_committed_pages - PAGES[user]
         /\ mem' = [u \in DOMAIN mem \ {user} |-> mem[u]]
         /\ phase' = next
         /\ UNCHANGED committed_pages
    ELSE phase' = "trapped" /\ UNCHANGED pages

(***************************************************************************)
(* The life of the process.                                                *)
(***************************************************************************)
MemoryInit ==
    /\ phase = "main"
    /\ (CommitPage /\ phase' = "memory") \/ RunOut

RuntimeInit == phase = "memory" /\ AllocatePages("runtime", "runtime")

InterpreterInit == phase = "runtime" /\ AllocatePages("interpreter", "running")

\* Mutant: the runtime gives its pages back first.
InterpreterDeinit_RuntimeFirst == phase = "running" /\ FreePages("runtime", "closing")

InterpreterDeinit == phase = "running" /\ FreePages("interpreter", "closing")

RuntimeDeinit == phase = "closing" /\ FreePages("runtime", "closed")

\* snuk_memory_deinit, reached without a runtime when there is nothing to run.
MemoryDeinit ==
    /\ phase \in {"memory", "closed"}
    /\ phase' = "exit"
    /\ committed_pages' = 0
    /\ reverse_committed_pages' = 0
    /\ UNCHANGED mem

PagesInit ==
    /\ phase = "main"
    /\ committed_pages = 0
    /\ reverse_committed_pages = 0
    /\ mem = [u \in {} |-> 0]

PagesNext ==
    \/ MemoryInit
    \/ RuntimeInit
    \/ InterpreterInit
    \/ InterpreterDeinit
    \/ RuntimeDeinit
    \/ MemoryDeinit
    \/ TryIncreasingAllocatorSize

PagesSpec == PagesInit /\ [][PagesNext]_pageVars

Phases == Live \cup {"main", "exit", "failed", "trapped", "crashed", "overrun"}

\* The arenas and the pages of the general allocator never meet: what is
\* committed from one end was free, and is not given out from the other.
PagesApart ==
    /\ \A u \in DOMAIN mem :
        committed_pages <= mem[u] /\ mem[u] + PAGES[u] <= TotalPages
    /\ {"runtime", "interpreter"} \subseteq DOMAIN mem
        => mem["interpreter"] + PAGES["interpreter"] <= mem["runtime"]

\* "should be freed in stack order, first allocated should be freed last"
\* (memory.h): the arenas are, and when the runtime is gone no page of one is left.
StackOrder ==
    /\ phase # "trapped"
    /\ phase = "closed" => reverse_committed_pages = 0 /\ DOMAIN mem = {}
=============================================================================
