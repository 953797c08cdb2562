------------------------------ MODULE SnukHeap ------------------------------
(***************************************************************************)
(* The memory of Snuk scopes: reference counters (snuk/refcount.h), the    *)
(* scopes they own (snuk_scope.h), the bindings in a scope (snuk_env.h)    *)
(* and the handles a value holds (snuk_value.c), as operators that take a  *)
(* heap and return the heap after the C function has run.                  *)
(*                                                                         *)
(* A heap maps every allocated counter to a cell.  A counter is named by a *)
(* number; NoScope is the NULL pointer.                                    *)
(***************************************************************************)
EXTENDS Integers, FiniteSets, Sequences

NoScope == 0
Scopes == Nat \ {NoScope}
References == Scopes \cup {NoScope}

\* A new counter gets the first number that is free.
FreshIn(h) ==
    LET free == (1 .. Cardinality(DOMAIN h) + 1) \ DOMAIN h
    IN CHOOSE r \in free : \A s \in free : r <= s

(***************************************************************************)
(* Values.  scope is the closure of fn_value, native_fn or type_value, weak *)
(* its weak_ref flag; owner is a method's instance or an instance's        *)
(* type_scope.  Values without handles are "plain" (numbers, strings, null,*)
(* interfaces, errors); "unknown" is SNUK_VALUE_UNKOWN.  A native function  *)
(* of null is a "null_fn".                                                 *)
(***************************************************************************)
Value(kind, scope, weak, owner) ==
    [kind |-> kind, scope |-> scope, weak |-> weak, owner |-> owner]
Plain == Value("plain", NoScope, FALSE, NoScope)
Unknown == Value("unknown", NoScope, FALSE, NoScope)
FunctionKinds == {"fn", "native", "null_fn"}
Kinds == {"plain", "unknown", "type", "inst"} \cup FunctionKinds
Values == [kind : Kinds, scope : References, weak : BOOLEAN, owner : References]

\* The handles of a value, each strong or weak.
Handle(target, weak) == [target |-> target, weak |-> weak]
ScopeHandle(v) == Handle(v.scope, v.weak)
OwnerHandle(v) == Handle(v.owner, v.kind \in FunctionKinds)
HandlesOf(v) == <<ScopeHandle(v), OwnerHandle(v)>>

(***************************************************************************)
(* Reference counters.  mem is TRUE while the counter owns its scope.      *)
(***************************************************************************)
Cell(parent) ==
    [strong |-> 1, weak |-> 0, mem |-> TRUE, parent |-> parent, weak_ref |-> FALSE, vars |-> << >>]

\* A counter that was already freed: used again, it shows up as miscounted.
Freed == [Cell(NoScope) EXCEPT !.strong = 0, !.mem = FALSE]
At(h, r) == IF r \in DOMAIN h THEN h[r] ELSE Freed
Update(h, r, cell) == [s \in DOMAIN h \cup {r} |-> IF s = r THEN cell ELSE h[s]]
Without(h, r) == [s \in DOMAIN h \ {r} |-> h[s]]

\* snuk_free(*rc) once no reference of either kind is left.
Settle(h, r, cell) ==
    IF cell.strong + cell.weak = 0 THEN Without(h, r) ELSE Update(h, r, cell)

Expired(h, r) == At(h, r).strong = 0

\* snuk_ref_counter_retain of an expired counter returns NULL and counts nothing.
Retain(h, r) ==
    IF Expired(h, r) THEN h ELSE Update(h, r, [h[r] EXCEPT !.strong = @ + 1])
Retained(h, r) == IF Expired(h, r) THEN NoScope ELSE r

RetainWeak(h, r) == Update(h, r, [At(h, r) EXCEPT !.weak = @ + 1])

ReleaseWeak(h, r) == Settle(h, r, [At(h, r) EXCEPT !.weak = @ - 1])

\* One counter less to a scope that has been emptied or has other holders.
ReleaseStrong(h, r) ==
    LET cell == At(h, r)
    IN Settle(h, r, [cell EXCEPT !.strong = @ - 1, !.mem = @ /\ cell.strong # 1])

\* A step of snuk_ref_counter_release and snuk_scope_destroy.  The last reference
\* to a scope frees its bindings one by one, gives up its parent, and goes itself.
\* owed are the handles still to be given up, the first one next.
FreeStep(s) ==
    LET handle == Head(s.owed)
        r == handle.target
        cell == At(s.heap, r)
        rest == Tail(s.owed)
    IN CASE r = NoScope -> [s EXCEPT !.owed = rest]
         [] r # NoScope /\ handle.weak -> [heap |-> ReleaseWeak(s.heap, r), owed |-> rest]
         [] r # NoScope /\ ~handle.weak ->
              IF cell.strong = 1 /\ cell.vars # << >>
              THEN [heap |-> Update(s.heap, r, [cell EXCEPT !.vars = Tail(@)]),
                    owed |-> HandlesOf(cell.vars[1].value) \o s.owed]
              ELSE IF cell.strong = 1 /\ cell.parent # NoScope
              THEN [heap |-> Update(s.heap, r, [cell EXCEPT !.parent = NoScope]),
                    owed |-> <<Handle(cell.parent, cell.weak_ref)>> \o s.owed]
              ELSE [heap |-> ReleaseStrong(s.heap, r), owed |-> rest]

\* No more steps than it takes to empty every scope of its bindings and its parent.
Contents(h) ==
    UNION {{r} \X ((IF h[r].parent = NoScope THEN 1 ELSE 0) .. Len(h[r].vars)) : r \in DOMAIN h}
Steps(h, owed) == Len(owed) + 3 * Cardinality(Contents(h))

FreeAll(h, owed) ==
    LET run[n \in 0 .. Steps(h, owed)] ==
            IF n = 0 THEN [heap |-> h, owed |-> owed]
            ELSE LET s == run[n - 1] IN IF s.owed = << >> THEN s ELSE FreeStep(s)
    IN run[Steps(h, owed)].heap

\* snuk_ref_counter_release.
Release(h, r) == FreeAll(h, <<Handle(r, FALSE)>>)

\* Mutant: the weak reference is not counted.
Downgrade_Uncounted(h, r) == Release(h, r)

Downgrade(h, r) == Release(RetainWeak(h, r), r)

(***************************************************************************)
(* Values own one reference per handle.                                    *)
(***************************************************************************)
RetainHandle(h, handle) ==
    IF handle.target = NoScope THEN h
    ELSE IF handle.weak THEN RetainWeak(h, handle.target)
    ELSE Retain(h, handle.target)

\* snuk_value_copy and snuk_value_free.
ValueCopy(h, v) == RetainHandle(RetainHandle(h, ScopeHandle(v)), OwnerHandle(v))
ValueFree(h, v) == FreeAll(h, HandlesOf(v))

(***************************************************************************)
(* Scopes and their bindings.                                              *)
(***************************************************************************)
\* snuk_scope_create takes over the caller's reference to the parent.
Create(h, r, parent) == Update(h, r, Cell(parent))

DowngradeParent(h, r) ==
    LET flagged == Update(h, r, [At(h, r) EXCEPT !.weak_ref = TRUE])
    IN IF At(h, r).parent = NoScope THEN flagged ELSE Downgrade(flagged, At(h, r).parent)

\* snuk_scope_set_parent with weak_ref = false.  Releasing the parent does not read
\* the pointer to it any more: it is cleared first.
SetParent(h, r, parent) ==
    LET cell == At(h, r)
        detached == Update(h, r, [cell EXCEPT !.parent = NoScope, !.weak_ref = FALSE])
        freed == FreeAll(detached, <<Handle(cell.parent, cell.weak_ref)>>)
    IN Update(freed, r, [At(freed, r) EXCEPT !.parent = parent])

Bound(h, r) == {At(h, r).vars[i].name : i \in 1 .. Len(At(h, r).vars)}
Binding(h, r, name) ==
    CHOOSE i \in 1 .. Len(h[r].vars) : h[r].vars[i].name = name
ValueOf(h, r, name) == h[r].vars[Binding(h, r, name)].value

\* snuk_env_create and snuk_scope_add_env of a name that is new in the scope.
AddEnv(h, r, name, v) ==
    LET copied == ValueCopy(h, v)
    IN Update(copied, r, [At(copied, r) EXCEPT !.vars = Append(@, [name |-> name, value |-> v])])

\* snuk_env_assign_value: the old value is freed before the new one is copied.
\* Freeing it must not destroy the scope that is being assigned to.
Cleared(h, r, name) ==
    LET emptied == Update(h, r, [h[r] EXCEPT !.vars[Binding(h, r, name)].value = Plain])
    IN ValueFree(emptied, ValueOf(h, r, name))
AssignDestroys(h, r, name) == ~At(Cleared(h, r, name), r).mem
AssignValue(h, r, name, v) ==
    LET copied == ValueCopy(Cleared(h, r, name), v)
    IN Update(copied, r, [copied[r] EXCEPT !.vars[Binding(copied, r, name)].value = v])

(***************************************************************************)
(* snuk_scope_lookup_recursive.  Reaching a scope whose counter no longer  *)
(* owns it dereferences a NULL pointer.  A chain that has become a cycle   *)
(* is followed for ever; its lookup ends here as Dangling too.             *)
(***************************************************************************)
Dangling == -1
Resolve(h, r, name) ==
    LET walk[n \in 0 .. Cardinality(DOMAIN h)] ==
            IF n = 0 THEN r
            ELSE LET s == walk[n - 1]
                 IN IF At(h, s).mem /\ name \notin Bound(h, s) THEN h[s].parent ELSE s
        last == walk[Cardinality(DOMAIN h)]
    IN CASE last = NoScope -> NoScope
         [] last # NoScope /\ name \in Bound(h, last) -> last
         [] last # NoScope /\ name \notin Bound(h, last) -> Dangling
=============================================================================
