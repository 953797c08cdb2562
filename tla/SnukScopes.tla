----------------------------- MODULE SnukScopes -----------------------------
(***************************************************************************)
(* Who owns which scope while the Snuk interpreter runs a program.  The    *)
(* functions of src/interpreter/interpreter.c that create, keep, hand over *)
(* or drop scopes are modelled with every handle they hold: in a C local,  *)
(* in the value they return, in the trash, or in a register of             *)
(* SnukInterpreter.  Memory itself is SnukHeap.                            *)
(*                                                                         *)
(* As in SnukFlow the program is not fixed: each child is chosen among     *)
(* what may stand Inside its parent, each name among Names, and each body  *)
(* anew at every call.                                                     *)
(* Signals only cut a sequence of items short, which any sequence may be;  *)
(* if, while and for evaluate their bodies as a block does.                *)
(***************************************************************************)
EXTENDS SnukHeap

CONSTANTS
    Inside,         \* which construct may occur directly inside which
    Names,          \* variable, parameter and member names
    Natives,        \* names of the native methods, in order; << >>: there are no builtin types
    Faults,         \* TRUE: a value may fail a check of its declared type
    Builds,         \* a failed SNUK_ASSERT traps in a "debug" build only
    MaxStack,       \* bound on the depth of chosen children
    MaxScopes,      \* bound on the live scopes under which a child is chosen
    MaxParams,      \* bound on the parameters of a function
    MaxTrash,       \* bound on the trash under which a child is chosen
    MaxCount        \* bound on the reference counts under which a child is chosen

Expressions == {"block", "fn", "type", "inst", "call", "member", "assign"}
Statements == {"var", "extend", "interface"}
Constructs == {"exec_item"} \cup Expressions \cup Statements
Leaves == {"self", "name", "field"}   \* name: declared by syntax sugar; field: assigned to

ASSUME ScopesAssumption ==
    /\ Inside \subseteq Constructs \X (Constructs \cup Leaves)
    /\ Natives \in Seq(Names)
    /\ Faults \in BOOLEAN
    /\ Builds \subseteq {"debug", "release"}
    /\ {MaxStack, MaxScopes, MaxParams, MaxTrash, MaxCount} \subseteq Nat

VARIABLES
    heap,           \* counters, scopes and bindings
    current,        \* intpret->current
    instance,       \* intpret->instance
    trash,          \* intpret->trash
    stack,          \* frames of the running execute_* functions
    ret,            \* the value the last function returned, owned by its caller
    error,          \* a check has failed since the interpreter started
    trapped         \* why the process stopped, or "no"

vars == <<heap, current, instance, trash, stack, ret, error, trapped>>
registers == <<current, instance>>
status == <<error, trapped>>

Global == 1
Fresh == FreshIn(heap)
Self == "self"

\* The builtin types are alike: one stands for all.  It is a global variable, and
\* its instances keep what they stand for in the member "value".
Builtin == "int"
Identifiers == Names \cup {name \in {Builtin} : Natives # << >>}
Members == Names \cup {name \in {"value"} : Natives # << >>}

(***************************************************************************)
(* Frames.  val and type are values the function holds; hold is the saved  *)
(* current scope of a call or an extend, prev the saved instance of a      *)
(* call; params is the call's parameter scope once its body runs.  builtin *)
(* says that an instance is created by the name of a builtin type.         *)
(***************************************************************************)
Frame(fn, weak) ==
    [fn |-> fn, pc |-> "start", weak |-> weak, val |-> Plain, type |-> Plain,
     hold |-> NoScope, prev |-> NoScope, params |-> NoScope, builtin |-> FALSE]

Top == stack[Len(stack)]
Running(fn, pc) == trapped = "no" /\ stack # << >> /\ Top.fn = fn /\ Top.pc = pc
Become(frame) == stack' = [stack EXCEPT ![Len(stack)] = frame]
Goto(pc) == Become([Top EXCEPT !.pc = pc])
Call(pc, callee) == stack' = Append([stack EXCEPT ![Len(stack)].pc = pc], callee)
Return(value) == stack' = SubSeq(stack, 1, Len(stack) - 1) /\ ret' = value

Trap(why) ==
    /\ trapped' = why
    /\ UNCHANGED <<heap, current, instance, trash, stack, ret, error>>

\* A failed SNUK_INTERPRETER_CHECK returns at once; what the function held is lost.
Fail ==
    /\ error' = TRUE
    /\ Return(Plain)
    /\ UNCHANGED <<heap, current, instance, trash, trapped>>

Room ==
    /\ Len(stack) < MaxStack
    /\ Cardinality(DOMAIN heap) < MaxScopes
    /\ Len(trash) < MaxTrash
    /\ \A r \in DOMAIN heap : heap[r].strong < MaxCount /\ heap[r].weak < MaxCount

(***************************************************************************)
(* interpreter_push_scope, and interpreter_pop_scope of the heap.          *)
(***************************************************************************)
PushScope(h) ==
    /\ heap' = Create(h, Fresh, current)
    /\ current' = Fresh

\* The parent that a scope holds weakly may be gone: then there is no current
\* scope any more, and the first use of it ends the process.
CanPop(h) ==
    current # Global /\ h[current].parent # NoScope /\ ~Expired(h, h[current].parent)
PopTo(h) == h[current].parent
Popped(h) == Release(Retain(h, PopTo(h)), current)

PopKept(h, kept) ==
    IF Top.weak THEN DowngradeParent(Popped(h), kept) ELSE Popped(h)

\* snuk_scope_downgrade_parent of a scope whose parent is weak already: a debug build
\* asserts that it is not, a release build gives up a strong reference that the
\* scope does not hold.  What happens to a heap miscounted like that is not followed.
DowngradeAgain(h, kept) ==
    \/ "debug" \in Builds /\ Trap("assertion")
    \/ /\ "release" \in Builds
       /\ heap' = PopKept(h, kept)
       /\ current' = PopTo(h)
       /\ trapped' = "unowned"
       /\ UNCHANGED <<instance, trash, stack, ret, error>>

\* The current scope is popped while something keeps the scope kept, and Step goes on.
PopToKeep(h, kept, Step) ==
    \/ ~CanPop(h) /\ Trap("bottom")
    \/ CanPop(h) /\ Top.weak /\ h[kept].weak_ref /\ DowngradeAgain(h, kept)
    \/ CanPop(h) /\ ~(Top.weak /\ h[kept].weak_ref) /\ Step

\* interpreter_lookup: the scope that binds name.
Lookup(name) ==
    IF instance # NoScope /\ name \notin Bound(heap, current) /\ name \in Bound(heap, instance)
    THEN instance
    ELSE Resolve(heap, current, name)

(***************************************************************************)
(* Children.  An identifier is copied from the scope that binds it; an     *)
(* unbound one is "unknown".                                               *)
(***************************************************************************)
Result(pc, v) ==
    /\ ret' = v
    /\ heap' = ValueCopy(heap, v)
    /\ Goto(pc)
    /\ UNCHANGED <<registers, trash, status>>

EvalIdentifier(pc, name) ==
    LET scope == Lookup(name)
    IN \/ scope = Dangling /\ Trap("dangling")
       \/ scope = NoScope /\ Result(pc, Unknown)
       \/ scope \in DOMAIN heap /\ Result(pc, ValueOf(heap, scope, name))

\* `self` outside the methods of an instance fails a check.
EvalSelf(pc) ==
    \/ Lookup(Self) # NoScope /\ EvalIdentifier(pc, Self)
    \/ /\ Lookup(Self) = NoScope
       /\ error' = TRUE
       /\ Goto(pc)
       /\ UNCHANGED <<heap, registers, trash, ret, trapped>>

Choice(kinds, pc, weak) ==
    \E fn \in kinds :
        /\ <<Top.fn, fn>> \in Inside
        /\ Room
        /\ Call(pc, Frame(fn, weak))
        /\ UNCHANGED <<heap, registers, trash, ret, status>>

EvalExpr(pc, weak) ==
    \/ Result(pc, Plain)
    \/ \E name \in Identifiers : EvalIdentifier(pc, name)
    \/ <<Top.fn, "self">> \in Inside /\ EvalSelf(pc)
    \/ Choice(Expressions, pc, weak)

ExecItem(pc, weak) ==
    EvalExpr(pc, weak) \/ Choice(Statements, pc, weak)

\* The value of an item that is not the last one is freed.
FreeItem(fn, pc, next) ==
    /\ Running(fn, pc)
    /\ heap' = ValueFree(heap, ret)
    /\ ret' = Plain
    /\ Goto(next)
    /\ UNCHANGED <<registers, trash, status>>

Enter(fn, pc) ==
    /\ Running(fn, "start")
    /\ PushScope(heap)
    /\ Goto(pc)
    /\ UNCHANGED <<instance, trash, ret, status>>

\* snuk_interpreter_create_env, and the same followed by freeing the value.
BindIn(h, r, name, v) == ValueFree(AddEnv(h, r, name, v), v)
Declare(name, v) == AddEnv(heap, current, name, v)
Bind(name, v) == BindIn(heap, current, name, v)
CanDeclare(name) == name \notin Bound(heap, current)

\* A check of a value against a declared type: "unknown" fits every type.
Check(ok, Step) == (ok /\ Step) \/ (~ok /\ Fail)
CheckType(ok, v, Step) == Check(ok, Step) \/ (Faults /\ v.kind # "unknown" /\ Fail)

(***************************************************************************)
(* execute_block_expr.  When the block was evaluated as a part that must   *)
(* not keep its surroundings alive, a scope that a closure has captured    *)
(* holds its parent weakly from then on.                                   *)
(***************************************************************************)
ExecuteBlockExpr ==
    \/ Enter("block", "items")
    \/ FreeItem("block", "items", "item")
    \/ Running("block", "item") /\ ExecItem("items", FALSE)
    \/ /\ Running("block", "items")
       /\ LET held == Retain(heap, current)
          IN PopToKeep(held, current,
                 /\ heap' = Release(PopKept(held, current), current)
                 /\ current' = PopTo(held)
                 /\ Return(ret)
                 /\ UNCHANGED <<instance, trash, status>>)

(***************************************************************************)
(* The end of execute_fn_expr, execute_type_declaration and                *)
(* execute_inst_creation: the new scope is popped and kept by the value,   *)
(* with a weak parent if asked for, and the value may be given a name.     *)
(***************************************************************************)
\* The value is returned as it is, or bound to name in the scope that was popped to.
\* What was used on the way is kept in the trash, unless the name is taken.
ReturnNamed(h, to, v, used) ==
    /\ current' = to
    /\ UNCHANGED <<instance, trapped>>
    /\ \/ heap' = h /\ Return(v) /\ trash' = used /\ UNCHANGED error
       \/ \E name \in Names :
            /\ <<Top.fn, "name">> \in Inside
            /\ IF name \notin Bound(h, to)
               THEN heap' = AddEnv(h, to, name, v) /\ Return(v) /\ trash' = used /\ UNCHANGED error
               ELSE heap' = h /\ Return(Plain) /\ error' = TRUE /\ UNCHANGED trash

FinishScope(fn, kind) ==
    /\ Running(fn, "members")
    /\ LET held == Retain(heap, current)
       IN PopToKeep(held, current,
              ReturnNamed(PopKept(held, current), PopTo(held),
                          Value(kind, current, FALSE, NoScope), trash))

\* execute_fn_expr: parameters with the value of their default, or "unknown".
ExecuteFnExpr ==
    \/ Enter("fn", "members")
    \/ /\ Running("fn", "members")
       /\ Cardinality(Bound(heap, current)) < MaxParams
       /\ EvalExpr("param", FALSE) \/ Result("param", Unknown)
    \/ /\ Running("fn", "param")
       /\ \E name \in Names :
            CheckType(CanDeclare(name), ret,
                /\ heap' = Bind(name, ret)
                /\ ret' = Plain
                /\ Goto("members")
                /\ UNCHANGED <<registers, trash, status>>)
    \/ FinishScope("fn", "fn")

\* execute_type_declaration: members are items that do not keep the type alive.
ExecuteTypeDeclaration ==
    \/ Enter("type", "members")
    \/ Running("type", "members") /\ ExecItem("member", TRUE)
    \/ FreeItem("type", "member", "members")
    \/ Running("type", "member") /\ Faults /\ Fail
    \/ FinishScope("type", "type")

(***************************************************************************)
(* interpreter_set_member: the member of the instance, or a new member of  *)
(* the instance for one its type has.                                      *)
(***************************************************************************)
MemberScope(v, name) ==
    IF ~At(heap, v.scope).mem THEN Dangling
    ELSE IF name \in Bound(heap, v.scope) THEN v.scope
    ELSE IF v.kind = "inst" /\ name \in Bound(heap, v.owner) THEN v.owner
    ELSE NoScope

\* The heap once the member keeps a copy of v.
MemberSet(of, name, v) ==
    IF MemberScope(of, name) # of.scope
    THEN AddEnv(heap, of.scope, name, v)
    ELSE AssignValue(heap, of.scope, name, v)

\* Step goes on when the member could be written.
SetMember(of, name, v, Step) ==
    LET scope == IF of.kind \in {"type", "inst"} THEN MemberScope(of, name) ELSE NoScope
    IN CASE scope = Dangling -> Trap("dangling")
         [] scope = NoScope  -> Fail
         [] OTHER ->
            \/ Faults /\ v.kind # "unknown" /\ Fail
            \/ IF scope = of.scope /\ AssignDestroys(heap, scope, name) THEN Trap("destroyed")
               ELSE Step

(***************************************************************************)
(* execute_inst_creation: the instance's scope holds the members that are  *)
(* initialized and a weak `self`; the value also keeps the type's scope.   *)
(***************************************************************************)
Instantiate(name) ==
    LET scope == Lookup(name)
        type == IF scope \in DOMAIN heap THEN ValueOf(heap, scope, name) ELSE Unknown
        copied == ValueCopy(heap, type)
    IN IF scope = Dangling THEN Trap("dangling")
       ELSE IF type.kind # "type"
       THEN /\ heap' = copied
            /\ error' = TRUE
            /\ Return(Plain)
            /\ UNCHANGED <<registers, trash, trapped>>
       ELSE /\ heap' = Retain(Retain(Create(copied, Fresh, current), Fresh), type.scope)
            /\ current' = Fresh
            /\ Become([Top EXCEPT !.pc = "members", !.type = type, !.builtin = name = Builtin,
                                  !.val = Value("inst", Fresh, FALSE, type.scope)])
            /\ UNCHANGED <<instance, trash, ret, status>>

\* The `value` of a builtin type must be of that type, even if it is "unknown".
InstMember(name, next) ==
    Check(Top.builtin /\ name = "value" => ret.kind = "plain",
        SetMember(Top.val, name, ret,
            /\ heap' = ValueFree(MemberSet(Top.val, name, ret), ret)
            /\ ret' = Plain
            /\ Goto(next)
            /\ UNCHANGED <<registers, trash, status>>))

\* Mutant: `self` does not hold the type of the instance.
InstFinish_SelfWithoutType ==
    LET self == [Top.val EXCEPT !.weak = TRUE, !.owner = NoScope]
        bound == AddEnv(heap, current, Self, self)
    IN Check(CanDeclare(Self),
         PopToKeep(bound, Top.val.scope,
             ReturnNamed(PopKept(bound, Top.val.scope), PopTo(bound), Top.val,
                         Append(trash, Top.type))))

InstFinish ==
    LET self == [Top.val EXCEPT !.weak = TRUE]
        downgraded == Downgrade(ValueCopy(heap, Top.val), Top.val.scope)
        bound == ValueFree(AddEnv(downgraded, current, Self, self), self)
    IN \/ /\ ~CanDeclare(Self)
          /\ heap' = downgraded
          /\ error' = TRUE
          /\ Return(Plain)
          /\ UNCHANGED <<registers, trash, trapped>>
       \/ /\ CanDeclare(Self)
          /\ PopToKeep(bound, Top.val.scope,
                 ReturnNamed(PopKept(bound, Top.val.scope), PopTo(bound), Top.val,
                             Append(trash, Top.type)))

\* The instance that stands for a literal is given its `value` and no name.
ExecuteInstCreation ==
    \/ Running("inst", "start") /\ \E name \in Identifiers : Instantiate(name)
    \/ Running("inst", "members") /\ EvalExpr("init", TRUE)
    \/ Running("inst", "init") /\ \E name \in Members : InstMember(name, "members")
    \/ Running("inst", "members") /\ InstFinish
    \/ Running("literal", "start") /\ Instantiate(Builtin)
    \/ Running("literal", "members") /\ InstMember("value", "value")
    \/ Running("literal", "value") /\ InstFinish

(***************************************************************************)
(* execute_call_expr.  The arguments are evaluated in the scope that will  *)
(* hold the parameters, while it is still a child of the caller's scope;   *)
(* then it becomes a child of the function's closure.                      *)
(***************************************************************************)
CallEnter ==
    /\ Running("call", "callee")
    /\ IF ret.kind \notin FunctionKinds THEN Fail
       ELSE LET self == IF ret.owner = NoScope THEN NoScope ELSE Retained(heap, ret.owner)
            IN /\ PushScope(IF self = NoScope THEN heap ELSE Retain(heap, self))
               /\ instance' = self
               /\ Become([Top EXCEPT !.pc = "args", !.val = ret, !.prev = instance])
               /\ ret' = Plain
               /\ UNCHANGED <<trash, status>>

\* The parameters, with their default values, and those not given so far.
Params == At(heap, Top.val.scope).vars
Missing(n) == Params[n].name \notin Bound(heap, current)

\* Too many arguments, or one for a parameter that does not exist, are refused.
CallArgument ==
    \/ Running("call", "args") /\ Fail
    \/ Running("call", "args") /\ (\E n \in DOMAIN Params : Missing(n)) /\ EvalExpr("arg", TRUE)
    \/ /\ Running("call", "arg")
       /\ \E name \in Bound(heap, Top.val.scope) :
            CheckType(CanDeclare(name), ret,
                /\ heap' = Bind(name, ret)
                /\ ret' = Plain
                /\ Goto("args")
                /\ UNCHANGED <<registers, trash, status>>)

\* The heap once the missing ones among the first n have taken their default.
Defaulted(n) ==
    LET filled[k \in 0 .. n] ==
            IF k = 0 THEN heap
            ELSE IF ~Missing(k) THEN filled[k - 1]
            ELSE AddEnv(filled[k - 1], current, Params[k].name, Params[k].value)
    IN filled[n]
Refused(n) == Missing(n) /\ Params[n].value.kind = "unknown"

\* A missing parameter without a default, or with one that does not fit any more,
\* is refused when those before it have been bound.
CallDefault ==
    /\ Running("call", "args")
    /\ \E n \in DOMAIN Params :
        /\ Refused(n) \/ (Faults /\ Missing(n))
        /\ \A k \in 1 .. n - 1 : ~Refused(k)
        /\ heap' = Defaulted(n - 1)
    /\ error' = TRUE
    /\ Return(Plain)
    /\ UNCHANGED <<registers, trash, trapped>>

CallBody ==
    /\ Running("call", "args")
    /\ \A n \in DOMAIN Params : ~Refused(n)
    /\ LET held == Retain(Defaulted(Len(Params)), current)
       IN IF ~CanPop(held) THEN Trap("bottom")
          ELSE /\ heap' = SetParent(Retain(Popped(held), Top.val.scope), current, Top.val.scope)
               /\ Become([Top EXCEPT !.pc = "body", !.hold = PopTo(held), !.params = current])
               /\ UNCHANGED <<registers, trash, ret, status>>

\* Mutant: the instance of a method call is not released.
CallReturn_KeepsInstance ==
    /\ Running("call", "return")
    /\ heap' = Release(heap, current)
    /\ current' = Top.hold
    /\ instance' = Top.prev
    /\ trash' = Append(trash, Top.val)
    /\ Return(ret)
    /\ UNCHANGED status

\* Mutant: the instance stays what it was during the call.
CallReturn_StaysInMethod ==
    /\ Running("call", "return")
    /\ heap' = Release(heap, current)
    /\ current' = Top.hold
    /\ trash' = Append(trash, Top.val)
    /\ Return(ret)
    /\ UNCHANGED <<instance, status>>

\* Mutant: the scope of the parameters is not released.
CallReturn_KeepsParameters ==
    /\ Running("call", "return")
    /\ heap' = IF instance = NoScope THEN heap ELSE Release(heap, instance)
    /\ current' = Top.hold
    /\ instance' = Top.prev
    /\ trash' = Append(trash, Top.val)
    /\ Return(ret)
    /\ UNCHANGED status

CallReturn ==
    /\ Running("call", "return")
    /\ LET left == Release(heap, current)
       IN heap' = IF instance = NoScope THEN left ELSE Release(left, instance)
    /\ current' = Top.hold
    /\ instance' = Top.prev
    /\ trash' = Append(trash, Top.val)
    /\ Return(ret)
    /\ UNCHANGED status

(***************************************************************************)
(* The native functions of the builtin types look `value` up, copy and     *)
(* free it and return a new plain value, or "unknown" for a value of       *)
(* another type; there str.get frees two variables that were never set.    *)
(* Those of null return a constant.                                        *)
(***************************************************************************)
NativeReturn(v) ==
    /\ ret' = v
    /\ Goto("return")
    /\ UNCHANGED <<heap, registers, trash, status>>

NativeBody ==
    LET scope == Lookup("value")
        known == scope \in DOMAIN heap /\ ValueOf(heap, scope, "value").kind = "plain"
    IN IF Top.val.kind = "null_fn" THEN NativeReturn(Plain)
       ELSE IF scope = Dangling THEN Trap("dangling")
       ELSE \/ known /\ NativeReturn(Plain)
            \/ NativeReturn(Unknown)
            \/ Trap("uninitialized")

ExecuteCallExpr ==
    \/ Running("call", "start") /\ EvalExpr("callee", Top.weak)
    \/ CallEnter
    \/ CallArgument
    \/ CallDefault
    \/ CallBody
    \/ /\ Running("call", "body") /\ Top.val.kind = "fn"
       /\ Call("return", Frame("block", FALSE))
       /\ UNCHANGED <<heap, registers, trash, ret, status>>
    \/ Running("call", "body") /\ NativeBody
    \/ CallReturn

(***************************************************************************)
(* execute_member_get: a copy of the member; a method is given the         *)
(* instance it was read from.  The owner is kept in the trash until the    *)
(* next top-level item.                                                    *)
(***************************************************************************)
IsMethod(of, member) == of.kind = "inst" /\ member.kind \in FunctionKinds

\* Mutant: the reference of a method to its instance is not counted.
GetMember_Uncounted(of, name) ==
    LET scope == MemberScope(of, name)
        member == IF scope = NoScope THEN Unknown ELSE ValueOf(heap, scope, name)
    IN IF scope = Dangling THEN Trap("dangling")
       ELSE IF member.kind = "unknown" THEN Fail
       ELSE /\ heap' = ValueCopy(heap, member)
            /\ Return(IF IsMethod(of, member) THEN [member EXCEPT !.owner = of.scope] ELSE member)
            /\ trash' = Append(trash, of)
            /\ UNCHANGED <<registers, status>>

\* Mutant: the owner is lost instead of kept in the trash.
GetMember_OwnerLost(of, name) ==
    LET scope == MemberScope(of, name)
        member == IF scope = NoScope THEN Unknown ELSE ValueOf(heap, scope, name)
        copied == ValueCopy(heap, member)
    IN IF scope = Dangling THEN Trap("dangling")
       ELSE IF member.kind = "unknown" THEN Fail
       ELSE /\ heap' = IF IsMethod(of, member) THEN RetainWeak(copied, of.scope) ELSE copied
            /\ Return(IF IsMethod(of, member) THEN [member EXCEPT !.owner = of.scope] ELSE member)
            /\ UNCHANGED <<registers, trash, status>>

GetMember(of, name) ==
    LET scope == MemberScope(of, name)
        member == IF scope = NoScope THEN Unknown ELSE ValueOf(heap, scope, name)
        copied == ValueCopy(heap, member)
    IN IF scope = Dangling THEN Trap("dangling")
       ELSE IF member.kind = "unknown" THEN Fail
       ELSE /\ heap' = IF IsMethod(of, member) THEN RetainWeak(copied, of.scope) ELSE copied
            /\ Return(IF IsMethod(of, member) THEN [member EXCEPT !.owner = of.scope] ELSE member)
            /\ trash' = Append(trash, of)
            /\ UNCHANGED <<registers, status>>

\* snuk_native_create_fn and snuk_native_create_type with weak_ref: the scope
\* that was pushed on parent is popped, kept by the value, and its parent weak.
KeptWeakly(h, r, parent) == DowngradeParent(Release(Retain(Retain(h, r), parent), r), r)
NativeFn(h, r, parent) == KeptWeakly(Create(h, r, parent), r, parent)

\* builtin_null_get_member builds the function anew at every access.
GetMemberOfNull ==
    \/ Fail
    \/ /\ Natives # << >>
       /\ heap' = NativeFn(heap, Fresh, current)
       /\ Return(Value("null_fn", Fresh, FALSE, NoScope))
       /\ trash' = Append(trash, ret)
       /\ UNCHANGED <<registers, status>>

\* A number, truth value or string is put into an instance of its builtin type.
InstanceOfLiteral ==
    /\ Natives # << >>
    /\ Call("literal", Frame("literal", Top.weak))
    /\ UNCHANGED <<heap, registers, trash, ret, status>>

ExecuteMemberGet ==
    \/ Running("member", "start") /\ EvalExpr("owner", Top.weak)
    \/ /\ Running("member", "owner")
       /\ CASE ret.kind \in {"type", "inst"} -> \E name \in Members : GetMember(ret, name)
            [] ret.kind = "plain" -> GetMemberOfNull \/ InstanceOfLiteral \/ Trap("unreachable")
            [] OTHER -> Trap("unreachable")
    \/ /\ Running("member", "literal")
       /\ IF ret.kind = "inst" THEN \E name \in Members : GetMember(ret, name) ELSE Fail

(***************************************************************************)
(* execute_assign_expr, to a variable or to a member.                      *)
(***************************************************************************)
AssignVariable(name) ==
    LET scope == Lookup(name)
    IN CASE scope = Dangling -> Trap("dangling")
         [] scope = NoScope  -> Fail
         [] OTHER ->
            \/ Faults /\ ret.kind # "unknown" /\ Fail
            \/ IF AssignDestroys(heap, scope, name) THEN Trap("destroyed")
               ELSE /\ heap' = AssignValue(heap, scope, name, ret)
                    /\ Return(ret)
                    /\ UNCHANGED <<registers, trash, status>>

ExecuteAssignExpr ==
    \/ Running("assign", "start") /\ EvalExpr("value", Top.weak)
    \/ Running("assign", "value") /\ \E name \in Identifiers : AssignVariable(name)
    \/ /\ Running("assign", "value")
       /\ <<"assign", "field">> \in Inside
       /\ Become([Top EXCEPT !.pc = "member", !.val = ret])
       /\ ret' = Plain
       /\ UNCHANGED <<heap, registers, trash, status>>
    \/ Running("assign", "member") /\ EvalExpr("owner", Top.weak)
    \/ /\ Running("assign", "owner")
       /\ \E name \in Members :
            SetMember(ret, name, Top.val,
                /\ heap' = MemberSet(ret, name, Top.val)
                /\ trash' = Append(trash, ret)
                /\ Return(Top.val)
                /\ UNCHANGED <<registers, status>>)

\* A var or const item.
ExecuteVarDecl ==
    \/ Running("var", "start") /\ EvalExpr("value", Top.weak)
    \/ /\ Running("var", "value")
       /\ \E name \in Names :
            CheckType(CanDeclare(name), ret,
                /\ heap' = Declare(name, ret)
                /\ Return(ret)
                /\ UNCHANGED <<registers, trash, status>>)

\* execute_interface: the name is bound to a value without handles.
ExecuteInterface ==
    /\ Running("interface", "start")
    /\ \E name \in Names :
        Check(CanDeclare(name),
            /\ heap' = Declare(name, Plain)
            /\ Return(Plain)
            /\ UNCHANGED <<registers, trash, status>>)

\* Mutant: the current scope is not restored.
ExtendLeave_StaysInType ==
    /\ Running("extend", "members")
    /\ Return([Top.val EXCEPT !.scope = current])
    /\ UNCHANGED <<heap, current, instance, trash, status>>

ExtendLeave ==
    /\ Running("extend", "members")
    /\ current' = Top.hold
    /\ Return([Top.val EXCEPT !.scope = current])
    /\ UNCHANGED <<heap, instance, trash, status>>

\* execute_extend: the type's scope is the current one while members are added.
ExecuteExtend ==
    \/ Running("extend", "start") /\ EvalExpr("type", Top.weak)
    \/ /\ Running("extend", "type")
       /\ Check(ret.kind = "type",
            /\ Become([Top EXCEPT !.pc = "members", !.hold = current,
                                  !.val = [ret EXCEPT !.scope = NoScope]])
            /\ current' = ret.scope
            /\ ret' = Plain
            /\ UNCHANGED <<heap, instance, trash, status>>)
    \/ Running("extend", "members") /\ ExecItem("member", TRUE)
    \/ FreeItem("extend", "member", "members")
    \/ Running("extend", "member") /\ Faults /\ Fail
    \/ ExtendLeave

(***************************************************************************)
(* snuk_interpreter_exec_item on a top-level item, whose value the runtime *)
(* frees (snuk_runtime_execute), and snuk_interpreter_deinit.              *)
(***************************************************************************)
ClearedTrash ==
    LET freed[n \in 0 .. Len(trash)] == IF n = 0 THEN heap ELSE ValueFree(freed[n - 1], trash[n])
    IN freed[Len(trash)]

ExecuteTopItem ==
    \/ /\ trapped = "no" /\ stack = << >>
       /\ heap' = ClearedTrash
       /\ trash' = << >>
       /\ stack' = <<Frame("exec_item", TRUE)>>
       /\ UNCHANGED <<registers, ret, status>>
    \/ Running("exec_item", "start") /\ ExecItem("done", TRUE)
    \/ /\ Running("exec_item", "done")
       /\ heap' = ValueFree(heap, ret)
       /\ Return(Plain)
       /\ UNCHANGED <<registers, trash, status>>

Exit ==
    /\ heap' = Release(Release(ClearedTrash, current), Global)
    /\ trash' = << >>
    /\ current' = NoScope
    /\ trapped' = "exit"
    /\ UNCHANGED <<instance, stack, ret, error>>

\* A debug build asserts that no method instance is left.
Deinit ==
    /\ trapped = "no" /\ stack = << >>
    /\ \/ instance # NoScope /\ "debug" \in Builds /\ Trap("instance")
       \/ (instance = NoScope \/ "release" \in Builds) /\ Exit

\* intpret->global and intpret->current both hold the global scope.
GlobalOnly == [r \in {Global} |-> [Cell(NoScope) EXCEPT !.strong = 2]]

\* snuk_builtins_create_builtin_types: the type, whose members are `value` and
\* native functions, each with a scope of its own.
AddNative(h, r, name) ==
    LET scope == FreshIn(h)
    IN BindIn(NativeFn(h, scope, r), r, name, Value("native", scope, FALSE, NoScope))

AddBuiltin(h) ==
    LET scope == FreshIn(h)
        opened == AddEnv(Create(h, scope, Global), scope, "value", Plain)
        filled[n \in 0 .. Len(Natives)] ==
            IF n = 0 THEN opened ELSE AddNative(filled[n - 1], scope, Natives[n])
    IN BindIn(KeptWeakly(filled[Len(Natives)], scope, Global), Global, Builtin,
                   Value("type", scope, FALSE, NoScope))

Init ==
    /\ heap = IF Natives = << >> THEN GlobalOnly ELSE AddBuiltin(GlobalOnly)
    /\ current = Global
    /\ instance = NoScope
    /\ trash = << >>
    /\ stack = << >>
    /\ ret = Plain
    /\ error = FALSE
    /\ trapped = "no"

Next ==
    \/ ExecuteTopItem
    \/ ExecuteBlockExpr
    \/ ExecuteFnExpr
    \/ ExecuteTypeDeclaration
    \/ ExecuteInstCreation
    \/ ExecuteCallExpr
    \/ ExecuteMemberGet
    \/ ExecuteAssignExpr
    \/ ExecuteVarDecl
    \/ ExecuteExtend
    \/ ExecuteInterface
    \/ Deinit

Spec == Init /\ [][Next]_vars

(***************************************************************************)
(* Properties.                                                             *)
(***************************************************************************)
\* Every counter, binding, register and frame has its type.
TypeOK ==
    /\ DOMAIN heap \subseteq Scopes
    /\ \A r \in DOMAIN heap :
        /\ heap[r].strong \in Nat /\ heap[r].weak \in Nat
        /\ heap[r].parent \in References
        /\ \A i \in DOMAIN heap[r].vars : heap[r].vars[i].value \in Values
    /\ {current, instance} \subseteq References
    /\ \A i \in DOMAIN trash : trash[i] \in Values
    /\ \A k \in DOMAIN stack : {stack[k].val, stack[k].type} \subseteq Values
    /\ ret \in Values
    /\ error \in BOOLEAN
    /\ trapped \in {"no", "exit", "dangling", "destroyed", "bottom", "assertion",
                    "unowned", "instance", "unreachable", "uninitialized"}

\* All handles there are, each with the place that holds it: a binding, a parent,
\* a value held by C code or the trash, a register or a saved register.
HandlesIn(place, v) == {<<place, 1, ScopeHandle(v)>>, <<place, 2, OwnerHandle(v)>>}
Strong(place, r) == {<<place, 0, Handle(r, FALSE)>>}
BindingHandles(r) ==
    UNION {HandlesIn(<<"binding", r, i>>, heap[r].vars[i].value) : i \in 1 .. Len(heap[r].vars)}
ParentHandle(r) == {<<<<"parent", r>>, 0, Handle(heap[r].parent, heap[r].weak_ref)>>}
FrameHandles(k) ==
    HandlesIn(<<"val", k>>, stack[k].val) \cup HandlesIn(<<"type", k>>, stack[k].type)
    \cup Strong(<<"hold", k>>, stack[k].hold) \cup Strong(<<"prev", k>>, stack[k].prev)

HeapHandles == UNION {BindingHandles(r) \cup ParentHandle(r) : r \in DOMAIN heap}
StackHandles == UNION {FrameHandles(k) : k \in 1 .. Len(stack)}
TrashHandles == UNION {HandlesIn(<<"trash", i>>, trash[i]) : i \in 1 .. Len(trash)}
AllHandles ==
    HeapHandles \cup StackHandles \cup TrashHandles \cup HandlesIn(<<"ret">>, ret)
    \cup Strong(<<"current">>, current) \cup Strong(<<"instance">>, instance)
    \cup Strong(<<"global">>, IF trapped = "exit" THEN NoScope ELSE Global)

Counted(handles, r, weak) == Cardinality({p \in handles : p[3] = Handle(r, weak)})

\* A counter has at least as many strong and weak references as there are handles.
HandlesCovered ==
    LET handles == AllHandles
    IN /\ \A p \in handles : p[3].target \in DOMAIN heap \cup {NoScope}
       /\ \A r \in DOMAIN heap : /\ heap[r].strong >= Counted(handles, r, FALSE)
                                 /\ heap[r].weak >= Counted(handles, r, TRUE)

\* No handle outlives what it counts on, in every program, whatever checks fail, so
\* nothing is destroyed too early or freed twice: in a debug build always, in a
\* release build until the assertion of snuk_scope_downgrade_parent would have failed.
CountsCoverHandles == trapped # "unowned" => HandlesCovered

\* As long as no check fails, no strong reference is lost either: what nothing
\* holds any more has been destroyed.
StrongCountsExact ==
    ~error /\ trapped # "unowned"
    => LET handles == AllHandles
       IN \A r \in DOMAIN heap : heap[r].strong = Counted(handles, r, FALSE)

\* As long as no check fails, a scope gives the strong reference to its parent up
\* once, and a method its instance back: pushes and pops, calls and returns nest.
AssertionsHold == ~error => trapped \notin {"assertion", "unowned", "instance"}

\* A scope that outlives the interpreter is kept by a cycle of scopes: each one
\* that is left has a holder that is left as well.  (Bare counters may be left: a
\* method stored in an instance loses its weak reference when it is read.)
OnlyCyclesLeak ==
    trapped = "exit" /\ ~error
    => LET held == {p[3].target : p \in AllHandles}
       IN \A r \in DOMAIN heap : heap[r].mem => r \in held

\* "the captured bindings [stay] alive for as long as the function value is
\* reachable" (snuk_value.h): no lookup goes through a scope that is gone.
NoDanglingLookup == trapped # "dangling"

\* A method finds the scopes of its closure, its type and its instance, and what
\* it assigns to stays where it is, whatever it assigns to and wherever it was
\* called from: the call holds the instance, whose `self` holds the type.
MethodScopesAlive == trapped \in {"dangling", "destroyed"} => instance = NoScope
=============================================================================
