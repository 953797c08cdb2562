------------------------------ MODULE SnukFlow ------------------------------
(***************************************************************************)
(* The control machine of the Snuk tree-walking interpreter                *)
(* (src/interpreter/interpreter.c).  The C call stack of the execute_*     *)
(* functions is a sequence of frames; beside it live the registers of      *)
(* SnukInterpreter that control flow depends on: the current scope, the    *)
(* current method instance, the pending signal and the error latch.        *)
(*                                                                         *)
(* The program being run is not fixed: wherever the interpreter evaluates  *)
(* a child expression or item, the next child is chosen among Constructs.  *)
(* Values are left out; where the code branches on one, both branches are  *)
(* taken.                                                                  *)
(***************************************************************************)
EXTENDS Naturals, Sequences

CONSTANTS
    Constructs,     \* the constructs programs are made of
    Instances,      \* type instances whose methods may be called
    NoInstance,     \* the NULL instance
    MaxStack,       \* bound on the depth of chosen children
    MaxChain,       \* bound on the scope chain under which a child is chosen
    Structured,     \* TRUE: signals are raised only in statement position
    Faults,         \* TRUE: a run-time check on a value may fail, or a switch not list it
    Builds          \* a failed SNUK_ASSERT traps in a "debug" build only

Loops == {"while", "do", "for"}
Members == {"type", "fn", "inst"}
Operators == {"unary", "binary", "assign", "member"}
Expressions == {"block", "if", "call"} \cup Loops \cup Members \cup Operators
Statements == {"var", "print", "return", "break", "continue", "extend"}
Signals == {"continue", "break", "return"}
None == "none"

ASSUME ConstantsAssumption ==
    /\ Constructs \subseteq Expressions \cup Statements
    /\ NoInstance \notin Instances
    /\ {MaxStack, MaxChain} \subseteq Nat
    /\ {Structured, Faults} \subseteq BOOLEAN
    /\ Builds \subseteq {"debug", "release"}

VARIABLES
    stack,          \* frames of the running execute_* functions
    current,        \* intpret->current: scope chain, global scope first
    instance,       \* intpret->instance
    signal,         \* intpret->signal
    panic_mode,     \* intpret->panic_mode
    error,          \* intpret->error has been written
    trapped         \* what stopped the process at an assertion or a crash, or "no"

vars == <<stack, current, instance, signal, panic_mode, error, trapped>>

(***************************************************************************)
(* Scopes.  A scope is named by the stack level of the function that       *)
(* pushed it; a scope kept alive by a closure is Captured.                 *)
(*                                                                         *)
(* A chain is Unknown once a call has given a new parent to a scope that   *)
(* is not its own, which takes a check that failed: other chains may go    *)
(* through that scope, or it may have become its own ancestor.             *)
(***************************************************************************)
Global == <<0>>
Unknown == << >>
Captured == MaxStack + 2
Level == Len(stack)
Child(chain, scope) == IF chain = Unknown THEN Unknown ELSE Append(chain, scope)
Parent(chain) == SubSeq(chain, 1, Len(chain) - 1)

\* Scope chains a function value or a type reachable from here may hold.
Closures ==
    IF current = Unknown THEN {Unknown}
    ELSE {Child(SubSeq(current, 1, n), Captured) : n \in 1 .. Len(current)}

(***************************************************************************)
(* Frames.  entry and self are the registers when the function was called. *)
(* pc is the point the function resumes at.  role is the position of the   *)
(* construct in its parent: a statement of a block, an operand, or the     *)
(* block a construct runs as its body or branch, or the instance made of a *)
(* plain value.                                                            *)
(***************************************************************************)
Frame(fn, pc, role, capture, pass) ==
    [fn |-> fn, pc |-> pc, role |-> role, capture |-> capture, pass |-> pass,
     entry |-> current, self |-> instance,
     temp |-> current, scope |-> current, prev |-> instance, method |-> instance]

Top == stack[Len(stack)]
Running(fns, pc) == trapped = "no" /\ stack # << >> /\ Top.fn \in fns /\ Top.pc = pc
At(pc) == [Top EXCEPT !.pc = pc]
Become(frame) == stack' = [stack EXCEPT ![Len(stack)] = frame]
Goto(pc) == Become(At(pc))
Call(pc, callee) == stack' = Append([stack EXCEPT ![Len(stack)] = At(pc)], callee)
Return == stack' = SubSeq(stack, 1, Len(stack) - 1)

registers == <<current, instance, signal, panic_mode, error, trapped>>
Proceed(pc) == Goto(pc) /\ UNCHANGED registers
Done == Return /\ UNCHANGED registers

\* execute_block_expr with the masks of a block written as an expression.
BlockExpr(role) == Frame("block", "start", role, {"break"}, {"return", "continue"})
\* ... of an if branch, of a loop body, of a function body.
Branch == Frame("block", "start", "branch", {}, Signals)

\* Seeded faults: a loop body that leaves a continue to the loop, or takes its break.
LoopBlock_ContinuePasses == Frame("block", "start", "loopbody", {}, Signals)
LoopBlock_BreakCaught == Frame("block", "start", "loopbody", {"continue", "break"}, {"return"})

LoopBlock == Frame("block", "start", "loopbody", {"continue"}, {"return", "break"})
FnBody == Frame("block", "start", "body", {"return"}, {})
\* The instance that execute_member_get makes of a plain value to reach its members.
BoxedValue == Frame("inst", "start", "boxed", {}, {})

StartOf(fn) ==
    CASE fn = "while" -> "cond" [] fn = "do" -> "body" [] OTHER -> "start"

ChildFrame(fn, role) ==
    IF fn = "block" THEN BlockExpr(role) ELSE Frame(fn, StartOf(fn), role, {}, {})

Room == Len(stack) < MaxStack /\ Len(current) < MaxChain

RoleOfChild == IF Top.fn = "block" THEN "statement" ELSE "operand"

(***************************************************************************)
(* Errors.  A failed SNUK_INTERPRETER_CHECK returns at once: scopes pushed *)
(* and registers saved by the function are not restored.  The first error  *)
(* of a panic is kept.                                                     *)
(***************************************************************************)
InterpreterError == panic_mode' = TRUE /\ error' = TRUE

Fail == Return /\ InterpreterError /\ UNCHANGED <<current, instance, signal, trapped>>

Check(ok, Step) == (ok /\ Step) \/ (~ok /\ Fail)

\* A check on values: it may fail in programs with run-time errors.
CheckValue(Step) == Step \/ (Faults /\ Fail)

\* By a signal nobody expects, a scope popped below the global one, or a value.
Causes == {"signal", "bottom", "value"}

Trap(cause) ==
    /\ trapped' = cause
    /\ UNCHANGED <<stack, current, instance, signal, panic_mode, error>>

\* SNUK_SHOULD_NOT_REACH_HERE: traps in a debug build, is skipped otherwise.
ShouldNotReach(cause, Step) ==
    \/ "release" \in Builds /\ Step
    \/ "debug" \in Builds /\ Trap(cause)

\* A switch over values or expressions meets one it does not list.
Unlisted(Step) == Faults /\ ShouldNotReach("value", Step)

(***************************************************************************)
(* interpreter_push_scope and interpreter_pop_scope.  Popping the global   *)
(* scope traps or dereferences a NULL parent.                              *)
(***************************************************************************)
PushScope(pc) ==
    /\ current' = Child(current, Level)
    /\ Goto(pc)
    /\ UNCHANGED <<instance, signal, panic_mode, error, trapped>>

PopScope(Step) ==
    \/ /\ current # Global
       /\ current' = Parent(current)
       /\ Step
       /\ UNCHANGED <<instance, signal, panic_mode, error, trapped>>
    \/ current \in {Global, Unknown} /\ Trap("bottom")

(***************************************************************************)
(* Evaluating a child.  A literal, an identifier, a comment or a null      *)
(* leaf calls nothing; `self` outside a method fails a check; a `match` is *)
(* parsed and not executed.                                                *)
(***************************************************************************)
EvalExpr(pc) ==
    \/ Proceed(pc)
    \/ Unlisted(Proceed(pc))
    \/ Faults /\ Goto(pc) /\ InterpreterError
              /\ UNCHANGED <<current, instance, signal, trapped>>
    \/ \E fn \in Constructs \cap Expressions :
        /\ Room
        /\ Call(pc, ChildFrame(fn, RoleOfChild))
        /\ UNCHANGED registers

\* A block or loop that catches the signal encloses this point, and every
\* construct in between is a statement of the same function.
Catches(f, sig) ==
    CASE sig = "return"   -> f.role = "body"
      [] sig = "break"    -> \/ f.fn \in Loops
                             \/ f.fn = "block" /\ f.role \in {"statement", "operand"}
      [] sig = "continue" -> f.role = "loopbody"

Caught(frames, sig) ==
    \E h \in 1 .. Len(frames) :
        /\ Catches(frames[h], sig)
        /\ \A k \in h+1 .. Len(frames) : frames[k].role \notin {"operand", "body"}

\* The program may raise sig from the item the top frame executes.
MayRaise(frames, sig) ==
    Structured => frames[Len(frames)].fn = "block" /\ Caught(frames, sig)

ExecItem(pc) ==
    \/ EvalExpr(pc)
    \/ \E fn \in Constructs \cap {"var", "print", "return", "break", "extend"} :
        /\ Room
        /\ fn \in Signals => MayRaise(stack, fn)
        /\ Call(pc, ChildFrame(fn, RoleOfChild))
        /\ UNCHANGED registers
    \/ \E sig \in Constructs \cap Signals :
        /\ MayRaise(stack, sig)
        /\ signal' = sig
        /\ Goto(pc)
        /\ UNCHANGED <<current, instance, panic_mode, error, trapped>>

(***************************************************************************)
(* execute_block_expr: items run in a fresh scope; after each one, a       *)
(* pending signal is caught, propagated, or should not be there.           *)
(***************************************************************************)
\* Seeded fault: a propagated signal does not end the block.
BlockSignal_KeepsGoing ==
    /\ Running({"block"}, "signal")
    /\ \/ signal \notin Top.capture /\ Proceed("items")
       \/ /\ signal \in Top.capture
          /\ signal' = None
          /\ Goto("exit")
          /\ UNCHANGED <<current, instance, panic_mode, error, trapped>>

BlockSignal ==
    /\ Running({"block"}, "signal")
    /\ \/ signal = None /\ Proceed("items")
       \/ /\ signal \in Top.capture
          /\ signal' = None
          /\ Goto("exit")
          /\ UNCHANGED <<current, instance, panic_mode, error, trapped>>
       \/ signal \in Top.pass /\ Proceed("exit")
       \/ /\ signal \notin Top.capture \cup Top.pass \cup {None}
          /\ ShouldNotReach("signal", Proceed("items"))

ExecuteBlockExpr ==
    \/ Running({"block"}, "start") /\ PushScope("items")
    \/ Running({"block"}, "items") /\ ExecItem("signal")
    \/ BlockSignal
    \/ Running({"block"}, "items") /\ Proceed("exit")
    \/ Running({"block"}, "exit") /\ PopScope(Return)

\* execute_if_expr: the condition, then one branch, an else-if, or nothing.
ExecuteIfExpr ==
    \/ Running({"if"}, "start") /\ EvalExpr("branch")
    \/ /\ Running({"if"}, "branch")
       /\ \/ Call("done", Branch)
          \/ Room /\ Call("done", Frame("if", "start", "branch", {}, {}))
          \/ Goto("done")
       /\ UNCHANGED registers
    \/ Running({"if"}, "done") /\ Done

(***************************************************************************)
(* Loops.  The code after the body is the same switch in both functions:   *)
(* propagate a return, catch a break, never see a continue.                *)
(***************************************************************************)
LoopTest ==
    /\ Running(Loops, "test")
    /\ Goto("body") \/ Goto("exit")
    /\ UNCHANGED registers

LoopBody == Running(Loops, "body") /\ Call("after", LoopBlock) /\ UNCHANGED registers

NextIteration == Proceed(IF Top.fn = "for" THEN "update" ELSE "cond")

\* Seeded fault: a caught break is not cleared.
LoopSwitch_KeepsBreak ==
    /\ Running(Loops, "after")
    /\ \/ signal \in {"return", "break"} /\ Proceed("exit")
       \/ signal \in {"continue", None} /\ NextIteration

LoopSwitch ==
    /\ Running(Loops, "after")
    /\ \/ signal = "return" /\ Proceed("exit")
       \/ /\ signal = "break"
          /\ signal' = None
          /\ Goto("exit")
          /\ UNCHANGED <<current, instance, panic_mode, error, trapped>>
       \/ signal = "continue" /\ ShouldNotReach("signal", NextIteration)
       \/ signal = None /\ NextIteration

\* execute_while_expr: `while` starts at the condition, `do` at the body.
ExecuteWhileExpr ==
    \/ Running({"while", "do"}, "cond") /\ EvalExpr("test")
    \/ Running({"while", "do"}, "exit") /\ Done

\* execute_for_expr: the loop owns a scope; a signal left by init is an error.
ExecuteForExpr ==
    \/ Running({"for"}, "start") /\ PushScope("init")
    \/ Running({"for"}, "init") /\ (ExecItem("initcheck") \/ Proceed("cond"))
    \/ /\ Running({"for"}, "initcheck")
       /\ Check(signal = None, Proceed("cond"))
    \/ Running({"for"}, "cond") /\ (EvalExpr("test") \/ Proceed("body"))
    \/ Running({"for"}, "update") /\ (EvalExpr("cond") \/ Proceed("cond"))
    \/ Running({"for"}, "exit") /\ PopScope(Return)

(***************************************************************************)
(* Expressions that fill a new scope and keep it: members of a type,       *)
(* default values of a function's parameters, members of an instance.      *)
(***************************************************************************)
FillScope(fn) ==
    \/ Running({fn}, "members") /\ PopScope(Goto("named"))
    \/ /\ Running({fn}, "named")
       /\ CheckValue(Done)

\* execute_type_declaration: members are items; a signal left by one is an error.
ExecuteTypeDeclaration ==
    \/ Running({"type"}, "start") /\ PushScope("members")
    \/ Running({"type"}, "members") /\ ExecItem("check")
    \/ /\ Running({"type"}, "check")
       /\ Check(signal = None, Proceed("members"))
    \/ FillScope("type")

\* execute_fn_expr: each parameter is created with its default value.
ExecuteFnExpr ==
    \/ Running({"fn"}, "start") /\ PushScope("members")
    \/ Running({"fn"}, "members") /\ EvalExpr("check")
    \/ Running({"fn"}, "check") /\ CheckValue(Proceed("members"))
    \/ FillScope("fn")

\* execute_inst_creation: the name must be a type; each initializer must fit
\* its member, and `self` must be new in the instance scope.
ExecuteInstCreation ==
    \/ Running({"inst"}, "start") /\ CheckValue(PushScope("members"))
    \/ /\ Running({"inst"}, "members")
       /\ IF Top.role = "boxed" THEN Proceed("check") ELSE EvalExpr("check")
    \/ Running({"inst"}, "check") /\ CheckValue(Proceed("members"))
    \/ Running({"inst"}, "members") /\ Faults /\ Fail
    \/ FillScope("inst")

(***************************************************************************)
(* execute_call_expr: the callee, then the instance it is a method of and  *)
(* a scope for its parameters, the arguments (evaluated in that scope),    *)
(* then the body in the parameter scope re-parented to the closure.        *)
(***************************************************************************)
\* Seeded fault: the previous instance is saved after it was replaced.
CallEnter_SavesLate ==
    \E inst \in Instances \cup {NoInstance} :
        /\ Become([At("args") EXCEPT !.prev = inst, !.method = inst])
        /\ instance' = inst
        /\ current' = Child(current, Level)
        /\ UNCHANGED <<signal, panic_mode, error, trapped>>

CallEnter ==
    \E inst \in Instances \cup {NoInstance} :
        /\ Become([At("args") EXCEPT !.prev = instance, !.method = inst])
        /\ instance' = inst
        /\ current' = Child(current, Level)
        /\ UNCHANGED <<signal, panic_mode, error, trapped>>

\* The current scope is the one this call pushed, unless a check failed in an
\* argument; whatever it is, it is given the closure as its parent.
Reparented(closure) ==
    IF current = Child(Top.entry, Level)
    THEN [outer |-> Parent(current), inner |-> Child(closure, Level)]
    ELSE [outer |-> Unknown, inner |-> Unknown]

CallBody ==
    \/ current \in {Global, Unknown} /\ Trap("bottom")
    \/ /\ current # Global
       /\ \E closure \in Closures :
            /\ Become([At("body") EXCEPT !.temp = Reparented(closure).outer,
                                        !.scope = Reparented(closure).inner])
            /\ current' = Reparented(closure).inner
       /\ UNCHANGED <<instance, signal, panic_mode, error, trapped>>

\* What becomes current when a function restores the scope it saved.
Restored == IF current = Unknown THEN Unknown ELSE Top.temp

\* Seeded faults: the instance stays, or the restored scope is popped again.
CallReturn_KeepsInstance ==
    /\ current' = Restored
    /\ Return
    /\ UNCHANGED <<instance, signal, panic_mode, error, trapped>>

CallReturn_PopsTwice ==
    /\ current' = Parent(Restored)
    /\ instance' = Top.prev
    /\ Return
    /\ UNCHANGED <<signal, panic_mode, error, trapped>>

CallReturn ==
    /\ current' = Restored
    /\ instance' = Top.prev
    /\ Return
    /\ UNCHANGED <<signal, panic_mode, error, trapped>>

ExecuteCallExpr ==
    \/ Running({"call"}, "start") /\ EvalExpr("callee")
    \/ Running({"call"}, "callee") /\ CheckValue(CallEnter)
    \/ Running({"call"}, "args") /\ EvalExpr("argcheck")
    \/ Running({"call"}, "argcheck") /\ CheckValue(Proceed("args"))
    \/ Running({"call"}, "args") /\ CheckValue(CallBody)
    \/ Running({"call"}, "body") /\ (Call("ret", FnBody) \/ Goto("ret")) /\ UNCHANGED registers
    \/ Running({"call"}, "ret") /\ CallReturn

\* execute_extend: items run in the scope of the type being extended.
ExtendEnter ==
    \E closure \in Closures :
        /\ Become([At("members") EXCEPT !.temp = current, !.scope = closure])
        /\ current' = closure
        /\ UNCHANGED <<instance, signal, panic_mode, error, trapped>>

ExecuteExtend ==
    \/ Running({"extend"}, "start") /\ EvalExpr("type")
    \/ Running({"extend"}, "type") /\ CheckValue(ExtendEnter)
    \/ Running({"extend"}, "members") /\ ExecItem("check")
    \/ /\ Running({"extend"}, "check")
       /\ Check(signal = None, Proceed("members"))
    \/ /\ Running({"extend"}, "members")
       /\ current' = Restored
       /\ Return
       /\ UNCHANGED <<instance, signal, panic_mode, error, trapped>>

(***************************************************************************)
(* Operators and simple statements: operands are evaluated one after the   *)
(* other, whatever signal one of them leaves pending.                      *)
(***************************************************************************)
Operands(fn, Finish) ==
    \/ Running({fn}, "start") /\ EvalExpr("operand")
    \/ Running({fn}, "operand") /\ Finish

Another == EvalExpr("operand")

ExecuteUnaryOp == Operands("unary", Done)

\* execute_binary_op: `and` and `or` may skip the right operand; `==` does not
\* list instances, native functions and interfaces.
ExecuteBinaryOp ==
    \/ Running({"binary"}, "start") /\ (EvalExpr("right") \/ EvalExpr("operand"))
    \/ Running({"binary"}, "right") /\ EvalExpr("operand")
    \/ Running({"binary"}, "operand") /\ (Done \/ Unlisted(Done))

\* execute_assign_expr: the value, then the owner of an assigned member.  The
\* parser lets any expression be assigned to.
ExecuteAssignExpr ==
    \/ Operands("assign", CheckValue(Done) \/ EvalExpr("owner") \/ Unlisted(Done))
    \/ Running({"assign"}, "owner") /\ CheckValue(Done)

\* execute_member_get: a plain value is made an instance of its builtin type;
\* for a function or an unbound name there is none, and the NULL type of the
\* instance is dereferenced where the assertion does not stop the process.
ExecuteMemberGet ==
    \/ Operands("member", CheckValue(Done) \/ (Call("owner", BoxedValue) /\ UNCHANGED registers))
    \/ Operands("member", Faults /\ Trap("value"))
    \/ Running({"member"}, "owner") /\ CheckValue(Done)

\* execute_print_item: native functions and interfaces are not listed.
ExecutePrintItem == Operands("print", Done \/ Another \/ Unlisted(Done \/ Another))

ExecuteVarDecl == Operands("var", CheckValue(Done))

\* A return or break with a value raises its signal after evaluating it.
RaiseSignal(sig) ==
    /\ signal' = sig
    /\ Return
    /\ UNCHANGED <<current, instance, panic_mode, error, trapped>>

ExecuteSignalItem ==
    \E sig \in {"return", "break"} : Operands(sig, RaiseSignal(sig))

(***************************************************************************)
(* snuk_interpreter_exec_item: one top-level item.                         *)
(***************************************************************************)
TopFrame == Frame("exec_item", "start", "operand", {}, {})

\* Seeded fault: a panic outlives the item that caused it.
TopResult_KeepsPanic ==
    IF signal = None THEN UNCHANGED <<panic_mode, error>> ELSE InterpreterError

TopResult ==
    IF signal = None
    THEN panic_mode' = FALSE /\ UNCHANGED error
    ELSE InterpreterError

ExecuteTopItem ==
    \/ /\ trapped = "no" /\ stack = << >>
       /\ stack' = <<TopFrame>>
       /\ UNCHANGED registers
    \/ Running({"exec_item"}, "start") /\ ExecItem("signal")
    \/ /\ Running({"exec_item"}, "signal")
       /\ TopResult
       /\ Return
       /\ UNCHANGED <<current, instance, signal, trapped>>

Init ==
    /\ stack = << >>
    /\ current = Global
    /\ instance = NoInstance
    /\ signal = None
    /\ panic_mode = FALSE
    /\ error = FALSE
    /\ trapped = "no"

Next ==
    \/ ExecuteTopItem
    \/ ExecuteBlockExpr
    \/ ExecuteIfExpr
    \/ LoopTest \/ LoopBody \/ LoopSwitch
    \/ ExecuteWhileExpr
    \/ ExecuteForExpr
    \/ ExecuteTypeDeclaration
    \/ ExecuteFnExpr
    \/ ExecuteInstCreation
    \/ ExecuteCallExpr
    \/ ExecuteExtend
    \/ ExecuteUnaryOp
    \/ ExecuteBinaryOp
    \/ ExecuteAssignExpr
    \/ ExecuteMemberGet
    \/ ExecutePrintItem
    \/ ExecuteVarDecl
    \/ ExecuteSignalItem

Spec == Init /\ [][Next]_vars

\* The interpreter is a single thread that keeps running.
FairSpec == Spec /\ WF_vars(Next)

(***************************************************************************)
(* Properties.                                                             *)
(***************************************************************************)
Functions == {"exec_item"} \cup Expressions \cup {"var", "print", "return", "break", "extend"}
Points == {"start", "items", "signal", "exit", "branch", "done", "cond", "test", "body",
           "after", "init", "initcheck", "update", "members", "check", "named", "callee",
           "args", "argcheck", "ret", "type", "operand", "right", "owner"}
Roles == {"statement", "operand", "branch", "loopbody", "body", "boxed"}
Insts == Instances \cup {NoInstance}
Chain == {c \in Seq(Nat) : c # Unknown => c[1] = 0}
FrameType ==
    [fn : Functions, pc : Points, role : Roles, capture : SUBSET Signals,
     pass : SUBSET Signals, entry : Chain, self : Insts,
     temp : Chain, scope : Chain, prev : Insts, method : Insts]

\* No chain is Unknown before a check has failed.
KnownFrame(f) == Unknown \notin {f.entry, f.temp, f.scope}
ChainsKnown ==
    ~error => current # Unknown /\ \A k \in 1 .. Len(stack) : KnownFrame(stack[k])

\* Every register and frame has its type, and until a check fails every scope
\* chain, those the functions have saved included, ends at the global scope.
TypeOK ==
    /\ ChainsKnown
    /\ stack \in Seq(FrameType)
    /\ current \in Chain
    /\ instance \in Insts
    /\ signal \in Signals \cup {None}
    /\ panic_mode \in BOOLEAN
    /\ error \in BOOLEAN
    /\ trapped \in Causes \cup {"no"}

\* The scope chain and the instance in which frame f, at level k, runs its children.
InOwnScope(f) ==
    \/ f.fn = "block" /\ f.pc \in {"items", "signal", "exit"}
    \/ f.fn = "call" /\ f.pc \in {"args", "argcheck"}
    \/ f.fn = "for" /\ f.pc # "start"
    \/ f.fn \in Members /\ f.pc \in {"members", "check"}
InEnteredScope(f) ==
    \/ f.fn = "call" /\ f.pc \in {"body", "ret"}
    \/ f.fn = "extend" /\ f.pc \in {"members", "check"}
ChainIn(f, k) ==
    IF InOwnScope(f) THEN Child(f.entry, k)
    ELSE IF InEnteredScope(f) THEN f.scope
    ELSE f.entry
InMethod(f) == f.fn = "call" /\ f.pc \in {"args", "argcheck", "body", "ret"}
InstanceIn(f) == IF InMethod(f) THEN f.method ELSE f.self
CallerChain(k) == IF k = 1 THEN Global ELSE ChainIn(stack[k - 1], k - 1)
CallerInstance(k) == IF k = 1 THEN NoInstance ELSE InstanceIn(stack[k - 1])

\* As long as no check has failed since the interpreter started, every C
\* function runs its children in the scope chain and for the method instance
\* that its own progress dictates, and gives both back as it found them:
\* push_scope/pop_scope, the saved current of a call or an extend and the
\* saved instance of a call nest properly whatever the program does with
\* signals.  When nothing runs, the interpreter is back in the global scope.
ScopesNest ==
    ~error =>
      /\ \A k \in 1 .. Level : /\ stack[k].entry = CallerChain(k)
                            /\ stack[k].self = CallerInstance(k)
      /\ current = CallerChain(Level + 1)
      /\ instance = CallerInstance(Level + 1)

\* The inductive part of ScopesNest: the registers a function saved are still
\* the ones it was called with, and exactly the bottom frame is exec_item's.
SavedIntact ==
    /\ \A k \in 1 .. Len(stack) : (stack[k].fn = "exec_item") <=> (k = 1)
    /\ ~error => \A k \in 1 .. Len(stack) :
                   stack[k].temp = stack[k].entry /\ stack[k].prev = stack[k].self

\* Between top-level items a panic is left over exactly when a signal is: an
\* error that a signal-free item ends with is forgotten, and an item that ends
\* with a pending signal always leaves the panic of exec_item behind.
PanicIffSignal == stack = << >> => (panic_mode <=> signal # None)

\* The inductive invariant of SnukFlow_proofs.
FlowInv == TypeOK /\ ScopesNest /\ SavedIntact /\ PanicIffSignal

\* In programs that raise signals in statement position, no signal reaches a
\* point of the interpreter marked as unreachable, and no scope is popped
\* below the global one.
NeverTraps == trapped \notin {"signal", "bottom"}

\* While a signal is pending, the interpreter only unwinds: no function that
\* evaluates program text is called, neither in the rest of a block nor for a
\* loop's condition or update, an else branch or a later argument.
SignalStopsEvaluation == [][signal # None => Len(stack') <= Len(stack)]_vars

\* "All signals propagate outward to the nearest handler" (snuk_language.snuk), of every
\* program, wherever it raises them: until an error is reported, a signal that a
\* block, a loop or a call around it catches ends everything on its way there, and no
\* switch over signals meets it unprepared.
SignalsPropagate ==
    [][~error /\ signal # None /\ (\E k \in 1 .. Level : Catches(stack[k], signal))
       => Len(stack') <= Len(stack) /\ trapped' # "signal"]_vars

\* A raised signal is caught: some enclosing construct clears it.
SignalCaught == signal # None ~> signal = None

(***************************************************************************)
(* The inductive invariant behind NeverTraps, SignalStopsEvaluation and    *)
(* the refinement, for structured programs until the first error.          *)
(***************************************************************************)
\* What the role of a construct says of its function and of the signals it takes.
WellFormed(f) ==
    /\ f.role = "body" => f.fn = "block" /\ f.capture = {"return"} /\ f.pass = {}
    /\ f.role = "loopbody" =>
         f.fn = "block" /\ f.capture = {"continue"} /\ f.pass = {"return", "break"}
    /\ f.role = "branch" =>
         f.fn = "if" \/ (f.fn = "block" /\ f.capture = {} /\ f.pass = Signals)
    /\ f.role = "boxed" => f.fn = "inst"
    /\ f.role \in {"statement", "operand"} /\ f.fn = "block" =>
         f.capture = {"break"} /\ f.pass = {"return", "continue"}
    /\ f.fn \in {"return", "break"} => f.role = "statement"

\* Caller f waits for a callee of this role.
Awaits(f, role) ==
    CASE role = "statement" -> f.fn = "block" /\ f.pc = "signal"
      [] role = "branch"    -> f.fn = "if" /\ f.pc = "done"
      [] role = "loopbody"  -> f.fn \in Loops /\ f.pc = "after"
      [] role = "body"      -> f.fn = "call" /\ f.pc = "ret"
      [] role = "boxed"     -> f.fn = "member" /\ f.pc = "owner"
      [] role = "operand"   -> f.fn # "block"

\* A construct at level h catches sig for the statement that runs at level n.
CaughtAt(h, n, sig) ==
    /\ Catches(stack[h], sig)
    /\ \A k \in h+1 .. n : stack[k].role \notin {"operand", "body"}

\* Frame f takes up a signal that is pending when it runs next.
Unwinds(f, sig) ==
    \/ f.fn = "block" /\ f.pc = "signal"
    \/ f.fn = "block" /\ f.pc = "exit" /\ sig \in f.pass
    \/ f.fn = "if" /\ f.pc = "done"
    \/ f.fn \in Loops /\ f.pc = "after" /\ sig # "continue"
    \/ f.fn \in Loops /\ f.pc = "exit" /\ sig = "return"

StackLinked ==
    /\ \A k \in 1 .. Len(stack) : WellFormed(stack[k])
    /\ stack # << >> => stack[1].role = "operand"
    /\ \A k \in 2 .. Len(stack) : Awaits(stack[k - 1], stack[k].role)

\* The signal a running return or break will raise has a construct to catch it.
RaisersCaught ==
    \A k \in 1 .. Len(stack) :
        stack[k].fn \in {"return", "break"} =>
            \E h \in 1 .. k - 1 : CaughtAt(h, k - 1, stack[k].fn)

\* So has the pending one, and the running function is on its way there.
PendingCaught ==
    signal # None =>
        /\ \E h \in 1 .. Len(stack) : CaughtAt(h, Len(stack), signal)
        /\ Unwinds(Top, signal)

SignalInv ==
    Structured /\ ~error => NeverTraps /\ StackLinked /\ RaisersCaught /\ PendingCaught

(***************************************************************************)
(* Refinement.  A raised signal has already left the constructs it will    *)
(* unwind: the abstract stack ends at the construct that catches it.       *)
(***************************************************************************)
KindOf(f) ==
    IF f.role \in {"body", "loopbody"} THEN f.role
    ELSE CASE f.fn = "block" -> IF f.role = "branch" THEN "branch" ELSE "block"
           [] f.fn \in Loops -> "loop"
           [] OTHER           -> "plain"

\* The level of the nearest construct that catches sig, the top if none is pending.
Extent(frames, sig) ==
    IF sig = None THEN Len(frames)
    ELSE CHOOSE h \in 1 .. Len(frames) :
            /\ Catches(frames[h], sig)
            /\ \A k \in h+1 .. Len(frames) : ~Catches(frames[k], sig)

ConstructAt(f, caught) ==
    [kind   |-> KindOf(f),
     nested |-> f.role = "operand",
     done   |-> caught \/ (KindOf(f) # "plain" /\ f.pc = "exit")]

Opened(frames, sig) ==
    [k \in 1 .. Extent(frames, sig) |->
        ConstructAt(frames[k], sig # None /\ k = Extent(frames, sig))]

OpenConstructs == Opened(stack, signal)

Control == INSTANCE SnukControl WITH ctl <- OpenConstructs
ImplementsControl == Control!Spec
=============================================================================
