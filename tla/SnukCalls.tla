------------------------------ MODULE SnukCalls ------------------------------
(***************************************************************************)
(* What names and parameters mean while the Snuk interpreter calls         *)
(* functions: which binding a name is looked up in, how the arguments of a *)
(* call become the parameters of the callee, and what assignments change   *)
(* (src/interpreter/interpreter.c, include/snuk/interpreter/snuk_scope.h). *)
(* SnukScopes says who owns the scopes; here they are frames and bindings. *)
(*                                                                         *)
(* There is a function "fn", a type with Fields, a "method" of that type,  *)
(* and instances of the type.  An argument is any expression: it may call  *)
(* a function and assign to variables, and may have any value.  The names  *)
(* of functions, types and self are taken to be distinct from Names.  A    *)
(* check that fails ends the run: SnukFlow shows what it leaves behind.    *)
(***************************************************************************)
EXTENDS Integers, Sequences

CONSTANTS
    Names,          \* variables, parameters and fields
    Values,         \* the values of expressions
    Fitting,        \* those that fit the declared type, null among them
    Typed,          \* the names that are declared with a type wherever they are declared
    Params,         \* the parameters of each function, in order
    Fields,         \* the members of the type that are not methods
    Instances,      \* the number of instances
    MaxCalls        \* bound on the depth of calls

Callables == {"fn", "method"}
Unknown == "unknown"    \* the value of a name that is not bound, or of `var x`
Absent == "absent"      \* there is no such binding
NoTarget == "none"      \* no argument is being evaluated

ASSUME CallsAssumption ==
    /\ Fitting \subseteq Values
    /\ Unknown \notin Values /\ Absent \notin Values
    /\ NoTarget \notin Names /\ Typed \subseteq Names /\ Fields \subseteq Names
    /\ Params \in [Callables -> Seq(Names)]
    /\ Instances \in Nat /\ MaxCalls \in Nat

ParamNames(c) == {Params[c][i] : i \in DOMAIN Params[c]}

\* The scopes.  The parameters' defaults are in the closure of the function.
Global == <<"global", 0>>
TypeScope == <<"type", 0>>
Closure(c) == <<c, 0>>
Inst(i) == <<"instance", i>>
ParamsOf(k) == <<"params", k>>
LocalOf(k) == <<"local", k>>
Scopes == {Global, TypeScope}
          \cup {Closure(c) : c \in Callables}
          \cup {Inst(i) : i \in 1 .. Instances}
          \cup {ParamsOf(k) : k \in 1 .. MaxCalls}
          \cup {LocalOf(k) : k \in 1 .. MaxCalls}

NoInstance == 0

VARIABLES
    env,            \* what each name is bound to in each scope
    calls,          \* the calls that are running
    failed          \* the check that failed, or "no"

vars == <<env, calls, failed>>

Depth == Len(calls)
Top == calls[Depth]

(***************************************************************************)
(* Looking names up.  A chain is a scope and its parents.                  *)
(***************************************************************************)
StaticChain(c) ==
    IF c = "method" THEN <<Closure(c), TypeScope, Global>> ELSE <<Closure(c), Global>>

\* While arguments are evaluated, the parent of the scope of the parameters is
\* the caller's scope; then it is the closure.
Chain(k) ==
    IF k = 0 THEN <<Global>>
    ELSE IF calls[k].pc = "args" THEN <<ParamsOf(k)>> \o calls[k].outer
    ELSE <<LocalOf(k), ParamsOf(k)>> \o StaticChain(calls[k].fn)

InstanceAt(k) == IF k = 0 THEN NoInstance ELSE calls[k].instance

\* interpreter_lookup: the current scope, then the instance, then the parents.
Places(chain, instance) ==
    IF instance = NoInstance THEN chain ELSE <<Head(chain), Inst(instance)>> \o Tail(chain)
FirstBound(places, n) ==
    {i \in DOMAIN places : /\ env[places[i]][n] # Absent
                           /\ \A j \in 1 .. i - 1 : env[places[j]][n] = Absent}

Lookup(chain, instance, n) ==
    LET places == Places(chain, instance)
    IN IF FirstBound(places, n) = {} THEN <<"nowhere", 0>>
       ELSE places[CHOOSE i \in FirstBound(places, n) : TRUE]

Here(n) == Lookup(Chain(Depth), InstanceAt(Depth), n)

\* snuk_interpreter_value_is_of_type, for a builtin type.
IsOfType(v, n) == n \in Typed => v \in Fitting \cup {Unknown}

\* Seeded fault: bindings are created without looking at their types.
MayCreate_AnyType(scope, n, v) == env[scope][n] = Absent

\* snuk_interpreter_create_env succeeds.
MayCreate(scope, n, v) == IsOfType(v, n) /\ env[scope][n] = Absent

Fail(why) == failed' = why /\ UNCHANGED <<env, calls>>

(***************************************************************************)
(* Items and expressions, where one is executed: at the top level, in a    *)
(* body, and as an argument.                                               *)
(***************************************************************************)
Evaluating == failed = "no" /\ (Depth > 0 => Top.pc = "body" \/ Top.target # NoTarget)

\* snuk_interpreter_set_env.
Assign(n, v) ==
    /\ Evaluating
    /\ IF Here(n) \notin Scopes \/ ~IsOfType(v, n) THEN Fail("assign")
       ELSE env' = [env EXCEPT ![Here(n)][n] = v] /\ UNCHANGED <<calls, failed>>

\* interpreter_set_member: a field the instance does not have yet is added to it.
AssignMember(i, n, v) ==
    /\ Evaluating
    /\ IF (env[Inst(i)][n] = Absent /\ env[TypeScope][n] = Absent) \/ ~IsOfType(v, n)
       THEN Fail("member")
       ELSE env' = [env EXCEPT ![Inst(i)][n] = v] /\ UNCHANGED <<calls, failed>>

\* A variable is declared in the current scope.
Declare(n, v) ==
    /\ Evaluating /\ (Depth > 0 => Top.pc = "body")
    /\ IF ~MayCreate(Head(Chain(Depth)), n, v) THEN Fail("declare")
       ELSE env' = [env EXCEPT ![Head(Chain(Depth))][n] = v] /\ UNCHANGED <<calls, failed>>

(***************************************************************************)
(* execute_call_expr.                                                      *)
(***************************************************************************)
\* Seeded fault: the new scope has the closure for a parent from the start.
Outer_Closure(c) == StaticChain(c)

Outer(c) == Chain(Depth)

\* The function called is evaluated, the instance replaced, and a scope pushed.  A
\* method is called on an instance, or on its type.
Call(c, i, count) ==
    /\ Evaluating /\ Depth < MaxCalls
    /\ c = "fn" => i = NoInstance
    /\ IF count > Len(Params[c]) THEN Fail("count")
       ELSE /\ calls' = Append(calls, [fn |-> c, instance |-> i, outer |-> Outer(c), pc |-> "args",
                                       at |-> 1, count |-> count, named |-> FALSE,
                                       target |-> NoTarget])
            /\ UNCHANGED <<env, failed>>

Arguing == failed = "no" /\ Depth > 0 /\ Top.pc = "args" /\ Top.target = NoTarget
NextArgument == Arguing /\ Top.at <= Top.count

Await(name, named) ==
    /\ calls' = [calls EXCEPT ![Depth].target = name, ![Depth].named = named]
    /\ UNCHANGED <<env, failed>>

\* The check of a positional argument after a named one, or a compound assignment,
\* cannot fail: name, type and value are then used as they are, uninitialized.
PositionalArgument ==
    /\ NextArgument
    /\ IF Top.named THEN Fail("uninitialized") ELSE Await(Params[Top.fn][Top.at], FALSE)

CompoundArgument == NextArgument /\ Fail("uninitialized")

\* Seeded fault: that the parameter exists is not checked.
NamedArgument_Unchecked(n) == NextArgument /\ Await(n, TRUE)

NamedArgument(n) ==
    /\ NextArgument
    /\ IF n \notin ParamNames(Top.fn) THEN Fail("no parameter") ELSE Await(n, TRUE)

\* The value of the argument is bound in the new scope.
BindArgument(v) ==
    /\ Evaluating /\ Depth > 0 /\ Top.pc = "args"
    /\ IF ~MayCreate(ParamsOf(Depth), Top.target, v) THEN Fail("argument")
       ELSE /\ env' = [env EXCEPT ![ParamsOf(Depth)][Top.target] = v]
            /\ calls' = [calls EXCEPT ![Depth].target = NoTarget, ![Depth].at = @ + 1]
            /\ UNCHANGED failed

NotGiven == {p \in ParamNames(Top.fn) : env[ParamsOf(Depth)][p] = Absent}

\* Seeded fault: only the parameters behind the arguments are filled in.
Filled_Behind ==
    [n \in Names |-> IF n \in NotGiven /\ \E i \in Top.count + 1 .. Len(Params[Top.fn]) : n = Params[Top.fn][i]
                     THEN env[Closure(Top.fn)][n] ELSE env[ParamsOf(Depth)][n]]

Filled == [n \in Names |-> IF n \in NotGiven THEN env[Closure(Top.fn)][n]
                           ELSE env[ParamsOf(Depth)][n]]

\* The rest gets its default values, and the body runs in the closure.
EnterBody ==
    /\ Arguing /\ Top.at > Top.count
    /\ IF \E p \in NotGiven : env[Closure(Top.fn)][p] = Unknown THEN Fail("missing")
       ELSE /\ env' = [env EXCEPT ![ParamsOf(Depth)] = Filled]
            /\ calls' = [calls EXCEPT ![Depth].pc = "body"]
            /\ UNCHANGED failed

Unbound == [n \in Names |-> Absent]

Return ==
    /\ failed = "no" /\ Depth > 0 /\ Top.pc = "body"
    /\ env' = [env EXCEPT ![ParamsOf(Depth)] = Unbound, ![LocalOf(Depth)] = Unbound]
    /\ calls' = SubSeq(calls, 1, Depth - 1)
    /\ UNCHANGED failed

(***************************************************************************)
(* The functions and the type are declared, and the instances created with *)
(* some of their fields; an Unknown default is none.                       *)
(***************************************************************************)
Bindings(names, others) ==
    {f \in [Names -> Values \cup {Unknown, Absent}] :
        \A n \in Names : /\ n \notin names => f[n] = Absent
                         /\ n \in names => f[n] \in others \/ (f[n] # Absent /\ IsOfType(f[n], n))}

Init ==
    /\ \E members \in Bindings(Fields, {}),
          defaults \in {d \in [Callables -> Bindings(Names, {Absent})] :
                          \A c \in Callables : d[c] \in Bindings(ParamNames(c), {})},
          own \in [1 .. Instances -> Bindings(Fields, {Absent})] :
          env = [s \in Scopes |->
                    CASE s = TypeScope -> members
                      [] s[1] \in Callables -> defaults[s[1]]
                      [] s[1] = "instance" -> own[s[2]]
                      [] OTHER -> Unbound]
    /\ calls = << >>
    /\ failed = "no"

Next ==
    \/ \E n \in Names, v \in Values \cup {Unknown} :
          \/ Assign(n, v) \/ Declare(n, v)
          \/ \E i \in 1 .. Instances : AssignMember(i, n, v)
    \/ \E c \in Callables, i \in 0 .. Instances : \E count \in 0 .. Len(Params[c]) + 1 : Call(c, i, count)
    \/ PositionalArgument \/ CompoundArgument
    \/ \E n \in Names : NamedArgument(n)
    \/ \E v \in Values \cup {Unknown} : BindArgument(v)
    \/ EnterBody \/ Return

Spec == Init /\ [][Next]_vars

(***************************************************************************)
(* Properties.                                                             *)
(***************************************************************************)
Frames == [fn : Callables, instance : 0 .. Instances, outer : Seq(Scopes), pc : {"args", "body"},
           at : Nat \ {0}, count : Nat, named : BOOLEAN, target : Names \cup {NoTarget}]

\* The state has its type: a name is looked up and bound only in scopes there are.
TypeOK ==
    /\ env \in [Scopes -> [Names -> Values \cup {Unknown, Absent}]]
    /\ calls \in Seq(Frames) /\ Depth <= MaxCalls
    /\ \A k \in 1 .. Depth :
          /\ calls[k].outer # << >>
          /\ calls[k].at <= calls[k].count + 1 /\ calls[k].count <= Len(Params[calls[k].fn])
          /\ calls[k].target # NoTarget =>
                calls[k].target \in ParamNames(calls[k].fn) /\ calls[k].at <= calls[k].count
          /\ k < Depth => calls[k].pc = "body" \/ calls[k].target # NoTarget

\* What a call binds, and what its body assigns to its parameters, never reaches the
\* defaults in the closure, which the next call starts from: whatever is assigned in
\* an argument, in the body, and in the calls they make, every parameter it could
\* be found in before the closure is bound by then.
DefaultsKept == [][\A c \in Callables : env'[Closure(c)] = env[Closure(c)]]_vars

\* "annotated parameters enforce the type at runtime", and so do variables and
\* fields: wherever a typed name is bound, by a declaration, an argument, a default, or
\* an assignment that finds it by name in any scope, its value fits the type.  Types go
\* with names here: that two bindings of a name differ in type is left out.
TypesEnforced ==
    \A s \in Scopes, n \in Names : env[s][n] # Absent => IsOfType(env[s][n], n)

\* A name in an argument is what it is where the call stands, although it is looked up
\* behind the parameters that are already bound and in the callee's instance.
\* The exceptions are the names of those, and of the fields of the caller's instance:
\* `fn gcd(a, b) { gcd(b, a % b) }` evaluates a % b with a bound to b.
Captured(n) ==
    \/ env[ParamsOf(Depth)][n] # Absent
    \/ \E k \in {Depth - 1, Depth} : InstanceAt(k) # NoInstance /\ env[Inst(InstanceAt(k))][n] # Absent

ArgumentsAreTheCallers ==
    Evaluating /\ Depth > 0 /\ Top.pc = "args" =>
        \A n \in Names : Captured(n) \/ Here(n) = Lookup(Chain(Depth - 1), InstanceAt(Depth - 1), n)

\* The document's order of "scope resolution inside methods" (snuk_language.snuk), when
\* a method is called on an instance: "1. local scope", so a parameter is never
\* hidden by a field; "2. instance scope", so what it assigns to a field is the field of
\* the instance and not the type's, which the other instances read.
LocalThenInstance ==
    [][Depth > 0 /\ Top.pc = "body" /\ InstanceAt(Depth) # NoInstance
       => /\ \A n \in Names : env[ParamsOf(Depth)][n] # Absent
                                => Here(n) \in {LocalOf(Depth), ParamsOf(Depth)}
          /\ env'[TypeScope] = env[TypeScope]]_vars
=============================================================================
