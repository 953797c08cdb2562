--------------------------- MODULE SnukCalls_proofs ---------------------------
(***************************************************************************)
(* Proofs about SnukCalls: for any functions, fields, instances and depth  *)
(* of calls, the defaults of a function are kept, declared types are       *)
(* enforced, and arguments are the caller's.                               *)
(***************************************************************************)
EXTENDS SnukCalls, SequenceTheorems, TLAPS

Contents == Values \cup {Unknown, Absent}

(***************************************************************************)
(* The inductive invariant.  A closure is shielded in a chain when each of *)
(* its parameters is bound in a scope in front of it.                      *)
(***************************************************************************)
Shielded(chain) ==
    \A i \in DOMAIN chain, c \in Callables : chain[i] = Closure(c) =>
        \A p \in ParamNames(c) : \E j \in 1 .. i - 1 : env[chain[j]][p] # Absent

\* The scopes of the calls from the k-th on are not in the chain.
Below(chain, k) ==
    \A i \in DOMAIN chain, j \in 1 .. MaxCalls :
        j >= k => chain[i] # ParamsOf(j) /\ chain[i] # LocalOf(j)

ParametersBound ==
    \A k \in 1 .. Depth : calls[k].pc = "body" =>
        \A p \in ParamNames(calls[k].fn) : env[ParamsOf(k)][p] # Absent

ClosuresHoldParameters ==
    \A c \in Callables, n \in Names : env[Closure(c)][n] # Absent <=> n \in ParamNames(c)

CallersShielded == \A k \in 1 .. Depth : Shielded(calls[k].outer) /\ Below(calls[k].outer, k)

CallsInv == /\ TypeOK /\ ParametersBound /\ ClosuresHoldParameters
            /\ CallersShielded

(***************************************************************************)
(* Scopes and chains.                                                      *)
(***************************************************************************)
LEMMA ScopesDistinct ==
    ASSUME NEW c \in Callables
    PROVE  /\ Closure(c) \in Scopes /\ Closure(c) # Global /\ Closure(c) # TypeScope
           /\ \A d \in Callables : Closure(c) = Closure(d) => c = d
           /\ \A i : Closure(c) # Inst(i) /\ Closure(c) # ParamsOf(i) /\ Closure(c) # LocalOf(i)
  BY DEF Scopes, Callables, Closure, Global, TypeScope, Inst, ParamsOf, LocalOf

LEMMA FrameScopes ==
    ASSUME NEW k \in 1 .. MaxCalls
    PROVE  /\ ParamsOf(k) \in Scopes /\ LocalOf(k) \in Scopes
           /\ ParamsOf(k) # Global /\ ParamsOf(k) # TypeScope
           /\ LocalOf(k) # Global /\ LocalOf(k) # TypeScope
           /\ \A i : ParamsOf(k) # Inst(i) /\ LocalOf(k) # Inst(i) /\ ParamsOf(k) # LocalOf(i)
           /\ \A j : j # k => ParamsOf(k) # ParamsOf(j) /\ LocalOf(k) # LocalOf(j)
  BY DEF Scopes, Global, TypeScope, Inst, ParamsOf, LocalOf

LEMMA StaticChains ==
    ASSUME NEW c \in Callables
    PROVE  /\ StaticChain(c) \in Seq(Scopes)
           /\ Len(StaticChain(c)) \in 2 .. 3
           /\ StaticChain(c)[1] = Closure(c)
           /\ \A i \in 2 .. Len(StaticChain(c)) : StaticChain(c)[i] \in {TypeScope, Global}
  <1>1. Closure(c) \in Scopes /\ TypeScope \in Scopes /\ Global \in Scopes
    BY ScopesDistinct DEF Scopes
  <1>2. CASE c = "method"
    BY <1>1, <1>2 DEF StaticChain
  <1>3. CASE c # "method"
    BY <1>1, <1>3 DEF StaticChain
  <1> QED BY <1>2, <1>3

LEMMA ChainType ==
    ASSUME TypeOK, NEW k \in 0 .. Depth
    PROVE  Chain(k) \in Seq(Scopes) /\ Chain(k) # << >>
  <1>1. CASE k = 0
    BY <1>1 DEF Chain, Scopes
  <1>2. CASE k # 0
    <2>1. k \in 1 .. MaxCalls /\ calls[k] \in Frames
      BY <1>2, CallsAssumption DEF TypeOK, Depth
    <2>2. calls[k].outer \in Seq(Scopes) /\ calls[k].fn \in Callables
      BY <2>1 DEF Frames
    <2>3. StaticChain(calls[k].fn) \in Seq(Scopes)
      BY <2>2, StaticChains
    <2>4. ParamsOf(k) \in Scopes /\ LocalOf(k) \in Scopes
      BY <2>1, FrameScopes
    <2> QED BY <1>2, <2>2, <2>3, <2>4 DEF Chain
  <1> QED BY <1>1, <1>2

LEMMA InstanceType ==
    ASSUME TypeOK, NEW k \in 0 .. Depth
    PROVE  InstanceAt(k) \in 0 .. Instances
  <1>1. CASE k = 0
    BY <1>1, CallsAssumption DEF InstanceAt, NoInstance
  <1>2. CASE k # 0
    <2>1. calls[k] \in Frames
      BY <1>2 DEF TypeOK, Depth
    <2> QED BY <1>2, <2>1 DEF Frames, InstanceAt
  <1> QED BY <1>1, <1>2

\* Where the instance stands among the places a name is looked up in.
LEMMA PlacesShape ==
    ASSUME NEW chain \in Seq(Scopes), chain # << >>, NEW i \in 1 .. Instances
    PROVE  /\ Places(chain, NoInstance) = chain
           /\ Places(chain, i) \in Seq(Scopes)
           /\ Len(Places(chain, i)) = Len(chain) + 1
           /\ Places(chain, i)[1] = chain[1] /\ Places(chain, i)[2] = Inst(i)
           /\ \A m \in 3 .. Len(chain) + 1 : Places(chain, i)[m] = chain[m - 1]
  <1>1. i # NoInstance /\ Inst(i) \in Scopes
    BY CallsAssumption DEF NoInstance, Scopes
  <1>2. Tail(chain) \in Seq(Scopes) /\ Len(Tail(chain)) = Len(chain) - 1
        /\ \A m \in 1 .. Len(chain) - 1 : Tail(chain)[m] = chain[m + 1]
    OBVIOUS
  <1>3. Head(chain) = chain[1] /\ Head(chain) \in Scopes
    OBVIOUS
  <1>4. Places(chain, i) = <<Head(chain), Inst(i)>> \o Tail(chain)
    BY <1>1 DEF Places
  <1> QED BY <1>1, <1>2, <1>3, <1>4 DEF Places

(***************************************************************************)
(* Looking up.  What is found is bound, and it is the instance or a scope  *)
(* of the chain in front of which the name is not bound.                   *)
(***************************************************************************)
LEMMA LookupFinds ==
    ASSUME NEW chain \in Seq(Scopes), chain # << >>, NEW i \in 0 .. Instances, NEW n \in Names,
           Lookup(chain, i, n) \in Scopes
    PROVE  /\ env[Lookup(chain, i, n)][n] # Absent
           /\ \/ i # NoInstance /\ Lookup(chain, i, n) = Inst(i)
              \/ \E m \in DOMAIN chain : /\ chain[m] = Lookup(chain, i, n)
                                         /\ \A j \in 1 .. m - 1 : env[chain[j]][n] = Absent
  <1> DEFINE places == Places(chain, i)
             m == CHOOSE x \in FirstBound(places, n) : TRUE
  <1>1. <<"nowhere", 0>> \notin Scopes
    BY DEF Scopes, Global, TypeScope, Closure, Callables, Inst, ParamsOf, LocalOf
  <1>2. FirstBound(places, n) # {} /\ Lookup(chain, i, n) = places[m]
    BY <1>1 DEF Lookup
  <1>3. m \in FirstBound(places, n)
    BY <1>2
  <1>4. /\ m \in DOMAIN places /\ env[places[m]][n] # Absent
        /\ \A j \in 1 .. m - 1 : env[places[j]][n] = Absent
    BY <1>3 DEF FirstBound
  <1> HIDE DEF m
  <1>5. CASE i = NoInstance
    BY <1>2, <1>4, <1>5 DEF Places
  <1>6. CASE i # NoInstance
    <2>1. i \in 1 .. Instances
      BY <1>6, CallsAssumption DEF NoInstance
    <2>2. /\ Len(places) = Len(chain) + 1 /\ places \in Seq(Scopes)
          /\ places[1] = chain[1] /\ places[2] = Inst(i)
          /\ \A x \in 3 .. Len(chain) + 1 : places[x] = chain[x - 1]
      BY <2>1, PlacesShape
    <2> HIDE DEF places
    <2>3. m \in 1 .. Len(chain) + 1 /\ Len(chain) \in Nat /\ Len(chain) > 0
      BY <1>4, <2>2
    <2>4. CASE m = 1
      BY <1>2, <1>4, <2>2, <2>3, <2>4
    <2>5. CASE m = 2
      BY <1>2, <1>4, <1>6, <2>2, <2>5
    <2>6. CASE m > 2
      <3>1. chain[m - 1] = Lookup(chain, i, n) /\ m - 1 \in DOMAIN chain
        BY <1>2, <2>2, <2>3, <2>6
      <3>2. ASSUME NEW j \in 1 .. (m - 1) - 1 PROVE env[chain[j]][n] = Absent
        <4>1. CASE j = 1
          BY <1>4, <2>2, <2>3, <2>6, <4>1
        <4>2. CASE j # 1
          <5>1. places[j + 1] = chain[j] /\ j + 1 \in 1 .. m - 1
            BY <2>2, <2>3, <2>6, <4>2
          <5> QED BY <1>4, <5>1
        <4> QED BY <4>1, <4>2
      <3> QED BY <1>2, <1>4, <3>1, <3>2
    <2> QED BY <2>3, <2>4, <2>5, <2>6
  <1> QED BY <1>5, <1>6

\* Where the shield is: an argument is looked up behind the scope of the parameters,
\* in the caller's chain; a body in front of its closure has its parameters.
LEMMA ChainShielded ==
    ASSUME CallsInv, NEW k \in 0 .. Depth
    PROVE  Shielded(Chain(k)) /\ Below(Chain(k), k + 1)
  <1>1. CASE k = 0
    <2>1. Chain(k) = <<Global>>
      BY <1>1 DEF Chain
    <2> QED BY <1>1, <2>1, ScopesDistinct, FrameScopes DEF Shielded, Below
  <1>2. CASE k # 0
    <2>1. /\ k \in 1 .. MaxCalls /\ k \in 1 .. Depth
          /\ calls[k].outer \in Seq(Scopes) /\ calls[k].fn \in Callables
          /\ calls[k].pc \in {"args", "body"}
      <3>1. k \in 1 .. MaxCalls /\ k \in 1 .. Depth /\ calls[k] \in Frames
        BY <1>2, CallsAssumption DEF CallsInv, TypeOK, Depth
      <3> QED BY <3>1 DEF Frames
    <2>2. Shielded(calls[k].outer) /\ Below(calls[k].outer, k)
      BY <2>1 DEF CallsInv, CallersShielded
    <2>3. CASE calls[k].pc = "args"
      <3> DEFINE outer == calls[k].outer
      <3>1. /\ Chain(k) = <<ParamsOf(k)>> \o outer
            /\ Len(Chain(k)) = Len(outer) + 1 /\ Chain(k)[1] = ParamsOf(k)
            /\ \A i \in 2 .. Len(outer) + 1 : Chain(k)[i] = outer[i - 1]
            /\ DOMAIN Chain(k) = 1 .. Len(outer) + 1
        BY <1>2, <2>1, <2>3 DEF Chain
      <3>2. ASSUME NEW i \in DOMAIN Chain(k), NEW c \in Callables, Chain(k)[i] = Closure(c),
                   NEW p \in ParamNames(c)
            PROVE  \E j \in 1 .. i - 1 : env[Chain(k)[j]][p] # Absent
        <4>1. i \in 2 .. Len(outer) + 1 /\ outer[i - 1] = Closure(c)
          BY <2>1, <3>1, <3>2, ScopesDistinct
        <4>2. PICK j \in 1 .. (i - 1) - 1 : env[outer[j]][p] # Absent
          BY <2>1, <2>2, <4>1 DEF Shielded
        <4>3. j + 1 \in 1 .. i - 1 /\ Chain(k)[j + 1] = outer[j]
          BY <2>1, <3>1, <4>1
        <4> QED BY <4>2, <4>3
      <3>3. Below(Chain(k), k + 1)
        <4> SUFFICES ASSUME NEW i \in DOMAIN Chain(k), NEW j \in 1 .. MaxCalls, j >= k + 1
                     PROVE  Chain(k)[i] # ParamsOf(j) /\ Chain(k)[i] # LocalOf(j)
          BY DEF Below
        <4>1. CASE i = 1
          BY <2>1, <3>1, <4>1, FrameScopes
        <4>2. CASE i # 1
          BY <2>1, <2>2, <3>1, <4>2 DEF Below
        <4> QED BY <4>1, <4>2
      <3> QED BY <3>2, <3>3 DEF Shielded
    <2>4. CASE calls[k].pc = "body"
      <3> DEFINE static == StaticChain(calls[k].fn)
      <3>1. /\ static \in Seq(Scopes) /\ Len(static) \in 2 .. 3
            /\ static[1] = Closure(calls[k].fn)
            /\ \A i \in 2 .. Len(static) : static[i] \in {TypeScope, Global}
        BY <2>1, StaticChains
      <3> HIDE DEF static
      <3>2. /\ Len(Chain(k)) = Len(static) + 2 /\ Chain(k)[1] = LocalOf(k)
            /\ Chain(k)[2] = ParamsOf(k)
            /\ \A i \in 3 .. Len(static) + 2 : Chain(k)[i] = static[i - 2]
            /\ DOMAIN Chain(k) = 1 .. Len(static) + 2
        <4>1. Chain(k) = <<LocalOf(k), ParamsOf(k)>> \o static
          BY <1>2, <2>4 DEF Chain, static
        <4>2. LocalOf(k) \in Scopes /\ ParamsOf(k) \in Scopes
          BY <2>1, FrameScopes
        <4> QED BY <3>1, <4>1, <4>2
      <3>3. ASSUME NEW i \in DOMAIN Chain(k), NEW c \in Callables, Chain(k)[i] = Closure(c),
                   NEW p \in ParamNames(c)
            PROVE  \E j \in 1 .. i - 1 : env[Chain(k)[j]][p] # Absent
        <4>1. i \in 3 .. Len(static) + 2 /\ static[i - 2] = Closure(c)
          BY <3>1, <3>2, <3>3, ScopesDistinct
        <4>2. i = 3 /\ c = calls[k].fn
          BY <2>1, <3>1, <4>1, ScopesDistinct
        <4>3. env[Chain(k)[2]][p] # Absent
          BY <2>1, <2>4, <3>2, <4>2 DEF CallsInv, ParametersBound
        <4> QED BY <4>2, <4>3
      <3>4. Below(Chain(k), k + 1)
        <4> SUFFICES ASSUME NEW i \in DOMAIN Chain(k), NEW j \in 1 .. MaxCalls, j >= k + 1
                     PROVE  Chain(k)[i] # ParamsOf(j) /\ Chain(k)[i] # LocalOf(j)
          BY DEF Below
        <4>1. CASE i \in 1 .. 2
          BY <2>1, <3>2, <4>1, FrameScopes
        <4>2. CASE i \notin 1 .. 2
          <5>1. Chain(k)[i] \in {Closure(calls[k].fn), TypeScope, Global}
            BY <3>1, <3>2, <4>2
          <5> QED BY <2>1, <5>1, FrameScopes, ScopesDistinct
        <4> QED BY <4>1, <4>2
      <3> QED BY <3>3, <3>4 DEF Shielded
    <2> QED BY <2>1, <2>3, <2>4
  <1> QED BY <1>1, <1>2

\* A name that is looked up is never found in a closure.
LEMMA NeverInClosure ==
    ASSUME CallsInv, NEW n \in Names, NEW c \in Callables
    PROVE  Here(n) # Closure(c)
  <1> SUFFICES ASSUME Here(n) = Closure(c) PROVE FALSE
    OBVIOUS
  <1> DEFINE chain == Chain(Depth)
  <1>1. Depth \in 0 .. Depth
    BY DEF CallsInv, TypeOK, Depth
  <1>2. chain \in Seq(Scopes) /\ chain # << >> /\ InstanceAt(Depth) \in 0 .. Instances
    BY <1>1, ChainType, InstanceType DEF CallsInv
  <1>3. Shielded(chain)
    BY <1>1, ChainShielded
  <1> HIDE DEF chain
  <1>4. Here(n) \in Scopes /\ Here(n) = Lookup(chain, InstanceAt(Depth), n)
    BY ScopesDistinct DEF Here, chain
  <1>5. env[Closure(c)][n] # Absent
    BY <1>2, <1>4, LookupFinds
  <1>6. n \in ParamNames(c)
    BY <1>5 DEF CallsInv, ClosuresHoldParameters
  <1>7. PICK m \in DOMAIN chain : /\ chain[m] = Closure(c)
                                  /\ \A j \in 1 .. m - 1 : env[chain[j]][n] = Absent
    <2>1. \/ Here(n) = Inst(InstanceAt(Depth))
          \/ \E m \in DOMAIN chain : /\ chain[m] = Here(n)
                                     /\ \A j \in 1 .. m - 1 : env[chain[j]][n] = Absent
      BY <1>2, <1>4, LookupFinds
    <2> QED BY <2>1, ScopesDistinct
  <1> QED BY <1>3, <1>6, <1>7 DEF Shielded

(***************************************************************************)
(* The initial states, and the steps that change no binding.               *)
(***************************************************************************)
LEMMA InitialBindings ==
    ASSUME NEW names, NEW others \in SUBSET {Absent}, NEW f \in Bindings(names, others), NEW n \in Names
    PROVE  /\ f \in [Names -> Contents]
           /\ f[n] # Absent => n \in names /\ IsOfType(f[n], n)
  BY DEF Bindings, Contents

LEMMA InitInv ==
    ASSUME Init
    PROVE  CallsInv /\ TypesEnforced
  <1>1. PICK members \in Bindings(Fields, {}),
             defaults \in {d \in [Callables -> Bindings(Names, {Absent})] :
                             \A c \in Callables : d[c] \in Bindings(ParamNames(c), {})},
             own \in [1 .. Instances -> Bindings(Fields, {Absent})] :
             env = [s \in Scopes |->
                       CASE s = TypeScope -> members
                         [] s[1] \in Callables -> defaults[s[1]]
                         [] s[1] = "instance" -> own[s[2]]
                         [] OTHER -> Unbound]
    BY DEF Init
  <1>2. calls = << >> /\ Depth = 0
    BY DEF Init, Depth
  <1>3. ASSUME NEW s \in Scopes
        PROVE  \/ env[s] = members
               \/ \E c \in Callables : env[s] = defaults[c]
               \/ \E i \in 1 .. Instances : env[s] = own[i]
               \/ env[s] = Unbound
    <2>1. CASE s = TypeScope
      <3>1. s[1] \notin Callables /\ s[1] # "instance"
        BY <2>1 DEF TypeScope, Callables
      <3> QED BY <1>1, <2>1, <3>1
    <2>2. CASE s # TypeScope /\ s[1] \in Callables
      <3>1. s[1] # "instance"
        BY <2>2 DEF Callables
      <3> QED BY <1>1, <2>2, <3>1
    <2>3. CASE s # TypeScope /\ s[1] \notin Callables /\ s[1] = "instance"
      <3>1. s[2] \in 1 .. Instances
        BY <2>3 DEF Scopes, Global, TypeScope, Closure, Callables, Inst, ParamsOf, LocalOf
      <3> QED BY <1>1, <2>3, <3>1
    <2>4. CASE s # TypeScope /\ s[1] \notin Callables /\ s[1] # "instance"
      BY <1>1, <2>4
    <2> QED BY <2>1, <2>2, <2>3, <2>4
  <1>4. ASSUME NEW s \in Scopes, NEW n \in Names
        PROVE  env[s][n] # Absent => IsOfType(env[s][n], n)
    <2>1. /\ members \in Bindings(Fields, {})
          /\ \A c \in Callables : defaults[c] \in Bindings(Names, {Absent})
          /\ \A c \in Callables : defaults[c] \in Bindings(ParamNames(c), {})
          /\ \A i \in 1 .. Instances : own[i] \in Bindings(Fields, {Absent})
      OBVIOUS
    <2>2. Unbound[n] = Absent
      BY DEF Unbound
    <2> QED BY <1>3, <2>1, <2>2, InitialBindings
  <1>5. ASSUME NEW c \in Callables, NEW n \in Names
        PROVE  env[Closure(c)][n] # Absent <=> n \in ParamNames(c)
    <2>1. env[Closure(c)] = defaults[c]
      <3>1. Closure(c) \in Scopes /\ Closure(c) # TypeScope /\ Closure(c)[1] = c /\ c # "instance"
        BY ScopesDistinct DEF Closure, Callables
      <3> QED BY <1>1, <3>1
    <2>2. defaults[c] \in Bindings(ParamNames(c), {})
      OBVIOUS
    <2>3. n \in ParamNames(c) => defaults[c][n] # Absent
      BY <2>2 DEF Bindings
    <2> QED BY <2>1, <2>2, <2>3, InitialBindings
  <1>6. TypeOK
    <2>1. ASSUME NEW s \in Scopes PROVE env[s] \in [Names -> Contents]
      <3>1. Unbound \in [Names -> Contents]
        BY DEF Unbound, Contents
      <3>2. /\ members \in [Names -> Contents]
            /\ \A c \in Callables : defaults[c] \in [Names -> Contents]
            /\ \A i \in 1 .. Instances : own[i] \in [Names -> Contents]
        BY DEF Bindings, Contents
      <3> QED BY <1>3, <3>1, <3>2
    <2>2. env \in [Scopes -> [Names -> Contents]]
      <3>1. env = [s \in Scopes |-> env[s]]
        BY <1>1
      <3> QED BY <2>1, <3>1
    <2> QED BY <1>2, <2>2, CallsAssumption DEF TypeOK, Contents, Depth
  <1>7. ParametersBound /\ CallersShielded
    BY <1>2 DEF ParametersBound, CallersShielded
  <1>8. ClosuresHoldParameters /\ TypesEnforced
    BY <1>4, <1>5 DEF ClosuresHoldParameters, TypesEnforced
  <1> QED BY <1>6, <1>7, <1>8 DEF CallsInv

LEMMA FailKeeps ==
    ASSUME CallsInv, TypesEnforced, NEW why, Fail(why)
    PROVE  CallsInv' /\ TypesEnforced' /\ env' = env
  BY DEF Fail, CallsInv, TypeOK, Depth, ParametersBound, ClosuresHoldParameters, CallersShielded,
         Shielded, Below, TypesEnforced

\* What a step that keeps the calls may do to the bindings: what it changes is bound
\* to a value of its type, outside the closures.
BindingStep ==
    /\ \A s \in Scopes, n \in Names :
          env'[s][n] # env[s][n] => env'[s][n] # Absent /\ IsOfType(env'[s][n], n)
    /\ \A c \in Callables : env'[Closure(c)] = env[Closure(c)]

SameCalls ==
    /\ Depth' = Depth
    /\ \A k \in 1 .. Depth : calls'[k].fn = calls[k].fn /\ calls'[k].outer = calls[k].outer

LEMMA FrameType ==
    ASSUME TypeOK, NEW k \in 1 .. Depth
    PROVE  /\ k \in 1 .. MaxCalls /\ calls[k] \in Frames
           /\ calls[k].fn \in Callables /\ calls[k].outer \in Seq(Scopes)
           /\ calls[k].at \in Nat \ {0} /\ calls[k].count \in Nat
           /\ calls[k].pc \in {"args", "body"} /\ calls[k].instance \in 0 .. Instances
           /\ calls[k].named \in BOOLEAN /\ calls[k].target \in Names \cup {NoTarget}
  <1>1. k \in 1 .. MaxCalls /\ calls[k] \in Frames
    BY CallsAssumption DEF TypeOK, Depth
  <1> QED BY <1>1 DEF Frames

LEMMA ParameterNames == \A c \in Callables : ParamNames(c) \subseteq Names
  BY CallsAssumption DEF ParamNames

LEMMA StillBound ==
    ASSUME CallsInv, BindingStep, SameCalls, \A k \in 1 .. Depth : calls'[k].pc = calls[k].pc
    PROVE  ParametersBound'
  <1> SUFFICES ASSUME NEW k \in 1 .. Depth, calls[k].pc = "body", NEW p \in ParamNames(calls[k].fn)
               PROVE  env'[ParamsOf(k)][p] # Absent
    BY DEF ParametersBound, ParamNames, SameCalls
  <1>1. k \in 1 .. MaxCalls /\ calls[k].fn \in Callables
    BY FrameType DEF CallsInv
  <1>2. env[ParamsOf(k)][p] # Absent
    BY DEF CallsInv, ParametersBound
  <1> QED BY <1>1, <1>2, FrameScopes, ParameterNames DEF BindingStep

LEMMA BindingsKeep ==
    ASSUME CallsInv, TypesEnforced, TypeOK', BindingStep, SameCalls, ParametersBound'
    PROVE  CallsInv' /\ TypesEnforced'
  <1>1. ClosuresHoldParameters'
    BY DEF CallsInv, ClosuresHoldParameters, ParamNames, BindingStep
  <1>2. CallersShielded'
    <2> SUFFICES ASSUME NEW k \in 1 .. Depth
                 PROVE  Shielded(calls[k].outer)' /\ Below(calls[k].outer, k)'
      BY DEF CallersShielded, SameCalls
    <2>1. calls[k].outer \in Seq(Scopes)
      BY FrameType DEF CallsInv
    <2>2. Shielded(calls[k].outer) /\ Below(calls[k].outer, k)
      BY DEF CallsInv, CallersShielded
    <2>3. calls'[k].outer = calls[k].outer
      BY DEF SameCalls
    <2>4. Below(calls[k].outer, k)'
      BY <2>2, <2>3 DEF Below
    <2>5. ASSUME NEW i \in DOMAIN calls[k].outer, NEW c \in Callables, calls[k].outer[i] = Closure(c),
                 NEW p \in ParamNames(c)
          PROVE  \E j \in 1 .. i - 1 : env'[calls[k].outer[j]][p] # Absent
      <3>1. PICK j \in 1 .. i - 1 : env[calls[k].outer[j]][p] # Absent
        BY <2>2, <2>5 DEF Shielded
      <3>2. calls[k].outer[j] \in Scopes
        BY <2>1, <3>1
      <3> QED BY <3>1, <3>2, ParameterNames DEF BindingStep
    <2> QED BY <2>3, <2>4, <2>5 DEF Shielded, ParamNames
  <1>3. TypesEnforced'
    BY DEF TypesEnforced, BindingStep, IsOfType
  <1> QED BY <1>1, <1>2, <1>3 DEF CallsInv

\* One binding, of a value that fits.
LEMMA OneBinding ==
    ASSUME CallsInv, NEW s \in Scopes, NEW n \in Names, NEW v \in Values \cup {Unknown},
           IsOfType(v, n), \A c \in Callables : s # Closure(c),
           env' = [env EXCEPT ![s][n] = v]
    PROVE  env' \in [Scopes -> [Names -> Contents]] /\ BindingStep
  <1>1. env \in [Scopes -> [Names -> Contents]] /\ v \in Contents /\ v # Absent
    BY CallsAssumption DEF CallsInv, TypeOK, Contents, Unknown, Absent
  <1>2. \A t \in Scopes, m \in Names : env'[t][m] = IF t = s /\ m = n THEN v ELSE env[t][m]
    BY <1>1
  <1>3. \A c \in Callables : env'[Closure(c)] = env[Closure(c)]
    BY <1>1, ScopesDistinct
  <1> QED BY <1>1, <1>2, <1>3 DEF BindingStep

(***************************************************************************)
(* The actions.                                                            *)
(***************************************************************************)
Safe == CallsInv' /\ TypesEnforced' /\ \A c \in Callables : env'[Closure(c)] = env[Closure(c)]

LEMMA FailSafe ==
    ASSUME CallsInv, TypesEnforced, NEW why, Fail(why)
    PROVE  Safe
  BY FailKeeps DEF Safe

\* A binding is made where the calls are left as they are.
LEMMA VariableSafe ==
    ASSUME CallsInv, TypesEnforced, NEW s \in Scopes, NEW n \in Names, NEW v \in Values \cup {Unknown},
           IsOfType(v, n), \A c \in Callables : s # Closure(c),
           env' = [env EXCEPT ![s][n] = v], UNCHANGED calls
    PROVE  Safe
  <1>1. env' \in [Scopes -> [Names -> Contents]] /\ BindingStep
    BY OneBinding
  <1>2. SameCalls /\ \A k \in 1 .. Depth : calls'[k].pc = calls[k].pc
    BY DEF SameCalls, Depth
  <1>3. TypeOK'
    BY <1>1 DEF CallsInv, TypeOK, Depth, Contents
  <1> QED BY <1>1, <1>2, <1>3, StillBound, BindingsKeep DEF Safe, BindingStep

LEMMA AssignSafe ==
    ASSUME CallsInv, TypesEnforced, NEW n \in Names, NEW v \in Values \cup {Unknown}, Assign(n, v)
    PROVE  Safe
  <1>1. CASE Here(n) \notin Scopes \/ ~IsOfType(v, n)
    BY <1>1, FailSafe DEF Assign
  <1>2. CASE ~(Here(n) \notin Scopes \/ ~IsOfType(v, n))
    <2>1. env' = [env EXCEPT ![Here(n)][n] = v] /\ UNCHANGED calls
      BY <1>2 DEF Assign
    <2> QED BY <1>2, <2>1, NeverInClosure, VariableSafe
  <1> QED BY <1>1, <1>2

LEMMA AssignMemberSafe ==
    ASSUME CallsInv, TypesEnforced, NEW i \in 1 .. Instances, NEW n \in Names,
           NEW v \in Values \cup {Unknown}, AssignMember(i, n, v)
    PROVE  Safe
  <1> DEFINE refused == (env[Inst(i)][n] = Absent /\ env[TypeScope][n] = Absent) \/ ~IsOfType(v, n)
  <1>1. CASE refused
    BY <1>1, FailSafe DEF AssignMember
  <1>2. CASE ~refused
    <2>1. env' = [env EXCEPT ![Inst(i)][n] = v] /\ UNCHANGED calls /\ IsOfType(v, n)
      BY <1>2 DEF AssignMember
    <2>2. Inst(i) \in Scopes /\ \A c \in Callables : Inst(i) # Closure(c)
      BY ScopesDistinct DEF Scopes
    <2> QED BY <2>1, <2>2, VariableSafe
  <1> QED BY <1>1, <1>2

LEMMA DeclareSafe ==
    ASSUME CallsInv, TypesEnforced, NEW n \in Names, NEW v \in Values \cup {Unknown}, Declare(n, v)
    PROVE  Safe
  <1> DEFINE s == Head(Chain(Depth))
  <1>1. CASE ~MayCreate(s, n, v)
    BY <1>1, FailSafe DEF Declare
  <1>2. CASE MayCreate(s, n, v)
    <2>1. env' = [env EXCEPT ![s][n] = v] /\ UNCHANGED calls /\ IsOfType(v, n)
      BY <1>2 DEF Declare, MayCreate
    <2>2. s \in Scopes /\ \A c \in Callables : s # Closure(c)
      <3>1. CASE Depth = 0
        <4>1. s = Global
          BY <3>1 DEF Chain
        <4> QED BY <4>1, ScopesDistinct DEF Scopes
      <3>2. CASE Depth # 0
        <4>1. Depth \in 1 .. Depth /\ Top.pc = "body"
          BY <3>2 DEF CallsInv, TypeOK, Depth, Declare
        <4>2. Depth \in 1 .. MaxCalls /\ calls[Depth].fn \in Callables
          BY <4>1, FrameType DEF CallsInv
        <4>3. Chain(Depth) = <<LocalOf(Depth), ParamsOf(Depth)>> \o StaticChain(calls[Depth].fn)
          BY <3>2, <4>1 DEF Chain, Top
        <4>4. s = LocalOf(Depth)
          BY <4>2, <4>3, StaticChains, FrameScopes
        <4> QED BY <4>2, <4>4, FrameScopes, ScopesDistinct
      <3> QED BY <3>1, <3>2
    <2> QED BY <2>1, <2>2, VariableSafe
  <1> QED BY <1>1, <1>2

\* A call pushes a frame.  Its arguments are looked up in the chain of the caller.
LEMMA CallSafe ==
    ASSUME CallsInv, TypesEnforced, NEW c \in Callables, NEW i \in 0 .. Instances,
           NEW count \in 0 .. Len(Params[c]) + 1, Call(c, i, count)
    PROVE  Safe
  <1> DEFINE frame == [fn |-> c, instance |-> i, outer |-> Outer(c), pc |-> "args",
                       at |-> 1, count |-> count, named |-> FALSE, target |-> NoTarget]
  <1>1. CASE count > Len(Params[c])
    BY <1>1, FailSafe DEF Call
  <1>2. CASE ~(count > Len(Params[c]))
    <2>1. calls' = Append(calls, frame) /\ env' = env
      BY <1>2 DEF Call
    <2>2. Outer(c) \in Seq(Scopes) /\ Outer(c) # << >>
      BY ChainType DEF Outer, CallsInv, TypeOK, Depth
    <2>3. Shielded(Outer(c)) /\ Below(Outer(c), Depth + 1)
      BY ChainShielded DEF Outer, CallsInv, TypeOK, Depth
    <2>4. Params[c] \in Seq(Names) /\ count \in Nat /\ count <= Len(Params[c])
      BY <1>2, CallsAssumption
    <2>5. frame \in Frames
      BY <2>2, <2>4 DEF Frames
    <2>6. /\ calls \in Seq(Frames) /\ Depth \in Nat /\ Depth = Len(calls)
          /\ Depth < MaxCalls /\ Depth + 1 <= MaxCalls
      BY CallsAssumption DEF CallsInv, TypeOK, Depth, Call
    <2>7. /\ Depth' = Depth + 1 /\ calls' \in Seq(Frames)
          /\ \A k \in 1 .. Depth : calls'[k] = calls[k]
          /\ calls'[Depth + 1] = frame
      BY <2>1, <2>5, <2>6 DEF Depth
    <2> HIDE DEF frame
    <2>8. ASSUME NEW k \in 1 .. Depth + 1
          PROVE  /\ calls'[k].outer # << >>
                 /\ calls'[k].at <= calls'[k].count + 1
                 /\ calls'[k].count <= Len(Params[calls'[k].fn])
                 /\ calls'[k].target # NoTarget =>
                       calls'[k].target \in ParamNames(calls'[k].fn) /\ calls'[k].at <= calls'[k].count
                 /\ k < Depth + 1 => calls'[k].pc = "body" \/ calls'[k].target # NoTarget
                 /\ calls'[k].pc = "body" => k \in 1 .. Depth
                 /\ Shielded(calls'[k].outer) /\ Below(calls'[k].outer, k)
      <3>1. CASE k = Depth + 1
        BY <2>2, <2>3, <2>4, <2>6, <2>7, <3>1 DEF frame
      <3>2. CASE k # Depth + 1
        <4>1. k \in 1 .. Depth /\ calls'[k] = calls[k]
          BY <2>6, <2>7, <3>2
        <4>2. k < Depth => calls[k].pc = "body" \/ calls[k].target # NoTarget
          BY <4>1 DEF CallsInv, TypeOK
        <4>3. k = Depth => calls[k].pc = "body" \/ calls[k].target # NoTarget
          BY <2>6 DEF Call, Evaluating, Top
        <4> QED BY <2>6, <4>1, <4>2, <4>3 DEF CallsInv, TypeOK, CallersShielded
      <3> QED BY <2>6, <3>1, <3>2
    <2>9. TypeOK'
      BY <2>1, <2>6, <2>7, <2>8 DEF CallsInv, TypeOK, ParamNames
    <2>10. ParametersBound'
      <3> SUFFICES ASSUME NEW k \in 1 .. Depth + 1, calls'[k].pc = "body",
                          NEW p \in ParamNames(calls'[k].fn)
                   PROVE  env[ParamsOf(k)][p] # Absent
        BY <2>1, <2>7 DEF ParametersBound, ParamNames
      <3>1. k \in 1 .. Depth /\ calls'[k] = calls[k]
        BY <2>7, <2>8
      <3> QED BY <3>1 DEF CallsInv, ParametersBound
    <2>11. CallersShielded'
      <3> SUFFICES ASSUME NEW k \in 1 .. Depth + 1
                   PROVE  Shielded(calls[k].outer)' /\ Below(calls[k].outer, k)'
        BY <2>7 DEF CallersShielded
      <3>1. Shielded(calls'[k].outer) /\ Below(calls'[k].outer, k)
        BY <2>8
      <3> QED BY <2>1, <3>1 DEF Shielded, Below, ParamNames
    <2> QED BY <2>1, <2>9, <2>10, <2>11 DEF Safe, CallsInv, ClosuresHoldParameters, TypesEnforced
  <1> QED BY <1>1, <1>2

\* A step of the last call changes its frame.
LEMMA TopChanges ==
    ASSUME CallsInv, Depth > 0, NEW f \in Frames, calls' = [calls EXCEPT ![Depth] = f],
           f.fn = Top.fn, f.outer = Top.outer, f.count = Top.count, f.at <= f.count + 1,
           f.target # NoTarget => f.target \in ParamNames(f.fn) /\ f.at <= f.count,
           env' \in [Scopes -> [Names -> Contents]]
    PROVE  /\ TypeOK' /\ SameCalls /\ calls'[Depth] = f
           /\ \A k \in 1 .. Depth : k # Depth => calls'[k] = calls[k]
  <1>1. calls \in Seq(Frames) /\ Depth \in 1 .. Len(calls) /\ Depth = Len(calls) /\ Depth <= MaxCalls
    BY DEF CallsInv, TypeOK, Depth
  <1>2. Len(calls') = Len(calls) /\ calls' \in Seq(Frames)
    BY <1>1
  <1>3. calls'[Depth] = f /\ \A k \in 1 .. Depth : k # Depth => calls'[k] = calls[k]
    BY <1>1
  <1>4. SameCalls
    BY <1>1, <1>2, <1>3 DEF SameCalls, Depth, Top
  <1>5. ASSUME NEW k \in 1 .. Depth
        PROVE  /\ calls'[k].outer # << >>
               /\ calls'[k].at <= calls'[k].count + 1
               /\ calls'[k].count <= Len(Params[calls'[k].fn])
               /\ calls'[k].target # NoTarget =>
                     calls'[k].target \in ParamNames(calls'[k].fn) /\ calls'[k].at <= calls'[k].count
               /\ k < Depth => calls'[k].pc = "body" \/ calls'[k].target # NoTarget
    <2>1. CASE k = Depth
      BY <1>1, <1>3, <2>1 DEF CallsInv, TypeOK, Top
    <2>2. CASE k # Depth
      BY <1>1, <1>3, <2>2 DEF CallsInv, TypeOK
    <2> QED BY <2>1, <2>2
  <1>6. TypeOK'
    BY <1>1, <1>2, <1>4, <1>5 DEF TypeOK, SameCalls, ParamNames, Contents
  <1> QED BY <1>3, <1>4, <1>6

\* A parameter is chosen for the next argument.
LEMMA AwaitSafe ==
    ASSUME CallsInv, TypesEnforced, NextArgument, NEW name \in ParamNames(Top.fn),
           NEW named \in BOOLEAN, Await(name, named)
    PROVE  Safe
  <1> DEFINE f == [Top EXCEPT !.target = name, !.named = named]
  <1>1. calls \in Seq(Frames) /\ Depth \in 1 .. Depth /\ Depth > 0 /\ Top.at <= Top.count
    BY DEF NextArgument, Arguing, CallsInv, TypeOK, Depth
  <1>2. Top \in Frames /\ name \in Names
    BY <1>1, FrameType, ParameterNames DEF CallsInv, Top
  <1>3. /\ f \in Frames /\ f.fn = Top.fn /\ f.outer = Top.outer /\ f.count = Top.count
        /\ f.at = Top.at /\ f.target = name /\ f.pc = Top.pc
    BY <1>2 DEF Frames
  <1>4. calls' = [calls EXCEPT ![Depth] = f] /\ env' = env
    BY DEF Await, Top
  <1> HIDE DEF f
  <1>5. f.at <= f.count + 1 /\ f.at <= f.count
    BY <1>1, <1>2, <1>3 DEF Frames
  <1>6. /\ TypeOK' /\ SameCalls /\ calls'[Depth] = f
        /\ \A k \in 1 .. Depth : k # Depth => calls'[k] = calls[k]
    BY <1>1, <1>3, <1>4, <1>5, TopChanges DEF CallsInv, TypeOK, Contents
  <1>7. BindingStep /\ \A k \in 1 .. Depth : calls'[k].pc = calls[k].pc
    BY <1>3, <1>4, <1>6 DEF BindingStep, Top
  <1> QED BY <1>6, <1>7, StillBound, BindingsKeep DEF Safe, BindingStep

LEMMA PositionalArgumentSafe ==
    ASSUME CallsInv, TypesEnforced, PositionalArgument
    PROVE  Safe
  <1>1. CASE Top.named
    BY <1>1, FailSafe DEF PositionalArgument
  <1>2. CASE ~Top.named
    <2>1. Await(Params[Top.fn][Top.at], FALSE) /\ NextArgument
      BY <1>2 DEF PositionalArgument
    <2>2. Params[Top.fn][Top.at] \in ParamNames(Top.fn)
      <3>1. Depth \in 1 .. Depth
        BY <2>1 DEF NextArgument, Arguing, CallsInv, TypeOK, Depth
      <3>2. /\ Top.fn \in Callables /\ Top.at \in Nat \ {0}
            /\ Top.at <= Top.count /\ Top.count \in Nat /\ Top.count <= Len(Params[Top.fn])
        BY <2>1, <3>1, FrameType DEF NextArgument, Arguing, CallsInv, TypeOK, Top
      <3>3. Params[Top.fn] \in Seq(Names)
        BY <3>2, CallsAssumption
      <3>4. Top.at \in DOMAIN Params[Top.fn]
        BY <3>2, <3>3
      <3> QED BY <3>4 DEF ParamNames
    <2> QED BY <2>1, <2>2, AwaitSafe
  <1> QED BY <1>1, <1>2

LEMMA NamedArgumentSafe ==
    ASSUME CallsInv, TypesEnforced, NEW n \in Names, NamedArgument(n)
    PROVE  Safe
  <1>1. CASE n \notin ParamNames(Top.fn)
    BY <1>1, FailSafe DEF NamedArgument
  <1>2. CASE n \in ParamNames(Top.fn)
    BY <1>2, AwaitSafe DEF NamedArgument
  <1> QED BY <1>1, <1>2

\* The value of an argument is bound to the parameter that awaits it.
LEMMA BindArgumentSafe ==
    ASSUME CallsInv, TypesEnforced, NEW v \in Values \cup {Unknown}, BindArgument(v)
    PROVE  Safe
  <1>1. CASE ~MayCreate(ParamsOf(Depth), Top.target, v)
    BY <1>1, FailSafe DEF BindArgument
  <1>2. CASE MayCreate(ParamsOf(Depth), Top.target, v)
    <2>1. /\ env' = [env EXCEPT ![ParamsOf(Depth)][Top.target] = v]
          /\ calls' = [calls EXCEPT ![Depth].target = NoTarget, ![Depth].at = @ + 1]
          /\ IsOfType(v, Top.target)
      BY <1>2 DEF BindArgument, MayCreate
    <2>2. /\ calls \in Seq(Frames) /\ Depth \in 1 .. Len(calls) /\ Depth = Len(calls)
          /\ Top.target # NoTarget /\ Top.pc = "args"
      BY DEF BindArgument, Evaluating, CallsInv, TypeOK, Depth
    <2>3. /\ Depth \in 1 .. MaxCalls /\ Top \in Frames /\ Top.fn \in Callables
          /\ Top.at \in Nat \ {0} /\ Top.count \in Nat
      BY <2>2, FrameType DEF CallsInv, Top
    <2>4. Top.target \in ParamNames(Top.fn) /\ Top.target \in Names
      BY <2>2, <2>3, ParameterNames DEF CallsInv, TypeOK, Top
    <2>5. Top.at <= Top.count
      BY <2>2 DEF CallsInv, TypeOK, Top
    <2> DEFINE f == [Top EXCEPT !.target = NoTarget, !.at = @ + 1]
    <2>6. /\ f \in Frames /\ f.fn = Top.fn /\ f.outer = Top.outer /\ f.count = Top.count
          /\ f.at = Top.at + 1 /\ f.target = NoTarget /\ f.pc = Top.pc
      <3>1. Top.at + 1 \in Nat \ {0}
        BY <2>3
      <3> QED BY <2>3, <3>1 DEF Frames
    <2>7. calls' = [calls EXCEPT ![Depth] = f]
      BY <2>1 DEF Top
    <2> HIDE DEF f
    <2>8. env' \in [Scopes -> [Names -> Contents]] /\ BindingStep
      <3>1. ParamsOf(Depth) \in Scopes /\ \A c \in Callables : ParamsOf(Depth) # Closure(c)
        BY <2>3, FrameScopes, ScopesDistinct
      <3> QED BY <2>1, <2>4, <3>1, OneBinding
    <2>9. f.at <= f.count + 1
      BY <2>3, <2>5, <2>6
    <2>10. /\ TypeOK' /\ SameCalls /\ calls'[Depth] = f
           /\ \A k \in 1 .. Depth : k # Depth => calls'[k] = calls[k]
      <3>1. Depth > 0 /\ (f.target # NoTarget => f.target \in ParamNames(f.fn) /\ f.at <= f.count)
        BY <2>2, <2>6
      <3> QED BY <2>6, <2>7, <2>8, <2>9, <3>1, TopChanges
    <2>11. \A k \in 1 .. Depth : calls'[k].pc = calls[k].pc
      BY <2>6, <2>10 DEF Top
    <2> QED BY <2>8, <2>10, <2>11, StillBound, BindingsKeep DEF Safe, BindingStep
  <1> QED BY <1>1, <1>2

\* The parameters that were not given are bound to their defaults.
LEMMA EnterBodySafe ==
    ASSUME CallsInv, TypesEnforced, EnterBody
    PROVE  Safe
  <1> DEFINE lacking == \E p \in NotGiven : env[Closure(Top.fn)][p] = Unknown
             closure == Closure(Top.fn)
             params == ParamsOf(Depth)
             f == [Top EXCEPT !.pc = "body"]
  <1>1. CASE lacking
    BY <1>1, FailSafe DEF EnterBody
  <1>2. CASE ~lacking
    <2>1. /\ env' = [env EXCEPT ![params] = Filled]
          /\ calls' = [calls EXCEPT ![Depth] = f]
      BY <1>2 DEF EnterBody, Top
    <2>2. calls \in Seq(Frames) /\ Depth \in 1 .. Depth /\ Depth > 0 /\ Top.target = NoTarget
      BY DEF EnterBody, Arguing, CallsInv, TypeOK, Depth
    <2>3. Depth \in 1 .. MaxCalls /\ Top \in Frames /\ Top.fn \in Callables
      BY <2>2, FrameType DEF CallsInv, Top
    <2>4. env \in [Scopes -> [Names -> Contents]]
      BY DEF CallsInv, TypeOK, Contents
    <2>5. /\ params \in Scopes /\ closure \in Scopes
          /\ \A c \in Callables : Closure(c) \in Scopes /\ Closure(c) # params
      BY <2>3, FrameScopes, ScopesDistinct
    <2>6. /\ f \in Frames /\ f.fn = Top.fn /\ f.outer = Top.outer /\ f.count = Top.count
          /\ f.at = Top.at /\ f.target = NoTarget
      BY <2>2, <2>3 DEF Frames
    <2>7. Top.at <= Top.count + 1
      BY <2>2 DEF CallsInv, TypeOK, Top
    <2> HIDE DEF f, params, closure
    <2>8. Filled \in [Names -> Contents]
      BY <2>4, <2>5 DEF Filled, closure, params
    <2>9. env' \in [Scopes -> [Names -> Contents]] /\ env'[params] = Filled
          /\ \A s \in Scopes : s # params => env'[s] = env[s]
      BY <2>1, <2>4, <2>5, <2>8
    <2>10. /\ TypeOK' /\ SameCalls
           /\ \A k \in 1 .. Depth : k # Depth => calls'[k] = calls[k]
      BY <2>1, <2>2, <2>6, <2>7, <2>9, TopChanges
    <2>11. ASSUME NEW n \in Names
           PROVE  /\ n \in ParamNames(Top.fn) => Filled[n] # Absent
                  /\ Filled[n] # env[params][n] => Filled[n] # Absent /\ IsOfType(Filled[n], n)
      <3>1. CASE n \in NotGiven
        <4>1. Filled[n] = env[closure][n]
          BY <3>1 DEF Filled, closure
        <4>2. n \in ParamNames(Top.fn)
          BY <3>1 DEF NotGiven
        <4>3. env[closure][n] # Absent
          BY <2>3, <4>2 DEF CallsInv, ClosuresHoldParameters, closure
        <4> QED BY <2>5, <4>1, <4>3 DEF TypesEnforced
      <3>2. CASE n \notin NotGiven
        BY <3>2 DEF Filled, NotGiven, params
      <3> QED BY <3>1, <3>2
    <2>12. BindingStep
      BY <2>5, <2>9, <2>11 DEF BindingStep
    <2>13. ParametersBound'
      <3> SUFFICES ASSUME NEW k \in 1 .. Depth, calls'[k].pc = "body",
                          NEW p \in ParamNames(calls[k].fn)
                   PROVE  env'[ParamsOf(k)][p] # Absent
        BY <2>10 DEF ParametersBound, SameCalls, ParamNames
      <3>1. k \in 1 .. MaxCalls /\ calls[k].fn \in Callables /\ p \in Names
        BY FrameType, ParameterNames DEF CallsInv
      <3>2. CASE k = Depth
        BY <2>9, <2>11, <3>1, <3>2 DEF Top, params
      <3>3. CASE k # Depth
        <4>1. env[ParamsOf(k)][p] # Absent
          BY <2>10, <3>3 DEF CallsInv, ParametersBound
        <4> QED BY <2>12, <3>1, <4>1, FrameScopes DEF BindingStep
      <3> QED BY <3>2, <3>3
    <2> QED BY <2>10, <2>12, <2>13, BindingsKeep DEF Safe, BindingStep
  <1> QED BY <1>1, <1>2

\* The scopes of the last call go away.  They shield no caller's chain.
LEMMA ReturnSafe ==
    ASSUME CallsInv, TypesEnforced, Return
    PROVE  Safe
  <1> DEFINE params == ParamsOf(Depth)
             local == LocalOf(Depth)
  <1>1. /\ env' = [env EXCEPT ![params] = Unbound, ![local] = Unbound]
        /\ calls' = SubSeq(calls, 1, Depth - 1)
    BY DEF Return
  <1>2. calls \in Seq(Frames) /\ Depth \in 1 .. Depth /\ Depth = Len(calls) /\ Depth <= MaxCalls
    BY DEF Return, CallsInv, TypeOK, Depth
  <1>3. Depth \in 1 .. MaxCalls
    BY <1>2, FrameType DEF CallsInv
  <1>4. /\ params \in Scopes /\ local \in Scopes
        /\ \A c \in Callables : Closure(c) \in Scopes /\ Closure(c) # params /\ Closure(c) # local
        /\ \A k \in 1 .. MaxCalls : k # Depth => ParamsOf(k) # params /\ ParamsOf(k) # local
    BY <1>3, FrameScopes, ScopesDistinct
  <1>5. env \in [Scopes -> [Names -> Contents]] /\ Unbound \in [Names -> Contents]
    BY DEF CallsInv, TypeOK, Contents, Unbound
  <1> HIDE DEF params, local
  <1>6. /\ env' \in [Scopes -> [Names -> Contents]]
        /\ \A s \in Scopes : s # params /\ s # local => env'[s] = env[s]
        /\ \A s \in Scopes : s = params \/ s = local => env'[s] = Unbound
    BY <1>1, <1>4, <1>5
  <1>7. /\ Depth' = Depth - 1 /\ calls' \in Seq(Frames)
        /\ \A k \in 1 .. Depth - 1 : calls'[k] = calls[k]
    <2>1. \A k \in 1 .. Depth - 1 : calls[k] \in Frames
      BY <1>2
    <2>2. /\ calls' \in Seq(Frames) /\ Len(calls') = Depth - 1
          /\ \A k \in 1 .. Depth - 1 : calls'[k] = calls[k]
      BY <1>1, <1>2, <2>1, SubSeqProperties, Z3
    <2> QED BY <2>2 DEF Depth
  <1>8. ASSUME NEW k \in 1 .. Depth - 1
        PROVE  /\ k \in 1 .. Depth /\ k \in 1 .. MaxCalls /\ k # Depth
               /\ calls'[k] = calls[k] /\ calls[k].fn \in Callables
    BY <1>2, <1>7, FrameType DEF CallsInv
  <1>9. TypeOK'
    <2>1. \A k \in 1 .. Depth - 1 :
             /\ calls'[k].outer # << >>
             /\ calls'[k].at <= calls'[k].count + 1 /\ calls'[k].count <= Len(Params[calls'[k].fn])
             /\ calls'[k].target # NoTarget =>
                   calls'[k].target \in ParamNames(calls'[k].fn) /\ calls'[k].at <= calls'[k].count
             /\ k < Depth - 1 => calls'[k].pc = "body" \/ calls'[k].target # NoTarget
      <3> SUFFICES ASSUME NEW k \in 1 .. Depth - 1
                   PROVE  /\ calls[k].outer # << >>
                          /\ calls[k].at <= calls[k].count + 1 /\ calls[k].count <= Len(Params[calls[k].fn])
                          /\ calls[k].target # NoTarget =>
                                calls[k].target \in ParamNames(calls[k].fn) /\ calls[k].at <= calls[k].count
                          /\ k < Depth => calls[k].pc = "body" \/ calls[k].target # NoTarget
        BY <1>2, <1>7
      <3> QED BY <1>8 DEF CallsInv, TypeOK
    <2>2. Depth' <= MaxCalls
      BY <1>2, <1>7, CallsAssumption
    <2> QED BY <1>6, <1>7, <2>1, <2>2 DEF TypeOK, ParamNames, Contents
  <1>10. ParametersBound'
    <2> SUFFICES ASSUME NEW k \in 1 .. Depth - 1, calls[k].pc = "body", NEW p \in ParamNames(calls[k].fn)
                 PROVE  env'[ParamsOf(k)][p] # Absent
      <3>1. \A k \in 1 .. Depth' : k \in 1 .. Depth - 1 /\ calls'[k] = calls[k]
        BY <1>7
      <3> QED BY <3>1 DEF ParametersBound, ParamNames
    <2>1. env[ParamsOf(k)][p] # Absent
      BY <1>8 DEF CallsInv, ParametersBound
    <2>2. ParamsOf(k) \in Scopes /\ ParamsOf(k) # params /\ ParamsOf(k) # local
      BY <1>4, <1>8, FrameScopes
    <2> QED BY <1>6, <2>1, <2>2
  <1>11. \A c \in Callables : env'[Closure(c)] = env[Closure(c)]
    BY <1>4, <1>6
  <1>12. ClosuresHoldParameters'
    BY <1>11 DEF CallsInv, ClosuresHoldParameters, ParamNames
  <1>13. CallersShielded'
    <2> SUFFICES ASSUME NEW k \in 1 .. Depth - 1
                 PROVE  Shielded(calls[k].outer)' /\ Below(calls[k].outer, k)'
      BY <1>7 DEF CallersShielded
    <2>1. calls[k].outer \in Seq(Scopes)
      BY <1>8, FrameType DEF CallsInv
    <2>2. Shielded(calls[k].outer) /\ Below(calls[k].outer, k)
      BY <1>8 DEF CallsInv, CallersShielded
    <2>3. calls'[k].outer = calls[k].outer
      BY <1>8
    <2>4. Below(calls[k].outer, k)'
      BY <2>2, <2>3 DEF Below
    <2>5. \A i \in DOMAIN calls[k].outer : calls[k].outer[i] # params /\ calls[k].outer[i] # local
      <3>1. Depth \in 1 .. MaxCalls /\ Depth >= k
        BY <1>2, <1>3
      <3> QED BY <2>2, <3>1 DEF Below, params, local
    <2>6. ASSUME NEW i \in DOMAIN calls[k].outer, NEW c \in Callables, calls[k].outer[i] = Closure(c),
                 NEW p \in ParamNames(c)
          PROVE  \E j \in 1 .. i - 1 : env'[calls[k].outer[j]][p] # Absent
      <3>1. PICK j \in 1 .. i - 1 : env[calls[k].outer[j]][p] # Absent
        BY <2>2, <2>6 DEF Shielded
      <3>2. j \in DOMAIN calls[k].outer /\ calls[k].outer[j] \in Scopes
        BY <2>1, <3>1
      <3>3. env'[calls[k].outer[j]] = env[calls[k].outer[j]]
        BY <1>6, <2>5, <3>2
      <3> QED BY <3>1, <3>3
    <2> QED BY <2>3, <2>4, <2>6 DEF Shielded, ParamNames
  <1>14. TypesEnforced'
    <2> SUFFICES ASSUME NEW s \in Scopes, NEW n \in Names, env'[s][n] # Absent
                 PROVE  IsOfType(env'[s][n], n)
      BY DEF TypesEnforced, IsOfType
    <2>1. env'[s] = env[s]
      BY <1>6 DEF Unbound
    <2> QED BY <2>1 DEF TypesEnforced
  <1> QED BY <1>9, <1>10, <1>11, <1>12, <1>13, <1>14 DEF Safe, CallsInv

(***************************************************************************)
(* The theorems.                                                           *)
(***************************************************************************)
IInv == CallsInv /\ TypesEnforced

LEMMA NextSafe ==
    ASSUME IInv, Next
    PROVE  Safe
  <1> USE DEF IInv
  <1>1. ASSUME NEW n \in Names, NEW v \in Values \cup {Unknown}, Assign(n, v) PROVE Safe
    BY <1>1, AssignSafe
  <1>2. ASSUME NEW n \in Names, NEW v \in Values \cup {Unknown}, Declare(n, v) PROVE Safe
    BY <1>2, DeclareSafe
  <1>3. ASSUME NEW n \in Names, NEW v \in Values \cup {Unknown}, NEW i \in 1 .. Instances,
               AssignMember(i, n, v)
        PROVE  Safe
    BY <1>3, AssignMemberSafe
  <1>4. ASSUME NEW c \in Callables, NEW i \in 0 .. Instances,
               NEW count \in 0 .. Len(Params[c]) + 1, Call(c, i, count)
        PROVE  Safe
    BY <1>4, CallSafe
  <1>5. CASE PositionalArgument
    BY <1>5, PositionalArgumentSafe
  <1>6. CASE CompoundArgument
    BY <1>6, FailSafe DEF CompoundArgument
  <1>7. ASSUME NEW n \in Names, NamedArgument(n) PROVE Safe
    BY <1>7, NamedArgumentSafe
  <1>8. ASSUME NEW v \in Values \cup {Unknown}, BindArgument(v) PROVE Safe
    BY <1>8, BindArgumentSafe
  <1>9. CASE EnterBody
    BY <1>9, EnterBodySafe
  <1>10. CASE Return
    BY <1>10, ReturnSafe
  <1> QED BY <1>1, <1>2, <1>3, <1>4, <1>5, <1>6, <1>7, <1>8, <1>9, <1>10 DEF Next

LEMMA Stutter ==
    ASSUME IInv, UNCHANGED vars
    PROVE  IInv' /\ \A c \in Callables : env'[Closure(c)] = env[Closure(c)]
  BY DEF vars, IInv, CallsInv, TypeOK, Depth, ParametersBound, ClosuresHoldParameters,
         CallersShielded, Shielded, Below, TypesEnforced

LEMMA Invariance == Spec => []IInv
  <1>1. Init => IInv
    BY InitInv DEF IInv
  <1>2. IInv /\ [Next]_vars => IInv'
    BY NextSafe, Stutter DEF Safe, IInv
  <1> QED BY <1>1, <1>2, PTL DEF Spec

\* Every name is looked up and bound in a scope there is, and every argument has a
\* parameter (interpreter.c, execute_call_expr): in every run.
THEOREM TypeCorrect == Spec => []TypeOK
  <1>1. IInv => TypeOK
    BY DEF IInv, CallsInv
  <1> QED BY <1>1, Invariance, PTL

\* Wherever a typed name is bound, its value fits its type: for any functions,
\* parameters, fields, instances and depth of calls.
THEOREM TypesAreEnforced == Spec => []TypesEnforced
  <1>1. IInv => TypesEnforced
    BY DEF IInv
  <1> QED BY <1>1, Invariance, PTL

\* No step of any run changes the defaults in the closure of a function: by then
\* each parameter is bound in a scope in front of it.
THEOREM DefaultsAreKept == Spec => DefaultsKept
  <1>1. IInv /\ [Next]_vars => [\A c \in Callables : env'[Closure(c)] = env[Closure(c)]]_vars
    BY NextSafe DEF Safe
  <1> QED BY <1>1, Invariance, PTL DEF Spec, DefaultsKept

(***************************************************************************)
(* Arguments.  Looking a name up passes over places it is not bound in.    *)
(***************************************************************************)
Found(places, n) ==
    IF FirstBound(places, n) = {} THEN <<"nowhere", 0>>
    ELSE places[CHOOSE i \in FirstBound(places, n) : TRUE]

LEMMA FoundAt ==
    ASSUME NEW places \in Seq(Scopes), NEW n, NEW m \in FirstBound(places, n)
    PROVE  Found(places, n) = places[m]
  <1> DEFINE x == CHOOSE i \in FirstBound(places, n) : TRUE
  <1>1. x \in FirstBound(places, n) /\ FirstBound(places, n) # {}
    OBVIOUS
  <1>2. Found(places, n) = places[x]
    BY <1>1 DEF Found
  <1> HIDE DEF x
  <1>3. /\ x \in 1 .. Len(places) /\ m \in 1 .. Len(places) /\ Len(places) \in Nat
        /\ env[places[x]][n] # Absent /\ \A j \in 1 .. x - 1 : env[places[j]][n] = Absent
        /\ env[places[m]][n] # Absent /\ \A j \in 1 .. m - 1 : env[places[j]][n] = Absent
    BY <1>1 DEF FirstBound
  <1>4. x = m
    BY <1>3
  <1> QED BY <1>2, <1>4

LEMMA PassedOver ==
    ASSUME NEW a \in Seq(Scopes), NEW b \in Seq(Scopes), Len(b) = Len(a) + 1, NEW n,
           NEW p \in 1 .. Len(b), env[b[p]][n] = Absent,
           \A j \in 1 .. Len(a) : (j < p => b[j] = a[j]) /\ (j >= p => b[j + 1] = a[j])
    PROVE  Found(b, n) = Found(a, n)
  <1>1. Len(a) \in Nat /\ p \in 1 .. Len(a) + 1 /\ DOMAIN a = 1 .. Len(a) /\ DOMAIN b = 1 .. Len(a) + 1
    OBVIOUS
  <1>2. CASE FirstBound(a, n) # {}
    <2>1. PICK m \in FirstBound(a, n) : TRUE
      BY <1>2
    <2>2. /\ m \in 1 .. Len(a) /\ env[a[m]][n] # Absent
          /\ \A j \in 1 .. m - 1 : env[a[j]][n] = Absent
      BY <2>1 DEF FirstBound
    <2>3. CASE m < p
      <3>1. m \in FirstBound(b, n)
        BY <1>1, <2>2, <2>3 DEF FirstBound
      <3> QED BY <2>1, <2>2, <2>3, <3>1, FoundAt
    <2>4. CASE m >= p
      <3>1. b[m + 1] = a[m] /\ m + 1 \in 1 .. Len(a) + 1
        BY <1>1, <2>2, <2>4
      <3>2. ASSUME NEW j \in 1 .. (m + 1) - 1 PROVE env[b[j]][n] = Absent
        <4>1. CASE j < p
          BY <1>1, <2>2, <2>4, <4>1
        <4>2. CASE j = p
          BY <4>2
        <4>3. CASE j > p
          <5>1. j - 1 \in 1 .. m - 1 /\ j - 1 >= p /\ j - 1 \in 1 .. Len(a) /\ (j - 1) + 1 = j
            BY <1>1, <2>2, <4>3
          <5>2. b[(j - 1) + 1] = a[j - 1]
            BY <5>1
          <5> QED BY <2>2, <5>1, <5>2
        <4> QED BY <1>1, <2>2, <4>1, <4>2, <4>3
      <3>3. m + 1 \in FirstBound(b, n)
        BY <1>1, <2>2, <3>1, <3>2 DEF FirstBound
      <3> QED BY <2>1, <3>1, <3>3, FoundAt
    <2> QED BY <1>1, <2>2, <2>3, <2>4
  <1>3. CASE FirstBound(a, n) = {}
    <2>1. ASSUME NEW m \in FirstBound(b, n) PROVE FALSE
      <3>1. /\ m \in 1 .. Len(a) + 1 /\ env[b[m]][n] # Absent
            /\ \A j \in 1 .. m - 1 : env[b[j]][n] = Absent
        BY <1>1, <2>1 DEF FirstBound
      <3>2. CASE m < p
        <4>1. m \in FirstBound(a, n)
          BY <1>1, <3>1, <3>2 DEF FirstBound
        <4> QED BY <1>3, <4>1
      <3>3. CASE m > p
        <4>1. m - 1 \in 1 .. Len(a) /\ m - 1 >= p /\ (m - 1) + 1 = m
          BY <1>1, <3>1, <3>3
        <4>2. a[m - 1] = b[m]
          BY <4>1
        <4>3. ASSUME NEW j \in 1 .. (m - 1) - 1 PROVE env[a[j]][n] = Absent
          <5>1. j \in 1 .. Len(a) /\ j \in 1 .. m - 1 /\ j + 1 \in 1 .. m - 1
            BY <1>1, <3>1, <4>1
          <5>2. env[b[j]][n] = Absent /\ env[b[j + 1]][n] = Absent
            BY <3>1, <5>1
          <5>3. a[j] = b[j] \/ a[j] = b[j + 1]
            BY <1>1, <5>1
          <5> QED BY <5>2, <5>3
        <4>4. m - 1 \in FirstBound(a, n)
          BY <1>1, <3>1, <4>1, <4>2, <4>3 DEF FirstBound
        <4> QED BY <1>3, <4>4
      <3> QED BY <1>1, <3>1, <3>2, <3>3
    <2> QED BY <1>3, <2>1 DEF Found
  <1> QED BY <1>2, <1>3

LEMMA InstancePassedOver ==
    ASSUME NEW chain \in Seq(Scopes), chain # << >>, NEW i \in 0 .. Instances, NEW n,
           i # NoInstance => env[Inst(i)][n] = Absent
    PROVE  Lookup(chain, i, n) = Found(chain, n)
  <1>1. Lookup(chain, i, n) = Found(Places(chain, i), n)
    BY DEF Lookup, Found
  <1>2. CASE i = NoInstance
    BY <1>1, <1>2 DEF Places
  <1>3. CASE i # NoInstance
    <2> DEFINE places == Places(chain, i)
    <2>1. i \in 1 .. Instances
      BY <1>3, CallsAssumption DEF NoInstance
    <2>2. /\ Len(places) = Len(chain) + 1 /\ places \in Seq(Scopes)
          /\ places[1] = chain[1] /\ places[2] = Inst(i)
          /\ \A x \in 3 .. Len(chain) + 1 : places[x] = chain[x - 1]
      BY <2>1, PlacesShape
    <2> HIDE DEF places
    <2>3. Len(chain) \in Nat /\ Len(chain) > 0
      OBVIOUS
    <2>4. ASSUME NEW j \in 1 .. Len(chain)
          PROVE  (j < 2 => places[j] = chain[j]) /\ (j >= 2 => places[j + 1] = chain[j])
      <3>1. CASE j = 1
        BY <2>2, <3>1
      <3>2. CASE j # 1
        <4>1. j + 1 \in 3 .. Len(chain) + 1 /\ (j + 1) - 1 = j
          BY <2>3, <3>2
        <4> QED BY <2>2, <4>1
      <3> QED BY <3>1, <3>2
    <2>5. 2 \in 1 .. Len(places) /\ env[places[2]][n] = Absent
      BY <1>3, <2>2, <2>3
    <2>6. Found(places, n) = Found(chain, n)
      BY <2>2, <2>4, <2>5, PassedOver
    <2> QED BY <1>1, <2>6 DEF places
  <1> QED BY <1>2, <1>3

\* While arguments are evaluated, the parent of the new scope is the caller's scope.
OuterIsCaller == \A k \in 1 .. Depth : calls[k].pc = "args" => calls[k].outer = Chain(k - 1)

\* The chain of a call depends on its own frame.
LEMMA SameChain ==
    ASSUME NEW k \in Nat, k # 0 => calls'[k] = calls[k]
    PROVE  Chain(k)' = Chain(k)
  BY DEF Chain, StaticChain

LEMMA OuterStep ==
    ASSUME CallsInv, OuterIsCaller, [Next]_vars
    PROVE  OuterIsCaller'
  <1>1. calls \in Seq(Frames) /\ Depth \in Nat /\ Depth = Len(calls)
    BY DEF CallsInv, TypeOK, Depth
  <1>2. CASE UNCHANGED calls
    <2> SUFFICES ASSUME NEW k \in 1 .. Depth, calls[k].pc = "args"
                 PROVE  calls[k].outer = Chain(k - 1)'
      BY <1>2 DEF OuterIsCaller, Depth
    <2>1. Chain(k - 1)' = Chain(k - 1)
      BY <1>2, SameChain
    <2> QED BY <2>1 DEF OuterIsCaller
  <1>3. ASSUME NEW f, Depth > 0, calls' = [calls EXCEPT ![Depth] = f], f.outer = Top.outer,
               f.pc = "args" => Top.pc = "args"
        PROVE  OuterIsCaller'
    <2>1. /\ Depth' = Depth /\ calls'[Depth] = f
          /\ \A k \in 1 .. Depth : k # Depth => calls'[k] = calls[k]
      BY <1>1, <1>3 DEF Depth
    <2> SUFFICES ASSUME NEW k \in 1 .. Depth, calls'[k].pc = "args"
                 PROVE  calls'[k].outer = Chain(k - 1)'
      BY <2>1 DEF OuterIsCaller
    <2>2. calls[k].pc = "args" /\ calls'[k].outer = calls[k].outer
      BY <1>3, <2>1 DEF Top
    <2>3. Chain(k - 1)' = Chain(k - 1)
      BY <1>1, <2>1, SameChain
    <2> QED BY <2>2, <2>3 DEF OuterIsCaller
  <1>4. ASSUME NEW c \in Callables, NEW i \in 0 .. Instances,
               NEW count \in 0 .. Len(Params[c]) + 1, Call(c, i, count), ~UNCHANGED calls
        PROVE  OuterIsCaller'
    <2>1. PICK f : calls' = Append(calls, f) /\ f.outer = Chain(Depth)
      BY <1>4 DEF Call, Outer, Fail
    <2>2. /\ Depth' = Depth + 1 /\ calls'[Depth + 1] = f
          /\ \A k \in 1 .. Depth : calls'[k] = calls[k]
      BY <1>1, <2>1 DEF Depth
    <2> SUFFICES ASSUME NEW k \in 1 .. Depth + 1, calls'[k].pc = "args"
                 PROVE  calls'[k].outer = Chain(k - 1)'
      BY <2>2 DEF OuterIsCaller
    <2>3. Chain(k - 1)' = Chain(k - 1)
      BY <1>1, <2>2, SameChain
    <2> QED BY <1>1, <2>1, <2>2, <2>3 DEF OuterIsCaller
  <1>5. CASE Return
    <2>1. calls' = SubSeq(calls, 1, Depth - 1) /\ Depth > 0
      BY <1>5 DEF Return
    <2>2. Depth' = Depth - 1 /\ \A k \in 1 .. Depth - 1 : calls'[k] = calls[k]
      <3>1. \A k \in 1 .. Depth - 1 : calls[k] \in Frames
        BY <1>1
      <3>2. Len(calls') = Depth - 1 /\ \A k \in 1 .. Depth - 1 : calls'[k] = calls[k]
        BY <1>1, <2>1, <3>1, SubSeqProperties, Z3
      <3> QED BY <3>2 DEF Depth
    <2> SUFFICES ASSUME NEW k \in 1 .. Depth - 1, calls'[k].pc = "args"
                 PROVE  calls'[k].outer = Chain(k - 1)'
      BY <2>2 DEF OuterIsCaller
    <2>3. Chain(k - 1)' = Chain(k - 1)
      BY <1>1, <2>2, SameChain
    <2> QED BY <1>1, <2>2, <2>3 DEF OuterIsCaller
  <1>6. ASSUME NextArgument, NEW name, NEW named, Await(name, named) PROVE OuterIsCaller'
    <2>1. calls' = [calls EXCEPT ![Depth] = [Top EXCEPT !.target = name, !.named = named]]
      BY <1>6 DEF Await, Top
    <2>2. Depth > 0 /\ Top \in Frames
      BY <1>1, <1>6 DEF NextArgument, Arguing, Top
    <2> QED BY <1>3, <2>1, <2>2 DEF Frames
  <1>7. ASSUME NEW v \in Values \cup {Unknown}, BindArgument(v), ~UNCHANGED calls PROVE OuterIsCaller'
    <2>1. calls' = [calls EXCEPT ![Depth] = [Top EXCEPT !.target = NoTarget, !.at = @ + 1]]
      BY <1>7 DEF BindArgument, Fail, Top
    <2>2. Depth > 0 /\ Top \in Frames
      BY <1>1, <1>7 DEF BindArgument, Top
    <2> QED BY <1>3, <2>1, <2>2 DEF Frames
  <1>8. CASE EnterBody /\ ~UNCHANGED calls
    <2>1. calls' = [calls EXCEPT ![Depth] = [Top EXCEPT !.pc = "body"]]
      BY <1>8 DEF EnterBody, Fail, Top
    <2>2. Depth > 0 /\ Top \in Frames
      BY <1>1, <1>8 DEF EnterBody, Arguing, Top
    <2> QED BY <1>3, <2>1, <2>2 DEF Frames
  <1>9. ASSUME NEW n \in Names, NEW v \in Values \cup {Unknown},
               Assign(n, v) \/ Declare(n, v) \/ \E i \in 1 .. Instances : AssignMember(i, n, v)
        PROVE  UNCHANGED calls
    BY <1>9 DEF Assign, Declare, AssignMember, Fail
  <1>10. CASE PositionalArgument \/ CompoundArgument
    BY <1>2, <1>6, <1>10 DEF PositionalArgument, CompoundArgument, Fail
  <1>11. ASSUME NEW n \in Names, NamedArgument(n) PROVE OuterIsCaller'
    BY <1>2, <1>6, <1>11 DEF NamedArgument, Fail
  <1>12. CASE UNCHANGED vars
    BY <1>2, <1>12 DEF vars
  <1> QED BY <1>2, <1>4, <1>5, <1>7, <1>8, <1>9, <1>10, <1>11, <1>12 DEF Next

LEMMA ArgumentsLookedUp ==
    ASSUME CallsInv, OuterIsCaller
    PROVE  ArgumentsAreTheCallers
  <1> SUFFICES ASSUME Depth > 0, Top.pc = "args", NEW n \in Names, ~Captured(n)
               PROVE  Here(n) = Lookup(Chain(Depth - 1), InstanceAt(Depth - 1), n)
    BY DEF ArgumentsAreTheCallers
  <1> DEFINE before == Chain(Depth - 1)
             chain == Chain(Depth)
  <1>1. Depth \in 1 .. Depth /\ Depth \in 0 .. Depth /\ Depth - 1 \in 0 .. Depth
    BY DEF CallsInv, TypeOK, Depth
  <1>2. /\ before \in Seq(Scopes) /\ before # << >> /\ chain \in Seq(Scopes) /\ chain # << >>
        /\ InstanceAt(Depth - 1) \in 0 .. Instances /\ InstanceAt(Depth) \in 0 .. Instances
    BY <1>1, ChainType, InstanceType DEF CallsInv
  <1>3. ParamsOf(Depth) \in Scopes
    BY <1>1, FrameType, FrameScopes DEF CallsInv
  <1>4. chain = <<ParamsOf(Depth)>> \o before
    <2>1. calls[Depth].pc = "args" /\ Depth # 0
      BY DEF Top
    <2>2. calls[Depth].outer = before
      BY <1>1, <2>1 DEF OuterIsCaller
    <2>3. chain = <<ParamsOf(Depth)>> \o calls[Depth].outer
      BY <2>1 DEF Chain
    <2> QED BY <2>2, <2>3
  <1>5. /\ env[ParamsOf(Depth)][n] = Absent
        /\ InstanceAt(Depth - 1) # NoInstance => env[Inst(InstanceAt(Depth - 1))][n] = Absent
        /\ InstanceAt(Depth) # NoInstance => env[Inst(InstanceAt(Depth))][n] = Absent
    BY DEF Captured
  <1> HIDE DEF before, chain
  <1>6. /\ Len(chain) = Len(before) + 1 /\ chain[1] = ParamsOf(Depth)
        /\ \A j \in 1 .. Len(before) : chain[j + 1] = before[j]
    BY <1>2, <1>3, <1>4
  <1>7. Found(chain, n) = Found(before, n)
    <2>1. 1 \in 1 .. Len(chain) /\ env[chain[1]][n] = Absent
      BY <1>2, <1>5, <1>6
    <2>2. \A j \in 1 .. Len(before) : (j < 1 => chain[j] = before[j]) /\ (j >= 1 => chain[j + 1] = before[j])
      BY <1>6
    <2> QED BY <1>2, <1>6, <2>1, <2>2, PassedOver
  <1>8. Lookup(chain, InstanceAt(Depth), n) = Found(chain, n)
    BY <1>2, <1>5, InstancePassedOver
  <1>9. Lookup(before, InstanceAt(Depth - 1), n) = Found(before, n)
    BY <1>2, <1>5, InstancePassedOver
  <1> QED BY <1>7, <1>8, <1>9 DEF Here, before, chain

\* In every run, a name in an argument means what it means where the call stands,
\* unless it is one of the names that come in between.
THEOREM ArgumentsLookedUpByCaller == Spec => []ArgumentsAreTheCallers
  <1>1. Init => OuterIsCaller
    BY DEF Init, OuterIsCaller, Depth
  <1>2. IInv /\ OuterIsCaller /\ [Next]_vars => OuterIsCaller'
    BY OuterStep DEF IInv
  <1>3. IInv /\ OuterIsCaller => ArgumentsAreTheCallers
    BY ArgumentsLookedUp DEF IInv
  <1> QED BY <1>1, <1>2, <1>3, Invariance, PTL DEF Spec
===============================================================================
