----------------------------- MODULE SnukParser -----------------------------
(***************************************************************************)
(* The Snuk parser (src/parser/): recursive descent over the tokens of     *)
(* SnukLexer, with a Pratt parser for expressions.  The C call stack is a  *)
(* sequence of frames; an action is the code of a function between two     *)
(* calls of other parsing functions.  Trees are left out: of what a        *)
(* function returns, only whether it is NULL, an identifier or another     *)
(* expression is kept, and of an item, whether a part it needs is NULL.    *)
(***************************************************************************)
EXTENDS SnukLexer

CONSTANT Sources            \* the source texts parsed

ASSUME SourcesAssumption == Sources \subseteq Seq(Lexemes)

VARIABLES
    src,        \* the source text
    p,          \* SnukParser: lexer, previous, current, next, panic, err
    stack,      \* frames of the running parsing functions
    ret,        \* what the last parsing function returned
    hole,       \* a part that the current item needs is NULL
    mode,       \* where the loop over items is
    given,      \* what snuk_parser_next_item returned last
    start       \* where the current item starts

vars == <<src, p, stack, ret, hole, mode, given, start>>
loop == <<src, mode, given, start>>

Null == "NULL"
Absent == "absent"          \* a part the source may leave out, and does
Results == {Null, Absent, "ident", "expr"}

(***************************************************************************)
(* parser.c and parser_common.h.  Operators take and return the parser.    *)
(***************************************************************************)
\* parser_error: the first error of a panic is kept.
Report(q, why) ==
    IF q.panic THEN q
    ELSE [q EXCEPT !.panic = TRUE, !.err = [why |-> why, at |-> q.current.at]]

\* parser_advance: a token the lexer could not make is reported when it becomes current.
Advance(q) ==
    LET scan == NextToken(src, q.lexer)
        bad == q.next.type = "error"
    IN  [lexer |-> scan.lexer, previous |-> q.current, current |-> q.next, next |-> scan.token,
         panic |-> q.panic \/ bad,
         err |-> IF bad /\ ~q.panic THEN [why |-> "lexer", at |-> q.next.at] ELSE q.err]

Check(q, type) == q.current.type = type
Match(q, type) == IF Check(q, type) THEN Advance(q) ELSE q
Expect(q, type) == IF Check(q, type) THEN Advance(q) ELSE Report(q, "expected")

AtItemEnd(q) == q.current.type \in {";", "vsemi", "eof"}

\* Seeded fault: the end of the source ends an item without being consumed.
ExpectItemEnd_KeepsEof(q) ==
    IF ~AtItemEnd(q) THEN Report(q, "item end")
    ELSE IF Check(q, "eof") THEN q ELSE Advance(q)

ExpectItemEnd(q) == IF AtItemEnd(q) THEN Advance(q) ELSE Report(q, "item end")

\* Seeded fault: only the closing token ends a loop.
LoopOver_IgnoresEof(q, closer) == Check(q, closer)

\* Loops over parts run until their closing token or the end of the source...
LoopOver(q, closer) == Check(q, closer) \/ Check(q, "eof")
\* ... and then look back for that token.
Close(q, closer) ==
    IF Check(q, closer) THEN Advance(q)
    ELSE IF q.previous.type = closer THEN q ELSE Report(q, "unclosed")
Closed(q, closer) == Check(q, closer) \/ q.previous.type = closer

\* What follows an element of a list in parentheses or brackets.
Separator(q, closer) == IF Check(q, closer) THEN q ELSE Expect(q, ",")

(***************************************************************************)
(* The rules table: precedence of an infix operator, zero for other tokens.*)
(***************************************************************************)
AssignmentLevel == 1
UnaryLevel == 12
PrimaryLevel == 13

Precedence(type) ==
    CASE type \in {"=", "op="} -> AssignmentLevel
      [] type \in Binary -> 1 + CHOOSE i \in 1 .. Len(BinaryOperators) : BinaryOperators[i] = type
      [] type \in {"(", "."} -> PrimaryLevel
      [] OTHER -> 0

\* Tokens that are an expression of their own, and the NULL that parse_primary
\* makes of NaN and infinity.
Values == {"ident", "literal", "nan", "self", "comment", "match"}

\* Seeded fault: the other literals are left for later, too.
ValueOf_LiteralsMissing(type) ==
    CASE type = "ident" -> "ident" [] type \in {"nan", "literal"} -> Null [] OTHER -> "expr"

ValueOf(type) == CASE type = "ident" -> "ident" [] type = "nan" -> Null [] OTHER -> "expr"

(***************************************************************************)
(* Frames.                                                                 *)
(***************************************************************************)
Frame(fn, pc, level) == [fn |-> fn, pc |-> pc, level |-> level]
\* parser_expect and a parser_match whose result is not used, still to be called.
Expecting(type) == Frame("expect", type, 0)
Matching(type) == Frame("match", type, 0)
Item == Frame("item", "start", 0)
Expression(level) == Frame("expr", "prefix", level)
AnyExpression == Expression(AssignmentLevel)        \* snuk_expr_parse
Type == Frame("type", "start", 0)
Var == Frame("var", "start", 0)
Block == Frame("block", "loop", 0)
\* The rest of a function that builds its node from the part being parsed.
Build1 == Frame("build", "part", 0)

Top == stack[Len(stack)]
Below == SubSeq(stack, 1, Len(stack) - 1)
At(pc) == [Top EXCEPT !.pc = pc]

InFunction == mode = "parsing" /\ ~p.lexer.lost /\ stack # << >>
RunningOneOf(fns, pc) == InFunction /\ Top.fn \in fns /\ Top.pc = pc
Running(fn, pc) == RunningOneOf({fn}, pc)

Goto(q, pc) == p' = q /\ stack' = Append(Below, At(pc)) /\ UNCHANGED ret
Skip(q, pc) == p' = q /\ stack' = Append(Below, At(pc)) /\ ret' = Absent
Call(q, pc, callees) == p' = q /\ stack' = Below \o <<At(pc)>> \o callees /\ UNCHANGED ret
Become(q, callees) == p' = q /\ stack' = Below \o callees /\ UNCHANGED ret
Return(q, value) == p' = q /\ stack' = Below /\ ret' = value

\* The part that was just parsed becomes part of a node.
Needed == hole' = (hole \/ ret = Null)
Unneeded == UNCHANGED hole

-----------------------------------------------------------------------------
(***************************************************************************)
(* snuk_parser_init, snuk_parser_next_item and parser_sync.                *)
(***************************************************************************)
Init ==
    /\ src \in Sources
    /\ LET first == NextToken(src, InitLexer)
           second == NextToken(src, first.lexer)
           q == [lexer |-> second.lexer, previous |-> Token("eof", 0),
                 current |-> first.token, next |-> second.token,
                 panic |-> FALSE, err |-> [why |-> "none", at |-> 0]]
       IN  p = IF first.token.type = "error" THEN Report(q, "lexer") ELSE q
    /\ stack = << >>
    /\ ret = Absent
    /\ hole = FALSE
    /\ mode = "ready"
    /\ given = "nothing"
    /\ start = 1

NextItem ==
    /\ mode = "ready" /\ ~p.lexer.lost
    /\ ~Check(p, "eof")
    /\ mode' = "parsing"
    /\ stack' = <<Item>>
    /\ hole' = FALSE
    /\ start' = p.current.at
    /\ UNCHANGED <<src, p, ret, given>>

NoMoreItems ==
    /\ mode = "ready" /\ ~p.lexer.lost
    /\ Check(p, "eof")
    /\ mode' = "done"
    /\ UNCHANGED <<src, p, stack, ret, hole, given, start>>

Parsed == mode = "parsing" /\ ~p.lexer.lost /\ stack = << >>

GiveItem ==
    /\ Parsed
    /\ ~p.panic
    /\ mode' = "ready"
    /\ given' = "item"
    /\ UNCHANGED <<src, p, stack, ret, hole, start>>

\* Seeded fault: the panic outlives the item it is about.
Recover_PanicStays == UNCHANGED p

Recover == p' = [p EXCEPT !.panic = FALSE]

\* The rest of the item is skipped, unless it was parsed up to a semicolon.
StartSync ==
    /\ Parsed
    /\ p.panic
    /\ Recover
    /\ IF p.previous.type \in {";", "vsemi"}
       THEN mode' = "ready" /\ given' = "error"
       ELSE mode' = "syncing" /\ UNCHANGED given
    /\ UNCHANGED <<src, stack, ret, hole, start>>

SyncToken ==
    /\ mode = "syncing" /\ ~p.lexer.lost
    /\ p' = Advance(p)
    /\ IF AtItemEnd(p)
       THEN mode' = "ready" /\ given' = "error"
       ELSE UNCHANGED <<mode, given>>
    /\ UNCHANGED <<src, stack, ret, hole, start>>

\* parser_expect and parser_match where the code calls one after another.
ExpectOrMatch ==
    /\ InFunction
    /\ Top.fn \in {"expect", "match"}
    /\ p' = IF Top.fn = "expect" THEN Expect(p, Top.pc) ELSE Match(p, Top.pc)
    /\ stack' = Below
    /\ UNCHANGED <<src, ret, hole, mode, given, start>>

-----------------------------------------------------------------------------
(***************************************************************************)
(* Items (snuk_item.c).                                                    *)
(***************************************************************************)
ItemStart ==
    /\ Running("item", "start")
    /\ Unneeded /\ UNCHANGED loop
    /\ LET q == Advance(p)
           type == p.current.type
       IN  CASE type \in {"var", "const"} -> Call(q, "end", <<Var>>)
             [] type = "return" /\ ~AtItemEnd(q) -> Call(q, "end", <<AnyExpression>>)
             [] type = "return" /\ AtItemEnd(q) -> Skip(q, "end")
             [] type = "continue" -> Skip(q, "end")
             [] type = "print" -> Call(q, "print", <<AnyExpression>>)
             [] type = "extend" ->
                  Become(q, <<Frame("extend", "loop", 0), Expecting("{"), Expecting("ident")>>)
             [] type = "interface" ->
                  Call(q, "end",
                       <<Frame("interface", "loop", 0), Expecting("{"), Expecting("ident")>>)
             [] OTHER -> Call(p, "end", <<AnyExpression>>)

PrintPart ==
    /\ Running("item", "print")
    /\ Needed /\ UNCHANGED loop
    /\ IF Check(p, ",") THEN Call(Advance(p), "print", <<AnyExpression>>)
       ELSE Return(ExpectItemEnd(p), "expr")

ItemEnd ==
    /\ RunningOneOf({"item", "extend"}, "end")
    /\ Needed /\ UNCHANGED loop
    /\ Return(ExpectItemEnd(p), "expr")

(***************************************************************************)
(* The bodies of type and extend.  A token that starts no member is        *)
(* reported and stays the current one.                                     *)
(***************************************************************************)
MemberStarts == {"var", "const", "fn", "type"}

Members ==
    /\ RunningOneOf({"extend", "typebody"}, "loop")
    /\ ~LoopOver(p, "}")
    /\ Unneeded /\ UNCHANGED loop
    /\ IF p.current.type \in MemberStarts THEN Call(p, "loop", <<Item>>)
       ELSE Goto(Report(p, "unexpected"), "loop")

ExtendEnd ==
    /\ Running("extend", "loop")
    /\ LoopOver(p, "}")
    /\ Unneeded /\ UNCHANGED loop
    /\ IF Closed(p, "}") THEN Goto(Close(p, "}"), "end") ELSE Return(Close(p, "}"), Null)

(***************************************************************************)
(* Variables (snuk_var.c).  A variable without a value is Absent.          *)
(***************************************************************************)
VarStart ==
    /\ Running("var", "start")
    /\ Unneeded /\ UNCHANGED loop
    /\ Call(p, "type", <<Expecting("ident")>>)

VarType ==
    /\ Running("var", "type")
    /\ Unneeded /\ UNCHANGED loop
    /\ IF Check(p, ":") THEN Call(Advance(p), "value", <<Type>>) ELSE Goto(p, "value")

VarValue ==
    /\ Running("var", "value")
    /\ Unneeded /\ UNCHANGED loop
    /\ IF Check(p, "=") THEN Call(Advance(p), "built", <<AnyExpression>>)
       ELSE Return(p, Absent)

VarBuilt ==
    /\ Running("var", "built")
    /\ Needed /\ UNCHANGED loop
    /\ Return(p, IF ret = Null THEN Absent ELSE "expr")

(***************************************************************************)
(* Types (snuk_type.c).                                                    *)
(***************************************************************************)
TypeStart ==
    /\ Running("type", "start")
    /\ Unneeded /\ UNCHANGED loop
    /\ CASE Check(p, "fn") ->
              Become(Advance(p), <<Frame("fntype", "loop", 0), Expecting("(")>>)
         [] Check(p, "interface") ->
              Become(Advance(p), <<Frame("interface", "loop", 0), Expecting("{")>>)
         [] p.current.type \in {"type", "any"} -> Return(Advance(p), "expr")
         [] OTHER -> Return(Expect(p, "ident"), "expr")

FnTypeParam ==
    /\ Running("fntype", "loop")
    /\ ~LoopOver(p, ")")
    /\ Unneeded /\ UNCHANGED loop
    /\ Call(p, "element", <<Type>>)

FnTypeParamEnd ==
    /\ Running("fntype", "element")
    /\ Unneeded /\ UNCHANGED loop
    /\ Goto(Separator(p, ")"), "loop")

\* The result type is built last, so its parse replaces the frame.
FnTypeEnd ==
    /\ Running("fntype", "loop")
    /\ LoopOver(p, ")")
    /\ Unneeded /\ UNCHANGED loop
    /\ IF Closed(p, ")") THEN Goto(Close(p, ")"), "result") ELSE Return(Close(p, ")"), Null)

FnTypeResult ==
    /\ Running("fntype", "result")
    /\ Unneeded /\ UNCHANGED loop
    /\ IF Check(p, "->") THEN Become(Advance(p), <<Type>>) ELSE Return(p, "expr")

InterfaceMember ==
    /\ Running("interface", "loop")
    /\ ~LoopOver(p, "}")
    /\ Unneeded /\ UNCHANGED loop
    /\ IF p.current.type \in {"var", "const"} THEN Call(Advance(p), "element", <<Var>>)
       ELSE Return(Report(p, "expected"), Null)

InterfaceMemberEnd ==
    /\ Running("interface", "element")
    /\ Unneeded /\ UNCHANGED loop
    /\ Goto(IF ret = Absent THEN ExpectItemEnd(p) ELSE Report(ExpectItemEnd(p), "value"), "loop")

(***************************************************************************)
(* Expressions (snuk_expr.c): parse_precedence.                            *)
(***************************************************************************)
\* Where the prefix functions of the rules table start.  The first token of the
\* construct is consumed already.
Construct(type) ==
    CASE type = "(" -> <<Frame("grouping", "element", 0), AnyExpression>>
      [] type = "[" -> <<Frame("list", "loop", 0)>>
      [] type = "{" -> <<Block>>
      [] type \in {"prefix", "+"} -> <<Build1, Expression(UnaryLevel)>>
      [] type = "if" -> <<Frame("if", "then", 0), AnyExpression>>
      [] type = "while" -> <<Frame("while", "body", 0), AnyExpression>>
      [] type = "do" -> <<Frame("do", "start", 0)>>
      [] type = "for" -> <<Frame("for", "start", 0)>>
      [] type = "fn" -> <<Frame("fn", "start", 0)>>
      [] type = "type" -> <<Frame("typetoken", "start", 0)>>
      [] OTHER -> << >>

PrefixValue ==
    /\ Running("expr", "prefix")
    /\ p.current.type \in Values
    /\ Unneeded /\ UNCHANGED loop
    /\ p' = Advance(p)
    /\ stack' = Append(Below, At("infix"))
    /\ ret' = ValueOf(p.current.type)

PrefixConstruct ==
    /\ Running("expr", "prefix")
    /\ Construct(p.current.type) # << >>
    /\ Unneeded /\ UNCHANGED loop
    /\ Call(Advance(p), "infix", Construct(p.current.type))

PrefixMissing ==
    /\ Running("expr", "prefix")
    /\ p.current.type \notin Values
    /\ Construct(p.current.type) = << >>
    /\ Unneeded /\ UNCHANGED loop
    /\ Return(Report(Advance(p), "expression"), Null)

Infix == Running("expr", "infix") /\ Top.level <= Precedence(p.current.type)

InfixEnd ==
    /\ Running("expr", "infix")
    /\ ~Infix
    /\ Unneeded /\ UNCHANGED loop
    /\ Return(p, ret)

\* Binary operators bind to the left, assignments to the right.
InfixOperand ==
    /\ Infix
    /\ p.current.type \in Binary \cup {"="}
    /\ Needed /\ UNCHANGED loop
    /\ LET level == Precedence(p.current.type)
       IN  Call(Advance(p), "infix",
                <<Build1, Expression(IF p.current.type = "=" THEN level ELSE level + 1)>>)

\* Seeded fault: a wrong target is not reported.
InfixCompound_Silent ==
    /\ Infix
    /\ Check(p, "op=")
    /\ ret # Null
    /\ Unneeded /\ UNCHANGED loop
    /\ IF ret = "ident"
       THEN Call(Advance(p), "infix", <<Build1, AnyExpression>>)
       ELSE /\ p' = Advance(p)
            /\ ret' = Null
            /\ UNCHANGED stack

\* parse_compound_assignment looks at the type of its target ...
InfixCompound ==
    /\ Infix
    /\ Check(p, "op=")
    /\ ret # Null
    /\ Unneeded /\ UNCHANGED loop
    /\ IF ret = "ident"
       THEN Call(Advance(p), "infix", <<Build1, AnyExpression>>)
       ELSE /\ p' = Report(Advance(p), "target")
            /\ ret' = Null
            /\ UNCHANGED stack

\* ... which may be NULL.
InfixCompoundCrash ==
    /\ Infix
    /\ Check(p, "op=")
    /\ ret = Null
    /\ p' = Advance(p)
    /\ mode' = "crashed"
    /\ UNCHANGED <<src, stack, ret, hole, given, start>>

InfixCall ==
    /\ Infix
    /\ Check(p, "(")
    /\ Needed /\ UNCHANGED loop
    /\ Call(Advance(p), "infix", <<Frame("call", "loop", 0)>>)

\* The member is whatever parse_primary makes of the token before.
InfixMember ==
    /\ Infix
    /\ Check(p, ".")
    /\ Needed /\ UNCHANGED loop
    /\ p' = Advance(p)
    /\ stack' = Append(stack, Expecting("ident"))
    /\ ret' = "expr"

\* The last part of a unary, binary, assignment or loop expression is there.
Built ==
    /\ Running("build", "part")
    /\ Needed /\ UNCHANGED loop
    /\ Return(p, "expr")

GroupingEnd ==
    /\ Running("grouping", "element")
    /\ Unneeded /\ UNCHANGED loop
    /\ Return(Expect(p, ")"), ret)

(***************************************************************************)
(* parse_list and parse_call.                                              *)
(***************************************************************************)
Closer(fn) ==
    CASE fn = "list" -> "]" [] fn \in {"call", "fn", "fntype", "grouping"} -> ")" [] OTHER -> "}"

Element ==
    /\ RunningOneOf({"list", "call"}, "loop")
    /\ ~LoopOver(p, Closer(Top.fn))
    /\ Unneeded /\ UNCHANGED loop
    /\ Call(p, "element", <<AnyExpression>>)

ElementEnd ==
    /\ RunningOneOf({"list", "call"}, "element")
    /\ Needed /\ UNCHANGED loop
    /\ Goto(Separator(p, Closer(Top.fn)), "loop")

\* The end of every loop after which nothing is left to parse.
LoopEnd ==
    /\ RunningOneOf({"list", "call", "block", "typebody", "inst", "interface"}, "loop")
    /\ LoopOver(p, Closer(Top.fn))
    /\ Unneeded /\ UNCHANGED loop
    /\ Return(Close(p, Closer(Top.fn)), IF Closed(p, Closer(Top.fn)) THEN "expr" ELSE Null)

(***************************************************************************)
(* parse_block.                                                            *)
(***************************************************************************)
BlockItem ==
    /\ Running("block", "loop")
    /\ ~LoopOver(p, "}")
    /\ Unneeded /\ UNCHANGED loop
    /\ Call(p, "loop", <<Item>>)

(***************************************************************************)
(* parse_if, parse_while and parse_for.  A block is parsed whether or not  *)
(* its brace was there.                                                    *)
(***************************************************************************)
IfThen ==
    /\ Running("if", "then")
    /\ Needed /\ UNCHANGED loop
    /\ Call(p, "else", <<Block, Expecting("{")>>)

IfElse ==
    /\ Running("if", "else")
    /\ Needed /\ UNCHANGED loop
    /\ LET q == Advance(p)
       IN  CASE ~Check(p, "else") -> Return(p, "expr")
             [] Check(p, "else") /\ Check(q, "if") ->
                  Become(q, <<Frame("if", "then", 0), AnyExpression, Matching("if")>>)
             [] OTHER -> Become(q, <<Build1, Block, Expecting("{")>>)

WhileBody ==
    /\ Running("while", "body")
    /\ Needed /\ UNCHANGED loop
    /\ Become(p, <<Build1, Block, Expecting("{")>>)

DoBody ==
    /\ Running("do", "start")
    /\ Unneeded /\ UNCHANGED loop
    /\ Call(p, "condition", <<Block, Expecting("{")>>)

DoCondition ==
    /\ Running("do", "condition")
    /\ Needed /\ UNCHANGED loop
    /\ Become(p, <<Build1, AnyExpression, Expecting("while")>>)

ForStart ==
    /\ Running("for", "start")
    /\ Unneeded /\ UNCHANGED loop
    /\ CASE Check(p, "{") -> Become(Advance(p), <<Build1, Block>>)
         [] Check(p, "var") -> Call(p, "condition", <<Item>>)
         [] Check(p, ";") -> Skip(Advance(p), "condition")
         [] OTHER -> Call(p, "first", <<AnyExpression>>)

\* What came first is the condition if the body follows, and else the init.
ForFirst ==
    /\ Running("for", "first")
    /\ Needed /\ UNCHANGED loop
    /\ IF Check(p, "{") THEN Skip(p, "body") ELSE Skip(Expect(p, ";"), "condition")

ForCondition ==
    /\ Running("for", "condition")
    /\ Needed /\ UNCHANGED loop
    /\ IF Check(p, ";") THEN Skip(p, "update") ELSE Call(p, "update", <<AnyExpression>>)

ForUpdate ==
    /\ Running("for", "update")
    /\ Needed /\ UNCHANGED loop
    /\ LET q == Expect(p, ";")
       IN  IF Check(q, "{") THEN Skip(q, "body") ELSE Call(q, "body", <<AnyExpression>>)

ForBody ==
    /\ Running("for", "body")
    /\ Needed /\ UNCHANGED loop
    /\ Become(p, <<Build1, Block, Expecting("{")>>)

(***************************************************************************)
(* parse_fn.                                                               *)
(***************************************************************************)
FnStart ==
    /\ Running("fn", "start")
    /\ Unneeded /\ UNCHANGED loop
    /\ Call(p, "loop", <<Expecting("("), Matching("ident")>>)

FnParam ==
    /\ Running("fn", "loop")
    /\ ~LoopOver(p, ")")
    /\ Unneeded /\ UNCHANGED loop
    /\ Call(p, "element", <<Var>>)

FnParamEnd ==
    /\ Running("fn", "element")
    /\ Unneeded /\ UNCHANGED loop
    /\ Goto(Separator(p, ")"), "loop")

FnParamsEnd ==
    /\ Running("fn", "loop")
    /\ LoopOver(p, ")")
    /\ Unneeded /\ UNCHANGED loop
    /\ IF Closed(p, ")") THEN Goto(Close(p, ")"), "result") ELSE Return(Close(p, ")"), Null)

FnResult ==
    /\ Running("fn", "result")
    /\ Unneeded /\ UNCHANGED loop
    /\ IF Check(p, "->") THEN Call(Advance(p), "body", <<Type>>) ELSE Goto(p, "body")

FnBody ==
    /\ Running("fn", "body")
    /\ Unneeded /\ UNCHANGED loop
    /\ Become(p, <<Build1, Block, Expecting("{")>>)

(***************************************************************************)
(* parse_type_token: a declaration or an instance, depending on the token  *)
(* behind the brace; parse_type and parse_type_inst.                       *)
(***************************************************************************)
TypeToken ==
    /\ Running("typetoken", "start")
    /\ Unneeded /\ UNCHANGED loop
    /\ Goto(Match(p, "ident"), IF Check(p, "ident") THEN "named" ELSE "unnamed")

Named == Running("typetoken", "named")

TypeDeclaration ==
    /\ Running("typetoken", "unnamed") \/ (Named /\ p.next.type \in MemberStarts)
    /\ Unneeded /\ UNCHANGED loop
    /\ Become(p, <<Frame("typebody", "loop", 0), Expecting("{")>>)

\* The name of an instance may be followed by an assignment sign.
TypeInstance ==
    /\ Named /\ p.next.type \notin MemberStarts
    /\ Unneeded /\ UNCHANGED loop
    /\ LET named == IF Check(p, "ident") THEN <<Matching("="), Matching("ident")>> ELSE << >>
       IN  Become(p, <<Frame("inst", "loop", 0), Expecting("{")>> \o named)

InstMember ==
    /\ Running("inst", "loop")
    /\ ~LoopOver(p, "}")
    /\ Unneeded /\ UNCHANGED loop
    /\ Call(p, "element", <<AnyExpression, Expecting(":"), Expecting("ident")>>)

InstMemberEnd ==
    /\ Running("inst", "element")
    /\ Needed /\ UNCHANGED loop
    /\ Goto(ExpectItemEnd(p), "loop")

-----------------------------------------------------------------------------
Stopped == mode \in {"done", "crashed"} \/ p.lexer.lost

\* The parser has returned NULL, or the process has crashed.
Stop == Stopped /\ UNCHANGED vars

ItemSteps == ItemStart \/ PrintPart \/ ItemEnd \/ Members \/ ExtendEnd
VarSteps == VarStart \/ VarType \/ VarValue \/ VarBuilt
TypeSteps ==
    \/ TypeStart \/ FnTypeParam \/ FnTypeParamEnd \/ FnTypeEnd \/ FnTypeResult
    \/ InterfaceMember \/ InterfaceMemberEnd
PrattSteps ==
    \/ PrefixValue \/ PrefixConstruct \/ PrefixMissing
    \/ InfixEnd \/ InfixOperand \/ InfixCompound \/ InfixCompoundCrash \/ InfixCall \/ InfixMember
    \/ Built
ConstructSteps ==
    \/ GroupingEnd \/ Element \/ ElementEnd \/ LoopEnd \/ BlockItem
    \/ IfThen \/ IfElse \/ WhileBody \/ DoBody \/ DoCondition
    \/ ForStart \/ ForFirst \/ ForCondition \/ ForUpdate \/ ForBody
    \/ FnStart \/ FnParam \/ FnParamEnd \/ FnParamsEnd \/ FnResult \/ FnBody
    \/ TypeToken \/ TypeDeclaration \/ TypeInstance \/ InstMember \/ InstMemberEnd

Next ==
    \/ NextItem \/ NoMoreItems \/ GiveItem \/ StartSync \/ SyncToken \/ ExpectOrMatch
    \/ ItemSteps \/ VarSteps \/ TypeSteps \/ PrattSteps \/ ConstructSteps
    \/ Stop

Spec == Init /\ [][Next]_vars /\ WF_vars(Next)

-----------------------------------------------------------------------------
(***************************************************************************)
(* Properties.                                                             *)
(***************************************************************************)
Functions ==
    {"item", "expr", "type", "var", "block", "build", "extend", "interface", "fntype", "grouping",
     "list", "call", "if", "while", "do", "for", "fn", "typetoken", "typebody", "inst",
     "expect", "match"}
Points ==
    {"start", "prefix", "infix", "loop", "element", "part", "print", "end", "value", "built",
     "then", "else", "body", "condition", "first", "update", "type", "result",
     "named", "unnamed"} \cup TokenTypes

LexerType ==
    [pos : 1 .. Len(src) + 1, last : TokenTypes \cup {"none"},
     depths : Seq([paren : Int, bracket : Int]), lost : BOOLEAN]
TokenRecords == [type : TokenTypes, at : 0 .. Len(src) + 1]
Reasons == {"none", "lexer", "item end", "expected", "unexpected", "unclosed", "value",
            "expression", "target"}

\* The type invariant of SnukParser and of the lexer inside it.
TypeOK ==
    /\ src \in Seq(Lexemes)
    /\ p \in [lexer : LexerType, previous : TokenRecords, current : TokenRecords,
              next : TokenRecords, panic : BOOLEAN,
              err : [why : Reasons, at : 0 .. Len(src) + 1]]
    /\ stack \in Seq([fn : Functions, pc : Points, level : 0 .. PrimaryLevel])
    /\ ret \in Results
    /\ hole \in BOOLEAN
    /\ mode \in {"ready", "parsing", "syncing", "done", "crashed"}
    /\ given \in {"nothing", "item", "error"}
    /\ start \in 1 .. Len(src) + 1

\* The bracket that the nth of some functions is inside of, once it is consumed.
Opened(frames, n) ==
    IF \/ frames[n].pc \notin {"loop", "element"}
       \/ n < Len(frames) /\ frames[n + 1].fn \in {"expect", "match"}
    THEN "none"
    ELSE CASE Closer(frames[n].fn) = ")" -> "("
           [] Closer(frames[n].fn) = "]" -> "["
           [] Closer(frames[n].fn) = "}" -> "{"

\* The depths of the brackets that the first of them still have to close.
Awaited(frames) ==
    LET depths[n \in 0 .. Len(frames)] ==
            IF n = 0 THEN InitLexer.depths ELSE Track(depths[n - 1], Opened(frames, n))
    IN  depths

\* Lexer and parser keep count of open brackets independently, the lexer two tokens
\* ahead and to decide where a line ends an item, the parser on its call stack.
\* While no error was met the two agree, so an item that is given without an error
\* has closed every bracket it opened.
BracketsAwaited ==
    p.err.why = "none" =>
        LET awaited == Awaited(stack)[Len(stack)]
        IN  p.lexer.depths = Track(Track(awaited, p.current.type), p.next.type)

\* Where the parser looks for the beginning of an item, it never finds the semicolon
\* that the lexer put at the end of a line: empty lines, lines that end in a semicolon
\* and braces at the end of a line are not items.
NoEmptyItem ==
    /\ mode = "ready" => ~Check(p, "vsemi")
    /\ mode = "parsing" /\ stack # << >> /\ ~p.panic =>
           (Top.fn = "item" /\ Top.pc = "start" => ~Check(p, "vsemi"))

\* An item that is given to the interpreter without an error has all the parts its
\* nodes need, unless it contains NaN or infinity, for which parse_primary returns
\* NULL without an error: `print nan` is given with a part missing.
AcceptedIsWhole ==
    mode = "ready" /\ given = "item" /\ hole =>
        \E i \in start .. p.previous.at : LexemeAt(src, i) = "nan"

\* A compound assignment dereferences a NULL target only in an item in which an
\* error was reported before, or one that contains NaN or infinity, as its target or
\* anywhere in front of it.
CrashNeedsError ==
    mode = "crashed" => p.panic \/ \E i \in start .. p.previous.at : LexemeAt(src, i) = "nan"

\* The next item starts without the panic of the last one, as long as the text up to
\* there has no character the lexer rejects and no comment that does not end.  One in
\* the text that is skipped starts a new panic, which condemns an item that is right.
PanicNeedsBadToken ==
    mode = "ready" /\ p.panic =>
        \E i \in 1 .. p.current.at : LexemeAt(src, i) \in {"error", "open"}

\* Four loops report a token and do not consume it: the bodies of type and extend, the
\* parameters of a function and those of a function type.  In front of such a token
\* they go round for ever.
Stuck ==
    /\ RunningOneOf({"typebody", "extend", "fn", "fntype"}, "loop")
    /\ LET consumed ==
               CASE Top.fn = "fn" -> {"ident", ":", "=", ",", ")", "eof"}
                 [] Top.fn = "fntype" -> {"fn", "interface", "type", "any", "ident", ",", ")", "eof"}
                 [] OTHER -> MemberStarts \cup {"}", "eof"}
       IN  p.current.type \notin consumed

\* Every other loop consumes a token or ends: whatever the text, the parser comes to its
\* end, unless it gets stuck in one of those four places.
ParsingEnds == <>(Stopped \/ Stuck)
=============================================================================
