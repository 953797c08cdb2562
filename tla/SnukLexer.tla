------------------------------ MODULE SnukLexer ------------------------------
(***************************************************************************)
(* The Snuk lexer (src/lexer.c) as a function from its state to a token    *)
(* and its next state.  A source is a sequence of lexemes: the type of the *)
(* token a piece of text scans to, "nl" for a line break, "comment" for a  *)
(* comment of either kind, "open" for one that the text ends in, "error"   *)
(* for text that no token starts with.  SnukScanner cuts texts into these. *)
(* Blanks are left out.  Tokens that every reader treats alike share one   *)
(* type: "literal" is any value but NaN and infinity, which are "nan";     *)
(* "return" is also break, "prefix" is ! and ~ and not, "op=" is every     *)
(* compound assignment, "case" is a keyword no rule mentions.              *)
(*                                                                         *)
(* A line ends an item unless it ends inside parentheses: the lexer then   *)
(* inserts a "vsemi".  To know, it keeps one pair of depths per open brace.*)
(***************************************************************************)
EXTENDS Integers, Sequences

Words == {"ident", "literal", "nan", "any", "type", "fn", "interface", "extend",
          "var", "const", "return", "continue", "print", "if", "else", "while",
          "do", "for", "self", "match", "case"}
Brackets == {"(", ")", "[", "]", "{", "}"}
Marks == {".", ":", ",", ";", "->", "=", "op=", "prefix"}
\* Binary operators, from the loosest; "+" is also a prefix operator.
BinaryOperators == <<"||", "&&", "|", "^", "&", "==", "<", "<<", "+", "*">>
Binary == {BinaryOperators[i] : i \in 1 .. Len(BinaryOperators)}
Lexemes == Words \cup Brackets \cup Marks \cup Binary \cup {"nl", "comment", "open", "error"}
TokenTypes == (Lexemes \ {"nl", "open"}) \cup {"vsemi", "eof"}

\* A token remembers where in the source it starts: its line and col.
Token(type, at) == [type |-> type, at |-> at]

(***************************************************************************)
(* State: the position, the type of the last token, the depths, and        *)
(* whether depths were looked up where none are left, of which nothing     *)
(* more can be said.  Assertions on the depths are compiled out, as in a   *)
(* release build; a depth below zero stands for the unsigned one that      *)
(* wrapped around.                                                         *)
(***************************************************************************)
NoDepth == [paren |-> 0, bracket |-> 0]
InitLexer == [pos |-> 1, last |-> "none", depths |-> <<NoDepth>>, lost |-> FALSE]

AtTop(depths, field, change) ==
    IF depths = << >> THEN depths
    ELSE [depths EXCEPT ![Len(depths)][field] = @ + change]

\* Seeded fault: a closing brace leaves its pair of depths behind.
Track_BraceKept(depths, type) ==
    CASE type = "(" -> AtTop(depths, "paren", 1)
      [] type = ")" -> AtTop(depths, "paren", -1)
      [] type = "[" -> AtTop(depths, "bracket", 1)
      [] type = "]" -> AtTop(depths, "bracket", -1)
      [] type = "{" -> Append(depths, NoDepth)
      [] OTHER -> depths

Track(depths, type) ==
    CASE type = "(" -> AtTop(depths, "paren", 1)
      [] type = ")" -> AtTop(depths, "paren", -1)
      [] type = "[" -> AtTop(depths, "bracket", 1)
      [] type = "]" -> AtTop(depths, "bracket", -1)
      [] type = "{" -> Append(depths, NoDepth)
      [] type = "}" /\ depths # << >> -> SubSeq(depths, 1, Len(depths) - 1)
      [] OTHER -> depths

\* scope_depth_zero
Shallow(depths) == depths # << >> /\ depths[Len(depths)] = NoDepth

\* The types after which a line break or a closing brace ends an item.
Enders == {"ident", "literal", "nan", "any", "type", "return", "continue",
           ")", "}", "]", "comment"}

Comments == {"comment", "open"}

ShouldInsert(lexer) == Shallow(lexer.depths) /\ lexer.last \in Enders

(***************************************************************************)
(* Scanning.                                                               *)
(***************************************************************************)
LexemeAt(src, pos) == IF pos \in 1 .. Len(src) THEN src[pos] ELSE "eof"

\* The first position from pos on that is not a line break.
SkipBreaks(src, pos) ==
    CHOOSE i \in pos .. pos + Len(src) :
        /\ LexemeAt(src, i) # "nl"
        /\ \A j \in pos .. i - 1 : LexemeAt(src, j) = "nl"

\* Seeded fault: the end of the source is consumed like any character.
Past_TheEnd(src, pos) == pos + 1

Past(src, pos) == IF pos > Len(src) THEN pos ELSE pos + 1

\* lexer_build_token and lexer_build_error_token for the lexeme at pos.
Build(src, lexer, pos) ==
    LET lexeme == LexemeAt(src, pos)
        type == IF lexeme = "open" THEN "error" ELSE lexeme
    IN  [token |-> Token(type, pos),
         lexer |-> [pos |-> Past(src, pos), last |-> type,
                    depths |-> Track(lexer.depths, type),
                    lost |-> lexer.lost \/ (lexer.depths = << >> /\ type \in Brackets \ {"{"})]]

\* A comment behind a token on the same line belongs to the token.  That it does
\* not end is not reported, here and in front of a token.
SkipTrailing(src, scan) ==
    IF LexemeAt(src, scan.lexer.pos) \in Comments
    THEN [scan EXCEPT !.lexer.pos = @ + 1]
    ELSE scan

\* The token after line breaks: a comment in front of it belongs to it, unless
\* an empty line lies between the two.  Such a comment is a token of its own.
ScanToken(src, lexer) ==
    LET pos == SkipBreaks(src, lexer.pos)
        next == SkipBreaks(src, pos + 1)
    IN  IF LexemeAt(src, pos) \notin Comments THEN SkipTrailing(src, Build(src, lexer, pos))
        ELSE IF next - (pos + 1) > 1 THEN Build(src, lexer, pos)
        ELSE SkipTrailing(src, Build(src, lexer, next))

\* Seeded fault: the lexer forgets that it has just inserted a semicolon.
NextToken_Forgets(src, lexer) ==
    LET candidate == LexemeAt(src, lexer.pos) \in {"nl", "}"}
    IN  IF candidate /\ ShouldInsert(lexer)
        THEN [token |-> Token("vsemi", lexer.pos), lexer |-> lexer]
        ELSE ScanToken(src, [lexer EXCEPT !.lost = @ \/ (candidate /\ lexer.depths = << >>)])

\* snuk_lexer_next_token.  A vsemi is inserted in front of the line break or brace.
NextToken(src, lexer) ==
    LET candidate == LexemeAt(src, lexer.pos) \in {"nl", "}"}
    IN  IF candidate /\ ShouldInsert(lexer)
        THEN [token |-> Token("vsemi", lexer.pos), lexer |-> [lexer EXCEPT !.last = "vsemi"]]
        ELSE ScanToken(src, [lexer EXCEPT !.lost = @ \/ (candidate /\ lexer.depths = << >>)])
=============================================================================
