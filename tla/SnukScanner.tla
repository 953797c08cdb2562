----------------------------- MODULE SnukScanner -----------------------------
(***************************************************************************)
(* How the Snuk lexer (src/lexer.c) cuts a text into tokens, character by  *)
(* character, while it decides where semicolons are inserted and where     *)
(* comments belong.  A text is a sequence of characters, one for each kind *)
(* the code tells apart: "7" and "9" stand for the other octal and decimal *)
(* digits, "a" and "z" for the other letters (of either case), "@" for a   *)
(* character that starts no token, " " for every blank, "nl" for a line    *)
(* break.  The line and the column the lexer counts are those of cur.      *)
(*                                                                         *)
(* What it ought to find is said apart from it: Pieces cuts a text into    *)
(* the longest pieces that have the shape of a lexeme, and the tokens must *)
(* be the ones SnukLexer, on which the parser builds, makes of them.       *)
(***************************************************************************)
EXTENDS SnukLexer, FiniteSetsExt, SequencesExt

CONSTANTS
    Texts,          \* the texts scanned
    Reserved,       \* the types of the words that are keywords or values
    Bits            \* the width of int64_t

BinaryDigits == {"0", "1"}
OctalDigits == BinaryDigits \cup {"7"}
Digits == OctalDigits \cup {"9"}
HexDigits == Digits \cup {"a", "b", "e"}
Letters == {"a", "b", "e", "x", "z"}
WordChars == Letters \cup Digits \cup {"_"}
Blanks == {" "}
WhiteSpace == Blanks \cup {"nl"}
Quotes == {"'", "\""}

\* The operators and marks, in full: those that are the type of their token, and those
\* that share one.
Signs == {<<b>> : b \in Brackets \cup {".", ":", ";", ",", "=", "|", "&", "^"}}
SharedTypes == {"+", "*", "prefix", "<", "<<", "==", "op=", "->", "&&", "||"}
Spellings(type) ==
    CASE type = "+" -> {<<"+">>, <<"-">>}
      [] type = "*" -> {<<"*">>, <<"/">>, <<"%">>}
      [] type = "prefix" -> {<<"!">>, <<"~">>}
      [] type = "<" -> {<<"<">>, <<">">>, <<"<", "=">>, <<">", "=">>}
      [] type = "<<" -> {<<"<", "<">>, <<">", ">">>}
      [] type = "==" -> {<<"=", "=">>, <<"!", "=">>}
      [] type = "op=" -> {<<o, "=">> : o \in {"+", "-", "*", "/", "%", "&", "|", "^"}}
                           \cup {<<"<", "<", "=">>, <<">", ">", "=">>}
      [] type = "->" -> {<<"-", ">">>}
      [] type = "&&" -> {<<"&", "&">>}
      [] type = "||" -> {<<"|", "|">>}

Operators ==
    [c \in Signs \cup UNION {Spellings(type) : type \in SharedTypes} |->
        IF c \in Signs THEN c[1] ELSE CHOOSE type \in SharedTypes : c \in Spellings(type)]

Characters == WordChars \cup WhiteSpace \cup Quotes \cup {c[1] : c \in DOMAIN Operators} \cup {"@"}

ASSUME ScannerAssumption ==
    /\ Texts \subseteq Seq(Characters)
    /\ \A w \in DOMAIN Reserved : Reserved[w] \in Words
    /\ Bits \in Nat \ {0, 1}

MaxInt == 2 ^ (Bits - 1) - 1

VARIABLES
    text,       \* lexer->src
    lexer,      \* lexer->cur, previous_token_type and the depths
    token,      \* the last token
    lexemes,    \* the lexemes the text ought to be cut into; never changes
    ends        \* where in the text each of them ends; never changes

vars == <<text, lexer, token, lexemes, ends>>

(***************************************************************************)
(* Scanning.  A scan is the type of a token and where the text goes on.    *)
(***************************************************************************)
CharAt(i) == IF i \in 1 .. Len(text) THEN text[i] ELSE "end"
Scan(type, next) == [type |-> type, next |-> next]

\* Where loops that advance while, or until, the character is in chars stop.
SkipWhile(i, chars) ==
    CHOOSE j \in i .. Len(text) + 1 :
        CharAt(j) \notin chars /\ \A k \in i .. j - 1 : CharAt(k) \in chars
SkipUntil(i, chars) == SkipWhile(i, Characters \ chars)

DigitValue == [c \in HexDigits |-> CASE c = "0" -> 0 [] c = "1" -> 1 [] c = "7" -> 7
                 [] c = "9" -> 9 [] c = "a" -> 10 [] c = "b" -> 11 [] c = "e" -> 14]
Number(digits, base) == FoldLeft(LAMBDA n, c : n * base + DigitValue[c], 0, digits)

\* A literal with the digits from from to next - 1: strtoll refuses one out of range.
Integer(from, next, base) ==
    Scan(IF Number(SubSeq(text, from, next - 1), base) > MaxInt THEN "error" ELSE "literal", next)

\* Binary digits are shifted in one by one; the check is made before the shift.
ShiftIn(n, c) ==
    IF n > MaxInt \div 2 THEN MaxInt + 1 ELSE n * 2 + DigitValue[c]
BinaryInteger(from, next) ==
    Scan(IF FoldLeft(ShiftIn, 0, SubSeq(text, from, next - 1)) > MaxInt THEN "error" ELSE "literal",
         next)

\* Behind 0x and 0b; text behind an error goes on where the digits should be.
Prefixed(i, digits) ==
    LET next == SkipWhile(i + 2, digits)
    IN IF next = i + 2 THEN Scan("error", next)
       ELSE IF digits = BinaryDigits THEN BinaryInteger(i + 2, next)
       ELSE Integer(i + 2, next, 16)

Decimal(i) ==
    LET whole == SkipWhile(i, Digits)
        isFraction == CharAt(whole) = "." /\ CharAt(whole + 1) \notin Letters
        mantissa == IF isFraction THEN SkipWhile(whole + 1, Digits) ELSE whole
        exponent == IF CharAt(mantissa + 1) \in {"+", "-"} THEN mantissa + 2 ELSE mantissa + 1
        next == SkipWhile(exponent, Digits)
    IN IF CharAt(mantissa) = "e" THEN Scan(IF next = exponent THEN "error" ELSE "literal", next)
       ELSE IF isFraction THEN Scan("literal", mantissa)
       ELSE Integer(i, whole, 10)

\* lexer_scan_number.  A 0 in front of anything but a point makes it octal.
ScanNumber(i) ==
    IF CharAt(i) = "0" /\ CharAt(i + 1) # "."
    THEN CASE CharAt(i + 1) = "x" -> Prefixed(i, HexDigits)
           [] CharAt(i + 1) = "b" -> Prefixed(i, BinaryDigits)
           [] OTHER -> Integer(i, SkipWhile(i, OctalDigits), 8)
    ELSE Decimal(i)

ScanWord(i) ==
    LET next == SkipWhile(i, WordChars)
        word == SubSeq(text, i, next - 1)
    IN Scan(IF word \in DOMAIN Reserved THEN Reserved[word] ELSE "ident", next)

ScanString(i) ==
    LET close == SkipUntil(i + 1, {CharAt(i)})
    IN IF CharAt(close) = "end" THEN Scan("error", close) ELSE Scan("literal", close + 1)

\* lexer_scan_comment, of either kind.
StartsComment(i) == CharAt(i) = "/" /\ CharAt(i + 1) \in {"/", "*"}
ScanComment(i) ==
    LET close == CHOOSE j \in i + 2 .. Len(text) + 1 :
                    /\ CharAt(j) = "end" \/ (CharAt(j) = "*" /\ CharAt(j + 1) = "/")
                    /\ \A k \in i + 2 .. j - 1 : ~(CharAt(k) = "*" /\ CharAt(k + 1) = "/")
    IN IF CharAt(i + 1) = "/" THEN Scan("comment", SkipUntil(i + 2, {"nl"}))
       ELSE IF CharAt(close) = "end" THEN Scan("error", close)
       ELSE Scan("comment", close + 2)

\* Seeded fault: a character no token starts with is left where it is.
ScanOperator_Stuck(i) ==
    LET next == IF <<CharAt(i), CharAt(i + 1)>> \in DOMAIN Operators THEN i + 2
                ELSE IF <<CharAt(i)>> \in DOMAIN Operators THEN i + 1 ELSE i
        operator == SubSeq(text, i, next - 1)
    IN Scan(IF operator \in DOMAIN Operators THEN Operators[operator] ELSE "error", next)

\* The second character of an operator, and the third of a shift, are matched if
\* they are there; "unexpected character" consumes it.
ScanOperator(i) ==
    LET doubled == CharAt(i) \in {"<", ">"} /\ CharAt(i + 1) = CharAt(i)
        next == IF doubled /\ CharAt(i + 2) = "=" THEN i + 3
                ELSE IF <<CharAt(i), CharAt(i + 1)>> \in DOMAIN Operators THEN i + 2
                ELSE i + 1
        operator == SubSeq(text, i, next - 1)
    IN Scan(IF operator \in DOMAIN Operators THEN Operators[operator] ELSE "error", next)

\* lexer_next_token
ScanLexeme(i) ==
    CASE CharAt(i) = "end" -> Scan("eof", i)
      [] CharAt(i) \in Digits \/ (CharAt(i) = "." /\ CharAt(i + 1) \in Digits) -> ScanNumber(i)
      [] CharAt(i) \in WordChars \ Digits -> ScanWord(i)
      [] CharAt(i) \in Quotes -> ScanString(i)
      [] StartsComment(i) -> ScanComment(i)
      [] OTHER -> ScanOperator(i)

(***************************************************************************)
(* snuk_lexer_next_token.  Comments in front of and behind a token on its  *)
(* line belong to it, whatever becomes of scanning them; one in front is a *)
(* token of its own if an empty line follows.                              *)
(***************************************************************************)
\* lexer_build_token, lexer_build_error_token.  An error token is said to start where
\* the scan does; the code reports the place where the scan failed.
Emit(state, start, scan) ==
    [token |-> Token(scan.type, start),
     lexer |-> [cur |-> scan.next, last |-> scan.type,
                depths |-> Track(state.depths, scan.type),
                lost |-> state.lost \/ (state.depths = << >> /\ scan.type \in Brackets \ {"{"})]]

\* Seeded fault: the type of a comment behind a token replaces the token's.
Trailing_Replaces(emitted) ==
    LET next == SkipWhile(emitted.lexer.cur, Blanks)
    IN [emitted EXCEPT !.lexer.cur = IF StartsComment(next) THEN ScanComment(next).next ELSE next,
                       !.lexer.last = IF StartsComment(next) THEN ScanComment(next).type ELSE @]

Trailing(emitted) ==
    LET next == SkipWhile(emitted.lexer.cur, Blanks)
    IN [emitted EXCEPT !.lexer.cur = IF StartsComment(next) THEN ScanComment(next).next ELSE next]

Breaks(from, next) == Cardinality({i \in from .. next - 1 : CharAt(i) = "nl"})

ScanNext ==
    LET blank == SkipWhile(lexer.cur, Blanks)
        candidate == CharAt(blank) \in {"}", "nl"}
        state == [lexer EXCEPT !.lost = @ \/ (candidate /\ lexer.depths = << >>)]
        begin == SkipWhile(blank, WhiteSpace)
        leading == ScanComment(begin)
        next == SkipWhile(IF StartsComment(begin) THEN leading.next ELSE begin, WhiteSpace)
    IN IF candidate /\ ShouldInsert(lexer)
       THEN Emit(state, blank, Scan("vsemi", blank))
       ELSE IF StartsComment(begin) /\ Breaks(leading.next, next) > 1
       THEN Emit(state, begin, leading)
       ELSE Trailing(Emit(state, next, ScanLexeme(next)))

(***************************************************************************)
(* The pieces a text ought to be cut into.  A shape is a condition on the  *)
(* characters of a piece and on the one that follows.                      *)
(***************************************************************************)
All(s, from, to, chars) == \A i \in from .. to : s[i] \in chars
StartsWith(s, t) == Len(s) >= Len(t) /\ SubSeq(s, 1, Len(t)) = t
ClosesAt(s, i) == i > 0 /\ i < Len(s) /\ s[i] = "*" /\ s[i + 1] = "/"

IsLineComment(s) == StartsWith(s, <<"/", "/">>) /\ All(s, 3, Len(s), Characters \ {"nl"})
IsBlockComment(s) ==
    /\ StartsWith(s, <<"/", "*">>) /\ Len(s) > 3
    /\ \A i \in 3 .. Len(s) : ClosesAt(s, i) <=> i = Len(s) - 1
IsOpenComment(s, after) ==
    StartsWith(s, <<"/", "*">>) /\ after = "end" /\ \A i \in 3 .. Len(s) : ~ClosesAt(s, i)
IsQuoted(s) == /\ Len(s) > 1 /\ s[1] \in Quotes /\ s[Len(s)] = s[1]
               /\ All(s, 2, Len(s) - 1, Characters \ {s[1]})
IsOpenString(s, after) ==
    s[1] \in Quotes /\ after = "end" /\ All(s, 2, Len(s), Characters \ {s[1]})
IsWord(s) == s[1] \notin Digits /\ All(s, 1, Len(s), WordChars)

\* Numbers, the digits of which may still be missing behind a prefix or an exponent.
IsHex(s) == StartsWith(s, <<"0", "x">>) /\ All(s, 3, Len(s), HexDigits)
IsBinary(s) == StartsWith(s, <<"0", "b">>) /\ All(s, 3, Len(s), BinaryDigits)
IsOctal(s, after) == s[1] = "0" /\ All(s, 1, Len(s), OctalDigits) /\ (Len(s) = 1 => after # ".")
IsFraction(s, after) ==
    s = << >> \/ /\ s[1] = "." /\ All(s, 2, Len(s), Digits)
                 /\ (IF Len(s) = 1 THEN after ELSE s[2]) \notin Letters
IsExponent(s) ==
    s = << >> \/ /\ s[1] = "e"
                 /\ \E k \in {1, 2} : All(s, 2, k, {"+", "-"}) /\ All(s, k + 1, Len(s), Digits) /\ k <= Len(s)
Part(s, i, j) == SubSeq(s, i, j)
IsDecimal(s, after) ==
    /\ s[1] \in Digits \/ (s[1] = "." /\ Len(s) > 1 /\ s[2] \in Digits)
    /\ s[1] = "0" => (IF Len(s) = 1 THEN after ELSE s[2]) = "."
    /\ \E i, j \in 0 .. Len(s) :
         /\ i <= j
         /\ All(s, 1, i, Digits)
         /\ IsFraction(Part(s, i + 1, j), IF j < Len(s) THEN s[j + 1] ELSE after)
         /\ IsExponent(Part(s, j + 1, Len(s)))

IsNumber(s, after) == IsHex(s) \/ IsBinary(s) \/ IsOctal(s, after) \/ IsDecimal(s, after)

\* A number is wrong without the digits its prefix or exponent asks for, or when it
\* is an integer that does not fit.
IsInteger(s) == ~IsHex(s) => \A i \in 1 .. Len(s) : s[i] \in Digits \cup {"b"}
NumberType(s) ==
    LET digits == IF IsHex(s) \/ IsBinary(s) THEN SubSeq(s, 3, Len(s)) ELSE s
        base == IF IsHex(s) THEN 16 ELSE IF IsBinary(s) THEN 2 ELSE IF s[1] = "0" THEN 8 ELSE 10
    IN IF digits = << >> \/ digits[Len(digits)] \in {"+", "-"} THEN "error"
       ELSE IF ~IsHex(s) /\ digits[Len(digits)] = "e" THEN "error"
       ELSE IF IsInteger(s) /\ Number(digits, base) > MaxInt THEN "error"
       ELSE "literal"

\* The lexeme with these characters; << >> is the one that blanks scan to.
Lexeme(s, after) ==
    CASE s = <<"nl">> -> "nl"
      [] IsLineComment(s) \/ IsBlockComment(s) -> "comment"
      [] IsOpenComment(s, after) -> "open"
      [] IsQuoted(s) -> "literal"
      [] IsWord(s) -> IF s \in DOMAIN Reserved THEN Reserved[s] ELSE "ident"
      [] IsNumber(s, after) -> NumberType(s)
      [] s \in DOMAIN Operators -> Operators[s]
      [] OTHER -> "error"

IsPiece(s, after) ==
    \/ Len(s) = 1
    \/ IsLineComment(s) \/ IsBlockComment(s) \/ IsOpenComment(s, after)
    \/ IsQuoted(s) \/ IsOpenString(s, after)
    \/ IsWord(s) \/ IsNumber(s, after) \/ s \in DOMAIN Operators

After(t, i) == IF i < Len(t) THEN t[i + 1] ELSE "end"

\* The longest piece at each position, blanks left out.
Pieces(t) ==
    LET longest(i) == Max({j \in i .. Len(t) : IsPiece(SubSeq(t, i, j), After(t, j))})
        from[i \in 1 .. Len(t) + 1] ==
            IF i > Len(t) THEN << >>
            ELSE LET last == longest(i)
                     piece == [type |-> Lexeme(SubSeq(t, i, last), After(t, last)), end |-> last]
                 IN (IF t[i] \in Blanks THEN << >> ELSE <<piece>>) \o from[last + 1]
    IN from[1]

(***************************************************************************)
(* The lexer is asked for tokens until the text ends.                      *)
(***************************************************************************)
Init ==
    /\ text \in Texts
    /\ lexer = [cur |-> 1, last |-> "none", depths |-> <<NoDepth>>, lost |-> FALSE]
    /\ token = Token("none", 0)
    /\ LET pieces == Pieces(text)
       IN /\ lexemes = [k \in 1 .. Len(pieces) |-> pieces[k].type]
          /\ ends = [k \in 1 .. Len(pieces) |-> pieces[k].end]

NextScan ==
    /\ token.type # "eof"
    /\ LET emitted == ScanNext
       IN lexer' = emitted.lexer /\ token' = emitted.token
    /\ UNCHANGED <<text, lexemes, ends>>

Spec == Init /\ [][NextScan]_vars

(***************************************************************************)
(* Properties.                                                             *)
(***************************************************************************)
LexemeOf(i) == 1 + Cardinality({k \in 1 .. Len(ends) : ends[k] < i})
AbsLexer == [pos |-> LexemeOf(lexer.cur), last |-> lexer.last,
             depths |-> lexer.depths, lost |-> lexer.lost]
AbsToken == Token(token.type, LexemeOf(token.at))

\* Each token of a text, the semicolons that are inserted and the comments that are
\* tokens included, is the one that SnukLexer's NextToken makes of the pieces, and
\* leaves the lexer where NextToken does: no character is skipped, read twice or
\* taken for part of a neighbour, whatever the text and wherever it is cut, so what
\* is said of the parser on lexemes holds for texts.
ImplementsNextToken ==
    /\ AbsLexer = InitLexer
    /\ [][\E from \in {AbsLexer} :
            [token |-> AbsToken', lexer |-> AbsLexer'] = NextToken(lexemes, from)]_vars

\* A scan reads on, or inserts a semicolon where it has not just inserted one, or finds
\* the end: the lexer comes to the end of every text, also of text it refuses.
EveryScanMovesOn ==
    [][\/ lexer'.cur > lexer.cur
       \/ token'.type \in {"vsemi", "eof"} /\ token.type # token'.type]_vars
=============================================================================
