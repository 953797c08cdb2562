-------------------------- MODULE SnukScanner_proofs --------------------------
(***************************************************************************)
(* Proofs about SnukScanner: on every text, for every set of reserved      *)
(* words and every width of an integer, the lexer comes to the end.        *)
(***************************************************************************)
EXTENDS SnukScanner, SnukOrder_proofs, SequenceTheorems

\* The lexer stays in the text, and remembers the type of the last token.
ScannerInv ==
    /\ text \in Seq(Characters)
    /\ lexer.cur \in 1 .. Len(text) + 1
    /\ lexer.last = token.type

\* No operator is spelled with the end of the text.
LEMMA OperatorsVisible ==
    /\ \A c \in DOMAIN Operators : c[1] # "end"
    /\ \A a, b : <<a, b>> \in DOMAIN Operators => b # "end"
<1>1. ASSUME NEW c \in DOMAIN Operators PROVE c \in Signs \/ \E type \in SharedTypes : c \in Spellings(type)
  BY DEF Operators
<1>2. \A c \in Signs : c[1] # "end" /\ Len(c) = 1
  <2> TAKE c \in Signs
  <2>1. PICK b \in Brackets \cup {".", ":", ";", ",", "=", "|", "&", "^"} : c = <<b>>
    BY DEF Signs
  <2>2. b # "end"
    BY DEF Brackets
  <2> QED BY <2>1, <2>2
<1>3. ASSUME NEW type \in SharedTypes, NEW c \in Spellings(type)
      PROVE  c[1] # "end" /\ (Len(c) = 2 => c[2] # "end")
  BY <1>3 DEF SharedTypes, Spellings
<1>4. \A a, b : Len(<<a, b>>) = 2 /\ <<a, b>>[2] = b
  OBVIOUS
<1> QED BY <1>1, <1>2, <1>3, <1>4

LEMMA EndUnlike ==
    /\ "end" \notin WordChars \cup Blanks \cup WhiteSpace \cup Quotes \cup Digits \cup OctalDigits
    /\ "end" \notin HexDigits \cup BinaryDigits
    /\ Digits \cap Letters = {}
  BY DEF WordChars, Blanks, WhiteSpace, Quotes, Digits, OctalDigits, HexDigits, BinaryDigits, Letters

\* Where a character can be seen, the text goes on.
LEMMA Visible ==
    ASSUME text \in Seq(Characters), NEW i \in Int
    PROVE  CharAt(i) # "end" => i \in 1 .. Len(text)
  BY DEF CharAt

LEMMA WhileSkipped ==
    ASSUME text \in Seq(Characters), NEW i \in 1 .. Len(text) + 1, NEW chars, "end" \notin chars
    PROVE  /\ SkipWhile(i, chars) \in i .. Len(text) + 1
           /\ CharAt(i) \in chars => SkipWhile(i, chars) # i
           /\ CharAt(SkipWhile(i, chars)) \notin chars
<1>1. PICK n \in Nat : n = Len(text)
  OBVIOUS
<1> DEFINE Out == {j \in i .. n + 1 : CharAt(j) \notin chars}
           Ends(j) == CharAt(j) \notin chars /\ \A k \in i .. j - 1 : CharAt(k) \in chars
<1>2. CharAt(n + 1) = "end"
  BY <1>1 DEF CharAt
<1>3. Out \in SUBSET Nat /\ Out # {}
  BY <1>1, <1>2
<1>4. PICK j \in Out : \A k \in Out : j <= k
  <2> HIDE DEF Out
  <2> QED BY <1>3, Smallest
<1>5. j \in i .. n + 1 /\ Ends(j)
  BY <1>1, <1>4
<1>6. SkipWhile(i, chars) = CHOOSE k \in i .. n + 1 : Ends(k)
  BY <1>1 DEF SkipWhile
<1> HIDE DEF Ends
<1>7. SkipWhile(i, chars) \in i .. n + 1 /\ Ends(SkipWhile(i, chars))
  BY <1>5, <1>6
<1> QED BY <1>1, <1>7 DEF Ends

LEMMA UntilSkipped ==
    ASSUME text \in Seq(Characters), NEW i \in 1 .. Len(text) + 1, NEW chars
    PROVE  SkipUntil(i, chars) \in i .. Len(text) + 1
<1>1. "end" \notin Characters
  <2>1. "end" \notin {c[1] : c \in DOMAIN Operators}
    BY OperatorsVisible
  <2> QED BY <2>1, EndUnlike DEF Characters
<1> QED BY <1>1, WhileSkipped DEF SkipUntil

\* A scan that starts at i reads a character, and stays in the text.
ReadsOn(i, scan) == scan.next \in i + 1 .. Len(text) + 1

LEMMA ScanIs ==
    ASSUME NEW type, NEW next
    PROVE  Scan(type, next).next = next /\ Scan(type, next).type = type
  BY DEF Scan

LEMMA NumberRead ==
    ASSUME text \in Seq(Characters), NEW i \in 1 .. Len(text),
           CharAt(i) \in Digits \/ (CharAt(i) = "." /\ CharAt(i + 1) \in Digits)
    PROVE  ReadsOn(i, ScanNumber(i))
<1>1. PICK n \in Nat : n = Len(text)
  OBVIOUS
<1>2. \A from, next, base : Integer(from, next, base).next = next
  BY ScanIs DEF Integer
<1>3. \A from, next : BinaryInteger(from, next).next = next
  BY ScanIs DEF BinaryInteger
<1>4. ASSUME NEW digits \in {HexDigits, BinaryDigits}, CharAt(i + 1) \in {"x", "b"}
      PROVE  ReadsOn(i, Prefixed(i, digits))
  <2> DEFINE next == SkipWhile(i + 2, digits)
  <2>1. i + 2 \in 1 .. n + 1
    BY <1>1, <1>4, Visible
  <2>2. next \in i + 2 .. n + 1
    BY <1>1, <1>4, <2>1, EndUnlike, WhileSkipped
  <2>3. Prefixed(i, digits).next = next
    BY <1>2, <1>3, ScanIs DEF Prefixed
  <2> HIDE DEF next
  <2> QED BY <1>1, <2>2, <2>3 DEF ReadsOn
<1>5. ASSUME CharAt(i) = "0"
      PROVE  ReadsOn(i, Integer(i, SkipWhile(i, OctalDigits), 8))
  <2>1. SkipWhile(i, OctalDigits) \in i .. n + 1 /\ SkipWhile(i, OctalDigits) # i
    <3>1. "end" \notin OctalDigits /\ CharAt(i) \in OctalDigits
      BY <1>5, EndUnlike DEF OctalDigits, BinaryDigits
    <3>2. i \in 1 .. Len(text) + 1
      BY <1>1
    <3> QED BY <1>1, <3>1, <3>2, WhileSkipped
  <2> QED BY <1>1, <1>2, <2>1 DEF ReadsOn
<1>6. ReadsOn(i, Decimal(i))
  <2> DEFINE whole == SkipWhile(i, Digits)
             isFraction == CharAt(whole) = "." /\ CharAt(whole + 1) \notin Letters
             mantissa == IF isFraction THEN SkipWhile(whole + 1, Digits) ELSE whole
             exponent == IF CharAt(mantissa + 1) \in {"+", "-"} THEN mantissa + 2 ELSE mantissa + 1
             next == SkipWhile(exponent, Digits)
  <2>1. /\ Decimal(i).next = IF CharAt(mantissa) = "e" THEN next
                             ELSE IF isFraction THEN mantissa ELSE whole
    BY <1>2, ScanIs DEF Decimal
  <2>2. /\ whole \in i .. n + 1 /\ CharAt(whole) \notin Digits
        /\ CharAt(i) \in Digits => whole # i
    <3>1. "end" \notin Digits
      BY EndUnlike
    <3>2. i \in 1 .. Len(text) + 1
      BY <1>1
    <3> QED BY <1>1, <3>1, <3>2, WhileSkipped
  <2>3. whole = i => isFraction
    BY <2>2, EndUnlike
  <2>4. isFraction => SkipWhile(whole + 1, Digits) \in whole + 1 .. n + 1
    <3>1. isFraction => whole + 1 \in 1 .. n + 1
      BY <1>1, <2>2, Visible
    <3> QED BY <1>1, <3>1, EndUnlike, WhileSkipped
  <2> HIDE DEF whole, isFraction
  <2>5. mantissa \in i + 1 .. n + 1
    BY <1>1, <2>2, <2>3, <2>4
  <2> HIDE DEF mantissa
  <2>6. CharAt(mantissa) = "e" => exponent \in mantissa + 1 .. n + 1
    BY <1>1, <2>5, Visible
  <2> HIDE DEF exponent
  <2>7. CharAt(mantissa) = "e" => next \in i + 1 .. n + 1
    <3> SUFFICES ASSUME CharAt(mantissa) = "e" PROVE next \in i + 1 .. n + 1
      OBVIOUS
    <3>1. exponent \in 1 .. n + 1 /\ exponent >= i + 1
      BY <2>5, <2>6
    <3>2. next \in exponent .. n + 1
      BY <1>1, <3>1, EndUnlike, WhileSkipped
    <3> QED BY <3>1, <3>2
  <2>8. ~isFraction => whole \in i + 1 .. n + 1
    BY <1>1, <2>2, <2>3
  <2>9. isFraction => mantissa \in i + 1 .. n + 1
    BY <2>5
  <2> HIDE DEF next
  <2> QED BY <1>1, <2>1, <2>7, <2>8, <2>9 DEF ReadsOn
<1> QED BY <1>4, <1>5, <1>6 DEF ScanNumber

LEMMA WordRead ==
    ASSUME text \in Seq(Characters), NEW i \in 1 .. Len(text), CharAt(i) \in WordChars
    PROVE  ReadsOn(i, ScanWord(i))
<1>1. PICK n \in Nat : n = Len(text)
  OBVIOUS
<1>2. "end" \notin WordChars /\ i \in 1 .. Len(text) + 1
  BY <1>1, EndUnlike
<1>3. SkipWhile(i, WordChars) \in i .. n + 1 /\ SkipWhile(i, WordChars) # i
  BY <1>1, <1>2, WhileSkipped
<1>4. ScanWord(i).next = SkipWhile(i, WordChars)
  BY ScanIs DEF ScanWord
<1> QED BY <1>1, <1>3, <1>4 DEF ReadsOn

LEMMA StringRead ==
    ASSUME text \in Seq(Characters), NEW i \in 1 .. Len(text)
    PROVE  ReadsOn(i, ScanString(i))
<1>1. PICK n \in Nat : n = Len(text)
  OBVIOUS
<1> DEFINE close == SkipUntil(i + 1, {CharAt(i)})
<1>2. close \in i + 1 .. n + 1
  <2>1. i + 1 \in 1 .. Len(text) + 1
    BY <1>1
  <2> QED BY <1>1, <2>1, UntilSkipped
<1>3. ScanString(i).next = IF CharAt(close) = "end" THEN close ELSE close + 1
  BY ScanIs DEF ScanString
<1>4. CharAt(close) # "end" => close \in 1 .. n
  BY <1>1, <1>2, Visible
<1> HIDE DEF close
<1> QED BY <1>1, <1>2, <1>3, <1>4 DEF ReadsOn

\* A comment also takes the two characters it begins with.
LEMMA CommentRead ==
    ASSUME text \in Seq(Characters), NEW i \in 1 .. Len(text) + 1, StartsComment(i)
    PROVE  ReadsOn(i, ScanComment(i))
<1>1. PICK n \in Nat : n = Len(text)
  OBVIOUS
<1> DEFINE Closing(j) == CharAt(j) = "*" /\ CharAt(j + 1) = "/"
           Out == {j \in i + 2 .. n + 1 : CharAt(j) = "end" \/ Closing(j)}
           Ends(j) == /\ CharAt(j) = "end" \/ Closing(j)
                      /\ \A k \in i + 2 .. j - 1 : ~Closing(k)
           close == CHOOSE j \in i + 2 .. Len(text) + 1 : Ends(j)
<1>2. i + 2 \in 1 .. n + 1
  BY <1>1, Visible DEF StartsComment
<1>3. CharAt(n + 1) = "end"
  BY <1>1 DEF CharAt
<1>4. Out \in SUBSET Nat /\ Out # {}
  <2> HIDE DEF Closing
  <2>1. n + 1 \in i + 2 .. n + 1
    BY <1>2
  <2> QED BY <1>2, <1>3, <2>1
<1>5. PICK j \in Out : \A k \in Out : j <= k
  <2> HIDE DEF Out
  <2> QED BY <1>4, Smallest
<1>6. j \in i + 2 .. n + 1 /\ Ends(j)
  BY <1>5
<1>7. ScanComment(i).next = IF CharAt(i + 1) = "/" THEN SkipUntil(i + 2, {"nl"})
                            ELSE IF CharAt(close) = "end" THEN close ELSE close + 2
  BY ScanIs DEF ScanComment
<1> HIDE DEF Ends, Out
<1>8. close \in i + 2 .. n + 1 /\ Ends(close)
  BY <1>1, <1>6
<1>9. CharAt(close) # "end" => close + 2 \in i + 1 .. n + 1
  <2>1. CharAt(close) # "end" => CharAt(close + 1) # "end"
    BY <1>8 DEF Ends
  <2>2. CharAt(close + 1) # "end" => close + 1 \in 1 .. n
    BY <1>1, <1>8, Visible
  <2> HIDE DEF close
  <2> QED BY <1>8, <2>1, <2>2
<1>10. SkipUntil(i + 2, {"nl"}) \in i + 2 .. n + 1
  BY <1>1, <1>2, UntilSkipped
<1> HIDE DEF close
<1> QED BY <1>1, <1>7, <1>8, <1>9, <1>10 DEF ReadsOn

LEMMA OperatorRead ==
    ASSUME text \in Seq(Characters), NEW i \in 1 .. Len(text)
    PROVE  ReadsOn(i, ScanOperator(i))
<1>1. PICK n \in Nat : n = Len(text)
  OBVIOUS
<1>2. CharAt(i + 2) = "=" => i + 2 \in 1 .. n
  BY <1>1, Visible
<1>3. <<CharAt(i), CharAt(i + 1)>> \in DOMAIN Operators => i + 1 \in 1 .. n
  <2>1. <<CharAt(i), CharAt(i + 1)>> \in DOMAIN Operators => CharAt(i + 1) # "end"
    BY OperatorsVisible
  <2> QED BY <1>1, <2>1, Visible
<1>4. ScanOperator(i).next \in {i + 1, i + 2, i + 3}
      /\ (ScanOperator(i).next = i + 3 => CharAt(i + 2) = "=")
      /\ (ScanOperator(i).next = i + 2 => <<CharAt(i), CharAt(i + 1)>> \in DOMAIN Operators)
  BY ScanIs DEF ScanOperator
<1> QED BY <1>1, <1>2, <1>3, <1>4 DEF ReadsOn

LEMMA LexemeRead ==
    ASSUME text \in Seq(Characters), NEW i \in 1 .. Len(text) + 1
    PROVE  LET scan == ScanLexeme(i) IN
           \/ scan.type = "eof" /\ scan.next = i
           \/ ReadsOn(i, scan)
<1>1. PICK n \in Nat : n = Len(text)
  OBVIOUS
<1> DEFINE scan == ScanLexeme(i)
           isNumber == CharAt(i) \in Digits \/ (CharAt(i) = "." /\ CharAt(i + 1) \in Digits)
<1>2. CASE CharAt(i) = "end"
  <2>1. scan = Scan("eof", i)
    BY <1>2, EndUnlike DEF ScanLexeme, StartsComment
  <2> QED BY <2>1, ScanIs
<1>3. CASE CharAt(i) # "end"
  <2>1. i \in 1 .. Len(text)
    BY <1>1, <1>3, Visible
  <2>2. /\ isNumber => ReadsOn(i, ScanNumber(i))
        /\ CharAt(i) \in WordChars \ Digits => ReadsOn(i, ScanWord(i))
        /\ ReadsOn(i, ScanString(i)) /\ ReadsOn(i, ScanOperator(i))
        /\ StartsComment(i) => ReadsOn(i, ScanComment(i))
    BY <2>1, NumberRead, WordRead, StringRead, CommentRead, OperatorRead
  <2>3. \/ isNumber /\ scan = ScanNumber(i)
        \/ CharAt(i) \in WordChars \ Digits /\ scan = ScanWord(i)
        \/ scan = ScanString(i)
        \/ StartsComment(i) /\ scan = ScanComment(i)
        \/ scan = ScanOperator(i)
    BY <1>3 DEF ScanLexeme
  <2> HIDE DEF scan, isNumber
  <2> QED BY <2>2, <2>3 DEF scan
<1> QED BY <1>2, <1>3

\* What the token is, and where the text goes on: behind what was scanned, or behind the
\* comment that follows it.
LEMMA Emitted ==
    ASSUME NEW state, NEW begin, NEW scan
    PROVE  LET emitted == Emit(state, begin, scan) IN
           /\ emitted.token.type = scan.type /\ emitted.lexer.last = scan.type
           /\ emitted.lexer.cur = scan.next
  BY DEF Emit, Token

LEMMA Trailed ==
    ASSUME text \in Seq(Characters), NEW state, NEW begin, NEW scan,
           scan.next \in 1 .. Len(text) + 1
    PROVE  LET trailing == Trailing(Emit(state, begin, scan)) IN
           /\ trailing.token.type = scan.type /\ trailing.lexer.last = scan.type
           /\ trailing.lexer.cur \in scan.next .. Len(text) + 1
<1>1. PICK n \in Nat : n = Len(text)
  OBVIOUS
<1> DEFINE next == SkipWhile(scan.next, Blanks)
           end == IF StartsComment(next) THEN ScanComment(next).next ELSE next
           trailing == Trailing(Emit(state, begin, scan))
<1>2. next \in scan.next .. n + 1
  <2>1. "end" \notin Blanks
    BY EndUnlike
  <2> QED BY <1>1, <2>1, WhileSkipped
<1>3. end \in scan.next .. n + 1
  <2>1. StartsComment(next) => ReadsOn(next, ScanComment(next))
    <3>1. next \in 1 .. Len(text) + 1
      BY <1>1, <1>2
    <3> QED BY <3>1, CommentRead
  <2> HIDE DEF next
  <2> QED BY <1>1, <1>2, <2>1 DEF ReadsOn
<1>4. /\ trailing.token.type = scan.type /\ trailing.lexer.last = scan.type
      /\ trailing.lexer.cur = end
  BY DEF Trailing, Emit, Token
<1> QED BY <1>1, <1>3, <1>4

LEMMA ScanMovesOn ==
    ASSUME ScannerInv, NextScan
    PROVE  /\ ScannerInv'
           /\ \/ lexer'.cur > lexer.cur
              \/ token'.type \in {"vsemi", "eof"} /\ token.type # token'.type
<1>1. PICK n \in Nat : n = Len(text)
  BY DEF ScannerInv
<1> DEFINE blank == SkipWhile(lexer.cur, Blanks)
           candidate == CharAt(blank) \in {"}", "nl"}
           state == [lexer EXCEPT !.lost = @ \/ (candidate /\ lexer.depths = << >>)]
           begin == SkipWhile(blank, WhiteSpace)
           leading == ScanComment(begin)
           from == IF StartsComment(begin) THEN leading.next ELSE begin
           next == SkipWhile(from, WhiteSpace)
<1>2. /\ text \in Seq(Characters) /\ lexer.cur \in 1 .. n + 1 /\ lexer.last = token.type
      /\ token.type # "eof" /\ text' = text
      /\ lexer' = ScanNext.lexer /\ token' = ScanNext.token
  BY <1>1 DEF ScannerInv, NextScan
<1>3. "end" \notin Blanks /\ "end" \notin WhiteSpace
  BY EndUnlike
<1>4. blank \in lexer.cur .. n + 1
  BY <1>1, <1>2, <1>3, WhileSkipped
<1>5. begin \in lexer.cur .. n + 1
  <2> HIDE DEF blank
  <2>1. blank \in 1 .. n + 1
    BY <1>2, <1>4
  <2>2. begin \in blank .. n + 1
    BY <1>1, <1>2, <1>3, <2>1, WhileSkipped
  <2> HIDE DEF begin
  <2> QED BY <1>2, <1>4, <2>2
<1>6. StartsComment(begin) => leading.next \in begin + 1 .. n + 1
  <2>1. begin \in 1 .. n + 1
    BY <1>2, <1>5
  <2> QED BY <1>1, <1>2, <2>1, CommentRead DEF ReadsOn
<1> HIDE DEF begin, leading
<1>7. from \in lexer.cur .. n + 1
  BY <1>2, <1>5, <1>6
<1>8. next \in lexer.cur .. n + 1
  <2> HIDE DEF from
  <2>1. from \in 1 .. n + 1
    BY <1>2, <1>7
  <2>2. next \in from .. n + 1
    BY <1>1, <1>2, <1>3, <2>1, WhileSkipped
  <2> HIDE DEF next
  <2> QED BY <1>2, <1>7, <2>2
<1>9. \/ ShouldInsert(lexer) /\ ScanNext = Emit(state, blank, Scan("vsemi", blank))
      \/ StartsComment(begin) /\ ScanNext = Emit(state, begin, leading)
      \/ ScanNext = Trailing(Emit(state, next, ScanLexeme(next)))
  BY DEF ScanNext, begin, leading
<1> HIDE DEF blank, state, next, from
<1>10. ASSUME lexer'.cur \in lexer.cur .. n + 1, lexer'.last = token'.type
       PROVE  ScannerInv'
  BY <1>1, <1>2, <1>10 DEF ScannerInv
<1>11. CASE ShouldInsert(lexer) /\ ScanNext = Emit(state, blank, Scan("vsemi", blank))
  <2>1. lexer'.cur = blank /\ lexer'.last = "vsemi" /\ token'.type = "vsemi"
    BY <1>2, <1>11, Emitted, ScanIs
  <2>2. token.type # "vsemi"
    BY <1>2, <1>11 DEF ShouldInsert, Enders
  <2> QED BY <1>4, <1>10, <2>1, <2>2
<1>12. CASE StartsComment(begin) /\ ScanNext = Emit(state, begin, leading)
  <2>1. lexer'.cur = leading.next /\ lexer'.last = token'.type
    BY <1>2, <1>12, Emitted
  <2>2. lexer'.cur \in lexer.cur .. n + 1 /\ lexer'.cur > lexer.cur
    BY <1>2, <1>5, <1>6, <1>12, <2>1
  <2> QED BY <1>10, <2>1, <2>2
<1>13. CASE ScanNext = Trailing(Emit(state, next, ScanLexeme(next)))
  <2> DEFINE scan == ScanLexeme(next)
  <2>1. \/ scan.type = "eof" /\ scan.next = next
        \/ scan.next \in next + 1 .. n + 1
    <3>1. next \in 1 .. n + 1
      BY <1>2, <1>8
    <3> QED BY <1>1, <1>2, <3>1, LexemeRead DEF ReadsOn
  <2> HIDE DEF scan
  <2>2. scan.next \in lexer.cur .. n + 1 /\ (scan.type = "eof" \/ scan.next > lexer.cur)
    BY <1>2, <1>8, <2>1
  <2>3. /\ token'.type = scan.type /\ lexer'.last = scan.type
        /\ lexer'.cur \in scan.next .. n + 1
    <3>1. scan.next \in 1 .. Len(text) + 1
      BY <1>1, <1>2, <2>2
    <3>2. ScanNext = Trailing(Emit(state, next, scan))
      BY <1>13 DEF scan
    <3> QED BY <1>1, <1>2, <3>1, <3>2, Trailed
  <2>4. lexer'.cur \in lexer.cur .. n + 1 /\ (scan.type = "eof" \/ lexer'.cur > lexer.cur)
    BY <1>2, <2>2, <2>3
  <2> QED BY <1>2, <1>10, <2>3, <2>4
<1> QED BY <1>9, <1>11, <1>12, <1>13

LEMMA ScannerInvariant == Spec => []ScannerInv
<1>1. Init => ScannerInv
  <2> SUFFICES ASSUME Init PROVE ScannerInv
    OBVIOUS
  <2>1. text \in Seq(Characters) /\ lexer.cur = 1 /\ lexer.last = "none" /\ token.type = "none"
    BY ScannerAssumption DEF Init, Token
  <2>2. 1 \in 1 .. Len(text) + 1
    BY <2>1
  <2> QED BY <2>1, <2>2 DEF ScannerInv
<1>2. ScannerInv /\ [NextScan]_vars => ScannerInv'
  BY ScanMovesOn DEF vars, ScannerInv
<1> QED BY <1>1, <1>2, PTL DEF Spec

\* Every call of snuk_lexer_next_token reads on, inserts a semicolon where it did not just
\* insert one, or finds the end: no text, whatever its characters, keeps the lexer at a place.
THEOREM TextsAreReadToTheEnd == Spec => EveryScanMovesOn
<1>1. ScannerInv /\ [NextScan]_vars =>
          [\/ lexer'.cur > lexer.cur
           \/ token'.type \in {"vsemi", "eof"} /\ token.type # token'.type]_vars
  BY ScanMovesOn
<1> QED BY <1>1, ScannerInvariant, PTL DEF Spec, EveryScanMovesOn
===============================================================================
