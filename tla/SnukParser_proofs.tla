--------------------------- MODULE SnukParser_proofs ---------------------------
(***************************************************************************)
(* Proofs about SnukParser: for every text, also one that is no program.   *)
(***************************************************************************)
EXTENDS SnukParser, SnukOrder_proofs, SequenceTheorems

(***************************************************************************)
(* The lexer.                                                              *)
(***************************************************************************)
Depths == [paren : Int, bracket : Int]
Tokens(s) == [type : TokenTypes, at : 1 .. Len(s) + 1]
LexerOver(s) ==
    [pos : 1 .. Len(s) + 1, last : TokenTypes \cup {"none"}, depths : Seq(Depths), lost : BOOLEAN]

LEMMA TopChanged ==
    ASSUME NEW depths \in Seq(Depths), NEW field \in {"paren", "bracket"}, NEW change \in Int
    PROVE  /\ AtTop(depths, field, change) \in Seq(Depths)
           /\ Len(AtTop(depths, field, change)) = Len(depths)
<1> SUFFICES ASSUME depths # << >>
             PROVE  /\ AtTop(depths, field, change) \in Seq(Depths)
                    /\ Len(AtTop(depths, field, change)) = Len(depths)
  BY DEF AtTop
<1> DEFINE n == Len(depths)
           top == [depths[n] EXCEPT ![field] = depths[n][field] + change]
<1>1. n \in 1 .. n /\ n \in Nat
  BY EmptySeq
<1>2. depths[n] \in Depths
  BY <1>1, ElementOfSeq
<1>3. top \in Depths
  BY <1>2 DEF Depths
<1>4. AtTop(depths, field, change) = [depths EXCEPT ![n] = top]
  BY DEF AtTop
<1> HIDE DEF top
<1> QED BY <1>1, <1>3, <1>4, ExceptSeq

LEMMA TrackType ==
    ASSUME NEW depths \in Seq(Depths), NEW type
    PROVE  Track(depths, type) \in Seq(Depths)
<1>1. /\ AtTop(depths, "paren", 1) \in Seq(Depths) /\ AtTop(depths, "paren", -1) \in Seq(Depths)
      /\ AtTop(depths, "bracket", 1) \in Seq(Depths) /\ AtTop(depths, "bracket", -1) \in Seq(Depths)
  BY TopChanged
<1>2. Append(depths, NoDepth) \in Seq(Depths)
  BY AppendProperties DEF NoDepth, Depths
<1>3. SubSeq(depths, 1, Len(depths) - 1) \in Seq(Depths)
  <2>1. \A i \in 1 .. Len(depths) - 1 : depths[i] \in Depths
    BY ElementOfSeq
  <2> QED BY <2>1, SubSeqProperties
<1> QED BY <1>1, <1>2, <1>3 DEF Track

LEMMA BinaryIs == Binary = {"||", "&&", "|", "^", "&", "==", "<", "<<", "+", "*"}
<1>1. Len(BinaryOperators) = 10
  BY DEF BinaryOperators
<1>2. /\ BinaryOperators[1] = "||" /\ BinaryOperators[2] = "&&" /\ BinaryOperators[3] = "|"
      /\ BinaryOperators[4] = "^" /\ BinaryOperators[5] = "&" /\ BinaryOperators[6] = "=="
      /\ BinaryOperators[7] = "<" /\ BinaryOperators[8] = "<<" /\ BinaryOperators[9] = "+"
      /\ BinaryOperators[10] = "*"
  BY DEF BinaryOperators
<1>3. \A i \in 1 .. 10 : \/ i = 1 \/ i = 2 \/ i = 3 \/ i = 4 \/ i = 5
                         \/ i = 6 \/ i = 7 \/ i = 8 \/ i = 9 \/ i = 10
  OBVIOUS
<1> QED BY <1>1, <1>2, <1>3 DEF Binary

LEMMA LexemeTypes ==
    ASSUME NEW s \in Seq(Lexemes), NEW pos \in Nat
    PROVE  /\ LexemeAt(s, pos) \in Lexemes \cup {"eof"}
           /\ LexemeAt(s, pos) = "eof" <=> pos \notin 1 .. Len(s)
           /\ LexemeAt(s, pos) \notin {"nl", "open"} => LexemeAt(s, pos) \in TokenTypes
<1>1. "eof" \notin Lexemes
  BY BinaryIs DEF Lexemes, Words, Brackets, Marks
<1>2. pos \in 1 .. Len(s) => s[pos] \in Lexemes
  BY ElementOfSeq
<1> QED BY <1>1, <1>2 DEF LexemeAt, TokenTypes

LEMMA BreaksSkipped ==
    ASSUME NEW s \in Seq(Lexemes), NEW pos \in 1 .. Len(s) + 1
    PROVE  /\ SkipBreaks(s, pos) \in pos .. Len(s) + 1
           /\ LexemeAt(s, SkipBreaks(s, pos)) # "nl"
<1>1. PICK n \in Nat : n = Len(s)
  OBVIOUS
<1> DEFINE S == {i \in pos .. n + 1 : LexemeAt(s, i) # "nl"}
           Ends(i) == /\ LexemeAt(s, i) # "nl"
                      /\ \A j \in pos .. i - 1 : LexemeAt(s, j) = "nl"
<1>2. LexemeAt(s, n + 1) # "nl"
  BY <1>1 DEF LexemeAt
<1>3. S \in SUBSET Nat /\ S # {}
  BY <1>1, <1>2
<1>4. PICK i \in S : \A j \in S : i <= j
  <2> HIDE DEF S
  <2> QED BY <1>3, Smallest
<1>5. i \in pos .. pos + n /\ Ends(i)
  BY <1>1, <1>4
<1>6. SkipBreaks(s, pos) = CHOOSE k \in pos .. pos + n : Ends(k)
  BY <1>1 DEF SkipBreaks
<1>7. \A k \in pos .. pos + n : Ends(k) => k \in pos .. n + 1
  BY <1>1, <1>2
<1> HIDE DEF Ends
<1>8. SkipBreaks(s, pos) \in pos .. pos + n /\ Ends(SkipBreaks(s, pos))
  BY <1>5, <1>6
<1> QED BY <1>1, <1>7, <1>8 DEF Ends

\* What a token says of the text where it starts.
Reads(s, token) ==
    \/ token.type = "vsemi"
    \/ token.type = LexemeAt(s, token.at)
    \/ token.type = "error" /\ LexemeAt(s, token.at) = "open"

\* The next token of a text, and the lexer behind it.
Scanned(s, lexer, scan) ==
    /\ scan.lexer \in LexerOver(s) /\ scan.token \in Tokens(s) /\ Reads(s, scan.token)
    /\ lexer.pos <= scan.token.at /\ scan.token.at <= scan.lexer.pos
    /\ scan.lexer.last = scan.token.type
    /\ scan.lexer.depths = Track(lexer.depths, scan.token.type)
    /\ scan.token.type = "vsemi" => lexer.last \in Enders
    /\ scan.token.type = "eof" => scan.lexer.pos = Len(s) + 1
    /\ lexer.pos = Len(s) + 1 => scan.token.type = "eof"

LEMMA BuildScans ==
    ASSUME NEW s \in Seq(Lexemes), NEW lexer \in LexerOver(s),
           NEW pos \in lexer.pos .. Len(s) + 1, LexemeAt(s, pos) # "nl"
    PROVE  Scanned(s, lexer, Build(s, lexer, pos))
<1> DEFINE scan == Build(s, lexer, pos)
           lexeme == LexemeAt(s, pos)
           type == IF lexeme = "open" THEN "error" ELSE lexeme
           lost == lexer.lost \/ (lexer.depths = << >> /\ type \in Brackets \ {"{"})
<1>1. PICK n \in Nat : n = Len(s)
  OBVIOUS
<1>2. /\ lexer.pos \in 1 .. n + 1 /\ lexer.depths \in Seq(Depths) /\ lexer.lost \in BOOLEAN
      /\ pos \in 1 .. n + 1 /\ lexer.pos <= pos
  BY <1>1 DEF LexerOver
<1>3. /\ scan.token = [type |-> type, at |-> pos]
      /\ scan.lexer = [pos |-> Past(s, pos), last |-> type,
                       depths |-> Track(lexer.depths, type), lost |-> lost]
  BY DEF Build, Token
<1>4. type \in TokenTypes /\ lexeme # "vsemi" /\ (type = "eof" <=> pos = n + 1)
  <2>1. "error" \in TokenTypes /\ "vsemi" \notin Lexemes
    BY BinaryIs DEF TokenTypes, Lexemes, Words, Brackets, Marks
  <2>2. /\ lexeme \in Lexemes \cup {"eof"} /\ (lexeme = "eof" <=> pos \notin 1 .. Len(s))
        /\ lexeme \notin {"nl", "open"} => lexeme \in TokenTypes
    BY <1>2, LexemeTypes
  <2> QED BY <1>1, <1>2, <2>1, <2>2
<1>5. /\ Past(s, pos) \in 1 .. n + 1 /\ pos <= Past(s, pos)
      /\ pos = n + 1 => Past(s, pos) = n + 1
  BY <1>1, <1>2 DEF Past
<1>6. Track(lexer.depths, type) \in Seq(Depths)
  BY <1>2, TrackType
<1>7. lost \in BOOLEAN
  BY <1>2
<1>8. Reads(s, scan.token)
  <2>1. scan.token.type = type /\ scan.token.at = pos
    <3> HIDE DEF scan, type, lost
    <3> QED BY <1>3
  <2>2. type = lexeme \/ (type = "error" /\ lexeme = "open")
    OBVIOUS
  <2> HIDE DEF scan, type
  <2> QED BY <2>1, <2>2 DEF Reads
<1> HIDE DEF scan, lexeme, type, lost
<1>9. scan.lexer \in LexerOver(s) /\ scan.token \in Tokens(s)
  BY <1>1, <1>2, <1>3, <1>4, <1>5, <1>6, <1>7 DEF LexerOver, Tokens
<1>10. type # "vsemi"
  BY <1>4 DEF type
<1>11. Scanned(s, lexer, scan)
  BY <1>1, <1>2, <1>3, <1>4, <1>5, <1>8, <1>9, <1>10 DEF Scanned
<1> QED BY <1>11 DEF scan

LEMMA TrailingScans ==
    ASSUME NEW s \in Seq(Lexemes), NEW lexer \in LexerOver(s), NEW scan, Scanned(s, lexer, scan),
           scan = [token |-> scan.token, lexer |-> scan.lexer]
    PROVE  Scanned(s, lexer, SkipTrailing(s, scan))
<1>1. PICK n \in Nat : n = Len(s)
  OBVIOUS
<1>2. CASE LexemeAt(s, scan.lexer.pos) \in Comments
  <2> DEFINE later == [scan.lexer EXCEPT !.pos = scan.lexer.pos + 1]
  <2>1. scan.lexer \in LexerOver(s) /\ scan.lexer.pos \in 1 .. n
    BY <1>1, <1>2 DEF Scanned, LexerOver, LexemeAt, Comments
  <2>2. /\ later \in LexerOver(s) /\ later.pos = scan.lexer.pos + 1
        /\ later.last = scan.lexer.last /\ later.depths = scan.lexer.depths
    <3>1. scan.lexer.pos + 1 \in 1 .. Len(s) + 1
      BY <1>1, <2>1
    <3> QED BY <2>1, <3>1 DEF LexerOver
  <2>3. SkipTrailing(s, scan) = [token |-> scan.token, lexer |-> later]
    BY <1>2 DEF SkipTrailing
  <2> HIDE DEF later
  <2>4. scan.token.type # "eof"
    BY <1>1, <2>1 DEF Scanned
  <2>5. scan.token.at <= later.pos
    BY <1>1, <2>1, <2>2 DEF Scanned, Tokens
  <2> QED BY <2>2, <2>3, <2>4, <2>5 DEF Scanned
<1>3. CASE LexemeAt(s, scan.lexer.pos) \notin Comments
  BY <1>3 DEF SkipTrailing
<1> QED BY <1>2, <1>3

LEMMA NextTokenScans ==
    ASSUME NEW s \in Seq(Lexemes), NEW lexer \in LexerOver(s)
    PROVE  Scanned(s, lexer, NextToken(s, lexer))
<1>1. PICK n \in Nat : n = Len(s)
  OBVIOUS
<1>2. /\ lexer.pos \in 1 .. n + 1 /\ lexer.depths \in Seq(Depths) /\ lexer.lost \in BOOLEAN
  BY <1>1 DEF LexerOver
<1> DEFINE candidate == LexemeAt(s, lexer.pos) \in {"nl", "}"}
<1>3. CASE candidate /\ ShouldInsert(lexer)
  <2> DEFINE later == [lexer EXCEPT !.last = "vsemi"]
  <2>1. NextToken(s, lexer) = [token |-> [type |-> "vsemi", at |-> lexer.pos], lexer |-> later]
    BY <1>3 DEF NextToken, Token
  <2>2. "vsemi" \in TokenTypes /\ lexer.pos # n + 1 /\ lexer.last \in Enders
    <3>1. lexer.pos # n + 1
      <4>1. LexemeAt(s, n + 1) = "eof"
        BY <1>1 DEF LexemeAt
      <4> QED BY <1>3, <4>1
    <3> QED BY <1>3, <3>1 DEF TokenTypes, ShouldInsert
  <2>3. later \in LexerOver(s) /\ later.pos = lexer.pos /\ later.last = "vsemi"
        /\ later.depths = lexer.depths
    BY <2>2 DEF LexerOver
  <2>4. Track(lexer.depths, "vsemi") = lexer.depths
    BY DEF Track
  <2> HIDE DEF later
  <2>5. [type |-> "vsemi", at |-> lexer.pos] \in Tokens(s)
    BY <1>1, <1>2, <2>2 DEF Tokens
  <2> QED BY <1>1, <1>2, <2>1, <2>2, <2>3, <2>4, <2>5 DEF Scanned, Reads
<1>4. CASE ~(candidate /\ ShouldInsert(lexer))
  <2> DEFINE l == [lexer EXCEPT !.lost = @ \/ (candidate /\ lexer.depths = << >>)]
             pos == SkipBreaks(s, l.pos)
             next == SkipBreaks(s, pos + 1)
  <2>1. NextToken(s, lexer) = ScanToken(s, l)
    BY <1>4 DEF NextToken
  <2>2. l \in LexerOver(s) /\ l.pos = lexer.pos /\ l.last = lexer.last /\ l.depths = lexer.depths
    BY <1>2 DEF LexerOver
  <2> HIDE DEF l
  <2>3. pos \in l.pos .. n + 1 /\ LexemeAt(s, pos) # "nl"
    BY <1>1, <1>2, <2>2, BreaksSkipped
  <2>4. LexemeAt(s, pos) \in Comments =>
          next \in pos + 1 .. n + 1 /\ LexemeAt(s, next) # "nl"
    <3> SUFFICES ASSUME LexemeAt(s, pos) \in Comments
                 PROVE  next \in pos + 1 .. n + 1 /\ LexemeAt(s, next) # "nl"
      OBVIOUS
    <3>1. pos + 1 \in 1 .. n + 1
      BY <1>1, <1>2, <2>2, <2>3 DEF LexemeAt, Comments
    <3> QED BY <1>1, <3>1, BreaksSkipped
  <2>5. Scanned(s, l, Build(s, l, pos))
    BY <1>1, <2>2, <2>3, BuildScans
  <2>6. LexemeAt(s, pos) \in Comments => Scanned(s, l, Build(s, l, next))
    <3> SUFFICES ASSUME LexemeAt(s, pos) \in Comments PROVE Scanned(s, l, Build(s, l, next))
      OBVIOUS
    <3>1. next \in l.pos .. Len(s) + 1 /\ LexemeAt(s, next) # "nl"
      BY <1>1, <1>2, <2>2, <2>3, <2>4
    <3> QED BY <2>2, <3>1, BuildScans
  <2>7. \A k : Build(s, l, k) = [token |-> Build(s, l, k).token, lexer |-> Build(s, l, k).lexer]
    BY DEF Build
  <2>8. Scanned(s, l, ScanToken(s, l))
    <3>1. ScanToken(s, l) = IF LexemeAt(s, pos) \notin Comments THEN SkipTrailing(s, Build(s, l, pos))
                            ELSE IF next - (pos + 1) > 1 THEN Build(s, l, pos)
                            ELSE SkipTrailing(s, Build(s, l, next))
      BY DEF ScanToken
    <3>2. Scanned(s, l, SkipTrailing(s, Build(s, l, pos)))
      BY <2>2, <2>5, <2>7, TrailingScans
    <3>3. LexemeAt(s, pos) \in Comments => Scanned(s, l, SkipTrailing(s, Build(s, l, next)))
      BY <2>2, <2>6, <2>7, TrailingScans
    <3> QED BY <2>5, <3>1, <3>2, <3>3
  <2> QED BY <2>1, <2>2, <2>8 DEF Scanned
<1> QED BY <1>3, <1>4

(***************************************************************************)
(* The parser on its text.                                                 *)
(***************************************************************************)
Parsers(s) ==
    [lexer : LexerOver(s), previous : [type : TokenTypes, at : 0 .. Len(s) + 1],
     current : Tokens(s), next : Tokens(s), panic : BOOLEAN,
     err : [why : Reasons, at : 0 .. Len(s) + 1]]

\* The tokens of the parser follow each other in the text.
Sane(s, q) ==
    /\ q \in Parsers(s) /\ Reads(s, q.current) /\ Reads(s, q.next)
    /\ q.previous.at <= q.current.at /\ q.current.at <= q.next.at /\ q.next.at <= q.lexer.pos
    /\ q.lexer.last = q.next.type
    /\ q.current.type = "vsemi" => q.previous.type \in Enders
    /\ q.next.type = "vsemi" => q.current.type \in Enders
    /\ q.next.type = "eof" => q.lexer.pos = Len(s) + 1
    /\ q.current.type = "eof" => q.next.type = "eof"
    /\ q.panic => q.err.why # "none"

\* The parser has not moved, or has consumed a token.
Stays(q, r) ==
    /\ r.lexer = q.lexer /\ r.previous = q.previous /\ r.current = q.current /\ r.next = q.next
Advances(q, r) ==
    /\ r.previous = q.current /\ r.current = q.next
    /\ r.lexer.depths = Track(q.lexer.depths, r.next.type)

\* An operation on the parser: it may report an error, and forgets none.
Reaches(s, q, r) ==
    /\ Sane(s, r)
    /\ Stays(q, r) \/ Advances(q, r)
    /\ q.panic => r.panic
    /\ q.err.why # "none" => r.err.why # "none"

LEMMA ReportReaches ==
    ASSUME NEW s \in Seq(Lexemes), NEW q, Sane(s, q), NEW why \in Reasons \ {"none"}
    PROVE  Reaches(s, q, Report(q, why)) /\ Stays(q, Report(q, why)) /\ Report(q, why).panic
<1>1. CASE q.panic
  BY <1>1 DEF Report, Reaches, Stays
<1>2. CASE ~q.panic
  <2> DEFINE err == [why |-> why, at |-> q.current.at]
             r == [q EXCEPT !.panic = TRUE, !.err = err]
  <2>1. Report(q, why) = r
    BY <1>2 DEF Report
  <2>2. q.current.at \in 0 .. Len(s) + 1
    BY DEF Sane, Parsers, Tokens
  <2>3. err \in [why : Reasons, at : 0 .. Len(s) + 1] /\ err.why = why
    BY <2>2
  <2> HIDE DEF err
  <2>4. /\ r \in Parsers(s) /\ r.lexer = q.lexer /\ r.previous = q.previous
        /\ r.current = q.current /\ r.next = q.next /\ r.panic /\ r.err = err
    BY <2>3 DEF Sane, Parsers
  <2> HIDE DEF r
  <2>5. Sane(s, r) /\ Stays(q, r)
    BY <2>3, <2>4 DEF Sane, Stays
  <2> QED BY <2>1, <2>3, <2>4, <2>5 DEF Reaches
<1> QED BY <1>1, <1>2

LEMMA AdvanceReaches ==
    ASSUME src \in Seq(Lexemes), NEW q, Sane(src, q)
    PROVE  LET r == Advance(q) IN
           /\ Reaches(src, q, r) /\ Advances(q, r)
           /\ r.panic <=> q.panic \/ q.next.type = "error"
<1> DEFINE scan == NextToken(src, q.lexer)
           bad == q.next.type = "error"
           err == IF bad /\ ~q.panic THEN [why |-> "lexer", at |-> q.next.at] ELSE q.err
           panic == q.panic \/ bad
           r == Advance(q)
<1>1. Scanned(src, q.lexer, scan)
  BY NextTokenScans DEF Sane, Parsers
<1>2. r = [lexer |-> scan.lexer, previous |-> q.current, current |-> q.next, next |-> scan.token,
           panic |-> panic, err |-> err]
  BY DEF Advance
<1>3. /\ q.panic \in BOOLEAN /\ q.err \in [why : Reasons, at : 0 .. Len(src) + 1]
      /\ q.next \in Tokens(src) /\ q.current \in Tokens(src) /\ q.lexer \in LexerOver(src)
  BY DEF Sane, Parsers
<1>4. /\ err \in [why : Reasons, at : 0 .. Len(src) + 1]
      /\ panic => err.why # "none"
      /\ q.err.why # "none" => err.why # "none"
  <2>1. "lexer" \in Reasons
    BY DEF Reasons
  <2>2. q.next.at \in 0 .. Len(src) + 1
    <3> HIDE DEF bad, panic, err, r, scan
    <3> QED BY <1>3 DEF Tokens
  <2>3. [why |-> "lexer", at |-> q.next.at] \in [why : Reasons, at : 0 .. Len(src) + 1]
    BY <2>1, <2>2
  <2> QED BY <1>3, <2>3 DEF Sane
<1>5. q.current \in [type : TokenTypes, at : 0 .. Len(src) + 1]
  BY <1>3 DEF Tokens
<1>6. panic \in BOOLEAN
  BY <1>3
<1> HIDE DEF err, panic, scan, r
<1>7. /\ r.lexer = scan.lexer /\ r.previous = q.current /\ r.current = q.next
      /\ r.next = scan.token /\ r.panic = panic /\ r.err = err
  BY <1>2
<1>8. r \in Parsers(src)
  BY <1>1, <1>2, <1>3, <1>4, <1>5, <1>6 DEF Scanned, Parsers
<1>9. Sane(src, r)
  <2>1. /\ Reads(src, r.current) /\ Reads(src, r.next)
        /\ r.previous.at <= r.current.at
        /\ r.lexer.last = r.next.type
        /\ r.current.type = "vsemi" => r.previous.type \in Enders
        /\ r.next.type = "vsemi" => r.current.type \in Enders
        /\ r.next.type = "eof" => r.lexer.pos = Len(src) + 1
        /\ r.current.type = "eof" => r.next.type = "eof"
    BY <1>1, <1>7 DEF Sane, Scanned
  <2>2. r.current.at <= r.next.at /\ r.next.at <= r.lexer.pos
    <3>1. q.next.at <= q.lexer.pos /\ q.lexer.pos <= scan.token.at /\ scan.token.at <= scan.lexer.pos
      BY <1>1 DEF Sane, Scanned
    <3>2. q.next.at \in Nat /\ q.lexer.pos \in Nat /\ scan.token.at \in Nat /\ scan.lexer.pos \in Nat
      BY <1>1, <1>3 DEF Scanned, Tokens, LexerOver
    <3> QED BY <1>7, <3>1, <3>2
  <2>3. r.panic => r.err.why # "none"
    BY <1>4, <1>7
  <2> QED BY <1>8, <2>1, <2>2, <2>3 DEF Sane
<1>10. Advances(q, r)
  BY <1>1, <1>7 DEF Advances, Scanned
<1>11. r.panic <=> q.panic \/ q.next.type = "error"
  BY <1>7 DEF panic
<1>12. q.err.why # "none" => r.err.why # "none"
  BY <1>4, <1>7
<1> QED BY <1>9, <1>10, <1>11, <1>12 DEF Reaches, r

(***************************************************************************)
(* The brackets that the running functions are inside of.                  *)
(***************************************************************************)
Frames == [fn : Functions, pc : Points, level : 0 .. PrimaryLevel]

LEMMA TrackUndone ==
    ASSUME NEW depths \in Seq(Depths)
    PROVE  /\ Track(Track(depths, "("), ")") = depths
           /\ Track(Track(depths, "["), "]") = depths
           /\ Track(Track(depths, "{"), "}") = depths
<1>1. \A field \in {"paren", "bracket"} : AtTop(AtTop(depths, field, 1), field, -1) = depths
  <2> TAKE field \in {"paren", "bracket"}
  <2>1. CASE depths = << >>
    BY <2>1 DEF AtTop
  <2>2. CASE depths # << >>
    <3> DEFINE n == Len(depths)
               up == [depths[n] EXCEPT ![field] = depths[n][field] + 1]
               once == [depths EXCEPT ![n] = up]
               down == [up EXCEPT ![field] = up[field] + -1]
    <3>1. n \in 1 .. n /\ n \in Nat
      BY <2>2, EmptySeq
    <3>2. depths[n] \in Depths
      BY <3>1, ElementOfSeq
    <3>3. up \in Depths /\ down = depths[n]
      BY <3>2 DEF Depths
    <3> HIDE DEF up
    <3>4. once \in Seq(Depths) /\ Len(once) = n /\ once[n] = up
          /\ \A j \in 1 .. n : j # n => once[j] = depths[j]
      BY <3>1, <3>3, ExceptSeq
    <3>5. AtTop(depths, field, 1) = once
      BY <2>2 DEF AtTop, up
    <3>6. once # << >>
      <4>1. Len(once) # 0
        <5>1. n # 0
          BY <3>1
        <5> QED BY <3>4, <5>1
      <4>2. Len(<< >>) = 0
        BY EmptySeq
      <4> QED BY <4>1, <4>2
    <3>7. AtTop(once, field, -1) = [once EXCEPT ![n] = down]
      BY <3>4, <3>6 DEF AtTop
    <3> HIDE DEF once, down
    <3>8. down \in Depths
      BY <3>2, <3>3
    <3>9. /\ [once EXCEPT ![n] = down] \in Seq(Depths)
          /\ Len([once EXCEPT ![n] = down]) = n
          /\ \A j \in 1 .. n : [once EXCEPT ![n] = down][j] = IF j = n THEN down ELSE once[j]
      BY <3>1, <3>4, <3>8, ExceptSeq
    <3>10. [once EXCEPT ![n] = down] = depths
      BY <3>3, <3>4, <3>9, SeqEqual
    <3> QED BY <3>5, <3>7, <3>10
  <2> QED BY <2>1, <2>2
<1>2. Append(depths, NoDepth) # << >>
      /\ SubSeq(Append(depths, NoDepth), 1, Len(Append(depths, NoDepth)) - 1) = depths
  <2> DEFINE deeper == Append(depths, NoDepth)
             n == Len(depths)
  <2>1. NoDepth \in Depths
    BY DEF NoDepth, Depths
  <2>2. /\ deeper \in Seq(Depths) /\ deeper # << >> /\ Len(deeper) = n + 1 /\ n \in Nat
        /\ \A i \in 1 .. n : deeper[i] = depths[i]
    BY <2>1, AppendProperties
  <2> HIDE DEF deeper
  <2>3. \A i \in 1 .. n : deeper[i] \in Depths
    BY <2>2, ElementOfSeq
  <2>4. /\ SubSeq(deeper, 1, n) \in Seq(Depths) /\ Len(SubSeq(deeper, 1, n)) = n
        /\ \A i \in 1 .. n : SubSeq(deeper, 1, n)[i] = deeper[i]
    BY <2>2, <2>3, SubSeqProperties
  <2>5. SubSeq(deeper, 1, n) = depths
    BY <2>2, <2>4, SeqEqual
  <2>6. Len(deeper) - 1 = n
    BY <2>2
  <2> QED BY <2>2, <2>5, <2>6 DEF deeper
<1> QED BY <1>1, <1>2 DEF Track

LEMMA TrackOther ==
    ASSUME NEW depths, NEW type, type \notin Brackets
    PROVE  Track(depths, type) = depths
  BY DEF Track, Brackets

\* Awaited is the function that its definition describes.
LEMMA AwaitedAdds ==
    ASSUME NEW frames \in Seq(Frames)
    PROVE  /\ Awaited(frames)[0] = InitLexer.depths
           /\ \A k \in 1 .. Len(frames) :
                  Awaited(frames)[k] = Track(Awaited(frames)[k - 1], Opened(frames, k))
<1> DEFINE Step(d, k) == IF k = 0 THEN InitLexer.depths ELSE Track(d[k - 1], Opened(frames, k))
           Exists(m) == \E d : d = [k \in 0 .. m |-> Step(d, k)]
           Failing == {m \in Nat : ~Exists(m)}
<1>1. PICK n \in Nat : n = Len(frames)
  OBVIOUS
<1>2. Exists(0)
  <2> DEFINE e == [k \in 0 .. 0 |-> InitLexer.depths]
  <2>1. e = [k \in 0 .. 0 |-> Step(e, k)]
    BY DEF Step
  <2> HIDE DEF Step, e
  <2> QED BY <2>1
<1>3. ASSUME NEW m \in Nat, Exists(m) PROVE Exists(m + 1)
  <2>1. PICK d : d = [k \in 0 .. m |-> Step(d, k)]
    BY <1>3
  <2> DEFINE e == [k \in 0 .. m + 1 |-> IF k = m + 1 THEN Step(d, k) ELSE d[k]]
  <2>2. ASSUME NEW k \in 0 .. m + 1 PROVE e[k] = Step(e, k)
    <3>1. CASE k = 0
      <4>1. d[0] = InitLexer.depths
        BY <2>1
      <4> QED BY <3>1, <4>1
    <3>2. CASE k # 0
      <4>1. k - 1 \in 0 .. m /\ e[k - 1] = d[k - 1]
        BY <3>2
      <4>2. Step(e, k) = Step(d, k)
        BY <3>2, <4>1
      <4>3. k # m + 1 => d[k] = Step(d, k)
        BY <2>1
      <4> QED BY <4>2, <4>3
    <3> QED BY <3>1, <3>2
  <2> HIDE DEF Step
  <2>3. e = [k \in 0 .. m + 1 |-> Step(e, k)]
    BY <2>2
  <2> HIDE DEF e
  <2> QED BY <2>3
<1> HIDE DEF Exists
<1>4. Failing = {}
  <2> SUFFICES ASSUME Failing # {} PROVE FALSE
    OBVIOUS
  <2>1. PICK m \in Failing : \A k \in Failing : m <= k
    BY Smallest
  <2>2. m # 0 /\ m - 1 \in Nat
    BY <1>2, <2>1
  <2>3. Exists(m - 1)
    BY <2>1, <2>2
  <2> QED BY <1>3, <2>1, <2>2, <2>3
<1>5. Exists(n)
  BY <1>4
<1>6. Awaited(frames) = CHOOSE d : d = [k \in 0 .. n |-> Step(d, k)]
  BY <1>1 DEF Awaited
<1>7. Awaited(frames) = [k \in 0 .. n |-> Step(Awaited(frames), k)]
  <2> HIDE DEF Step
  <2> QED BY <1>5, <1>6 DEF Exists
<1> HIDE DEF Step
<1>8. \A k \in 0 .. n : Awaited(frames)[k] = Step(Awaited(frames), k)
  BY <1>7
<1> QED BY <1>1, <1>8 DEF Step

LEMMA AwaitedType ==
    ASSUME NEW frames \in Seq(Frames), NEW n \in 0 .. Len(frames)
    PROVE  Awaited(frames)[n] \in Seq(Depths)
<1> DEFINE d == Awaited(frames)
           Failing == {k \in 0 .. Len(frames) : d[k] \notin Seq(Depths)}
<1>1. SUFFICES ASSUME Failing # {} PROVE FALSE
  OBVIOUS
<1>2. PICK m \in Failing : \A k \in Failing : m <= k
  <2>1. Failing \in SUBSET Nat
    OBVIOUS
  <2> QED BY <1>1, <2>1, Smallest
<1>3. d[0] \in Seq(Depths)
  <2>1. NoDepth \in Depths
    BY DEF NoDepth, Depths
  <2>2. <<NoDepth>> \in Seq(Depths)
    BY <2>1
  <2>3. InitLexer.depths = <<NoDepth>>
    BY DEF InitLexer
  <2>4. Awaited(frames)[0] = InitLexer.depths
    BY AwaitedAdds
  <2> QED BY <2>2, <2>3, <2>4
<1>4. m \in 1 .. Len(frames) /\ m - 1 \in 0 .. Len(frames) /\ m - 1 < m
  BY <1>2, <1>3
<1>5. d[m - 1] \in Seq(Depths)
  BY <1>2, <1>4
<1>6. d[m] = Track(d[m - 1], Opened(frames, m))
  BY <1>4, AwaitedAdds
<1> QED BY <1>2, <1>5, <1>6, TrackType

\* Functions that agree on the brackets they opened agree on the depths.
LEMMA AwaitedAgree ==
    ASSUME NEW frames \in Seq(Frames), NEW others \in Seq(Frames), NEW n \in Nat,
           n <= Len(frames), n <= Len(others),
           \A k \in 1 .. n : Opened(frames, k) = Opened(others, k)
    PROVE  Awaited(frames)[n] = Awaited(others)[n]
<1> DEFINE d == Awaited(frames)
           e == Awaited(others)
           Failing == {k \in 0 .. n : d[k] # e[k]}
<1>1. SUFFICES ASSUME Failing # {} PROVE FALSE
  OBVIOUS
<1>2. PICK m \in Failing : \A k \in Failing : m <= k
  <2>1. Failing \in SUBSET Nat
    OBVIOUS
  <2> QED BY <1>1, <2>1, Smallest
<1>3. d[0] = e[0]
  BY AwaitedAdds
<1>4. m \in 1 .. n /\ m - 1 \in 0 .. n /\ m - 1 < m
  BY <1>2, <1>3
<1>5. d[m - 1] = e[m - 1]
  BY <1>2, <1>4
<1>6. m \in 1 .. Len(frames) /\ m \in 1 .. Len(others)
  BY <1>4
<1>7. d[m] = Track(d[m - 1], Opened(frames, m)) /\ e[m] = Track(e[m - 1], Opened(others, m))
  BY <1>6, AwaitedAdds
<1> QED BY <1>2, <1>4, <1>5, <1>7

\* Functions outside of brackets of their own leave the depths alone.
LEMMA AwaitedFlat ==
    ASSUME NEW frames \in Seq(Frames), NEW i \in Nat, NEW j \in Nat, i <= j, j <= Len(frames),
           \A k \in i + 1 .. j : Opened(frames, k) = "none"
    PROVE  Awaited(frames)[j] = Awaited(frames)[i]
<1> DEFINE d == Awaited(frames)
           Failing == {k \in i .. j : d[k] # d[i]}
<1>1. SUFFICES ASSUME Failing # {} PROVE FALSE
  OBVIOUS
<1>2. PICK m \in Failing : \A k \in Failing : m <= k
  <2>1. Failing \in SUBSET Nat
    OBVIOUS
  <2> QED BY <1>1, <2>1, Smallest
<1>3. m \in i + 1 .. j /\ m - 1 \in i .. j /\ m - 1 < m /\ m \in 1 .. Len(frames)
  BY <1>2
<1>4. d[m - 1] = d[i]
  BY <1>2, <1>3
<1>5. d[m] = Track(d[m - 1], "none")
  BY <1>3, AwaitedAdds
<1>6. "none" \notin Brackets
  BY DEF Brackets
<1> QED BY <1>2, <1>4, <1>5, <1>6, TrackOther

\* The bracket that a function is inside of.
OpenedBy(f) ==
    IF f.pc \notin {"loop", "element"} THEN "none"
    ELSE CASE Closer(f.fn) = ")" -> "("
           [] Closer(f.fn) = "]" -> "["
           [] Closer(f.fn) = "}" -> "{"

LEMMA OpenedIs ==
    ASSUME NEW frames, NEW n
    PROVE  Opened(frames, n) =
               IF n < Len(frames) /\ frames[n + 1].fn \in {"expect", "match"} THEN "none"
               ELSE OpenedBy(frames[n])
  BY DEF Opened, OpenedBy, Closer

\* What the nth of some functions opened depends on it and on the function it waits for.
LEMMA OpenedAlike ==
    ASSUME NEW frames, NEW others, NEW n, NEW m, frames[n] = others[m],
           \/ n < Len(frames) /\ m < Len(others) /\ frames[n + 1] = others[m + 1]
           \/ ~(n < Len(frames) /\ frames[n + 1].fn \in {"expect", "match"})
              /\ ~(m < Len(others) /\ others[m + 1].fn \in {"expect", "match"})
    PROVE  Opened(frames, n) = Opened(others, m)
<1>1. (n < Len(frames) /\ frames[n + 1].fn \in {"expect", "match"})
         <=> (m < Len(others) /\ others[m + 1].fn \in {"expect", "match"})
  OBVIOUS
<1> QED BY <1>1, OpenedIs

\* At most one of some functions is inside a bracket of its own.
Within(frames, bracket) ==
    \/ bracket = "none" /\ \A k \in 1 .. Len(frames) : Opened(frames, k) = "none"
    \/ \E k \in 1 .. Len(frames) :
           /\ Opened(frames, k) = bracket
           /\ \A j \in 1 .. Len(frames) : j # k => Opened(frames, j) = "none"

LEMMA OpenedAbove ==
    ASSUME NEW base \in Seq(Frames), NEW frames \in Seq(Frames), NEW k \in 1 .. Len(frames)
    PROVE  Opened(base \o frames, Len(base) + k) = Opened(frames, k)
<1>1. PICK m \in Nat : m = Len(base)
  OBVIOUS
<1>2. PICK n \in Nat : n = Len(frames)
  OBVIOUS
<1>3. /\ Len(base \o frames) = m + n
      /\ \A i \in 1 .. m + n : (base \o frames)[i] = IF i <= m THEN base[i] ELSE frames[i - m]
  BY <1>1, <1>2, ConcatProperties
<1>4. (base \o frames)[m + k] = frames[k]
  BY <1>2, <1>3
<1>5. k < n => (base \o frames)[m + k + 1] = frames[k + 1]
  BY <1>2, <1>3
<1>6. m + k < m + n <=> k < n
  BY <1>2
<1> DEFINE all == base \o frames
<1>7. /\ Len(all) = m + n /\ all[m + k] = frames[k]
      /\ k < n => all[m + k + 1] = frames[k + 1]
  BY <1>3, <1>4, <1>5
<1> HIDE DEF all
<1>8. Opened(all, m + k) = Opened(frames, k)
  BY <1>2, <1>6, <1>7, OpenedAlike
<1> QED BY <1>1, <1>8 DEF all

LEMMA OpenedBelow ==
    ASSUME NEW base \in Seq(Frames), NEW frames \in Seq(Frames), NEW others \in Seq(Frames),
           NEW k \in 1 .. Len(base),
           k = Len(base) => /\ frames # << >> => frames[1].fn \notin {"expect", "match"}
                            /\ others # << >> => others[1].fn \notin {"expect", "match"}
    PROVE  Opened(base \o frames, k) = Opened(base \o others, k)
<1>1. PICK m \in Nat : m = Len(base)
  OBVIOUS
<1>2. PICK n \in Nat : n = Len(frames)
  OBVIOUS
<1>3. PICK o \in Nat : o = Len(others)
  OBVIOUS
<1>4. /\ Len(base \o frames) = m + n /\ Len(base \o others) = m + o
      /\ \A i \in 1 .. m + n : (base \o frames)[i] = IF i <= m THEN base[i] ELSE frames[i - m]
      /\ \A i \in 1 .. m + o : (base \o others)[i] = IF i <= m THEN base[i] ELSE others[i - m]
  BY <1>1, <1>2, <1>3, ConcatProperties
<1>5. (base \o frames)[k] = base[k] /\ (base \o others)[k] = base[k]
  BY <1>1, <1>4
<1> DEFINE one == base \o frames
           two == base \o others
<1>6. CASE k < m
  <2>1. (base \o frames)[k + 1] = base[k + 1] /\ (base \o others)[k + 1] = base[k + 1]
    BY <1>1, <1>4, <1>6
  <2>2. k < m + n /\ k < m + o
    BY <1>6
  <2>3. /\ one[k] = two[k] /\ one[k + 1] = two[k + 1]
        /\ k < Len(one) /\ k < Len(two)
    BY <1>4, <1>5, <2>1, <2>2
  <2> HIDE DEF one, two
  <2>4. Opened(one, k) = Opened(two, k)
    BY <2>3, OpenedAlike
  <2> QED BY <2>4 DEF one, two
<1>7. CASE k = m
  <2>1. /\ frames # << >> => n >= 1 /\ (base \o frames)[k + 1] = frames[1]
        /\ others # << >> => o >= 1 /\ (base \o others)[k + 1] = others[1]
        /\ frames = << >> => n = 0
        /\ others = << >> => o = 0
    BY <1>1, <1>2, <1>3, <1>4, <1>7, EmptySeq
  <2>2. /\ ~(k < m + n /\ (base \o frames)[k + 1].fn \in {"expect", "match"})
        /\ ~(k < m + o /\ (base \o others)[k + 1].fn \in {"expect", "match"})
    BY <1>1, <1>2, <1>3, <1>7, <2>1
  <2>3. /\ one[k] = two[k]
        /\ ~(k < Len(one) /\ one[k + 1].fn \in {"expect", "match"})
        /\ ~(k < Len(two) /\ two[k + 1].fn \in {"expect", "match"})
    BY <1>4, <1>5, <2>2
  <2> HIDE DEF one, two
  <2>4. Opened(one, k) = Opened(two, k)
    BY <2>3, OpenedAlike
  <2> QED BY <2>4 DEF one, two
<1> QED BY <1>1, <1>6, <1>7

LEMMA AwaitedWithin ==
    ASSUME NEW base \in Seq(Frames), NEW frames \in Seq(Frames), NEW bracket, Within(frames, bracket)
    PROVE  LET all == base \o frames IN
           Awaited(all)[Len(all)] = Track(Awaited(all)[Len(base)], bracket)
<1> DEFINE all == base \o frames
           d == Awaited(all)
<1>1. PICK m \in Nat : m = Len(base)
  OBVIOUS
<1>2. PICK n \in Nat : n = Len(frames)
  OBVIOUS
<1>3. all \in Seq(Frames) /\ Len(all) = m + n
  BY <1>1, <1>2, ConcatProperties
<1>4. \A k \in 1 .. n : Opened(all, m + k) = Opened(frames, k)
  BY <1>1, <1>2, OpenedAbove
<1> HIDE DEF all
<1>5. "none" \notin Brackets
  BY DEF Brackets
<1>6. ASSUME NEW i \in 0 .. n, NEW j \in i .. n, \A k \in i + 1 .. j : Opened(frames, k) = "none"
      PROVE  d[m + j] = d[m + i]
  <2>1. \A k \in m + i + 1 .. m + j : Opened(all, k) = "none"
    <3> TAKE k \in m + i + 1 .. m + j
    <3>1. k - m \in i + 1 .. j /\ k - m \in 1 .. n /\ m + (k - m) = k
      OBVIOUS
    <3> QED BY <1>4, <1>6, <3>1
  <2>2. m + i \in Nat /\ m + j \in Nat /\ m + i <= m + j /\ m + j <= Len(all)
    BY <1>3
  <2> QED BY <1>3, <2>1, <2>2, AwaitedFlat
<1>7. CASE bracket = "none" /\ \A k \in 1 .. n : Opened(frames, k) = "none"
  <2>1. d[m + n] = d[m + 0]
    <3>1. 0 \in 0 .. n /\ n \in 0 .. n /\ \A k \in 0 + 1 .. n : Opened(frames, k) = "none"
      BY <1>7
    <3> QED BY <1>6, <3>1
  <2> QED BY <1>1, <1>3, <1>5, <1>7, <2>1, TrackOther DEF all
<1>8. CASE \E k \in 1 .. n : /\ Opened(frames, k) = bracket
                             /\ \A j \in 1 .. n : j # k => Opened(frames, j) = "none"
  <2>1. PICK k \in 1 .. n : /\ Opened(frames, k) = bracket
                            /\ \A j \in 1 .. n : j # k => Opened(frames, j) = "none"
    BY <1>8
  <2>2. d[m + (k - 1)] = d[m + 0]
    <3>1. 0 \in 0 .. n /\ k - 1 \in 0 .. n /\ \A j \in 0 + 1 .. k - 1 : Opened(frames, j) = "none"
      BY <2>1
    <3> QED BY <1>6, <3>1
  <2>3. d[m + n] = d[m + k]
    <3>1. k \in 0 .. n /\ n \in k .. n /\ \A j \in k + 1 .. n : Opened(frames, j) = "none"
      BY <2>1
    <3> QED BY <1>6, <3>1
  <2>4. d[m + k] = Track(d[m + k - 1], bracket)
    <3>1. m + k \in 1 .. Len(all)
      BY <1>3
    <3> QED BY <1>3, <1>4, <2>1, <3>1, AwaitedAdds
  <2>5. m + (k - 1) = m + k - 1 /\ m + 0 = m
    OBVIOUS
  <2> QED BY <1>1, <1>3, <2>2, <2>3, <2>4, <2>5 DEF all
<1> QED BY <1>2, <1>7, <1>8 DEF Within

(***************************************************************************)
(* The inductive invariant.                                                *)
(***************************************************************************)
Owners == {"item", "extend"}            \* the functions that end with the end of an item
Helpers == {"expect", "match"}
ItemEnds == {";", "vsemi", "eof"}
Openers == {"(", "[", "{"}
OpenerOf(fn) == IF Closer(fn) = ")" THEN "(" ELSE IF Closer(fn) = "]" THEN "[" ELSE "{"

\* The function f may wait for g.  A loop waits for its opening bracket or for an item.
Link(f, g) ==
    /\ ~(f.fn = "item" /\ f.pc = "start")
    /\ f.pc = "loop" => g.fn \in Owners \/ (g.fn = "expect" /\ g.pc = OpenerOf(f.fn))
    /\ g.fn \in Helpers => /\ f.pc # "element" /\ (f.pc # "loop" => g.pc \notin Brackets)
                           /\ g.pc \notin {"loop", "element"}

Linked(frames) == \A k \in 1 .. Len(frames) - 1 : Link(frames[k], frames[k + 1])

\* Where a loop goes round, an element has just ended, or none has begun.  An item does not
\* begin with a semicolon that the lexer inserted.
TopReady(q, top) ==
    /\ top.pc = "loop" => \/ q.panic
                          \/ q.previous.type \in ItemEnds \cup Openers \cup {","}
                          \/ q.current.type = Closer(top.fn)
    /\ top.fn = "item" /\ top.pc = "start" => q.panic \/ q.current.type # "vsemi"

NanBefore(s, from, q) == \E i \in from .. q.previous.at : LexemeAt(s, i) = "nan"

Typed ==
    /\ src \in Seq(Lexemes)
    /\ stack \in Seq(Frames)
    /\ ret \in Results
    /\ hole \in BOOLEAN
    /\ mode \in {"ready", "parsing", "syncing", "done", "crashed"}
    /\ given \in {"nothing", "item", "error"}
    /\ start \in 1 .. Len(src) + 1

Placed ==
    /\ Sane(src, p)
    /\ mode = "parsing" => start <= p.current.at

Shaped ==
    /\ Linked(stack)
    /\ stack # << >> => stack[1].fn \in Owners
    /\ mode \in {"ready", "syncing", "done"} => stack = << >>
    /\ mode = "parsing" /\ stack # << >> => TopReady(p, Top)
    /\ mode = "parsing" /\ stack = << >> => p.panic \/ p.previous.type \in ItemEnds
    /\ mode = "ready" => ~Check(p, "vsemi")

\* A part is missing only where an error or a NaN was met, and after the item only at the end.
Valued ==
    /\ mode = "parsing" /\ (ret = Null \/ hole) => p.panic \/ NanBefore(src, start, p)
    /\ stack = << >> /\ ret = Null => Check(p, "eof")
    /\ CrashNeedsError
    /\ AcceptedIsWhole

Panicked ==
    /\ mode \in {"ready", "syncing"} /\ p.panic =>
           \E i \in 1 .. p.current.at : LexemeAt(src, i) \in {"error", "open"}
    /\ mode = "syncing" => p.err.why # "none"

ParserInv == Typed /\ Placed /\ Shaped /\ Valued /\ Panicked /\ BracketsAwaited

(***************************************************************************)
(* The moves of a function that is no helper: it replaces its frame.       *)
(***************************************************************************)
LEMMA Tops ==
    ASSUME stack \in Seq(Frames), stack # << >>
    PROVE  /\ Len(stack) \in Nat \ {0}
           /\ Below \in Seq(Frames) /\ Len(Below) = Len(stack) - 1
           /\ \A i \in 1 .. Len(stack) - 1 : Below[i] = stack[i]
           /\ Top \in Frames /\ stack = Below \o <<Top>>
<1>1. PICK n \in Nat : n = Len(stack) /\ n # 0
  BY EmptySeq
<1>2. \A i \in 1 .. n : stack[i] \in Frames
  BY <1>1, ElementOfSeq
<1>3. /\ Below \in Seq(Frames) /\ Len(Below) = n - 1
      /\ \A i \in 1 .. n - 1 : Below[i] = stack[i]
  BY <1>1, <1>2, SubSeqProperties DEF Below
<1>4. Top \in Frames
  BY <1>1, <1>2 DEF Top
<1> DEFINE one == <<Top>>
<1>5. one \in Seq(Frames) /\ Len(one) = 1 /\ one[1] = Top
  BY <1>4
<1> HIDE DEF one
<1>6. /\ Below \o one \in Seq(Frames) /\ Len(Below \o one) = n
      /\ \A i \in 1 .. n : (Below \o one)[i] = IF i <= n - 1 THEN Below[i] ELSE one[i - (n - 1)]
  <2>1. /\ Below \o one \in Seq(Frames)
        /\ Len(Below \o one) = Len(Below) + Len(one)
        /\ \A i \in 1 .. Len(Below) + Len(one) :
               (Below \o one)[i] = IF i <= Len(Below) THEN Below[i] ELSE one[i - Len(Below)]
    BY <1>3, <1>5, ConcatProperties
  <2>2. Len(Below) + Len(one) = n
    BY <1>1, <1>3, <1>5
  <2> QED BY <1>3, <2>1, <2>2
<1>7. \A i \in 1 .. n : (Below \o one)[i] = stack[i]
  BY <1>1, <1>3, <1>5, <1>6 DEF Top
<1>8. Below \o one = stack
  BY <1>1, <1>6, <1>7, SeqEqual
<1> QED BY <1>1, <1>3, <1>4, <1>8 DEF one

\* The token consumed, if any, opens or closes the bracket in which the function was.
Balanced(q, r, was, is) ==
    \/ Stays(q, r) /\ was = is
    \/ /\ Advances(q, r)
       /\ \/ q.current.type \notin Brackets /\ was = is
          \/ q.current.type \in Openers /\ was = "none" /\ is = q.current.type
          \/ q.current.type = ")" /\ was = "(" /\ is = "none"
          \/ q.current.type = "]" /\ was = "[" /\ is = "none"
          \/ q.current.type = "}" /\ was = "{" /\ is = "none"

\* The parser and the result of a step.
Carries ==
    /\ Reaches(src, p, p')
    /\ ret' \in Results /\ hole' \in BOOLEAN
    /\ ret' = Null \/ hole' =>
           ret = Null \/ hole \/ p'.panic \/ (Advances(p, p') /\ p.current.type = "nan")

\* The frames that take the place of the topmost one.
Replaces(frames) ==
    /\ stack' = Below \o frames
    /\ Linked(frames)
    /\ frames # << >> => /\ frames[1].fn \notin Helpers
                         /\ Top.fn \in Owners => frames[1].fn \in Owners
                         /\ TopReady(p', frames[Len(frames)])
    /\ frames = << >> /\ Top.fn \in Owners =>
           /\ p'.panic \/ p'.previous.type \in ItemEnds
           /\ ret' = Null => Check(p', "eof")
    /\ p'.err.why = "none" =>
           \E is : Within(frames, is) /\ Balanced(p, p', OpenedBy(Top), is)

Stepping ==
    /\ ParserInv
    /\ mode = "parsing" /\ stack # << >> /\ Top.fn \notin Helpers
    /\ UNCHANGED loop

LEMMA MoveTyped ==
    ASSUME Stepping, NEW frames \in Seq(Frames), stack' = Below \o frames, Carries
    PROVE  Typed'
<1>1. Typed
  BY DEF Stepping, ParserInv
<1>2. Below \o frames \in Seq(Frames)
  BY <1>1, Tops, ConcatProperties DEF Typed, Stepping
<1> QED BY <1>1, <1>2 DEF Typed, Carries, Stepping, loop

LEMMA MovePlaced ==
    ASSUME Stepping, Carries
    PROVE  Placed'
<1>1. Placed
  BY DEF Stepping, ParserInv
<1>2. mode' = mode /\ start' = start /\ src' = src
  BY DEF Stepping, loop
<1>3. Sane(src, p') /\ (Stays(p, p') \/ Advances(p, p'))
  BY DEF Carries, Reaches
<1>4. Typed
  BY DEF Stepping, ParserInv
<1>5. start \in Int /\ p.current.at \in Int /\ p.next.at \in Int
  BY <1>1, <1>4 DEF Typed, Placed, Sane, Parsers, Tokens
<1>6. start <= p'.current.at
  BY <1>1, <1>3, <1>5 DEF Placed, Sane, Stays, Advances, Stepping
<1>7. Sane(src', p')
  BY <1>2, <1>3
<1> QED BY <1>2, <1>6, <1>7 DEF Placed

LEMMA MoveShaped ==
    ASSUME Stepping, NEW frames \in Seq(Frames), Replaces(frames)
    PROVE  Shaped'
<1> DEFINE all == Below \o frames
<1>1. stack \in Seq(Frames) /\ stack # << >> /\ mode = "parsing" /\ Shaped
  BY DEF Stepping, ParserInv, Typed
<1>2. PICK n \in Nat : n = Len(stack) - 1
  BY <1>1, Tops
<1>3. /\ Below \in Seq(Frames) /\ Len(Below) = n /\ Len(stack) = n + 1
      /\ \A i \in 1 .. n : Below[i] = stack[i]
  BY <1>1, <1>2, Tops
<1>4. PICK o \in Nat : o = Len(frames) /\ (frames = << >> <=> o = 0)
  BY EmptySeq
<1>5. /\ all \in Seq(Frames) /\ Len(all) = n + o
      /\ \A i \in 1 .. n + o : all[i] = IF i <= n THEN Below[i] ELSE frames[i - n]
  BY <1>3, <1>4, ConcatProperties
<1>6. stack' = all /\ mode' = mode
  BY DEF Replaces, Stepping, loop
<1> HIDE DEF all
<1>7. n > 0 => Link(Below[n], Top)
  <2>1. n > 0 => n \in 1 .. Len(stack) - 1 /\ Link(stack[n], stack[n + 1])
    BY <1>1, <1>3 DEF Shaped, Linked
  <2> QED BY <1>3, <2>1 DEF Top
<1>8. Top.fn \notin Helpers
  BY DEF Stepping
<1>9. Linked(all)
  <2> SUFFICES ASSUME NEW k \in 1 .. n + o - 1 PROVE Link(all[k], all[k + 1])
    BY <1>5 DEF Linked
  <2>1. CASE k < n
    <3>1. all[k] = stack[k] /\ all[k + 1] = stack[k + 1]
      BY <1>3, <1>5, <2>1
    <3>2. k \in 1 .. Len(stack) - 1
      BY <1>3, <2>1
    <3> QED BY <1>1, <3>1, <3>2 DEF Shaped, Linked
  <2>2. CASE k = n
    <3>1. all[k] = Below[n] /\ all[k + 1] = frames[1] /\ o # 0
      BY <1>5, <2>2
    <3>2. frames[1].fn \notin Helpers /\ (Top.fn \in Owners => frames[1].fn \in Owners)
      BY <1>4, <3>1 DEF Replaces
    <3>3. Link(Below[n], frames[1])
      BY <1>7, <1>8, <2>2, <3>2 DEF Link, Helpers
    <3> QED BY <3>1, <3>3
  <2>3. CASE k > n
    <3>1. all[k] = frames[k - n] /\ all[k + 1] = frames[k - n + 1] /\ k - n \in 1 .. o - 1
      <4>1. k + 1 - n = k - n + 1
        OBVIOUS
      <4> QED BY <1>5, <2>3, <4>1
    <3> QED BY <1>4, <3>1 DEF Replaces, Linked
  <2> QED BY <2>1, <2>2, <2>3
<1>10. CASE o > 0
  <2>1. all # << >> /\ all[1].fn \in Owners
    <3>1. 1 \in 1 .. n + o /\ n + o # 0
      BY <1>10
    <3>2. n > 0 => all[1] = stack[1]
      BY <1>3, <1>5, <3>1
    <3>3. n = 0 => all[1] = frames[1] /\ Top = stack[1]
      BY <1>3, <1>5, <3>1 DEF Top
    <3>4. stack[1].fn \in Owners
      BY <1>1 DEF Shaped
    <3>5. Top.fn \in Owners => frames[1].fn \in Owners
      BY <1>4, <1>10 DEF Replaces
    <3>6. all # << >>
      BY <1>5, <3>1, EmptySeq
    <3> QED BY <3>2, <3>3, <3>4, <3>5, <3>6
  <2>2. all[Len(all)] = frames[o]
    BY <1>5, <1>10
  <2>3. TopReady(p', frames[o])
    BY <1>4, <1>10 DEF Replaces
  <2>4. Top' = frames[o]
    BY <1>6, <2>2 DEF Top
  <2> QED BY <1>1, <1>6, <1>9, <2>1, <2>3, <2>4 DEF Shaped
<1>11. CASE o = 0 /\ n > 0
  <2>1. all # << >> /\ all[1] = stack[1] /\ all[n] = Below[n] /\ Len(all) = n
    BY <1>3, <1>5, <1>11, EmptySeq
  <2>2. TopReady(p', Below[n])
    <3>1. Link(Below[n], Top)
      BY <1>7, <1>11
    <3>2. Below[n].pc = "loop" => p'.panic \/ p'.previous.type \in ItemEnds
      BY <1>4, <1>8, <1>11, <3>1 DEF Link, Helpers, Replaces
    <3> QED BY <3>1, <3>2 DEF Link, TopReady
  <2>3. Top' = Below[n]
    BY <1>6, <2>1 DEF Top
  <2> QED BY <1>1, <1>6, <1>9, <2>1, <2>2, <2>3 DEF Shaped
<1>12. CASE o = 0 /\ n = 0
  <2>1. all = << >>
    BY <1>5, <1>12, EmptySeq
  <2>2. Top.fn \in Owners
    <3>1. Top = stack[1]
      BY <1>3, <1>12 DEF Top
    <3> QED BY <1>1, <3>1 DEF Shaped
  <2>3. p'.panic \/ p'.previous.type \in ItemEnds
    BY <1>4, <1>12, <2>2 DEF Replaces
  <2> QED BY <1>1, <1>6, <1>9, <2>1, <2>3 DEF Shaped
<1> QED BY <1>10, <1>11, <1>12

LEMMA MoveValued ==
    ASSUME Stepping, NEW frames \in Seq(Frames), Replaces(frames), Carries
    PROVE  Valued'
<1>1. Typed /\ Placed /\ Shaped /\ Valued /\ mode = "parsing" /\ stack # << >>
  BY DEF Stepping, ParserInv
<1>2. mode' = mode /\ start' = start /\ src' = src /\ given' = given
  BY DEF Stepping, loop
<1>3. Sane(src, p') /\ (Stays(p, p') \/ Advances(p, p')) /\ (p.panic => p'.panic)
  BY DEF Carries, Reaches
<1>4. Sane(src, p) /\ start <= p.current.at
  BY <1>1 DEF Placed
<1>5. /\ start \in Nat /\ p.previous.at \in Nat /\ p.current.at \in Nat
      /\ p'.previous.at \in Nat /\ p'.current.at \in Nat
  BY <1>1, <1>3, <1>4 DEF Typed, Sane, Parsers, Tokens
<1>6. p.previous.at <= p'.previous.at
  BY <1>3, <1>4, <1>5 DEF Sane, Stays, Advances
<1>7. NanBefore(src, start, p) => NanBefore(src, start, p')
  BY <1>5, <1>6 DEF NanBefore
<1>8. Advances(p, p') /\ p.current.type = "nan" => NanBefore(src, start, p')
  <2> SUFFICES ASSUME Advances(p, p'), p.current.type = "nan" PROVE NanBefore(src, start, p')
    OBVIOUS
  <2>1. LexemeAt(src, p.current.at) = "nan"
    BY <1>4 DEF Sane, Reads
  <2>2. p'.previous.at = p.current.at
    BY DEF Advances
  <2> QED BY <1>4, <1>5, <2>1, <2>2 DEF NanBefore
<1>9. ret' = Null \/ hole' => p'.panic \/ NanBefore(src, start, p')
  BY <1>1, <1>3, <1>7, <1>8 DEF Carries, Valued
<1>10. NanBefore(src, start, p)' <=> NanBefore(src, start, p')
  BY <1>2 DEF NanBefore
<1>11. stack' = << >> => frames = << >> /\ Top.fn \in Owners
  <2> SUFFICES ASSUME Below \o frames = << >> PROVE frames = << >> /\ Top.fn \in Owners
    BY DEF Replaces
  <2>1. Below \in Seq(Frames) /\ Len(Below) = Len(stack) - 1 /\ Len(stack) \in Nat
    BY <1>1, Tops DEF Typed
  <2>2. Below = << >> /\ frames = << >>
    BY <2>1, ConcatEqualIffEmpty
  <2>3. Len(stack) = 1
    BY <2>1, <2>2, EmptySeq
  <2> QED BY <1>1, <2>2, <2>3 DEF Shaped, Top
<1>12. stack' = << >> /\ ret' = Null => Check(p', "eof")
  BY <1>11 DEF Replaces
<1>13. mode' = "parsing"
  BY <1>1, <1>2
<1>14. CrashNeedsError' /\ AcceptedIsWhole'
  BY <1>13 DEF CrashNeedsError, AcceptedIsWhole
<1>15. Check(p, "eof")' <=> Check(p', "eof")
  BY DEF Check
<1> QED BY <1>9, <1>10, <1>12, <1>14, <1>15 DEF Valued

LEMMA MoveBrackets ==
    ASSUME Stepping, NEW frames \in Seq(Frames), Replaces(frames), Carries
    PROVE  BracketsAwaited'
<1> SUFFICES ASSUME p'.err.why = "none"
             PROVE  p'.lexer.depths = Track(Track(Awaited(stack')[Len(stack')], p'.current.type),
                                            p'.next.type)
  BY DEF BracketsAwaited
<1>1. PICK is : Within(frames, is) /\ Balanced(p, p', OpenedBy(Top), is)
  BY DEF Replaces
<1> DEFINE was == OpenedBy(Top)
           all == Below \o frames
           m == Len(Below)
           V == Awaited(stack)[m]
<1>2. /\ stack \in Seq(Frames) /\ stack # << >> /\ Top.fn \notin Helpers
      /\ stack' = all /\ BracketsAwaited
  BY DEF Stepping, ParserInv, Typed, Replaces
<1>3. /\ Below \in Seq(Frames) /\ Top \in Frames /\ stack = Below \o <<Top>>
      /\ m \in Nat /\ m <= Len(stack)
  BY <1>2, Tops
<1>4. <<Top>> \in Seq(Frames) /\ <<Top>> # << >> /\ <<Top>>[1] = Top /\ Len(<<Top>>) = 1
  BY <1>3
<1>5. Within(<<Top>>, was)
  <2>1. Opened(<<Top>>, 1) = was
    BY <1>4, OpenedIs
  <2>2. 1 \in 1 .. Len(<<Top>>) /\ \A j \in 1 .. Len(<<Top>>) : j # 1 => Opened(<<Top>>, j) = "none"
    BY <1>4
  <2> HIDE DEF was
  <2> QED BY <2>1, <2>2 DEF Within
<1>6. Awaited(stack)[Len(stack)] = Track(V, was)
  BY <1>3, <1>4, <1>5, AwaitedWithin
<1>7. Awaited(all)[Len(all)] = Track(Awaited(all)[m], is)
  BY <1>1, <1>3, AwaitedWithin
<1>8. Awaited(all)[m] = V
  <2>1. all \in Seq(Frames) /\ m <= Len(all)
    BY <1>3, ConcatProperties
  <2>2. frames # << >> => frames[1].fn \notin {"expect", "match"}
    BY DEF Replaces, Helpers
  <2>3. \A k \in 1 .. m : Opened(Below \o frames, k) = Opened(Below \o <<Top>>, k)
    <3> DEFINE one == <<Top>>
    <3>1. one \in Seq(Frames) /\ one[1].fn \notin {"expect", "match"}
      BY <1>2, <1>4 DEF Helpers
    <3> HIDE DEF one
    <3>2. \A k \in 1 .. Len(Below) : Opened(Below \o frames, k) = Opened(Below \o one, k)
      BY <1>3, <2>2, <3>1, OpenedBelow
    <3> QED BY <3>2 DEF one
  <2>4. \A k \in 1 .. m : Opened(all, k) = Opened(stack, k)
    BY <1>3, <2>3
  <2> HIDE DEF all
  <2> QED BY <1>2, <1>3, <2>1, <2>4, AwaitedAgree
<1>9. V \in Seq(Depths)
  <2>1. m \in 0 .. Len(stack)
    BY <1>3
  <2> QED BY <1>2, <2>1, AwaitedType
<1>10. p.err.why = "none"
  BY DEF Carries, Reaches
<1>11. p.lexer.depths = Track(Track(Track(V, was), p.current.type), p.next.type)
  BY <1>2, <1>6, <1>10 DEF BracketsAwaited
<1> HIDE DEF V, was, all
<1>12. CASE Stays(p, p') /\ was = is
  BY <1>2, <1>7, <1>8, <1>11, <1>12 DEF Stays
<1>13. CASE Advances(p, p') /\ Track(V, is) = Track(Track(V, was), p.current.type)
  BY <1>2, <1>7, <1>8, <1>11, <1>13 DEF Advances
<1>14. "none" \notin Brackets
  BY DEF Brackets
<1>15. /\ p.current.type \notin Brackets => Track(Track(V, was), p.current.type) = Track(V, was)
       /\ Track(V, "none") = V
  BY <1>14, TrackOther
<1>16. /\ Track(Track(V, "("), ")") = V /\ Track(Track(V, "["), "]") = V
       /\ Track(Track(V, "{"), "}") = V
  BY <1>9, TrackUndone
<1> QED BY <1>1, <1>12, <1>13, <1>15, <1>16 DEF Balanced, was

LEMMA MoveKeeps ==
    ASSUME Stepping, NEW frames \in Seq(Frames), Replaces(frames), Carries
    PROVE  ParserInv'
<1>1. stack' = Below \o frames
  BY DEF Replaces
<1>2. mode' = "parsing"
  BY DEF Stepping, loop
<1>3. Panicked'
  BY <1>2 DEF Panicked
<1> QED BY <1>1, <1>3, MoveTyped, MovePlaced, MoveShaped, MoveValued, MoveBrackets DEF ParserInv

(***************************************************************************)
(* The operations of the parser.                                           *)
(***************************************************************************)
LEMMA StayReaches ==
    ASSUME NEW s, NEW q, Sane(s, q)
    PROVE  Reaches(s, q, q) /\ Stays(q, q)
  BY DEF Reaches, Stays

LEMMA ExpectReaches ==
    ASSUME src \in Seq(Lexemes), NEW q, Sane(src, q), NEW type
    PROVE  LET r == Expect(q, type) IN
           /\ Reaches(src, q, r)
           /\ r.panic \/ (Advances(q, r) /\ q.current.type = type)
<1>1. "expected" \in Reasons \ {"none"}
  BY DEF Reasons
<1> QED BY <1>1, AdvanceReaches, ReportReaches DEF Expect, Check

LEMMA MatchReaches ==
    ASSUME src \in Seq(Lexemes), NEW q, Sane(src, q), NEW type
    PROVE  LET r == Match(q, type) IN
           /\ Reaches(src, q, r)
           /\ Stays(q, r) \/ (Advances(q, r) /\ q.current.type = type)
  BY AdvanceReaches, StayReaches DEF Match, Check

LEMMA ItemEndReaches ==
    ASSUME src \in Seq(Lexemes), NEW q, Sane(src, q)
    PROVE  LET r == ExpectItemEnd(q) IN
           /\ Reaches(src, q, r)
           /\ r.panic \/ (Advances(q, r) /\ q.current.type \in ItemEnds /\ r.previous.type \in ItemEnds)
<1>1. "item end" \in Reasons \ {"none"}
  BY DEF Reasons
<1> QED BY <1>1, AdvanceReaches, ReportReaches DEF ExpectItemEnd, AtItemEnd, ItemEnds, Advances

LEMMA SeparatorReaches ==
    ASSUME src \in Seq(Lexemes), NEW q, Sane(src, q), NEW closer
    PROVE  LET r == Separator(q, closer) IN
           /\ Reaches(src, q, r)
           /\ \/ r.panic
              \/ Stays(q, r) /\ r.current.type = closer
              \/ Advances(q, r) /\ q.current.type = "," /\ r.previous.type = ","
  BY ExpectReaches, StayReaches DEF Separator, Check, Advances

\* A loop that has just ended or not begun an element finds its closing token in front of
\* it, or reports that it is missing.
LEMMA CloseReaches ==
    ASSUME src \in Seq(Lexemes), NEW q, Sane(src, q), NEW top, TopReady(q, top), top.pc = "loop",
           LoopOver(q, Closer(top.fn))
    PROVE  LET r == Close(q, Closer(top.fn)) IN
           /\ Reaches(src, q, r)
           /\ \/ r.panic /\ (Closed(q, Closer(top.fn)) \/ q.current.type = "eof")
              \/ Advances(q, r) /\ q.current.type = Closer(top.fn) /\ Closed(q, Closer(top.fn))
           /\ ~Closed(q, Closer(top.fn)) => r.panic /\ r.current.type = "eof"
<1> DEFINE closer == Closer(top.fn)
           r == Close(q, closer)
<1>1. closer \in {")", "]", "}"}
  BY DEF Closer
<1>2. closer \notin ItemEnds \cup Openers \cup {","}
  BY <1>1 DEF ItemEnds, Openers
<1>3. "unclosed" \in Reasons \ {"none"}
  BY DEF Reasons
<1>4. q.panic \/ q.previous.type # closer \/ q.current.type = closer
  BY <1>2 DEF TopReady
<1> HIDE DEF closer
<1>5. CASE q.current.type = closer
  <2>1. r = Advance(q) /\ Closed(q, closer)
    BY <1>5 DEF Close, Check, Closed
  <2> QED BY <1>5, <2>1, AdvanceReaches DEF closer
<1>6. CASE q.current.type # closer
  <2>1. q.current.type = "eof"
    BY <1>6 DEF LoopOver, Check, closer
  <2>2. CASE q.previous.type = closer
    <3>1. r = q /\ q.panic
      BY <1>4, <1>6, <2>2 DEF Close, Check
    <3>2. Closed(q, closer)
      BY <2>2 DEF Closed
    <3> QED BY <2>1, <3>1, <3>2, StayReaches DEF closer
  <2>3. CASE q.previous.type # closer
    <3>1. r = Report(q, "unclosed") /\ ~Closed(q, closer)
      BY <1>6, <2>3 DEF Close, Closed, Check
    <3>2. Reaches(src, q, r) /\ r.panic /\ Stays(q, r)
      BY <1>3, <3>1, ReportReaches
    <3> QED BY <2>1, <3>1, <3>2 DEF Stays, closer
  <2> QED BY <2>2, <2>3
<1> QED BY <1>5, <1>6

\* The parser may report an error after it has consumed a token.
LEMMA ReportedReaches ==
    ASSUME NEW s \in Seq(Lexemes), NEW q, NEW r, Reaches(s, q, r), NEW why \in Reasons \ {"none"}
    PROVE  Reaches(s, q, Report(r, why)) /\ Report(r, why).panic /\ Report(r, why).err.why # "none"
<1> DEFINE t == Report(r, why)
<1>1. Reaches(s, r, t) /\ Stays(r, t) /\ t.panic
  BY ReportReaches DEF Reaches
<1>2. Sane(s, t) /\ (Stays(q, t) \/ Advances(q, t))
  BY <1>1 DEF Reaches, Stays, Advances
<1>3. t.err.why # "none"
  BY <1>1, <1>2 DEF Sane
<1> QED BY <1>1, <1>2, <1>3 DEF Reaches

(***************************************************************************)
(* Frames and their moves, by the number of frames that take the place of  *)
(* the topmost.                                                            *)
(***************************************************************************)
LEMMA OpenedByIs ==
    ASSUME NEW f
    PROVE  OpenedBy(f) = IF f.pc \in {"loop", "element"} THEN OpenerOf(f.fn) ELSE "none"
  BY DEF OpenedBy, OpenerOf, Closer

LEMMA FrameIs ==
    ASSUME NEW fn \in Functions, NEW pc \in Points, NEW level \in 0 .. PrimaryLevel
    PROVE  /\ Frame(fn, pc, level) \in Frames
           /\ Frame(fn, pc, level).fn = fn /\ Frame(fn, pc, level).pc = pc
  BY DEF Frame, Frames

LEMMA AtIs ==
    ASSUME Top \in Frames, NEW pc \in Points
    PROVE  At(pc) \in Frames /\ At(pc).fn = Top.fn /\ At(pc).pc = pc
  BY DEF At, Frames

\* The bracket that f is inside of while g runs on top of it.
Inside(f, g) == IF g.fn \in Helpers THEN "none" ELSE OpenedBy(f)

LEMMA OpenedInside ==
    ASSUME NEW frames, NEW n \in Nat, n < Len(frames)
    PROVE  Opened(frames, n) = Inside(frames[n], frames[n + 1])
  BY OpenedIs DEF Inside, Helpers

LEMMA MoveNone ==
    ASSUME Stepping, Carries, stack' = Below,
           Top.fn \in Owners => /\ p'.panic \/ p'.previous.type \in ItemEnds
                                /\ ret' = Null => p'.current.type = "eof",
           p'.err.why = "none" => Balanced(p, p', OpenedBy(Top), "none")
    PROVE  ParserInv'
<1> DEFINE frames == << >>
<1>1. frames \in Seq(Frames) /\ Len(frames) = 0 /\ frames = << >>
  BY EmptySeq
<1>2. stack' = Below \o frames
  <2>1. Below \in Seq(Frames)
    BY Tops DEF Stepping, ParserInv, Typed
  <2> QED BY <2>1, ConcatEmptySeq
<1> HIDE DEF frames
<1>3. Linked(frames)
  BY <1>1 DEF Linked
<1>4. Within(frames, "none")
  BY <1>1 DEF Within
<1>5. Replaces(frames)
  BY <1>1, <1>2, <1>3, <1>4 DEF Replaces, Check
<1> QED BY <1>1, <1>5, MoveKeeps

LEMMA MoveOne ==
    ASSUME Stepping, Carries, NEW f \in Frames, stack' = Append(Below, f),
           f.fn \notin Helpers, Top.fn \in Owners => f.fn \in Owners, TopReady(p', f),
           p'.err.why = "none" => Balanced(p, p', OpenedBy(Top), OpenedBy(f))
    PROVE  ParserInv'
<1> DEFINE frames == <<f>>
<1>1. frames \in Seq(Frames) /\ Len(frames) = 1 /\ frames[1] = f /\ frames # << >>
  OBVIOUS
<1>2. stack' = Below \o frames
  <2>1. Below \in Seq(Frames)
    BY Tops DEF Stepping, ParserInv, Typed
  <2> QED BY <2>1, AppendIsConcat
<1> HIDE DEF frames
<1>3. Linked(frames)
  BY <1>1 DEF Linked
<1>4. Within(frames, OpenedBy(f))
  <2>1. Opened(frames, 1) = OpenedBy(f)
    BY <1>1, OpenedIs
  <2>2. 1 \in 1 .. Len(frames) /\ \A j \in 1 .. Len(frames) : j = 1
    BY <1>1
  <2> QED BY <2>1, <2>2 DEF Within
<1>5. Replaces(frames)
  BY <1>1, <1>2, <1>3, <1>4 DEF Replaces
<1> QED BY <1>1, <1>5, MoveKeeps

LEMMA MoveTwo ==
    ASSUME Stepping, Carries, NEW f \in Frames, NEW g \in Frames, NEW is,
           stack' = Below \o <<f, g>>,
           f.fn \notin Helpers, Top.fn \in Owners => f.fn \in Owners,
           Link(f, g), TopReady(p', g),
           \/ is = Inside(f, g) /\ OpenedBy(g) = "none"
           \/ is = OpenedBy(g) /\ Inside(f, g) = "none",
           p'.err.why = "none" => Balanced(p, p', OpenedBy(Top), is)
    PROVE  ParserInv'
<1> DEFINE frames == <<f, g>>
<1>1. /\ frames \in Seq(Frames) /\ Len(frames) = 2 /\ frames # << >>
      /\ frames[1] = f /\ frames[2] = g
  OBVIOUS
<1> HIDE DEF frames
<1>2. \A k \in 1 .. 2 : k = 1 \/ k = 2
  OBVIOUS
<1>3. Linked(frames)
  BY <1>1 DEF Linked
<1>4. Within(frames, is)
  <2>1. Opened(frames, 1) = Inside(f, g) /\ Opened(frames, 2) = OpenedBy(g)
    BY <1>1, OpenedIs DEF Inside, Helpers
  <2> QED BY <1>1, <1>2, <2>1 DEF Within
<1>5. Replaces(frames)
  BY <1>1, <1>3, <1>4 DEF Replaces, frames
<1> QED BY <1>1, <1>5, MoveKeeps

LEMMA MoveThree ==
    ASSUME Stepping, Carries, NEW f \in Frames, NEW g \in Frames, NEW h \in Frames, NEW is,
           stack' = Below \o <<f, g, h>>,
           f.fn \notin Helpers, Top.fn \in Owners => f.fn \in Owners,
           Link(f, g), Link(g, h), TopReady(p', h), OpenedBy(h) = "none",
           \/ is = Inside(f, g) /\ Inside(g, h) = "none"
           \/ is = Inside(g, h) /\ Inside(f, g) = "none",
           p'.err.why = "none" => Balanced(p, p', OpenedBy(Top), is)
    PROVE  ParserInv'
<1> DEFINE frames == <<f, g, h>>
<1>1. /\ frames \in Seq(Frames) /\ Len(frames) = 3 /\ frames # << >>
      /\ frames[1] = f /\ frames[2] = g /\ frames[3] = h
  OBVIOUS
<1> HIDE DEF frames
<1>2. \A k \in 1 .. 3 : k = 1 \/ k = 2 \/ k = 3
  OBVIOUS
<1>3. Linked(frames)
  <2>1. \A k \in 1 .. Len(frames) - 1 : k = 1 \/ k = 2
    BY <1>1
  <2> QED BY <1>1, <2>1 DEF Linked
<1>4. Within(frames, is)
  <2>1. Opened(frames, 1) = Inside(f, g)
    BY <1>1, OpenedIs DEF Inside, Helpers
  <2>2. Opened(frames, 2) = Inside(g, h)
    BY <1>1, OpenedIs DEF Inside, Helpers
  <2>3. Opened(frames, 3) = "none"
    BY <1>1, OpenedIs
  <2> QED BY <1>1, <1>2, <2>1, <2>2, <2>3 DEF Within
<1>5. Replaces(frames)
  BY <1>1, <1>3, <1>4 DEF Replaces, frames
<1> QED BY <1>1, <1>5, MoveKeeps

LEMMA MoveFour ==
    ASSUME Stepping, Carries, NEW f \in Frames, NEW g \in Frames, NEW h \in Frames, NEW i \in Frames,
           stack' = Below \o <<f, g, h, i>>,
           f.fn \notin Helpers, Top.fn \in Owners => f.fn \in Owners,
           Link(f, g), Link(g, h), Link(h, i), TopReady(p', i),
           Inside(g, h) = "none", Inside(h, i) = "none", OpenedBy(i) = "none",
           p'.err.why = "none" => Balanced(p, p', OpenedBy(Top), Inside(f, g))
    PROVE  ParserInv'
<1> DEFINE frames == <<f, g, h, i>>
<1>1. /\ frames \in Seq(Frames) /\ Len(frames) = 4 /\ frames # << >>
      /\ frames[1] = f /\ frames[2] = g /\ frames[3] = h /\ frames[4] = i
  OBVIOUS
<1> HIDE DEF frames
<1>2. \A k \in 1 .. 4 : k = 1 \/ k = 2 \/ k = 3 \/ k = 4
  OBVIOUS
<1>3. Linked(frames)
  <2>1. \A k \in 1 .. Len(frames) - 1 : k = 1 \/ k = 2 \/ k = 3
    BY <1>1
  <2> QED BY <1>1, <2>1 DEF Linked
<1>4. Within(frames, Inside(f, g))
  <2>1. Opened(frames, 1) = Inside(f, g)
    BY <1>1, OpenedInside
  <2>2. Opened(frames, 2) = "none"
    BY <1>1, OpenedInside
  <2>3. Opened(frames, 3) = "none"
    <3>1. Opened(frames, 3) = Inside(frames[3], frames[3 + 1])
      <4>1. 3 \in Nat /\ 3 < Len(frames)
        BY <1>1
      <4> QED BY <4>1, OpenedInside
    <3> QED BY <1>1, <3>1
  <2>4. Opened(frames, 4) = "none"
    BY <1>1, OpenedIs
  <2> QED BY <1>1, <1>2, <2>1, <2>2, <2>3, <2>4 DEF Within
<1>5. Replaces(frames)
  BY <1>1, <1>3, <1>4 DEF Replaces, frames
<1> QED BY <1>1, <1>5, MoveKeeps

\* What a running function is, and what its step may use.
LEMMA Runs ==
    ASSUME ParserInv, NEW fns, NEW pc, RunningOneOf(fns, pc), fns \cap Helpers = {}, UNCHANGED loop
    PROVE  /\ Stepping /\ Top \in Frames /\ Top.fn \in fns /\ Top.pc = pc /\ TopReady(p, Top)
           /\ src \in Seq(Lexemes) /\ Sane(src, p) /\ Below \in Seq(Frames)
           /\ ret \in Results /\ hole \in BOOLEAN
<1>1. mode = "parsing" /\ stack # << >> /\ Top.fn \in fns /\ Top.pc = pc
  BY DEF RunningOneOf, InFunction
<1>2. Stepping
  BY <1>1 DEF Stepping
<1>3. Typed /\ Placed /\ Shaped
  BY DEF ParserInv
<1>4. Top \in Frames /\ Below \in Seq(Frames)
  BY <1>1, <1>3, Tops DEF Typed
<1> QED BY <1>1, <1>2, <1>3, <1>4 DEF Typed, Placed, Shaped

LEMMA CarriesOn ==
    ASSUME Stepping, Reaches(src, p, p'), Needed \/ Unneeded,
           \/ ret' = ret
           \/ ret' \in {Absent, "expr", "ident"}
           \/ ret' = Null /\ (p'.panic \/ (Advances(p, p') /\ p.current.type = "nan"))
    PROVE  Carries
<1>1. Typed
  BY DEF Stepping, ParserInv
<1>2. ret \in Results /\ hole \in BOOLEAN
  BY <1>1 DEF Typed
<1>3. ret' \in Results /\ (ret' = Null => \/ ret = Null \/ p'.panic
                                          \/ Advances(p, p') /\ p.current.type = "nan")
  BY <1>2 DEF Results, Null, Absent
<1>4. hole' \in BOOLEAN /\ (hole' => hole \/ ret = Null)
  <2>1. CASE Needed
    BY <1>2, <2>1 DEF Needed
  <2>2. CASE Unneeded
    BY <1>2, <2>2 DEF Unneeded
  <2> QED BY <2>1, <2>2
<1> QED BY <1>3, <1>4 DEF Carries

LEMMA StayOver ==
    ASSUME Stepping
    PROVE  Reaches(src, p, p) /\ \A b : Balanced(p, p, b, b)
  BY StayReaches DEF Stepping, ParserInv, Placed, Balanced

LEMMA AdvanceOver ==
    ASSUME Stepping, p.current.type \notin Brackets
    PROVE  Reaches(src, p, Advance(p)) /\ \A b : Balanced(p, Advance(p), b, b)
  BY AdvanceReaches DEF Stepping, ParserInv, Typed, Placed, Balanced

LEMMA AdvanceInto ==
    ASSUME Stepping, p.current.type \in Openers
    PROVE  /\ Reaches(src, p, Advance(p)) /\ Advances(p, Advance(p))
           /\ Balanced(p, Advance(p), "none", p.current.type)
  BY AdvanceReaches DEF Stepping, ParserInv, Typed, Placed, Balanced

\* A result that reports an error says nothing of brackets.
LEMMA ErrorKept ==
    ASSUME NEW q, Reaches(src, p, q), q.panic
    PROVE  q.err.why # "none"
  BY DEF Reaches, Sane

LEMMA ExpectOver ==
    ASSUME Stepping, NEW type, type \notin Brackets
    PROVE  LET q == Expect(p, type) IN
           Reaches(src, p, q) /\ (q.err.why = "none" => \A b : Balanced(p, q, b, b))
<1> DEFINE q == Expect(p, type)
<1>1. Reaches(src, p, q) /\ (q.panic \/ (Advances(p, q) /\ p.current.type = type))
  BY ExpectReaches DEF Stepping, ParserInv, Typed, Placed
<1> HIDE DEF q
<1>2. q.err.why = "none" => Advances(p, q) /\ p.current.type = type
  BY <1>1, ErrorKept
<1>3. q.err.why = "none" => \A b : Balanced(p, q, b, b)
  BY <1>2 DEF Balanced
<1> QED BY <1>1, <1>3 DEF q

LEMMA MatchOver ==
    ASSUME Stepping, NEW type, type \notin Brackets
    PROVE  LET q == Match(p, type) IN Reaches(src, p, q) /\ \A b : Balanced(p, q, b, b)
<1> DEFINE q == Match(p, type)
<1>1. Reaches(src, p, q) /\ (Stays(p, q) \/ (Advances(p, q) /\ p.current.type = type))
  BY MatchReaches DEF Stepping, ParserInv, Typed, Placed
<1> HIDE DEF q
<1>2. \A b : Balanced(p, q, b, b)
  BY <1>1 DEF Balanced
<1> QED BY <1>1, <1>2 DEF q

LEMMA ItemEndOver ==
    ASSUME Stepping
    PROVE  LET q == ExpectItemEnd(p) IN
           /\ Reaches(src, p, q) /\ (q.panic \/ q.previous.type \in ItemEnds)
           /\ q.err.why = "none" => \A b : Balanced(p, q, b, b)
<1> DEFINE q == ExpectItemEnd(p)
<1>1. /\ Reaches(src, p, q)
      /\ q.panic \/ (Advances(p, q) /\ p.current.type \in ItemEnds /\ q.previous.type \in ItemEnds)
  BY ItemEndReaches DEF Stepping, ParserInv, Typed, Placed
<1> HIDE DEF q
<1>2. q.err.why = "none" => Advances(p, q) /\ p.current.type \in ItemEnds
  BY <1>1, ErrorKept
<1>3. q.err.why = "none" => \A b : Balanced(p, q, b, b)
  BY <1>2 DEF Balanced, ItemEnds, Brackets
<1> QED BY <1>1, <1>3 DEF q

LEMMA SeparatorOver ==
    ASSUME Stepping, NEW closer
    PROVE  LET q == Separator(p, closer) IN
           /\ Reaches(src, p, q)
           /\ q.panic \/ q.previous.type = "," \/ q.current.type = closer
           /\ q.err.why = "none" => \A b : Balanced(p, q, b, b)
<1> DEFINE q == Separator(p, closer)
<1>1. /\ Reaches(src, p, q)
      /\ \/ q.panic
         \/ Stays(p, q) /\ q.current.type = closer
         \/ Advances(p, q) /\ p.current.type = "," /\ q.previous.type = ","
  BY SeparatorReaches DEF Stepping, ParserInv, Typed, Placed
<1> HIDE DEF q
<1>2. q.err.why = "none" => Stays(p, q) \/ (Advances(p, q) /\ p.current.type = ",")
  BY <1>1, ErrorKept
<1>3. q.err.why = "none" => \A b : Balanced(p, q, b, b)
  BY <1>2 DEF Balanced, Brackets
<1> QED BY <1>1, <1>3 DEF q

\* The end of a loop leaves its bracket.
LEMMA CloseOver ==
    ASSUME Stepping, Top.pc = "loop", LoopOver(p, Closer(Top.fn))
    PROVE  LET q == Close(p, Closer(Top.fn)) IN
           /\ Reaches(src, p, q)
           /\ ~Closed(p, Closer(Top.fn)) => q.panic /\ q.current.type = "eof"
           /\ q.err.why = "none" => Balanced(p, q, OpenedBy(Top), "none")
<1> DEFINE q == Close(p, Closer(Top.fn))
<1>1. /\ Reaches(src, p, q)
      /\ q.panic \/ (Advances(p, q) /\ p.current.type = Closer(Top.fn))
      /\ ~Closed(p, Closer(Top.fn)) => q.panic /\ q.current.type = "eof"
  <2>1. TopReady(p, Top) /\ src \in Seq(Lexemes) /\ Sane(src, p)
    BY DEF Stepping, ParserInv, Shaped, Typed, Placed
  <2> QED BY <2>1, CloseReaches
<1> HIDE DEF q
<1>2. q.err.why = "none" => Advances(p, q) /\ p.current.type = Closer(Top.fn)
  BY <1>1, ErrorKept
<1>3. OpenedBy(Top) = OpenerOf(Top.fn)
  BY OpenedByIs
<1>4. Closer(Top.fn) \in {")", "]", "}"}
  BY DEF Closer
<1>5. q.err.why = "none" => Balanced(p, q, OpenedBy(Top), "none")
  BY <1>2, <1>3, <1>4 DEF Balanced, OpenerOf
<1> QED BY <1>1, <1>5 DEF q

(***************************************************************************)
(* The forms of a step.                                                    *)
(***************************************************************************)
LEMMA TokensUsed ==
    {"(", ")", "[", "]", "{", "}", "ident", ":", "=", ";", ",", "if", "while"} \subseteq TokenTypes
  BY BinaryIs DEF TokenTypes, Lexemes, Words, Brackets, Marks

LEMMA HelperIs ==
    ASSUME NEW type \in TokenTypes
    PROVE  /\ Expecting(type) \in Frames /\ Expecting(type).fn = "expect"
           /\ Expecting(type).pc = type /\ OpenedBy(Expecting(type)) = "none"
           /\ Matching(type) \in Frames /\ Matching(type).fn = "match"
           /\ Matching(type).pc = type /\ OpenedBy(Matching(type)) = "none"
           /\ type \notin {"loop", "element"}
<1>1. type \in Points
  BY DEF Points
<1>2. {"expect", "match"} \subseteq Functions /\ 0 \in 0 .. PrimaryLevel
  BY DEF Functions, PrimaryLevel
<1>3. type \notin {"loop", "element"}
  BY BinaryIs DEF TokenTypes, Lexemes, Words, Brackets, Marks
<1> QED BY <1>1, <1>2, <1>3, FrameIs, OpenedByIs DEF Expecting, Matching

\* Functions called for a part, and at their beginning.
Parts == {AnyExpression, Type, Var}

LEMMA PartIs ==
    ASSUME NEW g \in Parts
    PROVE  /\ g \in Frames /\ g.fn \in {"expr", "type", "var"} /\ g.pc \in {"prefix", "start"}
           /\ OpenedBy(g) = "none"
<1>1. {"expr", "type", "var"} \subseteq Functions /\ {"prefix", "start"} \subseteq Points
      /\ 0 \in 0 .. PrimaryLevel /\ AssignmentLevel \in 0 .. PrimaryLevel
  BY DEF Functions, Points, PrimaryLevel, AssignmentLevel
<1>2. g \in {Frame("expr", "prefix", AssignmentLevel), Frame("type", "start", 0),
             Frame("var", "start", 0)}
  BY DEF Parts, AnyExpression, Expression, Type, Var
<1>3. g \in Frames /\ g.fn \in {"expr", "type", "var"} /\ g.pc \in {"prefix", "start"}
  BY <1>1, <1>2, FrameIs
<1> QED BY <1>3, OpenedByIs

LEMMA BlockIs ==
    /\ Block \in Frames /\ Block.fn = "block" /\ Block.pc = "loop" /\ OpenedBy(Block) = "{"
    /\ Build1 \in Frames /\ Build1.fn = "build" /\ Build1.pc = "part" /\ OpenedBy(Build1) = "none"
    /\ Item \in Frames /\ Item.fn = "item" /\ Item.pc = "start" /\ OpenedBy(Item) = "none"
<1>1. {"block", "build", "item"} \subseteq Functions /\ {"loop", "part", "start"} \subseteq Points
      /\ 0 \in 0 .. PrimaryLevel
  BY DEF Functions, Points, PrimaryLevel
<1>2. /\ Block \in Frames /\ Block.fn = "block" /\ Block.pc = "loop"
      /\ Build1 \in Frames /\ Build1.fn = "build" /\ Build1.pc = "part"
      /\ Item \in Frames /\ Item.fn = "item" /\ Item.pc = "start"
  BY <1>1, FrameIs DEF Block, Build1, Item
<1>3. OpenerOf("block") = "{"
  BY DEF OpenerOf, Closer
<1> QED BY <1>2, <1>3, OpenedByIs

Prefixes(f, rest, all) ==
    Len(all) = Len(rest) + 1 /\ all[1] = f /\ \A k \in 1 .. Len(rest) : all[k + 1] = rest[k]

LEMMA Prefixed ==
    ASSUME NEW base \in Seq(Frames), NEW f \in Frames,
           NEW rest \in Seq(Frames), NEW all \in Seq(Frames), Prefixes(f, rest, all)
    PROVE  base \o <<f>> \o rest = base \o all
<1> DEFINE one == <<f>>
<1>0. PICK n \in Nat : n = Len(rest)
  OBVIOUS
<1>1. one \in Seq(Frames) /\ Len(one) = 1 /\ one[1] = f
  OBVIOUS
<1> HIDE DEF one
<1>2. /\ one \o rest \in Seq(Frames) /\ Len(one \o rest) = 1 + n
      /\ \A k \in 1 .. 1 + n : (one \o rest)[k] = IF k <= 1 THEN one[k] ELSE rest[k - 1]
  <2>1. /\ one \o rest \in Seq(Frames) /\ Len(one \o rest) = Len(one) + Len(rest)
        /\ \A k \in 1 .. Len(one) + Len(rest) :
               (one \o rest)[k] = IF k <= Len(one) THEN one[k] ELSE rest[k - Len(one)]
    BY <1>1, ConcatProperties
  <2> QED BY <1>0, <1>1, <2>1
<1>3. \A k \in 1 .. 1 + n : k = 1 \/ (k - 1 \in 1 .. n /\ k - 1 + 1 = k)
  OBVIOUS
<1>4. \A k \in 1 .. n + 1 : (one \o rest)[k] = all[k]
  <2>1. Len(all) = n + 1 /\ all[1] = f /\ \A k \in 1 .. n : all[k + 1] = rest[k]
    BY <1>0 DEF Prefixes
  <2> QED BY <1>1, <1>2, <1>3, <2>1
<1>5. one \o rest = all
  <2>1. Len(all) = n + 1
    BY <1>0 DEF Prefixes
  <2>2. /\ one \o rest \in Seq(Frames) /\ Len(one \o rest) = Len(all)
        /\ \A k \in 1 .. Len(one \o rest) : (one \o rest)[k] = all[k]
    BY <1>2, <1>4, <2>1
  <2> QED BY <2>2, SeqEqual
<1>6. base \o one \o rest = base \o (one \o rest)
  <2>1. one \in Seq(Frames)
    BY <1>1
  <2> QED BY <2>1, ConcatAssociative
<1> QED BY <1>5, <1>6 DEF one

LEMMA JoinsTwo ==
    ASSUME NEW base \in Seq(Frames), NEW f \in Frames, NEW g \in Frames
    PROVE  base \o <<f>> \o <<g>> = base \o <<f, g>>
<1> DEFINE rest == <<g>>
           all == <<f, g>>
<1>1. /\ rest \in Seq(Frames) /\ all \in Seq(Frames) /\ Len(rest) = 1
      /\ Len(all) = 1 + 1 /\ all[1] = f /\ all[2] = g /\ rest[1] = g
  OBVIOUS
<1> HIDE DEF rest, all
<1>2. Prefixes(f, rest, all)
  BY <1>1 DEF Prefixes
<1>3. base \o <<f>> \o rest = base \o all
  BY <1>1, <1>2, Prefixed
<1> QED BY <1>3 DEF rest, all

LEMMA JoinsThree ==
    ASSUME NEW base \in Seq(Frames), NEW f \in Frames, NEW g \in Frames, NEW h \in Frames
    PROVE  base \o <<f>> \o <<g, h>> = base \o <<f, g, h>>
<1> DEFINE rest == <<g, h>>
           all == <<f, g, h>>
<1>1. /\ rest \in Seq(Frames) /\ all \in Seq(Frames) /\ Len(rest) = 2
      /\ Len(all) = 2 + 1 /\ all[1] = f /\ all[2] = g /\ all[3] = h
      /\ rest[1] = g /\ rest[2] = h
  OBVIOUS
<1> HIDE DEF rest, all
<1>2. \A k \in 1 .. 2 : k = 1 \/ k = 2
  OBVIOUS
<1>3. Prefixes(f, rest, all)
  BY <1>1, <1>2 DEF Prefixes
<1>4. base \o <<f>> \o rest = base \o all
  <2>1. rest \in Seq(Frames) /\ all \in Seq(Frames)
    BY <1>1
  <2> QED BY <1>3, <2>1, Prefixed
<1> QED BY <1>4 DEF rest, all

LEMMA JoinsFour ==
    ASSUME NEW base \in Seq(Frames), NEW f \in Frames, NEW g \in Frames, NEW h \in Frames,
           NEW i \in Frames
    PROVE  base \o <<f>> \o <<g, h, i>> = base \o <<f, g, h, i>>
<1> DEFINE rest == <<g, h, i>>
           all == <<f, g, h, i>>
<1>1. /\ rest \in Seq(Frames) /\ all \in Seq(Frames) /\ Len(rest) = 3
      /\ Len(all) = 3 + 1 /\ all[1] = f /\ all[2] = g /\ all[3] = h /\ all[4] = i
      /\ rest[1] = g /\ rest[2] = h /\ rest[3] = i
  OBVIOUS
<1> HIDE DEF rest, all
<1>2. \A k \in 1 .. 3 : k = 1 \/ k = 2 \/ k = 3
  OBVIOUS
<1>3. Prefixes(f, rest, all)
  BY <1>1, <1>2 DEF Prefixes
<1>4. base \o <<f>> \o rest = base \o all
  <2>1. rest \in Seq(Frames) /\ all \in Seq(Frames)
    BY <1>1
  <2> QED BY <1>3, <2>1, Prefixed
<1> QED BY <1>4 DEF rest, all

\* The bracket around a function at some point.
Around(pc) == IF pc \in {"loop", "element"} THEN OpenerOf(Top.fn) ELSE "none"

LEMMA JoinsPairs ==
    ASSUME NEW f \in Frames, NEW g \in Frames, NEW h \in Frames, NEW i \in Frames
    PROVE  <<f, g>> \o <<h, i>> = <<f, g, h, i>>
<1> DEFINE low == <<f, g>>
           high == <<h, i>>
           both == low \o high
           all == <<f, g, h, i>>
<1>1. /\ low \in Seq(Frames) /\ Len(low) = 2 /\ low[1] = f /\ low[2] = g
      /\ high \in Seq(Frames) /\ Len(high) = 2 /\ high[1] = h /\ high[2] = i
      /\ all \in Seq(Frames) /\ Len(all) = 4
      /\ all[1] = f /\ all[2] = g /\ all[3] = h /\ all[4] = i
  OBVIOUS
<1> HIDE DEF low, high, all
<1>2. /\ both \in Seq(Frames) /\ Len(both) = 4
      /\ \A k \in 1 .. 4 : both[k] = IF k <= 2 THEN low[k] ELSE high[k - 2]
  <2>1. /\ both \in Seq(Frames) /\ Len(both) = Len(low) + Len(high)
        /\ \A k \in 1 .. Len(low) + Len(high) :
               both[k] = IF k <= Len(low) THEN low[k] ELSE high[k - Len(low)]
    BY <1>1, ConcatProperties
  <2> HIDE DEF both
  <2>2. Len(low) = 2 /\ Len(low) + Len(high) = 4
    BY <1>1
  <2> QED BY <2>1, <2>2
<1> HIDE DEF both
<1>3. \A k \in 1 .. 4 : k = 1 \/ k = 2 \/ k = 3 \/ k = 4
  OBVIOUS
<1>4. \A k \in 1 .. 4 : both[k] = all[k]
  BY <1>1, <1>2, <1>3
<1>5. both = all
  BY <1>1, <1>2, <1>4, SeqEqual
<1> QED BY <1>5 DEF both, low, high, all

LEMMA AtOpened ==
    ASSUME Stepping, NEW pc \in Points
    PROVE  /\ At(pc) \in Frames /\ At(pc).fn = Top.fn /\ At(pc).pc = pc
           /\ OpenedBy(At(pc)) = Around(pc) /\ OpenedBy(Top) = Around(Top.pc)
<1>1. Top \in Frames
  BY Tops DEF Stepping, ParserInv, Typed
<1> QED BY <1>1, AtIs, OpenedByIs DEF Around

LEMMA CallPart ==
    ASSUME Stepping, NEW q, NEW pc \in Points, pc \notin {"start", "loop"}, NEW g \in Parts,
           Call(q, pc, <<g>>), Reaches(src, p, q), Needed \/ Unneeded,
           q.err.why = "none" => Balanced(p, q, Around(Top.pc), Around(pc))
    PROVE  ParserInv'
<1> DEFINE f == At(pc)
<1>1. /\ f \in Frames /\ f.fn = Top.fn /\ f.pc = pc /\ OpenedBy(f) = Around(pc)
      /\ OpenedBy(Top) = Around(Top.pc)
  BY AtOpened
<1>2. /\ g \in Frames /\ g.fn \in {"expr", "type", "var"} /\ g.pc \in {"prefix", "start"}
      /\ OpenedBy(g) = "none"
  BY PartIs
<1>3. stack' = Below \o <<f, g>>
  <2>1. Below \in Seq(Frames)
    BY Tops DEF Stepping, ParserInv, Typed
  <2> QED BY <1>1, <1>2, <2>1, JoinsTwo DEF Call
<1>4. p' = q /\ ret' = ret
  BY DEF Call
<1>5. Carries
  BY <1>4, CarriesOn
<1> HIDE DEF f
<1>6. Link(f, g) /\ TopReady(p', g)
  BY <1>1, <1>2 DEF Link, TopReady, Helpers
<1>7. Around(pc) = Inside(f, g)
  BY <1>1, <1>2 DEF Inside, Helpers
<1>8. f.fn \notin Helpers
  BY <1>1 DEF Stepping
<1> QED BY <1>1, <1>2, <1>3, <1>4, <1>5, <1>6, <1>7, <1>8, MoveTwo

\* Members are items, too.
LEMMA CallItem ==
    ASSUME Stepping, NEW q, NEW pc \in Points, pc \notin {"start", "element"},
           Call(q, pc, <<Item>>), Reaches(src, p, q), Needed \/ Unneeded,
           q.panic \/ q.current.type # "vsemi",
           q.err.why = "none" => Balanced(p, q, Around(Top.pc), Around(pc))
    PROVE  ParserInv'
<1> DEFINE f == At(pc)
<1>1. /\ f \in Frames /\ f.fn = Top.fn /\ f.pc = pc /\ OpenedBy(f) = Around(pc)
      /\ OpenedBy(Top) = Around(Top.pc)
  BY AtOpened
<1>2. Item \in Frames /\ Item.fn = "item" /\ Item.pc = "start" /\ OpenedBy(Item) = "none"
  BY BlockIs
<1>3. stack' = Below \o <<f, Item>>
  <2>1. Below \in Seq(Frames)
    BY Tops DEF Stepping, ParserInv, Typed
  <2> QED BY <1>1, <1>2, <2>1, JoinsTwo DEF Call
<1>4. p' = q /\ ret' = ret
  BY DEF Call
<1>5. Carries
  BY <1>4, CarriesOn
<1> HIDE DEF f
<1>6. Link(f, Item) /\ TopReady(p', Item)
  BY <1>1, <1>2, <1>4 DEF Link, TopReady, Helpers, Owners
<1>7. Around(pc) = Inside(f, Item)
  BY <1>1, <1>2 DEF Inside, Helpers
<1>8. f.fn \notin Helpers
  BY <1>1 DEF Stepping
<1> QED BY <1>1, <1>2, <1>3, <1>4, <1>5, <1>6, <1>7, <1>8, MoveTwo

LEMMA CallHelper ==
    ASSUME Stepping, NEW q, NEW pc \in Points, pc \notin {"start", "loop", "element"},
           NEW type \in TokenTypes \ Brackets,
           Call(q, pc, <<Expecting(type)>>), Reaches(src, p, q), Needed \/ Unneeded,
           q.err.why = "none" => Balanced(p, q, Around(Top.pc), "none")
    PROVE  ParserInv'
<1> DEFINE f == At(pc)
           g == Expecting(type)
<1>1. /\ f \in Frames /\ f.fn = Top.fn /\ f.pc = pc /\ OpenedBy(Top) = Around(Top.pc)
  BY AtOpened
<1>2. g \in Frames /\ g.fn = "expect" /\ g.pc = type /\ OpenedBy(g) = "none"
  BY HelperIs
<1>3. stack' = Below \o <<f, g>>
  <2>1. Below \in Seq(Frames)
    BY Tops DEF Stepping, ParserInv, Typed
  <2> QED BY <1>1, <1>2, <2>1, JoinsTwo DEF Call
<1>4. p' = q /\ ret' = ret
  BY DEF Call
<1>5. Carries
  BY <1>4, CarriesOn
<1>6. type \notin {"loop", "element"}
  BY HelperIs
<1> HIDE DEF f, g
<1>7. Link(f, g) /\ TopReady(p', g)
  BY <1>1, <1>2, <1>6 DEF Link, TopReady, Helpers
<1>8. "none" = Inside(f, g)
  BY <1>1, <1>2 DEF Inside, Helpers
<1>9. f.fn \notin Helpers
  BY <1>1 DEF Stepping
<1> QED BY <1>1, <1>2, <1>3, <1>4, <1>5, <1>7, <1>8, <1>9, MoveTwo

\* A block, whose brace is expected.
LEMMA CallBlock ==
    ASSUME Stepping, NEW q, NEW f \in Frames, f.fn \notin Helpers, f.pc \notin {"start", "loop", "element"},
           Top.fn \in Owners => f.fn \in Owners,
           \/ Call(q, f.pc, <<Block, Expecting("{")>>) /\ f = At(f.pc)
           \/ Become(q, <<f, Block, Expecting("{")>>),
           Reaches(src, p, q), Needed \/ Unneeded,
           q.err.why = "none" => Balanced(p, q, Around(Top.pc), "none")
    PROVE  ParserInv'
<1> DEFINE g == Expecting("{")
<1>1. OpenedBy(f) = "none" /\ OpenedBy(Top) = Around(Top.pc)
  BY OpenedByIs DEF Around
<1>2. /\ g \in Frames /\ g.fn = "expect" /\ g.pc = "{" /\ OpenedBy(g) = "none"
      /\ Block \in Frames /\ Block.fn = "block" /\ Block.pc = "loop"
  BY HelperIs, BlockIs, TokensUsed
<1>3. stack' = Below \o <<f, Block, g>>
  <2>1. Below \in Seq(Frames)
    BY Tops DEF Stepping, ParserInv, Typed
  <2>2. CASE Call(q, f.pc, <<Block, g>>) /\ f = At(f.pc)
    <3>1. stack' = Below \o <<f>> \o <<Block, g>>
      BY <2>2 DEF Call
    <3> HIDE DEF g
    <3> QED BY <1>2, <2>1, <3>1, JoinsThree
  <2>3. CASE Become(q, <<f, Block, g>>)
    BY <2>3 DEF Become
  <2> QED BY <2>2, <2>3
<1>4. p' = q /\ ret' = ret
  BY DEF Call, Become
<1>5. Carries
  BY <1>4, CarriesOn
<1> HIDE DEF g
<1>6. OpenerOf("block") = "{"
  BY DEF OpenerOf, Closer
<1>7. Link(f, Block) /\ Link(Block, g) /\ TopReady(p', g)
  BY <1>2, <1>6 DEF Link, TopReady, Helpers
<1>8. "none" = Inside(f, Block) /\ Inside(Block, g) = "none"
  BY <1>1, <1>2 DEF Inside, Helpers
<1> QED BY <1>1, <1>2, <1>3, <1>4, <1>5, <1>7, <1>8, MoveThree

LEMMA GoesTo ==
    ASSUME Stepping, NEW q, NEW pc \in Points, pc # "start", Goto(q, pc) \/ Skip(q, pc),
           Reaches(src, p, q), Needed \/ Unneeded,
           pc = "loop" => \/ q.panic
                          \/ q.previous.type \in ItemEnds \cup Openers \cup {","}
                          \/ q.current.type = Closer(Top.fn),
           q.err.why = "none" => Balanced(p, q, Around(Top.pc), Around(pc))
    PROVE  ParserInv'
<1> DEFINE f == At(pc)
<1>1. /\ f \in Frames /\ f.fn = Top.fn /\ f.pc = pc /\ OpenedBy(f) = Around(pc)
      /\ OpenedBy(Top) = Around(Top.pc)
  BY AtOpened
<1>2. stack' = Append(Below, f) /\ p' = q /\ (ret' = ret \/ ret' = Absent)
  BY DEF Goto, Skip
<1>3. Carries
  BY <1>2, CarriesOn
<1> HIDE DEF f
<1>4. TopReady(p', f)
  BY <1>1, <1>2 DEF TopReady
<1>5. f.fn \notin Helpers
  BY <1>1 DEF Stepping
<1> QED BY <1>1, <1>2, <1>3, <1>4, <1>5, MoveOne

LEMMA Returns ==
    ASSUME Stepping, NEW q, NEW value, Return(q, value),
           value \in {ret, Absent, "expr"} \/ (value = Null /\ q.panic),
           Reaches(src, p, q), Needed \/ Unneeded,
           Top.fn \in Owners => /\ q.panic \/ q.previous.type \in ItemEnds
                                /\ value = Null => q.current.type = "eof",
           q.err.why = "none" => Balanced(p, q, Around(Top.pc), "none")
    PROVE  ParserInv'
<1>1. p' = q /\ stack' = Below /\ ret' = value
  BY DEF Return
<1>2. Carries
  BY <1>1, CarriesOn
<1>3. OpenedBy(Top) = Around(Top.pc)
  BY OpenedByIs DEF Around
<1> QED BY <1>1, <1>2, <1>3, MoveNone

(***************************************************************************)
(* Every action keeps the invariant.  First the loop over items, and the   *)
(* helpers.                                                                *)
(***************************************************************************)
LEMMA PointsAre ==
    {"start", "prefix", "infix", "loop", "element", "part", "print", "end", "value", "built",
     "then", "else", "body", "condition", "first", "update", "type", "result",
     "named", "unnamed"} \subseteq Points
  BY DEF Points

LEMMA ItemStarts ==
    ASSUME ParserInv, ItemStart
    PROVE  ParserInv'
<1> DEFINE q == Advance(p)
           type == p.current.type
<1>1. Stepping /\ Top.fn = "item" /\ Top.pc = "start"
  <2>1. {"item"} \cap Helpers = {}
    BY DEF Helpers
  <2> QED BY <2>1, Runs DEF ItemStart, Running
<1>2. Unneeded /\ Around(Top.pc) = "none" /\ Around("end") = "none" /\ Around("print") = "none"
  BY <1>1 DEF ItemStart, Around
<1>3. {"end", "print", "loop"} \subseteq Points
  BY PointsAre
<1>4. Reaches(src, p, p) /\ Balanced(p, p, "none", "none")
  BY <1>1, StayOver
<1>5. type \notin Brackets => Reaches(src, p, q) /\ Balanced(p, q, "none", "none")
  BY <1>1, AdvanceOver
<1>6. AnyExpression \in Parts /\ Var \in Parts
  BY DEF Parts
<1> HIDE DEF q
<1>7. CASE type \in {"var", "const"}
  <2>1. Call(q, "end", <<Var>>)
    BY <1>7 DEF ItemStart, q
  <2>2. type \notin Brackets
    BY <1>7 DEF Brackets
  <2> HIDE DEF type
  <2> QED BY <1>1, <1>2, <1>3, <1>5, <1>6, <2>1, <2>2, CallPart
<1>8. CASE type = "return" /\ ~AtItemEnd(q)
  <2>1. Call(q, "end", <<AnyExpression>>)
    BY <1>8 DEF ItemStart, q
  <2>2. type \notin Brackets
    BY <1>8 DEF Brackets
  <2> HIDE DEF type
  <2> QED BY <1>1, <1>2, <1>3, <1>5, <1>6, <2>1, <2>2, CallPart
<1>9. CASE (type = "return" /\ AtItemEnd(q)) \/ type = "continue"
  <2>1. Skip(q, "end")
    BY <1>9 DEF ItemStart, q
  <2>2. type \notin Brackets
    BY <1>9 DEF Brackets
  <2> HIDE DEF type
  <2> QED BY <1>1, <1>2, <1>3, <1>5, <2>1, <2>2, GoesTo
<1>10. CASE type = "print"
  <2>1. Call(q, "print", <<AnyExpression>>)
    BY <1>10 DEF ItemStart, q
  <2>2. type \notin Brackets
    BY <1>10 DEF Brackets
  <2> HIDE DEF type
  <2> QED BY <1>1, <1>2, <1>3, <1>5, <1>6, <2>1, <2>2, CallPart
<1>11. CASE type = "extend"
  <2> DEFINE f == Frame("extend", "loop", 0)
             g == Expecting("{")
             h == Expecting("ident")
  <2>1. Become(q, <<f, g, h>>)
    BY <1>11 DEF ItemStart, q
  <2>2. type \notin Brackets
    BY <1>11 DEF Brackets
  <2>3. f \in Frames /\ f.fn = "extend" /\ f.pc = "loop"
    <3>1. "extend" \in Functions /\ 0 \in 0 .. PrimaryLevel
      BY DEF Functions, PrimaryLevel
    <3> QED BY <1>3, <3>1, FrameIs
  <2>4. /\ g \in Frames /\ g.fn = "expect" /\ g.pc = "{" /\ OpenedBy(g) = "none"
        /\ h \in Frames /\ h.fn = "expect" /\ h.pc = "ident" /\ OpenedBy(h) = "none"
    BY HelperIs, TokensUsed
  <2> HIDE DEF f, g, h, type
  <2>5. p' = q /\ stack' = Below \o <<f, g, h>> /\ ret' = ret
    BY <2>1 DEF Become
  <2>6. Carries
    BY <1>1, <1>2, <1>5, <2>2, <2>5, CarriesOn
  <2>7. Link(f, g) /\ Link(g, h) /\ TopReady(p', h)
    BY <2>3, <2>4 DEF Link, OpenerOf, Closer, TopReady, Helpers, Brackets
  <2>8. Inside(f, g) = "none" /\ Inside(g, h) = "none"
    BY <2>4 DEF Inside, Helpers
  <2>9. f.fn \notin Helpers /\ f.fn \in Owners
    BY <2>3 DEF Helpers, Owners
  <2>10. Balanced(p, p', OpenedBy(Top), "none")
    BY <1>2, <1>5, <2>2, <2>5, OpenedByIs DEF Around
  <2> QED BY <1>1, <2>3, <2>4, <2>5, <2>6, <2>7, <2>8, <2>9, <2>10, MoveThree
<1>12. CASE type = "interface"
  <2> DEFINE e == At("end")
             f == Frame("interface", "loop", 0)
             g == Expecting("{")
             h == Expecting("ident")
  <2>1. Call(q, "end", <<f, g, h>>)
    BY <1>12 DEF ItemStart, q
  <2>2. type \notin Brackets
    BY <1>12 DEF Brackets
  <2>3. f \in Frames /\ f.fn = "interface" /\ f.pc = "loop"
    <3>1. "interface" \in Functions /\ 0 \in 0 .. PrimaryLevel
      BY DEF Functions, PrimaryLevel
    <3> QED BY <1>3, <3>1, FrameIs
  <2>4. /\ g \in Frames /\ g.fn = "expect" /\ g.pc = "{" /\ OpenedBy(g) = "none"
        /\ h \in Frames /\ h.fn = "expect" /\ h.pc = "ident" /\ OpenedBy(h) = "none"
    BY HelperIs, TokensUsed
  <2>5. e \in Frames /\ e.fn = "item" /\ e.pc = "end" /\ OpenedBy(e) = "none"
        /\ OpenedBy(Top) = "none"
    BY <1>1, <1>2, <1>3, AtOpened
  <2>6. p' = q /\ stack' = Below \o <<e, f, g, h>> /\ ret' = ret
    <3>1. Below \in Seq(Frames)
      BY <1>1, Tops DEF Stepping, ParserInv, Typed
    <3>2. stack' = Below \o <<e>> \o <<f, g, h>> /\ p' = q /\ ret' = ret
      BY <2>1 DEF Call
    <3> HIDE DEF e, f, g, h
    <3>3. e \in Frames /\ f \in Frames /\ g \in Frames /\ h \in Frames
      BY <2>3, <2>4, <2>5
    <3>4. Below \o <<e>> \o <<f, g, h>> = Below \o <<e, f, g, h>>
      <4>1. \A a, b, c, d \in Frames : Below \o <<a>> \o <<b, c, d>> = Below \o <<a, b, c, d>>
        BY <3>1, JoinsFour
      <4> QED BY <3>3, <4>1, ZenonT(60)
    <3> QED BY <3>2, <3>4
  <2> HIDE DEF e, f, g, h, type
  <2>7. Carries
    BY <1>1, <1>2, <1>5, <2>2, <2>6, CarriesOn
  <2>8. Link(e, f) /\ Link(f, g) /\ Link(g, h) /\ TopReady(p', h)
    BY <2>3, <2>4, <2>5 DEF Link, OpenerOf, Closer, TopReady, Helpers, Brackets
  <2>9. Inside(e, f) = "none" /\ Inside(f, g) = "none" /\ Inside(g, h) = "none"
    BY <2>3, <2>4, <2>5 DEF Inside, Helpers
  <2>10. e.fn \notin Helpers /\ e.fn \in Owners
    BY <2>5 DEF Helpers, Owners
  <2>11. Balanced(p, p', OpenedBy(Top), Inside(e, f))
    BY <1>5, <2>2, <2>5, <2>6, <2>9
  <2> QED BY <1>1, <2>3, <2>4, <2>5, <2>6, <2>7, <2>8, <2>9, <2>10, <2>11, MoveFour
<1>13. CASE type \notin {"var", "const", "return", "continue", "print", "extend", "interface"}
  <2>1. Call(p, "end", <<AnyExpression>>)
    BY <1>13 DEF ItemStart
  <2> QED BY <1>1, <1>2, <1>3, <1>4, <1>6, <2>1, CallPart
<1> QED BY <1>7, <1>8, <1>9, <1>10, <1>11, <1>12, <1>13

LEMMA ItemGoesOn ==
    ASSUME ParserInv, PrintPart \/ ItemEnd \/ Members \/ ExtendEnd
    PROVE  ParserInv'
<1>1. {"print", "loop", "end"} \subseteq Points /\ AnyExpression \in Parts
  BY PointsAre DEF Parts
<1>2. CASE PrintPart
  <2>1. Stepping /\ Top.fn = "item" /\ Top.pc = "print"
    <3>1. {"item"} \cap Helpers = {}
      BY DEF Helpers
    <3>2. RunningOneOf({"item"}, "print") /\ UNCHANGED loop
      BY <1>2 DEF PrintPart, Running
    <3> QED BY <3>1, <3>2, Runs
  <2>2. Needed /\ Around(Top.pc) = "none" /\ Around("print") = "none"
    BY <1>2, <2>1 DEF PrintPart, Around
  <2>3. CASE Check(p, ",")
    <3>1. Call(Advance(p), "print", <<AnyExpression>>)
      BY <1>2, <2>3 DEF PrintPart
    <3>2. p.current.type \notin Brackets
      BY <2>3 DEF Check, Brackets
    <3>3. Reaches(src, p, Advance(p)) /\ Balanced(p, Advance(p), "none", "none")
      BY <2>1, <3>2, AdvanceOver
    <3> QED BY <1>1, <2>1, <2>2, <3>1, <3>3, CallPart
  <2>4. CASE ~Check(p, ",")
    <3>1. Return(ExpectItemEnd(p), "expr")
      BY <1>2, <2>4 DEF PrintPart
    <3> QED BY <2>1, <2>2, <3>1, ItemEndOver, Returns DEF Null
  <2> QED BY <2>3, <2>4
<1>3. CASE ItemEnd
  <2>1. Stepping /\ Top.pc = "end"
    <3>1. {"item", "extend"} \cap Helpers = {}
      BY DEF Helpers
    <3> QED BY <1>3, <3>1, Runs DEF ItemEnd
  <2>2. Needed /\ Around(Top.pc) = "none" /\ Return(ExpectItemEnd(p), "expr")
    BY <1>3, <2>1 DEF ItemEnd, Around
  <2> QED BY <2>1, <2>2, ItemEndOver, Returns DEF Null
<1>4. CASE Members
  <2>1. Stepping /\ Top.fn \in {"extend", "typebody"} /\ Top.pc = "loop"
    <3>1. {"extend", "typebody"} \cap Helpers = {}
      BY DEF Helpers
    <3> QED BY <1>4, <3>1, Runs DEF Members
  <2>2. Unneeded
    BY <1>4 DEF Members
  <2>3. CASE p.current.type \in MemberStarts
    <3>1. Call(p, "loop", <<Item>>)
      BY <1>4, <2>3 DEF Members
    <3>2. p.current.type # "vsemi"
      BY <2>3 DEF MemberStarts
    <3> QED BY <1>1, <2>1, <2>2, <3>1, <3>2, StayOver, CallItem
  <2>4. CASE p.current.type \notin MemberStarts
    <3> DEFINE q == Report(p, "unexpected")
    <3>1. Goto(q, "loop")
      BY <1>4, <2>4 DEF Members
    <3>2. "unexpected" \in Reasons \ {"none"}
      BY DEF Reasons
    <3>3. Reaches(src, p, q) /\ q.panic
      BY <2>1, <3>2, ReportReaches DEF Stepping, ParserInv, Placed, Typed
    <3>4. q.err.why # "none"
      BY <3>3, ErrorKept
    <3> HIDE DEF q
    <3> QED BY <1>1, <2>1, <2>2, <3>1, <3>3, <3>4, GoesTo
  <2> QED BY <2>3, <2>4
<1>5. CASE ExtendEnd
  <2> DEFINE q == Close(p, "}")
  <2>1. Stepping /\ Top.fn = "extend" /\ Top.pc = "loop"
    <3>1. {"extend"} \cap Helpers = {}
      BY DEF Helpers
    <3>2. RunningOneOf({"extend"}, "loop") /\ UNCHANGED loop
      BY <1>5 DEF ExtendEnd, Running
    <3> QED BY <3>1, <3>2, Runs
  <2>2. Unneeded /\ Around("end") = "none" /\ Closer(Top.fn) = "}" /\ LoopOver(p, "}")
    BY <1>5, <2>1 DEF ExtendEnd, Around, Closer
  <2>3. /\ Reaches(src, p, q) /\ (~Closed(p, "}") => q.panic /\ q.current.type = "eof")
        /\ q.err.why = "none" => Balanced(p, q, OpenedBy(Top), "none")
    BY <2>1, <2>2, CloseOver
  <2>4. OpenedBy(Top) = Around(Top.pc)
    BY OpenedByIs DEF Around
  <2> HIDE DEF q
  <2>5. CASE Closed(p, "}")
    <3>1. Goto(q, "end")
      BY <1>5, <2>5 DEF ExtendEnd, q
    <3> QED BY <1>1, <2>1, <2>2, <2>3, <2>4, <3>1, GoesTo
  <2>6. CASE ~Closed(p, "}")
    <3>1. Return(q, Null)
      BY <1>5, <2>6 DEF ExtendEnd, q
    <3> QED BY <2>1, <2>2, <2>3, <2>4, <2>6, <3>1, Returns
  <2> QED BY <2>5, <2>6
<1> QED BY <1>2, <1>3, <1>4, <1>5

LEMMA VarGoesOn ==
    ASSUME ParserInv, VarSteps
    PROVE  ParserInv'
<1>1. {"type", "value", "built"} \subseteq Points /\ {AnyExpression, Type} \subseteq Parts
  BY PointsAre DEF Parts
<1>2. {"var"} \cap Helpers = {} /\ \A pc \in {"start", "type", "value", "built"} : Around(pc) = "none"
  BY DEF Helpers, Around
<1>3. CASE VarStart
  <2>1. Stepping /\ Top.fn = "var" /\ Top.pc = "start"
    BY <1>2, <1>3, Runs DEF VarStart, Running
  <2>2. Unneeded /\ Call(p, "type", <<Expecting("ident")>>)
    BY <1>3 DEF VarStart
  <2>3. "ident" \in TokenTypes \ Brackets
    BY TokensUsed DEF Brackets
  <2> QED BY <1>1, <1>2, <2>1, <2>2, <2>3, StayOver, CallHelper
<1>4. CASE VarType
  <2>1. Stepping /\ Top.fn = "var" /\ Top.pc = "type" /\ Unneeded
    BY <1>2, <1>4, Runs DEF VarType, Running
  <2>2. CASE Check(p, ":")
    <3>1. Call(Advance(p), "value", <<Type>>) /\ p.current.type \notin Brackets
      BY <1>4, <2>2 DEF VarType, Check, Brackets
    <3>2. Reaches(src, p, Advance(p)) /\ Balanced(p, Advance(p), "none", "none")
      BY <2>1, <3>1, AdvanceOver
    <3> QED BY <1>1, <1>2, <2>1, <3>1, <3>2, CallPart
  <2>3. CASE ~Check(p, ":")
    <3>1. Goto(p, "value")
      BY <1>4, <2>3 DEF VarType
    <3> QED BY <1>1, <1>2, <2>1, <3>1, StayOver, GoesTo
  <2> QED BY <2>2, <2>3
<1>5. CASE VarValue
  <2>1. Stepping /\ Top.fn = "var" /\ Top.pc = "value" /\ Unneeded
    BY <1>2, <1>5, Runs DEF VarValue, Running
  <2>2. CASE Check(p, "=")
    <3>1. Call(Advance(p), "built", <<AnyExpression>>) /\ p.current.type \notin Brackets
      BY <1>5, <2>2 DEF VarValue, Check, Brackets
    <3>2. Reaches(src, p, Advance(p)) /\ Balanced(p, Advance(p), "none", "none")
      BY <2>1, <3>1, AdvanceOver
    <3> QED BY <1>1, <1>2, <2>1, <3>1, <3>2, CallPart
  <2>3. CASE ~Check(p, "=")
    <3>1. Return(p, Absent)
      BY <1>5, <2>3 DEF VarValue
    <3> QED BY <1>1, <1>2, <2>1, <3>1, StayOver, Returns DEF Owners
  <2> QED BY <2>2, <2>3
<1>6. CASE VarBuilt
  <2>1. Stepping /\ Top.fn = "var" /\ Top.pc = "built" /\ Needed
    BY <1>2, <1>6, Runs DEF VarBuilt, Running
  <2>2. PICK value \in {Absent, "expr"} : Return(p, value)
    BY <1>6 DEF VarBuilt
  <2> QED BY <1>1, <1>2, <2>1, <2>2, StayOver, Returns DEF Owners
<1> QED BY <1>3, <1>4, <1>5, <1>6 DEF VarSteps

(***************************************************************************)
(* Types.                                                                  *)
(***************************************************************************)
\* A loop whose opening bracket is expected takes the place of the function.
LEMMA BecomeLoop ==
    ASSUME Stepping, NEW q, NEW f \in Frames, f.pc = "loop", f.fn \notin Helpers, Top.fn \notin Owners,
           Become(q, <<f, Expecting(OpenerOf(f.fn))>>), Reaches(src, p, q), Needed \/ Unneeded,
           q.err.why = "none" => Balanced(p, q, Around(Top.pc), "none")
    PROVE  ParserInv'
<1> DEFINE g == Expecting(OpenerOf(f.fn))
<1>1. OpenerOf(f.fn) \in TokenTypes /\ OpenerOf(f.fn) \notin {"loop", "element"}
  BY TokensUsed DEF OpenerOf
<1>2. g \in Frames /\ g.fn = "expect" /\ g.pc = OpenerOf(f.fn) /\ OpenedBy(g) = "none"
  BY <1>1, HelperIs
<1>3. p' = q /\ stack' = Below \o <<f, g>> /\ ret' = ret
  BY DEF Become
<1>4. Carries
  BY <1>3, CarriesOn
<1> HIDE DEF g
<1>5. Link(f, g) /\ TopReady(p', g)
  BY <1>1, <1>2 DEF Link, TopReady, Helpers
<1>6. Inside(f, g) = "none" /\ OpenedBy(Top) = Around(Top.pc)
  BY <1>2, OpenedByIs DEF Inside, Helpers, Around
<1> QED BY <1>2, <1>3, <1>4, <1>5, <1>6, MoveTwo

LEMMA BecomePart ==
    ASSUME Stepping, NEW q, NEW g \in Parts, Top.fn \notin Owners,
           Become(q, <<g>>), Reaches(src, p, q), Needed \/ Unneeded,
           q.err.why = "none" => Balanced(p, q, Around(Top.pc), "none")
    PROVE  ParserInv'
<1>1. /\ g \in Frames /\ g.fn \in {"expr", "type", "var"} /\ g.pc \in {"prefix", "start"}
      /\ OpenedBy(g) = "none"
  BY PartIs
<1>2. p' = q /\ stack' = Append(Below, g) /\ ret' = ret
  <2>1. Below \in Seq(Frames)
    BY Tops DEF Stepping, ParserInv, Typed
  <2> QED BY <1>1, <2>1, AppendIsConcat DEF Become
<1>3. Carries
  BY <1>2, CarriesOn
<1>4. g.fn \notin Helpers /\ TopReady(p', g) /\ OpenedBy(Top) = Around(Top.pc)
  BY <1>1, OpenedByIs DEF Helpers, TopReady, Around
<1> QED BY <1>1, <1>2, <1>3, <1>4, MoveOne

\* The end of a loop after which there is something left to parse.
LEMMA LoopLeft ==
    ASSUME Stepping, Top.pc = "loop", LoopOver(p, Closer(Top.fn)), Needed \/ Unneeded,
           NEW pc \in Points, pc \notin {"start", "loop", "element"},
           IF Closed(p, Closer(Top.fn)) THEN Goto(Close(p, Closer(Top.fn)), pc)
           ELSE Return(Close(p, Closer(Top.fn)), Null)
    PROVE  ParserInv'
<1> DEFINE q == Close(p, Closer(Top.fn))
<1>1. /\ Reaches(src, p, q) /\ (~Closed(p, Closer(Top.fn)) => q.panic /\ q.current.type = "eof")
      /\ q.err.why = "none" => Balanced(p, q, OpenedBy(Top), "none")
  BY CloseOver
<1>2. OpenedBy(Top) = Around(Top.pc) /\ Around(pc) = "none"
  BY OpenedByIs DEF Around
<1> HIDE DEF q
<1>3. CASE Closed(p, Closer(Top.fn))
  <2>1. Goto(q, pc)
    BY <1>3 DEF q
  <2> QED BY <1>1, <1>2, <2>1, GoesTo
<1>4. CASE ~Closed(p, Closer(Top.fn))
  <2>1. Return(q, Null)
    BY <1>4 DEF q
  <2> QED BY <1>1, <1>2, <1>4, <2>1, Returns
<1> QED BY <1>3, <1>4

LEMMA TypeStarts ==
    ASSUME ParserInv, TypeStart
    PROVE  ParserInv'
<1> DEFINE q == Advance(p)
<1>1. Stepping /\ Top.fn = "type" /\ Top.pc = "start" /\ Unneeded
  <2>1. {"type"} \cap Helpers = {}
    BY DEF Helpers
  <2>2. RunningOneOf({"type"}, "start") /\ UNCHANGED loop /\ Unneeded
    BY DEF TypeStart, Running
  <2> QED BY <2>1, <2>2, Runs
<1>2. Around(Top.pc) = "none" /\ Top.fn \notin Owners
  BY <1>1 DEF Around, Owners
<1>3. p.current.type \notin Brackets => Reaches(src, p, q) /\ Balanced(p, q, "none", "none")
  BY <1>1, AdvanceOver
<1>4. {"fntype", "interface"} \subseteq Functions /\ "loop" \in Points /\ 0 \in 0 .. PrimaryLevel
  BY DEF Functions, Points, PrimaryLevel
<1> HIDE DEF q
<1>5. CASE Check(p, "fn")
  <2> DEFINE f == Frame("fntype", "loop", 0)
  <2>1. Become(q, <<f, Expecting("(")>>) /\ p.current.type \notin Brackets
    BY <1>5 DEF TypeStart, q, Check, Brackets
  <2>2. f \in Frames /\ f.fn = "fntype" /\ f.pc = "loop"
    BY <1>4, FrameIs
  <2> HIDE DEF f
  <2>3. OpenerOf(f.fn) = "(" /\ f.fn \notin Helpers
    BY <2>2 DEF OpenerOf, Closer, Helpers
  <2> QED BY <1>1, <1>2, <1>3, <2>1, <2>2, <2>3, BecomeLoop
<1>6. CASE Check(p, "interface")
  <2> DEFINE f == Frame("interface", "loop", 0)
  <2>1. Become(q, <<f, Expecting("{")>>) /\ p.current.type \notin Brackets
    BY <1>6 DEF TypeStart, q, Check, Brackets
  <2>2. f \in Frames /\ f.fn = "interface" /\ f.pc = "loop"
    BY <1>4, FrameIs
  <2> HIDE DEF f
  <2>3. OpenerOf(f.fn) = "{" /\ f.fn \notin Helpers
    BY <2>2 DEF OpenerOf, Closer, Helpers
  <2> QED BY <1>1, <1>2, <1>3, <2>1, <2>2, <2>3, BecomeLoop
<1>7. CASE p.current.type \in {"type", "any"}
  <2>1. Return(q, "expr") /\ p.current.type \notin Brackets
    BY <1>7 DEF TypeStart, q, Check, Brackets
  <2> QED BY <1>1, <1>2, <1>3, <2>1, Returns
<1>8. CASE p.current.type \notin {"fn", "interface", "type", "any"}
  <2> DEFINE r == Expect(p, "ident")
  <2>1. Return(r, "expr")
    BY <1>8 DEF TypeStart, Check
  <2>2. Reaches(src, p, r) /\ (r.err.why = "none" => Balanced(p, r, "none", "none"))
    BY <1>1, ExpectOver DEF Brackets
  <2> HIDE DEF r
  <2> QED BY <1>1, <1>2, <2>1, <2>2, Returns
<1> QED BY <1>5, <1>6, <1>7, <1>8 DEF Check

LEMMA TypeGoesOn ==
    ASSUME ParserInv,
           FnTypeParam \/ FnTypeParamEnd \/ FnTypeEnd \/ FnTypeResult
               \/ InterfaceMember \/ InterfaceMemberEnd
    PROVE  ParserInv'
<1>1. {"loop", "element", "result"} \subseteq Points /\ {Type, Var} \subseteq Parts
  BY PointsAre DEF Parts
<1>2. {"fntype"} \cap Helpers = {} /\ {"interface"} \cap Helpers = {}
      /\ {"fntype", "interface"} \cap Owners = {}
  BY DEF Helpers, Owners
<1>3. /\ Closer("fntype") = ")" /\ Closer("interface") = "}"
      /\ Around("loop") = Around("element") /\ Around("result") = "none"
  BY DEF Closer, Around
<1>4. CASE FnTypeParam
  <2>1. Stepping /\ Top.fn = "fntype" /\ Top.pc = "loop"
    <3>1. RunningOneOf({"fntype"}, "loop") /\ UNCHANGED loop
      BY <1>4 DEF FnTypeParam, Running
    <3> QED BY <1>2, <3>1, Runs
  <2>2. Unneeded /\ Call(p, "element", <<Type>>)
    BY <1>4 DEF FnTypeParam
  <2> QED BY <1>1, <1>3, <2>1, <2>2, StayOver, CallPart
<1>5. CASE FnTypeParamEnd
  <2> DEFINE q == Separator(p, ")")
  <2>1. Stepping /\ Top.fn = "fntype" /\ Top.pc = "element"
    <3>1. RunningOneOf({"fntype"}, "element") /\ UNCHANGED loop
      BY <1>5 DEF FnTypeParamEnd, Running
    <3> QED BY <1>2, <3>1, Runs
  <2>2. Unneeded /\ Goto(q, "loop")
    BY <1>5 DEF FnTypeParamEnd
  <2>3. /\ Reaches(src, p, q) /\ (q.panic \/ q.previous.type = "," \/ q.current.type = ")")
        /\ q.err.why = "none" => \A b : Balanced(p, q, b, b)
    BY <2>1, SeparatorOver
  <2> HIDE DEF q
  <2> QED BY <1>1, <1>3, <2>1, <2>2, <2>3, GoesTo
<1>6. CASE FnTypeEnd
  <2>1. Stepping /\ Top.fn = "fntype" /\ Top.pc = "loop"
    <3>1. RunningOneOf({"fntype"}, "loop") /\ UNCHANGED loop
      BY <1>6 DEF FnTypeEnd, Running
    <3> QED BY <1>2, <3>1, Runs
  <2>2. /\ Unneeded /\ LoopOver(p, Closer(Top.fn))
        /\ IF Closed(p, Closer(Top.fn)) THEN Goto(Close(p, Closer(Top.fn)), "result")
           ELSE Return(Close(p, Closer(Top.fn)), Null)
    BY <1>3, <1>6, <2>1 DEF FnTypeEnd
  <2> QED BY <1>1, <2>1, <2>2, LoopLeft
<1>7. CASE FnTypeResult
  <2>1. Stepping /\ Top.fn = "fntype" /\ Top.pc = "result" /\ Unneeded
    <3>1. RunningOneOf({"fntype"}, "result") /\ UNCHANGED loop /\ Unneeded
      BY <1>7 DEF FnTypeResult, Running
    <3> QED BY <1>2, <3>1, Runs
  <2>2. CASE Check(p, "->")
    <3>1. Become(Advance(p), <<Type>>) /\ p.current.type \notin Brackets
      BY <1>7, <2>2 DEF FnTypeResult, Check, Brackets
    <3>2. Reaches(src, p, Advance(p)) /\ Balanced(p, Advance(p), "none", "none")
      BY <2>1, <3>1, AdvanceOver
    <3> QED BY <1>1, <1>2, <1>3, <2>1, <3>1, <3>2, BecomePart
  <2>3. CASE ~Check(p, "->")
    <3>1. Return(p, "expr")
      BY <1>7, <2>3 DEF FnTypeResult
    <3> QED BY <1>2, <1>3, <2>1, <3>1, StayOver, Returns
  <2> QED BY <2>2, <2>3
<1>8. CASE InterfaceMember
  <2>1. Stepping /\ Top.fn = "interface" /\ Top.pc = "loop" /\ Unneeded
    <3>1. RunningOneOf({"interface"}, "loop") /\ UNCHANGED loop /\ Unneeded
      BY <1>8 DEF InterfaceMember, Running
    <3> QED BY <1>2, <3>1, Runs
  <2>2. CASE p.current.type \in {"var", "const"}
    <3>1. Call(Advance(p), "element", <<Var>>) /\ p.current.type \notin Brackets
      BY <1>8, <2>2 DEF InterfaceMember, Brackets
    <3>2. Reaches(src, p, Advance(p)) /\ \A b : Balanced(p, Advance(p), b, b)
      BY <2>1, <3>1, AdvanceOver
    <3> QED BY <1>1, <1>3, <2>1, <3>1, <3>2, CallPart
  <2>3. CASE p.current.type \notin {"var", "const"}
    <3> DEFINE q == Report(p, "expected")
    <3>1. Return(q, Null)
      BY <1>8, <2>3 DEF InterfaceMember
    <3>2. "expected" \in Reasons \ {"none"}
      BY DEF Reasons
    <3>3. Reaches(src, p, q) /\ q.panic
      BY <2>1, <3>2, ReportReaches DEF Stepping, ParserInv, Placed, Typed
    <3>4. q.err.why # "none"
      BY <3>3, ErrorKept
    <3> HIDE DEF q
    <3> QED BY <1>2, <2>1, <3>1, <3>3, <3>4, Returns
  <2> QED BY <2>2, <2>3
<1>9. CASE InterfaceMemberEnd
  <2> DEFINE r == ExpectItemEnd(p)
             q == IF ret = Absent THEN r ELSE Report(r, "value")
  <2>1. Stepping /\ Top.fn = "interface" /\ Top.pc = "element"
    <3>1. RunningOneOf({"interface"}, "element") /\ UNCHANGED loop
      BY <1>9 DEF InterfaceMemberEnd, Running
    <3> QED BY <1>2, <3>1, Runs
  <2>2. Unneeded /\ Goto(q, "loop")
    BY <1>9 DEF InterfaceMemberEnd
  <2>3. /\ Reaches(src, p, r) /\ (r.panic \/ r.previous.type \in ItemEnds)
        /\ r.err.why = "none" => \A b : Balanced(p, r, b, b)
    BY <2>1, ItemEndOver
  <2>4. "value" \in Reasons \ {"none"} /\ src \in Seq(Lexemes)
    BY <2>1 DEF Reasons, Stepping, ParserInv, Typed
  <2> HIDE DEF r
  <2>5. LET t == Report(r, "value") IN Reaches(src, p, t) /\ t.panic /\ t.err.why # "none"
    BY <2>3, <2>4, ReportedReaches
  <2>6. /\ Reaches(src, p, q) /\ (q.panic \/ q.previous.type \in ItemEnds)
        /\ q.err.why = "none" => \A b : Balanced(p, q, b, b)
    BY <2>3, <2>5
  <2> HIDE DEF q
  <2> QED BY <1>1, <1>3, <2>1, <2>2, <2>6, GoesTo
<1> QED BY <1>4, <1>5, <1>6, <1>7, <1>8, <1>9

(***************************************************************************)
(* Expressions.                                                            *)
(***************************************************************************)
\* A function is called that stays at its beginning or in a loop whose opening bracket was
\* just consumed.
LEMMA CallInner ==
    ASSUME Stepping, NEW q, NEW pc \in Points, pc \notin {"start", "loop", "element"},
           NEW g \in Frames, g.fn \notin Helpers \cup Owners, Call(q, pc, <<g>>), Reaches(src, p, q),
           Needed \/ Unneeded, g.pc = "loop" => q.previous.type \in Openers,
           q.err.why = "none" => Balanced(p, q, Around(Top.pc), OpenedBy(g))
    PROVE  ParserInv'
<1> DEFINE f == At(pc)
<1>1. /\ f \in Frames /\ f.fn = Top.fn /\ f.pc = pc /\ OpenedBy(f) = "none"
      /\ OpenedBy(Top) = Around(Top.pc)
  BY AtOpened DEF Around
<1>2. stack' = Below \o <<f, g>>
  <2>1. Below \in Seq(Frames)
    BY Tops DEF Stepping, ParserInv, Typed
  <2> QED BY <1>1, <2>1, JoinsTwo DEF Call
<1>3. p' = q /\ ret' = ret
  BY DEF Call
<1>4. Carries
  BY <1>3, CarriesOn
<1> HIDE DEF f
<1>5. Link(f, g) /\ TopReady(p', g)
  BY <1>1, <1>3 DEF Link, TopReady, Helpers, Owners
<1>6. Inside(f, g) = "none"
  BY <1>1 DEF Inside
<1>7. f.fn \notin Helpers
  BY <1>1 DEF Stepping
<1> QED BY <1>1, <1>2, <1>3, <1>4, <1>5, <1>6, <1>7, MoveTwo

\* A function is called that has called another one.
LEMMA CallInnerPart ==
    ASSUME Stepping, NEW q, NEW pc \in Points, pc \notin {"start", "loop", "element"},
           NEW g \in Frames, g.fn \notin Helpers \cup Owners, g.pc \notin {"start", "loop"},
           NEW h \in Frames, h.fn \notin Helpers \cup Owners, h.pc \notin {"loop", "element"},
           Call(q, pc, <<g, h>>), Reaches(src, p, q), Needed \/ Unneeded,
           q.err.why = "none" => Balanced(p, q, Around(Top.pc), OpenedBy(g))
    PROVE  ParserInv'
<1> DEFINE f == At(pc)
<1>1. /\ f \in Frames /\ f.fn = Top.fn /\ f.pc = pc /\ OpenedBy(f) = "none"
      /\ OpenedBy(Top) = Around(Top.pc)
  BY AtOpened DEF Around
<1>2. stack' = Below \o <<f, g, h>>
  <2>1. Below \in Seq(Frames)
    BY Tops DEF Stepping, ParserInv, Typed
  <2>2. stack' = Below \o <<f>> \o <<g, h>>
    BY DEF Call
  <2> HIDE DEF f
  <2>3. Below \o <<f>> \o <<g, h>> = Below \o <<f, g, h>>
    BY <1>1, <2>1, JoinsThree
  <2> QED BY <2>2, <2>3
<1>3. p' = q /\ ret' = ret
  BY DEF Call
<1>4. Carries
  BY <1>3, CarriesOn
<1> HIDE DEF f
<1>5. Link(f, g) /\ Link(g, h) /\ TopReady(p', h)
  BY <1>1 DEF Link, TopReady, Helpers, Owners
<1>6. Inside(f, g) = "none" /\ Inside(g, h) = OpenedBy(g) /\ OpenedBy(h) = "none"
  BY <1>1, OpenedByIs DEF Inside
<1>7. f.fn \notin Helpers
  BY <1>1 DEF Stepping
<1> QED BY <1>1, <1>2, <1>3, <1>4, <1>5, <1>6, <1>7, MoveThree

LEMMA ExpressionIs ==
    ASSUME NEW level \in 0 .. PrimaryLevel
    PROVE  /\ Expression(level) \in Frames /\ Expression(level).fn = "expr"
           /\ Expression(level).pc = "prefix"
  BY FrameIs DEF Expression, Functions, Points

\* The operand of an operator.
LEMMA CallOperand ==
    ASSUME Stepping, NEW level \in 0 .. PrimaryLevel, p.current.type \notin Brackets,
           Top.pc \in {"prefix", "infix"},
           Call(Advance(p), "infix", <<Build1, Expression(level)>>), Needed \/ Unneeded
    PROVE  ParserInv'
<1> DEFINE g == Build1
           h == Expression(level)
           q == Advance(p)
<1>1. /\ g \in Frames /\ g.fn = "build" /\ g.pc = "part" /\ OpenedBy(g) = "none"
      /\ h \in Frames /\ h.fn = "expr" /\ h.pc = "prefix"
  BY BlockIs, ExpressionIs
<1>2. Reaches(src, p, q) /\ Balanced(p, q, "none", "none")
  BY AdvanceOver
<1>3. Around(Top.pc) = "none" /\ "infix" \in Points
  BY DEF Around, Points
<1>4. Call(q, "infix", <<g, h>>)
  OBVIOUS
<1> HIDE DEF g, h, q
<1>5. g.fn \notin Helpers \cup Owners /\ h.fn \notin Helpers \cup Owners
  BY <1>1 DEF Helpers, Owners
<1> QED BY <1>1, <1>2, <1>3, <1>4, <1>5, CallInnerPart

\* A list, a block or the arguments of a call begin with their bracket.
LEMMA CallOpened ==
    ASSUME Stepping, NEW g \in Frames, g.fn \notin Helpers \cup Owners, g.pc = "loop",
           p.current.type \in Openers, OpenerOf(g.fn) = p.current.type,
           Top.pc \in {"prefix", "infix"}, Call(Advance(p), "infix", <<g>>), Needed \/ Unneeded
    PROVE  ParserInv'
<1> DEFINE q == Advance(p)
<1>1. /\ Reaches(src, p, q) /\ Advances(p, q) /\ Balanced(p, q, "none", p.current.type)
  BY AdvanceInto
<1>2. Around(Top.pc) = "none" /\ OpenedBy(g) = p.current.type /\ "infix" \in Points
  BY OpenedByIs DEF Around, Points
<1>3. q.previous.type \in Openers
  BY <1>1 DEF Advances
<1> HIDE DEF q
<1> QED BY <1>1, <1>2, <1>3, CallInner DEF q

LEMMA PrefixConstructs ==
    ASSUME ParserInv, PrefixConstruct
    PROVE  ParserInv'
<1> DEFINE type == p.current.type
           q == Advance(p)
<1>1. Stepping /\ Top.fn = "expr" /\ Top.pc = "prefix" /\ Unneeded
  <2>1. {"expr"} \cap Helpers = {}
    BY DEF Helpers
  <2>2. RunningOneOf({"expr"}, "prefix") /\ UNCHANGED loop /\ Unneeded
    BY DEF PrefixConstruct, Running
  <2> QED BY <2>1, <2>2, Runs
<1>2. Around(Top.pc) = "none" /\ {"infix", "start", "then", "body", "loop", "element"} \subseteq Points
  BY <1>1, PointsAre DEF Around
<1>3. Call(q, "infix", Construct(type)) /\ Construct(type) # << >>
  BY DEF PrefixConstruct
<1>4. type \notin Brackets => Reaches(src, p, q) /\ Balanced(p, q, "none", "none")
  BY <1>1, AdvanceOver
<1>5. 0 \in 0 .. PrimaryLevel /\ UnaryLevel \in 0 .. PrimaryLevel
  BY DEF PrimaryLevel, UnaryLevel
<1>6. AnyExpression \in Frames /\ AnyExpression.fn = "expr" /\ AnyExpression.pc = "prefix"
  <2>1. AssignmentLevel \in 0 .. PrimaryLevel
    BY DEF AssignmentLevel, PrimaryLevel
  <2> QED BY <2>1, ExpressionIs DEF AnyExpression
<1>7. "expr" \notin Helpers \cup Owners
  BY DEF Helpers, Owners
<1> HIDE DEF q
<1>8. CASE type = "("
  <2> DEFINE g == Frame("grouping", "element", 0)
  <2>1. Call(q, "infix", <<g, AnyExpression>>)
    BY <1>3, <1>8 DEF Construct
  <2>2. g \in Frames /\ g.fn = "grouping" /\ g.pc = "element"
    BY <1>2, <1>5, FrameIs DEF Functions
  <2> HIDE DEF g
  <2>3. OpenedBy(g) = "(" /\ g.fn \notin Helpers \cup Owners
    BY <2>2, OpenedByIs DEF OpenerOf, Closer, Helpers, Owners
  <2>4. Reaches(src, p, q) /\ Balanced(p, q, "none", "(")
    BY <1>1, <1>8, AdvanceInto DEF q, Openers
  <2> HIDE DEF type
  <2> QED BY <1>1, <1>2, <1>6, <1>7, <2>1, <2>2, <2>3, <2>4, CallInnerPart
<1>9. CASE type = "["
  <2> DEFINE g == Frame("list", "loop", 0)
  <2>1. Call(Advance(p), "infix", <<g>>)
    BY <1>3, <1>9 DEF Construct, q
  <2>2. g \in Frames /\ g.fn = "list" /\ g.pc = "loop"
    BY <1>2, <1>5, FrameIs DEF Functions
  <2> HIDE DEF g
  <2>3. OpenerOf(g.fn) = p.current.type /\ g.fn \notin Helpers \cup Owners
        /\ p.current.type \in Openers
    BY <1>9, <2>2 DEF OpenerOf, Closer, Helpers, Owners, Openers
  <2> QED BY <1>1, <2>1, <2>2, <2>3, CallOpened
<1>10. CASE type = "{"
  <2>1. Call(Advance(p), "infix", <<Block>>)
    BY <1>3, <1>10 DEF Construct, q
  <2>2. Block \in Frames /\ Block.fn = "block" /\ Block.pc = "loop"
    BY BlockIs
  <2>3. OpenerOf(Block.fn) = p.current.type /\ Block.fn \notin Helpers \cup Owners
        /\ p.current.type \in Openers
    BY <1>10, <2>2 DEF OpenerOf, Closer, Helpers, Owners, Openers
  <2> QED BY <1>1, <2>1, <2>2, <2>3, CallOpened
<1>11. CASE type \in {"prefix", "+"}
  <2>1. Call(Advance(p), "infix", <<Build1, Expression(UnaryLevel)>>)
    BY <1>3, <1>11 DEF Construct, q
  <2>2. p.current.type \notin Brackets
    BY <1>11 DEF Brackets
  <2> QED BY <1>1, <1>5, <2>1, <2>2, CallOperand
<1>12. CASE type \in {"if", "while"}
  <2> DEFINE g == IF type = "if" THEN Frame("if", "then", 0) ELSE Frame("while", "body", 0)
  <2>1. Call(q, "infix", <<g, AnyExpression>>) /\ type \notin Brackets
    BY <1>3, <1>12 DEF Construct, Brackets
  <2>2. g \in Frames /\ g.fn \in {"if", "while"} /\ g.pc \in {"then", "body"}
    BY <1>2, <1>5, FrameIs DEF Functions
  <2> HIDE DEF g, type
  <2>3. OpenedBy(g) = "none" /\ g.fn \notin Helpers \cup Owners
    BY <2>2, OpenedByIs DEF Helpers, Owners
  <2> QED BY <1>1, <1>2, <1>4, <1>6, <1>7, <2>1, <2>2, <2>3, CallInnerPart
<1>13. CASE type \in {"do", "for", "fn", "type"}
  <2>1. PICK fn \in {"do", "for", "fn", "typetoken"} : Construct(type) = <<Frame(fn, "start", 0)>>
    BY <1>13 DEF Construct
  <2> DEFINE g == Frame(fn, "start", 0)
  <2>2. Call(q, "infix", <<g>>)
    BY <1>3, <2>1
  <2>3. type \notin Brackets
    BY <1>13 DEF Brackets
  <2>4. g \in Frames /\ g.fn = fn /\ g.pc = "start"
    BY <1>2, <1>5, FrameIs DEF Functions
  <2> HIDE DEF g, type
  <2>5. OpenedBy(g) = "none" /\ g.fn \notin Helpers \cup Owners
    BY <2>4, OpenedByIs DEF Helpers, Owners
  <2> QED BY <1>1, <1>2, <1>4, <2>2, <2>3, <2>4, <2>5, CallInner
<1> QED BY <1>3, <1>8, <1>9, <1>10, <1>11, <1>12, <1>13 DEF Construct

LEMMA PrefixEnds ==
    ASSUME ParserInv, PrefixValue \/ PrefixMissing
    PROVE  ParserInv'
<1> DEFINE q == Advance(p)
<1>1. Stepping /\ Top.fn = "expr" /\ Top.pc = "prefix" /\ Unneeded
  <2>1. {"expr"} \cap Helpers = {}
    BY DEF Helpers
  <2>2. RunningOneOf({"expr"}, "prefix") /\ UNCHANGED loop /\ Unneeded
    BY DEF PrefixValue, PrefixMissing, Running
  <2> QED BY <2>1, <2>2, Runs
<1>2. Around(Top.pc) = "none" /\ "infix" \in Points
  BY <1>1, PointsAre DEF Around
<1>3. CASE PrefixValue
  <2> DEFINE f == At("infix")
  <2>1. /\ p.current.type \in Values /\ p' = q /\ stack' = Append(Below, f)
        /\ ret' = ValueOf(p.current.type)
    BY <1>3 DEF PrefixValue
  <2>2. p.current.type \notin Brackets
    BY <2>1 DEF Values, Brackets
  <2>3. Reaches(src, p, q) /\ Balanced(p, q, "none", "none")
    BY <1>1, <2>2, AdvanceOver
  <2>4. Advances(p, q)
    BY <1>1, AdvanceReaches DEF Stepping, ParserInv, Typed, Placed
  <2>5. ret' \in {Absent, "expr", "ident"} \/ (ret' = Null /\ p.current.type = "nan")
    BY <2>1 DEF ValueOf
  <2>6. Carries
    BY <1>1, <2>1, <2>3, <2>4, <2>5, CarriesOn
  <2>7. /\ f \in Frames /\ f.fn = "expr" /\ f.pc = "infix" /\ OpenedBy(f) = "none"
        /\ OpenedBy(Top) = "none"
    BY <1>1, <1>2, AtOpened DEF Around
  <2> HIDE DEF f, q
  <2>8. f.fn \notin Helpers /\ Top.fn \notin Owners /\ TopReady(p', f)
    BY <1>1, <2>7 DEF Helpers, Owners, TopReady
  <2> QED BY <1>1, <2>1, <2>3, <2>6, <2>7, <2>8, MoveOne
<1>4. CASE PrefixMissing
  <2> DEFINE r == Report(q, "expression")
  <2>1. Return(r, Null)
    BY <1>4 DEF PrefixMissing
  <2>2. "expression" \in Reasons \ {"none"} /\ src \in Seq(Lexemes)
    BY <1>1 DEF Reasons, Stepping, ParserInv, Typed
  <2>3. Reaches(src, p, q)
    BY <1>1, AdvanceReaches DEF Stepping, ParserInv, Typed, Placed
  <2>4. Reaches(src, p, r) /\ r.panic /\ r.err.why # "none"
    BY <2>2, <2>3, ReportedReaches
  <2>5. Top.fn \notin Owners
    BY <1>1 DEF Owners
  <2> HIDE DEF r
  <2> QED BY <1>1, <1>2, <2>1, <2>4, <2>5, Returns
<1> QED BY <1>3, <1>4

LEMMA LevelsAre ==
    ASSUME NEW type \in Binary \cup {"="}
    PROVE  /\ Precedence(type) \in 0 .. PrimaryLevel
           /\ type # "=" => Precedence(type) + 1 \in 0 .. PrimaryLevel
           /\ type \notin Brackets
<1>1. CASE type = "="
  <2>1. Precedence(type) = 1
    BY <1>1, BinaryIs DEF Precedence, AssignmentLevel
  <2>2. 1 \in 0 .. PrimaryLevel /\ type \notin Brackets
    BY <1>1 DEF PrimaryLevel, Brackets
  <2> QED BY <1>1, <2>1, <2>2
<1>2. CASE type \in Binary
  <2>1. type \in {"||", "&&", "|", "^", "&", "==", "<", "<<", "+", "*"}
    BY <1>2, BinaryIs
  <2>2. Len(BinaryOperators) = 10
    BY DEF BinaryOperators
  <2>3. \E i \in 1 .. 10 : BinaryOperators[i] = type
    BY <1>2, <2>2 DEF Binary
  <2> DEFINE n == CHOOSE i \in 1 .. Len(BinaryOperators) : BinaryOperators[i] = type
  <2>4. n \in 1 .. 10
    BY <2>2, <2>3
  <2>5. Precedence(type) = 1 + n
    BY <1>2, <2>1 DEF Precedence
  <2> HIDE DEF n
  <2>6. Precedence(type) \in 0 .. 13 /\ Precedence(type) + 1 \in 0 .. 13
    BY <2>4, <2>5
  <2> QED BY <2>1, <2>6 DEF PrimaryLevel, Brackets
<1> QED BY <1>1, <1>2

LEMMA InfixGoesOn ==
    ASSUME ParserInv, InfixEnd \/ InfixOperand \/ InfixCompound \/ InfixCall \/ InfixMember
    PROVE  ParserInv'
<1> DEFINE q == Advance(p)
<1>1. Stepping /\ Top.fn = "expr" /\ Top.pc = "infix"
  <2>1. {"expr"} \cap Helpers = {}
    BY DEF Helpers
  <2>2. RunningOneOf({"expr"}, "infix") /\ UNCHANGED loop
    BY DEF InfixEnd, InfixOperand, InfixCompound, InfixCall, InfixMember, Infix, Running
  <2> QED BY <2>1, <2>2, Runs
<1>2. /\ Around(Top.pc) = "none" /\ {"infix", "loop"} \subseteq Points
      /\ Top.fn \notin Owners /\ Top.fn \notin Helpers
  BY <1>1, PointsAre DEF Around, Owners, Helpers
<1>3. p.current.type \notin Brackets => Reaches(src, p, q) /\ Balanced(p, q, "none", "none")
  BY <1>1, AdvanceOver
<1>4. CASE InfixEnd
  <2>1. Return(p, ret) /\ Unneeded
    BY <1>4 DEF InfixEnd
  <2> QED BY <1>1, <1>2, <2>1, StayOver, Returns
<1>5. CASE InfixOperand
  <2> DEFINE level == IF p.current.type = "=" THEN Precedence(p.current.type)
                      ELSE Precedence(p.current.type) + 1
  <2>1. /\ p.current.type \in Binary \cup {"="} /\ Needed
        /\ Call(Advance(p), "infix", <<Build1, Expression(level)>>)
    BY <1>5 DEF InfixOperand
  <2>2. level \in 0 .. PrimaryLevel /\ p.current.type \notin Brackets
    BY <2>1, LevelsAre
  <2> HIDE DEF level
  <2> QED BY <1>1, <2>1, <2>2, CallOperand
<1>6. CASE InfixCompound
  <2>1. Unneeded /\ p.current.type \notin Brackets
    BY <1>6 DEF InfixCompound, Check, Brackets
  <2>2. CASE ret = "ident"
    <3>1. Call(Advance(p), "infix", <<Build1, Expression(AssignmentLevel)>>)
      BY <1>6, <2>2 DEF InfixCompound, AnyExpression
    <3>2. AssignmentLevel \in 0 .. PrimaryLevel
      BY DEF AssignmentLevel, PrimaryLevel
    <3> QED BY <1>1, <2>1, <3>1, <3>2, CallOperand
  <2>3. CASE ret # "ident"
    <3> DEFINE r == Report(q, "target")
    <3>1. p' = r /\ ret' = Null /\ stack' = stack
      BY <1>6, <2>3 DEF InfixCompound
    <3>2. "target" \in Reasons \ {"none"} /\ src \in Seq(Lexemes)
      BY <1>1 DEF Reasons, Stepping, ParserInv, Typed
    <3>3. Reaches(src, p, r) /\ r.panic /\ r.err.why # "none"
      BY <1>3, <2>1, <3>2, ReportedReaches
    <3> HIDE DEF r
    <3>4. Carries
      BY <1>1, <2>1, <3>1, <3>3, CarriesOn
    <3>5. Top \in Frames /\ stack' = Append(Below, Top)
      <4>1. Below \in Seq(Frames) /\ Top \in Frames /\ stack = Below \o <<Top>>
        BY <1>1, Tops DEF Stepping, ParserInv, Typed
      <4> QED BY <3>1, <4>1, AppendIsConcat
    <3>6. TopReady(p', Top)
      BY <1>1 DEF TopReady
    <3> QED BY <1>1, <1>2, <3>1, <3>3, <3>4, <3>5, <3>6, MoveOne
  <2> QED BY <2>2, <2>3
<1>7. CASE InfixCall
  <2> DEFINE g == Frame("call", "loop", 0)
  <2>1. Call(Advance(p), "infix", <<g>>) /\ Needed /\ p.current.type = "("
    BY <1>7 DEF InfixCall, Check
  <2>2. g \in Frames /\ g.fn = "call" /\ g.pc = "loop"
    <3>1. 0 \in 0 .. PrimaryLevel /\ "call" \in Functions
      BY DEF PrimaryLevel, Functions
    <3> QED BY <1>2, <3>1, FrameIs
  <2> HIDE DEF g
  <2>3. OpenerOf(g.fn) = p.current.type /\ g.fn \notin Helpers \cup Owners
        /\ p.current.type \in Openers
    BY <2>1, <2>2 DEF OpenerOf, Closer, Helpers, Owners, Openers
  <2> QED BY <1>1, <2>1, <2>2, <2>3, CallOpened
<1>8. CASE InfixMember
  <2> DEFINE g == Expecting("ident")
  <2>1. p' = q /\ stack' = Append(stack, g) /\ ret' = "expr" /\ Needed /\ p.current.type = "."
    BY <1>8 DEF InfixMember, Check
  <2>2. /\ g \in Frames /\ g.fn = "expect" /\ g.pc = "ident" /\ OpenedBy(g) = "none"
    BY HelperIs, TokensUsed
  <2>3. Reaches(src, p, q) /\ Balanced(p, q, "none", "none")
    BY <1>3, <2>1 DEF Brackets
  <2> HIDE DEF g, q
  <2>4. Top \in Frames /\ stack' = Below \o <<Top, g>>
    <3>1. /\ Below \in Seq(Frames) /\ Top \in Frames /\ stack = Below \o <<Top>>
          /\ stack \in Seq(Frames)
      BY <1>1, Tops DEF Stepping, ParserInv, Typed
    <3>2. stack' = stack \o <<g>>
      BY <2>1, <2>2, <3>1, AppendIsConcat
    <3>3. Below \o <<Top>> \o <<g>> = Below \o <<Top, g>>
      BY <2>2, <3>1, JoinsTwo
    <3> QED BY <3>1, <3>2, <3>3
  <2>5. Carries
    BY <1>1, <2>1, <2>3, CarriesOn
  <2>6. Link(Top, g) /\ TopReady(p', g) /\ Inside(Top, g) = "none" /\ OpenedBy(Top) = "none"
    BY <1>1, <2>2, OpenedByIs DEF Link, TopReady, Helpers, Brackets, Inside
  <2> QED BY <1>1, <1>2, <2>1, <2>2, <2>3, <2>4, <2>5, <2>6, MoveTwo
<1> QED BY <1>4, <1>5, <1>6, <1>7, <1>8

LEMMA PartBuilt ==
    ASSUME ParserInv, Built
    PROVE  ParserInv'
<1>1. Stepping /\ Top.fn = "build" /\ Top.pc = "part"
  <2>1. {"build"} \cap Helpers = {}
    BY DEF Helpers
  <2>2. RunningOneOf({"build"}, "part") /\ UNCHANGED loop
    BY DEF Built, Running
  <2> QED BY <2>1, <2>2, Runs
<1>2. Needed /\ Return(p, "expr") /\ Around(Top.pc) = "none" /\ Top.fn \notin Owners
  BY <1>1 DEF Built, Around, Owners
<1> QED BY <1>1, <1>2, StayOver, Returns

\* A compound assignment to NULL: only where an error or a NaN was met.
LEMMA Crashes ==
    ASSUME ParserInv, InfixCompoundCrash
    PROVE  ParserInv'
<1> DEFINE q == Advance(p)
<1>1. /\ mode = "parsing" /\ stack # << >> /\ p.current.type = "op=" /\ ret = Null /\ p' = q
      /\ mode' = "crashed" /\ UNCHANGED <<src, stack, ret, hole, given, start>>
  BY DEF InfixCompoundCrash, Infix, Running, RunningOneOf, InFunction, Check
<1>2. Typed /\ Placed /\ Shaped /\ Valued /\ BracketsAwaited
  BY DEF ParserInv
<1>3. /\ Reaches(src, p, q) /\ Advances(p, q)
  BY <1>2, AdvanceReaches DEF Typed, Placed
<1> HIDE DEF q
<1>4. Typed'
  BY <1>1, <1>2 DEF Typed
<1>5. Placed'
  BY <1>1, <1>3 DEF Placed, Reaches
<1>6. Shaped'
  BY <1>1, <1>2 DEF Shaped, Linked
<1>7. p'.panic \/ NanBefore(src, start, p')
  <2>1. p.panic \/ NanBefore(src, start, p)
    BY <1>1, <1>2 DEF Valued
  <2>2. p.previous.at <= p'.previous.at
    BY <1>1, <1>2, <1>3 DEF Advances, Placed, Sane
  <2>3. /\ start \in Nat /\ p.previous.at \in Nat /\ p'.previous.at \in Nat
    BY <1>1, <1>2, <1>3 DEF Typed, Placed, Reaches, Sane, Parsers, Tokens
  <2>4. NanBefore(src, start, p) => NanBefore(src, start, p')
    BY <2>2, <2>3 DEF NanBefore
  <2> QED BY <1>1, <1>3, <2>1, <2>4 DEF Reaches
<1>8. Valued'
  BY <1>1, <1>7 DEF Valued, CrashNeedsError, AcceptedIsWhole, NanBefore
<1>9. Panicked'
  BY <1>1 DEF Panicked
<1>10. BracketsAwaited'
  <2> SUFFICES ASSUME p'.err.why = "none"
               PROVE  p'.lexer.depths = Track(Track(Awaited(stack')[Len(stack')], p'.current.type),
                                              p'.next.type)
    BY DEF BracketsAwaited
  <2>1. p.err.why = "none"
    BY <1>1, <1>3 DEF Reaches
  <2> DEFINE W == Awaited(stack)[Len(stack)]
  <2>2. p.lexer.depths = Track(Track(W, p.current.type), p.next.type)
    BY <1>2, <2>1 DEF BracketsAwaited
  <2>3. Track(W, "op=") = W
    BY TrackOther DEF Brackets
  <2>4. Awaited(stack')[Len(stack')] = W
    BY <1>1
  <2> HIDE DEF W
  <2> QED BY <1>1, <1>3, <2>2, <2>3, <2>4 DEF Advances
<1> QED BY <1>4, <1>5, <1>6, <1>8, <1>9, <1>10 DEF ParserInv

(***************************************************************************)
(* The other constructs.                                                   *)
(***************************************************************************)
LEMMA Here ==
    ASSUME ParserInv, NEW fn, NEW pc, Running(fn, pc), fn \notin Helpers, UNCHANGED loop
    PROVE  Stepping /\ Top.fn = fn /\ Top.pc = pc
<1>1. {fn} \cap Helpers = {} /\ RunningOneOf({fn}, pc)
  BY DEF Running
<1>2. Stepping /\ Top.fn \in {fn} /\ Top.pc = pc
  BY <1>1, Runs
<1> QED BY <1>2

\* The body of a construct.
LEMMA BecomeBody ==
    ASSUME Stepping, NEW q, Top.fn \notin Owners, Top.pc \notin {"loop", "element"},
           Become(q, <<Build1, Block, Expecting("{")>>), Reaches(src, p, q), Needed \/ Unneeded,
           q.err.why = "none" => Balanced(p, q, "none", "none")
    PROVE  ParserInv'
<1>1. /\ Build1 \in Frames /\ Build1.fn = "build" /\ Build1.pc = "part"
  BY BlockIs
<1>2. Around(Top.pc) = "none" /\ Build1.fn \notin Helpers
  BY <1>1 DEF Around, Helpers
<1> QED BY <1>1, <1>2, CallBlock

\* An expression that a token comes before.
LEMMA BecomeAwaiting ==
    ASSUME Stepping, NEW q, Top.fn \notin Owners, Top.pc \notin {"loop", "element"},
           NEW f \in Frames, f.fn \notin Helpers, f.pc \notin {"start", "loop", "element"},
           NEW h \in Frames, h.fn \in Helpers, h.pc \in {"if", "while"},
           Become(q, <<f, AnyExpression, h>>), Reaches(src, p, q), Needed \/ Unneeded,
           q.err.why = "none" => Balanced(p, q, "none", "none")
    PROVE  ParserInv'
<1> DEFINE g == AnyExpression
<1>1. g \in Frames /\ g.fn = "expr" /\ g.pc = "prefix"
  <2>1. AssignmentLevel \in 0 .. PrimaryLevel
    BY DEF AssignmentLevel, PrimaryLevel
  <2> QED BY <2>1, ExpressionIs DEF AnyExpression
<1>2. p' = q /\ stack' = Below \o <<f, g, h>> /\ ret' = ret
  BY DEF Become
<1>3. Carries
  BY <1>2, CarriesOn
<1> HIDE DEF g
<1>4. Link(f, g) /\ Link(g, h) /\ TopReady(p', h)
  BY <1>1 DEF Link, TopReady, Helpers, Brackets
<1>5. /\ Inside(f, g) = "none" /\ Inside(g, h) = "none"
      /\ OpenedBy(h) = "none" /\ OpenedBy(Top) = "none"
  BY OpenedByIs DEF Inside
<1> QED BY <1>1, <1>2, <1>3, <1>4, <1>5, MoveThree

LEMMA ListGoesOn ==
    ASSUME ParserInv, GroupingEnd \/ Element \/ ElementEnd \/ LoopEnd \/ BlockItem
    PROVE  ParserInv'
<1>1. {"loop", "element"} \subseteq Points /\ AnyExpression \in Parts
  BY PointsAre DEF Parts
<1>2. Around("loop") = Around("element")
  BY DEF Around
<1>3. CASE GroupingEnd
  <2> DEFINE q == Expect(p, ")")
  <2>1. Stepping /\ Top.fn = "grouping" /\ Top.pc = "element" /\ Unneeded /\ Return(q, ret)
    <3>1. Running("grouping", "element") /\ UNCHANGED loop /\ Unneeded /\ Return(q, ret)
      BY <1>3 DEF GroupingEnd
    <3> QED BY <3>1, Here DEF Helpers
  <2>2. Reaches(src, p, q) /\ (q.panic \/ (Advances(p, q) /\ p.current.type = ")"))
    BY <2>1, ExpectReaches DEF Stepping, ParserInv, Typed, Placed
  <2> HIDE DEF q
  <2>3. q.err.why = "none" => Advances(p, q) /\ p.current.type = ")"
    BY <2>2, ErrorKept
  <2>4. Around(Top.pc) = "(" /\ Top.fn \notin Owners
    BY <2>1 DEF Around, OpenerOf, Closer, Owners
  <2>5. q.err.why = "none" => Balanced(p, q, Around(Top.pc), "none")
    BY <2>3, <2>4 DEF Balanced
  <2> QED BY <2>1, <2>2, <2>4, <2>5, Returns
<1>4. CASE Element
  <2>1. Stepping /\ Top.pc = "loop" /\ Unneeded /\ Call(p, "element", <<AnyExpression>>)
    <3>1. /\ RunningOneOf({"list", "call"}, "loop") /\ UNCHANGED loop /\ Unneeded
          /\ Call(p, "element", <<AnyExpression>>) /\ {"list", "call"} \cap Helpers = {}
      BY <1>4 DEF Element, Helpers
    <3> QED BY <3>1, Runs
  <2> QED BY <1>1, <1>2, <2>1, StayOver, CallPart
<1>5. CASE ElementEnd
  <2> DEFINE q == Separator(p, Closer(Top.fn))
  <2>1. Stepping /\ Top.pc = "element" /\ Needed /\ Goto(q, "loop")
    <3>1. /\ RunningOneOf({"list", "call"}, "element") /\ UNCHANGED loop /\ Needed
          /\ Goto(q, "loop") /\ {"list", "call"} \cap Helpers = {}
      BY <1>5 DEF ElementEnd, Helpers
    <3> QED BY <3>1, Runs
  <2>2. /\ Reaches(src, p, q) /\ (q.panic \/ q.previous.type = "," \/ q.current.type = Closer(Top.fn))
        /\ q.err.why = "none" => \A b : Balanced(p, q, b, b)
    BY <2>1, SeparatorOver
  <2> HIDE DEF q
  <2> QED BY <1>1, <1>2, <2>1, <2>2, GoesTo
<1>6. CASE LoopEnd
  <2> DEFINE q == Close(p, Closer(Top.fn))
             value == IF Closed(p, Closer(Top.fn)) THEN "expr" ELSE Null
             fns == {"list", "call", "block", "typebody", "inst", "interface"}
  <2>1. /\ RunningOneOf(fns, "loop") /\ UNCHANGED loop /\ Unneeded
        /\ LoopOver(p, Closer(Top.fn)) /\ Return(q, value) /\ fns \cap Helpers = {}
        /\ fns \cap Owners = {}
    BY <1>6 DEF LoopEnd, Helpers, Owners
  <2> HIDE DEF fns, q
  <2>2. Stepping /\ Top.fn \in fns /\ Top.pc = "loop"
    BY <2>1, Runs
  <2>3. /\ Reaches(src, p, q) /\ (~Closed(p, Closer(Top.fn)) => q.panic)
        /\ q.err.why = "none" => Balanced(p, q, OpenedBy(Top), "none")
    BY <2>1, <2>2, CloseOver DEF q
  <2>4. OpenedBy(Top) = Around(Top.pc) /\ Top.fn \notin Owners
    BY <2>1, <2>2, OpenedByIs DEF Around
  <2>5. value = "expr" \/ (value = Null /\ q.panic)
    BY <2>3
  <2> HIDE DEF value
  <2> QED BY <2>1, <2>2, <2>3, <2>4, <2>5, Returns
<1>7. CASE BlockItem
  <2>1. Stepping /\ Top.fn = "block" /\ Top.pc = "loop" /\ Unneeded
        /\ Call(p, "loop", <<Item>>) /\ ~LoopOver(p, "}")
    <3>1. Running("block", "loop") /\ UNCHANGED loop /\ Unneeded
          /\ Call(p, "loop", <<Item>>) /\ ~LoopOver(p, "}")
      BY <1>7 DEF BlockItem
    <3>2. "block" \notin Helpers
      BY DEF Helpers
    <3>3. Stepping /\ Top.fn = "block" /\ Top.pc = "loop"
      BY <3>1, <3>2, Here
    <3> QED BY <3>1, <3>3
  <2>2. p.panic \/ p.current.type # "vsemi"
    <3> SUFFICES ASSUME ~p.panic, p.current.type = "vsemi" PROVE FALSE
      OBVIOUS
    <3>1. TopReady(p, Top) /\ Sane(src, p)
      BY <2>1 DEF Stepping, ParserInv, Shaped, Placed
    <3>2. p.previous.type \in Enders
      BY <3>1 DEF Sane
    <3>3. Closer(Top.fn) = "}"
      BY <2>1 DEF Closer
    <3>4. p.previous.type \in ItemEnds \cup Openers \cup {","}
      BY <2>1, <3>1, <3>3 DEF TopReady
    <3> QED BY <3>2, <3>4 DEF Enders, ItemEnds, Openers
  <2> QED BY <1>1, <2>1, <2>2, StayOver, CallItem
<1> QED BY <1>3, <1>4, <1>5, <1>6, <1>7

LEMMA IfGoesOn ==
    ASSUME ParserInv, IfThen \/ IfElse \/ WhileBody \/ DoBody \/ DoCondition
    PROVE  ParserInv'
<1>1. {"then", "else", "condition"} \subseteq Points
  BY PointsAre
<1>2. \A pc \in {"start", "then", "else", "body", "condition"} : Around(pc) = "none"
  BY DEF Around
<1>3. ASSUME Stepping, NEW pc \in {"else", "condition"}, Top.fn \notin Owners,
             Top.pc \in {"start", "then"}, Call(p, pc, <<Block, Expecting("{")>>), Needed \/ Unneeded
      PROVE  ParserInv'
  <2> DEFINE f == At(pc)
  <2>1. pc \in Points
    BY <1>1
  <2>2. f \in Frames /\ f.fn = Top.fn /\ f.pc = pc
    BY <1>3, <2>1, AtOpened
  <2>3. f = At(f.pc) /\ Call(p, f.pc, <<Block, Expecting("{")>>)
    BY <1>3, <2>2
  <2>4. f.fn \notin Helpers
    BY <1>3, <2>2 DEF Stepping
  <2> HIDE DEF f
  <2> QED BY <1>2, <1>3, <2>2, <2>3, <2>4, StayOver, CallBlock
<1>4. CASE IfThen
  <2>1. Running("if", "then") /\ UNCHANGED loop /\ Needed /\ Call(p, "else", <<Block, Expecting("{")>>)
    BY <1>4 DEF IfThen
  <2>2. Stepping /\ Top.fn = "if" /\ Top.pc = "then"
    BY <2>1, Here DEF Helpers
  <2> QED BY <1>3, <2>1, <2>2 DEF Owners
<1>5. CASE IfElse
  <2> DEFINE q == Advance(p)
  <2>1. Running("if", "else") /\ UNCHANGED loop /\ Needed
    BY <1>5 DEF IfElse
  <2>2. Stepping /\ Top.fn = "if" /\ Top.pc = "else" /\ Top.fn \notin Owners
    BY <2>1, Here DEF Helpers, Owners
  <2>3. Check(p, "else") => Reaches(src, p, q) /\ Balanced(p, q, "none", "none")
    BY <2>2, AdvanceOver DEF Check, Brackets
  <2> HIDE DEF q
  <2>4. CASE ~Check(p, "else")
    <3>1. Return(p, "expr")
      BY <1>5, <2>4 DEF IfElse
    <3> QED BY <1>2, <2>1, <2>2, <3>1, StayOver, Returns
  <2>5. CASE Check(p, "else") /\ Check(q, "if")
    <3> DEFINE f == Frame("if", "then", 0)
               h == Matching("if")
    <3>1. Become(q, <<f, AnyExpression, h>>)
      BY <1>5, <2>5 DEF IfElse, q
    <3>2. f \in Frames /\ f.fn = "if" /\ f.pc = "then"
      <4>1. "if" \in Functions /\ 0 \in 0 .. PrimaryLevel
        BY DEF Functions, PrimaryLevel
      <4> QED BY <1>1, <4>1, FrameIs
    <3>3. h \in Frames /\ h.fn = "match" /\ h.pc = "if"
      BY HelperIs, TokensUsed
    <3> HIDE DEF f, h
    <3>4. f.fn \notin Helpers /\ h.fn \in Helpers
      BY <3>2, <3>3 DEF Helpers
    <3> QED BY <2>1, <2>2, <2>3, <2>5, <3>1, <3>2, <3>3, <3>4, BecomeAwaiting
  <2>6. CASE Check(p, "else") /\ ~Check(q, "if")
    <3>1. Become(q, <<Build1, Block, Expecting("{")>>)
      BY <1>5, <2>6 DEF IfElse, q
    <3> QED BY <2>1, <2>2, <2>3, <2>6, <3>1, BecomeBody
  <2> QED BY <2>4, <2>5, <2>6
<1>6. CASE WhileBody
  <2>1. Running("while", "body") /\ UNCHANGED loop /\ Needed
        /\ Become(p, <<Build1, Block, Expecting("{")>>)
    BY <1>6 DEF WhileBody
  <2>2. Stepping /\ Top.fn = "while" /\ Top.pc = "body"
    BY <2>1, Here DEF Helpers
  <2> QED BY <2>1, <2>2, StayOver, BecomeBody DEF Owners
<1>7. CASE DoBody
  <2>1. Running("do", "start") /\ UNCHANGED loop /\ Unneeded
        /\ Call(p, "condition", <<Block, Expecting("{")>>)
    BY <1>7 DEF DoBody
  <2>2. Stepping /\ Top.fn = "do" /\ Top.pc = "start"
    BY <2>1, Here DEF Helpers
  <2> QED BY <1>3, <2>1, <2>2 DEF Owners
<1>8. CASE DoCondition
  <2> DEFINE h == Expecting("while")
  <2>1. Running("do", "condition") /\ UNCHANGED loop /\ Needed
        /\ Become(p, <<Build1, AnyExpression, h>>)
    BY <1>8 DEF DoCondition
  <2>2. Stepping /\ Top.fn = "do" /\ Top.pc = "condition" /\ Top.fn \notin Owners
    BY <2>1, Here DEF Helpers, Owners
  <2>3. h \in Frames /\ h.fn = "expect" /\ h.pc = "while"
    BY HelperIs, TokensUsed
  <2> HIDE DEF h
  <2>4. /\ h.fn \in Helpers /\ Build1.fn \notin Helpers
        /\ Build1 \in Frames /\ Build1.pc = "part"
    BY <2>3, BlockIs DEF Helpers
  <2> QED BY <2>1, <2>2, <2>3, <2>4, StayOver, BecomeAwaiting
<1> QED BY <1>4, <1>5, <1>6, <1>7, <1>8

LEMMA ForGoesOn ==
    ASSUME ParserInv, ForStart \/ ForFirst \/ ForCondition \/ ForUpdate \/ ForBody
    PROVE  ParserInv'
<1>1. {"first", "condition", "update", "body"} \subseteq Points /\ AnyExpression \in Parts
  BY PointsAre DEF Parts
<1>2. \A pc \in {"start", "first", "condition", "update", "body"} : Around(pc) = "none"
  BY DEF Around
<1>3. CASE ForStart
  <2> DEFINE q == Advance(p)
  <2>1. Running("for", "start") /\ UNCHANGED loop /\ Unneeded
    BY <1>3 DEF ForStart
  <2>2. Stepping /\ Top.fn = "for" /\ Top.pc = "start" /\ Top.fn \notin Owners
    BY <2>1, Here DEF Helpers, Owners
  <2>3. CASE Check(p, "{")
    <3>1. p' = q /\ stack' = Below \o <<Build1, Block>> /\ ret' = ret
      <4>1. Become(q, <<Build1, Block>>)
        BY <1>3, <2>3 DEF ForStart, Check
      <4> HIDE DEF q
      <4> QED BY <4>1 DEF Become
    <3>2. Reaches(src, p, q) /\ Advances(p, q) /\ Balanced(p, q, "none", "{") /\ q.previous.type = "{"
      BY <2>2, <2>3, AdvanceInto DEF Check, Openers, Advances
    <3> HIDE DEF q
    <3>3. Carries
      BY <2>1, <2>2, <3>1, <3>2, CarriesOn
    <3>4. /\ Build1 \in Frames /\ Build1.fn = "build" /\ Build1.pc = "part" /\ OpenedBy(Build1) = "none"
          /\ Block \in Frames /\ Block.fn = "block" /\ Block.pc = "loop" /\ OpenedBy(Block) = "{"
      BY BlockIs
    <3>5. Link(Build1, Block) /\ TopReady(p', Block) /\ Build1.fn \notin Helpers
      BY <3>1, <3>2, <3>4 DEF Link, TopReady, Helpers, Openers
    <3>6. Inside(Build1, Block) = "none" /\ OpenedBy(Top) = "none"
      BY <2>2, <3>4, OpenedByIs DEF Inside
    <3> QED BY <2>2, <3>1, <3>2, <3>3, <3>4, <3>5, <3>6, MoveTwo
  <2>4. CASE Check(p, "var")
    <3>1. Call(p, "condition", <<Item>>) /\ p.current.type # "vsemi"
      BY <1>3, <2>4 DEF ForStart, Check
    <3> QED BY <1>1, <1>2, <2>1, <2>2, <3>1, StayOver, CallItem
  <2>5. CASE Check(p, ";")
    <3>1. Skip(q, "condition") /\ p.current.type \notin Brackets
      BY <1>3, <2>5 DEF ForStart, Check, Brackets
    <3>2. Reaches(src, p, q) /\ Balanced(p, q, "none", "none")
      BY <2>2, <3>1, AdvanceOver
    <3> HIDE DEF q
    <3> QED BY <1>1, <1>2, <2>1, <2>2, <3>1, <3>2, GoesTo
  <2>6. CASE ~Check(p, "{") /\ ~Check(p, "var") /\ ~Check(p, ";")
    <3>1. Call(p, "first", <<AnyExpression>>)
      BY <1>3, <2>6 DEF ForStart
    <3> QED BY <1>1, <1>2, <2>1, <2>2, <3>1, StayOver, CallPart
  <2> QED BY <2>3, <2>4, <2>5, <2>6
<1>4. CASE ForFirst
  <2> DEFINE q == Expect(p, ";")
  <2>1. Running("for", "first") /\ UNCHANGED loop /\ Needed
    BY <1>4 DEF ForFirst
  <2>2. Stepping /\ Top.fn = "for" /\ Top.pc = "first"
    BY <2>1, Here DEF Helpers
  <2>3. CASE Check(p, "{")
    <3>1. Skip(p, "body")
      BY <1>4, <2>3 DEF ForFirst
    <3> QED BY <1>1, <1>2, <2>1, <2>2, <3>1, StayOver, GoesTo
  <2>4. CASE ~Check(p, "{")
    <3>1. Skip(q, "condition")
      BY <1>4, <2>4 DEF ForFirst
    <3>2. Reaches(src, p, q) /\ (q.err.why = "none" => Balanced(p, q, "none", "none"))
      BY <2>2, ExpectOver DEF Brackets
    <3> HIDE DEF q
    <3> QED BY <1>1, <1>2, <2>1, <2>2, <3>1, <3>2, GoesTo
  <2> QED BY <2>3, <2>4
<1>5. CASE ForCondition
  <2>1. Running("for", "condition") /\ UNCHANGED loop /\ Needed
    BY <1>5 DEF ForCondition
  <2>2. Stepping /\ Top.fn = "for" /\ Top.pc = "condition"
    BY <2>1, Here DEF Helpers
  <2>3. CASE Check(p, ";")
    <3>1. Skip(p, "update")
      BY <1>5, <2>3 DEF ForCondition
    <3> QED BY <1>1, <1>2, <2>1, <2>2, <3>1, StayOver, GoesTo
  <2>4. CASE ~Check(p, ";")
    <3>1. Call(p, "update", <<AnyExpression>>)
      BY <1>5, <2>4 DEF ForCondition
    <3> QED BY <1>1, <1>2, <2>1, <2>2, <3>1, StayOver, CallPart
  <2> QED BY <2>3, <2>4
<1>6. CASE ForUpdate
  <2> DEFINE q == Expect(p, ";")
  <2>1. /\ Running("for", "update") /\ UNCHANGED loop /\ Needed
        /\ Skip(q, "body") \/ Call(q, "body", <<AnyExpression>>)
    BY <1>6 DEF ForUpdate
  <2>2. Stepping /\ Top.fn = "for" /\ Top.pc = "update"
    BY <2>1, Here DEF Helpers
  <2>3. Reaches(src, p, q) /\ (q.err.why = "none" => Balanced(p, q, "none", "none"))
    BY <2>2, ExpectOver DEF Brackets
  <2> HIDE DEF q
  <2>4. CASE Skip(q, "body")
    BY <1>1, <1>2, <2>1, <2>2, <2>3, <2>4, GoesTo
  <2>5. CASE Call(q, "body", <<AnyExpression>>)
    BY <1>1, <1>2, <2>1, <2>2, <2>3, <2>5, CallPart
  <2> QED BY <2>1, <2>4, <2>5
<1>7. CASE ForBody
  <2>1. Running("for", "body") /\ UNCHANGED loop /\ Needed
        /\ Become(p, <<Build1, Block, Expecting("{")>>)
    BY <1>7 DEF ForBody
  <2>2. Stepping /\ Top.fn = "for" /\ Top.pc = "body"
    BY <2>1, Here DEF Helpers
  <2> QED BY <2>1, <2>2, StayOver, BecomeBody DEF Owners
<1> QED BY <1>3, <1>4, <1>5, <1>6, <1>7

LEMMA FnGoesOn ==
    ASSUME ParserInv, FnStart \/ FnParam \/ FnParamEnd \/ FnParamsEnd \/ FnResult \/ FnBody
    PROVE  ParserInv'
<1>1. {"loop", "element", "result", "body"} \subseteq Points /\ {Type, Var} \subseteq Parts
  BY PointsAre DEF Parts
<1>2. /\ Around("start") = "none" /\ Around("result") = "none" /\ Around("body") = "none"
      /\ Around("loop") = Around("element")
  BY DEF Around
<1>3. CASE FnStart
  <2> DEFINE f == At("loop")
             g == Expecting("(")
             h == Matching("ident")
  <2>1. Running("fn", "start") /\ UNCHANGED loop /\ Unneeded /\ Call(p, "loop", <<g, h>>)
    BY <1>3 DEF FnStart
  <2>2. Stepping /\ Top.fn = "fn" /\ Top.pc = "start"
    BY <2>1, Here DEF Helpers
  <2>3. f \in Frames /\ f.fn = "fn" /\ f.pc = "loop" /\ OpenedBy(Top) = "none"
    BY <1>1, <1>2, <2>2, AtOpened
  <2>4. /\ g \in Frames /\ g.fn = "expect" /\ g.pc = "(" /\ OpenedBy(g) = "none"
        /\ h \in Frames /\ h.fn = "match" /\ h.pc = "ident" /\ OpenedBy(h) = "none"
    BY HelperIs, TokensUsed
  <2>5. p' = p /\ ret' = ret /\ stack' = Below \o <<f>> \o <<g, h>>
    BY <2>1 DEF Call
  <2> HIDE DEF f, g, h
  <2>6. stack' = Below \o <<f, g, h>>
    <3>1. Below \in Seq(Frames)
      BY <2>2, Tops DEF Stepping, ParserInv, Typed
    <3>2. Below \o <<f>> \o <<g, h>> = Below \o <<f, g, h>>
      BY <2>3, <2>4, <3>1, JoinsThree
    <3> QED BY <2>5, <3>2
  <2>7. Reaches(src, p, p') /\ Balanced(p, p', "none", "none")
    BY <2>2, <2>5, StayOver
  <2>8. Carries
    BY <2>1, <2>2, <2>5, <2>7, CarriesOn
  <2>9. Link(f, g) /\ Link(g, h) /\ TopReady(p', h)
    BY <2>3, <2>4 DEF Link, OpenerOf, Closer, TopReady, Helpers, Brackets
  <2>10. Inside(f, g) = "none" /\ Inside(g, h) = "none"
    BY <2>4 DEF Inside, Helpers
  <2>11. f.fn \notin Helpers /\ Top.fn \notin Owners
    BY <2>2, <2>3 DEF Helpers, Owners
  <2> QED BY <2>2, <2>3, <2>4, <2>6, <2>7, <2>8, <2>9, <2>10, <2>11, MoveThree
<1>4. CASE FnParam
  <2>1. Running("fn", "loop") /\ UNCHANGED loop /\ Unneeded /\ Call(p, "element", <<Var>>)
    BY <1>4 DEF FnParam
  <2>2. Stepping /\ Top.pc = "loop"
    BY <2>1, Here DEF Helpers
  <2> QED BY <1>1, <1>2, <2>1, <2>2, StayOver, CallPart
<1>5. CASE FnParamEnd
  <2> DEFINE q == Separator(p, ")")
  <2>1. Running("fn", "element") /\ UNCHANGED loop /\ Unneeded /\ Goto(q, "loop")
    BY <1>5 DEF FnParamEnd
  <2>2. Stepping /\ Top.fn = "fn" /\ Top.pc = "element" /\ Closer(Top.fn) = ")"
    BY <2>1, Here DEF Helpers, Closer
  <2>3. /\ Reaches(src, p, q) /\ (q.panic \/ q.previous.type = "," \/ q.current.type = ")")
        /\ q.err.why = "none" => \A b : Balanced(p, q, b, b)
    BY <2>2, SeparatorOver
  <2> HIDE DEF q
  <2> QED BY <1>1, <1>2, <2>1, <2>2, <2>3, GoesTo
<1>6. CASE FnParamsEnd
  <2>1. /\ Running("fn", "loop") /\ UNCHANGED loop /\ Unneeded /\ LoopOver(p, ")")
        /\ IF Closed(p, ")") THEN Goto(Close(p, ")"), "result") ELSE Return(Close(p, ")"), Null)
    BY <1>6 DEF FnParamsEnd
  <2>2. Stepping /\ Top.fn = "fn" /\ Top.pc = "loop" /\ Closer(Top.fn) = ")"
    BY <2>1, Here DEF Helpers, Closer
  <2> QED BY <1>1, <2>1, <2>2, LoopLeft
<1>7. CASE FnResult
  <2>1. Running("fn", "result") /\ UNCHANGED loop /\ Unneeded
    BY <1>7 DEF FnResult
  <2>2. Stepping /\ Top.fn = "fn" /\ Top.pc = "result"
    BY <2>1, Here DEF Helpers
  <2>3. CASE Check(p, "->")
    <3>1. Call(Advance(p), "body", <<Type>>) /\ p.current.type \notin Brackets
      BY <1>7, <2>3 DEF FnResult, Check, Brackets
    <3>2. Reaches(src, p, Advance(p)) /\ Balanced(p, Advance(p), "none", "none")
      BY <2>2, <3>1, AdvanceOver
    <3> QED BY <1>1, <1>2, <2>1, <2>2, <3>1, <3>2, CallPart
  <2>4. CASE ~Check(p, "->")
    <3>1. Goto(p, "body")
      BY <1>7, <2>4 DEF FnResult
    <3> QED BY <1>1, <1>2, <2>1, <2>2, <3>1, StayOver, GoesTo
  <2> QED BY <2>3, <2>4
<1>8. CASE FnBody
  <2>1. Running("fn", "body") /\ UNCHANGED loop /\ Unneeded
        /\ Become(p, <<Build1, Block, Expecting("{")>>)
    BY <1>8 DEF FnBody
  <2>2. Stepping /\ Top.fn = "fn" /\ Top.pc = "body"
    BY <2>1, Here DEF Helpers
  <2> QED BY <2>1, <2>2, StayOver, BecomeBody DEF Owners
<1> QED BY <1>3, <1>4, <1>5, <1>6, <1>7, <1>8

LEMMA TypeTokenGoesOn ==
    ASSUME ParserInv,
           TypeToken \/ TypeDeclaration \/ TypeInstance \/ InstMember \/ InstMemberEnd
    PROVE  ParserInv'
<1>1. {"loop", "element", "named", "unnamed"} \subseteq Points /\ 0 \in 0 .. PrimaryLevel
  BY PointsAre DEF PrimaryLevel
<1>2. /\ Around("start") = "none" /\ Around("named") = "none" /\ Around("unnamed") = "none"
      /\ Around("loop") = Around("element")
  BY DEF Around
<1>3. CASE TypeToken
  <2> DEFINE q == Match(p, "ident")
             pc == IF Check(p, "ident") THEN "named" ELSE "unnamed"
  <2>1. Running("typetoken", "start") /\ UNCHANGED loop /\ Unneeded /\ Goto(q, pc)
    BY <1>3 DEF TypeToken
  <2>2. Stepping /\ Top.pc = "start"
    BY <2>1, Here DEF Helpers
  <2>3. Reaches(src, p, q) /\ Balanced(p, q, "none", "none")
    BY <2>2, MatchOver DEF Brackets
  <2>4. pc \in {"named", "unnamed"}
    OBVIOUS
  <2> HIDE DEF q, pc
  <2> QED BY <1>1, <1>2, <2>1, <2>2, <2>3, <2>4, GoesTo
<1>4. CASE TypeDeclaration
  <2> DEFINE f == Frame("typebody", "loop", 0)
  <2>1. PICK pc \in {"named", "unnamed"} : Running("typetoken", pc)
    BY <1>4 DEF TypeDeclaration, Named
  <2>2. UNCHANGED loop /\ Unneeded /\ Become(p, <<f, Expecting("{")>>)
    BY <1>4 DEF TypeDeclaration
  <2>3. Stepping /\ Top.fn = "typetoken" /\ Top.pc = pc
    BY <2>1, <2>2, Here DEF Helpers
  <2>4. f \in Frames /\ f.fn = "typebody" /\ f.pc = "loop"
    BY <1>1, FrameIs DEF Functions
  <2> HIDE DEF f
  <2>5. OpenerOf(f.fn) = "{" /\ f.fn \notin Helpers /\ Top.fn \notin Owners
    BY <2>3, <2>4 DEF OpenerOf, Closer, Helpers, Owners
  <2> QED BY <1>2, <2>2, <2>3, <2>4, <2>5, StayOver, BecomeLoop
<1>5. CASE TypeInstance
  <2> DEFINE f == Frame("inst", "loop", 0)
             g == Expecting("{")
             h == Matching("=")
             i == Matching("ident")
  <2>1. Running("typetoken", "named") /\ UNCHANGED loop /\ Unneeded
    BY <1>5 DEF TypeInstance, Named
  <2>2. Stepping /\ Top.fn = "typetoken" /\ Top.pc = "named" /\ Top.fn \notin Owners
    BY <2>1, Here DEF Helpers, Owners
  <2>3. f \in Frames /\ f.fn = "inst" /\ f.pc = "loop"
    BY <1>1, FrameIs DEF Functions
  <2>4. /\ g \in Frames /\ g.fn = "expect" /\ g.pc = "{" /\ OpenedBy(g) = "none"
        /\ h \in Frames /\ h.fn = "match" /\ h.pc = "=" /\ OpenedBy(h) = "none"
        /\ i \in Frames /\ i.fn = "match" /\ i.pc = "ident" /\ OpenedBy(i) = "none"
    BY HelperIs, TokensUsed
  <2>5. CASE Check(p, "ident")
    <3>1. p' = p /\ ret' = ret /\ stack' = Below \o (<<f, g>> \o <<h, i>>)
      BY <1>5, <2>5 DEF TypeInstance, Become
    <3> HIDE DEF f, g, h, i
    <3>2. <<f, g>> \o <<h, i>> = <<f, g, h, i>>
      <4>1. \A a, b, c, d \in Frames : <<a, b>> \o <<c, d>> = <<a, b, c, d>>
        BY JoinsPairs
      <4>2. f \in Frames /\ g \in Frames /\ h \in Frames /\ i \in Frames
        BY <2>3, <2>4
      <4> QED BY <4>1, <4>2, ZenonT(60)
    <3>3. stack' = Below \o <<f, g, h, i>>
      BY <3>1, <3>2
    <3>4. Reaches(src, p, p') /\ Balanced(p, p', "none", "none")
      BY <2>2, <3>1, StayOver
    <3>5. Carries
      BY <2>1, <2>2, <3>1, <3>4, CarriesOn
    <3>6. Link(f, g) /\ Link(g, h) /\ Link(h, i) /\ TopReady(p', i)
      BY <2>3, <2>4 DEF Link, OpenerOf, Closer, TopReady, Helpers, Brackets
    <3>7. Inside(f, g) = "none" /\ Inside(g, h) = "none" /\ Inside(h, i) = "none"
      BY <2>4 DEF Inside, Helpers
    <3>8. f.fn \notin Helpers /\ OpenedBy(Top) = "none"
      BY <2>2, <2>3, OpenedByIs DEF Helpers
    <3> QED BY <2>2, <2>3, <2>4, <3>3, <3>4, <3>5, <3>6, <3>7, <3>8, MoveFour
  <2>6. CASE ~Check(p, "ident")
    <3>1. Become(p, <<f, g>> \o << >>)
      BY <1>5, <2>6 DEF TypeInstance
    <3>2. <<f, g>> \o << >> = <<f, g>>
      <4>1. f \in Frames /\ g \in Frames
        BY <2>3, <2>4
      <4> HIDE DEF f, g
      <4>2. <<f, g>> \in Seq(Frames)
        BY <4>1
      <4> QED BY <4>2, ConcatEmptySeq
    <3>3. Become(p, <<f, Expecting("{")>>)
      BY <3>1, <3>2
    <3> HIDE DEF f
    <3>4. OpenerOf(f.fn) = "{" /\ f.fn \notin Helpers
      BY <2>3 DEF OpenerOf, Closer, Helpers
    <3> QED BY <1>2, <2>1, <2>2, <2>3, <3>3, <3>4, StayOver, BecomeLoop
  <2> QED BY <2>5, <2>6
<1>6. CASE InstMember
  <2> DEFINE f == At("element")
             g == AnyExpression
             h == Expecting(":")
             i == Expecting("ident")
  <2>1. Running("inst", "loop") /\ UNCHANGED loop /\ Unneeded /\ Call(p, "element", <<g, h, i>>)
    BY <1>6 DEF InstMember
  <2>2. Stepping /\ Top.fn = "inst" /\ Top.pc = "loop" /\ Top.fn \notin Owners
    BY <2>1, Here DEF Helpers, Owners
  <2>3. f \in Frames /\ f.fn = "inst" /\ f.pc = "element" /\ OpenedBy(f) = OpenedBy(Top)
    BY <1>1, <1>2, <2>2, AtOpened
  <2>4. /\ h \in Frames /\ h.fn = "expect" /\ h.pc = ":" /\ OpenedBy(h) = "none"
        /\ i \in Frames /\ i.fn = "expect" /\ i.pc = "ident" /\ OpenedBy(i) = "none"
    BY HelperIs, TokensUsed
  <2>5. g \in Frames /\ g.fn = "expr" /\ g.pc = "prefix"
    <3>1. AssignmentLevel \in 0 .. PrimaryLevel
      BY DEF AssignmentLevel, PrimaryLevel
    <3> QED BY <3>1, ExpressionIs DEF AnyExpression
  <2>6. p' = p /\ ret' = ret /\ stack' = Below \o <<f>> \o <<g, h, i>>
    BY <2>1 DEF Call
  <2> HIDE DEF f, g, h, i
  <2>7. stack' = Below \o <<f, g, h, i>>
    <3>1. Below \in Seq(Frames)
      BY <2>2, Tops DEF Stepping, ParserInv, Typed
    <3>2. \A a, b, c, d \in Frames : Below \o <<a>> \o <<b, c, d>> = Below \o <<a, b, c, d>>
      BY <3>1, JoinsFour
    <3>3. f \in Frames /\ g \in Frames /\ h \in Frames /\ i \in Frames
      BY <2>3, <2>4, <2>5
    <3>4. Below \o <<f>> \o <<g, h, i>> = Below \o <<f, g, h, i>>
      BY <3>2, <3>3, ZenonT(60)
    <3> QED BY <2>6, <3>4
  <2>8. Reaches(src, p, p') /\ Balanced(p, p', OpenedBy(Top), OpenedBy(Top))
    BY <2>2, <2>6, StayOver
  <2>9. Carries
    BY <2>1, <2>2, <2>6, <2>8, CarriesOn
  <2>10. Link(f, g) /\ Link(g, h) /\ Link(h, i) /\ TopReady(p', i)
    BY <2>3, <2>4, <2>5 DEF Link, TopReady, Helpers, Brackets
  <2>11. Inside(f, g) = OpenedBy(Top) /\ Inside(g, h) = "none" /\ Inside(h, i) = "none"
    BY <2>3, <2>4, <2>5 DEF Inside, Helpers
  <2>12. f.fn \notin Helpers
    BY <2>3 DEF Helpers
  <2> QED BY <2>2, <2>3, <2>4, <2>5, <2>7, <2>8, <2>9, <2>10, <2>11, <2>12, MoveFour
<1>7. CASE InstMemberEnd
  <2> DEFINE q == ExpectItemEnd(p)
  <2>1. Running("inst", "element") /\ UNCHANGED loop /\ Needed /\ Goto(q, "loop")
    BY <1>7 DEF InstMemberEnd
  <2>2. Stepping /\ Top.pc = "element"
    BY <2>1, Here DEF Helpers
  <2>3. /\ Reaches(src, p, q) /\ (q.panic \/ q.previous.type \in ItemEnds)
        /\ q.err.why = "none" => \A b : Balanced(p, q, b, b)
    BY <2>2, ItemEndOver
  <2> HIDE DEF q
  <2> QED BY <1>1, <1>2, <2>1, <2>2, <2>3, GoesTo
<1> QED BY <1>3, <1>4, <1>5, <1>6, <1>7

(***************************************************************************)
(* What ends a call of parser_expect or parser_match.                      *)
(***************************************************************************)
\* The function revealed is inside its bracket if the token was that bracket.
LEMMA HelperEnds ==
    ASSUME ParserInv, ExpectOrMatch
    PROVE  ParserInv'
<1> DEFINE q == IF Top.fn = "expect" THEN Expect(p, Top.pc) ELSE Match(p, Top.pc)
<1>1. /\ mode = "parsing" /\ stack # << >> /\ Top.fn \in Helpers /\ p' = q /\ stack' = Below
      /\ UNCHANGED <<src, ret, hole, mode, given, start>>
  BY DEF ExpectOrMatch, InFunction, Helpers
<1>2. Typed /\ Placed /\ Shaped /\ Valued /\ BracketsAwaited
  BY DEF ParserInv
<1>3. /\ Reaches(src, p, q)
      /\ Top.fn = "expect" => q.panic \/ (Advances(p, q) /\ p.current.type = Top.pc)
      /\ q.panic \/ Stays(p, q) \/ (Advances(p, q) /\ p.current.type = Top.pc)
  BY <1>1, <1>2, ExpectReaches, MatchReaches DEF Typed, Placed, Helpers
<1> HIDE DEF q
<1>4. PICK n \in Nat : n = Len(stack) - 1
  BY <1>1, <1>2, Tops DEF Typed
<1>5. /\ stack \in Seq(Frames) /\ Len(stack) = n + 1 /\ Below \in Seq(Frames) /\ Len(Below) = n
      /\ \A i \in 1 .. n : Below[i] = stack[i]
      /\ Top = stack[n + 1]
  <2>1. stack \in Seq(Frames)
    BY <1>2 DEF Typed
  <2>2. Len(stack) = n + 1
    BY <1>1, <1>4, <2>1, Tops
  <2> QED BY <1>1, <1>4, <2>1, <2>2, Tops DEF Top
<1>6. n # 0
  BY <1>1, <1>2, <1>5 DEF Shaped, Owners, Helpers
<1>7. PICK f \in Frames : f = stack[n] /\ f = Below[n]
  BY <1>5, <1>6, ElementOfSeq
<1>8. /\ Link(f, Top) /\ Top.pc \notin {"loop", "element"} /\ f.pc # "element"
      /\ f.pc = "loop" => Top.fn = "expect" /\ Top.pc = OpenerOf(f.fn)
      /\ f.pc # "loop" => Top.pc \notin Brackets
  <2>1. n \in 1 .. Len(stack) - 1
    BY <1>5, <1>6
  <2>2. Link(stack[n], stack[n + 1])
    BY <1>2, <2>1 DEF Shaped, Linked
  <2>3. Link(f, Top)
    BY <1>5, <1>7, <2>2
  <2> QED BY <1>1, <2>3 DEF Link, Owners, Helpers
<1>9. Typed'
  BY <1>1, <1>2, <1>5 DEF Typed
<1>10. Placed'
  <2>1. Sane(src, q) /\ (Stays(p, q) \/ Advances(p, q))
    BY <1>3 DEF Reaches
  <2>2. start \in Int /\ p.current.at \in Int /\ p.next.at \in Int
    BY <1>2 DEF Typed, Placed, Sane, Parsers, Tokens
  <2>3. start <= q.current.at
    BY <1>1, <1>2, <2>1, <2>2 DEF Placed, Sane, Stays, Advances
  <2> QED BY <1>1, <2>1, <2>3 DEF Placed
<1>11. Shaped'
  <2>1. Linked(Below)
    <3>1. \A k \in 1 .. n - 1 : /\ k \in 1 .. Len(stack) - 1
                                /\ Below[k] = stack[k] /\ Below[k + 1] = stack[k + 1]
      BY <1>5
    <3> QED BY <1>2, <1>5, <3>1 DEF Shaped, Linked
  <2>2. Below # << >> /\ Below[1] = stack[1]
    BY <1>5, <1>6, EmptySeq
  <2>3. stack[1].fn \in Owners
    BY <1>1, <1>2 DEF Shaped
  <2>4. TopReady(q, f)
    <3>1. f.pc = "loop" => q.panic \/ q.previous.type \in Openers
      <4> SUFFICES ASSUME f.pc = "loop", ~q.panic PROVE q.previous.type \in Openers
        OBVIOUS
      <4>1. Advances(p, q) /\ p.current.type = OpenerOf(f.fn)
        BY <1>3, <1>8
      <4> QED BY <4>1 DEF Advances, OpenerOf, Openers
    <3>2. ~(f.fn = "item" /\ f.pc = "start")
      BY <1>8 DEF Link
    <3> QED BY <3>1, <3>2 DEF TopReady
  <2>5. Top' = f
    BY <1>1, <1>5, <1>7 DEF Top
  <2> QED BY <1>1, <2>1, <2>2, <2>3, <2>4, <2>5 DEF Shaped
<1>12. Valued'
  <2>1. Sane(src, q) /\ (Stays(p, q) \/ Advances(p, q)) /\ (p.panic => q.panic)
    BY <1>3 DEF Reaches
  <2>2. start \in Nat /\ p.previous.at \in Nat /\ p.current.at \in Nat /\ q.previous.at \in Nat
    BY <1>2, <2>1 DEF Typed, Placed, Sane, Parsers, Tokens
  <2>3. p.previous.at <= q.previous.at
    BY <1>2, <2>1, <2>2 DEF Placed, Sane, Stays, Advances
  <2>4. NanBefore(src, start, p) => NanBefore(src, start, q)
    BY <2>2, <2>3 DEF NanBefore
  <2>5. NanBefore(src, start, p)' <=> NanBefore(src, start, q)
    BY <1>1 DEF NanBefore
  <2>6. ret = Null \/ hole => q.panic \/ NanBefore(src, start, q)
    BY <1>1, <1>2, <2>1, <2>4 DEF Valued
  <2>7. stack' # << >>
    BY <1>1, <1>5, <1>6, EmptySeq
  <2>8. CrashNeedsError' /\ AcceptedIsWhole'
    BY <1>1 DEF CrashNeedsError, AcceptedIsWhole
  <2> QED BY <1>1, <2>5, <2>6, <2>7, <2>8 DEF Valued
<1>13. Panicked'
  BY <1>1 DEF Panicked
<1>14. BracketsAwaited'
  <2> SUFFICES ASSUME q.err.why = "none"
               PROVE  q.lexer.depths = Track(Track(Awaited(Below)[n], q.current.type), q.next.type)
    BY <1>1, <1>5 DEF BracketsAwaited
  <2> DEFINE V == Awaited(stack)[n - 1]
  <2>1. ~q.panic /\ p.err.why = "none"
    BY <1>3 DEF Reaches, Sane
  <2>2. n \in 1 .. Len(stack) /\ n + 1 \in 1 .. Len(stack) /\ n \in 1 .. Len(Below) /\ n - 1 \in Nat
    BY <1>5, <1>6
  <2>3. Opened(stack, n) = "none"
    <3>1. n < Len(stack) /\ stack[n + 1].fn \in {"expect", "match"}
      BY <1>1, <1>5 DEF Helpers
    <3> QED BY <3>1, OpenedIs
  <2>4. Opened(stack, n + 1) = "none"
    <3>1. Opened(stack, n + 1) = OpenedBy(Top)
      BY <1>5, OpenedIs
    <3> QED BY <1>8, <3>1, OpenedByIs
  <2>5. Opened(Below, n) = OpenedBy(f)
    BY <1>5, <1>7, OpenedIs
  <2>6. Awaited(Below)[n - 1] = V
    <3>1. \A k \in 1 .. n - 1 : Opened(Below, k) = Opened(stack, k)
      <4> TAKE k \in 1 .. n - 1
      <4>1. /\ k < Len(Below) /\ k < Len(stack)
            /\ Below[k] = stack[k] /\ Below[k + 1] = stack[k + 1]
        BY <1>5
      <4> QED BY <4>1, OpenedAlike
    <3>2. n - 1 <= Len(Below) /\ n - 1 <= Len(stack)
      BY <1>5
    <3> QED BY <1>5, <2>2, <3>1, <3>2, AwaitedAgree
  <2>7. "none" \notin Brackets
    BY DEF Brackets
  <2>8. Awaited(stack)[n + 1] = V
    <3>1. Awaited(stack)[n] = Track(V, "none")
      BY <1>5, <2>2, <2>3, AwaitedAdds
    <3>2. Awaited(stack)[n + 1] = Track(Awaited(stack)[n + 1 - 1], "none")
      BY <1>5, <2>2, <2>4, AwaitedAdds
    <3>3. n + 1 - 1 = n
      OBVIOUS
    <3> QED BY <2>7, <3>1, <3>2, <3>3, TrackOther
  <2>9. Awaited(Below)[n] = Track(V, OpenedBy(f))
    BY <1>5, <2>2, <2>5, <2>6, AwaitedAdds
  <2>10. p.lexer.depths = Track(Track(V, p.current.type), p.next.type)
    BY <1>2, <1>5, <2>1, <2>8 DEF BracketsAwaited
  <2> HIDE DEF V
  <2>11. CASE f.pc = "loop"
    <3>1. Advances(p, q) /\ p.current.type = OpenedBy(f)
      BY <1>3, <1>8, <2>1, <2>11, OpenedByIs
    <3> QED BY <2>9, <2>10, <3>1 DEF Advances
  <2>12. CASE f.pc # "loop"
    <3>1. OpenedBy(f) = "none"
      BY <1>8, <2>12, OpenedByIs
    <3>2. Awaited(Below)[n] = V
      BY <2>7, <2>9, <3>1, TrackOther
    <3>3. CASE Stays(p, q)
      BY <2>10, <3>2, <3>3 DEF Stays
    <3>4. CASE Advances(p, q) /\ p.current.type = Top.pc
      <4>1. Track(V, p.current.type) = V
        BY <1>8, <2>12, <3>4, TrackOther
      <4> QED BY <2>10, <3>2, <3>4, <4>1 DEF Advances
    <3> QED BY <1>3, <2>1, <3>3, <3>4
  <2> QED BY <2>11, <2>12
<1> QED BY <1>9, <1>10, <1>11, <1>12, <1>13, <1>14 DEF ParserInv

(***************************************************************************)
(* The loop over items.                                                    *)
(***************************************************************************)
\* What the lexer puts at the end of a line follows a token that can end an item.
LEMMA SemisFollow ==
    ASSUME NEW q, Sane(src, q)
    PROVE  /\ q.current.type = "vsemi" => q.previous.type \notin ItemEnds
           /\ q.next.type = "vsemi" => q.current.type \notin ItemEnds
  BY DEF Sane, Enders, ItemEnds

LEMMA ItemBegins ==
    ASSUME ParserInv, NextItem
    PROVE  ParserInv'
<1>1. /\ mode = "ready" /\ ~Check(p, "eof") /\ mode' = "parsing" /\ stack' = <<Item>>
      /\ hole' = FALSE /\ start' = p.current.at /\ UNCHANGED <<src, p, ret, given>>
  BY DEF NextItem
<1>2. Typed /\ Placed /\ Shaped /\ Valued /\ BracketsAwaited
  BY DEF ParserInv
<1> DEFINE one == <<Item>>
<1>3. /\ one \in Seq(Frames) /\ Len(one) = 1 /\ one[1] = Item /\ one # << >>
      /\ Item.fn = "item" /\ Item.pc = "start" /\ OpenedBy(Item) = "none"
  <2>1. Item \in Frames
    BY BlockIs
  <2> HIDE DEF Item
  <2>2. one \in Seq(Frames) /\ Len(one) = 1 /\ one[1] = Item /\ one # << >>
    BY <2>1
  <2> QED BY <2>2, BlockIs
<1>4. stack' = one /\ stack = << >>
  BY <1>1, <1>2 DEF Shaped
<1> HIDE DEF one
<1>5. Typed'
  <2>1. p.current.at \in 1 .. Len(src) + 1
    BY <1>2 DEF Placed, Sane, Parsers, Tokens
  <2> QED BY <1>1, <1>2, <1>3, <1>4, <2>1 DEF Typed
<1>6. Placed'
  <2>1. p.current.at \in Int
    BY <1>2 DEF Placed, Sane, Parsers, Tokens
  <2> QED BY <1>1, <1>2, <2>1 DEF Placed
<1>7. Shaped'
  <2>1. Linked(one)
    BY <1>3 DEF Linked
  <2>2. Top' = Item
    BY <1>3, <1>4 DEF Top
  <2>3. TopReady(p', Item)
    BY <1>1, <1>2, <1>3 DEF Shaped, TopReady, Check
  <2> QED BY <1>1, <1>3, <1>4, <2>1, <2>2, <2>3 DEF Shaped, Owners
<1>8. Valued'
  <2>1. ret' # Null
    BY <1>1, <1>2, <1>4 DEF Valued
  <2>2. CrashNeedsError' /\ AcceptedIsWhole'
    BY <1>1 DEF CrashNeedsError, AcceptedIsWhole
  <2> QED BY <1>1, <2>1, <2>2 DEF Valued
<1>9. Panicked'
  BY <1>1 DEF Panicked
<1>10. BracketsAwaited'
  <2>1. Awaited(stack)[Len(stack)] = InitLexer.depths
    <3>1. << >> \in Seq(Frames) /\ Len(<< >>) = 0
      BY EmptySeq
    <3> QED BY <1>4, <3>1, AwaitedAdds
  <2>2. Awaited(one)[Len(one)] = InitLexer.depths
    <3>1. Opened(one, 1) = "none"
      BY <1>3, OpenedIs
    <3>2. Awaited(one)[0] = InitLexer.depths /\ Awaited(one)[1] = Track(Awaited(one)[1 - 1], "none")
      BY <1>3, <3>1, AwaitedAdds
    <3>3. 1 - 1 = 0 /\ "none" \notin Brackets
      BY DEF Brackets
    <3> QED BY <1>3, <3>2, <3>3, TrackOther
  <2> QED BY <1>1, <1>2, <1>4, <2>1, <2>2 DEF BracketsAwaited
<1> QED BY <1>5, <1>6, <1>7, <1>8, <1>9, <1>10 DEF ParserInv

LEMMA ItemsEnd ==
    ASSUME ParserInv, NoMoreItems \/ GiveItem
    PROVE  ParserInv'
<1>1. UNCHANGED <<src, p, stack, ret, hole, start>>
  BY DEF NoMoreItems, GiveItem
<1>2. Typed /\ Placed /\ Shaped /\ Valued /\ Panicked /\ BracketsAwaited
  BY DEF ParserInv
<1>3. \/ mode = "ready" /\ mode' = "done" /\ given' = given
      \/ mode = "parsing" /\ stack = << >> /\ ~p.panic /\ mode' = "ready" /\ given' = "item"
  BY DEF NoMoreItems, GiveItem, Parsed
<1>4. stack = << >> /\ Len(stack) = 0
  BY <1>2, <1>3, EmptySeq DEF Shaped
<1>5. Typed'
  BY <1>1, <1>2, <1>3 DEF Typed
<1>6. Placed'
  BY <1>1, <1>2, <1>3 DEF Placed
<1>7. Shaped'
  <2>1. mode' = "ready" => p.current.type # "vsemi"
    <3>1. mode' = "ready" => p.previous.type \in ItemEnds
      BY <1>2, <1>3 DEF Shaped
    <3> QED BY <1>2, <3>1, SemisFollow DEF Placed
  <2> QED BY <1>1, <1>2, <1>3, <1>4, <2>1 DEF Shaped, Linked, Check
<1>8. Valued'
  <2>1. mode' = "ready" /\ hole => NanBefore(src, start, p)
    BY <1>2, <1>3 DEF Valued
  <2>2. AcceptedIsWhole'
    BY <1>1, <1>3, <2>1 DEF AcceptedIsWhole, NanBefore
  <2>3. mode' \notin {"parsing", "crashed"}
    BY <1>3
  <2> QED BY <1>1, <1>2, <2>2, <2>3 DEF Valued, CrashNeedsError, Check
<1>9. Panicked'
  BY <1>1, <1>2, <1>3 DEF Panicked
<1>10. BracketsAwaited'
  BY <1>1, <1>2 DEF BracketsAwaited
<1> QED BY <1>5, <1>6, <1>7, <1>8, <1>9, <1>10 DEF ParserInv

LEMMA SyncStarts ==
    ASSUME ParserInv, StartSync
    PROVE  ParserInv'
<1>1. /\ mode = "parsing" /\ stack = << >> /\ p.panic /\ p' = [p EXCEPT !.panic = FALSE]
      /\ \/ p.previous.type \in {";", "vsemi"} /\ mode' = "ready" /\ given' = "error"
         \/ mode' = "syncing" /\ given' = given
      /\ UNCHANGED <<src, stack, ret, hole, start>>
  BY DEF StartSync, Parsed, Recover
<1>2. Typed /\ Placed /\ Shaped /\ Valued /\ Panicked /\ BracketsAwaited
  BY DEF ParserInv
<1>3. /\ p' \in Parsers(src) /\ Stays(p, p') /\ ~p'.panic /\ p'.err = p.err
      /\ p.err.why # "none"
  BY <1>1, <1>2 DEF Placed, Sane, Parsers, Stays
<1>4. Sane(src, p')
  BY <1>2, <1>3 DEF Placed, Sane, Stays
<1>5. Typed'
  BY <1>1, <1>2 DEF Typed
<1>6. Placed'
  BY <1>1, <1>4 DEF Placed
<1>7. Shaped'
  <2>1. mode' = "ready" => p'.current.type # "vsemi"
    <3>1. mode' = "ready" => p'.previous.type \in ItemEnds
      BY <1>1, <1>3 DEF Stays, ItemEnds
    <3> QED BY <1>4, <3>1, SemisFollow
  <2> QED BY <1>1, <1>2, <2>1 DEF Shaped, Linked, Check
<1>8. Valued'
  <2>1. mode' \notin {"parsing", "crashed"}
    BY <1>1
  <2>2. AcceptedIsWhole'
    BY <1>1 DEF AcceptedIsWhole
  <2> QED BY <1>1, <1>2, <1>3, <2>1, <2>2 DEF Valued, CrashNeedsError, Check, Stays
<1>9. Panicked'
  BY <1>3 DEF Panicked
<1>10. BracketsAwaited'
  BY <1>3 DEF BracketsAwaited
<1> QED BY <1>5, <1>6, <1>7, <1>8, <1>9, <1>10 DEF ParserInv

LEMMA TokenSkipped ==
    ASSUME ParserInv, SyncToken
    PROVE  ParserInv'
<1> DEFINE q == Advance(p)
<1>1. /\ mode = "syncing" /\ p' = q
      /\ \/ p.current.type \in ItemEnds /\ mode' = "ready" /\ given' = "error"
         \/ mode' = "syncing" /\ given' = given
      /\ UNCHANGED <<src, stack, ret, hole, start>>
  BY DEF SyncToken, AtItemEnd, ItemEnds
<1>2. Typed /\ Placed /\ Shaped /\ Valued /\ Panicked /\ BracketsAwaited
  BY DEF ParserInv
<1>3. /\ Reaches(src, p, q) /\ Advances(p, q)
      /\ q.panic <=> p.panic \/ p.next.type = "error"
  BY <1>2, AdvanceReaches DEF Typed, Placed
<1> HIDE DEF q
<1>4. stack = << >> /\ p.err.why # "none" /\ q.err.why # "none"
  BY <1>1, <1>2, <1>3 DEF Shaped, Panicked, Reaches
<1>5. Typed'
  BY <1>1, <1>2 DEF Typed
<1>6. Placed'
  BY <1>1, <1>3 DEF Placed, Reaches
<1>7. Shaped'
  <2>1. mode' = "ready" => q.current.type # "vsemi"
    BY <1>1, <1>2, <1>3, SemisFollow DEF Placed, Advances, ItemEnds
  <2> QED BY <1>1, <1>2, <1>4, <2>1 DEF Shaped, Linked, Check
<1>8. Valued'
  <2>1. mode' \notin {"parsing", "crashed"}
    BY <1>1
  <2>2. AcceptedIsWhole'
    BY <1>1 DEF AcceptedIsWhole
  <2>3. p.current.type = "eof" => q.current.type = "eof"
    BY <1>2, <1>3 DEF Placed, Sane, Advances
  <2> QED BY <1>1, <1>2, <2>1, <2>2, <2>3 DEF Valued, CrashNeedsError, Check
<1>9. Panicked'
  <2>1. /\ p.current.at \in Nat /\ q.current.at \in Nat /\ p.current.at <= q.current.at
        /\ q.current.at >= 1 /\ Reads(src, q.current)
    BY <1>2, <1>3 DEF Placed, Reaches, Sane, Parsers, Tokens, Advances
  <2>2. CASE p.panic
    BY <1>1, <1>2, <1>4, <2>1, <2>2 DEF Panicked
  <2>3. CASE p.next.type = "error"
    <3>1. LexemeAt(src, q.current.at) \in {"error", "open"}
      BY <1>3, <2>1, <2>3 DEF Advances, Reads
    <3> QED BY <1>1, <1>4, <2>1, <3>1 DEF Panicked
  <2>4. CASE ~q.panic
    BY <1>1, <1>4, <2>4 DEF Panicked
  <2> QED BY <1>3, <2>2, <2>3, <2>4
<1>10. BracketsAwaited'
  BY <1>1, <1>4 DEF BracketsAwaited
<1> QED BY <1>5, <1>6, <1>7, <1>8, <1>9, <1>10 DEF ParserInv

LEMMA ParserBegins ==
    ASSUME Init
    PROVE  ParserInv
<1> DEFINE first == NextToken(src, InitLexer)
           second == NextToken(src, first.lexer)
           q == [lexer |-> second.lexer, previous |-> Token("eof", 0),
                 current |-> first.token, next |-> second.token,
                 panic |-> FALSE, err |-> [why |-> "none", at |-> 0]]
<1>1. /\ src \in Seq(Lexemes) /\ p = (IF first.token.type = "error" THEN Report(q, "lexer") ELSE q)
      /\ stack = << >> /\ ret = Absent /\ hole = FALSE /\ mode = "ready" /\ given = "nothing"
      /\ start = 1
  BY SourcesAssumption DEF Init
<1>2. InitLexer \in LexerOver(src) /\ InitLexer.last = "none"
  <2>1. NoDepth \in Depths
    BY DEF NoDepth, Depths
  <2>2. <<NoDepth>> \in Seq(Depths)
    BY <2>1
  <2>3. 1 \in 1 .. Len(src) + 1
    BY <1>1
  <2> QED BY <2>2, <2>3 DEF InitLexer, LexerOver
<1>3. Scanned(src, InitLexer, first)
  BY <1>1, <1>2, NextTokenScans
<1>4. Scanned(src, first.lexer, second)
  BY <1>1, <1>3, NextTokenScans DEF Scanned
<1>5. /\ q.lexer = second.lexer /\ q.previous = Token("eof", 0) /\ q.current = first.token
      /\ q.next = second.token /\ q.panic = FALSE /\ q.err = [why |-> "none", at |-> 0]
      /\ q = [lexer |-> q.lexer, previous |-> q.previous, current |-> q.current, next |-> q.next,
              panic |-> q.panic, err |-> q.err]
  OBVIOUS
<1> HIDE DEF first, second, q
<1>6. q.current.type # "vsemi"
  BY <1>2, <1>3, <1>5 DEF Scanned, Enders
<1>7. Sane(src, q)
  <2>1. q.previous \in [type : TokenTypes, at : 0 .. Len(src) + 1] /\ q.previous.at = 0
    <3>1. "eof" \in TokenTypes /\ 0 \in 0 .. Len(src) + 1
      BY <1>1 DEF TokenTypes
    <3> QED BY <1>5, <3>1 DEF Token
  <2>2. q.err \in [why : Reasons, at : 0 .. Len(src) + 1]
    <3>1. "none" \in Reasons /\ 0 \in 0 .. Len(src) + 1
      BY <1>1 DEF Reasons
    <3> QED BY <1>5, <3>1
  <2>3. q.lexer \in LexerOver(src) /\ q.current \in Tokens(src) /\ q.next \in Tokens(src)
    BY <1>3, <1>4, <1>5 DEF Scanned
  <2>4. q \in Parsers(src)
    BY <1>5, <2>1, <2>2, <2>3 DEF Parsers
  <2>5. /\ Reads(src, q.current) /\ Reads(src, q.next)
        /\ q.lexer.last = q.next.type
        /\ q.next.type = "vsemi" => q.current.type \in Enders
        /\ q.next.type = "eof" => q.lexer.pos = Len(src) + 1
        /\ q.current.type = "eof" => q.next.type = "eof"
    BY <1>3, <1>4, <1>5 DEF Scanned
  <2>6. q.previous.at <= q.current.at
    BY <1>1, <2>1, <2>3 DEF Tokens
  <2>7. q.current.at <= q.next.at /\ q.next.at <= q.lexer.pos
    <3>1. first.token.at <= first.lexer.pos /\ first.lexer.pos <= second.token.at
          /\ second.token.at <= second.lexer.pos
      BY <1>3, <1>4 DEF Scanned
    <3>2. first.token.at \in Nat /\ first.lexer.pos \in Nat /\ second.token.at \in Nat
      BY <1>3, <1>4 DEF Scanned, Tokens, LexerOver
    <3> QED BY <1>5, <3>1, <3>2
  <2> QED BY <1>5, <1>6, <2>4, <2>5, <2>6, <2>7 DEF Sane
<1>8. /\ Sane(src, p) /\ Stays(q, p)
      /\ p.panic => q.current.type = "error"
      /\ p.err.why = "none" => p = q
  <2>1. "lexer" \in Reasons \ {"none"}
    BY DEF Reasons
  <2>2. /\ Sane(src, Report(q, "lexer")) /\ Stays(q, Report(q, "lexer"))
        /\ Report(q, "lexer").err.why # "none"
    BY <1>1, <1>7, <2>1, ReportReaches DEF Reaches, Sane
  <2> QED BY <1>1, <1>5, <1>7, <2>2 DEF Stays
<1>9. Typed
  <2>1. start \in 1 .. Len(src) + 1
    BY <1>1
  <2>2. stack \in Seq(Frames)
    BY <1>1, EmptySeq
  <2> QED BY <1>1, <2>1, <2>2 DEF Typed, Results
<1>10. Placed
  BY <1>1, <1>8 DEF Placed
<1>11. Shaped
  <2>1. Len(stack) = 0
    BY <1>1, EmptySeq
  <2> QED BY <1>1, <1>6, <1>8, <2>1 DEF Shaped, Linked, Check, Stays
<1>12. Valued
  BY <1>1 DEF Valued, CrashNeedsError, AcceptedIsWhole, Absent, Null
<1>13. Panicked
  <2> SUFFICES ASSUME p.panic
               PROVE  \E i \in 1 .. p.current.at : LexemeAt(src, i) \in {"error", "open"}
    BY <1>1 DEF Panicked
  <2>1. p.current.type = "error"
    BY <1>8 DEF Stays
  <2>2. LexemeAt(src, p.current.at) \in {"error", "open"} /\ p.current.at \in 1 .. p.current.at
    BY <1>8, <2>1 DEF Sane, Reads, Parsers, Tokens
  <2> QED BY <2>2
<1>14. BracketsAwaited
  <2> SUFFICES ASSUME p.err.why = "none"
               PROVE  p.lexer.depths = Track(Track(Awaited(stack)[Len(stack)], p.current.type),
                                             p.next.type)
    BY DEF BracketsAwaited
  <2>1. Awaited(stack)[Len(stack)] = InitLexer.depths
    <3>1. stack \in Seq(Frames) /\ Len(stack) = 0
      BY <1>1, EmptySeq
    <3> QED BY <3>1, AwaitedAdds
  <2>2. first.lexer.depths = Track(InitLexer.depths, first.token.type)
        /\ second.lexer.depths = Track(first.lexer.depths, second.token.type)
    BY <1>3, <1>4 DEF Scanned
  <2> QED BY <1>5, <1>8, <2>1, <2>2
<1> QED BY <1>9, <1>10, <1>11, <1>12, <1>13, <1>14 DEF ParserInv

LEMMA ParserInvStays ==
    ASSUME ParserInv, UNCHANGED vars
    PROVE  ParserInv'
<1>1. UNCHANGED <<src, p, stack, ret, hole, mode, given, start>>
  BY DEF vars
<1>2. Typed /\ Placed /\ Shaped /\ Valued /\ Panicked /\ BracketsAwaited
  BY DEF ParserInv
<1>3. Typed' /\ Placed'
  BY <1>1, <1>2 DEF Typed, Placed
<1>4. Top' = Top
  BY <1>1 DEF Top
<1>5. Shaped'
  BY <1>1, <1>2, <1>4 DEF Shaped, Linked, Check
<1>6. CrashNeedsError' /\ AcceptedIsWhole'
  BY <1>1, <1>2 DEF Valued, CrashNeedsError, AcceptedIsWhole
<1>7. Valued'
  BY <1>1, <1>2, <1>6 DEF Valued, NanBefore, Check
<1>8. Panicked' /\ BracketsAwaited'
  BY <1>1, <1>2 DEF Panicked, BracketsAwaited
<1> QED BY <1>3, <1>5, <1>7, <1>8 DEF ParserInv

(***************************************************************************)
(* The theorems.                                                           *)
(***************************************************************************)
LEMMA ParserInvKept ==
    ASSUME ParserInv, Next
    PROVE  ParserInv'
<1>1. CASE NextItem
  BY <1>1, ItemBegins
<1>2. CASE NoMoreItems \/ GiveItem
  BY <1>2, ItemsEnd
<1>3. CASE StartSync
  BY <1>3, SyncStarts
<1>4. CASE SyncToken
  BY <1>4, TokenSkipped
<1>5. CASE ExpectOrMatch
  BY <1>5, HelperEnds
<1>6. CASE ItemSteps
  BY <1>6, ItemStarts, ItemGoesOn DEF ItemSteps
<1>7. CASE VarSteps
  BY <1>7, VarGoesOn DEF VarSteps
<1>8. CASE TypeSteps
  BY <1>8, TypeStarts, TypeGoesOn DEF TypeSteps
<1>9. CASE PrattSteps
  BY <1>9, PrefixConstructs, PrefixEnds, InfixGoesOn, PartBuilt, Crashes DEF PrattSteps
<1>10. CASE ConstructSteps
  BY <1>10, ListGoesOn, IfGoesOn, ForGoesOn, FnGoesOn, TypeTokenGoesOn DEF ConstructSteps
<1>11. CASE Stop
  BY <1>11, ParserInvStays DEF Stop
<1> QED BY <1>1, <1>2, <1>3, <1>4, <1>5, <1>6, <1>7, <1>8, <1>9, <1>10, <1>11 DEF Next

\* The invariant that the properties of the parser follow from holds for every text: the
\* functions wait for each other as the grammar says, lexer and parser agree on the brackets
\* that are open, and a part is missing only where an error or a NaN was met.
THEOREM ParserInvariant == Spec => []ParserInv
<1>1. ParserInv /\ UNCHANGED vars => ParserInv'
  BY ParserInvStays
<1>2. ParserInv /\ [Next]_vars => ParserInv'
  BY <1>1, ParserInvKept
<1> QED BY ParserBegins, <1>2, PTL DEF Spec

\* Parser, lexer and call stack keep their types: no operation of the parser leaves the text,
\* and no token is of a type that the lexer does not make.
THEOREM ParserTypes == Spec => []TypeOK
<1>1. ParserInv => TypeOK
  <2> SUFFICES ASSUME ParserInv PROVE TypeOK
    OBVIOUS
  <2>1. Typed /\ p \in Parsers(src)
    BY DEF ParserInv, Placed, Sane
  <2>2. Len(src) \in Nat
    BY <2>1 DEF Typed
  <2>3. LexerOver(src) = LexerType
    BY DEF LexerOver, LexerType, Depths
  <2>4. Tokens(src) \subseteq TokenRecords
    BY <2>2 DEF Tokens, TokenRecords
  <2>5. p \in [lexer : LexerType, previous : TokenRecords, current : TokenRecords,
               next : TokenRecords, panic : BOOLEAN,
               err : [why : Reasons, at : 0 .. Len(src) + 1]]
    BY <2>1, <2>3, <2>4 DEF Parsers, TokenRecords
  <2> QED BY <2>1, <2>5 DEF Typed, TypeOK, Frames
<1> QED BY <1>1, ParserInvariant, PTL

\* Lexer and parser count open brackets independently, and agree as long as no error was met:
\* a text without errors has each line end where the parser expects it.
THEOREM LexerFollowsParser == Spec => []BracketsAwaited
<1>1. ParserInv => BracketsAwaited
  BY DEF ParserInv
<1> QED BY <1>1, ParserInvariant, PTL

\* No item is looked for at a semicolon that the lexer inserted: empty lines are not items.
THEOREM NoItemIsEmpty == Spec => []NoEmptyItem
<1>1. ParserInv => NoEmptyItem
  BY DEF ParserInv, Shaped, NoEmptyItem, TopReady, Check
<1> QED BY <1>1, ParserInvariant, PTL

\* An item given without an error has all its parts, unless it uses NaN or infinity.
THEOREM GivenItemsAreWhole == Spec => []AcceptedIsWhole
<1>1. ParserInv => AcceptedIsWhole
  BY DEF ParserInv, Valued
<1> QED BY <1>1, ParserInvariant, PTL

\* A compound assignment has a NULL target only behind an error, NaN or infinity.
THEOREM CrashesFollowErrors == Spec => []CrashNeedsError
<1>1. ParserInv => CrashNeedsError
  BY DEF ParserInv, Valued
<1> QED BY <1>1, ParserInvariant, PTL

\* The panic over one item does not reach the next, unless the skipped text holds a character
\* that no token starts with, or a comment without an end.
THEOREM PanicEndsWithItem == Spec => []PanicNeedsBadToken
<1>1. ParserInv => PanicNeedsBadToken
  BY DEF ParserInv, Panicked, PanicNeedsBadToken
<1> QED BY <1>1, ParserInvariant, PTL
=============================================================================
