------------------------------ MODULE MCParser ------------------------------
(***************************************************************************)
(* Instances of SnukParser for TLC: a few programs that use every          *)
(* construct, and what becomes of them when one lexeme is lost or inserted *)
(***************************************************************************)
EXTENDS SnukParser

x == "ident"
Programs == {
    <<"var", x, ":", "fn", "(", "any", ",", x, ")", "->", "type", "=", x, "nl">>,
    <<x, "+", x, "*", "prefix", x, ";", x, "=", x, "=", "[", x, ",", "nl", x, "]">>,
    <<x, "op=", "(", x, "||", x, ")", ".", x, "(", x, ",", "self", ")", "nl">>,
    <<"fn", x, "(", x, ":", x, "=", "literal", ",", x, ")", "->", x, "{", "return", x, "}">>,
    <<"if", x, "{", x, "}", "else", "if", x, "{", x, "nl", "}", "else", "{", "}">>,
    <<"while", x, "{", "continue", "nl", "}", "nl", "do", "{", "return", "}", "while", x>>,
    <<"for", "{", "}", "nl", "for", ";", x, ";", x, "{", "}", "nl", "for", x, "{", "}">>,
    <<"for", "var", x, "=", x, ";", ";", "{", "}", "nl", "for", x, ";", x, ";", "{", "}">>,
    <<"type", x, "{", "var", x, "nl", "fn", x, "(", ")", "{", "}", "nl", "}">>,
    <<"type", x, x, "=", "{", x, ":", x, "nl", x, ":", x, "}", "nl", "type", x, "{", "}">>,
    <<"extend", x, "{", "nl", "const", x, "=", x, "nl", "}", "nl", "print", x, ",", x>>,
    <<"interface", x, "{", "var", x, "nl", "const", x, ":", "interface", "{", "}", "}">>,
    <<"comment", "nl", "nl", "{", x, "comment", "nl", "comment", "nl", "match", "}", "nl", "nl">> }

\* One lexeme of each kind that the parser treats differently.
Strays == {x, "nan", "error", "comment", "nl", ";", ",", ".", ":", "=", "op=",
           "(", ")", "[", "{", "}", "var", "fn", "type", "interface", "self"}

Without(s, i) == SubSeq(s, 1, i - 1) \o SubSeq(s, i + 1, Len(s))
With(s, i, l) == SubSeq(s, 1, i - 1) \o <<l>> \o SubSeq(s, i, Len(s))

Lost == UNION {{Without(s, i) : i \in 1 .. Len(s)} : s \in Programs}
Inserted == UNION {{With(s, i, l) : i \in 1 .. Len(s) + 1, l \in Strays} : s \in Programs}

\* Short texts of anything, some with a text behind them that is right.
Short == {<<l, m, ";", x>> : l \in Strays, m \in Strays}
         \cup {<<l, "op=", m>> : l \in Strays, m \in Strays}

\* A comment on lines of its own, among the members of a type.
Commented == {<<"type", x, "{", "var", x, "nl", "comment", "nl", "nl", "}", "nl">>}

\* Programs cut off by a comment that does not end.
Cut == UNION {{SubSeq(s, 1, i) \o <<"open">> : i \in 0 .. Len(s)} : s \in Programs}

Edited == Programs \cup Lost \cup Inserted \cup Short \cup Commented \cup Cut
=============================================================================
