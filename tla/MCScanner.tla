------------------------------ MODULE MCScanner ------------------------------
(***************************************************************************)
(* Instances of SnukScanner for TLC: all short texts over the characters   *)
(* that matter to one part of the scanner each.                            *)
(***************************************************************************)
EXTENDS SnukScanner

TextsOf(chars, n) == UNION {[1 .. k -> chars] : k \in 0 .. n}

Keywords == (<<"z">> :> "else") @@ (<<"b", "e">> :> "self")

\* Texts long enough for a binary literal that does not fit, a comment of each kind
\* between two tokens, an empty line behind a comment, a shift that is assigned.
ShortTexts ==
    TextsOf({"0", "1", "x", "b", "e", "."}, 5)
        \cup TextsOf({"0", "7", "9", "a", "e", ".", "+", "-", "_"}, 4)
        \cup TextsOf({"/", "*", "nl", " ", "z", "}"}, 5)
        \cup TextsOf({"/", "*", "nl", "x"}, 6)
        \cup TextsOf({"<", "=", ">", "&", "|", "-", "!", "@"}, 4)
        \cup TextsOf({"+", "*", "/", "%", "^", "~", "=", ";"}, 3)
        \cup TextsOf({"'", "\"", "nl", " ", "x"}, 5)
        \cup TextsOf({"z", "b", "e", "_", "9", " "}, 4)
        \cup TextsOf({"(", ")", "[", "]", "{", "}", "nl", "x"}, 4)
=============================================================================
