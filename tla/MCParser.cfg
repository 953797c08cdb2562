\* Programs with one lexeme lost or inserted.  The parser stops at the end.
SPECIFICATION Spec
CONSTANT Sources <- Edited
INVARIANTS TypeOK BracketsAwaited NoEmptyItem AcceptedIsWhole CrashNeedsError PanicNeedsBadToken
PROPERTY ParsingEnds
