SPECIFICATION Spec
CONSTANTS
    Texts <- ShortTexts
    Reserved <- Keywords
    Bits = 3
PROPERTIES ImplementsNextToken EveryScanMovesOn
CHECK_DEADLOCK FALSE
