SPECIFICATION Spec
INVARIANTS
    WinnerMatchesReference
    DefaultMoveIsBestEmptyCell
    FallbackAvoidsRejectedCell
    SuggestionIsDefault
