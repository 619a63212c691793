CONSTANTS
    Scripts <- MCScripts
    MaxLogLines <- MCMaxLogLines
    MaxPlies <- MCMaxPlies
SPECIFICATION FairSpec
INVARIANTS
    TypeOK
PROPERTIES
    CallsComplete
    GameRefinement
