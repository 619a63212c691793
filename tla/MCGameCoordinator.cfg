SPECIFICATION FairSpec
INVARIANTS
    TypeOK
    TurnOrder
    UnfinishedGameWasAbandoned
PROPERTIES
    MarksNeverOverwritten
    GameLoopTerminates
