CONSTANTS
    Scripts <- MCScripts
    MaxLogLines <- MCMaxLogLines
SPECIFICATION FairSpec
INVARIANTS
    TypeOK
    MovesUseStartedEpisode
PROPERTIES
    TesterStopsEngine
