CONSTANTS
    Scripts <- MCScripts
    MaxLogLines <- MCMaxLogLines
    MaxPlies <- MCMaxPlies
SPECIFICATION FairSpec
INVARIANT OnlyStartupTimeoutEscalates
