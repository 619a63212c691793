CONSTANTS
    Scripts <- MCVerboseScripts
    MaxLogLines <- MCMaxLogLines
    MaxPlies <- MCMaxPlies
SPECIFICATION FairSpec
INVARIANT EnforcementMatchesNode
