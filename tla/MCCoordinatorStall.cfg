CONSTANTS
    Scripts <- MCScripts
    MaxLogLines <- MCMaxLogLines
    MaxPlies <- MCMaxPlies
SPECIFICATION ClientFairSpec
PROPERTY CallsComplete
