CONSTANTS
    Scripts <- MCColdBuildScripts
    MaxLogLines <- MCMaxLogLines
    MaxPlies <- MCMaxPlies
SPECIFICATION FairSpec
PROPERTY StartupEnds
