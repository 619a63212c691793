CONSTANTS
    c1 = c1
    c2 = c2
    g1 = g1
    Procs <- MCRaceProcs
    Kind <- MCKind
    Concurrent = TRUE
SPECIFICATION Spec
PROPERTIES KeyStable
