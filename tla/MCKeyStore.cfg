CONSTANTS
    c1 = c1
    c2 = c2
    g1 = g1
    Procs <- MCProcs
    Kind <- MCKind
    Concurrent = FALSE
SPECIFICATION Spec
INVARIANTS AddressMatchesDisk
PROPERTIES KeyStable
