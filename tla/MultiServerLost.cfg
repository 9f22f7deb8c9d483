\* Two clients that connect at any moment: a connection can be lost.
SPECIFICATION FairSpec
CONSTANTS
    c1 = c1
    c2 = c2
    c3 = c3
    NoClient = NoClient
    Clients <- MCTwoClients
    Inputs <- MCInputs
    MaxInt = 7
    MaxPending = 1
    Fragile = {}
PROPERTIES MessagesPrinted
