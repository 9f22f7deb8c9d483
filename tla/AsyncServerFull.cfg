\* One connection more than the table has slots.
SPECIFICATION FairSpec
CONSTANTS
    c1 = c1
    c2 = c2
    c3 = c3
    NoClient = NoClient
    Clients <- MCTwoClients
    Inputs <- MCInputs
    Junk <- MCJunk
    MaxInt = 7
    MaxPending = 1
    Fragile = {}
PROPERTIES MessagesPrinted
