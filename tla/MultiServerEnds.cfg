\* Two clients that connect at any moment: what must happen in the end.
SPECIFICATION FairSpec
CONSTANTS
    c1 = c1
    c2 = c2
    c3 = c3
    NoClient = NoClient
    Clients <- MCTwoClients
    Inputs <- MCInputs
    MaxInt = 7
    MaxPending = 1
    Fragile = {c1}
PROPERTIES EveryClientEnds SharedDescriptorStopsServer
