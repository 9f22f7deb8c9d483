\* Clients may be killed: safety, refinement, and what a hang-up does.
SPECIFICATION FairSpec
CONSTANTS
    c1 = c1
    c2 = c2
    c3 = c3
    NoClient = NoClient
    Clients <- MCClients
    Inputs <- MCInputs
    MaxInt = 7
    MaxPending = 1
    Fragile = {c1, c2}
INVARIANTS AtMostOneInFlight OneAtATime
PROPERTIES ServiceSpec EveryClientEnds PrintsAllOrDies
