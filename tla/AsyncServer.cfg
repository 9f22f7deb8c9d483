\* Two connections, as many as the table holds; one client may be killed.
SPECIFICATION FairSpec
CONSTANTS
    c1 = c1
    c2 = c2
    c3 = c3
    NoClient = NoClient
    Clients <- MCTwoClients
    Inputs <- MCInputs
    Junk <- MCJunk
    MaxInt = 7
    MaxPending = 2
    Fragile = {c1}
INVARIANTS TableMatchesFiles SlotMatchesConversation HandlersDoNotBlock WaitsForOpenFiles
PROPERTIES ServiceSpec EveryClientEnds
