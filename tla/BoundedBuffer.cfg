\* Two producers and two consumers on a buffer of two cells.
SPECIFICATION FairSpec
CONSTANTS
    p1 = p1
    p2 = p2
    k1 = k1
    k2 = k2
    NoThread = NoThread
    Producers <- MCProducers
    Consumers <- MCConsumers
    Values <- MCValues
    Cap = 2
INVARIANTS NoDataRace CellsAccounted InBounds
PROPERTIES StackSpec ValuesFlow
