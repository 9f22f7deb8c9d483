\* Three clients, one of which may be killed, started with tcp.sh's pause between
\* them or connecting at any moment.
SPECIFICATION Spec
CONSTANTS
    c1 = c1
    c2 = c2
    c3 = c3
    NoClient = NoClient
    Clients <- MCThreeClients
    Inputs <- MCInputs
    MaxInt = 7
    MaxPending = 1
    Fragile = {c1}
INVARIANTS OneThreadPerConnection QuietMeansServed
PROPERTIES ThreadedServiceSpec
SYMMETRY MCSymmetry
