--------------------------- MODULE MCMultiServer ----------------------------
EXTENDS MultiServer, TLC

CONSTANTS c1, c2, c3

MCTwoClients == {c1, c2}
MCThreeClients == {c1, c2, c3}
MCInputs == {MaxInt}

\* The clients that nobody kills are interchangeable.
MCSymmetry == Permutations({c2, c3})
=============================================================================
