--------------------------- MODULE MCAsyncServer ----------------------------
EXTENDS AsyncServer

CONSTANTS c1, c2, c3

MCTwoClients == {c1, c2}
MCThreeClients == {c1, c2, c3}
MCInputs == {0, MaxInt}
MCJunk == {-2, 3}
=============================================================================
