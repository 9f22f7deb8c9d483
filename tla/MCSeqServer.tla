---------------------------- MODULE MCSeqServer -----------------------------
EXTENDS SeqServer

CONSTANTS c1, c2, c3

MCClients == {c1, c2, c3}
MCInputs == {0, MaxInt}
=============================================================================
