-------------------------- MODULE MCBoundedBuffer ---------------------------
EXTENDS BoundedBuffer

CONSTANTS p1, p2, k1, k2

MCProducers == {p1, p2}
MCConsumers == {k1, k2}
MCValues == {0, 1}
=============================================================================
