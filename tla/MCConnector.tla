----------------------------- MODULE MCConnector -----------------------------
\* A small instance of Connector: single and double batches, with values stored
\* inline, in one unit and in two units of the extent region.
EXTENDS Connector

CONSTANTS k1, k2

E(k, n) == [key |-> k, size |-> n]
MCBatches ==
    {<<E(k1, 0)>>, <<E(k2, 2)>>, <<E(k2, 1), E(k1, 2)>>, <<E(k1, 1), E(k1, 0)>>}
=============================================================================
