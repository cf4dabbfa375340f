-------------------------------- MODULE MCMru --------------------------------
\* The MRU line controller on a set of four lines: victims at position 0.
EXTENDS RecencyStack

MCVictimDepth == 0

=============================================================================
