------------------------------ MODULE MCTxDma ------------------------------
EXTENDS TxDma, TLC

Symmetry == Permutations(Pkts)
=============================================================================
