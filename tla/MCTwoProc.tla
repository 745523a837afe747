------------------------------ MODULE MCTwoProc ------------------------------
EXTENDS TwoProc
=============================================================================
