--------------------------- MODULE MCDelegationTree ---------------------------
EXTENDS DelegationTree
=============================================================================
