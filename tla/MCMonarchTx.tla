---------------------------- MODULE MCMonarchTx ----------------------------
EXTENDS MonarchTx
=============================================================================
