------------------------------ MODULE MCWallets -----------------------------
EXTENDS Wallets
CONSTANTS address, xpub, descriptor
KindOf == [v \in Value |-> CASE v = address -> "address" [] v = xpub -> "xpub" [] OTHER -> "descriptor"]
=============================================================================
