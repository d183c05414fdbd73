----------------------------- MODULE MCPortfolio ----------------------------
EXTENDS Portfolio
L(src, at, tag, out, sat) ==
    [src |-> src, ref |-> IF src = "strike" THEN "a" ELSE "", at |-> at, tag |-> tag, out |-> out,
     sat |-> sat, usd |-> 4, price |-> 4, cost |-> 4, comma |-> "none"]
\* A row of each exchange, and one of Strike's that is no balance.
FewLines == {
    L("river", 0, "buy", "usd", 1), L("coinbase", 1, "buy", "usd", 1), L("swan", 0, "withdrawal", "btc", 1),
    L("strike", 1, "Purchase", "usd", 1), L("strike", 1, "Loan collateral", "btc", 1)}
FewApiRows == {
    [src |-> "strike", ref |-> "a", at |-> 1, type |-> "receive", sat |-> 1, usd |-> 0, cost |-> 0]}
=============================================================================
