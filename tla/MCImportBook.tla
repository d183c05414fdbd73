---------------------------- MODULE MCImportBook ----------------------------
EXTENDS ImportBook
L(src, ref, at, tag, out, sat, usd, comma) ==
    [src |-> src, ref |-> ref, at |-> at, tag |-> tag, out |-> out, sat |-> sat, usd |-> usd,
     price |-> usd \div 2, cost |-> 0, comma |-> comma]
\* A purchase, corrected, with a cost basis, and a sale; two fills of one second; a sale of more than
\* there is; transfers; a trade of nothing.
SomeLines == {
    L("strike", "a", 1, "Purchase", "usd", 4, 8, "none"),
    [L("strike", "a", 1, "Purchase", "usd", 2, 4, "none") EXCEPT !.cost = 6],
    L("strike", "b", 3, "Sale", "btc", 4, 12, "none"),
    L("river", "", 0, "buy", "usd", 2, 8, "none"),
    L("river", "", 0, "buy", "usd", 2, 4, "none"),
    L("river", "", 2, "sell", "btc", 4, 8, "none"),
    L("coinbase", "x", 2, "buy", "usd", 2, 2, "none"),
    L("coinbase", "y", 1, "convert", "btc", 2, 2, "none"),
    L("swan", "", 0, "trade", "usd", 2, 6, "none"),
    L("swan", "", 0, "trade", "usd", 0, 6, "none"),
    L("swan", "", 1, "deposit", "none", 2, 0, "none"),
    L("swan", "w", 2, "withdrawal", "btc", 2, 0, "none")}
\* A purchase of a thousand dollars and more.
LargeLines == {
    L("strike", "c", 0, "Purchase", "usd", 2, 1200, "no fee"),
    L("strike", "d", 0, "Purchase", "usd", 2, 1200, "dollar fee"),
    L("strike", "b", 3, "Sale", "btc", 4, 12, "none")}
R(src, ref, at, type, sat, usd, cost) ==
    [src |-> src, ref |-> ref, at |-> at, type |-> type, sat |-> sat, usd |-> usd, cost |-> cost]
\* The APIs tell the same trade as a file again, under an id of their own.
SomeApiRows == {
    R("strike", "a", 1, "receive", 4, 0, 0),
    R("coinbase", "u", 2, "buy", 2, 0, 2)}
=============================================================================
