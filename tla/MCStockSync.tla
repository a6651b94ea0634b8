---------------------------- MODULE MCStockSync ----------------------------
\* Instances of StockSync for TLC.
EXTENDS StockSync, TLC

CONSTANTS p1, p2

Quantities == {-1, 2}
Levels == {1}
Both == {{p1, p2}}
One == {{p1}}
ProductSymmetry == Permutations({p1, p2})
=============================================================================
