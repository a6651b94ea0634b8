------------------------- MODULE MCStockValuations -------------------------
\* Instances of StockValuations for TLC.
EXTENDS StockValuations, TLC

Levels == {1}
Quantities == {-1, 2}

\* The slots are alike, and so are the locations there are at the start.
Alike == Permutations(Slot) \cup Permutations(FirstOnes)
=============================================================================
