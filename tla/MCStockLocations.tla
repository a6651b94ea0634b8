-------------------------- MODULE MCStockLocations --------------------------
\* Instances of StockLocations for TLC.  No symmetry: a run checks liveness.
EXTENDS StockLocations

Codes == {"MAIN", "DEPOT", "SHOP"}
AnyFlag == {TRUE, FALSE, Keep}
=============================================================================
