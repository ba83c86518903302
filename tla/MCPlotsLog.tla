--------------------------- MODULE MCPlotsLog ---------------------------
EXTENDS PlotsLog, TLC

\* No property tells one row from another.
RowSymmetry == Permutations(Rows)
=============================================================================
