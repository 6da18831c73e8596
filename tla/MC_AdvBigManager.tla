--------------------------- MODULE MC_AdvBigManager ---------------------------
EXTENDS AdvBigManager

MC_InstCount == 2
MC_Statuses == {0, 1}
MC_MaxOps == 7
=============================================================================
