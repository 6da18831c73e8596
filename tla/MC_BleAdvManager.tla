--------------------------- MODULE MC_BleAdvManager ---------------------------
(* Two slots; a duration / event budget of 2 (so RecomputeTimeout can both *)
(* keep and exhaust it); non-connectable, connectable and connectable      *)
(* directed properties; one failing HCI status.                            *)
EXTENDS BleAdvManager

MC_InstCount == 2
MC_Budgets == {0, 2}
MC_PropsVals == {0, 1, 5}
MC_PropsUndirected == {0, 1}
MC_Statuses == {0, 1}
MC_MaxOps == 4
MC_MaxConns == 1
=============================================================================
