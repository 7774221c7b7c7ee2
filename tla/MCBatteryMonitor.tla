--------------------------- MODULE MCBatteryMonitor ---------------------------
(* BatteryMonitor for TLC: three notifications over two connections, so    *)
(* that a copy can meet two of them and the second connection begins with  *)
(* the reading of the first; one reset.                                    *)
EXTENDS BatteryMonitor
=============================================================================
