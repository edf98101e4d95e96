-------------------------- MODULE MCCostLedgerSensor --------------------------
(* Two prices, and readings with a dip (9 below 10) and resets (4, 0).  The *)
(* calibrated value is far from any bill, so that no other step can pass   *)
(* for a calibration.                                                      *)
EXTENDS CostLedgerSensor

MCReadings == {0, 4, 9, 10, 12}
MCPrices == {1, 3}
MCValues == {-1000}
=============================================================================
