----------------------------- MODULE MCCostSensor -----------------------------
(* Small instances of CostSensor.  The readings are chosen so that every   *)
(* comparison occurs: 9 is a dip below 10 (exactly 90 %), 4 and 0 are      *)
(* resets, and 20, 18, 17 can fall in two dips whose sum is a reset.       *)
EXTENDS CostSensor, TLC

MCReadings == {0, 4, 9, 10, 12}
MCFewReadings == {4, 9, 10}
MCTwoReadings == {4, 10}
MCSteps == {17, 18, 20}
MCPrices == {1, 2}
MCOnePrice == {1}
MCZero == {0}
MCNonsense == {Unavailable, Unknown, -1}
MCDark == {Unavailable}
MCNothing == {}

(* Uuids are only compared, and so are the ids of registered sources. *)
MCSymmetry == Permutations(Uuids) \cup Permutations(Ids \ BareIds)

(* One life of the sensor: set up once, its source's dips compound. *)
OneLifeNext ==
    \/ Handle \/ Setup \/ Metering
    \/ \E v \in Values : AsyncCalibrate(v)

OneLifeSpec == Init /\ [][OneLifeNext]_vars
=============================================================================
