--------------------------- MODULE CostLedgerSensor ---------------------------
(***************************************************************************)
(* CostSensor implements CostLedger, as long as                            *)
(*   - the energy source always has a usable reading, and                  *)
(*   - Home Assistant does not crash (reloads are covered), and            *)
(*   - the meter is the same one, restarts only under the sensor's eyes    *)
(*     and by more than 10 %, and dips only while there is a price, and    *)
(*   - the services are not called in a dip.                               *)
(* With no Values the services set nothing, and the bill has no other step *)
(* than the meter's and the price's.                                       *)
(* Outside of these the code gives up exactness on purpose (README).       *)
(***************************************************************************)
EXTENDS CostSensor

SteadyMetering ==
    \/ \E r \in Readings :
          \/ Advance(r)
          \/ Reset(r) /\ loaded /\ 10 * r < 9 * accrual.last_reading
          \/ Dip(r) /\ loaded /\ accrual.price # None
    \/ \E p \in Prices \cup {None} : PriceWrite(p)

ServiceAtLevel == energy_state = meter.level /\ Service

SteadyNext == Handle \/ ServiceAtLevel \/ Setup \/ Unload \/ SteadyMetering

SteadyInit == Init /\ energy_state # Unavailable

SteadySpec == SteadyInit /\ [][SteadyNext]_vars

(* The bill as it stands: the sensor's, or the stored one it will restore. *)
Book == IF loaded THEN accrual ELSE RestoredAccrual
Accounted == IF loaded THEN settled ELSE RestoredSettled

(* The energy metered above the baseline. *)
Owed == IF ~ HasBaseline(Book) THEN 0
        ELSE IF Accounted.epoch = meter.epoch THEN meter.level - Book.last_energy
        ELSE meter.level

(* What waits for a price, and what is charged.  Energy whose event is on  *)
(* its way counts at the price in force; once no event is, all of it must  *)
(* be in the cost.                                                         *)
Waiting == IF Book.price = None THEN Owed ELSE 0
Charged == IF Book.price # None /\ "energy" \in in_flight
           THEN Book.cost + Owed * Book.price ELSE Book.cost

(* The level is the meter's own: what the sensor makes of the readings has  *)
(* no say in it.  The bill begins with the first baseline.                 *)
Ledger == INSTANCE CostLedger WITH
    level <- meter.level,
    begun <- HasBaseline(Book),
    cost <- Charged,
    unpriced <- Waiting,
    price <- Book.price

(* The sensor's bill moves by what its meter moves, and by nothing else:   *)
(* each kWh is charged once, at the price in force when it was reported    *)
(* (settle first), or at the price that ended the gap.  A reading that is  *)
(* handled charges nothing that was not metered and drops nothing that      *)
(* was, however events nest.                                               *)
ImplementsLedger == Ledger!Spec
=============================================================================
