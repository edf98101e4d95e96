------------------------------- MODULE Accrual -------------------------------
(***************************************************************************)
(* The accrual rules of accrual.py as pure operators: how one appliance's  *)
(* cost state moves when a meter reading, a price or a calibration is      *)
(* applied to it.  Money and energy are integers here (the code's Decimals *)
(* are exact, and no property depends on their unit); None is the code's   *)
(* None.  The AccrualEvent tuples only feed the log and are left out.      *)
(***************************************************************************)
EXTENDS Integers

CONSTANT None       \* no baseline, no price, no usable reading

ASSUME NoneAssumption == None \notin Int

AccrualState == [cost: Int, last_energy: Nat \cup {None},
                 last_reading: Nat \cup {None}, price: Int \cup {None}]

InitialState == [cost |-> 0, last_energy |-> None, last_reading |-> None,
                 price |-> None]

HasBaseline(s) == s.last_energy # None /\ s.last_reading # None

-----------------------------------------------------------------------------
(* How a reading compares with the raw reading before it.  A drop below    *)
(* 90 % is a reset of the meter, a smaller one is a dip.                   *)
Classify(last, reading) ==
    IF reading < last
    THEN IF 10 * reading < 9 * last THEN "RESET" ELSE "DIP"
    ELSE IF reading = last THEN "UNCHANGED" ELSE "ADVANCE"

(* The energy that settling a reading charges for: all of it after a       *)
(* reset, nothing in a dip, else what lies above the priced baseline.      *)
ChargedEnergy(s, reading) ==
    IF ~ HasBaseline(s) THEN 0
    ELSE IF Classify(s.last_reading, reading) = "RESET" THEN reading
    ELSE IF Classify(s.last_reading, reading) = "DIP" THEN 0
    ELSE IF reading > s.last_energy THEN reading - s.last_energy
    ELSE 0

(* Mistake: the baseline follows every reading, a dip included. *)
RebaselinesAlways(s, reading) == reading # s.last_energy

(* Whether settling a reading moves the priced baseline up (or down) to it *)
Rebaselines(s, reading) ==
    \/ ~ HasBaseline(s)
    \/ Classify(s.last_reading, reading) = "RESET"
    \/ ChargedEnergy(s, reading) > 0

(* Mistake: a settlement forgets the raw reading it was given. *)
SettleForgetful(s, reading, price) ==
    [s EXCEPT !.cost = @ + ChargedEnergy(s, reading) * price,
              !.last_energy = IF Rebaselines(s, reading) THEN reading ELSE @,
              !.last_reading = IF HasBaseline(s) THEN @ ELSE reading]

(* Every settlement path goes through this one operator.                   *)
Settle(s, reading, price) ==
    [s EXCEPT !.cost = @ + ChargedEnergy(s, reading) * price,
              !.last_energy = IF Rebaselines(s, reading) THEN reading ELSE @,
              !.last_reading = reading]

(* Mistake: the priced baseline follows the readings of a price gap, so    *)
(* that the energy of the gap is lost.                                     *)
TrackGapEnergyLosing(s, reading) ==
    [s EXCEPT !.last_energy = reading, !.last_reading = reading]

(* A reading during a price gap: tracked, never charged.  A reset drops    *)
(* the energy of the gap so far and starts it again from zero.             *)
TrackGapEnergy(s, reading) ==
    [s EXCEPT !.last_energy =
                  IF Classify(s.last_reading, reading) = "RESET" THEN 0 ELSE @,
              !.last_reading = reading]

(* Mistake: a negative reading is taken for a reading. *)
ApplyEnergyUnsigned(s, reading) ==
    IF ~ HasBaseline(s)
    THEN [s EXCEPT !.last_energy = reading, !.last_reading = reading]
    ELSE IF s.price = None THEN TrackGapEnergy(s, reading)
    ELSE Settle(s, reading, s.price)

ApplyEnergy(s, reading) ==
    IF reading < 0 THEN s
    ELSE IF ~ HasBaseline(s)
         THEN [s EXCEPT !.last_energy = reading, !.last_reading = reading]
    ELSE IF s.price = None THEN TrackGapEnergy(s, reading)
    ELSE Settle(s, reading, s.price)

(* A price returns: the energy of the gap is charged at it, now if there   *)
(* is a reading, at the next reading otherwise.                            *)
EndGap(s, price, reading) ==
    [(IF reading = None THEN s ELSE Settle(s, reading, price))
        EXCEPT !.price = price]

(* A negative reading counts as no reading. *)
Usable(reading) ==
    IF reading = None THEN None ELSE IF reading < 0 THEN None ELSE reading

(* Mistake: a price change that brings no price ignores the reading. *)
ApplyPriceDeaf(s, price, current) ==
    LET reading == Usable(current)
    IN  IF s.price = None
        THEN IF price # None THEN EndGap(s, price, reading) ELSE s
        ELSE [(IF reading = None THEN s ELSE Settle(s, reading, s.price))
                 EXCEPT !.price = price]

(* A price change settles at the outgoing price first. *)
ApplyPrice(s, price, current) ==
    LET reading == Usable(current)
    IN  IF s.price = None
        THEN IF price # None THEN EndGap(s, price, reading)
             ELSE IF reading = None THEN s
             ELSE ApplyEnergy(s, reading)
        ELSE [(IF reading = None THEN s ELSE Settle(s, reading, s.price))
                 EXCEPT !.price = price]

(* The energy that ApplyPrice(s, price, current) charges for, and that     *)
(* ApplyEnergy(s, current) does with price = s.price.                      *)
Priced(s, price, current) ==
    IF Usable(current) = None \/ (s.price = None /\ price = None) THEN 0
    ELSE ChargedEnergy(s, current)

Calibrate(s, cost, reading) ==
    IF Usable(reading) # reading THEN s
    ELSE [cost |-> cost, last_energy |-> reading, last_reading |-> reading,
          price |-> s.price]

(* The cost that continues an imported series at the current reading, or   *)
(* None: a dip is no place to re-baseline.                                 *)
CutoverValue(total, end, reading, price) ==
    IF Classify(end, reading) = "RESET" THEN total + reading * price
    ELSE IF Classify(end, reading) = "DIP" THEN None
    ELSE total + (reading - end) * price
=============================================================================
