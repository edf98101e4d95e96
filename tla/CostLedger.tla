------------------------------ MODULE CostLedger ------------------------------
(***************************************************************************)
(* What a cost sensor promises, with no baseline, reading or event in it:  *)
(* a bill and the meter it is for.  The bill moves by what the meter moves  *)
(* and by nothing else: energy is priced at the price in force when the    *)
(* meter reports it; without a price it waits, and is priced at the price  *)
(* that returns.  This is the contract of docs/reference.md ("Accrual"),   *)
(* as far as the code keeps it: see CostLedgerSensor for the cases it is   *)
(* checked in.                                                             *)
(***************************************************************************)
EXTENDS Integers

CONSTANTS None,      \* no price in force
          Readings,  \* the levels a meter may have
          Prices,    \* the prices per kWh
          Values     \* the costs the user may set

VARIABLES level,     \* the meter's level
          begun,     \* the bill has begun: energy before is nobody's
          cost,      \* the money the bill has come to
          unpriced,  \* energy that waits for a price
          price      \* the price in force, or None

vars == <<level, begun, cost, unpriced, price>>

Init == /\ level \in Readings /\ begun = FALSE
        /\ cost = 0 /\ unpriced = 0 /\ price = None

(* The bill takes d kWh, with `waiting' from before: they are charged, or  *)
(* wait as well.                                                           *)
Bill(d, waiting) ==
    \/ ~ begun /\ UNCHANGED <<cost, unpriced>>
    \/ begun /\ price = None /\ unpriced' = waiting + d /\ UNCHANGED cost
    \/ begun /\ price # None /\ cost' = cost + d * price /\ UNCHANGED unpriced

(* The meter advances: the bill takes what it has advanced by. *)
Metered(r) ==
    /\ r >= level
    /\ level' = r
    /\ Bill(r - level, unpriced)
    /\ UNCHANGED <<begun, price>>

(* The meter restarts: the bill takes all it shows since.  Energy that     *)
(* waits is lost, and by nothing else.                                     *)
MeterRestarted(r) ==
    /\ r < level
    /\ level' = r
    /\ Bill(r, 0)
    /\ UNCHANGED <<begun, price>>

(* The bill begins, with a price or without. *)
Begin(p) ==
    /\ ~ begun /\ begun' = TRUE
    /\ price' = p
    /\ UNCHANGED <<level, cost, unpriced>>

(* The price changes; energy that waits is priced when it returns. *)
PriceChanged(p) ==
    /\ begun
    /\ price' = p
    /\ IF price = None /\ p # None
       THEN cost' = cost + unpriced * p /\ unpriced' = 0
       ELSE UNCHANGED <<cost, unpriced>>
    /\ UNCHANGED <<level, begun>>

(* What a meter has metered since it stood at `end': all of it, if it has  *)
(* restarted.                                                              *)
Since(end) == IF end <= level THEN level - end ELSE level

(* The user sets the cost up to now, or up to when the meter stood at      *)
(* `end', and nothing waits any more.                                      *)
Set(value) ==
    /\ begun
    /\ cost' = value /\ unpriced' = 0
    /\ UNCHANGED <<level, begun, price>>

SetAsOf(value, end) ==
    /\ begun /\ price # None
    /\ cost' = value + Since(end) * price /\ unpriced' = 0
    /\ UNCHANGED <<level, begun, price>>

Next ==
    \/ \E r \in Readings : Metered(r) \/ MeterRestarted(r)
    \/ \E p \in Prices \cup {None} : Begin(p) \/ PriceChanged(p)
    \/ \E v \in Values : Set(v) \/ \E end \in Readings : SetAsOf(v, end)

Spec == Init /\ [][Next]_vars
=============================================================================
