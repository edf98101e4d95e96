---------------------------- MODULE BackfillSeries ----------------------------
(***************************************************************************)
(* What a backfill comes to, hour by hour: the promise of                  *)
(* build_backfill_series (backfill.py).  A period's hours is a function to *)
(* None (the source has no row for the hour) or a record                   *)
(*     [kind, change, price, state]                                        *)
(* whose kind is "ok", "unpriced" (consumption without a price) or         *)
(* "invalid" (no usable change), and whose state is the meter's reading at *)
(* the end of the hour, None if it is unusable.  BuildBackfillSeries is    *)
(* the row loop that implements this; ImportBackfill uses it.              *)
(***************************************************************************)
EXTENDS Accrual, FiniteSetsExt

Known(hours) == {h \in DOMAIN hours : hours[h] # None}
Costed(hours) == {h \in Known(hours) : hours[h].kind = "ok"}

(* Hours the series cannot price; a hour without a row is not one of them.  *)
Flagged(hours) == Known(hours) \ Costed(hours)

Costs(hours) == [h \in Costed(hours) |-> hours[h].change * hours[h].price]

CostUpTo(hours, h) == SumFunctionOnSet(Costs(hours), {i \in Costed(hours) : i <= h})

(* One point for every hour that can be priced: the cost so far.            *)
Series(hours, initial) == [h \in Costed(hours) |-> initial + CostUpTo(hours, h)]

Total(hours, initial) == initial + SumFunction(Costs(hours))

(* Mistake: it is taken from the first row.                                 *)
EndEnergyStale(hours) ==
    IF Known(hours) = {} THEN None ELSE hours[Min(Known(hours))].state

(* The reading of the last row, whatever the row's own hour came to.        *)
EndEnergy(hours) ==
    IF Known(hours) = {} THEN None ELSE hours[Max(Known(hours))].state
=============================================================================
