-------------------------- MODULE BuildBackfillSeries --------------------------
(***************************************************************************)
(* build_backfill_series (backfill.py), row by row, with the summary that   *)
(* preview_backfill and import_backfill make of it (services.py).  Its      *)
(* input is what the recorder has of a period: metering is the truth about  *)
(* each hour, from which the recorder's energy rows follow.  The recorder   *)
(* folds the energy of hours without a row into the next row's change, and  *)
(* the hour before the period has its row.                                  *)
(***************************************************************************)
EXTENDS BackfillSeries, SequencesExt

CONSTANTS Infinite,        \* a number that is not finite
          ZeroTolerance,   \* float noise of a change, at most
          Meterings,       \* what an hour may have been, see MeteringType
          PriceRows,       \* price rows an hour may have
          InitialCost,
          ExpectedHours,   \* bound: hours of the period
          RangeCap         \* RANGE_CAP

Period == 0 .. ExpectedHours - 1

(* Energy used, the noise in the row's change, and what is wrong with it.   *)
MeteringType == [used: Nat, noise: Int,
                 fault: {"none", "no row", "no change", "negative", "no state"}]

Numbers == Int \cup {Infinite}
PriceRowType == [mean: Numbers \cup {None}, state: Numbers \cup {None}]

(* What an hour comes to, see BackfillSeries.                               *)
HourType == [kind: {"ok", "unpriced", "invalid"}, change: Int, price: Int,
             state: Int \cup {None}]

ASSUME BackfillAssumption ==
    /\ None \notin Int \cup HourType /\ Infinite \notin Int \cup {None}
    /\ ZeroTolerance \in Nat /\ InitialCost \in Int
    /\ ExpectedHours \in Nat /\ RangeCap \in Nat
    /\ Meterings \subseteq MeteringType /\ PriceRows \subseteq PriceRowType
    /\ \A m \in Meterings : m.noise \in -ZeroTolerance .. ZeroTolerance

VARIABLES
    metering, price_rows, energy_rows,   \* the input
    at,                                  \* how far the code has come
    prices, sorted_rows, next,           \* next: the row it is at
    running_cost, total_energy, points,
    missing_price_hours, invalid_energy_hours,
    end_energy

input == <<metering, price_rows, energy_rows>>
findings == <<missing_price_hours, invalid_energy_hours>>
vars == <<input, at, prices, sorted_rows, next, running_cost, total_energy, points,
          findings, end_energy>>

-----------------------------------------------------------------------------
(* The recorder's rows.                                                     *)
Used(hours) == SumFunctionOnSet([h \in Period |-> metering[h].used], hours)

HasRow(h) == metering[h].fault # "no row"

(* The hours whose energy a row's change holds. *)
Span(h) == {i \in 0 .. h : \A j \in i .. h - 1 : ~HasRow(j)}

EnergyRow(h) ==
    [start |-> h,
     change |-> CASE metering[h].fault = "no change" -> Infinite
                  [] metering[h].fault = "negative" -> -1 - ZeroTolerance
                  [] OTHER -> Used(Span(h)) + metering[h].noise,
     state |-> IF metering[h].fault = "no state" THEN Infinite ELSE Used(0 .. h)]

-----------------------------------------------------------------------------
(* The calculation.                                                         *)
FiniteOrNone(value) == IF value = Infinite THEN None ELSE value

PriceValue(row) == IF row.mean # None THEN row.mean ELSE row.state

(* No two rows have one start.                                              *)
SortedByStart(rows) ==
    CHOOSE sorted \in SetToSeqs(ToSet(rows)) :
        \A i, j \in DOMAIN sorted : i < j => sorted[i].start < sorted[j].start

(* Mistake: the rows are taken as they come.                                *)
ReadPricesUnsorted ==
    /\ at = "prices"
    /\ at' = "rows"
    /\ prices' = [h \in Period |-> IF price_rows[h] = None THEN None
                                   ELSE FiniteOrNone(PriceValue(price_rows[h]))]
    /\ sorted_rows' = energy_rows
    /\ next' = 1
    /\ UNCHANGED <<input, running_cost, total_energy, points, findings, end_energy>>

ReadPrices ==
    /\ at = "prices"
    /\ at' = "rows"
    /\ prices' = [h \in Period |-> IF price_rows[h] = None THEN None
                                   ELSE FiniteOrNone(PriceValue(price_rows[h]))]
    /\ sorted_rows' = SortedByStart(energy_rows)
    /\ next' = 1
    /\ UNCHANGED <<input, running_cost, total_energy, points, findings, end_energy>>

TakeRow == at = "rows" /\ next <= Len(sorted_rows) /\ next' = next + 1

Row == sorted_rows[next]

ValidChange(row) == row.change # Infinite /\ row.change >= -ZeroTolerance

SkipInvalid ==
    /\ TakeRow /\ ~ValidChange(Row)
    /\ invalid_energy_hours' = Append(invalid_energy_hours, Row.start)
    /\ UNCHANGED <<input, at, prices, sorted_rows, running_cost, total_energy, points,
                   missing_price_hours, end_energy>>

(* Noise below zero counts as zero.                                         *)
Change(row) == IF row.change < 0 THEN 0 ELSE row.change

NeedsPrice(row) == prices[row.start] = None /\ Change(row) > ZeroTolerance

SkipUnpriced ==
    /\ TakeRow /\ ValidChange(Row) /\ NeedsPrice(Row)
    /\ missing_price_hours' = Append(missing_price_hours, Row.start)
    /\ UNCHANGED <<input, at, prices, sorted_rows, running_cost, total_energy, points,
                   invalid_energy_hours, end_energy>>

CostHour ==
    /\ TakeRow /\ ValidChange(Row) /\ ~NeedsPrice(Row)
    /\ LET price == IF prices[Row.start] = None THEN 0 ELSE prices[Row.start]
       IN  running_cost' = running_cost + Change(Row) * price
    /\ total_energy' = total_energy + Change(Row)
    /\ points' = Append(points, [start |-> Row.start, sum |-> running_cost'])
    /\ UNCHANGED <<input, at, prices, sorted_rows, findings, end_energy>>

(* Mistake: the reading is that of the last hour that was costed.           *)
FinishAtLastPoint ==
    /\ at = "rows" /\ next > Len(sorted_rows)
    /\ at' = "done"
    /\ end_energy' = LET costed == {i \in DOMAIN sorted_rows :
                                      \E j \in DOMAIN points : points[j].start = sorted_rows[i].start}
                     IN  IF costed = {} THEN None
                         ELSE FiniteOrNone(sorted_rows[Max(costed)].state)
    /\ UNCHANGED <<input, prices, sorted_rows, next, running_cost, total_energy, points, findings>>

(* Mistake: a reading that is not finite is taken over.                     *)
FinishUnguarded ==
    /\ at = "rows" /\ next > Len(sorted_rows)
    /\ at' = "done"
    /\ end_energy' = IF sorted_rows = <<>> THEN None ELSE Last(sorted_rows).state
    /\ UNCHANGED <<input, prices, sorted_rows, next, running_cost, total_energy, points, findings>>

Finish ==
    /\ at = "rows" /\ next > Len(sorted_rows)
    /\ at' = "done"
    /\ end_energy' = IF sorted_rows = <<>> THEN None ELSE FiniteOrNone(Last(sorted_rows).state)
    /\ UNCHANGED <<input, prices, sorted_rows, next, running_cost, total_energy, points, findings>>

(* Rows may come in any order.                                              *)
Init ==
    /\ metering \in [Period -> Meterings]
    /\ price_rows \in [Period -> PriceRows \cup {None}]
    /\ \E order \in SetToSeqs({h \in Period : HasRow(h)}) :
         energy_rows = [i \in DOMAIN order |-> EnergyRow(order[i])]
    /\ at = "prices"
    /\ prices = [h \in Period |-> None] /\ sorted_rows = <<>> /\ next = 0
    /\ running_cost = InitialCost /\ total_energy = 0 /\ points = <<>>
    /\ missing_price_hours = <<>> /\ invalid_energy_hours = <<>>
    /\ end_energy = None

Next == ReadPrices \/ SkipInvalid \/ SkipUnpriced \/ CostHour \/ Finish

Spec == Init /\ [][Next]_vars

-----------------------------------------------------------------------------
(* The summary.                                                             *)
(* Mistake: a range's end is taken for its last hour.                       *)
ExtendRangesInclusive(ranges, hour) ==
    IF ranges # <<>> /\ Last(ranges).end = hour - 1
    THEN [ranges EXCEPT ![Len(ranges)].end = hour + 1]
    ELSE Append(ranges, [start |-> hour, end |-> hour + 1])

ExtendRanges(ranges, hour) ==
    IF ranges # <<>> /\ Last(ranges).end = hour
    THEN [ranges EXCEPT ![Len(ranges)].end = hour + 1]
    ELSE Append(ranges, [start |-> hour, end |-> hour + 1])

HoursToContiguousRanges(hours) == FoldLeft(ExtendRanges, <<>>, hours)

RangesPayload(hours) ==
    LET ranges == HoursToContiguousRanges(hours)
    IN  SubSeq(ranges, 1, IF Len(ranges) > RangeCap THEN RangeCap ELSE Len(ranges))

ApplianceSummary ==
    [valid |-> missing_price_hours = <<>> /\ invalid_energy_hours = <<>>,
     energy_gap_hours |-> ExpectedHours - Len(points)
                            - Len(missing_price_hours) - Len(invalid_energy_hours)]

(* The response's "ok".                                                     *)
PreviewOk(strict) == strict => ApplianceSummary.valid

-----------------------------------------------------------------------------
TypeOK ==
    /\ metering \in [Period -> Meterings]
    /\ price_rows \in [Period -> PriceRows \cup {None}]
    /\ \A rows \in {energy_rows, sorted_rows} : \A i \in DOMAIN rows :
          rows[i] \in [start: Period, change: Numbers, state: Numbers]
    /\ at \in {"prices", "rows", "done"}
    /\ prices \in [Period -> Int \cup {None}]
    /\ next \in 0 .. ExpectedHours + 1
    /\ running_cost \in Int /\ total_energy \in Nat
    /\ \A i \in DOMAIN points : points[i] \in [start: Period, sum: Int]
    /\ \A hours \in {missing_price_hours, invalid_energy_hours} :
          \A i \in DOMAIN hours : hours[i] \in Period
    /\ end_energy \in Nat \cup {None}

(* What each hour came to, from what it was and not from the energy rows:   *)
(* its price is the mean or, if there is none, the state.                   *)
UsablePrice(h) ==
    LET row == price_rows[h]
    IN  IF row = None THEN None
        ELSE IF row.mean = None
             THEN IF row.state = Infinite THEN None ELSE row.state
             ELSE IF row.mean = Infinite THEN None ELSE row.mean

HourOf(h) ==
    LET used == Used(Span(h))
        wrong == metering[h].fault \in {"no change", "negative"}
        priced == UsablePrice(h) # None
    IN  IF ~HasRow(h) THEN None
        ELSE [kind |-> IF wrong THEN "invalid"
                       ELSE IF used > 0 /\ ~priced THEN "unpriced" ELSE "ok",
              change |-> IF used = 0 /\ metering[h].noise < 0 THEN 0 ELSE used + metering[h].noise,
              price |-> IF priced THEN UsablePrice(h) ELSE 0,
              state |-> IF metering[h].fault = "no state" THEN None ELSE Used(0 .. h)]

Hours == [h \in Period |-> HourOf(h)]

(* What an hour uses stands out from the noise.                             *)
Measurable == \A m \in Meterings : m.used = 0 \/ m.used > 2 * ZeroTolerance

(* The loop computes the series that ImportBackfill imports: whatever order *)
(* the rows come in, a point for every hour that can be priced, in order,   *)
(* its sum the initial cost and all hours before it, every other row        *)
(* flagged, and the end reading that of the last row.                       *)
LoopIsSeries ==
    at = "done" =>
      LET series == Series(Hours, InitialCost)
      IN  /\ Len(points) = Cardinality(DOMAIN series)
          /\ \A i \in DOMAIN points : points[i].start \in DOMAIN series
                                      /\ points[i].sum = series[points[i].start]
          /\ \A i, j \in DOMAIN points : i < j => points[i].start < points[j].start
          /\ running_cost = Total(Hours, InitialCost)
          /\ ToSet(missing_price_hours) \cup ToSet(invalid_energy_hours) = Flagged(Hours)
          /\ end_energy = EndEnergy(Hours)

(* Every kWh metered in the period is in the total, in a flagged hour, or   *)
(* above the end reading, where the cutover charges it, and in one of them  *)
(* only; noise apart, and energy of hours without a row included.           *)
EveryKwhAccounted ==
    at = "done" /\ end_energy # None =>
      LET flagged == ToSet(missing_price_hours) \cup ToSet(invalid_energy_hours)
          aside == SumFunctionOnSet([h \in Period |-> Used(Span(h))], flagged)
          tail == Used(Period) - end_energy
          off == total_energy + aside + tail - Used(Period)
      IN  off \in -ZeroTolerance * Len(points) .. ZeroTolerance * Len(points)

Covered(ranges) == UNION {ranges[i].start .. ranges[i].end - 1 : i \in DOMAIN ranges}

(* A response's findings add up: the gap hours are those without a row; the *)
(* ranges hold the flagged hours and no other, apart from each other; fewer *)
(* hours than counted are shown if and only if the list was capped; and a   *)
(* strict preview is ok just when a strict import will not refuse.          *)
FindingsAddUp ==
    at = "done" =>
      /\ ApplianceSummary.energy_gap_hours = Cardinality({h \in Period : ~HasRow(h)})
      /\ PreviewOk(TRUE) <=> Flagged(Hours) = {}
      /\ \A hours \in {missing_price_hours, invalid_energy_hours} :
           LET ranges == HoursToContiguousRanges(hours)
               shown == RangesPayload(hours)
           IN  /\ Covered(ranges) = ToSet(hours)
               /\ \A i \in 1 .. Len(ranges) - 1 : ranges[i].end < ranges[i + 1].start
               /\ Cardinality(Covered(shown)) < Len(hours) <=> Len(ranges) > RangeCap
=============================================================================
