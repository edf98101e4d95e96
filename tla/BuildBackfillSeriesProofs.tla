----------------------- MODULE BuildBackfillSeriesProofs -----------------------
(***************************************************************************)
(* The row loop computes the promised series and accounts for every kWh,   *)
(* whatever the hours of the period were and whatever order their rows     *)
(* come in.                                                                *)
(***************************************************************************)
EXTENDS BuildBackfillSeries, NumberSetProofs, SequenceTheorems

-----------------------------------------------------------------------------
(* Sets of hours, as ascending sequences.                                  *)

Climbs(hours, S) ==
    /\ hours \in Seq(S)
    /\ \A x \in S : \E i \in 1 .. Len(hours) : hours[i] = x
    /\ \A i, j \in 1 .. Len(hours) : i < j => hours[i] < hours[j]

LEMMA ClimbsEmpty == Climbs(<<>>, {})
BY DEF Climbs

LEMMA ClimbsAppend ==
    ASSUME NEW S, \A x \in S : x \in Int, NEW hours, Climbs(hours, S),
           NEW x \in Int, \A y \in S : y < x
    PROVE  Climbs(Append(hours, x), S \cup {x})
<1> DEFINE longer == Append(hours, x)
<1>1. hours \in Seq(S \cup {x}) /\ hours \in Seq(S)
  BY SeqMonotonic DEF Climbs
<1>2. /\ longer \in Seq(S \cup {x})
      /\ Len(longer) = Len(hours) + 1
      /\ \A i \in 1 .. Len(hours) : longer[i] = hours[i]
      /\ longer[Len(hours) + 1] = x
  BY <1>1, AppendProperties
<1>3. Len(hours) \in Nat /\ \A i \in 1 .. Len(hours) : hours[i] \in S
  BY <1>1, ElementOfSeq
<1> HIDE DEF longer
<1>4. ASSUME NEW y \in S \cup {x} PROVE \E i \in 1 .. Len(longer) : longer[i] = y
  <2>1. CASE y = x
    BY <1>2, <1>3, <2>1
  <2>2. CASE y \in S
    <3>1. PICK i \in 1 .. Len(hours) : hours[i] = y
      BY <2>2 DEF Climbs
    <3>2. i \in 1 .. Len(longer) /\ longer[i] = y
      BY <1>2, <1>3, <3>1
    <3> QED
      BY <3>2
  <2> QED
    BY <2>1, <2>2
<1>5. ASSUME NEW i \in 1 .. Len(longer), NEW j \in 1 .. Len(longer), i < j
      PROVE  longer[i] < longer[j]
  <2>1. i \in 1 .. Len(hours)
    BY <1>2, <1>3, <1>5
  <2>2. CASE j \in 1 .. Len(hours)
    BY <1>2, <1>5, <2>1, <2>2 DEF Climbs
  <2>3. CASE j = Len(hours) + 1
    <3>1. longer[i] = hours[i] /\ hours[i] \in S /\ longer[j] = x
      BY <1>2, <1>3, <2>1, <2>3
    <3> QED
      BY <3>1
  <2> QED
    BY <1>2, <1>3, <2>2, <2>3
<1> QED
  BY <1>2, <1>4, <1>5 DEF Climbs, longer

LEMMA ClimbsTo ==
    ASSUME NEW S, NEW hours, Climbs(hours, S)
    PROVE  /\ DOMAIN hours = 1 .. Len(hours) /\ Len(hours) \in Nat
           /\ \A i \in 1 .. Len(hours) : hours[i] \in S
           /\ ToSet(hours) = S
<1>1. hours \in Seq(S)
  BY DEF Climbs
<1>2. DOMAIN hours = 1 .. Len(hours) /\ Len(hours) \in Nat
  BY <1>1, LenProperties
<1>3. \A i \in 1 .. Len(hours) : hours[i] \in S
  BY <1>1, ElementOfSeq
<1>4. \A x \in S : \E i \in 1 .. Len(hours) : hours[i] = x
  BY DEF Climbs
<1> QED
  BY <1>2, <1>3, <1>4 DEF ToSet

(* An enumeration without repetition is as long as the set is large.        *)
LEMMA EnumerationLength ==
    ASSUME NEW S, NEW n \in Nat, NEW f \in [1 .. n -> S],
           \A x \in S : \E i \in 1 .. n : f[i] = x,
           \A i, j \in 1 .. n : i # j => f[i] # f[j]
    PROVE  IsFiniteSet(S) /\ Cardinality(S) = n
<1>1. f \in Bijection(1 .. n, S)
  BY DEF Bijection, Injection, Surjection, IsInjective
<1>2. ExistsBijection(1 .. n, S)
  BY <1>1 DEF ExistsBijection
<1> QED
  BY <1>2, FS_CountingElements, FS_NatBijection

LEMMA ClimbsLength ==
    ASSUME NEW S, \A x \in S : x \in Int, NEW hours, Climbs(hours, S)
    PROVE  IsFiniteSet(S) /\ Cardinality(S) = Len(hours)
<1>1. Len(hours) \in Nat /\ hours \in [1 .. Len(hours) -> S]
  BY LenProperties DEF Climbs
<1>2. ASSUME NEW i \in 1 .. Len(hours), NEW j \in 1 .. Len(hours), i # j
      PROVE  hours[i] # hours[j]
  <2>1. hours[i] \in Int /\ hours[j] \in Int /\ i \in Int /\ j \in Int
    <3>1. hours[i] \in S /\ hours[j] \in S
      BY <1>1
    <3> QED
      BY <1>1, <3>1
  <2>2. CASE i < j
    <3>1. hours[i] < hours[j]
      BY <2>2 DEF Climbs
    <3> QED
      BY <2>1, <3>1
  <2>3. CASE j < i
    <3>1. hours[j] < hours[i]
      BY <2>3 DEF Climbs
    <3> QED
      BY <2>1, <3>1
  <2> QED
    BY <1>2, <2>1, <2>2, <2>3
<1>3. \A x \in S : \E i \in 1 .. Len(hours) : hours[i] = x
  BY DEF Climbs
<1> QED
  BY <1>1, <1>2, <1>3, EnumerationLength

(* Every bounded set of numbers can be put in order.                        *)
LEMMA SetClimbs ==
    ASSUME NEW S, \A x \in S : x \in Nat, NEW b \in Nat, \A x \in S : x < b
    PROVE  \E hours : Climbs(hours, S)
<1> DEFINE Upto(n) == {x \in S : x < n}
           G == {n \in Nat : \E hours : Climbs(hours, Upto(n))}
<1>1. 0 \in G
  <2>1. Upto(0) = {}
    <3> HIDE DEF G
    <3> QED
      OBVIOUS
  <2> QED
    BY <2>1, ClimbsEmpty
<1>2. ASSUME NEW n \in Nat, n \in G PROVE n + 1 \in G
  <2>1. PICK hours : Climbs(hours, Upto(n))
    BY <1>2
  <2> HIDE DEF G
  <2>2. CASE n \notin S
    <3>1. \A x \in S : x < n + 1 <=> x < n
      BY <2>2
    <3> QED
      BY <2>1, <3>1 DEF G
  <2>3. CASE n \in S
    <3>1. \A x \in S : x < n + 1 <=> x < n \/ x = n
      OBVIOUS
    <3>2. Upto(n + 1) = Upto(n) \cup {n}
      BY <2>3, <3>1
    <3>3. \A y \in Upto(n) : y \in Int /\ y < n
      OBVIOUS
    <3>4. Climbs(Append(hours, n), Upto(n) \cup {n})
      <4> HIDE DEF Upto
      <4> QED
        BY <2>1, <3>3, ClimbsAppend
    <3> HIDE DEF Upto
    <3> QED
      BY <3>2, <3>4 DEF G
  <2> QED
    BY <2>2, <2>3
<1>3. b \in G
  <2> HIDE DEF G
  <2>1. \A n \in Nat : n \in G
    BY <1>1, <1>2, ByNumbers
  <2> QED
    BY <2>1
<1>4. Upto(b) = S
  BY Zenon
<1> QED
  BY <1>3, <1>4

-----------------------------------------------------------------------------
(* The input.                                                              *)

RowHours == {h \in Period : HasRow(h)}

InputInv ==
    /\ metering \in [Period -> Meterings]
    /\ price_rows \in [Period -> PriceRows \cup {None}]
    /\ \E order \in SetToSeqs(RowHours) :
          energy_rows = [i \in DOMAIN order |-> EnergyRow(order[i])]

LEMMA PeriodIs ==
    /\ \A h \in Period : h \in Nat /\ h < ExpectedHours
    /\ \A h \in Int : h \in Period <=> 0 <= h /\ h < ExpectedHours
    /\ IsFiniteSet(Period) /\ Cardinality(Period) = ExpectedHours
<1>1. ExpectedHours \in Nat
  BY BackfillAssumption
<1>2. IsFiniteSet(Period) /\ Cardinality(Period) = ExpectedHours
  <2>1. 0 \in Int /\ ExpectedHours - 1 \in Int
    BY <1>1
  <2>2. /\ IsFiniteSet(0 .. ExpectedHours - 1)
        /\ Cardinality(0 .. ExpectedHours - 1)
              = IF 0 > ExpectedHours - 1 THEN 0 ELSE (ExpectedHours - 1) - 0 + 1
    BY <2>1, FS_Interval
  <2> QED
    BY <1>1, <2>2 DEF Period
<1> QED
  BY <1>1, <1>2 DEF Period

LEMMA MeteringIs ==
    ASSUME InputInv, NEW h \in Period
    PROVE  /\ metering[h].used \in Nat
           /\ metering[h].noise \in -ZeroTolerance .. ZeroTolerance
           /\ metering[h].noise \in Int
           /\ metering[h].fault \in {"none", "no row", "no change", "negative", "no state"}
           /\ Measurable => metering[h].used = 0 \/ metering[h].used > 2 * ZeroTolerance
<1>1. metering[h] \in Meterings
  BY DEF InputInv
<1>2. metering[h] \in MeteringType
  BY <1>1, BackfillAssumption
<1> QED
  BY <1>1, <1>2, BackfillAssumption DEF MeteringType, Measurable

(* What some hours use is a number, and stands out if each of them does.   *)
LEMMA UsedIs ==
    ASSUME InputInv, NEW hours \in SUBSET Period
    PROVE  /\ Used(hours) \in Nat
           /\ Measurable => Used(hours) = 0 \/ Used(hours) > 2 * ZeroTolerance
<1> DEFINE f == [h \in Period |-> metering[h].used]
           V == {n \in Nat : n = 0 \/ n > 2 * ZeroTolerance}
<1>1. IsFiniteSet(hours)
  BY PeriodIs, FS_Subset
<1>2. \A h \in hours : f[h] \in Nat
  BY MeteringIs
<1>3. Used(hours) = SumFunctionOnSet(f, hours)
  BY DEF Used
<1>4. ASSUME Measurable PROVE \A h \in hours : f[h] \in V
  BY <1>4, MeteringIs
<1> HIDE DEF f
<1>5. SumFunctionOnSet(f, hours) \in Nat
  <2>1. Nat \in SUBSET Int /\ 0 \in Nat /\ \A a, b \in Nat : a + b \in Nat
    OBVIOUS
  <2> QED
    BY <1>1, <1>2, <2>1, SumStays
<1>6. ASSUME Measurable PROVE SumFunctionOnSet(f, hours) \in V
  <2>1. V \in SUBSET Int /\ 0 \in V /\ \A a, b \in V : a + b \in V
    BY BackfillAssumption
  <2> HIDE DEF V
  <2> QED
    BY <1>1, <1>4, <1>6, <2>1, SumStays
<1> QED
  BY <1>3, <1>5, <1>6

LEMMA SpanIs ==
    ASSUME NEW h \in Period
    PROVE  Span(h) \in SUBSET Period /\ 0 .. h \in SUBSET Period /\ h \in Span(h)
BY PeriodIs, BackfillAssumption DEF Span, Period

LEMMA EnergyRowIs ==
    ASSUME InputInv, NEW h \in Period
    PROVE  /\ EnergyRow(h) \in [start: Period, change: Numbers, state: Numbers]
           /\ EnergyRow(h).start = h
           /\ EnergyRow(h).change = IF metering[h].fault = "no change" THEN Infinite
                                    ELSE IF metering[h].fault = "negative" THEN -1 - ZeroTolerance
                                    ELSE Used(Span(h)) + metering[h].noise
           /\ EnergyRow(h).state = IF metering[h].fault = "no state" THEN Infinite
                                   ELSE Used(0 .. h)
<1>1. Used(Span(h)) \in Nat /\ Used(0 .. h) \in Nat
  BY SpanIs, UsedIs
<1>2. metering[h].noise \in Int /\ ZeroTolerance \in Nat
  BY MeteringIs, BackfillAssumption
<1>3. Used(Span(h)) + metering[h].noise \in Numbers /\ Used(0 .. h) \in Numbers
      /\ Infinite \in Numbers /\ -1 - ZeroTolerance \in Numbers
  BY <1>1, <1>2 DEF Numbers
<1> QED
  BY <1>3 DEF EnergyRow

-----------------------------------------------------------------------------
(* Sorting.                                                                *)

Starts(rows) == [i \in 1 .. Len(rows) |-> rows[i].start]

(* Each hour's row, in order. *)
InOrder(rows) ==
    /\ rows \in Seq({EnergyRow(h) : h \in RowHours})
    /\ \A i \in 1 .. Len(rows) : rows[i] = EnergyRow(rows[i].start)
    /\ Climbs(Starts(rows), RowHours)
    /\ Len(Starts(rows)) = Len(rows)

LEMMA StartsIs ==
    ASSUME NEW rows, Len(rows) \in Nat, NEW S, \A i \in 1 .. Len(rows) : rows[i].start \in S
    PROVE  /\ Starts(rows) \in Seq(S)
           /\ Len(Starts(rows)) = Len(rows)
           /\ \A i \in 1 .. Len(rows) : Starts(rows)[i] = rows[i].start
BY DEF Starts

(* SetToSeqs are the enumerations of a set.                                *)
LEMMA SeqsEnumerate ==
    ASSUME NEW S, IsFiniteSet(S), NEW f \in SetToSeqs(S)
    PROVE  /\ Cardinality(S) \in Nat
           /\ f \in [1 .. Cardinality(S) -> S]
           /\ \A i, j \in 1 .. Cardinality(S) : i # j => f[i] # f[j]
           /\ \A x \in S : \E i \in 1 .. Cardinality(S) : f[i] = x
<1> DEFINE n == Cardinality(S)
           D == 1 .. n
<1>1. f \in [D -> S] /\ \A i, j \in D : i # j => f[i] # f[j]
  BY DEF SetToSeqs
<1>2. n \in Nat
  BY FS_CardinalityType
<1>3. IsFiniteSet(D) /\ Cardinality(D) = n
  <2> HIDE DEF n
  <2> QED
    BY <1>2, FS_Interval
<1> HIDE DEF D
<1>4. f \in Injection(D, S)
  BY <1>1 DEF Injection, IsInjective
<1>5. f \in Surjection(D, S)
  BY <1>3, <1>4, FS_Injection
<1>6. \A x \in S : \E i \in D : f[i] = x
  BY <1>5 DEF Surjection
<1> QED
  BY <1>1, <1>2, <1>6 DEF D

LEMMA EnumerationIs ==
    ASSUME NEW S, NEW n \in Nat, NEW f \in [1 .. n -> S],
           \A x \in S : \E i \in 1 .. n : f[i] = x,
           \A i, j \in 1 .. n : i # j => f[i] # f[j]
    PROVE  f \in SetToSeqs(S)
<1>1. Cardinality(S) = n
  BY EnumerationLength
<1> QED
  BY <1>1 DEF SetToSeqs

LEMMA RowHoursAre ==
    /\ IsFiniteSet(RowHours) /\ RowHours \in SUBSET Period
    /\ \A h \in RowHours : h \in Nat /\ h < ExpectedHours
BY PeriodIs, FS_Subset DEF RowHours

(* The rows as they come, as a set. *)
LEMMA RowsCome ==
    ASSUME InputInv
    PROVE  /\ ToSet(energy_rows) = {EnergyRow(h) : h \in RowHours}
           /\ \A i \in DOMAIN energy_rows : \E h \in RowHours : energy_rows[i] = EnergyRow(h)
<1>1. PICK order \in SetToSeqs(RowHours) :
             energy_rows = [i \in DOMAIN order |-> EnergyRow(order[i])]
  BY DEF InputInv
<1> DEFINE n == Cardinality(RowHours)
<1>2. /\ order \in [1 .. n -> RowHours]
      /\ \A h \in RowHours : \E i \in 1 .. n : order[i] = h
  BY RowHoursAre, SeqsEnumerate
<1> HIDE DEF n
<1>3. DOMAIN energy_rows = 1 .. n /\ \A i \in 1 .. n : energy_rows[i] = EnergyRow(order[i])
  BY <1>1, <1>2
<1>4. \A i \in 1 .. n : order[i] \in RowHours
  BY <1>2
<1> QED
  BY <1>2, <1>3, <1>4 DEF ToSet

LEMMA SortedIsInOrder ==
    ASSUME InputInv
    PROVE  InOrder(SortedByStart(energy_rows))
<1> DEFINE R == {EnergyRow(h) : h \in RowHours}
           Ascends(s) == \A i, j \in DOMAIN s : i < j => s[i].start < s[j].start
           sorted == SortedByStart(energy_rows)
<1>1. \A h \in RowHours : EnergyRow(h) \in R /\ EnergyRow(h).start = h
  BY RowHoursAre, EnergyRowIs
<1>2. \A r \in R : r.start \in RowHours /\ r = EnergyRow(r.start)
  BY <1>1
<1>3. \E s \in SetToSeqs(R) : Ascends(s)
  <2>1. PICK hours : Climbs(hours, RowHours)
    BY RowHoursAre, BackfillAssumption, SetClimbs
  <2> DEFINE n == Len(hours)
             t == [i \in 1 .. n |-> EnergyRow(hours[i])]
  <2>2. n \in Nat /\ \A i \in 1 .. n : hours[i] \in RowHours
    BY <2>1, ClimbsTo
  <2>3. \A i, j \in 1 .. n : i < j => hours[i] < hours[j]
    BY <2>1 DEF Climbs
  <2>4. \A h \in RowHours : \E i \in 1 .. n : hours[i] = h
    BY <2>1 DEF Climbs
  <2> HIDE DEF n, R
  <2>5. t \in [1 .. n -> R] /\ DOMAIN t = 1 .. n /\ \A i \in 1 .. n : t[i].start = hours[i]
    BY <1>1, <2>2
  <2>6. \A r \in R : \E i \in 1 .. n : t[i] = r
    <3>1. SUFFICES ASSUME NEW r \in R PROVE \E i \in 1 .. n : t[i] = r
      OBVIOUS
    <3>2. PICK i \in 1 .. n : hours[i] = r.start
      BY <1>2, <2>4
    <3>3. t[i] = r
      BY <1>2, <3>2
    <3> QED
      BY <3>3
  <2> HIDE DEF t
  <2>7. ASSUME NEW i \in 1 .. n, NEW j \in 1 .. n, i # j PROVE t[i] # t[j]
    <3>1. i \in Int /\ j \in Int /\ hours[i] \in Int /\ hours[j] \in Int
      BY <2>2, RowHoursAre
    <3>2. hours[i] # hours[j]
      BY <2>3, <2>7, <3>1
    <3> QED
      BY <2>5, <3>2
  <2>8. t \in SetToSeqs(R)
    BY <2>2, <2>5, <2>6, <2>7, EnumerationIs
  <2>9. Ascends(t)
    BY <2>3, <2>5
  <2> QED
    BY <2>8, <2>9
<1>4. sorted \in SetToSeqs(R) /\ Ascends(sorted)
  <2>1. ToSet(energy_rows) = R
    BY RowsCome
  <2>2. sorted = CHOOSE s \in SetToSeqs(R) : Ascends(s)
    BY <2>1 DEF SortedByStart
  <2> HIDE DEF sorted, Ascends, R
  <2> QED
    BY <1>3, <2>2
<1> HIDE DEF sorted
<1>5. IsFiniteSet(R)
  <2> DEFINE f == [h \in RowHours |-> EnergyRow(h)]
  <2>1. f \in Surjection(RowHours, R)
    BY DEF Surjection
  <2>2. IsFiniteSet(RowHours)
    BY RowHoursAre
  <2> HIDE DEF f, R
  <2> QED
    BY <2>1, <2>2, FS_Surjection
<1> DEFINE n == Cardinality(R)
<1>6. /\ n \in Nat /\ sorted \in [1 .. n -> R]
      /\ \A r \in R : \E i \in 1 .. n : sorted[i] = r
  <2> HIDE DEF R
  <2> QED
    BY <1>4, <1>5, SeqsEnumerate
<1> HIDE DEF n, R
<1>7. sorted \in Seq(R) /\ Len(sorted) = n
  BY <1>6
<1>8. \A i \in 1 .. n : sorted[i].start \in RowHours /\ sorted[i] = EnergyRow(sorted[i].start)
  BY <1>2, <1>6
<1>9. /\ Starts(sorted) \in Seq(RowHours) /\ Len(Starts(sorted)) = n
      /\ \A i \in 1 .. n : Starts(sorted)[i] = sorted[i].start
  BY <1>6, <1>7, <1>8, StartsIs
<1>10. \A h \in RowHours : \E i \in 1 .. n : Starts(sorted)[i] = h
  BY <1>1, <1>6, <1>9
<1>11. \A i, j \in 1 .. n : i < j => Starts(sorted)[i] < Starts(sorted)[j]
  <2>1. DOMAIN sorted = 1 .. n
    BY <1>6
  <2> QED
    BY <1>4, <1>9, <2>1
<1>12. Climbs(Starts(sorted), RowHours)
  BY <1>9, <1>10, <1>11 DEF Climbs
<1> QED
  BY <1>7, <1>8, <1>9, <1>12 DEF InOrder, R, sorted

-----------------------------------------------------------------------------
(* The loop: what it makes of each hour, and how far it has come.          *)

Verdict(h) ==
    IF ~ValidChange(EnergyRow(h)) THEN "invalid"
    ELSE IF UsablePrice(h) = None /\ Change(EnergyRow(h)) > ZeroTolerance THEN "unpriced"
    ELSE "ok"

EnergyOf == [h \in Period |-> Change(EnergyRow(h))]

CostOf == [h \in Period |-> Change(EnergyRow(h))
                            * (IF UsablePrice(h) = None THEN 0 ELSE UsablePrice(h))]

Taken == {sorted_rows[i].start : i \in 1 .. next - 1}

Judged(verdict) == {h \in Taken : Verdict(h) = verdict}

Progress ==
    /\ prices = [h \in Period |-> UsablePrice(h)]
    /\ InOrder(sorted_rows)
    /\ next \in 1 .. Len(sorted_rows) + 1
    /\ Climbs(invalid_energy_hours, Judged("invalid"))
    /\ Climbs(missing_price_hours, Judged("unpriced"))
    /\ Climbs(Starts(points), Judged("ok"))
    /\ points \in Seq([start: Period, sum: Int])
    /\ Len(points) + Len(missing_price_hours) + Len(invalid_energy_hours) = next - 1
    /\ running_cost = InitialCost + SumFunctionOnSet(CostOf, Judged("ok"))
    /\ total_energy = SumFunctionOnSet(EnergyOf, Judged("ok"))
    /\ \A i \in 1 .. Len(points) :
          points[i].sum = InitialCost + SumFunctionOnSet(CostOf,
                                           {h \in Judged("ok") : h <= points[i].start})

LoopInv ==
    /\ InputInv
    /\ at \in {"prices", "rows", "done"}
    /\ at = "prices" => /\ prices = [h \in Period |-> None]
                        /\ sorted_rows = <<>> /\ next = 0
                        /\ running_cost = InitialCost /\ total_energy = 0 /\ points = <<>>
                        /\ missing_price_hours = <<>> /\ invalid_energy_hours = <<>>
    /\ at # "prices" => Progress
    /\ at # "done" => end_energy = None
    /\ at = "done" => /\ next = Len(sorted_rows) + 1
                      /\ end_energy = IF sorted_rows = <<>> THEN None
                                      ELSE FiniteOrNone(Last(sorted_rows).state)

LEMMA UsablePriceIs ==
    ASSUME InputInv, NEW h \in Period
    PROVE  UsablePrice(h) \in Int \cup {None}
<1>1. price_rows[h] \in PriceRows \cup {None}
  BY DEF InputInv
<1>2. price_rows[h] # None => price_rows[h] \in PriceRowType
  BY <1>1, BackfillAssumption
<1> QED
  BY <1>2 DEF UsablePrice, PriceRowType, Numbers

LEMMA ChargeIs ==
    ASSUME InputInv, NEW h \in Period, Verdict(h) = "ok"
    PROVE  EnergyOf[h] \in Nat /\ CostOf[h] \in Int
<1>1. EnergyRow(h).change \in Int \cup {Infinite}
  BY EnergyRowIs DEF Numbers
<1>2. ValidChange(EnergyRow(h))
  BY DEF Verdict
<1>3. Change(EnergyRow(h)) \in Nat
  BY <1>1, <1>2 DEF ValidChange, Change
<1>4. (IF UsablePrice(h) = None THEN 0 ELSE UsablePrice(h)) \in Int
  BY UsablePriceIs
<1> DEFINE price == IF UsablePrice(h) = None THEN 0 ELSE UsablePrice(h)
<1>5. EnergyOf[h] = Change(EnergyRow(h)) /\ CostOf[h] = Change(EnergyRow(h)) * price
  BY DEF EnergyOf, CostOf
<1> HIDE DEF price
<1> QED
  BY <1>3, <1>4, <1>5 DEF price

LEMMA InputStays ==
    ASSUME UNCHANGED input
    PROVE  /\ \A h : EnergyRow(h)' = EnergyRow(h) /\ UsablePrice(h)' = UsablePrice(h)
           /\ \A h : Verdict(h)' = Verdict(h)
           /\ RowHours' = RowHours /\ EnergyOf' = EnergyOf /\ CostOf' = CostOf
           /\ InputInv => InputInv'
<1>1. metering' = metering /\ price_rows' = price_rows /\ energy_rows' = energy_rows
  BY DEF input
<1>2. \A h : HasRow(h)' = HasRow(h)
  BY <1>1 DEF HasRow
<1>3. \A h : EnergyRow(h)' = EnergyRow(h)
  BY <1>1 DEF EnergyRow, Used, Span, HasRow
<1>4. \A h : UsablePrice(h)' = UsablePrice(h)
  BY <1>1 DEF UsablePrice
<1>5. \A h : Verdict(h)' = Verdict(h)
  BY <1>3, <1>4 DEF Verdict, ValidChange, Change
<1>6. RowHours' = RowHours
  BY <1>2 DEF RowHours
<1>7. EnergyOf' = EnergyOf /\ CostOf' = CostOf
  BY <1>3, <1>4 DEF EnergyOf, CostOf, Change
<1>8. InputInv => InputInv'
  BY <1>1, <1>3, <1>6 DEF InputInv
<1> QED
  BY <1>3, <1>4, <1>5, <1>6, <1>7, <1>8

LEMMA InitHolds == Init => LoopInv
BY DEF Init, LoopInv, InputInv, RowHours

LEMMA LoopOfReadPrices ==
    ASSUME LoopInv, ReadPrices
    PROVE  LoopInv'
<1>1. UNCHANGED input /\ InputInv
  BY DEF ReadPrices, LoopInv
<1>2. InputInv'
  BY <1>1, InputStays
<1>3. /\ at = "prices" /\ at' = "rows" /\ next' = 1 /\ sorted_rows' = SortedByStart(energy_rows)
      /\ UNCHANGED <<running_cost, total_energy, points, missing_price_hours,
                     invalid_energy_hours, end_energy>>
  BY DEF ReadPrices, findings
<1>4. /\ running_cost = InitialCost /\ total_energy = 0 /\ points = <<>>
      /\ missing_price_hours = <<>> /\ invalid_energy_hours = <<>> /\ end_energy = None
  BY <1>3 DEF LoopInv
<1>5. prices' = [h \in Period |-> UsablePrice(h)]'
  <2>1. prices' = [h \in Period |-> UsablePrice(h)]
    BY DEF ReadPrices, UsablePrice, PriceValue, FiniteOrNone
  <2> QED
    BY <1>1, <2>1, InputStays
<1>6. InOrder(sorted_rows)'
  <2>1. InOrder(SortedByStart(energy_rows))
    BY <1>1, SortedIsInOrder
  <2>2. \A h : EnergyRow(h)' = EnergyRow(h)
    BY <1>1, InputStays
  <2>3. RowHours' = RowHours
    BY <1>1, InputStays
  <2> DEFINE sorted == SortedByStart(energy_rows)
  <2> HIDE DEF sorted
  <2>4. sorted_rows' = sorted /\ InOrder(sorted)
    BY <1>3, <2>1 DEF sorted
  <2> QED
    BY <2>2, <2>3, <2>4 DEF InOrder
<1>7. Len(sorted_rows') \in Nat
  BY <1>6, LenProperties DEF InOrder
<1>8. Taken' = {} /\ \A v : Judged(v)' = {}
  BY <1>3 DEF Taken, Judged
<1>9. /\ Climbs(invalid_energy_hours, Judged("invalid"))'
      /\ Climbs(missing_price_hours, Judged("unpriced"))'
      /\ Climbs(Starts(points), Judged("ok"))'
  <2>1. Starts(<<>>) = <<>>
    BY DEF Starts
  <2> QED
    BY <1>3, <1>4, <1>8, <2>1, ClimbsEmpty
<1>10. /\ running_cost' = InitialCost + SumFunctionOnSet(CostOf', Judged("ok")')
       /\ total_energy' = SumFunctionOnSet(EnergyOf', Judged("ok")')
  <2>1. Judged("ok")' = {}
    BY <1>8
  <2>2. /\ SumFunctionOnSet(CostOf', Judged("ok")') = 0
        /\ SumFunctionOnSet(EnergyOf', Judged("ok")') = 0
    BY <2>1, SumOfNone, Zenon
  <2>3. running_cost' = InitialCost + 0 /\ total_energy' = 0
    BY <1>3, <1>4, BackfillAssumption
  <2> QED
    BY <2>2, <2>3, Zenon
<1>11. /\ points' \in Seq([start: Period, sum: Int]) /\ Len(points') = 0
       /\ Len(points') + Len(missing_price_hours') + Len(invalid_energy_hours') = next' - 1
  BY <1>3, <1>4
<1>12. Progress'
  BY <1>3, <1>5, <1>6, <1>7, <1>9, <1>10, <1>11 DEF Progress
<1> QED
  BY <1>2, <1>3, <1>4, <1>12 DEF LoopInv

(* Taking a row. *)
Takes(h) ==
    /\ UNCHANGED <<input, at, sorted_rows, prices, end_energy>>
    /\ TakeRow /\ Row.start = h

LEMMA RowTaken ==
    ASSUME LoopInv, NEW h, Takes(h)
    PROVE  /\ InputInv /\ Progress
           /\ h \in RowHours /\ h \in Period /\ h \in Nat /\ Row = EnergyRow(h)
           /\ prices[h] = UsablePrice(h)
           /\ \A y \in Taken : y \in Period /\ y \in Nat /\ y < h
           /\ Taken' = Taken \cup {h}
           /\ \A v : Judged(v)' = IF Verdict(h) = v THEN Judged(v) \cup {h} ELSE Judged(v)
<1>1. InputInv /\ Progress
  BY DEF LoopInv, Takes, TakeRow
<1>2. /\ InOrder(sorted_rows) /\ next \in 1 .. Len(sorted_rows) + 1
      /\ prices = [x \in Period |-> UsablePrice(x)]
  BY <1>1 DEF Progress
<1>3. /\ next' = next + 1 /\ sorted_rows' = sorted_rows /\ next <= Len(sorted_rows)
      /\ UNCHANGED input
  BY DEF Takes, TakeRow
<1> DEFINE n == Len(sorted_rows)
<1>4. n \in Nat
  BY <1>2, LenProperties DEF InOrder
<1>5. /\ \A i \in 1 .. n : sorted_rows[i] = EnergyRow(sorted_rows[i].start)
      /\ \A i \in 1 .. n : Starts(sorted_rows)[i] = sorted_rows[i].start
      /\ Climbs(Starts(sorted_rows), RowHours) /\ Len(Starts(sorted_rows)) = n
  BY <1>2 DEF InOrder, Starts
<1>6. /\ \A i \in 1 .. n : sorted_rows[i].start \in RowHours
      /\ \A i, j \in 1 .. n : i < j => sorted_rows[i].start < sorted_rows[j].start
  <2>1. \A i \in 1 .. n : Starts(sorted_rows)[i] \in RowHours
    BY <1>5, ClimbsTo
  <2>2. \A i, j \in 1 .. n : i < j => Starts(sorted_rows)[i] < Starts(sorted_rows)[j]
    BY <1>5 DEF Climbs
  <2> HIDE DEF n
  <2> QED
    BY <1>5, <2>1, <2>2
<1> HIDE DEF n
<1>7. next \in 1 .. n /\ h = sorted_rows[next].start
  BY <1>2, <1>3, <1>4 DEF Takes, Row, n
<1>8. h \in RowHours /\ Row = EnergyRow(h)
  BY <1>5, <1>6, <1>7 DEF Row
<1>9. h \in Period /\ h \in Nat
  BY <1>8, RowHoursAre
<1>10. \A y \in Taken : y \in RowHours /\ y < h
  <2>1. \A i \in 1 .. next - 1 : i \in 1 .. n /\ i < next
    BY <1>4, <1>7
  <2> QED
    BY <1>6, <1>7, <2>1 DEF Taken
<1>11. Taken' = Taken \cup {h}
  <2>1. 1 .. next' - 1 = (1 .. next - 1) \cup {next}
    BY <1>3, <1>4, <1>7
  <2> QED
    BY <1>3, <1>7, <2>1 DEF Taken
<1>12. \A v : Judged(v)' = IF Verdict(h) = v THEN Judged(v) \cup {h} ELSE Judged(v)
  <2>1. \A x : Verdict(x)' = Verdict(x)
    BY <1>3, InputStays
  <2>2. \A v : Judged(v)' = {x \in Taken' : Verdict(x)' = v}
    BY DEF Judged
  <2> QED
    BY <1>11, <2>1, <2>2 DEF Judged
<1> QED
  BY <1>1, <1>2, <1>8, <1>9, <1>10, <1>11, <1>12, RowHoursAre

LEMMA JudgedIs ==
    ASSUME LoopInv, NEW h, Takes(h), NEW v
    PROVE  /\ \A y \in Judged(v) : y \in Int /\ y \in Period /\ y < h /\ Verdict(y) = v
           /\ Judged(v) \in SUBSET Period /\ IsFiniteSet(Judged(v)) /\ h \notin Judged(v)
<1>1. \A y \in Judged(v) : y \in Int /\ y \in Period /\ y < h /\ Verdict(y) = v
  BY RowTaken DEF Judged
<1>2. Judged(v) \in SUBSET Period
  BY <1>1
<1>3. IsFiniteSet(Judged(v))
  BY <1>2, PeriodIs, FS_Subset
<1>4. h \notin Judged(v)
  <2>1. h \in Nat
    BY RowTaken
  <2> QED
    BY <1>1, <2>1
<1> QED
  BY <1>1, <1>2, <1>3, <1>4

LEMMA CostsStay ==
    ASSUME LoopInv, NEW h, Takes(h), Verdict(h) # "ok",
           UNCHANGED <<points, running_cost, total_energy>>
    PROVE  /\ Climbs(Starts(points), Judged("ok"))'
           /\ (points \in Seq([start: Period, sum: Int]))'
           /\ running_cost' = InitialCost + SumFunctionOnSet(CostOf, Judged("ok"))'
           /\ total_energy' = SumFunctionOnSet(EnergyOf, Judged("ok"))'
           /\ (\A i \in 1 .. Len(points) :
                  points[i].sum = InitialCost + SumFunctionOnSet(CostOf,
                                           {x \in Judged("ok") : x <= points[i].start}))'
<1>1. Judged("ok")' = Judged("ok") /\ Progress
  BY RowTaken
<1>2. CostOf' = CostOf /\ EnergyOf' = EnergyOf
  BY InputStays DEF Takes
<1> QED
  BY <1>1, <1>2 DEF Progress, Starts

LEMMA LoopOfRow ==
    ASSUME LoopInv, NEW h, Takes(h),
           Climbs(invalid_energy_hours, Judged("invalid"))',
           Climbs(missing_price_hours, Judged("unpriced"))',
           Climbs(Starts(points), Judged("ok"))',
           points' \in Seq([start: Period, sum: Int]),
           Len(points') + Len(missing_price_hours') + Len(invalid_energy_hours') = next,
           running_cost' = InitialCost + SumFunctionOnSet(CostOf, Judged("ok"))',
           total_energy' = SumFunctionOnSet(EnergyOf, Judged("ok"))',
           (\A i \in 1 .. Len(points) :
               points[i].sum = InitialCost + SumFunctionOnSet(CostOf,
                                           {x \in Judged("ok") : x <= points[i].start}))'
    PROVE  LoopInv'
<1>1. /\ UNCHANGED <<input, at, sorted_rows, prices, end_energy>>
      /\ at = "rows" /\ next' = next + 1 /\ next <= Len(sorted_rows)
  BY DEF Takes, TakeRow
<1>2. InputInv /\ Progress
  BY RowTaken
<1>3. InputInv'
  BY <1>1, <1>2, InputStays
<1>4. InOrder(sorted_rows)'
  <2>1. (\A x : EnergyRow(x)' = EnergyRow(x)) /\ RowHours' = RowHours
    BY <1>1, InputStays
  <2> QED
    BY <1>1, <1>2, <2>1 DEF Progress, InOrder
<1>5. prices' = [x \in Period |-> UsablePrice(x)]'
  <2>1. \A x : UsablePrice(x)' = UsablePrice(x)
    BY <1>1, InputStays
  <2> QED
    BY <1>1, <1>2, <2>1 DEF Progress
<1>6. next' \in 1 .. Len(sorted_rows') + 1 /\ next = next' - 1
  <2>1. Len(sorted_rows) \in Nat
    BY <1>2, LenProperties DEF Progress, InOrder
  <2> QED
    BY <1>1, <1>2, <2>1 DEF Progress
<1>7. Progress'
  BY <1>4, <1>5, <1>6 DEF Progress
<1> QED
  BY <1>1, <1>3, <1>7 DEF LoopInv

LEMMA HoursAppend ==
    ASSUME LoopInv, NEW h, Takes(h), NEW v, Verdict(h) = v,
           NEW hours, Climbs(hours, Judged(v))
    PROVE  /\ Climbs(Append(hours, h), Judged(v)')
           /\ Len(Append(hours, h)) = Len(hours) + 1 /\ Len(hours) \in Nat
<1>1. h \in Int /\ Judged(v)' = Judged(v) \cup {h}
  BY RowTaken
<1>2. \A y \in Judged(v) : y \in Int /\ y < h
  BY JudgedIs
<1>3. Climbs(Append(hours, h), Judged(v) \cup {h})
  BY <1>1, <1>2, ClimbsAppend
<1>4. Len(Append(hours, h)) = Len(hours) + 1 /\ Len(hours) \in Nat
  <2>1. hours \in Seq(Judged(v))
    BY DEF Climbs
  <2> QED
    BY <2>1, LenProperties
<1> QED
  BY <1>1, <1>3, <1>4

LEMMA LengthsAre ==
    ASSUME LoopInv, Progress
    PROVE  /\ Len(points) \in Nat /\ Len(missing_price_hours) \in Nat
           /\ Len(invalid_energy_hours) \in Nat /\ next \in Nat
           /\ Len(points) + Len(missing_price_hours) + Len(invalid_energy_hours) = next - 1
<1>1. Len(sorted_rows) \in Nat /\ Len(points) \in Nat
  BY LenProperties DEF Progress, InOrder
<1>2. Len(missing_price_hours) \in Nat /\ Len(invalid_energy_hours) \in Nat
  BY ClimbsTo DEF Progress
<1> QED
  BY <1>1, <1>2 DEF Progress

LEMMA LoopOfSkipInvalid ==
    ASSUME LoopInv, SkipInvalid
    PROVE  LoopInv'
<1> DEFINE h == Row.start
<1>1. PICK x : x = h
  OBVIOUS
<1> HIDE DEF h
<1>2. Takes(x) /\ ~ValidChange(Row)
      /\ invalid_energy_hours' = Append(invalid_energy_hours, x)
      /\ UNCHANGED <<running_cost, total_energy, points, missing_price_hours>>
  BY <1>1 DEF SkipInvalid, Takes, TakeRow, h
<1>3. Progress /\ Verdict(x) = "invalid"
  BY <1>2, RowTaken DEF Verdict
<1>4. Climbs(invalid_energy_hours, Judged("invalid"))'
      /\ Len(invalid_energy_hours') = Len(invalid_energy_hours) + 1
  <2>1. Climbs(invalid_energy_hours, Judged("invalid"))
    BY <1>3 DEF Progress
  <2> QED
    BY <1>2, <1>3, <2>1, HoursAppend
<1>5. Climbs(missing_price_hours, Judged("unpriced"))'
  <2>1. Judged("unpriced")' = Judged("unpriced")
    BY <1>2, <1>3, RowTaken
  <2> QED
    BY <1>2, <1>3, <2>1 DEF Progress
<1>6. Len(points') + Len(missing_price_hours') + Len(invalid_energy_hours') = next
  BY <1>2, <1>3, <1>4, LengthsAre
<1> QED
  BY <1>2, <1>3, <1>4, <1>5, <1>6, CostsStay, LoopOfRow

LEMMA LoopOfSkipUnpriced ==
    ASSUME LoopInv, SkipUnpriced
    PROVE  LoopInv'
<1> DEFINE h == Row.start
<1>1. PICK x : x = h
  OBVIOUS
<1> HIDE DEF h
<1>2. Takes(x) /\ ValidChange(Row) /\ NeedsPrice(Row)
      /\ missing_price_hours' = Append(missing_price_hours, x)
      /\ UNCHANGED <<running_cost, total_energy, points, invalid_energy_hours>>
  BY <1>1 DEF SkipUnpriced, Takes, TakeRow, h
<1>3. Progress /\ Verdict(x) = "unpriced"
  <2>1. Row = EnergyRow(x) /\ Row.start = x /\ prices[x] = UsablePrice(x) /\ Progress
    BY <1>2, RowTaken DEF Takes
  <2> QED
    BY <1>2, <2>1 DEF Verdict, NeedsPrice
<1>4. Climbs(missing_price_hours, Judged("unpriced"))'
      /\ Len(missing_price_hours') = Len(missing_price_hours) + 1
  <2>1. Climbs(missing_price_hours, Judged("unpriced"))
    BY <1>3 DEF Progress
  <2> QED
    BY <1>2, <1>3, <2>1, HoursAppend
<1>5. Climbs(invalid_energy_hours, Judged("invalid"))'
  <2>1. Judged("invalid")' = Judged("invalid")
    BY <1>2, <1>3, RowTaken
  <2> QED
    BY <1>2, <1>3, <2>1 DEF Progress
<1>6. Len(points') + Len(missing_price_hours') + Len(invalid_energy_hours') = next
  BY <1>2, <1>3, <1>4, LengthsAre
<1> QED
  BY <1>2, <1>3, <1>4, <1>5, <1>6, CostsStay, LoopOfRow

LEMMA LoopOfCostHour ==
    ASSUME LoopInv, CostHour
    PROVE  LoopInv'
<1> DEFINE h == Row.start
           P == [start: Period, sum: Int]
<1>1. PICK x : x = h
  OBVIOUS
<1> HIDE DEF h
<1>2. Takes(x) /\ ValidChange(Row) /\ ~NeedsPrice(Row)
      /\ points' = Append(points, [start |-> x, sum |-> running_cost'])
      /\ total_energy' = total_energy + Change(Row)
      /\ UNCHANGED <<missing_price_hours, invalid_energy_hours>>
  BY <1>1 DEF CostHour, Takes, TakeRow, h, findings
<1>3. /\ Row = EnergyRow(x) /\ Row.start = x /\ prices[x] = UsablePrice(x) /\ Progress
      /\ InputInv /\ x \in Period /\ x \in Nat
  BY <1>2, RowTaken DEF Takes
<1>4. Verdict(x) = "ok"
  BY <1>2, <1>3 DEF Verdict, NeedsPrice
<1>5. running_cost' = running_cost + CostOf[x] /\ total_energy' = total_energy + EnergyOf[x]
  BY <1>2, <1>3 DEF CostHour, CostOf, EnergyOf
<1> DEFINE J == Judged("ok")
<1>6. /\ J' = J \cup {x} /\ CostOf' = CostOf /\ EnergyOf' = EnergyOf
      /\ Judged("invalid")' = Judged("invalid") /\ Judged("unpriced")' = Judged("unpriced")
  <2>1. CostOf' = CostOf /\ EnergyOf' = EnergyOf
    BY <1>2, InputStays DEF Takes
  <2> QED
    BY <1>2, <1>4, <2>1, RowTaken
<1>7. /\ IsFiniteSet(J) /\ x \notin J
      /\ \A y \in J \cup {x} : CostOf[y] \in Int /\ EnergyOf[y] \in Int
      /\ \A y \in J : y \in Int /\ y < x
  <2>1. IsFiniteSet(J) /\ x \notin J
    BY <1>2, JudgedIs
  <2>2. \A y \in J : y \in Int /\ y < x /\ y \in Period /\ Verdict(y) = "ok"
    BY <1>2, JudgedIs
  <2>3. \A y \in J \cup {x} : CostOf[y] \in Int /\ EnergyOf[y] \in Int
    BY <1>3, <1>4, <2>2, ChargeIs
  <2> QED
    BY <2>1, <2>2, <2>3
<1> HIDE DEF J
<1>8. /\ SumFunctionOnSet(CostOf, J \cup {x}) = SumFunctionOnSet(CostOf, J) + CostOf[x]
      /\ SumFunctionOnSet(EnergyOf, J \cup {x}) = SumFunctionOnSet(EnergyOf, J) + EnergyOf[x]
      /\ SumFunctionOnSet(CostOf, J) \in Int /\ SumFunctionOnSet(EnergyOf, J) \in Int
      /\ CostOf[x] \in Int /\ EnergyOf[x] \in Int
  BY <1>7, SumAdds, SumType
<1>9. /\ running_cost = InitialCost + SumFunctionOnSet(CostOf, J)
      /\ total_energy = SumFunctionOnSet(EnergyOf, J)
  BY <1>3 DEF Progress, J
<1>10. /\ running_cost' = InitialCost + SumFunctionOnSet(CostOf, J \cup {x})
       /\ total_energy' = SumFunctionOnSet(EnergyOf, J \cup {x})
       /\ running_cost' \in Int
  BY <1>5, <1>8, <1>9, BackfillAssumption
<1>11. /\ points \in Seq(P) /\ Climbs(Starts(points), J)
       /\ \A i \in 1 .. Len(points) :
             points[i].sum = InitialCost + SumFunctionOnSet(CostOf, {y \in J : y <= points[i].start})
  BY <1>3 DEF Progress, J
<1> DEFINE n == Len(points)
<1>12. /\ n \in Nat /\ points' \in Seq(P) /\ Len(points') = n + 1
       /\ \A i \in 1 .. n : points'[i] = points[i] /\ points[i].start \in J
       /\ points'[n + 1] = [start |-> x, sum |-> running_cost']
  <2>1. [start |-> x, sum |-> running_cost'] \in P
    BY <1>3, <1>10
  <2>2. \A i \in 1 .. n : points[i].start \in J
    <3>1. n \in Nat
      BY <1>11, LenProperties
    <3>2. Len(Starts(points)) = n /\ \A i \in 1 .. n : Starts(points)[i] = points[i].start
      BY <3>1 DEF Starts
    <3> HIDE DEF n
    <3> QED
      BY <1>11, <3>2, ClimbsTo
  <2> HIDE DEF P
  <2> QED
    BY <1>2, <1>11, <2>1, <2>2, AppendProperties, LenProperties
<1>13. Climbs(Starts(points), Judged("ok"))'
  <2>1. Climbs(Append(Starts(points), x), J')
    BY <1>2, <1>4, <1>11, HoursAppend DEF J
  <2>2. Starts(points') = Append(Starts(points), x)
    <3>1. /\ Starts(points) \in Seq(J) /\ Len(Starts(points)) = n
          /\ \A i \in 1 .. n : Starts(points)[i] = points[i].start
      BY <1>12, StartsIs
    <3>2. Starts(points) \in Seq(J \cup {x})
      BY <3>1, SeqMonotonic
    <3> DEFINE a == Append(Starts(points), x)
    <3>3. /\ a \in Seq(J \cup {x}) /\ Len(a) = n + 1 /\ a[n + 1] = x
          /\ \A i \in 1 .. n : a[i] = points[i].start
      BY <3>1, <3>2, AppendProperties
    <3>4. \A i \in 1 .. n + 1 : points'[i].start \in J \cup {x}
      <4> HIDE DEF n
      <4> QED
        BY <1>12
    <3>5. /\ Starts(points') \in Seq(J \cup {x}) /\ Len(Starts(points')) = n + 1
          /\ \A i \in 1 .. n + 1 : Starts(points')[i] = points'[i].start
      <4>1. Len(points') = n + 1 /\ n \in Nat
        BY <1>12
      <4>2. \A i \in 1 .. Len(points') : points'[i].start \in J \cup {x}
        BY <3>4, <4>1
      <4> HIDE DEF n
      <4>3. Starts(points') \in Seq(J \cup {x})
        BY <4>1, <4>2 DEF Starts
      <4> QED
        BY <4>1, <4>3 DEF Starts
    <3> HIDE DEF n, a
    <3>6. \A i \in 1 .. n + 1 : Starts(points')[i] = a[i]
      BY <1>12, <3>3, <3>5
    <3> QED
      BY <1>12, <3>3, <3>5, <3>6, SeqEqual DEF a
  <2> QED
    BY <2>1, <2>2 DEF J, Starts
<1>14. (\A i \in 1 .. Len(points) :
           points[i].sum = InitialCost + SumFunctionOnSet(CostOf,
                                           {y \in Judged("ok") : y <= points[i].start}))'
  <2> HIDE DEF n
  <2>1. ASSUME NEW i \in 1 .. n + 1
        PROVE  points'[i].sum = InitialCost + SumFunctionOnSet(CostOf,
                                           {y \in J \cup {x} : y <= points'[i].start})
    <3>1. CASE i \in 1 .. n
      <4>1. points'[i] = points[i] /\ points[i].start \in J
        BY <1>12, <3>1
      <4>2. {y \in J \cup {x} : y <= points'[i].start} = {y \in J : y <= points[i].start}
        BY <1>3, <1>7, <4>1
      <4> QED
        BY <1>11, <3>1, <4>1, <4>2 DEF n
    <3>2. CASE i = n + 1
      <4>1. points'[i].start = x /\ points'[i].sum = running_cost'
        BY <1>12, <3>2
      <4>2. {y \in J \cup {x} : y <= x} = J \cup {x}
        BY <1>3, <1>7
      <4> QED
        BY <1>10, <4>1, <4>2
    <3> QED
      BY <1>12, <3>1, <3>2
  <2> QED
    BY <1>6, <1>12, <2>1 DEF J
<1>15. Len(points') + Len(missing_price_hours') + Len(invalid_energy_hours') = next
  BY <1>2, <1>3, <1>12, LengthsAre
<1>16. /\ Climbs(invalid_energy_hours, Judged("invalid"))'
       /\ Climbs(missing_price_hours, Judged("unpriced"))'
  BY <1>2, <1>3, <1>6 DEF Progress
<1>17. /\ running_cost' = InitialCost + SumFunctionOnSet(CostOf, Judged("ok"))'
       /\ total_energy' = SumFunctionOnSet(EnergyOf, Judged("ok"))'
  BY <1>6, <1>10 DEF J
<1> QED
  BY <1>2, <1>12, <1>13, <1>14, <1>15, <1>16, <1>17, LoopOfRow

LEMMA ProgressStays ==
    ASSUME Progress,
           UNCHANGED <<input, prices, sorted_rows, next, running_cost, total_energy, points,
                       missing_price_hours, invalid_energy_hours>>
    PROVE  Progress'
<1>1. /\ \A x : EnergyRow(x)' = EnergyRow(x) /\ UsablePrice(x)' = UsablePrice(x)
      /\ \A x : Verdict(x)' = Verdict(x)
      /\ RowHours' = RowHours /\ CostOf' = CostOf /\ EnergyOf' = EnergyOf
  BY InputStays
<1>2. InOrder(sorted_rows)'
  BY <1>1 DEF Progress, InOrder
<1>3. prices' = [x \in Period |-> UsablePrice(x)]'
  BY <1>1 DEF Progress
<1>4. Taken' = Taken
  BY DEF Taken
<1>5. \A v : Judged(v)' = Judged(v)
  BY <1>1, <1>4 DEF Judged
<1>6. /\ Judged("invalid")' = Judged("invalid") /\ Judged("unpriced")' = Judged("unpriced")
      /\ Judged("ok")' = Judged("ok")
  BY <1>5
<1>7. /\ Climbs(invalid_energy_hours, Judged("invalid"))'
      /\ Climbs(missing_price_hours, Judged("unpriced"))'
      /\ Climbs(Starts(points), Judged("ok"))'
  BY <1>6 DEF Progress, Starts
<1>8. /\ running_cost' = InitialCost + SumFunctionOnSet(CostOf, Judged("ok"))'
      /\ total_energy' = SumFunctionOnSet(EnergyOf, Judged("ok"))'
      /\ (\A i \in 1 .. Len(points) :
             points[i].sum = InitialCost + SumFunctionOnSet(CostOf,
                                           {y \in Judged("ok") : y <= points[i].start}))'
  BY <1>1, <1>6 DEF Progress
<1> QED
  BY <1>2, <1>3, <1>7, <1>8 DEF Progress

LEMMA LoopOfFinish ==
    ASSUME LoopInv, Finish
    PROVE  LoopInv'
<1>1. /\ UNCHANGED <<input, prices, sorted_rows, next, running_cost, total_energy, points,
                     missing_price_hours, invalid_energy_hours>>
      /\ at = "rows" /\ next > Len(sorted_rows) /\ at' = "done"
      /\ end_energy' = IF sorted_rows = <<>> THEN None
                       ELSE FiniteOrNone(Last(sorted_rows).state)
  BY DEF Finish, findings
<1>2. InputInv /\ Progress
  BY <1>1 DEF LoopInv
<1>3. InputInv' /\ Progress'
  BY <1>1, <1>2, InputStays, ProgressStays
<1>4. next = Len(sorted_rows) + 1
  <2>1. Len(sorted_rows) \in Nat
    BY <1>2, LenProperties DEF Progress, InOrder
  <2> QED
    BY <1>1, <1>2, <2>1 DEF Progress
<1>5. /\ next' = Len(sorted_rows') + 1
      /\ end_energy' = IF sorted_rows' = <<>> THEN None
                       ELSE FiniteOrNone(Last(sorted_rows').state)
  BY <1>1, <1>4
<1>6. (end_energy = IF sorted_rows = <<>> THEN None ELSE FiniteOrNone(Last(sorted_rows).state))'
  BY <1>5 DEF FiniteOrNone, Last
<1> QED
  BY <1>1, <1>3, <1>5, <1>6 DEF LoopInv

LEMMA LoopOfNothing ==
    ASSUME LoopInv, UNCHANGED vars
    PROVE  LoopInv'
<1>1. UNCHANGED <<input, at, prices, sorted_rows, next, running_cost, total_energy, points,
                  missing_price_hours, invalid_energy_hours, end_energy>>
  BY DEF vars, findings
<1>2. InputInv'
  BY <1>1, InputStays DEF LoopInv
<1>3. at # "prices" => Progress'
  BY <1>1, ProgressStays DEF LoopInv
<1> QED
  BY <1>1, <1>2, <1>3 DEF LoopInv, Last, FiniteOrNone

LEMMA StepHolds == LoopInv /\ [Next]_vars => LoopInv'
<1> SUFFICES ASSUME LoopInv, [Next]_vars PROVE LoopInv'
  OBVIOUS
<1>1. CASE ReadPrices
  BY <1>1, LoopOfReadPrices
<1>2. CASE SkipInvalid
  BY <1>2, LoopOfSkipInvalid
<1>3. CASE SkipUnpriced
  BY <1>3, LoopOfSkipUnpriced
<1>4. CASE CostHour
  BY <1>4, LoopOfCostHour
<1>5. CASE Finish
  BY <1>5, LoopOfFinish
<1>6. CASE UNCHANGED vars
  BY <1>6, LoopOfNothing
<1> QED
  BY <1>1, <1>2, <1>3, <1>4, <1>5, <1>6 DEF Next

LEMMA InvCorrect == Spec => []LoopInv
<1>1. Init => LoopInv
  BY InitHolds
<1>2. LoopInv /\ [Next]_vars => LoopInv'
  BY StepHolds
<1> QED
  BY <1>1, <1>2, PTL DEF Spec

-----------------------------------------------------------------------------
(* Types.                                                                  *)

LEMMA NextBound ==
    ASSUME LoopInv
    PROVE  next \in 0 .. ExpectedHours + 1
<1>1. CASE at = "prices"
  BY <1>1, BackfillAssumption DEF LoopInv
<1>2. CASE at # "prices"
  <2>1. InOrder(sorted_rows) /\ next \in 1 .. Len(sorted_rows) + 1
    BY <1>2 DEF LoopInv, Progress
  <2>2. Climbs(Starts(sorted_rows), RowHours) /\ Len(Starts(sorted_rows)) = Len(sorted_rows)
    BY <2>1 DEF InOrder
  <2>3. Cardinality(RowHours) = Len(sorted_rows)
    <3>1. \A h \in RowHours : h \in Int
      BY RowHoursAre
    <3> QED
      BY <2>2, <3>1, ClimbsLength
  <2>4. Cardinality(RowHours) <= ExpectedHours
    <3>1. RowHours \in SUBSET Period /\ IsFiniteSet(Period) /\ Cardinality(Period) = ExpectedHours
      BY RowHoursAre, PeriodIs
    <3> QED
      BY <3>1, FS_Subset
  <2>5. Len(sorted_rows) \in Nat /\ ExpectedHours \in Nat
    BY <2>1, LenProperties, BackfillAssumption DEF InOrder
  <2> QED
    BY <2>1, <2>3, <2>4, <2>5
<1> QED
  BY <1>1, <1>2

LEMMA TypesAre == LoopInv => TypeOK
<1> SUFFICES ASSUME LoopInv PROVE TypeOK
  OBVIOUS
<1> DEFINE R == [start: Period, change: Numbers, state: Numbers]
<1>1. InputInv
  BY DEF LoopInv
<1>2. \A h \in RowHours : EnergyRow(h) \in R
  BY <1>1, RowHoursAre, EnergyRowIs
<1>3. \A i \in DOMAIN energy_rows : energy_rows[i] \in R
  BY <1>1, <1>2, RowsCome
<1>4. CASE at = "prices"
  <2>1. /\ metering \in [Period -> Meterings] /\ price_rows \in [Period -> PriceRows \cup {None}]
        /\ prices \in [Period -> Int \cup {None}]
        /\ sorted_rows = <<>> /\ points = <<>> /\ total_energy = 0 /\ running_cost = InitialCost
        /\ missing_price_hours = <<>> /\ invalid_energy_hours = <<>> /\ end_energy = None
    BY <1>1, <1>4 DEF LoopInv, InputInv
  <2>2. DOMAIN <<>> = {}
    OBVIOUS
  <2> HIDE DEF R
  <2> QED
    BY <1>3, <1>4, <2>1, <2>2, NextBound, BackfillAssumption DEF TypeOK, R
<1>5. CASE at # "prices"
  <2>1. Progress
    BY <1>5 DEF LoopInv
  <2>2. \A i \in DOMAIN sorted_rows : sorted_rows[i] \in R
    <3>1. sorted_rows \in Seq({EnergyRow(h) : h \in RowHours})
      BY <2>1 DEF Progress, InOrder
    <3>2. \A i \in DOMAIN sorted_rows : sorted_rows[i] \in {EnergyRow(h) : h \in RowHours}
      BY <3>1, LenProperties
    <3> HIDE DEF R
    <3> QED
      BY <1>2, <3>2
  <2>3. prices \in [Period -> Int \cup {None}]
    <3>1. \A h \in Period : UsablePrice(h) \in Int \cup {None}
      BY <1>1, UsablePriceIs
    <3> QED
      BY <2>1, <3>1 DEF Progress
  <2>4. \A v : \A h \in Judged(v) : h \in Period /\ h \in Int /\ Verdict(h) = v
    <3>1. Len(sorted_rows) \in Nat /\ next \in 1 .. Len(sorted_rows) + 1
      BY <2>1, LenProperties DEF Progress, InOrder
    <3>2. \A i \in 1 .. next - 1 : i \in DOMAIN sorted_rows
      BY <2>1, <3>1, LenProperties DEF Progress, InOrder
    <3>3. \A h \in Taken : h \in Period
      BY <2>2, <3>2 DEF Taken
    <3> QED
      BY <3>3, PeriodIs DEF Judged
  <2>5. running_cost \in Int /\ total_energy \in Nat
    <3> DEFINE J == Judged("ok")
    <3>1. IsFiniteSet(J)
      <4>1. J \in SUBSET Period
        BY <2>4
      <4> QED
        BY <4>1, PeriodIs, FS_Subset
    <3>2. \A h \in J : EnergyOf[h] \in Nat /\ CostOf[h] \in Int
      BY <1>1, <2>4, ChargeIs
    <3>3. running_cost = InitialCost + SumFunctionOnSet(CostOf, J)
          /\ total_energy = SumFunctionOnSet(EnergyOf, J)
      BY <2>1 DEF Progress
    <3> HIDE DEF J
    <3>4. SumFunctionOnSet(CostOf, J) \in Int
      BY <3>1, <3>2, SumType
    <3>5. SumFunctionOnSet(EnergyOf, J) \in Nat
      <4>1. Nat \in SUBSET Int /\ 0 \in Nat /\ \A a, b \in Nat : a + b \in Nat
        OBVIOUS
      <4> QED
        BY <3>1, <3>2, <4>1, SumStays
    <3> QED
      BY <3>3, <3>4, <3>5, BackfillAssumption
  <2>6. \A i \in DOMAIN points : points[i] \in [start: Period, sum: Int]
    BY <2>1, LenProperties DEF Progress
  <2>7. \A hours \in {missing_price_hours, invalid_energy_hours} :
           \A i \in DOMAIN hours : hours[i] \in Period
    <3>1. ASSUME NEW hours, NEW v, Climbs(hours, Judged(v))
          PROVE  \A i \in DOMAIN hours : hours[i] \in Period
      BY <2>4, <3>1, ClimbsTo
    <3>2. Climbs(missing_price_hours, Judged("unpriced"))
          /\ Climbs(invalid_energy_hours, Judged("invalid"))
      BY <2>1 DEF Progress
    <3> QED
      BY <3>1, <3>2
  <2>8. end_energy \in Nat \cup {None}
    <3>1. CASE at # "done" \/ sorted_rows = <<>>
      BY <3>1 DEF LoopInv
    <3>2. CASE at = "done" /\ sorted_rows # <<>>
      <4> DEFINE r == Last(sorted_rows)
                 h == r.start
      <4>1. end_energy = FiniteOrNone(r.state)
        BY <3>2 DEF LoopInv
      <4>2. Len(sorted_rows) \in 1 .. Len(sorted_rows)
        BY <2>1, <3>2, EmptySeq, LenProperties DEF Progress, InOrder
      <4>3. r = EnergyRow(h) /\ r \in R
        <5>1. \A i \in 1 .. Len(sorted_rows) : sorted_rows[i] = EnergyRow(sorted_rows[i].start)
          BY <2>1 DEF Progress, InOrder
        <5>2. Len(sorted_rows) \in DOMAIN sorted_rows
          BY <2>1, <4>2, LenProperties DEF Progress, InOrder
        <5> HIDE DEF R
        <5> QED
          BY <2>2, <4>2, <5>1, <5>2 DEF Last
      <4>4. h \in Period
        BY <4>3
      <4> HIDE DEF h, r, R
      <4>5. EnergyRow(h).state \in Nat \cup {Infinite}
        <5>1. 0 .. h \in SUBSET Period
          BY <4>4, SpanIs
        <5>2. Used(0 .. h) \in Nat
          BY <1>1, <5>1, UsedIs
        <5>3. EnergyRow(h).state = IF metering[h].fault = "no state" THEN Infinite
                                   ELSE Used(0 .. h)
          BY <1>1, <4>4, EnergyRowIs
        <5> QED
          BY <5>2, <5>3
      <4> QED
        BY <4>1, <4>3, <4>5, BackfillAssumption DEF FiniteOrNone
    <3> QED
      BY <3>1, <3>2
  <2>9. /\ metering \in [Period -> Meterings] /\ price_rows \in [Period -> PriceRows \cup {None}]
        /\ at \in {"prices", "rows", "done"}
    BY <1>1 DEF LoopInv, InputInv
  <2> HIDE DEF R
  <2>10. \A rows \in {energy_rows, sorted_rows} : \A i \in DOMAIN rows : rows[i] \in R
    BY <1>3, <2>2
  <2> QED
    BY <2>3, <2>5, <2>6, <2>7, <2>8, <2>9, <2>10, NextBound DEF TypeOK, R
<1> QED
  BY <1>4, <1>5

(* Every state of the calculation is of its types: whatever the recorder    *)
(* has of the period, build_backfill_series ends with a finite reading of   *)
(* the meter or none.                                                       *)
THEOREM BackfillTypeCorrect == Spec => []TypeOK
BY InvCorrect, TypesAre, PTL

-----------------------------------------------------------------------------
(* The end of the loop.                                                    *)

LEMMA DoneIs ==
    ASSUME LoopInv, at = "done"
    PROVE  /\ InputInv /\ Progress
           /\ \A v : Judged(v) = {h \in RowHours : Verdict(h) = v}
           /\ Len(sorted_rows) \in Nat /\ next = Len(sorted_rows) + 1
           /\ Len(sorted_rows) = Cardinality(RowHours)
<1>1. InputInv /\ Progress /\ next = Len(sorted_rows) + 1
  BY DEF LoopInv
<1>2. InOrder(sorted_rows)
  BY <1>1 DEF Progress
<1> DEFINE n == Len(sorted_rows)
<1>3. /\ n \in Nat /\ Climbs(Starts(sorted_rows), RowHours) /\ Len(Starts(sorted_rows)) = n
      /\ \A i \in 1 .. n : Starts(sorted_rows)[i] = sorted_rows[i].start
  BY <1>2, LenProperties DEF InOrder, Starts
<1> HIDE DEF n
<1>4. /\ \A i \in 1 .. n : sorted_rows[i].start \in RowHours
      /\ \A h \in RowHours : \E i \in 1 .. n : sorted_rows[i].start = h
  <2>1. \A i \in 1 .. n : Starts(sorted_rows)[i] \in RowHours
    BY <1>3, ClimbsTo
  <2>2. \A h \in RowHours : \E i \in 1 .. n : Starts(sorted_rows)[i] = h
    BY <1>3 DEF Climbs
  <2> QED
    BY <1>3, <2>1, <2>2
<1>5. next - 1 = n
  BY <1>1, <1>3 DEF n
<1>6. Taken = RowHours
  BY <1>4, <1>5 DEF Taken
<1>7. Cardinality(RowHours) = n
  <2>1. \A h \in RowHours : h \in Int
    BY RowHoursAre
  <2> QED
    BY <1>3, <2>1, ClimbsLength
<1> QED
  BY <1>1, <1>3, <1>6, <1>7 DEF Judged, n

(* The reading at the end is that of the last hour that has a row.         *)
LEMMA EndReadingIs ==
    ASSUME LoopInv, at = "done"
    PROVE  /\ RowHours = {} => end_energy = None
           /\ RowHours # {} =>
                 /\ Max(RowHours) \in RowHours /\ \A h \in RowHours : h <= Max(RowHours)
                 /\ end_energy = FiniteOrNone(EnergyRow(Max(RowHours)).state)
<1> DEFINE n == Len(sorted_rows)
<1>1. /\ InOrder(sorted_rows) /\ n \in Nat /\ n = Cardinality(RowHours)
      /\ end_energy = IF sorted_rows = <<>> THEN None ELSE FiniteOrNone(Last(sorted_rows).state)
  BY DoneIs DEF Progress, LoopInv
<1>2. /\ \A i \in 1 .. n : sorted_rows[i] = EnergyRow(sorted_rows[i].start)
      /\ Climbs(Starts(sorted_rows), RowHours) /\ Len(Starts(sorted_rows)) = n
      /\ \A i \in 1 .. n : Starts(sorted_rows)[i] = sorted_rows[i].start
  BY <1>1 DEF InOrder, Starts
<1>3. CASE RowHours = {}
  <2>1. n = 0
    BY <1>1, <1>3, FS_EmptySet
  <2>2. sorted_rows = <<>>
    BY <1>1, <2>1, EmptySeq DEF InOrder
  <2> QED
    BY <1>1, <1>3, <2>2
<1>4. CASE RowHours # {}
  <2> DEFINE m == Max(RowHours)
  <2>1. m \in RowHours /\ \A h \in RowHours : h <= m
    <3>1. ExpectedHours \in Int /\ \A h \in RowHours : h \in Int /\ h <= ExpectedHours
      BY RowHoursAre, BackfillAssumption
    <3> QED
      BY <1>4, <3>1, MaxIs
  <2> HIDE DEF m, n
  <2>2. PICK i \in 1 .. n : Starts(sorted_rows)[i] = m
    BY <1>2, <2>1 DEF Climbs
  <2>3. Starts(sorted_rows)[n] \in RowHours
    <3>1. n \in 1 .. n
      BY <1>1, <2>2
    <3> QED
      BY <1>2, <3>1, ClimbsTo
  <2>4. i = n
    <3>1. SUFFICES ASSUME i < n PROVE FALSE
      BY <1>1, <2>2
    <3>2. Starts(sorted_rows)[i] < Starts(sorted_rows)[n]
      BY <1>1, <1>2, <2>2, <3>1 DEF Climbs
    <3>3. Starts(sorted_rows)[n] <= m /\ m \in Int /\ Starts(sorted_rows)[n] \in Int
      BY <2>1, <2>3, RowHoursAre
    <3> QED
      BY <2>2, <3>2, <3>3
  <2>5. Last(sorted_rows) = EnergyRow(m)
    BY <1>2, <2>2, <2>4 DEF Last, n
  <2>6. sorted_rows # <<>>
    BY <1>1, <2>2 DEF n
  <2> QED
    BY <1>1, <1>4, <2>1, <2>5, <2>6 DEF m
<1> QED
  BY <1>3, <1>4

(* What the loop makes of an hour is what the hour came to.                *)
LEMMA HourIs ==
    ASSUME Measurable, InputInv, NEW h \in RowHours
    PROVE  /\ Hours[h] # None /\ h \in DOMAIN Hours
           /\ Hours[h].kind = Verdict(h)
           /\ Verdict(h) = "ok" => Hours[h].change * Hours[h].price = CostOf[h]
           /\ Hours[h].state = FiniteOrNone(EnergyRow(h).state)
<1> DEFINE used == Used(Span(h))
           reading == Used(0 .. h)
           noise == metering[h].noise
           fault == metering[h].fault
           row == EnergyRow(h)
           usable == UsablePrice(h)
<1>1. h \in Period /\ HasRow(h)
  BY DEF RowHours
<1>2. used \in Nat /\ (used = 0 \/ used > 2 * ZeroTolerance)
  <2>1. Span(h) \in SUBSET Period
    BY <1>1, SpanIs
  <2> QED
    BY <2>1, UsedIs
<1>3. noise \in Int /\ noise \in -ZeroTolerance .. ZeroTolerance /\ ZeroTolerance \in Nat
  BY <1>1, MeteringIs, BackfillAssumption
<1>4. /\ row.change = IF fault = "no change" THEN Infinite
                      ELSE IF fault = "negative" THEN -1 - ZeroTolerance ELSE used + noise
      /\ row.state = IF fault = "no state" THEN Infinite ELSE reading
  BY <1>1, EnergyRowIs
<1>5. usable \in Int \cup {None}
  BY <1>1, UsablePriceIs
<1>6. reading \in Nat
  <2>1. 0 .. h \in SUBSET Period
    BY <1>1, SpanIs
  <2> QED
    BY <2>1, UsedIs
<1> DEFINE kind == IF fault \in {"no change", "negative"} THEN "invalid"
                   ELSE IF used > 0 /\ usable = None THEN "unpriced" ELSE "ok"
           change == IF used = 0 /\ noise < 0 THEN 0 ELSE used + noise
           price == IF usable # None THEN usable ELSE 0
           state == IF fault = "no state" THEN None ELSE reading
           hour == [kind |-> kind, change |-> change, price |-> price, state |-> state]
<1>7. Hours[h] = hour /\ h \in DOMAIN Hours
  BY <1>1 DEF Hours, HourOf
<1>8. Verdict(h) = IF ~ValidChange(row) THEN "invalid"
                   ELSE IF usable = None /\ Change(row) > ZeroTolerance THEN "unpriced" ELSE "ok"
  BY DEF Verdict
<1>9. CostOf[h] = Change(row) * (IF usable = None THEN 0 ELSE usable)
  BY <1>1 DEF CostOf
<1> HIDE DEF used, reading, noise, fault, row, usable
<1>10. kind \in {"ok", "unpriced", "invalid"} /\ change \in Int /\ price \in Int
       /\ state \in Int \cup {None}
  BY <1>2, <1>3, <1>5, <1>6
<1> HIDE DEF kind, change, price, state
<1>11. ValidChange(row) <=> fault \notin {"no change", "negative"}
  <2>1. CASE fault = "no change"
    <3>1. row.change = Infinite
      BY <1>4, <2>1
    <3> QED
      BY <2>1, <3>1 DEF ValidChange
  <2>2. CASE fault = "negative"
    <3>1. row.change = -1 - ZeroTolerance
      BY <1>4, <2>2
    <3>2. ~(row.change >= -ZeroTolerance)
      BY <1>3, <3>1
    <3> QED
      BY <2>2, <3>2 DEF ValidChange
  <2>3. CASE fault \notin {"no change", "negative"}
    <3>1. row.change = used + noise
      BY <1>4, <2>3
    <3>2. row.change \in Int /\ row.change >= -ZeroTolerance
      BY <1>2, <1>3, <3>1
    <3>3. row.change # Infinite
      BY <3>2, BackfillAssumption
    <3> QED
      BY <2>3, <3>2, <3>3 DEF ValidChange
  <2> QED
    BY <2>1, <2>2, <2>3
<1>12. ValidChange(row) => Change(row) = change /\ (Change(row) > ZeroTolerance <=> used > 0)
  <2>1. SUFFICES ASSUME ValidChange(row)
                 PROVE  Change(row) = change /\ (Change(row) > ZeroTolerance <=> used > 0)
    OBVIOUS
  <2>2. row.change = used + noise
    BY <1>4, <1>11, <2>1
  <2>3. CASE used = 0
    BY <1>2, <1>3, <2>2, <2>3 DEF Change, change
  <2>4. CASE used > 2 * ZeroTolerance
    <3>1. used + noise > ZeroTolerance
      BY <1>2, <1>3, <2>4
    <3> QED
      BY <1>2, <1>3, <2>2, <2>4, <3>1 DEF Change, change
  <2> QED
    BY <1>2, <2>3, <2>4
<1>13. state = FiniteOrNone(row.state)
  <2>1. CASE fault = "no state"
    <3>1. row.state = Infinite
      BY <1>4, <2>1
    <3> QED
      BY <2>1, <3>1 DEF FiniteOrNone, state
  <2>2. CASE fault # "no state"
    <3>1. row.state = reading
      BY <1>4, <2>2
    <3>2. reading # Infinite
      BY <1>6, BackfillAssumption
    <3> QED
      BY <2>2, <3>1, <3>2 DEF FiniteOrNone, state
  <2> QED
    BY <2>1, <2>2
<1>14. kind = Verdict(h)
  BY <1>8, <1>11, <1>12 DEF kind
<1>15. Verdict(h) = "ok" => change * price = CostOf[h]
  <2>1. SUFFICES ASSUME Verdict(h) = "ok" PROVE change * price = CostOf[h]
    OBVIOUS
  <2>2. ValidChange(row)
    BY <1>8, <2>1
  <2>3. price = (IF usable = None THEN 0 ELSE usable)
    BY DEF price
  <2> QED
    BY <1>9, <1>12, <2>2, <2>3
<1>16. hour \in HourType
  BY <1>10 DEF HourType
<1>17. hour # None
  <2> HIDE DEF hour
  <2> QED
    BY <1>16, BackfillAssumption
<1> QED
  BY <1>7, <1>13, <1>14, <1>15, <1>17 DEF row

LEMMA NoHourIs ==
    ASSUME NEW h \in Period, h \notin RowHours
    PROVE  Hours[h] = None
BY DEF RowHours, Hours, HourOf

(* Every hour is judged, once. *)
LEMMA JudgedAre ==
    ASSUME LoopInv, at = "done"
    PROVE  /\ \A v : Judged(v) \in SUBSET RowHours /\ IsFiniteSet(Judged(v))
                     /\ \A h \in Judged(v) : h \in Period /\ h \in Int /\ Verdict(h) = v
           /\ Judged("unpriced") \cup Judged("invalid") = RowHours \ Judged("ok")
<1>1. \A v : Judged(v) = {h \in RowHours : Verdict(h) = v}
  BY DoneIs
<1>2. \A v : Judged(v) \in SUBSET RowHours
  BY <1>1
<1>3. \A v : IsFiniteSet(Judged(v))
  BY <1>2, RowHoursAre, FS_Subset
<1>4. \A h : Verdict(h) \in {"ok", "unpriced", "invalid"}
  BY DEF Verdict
<1> QED
  BY <1>1, <1>2, <1>3, <1>4, RowHoursAre

LEMMA HoursAre ==
    ASSUME LoopInv, at = "done", Measurable
    PROVE  /\ Known(Hours) = RowHours
           /\ Costed(Hours) = Judged("ok")
           /\ Flagged(Hours) = Judged("unpriced") \cup Judged("invalid")
           /\ \A h \in Judged("ok") : Costs(Hours)[h] = CostOf[h]
<1>1. InputInv /\ \A v : Judged(v) = {h \in RowHours : Verdict(h) = v}
  BY DoneIs
<1>2. DOMAIN Hours = Period
  BY DEF Hours
<1>3. Known(Hours) = RowHours
  <2>1. \A h \in RowHours : h \in Period /\ Hours[h] # None
    BY <1>1, HourIs, RowHoursAre
  <2>2. \A h \in Period : h \notin RowHours => Hours[h] = None
    BY NoHourIs
  <2> QED
    BY <1>2, <2>1, <2>2 DEF Known
<1>4. Costed(Hours) = Judged("ok")
  <2>1. \A h \in RowHours : Hours[h].kind = Verdict(h)
    BY <1>1, HourIs
  <2> QED
    BY <1>1, <1>3, <2>1 DEF Costed
<1>5. \A h \in Judged("ok") : Costs(Hours)[h] = CostOf[h]
  <2>1. ASSUME NEW h \in Judged("ok") PROVE Hours[h].change * Hours[h].price = CostOf[h]
    <3>1. h \in RowHours /\ Verdict(h) = "ok"
      BY <1>1
    <3> QED
      BY <1>1, <3>1, HourIs
  <2>2. \A h \in Judged("ok") : Costs(Hours)[h] = Hours[h].change * Hours[h].price
    BY <1>4 DEF Costs
  <2> QED
    BY <2>1, <2>2
<1> QED
  BY <1>3, <1>4, <1>5, JudgedAre DEF Flagged

(* The points, as the end of the loop has them. *)
LEMMA PointsAre ==
    ASSUME LoopInv, at = "done"
    PROVE  /\ Len(points) = Cardinality(Judged("ok")) /\ Len(points) \in Nat
           /\ DOMAIN points = 1 .. Len(points)
           /\ \A i \in 1 .. Len(points) :
                 /\ points[i].start \in Judged("ok")
                 /\ points[i].sum = InitialCost + SumFunctionOnSet(CostOf,
                                           {h \in Judged("ok") : h <= points[i].start})
           /\ \A i, j \in 1 .. Len(points) : i < j => points[i].start < points[j].start
<1> DEFINE J == Judged("ok")
           n == Len(points)
<1>1. Climbs(Starts(points), J) /\ n \in Nat /\ DOMAIN points = 1 .. n
  <2>1. Progress
    BY DoneIs
  <2> QED
    BY <2>1, LenProperties DEF Progress
<1>2. Len(Starts(points)) = n /\ \A i \in 1 .. n : Starts(points)[i] = points[i].start
  BY <1>1 DEF Starts
<1>3. \A h \in J : h \in Int
  BY JudgedAre
<1>4. \A i \in 1 .. n : points[i].sum = InitialCost
                              + SumFunctionOnSet(CostOf, {h \in J : h <= points[i].start})
  BY DoneIs DEF Progress
<1> HIDE DEF J, n
<1>5. Cardinality(J) = n
  BY <1>1, <1>2, <1>3, ClimbsLength
<1>6. \A i \in 1 .. n : Starts(points)[i] \in J
  BY <1>1, <1>2, ClimbsTo
<1>7. \A i, j \in 1 .. n : i < j => Starts(points)[i] < Starts(points)[j]
  BY <1>1, <1>2 DEF Climbs
<1> QED
  BY <1>1, <1>2, <1>4, <1>5, <1>6, <1>7 DEF J, n

LEMMA FindingsAre ==
    ASSUME LoopInv, at = "done"
    PROVE  /\ Climbs(missing_price_hours, Judged("unpriced"))
           /\ Climbs(invalid_energy_hours, Judged("invalid"))
           /\ ToSet(missing_price_hours) = Judged("unpriced")
           /\ ToSet(invalid_energy_hours) = Judged("invalid")
<1>1. Climbs(missing_price_hours, Judged("unpriced"))
      /\ Climbs(invalid_energy_hours, Judged("invalid"))
  BY DoneIs DEF Progress
<1> QED
  BY <1>1, ClimbsTo

LEMMA SeriesIs ==
    ASSUME LoopInv, Measurable
    PROVE  LoopIsSeries
<1> SUFFICES ASSUME at = "done" PROVE LoopIsSeries
  BY DEF LoopIsSeries
<1> DEFINE J == Judged("ok")
           series == Series(Hours, InitialCost)
<1>1. /\ Known(Hours) = RowHours /\ Costed(Hours) = J
      /\ Flagged(Hours) = Judged("unpriced") \cup Judged("invalid")
      /\ \A h \in J : Costs(Hours)[h] = CostOf[h]
  BY HoursAre
<1>2. IsFiniteSet(J) /\ J \in SUBSET RowHours
  BY JudgedAre
<1>3. DOMAIN Costs(Hours) = J
  BY <1>1 DEF Costs
<1> HIDE DEF J
<1>4. ASSUME NEW S \in SUBSET J
      PROVE  SumFunctionOnSet(Costs(Hours), S) = SumFunctionOnSet(CostOf, S)
  <2>1. IsFiniteSet(S)
    BY <1>2, FS_Subset
  <2>2. \A h \in S : Costs(Hours)[h] = CostOf[h]
    BY <1>1
  <2> QED
    BY <2>1, <2>2, SumSame
<1>5. DOMAIN series = J /\ \A h \in J : series[h] = InitialCost
                                  + SumFunctionOnSet(CostOf, {i \in J : i <= h})
  <2>1. ASSUME NEW h \in J
        PROVE  series[h] = InitialCost + SumFunctionOnSet(CostOf, {i \in J : i <= h})
    <3>1. {i \in J : i <= h} \in SUBSET J
      OBVIOUS
    <3>2. series[h] = InitialCost + SumFunctionOnSet(Costs(Hours), {i \in J : i <= h})
      BY <1>1 DEF Series, CostUpTo
    <3> QED
      BY <1>4, <3>1, <3>2
  <2> QED
    BY <1>1, <2>1 DEF Series
<1>6. running_cost = Total(Hours, InitialCost)
  <2>1. SumFunction(Costs(Hours)) = SumFunctionOnSet(Costs(Hours), J)
    BY <1>3 DEF SumFunction, SumFunctionOnSet, FoldFunction
  <2>2. SumFunctionOnSet(Costs(Hours), J) = SumFunctionOnSet(CostOf, J)
    BY <1>4
  <2>3. running_cost = InitialCost + SumFunctionOnSet(CostOf, J)
    BY DoneIs DEF Progress, J
  <2> QED
    BY <2>1, <2>2, <2>3 DEF Total
<1>7. end_energy = EndEnergy(Hours)
  <2>1. CASE RowHours = {}
    BY <1>1, <2>1, EndReadingIs DEF EndEnergy
  <2>2. CASE RowHours # {}
    <3>1. Max(RowHours) \in RowHours /\ end_energy = FiniteOrNone(EnergyRow(Max(RowHours)).state)
      BY <2>2, EndReadingIs
    <3>2. Hours[Max(RowHours)].state = FiniteOrNone(EnergyRow(Max(RowHours)).state)
      BY <3>1, DoneIs, HourIs
    <3> QED
      BY <1>1, <2>2, <3>1, <3>2 DEF EndEnergy
  <2> QED
    BY <2>1, <2>2
<1>8. ToSet(missing_price_hours) \cup ToSet(invalid_energy_hours) = Flagged(Hours)
  BY <1>1, FindingsAre
<1> HIDE DEF series
<1>9. /\ Len(points) = Cardinality(DOMAIN series)
      /\ \A i \in DOMAIN points : points[i].start \in DOMAIN series
                                  /\ points[i].sum = series[points[i].start]
      /\ \A i, j \in DOMAIN points : i < j => points[i].start < points[j].start
  BY <1>5, PointsAre DEF J
<1> QED
  BY <1>6, <1>7, <1>8, <1>9 DEF LoopIsSeries, series

(* Whatever order the rows come in, the loop's points are the series that   *)
(* the hours come to, its total and its end reading those of the promise,   *)
(* and it flags every other row.                                            *)
THEOREM LoopIsSeriesCorrect == ASSUME Measurable PROVE Spec => []LoopIsSeries
<1>1. LoopInv => LoopIsSeries
  BY SeriesIs
<1> QED
  BY <1>1, InvCorrect, PTL

-----------------------------------------------------------------------------
(* Energy.                                                                 *)

SpanUse == [h \in Period |-> Used(Span(h))]

RowsUpTo(h) == {i \in RowHours : i <= h}

LEMMA EnergyNear ==
    ASSUME InputInv, NEW h \in Period, Verdict(h) = "ok"
    PROVE  EnergyOf[h] - SpanUse[h] \in -ZeroTolerance .. ZeroTolerance
<1> DEFINE used == Used(Span(h))
           noise == metering[h].noise
           row == EnergyRow(h)
<1>1. used \in Nat
  BY SpanIs, UsedIs
<1>2. noise \in Int /\ noise \in -ZeroTolerance .. ZeroTolerance /\ ZeroTolerance \in Nat
  BY MeteringIs, BackfillAssumption
<1>3. row.change = IF metering[h].fault = "no change" THEN Infinite
                   ELSE IF metering[h].fault = "negative" THEN -1 - ZeroTolerance
                   ELSE used + noise
  BY EnergyRowIs
<1>4. ValidChange(row)
  BY DEF Verdict
<1>5. EnergyOf[h] = Change(row) /\ SpanUse[h] = used
  BY DEF EnergyOf, SpanUse
<1> HIDE DEF used, noise, row
<1>6. row.change = used + noise
  <2>1. metering[h].fault # "no change"
    BY <1>3, <1>4 DEF ValidChange
  <2>2. metering[h].fault # "negative"
    <3>1. SUFFICES ASSUME metering[h].fault = "negative" PROVE FALSE
      OBVIOUS
    <3>2. row.change = -1 - ZeroTolerance /\ row.change >= -ZeroTolerance
      BY <1>3, <1>4, <3>1 DEF ValidChange
    <3> QED
      BY <1>2, <3>2
  <2> QED
    BY <1>3, <2>1, <2>2
<1>7. CASE row.change < 0
  <2>1. Change(row) = 0
    BY <1>7 DEF Change
  <2> QED
    BY <1>1, <1>2, <1>5, <1>6, <1>7, <2>1
<1>8. CASE ~(row.change < 0)
  <2>1. Change(row) = used + noise
    BY <1>6, <1>8 DEF Change
  <2> QED
    BY <1>1, <1>2, <1>5, <2>1
<1> QED
  BY <1>7, <1>8

LEMMA EarlierHour ==
    ASSUME NEW h \in Period, NEW j \in Int, 0 <= j, j < h
    PROVE  j \in Period
BY BackfillAssumption DEF Period

(* The hours up to a row are those up to the row before it, and the ones    *)
(* whose energy the row holds.                                              *)
LEMMA SpanParts ==
    ASSUME NEW h \in RowHours, NEW p \in RowHours, p < h, \A i \in RowHours : i < h => i <= p
    PROVE  0 .. h = (0 .. p) \cup Span(h) /\ (0 .. p) \cap Span(h) = {}
<1>1. h \in Nat /\ p \in Nat /\ h \in Period /\ p \in Period /\ HasRow(p)
  BY RowHoursAre DEF RowHours
<1>2. ASSUME NEW i \in 0 .. p PROVE i \notin Span(h)
  <2>1. p \in i .. h - 1
    BY <1>1
  <2> QED
    BY <1>1, <2>1 DEF Span
<1>3. ASSUME NEW i \in 0 .. h, i > p PROVE i \in Span(h)
  <2>1. ASSUME NEW j \in i .. h - 1 PROVE ~HasRow(j)
    <3>1. j \in Int /\ 0 <= j /\ j < h /\ p < j
      BY <1>1, <1>3
    <3>2. j \in Period
      BY <1>1, <3>1, EarlierHour
    <3>3. j \notin RowHours
      BY <1>1, <3>1
    <3> QED
      BY <3>2, <3>3 DEF RowHours
  <2> QED
    BY <2>1 DEF Span
<1>4. \A i \in Span(h) : i \in 0 .. h
  BY DEF Span
<1> QED
  BY <1>1, <1>2, <1>3, <1>4

LEMMA FirstSpan ==
    ASSUME NEW h \in RowHours, \A i \in RowHours : ~(i < h)
    PROVE  Span(h) = 0 .. h
<1>1. h \in Nat /\ h \in Period
  BY RowHoursAre
<1>2. ASSUME NEW i \in 0 .. h, NEW j \in i .. h - 1 PROVE ~HasRow(j)
  <2>1. j \in Int /\ 0 <= j /\ j < h
    BY <1>1
  <2>2. j \in Period /\ j \notin RowHours
    BY <1>1, <2>1, EarlierHour
  <2> QED
    BY <2>2 DEF RowHours
<1> QED
  BY <1>2 DEF Span

LEMMA UsedParts ==
    ASSUME InputInv, NEW S \in SUBSET Period, NEW T \in SUBSET Period, S \cap T = {}
    PROVE  Used(S \cup T) = Used(S) + Used(T)
<1> DEFINE f == [h \in Period |-> metering[h].used]
<1>1. IsFiniteSet(S) /\ IsFiniteSet(T)
  BY PeriodIs, FS_Subset
<1>2. \A h \in S \cup T : f[h] \in Int
  <2>1. \A h \in Period : metering[h].used \in Nat
    BY MeteringIs
  <2> QED
    BY <2>1
<1>3. \A hours : Used(hours) = SumFunctionOnSet(f, hours)
  BY DEF Used
<1> HIDE DEF f
<1>4. SumFunctionOnSet(f, S \cup T) = SumFunctionOnSet(f, S) + SumFunctionOnSet(f, T)
  BY <1>1, <1>2, SumOfUnion
<1> QED
  BY <1>3, <1>4

(* The rows up to one hold what was used up to it. *)
LEMMA SpansAdd ==
    ASSUME InputInv, NEW h \in RowHours
    PROVE  SumFunctionOnSet(SpanUse, RowsUpTo(h)) = Used(0 .. h)
<1> DEFINE Right(k) == SumFunctionOnSet(SpanUse, RowsUpTo(k)) = Used(0 .. k)
           G == {n \in Nat : \A k \in RowHours : k < n => Right(k)}
<1>1. 0 \in G
  <2>1. \A k \in RowHours : ~(k < 0)
    BY RowHoursAre
  <2> HIDE DEF Right
  <2> QED
    BY <2>1
<1>2. ASSUME NEW n \in Nat, n \in G, n \in RowHours PROVE Right(n)
  <2>1. \A k \in RowHours : k < n => Right(k)
    BY <1>2
  <2>2. \A k \in RowHours : k \in Period /\ k \in Int /\ SpanUse[k] \in Int
    <3>1. ASSUME NEW k \in RowHours PROVE k \in Period /\ k \in Int /\ SpanUse[k] \in Int
      <4>1. k \in Period /\ k \in Int
        BY RowHoursAre
      <4>2. Used(Span(k)) \in Nat
        BY <4>1, SpanIs, UsedIs
      <4> QED
        BY <4>1, <4>2 DEF SpanUse
    <3> QED
      BY <3>1
  <2>3. SpanUse[n] = Used(Span(n)) /\ Span(n) \in SUBSET Period /\ 0 .. n \in SUBSET Period
    BY <1>2, <2>2, SpanIs DEF SpanUse
  <2> DEFINE before == {k \in RowHours : k < n}
  <2>4. IsFiniteSet(before) /\ \A k \in before : k \in Int /\ k <= n
    <3>1. before \in SUBSET RowHours
      OBVIOUS
    <3> QED
      BY <2>2, <3>1, RowHoursAre, FS_Subset
  <2>5. RowsUpTo(n) = before \cup {n} /\ n \notin before
    <3> HIDE DEF G, Right
    <3>1. \A k \in RowHours : k <= n <=> k < n \/ k = n
      BY <2>2
    <3>2. ~(n < n) /\ n \in RowHours
      BY <1>2
    <3>3. ASSUME NEW k PROVE k \in RowsUpTo(n) <=> k \in before \cup {n}
      BY <3>1, <3>2 DEF RowsUpTo
    <3> HIDE DEF before
    <3>4. RowsUpTo(n) = before \cup {n}
      BY <3>3
    <3> QED
      BY <3>2, <3>4 DEF before
  <2>6. SumFunctionOnSet(SpanUse, RowsUpTo(n)) = SumFunctionOnSet(SpanUse, before) + SpanUse[n]
    <3>1. \A k \in before \cup {n} : SpanUse[k] \in Int
      BY <1>2, <2>2
    <3> HIDE DEF before
    <3> QED
      BY <2>4, <2>5, <3>1, SumAdds
  <2>7. CASE before = {}
    <3>1. Span(n) = 0 .. n
      BY <1>2, <2>7, FirstSpan
    <3>2. SumFunctionOnSet(SpanUse, before) = 0
      BY <2>7, SumOfNone
    <3>3. SpanUse[n] \in Int
      BY <1>2, <2>2
    <3> HIDE DEF before
    <3> QED
      BY <2>3, <2>6, <3>1, <3>2, <3>3
  <2>8. CASE before # {}
    <3> DEFINE p == Max(before)
    <3>1. p \in before /\ \A k \in before : k <= p
      <4> HIDE DEF before
      <4> QED
        BY <2>4, <2>8, MaxIs
    <3> HIDE DEF p
    <3>2. p \in RowHours /\ p < n /\ \A k \in RowHours : k < n => k <= p
      BY <3>1
    <3>3. 0 .. n = (0 .. p) \cup Span(n) /\ (0 .. p) \cap Span(n) = {}
      BY <1>2, <3>2, SpanParts
    <3>4. 0 .. p \in SUBSET Period
      BY <2>2, <3>2, SpanIs
    <3>5. Used(0 .. n) = Used(0 .. p) + Used(Span(n))
      BY <2>3, <3>3, <3>4, UsedParts
    <3>6. before = RowsUpTo(p)
      BY <2>2, <3>2 DEF RowsUpTo
    <3>7. Right(p)
      BY <2>1, <3>2
    <3> HIDE DEF before
    <3> QED
      BY <2>3, <2>6, <3>5, <3>6, <3>7
  <2> QED
    BY <2>7, <2>8
<1>3. ASSUME NEW n \in Nat, n \in G PROVE n + 1 \in G
  <2>1. ASSUME NEW k \in RowHours, k < n + 1 PROVE Right(k)
    <3>1. k \in Nat
      BY RowHoursAre
    <3>2. k < n \/ k = n
      BY <2>1, <3>1
    <3> HIDE DEF Right
    <3>3. CASE k < n
      BY <1>3, <3>3
    <3>4. CASE k = n
      <4> HIDE DEF G
      <4> QED
        BY <1>2, <1>3, <3>4
    <3> QED
      BY <3>2, <3>3, <3>4
  <2> HIDE DEF Right
  <2> QED
    BY <2>1
<1> HIDE DEF G
<1>4. \A n \in Nat : n \in G
  BY <1>1, <1>3, ByNumbers
<1>5. h + 1 \in G /\ h < h + 1
  BY <1>4, RowHoursAre
<1> HIDE DEF Right
<1>6. Right(h)
  BY <1>5 DEF G
<1> QED
  BY <1>6 DEF Right

LEMMA KwhAre ==
    ASSUME LoopInv
    PROVE  EveryKwhAccounted
<1> SUFFICES ASSUME at = "done", end_energy # None PROVE EveryKwhAccounted
  BY DEF EveryKwhAccounted
<1> DEFINE J == Judged("ok")
           F == Judged("unpriced") \cup Judged("invalid")
           n == Len(points)
           z == ZeroTolerance
           m == Max(RowHours)
<1>1. InputInv /\ total_energy = SumFunctionOnSet(EnergyOf, J)
  BY DoneIs DEF Progress
<1>2. IsFiniteSet(J) /\ IsFiniteSet(F) /\ J \cup F = RowHours /\ J \cap F = {}
  <2>1. F = RowHours \ J /\ IsFiniteSet(J) /\ J \in SUBSET RowHours
    BY JudgedAre
  <2>2. F \in SUBSET RowHours
    BY <2>1
  <2>3. IsFiniteSet(F)
    BY <2>2, RowHoursAre, FS_Subset
  <2> HIDE DEF F, J
  <2> QED
    BY <2>1, <2>3
<1>3. /\ m \in RowHours /\ \A h \in RowHours : h <= m
      /\ end_energy = Used(0 .. m)
  <2>1. /\ m \in RowHours /\ \A h \in RowHours : h <= m
        /\ end_energy = FiniteOrNone(EnergyRow(m).state)
    BY EndReadingIs
  <2>2. m \in Period
    BY <2>1, RowHoursAre
  <2> HIDE DEF m
  <2>3. EnergyRow(m).state = IF metering[m].fault = "no state" THEN Infinite ELSE Used(0 .. m)
    BY <1>1, <2>2, EnergyRowIs
  <2> QED
    BY <2>1, <2>3 DEF FiniteOrNone
<1>4. ASSUME NEW h \in RowHours
      PROVE  SpanUse[h] \in Int
  <2>1. h \in Period
    BY RowHoursAre
  <2>2. Used(Span(h)) \in Nat
    BY <1>1, <2>1, SpanIs, UsedIs
  <2> QED
    BY <2>1, <2>2 DEF SpanUse
<1>5. \A h \in J : EnergyOf[h] \in Int /\ SpanUse[h] \in Int /\ EnergyOf[h] - SpanUse[h] \in -z .. z
  <2>1. \A h \in J : h \in Period /\ Verdict(h) = "ok"
    BY JudgedAre
  <2>2. \A h \in J : EnergyOf[h] \in Nat /\ EnergyOf[h] - SpanUse[h] \in -z .. z
    BY <1>1, <2>1, ChargeIs, EnergyNear
  <2> QED
    BY <1>2, <1>4, <2>2
<1>6. n = Cardinality(J) /\ n \in Nat /\ z \in Nat
  BY PointsAre, BackfillAssumption
<1>7. Used(Period) \in Int /\ Used(0 .. m) \in Int
  <2>1. m \in Period
    BY <1>3, RowHoursAre
  <2> HIDE DEF m
  <2>2. 0 .. m \in SUBSET Period
    BY <2>1, SpanIs
  <2>3. Used(0 .. m) \in Nat
    BY <1>1, <2>2, UsedIs
  <2>4. Period \in SUBSET Period
    OBVIOUS
  <2>5. Used(Period) \in Nat
    BY <1>1, <2>4, UsedIs
  <2> QED
    BY <2>3, <2>5
<1>8. ToSet(missing_price_hours) \cup ToSet(invalid_energy_hours) = F
  BY FindingsAre
<1> HIDE DEF J, F, m, n, z
<1>9. SumFunctionOnSet(SpanUse, RowHours) = Used(0 .. m)
  <2>1. RowsUpTo(m) = RowHours
    BY <1>3 DEF RowsUpTo
  <2> QED
    BY <1>1, <1>3, <2>1, SpansAdd
<1> DEFINE energy == SumFunctionOnSet(EnergyOf, J)
           counted == SumFunctionOnSet(SpanUse, J)
           aside == SumFunctionOnSet(SpanUse, F)
<1>10. counted + aside = Used(0 .. m)
  BY <1>2, <1>4, <1>9, SumOfUnion
<1>11. energy \in Int /\ counted \in Int /\ aside \in Int
  BY <1>2, <1>4, <1>5, SumType
<1>12. energy - counted \in -z * n .. z * n
  BY <1>2, <1>5, <1>6, SumNear
<1> DEFINE off == total_energy + aside + (Used(Period) - end_energy) - Used(Period)
<1>13. off = energy - counted
  <2>1. total_energy = energy
    BY <1>1
  <2> HIDE DEF energy, counted, aside
  <2> QED
    BY <1>3, <1>7, <1>10, <1>11, <2>1
<1>14. off \in -z * n .. z * n
  <2> HIDE DEF off, energy, counted
  <2> QED
    BY <1>12, <1>13
<1> HIDE DEF energy, counted
<1> QED
  BY <1>8, <1>14 DEF EveryKwhAccounted, SpanUse, z, n

(* Whatever the recorder lost of a period, the energy that the loop counts, *)
(* the energy of the hours that it flags and the energy above the end       *)
(* reading are what was metered, but for the noise of the points.           *)
THEOREM EveryKwhCorrect == Spec => []EveryKwhAccounted
<1>1. LoopInv => EveryKwhAccounted
  BY KwhAre
<1> QED
  BY <1>1, InvCorrect, PTL

-----------------------------------------------------------------------------
(* Ranges.                                                                 *)

RangeType == [start: Int, end: Int]

(* Some hours, as ranges apart from each other.                            *)
RangesOf(ranges, hours) ==
    /\ ranges \in Seq(RangeType)
    /\ \A i \in 1 .. Len(ranges) : ranges[i].start < ranges[i].end
    /\ \A i, j \in 1 .. Len(ranges) : i < j => ranges[i].end < ranges[j].start
    /\ Covered(ranges) = hours

LEMMA RangesAre ==
    ASSUME NEW r \in Seq(RangeType)
    PROVE  /\ Len(r) \in Nat /\ DOMAIN r = 1 .. Len(r)
           /\ \A i \in 1 .. Len(r) : r[i].start \in Int /\ r[i].end \in Int
           /\ \A x : x \in Covered(r) <=>
                 x \in Int /\ \E i \in 1 .. Len(r) : r[i].start <= x /\ x < r[i].end
<1>1. Len(r) \in Nat /\ DOMAIN r = 1 .. Len(r)
  BY LenProperties
<1>2. \A i \in 1 .. Len(r) : r[i].start \in Int /\ r[i].end \in Int
  <2>1. \A i \in 1 .. Len(r) : r[i] \in RangeType
    BY ElementOfSeq
  <2> QED
    BY <2>1 DEF RangeType
<1>3. \A x : x \in Covered(r) <=> \E i \in 1 .. Len(r) : x \in r[i].start .. r[i].end - 1
  BY <1>1 DEF Covered
<1>4. ASSUME NEW x, NEW i \in 1 .. Len(r)
      PROVE  x \in r[i].start .. r[i].end - 1 <=> x \in Int /\ r[i].start <= x /\ x < r[i].end
  BY <1>2
<1> QED
  BY <1>1, <1>2, <1>3, <1>4

LEMMA NoRanges == RangesOf(<<>>, {})
<1>1. <<>> \in Seq(RangeType) /\ Len(<<>>) = 0
  BY EmptySeq
<1>2. 1 .. 0 = {}
  OBVIOUS
<1>3. \A x : x \notin Covered(<<>>)
  BY <1>1, <1>2, RangesAre
<1> QED
  BY <1>1, <1>2, <1>3 DEF RangesOf

(* A later hour extends the last range, or begins one.                     *)
LEMMA RangesExtend ==
    ASSUME NEW r, NEW T, RangesOf(r, T), NEW x \in Int, \A y \in T : y < x
    PROVE  RangesOf(ExtendRanges(r, x), T \cup {x})
<1> DEFINE n == Len(r)
           e == ExtendRanges(r, x)
<1>1. /\ r \in Seq(RangeType) /\ n \in Nat
      /\ \A i \in 1 .. n : r[i] \in RangeType /\ r[i].start \in Int /\ r[i].end \in Int
      /\ \A y : y \in T <=> y \in Int /\ \E i \in 1 .. n : r[i].start <= y /\ y < r[i].end
      /\ \A i \in 1 .. n : r[i].start < r[i].end
      /\ \A i, j \in 1 .. n : i < j => r[i].end < r[j].start
  BY RangesAre, ElementOfSeq DEF RangesOf
<1> HIDE DEF n
<1>2. ASSUME NEW i \in 1 .. n PROVE r[i].end <= x
  <2>1. r[i].end - 1 \in Int /\ r[i].start <= r[i].end - 1 /\ r[i].end - 1 < r[i].end
    BY <1>1
  <2>2. r[i].end - 1 \in T
    BY <1>1, <2>1
  <2> QED
    BY <1>1, <2>2
<1>3. SUFFICES ASSUME e \in Seq(RangeType),
                      \A i \in 1 .. Len(e) : e[i].start < e[i].end,
                      \A i, j \in 1 .. Len(e) : i < j => e[i].end < e[j].start,
                      \A y \in Int : (\E i \in 1 .. Len(e) : e[i].start <= y /\ y < e[i].end)
                                     <=> y \in T \/ y = x,
                      e = ExtendRanges(r, x)
               PROVE  RangesOf(e, T \cup {x})
  <2>1. CASE r # <<>> /\ Last(r).end = x
    <3> DEFINE new == [start |-> r[n].start, end |-> x + 1]
    <3>1. n \in 1 .. n /\ Last(r) = r[n] /\ r[n].end = x
      BY <1>1, <2>1, EmptySeq DEF Last, n
    <3>2. new \in RangeType /\ e = [r EXCEPT ![n] = new]
      <4>1. new \in RangeType
        BY <1>1, <3>1 DEF RangeType
      <4>2. r[n] = [start |-> r[n].start, end |-> r[n].end]
        BY <1>1, <3>1 DEF RangeType
      <4>3. [r[n] EXCEPT !.end = x + 1] = new
        BY <4>2
      <4>4. e = [r EXCEPT ![n] = [r[n] EXCEPT !.end = x + 1]]
        BY <2>1 DEF ExtendRanges, n
      <4> QED
        BY <4>1, <4>3, <4>4
    <3> HIDE DEF e
    <3>3. /\ e \in Seq(RangeType) /\ Len(e) = n
          /\ \A i \in 1 .. n : e[i] = IF i = n THEN new ELSE r[i]
      <4> HIDE DEF new
      <4> QED
        BY <1>1, <3>1, <3>2, ExceptSeq DEF n
    <3>4. /\ \A i \in 1 .. n : i # n => e[i] = r[i]
          /\ e[n].start = r[n].start /\ e[n].end = x + 1
      BY <3>1, <3>3
    <3> HIDE DEF new
    <3>5. ASSUME NEW i \in 1 .. n PROVE e[i].start < e[i].end /\ e[i].start = r[i].start
      <4>1. CASE i = n
        <5>1. r[n].start \in Int /\ r[n].start < x
          BY <1>1, <3>1
        <5> QED
          BY <3>4, <4>1, <5>1
      <4>2. CASE i # n
        BY <1>1, <3>4, <4>2
      <4> QED
        BY <4>1, <4>2
    <3>6. ASSUME NEW i \in 1 .. n, NEW j \in 1 .. n, i < j
          PROVE  e[i].end < e[j].start
      <4>1. i # n /\ e[i] = r[i]
        BY <1>1, <3>4, <3>6
      <4>2. r[i].end < r[j].start
        BY <1>1, <3>6
      <4> QED
        BY <3>5, <4>1, <4>2
    <3>7. ASSUME NEW y \in Int
          PROVE  (\E i \in 1 .. n : e[i].start <= y /\ y < e[i].end) <=> y \in T \/ y = x
      <4>1. r[n].start <= y /\ y < x + 1 <=> (r[n].start <= y /\ y < r[n].end) \/ y = x
        BY <1>1, <3>1
      <4> QED
        BY <1>1, <3>1, <3>4, <4>1
    <3> QED
      BY <1>3, <3>3, <3>5, <3>6, <3>7 DEF e
  <2>2. CASE ~(r # <<>> /\ Last(r).end = x)
    <3> DEFINE new == [start |-> x, end |-> x + 1]
    <3>1. new \in RangeType /\ new.start = x /\ new.end = x + 1
      BY DEF RangeType
    <3>2. e = Append(r, new)
      BY <2>2 DEF ExtendRanges
    <3> HIDE DEF e, new
    <3>3. /\ e \in Seq(RangeType) /\ Len(e) = n + 1 /\ e[n + 1] = new
          /\ \A i \in 1 .. n : e[i] = r[i]
      BY <1>1, <3>1, <3>2, AppendProperties DEF n
    <3>4. ASSUME NEW i \in 1 .. n PROVE r[i].end < x
      <4>1. n \in 1 .. n /\ r # <<>>
        BY <1>1, <3>4 DEF n
      <4>2. r[n].end # x
        BY <2>2, <4>1 DEF Last, n
      <4>3. r[n].end < x
        BY <1>1, <1>2, <4>1, <4>2
      <4>4. CASE i < n
        <5>1. r[i].end < r[n].start /\ r[n].start < r[n].end
          BY <1>1, <4>1, <4>4
        <5> QED
          BY <1>1, <4>1, <4>3, <5>1
      <4> QED
        BY <1>1, <4>3, <4>4
    <3>5. \A i \in 1 .. n + 1 : e[i].start < e[i].end
      BY <1>1, <3>1, <3>3
    <3>6. ASSUME NEW i \in 1 .. n + 1, NEW j \in 1 .. n + 1, i < j
          PROVE  e[i].end < e[j].start
      <4>1. i \in 1 .. n /\ e[i] = r[i] /\ (j \in 1 .. n \/ j = n + 1)
        BY <1>1, <3>3, <3>6
      <4>2. CASE j \in 1 .. n
        BY <1>1, <3>3, <3>6, <4>1, <4>2
      <4>3. CASE j = n + 1
        BY <3>1, <3>3, <3>4, <4>1, <4>3
      <4> QED
        BY <4>1, <4>2, <4>3
    <3>7. ASSUME NEW y \in Int
          PROVE  (\E i \in 1 .. n + 1 : e[i].start <= y /\ y < e[i].end) <=> y \in T \/ y = x
      <4>1. x <= y /\ y < x + 1 <=> y = x
        OBVIOUS
      <4>2. \A i : i \in 1 .. n + 1 <=> i \in 1 .. n \/ i = n + 1
        BY <1>1
      <4> QED
        BY <1>1, <3>1, <3>3, <4>1, <4>2
    <3> QED
      BY <1>3, <3>3, <3>5, <3>6, <3>7 DEF e
  <2> QED
    BY <2>1, <2>2
<1> HIDE DEF e
<1>4. \A y : y \in Covered(e) <=> y \in T \cup {x}
  <2>1. \A y \in T : y \in Int
    BY <1>1
  <2> QED
    BY <1>3, <2>1, RangesAre
<1>5. Covered(e) = T \cup {x}
  BY <1>4
<1> QED
  BY <1>3, <1>5 DEF RangesOf

(* What the fold over the hours computes for every subset of their places. *)
Extends(hours, g) ==
    g = [s \in SUBSET DOMAIN hours |->
            IF s = {} THEN <<>> ELSE ExtendRanges(g[s \ {Max(s)}], hours[Max(s)])]

LEMMA RangesAreFold ==
    ASSUME NEW hours
    PROVE  HoursToContiguousRanges(hours) = (CHOOSE g : Extends(hours, g))[DOMAIN hours]
BY DEF HoursToContiguousRanges, FoldLeft, MapThenFoldSet, Extends

(* There is such a fold: by size, one step at a time.                      *)
LEMMA ExtendsExists ==
    ASSUME NEW hours, NEW len \in Nat, DOMAIN hours = 1 .. len
    PROVE  \E g : Extends(hours, g)
<1> DEFINE S == DOMAIN hours
           Step(g, s) == IF s = {} THEN <<>> ELSE ExtendRanges(g[s \ {Max(s)}], hours[Max(s)])
           Upto(n) == {s \in SUBSET S : Cardinality(s) <= n}
           Good(n, g) == g = [s \in Upto(n) |-> Step(g, s)]
           G == {n \in Nat : \E g : Good(n, g)}
<1>1. ASSUME NEW s \in SUBSET S
      PROVE  IsFiniteSet(s) /\ Cardinality(s) \in Nat
  <2>1. IsFiniteSet(1 .. len)
    BY FS_Interval
  <2> QED
    BY <2>1, FS_Subset, FS_CardinalityType
<1>2. ASSUME NEW s \in SUBSET S, s # {}
      PROVE  Max(s) \in s /\ s \ {Max(s)} \in SUBSET S
             /\ Cardinality(s \ {Max(s)}) = Cardinality(s) - 1
  <2>1. \A x \in s : x \in Int /\ x <= len
    OBVIOUS
  <2>2. Max(s) \in s
    BY <1>2, <2>1, MaxIs
  <2> QED
    BY <1>1, <2>2, FS_RemoveElement
<1> HIDE DEF S
<1>3. 0 \in G
  <2> DEFINE g == [s \in Upto(0) |-> <<>>]
  <2>1. ASSUME NEW s \in Upto(0) PROVE s = {}
    <3>1. IsFiniteSet(s) /\ Cardinality(s) = 0
      BY <1>1
    <3> QED
      BY <3>1, FS_EmptySet
  <2>2. \A s \in Upto(0) : Step(g, s) = <<>>
    BY <2>1
  <2> HIDE DEF Step
  <2>3. Good(0, g)
    BY <2>2
  <2> HIDE DEF Good, g
  <2> QED
    BY <2>3
<1>4. ASSUME NEW n \in Nat, n \in G PROVE n + 1 \in G
  <2>1. PICK g : Good(n, g)
    BY <1>4
  <2> DEFINE k == [s \in Upto(n + 1) |-> Step(g, s)]
  <2>2. ASSUME NEW s \in Upto(n + 1) PROVE Step(g, s) = Step(k, s)
    <3>1. CASE s = {}
      BY <3>1
    <3>2. CASE s # {}
      <4> DEFINE t == s \ {Max(s)}
      <4>1. t \in SUBSET S /\ Cardinality(t) = Cardinality(s) - 1
        BY <1>2, <3>2
      <4>2. Cardinality(s) \in Nat /\ Cardinality(s) <= n + 1
        BY <1>1
      <4> HIDE DEF t
      <4>3. Cardinality(t) <= n /\ Cardinality(t) <= n + 1
        BY <4>1, <4>2
      <4>4. t \in Upto(n) /\ t \in Upto(n + 1)
        BY <4>1, <4>3
      <4> HIDE DEF Upto, Step
      <4>5. g[t] = Step(g, t) /\ k[t] = Step(g, t)
        BY <2>1, <4>4
      <4> HIDE DEF k
      <4> QED
        BY <3>2, <4>5 DEF Step, t
    <3> QED
      BY <3>1, <3>2
  <2> HIDE DEF Step, Upto
  <2>3. Good(n + 1, k)
    <3>1. k = [s \in Upto(n + 1) |-> Step(g, s)]
      OBVIOUS
    <3> HIDE DEF k
    <3> QED
      BY <2>2, <3>1
  <2> HIDE DEF Good, k
  <2> QED
    BY <2>3
<1> HIDE DEF G
<1>5. \A n \in Nat : n \in G
  BY <1>3, <1>4, ByNumbers
<1>6. Cardinality(S) \in G /\ Upto(Cardinality(S)) = SUBSET S
  <2>1. IsFiniteSet(S) /\ Cardinality(S) \in Nat
    BY <1>1
  <2> QED
    BY <1>5, <2>1, FS_Subset
<1>7. PICK g : Good(Cardinality(S), g)
  BY <1>6 DEF G
<1> HIDE DEF Upto
<1> QED
  BY <1>6, <1>7 DEF Extends, S

(* The ranges of some hours in order are those of their set.               *)
LEMMA RangesOfHours ==
    ASSUME NEW S, \A x \in S : x \in Int, NEW hours, Climbs(hours, S)
    PROVE  RangesOf(HoursToContiguousRanges(hours), S)
<1> DEFINE n == Len(hours)
           g == CHOOSE k : Extends(hours, k)
           Before(k) == {hours[i] : i \in 1 .. k}
           G == {k \in Nat : k <= n => RangesOf(g[1 .. k], Before(k))}
<1>1. /\ DOMAIN hours = 1 .. n /\ n \in Nat /\ ToSet(hours) = S
      /\ \A i \in 1 .. n : hours[i] \in S
  BY ClimbsTo
<1>2. \A i, j \in 1 .. n : i < j => hours[i] < hours[j]
  BY DEF Climbs
<1> HIDE DEF n
<1>3. Extends(hours, g)
  BY <1>1, ExtendsExists
<1>4. HoursToContiguousRanges(hours) = g[1 .. n]
  BY <1>1, RangesAreFold
<1> HIDE DEF g
<1>5. 0 \in G
  <2>1. 1 .. 0 = {} /\ {} \in SUBSET DOMAIN hours
    OBVIOUS
  <2>2. g[{}] = <<>>
    BY <1>3, <2>1 DEF Extends
  <2>3. Before(0) = {}
    BY <2>1
  <2> HIDE DEF Before
  <2> QED
    BY <2>1, <2>2, <2>3, NoRanges
<1>6. ASSUME NEW k \in Nat, k \in G PROVE k + 1 \in G
  <2> SUFFICES ASSUME k + 1 <= n PROVE RangesOf(g[1 .. k + 1], Before(k + 1))
    OBVIOUS
  <2>1. k <= n /\ k + 1 \in 1 .. n
    BY <1>1
  <2>2. RangesOf(g[1 .. k], Before(k))
    BY <1>6, <2>1
  <2>3. Max(1 .. k + 1) = k + 1
    <3> DEFINE places == 1 .. k + 1
    <3>1. k + 1 \in Int /\ k + 1 \in places /\ \A x \in places : x \in Int /\ x <= k + 1
      OBVIOUS
    <3> HIDE DEF places
    <3>2. Max(places) \in places /\ \A x \in places : x <= Max(places)
      <4>1. places # {}
        BY <3>1
      <4> QED
        BY <3>1, <4>1, MaxIs
    <3>3. Max(places) = k + 1
      BY <3>1, <3>2
    <3> QED
      BY <3>3 DEF places
  <2>4. /\ (1 .. k + 1) \ {k + 1} = 1 .. k /\ 1 .. k + 1 # {}
        /\ 1 .. k + 1 \in SUBSET DOMAIN hours
    <3> HIDE DEF Before, G
    <3>1. \A i : i \in 1 .. k + 1 <=> i \in 1 .. k \/ i = k + 1
      OBVIOUS
    <3>2. k + 1 \notin 1 .. k
      OBVIOUS
    <3>3. \A i \in 1 .. k : i \in 1 .. n
      BY <1>1, <2>1
    <3> QED
      BY <1>1, <2>1, <3>1, <3>2, <3>3
  <2>5. g[1 .. k + 1] = ExtendRanges(g[1 .. k], hours[k + 1])
    BY <1>3, <2>3, <2>4 DEF Extends
  <2>6. \A y \in Before(k) : y < hours[k + 1]
    <3>1. \A i \in 1 .. k : i \in 1 .. n /\ i < k + 1
      BY <1>1, <2>1
    <3> QED
      BY <1>2, <2>1, <3>1
  <2>7. Before(k + 1) = Before(k) \cup {hours[k + 1]}
    <3>1. 1 .. k + 1 = (1 .. k) \cup {k + 1}
      BY <2>1
    <3> QED
      BY <3>1
  <2>8. hours[k + 1] \in Int
    BY <1>1, <2>1
  <2> HIDE DEF Before
  <2> QED
    BY <2>2, <2>5, <2>6, <2>7, <2>8, RangesExtend
<1> HIDE DEF G
<1>7. \A k \in Nat : k \in G
  BY <1>5, <1>6, ByNumbers
<1>8. n \in G /\ n <= n
  BY <1>1, <1>7
<1>9. Before(n) = S
  BY <1>1 DEF ToSet
<1> HIDE DEF Before
<1> QED
  BY <1>4, <1>8, <1>9 DEF G

(* Less is shown than was counted if and only if ranges were left out.     *)
LEMMA CappedRanges ==
    ASSUME NEW S, IsFiniteSet(S), NEW ranges, RangesOf(ranges, S),
           NEW shown, shown = SubSeq(ranges, 1, IF Len(ranges) > RangeCap THEN RangeCap
                                                ELSE Len(ranges))
    PROVE  Cardinality(Covered(shown)) < Cardinality(S) <=> Len(ranges) > RangeCap
<1> DEFINE n == Len(ranges)
<1>1. /\ ranges \in Seq(RangeType) /\ n \in Nat /\ RangeCap \in Nat /\ Cardinality(S) \in Nat
      /\ \A i \in 1 .. n : ranges[i] \in RangeType
      /\ \A i \in 1 .. n : ranges[i].start \in Int /\ ranges[i].end \in Int
      /\ \A i \in 1 .. n : ranges[i].start < ranges[i].end
      /\ \A i, j \in 1 .. n : i < j => ranges[i].end < ranges[j].start
      /\ \A x : x \in S <=> x \in Int /\ \E i \in 1 .. n : ranges[i].start <= x /\ x < ranges[i].end
  BY RangesAre, ElementOfSeq, FS_CardinalityType, BackfillAssumption DEF RangesOf
<1>2. CASE ~(n > RangeCap)
  <2>1. shown = ranges
    BY <1>1, <1>2, SubSeqFull
  <2>2. Covered(shown) = S
    BY <2>1 DEF RangesOf
  <2> QED
    BY <1>1, <1>2, <2>2
<1>3. CASE n > RangeCap
  <2> HIDE DEF n
  <2>1. /\ shown \in Seq(RangeType) /\ Len(shown) = RangeCap
        /\ \A i \in 1 .. RangeCap : shown[i] = ranges[i] /\ i \in 1 .. n
    <3>1. shown = SubSeq(ranges, 1, RangeCap)
      BY <1>3 DEF n
    <3>2. \A i \in 1 .. RangeCap : ranges[i] \in RangeType /\ i \in 1 .. n
      BY <1>1, <1>3
    <3> QED
      BY <1>1, <3>1, <3>2, SubSeqProperties
  <2>2. \A x : x \in Covered(shown) <=>
           x \in Int /\ \E i \in 1 .. RangeCap : ranges[i].start <= x /\ x < ranges[i].end
    BY <2>1, RangesAre
  <2>3. Covered(shown) \in SUBSET S
    BY <1>1, <2>1, <2>2
  <2> DEFINE next_start == ranges[RangeCap + 1].start
  <2>4. RangeCap + 1 \in 1 .. n /\ next_start \in Int /\ next_start \in S
    <3>1. RangeCap + 1 \in 1 .. n
      BY <1>1, <1>3
    <3>2. next_start \in Int /\ next_start <= next_start /\ next_start < ranges[RangeCap + 1].end
      BY <1>1, <3>1
    <3> QED
      BY <1>1, <3>1, <3>2
  <2>5. next_start \notin Covered(shown)
    <3>1. \A i \in 1 .. RangeCap : ranges[i].end < next_start /\ ranges[i].end \in Int
      BY <1>1, <2>1, <2>4
    <3> QED
      BY <2>2, <2>4, <3>1
  <2> HIDE DEF next_start
  <2>6. Covered(shown) # S
    BY <2>4, <2>5
  <2>7. IsFiniteSet(Covered(shown)) /\ Cardinality(Covered(shown)) <= Cardinality(S)
        /\ Cardinality(S) # Cardinality(Covered(shown))
    BY <2>3, <2>6, FS_Subset
  <2>8. Cardinality(Covered(shown)) \in Nat
    BY <2>7, FS_CardinalityType
  <2> QED
    BY <1>1, <1>3, <2>7, <2>8 DEF n
<1> QED
  BY <1>2, <1>3

LEMMA GapHoursAre ==
    ASSUME LoopInv, at = "done"
    PROVE  ApplianceSummary.energy_gap_hours = Cardinality({h \in Period : ~HasRow(h)})
<1> DEFINE without == {h \in Period : ~HasRow(h)}
<1>1. without = Period \ RowHours /\ Period \cap RowHours = RowHours
  BY RowHoursAre DEF RowHours
<1>2. Cardinality(without) = ExpectedHours - Cardinality(RowHours)
  <2>1. IsFiniteSet(Period) /\ Cardinality(Period) = ExpectedHours
    BY PeriodIs
  <2> HIDE DEF without
  <2> QED
    BY <1>1, <2>1, FS_Difference
<1>3. /\ Progress /\ next = Len(sorted_rows) + 1 /\ Len(sorted_rows) = Cardinality(RowHours)
      /\ Len(sorted_rows) \in Nat
  BY DoneIs
<1>4. /\ Len(points) \in Nat /\ Len(missing_price_hours) \in Nat /\ Len(invalid_energy_hours) \in Nat
      /\ Len(points) + Len(missing_price_hours) + Len(invalid_energy_hours) = next - 1
  BY <1>3, LengthsAre
<1>5. ExpectedHours - Len(points) - Len(missing_price_hours) - Len(invalid_energy_hours)
         = ExpectedHours - Cardinality(RowHours)
  BY <1>3, <1>4, BackfillAssumption
<1> HIDE DEF without
<1>6. ApplianceSummary.energy_gap_hours
         = ExpectedHours - Len(points) - Len(missing_price_hours) - Len(invalid_energy_hours)
  BY DEF ApplianceSummary
<1> QED
  BY <1>2, <1>5, <1>6 DEF without

LEMMA EmptyClimbs ==
    ASSUME NEW S, NEW hours, Climbs(hours, S)
    PROVE  hours = <<>> <=> S = {}
<1>1. hours \in Seq(S) /\ \A x \in S : \E i \in 1 .. Len(hours) : hours[i] = x
  BY DEF Climbs
<1>2. ASSUME hours = <<>> PROVE S = {}
  <2>1. Len(hours) = 0
    BY <1>2
  <2> QED
    BY <1>1, <2>1
<1>3. ASSUME S = {} PROVE hours = <<>>
  <2>1. SUFFICES ASSUME hours # <<>> PROVE FALSE
    OBVIOUS
  <2>2. Len(hours) \in Nat \ {0}
    BY <1>1, <2>1, EmptySeq
  <2>3. hours[1] \in S
    <3>1. 1 \in 1 .. Len(hours)
      BY <2>2
    <3> QED
      BY <1>1, <3>1, ElementOfSeq
  <2> QED
    BY <1>3, <2>3
<1> QED
  BY <1>2, <1>3

LEMMA PreviewIs ==
    ASSUME LoopInv, at = "done", Measurable
    PROVE  PreviewOk(TRUE) <=> Flagged(Hours) = {}
<1>1. /\ missing_price_hours = <<>> <=> Judged("unpriced") = {}
      /\ invalid_energy_hours = <<>> <=> Judged("invalid") = {}
  BY FindingsAre, EmptyClimbs
<1>2. Flagged(Hours) = Judged("unpriced") \cup Judged("invalid")
  BY HoursAre
<1>3. PreviewOk(TRUE) <=> missing_price_hours = <<>> /\ invalid_energy_hours = <<>>
  BY DEF PreviewOk, ApplianceSummary
<1> QED
  BY <1>1, <1>2, <1>3

LEMMA FindingRangesAre ==
    ASSUME LoopInv, at = "done",
           NEW hours \in {missing_price_hours, invalid_energy_hours}
    PROVE  LET ranges == HoursToContiguousRanges(hours)
               shown == RangesPayload(hours)
           IN  /\ Covered(ranges) = ToSet(hours)
               /\ \A i \in 1 .. Len(ranges) - 1 : ranges[i].end < ranges[i + 1].start
               /\ Cardinality(Covered(shown)) < Len(hours) <=> Len(ranges) > RangeCap
<1> DEFINE ranges == HoursToContiguousRanges(hours)
           shown == RangesPayload(hours)
<1>1. PICK S : Climbs(hours, S) /\ \A x \in S : x \in Int
  BY FindingsAre, JudgedAre
<1>2. IsFiniteSet(S) /\ Cardinality(S) = Len(hours) /\ ToSet(hours) = S
  BY <1>1, ClimbsLength, ClimbsTo
<1>3. RangesOf(ranges, S)
  BY <1>1, RangesOfHours
<1>4. shown = SubSeq(ranges, 1, IF Len(ranges) > RangeCap THEN RangeCap ELSE Len(ranges))
  BY DEF RangesPayload
<1> HIDE DEF ranges, shown
<1>5. Cardinality(Covered(shown)) < Cardinality(S) <=> Len(ranges) > RangeCap
  BY <1>2, <1>3, <1>4, CappedRanges
<1>6. ASSUME NEW i \in 1 .. Len(ranges) - 1 PROVE ranges[i].end < ranges[i + 1].start
  <2>1. Len(ranges) \in Nat
    BY <1>3, LenProperties DEF RangesOf
  <2>2. i \in 1 .. Len(ranges) /\ i + 1 \in 1 .. Len(ranges) /\ i < i + 1
    BY <2>1
  <2> QED
    BY <1>3, <2>2 DEF RangesOf
<1>7. Covered(ranges) = ToSet(hours)
  BY <1>2, <1>3 DEF RangesOf
<1> QED
  BY <1>2, <1>5, <1>6, <1>7 DEF ranges, shown

(* A response's findings add up, for every period and cap: no hour is lost  *)
(* between the counts, the ranges and the gap, none is shown that was not   *)
(* flagged, and a strict preview foretells the strict import.               *)
THEOREM FindingsCorrect == ASSUME Measurable PROVE Spec => []FindingsAddUp
<1>1. LoopInv => FindingsAddUp
  BY GapHoursAre, PreviewIs, FindingRangesAre DEF FindingsAddUp
<1> QED
  BY <1>1, InvCorrect, PTL
=============================================================================
