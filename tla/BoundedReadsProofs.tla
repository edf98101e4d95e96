--------------------------- MODULE BoundedReadsProofs ---------------------------
(***************************************************************************)
(* The bounded reads find what a scan of the whole series would, for any    *)
(* calendar, any series and any hour.  Hours count from zero, and the       *)
(* calendar has a month that begins no later.                               *)
(***************************************************************************)
EXTENDS BoundedReads, NumberSetProofs

-----------------------------------------------------------------------------
(* Months.                                                                  *)

FirstMonth == \E m \in MonthStarts : m <= 0

(* The month of an hour is the last one to begin by then.                   *)
LEMMA MonthStartIs ==
    ASSUME FirstMonth, NEW h \in Nat
    PROVE  /\ MonthStart(h) \in MonthStarts /\ MonthStart(h) \in Int /\ MonthStart(h) <= h
           /\ \A m \in MonthStarts : m <= h => m <= MonthStart(h)
<1> DEFINE begun == {m \in MonthStarts : m <= h}
<1>1. begun # {} /\ \A m \in begun : m \in Int /\ m <= h
  <2>1. PICK m \in MonthStarts : m <= 0
    BY DEF FirstMonth
  <2>2. \A n \in MonthStarts : n \in Int
    BY MonthAssumption DEF MonthAssumption
  <2>3. m <= h
    BY <2>1, <2>2
  <2> QED
    BY <2>1, <2>2, <2>3
<1>2. Max(begun) \in begun /\ \A m \in begun : m <= Max(begun)
  BY <1>1, MaxIs
<1> QED
  BY <1>1, <1>2 DEF MonthStart

(* A later hour is in no earlier month, and an hour of an earlier month is  *)
(* before the month.                                                        *)
LEMMA MonthsInOrder ==
    ASSUME FirstMonth, NEW g \in Nat, NEW h \in Nat
    PROVE  /\ g <= h => MonthStart(g) <= MonthStart(h)
           /\ MonthStart(g) < MonthStart(h) <=> g < MonthStart(h)
<1>1. /\ MonthStart(g) \in MonthStarts /\ MonthStart(g) \in Int /\ MonthStart(g) <= g
      /\ \A m \in MonthStarts : m <= g => m <= MonthStart(g)
  BY MonthStartIs
<1>2. /\ MonthStart(h) \in MonthStarts /\ MonthStart(h) \in Int /\ MonthStart(h) <= h
      /\ \A m \in MonthStarts : m <= h => m <= MonthStart(h)
  BY MonthStartIs
<1> QED
  BY <1>1, <1>2

-----------------------------------------------------------------------------
(* The two reads.                                                           *)

(* _last_pre_start_sums: the hours of the start's month, and else the last  *)
(* monthly bucket before it, find the last row before the start, and none   *)
(* if there is none.                                                        *)
THEOREM LastPreStartIsExact ==
    ASSUME FirstMonth, NEW rows, \A h \in rows : h \in Nat, NEW start \in Nat
    PROVE  LET before == {h \in rows : h < start}
           IN  LastPreStart(rows, start) = IF before = {} THEN {} ELSE {Max(before)}
<1> DEFINE before == {h \in rows : h < start}
           month == MonthStart(start)
           partial == IF month < start THEN HourlyRead(rows, month, start) ELSE {}
           full == {b \in MonthlyRead(rows, start) : b.start < month}
           bucket(h) == [start |-> MonthStart(h),
                         last |-> Max({g \in rows : MonthStart(g) = MonthStart(h)})]
<1>1. LastPreStart(rows, start) = IF partial # {} THEN {Max(partial)}
                                  ELSE IF full # {} THEN {Latest(full).last} ELSE {}
  BY DEF LastPreStart
<1>2. month \in Int /\ month <= start
  BY MonthStartIs
<1> USE DEF HourlyRead
<1>h. \A h \in rows : h \in Nat
  OBVIOUS
<1>3. partial = {h \in rows : month <= h /\ h < start}
  <2>1. CASE month < start
    BY <2>1
  <2>2. CASE month = start
    <3>1. partial = {}
      BY <1>2, <2>2
    <3>2. \A h \in rows : ~(month <= h /\ h < start)
      BY <1>h, <2>2
    <3> HIDE DEF partial, month
    <3> QED
      BY <3>1, <3>2
  <2>3. month < start \/ month = start
    BY <1>2
  <2> QED
    BY <2>1, <2>2, <2>3
<1>4. full = {bucket(h) : h \in {h \in rows : h < month}}
  <2>1. \A h \in rows : MonthStart(h) < month <=> h < month
    BY <1>h, MonthsInOrder
  <2>2. \A h \in rows : MonthStart(h) < month => MonthStart(h) < start
    BY <1>h, <1>2, MonthStartIs
  <2>3. \A h : bucket(h).start = MonthStart(h)
    OBVIOUS
  <2>4. MonthlyRead(rows, start) = {bucket(h) : h \in {h \in rows : MonthStart(h) < start}}
    BY DEF MonthlyRead
  <2> HIDE DEF bucket, month
  <2> QED
    BY <2>1, <2>2, <2>3, <2>4
<1>b. /\ \A h \in before : h \in rows
      /\ \A h \in rows : h \in before <=> h < start
  OBVIOUS
<1>n. before # {} => Max(before) \in before /\ \A h \in before : h <= Max(before)
  <2>1. start \in Int /\ \A h \in before : h \in Int /\ h <= start
    BY <1>h
  <2> HIDE DEF before
  <2> QED
    BY <2>1, MaxIs
<1>p. /\ \A h \in partial : h \in rows
      /\ \A h \in rows : h \in partial <=> month <= h /\ h < start
  <2> HIDE DEF partial, month
  <2> QED
    BY <1>3
<1> HIDE DEF partial, full, bucket, month, before
<1>5. CASE partial # {}
  <2>1. before # {}
    BY <1>b, <1>p, <1>5
  <2>2. Max(before) \in before /\ \A h \in before : h <= Max(before)
    BY <1>n, <2>1
  <2>3. Max(before) \in partial
    <3>1. PICK h \in rows : month <= h /\ h < start
      BY <1>p, <1>5
    <3>2. h <= Max(before) /\ Max(before) \in rows /\ Max(before) < start
      BY <1>b, <2>2, <3>1
    <3> QED
      BY <1>h, <1>2, <1>p, <3>1, <3>2
  <2>4. start \in Int /\ \A h \in partial : h \in Int /\ h <= start
    BY <1>h, <1>p
  <2>5. Max(partial) \in partial /\ \A h \in partial : h <= Max(partial)
    BY <1>5, <2>4, MaxIs
  <2>6. Max(partial) = Max(before)
    <3>1. Max(partial) \in before /\ Max(partial) \in Int /\ Max(before) \in Int
      BY <1>b, <1>h, <1>p, <2>3, <2>5
    <3>2. Max(partial) <= Max(before) /\ Max(before) <= Max(partial)
      BY <2>2, <2>3, <2>5, <3>1
    <3> QED
      BY <3>1, <3>2
  <2> QED
    BY <1>1, <1>5, <2>1, <2>6 DEF before
<1>6. CASE partial = {} /\ before = {}
  <2>1. full = {}
    BY <1>b, <1>h, <1>2, <1>4, <1>6
  <2> QED
    BY <1>1, <1>6, <2>1 DEF before
<1>7. CASE partial = {} /\ before # {}
  <2> DEFINE last == Max(before)
  <2>2. last \in before /\ \A h \in before : h <= last
    BY <1>7, <1>n
  <2> HIDE DEF last
  <2>3. last \in rows /\ last < month /\ \A h \in rows : h < month => h <= last
    <3>1. last \in rows /\ last < start /\ last \in Int
      BY <1>b, <1>h, <2>2
    <3>2. ~(month <= last)
      BY <1>7, <1>p, <3>1
    <3>3. \A h \in rows : h < month => h < start
      BY <1>h, <1>2
    <3> QED
      BY <1>b, <1>2, <2>2, <3>1, <3>2, <3>3
  <2>4. Max({g \in rows : MonthStart(g) = MonthStart(last)}) = last
    <3> DEFINE same == {g \in rows : MonthStart(g) = MonthStart(last)}
    <3>1. \A g \in same : g <= last
      <4>1. ASSUME NEW g \in same PROVE g <= last
        <5>1. g \in Nat /\ last \in Nat /\ MonthStart(g) = MonthStart(last) /\ g \in rows
          BY <1>h, <2>3
        <5>2. last < month => MonthStart(last) < month
          BY <1>2, <5>1, MonthStartIs
        <5>3. MonthStart(g) < month <=> g < month
          BY <5>1, MonthsInOrder DEF month
        <5> QED
          BY <2>3, <5>1, <5>2, <5>3
      <4> QED
        BY <4>1
    <3>2. last \in same /\ \A g \in same : g \in Int
      BY <1>h, <2>3
    <3>3. Max(same) \in same /\ \A g \in same : g <= Max(same)
      BY <1>h, <2>3, <3>1, <3>2, MaxIs
    <3> HIDE DEF same
    <3>4. Max(same) = last
      BY <3>1, <3>2, <3>3
    <3> QED
      BY <3>4 DEF same
  <2>5. bucket(last) \in full /\ \A b \in full : b.start <= MonthStart(last)
    <3>1. \A h \in rows : h < month => MonthStart(h) <= MonthStart(last)
      BY <1>h, <2>3, MonthsInOrder
    <3>2. \A h : bucket(h).start = MonthStart(h)
      BY DEF bucket
    <3> QED
      BY <1>4, <2>3, <3>1, <3>2
  <2>6. Latest(full) \in full /\ \A b \in full : b.start <= Latest(full).start
    <3>1. bucket(last).start = MonthStart(last)
      BY DEF bucket
    <3> QED
      BY <2>5, <3>1 DEF Latest
  <2>7. PICK h \in rows : h < month /\ Latest(full) = bucket(h)
    BY <1>4, <2>6
  <2>8. MonthStart(h) = MonthStart(last)
    <3>1. MonthStart(h) \in Int /\ MonthStart(last) \in Int
      BY <1>h, <2>3, MonthStartIs
    <3>2. bucket(h).start = MonthStart(h) /\ bucket(last).start = MonthStart(last)
      BY DEF bucket
    <3>3. MonthStart(h) <= MonthStart(last) /\ MonthStart(last) <= MonthStart(h)
      BY <2>5, <2>6, <2>7, <3>2
    <3> QED
      BY <3>1, <3>3
  <2>9. Latest(full).last = last
    BY <2>4, <2>7, <2>8 DEF bucket
  <2> QED
    BY <1>1, <1>7, <2>5, <2>9 DEF last, before
<1> QED
  BY <1>5, <1>6, <1>7

(* _first_price_statistics_hour: the hours of the first bucket's month have *)
(* the first row of the series.                                             *)
THEOREM FirstHourIsExact ==
    ASSUME FirstMonth, NEW rows, \A h \in rows : h \in Nat,
           \A h \in rows : \E m \in MonthStarts : m > h
    PROVE  FirstPriceStatisticsHour(rows) = IF rows = {} THEN {} ELSE {Min(rows)}
<1> DEFINE month == Min({MonthStart(h) : h \in rows})
           hourly == HourlyRead(rows, month, NextMonth(month))
<1>h. \A h \in rows : h \in Nat /\ h \in Int /\ 0 <= h
  OBVIOUS
<1>1. FirstPriceStatisticsHour(rows) = IF rows = {} \/ hourly = {} THEN {} ELSE {Min(hourly)}
  BY DEF FirstPriceStatisticsHour
<1>2. CASE rows = {}
  BY <1>1, <1>2
<1>3. CASE rows # {}
  <2> DEFINE first == Min(rows)
  <2>1. first \in rows /\ \A h \in rows : first <= h
    <3> DEFINE zero == 0
    <3>1. zero \in Int /\ \A h \in rows : h \in Int /\ zero <= h
      BY <1>h
    <3> HIDE DEF zero
    <3> QED
      BY <1>3, <3>1, MinIs
  <2> HIDE DEF first
  <2>2. month = MonthStart(first)
    <3> DEFINE starts == {MonthStart(h) : h \in rows}
    <3>1. MonthStart(first) \in starts /\ \A m \in starts : MonthStart(first) <= m
      BY <1>h, <2>1, MonthsInOrder
    <3>2. MonthStart(first) \in Int /\ \A m \in starts : m \in Int
      BY <1>h, <2>1, MonthStartIs
    <3>3. Min(starts) \in starts /\ \A m \in starts : Min(starts) <= m
      BY <3>1, <3>2, MinIs
    <3> HIDE DEF starts
    <3>4. Min(starts) = MonthStart(first)
      BY <3>1, <3>2, <3>3
    <3> QED
      BY <3>4 DEF starts
  <2>3. MonthStart(first) \in Int /\ MonthStart(first) <= first
    BY <1>h, <2>1, MonthStartIs
  <2> HIDE DEF month
  <2>4. first < NextMonth(month)
    <3> DEFINE later == {m \in MonthStarts : m > month}
    <3>1. later # {} /\ \A m \in later : m \in Int /\ month <= m
      <4>1. \A m \in MonthStarts : m \in Int
        BY MonthAssumption DEF MonthAssumption
      <4>2. PICK m \in MonthStarts : m > first
        BY <2>1
      <4> QED
        BY <1>h, <2>1, <2>2, <2>3, <4>1, <4>2
    <3>2. Min(later) \in later
      BY <2>2, <2>3, <3>1, MinIs
    <3>3. ~(Min(later) <= first)
      BY <1>h, <2>1, <2>2, <2>3, <3>1, <3>2, MonthStartIs
    <3> QED
      BY <1>h, <2>1, <3>1, <3>2, <3>3 DEF NextMonth
  <2>5. first \in hourly /\ hourly \subseteq rows
    BY <1>h, <2>1, <2>2, <2>3, <2>4 DEF HourlyRead
  <2> HIDE DEF hourly
  <2>6. Min(hourly) \in hourly /\ \A h \in hourly : Min(hourly) <= h
    BY <1>h, <2>1, <2>5, MinIs
  <2>7. Min(hourly) = first
    <3>1. Min(hourly) \in rows /\ Min(hourly) \in Int /\ first \in Int
      BY <1>h, <2>1, <2>5, <2>6
    <3>2. Min(hourly) <= first /\ first <= Min(hourly)
      BY <2>1, <2>5, <2>6, <3>1
    <3> QED
      BY <3>1, <3>2
  <2> QED
    BY <1>1, <1>3, <2>5, <2>7 DEF first
<1> QED
  BY <1>2, <1>3

=============================================================================
