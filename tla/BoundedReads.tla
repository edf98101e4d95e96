----------------------------- MODULE BoundedReads -----------------------------
(***************************************************************************)
(* How services.py finds the first row of a series, and the last row before *)
(* an hour, without scanning the series hour by hour: monthly buckets       *)
(* first, then the hours of one month.  A series is the set of hours it has *)
(* rows for.  Months are those of the local calendar and of any length      *)
(* (daylight saving); the recorder aligns a monthly read to them.           *)
(***************************************************************************)
EXTENDS Integers, FiniteSetsExt

CONSTANT MonthStarts   \* the hours in which a local month begins

ASSUME MonthAssumption == MonthStarts \subseteq Int

MonthStart(hour) == Max({m \in MonthStarts : m <= hour})
NextMonth(month) == Min({m \in MonthStarts : m > month})

(* The recorder's hourly read, of a half-open period.                       *)
HourlyRead(rows, from, to) == {h \in rows : from <= h /\ h < to}

(* Its monthly read, from the epoch: aligned outward, so that the last      *)
(* bucket may hold rows at or after the period's end.                       *)
MonthlyRead(rows, to) ==
    {[start |-> MonthStart(h), last |-> Max({g \in rows : MonthStart(g) = MonthStart(h)})] :
        h \in {h \in rows : MonthStart(h) < to}}

Latest(buckets) == CHOOSE b \in buckets : \A other \in buckets : other.start <= b.start

(* Mistake: the bucket of the month that contains start is trusted.         *)
LastPreStartUnfiltered(rows, start) ==
    LET buckets == MonthlyRead(rows, start)
    IN  IF buckets # {} THEN {Latest(buckets).last} ELSE {}

(* The hour of the last row before start; empty if there is none.           *)
LastPreStart(rows, start) ==
    LET month == MonthStart(start)
        partial == IF month < start THEN HourlyRead(rows, month, start) ELSE {}
        full == {b \in MonthlyRead(rows, start) : b.start < month}
    IN  IF partial # {} THEN {Max(partial)}
        ELSE IF full # {} THEN {Latest(full).last}
        ELSE {}

(* The hour of the first row; empty if there is none.                       *)
FirstPriceStatisticsHour(rows) ==
    LET month == Min({MonthStart(h) : h \in rows})
        hourly == HourlyRead(rows, month, NextMonth(month))
    IN  IF rows = {} \/ hourly = {} THEN {} ELSE {Min(hourly)}
=============================================================================
