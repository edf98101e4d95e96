----------------------------- MODULE LedgerProofs -----------------------------
(***************************************************************************)
(* The cost sensor implements the abstract bill, for every value of the    *)
(* constants: each step of the sensor is a step of CostLedger or none.     *)
(*                                                                         *)
(* The argument is one sentence: settling a reading charges exactly what   *)
(* is owed and leaves nothing owed, and tracking one in a price gap leaves *)
(* what is owed as it is.  The rest says when the books are current.       *)
(***************************************************************************)
EXTENDS CostLedgerSensor, CostSensorProofs

(* What a book owes, as Owed has it of the book as it stands.              *)
OwedBy(s, h) ==
    IF ~ HasBaseline(s) THEN 0
    ELSE IF h.epoch = meter.epoch THEN meter.level - s.last_energy
    ELSE meter.level

(* A book that has taken the last restart of its meter.  The baseline may  *)
(* be zero without a settlement in this epoch.                             *)
Current(s, h) ==
    /\ s.last_energy <= meter.level /\ s.last_reading <= meter.level
    /\ h.epoch = meter.epoch \/ s.last_energy = 0

(* A book whose meter has restarted, with the reading that shows it.       *)
Restarted(s, h) ==
    /\ h.epoch # meter.epoch
    /\ Classify(s.last_reading, Reading) = "RESET"
    /\ Reading = meter.level

(* A book that the present reading settles rightly.                        *)
Books(s, h) ==
    /\ h.epoch <= meter.epoch
    /\ HasBaseline(s) => Current(s, h) \/ Restarted(s, h)
    /\ ~ HasBaseline(s) => s.last_energy = None /\ Reading = meter.level
    /\ Reading # meter.level => OwedBy(s, h) = 0

(* A loaded sensor has a baseline; a stored one comes back with its own.   *)
Kept ==
    IF loaded THEN HasBaseline(accrual) /\ bound = source
    ELSE /\ in_flight = {}
         /\ last_states # None =>
               /\ last_states.extra # None
               /\ last_states.extra.last_energy # None
               /\ SameMeter(last_states.extra)

SteadyInv ==
    /\ TypeOK
    /\ Reading \in Nat /\ NearLevel
    /\ Kept
    /\ Books(Book, Accounted)
    /\ (HasBaseline(Book) /\ "energy" \notin in_flight) => Current(Book, Accounted)
    /\ (loaded /\ accrual.price # None /\ "energy" \notin in_flight) => Owed = 0

-----------------------------------------------------------------------------
(* Settling and tracking, by what is owed.                                 *)

LEMMA OwedType ==
    ASSUME TypeOK, NEW s \in AccrualState, NEW h \in [epoch: Nat, kwh: Nat], Books(s, h)
    PROVE  /\ OwedBy(s, h) \in Nat
           /\ HasBaseline(s) /\ Current(s, h) => OwedBy(s, h) = meter.level - s.last_energy
  <1>1. meter.level \in Nat
    BY SensorAssumption DEF TypeOK
  <1>2. HasBaseline(s) => s.last_energy \in Nat
    BY DEF HasBaseline, AccrualState
  <1>3. ASSUME HasBaseline(s), Current(s, h)
        PROVE  /\ OwedBy(s, h) = meter.level - s.last_energy
               /\ OwedBy(s, h) \in Nat
    BY <1>1, <1>2, <1>3 DEF OwedBy, Current
  <1>4. CASE ~ HasBaseline(s)
    BY <1>4 DEF OwedBy
  <1>5. CASE HasBaseline(s) /\ ~ Current(s, h)
    BY <1>1, <1>5 DEF OwedBy, Books, Restarted
  <1> QED
    BY <1>3, <1>4, <1>5

(* Settling the reading there is charges what is owed, all of it.          *)
LEMMA SettlesOwed ==
    ASSUME TypeOK, Reading \in Nat, NearLevel,
           NEW s \in AccrualState, NEW h \in [epoch: Nat, kwh: Nat], Books(s, h),
           NEW n \in AccrualState, Settles(s, n, Reading)
    PROVE  LET k == ChargedEnergy(s, Reading)
               new == SettledBy(s, n, k, h)
           IN  /\ k = OwedBy(s, h)
               /\ OwedBy(n, new) = 0
               /\ Current(n, new)
               /\ new.epoch <= meter.epoch
  <1> DEFINE r == Reading
             k == ChargedEnergy(s, r)
             new == SettledBy(s, n, k, h)
  <1>1. /\ meter.level \in Nat /\ meter.epoch \in Nat /\ r \in Nat /\ k \in Nat
        /\ r <= meter.level /\ 10 * r >= 9 * meter.level
    BY SensorAssumption, ChargedType DEF TypeOK, NearLevel
  <1>2. /\ HasBaseline(s) => s.last_energy \in Nat /\ s.last_reading \in Nat
        /\ n.last_reading = r /\ h.epoch \in Nat /\ h.epoch <= meter.epoch
    BY DEF HasBaseline, AccrualState, Settles, Books
  <1>3. n.last_energy = IF Rebaselines(s, r) THEN r ELSE s.last_energy
    BY DEF Settles
  <1>4. new = IF k = 0 /\ n.last_energy = s.last_energy THEN h
              ELSE [epoch |-> meter.epoch, kwh |-> new.kwh]
    BY DEF SettledBy
  <1>5. new.epoch <= meter.epoch /\ new.epoch \in Nat
    BY <1>1, <1>2, <1>4
  <1> HIDE DEF r
  <1>6. HasBaseline(n) /\ OwedBy(n, new) = IF new.epoch = meter.epoch
                                           THEN meter.level - n.last_energy ELSE meter.level
    <2>1. n.last_energy # None /\ n.last_reading # None
      BY <1>1, <1>2, <1>3, NoneAssumption DEF Rebaselines, HasBaseline
    <2> QED
      BY <2>1 DEF OwedBy, HasBaseline
  <1> HIDE DEF new
  <1>7. CASE ~ HasBaseline(s)
    <2>1. s.last_energy = None /\ r = meter.level /\ k = 0 /\ n.last_energy = r
      BY <1>3, <1>7 DEF Books, ChargedEnergy, Rebaselines, r
    <2>2. new.epoch = meter.epoch
      BY <1>1, <1>4, <2>1, NoneAssumption
    <2> QED
      BY <1>1, <1>2, <1>5, <1>6, <1>7, <2>1, <2>2 DEF OwedBy, Current, new, r
  <1>8. CASE HasBaseline(s) /\ Current(s, h)
    <2> DEFINE le == s.last_energy
               lr == s.last_reading
    <2>1. /\ le \in Nat /\ lr \in Nat /\ le <= meter.level /\ lr <= meter.level
          /\ h.epoch = meter.epoch \/ le = 0
      BY <1>2, <1>8 DEF Current
    <2>2. OwedBy(s, h) = meter.level - le /\ (r # meter.level => le = meter.level)
      <3>1. OwedBy(s, h) = meter.level - le
        BY <1>8, OwedType
      <3>2. r # meter.level => OwedBy(s, h) = 0
        BY DEF Books, r
      <3> QED
        BY <1>1, <2>1, <3>1, <3>2
    <2>3. Classify(lr, r) # "RESET" /\ (Classify(lr, r) = "DIP" <=> r < lr)
      BY <1>1, <2>1 DEF Classify
    <2>4. k = IF r < lr THEN 0 ELSE IF r > le THEN r - le ELSE 0
      BY <1>8, <2>3 DEF ChargedEnergy
    <2>5. n.last_energy = IF k > 0 THEN r ELSE le
      BY <1>3, <1>8, <2>3 DEF Rebaselines
    <2> HIDE DEF le, lr, k
    <2>6. CASE k > 0
      <3>1. r > le /\ k = r - le /\ n.last_energy = r /\ r = meter.level
        BY <1>1, <2>1, <2>2, <2>4, <2>5, <2>6
      <3>2. new.epoch = meter.epoch
        BY <1>4, <2>6
      <3> QED
        BY <1>1, <1>2, <1>5, <1>6, <2>2, <3>1, <3>2 DEF Current, new, k, r
    <2>7. CASE k = 0
      <3>1. n.last_energy = le /\ le = meter.level
        BY <1>1, <2>1, <2>2, <2>4, <2>5, <2>7
      <3>2. new.epoch = h.epoch \/ new.epoch = meter.epoch
        BY <1>4
      <3>3. new.epoch = meter.epoch \/ meter.level = 0
        BY <2>1, <3>1, <3>2
      <3>4. OwedBy(n, new) = 0 /\ OwedBy(s, h) = 0
        BY <1>1, <1>6, <2>2, <3>1, <3>3
      <3>5. Current(n, new)
        BY <1>1, <1>2, <3>1, <3>3 DEF Current
      <3> QED
        BY <1>5, <2>7, <3>4, <3>5 DEF new, k, r
    <2> QED
      BY <1>1, <2>6, <2>7
  <1>9. CASE HasBaseline(s) /\ Restarted(s, h)
    <2>1. /\ Classify(s.last_reading, r) = "RESET" /\ r = meter.level
          /\ h.epoch # meter.epoch
      BY <1>9 DEF Restarted, r
    <2>2. k = r /\ n.last_energy = r /\ OwedBy(s, h) = r
      BY <1>3, <1>9, <2>1 DEF ChargedEnergy, Rebaselines, OwedBy
    <2>3. new.epoch = meter.epoch \/ r = 0
      BY <1>4, <2>2
    <2>4. OwedBy(n, new) = 0
      BY <1>1, <1>6, <2>1, <2>2, <2>3
    <2>5. Current(n, new)
      BY <1>1, <1>2, <2>1, <2>2, <2>3 DEF Current
    <2> QED
      BY <1>5, <2>2, <2>4, <2>5 DEF new, r
  <1> QED
    BY <1>7, <1>8, <1>9 DEF Books

(* Tracking it in a price gap owes what was owed.                          *)
LEMMA TracksOwed ==
    ASSUME TypeOK, Reading \in Nat, NearLevel,
           NEW s \in AccrualState, NEW h \in [epoch: Nat, kwh: Nat], Books(s, h),
           NEW n \in AccrualState, Tracks(s, n, Reading)
    PROVE  LET new == SettledBy(s, n, 0, h)
           IN  /\ OwedBy(n, new) = OwedBy(s, h)
               /\ Current(n, new)
               /\ new.epoch <= meter.epoch
  <1> DEFINE r == Reading
             new == SettledBy(s, n, 0, h)
  <1>1. /\ meter.level \in Nat /\ meter.epoch \in Nat /\ r \in Nat
        /\ r <= meter.level /\ 10 * r >= 9 * meter.level
    BY SensorAssumption DEF TypeOK, NearLevel
  <1>2. /\ HasBaseline(s) /\ s.last_energy \in Nat /\ s.last_reading \in Nat
        /\ n.last_reading = r /\ h.epoch \in Nat /\ h.epoch <= meter.epoch
        /\ n.last_energy = IF Classify(s.last_reading, r) = "RESET" THEN 0 ELSE s.last_energy
    BY DEF HasBaseline, AccrualState, Tracks, Books
  <1>3. new = IF n.last_energy = s.last_energy THEN h
              ELSE [epoch |-> meter.epoch, kwh |-> new.kwh]
    BY DEF SettledBy
  <1>4. new.epoch <= meter.epoch
    BY <1>1, <1>2, <1>3
  <1> HIDE DEF r
  <1>5. OwedBy(n, new) = IF new.epoch = meter.epoch
                         THEN meter.level - n.last_energy ELSE meter.level
    <2>1. n.last_energy # None /\ n.last_reading # None
      BY <1>1, <1>2, NoneAssumption
    <2> QED
      BY <2>1 DEF OwedBy, HasBaseline
  <1> HIDE DEF new
  <1>6. CASE Current(s, h)
    <2>1. /\ s.last_energy <= meter.level /\ s.last_reading <= meter.level
          /\ h.epoch = meter.epoch \/ s.last_energy = 0
          /\ OwedBy(s, h) = meter.level - s.last_energy
      BY <1>2, <1>6, OwedType DEF Current
    <2>2. Classify(s.last_reading, r) # "RESET"
      BY <1>1, <1>2, <2>1 DEF Classify
    <2>3. n.last_energy = s.last_energy /\ new = h
      BY <1>2, <1>3, <2>2
    <2>4. OwedBy(n, new) = OwedBy(s, h)
      BY <1>1, <1>5, <2>1, <2>3
    <2>5. Current(n, new)
      BY <1>1, <1>2, <2>1, <2>3 DEF Current
    <2> QED
      BY <1>4, <2>4, <2>5 DEF new
  <1>7. CASE Restarted(s, h)
    <2>1. n.last_energy = 0 /\ OwedBy(s, h) = meter.level
      BY <1>2, <1>7 DEF Restarted, OwedBy, r
    <2>2. OwedBy(n, new) = OwedBy(s, h)
      BY <1>1, <1>5, <2>1
    <2>3. Current(n, new)
      BY <1>1, <1>2, <2>1 DEF Current
    <2> QED
      BY <1>4, <2>2, <2>3 DEF new
  <1> QED
    BY <1>2, <1>6, <1>7 DEF Books

(* The two operators, by field.                                            *)
LEMMA SettleFields ==
    ASSUME NEW s \in AccrualState, NEW r \in Nat, NEW p \in Int
    PROVE  /\ Settle(s, r, p) \in AccrualState /\ HasBaseline(Settle(s, r, p))
           /\ Settles(s, Settle(s, r, p), r)
           /\ Settle(s, r, p).cost = s.cost + ChargedEnergy(s, r) * p
           /\ Settle(s, r, p).price = s.price
  <1> DEFINE e == IF Rebaselines(s, r) THEN r ELSE s.last_energy
             c == s.cost + ChargedEnergy(s, r) * p
  <1>1. Settle(s, r, p) = [s EXCEPT !.cost = c, !.last_energy = e, !.last_reading = r]
    BY DEF Settle
  <1>2. Settle(s, r, p).cost = c
    <2> HIDE DEF e, c
    <2> QED
      BY <1>1, RecordForm
  <1> QED
    BY <1>2, SettleType, SettleSettles

LEMMA TrackFields ==
    ASSUME NEW s \in AccrualState, HasBaseline(s), NEW r \in Nat
    PROVE  /\ TrackGapEnergy(s, r) \in AccrualState /\ HasBaseline(TrackGapEnergy(s, r))
           /\ Tracks(s, TrackGapEnergy(s, r), r)
           /\ TrackGapEnergy(s, r).cost = s.cost
           /\ TrackGapEnergy(s, r).price = s.price
  <1> DEFINE e == IF Classify(s.last_reading, r) = "RESET" THEN 0 ELSE s.last_energy
             n == TrackGapEnergy(s, r)
  <1>1. n = [s EXCEPT !.last_energy = e, !.last_reading = r]
    BY DEF TrackGapEnergy
  <1>2. n.cost = s.cost /\ n.last_energy = e /\ n.last_reading = r
    <2> HIDE DEF e, n
    <2> QED
      BY <1>1, RecordForm
  <1> QED
    BY <1>2, TrackGapEnergyType DEF Tracks

(* A book after a transition, and what it came to.                         *)
Settled(s, h, n, new, q) ==
    /\ n \in AccrualState /\ HasBaseline(n)
    /\ new.epoch <= meter.epoch /\ Current(n, new)
    /\ IF q = None
       THEN n.cost = s.cost /\ OwedBy(n, new) = OwedBy(s, h)
       ELSE n.cost = s.cost + OwedBy(s, h) * q /\ OwedBy(n, new) = 0

(* The price written afterwards plays no part in it.                       *)
LEMMA SettledPrice ==
    ASSUME NEW s, NEW h, NEW k, NEW q, NEW n \in AccrualState, NEW p \in PriceType,
           Settled(s, h, n, SettledBy(s, n, k, h), q)
    PROVE  LET m == [n EXCEPT !.price = p]
           IN  Settled(s, h, m, SettledBy(s, m, k, h), q) /\ m.price = p
  <1> DEFINE m == [n EXCEPT !.price = p]
  <1>1. /\ m.last_energy = n.last_energy /\ m.last_reading = n.last_reading
        /\ m.cost = n.cost /\ m.price = p /\ m \in AccrualState
    BY DEF AccrualState, PriceType
  <1>2. SettledBy(s, m, k, h) = SettledBy(s, n, k, h)
    BY <1>1 DEF SettledBy
  <1> HIDE DEF m
  <1> QED
    BY <1>1, <1>2 DEF Settled, HasBaseline, Current, OwedBy, m

(* A reading settled at a price comes to what was owed, at that price.     *)
LEMMA SettleComesTo ==
    ASSUME TypeOK, Reading \in Nat, NearLevel,
           NEW s \in AccrualState, NEW h \in [epoch: Nat, kwh: Nat], Books(s, h),
           NEW q \in Int
    PROVE  LET n == Settle(s, Reading, q)
           IN  Settled(s, h, n, SettledBy(s, n, ChargedEnergy(s, Reading), h), q)
  <1> DEFINE n == Settle(s, Reading, q)
  <1>1. /\ n \in AccrualState /\ HasBaseline(n) /\ Settles(s, n, Reading)
        /\ n.cost = s.cost + ChargedEnergy(s, Reading) * q
    BY SettleFields
  <1> HIDE DEF n
  <1>2. LET k == ChargedEnergy(s, Reading)
            new == SettledBy(s, n, k, h)
        IN  /\ k = OwedBy(s, h) /\ OwedBy(n, new) = 0 /\ Current(n, new)
            /\ new.epoch <= meter.epoch
    BY <1>1, SettlesOwed
  <1>3. q # None
    BY NoneAssumption
  <1> QED
    BY <1>1, <1>2, <1>3 DEF Settled, n

(* An energy event: in a gap the energy waits, else it is charged.         *)
LEMMA EnergyComesTo ==
    ASSUME TypeOK, Reading \in Nat, NearLevel,
           NEW s \in AccrualState, NEW h \in [epoch: Nat, kwh: Nat], Books(s, h)
    PROVE  LET n == ApplyEnergy(s, Reading)
               new == SettledBy(s, n, Priced(s, s.price, Reading), h)
           IN  /\ n.price = s.price
               /\ HasBaseline(s) \/ s.price = None => Settled(s, h, n, new, s.price)
  <1> DEFINE r == Reading
             n == ApplyEnergy(s, r)
             k == Priced(s, s.price, r)
  <1>1. Usable(r) = r /\ r # None /\ n.price = s.price
    BY NoneAssumption, ApplyEnergyType DEF Usable
  <1>2. CASE HasBaseline(s) /\ s.price = None
    <2>1. n = TrackGapEnergy(s, r) /\ k = 0
      BY <1>1, <1>2 DEF ApplyEnergy, Priced
    <2> DEFINE t == TrackGapEnergy(s, r)
    <2>2. t \in AccrualState /\ HasBaseline(t) /\ Tracks(s, t, r) /\ t.cost = s.cost
      BY <1>2, TrackFields
    <2> HIDE DEF t
    <2>3. LET new == SettledBy(s, t, 0, h)
          IN  /\ OwedBy(t, new) = OwedBy(s, h) /\ Current(t, new)
              /\ new.epoch <= meter.epoch
      BY <2>2, TracksOwed
    <2> QED
      BY <1>1, <1>2, <2>1, <2>2, <2>3 DEF Settled, t
  <1>3. CASE HasBaseline(s) /\ s.price # None
    <2>1. n = Settle(s, r, s.price) /\ k = ChargedEnergy(s, r) /\ s.price \in Int
      BY <1>1, <1>3 DEF ApplyEnergy, Priced, AccrualState
    <2> QED
      BY <1>1, <2>1, SettleComesTo
  <1>4. CASE ~ HasBaseline(s) /\ s.price = None
    <2>1. n = [s EXCEPT !.last_energy = r, !.last_reading = r] /\ k = 0
      BY <1>1, <1>4 DEF ApplyEnergy, Priced
    <2>2. /\ n.last_energy = r /\ n.last_reading = r /\ n.cost = s.cost
          /\ n \in AccrualState
      <3>1. n \in AccrualState
        BY ApplyEnergyType
      <3> HIDE DEF n
      <3> QED
        BY <2>1, <3>1, RecordForm
    <2>3. s.last_energy = None /\ r = meter.level /\ meter.level \in Nat /\ meter.epoch \in Nat
      BY <1>4, SensorAssumption DEF Books, TypeOK
    <2> DEFINE new == SettledBy(s, n, k, h)
    <2>4. new.epoch = meter.epoch
      BY <1>1, <2>1, <2>2, <2>3 DEF SettledBy
    <2> HIDE DEF n, new
    <2>5. HasBaseline(n) /\ OwedBy(n, new) = 0 /\ OwedBy(s, h) = 0 /\ Current(n, new)
      BY <1>1, <1>4, <2>2, <2>3, <2>4 DEF HasBaseline, OwedBy, Current
    <2> QED
      BY <1>1, <1>4, <2>2, <2>3, <2>4, <2>5 DEF Settled, n, new
  <1> QED
    BY <1>1, <1>2, <1>3, <1>4

(* A price event: what is owed is charged at the outgoing price, or at the *)
(* price that ends the gap.                                                *)
LEMMA PriceComesTo ==
    ASSUME TypeOK, Reading \in Nat, NearLevel,
           NEW s \in AccrualState, NEW h \in [epoch: Nat, kwh: Nat], Books(s, h)
    PROVE  LET n == ApplyPrice(s, price_state, Reading)
               new == SettledBy(s, n, Priced(s, price_state, Reading), h)
           IN  /\ n.price = price_state
               /\ Settled(s, h, n, new, IF s.price = None THEN price_state ELSE s.price)
  <1> DEFINE r == Reading
             p == price_state
             n == ApplyPrice(s, p, r)
             k == Priced(s, p, r)
  <1>1. /\ Usable(r) = r /\ r # None /\ r \in Parsed /\ p \in PriceType
        /\ p # None => p \in Int
        /\ s.price # None => s.price \in Int
    BY NoneAssumption, PriceStateType DEF Usable, Parsed, PriceType, AccrualState
  <1>2. ASSUME NEW q \in Int, s.price # None \/ p # None,
               n = [Settle(s, r, q) EXCEPT !.price = p]
        PROVE  n.price = p /\ Settled(s, h, n, SettledBy(s, n, k, h), q)
    <2>1. k = ChargedEnergy(s, r)
      BY <1>1, <1>2 DEF Priced
    <2> DEFINE t == Settle(s, r, q)
    <2>2. t \in AccrualState /\ Settled(s, h, t, SettledBy(s, t, k, h), q)
      BY <2>1, SettleComesTo, SettleFields
    <2> HIDE DEF t, k
    <2>3. LET m == [t EXCEPT !.price = p]
          IN  Settled(s, h, m, SettledBy(s, m, k, h), q) /\ m.price = p
      BY <1>1, <2>2, SettledPrice
    <2> QED
      BY <1>2, <2>3 DEF t
  <1>3. CASE s.price = None /\ p = None /\ n = ApplyEnergy(s, r)
    <2>1. k = Priced(s, s.price, r)
      BY <1>3
    <2> HIDE DEF k, n
    <2> QED
      BY <1>3, <2>1, EnergyComesTo DEF k, n
  <1>4. CASE s.price = None /\ p # None /\ n = [Settle(s, r, p) EXCEPT !.price = p]
    BY <1>1, <1>2, <1>4
  <1>5. CASE s.price # None /\ n = [Settle(s, r, s.price) EXCEPT !.price = p]
    BY <1>1, <1>2, <1>5
  <1> QED
    BY <1>1, <1>3, <1>4, <1>5, ApplyPriceCases

-----------------------------------------------------------------------------
LEMMA OwedIs == Owed = OwedBy(Book, Accounted)
  BY DEF Owed, OwedBy

LEMMA SteadyFacts ==
    ASSUME SteadyInv
    PROVE  /\ Book \in AccrualState /\ Accounted \in [epoch: Nat, kwh: Nat]
           /\ Book.cost \in Int /\ Book.price \in PriceType
           /\ Owed \in Nat /\ Owed = OwedBy(Book, Accounted)
           /\ meter.level \in Nat /\ meter.epoch \in Nat
           /\ ~ loaded => Book.price = None
           /\ (Book.price # None /\ "energy" \notin in_flight) => Owed = 0
  <1>1. /\ TypeOK /\ Books(Book, Accounted)
        /\ (loaded /\ accrual.price # None /\ "energy" \notin in_flight) => Owed = 0
    BY DEF SteadyInv
  <1>2. Book \in AccrualState /\ Accounted \in [epoch: Nat, kwh: Nat]
    BY <1>1, RestoredType DEF Book, Accounted, TypeOK
  <1>3. meter.level \in Nat /\ meter.epoch \in Nat
    BY <1>1, SensorAssumption DEF TypeOK
  <1>4. ~ loaded => Book.price = None
    BY DEF Book, RestoredAccrual, InitialState
  <1>5. Owed = OwedBy(Book, Accounted) /\ Owed \in Nat
    BY <1>1, <1>2, OwedIs, OwedType
  <1>6. Book.cost \in Int /\ Book.price \in PriceType
    BY <1>2 DEF AccrualState, PriceType
  <1>7. (Book.price # None /\ "energy" \notin in_flight) => Owed = 0
    BY <1>1, <1>4 DEF Book
  <1> QED
    BY <1>2, <1>3, <1>4, <1>5, <1>6, <1>7

-----------------------------------------------------------------------------
(* The steps of the bill, by what the book comes to.                       *)

(* Once no event is on its way, nothing is owed at a price.                *)
LEMMA BillIs ==
    ASSUME SteadyInv
    PROVE  Charged = IF Book.price = None THEN Book.cost ELSE Book.cost + Owed * Book.price
  <1>1. CASE Book.price = None \/ "energy" \in in_flight
    BY <1>1 DEF Charged
  <1>2. CASE Book.price # None /\ "energy" \notin in_flight
    <2>1. Owed = 0 /\ Book.price \in Int /\ Book.cost \in Int
      BY <1>2, SteadyFacts DEF PriceType
    <2> QED
      BY <1>2, <2>1 DEF Charged
  <1> QED
    BY <1>1, <1>2

LEMMA NextBillIs ==
    ASSUME SteadyInv'
    PROVE  Charged' = IF Book'.price = None THEN Book'.cost
                      ELSE Book'.cost + Owed' * Book'.price
  <1>1. CASE Book'.price = None \/ "energy" \in in_flight'
    BY <1>1 DEF Charged
  <1>2. CASE Book'.price # None /\ "energy" \notin in_flight'
    <2>1. loaded'
      BY <1>2 DEF Book, RestoredAccrual, InitialState
    <2>2. Book' = accrual' /\ accrual' \in AccrualState
      BY <2>1 DEF Book, SteadyInv, TypeOK
    <2>3. Owed' = 0
      BY <1>2, <2>1, <2>2 DEF SteadyInv
    <2>4. Book'.price \in Int /\ Book'.cost \in Int
      BY <1>2, <2>2 DEF AccrualState
    <2> QED
      BY <1>2, <2>3, <2>4 DEF Charged
  <1> QED
    BY <1>1, <1>2

LEMMA StillBegun ==
    ASSUME HasBaseline(Book), HasBaseline(Book)'
    PROVE  HasBaseline(Book)' = HasBaseline(Book) /\ HasBaseline(Book) = TRUE
  BY DEF HasBaseline

LEMMA BillStays ==
    ASSUME SteadyInv, SteadyInv', HasBaseline(Book)' = HasBaseline(Book),
           meter'.level = meter.level, Book'.price = Book.price, Owed' = Owed,
           Book'.cost = Book.cost
    PROVE  UNCHANGED Ledger!vars
  <1>1. Charged' = Charged /\ Waiting' = Waiting
    BY BillIs, NextBillIs DEF Waiting
  <1> QED
    BY <1>1 DEF Ledger!vars

(* What is owed is charged, all of it, at the price of the book.           *)
LEMMA BillCharged ==
    ASSUME SteadyInv, SteadyInv', HasBaseline(Book)' = HasBaseline(Book),
           meter'.level = meter.level, Book.price # None, Book'.price = Book.price,
           Book'.cost = Book.cost + Owed * Book.price, Owed' = 0
    PROVE  UNCHANGED Ledger!vars
  <1>1. Book.cost \in Int /\ Book.price \in Int /\ Owed * Book.price \in Int
        /\ 0 * Book.price = 0
    BY SteadyFacts DEF PriceType
  <1>2. Charged' = Charged /\ Waiting' = Waiting
    BY <1>1, BillIs, NextBillIs DEF Waiting
  <1> QED
    BY <1>2 DEF Ledger!vars

(* What is owed is charged at the outgoing price, or at the returning one. *)
LEMMA BillPriced ==
    ASSUME SteadyInv, SteadyInv', HasBaseline(Book), HasBaseline(Book)',
           meter'.level = meter.level, NEW p \in PriceType, Book'.price = p,
           LET q == IF Book.price = None THEN p ELSE Book.price
           IN  IF q = None THEN Book'.cost = Book.cost /\ Owed' = Owed
               ELSE Book'.cost = Book.cost + Owed * q /\ Owed' = 0
    PROVE  Ledger!PriceChanged(p)
  <1>1. /\ Book.cost \in Int /\ Book.price \in PriceType /\ Owed \in Nat
        /\ Charged = IF Book.price = None THEN Book.cost
                     ELSE Book.cost + Owed * Book.price
        /\ Charged' = IF p = None THEN Book'.cost ELSE Book'.cost + Owed' * p
    BY SteadyFacts, BillIs, NextBillIs
  <1>2. IF Book.price = None /\ p # None
        THEN Charged' = Charged + Waiting * p /\ Waiting' = 0
        ELSE Charged' = Charged /\ Waiting' = Waiting
    <2>1. CASE Book.price = None /\ p = None
      BY <1>1, <2>1 DEF Waiting
    <2>2. CASE Book.price = None /\ p # None
      <3>1. p \in Int /\ Owed * p \in Int /\ 0 * p = 0
        BY <1>1, <2>2 DEF PriceType
      <3>2. Book'.cost = Book.cost + Owed * p /\ Owed' = 0
        BY <2>2
      <3> QED
        BY <1>1, <2>2, <3>1, <3>2 DEF Waiting
    <2>3. CASE Book.price # None
      <3>1. Book.price \in Int /\ Owed * Book.price \in Int /\ (p # None => 0 * p = 0)
        BY <1>1, <2>3 DEF PriceType
      <3>2. Book'.cost = Book.cost + Owed * Book.price /\ Owed' = 0
        BY <2>3
      <3> QED
        BY <1>1, <2>3, <3>1, <3>2 DEF Waiting
    <2> QED
      BY <2>1, <2>2, <2>3
  <1>3. HasBaseline(Book)' = HasBaseline(Book) /\ Book'.price = p
    BY StillBegun
  <1> QED
    BY <1>2, <1>3 DEF Ledger!PriceChanged

(* The first baseline begins the bill, and owes nothing.                   *)
LEMMA BillBegins ==
    ASSUME SteadyInv, SteadyInv', ~ HasBaseline(Book), HasBaseline(Book)',
           meter'.level = meter.level, Book.price = None, NEW p \in PriceType,
           Book'.price = p, Book'.cost = Book.cost, Owed' = 0
    PROVE  Ledger!Begin(p)
  <1>1. Owed = 0 /\ Book.cost \in Int
    BY SteadyFacts DEF Owed
  <1>2. Charged = Book.cost /\ Waiting = 0 /\ Waiting' = 0
    BY <1>1, BillIs DEF Waiting
  <1>3. p # None => 0 * p = 0
    BY DEF PriceType
  <1>4. Charged' = Book.cost
    BY <1>1, <1>3, NextBillIs
  <1>5. HasBaseline(Book)' = TRUE
    BY DEF HasBaseline
  <1> QED
    BY <1>2, <1>4, <1>5 DEF Ledger!Begin

(* The meter advances: what is owed grows by as much, if there is a bill.  *)
LEMMA BillMetered ==
    ASSUME SteadyInv, SteadyInv', in_flight = {}, NEW r \in Nat, r >= meter.level,
           meter'.level = r, Book' = Book,
           Owed' = IF HasBaseline(Book) THEN Owed + (r - meter.level) ELSE 0
    PROVE  Ledger!Metered(r)
  <1>1. /\ Book.cost \in Int /\ Book.price \in PriceType /\ Owed \in Nat
        /\ meter.level \in Nat /\ (Book.price # None => Owed = 0)
        /\ Charged = IF Book.price = None THEN Book.cost
                     ELSE Book.cost + Owed * Book.price
        /\ Charged' = IF Book.price = None THEN Book.cost
                      ELSE Book.cost + Owed' * Book.price
    BY SteadyFacts, BillIs, NextBillIs
  <1>2. HasBaseline(Book)' = HasBaseline(Book)
    BY DEF HasBaseline
  <1> DEFINE d == r - meter.level
  <1>3. d \in Nat
    BY <1>1
  <1>4. Ledger!Bill(d, Waiting)
    <2>1. CASE ~ HasBaseline(Book)
      <3>1. Owed = 0 /\ Owed' = 0
        BY <2>1 DEF Owed
      <3>2. Charged' = Charged /\ Waiting' = Waiting
        BY <1>1, <3>1 DEF Waiting
      <3> QED
        BY <2>1, <3>2 DEF Ledger!Bill
    <2>2. CASE HasBaseline(Book) /\ Book.price = None
      <3>1. Charged' = Charged /\ Waiting' = Waiting + d
        BY <1>1, <2>2 DEF Waiting
      <3> QED
        BY <2>2, <3>1 DEF Ledger!Bill
    <2>3. CASE HasBaseline(Book) /\ Book.price # None
      <3>1. Owed = 0 /\ Owed' = d /\ Book.price \in Int
        BY <1>1, <1>3, <2>3 DEF PriceType
      <3> HIDE DEF d
      <3>2. d * Book.price \in Int /\ 0 * Book.price = 0
        BY <1>3, <3>1
      <3>3. Charged' = Charged + d * Book.price /\ Waiting' = Waiting
        BY <1>1, <2>3, <3>1, <3>2 DEF Waiting
      <3> QED
        BY <2>3, <3>3 DEF Ledger!Bill
    <2> QED
      BY <2>1, <2>2, <2>3
  <1>5. Book'.price = Book.price
    OBVIOUS
  <1> QED
    BY <1>2, <1>4, <1>5 DEF Ledger!Metered

(* The meter restarts: all it shows is owed, and nothing else.             *)
LEMMA BillRestarted ==
    ASSUME SteadyInv, SteadyInv', in_flight = {}, NEW r \in Nat, r < meter.level,
           meter'.level = r, Book' = Book, HasBaseline(Book), Owed' = r
    PROVE  Ledger!MeterRestarted(r)
  <1>1. /\ Book.cost \in Int /\ Book.price \in PriceType /\ Owed \in Nat
        /\ (Book.price # None => Owed = 0)
        /\ Charged = IF Book.price = None THEN Book.cost
                     ELSE Book.cost + Owed * Book.price
        /\ Charged' = IF Book.price = None THEN Book.cost ELSE Book.cost + r * Book.price
    BY SteadyFacts, BillIs, NextBillIs
  <1>2. HasBaseline(Book)' = HasBaseline(Book)
    BY DEF HasBaseline
  <1>3. Ledger!Bill(r, 0)
    <2>1. CASE Book.price = None
      <3>1. Charged' = Charged /\ Waiting' = 0 + r
        BY <1>1, <2>1 DEF Waiting
      <3> QED
        BY <2>1, <3>1 DEF Ledger!Bill
    <2>2. CASE Book.price # None
      <3>1. Owed = 0 /\ Book.price \in Int /\ r * Book.price \in Int /\ 0 * Book.price = 0
        BY <1>1, <2>2 DEF PriceType
      <3>2. Charged' = Charged + r * Book.price /\ Waiting' = Waiting
        BY <1>1, <2>2, <3>1 DEF Waiting
      <3> QED
        BY <2>2, <3>2 DEF Ledger!Bill
    <2> QED
      BY <2>1, <2>2
  <1>4. Book'.price = Book.price
    OBVIOUS
  <1> QED
    BY <1>2, <1>3, <1>4 DEF Ledger!MeterRestarted

(* A calibration owes nothing.                                             *)
LEMMA BillSet ==
    ASSUME SteadyInv, SteadyInv', HasBaseline(Book), HasBaseline(Book)',
           meter'.level = meter.level, Book'.price = Book.price, Book'.cost \in Int,
           Owed' = 0
    PROVE  /\ HasBaseline(Book)' = HasBaseline(Book) /\ HasBaseline(Book)
           /\ Charged' = Book'.cost /\ Waiting' = 0
  <1>1. Book.price # None => 0 * Book.price = 0
    BY SteadyFacts DEF PriceType
  <1>2. Charged' = Book'.cost
    BY <1>1, NextBillIs
  <1> QED
    BY <1>2, StillBegun DEF Waiting

-----------------------------------------------------------------------------
(* SteadyInv is inductive, and every step is one of the bill's, or none.   *)

(* A loaded sensor that has taken a reading.                               *)
LEMMA AfterSettling ==
    ASSUME SteadyInv, TypeOK', UNCHANGED <<energy_state, meter, source>>, loaded',
           bound' = source, NEW q, Settled(Book, Accounted, accrual', settled', q),
           accrual'.price # None => q # None
    PROVE  /\ SteadyInv' /\ Book' = accrual' /\ HasBaseline(Book)'
           /\ Owed' = IF q = None THEN Owed ELSE 0
  <1>1. Book' = accrual' /\ Accounted' = settled' /\ Reading' = Reading
    BY DEF Book, Accounted, Reading
  <1>2. Reading' \in Nat /\ NearLevel'
    BY StillNear, <1>1 DEF SteadyInv
  <1>3. Owed' = OwedBy(accrual', settled') /\ HasBaseline(accrual')
    BY <1>1 DEF Owed, OwedBy, Settled
  <1>4. Owed' = IF q = None THEN Owed ELSE 0
    BY <1>3, OwedIs DEF Settled
  <1>5. Reading # meter.level => Owed' = 0
    BY <1>4, OwedIs DEF SteadyInv, Books
  <1>6. Books(Book, Accounted)' /\ Current(Book, Accounted)'
    BY <1>1, <1>3, <1>5 DEF Books, Settled, Current, OwedBy, HasBaseline
  <1>7. Kept'
    BY <1>3 DEF Kept, HasBaseline
  <1>8. (loaded /\ accrual.price # None /\ "energy" \notin in_flight => Owed = 0)'
    BY <1>4
  <1>9. HasBaseline(Book)'
    BY <1>1, <1>3 DEF HasBaseline
  <1> QED
    BY <1>1, <1>2, <1>4, <1>6, <1>7, <1>8, <1>9 DEF SteadyInv

LEMMA EnergyEventBill ==
    ASSUME SteadyInv, loaded, HandleEnergy
    PROVE  SteadyInv' /\ UNCHANGED Ledger!vars
  <1> DEFINE n == ApplyEnergy(accrual, Reading)
             k == Priced(accrual, accrual.price, Reading)
  <1>1. TypeOK' /\ Book = accrual /\ Accounted = settled
    BY HandleType DEF Handle, SteadyInv, Book, Accounted
  <1>2. /\ UNCHANGED <<energy_state, meter, source, loaded, bound>>
        /\ accrual' = n /\ settled' = SettledBy(accrual, n, k, settled)
    BY NoneAssumption DEF HandleEnergy, worldVars, SteadyInv, Transition
  <1>3. n.price = accrual.price
        /\ Settled(accrual, settled, n, SettledBy(accrual, n, k, settled), accrual.price)
    BY <1>1, SteadyFacts, EnergyComesTo DEF SteadyInv, Kept
  <1>4. bound = source /\ HasBaseline(Book)
    BY <1>1 DEF SteadyInv, Kept
  <1>5. /\ SteadyInv' /\ Book' = accrual' /\ HasBaseline(Book)'
        /\ Owed' = IF accrual.price = None THEN Owed ELSE 0
    <2> HIDE DEF n, k
    <2> QED
      BY <1>1, <1>2, <1>3, <1>4, AfterSettling
  <1>6. HasBaseline(Book)' = HasBaseline(Book) /\ meter'.level = meter.level
        /\ Book'.price = Book.price
    BY <1>1, <1>2, <1>3, <1>4, <1>5, StillBegun
  <1>7. CASE accrual.price = None
    BY <1>1, <1>2, <1>3, <1>5, <1>6, <1>7, OwedIs, BillStays DEF Settled
  <1>8. CASE accrual.price # None
    <2>1. Book'.cost = Book.cost + Owed * Book.price
      BY <1>1, <1>2, <1>3, <1>5, <1>8, OwedIs DEF Settled
    <2> QED
      BY <1>1, <1>5, <1>6, <1>8, <2>1, BillCharged
  <1> QED
    BY <1>7, <1>8

LEMMA PriceEventBill ==
    ASSUME SteadyInv, loaded, HandlePrice
    PROVE  SteadyInv' /\ Ledger!PriceChanged(price_state)
  <1> DEFINE n == ApplyPrice(accrual, price_state, Reading)
             k == Priced(accrual, price_state, Reading)
             q == IF accrual.price = None THEN price_state ELSE accrual.price
  <1>1. TypeOK' /\ Book = accrual /\ Accounted = settled /\ price_state \in PriceType
    BY HandleType, PriceStateType DEF Handle, SteadyInv, Book, Accounted
  <1>2. /\ UNCHANGED <<energy_state, meter, source, loaded, bound>>
        /\ accrual' = n /\ settled' = SettledBy(accrual, n, k, settled)
    BY DEF HandlePrice, worldVars, Transition
  <1>3. n.price = price_state
        /\ Settled(accrual, settled, n, SettledBy(accrual, n, k, settled), q)
    BY <1>1, SteadyFacts, PriceComesTo DEF SteadyInv
  <1>4. bound = source /\ HasBaseline(Book) /\ (price_state # None => q # None)
    BY <1>1 DEF SteadyInv, Kept
  <1>5. /\ SteadyInv' /\ Book' = accrual' /\ HasBaseline(Book)'
        /\ Owed' = IF q = None THEN Owed ELSE 0
    <2> HIDE DEF n, k, q
    <2> QED
      BY <1>1, <1>2, <1>3, <1>4, AfterSettling
  <1>6. /\ Book'.price = price_state
        /\ IF q = None THEN Book'.cost = Book.cost /\ Owed' = Owed
           ELSE Book'.cost = Book.cost + Owed * q /\ Owed' = 0
    <2> HIDE DEF n, k, q
    <2> QED
      BY <1>1, <1>2, <1>3, <1>5, OwedIs DEF Settled
  <1>7. meter'.level = meter.level
    BY <1>2
  <1> HIDE DEF q
  <1> QED
    BY <1>1, <1>4, <1>5, <1>6, <1>7, BillPriced DEF q

(* Setup ends the gap that unloading began, or begins the bill.            *)
LEMMA SetupBill ==
    ASSUME SteadyInv, Setup
    PROVE  SteadyInv' /\ (Ledger!PriceChanged(price_state) \/ Ledger!Begin(price_state))
  <1> DEFINE s == RestoredAccrual
             h == RestoredSettled
             n == ApplyPrice(s, price_state, Reading)
             k == Priced(s, price_state, Reading)
  <1>1. /\ TypeOK' /\ Book = s /\ Accounted = h /\ price_state \in PriceType
        /\ s.price = None
    BY SetupType, PriceStateType, SteadyFacts DEF Setup, SteadyInv, Book, Accounted
  <1>2. /\ UNCHANGED <<energy_state, meter, source>> /\ loaded' /\ bound' = source
        /\ accrual' = n /\ settled' = SettledBy(s, n, k, h)
    BY DEF Setup, worldVars
  <1>3. s \in AccrualState /\ h \in [epoch: Nat, kwh: Nat] /\ Books(s, h)
    BY <1>1, SteadyFacts DEF SteadyInv
  <1>4. n.price = price_state
        /\ Settled(s, h, n, SettledBy(s, n, k, h), price_state)
    <2> HIDE DEF s, h
    <2> QED
      BY <1>1, <1>3, PriceComesTo DEF SteadyInv
  <1>5. /\ SteadyInv' /\ Book' = accrual' /\ HasBaseline(Book)'
        /\ Owed' = IF price_state = None THEN Owed ELSE 0
    <2> HIDE DEF n, k, s, h
    <2> QED
      BY <1>1, <1>2, <1>4, AfterSettling
  <1>6. /\ Book'.price = price_state
        /\ IF price_state = None THEN Book'.cost = Book.cost /\ Owed' = Owed
           ELSE Book'.cost = Book.cost + Owed * price_state /\ Owed' = 0
    <2> HIDE DEF n, k, s, h
    <2> QED
      BY <1>1, <1>2, <1>4, <1>5, OwedIs DEF Settled
  <1>7. meter'.level = meter.level /\ Book.price = None
    BY <1>1, <1>2
  <1> HIDE DEF s
  <1>8. CASE HasBaseline(Book)
    BY <1>1, <1>5, <1>6, <1>7, <1>8, BillPriced
  <1>9. CASE ~ HasBaseline(Book)
    <2>1. Owed = 0 /\ Book.cost \in Int
      BY <1>9, SteadyFacts DEF Owed
    <2>2. Owed' = 0 /\ Book'.cost = Book.cost
      BY <1>1, <1>6, <2>1 DEF PriceType
    <2> QED
      BY <1>1, <1>5, <1>6, <1>7, <1>9, <2>2, BillBegins
  <1> QED
    BY <1>5, <1>8, <1>9

(* Unloading begins a gap, with nothing owed if there was a price.          *)
LEMMA UnloadBill ==
    ASSUME SteadyInv, Unload
    PROVE  SteadyInv' /\ [Ledger!Next]_(Ledger!vars)
  <1>1. /\ TypeOK /\ TypeOK' /\ loaded /\ in_flight = {} /\ HasBaseline(accrual)
        /\ bound = source /\ accrual \in AccrualState
    BY LifeType DEF Life, SteadyInv, Kept, Unload, TypeOK
  <1>2. /\ UNCHANGED <<energy_state, meter, source>> /\ ~ loaded' /\ in_flight' = {}
        /\ last_states' = Stored
    BY DEF Unload, Gone, worldVars
  <1>3. /\ last_states' # None /\ last_states'.extra # None
        /\ last_states'.extra.cost = accrual.cost
        /\ last_states'.extra.last_energy = accrual.last_energy
        /\ last_states'.extra.energy_sensor = source.id
        /\ last_states'.extra.source_entity_uuid = source.uuid
        /\ last_states'.settled = settled
    <2>1. Stored \in StoredState /\ Stored.extra \in ExtraData
      <3>1. Stored.extra \in ExtraData
        BY <1>1 DEF Stored, ExtraData, AccrualState, TypeOK
      <3> QED
        BY <1>1, <3>1, StoredType
    <2>2. Stored # None /\ Stored.extra # None
      BY <2>1, SensorAssumption
    <2> QED
      BY <1>1, <1>2, <2>2 DEF Stored
  <1>4. SameMeter(last_states.extra)'
    BY <1>2, <1>3 DEF SameMeter
  <1>5. RestoredAccrual' = [cost |-> accrual.cost, last_energy |-> accrual.last_energy,
                            last_reading |-> accrual.last_energy, price |-> None]
    BY <1>3, <1>4 DEF RestoredAccrual
  <1>6. /\ Book' = [cost |-> accrual.cost, last_energy |-> accrual.last_energy,
                    last_reading |-> accrual.last_energy, price |-> None]
        /\ Accounted' = settled /\ Reading' = Reading
        /\ Book = accrual /\ Accounted = settled
    BY <1>1, <1>2, <1>3, <1>5 DEF Book, Accounted, RestoredSettled, Reading
  <1>7. Owed' = Owed
    BY <1>1, <1>2, <1>6 DEF Owed, HasBaseline
  <1>8. SteadyInv' /\ HasBaseline(Book) /\ HasBaseline(Book)'
    <2>1. Current(accrual, settled) /\ accrual.last_energy # None
      BY <1>1, <1>6 DEF SteadyInv, HasBaseline
    <2>2. Current(Book, Accounted)' /\ HasBaseline(Book)'
      BY <1>2, <1>6, <2>1 DEF Current, HasBaseline
    <2>3. Owed' = OwedBy(Book, Accounted)'
      BY <1>1 DEF Owed, OwedBy
    <2>4. Books(Book, Accounted)'
      BY <1>2, <1>6, <1>7, <2>2, <2>3, OwedIs DEF Books, SteadyInv
    <2>5. Kept'
      BY <1>2, <1>3, <1>4, <2>1 DEF Kept
    <2>6. Reading' \in Nat /\ NearLevel'
      BY <1>2, <1>6, StillNear DEF SteadyInv
    <2> QED
      BY <1>1, <1>2, <1>6, <2>2, <2>4, <2>5, <2>6 DEF SteadyInv
  <1>9. CASE Book.price = None
    <2>1. HasBaseline(Book)' = HasBaseline(Book) /\ meter'.level = meter.level
          /\ Book'.price = Book.price /\ Book'.cost = Book.cost
      BY <1>2, <1>6, <1>8, <1>9, StillBegun
    <2> QED
      BY <1>7, <1>8, <2>1, BillStays
  <1>10. CASE Book.price # None
    <2>1. Owed = 0 /\ Book.price \in Int /\ Book.cost \in Int
      BY <1>1, <1>10, SteadyFacts DEF PriceType
    <2>2. Book'.cost = Book.cost + Owed * Book.price /\ meter'.level = meter.level
      BY <1>2, <1>6, <2>1
    <2>3. Ledger!PriceChanged(None)
      BY <1>6, <1>7, <1>8, <1>10, <2>1, <2>2, BillPriced DEF PriceType
    <2> QED
      BY <1>8, <2>3 DEF Ledger!Next
  <1> QED
    BY <1>9, <1>10

(* A service, at the level, sets the bill.                                 *)
LEMMA ServiceBill ==
    ASSUME SteadyInv, ServiceAtLevel
    PROVE  SteadyInv' /\ Ledger!Next
  <1>1. /\ TypeOK /\ TypeOK' /\ Reading = meter.level /\ meter.level \in Readings
        /\ meter.level \in Nat /\ meter.epoch \in Nat /\ Usable(Reading) = Reading
    <2>1. TypeOK /\ TypeOK' /\ Reading \in Nat
      BY ServiceType DEF ServiceAtLevel, SteadyInv
    <2>2. Reading = meter.level
      BY <2>1, NoneAssumption DEF ServiceAtLevel, Reading
    <2> QED
      BY <2>1, <2>2, SensorAssumption, NoneAssumption DEF TypeOK, Usable
  <1>2. ASSUME NEW c, NEW done, CalibrateTo(c, done), loaded, in_flight = {}
        PROVE  /\ SteadyInv' /\ Owed' = 0 /\ HasBaseline(Book) /\ HasBaseline(Book)'
               /\ Book.price = accrual.price /\ Book'.cost = c /\ Book'.price = accrual.price
               /\ meter'.level = meter.level
    <2>1. /\ accrual'.cost = c /\ accrual'.price = accrual.price
          /\ accrual'.last_energy = meter.level /\ accrual'.last_reading = meter.level
          /\ settled'.epoch = meter.epoch
          /\ UNCHANGED <<energy_state, meter, source, loaded, bound, in_flight>>
      BY <1>1, <1>2 DEF CalibrateTo, Calibrate, worldVars
    <2>2. /\ Book' = accrual' /\ Accounted' = settled' /\ Book = accrual /\ Reading' = Reading
      BY <1>2, <2>1 DEF Book, Accounted, Reading
    <2>3. HasBaseline(Book)' /\ Current(Book, Accounted)'
      BY <1>1, <2>1, <2>2, NoneAssumption DEF HasBaseline, Current
    <2>4. Owed' = 0
      BY <1>1, <2>1, <2>2, <2>3 DEF Owed
    <2>5. Owed' = OwedBy(Book, Accounted)'
      BY <1>1 DEF Owed, OwedBy
    <2>6. Books(Book, Accounted)'
      BY <1>1, <2>1, <2>2, <2>3, <2>4, <2>5 DEF Books
    <2>7. Kept' /\ NearLevel' /\ Reading' \in Nat
      BY <1>1, <1>2, <2>1, <2>2, <2>3, StillNear DEF Kept, SteadyInv, HasBaseline
    <2>8. HasBaseline(Book)
      BY <1>2, <2>2 DEF SteadyInv, Kept
    <2> QED
      BY <1>1, <2>1, <2>2, <2>3, <2>4, <2>6, <2>7, <2>8 DEF SteadyInv
  <1>3. ASSUME NEW v \in Values, AsyncCalibrate(v) PROVE SteadyInv' /\ Ledger!Next
    <2>1. CalibrateTo(v, Reading) /\ loaded /\ in_flight = {} /\ v \in Int
      BY <1>3, SensorAssumption DEF AsyncCalibrate
    <2>2. /\ SteadyInv' /\ Owed' = 0 /\ HasBaseline(Book) /\ HasBaseline(Book)'
          /\ Book.price = accrual.price /\ Book'.cost = v /\ Book'.price = accrual.price
          /\ meter'.level = meter.level
      BY <1>2, <2>1
    <2>3. Ledger!Set(v)
      BY <2>1, <2>2, BillSet DEF Ledger!Set
    <2> QED
      BY <2>2, <2>3 DEF Ledger!Next
  <1>4. ASSUME NEW v \in Values, NEW end \in Readings, NEW e \in BOOLEAN,
               AsyncCalibrateFromImport(v, end, e)
        PROVE  SteadyInv' /\ Ledger!Next
    <2> DEFINE c == CutoverValue(v, end, Reading, accrual.price)
               d == IF end <= meter.level THEN meter.level - end ELSE meter.level
    <2>1. /\ CalibrateTo(c, IF e /\ end > Reading THEN end ELSE Reading)
          /\ loaded /\ in_flight = {} /\ accrual.price # None /\ c # None
      BY <1>4 DEF AsyncCalibrateFromImport
    <2>2. /\ SteadyInv' /\ Owed' = 0 /\ HasBaseline(Book) /\ HasBaseline(Book)'
          /\ Book.price = accrual.price /\ Book'.cost = c /\ Book'.price = accrual.price
          /\ meter'.level = meter.level
      <3> HIDE DEF c
      <3> QED
        BY <1>2, <2>1
    <2>3. Classify(end, Reading) # "DIP" /\ end \in Nat /\ v \in Int
      BY <2>1, SensorAssumption DEF CutoverValue
    <2>4. c = v + d * accrual.price /\ d \in Nat
      <3>1. CASE Classify(end, Reading) = "RESET"
        BY <1>1, <2>3, <3>1 DEF CutoverValue, Classify
      <3>2. CASE Classify(end, Reading) # "RESET"
        <4>1. end <= Reading
          BY <1>1, <2>3, <3>2 DEF Classify
        <4> QED
          BY <1>1, <2>3, <3>2, <4>1 DEF CutoverValue
      <3> QED
        BY <3>1, <3>2
    <2> HIDE DEF c, d
    <2>5. d * accrual.price \in Int
      BY <2>1, <2>2, <2>4, SteadyFacts DEF PriceType
    <2>6. Charged' = v + d * Book.price /\ Waiting' = 0 /\ HasBaseline(Book)
          /\ HasBaseline(Book)' = HasBaseline(Book)
      BY <2>2, <2>3, <2>4, <2>5, BillSet
    <2>7. Ledger!SetAsOf(v, end)
      BY <2>1, <2>2, <2>6 DEF Ledger!SetAsOf, Ledger!Since, d
    <2> QED
      BY <2>2, <2>7 DEF Ledger!Next
  <1> QED
    BY <1>3, <1>4 DEF ServiceAtLevel, Service

-----------------------------------------------------------------------------

(* What is written to the source, in this epoch or at a restart the sensor *)
(* sees: the book stays, and owes what the level has risen by.             *)
LEMMA WriteBill ==
    ASSUME SteadyInv, TypeOK', NEW r \in Nat, NEW l \in Nat, NEW e \in Nat,
           EnergyWrite(r, l, e), r <= l, 10 * r >= 9 * l,
           \/ e = meter.epoch /\ l >= meter.level
           \/ /\ e > meter.epoch /\ loaded /\ r = l
              /\ Classify(accrual.last_reading, r) = "RESET",
           r # l => l = meter.level /\ e = meter.epoch /\ loaded /\ accrual.price # None
    PROVE  /\ SteadyInv' /\ Book' = Book /\ meter'.level = l
           /\ Owed' = IF ~ HasBaseline(Book) THEN 0
                      ELSE IF e = meter.epoch THEN Owed + (l - meter.level) ELSE l
  <1>1. /\ in_flight = {} /\ in_flight' = IF loaded THEN {"energy"} ELSE {}
        /\ meter'.level = l /\ meter'.epoch = e /\ Reading' = r
        /\ UNCHANGED <<accrual, settled, loaded, bound, last_states, source>>
    <2>1. r \notin {Unavailable, Unknown}
      <3>1. r \in Int \cup {None}
        OBVIOUS
      <3>2. {Unavailable, Unknown} \cap (Int \cup {None}) = {}
        BY SensorAssumption
      <3> QED
        BY <3>1, <3>2
    <2> QED
      BY <2>1 DEF EnergyWrite, sensorVars, storeVars, Reading, SteadyInv, TypeOK
  <1>2. Book' = Book /\ Accounted' = Accounted
    BY <1>1 DEF Book, Accounted, RestoredAccrual, RestoredSettled, SameMeter
  <1>3. /\ Book \in AccrualState /\ meter.level \in Nat /\ meter.epoch \in Nat
        /\ Accounted.epoch \in Nat /\ Accounted.epoch <= meter.epoch
        /\ HasBaseline(Book) => /\ Current(Book, Accounted) /\ Book.last_energy \in Nat
                                /\ Book.last_reading \in Nat
    BY <1>1, SteadyFacts DEF SteadyInv, Books, HasBaseline, AccrualState
  <1>4. HasBaseline(Book) => Owed = meter.level - Book.last_energy
    BY <1>3, SteadyFacts, OwedType DEF SteadyInv
  <1>5. Owed' = IF ~ HasBaseline(Book) THEN 0
                ELSE IF Accounted.epoch = e THEN l - Book.last_energy ELSE l
    BY <1>1, <1>2 DEF Owed, HasBaseline
  <1>6. Owed' = IF ~ HasBaseline(Book) THEN 0
                ELSE IF e = meter.epoch THEN Owed + (l - meter.level) ELSE l
    <2>1. CASE ~ HasBaseline(Book)
      BY <1>5, <2>1
    <2>2. CASE HasBaseline(Book) /\ e = meter.epoch
      BY <1>3, <1>4, <1>5, <2>2 DEF Current
    <2>3. CASE HasBaseline(Book) /\ e # meter.epoch
      <3>1. Accounted.epoch # e
        BY <1>3, <2>3
      <3> QED
        BY <1>5, <2>3, <3>1
    <2> QED
      BY <2>1, <2>2, <2>3
  <1>7. r # l => Owed' = 0
    BY <1>1, <1>3, <1>6, SteadyFacts DEF Book
  <1>8. HasBaseline(Book)' =>
           \/ e = meter.epoch /\ Current(Book, Accounted)'
           \/ loaded /\ Restarted(Book, Accounted)'
    <2>1. CASE e = meter.epoch
      BY <1>1, <1>2, <1>3, <2>1 DEF HasBaseline, Current
    <2>2. CASE e # meter.epoch
      <3>1. Accounted.epoch # e
        BY <1>3, <2>2
      <3> QED
        BY <1>1, <1>2, <2>2, <3>1 DEF Restarted, Book
    <2> QED
      BY <2>1, <2>2
  <1>9. Kept'
    BY <1>1 DEF Kept, SteadyInv, SameMeter, HasBaseline
  <1>10. Books(Book, Accounted)'
    <2>1. ~ HasBaseline(Book) => Book.last_energy = None /\ r = l
      BY DEF SteadyInv, Books, Kept, Book
    <2>2. Owed' = OwedBy(Book, Accounted)'
      BY <1>1 DEF Owed, OwedBy
    <2>3. Accounted'.epoch <= meter'.epoch
      BY <1>1, <1>2, <1>3
    <2>4. ~ HasBaseline(Book)' => Book'.last_energy = None /\ Reading' = meter'.level
      BY <1>1, <1>2, <2>1 DEF HasBaseline
    <2> QED
      BY <1>1, <1>7, <1>8, <2>2, <2>3, <2>4 DEF Books
  <1>11. (HasBaseline(Book) /\ "energy" \notin in_flight => Current(Book, Accounted))'
    BY <1>1, <1>8
  <1>12. NearLevel'
    BY <1>1 DEF NearLevel
  <1> QED
    BY <1>1, <1>2, <1>6, <1>9, <1>10, <1>11, <1>12 DEF SteadyInv

LEMMA MeteringBill ==
    ASSUME Dips # "compound", SteadyInv, SteadyMetering
    PROVE  SteadyInv' /\ [Ledger!Next]_(Ledger!vars)
  <1>1. /\ TypeOK /\ meter.level \in Readings /\ meter.level \in Nat /\ meter.epoch \in Nat
    BY SensorAssumption DEF SteadyInv, TypeOK
  <1>2. TypeOK'
    <2>1. Metering
      BY DEF SteadyMetering, Metering
    <2> QED
      BY <1>1, <2>1, MeteringType
  <1>3. ASSUME NEW r \in Readings, Advance(r)
        PROVE  SteadyInv' /\ [Ledger!Next]_(Ledger!vars)
    <2>1. r \in Nat /\ r >= meter.level /\ in_flight = {} /\ EnergyWrite(r, r, meter.epoch)
      BY <1>3, SensorAssumption DEF Advance, EnergyWrite
    <2>2. /\ SteadyInv' /\ Book' = Book /\ meter'.level = r
          /\ Owed' = IF HasBaseline(Book) THEN Owed + (r - meter.level) ELSE 0
      BY <1>1, <1>2, <2>1, WriteBill
    <2>3. Ledger!Metered(r)
      BY <2>1, <2>2, BillMetered DEF EnergyWrite
    <2> QED
      BY <2>2, <2>3 DEF Ledger!Next
  <1>4. ASSUME NEW r \in Readings, Reset(r), loaded, 10 * r < 9 * accrual.last_reading
        PROVE  SteadyInv' /\ [Ledger!Next]_(Ledger!vars)
    <2>1. /\ r \in Nat /\ r < meter.level /\ in_flight = {}
          /\ EnergyWrite(r, r, meter.epoch + 1) /\ HasBaseline(Book)
      BY <1>4, SensorAssumption DEF Reset, EnergyWrite, SteadyInv, Kept, Book
    <2>2. Classify(accrual.last_reading, r) = "RESET"
      <3>1. accrual.last_reading \in Nat
        BY <1>1, <1>4 DEF TypeOK, AccrualState, SteadyInv, Kept, HasBaseline
      <3> QED
        BY <1>4, <2>1, <3>1 DEF Classify
    <2>3. SteadyInv' /\ Book' = Book /\ Owed' = r /\ meter'.level = r
      BY <1>1, <1>2, <1>4, <2>1, <2>2, WriteBill
    <2>4. Ledger!MeterRestarted(r)
      BY <2>1, <2>3, BillRestarted
    <2> QED
      BY <2>3, <2>4 DEF Ledger!Next
  <1>5. ASSUME NEW r \in Readings, Dip(r), loaded, accrual.price # None
        PROVE  SteadyInv' /\ [Ledger!Next]_(Ledger!vars)
    <2>1. /\ r \in Nat /\ r < meter.level /\ 10 * r >= 9 * meter.level
          /\ EnergyWrite(r, meter.level, meter.epoch) /\ HasBaseline(Book)
      BY <1>5, SensorAssumption DEF Dip, SteadyInv, Kept, Book
    <2>2. /\ SteadyInv' /\ Book' = Book /\ Owed' = Owed + (meter.level - meter.level)
          /\ meter'.level = meter.level
      BY <1>1, <1>2, <1>5, <2>1, WriteBill
    <2>3. Owed' = Owed /\ HasBaseline(Book)' = HasBaseline(Book)
      BY <1>1, <2>2, SteadyFacts DEF HasBaseline
    <2> QED
      BY <2>2, <2>3, BillStays
  <1>6. ASSUME NEW p \in Prices \cup {None}, PriceWrite(p)
        PROVE  SteadyInv' /\ [Ledger!Next]_(Ledger!vars)
    <2>1. /\ UNCHANGED <<accrual, settled, loaded, bound, last_states, source, meter,
                         energy_state>>
          /\ "energy" \in in_flight' <=> "energy" \in in_flight
          /\ ~ loaded => in_flight' = in_flight
      BY <1>6 DEF PriceWrite, sensorVars, storeVars
    <2>2. Book' = Book /\ Accounted' = Accounted /\ Reading' = Reading
      BY <2>1 DEF Book, Accounted, RestoredAccrual, RestoredSettled, SameMeter, Reading
    <2>3. Owed' = Owed
      BY <2>1, <2>2 DEF Owed, HasBaseline
    <2>4. Kept' /\ NearLevel'
      BY <2>1, StillNear DEF Kept, SteadyInv, SameMeter, HasBaseline
    <2>5. Books(Book, Accounted)'
      BY <2>1, <2>2 DEF SteadyInv, Books, Current, Restarted, OwedBy, HasBaseline
    <2>6. (HasBaseline(Book) /\ "energy" \notin in_flight => Current(Book, Accounted))'
      BY <2>1, <2>2 DEF SteadyInv, Current, HasBaseline
    <2>7. SteadyInv'
      BY <1>2, <2>1, <2>2, <2>3, <2>4, <2>5, <2>6 DEF SteadyInv
    <2>8. HasBaseline(Book)' = HasBaseline(Book) /\ meter'.level = meter.level
      BY <2>1, <2>2 DEF HasBaseline
    <2> QED
      BY <2>2, <2>3, <2>7, <2>8, BillStays
  <1> QED
    BY <1>3, <1>4, <1>5, <1>6 DEF SteadyMetering

(* Before the first setup nothing is owed.                                 *)
LEMMA InitBill ==
    ASSUME SteadyInit
    PROVE  SteadyInv /\ Ledger!Init
  <1>1. TypeOK /\ loaded = FALSE /\ last_states = None /\ in_flight = {}
    BY InitType DEF SteadyInit, Init
  <1>2. PICK r \in Readings : /\ meter = [number |-> 1, epoch |-> 1, level |-> r,
                                          replaced |-> {}]
                              /\ energy_state \in {r} \cup (Nonsense \cap {Unavailable})
    BY DEF SteadyInit, Init
  <1>3. energy_state = r /\ r \in Nat /\ meter.level = r /\ meter.epoch = 1
    BY <1>2, SensorAssumption DEF SteadyInit
  <1>4. Reading = r
    BY <1>3, SensorAssumption DEF Reading
  <1>5. Book = InitialState /\ Accounted = NothingSettled
    BY <1>1 DEF Book, Accounted, RestoredAccrual, RestoredSettled
  <1>6. /\ Book.cost = 0 /\ Book.price = None /\ Book.last_energy = None
        /\ ~ HasBaseline(Book) /\ Accounted.epoch = 0
    BY <1>5 DEF InitialState, NothingSettled, HasBaseline
  <1>7. Owed = 0
    BY <1>6 DEF Owed
  <1>8. NearLevel /\ Kept
    BY <1>1, <1>3, <1>4 DEF NearLevel, Kept
  <1>9. Books(Book, Accounted)
    BY <1>3, <1>4, <1>6 DEF Books
  <1>10. SteadyInv
    BY <1>1, <1>3, <1>4, <1>6, <1>7, <1>8, <1>9 DEF SteadyInv
  <1>11. Ledger!Init
    BY <1>1, <1>3, <1>6, <1>7 DEF Ledger!Init, Charged, Waiting, HasBaseline, TypeOK
  <1> QED
    BY <1>10, <1>11

LEMMA BillStep ==
    ASSUME Dips # "compound"
    PROVE  SteadyInv /\ [SteadyNext]_vars => SteadyInv' /\ [Ledger!Next]_(Ledger!vars)
  <1> SUFFICES ASSUME SteadyInv, [SteadyNext]_vars
               PROVE  SteadyInv' /\ [Ledger!Next]_(Ledger!vars)
    OBVIOUS
  <1>1. price_state \in Prices \cup {None}
    BY DEF SteadyInv, TypeOK
  <1>2. CASE Handle
    <2>1. loaded
      BY <1>2 DEF Handle, HandleEnergy, HandlePrice, SteadyInv, Kept
    <2> QED
      BY <1>1, <1>2, <2>1, EnergyEventBill, PriceEventBill DEF Handle, Ledger!Next
  <1>3. CASE ServiceAtLevel
    BY <1>3, ServiceBill
  <1>4. CASE Setup
    BY <1>1, <1>4, SetupBill DEF Ledger!Next
  <1>5. CASE Unload
    BY <1>5, UnloadBill
  <1>6. CASE SteadyMetering
    BY <1>6, MeteringBill
  <1>7. CASE UNCHANGED vars
    <2>1. TypeOK'
      BY <1>7, TypeStep DEF SteadyInv
    <2>2. Book' = Book /\ Accounted' = Accounted /\ Reading' = Reading
      BY <1>7 DEF vars, sensorVars, storeVars, worldVars, Book, Accounted, RestoredAccrual,
                  RestoredSettled, SameMeter, Reading
    <2>3. Owed' = Owed
      BY <1>7, <2>2 DEF vars, worldVars, Owed, HasBaseline
    <2>4. SteadyInv'
      BY <1>7, <2>1, <2>2, <2>3, StillNear
         DEF vars, sensorVars, storeVars, worldVars, SteadyInv, Kept, SameMeter, Books,
             Current, Restarted, OwedBy, HasBaseline
    <2>5. HasBaseline(Book)' = HasBaseline(Book) /\ meter'.level = meter.level
      BY <1>7, <2>2 DEF vars, worldVars, HasBaseline
    <2> QED
      BY <2>2, <2>3, <2>4, <2>5, BillStays
  <1> QED
    BY <1>2, <1>3, <1>4, <1>5, <1>6, <1>7 DEF SteadyNext

(* The sensor's bill moves by what its meter moves and by nothing else,    *)
(* for any readings, prices and calibrations and over any number of        *)
(* restarts of the meter and reloads of the entry, however events nest: a  *)
(* kWh is charged once, at the price the sensor has in force when it is    *)
(* reported or at the price that ends the gap, and none is dropped but     *)
(* what waits in a gap when the meter restarts.  (That the price in force  *)
(* is the source's is InStepCorrect.)  It holds in the cases SteadySpec    *)
(* leaves: a usable reading always, no kill, one meter, restarts by more   *)
(* than 10 % while the sensor is loaded, dips that do not compound and     *)
(* come only with a price, services called at the meter's level.           *)
THEOREM SensorImplementsLedger ==
    ASSUME Dips # "compound"
    PROVE  SteadySpec => ImplementsLedger
  BY InitBill, BillStep, PTL DEF SteadySpec, ImplementsLedger, Ledger!Spec
=============================================================================
