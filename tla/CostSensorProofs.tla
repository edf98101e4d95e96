--------------------------- MODULE CostSensorProofs ---------------------------
(***************************************************************************)
(* Theorems about CostSensor, for every value of its constants.            *)
(***************************************************************************)
EXTENDS CostSensor, TLAPS

(* What a source's state can parse to. *)
Parsed == Nat \cup {None, -1}
PriceType == Int \cup {None}

-----------------------------------------------------------------------------
(* The operators of Accrual on well-typed arguments.                       *)

(* A state is the record of its fields. *)
LEMMA RecordForm ==
    ASSUME NEW s \in AccrualState
    PROVE  s = [cost |-> s.cost, last_energy |-> s.last_energy,
                last_reading |-> s.last_reading, price |-> s.price]
  BY DEF AccrualState

(* What is charged is an amount of energy, and only above a baseline. *)
LEMMA ChargedType ==
    ASSUME NEW s \in AccrualState, NEW r \in Nat
    PROVE  /\ ChargedEnergy(s, r) \in Nat
           /\ ChargedEnergy(s, r) # 0 => HasBaseline(s)
  BY DEF ChargedEnergy, HasBaseline, AccrualState

(* A settlement with a reading leaves a baseline, which is the old one or  *)
(* the reading.                                                            *)
LEMMA SettleType ==
    ASSUME NEW s \in AccrualState, NEW r \in Nat, NEW p \in Int
    PROVE  /\ Settle(s, r, p) \in AccrualState
           /\ HasBaseline(Settle(s, r, p))
           /\ Settle(s, r, p).price = s.price
  <1> DEFINE k == ChargedEnergy(s, r)
  <1>1. k \in Nat
    BY ChargedType
  <1>2. s.cost + k * p \in Int
    BY <1>1 DEF AccrualState
  <1> HIDE DEF k
  <1>3. Settle(s, r, p) = [s EXCEPT !.cost = s.cost + k * p,
                       !.last_energy = IF Rebaselines(s, r) THEN r ELSE s.last_energy,
                       !.last_reading = r]
    BY DEF Settle, k
  <1>4. (IF Rebaselines(s, r) THEN r ELSE s.last_energy) \in Nat
    BY DEF Rebaselines, HasBaseline, AccrualState
  <1>5. r # None
    BY NoneAssumption
  <1>6. Settle(s, r, p) = [cost |-> s.cost + k * p,
             last_energy |-> IF Rebaselines(s, r) THEN r ELSE s.last_energy,
             last_reading |-> r, price |-> s.price]
    BY <1>3, RecordForm
  <1> QED
    BY <1>2, <1>4, <1>5, <1>6, NoneAssumption DEF AccrualState, HasBaseline

(* A reading tracked in a gap keeps the state well typed and its baseline. *)
LEMMA TrackGapEnergyType ==
    ASSUME NEW s \in AccrualState, HasBaseline(s), NEW r \in Nat
    PROVE  /\ TrackGapEnergy(s, r) \in AccrualState
           /\ HasBaseline(TrackGapEnergy(s, r))
           /\ TrackGapEnergy(s, r).price = s.price
  <1> DEFINE e == IF Classify(s.last_reading, r) = "RESET" THEN 0 ELSE s.last_energy
  <1>1. TrackGapEnergy(s, r) = [cost |-> s.cost, last_energy |-> e,
                                last_reading |-> r, price |-> s.price]
    <2>1. TrackGapEnergy(s, r) = [s EXCEPT !.last_energy = e, !.last_reading = r]
      BY DEF TrackGapEnergy
    <2> HIDE DEF e
    <2> QED
      BY <2>1, RecordForm
  <1>2. e \in Nat /\ r # None
    BY NoneAssumption DEF HasBaseline, AccrualState
  <1> HIDE DEF e
  <1> QED
    BY <1>1, <1>2, NoneAssumption DEF AccrualState, HasBaseline

(* A usable reading leaves a baseline; an unusable one changes nothing. *)
LEMMA ApplyEnergyType ==
    ASSUME NEW s \in AccrualState, NEW r \in Nat \cup {-1}
    PROVE  /\ ApplyEnergy(s, r) \in AccrualState
           /\ ApplyEnergy(s, r).price = s.price
           /\ r \in Nat => HasBaseline(ApplyEnergy(s, r))
           /\ r \notin Nat => ApplyEnergy(s, r) = s
  <1>1. CASE r = -1
    BY <1>1 DEF ApplyEnergy
  <1>2. CASE r \in Nat /\ ~ HasBaseline(s)
    <2>1. ApplyEnergy(s, r) = [cost |-> s.cost, last_energy |-> r,
                               last_reading |-> r, price |-> s.price]
      <3>1. ApplyEnergy(s, r) = [s EXCEPT !.last_energy = r, !.last_reading = r]
        BY <1>2 DEF ApplyEnergy
      <3> QED
        BY <3>1, RecordForm
    <2> QED
      BY <1>2, <2>1, NoneAssumption DEF AccrualState, HasBaseline
  <1>3. CASE r \in Nat /\ HasBaseline(s) /\ s.price = None
    BY <1>3, TrackGapEnergyType DEF ApplyEnergy
  <1>4. CASE r \in Nat /\ HasBaseline(s) /\ s.price # None
    <2>1. s.price \in Int
      BY <1>4 DEF AccrualState
    <2> QED
      BY <1>4, <2>1, SettleType DEF ApplyEnergy
  <1> QED
    BY <1>1, <1>2, <1>3, <1>4

(* ApplyPrice is a settlement, a tracked reading or nothing, and then the  *)
(* new price.                                                              *)
LEMMA ApplyPriceCases ==
    ASSUME NEW s \in AccrualState, NEW p \in PriceType, NEW r \in Parsed
    PROVE  LET n == ApplyPrice(s, p, r)
           IN  \/ r \notin Nat /\ n = [s EXCEPT !.price = p]
               \/ r \in Nat /\ s.price = None /\ p = None /\ n = ApplyEnergy(s, r)
               \/ r \in Nat /\ s.price = None /\ p # None
                  /\ n = [Settle(s, r, p) EXCEPT !.price = p]
               \/ r \in Nat /\ s.price # None
                  /\ n = [Settle(s, r, s.price) EXCEPT !.price = p]
  <1>1. Usable(r) = IF r \in Nat THEN r ELSE None
    BY NoneAssumption DEF Usable, Parsed
  <1>2. r \in Nat => r # None
    BY NoneAssumption
  <1>3. [s EXCEPT !.price = s.price] = s
    BY DEF AccrualState
  <1> QED
    BY <1>1, <1>2, <1>3 DEF ApplyPrice, EndGap

(* A price change keeps the state well typed, and a baseline once there. *)
LEMMA ApplyPriceType ==
    ASSUME NEW s \in AccrualState, NEW p \in PriceType, NEW r \in Parsed
    PROVE  /\ ApplyPrice(s, p, r) \in AccrualState
           /\ ApplyPrice(s, p, r).price = p
           /\ r \in Nat => HasBaseline(ApplyPrice(s, p, r))
           /\ r \notin Nat => ApplyPrice(s, p, r) = [s EXCEPT !.price = p]
  <1>1. ASSUME NEW t \in AccrualState
        PROVE  /\ [t EXCEPT !.price = p] \in AccrualState
               /\ [t EXCEPT !.price = p].price = p
               /\ HasBaseline(t) => HasBaseline([t EXCEPT !.price = p])
    BY DEF AccrualState, HasBaseline, PriceType
  <1>2. s.price # None => s.price \in Int
    BY DEF AccrualState
  <1>3. p # None => p \in Int
    BY DEF PriceType
  <1>4. CASE r \notin Nat /\ ApplyPrice(s, p, r) = [s EXCEPT !.price = p]
    BY <1>1, <1>4
  <1>5. CASE r \in Nat /\ s.price = None /\ p = None
             /\ ApplyPrice(s, p, r) = ApplyEnergy(s, r)
    BY <1>5, ApplyEnergyType
  <1>6. CASE r \in Nat /\ p # None
             /\ ApplyPrice(s, p, r) = [Settle(s, r, p) EXCEPT !.price = p]
    BY <1>1, <1>3, <1>6, SettleType
  <1>7. CASE r \in Nat /\ s.price # None
             /\ ApplyPrice(s, p, r) = [Settle(s, r, s.price) EXCEPT !.price = p]
    BY <1>1, <1>2, <1>7, SettleType
  <1> QED
    BY <1>4, <1>5, <1>6, <1>7, ApplyPriceCases

(* What a transition prices is an amount of energy. *)
LEMMA PricedType ==
    ASSUME NEW s \in AccrualState, NEW p \in PriceType, NEW r \in Parsed
    PROVE  Priced(s, p, r) \in Nat /\ (r \notin Nat => Priced(s, p, r) = 0)
  <1>1. Usable(r) # None <=> r \in Nat
    BY NoneAssumption DEF Usable, Parsed
  <1> QED
    BY <1>1, ChargedType DEF Priced

-----------------------------------------------------------------------------
(* Types of the sensor.                                                    *)

LEMMA ReadingType ==
    ASSUME TypeOK
    PROVE  Reading \in Parsed
  <1>1. energy_state \in Readings \cup Nonsense \cup {Unavailable}
    BY DEF TypeOK
  <1> QED
    BY <1>1, SensorAssumption DEF Reading, Parsed

(* The price in force is None or an integer. *)
LEMMA PriceStateType ==
    ASSUME TypeOK
    PROVE  price_state \in PriceType
  BY SensorAssumption DEF TypeOK, PriceType

(* What SettledBy asks of a transition: a charge, or a moved baseline,     *)
(* leaves a baseline.                                                      *)
LEMMA SettledByType ==
    ASSUME TypeOK, NEW before, NEW after, NEW k \in Nat,
           NEW old \in [epoch: Nat, kwh: Nat],
           \/ k = 0 /\ after.last_energy = before.last_energy
           \/ after.last_energy \in Nat
    PROVE  SettledBy(before, after, k, old) \in [epoch: Nat, kwh: Nat]
  <1>1. meter.epoch \in Nat
    BY DEF TypeOK
  <1>2. CASE k = 0 /\ after.last_energy = before.last_energy
    BY <1>2 DEF SettledBy
  <1>3. CASE after.last_energy \in Nat
    BY <1>1, <1>3 DEF SettledBy
  <1> QED
    BY <1>2, <1>3

(* Adopting a transition keeps the history well typed. *)
LEMMA TransitionType ==
    ASSUME TypeOK, NEW next \in AccrualState, NEW k \in Nat,
           HasBaseline(next) \/ (k = 0 /\ next.last_energy = accrual.last_energy),
           Transition(next, k)
    PROVE  /\ accrual' \in AccrualState
           /\ settled' \in [epoch: Nat, kwh: Nat]
           /\ base_meter' \in Nat
  <1>1. HasBaseline(next) => next.last_energy \in Nat
    BY DEF HasBaseline, AccrualState
  <1>2. settled \in [epoch: Nat, kwh: Nat] /\ base_meter \in Nat /\ meter.number \in Nat
    BY DEF TypeOK
  <1>3. SettledBy(accrual, next, k, settled) \in [epoch: Nat, kwh: Nat]
    BY <1>1, <1>2, SettledByType
  <1> QED
    BY <1>2, <1>3 DEF Transition

(* What is restored, in each leg of the chain, is well typed. *)
LEMMA RestoredType ==
    ASSUME TypeOK
    PROVE  /\ RestoredAccrual \in AccrualState
           /\ RestoredSettled \in [epoch: Nat, kwh: Nat]
           /\ HasBaseline(RestoredAccrual) => last_states.base_meter \in Nat
  <1>1. InitialState \in AccrualState /\ ~ HasBaseline(InitialState)
    BY DEF InitialState, AccrualState, HasBaseline
  <1>2. CASE last_states = None
    BY <1>1, <1>2 DEF RestoredAccrual, RestoredSettled, NothingSettled
  <1>3. CASE last_states \in StoredState
    <2> DEFINE extra == last_states.extra
               baseline == IF SameMeter(extra) THEN extra.last_energy ELSE None
    <2>1. extra # None => extra \in ExtraData
      BY <1>3 DEF StoredState
    <2>2. last_states # None
      BY <1>3, SensorAssumption
    <2>3. last_states.settled \in [epoch: Nat, kwh: Nat] /\ last_states.base_meter \in Nat
          /\ last_states.state \in Int \cup {None}
      BY <1>3 DEF StoredState
    <2>4. CASE extra # None
      <3>1. RestoredAccrual = [cost |-> extra.cost, last_energy |-> baseline,
                               last_reading |-> baseline, price |-> None]
        BY <2>2, <2>4 DEF RestoredAccrual
      <3>2. extra.cost \in Int /\ baseline \in Nat \cup {None}
        BY <2>1, <2>4 DEF ExtraData
      <3> QED
        BY <2>2, <2>3, <2>4, <3>1, <3>2 DEF RestoredSettled, AccrualState
    <2>5. CASE extra = None
      <3>1. RestoredAccrual = IF last_states.state # None
                              THEN [InitialState EXCEPT !.cost = last_states.state]
                              ELSE InitialState
        BY <2>2, <2>5 DEF RestoredAccrual
      <3> QED
        BY <2>2, <2>3, <2>5, <3>1
           DEF RestoredSettled, NothingSettled, InitialState, AccrualState
    <2> QED
      BY <2>4, <2>5
  <1> QED
    BY <1>2, <1>3 DEF TypeOK

(* What a loaded sensor stores is well typed. *)
LEMMA StoredType ==
    ASSUME TypeOK, loaded
    PROVE  Stored \in StoredState
  <1>1. /\ accrual \in AccrualState /\ available \in BOOLEAN
        /\ bound.id \in Ids /\ bound.uuid \in Uuids \cup {None}
        /\ settled \in [epoch: Nat, kwh: Nat] /\ base_meter \in Nat
    BY DEF TypeOK
  <1> QED
    BY <1>1 DEF Stored, StoredState, ExtraData, AccrualState

(* The types, in the groups the actions leave alone together. *)
SensorType ==
    /\ accrual \in AccrualState
    /\ loaded \in BOOLEAN /\ available \in BOOLEAN
    /\ bound \in IF loaded THEN [id: Ids, uuid: Uuids \cup {None}] ELSE {Unbound}
    /\ settled \in [epoch: Nat, kwh: Nat]
    /\ base_meter \in Nat
StoreType == last_states \in StoredState \cup {None} /\ disk \in StoredState \cup {None}
WorldType ==
    /\ energy_state \in Readings \cup Nonsense \cup {Unavailable}
    /\ price_state \in Prices \cup {None}
    /\ source \in [id: Ids, uuid: Uuids \cup {None}]
    /\ meter \in [number: Nat, epoch: Nat, level: Readings,
                 replaced: SUBSET (Uuids \cup Ids)]
FlightType == in_flight \in SUBSET {"energy", "price"}

(* The type invariant, in the parts that actions change together. *)
LEMMA TypeParts == TypeOK <=> SensorType /\ StoreType /\ WorldType /\ FlightType
  BY DEF TypeOK, SensorType, StoreType, WorldType, FlightType

(* A new entity's state is well typed. *)
LEMMA NewType ==
    /\ InitialState \in AccrualState /\ ~ HasBaseline(InitialState)
    /\ NothingSettled \in [epoch: Nat, kwh: Nat]
  BY DEF InitialState, AccrualState, HasBaseline, NothingSettled

(* Before the first setup every variable has its type. *)
LEMMA InitType == Init => TypeOK
  <1> SUFFICES ASSUME Init PROVE TypeOK
    OBVIOUS
  <1>1. SensorType
    BY NewType DEF Init, SensorType
  <1>2. StoreType /\ FlightType
    BY DEF Init, StoreType, FlightType
  <1>3. WorldType
    BY SensorAssumption DEF Init, WorldType, Source
  <1> QED
    BY <1>1, <1>2, <1>3, TypeParts

(* A removed entity's state is well typed. *)
LEMMA GoneType ==
    ASSUME Gone
    PROVE  SensorType' /\ FlightType'
  <1>1. accrual' \in AccrualState /\ settled' \in [epoch: Nat, kwh: Nat]
    BY NewType DEF Gone
  <1>2. bound' \in IF loaded' THEN [id: Ids, uuid: Uuids \cup {None}] ELSE {Unbound}
    BY DEF Gone
  <1>3. loaded' \in BOOLEAN /\ available' \in BOOLEAN /\ base_meter' \in Nat
    BY DEF Gone
  <1> QED
    BY <1>1, <1>2, <1>3 DEF SensorType, FlightType, Gone

(* A write of the energy source keeps the types. *)
LEMMA EnergyWriteType ==
    ASSUME TypeOK, NEW state \in Readings \cup Nonsense \cup {Unavailable},
           NEW l \in Readings, NEW e \in Nat, EnergyWrite(state, l, e)
    PROVE  TypeOK'
  <1>1. SensorType' /\ StoreType'
    BY DEF EnergyWrite, TypeOK, SensorType, StoreType, sensorVars, storeVars
  <1>2. WorldType' /\ FlightType'
    BY DEF EnergyWrite, TypeOK, WorldType, FlightType
  <1> QED
    BY <1>1, <1>2, TypeParts DEF TypeOK, SensorType, StoreType, WorldType, FlightType

(* So does another meter behind the source. *)
LEMMA InstallType ==
    ASSUME TypeOK, NEW src \in [id: Ids, uuid: Uuids \cup {None}], NEW r \in Readings,
           Install(src, r)
    PROVE  TypeOK'
  <1>1. SensorType' /\ StoreType'
    BY DEF Install, TypeOK, SensorType, StoreType, sensorVars, storeVars
  <1>2. Identity(source) \in Uuids \cup Ids
    BY DEF Identity, TypeOK
  <1>3. WorldType' /\ FlightType'
    BY <1>2 DEF Install, TypeOK, WorldType, FlightType
  <1> QED
    BY <1>1, <1>3 DEF TypeOK, SensorType, StoreType, WorldType, FlightType

(* Setup restores, reads and subscribes: the types hold after it. *)
LEMMA SetupType == TypeOK /\ Setup => TypeOK'
  <1> SUFFICES ASSUME TypeOK, Setup PROVE TypeOK'
    OBVIOUS
  <1> DEFINE restored == RestoredAccrual
             next == ApplyPrice(restored, price_state, Reading)
             k == Priced(restored, price_state, Reading)
  <1>1. restored \in AccrualState /\ RestoredSettled \in [epoch: Nat, kwh: Nat]
    BY RestoredType
  <1>2. next \in AccrualState /\ k \in Nat
    BY <1>1, ReadingType, PriceStateType, ApplyPriceType, PricedType
  <1>3. (k = 0 /\ next.last_energy = restored.last_energy) \/ next.last_energy \in Nat
    <2>1. CASE Reading \in Nat
      BY <1>1, <1>2, <2>1, ReadingType, PriceStateType, ApplyPriceType
         DEF HasBaseline, AccrualState
    <2>2. CASE Reading \notin Nat
      BY <1>1, <2>2, ReadingType, PriceStateType, ApplyPriceType, PricedType
         DEF AccrualState
    <2> QED
      BY <2>1, <2>2
  <1>4. SettledBy(restored, next, k, RestoredSettled) \in [epoch: Nat, kwh: Nat]
    BY <1>1, <1>2, <1>3, SettledByType
  <1>5. base_meter' \in Nat
    BY RestoredType DEF Setup, TypeOK
  <1>6. SensorType'
    BY <1>2, <1>4, <1>5 DEF Setup, TypeOK, SensorType
  <1>7. StoreType' /\ WorldType' /\ FlightType'
    BY DEF Setup, TypeOK, StoreType, WorldType, FlightType, worldVars
  <1> QED
    BY <1>6, <1>7 DEF TypeOK, SensorType, StoreType, WorldType, FlightType

(* The two event handlers keep the types. *)
LEMMA HandleType == TypeOK /\ Handle => TypeOK'
  <1> SUFFICES ASSUME TypeOK, Handle PROVE TypeOK'
    OBVIOUS
  <1>1. /\ accrual \in AccrualState /\ accrual.price \in PriceType
        /\ Reading \in Parsed /\ price_state \in PriceType
    BY ReadingType, PriceStateType DEF TypeOK, AccrualState, PriceType
  <1>2. StoreType' /\ WorldType' /\ FlightType' /\ UNCHANGED <<loaded, bound>>
        /\ available' \in BOOLEAN
    BY DEF Handle, HandleEnergy, HandlePrice, TypeOK, StoreType, WorldType, FlightType,
           storeVars, worldVars
  <1>3. CASE HandleEnergy
    <2>1. CASE Reading = None
      BY <1>2, <1>3, <2>1 DEF HandleEnergy, TypeOK, StoreType, WorldType, FlightType
    <2>2. CASE Reading # None
      <3> DEFINE next == ApplyEnergy(accrual, Reading)
                 k == Priced(accrual, accrual.price, Reading)
      <3>1. Reading \in Nat \cup {-1}
        BY <1>1, <2>2 DEF Parsed
      <3>2. /\ next \in AccrualState /\ k \in Nat
            /\ HasBaseline(next) \/ (k = 0 /\ next.last_energy = accrual.last_energy)
        BY <1>1, <3>1, ApplyEnergyType, PricedType
      <3>3. Transition(next, k)
        BY <1>3, <2>2 DEF HandleEnergy
      <3> HIDE DEF next, k
      <3>4. accrual' \in AccrualState /\ settled' \in [epoch: Nat, kwh: Nat]
            /\ base_meter' \in Nat
        BY <3>2, <3>3, TransitionType
      <3> QED
        BY <1>2, <3>4 DEF TypeOK, StoreType, WorldType, FlightType
    <2> QED
      BY <2>1, <2>2
  <1>4. CASE HandlePrice
    <2> DEFINE next == ApplyPrice(accrual, price_state, Reading)
               k == Priced(accrual, price_state, Reading)
    <2>1. next \in AccrualState /\ k \in Nat
      BY <1>1, ApplyPriceType, PricedType
    <2>2. HasBaseline(next) \/ (k = 0 /\ next.last_energy = accrual.last_energy)
      <3>1. CASE Reading \in Nat
        BY <1>1, <3>1, ApplyPriceType
      <3>2. CASE Reading \notin Nat
        BY <1>1, <3>2, ApplyPriceType, PricedType DEF AccrualState
      <3> QED
        BY <3>1, <3>2
    <2>3. Transition(next, k)
      BY <1>4 DEF HandlePrice
    <2> HIDE DEF next, k
    <2>4. accrual' \in AccrualState /\ settled' \in [epoch: Nat, kwh: Nat]
          /\ base_meter' \in Nat
      BY <2>1, <2>2, <2>3, TransitionType
    <2> QED
      BY <1>2, <2>4 DEF TypeOK, StoreType, WorldType, FlightType
  <1> QED
    BY <1>3, <1>4 DEF Handle

(* The two calibrations keep the types. *)
LEMMA ServiceType == TypeOK /\ Service => TypeOK'
  <1> SUFFICES ASSUME TypeOK, Service PROVE TypeOK'
    OBVIOUS
  <1>1. ASSUME NEW value \in Int, NEW done \in Nat, Usable(Reading) # None,
               CalibrateTo(value, done)
        PROVE  TypeOK'
    <2>1. Reading \in Nat
      BY <1>1, ReadingType DEF Usable, Parsed
    <2>2. Calibrate(accrual, value, Reading) \in AccrualState
      BY <1>1, <2>1 DEF Calibrate, AccrualState, TypeOK
    <2>3. SensorType' /\ StoreType' /\ WorldType' /\ FlightType'
      BY <1>1, <2>2 DEF CalibrateTo, TypeOK, SensorType, StoreType, WorldType, FlightType,
                        storeVars, worldVars
    <2> QED
      BY <2>3 DEF TypeOK, SensorType, StoreType, WorldType, FlightType
  <1>2. ASSUME Usable(Reading) # None PROVE Reading \in Nat
    BY <1>2, ReadingType DEF Usable, Parsed
  <1>3. ASSUME NEW v \in Values, AsyncCalibrate(v) PROVE TypeOK'
    BY <1>1, <1>2, <1>3, SensorAssumption DEF AsyncCalibrate
  <1>4. ASSUME NEW v \in Values, NEW end \in Readings, NEW e \in BOOLEAN,
               AsyncCalibrateFromImport(v, end, e)
        PROVE  TypeOK'
    <2>1. Reading \in Nat /\ end \in Nat /\ v \in Int
      BY <1>2, <1>4, SensorAssumption DEF AsyncCalibrateFromImport
    <2>2. accrual.price \in Int
      BY <1>4 DEF AsyncCalibrateFromImport, TypeOK, AccrualState
    <2>3. CutoverValue(v, end, Reading, accrual.price) \in Int
      BY <1>4, <2>1, <2>2 DEF AsyncCalibrateFromImport, CutoverValue
    <2> QED
      BY <1>1, <1>4, <2>1, <2>3 DEF AsyncCalibrateFromImport
  <1> QED
    BY <1>3, <1>4 DEF Service

(* Setup, unload, dump, restart and corruption keep the types. *)
LEMMA LifeType == TypeOK /\ Life => TypeOK'
  <1> SUFFICES ASSUME TypeOK, Life PROVE TypeOK'
    OBVIOUS
  <1>1. CASE Setup
    BY <1>1, SetupType
  <1>2. CASE Unload
    <2>1. StoreType' /\ WorldType'
      BY <1>2, StoredType DEF Unload, TypeOK, StoreType, WorldType, worldVars
    <2> QED
      BY <1>2, <2>1, GoneType DEF Unload, TypeOK, SensorType, StoreType, WorldType, FlightType
  <1>3. CASE Dump
    <2>1. StoreType'
      BY <1>3, StoredType DEF Dump, TypeOK, StoreType
    <2>2. SensorType' /\ WorldType' /\ FlightType'
      BY <1>3 DEF Dump, TypeOK, SensorType, WorldType, FlightType, sensorVars, worldVars
    <2> QED
      BY <2>1, <2>2 DEF TypeOK, SensorType, StoreType, WorldType, FlightType
  <1>4. CASE Restart
    <2>1. StoreType' /\ WorldType'
      BY <1>4 DEF Restart, TypeOK, StoreType, WorldType, worldVars
    <2> QED
      BY <1>4, <2>1, GoneType DEF Restart, TypeOK, SensorType, StoreType, WorldType, FlightType
  <1>5. CASE Corrupt
    <2>1. last_states' \in StoredState
      BY <1>5 DEF Corrupt, TypeOK, StoredState
    <2>2. SensorType' /\ StoreType' /\ WorldType' /\ FlightType'
      BY <1>5, <2>1 DEF Corrupt, TypeOK, SensorType, StoreType, WorldType, FlightType,
                        sensorVars, worldVars
    <2> QED
      BY <2>2 DEF TypeOK, SensorType, StoreType, WorldType, FlightType
  <1> QED
    BY <1>1, <1>2, <1>3, <1>4, <1>5 DEF Life

(* What the meters and the price source do keeps the types. *)
LEMMA MeteringType == TypeOK /\ Metering => TypeOK'
  <1> SUFFICES ASSUME TypeOK, Metering PROVE TypeOK'
    OBVIOUS
  <1>1. meter.level \in Readings /\ meter.epoch \in Nat
    BY DEF TypeOK
  <1>2. CASE \E r \in Readings : Advance(r) \/ Reset(r) \/ Dip(r)
    BY <1>1, <1>2, EnergyWriteType DEF Advance, Reset, Dip
  <1>3. CASE \E state \in Nonsense : Garble(state)
    BY <1>1, <1>3, EnergyWriteType DEF Garble
  <1>4. CASE \E p \in Prices \cup {None} : PriceWrite(p)
    <2>1. SensorType' /\ StoreType' /\ WorldType' /\ FlightType'
      BY <1>4 DEF PriceWrite, TypeOK, SensorType, StoreType, WorldType, FlightType,
                  sensorVars, storeVars
    <2> QED
      BY <2>1 DEF TypeOK, SensorType, StoreType, WorldType, FlightType
  <1> QED
    BY <1>2, <1>3, <1>4 DEF Metering

(* Renames and replacements keep the types. *)
LEMMA RewiringType == TypeOK /\ Rewiring => TypeOK'
  <1> SUFFICES ASSUME TypeOK, Rewiring PROVE TypeOK'
    OBVIOUS
  <1>1. source \in [id: Ids, uuid: Uuids \cup {None}]
    BY DEF TypeOK
  <1>2. ASSUME NEW id \in Ids, Rename(id) PROVE TypeOK'
    <2>1. source' \in [id: Ids, uuid: Uuids \cup {None}]
      BY <1>1, <1>2 DEF Rename
    <2>2. SensorType' /\ StoreType' /\ WorldType' /\ FlightType'
      BY <1>2, <2>1 DEF Rename, TypeOK, SensorType, StoreType, WorldType, FlightType,
                        sensorVars, storeVars
    <2> QED
      BY <2>2 DEF TypeOK, SensorType, StoreType, WorldType, FlightType
  <1>3. ASSUME NEW src \in Source, NEW r \in Readings, Replace(src, r) PROVE TypeOK'
    <2>1. src \in [id: Ids, uuid: Uuids \cup {None}]
      BY SensorAssumption DEF Source
    <2> QED
      BY <1>3, <2>1, InstallType DEF Replace
  <1>4. CASE RegistryRemove
    <2>1. SensorType' /\ FlightType'
      BY <1>4, GoneType DEF RegistryRemove
    <2>2. StoreType'
      BY <1>4, StoredType DEF RegistryRemove, TypeOK, StoreType
    <2>3. WorldType'
      BY <1>1, <1>4 DEF RegistryRemove, TypeOK, WorldType
    <2> QED
      BY <2>1, <2>2, <2>3 DEF TypeOK, SensorType, StoreType, WorldType, FlightType
  <1>5. ASSUME NEW uuid \in Uuids, NEW r \in Readings, RegistryCreate(uuid, r)
        PROVE  TypeOK'
    <2>1. [id |-> source.id, uuid |-> uuid] \in [id: Ids, uuid: Uuids \cup {None}]
      BY <1>1
    <2> QED
      BY <1>5, <2>1, InstallType DEF RegistryCreate
  <1> QED
    BY <1>2, <1>3, <1>4, <1>5 DEF Rewiring

(* Every step keeps the types. *)
LEMMA TypeStep == TypeOK /\ [Next]_vars => TypeOK'
  <1>1. TypeOK /\ UNCHANGED vars => TypeOK'
    BY DEF TypeOK, vars, sensorVars, storeVars, worldVars
  <1> QED
    BY <1>1, HandleType, ServiceType, LifeType, MeteringType, RewiringType DEF Next

(* Every variable of CostSensor has its type, whatever the readings, the    *)
(* prices, the sources and the faults.                                     *)
THEOREM TypeCorrect == Spec => []TypeOK
  BY InitType, TypeStep, PTL DEF Spec
-----------------------------------------------------------------------------
(* No energy is charged twice.                                             *)
(*                                                                         *)
(* The property is not inductive: that a charge fits under the level       *)
(* follows from the baseline being at least what is already priced, which  *)
(* a dip must not lower, which holds after a restart because what is       *)
(* stored is no older a baseline than the cost beside it, and is found     *)
(* again because the stored source identity still matches.                 *)

(* The faults under which the code gives the property up (see the runs     *)
(* SensorCompoundDips and the README) are absent.                          *)
Undisturbed == Dips # "compound" /\ ~ Corruption /\ ~ ReplaceInPlace

(* A usable reading is the meter's level, or a dip below it. *)
NearLevel ==
    Reading \in Nat => Reading <= meter.level /\ 10 * Reading >= 9 * meter.level

(* What this epoch's cost accounts for does not exceed the baseline.       *)
Sound(s, h) ==
    /\ h.epoch <= meter.epoch
    /\ h.epoch = meter.epoch =>
          /\ s.last_energy \in Nat /\ s.last_reading \in Nat
          /\ h.kwh <= s.last_energy
          /\ s.last_energy <= meter.level /\ s.last_reading <= meter.level

StoredSound(x) ==
    x # None =>
        /\ x.extra # None
        /\ x.settled.epoch <= meter.epoch
        /\ x.settled.epoch = meter.epoch =>
              /\ x.extra.last_energy \in Nat
              /\ x.settled.kwh <= x.extra.last_energy
              /\ x.extra.last_energy <= meter.level
              /\ x.extra.source_entity_uuid = source.uuid
              /\ source.uuid = None => x.extra.energy_sensor = source.id

ChargeInv ==
    /\ TypeOK
    /\ meter.epoch > 0
    /\ NearLevel
    /\ Sound(accrual, settled)
    /\ loaded => bound = source
    /\ StoredSound(last_states)
    /\ StoredSound(disk)

(* The two ways a reading is taken. *)
Settles(s, n, r) ==
    /\ n.last_energy = IF Rebaselines(s, r) THEN r ELSE s.last_energy
    /\ n.last_reading = r

Tracks(s, n, r) ==
    /\ HasBaseline(s)
    /\ n.last_energy = IF Classify(s.last_reading, r) = "RESET" THEN 0 ELSE s.last_energy
    /\ n.last_reading = r

(* The settlements of accrual.py settle in the sense of Settles. *)
LEMMA SettleSettles ==
    ASSUME NEW s \in AccrualState, NEW r \in Nat, NEW p
    PROVE  Settles(s, Settle(s, r, p), r)
  <1> DEFINE e == IF Rebaselines(s, r) THEN r ELSE s.last_energy
             c == s.cost + ChargedEnergy(s, r) * p
  <1>1. Settle(s, r, p) = [s EXCEPT !.cost = c, !.last_energy = e, !.last_reading = r]
    BY DEF Settle
  <1>2. Settle(s, r, p).last_energy = e /\ Settle(s, r, p).last_reading = r
    <2> HIDE DEF e, c
    <2> QED
      BY <1>1, RecordForm
  <1> QED
    BY <1>2 DEF Settles

(* A reading near the level of this epoch is no reset within the epoch: a  *)
(* charge fits above the baseline, and no dip lowers it.                   *)
LEMMA SettlesSound ==
    ASSUME TypeOK, NEW s \in AccrualState, NEW h \in [epoch: Nat, kwh: Nat],
           Sound(s, h), NEW n \in AccrualState, NEW r \in Nat, Settles(s, n, r),
           r <= meter.level, 10 * r >= 9 * meter.level
    PROVE  Sound(n, SettledBy(s, n, ChargedEnergy(s, r), h))
  <1> DEFINE k == ChargedEnergy(s, r)
             new == SettledBy(s, n, k, h)
  <1>1. meter.level \in Nat /\ meter.epoch \in Nat
    BY SensorAssumption DEF TypeOK
  <1>2. k \in Nat
    BY ChargedType
  <1>3. /\ h.epoch = meter.epoch => HasBaseline(s)
        /\ HasBaseline(s) => s.last_energy \in Nat /\ s.last_reading \in Nat
    BY NoneAssumption DEF Sound, HasBaseline, AccrualState
  <1>4. CASE h.epoch = meter.epoch
    <2>1. /\ s.last_energy \in Nat /\ s.last_reading \in Nat /\ h.kwh \in Nat
          /\ h.kwh <= s.last_energy /\ s.last_energy <= meter.level
          /\ s.last_reading <= meter.level
      BY <1>4 DEF Sound
    <2>2. Classify(s.last_reading, r) # "RESET"
      BY <1>1, <2>1 DEF Classify
    <2>3. k = 0 \/ (k = r - s.last_energy /\ r > s.last_energy)
      BY <1>2, <2>1, <2>2 DEF ChargedEnergy
    <2>4. n.last_energy = IF k > 0 THEN r ELSE s.last_energy
      BY <1>3, <1>4, <2>2 DEF Settles, Rebaselines
    <2>5. n.last_reading = r
      BY DEF Settles
    <2>6. CASE k = 0
      <3>1. n.last_energy = s.last_energy
        BY <2>4, <2>6
      <3>2. new = h
        BY <2>6, <3>1 DEF SettledBy
      <3> QED
        BY <1>4, <2>1, <2>5, <3>1, <3>2 DEF Sound
    <2>7. CASE k > 0
      <3>1. n.last_energy = r /\ h.kwh + k <= r
        BY <1>2, <2>1, <2>3, <2>4, <2>7
      <3>2. new = [epoch |-> meter.epoch,
                   kwh |-> IF h.kwh + k > r THEN h.kwh + k ELSE r]
        BY <1>4, <2>7, <3>1 DEF SettledBy
      <3>3. new.epoch = meter.epoch /\ new.kwh = r
        BY <1>2, <2>1, <3>1, <3>2
      <3> QED
        BY <1>1, <2>5, <3>1, <3>3 DEF Sound
    <2> QED
      BY <1>2, <2>6, <2>7
  <1>5. CASE h.epoch # meter.epoch
    <2>1. CASE k = 0 /\ n.last_energy = s.last_energy
      BY <1>5, <2>1 DEF SettledBy, Sound
    <2>2. CASE ~ (k = 0 /\ n.last_energy = s.last_energy)
      <3>1. Rebaselines(s, r)
        BY <1>2, <2>2 DEF Settles, Rebaselines
      <3>2. n.last_energy = r /\ n.last_reading = r
        BY <3>1 DEF Settles
      <3>3. k <= r
        BY <1>3 DEF ChargedEnergy
      <3>4. new = [epoch |-> meter.epoch, kwh |-> IF 0 + k > r THEN 0 + k ELSE r]
        BY <1>5, <2>2, <3>2 DEF SettledBy
      <3>5. new.epoch = meter.epoch /\ new.kwh = r
        BY <1>2, <3>3, <3>4
      <3> QED
        BY <1>1, <3>2, <3>5 DEF Sound
    <2> QED
      BY <2>1, <2>2
  <1> QED
    BY <1>4, <1>5

(* A reading tracked in a gap settles nothing and stays sound. *)
LEMMA TracksSound ==
    ASSUME TypeOK, NEW s \in AccrualState, NEW h \in [epoch: Nat, kwh: Nat],
           Sound(s, h), NEW n \in AccrualState, NEW r \in Nat, Tracks(s, n, r),
           r <= meter.level, 10 * r >= 9 * meter.level
    PROVE  Sound(n, SettledBy(s, n, 0, h))
  <1> DEFINE new == SettledBy(s, n, 0, h)
  <1>1. meter.level \in Nat /\ meter.epoch \in Nat
    BY SensorAssumption DEF TypeOK
  <1>2. s.last_energy \in Nat /\ s.last_reading \in Nat
    BY DEF Tracks, HasBaseline, AccrualState
  <1>3. CASE n.last_energy = s.last_energy
    <2>1. new = h
      BY <1>3 DEF SettledBy
    <2> QED
      BY <1>1, <1>2, <1>3, <2>1 DEF Sound, Tracks
  <1>4. CASE n.last_energy # s.last_energy
    <2>1. Classify(s.last_reading, r) = "RESET" /\ n.last_energy = 0 /\ n.last_reading = r
      BY <1>4 DEF Tracks
    <2>2. h.epoch # meter.epoch
      BY <1>1, <1>2, <2>1 DEF Sound, Classify
    <2>3. new = [epoch |-> meter.epoch, kwh |-> 0]
      BY <1>4, <2>1, <2>2 DEF SettledBy
    <2> QED
      BY <1>1, <2>1, <2>3 DEF Sound
  <1> QED
    BY <1>3, <1>4

(* A transition that leaves the baseline alone and charges nothing. *)
LEMMA StillSound ==
    ASSUME NEW s, NEW h, Sound(s, h), NEW n,
           n.last_energy = s.last_energy, n.last_reading = s.last_reading
    PROVE  Sound(n, SettledBy(s, n, 0, h))
  BY DEF Sound, SettledBy

(* The price of a state plays no part. *)
LEMMA SoundPrice ==
    ASSUME NEW s, NEW h, NEW k, NEW n \in AccrualState, NEW p,
           Sound(n, SettledBy(s, n, k, h))
    PROVE  Sound([n EXCEPT !.price = p], SettledBy(s, [n EXCEPT !.price = p], k, h))
  <1>1. /\ [n EXCEPT !.price = p].last_energy = n.last_energy
        /\ [n EXCEPT !.price = p].last_reading = n.last_reading
    BY DEF AccrualState
  <1>2. SettledBy(s, [n EXCEPT !.price = p], k, h) = SettledBy(s, n, k, h)
    BY <1>1 DEF SettledBy
  <1> QED
    BY <1>1, <1>2 DEF Sound

(* An energy event leaves the accrual state sound. *)
LEMMA ApplyEnergySound ==
    ASSUME TypeOK, NearLevel, Reading # None,
           NEW s \in AccrualState, NEW h \in [epoch: Nat, kwh: Nat], Sound(s, h)
    PROVE  LET n == ApplyEnergy(s, Reading)
           IN  Sound(n, SettledBy(s, n, Priced(s, s.price, Reading), h))
  <1> DEFINE r == Reading
             n == ApplyEnergy(s, r)
             k == Priced(s, s.price, r)
  <1>1. r \in Nat \cup {-1}
    BY ReadingType DEF Parsed
  <1>2. n \in AccrualState
    BY <1>1, ApplyEnergyType
  <1>3. CASE r = -1
    <2>1. n = s
      BY <1>1, <1>3, ApplyEnergyType
    <2>2. k = 0
      BY <1>3 DEF Priced, Usable
    <2> QED
      BY <2>1, <2>2, StillSound
  <1>4. CASE r \in Nat
    <2>1. r <= meter.level /\ 10 * r >= 9 * meter.level
      BY <1>4 DEF NearLevel
    <2>2. Usable(r) # None
      BY <1>4, NoneAssumption DEF Usable
    <2>3. CASE ~ HasBaseline(s)
      <3>1. Settles(s, n, r)
        <4>1. n = [s EXCEPT !.last_energy = r, !.last_reading = r]
          BY <1>4, <2>3 DEF ApplyEnergy
        <4>2. n.last_energy = r /\ n.last_reading = r
          BY <4>1, RecordForm
        <4> QED
          BY <2>3, <4>2 DEF Settles, Rebaselines
      <3>2. k = ChargedEnergy(s, r)
        BY <2>3 DEF Priced, ChargedEnergy
      <3> QED
        BY <1>2, <1>4, <2>1, <3>1, <3>2, SettlesSound
    <2>4. CASE HasBaseline(s) /\ s.price = None
      <3>1. n = TrackGapEnergy(s, r) /\ k = 0
        BY <1>4, <2>4 DEF ApplyEnergy, Priced
      <3>2. Tracks(s, n, r)
        <4> DEFINE e == IF Classify(s.last_reading, r) = "RESET" THEN 0 ELSE s.last_energy
        <4>1. n = [s EXCEPT !.last_energy = e, !.last_reading = r]
          BY <3>1 DEF TrackGapEnergy
        <4>2. n.last_energy = e /\ n.last_reading = r
          <5> HIDE DEF e, n
          <5> QED
            BY <4>1, RecordForm
        <4> QED
          BY <2>4, <4>2 DEF Tracks
      <3> QED
        BY <1>2, <1>4, <2>1, <3>1, <3>2, TracksSound
    <2>5. CASE HasBaseline(s) /\ s.price # None
      <3>1. n = Settle(s, r, s.price) /\ k = ChargedEnergy(s, r)
        BY <1>4, <2>2, <2>5 DEF ApplyEnergy, Priced
      <3> QED
        BY <1>2, <1>4, <2>1, <3>1, SettleSettles, SettlesSound
    <2> QED
      BY <2>3, <2>4, <2>5
  <1> QED
    BY <1>1, <1>3, <1>4

(* A price event does too, with any reading and any price. *)
LEMMA ApplyPriceSound ==
    ASSUME TypeOK, NearLevel,
           NEW s \in AccrualState, NEW h \in [epoch: Nat, kwh: Nat], Sound(s, h)
    PROVE  LET n == ApplyPrice(s, price_state, Reading)
           IN  Sound(n, SettledBy(s, n, Priced(s, price_state, Reading), h))
  <1> DEFINE r == Reading
             p == price_state
             n == ApplyPrice(s, p, r)
             k == Priced(s, p, r)
  <1>1. r \in Parsed /\ p \in PriceType
    BY ReadingType, PriceStateType
  <1>2. (p # None => p \in Int) /\ (s.price # None => s.price \in Int)
    BY <1>1 DEF PriceType, AccrualState
  <1>3. r \in Nat => r <= meter.level /\ 10 * r >= 9 * meter.level /\ Usable(r) # None
    BY NoneAssumption DEF NearLevel, Usable
  <1>4. CASE r \notin Nat /\ n = [s EXCEPT !.price = p]
    <2>1. k = 0
      BY <1>1, <1>4, PricedType
    <2>2. n.last_energy = s.last_energy /\ n.last_reading = s.last_reading
      BY <1>4 DEF AccrualState
    <2> QED
      BY <2>1, <2>2, StillSound
  <1>5. CASE r \in Nat /\ s.price = None /\ p = None /\ n = ApplyEnergy(s, r)
    <2>1. k = Priced(s, s.price, r) /\ r # None
      BY <1>5, NoneAssumption
    <2> QED
      BY <1>5, <2>1, ApplyEnergySound
  <1>6. ASSUME NEW q \in Int, r \in Nat, s.price # None \/ p # None,
               n = [Settle(s, r, q) EXCEPT !.price = p]
        PROVE  Sound(n, SettledBy(s, n, k, h))
    <2>1. k = ChargedEnergy(s, r)
      BY <1>3, <1>6 DEF Priced
    <2>2. Settle(s, r, q) \in AccrualState /\ Settles(s, Settle(s, r, q), r)
      BY <1>6, SettleType, SettleSettles
    <2>3. Sound(Settle(s, r, q), SettledBy(s, Settle(s, r, q), k, h))
      BY <1>3, <1>6, <2>1, <2>2, SettlesSound
    <2> QED
      BY <1>6, <2>2, <2>3, SoundPrice
  <1> QED
    BY <1>1, <1>2, <1>4, <1>5, <1>6, ApplyPriceCases

-----------------------------------------------------------------------------
(* ChargeInv is inductive.                                                 *)

(* What the world may do to the books: let the level rise, or start an epoch *)
Grows ==
    /\ meter'.epoch \in Nat /\ meter'.level \in Nat
    /\ \/ meter'.epoch > meter.epoch
       \/ /\ meter'.epoch = meter.epoch /\ meter'.level >= meter.level
          /\ source'.uuid = source.uuid
          /\ source.uuid = None => source'.id = source.id

(* A meter that advances, or starts a new epoch, leaves it sound. *)
LEMMA GrowsSound ==
    ASSUME TypeOK, Grows, Sound(accrual, settled), UNCHANGED <<accrual, settled>>
    PROVE  Sound(accrual, settled)'
  <1>1. meter.epoch \in Nat /\ meter.level \in Nat /\ settled.epoch \in Nat
        /\ settled.kwh \in Nat
    BY SensorAssumption DEF TypeOK
  <1> QED
    BY <1>1 DEF Grows, Sound

(* And it leaves what is stored sound. *)
LEMMA GrowsStored ==
    ASSUME TypeOK, Grows, NEW x \in StoredState \cup {None}, StoredSound(x)
    PROVE  StoredSound(x)'
  <1>1. meter.epoch \in Nat /\ meter.level \in Nat
    BY SensorAssumption DEF TypeOK
  <1>2. x # None => x.settled.epoch \in Nat /\ x.settled.kwh \in Nat
    BY DEF StoredState
  <1> QED
    BY <1>1, <1>2 DEF Grows, StoredSound

(* A removed entity accounts for nothing. *)
LEMMA GoneSound ==
    ASSUME Gone, meter'.epoch \in Nat \ {0}
    PROVE  Sound(accrual, settled)' /\ (loaded => bound = source)'
  BY DEF Gone, Sound, NothingSettled

(* What a sound sensor stores is sound. *)
LEMMA StoredIsSound ==
    ASSUME ChargeInv, loaded
    PROVE  StoredSound(Stored)
  <1>1. Stored.extra \in ExtraData /\ Stored.extra # None
    BY StoredType, SensorAssumption DEF Stored, StoredState, ExtraData, TypeOK, ChargeInv,
       AccrualState
  <1> QED
    BY <1>1 DEF ChargeInv, Stored, StoredSound, Sound

(* What is restored is as sound as what was stored: the baseline of the    *)
(* current epoch is found again by the source's identity.                  *)
LEMMA RestoredSound ==
    ASSUME ChargeInv
    PROVE  Sound(RestoredAccrual, RestoredSettled)
  <1>1. meter.epoch \in Nat \ {0} /\ last_states \in StoredState \cup {None}
    BY DEF ChargeInv, TypeOK
  <1>2. CASE last_states = None
    BY <1>1, <1>2 DEF RestoredSettled, NothingSettled, Sound
  <1>3. CASE last_states # None
    <2> DEFINE x == last_states
               baseline == IF SameMeter(x.extra) THEN x.extra.last_energy ELSE None
    <2>1. x.extra # None /\ x \in StoredState
      BY <1>1, <1>3 DEF ChargeInv, StoredSound
    <2>2. RestoredAccrual = [cost |-> x.extra.cost, last_energy |-> baseline,
                             last_reading |-> baseline, price |-> None]
      BY <1>3, <2>1 DEF RestoredAccrual
    <2>3. RestoredSettled = x.settled
      BY <1>3, <2>1 DEF RestoredSettled
    <2>4. x.settled.epoch = meter.epoch => SameMeter(x.extra)
      BY <1>3 DEF ChargeInv, StoredSound, SameMeter
    <2> QED
      BY <1>3, <2>2, <2>3, <2>4 DEF ChargeInv, StoredSound, Sound
  <1> QED
    BY <1>2, <1>3

(* Nothing is accounted for before the first setup. *)
LEMMA InitCharge == Init => ChargeInv
  <1> SUFFICES ASSUME Init PROVE ChargeInv
    OBVIOUS
  <1>1. TypeOK
    BY InitType
  <1>2. meter.epoch = 1
    BY DEF Init
  <1>3. NearLevel
    <2>1. PICK r \in Readings : /\ meter = [number |-> 1, epoch |-> 1, level |-> r,
                                            replaced |-> {}]
                                /\ energy_state \in {r} \cup (Nonsense \cap {Unavailable})
      BY DEF Init
    <2>2. r \in Nat /\ meter.level = r
      BY <2>1, SensorAssumption
    <2>3. Reading \in Nat => Reading = r
      BY <2>1, NoneAssumption DEF Reading
    <2> QED
      BY <2>2, <2>3 DEF NearLevel
  <1>4. Sound(accrual, settled)
    BY <1>2 DEF Init, NothingSettled, Sound
  <1>5. ~ loaded /\ last_states = None /\ disk = None
    BY DEF Init
  <1> QED
    BY <1>1, <1>2, <1>3, <1>4, <1>5 DEF ChargeInv, StoredSound

(* A step that moves neither the meter nor its state stays near the level. *)
LEMMA StillNear ==
    ASSUME NearLevel, UNCHANGED <<energy_state, meter>>
    PROVE  NearLevel'
  BY DEF NearLevel, Reading

(* Setup keeps the invariant. *)
LEMMA SetupCharge ==
    ASSUME ChargeInv, Setup
    PROVE  ChargeInv'
  <1> DEFINE s == RestoredAccrual
             n == ApplyPrice(s, price_state, Reading)
             k == Priced(s, price_state, Reading)
  <1>1. TypeOK'
    BY SetupType DEF ChargeInv
  <1>2. UNCHANGED <<energy_state, meter, source, disk>> /\ last_states' = None
    BY DEF Setup, worldVars
  <1>3. Sound(n, SettledBy(s, n, k, RestoredSettled))
    BY RestoredSound, RestoredType, ApplyPriceSound DEF ChargeInv
  <1>4. accrual' = n /\ settled' = SettledBy(s, n, k, RestoredSettled) /\ bound' = source
    BY DEF Setup
  <1>5. Sound(accrual, settled)'
    <2> HIDE DEF n, k, s
    <2> QED
      BY <1>2, <1>3, <1>4 DEF Sound
  <1>6. StoredSound(disk)' /\ StoredSound(last_states)'
    BY <1>2 DEF ChargeInv, StoredSound
  <1>7. NearLevel' /\ meter'.epoch > 0
    BY <1>2, StillNear DEF ChargeInv
  <1> QED
    BY <1>1, <1>2, <1>4, <1>5, <1>6, <1>7 DEF ChargeInv

(* The event handlers keep the invariant. *)
LEMMA HandleCharge ==
    ASSUME ChargeInv, Handle
    PROVE  ChargeInv'
  <1>1. TypeOK'
    BY HandleType DEF ChargeInv
  <1>2. UNCHANGED <<energy_state, meter, source, disk, last_states, loaded, bound>>
    BY DEF Handle, HandleEnergy, HandlePrice, storeVars, worldVars
  <1>3. ASSUME NEW n, NEW k, Transition(n, k), Sound(n, SettledBy(accrual, n, k, settled))
        PROVE  Sound(accrual, settled)'
    BY <1>2, <1>3 DEF Transition, Sound
  <1>4. Sound(accrual, settled)'
    <2>1. accrual \in AccrualState /\ settled \in [epoch: Nat, kwh: Nat]
      BY DEF ChargeInv, TypeOK
    <2>2. CASE HandleEnergy /\ Reading = None
      BY <1>2, <2>2 DEF HandleEnergy, ChargeInv, Sound
    <2>3. CASE HandleEnergy /\ Reading # None
      BY <1>3, <2>1, <2>3, ApplyEnergySound DEF HandleEnergy, ChargeInv
    <2>4. CASE HandlePrice
      BY <1>3, <2>1, <2>4, ApplyPriceSound DEF HandlePrice, ChargeInv
    <2> QED
      BY <2>2, <2>3, <2>4 DEF Handle
  <1>5. StoredSound(disk)' /\ StoredSound(last_states)'
    BY <1>2 DEF ChargeInv, StoredSound
  <1>6. NearLevel' /\ meter'.epoch > 0
    BY <1>2, StillNear DEF ChargeInv
  <1> QED
    BY <1>1, <1>2, <1>4, <1>5, <1>6 DEF ChargeInv

(* A calibration sets the baseline to the reading and accounts for no more: *)
(* the import's end cannot lie above a reading that is not taken for a     *)
(* reset.                                                                  *)
LEMMA ServiceCharge ==
    ASSUME ChargeInv, Service
    PROVE  ChargeInv'
  <1>1. TypeOK'
    BY ServiceType DEF ChargeInv
  <1>2. Usable(Reading) # None => Reading \in Nat
    BY ReadingType DEF Usable, Parsed, ChargeInv
  <1>3. ASSUME NEW v, NEW done \in Nat, CalibrateTo(v, done), Usable(Reading) # None,
               done <= Reading
        PROVE  ChargeInv'
    <2>1. Reading \in Nat /\ Reading <= meter.level
      BY <1>2, <1>3 DEF ChargeInv, NearLevel
    <2>2. UNCHANGED <<energy_state, meter, source, disk, last_states, loaded, bound>>
      BY <1>3 DEF CalibrateTo, storeVars, worldVars
    <2>3. /\ accrual'.last_energy = Reading /\ accrual'.last_reading = Reading
          /\ settled' = [epoch |-> meter.epoch, kwh |-> done]
      BY <1>3, <2>1 DEF CalibrateTo, Calibrate, Usable
    <2>4. meter.epoch \in Nat
      BY DEF ChargeInv, TypeOK
    <2>5. Sound(accrual, settled)'
      BY <1>3, <2>1, <2>2, <2>3, <2>4 DEF Sound
    <2>6. StoredSound(disk)' /\ StoredSound(last_states)'
      BY <2>2 DEF ChargeInv, StoredSound
    <2> QED
      BY <1>1, <2>2, <2>5, <2>6, StillNear DEF ChargeInv
  <1>4. ASSUME NEW v \in Values, AsyncCalibrate(v) PROVE ChargeInv'
    BY <1>2, <1>3, <1>4 DEF AsyncCalibrate
  <1>5. ASSUME NEW v \in Values, NEW end \in Readings, NEW e \in BOOLEAN,
               AsyncCalibrateFromImport(v, end, e)
        PROVE  ChargeInv'
    <2>1. Reading \in Nat /\ end \in Nat /\ Usable(Reading) # None
      BY <1>2, <1>5, SensorAssumption DEF AsyncCalibrateFromImport
    <2>2. meter.level \in Nat /\ 10 * Reading >= 9 * meter.level
      BY <2>1, SensorAssumption DEF ChargeInv, NearLevel, TypeOK
    <2>3. ~ (e /\ end > Reading)
      <3>1. CutoverValue(v, end, Reading, accrual.price) # None /\ (e => end <= meter.level)
        BY <1>5 DEF AsyncCalibrateFromImport
      <3>2. Classify(end, Reading) = "DIP" =>
               CutoverValue(v, end, Reading, accrual.price) = None
        BY DEF CutoverValue
      <3> QED
        BY <2>1, <2>2, <3>1, <3>2 DEF Classify
    <2> QED
      BY <1>3, <1>5, <2>1, <2>3 DEF AsyncCalibrateFromImport
  <1> QED
    BY <1>4, <1>5 DEF Service

(* The entity's life keeps the invariant. *)
LEMMA LifeCharge ==
    ASSUME Undisturbed, ChargeInv, Life
    PROVE  ChargeInv'
  <1>1. TypeOK /\ TypeOK' /\ meter.epoch \in Nat \ {0}
    BY LifeType DEF ChargeInv, TypeOK
  <1>2. CASE Setup
    BY <1>2, SetupCharge
  <1>3. CASE Unload \/ Restart
    <2>1. UNCHANGED <<energy_state, meter, source, disk>> /\ Gone
      BY <1>3 DEF Unload, Restart, worldVars
    <2>2. Sound(accrual, settled)' /\ (loaded => bound = source)'
      BY <1>1, <2>1, GoneSound
    <2>3. \E x : last_states' = x /\ StoredSound(x)
      BY <1>3, StoredIsSound DEF Unload, Restart, ChargeInv
    <2>4. StoredSound(last_states)' /\ StoredSound(disk)'
      BY <2>1, <2>3 DEF StoredSound, ChargeInv
    <2> QED
      BY <1>1, <2>1, <2>2, <2>4, StillNear DEF ChargeInv
  <1>4. CASE Dump
    <2>1. UNCHANGED <<energy_state, meter, source, accrual, settled, loaded, bound,
                      last_states>>
      BY <1>4 DEF Dump, worldVars, sensorVars
    <2>2. \E x : disk' = x /\ StoredSound(x)
      BY <1>4, StoredIsSound DEF Dump, ChargeInv
    <2>3. StoredSound(last_states)' /\ StoredSound(disk)'
      BY <2>1, <2>2 DEF StoredSound, ChargeInv
    <2>4. Sound(accrual, settled)'
      BY <2>1 DEF Sound, ChargeInv
    <2> QED
      BY <1>1, <2>1, <2>3, <2>4, StillNear DEF ChargeInv
  <1>5. ~ Corrupt
    BY DEF Corrupt, Undisturbed
  <1> QED
    BY <1>2, <1>3, <1>4, <1>5 DEF Life

(* Whatever the source writes, in this epoch or a new one. *)
LEMMA EnergyWriteCharge ==
    ASSUME ChargeInv, NEW state \in Readings \cup Nonsense \cup {Unavailable},
           NEW l \in Readings, NEW e \in Nat, EnergyWrite(state, l, e),
           e > meter.epoch \/ (e = meter.epoch /\ l >= meter.level),
           state \in Nat => state <= l /\ 10 * state >= 9 * l
    PROVE  ChargeInv'
  <1>1. TypeOK /\ TypeOK'
    BY EnergyWriteType DEF ChargeInv
  <1>2. meter.epoch \in Nat \ {0} /\ l \in Nat
    BY SensorAssumption DEF ChargeInv, TypeOK
  <1>3. /\ meter'.epoch = e /\ meter'.level = l /\ energy_state' = state
        /\ UNCHANGED <<accrual, settled, loaded, bound, last_states, disk, source>>
    BY <1>1 DEF EnergyWrite, sensorVars, storeVars, TypeOK
  <1>4. Grows
    BY <1>2, <1>3 DEF Grows
  <1>5. Sound(accrual, settled)'
    BY <1>1, <1>3, <1>4, GrowsSound DEF ChargeInv
  <1>6. ASSUME NEW x \in StoredState \cup {None}, StoredSound(x) PROVE StoredSound(x)'
    BY <1>1, <1>4, <1>6, GrowsStored
  <1>7. StoredSound(last_states)' /\ StoredSound(disk)'
    BY <1>1, <1>3, <1>6 DEF ChargeInv, TypeOK, StoredSound
  <1>8. NearLevel'
    BY <1>3, NoneAssumption DEF NearLevel, Reading
  <1> QED
    BY <1>1, <1>2, <1>3, <1>5, <1>7, <1>8 DEF ChargeInv

(* What the meters do keeps the invariant, as their dips are small. *)
LEMMA MeteringCharge ==
    ASSUME Undisturbed, ChargeInv, Metering
    PROVE  ChargeInv'
  <1>1. /\ meter.level \in Readings /\ meter.level \in Nat
        /\ meter.epoch \in Nat
    BY SensorAssumption DEF ChargeInv, TypeOK
  <1>2. ASSUME NEW r \in Readings, Advance(r) PROVE ChargeInv'
    <2>1. r \in Nat
      BY SensorAssumption
    <2> QED
      BY <1>1, <1>2, <2>1, EnergyWriteCharge DEF Advance
  <1>3. ASSUME NEW r \in Readings, Reset(r) PROVE ChargeInv'
    <2>1. r \in Nat
      BY SensorAssumption
    <2> QED
      BY <1>1, <1>3, <2>1, EnergyWriteCharge DEF Reset
  <1>4. ASSUME NEW r \in Readings, Dip(r) PROVE ChargeInv'
    <2>1. r \in Nat
      BY SensorAssumption
    <2>2. r <= meter.level /\ 10 * r >= 9 * meter.level
      BY <1>1, <1>4, <2>1 DEF Dip, Undisturbed
    <2>3. EnergyWrite(r, meter.level, meter.epoch)
      BY <1>4 DEF Dip
    <2> QED
      BY <1>1, <2>2, <2>3, EnergyWriteCharge
  <1>5. ASSUME NEW state \in Nonsense, Garble(state) PROVE ChargeInv'
    <2>1. state \notin Nat
      BY SensorAssumption
    <2> QED
      BY <1>1, <1>5, <2>1, EnergyWriteCharge DEF Garble
  <1>6. ASSUME NEW p \in Prices \cup {None}, PriceWrite(p) PROVE ChargeInv'
    <2>1. UNCHANGED <<energy_state, meter, source, disk, last_states, loaded, bound,
                      accrual, settled>>
      BY <1>6 DEF PriceWrite, sensorVars, storeVars
    <2>2. TypeOK'
      BY <1>6, MeteringType DEF Metering, ChargeInv
    <2> QED
      BY <2>1, <2>2, StillNear DEF ChargeInv, Sound, StoredSound
  <1> QED
    BY <1>2, <1>3, <1>4, <1>5, <1>6 DEF Metering

(* Renames and replacements keep the invariant. *)
LEMMA RewiringCharge ==
    ASSUME Undisturbed, ChargeInv, Rewiring
    PROVE  ChargeInv'
  <1>1. TypeOK /\ TypeOK' /\ meter.epoch \in Nat \ {0} /\ meter.level \in Nat
    <2>1. TypeOK
      BY DEF ChargeInv
    <2>2. meter.epoch \in Nat /\ meter.level \in Readings
      BY <2>1 DEF TypeOK
    <2>3. meter.epoch \in Nat \ {0}
      BY <2>2 DEF ChargeInv
    <2>4. meter.level \in Nat
      BY <2>2, SensorAssumption
    <2>5. TypeOK'
      BY <2>1, RewiringType
    <2> QED
      BY <2>1, <2>3, <2>4, <2>5
  <1>2. ASSUME Grows, ~ loaded, NearLevel', meter'.epoch > 0,
               UNCHANGED <<accrual, settled, loaded, last_states, disk>>
        PROVE  ChargeInv'
    <2>1. Sound(accrual, settled)'
      BY <1>1, <1>2, GrowsSound DEF ChargeInv
    <2>2. ASSUME NEW x \in StoredState \cup {None}, StoredSound(x) PROVE StoredSound(x)'
      BY <1>1, <1>2, <2>2, GrowsStored
    <2>3. StoredSound(last_states)' /\ StoredSound(disk)'
      BY <1>1, <1>2, <2>2 DEF ChargeInv, TypeOK, StoredSound
    <2> QED
      BY <1>1, <1>2, <2>1, <2>3 DEF ChargeInv
  <1>3. ASSUME NEW id \in Ids, Rename(id) PROVE ChargeInv'
    <2>1. UNCHANGED <<energy_state, meter, accrual, settled, loaded, last_states, disk>>
          /\ ~ loaded /\ source.uuid # None
      BY <1>3 DEF Rename, sensorVars, storeVars
    <2>2. source'.uuid = source.uuid
      BY <1>1, <1>3 DEF Rename, TypeOK
    <2>3. Grows
      BY <1>1, <2>1, <2>2 DEF Grows
    <2> QED
      BY <1>1, <1>2, <2>1, <2>3, StillNear DEF ChargeInv
  <1>4. ASSUME NEW src \in Source, NEW r \in Readings, Replace(src, r) PROVE ChargeInv'
    <2>1. /\ energy_state' = r /\ meter'.level = r /\ meter'.epoch = meter.epoch + 1
          /\ UNCHANGED <<accrual, settled, loaded, last_states, disk>> /\ ~ loaded
      BY <1>4 DEF Replace, Install, sensorVars, storeVars
    <2>2. r \in Nat
      BY SensorAssumption
    <2>3. Grows
      BY <1>1, <2>1, <2>2 DEF Grows
    <2>4. NearLevel'
      BY <2>1, <2>2, NoneAssumption DEF NearLevel, Reading
    <2> QED
      BY <1>1, <1>2, <2>1, <2>3, <2>4
  <1>5. ~ RegistryRemove /\ \A uuid, r : ~ RegistryCreate(uuid, r)
    BY DEF RegistryRemove, RegistryCreate, Undisturbed
  <1> QED
    BY <1>3, <1>4, <1>5 DEF Rewiring

(* Every step keeps the invariant. *)
LEMMA ChargeStep ==
    ASSUME Undisturbed
    PROVE  ChargeInv /\ [Next]_vars => ChargeInv'
  <1>1. ASSUME ChargeInv, UNCHANGED vars PROVE ChargeInv'
    <2>1. TypeOK'
      BY <1>1, TypeStep DEF ChargeInv
    <2> QED
      BY <1>1, <2>1, StillNear DEF ChargeInv, Sound, StoredSound, vars, sensorVars,
                                   storeVars, worldVars
  <1> QED
    BY <1>1, HandleCharge, ServiceCharge, LifeCharge, MeteringCharge, RewiringCharge DEF Next

(* The invariant implies that nothing is charged twice. *)
LEMMA ChargeImplies == ChargeInv => NoDoubleCharge
  <1> SUFFICES ASSUME ChargeInv, settled.epoch = meter.epoch
               PROVE  settled.kwh <= meter.level
    BY DEF NoDoubleCharge
  <1>1. settled.kwh \in Nat /\ meter.level \in Nat
    BY SensorAssumption DEF ChargeInv, TypeOK
  <1> QED
    BY <1>1 DEF ChargeInv, Sound

(* No energy is charged twice, over any number of resets, dips, restarts    *)
(* from a stale store, replacements of the meter and calibrations, for any  *)
(* readings and prices.                                                    *)
THEOREM NoDoubleChargeCorrect ==
    ASSUME Undisturbed
    PROVE  Spec => []NoDoubleCharge
  BY InitCharge, ChargeStep, ChargeImplies, PTL DEF Spec

-----------------------------------------------------------------------------
(* The same without assumptions on what is lost or replaced, if no source  *)
(* dips.  NoDoubleChargeCorrect needs the stored baseline to be found      *)
(* again: after a dip, a baseline that is taken anew lies below what is    *)
(* already priced.  A meter that never dips needs no baseline for that:    *)
(* whatever is taken is the level.                                         *)

AtLevel == Reading \in Nat => Reading = meter.level

(* What this epoch's cost accounts for lies below the level, and below the *)
(* baseline, if there is one.                                              *)
Bounded(s, h) ==
    /\ h.epoch <= meter.epoch
    /\ h.epoch = meter.epoch =>
          /\ h.kwh <= meter.level
          /\ s.last_energy # None => /\ h.kwh <= s.last_energy
                                     /\ s.last_energy <= meter.level
                                     /\ s.last_reading <= meter.level

StoredBounded(x) ==
    x # None =>
        /\ x.settled.epoch <= meter.epoch
        /\ x.settled.epoch = meter.epoch =>
              /\ x.settled.kwh <= meter.level
              /\ (x.extra # None /\ x.extra.last_energy # None) =>
                    /\ x.settled.kwh <= x.extra.last_energy
                    /\ x.extra.last_energy <= meter.level

LevelInv ==
    /\ TypeOK
    /\ meter.epoch > 0
    /\ AtLevel
    /\ accrual.last_energy = None <=> accrual.last_reading = None
    /\ Bounded(accrual, settled)
    /\ StoredBounded(last_states)
    /\ StoredBounded(disk)

(* With a baseline of this epoch the two invariants agree.                 *)
LEMMA BoundedSound ==
    ASSUME TypeOK, NEW s \in AccrualState, NEW h \in [epoch: Nat, kwh: Nat]
    PROVE  /\ Bounded(s, h) /\ (HasBaseline(s) \/ h.epoch # meter.epoch) => Sound(s, h)
           /\ Sound(s, h) => Bounded(s, h)
  <1>1. meter.level \in Nat /\ h.kwh \in Nat
    BY SensorAssumption DEF TypeOK
  <1>2. HasBaseline(s) => s.last_energy \in Nat /\ s.last_reading \in Nat
    BY DEF HasBaseline, AccrualState
  <1>3. ASSUME Bounded(s, h), HasBaseline(s) \/ h.epoch # meter.epoch PROVE Sound(s, h)
    <2>1. CASE h.epoch = meter.epoch
      BY <1>2, <1>3, <2>1 DEF Bounded, Sound, HasBaseline
    <2>2. CASE h.epoch # meter.epoch
      BY <1>3, <2>2 DEF Bounded, Sound
    <2> QED
      BY <2>1, <2>2
  <1>4. ASSUME Sound(s, h) PROVE Bounded(s, h)
    <2>1. CASE h.epoch = meter.epoch
      <3>1. s.last_energy \in Nat /\ h.kwh <= s.last_energy /\ s.last_energy <= meter.level
            /\ s.last_reading <= meter.level /\ h.epoch <= meter.epoch
        BY <1>4, <2>1 DEF Sound
      <3>2. h.kwh <= meter.level
        BY <1>1, <3>1
      <3> QED
        BY <3>1, <3>2 DEF Bounded
    <2>2. CASE h.epoch # meter.epoch
      BY <1>4, <2>2 DEF Bounded, Sound
    <2> QED
      BY <2>1, <2>2
  <1> QED
    BY <1>3, <1>4

(* A baseline taken at the level waives what the cost does not account for. *)
LEMMA FirstBaseline ==
    ASSUME TypeOK, NEW s, s.last_energy = None, NEW h \in [epoch: Nat, kwh: Nat],
           Bounded(s, h), h.epoch = meter.epoch,
           NEW n, n.last_energy = meter.level, n.last_reading = meter.level
    PROVE  Bounded(n, SettledBy(s, n, 0, h))
  <1>1. meter.level \in Nat /\ meter.epoch \in Nat /\ h.kwh \in Nat
    BY SensorAssumption DEF TypeOK
  <1>2. h.kwh <= meter.level /\ n.last_energy # s.last_energy
    BY <1>1, NoneAssumption DEF Bounded
  <1>3. SettledBy(s, n, 0, h) = [epoch |-> meter.epoch,
            kwh |-> IF h.kwh + 0 > meter.level THEN h.kwh + 0 ELSE meter.level]
    BY <1>2 DEF SettledBy
  <1>4. SettledBy(s, n, 0, h).epoch = meter.epoch
        /\ SettledBy(s, n, 0, h).kwh = meter.level
    BY <1>1, <1>2, <1>3
  <1> QED
    BY <1>1, <1>4 DEF Bounded

(* What leaves the baseline alone and charges nothing. *)
LEMMA StillBounded ==
    ASSUME NEW s, NEW h, Bounded(s, h), NEW n,
           n.last_energy = s.last_energy, n.last_reading = s.last_reading
    PROVE  Bounded(n, SettledBy(s, n, 0, h))
  BY DEF Bounded, SettledBy

(* A first reading, whoever takes it, is the baseline.                     *)
LEMMA FirstReading ==
    ASSUME NEW s \in AccrualState, s.last_energy = None, NEW p \in PriceType, NEW r \in Nat
    PROVE  /\ ApplyEnergy(s, r).last_energy = r /\ ApplyEnergy(s, r).last_reading = r
           /\ ApplyPrice(s, p, r).last_energy = r /\ ApplyPrice(s, p, r).last_reading = r
           /\ Priced(s, p, r) = 0
  <1>1. ~ HasBaseline(s)
    BY DEF HasBaseline
  <1>2. ApplyEnergy(s, r).last_energy = r /\ ApplyEnergy(s, r).last_reading = r
    <2>1. ApplyEnergy(s, r) = [s EXCEPT !.last_energy = r, !.last_reading = r]
      BY <1>1 DEF ApplyEnergy
    <2> QED
      BY <2>1, RecordForm
  <1>3. ASSUME NEW q \in Int
        PROVE  /\ [Settle(s, r, q) EXCEPT !.price = p].last_energy = r
               /\ [Settle(s, r, q) EXCEPT !.price = p].last_reading = r
    <2>1. /\ Settle(s, r, q) \in AccrualState
          /\ Settle(s, r, q).last_energy = r /\ Settle(s, r, q).last_reading = r
      BY <1>1, SettleType, SettleSettles DEF Settles, Rebaselines
    <2> QED
      BY <2>1 DEF AccrualState
  <1>4. (s.price # None => s.price \in Int) /\ (p # None => p \in Int) /\ r \in Parsed
    BY DEF AccrualState, PriceType, Parsed
  <1>5. ApplyPrice(s, p, r).last_energy = r /\ ApplyPrice(s, p, r).last_reading = r
    <2>1. CASE s.price = None /\ p = None /\ ApplyPrice(s, p, r) = ApplyEnergy(s, r)
      BY <1>2, <2>1
    <2>2. CASE p # None /\ ApplyPrice(s, p, r) = [Settle(s, r, p) EXCEPT !.price = p]
      BY <1>3, <1>4, <2>2
    <2>3. CASE s.price # None /\ ApplyPrice(s, p, r) = [Settle(s, r, s.price) EXCEPT !.price = p]
      BY <1>3, <1>4, <2>3
    <2> QED
      BY <1>4, <2>1, <2>2, <2>3, ApplyPriceCases
  <1>6. Priced(s, p, r) = 0
    BY <1>1 DEF Priced, ChargedEnergy
  <1> QED
    BY <1>2, <1>5, <1>6

LEMMA NearWhenAt == ASSUME TypeOK, AtLevel PROVE NearLevel
  <1>1. meter.level \in Nat
    BY SensorAssumption DEF TypeOK
  <1> QED
    BY <1>1 DEF AtLevel, NearLevel

(* A reading that is handled leaves the cost below the level.              *)
LEMMA ApplyBounded ==
    ASSUME TypeOK, AtLevel, NEW s \in AccrualState, NEW h \in [epoch: Nat, kwh: Nat],
           s.last_energy = None <=> s.last_reading = None, Bounded(s, h)
    PROVE  /\ LET n == ApplyPrice(s, price_state, Reading)
              IN  Bounded(n, SettledBy(s, n, Priced(s, price_state, Reading), h))
           /\ Reading # None =>
                LET n == ApplyEnergy(s, Reading)
                IN  Bounded(n, SettledBy(s, n, Priced(s, s.price, Reading), h))
  <1> DEFINE r == Reading
             p == price_state
             np == ApplyPrice(s, p, r)
             kp == Priced(s, p, r)
             ne == ApplyEnergy(s, r)
             ke == Priced(s, s.price, r)
  <1>1. r \in Parsed /\ p \in PriceType /\ s.price \in PriceType
    BY ReadingType, PriceStateType DEF AccrualState, PriceType
  <1>2. /\ np \in AccrualState /\ kp \in Nat /\ ke \in Nat
        /\ r # None => ne \in AccrualState /\ r \in Nat \cup {-1}
    BY <1>1, ApplyPriceType, ApplyEnergyType, PricedType DEF Parsed
  <1>3. CASE HasBaseline(s) \/ h.epoch # meter.epoch
    <2>1. Sound(s, h) /\ NearLevel
      BY <1>3, BoundedSound, NearWhenAt
    <2>2. /\ Sound(np, SettledBy(s, np, kp, h))
          /\ r # None => Sound(ne, SettledBy(s, ne, ke, h))
      BY <2>1, ApplyPriceSound, ApplyEnergySound
    <2>3. /\ SettledBy(s, np, kp, h) \in [epoch: Nat, kwh: Nat]
          /\ r # None => SettledBy(s, ne, ke, h) \in [epoch: Nat, kwh: Nat]
      <3>1. (kp = 0 /\ np.last_energy = s.last_energy) \/ np.last_energy \in Nat
        BY <1>1, <1>2, ApplyPriceType, PricedType DEF HasBaseline, AccrualState
      <3>2. r # None =>
              (ke = 0 /\ ne.last_energy = s.last_energy) \/ ne.last_energy \in Nat
        <4>1. CASE r \in Nat
          BY <1>2, <4>1, ApplyEnergyType DEF HasBaseline, AccrualState
        <4>2. CASE r \notin Nat /\ r # None
          <5>1. ne = s /\ ke = 0
            BY <1>1, <1>2, <4>2, ApplyEnergyType, PricedType
          <5> QED
            BY <5>1
        <4> QED
          BY <4>1, <4>2
      <3> HIDE DEF r, np, ne, kp, ke
      <3> QED
        BY <1>2, <3>1, <3>2, SettledByType
    <2> HIDE DEF r, np, ne, kp, ke
    <2>4. /\ Bounded(np, SettledBy(s, np, kp, h))
          /\ r # None => Bounded(ne, SettledBy(s, ne, ke, h))
      BY <1>2, <2>2, <2>3, BoundedSound
    <2> QED
      BY <2>4 DEF r, np, ne, kp, ke
  <1>4. CASE ~ HasBaseline(s) /\ h.epoch = meter.epoch
    <2>1. s.last_energy = None
      BY <1>4 DEF HasBaseline
    <2>2. CASE r \in Nat
      <3>1. r = meter.level /\ kp = 0 /\ ke = 0
            /\ np.last_energy = r /\ np.last_reading = r
            /\ ne.last_energy = r /\ ne.last_reading = r
        BY <1>1, <2>1, <2>2, FirstReading DEF AtLevel
      <3> HIDE DEF r, np, ne, kp, ke
      <3> QED
        BY <1>4, <2>1, <3>1, FirstBaseline DEF r, np, ne, kp, ke
    <2>3. CASE r \notin Nat
      <3>1. kp = 0 /\ ke = 0 /\ np = [s EXCEPT !.price = p] /\ (r # None => ne = s)
        BY <1>1, <1>2, <2>3, PricedType, ApplyPriceType, ApplyEnergyType
      <3>2. np.last_energy = s.last_energy /\ np.last_reading = s.last_reading
        BY <3>1 DEF AccrualState
      <3> QED
        BY <3>1, <3>2, StillBounded
    <2> QED
      BY <2>2, <2>3
  <1> QED
    BY <1>3, <1>4

(* What the world may do: let the level rise, or start an epoch.            *)
LevelGrows ==
    \/ meter'.epoch > meter.epoch
    \/ meter'.epoch = meter.epoch /\ meter'.level >= meter.level

LEMMA GrowsBounded ==
    ASSUME LevelInv, TypeOK', LevelGrows, UNCHANGED <<accrual, settled>>
    PROVE  Bounded(accrual, settled)'
  <1>1. /\ meter.epoch \in Nat /\ meter.level \in Nat
        /\ meter'.epoch \in Nat /\ meter'.level \in Nat
        /\ settled.epoch \in Nat /\ settled.kwh \in Nat
    BY SensorAssumption DEF TypeOK, LevelInv
  <1>2. accrual.last_energy # None => accrual.last_energy \in Nat /\ accrual.last_reading \in Nat
    BY DEF TypeOK, AccrualState, LevelInv
  <1> QED
    BY <1>1, <1>2 DEF LevelInv, LevelGrows, Bounded

LEMMA GrowsStoredBounded ==
    ASSUME TypeOK, TypeOK', LevelGrows, NEW x \in StoredState \cup {None}, StoredBounded(x)
    PROVE  StoredBounded(x)'
  <1>1. /\ meter.epoch \in Nat /\ meter.level \in Nat
        /\ meter'.epoch \in Nat /\ meter'.level \in Nat
    BY SensorAssumption DEF TypeOK
  <1>2. x # None => /\ x.settled.epoch \in Nat /\ x.settled.kwh \in Nat
                    /\ x.extra # None /\ x.extra.last_energy # None
                         => x.extra.last_energy \in Nat
    BY DEF StoredState, ExtraData
  <1> QED
    BY <1>1, <1>2 DEF LevelGrows, StoredBounded

(* A world that grows, with the sensor and the store as they were.          *)
LEMMA GrowsLevel ==
    ASSUME LevelInv, TypeOK', LevelGrows, AtLevel',
           UNCHANGED <<accrual, settled, last_states, disk>>
    PROVE  LevelInv'
  <1>1. meter.epoch \in Nat /\ meter'.epoch \in Nat /\ TypeOK
    BY DEF LevelInv, TypeOK
  <1>2. ASSUME NEW x \in StoredState \cup {None}, StoredBounded(x) PROVE StoredBounded(x)'
    BY <1>1, <1>2, GrowsStoredBounded
  <1>3. StoredBounded(last_states)' /\ StoredBounded(disk)'
    BY <1>1, <1>2 DEF LevelInv, TypeOK, StoredBounded
  <1>4. Bounded(accrual, settled)'
    BY GrowsBounded
  <1>5. meter'.epoch > 0
    BY <1>1 DEF LevelInv, LevelGrows
  <1> QED
    BY <1>3, <1>4, <1>5 DEF LevelInv

LEMMA StillAtLevel ==
    ASSUME AtLevel, UNCHANGED <<energy_state, meter>>
    PROVE  AtLevel'
  BY DEF AtLevel, Reading

(* What a loaded sensor stores, and what a restart finds of it.             *)
LEMMA StoredIsBounded ==
    ASSUME LevelInv
    PROVE  StoredBounded(Stored)
  BY DEF LevelInv, Bounded, StoredBounded, Stored

LEMMA RestoredBounded ==
    ASSUME LevelInv
    PROVE  /\ Bounded(RestoredAccrual, RestoredSettled)
           /\ RestoredAccrual.last_energy = None <=> RestoredAccrual.last_reading = None
  <1>1. meter.epoch \in Nat \ {0}
    BY DEF LevelInv, TypeOK
  <1>2. CASE last_states = None \/ (last_states.extra = None /\ last_states.state = None)
    BY <1>1, <1>2 DEF RestoredAccrual, RestoredSettled, NothingSettled, InitialState, Bounded
  <1>3. CASE last_states # None /\ last_states.extra # None
    <2> DEFINE extra == last_states.extra
               baseline == IF SameMeter(extra) THEN extra.last_energy ELSE None
    <2>1. RestoredAccrual = [cost |-> extra.cost, last_energy |-> baseline,
                             last_reading |-> baseline, price |-> None]
      BY <1>3 DEF RestoredAccrual
    <2>2. RestoredSettled = last_states.settled
      BY <1>3 DEF RestoredSettled
    <2> QED
      BY <1>3, <2>1, <2>2 DEF LevelInv, StoredBounded, Bounded
  <1>4. CASE last_states # None /\ last_states.extra = None /\ last_states.state # None
    <2>1. /\ RestoredAccrual.last_energy = None /\ RestoredAccrual.last_reading = None
          /\ RestoredSettled = last_states.settled
      BY <1>4 DEF RestoredAccrual, RestoredSettled, InitialState
    <2> QED
      BY <1>4, <2>1 DEF LevelInv, StoredBounded, Bounded
  <1> QED
    BY <1>2, <1>3, <1>4

LEMMA InitLevel == Init => LevelInv
  <1> SUFFICES ASSUME Init PROVE LevelInv
    OBVIOUS
  <1>1. TypeOK /\ meter.epoch = 1 /\ last_states = None /\ disk = None
    BY InitType DEF Init
  <1>2. AtLevel
    <2>1. PICK r \in Readings : /\ meter = [number |-> 1, epoch |-> 1, level |-> r,
                                            replaced |-> {}]
                                /\ energy_state \in {r} \cup (Nonsense \cap {Unavailable})
      BY DEF Init
    <2> QED
      BY <2>1, NoneAssumption DEF AtLevel, Reading
  <1>3. accrual = InitialState /\ settled = NothingSettled
    BY DEF Init
  <1> QED
    BY <1>1, <1>2, <1>3 DEF LevelInv, StoredBounded, Bounded, InitialState, NothingSettled

LEMMA HandleLevel ==
    ASSUME LevelInv, Handle
    PROVE  LevelInv'
  <1>1. /\ TypeOK /\ TypeOK' /\ accrual \in AccrualState
        /\ settled \in [epoch: Nat, kwh: Nat]
        /\ Reading \in Parsed /\ price_state \in PriceType
        /\ UNCHANGED <<energy_state, meter, last_states, disk>>
    BY HandleType, ReadingType, PriceStateType
       DEF LevelInv, TypeOK, Handle, HandleEnergy, HandlePrice, storeVars, worldVars
  <1>2. ASSUME NEW n, NEW k, Transition(n, k), Bounded(n, SettledBy(accrual, n, k, settled)),
               HasBaseline(n) \/ ( /\ n.last_energy = accrual.last_energy
                                   /\ n.last_reading = accrual.last_reading )
        PROVE  LevelInv'
    <2>1. /\ accrual' = n /\ settled' = SettledBy(accrual, n, k, settled)
      BY <1>2 DEF Transition
    <2>2. Bounded(accrual, settled)'
      BY <1>1, <1>2, <2>1 DEF Bounded
    <2>3. accrual'.last_energy = None <=> accrual'.last_reading = None
      BY <1>2, <2>1 DEF HasBaseline, LevelInv
    <2>4. StoredBounded(last_states)' /\ StoredBounded(disk)'
      BY <1>1 DEF LevelInv, StoredBounded
    <2> QED
      BY <1>1, <2>2, <2>3, <2>4, StillAtLevel DEF LevelInv
  <1>3. CASE HandleEnergy /\ Reading = None
    <2>1. UNCHANGED <<accrual, settled>>
      BY <1>3 DEF HandleEnergy
    <2> QED
      BY <1>1, <2>1, StillAtLevel DEF LevelInv, Bounded, StoredBounded
  <1>4. CASE HandleEnergy /\ Reading # None
    <2>1. /\ Reading \in Nat \cup {-1}
          /\ Transition(ApplyEnergy(accrual, Reading), Priced(accrual, accrual.price, Reading))
      BY <1>1, <1>4 DEF Parsed, HandleEnergy
    <2>2. HasBaseline(ApplyEnergy(accrual, Reading)) \/ ApplyEnergy(accrual, Reading) = accrual
      BY <1>1, <2>1, ApplyEnergyType
    <2>3. Bounded(ApplyEnergy(accrual, Reading),
                  SettledBy(accrual, ApplyEnergy(accrual, Reading),
                            Priced(accrual, accrual.price, Reading), settled))
      BY <1>1, <1>4, ApplyBounded DEF LevelInv
    <2> QED
      BY <1>2, <2>1, <2>2, <2>3
  <1>5. CASE HandlePrice
    <2> DEFINE n == ApplyPrice(accrual, price_state, Reading)
               k == Priced(accrual, price_state, Reading)
    <2>1. Transition(n, k) /\ Bounded(n, SettledBy(accrual, n, k, settled))
      BY <1>1, <1>5, ApplyBounded DEF HandlePrice, LevelInv
    <2>2. HasBaseline(n) \/ n = [accrual EXCEPT !.price = price_state]
      BY <1>1, ApplyPriceType
    <2>3. HasBaseline(n) \/ ( /\ n.last_energy = accrual.last_energy
                              /\ n.last_reading = accrual.last_reading )
      BY <1>1, <2>2 DEF AccrualState
    <2> HIDE DEF n, k
    <2> QED
      BY <1>2, <2>1, <2>3
  <1> QED
    BY <1>3, <1>4, <1>5 DEF Handle

LEMMA SetupLevel ==
    ASSUME LevelInv, Setup
    PROVE  LevelInv'
  <1> DEFINE s == RestoredAccrual
             h == RestoredSettled
             n == ApplyPrice(s, price_state, Reading)
             k == Priced(s, price_state, Reading)
  <1>1. /\ TypeOK /\ TypeOK' /\ s \in AccrualState /\ h \in [epoch: Nat, kwh: Nat]
        /\ Reading \in Parsed /\ price_state \in PriceType
        /\ UNCHANGED <<energy_state, meter, disk>> /\ last_states' = None
    BY SetupType, RestoredType, ReadingType, PriceStateType DEF LevelInv, Setup, worldVars
  <1>2. Bounded(n, SettledBy(s, n, k, h))
    BY <1>1, RestoredBounded, ApplyBounded DEF LevelInv
  <1>3. n.last_energy = None <=> n.last_reading = None
    <2>1. s.last_energy = None <=> s.last_reading = None
      BY RestoredBounded
    <2>2. HasBaseline(n) \/ n = [s EXCEPT !.price = price_state]
      BY <1>1, ApplyPriceType
    <2> HIDE DEF s
    <2> QED
      BY <1>1, <2>1, <2>2 DEF AccrualState, HasBaseline
  <1>4. accrual' = n /\ settled' = SettledBy(s, n, k, h)
    BY DEF Setup
  <1> HIDE DEF n, k, s, h
  <1>5. Bounded(accrual, settled)'
    BY <1>1, <1>2, <1>4 DEF Bounded
  <1>6. StoredBounded(last_states)' /\ StoredBounded(disk)'
    BY <1>1 DEF LevelInv, StoredBounded
  <1> QED
    BY <1>1, <1>3, <1>4, <1>5, <1>6, StillAtLevel DEF LevelInv

(* A calibration takes the level for the baseline and waives what is below. *)
LEMMA ServiceLevel ==
    ASSUME LevelInv, Service
    PROVE  LevelInv'
  <1>1. /\ TypeOK /\ TypeOK' /\ meter.level \in Nat /\ meter.epoch \in Nat
        /\ Usable(Reading) # None => Reading = meter.level
    <2>1. TypeOK /\ TypeOK'
      BY ServiceType DEF LevelInv
    <2>2. Usable(Reading) # None => Reading \in Nat
      BY <2>1, ReadingType DEF Usable, Parsed
    <2>3. Reading \in Nat => Reading = meter.level
      BY DEF LevelInv, AtLevel
    <2> QED
      BY <2>1, <2>2, <2>3, SensorAssumption DEF TypeOK
  <1>2. ASSUME NEW v, CalibrateTo(v, Reading), Usable(Reading) # None
        PROVE  LevelInv'
    <2>1. /\ accrual'.last_energy = meter.level /\ accrual'.last_reading = meter.level
          /\ settled' = [epoch |-> meter.epoch, kwh |-> meter.level]
      BY <1>1, <1>2 DEF CalibrateTo, Calibrate, Usable
    <2>2. UNCHANGED <<energy_state, meter, last_states, disk>>
      BY <1>2 DEF CalibrateTo, storeVars, worldVars
    <2>3. Bounded(accrual, settled)'
      BY <1>1, <2>1, <2>2 DEF Bounded
    <2>4. StoredBounded(last_states)' /\ StoredBounded(disk)'
      BY <2>2 DEF LevelInv, StoredBounded
    <2> QED
      BY <1>1, <2>1, <2>2, <2>3, <2>4, StillAtLevel, NoneAssumption DEF LevelInv
  <1>3. ASSUME NEW v \in Values, AsyncCalibrate(v) PROVE LevelInv'
    BY <1>2, <1>3 DEF AsyncCalibrate
  <1>4. ASSUME NEW v \in Values, NEW end \in Readings, NEW e \in BOOLEAN,
               AsyncCalibrateFromImport(v, end, e)
        PROVE  LevelInv'
    <2>1. /\ Usable(Reading) # None /\ (e => end <= meter.level)
          /\ CalibrateTo(CutoverValue(v, end, Reading, accrual.price),
                         IF e /\ end > Reading THEN end ELSE Reading)
      BY <1>4 DEF AsyncCalibrateFromImport
    <2>2. ~ (e /\ end > Reading)
      BY <1>1, <2>1, SensorAssumption
    <2> QED
      BY <1>2, <2>1, <2>2
  <1> QED
    BY <1>3, <1>4 DEF Service

LEMMA GoneLevel ==
    ASSUME LevelInv, TypeOK', Gone, AtLevel', meter'.epoch = meter.epoch,
           meter'.level = meter.level, StoredBounded(last_states)', StoredBounded(disk)'
    PROVE  LevelInv'
  <1>1. meter.epoch \in Nat \ {0}
    BY DEF LevelInv, TypeOK
  <1>2. accrual' = InitialState /\ settled' = NothingSettled
    BY DEF Gone
  <1> QED
    BY <1>1, <1>2 DEF LevelInv, InitialState, NothingSettled, Bounded

LEMMA LifeLevel ==
    ASSUME LevelInv, Life
    PROVE  LevelInv'
  <1>1. TypeOK /\ TypeOK'
    BY LifeType DEF LevelInv
  <1>2. CASE Setup
    BY <1>2, SetupLevel
  <1>3. CASE Unload \/ Restart
    <2>1. UNCHANGED <<energy_state, meter, disk>> /\ Gone
      BY <1>3 DEF Unload, Restart, worldVars
    <2>2. \E x : last_states' = x /\ StoredBounded(x)
      BY <1>3, StoredIsBounded DEF Unload, Restart, LevelInv
    <2>3. StoredBounded(last_states)' /\ StoredBounded(disk)'
      BY <2>1, <2>2 DEF StoredBounded, LevelInv
    <2> QED
      BY <1>1, <2>1, <2>3, StillAtLevel, GoneLevel DEF LevelInv
  <1>4. CASE Dump
    <2>1. UNCHANGED <<energy_state, meter, accrual, settled, last_states>>
      BY <1>4 DEF Dump, worldVars, sensorVars
    <2>2. \E x : disk' = x /\ StoredBounded(x)
      BY <1>4, StoredIsBounded DEF Dump, LevelInv
    <2>3. StoredBounded(last_states)' /\ StoredBounded(disk)'
      BY <2>1, <2>2 DEF StoredBounded, LevelInv
    <2> QED
      BY <1>1, <2>1, <2>3, StillAtLevel DEF LevelInv, Bounded
  <1>5. CASE Corrupt
    <2>1. /\ UNCHANGED <<energy_state, meter, accrual, settled, disk>>
          /\ last_states # None /\ last_states' = [last_states EXCEPT !.extra = None]
      BY <1>5 DEF Corrupt, worldVars, sensorVars
    <2>2. last_states'.extra = None /\ last_states'.settled = last_states.settled
      BY <1>1, <2>1 DEF TypeOK, StoredState
    <2>3. StoredBounded(last_states)' /\ StoredBounded(disk)'
      BY <2>1, <2>2 DEF StoredBounded, LevelInv
    <2> QED
      BY <1>1, <2>1, <2>3, StillAtLevel DEF LevelInv, Bounded
  <1> QED
    BY <1>2, <1>3, <1>4, <1>5 DEF Life

LEMMA MeteringLevel ==
    ASSUME Dips = "none", LevelInv, Metering
    PROVE  LevelInv'
  <1>1. /\ TypeOK /\ TypeOK' /\ meter.level \in Nat /\ meter.epoch \in Nat
    <2>1. TypeOK /\ TypeOK'
      BY MeteringType DEF LevelInv
    <2> QED
      BY <2>1, SensorAssumption DEF TypeOK
  <1>2. ASSUME NEW state, NEW l \in Nat, NEW e \in Nat, EnergyWrite(state, l, e),
               e > meter.epoch \/ (e = meter.epoch /\ l >= meter.level),
               state \in Nat => state = l
        PROVE  LevelInv'
    <2>1. /\ meter'.epoch = e /\ meter'.level = l /\ energy_state' = state
          /\ UNCHANGED <<accrual, settled, last_states, disk>>
      BY <1>1, <1>2 DEF EnergyWrite, sensorVars, storeVars, TypeOK
    <2>2. LevelGrows /\ AtLevel'
      BY <1>2, <2>1, NoneAssumption DEF LevelGrows, AtLevel, Reading
    <2> QED
      BY <1>1, <2>1, <2>2, GrowsLevel
  <1>3. ASSUME NEW r \in Readings, Advance(r) PROVE LevelInv'
    <2>1. r \in Nat /\ r >= meter.level /\ EnergyWrite(r, r, meter.epoch)
      BY <1>3, SensorAssumption DEF Advance
    <2> QED
      BY <1>1, <1>2, <2>1
  <1>4. ASSUME NEW r \in Readings, Reset(r) PROVE LevelInv'
    <2>1. r \in Nat /\ EnergyWrite(r, r, meter.epoch + 1)
      BY <1>4, SensorAssumption DEF Reset
    <2> QED
      BY <1>1, <1>2, <2>1
  <1>5. \A r : ~ Dip(r)
    BY DEF Dip
  <1>6. ASSUME NEW state \in Nonsense, Garble(state) PROVE LevelInv'
    <2>1. state \notin Nat
      BY SensorAssumption
    <2> QED
      BY <1>1, <1>2, <1>6, <2>1 DEF Garble
  <1>7. ASSUME NEW p, PriceWrite(p) PROVE LevelInv'
    <2>1. UNCHANGED <<energy_state, meter, last_states, disk, accrual, settled>>
      BY <1>7 DEF PriceWrite, sensorVars, storeVars
    <2> QED
      BY <1>1, <2>1, StillAtLevel DEF LevelInv, Bounded, StoredBounded
  <1> QED
    BY <1>3, <1>4, <1>5, <1>6, <1>7 DEF Metering

LEMMA RewiringLevel ==
    ASSUME LevelInv, Rewiring
    PROVE  LevelInv'
  <1>1. /\ TypeOK /\ TypeOK' /\ meter.level \in Nat /\ meter.epoch \in Nat
    <2>1. TypeOK /\ TypeOK'
      BY RewiringType DEF LevelInv
    <2> QED
      BY <2>1, SensorAssumption DEF TypeOK
  <1>2. ASSUME NEW id, Rename(id) PROVE LevelInv'
    <2>1. UNCHANGED <<energy_state, meter, last_states, disk, accrual, settled>>
      BY <1>2 DEF Rename, sensorVars, storeVars
    <2> QED
      BY <1>1, <2>1, StillAtLevel DEF LevelInv, Bounded, StoredBounded
  <1>3. ASSUME NEW src, NEW r \in Readings, Install(src, r) PROVE LevelInv'
    <2>1. /\ energy_state' = r /\ meter'.level = r /\ meter'.epoch = meter.epoch + 1
          /\ UNCHANGED <<accrual, settled, last_states, disk>>
      BY <1>3 DEF Install, sensorVars, storeVars
    <2>2. LevelGrows /\ AtLevel'
      BY <1>1, <2>1, NoneAssumption, SensorAssumption DEF LevelGrows, AtLevel, Reading
    <2> QED
      BY <1>1, <2>1, <2>2, GrowsLevel
  <1>4. CASE RegistryRemove
    <2>1. /\ meter'.epoch = meter.epoch /\ meter'.level = meter.level
          /\ energy_state' = Unavailable /\ Gone /\ last_states' = Stored /\ UNCHANGED disk
      BY <1>1, <1>4 DEF RegistryRemove, TypeOK
    <2>2. AtLevel'
      BY <2>1, NoneAssumption DEF AtLevel, Reading
    <2>3. \E x : last_states' = x /\ StoredBounded(x)
      BY <2>1, StoredIsBounded
    <2>4. StoredBounded(last_states)' /\ StoredBounded(disk)'
      BY <2>1, <2>3 DEF StoredBounded, LevelInv
    <2> QED
      BY <1>1, <2>1, <2>2, <2>4, GoneLevel
  <1> QED
    BY <1>2, <1>3, <1>4 DEF Rewiring, Replace, RegistryCreate

LEMMA LevelStep ==
    ASSUME Dips = "none"
    PROVE  LevelInv /\ [Next]_vars => LevelInv'
  <1>1. ASSUME LevelInv, UNCHANGED vars PROVE LevelInv'
    <2>1. TypeOK'
      BY <1>1, TypeStep DEF LevelInv
    <2> QED
      BY <1>1, <2>1, StillAtLevel DEF LevelInv, Bounded, StoredBounded, vars, sensorVars,
                                      storeVars, worldVars
  <1> QED
    BY <1>1, HandleLevel, ServiceLevel, LifeLevel, MeteringLevel, RewiringLevel DEF Next

(* No energy of a meter that never dips is charged twice, whatever becomes  *)
(* of the baseline: stored data that does not decode, a meter replaced      *)
(* under the same id, a rename the restored data knows nothing of.  With    *)
(* NoDoubleChargeCorrect: the two faults do harm only after a dip.          *)
THEOREM NoDoubleChargeWithoutDips ==
    ASSUME Dips = "none"
    PROVE  Spec => []NoDoubleCharge
  <1>1. LevelInv => NoDoubleCharge
    BY DEF LevelInv, Bounded, NoDoubleCharge
  <1> QED
    BY <1>1, InitLevel, LevelStep, PTL DEF Spec
=============================================================================
