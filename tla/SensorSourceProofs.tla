--------------------------- MODULE SensorSourceProofs ---------------------------
(***************************************************************************)
(* A loaded sensor and its sources, for every value of CostSensor's         *)
(* constants: it misses no event, and it never charges from a baseline that *)
(* was read off another meter, nor forgets one that was read off its own.   *)
(***************************************************************************)
EXTENDS CostSensorProofs

-----------------------------------------------------------------------------
(* The sensor is in step with its sources.                                  *)

(* A usable reading is the last reading of the state it leaves.             *)
LEMMA EnergyTaken ==
    ASSUME NEW s \in AccrualState, NEW r \in Nat
    PROVE  ApplyEnergy(s, r).last_reading = r
  <1>1. ASSUME NEW e PROVE [s EXCEPT !.last_energy = e, !.last_reading = r].last_reading = r
    BY DEF AccrualState
  <1>2. Settle(s, r, s.price).last_reading = r
    BY SettleSettles DEF Settles
  <1> QED
    BY <1>1, <1>2 DEF ApplyEnergy, TrackGapEnergy

LEMMA PriceTaken ==
    ASSUME NEW s \in AccrualState, NEW p \in PriceType, NEW r \in Nat
    PROVE  ApplyPrice(s, p, r).last_reading = r
  <1>1. ASSUME NEW q \in Int
        PROVE  [Settle(s, r, q) EXCEPT !.price = p].last_reading = r
    <2>1. Settle(s, r, q) \in AccrualState /\ Settle(s, r, q).last_reading = r
      BY SettleType, SettleSettles DEF Settles
    <2> QED
      BY <2>1 DEF AccrualState
  <1>2. (s.price # None => s.price \in Int) /\ (p # None => p \in Int)
    BY DEF AccrualState, PriceType
  <1>3. r \in Parsed
    BY DEF Parsed
  <1>4. CASE s.price = None /\ p = None /\ ApplyPrice(s, p, r) = ApplyEnergy(s, r)
    BY <1>4, EnergyTaken
  <1>5. CASE p # None /\ ApplyPrice(s, p, r) = [Settle(s, r, p) EXCEPT !.price = p]
    BY <1>1, <1>2, <1>5
  <1>6. CASE s.price # None /\ ApplyPrice(s, p, r) = [Settle(s, r, s.price) EXCEPT !.price = p]
    BY <1>1, <1>2, <1>6
  <1> QED
    BY <1>3, <1>4, <1>5, <1>6, ApplyPriceCases

LEMMA InitInStep == Init => InStepWithSources
  BY DEF Init, InStepWithSources

(* An event that is handled is taken: the other one, if it is in flight,    *)
(* is still to come.                                                        *)
LEMMA HandleInStep ==
    ASSUME TypeOK, InStepWithSources, Handle
    PROVE  InStepWithSources'
  <1>1. /\ accrual \in AccrualState /\ Reading \in Parsed /\ price_state \in PriceType
        /\ Usable(Reading) # None <=> Reading \in Nat
    BY ReadingType, PriceStateType, NoneAssumption DEF TypeOK, Usable, Parsed
  <1>2. /\ UNCHANGED <<energy_state, price_state, loaded>>
        /\ Reading' = Reading
    BY DEF Handle, HandleEnergy, HandlePrice, worldVars, Reading
  <1>3. CASE HandleEnergy
    <2>1. /\ in_flight' = in_flight \ {"energy"}
          /\ available' = (energy_state # Unavailable)
      BY <1>3 DEF HandleEnergy
    <2>2. accrual'.price = accrual.price
          /\ (Reading \in Nat => accrual'.last_reading = Reading)
      <3>1. CASE Reading = None
        BY <1>3, <3>1, NoneAssumption DEF HandleEnergy
      <3>2. CASE Reading # None
        <4>1. Reading \in Nat \cup {-1} /\ accrual' = ApplyEnergy(accrual, Reading)
          BY <1>1, <1>3, <3>2 DEF HandleEnergy, Transition, Parsed
        <4> QED
          BY <1>1, <4>1, ApplyEnergyType, EnergyTaken
      <3> QED
        BY <3>1, <3>2
    <2> QED
      BY <1>1, <1>2, <2>1, <2>2 DEF InStepWithSources
  <1>4. CASE HandlePrice
    <2>1. /\ in_flight' = in_flight \ {"price"} /\ UNCHANGED available
          /\ accrual' = ApplyPrice(accrual, price_state, Reading)
      BY <1>4 DEF HandlePrice, Transition
    <2>2. accrual'.price = price_state
          /\ (Reading \in Nat => accrual'.last_reading = Reading)
      BY <1>1, <2>1, ApplyPriceType, PriceTaken
    <2> QED
      BY <1>1, <1>2, <2>1, <2>2 DEF InStepWithSources
  <1> QED
    BY <1>3, <1>4 DEF Handle

LEMMA SetupInStep ==
    ASSUME TypeOK, Setup
    PROVE  InStepWithSources'
  <1>1. /\ RestoredAccrual \in AccrualState /\ Reading \in Parsed /\ price_state \in PriceType
        /\ Usable(Reading) # None <=> Reading \in Nat
    BY RestoredType, ReadingType, PriceStateType, NoneAssumption DEF Usable, Parsed
  <1>2. /\ UNCHANGED <<energy_state, price_state>> /\ Reading' = Reading
        /\ accrual' = ApplyPrice(RestoredAccrual, price_state, Reading)
        /\ available' = (energy_state # Unavailable)
    BY DEF Setup, worldVars, Reading
  <1>3. accrual'.price = price_state
        /\ (Reading \in Nat => accrual'.last_reading = Reading)
    BY <1>1, <1>2, ApplyPriceType, PriceTaken
  <1> QED
    BY <1>1, <1>2, <1>3 DEF InStepWithSources

(* A calibration takes the reading and leaves the price.                    *)
LEMMA ServiceInStep ==
    ASSUME TypeOK, InStepWithSources, Service
    PROVE  InStepWithSources'
  <1>1. ASSUME NEW v, NEW done, CalibrateTo(v, done), Usable(Reading) # None
        PROVE  InStepWithSources'
    <2>1. Usable(Reading) = Reading
      BY <1>1 DEF Usable
    <2>2. accrual'.price = accrual.price /\ accrual'.last_reading = Reading
      BY <1>1, <2>1 DEF CalibrateTo, Calibrate
    <2>3. UNCHANGED <<energy_state, price_state, in_flight, loaded, available>>
          /\ Reading' = Reading
      BY <1>1 DEF CalibrateTo, worldVars, Reading
    <2> QED
      BY <2>2, <2>3 DEF InStepWithSources
  <1> QED
    BY <1>1 DEF Service, AsyncCalibrate, AsyncCalibrateFromImport

(* What the world writes to a loaded sensor is in flight.                   *)
LEMMA InStepStep == TypeOK /\ InStepWithSources /\ [Next]_vars => InStepWithSources'
  <1> SUFFICES ASSUME TypeOK, InStepWithSources, [Next]_vars PROVE InStepWithSources'
    OBVIOUS
  <1>1. CASE Life
    <2>1. CASE Setup
      BY <2>1, SetupInStep
    <2>2. CASE Unload \/ Restart
      BY <2>2 DEF Unload, Restart, Gone, InStepWithSources
    <2>3. CASE Dump \/ Corrupt
      BY <2>3 DEF Dump, Corrupt, InStepWithSources, sensorVars, worldVars, Reading
    <2> QED
      BY <1>1, <2>1, <2>2, <2>3 DEF Life
  <1>2. CASE Metering
    <2>1. ASSUME NEW state, NEW l, NEW e, EnergyWrite(state, l, e) PROVE InStepWithSources'
      BY <2>1 DEF EnergyWrite, InStepWithSources, sensorVars
    <2>2. ASSUME NEW p, PriceWrite(p) PROVE InStepWithSources'
      BY <2>2 DEF PriceWrite, InStepWithSources, sensorVars, Reading
    <2> QED
      BY <1>2, <2>1, <2>2 DEF Metering, Advance, Reset, Dip, Garble
  <1>3. CASE Rewiring
    <2>1. ASSUME NEW id, Rename(id) PROVE InStepWithSources'
      BY <2>1 DEF Rename, InStepWithSources, sensorVars
    <2>2. ASSUME NEW src, NEW r, Install(src, r), in_flight = {} \/ ~ loaded
          PROVE  InStepWithSources'
      BY <2>2 DEF Install, InStepWithSources, sensorVars
    <2>3. CASE RegistryRemove
      BY <2>3 DEF RegistryRemove, Gone, InStepWithSources
    <2> QED
      BY <1>3, <2>1, <2>2, <2>3 DEF Rewiring, Replace, RegistryCreate
  <1>4. CASE UNCHANGED vars
    BY <1>4 DEF vars, sensorVars, worldVars, InStepWithSources, Reading
  <1> QED
    BY <1>1, <1>2, <1>3, <1>4, HandleInStep, ServiceInStep DEF Next

(* A loaded sensor misses no event, in whichever order the energy and the   *)
(* price event of one write are handled and whatever it read at setup.      *)
THEOREM InStepCorrect == Spec => []InStepWithSources
  BY InitType, TypeStep, InitInStep, InStepStep, PTL DEF Spec

-----------------------------------------------------------------------------
(* Whose baseline it is.                                                    *)
(*                                                                          *)
(* BaselineIsThisMeters is not inductive: a restart brings a baseline back  *)
(* from a store of any age, and the code decides by the entity id and the   *)
(* registry uuid stored beside it whether it belongs to the source there is *)
(* now.  SourceInv says that these tell the truth, in the store and on disk. *)

StoredSource(extra) == [id |-> extra.energy_sensor, uuid |-> extra.source_entity_uuid]

(* A stored baseline is that of the meter behind the source and is found    *)
(* again, or it is that of a meter since replaced.                          *)
Traced(x) ==
    x # None /\ x.extra # None =>
        /\ StoredSource(x.extra) \in Source
        /\ x.extra.last_energy # None =>
              \/ x.base_meter = meter.number /\ SameMeter(x.extra)
              \/ /\ x.base_meter < meter.number
                 /\ Identity(StoredSource(x.extra)) \in meter.replaced

SourceInv ==
    /\ TypeOK
    /\ source \in Source
    /\ Identity(source) \notin meter.replaced
    /\ accrual.last_energy = None <=> accrual.last_reading = None
    /\ loaded => bound = source
    /\ BaselineIsThisMeters
    /\ Traced(last_states)
    /\ Traced(disk)

(* Ids and uuids find no meter but the one they were stored for.            *)
LEMMA SameMeterSameIdentity ==
    ASSUME source \in Source, NEW extra, StoredSource(extra) \in Source, SameMeter(extra)
    PROVE  Identity(StoredSource(extra)) = Identity(source)
  <1> DEFINE x == StoredSource(extra)
  <1>1. x.id = extra.energy_sensor /\ x.uuid = extra.source_entity_uuid
    BY DEF StoredSource
  <1>2. ASSUME NEW y \in Source
        PROVE  IF y.uuid = None THEN y.id \in BareIds ELSE y.id \notin BareIds
    BY SensorAssumption DEF Source
  <1>3. CASE x.uuid # None /\ source.uuid # None
    BY <1>1, <1>3 DEF SameMeter, Identity
  <1>4. CASE ~ (x.uuid # None /\ source.uuid # None)
    <2>1. x.id = source.id
      BY <1>1, <1>4 DEF SameMeter
    <2>2. x.uuid = None /\ source.uuid = None
      BY <1>2, <1>4, <2>1
    <2> QED
      BY <2>1, <2>2 DEF Identity
  <1> QED
    BY <1>3, <1>4

(* What is restored to the present source is its own meter's.               *)
LEMMA RestoredBaseline ==
    ASSUME SourceInv
    PROVE  /\ RestoredAccrual.last_energy = None <=> RestoredAccrual.last_reading = None
           /\ HasBaseline(RestoredAccrual) => last_states.base_meter = meter.number
  <1>1. CASE last_states = None \/ last_states.extra = None
    BY <1>1 DEF RestoredAccrual, InitialState, HasBaseline
  <1>2. CASE last_states # None /\ last_states.extra # None
    <2> DEFINE extra == last_states.extra
               baseline == IF SameMeter(extra) THEN extra.last_energy ELSE None
    <2>1. RestoredAccrual = [cost |-> extra.cost, last_energy |-> baseline,
                             last_reading |-> baseline, price |-> None]
      BY <1>2 DEF RestoredAccrual
    <2>2. ASSUME baseline # None PROVE last_states.base_meter = meter.number
      <3>1. SameMeter(extra) /\ extra.last_energy # None
        BY <2>2
      <3>2. Identity(StoredSource(extra)) = Identity(source)
        BY <1>2, <3>1, SameMeterSameIdentity DEF SourceInv, Traced
      <3> QED
        BY <1>2, <3>1, <3>2 DEF SourceInv, Traced
    <2> QED
      BY <2>1, <2>2 DEF HasBaseline
  <1> QED
    BY <1>1, <1>2

LEMMA InitSource == Init => SourceInv
  <1> SUFFICES ASSUME Init PROVE SourceInv
    OBVIOUS
  <1>1. TypeOK /\ source \in Source /\ meter.replaced = {}
    BY InitType DEF Init
  <1>2. accrual = InitialState /\ ~ loaded /\ last_states = None /\ disk = None
    BY DEF Init
  <1> QED
    BY <1>1, <1>2 DEF SourceInv, InitialState, BaselineIsThisMeters, Traced

(* A transition of the accrual keeps the baseline or takes it at the meter. *)
LEMMA TransitionSource ==
    ASSUME SourceInv, NEW next, NEW k, Transition(next, k), TypeOK',
           next.last_energy = None <=> next.last_reading = None,
           HasBaseline(accrual) => HasBaseline(next),
           UNCHANGED <<loaded, bound, source, meter, last_states, disk>>
    PROVE  SourceInv'
  <1>1. accrual' = next
        /\ base_meter' = IF HasBaseline(accrual) \/ ~ HasBaseline(next)
                         THEN base_meter ELSE meter.number
    BY DEF Transition
  <1>2. BaselineIsThisMeters'
    BY <1>1 DEF SourceInv, BaselineIsThisMeters
  <1> QED
    BY <1>1, <1>2 DEF SourceInv, Traced, SameMeter

LEMMA HandleSource ==
    ASSUME SourceInv, Handle
    PROVE  SourceInv'
  <1>1. /\ TypeOK /\ TypeOK' /\ accrual \in AccrualState
        /\ Reading \in Parsed /\ price_state \in PriceType
        /\ UNCHANGED <<loaded, bound, source, meter, last_states, disk>>
    BY HandleType, ReadingType, PriceStateType
       DEF SourceInv, TypeOK, Handle, HandleEnergy, HandlePrice, storeVars, worldVars
  <1>2. ASSUME NEW next, NEW k, Transition(next, k),
               HasBaseline(next) \/ ( /\ next.last_energy = accrual.last_energy
                                      /\ next.last_reading = accrual.last_reading )
        PROVE  SourceInv'
    <2>1. /\ next.last_energy = None <=> next.last_reading = None
          /\ HasBaseline(accrual) => HasBaseline(next)
      BY <1>2 DEF HasBaseline, SourceInv
    <2> QED
      BY <1>1, <1>2, <2>1, TransitionSource
  <1>3. CASE HandleEnergy /\ Reading = None
    <2>1. UNCHANGED <<accrual, base_meter>>
      BY <1>3 DEF HandleEnergy
    <2> QED
      BY <1>1, <2>1 DEF SourceInv, BaselineIsThisMeters, Traced, SameMeter
  <1>4. CASE HandleEnergy /\ Reading # None
    <2>1. Reading \in Nat \cup {-1}
      BY <1>1, <1>4 DEF Parsed
    <2>2. \/ HasBaseline(ApplyEnergy(accrual, Reading))
          \/ ApplyEnergy(accrual, Reading) = accrual
      BY <1>1, <2>1, ApplyEnergyType
    <2>3. Transition(ApplyEnergy(accrual, Reading), Priced(accrual, accrual.price, Reading))
      BY <1>4 DEF HandleEnergy
    <2> QED
      BY <1>2, <2>2, <2>3
  <1>5. CASE HandlePrice
    <2> DEFINE next == ApplyPrice(accrual, price_state, Reading)
    <2>1. Transition(next, Priced(accrual, price_state, Reading))
      BY <1>5 DEF HandlePrice
    <2>2. HasBaseline(next) \/ next = [accrual EXCEPT !.price = price_state]
      BY <1>1, ApplyPriceType
    <2>3. HasBaseline(next) \/ ( /\ next.last_energy = accrual.last_energy
                                 /\ next.last_reading = accrual.last_reading )
      BY <1>1, <2>2 DEF AccrualState
    <2> HIDE DEF next
    <2> QED
      BY <1>2, <2>1, <2>3
  <1> QED
    BY <1>3, <1>4, <1>5 DEF Handle

LEMMA ServiceSource ==
    ASSUME SourceInv, Service
    PROVE  SourceInv'
  <1>1. TypeOK'
    BY ServiceType DEF SourceInv
  <1>2. ASSUME NEW v, NEW done, CalibrateTo(v, done), Usable(Reading) # None
        PROVE  SourceInv'
    <2>1. Usable(Reading) = Reading
      BY <1>2 DEF Usable
    <2>2. /\ accrual'.last_energy = Reading /\ accrual'.last_reading = Reading
          /\ base_meter' = meter.number
      BY <1>2, <2>1 DEF CalibrateTo, Calibrate
    <2>3. UNCHANGED <<loaded, bound, source, meter, last_states, disk>>
      BY <1>2 DEF CalibrateTo, storeVars, worldVars
    <2> QED
      BY <1>1, <2>2, <2>3 DEF SourceInv, BaselineIsThisMeters, Traced, SameMeter
  <1> QED
    BY <1>2 DEF Service, AsyncCalibrate, AsyncCalibrateFromImport

(* Setup takes the baseline back only if it is this meter's.                *)
LEMMA SetupSource ==
    ASSUME SourceInv, Setup
    PROVE  SourceInv'
  <1> DEFINE restored == RestoredAccrual
             next == ApplyPrice(restored, price_state, Reading)
  <1>1. /\ TypeOK' /\ restored \in AccrualState
        /\ Reading \in Parsed /\ price_state \in PriceType
    BY SetupType, RestoredType, ReadingType, PriceStateType DEF SourceInv
  <1>2. /\ accrual' = next /\ bound' = source /\ last_states' = None
        /\ base_meter' = IF HasBaseline(restored) THEN last_states.base_meter
                         ELSE IF HasBaseline(next) THEN meter.number ELSE 0
        /\ UNCHANGED <<source, meter, disk>>
    BY DEF Setup, worldVars
  <1>3. /\ restored.last_energy = None <=> restored.last_reading = None
        /\ HasBaseline(restored) => last_states.base_meter = meter.number
    BY RestoredBaseline
  <1>4. HasBaseline(next) \/ ( /\ next.last_energy = restored.last_energy
                               /\ next.last_reading = restored.last_reading )
    <2>1. HasBaseline(next) \/ next = [restored EXCEPT !.price = price_state]
      BY <1>1, ApplyPriceType
    <2> HIDE DEF restored
    <2> QED
      BY <1>1, <2>1 DEF AccrualState
  <1> HIDE DEF next, restored
  <1>5. /\ next.last_energy = None <=> next.last_reading = None
        /\ HasBaseline(next) => base_meter' = meter.number
    BY <1>2, <1>3, <1>4 DEF HasBaseline
  <1> QED
    BY <1>1, <1>2, <1>5 DEF SourceInv, BaselineIsThisMeters, Traced, SameMeter

(* What a loaded sensor stores is its own meter's.                          *)
LEMMA StoredTraced ==
    ASSUME SourceInv, loaded
    PROVE  Traced(Stored)
  <1>1. Stored.extra # None => /\ StoredSource(Stored.extra) = bound
                               /\ SameMeter(Stored.extra)
    BY DEF Stored, StoredSource, SourceInv, SameMeter, TypeOK
  <1>2. Stored.extra.last_energy # None => Stored.base_meter = meter.number
    BY DEF Stored, SourceInv, BaselineIsThisMeters, HasBaseline
  <1> QED
    BY <1>1, <1>2 DEF Traced, SourceInv

LEMMA LifeSource ==
    ASSUME SourceInv, Life
    PROVE  SourceInv'
  <1>1. TypeOK'
    BY LifeType DEF SourceInv
  <1>2. ASSUME UNCHANGED <<source, meter>>, NEW x, Traced(x)
        PROVE  Traced(x)'
    BY <1>2 DEF Traced, SameMeter
  <1>3. ASSUME Gone, UNCHANGED <<source, meter>>, Traced(last_states)', Traced(disk)'
        PROVE  SourceInv'
    <2>1. accrual'.last_energy = None <=> accrual'.last_reading = None
      BY <1>3 DEF Gone, InitialState
    <2> QED
      BY <1>1, <1>3, <2>1 DEF Gone, SourceInv, BaselineIsThisMeters
  <1>4. CASE Setup
    BY <1>4, SetupSource
  <1>5. CASE Unload
    <2>1. Traced(last_states)' /\ Traced(disk)'
      BY <1>5, StoredTraced DEF Unload, worldVars, SourceInv, Traced, SameMeter
    <2> QED
      BY <1>3, <1>5, <2>1 DEF Unload, worldVars
  <1>6. CASE Dump
    <2>1. Traced(last_states)' /\ Traced(disk)'
      BY <1>6, StoredTraced DEF Dump, worldVars, SourceInv, Traced, SameMeter
    <2> QED
      BY <1>1, <1>6, <2>1 DEF Dump, worldVars, sensorVars, SourceInv, BaselineIsThisMeters
  <1>7. CASE Restart
    <2>1. Traced(last_states)' /\ Traced(disk)'
      BY <1>7 DEF Restart, worldVars, SourceInv, Traced, SameMeter
    <2> QED
      BY <1>3, <1>7, <2>1 DEF Restart, worldVars
  <1>8. CASE Corrupt
    <2>1. last_states'.extra = None /\ UNCHANGED <<source, meter, disk>>
      BY <1>8 DEF Corrupt, worldVars, SourceInv, TypeOK, StoredState
    <2>2. Traced(last_states)' /\ Traced(disk)'
      BY <2>1 DEF SourceInv, Traced, SameMeter
    <2> QED
      BY <1>1, <1>8, <2>1, <2>2 DEF Corrupt, sensorVars, SourceInv, BaselineIsThisMeters
  <1> QED
    BY <1>4, <1>5, <1>6, <1>7, <1>8 DEF Life

LEMMA MeteringSource ==
    ASSUME SourceInv, Metering
    PROVE  SourceInv'
  <1>1. TypeOK /\ TypeOK'
    BY MeteringType DEF SourceInv
  <1>2. ASSUME meter'.number = meter.number, meter'.replaced = meter.replaced,
               UNCHANGED <<sensorVars, storeVars, source>>
        PROVE  SourceInv'
    BY <1>1, <1>2 DEF sensorVars, storeVars, SourceInv, BaselineIsThisMeters, Traced, SameMeter
  <1>3. ASSUME NEW state, NEW l, NEW e, EnergyWrite(state, l, e) PROVE SourceInv'
    BY <1>1, <1>2, <1>3 DEF EnergyWrite, TypeOK
  <1>4. ASSUME NEW p, PriceWrite(p) PROVE SourceInv'
    BY <1>1, <1>2, <1>4 DEF PriceWrite
  <1> QED
    BY <1>3, <1>4 DEF Metering, Advance, Reset, Dip, Garble

(* A rename keeps the uuid, and with it what is stored for the source; a     *)
(* replaced meter's identity comes back with no other meter.                *)
LEMMA RewiringSource ==
    ASSUME ~ ReplaceInPlace, SourceInv, Rewiring
    PROVE  SourceInv'
  <1>1. /\ TypeOK /\ TypeOK' /\ source \in Source
        /\ meter.number \in Nat
    BY RewiringType DEF SourceInv, TypeOK
  <1>2. ASSUME NEW y \in Source
        PROVE  IF y.uuid = None THEN y.id \in BareIds ELSE y.id \notin BareIds
    BY SensorAssumption DEF Source
  <1>3. ASSUME NEW id \in Ids, Rename(id) PROVE SourceInv'
    <2>1. /\ source'.uuid = source.uuid /\ source'.id = id /\ id \notin BareIds
          /\ source.uuid # None /\ source' \in Source
          /\ UNCHANGED <<sensorVars, storeVars, meter>> /\ ~ loaded
      BY <1>1, <1>3 DEF Rename, Source
    <2>2. Identity(source') = Identity(source)
      BY <2>1 DEF Identity
    <2>3. ASSUME NEW x, x.extra # None, StoredSource(x.extra) \in Source
          PROVE  SameMeter(x.extra)' <=> SameMeter(x.extra)
      <3>1. /\ StoredSource(x.extra).id = x.extra.energy_sensor
            /\ StoredSource(x.extra).uuid = x.extra.source_entity_uuid
        BY DEF StoredSource
      <3>2. source.id \notin BareIds
        BY <1>1, <1>2, <2>1
      <3> QED
        BY <1>2, <2>1, <2>3, <3>1, <3>2 DEF SameMeter
    <2>4. Traced(last_states)' /\ Traced(disk)'
      BY <2>1, <2>3 DEF SourceInv, Traced, storeVars
    <2> QED
      BY <1>1, <2>1, <2>2, <2>4 DEF SourceInv, BaselineIsThisMeters, sensorVars
  <1>4. ASSUME NEW src \in Source, NEW r \in Readings, Replace(src, r) PROVE SourceInv'
    <2>1. /\ source' = src /\ Identity(src) \notin meter.replaced \cup {Identity(source)}
          /\ meter'.number = meter.number + 1
          /\ meter'.replaced = meter.replaced \cup {Identity(source)}
          /\ UNCHANGED <<sensorVars, storeVars>> /\ ~ loaded
      BY <1>4 DEF Replace, Install
    <2>2. ASSUME NEW x \in StoredState, x.extra # None, Traced(x)
          PROVE  /\ StoredSource(x.extra) \in Source
                 /\ x.extra.last_energy # None =>
                      /\ x.base_meter < meter.number + 1
                      /\ Identity(StoredSource(x.extra))
                           \in meter.replaced \cup {Identity(source)}
      <3>1. x # None /\ x.base_meter \in Nat
        BY SensorAssumption DEF StoredState
      <3> QED
        BY <1>1, <2>2, <3>1, SameMeterSameIdentity DEF Traced
    <2>3. /\ last_states # None => last_states \in StoredState
          /\ disk # None => disk \in StoredState
      BY <1>1 DEF TypeOK
    <2>4. Traced(last_states)' /\ Traced(disk)'
      BY <2>1, <2>2, <2>3 DEF SourceInv, Traced, storeVars
    <2> QED
      BY <1>1, <2>1, <2>4 DEF SourceInv, BaselineIsThisMeters, sensorVars
  <1>5. ~ RegistryRemove /\ \A uuid, r : ~ RegistryCreate(uuid, r)
    BY DEF RegistryRemove, RegistryCreate
  <1> QED
    BY <1>3, <1>4, <1>5 DEF Rewiring

LEMMA SourceStep ==
    ASSUME ~ ReplaceInPlace
    PROVE  SourceInv /\ [Next]_vars => SourceInv'
  <1>1. ASSUME SourceInv, UNCHANGED vars PROVE SourceInv'
    <2>1. TypeOK'
      BY <1>1, TypeStep DEF SourceInv
    <2> QED
      BY <1>1, <2>1 DEF SourceInv, BaselineIsThisMeters, Traced, SameMeter, vars, sensorVars,
                        storeVars, worldVars
  <1> QED
    BY <1>1, HandleSource, ServiceSource, LifeSource, MeteringSource, RewiringSource DEF Next

(* A baseline is never replayed against another meter, over renames,        *)
(* replacements by reconfiguration, restarts from a store of any age and    *)
(* stored data that does not decode, unless a registry entry is created     *)
(* anew under the same entity id (run SensorReplaceInPlace).                *)
THEOREM BaselineIsThisMetersCorrect ==
    ASSUME ~ ReplaceInPlace
    PROVE  Spec => []BaselineIsThisMeters
  <1>1. SourceInv => BaselineIsThisMeters
    BY DEF SourceInv
  <1> QED
    BY <1>1, InitSource, SourceStep, PTL DEF Spec

-----------------------------------------------------------------------------
(* What is charged at setup.                                                *)

(* Settling from a baseline that is the last reading charges what lies     *)
(* above it, at the price given.                                           *)
LEMMA SettleAbove ==
    ASSUME NEW s \in AccrualState, NEW r \in Nat, NEW p \in Int,
           s.last_energy \in Nat, s.last_reading = s.last_energy, r >= s.last_energy
    PROVE  Settle(s, r, p).cost = s.cost + (r - s.last_energy) * p
  <1> DEFINE k == ChargedEnergy(s, r)
             e == IF Rebaselines(s, r) THEN r ELSE s.last_energy
  <1>1. k = r - s.last_energy
    BY NoneAssumption DEF ChargedEnergy, Classify, HasBaseline
  <1>2. Settle(s, r, p) = [s EXCEPT !.cost = s.cost + k * p,
                                    !.last_energy = e, !.last_reading = r]
    BY DEF Settle
  <1>3. Settle(s, r, p).cost = s.cost + k * p
    <2> HIDE DEF k, e
    <2> QED
      BY <1>2, RecordForm
  <1> QED
    BY <1>1, <1>3

(* A baseline that is this meter's is found again, by id or by uuid.       *)
LEMMA OwnBaselineRestored ==
    ASSUME SourceInv, last_states # None, last_states.extra # None,
           last_states.base_meter = meter.number, last_states.extra.last_energy # None
    PROVE  RestoredAccrual = [cost |-> last_states.extra.cost,
                              last_energy |-> last_states.extra.last_energy,
                              last_reading |-> last_states.extra.last_energy,
                              price |-> None]
  <1>1. meter.number \in Nat
    BY DEF SourceInv, TypeOK
  <1>2. SameMeter(last_states.extra)
    BY <1>1 DEF SourceInv, Traced
  <1> QED
    BY <1>2 DEF RestoredAccrual

LEMMA SetupCharges ==
    ASSUME SourceInv, Setup, last_states # None, last_states.extra # None,
           last_states.base_meter = meter.number, last_states.extra.last_energy # None,
           price_state # None, Usable(Reading) # None,
           Reading >= last_states.extra.last_energy
    PROVE  accrual'.cost = last_states.extra.cost
                           + (Reading - last_states.extra.last_energy) * price_state
  <1> DEFINE s == RestoredAccrual
             extra == last_states.extra
  <1>1. /\ s \in AccrualState /\ price_state \in Int
        /\ Reading \in Nat /\ Usable(Reading) = Reading
    BY RestoredType, ReadingType, PriceStateType DEF SourceInv, Usable, Parsed, PriceType
  <1>2. s.cost = extra.cost /\ s.last_energy = extra.last_energy
        /\ s.last_reading = extra.last_energy /\ s.price = None
    BY OwnBaselineRestored
  <1>3. s.last_energy \in Nat
    BY <1>1, <1>2 DEF AccrualState
  <1> HIDE DEF s
  <1>4. Settle(s, Reading, price_state) \in AccrualState
        /\ Settle(s, Reading, price_state).cost
              = extra.cost + (Reading - extra.last_energy) * price_state
    <2>1. Settle(s, Reading, price_state) \in AccrualState
      BY <1>1, SettleType
    <2>2. s.last_energy \in Nat /\ s.last_reading = s.last_energy /\ Reading >= s.last_energy
      BY <1>2, <1>3
    <2>3. Settle(s, Reading, price_state).cost
             = s.cost + (Reading - s.last_energy) * price_state
      BY <1>1, <2>2, SettleAbove
    <2> QED
      BY <1>2, <2>1, <2>3
  <1>5. accrual' = [Settle(s, Reading, price_state) EXCEPT !.price = price_state]
    <2>1. price_state # None /\ accrual' = ApplyPrice(s, price_state, Reading)
      BY <1>1 DEF Setup, s
    <2> QED
      BY <1>1, <1>2, <2>1 DEF ApplyPrice, EndGap
  <1> QED
    BY <1>4, <1>5 DEF AccrualState

(* Nothing but setup loads a sensor. *)
LEMMA LoadingIsSetup ==
    ASSUME [Next]_vars, ~ loaded, loaded'
    PROVE  Setup
  <1>1. ~ Handle /\ ~ Service /\ ~ Metering /\ ~ UNCHANGED vars
    BY DEF Handle, HandleEnergy, HandlePrice, Service, AsyncCalibrate,
           AsyncCalibrateFromImport, Metering, Advance, Reset, Dip, Garble, EnergyWrite,
           PriceWrite, sensorVars, vars
  <1>2. ~ Rewiring
    BY DEF Rewiring, Rename, Replace, RegistryRemove, RegistryCreate, Install, Gone,
           sensorVars
  <1>3. ~ Unload /\ ~ Dump /\ ~ Restart /\ ~ Corrupt
    BY DEF Unload, Dump, Restart, Corrupt, Gone, sensorVars
  <1> QED
    BY <1>1, <1>2, <1>3 DEF Next, Life

(* Energy metered while the sensor was away is charged at setup, from the   *)
(* stored baseline and at the price in force, whichever dump the restart    *)
(* went back to and however often the source was renamed: no baseline of    *)
(* the meter is lost because its id or its uuid was not found again.        *)
THEOREM EnergyWhileAwayIsChargedCorrect ==
    ASSUME ~ ReplaceInPlace
    PROVE  Spec => EnergyWhileAwayIsCharged
  <1> DEFINE Charged ==
        (~ loaded /\ loaded' /\ last_states # None) =>
          LET extra == last_states.extra
          IN  ( /\ extra # None /\ last_states.base_meter = meter.number
                /\ extra.last_energy # None /\ price_state # None
                /\ Usable(Reading) # None /\ Reading >= extra.last_energy ) =>
              accrual'.cost = extra.cost
                              + (Reading - extra.last_energy) * price_state
  <1>1. SourceInv /\ [Next]_vars => [Charged]_vars
    BY LoadingIsSetup, SetupCharges
  <1> QED
    BY <1>1, InitSource, SourceStep, PTL DEF Spec, EnergyWhileAwayIsCharged
=============================================================================
