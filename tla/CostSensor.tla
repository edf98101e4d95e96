------------------------------ MODULE CostSensor ------------------------------
(***************************************************************************)
(* One appliance's cost sensor (ApplianceCostSensor in sensor.py): it       *)
(* restores its state at setup, follows an energy source and a price        *)
(* source, is calibrated by two services, and is unloaded, reloaded, dumped *)
(* to disk and killed like any restore entity of Home Assistant.            *)
(*                                                                          *)
(* Around it stand the sources it reads.  A meter has a true level, which   *)
(* its source may report with a dip; it advances, resets, is unavailable or *)
(* talks nonsense, is renamed and is replaced.  `meter' is that truth: the  *)
(* sensor never reads it.                                                   *)
(*                                                                          *)
(* Home Assistant delivers a state change to its listeners within the write *)
(* (one event-loop callback).  A listener may write in turn, so a price     *)
(* that is derived from the energy source can change while the energy event *)
(* is still on its way to this sensor: `in_flight' holds the events written *)
(* and not yet handled, and nothing else happens until it is empty.         *)
(***************************************************************************)
EXTENDS Accrual

CONSTANTS Unavailable, Unknown,  \* source states that carry no reading
          Readings,              \* the readings the meters report
          Prices,                \* the prices per kWh
          Values,                \* the costs a calibration may set
          Ids, Uuids,            \* entity ids and registry uuids of sources
          BareIds,               \* the ids of sources that are not registered
          Nonsense,              \* unusable states the energy source may take
          Dips,                  \* "none", "level" or "compound": see Dip
          MaxEpoch,              \* bound: meter epochs (resets, replacements)
          Corruption,            \* may the stored data become undecodable?
          ReplaceInPlace         \* may a source be replaced under its own id?

(* What the restore store keeps of a sensor.  The extra data and the state  *)
(* are the code's; the other fields are history and decide nothing.        *)
ExtraData == [cost: Int, last_energy: Nat \cup {None}, energy_sensor: Ids,
              source_entity_uuid: Uuids \cup {None}]

StoredState == [extra: ExtraData \cup {None}, state: Int \cup {None},
                settled: [epoch: Nat, kwh: Nat], base_meter: Nat,
                last_reading: Nat \cup {None}]

ASSUME SensorAssumption ==
    /\ None \notin ExtraData \cup StoredState
    /\ Readings \subseteq Nat
    /\ Prices \subseteq Int
    /\ Values \subseteq Int
    /\ None \notin Uuids \cup Ids /\ BareIds \subseteq Ids
    /\ {Unavailable, Unknown} \cap (Int \cup {None}) = {}
    /\ Nonsense \subseteq {Unavailable, Unknown, -1}
    /\ Dips \in {"none", "level", "compound"}
    /\ MaxEpoch \in Nat
    /\ Corruption \in BOOLEAN /\ ReplaceInPlace \in BOOLEAN

VARIABLES
    accrual,        \* _accrual
    loaded,         \* the entity is added and subscribed
    available,      \* _attr_available
    bound,          \* _energy_sensor and _source_entity_uuid
    energy_state,   \* the state of the energy source
    price_state,    \* the state of the price source, parsed
    in_flight,      \* source events not yet handled
    source,         \* the source's entity id and its registry uuid, if any
    last_states,    \* what the restore store keeps of an unloaded sensor
    disk,           \* what the store holds on disk
    meter,          \* the truth: which meter, its epoch and level, and the
                    \* identities of the meters it replaced
    settled,        \* history: energy of an epoch priced, or waived for good
    base_meter      \* history: the meter the baseline was taken from

sensorVars == <<accrual, loaded, available, bound, settled, base_meter>>
storeVars  == <<last_states, disk>>
worldVars  == <<energy_state, price_state, source, meter>>
vars == <<sensorVars, storeVars, worldVars, in_flight>>

NothingSettled == [epoch |-> 0, kwh |-> 0]
Unbound == [id |-> None, uuid |-> None]

(* Sources the appliance may be bound to: an id is registered, or not. *)
Source == [id: BareIds, uuid: {None}] \cup [id: Ids \ BareIds, uuid: Uuids]

(* What tells one meter from another.  No meter inherits it. *)
Identity(src) == IF src.uuid # None THEN src.uuid ELSE src.id

(* What the energy source's state parses to: a reading or None. *)
Reading == IF energy_state \in {Unavailable, Unknown} THEN None ELSE energy_state

-----------------------------------------------------------------------------
(* The history variable.  A transition that charges k kWh, or moves the    *)
(* baseline, settles the epoch's energy up to the new baseline; counting   *)
(* the charges one by one keeps energy that is charged twice visible.      *)
SettledBy(before, after, k, old) ==
    LET so_far == IF old.epoch = meter.epoch THEN old.kwh ELSE 0
    IN  IF k = 0 /\ after.last_energy = before.last_energy THEN old
        ELSE [epoch |-> meter.epoch,
              kwh |-> IF so_far + k > after.last_energy THEN so_far + k
                      ELSE after.last_energy]

(* Adopt the next accrual state. *)
Transition(next, k) ==
    /\ accrual' = next
    /\ settled' = SettledBy(accrual, next, k, settled)
    /\ base_meter' = IF HasBaseline(accrual) \/ ~ HasBaseline(next)
                     THEN base_meter ELSE meter.number

-----------------------------------------------------------------------------
(* Setup: restore, take one reading at the current price, subscribe.       *)

(* Mistake: the entity id alone tells meters apart. *)
SameMeterById(extra) == extra.energy_sensor = source.id

(* The uuid decides when both sides have one, the entity id otherwise. *)
SameMeter(extra) ==
    IF extra.source_entity_uuid # None /\ source.uuid # None
    THEN extra.source_entity_uuid = source.uuid
    ELSE extra.energy_sensor = source.id

(* Mistake: a lost baseline is taken for zero. *)
RestoredAccrualFromZero ==
    IF last_states = None THEN InitialState
    ELSE LET extra == last_states.extra
             baseline == IF SameMeter(extra) THEN extra.last_energy ELSE None
         IN  IF extra # None
             THEN [cost |-> extra.cost, last_energy |-> baseline,
                   last_reading |-> baseline, price |-> None]
             ELSE [InitialState EXCEPT !.cost = IF last_states.state = None THEN 0
                                                ELSE last_states.state,
                                       !.last_energy = 0, !.last_reading = 0]

(* Intact extra data; else the cost in the last state; else zero.  The     *)
(* last raw reading is not stored: it restarts at the baseline.            *)
RestoredAccrual ==
    IF last_states = None THEN InitialState
    ELSE LET extra == last_states.extra
             baseline == IF SameMeter(extra) THEN extra.last_energy ELSE None
         IN  IF extra # None
             THEN [cost |-> extra.cost, last_energy |-> baseline,
                   last_reading |-> baseline, price |-> None]
             ELSE IF last_states.state # None
             THEN [InitialState EXCEPT !.cost = last_states.state]
             ELSE InitialState

(* History kept with the restored cost (nothing, if the cost is lost). *)
RestoredSettled ==
    IF last_states = None THEN NothingSettled
    ELSE IF last_states.extra = None /\ last_states.state = None
    THEN NothingSettled ELSE last_states.settled

(* Mistake: an await falls between reading the sources and subscribing, so *)
(* that what is taken is of an earlier moment and no event makes up for it. *)
SetupReadEarly ==
    \E price \in Prices \cup {None}, reading \in Readings \cup {None} :
        LET restored == RestoredAccrual
            next == ApplyPrice(restored, price, reading)
            k == Priced(restored, price, reading)
        IN  /\ ~ loaded /\ loaded' = TRUE
            /\ bound' = source
            /\ accrual' = next
            /\ settled' = SettledBy(restored, next, k, RestoredSettled)
            /\ base_meter' = meter.number
            /\ available' = (energy_state # Unavailable)
            /\ last_states' = None
            /\ UNCHANGED <<disk, worldVars, in_flight>>

Setup ==
    LET restored == RestoredAccrual
        next == ApplyPrice(restored, price_state, Reading)
        k == Priced(restored, price_state, Reading)
    IN  /\ ~ loaded
        /\ loaded' = TRUE
        /\ bound' = source
        /\ accrual' = next
        /\ settled' = SettledBy(restored, next, k, RestoredSettled)
        /\ base_meter' = IF HasBaseline(restored) THEN last_states.base_meter
                         ELSE IF HasBaseline(next) THEN meter.number ELSE 0
        /\ available' = (energy_state # Unavailable)
        /\ last_states' = None
        /\ UNCHANGED <<disk, worldVars, in_flight>>

(* The handlers of the two source events. *)
HandleEnergy ==
    /\ "energy" \in in_flight
    /\ in_flight' = in_flight \ {"energy"}
    /\ available' = (energy_state # Unavailable)
    /\ IF Reading = None
       THEN UNCHANGED <<accrual, settled, base_meter>>
       ELSE Transition(ApplyEnergy(accrual, Reading),
                       Priced(accrual, accrual.price, Reading))
    /\ UNCHANGED <<loaded, bound, storeVars, worldVars>>

HandlePrice ==
    /\ "price" \in in_flight
    /\ in_flight' = in_flight \ {"price"}
    /\ Transition(ApplyPrice(accrual, price_state, Reading),
                  Priced(accrual, price_state, Reading))
    /\ UNCHANGED <<loaded, available, bound, storeVars, worldVars>>

-----------------------------------------------------------------------------
(* The services.  Both refuse without a usable reading.                    *)
CalibrateTo(value, done) ==
    /\ accrual' = Calibrate(accrual, value, Reading)
    /\ settled' = [epoch |-> meter.epoch, kwh |-> done]
    /\ base_meter' = meter.number
    /\ UNCHANGED <<loaded, available, bound, storeVars, worldVars, in_flight>>

AsyncCalibrate(value) ==
    /\ loaded /\ in_flight = {}
    /\ Usable(Reading) # None
    /\ CalibrateTo(value, Reading)

(* The cutover after an import whose last costed hour ended at the meter   *)
(* reading `end', in this epoch or in an earlier one.                      *)
AsyncCalibrateFromImport(total, end, this_epoch) ==
    /\ loaded /\ in_flight = {}
    /\ accrual.price # None
    /\ Usable(Reading) # None
    /\ this_epoch => end <= meter.level
    /\ CutoverValue(total, end, Reading, accrual.price) # None
    /\ CalibrateTo(CutoverValue(total, end, Reading, accrual.price),
                   IF this_epoch /\ end > Reading THEN end ELSE Reading)

-----------------------------------------------------------------------------
(* The entity's life.                                                      *)
Stored ==
    [extra |-> [cost |-> accrual.cost, last_energy |-> accrual.last_energy,
                energy_sensor |-> bound.id, source_entity_uuid |-> bound.uuid],
     state |-> IF available THEN accrual.cost ELSE None,
     settled |-> settled, base_meter |-> base_meter,
     last_reading |-> accrual.last_reading]

Gone ==
    /\ accrual' = InitialState /\ loaded' = FALSE /\ available' = FALSE
    /\ bound' = Unbound /\ settled' = NothingSettled /\ base_meter' = 0
    /\ in_flight' = {}

(* The entry is unloaded, alone or as the first half of a reload. *)
Unload ==
    /\ loaded /\ in_flight = {}
    /\ last_states' = Stored
    /\ Gone
    /\ UNCHANGED <<disk, worldVars>>

(* The restore store is written: every quarter of an hour and at shutdown. *)
Dump ==
    /\ in_flight = {}
    /\ disk' = IF loaded THEN Stored ELSE last_states
    /\ UNCHANGED <<sensorVars, last_states, worldVars, in_flight>>

(* Home Assistant stops or is killed; the next start reads the disk. *)
Restart ==
    /\ last_states' = disk
    /\ Gone
    /\ UNCHANGED <<disk, worldVars>>

(* The stored extra data no longer decodes. *)
Corrupt ==
    /\ Corruption /\ ~ loaded
    /\ last_states # None
    /\ last_states' = [last_states EXCEPT !.extra = None]
    /\ UNCHANGED <<sensorVars, disk, worldVars, in_flight>>

-----------------------------------------------------------------------------
(* The sources.                                                            *)
EnergyWrite(state, level, epoch) ==
    /\ in_flight = {}
    /\ energy_state' = state
    /\ meter' = [meter EXCEPT !.level = level, !.epoch = epoch]
    /\ in_flight' = IF loaded THEN {"energy"} ELSE {}
    /\ UNCHANGED <<sensorVars, storeVars, price_state, source>>

Advance(r) == r >= meter.level /\ EnergyWrite(r, r, meter.epoch)

(* The meter restarts; whatever it then reports is consumption since. *)
Reset(r) ==
    /\ r < meter.level /\ meter.epoch < MaxEpoch
    /\ EnergyWrite(r, r, meter.epoch + 1)

(* The source reports less than the level, within 10 %: of the level, or,  *)
(* if dips compound, of the reading before.                                *)
Dip(r) ==
    /\ r < meter.level
    /\ \/ Dips = "level" /\ 10 * r >= 9 * meter.level
       \/ Dips = "compound" /\ Usable(Reading) # None
          /\ r < Reading /\ 10 * r >= 9 * Reading
    /\ EnergyWrite(r, meter.level, meter.epoch)

Garble(state) == EnergyWrite(state, meter.level, meter.epoch)

PriceWrite(p) ==
    /\ "price" \notin in_flight
    /\ price_state' = p
    /\ in_flight' = IF loaded THEN in_flight \cup {"price"} ELSE in_flight
    /\ UNCHANGED <<sensorVars, storeVars, energy_state, source, meter>>

(* The source is renamed, and the entry follows it or is reconfigured: the *)
(* same meter under another id.  The entry is not loaded in between.       *)
Rename(id) ==
    /\ ~ loaded /\ source.uuid # None /\ id \notin BareIds
    /\ source' = [source EXCEPT !.id = id]
    /\ UNCHANGED <<sensorVars, storeVars, energy_state, price_state, meter, in_flight>>

Install(src, r) ==
    /\ meter.epoch < MaxEpoch
    /\ source' = src
    /\ meter' = [number |-> meter.number + 1, epoch |-> meter.epoch + 1, level |-> r,
                 replaced |-> meter.replaced \cup {Identity(source)}]
    /\ energy_state' = r
    /\ in_flight' = IF loaded THEN {"energy"} ELSE {}
    /\ UNCHANGED <<sensorVars, storeVars, price_state>>

(* The appliance is moved to another meter, which the reconfigure flow     *)
(* does by a reload.  Two meters share no identity.                        *)
Replace(src, r) ==
    /\ ~ loaded
    /\ Identity(src) \notin meter.replaced \cup {Identity(source)}
    /\ Install(src, r)

(* The source's registry entry is removed: the entry reloads.  Later the   *)
(* same id is registered anew for another meter; nobody listens to that.   *)
RegistryRemove ==
    /\ ReplaceInPlace /\ loaded /\ in_flight = {} /\ source.uuid # None
    /\ source' = [source EXCEPT !.uuid = None]
    /\ energy_state' = Unavailable
    /\ last_states' = Stored
    /\ meter' = [meter EXCEPT !.replaced = @ \cup {source.uuid}]
    /\ Gone
    /\ UNCHANGED <<disk, price_state>>

RegistryCreate(uuid, r) ==
    /\ ReplaceInPlace /\ in_flight = {}
    /\ source.uuid = None /\ source.id \notin BareIds
    /\ uuid \notin meter.replaced
    /\ Install([id |-> source.id, uuid |-> uuid], r)

-----------------------------------------------------------------------------
Init ==
    /\ accrual = InitialState /\ loaded = FALSE /\ available = FALSE
    /\ bound = Unbound /\ settled = NothingSettled /\ base_meter = 0
    /\ last_states = None /\ disk = None /\ in_flight = {}
    /\ price_state \in Prices \cup {None}
    /\ \E r \in Readings :
          /\ meter = [number |-> 1, epoch |-> 1, level |-> r, replaced |-> {}]
          /\ energy_state \in {r} \cup (Nonsense \cap {Unavailable})
    /\ source \in Source

Handle == HandleEnergy \/ HandlePrice

Service ==
    \/ \E v \in Values : AsyncCalibrate(v)
    \/ \E v \in Values, end \in Readings, e \in BOOLEAN :
          AsyncCalibrateFromImport(v, end, e)

Life == Setup \/ Unload \/ Dump \/ Restart \/ Corrupt

Metering ==
    \/ \E r \in Readings : Advance(r) \/ Reset(r) \/ Dip(r)
    \/ \E state \in Nonsense : Garble(state)
    \/ \E p \in Prices \cup {None} : PriceWrite(p)

Rewiring ==
    \/ \E id \in Ids : Rename(id)
    \/ \E src \in Source, r \in Readings : Replace(src, r)
    \/ RegistryRemove
    \/ \E uuid \in Uuids, r \in Readings : RegistryCreate(uuid, r)

Next == Handle \/ Service \/ Life \/ Metering \/ Rewiring

Spec == Init /\ [][Next]_vars

-----------------------------------------------------------------------------
(* Every variable has its type. *)
TypeOK ==
    /\ accrual \in AccrualState
    /\ loaded \in BOOLEAN /\ available \in BOOLEAN
    /\ bound \in IF loaded THEN [id: Ids, uuid: Uuids \cup {None}] ELSE {Unbound}
    /\ energy_state \in Readings \cup Nonsense \cup {Unavailable}
    /\ price_state \in Prices \cup {None}
    /\ in_flight \in SUBSET {"energy", "price"}
    /\ source \in [id: Ids, uuid: Uuids \cup {None}]
    /\ last_states \in StoredState \cup {None}
    /\ disk \in StoredState \cup {None}
    /\ meter \in [number: Nat, epoch: Nat, level: Readings,
                 replaced: SUBSET (Uuids \cup Ids)]
    /\ settled \in [epoch: Nat, kwh: Nat]
    /\ base_meter \in Nat

(* No energy is charged twice: in one epoch of a meter, what the cost      *)
(* accounts for never exceeds what the meter has metered.  The sensor must *)
(* tell dips from resets and hold its baseline for that, over price gaps,  *)
(* restarts that take the cost back, calibrations and replacements.        *)
NoDoubleCharge == settled.epoch = meter.epoch => settled.kwh <= meter.level

(* A baseline is never replayed against another meter: what a loaded       *)
(* sensor charges from was read off the meter it now reads.                *)
BaselineIsThisMeters ==
    loaded /\ HasBaseline(accrual) => base_meter = meter.number

(* A loaded sensor misses no event, whatever the order they are handled in *)
(* and whatever was read at setup: once handled, the source's reading has   *)
(* been taken, the price is the source's and availability follows.         *)
InStepWithSources ==
    loaded =>
        /\ "price" \notin in_flight => accrual.price = price_state
        /\ "energy" \notin in_flight => available = (energy_state # Unavailable)
        /\ (in_flight = {} /\ Usable(Reading) # None) => accrual.last_reading = Reading

(* Energy metered while the sensor was away (a restart, a reload, a        *)
(* renamed source) is charged at setup, from the stored baseline and at    *)
(* the price then in force, if the baseline is this meter's.               *)
EnergyWhileAwayIsCharged ==
    [][(~ loaded /\ loaded' /\ last_states # None) =>
          LET extra == last_states.extra
          IN  ( /\ extra # None /\ last_states.base_meter = meter.number
                /\ extra.last_energy # None /\ price_state # None
                /\ Usable(Reading) # None /\ Reading >= extra.last_energy ) =>
              accrual'.cost = extra.cost
                              + (Reading - extra.last_energy) * price_state]_vars

(* The reading after a restart is a dip, or not, against the reading before *)
(* it: within 10 % below that one, it charges nothing.                      *)
DipAcrossRestartChargesNothing ==
    [][(~ loaded /\ loaded' /\ last_states # None) =>
          LET extra == last_states.extra
              previous == last_states.last_reading
          IN  ( /\ extra # None /\ last_states.base_meter = meter.number
                /\ extra.last_energy # None /\ previous # None
                /\ Usable(Reading) # None
                /\ Reading < previous /\ 10 * Reading >= 9 * previous ) =>
              accrual'.cost = extra.cost]_vars
=============================================================================
