# Appliance Energy Cost: a TLA+ verification project

The program is a Home Assistant custom integration
(`src/custom_components/appliance_energy_cost`). For every appliance it keeps a
sensor with the money the appliance has cost: energy read from a cumulative
meter, times the price in force. A second part writes costs of the past into
Home Assistant's long-term statistics and lets the live sensor continue them.

This directory holds TLA+ models of it, configurations that TLC checks, and
proofs that TLAPS checks. Paths without a directory below are in
`src/custom_components/appliance_energy_cost`.

## 1. The system

| Part | Code | State it keeps | Operations |
| --- | --- | --- | --- |
| Accrual rules | `accrual.py` | none (pure) | `_classify`, `_settle`, `_track_gap_energy`, `apply_energy`, `_end_gap`, `apply_price`, `calibrate`, `cutover_value` |
| Cost sensor | `sensor.py` | accrual state (cost, priced baseline, last raw reading, price), source binding, availability, data for the restore store | setup with restore, energy handler, price handler, two calibrations, unload |
| Backfill import | `services.py`, lock in `models.py` | one lock per load of an entry; cost rows in the recorder | resolve period, read, gates, compute, queue, fence, read back, verify, calibrate |
| Backfill series | `backfill.py` | none (pure) | hourly rows and prices to a running cost, flagged hours, end reading |
| Entry lifecycle | `__init__.py` | runtime data, listener, tracked source ids | setup, unload, reload on any change, follow renames, react to removals and moves |
| Config flows | `config_flow.py` | a selection parked at the statistics warning | create and reconfigure entries and appliances |
| Calibrate service | `services.py` | none | checks, then one sensor's calibration |
| Preview, diagnostics | `services.py`, `diagnostics.py` | none | read only |
| Units and parsing | `units.py`, `const.py` | none | strings to decimals and units |

How they interact:

- The sensor gets *energy* and *price* events from the state machine. Its price
  handler also *reads* the energy source at that moment, so an event may be read
  before it is delivered. Home Assistant delivers a state change to its listeners
  inside the write; a listener may write in turn (a price template over the energy
  source), so that deliveries nest.
- The restore store takes the sensor's stored data at unload, every 15 minutes and
  at shutdown. A kill goes back to what is on disk.
- The entity registry tells a loaded entry of renames, moves and removals of the
  sources it tracked at its last setup. A rename is written into the configuration
  in the same step, in every entry that tracks the source.
- A config change, a followed rename, a move or a removal schedules a reload of the
  entry: unload, then setup, with new runtime data, a new tracker and a new import
  lock. A reload waits for the platform twice, for other reloads of the entry, and
  for nobody else, so that flows and the registry may move in any of its windows.
- A confirmed import waits six times: for the lock, and for five jobs (first price
  hour, if the request names no start; reads, computation, fence, read-back). It reads and writes through executor
  jobs and the recorder's own thread, which also compiles every finished hour from
  the live sensors; it ends by setting the live sensors through
  `async_calibrate_from_import`.

### What is hard, and what must be right

- **Accrual.** A reading below the last one is a dip (charge nothing, hold the
  baseline) or a reset of the meter (charge all of it). Over dips, resets, price
  gaps and price changes in any order, no kWh may be charged twice, and each at the
  price it was metered at, or at the price that ended its gap.
- **Sensor and time.** No event may be missed or applied twice around setup, and the
  two handlers must agree in whichever order they run. Across kills with a stale
  store, renames, replaced meters and undecodable data, a baseline must be kept
  for the meter it was read from and for no other.
- **Import.** Two calls, the hourly compile, a recorder that may fail or retry a task,
  and a reload in the middle: rows are never overwritten by accident, a series
  without initial cost never lands on an older one, success means written, the live
  sensor continues the series exactly, and no call hangs.
- **Series.** Rows with float noise, faults, missing prices and in any order: every
  hour is accounted for once, and the end reading is the one a cutover may start from.
- **Entries and flows.** One entry per price sensor and one appliance per energy
  sensor, in spite of flows parked at a confirmation; renames followed also onto used
  ids; and whatever window of a reload a change comes in, what runs is in the end
  what is configured, with no stale device link and no source unwatched.

`PROJECT.json` lists every hazard at its line, with the properties that cover it.

## 2. Modules

    Accrual                the rules, pure operators
      CostSensor           one sensor, its store, its sources       (state machine)
        CostLedgerSensor     refinement to CostLedger, an abstract bill
          LedgerProofs         theorem (TLAPS): the refinement, step by step
        CostSensorProofs     theorems: types, and no energy charged twice, with dips and without
          SensorSourceProofs   theorems: whose baseline, and in step with the sources
      BackfillSeries       what a backfill comes to: the promise
        BuildBackfillSeries  the row loop that keeps it             (state machine)
          BuildBackfillSeriesProofs   theorems: the loop keeps it, for any rows in any order
        ImportBackfill       import calls, recorder, compile        (state machine)
          BoundedReads         the import's reads that stop at months
            BoundedReadsProofs   theorems: they find what a full scan would
          ImportProofs         theorems: the lock, the rows, the cutover
    NumberSetProofs        lemmas: least and greatest numbers, sums, induction over sets
    EntryLifecycle         entries, flows, registry, reloads        (state machine)
      EntryLifecycleProofs   theorems: types, what runs, what flows and renames may do
    MC...                  constants for TLC

| Module | Code | What corresponds to what |
| --- | --- | --- |
| `Accrual` | `accrual.py` | An operator per function. The `AccrualEvent` tuples only feed the log and are left out. `Priced` names the energy a transition charges for. |
| `CostSensor` | `sensor.py`, parts of `__init__.py` and `config_flow.py` | `accrual` is `_accrual`; `bound` is `_energy_sensor` with `_source_entity_uuid`; `last_states` and `disk` are the restore store in memory and on disk. `Setup` is `async_added_to_hass` (the part after its two awaits is synchronous, and so one step); `HandleEnergy` and `HandlePrice` are the handlers; the two `AsyncCalibrate...` actions the services. |
| `CostLedger` | none: the promise of `src/docs/reference.md`, "Accrual" | A bill with no baseline and no events: its amounts are the moves of the meter's level, and no step adds or drops anything else. |
| `CostLedgerSensor` | `sensor.py` | The refinement mapping, and the conditions it holds under. |
| `BackfillSeries` | the promise of `backfill.py` | Points, total, flagged hours and end reading of a period, hour by hour, with no loop. |
| `BuildBackfillSeries` | `backfill.py`; `_appliance_summary`, `_ranges_payload` and the `ok` of a preview in `services.py` | One action per loop of `build_backfill_series` (prices, rows) and its return, then the summary. Input is what each hour *was* (energy used, noise, what befell its row); the recorder's rows follow from it. |
| `BoundedReads` | `services.py` | `_last_pre_start_sums` and the first price hour, each by a monthly read whose buckets reach past the asked period, and an hourly one. |
| `ImportBackfill` | `services.py`, `models.py` | One action per stretch of `_async_run_locked_import` between two awaits (the computation, a pure job over what was read, goes with the gates; of the three reads of statistics, each a session, those of the cost rows are one step); `RunTask`, `CompileHour` and `Tick` are the recorder and the clock. |
| `EntryLifecycle` | `__init__.py`, `config_flow.py`, `async_setup_entry` of `sensor.py` | `price` is `entry.data`, `appliances` the subentries in order, `pending` a flow's parked selection; `device` is the registry. An action per submitted step of a flow; per registry event with everything the handler does in every entry it reaches; four per reload (`BeginReload`, `FinishUnload`, `AsyncSetupEntry`, `FinishSetup`), as it waits between them. |
| `...Proofs` | | Section 4. |

### Choices of abstraction

- Money and energy are integers. The code's are exact `Decimal`s, and all
  comparisons and sums carry over; the 90 % rule is `10 * reading < 9 * last`.
- A reading, a price or stored data is usable or not; texts, units and formats are
  not modelled. `Unavailable` and `Unknown` are told apart because the sensor's
  availability does.
- `in_flight` holds source events written and not yet handled. Apart from a nested
  price event, and a kill, nothing happens until it is empty. This is the event
  loop's guarantee for callbacks.
- `meter` is the truth about the meter: its number, its epoch (between resets), its
  level. The sensor never reads it. `settled` (energy of this epoch that the
  cost accounts for, or that was waived by a baseline), `base_meter` and, in the
  import model, `cut` are history variables. No guard reads them but bounds.
- Whether a baseline that is first taken waives earlier energy is the code's rule
  ("pre-existing consumption is never priced"), so the waived energy counts as
  settled. Charging it later shows as a violation of `NoDoubleCharge`.
- In `ImportBackfill` every price is 1, so the cost of a period can be compared with
  the energy metered in it. Hours are numbers; an appliance's meter moves by at
  most 1 kWh in an hour. The recorder's database is external: it commits or drops a task
  as a whole, runs the queue in order, may retry a task behind others, and
  compiles energy and cost rows of an hour in one transaction.
- A month is a run of hours that begins at one of `MonthStarts`; all the reads ask of
  months is where they begin. Monthly buckets are those that touch the asked period,
  as core aligns them outward.
- An hour's row in `BuildBackfillSeries` carries energy in integers and a noise of at
  most `ZeroTolerance`, so that the comparisons with `ZERO_TOLERANCE_KWH` go as in the
  code. A value that is not finite is `Infinite`. No two rows have one start, so that sorting
  (`SortedByStart`) has one result and its stability says nothing.
- In `EntryLifecycle` a source is there or not, with a device. That it has a usable
  state, class, unit and currency, which the flows also validate, is part of being there;
  titles are left out. `There` is read at the submission only, as in the code.
- A reload that waits for another is counted in `reloads`. One that would start while
  the entry is being set up or unloaded starts after; Home Assistant's setup lock
  of the entry does that.

## 3. Model checking

`tlc -workers 2 -config <run>.cfg <module>`. The name of a run is the name of its
cfg.

| Run | Module | Shows |
| --- | --- | --- |
| `SensorOneLife` | `MCCostSensor` | `TypeOK`, `NoDoubleCharge`, `InStepWithSources` from setup on, with dips that compound (20, 18, 17), garbled readings, resets, price gaps, nested price events and calibrations |
| `SensorRestart` | `MCCostSensor` | `NoDoubleCharge` over unloads, dumps and kills in any order, and a source that is removed and registered anew for another meter |
| `SensorRewire` | `MCCostSensor` | `NoDoubleCharge`, `BaselineIsThisMeters`, `EnergyWhileAwayIsCharged` over renames, registered and bare sources, meters swapped while unloaded, and undecodable data; no dips |
| `SensorLedger` | `MCCostLedgerSensor` | `ImplementsLedger`: the sensor's bill moves by what its meter moves, and by nothing else |
| `ImportConcurrent` | `MCImportBackfill` | two calls of any of three requests, with the compile, hours without price and dropped tasks: `TypeOK`, `OneImportAtATime`, `CutoverContinues`, `NoSilentOverwrite`, `NoStepBack`, `ReturnMeansWritten`, `BoundedReadsAreExact`, and under fairness `EveryCallReturns` |
| `ImportPartial` | `MCImportBackfill` | two calls, one after the other, over two appliances or one of them, dropped and retried tasks, a reload: what a half-failed import left is neither changed nor built upon by the next call (`NoSilentOverwrite`, `NoStepBack`), and `ReturnMeansWritten`, `EveryCallReturns` |
| `BackfillRows` | `MCBuildBackfillSeries` | every three hours, rows in every order: `TypeOK`; `LoopIsSeries`, the loop computes what `ImportBackfill` is modelled with; `EveryKwhAccounted` and `FindingsAddUp`, against what the hours were |
| `EntryChanges` | `MCEntryLifecycle` | any two changes, in any window of the reloads of two entries: `TypeOK`, `InForce`, `FlowsKeepApart`, `RenameFollowed`, `SharingIsReported`, and under fairness `EveryChangeTakesEffect` |
| `SensorCompoundDips` | `MCCostSensor` | violated: `DipAcrossRestartChargesNothing` |
| `SensorReplaceInPlace` | `MCCostSensor` | violated: `BaselineIsThisMeters` when a source is replaced under its own id |
| `ImportReload` | `MCImportBackfill` | violated: `OneImportAtATime` over a reload of the entry |
| `EntryRenameBack` | `MCEntryLifecycle` | violated: `SharingIsAlwaysReported`, after a collision whose cause is gone |

### Bounds, and why they are enough

- *Readings.* Classification depends on the order of two readings and on the 90 %
  line. `{4, 9, 10}` and `{0, 4, 9, 10, 12}` have an advance, an equal reading, a dip
  at exactly 90 %, and resets; `{17, 18, 20}` has two dips that together are a reset.
  Several long runs of the code come down to these few, as the state keeps only two
  readings.
- *Epochs.* `MaxEpoch = 2`: one reset or replacement beyond the first epoch. Old
  energy can be charged against the epoch before; there is no memory of one further
  back. The proof (below) has no bound.
- *Prices.* Two prices and none, where a price decides something (settle first);
  one where it does not.
- *Sources.* Three ids, one of them not registered, and two uuids: a rename, a swap
  to a registered and to a bare source, each side with and without uuid.
- *Import.* Two calls, three hours (before, in, and after the period, which is also
  the hour whose end a call may straddle), one appliance for the full interleaving of two
  calls with the compile, two for selections, partial writes and the call after one that failed half way (`ImportPartial`, over two hours,
  where `OneByOneNext` makes a call only when the one before is over and the recorder's queue is empty, and lets the meters
  rest in the hour no call reads). `MCRequests` take every gate: the default start, with or without a price to
  start from; a continuation with initial cost that may overwrite; one hour without initial cost.
  `FirstHourUsed` fixes the level of the first hour, so that it has something to cost.
- *Months.* `{0, 1, 3}`: a month of one hour and one of two, so that a start falls on a
  month's first hour and inside a month, and a bucket holds rows on both sides of it.
- *Rows.* Three hours: a row, one whose change holds the energy of a lost row, and one
  after; noise at both edges of the tolerance; a price from the mean, from the state, and none
  because either is not finite, also where the other would do; a cap of one range, so that it is
  reached and passed. The proofs have none of these bounds.
- *Entries.* Two entries, two price and two energy ids, so that any id may be free,
  used by the same entry, or by the other one; two devices; one flow that parks (the other side of
  a race is any step of another flow, which needs no parking). `MaxChanges = 2` changes after *any* start:
  `Init` has every set of sources present or absent and every valid configuration, so
  two more steps make a rename inside the window that another change opened, or
  a collision and what follows it. `NamesInOrder` keeps one of the starts
  that differ only in names. The proofs have none of these bounds.
- *Symmetry.* `SensorRestart` and `SensorRewire` permute the uuids, and the ids of registered
  sources, which the model only compares; no liveness is checked there.
- *Loads.* `MaxGen = 2`: one reload, in the middle of any call.

The sensor's runs check for deadlock. The others say `CHECK_DEADLOCK FALSE`: calls
finish, the clock is bounded, the loop returns, and entries come to rest when the changes are used up,
so these models stop.

### Fairness

Two properties need it.

`EveryCallReturns`: weak fairness of every call's `Step`: each is a
coroutine resumed by the event loop, or a job of an executor, and both serve all
their jobs; a waiting call is woken by the release of the `asyncio.Lock`, which
serves its waiters in order. With the two calls modelled at most one waits at a time, so weak fairness
is the same thing. Weak fairness of `RunTask`: the recorder's thread
takes tasks as long as there are any. A retried task goes behind the others and so
cannot keep a fence from being reached. There is no fairness on the clock, the
compile, the meter, the services or the user.

`EveryChangeTakesEffect`: weak fairness of every entry's `LoadStep`. A reload is a task
that Home Assistant creates for the update listener or the registry handler, and it
runs every task to its end; the platform's setup and unload wait for nothing that
waits for them. No fairness on flows, sources or the user. `MaxChanges` is also an assumption here:
changes that never end could keep an entry reloading.

### What the violated runs say

1. **Compounded dips over a restart** (`sensor.py:462`). The previous raw reading
   is not stored; the restore puts the high-water mark in its place. After 20, 18, a restart
   and 17, the reading is within 10 % of 18 and below 90 % of 20, and the sensor
   charges all 17 kWh. `docs/reference.md:137-146` compares a reading with "the previous one" and says
   restarts are safe. Within one life dips compound without harm (`SensorOneLife`).
2. **Replacement under the same id** (`__init__.py:105`). On removal the entry
   reloads, and the sensor restores by entity id, with no uuid. The `create` event of the new
   registry entry is ignored, and the new meter's readings are charged from the
   old baseline. `sensor.py:425-430` says that the uuid catches a same-id
   replacement. What it charges is no energy charged *twice* (`SensorRestart`), since
   the new meter's level pays for it, but it is not metered consumption. `SensorRestart` has one id: a rename after
   such a replacement drops the baseline (nothing stored tells the renamed source is the same meter), and if the source dips
   at that setup, the recovery is charged twice as in 5. `NoDoubleChargeCorrect` excludes replacement in place,
   `NoDoubleChargeWithoutDips` dips.
3. **A reload makes a second lock** (`__init__.py:46`). `models.py:20-24` and
   `docs/reference.md:371-374` say two imports of an entry never interleave. They do
   when the entry is reloaded while the first one runs.
4. **The collision check looks at unique ids** (`__init__.py:171`). After a collision
   an appliance keeps its old unique id beside its new energy sensor. When the sensor
   is renamed back, or another one is renamed onto that old id, the check finds a collision with
   an appliance that does not use the sensor, and the error says that both track it.
   `docs/reference.md` says that error of two appliances on one sensor. While
   unique ids are the energy sensors, it is said exactly then (`SharingIsReported`).

Two more disagreements have no run of their own. The properties leave them out, by the bounds and assumptions named:

5. **A dip when the data is lost** (`sensor.py:483`). Stored data that does not decode
   drops the baseline, and the next reading becomes the new one, though it is a dip. After 10, a store that is lost, a dip to 9 at
   setup and 10 again, 1 kWh is charged that was charged, or waived, before. `sensor.py:412-414` says that the next
   reading "re-baselines without double counting". Without dips it does: `SensorRewire` and
   `NoDoubleChargeWithoutDips` have undecodable data and no dips, `NoDoubleChargeCorrect` the reverse.
6. **A retried batch and the next call** (`services.py:1270`). A batch that the recorder retries
   goes behind the fence. Its call fails; the same import run again before the batch lands finds no rows, passes its
   gates, and both are written. `docs/reference.md:739` says that re-running is safe, as either overlap
   protection refuses or the rows never landed. The same import writes the same values twice; another import would
   land on other values. So `NoSilentOverwrite` and `NoStepBack` are checked with dropped tasks between concurrent
   calls, and with retried ones only where a call waits for the queue to be empty (`ImportPartial`); the theorems assume `Orderly`.

### Limits the code documents, which are not findings

They bound what the properties above can say.

- With no reading at a price switch, energy since the last event is priced at the
  new price (`accrual.py`, `apply_price`). So `CostLedgerSensor` requires
  a usable reading.
- The energy between an import's last hour and the cutover is priced at the current
  price (`docs/reference.md:519-523`).
- A manual calibration in a dip takes the dipped reading for the baseline; the
  recovery is charged. `settled` starts again at it, by the user's choice.
- Sources outside the entity registry are told apart by id only.
- A rename that comes while the tracker is down, or before a reload has registered the name of the rename
  before it, is missed (`docs/reference.md:696-703`); `RenameFollowed` and `InForce` speak of
  entries with no reload to come.
- When two appliances share a sensor after a collision, a rename is followed for the
  first of them. The error of the collision asks the user to end the sharing.
- A price sensor renamed onto an id that another entry uses gives two entries one price
  sensor. The documentation promises one per entry of the configuration step only.
- A flow checks its sensor when it is submitted; if the sensor goes while the flow is
  parked, the entry is made all the same and starts with a price gap.

## 4. Proofs

`tlapm <module>.tla` for the eight `...Proofs` modules. `ImportProofs` takes some minutes, the
others one or less.

| Theorem | Module | States |
| --- | --- | --- |
| `TypeCorrect` | `CostSensorProofs` | `Spec => []TypeOK`, for any readings, prices, ids, uuids, dips and epochs, corruption and replacement included |
| `NoDoubleChargeCorrect` | `CostSensorProofs` | `ASSUME Undisturbed PROVE Spec => []NoDoubleCharge` |
| `NoDoubleChargeWithoutDips` | `CostSensorProofs` | `ASSUME Dips = "none" PROVE Spec => []NoDoubleCharge`, corruption and replacement in place included |
| `InStepCorrect` | `SensorSourceProofs` | `Spec => []InStepWithSources` |
| `BaselineIsThisMetersCorrect` | `SensorSourceProofs` | `ASSUME ~ ReplaceInPlace PROVE Spec => []BaselineIsThisMeters` |
| `EnergyWhileAwayIsChargedCorrect` | `SensorSourceProofs` | `ASSUME ~ ReplaceInPlace PROVE Spec => EnergyWhileAwayIsCharged` |
| `SensorImplementsLedger` | `LedgerProofs` | `ASSUME Dips # "compound" PROVE SteadySpec => ImplementsLedger` |
| `TypeCorrect` | `EntryLifecycleProofs` | `Spec => []TypeOK`, for any entries, sources, devices, flows and bounds |
| `LoadedEntriesRunTheirConfig` | `EntryLifecycleProofs` | `Spec => []InForce` |
| `FlowsNeverShare` | `EntryLifecycleProofs` | `Spec => FlowsKeepApart` |
| `RenamesAreFollowed` | `EntryLifecycleProofs` | `Spec => RenameFollowed` |
| `SharingNeverSilent` | `EntryLifecycleProofs` | `Spec => SharingIsReported` |
| `ImportTypeCorrect` | `ImportProofs` | `Spec => []TypeOK`, for any calls, appliances, requests, calendar, faults, hours and loads |
| `ContinuesCorrect` | `ImportProofs` | `Spec => []CutoverContinues` |
| `OnePerLoadCorrect` | `ImportProofs` | `Spec => []OneImportPerLoad`: calls that run and hold the same load's lock are one |
| `OneAtATimeCorrect` | `ImportProofs` | `ASSUME MaxGen = 1 PROVE Spec => []OneImportAtATime` |
| `BoundedReadsCorrect` | `ImportProofs` | `Spec => BoundedReadsAreExact` |
| `OverwriteCorrect` | `ImportProofs` | `ASSUME Orderly PROVE Spec /\ []OneImportAtATime => NoSilentOverwrite` |
| `NoStepBackCorrect` | `ImportProofs` | `ASSUME Orderly PROVE Spec /\ []OneImportAtATime => NoStepBack` |
| `ReturnCorrect` | `ImportProofs` | `ASSUME Orderly PROVE Spec /\ []OneImportAtATime => ReturnMeansWritten` |
| `OneLoadWrites` | `ImportProofs` | `ASSUME Orderly, MaxGen = 1 PROVE Spec =>` the three of them |
| `BackfillTypeCorrect` | `BuildBackfillSeriesProofs` | `Spec => []TypeOK`, for any hours, rows, prices, order and bounds |
| `LoopIsSeriesCorrect` | `BuildBackfillSeriesProofs` | `ASSUME Measurable PROVE Spec => []LoopIsSeries` |
| `EveryKwhCorrect` | `BuildBackfillSeriesProofs` | `Spec => []EveryKwhAccounted` |
| `FindingsCorrect` | `BuildBackfillSeriesProofs` | `ASSUME Measurable PROVE Spec => []FindingsAddUp` |
| `LastPreStartIsExact` | `BoundedReadsProofs` | for any calendar, rows and start: the read before a start finds the last row before it, or none if there is none |
| `FirstHourIsExact` | `BoundedReadsProofs` | for any calendar and rows: the read of the first price hour finds the first row |

### No energy is charged twice

Assumptions on the constants: `NoneAssumption` and `SensorAssumption` (types, and
that the special values are special). `Undisturbed` says that dips stay within 10 %
of the level, stored data decodes, and no id is reused for another meter behind the
entry's back. The first is needed by itself: `SensorCompoundDips` shows what goes wrong
without it. The other two matter only together with a dip, under which an unstored or a
foreign baseline may be taken: `NoDoubleChargeWithoutDips` assumes neither.

The argument. `NoDoubleCharge` bounds `settled` by the meter's level, and is not
inductive: it does not say that the baseline the next charge starts from is above
what is settled, nor anything of what a restart brings back. `ChargeInv` adds

- the reported reading is within 10 % below the level (`NearLevel`), so that a reading
  of the same epoch is never classified as a reset;
- `Sound(accrual, settled)`: in the meter's present epoch the baseline is at or
  above what is settled and at or below the level, and the last reading is one the
  classification can rely on; a baseline of an earlier epoch has
  nothing settled in this one;
- the same for the data in `last_states` and on `disk`, if they were stored for the
  meter that is there now, so that a restart from a dump of any age re-establishes it;
- a loaded sensor is bound to the source there is.

One lemma treats each accrual transition (`ApplyEnergyType`, `ApplyPriceCases`
and the charge lemmas), one each action; `Spec => []ChargeInv` follows by PTL, and
`NoDoubleCharge` from its second part. `ChargeInv` was model-checked on small
instances before it was proved.

`NoDoubleChargeWithoutDips` needs less (`LevelInv`). Where no source dips, a usable reading is the
level (`AtLevel`), so that whatever is taken for a baseline is the level as well. `Bounded`
keeps what is settled of this epoch below the level and below the baseline, if there is one; `StoredBounded`
says the same of the store and of the disk. A lost or foreign baseline then waives energy, and
cannot bring any back.

### Whose baseline it is, and in step with the sources

`BaselineIsThisMeters` is not inductive: a restart brings back a baseline from a store of any age, and
the code decides by the entity id and the uuid stored beside it. `SourceInv` says that
these tell the truth: a stored baseline is that of the meter behind the source and `SameMeter` finds it
again, or it is that of a meter since replaced, whose identity is not the
source's and never will be (`Traced`, of `last_states` and of `disk`). Replacement in place is the one
step that breaks it, as the run `SensorReplaceInPlace` shows.
`EnergyWhileAwayIsCharged` is the other half: at a setup the baseline of this meter is
restored as it was (`OwnBaselineRestored`), and the settlement charges the difference (`SetupCharges`).

`InStepWithSources` is inductive with the types: a handler takes what it finds in the state
machine and crosses out its own event only, and setup takes everything (`EnergyTaken`, `PriceTaken`).

### The sensor implements the bill

In the bill, energy is no free amount. `level` is mapped to the meter's own level, and a step of the
bill charges, or lets wait, what the level has moved by: an advance (`Metered`) its difference, a restart (`MeterRestarted`,
only where the level falls) the new level. With `begun`, `unpriced` and `price` this leaves a code that loses the
energy of a gap, charges a reading twice, or charges a dip no step to map to; the only energy a step may drop is what waits
in a gap when the meter restarts, as `_track_gap_energy` does. A service sets the cost to one of `Values` (with `Values = {}` it
sets nothing, and the theorem is about the meter and the price alone). The mapping counts energy whose event is on its way
as charged (`Charged`), and not a moment longer: once no energy event is in flight and there is a price, the sensor's own
cost has to be the bill's. The price is the one the sensor holds; that it is the source's is `InStepWithSources`.

`SteadySpec` (in `CostLedgerSensor`) restricts the sensor to the cases in which the code means to be exact:
the energy source always has a usable reading; no kill or undecodable data (reloads there are); one meter; it restarts
only while the sensor is loaded, and by more than 10 % below the last reading; dips come only with a price, and
do not compound; services are called at the meter's level, not in a dip.

The argument of `LedgerProofs` is one sentence: settling a reading charges
exactly what is owed and leaves nothing owed (`SettlesOwed`), and tracking one in a price gap leaves
what is owed as it is (`TracksOwed`). The rest says when the books are current. `SteadyInv` has for it that
a loaded sensor with a price and no energy event in flight owes nothing, that a reading below the level
is only seen when nothing is owed (so that dips charge nothing), and that a meter which has restarted
has a reading that `_classify` takes for a reset (`Restarted`) until the event is handled. Each action is then a step of
the bill or a stutter (`BillStep`). Dips that compound are excluded: two of them are a reset to
the code, which no bill meters.

### What runs is what is configured

The only assumption is `EntryAssumption` (price and energy sensors are apart, special values are
special, bounds are numbers). `InForce` alone is not inductive for two reasons. It
must be known that an entry that is not down exists, or a flow could create an entry over
a loaded one (`LoadedExist`); and the order of a reload must be split so that what is true from
`AsyncSetupEntry` on (runtime data and tracker agree with the configuration) is kept
until `FinishSetup` adds the sensors: the first conjunct of `InForce`, for entries that are
`UpToDate`, does that. `LoadInv` is `TypeOK`, `LoadedExist` and `InForce` entry by entry.

A step does one of three things to an entry. It leaves it with a reload to come, or
down or stopping, where nothing is asked (`ReloadToCome`); it leaves its configuration, its
sensors and the links to its devices alone (`LeftAlone`); or it is a step of its load. For
changes of the configuration the update listener decides between the first two (`ConfigChange`);
for removals and moves of a source the tracker, which is complete by the invariant
itself (`LinksElsewhere`, `SourceInForce`). A rename is the hard case: it schedules no
reload of its own, only the change of the configuration does. So it must be shown
that an entry that uses the source has a first appliance to follow it for (`FollowerExists`, by
well-founded induction over the list's indices) and that the update is never
refused, the unique id being kept when it collides (`FollowMoves`).

`RenamesAreFollowed` rests on the same invariant: an entry that is up to date tracks what
it uses. `FlowsNeverShare` needs only the types; that the checks at a submission are
repeated in the step that commits is `CommitKeepsApart`, and what adding, replacing and
removing an appliance makes of shared sensors is in the three `...Shares` lemmas.
`SharingNeverSilent` takes the same steps. Only a rename reports, and where unique ids are
the energy sensors, the collision check finds an appliance on the new id exactly when
the update makes two share it.

### The bounded reads are exact

The assumptions are that hours count from zero, and that the calendar has a month that begins no
later (`FirstMonth`); for the first hour also that no row is in the calendar's last
month. `LeastNat` gives `Max` and `Min` their meaning on bounded sets of integers, by
well-foundedness; `MonthsInOrder` says that an hour is before a month exactly when its
own month is. If the hours of the start's month have a row before the start, the last of
them is the last of all. If not, the last row is in an earlier month, the latest
bucket that lies wholly before is that month's, and its last row is the one.

### The import

The assumptions are `ImportAssumption` (types, special values, a calendar that covers the hours)
and nothing about the number of calls, appliances, hours, faults or reloads. `ImportInv` is the
types and

- `WorldInv`: the clock is at most an hour ahead of the compile, meters only advance, the recorder has
  rows of finished hours only, and an hour's row tells what was metered in it, or is missing where
  nothing was;
- `LockInv`: a running call holds the lock of the load it started in, and no other lock. What
  `OnePerLoadCorrect` says follows at once; with one load it is `OneAtATimeCorrect`;
- `QueueInv`: every task is of a call that has posted its rows, and a call has one fence at most;
- `CallInv`, what each call knows at each stage: its period is over, what it has read was true and
  *stays* true (rows are never compiled twice), its rows are within its period;
- `Continues`: a calibrated sensor has been charged for what was metered since the start of the
  import it continues.

The heart of `Continues` is the step that calibrates. The sum over the rows of a period
has to be the difference of two meter readings. It is a telescoping sum with holes where an
hour has no row, proved in `SeriesCovers` by the least hour up to which it would be wrong: the recursion
of the series is gone through once, with no induction principle. `NumberSetProofs` has what that takes: a non-empty
set of integers with a lower bound has a least element (by well-foundedness), and what
`SumFunctionOnSet` is for a set with one element more. Then the cutover adds what is
metered after the last row, from the row's own state, and every later step charges in step with the meter.

The three properties of the rows need that no two imports overlap, which is a hypothesis on the
behaviour (`[]OneImportAtATime`: it holds with one load by `OneAtATimeCorrect`, and the run `ImportReload` shows a
reload break it), and that the recorder runs no
row behind its call's fence (`Orderly`: no task is retried, or there is one call only; see
finding 6). `WriteInv` says what a call's reads are worth *later*: the hours of a call that may not
overwrite are empty or hold its own values, from its read to its last task, and nothing is before the
start of one without initial cost. It survives the recorder's tasks because they are of the same call
(`OwnTask`), and the compile because it writes an hour that no period contains (`RowsOfCompile`).

`BoundedReadsCorrect` needs `LastPreStartIsExact` and `FirstHourIsExact`, and that every row there is
lies in the calendar.

### The backfill series

The assumptions are `BackfillAssumption` (types, special values, a noise within the tolerance) and, where the
loop is compared with a promise that knows what each hour *was*, `Measurable`: an hour uses nothing or
more than twice the tolerance. An hour that used less than the noise could be read as none, and
the loop and the promise would differ; the tolerance is 1E-9 kWh, which no meter resolves. The module of
the run assumes `Measurable` of its constants, and TLC evaluates it.

The four invariants speak of the end of the loop only; `LoopInv` says how it gets there. After `next - 1` of the
rows, `Taken` are the hours of these rows and `Verdict` what becomes of each. Then

- the sorted rows are every hour's row once, in order (`InOrder`), whatever order they came in. That sorting
  yields such a list needs one to exist (`SetClimbs`, by induction over the hours): `SortedByStart` only
  chooses it;
- the two lists of findings and the points' starts are the taken hours of each verdict, ascending (`Climbs`),
  and as many together as rows taken;
- the running cost, the total energy and the sum of every point are sums over the taken hours that were
  costed, up to the point's.

`Row` gives each action the hour it takes (`RowTaken`: it is later than all taken), and each action adds it to
one of three sets (`LoopOfSkipInvalid`, `LoopOfSkipUnpriced`, `LoopOfCostHour`). At the end `Taken` is all hours
with a row, and the properties follow one at a time:

- `LoopIsSeries`: an hour's row says what the hour came to (`HourIs`, where `Measurable` is used), so that the
  sums of the loop are those of the promise; the last row is that of the greatest hour (`EndReadingIs`).
- `EveryKwhAccounted`: the spans whose energy the rows hold fit together without gap or overlap (`SpanParts`,
  `FirstSpan`), so that up to any row they hold what was used up to its hour (`SpansAdd`); what was costed differs from it by at
  most the tolerance in each hour, and so in sum by the tolerance times the points (`SumNear`).
- `FindingsAddUp`: one hour more extends the last range or begins one, and keeps the ranges apart
  (`RangesExtend`). The fold that does so for a list of hours is a function on sets of places that must be shown to exist
  (`ExtendsExists`) before it is followed along the list (`RangesOfHours`). A list cut at the cap lacks the first hour of the next range, and
  shows fewer hours than counted (`CappedRanges`).

`NumberSetProofs` has induction over numbers and over finite sets with a *set* in the place of the
library's predicate (`ByNumbers`, `BySubsets`), which the provers can instantiate.

### Only model-checked

Liveness (`EveryCallReturns`, `EveryChangeTakesEffect`) is out of the prover's reach. Every invariant and action
property that a passing run checks is stated by a theorem, under the hypotheses given above. `NoSilentOverwrite` and `NoStepBack` with retried tasks of
several calls do not hold, and neither do they when a reload lets two imports overlap.

## 5. What is not modelled

- Diagnostics: a snapshot for a download.
- Preview: its summary and the default start are modelled; the reads and checks
  around them are the import's, and it writes nothing.
- Units and parsing: stateless functions of strings.
- In the import: the gates that compare the metadata of rows with what the sensor
  would write, the unit and currency checks, receipts and log texts. They
  refuse on, or report, what no step of the model changes. Neither are the errors of
  `_selected_appliances` (a damaged subentry, an appliance that is not the entry's): they only fail the call, before it
  has done anything.
- The pre-start rows of an import are read in a session of their own, after those of the period
  (`services.py:760`, `712`, `714`); `ReadCosts` is one step. While the call reads, no other import of its load
  writes, and the compile writes only hours from the start of the period on, so that the read of the rows before it
  finds the same at either moment.
- `Setup` of a sensor is one step, as its code has no await from the reads to the subscription. What an await would
  do there is in the mutant `SetupReadEarly`, under which `InStepWithSources` and `EnergyWhileAwayIsCharged` fail.
- In the sensor: names, log-once flags, attributes. Its device link is in `EntryLifecycle`.
- In entries: data that does not decode (the setup fails for good), the removal of an
  entry, platforms that fail to load, and restarts, which `Init` stands for. Titles and the currency
  check of the flows.

## 6. Plan

In order of importance.

1. `Accrual`, `CostSensor`, `CostLedger`, `CostLedgerSensor` and their two
   theorems: done.
2. `ImportBackfill` with `BoundedReads`: done, at price 1. `BoundedReadsProofs`: done.
3. `EntryLifecycle` with the flows, and its five theorems: done.
4. `BackfillSeries` and `BuildBackfillSeries`: done.
5. `SensorSourceProofs`, `LedgerProofs`: done.
6. `ImportProofs`: done.
7. `BuildBackfillSeriesProofs`: done. What the plan leaves is in section 5, and prices other than 1 in
   `ImportBackfill`.
