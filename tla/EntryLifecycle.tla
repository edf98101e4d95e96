---------------------------- MODULE EntryLifecycle ----------------------------
(***************************************************************************)
(* Config entries, their appliances, and the source sensors they name:     *)
(* the flows that write the configuration (config_flow.py), the setup that *)
(* turns it into a running entry, the update listener that reloads the     *)
(* entry on every change, and the handler of entity registry updates that   *)
(* follows renames (__init__.py, and async_setup_entry of sensor.py).      *)
(*                                                                          *)
(* A reload is four steps, for it waits between them: BeginReload (the      *)
(* platform is being unloaded, listener and tracker still there),           *)
(* FinishUnload (both gone), AsyncSetupEntry (both there again, the sensors *)
(* not yet), FinishSetup.  Flows, the registry and other entries may move   *)
(* in between.  Reloads of an entry wait for each other: Home Assistant     *)
(* takes the entry's setup lock for each.                                   *)
(***************************************************************************)
EXTENDS Integers, Sequences, FiniteSets

CONSTANTS Entries, PriceSensors, EnergySensors,
          Devices,         \* what a source may belong to
          Flows,           \* config flows that may be parked
          NewEntry,        \* the target of a flow that creates an entry
          None,            \* no sensor, no device, no flow
          MaxAppliances,   \* bound: appliances of an entry
          MaxChanges       \* bound: changes of configuration and registry

Sources == PriceSensors \cup EnergySensors

ASSUME EntryAssumption ==
    /\ PriceSensors \cap EnergySensors = {}
    /\ None \notin Sources \cup Devices \cup Entries
    /\ NewEntry \notin Entries /\ NewEntry # None
    /\ MaxAppliances \in Nat /\ MaxChanges \in Nat

VARIABLES
    device,      \* the entity registry: every source's device, None if there is no such source
    price,       \* entry.data: the price sensor, None if there is no such entry
    appliances,  \* entry.subentries in their order: energy sensor and unique id
    pending,     \* a flow's selection while it is parked at the statistics warning
    phase,       \* how far the entry is loaded
    runtime,     \* entry.runtime_data: the price sensor
    tracked,     \* the sources whose registry updates reach the entry
    sensors,     \* the running cost sensors: energy sensor and device link
    reloads,     \* reload tasks not yet begun
    reported,    \* energy sensors logged as tracked by two appliances
    changes

configVars == <<price, appliances>>
loadVars == <<phase, runtime, tracked, sensors>>
vars == <<device, configVars, pending, loadVars, reloads, reported, changes>>

Appliance == [energy: EnergySensors, unique: EnergySensors]
CostSensor == [energy: EnergySensors, link: Devices \cup {None}]
Selection == [target: Entries \cup {NewEntry}, price: PriceSensors]
Phases == {"down", "starting", "loaded", "stopping"}

UpTo(S) == UNION {[1 .. n -> S] : n \in 0 .. MaxAppliances}

TypeOK ==
    /\ device \in [Sources -> Devices \cup {None}]
    /\ price \in [Entries -> PriceSensors \cup {None}]
    /\ appliances \in [Entries -> UpTo(Appliance)]
    /\ pending \in [Flows -> Selection \cup {None}]
    /\ phase \in [Entries -> Phases]
    /\ runtime \in [Entries -> PriceSensors \cup {None}]
    /\ tracked \in [Entries -> SUBSET Sources]
    /\ sensors \in [Entries -> UpTo(CostSensor)]
    /\ reloads \in [Entries -> Nat]
    /\ reported \in [Entries -> SUBSET EnergySensors]
    /\ changes \in 0 .. MaxChanges

-----------------------------------------------------------------------------
(* What the code asks of the configuration.                                *)

There(s) == device[s] # None
Exists(e) == price[e] # None
(* Mistake: registered after the platforms are, and removed before they go. *)
ListeningLate(e) == Exists(e) /\ phase[e] = "loaded"

(* Listener and tracker are registered at the start of a setup and removed  *)
(* at the end of an unload.                                                 *)
Listening(e) == Exists(e) /\ phase[e] # "down"

EnergyOf(e) == [i \in DOMAIN appliances[e] |-> appliances[e][i].energy]
Uses(e) == {price[e]} \cup {EnergyOf(e)[i] : i \in DOMAIN appliances[e]}

(* _async_abort_entries_match; a reconfigure leaves its own entry out.     *)
EntriesMatch(p, except) == \E e \in Entries \ except : price[e] = p

(* _duplicate_appliance_title; a reconfigure leaves its own appliance out. *)
DuplicateAppliance(e, s, except) ==
    \E i \in DOMAIN appliances[e] \ except : appliances[e][i].energy = s

(* Core lets no two appliances of an entry have the same unique id.        *)
UniqueIdTaken(e, s, except) ==
    \E i \in DOMAIN appliances[e] \ except : appliances[e][i].unique = s

(* _tracked_source_entity_ids                                              *)
TrackedSourceEntityIds(e) == {price[e]} \cup {EnergyOf(e)[i] : i \in DOMAIN appliances[e]}

(* The sensor platform's: one for every appliance there is by now, linked   *)
(* to the device its source has by now.                                     *)
CostSensors(e) ==
    [i \in DOMAIN appliances[e] |-> [energy |-> EnergyOf(e)[i], link |-> device[EnergyOf(e)[i]]]]

(* The update listener: a change schedules a reload of every entry it      *)
(* touched that listens.                                                    *)
Notify(changed) ==
    reloads' = [e \in Entries |->
                  reloads[e] + (IF e \in changed /\ Listening(e) THEN 1 ELSE 0)]

Change == changes < MaxChanges /\ changes' = changes + 1

-----------------------------------------------------------------------------
(* Config flows.                                                            *)

(* Mistake: the match is left to the check at the submission.               *)
CreatePendingEntryUnchecked(p) ==
    /\ \E e \in Entries :
         /\ ~Exists(e)
         /\ price' = [price EXCEPT ![e] = p]
    /\ UNCHANGED <<appliances, reloads>>

CreatePendingEntry(p) ==
    /\ ~EntriesMatch(p, {})
    /\ \E e \in Entries :
         /\ ~Exists(e)
         /\ price' = [price EXCEPT ![e] = p]
    /\ UNCHANGED <<appliances, reloads>>

FinishReconfigure(e, p) ==
    /\ ~EntriesMatch(p, {e})
    /\ price' = [price EXCEPT ![e] = p]
    /\ Notify(IF p = price[e] THEN {} ELSE {e})
    /\ UNCHANGED appliances

Commit(target, p) ==
    IF target = NewEntry THEN CreatePendingEntry(p) ELSE FinishReconfigure(target, p)

Park(f, target, p) ==
    /\ pending[f] = None
    /\ pending' = [pending EXCEPT ![f] = [target |-> target, price |-> p]]
    /\ UNCHANGED <<configVars, reloads, changes>>

Select(target, p) ==
    \/ Commit(target, p) /\ Change /\ UNCHANGED pending
    \/ \E f \in Flows : Park(f, target, p)

AsyncStepUser(p) ==
    /\ There(p) /\ ~EntriesMatch(p, {})
    /\ Select(NewEntry, p)
    /\ UNCHANGED <<device, loadVars, reported>>

AsyncStepReconfigure(e, p) ==
    /\ Exists(e) /\ There(p) /\ ~EntriesMatch(p, {e})
    /\ Select(e, p)
    /\ UNCHANGED <<device, loadVars, reported>>

(* A flow whose match check fails at the commit is aborted.                 *)
AsyncStepConfirmNoStatistics(f) ==
    LET chosen == pending[f]
        matched == EntriesMatch(chosen.price, {chosen.target})
    IN  /\ chosen # None
        /\ pending' = [pending EXCEPT ![f] = None]
        /\ \/ Commit(chosen.target, chosen.price) /\ Change
           \/ matched /\ UNCHANGED <<configVars, reloads, changes>>
        /\ UNCHANGED <<device, loadVars, reported>>

AddAppliance(e, s) ==
    /\ Exists(e) /\ There(s) /\ Change
    /\ Len(appliances[e]) < MaxAppliances
    /\ ~DuplicateAppliance(e, s, {}) /\ ~UniqueIdTaken(e, s, {})
    /\ appliances' = [appliances EXCEPT ![e] = Append(@, [energy |-> s, unique |-> s])]
    /\ Notify({e})
    /\ UNCHANGED <<device, price, pending, loadVars, reported>>

(* The title may change with the sensor or without it.                      *)
ReconfigureAppliance(e, i, s) ==
    /\ i \in DOMAIN appliances[e] /\ There(s) /\ Change
    /\ ~DuplicateAppliance(e, s, {i}) /\ ~UniqueIdTaken(e, s, {i})
    /\ appliances' = [appliances EXCEPT ![e][i] = [energy |-> s, unique |-> s]]
    /\ Notify({e})
    /\ UNCHANGED <<device, price, pending, loadVars, reported>>

(* Core deletes a subentry; the listener hears of it like of any update.    *)
RemoveAppliance(e, i) ==
    /\ i \in DOMAIN appliances[e] /\ Change
    /\ appliances' = [appliances EXCEPT ![e] = SubSeq(@, 1, i - 1) \o SubSeq(@, i + 1, Len(@))]
    /\ Notify({e})
    /\ UNCHANGED <<device, price, pending, loadVars, reported>>

-----------------------------------------------------------------------------
(* The entity registry, and what an entry that tracks the source does.      *)

Reached(s) == {e \in Entries : Listening(e) /\ s \in tracked[e]}

(* Mistake: no pre-check.                                                   *)
NoCollision(e, i, new) == FALSE

(* The other appliance that already owns the new id.                        *)
Collision(e, i, new) == UniqueIdTaken(e, new, {i})

(* Core refuses an update onto a unique id that another appliance has.      *)
UpdateSubentry(e, i, to) ==
    IF to.unique # appliances[e][i].unique /\ UniqueIdTaken(e, to.unique, {i})
    THEN appliances[e]
    ELSE [appliances[e] EXCEPT ![i] = to]

(* Mistake: the unique id is cleared when it cannot follow.                 *)
FollowEnergySensorRenameClearing(e, i, new) ==
    UpdateSubentry(e, i, [energy |-> new,
                          unique |-> IF Collision(e, i, new) THEN None ELSE new])

(* Mistake: a collision leaves the appliance as it is.                      *)
FollowEnergySensorRenameRefusing(e, i, new) ==
    IF Collision(e, i, new) THEN appliances[e]
    ELSE UpdateSubentry(e, i, [energy |-> new, unique |-> new])

FollowEnergySensorRename(e, i, new) ==
    UpdateSubentry(e, i, [energy |-> new,
                          unique |-> IF Collision(e, i, new)
                                     THEN appliances[e][i].unique ELSE new])

(* The appliance a rename is followed for: the first one on the old id,     *)
(* and none if it was the price sensor's.                                   *)
Follower(e, old) ==
    {i \in DOMAIN appliances[e] :
        /\ price[e] # old
        /\ EnergyOf(e)[i] = old
        /\ \A j \in 1 .. i - 1 : EnergyOf(e)[j] # old}

FollowedPrice(e, old, new) == IF price[e] = old THEN new ELSE price[e]

FollowedAppliances(e, old, new) ==
    IF Follower(e, old) = {} THEN appliances[e]
    ELSE FollowEnergySensorRename(e, CHOOSE i \in Follower(e, old) : TRUE, new)

FollowSourceRename(old, new) ==
    LET follow == Reached(old)
    IN  /\ price' = [e \in Entries |-> IF e \in follow THEN FollowedPrice(e, old, new)
                                       ELSE price[e]]
        /\ appliances' = [e \in Entries |-> IF e \in follow
                                            THEN FollowedAppliances(e, old, new)
                                            ELSE appliances[e]]
        /\ reported' = [e \in Entries |->
                          reported[e] \cup
                          {s \in {new} : /\ e \in follow
                                         /\ \E i \in Follower(e, old) : Collision(e, i, new)}]
        /\ Notify({e \in follow : price'[e] # price[e] \/ appliances'[e] # appliances[e]})

(* An id can be renamed to one that no source has.                          *)
RenameSource(old, new) ==
    /\ There(old) /\ ~There(new) /\ Change
    /\ old \in PriceSensors <=> new \in PriceSensors
    /\ device' = [device EXCEPT ![old] = None, ![new] = device[old]]
    /\ FollowSourceRename(old, new)
    /\ UNCHANGED <<pending, loadVars>>

RemoveSource(s) ==
    /\ There(s) /\ Change
    /\ device' = [device EXCEPT ![s] = None]
    /\ Notify(Reached(s))
    /\ UNCHANGED <<configVars, pending, loadVars, reported>>

MoveSource(s, d) ==
    /\ There(s) /\ device[s] # d /\ Change
    /\ device' = [device EXCEPT ![s] = d]
    /\ Notify(Reached(s))
    /\ UNCHANGED <<configVars, pending, loadVars, reported>>

(* A new source; an entry that tracks the id ignores a "create".            *)
CreateSource(s, d) ==
    /\ ~There(s) /\ Change
    /\ device' = [device EXCEPT ![s] = d]
    /\ UNCHANGED <<configVars, pending, loadVars, reloads, reported>>

-----------------------------------------------------------------------------
(* Loading and reloading.                                                   *)

BeginReload(e) ==
    /\ phase[e] = "loaded" /\ reloads[e] > 0
    /\ phase' = [phase EXCEPT ![e] = "stopping"]
    /\ reloads' = [reloads EXCEPT ![e] = @ - 1]
    /\ sensors' = [sensors EXCEPT ![e] = <<>>]
    /\ UNCHANGED <<device, configVars, pending, runtime, tracked, reported, changes>>

FinishUnload(e) ==
    /\ phase[e] = "stopping"
    /\ phase' = [phase EXCEPT ![e] = "down"]
    /\ tracked' = [tracked EXCEPT ![e] = {}]
    /\ runtime' = [runtime EXCEPT ![e] = None]
    /\ UNCHANGED <<device, configVars, pending, sensors, reloads, reported, changes>>

(* async_setup_entry up to its await: runtime data, listener, tracker.      *)
AsyncSetupEntry(e) ==
    /\ Exists(e) /\ phase[e] = "down"
    /\ phase' = [phase EXCEPT ![e] = "starting"]
    /\ runtime' = [runtime EXCEPT ![e] = price[e]]
    /\ tracked' = [tracked EXCEPT ![e] = TrackedSourceEntityIds(e)]
    /\ UNCHANGED <<device, configVars, pending, sensors, reloads, reported, changes>>

(* Mistake: the setup waits for the reloads that wait for it.               *)
FinishSetupWaiting(e) ==
    /\ phase[e] = "starting" /\ reloads[e] = 0
    /\ phase' = [phase EXCEPT ![e] = "loaded"]
    /\ sensors' = [sensors EXCEPT ![e] = CostSensors(e)]
    /\ UNCHANGED <<device, configVars, pending, runtime, tracked, reloads, reported, changes>>

FinishSetup(e) ==
    /\ phase[e] = "starting"
    /\ phase' = [phase EXCEPT ![e] = "loaded"]
    /\ sensors' = [sensors EXCEPT ![e] = CostSensors(e)]
    /\ UNCHANGED <<device, configVars, pending, runtime, tracked, reloads, reported, changes>>

-----------------------------------------------------------------------------
(* At first every entry has been loaded as a start of Home Assistant loads  *)
(* it: its sources apart, its unique ids its energy sensors.  Any sources   *)
(* are there, on one device.                                                *)
Init ==
    /\ \E d \in Devices, there \in SUBSET Sources :
         device = [s \in Sources |-> IF s \in there THEN d ELSE None]
    /\ price \in [Entries -> PriceSensors \cup {None}]
    /\ \A e1, e2 \in Entries : price[e1] = price[e2] => e1 = e2 \/ price[e1] = None
    /\ appliances \in [Entries -> UpTo({a \in Appliance : a.unique = a.energy})]
    /\ \A e \in Entries :
         /\ price[e] = None => appliances[e] = <<>>
         /\ \A i, j \in DOMAIN appliances[e] :
              appliances[e][i] = appliances[e][j] => i = j
    /\ pending = [f \in Flows |-> None]
    /\ phase = [e \in Entries |-> IF Exists(e) THEN "loaded" ELSE "down"]
    /\ runtime = price
    /\ tracked = [e \in Entries |-> IF Exists(e) THEN TrackedSourceEntityIds(e) ELSE {}]
    /\ sensors = [e \in Entries |-> CostSensors(e)]
    /\ reloads = [e \in Entries |-> 0]
    /\ reported = [e \in Entries |-> {}]
    /\ changes = 0

ConfigFlowStep ==
    \/ \E p \in PriceSensors : AsyncStepUser(p)
    \/ \E e \in Entries, p \in PriceSensors : AsyncStepReconfigure(e, p)
    \/ \E f \in Flows : AsyncStepConfirmNoStatistics(f)

SubentryStep ==
    \E e \in Entries :
       \/ \E s \in EnergySensors : AddAppliance(e, s)
       \/ \E i \in 1 .. MaxAppliances, s \in EnergySensors : ReconfigureAppliance(e, i, s)
       \/ \E i \in 1 .. MaxAppliances : RemoveAppliance(e, i)

RegistryStep ==
    \E s \in Sources :
       \/ \E new \in Sources : RenameSource(s, new)
       \/ RemoveSource(s)
       \/ \E d \in Devices : MoveSource(s, d) \/ CreateSource(s, d)

LoadStep(e) == BeginReload(e) \/ FinishUnload(e) \/ AsyncSetupEntry(e) \/ FinishSetup(e)

Next == ConfigFlowStep \/ SubentryStep \/ RegistryStep \/ \E e \in Entries : LoadStep(e)

Spec == Init /\ [][Next]_vars

(* Home Assistant runs every setup and reload task to its end.              *)
Fairness == \A e \in Entries : WF_vars(LoadStep(e))
FairSpec == Spec /\ Fairness

-----------------------------------------------------------------------------
Settled(e) == phase[e] = "loaded" /\ reloads[e] = 0

(* Set up, or being set up, from the configuration there is.                *)
UpToDate(e) == phase[e] \in {"starting", "loaded"} /\ reloads[e] = 0

SharesSensor(e, s) ==
    \E i, j \in DOMAIN appliances[e] : i # j /\ EnergyOf(e)[i] = s /\ EnergyOf(e)[j] = s

RunsItsConfig(e) ==
    /\ runtime[e] = price[e]
    /\ DOMAIN sensors[e] = DOMAIN appliances[e]
    /\ \A i \in DOMAIN sensors[e] :
         /\ sensors[e][i].energy = EnergyOf(e)[i]
         /\ sensors[e][i].link \in {None, device[EnergyOf(e)[i]]}

(* A loaded entry with no reload to come runs the configuration it has:     *)
(* that price, a cost sensor per appliance on its energy sensor, none of    *)
(* them attached to a device its source is not on, and every source         *)
(* watched.  A change in any window of a reload is either read by the setup *)
(* to come or schedules another reload (the order in async_setup_entry).    *)
InForce ==
    \A e \in Entries :
       /\ UpToDate(e) => tracked[e] = Uses(e) /\ runtime[e] = price[e]
       /\ Settled(e) => RunsItsConfig(e)

(* The registry aside, no step brings a price sensor or an energy sensor   *)
(* together with another user of it.                                        *)
KeepApart ==
    device' = device =>
      /\ \A e1, e2 \in Entries :
           e1 # e2 /\ price'[e1] = price'[e2] /\ price'[e1] # None => price[e1] = price[e2]
      /\ \A e \in Entries, s \in EnergySensors : SharesSensor(e, s)' => SharesSensor(e, s)

(* No flow makes two entries share a price sensor or two appliances of an   *)
(* entry an energy sensor, however long it was parked and whatever          *)
(* happened meanwhile (the checks repeated at the commit).                  *)
FlowsKeepApart == [][KeepApart]_vars

(* old becomes new, in the registry.                                        *)
Renamed(old, new) ==
    device[old] # None /\ device[new] = None /\ device' = [device EXCEPT ![old] = None, ![new] = device[old]]

(* Where old was used by one, new is, and nothing else moved.               *)
FollowRename ==
    \A e \in Entries, old, new \in Sources :
       UpToDate(e) /\ Renamed(old, new) /\ ~SharesSensor(e, old) =>
         LET to(s) == IF s = old THEN new ELSE s
         IN  /\ price'[e] = to(price[e])
             /\ EnergyOf(e)' = [i \in DOMAIN appliances[e] |-> to(EnergyOf(e)[i])]

(* A rename of a source that one appliance, or the entry, uses is followed  *)
(* in every entry that is up to date, collisions included: core must not    *)
(* refuse the update, and nothing else of the configuration moves.          *)
RenameFollowed == [][FollowRename]_vars

ReportsAgree(e) ==
    \A s \in EnergySensors :
       /\ SharesSensor(e, s)' /\ ~SharesSensor(e, s) => s \in reported'[e]
       /\ s \in reported'[e] \ reported[e] => SharesSensor(e, s)'

UniqueIdsFollow(e) == \A i \in DOMAIN appliances[e] : appliances[e][i].unique = EnergyOf(e)[i]

(* In an entry whose unique ids are its energy sensors, two appliances come *)
(* to share a sensor only with the error that says so, and the error says   *)
(* so only then (_async_follow_energy_sensor_rename).                       *)
SharingIsReported == [][\A e \in Entries : UniqueIdsFollow(e) => ReportsAgree(e)]_vars

(* The same without the condition on unique ids: what the error's text and  *)
(* its row in docs/reference.md say of a rename that makes two share.       *)
SharingIsAlwaysReported == [][\A e \in Entries : ReportsAgree(e)]_vars

(* Whatever the changes, and in whichever window of a reload they came,     *)
(* every entry comes to run its configuration (the listener and its         *)
(* reloads, run to their end by Home Assistant).                            *)
EveryChangeTakesEffect ==
    \A e \in Entries : Exists(e) ~> (Settled(e) /\ RunsItsConfig(e))

=============================================================================
