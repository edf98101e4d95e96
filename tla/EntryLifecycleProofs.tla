-------------------------- MODULE EntryLifecycleProofs --------------------------
(***************************************************************************)
(* For any entries, sensors, devices and flows, and whatever changes in     *)
(* whichever window of a reload: every state is well typed, and a loaded    *)
(* entry with no reload to come runs its configuration.  No flow makes two  *)
(* entries share a price sensor or two appliances an energy sensor, a       *)
(* rename is followed in every entry that is up to date, and two appliances *)
(* come to share a sensor exactly with the error that says so.              *)
(***************************************************************************)
EXTENDS EntryLifecycle, TLAPS, SequenceTheorems, WellFoundedInduction

-----------------------------------------------------------------------------
(* Bounded sequences.                                                       *)

(* UpTo(S) holds the short sequences over S.                                *)
LEMMA UpToIsSeq ==
    ASSUME NEW S, NEW s
    PROVE  s \in UpTo(S) <=> s \in Seq(S) /\ Len(s) <= MaxAppliances
<1>1. ASSUME s \in UpTo(S) PROVE s \in Seq(S) /\ Len(s) <= MaxAppliances
  <2>1. PICK n \in 0 .. MaxAppliances : s \in [1 .. n -> S]
    BY <1>1 DEF UpTo
  <2> QED
    BY <2>1, EntryAssumption DEF EntryAssumption
<1>2. ASSUME s \in Seq(S), Len(s) <= MaxAppliances PROVE s \in UpTo(S)
  <2>1. Len(s) \in 0 .. MaxAppliances /\ s \in [1 .. Len(s) -> S]
    BY <1>2, EntryAssumption DEF EntryAssumption
  <2> QED
    BY <2>1 DEF UpTo
<1> QED
  BY <1>1, <1>2

(* The empty sequence is short enough.                                      *)
LEMMA UpToEmpty == ASSUME NEW S PROVE <<>> \in UpTo(S)
<1>1. <<>> \in [1 .. 0 -> S]
  OBVIOUS
<1>2. 0 \in 0 .. MaxAppliances
  BY EntryAssumption DEF EntryAssumption
<1> QED
  BY <1>1, <1>2 DEF UpTo

(* Replacing an element leaves a short sequence.                            *)
LEMMA UpToExcept ==
    ASSUME NEW S, NEW s \in UpTo(S), NEW i \in DOMAIN s, NEW x \in S
    PROVE  [s EXCEPT ![i] = x] \in UpTo(S)
<1>1. PICK n \in 0 .. MaxAppliances : s \in [1 .. n -> S]
  BY DEF UpTo
<1>2. [s EXCEPT ![i] = x] \in [1 .. n -> S]
  BY <1>1
<1> QED
  BY <1>1, <1>2 DEF UpTo

(* So does deleting one.                                                    *)
LEMMA UpToRemove ==
    ASSUME NEW S, NEW s \in UpTo(S), NEW i \in DOMAIN s
    PROVE  SubSeq(s, 1, i - 1) \o SubSeq(s, i + 1, Len(s)) \in UpTo(S)
<1>1. s \in Seq(S) /\ Len(s) <= MaxAppliances /\ i \in 1 .. Len(s)
  BY UpToIsSeq
<1>2. SubSeq(s, 1, i - 1) \in Seq(S) /\ Len(SubSeq(s, 1, i - 1)) = i - 1
  BY <1>1
<1>3. SubSeq(s, i + 1, Len(s)) \in Seq(S) /\ Len(SubSeq(s, i + 1, Len(s))) = Len(s) - i
  BY <1>1
<1>4. /\ SubSeq(s, 1, i - 1) \o SubSeq(s, i + 1, Len(s)) \in Seq(S)
      /\ Len(SubSeq(s, 1, i - 1) \o SubSeq(s, i + 1, Len(s))) <= MaxAppliances
  <2>1. PICK t, u : t = SubSeq(s, 1, i - 1) /\ u = SubSeq(s, i + 1, Len(s))
    OBVIOUS
  <2>2. t \in Seq(S) /\ u \in Seq(S) /\ Len(t) = i - 1 /\ Len(u) = Len(s) - i
    BY <1>2, <1>3, <2>1
  <2>3. t \o u \in Seq(S) /\ Len(t \o u) = Len(t) + Len(u)
    BY <2>2
  <2>4. Len(s) \in Nat /\ i \in Int /\ MaxAppliances \in Int
    BY <1>1, EntryAssumption DEF EntryAssumption
  <2>5. Len(t) + Len(u) <= MaxAppliances
    BY <1>1, <2>2, <2>4
  <2> QED
    BY <2>1, <2>3, <2>5
<1> QED
  BY <1>4, UpToIsSeq

(* And appending to one that is not full.                                   *)
LEMMA UpToAppend ==
    ASSUME NEW S, NEW s \in UpTo(S), Len(s) < MaxAppliances, NEW x \in S
    PROVE  Append(s, x) \in UpTo(S)
<1>1. s \in Seq(S)
  BY UpToIsSeq
<1>2. Append(s, x) \in Seq(S) /\ Len(Append(s, x)) <= MaxAppliances
  BY <1>1, EntryAssumption DEF EntryAssumption
<1> QED
  BY <1>2, UpToIsSeq

-----------------------------------------------------------------------------
(* Helpers of the actions.                                                  *)

(* A listening entry that changed has a reload to come; others are left.    *)
LEMMA Notified ==
    ASSUME TypeOK, NEW changed, Notify(changed)
    PROVE  /\ reloads' \in [Entries -> Nat]
           /\ \A e \in Entries :
                /\ e \in changed /\ Listening(e) => reloads'[e] > 0
                /\ ~(e \in changed /\ Listening(e)) => reloads'[e] = reloads[e]
BY DEF TypeOK, Notify

LEMMA ChangeType ==
    ASSUME TypeOK, Change PROVE changes' \in 0 .. MaxChanges
BY EntryAssumption DEF TypeOK, Change, EntryAssumption

LEMMA EnergyOfType ==
    ASSUME TypeOK, NEW e \in Entries
    PROVE  /\ DOMAIN EnergyOf(e) = DOMAIN appliances[e]
           /\ \A i \in DOMAIN appliances[e] :
                /\ appliances[e][i] \in Appliance
                /\ EnergyOf(e)[i] = appliances[e][i].energy
                /\ EnergyOf(e)[i] \in EnergySensors
<1>1. appliances[e] \in Seq(Appliance)
  BY UpToIsSeq DEF TypeOK
<1>2. DOMAIN EnergyOf(e) = DOMAIN appliances[e]
  BY DEF EnergyOf
<1>3. ASSUME NEW i \in DOMAIN appliances[e]
      PROVE  /\ appliances[e][i] \in Appliance
             /\ EnergyOf(e)[i] = appliances[e][i].energy
             /\ EnergyOf(e)[i] \in EnergySensors
  <2>1. appliances[e][i] \in Appliance
    BY <1>1
  <2>2. EnergyOf(e)[i] = appliances[e][i].energy
    BY DEF EnergyOf
  <2> QED
    BY <2>1, <2>2 DEF Appliance
<1> QED
  BY <1>2, <1>3

(* A price sensor is replaced by a price sensor.                            *)
LEMMA CommitType ==
    ASSUME TypeOK, NEW target, NEW p \in PriceSensors, Commit(target, p)
    PROVE  /\ price' \in [Entries -> PriceSensors \cup {None}]
           /\ appliances' = appliances /\ reloads' \in [Entries -> Nat]
BY Notified DEF TypeOK, Commit, CreatePendingEntry, FinishReconfigure

(* Following a rename leaves appliances.                                    *)
LEMMA FollowType ==
    ASSUME TypeOK, NEW e \in Entries, NEW old \in Sources, NEW new \in Sources,
           old \in PriceSensors <=> new \in PriceSensors
    PROVE  /\ FollowedAppliances(e, old, new) \in UpTo(Appliance)
           /\ FollowedPrice(e, old, new) \in PriceSensors \cup {None}
<1>1. FollowedPrice(e, old, new) \in PriceSensors \cup {None}
  BY EntryAssumption DEF TypeOK, FollowedPrice, EntryAssumption, Sources
<1>2. appliances[e] \in UpTo(Appliance)
  BY DEF TypeOK
<1>3. CASE Follower(e, old) = {}
  BY <1>1, <1>2, <1>3 DEF FollowedAppliances
<1>4. CASE Follower(e, old) # {}
  <2> DEFINE i == CHOOSE i \in Follower(e, old) : TRUE
             to == [energy |-> new, unique |-> IF Collision(e, i, new)
                                               THEN appliances[e][i].unique ELSE new]
  <2>1. i \in Follower(e, old)
    BY <1>4
  <2>2. i \in DOMAIN appliances[e] /\ EnergyOf(e)[i] = old
    BY <2>1 DEF Follower
  <2>3. appliances[e][i].unique \in EnergySensors /\ old \in EnergySensors
    BY <2>2, EnergyOfType DEF Appliance
  <2>4. new \in EnergySensors
    BY <2>3, EntryAssumption DEF EntryAssumption, Sources
  <2>5. to \in Appliance
    BY <2>3, <2>4 DEF Appliance
  <2>6. [appliances[e] EXCEPT ![i] = to] \in UpTo(Appliance)
    BY <1>2, <2>2, <2>5, UpToExcept
  <2>7. FollowedAppliances(e, old, new) = UpdateSubentry(e, i, to)
    BY <1>4 DEF FollowedAppliances, FollowEnergySensorRename
  <2> QED
    BY <1>1, <1>2, <2>6, <2>7 DEF UpdateSubentry
<1> QED
  BY <1>3, <1>4

-----------------------------------------------------------------------------
(* Type correctness.                                                        *)

LEMMA CostSensorsType ==
    ASSUME TypeOK, NEW e \in Entries
    PROVE  CostSensors(e) \in UpTo(CostSensor)
<1> appliances[e] \in UpTo(Appliance)
  BY DEF TypeOK
<1>1. PICK n \in 0 .. MaxAppliances : appliances[e] \in [1 .. n -> Appliance]
  BY DEF UpTo
<1>2. ASSUME NEW i \in DOMAIN appliances[e]
      PROVE  [energy |-> EnergyOf(e)[i], link |-> device[EnergyOf(e)[i]]] \in CostSensor
  BY EnergyOfType DEF TypeOK, CostSensor, Sources
<1>3. CostSensors(e) \in [1 .. n -> CostSensor]
  BY <1>1, <1>2 DEF CostSensors
<1> QED
  BY <1>3 DEF UpTo

LEMMA TrackedType ==
    ASSUME TypeOK, NEW e \in Entries, Exists(e)
    PROVE  TrackedSourceEntityIds(e) \in SUBSET Sources
BY EnergyOfType DEF TypeOK, TrackedSourceEntityIds, Exists, Sources

LEMMA InitType == Init => TypeOK
<1> SUFFICES ASSUME Init PROVE TypeOK
  OBVIOUS
<1>1. device \in [Sources -> Devices \cup {None}]
  BY DEF Init
<1>2. appliances \in [Entries -> UpTo(Appliance)]
  <2>1. UpTo({a \in Appliance : a.unique = a.energy}) \subseteq UpTo(Appliance)
    BY DEF UpTo
  <2> QED
    BY <2>1 DEF Init
<1>3. /\ price \in [Entries -> PriceSensors \cup {None}]
      /\ pending \in [Flows -> Selection \cup {None}]
      /\ phase \in [Entries -> Phases]
      /\ runtime \in [Entries -> PriceSensors \cup {None}]
      /\ reloads \in [Entries -> Nat]
      /\ reported \in [Entries -> SUBSET EnergySensors]
      /\ changes \in 0 .. MaxChanges
  BY EntryAssumption DEF Init, Phases, EntryAssumption
<1>4. ASSUME NEW e \in Entries
      PROVE  /\ DOMAIN EnergyOf(e) = DOMAIN appliances[e]
             /\ \A i \in DOMAIN appliances[e] : EnergyOf(e)[i] \in EnergySensors
  <2>1. PICK n \in 0 .. MaxAppliances : appliances[e] \in [1 .. n -> Appliance]
    BY <1>2 DEF UpTo
  <2>2. \A i \in DOMAIN appliances[e] : appliances[e][i].energy \in EnergySensors
    BY <2>1 DEF Appliance
  <2> QED
    BY <2>2 DEF EnergyOf
<1>5. tracked \in [Entries -> SUBSET Sources]
  BY <1>3, <1>4 DEF Init, TrackedSourceEntityIds, Exists, Sources
<1>6. sensors \in [Entries -> UpTo(CostSensor)]
  <2>1. ASSUME NEW e \in Entries PROVE CostSensors(e) \in UpTo(CostSensor)
    <3>1. PICK n \in 0 .. MaxAppliances : appliances[e] \in [1 .. n -> Appliance]
      BY <1>2 DEF UpTo
    <3>2. ASSUME NEW i \in DOMAIN appliances[e]
          PROVE  [energy |-> EnergyOf(e)[i], link |-> device[EnergyOf(e)[i]]] \in CostSensor
      BY <1>1, <1>4 DEF CostSensor, Sources
    <3>3. CostSensors(e) \in [1 .. n -> CostSensor]
      BY <3>1, <3>2 DEF CostSensors
    <3> QED
      BY <3>3 DEF UpTo
  <2> QED
    BY <2>1 DEF Init
<1> QED
  BY <1>1, <1>2, <1>3, <1>5, <1>6 DEF TypeOK

LEMMA SelectType ==
    ASSUME TypeOK, NEW target \in Entries \cup {NewEntry}, NEW p \in PriceSensors,
           Select(target, p), UNCHANGED <<device, loadVars, reported>>
    PROVE  TypeOK'
<1>1. CASE Commit(target, p) /\ Change /\ UNCHANGED pending
  BY <1>1, CommitType, ChangeType DEF TypeOK, loadVars
<1>2. CASE \E f \in Flows : Park(f, target, p)
  <2>1. PICK f \in Flows : Park(f, target, p)
    BY <1>2
  <2>2. [target |-> target, price |-> p] \in Selection
    BY DEF Selection
  <2>3. pending' \in [Flows -> Selection \cup {None}]
    BY <2>1, <2>2 DEF Park, TypeOK
  <2> QED
    BY <2>1, <2>3 DEF Park, TypeOK, configVars, loadVars
<1> QED
  BY <1>1, <1>2 DEF Select

LEMMA ConfirmType ==
    ASSUME TypeOK, NEW f \in Flows, AsyncStepConfirmNoStatistics(f)
    PROVE  TypeOK'
<1>1. pending[f] \in Selection
  BY DEF TypeOK, AsyncStepConfirmNoStatistics
<1>2. pending[f].price \in PriceSensors
  BY <1>1 DEF Selection
<1>3. pending' \in [Flows -> Selection \cup {None}]
  BY DEF TypeOK, AsyncStepConfirmNoStatistics
<1>4. CASE Commit(pending[f].target, pending[f].price) /\ Change
  BY <1>2, <1>3, <1>4, CommitType, ChangeType
     DEF TypeOK, AsyncStepConfirmNoStatistics, loadVars
<1>5. CASE UNCHANGED <<configVars, reloads, changes>>
  BY <1>3, <1>5 DEF TypeOK, AsyncStepConfirmNoStatistics, configVars, loadVars
<1> QED
  BY <1>4, <1>5 DEF AsyncStepConfirmNoStatistics

LEMMA SubentryType ==
    ASSUME TypeOK, SubentryStep PROVE TypeOK'
<1>1. PICK e \in Entries :
         \/ \E s \in EnergySensors : AddAppliance(e, s)
         \/ \E i \in 1 .. MaxAppliances, s \in EnergySensors : ReconfigureAppliance(e, i, s)
         \/ \E i \in 1 .. MaxAppliances : RemoveAppliance(e, i)
  BY DEF SubentryStep
<1>2. appliances[e] \in UpTo(Appliance)
  BY DEF TypeOK
<1>3. ASSUME NEW now \in UpTo(Appliance), appliances' = [appliances EXCEPT ![e] = now],
             Notify({e}), Change, UNCHANGED <<device, price, pending, loadVars, reported>>
      PROVE  TypeOK'
  BY <1>3, Notified, ChangeType DEF TypeOK, loadVars
<1>4. ASSUME NEW s \in EnergySensors, AddAppliance(e, s) PROVE TypeOK'
  <2>1. [energy |-> s, unique |-> s] \in Appliance
    BY DEF Appliance
  <2>2. Append(appliances[e], [energy |-> s, unique |-> s]) \in UpTo(Appliance)
    BY <1>2, <1>4, <2>1, UpToAppend DEF AddAppliance
  <2> QED
    BY <1>3, <1>4, <2>2 DEF AddAppliance
<1>5. ASSUME NEW i \in 1 .. MaxAppliances, NEW s \in EnergySensors, ReconfigureAppliance(e, i, s)
      PROVE  TypeOK'
  <2>1. [energy |-> s, unique |-> s] \in Appliance
    BY DEF Appliance
  <2>2. [appliances[e] EXCEPT ![i] = [energy |-> s, unique |-> s]] \in UpTo(Appliance)
    BY <1>2, <1>5, <2>1, UpToExcept DEF ReconfigureAppliance
  <2> QED
    BY <1>3, <1>5, <2>2 DEF ReconfigureAppliance
<1>6. ASSUME NEW i \in 1 .. MaxAppliances, RemoveAppliance(e, i) PROVE TypeOK'
  <2>1. SubSeq(appliances[e], 1, i - 1) \o SubSeq(appliances[e], i + 1, Len(appliances[e]))
          \in UpTo(Appliance)
    BY <1>2, <1>6, UpToRemove DEF RemoveAppliance
  <2> QED
    BY <1>3, <1>6, <2>1 DEF RemoveAppliance
<1> QED
  BY <1>1, <1>4, <1>5, <1>6

LEMMA RegistryType ==
    ASSUME TypeOK, RegistryStep PROVE TypeOK'
<1>1. PICK s \in Sources :
         \/ \E new \in Sources : RenameSource(s, new)
         \/ RemoveSource(s)
         \/ \E d \in Devices : MoveSource(s, d) \/ CreateSource(s, d)
  BY DEF RegistryStep
<1>2. ASSUME NEW new \in Sources, RenameSource(s, new) PROVE TypeOK'
  <2>1. device' \in [Sources -> Devices \cup {None}]
    BY <1>2 DEF RenameSource, TypeOK
  <2>2. price' \in [Entries -> PriceSensors \cup {None}]
    BY <1>2, FollowType DEF RenameSource, FollowSourceRename, TypeOK
  <2>3. appliances' \in [Entries -> UpTo(Appliance)]
    BY <1>2, FollowType DEF RenameSource, FollowSourceRename, TypeOK
  <2>4. reported' \in [Entries -> SUBSET EnergySensors]
    <3>1. ASSUME NEW e \in Entries, NEW i \in Follower(e, s) PROVE new \in EnergySensors
      <4>1. s \in EnergySensors
        BY <3>1, EnergyOfType DEF Follower
      <4> QED
        BY <1>2, <4>1, EntryAssumption DEF RenameSource, EntryAssumption, Sources
    <3> QED
      BY <1>2, <3>1 DEF RenameSource, FollowSourceRename, TypeOK
  <2>5. reloads' \in [Entries -> Nat]
    BY <1>2, Notified DEF RenameSource, FollowSourceRename
  <2> QED
    BY <1>2, <2>1, <2>2, <2>3, <2>4, <2>5, ChangeType DEF RenameSource, TypeOK, loadVars
<1>3. ASSUME RemoveSource(s) PROVE TypeOK'
  BY <1>3, Notified, ChangeType DEF RemoveSource, TypeOK, configVars, loadVars
<1>4. ASSUME NEW d \in Devices, MoveSource(s, d) PROVE TypeOK'
  BY <1>4, Notified, ChangeType DEF MoveSource, TypeOK, configVars, loadVars
<1>5. ASSUME NEW d \in Devices, CreateSource(s, d) PROVE TypeOK'
  BY <1>5, ChangeType DEF CreateSource, TypeOK, configVars, loadVars
<1> QED
  BY <1>1, <1>2, <1>3, <1>4, <1>5

LEMMA LoadType ==
    ASSUME TypeOK, NEW e \in Entries, LoadStep(e) PROVE TypeOK'
<1>1. ASSUME BeginReload(e) PROVE TypeOK'
  <2>1. <<>> \in UpTo(CostSensor)
    BY UpToEmpty
  <2>2. reloads' \in [Entries -> Nat]
    BY <1>1 DEF BeginReload, TypeOK
  <2> QED
    BY <1>1, <2>1, <2>2 DEF BeginReload, TypeOK, configVars, Phases
<1>2. ASSUME FinishUnload(e) PROVE TypeOK'
  BY <1>2 DEF FinishUnload, TypeOK, configVars, Phases
<1>3. ASSUME AsyncSetupEntry(e) PROVE TypeOK'
  BY <1>3, TrackedType DEF AsyncSetupEntry, TypeOK, configVars, Phases
<1>4. ASSUME FinishSetup(e) PROVE TypeOK'
  BY <1>4, CostSensorsType DEF FinishSetup, TypeOK, configVars, Phases
<1> QED
  BY <1>1, <1>2, <1>3, <1>4 DEF LoadStep

LEMMA TypeStep == TypeOK /\ [Next]_vars => TypeOK'
<1> SUFFICES ASSUME TypeOK, [Next]_vars PROVE TypeOK'
  OBVIOUS
<1>1. CASE ConfigFlowStep
  <2>1. ASSUME NEW p \in PriceSensors, AsyncStepUser(p) PROVE TypeOK'
    BY <2>1, SelectType DEF AsyncStepUser
  <2>2. ASSUME NEW e \in Entries, NEW p \in PriceSensors, AsyncStepReconfigure(e, p)
        PROVE  TypeOK'
    BY <2>2, SelectType DEF AsyncStepReconfigure
  <2> QED
    BY <1>1, <2>1, <2>2, ConfirmType DEF ConfigFlowStep
<1>2. CASE UNCHANGED vars
  BY <1>2 DEF TypeOK, vars, configVars, loadVars
<1> QED
  BY <1>1, <1>2, SubentryType, RegistryType, LoadType DEF Next

(* Every reachable state is well typed: bounded lists of appliances and     *)
(* running sensors, sources of the right kind, reloads counted from zero.   *)
THEOREM TypeCorrect == Spec => []TypeOK
<1>1. Init => TypeOK
  BY InitType
<1>2. TypeOK /\ [Next]_vars => TypeOK'
  BY TypeStep
<1> QED
  BY <1>1, <1>2, PTL DEF Spec

-----------------------------------------------------------------------------
(* A loaded entry runs its configuration.                                   *)

(* An entry that is loaded, or on its way, is there.                        *)
LoadedExist == \A e \in Entries : phase[e] # "down" => Exists(e)

EntryInForce(e) ==
    /\ UpToDate(e) => tracked[e] = Uses(e) /\ runtime[e] = price[e]
    /\ Settled(e) => RunsItsConfig(e)

LoadInv == TypeOK /\ LoadedExist /\ \A e \in Entries : EntryInForce(e)

(* What a step may leave of one entry.                                      *)
SameConfig(e) == price'[e] = price[e] /\ appliances'[e] = appliances[e]

SameLoad(e) ==
    /\ phase'[e] = phase[e] /\ runtime'[e] = runtime[e]
    /\ tracked'[e] = tracked[e] /\ sensors'[e] = sensors[e]

(* The sources of its appliances stay where they are, or leave no link wrong. *)
LinksHold(e) ==
    \A i \in DOMAIN appliances[e] :
       sensors[e][i].link \in {None, device[EnergyOf(e)[i]]}
          => sensors[e][i].link \in {None, device'[EnergyOf(e)[i]]}

(* Nothing is asked of an entry that is down or has a reload to come.       *)
LEMMA ReloadToCome ==
    ASSUME TypeOK', NEW e \in Entries,
           phase'[e] \in {"down", "stopping"} \/ reloads'[e] > 0
    PROVE  EntryInForce(e)'
<1>1. reloads'[e] > 0 => reloads'[e] # 0
  OBVIOUS
<1> QED
  BY <1>1 DEF EntryInForce, UpToDate, Settled

(* An entry whose configuration, sensors and links a step leaves alone.     *)
LEMMA LeftAlone ==
    ASSUME LoadInv, NEW e \in Entries, SameLoad(e), SameConfig(e),
           reloads'[e] = reloads[e], Settled(e) => LinksHold(e)
    PROVE  EntryInForce(e)'
<1>1. EnergyOf(e)' = EnergyOf(e) /\ Uses(e)' = Uses(e)
  BY DEF SameConfig, EnergyOf, Uses
<1>2. (UpToDate(e)' <=> UpToDate(e)) /\ (Settled(e)' <=> Settled(e))
  BY DEF SameLoad, UpToDate, Settled
<1>3. EntryInForce(e)
  BY DEF LoadInv
<1>4. ASSUME Settled(e) PROVE RunsItsConfig(e)'
  <2>1. RunsItsConfig(e) /\ LinksHold(e)
    BY <1>3, <1>4 DEF EntryInForce
  <2> QED
    BY <2>1, <1>1 DEF RunsItsConfig, LinksHold, SameLoad, SameConfig
<1> QED
  BY <1>1, <1>2, <1>3, <1>4 DEF EntryInForce, SameLoad, SameConfig

(* Changes of the configuration, the registry aside: what is not notified   *)
(* did not change.                                                          *)
LEMMA ConfigChange ==
    ASSUME LoadInv, TypeOK', NEW changed, Notify(changed), UNCHANGED <<device, loadVars>>,
           \A e \in Entries : SameConfig(e) \/ e \in changed,
           LoadedExist'
    PROVE  LoadInv'
<1> SUFFICES ASSUME NEW e \in Entries PROVE EntryInForce(e)'
  BY DEF LoadInv
<1> TypeOK /\ SameLoad(e)
  BY DEF LoadInv, SameLoad, loadVars
<1>1. CASE e \in changed /\ Listening(e)
  BY <1>1, Notified, ReloadToCome
<1>2. CASE ~(e \in changed /\ Listening(e)) /\ SameConfig(e)
  <2>1. reloads'[e] = reloads[e]
    BY <1>2, Notified
  <2>2. LinksHold(e)
    BY DEF LinksHold
  <2> QED
    BY <1>2, <2>1, <2>2, LeftAlone
<1>3. CASE ~Listening(e)
  <2>1. phase'[e] = "down"
    BY <1>3 DEF Listening, LoadInv, LoadedExist, SameLoad
  <2> QED
    BY <2>1, ReloadToCome
<1> QED
  BY <1>1, <1>2, <1>3

(* What the flows do at once, or at the warning's confirmation.             *)
LEMMA CommitInForce ==
    ASSUME LoadInv, TypeOK', NEW target \in Entries \cup {NewEntry}, NEW p \in PriceSensors,
           Commit(target, p), UNCHANGED <<device, loadVars>>
    PROVE  LoadInv'
<1> TypeOK
  BY DEF LoadInv
<1>1. LoadedExist'
  BY EntryAssumption DEF LoadInv, LoadedExist, Exists, TypeOK, Commit, CreatePendingEntry,
     FinishReconfigure, loadVars, EntryAssumption, Sources
<1>2. CASE target = NewEntry
  <2>1. PICK new \in Entries : ~Exists(new) /\ price' = [price EXCEPT ![new] = p]
    BY <1>2 DEF Commit, CreatePendingEntry
  <2>2. UNCHANGED <<appliances, reloads>>
    BY <1>2 DEF Commit, CreatePendingEntry
  <2>3. ASSUME NEW e \in Entries PROVE EntryInForce(e)'
    <3>1. CASE e = new
      <4>1. phase'[e] = "down"
        BY <2>1, <3>1 DEF LoadInv, LoadedExist, loadVars
      <4> QED
        BY <4>1, ReloadToCome
    <3>2. CASE e # new
      <4>1. SameConfig(e) /\ SameLoad(e) /\ LinksHold(e) /\ reloads'[e] = reloads[e]
        BY <2>1, <2>2, <3>2 DEF TypeOK, SameConfig, SameLoad, LinksHold, loadVars
      <4> QED
        BY <4>1, LeftAlone
    <3> QED
      BY <3>1, <3>2
  <2> QED
    BY <1>1, <2>3 DEF LoadInv
<1>3. CASE target \in Entries
  <2>1. /\ price' = [price EXCEPT ![target] = p] /\ UNCHANGED appliances
        /\ Notify(IF p = price[target] THEN {} ELSE {target})
    BY <1>3, EntryAssumption DEF Commit, FinishReconfigure, EntryAssumption
  <2>2. \A e \in Entries :
           SameConfig(e) \/ e \in (IF p = price[target] THEN {} ELSE {target})
    BY <1>3, <2>1, EntryAssumption DEF SameConfig, TypeOK, EntryAssumption
  <2> QED
    BY <1>1, <2>1, <2>2, ConfigChange
<1> QED
  BY <1>2, <1>3

LEMMA NothingMoved ==
    ASSUME LoadInv, TypeOK', UNCHANGED <<device, configVars, loadVars, reloads>>
    PROVE  LoadInv'
<1>1. ASSUME NEW e \in Entries PROVE EntryInForce(e)'
  <2>1. SameConfig(e) /\ SameLoad(e) /\ LinksHold(e) /\ reloads'[e] = reloads[e]
    BY DEF SameConfig, SameLoad, LinksHold, configVars, loadVars
  <2> QED
    BY <2>1, LeftAlone
<1>2. LoadedExist'
  BY DEF LoadInv, LoadedExist, Exists, configVars, loadVars
<1> QED
  BY <1>1, <1>2 DEF LoadInv

LEMMA SelectInForce ==
    ASSUME LoadInv, TypeOK', NEW target \in Entries \cup {NewEntry}, NEW p \in PriceSensors,
           Select(target, p), UNCHANGED <<device, loadVars, reported>>
    PROVE  LoadInv'
<1>1. CASE \E f \in Flows : Park(f, target, p)
  BY <1>1, NothingMoved DEF Park
<1> QED
  BY <1>1, CommitInForce DEF Select

LEMMA SubentryInForce ==
    ASSUME LoadInv, TypeOK', SubentryStep PROVE LoadInv'
<1> TypeOK
  BY DEF LoadInv
<1>1. PICK e \in Entries :
         \/ \E s \in EnergySensors : AddAppliance(e, s)
         \/ \E i \in 1 .. MaxAppliances, s \in EnergySensors : ReconfigureAppliance(e, i, s)
         \/ \E i \in 1 .. MaxAppliances : RemoveAppliance(e, i)
  BY DEF SubentryStep
<1>2. /\ \A other \in Entries \ {e} : appliances'[other] = appliances[other]
      /\ Notify({e}) /\ UNCHANGED <<device, price, loadVars>>
  BY <1>1 DEF AddAppliance, ReconfigureAppliance, RemoveAppliance, TypeOK
<1>3. LoadedExist'
  BY <1>2 DEF LoadInv, LoadedExist, Exists, loadVars
<1>4. \A other \in Entries : SameConfig(other) \/ other \in {e}
  BY <1>2 DEF SameConfig
<1> QED
  BY <1>2, <1>3, <1>4, ConfigChange

-----------------------------------------------------------------------------
(* The registry.                                                            *)

(* An entry with an appliance on a renamed sensor has one to follow it for. *)
LEMMA FollowerExists ==
    ASSUME TypeOK, NEW e \in Entries, NEW old, price[e] # old,
           NEW i \in DOMAIN appliances[e], EnergyOf(e)[i] = old
    PROVE  Follower(e, old) # {}
<1> DEFINE On == {j \in DOMAIN appliances[e] : EnergyOf(e)[j] = old}
<1>1. DOMAIN appliances[e] = 1 .. Len(appliances[e]) /\ DOMAIN appliances[e] \subseteq Nat
  <2>1. appliances[e] \in Seq(Appliance)
    BY UpToIsSeq DEF TypeOK
  <2> QED
    BY <2>1
<1>2. i \in On /\ On \subseteq Nat
  BY <1>1
<1> HIDE DEF On
<1>3. PICK least \in On : \A j \in On : <<j, least>> \notin OpToRel(<, Nat)
  BY <1>2, NatLessThanWellFounded, WFMin
<1>4. \A j \in On : ~(j < least)
  BY <1>2, <1>3 DEF OpToRel
<1>5. \A j \in 1 .. least - 1 : j \in DOMAIN appliances[e] /\ j < least
  <2>1. Len(appliances[e]) \in Nat
    <3>1. appliances[e] \in Seq(Appliance)
      BY UpToIsSeq DEF TypeOK
    <3> QED
      BY <3>1
  <2>2. least \in 1 .. Len(appliances[e])
    BY <1>1, <1>3 DEF On
  <2>3. \A j \in 1 .. least - 1 : j \in 1 .. Len(appliances[e]) /\ j < least
    BY <2>1, <2>2
  <2> QED
    BY <1>1, <2>3
<1>6. \A j \in 1 .. least - 1 : EnergyOf(e)[j] # old
  BY <1>4, <1>5 DEF On
<1>7. least \in Follower(e, old)
  BY <1>3, <1>6 DEF On, Follower
<1> QED
  BY <1>7

(* The follow is never refused: its update moves the appliance.             *)
LEMMA FollowMoves ==
    ASSUME TypeOK, NEW e \in Entries, NEW old, NEW new, old # new, Follower(e, old) # {}
    PROVE  FollowedAppliances(e, old, new) # appliances[e]
<1> DEFINE i == CHOOSE i \in Follower(e, old) : TRUE
           to == [energy |-> new, unique |-> IF Collision(e, i, new)
                                             THEN appliances[e][i].unique ELSE new]
<1>1. i \in Follower(e, old)
  OBVIOUS
<1>2. i \in DOMAIN appliances[e] /\ appliances[e][i].energy = old
  BY <1>1, EnergyOfType DEF Follower
<1>3. FollowedAppliances(e, old, new) = UpdateSubentry(e, i, to)
  BY DEF FollowedAppliances, FollowEnergySensorRename
<1>4. ~(to.unique # appliances[e][i].unique /\ UniqueIdTaken(e, to.unique, {i}))
  BY DEF Collision
<1> HIDE DEF i
<1>5. UpdateSubentry(e, i, to) = [appliances[e] EXCEPT ![i] = to]
  BY <1>4 DEF UpdateSubentry
<1>6. [appliances[e] EXCEPT ![i] = to][i].energy = new
  BY <1>2
<1> QED
  BY <1>2, <1>3, <1>5, <1>6

(* A source that moves takes no link with it where the entry does not track *)
(* it, or where it had no device to link to.                                *)
LEMMA LinksElsewhere ==
    ASSUME LoadInv, NEW e \in Entries, Settled(e), NEW s \in Sources, NEW d,
           device' = [device EXCEPT ![s] = d], e \notin Reached(s) \/ ~There(s)
    PROVE  LinksHold(e)
<1> TypeOK
  BY DEF LoadInv
<1>1. Listening(e)
  BY DEF LoadInv, LoadedExist, Settled, Listening
<1>2. tracked[e] = Uses(e)
  BY DEF LoadInv, EntryInForce, UpToDate, Settled
<1>3. ASSUME NEW i \in DOMAIN appliances[e],
             sensors[e][i].link \in {None, device[EnergyOf(e)[i]]}
      PROVE  sensors[e][i].link \in {None, device'[EnergyOf(e)[i]]}
  <2>1. EnergyOf(e)[i] \in tracked[e] /\ EnergyOf(e)[i] \in Sources
    BY <1>2, EnergyOfType DEF Uses, Sources
  <2>2. CASE EnergyOf(e)[i] = s
    BY <1>1, <1>3, <2>1, <2>2 DEF Reached, There
  <2>3. CASE EnergyOf(e)[i] # s
    BY <1>3, <2>1, <2>3 DEF TypeOK
  <2> QED
    BY <2>2, <2>3
<1> QED
  BY <1>3 DEF LinksHold

(* Removals and moves reload every entry they concern; a new source         *)
(* concerns none.                                                           *)
LEMMA SourceInForce ==
    ASSUME LoadInv, TypeOK', NEW s \in Sources, NEW d,
           device' = [device EXCEPT ![s] = d],
           Notify(Reached(s)) \/ (~There(s) /\ UNCHANGED reloads),
           UNCHANGED <<configVars, loadVars>>
    PROVE  LoadInv'
<1> TypeOK
  BY DEF LoadInv
<1>1. LoadedExist'
  BY DEF LoadInv, LoadedExist, Exists, configVars, loadVars
<1>2. ASSUME NEW e \in Entries PROVE EntryInForce(e)'
  <2>1. SameConfig(e) /\ SameLoad(e)
    BY DEF SameConfig, SameLoad, configVars, loadVars
  <2>2. CASE Notify(Reached(s)) /\ e \in Reached(s)
    BY <2>2, Notified, ReloadToCome DEF Reached
  <2>3. CASE Notify(Reached(s)) /\ e \notin Reached(s)
    BY <2>1, <2>3, Notified, LinksElsewhere, LeftAlone
  <2>4. CASE ~There(s) /\ UNCHANGED reloads
    BY <2>1, <2>4, LinksElsewhere, LeftAlone
  <2> QED
    BY <2>2, <2>3, <2>4
<1> QED
  BY <1>1, <1>2 DEF LoadInv

(* A rename moves the configuration of every entry it concerns.             *)
LEMMA RenameInForce ==
    ASSUME LoadInv, TypeOK', NEW old \in Sources, NEW new \in Sources, RenameSource(old, new)
    PROVE  LoadInv'
<1> DEFINE moved == {e \in Reached(old) : price'[e] # price[e] \/ appliances'[e] # appliances[e]}
<1> TypeOK
  BY DEF LoadInv
<1>1. /\ old # new /\ device[new] = None
      /\ device' = [device EXCEPT ![old] = None, ![new] = device[old]]
      /\ Notify(moved) /\ UNCHANGED loadVars
  BY DEF RenameSource, FollowSourceRename, There
<1>2. ASSUME NEW e \in Entries
      PROVE  /\ e \in Reached(old) => /\ price'[e] = FollowedPrice(e, old, new)
                                      /\ appliances'[e] = FollowedAppliances(e, old, new)
             /\ e \notin Reached(old) => SameConfig(e)
  BY DEF RenameSource, FollowSourceRename, SameConfig
<1>3. LoadedExist'
  <2>1. ASSUME NEW e \in Entries, Exists(e) PROVE Exists(e)'
    BY <1>2, <2>1, EntryAssumption DEF Exists, SameConfig, FollowedPrice, EntryAssumption
  <2> QED
    BY <1>1, <2>1 DEF LoadInv, LoadedExist, loadVars
<1>4. ASSUME NEW e \in Entries, e \notin moved, Settled(e) PROVE LinksHold(e)
  <2>1. tracked[e] = Uses(e) /\ Listening(e)
    BY <1>4 DEF LoadInv, LoadedExist, EntryInForce, UpToDate, Settled, Listening
  <2>2. ASSUME NEW i \in DOMAIN appliances[e],
               sensors[e][i].link \in {None, device[EnergyOf(e)[i]]}
        PROVE  sensors[e][i].link \in {None, device'[EnergyOf(e)[i]]}
    <3>1. EnergyOf(e)[i] \in EnergySensors /\ EnergyOf(e)[i] \in Uses(e)
      BY EnergyOfType DEF Uses
    <3>2. CASE EnergyOf(e)[i] = old
      <4>1. e \in Reached(old)
        BY <2>1, <3>1, <3>2 DEF Reached
      <4>2. price[e] # old
        BY <3>1, <3>2, EntryAssumption DEF TypeOK, EntryAssumption, Sources
      <4>3. appliances'[e] # appliances[e]
        BY <1>1, <1>2, <3>2, <4>1, <4>2, FollowerExists, FollowMoves
      <4> QED
        BY <1>4, <4>1, <4>3
    <3>3. CASE EnergyOf(e)[i] = new
      BY <1>1, <2>2, <3>3
    <3>4. CASE EnergyOf(e)[i] \notin {old, new}
      BY <1>1, <2>2, <3>1, <3>4 DEF TypeOK, Sources
    <3> QED
      BY <3>2, <3>3, <3>4
  <2> QED
    BY <2>2 DEF LinksHold
<1>5. ASSUME NEW e \in Entries PROVE EntryInForce(e)'
  <2>1. CASE e \in moved
    BY <1>1, <2>1, Notified, ReloadToCome DEF Reached
  <2>2. CASE e \notin moved
    <3>1. SameConfig(e) /\ SameLoad(e) /\ reloads'[e] = reloads[e]
      BY <1>1, <1>2, <2>2, Notified DEF SameConfig, SameLoad, loadVars
    <3> QED
      BY <1>4, <2>2, <3>1, LeftAlone
  <2> QED
    BY <2>1, <2>2
<1> QED
  BY <1>3, <1>5 DEF LoadInv

-----------------------------------------------------------------------------
(* Loading and reloading, and the theorem.                                  *)

LEMMA LoadInForce ==
    ASSUME LoadInv, TypeOK', NEW e \in Entries, LoadStep(e) PROVE LoadInv'
<1> TypeOK
  BY DEF LoadInv
<1>1. UNCHANGED <<device, configVars>>
  BY DEF LoadStep, BeginReload, FinishUnload, AsyncSetupEntry, FinishSetup
<1>2. LoadedExist'
  BY <1>1 DEF LoadInv, LoadedExist, Exists, configVars, TypeOK,
     LoadStep, BeginReload, FinishUnload, AsyncSetupEntry, FinishSetup
<1>3. ASSUME NEW other \in Entries, other # e PROVE EntryInForce(other)'
  <2>1. SameConfig(other) /\ LinksHold(other)
    BY <1>1 DEF SameConfig, LinksHold, configVars
  <2>2. SameLoad(other) /\ reloads'[other] = reloads[other]
    BY <1>3 DEF SameLoad, TypeOK, LoadStep, BeginReload, FinishUnload, AsyncSetupEntry, FinishSetup
  <2> QED
    BY <2>1, <2>2, LeftAlone
<1>4. Uses(e)' = Uses(e) /\ EnergyOf(e)' = EnergyOf(e)
  BY <1>1 DEF Uses, EnergyOf, configVars
<1>5. EntryInForce(e)'
  <2>1. CASE BeginReload(e) \/ FinishUnload(e)
    <3>1. phase'[e] \in {"down", "stopping"}
      BY <2>1 DEF BeginReload, FinishUnload, TypeOK
    <3> QED
      BY <3>1, ReloadToCome
  <2>2. CASE AsyncSetupEntry(e)
    <3>1. phase'[e] = "starting" /\ runtime'[e] = price[e]
          /\ tracked'[e] = TrackedSourceEntityIds(e) /\ price' = price
      BY <2>2 DEF AsyncSetupEntry, TypeOK, configVars
    <3> QED
      BY <1>4, <3>1 DEF EntryInForce, Settled, TrackedSourceEntityIds, Uses
  <2>3. CASE FinishSetup(e)
    <3>1. /\ phase[e] = "starting" /\ sensors'[e] = CostSensors(e)
          /\ UNCHANGED <<device, price, appliances, runtime, tracked, reloads>>
      BY <2>3 DEF FinishSetup, TypeOK, configVars
    <3>2. EntryInForce(e) /\ DOMAIN EnergyOf(e) = DOMAIN appliances[e]
      BY EnergyOfType DEF LoadInv
    <3>3. reloads'[e] = 0 => tracked[e] = Uses(e) /\ runtime[e] = price[e]
      BY <3>1, <3>2 DEF EntryInForce, UpToDate
    <3>4. ASSUME reloads'[e] = 0 PROVE RunsItsConfig(e)'
      BY <1>4, <3>1, <3>2, <3>3, <3>4 DEF RunsItsConfig, CostSensors
    <3> QED
      BY <1>4, <3>1, <3>3, <3>4 DEF EntryInForce, UpToDate, Settled
  <2> QED
    BY <2>1, <2>2, <2>3 DEF LoadStep
<1> QED
  BY <1>2, <1>3, <1>5 DEF LoadInv

LEMMA InitInForce == Init => LoadInv
<1> SUFFICES ASSUME Init PROVE LoadInv
  OBVIOUS
<1>1. TypeOK
  BY InitType
<1>2. ASSUME NEW e \in Entries PROVE EntryInForce(e)
  <2>1. UpToDate(e) => Exists(e)
    BY DEF Init, UpToDate
  <2>2. runtime[e] = price[e] /\ (Exists(e) => tracked[e] = Uses(e))
    BY DEF Init, TrackedSourceEntityIds, Uses
  <2>3. sensors[e] = CostSensors(e) /\ DOMAIN EnergyOf(e) = DOMAIN appliances[e]
    BY <1>1, EnergyOfType DEF Init
  <2>4. RunsItsConfig(e)
    BY <2>2, <2>3 DEF RunsItsConfig, CostSensors
  <2> QED
    BY <2>1, <2>2, <2>4 DEF EntryInForce
<1>3. LoadedExist
  BY DEF Init, LoadedExist
<1> QED
  BY <1>1, <1>2, <1>3 DEF LoadInv

LEMMA LoadInvStep == LoadInv /\ [Next]_vars => LoadInv'
<1> SUFFICES ASSUME LoadInv, [Next]_vars PROVE LoadInv'
  OBVIOUS
<1>1. TypeOK'
  BY TypeStep DEF LoadInv
<1>2. CASE ConfigFlowStep
  <2>1. ASSUME NEW p \in PriceSensors, AsyncStepUser(p) PROVE LoadInv'
    BY <1>1, <2>1, SelectInForce DEF AsyncStepUser
  <2>2. ASSUME NEW e \in Entries, NEW p \in PriceSensors, AsyncStepReconfigure(e, p)
        PROVE  LoadInv'
    BY <1>1, <2>2, SelectInForce DEF AsyncStepReconfigure
  <2>3. ASSUME NEW f \in Flows, AsyncStepConfirmNoStatistics(f) PROVE LoadInv'
    <3>1. pending[f] \in Selection
      BY <2>3 DEF LoadInv, TypeOK, AsyncStepConfirmNoStatistics
    <3> QED
      BY <1>1, <2>3, <3>1, CommitInForce, NothingMoved
         DEF AsyncStepConfirmNoStatistics, Selection
  <2> QED
    BY <1>2, <2>1, <2>2, <2>3 DEF ConfigFlowStep
<1>3. CASE RegistryStep
  <2>1. PICK s \in Sources :
           \/ \E new \in Sources : RenameSource(s, new)
           \/ RemoveSource(s)
           \/ \E d \in Devices : MoveSource(s, d) \/ CreateSource(s, d)
    BY <1>3 DEF RegistryStep
  <2>2. ASSUME RemoveSource(s) PROVE LoadInv'
    BY <1>1, <2>2, SourceInForce DEF RemoveSource
  <2>3. ASSUME NEW d \in Devices, MoveSource(s, d) \/ CreateSource(s, d) PROVE LoadInv'
    BY <1>1, <2>3, SourceInForce DEF MoveSource, CreateSource
  <2> QED
    BY <1>1, <2>1, <2>2, <2>3, RenameInForce
<1>4. CASE UNCHANGED vars
  BY <1>1, <1>4, NothingMoved DEF vars
<1> QED
  BY <1>1, <1>2, <1>3, <1>4, SubentryInForce, LoadInForce DEF Next

(* A loaded entry with no reload to come runs the configuration it has:     *)
(* its price, a cost sensor per appliance on its energy sensor, no link to  *)
(* a device the source is not on, and every source watched; whatever        *)
(* changed, and in whichever window of a reload.                            *)
THEOREM LoadedEntriesRunTheirConfig == Spec => []InForce
<1>1. Init => LoadInv
  BY InitInForce
<1>2. LoadInv /\ [Next]_vars => LoadInv'
  BY LoadInvStep
<1>3. LoadInv => InForce
  BY DEF LoadInv, EntryInForce, InForce
<1> QED
  BY <1>1, <1>2, <1>3, PTL DEF Spec

-----------------------------------------------------------------------------
(* Two appliances on one sensor, in a list of appliances.                   *)

Shares(q, s) == \E i, j \in DOMAIN q : i # j /\ q[i].energy = s /\ q[j].energy = s

LEMMA SharesSensorIs ==
    ASSUME NEW e \in Entries, NEW s
    PROVE  /\ SharesSensor(e, s) <=> Shares(appliances[e], s)
           /\ SharesSensor(e, s)' <=> Shares(appliances'[e], s)
<1>1. /\ EnergyOf(e) = [i \in DOMAIN appliances[e] |-> appliances[e][i].energy]
      /\ EnergyOf(e)' = [i \in DOMAIN appliances'[e] |-> appliances'[e][i].energy]
  BY DEF EnergyOf
<1> QED
  BY <1>1 DEF SharesSensor, Shares

(* A new appliance on a sensor of its own shares none.                      *)
LEMMA AppendShares ==
    ASSUME NEW q \in UpTo(Appliance), NEW a \in Appliance, NEW s,
           \A i \in DOMAIN q : q[i].energy # a.energy, Shares(Append(q, a), s)
    PROVE  Shares(q, s)
<1>1. q \in Seq(Appliance)
  BY UpToIsSeq
<1>2. PICK i, j \in DOMAIN Append(q, a) :
         i # j /\ Append(q, a)[i].energy = s /\ Append(q, a)[j].energy = s
  BY DEF Shares
<1>3. DOMAIN Append(q, a) = DOMAIN q \cup {Len(q) + 1}
  BY <1>1
<1>4. /\ \A n \in DOMAIN q : Append(q, a)[n] = q[n]
      /\ Append(q, a)[Len(q) + 1] = a
  BY <1>1
<1>5. i \in DOMAIN q /\ j \in DOMAIN q
  BY <1>2, <1>3, <1>4
<1> QED
  BY <1>2, <1>4, <1>5 DEF Shares

(* Nor does one that is put on a sensor no other has.                       *)
LEMMA ExceptShares ==
    ASSUME NEW q \in UpTo(Appliance), NEW k \in DOMAIN q, NEW a \in Appliance, NEW s,
           \A i \in DOMAIN q \ {k} : q[i].energy # a.energy, Shares([q EXCEPT ![k] = a], s)
    PROVE  Shares(q, s)
<1> DEFINE r == [q EXCEPT ![k] = a]
<1>1. PICK i, j \in DOMAIN r : i # j /\ r[i].energy = s /\ r[j].energy = s
  BY DEF Shares
<1>2. DOMAIN r = DOMAIN q /\ r[k] = a /\ \A n \in DOMAIN q \ {k} : r[n] = q[n]
  BY DEF UpTo
<1> HIDE DEF r
<1>3. i # k /\ j # k
  BY <1>1, <1>2
<1> QED
  BY <1>1, <1>2, <1>3 DEF Shares

(* And removing one makes no others share.                                  *)
LEMMA RemoveShares ==
    ASSUME NEW q \in UpTo(Appliance), NEW k \in DOMAIN q, NEW s,
           Shares(SubSeq(q, 1, k - 1) \o SubSeq(q, k + 1, Len(q)), s)
    PROVE  Shares(q, s)
<1> DEFINE left == SubSeq(q, 1, k - 1)
           right == SubSeq(q, k + 1, Len(q))
           r == left \o right
           from(n) == IF n < k THEN n ELSE n + 1
<1>1. q \in Seq(Appliance) /\ Len(q) \in Nat /\ k \in 1 .. Len(q) /\ DOMAIN q = 1 .. Len(q)
  BY UpToIsSeq
<1>2. left \in Seq(Appliance) /\ Len(left) = k - 1 /\ \A n \in 1 .. k - 1 : left[n] = q[n]
  BY <1>1
<1>3. /\ right \in Seq(Appliance) /\ Len(right) = Len(q) - k
      /\ \A n \in 1 .. Len(q) - k : right[n] = q[n + k]
  <2>1. right \in Seq(Appliance) /\ Len(right) = Len(q) - k
    BY <1>1
  <2>2. ASSUME NEW n \in 1 .. Len(q) - k PROVE right[n] = q[n + k]
    <3>1. n \in 1 .. Len(q) - (k + 1) + 1 /\ (k + 1) + n - 1 = n + k
      BY <1>1
    <3> QED
      BY <1>1, <3>1
  <2> QED
    BY <2>1, <2>2
<1> HIDE DEF left, right
<1>4. /\ DOMAIN r = 1 .. Len(q) - 1
      /\ \A n \in 1 .. Len(q) - 1 : r[n] = IF n <= k - 1 THEN left[n] ELSE right[n - (k - 1)]
  <2>1. /\ r \in Seq(Appliance) /\ Len(r) = Len(left) + Len(right)
        /\ \A n \in 1 .. Len(left) + Len(right) :
             r[n] = IF n <= Len(left) THEN left[n] ELSE right[n - Len(left)]
    BY <1>2, <1>3, ConcatProperties
  <2>2. Len(left) + Len(right) = Len(q) - 1
    BY <1>1, <1>2, <1>3
  <2> HIDE DEF r
  <2>3. DOMAIN r = 1 .. Len(r)
    BY <2>1
  <2> QED
    BY <1>2, <2>1, <2>2, <2>3
<1> HIDE DEF r
<1>5. ASSUME NEW n \in DOMAIN r PROVE from(n) \in DOMAIN q /\ r[n] = q[from(n)]
  <2>0. n \in 1 .. Len(q) - 1 /\ n \in Nat /\ k \in Nat
    BY <1>1, <1>4
  <2>1. CASE n <= k - 1
    <3>1. n \in 1 .. k - 1 /\ n \in 1 .. Len(q) /\ n < k
      BY <1>1, <2>0, <2>1
    <3> QED
      BY <1>1, <1>2, <1>4, <2>0, <2>1, <3>1
  <2>2. CASE ~(n <= k - 1)
    <3>1. n - (k - 1) \in 1 .. Len(q) - k
      BY <1>1, <2>0, <2>2
    <3>2. n - (k - 1) + k = n + 1 /\ n + 1 \in 1 .. Len(q) /\ ~(n < k)
      BY <1>1, <2>0, <2>2
    <3>3. r[n] = right[n - (k - 1)]
      BY <1>4, <2>0, <2>2
    <3>4. right[n - (k - 1)] = q[n - (k - 1) + k]
      BY <1>3, <3>1
    <3> QED
      BY <1>1, <3>2, <3>3, <3>4
  <2> QED
    BY <2>1, <2>2
<1>6. PICK i, j \in DOMAIN r : i # j /\ r[i].energy = s /\ r[j].energy = s
  BY DEF Shares, r, left, right
<1>7. from(i) # from(j)
  BY <1>1, <1>4, <1>6
<1> QED
  BY <1>5, <1>6, <1>7 DEF Shares

-----------------------------------------------------------------------------
(* No flow brings two users of a sensor together.                           *)

LEMMA UnchangedKeepsApart ==
    ASSUME UNCHANGED configVars PROVE KeepApart
BY DEF KeepApart, configVars, SharesSensor, EnergyOf

(* The match check is made in the step that commits.                        *)
LEMMA CommitKeepsApart ==
    ASSUME TypeOK, NEW target \in Entries \cup {NewEntry}, NEW p \in PriceSensors,
           Commit(target, p)
    PROVE  KeepApart
<1>1. PICK e \in Entries : ~EntriesMatch(p, {e}) /\ price' = [price EXCEPT ![e] = p]
  <2>1. CASE target = NewEntry
    BY <2>1 DEF Commit, CreatePendingEntry, EntriesMatch
  <2>2. CASE target # NewEntry
    BY <2>2 DEF Commit, FinishReconfigure
  <2> QED
    BY <2>1, <2>2
<1>2. appliances' = appliances
  BY DEF Commit, CreatePendingEntry, FinishReconfigure
<1>3. \A e1, e2 \in Entries :
         e1 # e2 /\ price'[e1] = price'[e2] /\ price'[e1] # None => price[e1] = price[e2]
  BY <1>1 DEF EntriesMatch, TypeOK
<1>4. \A e1 \in Entries, s \in EnergySensors : SharesSensor(e1, s)' => SharesSensor(e1, s)
  BY <1>2 DEF SharesSensor, EnergyOf
<1> QED
  BY <1>3, <1>4 DEF KeepApart

LEMMA SubentryKeepsApart ==
    ASSUME TypeOK, SubentryStep PROVE KeepApart
<1>1. PICK e \in Entries :
         \/ \E s \in EnergySensors : AddAppliance(e, s)
         \/ \E i \in 1 .. MaxAppliances, s \in EnergySensors : ReconfigureAppliance(e, i, s)
         \/ \E i \in 1 .. MaxAppliances : RemoveAppliance(e, i)
  BY DEF SubentryStep
<1>2. /\ \A other \in Entries \ {e} : appliances'[other] = appliances[other]
      /\ UNCHANGED price
  BY <1>1 DEF AddAppliance, ReconfigureAppliance, RemoveAppliance, TypeOK
<1>3. ASSUME NEW t \in EnergySensors, Shares(appliances'[e], t) PROVE Shares(appliances[e], t)
  <2> appliances[e] \in UpTo(Appliance)
    BY DEF TypeOK
  <2>1. ASSUME NEW s \in EnergySensors, AddAppliance(e, s) PROVE Shares(appliances[e], t)
    <3> DEFINE a == [energy |-> s, unique |-> s]
    <3>1. a \in Appliance /\ appliances'[e] = Append(appliances[e], a)
      BY <2>1 DEF AddAppliance, Appliance, TypeOK
    <3>2. \A i \in DOMAIN appliances[e] : appliances[e][i].energy # a.energy
      BY <2>1 DEF AddAppliance, DuplicateAppliance
    <3> HIDE DEF a
    <3> QED
      BY <1>3, <3>1, <3>2, AppendShares
  <2>2. ASSUME NEW i \in 1 .. MaxAppliances, NEW s \in EnergySensors, ReconfigureAppliance(e, i, s)
        PROVE  Shares(appliances[e], t)
    <3> DEFINE a == [energy |-> s, unique |-> s]
    <3>1. a \in Appliance /\ appliances'[e] = [appliances[e] EXCEPT ![i] = a]
      BY <2>2 DEF ReconfigureAppliance, Appliance, TypeOK
    <3>2. /\ i \in DOMAIN appliances[e]
          /\ \A j \in DOMAIN appliances[e] \ {i} : appliances[e][j].energy # a.energy
      BY <2>2 DEF ReconfigureAppliance, DuplicateAppliance
    <3> HIDE DEF a
    <3> QED
      BY <1>3, <3>1, <3>2, ExceptShares
  <2>3. ASSUME NEW i \in 1 .. MaxAppliances, RemoveAppliance(e, i) PROVE Shares(appliances[e], t)
    <3>1. /\ i \in DOMAIN appliances[e]
          /\ appliances'[e] = SubSeq(appliances[e], 1, i - 1)
                                \o SubSeq(appliances[e], i + 1, Len(appliances[e]))
      BY <2>3 DEF RemoveAppliance, TypeOK
    <3> QED
      BY <1>3, <3>1, RemoveShares
  <2> QED
    BY <1>1, <2>1, <2>2, <2>3
<1>4. ASSUME NEW other \in Entries, NEW t \in EnergySensors, SharesSensor(other, t)'
      PROVE  SharesSensor(other, t)
  BY <1>2, <1>3, <1>4, SharesSensorIs
<1> QED
  BY <1>2, <1>4 DEF KeepApart

(* A registry step moves a device.                                          *)
LEMMA RegistryKeepsApart ==
    ASSUME TypeOK, RegistryStep PROVE KeepApart
<1>1. device' # device
  <2>1. PICK s \in Sources :
           \/ \E new \in Sources : RenameSource(s, new)
           \/ RemoveSource(s)
           \/ \E d \in Devices : MoveSource(s, d) \/ CreateSource(s, d)
    BY DEF RegistryStep
  <2>2. ASSUME NEW d, device' = [device EXCEPT ![s] = d], d # device[s] PROVE device' # device
    <3>1. device'[s] = d
      BY <2>2 DEF TypeOK
    <3> QED
      BY <2>2, <3>1
  <2>3. ASSUME NEW new \in Sources, RenameSource(s, new) PROVE device' # device
    <3>1. device'[new] = device[s] /\ device[s] # None /\ device[new] = None
      BY <2>3 DEF RenameSource, There, TypeOK
    <3> QED
      BY <3>1
  <2>4. ASSUME RemoveSource(s) PROVE device' # device
    BY <2>2, <2>4 DEF RemoveSource, There
  <2>5. ASSUME NEW d \in Devices, MoveSource(s, d) \/ CreateSource(s, d) PROVE device' # device
    BY <2>2, <2>5, EntryAssumption DEF MoveSource, CreateSource, There, EntryAssumption
  <2> QED
    BY <2>1, <2>3, <2>4, <2>5
<1> QED
  BY <1>1 DEF KeepApart

LEMMA KeepApartStep == TypeOK /\ [Next]_vars => KeepApart
<1> SUFFICES ASSUME TypeOK, [Next]_vars PROVE KeepApart
  OBVIOUS
<1>1. CASE ConfigFlowStep
  <2>1. ASSUME NEW target \in Entries \cup {NewEntry}, NEW p \in PriceSensors, Select(target, p)
        PROVE  KeepApart
    BY <2>1, CommitKeepsApart, UnchangedKeepsApart DEF Select, Park
  <2>2. ASSUME NEW f \in Flows, AsyncStepConfirmNoStatistics(f) PROVE KeepApart
    <3>1. pending[f].target \in Entries \cup {NewEntry} /\ pending[f].price \in PriceSensors
      BY <2>2 DEF TypeOK, AsyncStepConfirmNoStatistics, Selection
    <3> QED
      BY <2>2, <3>1, CommitKeepsApart, UnchangedKeepsApart DEF AsyncStepConfirmNoStatistics
  <2> QED
    BY <1>1, <2>1, <2>2 DEF ConfigFlowStep, AsyncStepUser, AsyncStepReconfigure
<1>2. CASE \E e \in Entries : LoadStep(e)
  BY <1>2, UnchangedKeepsApart DEF LoadStep, BeginReload, FinishUnload, AsyncSetupEntry, FinishSetup
<1>3. CASE UNCHANGED vars
  BY <1>3, UnchangedKeepsApart DEF vars
<1> QED
  BY <1>1, <1>2, <1>3, SubentryKeepsApart, RegistryKeepsApart DEF Next

(* No flow makes two entries share a price sensor or two appliances of an   *)
(* entry an energy sensor, whatever the flows and however long they were    *)
(* parked.                                                                  *)
THEOREM FlowsNeverShare == Spec => FlowsKeepApart
<1>1. TypeOK /\ [Next]_vars => KeepApart
  BY KeepApartStep
<1> QED
  BY <1>1, TypeCorrect, PTL DEF Spec, FlowsKeepApart

-----------------------------------------------------------------------------
(* A rename is followed.                                                    *)

(* A rename is the registry's, and of that source.                          *)
LEMMA RenamedIsRenameSource ==
    ASSUME TypeOK, [Next]_vars, NEW old \in Sources, NEW new \in Sources, Renamed(old, new)
    PROVE  RenameSource(old, new)
<1>1. /\ old # new /\ device[old] # None /\ device[new] = None
      /\ device'[old] = None /\ device'[new] # None
  BY DEF Renamed, TypeOK
<1>2. CASE UNCHANGED device
  BY <1>1, <1>2
<1>3. CASE RegistryStep
  <2>1. PICK s \in Sources :
           \/ \E t \in Sources : RenameSource(s, t)
           \/ RemoveSource(s)
           \/ \E d \in Devices : MoveSource(s, d) \/ CreateSource(s, d)
    BY <1>3 DEF RegistryStep
  <2>2. ASSUME NEW t \in Sources, RenameSource(s, t) PROVE RenameSource(old, new)
    <3>1. s # t /\ device[s] # None /\ device[t] = None
      BY <2>2 DEF RenameSource, There
    <3>2. device' = [device EXCEPT ![s] = None, ![t] = device[s]]
      BY <2>2 DEF RenameSource
    <3>3. \A x \in Sources \ {s, t} : device'[x] = device[x]
      BY <3>2 DEF TypeOK
    <3>4. old = s /\ new = t
      BY <1>1, <3>1, <3>3
    <3> QED
      BY <2>2, <3>4
  <2>3. ASSUME NEW d, device' = [device EXCEPT ![s] = d] PROVE FALSE
    <3>1. \A x \in Sources \ {s} : device'[x] = device[x]
      BY <2>3 DEF TypeOK
    <3> QED
      BY <1>1, <3>1
  <2>4. ~RemoveSource(s) /\ \A d \in Devices : ~MoveSource(s, d) /\ ~CreateSource(s, d)
    BY <2>3 DEF RemoveSource, MoveSource, CreateSource
  <2> QED
    BY <2>1, <2>2, <2>4
<1>4. CASE Next /\ ~RegistryStep
  BY <1>2, <1>4 DEF Next, ConfigFlowStep, AsyncStepUser, AsyncStepReconfigure,
     AsyncStepConfirmNoStatistics, SubentryStep, AddAppliance, ReconfigureAppliance,
     RemoveAppliance, LoadStep, BeginReload, FinishUnload, AsyncSetupEntry, FinishSetup
<1> QED
  BY <1>2, <1>3, <1>4 DEF vars

(* What the follow makes of the appliances.                                 *)
LEMMA FollowedEnergies ==
    ASSUME TypeOK, NEW e \in Entries, NEW old \in Sources, NEW new \in Sources, old # new,
           price[e] # old, ~SharesSensor(e, old), NEW q, q = FollowedAppliances(e, old, new)
    PROVE  /\ DOMAIN q = DOMAIN appliances[e]
           /\ \A i \in DOMAIN q :
                q[i].energy = IF EnergyOf(e)[i] = old THEN new ELSE EnergyOf(e)[i]
<1>1. CASE Follower(e, old) = {}
  <2>1. q = appliances[e]
    BY <1>1 DEF FollowedAppliances
  <2>2. \A i \in DOMAIN appliances[e] : EnergyOf(e)[i] # old
    BY <1>1, FollowerExists
  <2> QED
    BY <2>1, <2>2, EnergyOfType
<1>2. CASE Follower(e, old) # {}
  <2> DEFINE i == CHOOSE i \in Follower(e, old) : TRUE
             to == [energy |-> new, unique |-> IF Collision(e, i, new)
                                               THEN appliances[e][i].unique ELSE new]
  <2>1. i \in DOMAIN appliances[e] /\ EnergyOf(e)[i] = old
    BY <1>2 DEF Follower
  <2>2. q = UpdateSubentry(e, i, to)
    BY <1>2 DEF FollowedAppliances, FollowEnergySensorRename
  <2>3. ~(to.unique # appliances[e][i].unique /\ UniqueIdTaken(e, to.unique, {i}))
    BY DEF Collision
  <2>4. \A j \in DOMAIN appliances[e] \ {i} : EnergyOf(e)[j] # old
    BY <2>1 DEF SharesSensor
  <2>5. to.energy = new
    OBVIOUS
  <2> HIDE DEF i, to
  <2>6. q = [appliances[e] EXCEPT ![i] = to]
    BY <2>2, <2>3 DEF UpdateSubentry
  <2>7. /\ DOMAIN q = DOMAIN appliances[e] /\ q[i] = to
        /\ \A j \in DOMAIN appliances[e] \ {i} : q[j] = appliances[e][j]
    BY <2>1, <2>6
  <2> QED
    BY <2>1, <2>4, <2>5, <2>7, EnergyOfType
<1> QED
  BY <1>1, <1>2

LEMMA FollowRenameStep == LoadInv /\ [Next]_vars => FollowRename
<1> SUFFICES ASSUME LoadInv, [Next]_vars,
                    NEW e \in Entries, NEW old \in Sources, NEW new \in Sources,
                    UpToDate(e), Renamed(old, new), ~SharesSensor(e, old)
             PROVE  /\ price'[e] = IF price[e] = old THEN new ELSE price[e]
                    /\ EnergyOf(e)' = [i \in DOMAIN appliances[e] |->
                                         IF EnergyOf(e)[i] = old THEN new ELSE EnergyOf(e)[i]]
  BY DEF FollowRename
<1> TypeOK
  BY DEF LoadInv
<1>1. RenameSource(old, new) /\ old # new
  BY RenamedIsRenameSource DEF Renamed
<1>2. tracked[e] = Uses(e) /\ Listening(e)
  BY DEF LoadInv, LoadedExist, EntryInForce, UpToDate, Listening
<1>3. DOMAIN EnergyOf(e) = DOMAIN appliances[e] /\ EnergyOf(e) = [i \in DOMAIN appliances[e] |-> EnergyOf(e)[i]]
  BY DEF EnergyOf
<1>4. CASE e \notin Reached(old)
  <2>1. old \notin Uses(e)
    BY <1>2, <1>4 DEF Reached
  <2>2. price'[e] = price[e] /\ appliances'[e] = appliances[e]
    BY <1>1, <1>4 DEF RenameSource, FollowSourceRename
  <2>3. EnergyOf(e)' = EnergyOf(e)
    BY <2>2 DEF EnergyOf
  <2>4. price[e] # old /\ \A i \in DOMAIN appliances[e] : EnergyOf(e)[i] # old
    BY <2>1 DEF Uses
  <2> QED
    BY <1>3, <2>2, <2>3, <2>4
<1>5. CASE e \in Reached(old)
  <2>1. price'[e] = FollowedPrice(e, old, new) /\ appliances'[e] = FollowedAppliances(e, old, new)
    BY <1>1, <1>5 DEF RenameSource, FollowSourceRename
  <2>2. price'[e] = IF price[e] = old THEN new ELSE price[e]
    BY <2>1 DEF FollowedPrice
  <2>3. EnergyOf(e)' = [i \in DOMAIN appliances'[e] |-> appliances'[e][i].energy]
    BY DEF EnergyOf
  <2>4. CASE price[e] = old
    <3>1. appliances'[e] = appliances[e]
      BY <2>1, <2>4 DEF FollowedAppliances, Follower
    <3>2. \A i \in DOMAIN appliances[e] : EnergyOf(e)[i] # old
      BY <2>4, EnergyOfType, EntryAssumption DEF TypeOK, EntryAssumption, Sources
    <3>3. EnergyOf(e)' = EnergyOf(e)
      BY <3>1 DEF EnergyOf
    <3> QED
      BY <1>3, <2>2, <3>2, <3>3
  <2>5. CASE price[e] # old
    <3>1. /\ DOMAIN appliances'[e] = DOMAIN appliances[e]
          /\ \A i \in DOMAIN appliances'[e] :
               appliances'[e][i].energy = IF EnergyOf(e)[i] = old THEN new ELSE EnergyOf(e)[i]
      BY <1>1, <2>1, <2>5, FollowedEnergies
    <3> QED
      BY <2>2, <2>3, <3>1
  <2> QED
    BY <2>4, <2>5
<1> QED
  BY <1>4, <1>5

(* In an entry that is set up, or being set up, from the configuration      *)
(* there is, every rename of a source no two of its appliances share is     *)
(* followed, collisions included, and nothing else of it moves.             *)
THEOREM RenamesAreFollowed == Spec => RenameFollowed
<1>1. Init => LoadInv
  BY InitInForce
<1>2. LoadInv /\ [Next]_vars => LoadInv'
  BY LoadInvStep
<1>3. LoadInv /\ [Next]_vars => FollowRename
  BY FollowRenameStep
<1> QED
  BY <1>1, <1>2, <1>3, PTL DEF Spec, RenameFollowed

-----------------------------------------------------------------------------
(* Sharing a sensor, and the error that says so.                            *)

(* The appliance a rename is followed for is one.                           *)
LEMMA OneFollower ==
    ASSUME TypeOK, NEW e \in Entries, NEW old,
           NEW i \in Follower(e, old), NEW j \in Follower(e, old)
    PROVE  i = j
<1>1. DOMAIN appliances[e] = 1 .. Len(appliances[e]) /\ Len(appliances[e]) \in Nat
  <2>1. appliances[e] \in Seq(Appliance)
    BY UpToIsSeq DEF TypeOK
  <2> QED
    BY <2>1
<1>2. i \in 1 .. Len(appliances[e]) /\ j \in 1 .. Len(appliances[e])
  BY <1>1 DEF Follower
<1>3. i \notin 1 .. j - 1 /\ j \notin 1 .. i - 1
  BY DEF Follower
<1> QED
  BY <1>1, <1>2, <1>3

(* Where configuration and reports stay as they are there is nothing to say. *)
LEMMA UnchangedAgrees ==
    ASSUME NEW e \in Entries, appliances'[e] = appliances[e], reported'[e] = reported[e]
    PROVE  ReportsAgree(e)
BY DEF ReportsAgree, SharesSensor, EnergyOf

LEMMA RenameAgrees ==
    ASSUME TypeOK, NEW old \in Sources, NEW new \in Sources, RenameSource(old, new),
           NEW e \in Entries, UniqueIdsFollow(e)
    PROVE  ReportsAgree(e)
<1>1. old # new
  BY DEF RenameSource
<1>2. /\ appliances'[e] = IF e \in Reached(old) THEN FollowedAppliances(e, old, new)
                          ELSE appliances[e]
      /\ reported'[e] = reported[e] \cup
                          {s \in {new} : /\ e \in Reached(old)
                                         /\ \E i \in Follower(e, old) : Collision(e, i, new)}
  BY DEF RenameSource, FollowSourceRename
<1>3. CASE e \notin Reached(old) \/ Follower(e, old) = {}
  <2>1. appliances'[e] = appliances[e]
    BY <1>2, <1>3 DEF FollowedAppliances
  <2>2. reported'[e] = reported[e]
    BY <1>2, <1>3
  <2> QED
    BY <2>1, <2>2, UnchangedAgrees
<1>4. CASE e \in Reached(old) /\ Follower(e, old) # {}
  <2> DEFINE i == CHOOSE i \in Follower(e, old) : TRUE
             to == [energy |-> new, unique |-> IF Collision(e, i, new)
                                               THEN appliances[e][i].unique ELSE new]
  <2>1. i \in Follower(e, old) /\ i \in DOMAIN appliances[e]
    BY <1>4 DEF Follower
  <2>2. appliances'[e] = UpdateSubentry(e, i, to)
    BY <1>2, <1>4 DEF FollowedAppliances, FollowEnergySensorRename
  <2>3. ~(to.unique # appliances[e][i].unique /\ UniqueIdTaken(e, to.unique, {i}))
    BY DEF Collision
  <2>4. to.energy = new
    OBVIOUS
  <2> HIDE DEF i, to
  <2>5. appliances'[e] = [appliances[e] EXCEPT ![i] = to]
    BY <2>2, <2>3 DEF UpdateSubentry
  <2>6. /\ DOMAIN appliances'[e] = DOMAIN appliances[e] /\ appliances'[e][i].energy = new
        /\ \A j \in DOMAIN appliances[e] \ {i} : appliances'[e][j] = appliances[e][j]
    BY <2>1, <2>4, <2>5
  <2>7. Collision(e, i, new) <=> \E j \in DOMAIN appliances[e] \ {i} : appliances[e][j].energy = new
    BY EnergyOfType DEF Collision, UniqueIdTaken, UniqueIdsFollow
  <2>8. reported'[e] = reported[e] \cup (IF Collision(e, i, new) THEN {new} ELSE {})
    BY <1>2, <1>4, <2>1, OneFollower
  <2>9. ASSUME NEW s \in EnergySensors, Shares(appliances'[e], s), ~Shares(appliances[e], s)
        PROVE  s \in reported'[e]
    <3>1. PICK a, b \in DOMAIN appliances'[e] :
             a # b /\ appliances'[e][a].energy = s /\ appliances'[e][b].energy = s
      BY <2>9 DEF Shares
    <3>2. a = i \/ b = i
      BY <2>6, <2>9, <3>1 DEF Shares
    <3>3. s = new /\ Collision(e, i, new)
      BY <2>6, <2>7, <3>1, <3>2
    <3> QED
      BY <2>8, <3>3
  <2>10. ASSUME NEW s \in reported'[e] \ reported[e] PROVE Shares(appliances'[e], s)
    <3>1. s = new /\ Collision(e, i, new)
      BY <2>8, <2>10
    <3> QED
      BY <2>1, <2>6, <2>7, <3>1 DEF Shares
  <2> QED
    BY <2>9, <2>10, SharesSensorIs DEF ReportsAgree
<1> QED
  BY <1>3, <1>4

LEMMA ReportStep ==
    ASSUME TypeOK, [Next]_vars, NEW e \in Entries, UniqueIdsFollow(e)
    PROVE  ReportsAgree(e)
<1>1. ASSUME NEW old \in Sources, NEW new \in Sources, RenameSource(old, new)
      PROVE  ReportsAgree(e)
  BY <1>1, RenameAgrees
<1>2. ASSUME UNCHANGED <<appliances, reported>> PROVE ReportsAgree(e)
  BY <1>2, UnchangedAgrees
<1>3. CASE ConfigFlowStep
  BY <1>2, <1>3 DEF ConfigFlowStep, AsyncStepUser, AsyncStepReconfigure,
     AsyncStepConfirmNoStatistics, Select, Park, Commit, CreatePendingEntry, FinishReconfigure,
     configVars
<1>4. CASE SubentryStep
  <2>1. UNCHANGED <<device, reported>>
    BY <1>4 DEF SubentryStep, AddAppliance, ReconfigureAppliance, RemoveAppliance
  <2> QED
    BY <2>1, KeepApartStep DEF KeepApart, ReportsAgree
<1>5. CASE RegistryStep
  BY <1>1, <1>2, <1>5 DEF RegistryStep, RemoveSource, MoveSource, CreateSource, configVars
<1>6. CASE \E loading \in Entries : LoadStep(loading)
  BY <1>2, <1>6 DEF LoadStep, BeginReload, FinishUnload, AsyncSetupEntry, FinishSetup, configVars
<1>7. CASE UNCHANGED vars
  BY <1>2, <1>7 DEF vars, configVars
<1> QED
  BY <1>3, <1>4, <1>5, <1>6, <1>7 DEF Next

(* While an entry's unique ids are its energy sensors, two of its           *)
(* appliances come to share a sensor exactly with the error that says so.   *)
THEOREM SharingNeverSilent == Spec => SharingIsReported
<1>1. TypeOK /\ [Next]_vars => \A e \in Entries : UniqueIdsFollow(e) => ReportsAgree(e)
  BY ReportStep
<1> QED
  BY <1>1, TypeCorrect, PTL DEF Spec, SharingIsReported

=============================================================================
