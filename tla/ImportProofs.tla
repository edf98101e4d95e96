------------------------------ MODULE ImportProofs ------------------------------
(***************************************************************************)
(* For any calls, appliances, requests, calendar, clock and number of       *)
(* loads: the types, the lock, and what the bounded reads find.  A sensor   *)
(* that an import calibrated continues the series exactly.  As long as no   *)
(* two imports overlap, no row is overwritten by accident, no series lands  *)
(* on an older one, and success means written.                              *)
(***************************************************************************)
EXTENDS ImportBackfill, BoundedReadsProofs, SequenceTheorems

-----------------------------------------------------------------------------
(* The invariant.                                                           *)

Posted == {"queued", "blocked", "passed", "read back"}
HasSeen(c) == pc[c] \in Posted \cup {"sources read", "read"}
HasPeriod(c) == pc[c] = "resolved" \/ HasSeen(c)

HasTask(c) == \E i \in DOMAIN queue : queue[i].call = c
HasRows(c) == pc[c] \in Posted \/ HasTask(c)

IsFence(task) == task.appliance = None

(* An hour's row says what was metered in the hour. *)
Tells(row, a, h) ==
    /\ row.change = at[a][h + 1] - at[a][h]
    /\ row.state = at[a][h + 1]
    /\ row.kind = "ok" => row.change * row.price = row.change

(* The clock is an hour ahead of the compile at most, meters only advance,  *)
(* and the recorder has the finished hours and no other.                    *)
WorldInv ==
    /\ hour - 1 <= compiled
    /\ \A a \in Appliances :
          /\ \A h \in 0 .. hour - 1 : at[a][h] <= at[a][h + 1]
          /\ at[a][hour] <= level[a]
          /\ \A h \in Hours :
                /\ h >= compiled => energy[a][h] = None /\ cost[a][h] = None
                /\ energy[a][h] # None => Tells(energy[a][h], a, h)
                /\ h < compiled /\ energy[a][h] = None => at[a][h + 1] = at[a][h]

(* A running call holds the lock of the load it started in, and no other.   *)
LockInv ==
    /\ ~ loaded => gen < MaxGen
    /\ \A c \in Calls :
          /\ pc[c] # "idle" => req[c] \in Requests /\ lock[c] \in 1 .. MaxGen
          /\ Running(c) => holder[lock[c]] = c
          /\ \A g \in 1 .. MaxGen : holder[g] = c => lock[c] = g

(* Each task is of a call that has posted its rows; a call has one fence at *)
(* most, and waits for it.                                                  *)
QueueInv ==
    /\ \A i \in DOMAIN queue :
          IF IsFence(queue[i]) THEN pc[queue[i].call] = "blocked"
          ELSE /\ pc[queue[i].call] \in Posted \cup {"done", "failed"}
               /\ queue[i].appliance \in Selected(queue[i].call)
    /\ \A i, j \in DOMAIN queue :
          IsFence(queue[i]) /\ IsFence(queue[j]) /\ queue[i].call = queue[j].call => i = j

(* What a call has read of an appliance, from an hour on: true rows, and no *)
(* hour without a row between them had consumption.                         *)
TrueRows(hours, a, from) ==
    \A h \in Hours :
       /\ hours[h] # None => from <= h /\ h < compiled /\ Tells(hours[h], a, h)
       /\ hours[h] = None /\ from <= h =>
             \A k \in Hours : h < k /\ hours[k] # None => at[a][h + 1] = at[a][h]

CallInv(c) ==
    /\ pc[c] = "resolving" => now[c] <= hour
    /\ HasPeriod(c) => start[c] < end[c] /\ end[c] <= hour
    /\ HasSeen(c) =>
          /\ seen[c] \in [Selected(c) -> [Hours -> EnergyRow \cup {None}]]
          /\ \A a \in Selected(c) : TrueRows(seen[c][a], a, start[c])
    /\ pc[c] \in Posted => StrictClean(c)
    /\ HasRows(c) =>
          \A a \in Selected(c) : \A h \in DOMAIN points[c][a] :
             /\ h \in Hours /\ start[c] <= h /\ h < compiled
             /\ points[c][a][h] \in Int

(* A calibrated sensor continues the import of a call that is done. *)
Continues(a) ==
    cut[a] # None =>
        /\ pc[cut[a]] = "done" /\ start[cut[a]] < hour
        /\ live[a] <= InitialCost(cut[a]) + level[a] - at[a][start[cut[a]]]
        /\ req[cut[a]].strict =>
              live[a] = InitialCost(cut[a]) + level[a] - at[a][start[cut[a]]]

Domains == DOMAIN seen = Calls /\ DOMAIN found = Calls /\ DOMAIN points = Calls

ImportInv ==
    /\ TypeOK /\ Domains /\ WorldInv /\ LockInv /\ QueueInv
    /\ \A c \in Calls : CallInv(c)
    /\ \A a \in Appliances : Continues(a)

-----------------------------------------------------------------------------
(* The invariant of the cost rows, as long as no two imports overlap.       *)

(* The recorder does not run a task behind the fence, or there is no other  *)
(* call to meet it.                                                         *)
Orderly == "retry" \notin Faults \/ \A c, d \in Calls : c = d

TasksInOrder ==
    "retry" \notin Faults =>
        \A i \in DOMAIN queue :
           /\ pc[queue[i].call] \in {"queued", "blocked"}
           /\ IsFence(queue[i]) =>
                 \A j \in DOMAIN queue : queue[j].call = queue[i].call => j <= i

(* Nothing is before the start of a call without an initial cost, and the   *)
(* hours of one that may not overwrite are empty, or hold what it wrote.    *)
RowsInv(c) ==
    /\ pc[c] = "sources read" =>
          \A a \in Selected(c) : \A h \in Hours : seen[c][a][h] # None => h \in Period(c)
    /\ pc[c] = "read" => \A a \in Selected(c) :
          /\ a \notin found[c].inside =>
                \A h \in Hours : seen[c][a][h] # None => cost[a][h] = None
          /\ a \notin found[c].before =>
                \A h \in Hours : h < start[c] => cost[a][h] = None
    /\ HasRows(c) => start[c] < hour /\ \A a \in Selected(c) :
          /\ ~ req[c].overwrite =>
                \A h \in DOMAIN points[c][a] :
                   cost[a][h] # None => cost[a][h].sum = points[c][a][h]
          /\ req[c].initial = None =>
                \A h \in Hours : h < start[c] => cost[a][h] = None
    /\ pc[c] = "read back" /\ confirmed[c] => Agrees(c)

WriteInv == TasksInOrder /\ \A c \in Calls : RowsInv(c)

-----------------------------------------------------------------------------
(* What a step leaves alone.                                                *)

CallStep(c) == Step(c) \/ \E r \in Requests : HandleImport(c, r)

Untouched(c) ==
    /\ pc'[c] = pc[c] /\ req'[c] = req[c] /\ lock'[c] = lock[c] /\ now'[c] = now[c]
    /\ start'[c] = start[c] /\ end'[c] = end[c] /\ seen'[c] = seen[c]
    /\ found'[c] = found[c] /\ points'[c] = points[c] /\ confirmed'[c] = confirmed[c]

AllDomains ==
    /\ DOMAIN pc = Calls /\ DOMAIN req = Calls /\ DOMAIN lock = Calls /\ DOMAIN now = Calls
    /\ DOMAIN start = Calls /\ DOMAIN end = Calls /\ DOMAIN confirmed = Calls
    /\ Domains

LEMMA DomainsAre ==
    ASSUME TypeOK, Domains
    PROVE  AllDomains
BY DEF TypeOK, AllDomains

LEMMA OverKeeps ==
    ASSUME AllDomains, NEW c \in Calls, NEW how, Over(c, how)
    PROVE  /\ \A d \in Calls : d # c =>
                 /\ pc'[d] = pc[d] /\ seen'[d] = seen[d] /\ found'[d] = found[d]
                 /\ now'[d] = now[d] /\ end'[d] = end[d]
           /\ DOMAIN seen' = Calls /\ DOMAIN found' = Calls
           /\ pc'[c] = how
BY DEF AllDomains, Domains, Over

LEMMA ChoosePeriodKeeps ==
    ASSUME AllDomains, NEW c \in Calls, NEW from, NEW to, NEW at_hour,
           ChoosePeriod(c, from, to, at_hour)
    PROVE  /\ \A d \in Calls : d # c =>
                 /\ pc'[d] = pc[d] /\ seen'[d] = seen[d] /\ found'[d] = found[d]
                 /\ now'[d] = now[d] /\ start'[d] = start[d] /\ end'[d] = end[d]
           /\ DOMAIN seen' = Calls /\ DOMAIN found' = Calls
<1>1. CASE to <= from \/ to > at_hour \/ ~SingleAppliance(c)
  <2>1. Over(c, "failed") /\ UNCHANGED start
    BY <1>1 DEF ChoosePeriod
  <2> QED
    BY <2>1, OverKeeps
<1>2. CASE ~(to <= from \/ to > at_hour \/ ~SingleAppliance(c))
  BY <1>2 DEF ChoosePeriod, AllDomains, Domains
<1> QED
  BY <1>1, <1>2

(* What a call does is its own: the world and the rows stay, and so do the  *)
(* other calls.                                                             *)
LEMMA CallStepFrame ==
    ASSUME TypeOK, Domains, NEW c \in Calls, CallStep(c)
    PROVE  /\ UNCHANGED <<worldVars, cost, loaded, gen>>
           /\ \A d \in Calls : d # c => Untouched(d)
           /\ Domains'
<1> USE DEF Domains, Untouched, periodVars
<1>a. AllDomains
  BY DomainsAre
<1> USE DEF AllDomains
<1>1. CASE \E r \in Requests : HandleImport(c, r)
  BY <1>a, <1>1 DEF HandleImport, entryVars
<1>2. CASE ResolvePeriod(c)
  <2>1. TakeLock(c)
    BY <1>2 DEF ResolvePeriod
  <2>2. UNCHANGED <<worldVars, cost, queue, loaded, gen, live, cut, req, lock, points, confirmed>>
    BY <2>1 DEF TakeLock
  <2>3. CASE req[c].start # None
    <3>1. ChoosePeriod(c, req[c].start, End(c, hour), hour)
      BY <2>1, <2>3 DEF TakeLock
    <3> QED
      BY <1>a, <2>2, <3>1, ChoosePeriodKeeps
  <2>4. CASE req[c].start = None
    BY <1>a, <2>1, <2>2, <2>4 DEF TakeLock
  <2> QED
    BY <2>3, <2>4
<1>3. CASE ResolveStart(c)
  <2>1. UNCHANGED <<worldVars, cost, queue, loaded, gen, live, cut, req, lock, points, confirmed>>
    BY <1>3 DEF ResolveStart
  <2>2. CASE Over(c, "failed") /\ UNCHANGED start
    BY <1>a, <2>1, <2>2, OverKeeps
  <2>3. CASE \E first \in FirstPriceStatisticsHour(priced) :
                ChoosePeriod(c, first, End(c, now[c]), now[c])
    BY <1>a, <2>1, <2>3, ChoosePeriodKeeps
  <2> QED
    BY <1>3, <2>2, <2>3 DEF ResolveStart
<1>4. CASE ReadSources(c)
  BY <1>a, <1>4 DEF ReadSources, entryVars
<1>5. CASE ReadCosts(c)
  BY <1>a, <1>5 DEF ReadCosts, entryVars
<1>6. CASE ComputeAndQueue(c)
  <2>1. UNCHANGED <<worldVars, cost, loaded, gen, live, cut, req, lock, start, confirmed>>
    BY <1>6 DEF ComputeAndQueue
  <2>2. CASE Gates(c)
    <3>1. UNCHANGED <<seen, found, now, end>> /\ pc' = [pc EXCEPT ![c] = "queued"]
      BY <1>6, <2>2 DEF ComputeAndQueue
    <3>2. \E rows : points' = [points EXCEPT ![c] = rows]
      BY <1>6, <2>2 DEF ComputeAndQueue
    <3> QED
      BY <1>a, <2>1, <3>1, <3>2
  <2>3. CASE ~Gates(c)
    <3>1. Over(c, "failed") /\ UNCHANGED points
      BY <1>6, <2>3 DEF ComputeAndQueue
    <3> QED
      BY <1>a, <2>1, <3>1, OverKeeps
  <2> QED
    BY <2>2, <2>3
<1>7. CASE BlockTillDone(c)
  BY <1>a, <1>7 DEF BlockTillDone, entryVars
<1>8. CASE ReadBack(c)
  BY <1>a, <1>8 DEF ReadBack, entryVars
<1>9. CASE VerifyAndCalibrate(c)
  <2>1. UNCHANGED <<worldVars, cost, queue, loaded, gen, req, lock, start, points, confirmed>>
    BY <1>9 DEF VerifyAndCalibrate
  <2>2. Over(c, "failed") \/ Over(c, "done")
    BY <1>9 DEF VerifyAndCalibrate
  <2> QED
    BY <1>a, <2>1, <2>2, OverKeeps
<1> QED
  BY <1>1, <1>2, <1>3, <1>4, <1>5, <1>6, <1>7, <1>8, <1>9 DEF CallStep, Step

-----------------------------------------------------------------------------
(* Types.                                                                   *)

Stages == {"idle", "waiting", "resolving", "resolved", "sources read", "read", "queued",
           "blocked", "passed", "read back", "done", "failed"}

(* Part of the types that a call's end disturbs. *)
CallTypes ==
    /\ pc \in [Calls -> Stages]
    /\ now \in [Calls -> 0 .. MaxHour] /\ end \in [Calls -> 0 .. MaxHour]
    /\ start \in [Calls -> Hours]
    /\ holder \in [1 .. MaxGen -> Calls \cup {None}]
    /\ \A g \in 1 .. MaxGen : holder[g] = None \/ Running(holder[g])

LEMMA OverType ==
    ASSUME TypeOK, LockInv, NEW c \in Calls, NEW how \in {"done", "failed"},
           pc[c] # "idle", Over(c, how), UNCHANGED start
    PROVE  CallTypes'
<1>1. lock[c] \in 1 .. MaxGen /\ \A g \in 1 .. MaxGen : holder[g] = c => lock[c] = g
  BY DEF LockInv
<1>2. /\ pc' = [pc EXCEPT ![c] = how] /\ now' = [now EXCEPT ![c] = 0]
      /\ end' = [end EXCEPT ![c] = 0] /\ holder' = [holder EXCEPT ![lock[c]] = None]
  BY DEF Over
<1>3. /\ pc \in [Calls -> Stages] /\ now \in [Calls -> 0 .. MaxHour]
      /\ end \in [Calls -> 0 .. MaxHour] /\ start \in [Calls -> Hours]
      /\ holder \in [1 .. MaxGen -> Calls \cup {None}]
      /\ \A g \in 1 .. MaxGen : holder[g] = None \/ Running(holder[g])
  BY DEF TypeOK, Stages
<1>4. pc' \in [Calls -> Stages] /\ holder' \in [1 .. MaxGen -> Calls \cup {None}]
  BY <1>2, <1>3 DEF Stages
<1>5. now' \in [Calls -> 0 .. MaxHour] /\ end' \in [Calls -> 0 .. MaxHour]
  <2>1. 0 \in 0 .. MaxHour
    BY ImportAssumption DEF ImportAssumption
  <2> QED
    BY <1>2, <1>3, <2>1
<1>6. ASSUME NEW g \in 1 .. MaxGen, holder'[g] # None
      PROVE  Running(holder[g])'
  <2>1. holder'[g] = holder[g] /\ g # lock[c]
    BY <1>1, <1>2, <1>3, <1>6
  <2>2. holder[g] # c /\ holder[g] \in Calls /\ Running(holder[g])
    BY <1>1, <1>3, <1>6, <2>1
  <2>3. pc'[holder[g]] = pc[holder[g]]
    BY <1>2, <1>3, <2>2
  <2> QED
    BY <2>1, <2>2, <2>3 DEF Running
<1> QED
  BY <1>3, <1>4, <1>5, <1>6 DEF CallTypes

LEMMA TakeType ==
    ASSUME TypeOK, LockInv, NEW c \in Calls, pc[c] # "idle",
           holder[lock[c]] \in {None, c},
           NEW how \in {"resolving", "resolved"},
           pc' = [pc EXCEPT ![c] = how], holder' = [holder EXCEPT ![lock[c]] = c],
           now' \in [Calls -> 0 .. MaxHour], end' \in [Calls -> 0 .. MaxHour],
           start' \in [Calls -> Hours]
    PROVE  CallTypes'
<1>1. lock[c] \in 1 .. MaxGen
  BY DEF LockInv
<1>2. /\ pc \in [Calls -> Stages]
      /\ holder \in [1 .. MaxGen -> Calls \cup {None}]
      /\ \A g \in 1 .. MaxGen : holder[g] = None \/ Running(holder[g])
  BY DEF TypeOK, Stages
<1>3. pc' \in [Calls -> Stages] /\ holder' \in [1 .. MaxGen -> Calls \cup {None}]
  BY <1>2 DEF Stages
<1>4. ASSUME NEW g \in 1 .. MaxGen, holder'[g] # None
      PROVE  Running(holder[g])'
  <2>1. CASE holder'[g] = c
    BY <1>2, <2>1 DEF Running
  <2>2. CASE holder'[g] # c
    <3>1. holder'[g] = holder[g] /\ holder[g] \in Calls
      BY <1>1, <1>2, <1>4, <2>2
    <3>2. pc'[holder[g]] = pc[holder[g]] /\ Running(holder[g])
      BY <1>2, <1>4, <2>2, <3>1
    <3> QED
      BY <3>1, <3>2 DEF Running
  <2> QED
    BY <2>1, <2>2
<1> QED
  BY <1>3, <1>4 DEF CallTypes

(* A period is chosen inside of the hours there have been.                  *)
LEMMA ChoosePeriodType ==
    ASSUME TypeOK, LockInv, NEW c \in Calls, pc[c] # "idle",
           holder[lock[c]] \in {None, c},
           NEW from \in Hours, NEW at_hour \in 0 .. MaxHour,
           ChoosePeriod(c, from, End(c, at_hour), at_hour)
    PROVE  CallTypes'
<1>1. req[c] \in Requests /\ req[c] \in RequestType
  BY ImportAssumption DEF LockInv, ImportAssumption
<1>2. End(c, at_hour) \in 0 .. MaxHour
  <2>1. req[c].end \in Hours \cup {None}
    BY <1>1 DEF RequestType
  <2> QED
    BY <2>1, ImportAssumption DEF End, Hours, ImportAssumption
<1>3. /\ now \in [Calls -> 0 .. MaxHour] /\ end \in [Calls -> 0 .. MaxHour]
      /\ start \in [Calls -> Hours]
  BY DEF TypeOK
<1> DEFINE to == End(c, at_hour)
<1> HIDE DEF to
<1>4. CASE to <= from \/ to > at_hour \/ ~SingleAppliance(c)
  <2>1. Over(c, "failed") /\ UNCHANGED start
    BY <1>4 DEF ChoosePeriod, to
  <2> QED
    BY <2>1, OverType
<1>5. CASE ~(to <= from \/ to > at_hour \/ ~SingleAppliance(c))
  <2>1. /\ pc' = [pc EXCEPT ![c] = "resolved"]
        /\ holder' = [holder EXCEPT ![lock[c]] = c]
        /\ start' = [start EXCEPT ![c] = from]
        /\ end' = [end EXCEPT ![c] = to]
        /\ now' = [now EXCEPT ![c] = 0]
    BY <1>5 DEF ChoosePeriod, to
  <2>2. 0 \in 0 .. MaxHour /\ to \in 0 .. MaxHour
    BY <1>2, ImportAssumption DEF ImportAssumption, to
  <2>3. now' \in [Calls -> 0 .. MaxHour] /\ end' \in [Calls -> 0 .. MaxHour]
    BY <1>3, <2>1, <2>2
  <2>4. start' \in [Calls -> Hours]
    BY <1>3, <2>1
  <2> QED
    BY <2>1, <2>3, <2>4, TakeType
<1> QED
  BY <1>4, <1>5

(* The series of what was read is of integers, its end reading a reading.   *)
SeenRows == [Hours -> EnergyRow \cup {None}]

LEMMA KnownIs ==
    ASSUME NEW hours \in SeenRows
    PROVE  /\ \A h : h \in Known(hours) <=> h \in Hours /\ hours[h] # None
           /\ \A h \in Known(hours) : hours[h] \in EnergyRow
           /\ \A h : h \in Costed(hours) <=> h \in Known(hours) /\ hours[h].kind = "ok"
           /\ IsFiniteSet(Costed(hours))
<1>1. /\ \A h : h \in Known(hours) <=> h \in Hours /\ hours[h] # None
      /\ \A h \in Known(hours) : hours[h] \in EnergyRow
      /\ \A h : h \in Costed(hours) <=> h \in Known(hours) /\ hours[h].kind = "ok"
  BY DEF SeenRows, Known, Costed
<1>2. IsFiniteSet(Hours)
  <2>1. MaxHour - 1 \in Int
    BY ImportAssumption DEF ImportAssumption
  <2> QED
    BY <2>1, FS_Interval DEF Hours
<1>3. Costed(hours) \in SUBSET Hours
  BY <1>1
<1>4. IsFiniteSet(Costed(hours))
  BY <1>2, <1>3, FS_Subset
<1> QED
  BY <1>1, <1>4

LEMMA CostsType ==
    ASSUME NEW hours \in SeenRows
    PROVE  \A h \in Costed(hours) : Costs(hours)[h] \in Int
<1>1. ASSUME NEW h \in Costed(hours) PROVE Costs(hours)[h] \in Int
  <2>1. hours[h] \in EnergyRow
    BY KnownIs
  <2>2. hours[h].change \in Int /\ hours[h].price \in Int
    BY <2>1 DEF EnergyRow
  <2>3. hours[h].change * hours[h].price \in Int
    BY <2>2
  <2> QED
    BY <2>3 DEF Costs
<1> QED
  BY <1>1

LEMMA SeriesType ==
    ASSUME NEW hours \in SeenRows, NEW initial \in Int
    PROVE  /\ DOMAIN Series(hours, initial) = Costed(hours)
           /\ \A h \in Costed(hours) : Series(hours, initial)[h] \in Int
           /\ Total(hours, initial) \in Int
<1>1. IsFiniteSet(Costed(hours)) /\ \A h \in Costed(hours) : Costs(hours)[h] \in Int
  BY KnownIs, CostsType
<1>2. ASSUME NEW h \in Costed(hours) PROVE Series(hours, initial)[h] \in Int
  <2> DEFINE S == {i \in Costed(hours) : i <= h}
  <2>1. IsFiniteSet(S) /\ \A i \in S : Costs(hours)[i] \in Int
    <3>1. S \in SUBSET Costed(hours)
      OBVIOUS
    <3> HIDE DEF S
    <3> QED
      BY <1>1, <3>1, FS_Subset
  <2>2. SumFunctionOnSet(Costs(hours), S) \in Int
    BY <2>1, SumType
  <2> QED
    BY <2>2 DEF Series, CostUpTo
<1>3. Total(hours, initial) \in Int
  <2>1. DOMAIN Costs(hours) = Costed(hours)
    BY DEF Costs
  <2>2. SumFunctionOnSet(Costs(hours), Costed(hours)) \in Int
    BY <1>1, SumType
  <2> QED
    BY <2>1, <2>2 DEF Total, SumFunction
<1> QED
  BY <1>2, <1>3 DEF Series

LEMMA EndEnergyIs ==
    ASSUME NEW hours \in SeenRows, EndEnergy(hours) # None
    PROVE  \E k \in Hours : /\ hours[k] # None /\ EndEnergy(hours) = hours[k].state
                            /\ \A h \in Hours : hours[h] # None => h <= k
<1>1. Known(hours) # {} /\ EndEnergy(hours) = hours[Max(Known(hours))].state
  BY DEF EndEnergy
<1>2. MaxHour \in Int /\ \A h \in Known(hours) : h \in Int /\ h <= MaxHour
  BY KnownIs, ImportAssumption DEF Hours, ImportAssumption
<1>3. Max(Known(hours)) \in Known(hours) /\ \A h \in Known(hours) : h <= Max(Known(hours))
  BY <1>1, <1>2, MaxIs
<1> QED
  BY <1>1, <1>3, KnownIs

LEMMA CutoverType ==
    ASSUME NEW total \in Int, NEW last \in Nat, NEW reading \in Nat,
           CutoverValue(total, last, reading, 1) # None
    PROVE  CutoverValue(total, last, reading, 1) \in Int
BY DEF CutoverValue

Task == [call: Calls, appliance: Appliances \cup {None}]

WorldTypes ==
    /\ hour \in 1 .. MaxHour /\ compiled \in 0 .. hour
    /\ level \in [Appliances -> Nat] /\ at \in [Appliances -> [0 .. MaxHour -> Nat]]
    /\ energy \in Rows(EnergyRow) /\ priced \subseteq 0 .. compiled - 1

EntryTypes ==
    /\ loaded \in BOOLEAN /\ gen \in 1 .. MaxGen
    /\ live \in [Appliances -> Int] /\ cut \in [Appliances -> Calls \cup {None}]

RestTypes ==
    /\ cost \in Rows(CostRow) /\ queue \in Seq(Task)
    /\ req \in [Calls -> Requests \cup {None}] /\ lock \in [Calls -> 0 .. MaxGen]
    /\ confirmed \in [Calls -> BOOLEAN]

LEMMA TypesAre ==
    /\ TypeOK <=> WorldTypes /\ EntryTypes /\ RestTypes /\ CallTypes
    /\ TypeOK' <=> WorldTypes' /\ EntryTypes' /\ RestTypes' /\ CallTypes'
BY DEF TypeOK, WorldTypes, EntryTypes, RestTypes, CallTypes, Stages, Task

(* A call that goes on to another stage, and holds what it held.            *)
LEMMA GoesOnType ==
    ASSUME TypeOK, NEW c \in Calls, Running(c),
           NEW how \in Stages \ {"idle", "waiting", "done", "failed"},
           pc' = [pc EXCEPT ![c] = how],
           UNCHANGED <<holder, now, start, end>>
    PROVE  CallTypes'
<1>1. CallTypes
  BY TypesAre
<1>2. pc' \in [Calls -> Stages] /\ \A d \in Calls : Running(d) => Running(d)'
  BY <1>1 DEF CallTypes, Running
<1> QED
  BY <1>1, <1>2 DEF CallTypes

LEMMA TypeOfHandle ==
    ASSUME ImportInv, NEW c \in Calls, NEW r \in Requests, HandleImport(c, r)
    PROVE  TypeOK'
<1>1. WorldTypes /\ EntryTypes /\ RestTypes /\ CallTypes
  BY TypesAre DEF ImportInv
<1>2. /\ UNCHANGED <<hour, compiled, level, at, energy, priced>>
      /\ UNCHANGED <<cost, queue, loaded, gen, holder, live, cut, now, start, end, confirmed>>
      /\ pc[c] = "idle" /\ pc' = [pc EXCEPT ![c] = "waiting"] /\ req' = [req EXCEPT ![c] = r]
      /\ lock' = [lock EXCEPT ![c] = gen]
  BY DEF HandleImport, worldVars, entryVars, periodVars
<1>3. WorldTypes' /\ EntryTypes'
  BY <1>1, <1>2 DEF WorldTypes, EntryTypes
<1>4. RestTypes'
  <2>1. req' \in [Calls -> Requests \cup {None}]
    BY <1>1, <1>2 DEF RestTypes
  <2>2. lock' \in [Calls -> 0 .. MaxGen]
    <3>1. gen \in 0 .. MaxGen
      BY <1>1, ImportAssumption DEF EntryTypes, ImportAssumption
    <3> QED
      BY <1>1, <1>2, <3>1 DEF RestTypes
  <2> QED
    BY <1>1, <1>2, <2>1, <2>2 DEF RestTypes
<1>5. CallTypes'
  <2>1. pc' \in [Calls -> Stages] /\ \A d \in Calls : Running(d) => Running(d)'
    BY <1>1, <1>2 DEF CallTypes, Stages, Running
  <2> QED
    BY <1>1, <1>2, <2>1 DEF CallTypes
<1> QED
  BY <1>3, <1>4, <1>5, TypesAre

LEMMA TypeOfResolvePeriod ==
    ASSUME ImportInv, NEW c \in Calls, ResolvePeriod(c)
    PROVE  TypeOK'
<1>1. WorldTypes /\ EntryTypes /\ RestTypes /\ CallTypes
  BY TypesAre DEF ImportInv
<1>2. /\ UNCHANGED <<hour, compiled, level, at, energy, priced>>
      /\ UNCHANGED <<cost, queue, loaded, gen, live, cut, req, lock, confirmed>>
      /\ pc[c] = "waiting" /\ holder[lock[c]] = None
  BY DEF ResolvePeriod, TakeLock, worldVars
<1>3. WorldTypes' /\ EntryTypes' /\ RestTypes'
  BY <1>1, <1>2 DEF WorldTypes, EntryTypes, RestTypes
<1>4. hour \in 0 .. MaxHour
  BY <1>1 DEF WorldTypes
<1>5. CASE req[c].start # None
  <2>1. ChoosePeriod(c, req[c].start, End(c, hour), hour)
    BY <1>5 DEF ResolvePeriod, TakeLock
  <2>2. req[c].start \in Hours
    <3>1. req[c] \in RequestType
      BY <1>2, ImportAssumption DEF ImportInv, LockInv, ImportAssumption
    <3> QED
      BY <1>5, <3>1 DEF RequestType
  <2>3. CallTypes'
    BY <1>2, <1>4, <2>1, <2>2, ChoosePeriodType DEF ImportInv
  <2> QED
    BY <1>3, <2>3, TypesAre
<1>6. CASE req[c].start = None
  <2>1. /\ pc' = [pc EXCEPT ![c] = "resolving"] /\ holder' = [holder EXCEPT ![lock[c]] = c]
        /\ now' = [now EXCEPT ![c] = hour] /\ UNCHANGED <<start, end>>
    BY <1>6 DEF ResolvePeriod, TakeLock
  <2>2. /\ now' \in [Calls -> 0 .. MaxHour] /\ end' \in [Calls -> 0 .. MaxHour]
        /\ start' \in [Calls -> Hours]
    BY <1>1, <1>4, <2>1 DEF CallTypes
  <2>3. CallTypes'
    BY <1>2, <2>1, <2>2, TakeType DEF ImportInv
  <2> QED
    BY <1>3, <2>3, TypesAre
<1> QED
  BY <1>5, <1>6

(* The first price hour is one of the hours with a price, and no later.     *)
LEMMA PricedIsFound ==
    ASSUME WorldTypes
    PROVE  FirstPriceStatisticsHour(priced) = IF priced = {} THEN {} ELSE {Min(priced)}
<1>1. \A h \in priced : h \in Nat /\ h \in Hours /\ h < MaxHour
  BY ImportAssumption DEF WorldTypes, Hours, ImportAssumption
<1>2. FirstMonth
  BY ImportAssumption DEF ImportAssumption, FirstMonth
<1>3. \A h \in priced : \E m \in MonthStarts : m > h
  <2>1. PICK m \in MonthStarts : m >= MaxHour
    BY ImportAssumption DEF ImportAssumption
  <2>2. m \in Int /\ MaxHour \in Int
    BY MonthAssumption, ImportAssumption DEF MonthAssumption, ImportAssumption
  <2> QED
    BY <1>1, <2>1, <2>2
<1> QED
  BY <1>1, <1>2, <1>3, FirstHourIsExact

LEMMA FirstPriceIs ==
    ASSUME WorldTypes, NEW first \in FirstPriceStatisticsHour(priced)
    PROVE  first \in priced /\ first \in Hours /\ \A h \in priced : first <= h
<1>1. \A h \in priced : h \in Nat /\ h \in Hours
  BY ImportAssumption DEF WorldTypes, Hours, ImportAssumption
<1>2. priced # {} /\ first = Min(priced)
  BY PricedIsFound
<1>3. \A h \in priced : h \in Int /\ 0 <= h
  BY <1>1
<1>4. Min(priced) \in priced /\ \A h \in priced : Min(priced) <= h
  BY <1>2, <1>3, MinIs
<1> QED
  BY <1>1, <1>2, <1>4

LEMMA TypeOfResolveStart ==
    ASSUME ImportInv, NEW c \in Calls, ResolveStart(c)
    PROVE  TypeOK'
<1>1. WorldTypes /\ EntryTypes /\ RestTypes /\ CallTypes
  BY TypesAre DEF ImportInv
<1>2. /\ UNCHANGED <<hour, compiled, level, at, energy, priced>>
      /\ UNCHANGED <<cost, queue, loaded, gen, live, cut, req, lock, confirmed>>
      /\ pc[c] = "resolving"
  BY DEF ResolveStart, worldVars
<1>3. WorldTypes' /\ EntryTypes' /\ RestTypes'
  BY <1>1, <1>2 DEF WorldTypes, EntryTypes, RestTypes
<1>4. holder[lock[c]] = c /\ now[c] \in 0 .. MaxHour
  BY <1>1, <1>2 DEF ImportInv, LockInv, Running, CallTypes
<1>5. CASE Over(c, "failed") /\ UNCHANGED start
  <2>1. CallTypes'
    BY <1>2, <1>5, OverType DEF ImportInv
  <2> QED
    BY <1>3, <2>1, TypesAre
<1>6. CASE \E first \in FirstPriceStatisticsHour(priced) :
              ChoosePeriod(c, first, End(c, now[c]), now[c])
  <2>1. PICK first \in FirstPriceStatisticsHour(priced) :
              ChoosePeriod(c, first, End(c, now[c]), now[c])
    BY <1>6
  <2>2. first \in Hours
    BY <1>1, FirstPriceIs
  <2>3. CallTypes'
    BY <1>2, <1>4, <2>1, <2>2, ChoosePeriodType DEF ImportInv
  <2> QED
    BY <1>3, <2>3, TypesAre
<1> QED
  BY <1>5, <1>6 DEF ResolveStart

LEMMA TypeOfReads ==
    ASSUME ImportInv, NEW c \in Calls, ReadSources(c) \/ ReadCosts(c) \/ ReadBack(c)
    PROVE  TypeOK'
<1>1. WorldTypes /\ EntryTypes /\ RestTypes /\ CallTypes
  BY TypesAre DEF ImportInv
<1>2. /\ UNCHANGED <<hour, compiled, level, at, energy, priced>>
      /\ UNCHANGED <<cost, queue, loaded, gen, holder, live, cut, req, lock, now, start, end>>
      /\ Running(c)
  BY DEF ReadSources, ReadCosts, ReadBack, worldVars, entryVars, periodVars, Running
<1>3. confirmed' \in [Calls -> BOOLEAN]
  <2>1. CASE ReadSources(c) \/ ReadCosts(c)
    BY <1>1, <2>1 DEF RestTypes, ReadSources, ReadCosts
  <2>2. CASE ReadBack(c)
    <3>1. Agrees(c) \in BOOLEAN
      BY DEF Agrees
    <3>2. confirmed' = [confirmed EXCEPT ![c] = Agrees(c)]
      BY <2>2 DEF ReadBack
    <3> HIDE DEF Agrees
    <3> QED
      BY <1>1, <3>1, <3>2 DEF RestTypes
  <2> QED
    BY <2>1, <2>2
<1>4. WorldTypes' /\ EntryTypes' /\ RestTypes'
  BY <1>1, <1>2, <1>3 DEF WorldTypes, EntryTypes, RestTypes
<1>5. \E how \in Stages \ {"idle", "waiting", "done", "failed"} : pc' = [pc EXCEPT ![c] = how]
  BY DEF ReadSources, ReadCosts, ReadBack, Stages
<1>6. CallTypes'
  BY <1>2, <1>5, GoesOnType DEF ImportInv
<1> QED
  BY <1>4, <1>6, TypesAre

(* The rows are put at the queue's end, in some order. *)
LEMMA QueuedRows ==
    ASSUME ImportInv, NEW c \in Calls, ComputeAndQueue(c), Gates(c)
    PROVE  /\ UNCHANGED <<hour, compiled, level, at, energy, priced>>
           /\ UNCHANGED <<cost, loaded, gen, holder, live, cut, req, lock, now, start, end>>
           /\ UNCHANGED <<seen, found, confirmed>>
           /\ pc[c] = "read" /\ pc' = [pc EXCEPT ![c] = "queued"]
           /\ points' = [points EXCEPT ![c] =
                            [a \in Selected(c) |-> Series(seen[c][a], InitialCost(c))]]
           /\ \E new \in Seq(Task) :
                 /\ queue' = queue \o new
                 /\ \A i \in DOMAIN new : new[i].call = c /\ new[i].appliance \in Selected(c)
<1> DEFINE rows == [a \in Selected(c) |-> Series(seen[c][a], InitialCost(c))]
           some == {a \in Selected(c) : DOMAIN rows[a] # {}}
<1>1. /\ UNCHANGED <<hour, compiled, level, at, energy, priced>>
      /\ UNCHANGED <<cost, loaded, gen, holder, live, cut, req, lock, now, start, end>>
      /\ UNCHANGED <<seen, found, confirmed>>
      /\ pc[c] = "read" /\ pc' = [pc EXCEPT ![c] = "queued"]
      /\ points' = [points EXCEPT ![c] = rows]
  BY DEF ComputeAndQueue, worldVars
<1>2. PICK order \in [1 .. Cardinality(some) -> some] :
          queue' = queue \o [i \in DOMAIN order |-> [call |-> c, appliance |-> order[i]]]
  BY DEF ComputeAndQueue
<1> DEFINE new == [i \in DOMAIN order |-> [call |-> c, appliance |-> order[i]]]
<1>3. Selected(c) \subseteq Appliances
  BY <1>1, ImportAssumption DEF ImportInv, LockInv, ImportAssumption, RequestType, Selected
<1>4. Cardinality(some) \in Nat
  <2>1. some \in SUBSET Appliances
    BY <1>3
  <2> HIDE DEF some
  <2> QED
    BY <2>1, FS_Subset, FS_CardinalityType, ImportAssumption DEF ImportAssumption
<1>5. \A a \in some : a \in Selected(c)
  OBVIOUS
<1> DEFINE n == Cardinality(some)
<1> HIDE DEF some, n
<1>6. new \in [1 .. n -> Task] /\ n \in Nat
  BY <1>2, <1>3, <1>4, <1>5 DEF Task, n
<1>7. new \in Seq(Task)
  <2> HIDE DEF new
  <2> QED
    BY <1>6
<1>8. \A i \in DOMAIN new : new[i].call = c /\ new[i].appliance \in Selected(c)
  BY <1>2, <1>5
<1>9. queue' = queue \o new
  BY <1>2
<1> HIDE DEF new
<1> QED
  BY <1>1, <1>7, <1>8, <1>9

LEMMA TypeOfCompute ==
    ASSUME ImportInv, NEW c \in Calls, ComputeAndQueue(c)
    PROVE  TypeOK'
<1>1. WorldTypes /\ EntryTypes /\ RestTypes /\ CallTypes
  BY TypesAre DEF ImportInv
<1>2. CASE Gates(c)
  <2>1. /\ UNCHANGED <<hour, compiled, level, at, energy, priced>>
        /\ UNCHANGED <<cost, loaded, gen, holder, live, cut, req, lock, now, start, end, confirmed>>
        /\ pc[c] = "read" /\ pc' = [pc EXCEPT ![c] = "queued"]
    BY <1>2, QueuedRows
  <2>2. queue' \in Seq(Task)
    <3>1. PICK new \in Seq(Task) : queue' = queue \o new
      BY <1>2, QueuedRows
    <3> QED
      BY <1>1, <3>1 DEF RestTypes
  <2>3. CallTypes'
    BY <2>1, GoesOnType DEF ImportInv, Running, Stages
  <2>4. WorldTypes' /\ EntryTypes' /\ RestTypes'
    BY <1>1, <2>1, <2>2 DEF WorldTypes, EntryTypes, RestTypes
  <2> QED
    BY <2>3, <2>4, TypesAre
<1>3. CASE ~Gates(c)
  <2>1. /\ UNCHANGED <<hour, compiled, level, at, energy, priced>>
        /\ UNCHANGED <<cost, queue, loaded, gen, live, cut, req, lock, start, confirmed>>
        /\ pc[c] = "read" /\ Over(c, "failed")
    BY <1>3 DEF ComputeAndQueue, worldVars
  <2>2. CallTypes'
    BY <2>1, OverType DEF ImportInv
  <2>3. WorldTypes' /\ EntryTypes' /\ RestTypes'
    BY <1>1, <2>1 DEF WorldTypes, EntryTypes, RestTypes
  <2> QED
    BY <2>2, <2>3, TypesAre
<1> QED
  BY <1>2, <1>3

LEMMA TypeOfBlock ==
    ASSUME ImportInv, NEW c \in Calls, BlockTillDone(c)
    PROVE  TypeOK'
<1>1. WorldTypes /\ EntryTypes /\ RestTypes /\ CallTypes
  BY TypesAre DEF ImportInv
<1>2. /\ UNCHANGED <<hour, compiled, level, at, energy, priced>>
      /\ UNCHANGED <<cost, loaded, gen, holder, live, cut, req, lock, now, start, end, confirmed>>
      /\ pc[c] = "queued" /\ pc' = [pc EXCEPT ![c] = "blocked"]
      /\ queue' = Append(queue, [call |-> c, appliance |-> None])
  BY DEF BlockTillDone, worldVars, entryVars, periodVars
<1>3. queue' \in Seq(Task)
  <2>1. [call |-> c, appliance |-> None] \in Task
    BY DEF Task
  <2> QED
    BY <1>1, <1>2, <2>1 DEF RestTypes
<1>4. CallTypes'
  BY <1>2, GoesOnType DEF ImportInv, Running, Stages
<1>5. WorldTypes' /\ EntryTypes' /\ RestTypes'
  BY <1>1, <1>2, <1>3 DEF WorldTypes, EntryTypes, RestTypes
<1> QED
  BY <1>4, <1>5, TypesAre

LEMMA InitialIs ==
    ASSUME LockInv, NEW c \in Calls, pc[c] # "idle"
    PROVE  InitialCost(c) \in Int
<1>1. req[c].initial \in Int \cup {None}
  BY ImportAssumption DEF LockInv, ImportAssumption, RequestType
<1>2. CASE req[c].initial = None
  BY <1>2 DEF InitialCost
<1>3. CASE req[c].initial # None
  BY <1>1, <1>3 DEF InitialCost
<1> QED
  BY <1>2, <1>3

(* A sensor is only set to a cost that is a number. *)
LEMMA CalibratedLive ==
    ASSUME ImportInv, NEW c \in Calls, pc[c] = "read back",
           NEW able \in SUBSET Selected(c), NEW a \in Calibratable(c, able)
    PROVE  /\ a \in Selected(c) /\ seen[c][a] \in SeenRows
           /\ EndEnergy(seen[c][a]) \in Nat
           /\ Total(seen[c][a], InitialCost(c)) \in Int
           /\ CutoverValue(Total(seen[c][a], InitialCost(c)),
                           EndEnergy(seen[c][a]), level[a], 1) \in Int
<1>1. a \in Selected(c) /\ EndEnergy(seen[c][a]) # None
      /\ CutoverValue(Total(seen[c][a], InitialCost(c)),
                      EndEnergy(seen[c][a]), level[a], 1) # None
  BY DEF Calibratable
<1>2. /\ seen[c] \in [Selected(c) -> [Hours -> EnergyRow \cup {None}]]
      /\ req[c] \in RequestType
  BY ImportAssumption DEF ImportInv, CallInv, HasSeen, Posted, LockInv, ImportAssumption
<1>3. seen[c][a] \in SeenRows /\ a \in Appliances /\ InitialCost(c) \in Int
  <2>1. a \in Appliances
    BY <1>1, <1>2 DEF RequestType, Selected
  <2>2. seen[c][a] \in SeenRows
    BY <1>1, <1>2 DEF SeenRows
  <2>3. InitialCost(c) \in Int
    BY InitialIs DEF ImportInv
  <2> QED
    BY <2>1, <2>2, <2>3
<1>4. EndEnergy(seen[c][a]) \in Nat
  <2>1. PICK k \in Hours : seen[c][a][k] # None /\ EndEnergy(seen[c][a]) = seen[c][a][k].state
    BY <1>1, <1>3, EndEnergyIs
  <2>2. seen[c][a][k] \in EnergyRow
    BY <1>3, <2>1 DEF SeenRows
  <2> QED
    BY <2>1, <2>2 DEF EnergyRow
<1>5. Total(seen[c][a], InitialCost(c)) \in Int
  BY <1>3, SeriesType
<1>6. level[a] \in Nat
  BY <1>3 DEF ImportInv, TypeOK
<1> QED
  BY <1>1, <1>3, <1>4, <1>5, <1>6, CutoverType

LEMMA TypeOfVerify ==
    ASSUME ImportInv, NEW c \in Calls, VerifyAndCalibrate(c)
    PROVE  TypeOK'
<1>1. WorldTypes /\ EntryTypes /\ RestTypes /\ CallTypes
  BY TypesAre DEF ImportInv
<1>2. /\ UNCHANGED <<hour, compiled, level, at, energy, priced>>
      /\ UNCHANGED <<cost, queue, loaded, gen, req, lock, start, points, confirmed>>
      /\ pc[c] = "read back" /\ (Over(c, "failed") \/ Over(c, "done"))
  BY DEF VerifyAndCalibrate, worldVars
<1>3. CallTypes'
  BY <1>2, OverType DEF ImportInv
<1>4. WorldTypes' /\ RestTypes'
  BY <1>1, <1>2 DEF WorldTypes, RestTypes
<1>5. live' \in [Appliances -> Int] /\ cut' \in [Appliances -> Calls \cup {None}]
  <2>1. CASE ~ confirmed[c]
    <3>1. UNCHANGED <<live, cut>>
      BY <2>1 DEF VerifyAndCalibrate
    <3> QED
      BY <1>1, <3>1 DEF EntryTypes
  <2>2. CASE confirmed[c]
    <3>1. PICK able \in SUBSET Selected(c) :
             /\ live' = [a \in Appliances |->
                   IF a \in Calibratable(c, able)
                   THEN CutoverValue(Total(seen[c][a], InitialCost(c)),
                                     EndEnergy(seen[c][a]), level[a], 1)
                   ELSE live[a]]
             /\ cut' = [a \in Appliances |-> IF a \in Calibratable(c, able) THEN c ELSE cut[a]]
      BY <2>2 DEF VerifyAndCalibrate
    <3>2. \A a \in Appliances : live'[a] \in Int
      BY <1>1, <1>2, <3>1, CalibratedLive DEF EntryTypes
    <3>3. \A a \in Appliances : cut'[a] \in Calls \cup {None}
      BY <1>1, <3>1 DEF EntryTypes
    <3>4. /\ live' = [a \in Appliances |-> live'[a]]
          /\ cut' = [a \in Appliances |-> cut'[a]]
      BY <3>1
    <3> QED
      BY <3>2, <3>3, <3>4
  <2> QED
    BY <2>1, <2>2
<1>6. EntryTypes'
  BY <1>1, <1>2, <1>5 DEF EntryTypes
<1> QED
  BY <1>3, <1>4, <1>6, TypesAre

(* The recorder takes a task: the fence, or rows. *)
LEMMA TaskIs ==
    ASSUME TypeOK, queue # <<>>
    PROVE  /\ Head(queue) = queue[1] /\ 1 \in DOMAIN queue /\ Head(queue) \in Task
           /\ Tail(queue) \in Seq(Task)
           /\ DOMAIN Tail(queue) = 1 .. Len(queue) - 1 /\ DOMAIN queue = 1 .. Len(queue)
           /\ \A i \in DOMAIN Tail(queue) : i + 1 \in DOMAIN queue /\ Tail(queue)[i] = queue[i + 1]
<1>1. queue \in Seq(Task)
  BY DEF TypeOK, Task
<1>2. Len(queue) \in Nat /\ Len(queue) # 0 /\ DOMAIN queue = 1 .. Len(queue)
  BY <1>1, EmptySeq
<1> QED
  BY <1>1, <1>2

LEMMA TypeOfTask ==
    ASSUME ImportInv, RunTask
    PROVE  TypeOK'
<1> DEFINE task == Head(queue)
           c == task.call
<1>1. WorldTypes /\ EntryTypes /\ RestTypes /\ CallTypes
  BY TypesAre DEF ImportInv
<1>2. /\ UNCHANGED <<hour, compiled, level, at, energy, priced>>
      /\ UNCHANGED <<loaded, gen, holder, live, cut, req, lock, now, start, end, seen, points, confirmed>>
      /\ queue # <<>>
  BY DEF RunTask, worldVars, entryVars, periodVars
<1>3. /\ task = queue[1] /\ 1 \in DOMAIN queue /\ task \in Task /\ Tail(queue) \in Seq(Task)
  BY <1>2, TaskIs DEF ImportInv
<1>4. WorldTypes' /\ EntryTypes'
  BY <1>1, <1>2 DEF WorldTypes, EntryTypes
<1>5. CASE IsFence(task)
  <2>1. pc' = [pc EXCEPT ![c] = "passed"] /\ queue' = Tail(queue) /\ UNCHANGED cost
    BY <1>5 DEF RunTask, IsFence
  <2>2. pc[c] = "blocked" /\ c \in Calls
    BY <1>3, <1>5 DEF ImportInv, QueueInv, Task
  <2>3. CallTypes'
    BY <1>2, <2>1, <2>2, GoesOnType DEF ImportInv, Running, Stages
  <2>4. RestTypes'
    BY <1>1, <1>2, <1>3, <2>1 DEF RestTypes
  <2> QED
    BY <1>4, <2>3, <2>4, TypesAre
<1>6. CASE ~ IsFence(task)
  <2>1. /\ pc' = pc
        /\ (Import(task) /\ queue' = Tail(queue)) \/ UNCHANGED cost
        /\ queue' = Tail(queue) \/ queue' = Append(Tail(queue), task)
    BY <1>6 DEF RunTask, IsFence
  <2>2. CallTypes'
    BY <1>1, <1>2, <2>1 DEF CallTypes, Running
  <2>3. queue' \in Seq(Task)
    <3> HIDE DEF task
    <3> QED
      BY <1>3, <2>1
  <2>4. cost' \in Rows(CostRow)
    <3>1. CASE UNCHANGED cost
      BY <1>1, <3>1 DEF RestTypes
    <3>2. CASE Import(task)
      <4> DEFINE a == task.appliance
                 rows == points[c][a]
                 new == [h \in Hours |-> IF h \in DOMAIN rows THEN [by |-> c, sum |-> rows[h]]
                                         ELSE cost[a][h]]
      <4>1. c \in Calls /\ a \in Appliances /\ a \in Selected(c)
        BY <1>3, <1>6 DEF IsFence, ImportInv, QueueInv, Task
      <4>2. HasTask(c)
        BY <1>3 DEF HasTask
      <4>3. \A h \in DOMAIN rows : rows[h] \in Int
        BY <4>1, <4>2 DEF ImportInv, CallInv, HasRows
      <4>4. cost \in [Appliances -> [Hours -> CostRow \cup {None}]]
        BY <1>1 DEF RestTypes, Rows
      <4>5. cost' = [cost EXCEPT ![a] = new]
        BY <3>2, <4>1, <4>4 DEF Import
      <4>6. new \in [Hours -> CostRow \cup {None}]
        <5>1. ASSUME NEW h \in Hours PROVE new[h] \in CostRow \cup {None}
          <6>1. CASE h \in DOMAIN rows
            <7> HIDE DEF rows, c
            <7> QED
              BY <4>1, <4>3, <6>1 DEF CostRow
          <6>2. CASE h \notin DOMAIN rows
            BY <4>1, <4>4, <6>2
          <6> QED
            BY <6>1, <6>2
        <5> QED
          BY <5>1
      <4> HIDE DEF new, a
      <4> QED
        BY <4>4, <4>5, <4>6 DEF Rows
    <3> QED
      BY <2>1, <3>1, <3>2
  <2>5. RestTypes'
    BY <1>1, <1>2, <2>3, <2>4 DEF RestTypes
  <2> QED
    BY <1>4, <2>2, <2>5, TypesAre
<1> QED
  BY <1>5, <1>6

(* What the compile of an hour makes of the rows. *)
LEMMA CompileIs ==
    ASSUME ImportInv, CompileHour
    PROVE  /\ UNCHANGED <<hour, level, at, queue, entryVars, callVars>>
           /\ compiled < hour /\ compiled' = compiled + 1 /\ compiled \in Hours
           /\ priced \subseteq priced' /\ priced' \subseteq priced \cup {compiled}
           /\ energy' \in Rows(EnergyRow) /\ cost' \in Rows(CostRow)
           /\ \A a \in Appliances : \A h \in Hours :
                 h # compiled => energy'[a][h] = energy[a][h] /\ cost'[a][h] = cost[a][h]
           /\ \A a \in Appliances :
                 /\ cost'[a][compiled] \in {cost[a][compiled], [by |-> Live, sum |-> live[a]]}
                 /\ energy'[a][compiled] = None => at[a][compiled + 1] = at[a][compiled]
                 /\ energy'[a][compiled] # None => Tells(energy'[a][compiled], a, compiled)
<1>1. WorldTypes /\ EntryTypes /\ RestTypes
  BY TypesAre DEF ImportInv
<1>2. /\ UNCHANGED <<hour, level, at, queue, entryVars, callVars>>
      /\ compiled < hour /\ compiled' = compiled + 1
      /\ cost' = [a \in Appliances |-> [cost[a] EXCEPT ![compiled] =
                     IF compiled >= LiveFrom THEN [by |-> Live, sum |-> live[a]] ELSE @]]
  BY DEF CompileHour
<1>3. compiled \in Hours /\ compiled \in Nat /\ compiled + 1 \in 0 .. MaxHour
      /\ compiled + 1 \in 0 .. hour /\ compiled \in 0 .. hour - 1 /\ compiled \in 0 .. MaxHour
  BY <1>1, <1>2, ImportAssumption DEF WorldTypes, Hours, ImportAssumption
<1> DEFINE change(a) == at[a][compiled + 1] - at[a][compiled]
           row(a, k, p) == [kind |-> IF k = "ok" /\ ~p /\ change(a) > 0 THEN "unpriced" ELSE k,
                            change |-> change(a), price |-> IF p THEN 1 ELSE 0,
                            state |-> at[a][compiled + 1]]
<1>4. PICK kind \in [Appliances -> Kinds], price \in Prices :
         /\ \A a \in Appliances : kind[a] = "absent" => change(a) = 0
         /\ energy' = [a \in Appliances |-> [energy[a] EXCEPT ![compiled] =
               IF kind[a] = "absent" THEN None ELSE row(a, kind[a], price)]]
         /\ priced' = priced \cup {h \in {compiled} : price}
  BY DEF CompileHour
<1>5. ASSUME NEW a \in Appliances
      PROVE  /\ change(a) \in Nat /\ at[a][compiled + 1] \in Nat /\ at[a][compiled] \in Nat
             /\ kind[a] \in Kinds /\ price \in BOOLEAN
             /\ energy[a] \in [Hours -> EnergyRow \cup {None}]
             /\ cost[a] \in [Hours -> CostRow \cup {None}] /\ live[a] \in Int
  <2>1. at[a][compiled] \in Nat /\ at[a][compiled + 1] \in Nat
    BY <1>1, <1>3 DEF WorldTypes
  <2>2. at[a][compiled] <= at[a][compiled + 1]
    BY <1>3 DEF ImportInv, WorldInv
  <2>3. change(a) \in Nat
    BY <2>1, <2>2
  <2>4. kind[a] \in Kinds /\ price \in BOOLEAN
    BY ImportAssumption DEF ImportAssumption
  <2>5. energy[a] \in [Hours -> EnergyRow \cup {None}] /\ live[a] \in Int
    BY <1>1 DEF WorldTypes, EntryTypes, Rows
  <2>6. cost[a] \in [Hours -> CostRow \cup {None}]
    BY <1>1 DEF RestTypes, Rows
  <2> QED
    BY <2>1, <2>3, <2>4, <2>5, <2>6
<1> HIDE DEF change
<1>6. ASSUME NEW a \in Appliances
      PROVE  row(a, kind[a], price) \in EnergyRow /\ row(a, kind[a], price) # None
  <2>1. row(a, kind[a], price) \in EnergyRow
    BY <1>5 DEF EnergyRow
  <2> HIDE DEF row
  <2> QED
    BY <2>1, ImportAssumption DEF ImportAssumption
<1>7. ASSUME NEW a \in Appliances PROVE Tells(row(a, kind[a], price), a, compiled)
  <2>1. CASE price
    BY <1>5, <2>1 DEF Tells, change
  <2>2. CASE ~price /\ change(a) > 0
    BY <1>5, <2>2 DEF Tells, change
  <2>3. CASE ~price /\ change(a) = 0
    BY <1>5, <2>3 DEF Tells, change
  <2>4. change(a) > 0 \/ change(a) = 0
    BY <1>5
  <2> QED
    BY <2>1, <2>2, <2>3, <2>4
<1> HIDE DEF row
<1>8. ASSUME NEW a \in Appliances
      PROVE  /\ energy'[a] \in [Hours -> EnergyRow \cup {None}]
             /\ cost'[a] \in [Hours -> CostRow \cup {None}]
             /\ \A h \in Hours : h # compiled => energy'[a][h] = energy[a][h]
                                                /\ cost'[a][h] = cost[a][h]
             /\ cost'[a][compiled] \in {cost[a][compiled], [by |-> Live, sum |-> live[a]]}
             /\ energy'[a][compiled] = IF kind[a] = "absent" THEN None
                                       ELSE row(a, kind[a], price)
  <2>1. energy'[a] = [energy[a] EXCEPT ![compiled] =
                         IF kind[a] = "absent" THEN None ELSE row(a, kind[a], price)]
    BY <1>4
  <2>2. cost'[a] = [cost[a] EXCEPT ![compiled] =
                       IF compiled >= LiveFrom THEN [by |-> Live, sum |-> live[a]]
                       ELSE cost[a][compiled]]
    BY <1>2, <1>3, <1>5
  <2>3. [by |-> Live, sum |-> live[a]] \in CostRow
    BY <1>5 DEF CostRow
  <2>4. row(a, kind[a], price) \in EnergyRow
    BY <1>6
  <2>5. energy'[a] \in [Hours -> EnergyRow \cup {None}]
    BY <1>3, <1>5, <2>1, <2>4
  <2>6. cost'[a] \in [Hours -> CostRow \cup {None}]
    <3> DEFINE new == [by |-> Live, sum |-> live[a]]
    <3> HIDE DEF new
    <3> QED
      BY <1>3, <1>5, <2>2, <2>3 DEF new
  <2>7. /\ \A h \in Hours : h # compiled => energy'[a][h] = energy[a][h]
                                              /\ cost'[a][h] = cost[a][h]
        /\ energy'[a][compiled] = IF kind[a] = "absent" THEN None
                                  ELSE row(a, kind[a], price)
    BY <1>3, <1>5, <2>1, <2>2
  <2>8. cost'[a][compiled] \in {cost[a][compiled], [by |-> Live, sum |-> live[a]]}
    BY <1>3, <1>5, <2>2
  <2> QED
    BY <2>5, <2>6, <2>7, <2>8
<1>9. energy' \in Rows(EnergyRow) /\ cost' \in Rows(CostRow)
  <2>1. energy' = [a \in Appliances |-> energy'[a]] /\ cost' = [a \in Appliances |-> cost'[a]]
    BY <1>2, <1>4
  <2> QED
    BY <1>8, <2>1 DEF Rows
<1>10. priced \subseteq priced' /\ priced' \subseteq priced \cup {compiled}
  BY <1>4
<1>11. ASSUME NEW a \in Appliances
       PROVE  /\ energy'[a][compiled] = None => at[a][compiled + 1] = at[a][compiled]
              /\ energy'[a][compiled] # None => Tells(energy'[a][compiled], a, compiled)
  <2>1. CASE kind[a] = "absent"
    <3>1. change(a) = 0 /\ energy'[a][compiled] = None
      BY <1>4, <1>8, <2>1
    <3>2. at[a][compiled + 1] \in Nat /\ at[a][compiled] \in Nat
      BY <1>5
    <3>3. at[a][compiled + 1] - at[a][compiled] = 0
      BY <3>1 DEF change
    <3>4. at[a][compiled + 1] = at[a][compiled]
      BY <3>2, <3>3
    <3> QED
      BY <3>1, <3>4
  <2>2. CASE kind[a] # "absent"
    BY <1>6, <1>7, <1>8, <2>2
  <2> QED
    BY <2>1, <2>2
<1> QED
  BY <1>2, <1>3, <1>8, <1>9, <1>10, <1>11

LEMMA TypeOfCompile ==
    ASSUME ImportInv, CompileHour
    PROVE  TypeOK'
<1>1. WorldTypes /\ EntryTypes /\ RestTypes /\ CallTypes
  BY TypesAre DEF ImportInv
<1>2. /\ UNCHANGED <<hour, level, at, queue, entryVars, callVars>>
      /\ compiled < hour /\ compiled' = compiled + 1
      /\ priced' \subseteq priced \cup {compiled}
      /\ energy' \in Rows(EnergyRow) /\ cost' \in Rows(CostRow)
  BY CompileIs
<1>3. UNCHANGED <<loaded, gen, holder, live, cut, pc, req, lock, now, start, end, confirmed>>
  BY <1>2 DEF entryVars, callVars, periodVars
<1>4. compiled' \in 0 .. hour' /\ \A h \in priced' : h \in 0 .. compiled' - 1
  <2>1. hour \in Nat /\ compiled \in Nat
    BY <1>1 DEF WorldTypes
  <2>2. ASSUME NEW h \in priced' PROVE h \in 0 .. compiled' - 1
    <3>1. h \in 0 .. compiled - 1 \/ h = compiled
      BY <1>1, <1>2 DEF WorldTypes
    <3> QED
      BY <1>2, <2>1, <3>1
  <2> QED
    BY <1>2, <2>1, <2>2
<1>5. WorldTypes'
  BY <1>1, <1>2, <1>4 DEF WorldTypes
<1>6. EntryTypes' /\ RestTypes' /\ CallTypes'
  BY <1>1, <1>2, <1>3 DEF EntryTypes, RestTypes, CallTypes, Running
<1> QED
  BY <1>5, <1>6, TypesAre

(* What the clock, a meter and the loads of the entry do. *)
LEMMA TickIs ==
    ASSUME TypeOK, Tick
    PROVE  /\ UNCHANGED <<compiled, level, energy, priced, cost, queue, entryVars, callVars>>
           /\ compiled = hour /\ hour < MaxHour /\ hour' = hour + 1
           /\ at' \in [Appliances -> [0 .. MaxHour -> Nat]]
           /\ \A a \in Appliances :
                 /\ at'[a][hour + 1] = level[a]
                 /\ \A h \in 0 .. hour : at'[a][h] = at[a][h]
<1>1. /\ UNCHANGED <<compiled, level, energy, priced, cost, queue, entryVars, callVars>>
      /\ compiled = hour /\ hour < MaxHour /\ hour' = hour + 1
      /\ at' = [a \in Appliances |-> [at[a] EXCEPT ![hour + 1] = level[a]]]
  BY DEF Tick
<1>2. /\ level \in [Appliances -> Nat] /\ at \in [Appliances -> [0 .. MaxHour -> Nat]]
      /\ hour \in 1 .. MaxHour /\ MaxHour \in Nat
  BY ImportAssumption DEF TypeOK, ImportAssumption
<1>3. hour + 1 \in 0 .. MaxHour /\ \A h \in 0 .. hour : h \in 0 .. MaxHour /\ h # hour + 1
  BY <1>1, <1>2
<1>4. ASSUME NEW a \in Appliances
      PROVE  /\ at'[a] \in [0 .. MaxHour -> Nat] /\ at'[a][hour + 1] = level[a]
             /\ \A h \in 0 .. hour : at'[a][h] = at[a][h]
  <2>1. at'[a] = [at[a] EXCEPT ![hour + 1] = level[a]]
    BY <1>1
  <2>2. at[a] \in [0 .. MaxHour -> Nat] /\ level[a] \in Nat
    BY <1>2
  <2> QED
    BY <1>3, <2>1, <2>2
<1>5. at' \in [Appliances -> [0 .. MaxHour -> Nat]]
  BY <1>1, <1>4
<1> QED
  BY <1>1, <1>4, <1>5

LEMMA TypeOfTick ==
    ASSUME ImportInv, Tick
    PROVE  TypeOK'
<1>1. WorldTypes /\ EntryTypes /\ RestTypes /\ CallTypes
  BY TypesAre DEF ImportInv
<1>2. /\ UNCHANGED <<compiled, level, energy, priced, cost, queue, entryVars, callVars>>
      /\ compiled = hour /\ hour < MaxHour /\ hour' = hour + 1
      /\ at' \in [Appliances -> [0 .. MaxHour -> Nat]]
  BY TickIs DEF ImportInv
<1>3. UNCHANGED <<loaded, gen, holder, live, cut, pc, req, lock, now, start, end, confirmed>>
  BY <1>2 DEF entryVars, callVars, periodVars
<1>4. hour' \in 1 .. MaxHour /\ compiled' \in 0 .. hour'
  BY <1>1, <1>2, ImportAssumption DEF WorldTypes, ImportAssumption
<1>5. WorldTypes'
  BY <1>1, <1>2, <1>4 DEF WorldTypes
<1>6. EntryTypes' /\ RestTypes' /\ CallTypes'
  BY <1>1, <1>2, <1>3 DEF EntryTypes, RestTypes, CallTypes, Running
<1> QED
  BY <1>5, <1>6, TypesAre

LEMMA TypeOfConsume ==
    ASSUME ImportInv, NEW a \in Appliances, Consume(a)
    PROVE  TypeOK'
<1>1. WorldTypes /\ EntryTypes /\ RestTypes /\ CallTypes
  BY TypesAre DEF ImportInv
<1>2. /\ level' = [level EXCEPT ![a] = level[a] + 1] /\ live' = [live EXCEPT ![a] = live[a] + 1]
      /\ UNCHANGED <<hour, compiled, at, energy, priced, cost, queue, loaded, gen, holder, cut>>
      /\ UNCHANGED <<pc, req, lock, now, start, end, confirmed>>
  BY <1>1 DEF Consume, callVars, periodVars
<1>3. WorldTypes' /\ EntryTypes'
  BY <1>1, <1>2 DEF WorldTypes, EntryTypes
<1>4. RestTypes' /\ CallTypes'
  BY <1>1, <1>2 DEF RestTypes, CallTypes, Running
<1> QED
  BY <1>3, <1>4, TypesAre

LEMMA TypeOfLoad ==
    ASSUME ImportInv, UnloadEntry \/ SetupEntry
    PROVE  TypeOK'
<1>1. WorldTypes /\ EntryTypes /\ RestTypes /\ CallTypes
  BY TypesAre DEF ImportInv
<1>2. /\ UNCHANGED <<hour, compiled, level, at, energy, priced, cost, queue, holder, live, cut>>
      /\ UNCHANGED <<pc, req, lock, now, start, end, confirmed>>
  BY DEF UnloadEntry, SetupEntry, worldVars, callVars, periodVars
<1>3. loaded' \in BOOLEAN /\ gen' \in 1 .. MaxGen
  <2>1. CASE UnloadEntry
    BY <1>1, <2>1 DEF UnloadEntry, EntryTypes
  <2>2. CASE SetupEntry
    BY <1>1, <2>2, ImportAssumption DEF SetupEntry, EntryTypes, ImportInv, LockInv, ImportAssumption
  <2> QED
    BY <2>1, <2>2
<1>4. WorldTypes' /\ EntryTypes' /\ RestTypes' /\ CallTypes'
  BY <1>1, <1>2, <1>3 DEF WorldTypes, EntryTypes, RestTypes, CallTypes, Running
<1> QED
  BY <1>4, TypesAre

LEMMA TypeStep ==
    ASSUME ImportInv, [Next]_vars
    PROVE  TypeOK'
<1>1. CASE \E c \in Calls : Step(c) \/ \E r \in Requests : HandleImport(c, r)
  BY <1>1, TypeOfHandle, TypeOfResolvePeriod, TypeOfResolveStart, TypeOfReads, TypeOfCompute,
     TypeOfBlock, TypeOfVerify DEF Step
<1>2. CASE RunTask \/ CompileHour \/ Tick \/ UnloadEntry \/ SetupEntry
           \/ \E a \in Appliances : Consume(a)
  BY <1>2, TypeOfTask, TypeOfCompile, TypeOfTick, TypeOfLoad, TypeOfConsume
<1>3. CASE UNCHANGED vars
  BY <1>3 DEF vars, worldVars, entryVars, callVars, periodVars, ImportInv, TypeOK, Running
<1> QED
  BY <1>1, <1>2, <1>3 DEF Next

-----------------------------------------------------------------------------
(* The world: the clock, the meters and the recorder.                       *)

(* A task that lands writes its call's points, and nothing else. *)
LEMMA ImportIs ==
    ASSUME ImportInv, queue # <<>>, ~ IsFence(Head(queue)), Import(Head(queue)),
           NEW c, c = Head(queue).call, NEW a, a = Head(queue).appliance
    PROVE  /\ c \in Calls /\ a \in Selected(c) /\ a \in Appliances /\ HasTask(c)
           /\ \A h \in DOMAIN points[c][a] :
                 /\ h \in Hours /\ start[c] <= h /\ h < compiled /\ points[c][a][h] \in Int
                 /\ cost'[a][h] = [by |-> c, sum |-> points[c][a][h]]
           /\ \A b \in Appliances : \A h \in Hours :
                 b # a \/ h \notin DOMAIN points[c][a] => cost'[b][h] = cost[b][h]
<1>1. Head(queue) = queue[1] /\ 1 \in DOMAIN queue /\ Head(queue) \in Task
  BY TaskIs DEF ImportInv
<1>2. c \in Calls /\ a \in Selected(c) /\ a \in Appliances /\ HasTask(c)
  BY <1>1 DEF Task, IsFence, ImportInv, QueueInv, HasTask
<1>3. \A h \in DOMAIN points[c][a] :
         h \in Hours /\ start[c] <= h /\ h < compiled /\ points[c][a][h] \in Int
  BY <1>2 DEF ImportInv, CallInv, HasRows
<1>4. cost \in [Appliances -> [Hours -> CostRow \cup {None}]]
  BY DEF ImportInv, TypeOK, Rows
<1>5. cost' = [cost EXCEPT ![a] = [h \in Hours |-> IF h \in DOMAIN points[c][a]
                                                   THEN [by |-> c, sum |-> points[c][a][h]]
                                                   ELSE cost[a][h]]]
  BY <1>2, <1>4 DEF Import
<1> QED
  BY <1>2, <1>3, <1>4, <1>5

LEMMA NumbersAre ==
    ASSUME TypeOK
    PROVE  /\ hour \in Int /\ 1 <= hour /\ hour <= MaxHour /\ MaxHour \in Int
           /\ compiled \in Int /\ 0 <= compiled /\ compiled <= hour
           /\ \A h \in Hours : h \in Int /\ 0 <= h /\ h < MaxHour
           /\ \A a \in Appliances : level[a] \in Nat /\ live[a] \in Int
           /\ \A a \in Appliances : \A h \in 0 .. hour : at[a][h] \in Nat
<1>1. /\ hour \in 1 .. MaxHour /\ compiled \in 0 .. hour /\ MaxHour \in Nat
      /\ level \in [Appliances -> Nat] /\ live \in [Appliances -> Int]
      /\ at \in [Appliances -> [0 .. MaxHour -> Nat]]
  BY ImportAssumption DEF TypeOK, ImportAssumption
<1>2. \A h \in 0 .. hour : h \in 0 .. MaxHour
  BY <1>1
<1> QED
  BY <1>1, <1>2 DEF Hours

LEMMA WorldSame ==
    ASSUME WorldInv, UNCHANGED <<worldVars, cost>>
    PROVE  WorldInv'
BY DEF WorldInv, worldVars, Tells

LEMMA WorldStep ==
    ASSUME ImportInv, [Next]_vars
    PROVE  WorldInv'
<1>1. CASE \E c \in Calls : CallStep(c)
  BY <1>1, CallStepFrame, WorldSame DEF ImportInv
<1>2. CASE RunTask
  <2>1. UNCHANGED worldVars /\ queue # <<>>
    BY <1>2 DEF RunTask
  <2>2. CASE UNCHANGED cost
    BY <2>1, <2>2, WorldSame DEF ImportInv
  <2>3. CASE ~ IsFence(Head(queue)) /\ Import(Head(queue))
    <3>0. PICK c, a : c = Head(queue).call /\ a = Head(queue).appliance
      OBVIOUS
    <3>1. \A b \in Appliances : \A h \in Hours : h >= compiled => cost'[b][h] = cost[b][h]
      <4>1. /\ \A h \in DOMAIN points[c][a] :
                  /\ h \in Hours /\ start[c] <= h /\ h < compiled /\ points[c][a][h] \in Int
                  /\ cost'[a][h] = [by |-> c, sum |-> points[c][a][h]]
            /\ \A b \in Appliances : \A h \in Hours :
                  b # a \/ h \notin DOMAIN points[c][a] => cost'[b][h] = cost[b][h]
        BY <2>1, <2>3, <3>0, ImportIs
      <4>2. compiled \in Int /\ \A h \in Hours : h \in Int
        BY NumbersAre DEF ImportInv
      <4>3. ASSUME NEW h \in Hours, h >= compiled PROVE h \notin DOMAIN points[c][a]
        <5>1. h \in DOMAIN points[c][a] => h < compiled
          BY <4>1
        <5> QED
          BY <4>2, <4>3, <5>1
      <4> QED
        BY <4>1, <4>3
    <3> QED
      BY <2>1, <3>1 DEF ImportInv, WorldInv, worldVars, Tells
  <2> QED
    BY <1>2, <2>2, <2>3 DEF RunTask, IsFence
<1>3. CASE CompileHour
  <2>1. /\ UNCHANGED <<hour, level, at>> /\ compiled' = compiled + 1 /\ compiled \in Hours
        /\ compiled < hour
        /\ \A a \in Appliances : \A h \in Hours :
              h # compiled => energy'[a][h] = energy[a][h] /\ cost'[a][h] = cost[a][h]
        /\ \A a \in Appliances :
              /\ energy'[a][compiled] = None => at[a][compiled + 1] = at[a][compiled]
              /\ energy'[a][compiled] # None => Tells(energy'[a][compiled], a, compiled)
    BY <1>3, CompileIs
  <2>2. hour \in Int /\ compiled \in Int /\ \A h \in Hours : h \in Int
    BY NumbersAre DEF ImportInv
  <2>a. compiled' = compiled + 1 /\ hour' = hour /\ hour - 1 <= compiled
    BY <2>1 DEF ImportInv, WorldInv
  <2>3. hour' - 1 <= compiled'
    BY <2>2, <2>a
  <2>4. ASSUME NEW a \in Appliances
        PROVE  /\ \A h \in 0 .. hour' - 1 : at'[a][h] <= at'[a][h + 1]
               /\ at'[a][hour'] <= level'[a]
    BY <2>1 DEF ImportInv, WorldInv
  <2>5. ASSUME NEW a \in Appliances, NEW h \in Hours
        PROVE  /\ h >= compiled' => energy'[a][h] = None /\ cost'[a][h] = None
               /\ energy'[a][h] # None => Tells(energy[a][h], a, h)'
               /\ h < compiled' /\ energy'[a][h] = None => at'[a][h + 1] = at'[a][h]
    <3>1. CASE h = compiled
      BY <2>1, <2>2, <3>1 DEF Tells
    <3>2. CASE h # compiled
      <4>1. h >= compiled' => h >= compiled
        BY <2>2, <2>a
      <4>2. h < compiled' => h < compiled
        BY <2>2, <2>a, <3>2
      <4>3. energy'[a][h] = energy[a][h] /\ cost'[a][h] = cost[a][h]
        BY <2>1, <3>2
      <4> QED
        BY <2>1, <4>1, <4>2, <4>3 DEF ImportInv, WorldInv, Tells
    <3> QED
      BY <3>1, <3>2
  <2> QED
    BY <2>3, <2>4, <2>5 DEF WorldInv
<1>4. CASE Tick
  <2>1. /\ UNCHANGED <<compiled, level, energy, cost>>
        /\ compiled = hour /\ hour < MaxHour /\ hour' = hour + 1
        /\ \A a \in Appliances :
              /\ at'[a][hour + 1] = level[a]
              /\ \A h \in 0 .. hour : at'[a][h] = at[a][h]
    BY <1>4, TickIs DEF ImportInv
  <2>2. hour \in Int /\ 1 <= hour /\ compiled \in Int /\ \A h \in Hours : h \in Int /\ 0 <= h
    BY NumbersAre DEF ImportInv
  <2>3. hour' - 1 <= compiled'
    BY <2>1, <2>2
  <2>4. ASSUME NEW a \in Appliances
        PROVE  /\ \A h \in 0 .. hour' - 1 : at'[a][h] <= at'[a][h + 1]
               /\ at'[a][hour'] <= level'[a]
    <3>1. level[a] \in Nat /\ at[a][hour] <= level[a]
      BY DEF ImportInv, TypeOK, WorldInv
    <3>2. ASSUME NEW h \in 0 .. hour' - 1 PROVE at'[a][h] <= at'[a][h + 1]
      <4>1. CASE h = hour
        <5>1. hour \in 0 .. hour
          BY <2>2
        <5> QED
          BY <2>1, <3>1, <4>1, <5>1
      <4>2. CASE h # hour
        <5>1. h \in 0 .. hour - 1 /\ h \in 0 .. hour /\ h + 1 \in 0 .. hour
          BY <2>1, <2>2, <4>2
        <5>2. at[a][h] <= at[a][h + 1]
          BY <5>1 DEF ImportInv, WorldInv
        <5> QED
          BY <2>1, <5>1, <5>2
      <4> QED
        BY <4>1, <4>2
    <3>3. at'[a][hour'] <= level'[a]
      BY <2>1, <3>1
    <3> QED
      BY <3>2, <3>3
  <2>5. ASSUME NEW a \in Appliances, NEW h \in Hours
        PROVE  /\ h >= compiled' => energy'[a][h] = None /\ cost'[a][h] = None
               /\ energy'[a][h] # None => Tells(energy[a][h], a, h)'
               /\ h < compiled' /\ energy'[a][h] = None => at'[a][h + 1] = at'[a][h]
    <3>1. /\ h >= compiled => energy[a][h] = None /\ cost[a][h] = None
          /\ energy[a][h] # None => Tells(energy[a][h], a, h)
          /\ h < compiled /\ energy[a][h] = None => at[a][h + 1] = at[a][h]
      BY DEF ImportInv, WorldInv
    <3>2. CASE h >= compiled
      BY <2>1, <2>2, <3>1, <3>2
    <3>3. CASE h < compiled
      <4>1. h \in 0 .. hour /\ h + 1 \in 0 .. hour
        BY <2>1, <2>2, <3>3
      <4>2. at'[a][h] = at[a][h] /\ at'[a][h + 1] = at[a][h + 1]
        BY <2>1, <4>1
      <4> QED
        BY <2>1, <2>2, <3>1, <3>3, <4>2 DEF Tells
    <3> QED
      BY <2>2, <3>2, <3>3
  <2> QED
    BY <2>3, <2>4, <2>5 DEF WorldInv
<1>5. CASE \E a \in Appliances : Consume(a)
  <2>1. PICK a \in Appliances : Consume(a)
    BY <1>5
  <2>2. /\ UNCHANGED <<hour, compiled, at, energy, cost>>
        /\ level' = [level EXCEPT ![a] = level[a] + 1]
    BY <2>1 DEF Consume, ImportInv, TypeOK
  <2>3. \A b \in Appliances : at[b][hour] <= level'[b]
    <3>1. \A b \in Appliances : level[b] \in Nat /\ at[b][hour] \in Nat /\ at[b][hour] <= level[b]
      <4>1. hour \in 0 .. hour
        BY NumbersAre DEF ImportInv
      <4> QED
        BY <4>1, NumbersAre DEF ImportInv, WorldInv
    <3>2. \A b \in Appliances : level'[b] = level[b] \/ level'[b] = level[b] + 1
      BY <2>2 DEF ImportInv, TypeOK
    <3> QED
      BY <3>1, <3>2
  <2> QED
    BY <2>2, <2>3 DEF ImportInv, WorldInv, Tells
<1>6. CASE UnloadEntry \/ SetupEntry \/ UNCHANGED vars
  <2>1. UNCHANGED <<worldVars, cost>>
    BY <1>6 DEF UnloadEntry, SetupEntry, vars, worldVars
  <2> QED
    BY <2>1, WorldSame DEF ImportInv
<1> QED
  BY <1>1, <1>2, <1>3, <1>4, <1>5, <1>6 DEF Next, CallStep

-----------------------------------------------------------------------------
(* The lock.                                                                *)

(* A call that may take or hold its load's lock ends holding it, or not     *)
(* running; the holders of other loads' locks stay.                         *)
LEMMA LockPasses ==
    ASSUME TypeOK, LockInv, NEW c \in Calls, pc[c] # "idle", holder[lock[c]] \in {None, c},
           NEW v, v = c \/ (v = None /\ ~ Running(c)'),
           holder' = [holder EXCEPT ![lock[c]] = v], pc'[c] # "idle",
           \A d \in Calls : d # c => pc'[d] = pc[d],
           UNCHANGED <<loaded, gen, req, lock>>
    PROVE  LockInv'
<1>1. /\ ~ loaded => gen < MaxGen
      /\ \A d \in Calls : /\ pc[d] # "idle" => req[d] \in Requests /\ lock[d] \in 1 .. MaxGen
                          /\ Running(d) => holder[lock[d]] = d
                          /\ \A g \in 1 .. MaxGen : holder[g] = d => lock[d] = g
  BY DEF LockInv
<1>2. holder \in [1 .. MaxGen -> Calls \cup {None}]
  BY DEF TypeOK
<1>3. lock[c] \in 1 .. MaxGen
  BY <1>1
<1>n. None \notin Calls
  BY ImportAssumption DEF ImportAssumption
<1>4. ASSUME NEW d \in Calls, d # c
      PROVE  /\ pc'[d] # "idle" => req'[d] \in Requests /\ lock'[d] \in 1 .. MaxGen
             /\ Running(d)' => holder'[lock'[d]] = d
             /\ \A g \in 1 .. MaxGen : holder'[g] = d => lock'[d] = g
  <2>1. Running(d)' => Running(d) /\ pc[d] # "idle"
    BY <1>4 DEF Running
  <2>2. Running(d) => lock[d] # lock[c] /\ lock[d] \in 1 .. MaxGen
    BY <1>1, <1>4, <1>n DEF Running
  <2>3. Running(d)' => holder'[lock'[d]] = d
    BY <1>1, <1>2, <2>1, <2>2
  <2>4. \A g \in 1 .. MaxGen : holder'[g] = d => holder[g] = d
    BY <1>2, <1>4, <1>n
  <2> QED
    BY <1>1, <1>4, <2>3, <2>4
<1>5. /\ pc'[c] # "idle" => req'[c] \in Requests /\ lock'[c] \in 1 .. MaxGen
      /\ Running(c)' => holder'[lock'[c]] = c
      /\ \A g \in 1 .. MaxGen : holder'[g] = c => lock'[c] = g
  BY <1>1, <1>2, <1>3
<1> QED
  BY <1>1, <1>4, <1>5 DEF LockInv

LEMMA LockOver ==
    ASSUME TypeOK, LockInv, Domains, NEW c \in Calls, pc[c] # "idle",
           holder[lock[c]] \in {None, c}, NEW how \in {"done", "failed"}, Over(c, how),
           UNCHANGED <<loaded, gen, req, lock>>
    PROVE  LockInv'
<1>1. /\ \A d \in Calls : d # c => pc'[d] = pc[d]
      /\ pc'[c] = how
  BY DomainsAre, OverKeeps
<1>2. holder' = [holder EXCEPT ![lock[c]] = None]
  BY DEF Over
<1> QED
  BY <1>1, <1>2, LockPasses DEF Running

LEMMA LockChoose ==
    ASSUME TypeOK, LockInv, Domains, NEW c \in Calls, pc[c] # "idle",
           holder[lock[c]] \in {None, c}, NEW from, NEW to, NEW at_hour,
           ChoosePeriod(c, from, to, at_hour),
           UNCHANGED <<loaded, gen, req, lock>>
    PROVE  LockInv'
<1>1. CASE Over(c, "failed")
  BY <1>1, LockOver
<1>2. CASE pc' = [pc EXCEPT ![c] = "resolved"] /\ holder' = [holder EXCEPT ![lock[c]] = c]
  <2>1. DOMAIN pc = Calls
    BY DEF TypeOK
  <2>2. pc'[c] # "idle" /\ \A d \in Calls : d # c => pc'[d] = pc[d]
    BY <1>2, <2>1
  <2> QED
    BY <1>2, <2>2, LockPasses
<1> QED
  BY <1>1, <1>2 DEF ChoosePeriod

(* Steps that change the stage of one running call at most. *)
LEMMA LockStays ==
    ASSUME TypeOK, LockInv,
           UNCHANGED <<holder, req, lock>>, ~ loaded' => gen' < MaxGen,
           \A d \in Calls : pc'[d] = pc[d] \/ (Running(d) /\ Running(d)')
    PROVE  LockInv'
BY DEF LockInv, Running

LEMMA LockStep ==
    ASSUME ImportInv, [Next]_vars
    PROVE  LockInv'
<1> USE DEF ImportInv
<1>a. DOMAIN pc = Calls /\ DOMAIN req = Calls /\ DOMAIN lock = Calls /\ gen \in 1 .. MaxGen
      /\ (~ loaded => gen < MaxGen)
  BY DEF TypeOK, LockInv
<1>b. \A c \in Calls : Running(c) => pc[c] # "idle" /\ holder[lock[c]] = c
  BY DEF LockInv, Running
<1>1. ASSUME NEW c \in Calls, NEW r \in Requests, HandleImport(c, r)
      PROVE  LockInv'
  <2>1. /\ pc[c] = "idle" /\ pc' = [pc EXCEPT ![c] = "waiting"]
        /\ req' = [req EXCEPT ![c] = r] /\ lock' = [lock EXCEPT ![c] = gen]
        /\ UNCHANGED <<holder, loaded, gen>>
    BY <1>1 DEF HandleImport, entryVars
  <2>2. \A g \in 1 .. MaxGen : holder[g] # c
    <3>1. ~ Running(c)
      BY <2>1 DEF Running
    <3>2. c # None
      BY ImportAssumption DEF ImportAssumption
    <3>3. \A g \in 1 .. MaxGen : holder[g] = None \/ Running(holder[g])
      BY DEF TypeOK
    <3> QED
      BY <3>1, <3>2, <3>3
  <2>3. \A d \in Calls : d # c => /\ pc'[d] = pc[d] /\ req'[d] = req[d] /\ lock'[d] = lock[d]
    BY <1>a, <2>1
  <2>4. pc'[c] = "waiting" /\ req'[c] = r /\ lock'[c] = gen
    BY <1>a, <2>1
  <2> QED
    BY <1>a, <2>1, <2>2, <2>3, <2>4 DEF LockInv, Running
<1>2. ASSUME NEW c \in Calls, ResolvePeriod(c)
      PROVE  LockInv'
  <2>1. pc[c] = "waiting" /\ holder[lock[c]] = None /\ UNCHANGED <<loaded, gen, req, lock>>
    BY <1>2 DEF ResolvePeriod, TakeLock
  <2>2. CASE req[c].start # None
    BY <1>2, <2>1, <2>2, LockChoose DEF ResolvePeriod, TakeLock
  <2>3. CASE req[c].start = None
    <3>1. pc' = [pc EXCEPT ![c] = "resolving"] /\ holder' = [holder EXCEPT ![lock[c]] = c]
      BY <1>2, <2>3 DEF ResolvePeriod, TakeLock
    <3>2. pc'[c] # "idle" /\ \A d \in Calls : d # c => pc'[d] = pc[d]
      BY <1>a, <3>1
    <3> QED
      BY <2>1, <3>1, <3>2, LockPasses
  <2> QED
    BY <2>2, <2>3
<1>3. ASSUME NEW c \in Calls, ResolveStart(c)
      PROVE  LockInv'
  <2>1. pc[c] = "resolving" /\ UNCHANGED <<loaded, gen, req, lock>>
    BY <1>3 DEF ResolveStart
  <2>2. holder[lock[c]] = c
    BY <1>b, <2>1 DEF Running
  <2>3. \/ Over(c, "failed")
        \/ \E first : ChoosePeriod(c, first, End(c, now[c]), now[c])
    BY <1>3 DEF ResolveStart
  <2> QED
    BY <2>1, <2>2, <2>3, LockOver, LockChoose
<1>4. ASSUME NEW c \in Calls,
             ReadSources(c) \/ ReadCosts(c) \/ BlockTillDone(c) \/ ReadBack(c)
      PROVE  LockInv'
  <2>1. /\ UNCHANGED <<holder, loaded, gen, req, lock>> /\ Running(c)
        /\ \E how \in {"sources read", "read", "blocked", "read back"} :
              pc' = [pc EXCEPT ![c] = how]
    BY <1>4 DEF ReadSources, ReadCosts, BlockTillDone, ReadBack, entryVars, Running
  <2>2. \A d \in Calls : pc'[d] = pc[d] \/ (Running(d) /\ Running(d)')
    BY <1>a, <2>1 DEF Running
  <2> QED
    BY <1>a, <2>1, <2>2, LockStays
<1>5. ASSUME NEW c \in Calls, ComputeAndQueue(c)
      PROVE  LockInv'
  <2>1. CASE Gates(c)
    <3>1. /\ UNCHANGED <<holder, loaded, gen, req, lock>>
          /\ pc[c] = "read" /\ pc' = [pc EXCEPT ![c] = "queued"]
      BY <1>5, <2>1, QueuedRows
    <3>2. \A d \in Calls : pc'[d] = pc[d] \/ (Running(d) /\ Running(d)')
      BY <1>a, <3>1 DEF Running
    <3> QED
      BY <1>a, <3>1, <3>2, LockStays
  <2>2. CASE ~ Gates(c)
    <3>1. pc[c] = "read" /\ Over(c, "failed") /\ UNCHANGED <<loaded, gen, req, lock>>
      BY <1>5, <2>2 DEF ComputeAndQueue
    <3> QED
      BY <1>b, <3>1, LockOver DEF Running
  <2> QED
    BY <2>1, <2>2
<1>6. ASSUME NEW c \in Calls, VerifyAndCalibrate(c)
      PROVE  LockInv'
  <2>1. /\ pc[c] = "read back" /\ UNCHANGED <<loaded, gen, req, lock>>
        /\ Over(c, "failed") \/ Over(c, "done")
    BY <1>6 DEF VerifyAndCalibrate
  <2> QED
    BY <1>b, <2>1, LockOver DEF Running
<1>7. CASE RunTask
  <2>1. UNCHANGED <<holder, loaded, gen, req, lock>> /\ queue # <<>>
    BY <1>7 DEF RunTask, entryVars
  <2>2. \A d \in Calls : pc'[d] = pc[d] \/ (Running(d) /\ Running(d)')
    <3>1. CASE IsFence(Head(queue))
      <4>1. pc' = [pc EXCEPT ![Head(queue).call] = "passed"]
        BY <1>7, <3>1 DEF RunTask, IsFence
      <4>2. pc[Head(queue).call] = "blocked"
        BY <2>1, <3>1, TaskIs DEF QueueInv
      <4> QED
        BY <1>a, <4>1, <4>2 DEF Running
    <3>2. CASE ~ IsFence(Head(queue))
      BY <1>7, <3>2 DEF RunTask, IsFence
    <3> QED
      BY <3>1, <3>2
  <2> QED
    BY <1>a, <2>1, <2>2, LockStays
<1>8. CASE CompileHour \/ Tick \/ \E a \in Appliances : Consume(a)
  <2>1. UNCHANGED <<holder, loaded, gen, req, lock, pc>>
    BY <1>8 DEF CompileHour, Tick, Consume, entryVars, callVars
  <2> QED
    BY <1>a, <2>1, LockStays
<1>9. CASE UnloadEntry \/ SetupEntry \/ UNCHANGED vars
  <2>1. UNCHANGED <<holder, req, lock, pc>>
    BY <1>9 DEF UnloadEntry, SetupEntry, vars, entryVars, callVars
  <2>2. ~ loaded' => gen' < MaxGen
    BY <1>9, <1>a DEF UnloadEntry, SetupEntry, vars, entryVars
  <2> QED
    BY <2>1, <2>2, LockStays
<1> QED
  BY <1>1, <1>2, <1>3, <1>4, <1>5, <1>6, <1>7, <1>8, <1>9 DEF Next, Step

-----------------------------------------------------------------------------
(* The queue.                                                               *)

Behind == Posted \cup {"done", "failed"}

LEMMA TasksAre ==
    ASSUME TypeOK
    PROVE  /\ queue \in Seq(Task) /\ Len(queue) \in Nat /\ DOMAIN queue = 1 .. Len(queue)
           /\ \A i \in DOMAIN queue : /\ queue[i] \in Task /\ queue[i].call \in Calls
                                      /\ queue[i].appliance \in Appliances \cup {None}
<1>1. queue \in Seq(Task)
  BY DEF TypeOK, Task
<1>2. \A i \in DOMAIN queue : queue[i] \in Task
  BY <1>1
<1> QED
  BY <1>1, <1>2 DEF Task

LEMMA SelectedIs ==
    ASSUME LockInv, NEW c \in Calls, pc[c] # "idle"
    PROVE  Selected(c) \subseteq Appliances /\ None \notin Selected(c) /\ req[c] \in RequestType
<1>1. req[c] \in RequestType
  BY ImportAssumption DEF LockInv, ImportAssumption
<1> QED
  BY <1>1, ImportAssumption DEF ImportAssumption, RequestType, Selected

(* A queue that stays is in order if no call with a task goes back. *)
LEMMA QueueSame ==
    ASSUME TypeOK, QueueInv, UNCHANGED queue,
           \A d \in Calls : /\ pc[d] = "blocked" => pc'[d] = "blocked"
                            /\ pc[d] \in Behind => pc'[d] \in Behind /\ req'[d] = req[d]
    PROVE  QueueInv'
<1>1. \A i \in DOMAIN queue : queue[i].call \in Calls
  BY TasksAre
<1>2. \A d \in Calls : pc[d] \in Behind => Selected(d)' = Selected(d)
  BY DEF Selected
<1> QED
  BY <1>1, <1>2 DEF QueueInv, Behind, IsFence

LEMMA QueueOfCompute ==
    ASSUME ImportInv, NEW c \in Calls, ComputeAndQueue(c), Gates(c)
    PROVE  QueueInv'
<1>1. /\ UNCHANGED req /\ pc[c] = "read" /\ pc' = [pc EXCEPT ![c] = "queued"]
  BY QueuedRows
<1>2. PICK new \in Seq(Task) :
         /\ queue' = queue \o new
         /\ \A i \in DOMAIN new : new[i].call = c /\ new[i].appliance \in Selected(c)
  BY QueuedRows
<1>3. queue \in Seq(Task) /\ \A i \in DOMAIN queue : queue[i].call \in Calls
  BY TasksAre DEF ImportInv
<1>4. /\ DOMAIN queue' = 1 .. Len(queue) + Len(new)
      /\ DOMAIN queue = 1 .. Len(queue) /\ DOMAIN new = 1 .. Len(new)
      /\ Len(queue) \in Nat /\ Len(new) \in Nat
      /\ \A i \in 1 .. Len(queue) : queue'[i] = queue[i]
      /\ \A i \in 1 .. Len(new) : queue'[Len(queue) + i] = new[i]
  BY <1>2, <1>3
<1>5. \A i \in DOMAIN queue' : (i \in DOMAIN queue /\ queue'[i] = queue[i])
                               \/ (queue'[i].call = c /\ queue'[i].appliance \in Selected(c))
  <2>1. ASSUME NEW i \in DOMAIN queue', i \notin DOMAIN queue
        PROVE  queue'[i].call = c /\ queue'[i].appliance \in Selected(c)
    <3>1. i - Len(queue) \in 1 .. Len(new) /\ i = Len(queue) + (i - Len(queue))
      BY <1>4, <2>1
    <3>2. queue'[i] = new[i - Len(queue)]
      BY <1>4, <3>1
    <3> QED
      BY <1>2, <1>4, <3>1, <3>2
  <2> QED
    BY <1>4, <2>1
<1>6. None \notin Selected(c)
  BY <1>1, SelectedIs DEF ImportInv
<1>7. \A d \in Calls : /\ d # c => pc'[d] = pc[d]
                       /\ Selected(d)' = Selected(d)
  BY <1>1 DEF ImportInv, TypeOK, Selected
<1>8. pc'[c] = "queued"
  BY <1>1 DEF ImportInv, TypeOK
<1>9. ASSUME NEW i \in DOMAIN queue'
      PROVE  IF IsFence(queue'[i]) THEN pc'[queue'[i].call] = "blocked"
             ELSE /\ pc'[queue'[i].call] \in Posted \cup {"done", "failed"}
                  /\ queue'[i].appliance \in Selected(queue[i].call)'
  <2>1. CASE i \in DOMAIN queue /\ queue'[i] = queue[i]
    <3>1. /\ IF IsFence(queue[i]) THEN pc[queue[i].call] = "blocked"
             ELSE /\ pc[queue[i].call] \in Posted \cup {"done", "failed"}
                  /\ queue[i].appliance \in Selected(queue[i].call)
          /\ queue[i].call \in Calls
      BY <1>3, <2>1 DEF ImportInv, QueueInv
    <3>2. queue[i].call # c
      BY <1>1, <3>1 DEF Posted
    <3>3. pc'[queue[i].call] = pc[queue[i].call]
      BY <1>7, <3>1, <3>2
    <3>4. Selected(queue[i].call)' = Selected(queue[i].call)
      BY <1>1, <2>1 DEF Selected
    <3> QED
      BY <2>1, <3>1, <3>3, <3>4
  <2>2. CASE queue'[i].call = c /\ queue'[i].appliance \in Selected(c)
    <3>1. Selected(queue[i].call)' = Selected(c)
      BY <1>1, <2>2 DEF Selected
    <3> QED
      BY <1>6, <1>8, <2>2, <3>1 DEF IsFence, Posted
  <2> QED
    BY <1>5, <2>1, <2>2
<1>10. ASSUME NEW i \in DOMAIN queue', NEW j \in DOMAIN queue',
              IsFence(queue'[i]), IsFence(queue'[j]), queue'[i].call = queue'[j].call
       PROVE  i = j
  BY <1>5, <1>6, <1>10 DEF IsFence, ImportInv, QueueInv
<1> QED
  BY <1>9, <1>10 DEF QueueInv, IsFence

LEMMA QueueOfBlock ==
    ASSUME ImportInv, NEW c \in Calls, BlockTillDone(c)
    PROVE  QueueInv'
<1> DEFINE fence == [call |-> c, appliance |-> None]
<1>1. /\ UNCHANGED req /\ pc[c] = "queued" /\ pc' = [pc EXCEPT ![c] = "blocked"]
      /\ queue' = Append(queue, fence)
  BY DEF BlockTillDone
<1>2. queue \in Seq(Task) /\ \A i \in DOMAIN queue : queue[i].call \in Calls
  BY TasksAre DEF ImportInv
<1>3. fence \in Task /\ fence.call = c /\ IsFence(fence)
  BY DEF Task, IsFence
<1> HIDE DEF fence
<1>4. /\ DOMAIN queue' = 1 .. Len(queue) + 1 /\ DOMAIN queue = 1 .. Len(queue)
      /\ Len(queue) \in Nat /\ queue'[Len(queue) + 1] = fence
      /\ \A i \in 1 .. Len(queue) : queue'[i] = queue[i]
  BY <1>1, <1>2, <1>3
<1>5. \A i \in DOMAIN queue' : \/ i \in DOMAIN queue /\ queue'[i] = queue[i]
                               \/ i = Len(queue) + 1 /\ queue'[i] = fence
  BY <1>4
<1>6. \A d \in Calls : d # c => pc'[d] = pc[d]
  BY <1>1 DEF ImportInv, TypeOK
<1>7. pc'[c] = "blocked"
  BY <1>1 DEF ImportInv, TypeOK
<1>8. \A i \in DOMAIN queue : IsFence(queue[i]) => queue[i].call # c
  BY <1>1 DEF ImportInv, QueueInv
<1>9. ASSUME NEW i \in DOMAIN queue'
      PROVE  IF IsFence(queue'[i]) THEN pc'[queue'[i].call] = "blocked"
             ELSE /\ pc'[queue'[i].call] \in Posted \cup {"done", "failed"}
                  /\ queue'[i].appliance \in Selected(queue[i].call)'
  <2>1. CASE i \in DOMAIN queue /\ queue'[i] = queue[i]
    <3>1. /\ IF IsFence(queue[i]) THEN pc[queue[i].call] = "blocked"
             ELSE /\ pc[queue[i].call] \in Posted \cup {"done", "failed"}
                  /\ queue[i].appliance \in Selected(queue[i].call)
          /\ queue[i].call \in Calls
      BY <1>2, <2>1 DEF ImportInv, QueueInv
    <3>2. Selected(queue[i].call)' = Selected(queue[i].call)
      BY <1>1, <2>1 DEF Selected
    <3>3. CASE queue[i].call = c
      BY <1>7, <1>8, <2>1, <3>1, <3>2, <3>3 DEF Posted
    <3>4. CASE queue[i].call # c
      BY <1>6, <2>1, <3>1, <3>2, <3>4
    <3> QED
      BY <3>3, <3>4
  <2>2. CASE queue'[i] = fence
    BY <1>3, <1>7, <2>2
  <2> QED
    BY <1>5, <2>1, <2>2
<1>10. ASSUME NEW i \in DOMAIN queue', NEW j \in DOMAIN queue',
              IsFence(queue'[i]), IsFence(queue'[j]), queue'[i].call = queue'[j].call
       PROVE  i = j
  BY <1>3, <1>5, <1>8, <1>10 DEF ImportInv, QueueInv
<1> QED
  BY <1>9, <1>10 DEF QueueInv, IsFence

(* The tasks left behind are those that were there, one of them last perhaps. *)
LEMMA TasksLeft ==
    ASSUME TypeOK, queue # <<>>,
           \/ queue' = Tail(queue)
           \/ queue' = Append(Tail(queue), Head(queue))
    PROVE  /\ queue' = Tail(queue) => \A i \in DOMAIN queue' :
                  i + 1 \in DOMAIN queue /\ i + 1 # 1 /\ queue'[i] = queue[i + 1]
           /\ \E f : /\ \A i \in DOMAIN queue' : f[i] \in DOMAIN queue /\ queue'[i] = queue[f[i]]
                     /\ \A i, j \in DOMAIN queue' : f[i] = f[j] => i = j
<1>1. /\ Head(queue) = queue[1] /\ 1 \in DOMAIN queue /\ Head(queue) \in Task
      /\ Tail(queue) \in Seq(Task)
      /\ DOMAIN Tail(queue) = 1 .. Len(queue) - 1 /\ DOMAIN queue = 1 .. Len(queue)
      /\ \A i \in DOMAIN Tail(queue) : i + 1 \in DOMAIN queue /\ Tail(queue)[i] = queue[i + 1]
      /\ Len(queue) \in Nat
  BY TaskIs, TasksAre
<1>2. CASE queue' = Tail(queue)
  <2> DEFINE f == [i \in DOMAIN queue' |-> i + 1]
  <2>1. /\ \A i \in DOMAIN queue' : f[i] \in DOMAIN queue /\ queue'[i] = queue[f[i]] /\ i + 1 # 1
        /\ \A i, j \in DOMAIN queue' : f[i] = f[j] => i = j
    BY <1>1, <1>2
  <2>2. \A i \in DOMAIN queue' : i + 1 \in DOMAIN queue /\ i + 1 # 1 /\ queue'[i] = queue[i + 1]
    BY <1>1, <1>2
  <2> HIDE DEF f
  <2> QED
    BY <2>1, <2>2
<1>3. CASE queue' = Append(Tail(queue), Head(queue))
  <2> DEFINE n == Len(queue)
             f == [i \in 1 .. n |-> IF i = n THEN 1 ELSE i + 1]
             rest == Tail(queue)
             head == Head(queue)
  <2>1. rest \in Seq(Task) /\ head \in Task /\ DOMAIN rest = 1 .. n - 1 /\ n \in Nat /\ n # 0
    BY <1>1
  <2>2. queue' = Append(rest, head)
    BY <1>3
  <2> HIDE DEF rest, head, n
  <2>3. Len(rest) = n - 1
    BY <2>1
  <2>4. /\ DOMAIN queue' = 1 .. n /\ queue'[n] = head
        /\ \A i \in 1 .. n - 1 : queue'[i] = rest[i]
    BY <2>1, <2>2, <2>3
  <2>5. ASSUME NEW i \in DOMAIN queue'
        PROVE  f[i] \in DOMAIN queue /\ queue'[i] = queue[f[i]]
    <3>1. CASE i = n
      BY <1>1, <2>4, <3>1 DEF head
    <3>2. CASE i # n
      <4>1. i \in 1 .. n - 1 /\ f[i] = i + 1
        BY <2>1, <2>4, <3>2
      <4>2. i \in DOMAIN rest
        BY <2>1, <4>1
      <4> QED
        BY <1>1, <2>4, <4>1, <4>2 DEF rest
    <3> QED
      BY <3>1, <3>2
  <2>6. \A i, j \in DOMAIN queue' : f[i] = f[j] => i = j
    BY <2>1, <2>4
  <2>7. queue' # Tail(queue)
    <3>1. DOMAIN queue' # DOMAIN rest
      BY <2>1, <2>4
    <3> QED
      BY <3>1 DEF rest
  <2> HIDE DEF f
  <2> QED
    BY <2>5, <2>6, <2>7
<1> QED
  BY <1>2, <1>3

(* What the recorder does with the task at the head. *)
LEMMA RunTaskIs ==
    ASSUME ImportInv, RunTask
    PROVE  /\ queue # <<>> /\ UNCHANGED <<worldVars, entryVars, req, lock, periodVars, seen, found>>
           /\ UNCHANGED <<points, confirmed>>
           /\ Head(queue) = queue[1] /\ 1 \in DOMAIN queue /\ Head(queue).call \in Calls
           /\ queue' = Tail(queue) \/ queue' = Append(Tail(queue), Head(queue))
           /\ IF IsFence(Head(queue))
              THEN /\ queue' = Tail(queue) /\ UNCHANGED cost
                   /\ pc[Head(queue).call] = "blocked"
                   /\ pc'[Head(queue).call] = "passed"
                   /\ \A d \in Calls : d # Head(queue).call => pc'[d] = pc[d]
              ELSE /\ UNCHANGED pc
                   /\ (Import(Head(queue)) /\ queue' = Tail(queue)) \/ UNCHANGED cost
                   /\ "retry" \in Faults \/ queue' = Tail(queue)
<1>1. /\ queue # <<>> /\ UNCHANGED <<worldVars, entryVars, req, lock, periodVars, seen, found>>
      /\ UNCHANGED <<points, confirmed>>
  BY DEF RunTask
<1>2. Head(queue) = queue[1] /\ 1 \in DOMAIN queue /\ queue[1].call \in Calls
  BY <1>1, TaskIs, TasksAre DEF ImportInv
<1>3. CASE IsFence(Head(queue))
  <2>1. queue' = Tail(queue) /\ UNCHANGED cost /\ pc' = [pc EXCEPT ![Head(queue).call] = "passed"]
    BY <1>3 DEF RunTask, IsFence
  <2>2. pc[Head(queue).call] = "blocked"
    BY <1>2, <1>3 DEF ImportInv, QueueInv
  <2>3. DOMAIN pc = Calls
    BY DEF ImportInv, TypeOK
  <2> QED
    BY <1>1, <1>2, <1>3, <2>1, <2>2, <2>3
<1>4. CASE ~ IsFence(Head(queue))
  <2>1. /\ UNCHANGED pc
        /\ (Import(Head(queue)) /\ queue' = Tail(queue)) \/ UNCHANGED cost
        /\ "retry" \in Faults \/ queue' = Tail(queue)
        /\ queue' = Tail(queue) \/ queue' = Append(Tail(queue), Head(queue))
    BY <1>4 DEF RunTask, IsFence
  <2> QED
    BY <1>1, <1>2, <1>4, <2>1
<1> QED
  BY <1>3, <1>4

LEMMA QueueOfTask ==
    ASSUME ImportInv, RunTask
    PROVE  QueueInv'
<1> DEFINE c == Head(queue).call
<1>1. /\ queue # <<>> /\ UNCHANGED req /\ c \in Calls
      /\ Head(queue) = queue[1] /\ 1 \in DOMAIN queue
      /\ queue' = Tail(queue) \/ queue' = Append(Tail(queue), Head(queue))
  BY RunTaskIs
<1>2. \A i \in DOMAIN queue :
         /\ queue[i].call \in Calls
         /\ IF IsFence(queue[i]) THEN pc[queue[i].call] = "blocked"
            ELSE /\ pc[queue[i].call] \in Posted \cup {"done", "failed"}
                 /\ queue[i].appliance \in Selected(queue[i].call)
  BY TasksAre DEF ImportInv, QueueInv
<1>3. PICK f : /\ \A i \in DOMAIN queue' : f[i] \in DOMAIN queue /\ queue'[i] = queue[f[i]]
               /\ \A i, j \in DOMAIN queue' : f[i] = f[j] => i = j
  BY <1>1, TasksLeft DEF ImportInv
<1>4. \A i, j \in DOMAIN queue' :
          IsFence(queue'[i]) /\ IsFence(queue'[j]) /\ queue'[i].call = queue'[j].call => i = j
  BY <1>3 DEF ImportInv, QueueInv
<1>5. \A d : Selected(d)' = Selected(d)
  BY <1>1 DEF Selected
<1>6. ASSUME NEW i \in DOMAIN queue'
      PROVE  IF IsFence(queue'[i]) THEN pc'[queue'[i].call] = "blocked"
             ELSE /\ pc'[queue'[i].call] \in Posted \cup {"done", "failed"}
                  /\ queue'[i].appliance \in Selected(queue'[i].call)
  <2>1. CASE ~ IsFence(Head(queue))
    <3>1. pc' = pc
      BY <2>1, RunTaskIs
    <3> QED
      BY <1>2, <1>3, <3>1
  <2>2. CASE IsFence(Head(queue))
    <3>1. /\ queue' = Tail(queue) /\ pc[c] = "blocked" /\ pc'[c] = "passed"
          /\ \A d \in Calls : d # c => pc'[d] = pc[d]
      BY <2>2, RunTaskIs
    <3>2. i + 1 \in DOMAIN queue /\ i + 1 # 1 /\ queue'[i] = queue[i + 1]
      BY <1>1, <3>1, TasksLeft DEF ImportInv
    <3>3. IsFence(queue[i + 1]) => queue[i + 1].call # c
      BY <1>1, <2>2, <3>2 DEF ImportInv, QueueInv
    <3>4. CASE queue[i + 1].call = c
      BY <1>2, <3>1, <3>2, <3>3, <3>4 DEF Posted
    <3>5. CASE queue[i + 1].call # c
      BY <1>2, <3>1, <3>2, <3>5
    <3> QED
      BY <3>4, <3>5
  <2> QED
    BY <2>1, <2>2
<1>7. ASSUME NEW i \in DOMAIN queue'
      PROVE  Selected(queue[i].call)' = Selected(queue'[i].call)
  BY <1>1 DEF Selected
<1> QED
  BY <1>4, <1>6, <1>7 DEF QueueInv, IsFence

LEMMA QueueStep ==
    ASSUME ImportInv, [Next]_vars
    PROVE  QueueInv'
<1> USE DEF ImportInv
<1>1. ASSUME NEW c \in Calls, CallStep(c), ~ BlockTillDone(c), ~ (ComputeAndQueue(c) /\ Gates(c))
      PROVE  QueueInv'
  <2>1. \A d \in Calls : d # c => pc'[d] = pc[d] /\ req'[d] = req[d]
    BY <1>1, CallStepFrame DEF Untouched
  <2>2. DOMAIN pc = Calls
    BY DEF TypeOK
  <2>3. CASE \E r \in Requests : HandleImport(c, r)
    BY <2>1, <2>3, QueueSame DEF HandleImport, Behind, Posted
  <2>4. CASE ResolvePeriod(c) \/ ResolveStart(c)
    <3>1. UNCHANGED queue /\ pc[c] \in {"waiting", "resolving"}
      BY <2>4 DEF ResolvePeriod, TakeLock, ResolveStart
    <3> QED
      BY <2>1, <3>1, QueueSame DEF Behind, Posted
  <2>5. CASE ReadSources(c) \/ ReadCosts(c)
    <3>1. UNCHANGED queue /\ pc[c] \in {"resolved", "sources read"}
      BY <2>5 DEF ReadSources, ReadCosts
    <3> QED
      BY <2>1, <3>1, QueueSame DEF Behind, Posted
  <2>6. CASE ReadBack(c)
    <3>1. UNCHANGED <<queue, req>> /\ pc[c] = "passed" /\ pc'[c] = "read back"
      BY <2>2, <2>6 DEF ReadBack
    <3> QED
      BY <2>1, <3>1, QueueSame DEF Behind, Posted
  <2>7. CASE ComputeAndQueue(c) /\ ~ Gates(c)
    <3>1. UNCHANGED queue /\ pc[c] = "read"
      BY <2>7 DEF ComputeAndQueue
    <3> QED
      BY <2>1, <3>1, QueueSame DEF Behind, Posted
  <2>8. CASE VerifyAndCalibrate(c)
    <3>1. /\ UNCHANGED <<queue, req>> /\ pc[c] = "read back"
          /\ Over(c, "failed") \/ Over(c, "done")
      BY <2>8 DEF VerifyAndCalibrate
    <3>2. pc'[c] \in {"done", "failed"}
      BY <2>2, <3>1 DEF Over
    <3> QED
      BY <2>1, <3>1, <3>2, QueueSame DEF Behind, Posted
  <2> QED
    BY <1>1, <2>3, <2>4, <2>5, <2>6, <2>7, <2>8 DEF CallStep, Step
<1>2. CASE CompileHour \/ Tick \/ (\E a \in Appliances : Consume(a)) \/ UnloadEntry \/ SetupEntry
           \/ UNCHANGED vars
  <2>1. UNCHANGED <<queue, pc, req>>
    BY <1>2 DEF CompileHour, Tick, Consume, UnloadEntry, SetupEntry, vars, callVars
  <2> QED
    BY <2>1, QueueSame
<1> QED
  BY <1>1, <1>2, QueueOfBlock, QueueOfCompute, QueueOfTask DEF Next, CallStep

-----------------------------------------------------------------------------
(* What each call knows.                                                    *)

(* The clock and the compile only go on, and what was metered stays. *)
LEMMA WorldMoves ==
    ASSUME ImportInv, [Next]_vars
    PROVE  /\ hour <= hour' /\ compiled <= compiled'
           /\ \A a \in Appliances : \A h \in 0 .. hour : at'[a][h] = at[a][h]
<1>1. hour \in Int /\ compiled \in Int
  BY NumbersAre DEF ImportInv
<1>2. CASE CompileHour
  <2>1. UNCHANGED <<hour, at>> /\ compiled' = compiled + 1
    BY <1>2, CompileIs
  <2> QED
    BY <1>1, <2>1
<1>3. CASE Tick
  <2>1. /\ hour' = hour + 1 /\ compiled' = compiled
        /\ \A a \in Appliances : \A h \in 0 .. hour : at'[a][h] = at[a][h]
    BY <1>3, TickIs DEF ImportInv
  <2> QED
    BY <1>1, <2>1
<1>4. CASE ~ CompileHour /\ ~ Tick
  <2>1. UNCHANGED <<hour, compiled, at>>
    <3>1. CASE \E c \in Calls : CallStep(c)
      BY <3>1, CallStepFrame DEF ImportInv, worldVars
    <3>2. CASE RunTask \/ UnloadEntry \/ SetupEntry \/ (\E a \in Appliances : Consume(a))
               \/ UNCHANGED vars
      BY <3>2 DEF RunTask, UnloadEntry, SetupEntry, Consume, vars, worldVars
    <3> QED
      BY <1>4, <3>1, <3>2 DEF Next, CallStep
  <2> QED
    BY <1>1, <2>1
<1> QED
  BY <1>2, <1>3, <1>4

LEMMA TaskOwner ==
    ASSUME QueueInv, NEW d \in Calls, HasTask(d)
    PROVE  pc[d] \in Behind
BY DEF QueueInv, HasTask, Behind, Posted

(* True rows stay true: they are of hours that were compiled. *)
LEMMA TrueRowsStay ==
    ASSUME ImportInv, [Next]_vars, NEW a \in Appliances, NEW hours, NEW from \in Hours,
           TrueRows(hours, a, from)
    PROVE  TrueRows(hours, a, from)'
<1>1. /\ hour <= hour' /\ compiled <= compiled'
      /\ \A h \in 0 .. hour : at'[a][h] = at[a][h]
  BY WorldMoves
<1>2. /\ hour \in Int /\ compiled \in Int /\ compiled <= hour
      /\ \A h \in Hours : h \in Int /\ 0 <= h
  BY NumbersAre DEF ImportInv, TypeOK
<1>2a. hour' \in Int /\ compiled' \in Int
  <2>1. TypeOK'
    BY TypeStep
  <2>2. hour' \in 1 .. MaxHour /\ compiled' \in 0 .. hour'
    BY <2>1 DEF TypeOK
  <2> QED
    BY <2>2
<1>3. ASSUME NEW h \in Hours, h < compiled
      PROVE  at'[a][h] = at[a][h] /\ at'[a][h + 1] = at[a][h + 1]
  <2>1. h \in 0 .. hour /\ h + 1 \in 0 .. hour
    BY <1>2, <1>3
  <2> QED
    BY <1>1, <2>1
<1>4. ASSUME NEW h \in Hours, hours[h] # None
      PROVE  from <= h /\ h < compiled' /\ Tells(hours[h], a, h)'
  <2>1. from <= h /\ h < compiled /\ Tells(hours[h], a, h)
    BY <1>4 DEF TrueRows
  <2>2. h < compiled'
    BY <1>1, <1>2, <1>2a, <2>1
  <2> QED
    BY <1>3, <2>1, <2>2 DEF Tells
<1>5. ASSUME NEW h \in Hours, hours[h] = None, from <= h,
             NEW k \in Hours, h < k, hours[k] # None
      PROVE  at'[a][h + 1] = at'[a][h]
  <2>1. k < compiled /\ at[a][h + 1] = at[a][h]
    BY <1>5 DEF TrueRows
  <2>2. h < compiled
    BY <1>2, <1>5, <2>1
  <2> QED
    BY <1>3, <2>1, <2>2
<1>6. hours' = hours /\ from' = from
  OBVIOUS
<1> QED
  BY <1>4, <1>5 DEF TrueRows

(* What a call knows stays true while its own variables stay. *)
LEMMA CallKeeps ==
    ASSUME ImportInv, [Next]_vars, NEW d \in Calls,
           pc'[d] = "resolving" => pc[d] = "resolving" /\ now'[d] = now[d],
           HasPeriod(d)' => HasPeriod(d) /\ start'[d] = start[d] /\ end'[d] = end[d],
           HasSeen(d)' => HasSeen(d) /\ seen'[d] = seen[d] /\ req'[d] = req[d],
           pc'[d] \in Posted => pc[d] \in Posted,
           HasRows(d)' => HasRows(d) /\ points'[d] = points[d] /\ req'[d] = req[d]
                          /\ start'[d] = start[d]
    PROVE  CallInv(d)'
<1>1. hour <= hour' /\ compiled <= compiled'
  BY WorldMoves
<1>2. /\ hour \in Int /\ compiled \in Int /\ now[d] \in Int /\ start[d] \in Hours
      /\ end[d] \in Int /\ \A h \in Hours : h \in Int
  <2>1. /\ now[d] \in 0 .. MaxHour /\ end[d] \in 0 .. MaxHour /\ start[d] \in Hours
    BY DEF ImportInv, TypeOK
  <2>2. now[d] \in Int /\ end[d] \in Int
    BY <2>1
  <2> QED
    BY <2>1, <2>2, NumbersAre DEF ImportInv
<1>3. hour' \in Int /\ compiled' \in Int
  <2>1. TypeOK'
    BY TypeStep
  <2>2. hour' \in 1 .. MaxHour /\ compiled' \in 0 .. hour'
    BY <2>1 DEF TypeOK
  <2> QED
    BY <2>2
<1>4. CallInv(d)
  BY DEF ImportInv
<1>5. pc'[d] = "resolving" => now'[d] <= hour'
  BY <1>1, <1>2, <1>3, <1>4 DEF CallInv
<1>6. HasPeriod(d)' => start'[d] < end'[d] /\ end'[d] <= hour'
  BY <1>1, <1>2, <1>3, <1>4 DEF CallInv
<1>7. ASSUME HasSeen(d)'
      PROVE  /\ seen'[d] \in [Selected(d)' -> [Hours -> EnergyRow \cup {None}]]
             /\ \A a \in Selected(d)' : TrueRows(seen[d][a], a, start[d])'
             /\ pc'[d] \in Posted => StrictClean(d)'
  <2>1. /\ HasSeen(d) /\ seen'[d] = seen[d] /\ req'[d] = req[d] /\ start'[d] = start[d]
    BY <1>7 DEF HasPeriod
  <2>2. Selected(d)' = Selected(d)
    BY <2>1 DEF Selected
  <2>3. Selected(d) \subseteq Appliances
    BY <2>1, SelectedIs DEF ImportInv, HasSeen, Posted
  <2>4. ASSUME NEW a \in Selected(d) PROVE TrueRows(seen[d][a], a, start[d])'
    <3>1. PICK hours, from : hours = seen[d][a] /\ from = start[d]
      OBVIOUS
    <3>2. from \in Hours /\ a \in Appliances /\ TrueRows(hours, a, from)
      BY <1>2, <1>4, <2>1, <2>3, <3>1 DEF CallInv
    <3>3. TrueRows(hours, a, from)'
      BY <3>2, TrueRowsStay
    <3>4. seen'[d][a] = hours /\ start'[d] = from
      BY <2>1, <3>1
    <3> QED
      BY <3>3, <3>4 DEF TrueRows
  <2>5. pc'[d] \in Posted => StrictClean(d)'
    BY <1>4, <2>1, <2>2 DEF CallInv, StrictClean
  <2> QED
    BY <1>4, <2>1, <2>2, <2>4, <2>5 DEF CallInv
<1>8. pc'[d] \in Posted => StrictClean(d)'
  BY <1>7 DEF HasSeen
<1>9. ASSUME HasRows(d)', NEW a \in Selected(d)', NEW h \in DOMAIN points'[d][a]
      PROVE  h \in Hours /\ start'[d] <= h /\ h < compiled' /\ points'[d][a][h] \in Int
  <2>1. HasRows(d) /\ points'[d] = points[d] /\ a \in Selected(d) /\ start'[d] = start[d]
    BY <1>9 DEF Selected
  <2>2. h \in Hours /\ start[d] <= h /\ h < compiled /\ points[d][a][h] \in Int
    BY <1>4, <1>9, <2>1 DEF CallInv
  <2>3. h < compiled'
    BY <1>1, <1>2, <1>3, <2>2
  <2> QED
    BY <2>1, <2>2, <2>3
<1> QED
  BY <1>5, <1>6, <1>7, <1>8, <1>9 DEF CallInv

(* What an executor reads of the sources is what the recorder has compiled. *)
LEMMA ReadsTrue ==
    ASSUME ImportInv, NEW a \in Appliances, NEW from \in Hours, NEW to \in Int, NEW hours,
           hours = [h \in Hours |-> IF h \in from .. to - 1 THEN energy[a][h] ELSE None]
    PROVE  /\ hours \in [Hours -> EnergyRow \cup {None}]
           /\ TrueRows(hours, a, from)
<1>1. \A h \in Hours : h \in Int /\ 0 <= h
  BY NumbersAre DEF ImportInv
<1>2. compiled \in Int /\ from \in Int
  BY <1>1, NumbersAre DEF ImportInv
<1>3. energy[a] \in [Hours -> EnergyRow \cup {None}]
  BY DEF ImportInv, TypeOK, Rows
<1>4. \A h \in Hours :
         /\ h >= compiled => energy[a][h] = None
         /\ energy[a][h] # None => Tells(energy[a][h], a, h)
         /\ h < compiled /\ energy[a][h] = None => at[a][h + 1] = at[a][h]
  BY DEF ImportInv, WorldInv
<1>5. \A h \in Hours : /\ h \in from .. to - 1 => hours[h] = energy[a][h]
                       /\ h \notin from .. to - 1 => hours[h] = None
  OBVIOUS
<1>6. ASSUME NEW h \in Hours, hours[h] # None
      PROVE  from <= h /\ h < compiled /\ h <= to - 1 /\ Tells(hours[h], a, h)
  <2>1. h \in from .. to - 1 /\ hours[h] = energy[a][h]
    BY <1>5, <1>6
  <2>2. from <= h /\ h <= to - 1
    BY <1>1, <1>2, <2>1
  <2>3. ~ (h >= compiled) /\ Tells(hours[h], a, h)
    BY <1>4, <1>6, <2>1
  <2> QED
    BY <1>1, <1>2, <2>2, <2>3
<1>7. ASSUME NEW h \in Hours, hours[h] = None, from <= h,
             NEW k \in Hours, h < k, hours[k] # None
      PROVE  at[a][h + 1] = at[a][h]
  <2>1. k < compiled /\ k <= to - 1
    BY <1>6, <1>7
  <2>2. h < compiled /\ h \in from .. to - 1
    BY <1>1, <1>2, <1>7, <2>1
  <2> QED
    BY <1>4, <1>5, <1>7, <2>2
<1>8. hours \in [Hours -> EnergyRow \cup {None}]
  BY <1>3
<1> QED
  BY <1>6, <1>7, <1>8 DEF TrueRows

(* A call's step leaves the tasks of the others alone, and only queues some *)
(* of its own.                                                              *)
LEMMA TasksOfStep ==
    ASSUME ImportInv, NEW c \in Calls, CallStep(c)
    PROVE  /\ \A d \in Calls : d # c => (HasTask(d)' => HasTask(d))
           /\ HasTask(c)' => HasTask(c) \/ BlockTillDone(c) \/ (ComputeAndQueue(c) /\ Gates(c))
<1>0. queue \in Seq(Task)
  BY TasksAre DEF ImportInv
<1>1. CASE ComputeAndQueue(c) /\ Gates(c)
  <2>1. PICK new \in Seq(Task) :
           /\ queue' = queue \o new
           /\ \A i \in DOMAIN new : new[i].call = c /\ new[i].appliance \in Selected(c)
    BY <1>1, QueuedRows
  <2>2. ASSUME NEW i \in DOMAIN queue', i \notin DOMAIN queue PROVE queue'[i].call = c
    <3>1. i - Len(queue) \in DOMAIN new /\ queue'[i] = new[i - Len(queue)]
      BY <1>0, <2>1, <2>2
    <3> QED
      BY <2>1, <3>1
  <2>3. \A i \in DOMAIN queue : queue'[i] = queue[i]
    BY <1>0, <2>1
  <2> QED
    BY <1>1, <2>2, <2>3 DEF HasTask
<1>2. CASE BlockTillDone(c)
  <2> DEFINE fence == [call |-> c, appliance |-> None]
  <2>1. queue' = Append(queue, fence)
    BY <1>2 DEF BlockTillDone
  <2>2. fence.call = c /\ fence \in Task
    BY DEF Task
  <2> HIDE DEF fence
  <2>3. \A i \in DOMAIN queue' : (i \in DOMAIN queue /\ queue'[i] = queue[i]) \/ queue'[i].call = c
    BY <1>0, <2>1, <2>2
  <2> QED
    BY <1>2, <2>3 DEF HasTask
<1>3. CASE ~ BlockTillDone(c) /\ ~ (ComputeAndQueue(c) /\ Gates(c))
  <2>1. UNCHANGED queue
    BY <1>3 DEF CallStep, Step, HandleImport, ResolvePeriod, TakeLock, ResolveStart, ReadSources,
       ReadCosts, ReadBack, VerifyAndCalibrate, ComputeAndQueue
  <2> QED
    BY <2>1 DEF HasTask
<1> QED
  BY <1>1, <1>2, <1>3

(* The other calls. *)
LEMMA OthersKeep ==
    ASSUME ImportInv, [Next]_vars, NEW c \in Calls, CallStep(c), NEW d \in Calls, d # c
    PROVE  CallInv(d)'
<1>1. Untouched(d)
  BY CallStepFrame DEF ImportInv
<1>2. HasTask(d)' => HasTask(d)
  BY TasksOfStep
<1> QED
  BY <1>1, <1>2, CallKeeps DEF Untouched, HasPeriod, HasSeen, HasRows

(* The hours of a period that was chosen are over. *)
LEMMA PeriodChosen ==
    ASSUME ImportInv, [Next]_vars, NEW c \in Calls, pc[c] \in {"waiting", "resolving"},
           UNCHANGED <<hour, queue>>,
           \/ Over(c, "failed")
           \/ /\ pc'[c] = "resolving" /\ now'[c] = hour
           \/ \E from, to, at_hour : /\ ChoosePeriod(c, from, to, at_hour)
                                     /\ from \in Int /\ to \in Int /\ at_hour \in Int
                                     /\ at_hour <= hour
    PROVE  CallInv(c)'
<1>1. /\ DOMAIN pc = Calls /\ DOMAIN start = Calls /\ DOMAIN end = Calls
      /\ hour \in Int
  BY NumbersAre DEF ImportInv, TypeOK
<1>2. ~ HasTask(c)'
  <2>1. ~ HasTask(c)
    BY TaskOwner DEF ImportInv, Behind, Posted
  <2> QED
    BY <2>1 DEF HasTask
<1>3. CASE Over(c, "failed")
  <2>1. pc'[c] = "failed"
    BY <1>1, <1>3 DEF Over
  <2> QED
    BY <1>2, <2>1 DEF CallInv, HasPeriod, HasSeen, HasRows, Posted
<1>4. CASE pc'[c] = "resolving" /\ now'[c] = hour
  BY <1>1, <1>2, <1>4 DEF CallInv, HasPeriod, HasSeen, HasRows, Posted
<1>5. ASSUME NEW from, NEW to, NEW at_hour, ChoosePeriod(c, from, to, at_hour),
             from \in Int, to \in Int, at_hour \in Int, at_hour <= hour
      PROVE  CallInv(c)'
  <2>1. CASE to <= from \/ to > at_hour \/ ~ SingleAppliance(c)
    BY <1>3, <1>5, <2>1 DEF ChoosePeriod
  <2>2. CASE ~ (to <= from \/ to > at_hour \/ ~ SingleAppliance(c))
    <3>1. /\ pc' = [pc EXCEPT ![c] = "resolved"]
          /\ start' = [start EXCEPT ![c] = from] /\ end' = [end EXCEPT ![c] = to]
      BY <1>5, <2>2 DEF ChoosePeriod
    <3>2. pc'[c] = "resolved" /\ start'[c] = from /\ end'[c] = to
      BY <1>1, <3>1
    <3>3. from < to /\ to <= hour
      BY <1>1, <1>5, <2>2
    <3> QED
      BY <1>2, <3>2, <3>3 DEF CallInv, HasPeriod, HasSeen, HasRows, Posted
  <2> QED
    BY <2>1, <2>2
<1> QED
  BY <1>3, <1>4, <1>5

LEMMA CallOfResolvePeriod ==
    ASSUME ImportInv, [Next]_vars, NEW c \in Calls, ResolvePeriod(c)
    PROVE  CallInv(c)'
<1>1. pc[c] = "waiting" /\ UNCHANGED <<hour, queue>>
  BY DEF ResolvePeriod, TakeLock, worldVars
<1>2. hour \in Int /\ DOMAIN now = Calls
  BY NumbersAre DEF ImportInv, TypeOK
<1>3. CASE req[c].start # None
  <2>1. ChoosePeriod(c, req[c].start, End(c, hour), hour)
    BY <1>3 DEF ResolvePeriod, TakeLock
  <2>2. req[c] \in RequestType
    BY <1>1, SelectedIs DEF ImportInv
  <2>3. req[c].start \in Hours /\ (req[c].end \in Hours \/ req[c].end = None)
    BY <1>3, <2>2 DEF RequestType
  <2>4. \A h \in Hours : h \in Int
    BY NumbersAre DEF ImportInv
  <2>5. req[c].start \in Int /\ End(c, hour) \in Int
    BY <1>2, <2>3, <2>4 DEF End
  <2>6. hour <= hour
    BY <1>2
  <2> QED
    BY <1>1, <1>2, <2>1, <2>5, <2>6, PeriodChosen
<1>4. CASE req[c].start = None
  <2>1. pc' = [pc EXCEPT ![c] = "resolving"] /\ now' = [now EXCEPT ![c] = hour]
    BY <1>4 DEF ResolvePeriod, TakeLock
  <2>2. pc'[c] = "resolving" /\ now'[c] = hour
    BY <1>2, <2>1 DEF ImportInv, TypeOK
  <2> QED
    BY <1>1, <2>2, PeriodChosen
<1> QED
  BY <1>3, <1>4

LEMMA CallOfResolveStart ==
    ASSUME ImportInv, [Next]_vars, NEW c \in Calls, ResolveStart(c)
    PROVE  CallInv(c)'
<1>1. pc[c] = "resolving" /\ UNCHANGED <<hour, queue>>
  BY DEF ResolveStart, worldVars
<1>2. CASE Over(c, "failed")
  BY <1>1, <1>2, PeriodChosen
<1>3. ASSUME NEW first \in FirstPriceStatisticsHour(priced),
             ChoosePeriod(c, first, End(c, now[c]), now[c])
      PROVE  CallInv(c)'
  <2>1. WorldTypes
    BY TypesAre DEF ImportInv
  <2>2. first \in Hours
    BY <2>1, FirstPriceIs
  <2>3. \A h \in Hours : h \in Int
    BY NumbersAre DEF ImportInv
  <2>4. now[c] \in 0 .. MaxHour /\ now[c] <= hour
    BY <1>1 DEF ImportInv, TypeOK, CallInv
  <2>5. req[c] \in RequestType
    BY <1>1, SelectedIs DEF ImportInv
  <2>6. req[c].end \in Hours \/ req[c].end = None
    BY <2>5 DEF RequestType
  <2>7. now[c] \in Int
    BY <2>4
  <2>8. first \in Int /\ End(c, now[c]) \in Int
    BY <2>2, <2>3, <2>6, <2>7 DEF End
  <2> QED
    BY <1>1, <1>3, <2>4, <2>7, <2>8, PeriodChosen
<1> QED
  BY <1>2, <1>3 DEF ResolveStart

LEMMA CallOfReadSources ==
    ASSUME ImportInv, [Next]_vars, NEW c \in Calls, ReadSources(c)
    PROVE  CallInv(c)'
<1>1. /\ pc[c] = "resolved" /\ pc' = [pc EXCEPT ![c] = "sources read"]
      /\ UNCHANGED <<worldVars, cost, queue, req, lock, start, end, points>>
      /\ seen' = [seen EXCEPT ![c] =
                     [a \in Selected(c) |->
                         [h \in Hours |-> IF h \in Period(c) THEN energy[a][h] ELSE None]]]
  BY DEF ReadSources, periodVars
<1>2. pc'[c] = "sources read"
  BY <1>1 DEF ImportInv, TypeOK
<1>3. ~ HasTask(c)'
  <2>1. ~ HasTask(c)
    BY <1>1, TaskOwner DEF ImportInv, Behind, Posted
  <2> QED
    BY <1>1, <2>1 DEF HasTask
<1>4. start[c] < end[c] /\ end[c] <= hour
  BY <1>1 DEF ImportInv, CallInv, HasPeriod
<1>5. /\ Selected(c) \subseteq Appliances /\ start[c] \in Hours /\ end[c] \in Int
  <2>1. start[c] \in Hours /\ end[c] \in 0 .. MaxHour
    BY DEF ImportInv, TypeOK
  <2>2. end[c] \in Int
    BY <2>1
  <2> QED
    BY <1>1, <2>1, <2>2, SelectedIs DEF ImportInv
<1>6. Selected(c)' = Selected(c)
  BY <1>1 DEF Selected
<1>7. /\ seen'[c] = [a \in Selected(c) |-> seen'[c][a]]
      /\ \A a \in Selected(c) : seen'[c][a] =
              [h \in Hours |-> IF h \in start[c] .. end[c] - 1 THEN energy[a][h] ELSE None]
  <2>1. seen'[c] = [a \in Selected(c) |->
                       [h \in Hours |-> IF h \in Period(c) THEN energy[a][h] ELSE None]]
    BY <1>1 DEF ImportInv, Domains
  <2> QED
    BY <2>1 DEF Period
<1>8. ASSUME NEW a \in Selected(c)
      PROVE  /\ seen'[c][a] \in [Hours -> EnergyRow \cup {None}]
             /\ TrueRows(seen[c][a], a, start[c])'
  <2>1. PICK hours, from, to : hours = seen'[c][a] /\ from = start[c] /\ to = end[c]
    OBVIOUS
  <2>2. hours = [h \in Hours |-> IF h \in from .. to - 1 THEN energy[a][h] ELSE None]
    <3>1. seen'[c][a] = [h \in Hours |-> IF h \in start[c] .. end[c] - 1
                                         THEN energy[a][h] ELSE None]
      BY <1>7
    <3> QED
      BY ONLY <2>1, <3>1
  <2>3. a \in Appliances /\ from \in Hours /\ to \in Int
    BY <1>5, <2>1
  <2>4. hours \in [Hours -> EnergyRow \cup {None}] /\ TrueRows(hours, a, from)
    BY <2>2, <2>3, ReadsTrue
  <2>5. start'[c] = from /\ UNCHANGED <<compiled, at>>
    BY <1>1, <2>1 DEF worldVars
  <2>6. TrueRows(hours, a, from)'
    BY <2>4, <2>5 DEF TrueRows, Tells
  <2> QED
    BY <2>1, <2>4, <2>5, <2>6 DEF TrueRows
<1>9. seen'[c] \in [Selected(c) -> [Hours -> EnergyRow \cup {None}]]
  BY <1>7, <1>8
<1>10. start'[c] < end'[c] /\ end'[c] <= hour'
  BY <1>1, <1>4 DEF worldVars
<1> QED
  BY <1>2, <1>3, <1>6, <1>8, <1>9, <1>10 DEF CallInv, HasPeriod, HasSeen, HasRows, Posted

LEMMA CallOfCompute ==
    ASSUME ImportInv, [Next]_vars, NEW c \in Calls, ComputeAndQueue(c), Gates(c)
    PROVE  CallInv(c)'
<1>1. /\ UNCHANGED <<hour, compiled, at, req, start, end, seen>>
      /\ pc[c] = "read" /\ pc' = [pc EXCEPT ![c] = "queued"]
      /\ points' = [points EXCEPT ![c] =
                       [a \in Selected(c) |-> Series(seen[c][a], InitialCost(c))]]
  BY QueuedRows
<1>2. pc'[c] = "queued"
  BY <1>1 DEF ImportInv, TypeOK
<1>3. /\ start[c] < end[c] /\ end[c] <= hour
      /\ seen[c] \in [Selected(c) -> [Hours -> EnergyRow \cup {None}]]
      /\ \A a \in Selected(c) : TrueRows(seen[c][a], a, start[c])
  BY <1>1 DEF ImportInv, CallInv, HasPeriod, HasSeen
<1>4. Selected(c)' = Selected(c)
  BY <1>1 DEF Selected
<1>5. \A a \in Selected(c) : points'[c][a] = Series(seen[c][a], InitialCost(c))
  BY <1>1 DEF ImportInv, Domains
<1>6. InitialCost(c) \in Int
  BY <1>1, InitialIs DEF ImportInv
<1>7. ASSUME NEW a \in Selected(c), NEW h \in DOMAIN points'[c][a]
      PROVE  h \in Hours /\ start[c] <= h /\ h < compiled /\ points'[c][a][h] \in Int
  <2>1. seen[c][a] \in SeenRows
    BY <1>3 DEF SeenRows
  <2>2. h \in Costed(seen[c][a]) /\ points'[c][a][h] \in Int
    BY <1>5, <1>6, <1>7, <2>1, SeriesType
  <2>3. h \in Hours /\ seen[c][a][h] # None
    BY <2>1, <2>2, KnownIs
  <2> QED
    BY <1>3, <2>2, <2>3 DEF TrueRows
<1>8. StrictClean(c)'
  <2>1. StrictClean(c)
    BY DEF Gates
  <2> QED
    BY <1>1, <1>4, <2>1 DEF StrictClean
<1>9. \A a \in Selected(c) : TrueRows(seen[c][a], a, start[c])'
  BY <1>1, <1>3 DEF TrueRows, Tells
<1> QED
  BY <1>1, <1>2, <1>3, <1>4, <1>7, <1>8, <1>9 DEF CallInv, HasPeriod, HasSeen, HasRows, Posted

LEMMA CallInvStep ==
    ASSUME ImportInv, [Next]_vars, NEW d \in Calls
    PROVE  CallInv(d)'
<1>a. /\ DOMAIN pc = Calls /\ DOMAIN seen = Calls
  BY DEF ImportInv, TypeOK, Domains
<1>1. CASE CallStep(d)
  <2>1. CASE \E r \in Requests : HandleImport(d, r)
    <3>1. pc[d] = "idle" /\ pc'[d] = "waiting" /\ UNCHANGED queue
      BY <1>a, <2>1 DEF HandleImport
    <3>2. ~ HasTask(d)'
      BY <3>1, TaskOwner DEF ImportInv, Behind, Posted, HasTask
    <3> QED
      BY <3>1, <3>2 DEF CallInv, HasPeriod, HasSeen, HasRows, Posted
  <2>2. CASE ReadCosts(d) \/ BlockTillDone(d) \/ ReadBack(d)
    <3>1. /\ UNCHANGED <<req, start, end, seen, points>>
          /\ \/ pc[d] = "sources read" /\ pc'[d] = "read" /\ UNCHANGED queue
             \/ pc[d] \in Posted /\ pc'[d] \in Posted
      BY <1>a, <2>2 DEF ReadCosts, BlockTillDone, ReadBack, periodVars, Posted
    <3>2. HasPeriod(d) /\ HasSeen(d) /\ pc'[d] # "resolving"
          /\ (pc'[d] \in Posted => pc[d] \in Posted)
      BY <3>1 DEF HasPeriod, HasSeen, Posted
    <3>3. HasRows(d)' => HasRows(d)
      BY <3>1 DEF HasRows, HasTask, Posted
    <3> QED
      BY <3>1, <3>2, <3>3, CallKeeps
  <2>3. CASE (ComputeAndQueue(d) /\ ~ Gates(d)) \/ VerifyAndCalibrate(d)
    <3>1. /\ UNCHANGED <<queue, req, start, points>> /\ pc'[d] \in {"done", "failed"}
      <4>1. UNCHANGED <<queue, req, start, points>> /\ (Over(d, "done") \/ Over(d, "failed"))
        BY <2>3 DEF ComputeAndQueue, VerifyAndCalibrate
      <4> QED
        BY <1>a, <4>1 DEF Over
    <3>2. HasRows(d)' => HasRows(d)
      BY <3>1 DEF HasRows, HasTask, Posted
    <3>3. ~ HasPeriod(d)' /\ ~ HasSeen(d)' /\ pc'[d] # "resolving" /\ pc'[d] \notin Posted
      BY <3>1 DEF HasPeriod, HasSeen, Posted
    <3> QED
      BY <3>1, <3>2, <3>3, CallKeeps
  <2> QED
    BY <1>1, <2>1, <2>2, <2>3, CallOfResolvePeriod, CallOfResolveStart, CallOfReadSources,
       CallOfCompute DEF CallStep, Step
<1>2. CASE \E c \in Calls : c # d /\ CallStep(c)
  BY <1>2, OthersKeep
<1>3. CASE RunTask
  <2>1. /\ UNCHANGED <<req, now, start, end, seen, points>> /\ queue # <<>>
        /\ queue' = Tail(queue) \/ queue' = Append(Tail(queue), Head(queue))
        /\ pc'[d] = pc[d] \/ (pc[d] = "blocked" /\ pc'[d] = "passed")
    <3>1. /\ UNCHANGED <<req, periodVars, seen, points>> /\ queue # <<>>
          /\ queue' = Tail(queue) \/ queue' = Append(Tail(queue), Head(queue))
          /\ IF IsFence(Head(queue))
             THEN /\ pc[Head(queue).call] = "blocked" /\ pc'[Head(queue).call] = "passed"
                  /\ \A e \in Calls : e # Head(queue).call => pc'[e] = pc[e]
             ELSE UNCHANGED pc
      BY <1>3, RunTaskIs
    <3> QED
      BY <3>1 DEF periodVars
  <2>2. HasTask(d)' => HasTask(d)
    <3>1. \E f : /\ \A i \in DOMAIN queue' : f[i] \in DOMAIN queue /\ queue'[i] = queue[f[i]]
                 /\ \A i, j \in DOMAIN queue' : f[i] = f[j] => i = j
      BY <2>1, TasksLeft DEF ImportInv
    <3> QED
      BY <3>1 DEF HasTask
  <2> QED
    BY <2>1, <2>2, CallKeeps DEF HasPeriod, HasSeen, HasRows, Posted
<1>4. CASE CompileHour \/ Tick \/ (\E a \in Appliances : Consume(a)) \/ UnloadEntry \/ SetupEntry
           \/ UNCHANGED vars
  <2>1. UNCHANGED <<queue, pc, req, now, start, end, seen, points>>
    BY <1>4 DEF CompileHour, Tick, Consume, UnloadEntry, SetupEntry, vars, callVars, periodVars
  <2> QED
    BY <2>1, CallKeeps DEF HasPeriod, HasSeen, HasRows, HasTask
<1> QED
  BY <1>1, <1>2, <1>3, <1>4 DEF Next, CallStep

-----------------------------------------------------------------------------
(* A calibrated sensor continues the import.                                *)

(* A meter's levels at the hours only rise. *)
LEMMA LevelsRise ==
    ASSUME ImportInv, NEW a \in Appliances, NEW i \in 0 .. hour
    PROVE  at[a][i] <= at[a][hour]
<1> DEFINE Bad == {n \in Nat : n <= hour /\ ~ (at[a][hour - n] <= at[a][hour])}
<1>1. /\ hour \in Int /\ 1 <= hour
      /\ \A h \in 0 .. hour : at[a][h] \in Int
      /\ \A h \in 0 .. hour - 1 : at[a][h] <= at[a][h + 1]
  BY NumbersAre DEF ImportInv, WorldInv
<1>2. CASE Bad = {}
  <2>1. hour - i \in Nat /\ hour - i <= hour /\ hour - (hour - i) = i
    BY <1>1
  <2> QED
    BY <1>2, <2>1
<1>3. CASE Bad # {}
  <2>1. PICK n \in Bad : \A m \in Bad : n <= m
    BY <1>3, LeastNat
  <2>2. n \in Nat /\ n <= hour /\ ~ (at[a][hour - n] <= at[a][hour])
    BY <2>1
  <2>3. CASE n = 0
    <3>1. hour - n = hour /\ hour \in 0 .. hour
      BY <1>1, <2>3
    <3> QED
      BY <1>1, <2>2, <3>1
  <2>4. CASE n # 0
    <3>1. /\ n - 1 \in Nat /\ n - 1 <= hour /\ ~ (n <= n - 1)
          /\ hour - (n - 1) = (hour - n) + 1
          /\ hour - n \in 0 .. hour - 1 /\ hour - n \in 0 .. hour /\ hour - n + 1 \in 0 .. hour
          /\ hour \in 0 .. hour
      BY <1>1, <2>2, <2>4
    <3>2. at[a][(hour - n) + 1] <= at[a][hour]
      <4>1. n - 1 \notin Bad
        BY <2>1, <3>1
      <4>2. at[a][hour - (n - 1)] <= at[a][hour]
        BY <3>1, <4>1
      <4> QED
        BY <3>1, <4>2
    <3>3. at[a][hour - n] <= at[a][(hour - n) + 1]
      BY <1>1, <3>1
    <3> HIDE DEF Bad
    <3>4. at[a][hour - n] \in Int /\ at[a][(hour - n) + 1] \in Int /\ at[a][hour] \in Int
      BY <1>1, <3>1
    <3> QED
      BY <2>2, <3>2, <3>3, <3>4
  <2> QED
    BY <2>3, <2>4
<1> QED
  BY <1>2, <1>3

(* What the costed rows before an hour come to, and what was metered. *)
CostBefore(hours, n) == SumFunctionOnSet(Costs(hours), {i \in Costed(hours) : i < n})

Covers(hours, a, from, n) ==
    /\ CostBefore(hours, n) <= at[a][n] - at[a][from]
    /\ Flagged(hours) = {} => CostBefore(hours, n) = at[a][n] - at[a][from]

LEMMA CostBeforeNext ==
    ASSUME NEW hours \in SeenRows, NEW n \in Hours
    PROVE  /\ CostBefore(hours, n) \in Int
           /\ n \in Costed(hours) => CostBefore(hours, n + 1) = Costs(hours)[n] + CostBefore(hours, n)
           /\ n \notin Costed(hours) => CostBefore(hours, n + 1) = CostBefore(hours, n)
<1> DEFINE S == {i \in Costed(hours) : i < n}
           T == {i \in Costed(hours) : i < n + 1}
<1>0. \A h \in Hours : h \in Int
  BY ImportAssumption DEF Hours, ImportAssumption
<1>1. /\ \A i \in Costed(hours) : i \in Int
      /\ IsFiniteSet(Costed(hours)) /\ \A h \in Costed(hours) : Costs(hours)[h] \in Int
  BY <1>0, KnownIs, CostsType
<1>2. n \in Int
  BY <1>0
<1>3. \A i \in Costed(hours) : i < n + 1 <=> (i < n \/ i = n)
  BY <1>1, <1>2
<1>4. IsFiniteSet(S) /\ IsFiniteSet(T)
  <2>1. S \in SUBSET Costed(hours) /\ T \in SUBSET Costed(hours)
    OBVIOUS
  <2> HIDE DEF S, T
  <2> QED
    BY <1>1, <2>1, FS_Subset
<1>5. (\A i \in S : Costs(hours)[i] \in Int) /\ (\A i \in T : Costs(hours)[i] \in Int)
  BY <1>1
<1>6. n \in Costed(hours) => n \in T /\ T \ {n} = S
  <2>1. n < n + 1 /\ ~ (n < n)
    BY <1>2
  <2>2. n \in Costed(hours) => n \in T
    BY <2>1
  <2>3. \A i : i \in T \ {n} <=> i \in S
    BY <1>3, <2>1
  <2> HIDE DEF S, T
  <2> QED
    BY <2>2, <2>3
<1>7. n \notin Costed(hours) => T = S
  BY <1>3
<1>8. CostBefore(hours, n) = SumFunctionOnSet(Costs(hours), S)
      /\ CostBefore(hours, n + 1) = SumFunctionOnSet(Costs(hours), T)
  BY DEF CostBefore
<1> HIDE DEF S, T
<1> QED
  BY <1>4, <1>5, <1>6, <1>7, <1>8, SumType, SumSplits

LEMMA CoversNext ==
    ASSUME ImportInv, NEW a \in Appliances, NEW from \in Hours, NEW hours \in SeenRows,
           TrueRows(hours, a, from), NEW k \in Hours, hours[k] # None,
           NEW n \in Hours, from <= n, n <= k, Covers(hours, a, from, n)
    PROVE  Covers(hours, a, from, n + 1)
<1>1. /\ CostBefore(hours, n) \in Int
      /\ n \in Costed(hours) => CostBefore(hours, n + 1) = Costs(hours)[n] + CostBefore(hours, n)
      /\ n \notin Costed(hours) => CostBefore(hours, n + 1) = CostBefore(hours, n)
  BY CostBeforeNext
<1>2. /\ MaxHour \in Int /\ \A h \in Hours : h \in Int /\ 0 <= h /\ h < MaxHour
  BY ImportAssumption DEF Hours, ImportAssumption
<1>3. at[a][n] \in Int /\ at[a][n + 1] \in Int /\ at[a][from] \in Int
  <2>1. n \in 0 .. MaxHour /\ n + 1 \in 0 .. MaxHour /\ from \in 0 .. MaxHour
    BY <1>2
  <2>2. \A h \in 0 .. MaxHour : at[a][h] \in Nat
    BY DEF ImportInv, TypeOK
  <2>3. at[a][n] \in Nat /\ at[a][n + 1] \in Nat /\ at[a][from] \in Nat
    BY <2>1, <2>2
  <2> QED
    BY <2>3
<1> DEFINE before == CostBefore(hours, n)
           after == CostBefore(hours, n + 1)
<1>4. /\ before <= at[a][n] - at[a][from]
      /\ Flagged(hours) = {} => before = at[a][n] - at[a][from]
  BY DEF Covers
<1>5. CASE n \in Costed(hours)
  <2>1. hours[n] # None /\ hours[n].kind = "ok"
    BY <1>5, KnownIs
  <2>2. Tells(hours[n], a, n)
    BY <2>1 DEF TrueRows
  <2>3. Costs(hours)[n] = at[a][n + 1] - at[a][n]
    BY <1>5, <2>1, <2>2 DEF Costs, Tells
  <2>4. after = Costs(hours)[n] + before
    BY <1>1, <1>5
  <2>5. before \in Int
    BY <1>1
  <2> HIDE DEF before, after
  <2>6. after <= at[a][n + 1] - at[a][from]
    BY <1>3, <1>4, <2>3, <2>4, <2>5
  <2>7. Flagged(hours) = {} => after = at[a][n + 1] - at[a][from]
    BY <1>3, <1>4, <2>3, <2>4, <2>5
  <2> QED
    BY <2>6, <2>7 DEF Covers, after
<1>6. CASE n \notin Costed(hours) /\ hours[n] # None
  <2>1. n \in Flagged(hours)
    BY <1>6, KnownIs DEF Flagged
  <2>2. hours[n] \in EnergyRow /\ Tells(hours[n], a, n)
    BY <1>6 DEF TrueRows, SeenRows
  <2>3. hours[n].change \in Nat /\ hours[n].change = at[a][n + 1] - at[a][n]
    BY <2>2 DEF EnergyRow, Tells
  <2>4. at[a][n] <= at[a][n + 1]
    BY <1>3, <2>3
  <2>5. after = before /\ before \in Int
    BY <1>1, <1>6
  <2> HIDE DEF before, after
  <2>6. after <= at[a][n + 1] - at[a][from]
    BY <1>3, <1>4, <2>4, <2>5
  <2> QED
    BY <2>1, <2>6 DEF Covers, after
<1>7. CASE hours[n] = None
  <2>1. n # k /\ n \notin Costed(hours)
    BY <1>7, KnownIs
  <2>2. n < k
    BY <1>2, <2>1
  <2>3. at[a][n + 1] = at[a][n]
    BY <1>7, <2>2 DEF TrueRows
  <2>4. after = before
    BY <1>1, <2>1
  <2> HIDE DEF before, after
  <2> QED
    BY <1>4, <2>3, <2>4 DEF Covers, after, before
<1> QED
  BY <1>5, <1>6, <1>7

(* The series charges no more than was metered, and all of it if no hour    *)
(* was flagged.                                                             *)
LEMMA SeriesCovers ==
    ASSUME ImportInv, NEW a \in Appliances, NEW from \in Hours, NEW hours \in SeenRows,
           TrueRows(hours, a, from), NEW k \in Hours, hours[k] # None,
           \A h \in Hours : hours[h] # None => h <= k
    PROVE  LET cost_ == SumFunction(Costs(hours))
           IN  /\ cost_ \in Int /\ cost_ <= at[a][k + 1] - at[a][from]
               /\ Flagged(hours) = {} => cost_ = at[a][k + 1] - at[a][from]
<1> DEFINE Bad == {m \in Nat : from + m <= k + 1 /\ ~ Covers(hours, a, from, from + m)}
<1>1. /\ MaxHour \in Int /\ \A h \in Hours : h \in Int /\ 0 <= h /\ h < MaxHour
      /\ \A h \in Int : 0 <= h /\ h < MaxHour => h \in Hours
  BY ImportAssumption DEF Hours, ImportAssumption
<1>2. from <= k
  BY DEF TrueRows
<1>3. \A i \in Costed(hours) : i \in Int /\ from <= i /\ i < k + 1
  <2>1. \A i \in Costed(hours) : i \in Hours /\ hours[i] # None
    BY KnownIs
  <2>2. \A i \in Costed(hours) : i \in Int /\ from <= i /\ i <= k
    BY <1>1, <2>1 DEF TrueRows
  <2> QED
    BY <1>1, <2>2
<1>4. Covers(hours, a, from, from)
  <2>1. {i \in Costed(hours) : i < from} = {}
    BY <1>1, <1>3
  <2>2. CostBefore(hours, from) = 0
    BY <2>1, SumOfNone DEF CostBefore
  <2>3. at[a][from] \in Nat
    <3>1. from \in 0 .. MaxHour
      BY <1>1
    <3>2. \A h \in 0 .. MaxHour : at[a][h] \in Nat
      BY DEF ImportInv, TypeOK
    <3> QED
      BY <3>1, <3>2
  <2> QED
    BY <2>2, <2>3 DEF Covers
<1>5. Bad = {}
  <2>1. SUFFICES ASSUME Bad # {} PROVE FALSE
    OBVIOUS
  <2>2. PICK m \in Bad : \A j \in Bad : m <= j
    BY <2>1, LeastNat
  <2>3. m \in Nat /\ from + m <= k + 1 /\ ~ Covers(hours, a, from, from + m)
    BY <2>2
  <2>4. m # 0
    <3>1. m = 0 => from + m = from
      BY <1>1
    <3> QED
      BY <1>4, <2>3, <3>1
  <2> DEFINE n == from + (m - 1)
  <2>5. /\ m - 1 \in Nat /\ ~ (m <= m - 1) /\ n <= k + 1 /\ n \in Int
        /\ from <= n /\ n <= k /\ 0 <= n /\ n < MaxHour /\ n + 1 = from + m
    BY <1>1, <2>3, <2>4
  <2>6. Covers(hours, a, from, n)
    BY <2>2, <2>5
  <2>7. n \in Hours
    BY <1>1, <2>5
  <2> HIDE DEF n, Bad
  <2>8. Covers(hours, a, from, n + 1)
    BY <2>5, <2>6, <2>7, CoversNext
  <2> QED
    BY <2>3, <2>5, <2>8
<1>6. Covers(hours, a, from, k + 1)
  <2>1. /\ k + 1 - from \in Nat /\ from + (k + 1 - from) = k + 1 /\ k + 1 <= k + 1
    BY <1>1, <1>2
  <2>2. k + 1 - from \notin Bad
    BY <1>5
  <2> QED
    BY <2>1, <2>2
<1>7. SumFunction(Costs(hours)) = CostBefore(hours, k + 1)
  <2>1. {i \in Costed(hours) : i < k + 1} = Costed(hours)
    BY <1>3
  <2>2. DOMAIN Costs(hours) = Costed(hours)
    BY DEF Costs
  <2> QED
    BY <2>1, <2>2 DEF SumFunction, CostBefore
<1>8. SumFunction(Costs(hours)) \in Int
  <2>1. IsFiniteSet(Costed(hours)) /\ \A h \in Costed(hours) : Costs(hours)[h] \in Int
    BY KnownIs, CostsType
  <2>2. DOMAIN Costs(hours) = Costed(hours)
    BY DEF Costs
  <2> QED
    BY <2>1, <2>2, SumType DEF SumFunction
<1> QED
  BY <1>6, <1>7, <1>8 DEF Covers

LEMMA LevelBounds ==
    ASSUME ImportInv, NEW a \in Appliances, NEW k \in Hours, k < compiled, NEW from \in Hours
    PROVE  /\ at[a][k + 1] \in Int /\ at[a][from] \in Int /\ level[a] \in Int
           /\ at[a][k + 1] <= level[a]
<1>1. /\ hour \in Int /\ 1 <= hour /\ compiled \in Int /\ compiled <= hour
      /\ \A h \in Hours : h \in Int /\ 0 <= h
      /\ \A h \in 0 .. hour : at[a][h] \in Int
  <2>1. \A h \in 0 .. hour : at[a][h] \in Nat
    BY NumbersAre DEF ImportInv
  <2>2. \A h \in 0 .. hour : at[a][h] \in Int
    BY <2>1
  <2> QED
    BY <2>2, NumbersAre DEF ImportInv
<1>2. k + 1 \in 0 .. hour /\ hour \in 0 .. hour
  BY <1>1
<1>3. at[a][from] \in Int
  <2>1. from \in 0 .. MaxHour
    BY ImportAssumption DEF Hours, ImportAssumption
  <2>2. at[a][from] \in Nat
    <3>1. \A h \in 0 .. MaxHour : at[a][h] \in Nat
      BY DEF ImportInv, TypeOK
    <3> QED
      BY <2>1, <3>1
  <2> QED
    BY <2>2
<1>4. level[a] \in Int
  <2>1. level[a] \in Nat
    BY DEF ImportInv, TypeOK
  <2> QED
    BY <2>1
<1>5. at[a][k + 1] <= at[a][hour] /\ at[a][hour] <= level[a]
  BY <1>2, LevelsRise DEF ImportInv, WorldInv
<1>6. at[a][k + 1] \in Int /\ at[a][hour] \in Int
  BY <1>1, <1>2
<1> QED
  BY <1>3, <1>4, <1>5, <1>6

LEMMA CutoverIs ==
    ASSUME NEW total \in Int, NEW last \in Int, NEW reading \in Int, last <= reading
    PROVE  CutoverValue(total, last, reading, 1) = total + (reading - last)
<1>1. Classify(last, reading) \in {"UNCHANGED", "ADVANCE"}
  BY DEF Classify
<1>2. CutoverValue(total, last, reading, 1) = total + (reading - last) * 1
  BY <1>1 DEF CutoverValue
<1>3. (reading - last) * 1 = reading - last
  OBVIOUS
<1> QED
  BY <1>2, <1>3

LEMMA SumIsInt ==
    ASSUME NEW x \in Int, NEW y \in Int, NEW z, z = x + y
    PROVE  z \in Int
OBVIOUS

LEMMA DueIs ==
    ASSUME NEW initial \in Int, NEW sum \in Int, NEW from \in Int, NEW last \in Int,
           NEW reading \in Int, sum <= last - from
    PROVE  /\ initial + sum + (reading - last) <= initial + reading - from
           /\ sum = last - from =>
                 initial + sum + (reading - last) = initial + reading - from
OBVIOUS

(* The value a sensor is set to charges what was metered since the start of *)
(* the import: by its rows, and after them by the meter.                    *)
LEMMA CutoverCovers ==
    ASSUME ImportInv, NEW c \in Calls, pc[c] = "read back", NEW a \in Selected(c),
           EndEnergy(seen[c][a]) # None
    PROVE  LET value == CutoverValue(Total(seen[c][a], InitialCost(c)),
                                     EndEnergy(seen[c][a]), level[a], 1)
               due == InitialCost(c) + level[a] - at[a][start[c]]
           IN  /\ value <= due
               /\ req[c].strict => value = due
<1>1. /\ Selected(c) \subseteq Appliances /\ InitialCost(c) \in Int
      /\ StrictClean(c) /\ TrueRows(seen[c][a], a, start[c]) /\ start[c] \in Hours
      /\ seen[c] \in [Selected(c) -> [Hours -> EnergyRow \cup {None}]]
  <2>1. Selected(c) \subseteq Appliances /\ InitialCost(c) \in Int
    BY SelectedIs, InitialIs DEF ImportInv
  <2>2. CallInv(c) /\ start[c] \in Hours
    BY DEF ImportInv, TypeOK
  <2> QED
    BY <2>1, <2>2 DEF CallInv, HasSeen, Posted
<1>2. a \in Appliances /\ seen[c][a] \in SeenRows
  BY <1>1 DEF SeenRows
<1>3. PICK k \in Hours : /\ seen[c][a][k] # None /\ EndEnergy(seen[c][a]) = seen[c][a][k].state
                         /\ \A h \in Hours : seen[c][a][h] # None => h <= k
  BY <1>2, EndEnergyIs
<1>4. k < compiled /\ EndEnergy(seen[c][a]) = at[a][k + 1]
  <2>1. k < compiled /\ Tells(seen[c][a][k], a, k)
    BY <1>1, <1>3 DEF TrueRows
  <2> QED
    BY <1>3, <2>1 DEF Tells
<1> DEFINE sum == SumFunction(Costs(seen[c][a]))
           initial == InitialCost(c)
           total == Total(seen[c][a], InitialCost(c))
           reading == level[a]
           last == at[a][k + 1]
           from == at[a][start[c]]
<1>5. /\ sum \in Int /\ sum <= last - from
      /\ Flagged(seen[c][a]) = {} => sum = last - from
  <2>1. TrueRows(seen[c][a], a, start[c]) /\ start[c] \in Hours
    BY <1>1
  <2>2. PICK hours, first : hours = seen[c][a] /\ first = start[c]
    OBVIOUS
  <2>3. /\ hours \in SeenRows /\ first \in Hours /\ hours[k] # None
        /\ \A h \in Hours : hours[h] # None => h <= k
    BY <1>2, <1>3, <2>1, <2>2
  <2>4. TrueRows(hours, a, first)
    BY <2>1, <2>2
  <2>5. /\ SumFunction(Costs(hours)) \in Int
        /\ SumFunction(Costs(hours)) <= at[a][k + 1] - at[a][first]
        /\ Flagged(hours) = {} => SumFunction(Costs(hours)) = at[a][k + 1] - at[a][first]
    BY <1>2, <2>3, <2>4, SeriesCovers
  <2> QED
    BY <2>2, <2>5
<1>6. last \in Int /\ from \in Int /\ reading \in Int /\ last <= reading
  BY <1>1, <1>2, <1>4, LevelBounds
<1>7. total = initial + sum /\ initial \in Int
  BY <1>1 DEF Total
<1>8. CutoverValue(total, EndEnergy(seen[c][a]), reading, 1) = initial + sum + (reading - last)
  <2>1. EndEnergy(seen[c][a]) = last
    BY <1>4
  <2>2. total \in Int
    <3> HIDE DEF total, initial, sum
    <3> QED
      BY <1>5, <1>7, SumIsInt
  <2> HIDE DEF total, initial, sum, reading, last
  <2> QED
    BY <1>6, <1>7, <2>1, <2>2, CutoverIs
<1>9. req[c].strict => Flagged(seen[c][a]) = {}
  BY <1>1 DEF StrictClean
<1>10. /\ initial + sum + (reading - last) <= initial + reading - from
       /\ req[c].strict => initial + sum + (reading - last) = initial + reading - from
  <2>1. initial \in Int /\ sum \in Int /\ from \in Int /\ last \in Int /\ reading \in Int
    BY <1>5, <1>6, <1>7
  <2>2. sum <= last - from /\ (req[c].strict => sum = last - from)
    BY <1>5, <1>9
  <2> HIDE DEF sum, initial, total, reading, last, from
  <2>3. sum <= last - from
    BY <2>2
  <2>4. /\ initial + sum + (reading - last) <= initial + reading - from
        /\ sum = last - from =>
              initial + sum + (reading - last) = initial + reading - from
    BY ONLY <2>1, <2>3, DueIs
  <2> QED
    BY <2>2, <2>4
<1> QED
  BY <1>8, <1>10

(* Metering goes on; the import's start and what is due from it stay. *)
LEMMA ContinuesKeeps ==
    ASSUME ImportInv, [Next]_vars, NEW a \in Appliances, cut'[a] = cut[a],
           NEW step \in Int, level'[a] = level[a] + step, live'[a] = live[a] + step,
           cut[a] # None =>
               /\ pc'[cut[a]] = pc[cut[a]] /\ start'[cut[a]] = start[cut[a]]
               /\ req'[cut[a]] = req[cut[a]]
    PROVE  Continues(a)'
<1>1. CASE cut[a] = None
  BY <1>1 DEF Continues
<1>2. CASE cut[a] # None
  <2>1. PICK c : c = cut[a]
    OBVIOUS
  <2>2. /\ c \in Calls /\ pc[c] = "done" /\ start[c] < hour
        /\ live[a] <= InitialCost(c) + level[a] - at[a][start[c]]
        /\ req[c].strict => live[a] = InitialCost(c) + level[a] - at[a][start[c]]
    BY <1>2, <2>1 DEF ImportInv, TypeOK, Continues
  <2>3. /\ pc'[c] = "done" /\ start'[c] = start[c] /\ req'[c] = req[c]
    BY <1>2, <2>1, <2>2
  <2>4. hour \in Int /\ hour' \in Int /\ start[c] \in Int /\ 0 <= start[c]
    <3>1. TypeOK'
      BY TypeStep
    <3>2. hour' \in 1 .. MaxHour
      BY <3>1 DEF TypeOK
    <3>3. start[c] \in Hours
      BY <2>2 DEF ImportInv, TypeOK
    <3> QED
      BY <3>2, <3>3, NumbersAre DEF ImportInv
  <2>5. start[c] < hour' /\ start[c] \in 0 .. hour
    <3>1. hour <= hour'
      BY WorldMoves
    <3> QED
      BY <2>2, <2>4, <3>1
  <2>6. at'[a][start[c]] = at[a][start[c]] /\ at[a][start[c]] \in Int
    <3>1. at[a][start[c]] \in Nat
      BY <2>5, NumbersAre DEF ImportInv
    <3> QED
      BY <2>5, <3>1, WorldMoves
  <2>7. InitialCost(c)' = InitialCost(c) /\ InitialCost(c) \in Int
    <3>1. InitialCost(c) \in Int
      BY <2>2, InitialIs DEF ImportInv
    <3> QED
      BY <2>3, <3>1 DEF InitialCost
  <2>8. level[a] \in Int /\ live[a] \in Int
    <3>1. level[a] \in Nat /\ live[a] \in Int
      BY NumbersAre DEF ImportInv
    <3> QED
      BY <3>1
  <2> DEFINE initial == InitialCost(c)
  <2>9. /\ live'[a] <= initial + level'[a] - at[a][start[c]]
        /\ req[c].strict => live'[a] = initial + level'[a] - at[a][start[c]]
    <3>1. initial \in Int
      BY <2>7
    <3>2. /\ live[a] <= initial + level[a] - at[a][start[c]]
          /\ req[c].strict => live[a] = initial + level[a] - at[a][start[c]]
      BY <2>2
    <3> HIDE DEF initial
    <3>3. live'[a] <= initial + level'[a] - at[a][start[c]]
      BY <2>6, <2>8, <3>1, <3>2
    <3>4. req[c].strict => live'[a] = initial + level'[a] - at[a][start[c]]
      BY <2>6, <2>8, <3>1, <3>2
    <3> QED
      BY <3>3, <3>4
  <2>10. cut'[a] = c
    BY <2>1
  <2> QED
    BY <2>3, <2>5, <2>6, <2>7, <2>9, <2>10 DEF Continues
<1> QED
  BY <1>1, <1>2

LEMMA ContinuesOfVerify ==
    ASSUME ImportInv, [Next]_vars, NEW c \in Calls, VerifyAndCalibrate(c), NEW a \in Appliances
    PROVE  Continues(a)'
<1>1. /\ pc[c] = "read back" /\ UNCHANGED <<worldVars, req, start>>
      /\ Over(c, "failed") \/ Over(c, "done")
  BY DEF VerifyAndCalibrate
<1>2. \A d \in Calls : d # c => pc'[d] = pc[d]
  BY <1>1, DomainsAre, OverKeeps DEF ImportInv
<1>3. level[a] \in Int /\ live[a] \in Int
  <2>1. level[a] \in Nat /\ live[a] \in Int
    BY NumbersAre DEF ImportInv
  <2> QED
    BY <2>1
<1>4. cut[a] # None => cut[a] \in Calls /\ cut[a] # c
  BY <1>1 DEF ImportInv, TypeOK, Continues
<1>5. ASSUME cut'[a] = cut[a], live'[a] = live[a]
      PROVE  Continues(a)'
  <2>1. level'[a] = level[a] + 0 /\ live'[a] = live[a] + 0 /\ 0 \in Int
    <3>1. level'[a] = level[a] /\ live'[a] = live[a]
      BY <1>1, <1>5 DEF worldVars
    <3>2. level[a] = level[a] + 0 /\ live[a] = live[a] + 0
      BY <1>3
    <3> QED
      BY <3>1, <3>2
  <2>2. cut[a] # None => /\ pc'[cut[a]] = pc[cut[a]] /\ start'[cut[a]] = start[cut[a]]
                         /\ req'[cut[a]] = req[cut[a]]
    BY <1>1, <1>2, <1>4
  <2> QED
    BY <1>5, <2>1, <2>2, ContinuesKeeps
<1>6. CASE ~ confirmed[c]
  <2>1. UNCHANGED <<live, cut>>
    BY <1>6 DEF VerifyAndCalibrate
  <2> QED
    BY <1>5, <2>1
<1>7. CASE confirmed[c]
  <2>1. PICK able \in SUBSET Selected(c) :
           /\ live' = [b \in Appliances |->
                 IF b \in Calibratable(c, able)
                 THEN CutoverValue(Total(seen[c][b], InitialCost(c)),
                                   EndEnergy(seen[c][b]), level[b], 1)
                 ELSE live[b]]
           /\ cut' = [b \in Appliances |-> IF b \in Calibratable(c, able) THEN c ELSE cut[b]]
           /\ Over(c, "done")
    BY <1>7 DEF VerifyAndCalibrate
  <2>2. CASE a \notin Calibratable(c, able)
    BY <1>5, <2>1, <2>2
  <2>3. CASE a \in Calibratable(c, able)
    <3>1. a \in Selected(c) /\ EndEnergy(seen[c][a]) # None
      BY <2>3 DEF Calibratable
    <3>2. /\ cut'[a] = c
          /\ live'[a] = CutoverValue(Total(seen[c][a], InitialCost(c)),
                                     EndEnergy(seen[c][a]), level[a], 1)
      BY <2>1, <2>3
    <3>3. pc'[c] = "done"
      BY <2>1 DEF Over, ImportInv, TypeOK
    <3>4. start[c] < hour
      <4>1. start[c] < end[c] /\ end[c] <= hour
        BY <1>1 DEF ImportInv, CallInv, HasPeriod, HasSeen, Posted
      <4>2. start[c] \in Hours /\ end[c] \in 0 .. MaxHour
        BY DEF ImportInv, TypeOK
      <4>3. start[c] \in Int /\ end[c] \in Int /\ hour \in Int
        BY <4>2, NumbersAre DEF ImportInv
      <4> QED
        BY <4>1, <4>3
    <3>5. /\ live'[a] <= InitialCost(c) + level[a] - at[a][start[c]]
          /\ req[c].strict => live'[a] = InitialCost(c) + level[a] - at[a][start[c]]
      BY <1>1, <3>1, <3>2, CutoverCovers
    <3>6. /\ InitialCost(c)' = InitialCost(c) /\ level'[a] = level[a] /\ at' = at /\ hour' = hour
          /\ start' = start /\ req' = req
      BY <1>1 DEF worldVars, InitialCost
    <3> QED
      BY <3>2, <3>3, <3>4, <3>5, <3>6 DEF Continues
  <2> QED
    BY <2>2, <2>3
<1> QED
  BY <1>6, <1>7

LEMMA ContinuesStep ==
    ASSUME ImportInv, [Next]_vars, NEW a \in Appliances
    PROVE  Continues(a)'
<1>1. level[a] \in Int /\ live[a] \in Int
  <2>1. level[a] \in Nat /\ live[a] \in Int
    BY NumbersAre DEF ImportInv
  <2> QED
    BY <2>1
<1>2. cut[a] # None => cut[a] \in Calls /\ pc[cut[a]] = "done"
  <2>1. cut \in [Appliances -> Calls \cup {None}]
    BY DEF ImportInv, TypeOK
  <2>2. Continues(a)
    BY DEF ImportInv
  <2> QED
    BY <2>1, <2>2 DEF Continues
<1>3. level[a] = level[a] + 0 /\ live[a] = live[a] + 0 /\ 0 \in Int
  BY <1>1
<1>4. ASSUME NEW c \in Calls, CallStep(c), ~ VerifyAndCalibrate(c)
      PROVE  Continues(a)'
  <2>1. pc[c] # "done" /\ UNCHANGED <<live, cut>>
    BY <1>4 DEF CallStep, Step, HandleImport, ResolvePeriod, TakeLock, ResolveStart, ReadSources,
       ReadCosts, ComputeAndQueue, BlockTillDone, ReadBack, entryVars
  <2>2. UNCHANGED level /\ \A d \in Calls : d # c =>
               pc'[d] = pc[d] /\ req'[d] = req[d] /\ start'[d] = start[d]
    BY <1>4, CallStepFrame DEF ImportInv, Untouched, worldVars
  <2> QED
    BY <1>2, <1>3, <2>1, <2>2, ContinuesKeeps
<1>5. CASE RunTask
  <2>1. UNCHANGED <<level, live, cut, req, start>>
    BY <1>5 DEF RunTask, worldVars, entryVars, periodVars
  <2>2. \A d \in Calls : pc[d] = "done" => pc'[d] = pc[d]
    BY <1>5, RunTaskIs
  <2> QED
    BY <1>2, <1>3, <2>1, <2>2, ContinuesKeeps
<1>6. CASE CompileHour \/ Tick \/ UnloadEntry \/ SetupEntry \/ UNCHANGED vars
  <2>1. UNCHANGED <<level, live, cut, req, start, pc>>
    BY <1>6 DEF CompileHour, Tick, UnloadEntry, SetupEntry, vars, worldVars, entryVars, callVars,
       periodVars
  <2> QED
    BY <1>3, <2>1, ContinuesKeeps
<1>7. ASSUME NEW b \in Appliances, Consume(b)
      PROVE  Continues(a)'
  <2>1. /\ UNCHANGED <<cut, req, start, pc>>
        /\ level' = [level EXCEPT ![b] = level[b] + 1] /\ live' = [live EXCEPT ![b] = live[b] + 1]
    BY <1>7 DEF Consume, callVars, periodVars, ImportInv, TypeOK
  <2>2. \/ level'[a] = level[a] + 1 /\ live'[a] = live[a] + 1
        \/ level'[a] = level[a] + 0 /\ live'[a] = live[a] + 0
    BY <1>3, <2>1 DEF ImportInv, TypeOK
  <2> QED
    BY <2>1, <2>2, ContinuesKeeps
<1> QED
  BY <1>4, <1>5, <1>6, <1>7, ContinuesOfVerify DEF Next, CallStep

-----------------------------------------------------------------------------
(* The invariant holds.                                                     *)

LEMMA FirstLevels ==
    ASSUME NEW n \in Nat, n # 0, NEW d \in {0, 1}, NEW f,
           f = [[h \in 0 .. n |-> 0] EXCEPT ![1] = d]
    PROVE  /\ f \in [0 .. n -> Nat] /\ f[0] = 0 /\ f[1] \in Nat /\ f[0] <= f[1] /\ f[1] <= f[1]
           /\ f[0] <= f[0 + 1]
<1>1. f = [h \in 0 .. n |-> IF h = 1 THEN d ELSE 0]
  OBVIOUS
<1>2. d \in Nat /\ 0 \in 0 .. n /\ 1 \in 0 .. n /\ 0 + 1 = 1 /\ 0 <= d /\ d <= d
  OBVIOUS
<1>3. f \in [0 .. n -> Nat]
  BY <1>1, <1>2
<1>4. f[0] = 0 /\ f[1] = d
  BY <1>1, <1>2
<1> QED
  BY <1>2, <1>3, <1>4

LEMMA InitHolds == Init => ImportInv
<1> SUFFICES ASSUME Init PROVE ImportInv
  OBVIOUS
<1> USE DEF Init
<1>1. /\ MaxHour \in Nat /\ MaxHour # 0 /\ MaxGen \in Nat /\ MaxGen # 0 /\ None \notin Calls
  BY ImportAssumption DEF ImportAssumption
<1>2. ASSUME NEW a \in Appliances
      PROVE  /\ at[a] \in [0 .. MaxHour -> Nat] /\ level[a] \in Nat
             /\ at[a][0] <= at[a][0 + 1] /\ at[a][1] <= level[a]
  <2>1. PICK d \in {0, 1} : at[a] = [[h \in 0 .. MaxHour |-> 0] EXCEPT ![1] = d]
    OBVIOUS
  <2>2. PICK f : f = at[a]
    OBVIOUS
  <2>3. /\ f \in [0 .. MaxHour -> Nat] /\ f[1] \in Nat
        /\ f[1] <= f[1] /\ f[0] <= f[0 + 1]
    BY <1>1, <2>1, <2>2, FirstLevels
  <2>4. level[a] = at[a][1]
    OBVIOUS
  <2> QED
    BY <2>2, <2>3, <2>4
<1>3. at \in [Appliances -> [0 .. MaxHour -> Nat]] /\ level \in [Appliances -> Nat]
  <2>1. at = [a \in Appliances |-> at[a]] /\ level = [a \in Appliances |-> level[a]]
    OBVIOUS
  <2>2. \A a \in Appliances : level[a] \in Nat
    BY <1>2
  <2> QED
    BY <1>2, <2>1, <2>2
<1>4. 0 \in Hours /\ \A h \in Hours : h \in Int /\ 0 <= h
  BY <1>1 DEF Hours
<1>5. TypeOK
  <2>1. WorldTypes
    BY <1>1, <1>3 DEF WorldTypes, Rows
  <2>2. EntryTypes
    BY <1>1 DEF EntryTypes
  <2>3. RestTypes
    BY <1>1 DEF RestTypes, Rows
  <2>4. CallTypes
    BY <1>1, <1>4 DEF CallTypes, Stages
  <2> QED
    BY <2>1, <2>2, <2>3, <2>4, TypesAre
<1>6. Domains
  BY DEF Domains
<1>7. WorldInv
  <2>1. ASSUME NEW a \in Appliances
        PROVE  /\ \A h \in 0 .. hour - 1 : at[a][h] <= at[a][h + 1]
               /\ at[a][hour] <= level[a]
    <3>1. hour = 1 /\ \A h \in 0 .. hour - 1 : h = 0
      OBVIOUS
    <3> QED
      BY <1>2, <3>1
  <2>2. \A a \in Appliances : \A h \in Hours :
           energy[a][h] = None /\ cost[a][h] = None /\ ~ (h < compiled)
    BY <1>4
  <2> QED
    BY <2>1, <2>2 DEF WorldInv
<1>8. LockInv
  BY <1>1 DEF LockInv, Running
<1>9. QueueInv
  BY DEF QueueInv
<1>10. \A c \in Calls : CallInv(c)
  BY DEF CallInv, HasPeriod, HasSeen, HasRows, HasTask, Posted
<1>11. \A a \in Appliances : Continues(a)
  BY DEF Continues
<1> QED
  BY <1>5, <1>6, <1>7, <1>8, <1>9, <1>10, <1>11 DEF ImportInv

LEMMA StepHolds == ImportInv /\ [Next]_vars => ImportInv'
<1> SUFFICES ASSUME ImportInv, [Next]_vars PROVE ImportInv'
  OBVIOUS
<1>1. Domains'
  <2>1. CASE \E c \in Calls : CallStep(c)
    BY <2>1, CallStepFrame DEF ImportInv
  <2>2. CASE RunTask \/ CompileHour \/ Tick \/ (\E a \in Appliances : Consume(a))
             \/ UnloadEntry \/ SetupEntry \/ UNCHANGED vars
    <3>1. UNCHANGED <<seen, found, points>>
      BY <2>2 DEF RunTask, CompileHour, Tick, Consume, UnloadEntry, SetupEntry, vars, callVars
    <3> QED
      BY <3>1 DEF ImportInv, Domains
  <2> QED
    BY <2>1, <2>2 DEF Next, CallStep
<1> QED
  BY <1>1, TypeStep, WorldStep, LockStep, QueueStep, CallInvStep, ContinuesStep DEF ImportInv

LEMMA InvCorrect == Spec => []ImportInv
<1>1. Init => ImportInv
  BY InitHolds
<1>2. ImportInv /\ [Next]_vars => ImportInv'
  BY StepHolds
<1> QED
  BY <1>1, <1>2, PTL DEF Spec

(* The calls, the rows and the recorder's queue have their types, and only  *)
(* a running call holds a lock.                                             *)
THEOREM ImportTypeCorrect == Spec => []TypeOK
<1>1. ImportInv => TypeOK
  BY DEF ImportInv
<1> QED
  BY <1>1, InvCorrect, PTL

(* A sensor that a strict import calibrated has been charged for what was   *)
(* metered since the import's start, exactly; one that skipped hours, for   *)
(* no more.                                                                 *)
THEOREM ContinuesCorrect == Spec => []CutoverContinues
<1>1. ImportInv => CutoverContinues
  BY DEF ImportInv, Continues, CutoverContinues
<1> QED
  BY <1>1, InvCorrect, PTL

(* Two imports of the same load of the entry never overlap.                 *)
OneImportPerLoad ==
    \A c, d \in Calls : Running(c) /\ Running(d) /\ lock[c] = lock[d] => c = d

THEOREM OnePerLoadCorrect == Spec => []OneImportPerLoad
<1>1. ImportInv => OneImportPerLoad
  BY DEF ImportInv, LockInv, OneImportPerLoad
<1> QED
  BY <1>1, InvCorrect, PTL

(* Without a reload no two imports overlap at all. *)
THEOREM OneAtATimeCorrect ==
    ASSUME MaxGen = 1
    PROVE  Spec => []OneImportAtATime
<1>1. ImportInv => OneImportAtATime
  <2> SUFFICES ASSUME ImportInv, NEW c \in Calls, NEW d \in Calls, Running(c), Running(d)
               PROVE  c = d
    BY DEF OneImportAtATime
  <2>1. lock[c] \in 1 .. MaxGen /\ holder[lock[c]] = c /\ lock[d] \in 1 .. MaxGen
        /\ holder[lock[d]] = d
    BY DEF ImportInv, LockInv, Running
  <2>2. lock[c] = lock[d]
    BY <2>1
  <2> QED
    BY <2>1, <2>2
<1> QED
  BY <1>1, InvCorrect, PTL

-----------------------------------------------------------------------------
(* What the bounded reads find.                                             *)

LEMMA ResolveFinds ==
    ASSUME ImportInv, NEW c \in Calls, ResolveStart(c)
    PROVE  /\ pc'[c] = "resolved" =>
                 start'[c] \in priced /\ \A h \in priced : start'[c] <= h
           /\ pc'[c] = "failed" /\ SingleAppliance(c) =>
                 \A h \in priced : h >= End(c, now[c]) \/ End(c, now[c]) > now[c]
<1>1. /\ pc[c] = "resolving" /\ DOMAIN pc = Calls /\ DOMAIN start = Calls
  BY DEF ResolveStart, ImportInv, TypeOK
<1>2. WorldTypes
  BY TypesAre DEF ImportInv
<1>3. CASE FirstPriceStatisticsHour(priced) = {} /\ Over(c, "failed")
  <2>1. priced = {}
    BY <1>2, <1>3, PricedIsFound
  <2>2. pc'[c] = "failed"
    BY <1>1, <1>3 DEF Over
  <2> QED
    BY <2>1, <2>2
<1>4. ASSUME NEW first \in FirstPriceStatisticsHour(priced),
             ChoosePeriod(c, first, End(c, now[c]), now[c])
      PROVE  /\ pc'[c] = "resolved" =>
                   start'[c] \in priced /\ \A h \in priced : start'[c] <= h
             /\ pc'[c] = "failed" /\ SingleAppliance(c) =>
                   \A h \in priced : h >= End(c, now[c]) \/ End(c, now[c]) > now[c]
  <2>1. first \in priced /\ first \in Hours /\ \A h \in priced : first <= h
    BY <1>2, <1>4, FirstPriceIs
  <2>2. CASE Over(c, "failed") /\ (End(c, now[c]) <= first \/ End(c, now[c]) > now[c]
                                   \/ ~ SingleAppliance(c))
    <3>1. pc'[c] = "failed"
      BY <1>1, <2>2 DEF Over
    <3>2. End(c, now[c]) \in Int /\ first \in Int /\ \A h \in priced : h \in Int
      <4>1. /\ now[c] \in 0 .. MaxHour /\ req[c] \in RequestType
        BY <1>1, SelectedIs DEF ImportInv, TypeOK
      <4>2. req[c].end \in Hours \/ req[c].end = None
        BY <4>1 DEF RequestType
      <4>3. \A h \in Hours : h \in Int
        BY NumbersAre DEF ImportInv
      <4>4. now[c] \in Int
        BY <4>1
      <4>5. \A h \in priced : h \in 0 .. compiled - 1
        BY <1>2 DEF WorldTypes
      <4>6. \A h \in priced : h \in Int
        BY <4>5
      <4> QED
        BY <2>1, <4>2, <4>3, <4>4, <4>6 DEF End
    <3> DEFINE to == End(c, now[c])
    <3>3. SingleAppliance(c) => to <= first \/ to > now[c]
      BY <2>2
    <3>4. to \in Int
      BY <3>2
    <3> HIDE DEF to
    <3>5. ASSUME SingleAppliance(c), NEW h \in priced PROVE h >= to \/ to > now[c]
      <4>1. first <= h /\ first \in Int /\ h \in Int
        BY <2>1, <3>2
      <4> QED
        BY <3>3, <3>4, <3>5, <4>1
    <3> QED
      BY <3>1, <3>5 DEF to
  <2>3. CASE /\ pc' = [pc EXCEPT ![c] = "resolved"]
             /\ start' = [start EXCEPT ![c] = first]
    BY <1>1, <2>1, <2>3
  <2> QED
    BY <1>4, <2>2, <2>3 DEF ChoosePeriod
<1> QED
  BY <1>3, <1>4 DEF ResolveStart

LEMMA ReadFinds ==
    ASSUME ImportInv, NEW c \in Calls, ReadCosts(c)
    PROVE  \A a \in Selected(c) :
              a \in found'[c].before <=> \E h \in 0 .. start[c] - 1 : cost[a][h] # None
<1>1. /\ found' = [found EXCEPT ![c] =
             [inside |-> {a \in Selected(c) : CostRows(a) \cap Period(c) # {}},
              before |-> {a \in Selected(c) : LastPreStart(CostRows(a), start[c]) # {}}]]
  BY DEF ReadCosts
<1>2. found'[c].before = {a \in Selected(c) : LastPreStart(CostRows(a), start[c]) # {}}
  BY <1>1 DEF ImportInv, Domains
<1>3. start[c] \in Hours /\ FirstMonth
  BY ImportAssumption DEF ImportInv, TypeOK, ImportAssumption, FirstMonth
<1>4. \A h \in Hours : h \in Nat /\ h \in Int /\ 0 <= h
  BY NumbersAre DEF ImportInv
<1>5. \A h \in 0 .. start[c] - 1 : h \in Hours /\ h < start[c]
  <2>1. MaxHour \in Int /\ start[c] \in Int /\ start[c] < MaxHour
    BY <1>3, NumbersAre DEF ImportInv
  <2> QED
    BY <2>1 DEF Hours
<1>6. \A h \in Hours : h < start[c] => h \in 0 .. start[c] - 1
  <2>1. start[c] \in Int
    BY <1>3, <1>4
  <2> QED
    BY <1>4, <2>1
<1>7. ASSUME NEW a \in Selected(c)
      PROVE  a \in found'[c].before <=> \E h \in 0 .. start[c] - 1 : cost[a][h] # None
  <2> DEFINE before == {h \in CostRows(a) : h < start[c]}
  <2>1. \A h \in CostRows(a) : h \in Nat
    BY <1>4 DEF CostRows
  <2>2. LastPreStart(CostRows(a), start[c]) = IF before = {} THEN {} ELSE {Max(before)}
    BY <1>3, <1>4, <2>1, LastPreStartIsExact
  <2>3. before # {} <=> \E h \in 0 .. start[c] - 1 : cost[a][h] # None
    BY <1>5, <1>6 DEF CostRows
  <2> HIDE DEF before
  <2> QED
    BY <1>2, <2>2, <2>3
<1> QED
  BY <1>7

LEMMA ReadsHold ==
    ASSUME ImportInv, [Next]_vars
    PROVE  [\A c \in Calls :
              /\ pc[c] = "resolving" /\ pc'[c] = "resolved" =>
                   start'[c] \in priced /\ \A h \in priced : start'[c] <= h
              /\ pc[c] = "resolving" /\ pc'[c] = "failed" /\ SingleAppliance(c) =>
                   \A h \in priced : h >= End(c, now[c]) \/ End(c, now[c]) > now[c]
              /\ pc[c] = "sources read" /\ pc'[c] = "read" =>
                   \A a \in Selected(c) :
                      a \in found'[c].before <=> \E h \in 0 .. start[c] - 1 : cost[a][h] # None]_vars
<1> SUFFICES ASSUME Next, NEW c \in Calls, pc[c] # pc'[c],
                    pc[c] \in {"resolving", "sources read"}
             PROVE  /\ pc[c] = "resolving" /\ pc'[c] = "resolved" =>
                         start'[c] \in priced /\ \A h \in priced : start'[c] <= h
                    /\ pc[c] = "resolving" /\ pc'[c] = "failed" /\ SingleAppliance(c) =>
                         \A h \in priced : h >= End(c, now[c]) \/ End(c, now[c]) > now[c]
                    /\ pc[c] = "sources read" /\ pc'[c] = "read" =>
                         \A a \in Selected(c) :
                            a \in found'[c].before <=>
                                \E h \in 0 .. start[c] - 1 : cost[a][h] # None
  OBVIOUS
<1>1. CASE \E d \in Calls : CallStep(d)
  <2>1. PICK d \in Calls : CallStep(d)
    BY <1>1
  <2>2. d = c
    BY <2>1, CallStepFrame DEF ImportInv, Untouched
  <2>3. ResolveStart(c) \/ ReadCosts(c)
    BY <2>1, <2>2 DEF CallStep, Step, HandleImport, ResolvePeriod, ReadSources, ComputeAndQueue,
       BlockTillDone, ReadBack, VerifyAndCalibrate
  <2>4. CASE ResolveStart(c)
    BY <2>4, ResolveFinds DEF ResolveStart
  <2>5. CASE ReadCosts(c)
    BY <2>5, ReadFinds DEF ReadCosts
  <2> QED
    BY <2>3, <2>4, <2>5
<1>2. CASE RunTask
  BY <1>2, RunTaskIs
<1>3. CASE CompileHour \/ Tick \/ (\E a \in Appliances : Consume(a)) \/ UnloadEntry \/ SetupEntry
  BY <1>3 DEF CompileHour, Tick, Consume, UnloadEntry, SetupEntry, callVars
<1> QED
  BY <1>1, <1>2, <1>3 DEF Next, CallStep

(* The default start of an import is the first hour with a price, and the   *)
(* continuity gate knows of a row before the start exactly if there is one: *)
(* reading month by month misses nothing.                                   *)
THEOREM BoundedReadsCorrect == Spec => BoundedReadsAreExact
<1>1. ImportInv /\ [Next]_vars =>
          [\A c \in Calls :
              /\ pc[c] = "resolving" /\ pc'[c] = "resolved" =>
                   start'[c] \in priced /\ \A h \in priced : start'[c] <= h
              /\ pc[c] = "resolving" /\ pc'[c] = "failed" /\ SingleAppliance(c) =>
                   \A h \in priced : h >= End(c, now[c]) \/ End(c, now[c]) > now[c]
              /\ pc[c] = "sources read" /\ pc'[c] = "read" =>
                   \A a \in Selected(c) :
                      a \in found'[c].before <=> \E h \in 0 .. start[c] - 1 : cost[a][h] # None]_vars
  BY ReadsHold
<1> QED
  BY <1>1, InvCorrect, PTL DEF Spec, BoundedReadsAreExact

-----------------------------------------------------------------------------
(* The rows, as long as no two imports overlap.                             *)

LEMMA OrderStep ==
    ASSUME ImportInv, TasksInOrder, [Next]_vars
    PROVE  TasksInOrder'
<1> SUFFICES ASSUME "retry" \notin Faults
             PROVE  \A i \in DOMAIN queue' :
                       /\ pc'[queue'[i].call] \in {"queued", "blocked"}
                       /\ IsFence(queue'[i]) =>
                             \A j \in DOMAIN queue' : queue'[j].call = queue'[i].call => j <= i
  BY DEF TasksInOrder, IsFence
<1>1. \A i \in DOMAIN queue :
         /\ pc[queue[i].call] \in {"queued", "blocked"} /\ queue[i].call \in Calls
         /\ IsFence(queue[i]) => /\ pc[queue[i].call] = "blocked"
                                 /\ \A j \in DOMAIN queue : queue[j].call = queue[i].call => j <= i
  BY TasksAre DEF TasksInOrder, ImportInv, QueueInv
<1>a. DOMAIN pc = Calls /\ queue \in Seq(Task) /\ Len(queue) \in Nat /\ DOMAIN queue = 1 .. Len(queue)
  BY TasksAre DEF ImportInv, TypeOK
<1>2. ASSUME UNCHANGED queue,
             \A d \in Calls : pc[d] \in {"queued", "blocked"} => pc'[d] = pc[d]
      PROVE  \A i \in DOMAIN queue' :
                       /\ pc'[queue'[i].call] \in {"queued", "blocked"}
                       /\ IsFence(queue'[i]) =>
                             \A j \in DOMAIN queue' : queue'[j].call = queue'[i].call => j <= i
  BY <1>1, <1>2
<1>3. ASSUME NEW c \in Calls, CallStep(c), ~ BlockTillDone(c), ~ (ComputeAndQueue(c) /\ Gates(c))
      PROVE  UNCHANGED queue /\ \A d \in Calls : pc[d] \in {"queued", "blocked"} => pc'[d] = pc[d]
  <2>1. \A d \in Calls : d # c => pc'[d] = pc[d]
    BY <1>3, CallStepFrame DEF ImportInv, Untouched
  <2>2. UNCHANGED queue /\ pc[c] \notin {"queued", "blocked"}
    BY <1>3 DEF CallStep, Step, HandleImport, ResolvePeriod, TakeLock, ResolveStart, ReadSources,
       ReadCosts, ReadBack, VerifyAndCalibrate, ComputeAndQueue
  <2> QED
    BY <2>1, <2>2
<1>4. ASSUME NEW c \in Calls, ComputeAndQueue(c), Gates(c), NEW i \in DOMAIN queue'
      PROVE  /\ pc'[queue'[i].call] \in {"queued", "blocked"}
             /\ IsFence(queue'[i]) =>
                   \A j \in DOMAIN queue' : queue'[j].call = queue'[i].call => j <= i
  <2>1. /\ pc[c] = "read" /\ pc' = [pc EXCEPT ![c] = "queued"]
    BY <1>4, QueuedRows
  <2>2. PICK new \in Seq(Task) :
           /\ queue' = queue \o new
           /\ \A j \in DOMAIN new : new[j].call = c /\ new[j].appliance \in Selected(c)
    BY <1>4, QueuedRows
  <2>3. \A j \in DOMAIN queue' : \/ j \in DOMAIN queue /\ queue'[j] = queue[j]
                                 \/ queue'[j].call = c /\ queue'[j].appliance \in Selected(c)
    <3>1. ASSUME NEW j \in DOMAIN queue', j \notin DOMAIN queue
          PROVE  queue'[j].call = c /\ queue'[j].appliance \in Selected(c)
      <4>1. j - Len(queue) \in DOMAIN new /\ queue'[j] = new[j - Len(queue)]
        BY <1>a, <2>2, <3>1
      <4> QED
        BY <2>2, <4>1
    <3>2. \A j \in DOMAIN queue : queue'[j] = queue[j]
      BY <1>a, <2>2
    <3> QED
      BY <3>1, <3>2
  <2>4. None \notin Selected(c)
    BY <2>1, SelectedIs DEF ImportInv
  <2>5. \A j \in DOMAIN queue : queue[j].call # c
    BY <1>1, <2>1
  <2>6. pc'[c] = "queued" /\ \A d \in Calls : d # c => pc'[d] = pc[d]
    BY <1>a, <2>1
  <2>7. CASE i \in DOMAIN queue /\ queue'[i] = queue[i]
    BY <1>1, <2>3, <2>5, <2>6, <2>7
  <2>8. CASE queue'[i].call = c /\ queue'[i].appliance \in Selected(c)
    BY <2>4, <2>6, <2>8 DEF IsFence
  <2> QED
    BY <2>3, <2>7, <2>8
<1>5. ASSUME NEW c \in Calls, BlockTillDone(c), NEW i \in DOMAIN queue'
      PROVE  /\ pc'[queue'[i].call] \in {"queued", "blocked"}
             /\ IsFence(queue'[i]) =>
                   \A j \in DOMAIN queue' : queue'[j].call = queue'[i].call => j <= i
  <2> DEFINE fence == [call |-> c, appliance |-> None]
  <2>1. /\ pc[c] = "queued" /\ pc' = [pc EXCEPT ![c] = "blocked"] /\ queue' = Append(queue, fence)
    BY <1>5 DEF BlockTillDone
  <2>2. fence \in Task /\ fence.call = c
    BY DEF Task
  <2> HIDE DEF fence
  <2>3. /\ DOMAIN queue' = 1 .. Len(queue) + 1
        /\ \A j \in DOMAIN queue : queue'[j] = queue[j]
        /\ queue'[Len(queue) + 1] = fence
    BY <1>a, <2>1, <2>2
  <2>4. \A j \in DOMAIN queue' : \/ j \in DOMAIN queue /\ queue'[j] = queue[j]
                                 \/ j = Len(queue) + 1 /\ queue'[j] = fence
    BY <1>a, <2>3
  <2>5. pc'[c] = "blocked" /\ \A d \in Calls : d # c => pc'[d] = pc[d]
    BY <1>a, <2>1
  <2>6. CASE i \in DOMAIN queue /\ queue'[i] = queue[i]
    <3>1. pc'[queue'[i].call] \in {"queued", "blocked"}
      BY <1>1, <2>5, <2>6
    <3>2. IsFence(queue'[i]) => queue'[i].call # c
      BY <1>1, <2>1, <2>6
    <3> QED
      BY <1>1, <2>2, <2>4, <2>6, <3>1, <3>2
  <2>7. CASE i = Len(queue) + 1 /\ queue'[i] = fence
    <3>1. \A j \in DOMAIN queue' : j <= i
      BY <1>a, <2>3, <2>7
    <3> QED
      BY <2>2, <2>5, <2>7, <3>1
  <2> QED
    BY <2>4, <2>6, <2>7
<1>6. ASSUME RunTask, NEW i \in DOMAIN queue'
      PROVE  /\ pc'[queue'[i].call] \in {"queued", "blocked"}
             /\ IsFence(queue'[i]) =>
                   \A j \in DOMAIN queue' : queue'[j].call = queue'[i].call => j <= i
  <2>1. /\ queue # <<>> /\ queue' = Tail(queue) /\ Head(queue) = queue[1] /\ 1 \in DOMAIN queue
    BY <1>6, RunTaskIs
  <2>2. \A j \in DOMAIN queue' : j + 1 \in DOMAIN queue /\ j + 1 # 1 /\ queue'[j] = queue[j + 1]
    BY <2>1, TasksLeft DEF ImportInv
  <2>3. DOMAIN queue' = 1 .. Len(queue) - 1
    BY <2>1, TaskIs DEF ImportInv
  <2>4. pc'[queue'[i].call] = pc[queue'[i].call]
    <3>1. CASE IsFence(Head(queue))
      <4>1. \A d \in Calls : d # queue[1].call => pc'[d] = pc[d]
        BY <1>6, <2>1, <3>1, RunTaskIs
      <4>2. queue[i + 1].call # queue[1].call
        <5>1. queue[i + 1].call = queue[1].call => i + 1 <= 1
          BY <1>1, <2>1, <2>2, <3>1
        <5>2. ~ (i + 1 <= 1)
          BY <1>a, <2>3
        <5> QED
          BY <5>1, <5>2
      <4> QED
        BY <1>1, <2>2, <4>1, <4>2
    <3>2. CASE ~ IsFence(Head(queue))
      BY <1>6, <3>2, RunTaskIs
    <3> QED
      BY <3>1, <3>2
  <2>5. ASSUME IsFence(queue'[i]), NEW j \in DOMAIN queue', queue'[j].call = queue'[i].call
        PROVE  j <= i
    <3>1. j + 1 <= i + 1
      BY <1>1, <2>2, <2>5
    <3> QED
      BY <1>a, <2>3, <3>1
  <2> QED
    BY <1>1, <2>2, <2>4, <2>5
<1>7. CASE CompileHour \/ Tick \/ (\E a \in Appliances : Consume(a)) \/ UnloadEntry \/ SetupEntry
           \/ UNCHANGED vars
  <2>1. UNCHANGED <<queue, pc>>
    BY <1>7 DEF CompileHour, Tick, Consume, UnloadEntry, SetupEntry, vars, callVars
  <2> QED
    BY <1>2, <2>1
<1> QED
  BY <1>2, <1>3, <1>4, <1>5, <1>6, <1>7 DEF Next, CallStep

(* As long as calls do not overlap, the recorder's task is of the one that  *)
(* runs or still has rows to come.                                          *)
LEMMA OwnTask ==
    ASSUME ImportInv, WriteInv, OneImportAtATime, Orderly, queue # <<>>,
           NEW c \in Calls, HasRows(c) \/ Running(c)
    PROVE  Head(queue).call = c
<1>1. Head(queue) = queue[1] /\ 1 \in DOMAIN queue /\ queue[1].call \in Calls
  BY TaskIs, TasksAre DEF ImportInv
<1>2. CASE "retry" \notin Faults
  <2>1. \A i \in DOMAIN queue : pc[queue[i].call] \in {"queued", "blocked"}
    BY <1>2 DEF WriteInv, TasksInOrder
  <2>2. Running(Head(queue).call)
    BY <1>1, <2>1 DEF Running
  <2>3. Running(c)
    BY <2>1 DEF HasRows, HasTask, Running, Posted
  <2> QED
    BY <1>1, <2>2, <2>3 DEF OneImportAtATime
<1> QED
  BY <1>1, <1>2 DEF Orderly

LEMMA StartsPass ==
    ASSUME ImportInv, [Next]_vars, NEW c \in Calls, start[c] < hour
    PROVE  start[c] < hour'
<1>1. hour <= hour'
  BY WorldMoves
<1>2. hour' \in Int
  <2>1. TypeOK'
    BY TypeStep
  <2>2. hour' \in 1 .. MaxHour
    BY <2>1 DEF TypeOK
  <2> QED
    BY <2>2
<1>3. start[c] \in Int /\ hour \in Int
  <2>1. start[c] \in Hours
    BY DEF ImportInv, TypeOK
  <2> QED
    BY <2>1, NumbersAre DEF ImportInv
<1> QED
  BY <1>1, <1>2, <1>3

(* Rows that stay are as they were to a call that stays. *)
LEMMA RowsKeep ==
    ASSUME ImportInv, [Next]_vars, UNCHANGED cost, NEW c \in Calls, RowsInv(c),
           pc'[c] \in {"sources read", "read", "read back"} =>
               /\ pc'[c] = pc[c] /\ seen'[c] = seen[c] /\ found'[c] = found[c]
               /\ start'[c] = start[c] /\ end'[c] = end[c] /\ req'[c] = req[c]
               /\ confirmed'[c] = confirmed[c],
           HasRows(c)' => HasRows(c) /\ points'[c] = points[c] /\ req'[c] = req[c]
                          /\ start'[c] = start[c]
    PROVE  RowsInv(c)'
<1>1. ASSUME pc'[c] = "sources read"
      PROVE  \A a \in Selected(c)' : \A h \in Hours : seen'[c][a][h] # None => h \in Period(c)'
  BY <1>1 DEF RowsInv, Selected, Period
<1>2. ASSUME pc'[c] = "read"
      PROVE  \A a \in Selected(c)' :
                /\ a \notin found'[c].inside =>
                      \A h \in Hours : seen'[c][a][h] # None => cost'[a][h] = None
                /\ a \notin found'[c].before =>
                      \A h \in Hours : h < start'[c] => cost'[a][h] = None
  <2>1. /\ pc[c] = "read" /\ seen'[c] = seen[c] /\ found'[c] = found[c]
        /\ start'[c] = start[c] /\ Selected(c)' = Selected(c)
    BY <1>2 DEF Selected
  <2>2. \A a \in Selected(c) :
           /\ a \notin found[c].inside =>
                 \A h \in Hours : seen[c][a][h] # None => cost[a][h] = None
           /\ a \notin found[c].before =>
                 \A h \in Hours : h < start[c] => cost[a][h] = None
    BY <2>1 DEF RowsInv
  <2>3. cost' = cost
    OBVIOUS
  <2> QED
    BY ONLY <2>1, <2>2, <2>3
<1>3. ASSUME HasRows(c)'
      PROVE  /\ start'[c] < hour'
             /\ \A a \in Selected(c)' :
                   /\ ~ req'[c].overwrite =>
                         \A h \in DOMAIN points'[c][a] :
                            cost'[a][h] # None => cost'[a][h].sum = points'[c][a][h]
                   /\ req'[c].initial = None =>
                         \A h \in Hours : h < start'[c] => cost'[a][h] = None
  <2>1. HasRows(c) /\ points'[c] = points[c] /\ req'[c] = req[c] /\ start'[c] = start[c]
    BY <1>3
  <2>2. Selected(c)' = Selected(c)
    BY <2>1 DEF Selected
  <2>3. start'[c] < hour'
    <3>1. start[c] < hour
      BY <2>1 DEF RowsInv
    <3>2. start[c] < hour'
      BY <3>1, StartsPass
    <3> QED
      BY <2>1, <3>2
  <2>4. \A a \in Selected(c) :
           /\ ~ req[c].overwrite =>
                 \A h \in DOMAIN points[c][a] :
                    cost[a][h] # None => cost[a][h].sum = points[c][a][h]
           /\ req[c].initial = None =>
                 \A h \in Hours : h < start[c] => cost[a][h] = None
    BY <2>1 DEF RowsInv
  <2>5. cost' = cost
    OBVIOUS
  <2>6. \A a \in Selected(c)' :
           /\ ~ req'[c].overwrite =>
                 \A h \in DOMAIN points'[c][a] :
                    cost'[a][h] # None => cost'[a][h].sum = points'[c][a][h]
           /\ req'[c].initial = None =>
                 \A h \in Hours : h < start'[c] => cost'[a][h] = None
    <3>1. \A a \in Selected(c) :
             /\ ~ req[c].overwrite =>
                   \A h \in DOMAIN points[c][a] :
                      cost'[a][h] # None => cost'[a][h].sum = points[c][a][h]
             /\ req[c].initial = None =>
                   \A h \in Hours : h < start[c] => cost'[a][h] = None
      BY <2>4, <2>5
    <3>2. points'[c] = points[c] /\ req'[c] = req[c] /\ start'[c] = start[c]
      BY <2>1
    <3> QED
      BY ONLY <2>2, <3>1, <3>2
  <2> QED
    BY <2>3, <2>6
<1>4. ASSUME pc'[c] = "read back", confirmed'[c]
      PROVE  Agrees(c)'
  <2>1. HasRows(c)'
    BY <1>4 DEF HasRows, Posted
  <2>2. pc[c] = "read back" /\ confirmed[c] /\ points'[c] = points[c] /\ req'[c] = req[c]
    BY <1>4, <2>1
  <2>3. Agrees(c)
    BY <2>2 DEF RowsInv
  <2>4. Selected(c)' = Selected(c) /\ cost' = cost
    BY <2>2 DEF Selected
  <2>5. \A a \in Selected(c) : \A h \in DOMAIN points[c][a] :
           cost[a][h] # None /\ cost[a][h].sum = points[c][a][h]
    BY <2>3 DEF Agrees
  <2>6. \A a \in Selected(c)' : \A h \in DOMAIN points'[c][a] :
           cost'[a][h] # None /\ cost'[a][h].sum = points'[c][a][h]
    <3>1. \A a \in Selected(c) : \A h \in DOMAIN points[c][a] :
             cost'[a][h] # None /\ cost'[a][h].sum = points[c][a][h]
      BY <2>4, <2>5
    <3>2. points'[c] = points[c] /\ Selected(c)' = Selected(c)
      BY <2>2, <2>4
    <3> QED
      BY ONLY <3>1, <3>2
  <2> QED
    BY <2>6 DEF Agrees
<1> QED
  BY <1>1, <1>2, <1>3, <1>4 DEF RowsInv

(* The compile writes behind every call's period: nobody sees it.           *)
LEMMA RowsOfCompile ==
    ASSUME ImportInv, CompileHour, NEW c \in Calls, RowsInv(c)
    PROVE  RowsInv(c)'
<1>1. /\ UNCHANGED <<hour, queue, pc, req, start, end, seen, found, points, confirmed>>
      /\ \A a \in Appliances : \A h \in Hours : h # compiled => cost'[a][h] = cost[a][h]
  BY CompileIs DEF callVars, periodVars
<1>2. /\ hour \in Int /\ compiled \in Int /\ hour - 1 <= compiled
      /\ \A h \in Hours : h \in Int
  BY NumbersAre DEF ImportInv, WorldInv
<1>3. HasRows(c) \/ HasSeen(c) => pc[c] # "idle"
  BY TaskOwner DEF HasRows, HasSeen, Posted, Behind, ImportInv
<1>4. HasRows(c) \/ HasSeen(c) => Selected(c) \subseteq Appliances
  BY <1>3, SelectedIs DEF ImportInv
<1>5. ASSUME HasRows(c) \/ HasSeen(c), NEW h \in Hours, h < start[c]
      PROVE  h # compiled
  <2>1. start[c] \in Int
    <3>1. start[c] \in Hours
      BY DEF ImportInv, TypeOK
    <3> QED
      BY <1>2, <3>1
  <2>2. start[c] < hour
    <3>1. CASE HasRows(c)
      BY <3>1 DEF RowsInv
    <3>2. CASE HasSeen(c)
      <4>1. start[c] < end[c] /\ end[c] <= hour
        BY <3>2 DEF ImportInv, CallInv, HasPeriod
      <4>2. end[c] \in 0 .. MaxHour
        BY DEF ImportInv, TypeOK
      <4>3. end[c] \in Int
        BY <4>2
      <4> QED
        BY <1>2, <2>1, <4>1, <4>3
    <3> QED
      BY <1>5, <3>1, <3>2
  <2> QED
    BY <1>2, <1>5, <2>1, <2>2
<1>6. ASSUME HasSeen(c), NEW a \in Selected(c), NEW h \in Hours, seen[c][a][h] # None
      PROVE  h # compiled
  <2>1. h < compiled
    BY <1>6 DEF ImportInv, CallInv, TrueRows
  <2> QED
    BY <1>2, <2>1
<1>7. ASSUME HasRows(c), NEW a \in Selected(c), NEW h \in DOMAIN points[c][a]
      PROVE  h \in Hours /\ h # compiled
  <2>1. h \in Hours /\ h < compiled
    BY <1>7 DEF ImportInv, CallInv
  <2> QED
    BY <1>2, <2>1
<1>8. HasRows(c)' => HasRows(c)
  BY <1>1 DEF HasRows, HasTask
<1>9. Selected(c)' = Selected(c) /\ Period(c)' = Period(c)
  BY <1>1 DEF Selected, Period
<1>10. ASSUME pc[c] = "read", NEW a \in Selected(c)
       PROVE  /\ a \notin found[c].inside =>
                    \A h \in Hours : seen[c][a][h] # None => cost'[a][h] = None
              /\ a \notin found[c].before =>
                    \A h \in Hours : h < start[c] => cost'[a][h] = None
  <2>1. HasSeen(c) /\ a \in Appliances
    BY <1>4, <1>10 DEF HasSeen
  <2>2. /\ a \notin found[c].inside =>
              \A h \in Hours : seen[c][a][h] # None => cost[a][h] = None
        /\ a \notin found[c].before =>
              \A h \in Hours : h < start[c] => cost[a][h] = None
    BY <1>10 DEF RowsInv
  <2> QED
    BY <1>1, <1>5, <1>6, <2>1, <2>2
<1>11. ASSUME HasRows(c), NEW a \in Selected(c)
       PROVE  /\ ~ req[c].overwrite =>
                    \A h \in DOMAIN points[c][a] :
                       cost'[a][h] # None => cost'[a][h].sum = points[c][a][h]
              /\ req[c].initial = None =>
                    \A h \in Hours : h < start[c] => cost'[a][h] = None
  <2>1. a \in Appliances
    BY <1>4, <1>11
  <2>2. /\ ~ req[c].overwrite =>
              \A h \in DOMAIN points[c][a] :
                 cost[a][h] # None => cost[a][h].sum = points[c][a][h]
        /\ req[c].initial = None =>
              \A h \in Hours : h < start[c] => cost[a][h] = None
    BY <1>11 DEF RowsInv
  <2>3. ASSUME NEW h \in DOMAIN points[c][a] PROVE cost'[a][h] = cost[a][h]
    BY <1>1, <1>7, <1>11, <2>1
  <2>4. ASSUME NEW h \in Hours, h < start[c] PROVE cost'[a][h] = cost[a][h]
    BY <1>1, <1>5, <1>11, <2>1, <2>4
  <2> QED
    BY <2>2, <2>3, <2>4
<1>12. ASSUME pc[c] = "read back", confirmed[c], NEW a \in Selected(c), NEW h \in DOMAIN points[c][a]
       PROVE  cost'[a][h] # None /\ cost'[a][h].sum = points[c][a][h]
  <2>1. HasRows(c) /\ Agrees(c)
    BY <1>12 DEF HasRows, Posted, RowsInv
  <2>2. a \in Appliances /\ h \in Hours /\ h # compiled
    BY <1>4, <1>7, <1>12, <2>1
  <2>3. cost'[a][h] = cost[a][h]
    BY <1>1, <2>2
  <2>4. cost[a][h] # None /\ cost[a][h].sum = points[c][a][h]
    BY <1>12, <2>1 DEF Agrees
  <2> QED
    BY <2>3, <2>4
<1>13. pc[c] = "sources read" =>
          \A a \in Selected(c) : \A h \in Hours : seen[c][a][h] # None => h \in Period(c)
  BY DEF RowsInv
<1>14. HasRows(c) => start[c] < hour
  BY DEF RowsInv
<1>15. pc'[c] = "read back" /\ confirmed'[c] => Agrees(c)'
  BY <1>1, <1>9, <1>12 DEF Agrees
<1>16. HasRows(c)' => start'[c] < hour' /\ \A a \in Selected(c)' :
          /\ ~ req'[c].overwrite =>
                \A h \in DOMAIN points'[c][a] :
                   cost'[a][h] # None => cost'[a][h].sum = points'[c][a][h]
          /\ req'[c].initial = None =>
                \A h \in Hours : h < start'[c] => cost'[a][h] = None
  BY <1>1, <1>8, <1>9, <1>11, <1>14
<1>17. pc'[c] = "read" => \A a \in Selected(c)' :
          /\ a \notin found'[c].inside =>
                \A h \in Hours : seen'[c][a][h] # None => cost'[a][h] = None
          /\ a \notin found'[c].before =>
                \A h \in Hours : h < start'[c] => cost'[a][h] = None
  BY <1>1, <1>9, <1>10
<1>18. pc'[c] = "sources read" =>
          \A a \in Selected(c)' : \A h \in Hours : seen'[c][a][h] # None => h \in Period(c)'
  BY <1>1, <1>9, <1>13
<1> QED
  BY <1>15, <1>16, <1>17, <1>18 DEF RowsInv

(* The recorder writes rows: of the call that waits for them. *)
LEMMA RowsOfImport ==
    ASSUME ImportInv, WriteInv, OneImportAtATime, Orderly, [Next]_vars, RunTask,
           ~ IsFence(Head(queue)), Import(Head(queue)), NEW c \in Calls
    PROVE  RowsInv(c)'
<1>1. /\ queue # <<>> /\ UNCHANGED <<worldVars, req, periodVars, seen, found, points, confirmed, pc>>
  BY RunTaskIs
<1>2. UNCHANGED <<hour, start, end>>
  BY <1>1 DEF worldVars, periodVars
<1>3. PICK d, b : d = Head(queue).call /\ b = Head(queue).appliance
  OBVIOUS
<1>4. /\ d \in Calls /\ b \in Selected(d) /\ b \in Appliances /\ HasTask(d)
      /\ \A h \in DOMAIN points[d][b] :
            /\ h \in Hours /\ start[d] <= h /\ h < compiled /\ points[d][b][h] \in Int
            /\ cost'[b][h] = [by |-> d, sum |-> points[d][b][h]]
      /\ \A a \in Appliances : \A h \in Hours :
            a # b \/ h \notin DOMAIN points[d][b] => cost'[a][h] = cost[a][h]
  BY <1>1, <1>3, ImportIs
<1>5. /\ HasRows(c) \/ Running(c) => d = c
  BY <1>1, <1>3, OwnTask
<1>6. pc[c] # "read"
  <2>1. d = c => pc[c] \in Behind
    BY <1>4, TaskOwner DEF ImportInv
  <2> QED
    BY <1>5, <2>1 DEF Running, Behind, Posted
<1>7. RowsInv(c)
  BY DEF WriteInv
<1>8. HasRows(c)' => HasRows(c)
  <2>1. \E f : /\ \A i \in DOMAIN queue' : f[i] \in DOMAIN queue /\ queue'[i] = queue[f[i]]
               /\ \A i, j \in DOMAIN queue' : f[i] = f[j] => i = j
    BY <1>1, RunTaskIs, TasksLeft DEF ImportInv
  <2> QED
    BY <1>1, <2>1 DEF HasRows, HasTask
<1>9. Selected(c)' = Selected(c) /\ Period(c)' = Period(c)
  BY <1>1, <1>2 DEF Selected, Period
<1>10. HasRows(c) => Selected(c) \subseteq Appliances
  <2>1. HasRows(c) => pc[c] # "idle"
    BY TaskOwner DEF HasRows, Posted, Behind, ImportInv
  <2> QED
    BY <2>1, SelectedIs DEF ImportInv
<1>11. ASSUME HasRows(c), NEW a \in Selected(c), NEW h \in DOMAIN points[c][a]
       PROVE  /\ \/ cost'[a][h] = [by |-> c, sum |-> points[c][a][h]]
                 \/ cost'[a][h] = cost[a][h]
  <2>1. h \in Hours /\ a \in Appliances /\ d = c
    BY <1>5, <1>10, <1>11 DEF ImportInv, CallInv
  <2> QED
    BY <1>4, <1>11, <2>1
<1>12. ASSUME HasRows(c), NEW a \in Selected(c), NEW h \in Hours, h < start[c]
       PROVE  cost'[a][h] = cost[a][h]
  <2>1. a \in Appliances /\ d = c
    BY <1>5, <1>10, <1>12
  <2>2. h \notin DOMAIN points[d][b]
    <3>1. start[c] \in Int /\ h \in Int
      <4>1. start[c] \in Hours
        BY DEF ImportInv, TypeOK
      <4> QED
        BY <4>1, NumbersAre DEF ImportInv
    <3>2. h \in DOMAIN points[d][b] => start[c] <= h
      BY <1>4, <2>1
    <3> QED
      BY <1>12, <3>1, <3>2
  <2> QED
    BY <1>4, <2>1, <2>2
<1>13. ASSUME HasRows(c)
       PROVE  /\ start[c] < hour
              /\ \A a \in Selected(c) :
                    /\ ~ req[c].overwrite =>
                          \A h \in DOMAIN points[c][a] :
                             cost'[a][h] # None => cost'[a][h].sum = points[c][a][h]
                    /\ req[c].initial = None =>
                          \A h \in Hours : h < start[c] => cost'[a][h] = None
  <2>1. /\ start[c] < hour
        /\ \A a \in Selected(c) :
              /\ ~ req[c].overwrite =>
                    \A h \in DOMAIN points[c][a] :
                       cost[a][h] # None => cost[a][h].sum = points[c][a][h]
              /\ req[c].initial = None =>
                    \A h \in Hours : h < start[c] => cost[a][h] = None
    BY <1>7, <1>13 DEF RowsInv
  <2>2. ASSUME NEW a \in Selected(c), ~ req[c].overwrite, NEW h \in DOMAIN points[c][a],
               cost'[a][h] # None
        PROVE  cost'[a][h].sum = points[c][a][h]
    <3>1. CASE cost'[a][h] = [by |-> c, sum |-> points[c][a][h]]
      BY <3>1
    <3>2. CASE cost'[a][h] = cost[a][h]
      BY <2>1, <2>2, <3>2
    <3> QED
      BY <1>11, <1>13, <2>2, <3>1, <3>2
  <2>3. ASSUME NEW a \in Selected(c), req[c].initial = None, NEW h \in Hours, h < start[c]
        PROVE  cost'[a][h] = None
    BY <1>12, <1>13, <2>1, <2>3
  <2> QED
    BY <2>1, <2>2, <2>3
<1>14. ASSUME pc[c] = "read back", confirmed[c], NEW a \in Selected(c), NEW h \in DOMAIN points[c][a]
       PROVE  cost'[a][h] # None /\ cost'[a][h].sum = points[c][a][h]
  <2>1. HasRows(c) /\ Agrees(c)
    BY <1>7, <1>14 DEF HasRows, Posted, RowsInv
  <2>2. cost[a][h] # None /\ cost[a][h].sum = points[c][a][h]
    BY <1>14, <2>1 DEF Agrees
  <2>3. CASE cost'[a][h] = cost[a][h]
    BY <2>2, <2>3
  <2>4. CASE cost'[a][h] = [by |-> c, sum |-> points[c][a][h]]
    <3>1. points[c][a][h] \in Int
      BY <1>14, <2>1 DEF ImportInv, CallInv
    <3>2. [by |-> c, sum |-> points[c][a][h]] \in CostRow
      BY <3>1 DEF CostRow
    <3>3. [by |-> c, sum |-> points[c][a][h]] # None
      BY <3>2, ImportAssumption DEF ImportAssumption
    <3> QED
      BY <2>4, <3>3
  <2> QED
    BY <1>11, <1>14, <2>1, <2>3, <2>4
<1>15. pc'[c] = "read back" /\ confirmed'[c] => Agrees(c)'
  BY <1>1, <1>9, <1>14 DEF Agrees
<1>16. HasRows(c)' => start'[c] < hour' /\ \A a \in Selected(c)' :
          /\ ~ req'[c].overwrite =>
                \A h \in DOMAIN points'[c][a] :
                   cost'[a][h] # None => cost'[a][h].sum = points'[c][a][h]
          /\ req'[c].initial = None =>
                \A h \in Hours : h < start'[c] => cost'[a][h] = None
  BY <1>1, <1>2, <1>8, <1>9, <1>13
<1>17. pc'[c] # "read"
  BY <1>1, <1>6
<1>18. pc'[c] = "sources read" =>
          \A a \in Selected(c)' : \A h \in Hours : seen'[c][a][h] # None => h \in Period(c)'
  BY <1>1, <1>7, <1>9 DEF RowsInv
<1> QED
  BY <1>15, <1>16, <1>17, <1>18 DEF RowsInv

LEMMA RowsOfReadSources ==
    ASSUME ImportInv, NEW c \in Calls, ReadSources(c)
    PROVE  RowsInv(c)'
<1>1. /\ pc[c] = "resolved" /\ pc' = [pc EXCEPT ![c] = "sources read"]
      /\ UNCHANGED <<queue, req, start, end>>
      /\ seen' = [seen EXCEPT ![c] =
                     [a \in Selected(c) |->
                         [h \in Hours |-> IF h \in Period(c) THEN energy[a][h] ELSE None]]]
  BY DEF ReadSources, periodVars
<1>2. pc'[c] = "sources read" /\ Selected(c)' = Selected(c) /\ Period(c)' = Period(c)
  BY <1>1 DEF ImportInv, TypeOK, Selected, Period
<1>3. ~ HasTask(c)'
  <2>1. ~ HasTask(c)
    BY <1>1, TaskOwner DEF ImportInv, Behind, Posted
  <2> QED
    BY <1>1, <2>1 DEF HasTask
<1>4. \A a \in Selected(c) : \A h \in Hours : seen'[c][a][h] # None => h \in Period(c)
  BY <1>1 DEF ImportInv, Domains
<1> QED
  BY <1>2, <1>3, <1>4 DEF RowsInv, HasRows, Posted

(* What a call has found of the rows, and of those before its period. *)
LEMMA RowsOfReadCosts ==
    ASSUME ImportInv, NEW c \in Calls, RowsInv(c), ReadCosts(c)
    PROVE  RowsInv(c)'
<1>1. /\ pc[c] = "sources read" /\ pc' = [pc EXCEPT ![c] = "read"]
      /\ UNCHANGED <<queue, req, start, end, seen, cost>>
      /\ found' = [found EXCEPT ![c] =
             [inside |-> {a \in Selected(c) : CostRows(a) \cap Period(c) # {}},
              before |-> {a \in Selected(c) : LastPreStart(CostRows(a), start[c]) # {}}]]
  BY DEF ReadCosts, periodVars
<1>2. pc'[c] = "read" /\ Selected(c)' = Selected(c)
  BY <1>1 DEF ImportInv, TypeOK, Selected
<1>3. ~ HasTask(c)'
  <2>1. ~ HasTask(c)
    BY <1>1, TaskOwner DEF ImportInv, Behind, Posted
  <2> QED
    BY <1>1, <2>1 DEF HasTask
<1>4. ASSUME NEW a \in Selected(c), a \notin found'[c].inside, NEW h \in Hours,
             seen[c][a][h] # None
      PROVE  cost[a][h] = None
  <2>1. h \in Period(c)
    BY <1>1, <1>4 DEF RowsInv
  <2>2. found'[c].inside = {b \in Selected(c) : CostRows(b) \cap Period(c) # {}}
    BY <1>1 DEF ImportInv, Domains
  <2>3. h \notin CostRows(a)
    BY <1>4, <2>1, <2>2
  <2> QED
    BY <2>3 DEF CostRows
<1>5. ASSUME NEW a \in Selected(c), a \notin found'[c].before, NEW h \in Hours, h < start[c]
      PROVE  cost[a][h] = None
  <2>1. ~ \E g \in 0 .. start[c] - 1 : cost[a][g] # None
    BY <1>5, ReadFinds
  <2>2. h \in 0 .. start[c] - 1
    <3>1. start[c] \in Hours
      BY DEF ImportInv, TypeOK
    <3>2. start[c] \in Int /\ h \in Int /\ 0 <= h
      BY <3>1, NumbersAre DEF ImportInv
    <3> QED
      BY <1>5, <3>2
  <2> QED
    BY <2>1, <2>2
<1> QED
  BY <1>1, <1>2, <1>3, <1>4, <1>5 DEF RowsInv, HasRows, Posted

(* The gates let a call through whose hours are empty, if it may not        *)
(* overwrite, and before whose start is nothing, if it starts from zero.    *)
LEMMA RowsOfCompute ==
    ASSUME ImportInv, NEW c \in Calls, RowsInv(c), ComputeAndQueue(c), Gates(c)
    PROVE  RowsInv(c)'
<1>1. /\ UNCHANGED <<hour, cost, req, start, end, seen, found>>
      /\ pc[c] = "read" /\ pc' = [pc EXCEPT ![c] = "queued"]
      /\ points' = [points EXCEPT ![c] =
                       [a \in Selected(c) |-> Series(seen[c][a], InitialCost(c))]]
  BY QueuedRows
<1>2. pc'[c] = "queued" /\ Selected(c)' = Selected(c)
  BY <1>1 DEF ImportInv, TypeOK, Selected
<1>3. NoOverlap(c) /\ Continuous(c)
  BY DEF Gates
<1>4. ASSUME NEW a \in Selected(c), ~ req[c].overwrite, NEW h \in DOMAIN points'[c][a]
      PROVE  cost[a][h] = None
  <2>1. a \notin found[c].inside
    BY <1>3, <1>4 DEF NoOverlap
  <2>2. h \in Hours /\ seen[c][a][h] # None
    <3>1. points'[c][a] = Series(seen[c][a], InitialCost(c))
      BY <1>1 DEF ImportInv, Domains
    <3>2. h \in Costed(seen[c][a])
      BY <1>4, <3>1 DEF Series
    <3>3. seen[c][a] \in SeenRows
      BY <1>1 DEF ImportInv, CallInv, HasSeen, SeenRows
    <3> QED
      BY <3>2, <3>3, KnownIs
  <2> QED
    BY <1>1, <2>1, <2>2 DEF RowsInv
<1>5. ASSUME NEW a \in Selected(c), req[c].initial = None, NEW h \in Hours, h < start[c]
      PROVE  cost[a][h] = None
  <2>1. a \notin found[c].before
    BY <1>3, <1>5 DEF Continuous
  <2> QED
    BY <1>1, <1>5, <2>1 DEF RowsInv
<1>6. start[c] < hour
  <2>1. start[c] < end[c] /\ end[c] <= hour
    BY <1>1 DEF ImportInv, CallInv, HasPeriod, HasSeen
  <2>2. start[c] \in Hours /\ end[c] \in 0 .. MaxHour
    BY DEF ImportInv, TypeOK
  <2>3. start[c] \in Int /\ end[c] \in Int /\ hour \in Int
    BY <2>2, NumbersAre DEF ImportInv
  <2> QED
    BY <2>1, <2>3
<1> QED
  BY <1>1, <1>2, <1>4, <1>5, <1>6 DEF RowsInv, HasRows

LEMMA RowsOfReadBack ==
    ASSUME ImportInv, NEW c \in Calls, RowsInv(c), ReadBack(c)
    PROVE  RowsInv(c)'
<1>1. /\ pc[c] = "passed" /\ pc' = [pc EXCEPT ![c] = "read back"]
      /\ confirmed' = [confirmed EXCEPT ![c] = Agrees(c)]
      /\ UNCHANGED <<hour, queue, cost, req, start, points>>
  BY DEF ReadBack, worldVars, periodVars
<1>2. pc'[c] = "read back" /\ Selected(c)' = Selected(c) /\ (Agrees(c)' <=> Agrees(c))
  BY <1>1 DEF ImportInv, TypeOK, Selected, Agrees
<1>3. confirmed'[c] = Agrees(c)
  <2>1. DOMAIN confirmed = Calls
    BY DEF ImportInv, TypeOK
  <2> HIDE DEF Agrees
  <2> QED
    BY <1>1, <2>1
<1>4. HasRows(c)
  BY <1>1 DEF HasRows, Posted
<1>5. /\ start[c] < hour
      /\ \A a \in Selected(c) :
            /\ ~ req[c].overwrite =>
                  \A h \in DOMAIN points[c][a] :
                     cost[a][h] # None => cost[a][h].sum = points[c][a][h]
            /\ req[c].initial = None =>
                  \A h \in Hours : h < start[c] => cost[a][h] = None
  BY <1>4 DEF RowsInv
<1> QED
  BY <1>1, <1>2, <1>3, <1>5 DEF RowsInv

LEMMA RowsStep ==
    ASSUME ImportInv, WriteInv, OneImportAtATime, Orderly, [Next]_vars, NEW c \in Calls
    PROVE  RowsInv(c)'
<1>a. RowsInv(c) /\ DOMAIN pc = Calls
  BY DEF WriteInv, ImportInv, TypeOK
<1>1. ASSUME NEW d \in Calls, d # c, CallStep(d)
      PROVE  RowsInv(c)'
  <2>1. Untouched(c) /\ UNCHANGED cost
    BY <1>1, CallStepFrame DEF ImportInv
  <2>2. HasTask(c)' => HasTask(c)
    BY <1>1, TasksOfStep
  <2> QED
    BY <1>a, <2>1, <2>2, RowsKeep DEF Untouched, HasRows
<1>2. CASE CallStep(c)
  <2>0. UNCHANGED cost
    BY <1>2, CallStepFrame DEF ImportInv
  <2>1. CASE \/ \E r \in Requests : HandleImport(c, r)
             \/ ResolvePeriod(c) \/ ResolveStart(c)
    <3>1. pc[c] \in {"idle", "waiting", "resolving"} /\ UNCHANGED queue
      BY <2>1 DEF HandleImport, ResolvePeriod, TakeLock, ResolveStart
    <3>2. ~ HasTask(c)'
      BY <3>1, TaskOwner DEF HasTask, ImportInv, Behind, Posted
    <3>3. pc'[c] \in {"waiting", "resolving", "resolved", "failed"}
      BY <1>a, <2>1 DEF HandleImport, ResolvePeriod, TakeLock, ResolveStart, ChoosePeriod, Over
    <3> QED
      BY <3>2, <3>3 DEF RowsInv, HasRows, Posted
  <2>2. CASE BlockTillDone(c)
    <3>1. /\ pc[c] = "queued" /\ pc'[c] = "blocked" /\ UNCHANGED <<req, start, points>>
      BY <1>a, <2>2 DEF BlockTillDone, periodVars
    <3>2. HasRows(c)
      BY <3>1 DEF HasRows, Posted
    <3> QED
      BY <1>a, <2>0, <3>1, <3>2, RowsKeep
  <2>3. CASE (ComputeAndQueue(c) /\ ~ Gates(c)) \/ VerifyAndCalibrate(c)
    <3>1. UNCHANGED <<queue, req, start, points>> /\ (Over(c, "done") \/ Over(c, "failed"))
      BY <2>3 DEF ComputeAndQueue, VerifyAndCalibrate
    <3>2. pc'[c] \in {"done", "failed"}
      BY <1>a, <3>1 DEF Over
    <3>3. HasRows(c)' => HasRows(c)
      BY <3>1, <3>2 DEF HasRows, HasTask, Posted
    <3> QED
      BY <1>a, <2>0, <3>1, <3>2, <3>3, RowsKeep
  <2> QED
    BY <1>a, <1>2, <2>1, <2>2, <2>3, RowsOfReadSources, RowsOfReadCosts, RowsOfCompute,
       RowsOfReadBack DEF CallStep, Step
<1>3. CASE RunTask
  <2>1. CASE ~ IsFence(Head(queue)) /\ Import(Head(queue))
    BY <1>3, <2>1, RowsOfImport
  <2>2. CASE UNCHANGED cost
    <3>1. /\ queue # <<>> /\ UNCHANGED <<req, periodVars, seen, found, points, confirmed>>
          /\ queue' = Tail(queue) \/ queue' = Append(Tail(queue), Head(queue))
          /\ pc'[c] = pc[c] \/ (pc[c] = "blocked" /\ pc'[c] = "passed")
      BY <1>3, RunTaskIs
    <3>2. \E f : /\ \A i \in DOMAIN queue' : f[i] \in DOMAIN queue /\ queue'[i] = queue[f[i]]
                 /\ \A i, j \in DOMAIN queue' : f[i] = f[j] => i = j
      BY <3>1, TasksLeft DEF ImportInv
    <3>3. HasTask(c)' => HasTask(c)
      BY <3>2 DEF HasTask
    <3>4. HasRows(c)' => HasRows(c)
      BY <3>1, <3>3 DEF HasRows, Posted
    <3> QED
      BY <1>a, <2>2, <3>1, <3>4, RowsKeep DEF periodVars
  <2> QED
    BY <1>3, <2>1, <2>2, RunTaskIs
<1>4. CASE CompileHour
  BY <1>a, <1>4, RowsOfCompile
<1>5. CASE Tick \/ (\E a \in Appliances : Consume(a)) \/ UnloadEntry \/ SetupEntry
           \/ UNCHANGED vars
  <2>1. UNCHANGED <<cost, queue, pc, req, start, end, seen, found, points, confirmed>>
    BY <1>5 DEF Tick, Consume, UnloadEntry, SetupEntry, vars, callVars, periodVars
  <2> QED
    BY <1>a, <2>1, RowsKeep DEF HasRows, HasTask
<1> QED
  BY <1>1, <1>2, <1>3, <1>4, <1>5 DEF Next, CallStep

LEMMA WriteStep ==
    ASSUME ImportInv, WriteInv, OneImportAtATime, Orderly, [Next]_vars
    PROVE  WriteInv'
<1>1. TasksInOrder'
  BY OrderStep DEF WriteInv
<1>2. \A c \in Calls : RowsInv(c)'
  BY RowsStep
<1> QED
  BY <1>1, <1>2 DEF WriteInv

LEMMA WriteCorrect ==
    ASSUME Orderly
    PROVE  Spec /\ []OneImportAtATime => []WriteInv
<1>1. Init => WriteInv
  <2> SUFFICES ASSUME Init PROVE WriteInv
    OBVIOUS
  <2>1. queue = <<>> /\ \A c \in Calls : pc[c] = "idle"
    BY DEF Init
  <2>2. DOMAIN queue = {}
    BY <2>1
  <2>3. TasksInOrder
    BY <2>2 DEF TasksInOrder
  <2>4. ASSUME NEW c \in Calls PROVE RowsInv(c)
    <3>1. pc[c] = "idle" /\ ~ HasRows(c)
      BY <2>1, <2>2 DEF HasRows, HasTask, Posted
    <3> QED
      BY <3>1 DEF RowsInv
  <2> QED
    BY <2>3, <2>4 DEF WriteInv
<1>2. ImportInv /\ WriteInv /\ OneImportAtATime /\ [Next]_vars => WriteInv'
  BY WriteStep
<1> QED
  BY <1>1, <1>2, InvCorrect, PTL DEF Spec

(* Who writes a row: the compile where there was none, or a call its own. *)
LEMMA RowMoves ==
    ASSUME ImportInv, [Next]_vars, NEW a \in Appliances, NEW h \in Hours,
           cost'[a][h] # cost[a][h]
    PROVE  \/ cost[a][h] = None /\ cost'[a][h].by = Live
           \/ \E c \in Calls :
                 /\ HasTask(c) /\ a \in Selected(c) /\ h \in DOMAIN points[c][a]
                 /\ cost'[a][h] = [by |-> c, sum |-> points[c][a][h]]
                 /\ cost'[a][h] # None /\ UNCHANGED req
<1>1. CASE RunTask
  <2>1. queue # <<>> /\ UNCHANGED req /\ ~ IsFence(Head(queue)) /\ Import(Head(queue))
    BY <1>1, RunTaskIs
  <2>2. PICK c, b : c = Head(queue).call /\ b = Head(queue).appliance
    OBVIOUS
  <2>3. /\ c \in Calls /\ b \in Selected(c) /\ b \in Appliances /\ HasTask(c)
        /\ \A k \in DOMAIN points[c][b] :
              /\ k \in Hours /\ start[c] <= k /\ k < compiled /\ points[c][b][k] \in Int
              /\ cost'[b][k] = [by |-> c, sum |-> points[c][b][k]]
        /\ \A d \in Appliances : \A k \in Hours :
              d # b \/ k \notin DOMAIN points[c][b] => cost'[d][k] = cost[d][k]
    BY <2>1, <2>2, ImportIs
  <2>4. a = b /\ h \in DOMAIN points[c][a]
    BY <2>3
  <2>5. cost'[a][h] = [by |-> c, sum |-> points[c][a][h]] /\ points[c][a][h] \in Int
    BY <2>3, <2>4
  <2>6. cost'[a][h] # None
    <3>1. [by |-> c, sum |-> points[c][a][h]] \in CostRow
      BY <2>3, <2>5 DEF CostRow
    <3> QED
      BY <2>5, <3>1, ImportAssumption DEF ImportAssumption
  <2> QED
    BY <2>1, <2>3, <2>4, <2>5, <2>6
<1>2. CASE CompileHour
  <2>1. h = compiled /\ cost'[a][h] = [by |-> Live, sum |-> live[a]]
    BY <1>2, CompileIs
  <2>2. cost[a][h] = None
    <3>1. compiled \in Int
      BY NumbersAre DEF ImportInv
    <3> QED
      BY <2>1, <3>1 DEF ImportInv, WorldInv
  <2> QED
    BY <2>1, <2>2
<1>3. CASE \E c \in Calls : CallStep(c)
  BY <1>3, CallStepFrame DEF ImportInv
<1>4. CASE Tick \/ (\E b \in Appliances : Consume(b)) \/ UnloadEntry \/ SetupEntry
           \/ UNCHANGED vars
  BY <1>4 DEF Tick, Consume, UnloadEntry, SetupEntry, vars
<1> QED
  BY <1>1, <1>2, <1>3, <1>4 DEF Next, CallStep

LEMMA OverwritesHold ==
    ASSUME ImportInv, WriteInv, [Next]_vars
    PROVE  [\A a \in Appliances, h \in Hours :
              (cost[a][h] # None /\ cost'[a][h] # cost[a][h]) =>
                  /\ cost'[a][h] # None /\ cost'[a][h].by # Live
                  /\ \/ cost'[a][h].sum = cost[a][h].sum
                     \/ req[cost'[a][h].by].overwrite]_vars
<1> SUFFICES ASSUME NEW a \in Appliances, NEW h \in Hours,
                    cost[a][h] # None, cost'[a][h] # cost[a][h]
             PROVE  /\ cost'[a][h] # None /\ cost'[a][h].by # Live
                    /\ \/ cost'[a][h].sum = cost[a][h].sum
                       \/ req[cost'[a][h].by].overwrite
  OBVIOUS
<1>1. PICK c \in Calls :
         /\ HasTask(c) /\ a \in Selected(c) /\ h \in DOMAIN points[c][a]
         /\ cost'[a][h] = [by |-> c, sum |-> points[c][a][h]]
         /\ cost'[a][h] # None
  BY RowMoves
<1>2. cost'[a][h].by = c /\ cost'[a][h].sum = points[c][a][h]
  BY <1>1
<1>3. c # Live
  BY ImportAssumption DEF ImportAssumption
<1>4. ~ req[c].overwrite => cost[a][h].sum = points[c][a][h]
  BY <1>1 DEF WriteInv, RowsInv, HasRows
<1> QED
  BY <1>1, <1>2, <1>3, <1>4

LEMMA StartsHold ==
    ASSUME ImportInv, WriteInv, [Next]_vars
    PROVE  [\A a \in Appliances, h \in Hours :
              (cost'[a][h] # cost[a][h] /\ cost'[a][h].by \in Calls) =>
                  LET c == cost'[a][h].by
                  IN  req[c].initial = None =>
                        \A g \in 0 .. start[c] - 1 : cost[a][g] = None]_vars
<1> SUFFICES ASSUME NEW a \in Appliances, NEW h \in Hours, cost'[a][h] # cost[a][h],
                    NEW c \in Calls, cost'[a][h].by = c, req[c].initial = None,
                    NEW g \in 0 .. start[c] - 1
             PROVE  cost[a][g] = None
  OBVIOUS
<1>1. HasTask(c) /\ a \in Selected(c)
  <2>1. c # Live
    BY ImportAssumption DEF ImportAssumption
  <2>2. PICK d \in Calls :
           /\ HasTask(d) /\ a \in Selected(d) /\ h \in DOMAIN points[d][a]
           /\ cost'[a][h] = [by |-> d, sum |-> points[d][a][h]]
           /\ cost'[a][h] # None /\ UNCHANGED req
    BY <2>1, RowMoves
  <2>3. d = c
    BY <2>2
  <2> QED
    BY <2>2, <2>3
<1>2. \A k \in Hours : k < start[c] => cost[a][k] = None
  BY <1>1 DEF WriteInv, RowsInv, HasRows
<1>3. g \in Hours /\ g < start[c]
  <2>1. start[c] \in 0 .. MaxHour - 1 /\ MaxHour \in Int
    BY NumbersAre DEF ImportInv, TypeOK, Hours
  <2> QED
    BY <2>1 DEF Hours
<1> QED
  BY <1>2, <1>3

LEMMA ReturnsHold ==
    ASSUME ImportInv, WriteInv, [Next]_vars
    PROVE  [\A c \in Calls : (pc[c] # "done" /\ pc'[c] = "done") => Agrees(c)]_vars
<1> SUFFICES ASSUME Next, NEW c \in Calls, pc[c] # "done", pc'[c] = "done"
             PROVE  Agrees(c)
  OBVIOUS
<1>a. DOMAIN pc = Calls
  BY DEF ImportInv, TypeOK
<1>1. CASE \E d \in Calls : CallStep(d)
  <2>1. PICK d \in Calls : CallStep(d)
    BY <1>1
  <2>2. d = c
    BY <2>1, CallStepFrame DEF ImportInv, Untouched
  <2>3. VerifyAndCalibrate(c)
    BY <1>a, <2>1, <2>2 DEF CallStep, Step, HandleImport, ResolvePeriod, TakeLock, ResolveStart,
       ChoosePeriod, Over, ReadSources, ReadCosts, ComputeAndQueue, BlockTillDone, ReadBack
  <2>4. pc[c] = "read back" /\ (~ confirmed[c] => Over(c, "failed"))
    BY <2>3 DEF VerifyAndCalibrate
  <2>5. confirmed[c]
    BY <1>a, <2>4 DEF Over
  <2> QED
    BY <2>4, <2>5 DEF WriteInv, RowsInv
<1>2. CASE RunTask
  BY <1>2, RunTaskIs
<1>3. CASE CompileHour \/ Tick \/ (\E a \in Appliances : Consume(a)) \/ UnloadEntry \/ SetupEntry
  BY <1>3 DEF CompileHour, Tick, Consume, UnloadEntry, SetupEntry, callVars
<1> QED
  BY <1>1, <1>2, <1>3 DEF Next, CallStep

(* As long as no two imports overlap, a row that is there changes its value *)
(* only by an import that was told to overwrite: what its overlap gate read *)
(* before the queueing is still so when the recorder writes.                *)
THEOREM OverwriteCorrect ==
    ASSUME Orderly
    PROVE  Spec /\ []OneImportAtATime => NoSilentOverwrite
<1>1. ImportInv /\ WriteInv /\ [Next]_vars =>
          [\A a \in Appliances, h \in Hours :
              (cost[a][h] # None /\ cost'[a][h] # cost[a][h]) =>
                  /\ cost'[a][h] # None /\ cost'[a][h].by # Live
                  /\ \/ cost'[a][h].sum = cost[a][h].sum
                     \/ req[cost'[a][h].by].overwrite]_vars
  BY OverwritesHold
<1> QED
  BY <1>1, InvCorrect, WriteCorrect, PTL DEF Spec, NoSilentOverwrite

(* As long as no two imports overlap, a series that starts from zero has no *)
(* older row before it, at the time each of its rows is written.            *)
THEOREM NoStepBackCorrect ==
    ASSUME Orderly
    PROVE  Spec /\ []OneImportAtATime => NoStepBack
<1>1. ImportInv /\ WriteInv /\ [Next]_vars =>
          [\A a \in Appliances, h \in Hours :
              (cost'[a][h] # cost[a][h] /\ cost'[a][h].by \in Calls) =>
                  LET c == cost'[a][h].by
                  IN  req[c].initial = None =>
                        \A g \in 0 .. start[c] - 1 : cost[a][g] = None]_vars
  BY StartsHold
<1> QED
  BY <1>1, InvCorrect, WriteCorrect, PTL DEF Spec, NoStepBack

(* As long as no two imports overlap, a call that returns has its rows in   *)
(* the database: nothing moves them between the read-back and the return.   *)
THEOREM ReturnCorrect ==
    ASSUME Orderly
    PROVE  Spec /\ []OneImportAtATime => ReturnMeansWritten
<1>1. ImportInv /\ WriteInv /\ [Next]_vars =>
          [\A c \in Calls : (pc[c] # "done" /\ pc'[c] = "done") => Agrees(c)]_vars
  BY ReturnsHold
<1> QED
  BY <1>1, InvCorrect, WriteCorrect, PTL DEF Spec, ReturnMeansWritten

(* A single load of the entry is enough for all three: its lock keeps the   *)
(* imports apart.                                                           *)
THEOREM OneLoadWrites ==
    ASSUME Orderly, MaxGen = 1
    PROVE  Spec => NoSilentOverwrite /\ NoStepBack /\ ReturnMeansWritten
<1>1. Spec => []OneImportAtATime
  BY OneAtATimeCorrect
<1> QED
  BY <1>1, OverwriteCorrect, NoStepBackCorrect, ReturnCorrect, PTL
=============================================================================
