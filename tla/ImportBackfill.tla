---------------------------- MODULE ImportBackfill ----------------------------
(***************************************************************************)
(* The import_backfill service (services.py): calls that wait for the      *)
(* entry's import lock, read statistics through executor jobs, pass the    *)
(* gates, queue rows on the recorder, wait behind them, read them back and *)
(* calibrate the live cost sensors.  Every await is a step boundary: other  *)
(* calls, the clock, the hourly compile, the live sensors and a reload of   *)
(* the entry may move in between.                                          *)
(*                                                                          *)
(* Hours are numbers and a row belongs to the hour it starts.  Every price  *)
(* is 1, so that money and kWh can be compared (prices are CostSensor's     *)
(* subject).  The recorder is Home Assistant's: one thread that runs its    *)
(* queue in order and compiles the finished hour in one transaction, energy *)
(* and cost rows alike.                                                     *)
(***************************************************************************)
EXTENDS BackfillSeries, BoundedReads, Sequences

CONSTANTS Calls, Appliances,
          Requests,        \* what a call may ask for, see RequestType
          Live,            \* marks the rows the live sensor compiled
          Kinds,           \* how an hour's energy row may turn out
          Prices,          \* whether an hour may have a price, or none
          LiveFrom,        \* the first hour the cost sensors were live in
          Faults,          \* "drop", "retry": what may befall queued rows
          MaxHour,         \* bound: the clock
          MaxGen           \* bound: loads of the entry

Hours == 0 .. MaxHour - 1

RequestType == [start: Hours \cup {None}, end: Hours \cup {None},
                appliances: SUBSET Appliances, overwrite: BOOLEAN,
                strict: BOOLEAN, initial: Int \cup {None}, calibrate: BOOLEAN]

(* What the recorder has of an hour of a source, and of a cost sensor. *)
EnergyRow == [kind: Kinds \cup {"unpriced"}, change: Nat, price: {0, 1}, state: Nat]
CostRow == [by: Calls \cup {Live}, sum: Int]

ASSUME ImportAssumption ==
    /\ Requests \subseteq RequestType
    /\ Kinds \subseteq {"ok", "invalid", "absent"} /\ "ok" \in Kinds
    /\ Prices \subseteq BOOLEAN
    /\ \E m \in MonthStarts : m <= 0
    /\ \E m \in MonthStarts : m >= MaxHour
    /\ Faults \subseteq {"drop", "retry"}
    /\ MaxHour \in Nat \ {0} /\ MaxGen \in Nat \ {0}
    /\ IsFiniteSet(Appliances) /\ Live \notin Calls
    /\ None \notin Calls \cup Appliances \cup EnergyRow \cup CostRow

VARIABLES
    hour,       \* the current hour
    compiled,   \* hours 0 .. compiled - 1 have their statistics
    level,      \* the meters' levels
    at,         \* the level at the start of each hour
    energy,     \* the energy sensors' rows
    priced,     \* the price sensor's rows: the hours that have one
    cost,       \* the cost sensors' committed rows
    queue,      \* the recorder's queue
    loaded,     \* the entry is loaded
    gen,        \* which load: each has a lock of its own
    holder,     \* who holds the lock of each load
    live,       \* the live sensors' costs
    pc, req,    \* the calls
    lock,       \* the lock a call has taken from runtime_data
    now,        \* the hour in which it was given the lock
    start, end, \* its resolved period
    seen,       \* the energy rows it has read
    found,      \* the cost rows it has found: in the period, and before it
    points,     \* the rows it has queued
    confirmed,  \* whether its read-back agreed
    cut         \* history: the import each live sensor continues, if any

worldVars == <<hour, compiled, level, at, energy, priced>>
periodVars == <<now, start, end>>
callVars == <<pc, req, lock, periodVars, seen, found, points, confirmed>>
entryVars == <<loaded, gen, holder, live, cut>>
vars == <<worldVars, cost, queue, entryVars, callVars>>

Period(c) == start[c] .. end[c] - 1

(* Mistake: only a call that succeeds releases the lock. *)
OverLeaking(c, how) ==
    /\ pc' = [pc EXCEPT ![c] = how]
    /\ seen' = [seen EXCEPT ![c] = None]
    /\ found' = [found EXCEPT ![c] = None]
    /\ now' = [now EXCEPT ![c] = 0]
    /\ end' = [end EXCEPT ![c] = 0]
    /\ holder' = IF how = "done" THEN [holder EXCEPT ![lock[c]] = None] ELSE holder

(* What a call that is over leaves behind: nothing. *)
Over(c, how) ==
    /\ pc' = [pc EXCEPT ![c] = how]
    /\ seen' = [seen EXCEPT ![c] = None]
    /\ found' = [found EXCEPT ![c] = None]
    /\ now' = [now EXCEPT ![c] = 0]
    /\ end' = [end EXCEPT ![c] = 0]
    /\ holder' = [holder EXCEPT ![lock[c]] = None]

InitialCost(c) == IF req[c].initial = None THEN 0 ELSE req[c].initial

-----------------------------------------------------------------------------
(* A call, step by step.                                                   *)

(* The handler takes the lock object of the load it finds. *)
HandleImport(c, r) ==
    /\ pc[c] = "idle" /\ loaded
    /\ pc' = [pc EXCEPT ![c] = "waiting"]
    /\ req' = [req EXCEPT ![c] = r]
    /\ lock' = [lock EXCEPT ![c] = gen]
    /\ UNCHANGED <<worldVars, cost, queue, entryVars, periodVars, seen, found, points,
                   confirmed>>

Selected(c) == req[c].appliances

SingleAppliance(c) == req[c].initial # None => Cardinality(Selected(c)) = 1

(* A period that is empty or not over raises, and so does an initial cost   *)
(* for several appliances.                                                  *)
ChoosePeriod(c, from, to, at_hour) ==
    IF to <= from \/ to > at_hour \/ ~SingleAppliance(c)
    THEN Over(c, "failed") /\ UNCHANGED start
    ELSE /\ pc' = [pc EXCEPT ![c] = "resolved"]
         /\ holder' = [holder EXCEPT ![lock[c]] = c]
         /\ start' = [start EXCEPT ![c] = from]
         /\ end' = [end EXCEPT ![c] = to]
         /\ now' = [now EXCEPT ![c] = 0]
         /\ UNCHANGED <<seen, found>>

End(c, at_hour) == IF req[c].end = None THEN at_hour ELSE req[c].end

(* Given the lock, a call takes the time; for a default start it then waits *)
(* for the first price hour.                                                *)
TakeLock(c) ==
    /\ IF req[c].start # None
       THEN ChoosePeriod(c, req[c].start, End(c, hour), hour)
       ELSE /\ pc' = [pc EXCEPT ![c] = "resolving"]
            /\ holder' = [holder EXCEPT ![lock[c]] = c]
            /\ now' = [now EXCEPT ![c] = hour]
            /\ UNCHANGED <<start, end, seen, found>>
    /\ UNCHANGED <<worldVars, cost, queue, loaded, gen, live, cut, req, lock,
                   points, confirmed>>

(* Mistake: the lock is not waited for. *)
ResolvePeriodUnlocked(c) == pc[c] = "waiting" /\ TakeLock(c)

ResolvePeriod(c) == pc[c] = "waiting" /\ holder[lock[c]] = None /\ TakeLock(c)

(* The executor's read, and the period from the time taken before it; a     *)
(* price sensor without rows raises.                                        *)
ResolveStart(c) ==
    /\ pc[c] = "resolving"
    /\ \/ /\ FirstPriceStatisticsHour(priced) = {}
          /\ Over(c, "failed") /\ UNCHANGED start
       \/ \E first \in FirstPriceStatisticsHour(priced) :
             ChoosePeriod(c, first, End(c, now[c]), now[c])
    /\ UNCHANGED <<worldVars, cost, queue, loaded, gen, live, cut, req, lock,
                   points, confirmed>>

(* The statistics are read in an executor job, each read a session of its  *)
(* own: the sources first, the cost rows of the period, the rows before it. *)
(* The last two are one step here, as the rows before the start do not      *)
(* change meanwhile: the compile writes later hours only.                   *)
ReadSources(c) ==
    /\ pc[c] = "resolved"
    /\ pc' = [pc EXCEPT ![c] = "sources read"]
    /\ seen' = [seen EXCEPT ![c] =
                   [a \in Selected(c) |->
                       [h \in Hours |-> IF h \in Period(c) THEN energy[a][h] ELSE None]]]
    /\ UNCHANGED <<worldVars, cost, queue, entryVars, req, lock, periodVars, found, points, confirmed>>

CostRows(a) == {h \in Hours : cost[a][h] # None}

ReadCosts(c) ==
    /\ pc[c] = "sources read"
    /\ pc' = [pc EXCEPT ![c] = "read"]
    /\ found' = [found EXCEPT ![c] =
           [inside |-> {a \in Selected(c) : CostRows(a) \cap Period(c) # {}},
            before |-> {a \in Selected(c) : LastPreStart(CostRows(a), start[c]) # {}}]]
    /\ UNCHANGED <<worldVars, cost, queue, entryVars, req, lock, periodVars, seen, points, confirmed>>

(* Mistake: an import is refused only if all its appliances have rows. *)
NoOverlapOfAll(c) == req[c].overwrite \/ found[c].inside # Selected(c)

(* Mistake: an import is refused only if all its series have older rows. *)
ContinuousForSome(c) == req[c].initial # None \/ found[c].before # Selected(c)

(* The gates, over every selected appliance. *)
StrictClean(c) == req[c].strict => \A a \in Selected(c) : Flagged(seen[c][a]) = {}
HasPoints(c) == \E a \in Selected(c) : Costed(seen[c][a]) # {}
NoOverlap(c) == req[c].overwrite \/ found[c].inside = {}
Continuous(c) == req[c].initial # None \/ found[c].before = {}

(* Mistake: the continuity gate is left out. *)
GatesDiscontinuous(c) == StrictClean(c) /\ HasPoints(c) /\ NoOverlap(c)

Gates(c) == StrictClean(c) /\ HasPoints(c) /\ NoOverlap(c) /\ Continuous(c)

(* The series are computed in a job of their own, from what was read alone; *)
(* then the gates and the queueing follow with no await in between.        *)
ComputeAndQueue(c) ==
    /\ pc[c] = "read"
    /\ IF Gates(c)
       THEN LET rows == [a \in Selected(c) |-> Series(seen[c][a], InitialCost(c))]
                some == {a \in Selected(c) : DOMAIN rows[a] # {}}
            IN  /\ points' = [points EXCEPT ![c] = rows]
                /\ \E order \in {s \in [1 .. Cardinality(some) -> some] :
                                    \A i, j \in DOMAIN s : s[i] = s[j] => i = j} :
                      queue' = queue \o [i \in DOMAIN order |->
                                            [call |-> c, appliance |-> order[i]]]
                /\ pc' = [pc EXCEPT ![c] = "queued"]
                /\ UNCHANGED <<holder, seen, found, now, end>>
       ELSE Over(c, "failed") /\ UNCHANGED <<points, queue>>
    /\ UNCHANGED <<worldVars, cost, loaded, gen, live, cut, req, lock, start, confirmed>>

(* block_till_done puts a task of its own behind the rows and waits. *)
BlockTillDone(c) ==
    /\ pc[c] = "queued"
    /\ pc' = [pc EXCEPT ![c] = "blocked"]
    /\ queue' = Append(queue, [call |-> c, appliance |-> None])
    /\ UNCHANGED <<worldVars, cost, entryVars, req, lock, periodVars, seen, found, points, confirmed>>

(* The rows are read again and compared, sum by sum. *)
Agrees(c) ==
    \A a \in Selected(c) : \A h \in DOMAIN points[c][a] :
        cost[a][h] # None /\ cost[a][h].sum = points[c][a][h]

(* Mistake: rows count as confirmed once they are queued. *)
ReadBackTrusting(c) ==
    /\ pc[c] = "passed"
    /\ pc' = [pc EXCEPT ![c] = "read back"]
    /\ confirmed' = [confirmed EXCEPT ![c] = TRUE]
    /\ UNCHANGED <<worldVars, cost, queue, entryVars, req, lock, periodVars, seen, found, points>>

(* Mistake: the read-back is repeated until the rows are there. *)
ReadBackUntilThere(c) ==
    /\ pc[c] = "passed" /\ Agrees(c)
    /\ pc' = [pc EXCEPT ![c] = "read back"]
    /\ confirmed' = [confirmed EXCEPT ![c] = TRUE]
    /\ UNCHANGED <<worldVars, cost, queue, entryVars, req, lock, periodVars, seen, found, points>>

ReadBack(c) ==
    /\ pc[c] = "passed"
    /\ pc' = [pc EXCEPT ![c] = "read back"]
    /\ confirmed' = [confirmed EXCEPT ![c] = Agrees(c)]
    /\ UNCHANGED <<worldVars, cost, queue, entryVars, req, lock, periodVars, seen, found, points>>

(* The appliances whose sensor the calibration pass may set; the sensor     *)
(* itself may refuse (`able': reachable, with a price and a reading).       *)
Calibratable(c, able) ==
    {a \in able : /\ req[c].calibrate /\ loaded
                  /\ end[c] = hour
                  /\ DOMAIN points[c][a] # {}
                  /\ EndEnergy(seen[c][a]) # None
                  /\ CutoverValue(Total(seen[c][a], InitialCost(c)),
                                  EndEnergy(seen[c][a]), level[a], 1) # None}

(* Verify, calibrate, release the lock and return, in one go. *)
VerifyAndCalibrate(c) ==
    /\ pc[c] = "read back"
    /\ IF ~ confirmed[c]
       THEN Over(c, "failed") /\ UNCHANGED <<live, cut>>
       ELSE \E able \in SUBSET Selected(c) :
              LET set == Calibratable(c, able)
              IN  /\ live' = [a \in Appliances |->
                        IF a \in set
                        THEN CutoverValue(Total(seen[c][a], InitialCost(c)),
                                          EndEnergy(seen[c][a]), level[a], 1)
                        ELSE live[a]]
                  /\ cut' = [a \in Appliances |-> IF a \in set THEN c ELSE cut[a]]
                  /\ Over(c, "done")
    /\ UNCHANGED <<worldVars, cost, queue, loaded, gen, req, lock, start, points, confirmed>>

-----------------------------------------------------------------------------
(* The recorder.                                                           *)
Import(task) ==
    cost' = [cost EXCEPT ![task.appliance] =
                [h \in Hours |->
                    IF h \in DOMAIN points[task.call][task.appliance]
                    THEN [by |-> task.call,
                          sum |-> points[task.call][task.appliance][h]]
                    ELSE @[h]]]

RunTask ==
    /\ queue # <<>>
    /\ LET task == Head(queue)
       IN  IF task.appliance = None
           THEN /\ pc' = [pc EXCEPT ![task.call] = "passed"]
                /\ queue' = Tail(queue) /\ UNCHANGED cost
           ELSE /\ \/ Import(task) /\ queue' = Tail(queue)
                   \/ /\ "drop" \in Faults
                      /\ queue' = Tail(queue) /\ UNCHANGED cost
                   \/ /\ "retry" \in Faults
                      /\ queue' = Append(Tail(queue), task) /\ UNCHANGED cost
                /\ UNCHANGED pc
    /\ UNCHANGED <<worldVars, entryVars, req, lock, periodVars, seen, found, points, confirmed>>

(* The finished hour is compiled, in one transaction.  An hour in which a  *)
(* source was not heard has no row; one with a nonsense change is invalid,  *)
(* one with consumption and no price cannot be costed.                      *)
CompileHour ==
    /\ compiled < hour
    /\ LET change(a) == at[a][compiled + 1] - at[a][compiled]
       IN  \E kind \in [Appliances -> Kinds], price \in Prices :
             /\ \A a \in Appliances : kind[a] = "absent" => change(a) = 0
             /\ energy' = [a \in Appliances |-> [energy[a] EXCEPT ![compiled] =
                   IF kind[a] = "absent" THEN None
                   ELSE [kind |-> IF kind[a] = "ok" /\ ~price /\ change(a) > 0
                                  THEN "unpriced" ELSE kind[a],
                         change |-> change(a), price |-> IF price THEN 1 ELSE 0,
                         state |-> at[a][compiled + 1]]]]
             /\ priced' = priced \cup {h \in {compiled} : price}
    /\ cost' = [a \in Appliances |-> [cost[a] EXCEPT ![compiled] =
                   IF compiled >= LiveFrom THEN [by |-> Live, sum |-> live[a]] ELSE @]]
    /\ compiled' = compiled + 1
    /\ UNCHANGED <<hour, level, at, queue, entryVars, callVars>>

(* The clock; an hour is compiled before the next one ends. *)
Tick ==
    /\ hour < MaxHour /\ compiled = hour
    /\ hour' = hour + 1
    /\ at' = [a \in Appliances |-> [at[a] EXCEPT ![hour + 1] = level[a]]]
    /\ UNCHANGED <<compiled, level, energy, priced, cost, queue, entryVars, callVars>>

(* A meter advances, one kWh an hour at most, and its live sensor charges. *)
Consume(a) ==
    /\ level[a] = at[a][hour]
    /\ level' = [level EXCEPT ![a] = @ + 1]
    /\ live' = [live EXCEPT ![a] = @ + 1]
    /\ UNCHANGED <<hour, compiled, at, energy, priced, cost, queue, loaded, gen, holder, cut, callVars>>

(* A reload of the entry decodes its runtime data anew, lock included. *)
UnloadEntry ==
    /\ loaded /\ gen < MaxGen
    /\ loaded' = FALSE
    /\ UNCHANGED <<worldVars, cost, queue, gen, holder, live, cut, callVars>>

SetupEntry ==
    /\ ~ loaded
    /\ loaded' = TRUE
    /\ gen' = gen + 1
    /\ UNCHANGED <<worldVars, cost, queue, holder, live, cut, callVars>>

-----------------------------------------------------------------------------
(* At the start the first hour is over and about to be compiled. *)
Init ==
    /\ hour = 1 /\ compiled = 0
    /\ at \in [Appliances -> {[[h \in 0 .. MaxHour |-> 0] EXCEPT ![1] = d] : d \in {0, 1}}]
    /\ level = [a \in Appliances |-> at[a][1]]
    /\ energy = [a \in Appliances |-> [h \in Hours |-> None]]
    /\ priced = {}
    /\ cost = [a \in Appliances |-> [h \in Hours |-> None]]
    /\ queue = <<>>
    /\ loaded = TRUE /\ gen = 1 /\ holder = [g \in 1 .. MaxGen |-> None]
    /\ live = [a \in Appliances |-> 0]
    /\ cut = [a \in Appliances |-> None]
    /\ pc = [c \in Calls |-> "idle"]
    /\ req = [c \in Calls |-> None]
    /\ lock = [c \in Calls |-> 0]
    /\ now = [c \in Calls |-> 0]
    /\ start = [c \in Calls |-> 0]
    /\ end = [c \in Calls |-> 0]
    /\ seen = [c \in Calls |-> None]
    /\ found = [c \in Calls |-> None]
    /\ points = [c \in Calls |-> None]
    /\ confirmed = [c \in Calls |-> FALSE]

Step(c) == \/ ResolvePeriod(c) \/ ResolveStart(c) \/ ReadSources(c) \/ ReadCosts(c)
           \/ ComputeAndQueue(c) \/ BlockTillDone(c) \/ ReadBack(c)
           \/ VerifyAndCalibrate(c)

Next ==
    \/ \E c \in Calls : Step(c) \/ \E r \in Requests : HandleImport(c, r)
    \/ RunTask \/ CompileHour \/ Tick \/ UnloadEntry \/ SetupEntry
    \/ \E a \in Appliances : Consume(a)

Spec == Init /\ [][Next]_vars

(* The event loop and the executors serve every job, the recorder every     *)
(* task, and a waiting call gets its lock in turn.                          *)
Fairness == /\ \A c \in Calls : WF_vars(Step(c))
            /\ WF_vars(RunTask)
FairSpec == Spec /\ Fairness

-----------------------------------------------------------------------------
Running(c) == pc[c] \notin {"idle", "waiting", "done", "failed"}

Rows(type) == [Appliances -> [Hours -> type \cup {None}]]

(* Every variable has its type, and only a running call holds a lock. *)
TypeOK ==
    /\ hour \in 1 .. MaxHour /\ compiled \in 0 .. hour
    /\ level \in [Appliances -> Nat] /\ at \in [Appliances -> [0 .. MaxHour -> Nat]]
    /\ energy \in Rows(EnergyRow)
    /\ priced \subseteq 0 .. compiled - 1
    /\ cost \in Rows(CostRow)
    /\ queue \in Seq([call: Calls, appliance: Appliances \cup {None}])
    /\ loaded \in BOOLEAN /\ gen \in 1 .. MaxGen
    /\ holder \in [1 .. MaxGen -> Calls \cup {None}]
    /\ \A g \in 1 .. MaxGen : holder[g] = None \/ Running(holder[g])
    /\ live \in [Appliances -> Int] /\ cut \in [Appliances -> Calls \cup {None}]
    /\ pc \in [Calls -> {"idle", "waiting", "resolving", "resolved", "sources read", "read", "queued",
                         "blocked", "passed", "read back", "done", "failed"}]
    /\ req \in [Calls -> Requests \cup {None}]
    /\ lock \in [Calls -> 0 .. MaxGen] /\ now \in [Calls -> 0 .. MaxHour]
    /\ start \in [Calls -> Hours] /\ end \in [Calls -> 0 .. MaxHour]
    /\ confirmed \in [Calls -> BOOLEAN]

(* Two imports never interleave their read, compute and write windows      *)
(* (models.py on import_lock).                                             *)
OneImportAtATime == \A c, d \in Calls : Running(c) /\ Running(d) => c = d

(* A row in the database changes its value only by an import that was told *)
(* to overwrite: not by the other import that read before it was there,     *)
(* and not when the hour is compiled while an import is under way.         *)
NoSilentOverwrite ==
    [][\A a \in Appliances, h \in Hours :
          (cost[a][h] # None /\ cost'[a][h] # cost[a][h]) =>
              /\ cost'[a][h] # None /\ cost'[a][h].by # Live
              /\ \/ cost'[a][h].sum = cost[a][h].sum
                 \/ req[cost'[a][h].by].overwrite]_vars

(* An import that was given no initial cost starts its series from zero:   *)
(* its rows never land on top of an older part of the series.              *)
NoStepBack ==
    [][\A a \in Appliances, h \in Hours :
          (cost'[a][h] # cost[a][h] /\ cost'[a][h].by \in Calls) =>
              LET c == cost'[a][h].by
              IN  req[c].initial = None =>
                    \A g \in 0 .. start[c] - 1 : cost[a][g] = None]_vars

(* A call that returns has its rows in the database, at that moment: the   *)
(* sensors it calibrates continue rows that are there.                     *)
ReturnMeansWritten ==
    [][\A c \in Calls : (pc[c] # "done" /\ pc'[c] = "done") => Agrees(c)]_vars

(* A sensor that was calibrated by a strict import has been charged for    *)
(* everything metered since the import's start, once; skipped hours of     *)
(* another import are the only thing it may lack.                          *)
CutoverContinues ==
    \A a \in Appliances : cut[a] # None =>
        LET due == InitialCost(cut[a]) + level[a] - at[a][start[cut[a]]]
        IN  /\ live[a] <= due
            /\ req[cut[a]].strict => live[a] = due

(* The bounded reads find what a scan of the whole series would: a default  *)
(* period starts with the first price there is, and the continuity gate     *)
(* hears of a row before the start if and only if there is one.             *)
BoundedReadsAreExact ==
    [][\A c \in Calls :
         /\ pc[c] = "resolving" /\ pc'[c] = "resolved" =>
              start'[c] \in priced /\ \A h \in priced : start'[c] <= h
         /\ pc[c] = "resolving" /\ pc'[c] = "failed" /\ SingleAppliance(c) =>
              \A h \in priced : h >= End(c, now[c]) \/ End(c, now[c]) > now[c]
         /\ pc[c] = "sources read" /\ pc'[c] = "read" =>
              \A a \in Selected(c) :
                 a \in found'[c].before <=> \E h \in 0 .. start[c] - 1 : cost[a][h] # None]_vars

(* No call hangs: neither on the lock nor behind the recorder's queue.     *)
EveryCallReturns ==
    \A c \in Calls : pc[c] = "waiting" ~> pc[c] \in {"done", "failed"}
=============================================================================
