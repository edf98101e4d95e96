--------------------------- MODULE MCImportBackfill ---------------------------
(* Small instances of ImportBackfill: three hours, two calls, and requests *)
(* that take every gate.                                                   *)
EXTENDS ImportBackfill

Request(start_, end_, overwrite, strict, initial) ==
    [overwrite |-> overwrite, strict |-> strict, initial |-> initial, start |-> start_,
     end |-> end_, appliances |-> Appliances, calibrate |-> TRUE]

(* An import of everything from the first price on, one of hour 1 without  *)
(* an initial cost, and one that continues at hour 1 and may overwrite.     *)
MCRequests == {Request(None, None, FALSE, TRUE, None), Request(1, 2, FALSE, FALSE, None),
               Request(1, None, TRUE, FALSE, 7)}
MCOneRequest == {Request(0, None, FALSE, TRUE, None)}

(* For all appliances two imports that differ in their rows where they     *)
(* overlap, and for one of them the first again and one with initial cost.  *)
MCSelections ==
    LET from0 == Request(0, None, FALSE, TRUE, None)
        from1 == Request(1, None, FALSE, TRUE, None)
    IN  {from0, from1} \cup
        {[from0 EXCEPT !.appliances = {CHOOSE a \in Appliances : TRUE}, !.initial = i] :
            i \in {None, 5}}

(* The first hour is one with consumption. *)
FirstHourUsed == \A a \in Appliances : level[a] = 1
MCInit == Init /\ FirstHourUsed
MCFairSpec == MCInit /\ [][Next]_vars /\ Fairness

(* The user calls again after a call is over, failed or not, and its rows  *)
(* have landed or are lost.                                                *)
CallAgain(c, r) ==
    /\ queue = <<>> /\ \A d \in Calls : pc[d] \in {"idle", "failed", "done"}
    /\ HandleImport(c, r)

(* One call at a time.  In the last hour, whose row no call reads, the      *)
(* meters rest.                                                            *)
OneByOneNext ==
    \/ \E c \in Calls : Step(c) \/ \E r \in Requests : CallAgain(c, r)
    \/ RunTask \/ CompileHour \/ Tick \/ UnloadEntry \/ SetupEntry
    \/ \E a \in Appliances : hour < MaxHour /\ Consume(a)

OneByOneSpec == MCInit /\ [][OneByOneNext]_vars /\ Fairness

MCMonthStarts == {0, 1, 3}
=============================================================================
