------------------------- MODULE MCBuildBackfillSeries -------------------------
(* Hours with use and without, noise at both edges of the tolerance, every  *)
(* fault, and prices from the mean, from the state, negative and not finite. *)
EXTENDS BuildBackfillSeries

MCMeterings ==
    {m \in [used: {0, 10}, noise: -1 .. 1,
            fault: {"none", "no row", "no change", "negative", "no state"}] :
        /\ m.noise # 0 => m.used = 0 /\ m.fault = "none"
        /\ m.fault \in {"no change", "negative", "no state"} => m.used = 10}

MCPriceRows ==
    {[mean |-> 2, state |-> None], [mean |-> None, state |-> -3],
     [mean |-> Infinite, state |-> -3], [mean |-> None, state |-> Infinite]}

(* What the theorems assume of the meters holds of these. *)
ASSUME MeteringAssumption == Measurable
=============================================================================
