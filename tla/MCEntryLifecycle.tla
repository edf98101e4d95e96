--------------------------- MODULE MCEntryLifecycle ---------------------------
(* Two entries; the ids of a kind are only compared, and so are devices, so *)
(* that one of the starts that differ in names alone stands for all.        *)
EXTENDS EntryLifecycle

CONSTANTS e1, e2, p1, p2, s1, s2, d1

(* No entry, one, or two; the first has the appliances s1, s2 in this order. *)
NamesInOrder ==
    /\ price[e1] \in {None, p1} /\ price[e2] \in {None, p2}
    /\ Exists(e2) => Exists(e1)
    /\ EnergyOf(e1) \in {<<>>, <<s1>>, <<s1, s2>>}
    /\ Len(appliances[e2]) <= Len(appliances[e1])
    /\ \A s \in Sources : device[s] \in {None, d1}

MCInit == Init /\ NamesInOrder

MCSpec == MCInit /\ [][Next]_vars

MCFairSpec == MCSpec /\ Fairness
=============================================================================
