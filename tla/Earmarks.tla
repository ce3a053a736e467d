------------------------------ MODULE Earmarks ------------------------------
(* How much of each record its goals claim, and what is left Unallocated.     *)
(* An allocation maps each goal to [mode, n]: a share of the value in basis   *)
(* points, or a fixed amount.                                                *)
(* Sources: src/domain/earmarks.ts, records/common.ts, features/accounts/   *)
(* badge.ts, features/goals/goals.tsx.                                       *)
EXTENDS Money

(* allocatedPaise of one allocation; a percent rounds down.                   *)
Allocated(a, value) ==
    IF a.mode = "fixed" THEN a.n ELSE (value * a.n) \div FullBps

AllocatedPaise(list, value) ==
    Total([g \in DOMAIN list |-> Allocated(list[g], value)])

AllocationsFit(list, value) == value >= 0 /\ AllocatedPaise(list, value) <= value
ClaimsUnscaled(list, value) ==
    [g \in {h \in DOMAIN list : value > 0 /\ Allocated(list[h], value) > 0} |->
        Allocated(list[g], value)]

(* The claims on one record, scaled down together once they exceed its value. *)
Claims(list, value) ==
    LET all      == AllocatedPaise(list, value)
        Claim(g) == IF all <= value THEN Allocated(list[g], value)
                    ELSE (Allocated(list[g], value) * value) \div all
        claimed  == {g \in DOMAIN list : value > 0 /\ Claim(g) > 0}
    IN  [g \in claimed |-> Claim(g)]

UnallocatedOf(source) == source.value - Total(Claims(source.allocations, source.value))
EarmarksOfAnyGoal(sources, goals, lens) ==
    LET Sign(i)    == IF sources[i].side = "asset" THEN 1 ELSE -1
        counted    == {i \in DOMAIN sources : sources[i].includeInNetWorth}
        On(i)      == Claims(sources[i].allocations, sources[i].value)
        Part(i, g) == LensAmount(On(i)[g], sources[i].owners, lens)
        Taken(i)   == Total([g \in DOMAIN On(i) |-> Part(i, g)])
        Claimed(g) == {i \in counted : g \in DOMAIN On(i)}
    IN  [byGoal |-> [g \in {h \in goals : Claimed(h) # {}} |->
                        Total([i \in Claimed(g) |-> Sign(i) * Part(i, g)])],
         unallocated |-> Total([i \in counted |->
            Sign(i) * (LensAmount(sources[i].value, sources[i].owners, lens) - Taken(i))])]

(* Claims on goals that are not (or no longer) here count as Unallocated.     *)
EarmarksOf(sources, goals, lens) ==
    LET Sign(i)    == IF sources[i].side = "asset" THEN 1 ELSE -1
        counted    == {i \in DOMAIN sources : sources[i].includeInNetWorth}
        On(i)      == Claims(sources[i].allocations, sources[i].value)
        Part(i, g) == LensAmount(On(i)[g], sources[i].owners, lens)
        Taken(i)   == Total([g \in DOMAIN On(i) \cap goals |-> Part(i, g)])
        Claimed(g) == {i \in counted : g \in DOMAIN On(i)}
    IN  [byGoal |-> [g \in {h \in goals : Claimed(h) # {}} |->
                        Total([i \in Claimed(g) |-> Sign(i) * Part(i, g)])],
         unallocated |-> Total([i \in counted |->
            Sign(i) * (LensAmount(sources[i].value, sources[i].owners, lens) - Taken(i))])]

(* The line on top of the Goals screen: what is earmarked, of the net worth.   *)
Headline(sources, goals, lens) ==
    LET all       == EarmarksOf(sources, goals, lens)
        earmarked == Total(all.byGoal)
    IN  [earmarked |-> earmarked, netWorth |-> earmarked + all.unallocated]

(* The whole percent of a value its row in Accounts shows as tagged.          *)
TaggedPercent(list, value) ==
    IF value <= 0 THEN 0
    ELSE (Min({AllocatedPaise(list, value), value}) * 100) \div value
==============================================================================
