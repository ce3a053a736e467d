-------------------------------- MODULE Money --------------------------------
(* What an amount is worth to each owner, and net worth under every lens.    *)
(* Amounts are integer paise; a member id is a number, which stands for its   *)
(* place in the order of the ids.                                            *)
(* Sources: src/domain/money.ts, networth.ts, contributions.ts.              *)
EXTENDS Integers, FiniteSets, FiniteSetsExt

CONSTANTS
    FullBps,      \* 100% (FULL_BPS)
    Household,    \* the lens on everything; any other lens is a member id
    Null

(* The sum of the values of a function.                                      *)
Total(f) == MapThenSumSet(LAMBDA k : f[k], DOMAIN f)

SplitDown(amount, weights) ==
    LET all == Total(weights)
    IN  IF all <= 0 THEN [k \in {} |-> 0]
        ELSE [k \in DOMAIN weights |-> (amount * weights[k]) \div all]

(* Every part rounded down, then one paisa each to the largest remainders,    *)
(* ties to the lowest key. `weights` maps each key to its weight.            *)
SplitByWeight(amount, weights) ==
    LET all       == Total(weights)
        Scaled(k) == amount * weights[k]
        Rest(k)   == Scaled(k) % all
        Before(k) == {j \in DOMAIN weights :
                         Rest(j) > Rest(k) \/ (Rest(j) = Rest(k) /\ j < k)}
        leftover  == amount - Total([k \in DOMAIN weights |-> Scaled(k) \div all])
    IN  IF all <= 0 THEN [k \in {} |-> 0]
        ELSE [k \in DOMAIN weights |->
                 Scaled(k) \div all + IF Cardinality(Before(k)) < leftover THEN 1 ELSE 0]

OwnerSplit(amount, owners) == SplitByWeight(amount, owners)

LensAmount(amount, owners, lens) ==
    IF lens = Household THEN amount
    ELSE IF lens \in DOMAIN owners THEN OwnerSplit(amount, owners)[lens]
    ELSE 0

(* Term cover counts for nothing, whatever its record says.                  *)
NetWorthValue(data) == IF data.kind = "term" THEN 0 ELSE data.value

(* Adds up one amount per item that counts: what is held less what is owed.   *)
Totals(items, amount) ==
    LET Of(side) == Total([i \in {j \in DOMAIN items :
                                     items[j].includeInNetWorth /\ items[j].side = side} |->
                              amount[i]])
    IN  [assets |-> Of("asset"), liabilities |-> Of("liability"),
         net |-> Of("asset") - Of("liability")]

NetWorth(items, lens) ==
    Totals(items, [i \in DOMAIN items |-> LensAmount(items[i].value, items[i].owners, lens)])

(* All lenses in one pass: a part of a member who left goes to nobody's lens. *)
AllLenses(items, members) ==
    LET Part(i, m) == OwnerSplit(items[i].value, items[i].owners)[m]
        Of(i, who) == Total([m \in DOMAIN items[i].owners \cap who |-> Part(i, m)])
        Others(i)  == DOMAIN items[i].owners \ members
    IN  [household     |-> Totals(items, [i \in DOMAIN items |-> items[i].value]),
         byMember      |-> [m \in members |->
                               Totals(items, [i \in DOMAIN items |-> Of(i, {m})])],
         formerMembers |-> Totals(items, [i \in DOMAIN items |-> Of(i, Others(i))])]
------------------------------------------------------------------------------
(* Money that entered or left the household's accounts, under a lens. A leg   *)
(* is [kind, account, amount, date, transfer]; `transfer` is Null unless the   *)
(* leg is one of a transfer between the household's own accounts.             *)
InRange(date, range) ==
    /\ range.from = Null \/ date >= range.from
    /\ range.to = Null \/ date <= range.to

(* The legs of each transfer, as sets of leg ids.                            *)
GroupTransfers(legs) ==
    LET Linked == {l \in DOMAIN legs : legs[l].transfer # Null}
    IN  {{l \in Linked : legs[l].transfer = legs[k].transfer} : k \in Linked}

CheckPairOfTwo(legs, group) == IF Cardinality(group) > 2 THEN "mismatched" ELSE Null

(* checkPair: the problem of a group, or Null.                                *)
CheckPair(legs, group) ==
    IF Cardinality(group) < 2 THEN "missing-leg"
    ELSE IF \/ Cardinality(group) > 2
            \/ \E a, b \in group :
                  /\ a # b
                  /\ \/ legs[a].kind = legs[b].kind
                     \/ legs[a].account = legs[b].account
                     \/ legs[a].amount # legs[b].amount
         THEN "mismatched"
    ELSE Null

TransferIssues(legs) ==
    {[transfer |-> legs[CHOOSE l \in group : TRUE].transfer,
      problem |-> CheckPair(legs, group)] :
        group \in {h \in GroupTransfers(legs) : CheckPair(legs, h) # Null}}

(* A leg on an account that is not here counts in Household only.             *)
Signed(leg, owners, lens) ==
    LET amount == IF leg.account \in DOMAIN owners
                  THEN LensAmount(leg.amount, owners[leg.account], lens)
                  ELSE IF lens = Household THEN leg.amount ELSE 0
    IN  IF leg.kind = "in" THEN amount ELSE -amount

(* Each single leg is a movement; under a member's lens a sound transfer is    *)
(* one too, dated by its `out` leg, worth the change of that member's share.  *)
ContributionsOf(legs, owners, lens, range) ==
    LET single == {{l} : l \in {k \in DOMAIN legs :
                                   legs[k].transfer = Null /\ InRange(legs[k].date, range)}}
        linked == IF lens = Household THEN {}
                  ELSE {group \in GroupTransfers(legs) :
                          /\ CheckPair(legs, group) = Null
                          /\ \E l \in group :
                                legs[l].kind = "out" /\ InRange(legs[l].date, range)}
        Worth(move) == Total([l \in move |-> Signed(legs[l], owners, lens)])
        moves       == single \cup linked
        All(some)   == Total([v \in some |-> Worth(v)])
    IN  [added     |-> All({v \in moves : Worth(v) > 0}),
         withdrawn |-> -All({v \in moves : Worth(v) <= 0}),
         net       |-> All(moves)]
==============================================================================
