------------------------------ MODULE Standing ------------------------------
(* What the server promises about households: who is in one, by whose wrap   *)
(* of its key, and who may be let in.                                        *)
CONSTANTS People, Households

Out     == [at |-> "out"]
Invited == [at |-> "invited"]
In(by)  == [at |-> "in", by |-> by]

Standings == {Out, Invited} \cup {In(p) : p \in People}

VARIABLE standing   \* of every person in every household

Members(h) == {p \in People : standing[h][p].at = "in"}

Init == standing = [h \in Households |-> [p \in People |-> Out]]

(* The first member wraps the key to themselves.                             *)
Create(h, p) ==
    /\ Members(h) = {}
    /\ standing' = [standing EXCEPT ![h][p] = In(p)]

Invite(h, p) ==
    /\ Members(h) # {}
    /\ standing[h][p] = Out
    /\ standing' = [standing EXCEPT ![h][p] = Invited]

(* Cancelled, declined, or run out: several at once.                         *)
End ==
    \E gone \in SUBSET (Households \X People) :
        standing' = [h \in Households |-> [p \in People |->
            IF <<h, p>> \in gone /\ standing[h][p] = Invited THEN Out ELSE standing[h][p]]]

(* A wrap that was on its way when the invite ended still lets p in.         *)
Add(h, p) ==
    /\ p \notin Members(h)
    /\ \E by \in Members(h) : standing' = [standing EXCEPT ![h][p] = In(by)]

Next ==
    \/ End
    \/ \E h \in Households, p \in People : Create(h, p) \/ Invite(h, p) \/ Add(h, p)

Spec == Init /\ [][Next]_standing
=============================================================================
