------------------------------ MODULE PriceFile ------------------------------
(* What the price server promises: per kind one latest file, which another   *)
(* file replaces only if it is of the same trading day or a later one.       *)
EXTENDS Naturals

CONSTANTS
    Kinds,      \* UNIVERSE_KINDS
    Dates,      \* trading days
    Stamps,     \* ETags, in the order of the files: no two are equal
    Null

VARIABLE file   \* the answer to /latest for every kind, or Null

Files == [date : Dates, stamp : Stamps]

Init == file = [k \in Kinds |-> Null]

Publish(k) ==
    /\ \E f \in Files :
           /\ file[k] # Null => f.date >= file[k].date /\ f.stamp > file[k].stamp
           /\ file' = [file EXCEPT ![k] = f]

Next == \E k \in Kinds : Publish(k)

Spec == Init /\ [][Next]_file
==============================================================================
