------------------------------ MODULE RecordLog ------------------------------
(***************************************************************************)
(* What record sync promises (ADR-0003, ADR-0045), said without engines,   *)
(* queues or messages.  A household has one log of sealed envelopes.  Each  *)
(* record's envelopes are numbered 1, 2, 3, ... without a gap or a fork,    *)
(* `seq` orders all of them by commit, and every device holds, of each      *)
(* record, an envelope of the log that is only ever replaced by a newer     *)
(* one.  RecordSync implements this.                                        *)
(***************************************************************************)
EXTENDS Naturals

CONSTANTS Ids,       \* the records of one household
          Devices    \* browsers, each with its own record store

VARIABLES log,       \* every envelope the server ever committed
          copy       \* copy[d][r]: the envelope device d stores for record r

vars == <<log, copy>>

Blank(r) == [rec |-> r, v |-> 0, e |-> 0, seq |-> 0]

Init == /\ log = {}
        /\ copy = [d \in Devices |-> [r \in Ids |-> Blank(r)]]

(* One push commits: each record it names gets the next version, and every  *)
(* new envelope comes after everything committed before.                    *)
Commit ==
    LET new == log' \ log IN
    /\ log \subseteq log'
    /\ new # {}
    /\ \A x \in new :
          /\ \A y \in new : y.rec = x.rec => y = x
          /\ \A y \in new : y.seq = x.seq => y = x
          /\ \A y \in log : y.seq < x.seq
          /\ \A y \in log : y.rec = x.rec => y.v < x.v
          /\ x.v = 1 \/ \E y \in log : y.rec = x.rec /\ y.v = x.v - 1
    /\ UNCHANGED copy

(* A device takes over an envelope of the log: its own, once the server     *)
(* acknowledged it, or another device's.                                    *)
Learn(d, r) ==
    /\ \E x \in log : /\ x.rec = r
                      /\ x.v > copy[d][r].v
                      /\ copy' = [copy EXCEPT ![d][r] = x]
    /\ UNCHANGED log

Next == Commit \/ \E d \in Devices, r \in Ids : Learn(d, r)

Spec == Init /\ [][Next]_vars
==============================================================================
