---------------------------- MODULE PriceRefresh ----------------------------
(* A device's copy of the price files: every tab asks for every kind once a  *)
(* price day, and all tabs share one store.                                  *)
(* Sources: src/sync/price-refresh.ts, src/db/price-store.ts, and loadPrices *)
(* of src/sync/household-sync.ts. The server is the abstract PriceFile.      *)
(*                                                                           *)
(* Reading the store, the request and its answer, and the write are steps of *)
(* their own: tabs interleave between them, and the day may turn.            *)
EXTENDS PriceFile

CONSTANTS
    Tabs,
    Days,           \* price days: they turn at 07:30, after both runs
    MaxFaults,      \* bound: failed requests and reloads
    MaxPublished    \* bound: files the server publishes

RefreshConstants ==
    /\ Dates \subseteq Nat
    /\ Stamps \subseteq Nat
    /\ Days \subseteq Nat
    /\ 0 \in Days
    /\ Null \notin Files
    /\ Null \notin [date : Dates, stamp : Stamps, checkedOn : Days]
    /\ Null \notin Days

VARIABLES
    day,        \* the price day
    published,  \* files published
    opening,    \* history: what the server had when each price day began
    row,        \* nwt-prices: one row per kind, or Null
    answered,   \* answered: the day each tab last got an answer, or Null
    inflight,   \* the day of a tab's run, or Null
    step,       \* where a tab's run is with each kind
    updated,    \* whether a tab's run has saved a file
    universes,  \* what a tab shows
    faults

tabVars == <<row, answered, inflight, step, updated, universes>>
pvars   == <<file, day, published, opening, row, answered, inflight, step, updated, universes, faults>>

Rows  == [date : Dates, stamp : Stamps, checkedOn : Days]
Ended == [at |-> "ended"]

Steps ==
    [at : {"ended", "ask"}]
        \cup [at : {"asked"}, row : Rows \cup {Null}]
        \cup [at : {"answered"}, file : Files \cup {Null}, row : Rows \cup {Null}]

NewTab(t) ==
    /\ answered' = [answered EXCEPT ![t] = [k \in Kinds |-> Null]]
    /\ inflight' = [inflight EXCEPT ![t] = Null]
    /\ step' = [step EXCEPT ![t] = [k \in Kinds |-> Ended]]
    /\ updated' = [updated EXCEPT ![t] = FALSE]
    /\ universes' = [universes EXCEPT ![t] = row]

PInit ==
    /\ Init
    /\ day = 0
    /\ published = 0
    /\ opening = [d \in Days |-> file]
    /\ row = [k \in Kinds |-> Null]
    /\ answered = [t \in Tabs |-> [k \in Kinds |-> Null]]
    /\ inflight = [t \in Tabs |-> Null]
    /\ step = [t \in Tabs |-> [k \in Kinds |-> Ended]]
    /\ updated = [t \in Tabs |-> FALSE]
    /\ universes = [t \in Tabs |-> row]
    /\ faults = 0

------------------------------------------------------------------------------
Ingested(k) ==
    /\ published < MaxPublished
    /\ published' = published + 1
    /\ Publish(k)
    /\ UNCHANGED <<day, opening, faults>>
    /\ UNCHANGED tabVars

NextDay ==
    /\ day + 1 \in Days
    /\ day' = day + 1
    /\ opening' = [opening EXCEPT ![day + 1] = file]
    /\ UNCHANGED <<file, published, faults>>
    /\ UNCHANGED tabVars

(* refresh(): unlock, online, the interval. One run at a time, for the day   *)
(* it began on.                                                              *)
Refresh(t) ==
    /\ inflight[t] = Null
    /\ inflight' = [inflight EXCEPT ![t] = day]
    /\ step' = [step EXCEPT ![t] = [k \in Kinds |-> [at |-> "ask"]]]
    /\ UNCHANGED <<file, day, published, opening, row, answered, updated, universes, faults>>

Go(t, k, s) == step' = [step EXCEPT ![t][k] = s]

Answered(t, k) == answered' = [answered EXCEPT ![t][k] = inflight[t]]

FreshOnceAnswered(t, k) ==
    /\ step[t][k].at = "ask"
    /\ \/ /\ answered[t][k] # Null
          /\ UNCHANGED answered
       \/ /\ row[k] # Null
          /\ row[k].checkedOn = inflight[t]
          /\ Answered(t, k)
    /\ Go(t, k, Ended)
    /\ UNCHANGED <<file, day, published, opening, row, inflight, updated, universes, faults>>

(* Nothing to ask: this tab, or another one, had its answer today.           *)
Fresh(t, k) ==
    /\ step[t][k].at = "ask"
    /\ \/ /\ answered[t][k] = inflight[t]
          /\ UNCHANGED answered
       \/ /\ row[k] # Null
          /\ row[k].checkedOn = inflight[t]
          /\ Answered(t, k)
    /\ Go(t, k, Ended)
    /\ UNCHANGED <<file, day, published, opening, row, inflight, updated, universes, faults>>

Ask(t, k) ==
    /\ step[t][k].at = "ask"
    /\ answered[t][k] # inflight[t]
    /\ row[k] # Null => row[k].checkedOn # inflight[t]
    /\ Go(t, k, [at |-> "asked", row |-> row[k]])
    /\ UNCHANGED <<file, day, published, opening, row, answered, inflight, updated, universes, faults>>

(* The server's answer: what it has now.                                     *)
Serve(t, k) ==
    /\ step[t][k].at = "asked"
    /\ Go(t, k, [at |-> "answered", file |-> file[k], row |-> step[t][k].row])
    /\ UNCHANGED <<file, day, published, opening, row, answered, inflight, updated, universes, faults>>

(* Offline, an error status, a file that does not parse: the last good file  *)
(* stays, and the next trigger asks again.                                   *)
Failed(t, k) ==
    /\ step[t][k].at \in {"asked", "answered"}
    /\ faults < MaxFaults
    /\ faults' = faults + 1
    /\ Go(t, k, Ended)
    /\ UNCHANGED <<file, day, published, opening, row, answered, inflight, updated, universes>>

Unchanged(s) ==     \* 304
    /\ s.row # Null
    /\ s.file # Null
    /\ s.row.stamp = s.file.stamp

Touch(t, k) ==
    /\ step[t][k].at = "answered"
    /\ Unchanged(step[t][k])
    /\ row' = [row EXCEPT ![k].checkedOn = inflight[t]]
    /\ Answered(t, k)
    /\ Go(t, k, Ended)
    /\ UNCHANGED <<file, day, published, opening, inflight, updated, universes, faults>>

Missing(t, k) ==    \* 404
    /\ step[t][k].at = "answered"
    /\ step[t][k].file = Null
    /\ Answered(t, k)
    /\ Go(t, k, Ended)
    /\ UNCHANGED <<file, day, published, opening, row, inflight, updated, universes, faults>>

PutAnyway(cur, f, d) == [date |-> f.date, stamp |-> f.stamp, checkedOn |-> d]

PutRow(cur, f, d) ==
    IF cur # Null /\ cur.date > f.date
    THEN [cur EXCEPT !.checkedOn = d]
    ELSE [date |-> f.date, stamp |-> f.stamp, checkedOn |-> d]

(* One transaction: an older file than the stored one only counts as a check.*)
Put(t, k) ==
    /\ step[t][k].at = "answered"
    /\ step[t][k].file # Null
    /\ ~Unchanged(step[t][k])
    /\ row' = [row EXCEPT ![k] = PutRow(@, step[t][k].file, inflight[t])]
    /\ Answered(t, k)
    /\ Go(t, k, Ended)
    /\ updated' = [updated EXCEPT ![t] = TRUE]
    /\ UNCHANGED <<file, day, published, opening, inflight, universes, faults>>

(* The run ended; a file saved in it makes the tab load the store again.     *)
Settle(t) ==
    /\ inflight[t] # Null
    /\ \A k \in Kinds : step[t][k].at = "ended"
    /\ inflight' = [inflight EXCEPT ![t] = Null]
    /\ universes' = IF updated[t] THEN [universes EXCEPT ![t] = row] ELSE universes
    /\ updated' = [updated EXCEPT ![t] = FALSE]
    /\ UNCHANGED <<file, day, published, opening, row, answered, step, faults>>

(* The page is loaded anew: a run under way is dropped with it.              *)
Reload(t) ==
    /\ faults < MaxFaults
    /\ faults' = faults + 1
    /\ NewTab(t)
    /\ UNCHANGED <<file, day, published, opening, row>>

Handle(t, k) ==
    Fresh(t, k) \/ Ask(t, k) \/ Serve(t, k) \/ Touch(t, k) \/ Missing(t, k) \/ Put(t, k)

PNext ==
    \/ NextDay
    \/ \E k \in Kinds : Ingested(k)
    \/ \E t \in Tabs :
           \/ Refresh(t)
           \/ Settle(t)
           \/ Reload(t)
           \/ \E k \in Kinds : Handle(t, k) \/ Failed(t, k)

(* While a tab is open and unlocked its triggers come back and requests end. *)
PFairness ==
    \A t \in Tabs :
        /\ WF_pvars(Refresh(t))
        /\ WF_pvars(Settle(t))
        /\ \A k \in Kinds : WF_pvars(Handle(t, k))

PSpec == PInit /\ [][PNext]_pvars /\ PFairness
------------------------------------------------------------------------------
PTypeOK ==
    /\ file \in [Kinds -> Files \cup {Null}]
    /\ day \in Days
    /\ opening \in [Days -> [Kinds -> Files \cup {Null}]]
    /\ row \in [Kinds -> Rows \cup {Null}]
    /\ answered \in [Tabs -> [Kinds -> Days \cup {Null}]]
    /\ inflight \in [Tabs -> Days \cup {Null}]
    /\ step \in [Tabs -> [Kinds -> Steps]]
    /\ updated \in [Tabs -> BOOLEAN]
    /\ universes \in [Tabs -> [Kinds -> Rows \cup {Null}]]

AtLeast(r, f) == f # Null => r # Null /\ r.date >= f.date

(* A kind that counts as checked on a day has a file of at least the day     *)
(* the server had when that price day began, whichever tab asked, in         *)
(* whatever order answers came, and whatever a 304 was the answer to.        *)
CheckedIsCurrent ==
    /\ \A k \in Kinds : row[k] # Null => AtLeast(row[k], opening[row[k].checkedOn][k])
    /\ \A t \in Tabs, k \in Kinds :
           answered[t][k] # Null => AtLeast(row[k], opening[answered[t][k]][k])

(* price-store.ts:55: no older file over a newer one.                        *)
NeverOlder ==
    [][\A k \in Kinds : row[k] # Null => row'[k] # Null /\ row'[k].date >= row[k].date]_pvars

(* Prices never get worse on a device: no older file over a newer one, and   *)
(* none counts as checked and is out of date.                                *)
NeverWorse == []CheckedIsCurrent /\ NeverOlder

(* What the server had at the beginning of a price day reaches the store     *)
(* while a tab is open, unless another day begins.                           *)
Fetches ==
    \A k \in Kinds, d \in Days :
        (day = d) ~> (AtLeast(row[k], opening[d][k]) \/ day # d)

------------------------------------------------------------------------------
(* Why a check of a day brings what the server had when it began.            *)

(* What was heard of a kind: served now, stored, or held by a tab's run.     *)
HeldRow(s)  == IF s.at \in {"asked", "answered"} THEN {s.row} ELSE {}
HeldFile(s) == IF s.at = "answered" THEN {s.file} ELSE {}
Held(s)     == HeldRow(s) \cup HeldFile(s)
Heard(k)    == ({file[k], row[k]} \cup UNION {Held(step[t][k]) : t \in Tabs}) \ {Null}

(* An ETag tells the file, and none is later than the latest file's.         *)
StampTells(k) ==
    /\ \A x \in Heard(k) : file[k] # Null /\ x.stamp <= file[k].stamp
    /\ \A x, y \in Heard(k) : x.stamp = y.stamp => x.date = y.date

(* The server is never behind what it had at the beginning of a day.         *)
OpenedBehind(k) == \A d \in Days : AtLeast(file[k], opening[d][k])

(* Nothing is of a day that has not come.                                    *)
NotAhead ==
    /\ \A k \in Kinds : row[k] # Null => row[k].checkedOn <= day
    /\ \A t \in Tabs :
           /\ inflight[t] # Null => inflight[t] <= day
           /\ \A k \in Kinds : answered[t][k] # Null => answered[t][k] <= day

(* A tab's run has a day, the answer it waits to store is of that day or     *)
(* later, and the store has only moved on since the run read it.             *)
StepHolds(t, k) ==
    LET s == step[t][k]
    IN  /\ s.at # "ended" => inflight[t] # Null
        /\ s.at \in {"asked", "answered"} => AtLeast(row[k], s.row)
        /\ s.at = "answered" => AtLeast(s.file, opening[inflight[t]][k])

RefreshInv ==
    /\ PTypeOK /\ NotAhead /\ CheckedIsCurrent
    /\ \A k \in Kinds : StampTells(k) /\ OpenedBehind(k)
    /\ \A t \in Tabs, k \in Kinds : StepHolds(t, k)
==============================================================================
