---------------------------- MODULE DailySnapshot ----------------------------
(* The household's one snapshot of each day, written by whichever device     *)
(* syncs first.                                                              *)
(* Sources: src/sync/snapshot-writer.ts, src/crypto/snapshot-id.ts,          *)
(* src/domain/records/snapshot.ts (the date), and the wiring in              *)
(* src/sync/household-sync.ts.                                               *)
(*                                                                           *)
(* A sync is one step here, with RecordSync's outcome: the later write of a  *)
(* record stands everywhere. A writer begins after a sync, awaits the id and *)
(* then today's prices, and may be overtaken in between by syncs, midnight,  *)
(* locks and other devices. An edit made before hydrate is over is left out. *)
EXTENDS Naturals

CONSTANTS
    Devices,    \* numbers: each is the device of a member, and breaks ties
    MaxDay,     \* bound: midnights that pass
    MaxUnlocks, \* bound: unlocks of each device
    MaxFaults,  \* bound: writes that fail
    Home,       \* the household's key
    Null

Days == 0 .. MaxDay

SnapshotIds == {Home} \X Days

VARIABLES
    today,      \* istDate(now())
    figures,    \* whether the household has an asset or a liability
    session,    \* of a device: which of its unlocks it is in, or 0
    unlocks,
    store,      \* the snapshots a device has: id -> [date, at, by] or Null
    queued,     \* ids in its outbox
    server,
    run,        \* inflight: [at, unlock, date] or Null, of each writer
    doneOn,     \* of each writer: a day or Null
    written,    \* history: days a device wrote a snapshot of
    twice,      \* history: whether a device wrote one twice
    faults

vars == <<today, figures, session, unlocks, store, queued, server, run, doneOn, written, twice, faults>>

(* A writer belongs to a handle, and a handle to an unlock.                  *)
Writers == UNION {{d} \X (1 .. MaxUnlocks[d]) : d \in Devices}

Writer(d) == <<d, session[d]>>

Open(d) == session[d] # 0

Init ==
    /\ today = 0
    /\ figures \in BOOLEAN
    /\ session = [d \in Devices |-> 0]
    /\ unlocks = [d \in Devices |-> 0]
    /\ store = [d \in Devices |-> [i \in SnapshotIds |-> Null]]
    /\ queued = [d \in Devices |-> {}]
    /\ server = [i \in SnapshotIds |-> Null]
    /\ run = [w \in Writers |-> Null]
    /\ doneOn = [w \in Writers |-> Null]
    /\ written = [d \in Devices |-> {}]
    /\ twice = FALSE
    /\ faults = 0

(* The keyed hash of the date: one for a household, whichever device asks.   *)
SnapshotIdOfDay(date) == <<Home, today>>

SnapshotId(date) == <<Home, date>>

Midnight ==
    /\ today < MaxDay
    /\ today' = today + 1
    /\ UNCHANGED <<figures, session, unlocks, store, queued, server, run, doneOn, written, twice, faults>>

FirstFigure ==
    /\ ~figures
    /\ figures' = TRUE
    /\ UNCHANGED <<today, session, unlocks, store, queued, server, run, doneOn, written, twice, faults>>

Unlock(d) ==
    /\ ~Open(d)
    /\ unlocks[d] < MaxUnlocks[d]
    /\ unlocks' = [unlocks EXCEPT ![d] = @ + 1]
    /\ session' = [session EXCEPT ![d] = unlocks'[d]]
    /\ UNCHANGED <<today, figures, store, queued, server, run, doneOn, written, twice, faults>>

Lock(d) ==
    /\ Open(d)
    /\ session' = [session EXCEPT ![d] = 0]
    /\ UNCHANGED <<today, figures, unlocks, store, queued, server, run, doneOn, written, twice, faults>>

------------------------------------------------------------------------------
Later(a, b) == a.at > b.at \/ (a.at = b.at /\ a.by > b.by)

Merged(d, i) ==
    CASE i \notin queued[d] -> server[i]
      [] server[i] = Null   -> store[d][i]
      [] OTHER              -> IF Later(server[i], store[d][i]) THEN server[i] ELSE store[d][i]

BegunOnce(w) ==
    IF run[w] = Null /\ doneOn[w] = Null
    THEN [run EXCEPT ![w] = [at |-> "id", date |-> today]] ELSE run

(* maybeWrite() shares the run that is under way, and does nothing once done.*)
Begun(w) ==
    IF run[w] = Null /\ doneOn[w] # today
    THEN [run EXCEPT ![w] = [at |-> "id", date |-> today]] ELSE run

Sync(d) ==
    /\ Open(d)
    /\ LET merged == [i \in SnapshotIds |-> Merged(d, i)]
       IN  /\ store' = [store EXCEPT ![d] = merged]
           /\ server' = merged
    /\ queued' = [queued EXCEPT ![d] = {}]
    /\ run' = Begun(Writer(d))
    /\ UNCHANGED <<today, figures, session, unlocks, doneOn, written, twice, faults>>

------------------------------------------------------------------------------
(* records() of a handle whose unlock is over is empty.                      *)
Live(w) == session[w[1]] = w[2]

Shown(w) == IF Live(w) THEN {i \in SnapshotIds : store[w[1]][i] # Null} ELSE {}

Over(w) == run' = [run EXCEPT ![w] = Null]

Derived(w) ==
    /\ run[w] # Null
    /\ run[w].at = "id"
    /\ IF SnapshotId(run[w].date) \in Shown(w)
       THEN Over(w) /\ doneOn' = [doneOn EXCEPT ![w] = run[w].date]
       ELSE /\ UNCHANGED doneOn
            /\ IF figures /\ Live(w) THEN run' = [run EXCEPT ![w].at = "prices"] ELSE Over(w)
    /\ UNCHANGED <<today, figures, session, unlocks, store, queued, server, written, twice, faults>>

Wrote(w) ==
    LET d == w[1]
        i == SnapshotId(run[w].date)
    IN  /\ store' = [store EXCEPT ![d][i] = [date |-> run[w].date, at |-> today, by |-> d]]
        /\ queued' = [queued EXCEPT ![d] = @ \cup {i}]
        /\ written' = [written EXCEPT ![d] = @ \cup {run[w].date}]
        /\ twice' = (twice \/ run[w].date \in written[d])

PricedUnchecked(w) ==
    /\ run[w] # Null
    /\ run[w].at = "prices"
    /\ Over(w)
    /\ IF Open(w[1])
       THEN Wrote(w) /\ doneOn' = [doneOn EXCEPT ![w] = run[w].date]
       ELSE UNCHANGED <<store, queued, doneOn, written, twice>>
    /\ UNCHANGED <<today, figures, session, unlocks, server, faults>>

(* hdk() !== hk: the session was locked, or unlocked anew, while it waited.  *)
Priced(w) ==
    /\ run[w] # Null
    /\ run[w].at = "prices"
    /\ Over(w)
    /\ IF Live(w)
       THEN Wrote(w) /\ doneOn' = [doneOn EXCEPT ![w] = run[w].date]
       ELSE UNCHANGED <<store, queued, doneOn, written, twice>>
    /\ UNCHANGED <<today, figures, session, unlocks, server, faults>>

WriteFailsDone(w) ==
    /\ run[w] # Null
    /\ run[w].at = "prices"
    /\ Live(w)
    /\ faults < MaxFaults
    /\ faults' = faults + 1
    /\ Over(w)
    /\ doneOn' = [doneOn EXCEPT ![w] = run[w].date]
    /\ UNCHANGED <<today, figures, session, unlocks, store, queued, server, written, twice>>

WriteFails(w) ==
    /\ run[w] # Null
    /\ run[w].at = "prices"
    /\ Live(w)
    /\ faults < MaxFaults
    /\ faults' = faults + 1
    /\ Over(w)
    /\ UNCHANGED <<today, figures, session, unlocks, store, queued, server, doneOn, written, twice>>

Write(w) == Derived(w) \/ Priced(w)

Next ==
    \/ Midnight
    \/ FirstFigure
    \/ \E d \in Devices : Unlock(d) \/ Lock(d) \/ Sync(d)
    \/ \E w \in Writers : Write(w) \/ WriteFails(w)

(* A device that is open syncs every minute, and its promises settle.        *)
Fairness ==
    /\ \A d \in Devices : WF_vars(Sync(d))
    /\ \A w \in Writers : WF_vars(Write(w))

Spec == Init /\ [][Next]_vars /\ Fairness
------------------------------------------------------------------------------
(* snapshot-id.ts:2: under a day's id there is that day's snapshot and no    *)
(* other, also when midnight passes while prices load.                       *)
DatedById ==
    \A i \in SnapshotIds :
        \A s \in {server[i]} \cup {store[d][i] : d \in Devices} : s # Null => s.date = i[2]

(* snapshot-writer.ts:5: a device writes a day's snapshot once, through      *)
(* locks, unlocks and the runs they left behind.                             *)
WrittenOnce == ~twice

(* A writer that has done its day is right: the device has the snapshot.     *)
DoneIsKept ==
    \A w \in Writers : doneOn[w] # Null => store[w[1]][SnapshotId(doneOn[w])] # Null

(* Devices, locks and midnights in any order leave each day the one snapshot *)
(* that was computed on it.                                                  *)
OneSnapshotADay == DatedById /\ WrittenOnce /\ DoneIsKept

(* Whatever failed or was skipped earlier, a day on which an open device     *)
(* keeps syncing gets its snapshot: none stays open for ever without it.     *)
DayIsRecorded ==
    \A d \in Devices :
        []<>(today = MaxDay /\ figures /\ Open(d) => server[SnapshotId(MaxDay)] # Null)

------------------------------------------------------------------------------
(* Why a day has the one snapshot after every step.                          *)
Snapshots == [date : Days, at : Days, by : Devices]
Runs      == [at : {"id", "prices"}, date : Days]

SnapshotConstants ==
    /\ MaxDay \in Nat
    /\ MaxUnlocks \in [Devices -> Nat]
    /\ Null \notin Snapshots \cup Runs \cup Days

SnapshotsOK ==
    /\ today \in Days
    /\ session \in [Devices -> Nat]
    /\ unlocks \in [Devices -> Nat]
    /\ store \in [Devices -> [SnapshotIds -> Snapshots \cup {Null}]]
    /\ queued \in [Devices -> SUBSET SnapshotIds]
    /\ server \in [SnapshotIds -> Snapshots \cup {Null}]
    /\ run \in [Writers -> Runs \cup {Null}]
    /\ doneOn \in [Writers -> Days \cup {Null}]
    /\ written \in [Devices -> SUBSET Days]

(* Every unlock has a number of its own, and only it began a writer's run.   *)
OneUnlock ==
    /\ \A d \in Devices : session[d] \in {0, unlocks[d]} /\ unlocks[d] <= MaxUnlocks[d]
    /\ \A w \in Writers : run[w] # Null => w[2] <= unlocks[w[1]]

(* What a device has and does not queue, the server has: a sync, which takes *)
(* the server's, then loses nothing.                                         *)
NothingLost ==
    \A d \in Devices, i \in SnapshotIds :
        /\ i \in queued[d] => store[d][i] # Null
        /\ store[d][i] # Null /\ i \notin queued[d] => server[i] # Null

(* A run that is about to write, and still may, has not been anticipated.    *)
WrittenIsStored ==
    /\ \A d \in Devices : \A date \in written[d] : store[d][SnapshotId(date)] # Null
    /\ \A w \in Writers :
           run[w] # Null /\ run[w].at = "prices" /\ Live(w) => run[w].date \notin written[w[1]]

SnapshotInv == SnapshotsOK /\ OneUnlock /\ NothingLost /\ WrittenIsStored /\ OneSnapshotADay
==============================================================================
