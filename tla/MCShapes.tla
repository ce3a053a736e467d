------------------------------ MODULE MCShapes ------------------------------
(* RecordSync in three shapes that Household does not have: two records     *)
(* with pages and batches of one, a tab whose old engine still runs beside   *)
(* its successor, and two tabs that share a device's store.                  *)
EXTENDS Naturals, Sequences, TLC

CONSTANTS d1, d2, other, r1, r2

VARIABLES shape, records, recordSeq, log, envelopes, outbox, cursor, unlocked, mounted, cache,
          hydrating, draft, run, orphans, faults, edits

syncVars == <<records, recordSeq, log, envelopes, outbox, cursor, unlocked, mounted, cache,
              hydrating, draft, run, orphans, faults, edits>>
mcVars   == <<shape, syncVars>>

Members == (d1 :> 1) @@ (d2 :> 2)
Here    == (d1 :> d1) @@ (d2 :> d2)

TwoRecords == INSTANCE RecordSyncProperties WITH
    Ids <- {r1, r2}, Devices <- {d1, d2}, Tabs <- {d1, d2}, Engines <- {d1, d2},
    DeviceOf <- Here, TabOf <- Here, AuthorOf <- Members,
    PullPage <- 1, PushBatch <- 1, MaxRounds <- 2, Clocks <- {1}, Deletions <- {FALSE},
    EarlyWrites <- FALSE, MaxEdits <- 2, MaxVersion <- 9, MaxFaults <- 1

Relock == INSTANCE RecordSyncProperties WITH
    Ids <- {r1}, Devices <- {d1, d2}, Tabs <- {d1, d2}, Engines <- {d1, d2, other},
    DeviceOf <- Here, TabOf <- Here @@ (other :> d1), AuthorOf <- Members,
    PullPage <- 2, PushBatch <- 2, MaxRounds <- 1, Clocks <- {1}, Deletions <- {FALSE},
    EarlyWrites <- FALSE, MaxEdits <- 2, MaxVersion <- 2, MaxFaults <- 1

TwoTabs == INSTANCE RecordSyncProperties WITH
    Ids <- {r1}, Devices <- {d1}, Tabs <- {d1, other}, Engines <- {d1, other},
    DeviceOf <- (d1 :> d1) @@ (other :> d1), TabOf <- (d1 :> d1) @@ (other :> other),
    AuthorOf <- (d1 :> 1),
    PullPage <- 2, PushBatch <- 2, MaxRounds <- 2, Clocks <- {1}, Deletions <- {FALSE},
    EarlyWrites <- FALSE, MaxEdits <- 2, MaxVersion <- 2, MaxFaults <- 1

MCInit ==
    \/ shape = "two records" /\ TwoRecords!Init
    \/ shape = "relock"      /\ Relock!Init
    \/ shape = "two tabs"    /\ TwoTabs!Init

MCNext ==
    /\ UNCHANGED shape
    /\ \/ shape = "two records" /\ TwoRecords!Next
       \/ shape = "relock"      /\ Relock!Next
       \/ shape = "two tabs"    /\ TwoTabs!Next

MCSpec == MCInit /\ [][MCNext]_mcVars

(* What Household checks of one record and a tab on each device holds in    *)
(* these shapes too: see RecordSyncProperties.                               *)
StoreIsLog ==
    /\ shape = "two records" => TwoRecords!StoreIsLog
    /\ shape = "relock"      => Relock!StoreIsLog
    /\ shape = "two tabs"    => TwoTabs!StoreIsLog

(* RecordSyncProperties: the cursor skips nothing, with pages of one.        *)
CursorSkipsNothing ==
    /\ shape = "two records" => TwoRecords!CursorSkipsNothing
    /\ shape = "relock"      => Relock!CursorSkipsNothing
    /\ shape = "two tabs"    => TwoTabs!CursorSkipsNothing

(* RecordSyncProperties: no base the server never had, with batches of one   *)
(* or two tabs that push from one outbox.                                    *)
BuiltOnHistory ==
    /\ shape = "two records" => TwoRecords!BuiltOnHistory
    /\ shape = "two tabs"    => TwoTabs!BuiltOnHistory

(* RecordSyncProperties: a locked tab shows nothing, whichever engine runs.  *)
LockedShowsNothing == shape = "relock" => Relock!LockedShowsNothing

(* RecordSyncProperties: an edit leaves the outbox when the store has it, by *)
(* whichever engine or tab.                                                  *)
LeavesQueueWhenStored ==
    [][\A d \in DOMAIN outbox : \A r \in DOMAIN outbox[d] :
          outbox[d][r].v > 0 /\ outbox'[d][r].v = 0
              => envelopes'[d][r].v >= outbox[d][r].v]_mcVars

(* The guarantees of the engine hold as well where pages and batches are of  *)
(* one, where a lock leaves a run behind, and where two tabs share a store.  *)
HoldsInShapes ==
    /\ [](StoreIsLog /\ CursorSkipsNothing /\ BuiltOnHistory /\ LockedShowsNothing)
    /\ LeavesQueueWhenStored
=============================================================================
