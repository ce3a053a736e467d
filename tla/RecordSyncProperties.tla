------------------------ MODULE RecordSyncProperties ------------------------
(***************************************************************************)
(* What must hold of RecordSync, whatever members, networks and clocks do.  *)
(***************************************************************************)
EXTENDS RecordSync

TypeOK ==
    /\ records \in [Ids -> Envelope] /\ recordSeq \in Nat /\ log \subseteq Envelope
    /\ envelopes \in [Devices -> [Ids -> Envelope]]
    /\ outbox \in [Devices -> [Ids -> Entry]]
    /\ cursor \in [Devices -> Nat]
    /\ unlocked \in [Tabs -> BOOLEAN] /\ mounted \in [Engines -> BOOLEAN]
    /\ cache \in [Engines -> [Ids -> Nat]]
    /\ hydrating \in [Engines -> [stage : {"none", "start", "envelopes", "outbox"},
                                  todo : [Ids -> Nat]]]
    /\ draft \in [Engines -> Draft]
    /\ run \in [Engines -> Run]
    /\ orphans \subseteq SUBSET Entry
    /\ faults \in Nat
    /\ edits \in Seq(Edit)

------------------------------------------------------------------------------
(* Safety *)

(* The server's history of a record never forks, and what a device stores   *)
(* is a piece of it: content, version and seq as committed, although the    *)
(* device puts its own pushes into the store from memory, after the member  *)
(* may have edited again, or another tab pushed.                            *)
StoreIsLog ==
    /\ \A x, y \in log : x.rec = y.rec /\ x.v = y.v => x = y
    /\ \A d \in Devices, r \in Ids :
          envelopes[d][r].v > 0 => envelopes[d][r] \in log

(* The cursor skips nothing: a row at or below it is on the device already, *)
(* whatever was locked, reloaded or committed while its page was received.  *)
CursorSkipsNothing ==
    \A d \in Devices, r \in Ids :
        records[r].v > 0 /\ records[r].seq <= cursor[d]
            => envelopes[d][r].v >= records[r].v

(* Nothing is queued or sent on a base the server never had: it would       *)
(* answer 400 to the whole push, run after run, and the outbox would stay   *)
(* stuck with every other edit in it ("a client bug, not a conflict").      *)
BuiltOnHistory ==
    /\ \A d \in Devices, r \in Ids : outbox[d][r].v <= records[r].v + 1
    /\ \A e \in Engines : \A x \in run[e].batch \cup run[e].unsent :
          x.v <= records[x.rec].v + 1
    /\ \A B \in orphans : \A x \in B : x.v <= records[x.rec].v + 1

(* A version replaces another only if its author's device held that one     *)
(* when the edit was made, or if its stamp is not the earlier of the two:   *)
(* last write wins, through any number of merges and re-seals.              *)
OverwritesSeenOrEarlier ==
    \A x, y \in log :
        x.rec = y.rec /\ y.v = x.v + 1
            => edits[y.e].base >= x.v \/ ~Later(x.e, y.e)

(* A locked tab shows no record, although a receive, a hydrate or a write() *)
(* that began before the lock may end after it.                             *)
LockedShowsNothing ==
    \A e \in Engines, r \in Ids : ~unlocked[TabOf[e]] => cache[e][r] = 0

(* What is shown of a stored envelope or a row: nothing of a tombstone.     *)
Content(x) == IF x.v = 0 \/ edits[x.e].del THEN 0 ELSE x.e

Visible(r) == Content(records[r])

(* Nothing of the device is under way, and no pull would bring anything.    *)
CaughtUp(d) ==
    /\ cursor[d] = recordSeq
    /\ \A r \in Ids : outbox[d][r].v = 0
    /\ \A e \in Engines : Host(e) = d => run[e].pc = "idle" /\ draft[e] = NoDraft

(* A tab whose device is caught up shows what the server has.  No later run *)
(* would repair a record shown wrongly then: only its next edit would.      *)
CaughtUpIsShown ==
    \A e \in Engines :
        mounted[e] /\ Ready(e) /\ CaughtUp(Host(e))
            => \A r \in Ids : cache[e][r] = Visible(r)

(* An edit leaves the outbox only once the store holds an envelope at least *)
(* as new: its own, acknowledged, or the one it lost to.  So a reload never *)
(* finds a record both unqueued and older than the member left it.          *)
LeavesQueueWhenStored ==
    [][\A d \in Devices, r \in Ids :
          outbox[d][r].v > 0 /\ outbox'[d][r].v = 0
              => envelopes'[d][r].v >= outbox[d][r].v]_vars

(* The store and the server implement the one log of RecordLog.             *)
Log == INSTANCE RecordLog WITH copy <- envelopes
ImplementsLog == Log!Spec

------------------------------------------------------------------------------
(* Liveness *)

InSync(e) ==
    \A r \in Ids : /\ outbox[Host(e)][r].v = 0
                   /\ envelopes[Host(e)][r] = records[r]
                   /\ cache[e][r] = Visible(r)

(* Once edits and faults end, a tab that stays unlocked comes to hold, and  *)
(* show, exactly what the server has, with nothing left to push.            *)
Converges == \A e \in Engines : <>[](mounted[e] /\ unlocked[TabOf[e]]) => <>[]InSync(e)

------------------------------------------------------------------------------
(* What the repository says, and the code does not do *)

(* local-store.ts, dequeue: "a newer edit stays".  The last edit a device   *)
(* made of a record is queued, or was committed, or lost to a later stamp.  *)
LastEditStays ==
    \A n \in 1 .. Len(edits) :
        LET w == edits[n] IN
        \/ \E m \in n + 1 .. Len(edits) : edits[m].rec = w.rec /\ edits[m].dev = w.dev
        \/ outbox[w.dev][w.rec].e = n
        \/ \E x \in log : x.rec = w.rec /\ (x.e = n \/ Later(x.e, n))

------------------------------------------------------------------------------
(* The inductive strengthenings: why each property survives every step.     *)
(* Proved in RecordSyncProofs and the modules that extend it.                *)

(* The log is linear, and the row of a record is its last entry.            *)
LogIsLinear ==
    /\ \A x, y \in log : /\ x.rec = y.rec /\ x.v = y.v => x = y
                         /\ x.seq = y.seq => x = y
    /\ \A x \in log : x.v > 0 /\ x.v <= records[x.rec].v /\ x.seq <= recordSeq
    /\ \A r \in Ids : /\ records[r].rec = r
                      /\ records[r].v > 0 => records[r] \in log
                      /\ records[r].v = 0 => records[r].seq = 0

StoresHoldLog ==
    \A d \in Devices, r \in Ids :
        /\ outbox[d][r].rec = r /\ envelopes[d][r].rec = r
        /\ envelopes[d][r].v > 0 => envelopes[d][r] \in log
        /\ outbox[d][r].v <= records[r].v + 1

(* A push names a record once, on a base the server has.                    *)
Pushable(B) ==
    /\ IsFiniteSet(B)
    /\ \A x, y \in B : x.rec = y.rec => x = y
    /\ \A x \in B : x.v > 0 /\ x.v <= records[x.rec].v + 1

InHand == {"put", "peek", "merge", "received", "acked"}

(* What a run holds of the server's is from the log.                        *)
RunHoldsLog(u) ==
    /\ u.inbox \subseteq log /\ u.acks \subseteq log
    /\ u.pc \in InHand => u.remote \in log
    /\ Pushable(u.batch) /\ Pushable(u.unsent)

ProcessesHoldLog ==
    /\ \A e \in Engines : /\ RunHoldsLog(run[e])
                          /\ draft[e].base <= records[draft[e].rec].v
    /\ \A B \in orphans : Pushable(B)

LogInv == TypeOK /\ LogIsLinear /\ StoresHoldLog /\ ProcessesHoldLog

------------------------------------------------------------------------------
(* Of the rows up to s, the device lacks only some of I.                    *)
Covered(d, I, s) ==
    \A r \in Ids :
        records[r].v > 0 /\ records[r].seq <= s
            => envelopes[d][r].v >= records[r].v \/ records[r] \in I

(* A page is received oldest first, and each envelope of it is stored       *)
(* before the cursor moves; only while a push is answered the inbox holds   *)
(* conflicts instead of a page.                                             *)
RunCovers(d, u) ==
    /\ u.batch = {} => \A x \in u.inbox : Covered(d, u.inbox, x.seq)
    /\ u.batch = {} /\ u.pc \in InHand =>
          u.remote \in u.inbox /\ \A y \in u.inbox : u.remote.seq <= y.seq
    /\ u.pc \in {"peek", "merge", "received"} =>
          envelopes[d][u.remote.rec].v >= u.remote.v
    /\ u.pc \in {"sent", "settle", "acked"} => u.batch # {}

RunsCover == \A e \in Engines : RunCovers(Host(e), run[e])

CursorsInRange == \A d \in Devices : cursor[d] <= recordSeq

CursorInv == LogInv /\ CursorSkipsNothing /\ RunsCover /\ CursorsInRange

------------------------------------------------------------------------------
(* A version may take the place of x: its device had x, or x is not later.  *)
MayFollow(y, x) ==
    y.rec = x.rec /\ y.v = x.v + 1 => edits[y.e].base >= x.v \/ ~Later(x.e, y.e)

Known(i) == i \in 1 .. Len(edits)

EntryFollows(y) ==
    y.v > 0 => Known(y.e) /\ \A x \in log : MayFollow(y, x)

(* All that may still be committed.                                         *)
InFlight == (UNION {{outbox[d][r] : r \in Ids} : d \in Devices})
                \cup (UNION {run[e].batch \cup run[e].unsent : e \in Engines})
                \cup (UNION orphans)

FollowInv ==
    /\ LogInv /\ OverwritesSeenOrEarlier
    /\ \A x \in log : Known(x.e)
    /\ \A y \in InFlight : EntryFollows(y)
    /\ \A e \in Engines : run[e].pc = "merge" => Known(run[e].pending.e)

------------------------------------------------------------------------------
(* What CaughtUpIsShown is proved from. A device has one tab, and no run of *)
(* it that a lock caught is still going when the tab is unlocked again.     *)
OneEngineADevice == \A e, f \in Engines : Host(e) = Host(f) => e = f

(* The device has the row for good, and nothing of its own to put over it.  *)
Settled(d, r) == outbox[d][r].v = 0 /\ records[r].seq <= cursor[d]

(* Half hydrated: what was shown is what was read, and what was not shown   *)
(* yet is still to come.                                                    *)
HydrateShows(e) ==
    LET d == Host(e)
        h == hydrating[e]
    IN  /\ h.stage = "start" => \A r \in Ids : h.todo[r] = 0 /\ cache[e][r] = 0
        /\ h.stage = "envelopes" =>
               \A r \in Ids : IF h.todo[r] = 0 THEN cache[e][r] = Content(envelopes[d][r])
                                               ELSE h.todo[r] = envelopes[d][r].e
        /\ h.stage = "outbox" =>
               \A r \in Ids : outbox[d][r].v = 0
                                  => h.todo[r] = 0 /\ cache[e][r] = Content(envelopes[d][r])

TabShows(e) ==
    IF ~mounted[e] THEN hydrating[e] = NotLoading
    ELSE
        /\ unlocked[TabOf[e]]
        /\ IF Ready(e) THEN \A r \in Ids : Settled(Host(e), r) => cache[e][r] = Visible(r)
           ELSE run[e].pc = "idle" /\ draft[e] = NoDraft /\ HydrateShows(e)

(* A page holds every row that its envelopes will take the cursor past; a   *)
(* received envelope is shown unless the row, or an edit, is newer; and     *)
(* what was acknowledged comes back with a later pull.                      *)
PageIsWhole(e) ==
    run[e].batch = {} =>
        \A x \in run[e].inbox, r \in Ids :
            cursor[Host(e)] < records[r].seq /\ records[r].seq <= x.seq
                => records[r] \in run[e].inbox

HandShows(e) ==
    LET d == Host(e)
        x == run[e].remote
    IN  /\ run[e].pc = "put" => envelopes[d][x.rec].v <= x.v
        /\ run[e].pc \in {"peek", "merge"} => envelopes[d][x.rec] = x
        /\ run[e].pc = "received" /\ run[e].batch = {} /\ mounted[e] =>
               (outbox[d][x.rec].v = 0 /\ records[x.rec] = x => cache[e][x.rec] = Visible(x.rec))

AcksComeBack(e) ==
    /\ run[e].pc \in {"settle", "acked"} =>
           \A x \in run[e].acks : records[x.rec].seq > cursor[Host(e)]
    /\ run[e].pc = "acked" => records[run[e].remote.rec].seq > cursor[Host(e)]

EngineShows(e) == TabShows(e) /\ PageIsWhole(e) /\ HandShows(e) /\ AcksComeBack(e)

NoVersionNoContent ==
    \A d \in Devices, r \in Ids :
        /\ envelopes[d][r].v = 0 => envelopes[d][r].e = 0
        /\ outbox[d][r].v = 0 => outbox[d][r].e = 0

ShownInv ==
    /\ CursorInv
    /\ \A x \in log : Known(x.e)
    /\ NoVersionNoContent
    /\ \A e \in Engines : EngineShows(e)
==============================================================================
