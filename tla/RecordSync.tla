----------------------------- MODULE RecordSync -----------------------------
(***************************************************************************)
(* Encrypted record sync of one household: the server's records routes      *)
(* (records.ts, records-push.ts), the device's ciphertext store             *)
(* (local-store.ts), and in every unlocked tab an engine (engine.ts) with   *)
(* its plaintext cache (record-cache.ts), wired up and torn down by         *)
(* household-sync.ts, scheduler.ts and sync-provider.tsx.                   *)
(*                                                                         *)
(* JavaScript runs one continuation at a time, so an action is what happens *)
(* between two awaits: one IndexedDB transaction and the synchronous code   *)
(* that follows it.  An engine's sync run and a pending edit are processes  *)
(* of their own; several engines (two tabs, or one left over from before a  *)
(* lock beside its successor) may share a device's store.                   *)
(*                                                                         *)
(* An edit's content is a number, an index into the history variable edits: *)
(* its stamp, its deleted flag, its author.  0 stands for "no content".     *)
(* Sealing and opening keep content and are left out; what they refuse      *)
(* (a locked session, a version below the replay floor) is kept.            *)
(***************************************************************************)
EXTENDS Naturals, Sequences, FiniteSets

CONSTANTS Ids,         \* record ids
          Devices,     \* browsers: one record store each
          Tabs,        \* pages: one key session each
          Engines,     \* engine instances; a tab makes a new one at every unlock
          DeviceOf,    \* the device a tab runs on
          TabOf,       \* the tab an engine runs in
          AuthorOf,    \* the member signed in on a device, a number (LWW compares them)
          PullPage,    \* engine.ts PULL_PAGE = records.ts PAGE_SIZE
          PushBatch,   \* engine.ts PUSH_BATCH
          MaxRounds,   \* push rounds per run
          Clocks,      \* readings of the members' clocks, unsynchronised
          Deletions,   \* may an edit be a delete: a subset of BOOLEAN
          EarlyWrites, \* may a member edit before hydrate is done
          MaxEdits,    \* bound: edits made
          MaxVersion,  \* bound: version a re-seal may reach
          MaxFaults    \* bound: failed requests, locks and reloads

ASSUME NumbersAssumption ==
    /\ PullPage \in Nat \ {0} /\ PushBatch \in Nat \ {0} /\ MaxRounds \in Nat
    /\ MaxEdits \in Nat /\ MaxVersion \in Nat /\ MaxFaults \in Nat
    /\ Clocks \subseteq Nat \ {0}
    /\ Deletions \subseteq BOOLEAN /\ EarlyWrites \in BOOLEAN

ASSUME PlacesAssumption ==
    /\ DeviceOf \in [Tabs -> Devices] /\ TabOf \in [Engines -> Tabs]
    /\ AuthorOf \in [Devices -> Nat]

ASSUME IdsAssumption == IsFiniteSet(Ids) /\ Ids # {}

VARIABLES
    records,   \* server: the records table, one row per id (v = 0: no row)
    recordSeq, \* server: households.recordSeq
    log,       \* history: every row ever committed
    envelopes, \* device: newest envelope seen per record, the replay floor
    outbox,    \* device: the queued edit of each record (v = 0: none)
    cursor,    \* device: the pull cursor
    unlocked,  \* tab: the session holds the household key
    mounted,   \* engine: its SyncProvider is mounted
    cache,     \* engine: the content shown per record (0: not shown)
    hydrating, \* engine: what hydrate still has to show, and how far it is
    draft,     \* engine: the edit inside write(), its base read
    run,       \* engine: its sync run, see Run below
    orphans,   \* network: pushes whose sender is gone, still to reach the server
    faults,    \* bound: faults so far
    edits      \* history: the edits that write() queued, in order

server == <<records, recordSeq, log>>
store  == <<envelopes, outbox, cursor>>
page   == <<mounted, cache, hydrating>>
vars   == <<server, store, unlocked, page, draft, run, orphans, faults, edits>>

------------------------------------------------------------------------------
(* Data *)

Envelope == [rec : Ids, v : Nat, e : Nat, seq : Nat]
Entry    == [rec : Ids, v : Nat, e : Nat]
Edit     == [rec : Ids, at : Nat, by : Nat, del : BOOLEAN, dev : Devices, base : Nat]
Draft    == [rec : Ids, at : Nat, del : BOOLEAN, base : Nat]

(* A sync run: where it stands, the page or the push conflicts still to be  *)
(* received and whether that page was a full one, the envelope in hand, the *)
(* queued edit receive() read, the rest of this round's outbox snapshot, the *)
(* push sent, its applied envelopes still to be stored, the rounds begun.   *)
Run == [pc : {"idle", "pull", "receive", "put", "peek", "merge", "received",
              "push", "send", "sent", "settle", "acked"},
        inbox : SUBSET Envelope, full : BOOLEAN, remote : Envelope,
        pending : Entry, unsent : SUBSET Entry, batch : SUBSET Entry,
        acks : SUBSET Envelope, round : Nat]

Blank(r)   == [rec |-> r, v |-> 0, e |-> 0, seq |-> 0]
NoEntry(r) == [rec |-> r, v |-> 0, e |-> 0]
AnId       == CHOOSE r \in Ids : TRUE
NoDraft    == [rec |-> AnId, at |-> 0, del |-> FALSE, base |-> 0]
NotLoading == [stage |-> "none", todo |-> [r \in Ids |-> 0]]
IdleRun    == [pc |-> "idle", inbox |-> {}, full |-> FALSE, remote |-> Blank(AnId),
               pending |-> NoEntry(AnId), unsent |-> {}, batch |-> {},
               acks |-> {}, round |-> 0]

Host(e) == DeviceOf[TabOf[e]]

(* A stored envelope is replaced by a received one unless it is newer.      *)
PutEnvelope(cur, x) == IF cur.v > x.v THEN cur ELSE x

(* The queued edit of a record is dropped if it still is version v.         *)
DequeuedWhatever(cur, v) == NoEntry(cur.rec)
Dequeued(cur, v) == IF cur.v = v THEN NoEntry(cur.rec) ELSE cur

(* A local edit is built on the stored version.                             *)
BaseOnQueued(d, r) == IF outbox[d][r].v > envelopes[d][r].v THEN outbox[d][r].v
                                                            ELSE envelopes[d][r].v
BaseOneLess(d, r) == envelopes[d][r].v - 1
BaseVersion(d, r) == envelopes[d][r].v

(* compareStamps(b, a) > 0: b is the later write.                           *)
Later(b, a) == \/ edits[b].at > edits[a].at
               \/ edits[b].at = edits[a].at /\ edits[b].by > edits[a].by

(* mergeLww keeps the local edit unless the remote one is later.            *)
MineWinsAlways(mine, theirs) == TRUE
MineWins(mine, theirs) == ~Later(theirs, mine)

(* A queued edit built on the remote version, or a later one, stands.       *)
StandsOnEqual(p, x) == p.v >= x.v
Stands(p, x) == p.v > x.v

(* The server's optimistic check: the pushed version follows the row's.     *)
AppliesOnEqual(row, x) == row.v \in {x.v, x.v - 1}
Applies(row, x) == row.v = x.v - 1

------------------------------------------------------------------------------
(* The server *)

(* A version above 1 without a row is refused, the whole push with it.      *)
BadBase(B) == \E x \in B : x.v > 1 /\ records[x.rec].v = 0

Applied(B)   == {x \in B : Applies(records[x.rec], x)}
Conflicts(B) == {records[x.rec] : x \in B \ Applied(B)}

(* The seq order of a push is the order of its batch, which queuedAt (a     *)
(* local clock) decided: any order.                                         *)
Orders(S) == {f \in [S -> 1 .. Cardinality(S)] :
                 \A x, y \in S : f[x] = f[y] => x = y}

Committed(S, f) == {[rec |-> x.rec, v |-> x.v, e |-> x.e, seq |-> recordSeq + f[x]] : x \in S}

(* The push transaction, under the household row's lock.                    *)
Commit(B, f) ==
    LET new == Committed(Applied(B), f) IN
    /\ records' = [r \in Ids |-> IF \E x \in new : x.rec = r
                                    THEN CHOOSE x \in new : x.rec = r
                                    ELSE records[r]]
    /\ recordSeq' = recordSeq + Cardinality(Applied(B))
    /\ log' = log \cup new

(* A push whose sender no longer listens reaches the server late.           *)
ServeOrphan(B) ==
    /\ B \in orphans
    /\ orphans' = orphans \ {B}
    /\ IF BadBase(B) THEN UNCHANGED server
                     ELSE \E f \in Orders(Applied(B)) : Commit(B, f)
    /\ UNCHANGED <<store, unlocked, page, draft, run, faults, edits>>

------------------------------------------------------------------------------
(* The session and the engine's life *)

(* cache.set is ignored while locked; a tombstone is only ever deleted.     *)
ShownAnyway(e, r, i, deleted) == [cache EXCEPT ![e][r] = IF deleted THEN 0 ELSE i]
Shown(e, r, i, deleted) ==
    [cache EXCEPT ![e][r] = IF deleted THEN 0
                            ELSE IF unlocked[TabOf[e]] THEN i ELSE @]

InTab(t) == {e \in Engines : TabOf[e] = t}

(* The session unlocks and a new engine mounts, with an empty cache.        *)
Unlock(t) ==
    /\ ~unlocked[t]
    /\ unlocked' = [unlocked EXCEPT ![t] = TRUE]
    /\ \E e \in InTab(t) :
          /\ ~mounted[e] /\ run[e].pc = "idle" /\ draft[e] = NoDraft
          /\ mounted' = [mounted EXCEPT ![e] = TRUE]
          /\ cache' = [cache EXCEPT ![e] = [r \in Ids |-> 0]]
          /\ hydrating' = [hydrating EXCEPT ![e].stage = "start"]
    /\ UNCHANGED <<server, store, draft, run, orphans, faults, edits>>

Unmount(t) ==
    /\ unlocked' = [unlocked EXCEPT ![t] = FALSE]
    /\ mounted' = [e \in Engines |-> mounted[e] /\ TabOf[e] # t]
    /\ cache' = [e \in Engines |-> IF TabOf[e] = t THEN [r \in Ids |-> 0] ELSE cache[e]]
    /\ hydrating' = [e \in Engines |-> IF TabOf[e] = t THEN NotLoading ELSE hydrating[e]]

(* Lock: caches are emptied, the scheduler stops, the provider unmounts.  A *)
(* run or a write() in flight goes on until it asks for the key.            *)
Lock(t) ==
    /\ unlocked[t] /\ faults < MaxFaults
    /\ faults' = faults + 1
    /\ Unmount(t)
    /\ UNCHANGED <<server, store, draft, run, orphans, edits>>

(* Reload or crash: the tab's memory is gone, the store stays.  A push      *)
(* already sent may still reach the server.                                 *)
Reload(t) ==
    /\ faults < MaxFaults
    /\ faults' = faults + 1
    /\ \E e \in InTab(t) : mounted[e] \/ run[e].pc # "idle" \/ draft[e] # NoDraft
    /\ Unmount(t)
    /\ run' = [e \in Engines |-> IF TabOf[e] = t THEN IdleRun ELSE run[e]]
    /\ draft' = [e \in Engines |-> IF TabOf[e] = t THEN NoDraft ELSE draft[e]]
    /\ \E late \in SUBSET {run[e].batch : e \in {x \in InTab(t) : run[x].pc = "sent"}} :
          orphans' = orphans \cup late
    /\ UNCHANGED <<server, store, edits>>

------------------------------------------------------------------------------
(* hydrate(): the stored envelopes, then the queued edits, one by one *)

HydrateEnvelopes(e) ==
    /\ hydrating[e].stage = "start"
    /\ hydrating' = [hydrating EXCEPT ![e] =
           [stage |-> "envelopes", todo |-> [r \in Ids |-> envelopes[Host(e)][r].e]]]
    /\ UNCHANGED <<server, store, unlocked, mounted, cache, draft, run, orphans, faults, edits>>

HydrateShow(e, r) ==
    LET i == hydrating[e].todo[r] IN
    /\ i # 0
    /\ cache' = Shown(e, r, i, edits[i].del)
    /\ hydrating' = [hydrating EXCEPT ![e].todo[r] = 0]
    /\ UNCHANGED <<server, store, unlocked, mounted, draft, run, orphans, faults, edits>>

AllShown(e) == \A r \in Ids : hydrating[e].todo[r] = 0

HydrateOutbox(e) ==
    /\ hydrating[e].stage = "envelopes" /\ AllShown(e)
    /\ hydrating' = [hydrating EXCEPT ![e] =
           [stage |-> "outbox", todo |-> [r \in Ids |-> outbox[Host(e)][r].e]]]
    /\ UNCHANGED <<server, store, unlocked, mounted, cache, draft, run, orphans, faults, edits>>

(* Hydrated: the scheduler is started.                                      *)
Ready(e) == hydrating[e].stage = "outbox" /\ AllShown(e)

------------------------------------------------------------------------------
(* write(): a member's edit *)

Queued(d, r, v, i) == [outbox EXCEPT ![d][r] = [rec |-> r, v |-> v, e |-> i]]

(* The edit is stamped and its base read.  Two devices may create the same  *)
(* id (snapshot ids are derived); only what is shown can be deleted.        *)
Write(e, r) ==
    /\ mounted[e] /\ draft[e] = NoDraft
    /\ EarlyWrites \/ Ready(e)
    /\ Len(edits) + Cardinality({x \in Engines : draft[x] # NoDraft}) < MaxEdits
    /\ \E at \in Clocks, del \in Deletions :
          /\ del => cache[e][r] # 0
          /\ draft' = [draft EXCEPT ![e] =
                 [rec |-> r, at |-> at, del |-> del, base |-> BaseVersion(Host(e), r)]]
    /\ UNCHANGED <<server, store, unlocked, page, run, orphans, faults, edits>>

(* Sealed, queued and shown; household-sync.ts then starts a run, or joins  *)
(* the one in flight.  A lock after the key was read no longer stops it.    *)
QueueEdit(e) ==
    LET w == draft[e]
        d == Host(e)
        n == Len(edits) + 1 IN
    /\ w # NoDraft
    /\ edits' = Append(edits, [rec |-> w.rec, at |-> w.at, by |-> AuthorOf[d],
                               del |-> w.del, dev |-> d, base |-> w.base])
    /\ outbox' = Queued(d, w.rec, w.base + 1, n)
    /\ cache' = Shown(e, w.rec, n, w.del)
    /\ draft' = [draft EXCEPT ![e] = NoDraft]
    /\ run' = [run EXCEPT ![e].pc = IF @ = "idle" THEN "pull" ELSE @]
    /\ UNCHANGED <<server, envelopes, cursor, unlocked, mounted, hydrating, orphans, faults>>

(* The key was gone when write() asked for it: the edit is refused.         *)
RefuseEdit(e) ==
    /\ draft[e] # NoDraft /\ ~unlocked[TabOf[e]]
    /\ draft' = [draft EXCEPT ![e] = NoDraft]
    /\ UNCHANGED <<server, store, unlocked, page, run, orphans, faults, edits>>

------------------------------------------------------------------------------
(* A sync run: pull *)

(* What follows the last envelope of a page, and the last answer to a push. *)
AfterInbox(u) ==
    IF u.inbox # {} THEN [u EXCEPT !.pc = "receive"]
    ELSE IF u.batch = {} THEN [u EXCEPT !.pc = IF u.full THEN "pull" ELSE "push"]
    ELSE [u EXCEPT !.batch = {}, !.pc = IF u.unsent # {} THEN "send" ELSE "push"]

AfterAcks(u) == IF u.acks # {} THEN [u EXCEPT !.pc = "settle"] ELSE AfterInbox(u)

(* The scheduler's trigger: unlock, online, visible, or the interval.       *)
StartRun(e) ==
    /\ mounted[e] /\ unlocked[TabOf[e]] /\ Ready(e) /\ run[e].pc = "idle"
    /\ run' = [run EXCEPT ![e].pc = "pull"]
    /\ UNCHANGED <<server, store, unlocked, page, draft, orphans, faults, edits>>

Newer(c) == {records[r] : r \in {q \in Ids : records[q].seq > c}}

(* The PullPage oldest rows after the cursor.                               *)
Page(c) == {x \in Newer(c) : Cardinality({y \in Newer(c) : y.seq < x.seq}) < PullPage}

PullMovingCursor(e) ==
    LET got == Page(cursor[Host(e)]) IN
    /\ run[e].pc = "pull"
    /\ run' = [run EXCEPT ![e] = AfterInbox([run[e] EXCEPT
                 !.inbox = got, !.full = (Cardinality(got) = PullPage)])]
    /\ cursor' = [cursor EXCEPT ![Host(e)] = recordSeq]
    /\ UNCHANGED <<server, envelopes, outbox, unlocked, page, draft, orphans, faults, edits>>

Pull(e) ==
    LET got == Page(cursor[Host(e)]) IN
    /\ run[e].pc = "pull"
    /\ run' = [run EXCEPT ![e] = AfterInbox([run[e] EXCEPT
                 !.inbox = got, !.full = (Cardinality(got) = PullPage)])]
    /\ UNCHANGED <<server, store, unlocked, page, draft, orphans, faults, edits>>

------------------------------------------------------------------------------
(* receive(): an envelope of a page, oldest first, or a push conflict *)

(* The key is read, and an envelope below the replay floor is rejected.     *)
Receive(e) ==
    /\ run[e].pc = "receive" /\ unlocked[TabOf[e]]
    /\ \E x \in run[e].inbox :
          /\ run[e].batch = {} => \A y \in run[e].inbox : x.seq <= y.seq
          /\ run' = [run EXCEPT
                ![e].remote = x,
                ![e].pc = IF x.v < envelopes[Host(e)][x.rec].v THEN "received" ELSE "put"]
    /\ UNCHANGED <<server, store, unlocked, page, draft, orphans, faults, edits>>

PutRemote(e) ==
    LET x == run[e].remote IN
    /\ run[e].pc = "put"
    /\ envelopes' = [envelopes EXCEPT ![Host(e)][x.rec] = PutEnvelope(@, x)]
    /\ run' = [run EXCEPT ![e].pc = "peek"]
    /\ UNCHANGED <<server, outbox, cursor, unlocked, page, draft, orphans, faults, edits>>

Seen(e) == outbox[Host(e)][run[e].remote.rec]

(* No edit of the record is queued: the remote one is shown.                *)
PeekNone(e) ==
    LET x == run[e].remote IN
    /\ run[e].pc = "peek" /\ Seen(e).v = 0
    /\ cache' = Shown(e, x.rec, x.e, edits[x.e].del)
    /\ run' = [run EXCEPT ![e].pc = "received"]
    /\ UNCHANGED <<server, store, unlocked, mounted, hydrating, draft, orphans, faults, edits>>

(* A queued edit built on the remote version or a later one stands.         *)
PeekStands(e) ==
    /\ run[e].pc = "peek" /\ Stands(Seen(e), run[e].remote)
    /\ run' = [run EXCEPT ![e].pc = "received"]
    /\ UNCHANGED <<server, store, unlocked, page, draft, orphans, faults, edits>>

(* One built on an older base is merged, with what the outbox held now.     *)
PeekMerge(e) ==
    /\ run[e].pc = "peek" /\ Seen(e).v > 0 /\ ~Stands(Seen(e), run[e].remote)
    /\ run' = [run EXCEPT ![e].pc = "merge", ![e].pending = Seen(e)]
    /\ UNCHANGED <<server, store, unlocked, page, draft, orphans, faults, edits>>

(* The local edit wins: sealed again on top of the remote version.          *)
MergeMine(e) ==
    LET x == run[e].remote
        p == run[e].pending IN
    /\ run[e].pc = "merge" /\ MineWins(p.e, x.e) /\ x.v < MaxVersion
    /\ outbox' = Queued(Host(e), x.rec, x.v + 1, p.e)
    /\ cache' = Shown(e, x.rec, p.e, edits[p.e].del)
    /\ run' = [run EXCEPT ![e].pc = "received"]
    /\ UNCHANGED <<server, envelopes, cursor, unlocked, mounted, hydrating, draft,
                   orphans, faults, edits>>

(* The remote edit wins: the local one is dropped if still that version.    *)
MergeTheirsUnshown(e) ==
    /\ run[e].pc = "merge" /\ ~MineWins(run[e].pending.e, run[e].remote.e)
    /\ outbox' = [outbox EXCEPT ![Host(e)][run[e].remote.rec] = Dequeued(@, run[e].pending.v)]
    /\ run' = [run EXCEPT ![e].pc = "received"]
    /\ UNCHANGED <<server, envelopes, cursor, unlocked, page, draft, orphans, faults, edits>>

MergeTheirs(e) ==
    LET x == run[e].remote
        p == run[e].pending IN
    /\ run[e].pc = "merge" /\ ~MineWins(p.e, x.e)
    /\ outbox' = [outbox EXCEPT ![Host(e)][x.rec] = Dequeued(@, p.v)]
    /\ cache' = Shown(e, x.rec, x.e, edits[x.e].del)
    /\ run' = [run EXCEPT ![e].pc = "received"]
    /\ UNCHANGED <<server, envelopes, cursor, unlocked, mounted, hydrating, draft,
                   orphans, faults, edits>>

(* The loop moves on; after an envelope of a page the cursor moves as well. *)
CursorAfter(c, x) == IF x.seq > c THEN x.seq ELSE c

Received(e) ==
    LET x == run[e].remote IN
    /\ run[e].pc = "received"
    /\ cursor' = IF run[e].batch # {} THEN cursor
                 ELSE [cursor EXCEPT ![Host(e)] = CursorAfter(@, x)]
    /\ run' = [run EXCEPT ![e] = AfterInbox([run[e] EXCEPT
                 !.inbox = @ \ {x}, !.remote = Blank(AnId), !.pending = NoEntry(AnId)])]
    /\ UNCHANGED <<server, envelopes, outbox, unlocked, page, draft, orphans, faults, edits>>

(* LockedError: receive(), or the re-seal of a winning edit, finds no key.  *)
StopLocked(e) ==
    /\ ~unlocked[TabOf[e]]
    /\ \/ run[e].pc = "receive"
       \/ run[e].pc = "merge" /\ MineWins(run[e].pending.e, run[e].remote.e)
    /\ run' = [run EXCEPT ![e] = IdleRun]
    /\ UNCHANGED <<server, store, unlocked, page, draft, orphans, faults, edits>>

------------------------------------------------------------------------------
(* push *)

(* A round starts from a snapshot of the outbox, if rounds are left and     *)
(* anything is queued; otherwise the run is over.                           *)
PushRound(e) ==
    LET queued == {x \in {outbox[Host(e)][r] : r \in Ids} : x.v > 0} IN
    /\ run[e].pc = "push"
    /\ run' = [run EXCEPT ![e] =
          IF queued = {} \/ run[e].round >= MaxRounds THEN IdleRun
          ELSE [run[e] EXCEPT !.pc = "send", !.unsent = queued,
                              !.round = run[e].round + 1]]
    /\ UNCHANGED <<server, store, unlocked, page, draft, orphans, faults, edits>>

(* A batch is a slice of that snapshot in queuedAt order, which a clock     *)
(* decides: any PushBatch of the entries.                                   *)
Send(e) ==
    LET u == run[e].unsent IN
    /\ run[e].pc = "send"
    /\ \E B \in SUBSET u :
          /\ B # {} /\ Cardinality(B) <= PushBatch
          /\ B # u => Cardinality(B) = PushBatch
          /\ run' = [run EXCEPT ![e].pc = "sent", ![e].batch = B, ![e].unsent = u \ B]
    /\ UNCHANGED <<server, store, unlocked, page, draft, orphans, faults, edits>>

(* The server handles the push; a refused push (400) fails the run.         *)
Serve(e) ==
    LET B == run[e].batch IN
    /\ run[e].pc = "sent"
    /\ IF BadBase(B)
         THEN run' = [run EXCEPT ![e] = IdleRun] /\ UNCHANGED server
         ELSE \E f \in Orders(Applied(B)) :
                 /\ Commit(B, f)
                 /\ run' = [run EXCEPT ![e] = AfterAcks([run[e] EXCEPT
                       !.acks = Committed(Applied(B), f), !.inbox = Conflicts(B)])]
    /\ UNCHANGED <<store, unlocked, page, draft, orphans, faults, edits>>

(* The same, but the answer is lost: the run fails.                         *)
ServeUnheard(e) ==
    LET B == run[e].batch IN
    /\ run[e].pc = "sent" /\ ~BadBase(B) /\ faults < MaxFaults
    /\ faults' = faults + 1
    /\ \E f \in Orders(Applied(B)) : Commit(B, f)
    /\ run' = [run EXCEPT ![e] = IdleRun]
    /\ UNCHANGED <<store, unlocked, page, draft, orphans, edits>>

(* Offline, refused (409 recovery-required, 5xx) or timed out: the run      *)
(* fails, and a push that timed out may reach the server later.             *)
RequestFails(e) ==
    /\ run[e].pc \in {"pull", "sent"} /\ faults < MaxFaults
    /\ faults' = faults + 1
    /\ run' = [run EXCEPT ![e] = IdleRun]
    /\ \/ UNCHANGED orphans
       \/ run[e].pc = "sent" /\ orphans' = orphans \cup {run[e].batch}
    /\ UNCHANGED <<server, store, unlocked, page, draft, edits>>

(* An applied record is stored as it was sent, with its seq ...             *)
StoreAckedFromOutbox(e) ==
    /\ run[e].pc = "settle"
    /\ \E x \in run[e].acks :
          LET o == outbox[Host(e)][x.rec] IN
          /\ envelopes' = [envelopes EXCEPT ![Host(e)][x.rec] =
                PutEnvelope(@, [x EXCEPT !.e = IF o.v = x.v THEN o.e ELSE @])]
          /\ run' = [run EXCEPT ![e].pc = "acked", ![e].remote = x]
    /\ UNCHANGED <<server, outbox, cursor, unlocked, page, draft, orphans, faults, edits>>

StoreAcked(e) ==
    /\ run[e].pc = "settle"
    /\ \E x \in run[e].acks :
          /\ envelopes' = [envelopes EXCEPT ![Host(e)][x.rec] = PutEnvelope(@, x)]
          /\ run' = [run EXCEPT ![e].pc = "acked", ![e].remote = x]
    /\ UNCHANGED <<server, outbox, cursor, unlocked, page, draft, orphans, faults, edits>>

(* ... and then leaves the outbox, if the queued edit still is that version. *)
DequeueAcked(e) ==
    LET x == run[e].remote IN
    /\ run[e].pc = "acked"
    /\ outbox' = [outbox EXCEPT ![Host(e)][x.rec] = Dequeued(@, x.v)]
    /\ run' = [run EXCEPT ![e] = AfterAcks([run[e] EXCEPT
                 !.acks = @ \ {x}, !.remote = Blank(AnId)])]
    /\ UNCHANGED <<server, envelopes, cursor, unlocked, page, draft, orphans, faults, edits>>

------------------------------------------------------------------------------
Init ==
    /\ records = [r \in Ids |-> Blank(r)]
    /\ recordSeq = 0
    /\ log = {}
    /\ envelopes = [d \in Devices |-> [r \in Ids |-> Blank(r)]]
    /\ outbox = [d \in Devices |-> [r \in Ids |-> NoEntry(r)]]
    /\ cursor = [d \in Devices |-> 0]
    /\ unlocked = [t \in Tabs |-> FALSE]
    /\ mounted = [e \in Engines |-> FALSE]
    /\ cache = [e \in Engines |-> [r \in Ids |-> 0]]
    /\ hydrating = [e \in Engines |-> NotLoading]
    /\ draft = [e \in Engines |-> NoDraft]
    /\ run = [e \in Engines |-> IdleRun]
    /\ orphans = {}
    /\ faults = 0
    /\ edits = <<>>

Hydrate(e) == HydrateEnvelopes(e) \/ HydrateOutbox(e) \/ \E r \in Ids : HydrateShow(e, r)

Edited(e) == QueueEdit(e) \/ RefuseEdit(e)

ReceiveStep(e) == \/ Receive(e) \/ PutRemote(e)
                  \/ PeekNone(e) \/ PeekStands(e) \/ PeekMerge(e)
                  \/ MergeMine(e) \/ MergeTheirs(e) \/ Received(e)

RunStep(e) == \/ Pull(e) \/ ReceiveStep(e) \/ StopLocked(e)
              \/ PushRound(e) \/ Send(e) \/ Serve(e)
              \/ StoreAcked(e) \/ DequeueAcked(e)

Fault(e) == ServeUnheard(e) \/ RequestFails(e)

Next == \/ \E t \in Tabs : Unlock(t) \/ Lock(t) \/ Reload(t)
        \/ \E e \in Engines, r \in Ids : Write(e, r)
        \/ \E e \in Engines : Hydrate(e) \/ Edited(e) \/ StartRun(e) \/ RunStep(e) \/ Fault(e)
        \/ \E B \in orphans : ServeOrphan(B)

Spec == Init /\ [][Next]_vars

(* In a live page every continuation runs in the end, the scheduler fires   *)
(* every interval, and a request that does not fail is answered.  Members   *)
(* need not edit, lock or unlock.                                           *)
Fairness ==
    /\ \A e \in Engines : /\ WF_vars(Hydrate(e))
                          /\ WF_vars(Edited(e))
                          /\ WF_vars(StartRun(e))
                          /\ WF_vars(RunStep(e))
    /\ WF_vars(\E B \in orphans : ServeOrphan(B))

FairSpec == Spec /\ Fairness
==============================================================================
