----------------------------- MODULE SyncHandle -----------------------------
(* One household's sync as the app holds it: what React is given to render,  *)
(* the sync indicator, and when runs start.                                  *)
(* Sources: src/sync/household-sync.ts, scheduler.ts,                        *)
(* src/features/sync/sync-provider.tsx, src/db/record-cache.ts.              *)
(*                                                                           *)
(* A handle is started at every unlock and stopped when React has taken its  *)
(* provider down, which is after the lock; its promises go on. What a run    *)
(* does to stores and cursors is RecordSync's subject: here a run pulls,     *)
(* pushes and ends, and a record is only known or not.                       *)
EXTENDS Naturals

CONSTANTS
    Edits,      \* edits of this device and of others
    MaxHandles, \* bound: times the app is unlocked
    MaxFaults   \* bound: requests and reads that fail

Handles == 1 .. MaxHandles

VARIABLES
    unlocked,   \* the session, with its household key
    visible,    \* document.visibilityState
    mounted,    \* the handle the provider holds, or 0
    started,    \* handles started so far
    handle,     \* the handles
    server,     \* edits the server has
    store,      \* edits the device has
    outbox,     \* edits it has queued
    faults

vars == <<unlocked, visible, mounted, started, handle, server, store, outbox, faults>>

NewHandle == [
    at       |-> "hydrating",   \* or "live", or "failed"
    stopped  |-> FALSE,
    engine   |-> "idle",        \* or "pull", "push", "end"
    state    |-> "syncing",     \* of the indicator
    pending  |-> FALSE,
    cache    |-> {},
    snapshot |-> {},            \* records()
    timer    |-> FALSE]

Init ==
    /\ unlocked = FALSE
    /\ visible = TRUE
    /\ mounted = 0
    /\ started = 0
    /\ handle = [h \in Handles |-> [NewHandle EXCEPT !.stopped = TRUE]]
    /\ server = {}
    /\ store = {}
    /\ outbox \in SUBSET Edits
    /\ faults = 0

Notified(r) == [r EXCEPT !.snapshot = r.cache]

(* engine.sync() shares the run that is under way.                           *)
Running(r) == IF r.engine = "idle" THEN [r EXCEPT !.engine = "pull", !.state = "syncing"] ELSE r

Scheduled(r) == IF unlocked THEN Running([r EXCEPT !.timer = TRUE]) ELSE r

ScheduledAnyway(r) == Running([r EXCEPT !.timer = TRUE])

------------------------------------------------------------------------------
(* The provider.                                                             *)
Unlock ==
    /\ ~unlocked
    /\ mounted = 0
    /\ started < MaxHandles
    /\ unlocked' = TRUE
    /\ started' = started + 1
    /\ mounted' = started'
    /\ handle' = [handle EXCEPT ![started'] = NewHandle]
    /\ UNCHANGED <<visible, server, store, outbox, faults>>

(* The cache subscribed to the session first, so the handle finds it empty.  *)
Emptied(r) == Notified([r EXCEPT !.cache = {}])

Lock ==
    /\ unlocked
    /\ unlocked' = FALSE
    /\ handle' = [h \in Handles |->
           IF handle[h].stopped THEN handle[h] ELSE [Emptied(handle[h]) EXCEPT !.timer = FALSE]]
    /\ UNCHANGED <<visible, mounted, started, server, store, outbox, faults>>

Stop ==
    /\ ~unlocked
    /\ mounted # 0
    /\ handle' = [handle EXCEPT ![mounted].stopped = TRUE, ![mounted].timer = FALSE,
                                ![mounted].cache = {}, ![mounted].snapshot = {}]
    /\ mounted' = 0
    /\ UNCHANGED <<unlocked, visible, started, server, store, outbox, faults>>

(* hydrate() has its key from the start, and shows only while unlocked.      *)
Hydrated(r) ==
    Notified([r EXCEPT !.at = "live", !.cache = IF unlocked THEN @ \cup store \cup outbox ELSE @])

HydrateEvenStopped(h) ==
    /\ handle[h].at = "hydrating" /\ h <= started
    /\ handle' = [handle EXCEPT ![h] = ScheduledAnyway(Hydrated(@))]
    /\ UNCHANGED <<unlocked, visible, mounted, started, server, store, outbox, faults>>

Hydrate(h) ==
    /\ handle[h].at = "hydrating" /\ h <= started
    /\ handle' = [handle EXCEPT ![h] = IF @.stopped THEN Hydrated(@) ELSE Scheduled(Hydrated(@))]
    /\ UNCHANGED <<unlocked, visible, mounted, started, server, store, outbox, faults>>

HydrateFails(h) ==
    /\ handle[h].at = "hydrating" /\ h <= started
    /\ faults < MaxFaults
    /\ faults' = faults + 1
    /\ handle' = [handle EXCEPT ![h].at = "failed"]
    /\ UNCHANGED <<unlocked, visible, mounted, started, server, store, outbox>>

------------------------------------------------------------------------------
(* The scheduler: the interval, and coming online or into view.              *)
Kick(h) ==
    /\ handle[h].timer
    /\ handle[h].engine = "idle"
    /\ handle' = [handle EXCEPT ![h] = Running(@)]
    /\ UNCHANGED <<unlocked, visible, mounted, started, server, store, outbox, faults>>

Tick(h) == visible /\ Kick(h)

Hide ==
    /\ visible
    /\ visible' = FALSE
    /\ UNCHANGED <<unlocked, mounted, started, handle, server, store, outbox, faults>>

Show ==
    /\ ~visible
    /\ visible' = TRUE
    /\ handle' = [h \in Handles |-> IF handle[h].timer THEN Running(handle[h]) ELSE handle[h]]
    /\ UNCHANGED <<unlocked, mounted, started, server, store, outbox, faults>>

------------------------------------------------------------------------------
(* Runs. A run asks for the key when it receives, and not when it pushes.    *)
ShownIn(r, s) == IF unlocked THEN [r EXCEPT !.cache = @ \cup s] ELSE r

Write(e) ==
    /\ unlocked
    /\ mounted # 0
    /\ e \notin store \cup outbox \cup server
    /\ outbox' = outbox \cup {e}
    /\ handle' = [handle EXCEPT ![mounted] = Running(Notified([ShownIn(@, {e}) EXCEPT !.pending = TRUE]))]
    /\ UNCHANGED <<unlocked, visible, mounted, started, server, store, faults>>

Remote(e) ==
    /\ e \notin store \cup outbox \cup server
    /\ server' = server \cup {e}
    /\ UNCHANGED <<unlocked, visible, mounted, started, handle, store, outbox, faults>>

EndedUnnoticed(r, state) ==
    IF state = "synced" THEN Notified([r EXCEPT !.engine = "idle", !.state = state])
    ELSE [r EXCEPT !.engine = "idle", !.state = state]

EndedForGood(r, state) ==
    Notified([r EXCEPT !.engine = IF state = "synced" THEN "idle" ELSE "over", !.state = state])

Ended(r, state) == Notified([r EXCEPT !.engine = "idle", !.state = state])

(* Envelope by envelope: a page may be shown in part when the run fails.     *)
Receive(h) ==
    /\ handle[h].engine = "pull"
    /\ unlocked
    /\ \E e \in server \ (store \cup outbox) :
           /\ store' = store \cup {e}
           /\ handle' = [handle EXCEPT ![h] = ShownIn(@, {e})]
    /\ UNCHANGED <<unlocked, visible, mounted, started, server, outbox, faults>>

Locked(h) ==
    /\ handle[h].engine = "pull"
    /\ ~unlocked
    /\ server \ (store \cup outbox) # {}
    /\ handle' = [handle EXCEPT ![h] = Ended(@, "offline")]
    /\ UNCHANGED <<unlocked, visible, mounted, started, server, store, outbox, faults>>

Pulled(h) ==
    /\ handle[h].engine = "pull"
    /\ server \subseteq store \cup outbox
    /\ handle' = [handle EXCEPT ![h].engine = "push"]
    /\ UNCHANGED <<unlocked, visible, mounted, started, server, store, outbox, faults>>

Push(h) ==
    /\ handle[h].engine = "push"
    /\ server' = server \cup outbox
    /\ store' = store \cup outbox
    /\ outbox' = {}
    /\ handle' = [handle EXCEPT ![h].engine = "end"]
    /\ UNCHANGED <<unlocked, visible, mounted, started, faults>>

EndTelling(h, pending) ==
    /\ handle[h].engine = "end"
    /\ handle' = [handle EXCEPT ![h] = Ended([@ EXCEPT !.pending = pending], "synced")]
    /\ UNCHANGED <<unlocked, visible, mounted, started, server, store, outbox, faults>>

EndUnread(h) == EndTelling(h, FALSE)

(* An edit queued after the last round is still pending when the run ends.   *)
End(h) == EndTelling(h, outbox # {})

(* No answer, or a refusal: 409 asks for a way back in.                      *)
RunFails(h) ==
    /\ handle[h].engine \in {"pull", "push"}
    /\ faults < MaxFaults
    /\ faults' = faults + 1
    /\ \E state \in {"offline", "recovery"} :
           /\ state = "recovery" => handle[h].engine = "push" /\ outbox # {}
           /\ handle' = [handle EXCEPT ![h] = Ended(@, state)]
    /\ UNCHANGED <<unlocked, visible, mounted, started, server, store, outbox>>

Run(h) == Receive(h) \/ Locked(h) \/ Pulled(h) \/ Push(h) \/ End(h)

Next ==
    \/ Unlock
    \/ Lock
    \/ Stop
    \/ Hide
    \/ Show
    \/ \E h \in Handles : Hydrate(h) \/ HydrateFails(h) \/ Kick(h) \/ Run(h) \/ RunFails(h)
    \/ \E e \in Edits : Write(e) \/ Remote(e)

(* Promises settle, React renders, and the interval fires while visible.     *)
Fairness ==
    /\ WF_vars(Stop)
    /\ \A h \in Handles : WF_vars(Hydrate(h)) /\ WF_vars(Run(h)) /\ WF_vars(Tick(h))

Spec == Init /\ [][Next]_vars /\ Fairness
------------------------------------------------------------------------------
Mounted(h) == ~handle[h].stopped

(* household-sync.ts:45: between runs, what React renders is what the cache  *)
(* has, whatever failed half way; and nothing at all while locked.           *)
RendersCache ==
    \A h \in Handles : Mounted(h) =>
        /\ ~unlocked => handle[h].snapshot = {}
        /\ handle[h].engine = "idle" => handle[h].snapshot = handle[h].cache

(* scheduler.ts:2: a handle has its timer exactly while it is live and the   *)
(* session unlocked; one stopped before it was hydrated never gets one.      *)
TimerFollows ==
    \A h \in Handles : handle[h].timer <=> Mounted(h) /\ unlocked /\ handle[h].at = "live"

(* household-sync.ts:31: an indicator that says synced does not hide an edit *)
(* that waits: not one made during the run, nor one an earlier unlock left.  *)
SyncedTellsPending ==
    \A h \in Handles :
        Mounted(h) /\ handle[h].state = "synced" /\ outbox # {} => handle[h].pending

(* What the app holds of sync is true at every moment: the records shown,    *)
(* whether a timer runs, and that "synced" hides no edit.                    *)
HandleIsCurrent == RendersCache /\ TimerFollows /\ SyncedTellsPending

(* scheduler.ts:2: whatever failed before, an edit does not wait for ever if *)
(* the app stays unlocked and in view, and its store was read at the start.  *)
EditsArrive ==
    \A e \in Edits :
        []<>(e \in outbox => mounted = 0 \/ ~unlocked \/ ~visible \/ handle[mounted].at = "failed")

------------------------------------------------------------------------------
(* Why the handle is current after every step.                               *)
HandleStates == [
    at       : {"hydrating", "live", "failed"},
    stopped  : BOOLEAN,
    engine   : {"idle", "pull", "push", "end"},
    state    : {"syncing", "synced", "offline", "recovery"},
    pending  : BOOLEAN,
    cache    : SUBSET Edits,
    snapshot : SUBSET Edits,
    timer    : BOOLEAN]

HandlesOK ==
    /\ unlocked \in BOOLEAN /\ visible \in BOOLEAN
    /\ started \in 0 .. MaxHandles
    /\ mounted \in 0 .. started
    /\ handle \in [Handles -> HandleStates]
    /\ server \subseteq Edits /\ store \subseteq Edits /\ outbox \subseteq Edits

(* Only the provider's handle is not stopped, and it has one while unlocked. *)
OneMounted ==
    /\ \A h \in Handles : Mounted(h) <=> h = mounted
    /\ unlocked => mounted # 0

(* The key is gone before the provider is: nothing is shown until it is.     *)
LockedIsEmpty == \A h \in Handles : Mounted(h) /\ ~unlocked => handle[h].cache = {}

HandleInv == HandlesOK /\ OneMounted /\ LockedIsEmpty /\ HandleIsCurrent
=============================================================================
