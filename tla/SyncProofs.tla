----------------------------- MODULE SyncProofs ------------------------------
(* Proofs about what hangs on sync, whatever edits, unlocks, devices and days*)
(* there are: what the app holds of it is true at every moment, and a day's  *)
(* snapshot is written once by a device, on its day, and kept.               *)
EXTENDS MCSync, TLAPS

------------------------------------------------------------------------------
(* SyncHandle: the handles of one tab.                                       *)
LEMMA NewIsFine ==
    /\ Handle!NewHandle \in Handle!HandleStates /\ [Handle!NewHandle EXCEPT !.stopped = TRUE] \in Handle!HandleStates
    /\ Handle!NewHandle.at = "hydrating" /\ ~Handle!NewHandle.stopped /\ ~Handle!NewHandle.timer
    /\ Handle!NewHandle.cache = {} /\ Handle!NewHandle.snapshot = {} /\ Handle!NewHandle.state = "syncing"
    /\ [Handle!NewHandle EXCEPT !.stopped = TRUE].stopped /\ ~[Handle!NewHandle EXCEPT !.stopped = TRUE].timer
  BY DEF Handle!NewHandle, Handle!HandleStates

LEMMA HandleInit == MaxHandles \in Nat /\ Handle!Init => Handle!HandleInv
  <1> SUFFICES ASSUME MaxHandles \in Nat, Handle!Init PROVE Handle!HandleInv
    OBVIOUS
  <1>1. \A h \in Handle!Handles : handle[h].stopped /\ ~handle[h].timer /\ handle[h] \in Handle!HandleStates
    BY NewIsFine DEF Handle!Init
  <1>2. handle \in [Handle!Handles -> Handle!HandleStates]
    <2> DEFINE dead == [Handle!NewHandle EXCEPT !.stopped = TRUE]
    <2>1. dead \in Handle!HandleStates /\ handle = [h \in Handle!Handles |-> dead]
      BY NewIsFine DEF Handle!Init
    <2> HIDE DEF dead
    <2> QED BY <2>1
  <1>3. \A h \in Handle!Handles : ~Handle!Mounted(h) /\ h # 0
    BY <1>1 DEF Handle!Mounted, Handle!Handles
  <1>4. Handle!HandlesOK
    <2>1. /\ hUnlocked = FALSE /\ visible = TRUE /\ hMounted = 0 /\ started = 0
          /\ hServer = {} /\ hStore = {} /\ hOutbox \subseteq Edits
      BY DEF Handle!Init
    <2>2. 0 \in 0 .. MaxHandles /\ 0 \in 0 .. 0
      OBVIOUS
    <2> QED BY <1>2, <2>1, <2>2 DEF Handle!HandlesOK
  <1>5. Handle!OneMounted
    BY <1>3 DEF Handle!Init, Handle!OneMounted
  <1>6. Handle!LockedIsEmpty /\ Handle!RendersCache /\ Handle!TimerFollows /\ Handle!SyncedTellsPending
    BY <1>1, <1>3 DEF Handle!LockedIsEmpty, Handle!RendersCache, Handle!TimerFollows,
                      Handle!SyncedTellsPending
  <1> QED BY <1>4, <1>5, <1>6 DEF Handle!HandleInv, Handle!HandleIsCurrent

(* A step of one handle, seen on its own.                                    *)
OneHandle(h, r) ==
    /\ handle' = [handle EXCEPT ![h] = r]
    /\ r \in Handle!HandleStates
    /\ r.stopped = handle[h].stopped
    /\ r.timer <=> ~r.stopped /\ hUnlocked' /\ r.at = "live"
    /\ ~r.stopped =>
          /\ ~hUnlocked' => r.cache = {} /\ r.snapshot = {}
          /\ r.engine = "idle" => r.snapshot = r.cache
          /\ r.state = "synced" /\ hOutbox' # {} => r.pending

LEMMA OneHandleKeeps ==
    ASSUME MaxHandles \in Nat, Handle!HandleInv, NEW h \in Handle!Handles, NEW r, OneHandle(h, r),
           UNCHANGED <<hUnlocked, visible, hMounted, started>>,
           hServer' \subseteq Edits, hStore' \subseteq Edits, hOutbox' \subseteq Edits,
           hMounted # h => hOutbox' \subseteq hOutbox
    PROVE  Handle!HandleInv'
  <1> USE DEF Handle!HandleInv, OneHandle, Handle!HandleIsCurrent
  <1>1. /\ Handle!HandlesOK'
        /\ \A g \in Handle!Handles : handle'[g] = IF g = h THEN r ELSE handle[g]
    BY DEF Handle!HandlesOK
  <1>2. \A g \in Handle!Handles : Handle!Mounted(g)' <=> Handle!Mounted(g)
    BY <1>1 DEF Handle!Mounted
  <1>3. Handle!OneMounted'
    BY <1>2 DEF Handle!OneMounted
  <1>4. \A g \in Handle!Handles : g # h /\ Handle!Mounted(g) => hOutbox' \subseteq hOutbox
    BY DEF Handle!OneMounted
  <1>5. Handle!LockedIsEmpty' /\ Handle!RendersCache' /\ Handle!TimerFollows' /\ Handle!SyncedTellsPending'
    BY <1>1, <1>2, <1>4 DEF Handle!LockedIsEmpty, Handle!RendersCache, Handle!TimerFollows,
                            Handle!SyncedTellsPending, Handle!Mounted
  <1> QED BY <1>1, <1>3, <1>5

(* What the operators on handles keep.                                       *)
LEMMA RunningIs ==
    ASSUME NEW r \in Handle!HandleStates
    PROVE  /\ Handle!Running(r) \in Handle!HandleStates
           /\ Handle!Running(r).engine # "idle"
           /\ Handle!Running(r).state = "synced" => r.state = "synced"
           /\ Handle!Running(r).at = r.at /\ Handle!Running(r).stopped = r.stopped /\ Handle!Running(r).timer = r.timer
           /\ Handle!Running(r).cache = r.cache /\ Handle!Running(r).snapshot = r.snapshot
           /\ Handle!Running(r).pending = r.pending
  BY DEF Handle!Running, Handle!HandleStates

LEMMA KickKeeps == ASSUME MaxHandles \in Nat, Handle!HandleInv, NEW h \in Handle!Handles, Handle!Kick(h) PROVE Handle!HandleInv'
  <1> DEFINE r == Handle!Running(handle[h])
  <1>1. handle[h] \in Handle!HandleStates
    BY DEF Handle!HandleInv, Handle!HandlesOK
  <1>2. OneHandle(h, r)
    BY <1>1, RunningIs DEF OneHandle, Handle!Kick, Handle!HandleInv,
                           Handle!HandleIsCurrent, Handle!TimerFollows,
                           Handle!RendersCache, Handle!LockedIsEmpty,
                           Handle!SyncedTellsPending, Handle!Mounted
  <1> QED BY <1>2, OneHandleKeeps DEF Handle!Kick, Handle!HandleInv, Handle!HandlesOK

LEMMA HydrateKeeps ==
    ASSUME MaxHandles \in Nat, Handle!HandleInv, NEW h \in Handle!Handles, Handle!Hydrate(h) \/ Handle!HydrateFails(h)
    PROVE  Handle!HandleInv'
  <1>1. handle[h] \in Handle!HandleStates /\ hStore \subseteq Edits /\ hOutbox \subseteq Edits
    BY DEF Handle!HandleInv, Handle!HandlesOK
  <1>2. CASE Handle!Hydrate(h)
    <2> DEFINE s == Handle!Hydrated(handle[h])
               r == IF handle[h].stopped THEN s ELSE Handle!Scheduled(s)
    <2>1. /\ s \in Handle!HandleStates /\ s.at = "live" /\ s.stopped = handle[h].stopped
          /\ s.timer = handle[h].timer /\ s.snapshot = s.cache /\ s.state = handle[h].state
          /\ s.pending = handle[h].pending /\ (~hUnlocked => s.cache = handle[h].cache)
      BY <1>1 DEF Handle!Hydrated, Handle!Notified, Handle!HandleStates
    <2>2. [s EXCEPT !.timer = TRUE] \in Handle!HandleStates
      BY <2>1 DEF Handle!HandleStates
    <2>3. OneHandle(h, r)
      <3>1. CASE hUnlocked /\ ~handle[h].stopped
        <4>1. r = Handle!Running([s EXCEPT !.timer = TRUE])
          BY <3>1 DEF Handle!Scheduled
        <4>2. /\ r \in Handle!HandleStates /\ r.engine # "idle" /\ r.timer /\ r.at = "live"
              /\ r.stopped = s.stopped /\ (r.state = "synced" => s.state = "synced")
              /\ r.pending = s.pending
          <5> HIDE DEF s, r
          <5> QED BY <4>1, <2>1, <2>2, RunningIs DEF Handle!HandleStates
        <4> HIDE DEF s, r
        <4>3. handle' = [handle EXCEPT ![h] = r]
          BY <1>2 DEF Handle!Hydrate, r, s
        <4> QED BY <4>2, <4>3, <2>1, <3>1, <1>2
           DEF OneHandle, Handle!Hydrate, Handle!HandleInv, Handle!HandleIsCurrent,
               Handle!SyncedTellsPending, Handle!Mounted
      <3>2. CASE ~(hUnlocked /\ ~handle[h].stopped)
        <4>1. r = s
          BY <3>2 DEF Handle!Scheduled
        <4> HIDE DEF s, r
        <4>2. handle' = [handle EXCEPT ![h] = r]
          BY <1>2 DEF Handle!Hydrate, r, s
        <4> QED BY <4>1, <4>2, <2>1, <3>2, <1>2
           DEF OneHandle, Handle!Hydrate, Handle!HandleInv, Handle!HandleIsCurrent,
               Handle!SyncedTellsPending, Handle!TimerFollows, Handle!LockedIsEmpty,
               Handle!Mounted
      <3> QED BY <3>1, <3>2
    <2> QED BY <1>2, <2>3, OneHandleKeeps
       DEF Handle!Hydrate, Handle!HandleInv, Handle!HandlesOK
  <1>3. CASE Handle!HydrateFails(h)
    <2> DEFINE r == [handle[h] EXCEPT !.at = "failed"]
    <2>1. OneHandle(h, r)
      BY <1>1, <1>3 DEF OneHandle, Handle!HydrateFails, Handle!HandleStates,
                        Handle!HandleInv, Handle!HandleIsCurrent, Handle!TimerFollows,
                        Handle!RendersCache, Handle!LockedIsEmpty,
                        Handle!SyncedTellsPending, Handle!Mounted
    <2> QED BY <1>3, <2>1, OneHandleKeeps
       DEF Handle!HydrateFails, Handle!HandleInv, Handle!HandlesOK
  <1> QED BY <1>2, <1>3

LEMMA EndedIs ==
    ASSUME NEW r \in Handle!HandleStates, NEW state \in {"synced", "offline", "recovery"}
    PROVE  /\ Handle!Ended(r, state) \in Handle!HandleStates
           /\ Handle!Ended(r, state).state = state /\ Handle!Ended(r, state).pending = r.pending
           /\ Handle!Ended(r, state).at = r.at /\ Handle!Ended(r, state).stopped = r.stopped
           /\ Handle!Ended(r, state).timer = r.timer
           /\ Handle!Ended(r, state).cache = r.cache /\ Handle!Ended(r, state).snapshot = r.cache
  BY DEF Handle!Ended, Handle!Notified, Handle!HandleStates

LEMMA RunKeeps ==
    ASSUME MaxHandles \in Nat, Handle!HandleInv, NEW h \in Handle!Handles, Handle!Run(h) \/ Handle!RunFails(h)
    PROVE  Handle!HandleInv'
  <1>1. /\ handle[h] \in Handle!HandleStates /\ hStore \subseteq Edits /\ hOutbox \subseteq Edits
        /\ hServer \subseteq Edits
    BY DEF Handle!HandleInv, Handle!HandlesOK
  <1>t. handle[h].timer <=> ~handle[h].stopped /\ hUnlocked /\ handle[h].at = "live"
    BY DEF Handle!HandleInv, Handle!HandleIsCurrent, Handle!TimerFollows, Handle!Mounted
  <1>c. ~handle[h].stopped /\ ~hUnlocked => handle[h].cache = {} /\ handle[h].snapshot = {}
    BY DEF Handle!HandleInv, Handle!HandleIsCurrent, Handle!LockedIsEmpty,
           Handle!RendersCache, Handle!Mounted
  <1>p. ~handle[h].stopped /\ handle[h].state = "synced" /\ hOutbox # {} => handle[h].pending
    BY DEF Handle!HandleInv, Handle!HandleIsCurrent, Handle!SyncedTellsPending,
           Handle!Mounted
  <1>2. CASE Handle!Receive(h)
    <2>1. PICK e \in hServer : hStore' = hStore \cup {e}
                              /\ handle' = [handle EXCEPT ![h] = Handle!ShownIn(handle[h], {e})]
      BY <1>2 DEF Handle!Receive
    <2>2. OneHandle(h, Handle!ShownIn(handle[h], {e}))
      BY <1>1, <1>2, <1>t, <1>c, <1>p, <2>1
         DEF OneHandle, Handle!Receive, Handle!ShownIn, Handle!HandleStates
    <2> QED BY <1>1, <1>2, <2>1, <2>2, OneHandleKeeps DEF Handle!Receive
  <1>3. CASE Handle!Locked(h)
    <2>1. OneHandle(h, Handle!Ended(handle[h], "offline"))
      BY <1>1, <1>3, <1>t, <1>c, <1>p, EndedIs DEF OneHandle, Handle!Locked
    <2> QED BY <1>1, <1>3, <2>1, OneHandleKeeps DEF Handle!Locked
  <1>4. CASE Handle!Pulled(h)
    <2>1. OneHandle(h, [handle[h] EXCEPT !.engine = "push"])
      BY <1>1, <1>4, <1>t, <1>c, <1>p DEF OneHandle, Handle!Pulled, Handle!HandleStates
    <2> QED BY <1>1, <1>4, <2>1, OneHandleKeeps DEF Handle!Pulled
  <1>5. CASE Handle!Push(h)
    <2>1. OneHandle(h, [handle[h] EXCEPT !.engine = "end"])
      BY <1>1, <1>5, <1>t, <1>c DEF OneHandle, Handle!Push, Handle!HandleStates
    <2> QED BY <1>1, <1>5, <2>1, OneHandleKeeps DEF Handle!Push
  <1>6. CASE Handle!End(h)
    <2> DEFINE s == [handle[h] EXCEPT !.pending = (hOutbox # {})]
    <2>1. /\ s \in Handle!HandleStates /\ s.pending = (hOutbox # {}) /\ s.at = handle[h].at
          /\ s.stopped = handle[h].stopped /\ s.timer = handle[h].timer /\ s.cache = handle[h].cache
      BY <1>1 DEF Handle!HandleStates
    <2>2. handle' = [handle EXCEPT ![h] = Handle!Ended(s, "synced")]
      BY <1>6 DEF Handle!End, Handle!EndTelling
    <2> HIDE DEF s
    <2>3. OneHandle(h, Handle!Ended(s, "synced"))
      <3>1. /\ Handle!Ended(s, "synced") \in Handle!HandleStates
            /\ Handle!Ended(s, "synced").pending = s.pending
            /\ Handle!Ended(s, "synced").at = handle[h].at
            /\ Handle!Ended(s, "synced").stopped = handle[h].stopped
            /\ Handle!Ended(s, "synced").timer = handle[h].timer
            /\ Handle!Ended(s, "synced").cache = handle[h].cache
            /\ Handle!Ended(s, "synced").snapshot = handle[h].cache
        BY <2>1, EndedIs
      <3>2. hOutbox' # {} => s.pending
        BY <1>6, <2>1 DEF Handle!End, Handle!EndTelling
      <3> QED BY <1>6, <1>t, <1>c, <2>2, <3>1, <3>2
         DEF OneHandle, Handle!End, Handle!EndTelling
    <2> QED BY <1>1, <1>6, <2>3, OneHandleKeeps DEF Handle!End, Handle!EndTelling
  <1>7. CASE Handle!RunFails(h)
    <2>1. PICK state \in {"offline", "recovery"} : handle' = [handle EXCEPT ![h] = Handle!Ended(handle[h], state)]
      BY <1>7 DEF Handle!RunFails
    <2>2. /\ Handle!Ended(handle[h], state) \in Handle!HandleStates
          /\ Handle!Ended(handle[h], state).state = state /\ state # "synced"
          /\ Handle!Ended(handle[h], state).at = handle[h].at
          /\ Handle!Ended(handle[h], state).stopped = handle[h].stopped
          /\ Handle!Ended(handle[h], state).timer = handle[h].timer
          /\ Handle!Ended(handle[h], state).cache = handle[h].cache
          /\ Handle!Ended(handle[h], state).snapshot = handle[h].cache
      BY <1>1, EndedIs
    <2>3. OneHandle(h, Handle!Ended(handle[h], state))
      BY <1>7, <1>t, <1>c, <2>1, <2>2 DEF OneHandle, Handle!RunFails
    <2> QED BY <1>1, <1>7, <2>3, OneHandleKeeps DEF Handle!RunFails
  <1> QED BY <1>2, <1>3, <1>4, <1>5, <1>6, <1>7 DEF Handle!Run

LEMMA WriteKeeps ==
    ASSUME MaxHandles \in Nat, Handle!HandleInv, NEW e \in Edits, Handle!Write(e) \/ Handle!Remote(e)
    PROVE  Handle!HandleInv'
  <1>1. CASE Handle!Write(e)
    <2>1. hMounted \in Handle!Handles /\ handle[hMounted] \in Handle!HandleStates /\ ~handle[hMounted].stopped
      BY <1>1 DEF Handle!Write, Handle!HandleInv, Handle!HandlesOK, Handle!OneMounted,
                  Handle!Handles, Handle!Mounted
    <2> DEFINE s == Handle!Notified([Handle!ShownIn(handle[hMounted], {e}) EXCEPT !.pending = TRUE])
    <2>2. /\ s \in Handle!HandleStates /\ s.pending /\ s.at = handle[hMounted].at
          /\ s.stopped = handle[hMounted].stopped /\ s.timer = handle[hMounted].timer
      BY <1>1, <2>1 DEF Handle!ShownIn, Handle!Notified, Handle!HandleStates, Handle!Write
    <2>3. handle' = [handle EXCEPT ![hMounted] = Handle!Running(s)]
      BY <1>1 DEF Handle!Write
    <2> HIDE DEF s
    <2>4. OneHandle(hMounted, Handle!Running(s))
      BY <1>1, <2>1, <2>2, <2>3, RunningIs
         DEF OneHandle, Handle!Write, Handle!HandleInv, Handle!HandleIsCurrent,
             Handle!TimerFollows, Handle!Mounted
    <2> QED BY <1>1, <2>1, <2>4, OneHandleKeeps
       DEF Handle!Write, Handle!HandleInv, Handle!HandlesOK
  <1>2. CASE Handle!Remote(e)
    BY <1>2 DEF Handle!Remote, Handle!HandleInv, Handle!HandlesOK, Handle!OneMounted,
                Handle!LockedIsEmpty, Handle!HandleIsCurrent, Handle!RendersCache,
                Handle!TimerFollows, Handle!SyncedTellsPending, Handle!Mounted
  <1> QED BY <1>1, <1>2

LEMMA SessionKeeps ==
    ASSUME MaxHandles \in Nat, Handle!HandleInv, Handle!Unlock \/ Handle!Lock \/ Handle!Stop
    PROVE  Handle!HandleInv'
  <1>1. /\ Handle!HandlesOK /\ Handle!OneMounted /\ Handle!LockedIsEmpty /\ Handle!RendersCache /\ Handle!TimerFollows /\ Handle!SyncedTellsPending
    BY DEF Handle!HandleInv, Handle!HandleIsCurrent
  <1>2. CASE Handle!Unlock
    <2>1. started' \in Handle!Handles /\ started' = started + 1 /\ hMounted' = started'
      BY <1>1, <1>2 DEF Handle!Unlock, Handle!HandlesOK, Handle!Handles
    <2>2. \A h \in Handle!Handles : handle'[h] = IF h = started' THEN Handle!NewHandle ELSE handle[h]
      BY <1>1, <1>2, <2>1 DEF Handle!Unlock, Handle!HandlesOK
    <2>3. Handle!HandlesOK'
      BY <1>1, <1>2, <2>1, NewIsFine DEF Handle!Unlock, Handle!HandlesOK, Handle!Handles
    <2>4. \A h \in Handle!Handles : Handle!Mounted(h)' <=> h = started'
      BY <1>1, <1>2, <2>2, NewIsFine DEF Handle!Unlock, Handle!OneMounted, Handle!Mounted,
                                         Handle!Handles
    <2>5. Handle!OneMounted'
      BY <2>1, <2>4 DEF Handle!OneMounted, Handle!Handles
    <2>6. Handle!LockedIsEmpty' /\ Handle!RendersCache'
      BY <2>2, <2>4, <1>2, NewIsFine DEF Handle!LockedIsEmpty, Handle!RendersCache,
                                         Handle!Unlock
    <2>7. \A h \in Handle!Handles : h # started' => ~handle[h].timer /\ ~Handle!Mounted(h)
      BY <1>1, <1>2 DEF Handle!TimerFollows, Handle!OneMounted, Handle!Unlock,
                        Handle!Handles
    <2>8. Handle!TimerFollows' /\ Handle!SyncedTellsPending'
      BY <2>2, <2>4, <2>7, NewIsFine DEF Handle!TimerFollows, Handle!SyncedTellsPending
    <2> QED BY <2>3, <2>5, <2>6, <2>8 DEF Handle!HandleInv, Handle!HandleIsCurrent
  <1>3. CASE Handle!Lock
    <2>1. \A h \in Handle!Handles :
              /\ handle'[h] \in Handle!HandleStates /\ handle'[h].stopped = handle[h].stopped
              /\ ~handle'[h].timer
              /\ ~handle[h].stopped =>
                    /\ handle'[h].cache = {} /\ handle'[h].snapshot = {}
                    /\ handle'[h].state = handle[h].state /\ handle'[h].pending = handle[h].pending
      BY <1>1, <1>3 DEF Handle!Lock, Handle!Emptied, Handle!Notified, Handle!HandlesOK,
                        Handle!HandleStates, Handle!TimerFollows, Handle!Mounted
    <2>2. Handle!HandlesOK'
      BY <1>1, <1>3, <2>1 DEF Handle!Lock, Handle!HandlesOK
    <2> QED BY <1>1, <1>3, <2>1, <2>2 DEF Handle!HandleInv, Handle!OneMounted,
                                          Handle!LockedIsEmpty, Handle!HandleIsCurrent,
                                          Handle!RendersCache, Handle!TimerFollows,
                                          Handle!SyncedTellsPending, Handle!Lock,
                                          Handle!Mounted
  <1>4. CASE Handle!Stop
    <2>1. hMounted \in Handle!Handles /\ hMounted' = 0
      BY <1>1, <1>4 DEF Handle!Stop, Handle!HandlesOK, Handle!Handles
    <2>2. /\ \A h \in Handle!Handles : h # hMounted => handle'[h] = handle[h]
          /\ handle'[hMounted].stopped /\ ~handle'[hMounted].timer
          /\ handle' \in [Handle!Handles -> Handle!HandleStates]
      <3>1. handle[hMounted] \in Handle!HandleStates
        BY <1>1, <2>1 DEF Handle!HandlesOK
      <3> DEFINE r == [handle[hMounted] EXCEPT !.stopped = TRUE, !.timer = FALSE,
                                              !.cache = {}, !.snapshot = {}]
      <3>2. r \in Handle!HandleStates /\ r.stopped /\ ~r.timer
        BY <3>1 DEF Handle!HandleStates
      <3>3. handle' = [handle EXCEPT ![hMounted] = r]
        BY <1>1, <1>4, <2>1, <3>1 DEF Handle!Stop, Handle!HandlesOK, Handle!HandleStates
      <3> HIDE DEF r
      <3> QED BY <1>1, <2>1, <3>2, <3>3 DEF Handle!HandlesOK
    <2>3. \A h \in Handle!Handles : ~Handle!Mounted(h)'
      BY <1>1, <2>2 DEF Handle!OneMounted, Handle!Mounted
    <2> QED BY <1>1, <1>4, <2>1, <2>2, <2>3
       DEF Handle!HandleInv, Handle!HandlesOK, Handle!OneMounted, Handle!LockedIsEmpty,
           Handle!HandleIsCurrent, Handle!RendersCache, Handle!TimerFollows,
           Handle!SyncedTellsPending, Handle!Stop, Handle!Mounted, Handle!Handles
  <1> QED BY <1>2, <1>3, <1>4

LEMMA ViewKeeps ==
    ASSUME MaxHandles \in Nat, Handle!HandleInv, Handle!Hide \/ Handle!Show
    PROVE  Handle!HandleInv'
  <1>1. CASE Handle!Hide
    BY <1>1 DEF Handle!Hide, Handle!HandleInv, Handle!HandlesOK, Handle!OneMounted,
                Handle!LockedIsEmpty, Handle!HandleIsCurrent, Handle!RendersCache,
                Handle!TimerFollows, Handle!SyncedTellsPending, Handle!Mounted
  <1>2. CASE Handle!Show
    <2>1. \A h \in Handle!Handles :
              /\ handle'[h] \in Handle!HandleStates
              /\ handle'[h].engine = "idle" => handle[h].engine = "idle"
              /\ handle'[h].state = "synced" => handle[h].state = "synced"
              /\ handle'[h].at = handle[h].at /\ handle'[h].stopped = handle[h].stopped
              /\ handle'[h].timer = handle[h].timer
              /\ handle'[h].cache = handle[h].cache /\ handle'[h].snapshot = handle[h].snapshot
              /\ handle'[h].pending = handle[h].pending
      BY <1>2, RunningIs DEF Handle!Show, Handle!HandleInv, Handle!HandlesOK
    <2> QED BY <1>2, <2>1 DEF Handle!Show, Handle!HandleInv, Handle!HandlesOK,
                              Handle!OneMounted, Handle!LockedIsEmpty,
                              Handle!HandleIsCurrent, Handle!RendersCache,
                              Handle!TimerFollows, Handle!SyncedTellsPending,
                              Handle!Mounted
  <1> QED BY <1>1, <1>2

LEMMA HandleNext == MaxHandles \in Nat /\ Handle!HandleInv /\ [Handle!Next]_Handle!vars => Handle!HandleInv'
  <1>1. CASE UNCHANGED Handle!vars
    BY <1>1 DEF Handle!vars, Handle!HandleInv, Handle!HandlesOK, Handle!OneMounted,
                Handle!LockedIsEmpty, Handle!HandleIsCurrent, Handle!RendersCache,
                Handle!TimerFollows, Handle!SyncedTellsPending, Handle!Mounted
  <1> QED BY <1>1, SessionKeeps, ViewKeeps, HydrateKeeps, KickKeeps, RunKeeps, WriteKeeps
     DEF Handle!Next

(* Whatever unlocks, locks, failed runs and promises of stopped handles come *)
(* in between, React shows what the cache has and nothing while locked, a    *)
(* timer runs exactly while it may, and "synced" hides no edit that waits.   *)
THEOREM HandleIsCurrentHolds ==
    ASSUME MaxHandles \in Nat
    PROVE  Handle!Spec => []HandleIsCurrent
  <1>1. Handle!HandleInv => Handle!HandleIsCurrent
    BY DEF Handle!HandleInv
  <1> QED BY <1>1, HandleInit, HandleNext, PTL DEF Handle!Spec, HandleIsCurrent

------------------------------------------------------------------------------
(* DailySnapshot: the writers of all devices.                                *)
LEMMA IdsAre ==
    /\ \A day \in Daily!Days : Daily!SnapshotId(day) \in Daily!SnapshotIds /\ Daily!SnapshotId(day)[2] = day
    /\ \A i \in Daily!SnapshotIds : i[2] \in Daily!Days
  BY DEF Daily!SnapshotIds, Daily!SnapshotId

LEMMA WritersAre ==
    \A w \in Daily!Writers : w = <<w[1], w[2]>> /\ w[1] \in Writing /\ w[2] \in 1 .. MaxUnlocks[w[1]]
  BY DEF Daily!Writers

LEMMA SnapshotInit == Daily!SnapshotConstants /\ Daily!Init => Daily!SnapshotInv
  <1> SUFFICES ASSUME Daily!SnapshotConstants, Daily!Init PROVE Daily!SnapshotInv
    OBVIOUS
  <1>1. Daily!SnapshotsOK
    BY DEF Daily!Init, Daily!SnapshotsOK, Daily!SnapshotConstants, Daily!Days
  <1>2. Daily!OneUnlock
    BY DEF Daily!Init, Daily!OneUnlock, Daily!SnapshotConstants
  <1>3. Daily!NothingLost /\ Daily!WrittenIsStored
    BY DEF Daily!Init, Daily!NothingLost, Daily!WrittenIsStored
  <1>4. Daily!OneSnapshotADay
    BY DEF Daily!Init, Daily!OneSnapshotADay, Daily!DatedById, Daily!WrittenOnce,
           Daily!DoneIsKept
  <1> QED BY <1>1, <1>2, <1>3, <1>4 DEF Daily!SnapshotInv

(* Steps that change no snapshot and no run.                                 *)
LEMMA ClockKeeps ==
    ASSUME Daily!SnapshotConstants, Daily!SnapshotInv, Daily!Midnight \/ Daily!FirstFigure \/ UNCHANGED Daily!vars
    PROVE  Daily!SnapshotInv'
  <1>1. UNCHANGED <<session, unlocks, dStore, queued, dServer, dRun, doneOn, written, twice>>
    BY DEF Daily!Midnight, Daily!FirstFigure, Daily!vars
  <1>2. today' \in Daily!Days
    BY DEF Daily!Midnight, Daily!FirstFigure, Daily!vars, Daily!SnapshotInv,
           Daily!SnapshotsOK, Daily!SnapshotConstants, Daily!Days
  <1> QED BY <1>1, <1>2 DEF Daily!SnapshotInv, Daily!SnapshotsOK, Daily!OneUnlock,
                            Daily!NothingLost, Daily!WrittenIsStored, Daily!Live,
                            Daily!OneSnapshotADay, Daily!DatedById, Daily!WrittenOnce,
                            Daily!DoneIsKept

LEMMA SessionsKeep ==
    ASSUME Daily!SnapshotConstants, Daily!SnapshotInv, NEW d \in Writing, Daily!Unlock(d) \/ Daily!Lock(d)
    PROVE  Daily!SnapshotInv'
  <1>1. UNCHANGED <<today, dStore, queued, dServer, dRun, doneOn, written, twice>>
    BY DEF Daily!Unlock, Daily!Lock
  <1>2. Daily!SnapshotsOK /\ Daily!OneUnlock /\ Daily!NothingLost /\ Daily!WrittenIsStored /\ Daily!OneSnapshotADay
    BY DEF Daily!SnapshotInv
  <1>3. /\ unlocks' \in [Writing -> Nat] /\ session' \in [Writing -> Nat]
        /\ \A c \in Writing : unlocks[c] <= unlocks'[c]
        /\ \A c \in Writing : session'[c] \in {0, unlocks'[c]} /\ unlocks'[c] <= MaxUnlocks[c]
        /\ \A c \in Writing : session'[c] # session[c] => session'[c] = 0 \/ session'[c] > unlocks[c]
    <2>1. CASE Daily!Unlock(d)
      <3>1. unlocks[d] \in Nat /\ MaxUnlocks[d] \in Nat /\ unlocks[d] < MaxUnlocks[d]
        BY <1>2, <2>1 DEF Daily!Unlock, Daily!SnapshotsOK, Daily!SnapshotConstants
      <3>2. unlocks' = [unlocks EXCEPT ![d] = unlocks[d] + 1] /\ session' = [session EXCEPT ![d] = unlocks[d] + 1]
        BY <1>2, <2>1 DEF Daily!Unlock, Daily!SnapshotsOK
      <3>3. \A c \in Writing : c # d => unlocks'[c] = unlocks[c] /\ session'[c] = session[c]
        BY <1>2, <3>2 DEF Daily!SnapshotsOK
      <3>4. unlocks'[d] = unlocks[d] + 1 /\ session'[d] = unlocks[d] + 1
        BY <1>2, <3>2 DEF Daily!SnapshotsOK
      <3> QED BY <1>2, <3>1, <3>2, <3>3, <3>4 DEF Daily!SnapshotsOK, Daily!OneUnlock
    <2>2. CASE Daily!Lock(d)
      BY <1>2, <2>2 DEF Daily!Lock, Daily!SnapshotsOK, Daily!OneUnlock
    <2> QED BY <2>1, <2>2
  <1>4. Daily!SnapshotsOK'
    BY <1>1, <1>2, <1>3 DEF Daily!SnapshotsOK
  <1>5. Daily!OneUnlock'
    BY <1>1, <1>2, <1>3, WritersAre DEF Daily!SnapshotsOK, Daily!OneUnlock,
                                        Daily!SnapshotConstants
  <1>6. \A w \in Daily!Writers : dRun[w] # Null /\ Daily!Live(w)' => Daily!Live(w)
    BY <1>2, <1>3, WritersAre DEF Daily!SnapshotsOK, Daily!OneUnlock, Daily!Live,
                                  Daily!SnapshotConstants
  <1> QED BY <1>1, <1>2, <1>4, <1>5, <1>6
     DEF Daily!SnapshotInv, Daily!NothingLost, Daily!WrittenIsStored,
         Daily!OneSnapshotADay, Daily!DatedById, Daily!WrittenOnce, Daily!DoneIsKept

LEMMA SyncKeeps ==
    ASSUME Daily!SnapshotConstants, Daily!SnapshotInv, NEW d \in Writing, Daily!Sync(d)
    PROVE  Daily!SnapshotInv'
  <1> DEFINE merged == [i \in Daily!SnapshotIds |-> Daily!Merged(d, i)]
  <1>1. Daily!SnapshotsOK /\ Daily!OneUnlock /\ Daily!NothingLost /\ Daily!WrittenIsStored /\ Daily!OneSnapshotADay
    BY DEF Daily!SnapshotInv
  <1>2. /\ dStore' = [dStore EXCEPT ![d] = merged] /\ dServer' = merged
        /\ queued' = [queued EXCEPT ![d] = {}] /\ dRun' = Daily!Begun(Daily!Writer(d))
        /\ UNCHANGED <<today, figures, session, unlocks, doneOn, written, twice>> /\ Daily!Open(d)
    BY DEF Daily!Sync
  <1>3. \A i \in Daily!SnapshotIds :
            /\ merged[i] \in {dServer[i], dStore[d][i]}
            /\ dServer[i] # Null \/ dStore[d][i] # Null => merged[i] # Null
    BY <1>1 DEF Daily!Merged, Daily!NothingLost
  <1>4. /\ merged \in [Daily!SnapshotIds -> Daily!Snapshots \cup {Null}]
        /\ \A i \in Daily!SnapshotIds : merged[i] # Null => merged[i].date = i[2]
    BY <1>1, <1>3 DEF Daily!SnapshotsOK, Daily!OneSnapshotADay, Daily!DatedById
  <1> HIDE DEF merged
  <1>5. Daily!Writer(d) \in Daily!Writers /\ Daily!Live(Daily!Writer(d)) /\ Daily!Writer(d)[2] = unlocks[d] /\ Daily!Writer(d)[1] = d
    <2>1. session[d] \in 1 .. MaxUnlocks[d] /\ session[d] = unlocks[d]
      BY <1>1, <1>2 DEF Daily!Open, Daily!OneUnlock, Daily!SnapshotsOK,
                        Daily!SnapshotConstants
    <2> QED BY <2>1 DEF Daily!Writer, Daily!Writers, Daily!Live
  <1>6. /\ dRun' \in [Daily!Writers -> Daily!Runs \cup {Null}]
        /\ \A w \in Daily!Writers : dRun'[w] = dRun[w] \/ (w = Daily!Writer(d) /\ dRun'[w].at = "id")
    <2>1. today \in Daily!Days
      BY <1>1 DEF Daily!SnapshotsOK
    <2>2. [at |-> "id", date |-> today] \in Daily!Runs
      BY <2>1 DEF Daily!Runs
    <2> QED BY <1>1, <1>2, <1>5, <2>2 DEF Daily!Begun, Daily!SnapshotsOK
  <1>7. Daily!SnapshotsOK'
    BY <1>1, <1>2, <1>4, <1>6 DEF Daily!SnapshotsOK
  <1>8. Daily!OneUnlock'
    BY <1>1, <1>2, <1>5, <1>6 DEF Daily!OneUnlock, Daily!SnapshotsOK
  <1>9. \A c \in Writing, i \in Daily!SnapshotIds :
            /\ dStore'[c][i] = IF c = d THEN merged[i] ELSE dStore[c][i]
            /\ queued'[c] = IF c = d THEN {} ELSE queued[c]
    BY <1>1, <1>2 DEF Daily!SnapshotsOK
  <1>10. Daily!NothingLost'
    BY <1>1, <1>2, <1>3, <1>9 DEF Daily!NothingLost
  <1>11. \A c \in Writing, i \in Daily!SnapshotIds : dStore[c][i] # Null => dStore'[c][i] # Null
    BY <1>3, <1>9
  <1>12. Daily!WrittenIsStored'
    <2>1. \A c \in Writing : \A date \in written[c] : Daily!SnapshotId(date) \in Daily!SnapshotIds
      BY <1>1, IdsAre DEF Daily!SnapshotsOK
    <2>2. \A c \in Writing : \A date \in written[c] : dStore'[c][Daily!SnapshotId(date)] # Null
      BY <1>1, <1>11, <2>1 DEF Daily!WrittenIsStored
    <2>3. \A w \in Daily!Writers : Daily!Live(w)' = Daily!Live(w)
      BY <1>2 DEF Daily!Live
    <2> QED BY <1>1, <1>2, <1>6, <2>2, <2>3 DEF Daily!WrittenIsStored
  <1>13. Daily!OneSnapshotADay'
    <2>1. Daily!DatedById'
      BY <1>1, <1>2, <1>4, <1>9 DEF Daily!OneSnapshotADay, Daily!DatedById
    <2>2. \A w \in Daily!Writers : doneOn[w] # Null => Daily!SnapshotId(doneOn[w]) \in Daily!SnapshotIds /\ w[1] \in Writing
      BY <1>1, IdsAre, WritersAre DEF Daily!SnapshotsOK
    <2>3. Daily!DoneIsKept'
      BY <1>1, <1>2, <1>11, <2>2 DEF Daily!OneSnapshotADay, Daily!DoneIsKept
    <2> QED BY <1>1, <1>2, <2>1, <2>3 DEF Daily!OneSnapshotADay, Daily!WrittenOnce
  <1> QED BY <1>7, <1>8, <1>10, <1>12, <1>13 DEF Daily!SnapshotInv

(* A run that writes nothing goes on or is over.                             *)
LEMMA RunOnKeeps ==
    ASSUME Daily!SnapshotConstants, Daily!SnapshotInv, NEW w \in Daily!Writers, dRun[w] # Null,
           UNCHANGED <<today, session, unlocks, dStore, queued, dServer, written, twice>>,
           NEW r \in {Null, [dRun[w] EXCEPT !.at = "prices"]}, dRun' = [dRun EXCEPT ![w] = r],
           r # Null /\ Daily!Live(w) => dStore[w[1]][Daily!SnapshotId(dRun[w].date)] = Null,
           NEW o \in {doneOn[w], dRun[w].date}, doneOn' = [doneOn EXCEPT ![w] = o],
           o # doneOn[w] => dStore[w[1]][Daily!SnapshotId(dRun[w].date)] # Null
    PROVE  Daily!SnapshotInv'
  <1>1. Daily!SnapshotsOK /\ Daily!OneUnlock /\ Daily!NothingLost /\ Daily!WrittenIsStored /\ Daily!OneSnapshotADay
    BY DEF Daily!SnapshotInv
  <1>2. dRun[w] \in Daily!Runs /\ dRun[w].date \in Daily!Days
    BY <1>1 DEF Daily!SnapshotsOK, Daily!Runs
  <1>3. r \in Daily!Runs \cup {Null} /\ o \in Daily!Days \cup {Null} /\ (r # Null => r.date = dRun[w].date)
    BY <1>1, <1>2 DEF Daily!Runs, Daily!SnapshotsOK
  <1>4. /\ \A v \in Daily!Writers : dRun'[v] = IF v = w THEN r ELSE dRun[v]
        /\ \A v \in Daily!Writers : doneOn'[v] = IF v = w THEN o ELSE doneOn[v]
    BY <1>1 DEF Daily!SnapshotsOK
  <1>5. Daily!SnapshotsOK'
    BY <1>1, <1>3 DEF Daily!SnapshotsOK
  <1>6. Daily!OneUnlock'
    BY <1>1, <1>4 DEF Daily!OneUnlock
  <1>7. Daily!NothingLost'
    BY <1>1 DEF Daily!NothingLost
  <1>8. Daily!WrittenIsStored'
    <2>1. \A v \in Daily!Writers : Daily!Live(v)' = Daily!Live(v)
      BY DEF Daily!Live
    <2>2. r # Null /\ Daily!Live(w) => r.date \notin written[w[1]]
      BY <1>1, <1>3, WritersAre DEF Daily!WrittenIsStored
    <2> QED BY <1>1, <1>4, <2>1, <2>2 DEF Daily!WrittenIsStored
  <1>9. Daily!OneSnapshotADay'
    BY <1>1, <1>4 DEF Daily!OneSnapshotADay, Daily!DatedById, Daily!WrittenOnce,
                      Daily!DoneIsKept
  <1> QED BY <1>5, <1>6, <1>7, <1>8, <1>9 DEF Daily!SnapshotInv

LEMMA DerivedKeeps ==
    ASSUME Daily!SnapshotConstants, Daily!SnapshotInv, NEW w \in Daily!Writers, Daily!Derived(w)
    PROVE  Daily!SnapshotInv'
  <1>1. dRun[w] \in Daily!Runs /\ dRun[w].date \in Daily!Days /\ w[1] \in Writing /\ doneOn \in [Daily!Writers -> Daily!Days \cup {Null}]
    BY WritersAre DEF Daily!Derived, Daily!SnapshotInv, Daily!SnapshotsOK, Daily!Runs
  <1>2. Daily!SnapshotId(dRun[w].date) \in Daily!Shown(w) => dStore[w[1]][Daily!SnapshotId(dRun[w].date)] # Null
    BY DEF Daily!Shown
  <1>3. Daily!Live(w) /\ Daily!SnapshotId(dRun[w].date) \notin Daily!Shown(w) => dStore[w[1]][Daily!SnapshotId(dRun[w].date)] = Null
    BY <1>1, IdsAre DEF Daily!Shown
  <1>4. CASE Daily!SnapshotId(dRun[w].date) \in Daily!Shown(w)
    <2>1. dRun' = [dRun EXCEPT ![w] = Null] /\ doneOn' = [doneOn EXCEPT ![w] = dRun[w].date]
      BY <1>4 DEF Daily!Derived, Daily!Over
    <2> QED BY <1>2, <1>4, <2>1, RunOnKeeps DEF Daily!Derived
  <1>5. CASE Daily!SnapshotId(dRun[w].date) \notin Daily!Shown(w)
    <2>1. doneOn' = [doneOn EXCEPT ![w] = doneOn[w]]
      BY <1>1, <1>5 DEF Daily!Derived
    <2>2. CASE figures /\ Daily!Live(w)
      <3>1. dRun' = [dRun EXCEPT ![w] = [dRun[w] EXCEPT !.at = "prices"]]
        BY <1>1, <1>5, <2>2 DEF Daily!Derived
      <3> QED BY <1>3, <1>5, <2>1, <3>1, RunOnKeeps DEF Daily!Derived
    <2>3. CASE ~(figures /\ Daily!Live(w))
      <3>1. dRun' = [dRun EXCEPT ![w] = Null]
        BY <1>5, <2>3 DEF Daily!Derived, Daily!Over
      <3> QED BY <2>1, <3>1, RunOnKeeps DEF Daily!Derived
    <2> QED BY <2>2, <2>3
  <1> QED BY <1>4, <1>5

LEMMA PricedKeeps ==
    ASSUME Daily!SnapshotConstants, Daily!SnapshotInv, NEW w \in Daily!Writers, Daily!Priced(w)
    PROVE  Daily!SnapshotInv'
  <1> DEFINE d == w[1]
             date == dRun[w].date
             i == Daily!SnapshotId(dRun[w].date)
             s == [date |-> dRun[w].date, at |-> today, by |-> w[1]]
  <1>1. Daily!SnapshotsOK /\ Daily!OneUnlock /\ Daily!NothingLost /\ Daily!WrittenIsStored /\ Daily!OneSnapshotADay
    BY DEF Daily!SnapshotInv
  <1>2. /\ d \in Writing /\ date \in Daily!Days /\ i \in Daily!SnapshotIds /\ i[2] = date /\ dRun[w] # Null
        /\ dRun[w].at = "prices" /\ dRun' = [dRun EXCEPT ![w] = Null]
        /\ UNCHANGED <<today, session, unlocks, dServer>>
    BY <1>1, WritersAre, IdsAre DEF Daily!Priced, Daily!Over, Daily!SnapshotsOK, Daily!Runs
  <1>3. CASE ~Daily!Live(w)
    <2>1. UNCHANGED <<dStore, queued, doneOn, written, twice>>
      BY <1>3 DEF Daily!Priced
    <2>2. doneOn' = [doneOn EXCEPT ![w] = doneOn[w]]
      BY <1>1, <2>1 DEF Daily!SnapshotsOK
    <2> QED BY <1>2, <2>1, <2>2, RunOnKeeps
  <1>4. CASE Daily!Live(w)
    <2>1. /\ dStore' = [dStore EXCEPT ![d][i] = s] /\ queued' = [queued EXCEPT ![d] = @ \cup {i}]
          /\ written' = [written EXCEPT ![d] = @ \cup {date}]
          /\ twice' = (twice \/ date \in written[d])
          /\ doneOn' = [doneOn EXCEPT ![w] = date]
      BY <1>4 DEF Daily!Priced, Daily!Wrote
    <2>2. s \in Daily!Snapshots /\ s # Null /\ s.date = date
      BY <1>1, <1>2 DEF Daily!Snapshots, Daily!SnapshotsOK, Daily!SnapshotConstants
    <2> HIDE DEF d, date, i, s
    <2>3. \A c \in Writing, j \in Daily!SnapshotIds :
              dStore'[c][j] = IF c = d /\ j = i THEN s ELSE dStore[c][j]
      BY <1>1, <1>2, <2>1 DEF Daily!SnapshotsOK
    <2>4. /\ \A c \in Writing : queued'[c] = IF c = d THEN queued[d] \cup {i} ELSE queued[c]
          /\ \A c \in Writing : written'[c] = IF c = d THEN written[d] \cup {date} ELSE written[c]
          /\ \A v \in Daily!Writers : dRun'[v] = IF v = w THEN Null ELSE dRun[v]
          /\ \A v \in Daily!Writers : doneOn'[v] = IF v = w THEN date ELSE doneOn[v]
      BY <1>1, <1>2, <2>1 DEF Daily!SnapshotsOK
    <2>5. Daily!SnapshotsOK'
      <3>1. dStore' \in [Writing -> [Daily!SnapshotIds -> Daily!Snapshots \cup {Null}]]
        BY <1>1, <1>2, <2>1, <2>2 DEF Daily!SnapshotsOK
      <3> QED BY <1>1, <1>2, <2>1, <3>1 DEF Daily!SnapshotsOK
    <2>6. Daily!OneUnlock'
      BY <1>1, <1>2, <2>4 DEF Daily!OneUnlock
    <2>7. Daily!NothingLost'
      BY <1>1, <1>2, <2>2, <2>3, <2>4 DEF Daily!NothingLost
    <2>8. date \notin written[d]
      BY <1>1, <1>2, <1>4 DEF Daily!WrittenIsStored, d, date
    <2>9. \A v \in Daily!Writers : Daily!Live(v)' = Daily!Live(v)
      BY <1>2 DEF Daily!Live
    <2>10. \A v \in Daily!Writers : v[1] = d /\ Daily!Live(v) => v = w
      BY <1>4, WritersAre DEF Daily!Live, d
    <2>11. \A c \in Writing : \A day \in written'[c] : dStore'[c][Daily!SnapshotId(day)] # Null
      <3>1. \A c \in Writing : \A day \in written[c] : Daily!SnapshotId(day) \in Daily!SnapshotIds
        BY <1>1, IdsAre DEF Daily!SnapshotsOK
      <3>2. i = Daily!SnapshotId(date)
        BY DEF i, date
      <3> QED BY <1>1, <1>2, <2>2, <2>3, <2>4, <3>1, <3>2 DEF Daily!WrittenIsStored
    <2>12. Daily!WrittenIsStored'
      <3> SUFFICES ASSUME NEW v \in Daily!Writers, dRun'[v] # Null, dRun'[v].at = "prices", Daily!Live(v)'
                   PROVE  dRun'[v].date \notin written'[v[1]]
        BY <2>11 DEF Daily!WrittenIsStored
      <3>1. v # w /\ dRun'[v] = dRun[v] /\ Daily!Live(v)
        BY <2>4, <2>9
      <3>2. v[1] # d /\ v[1] \in Writing
        BY <2>10, <3>1, WritersAre
      <3> QED BY <1>1, <2>4, <3>1, <3>2 DEF Daily!WrittenIsStored
    <2>13. Daily!DatedById'
      BY <1>1, <1>2, <2>2, <2>3 DEF Daily!OneSnapshotADay, Daily!DatedById
    <2>14. Daily!DoneIsKept'
      <3>1. \A v \in Daily!Writers : doneOn[v] # Null => Daily!SnapshotId(doneOn[v]) \in Daily!SnapshotIds /\ v[1] \in Writing
        BY <1>1, IdsAre, WritersAre DEF Daily!SnapshotsOK
      <3>2. i = Daily!SnapshotId(date) /\ d = w[1]
        BY DEF i, date, d
      <3> QED BY <1>1, <1>2, <2>2, <2>3, <2>4, <3>1, <3>2
         DEF Daily!OneSnapshotADay, Daily!DoneIsKept
    <2>15. Daily!WrittenOnce'
      BY <1>1, <2>1, <2>8 DEF Daily!OneSnapshotADay, Daily!WrittenOnce
    <2> QED BY <2>5, <2>6, <2>7, <2>12, <2>13, <2>14, <2>15
       DEF Daily!SnapshotInv, Daily!OneSnapshotADay
  <1> QED BY <1>3, <1>4

LEMMA FailedWriteKeeps ==
    ASSUME Daily!SnapshotConstants, Daily!SnapshotInv, NEW w \in Daily!Writers, Daily!WriteFails(w)
    PROVE  Daily!SnapshotInv'
  <1>1. doneOn' = [doneOn EXCEPT ![w] = doneOn[w]]
    BY DEF Daily!WriteFails, Daily!SnapshotInv, Daily!SnapshotsOK
  <1>2. dRun' = [dRun EXCEPT ![w] = Null] /\ dRun[w] # Null
    BY DEF Daily!WriteFails, Daily!Over
  <1> QED BY <1>1, <1>2, RunOnKeeps DEF Daily!WriteFails

LEMMA SnapshotNext == Daily!SnapshotConstants /\ Daily!SnapshotInv /\ [Daily!Next]_Daily!vars => Daily!SnapshotInv'
  BY ClockKeeps, SessionsKeep, SyncKeeps, DerivedKeeps, PricedKeeps, FailedWriteKeeps
     DEF Daily!Next, Daily!Write

(* Locks, unlocks, midnights, other devices and the runs earlier unlocks     *)
(* left behind: under a day's id there is never another day's snapshot, no   *)
(* device writes a day twice, and a writer that is done has it.              *)
THEOREM OneSnapshotADayHolds ==
    ASSUME Daily!SnapshotConstants
    PROVE  Daily!Spec => []OneSnapshotADay
  <1>1. Daily!SnapshotInv => Daily!OneSnapshotADay
    BY DEF Daily!SnapshotInv
  <1> QED BY <1>1, SnapshotInit, SnapshotNext, PTL DEF Daily!Spec, OneSnapshotADay
==============================================================================
