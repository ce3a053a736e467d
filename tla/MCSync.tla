------------------------------- MODULE MCSync -------------------------------
(* Liveness of sync and what hangs on it, under one run: the engines of      *)
(* RecordSync, or the handle React holds, or the writers of the daily        *)
(* snapshot. `side` says which of the three a behaviour is about.            *)
EXTENDS MCRecordSync

CONSTANTS Edits, MaxHandles, Writing, MaxDay, MaxUnlocks, Home, Null

VARIABLES side,
          hUnlocked, visible, hMounted, started, handle, hServer, hStore, hOutbox, hFaults,
          today, figures, session, unlocks, dStore, queued, dServer, dRun, doneOn, written,
          twice, dFaults

Handle == INSTANCE SyncHandle WITH
    unlocked <- hUnlocked, mounted <- hMounted, server <- hServer, store <- hStore,
    outbox <- hOutbox, faults <- hFaults

Daily == INSTANCE DailySnapshot WITH
    Devices <- Writing, store <- dStore, server <- dServer, run <- dRun, faults <- dFaults

(* One device is unlocked twice, the other once.                             *)
TwoAndOne == <<2, 1>>

(* What the theorems about the two assume of their constants.                *)
ASSUME DailyAssumption == Daily!SnapshotConstants /\ MaxHandles \in Nat

handleVars == <<hUnlocked, visible, hMounted, started, handle, hServer, hStore, hOutbox, hFaults>>
dailyVars  == <<today, figures, session, unlocks, dStore, queued, dServer, dRun, doneOn, written,
                twice, dFaults>>
mcVars     == <<side, vars, handleVars, dailyVars>>

Engine(A)  == side = "engine" /\ A /\ UNCHANGED <<side, handleVars, dailyVars>>
Handled(A) == side = "handle" /\ A /\ UNCHANGED <<side, vars, dailyVars>>
Written(A) == side = "daily"  /\ A /\ UNCHANGED <<side, vars, handleVars>>

(* The sides that are not looked at keep one initial state.                  *)
MCInit ==
    /\ side \in {"engine", "handle", "daily"}
    /\ Init
    /\ Handle!Init
    /\ Daily!Init
    /\ side # "handle" => hOutbox = {}
    /\ side # "daily" => ~figures

MCNext == Engine(Next) \/ Handled(Handle!Next) \/ Written(Daily!Next)

(* The fairness of the three specifications. A side never changes, so one    *)
(* condition can stand for an action of each: only its own is ever enabled.  *)
MCFairness ==
    /\ WF_mcVars(Engine(Hydrate(d1)) \/ Handled(Handle!Hydrate(1)) \/ Written(Daily!Sync(1)))
    /\ WF_mcVars(Engine(Hydrate(d2)) \/ Handled(Handle!Hydrate(2)) \/ Written(Daily!Sync(2)))
    /\ WF_mcVars(Engine(StartRun(d1)) \/ Handled(Handle!Tick(1)) \/ Written(Daily!Write(<<1, 1>>)))
    /\ WF_mcVars(Engine(StartRun(d2)) \/ Handled(Handle!Tick(2)) \/ Written(Daily!Write(<<1, 2>>)))
    /\ WF_mcVars(Engine(RunStep(d1)) \/ Handled(Handle!Run(1)) \/ Written(Daily!Write(<<2, 1>>)))
    /\ WF_mcVars(Engine(RunStep(d2)) \/ Handled(Handle!Run(2)))
    /\ WF_mcVars(Engine(\E B \in orphans : ServeOrphan(B)) \/ Handled(Handle!Stop))
    /\ WF_mcVars(Engine(Edited(d1)))
    /\ WF_mcVars(Engine(Edited(d2)))

MCSpec == MCInit /\ [][MCNext]_mcVars /\ MCFairness

(* SyncHandle: records shown, timer and status are what they should be.      *)
HandleIsCurrent == Handle!HandleIsCurrent

(* SyncHandle: no edit waits for ever in an app that stays open.             *)
EditsArrive     == Handle!EditsArrive

(* DailySnapshot: one snapshot for a day, computed on that day.              *)
OneSnapshotADay == Daily!OneSnapshotADay

(* DailySnapshot: an open device does not leave a day without its snapshot.  *)
DayIsRecorded   == Daily!DayIsRecorded

(* Converges of RecordSyncProperties, which is about its own side here.      *)
EnginesConverge == side = "engine" => Converges
=============================================================================
