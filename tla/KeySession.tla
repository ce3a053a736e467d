----------------------------- MODULE KeySession -----------------------------
(* The unlocked session of a tab: generations of unlock and lock, the        *)
(* inactivity window with its timer, and the short chance to add a passkey.  *)
(* Source: src/features/lock/key-session.ts.                                 *)
(*                                                                           *)
(* Time is kept as what is left of each window, which is all the code        *)
(* compares. A browser timer fires when it is due or any time later. The     *)
(* promises an unlock or an enrolment waits for answer in any order.         *)
EXTENDS Naturals

CONSTANTS
    AutoLock,       \* autoLockMs, in ticks
    EnrolWindow,    \* ENROL_WINDOW_MS, in ticks
    MaxGeneration   \* bound: no unlock, start or lock by the user beyond it

ASSUME SessionAssumption ==
    /\ AutoLock \in Nat \ {0}
    /\ EnrolWindow \in Nat \ {0}
    /\ MaxGeneration \in Nat

VARIABLES
    status,      \* snapshot.status
    identity,    \* None, or the generation whose opener gave it
    household,   \* whether setHouseholdKey has been called for the identity
    generation,
    idle,        \* now() - lastActivity, counted up to AutoLock
    timer,       \* NoTimer, or ticks until it is due
    enrol,       \* NoEnrol, or the unlock it belongs to and what is left
    deriving,    \* openers under way: the generation and the kind of each
    adding       \* addSlot calls under way: the unlock each started from

vars == <<status, identity, household, generation, idle, timer, enrol,
          deriving, adding>>

None    == 0
NoTimer == AutoLock + 1
NoEnrol == [of |-> None, left |-> 0]
Kinds   == {"passphrase", "passkey"}

TypeOK ==
    /\ status \in {"locked", "unlocking", "failed", "unlocked"}
    /\ identity \in Nat
    /\ household \in BOOLEAN
    /\ generation \in Nat
    /\ idle \in 0 .. AutoLock
    /\ timer \in 0 .. NoTimer
    /\ enrol \in [of : Nat, left : 0 .. EnrolWindow]
    /\ deriving \subseteq [mine : Nat, by : Kinds]
    /\ adding \subseteq Nat

Init ==
    /\ status = "locked"
    /\ identity = None
    /\ household = FALSE
    /\ generation = 0
    /\ idle = 0
    /\ timer = NoTimer
    /\ enrol = NoEnrol
    /\ deriving = {}
    /\ adding = {}

DropKeys ==
    /\ identity' = None
    /\ household' = FALSE
    /\ enrol' = NoEnrol

Schedule ==
    /\ idle' = 0
    /\ timer' = AutoLock

DoLockSameGeneration ==
    /\ timer' = NoTimer
    /\ DropKeys
    /\ status' = "locked"
    /\ UNCHANGED <<generation, idle, deriving, adding>>

DoLock ==
    /\ generation' = generation + 1
    /\ timer' = NoTimer
    /\ DropKeys
    /\ status' = "locked"
    /\ UNCHANGED <<idle, deriving, adding>>

Expired == idle = AutoLock

Lock ==
    /\ generation < MaxGeneration
    /\ DoLock

(* unlock and unlockWithPasskey, up to where open() awaits the opener; a     *)
(* timer of the session it replaces stays armed.                             *)
Unlock(by) ==
    /\ generation < MaxGeneration
    /\ generation' = generation + 1
    /\ DropKeys
    /\ status' = "unlocking"
    /\ deriving' = deriving \cup {[mine |-> generation + 1, by |-> by]}
    /\ UNCHANGED <<idle, timer, adding>>

IsLatestAnyway(call) == TRUE

IsLatest(call) == call.mine = generation

(* opened() runs before listeners hear "unlocked".                           *)
Opened(call) ==
    /\ deriving' = deriving \ {call}
    /\ IF IsLatest(call)
       THEN /\ identity' = call.mine
            /\ enrol' = IF call.by = "passphrase"
                        THEN [of |-> call.mine, left |-> EnrolWindow]
                        ELSE enrol
            /\ Schedule
            /\ status' = "unlocked"
       ELSE UNCHANGED <<identity, enrol, idle, timer, status>>
    /\ UNCHANGED <<household, generation, adding>>

Refused(call) ==
    /\ deriving' = deriving \ {call}
    /\ status' = IF IsLatest(call) THEN "failed" ELSE status
    /\ UNCHANGED <<identity, household, generation, idle, timer, enrol, adding>>

Start ==
    /\ generation < MaxGeneration
    /\ generation' = generation + 1
    /\ identity' = generation + 1
    /\ household' = FALSE
    /\ enrol' = NoEnrol
    /\ Schedule
    /\ status' = "unlocked"
    /\ UNCHANGED <<deriving, adding>>

SetHouseholdKey ==
    /\ identity # None
    /\ household' = TRUE
    /\ UNCHANGED <<status, identity, generation, idle, timer, enrol, deriving,
                   adding>>

WholeWindow == AutoLock

NoRest == NoTimer

(* What is left of the window, for the timer check() sets anew.              *)
RestOfWindow == AutoLock - idle

Check ==
    /\ status = "unlocked"
    /\ \/ Expired /\ DoLock
       \/ /\ ~Expired
          /\ timer' = RestOfWindow
          /\ UNCHANGED <<status, identity, household, generation, idle, enrol,
                         deriving, adding>>

(* The timer calls check(), which does nothing unless unlocked.              *)
TimerFires ==
    /\ timer = 0
    /\ \/ Check
       \/ /\ status # "unlocked"
          /\ timer' = NoTimer
          /\ UNCHANGED <<status, identity, household, generation, idle, enrol,
                         deriving, adding>>

TouchUnchecked ==
    /\ status = "unlocked"
    /\ Schedule
    /\ UNCHANGED <<status, identity, household, generation, enrol, deriving,
                   adding>>

Touch ==
    /\ status = "unlocked"
    /\ \/ Expired /\ DoLock
       \/ /\ ~Expired
          /\ Schedule
          /\ UNCHANGED <<status, identity, household, generation, enrol,
                         deriving, adding>>

CanEnrol ==
    /\ enrol.of # None
    /\ status = "unlocked"
    /\ enrol.left > 0

EnrolPasskey ==
    /\ CanEnrol
    /\ adding' = adding \cup {enrol.of}
    /\ UNCHANGED <<status, identity, household, generation, idle, timer, enrol,
                   deriving>>

IsPendingAnyway(of) == TRUE

(* enrol === pending: only the capability this enrolment took is used up.    *)
IsPending(of) == enrol.of = of

Enrolled(of) ==
    /\ adding' = adding \ {of}
    /\ enrol' = IF IsPending(of) THEN NoEnrol ELSE enrol
    /\ UNCHANGED <<status, identity, household, generation, idle, timer,
                   deriving>>

(* addSlot throws: the capability stays.                                     *)
EnrolFailed(of) ==
    /\ adding' = adding \ {of}
    /\ UNCHANGED <<status, identity, household, generation, idle, timer, enrol,
                   deriving>>

DismissEnrol ==
    /\ enrol # NoEnrol
    /\ enrol' = NoEnrol
    /\ UNCHANGED <<status, identity, household, generation, idle, timer,
                   deriving, adding>>

(* A tick of the clock: windows run out, whether or not a timer fires.       *)
Less(n) == IF n = 0 THEN 0 ELSE n - 1

Tick ==
    /\ idle' = IF Expired THEN idle ELSE idle + 1
    /\ timer' = IF timer = NoTimer THEN timer ELSE Less(timer)
    /\ enrol' = [enrol EXCEPT !.left = Less(enrol.left)]
    /\ UNCHANGED <<status, identity, household, generation, deriving, adding>>

(* What installAutoLock wires to the page: activity, a return to the tab     *)
(* and pagehide.                                                             *)
PageEvent == Touch \/ Check \/ Lock

Next ==
    \/ PageEvent
    \/ \E by \in Kinds : Unlock(by)
    \/ \E call \in deriving : Opened(call) \/ Refused(call)
    \/ Start
    \/ SetHouseholdKey
    \/ TimerFires
    \/ EnrolPasskey
    \/ \E of \in adding : Enrolled(of) \/ EnrolFailed(of)
    \/ DismissEnrol
    \/ Tick

Spec == Init /\ [][Next]_vars

(* Time passes, and a timer that is due fires some time.                     *)
FairSpec ==
    /\ Spec
    /\ WF_vars(Tick)
    /\ WF_vars(TimerFires)
------------------------------------------------------------------------------
(* Keys are held exactly while unlocked, and only those of the latest        *)
(* generation: no unlock that a lock, a start or another unlock overtook     *)
(* gives its identity, household key or passphrase to the session.           *)
KeysOfLatest ==
    /\ (identity # None) <=> (status = "unlocked")
    /\ identity # None => identity = generation
    /\ household => identity # None
    /\ enrol.of \in {None, identity}

(* While unlocked a timer is armed, and it never falls due after the end of  *)
(* the inactivity window, whatever check, touch, lock and unlock did to it.  *)
LockArmed ==
    status = "unlocked" => timer <= AutoLock - idle

(* The keys in memory are those of the latest unlock, and a timer ends them  *)
(* with the inactivity window.                                               *)
KeysInWindow == KeysOfLatest /\ LockArmed

(* A session whose window ran out is never prolonged by activity, a late     *)
(* timer or a return to the tab: it stays as it is until it is locked or     *)
(* opened anew.                                                              *)
NeverRevived ==
    [][(status = "unlocked" /\ idle = AutoLock) =>
        \/ status' # "unlocked"
        \/ identity' # identity
        \/ idle' = AutoLock]_vars

(* An enrolment that finishes late leaves alone the capability of a later    *)
(* unlock: that one ends only by its own use, its dismissal or a new session.*)
OwnCapability ==
    [][\A of \in adding : (of \notin adding' /\ enrol.of # of) => enrol' = enrol]_vars

(* Nothing that comes late counts: no activity after the window, no          *)
(* enrolment after the unlock it began in.                                   *)
NothingLateCounts == NeverRevived /\ OwnCapability

(* However late timers fire, a session nobody touches is locked: time and    *)
(* again it is either not unlocked or just used.                             *)
IdleLocks == []<>(status # "unlocked" \/ idle = 0)

(* key-session.ts:7-9: "the passphrase stays in this closure for at most     *)
(* ENROL_WINDOW_MS, and is dropped on lock, on use or on dismissal."         *)
PassphraseDropped == enrol.of # None => enrol.left > 0

(* The session as its callers see it, without time: see module Session.      *)
LiveCall == {call \in deriving : IsLatest(call)}

S == INSTANCE Session WITH
        household <- household,
        enrol     <- enrol.of # None,
        opening   <- {call.mine : call \in deriving},
        live      <- IF LiveCall = {} THEN None ELSE generation,
        attempts  <- generation

ImplementsSession == S!SessionSpec
==============================================================================
