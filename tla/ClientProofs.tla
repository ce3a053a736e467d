---------------------------- MODULE ClientProofs -----------------------------
(* Proofs about what stands between a person and the app: that an unlocked   *)
(* tab holds only the keys of its latest unlock, has a timer that ends its   *)
(* inactivity window, and implements module Session; that the gate of the tab*)
(* (AppGate) never mixes the vault, slot and keys of two accounts; that what *)
(* its unlock screen goes by is what the server stores; and that the         *)
(* household's gate opens only with a key by right.                          *)
EXTENDS MCClient, TLAPS

(* Calls under way are numbered apart and never ahead of the generation, and *)
(* while the latest of them derives its key the session is unlocking.        *)
CallsNumbered ==
    /\ \A call \in deriving : call.mine \in 1 .. generation
    /\ \A c, d \in deriving : c.mine = d.mine => c = d
    /\ \A call \in deriving : call.mine = generation => status = "unlocking"

SessionInv == TypeOK /\ KeysOfLatest /\ LockArmed /\ CallsNumbered

LEMMA NoneTypes ==
    /\ NoEnrol \in [of : Nat, left : 0 .. EnrolWindow]
    /\ NoEnrol.of = None
    /\ NoTimer \in 0 .. NoTimer
    /\ AutoLock \in 0 .. NoTimer
    /\ 0 \in 0 .. AutoLock
    /\ None \in Nat
    /\ FALSE \in BOOLEAN
  <1>1. 0 \in 0 .. EnrolWindow
    BY SessionAssumption
  <1> QED BY <1>1, SessionAssumption DEF NoEnrol, None, NoTimer

LEMMA InitInv == Init => SessionInv
  <1> SUFFICES ASSUME Init PROVE SessionInv
    OBVIOUS
  <1>1. TypeOK
    BY NoneTypes DEF Init, TypeOK
  <1>2. KeysOfLatest /\ LockArmed /\ CallsNumbered
    BY NoneTypes DEF Init, KeysOfLatest, LockArmed, CallsNumbered
  <1> QED BY <1>1, <1>2 DEF SessionInv

LEMMA LockKeeps == ASSUME SessionInv, DoLock PROVE SessionInv'
  <1>1. TypeOK'
    <2>1. generation + 1 \in Nat
      BY DEF SessionInv, TypeOK
    <2> QED BY <2>1, NoneTypes DEF SessionInv, TypeOK, DoLock, DropKeys
  <1>2. KeysOfLatest' /\ LockArmed'
    BY DEF SessionInv, TypeOK, KeysOfLatest, LockArmed, DoLock, DropKeys, None, NoEnrol
  <1>3. CallsNumbered'
    BY DEF SessionInv, TypeOK, CallsNumbered, DoLock
  <1> QED BY <1>1, <1>2, <1>3 DEF SessionInv

LEMMA UnlockKeeps == ASSUME SessionInv, NEW kind \in Kinds, Unlock(kind) PROVE SessionInv'
  <1>1. TypeOK'
    <2>1. generation + 1 \in Nat
      BY DEF SessionInv, TypeOK
    <2>2. [mine |-> generation + 1, by |-> kind] \in [mine : Nat, by : Kinds]
      BY <2>1
    <2>3. deriving' \subseteq [mine : Nat, by : Kinds]
      BY <2>2 DEF SessionInv, TypeOK, Unlock
    <2> QED BY <2>1, <2>3, NoneTypes DEF SessionInv, TypeOK, Unlock, DropKeys
  <1>2. KeysOfLatest' /\ LockArmed'
    BY DEF SessionInv, TypeOK, KeysOfLatest, LockArmed, Unlock, DropKeys, None, NoEnrol
  <1>3. CallsNumbered'
    BY DEF SessionInv, TypeOK, CallsNumbered, Unlock
  <1> QED BY <1>1, <1>2, <1>3 DEF SessionInv

LEMMA OpenedKeeps ==
    ASSUME SessionInv, NEW call \in deriving, Opened(call)
    PROVE  SessionInv'
  <1>1. call.mine \in 1 .. generation /\ generation \in Nat
    BY DEF SessionInv, TypeOK, CallsNumbered
  <1>2. TypeOK'
    BY <1>1, SessionAssumption
    DEF SessionInv, TypeOK, Opened, Schedule, NoTimer
  <1>3. KeysOfLatest' /\ LockArmed'
    BY <1>1, SessionAssumption
    DEF SessionInv, TypeOK, KeysOfLatest, LockArmed, CallsNumbered, Opened, IsLatest,
        Schedule, None
  <1>4. CallsNumbered'
    BY <1>1 DEF SessionInv, TypeOK, CallsNumbered, Opened, IsLatest
  <1> QED BY <1>2, <1>3, <1>4 DEF SessionInv

LEMMA StartKeeps == ASSUME SessionInv, Start PROVE SessionInv'
  <1>1. TypeOK'
    <2>1. generation + 1 \in Nat
      BY DEF SessionInv, TypeOK
    <2> QED BY <2>1, NoneTypes DEF SessionInv, TypeOK, Start, Schedule
  <1>2. KeysOfLatest' /\ LockArmed'
    BY SessionAssumption
    DEF SessionInv, TypeOK, KeysOfLatest, LockArmed, Start, Schedule, None, NoEnrol
  <1>3. CallsNumbered'
    BY DEF SessionInv, TypeOK, CallsNumbered, Start
  <1> QED BY <1>1, <1>2, <1>3 DEF SessionInv

LEMMA CheckKeeps == ASSUME SessionInv, Check PROVE SessionInv'
  <1>1. CASE DoLock
    BY <1>1, LockKeeps
  <1>2. CASE ~Expired /\ timer' = RestOfWindow
             /\ UNCHANGED <<status, identity, household, generation, idle, enrol,
                            deriving, adding>>
    BY <1>2, SessionAssumption
    DEF SessionInv, TypeOK, KeysOfLatest, LockArmed, CallsNumbered, RestOfWindow, NoTimer
  <1> QED BY <1>1, <1>2 DEF Check

LEMMA TouchKeeps == ASSUME SessionInv, Touch PROVE SessionInv'
  <1>1. CASE DoLock
    BY <1>1, LockKeeps
  <1>2. CASE Schedule /\ UNCHANGED <<status, identity, household, generation, enrol,
                                     deriving, adding>>
    BY <1>2, SessionAssumption
    DEF SessionInv, TypeOK, KeysOfLatest, LockArmed, CallsNumbered, Schedule, NoTimer
  <1> QED BY <1>1, <1>2 DEF Touch

LEMMA TickKeeps == ASSUME SessionInv, Tick PROVE SessionInv'
  <1>1. TypeOK'
    BY SessionAssumption
    DEF SessionInv, TypeOK, Tick, Expired, Less, NoTimer
  <1>2. KeysOfLatest' /\ CallsNumbered'
    BY DEF SessionInv, TypeOK, KeysOfLatest, CallsNumbered, Tick, Less
  <1>3. LockArmed'
    BY SessionAssumption
    DEF SessionInv, TypeOK, LockArmed, Tick, Expired, Less, NoTimer
  <1> QED BY <1>1, <1>2, <1>3 DEF SessionInv

(* Steps that leave identity, generation, timer and calls alone.             *)
LEMMA EnrolKeeps ==
    ASSUME SessionInv,
           \/ EnrolPasskey
           \/ \E of \in adding : Enrolled(of) \/ EnrolFailed(of)
           \/ DismissEnrol
    PROVE  SessionInv'
  <1>1. TypeOK'
    <2>1. EnrolPasskey => enrol.of \in Nat
      BY DEF SessionInv, TypeOK
    <2> QED BY <2>1, NoneTypes
            DEF SessionInv, TypeOK, EnrolPasskey, Enrolled, EnrolFailed, DismissEnrol
  <1>2. KeysOfLatest' /\ LockArmed' /\ CallsNumbered'
    BY DEF SessionInv, TypeOK, KeysOfLatest, LockArmed, CallsNumbered, EnrolPasskey,
           Enrolled, EnrolFailed, DismissEnrol, NoEnrol, None
  <1> QED BY <1>1, <1>2 DEF SessionInv

LEMMA StepKeeps == SessionInv /\ [Next]_vars => SessionInv'
  <1> SUFFICES ASSUME SessionInv, [Next]_vars PROVE SessionInv'
    OBVIOUS
  <1>1. CASE PageEvent
    BY <1>1, TouchKeeps, CheckKeeps, LockKeeps DEF PageEvent, Lock
  <1>2. CASE \E kind \in Kinds : Unlock(kind)
    BY <1>2, UnlockKeeps
  <1>3. ASSUME NEW call \in deriving, Opened(call) PROVE SessionInv'
    BY <1>3, OpenedKeeps
  <1>4. ASSUME NEW call \in deriving, Refused(call) PROVE SessionInv'
    BY <1>4
    DEF SessionInv, TypeOK, KeysOfLatest, LockArmed, CallsNumbered, Refused, IsLatest,
        None
  <1>5. CASE Start
    BY <1>5, StartKeeps
  <1>6. CASE SetHouseholdKey
    BY <1>6
    DEF SessionInv, TypeOK, KeysOfLatest, LockArmed, CallsNumbered, SetHouseholdKey
  <1>7. CASE TimerFires
    <2>1. CASE Check
      BY <2>1, CheckKeeps
    <2>2. CASE status # "unlocked" /\ timer' = NoTimer
               /\ UNCHANGED <<status, identity, household, generation, idle, enrol,
                              deriving, adding>>
      BY <2>2, SessionAssumption
      DEF SessionInv, TypeOK, KeysOfLatest, LockArmed, CallsNumbered, NoTimer
    <2> QED BY <1>7, <2>1, <2>2 DEF TimerFires
  <1>8. CASE \/ EnrolPasskey
             \/ \E of \in adding : Enrolled(of) \/ EnrolFailed(of)
             \/ DismissEnrol
    BY <1>8, EnrolKeeps
  <1>9. CASE Tick
    BY <1>9, TickKeeps
  <1>10. CASE UNCHANGED vars
    BY <1>10 DEF vars, SessionInv, TypeOK, KeysOfLatest, LockArmed, CallsNumbered
  <1> QED BY <1>1, <1>2, <1>3, <1>4, <1>5, <1>6, <1>7, <1>8, <1>9, <1>10 DEF Next

(* Every reachable state of the session keeps the inductive invariant.       *)
THEOREM SessionInvariant == Spec => []SessionInv
  BY InitInv, StepKeeps, PTL DEF Spec

(* Every variable keeps its type, in particular what is left of a window is  *)
(* never negative nor longer than the window.                                *)
THEOREM SessionTypeCorrect == Spec => []TypeOK
  BY SessionInvariant, PTL DEF SessionInv

(* No unlock that was overtaken gives its keys to the session, and an        *)
(* unlocked session always has a timer due by the end of its window.         *)
THEOREM KeysInWindowHolds == Spec => []KeysInWindow
  BY SessionInvariant, PTL DEF SessionInv, KeysInWindow

Revives ==
    /\ status = "unlocked" /\ idle = AutoLock
    /\ status' = "unlocked" /\ identity' = identity /\ idle' # AutoLock

LEMMA StepRevivesNothing == SessionInv /\ [Next]_vars => ~Revives
  <1> SUFFICES ASSUME SessionInv, [Next]_vars, status = "unlocked", idle = AutoLock
               PROVE  \/ status' # "unlocked"
                      \/ identity' # identity
                      \/ idle' = AutoLock
    BY DEF Revives
  <1>1. CASE DoLock
    BY <1>1 DEF DoLock
  <1>2. CASE Start
    BY <1>2 DEF Start, SessionInv, TypeOK, KeysOfLatest, None
  <1>3. ASSUME NEW call \in deriving, Opened(call) PROVE UNCHANGED idle
    BY <1>3 DEF Opened, IsLatest, SessionInv, CallsNumbered
  <1>4. CASE UNCHANGED idle
    BY <1>4
  <1>5. CASE \E kind \in Kinds : Unlock(kind)
    BY <1>5 DEF Unlock
  <1>6. CASE Touch
    BY <1>1, <1>6 DEF Touch, Expired
  <1>7. CASE Check \/ TimerFires
    BY <1>1, <1>4, <1>7 DEF TimerFires, Check
  <1>8. CASE Tick
    BY <1>8 DEF Tick, Expired
  <1>9. CASE \/ SetHouseholdKey
             \/ \E call \in deriving : Refused(call)
             \/ EnrolPasskey
             \/ \E of \in adding : Enrolled(of) \/ EnrolFailed(of)
             \/ DismissEnrol
             \/ UNCHANGED vars
    BY <1>4, <1>9 DEF SetHouseholdKey, Refused, EnrolPasskey, Enrolled, EnrolFailed,
                      DismissEnrol, vars
  <1> QED BY <1>1, <1>2, <1>3, <1>4, <1>5, <1>6, <1>7, <1>8, <1>9
          DEF Next, PageEvent, Lock

UsesUpAnother == \E of \in adding : of \notin adding' /\ enrol.of # of /\ enrol' # enrol

LEMMA StepUsesUpOnlyItsOwn == [Next]_vars => ~UsesUpAnother
  <1> SUFFICES ASSUME [Next]_vars, NEW of \in adding, of \notin adding', enrol.of # of
               PROVE  enrol' = enrol
    BY DEF UsesUpAnother
  <1>1. PICK o \in adding : Enrolled(o) \/ EnrolFailed(o)
    BY DEF Next, PageEvent, Touch, Check, Lock, DoLock, Schedule, Unlock, Opened, Refused,
           Start, SetHouseholdKey, TimerFires, EnrolPasskey, DismissEnrol, Tick, vars
  <1>2. adding' = adding \ {o}
    BY <1>1 DEF Enrolled, EnrolFailed
  <1> QED BY <1>1, <1>2 DEF Enrolled, EnrolFailed, IsPending

(* Activity, a late timer or a return to the tab never prolongs a session    *)
(* whose inactivity window is over, and an enrolment that ends late uses up  *)
(* no other unlock's capability.                                             *)
THEOREM NothingLateCountsHolds == Spec => NothingLateCounts
  <1>1. ~Revives => [(status = "unlocked" /\ idle = AutoLock) =>
                        \/ status' # "unlocked"
                        \/ identity' # identity
                        \/ idle' = AutoLock]_vars
    BY DEF Revives
  <1>2. ~UsesUpAnother =>
            [\A of \in adding : (of \notin adding' /\ enrol.of # of) => enrol' = enrol]_vars
    BY DEF UsesUpAnother
  <1> QED BY <1>1, <1>2, SessionInvariant, StepRevivesNothing, StepUsesUpOnlyItsOwn, PTL
          DEF Spec, NothingLateCounts, NeverRevived, OwnCapability

------------------------------------------------------------------------------
(* Refinement: each step is one of the abstract session, or a stutter.       *)

LEMMA InitIsSession == Init => S!SessionInit
  BY DEF Init, S!SessionInit, None, S!None, NoEnrol, LiveCall

LEMMA LiveFacts ==
    ASSUME SessionInv
    PROVE  /\ generation \in Nat
           /\ \A call \in LiveCall : call \in deriving /\ call.mine = generation
                                     /\ generation > 0
           /\ \A call \in deriving : call.mine = generation => call \in LiveCall
  BY DEF SessionInv, TypeOK, CallsNumbered, LiveCall, IsLatest

LEMMA LockIsSession == ASSUME SessionInv, DoLock PROVE S!SessionNext
  <1>1. LiveCall' = {}
    BY DEF SessionInv, TypeOK, CallsNumbered, LiveCall, IsLatest, DoLock
  <1>2. S!Lock
    BY <1>1 DEF S!Lock, S!NoKeys, S!None, DoLock, DropKeys, NoEnrol, None, SessionInv,
                TypeOK
  <1> QED BY <1>2 DEF S!SessionNext

LEMMA UnlockIsSession ==
    ASSUME SessionInv, NEW kind \in Kinds, Unlock(kind) PROVE S!SessionNext
  <1> DEFINE new == [mine |-> generation + 1, by |-> kind]
  <1>1. new \in LiveCall'
    BY DEF LiveCall, IsLatest, Unlock
  <1>2. {call.mine : call \in deriving'} = {call.mine : call \in deriving} \cup {generation'}
    <2>1. deriving' = deriving \cup {new} /\ new.mine = generation'
      BY DEF Unlock
    <2> HIDE DEF new
    <2> QED BY <2>1
  <1>3. S!Begin
    BY <1>1, <1>2
    DEF S!Begin, S!NoKeys, S!None, Unlock, DropKeys, NoEnrol, None, SessionInv, TypeOK
  <1> QED BY <1>3 DEF S!SessionNext

LEMMA AnswerIsSession ==
    ASSUME SessionInv, NEW call \in deriving, Opened(call) \/ Refused(call)
    PROVE  S!SessionNext
  <1>1. deriving' = deriving \ {call} /\ generation' = generation
    BY DEF Opened, Refused
  <1>2. {c.mine : c \in deriving'} = {c.mine : c \in deriving} \ {call.mine}
    BY <1>1 DEF SessionInv, CallsNumbered
  <1>3. CASE call.mine = generation
    <2>1. LiveCall # {} /\ generation > 0
      BY <1>3, LiveFacts
    <2>2. LiveCall' = {}
      BY <1>1, <1>3 DEF LiveCall, IsLatest, SessionInv, CallsNumbered
    <2>3. enrol.of = None
      BY <1>3 DEF SessionInv, CallsNumbered, KeysOfLatest
    <2>4. CASE Opened(call)
      <3>1. S!Open(call.by = "passphrase")
        BY <1>1, <1>2, <1>3, <2>1, <2>2, <2>3, <2>4
        DEF S!Open, S!None, Opened, IsLatest, None
      <3>2. (call.by = "passphrase") \in BOOLEAN
        OBVIOUS
      <3> QED BY <3>1, <3>2 DEF S!SessionNext
    <2>5. CASE Refused(call)
      BY <1>1, <1>2, <1>3, <2>1, <2>2, <2>5
      DEF S!SessionNext, S!Refuse, S!None, Refused, IsLatest, None
    <2> QED BY <2>4, <2>5
  <1>4. CASE call.mine # generation
    <2>1. LiveCall' = LiveCall
      BY <1>1, <1>4 DEF LiveCall, IsLatest
    <2>2. S!Discard(call.mine)
      <3>1. UNCHANGED <<status, identity, household, enrol>>
        BY <1>4 DEF Opened, Refused, IsLatest
      <3>2. call.mine > 0
        BY DEF SessionInv, CallsNumbered
      <3> QED BY <1>1, <1>2, <1>4, <2>1, <3>1, <3>2 DEF S!Discard, None
    <2> QED BY <2>2 DEF S!SessionNext
  <1> QED BY <1>3, <1>4

LEMMA StartIsSession == ASSUME SessionInv, Start PROVE S!SessionNext
  <1>1. LiveCall' = {}
    BY DEF SessionInv, TypeOK, CallsNumbered, LiveCall, IsLatest, Start
  <1>2. S!Start
    BY <1>1 DEF S!Start, S!None, Start, NoEnrol, None, SessionInv, TypeOK
  <1> QED BY <1>2 DEF S!SessionNext

LEMMA StepIsSession == SessionInv /\ [Next]_vars => [S!SessionNext]_S!sessionVars
  <1> SUFFICES ASSUME SessionInv, [Next]_vars PROVE [S!SessionNext]_S!sessionVars
    OBVIOUS
  <1>1. ASSUME UNCHANGED <<status, identity, household, generation, enrol, deriving>>
        PROVE  UNCHANGED S!sessionVars
    BY <1>1 DEF S!sessionVars, LiveCall, IsLatest
  <1>2. CASE PageEvent \/ TimerFires
    BY <1>1, <1>2, LockIsSession DEF PageEvent, TimerFires, Touch, Check, Lock
  <1>3. CASE \E kind \in Kinds : Unlock(kind)
    BY <1>3, UnlockIsSession
  <1>4. CASE \E call \in deriving : Opened(call) \/ Refused(call)
    BY <1>4, AnswerIsSession
  <1>5. CASE Start
    BY <1>5, StartIsSession
  <1>6. CASE SetHouseholdKey
    <2>1. S!SetHousehold
      BY <1>6 DEF SetHouseholdKey, S!SetHousehold, S!None, None, LiveCall, IsLatest
    <2> QED BY <2>1 DEF S!SessionNext
  <1>7. CASE EnrolPasskey \/ (\E of \in adding : EnrolFailed(of)) \/ UNCHANGED vars
    BY <1>1, <1>7 DEF EnrolPasskey, EnrolFailed, vars
  <1>8. CASE DismissEnrol \/ \E of \in adding : Enrolled(of)
    <2>1. CASE UNCHANGED enrol
      BY <1>1, <1>8, <2>1 DEF DismissEnrol, Enrolled
    <2>2. CASE enrol' = NoEnrol
      <3>1. S!UseUpEnrol
        BY <1>8, <2>2
        DEF DismissEnrol, Enrolled, S!UseUpEnrol, NoEnrol, LiveCall, IsLatest
      <3> QED BY <3>1 DEF S!SessionNext
    <2> QED BY <1>8, <2>1, <2>2 DEF DismissEnrol, Enrolled
  <1>9. CASE Tick
    <2>1. (enrol'.of # None) = (enrol.of # None)
      BY <1>9 DEF Tick, SessionInv, TypeOK
    <2>2. UNCHANGED S!sessionVars
      BY <1>9, <2>1 DEF Tick, S!sessionVars, LiveCall, IsLatest
    <2> QED BY <2>2
  <1> QED BY <1>2, <1>3, <1>4, <1>5, <1>6, <1>7, <1>8, <1>9 DEF Next

(* Generations, timers and late promises add up to the abstract session:     *)
(* only the last attempt begun may open it, and a lock ends every attempt.   *)
THEOREM ImplementsSessionHolds == Spec => ImplementsSession
  BY InitIsSession, SessionInvariant, StepIsSession, PTL
  DEF Spec, ImplementsSession, S!SessionSpec

------------------------------------------------------------------------------
(* AppGate: whose vault, slot and keys a tab holds while accounts change.    *)
LEMMA AppShapes ==
    ASSUME NEW what \in {"loading", "error", "none"}, NEW of \in App!Nobody
    PROVE  /\ App!Ready(of).at = "ready" /\ App!Ready(of).of = of
           /\ App!Ready(of) \in App!Vaults
           /\ App!Just(what).at = what /\ App!Just(what).of = Null
           /\ what # "none" =>
                  App!Just(what) \in App!Vaults
           /\ App!Slot(of).at = "slot" /\ App!Slot(of).of = of
  <1>1. (of # Null /\ aServer[of] = "protected") \in BOOLEAN
    BY Zenon
  <1> QED BY <1>1 DEF App!Ready, App!Just, App!Slot, App!Nobody, App!Vaults

LEMMA AppInit == App!Init => App!AppInv
  <1> SUFFICES ASSUME App!Init PROVE App!AppInv
    OBVIOUS
  <1>1. App!GateOK
    BY AppShapes DEF App!Init, App!GateOK, App!Vaults, App!Loads, App!Nobody
  <1>2. aVault.at = "loading" /\ loads = {} /\ aStatus = "locked" /\ opening = Null
    BY DEF App!Init, App!Just
  <1> QED
    BY <1>1, <1>2
    DEF App!AppInv, App!OneLiveLoad, App!OpensOwnSlot, App!KeysOfVault, App!SlotOfVault,
        App!VaultOfShown

(* Once nothing of an earlier load is live, the gate may load anew.          *)
LEMMA LoadsAnew ==
    ASSUME App!GateOK, NEW u \in Users, App!StartLoad(u), cookie' = cookie
    PROVE  /\ loads' \subseteq App!Loads
           /\ \A l \in loads' : l.live => l = [user |-> u, got |-> cookie, live |-> TRUE]
           /\ aVault' = App!Just("loading") /\ aVault'.at = "loading" /\ opening' = Null
           /\ aVault' \in App!Vaults
  <1>1. \A l \in loads : /\ [l EXCEPT !.live = FALSE] \in App!Loads
                         /\ ~[l EXCEPT !.live = FALSE].live
    BY DEF App!GateOK, App!Vaults, App!Loads
  <1>2. [user |-> u, got |-> cookie, live |-> TRUE] \in App!Loads
    BY DEF App!GateOK, App!Vaults, App!Loads
  <1>3. aVault' = App!Just("loading") /\ opening' = Null
    BY DEF App!StartLoad
  <1>4. \A l \in loads' : \/ l = [user |-> u, got |-> cookie, live |-> TRUE]
                          \/ \E k \in loads : l = [k EXCEPT !.live = FALSE]
    BY DEF App!StartLoad
  <1>5. aVault'.at = "loading"
        /\ aVault' \in App!Vaults
    BY <1>3, AppShapes DEF App!Nobody
  <1> QED BY <1>1, <1>2, <1>3, <1>4, <1>5

LEMMA SessionAnswerKeeps == ASSUME App!AppInv, App!SessionAnswer PROVE App!AppInv'
  <1> USE DEF App!AppInv
  <1>1. seen' = [pending |-> FALSE, user |-> cookie] /\ seen'.user = cookie /\ cookie' = cookie
    BY DEF App!SessionAnswer
  <1>2. moved' = (moved \/ cookie # seen.user) /\ UNCHANGED <<aStatus, keys, mixed>>
    BY DEF App!SessionAnswer
  <1>3. CASE cookie = seen.user
    <2>1. UNCHANGED <<loads, aVault, device, opening>> /\ seen'.user = seen.user
      BY <1>1, <1>3 DEF App!SessionAnswer
    <2>2. moved' = moved
      BY <1>2, <1>3 DEF App!GateOK, App!Vaults, App!Loads
    <2> QED BY <1>1, <1>2, <2>1, <2>2
      DEF App!GateOK, App!Vaults, App!Loads, App!OneLiveLoad, App!OpensOwnSlot,
          App!KeysOfVault, App!SlotOfVault, App!VaultOfShown
  <1>4. CASE cookie # seen.user /\ cookie = Null
    <2>1. /\ loads' = {[l EXCEPT !.live = FALSE] : l \in loads}
          /\ UNCHANGED <<aVault, device, opening>>
      BY <1>4 DEF App!SessionAnswer
    <2>2. \A l \in loads' : ~l.live /\ l \in App!Loads
      <3>1. \A k \in loads : /\ ~[k EXCEPT !.live = FALSE].live
                             /\ [k EXCEPT !.live = FALSE]
                                    \in App!Loads
        BY DEF App!GateOK, App!Vaults, App!Loads
      <3>2. \A l \in loads' : \E k \in loads : l = [k EXCEPT !.live = FALSE]
        BY <2>1
      <3> QED BY <3>1, <3>2
    <2>3. moved'
      BY <1>2, <1>4
    <2> QED BY <1>1, <1>2, <1>4, <2>1, <2>2, <2>3
      DEF App!GateOK, App!Vaults, App!Loads, App!OneLiveLoad, App!OpensOwnSlot,
          App!KeysOfVault, App!SlotOfVault, App!VaultOfShown, App!Nobody
  <1>5. CASE cookie # seen.user /\ cookie # Null
    <2>1. App!StartLoad(cookie) /\ cookie \in Users
      BY <1>5 DEF App!SessionAnswer, App!GateOK, App!Vaults, App!Loads, App!Nobody
    <2>2. moved'
      BY <1>2, <1>5
    <2> QED BY <1>1, <1>2, <2>1, <2>2, LoadsAnew
      DEF App!GateOK, App!Vaults, App!Loads, App!OneLiveLoad, App!OpensOwnSlot,
          App!KeysOfVault, App!SlotOfVault, App!VaultOfShown, App!Nobody
  <1> QED BY <1>3, <1>4, <1>5

LEMMA TryAgainKeeps == ASSUME App!AppInv, App!TryAgain PROVE App!AppInv'
  <1> USE DEF App!AppInv
  <1>1. seen.user # Null /\ seen.user \in Users
    BY DEF App!TryAgain, App!Screen, App!GateOK, App!Vaults, App!Loads, App!Nobody
  <1>2. aVault.at = "error"
    BY DEF App!TryAgain, App!Screen
  <1>3. App!StartLoad(seen.user) /\ mixed' = (mixed \/ cookie # seen.user)
    BY DEF App!TryAgain
  <1>4. UNCHANGED <<cookie, seen, aStatus, keys, moved>>
    BY DEF App!TryAgain
  <1> QED BY <1>1, <1>2, <1>3, <1>4, LoadsAnew
      DEF App!GateOK, App!Vaults, App!Loads, App!OneLiveLoad, App!OpensOwnSlot,
          App!KeysOfVault, App!SlotOfVault, App!VaultOfShown, App!Nobody

LEMMA LoadAnswerKeeps == ASSUME App!AppInv, NEW l \in loads, App!LoadAnswer(l) PROVE App!AppInv'
  <1> USE DEF App!AppInv
  <1>1. UNCHANGED <<cookie, seen, aStatus, keys, opening, moved, mixed>> /\ loads' = loads \ {l}
    BY DEF App!LoadAnswer
  <1>2. CASE l.live
    <2>1. aVault.at = "loading" /\ seen.user = l.user /\ (l.got = l.user \/ mixed)
      BY <1>2 DEF App!OneLiveLoad
    <2>2. opening = Null
      BY <2>1 DEF App!OpensOwnSlot
    <2>3. \A o \in loads' : ~o.live
      BY <1>1, <1>2 DEF App!OneLiveLoad
    <2>4. PICK of \in App!Nobody : /\ of = (IF aServer[l.got] = "none" THEN Null ELSE l.got)
                               /\ aVault' = App!Ready(of)
      BY <1>2 DEF App!LoadAnswer, App!Loaded, App!GateOK, App!Vaults, App!Loads, App!Nobody
    <2>5. device' = IF App!Mine(l) THEN App!Slot(slots[l.user]) ELSE App!Just("none")
      BY <1>2 DEF App!LoadAnswer, App!Found
    <2>6. device'.at = "slot" => App!Mine(l) /\ device'.of = slots[l.user]
      BY <2>5, AppShapes DEF App!Slot, App!Just
    <2>7. device'.at = "slot" => of # Null /\ device'.of = of
      BY <2>4, <2>6 DEF App!Mine, App!LoadAnswer
    <2>8. /\ aVault' \in App!Vaults
          /\ aVault'.at = "ready" /\ aVault'.of = of
      BY <2>4, AppShapes
    <2>9. aStatus \in {"unlocking", "unlocked"} => moved
      BY <2>1 DEF App!KeysOfVault
    <2> QED BY <1>1, <2>1, <2>2, <2>3, <2>4, <2>7, <2>8, <2>9
      DEF App!GateOK, App!Vaults, App!Loads, App!OneLiveLoad, App!OpensOwnSlot,
          App!KeysOfVault, App!SlotOfVault, App!VaultOfShown, App!Nobody
  <1>3. CASE ~l.live
    <2>1. UNCHANGED <<aVault, device>>
      BY <1>3 DEF App!LoadAnswer
    <2> QED BY <1>1, <2>1
      DEF App!GateOK, App!Vaults, App!Loads, App!OneLiveLoad, App!OpensOwnSlot,
          App!KeysOfVault, App!SlotOfVault, App!VaultOfShown, App!Nobody
  <1> QED BY <1>2, <1>3

LEMMA LoadFailsKeeps == ASSUME App!AppInv, NEW l \in loads, App!LoadFails(l) PROVE App!AppInv'
  <1> USE DEF App!AppInv
  <1>1. /\ UNCHANGED <<cookie, seen, device, aStatus, keys, opening, moved, mixed>>
        /\ loads' = loads \ {l}
    BY DEF App!LoadFails
  <1>2. CASE l.live
    <2>1. aVault.at = "loading" /\ opening = Null
      BY <1>2 DEF App!OneLiveLoad, App!OpensOwnSlot
    <2>2. \A o \in loads' : ~o.live
      BY <1>1, <1>2 DEF App!OneLiveLoad
    <2>3. aVault' = App!Just("error")
      BY <1>2 DEF App!LoadFails
    <2>4. aVault'.at = "error" /\ aVault' \in App!Vaults
      BY <2>3, AppShapes DEF App!Nobody
    <2> QED BY <1>1, <2>1, <2>2, <2>4
      DEF App!GateOK, App!Vaults, App!Loads, App!OneLiveLoad, App!OpensOwnSlot,
          App!KeysOfVault, App!SlotOfVault, App!VaultOfShown, App!Nobody
  <1>3. CASE ~l.live
    <2>1. UNCHANGED aVault
      BY <1>3 DEF App!LoadFails
    <2> QED BY <1>1, <2>1
      DEF App!GateOK, App!Vaults, App!Loads, App!OneLiveLoad, App!OpensOwnSlot,
          App!KeysOfVault, App!SlotOfVault, App!VaultOfShown, App!Nobody
  <1> QED BY <1>2, <1>3

LEMMA FirstRunKeeps == ASSUME App!AppInv, App!FirstRunDone PROVE App!AppInv'
  <1> USE DEF App!AppInv
  <1>1. /\ aVault.at = "ready" /\ aVault.of = Null
        /\ seen.user # Null /\ cookie = seen.user
    BY DEF App!FirstRunDone, App!Screen, App!GateOK, App!Vaults, App!Loads
  <1>2. opening = Null /\ \A l \in loads : ~l.live
    BY <1>1 DEF App!OpensOwnSlot, App!OneLiveLoad
  <1>3. /\ UNCHANGED <<cookie, seen, loads, opening, mixed>>
        /\ aVault' = [at |-> "ready", of |-> cookie, safe |-> FALSE]
        /\ device' = App!Slot(cookie) /\ keys' = cookie /\ aStatus' = "unlocked" /\ moved' = FALSE
    BY DEF App!FirstRunDone, App!Start, App!Slot, App!Ready
  <1> QED BY <1>1, <1>2, <1>3
      DEF App!GateOK, App!Vaults, App!Loads, App!OneLiveLoad, App!OpensOwnSlot,
          App!KeysOfVault, App!SlotOfVault, App!VaultOfShown, App!Nobody, App!Slot,
          App!Ready

(* Steps of the session leave what was loaded alone.                         *)
LEMMA SessionKeeps ==
    ASSUME App!AppInv,
           \/ App!OpenSlot \/ App!SlotOpens \/ App!Submit
           \/ App!UnlockEnds \/ App!CloseOffer \/ App!Lock
    PROVE  App!AppInv'
  <1> USE DEF App!AppInv
  <1>1. UNCHANGED <<cookie, seen, loads, aVault, mixed>>
    BY DEF App!OpenSlot, App!SlotOpens, App!SlotOpened, App!SlotFails, App!Submit,
           App!UnlockEnds, App!Unlocked, App!WrongSecret, App!CloseOffer, App!Lock
  <1>2. device' = device \/ (device'.at = "none" /\ opening' = Null)
    BY AppShapes DEF App!OpenSlot, App!SlotOpens, App!SlotOpened, App!SlotFails,
                     App!Submit, App!UnlockEnds, App!Unlocked, App!WrongSecret,
                     App!CloseOffer, App!Lock, App!Nobody
  <1>3. App!GateOK' /\ App!OneLiveLoad' /\ App!SlotOfVault' /\ App!VaultOfShown'
    <2>1. moved' \in BOOLEAN
      BY DEF App!OpenSlot, App!SlotOpens, App!SlotOpened, App!SlotFails, App!Submit,
             App!UnlockEnds, App!Unlocked, App!WrongSecret, App!CloseOffer, App!Lock,
             App!Start, App!GateOK, App!Vaults, App!Loads
    <2> QED BY <1>1, <1>2, <2>1 DEF App!GateOK, App!Vaults, App!Loads, App!OneLiveLoad,
                                    App!SlotOfVault, App!VaultOfShown, App!Nobody
  <1>4. App!OpensOwnSlot' /\ App!KeysOfVault'
    <2>1. CASE App!OpenSlot
      BY <2>1 DEF App!OpenSlot, App!OpensOwnSlot, App!KeysOfVault, App!SlotOfVault
    <2>2. CASE App!SlotOpens
      BY <1>1, <2>2 DEF App!SlotOpens, App!SlotOpened, App!SlotFails, App!Start,
                        App!OpensOwnSlot, App!KeysOfVault
    <2>3. CASE App!Submit
      <3>1. (aVault.at = "ready" /\ aStatus # "locked") \/ opening = Null
        BY <2>3 DEF App!Submit, App!Screen, App!GateOK, App!Vaults, App!Loads,
                    App!OpensOwnSlot
      <3>2. aVault.at = "ready" /\ opening = Null
        BY <2>3 DEF App!Submit, App!Screen, App!GateOK, App!Vaults, App!Loads,
                    App!OpensOwnSlot
      <3> QED BY <2>3, <3>2 DEF App!Submit, App!OpensOwnSlot, App!KeysOfVault
    <2>4. CASE App!UnlockEnds
      BY <2>4 DEF App!UnlockEnds, App!Unlocked, App!WrongSecret, App!OpensOwnSlot,
                  App!KeysOfVault
    <2>5. CASE App!CloseOffer \/ App!Lock
      BY <2>5 DEF App!CloseOffer, App!Lock, App!OpensOwnSlot, App!KeysOfVault
    <2> QED BY <2>1, <2>2, <2>3, <2>4, <2>5
  <1> QED BY <1>3, <1>4

(* In the app no slot is being opened, and its settings are those of the     *)
(* vault that is held.                                                       *)
LEMMA SettingsKeep ==
    ASSUME App!AppInv, App!AppLockOn \/ App!AppLockOff \/ App!Protect PROVE App!AppInv'
  <1> USE DEF App!AppInv
  <1>1. aStatus = "unlocked" /\ aVault.at = "ready" /\ aVault.of # Null /\ opening = Null
    BY DEF App!AppLockOn, App!AppLockOff, App!Protect, App!Screen, App!GateOK,
           App!Vaults, App!OpensOwnSlot
  <1>2. UNCHANGED <<cookie, seen, loads, aStatus, keys, opening, moved, mixed>>
    BY DEF App!AppLockOn, App!AppLockOff, App!Protect
  <1>3. /\ aVault' \in App!Vaults
        /\ aVault'.at = aVault.at /\ aVault'.of = aVault.of
    BY DEF App!AppLockOn, App!AppLockOff, App!Protect, App!GateOK, App!Vaults, App!Loads
  <1>4. device'.at = "slot" => device'.of = aVault.of
    BY <1>1 DEF App!AppLockOn, App!AppLockOff, App!Protect, App!SlotOfVault, App!Just,
                App!Slot
  <1> QED BY <1>1, <1>2, <1>3, <1>4
      DEF App!GateOK, App!Vaults, App!Loads, App!OneLiveLoad, App!OpensOwnSlot,
          App!KeysOfVault, App!SlotOfVault, App!VaultOfShown, App!Nobody

LEMMA AppStep == App!AppInv /\ [App!Next]_App!vars => App!AppInv'
  <1> SUFFICES ASSUME App!AppInv, [App!Next]_App!vars PROVE App!AppInv'
    OBVIOUS
  <1>1. CASE (\E u \in Users \cup {Null} : App!SignedInAs(u)) \/ App!Focus \/ UNCHANGED App!vars
    <2>1. /\ cookie' \in App!Nobody /\ seen'.user = seen.user
          /\ seen' \in [pending : BOOLEAN, user : App!Nobody]
      BY <1>1 DEF App!SignedInAs, App!Focus, App!vars, App!AppInv, App!GateOK, App!Vaults,
                  App!Loads, App!Nobody
    <2>2. UNCHANGED <<loads, aVault, device, aStatus, keys, opening, moved, mixed>>
      BY <1>1 DEF App!SignedInAs, App!Focus, App!vars
    <2> QED BY <2>1, <2>2
      DEF App!AppInv, App!GateOK, App!Vaults, App!Loads, App!OneLiveLoad, App!OpensOwnSlot,
          App!KeysOfVault, App!SlotOfVault, App!VaultOfShown, App!Nobody
  <1>2. CASE App!SessionAnswer
    BY <1>2, SessionAnswerKeeps
  <1>3. CASE App!LoadEnds
    BY <1>3, LoadAnswerKeeps, LoadFailsKeeps DEF App!LoadEnds
  <1>4. CASE App!TryAgain
    BY <1>4, TryAgainKeeps
  <1>5. CASE App!FirstRunDone
    BY <1>5, FirstRunKeeps
  <1>6. CASE \/ App!OpenSlot \/ App!SlotOpens \/ App!Submit
             \/ App!UnlockEnds \/ App!CloseOffer \/ App!Lock
    BY <1>6, SessionKeeps
  <1>7. CASE App!AppLockOn \/ App!AppLockOff \/ App!Protect
    BY <1>7, SettingsKeep
  <1> QED BY <1>1, <1>2, <1>3, <1>4, <1>5, <1>6, <1>7 DEF App!Next

LEMMA AppInvShows == App!AppInv => App!EachTheirOwn
  <1> SUFFICES ASSUME App!AppInv PROVE App!EachTheirOwn
    OBVIOUS
  <1>1. App!OwnVault
    BY DEF App!AppInv, App!OwnVault, App!SlotOfVault, App!VaultOfShown
  <1>2. App!Screen \in {"offer", "app"} => aVault.at = "ready" /\ aStatus = "unlocked"
    BY DEF App!Screen, App!AppInv, App!GateOK, App!Vaults, App!Loads
  <1> QED BY <1>1, <1>2 DEF App!EachTheirOwn, App!AppHasOwnKeys, App!AppInv, App!KeysOfVault

(* Whatever loads, slots and answers overtake each other while accounts      *)
(* change in another tab, the gate opens the slot of the vault it holds, the *)
(* vault is of the account it shows, and the app runs on that vault's keys.  *)
THEOREM EachTheirOwnHolds == App!Spec => []EachTheirOwn
  <1>1. App!Spec => []App!AppInv
    BY AppInit, AppStep, PTL DEF App!Spec
  <1> QED BY <1>1, AppInvShows, PTL DEF EachTheirOwn

------------------------------------------------------------------------------
(* UnlockScreen: what a device could not save yet, and what it goes by.      *)
LEMMA ScreenInit == Screen!NullIsApart /\ Screen!Init => Screen!ScreenInv
  <1> SUFFICES ASSUME Screen!NullIsApart, Screen!Init PROVE Screen!ScreenInv
    OBVIOUS
  <1>1. uServer \in Screen!Vaults /\ uVault \in Screen!Vaults
    BY DEF Screen!Init, Screen!Vaults
  <1>2. Screen!OneAtATime /\ Screen!WaitsToBeSaved
    BY DEF Screen!Init, Screen!OneAtATime, Screen!WaitsToBeSaved, Screen!NullIsApart
  <1>3. Screen!OpensWhatIsStored
    BY DEF Screen!Init, Screen!OpensWhatIsStored, Screen!EnrolledIsStored,
           Screen!RestoredIsStored, Screen!NullIsApart
  <1> QED BY <1>1, <1>2, <1>3 DEF Screen!ScreenInv

(* Ceremonies and secrets, and what the member chooses on the screen.        *)
LEMMA WaysKeep ==
    ASSUME Screen!ScreenInv,
           \/ Screen!Available \/ Screen!AskPasskey \/ Screen!NoPrf \/ Screen!CeremonyFails \/ Screen!GotPrf \/ Screen!UsePassphrase
           \/ Screen!Submit \/ Screen!Opened \/ Screen!WrongSecret \/ Screen!Lock \/ Screen!OpenForm \/ Screen!TypeKit
    PROVE  Screen!ScreenInv'
  <1> USE DEF Screen!ScreenInv, Screen!OneAtATime, Screen!WaitsToBeSaved,
              Screen!OpensWhatIsStored, Screen!EnrolledIsStored, Screen!RestoredIsStored
  <1>1. CASE Screen!Available \/ Screen!AskPasskey \/ Screen!UsePassphrase \/ Screen!OpenForm \/ Screen!TypeKit \/ Screen!Submit
    BY <1>1 DEF Screen!Available, Screen!AskPasskey, Screen!UsePassphrase, Screen!OpenForm,
                Screen!TypeKit, Screen!Submit, Screen!Shown, Screen!Busy
  <1>2. CASE Screen!NoPrf
    BY <1>2 DEF Screen!NoPrf
  <1>3. CASE Screen!CeremonyFails
    BY <1>3 DEF Screen!CeremonyFails, Screen!Count
  <1>4. CASE Screen!GotPrf
    BY <1>4 DEF Screen!GotPrf
  <1>5. CASE Screen!Opened \/ Screen!WrongSecret
    BY <1>5 DEF Screen!Opened, Screen!WrongSecret, Screen!Eligible, Screen!Count,
                Screen!screen
  <1>6. CASE Screen!Lock
    BY <1>6 DEF Screen!Lock, Screen!Count
  <1> QED BY <1>1, <1>2, <1>3, <1>4, <1>5, <1>6

LEMMA WithPasskey ==
    ASSUME NEW v \in Screen!Vaults
    PROVE  [v EXCEPT !.passkey = TRUE] \in Screen!Vaults /\ [v EXCEPT !.passkey = TRUE].passkey
  BY DEF Screen!Vaults

LEMMA RestoredIs ==
    ASSUME Screen!ScreenInv
    PROVE  Screen!Restored \in Screen!Vaults /\ Screen!Restored.passkey = uVault.passkey
  <1>1. uServer.pass + 1 \in Nat
    BY DEF Screen!ScreenInv, Screen!Vaults
  <1> QED BY <1>1 DEF Screen!ScreenInv, Screen!Restored, Screen!Vaults

(* The kit.                                                                  *)
LEMMA KitKeeps ==
    ASSUME Screen!ScreenInv, Screen!CloseForm \/ Screen!ChoosePassphrase \/ Screen!Saved \/ Screen!SaveFails
    PROVE  Screen!ScreenInv'
  <1> USE DEF Screen!ScreenInv, Screen!OneAtATime, Screen!WaitsToBeSaved,
              Screen!OpensWhatIsStored, Screen!EnrolledIsStored, Screen!RestoredIsStored
  <1>1. CASE Screen!CloseForm
    BY <1>1 DEF Screen!CloseForm, Screen!Shown
  <1>2. CASE Screen!ChoosePassphrase
    BY <1>2, RestoredIs DEF Screen!ChoosePassphrase
  <1>3. CASE Screen!Saved
    BY <1>3 DEF Screen!Saved
  <1>4. CASE Screen!SaveFails
    BY <1>4 DEF Screen!SaveFails
  <1> QED BY <1>1, <1>2, <1>3, <1>4

(* The offer.                                                                *)
LEMMA OfferKeeps ==
    ASSUME Screen!ScreenInv,
           \/ Screen!OfferShown \/ Screen!NotNow \/ Screen!SetUp \/ Screen!Enrolled \/ Screen!EnrolFails \/ Screen!OfferSaved \/ Screen!OfferSaveFails
    PROVE  Screen!ScreenInv'
  <1> USE DEF Screen!ScreenInv, Screen!OneAtATime, Screen!WaitsToBeSaved,
              Screen!OpensWhatIsStored, Screen!EnrolledIsStored, Screen!RestoredIsStored,
              Screen!screen
  <1>1. CASE Screen!OfferShown
    BY <1>1 DEF Screen!OfferShown
  <1>2. CASE Screen!NotNow
    BY <1>2 DEF Screen!NotNow
  <1>3. CASE Screen!SetUp
    BY <1>3 DEF Screen!SetUp
  <1>4. CASE Screen!EnrolFails
    BY <1>4 DEF Screen!EnrolFails
  <1>5. CASE Screen!Enrolled
    BY <1>5, WithPasskey DEF Screen!Enrolled
  <1>6. CASE Screen!OfferSaved
    BY <1>6 DEF Screen!OfferSaved
  <1>7. CASE Screen!OfferSaveFails
    BY <1>7 DEF Screen!OfferSaveFails
  <1> QED BY <1>1, <1>2, <1>3, <1>4, <1>5, <1>6, <1>7

LEMMA ScreenNext == Screen!ScreenInv /\ [Screen!Next]_Screen!vars => Screen!ScreenInv'
  <1> SUFFICES ASSUME Screen!ScreenInv, [Screen!Next]_Screen!vars PROVE Screen!ScreenInv'
    OBVIOUS
  <1>1. CASE UNCHANGED Screen!vars
    BY <1>1 DEF Screen!vars, Screen!ScreenInv, Screen!OneAtATime, Screen!WaitsToBeSaved,
                Screen!OpensWhatIsStored, Screen!EnrolledIsStored, Screen!RestoredIsStored
  <1> QED BY <1>1, WaysKeep, KitKeeps, OfferKeeps
     DEF Screen!Next, Screen!Answers, Screen!Choices

LEMMA AnsweredOnce == Screen!ScreenInv /\ [Screen!Next]_Screen!vars => (fast # Null => uOffer' \in {"closed", uOffer})
  BY DEF Screen!ScreenInv, Screen!OneAtATime, Screen!Next, Screen!Answers, Screen!Choices,
         Screen!vars, Screen!screen, Screen!Available, Screen!AskPasskey,
         Screen!UsePassphrase, Screen!OpenForm, Screen!TypeKit, Screen!Submit,
         Screen!NoPrf, Screen!CeremonyFails, Screen!GotPrf, Screen!Opened,
         Screen!WrongSecret, Screen!Eligible, Screen!Lock, Screen!CloseForm,
         Screen!ChoosePassphrase, Screen!Saved, Screen!SaveFails, Screen!OfferShown,
         Screen!NotNow, Screen!SetUp, Screen!Enrolled, Screen!EnrolFails,
         Screen!OfferSaved, Screen!OfferSaveFails

(* enrol-offer.tsx, restore-with-kit.tsx: whatever uploads fail or lose their*)
(* answer, and whenever the session locks, a device only remembers a passkey *)
(* that the server stores, a restore only opens on what the server stores,   *)
(* and an answer to the offer is not asked for again.                        *)
THEOREM OpensWhatIsStoredHolds ==
    ASSUME Screen!NullIsApart
    PROVE  Screen!Spec => OpensWhatIsStored
  <1>1. Screen!ScreenInv => Screen!OpensWhatIsStored
    BY DEF Screen!ScreenInv
  <1>2. Screen!ScreenInv /\ [Screen!Next]_Screen!vars =>
            [fast # Null => uOffer' \in {"closed", uOffer}]_mcVars
    BY AnsweredOnce
  <1> QED BY <1>1, <1>2, ScreenInit, ScreenNext, PTL DEF Screen!Spec, OpensWhatIsStored

------------------------------------------------------------------------------
(* HouseholdGate: the device of a member of one of these households.         *)
LEMMA GateInits == GateConstants /\ Gate!GateInit => Gate!GateInv
  <1> SUFFICES ASSUME GateConstants, Gate!GateInit PROVE Gate!GateInv
    OBVIOUS
  <1>1. Gate!WrapsWithin
    <2>1. Gate!Out \in Gate!Standings /\ Gate!Out.at = "out"
      BY DEF Gate!Out, Gate!Standings
    <2>2. /\ standing \in [Households -> [People -> Gate!Standings]]
          /\ \A h \in Households, p \in People : standing[h][p] = Gate!Out
      BY <2>1 DEF Gate!GateInit, Gate!Init
    <2> QED BY <2>1, <2>2 DEF Gate!WrapsWithin
  <1> QED BY <1>1 DEF Gate!GateInit, Gate!GateInv, Gate!RunHolds, Gate!PhaseHolds,
                      Gate!KeyByRight, GateConstants, Gate!NullIsApart

(* Whoever is in stays in, by the wrap they were let in with.                *)
LEMMA MembersStay ==
    ASSUME Gate!WrapsWithin, Gate!Next
    PROVE  /\ Gate!WrapsWithin'
           /\ \A h \in Households : Gate!Members(h) \subseteq Gate!Members(h)'
           /\ \A h \in Households, p \in People :
                  standing[h][p].at = "in" => standing'[h][p] = standing[h][p]
  <1>1. ASSUME NEW h \in Households, NEW p \in People, NEW x \in Gate!Standings,
               standing' = [standing EXCEPT ![h][p] = x],
               standing[h][p].at # "in", x.at = "in" => x.by \in Gate!Members(h) \cup {p}
        PROVE  /\ Gate!WrapsWithin'
               /\ \A g \in Households : Gate!Members(g) \subseteq Gate!Members(g)'
               /\ \A g \in Households, q \in People :
                      standing[g][q].at = "in" => standing'[g][q] = standing[g][q]
    <2>1. \A g \in Households, q \in People :
              standing'[g][q] = IF g = h /\ q = p THEN x ELSE standing[g][q]
      BY <1>1 DEF Gate!WrapsWithin
    <2>2. standing' \in [Households -> [People -> Gate!Standings]]
      BY <1>1 DEF Gate!WrapsWithin
    <2>3. \A g \in Households : Gate!Members(g) \subseteq Gate!Members(g)'
      BY <1>1, <2>1 DEF Gate!Members
    <2>4. x.at = "in" => p \in Gate!Members(h)'
      BY <2>1 DEF Gate!Members
    <2>5. \A g \in Households, q \in People :
              standing'[g][q].at = "in" => standing'[g][q].by \in Gate!Members(g)'
      BY <1>1, <2>1, <2>3, <2>4 DEF Gate!WrapsWithin
    <2> QED BY <1>1, <2>1, <2>2, <2>3, <2>5 DEF Gate!WrapsWithin
  <1>2. CASE Gate!End
    <2>1. PICK gone \in SUBSET (Households \X People) :
              standing' = [h \in Households |-> [p \in People |->
                  IF <<h, p>> \in gone /\ standing[h][p] = Gate!Invited THEN Gate!Out
                  ELSE standing[h][p]]]
      BY <1>2 DEF Gate!End
    <2>2. \A h \in Households, p \in People :
              \/ standing'[h][p] = standing[h][p]
              \/ standing[h][p] = Gate!Invited /\ standing'[h][p] = Gate!Out
      BY <2>1
    <2>3. /\ Gate!Invited.at = "invited" /\ Gate!Out.at = "out" /\ Gate!Out \in Gate!Standings
      BY DEF Gate!Invited, Gate!Out, Gate!Standings
    <2>4. \A h \in Households, p \in People :
              (standing'[h][p].at = "in" <=> standing[h][p].at = "in")
                  /\ (standing[h][p].at = "in" => standing'[h][p] = standing[h][p])
      BY <2>2, <2>3
    <2>5. \A h \in Households : Gate!Members(h)' = Gate!Members(h)
      BY <2>4 DEF Gate!Members
    <2>6. standing' \in [Households -> [People -> Gate!Standings]]
      <3>1. \A h \in Households, p \in People : standing'[h][p] \in Gate!Standings
        BY <2>2, <2>3 DEF Gate!WrapsWithin
      <3> QED BY <2>1, <3>1
    <2> QED BY <2>4, <2>5, <2>6 DEF Gate!WrapsWithin
  <1>3. ASSUME NEW h \in Households, NEW p \in People, Gate!Create(h, p) \/ Gate!Add(h, p)
        PROVE  \E x \in Gate!Standings :
                   /\ standing' = [standing EXCEPT ![h][p] = x]
                   /\ standing[h][p].at # "in"
                   /\ x.at = "in" => x.by \in Gate!Members(h) \cup {p}
    <2>1. \A maker \in People : Gate!In(maker) \in Gate!Standings /\ Gate!In(maker).by = maker
      BY DEF Gate!In, Gate!Standings
    <2>2. Gate!Members(h) \subseteq People /\ (standing[h][p].at = "in" => p \in Gate!Members(h))
      BY DEF Gate!Members
    <2>3. CASE Gate!Create(h, p)
      BY <2>1, <2>2, <2>3 DEF Gate!Create
    <2>4. CASE Gate!Add(h, p)
      <3>1. PICK maker \in Gate!Members(h) : standing' = [standing EXCEPT ![h][p] = Gate!In(maker)]
        BY <2>4 DEF Gate!Add
      <3>2. Gate!In(maker) \in Gate!Standings /\ Gate!In(maker).by = maker
        BY <2>1, <2>2
      <3>3. standing[h][p].at # "in"
        BY <2>4 DEF Gate!Add, Gate!Members
      <3> QED BY <3>1, <3>2, <3>3
    <2> QED BY <1>3, <2>3, <2>4
  <1>4. ASSUME NEW h \in Households, NEW p \in People, Gate!Invite(h, p)
        PROVE  \E x \in Gate!Standings :
                   /\ standing' = [standing EXCEPT ![h][p] = x]
                   /\ standing[h][p].at # "in"
                   /\ x.at = "in" => x.by \in Gate!Members(h) \cup {p}
    <2>1. /\ Gate!Invited \in Gate!Standings /\ Gate!Invited.at = "invited" /\ Gate!Out.at = "out"
      BY DEF Gate!Invited, Gate!Out, Gate!Standings
    <2>2. standing' = [standing EXCEPT ![h][p] = Gate!Invited] /\ standing[h][p].at # "in"
      BY <1>4, <2>1 DEF Gate!Invite
    <2> QED BY <2>1, <2>2
  <1> QED BY <1>1, <1>2, <1>3, <1>4 DEF Gate!Next

LEMMA ServerKeepsGate == GateConstants /\ Gate!GateInv /\ Gate!Server => Gate!GateInv'
  <1> SUFFICES ASSUME GateConstants, Gate!GateInv, Gate!Server PROVE Gate!GateInv'
    OBVIOUS
  <1>1. /\ Gate!WrapsWithin'
        /\ Gate!Members(H) \subseteq Gate!Members(H)'
        /\ standing[H][Me].at = "in" => standing'[H][Me].at = "in"
    BY MembersStay DEF Gate!GateInv, Gate!Server, GateConstants
  <1> QED BY <1>1 DEF Gate!GateInv, Gate!Server, Gate!RunHolds, Gate!PhaseHolds,
                      Gate!KeyByRight

LEMMA SessionKeepsGate ==
    ASSUME GateConstants, Gate!GateInv, Gate!Unlock \/ Gate!Lock \/ Gate!Mount \/ Gate!Unmount
    PROVE  Gate!GateInv'
  <1> USE DEF Gate!GateInv, Gate!RunHolds, Gate!PhaseHolds, Gate!KeyByRight,
              Gate!WrapsWithin, Gate!Members, GateConstants, Gate!NullIsApart
  <1>1. CASE Gate!Unlock
    BY <1>1 DEF Gate!Unlock
  <1>2. CASE Gate!Lock
    BY <1>2 DEF Gate!Lock
  <1>3. CASE Gate!Mount
    BY <1>3 DEF Gate!Mount
  <1>4. CASE Gate!Unmount
    BY <1>4 DEF Gate!Unmount
  <1> QED BY <1>1, <1>2, <1>3, <1>4

LEMMA AnswersKeepGate ==
    ASSUME GateConstants, Gate!GateInv, Gate!Resolve \/ Gate!Failed
    PROVE  Gate!GateInv'
  <1> USE DEF Gate!GateInv, Gate!RunHolds, Gate!PhaseHolds, Gate!KeyByRight,
              Gate!WrapsWithin, Gate!Members, GateConstants, Gate!NullIsApart
  <1>1. CASE Gate!AnswerHouseholds
    BY <1>1 DEF Gate!AnswerHouseholds
  <1>2. CASE Gate!Unwrapped
    BY <1>2 DEF Gate!Unwrapped, Gate!Sender, Gate!Accepted, Gate!SetKey
  <1>3. CASE Gate!Poll
    BY <1>3 DEF Gate!Poll
  <1>4. CASE Gate!Failed
    BY <1>4 DEF Gate!Failed
  <1> QED BY <1>1, <1>2, <1>3, <1>4 DEF Gate!Resolve

LEMMA ConfirmKeepsGate ==
    ASSUME GateConstants, Gate!GateInv, Gate!Confirm \/ Gate!Reject
    PROVE  Gate!GateInv'
  <1> USE DEF Gate!GateInv, Gate!RunHolds, Gate!PhaseHolds, Gate!KeyByRight,
              Gate!WrapsWithin, Gate!Members, GateConstants, Gate!NullIsApart
  <1>1. CASE Gate!Confirm
    BY <1>1 DEF Gate!Confirm, Gate!SetKey
  <1>2. CASE Gate!Reject
    BY <1>2 DEF Gate!Reject
  <1> QED BY <1>1, <1>2

LEMMA GateStep == GateConstants /\ Gate!GateInv /\ [Gate!GateNext]_Gate!vars => Gate!GateInv'
  <1>1. CASE UNCHANGED Gate!vars
    BY <1>1 DEF Gate!vars, Gate!GateInv, Gate!RunHolds, Gate!PhaseHolds, Gate!KeyByRight,
                Gate!WrapsWithin, Gate!Members
  <1> QED BY <1>1, ServerKeepsGate, SessionKeepsGate, AnswersKeepGate, ConfirmKeepsGate
          DEF Gate!GateNext

LEMMA ReadyHasItsKey == Gate!GateInv => Gate!KeyByRight /\ Gate!ReadyHasKey
  BY DEF Gate!GateInv, Gate!PhaseHolds, Gate!ReadyHasKey

LEMMA OnlyConfirmTrusts ==
    [Gate!GateNext]_Gate!vars =>
        [\A p \in trust' \ trust : gate = "confirm" /\ p = pending /\ p \in yes']_Gate!vars
  BY DEF Gate!GateNext, Gate!vars, Gate!Server, Gate!Unlock, Gate!Lock, Gate!Mount,
         Gate!Unmount, Gate!Resolve, Gate!AnswerHouseholds, Gate!Unwrapped, Gate!Poll,
         Gate!Failed, Gate!Confirm, Gate!Reject

(* However locks, answers, the timer and the server's steps fall between a   *)
(* gate's steps, a key is in the session only if its wrap was made by the    *)
(* member or by somebody confirmed and not rejected, the app is never shown  *)
(* without it, and a device trusts only who was confirmed on it.             *)
THEOREM GateHoldsAlways ==
    ASSUME GateConstants
    PROVE  Gate!GateSpec => GateHolds
  BY GateInits, GateStep, ReadyHasItsKey, OnlyConfirmTrusts, PTL
     DEF Gate!GateSpec, GateHolds, Gate!GateHolds, Gate!TrustIsConfirmed
==============================================================================
