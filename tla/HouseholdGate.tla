---------------------------- MODULE HouseholdGate ----------------------------
(* The gate between unlocking and the app on one member's device: which      *)
(* household key goes into the session, and when.                            *)
(* Sources: src/features/household/household-gate.tsx, household-client.ts,  *)
(* src/crypto/household.ts, the server's answers in src/server/members.ts    *)
(* and households.ts, and setHouseholdKey of src/features/lock/              *)
(* key-session.ts. What the server keeps is the abstract Standing.           *)
(*                                                                           *)
(* An effect runs for the identity it found; the session may be locked while *)
(* it waits, and the gate is taken down only when React renders again.       *)
EXTENDS Standing, Naturals

CONSTANTS
    Me,         \* the member whose device this is
    H,          \* the household
    MaxUnlocks, \* bound: times the session is unlocked
    MaxFaults,  \* bound: requests that fail
    Null

VARIABLES
    unlocks,    \* unlocks so far: each one gives a session of its own
    unlocked,
    key,        \* the household key in the session: the sender of its wrap
    gate,       \* the mounted gate's phase, or Null
    run,        \* where the effect's run is, or Null
    pending,    \* the key that waits for a confirmation: its sender, or Null
    trust,      \* nwt.trusted-senders: whoever was confirmed last, if anybody
    storage,    \* whether localStorage works
    yes,        \* history: senders confirmed since the unlock
    no,         \* history: senders rejected since the unlock
    faults

vars == <<standing, unlocks, unlocked, key, gate, run, pending, trust, storage, yes, no, faults>>

GateInit ==
    /\ Init
    /\ unlocks = 0
    /\ unlocked = FALSE
    /\ key = Null
    /\ gate = Null
    /\ run = Null
    /\ pending = Null
    /\ trust = {}
    /\ storage \in BOOLEAN
    /\ yes = {}
    /\ no = {}
    /\ faults = 0

Server ==
    /\ Next
    /\ standing' # standing
    /\ UNCHANGED <<unlocks, unlocked, key, gate, run, pending, trust, storage, yes, no, faults>>

------------------------------------------------------------------------------
(* The session. Deriving a key takes longer than rendering.                  *)
Unlock ==
    /\ ~unlocked
    /\ gate = Null
    /\ unlocks < MaxUnlocks
    /\ unlocks' = unlocks + 1
    /\ unlocked' = TRUE
    /\ yes' = {}
    /\ no' = {}
    /\ UNCHANGED <<standing, key, gate, run, pending, trust, storage, faults>>

Lock ==
    /\ unlocked
    /\ unlocked' = FALSE
    /\ key' = Null
    /\ UNCHANGED <<standing, unlocks, gate, run, pending, trust, storage, yes, no, faults>>

(* The first render after an unlock mounts the gate and starts its effect.   *)
Mount ==
    /\ unlocked
    /\ gate = Null
    /\ IF key # Null THEN gate' = "ready" /\ UNCHANGED run
       ELSE gate' = "loading" /\ run' = "households"
    /\ UNCHANGED <<standing, unlocks, unlocked, key, pending, trust, storage, yes, no, faults>>

(* live = false: whatever the run awaits, it does nothing after it.          *)
Unmount ==
    /\ ~unlocked
    /\ gate # Null
    /\ gate' = Null
    /\ run' = Null
    /\ pending' = Null
    /\ UNCHANGED <<standing, unlocks, unlocked, key, trust, storage, yes, no, faults>>

------------------------------------------------------------------------------
(* resolveHousehold.                                                         *)
AnswerHouseholdsOnce ==
    /\ run = "households"
    /\ CASE standing[H][Me].at = "in"      -> run' = "wrap" /\ UNCHANGED gate
         [] standing[H][Me].at = "invited" -> run' = Null /\ gate' = "waiting"
         [] OTHER                          -> run' = Null /\ gate' = "none"
    /\ UNCHANGED <<standing, unlocks, unlocked, key, pending, trust, storage, yes, no, faults>>

AnswerHouseholds ==
    /\ run = "households"
    /\ CASE standing[H][Me].at = "in"      -> run' = "wrap" /\ UNCHANGED gate
         [] standing[H][Me].at = "invited" -> run' = "timer" /\ gate' = "waiting"
         [] OTHER                          -> run' = Null /\ gate' = "none"
    /\ UNCHANGED <<standing, unlocks, unlocked, key, pending, trust, storage, yes, no, faults>>

Sender == standing[H][Me].by

Accepted(by) == by = Me \/ by \in trust

SetKeyAnyway(by) == key' = by /\ gate' = "ready"

(* setHouseholdKey refuses while locked; the run then ends in an error.      *)
SetKey(by) ==
    IF unlocked THEN key' = by /\ gate' = "ready" ELSE gate' = "error" /\ UNCHANGED key

UnwrappedTrusting ==
    /\ run = "wrap"
    /\ run' = Null
    /\ SetKey(Sender)
    /\ trust' = {Sender}
    /\ UNCHANGED <<standing, unlocks, unlocked, pending, storage, yes, no, faults>>

(* A wrap somebody else made waits for the comparison of codes.              *)
Unwrapped ==
    /\ run = "wrap"
    /\ run' = Null
    /\ IF Accepted(Sender)
       THEN /\ SetKey(Sender)
            /\ UNCHANGED pending
       ELSE /\ pending' = Sender
            /\ gate' = "confirm"
            /\ UNCHANGED key
    /\ UNCHANGED <<standing, unlocks, unlocked, trust, storage, yes, no, faults>>

(* Offline, or a wrap that is not addressed to this identity.                *)
Failed ==
    /\ run \in {"households", "wrap"}
    /\ faults < MaxFaults
    /\ faults' = faults + 1
    /\ run' = Null
    /\ gate' = "error"
    /\ UNCHANGED <<standing, unlocks, unlocked, key, pending, trust, storage, yes, no>>

Poll ==
    /\ run = "timer"
    /\ run' = "households"
    /\ UNCHANGED <<standing, unlocks, unlocked, key, gate, pending, trust, storage, yes, no, faults>>

ConfirmEarly ==
    /\ gate = "confirm"
    /\ unlocked
    /\ trust' = {pending}
    /\ yes' = yes \cup {pending}
    /\ gate' = "ready"
    /\ UNCHANGED <<standing, unlocks, unlocked, key, run, pending, storage, no, faults>>

(* "Yes — open household". Storage may be off: then it is asked again.       *)
Confirm ==
    /\ gate = "confirm"
    /\ unlocked
    /\ trust' = IF storage THEN {pending} ELSE trust
    /\ yes' = yes \cup {pending}
    /\ pending' = Null
    /\ SetKey(pending)
    /\ UNCHANGED <<standing, unlocks, unlocked, run, storage, no, faults>>

Reject ==
    /\ gate = "confirm"
    /\ unlocked
    /\ no' = no \cup {pending}
    /\ pending' = Null
    /\ gate' = "stopped"
    /\ UNCHANGED <<standing, unlocks, unlocked, key, run, trust, storage, yes, faults>>

Resolve == AnswerHouseholds \/ Unwrapped \/ Poll

GateNext ==
    \/ Server
    \/ Unlock
    \/ Lock
    \/ Mount
    \/ Unmount
    \/ Resolve
    \/ Failed
    \/ Confirm
    \/ Reject

(* React renders, requests end, and the timer fires.                         *)
GateFairness == WF_vars(Mount) /\ WF_vars(Unmount) /\ WF_vars(Resolve)

GateSpec == GateInit /\ [][GateNext]_vars /\ GateFairness
------------------------------------------------------------------------------
(* A household key is in the session only while it is unlocked, and only one *)
(* whose wrap the member made, or a member whose code was confirmed: in this *)
(* session or, as the device remembers, in an earlier one; never one whose   *)
(* code was rejected in this session.                                        *)
KeyByRight ==
    key # Null =>
        /\ unlocked
        /\ key \in Members(H)
        /\ key = Me \/ key \in yes \cup trust
        /\ key \notin no

(* household-gate.tsx:31: nothing reaches the app until the key is in the    *)
(* session, whatever is locked, confirmed or answered meanwhile.             *)
ReadyHasKey == gate = "ready" /\ unlocked => key # Null

(* household-client.ts:60: the device trusts only who was confirmed on it.   *)
TrustIsConfirmed == [][\A p \in trust' \ trust : gate = "confirm" /\ p = pending /\ p \in yes']_vars

(* The app opens with a key of the household, given by the member or by      *)
(* somebody confirmed, and only who is confirmed becomes trusted.            *)
GateHolds == [](KeyByRight /\ ReadyHasKey) /\ TrustIsConfirmed

(* Whoever waits at the gate while they are let in comes to see it, unless   *)
(* they lock or a request fails.                                             *)
LetIn ==
    (gate = "waiting" /\ standing[H][Me].at = "in")
        ~> (gate \in {"ready", "confirm"} \/ ~unlocked \/ gate = "error")

------------------------------------------------------------------------------
(* Why the key is there by right after every step.                           *)

NullIsApart ==
    Null \notin People \cup {"households", "wrap", "timer"}
             \cup {"loading", "waiting", "none", "error", "confirm", "ready", "stopped"}

(* Nobody who is in is ever put out, and every wrap's maker is in.           *)
WrapsWithin ==
    /\ standing \in [Households -> [People -> Standings]]
    /\ \A h \in Households, p \in People :
           standing[h][p].at = "in" => standing[h][p].by \in Members(h)

(* A run belongs to a gate that still waits for a key, and one that has the  *)
(* wrap has it because the member is in.                                     *)
RunHolds ==
    /\ run # Null => gate \in {"loading", "waiting"}
    /\ run = "wrap" => standing[H][Me].at = "in"

(* The gate has a phase while its session is unlocked and no key otherwise;  *)
(* after a rejection it stays stopped until the next unlock.                 *)
PhaseHolds ==
    /\ key # Null => gate = "ready" /\ unlocked
    /\ gate = "ready" /\ unlocked => key # Null
    /\ gate = "confirm" => pending \in Members(H)
    /\ no # {} => gate = "stopped" \/ ~unlocked

GateInv == WrapsWithin /\ RunHolds /\ PhaseHolds /\ KeyByRight
==============================================================================
