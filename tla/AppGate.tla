------------------------------- MODULE AppGate -------------------------------
(* Where one tab takes a person: sign-in, loading, first run, the device     *)
(* slot that opens by itself, the unlock screen, the passkey offer, the app. *)
(* Sources: src/features/auth/app-gate.tsx, with what it calls:              *)
(* src/features/lock/device-store.ts, fetchVault and FirstRun of             *)
(* src/features/onboarding/first-run.tsx, openDeviceSlot of                  *)
(* src/crypto/vault-device.ts and the key session.                           *)
(*                                                                           *)
(* The cookie is the browser's: another tab may sign in as somebody else,    *)
(* and this one learns of it when it asks for the session again. Loads and   *)
(* openings of an earlier render end late; they are told apart by `live`.    *)
EXTENDS Naturals

CONSTANTS
    Users,
    Null,
    MaxSwitches,  \* bound: times the cookie changes
    MaxFaults     \* bound: loads that fail, slots that do not open, wrong secrets

VARIABLES
    cookie,    \* whose session the browser's cookie is, or Null
    seen,      \* useSession: whether it is asking, and who it found
    settled,   \* whether the first answer has come
    server,    \* the vault of each account: "none", "bare" or "protected"
    slots,     \* the device slot of each account in this browser: whose key it is
    vault,     \* the gate's vault: loading, error, or ready with its owner
    device,    \* the gate's device slot: loading, none, or whose it is
    loads,     \* loads under way
    status,    \* the key session's status
    keys,      \* whose identity the session holds or is opening, or Null
    opening,   \* the slot that is being opened, if its effect is live
    offer,     \* offerOpen
    enrol,     \* canEnrolPasskey
    moved,     \* history: the account changed since these keys were asked for
    mixed,     \* history: a load went out under another account's cookie
    switches,
    faults

vars == <<cookie, seen, settled, server, slots, vault, device, loads, status, keys,
          opening, offer, enrol, moved, mixed, switches, faults>>

Nobody     == Users \cup {Null}
Ready(of)  == [at |-> "ready", of |-> of, safe |-> of # Null /\ server[of] = "protected"]
Slot(of)   == [at |-> "slot", of |-> of]
Just(what) == [at |-> what, of |-> Null, safe |-> FALSE]

Init ==
    /\ cookie \in Nobody
    /\ seen = [pending |-> TRUE, user |-> Null]
    /\ settled = FALSE
    /\ server \in [Users -> {"none", "bare", "protected"}]
    /\ slots \in {f \in [Users -> Nobody] : \A u \in Users : f[u] \in {u, Null}}
    /\ vault = Just("loading")
    /\ device = Just("loading")
    /\ loads = {}
    /\ status = "locked"
    /\ keys = Null
    /\ opening = Null
    /\ offer = TRUE
    /\ enrol = FALSE
    /\ moved = FALSE
    /\ mixed = FALSE
    /\ switches = 0
    /\ faults = 0

(* The render of app-gate.tsx, in its order.                                 *)
Screen ==
    IF seen.pending /\ ~settled THEN "checking"
    ELSE IF seen.user = Null THEN "sign-in"
    ELSE IF vault.at = "error" THEN "error"
    ELSE IF vault.at = "loading" \/ device.at = "loading" THEN "loading"
    ELSE IF vault.of = Null THEN "first run"
    ELSE IF status = "unlocked" THEN IF offer /\ enrol THEN "offer" ELSE "app"
    ELSE IF device.at = "slot" THEN "opening"
    ELSE IF vault.safe THEN "unlock" ELSE "elsewhere"

------------------------------------------------------------------------------
(* The session of the account.                                               *)
SignedInAs(u) ==
    /\ cookie # u
    /\ switches < MaxSwitches
    /\ switches' = switches + 1
    /\ cookie' = u
    /\ UNCHANGED <<seen, settled, server, slots, vault, device, loads, status, keys,
                   opening, offer, enrol, moved, mixed, faults>>

(* On focus the session is asked for again; signed out, it is pending again. *)
Focus ==
    /\ ~seen.pending
    /\ seen.user = Null
    /\ seen' = [seen EXCEPT !.pending = TRUE]
    /\ UNCHANGED <<cookie, settled, server, slots, vault, device, loads, status, keys,
                   opening, offer, enrol, moved, mixed, switches, faults>>

StartLoadStillOpening(u) ==
    /\ loads' = {[l EXCEPT !.live = FALSE] : l \in loads}
                    \cup {[user |-> u, got |-> cookie, live |-> TRUE]}
    /\ vault' = Just("loading")
    /\ device' = Just("loading")
    /\ UNCHANGED opening

StartLoad(u) ==
    /\ loads' = {[l EXCEPT !.live = FALSE] : l \in loads}
                    \cup {[user |-> u, got |-> cookie, live |-> TRUE]}
    /\ vault' = Just("loading")
    /\ device' = Just("loading")
    /\ opening' = Null

(* A new account loads anew; the load of an earlier one is not live any more.*)
SessionAnswer ==
    /\ seen.pending \/ seen.user # cookie
    /\ seen' = [pending |-> FALSE, user |-> cookie]
    /\ settled' = TRUE
    /\ moved' = (moved \/ cookie # seen.user)
    /\ \/ cookie = seen.user /\ UNCHANGED <<loads, vault, device, opening>>
       \/ /\ cookie = Null /\ seen.user # Null
          /\ loads' = {[l EXCEPT !.live = FALSE] : l \in loads}
          /\ UNCHANGED <<vault, device, opening>>
       \/ cookie \notin {Null, seen.user} /\ StartLoad(cookie)
    /\ UNCHANGED <<cookie, server, slots, status, keys, offer, enrol, mixed, switches, faults>>

------------------------------------------------------------------------------
(* Loading the vault and the slot. The request carries the cookie of its     *)
(* moment, the slot is the account's that asked.                             *)
Loaded(l) == Ready(IF server[l.got] = "none" THEN Null ELSE l.got)

(* A slot counts only if it holds the key of the vault.                      *)
Mine(l) == server[l.got] # "none" /\ slots[l.user] = l.got

Found(l) == IF Mine(l) THEN Slot(slots[l.user]) ELSE Just("none")

LoadAnswerAnyway(l) ==
    /\ l.got # Null
    /\ loads' = loads \ {l}
    /\ vault' = Loaded(l)
    /\ device' = Found(l)
    /\ UNCHANGED <<cookie, seen, settled, server, slots, status, keys, opening, offer,
                   enrol, moved, mixed, switches, faults>>

LoadAnswer(l) ==
    /\ l.got # Null
    /\ loads' = loads \ {l}
    /\ IF l.live
       THEN /\ vault' = Loaded(l)
            /\ device' = Found(l)
       ELSE UNCHANGED <<vault, device>>
    /\ UNCHANGED <<cookie, seen, settled, server, slots, status, keys, opening, offer,
                   enrol, moved, mixed, switches, faults>>

LoadFailsUnseen(l) ==
    /\ faults < MaxFaults
    /\ faults' = faults + 1
    /\ loads' = loads \ {l}
    /\ UNCHANGED <<cookie, seen, settled, server, slots, vault, device, status, keys,
                   opening, offer, enrol, moved, mixed, switches>>

(* Offline, or signed out meanwhile.                                         *)
LoadFails(l) ==
    /\ \/ l.got = Null /\ UNCHANGED faults
       \/ faults < MaxFaults /\ faults' = faults + 1
    /\ loads' = loads \ {l}
    /\ vault' = IF l.live THEN Just("error") ELSE vault
    /\ UNCHANGED <<cookie, seen, settled, server, slots, device, status, keys, opening,
                   offer, enrol, moved, mixed, switches>>

TryAgain ==
    /\ Screen = "error"
    /\ StartLoad(seen.user)
    /\ mixed' = (mixed \/ cookie # seen.user)
    /\ UNCHANGED <<cookie, seen, settled, server, slots, status, keys, offer, enrol,
                   moved, switches, faults>>

------------------------------------------------------------------------------
(* App lock off: an effect opens the slot while the session is locked.       *)
OpenSlot ==
    /\ opening = Null
    /\ status = "locked"
    /\ vault.at = "ready"
    /\ device.at = "slot"
    /\ opening' = device.of
    /\ UNCHANGED <<cookie, seen, settled, server, slots, vault, device, loads, status, keys,
                   offer, enrol, moved, mixed, switches, faults>>

Start(u) ==
    /\ status' = "unlocked"
    /\ keys' = u
    /\ enrol' = FALSE
    /\ moved' = FALSE

SlotOpened ==
    /\ opening # Null
    /\ Start(opening)
    /\ opening' = Null
    /\ UNCHANGED <<cookie, seen, settled, server, slots, vault, device, loads, offer,
                   mixed, switches, faults>>

(* The slot does not open: the unlock screen asks instead.                   *)
SlotFails ==
    /\ opening # Null
    /\ faults < MaxFaults
    /\ faults' = faults + 1
    /\ opening' = Null
    /\ device' = Just("none")
    /\ UNCHANGED <<cookie, seen, settled, server, slots, vault, loads, status, keys, offer,
                   enrol, moved, mixed, switches>>

------------------------------------------------------------------------------
(* First run and the unlock screen, by what they hand up.                    *)
FirstRunDone ==
    /\ Screen = "first run"
    /\ cookie = seen.user
    /\ server[cookie] = "none"
    /\ server' = [server EXCEPT ![cookie] = "bare"]
    /\ slots' = [slots EXCEPT ![cookie] = cookie]
    /\ vault' = [Ready(cookie) EXCEPT !.safe = FALSE]
    /\ device' = Slot(cookie)
    /\ Start(cookie)
    /\ UNCHANGED <<cookie, seen, settled, loads, opening, offer, mixed, switches, faults>>

Submit ==
    /\ Screen = "unlock"
    /\ status # "unlocking"
    /\ status' = "unlocking"
    /\ keys' = vault.of
    /\ enrol' = FALSE
    /\ moved' = FALSE
    /\ UNCHANGED <<cookie, seen, settled, server, slots, vault, device, loads, opening,
                   offer, mixed, switches, faults>>

(* A passphrase also opens the window to add a passkey.                      *)
Unlocked ==
    /\ status = "unlocking"
    /\ status' = "unlocked"
    /\ enrol' \in BOOLEAN
    /\ UNCHANGED <<cookie, seen, settled, server, slots, vault, device, loads, keys, opening,
                   offer, moved, mixed, switches, faults>>

WrongSecret ==
    /\ status = "unlocking"
    /\ faults < MaxFaults
    /\ faults' = faults + 1
    /\ status' = "failed"
    /\ keys' = Null
    /\ UNCHANGED <<cookie, seen, settled, server, slots, vault, device, loads, opening,
                   offer, enrol, moved, mixed, switches>>

CloseOffer ==
    /\ Screen = "offer"
    /\ offer' = FALSE
    /\ enrol' \in {FALSE, enrol}
    /\ UNCHANGED <<cookie, seen, settled, server, slots, vault, device, loads, status, keys,
                   opening, moved, mixed, switches, faults>>

(* The window passed, the tab was hidden for good, or "Lock now".            *)
Lock ==
    /\ status # "locked"
    /\ status' = "locked"
    /\ keys' = Null
    /\ enrol' = FALSE
    /\ offer' = TRUE
    /\ opening' = Null
    /\ UNCHANGED <<cookie, seen, settled, server, slots, vault, device, loads, moved,
                   mixed, switches, faults>>

------------------------------------------------------------------------------
(* The security source: this device's slot and the vault.                    *)
AppLockOn ==
    /\ Screen = "app"
    /\ device.at = "slot"
    /\ slots' = [slots EXCEPT ![seen.user] = Null]
    /\ device' = Just("none")
    /\ UNCHANGED <<cookie, seen, settled, server, vault, loads, status, keys, opening, offer,
                   enrol, moved, mixed, switches, faults>>

AppLockOff ==
    /\ Screen = "app"
    /\ device.at = "none"
    /\ slots' = [slots EXCEPT ![seen.user] = vault.of]
    /\ device' = Slot(vault.of)
    /\ UNCHANGED <<cookie, seen, settled, server, vault, loads, status, keys, opening, offer,
                   enrol, moved, mixed, switches, faults>>

Protect ==
    /\ Screen = "app"
    /\ cookie = vault.of
    /\ ~vault.safe
    /\ server' = [server EXCEPT ![vault.of] = "protected"]
    /\ vault' = [vault EXCEPT !.safe = TRUE]
    /\ UNCHANGED <<cookie, seen, settled, slots, device, loads, status, keys, opening,
                   offer, enrol, moved, mixed, switches, faults>>

SlotOpens  == SlotOpened \/ SlotFails
LoadEnds   == \E l \in loads : LoadAnswer(l) \/ LoadFails(l)
UnlockEnds == Unlocked \/ WrongSecret

Next ==
    \/ \E u \in Users \cup {Null} : SignedInAs(u)
    \/ Focus
    \/ SessionAnswer
    \/ LoadEnds
    \/ TryAgain
    \/ OpenSlot
    \/ SlotOpens
    \/ FirstRunDone
    \/ Submit
    \/ UnlockEnds
    \/ CloseOffer
    \/ Lock
    \/ AppLockOn
    \/ AppLockOff
    \/ Protect

(* Requests, IndexedDB and key derivation end, and effects run after renders.*)
Fairness ==
    /\ WF_vars(seen.pending /\ SessionAnswer)
    /\ WF_vars(LoadEnds)
    /\ WF_vars(OpenSlot)
    /\ WF_vars(SlotOpens)
    /\ WF_vars(UnlockEnds)

Spec == Init /\ [][Next]_vars /\ Fairness
------------------------------------------------------------------------------
(* Whatever loads overtake each other while accounts change, the slot the    *)
(* gate opens is of the vault it holds, and the vault is of the account it   *)
(* shows, unless "Try again" went out under another account's cookie.        *)
OwnVault ==
    vault.at = "ready" /\ vault.of # Null =>
        /\ device.at = "slot" => device.of = vault.of
        /\ seen.user = Null \/ mixed \/ vault.of = seen.user

(* The app is shown with the keys of the vault it works on, unless the       *)
(* account changed after they were asked for: nothing locks the session then.*)
AppHasOwnKeys == Screen \in {"offer", "app"} => keys = vault.of \/ moved

(* While accounts change and loads overtake each other, the gate holds one   *)
(* account's vault, slot and keys, and never mixes two.                      *)
EachTheirOwn == OwnVault /\ AppHasOwnKeys

(* Nobody is left looking at "Loading" or "Opening", unless an account with  *)
(* a slot follows one whose secret was wrong: only "locked" opens a slot.    *)
GetsThere ==
    Screen \in {"checking", "loading", "opening"}
        ~> (Screen \notin {"checking", "loading", "opening"} \/ status = "failed")

------------------------------------------------------------------------------
(* Why nothing of one account meets anything of another.                     *)
Vaults == [at : {"loading", "error", "ready"}, of : Nobody, safe : BOOLEAN]
Loads  == [user : Users, got : Nobody, live : BOOLEAN]

GateOK ==
    /\ cookie \in Nobody
    /\ seen \in [pending : BOOLEAN, user : Nobody]
    /\ vault \in Vaults
    /\ loads \subseteq Loads
    /\ mixed \in BOOLEAN /\ moved \in BOOLEAN

(* The load whose answer will count is the last one, for who is shown.       *)
OneLiveLoad ==
    /\ \A l \in loads : l.live =>
           /\ vault.at = "loading"
           /\ seen.user = l.user
           /\ l.got = l.user \/ mixed
    /\ \A l, m \in loads : l.live /\ m.live => l = m

(* The slot being opened is the one of the vault the gate holds.             *)
OpensOwnSlot ==
    opening # Null =>
        /\ status = "locked"
        /\ vault.at = "ready" /\ vault.of = opening
        /\ device.at = "slot" /\ device.of = opening

(* Keys were asked for with the vault the gate still holds, or else the      *)
(* account has changed since.                                                *)
KeysOfVault ==
    status \in {"unlocking", "unlocked"} => moved \/ (vault.at = "ready" /\ keys = vault.of)

(* A slot is only held with the vault whose key it is.                       *)
SlotOfVault ==
    vault.at = "ready" /\ device.at = "slot" => vault.of # Null /\ device.of = vault.of

(* The vault that was loaded is the one of the account that is shown.        *)
VaultOfShown ==
    vault.at = "ready" /\ vault.of # Null =>
        seen.user = Null \/ mixed \/ vault.of = seen.user

AppInv ==
    GateOK /\ OneLiveLoad /\ OpensOwnSlot /\ KeysOfVault /\ SlotOfVault /\ VaultOfShown
==============================================================================
