----------------------------- MODULE VaultRelay -----------------------------
(* The vault of one member on several devices: first run, adding and         *)
(* removing ways back in, app lock, and the server that relays the vault.    *)
(* Sources: src/server/vault.ts, src/features/settings/security-settings.tsx *)
(* and reauth.tsx, src/features/lock/recovery-chooser.tsx,                   *)
(* src/features/onboarding/first-run.tsx and recovery-kit.tsx, and what      *)
(* app-gate.tsx keeps for them.                                              *)
(*                                                                           *)
(* Every upload replaces the whole vault, built on what the device knew when *)
(* the member decided. An upload is a step of its own: it may arrive after   *)
(* another device's, be refused, get lost, or succeed with its answer lost.  *)
EXTENDS IdentityVault, TLC

CONSTANTS
    Devices,
    MaxFaults   \* bound: requests or answers that get lost, and uploads
                \* that arrive after their page was left

ASSUME ApartAssumption ==
    /\ Null \notin Identities
    /\ Null \notin IdentityVaults(Salts)
    /\ Null \notin DeviceSlots
    /\ Null \notin Wraps({"device"}, "device")
    /\ MaxFaults \in Nat

VARIABLES
    server,     \* identity_vaults.vault of the member, or Null
    known,      \* the vault the gate holds on each device, or Null
    slot,       \* the device slot stored on each device, or Null
    made,       \* the identity a first run made and not finished, or Null
    flow,       \* where Settings, the chooser or the first run is
    late,       \* uploads under way whose page is gone
    removed,    \* history: the wraps a saved removal was meant to end
    faults,
    lates       \* history: how many uploads outlived their page

vars == <<server, known, slot, made, flow, late, removed, faults, lates>>

Prfs    == [credentialId : Credentials, prfSalt : Salts]
Methods == {"passphrase", "recovery"} \cup Credentials
Idle    == [at |-> "idle"]

WrapsOf(v) ==
    IF v = Null THEN {} ELSE
    ({v.byPassphrase, v.byRecovery} \cup {key.wrap : key \in v.passkeys})
        \ {Null}

(* A device slot never leaves the browser it was made in.                    *)
Init ==
    /\ server = Null
    /\ known = [d \in Devices |-> Null]
    /\ slot = [d \in Devices |-> Null]
    /\ made = [d \in Devices |-> Null]
    /\ flow = [d \in Devices |-> [at |-> "first"]]
    /\ late = {}
    /\ removed = {}
    /\ faults = 0
    /\ lates = 0

Go(d, f) == flow' = [flow EXCEPT ![d] = f]

(* Upload next; then continue with what only a saved vault allows.           *)
Save(d, next, then) ==
    /\ next # Refused
    /\ Go(d, [at |-> "saving", next |-> next, then |-> then, back |-> flow[d]])

------------------------------------------------------------------------------
(* First run: the identity is made once, its slot is kept before the vault   *)
(* is uploaded, and a retry uploads the same one.                            *)
Make(d, identity) ==
    /\ flow[d].at = "first"
    /\ made[d] = Null
    /\ \A e \in Devices : made[e] # identity /\ (slot[e] # Null => slot[e].publicKey # identity)
    /\ made' = [made EXCEPT ![d] = identity]
    /\ UNCHANGED <<server, known, slot, flow, late, removed, faults, lates>>

KeepLater(d) ==
    /\ flow[d].at = "first"
    /\ made[d] # Null
    /\ Save(d, EmptyVault(made[d]), "done")
    /\ UNCHANGED <<server, known, slot, made, late, removed, faults, lates>>

KeepFirst(d) ==
    /\ flow[d].at = "first"
    /\ made[d] # Null
    /\ slot' = [slot EXCEPT ![d] = DeviceSlot(made[d])]
    /\ Save(d, EmptyVault(made[d]), "done")
    /\ UNCHANGED <<server, known, made, late, removed, faults, lates>>

(* The page is loaded again, maybe with an upload still under way. With no   *)
(* vault on the server the first run starts over.                            *)
Reload(d) ==
    /\ known' = [known EXCEPT ![d] = server]
    /\ made' = [made EXCEPT ![d] = Null]
    /\ Go(d, IF server = Null THEN [at |-> "first"] ELSE Idle)
    /\ \/ UNCHANGED <<late, faults, lates>>
       \/ /\ flow[d].at = "saving"
          /\ faults < MaxFaults
          /\ faults' = faults + 1
          /\ lates' = lates + 1
          /\ late' = late \cup {flow[d].next}
    /\ UNCHANGED <<server, slot, removed>>

(* A stored slot counts only for the identity of the vault.                  *)
Held(d) ==
    /\ slot[d] # Null
    /\ known[d] # Null
    /\ slot[d].publicKey = known[d].publicKey

------------------------------------------------------------------------------
(* Settings and the chooser.                                                 *)
CanUnlock(v) == VaultSlots(v).passphrase \/ VaultSlots(v).passkeys

Removing(v, m) ==
    CASE m = "passphrase" -> RemovePassphraseSlot(v)
      [] m = "recovery"   -> RemoveRecoverySlot(v)
      [] OTHER            -> RemovePasskeySlot(v, m)

Has(v, m) ==
    CASE m = "passphrase" -> v.byPassphrase # Null
      [] m = "recovery"   -> v.byRecovery # Null
      [] OTHER            -> \E key \in v.passkeys : key.credentialId = m

AppLock(d) == ~Held(d)

(* keepReason: the last way back in stays, and with app lock on one that     *)
(* unlocks.                                                                  *)
Removable(d, m) ==
    LET next == Removing(known[d], m)
    IN  /\ Has(known[d], m)
        /\ next # Refused
        /\ AppLock(d) => CanUnlock(next)

InSettings(d) == flow[d].at = "idle" /\ known[d] # Null

AddWay(d) ==
    /\ InSettings(d)
    /\ Go(d, IF AppLock(d) THEN [at |-> "reauth", for |-> "add"]
             ELSE [at |-> "add", slot |-> slot[d]])
    /\ UNCHANGED <<server, known, slot, made, late, removed, faults, lates>>

TurnAppLockOff(d) ==
    /\ InSettings(d)
    /\ AppLock(d)
    /\ Go(d, [at |-> "reauth", for |-> "off"])
    /\ UNCHANGED <<server, known, slot, made, late, removed, faults, lates>>

TurnAppLockOn(d) ==
    /\ InSettings(d)
    /\ ~AppLock(d)
    /\ CanUnlock(known[d])
    /\ slot' = [slot EXCEPT ![d] = Null]
    /\ UNCHANGED <<server, known, made, flow, late, removed, faults, lates>>

(* Reauth: a right passphrase or passkey makes a slot, kept or borrowed; a   *)
(* wrong one says so and stays.                                              *)
Reauthenticated(d, fresh) ==
    /\ flow[d].at = "reauth"
    /\ fresh # Refused
    /\ IF flow[d].for = "off"
       THEN /\ slot' = [slot EXCEPT ![d] = fresh]
            /\ Go(d, Idle)
       ELSE /\ Go(d, [at |-> "add", slot |-> fresh])
            /\ UNCHANGED slot
    /\ UNCHANGED <<server, known, made, late, removed, faults, lates>>

Reauth(d) ==
    \/ \E p \in Passphrases : Reauthenticated(d, DeviceSlotByPassphrase(known[d], p))
    \/ \E prf \in Prfs : Reauthenticated(d, DeviceSlotByPasskey(known[d], prf))

ChoosePassphrase(d) ==
    /\ flow[d].at = "add"
    /\ \E p \in Passphrases, s \in Salts :
           Save(d, AddPassphraseFromDevice(known[d], flow[d].slot, p, s), "done")
    /\ UNCHANGED <<server, known, slot, made, late, removed, faults, lates>>

(* The kit is uploaded only after two of its words were typed back.          *)
MakeKit(d) ==
    /\ flow[d].at = "add"
    /\ \E c \in Codes :
           LET next == AddRecoveryKitFromDevice(known[d], flow[d].slot, c)
           IN  /\ next # Refused
               /\ Go(d, [at |-> "kit", next |-> next])
    /\ UNCHANGED <<server, known, slot, made, late, removed, faults, lates>>

ConfirmKit(d) ==
    /\ flow[d].at = "kit"
    /\ Save(d, flow[d].next, "done")
    /\ UNCHANGED <<server, known, slot, made, late, removed, faults, lates>>

(* A passkey also turns app lock on, as far as the slot can be dropped.      *)
UsePasskey(d) ==
    /\ flow[d].at = "add"
    /\ \E prf \in Prfs :
           Save(d, AddPasskeyFromDevice(known[d], flow[d].slot, prf), "lock")
    /\ UNCHANGED <<server, known, slot, made, late, removed, faults, lates>>

RemoveWay(d, m) ==
    /\ InSettings(d)
    /\ Removable(d, m)
    /\ Save(d, Removing(known[d], m), "removed")
    /\ UNCHANGED <<server, known, slot, made, late, removed, faults, lates>>

(* "Not now", "Cancel": nothing was sent.                                    *)
Cancel(d) ==
    /\ flow[d].at \in {"reauth", "add", "kit"}
    /\ Go(d, Idle)
    /\ UNCHANGED <<server, known, slot, made, late, removed, faults, lates>>

------------------------------------------------------------------------------
AcceptsUnprotected(stored, next) ==
    stored # Null => stored.publicKey = next.publicKey

AcceptsAnyIdentity(stored, next) ==
    stored # Null => (Protected(stored) => Protected(next))

(* The server: one upsert that fixes the public key and never drops the last *)
(* way back in.                                                              *)
Accepts(stored, next) ==
    stored # Null => /\ stored.publicKey = next.publicKey
                     /\ Protected(stored) => Protected(next)

Done(d, f) ==
    /\ known' = [known EXCEPT ![d] = f.next]
    /\ \/ slot' = slot
       \/ f.then = "lock" /\ slot' = [slot EXCEPT ![d] = Null]
    /\ made' = [made EXCEPT ![d] = Null]
    /\ removed' = (IF f.then = "removed"
                   THEN removed \cup (WrapsOf(known[d]) \ WrapsOf(f.next)) ELSE removed)
                  \ (IF f.then = "removed" THEN {} ELSE WrapsOf(f.next) \ WrapsOf(known[d]))
    /\ Go(d, Idle)
    /\ UNCHANGED <<late, lates>>

PutVault(d) ==
    /\ flow[d].at = "saving"
    /\ Accepts(server, flow[d].next)
    /\ server' = flow[d].next
    /\ Done(d, flow[d])
    /\ UNCHANGED faults

(* A refusal, or a request or an answer that got lost: "Couldn't save".      *)
PutFails(d) ==
    /\ flow[d].at = "saving"
    /\ \/ /\ ~Accepts(server, flow[d].next)
          /\ UNCHANGED <<server, faults>>
       \/ /\ faults < MaxFaults
          /\ faults' = faults + 1
          /\ server' = IF Accepts(server, flow[d].next) THEN flow[d].next ELSE server
       \/ /\ faults < MaxFaults
          /\ faults' = faults + 1
          /\ UNCHANGED server
    /\ Go(d, flow[d].back)
    /\ UNCHANGED <<known, slot, made, late, removed, lates>>

LatePut ==
    \E next \in late :
        /\ late' = late \ {next}
        /\ server' = IF Accepts(server, next) THEN next ELSE server
        /\ UNCHANGED <<known, slot, made, flow, removed, faults, lates>>

Next ==
    \/ LatePut
    \/ \E d \in Devices :
           \/ \E i \in Identities : Make(d, i)
           \/ KeepFirst(d)
           \/ Reload(d)
           \/ AddWay(d)
           \/ TurnAppLockOff(d)
           \/ TurnAppLockOn(d)
           \/ Reauth(d)
           \/ ChoosePassphrase(d)
           \/ MakeKit(d)
           \/ ConfirmKit(d)
           \/ UsePasskey(d)
           \/ \E m \in Methods : RemoveWay(d, m)
           \/ Cancel(d)
           \/ PutVault(d)
           \/ PutFails(d)

Spec == Init /\ [][Next]_vars
------------------------------------------------------------------------------
(* docs/auth.md and first-run.tsx: the stored vault has a way back in, or a  *)
(* device slot that opens it.                                                *)
AWayIn ==
    server # Null => Protected(server) \/ \E d \in Devices : ByDevice(server, slot[d])

(* As long as no upload outlived the page that sent it, that holds: in a     *)
(* first run with retries and lost answers, while app lock is turned on and  *)
(* off, and as several devices add and remove ways (first-run.tsx:114-126,   *)
(* security-settings.tsx:180-235).                                           *)
AWayInOnTime == lates = 0 => AWayIn

(* A vault a device knows is of the server's identity, and if it has a way   *)
(* back in, so has the server's: no answer makes a client believe in a       *)
(* protection the server does not keep.                                      *)
KnownHolds ==
    \A d \in Devices : known[d] # Null =>
        /\ server # Null
        /\ known[d].publicKey = server.publicKey
        /\ Protected(known[d]) => Protected(server)

TypeOK ==
    /\ server \in IdentityVaults(Salts) \cup {Null}
    /\ known \in [Devices -> IdentityVaults(Salts) \cup {Null}]
    /\ slot \in [Devices -> DeviceSlots \cup {Null}]
    /\ made \in [Devices -> Identities \cup {Null}]
    /\ late \subseteq IdentityVaults(Salts)
    /\ faults \in 0 .. MaxFaults
    /\ lates \in Nat

(* The identity never changes, nor is the last way back in ever dropped.     *)
NeverLocksOut ==
    [][server # Null =>
        /\ server' # Null
        /\ server'.publicKey = server.publicKey
        /\ Protected(server) => Protected(server')]_vars

(* security-settings.tsx:249: a removed way back in "will stop working on    *)
(* every device".                                                            *)
RemovedStaysRemoved == server # Null => WrapsOf(server) \cap removed = {}

------------------------------------------------------------------------------
(* No operation tells one device or one identity from another.               *)
Symmetry == Permutations(Devices) \cup Permutations(Identities)
==============================================================================
