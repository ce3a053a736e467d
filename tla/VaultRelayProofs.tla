-------------------------- MODULE VaultRelayProofs --------------------------
(* Proofs that the relayed vault keeps its identity, never loses the last    *)
(* way back in, and always has one or a device slot that opens it, for any   *)
(* devices, secrets and bounds.                                              *)
EXTENDS VaultRelay, TLAPS

Vaults == IdentityVaults(Salts)

(* While a first run goes on, what it uploads is the vault of the identity   *)
(* it made, whose slot the device holds; everything else is built on a vault *)
(* the device knows.                                                         *)
InFirst(f) == f.at = "first" \/ (f.at = "saving" /\ f.back.at = "first")

OfKnown(d, v) == known[d] # Null /\ v \in Vaults /\ v.publicKey = known[d].publicKey

FlowAt(d, f) ==
    /\ f.at \in {"first", "idle", "reauth", "add", "kit"}
    /\ f.at \in {"reauth", "add", "kit"} => known[d] # Null
    /\ f.at = "kit" => OfKnown(d, f.next)

FlowOK(d) ==
    \/ FlowAt(d, flow[d])
    \/ /\ flow[d].at = "saving"
       /\ FlowAt(d, flow[d].back)
       /\ flow[d].next \in Vaults
       /\ IF flow[d].back.at = "first"
          THEN /\ made[d] \in Identities
               /\ slot[d] = DeviceSlot(made[d])
               /\ flow[d].next = EmptyVault(made[d])
               /\ flow[d].then = "done"
          ELSE /\ OfKnown(d, flow[d].next)
               /\ flow[d].then = "lock" => Protected(flow[d].next)

FlowsOK == flow = [d \in Devices |-> flow[d]] /\ \A d \in Devices : FlowOK(d)

VaultInv == TypeOK /\ KnownHolds /\ FlowsOK

(* A device that opens an unprotected vault, and no first run of its own     *)
(* that would replace its slot.                                              *)
Holder(d) ==
    /\ slot[d] = DeviceSlot(server.publicKey)
    /\ InFirst(flow[d]) => made[d] = server.publicKey

HolderInv ==
    /\ late = {}
    /\ server # Null => Protected(server) \/ \E d \in Devices : Holder(d)

OnTimeInv == lates = 0 => HolderInv

------------------------------------------------------------------------------
(* What the operations on a vault give.                                      *)

LEMMA EmptyType == \A i \in Identities : EmptyVault(i) \in Vaults
  BY DEF Vaults, IdentityVaults, EmptyVault

LEMMA DeviceType == \A i \in Identities : DeviceSlot(i) \in DeviceSlots
  BY DEF DeviceSlots, DeviceSlot, Wrap, Wraps

LEMMA PassphraseType ==
    ASSUME NEW v \in Vaults, NEW p \in Passphrases, NEW s \in Salts
    PROVE  /\ WithPassphraseSlot(v, p, s) \in Vaults
           /\ WithPassphraseSlot(v, p, s).publicKey = v.publicKey
  <1>1. Wrap(UnlockKey(p, s), "passphrase", v.publicKey)
            \in Wraps({"passphrase"} \X Passphrases \X Salts, "passphrase")
    BY DEF Wrap, Wraps, UnlockKey, Vaults, IdentityVaults
  <1> QED BY <1>1 DEF WithPassphraseSlot, Vaults, IdentityVaults

LEMMA RecoveryType ==
    ASSUME NEW v \in Vaults, NEW c \in Codes
    PROVE  /\ WithRecoverySlot(v, c) \in Vaults
           /\ WithRecoverySlot(v, c).publicKey = v.publicKey
  <1>1. Wrap(RecoveryKey(c), "recovery", v.publicKey) \in Wraps({"code"} \X Codes, "recovery")
    BY DEF Wrap, Wraps, RecoveryKey, Vaults, IdentityVaults
  <1> QED BY <1>1 DEF WithRecoverySlot, Vaults, IdentityVaults

LEMMA PasskeyType ==
    ASSUME NEW v \in Vaults, NEW prf \in Prfs, WithPasskeySlot(v, prf) # Refused
    PROVE  /\ WithPasskeySlot(v, prf) \in Vaults
           /\ WithPasskeySlot(v, prf).publicKey = v.publicKey
           /\ Protected(WithPasskeySlot(v, prf))
  <1> DEFINE wrap == Wrap(PasskeyKey(prf.credentialId, prf.prfSalt), "passkey", v.publicKey)
             new  == [credentialId |-> prf.credentialId, prfSalt |-> prf.prfSalt,
                      wrap |-> wrap]
             all  == Without(v.passkeys, prf.credentialId) \cup {new}
  <1>1. wrap \in Wraps({"prf"} \X Credentials \X Salts, "passkey")
    BY DEF Wrap, Wraps, PasskeyKey, Prfs, Vaults, IdentityVaults
  <1>2. new \in PasskeySlot
    BY <1>1 DEF PasskeySlot, Prfs
  <1> HIDE DEF new
  <1>3. all \in SUBSET PasskeySlot
    BY <1>2 DEF Without, Vaults, IdentityVaults
  <1>4. WithPasskeySlot(v, prf) = [v EXCEPT !.passkeys = all]
    BY DEF WithPasskeySlot, new
  <1>5. all # {}
    OBVIOUS
  <1> HIDE DEF all
  <1>6. /\ [v EXCEPT !.passkeys = all] \in Vaults
        /\ [v EXCEPT !.passkeys = all].publicKey = v.publicKey
        /\ [v EXCEPT !.passkeys = all].passkeys = all
    BY <1>3 DEF Vaults, IdentityVaults
  <1> QED BY <1>4, <1>5, <1>6 DEF Protected, HasRecoveryMethod, VaultSlots

LEMMA RemovingType ==
    ASSUME NEW v \in Vaults, NEW m \in Methods, Removing(v, m) # Refused
    PROVE  Removing(v, m) \in Vaults /\ Removing(v, m).publicKey = v.publicKey
  <1>1. /\ [v EXCEPT !.kdf = Null, !.byPassphrase = Null] \in Vaults
        /\ [v EXCEPT !.kdf = Null, !.byPassphrase = Null].publicKey = v.publicKey
    BY DEF Vaults, IdentityVaults
  <1>2. /\ [v EXCEPT !.byRecovery = Null] \in Vaults
        /\ [v EXCEPT !.byRecovery = Null].publicKey = v.publicKey
    BY DEF Vaults, IdentityVaults
  <1>3. /\ [v EXCEPT !.passkeys = Without(v.passkeys, m)] \in Vaults
        /\ [v EXCEPT !.passkeys = Without(v.passkeys, m)].publicKey = v.publicKey
    BY DEF Vaults, IdentityVaults, Without
  <1>4. \A next : KeepRecovery(v, next) # Refused => KeepRecovery(v, next) = next
    BY DEF KeepRecovery
  <1>5. CASE m = "passphrase"
    BY <1>1, <1>4, <1>5 DEF Removing, RemovePassphraseSlot
  <1>6. CASE m # "passphrase" /\ m = "recovery"
    BY <1>2, <1>4, <1>6 DEF Removing, RemoveRecoverySlot
  <1>7. CASE m # "passphrase" /\ m # "recovery"
    BY <1>3, <1>4, <1>7 DEF Removing, RemovePasskeySlot
  <1> QED BY <1>5, <1>6, <1>7

LEMMA CanUnlockProtects == \A v : CanUnlock(v) => Protected(v)
  BY DEF CanUnlock, Protected, HasRecoveryMethod

------------------------------------------------------------------------------
(* One lemma for each kind of step: it keeps the invariant.                  *)

LEMMA InitInv == Init => VaultInv
  BY ApartAssumption
  DEF Init, VaultInv, TypeOK, KnownHolds, FlowsOK, FlowOK, FlowAt

(* A step of device d leaves what the others do as it was.                   *)
LEMMA OtherFlows ==
    ASSUME FlowsOK, NEW d \in Devices, NEW f, flow' = [flow EXCEPT ![d] = f],
           \A e \in Devices \ {d} : /\ known'[e] = known[e]
                                    /\ made'[e] = made[e]
                                    /\ slot'[e] = slot[e],
           FlowOK(d)'
    PROVE  FlowsOK'
  <1>1. flow' = [e \in Devices |-> flow'[e]]
    BY DEF FlowsOK
  <1>2. ASSUME NEW e \in Devices \ {d} PROVE FlowOK(e)'
    <2>1. flow'[e] = flow[e] /\ FlowOK(e)
      BY DEF FlowsOK
    <2> QED BY <2>1 DEF FlowOK, FlowAt, OfKnown
  <1> QED BY <1>1, <1>2 DEF FlowsOK

LEMMA MakeKeeps ==
    ASSUME VaultInv, NEW d \in Devices, NEW i \in Identities, Make(d, i)
    PROVE  VaultInv'
  <1>1. TypeOK' /\ KnownHolds'
    BY DEF VaultInv, TypeOK, KnownHolds, Make
  <1>2. FlowOK(d)'
    BY DEF FlowOK, FlowAt, OfKnown, Make, VaultInv, FlowsOK
  <1>3. flow' = [flow EXCEPT ![d] = flow[d]]
    BY DEF Make, VaultInv, FlowsOK
  <1>4. \A e \in Devices \ {d} : /\ known'[e] = known[e]
                                 /\ made'[e] = made[e]
                                 /\ slot'[e] = slot[e]
    BY DEF Make, VaultInv, TypeOK
  <1> QED BY <1>1, <1>2, <1>3, <1>4, OtherFlows DEF VaultInv

LEMMA KeepFirstKeeps ==
    ASSUME VaultInv, NEW d \in Devices, KeepFirst(d) PROVE VaultInv'
  <1>1. made[d] \in Identities
    BY DEF KeepFirst, VaultInv, TypeOK
  <1>2. TypeOK' /\ KnownHolds'
    BY <1>1, DeviceType DEF VaultInv, TypeOK, KnownHolds, KeepFirst
  <1>3. FlowOK(d)'
    <2>1. flow'[d] = [at |-> "saving", next |-> EmptyVault(made[d]), then |-> "done",
                      back |-> flow[d]]
      BY DEF KeepFirst, Save, Go, VaultInv, FlowsOK
    <2>2. slot'[d] = DeviceSlot(made[d])
      BY DEF KeepFirst, VaultInv, TypeOK
    <2>3. flow[d].at = "first" /\ made'[d] = made[d]
      BY DEF KeepFirst
    <2> QED BY <1>1, <2>1, <2>2, <2>3, EmptyType DEF FlowOK, FlowAt
  <1>4. \A e \in Devices \ {d} : slot'[e] = slot[e]
    BY DEF KeepFirst, VaultInv, TypeOK
  <1> QED BY <1>2, <1>3, <1>4, OtherFlows DEF VaultInv, KeepFirst, Save, Go

LEMMA ReloadKeeps ==
    ASSUME VaultInv, NEW d \in Devices, Reload(d) PROVE VaultInv'
  <1>1. TypeOK'
    <2>1. flow[d].at = "saving" => flow[d].next \in Vaults
      BY DEF VaultInv, FlowsOK, FlowOK, FlowAt
    <2> QED BY <2>1, ApartAssumption DEF Reload, VaultInv, TypeOK, Vaults
  <1>2. KnownHolds'
    BY DEF Reload, VaultInv, TypeOK, KnownHolds
  <1>3. FlowOK(d)'
    BY DEF Reload, Go, Idle, VaultInv, FlowsOK, FlowOK, FlowAt
  <1>4. \A e \in Devices \ {d} : known'[e] = known[e] /\ made'[e] = made[e]
    BY DEF Reload, VaultInv, TypeOK
  <1> QED BY <1>1, <1>2, <1>3, <1>4, OtherFlows DEF VaultInv, Reload, Go

(* Steps inside Settings and the chooser that only move the flow.            *)
LEMMA GoKeeps ==
    ASSUME VaultInv, NEW d \in Devices, NEW f, Go(d, f), FlowAt(d, f),
           UNCHANGED <<server, known, made, late, faults, lates>>,
           \/ UNCHANGED slot
           \/ \E new \in DeviceSlots \cup {Null} : slot' = [slot EXCEPT ![d] = new]
    PROVE  VaultInv'
  <1>1. TypeOK' /\ KnownHolds'
    BY DEF VaultInv, TypeOK, KnownHolds
  <1>2. flow'[d] = f
    BY DEF Go, VaultInv, FlowsOK
  <1>3. FlowOK(d)'
    BY <1>2 DEF FlowOK, FlowAt, OfKnown
  <1>4. \A e \in Devices \ {d} : slot'[e] = slot[e]
    BY DEF VaultInv, TypeOK
  <1> QED BY <1>1, <1>3, <1>4, OtherFlows DEF Go, VaultInv

LEMMA SaveKeeps ==
    ASSUME VaultInv, NEW d \in Devices, NEW next, NEW then, Save(d, next, then),
           flow[d].at \in {"idle", "add", "kit"}, OfKnown(d, next),
           then = "lock" => Protected(next),
           UNCHANGED <<server, known, slot, made, late, faults, lates>>
    PROVE  VaultInv'
  <1>1. TypeOK' /\ KnownHolds'
    BY DEF VaultInv, TypeOK, KnownHolds
  <1>2. flow'[d] = [at |-> "saving", next |-> next, then |-> then, back |-> flow[d]]
    BY DEF Save, Go, VaultInv, FlowsOK
  <1>3. FlowAt(d, flow[d])
    BY DEF VaultInv, FlowsOK, FlowOK
  <1>4. FlowOK(d)'
    BY <1>2, <1>3 DEF FlowOK, FlowAt, OfKnown
  <1> QED BY <1>1, <1>4, OtherFlows DEF Save, Go, VaultInv

Settled(d) ==
    \/ AddWay(d) \/ TurnAppLockOff(d) \/ TurnAppLockOn(d) \/ Reauth(d)
    \/ ChoosePassphrase(d) \/ MakeKit(d) \/ ConfirmKit(d) \/ UsePasskey(d)
    \/ (\E m \in Methods : RemoveWay(d, m)) \/ Cancel(d)

LEMMA SettingsKeeps ==
    ASSUME VaultInv, NEW d \in Devices, Settled(d) PROVE VaultInv'
  <1>1. known[d] # Null => known[d] \in Vaults
    BY DEF VaultInv, TypeOK, Vaults
  <1>2. FlowOK(d) /\ (flow[d].at # "saving" => FlowAt(d, flow[d]))
    BY DEF VaultInv, FlowsOK, FlowOK
  <1>3. CASE AddWay(d) \/ TurnAppLockOff(d) \/ Cancel(d)
    BY <1>3, GoKeeps DEF AddWay, TurnAppLockOff, Cancel, InSettings, Idle, FlowAt
  <1>4. CASE TurnAppLockOn(d)
    <2>1. Go(d, flow[d])
      BY <1>4 DEF TurnAppLockOn, Go, VaultInv, FlowsOK
    <2>2. FlowAt(d, flow[d])
      BY <1>2, <1>4 DEF TurnAppLockOn, InSettings
    <2> QED BY <1>4, <2>1, <2>2, GoKeeps DEF TurnAppLockOn
  <1>5. ASSUME NEW fresh, Reauthenticated(d, fresh),
               fresh # Refused => fresh = DeviceSlot(known[d].publicKey)
        PROVE  VaultInv'
    <2>1. known[d] \in Vaults
      BY <1>1, <1>2, <1>5 DEF Reauthenticated, FlowAt
    <2>2. fresh \in DeviceSlots
      BY <1>5, <2>1, DeviceType DEF Reauthenticated, Vaults, IdentityVaults
    <2>3. known[d] # Null
      BY <1>2, <1>5 DEF Reauthenticated, FlowAt
    <2> QED BY <1>5, <2>2, <2>3, GoKeeps DEF Reauthenticated, FlowAt, Idle
  <1>6. CASE Reauth(d)
    BY <1>5, <1>6 DEF Reauth, DeviceSlotByPassphrase, DeviceSlotByPasskey
  <1>7. ASSUME NEW p \in Passphrases, NEW s \in Salts, flow[d].at = "add",
               Save(d, AddPassphraseFromDevice(known[d], flow[d].slot, p, s), "done"),
               UNCHANGED <<server, known, slot, made, late, faults, lates>>
        PROVE  VaultInv'
    <2>1. known[d] \in Vaults /\ known[d] # Null
      BY <1>1, <1>2, <1>7 DEF FlowAt
    <2>2. OfKnown(d, AddPassphraseFromDevice(known[d], flow[d].slot, p, s))
      BY <1>7, <2>1, PassphraseType DEF OfKnown, Save, AddPassphraseFromDevice
    <2> QED BY <1>7, <2>2, SaveKeeps
  <1>8. CASE MakeKit(d)
    <2>1. PICK c \in Codes :
              LET next == AddRecoveryKitFromDevice(known[d], flow[d].slot, c)
              IN  next # Refused /\ Go(d, [at |-> "kit", next |-> next])
      BY <1>8 DEF MakeKit
    <2>2. known[d] \in Vaults /\ known[d] # Null
      BY <1>1, <1>2, <1>8 DEF MakeKit, FlowAt
    <2>3. OfKnown(d, AddRecoveryKitFromDevice(known[d], flow[d].slot, c))
      BY <2>1, <2>2, RecoveryType DEF OfKnown, AddRecoveryKitFromDevice
    <2>4. FlowAt(d, [at |-> "kit", next |-> AddRecoveryKitFromDevice(known[d], flow[d].slot, c)])
      BY <2>2, <2>3 DEF FlowAt
    <2> QED BY <1>8, <2>1, <2>4, GoKeeps DEF MakeKit
  <1>9. CASE ConfirmKit(d)
    BY <1>2, <1>9, SaveKeeps DEF ConfirmKit, FlowAt
  <1>10. ASSUME NEW prf \in Prfs, flow[d].at = "add",
                Save(d, AddPasskeyFromDevice(known[d], flow[d].slot, prf), "lock"),
                UNCHANGED <<server, known, slot, made, late, faults, lates>>
         PROVE  VaultInv'
    <2>1. known[d] \in Vaults /\ known[d] # Null
      BY <1>1, <1>2, <1>10 DEF FlowAt
    <2>2. /\ OfKnown(d, AddPasskeyFromDevice(known[d], flow[d].slot, prf))
          /\ Protected(AddPasskeyFromDevice(known[d], flow[d].slot, prf))
      BY <1>10, <2>1, PasskeyType DEF OfKnown, Save, AddPasskeyFromDevice
    <2> QED BY <1>10, <2>2, SaveKeeps
  <1>11. ASSUME NEW m \in Methods, RemoveWay(d, m) PROVE VaultInv'
    <2>1. known[d] \in Vaults /\ known[d] # Null
      BY <1>1, <1>11 DEF RemoveWay, InSettings
    <2>2. OfKnown(d, Removing(known[d], m))
      BY <1>11, <2>1, RemovingType DEF OfKnown, RemoveWay, Save
    <2> QED BY <1>11, <2>2, SaveKeeps DEF RemoveWay, InSettings
  <1> QED BY <1>3, <1>4, <1>6, <1>7, <1>8, <1>9, <1>10, <1>11
          DEF Settled, ChoosePassphrase, UsePasskey

(* A vault the server accepts is of the identity the devices know, and keeps *)
(* the protection they know of.                                              *)
LEMMA AcceptedKeeps ==
    ASSUME KnownHolds, NEW next \in Vaults, Accepts(server, next), server' = next,
           NEW D, \A e \in D : e \in Devices /\ known'[e] = known[e]
    PROVE  /\ server' # Null
           /\ \A e \in D : known'[e] # Null =>
                  /\ known'[e].publicKey = server'.publicKey
                  /\ Protected(known'[e]) => Protected(server')
  <1>1. next # Null
    BY ApartAssumption DEF Vaults
  <1>2. ASSUME NEW e \in D, known[e] # Null
        PROVE  /\ known[e].publicKey = next.publicKey
               /\ Protected(known[e]) => Protected(next)
    BY <1>2 DEF KnownHolds, Accepts
  <1> QED BY <1>1, <1>2

LEMMA SavingNext ==
    ASSUME VaultInv, NEW d \in Devices, flow[d].at = "saving"
    PROVE  /\ flow[d].next \in Vaults
           /\ FlowAt(d, flow[d].back)
           /\ flow[d].then = "lock" => Protected(flow[d].next)
           /\ IF flow[d].back.at = "first"
              THEN /\ made[d] \in Identities
                   /\ slot[d] = DeviceSlot(made[d])
                   /\ flow[d].next.publicKey = made[d]
              ELSE known[d] # Null /\ flow[d].next.publicKey = known[d].publicKey
  <1>1. FlowOK(d) /\ ~FlowAt(d, flow[d])
    BY DEF VaultInv, FlowsOK, FlowAt
  <1>2. \A i : EmptyVault(i).publicKey = i
    BY DEF EmptyVault
  <1>3. CASE flow[d].back.at = "first"
    BY <1>1, <1>2, <1>3 DEF FlowOK
  <1>4. CASE flow[d].back.at # "first"
    BY <1>1, <1>4 DEF FlowOK, OfKnown
  <1> QED BY <1>1, <1>3, <1>4 DEF FlowOK

LEMMA PutKeeps == ASSUME VaultInv, NEW d \in Devices, PutVault(d) PROVE VaultInv'
  <1> DEFINE next == flow[d].next
  <1>1. next \in Vaults /\ Accepts(server, next) /\ server' = next
    BY SavingNext DEF PutVault
  <1>2. /\ known' = [known EXCEPT ![d] = next]
        /\ slot' = slot \/ slot' = [slot EXCEPT ![d] = Null]
        /\ made' = [made EXCEPT ![d] = Null]
        /\ Go(d, Idle)
        /\ UNCHANGED <<late, lates, faults>>
    BY DEF PutVault, Done
  <1> HIDE DEF next
  <1>3. TypeOK'
    BY <1>1, <1>2 DEF VaultInv, TypeOK, Vaults
  <1>4. \A e \in Devices \ {d} : /\ known'[e] = known[e]
                                 /\ made'[e] = made[e]
                                 /\ slot'[e] = slot[e]
    BY <1>2 DEF VaultInv, TypeOK
  <1>5. known'[d] = next
    BY <1>2 DEF VaultInv, TypeOK
  <1>6. KnownHolds'
    <2>1. /\ server' # Null
          /\ \A e \in Devices \ {d} : known'[e] # Null =>
                 /\ known'[e].publicKey = server'.publicKey
                 /\ Protected(known'[e]) => Protected(server')
      BY <1>1, <1>4, AcceptedKeeps DEF VaultInv
    <2>2. known'[d] = server'
      BY <1>1, <1>5
    <2> QED BY <2>1, <2>2 DEF KnownHolds
  <1>7. FlowOK(d)'
    BY <1>2 DEF Go, Idle, VaultInv, FlowsOK, FlowOK, FlowAt
  <1> QED BY <1>2, <1>3, <1>4, <1>6, <1>7, OtherFlows DEF VaultInv, Go

LEMMA FailKeeps == ASSUME VaultInv, NEW d \in Devices, PutFails(d) PROVE VaultInv'
  <1> DEFINE next == flow[d].next
             back == flow[d].back
  <1>1. /\ next \in Vaults /\ FlowAt(d, back)
        /\ UNCHANGED <<known, slot, made, late, lates>>
        /\ Go(d, back)
        /\ faults' \in {faults, faults + 1}
        /\ faults' # faults => faults < MaxFaults
        /\ server' # server => Accepts(server, next) /\ server' = next
    BY SavingNext DEF PutFails
  <1> HIDE DEF next, back
  <1>2. TypeOK'
    BY <1>1, ApartAssumption DEF VaultInv, TypeOK, Vaults
  <1>3. KnownHolds'
    <2>1. CASE server' = server
      BY <1>1, <2>1 DEF VaultInv, KnownHolds
    <2>2. CASE server' # server
      BY <1>1, <2>2, AcceptedKeeps DEF VaultInv, KnownHolds
    <2> QED BY <2>1, <2>2
  <1>4. flow'[d] = back
    BY <1>1 DEF Go, VaultInv, FlowsOK
  <1>5. FlowOK(d)'
    BY <1>1, <1>4 DEF FlowOK, FlowAt, OfKnown
  <1> QED BY <1>1, <1>2, <1>3, <1>5, OtherFlows DEF VaultInv, Go

LEMMA LateKeeps == ASSUME VaultInv, LatePut PROVE VaultInv'
  <1>1. PICK next \in late :
            /\ late' = late \ {next}
            /\ server' = IF Accepts(server, next) THEN next ELSE server
            /\ UNCHANGED <<known, slot, made, flow, removed, faults, lates>>
    BY DEF LatePut
  <1>2. next \in Vaults
    BY DEF VaultInv, TypeOK, Vaults
  <1>3. TypeOK'
    BY <1>1, <1>2 DEF VaultInv, TypeOK, Vaults
  <1>4. KnownHolds'
    <2>1. CASE Accepts(server, next)
      BY <1>1, <1>2, <2>1, AcceptedKeeps DEF VaultInv, KnownHolds
    <2>2. CASE ~Accepts(server, next)
      BY <1>1, <2>2 DEF VaultInv, KnownHolds
    <2> QED BY <2>1, <2>2
  <1>5. FlowsOK'
    BY <1>1 DEF VaultInv, FlowsOK, FlowOK, FlowAt, OfKnown
  <1> QED BY <1>3, <1>4, <1>5 DEF VaultInv

LEMMA StepKeeps == VaultInv /\ [Next]_vars => VaultInv'
  <1> SUFFICES ASSUME VaultInv, [Next]_vars PROVE VaultInv'
    OBVIOUS
  <1>1. CASE UNCHANGED vars
    BY <1>1 DEF vars, VaultInv, TypeOK, KnownHolds, FlowsOK, FlowOK, FlowAt, OfKnown
  <1>2. CASE LatePut
    BY <1>2, LateKeeps
  <1>3. ASSUME NEW d \in Devices, Settled(d) PROVE VaultInv'
    BY <1>3, SettingsKeeps
  <1> QED BY <1>1, <1>2, <1>3, MakeKeeps, KeepFirstKeeps, ReloadKeeps, PutKeeps, FailKeeps
          DEF Next, Settled

(* Every reachable state keeps the inductive invariant.                      *)
THEOREM VaultInvariant == Spec => []VaultInv
  BY InitInv, StepKeeps, PTL DEF Spec

(* Whatever the devices upload, every variable keeps its type.               *)
THEOREM VaultTypeCorrect == Spec => []TypeOK
  BY VaultInvariant, PTL DEF VaultInv

(* What a device knows of the vault, the server keeps: the identity, and a   *)
(* way back in if there was one, through lost answers and late uploads.      *)
THEOREM KnownHoldsAlways == Spec => []KnownHolds
  BY VaultInvariant, PTL DEF VaultInv

LocksOut ==
    /\ server # Null
    /\ ~ /\ server' # Null
         /\ server'.publicKey = server.publicKey
         /\ Protected(server) => Protected(server')

LEMMA StepLocksNobodyOut == VaultInv /\ [Next]_vars => ~LocksOut
  <1> SUFFICES ASSUME VaultInv, [Next]_vars, server # Null PROVE ~LocksOut
    BY DEF LocksOut
  <1>1. CASE server' = server
    BY <1>1 DEF LocksOut
  <1>2. CASE server' # server
    <2>1. PICK next \in Vaults : Accepts(server, next) /\ server' = next
      <3>1. CASE LatePut
        BY <1>2, <3>1 DEF LatePut, VaultInv, TypeOK, Vaults
      <3>2. CASE \E d \in Devices : PutVault(d) \/ PutFails(d)
        BY <1>2, <3>2, SavingNext DEF PutVault, PutFails
      <3> QED BY <1>2, <3>1, <3>2
              DEF Next, vars, Make, KeepFirst, Reload, AddWay, TurnAppLockOff, TurnAppLockOn,
                  Reauth, Reauthenticated, ChoosePassphrase, MakeKit, ConfirmKit, UsePasskey,
                  RemoveWay, Cancel
    <2>2. next # Null
      BY ApartAssumption DEF Vaults
    <2> QED BY <2>1, <2>2 DEF LocksOut, Accepts
  <1> QED BY <1>1, <1>2

(* The server never changes the identity of a member nor drops the last way  *)
(* back in, whichever device uploads what, and when.                         *)
THEOREM NeverLocksOutHolds == Spec => NeverLocksOut
  <1>1. ~LocksOut => [server # Null =>
                         /\ server' # Null
                         /\ server'.publicKey = server.publicKey
                         /\ Protected(server) => Protected(server')]_vars
    BY DEF LocksOut
  <1> QED BY <1>1, VaultInvariant, StepLocksNobodyOut, PTL DEF Spec, NeverLocksOut

------------------------------------------------------------------------------
(* While no upload outlives its page, there always is a way in.              *)

LEMMA InitHolder == Init => HolderInv
  BY DEF Init, HolderInv

(* A device other than the one that acts stays a holder.                     *)
LEMMA HolderStays ==
    ASSUME NEW e \in Devices, Holder(e), UNCHANGED server,
           slot'[e] = slot[e], flow'[e] = flow[e], made'[e] = made[e]
    PROVE  Holder(e)'
  BY DEF Holder, InFirst

LEMMA PutHolder ==
    ASSUME VaultInv, HolderInv, NEW d \in Devices, PutVault(d)
    PROVE  HolderInv'
  <1> DEFINE next == flow[d].next
  <1>1. /\ next \in Vaults /\ Accepts(server, next) /\ server' = next
        /\ slot' = slot \/ flow[d].then = "lock"
        /\ flow' = [flow EXCEPT ![d] = Idle]
        /\ made' = [made EXCEPT ![d] = Null]
        /\ late' = late
        /\ flow[d].then = "lock" => Protected(next)
    BY SavingNext DEF PutVault, Done, Go
  <1>2. next # Null
    BY <1>1, ApartAssumption DEF Vaults
  <1> SUFFICES ASSUME ~Protected(next) PROVE \E e \in Devices : Holder(e)'
    BY <1>1 DEF HolderInv
  <1>3. /\ slot' = slot
        /\ ~InFirst(flow'[d])
        /\ \A e \in Devices \ {d} : flow'[e] = flow[e] /\ made'[e] = made[e]
    <2>1. slot' = slot
      BY <1>1 DEF VaultInv, TypeOK
    <2>2. flow'[d] = Idle /\ \A e \in Devices \ {d} : flow'[e] = flow[e]
      BY <1>1 DEF VaultInv, FlowsOK
    <2> QED BY <1>1, <2>1, <2>2 DEF InFirst, Idle, VaultInv, TypeOK
  <1>4. CASE server = Null
    <2>1. slot[d] = DeviceSlot(next.publicKey)
      BY <1>4, SavingNext DEF PutVault, VaultInv, KnownHolds
    <2> QED BY <1>1, <1>3, <2>1 DEF Holder
  <1>5. CASE server # Null
    <2>1. ~Protected(server) /\ server.publicKey = next.publicKey
      BY <1>1, <1>5 DEF Accepts
    <2>2. PICK e \in Devices : Holder(e)
      BY <1>5, <2>1 DEF HolderInv
    <2>3. slot'[e] = DeviceSlot(next.publicKey)
      BY <1>3, <2>1, <2>2 DEF Holder
    <2>4. CASE e = d
      BY <1>1, <1>3, <2>3, <2>4 DEF Holder
    <2>5. CASE e # d
      BY <1>1, <1>3, <2>1, <2>2, <2>3, <2>5 DEF Holder
    <2> QED BY <2>4, <2>5
  <1> QED BY <1>4, <1>5

LEMMA FailHolder ==
    ASSUME VaultInv, HolderInv, NEW d \in Devices, PutFails(d)
    PROVE  HolderInv'
  <1> DEFINE next == flow[d].next
  <1>1. /\ next \in Vaults /\ UNCHANGED <<slot, made, late>>
        /\ flow' = [flow EXCEPT ![d] = flow[d].back]
        /\ server' # server => Accepts(server, next) /\ server' = next
    BY SavingNext DEF PutFails, Go
  <1>2. /\ flow'[d] = flow[d].back
        /\ flow[d].at = "saving" /\ flow[d].back.at # "saving"
        /\ \A e \in Devices \ {d} : flow'[e] = flow[e]
    BY <1>1, SavingNext DEF VaultInv, FlowsOK, PutFails, FlowAt
  <1>3. \A e \in Devices : InFirst(flow'[e]) => InFirst(flow[e])
    BY <1>2 DEF InFirst
  <1>4. CASE server' = server
    BY <1>1, <1>3, <1>4 DEF HolderInv, Holder
  <1>5. CASE server' # server /\ server = Null
    <2>1. slot[d] = DeviceSlot(next.publicKey) /\ made[d] = next.publicKey
      BY <1>2, <1>5, SavingNext DEF VaultInv, KnownHolds
    <2> QED BY <1>1, <1>5, <2>1 DEF HolderInv, Holder
  <1>6. CASE server' # server /\ server # Null
    <2>1. /\ Protected(server) => Protected(next)
          /\ server.publicKey = next.publicKey /\ server' = next
      BY <1>1, <1>6 DEF Accepts
    <2> QED BY <1>1, <1>3, <1>6, <2>1 DEF HolderInv, Holder
  <1> QED BY <1>4, <1>5, <1>6

LEMMA FirstHolder ==
    ASSUME VaultInv, HolderInv, NEW d \in Devices,
           (\E i \in Identities : Make(d, i)) \/ KeepFirst(d)
    PROVE  HolderInv'
  <1>1. server' = server /\ late' = late
    BY DEF Make, KeepFirst
  <1> SUFFICES ASSUME NEW e \in Devices, Holder(e), server # Null PROVE Holder(e)'
    BY <1>1 DEF HolderInv
  <1>2. CASE e # d
    BY <1>1, <1>2, HolderStays DEF Make, KeepFirst, Save, Go, VaultInv, TypeOK, FlowsOK
  <1>3. CASE e = d /\ KeepFirst(d)
    <2>1. made[d] = server.publicKey
      BY <1>3 DEF KeepFirst, Holder, InFirst
    <2>2. slot'[d] = DeviceSlot(made[d]) /\ made' = made
      BY <1>3 DEF KeepFirst, VaultInv, TypeOK
    <2> QED BY <1>1, <1>3, <2>1, <2>2 DEF Holder
  <1>4. CASE e = d /\ \E i \in Identities : Make(d, i)
    <2>1. server.publicKey = Null
      BY <1>4 DEF Make, Holder, InFirst
    <2>2. server.publicKey \in Identities
      BY DEF VaultInv, TypeOK, IdentityVaults
    <2> QED BY <2>1, <2>2, ApartAssumption
  <1> QED BY <1>2, <1>3, <1>4

LEMMA SettledHolder ==
    ASSUME VaultInv, HolderInv, NEW d \in Devices, Settled(d)
    PROVE  HolderInv'
  <1>1. /\ UNCHANGED <<server, late, made>>
        /\ \/ flow' = flow
           \/ \E f : flow' = [flow EXCEPT ![d] = f] /\ ~InFirst(f)
    <2>1. ASSUME NEW next, NEW then, Save(d, next, then), flow[d].at # "first"
          PROVE  \E f : flow' = [flow EXCEPT ![d] = f] /\ ~InFirst(f)
      <3> DEFINE f == [at |-> "saving", next |-> next, then |-> then, back |-> flow[d]]
      <3>1. flow' = [flow EXCEPT ![d] = f]
        BY <2>1 DEF Save, Go
      <3>2. ~InFirst(f)
        BY <2>1 DEF InFirst
      <3> QED BY <3>1, <3>2
    <2>2. flow[d].at \in {"add", "kit", "idle"} => flow[d].at # "first"
      OBVIOUS
    <2>3. CASE ChoosePassphrase(d) \/ ConfirmKit(d) \/ UsePasskey(d)
               \/ \E m \in Methods : RemoveWay(d, m)
      BY <2>1, <2>2, <2>3 DEF ChoosePassphrase, ConfirmKit, UsePasskey, RemoveWay, InSettings
    <2>4. CASE AddWay(d)
      <3>1. ~InFirst([at |-> "reauth", for |-> "add"]) /\ ~InFirst([at |-> "add", slot |-> slot[d]])
        BY DEF InFirst
      <3> QED BY <2>4, <3>1 DEF AddWay, Go
    <2>5. CASE TurnAppLockOff(d) \/ TurnAppLockOn(d)
      BY <2>5 DEF TurnAppLockOff, TurnAppLockOn, Go, InFirst
    <2>6. CASE MakeKit(d) \/ Cancel(d)
      BY <2>6 DEF MakeKit, Cancel, Go, InFirst, Idle
    <2>7. CASE Reauth(d)
      BY <2>7 DEF Reauth, Reauthenticated, Go, InFirst, Idle
    <2> QED BY <2>3, <2>4, <2>5, <2>6, <2>7 DEF Settled
  <1>2. \A e \in Devices : InFirst(flow'[e]) => InFirst(flow[e])
    BY <1>1 DEF VaultInv, FlowsOK
  <1>3. CASE UNCHANGED slot
    BY <1>1, <1>2, <1>3 DEF HolderInv, Holder
  <1>4. CASE TurnAppLockOn(d)
    <2>1. known[d] # Null /\ Protected(known[d])
      BY <1>4, CanUnlockProtects DEF TurnAppLockOn, InSettings
    <2>2. Protected(server)
      BY <2>1 DEF VaultInv, KnownHolds
    <2> QED BY <1>1, <2>2 DEF HolderInv
  <1>5. ASSUME NEW fresh, Reauthenticated(d, fresh),
               fresh # Refused => fresh = DeviceSlot(known[d].publicKey)
        PROVE  HolderInv'
    <2>1. CASE UNCHANGED slot
      BY <1>3, <2>1
    <2>2. CASE slot' = [slot EXCEPT ![d] = fresh]
      <3>1. known[d] # Null
        BY <1>5 DEF Reauthenticated, VaultInv, FlowsOK, FlowOK, FlowAt
      <3>2. fresh = DeviceSlot(server.publicKey)
        BY <1>5, <3>1 DEF Reauthenticated, VaultInv, KnownHolds
      <3>3. slot'[d] = fresh /\ \A e \in Devices \ {d} : slot'[e] = slot[e]
        BY <2>2 DEF VaultInv, TypeOK
      <3> QED BY <1>1, <1>2, <3>2, <3>3 DEF HolderInv, Holder
    <2> QED BY <1>5, <2>1, <2>2 DEF Reauthenticated
  <1>6. CASE Reauth(d)
    BY <1>5, <1>6 DEF Reauth, DeviceSlotByPassphrase, DeviceSlotByPasskey
  <1> QED BY <1>3, <1>4, <1>6
          DEF Settled, AddWay, TurnAppLockOff, ChoosePassphrase, MakeKit, ConfirmKit,
              UsePasskey, RemoveWay, Cancel

LEMMA LatesGrow ==
    ASSUME VaultInv, [Next]_vars, lates' = 0
    PROVE  lates = 0
  <1>1. lates \in Nat
    BY DEF VaultInv, TypeOK
  <1>2. ASSUME NEW d \in Devices, Reload(d) PROVE lates = 0
    BY <1>1, <1>2 DEF Reload
  <1> QED BY <1>2
          DEF Next, vars, LatePut, Make, KeepFirst, AddWay, TurnAppLockOff, TurnAppLockOn,
              Reauth, Reauthenticated, ChoosePassphrase, MakeKit, ConfirmKit, UsePasskey,
              RemoveWay, Cancel, PutVault, Done, PutFails

LEMMA StepHolder ==
    ASSUME VaultInv, HolderInv, [Next]_vars, lates' = 0
    PROVE  HolderInv'
  <1>1. CASE UNCHANGED vars
    BY <1>1 DEF vars, HolderInv, Holder
  <1>2. CASE LatePut
    BY <1>2 DEF LatePut, HolderInv
  <1>3. ASSUME NEW d \in Devices, Reload(d) PROVE HolderInv'
    <2>1. server' = server /\ slot' = slot
      BY <1>3 DEF Reload
    <2>2. late' = late
      <3>1. lates \in Nat
        BY DEF VaultInv, TypeOK
      <3> QED BY <1>3, <3>1 DEF Reload
    <2>3. ASSUME NEW e \in Devices, Holder(e), server # Null PROVE Holder(e)'
      <3>1. CASE e # d
        BY <1>3, <2>1, <2>3, <3>1, HolderStays DEF Reload, Go, VaultInv, TypeOK, FlowsOK
      <3>2. CASE e = d
        <4>1. flow'[d] = Idle
          BY <1>3, <2>3 DEF Reload, Go, VaultInv, FlowsOK
        <4> QED BY <2>1, <2>3, <3>2, <4>1 DEF Holder, InFirst, Idle
      <3> QED BY <3>1, <3>2
    <2> QED BY <2>1, <2>2, <2>3 DEF HolderInv
  <1>4. ASSUME NEW d \in Devices, Settled(d) PROVE HolderInv'
    BY <1>4, SettledHolder
  <1> QED BY <1>1, <1>2, <1>3, <1>4, FirstHolder, PutHolder, FailHolder DEF Next, Settled

LEMMA HolderIsAWayIn == VaultInv /\ HolderInv => AWayIn
  <1> SUFFICES ASSUME VaultInv, server # Null, NEW d \in Devices, Holder(d)
               PROVE  ByDevice(server, slot[d])
    BY DEF HolderInv, AWayIn
  <1>1. \A i : /\ DeviceSlot(i).publicKey = i
               /\ DeviceSlot(i).wrap = Wrap("device", "device", i)
    BY DEF DeviceSlot
  <1>2. server.publicKey \in Identities
    BY DEF VaultInv, TypeOK, IdentityVaults
  <1>3. /\ slot[d] \in DeviceSlots
        /\ slot[d].publicKey = server.publicKey
        /\ slot[d].wrap = Wrap("device", "device", server.publicKey)
    BY <1>1, <1>2, DeviceType DEF Holder
  <1>4. slot[d] # Null /\ slot[d].wrap # Null
    BY <1>3, ApartAssumption DEF DeviceSlots
  <1> QED BY <1>3, <1>4 DEF ByDevice, Opens

(* Unless an upload outlived the page that sent it, the stored vault has a   *)
(* way back in or a device slot that opens it: in a first run with retries   *)
(* and lost answers, while app lock is turned on and off, and as ways are    *)
(* added and removed from several devices.                                   *)
THEOREM AWayInOnTimeHolds == Spec => []AWayInOnTime
  <1>1. VaultInv /\ OnTimeInv /\ [Next]_vars => OnTimeInv'
    <2>1. lates = 0 \/ lates # 0
      OBVIOUS
    <2> QED BY StepHolder, LatesGrow DEF OnTimeInv
  <1>2. Init => OnTimeInv
    BY InitHolder DEF OnTimeInv
  <1>3. VaultInv /\ OnTimeInv => AWayInOnTime
    BY HolderIsAWayIn DEF OnTimeInv, AWayInOnTime
  <1> QED BY <1>1, <1>2, <1>3, VaultInvariant, PTL DEF Spec
==============================================================================
