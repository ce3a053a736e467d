------------------------------ MODULE VaultLife ------------------------------
(* The life of one vault: every operation of the crypto modules on it, in    *)
(* any order, with right and wrong secrets.                                  *)
(* Sources: src/crypto/vault.ts, vault-passkey.ts, vault-device.ts.          *)
EXTENDS VaultWire

VARIABLES
    vault,
    device    \* the device slot kept beside it, or Null

vars == <<vault, device>>

Prfs == [credentialId : Credentials, prfSalt : Salts]
Kdfs == [salt : Salts, work : MinWork .. MaxWork]

(* createIdentity, or createDeviceIdentity with no slot in the vault yet.    *)
Init ==
    \E i \in Identities :
        \/ /\ vault \in {CreateIdentity(i, p, c, k) :
                            p \in Passphrases, c \in Codes, k \in Kdfs}
           /\ device = Null
        \/ /\ vault = EmptyVault(i)
           /\ device = DeviceSlot(i)

Becomes(next) ==
    /\ next # Refused
    /\ vault' = next
    /\ UNCHANGED device

Passphrase ==
    \E p, old \in Passphrases, k \in Kdfs, c \in Codes :
        \/ Becomes(ChangePassphrase(vault, old, p, k))
        \/ Becomes(RestoreWithRecoveryCode(vault, c, p, k))
        \/ Becomes(AddPassphraseFromDevice(vault, device, p, k))

Kit ==
    \E p \in Passphrases, c \in Codes :
        \/ Becomes(RotateRecoveryCode(vault, p, c))
        \/ Becomes(AddRecoveryKitFromDevice(vault, device, c))

Passkey ==
    \E p \in Passphrases, prf \in Prfs :
        \/ Becomes(AddPasskeySlot(vault, p, prf))
        \/ Becomes(AddPasskeyFromDevice(vault, device, prf))

RemoveWay ==
    \/ Becomes(RemovePassphraseSlot(vault))
    \/ Becomes(RemoveRecoverySlot(vault))
    \/ \E c \in Credentials : Becomes(RemovePasskeySlot(vault, c))

KeepDevice(slot) ==
    /\ slot # Refused
    /\ device' = slot
    /\ UNCHANGED vault

Device ==
    \/ \E p \in Passphrases : KeepDevice(DeviceSlotByPassphrase(vault, p))
    \/ \E prf \in Prfs : KeepDevice(DeviceSlotByPasskey(vault, prf))
    \/ device # Null /\ KeepDevice(Null)

Next == Passphrase \/ Kit \/ Passkey \/ RemoveWay \/ Device

Spec == Init /\ [][Next]_vars
------------------------------------------------------------------------------
Pairs == {<<prf.credentialId, prf.prfSalt>> : prf \in {q \in Prfs : ByPasskey(vault, q)}}

W == INSTANCE WaysIn WITH
        passphrases <- {p \in Passphrases : ByPassphrase(vault, p)},
        codes       <- {c \in Codes : ByRecovery(vault, c)},
        prfs        <- Pairs

(* The vault opens for the last passphrase, the last recovery code and the   *)
(* last salt of each passkey, for nothing that was replaced or removed, and  *)
(* never stops having a way back in: see module WaysIn.                      *)
ImplementsWaysIn == W!Spec

TypeOK ==
    /\ vault \in IdentityVaults(Kdfs)
    /\ device \in DeviceSlots \cup {Null}

(* A slot a vault says it has opens for some secret: no operation leaves a   *)
(* wrap without the KDF, the salt or the identity it needs.                  *)
SlotsOpen ==
    LET slots == VaultSlots(vault)
    IN  /\ slots.passphrase <=> \E p \in Passphrases : ByPassphrase(vault, p)
        /\ slots.recovery <=> \E c \in Codes : ByRecovery(vault, c)
        /\ Cardinality(vault.passkeys) = Cardinality(Pairs)

(* Every vault the operations make travels unchanged: what a client uploads  *)
(* is what any client decodes, in the oldest version that can say it.        *)
Travels ==
    /\ DecodeVault(EncodeVault(vault)) = vault
    /\ EncodeVault(vault)["v"] = 3 <=> ~(VaultSlots(vault).passphrase
                                         /\ VaultSlots(vault).recovery)
------------------------------------------------------------------------------
(* Why it opens. Null, Refused and Malformed are none of the things they      *)
(* stand beside.                                                             *)
PassphraseWraps == Wraps({"passphrase"} \X Passphrases \X Kdfs, "passphrase")
RecoveryWraps   == Wraps({"code"} \X Codes, "recovery")
PasskeyWraps    == Wraps({"prf"} \X Credentials \X Salts, "passkey")

ApartFromVaults ==
    /\ Null \notin Kdfs /\ Null \notin PassphraseWraps /\ Null \notin RecoveryWraps
    /\ Null \notin PasskeyWraps /\ Null \notin DeviceSlots
    /\ Refused \notin IdentityVaults(Kdfs) /\ Refused \notin DeviceSlots /\ Refused # Null
    /\ Malformed \notin 1 .. 3 /\ Malformed \notin Identities /\ Malformed \notin Kdfs
    /\ Malformed \notin PassphraseWraps /\ Malformed \notin RecoveryWraps
    /\ MinWork \in Nat /\ MaxWork \in Nat

ASSUME VaultLifeAssumption == ApartFromVaults

(* Each slot is wrapped for the vault's own identity, with the parameters the *)
(* vault names beside it, and a credential has one slot.                     *)
SlotsSound ==
    /\ vault \in IdentityVaults(Kdfs)
    /\ vault.kdf = Null <=> vault.byPassphrase = Null
    /\ vault.byPassphrase # Null =>
          \E p \in Passphrases : vault.byPassphrase
              = Wrap(UnlockKey(p, vault.kdf), "passphrase", vault.publicKey)
    /\ vault.byRecovery # Null =>
          \E c \in Codes : vault.byRecovery
              = Wrap(RecoveryKey(c), "recovery", vault.publicKey)
    /\ \A slot \in vault.passkeys : slot.wrap
          = Wrap(PasskeyKey(slot.credentialId, slot.prfSalt), "passkey", vault.publicKey)
    /\ \A a, b \in vault.passkeys : a.credentialId = b.credentialId => a = b
    /\ IsFiniteSet(vault.passkeys) /\ Cardinality(vault.passkeys) <= MaxSlots

VaultLifeInv == TypeOK /\ SlotsSound
==============================================================================
