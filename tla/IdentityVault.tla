---------------------------- MODULE IdentityVault ----------------------------
(* The identity vault and the device slot: which secrets open the private    *)
(* key of a member, and what each operation on the slots does.               *)
(* Sources: src/crypto/vault.ts, vault-passkey.ts, vault-device.ts,          *)
(* identity-wrap.ts, and keepRecovery of wire.ts.                            *)
(*                                                                           *)
(* A private key is named by its public key. A wrap is the key it was made   *)
(* with, the slot it belongs to and the identity inside; AES-GCM opens it    *)
(* for exactly these. Bytes, sizes, encodings and the order of the passkeys  *)
(* are left out.                                                             *)
EXTENDS Naturals, FiniteSets

CONSTANTS
    Identities,    \* public keys
    Passphrases,
    Codes,         \* recovery codes
    Credentials,   \* passkeys, by credential id
    Salts,         \* of the passphrase KDF and of the passkey PRF
    MaxSlots,      \* PASSKEY_BOUNDS.maxSlots
    Null,          \* no slot, no wrap
    Refused        \* what an operation that throws gives: DecryptError, ...

ASSUME VaultAssumption == MaxSlots \in Nat \ {0}

(* wrapPrivateKey and unwrapPrivateKey, with the AAD of the slot.            *)
Wrap(key, slot, identity) == [key |-> key, slot |-> slot, of |-> identity]

Opens(key, wrap, slot, identity) ==
    wrap # Null /\ wrap = Wrap(key, slot, identity)

UnlockKey(passphrase, kdf) == <<"passphrase", passphrase, kdf>>
RecoveryKey(code)          == <<"code", code>>
PasskeyKey(credential, salt) == <<"prf", credential, salt>>

(* The vaults over given KDF parameters, and the device slots.               *)
Wraps(keys, slot) == [key : keys, slot : {slot}, of : Identities]

PasskeySlot ==
    [credentialId : Credentials, prfSalt : Salts,
     wrap : Wraps({"prf"} \X Credentials \X Salts, "passkey")]

IdentityVaults(kdfs) ==
    [publicKey : Identities, kdf : kdfs \cup {Null},
     byPassphrase : Wraps({"passphrase"} \X Passphrases \X kdfs, "passphrase") \cup {Null},
     byRecovery : Wraps({"code"} \X Codes, "recovery") \cup {Null},
     passkeys : SUBSET PasskeySlot]

DeviceSlots == [publicKey : Identities, wrap : Wraps({"device"}, "device")]

EmptyVault(identity) ==
    [publicKey |-> identity, kdf |-> Null, byPassphrase |-> Null,
     byRecovery |-> Null, passkeys |-> {}]

(* unlockWithPassphrase, privateKeyByPassphrase.                             *)
ByPassphrase(v, passphrase) ==
    /\ v.kdf # Null
    /\ Opens(UnlockKey(passphrase, v.kdf), v.byPassphrase, "passphrase", v.publicKey)

ByRecovery(v, code) ==
    Opens(RecoveryKey(code), v.byRecovery, "recovery", v.publicKey)

(* A PRF result names its credential, the salt it was asked with, and holds  *)
(* what that credential gives for it.                                        *)
ByPasskey(v, prf) ==
    \E slot \in v.passkeys :
        /\ slot.credentialId = prf.credentialId
        /\ slot.prfSalt = prf.prfSalt
        /\ Opens(PasskeyKey(prf.credentialId, prf.prfSalt), slot.wrap, "passkey",
                 v.publicKey)

WithPassphraseOldKdf(v, passphrase, salt) ==
    [v EXCEPT !.kdf = IF v.kdf = Null THEN salt ELSE v.kdf,
              !.byPassphrase = Wrap(UnlockKey(passphrase, salt), "passphrase",
                                    v.publicKey)]

WithPassphraseSlot(v, passphrase, salt) ==
    [v EXCEPT !.kdf = salt,
              !.byPassphrase = Wrap(UnlockKey(passphrase, salt), "passphrase",
                                    v.publicKey)]

WithRecoverySlot(v, code) ==
    [v EXCEPT !.byRecovery = Wrap(RecoveryKey(code), "recovery", v.publicKey)]

WithoutNone(passkeys, credential) == passkeys

Without(passkeys, credential) ==
    {slot \in passkeys : slot.credentialId # credential}

WithOneSlotTooMany(v, prf) ==
    LET others == Without(v.passkeys, prf.credentialId)
        wrap   == Wrap(PasskeyKey(prf.credentialId, prf.prfSalt), "passkey", v.publicKey)
    IN  IF Cardinality(others) > MaxSlots THEN Refused
        ELSE [v EXCEPT !.passkeys = others \cup
                {[credentialId |-> prf.credentialId, prfSalt |-> prf.prfSalt,
                  wrap |-> wrap]}]

(* One slot for a credential, and no more than MaxSlots.                     *)
WithPasskeySlot(v, prf) ==
    LET others == Without(v.passkeys, prf.credentialId)
        wrap   == Wrap(PasskeyKey(prf.credentialId, prf.prfSalt), "passkey", v.publicKey)
    IN  IF Cardinality(others) >= MaxSlots THEN Refused
        ELSE [v EXCEPT !.passkeys = others \cup
                {[credentialId |-> prf.credentialId, prfSalt |-> prf.prfSalt,
                  wrap |-> wrap]}]

VaultSlots(v) ==
    [passphrase |-> v.byPassphrase # Null, recovery |-> v.byRecovery # Null,
     passkeys |-> v.passkeys # {}]

HasRecoveryMethod(s) == s.passphrase \/ s.recovery \/ s.passkeys

Protected(v) == HasRecoveryMethod(VaultSlots(v))

(* next, unless it lost the last recovery method that before had.            *)
KeepRecovery(before, next) ==
    IF Protected(before) /\ ~Protected(next) THEN Refused ELSE next

RemovePassphraseSlot(v) ==
    KeepRecovery(v, [v EXCEPT !.kdf = Null, !.byPassphrase = Null])

RemoveRecoverySlot(v) == KeepRecovery(v, [v EXCEPT !.byRecovery = Null])

RemovePasskeySlot(v, credential) ==
    KeepRecovery(v, [v EXCEPT !.passkeys = Without(v.passkeys, credential)])

AddPasskeySlot(v, passphrase, prf) ==
    IF ByPassphrase(v, passphrase) THEN WithPasskeySlot(v, prf) ELSE Refused

ChangePassphrase(v, old, new, salt) ==
    IF ByPassphrase(v, old) THEN WithPassphraseSlot(v, new, salt) ELSE Refused

RestoreWithRecoveryCode(v, code, new, salt) ==
    IF ByRecovery(v, code) THEN WithPassphraseSlot(v, new, salt) ELSE Refused

RotateRecoveryCode(v, passphrase, code) ==
    IF ByPassphrase(v, passphrase) THEN WithRecoverySlot(v, code) ELSE Refused

CreateIdentity(identity, passphrase, code, salt) ==
    WithRecoverySlot(WithPassphraseSlot(EmptyVault(identity), passphrase, salt), code)

(* The device slot opens the vault of its identity only. Its key is in the   *)
(* browser's storage and cannot be exported.                                 *)
DeviceSlot(identity) ==
    [publicKey |-> identity, wrap |-> Wrap("device", "device", identity)]

ByDevice(v, device) ==
    /\ device # Null
    /\ device.publicKey = v.publicKey
    /\ Opens("device", device.wrap, "device", v.publicKey)

AddPassphraseFromDevice(v, device, passphrase, salt) ==
    IF ByDevice(v, device) THEN WithPassphraseSlot(v, passphrase, salt) ELSE Refused

AddRecoveryKitFromDevice(v, device, code) ==
    IF ByDevice(v, device) THEN WithRecoverySlot(v, code) ELSE Refused

AddPasskeyFromDevice(v, device, prf) ==
    IF ByDevice(v, device) THEN WithPasskeySlot(v, prf) ELSE Refused

DeviceSlotByPassphrase(v, passphrase) ==
    IF ByPassphrase(v, passphrase) THEN DeviceSlot(v.publicKey) ELSE Refused

DeviceSlotByPasskey(v, prf) ==
    IF ByPasskey(v, prf) THEN DeviceSlot(v.publicKey) ELSE Refused
==============================================================================
