------------------------------ MODULE VaultWire ------------------------------
(* The JSON form of the identity vault: three versions, one canonical form   *)
(* per vault, strictly and boundedly decoded.                                *)
(* Source: src/crypto/wire.ts.                                               *)
(*                                                                           *)
(* A JSON object is a function on the set of its keys. Base64url and byte    *)
(* lengths are left out: a wire value stands for well-formed bytes within    *)
(* its bounds, except Malformed.                                             *)
EXTENDS IdentityVault

CONSTANTS
    Work,              \* KDF work factors a wire may name
    MinWork, MaxWork,  \* the accepted range, KDF_BOUNDS
    Malformed          \* a JSON value of the wrong shape or size

Keys == {"v", "publicKey", "kdf", "byPassphrase", "byRecovery", "passkeys"}

(* encodeVault: v1, v2 with passkeys, v3 when a slot of the two is missing.  *)
EncodedVersion(v) ==
    IF v.byPassphrase = Null \/ v.byRecovery = Null THEN 3
    ELSE IF v.passkeys = {} THEN 1 ELSE 2

Present(v) ==
    {"v", "publicKey"}
        \cup (IF v.byPassphrase = Null THEN {} ELSE {"kdf", "byPassphrase"})
        \cup (IF v.byRecovery = Null THEN {} ELSE {"byRecovery"})
        \cup (IF v.passkeys = {} THEN {} ELSE {"passkeys"})

EncodeVault(v) ==
    IF (v.kdf = Null) # (v.byPassphrase = Null) THEN Refused
    ELSE [k \in Present(v) |-> IF k = "v" THEN EncodedVersion(v) ELSE v[k]]

(* The keys a version has: v3 only those present, with the pair together and *)
(* never both of the slots that would make it a v1 or a v2.                  *)
V1Keys == {"v", "publicKey", "kdf", "byPassphrase", "byRecovery"}

RightKeysLoose(w) ==
    LET in == DOMAIN w
    IN  CASE w["v"] = 1 -> in = V1Keys
          [] w["v"] = 2 -> in = V1Keys \cup {"passkeys"}
          [] w["v"] = 3 -> /\ {"v", "publicKey"} \subseteq in
                           /\ in \subseteq Keys
                           /\ ("kdf" \in in) <=> ("byPassphrase" \in in)
          [] OTHER -> FALSE

RightKeys(w) ==
    LET in == DOMAIN w
    IN  CASE w["v"] = 1 -> in = V1Keys
          [] w["v"] = 2 -> in = V1Keys \cup {"passkeys"}
          [] w["v"] = 3 -> /\ {"v", "publicKey"} \subseteq in
                           /\ in \subseteq Keys
                           /\ ("kdf" \in in) <=> ("byPassphrase" \in in)
                           /\ ~({"byPassphrase", "byRecovery"} \subseteq in)
          [] OTHER -> FALSE

KdfInBounds(kdf) == kdf.work \in MinWork .. MaxWork

PasskeysCounted(slots) == Cardinality(slots) \in 1 .. MaxSlots

PasskeysInBounds(slots) ==
    /\ Cardinality(slots) \in 1 .. MaxSlots
    /\ \A a, b \in slots : a.credentialId = b.credentialId => a = b

WellFormed(w) ==
    /\ "v" \in DOMAIN w
    /\ RightKeys(w)
    /\ \A k \in DOMAIN w : w[k] # Malformed
    /\ "kdf" \in DOMAIN w => KdfInBounds(w["kdf"])
    /\ "passkeys" \in DOMAIN w => PasskeysInBounds(w["passkeys"])

DecodeVault(w) ==
    IF ~WellFormed(w) THEN Refused
    ELSE LET part(k, absent) == IF k \in DOMAIN w THEN w[k] ELSE absent
         IN  [publicKey    |-> w["publicKey"],
              kdf          |-> part("kdf", Null),
              byPassphrase |-> part("byPassphrase", Null),
              byRecovery   |-> part("byRecovery", Null),
              passkeys     |-> part("passkeys", {})]
==============================================================================
