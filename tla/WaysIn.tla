------------------------------- MODULE WaysIn -------------------------------
(* What the vault promises a member: which secrets open the key. There is at *)
(* most one passphrase and one recovery code, at most one PRF salt for a     *)
(* passkey, and once there is a way back in there always is one.             *)
(* Source: src/crypto/vault.ts, vault-passkey.ts and ADR-0043 as they state. *)
VARIABLES
    passphrases,   \* the passphrases that open it
    codes,         \* the recovery codes that open it
    prfs           \* the <<credential, salt>> pairs that open it

ways == <<passphrases, codes, prfs>>

None == passphrases = {} /\ codes = {} /\ prfs = {}

Init ==
    /\ \A p, q \in passphrases : p = q
    /\ \A p, q \in codes : p = q
    /\ prfs = {}

SetPassphrase ==
    /\ \E new \in passphrases' : passphrases' = {new}
    /\ UNCHANGED <<codes, prfs>>

SetCode ==
    /\ \E new \in codes' : codes' = {new}
    /\ UNCHANGED <<passphrases, prfs>>

(* One passkey gets a new salt or its first one; the others stay.            *)
SetPasskey ==
    /\ \E new \in prfs' :
           prfs' = {prf \in prfs : prf[1] # new[1]} \cup {new}
    /\ UNCHANGED <<passphrases, codes>>

Remove ==
    /\ \/ passphrases' = {} /\ UNCHANGED <<codes, prfs>>
       \/ codes' = {} /\ UNCHANGED <<passphrases, prfs>>
       \/ /\ \E old \in prfs : prfs' = {prf \in prfs : prf[1] # old[1]}
          /\ UNCHANGED <<passphrases, codes>>
    /\ ~None'

Next == SetPassphrase \/ SetCode \/ SetPasskey \/ Remove

Spec == Init /\ [][Next]_ways
==============================================================================
