------------------------------ MODULE DataProofs ------------------------------
(* Proofs about what the members' data is kept in: that a vault, whatever is  *)
(* done to it, implements WaysIn, opens and travels (VaultLife, VaultWire,    *)
(* IdentityVault); that builds of different ages leave each other's records   *)
(* alone (Records); that lenses, claims and goals add up to the paisa (Money,  *)
(* Earmarks); that no sale, transfer or snapshot loses anything (Lots,        *)
(* Timeline, Valuation); that a number is read back as it was, whatever its    *)
(* places (Decimals). MCData's run checks the same properties on small         *)
(* instances.                                                                *)
EXTENDS MCData, TLAPS, FiniteSetTheorems, FunctionTheorems,
        SequenceTheorems, WellFoundedInduction

------------------------------------------------------------------------------
(* VaultLife: operations on a vault.                                         *)

(* What a new passphrase does.                                               *)
LEMMA NewPassphrase ==
    ASSUME VaultLifeInv, NEW p \in Passphrases, NEW k \in Kdfs,
           vault' = WithPassphraseSlot(vault, p, k)
    PROVE  SlotsSound' /\ W!SetPassphrase
  <1> DEFINE w == Wrap(UnlockKey(p, k), "passphrase", vault.publicKey)
  <1>1. w \in PassphraseWraps /\ w # Null /\ k # Null
    BY VaultLifeAssumption DEF ApartFromVaults, PassphraseWraps, Wraps, Wrap, UnlockKey,
                               VaultLifeInv, TypeOK, IdentityVaults
  <1>2. /\ vault' = [vault EXCEPT !.kdf = k, !.byPassphrase = w]
        /\ vault \in IdentityVaults(Kdfs)
    BY DEF WithPassphraseSlot, VaultLifeInv, TypeOK
  <1> HIDE DEF w
  <1>3. vault' \in IdentityVaults(Kdfs)
    BY <1>1, <1>2 DEF IdentityVaults, PassphraseWraps
  <1>4. /\ vault'.kdf = k /\ vault'.byPassphrase = w /\ vault'.publicKey = vault.publicKey
        /\ vault'.byRecovery = vault.byRecovery /\ vault'.passkeys = vault.passkeys
    BY <1>1, <1>2 DEF IdentityVaults
  <1>5. SlotsSound'
    BY <1>1, <1>3, <1>4 DEF SlotsSound, VaultLifeInv, w
  <1>6. {q \in Passphrases : ByPassphrase(vault', q)} = {p}
    BY <1>1, <1>4 DEF ByPassphrase, Opens, Wrap, UnlockKey, w
  <1>7. /\ {c \in Codes : ByRecovery(vault', c)} = {c \in Codes : ByRecovery(vault, c)}
        /\ Pairs' = Pairs
    BY <1>4 DEF ByRecovery, Pairs, ByPasskey
  <1> QED
    BY <1>5, <1>6, <1>7 DEF W!SetPassphrase

(* What a new recovery code does.                                            *)
LEMMA NewCode ==
    ASSUME VaultLifeInv, NEW c \in Codes, vault' = WithRecoverySlot(vault, c)
    PROVE  SlotsSound' /\ W!SetCode
  <1> DEFINE w == Wrap(RecoveryKey(c), "recovery", vault.publicKey)
  <1>1. w \in RecoveryWraps /\ w # Null
    BY VaultLifeAssumption DEF ApartFromVaults, RecoveryWraps, Wraps, Wrap, RecoveryKey,
                               VaultLifeInv, TypeOK, IdentityVaults
  <1>2. /\ vault' = [vault EXCEPT !.byRecovery = w]
        /\ vault \in IdentityVaults(Kdfs)
    BY DEF WithRecoverySlot, VaultLifeInv, TypeOK
  <1> HIDE DEF w
  <1>3. vault' \in IdentityVaults(Kdfs)
    BY <1>1, <1>2 DEF IdentityVaults, RecoveryWraps
  <1>4. /\ vault'.kdf = vault.kdf /\ vault'.byPassphrase = vault.byPassphrase
        /\ vault'.publicKey = vault.publicKey
        /\ vault'.byRecovery = w /\ vault'.passkeys = vault.passkeys
    BY <1>1, <1>2 DEF IdentityVaults
  <1>5. SlotsSound'
    BY <1>1, <1>3, <1>4 DEF SlotsSound, VaultLifeInv, w
  <1>6. {d \in Codes : ByRecovery(vault', d)} = {c}
    BY <1>1, <1>4 DEF ByRecovery, Opens, Wrap, RecoveryKey, w
  <1>7. /\ {p \in Passphrases : ByPassphrase(vault', p)} = {p \in Passphrases : ByPassphrase(vault, p)}
        /\ Pairs' = Pairs
    BY <1>4 DEF ByPassphrase, Pairs, ByPasskey
  <1> QED
    BY <1>5, <1>6, <1>7 DEF W!SetCode

(* The salts that open it are those of its slots.                            *)
LEMMA PairsAreSlots ==
    SlotsSound => Pairs = {<<s.credentialId, s.prfSalt>> : s \in vault.passkeys}
  <1> SUFFICES ASSUME SlotsSound
               PROVE  Pairs = {<<s.credentialId, s.prfSalt>> : s \in vault.passkeys}
    OBVIOUS
  <1>1. vault.passkeys \subseteq PasskeySlot
    BY DEF SlotsSound, IdentityVaults
  <1>2. \A s \in PasskeySlot : /\ s.wrap # Null
                               /\ [credentialId |-> s.credentialId, prfSalt |-> s.prfSalt] \in Prfs
    BY VaultLifeAssumption DEF ApartFromVaults, PasskeyWraps, PasskeySlot, Prfs
  <1>3. \A s \in vault.passkeys :
            s.wrap = Wrap(PasskeyKey(s.credentialId, s.prfSalt), "passkey", vault.publicKey)
    BY DEF SlotsSound
  <1>4. \A q \in Prfs : ByPasskey(vault, q) <=>
            \E s \in vault.passkeys : s.credentialId = q.credentialId /\ s.prfSalt = q.prfSalt
    <2> TAKE q \in Prfs
    <2>1. ASSUME NEW s \in vault.passkeys, s.credentialId = q.credentialId, s.prfSalt = q.prfSalt
          PROVE  Opens(PasskeyKey(q.credentialId, q.prfSalt), s.wrap, "passkey", vault.publicKey)
      BY <1>1, <1>2, <1>3, <2>1 DEF Opens
    <2> QED
      BY <2>1 DEF ByPasskey
  <1>5. ASSUME NEW s \in vault.passkeys
        PROVE  <<s.credentialId, s.prfSalt>> \in Pairs
    <2> DEFINE q == [credentialId |-> s.credentialId, prfSalt |-> s.prfSalt]
    <2>1. q \in Prfs /\ q.credentialId = s.credentialId /\ q.prfSalt = s.prfSalt
      BY <1>1, <1>2
    <2> QED
      BY <1>4, <2>1 DEF Pairs
  <1>6. ASSUME NEW x \in Pairs
        PROVE  \E s \in vault.passkeys : x = <<s.credentialId, s.prfSalt>>
    BY <1>4 DEF Pairs
  <1> QED
    BY <1>5, <1>6

(* One credential gets a slot, the others stay.                              *)
LEMMA NewPasskey ==
    ASSUME VaultLifeInv, NEW prf \in Prfs, vault' = WithPasskeySlot(vault, prf), vault' # Refused
    PROVE  SlotsSound' /\ W!SetPasskey
  <1> DEFINE others == Without(vault.passkeys, prf.credentialId)
             w      == Wrap(PasskeyKey(prf.credentialId, prf.prfSalt), "passkey", vault.publicKey)
             slot   == [credentialId |-> prf.credentialId, prfSalt |-> prf.prfSalt, wrap |-> w]
  <1>1. /\ vault \in IdentityVaults(Kdfs) /\ vault.passkeys \subseteq PasskeySlot
        /\ vault.publicKey \in Identities
        /\ IsFiniteSet(vault.passkeys) /\ Cardinality(vault.passkeys) <= MaxSlots
    BY DEF VaultLifeInv, TypeOK, SlotsSound, IdentityVaults
  <1>2. slot \in PasskeySlot /\ prf.credentialId \in Credentials /\ prf.prfSalt \in Salts
    BY <1>1 DEF Prfs, PasskeySlot, Wraps, Wrap, PasskeyKey
  <1>3. others \subseteq vault.passkeys /\ IsFiniteSet(others) /\ Cardinality(others) \in Nat
    BY <1>1, FS_Subset, FS_CardinalityType DEF Without
  <1>4. ~(Cardinality(others) >= MaxSlots) /\ vault' = [vault EXCEPT !.passkeys = others \cup {slot}]
    BY DEF WithPasskeySlot
  <1>5. /\ IsFiniteSet(others \cup {slot})
        /\ Cardinality(others \cup {slot}) <= MaxSlots
    <2> HIDE DEF others, slot
    <2>1. /\ IsFiniteSet(others \cup {slot})
          /\ Cardinality(others \cup {slot}) \in {Cardinality(others), Cardinality(others) + 1}
      BY <1>3, FS_AddElement
    <2> QED
      BY <1>3, <1>4, <2>1, VaultAssumption
  <1>6. slot.credentialId = prf.credentialId /\ slot.prfSalt = prf.prfSalt /\ slot.wrap = w
    OBVIOUS
  <1>7. \A s \in others : s \in vault.passkeys /\ s.credentialId # prf.credentialId
    BY DEF Without
  <1> HIDE DEF slot, w, others
  <1>8. vault' \in IdentityVaults(Kdfs)
    BY <1>1, <1>2, <1>3, <1>4 DEF IdentityVaults
  <1>9. /\ vault'.kdf = vault.kdf /\ vault'.byPassphrase = vault.byPassphrase
        /\ vault'.publicKey = vault.publicKey
        /\ vault'.byRecovery = vault.byRecovery /\ vault'.passkeys = others \cup {slot}
    BY <1>1, <1>4 DEF IdentityVaults
  <1>10. /\ \A s \in vault'.passkeys : s.wrap
                = Wrap(PasskeyKey(s.credentialId, s.prfSalt), "passkey", vault'.publicKey)
         /\ \A a, b \in vault'.passkeys : a.credentialId = b.credentialId => a = b
    BY <1>6, <1>7, <1>9 DEF VaultLifeInv, SlotsSound, w
  <1>11. SlotsSound'
    BY <1>5, <1>8, <1>9, <1>10 DEF VaultLifeInv, SlotsSound
  <1>12. Pairs' = {<<s.credentialId, s.prfSalt>> : s \in vault'.passkeys}
    <2>1. (SlotsSound => Pairs = {<<s.credentialId, s.prfSalt>> : s \in vault.passkeys})'
      BY PairsAreSlots, PTL
    <2> QED
      BY <1>11, <2>1
  <1>13. Pairs = {<<s.credentialId, s.prfSalt>> : s \in vault.passkeys}
    BY PairsAreSlots DEF VaultLifeInv
  <1> DEFINE new == <<prf.credentialId, prf.prfSalt>>
  <1>14. new \in Pairs' /\ Pairs' = {q \in Pairs : q[1] # new[1]} \cup {new}
    <2>1. \A s \in vault.passkeys : s.credentialId # prf.credentialId => s \in others
      BY DEF others, Without
    <2>2. new \in Pairs'
      BY <1>6, <1>9, <1>12
    <2>3. ASSUME NEW q \in Pairs'
          PROVE  q \in {r \in Pairs : r[1] # new[1]} \cup {new}
      <3>1. PICK s \in vault'.passkeys : q = <<s.credentialId, s.prfSalt>>
        BY <1>12, <2>3
      <3>2. CASE s = slot
        BY <1>6, <3>1, <3>2
      <3>3. CASE s \in others
        BY <1>7, <1>13, <3>1, <3>3
      <3> QED
        BY <1>9, <3>1, <3>2, <3>3
    <2>4. ASSUME NEW q \in Pairs, q[1] # new[1]
          PROVE  q \in Pairs'
      <3>1. PICK s \in vault.passkeys : q = <<s.credentialId, s.prfSalt>>
        BY <1>13, <2>4
      <3>2. s \in others
        BY <2>1, <2>4, <3>1
      <3> QED
        BY <1>9, <1>12, <3>1, <3>2
    <2> QED
      BY <2>2, <2>3, <2>4
  <1>15. /\ {q \in Passphrases : ByPassphrase(vault', q)} = {q \in Passphrases : ByPassphrase(vault, q)}
         /\ {c \in Codes : ByRecovery(vault', c)} = {c \in Codes : ByRecovery(vault, c)}
    BY <1>9 DEF ByPassphrase, ByRecovery
  <1> HIDE DEF new
  <1> QED
    BY <1>11, <1>14, <1>15 DEF W!SetPasskey

(* What the vault says it has is what opens it.                              *)
LEMMA SaysWhatOpens ==
    SlotsSound =>
        /\ vault.byPassphrase # Null <=> \E p \in Passphrases : ByPassphrase(vault, p)
        /\ vault.byRecovery # Null <=> \E c \in Codes : ByRecovery(vault, c)
        /\ vault.passkeys # {} <=> Pairs # {}
        /\ Protected(vault) <=> ~W!None
  <1> SUFFICES ASSUME SlotsSound
               PROVE  /\ vault.byPassphrase # Null <=> \E p \in Passphrases : ByPassphrase(vault, p)
                      /\ vault.byRecovery # Null <=> \E c \in Codes : ByRecovery(vault, c)
                      /\ vault.passkeys # {} <=> Pairs # {}
                      /\ Protected(vault) <=> ~W!None
    OBVIOUS
  <1>1. vault.byPassphrase # Null <=> \E p \in Passphrases : ByPassphrase(vault, p)
    BY DEF SlotsSound, ByPassphrase, Opens
  <1>2. vault.byRecovery # Null <=> \E c \in Codes : ByRecovery(vault, c)
    BY DEF SlotsSound, ByRecovery, Opens
  <1>3. vault.passkeys # {} <=> Pairs # {}
    <2>1. Pairs = {<<s.credentialId, s.prfSalt>> : s \in vault.passkeys}
      BY PairsAreSlots
    <2> QED
      BY <2>1
  <1> QED
    BY <1>1, <1>2, <1>3 DEF Protected, HasRecoveryMethod, VaultSlots, W!None

(* A slot that is removed: what is left opens as before, and a vault with a   *)
(* way back in keeps one.                                                    *)
LEMMA Removed ==
    ASSUME VaultLifeInv, RemoveWay
    PROVE  SlotsSound' /\ (W!Remove \/ UNCHANGED W!ways)
  <1> DEFINE ps == {p \in Passphrases : ByPassphrase(vault, p)}
             cs == {c \in Codes : ByRecovery(vault, c)}
  <1>1. /\ vault \in IdentityVaults(Kdfs) /\ SlotsSound
        /\ vault.passkeys \subseteq PasskeySlot
        /\ IsFiniteSet(vault.passkeys) /\ Cardinality(vault.passkeys) \in Nat
        /\ Cardinality(vault.passkeys) <= MaxSlots
    BY FS_CardinalityType DEF VaultLifeInv, SlotsSound, IdentityVaults
  <1>2. Protected(vault) => Protected(vault')
    BY DEF RemoveWay, RemovePassphraseSlot, RemoveRecoverySlot, RemovePasskeySlot,
           KeepRecovery, Becomes
  <1>3. \/ vault' = [vault EXCEPT !.kdf = Null, !.byPassphrase = Null]
        \/ vault' = [vault EXCEPT !.byRecovery = Null]
        \/ \E c \in Credentials : vault' = [vault EXCEPT !.passkeys = Without(vault.passkeys, c)]
    BY DEF RemoveWay, RemovePassphraseSlot, RemoveRecoverySlot, RemovePasskeySlot,
           KeepRecovery, Becomes
  <1>4. /\ Protected(vault) <=> ~W!None
        /\ SlotsSound' => (Protected(vault') <=> ~W!None')
    <2>1. (SlotsSound => (Protected(vault) <=> ~W!None))'
      BY SaysWhatOpens, PTL
    <2> QED
      BY <1>1, <2>1, SaysWhatOpens
  <1>5. CASE vault' = [vault EXCEPT !.kdf = Null, !.byPassphrase = Null]
    <2>1. /\ vault'.kdf = Null /\ vault'.byPassphrase = Null /\ vault'.publicKey = vault.publicKey
          /\ vault'.byRecovery = vault.byRecovery /\ vault'.passkeys = vault.passkeys
          /\ vault' \in IdentityVaults(Kdfs)
      BY <1>1, <1>5 DEF IdentityVaults
    <2>2. SlotsSound'
      BY <1>1, <2>1 DEF SlotsSound
    <2>3. /\ {p \in Passphrases : ByPassphrase(vault', p)} = {}
          /\ {c \in Codes : ByRecovery(vault', c)} = {c \in Codes : ByRecovery(vault, c)}
          /\ Pairs' = Pairs
      BY <2>1 DEF ByPassphrase, ByRecovery, Pairs, ByPasskey
    <2> QED
      BY <1>2, <1>4, <2>2, <2>3 DEF W!Remove, W!ways, W!None
  <1>6. CASE vault' = [vault EXCEPT !.byRecovery = Null]
    <2>1. /\ vault'.kdf = vault.kdf /\ vault'.byPassphrase = vault.byPassphrase
          /\ vault'.publicKey = vault.publicKey
          /\ vault'.byRecovery = Null /\ vault'.passkeys = vault.passkeys
          /\ vault' \in IdentityVaults(Kdfs)
      BY <1>1, <1>6 DEF IdentityVaults
    <2>2. SlotsSound'
      BY <1>1, <2>1 DEF SlotsSound
    <2>3. /\ {p \in Passphrases : ByPassphrase(vault', p)} = {p \in Passphrases : ByPassphrase(vault, p)}
          /\ {c \in Codes : ByRecovery(vault', c)} = {}
          /\ Pairs' = Pairs
      BY <2>1 DEF ByPassphrase, ByRecovery, Pairs, ByPasskey, Opens
    <2> QED
      BY <1>2, <1>4, <2>2, <2>3 DEF W!Remove, W!ways, W!None
  <1>7. ASSUME NEW c \in Credentials,
               vault' = [vault EXCEPT !.passkeys = Without(vault.passkeys, c)]
        PROVE  SlotsSound' /\ (W!Remove \/ UNCHANGED W!ways)
    <2> DEFINE left == Without(vault.passkeys, c)
    <2>1. /\ left \subseteq vault.passkeys /\ IsFiniteSet(left)
          /\ Cardinality(left) <= MaxSlots
      <3>1. left \subseteq vault.passkeys
        BY DEF Without
      <3> HIDE DEF left
      <3>2. IsFiniteSet(left) /\ Cardinality(left) \in Nat
               /\ Cardinality(left) <= Cardinality(vault.passkeys)
        BY <1>1, <3>1, FS_Subset, FS_CardinalityType
      <3> QED
        BY <1>1, <3>1, <3>2, VaultAssumption
    <2>2. \A s \in vault.passkeys : s \in left <=> s.credentialId # c
      BY DEF Without
    <2> HIDE DEF left
    <2>3. /\ vault'.kdf = vault.kdf /\ vault'.byPassphrase = vault.byPassphrase
          /\ vault'.publicKey = vault.publicKey
          /\ vault'.byRecovery = vault.byRecovery /\ vault'.passkeys = left
          /\ vault' \in IdentityVaults(Kdfs)
      BY <1>1, <1>7, <2>1 DEF IdentityVaults, left
    <2>4. SlotsSound'
      BY <1>1, <2>1, <2>3 DEF SlotsSound
    <2>5. /\ {p \in Passphrases : ByPassphrase(vault', p)} = {p \in Passphrases : ByPassphrase(vault, p)}
          /\ {d \in Codes : ByRecovery(vault', d)} = {d \in Codes : ByRecovery(vault, d)}
      BY <2>3 DEF ByPassphrase, ByRecovery
    <2>6. /\ Pairs = {<<s.credentialId, s.prfSalt>> : s \in vault.passkeys}
          /\ Pairs' = {<<s.credentialId, s.prfSalt>> : s \in left}
      <3>1. (SlotsSound => Pairs = {<<s.credentialId, s.prfSalt>> : s \in vault.passkeys})'
        BY PairsAreSlots, PTL
      <3> QED
        BY <1>1, <2>3, <2>4, <3>1, PairsAreSlots
    <2>7. CASE \E s \in vault.passkeys : s.credentialId = c
      <3>1. PICK s \in vault.passkeys : s.credentialId = c
        BY <2>7
      <3>2. /\ <<s.credentialId, s.prfSalt>> \in Pairs
            /\ Pairs' = {q \in Pairs : q[1] # <<s.credentialId, s.prfSalt>>[1]}
        BY <2>1, <2>2, <2>6, <3>1
      <3>3. Protected(vault) /\ Protected(vault')
        BY <1>2, <3>1 DEF Protected, HasRecoveryMethod, VaultSlots
      <3> QED
        BY <1>4, <2>4, <2>5, <3>2, <3>3 DEF W!Remove, W!None
    <2>8. CASE ~ \E s \in vault.passkeys : s.credentialId = c
      <3>1. left = vault.passkeys
        BY <2>1, <2>2, <2>8
      <3> QED
        BY <2>4, <2>5, <2>6, <3>1 DEF W!ways
    <2> QED
      BY <2>7, <2>8
  <1> QED
    BY <1>3, <1>5, <1>6, <1>7

LEMMA VaultLifeInit == Init => VaultLifeInv /\ W!Init
  <1> SUFFICES ASSUME Init PROVE VaultLifeInv /\ W!Init
    OBVIOUS
  <1>1. IsFiniteSet({}) /\ Cardinality({}) = 0
    BY FS_EmptySet
  <1>2. PICK i \in Identities :
            \/ /\ vault \in {CreateIdentity(i, p, c, k) :
                                p \in Passphrases, c \in Codes, k \in Kdfs}
               /\ device = Null
            \/ /\ vault = EmptyVault(i)
               /\ device = DeviceSlot(i)
    BY DEF Init
  <1>3. CASE vault = EmptyVault(i) /\ device = DeviceSlot(i)
    <2>1. vault \in IdentityVaults(Kdfs) /\ device \in DeviceSlots
      BY <1>3 DEF EmptyVault, IdentityVaults, DeviceSlot, DeviceSlots, Wraps, Wrap
    <2>2. SlotsSound
      BY <1>1, <1>3, <2>1, VaultAssumption DEF SlotsSound, EmptyVault
    <2>3. W!None
      BY <1>3 DEF W!None, EmptyVault, Pairs, ByPassphrase, ByRecovery, ByPasskey, Opens
    <2> QED
      BY <2>1, <2>2, <2>3 DEF VaultLifeInv, TypeOK, W!Init, W!None
  <1>4. ASSUME NEW p \in Passphrases, NEW c \in Codes, NEW k \in Kdfs, device = Null,
               vault = CreateIdentity(i, p, c, k)
        PROVE  VaultLifeInv /\ W!Init
    <2> DEFINE w == Wrap(UnlockKey(p, k), "passphrase", i)
               x == Wrap(RecoveryKey(c), "recovery", i)
    <2>1. /\ w \in PassphraseWraps /\ x \in RecoveryWraps
          /\ w # Null /\ x # Null /\ k # Null
      BY VaultLifeAssumption DEF ApartFromVaults, PassphraseWraps, RecoveryWraps, Wraps,
                                 Wrap, UnlockKey, RecoveryKey
    <2>2. vault = [publicKey |-> i, kdf |-> k, byPassphrase |-> w, byRecovery |-> x, passkeys |-> {}]
      BY <1>4 DEF CreateIdentity, WithRecoverySlot, WithPassphraseSlot, EmptyVault
    <2> HIDE DEF w, x
    <2>3. vault \in IdentityVaults(Kdfs)
      BY <2>1, <2>2 DEF IdentityVaults, PassphraseWraps, RecoveryWraps
    <2>4. SlotsSound
      BY <1>1, <2>1, <2>2, <2>3, VaultAssumption DEF SlotsSound, w, x
    <2>5. W!Init
      BY <2>1, <2>2 DEF W!Init, ByPassphrase, ByRecovery, Pairs, ByPasskey, Opens, Wrap,
                        UnlockKey, RecoveryKey, w, x
    <2> QED
      BY <1>4, <2>3, <2>4, <2>5 DEF VaultLifeInv, TypeOK
  <1> QED
    BY <1>2, <1>3, <1>4

(* Every step keeps the invariant and is one the abstract vault may take.    *)
LEMMA VaultLifeStep ==
    ASSUME VaultLifeInv, [Next]_vars
    PROVE  VaultLifeInv' /\ [W!Next]_(W!ways)
  <1>1. CASE Passphrase
    <2>1. \E p \in Passphrases, k \in Kdfs : vault' = WithPassphraseSlot(vault, p, k)
      BY <1>1 DEF Passphrase, Becomes, ChangePassphrase, RestoreWithRecoveryCode,
                  AddPassphraseFromDevice
    <2>2. SlotsSound' /\ W!SetPassphrase
      BY <2>1, NewPassphrase
    <2> QED
      BY <1>1, <2>2 DEF VaultLifeInv, TypeOK, SlotsSound, W!Next, Passphrase, Becomes
  <1>2. CASE Kit
    <2>1. \E c \in Codes : vault' = WithRecoverySlot(vault, c)
      BY <1>2 DEF Kit, Becomes, RotateRecoveryCode, AddRecoveryKitFromDevice
    <2>2. SlotsSound' /\ W!SetCode
      BY <2>1, NewCode
    <2> QED
      BY <1>2, <2>2 DEF VaultLifeInv, TypeOK, SlotsSound, W!Next, Kit, Becomes
  <1>3. CASE Passkey
    <2>1. vault' # Refused /\ \E prf \in Prfs : vault' = WithPasskeySlot(vault, prf)
      BY <1>3 DEF Passkey, Becomes, AddPasskeySlot, AddPasskeyFromDevice
    <2>2. SlotsSound' /\ W!SetPasskey
      BY <2>1, NewPasskey
    <2> QED
      BY <1>3, <2>2 DEF VaultLifeInv, TypeOK, SlotsSound, W!Next, Passkey, Becomes
  <1>4. CASE RemoveWay
    <2>1. SlotsSound' /\ (W!Remove \/ UNCHANGED W!ways)
      BY <1>4, Removed
    <2> QED
      BY <1>4, <2>1 DEF VaultLifeInv, TypeOK, SlotsSound, W!Next, RemoveWay, Becomes
  <1>5. CASE Device \/ UNCHANGED vars
    <2>1. vault' = vault /\ device' \in DeviceSlots \cup {Null}
      BY <1>5 DEF Device, KeepDevice, vars, DeviceSlotByPassphrase, DeviceSlotByPasskey,
                  DeviceSlot, DeviceSlots, Wraps, Wrap, VaultLifeInv, TypeOK,
                  IdentityVaults
    <2>2. SlotsSound' /\ UNCHANGED W!ways
      BY <2>1 DEF VaultLifeInv, SlotsSound, W!ways, Pairs
    <2> QED
      BY <2>1, <2>2 DEF VaultLifeInv, TypeOK
  <1> QED
    BY <1>1, <1>2, <1>3, <1>4, <1>5 DEF Next

(* Every slot of a vault is sound, whatever operations it went through.        *)
THEOREM VaultLifeInvariant == Spec => []VaultLifeInv
  <1> QED
    BY VaultLifeInit, VaultLifeStep, PTL DEF Spec

(* A vault's slots are its owner's ways in: adding, replacing and removing one     *)
(* does to a device's chances of opening the vault what WaysIn says (vault.ts).   *)
THEOREM ImplementsWaysInHolds == Spec => ImplementsWaysIn
  <1> QED
    BY VaultLifeInit, VaultLifeStep, VaultLifeInvariant, PTL
       DEF Spec, ImplementsWaysIn, W!Spec

(* What SlotsOpen adds to SaysWhatOpens: salts and slots are as many.         *)
LEMMA SoundSlotsOpen == SlotsSound => SlotsOpen
  <1> SUFFICES ASSUME SlotsSound PROVE SlotsOpen
    OBVIOUS
  <1> DEFINE f == [s \in vault.passkeys |-> <<s.credentialId, s.prfSalt>>]
  <1>1. IsFiniteSet(vault.passkeys) /\ Pairs = {<<s.credentialId, s.prfSalt>> : s \in vault.passkeys}
    BY PairsAreSlots DEF SlotsSound
  <1>2. f \in Bijection(vault.passkeys, Pairs)
    <2>1. \A a, b \in vault.passkeys : f[a] = f[b] => a = b
      BY DEF SlotsSound
    <2>2. f \in [vault.passkeys -> Pairs] /\ \A q \in Pairs : \E s \in vault.passkeys : f[s] = q
      BY <1>1
    <2> QED
      BY <2>1, <2>2, Fun_IsBij
  <1>3. Cardinality(vault.passkeys) = Cardinality(Pairs)
    BY <1>1, <1>2, FS_Bijection DEF ExistsBijection
  <1>4. /\ VaultSlots(vault).passphrase <=> vault.byPassphrase # Null
        /\ VaultSlots(vault).recovery <=> vault.byRecovery # Null
    BY DEF VaultSlots
  <1> QED
    BY <1>3, <1>4, SaysWhatOpens DEF SlotsOpen

(* A sound vault has a wire form, which decodes to that vault.                *)
LEMMA SoundTravels ==
    ASSUME Malformed \notin SUBSET PasskeySlot
    PROVE  SlotsSound => Travels
  <1> SUFFICES ASSUME SlotsSound PROVE Travels
    OBVIOUS
  <1> DEFINE w == EncodeVault(vault)
  <1>1. /\ vault \in IdentityVaults(Kdfs) /\ vault.passkeys \in SUBSET PasskeySlot
        /\ vault.publicKey \in Identities /\ vault.kdf \in Kdfs \cup {Null}
        /\ vault.byPassphrase \in PassphraseWraps \cup {Null}
        /\ vault.byRecovery \in RecoveryWraps \cup {Null}
        /\ vault.kdf = Null <=> vault.byPassphrase = Null
    BY DEF SlotsSound, IdentityVaults, PassphraseWraps, RecoveryWraps
  <1>2. /\ w = [k \in Present(vault) |-> IF k = "v" THEN EncodedVersion(vault) ELSE vault[k]]
        /\ DOMAIN w = Present(vault)
    BY <1>1 DEF EncodeVault
  <1>3. /\ "v" \in Present(vault) /\ "publicKey" \in Present(vault)
        /\ "kdf" \in Present(vault) <=> vault.kdf # Null
        /\ "byPassphrase" \in Present(vault) <=> vault.byPassphrase # Null
        /\ "byRecovery" \in Present(vault) <=> vault.byRecovery # Null
        /\ "passkeys" \in Present(vault) <=> vault.passkeys # {}
        /\ Present(vault) \subseteq Keys
    BY <1>1 DEF Present, Keys
  <1>4. /\ w["v"] = EncodedVersion(vault) /\ w["publicKey"] = vault.publicKey
        /\ "kdf" \in Present(vault) => w["kdf"] = vault.kdf
        /\ "byPassphrase" \in Present(vault) => w["byPassphrase"] = vault.byPassphrase
        /\ "byRecovery" \in Present(vault) => w["byRecovery"] = vault.byRecovery
        /\ "passkeys" \in Present(vault) => w["passkeys"] = vault.passkeys
    BY <1>2, <1>3
  <1> HIDE DEF w
  <1>5. RightKeys(w)
    <2>1. CASE EncodedVersion(vault) = 1
      BY <1>2, <1>3, <1>4, <1>1, <2>1 DEF RightKeys, V1Keys, EncodedVersion, Present
    <2>2. CASE EncodedVersion(vault) = 2
      BY <1>2, <1>3, <1>4, <1>1, <2>2 DEF RightKeys, V1Keys, EncodedVersion, Present
    <2>3. CASE EncodedVersion(vault) = 3
      BY <1>2, <1>3, <1>4, <1>1, <2>3 DEF RightKeys, EncodedVersion
    <2> QED
      BY <2>1, <2>2, <2>3 DEF EncodedVersion
  <1>6. ASSUME NEW k \in DOMAIN w
        PROVE  w[k] # Malformed
    <2>1. /\ Malformed \notin 1 .. 3 /\ Malformed \notin Identities /\ Malformed \notin Kdfs
          /\ Malformed \notin PassphraseWraps /\ Malformed \notin RecoveryWraps
      BY VaultLifeAssumption DEF ApartFromVaults
    <2>2. k \in Keys
      BY <1>2, <1>3
    <2>3. CASE k = "v"
      BY <1>4, <2>1, <2>3 DEF EncodedVersion
    <2>4. CASE k # "v"
      BY <1>1, <1>2, <1>3, <1>4, <2>1, <2>2, <2>4 DEF Keys
    <2> QED
      BY <2>3, <2>4
  <1>7. "kdf" \in DOMAIN w => KdfInBounds(w["kdf"])
    BY <1>1, <1>2, <1>3, <1>4 DEF KdfInBounds, Kdfs
  <1>8. "passkeys" \in DOMAIN w => PasskeysInBounds(w["passkeys"])
    <2>1. vault.passkeys # {} => Cardinality(vault.passkeys) \in 1 .. MaxSlots
      BY FS_EmptySet, FS_CardinalityType, VaultAssumption DEF SlotsSound
    <2> QED
      BY <1>2, <1>3, <1>4, <2>1 DEF PasskeysInBounds, SlotsSound
  <1>9. WellFormed(w)
    BY <1>2, <1>3, <1>5, <1>6, <1>7, <1>8 DEF WellFormed
  <1>10. DecodeVault(w) = vault
    <2>1. DecodeVault(w) =
             [publicKey    |-> w["publicKey"],
              kdf          |-> IF "kdf" \in DOMAIN w THEN w["kdf"] ELSE Null,
              byPassphrase |-> IF "byPassphrase" \in DOMAIN w THEN w["byPassphrase"] ELSE Null,
              byRecovery   |-> IF "byRecovery" \in DOMAIN w THEN w["byRecovery"] ELSE Null,
              passkeys     |-> IF "passkeys" \in DOMAIN w THEN w["passkeys"] ELSE {}]
      BY <1>9 DEF DecodeVault
    <2>2. DecodeVault(w) =
             [publicKey    |-> vault.publicKey, kdf |-> vault.kdf,
              byPassphrase |-> vault.byPassphrase, byRecovery |-> vault.byRecovery,
              passkeys     |-> vault.passkeys]
      BY <1>1, <1>2, <1>3, <1>4, <2>1
    <2> QED
      BY <1>1, <2>2 DEF IdentityVaults
  <1>11. w["v"] = 3 <=> ~(VaultSlots(vault).passphrase /\ VaultSlots(vault).recovery)
    <2>1. /\ VaultSlots(vault).passphrase <=> vault.byPassphrase # Null
          /\ VaultSlots(vault).recovery <=> vault.byRecovery # Null
      BY DEF VaultSlots
    <2>2. w["v"] = 3 <=> vault.byPassphrase = Null \/ vault.byRecovery = Null
      BY <1>4 DEF EncodedVersion
    <2> QED
      BY <2>1, <2>2
  <1> QED
    BY <1>10, <1>11 DEF Travels, w
------------------------------------------------------------------------------
(* VaultWire: the JSON form.                                                 *)

(* An object has keys of the wire form only, each with a value of its kind.  *)
LEMMA WireInit == MCInit => WireInv
  <1> SUFFICES ASSUME MCInit, side = "wire" PROVE WireInv
    BY DEF WireInv
  <1>1. input = [k \in {} |-> Null]
    BY DEF MCInit, Inputs
  <1> QED
    BY <1>1 DEF WireInv

LEMMA WireStep == WireInv /\ [MCNext]_mcVars => WireInv'
  <1> SUFFICES ASSUME WireInv, [MCNext]_mcVars, side' = "wire" PROVE WireInv'
    BY DEF WireInv
  <1>1. side = "wire"
    BY DEF MCNext, mcVars
  <1>2. CASE AddKey
    <2>1. PICK k \in Keys \ DOMAIN input : \E x \in WireValues(k) :
              input' = [l \in DOMAIN input \cup {k} |-> IF l = k THEN x ELSE input[l]]
      BY <1>2 DEF AddKey
    <2>1a. PICK x \in WireValues(k) :
              input' = [l \in DOMAIN input \cup {k} |-> IF l = k THEN x ELSE input[l]]
      BY <2>1
    <2>2. DOMAIN input' = DOMAIN input \cup {k} /\ DOMAIN input \subseteq Keys
      BY <1>1, <2>1a DEF WireInv
    <2>3. /\ input'[k] = x
          /\ \A l \in DOMAIN input : l # k /\ input'[l] = input[l]
      BY <2>1a
    <2>4. input' = [l \in DOMAIN input' |-> input'[l]]
      BY <2>1a, <2>2
    <2>5. ASSUME NEW l \in DOMAIN input'
          PROVE  input'[l] \in WireValues(l)
      BY <1>1, <2>1a, <2>2, <2>3, <2>5 DEF WireInv
    <2> QED
      BY <2>2, <2>4, <2>5 DEF WireInv
  <1>3. CASE UNCHANGED input
    BY <1>1, <1>3 DEF WireInv
  <1> QED
    BY <1>1, <1>2, <1>3 DEF MCNext, mcVars, Ask, AddHolding, MoveGoal, AddLeg, Buy, Sell,
                            AddAsset, Fetch, AddSnapshot, AddRow

(* What is well formed is the one form of the vault it decodes to, which is sound. *)
LEMMA WireForms ==
    ASSUME WireInv, side = "wire", WellFormed(input)
    PROVE  /\ EncodeVault(DecodeVault(input)) = input
           /\ DecodedIsSound
  <1> DEFINE d == DecodeVault(input)
             D == DOMAIN input
  <1>1. /\ D \subseteq Keys /\ "v" \in D /\ "publicKey" \in D
        /\ "kdf" \in D <=> "byPassphrase" \in D
        /\ input["v"] \in {1, 2, 3}
        /\ input["v"] = 1 => D = V1Keys
        /\ input["v"] = 2 => D = V1Keys \cup {"passkeys"}
        /\ input["v"] = 3 => ~({"byPassphrase", "byRecovery"} \subseteq D)
    BY DEF WireInv, WellFormed, RightKeys, V1Keys
  <1>2. d = [publicKey    |-> input["publicKey"],
             kdf          |-> IF "kdf" \in D THEN input["kdf"] ELSE Null,
             byPassphrase |-> IF "byPassphrase" \in D THEN input["byPassphrase"] ELSE Null,
             byRecovery   |-> IF "byRecovery" \in D THEN input["byRecovery"] ELSE Null,
             passkeys     |-> IF "passkeys" \in D THEN input["passkeys"] ELSE {}]
    BY DEF DecodeVault
  <1>3. /\ \A k \in D : input[k] # Malformed /\ input[k] \in WireValues(k)
        /\ "kdf" \in D => KdfInBounds(input["kdf"])
        /\ "passkeys" \in D => PasskeysInBounds(input["passkeys"])
    BY DEF WireInv, WellFormed
  <1>4. /\ "kdf" \in D => input["kdf"] \in [salt : Salts, work : Work]
        /\ "byPassphrase" \in D => input["byPassphrase"] \in Wraps({"passphrase"}, "passphrase")
        /\ "byRecovery" \in D => input["byRecovery"] \in Wraps({"recovery"}, "recovery")
    BY <1>3, WireAssumption DEF WireValues, Wraps, Wrap
  <1>5. /\ "kdf" \in D => input["kdf"] # Null
        /\ "byPassphrase" \in D => input["byPassphrase"] # Null
        /\ "byRecovery" \in D => input["byRecovery"] # Null
        /\ "passkeys" \in D => input["passkeys"] # {}
    <2>1. "passkeys" \in D => input["passkeys"] # {}
      BY <1>3, FS_EmptySet DEF PasskeysInBounds
    <2>2. /\ "kdf" \in D => input["kdf"] # Null
          /\ "byPassphrase" \in D => input["byPassphrase"] # Null
          /\ "byRecovery" \in D => input["byRecovery"] # Null
      BY <1>4, WireAssumption DEF ApartFromWires
    <2> QED
      BY <2>1, <2>2
  <1> HIDE DEF d
  <1>6. /\ d.publicKey = input["publicKey"]
        /\ d.kdf = Null <=> "kdf" \notin D
        /\ d.byPassphrase = Null <=> "byPassphrase" \notin D
        /\ d.byRecovery = Null <=> "byRecovery" \notin D
        /\ d.passkeys = {} <=> "passkeys" \notin D
    BY <1>2, <1>5
  <1>7. \A k \in D \ {"v"} : d[k] = input[k]
    BY <1>1, <1>2 DEF Keys
  <1>8. Present(d) = D
    BY <1>1, <1>6 DEF Present, Keys
  <1>9. EncodedVersion(d) = input["v"]
    BY <1>1, <1>6 DEF EncodedVersion, V1Keys
  <1>10. EncodeVault(d) = [k \in D |-> IF k = "v" THEN EncodedVersion(d) ELSE d[k]]
    BY <1>1, <1>6, <1>8 DEF EncodeVault
  <1>11. EncodeVault(d) = input
    <2>1. input = [k \in D |-> input[k]]
      BY DEF WireInv
    <2> QED
      BY <1>7, <1>9, <1>10, <2>1
  <1>12. d.kdf # Null => d.kdf.work \in MinWork .. MaxWork
    BY <1>2, <1>3, <1>6 DEF KdfInBounds
  <1>13. Cardinality(d.passkeys) <= MaxSlots
    BY <1>2, <1>3, FS_EmptySet, VaultAssumption DEF PasskeysInBounds
  <1>14. ASSUME NEW c \in Credentials
         PROVE  Cardinality({slot \in d.passkeys : slot.credentialId = c}) <= 1
    <2> DEFINE S == {slot \in d.passkeys : slot.credentialId = c}
    <2>1. \A a, b \in d.passkeys : a.credentialId = b.credentialId => a = b
      BY <1>2, <1>3 DEF PasskeysInBounds
    <2>2. CASE S = {}
      BY <2>2, FS_EmptySet
    <2>3. CASE S # {}
      <3>1. PICK a \in S : TRUE
        BY <2>3
      <3>2. \A b \in S : b = a
        BY <2>1, <3>1
      <3> HIDE DEF S
      <3>3. S = {a}
        BY <3>1, <3>2
      <3>4. Cardinality(S) = 1
        BY <3>3, FS_Singleton
      <3> QED
        BY <3>4 DEF S
    <2> QED
      BY <2>2, <2>3
  <1>15. Malformed \notin {d.publicKey, d.byPassphrase, d.byRecovery}
    BY <1>1, <1>2, <1>3, WireAssumption DEF ApartFromWires
  <1> QED
    BY <1>1, <1>6, <1>11, <1>12, <1>13, <1>14, <1>15 DEF DecodedIsSound, d

(* Every behaviour of the run's specification keeps both invariants: on the   *)
(* sides that are not about a vault it stays as it was made.                 *)
LEMMA DataInvariant == MCSpec => [](VaultLifeInv /\ WireInv)
  <1>1. MCInit => VaultLifeInv /\ WireInv
    BY VaultLifeInit, WireInit DEF MCInit
  <1>2. VaultLifeInv /\ WireInv /\ [MCNext]_mcVars => (VaultLifeInv /\ WireInv)'
    <2>1. [MCNext]_mcVars => [Next]_vars
      BY DEF MCNext, mcVars
    <2> QED
      BY <2>1, VaultLifeStep, WireStep
  <1> QED
    BY <1>1, <1>2, PTL DEF MCSpec

(* Whatever is added, replaced and removed, every slot of a vault opens, what  *)
(* a client uploads is what any client decodes, a vault has one wire form and  *)
(* nothing unsound decodes (src/crypto/vault.ts, wire.ts): for any identities, *)
(* secrets, bounds and work factors.                                         *)
THEOREM VaultsOpenHolds ==
    ASSUME Malformed \notin SUBSET PasskeySlot
    PROVE  MCSpec => []VaultsOpen
  <1>1. VaultLifeInv /\ WireInv => VaultsOpen
    <2> SUFFICES ASSUME VaultLifeInv, WireInv PROVE VaultsOpen
      OBVIOUS
    <2>1. SlotsOpen /\ Travels
      BY SoundSlotsOpen, SoundTravels DEF VaultLifeInv
    <2>2. CASE side = "wire" /\ WellFormed(input)
      BY <2>1, <2>2, WireForms DEF VaultsOpen, OneForm
    <2>3. CASE ~(side = "wire" /\ WellFormed(input))
      BY <2>1, <2>3 DEF VaultsOpen, OneForm, DecodedIsSound, DecodeVault
    <2> QED
      BY <2>2, <2>3
  <1> QED
    BY <1>1, DataInvariant, PTL
------------------------------------------------------------------------------
(* Records: what each build makes of a record, and what it saves over.        *)

(* A set of numbers below a bound has a largest one.                          *)
LEMMA Largest ==
    ASSUME NEW S \in SUBSET Nat, S # {}, NEW n \in Nat, \A x \in S : x < n
    PROVE  \E x \in S : \A y \in S : y <= x
  <1> DEFINE T == {n - x : x \in S}
  <1>0. \A x \in S : n - x \in Nat
    OBVIOUS
  <1>1. T \subseteq Nat /\ T # {}
    BY <1>0
  <1> HIDE DEF T
  <1>2. PICK t \in T : \A u \in T : ~(<<u, t>> \in OpToRel(<, Nat))
    BY <1>1, NatLessThanWellFounded, WFMin
  <1>3. \A u \in T : ~(u < t)
    BY <1>1, <1>2 DEF OpToRel
  <1>4. PICK x \in S : t = n - x
    BY DEF T
  <1>5. \A y \in S : n - y \in T
    BY DEF T
  <1> QED
    BY <1>3, <1>4, <1>5

(* A build reads what it or an older one wrote.                               *)
LEMMA ReadsOlder ==
    ASSUME Typed!CodecConstants, NEW b \in Builds, NEW r \in Typed!Sound
    PROVE  /\ Typed!Read(Codecs(b), r).status = "ok" <=>
                  r.type \in DOMAIN Codecs(b) /\ r.version <= Codecs(b)[r.type].current
           /\ Typed!Read(Codecs(b), r).status = "ok" =>
                  Typed!Read(Codecs(b), r).value = [r.data EXCEPT !.shape = Codecs(b)[r.type].current]
  <1> DEFINE missing == r.version .. Codecs(b)[r.type].current - 1
  <1>1. /\ r.version \in Nat \ {0} /\ r.data.shape = r.version
        /\ r.data \in [shape : Nat, memberId : Writers \cup {Null}, value : Values \cup {Null}]
        /\ r.type = "member" => r.data.memberId = r.modifiedBy
    BY DEF Typed!Sound
  <1>2. CASE r.type \notin DOMAIN Codecs(b)
    BY <1>2 DEF Typed!Read, Typed!ReadRecord
  <1>3. CASE r.type \in DOMAIN Codecs(b) /\ r.version > Codecs(b)[r.type].current
    <2>1. Codecs(b)[r.type].current \in Nat
      BY <1>3 DEF Typed!CodecConstants
    <2>2. Typed!Read(Codecs(b), r).status = "too-new"
      BY <1>3, <2>1 DEF Typed!Read, Typed!ReadRecord
    <2> QED
      BY <1>1, <1>3, <2>1, <2>2
  <1>4. CASE r.type \in DOMAIN Codecs(b) /\ r.version <= Codecs(b)[r.type].current
    <2>1. /\ Codecs(b)[r.type].current \in Nat \ {0}
          /\ 1 .. Codecs(b)[r.type].current - 1 \subseteq Codecs(b)[r.type].upgrades
      BY <1>4 DEF Typed!CodecConstants
    <2>3. missing \subseteq Codecs(b)[r.type].upgrades
      BY <1>1, <2>1
    <2>4. r.data.shape + (Codecs(b)[r.type].current - r.version) = Codecs(b)[r.type].current
      BY <1>1, <2>1
    <2>5. Typed!ReadRecord(Codecs(b), r) =
             [status |-> "ok", upgraded |-> missing # {},
              value |-> [r.data EXCEPT !.shape = Codecs(b)[r.type].current]]
      BY <1>1, <1>4, <2>1, <2>3, <2>4 DEF Typed!ReadRecord
    <2>6. Typed!ReadRecord(Codecs(b), r).value.memberId = r.data.memberId
      BY <1>1, <2>5
    <2>7. Typed!Read(Codecs(b), r) = Typed!ReadRecord(Codecs(b), r)
      BY <1>1, <2>5, <2>6 DEF Typed!Read
    <2> QED
      BY <1>1, <1>4, <2>5, <2>7
  <1> QED
    BY <1>2, <1>3, <1>4, <1>1 DEF Typed!CodecConstants

(* The profiles a member has, as a build sees them.                           *)
LEMMA ProfilesAre ==
    Typed!CodecConstants /\ Typed!RecordsInv => \A b \in Builds : \A m :
        Typed!ProfilesOf(Codecs(b), m) =
          {id \in DOMAIN stored : /\ stored[id].type = "member" /\ stored[id].modifiedBy = m
                                  /\ stored[id].version <= Codecs(b)["member"].current}
  <1> SUFFICES ASSUME Typed!CodecConstants, Typed!RecordsInv, NEW b \in Builds, NEW m
               PROVE  Typed!ProfilesOf(Codecs(b), m) =
                        {id \in DOMAIN stored : /\ stored[id].type = "member" /\ stored[id].modifiedBy = m
                                       /\ stored[id].version <= Codecs(b)["member"].current}
    OBVIOUS
  <1>1. \A id \in DOMAIN stored : Typed!Read(Codecs(b), stored[id]).status = "ok" <=>
            stored[id].type \in DOMAIN Codecs(b)
            /\ stored[id].version <= Codecs(b)[stored[id].type].current
    BY ReadsOlder DEF Typed!RecordsInv
  <1>2. "member" \in DOMAIN Codecs(b)
    BY DEF Typed!CodecConstants
  <1> QED
    BY <1>1, <1>2 DEF Typed!ProfilesOf, Typed!Readable

(* The latest of some records is stamped no earlier than any of them.          *)
LEMMA LatestIs ==
    Typed!RecordsInv => \A ids \in SUBSET DOMAIN stored : ids # {} =>
        Typed!Latest(ids) \in ids /\ \A k \in ids : stored[k].modifiedAt <= stored[Typed!Latest(ids)].modifiedAt
  <1> SUFFICES ASSUME Typed!RecordsInv, NEW ids \in SUBSET DOMAIN stored, ids # {}
               PROVE  \E id \in ids : \A k \in ids : stored[k].modifiedAt <= stored[id].modifiedAt
    BY DEF Typed!Latest
  <1> DEFINE S == {stored[k].modifiedAt : k \in ids}
  <1>1. S \in SUBSET Nat /\ S # {} /\ \A x \in S : x < time
    BY DEF Typed!RecordsInv, Typed!Sound
  <1>2. time \in Nat
    BY DEF Typed!RecordsInv
  <1> HIDE DEF S
  <1>3. PICK x \in S : \A y \in S : y <= x
    BY <1>1, <1>2, Largest
  <1>4. PICK id \in ids : x = stored[id].modifiedAt
    BY DEF S
  <1>5. \A k \in ids : stored[k].modifiedAt \in S
    BY DEF S
  <1> QED
    BY <1>3, <1>4, <1>5

(* What a save does: under one id it puts a record of its build and its writer,  *)
(* over one of the same type that the build could read.                       *)
Stamped(b, m, type, data) ==
    [type |-> type, version |-> Codecs(b)[type].current, data |-> data,
     modifiedAt |-> time, modifiedBy |-> m]

Puts(b, m, type, data, id) ==
    /\ time' = time + 1 /\ DOMAIN stored' = DOMAIN stored \cup {id} /\ id \in 1 .. MaxId
    /\ data.shape = Codecs(b)[type].current
    /\ stored'[id] = Stamped(b, m, type, data)
    /\ \A k \in DOMAIN stored \ {id} : stored'[k] = stored[k]
    /\ id \in DOMAIN stored =>
          stored[id].type = type /\ Typed!Read(Codecs(b), stored[id]).status = "ok"

LEMMA SaveDoes ==
    ASSUME Typed!CodecConstants, Typed!RecordsInv, NEW b \in Builds, NEW m \in Writers,
           NEW type \in DOMAIN Codecs(b), NEW data, NEW id \in DOMAIN stored \cup Typed!NewIds,
           Typed!Save(Codecs(b), m, type, data, id)
    PROVE  Puts(b, m, type, data, id)
  <1> DEFINE existing == IF id \in DOMAIN stored THEN stored[id] ELSE Null
             w == Typed!PrepareWrite(Codecs(b), type, data, existing)
  <1>1. /\ w # Refused /\ time' = time + 1
        /\ stored' = [k \in DOMAIN stored \cup {id} |->
                         IF k # id THEN stored[k]
                         ELSE [type |-> type, version |-> w.version, data |-> w.data,
                               modifiedAt |-> time, modifiedBy |-> m]]
    BY DEF Typed!Save
  <1>2. id \in DOMAIN stored => existing # Null
    BY DEF Typed!RecordsInv
  <1>3. w = [type |-> type, version |-> Codecs(b)[type].current, data |-> data]
    BY <1>1 DEF Typed!PrepareWrite
  <1>4. data.shape = Codecs(b)[type].current
    BY <1>1 DEF Typed!PrepareWrite
  <1>5. id \in DOMAIN stored =>
            stored[id].type = type /\ Typed!Read(Codecs(b), stored[id]).status = "ok"
    BY <1>1, <1>2 DEF Typed!PrepareWrite, Typed!CanOverwrite
  <1>6. id \in 1 .. MaxId
    BY DEF Typed!NewIds, Typed!RecordsInv
  <1> HIDE DEF existing, w
  <1> QED
    BY <1>1, <1>3, <1>4, <1>5, <1>6 DEF Puts, Stamped

LEMMA SaveKeeps ==
    ASSUME Typed!CodecConstants, \A r \in Typed!Sound : r # Null, Typed!RecordsInv,
           NEW b \in Builds, NEW m \in Writers,
           NEW type \in DOMAIN Codecs(b), NEW data, NEW id \in DOMAIN stored \cup Typed!NewIds,
           Typed!Save(Codecs(b), m, type, data, id),
           data.memberId \in Writers \cup {Null}, data.value \in Values \cup {Null},
           data = [shape |-> data.shape, memberId |-> data.memberId, value |-> data.value],
           type = "member" => data.memberId = m
    PROVE  Typed!RecordsInv' /\ Typed!KeepsNewer
  <1>0. Puts(b, m, type, data, id)
    BY SaveDoes
  <1>1. /\ time' = time + 1 /\ DOMAIN stored' = DOMAIN stored \cup {id} /\ id \in 1 .. MaxId
        /\ data.shape = Codecs(b)[type].current
        /\ stored'[id] = [type |-> type, version |-> Codecs(b)[type].current, data |-> data,
                          modifiedAt |-> time, modifiedBy |-> m]
        /\ \A k \in DOMAIN stored \ {id} : stored'[k] = stored[k]
        /\ id \in DOMAIN stored =>
              stored[id].type = type /\ Typed!Read(Codecs(b), stored[id]).status = "ok"
    BY <1>0 DEF Puts, Stamped
  <1>2. Codecs(b)[type].current \in Nat \ {0} /\ type \in Typed!Types /\ time \in Nat
    BY DEF Typed!CodecConstants, Typed!Types, Typed!RecordsInv
  <1>3. data \in [shape : Nat, memberId : Writers \cup {Null}, value : Values \cup {Null}]
    BY <1>1, <1>2
  <1>4. stored'[id] \in Typed!Sound
    BY <1>1, <1>2, <1>3 DEF Typed!Sound
  <1>5. \A k \in DOMAIN stored : stored[k].modifiedAt \in Nat /\ stored[k].modifiedAt < time
    BY DEF Typed!RecordsInv, Typed!Sound
  <1>6. \A k \in DOMAIN stored' : stored'[k] \in Typed!Sound
    BY <1>1, <1>4 DEF Typed!RecordsInv
  <1>7. \A k \in DOMAIN stored' :
            /\ stored'[k].modifiedAt < time'
            /\ \A l \in DOMAIN stored' : stored'[l].modifiedAt = stored'[k].modifiedAt => l = k
    BY <1>1, <1>2, <1>5 DEF Typed!RecordsInv
  <1>8. Typed!RecordsInv'
    BY <1>1, <1>2, <1>6, <1>7 DEF Typed!RecordsInv
  <1>9. id \in DOMAIN stored => stored[id].version <= Codecs(b)[type].current
    BY <1>1, ReadsOlder DEF Typed!RecordsInv
  <1>10. \A k \in DOMAIN stored : stored[k].version <= stored[k].version
    <2>1. \A r \in Typed!Sound : r.version \in Nat
      BY DEF Typed!Sound
    <2> QED
      BY <2>1 DEF Typed!RecordsInv
  <1>11. Typed!KeepsNewer
    <2> SUFFICES ASSUME NEW k \in DOMAIN stored \cap DOMAIN stored'
                 PROVE  stored'[k].version >= stored[k].version /\ stored'[k].type = stored[k].type
      BY DEF Typed!KeepsNewer
    <2>1. CASE k = id
      BY <1>1, <1>2, <1>9, <2>1
    <2>2. CASE k # id
      BY <1>1, <1>10, <2>2
    <2> QED
      BY <2>1, <2>2
  <1> QED
    BY <1>8, <1>11

(* A member none of whose profiles is touched keeps their name.               *)
LEMMA OthersKeepTheirs ==
    ASSUME Typed!CodecConstants, Typed!RecordsInv, Typed!RecordsInv', NEW b \in Builds, NEW id, NEW m,
           m \in DOMAIN Typed!Profiles(Codecs(b)),
           DOMAIN stored' = DOMAIN stored \cup {id},
           \A k \in DOMAIN stored \ {id} : stored'[k] = stored[k],
           id \in DOMAIN stored => stored[id].type # "member" \/ stored[id].modifiedBy # m,
           stored'[id].type # "member" \/ stored'[id].modifiedBy # m
    PROVE  m \in DOMAIN Typed!Profiles(Codecs(b))' /\ Typed!Profiles(Codecs(b))'[m] = Typed!Profiles(Codecs(b))[m]
  <1> DEFINE P == Typed!ProfilesOf(Codecs(b), m)
  <1>1. m \in Writers /\ P # {}
    BY DEF Typed!Profiles
  <1>2. /\ P = {k \in DOMAIN stored : /\ stored[k].type = "member" /\ stored[k].modifiedBy = m
                                      /\ stored[k].version <= Codecs(b)["member"].current}
        /\ P' = {k \in DOMAIN stored' : /\ stored'[k].type = "member" /\ stored'[k].modifiedBy = m
                                      /\ stored'[k].version <= Codecs(b)["member"].current}
    <2>1. \A k \in DOMAIN stored' : Typed!Read(Codecs(b), stored'[k]).status = "ok" <=>
              stored'[k].type \in DOMAIN Codecs(b)
              /\ stored'[k].version <= Codecs(b)[stored'[k].type].current
      BY ReadsOlder DEF Typed!RecordsInv
    <2>2. P' = {k \in DOMAIN stored' : /\ stored'[k].type = "member" /\ stored'[k].modifiedBy = m
                                       /\ stored'[k].version <= Codecs(b)["member"].current}
      BY <2>1 DEF Typed!ProfilesOf, Typed!Readable, Typed!CodecConstants
    <2>3. P = {k \in DOMAIN stored : /\ stored[k].type = "member" /\ stored[k].modifiedBy = m
                                     /\ stored[k].version <= Codecs(b)["member"].current}
      BY ProfilesAre
    <2> QED
      BY <2>2, <2>3
  <1> HIDE DEF P
  <1>3. P' = P /\ P \subseteq DOMAIN stored /\ P \subseteq DOMAIN stored' /\ \A k \in P : stored'[k] = stored[k]
    BY <1>2
  <1>4. /\ Typed!Latest(P) \in P /\ \A k \in P : stored[k].modifiedAt <= stored[Typed!Latest(P)].modifiedAt
        /\ Typed!Latest(P)' \in P' /\ \A k \in P' : stored'[k].modifiedAt <= stored'[Typed!Latest(P)'].modifiedAt
    <2>1. (Typed!RecordsInv => \A ids \in SUBSET DOMAIN stored : ids # {} =>
             Typed!Latest(ids) \in ids /\ \A k \in ids : stored[k].modifiedAt <= stored[Typed!Latest(ids)].modifiedAt)'
      BY LatestIs, PTL
    <2>2. Typed!Latest(P)' \in P' /\ \A k \in P' : stored'[k].modifiedAt <= stored'[Typed!Latest(P)'].modifiedAt
      BY <1>1, <1>3, <2>1
    <2> QED
      BY <1>1, <1>3, <2>2, LatestIs
  <1>5. \A k \in P : stored[k].modifiedAt \in Nat
    BY <1>3 DEF Typed!RecordsInv, Typed!Sound
  <1>6. Typed!Latest(P)' = Typed!Latest(P)
    <2>1. stored[Typed!Latest(P)'].modifiedAt = stored[Typed!Latest(P)].modifiedAt
      BY <1>3, <1>4, <1>5
    <2> QED
      BY <1>3, <1>4, <2>1 DEF Typed!RecordsInv
  <1>7. /\ Typed!Profiles(Codecs(b))[m] = Typed!Read(Codecs(b), stored[Typed!Latest(P)]).value
        /\ m \in DOMAIN Typed!Profiles(Codecs(b))'
        /\ Typed!Profiles(Codecs(b))'[m] = Typed!Read(Codecs(b), stored'[Typed!Latest(P)']).value
    BY <1>1, <1>3 DEF Typed!Profiles, P
  <1> QED
    BY <1>3, <1>4, <1>6, <1>7
(* A profile just written is its member's latest, on every build that reads it. *)
LEMMA WriterShowsTheirs ==
    ASSUME Typed!CodecConstants, Typed!RecordsInv, Typed!RecordsInv', NEW c \in Builds, NEW id, NEW m \in Writers,
           DOMAIN stored' = DOMAIN stored \cup {id},
           \A k \in DOMAIN stored \ {id} : stored'[k] = stored[k],
           stored'[id].type = "member", stored'[id].modifiedBy = m,
           stored'[id].modifiedAt = time,
           stored'[id].version <= Codecs(c)["member"].current
    PROVE  /\ m \in DOMAIN Typed!Profiles(Codecs(c))'
           /\ Typed!Profiles(Codecs(c))'[m].value = stored'[id].data.value
  <1> DEFINE P == Typed!ProfilesOf(Codecs(c), m)
  <1>1. P' = {k \in DOMAIN stored' : /\ stored'[k].type = "member" /\ stored'[k].modifiedBy = m
                                     /\ stored'[k].version <= Codecs(c)["member"].current}
    <2>1. \A k \in DOMAIN stored' : Typed!Read(Codecs(c), stored'[k]).status = "ok" <=>
              stored'[k].type \in DOMAIN Codecs(c)
              /\ stored'[k].version <= Codecs(c)[stored'[k].type].current
      BY ReadsOlder DEF Typed!RecordsInv
    <2> QED
      BY <2>1 DEF Typed!ProfilesOf, Typed!Readable, Typed!CodecConstants
  <1> HIDE DEF P
  <1>2. id \in P' /\ P' \subseteq DOMAIN stored'
    BY <1>1
  <1>3. Typed!Latest(P)' \in P' /\ \A k \in P' : stored'[k].modifiedAt <= stored'[Typed!Latest(P)'].modifiedAt
    <2>1. (Typed!RecordsInv => \A ids \in SUBSET DOMAIN stored : ids # {} =>
             Typed!Latest(ids) \in ids /\ \A k \in ids : stored[k].modifiedAt <= stored[Typed!Latest(ids)].modifiedAt)'
      BY LatestIs, PTL
    <2> QED
      BY <1>2, <2>1
  <1>4. Typed!Latest(P)' = id
    <2>1. \A k \in DOMAIN stored : stored[k].modifiedAt \in Nat /\ stored[k].modifiedAt < time
      BY DEF Typed!RecordsInv, Typed!Sound
    <2>2. time \in Nat
      BY DEF Typed!RecordsInv
    <2> QED
      BY <1>2, <1>3, <2>1, <2>2
  <1>5. m \in DOMAIN Typed!Profiles(Codecs(c))' /\
        Typed!Profiles(Codecs(c))'[m] = Typed!Read(Codecs(c), stored'[id]).value
    BY <1>2, <1>4 DEF Typed!Profiles, P
  <1>6. stored'[id] \in Typed!Sound /\ "member" \in DOMAIN Codecs(c)
    BY <1>2 DEF Typed!RecordsInv, Typed!CodecConstants
  <1>7. Typed!Read(Codecs(c), stored'[id]).value =
            [stored'[id].data EXCEPT !.shape = Codecs(c)["member"].current]
    BY <1>6, ReadsOlder
  <1>8. stored'[id].data \in [shape : Nat, memberId : Writers \cup {Null}, value : Values \cup {Null}]
    BY <1>6 DEF Typed!Sound
  <1> QED
    BY <1>5, <1>7, <1>8

(* So a save renames its writer and nobody else, if it saves over no profile of   *)
(* another member.                                                            *)
LEMMA SaveRenames ==
    ASSUME Typed!CodecConstants, Typed!RecordsInv, Typed!RecordsInv', NEW b \in Builds, NEW m \in Writers,
           NEW type, NEW data, NEW id, Puts(b, m, type, data, id),
           id \in DOMAIN stored /\ stored[id].type = "member" => stored[id].modifiedBy = m
    PROVE  Typed!RenamesTheWriter
  <1>1. /\ DOMAIN stored' = DOMAIN stored \cup {id}
        /\ stored'[id].type = type /\ stored'[id].modifiedAt = time
        /\ stored'[id].modifiedBy = m
        /\ \A k \in DOMAIN stored \ {id} : stored'[k] = stored[k]
    BY DEF Puts, Stamped
  <1> SUFFICES ASSUME NEW k \in DOMAIN stored', NEW c \in Builds,
                      k \notin DOMAIN stored \/ stored'[k] # stored[k]
               PROVE  /\ \A n \in DOMAIN Typed!Profiles(Codecs(c)) \ {stored'[k].modifiedBy} :
                             n \in DOMAIN Typed!Profiles(Codecs(c))'
                             /\ Typed!Profiles(Codecs(c))'[n] = Typed!Profiles(Codecs(c))[n]
                      /\ stored'[k].type = "member"
                            /\ stored'[k].version <= Codecs(c)["member"].current =>
                            stored'[k].modifiedBy \in DOMAIN Typed!Profiles(Codecs(c))'
                            /\ Typed!Profiles(Codecs(c))'[stored'[k].modifiedBy].value
                                 = stored'[k].data.value
    BY DEF Typed!RenamesTheWriter
  <1>2. k = id
    BY <1>1
  <1>3. ASSUME NEW n \in DOMAIN Typed!Profiles(Codecs(c)), n # m
        PROVE  n \in DOMAIN Typed!Profiles(Codecs(c))'
               /\ Typed!Profiles(Codecs(c))'[n] = Typed!Profiles(Codecs(c))[n]
    BY <1>1, <1>3, OthersKeepTheirs
  <1>4. ASSUME stored'[id].type = "member", stored'[id].version <= Codecs(c)["member"].current
        PROVE  m \in DOMAIN Typed!Profiles(Codecs(c))'
               /\ Typed!Profiles(Codecs(c))'[m].value = stored'[id].data.value
    BY <1>1, <1>4, WriterShowsTheirs
  <1> QED
    BY <1>1, <1>2, <1>3, <1>4

(* A member edits a record of their own.                                       *)
LEMMA OwnIsOwn ==
    Typed!CodecConstants /\ Typed!RecordsInv => \A b \in Builds : \A m \in Writers :
        LET own == Typed!OwnProfile(Codecs(b), m)
        IN  \A id \in IF own = Null THEN Typed!NewIds ELSE {own} :
                /\ id \in DOMAIN stored \cup Typed!NewIds
                /\ id \in DOMAIN stored => stored[id].modifiedBy = m
  <1> SUFFICES ASSUME Typed!CodecConstants, Typed!RecordsInv, NEW b \in Builds, NEW m \in Writers,
                      NEW id \in IF Typed!OwnProfile(Codecs(b), m) = Null THEN Typed!NewIds
                                 ELSE {Typed!OwnProfile(Codecs(b), m)}
               PROVE  /\ id \in DOMAIN stored \cup Typed!NewIds
                      /\ id \in DOMAIN stored => stored[id].modifiedBy = m
    OBVIOUS
  <1> DEFINE own == {k \in Typed!Readable(Codecs(b)) :
                        stored[k].type = "member"
                        /\ Typed!Read(Codecs(b), stored[k]).value.memberId = m}
  <1>1. Typed!NewIds \cap DOMAIN stored = {}
    BY DEF Typed!NewIds
  <1>2. own \in SUBSET DOMAIN stored
    BY DEF Typed!Readable
  <1>3. \A k \in own : stored[k].modifiedBy = m
    <2> SUFFICES ASSUME NEW k \in own PROVE stored[k].modifiedBy = m
      OBVIOUS
    <2>1. stored[k] \in Typed!Sound /\ stored[k].type = "member"
          /\ Typed!Read(Codecs(b), stored[k]).status = "ok"
          /\ Typed!Read(Codecs(b), stored[k]).value.memberId = m
      BY DEF Typed!RecordsInv, Typed!Readable
    <2>2. Typed!Read(Codecs(b), stored[k]).value =
              [stored[k].data EXCEPT !.shape = Codecs(b)[stored[k].type].current]
      BY <2>1, ReadsOlder
    <2>3. /\ stored[k].data.memberId = stored[k].modifiedBy
          /\ stored[k].data \in [shape : Nat, memberId : Writers \cup {Null}, value : Values \cup {Null}]
      BY <2>1 DEF Typed!Sound
    <2> QED
      BY <2>1, <2>2, <2>3
  <1>4. Typed!OwnProfile(Codecs(b), m) = IF own = {} THEN Null ELSE Typed!Latest(own)
    BY DEF Typed!OwnProfile
  <1> HIDE DEF own
  <1>5. own # {} => Typed!Latest(own) \in own
    BY <1>2, LatestIs
  <1> QED
    BY <1>1, <1>2, <1>3, <1>4, <1>5

LEMMA StepKeepsRecords ==
    Typed!CodecConstants /\ (\A r \in Typed!Sound : r # Null) /\ Typed!RecordsInv /\ [Typed!Next]_Typed!vars =>
        Typed!RecordsInv' /\ Typed!KeepsNewer /\ Typed!RenamesTheWriter
  <1> SUFFICES ASSUME Typed!CodecConstants, \A r \in Typed!Sound : r # Null, Typed!RecordsInv, [Typed!Next]_Typed!vars
               PROVE  Typed!RecordsInv' /\ Typed!KeepsNewer /\ Typed!RenamesTheWriter
    OBVIOUS
  <1>0. \A k \in DOMAIN stored : stored[k].version <= stored[k].version
    BY DEF Typed!RecordsInv, Typed!Sound
  <1>1. ASSUME NEW b \in Builds, NEW m \in Writers,
               NEW type \in DOMAIN Codecs(b) \ {"member"}, Typed!SaveRecord(b, m, type)
        PROVE  Typed!RecordsInv' /\ Typed!KeepsNewer /\ Typed!RenamesTheWriter
    <2> DEFINE data == [shape |-> Codecs(b)[type].current, memberId |-> Null, value |-> Null]
    <2>1. PICK id \in DOMAIN stored \cup Typed!NewIds : Typed!Save(Codecs(b), m, type, data, id)
      BY <1>1 DEF Typed!SaveRecord
    <2>2. Puts(b, m, type, data, id)
      BY <2>1, SaveDoes
    <2>3. Typed!RecordsInv' /\ Typed!KeepsNewer
      <3>1. /\ data.memberId \in Writers \cup {Null} /\ data.value \in Values \cup {Null}
            /\ data = [shape |-> data.shape, memberId |-> data.memberId, value |-> data.value]
        OBVIOUS
      <3> HIDE DEF data
      <3> QED
        BY <2>1, <3>1, SaveKeeps
    <2>4. id \in DOMAIN stored => stored[id].type # "member"
      BY <2>2 DEF Puts
    <2> HIDE DEF data
    <2> QED
      BY <2>2, <2>3, <2>4, SaveRenames
  <1>2. ASSUME NEW b \in Builds, NEW m \in Writers, Typed!EditProfile(b, m)
        PROVE  Typed!RecordsInv' /\ Typed!KeepsNewer /\ Typed!RenamesTheWriter
    <2> DEFINE own == Typed!OwnProfile(Codecs(b), m)
               data(v) == [shape |-> Codecs(b)["member"].current, memberId |-> m, value |-> v]
    <2>1. PICK id \in IF own = Null THEN Typed!NewIds ELSE {own} :
              \E v \in Values : Typed!Save(Codecs(b), m, "member", data(v), id)
      BY <1>2 DEF Typed!EditProfile
    <2>2. PICK v \in Values : Typed!Save(Codecs(b), m, "member", data(v), id)
      BY <2>1
    <2>3. /\ id \in DOMAIN stored \cup Typed!NewIds
          /\ id \in DOMAIN stored => stored[id].modifiedBy = m
      BY OwnIsOwn
    <2>4. "member" \in DOMAIN Codecs(b)
      BY DEF Typed!CodecConstants
    <2>5. /\ data(v).memberId \in Writers \cup {Null} /\ data(v).value \in Values \cup {Null}
          /\ data(v).memberId = m
          /\ data(v) = [shape |-> data(v).shape, memberId |-> data(v).memberId,
                        value |-> data(v).value]
      OBVIOUS
    <2> HIDE DEF data
    <2>6. Puts(b, m, "member", data(v), id)
      BY <2>2, <2>3, <2>4, SaveDoes
    <2>7. Typed!RecordsInv' /\ Typed!KeepsNewer
      BY <2>2, <2>3, <2>4, <2>5, SaveKeeps
    <2> QED
      BY <2>3, <2>6, <2>7, SaveRenames
  <1>3. ASSUME NEW id \in 1 .. MaxId, Typed!Delete(id)
        PROVE  Typed!RecordsInv' /\ Typed!KeepsNewer /\ Typed!RenamesTheWriter
    <2>1. /\ DOMAIN stored' = DOMAIN stored \ {id} /\ time' = time
          /\ \A k \in DOMAIN stored' : stored'[k] = stored[k]
      BY <1>3 DEF Typed!Delete
    <2> QED
      BY <1>0, <2>1 DEF Typed!RecordsInv, Typed!KeepsNewer, Typed!RenamesTheWriter
  <1>4. CASE UNCHANGED Typed!vars
    BY <1>0, <1>4 DEF Typed!RecordsInv, Typed!KeepsNewer, Typed!RenamesTheWriter, Typed!vars
  <1> QED
    BY <1>1, <1>2, <1>3, <1>4 DEF Typed!Next

(* On every other side of the run no record is touched.                        *)
LEMMA RecordsInvariant == MCSpec => [][Typed!RecordsInv /\ Typed!KeepsNewer /\ Typed!RenamesTheWriter]_mcVars
  <1>1. MCInit => Typed!RecordsInv
    BY RecordsAssumption DEF MCInit, Typed!Init, Typed!RecordsInv
  <1>2. Typed!RecordsInv /\ [MCNext]_mcVars =>
            Typed!RecordsInv' /\ Typed!KeepsNewer /\ Typed!RenamesTheWriter
    <2>1. [MCNext]_mcVars => [Typed!Next]_Typed!vars
      BY DEF MCNext, mcVars, Typed!vars
    <2>2. \A r \in Typed!Sound : r # Null
      BY RecordsAssumption
    <2> QED
      BY <2>1, <2>2, RecordsAssumption, StepKeepsRecords
  <1> QED
    BY <1>1, <1>2, PTL DEF MCSpec

(* No build saves over what a newer one wrote, and a save renames its writer  *)
(* and nobody else, on every build that can read it (typed.ts, evolution.ts): *)
(* for any builds, codecs, members and values.                               *)
THEOREM BuildsAgreeHolds == MCSpec => BuildsAgree
  <1>1. MCSpec => NewerIsKept /\ RenamesOnlyOneself
    BY RecordsInvariant, PTL DEF NewerIsKept, RenamesOnlyOneself
  <1> QED
    BY <1>1 DEF BuildsAgree
------------------------------------------------------------------------------
(* Sums over finite sets.                                                   *)

(* Induction, in a form whose premises are about sets and not about operators. *)
LEMMA CountUp ==
    ASSUME NEW U \in SUBSET Nat, 0 \in U, \A n \in U : n + 1 \in U
    PROVE  U = Nat
  <1> SUFFICES ASSUME Nat \ U # {} PROVE FALSE
    OBVIOUS
  <1> DEFINE V == Nat \ U
  <1>1. PICK n \in V : \A m \in V : ~(<<m, n>> \in OpToRel(<, Nat))
    <2>1. V \subseteq Nat /\ V # {}
      OBVIOUS
    <2> HIDE DEF V
    <2> QED
      BY <2>1, NatLessThanWellFounded, WFMin
  <1>2. \A m \in V : ~(m < n)
    BY <1>1 DEF OpToRel
  <1>3. n - 1 \in Nat
    OBVIOUS
  <1>4. n - 1 \in U
    BY <1>2, <1>3
  <1> QED
    BY <1>4

(* What holds of no element, and of one more whenever it holds, holds of them all. *)
LEMMA BuildUp ==
    ASSUME NEW S, IsFiniteSet(S), NEW U, {} \in U,
           \A T \in U : \A x \in S : T \subseteq S => T \cup {x} \in U
    PROVE  S \in U
  <1> DEFINE N == {n \in Nat : \A T \in SUBSET S : Cardinality(T) = n => T \in U}
  <1>1. \A T \in SUBSET S : IsFiniteSet(T) /\ Cardinality(T) \in Nat
    BY FS_Subset, FS_CardinalityType
  <1>2. 0 \in N
    BY <1>1, FS_EmptySet
  <1>3. ASSUME NEW n \in N PROVE n + 1 \in N
    <2> SUFFICES ASSUME NEW T \in SUBSET S, Cardinality(T) = n + 1 PROVE T \in U
      OBVIOUS
    <2>1. T # {}
      BY <1>1, FS_EmptySet
    <2>2. PICK x \in T : TRUE
      BY <2>1
    <2>3. Cardinality(T \ {x}) = n
      <3>1. IsFiniteSet(T)
        BY <1>1
      <3>2. Cardinality(T \ {x}) = Cardinality(T) - 1
        BY <3>1, <2>2, FS_RemoveElement, Zenon
      <3>3. n \in Nat
        OBVIOUS
      <3> QED
        BY <3>2, <3>3
    <2>4. T \ {x} \in U /\ T \ {x} \subseteq S
      <3>1. T \ {x} \in SUBSET S
        OBVIOUS
      <3> QED
        BY <2>3, <3>1
    <2>5. (T \ {x}) \cup {x} = T
      BY <2>2
    <2> QED
      BY <2>2, <2>4, <2>5
  <1>4. N = Nat
    <2>1. N \in SUBSET Nat
      OBVIOUS
    <2> HIDE DEF N
    <2> QED
      BY <1>2, <1>3, <2>1, CountUp
  <1> QED
    BY <1>1, <1>4
SumOn(f, S) == MapThenSumSet(LAMBDA k : f[k], S)

Some(S) == CHOOSE x \in S : TRUE

(* The recursion that MapThenSumSet makes.                                    *)
Adds(it, f, S) ==
    it = [s \in SUBSET S |-> IF s = {} THEN 0 ELSE f[Some(s)] + it[s \ {Some(s)}]]

(* There is such a recursion over the subsets of any finite set.                 *)
LEMMA AddsExists ==
    ASSUME NEW S, IsFiniteSet(S), NEW f, \A x \in S : f[x] \in Int
    PROVE  \E it : Adds(it, f, S)
  <1> DEFINE Value(g, s) == IF s = {} THEN 0 ELSE f[Some(s)] + g[s \ {Some(s)}]
             U == {n \in Nat : \E g \in [SUBSET S -> Int] : \A s \in SUBSET S :
                      Cardinality(s) <= n => g[s] = Value(g, s)}
  <1>0. \A s : s # {} => Some(s) \in s
    BY DEF Some
  <1>1. \A s \in SUBSET S : IsFiniteSet(s) /\ Cardinality(s) \in Nat
    BY FS_Subset, FS_CardinalityType
  <1>2. 0 \in U
    <2> DEFINE g == [s \in SUBSET S |-> 0]
    <2>1. \A s \in SUBSET S : Cardinality(s) <= 0 => s = {}
      BY <1>1, FS_EmptySet
    <2>2. g \in [SUBSET S -> Int] /\ \A s \in SUBSET S : Cardinality(s) <= 0 => g[s] = Value(g, s)
      BY <2>1
    <2> QED
      BY <2>2
  <1>3. ASSUME NEW n \in U PROVE n + 1 \in U
    <2>1. PICK g \in [SUBSET S -> Int] : \A s \in SUBSET S : Cardinality(s) <= n => g[s] = Value(g, s)
      OBVIOUS
    <2> DEFINE h == [s \in SUBSET S |-> Value(g, s)]
    <2>2. h \in [SUBSET S -> Int]
      BY <1>0
    <2>3. ASSUME NEW s \in SUBSET S, Cardinality(s) <= n + 1 PROVE h[s] = Value(h, s)
      <3>1. CASE s = {}
        BY <3>1
      <3>2. CASE s # {}
        <4> DEFINE t == s \ {Some(s)}
        <4>1. t \in SUBSET S /\ Cardinality(t) <= n
          BY <1>0, <1>1, <2>3, <3>2, FS_RemoveElement
        <4>2. g[t] = h[t]
          BY <2>1, <4>1
        <4> QED
          BY <3>2, <4>1, <4>2
      <3> QED
        BY <3>1, <3>2
    <2> HIDE DEF h, Value
    <2>4. \E k \in [SUBSET S -> Int] : \A s \in SUBSET S : Cardinality(s) <= n + 1 => k[s] = Value(k, s)
      BY <2>2, <2>3
    <2> QED
      BY <2>4
  <1>4. U = Nat
    <2>1. U \in SUBSET Nat
      OBVIOUS
    <2> HIDE DEF U
    <2> QED
      BY <1>2, <1>3, <2>1, CountUp
  <1>5. Cardinality(S) \in U
    BY <1>1, <1>4
  <1>6. PICK g \in [SUBSET S -> Int] : \A s \in SUBSET S : Cardinality(s) <= Cardinality(S) => g[s] = Value(g, s)
    BY <1>5
  <1>7. \A s \in SUBSET S : Cardinality(s) <= Cardinality(S)
    BY FS_Subset
  <1>8. g = [s \in SUBSET S |-> Value(g, s)]
    BY <1>6, <1>7
  <1> QED
    BY <1>8 DEF Adds

(* It makes no difference in which set the recursion runs.                    *)
LEMMA AddsAgree ==
    ASSUME NEW S, NEW T, NEW R, IsFiniteSet(R), R \subseteq S, R \subseteq T, NEW f, NEW g,
           \A x \in R : f[x] = g[x] /\ f[x] \in Int, NEW a, Adds(a, f, S), NEW b, Adds(b, g, T)
    PROVE  a[R] = b[R] /\ a[R] \in Int
  <1> DEFINE U == {n \in Nat : \A s \in SUBSET R : Cardinality(s) = n => a[s] = b[s] /\ a[s] \in Int}
  <1>0. \A s : s # {} => Some(s) \in s
    BY DEF Some
  <1>1. \A s \in SUBSET R : IsFiniteSet(s) /\ Cardinality(s) \in Nat
    BY FS_Subset, FS_CardinalityType
  <1>2. \A s \in SUBSET R : /\ a[s] = IF s = {} THEN 0 ELSE f[Some(s)] + a[s \ {Some(s)}]
                            /\ b[s] = IF s = {} THEN 0 ELSE g[Some(s)] + b[s \ {Some(s)}]
    BY DEF Adds
  <1>3. 0 \in U
    BY <1>1, <1>2, FS_EmptySet
  <1>4. ASSUME NEW n \in U PROVE n + 1 \in U
    <2> SUFFICES ASSUME NEW s \in SUBSET R, Cardinality(s) = n + 1 PROVE a[s] = b[s] /\ a[s] \in Int
      OBVIOUS
    <2>1. s # {}
      BY <1>1, FS_EmptySet
    <2>2. PICK c \in s : c = Some(s)
      BY <1>0, <2>1
    <2>3. /\ a[s] = f[c] + a[s \ {c}]
          /\ b[s] = g[c] + b[s \ {c}]
      BY <1>2, <2>1, <2>2
    <2>4. s \ {c} \in SUBSET R /\ Cardinality(s \ {c}) = n
      <3>1. Cardinality(s \ {c}) = Cardinality(s) - 1
        BY <1>1, <2>2, FS_RemoveElement
      <3>2. n \in Nat
        OBVIOUS
      <3> HIDE DEF U
      <3> QED
        BY <3>1, <3>2
    <2>5. a[s \ {c}] = b[s \ {c}] /\ a[s \ {c}] \in Int
      BY <2>4
    <2>6. f[c] = g[c] /\ f[c] \in Int
      BY <2>2
    <2> HIDE DEF U
    <2> QED
      BY <2>3, <2>5, <2>6
  <1>5. U = Nat
    <2>1. U \in SUBSET Nat
      OBVIOUS
    <2> HIDE DEF U
    <2> QED
      BY <1>3, <1>4, <2>1, CountUp
  <1> QED
    BY <1>1, <1>5

(* So a sum is what the recursion says.                                          *)
LEMMA SumAdds ==
    ASSUME NEW S, IsFiniteSet(S), NEW f, \A x \in S : f[x] \in Int
    PROVE  \E it : Adds(it, f, S) /\ SumOn(f, S) = it[S]
  <1>1. SumOn(f, S) = (CHOOSE it : Adds(it, f, S))[S]
    BY DEF SumOn, MapThenSumSet, MapThenFoldSet, Adds, Some
  <1>2. Adds(CHOOSE it : Adds(it, f, S), f, S)
    BY AddsExists
  <1> QED
    BY <1>1, <1>2

(* A sum of integers is one, and is the same however the numbers are given.    *)
LEMMA SumSame ==
    ASSUME NEW S, IsFiniteSet(S), NEW f, NEW g, \A x \in S : f[x] = g[x] /\ f[x] \in Int
    PROVE  SumOn(f, S) = SumOn(g, S) /\ SumOn(f, S) \in Int
  <1>1. PICK a : Adds(a, f, S) /\ SumOn(f, S) = a[S]
    BY SumAdds
  <1>2. PICK b : Adds(b, g, S) /\ SumOn(g, S) = b[S]
    BY SumAdds
  <1> QED
    BY <1>1, <1>2, AddsAgree

(* Nothing adds up to 0.                                                         *)
LEMMA SumEmpty == ASSUME NEW f PROVE SumOn(f, {}) = 0
  <1>1. PICK a : Adds(a, f, {}) /\ SumOn(f, {}) = a[{}]
    BY SumAdds, FS_EmptySet
  <1> QED
    BY <1>1 DEF Adds

(* The recursion takes out the element it chooses.                               *)
LEMMA SumFirst ==
    ASSUME NEW S, IsFiniteSet(S), S # {}, NEW f, \A x \in S : f[x] \in Int
    PROVE  SumOn(f, S) = f[Some(S)] + SumOn(f, S \ {Some(S)})
  <1>0. PICK R : R = S \ {Some(S)} /\ IsFiniteSet(R) /\ R \subseteq S
    <2>1. S \ {Some(S)} \subseteq S
      OBVIOUS
    <2>2. IsFiniteSet(S \ {Some(S)})
      BY <2>1, FS_Subset
    <2> QED
      BY <2>1, <2>2
  <1>1. PICK a : Adds(a, f, S) /\ SumOn(f, S) = a[S]
    BY SumAdds
  <1>2. PICK b : Adds(b, f, R) /\ SumOn(f, R) = b[R]
    BY <1>0, SumAdds
  <1>3. a[R] = b[R]
    <2>1. R \subseteq R /\ \A x \in R : f[x] = f[x] /\ f[x] \in Int
      BY <1>0
    <2>2. IsFiniteSet(R) /\ R \subseteq S /\ Adds(a, f, S) /\ Adds(b, f, R)
      BY <1>0, <1>1, <1>2
    <2> QED
      BY <2>1, <2>2, AddsAgree
  <1>4. a[S] = f[Some(S)] + a[R]
    BY <1>0, <1>1 DEF Adds
  <1> QED
    BY <1>0, <1>1, <1>2, <1>3, <1>4

(* Any one of the numbers may be taken out.                                    *)
LEMMA SumRemove ==
    ASSUME NEW S, IsFiniteSet(S), NEW f, \A x \in S : f[x] \in Int
    PROVE  \A y \in S : SumOn(f, S) = f[y] + SumOn(f, S \ {y})
  <1> DEFINE U == {n \in Nat : \A s \in SUBSET S : Cardinality(s) = n =>
                      \A y \in s : SumOn(f, s) = f[y] + SumOn(f, s \ {y})}
  <1>0. \A s : s # {} => Some(s) \in s
    BY DEF Some
  <1>1. \A s \in SUBSET S : IsFiniteSet(s) /\ Cardinality(s) \in Nat /\ SumOn(f, s) \in Int
    <2> TAKE s \in SUBSET S
    <2>1. IsFiniteSet(s)
      BY FS_Subset
    <2> QED
      BY <2>1, FS_CardinalityType, SumSame
  <1>2. 0 \in U
    BY <1>1, FS_EmptySet
  <1>3. ASSUME NEW n \in U PROVE n + 1 \in U
    <2> SUFFICES ASSUME NEW s \in SUBSET S, Cardinality(s) = n + 1, NEW y \in s
                 PROVE  SumOn(f, s) = f[y] + SumOn(f, s \ {y})
      OBVIOUS
    <2> DEFINE c == Some(s)
    <2>1. c \in s /\ SumOn(f, s) = f[c] + SumOn(f, s \ {c})
      BY <1>0, <1>1, SumFirst
    <2> HIDE DEF c
    <2>2. CASE y = c
      BY <2>1, <2>2
    <2>3. CASE y # c
      <3>1. Cardinality(s \ {c}) = n /\ Cardinality(s \ {y}) = n
        BY <1>1, <2>1, FS_RemoveElement
      <3>2. SumOn(f, s \ {c}) = f[y] + SumOn(f, (s \ {c}) \ {y})
        BY <2>3, <3>1
      <3>3. SumOn(f, s \ {y}) = f[c] + SumOn(f, (s \ {y}) \ {c})
        BY <2>1, <2>3, <3>1
      <3>4. (s \ {c}) \ {y} = (s \ {y}) \ {c}
        OBVIOUS
      <3>5. f[c] \in Int /\ f[y] \in Int /\ SumOn(f, (s \ {c}) \ {y}) \in Int
        BY <1>1, <2>1
      <3>6. SumOn(f, s) = f[c] + (f[y] + SumOn(f, (s \ {c}) \ {y}))
        BY <2>1, <3>2
      <3>7. SumOn(f, s \ {y}) = f[c] + SumOn(f, (s \ {c}) \ {y})
        BY <3>3, <3>4
      <3> HIDE DEF U
      <3> QED
        BY <3>5, <3>6, <3>7
    <2> QED
      BY <2>2, <2>3
  <1>4. U = Nat
    <2>1. U \in SUBSET Nat
      OBVIOUS
    <2> HIDE DEF U
    <2> QED
      BY <1>2, <1>3, <2>1, CountUp
  <1> QED
    BY <1>1, <1>4

(* Taking in a number adds it.                                                 *)
LEMMA SumInsert ==
    ASSUME NEW S, IsFiniteSet(S), NEW f, \A x \in S : f[x] \in Int
    PROVE  \A T \in SUBSET S : \A x \in S \ T :
              SumOn(f, T \cup {x}) = f[x] + SumOn(f, T) /\ SumOn(f, T) \in Int
  <1> TAKE T \in SUBSET S
  <1> TAKE x \in S \ T
  <1>1. IsFiniteSet(T \cup {x}) /\ IsFiniteSet(T)
    <2>1. T \cup {x} \subseteq S
      OBVIOUS
    <2> QED
      BY <2>1, FS_Subset
  <1>2. SumOn(f, T \cup {x}) = f[x] + SumOn(f, (T \cup {x}) \ {x})
    BY <1>1, SumRemove
  <1>3. (T \cup {x}) \ {x} = T
    OBVIOUS
  <1>4. SumOn(f, T) \in Int
    BY <1>1, SumSame
  <1> QED
    BY <1>2, <1>3, <1>4

(* Sums of sums: h adds up f and g.                                            *)
LEMMA SumAdd ==
    ASSUME NEW S, IsFiniteSet(S), NEW f, NEW g, NEW h,
           \A x \in S : f[x] \in Int /\ g[x] \in Int /\ h[x] = f[x] + g[x]
    PROVE  SumOn(h, S) = SumOn(f, S) + SumOn(g, S)
  <1> DEFINE U == {T \in SUBSET S : SumOn(h, T) = SumOn(f, T) + SumOn(g, T)}
  <1>1. {} \in U
    BY SumEmpty
  <1>2. ASSUME NEW T \in U, NEW x \in S PROVE T \cup {x} \in U
    <2>1. CASE x \in T
      <3>1. T \cup {x} = T
        BY <2>1
      <3> QED
        BY <3>1
    <2>2. CASE x \notin T
      <3>1. SumOn(f, T \cup {x}) = f[x] + SumOn(f, T) /\ SumOn(f, T) \in Int
        BY <2>2, SumInsert
      <3>2. SumOn(g, T \cup {x}) = g[x] + SumOn(g, T) /\ SumOn(g, T) \in Int
        BY <2>2, SumInsert
      <3>3. SumOn(h, T \cup {x}) = h[x] + SumOn(h, T)
        BY <2>2, SumInsert
      <3>4. SumOn(h, T) = SumOn(f, T) + SumOn(g, T)
        OBVIOUS
      <3>5. SumOn(h, T \cup {x}) = SumOn(f, T \cup {x}) + SumOn(g, T \cup {x})
        BY <3>1, <3>2, <3>3, <3>4
      <3> QED
        BY <3>5
    <2> QED
      BY <2>1, <2>2
  <1> HIDE DEF U
  <1>3. S \in U
    BY <1>1, <1>2, BuildUp
  <1> QED
    BY <1>3 DEF U

(* A sum is what is in one part and what is in the rest.                        *)
LEMMA SumSplit ==
    ASSUME NEW S, IsFiniteSet(S), NEW f, \A x \in S : f[x] \in Int, NEW R
    PROVE  /\ SumOn(f, S) = SumOn(f, S \cap R) + SumOn(f, S \ R)
           /\ SumOn(f, S \cap R) \in Int /\ SumOn(f, S \ R) \in Int
  <1> DEFINE U == {T \in SUBSET S : SumOn(f, T) = SumOn(f, T \cap R) + SumOn(f, T \ R)}
  <1>0. \A T \in SUBSET S : IsFiniteSet(T) /\ SumOn(f, T) \in Int
    <2> TAKE T \in SUBSET S
    <2>1. IsFiniteSet(T)
      BY FS_Subset
    <2> QED
      BY <2>1, SumSame
  <1>1. {} \in U
    <2>1. {} \cap R = {} /\ {} \ R = {}
      OBVIOUS
    <2> QED
      BY <2>1, SumEmpty
  <1>2. ASSUME NEW T \in U, NEW x \in S PROVE T \cup {x} \in U
    <2>1. CASE x \in T
      <3>1. T \cup {x} = T
        BY <2>1
      <3> QED
        BY <3>1
    <2>2. CASE x \notin T
      <3>0. SumOn(f, T) = SumOn(f, T \cap R) + SumOn(f, T \ R)
        OBVIOUS
      <3>1. SumOn(f, T \cup {x}) = f[x] + SumOn(f, T)
        BY <2>2, SumInsert
      <3>2. SumOn(f, T \cap R) \in Int /\ SumOn(f, T \ R) \in Int
        BY <1>0
      <3>3. PICK A, B, C, D : /\ A = T \cap R /\ B = T \ R
                              /\ C = (T \cup {x}) \cap R /\ D = (T \cup {x}) \ R
        OBVIOUS
      <3>4. A \in SUBSET S /\ B \in SUBSET S /\ x \in S \ A /\ x \in S \ B
        BY <2>2, <3>3
      <3>5. SumOn(f, A \cup {x}) = f[x] + SumOn(f, A) /\ SumOn(f, B \cup {x}) = f[x] + SumOn(f, B)
        BY <3>4, SumInsert
      <3>6. \/ C = A \cup {x} /\ D = B
            \/ C = A /\ D = B \cup {x}
        BY <3>3
      <3>7. SumOn(f, A) \in Int /\ SumOn(f, B) \in Int /\ SumOn(f, T) = SumOn(f, A) + SumOn(f, B)
        BY <3>0, <3>2, <3>3
      <3>8. SumOn(f, T \cup {x}) = SumOn(f, C) + SumOn(f, D)
        <4>1. f[x] \in Int
          OBVIOUS
        <4> HIDE DEF U
        <4>2. SumOn(f, T \cup {x}) = SumOn(f, A \cup {x}) + SumOn(f, B)
          BY <3>1, <3>5, <3>7, <4>1
        <4>3. SumOn(f, T \cup {x}) = SumOn(f, A) + SumOn(f, B \cup {x})
          BY <3>1, <3>5, <3>7, <4>1
        <4>4. CASE C = A \cup {x} /\ D = B
          BY <4>2, <4>4
        <4>5. CASE C = A /\ D = B \cup {x}
          BY <4>3, <4>5
        <4> QED
          BY <3>6, <4>4, <4>5
      <3> QED
        BY <3>3, <3>8
    <2> QED
      BY <2>1, <2>2
  <1> HIDE DEF U
  <1>3. S \in U
    BY <1>1, <1>2, BuildUp
  <1> QED
    BY <1>0, <1>3 DEF U

(* Larger numbers have a larger sum.                                             *)
LEMMA SumMono ==
    ASSUME NEW S, IsFiniteSet(S), NEW f, NEW g,
           \A x \in S : f[x] \in Int /\ g[x] \in Int /\ f[x] <= g[x]
    PROVE  SumOn(f, S) <= SumOn(g, S)
  <1> DEFINE U == {T \in SUBSET S : SumOn(f, T) <= SumOn(g, T)}
  <1>1. {} \in U
    BY SumEmpty
  <1>2. ASSUME NEW T \in U, NEW x \in S PROVE T \cup {x} \in U
    <2>1. CASE x \in T
      <3>1. T \cup {x} = T
        BY <2>1
      <3> QED
        BY <3>1
    <2>2. CASE x \notin T
      <3>1. SumOn(f, T \cup {x}) = f[x] + SumOn(f, T) /\ SumOn(f, T) \in Int
        BY <2>2, SumInsert
      <3>2. SumOn(g, T \cup {x}) = g[x] + SumOn(g, T) /\ SumOn(g, T) \in Int
        BY <2>2, SumInsert
      <3>4. SumOn(f, T) <= SumOn(g, T)
        OBVIOUS
      <3>5. SumOn(f, T \cup {x}) <= SumOn(g, T \cup {x})
        BY <3>1, <3>2, <3>4
      <3> QED
        BY <3>5
    <2> QED
      BY <2>1, <2>2
  <1> HIDE DEF U
  <1>3. S \in U
    BY <1>1, <1>2, BuildUp
  <1> QED
    BY <1>3 DEF U

(* A factor may be taken out.                                                    *)
LEMMA SumScale ==
    ASSUME NEW S, IsFiniteSet(S), NEW c \in Int, NEW f, NEW h,
           \A x \in S : f[x] \in Int /\ h[x] = c * f[x]
    PROVE  SumOn(h, S) = c * SumOn(f, S)
  <1> DEFINE U == {T \in SUBSET S : SumOn(h, T) = c * SumOn(f, T)}
  <1>0. \A a, b \in Int : c * (a + b) = c * a + c * b /\ c * a \in Int
    OBVIOUS
  <1>1. {} \in U
    BY SumEmpty
  <1>2. ASSUME NEW T \in U, NEW x \in S PROVE T \cup {x} \in U
    <2>1. CASE x \in T
      <3>1. T \cup {x} = T
        BY <2>1
      <3> QED
        BY <3>1
    <2>2. CASE x \notin T
      <3>1. SumOn(f, T \cup {x}) = f[x] + SumOn(f, T) /\ SumOn(f, T) \in Int
        BY <2>2, SumInsert
      <3>0. \A y \in S : h[y] \in Int
        BY <1>0
      <3>3. SumOn(h, T \cup {x}) = h[x] + SumOn(h, T)
        BY <2>2, <3>0, SumInsert
      <3>4. SumOn(h, T) = c * SumOn(f, T)
        OBVIOUS
      <3>5. SumOn(h, T \cup {x}) = c * SumOn(f, T \cup {x})
        BY <1>0, <3>1, <3>3, <3>4
      <3> QED
        BY <3>5
    <2> QED
      BY <2>1, <2>2
  <1> HIDE DEF U
  <1>3. S \in U
    BY <1>1, <1>2, BuildUp
  <1> QED
    BY <1>3 DEF U

(* Zeros add up to 0.                                                            *)
LEMMA SumNone ==
    ASSUME NEW S, IsFiniteSet(S), NEW f, \A x \in S : f[x] = 0
    PROVE  SumOn(f, S) = 0
  <1>1. SumOn(f, S) \in Int
    BY SumSame
  <1>2. \A x \in S : f[x] \in Int /\ f[x] = 0 * f[x]
    OBVIOUS
  <1>3. SumOn(f, S) = 0 * SumOn(f, S)
    BY <1>2, SumScale
  <1> QED
    BY <1>1, <1>3

(* Ones count.                                                                 *)
LEMMA SumCounts ==
    ASSUME NEW S, IsFiniteSet(S), NEW f, \A x \in S : f[x] = 1
    PROVE  SumOn(f, S) = Cardinality(S)
  <1> DEFINE U == {T \in SUBSET S : SumOn(f, T) = Cardinality(T)}
  <1>1. {} \in U
    BY SumEmpty, FS_EmptySet
  <1>2. ASSUME NEW T \in U, NEW x \in S PROVE T \cup {x} \in U
    <2>1. CASE x \in T
      <3>1. T \cup {x} = T
        BY <2>1
      <3> QED
        BY <3>1
    <2>2. CASE x \notin T
      <3>1. SumOn(f, T \cup {x}) = f[x] + SumOn(f, T) /\ SumOn(f, T) \in Int
        BY <2>2, SumInsert
      <3>2. IsFiniteSet(T)
        BY FS_Subset
      <3>3. Cardinality(T \cup {x}) = Cardinality(T) + 1
        BY <2>2, <3>2, FS_AddElement
      <3>4. SumOn(f, T) = Cardinality(T)
        OBVIOUS
      <3>5. SumOn(f, T \cup {x}) = Cardinality(T \cup {x})
        BY <3>1, <3>3, <3>4
      <3> QED
        BY <3>5
    <2> QED
      BY <2>1, <2>2
  <1> HIDE DEF U
  <1>3. S \in U
    BY <1>1, <1>2, BuildUp
  <1> QED
    BY <1>3 DEF U

(* The numbers outside a part are 0, so the part is the sum.                     *)
LEMMA SumWhere ==
    ASSUME NEW S, IsFiniteSet(S), NEW R \in SUBSET S, NEW f, NEW g,
           \A x \in R : f[x] = g[x] /\ g[x] \in Int, \A x \in S \ R : f[x] = 0
    PROVE  SumOn(f, S) = SumOn(g, R)
  <1>1. IsFiniteSet(R) /\ IsFiniteSet(S \ R)
    <2>1. S \ R \in SUBSET S
      OBVIOUS
    <2> QED
      BY <2>1, FS_Subset
  <1>2. S \cap R = R
    OBVIOUS
  <1>3. SumOn(f, S) = SumOn(f, R) + SumOn(f, S \ R) /\ SumOn(f, R) \in Int
    <2>1. \A x \in S : f[x] \in Int
      OBVIOUS
    <2>2. SumOn(f, S) = SumOn(f, S \cap R) + SumOn(f, S \ R) /\ SumOn(f, S \cap R) \in Int
      BY <2>1, SumSplit
    <2> QED
      BY <1>2, <2>2
  <1>4. SumOn(f, S \ R) = 0
    BY <1>1, SumNone
  <1>5. SumOn(f, R) = SumOn(g, R)
    BY <1>1, SumSame
  <1> QED
    BY <1>3, <1>4, <1>5

(* A table adds up to the same by rows and by columns.                           *)
TwoWays(S, T, F, G, rows, columns) ==
    /\ IsFiniteSet(S) /\ IsFiniteSet(T)
    /\ \A x \in S : \A y \in T : F[x][y] \in Int /\ G[y][x] = F[x][y]
    /\ \A x \in S : rows[x] = SumOn(F[x], T)
    /\ \A y \in T : columns[y] = SumOn(G[y], S)

LEMMA SumSwap ==
    ASSUME NEW S, NEW T, NEW F, NEW G, NEW rows, NEW columns,
           TwoWays(S, T, F, G, rows, columns)
    PROVE  SumOn(rows, S) = SumOn(columns, T)
  <1> SUFFICES ASSUME IsFiniteSet(S), IsFiniteSet(T),
                      \A x \in S : \A y \in T : F[x][y] \in Int,
                      \A x \in S : \A y \in T : G[y][x] = F[x][y],
                      \A x \in S : rows[x] = SumOn(F[x], T),
                      \A y \in T : columns[y] = SumOn(G[y], S)
               PROVE  SumOn(rows, S) = SumOn(columns, T)
    BY DEF TwoWays
  <1> DEFINE Column(y, R) == SumOn([x \in S |-> F[x][y]], R)
             Columns(R)   == [y \in T |-> Column(y, R)]
             U            == {R \in SUBSET S : SumOn(rows, R) = SumOn(Columns(R), T)}
  <1>0. \A x \in S : rows[x] \in Int
    BY SumSame
  <1>1. \A R \in SUBSET S : \A y \in T : Column(y, R) \in Int
    <2> TAKE R \in SUBSET S
    <2> TAKE y \in T
    <2>1. IsFiniteSet(R)
      BY FS_Subset
    <2> QED
      BY <2>1, SumSame
  <1>2. {} \in U
    <2>1. \A y \in T : Columns({})[y] = 0
      BY SumEmpty
    <2>2. SumOn(Columns({}), T) = 0
      <3> HIDE DEF Columns
      <3> QED
        BY <2>1, SumNone
    <2> QED
      BY <2>2, SumEmpty
  <1>3. ASSUME NEW R \in U, NEW z \in S PROVE R \cup {z} \in U
    <2>1. CASE z \in R
      <3>1. R \cup {z} = R
        BY <2>1
      <3> QED
        BY <3>1
    <2>2. CASE z \notin R
      <3>1. SumOn(rows, R \cup {z}) = rows[z] + SumOn(rows, R) /\ SumOn(rows, R) \in Int
        BY <1>0, <2>2, SumInsert
      <3>2. \A y \in T : Column(y, R \cup {z}) = F[z][y] + Column(y, R)
        <4> TAKE y \in T
        <4> DEFINE f == [x \in S |-> F[x][y]]
        <4>1. \A x \in S : f[x] \in Int
          OBVIOUS
        <4>2. f[z] = F[z][y]
          OBVIOUS
        <4> HIDE DEF f
        <4>3. SumOn(f, R \cup {z}) = f[z] + SumOn(f, R)
          BY <2>2, <4>1, SumInsert
        <4> QED
          BY <4>2, <4>3 DEF f
      <3>3. R \cup {z} \in SUBSET S
        OBVIOUS
      <3>4. \A y \in T : /\ F[z][y] \in Int /\ Columns(R)[y] \in Int
                         /\ Columns(R \cup {z})[y] = F[z][y] + Columns(R)[y]
        BY <1>1, <3>2
      <3>5. SumOn(Columns(R \cup {z}), T) = SumOn(F[z], T) + SumOn(Columns(R), T)
        <4> HIDE DEF Columns
        <4>1. PICK a, b, c : a = F[z] /\ b = Columns(R) /\ c = Columns(R \cup {z})
          OBVIOUS
        <4>2. \A y \in T : a[y] \in Int /\ b[y] \in Int /\ c[y] = a[y] + b[y]
          BY <3>4, <4>1
        <4>3. SumOn(c, T) = SumOn(a, T) + SumOn(b, T)
          BY <4>2, SumAdd
        <4> QED
          BY <4>1, <4>3
      <3>6. SumOn(rows, R) = SumOn(Columns(R), T)
        OBVIOUS
      <3>7. SumOn(rows, R \cup {z}) = SumOn(Columns(R \cup {z}), T)
        BY <3>1, <3>5, <3>6
      <3> QED
        BY <3>3, <3>7
    <2> QED
      BY <2>1, <2>2
  <1>4. S \in U
    <2> HIDE DEF U
    <2> QED
      BY <1>2, <1>3, BuildUp
  <1>5. SumOn(rows, S) = SumOn(Columns(S), T)
    BY <1>4
  <1>6. \A y \in T : Columns(S)[y] = columns[y] /\ Columns(S)[y] \in Int
    <2> TAKE y \in T
    <2> DEFINE f == [x \in S |-> F[x][y]]
    <2>1. \A x \in S : f[x] = G[y][x] /\ f[x] \in Int
      OBVIOUS
    <2>2. Columns(S)[y] = SumOn(f, S)
      OBVIOUS
    <2> HIDE DEF f, Columns
    <2>3. SumOn(f, S) = SumOn(G[y], S) /\ SumOn(f, S) \in Int
      BY <2>1, SumSame
    <2> QED
      BY <2>2, <2>3
  <1> HIDE DEF Columns
  <1>7. SumOn(Columns(S), T) = SumOn(columns, T)
    BY <1>6, SumSame
  <1> QED
    BY <1>5, <1>7

------------------------------------------------------------------------------
(* Money: splits by weight.                                                  *)

(* Of things in a strict order, exactly n have fewer than n before them.          *)
LEMMA Ranks ==
    ASSUME NEW K, IsFiniteSet(K), NEW B, \A k \in K : B[k] \in SUBSET K /\ k \notin B[k],
           \A j, k \in K : j # k => j \in B[k] \/ k \in B[j],
           \A j, k \in K : j \in B[k] => B[j] \subseteq B[k],
           NEW n \in 0 .. Cardinality(K)
    PROVE  Cardinality({k \in K : Cardinality(B[k]) < n}) = n
  <1> DEFINE N == Cardinality(K)
             r == [k \in K |-> Cardinality(B[k])]
  <1>0. N \in Nat
    BY FS_CardinalityType
  <1>1. \A k \in K : IsFiniteSet(B[k]) /\ Cardinality(B[k]) \in Nat
    <2> TAKE k \in K
    <2>1. IsFiniteSet(B[k])
      BY FS_Subset
    <2> QED
      BY <2>1, FS_CardinalityType
  <1>2. \A j, k \in K : j \in B[k] => r[j] < r[k]
    <2> SUFFICES ASSUME NEW j \in K, NEW k \in K, j \in B[k] PROVE Cardinality(B[j]) < Cardinality(B[k])
      OBVIOUS
    <2>1. IsFiniteSet(B[k] \ {j}) /\ Cardinality(B[k] \ {j}) = Cardinality(B[k]) - 1
      BY <1>1, FS_RemoveElement
    <2>2. B[j] \in SUBSET (B[k] \ {j})
      OBVIOUS
    <2>3. Cardinality(B[j]) <= Cardinality(B[k] \ {j})
      BY <2>1, <2>2, FS_Subset
    <2> QED
      BY <1>1, <2>1, <2>3
  <1>3. \A k \in K : r[k] \in 0 .. N - 1
    <2> TAKE k \in K
    <2>1. IsFiniteSet(K \ {k}) /\ Cardinality(K \ {k}) = N - 1
      BY FS_RemoveElement
    <2>2. B[k] \in SUBSET (K \ {k})
      OBVIOUS
    <2>3. Cardinality(B[k]) <= Cardinality(K \ {k})
      BY <2>1, <2>2, FS_Subset
    <2> QED
      BY <1>0, <1>1, <2>1, <2>3
  <1>4. \A j, k \in K : r[j] = r[k] => j = k
    <2> SUFFICES ASSUME NEW j \in K, NEW k \in K, j # k PROVE r[j] # r[k]
      OBVIOUS
    <2>1. r[j] \in Int /\ r[k] \in Int
      BY <1>0, <1>3
    <2>2. r[j] < r[k] \/ r[k] < r[j]
      BY <1>2
    <2> HIDE DEF r
    <2> QED
      BY <2>1, <2>2
  <1>5. r \in Injection(K, 0 .. N - 1)
    <2>1. r \in [K -> 0 .. N - 1]
      BY <1>3
    <2> HIDE DEF r
    <2> QED
      BY <1>4, <2>1 DEF Injection, IsInjective
  <1>6. IsFiniteSet(0 .. N - 1) /\ Cardinality(0 .. N - 1) = N
    <2>1. N - 1 \in Int /\ N - 1 - 0 + 1 = N /\ (0 > N - 1 => N = 0)
      BY <1>0
    <2> HIDE DEF N
    <2> QED
      BY <2>1, FS_Interval
  <1>7. r \in Surjection(K, 0 .. N - 1)
    BY <1>5, <1>6, FS_Injection
  <1>8. \A t \in 0 .. N - 1 : \E k \in K : r[k] = t
    BY <1>7 DEF Surjection
  <1> DEFINE L == {k \in K : r[k] < n}
             q == [k \in L |-> r[k]]
  <1>9. q \in Bijection(L, 0 .. n - 1)
    <2>1. q \in [L -> 0 .. n - 1]
      <3> HIDE DEF r
      <3> QED
        BY <1>0, <1>3
    <2>2. \A t \in 0 .. n - 1 : \E k \in L : q[k] = t
      <3> SUFFICES ASSUME NEW t \in 0 .. n - 1 PROVE \E k \in L : q[k] = t
        OBVIOUS
      <3>1. t \in 0 .. N - 1 /\ t < n
        BY <1>0
      <3>2. PICK k \in K : r[k] = t
        BY <1>8, <3>1
      <3> HIDE DEF r
      <3>3. k \in L /\ q[k] = t
        BY <3>1, <3>2
      <3> QED
        BY <3>3
    <2>3. \A j, k \in L : q[j] = q[k] => j = k
      <3> HIDE DEF r
      <3> QED
        BY <1>4
    <2> HIDE DEF q
    <2> QED
      BY <2>1, <2>2, <2>3 DEF Bijection, Injection, Surjection, IsInjective
  <1>10. IsFiniteSet(L) /\ L = {k \in K : Cardinality(B[k]) < n}
    <2>1. L \in SUBSET K /\ L = {k \in K : Cardinality(B[k]) < n}
      OBVIOUS
    <2> HIDE DEF L
    <2> QED
      BY <2>1, FS_Subset
  <1>11. ExistsBijection(L, 0 .. n - 1)
    BY <1>9 DEF ExistsBijection
  <1> HIDE DEF L, r
  <1>12. Cardinality(0 .. n - 1) = Cardinality(L)
    BY <1>10, <1>11, FS_Bijection
  <1>13. Cardinality(0 .. n - 1) = n
    BY <1>0, FS_Interval
  <1> QED
    BY <1>10, <1>12, <1>13

(* Division with a rest.                                                         *)
LEMMA Division ==
    \A a \in Nat, b \in Nat \ {0} :
        a = b * (a \div b) + (a % b) /\ a % b \in Nat /\ a % b <= b /\ a \div b \in Nat
  OBVIOUS

(* A positive factor on both sides may be left out.                              *)
LEMMA Cancel ==
    ASSUME NEW a \in Nat \ {0}, NEW x \in Int, NEW y \in Int, a * x <= a * y
    PROVE  x <= y
  <1> SUFFICES ASSUME x > y PROVE a * x > a * y
    OBVIOUS
  <1>1. PICK d \in Nat \ {0} : x = y + d
    <2>1. x - y \in Nat \ {0} /\ x = y + (x - y)
      OBVIOUS
    <2> QED
      BY <2>1
  <1>2. a * x = a * y + a * d
    BY <1>1
  <1>3. a * d \in Nat \ {0}
    OBVIOUS
  <1>4. a * x \in Int /\ a * y \in Int
    OBVIOUS
  <1> QED
    BY <1>2, <1>3, <1>4

(* The model's Total is a sum.                                                   *)
LEMMA TotalIs == ASSUME NEW f PROVE Sums!Total(f) = SumOn(f, DOMAIN f)
  BY DEF Sums!Total, SumOn, Sums!MapThenSumSet, MapThenSumSet, Sums!MapThenFoldSet, MapThenFoldSet

(* Shares above 0 have a total above 0.                                          *)
LEMMA WeighsSomething ==
    ASSUME NEW w, Shared(w)
    PROVE  Sums!Total(w) \in Nat \ {0}
  <1> DEFINE K == DOMAIN w
             one == [k \in K |-> 1]
  <1>1. IsFiniteSet(K) /\ K # {} /\ \A k \in K : w[k] \in Nat \ {0}
    BY DEF Shared
  <1>2. SumOn(one, K) = Cardinality(K)
    BY <1>1, SumCounts
  <1>3. Cardinality(K) \in Nat \ {0}
    BY <1>1, FS_CardinalityType, FS_EmptySet
  <1>4. \A k \in K : one[k] \in Int /\ w[k] \in Int /\ one[k] <= w[k]
    BY <1>1
  <1> HIDE DEF K, one
  <1>5. SumOn(one, K) <= SumOn(w, K) /\ SumOn(w, K) \in Int
    BY <1>1, <1>4, SumMono, SumSame
  <1>6. Sums!Total(w) = SumOn(w, K)
    BY TotalIs DEF K
  <1> QED
    BY <1>2, <1>3, <1>5, <1>6

(* Every split adds up to what was split, whatever the weights.                  *)
LEMMA SplitAddsUp ==
    ASSUME NEW w, Shared(w), NEW amount \in Nat
    PROVE  /\ Sums!SplitByWeight(amount, w) = [k \in DOMAIN w |-> Sums!SplitByWeight(amount, w)[k]]
           /\ \A k \in DOMAIN w : Sums!SplitByWeight(amount, w)[k] \in Nat
           /\ SumOn(Sums!SplitByWeight(amount, w), DOMAIN w) = amount
  <1> DEFINE K        == DOMAIN w
             all      == Sums!Total(w)
             scaled   == [k \in K |-> amount * w[k]]
             down     == [k \in K |-> (amount * w[k]) \div all]
             rest     == [k \in K |-> (amount * w[k]) % all]
             leftover == amount - Sums!Total(down)
             B        == [k \in K |-> {j \in K : \/ (amount * w[j]) % all > (amount * w[k]) % all
                                                 \/ (amount * w[j]) % all = (amount * w[k]) % all /\ j < k}]
             more     == [k \in K |-> IF Cardinality(B[k]) < leftover THEN 1 ELSE 0]
             parts    == [k \in K |-> down[k] + more[k]]
  <1>1. IsFiniteSet(K) /\ K # {} /\ K \subseteq Nat /\ \A k \in K : w[k] \in Nat \ {0}
    BY DEF Shared
  <1>2. all \in Nat \ {0}
    BY WeighsSomething
  <1>3. Sums!SplitByWeight(amount, w) = parts
    <2>1. ~(all <= 0)
      BY <1>2
    <2> QED
      BY <2>1 DEF Sums!SplitByWeight, Sums!Cardinality, Cardinality
  <1>4. \A k \in K : /\ scaled[k] \in Nat /\ down[k] \in Nat /\ rest[k] \in Nat /\ rest[k] <= all
                     /\ scaled[k] = all * down[k] + rest[k]
    <2> TAKE k \in K
    <2>1. amount * w[k] \in Nat
      BY <1>1
    <2> HIDE DEF all
    <2> QED
      BY <1>2, <2>1, Division
  <1>5. \A k \in K : B[k] = {j \in K : rest[j] > rest[k] \/ (rest[j] = rest[k] /\ j < k)}
    OBVIOUS
  <1>6. Sums!Total(down) = SumOn(down, K) /\ all = SumOn(w, K)
    <2>1. DOMAIN down = K
      OBVIOUS
    <2> HIDE DEF down, K
    <2>2. Sums!Total(down) = SumOn(down, K)
      BY <2>1, TotalIs
    <2> QED
      BY <2>2, TotalIs DEF K
  <1>7. SumOn(scaled, K) = amount * all
    <2>1. \A k \in K : w[k] \in Int /\ scaled[k] = amount * w[k]
      BY <1>1
    <2>2. IsFiniteSet(K) /\ amount \in Int
      BY <1>1
    <2> HIDE DEF scaled, K, all
    <2>3. SumOn(scaled, K) = amount * SumOn(w, K)
      BY <2>1, <2>2, SumScale
    <2> QED
      BY <1>6, <2>3
  <1> DEFINE whole == [k \in K |-> all * down[k]]
  <1>8. SumOn(scaled, K) = all * SumOn(down, K) + SumOn(rest, K)
    <2>1. \A k \in K : whole[k] = all * down[k]
      OBVIOUS
    <2> HIDE DEF all, down, rest, scaled, whole, K
    <2>2. IsFiniteSet(K) /\ all \in Int
      BY <1>1, <1>2
    <2>3. \A k \in K : down[k] \in Int /\ whole[k] = all * down[k]
      BY <1>4, <2>1
    <2>4. \A k \in K : whole[k] \in Int /\ rest[k] \in Int /\ scaled[k] = whole[k] + rest[k]
      BY <1>4, <2>2, <2>3
    <2>5. SumOn(whole, K) = all * SumOn(down, K)
      BY <2>2, <2>3, SumScale
    <2>6. SumOn(scaled, K) = SumOn(whole, K) + SumOn(rest, K)
      BY <2>2, <2>4, SumAdd
    <2> QED
      BY <2>5, <2>6
  <1> DEFINE one == [k \in K |-> 1]
             top == [k \in K |-> all * 1]
             nil == [k \in K |-> 0]
  <1>9. SumOn(rest, K) \in Nat /\ SumOn(rest, K) <= all * Cardinality(K)
    <2>1. \A k \in K : one[k] = 1 /\ top[k] = all * one[k] /\ nil[k] = 0
      OBVIOUS
    <2> HIDE DEF all, rest, one, top, nil, K, down, scaled
    <2>2. SumOn(one, K) = Cardinality(K) /\ SumOn(nil, K) = 0
      BY <1>1, <2>1, SumCounts, SumNone
    <2>3. \A k \in K : one[k] \in Int /\ top[k] = all * one[k]
      BY <2>1
    <2>4. SumOn(top, K) = all * Cardinality(K)
      <3>1. IsFiniteSet(K) /\ all \in Int
        BY <1>1, <1>2
      <3>2. SumOn(top, K) = all * SumOn(one, K)
        BY <2>3, <3>1, SumScale
      <3> QED
        BY <2>2, <3>2
    <2>5. \A k \in K : /\ nil[k] \in Int /\ rest[k] \in Int /\ top[k] \in Int
                       /\ nil[k] <= rest[k] /\ rest[k] <= top[k]
      BY <1>2, <1>4, <2>1
    <2>6. SumOn(rest, K) \in Int
      BY <1>1, <2>5, SumSame
    <2>7. SumOn(nil, K) <= SumOn(rest, K) /\ SumOn(rest, K) <= SumOn(top, K)
      BY <1>1, <2>5, SumMono
    <2> QED
      BY <2>2, <2>4, <2>6, <2>7
  <1>10. SumOn(down, K) \in Int /\ Cardinality(K) \in Nat
    <2>1. \A k \in K : down[k] \in Int
      BY <1>4
    <2> HIDE DEF down, K
    <2> QED
      BY <1>1, <2>1, SumSame, FS_CardinalityType
  <1>11. leftover \in 0 .. Cardinality(K) /\ leftover = amount - SumOn(down, K)
    <2>1. leftover = amount - SumOn(down, K)
      BY <1>6
    <2> HIDE DEF all, down, rest, K, leftover, scaled
    <2>2. leftover \in Int
      BY <1>10, <2>1
    <2>3. all * leftover = all * amount - all * SumOn(down, K)
      BY <1>2, <1>10, <2>1
    <2>4. all * leftover = SumOn(rest, K)
      BY <1>2, <1>7, <1>8, <1>9, <1>10, <2>3
    <2>5. all * leftover <= all * Cardinality(K) /\ all * 0 <= all * leftover
      BY <1>2, <1>9, <2>4
    <2> QED
      BY <1>2, <1>10, <2>1, <2>2, <2>5, Cancel
  <1>12. Cardinality({k \in K : Cardinality(B[k]) < leftover}) = leftover
    <2>0. /\ \A k \in K : rest[k] \in Nat /\ k \in Nat
          /\ \A j, k \in K : j \in B[k] <=> (rest[j] > rest[k] \/ (rest[j] = rest[k] /\ j < k))
          /\ \A k \in K : B[k] \subseteq K
      BY <1>1, <1>4
    <2>1. IsFiniteSet(K) /\ leftover \in 0 .. Cardinality(K)
      BY <1>1, <1>11
    <2> HIDE DEF rest, B, K, leftover, scaled, down
    <2>2. \A k \in K : B[k] \in SUBSET K /\ k \notin B[k]
      BY <2>0
    <2>3. \A j, k \in K : j # k => j \in B[k] \/ k \in B[j]
      BY <2>0
    <2>4. \A j, k \in K : j \in B[k] => B[j] \subseteq B[k]
      <3> SUFFICES ASSUME NEW j \in K, NEW k \in K, j \in B[k], NEW i \in B[j] PROVE i \in B[k]
        OBVIOUS
      <3>1. i \in K
        BY <2>0
      <3> QED
        BY <2>0, <3>1
    <2> QED
      BY <2>1, <2>2, <2>3, <2>4, Ranks
  <1>13. SumOn(more, K) = leftover
    <2> DEFINE L == {k \in K : Cardinality(B[k]) < leftover}
    <2>1. L \in SUBSET K /\ \A k \in L : more[k] = 1 /\ \A j \in K \ L : more[j] = 0
      OBVIOUS
    <2>2. one = [k \in K |-> 1] /\ \A k \in K : one[k] = 1
      OBVIOUS
    <2> HIDE DEF L, more, one, leftover, B, K
    <2>3. \A k \in L : more[k] = one[k] /\ one[k] \in Int
      BY <2>1, <2>2
    <2>4. \A k \in K \ L : more[k] = 0
      BY DEF L, more
    <2>5. IsFiniteSet(L)
      BY <1>1, <2>1, FS_Subset
    <2>6. SumOn(more, K) = SumOn(one, L)
      <3>1. IsFiniteSet(K) /\ L \in SUBSET K
        BY <1>1, <2>1
      <3> QED
        BY <2>3, <2>4, <3>1, SumWhere
    <2>7. SumOn(one, L) = Cardinality(L)
      BY <2>1, <2>2, <2>5, SumCounts
    <2> QED
      BY <1>12, <2>6, <2>7 DEF L
  <1>14. \A k \in K : more[k] \in Nat /\ down[k] \in Nat /\ parts[k] = down[k] + more[k] /\ parts[k] \in Nat
    BY <1>4
  <1>15. parts = [k \in K |-> parts[k]]
    OBVIOUS
  <1> HIDE DEF parts, down, more, K, leftover
  <1>16. SumOn(parts, K) = SumOn(down, K) + SumOn(more, K)
    <2>1. IsFiniteSet(K) /\ \A k \in K : down[k] \in Int /\ more[k] \in Int /\ parts[k] = down[k] + more[k]
      BY <1>1, <1>14
    <2> QED
      BY <2>1, SumAdd
  <1>17. SumOn(parts, K) = amount
    BY <1>10, <1>11, <1>13, <1>16
  <1> QED
    BY <1>3, <1>14, <1>15, <1>17 DEF K

(* What is held: amounts, each with its owners.                                  *)
Held(items) ==
    /\ IsFiniteSet(DOMAIN items)
    /\ \A i \in DOMAIN items : items[i].value \in Nat /\ Shared(items[i].owners)

(* Household is the members' lenses and what former members own.                 *)
LensesAgree(items, M) ==
    LET all == Sums!AllLenses(items, M)
    IN  /\ all.household = Sums!NetWorth(items, Household)
        /\ \A m \in M : all.byMember[m] = Sums!NetWorth(items, m)
        /\ \A part \in {"assets", "liabilities", "net"} :
              all.household[part] = Sums!Total([m \in M |-> all.byMember[m][part]])
                                    + all.formerMembers[part]
        /\ all.formerMembers.net \in Int /\ all.household.net \in Int
        /\ DOMAIN all.byMember = M /\ \A m \in M : all.byMember[m].net \in Int

(* One number is its own sum.                                                    *)
LEMMA SumOne == ASSUME NEW x, NEW f, f[x] \in Int PROVE SumOn(f, {x}) = f[x]
  <1>1. IsFiniteSet({x}) /\ \A y \in {x} : f[y] \in Int
    BY FS_Singleton
  <1>2. SumOn(f, {x}) = f[x] + SumOn(f, {x} \ {x})
    BY <1>1, SumRemove
  <1>3. {x} \ {x} = {}
    OBVIOUS
  <1> QED
    BY <1>2, <1>3, SumEmpty

(* Under any lens an amount is one.                                              *)
LEMMA LensIsNat ==
    ASSUME NEW amount \in Nat, NEW owners, Shared(owners), NEW lens
    PROVE  Sums!LensAmount(amount, owners, lens) \in Nat
  BY SplitAddsUp DEF Sums!LensAmount, Sums!OwnerSplit

(* The members' lenses and what is left to others make up an amount.             *)
LEMMA LensesCover ==
    ASSUME NEW amount \in Nat, NEW w, Shared(w), NEW M, IsFiniteSet(M), Household \notin M,
           NEW L, \A m \in M : L[m] = Sums!LensAmount(amount, w, m)
    PROVE  /\ amount = SumOn(L, M) + SumOn(Sums!SplitByWeight(amount, w), DOMAIN w \ M)
           /\ SumOn(Sums!SplitByWeight(amount, w), DOMAIN w \ M) \in Int
  <1>1. PICK s, D : s = Sums!SplitByWeight(amount, w) /\ D = DOMAIN w
    OBVIOUS
  <1>2. IsFiniteSet(D) /\ (\A k \in D : s[k] \in Int) /\ SumOn(s, D) = amount
    BY <1>1, SplitAddsUp DEF Shared
  <1>3. /\ SumOn(s, D) = SumOn(s, D \cap M) + SumOn(s, D \ M)
        /\ SumOn(s, D \cap M) \in Int /\ SumOn(s, D \ M) \in Int
    BY <1>2, SumSplit
  <1>4. D \cap M \in SUBSET M
    OBVIOUS
  <1>5. \A m \in D \cap M : L[m] = s[m] /\ s[m] \in Int
    BY <1>1, <1>2 DEF Sums!LensAmount, Sums!OwnerSplit
  <1>6. \A m \in M \ (D \cap M) : L[m] = 0
    BY <1>1 DEF Sums!LensAmount
  <1>7. SumOn(L, M) = SumOn(s, D \cap M)
    BY <1>4, <1>5, <1>6, SumWhere
  <1> QED
    BY <1>1, <1>2, <1>3, <1>7

Counted(items, kind) ==
    {j \in DOMAIN items : items[j].includeInNetWorth /\ items[j].side = kind}

(* Totals are sums over what counts, on each side.                               *)
LEMMA TotalsAre ==
    ASSUME NEW items, IsFiniteSet(DOMAIN items), NEW amount,
           \A i \in DOMAIN items : amount[i] \in Int
    PROVE  /\ Sums!Totals(items, amount).assets = SumOn(amount, Counted(items, "asset"))
           /\ Sums!Totals(items, amount).liabilities = SumOn(amount, Counted(items, "liability"))
           /\ Sums!Totals(items, amount).net = Sums!Totals(items, amount).assets
                                          - Sums!Totals(items, amount).liabilities
           /\ Sums!Totals(items, amount).assets \in Int /\ Sums!Totals(items, amount).liabilities \in Int
           /\ Sums!Totals(items, amount) = [assets |-> Sums!Totals(items, amount).assets,
                                       liabilities |-> Sums!Totals(items, amount).liabilities,
                                       net |-> Sums!Totals(items, amount).net]
  <1> DEFINE Of(kind) == Sums!Total([i \in Counted(items, kind) |-> amount[i]])
  <1>1. Sums!Totals(items, amount) = [assets |-> Of("asset"), liabilities |-> Of("liability"),
                                 net |-> Of("asset") - Of("liability")]
    BY DEF Sums!Totals, Counted
  <1>2. ASSUME NEW kind PROVE Of(kind) = SumOn(amount, Counted(items, kind)) /\ Of(kind) \in Int
    <2>1. PICK C : C = Counted(items, kind)
      OBVIOUS
    <2>2. C \in SUBSET DOMAIN items
      BY <2>1 DEF Counted
    <2>3. IsFiniteSet(C)
      BY <2>2, FS_Subset
    <2>4. PICK f : f = [i \in C |-> amount[i]]
      OBVIOUS
    <2>5. DOMAIN f = C /\ \A i \in C : f[i] = amount[i] /\ f[i] \in Int
      BY <2>2, <2>4
    <2>6. SumOn(f, C) = SumOn(amount, C) /\ SumOn(f, C) \in Int
      BY <2>3, <2>5, SumSame
    <2>7. Of(kind) = SumOn(f, C)
      BY <2>1, <2>4, <2>5, TotalIs
    <2> QED
      BY <2>1, <2>6, <2>7
  <1> HIDE DEF Of
  <1> QED
    BY <1>1, <1>2

(* They are the same however the amounts are given.                              *)
LEMMA TotalsSame ==
    ASSUME NEW items, IsFiniteSet(DOMAIN items), NEW a, NEW b,
           \A i \in DOMAIN items : a[i] = b[i] /\ a[i] \in Int
    PROVE  Sums!Totals(items, a) = Sums!Totals(items, b)
  <1>1. \A i \in DOMAIN items : b[i] \in Int
    OBVIOUS
  <1>2. \A kind : SumOn(a, Counted(items, kind)) = SumOn(b, Counted(items, kind))
    <2> TAKE kind
    <2>1. PICK C : C = Counted(items, kind)
      OBVIOUS
    <2>2. C \in SUBSET DOMAIN items
      BY <2>1 DEF Counted
    <2>3. IsFiniteSet(C) /\ \A i \in C : a[i] = b[i] /\ a[i] \in Int
      BY <2>2, FS_Subset
    <2> QED
      BY <2>1, <2>3, SumSame
  <1>3. \A i \in DOMAIN items : a[i] \in Int
    OBVIOUS
  <1>4. /\ Sums!Totals(items, a).assets = Sums!Totals(items, b).assets
        /\ Sums!Totals(items, a).liabilities = Sums!Totals(items, b).liabilities
        /\ Sums!Totals(items, a).net = Sums!Totals(items, b).net
    BY <1>1, <1>2, <1>3, TotalsAre
  <1> QED
    BY <1>1, <1>3, <1>4, TotalsAre

(* What rows make up, and what is left over, by columns.                         *)
Table(I, M, L, G, other, value, by) ==
    /\ IsFiniteSet(I) /\ IsFiniteSet(M)
    /\ \A i \in I : \A m \in M : L[i][m] \in Int
    /\ \A i \in I : \A m \in M : G[m][i] = L[i][m]
    /\ \A i \in I : other[i] \in Int /\ value[i] = SumOn(L[i], M) + other[i]
    /\ \A m \in M : by[m] = SumOn(G[m], I)

LEMMA RowsMakeUp ==
    ASSUME NEW I, NEW M, NEW L, NEW G, NEW other, NEW value, NEW by,
           Table(I, M, L, G, other, value, by)
    PROVE  SumOn(value, I) = SumOn(by, M) + SumOn(other, I)
  <1>0. /\ IsFiniteSet(I) /\ IsFiniteSet(M)
        /\ \A i \in I : \A m \in M : L[i][m] \in Int
        /\ \A i \in I : \A m \in M : G[m][i] = L[i][m]
        /\ \A i \in I : other[i] \in Int /\ value[i] = SumOn(L[i], M) + other[i]
        /\ \A m \in M : by[m] = SumOn(G[m], I)
    BY DEF Table
  <1>1. PICK rows : \A i \in I : rows[i] = SumOn(L[i], M)
    <2> DEFINE r == [i \in I |-> SumOn(L[i], M)]
    <2>1. \A i \in I : r[i] = SumOn(L[i], M)
      OBVIOUS
    <2> HIDE DEF r
    <2> QED
      BY <2>1
  <1>2. SumOn(rows, I) = SumOn(by, M)
    <2>1. TwoWays(I, M, L, G, rows, by)
      BY <1>0, <1>1 DEF TwoWays
    <2> QED
      BY <2>1, SumSwap
  <1>3. \A i \in I : rows[i] \in Int /\ other[i] \in Int /\ value[i] = rows[i] + other[i]
    BY <1>0, <1>1, SumSame
  <1>4. SumOn(value, I) = SumOn(rows, I) + SumOn(other, I)
    BY <1>0, <1>3, SumAdd
  <1> QED
    BY <1>2, <1>4

(* What some of the owners have of an amount.                                    *)
LEMMA PartOf ==
    ASSUME NEW amount \in Nat, NEW w, Shared(w), NEW who
    PROVE  /\ Sums!Total([m \in DOMAIN w \cap who |-> Sums!OwnerSplit(amount, w)[m]])
                  = SumOn(Sums!SplitByWeight(amount, w), DOMAIN w \cap who)
           /\ SumOn(Sums!SplitByWeight(amount, w), DOMAIN w \cap who) \in Int
  <1>1. PICK s, C, f : /\ s = Sums!SplitByWeight(amount, w) /\ C = DOMAIN w \cap who
                       /\ f = [m \in DOMAIN w \cap who |-> Sums!OwnerSplit(amount, w)[m]]
    OBVIOUS
  <1>2. C \in SUBSET DOMAIN w /\ IsFiniteSet(DOMAIN w)
    BY <1>1 DEF Shared
  <1>3. IsFiniteSet(C)
    BY <1>2, FS_Subset
  <1>4. DOMAIN f = C /\ \A m \in C : f[m] = s[m] /\ f[m] \in Int
    BY <1>1, <1>2, SplitAddsUp DEF Sums!OwnerSplit
  <1>5. SumOn(f, C) = SumOn(s, C) /\ SumOn(f, C) \in Int
    BY <1>3, <1>4, SumSame
  <1>6. Sums!Total(f) = SumOn(f, C)
    BY <1>4, TotalIs
  <1> QED
    BY <1>1, <1>5, <1>6

(* What one of them has is that member's lens.                                   *)
LEMMA PartOfOne ==
    ASSUME NEW amount \in Nat, NEW w, Shared(w), NEW m, m # Household
    PROVE  SumOn(Sums!SplitByWeight(amount, w), DOMAIN w \cap {m}) = Sums!LensAmount(amount, w, m)
  <1>1. PICK s : s = Sums!SplitByWeight(amount, w)
    OBVIOUS
  <1>2. CASE m \in DOMAIN w
    <2>1. DOMAIN w \cap {m} = {m} /\ s[m] \in Int /\ Sums!LensAmount(amount, w, m) = s[m]
      BY <1>1, <1>2, SplitAddsUp DEF Sums!LensAmount, Sums!OwnerSplit
    <2> QED
      BY <1>1, <2>1, SumOne
  <1>3. CASE m \notin DOMAIN w
    <2>1. DOMAIN w \cap {m} = {} /\ Sums!LensAmount(amount, w, m) = 0
      BY <1>3 DEF Sums!LensAmount
    <2> QED
      BY <2>1, SumEmpty
  <1> QED
    BY <1>2, <1>3

(* The pass over all lenses agrees with each, and they add up to Household.      *)
LEMMA LensesAgreeAlways ==
    ASSUME NEW items, Held(items), NEW M, IsFiniteSet(M), Household \notin M
    PROVE  LensesAgree(items, M)
  <1> DEFINE D    == DOMAIN items
             V(i) == items[i].value
             own(i) == items[i].owners
             val     == [i \in D |-> V(i)]
             Of(i, who) == Sums!Total([m \in DOMAIN own(i) \cap who |-> Sums!OwnerSplit(V(i), own(i))[m]])
             share(m)   == [i \in D |-> Sums!LensAmount(V(i), own(i), m)]
             part(m)    == [i \in D |-> Of(i, {m})]
             other   == [i \in D |-> Of(i, DOMAIN own(i) \ M)]
             all        == Sums!AllLenses(items, M)
  <1>1. IsFiniteSet(D) /\ \A i \in D : V(i) \in Nat /\ Shared(own(i))
    BY DEF Held
  <1>2. /\ all.household = Sums!Totals(items, val)
        /\ \A m \in M : all.byMember[m] = Sums!Totals(items, part(m))
        /\ DOMAIN all.byMember = M
        /\ all.formerMembers = Sums!Totals(items, other)
    BY DEF Sums!AllLenses
  <1>3. \A i \in D : val[i] = Sums!LensAmount(V(i), own(i), Household) /\ val[i] \in Int
    BY <1>1 DEF Sums!LensAmount
  <1>4. \A m \in M : \A i \in D : part(m)[i] = share(m)[i] /\ part(m)[i] \in Int
    <2> TAKE m \in M
    <2> TAKE i \in D
    <2>1. V(i) \in Nat /\ Shared(own(i)) /\ m # Household
      BY <1>1
    <2>2. part(m)[i] = Of(i, {m}) /\ share(m)[i] = Sums!LensAmount(V(i), own(i), m)
      OBVIOUS
    <2>3. PICK v, w : v = V(i) /\ w = own(i)
      OBVIOUS
    <2>4. Of(i, {m}) = SumOn(Sums!SplitByWeight(v, w), DOMAIN w \cap {m})
      BY <2>1, <2>3, PartOf
    <2>5. SumOn(Sums!SplitByWeight(v, w), DOMAIN w \cap {m}) = Sums!LensAmount(v, w, m)
      BY <2>1, <2>3, PartOfOne
    <2>6. Sums!LensAmount(v, w, m) \in Nat
      BY <2>1, <2>3, LensIsNat
    <2> HIDE DEF part, share, Of, V, own
    <2> QED
      BY <2>2, <2>3, <2>4, <2>5, <2>6
  <1>5. \A i \in D : /\ other[i] = SumOn(Sums!SplitByWeight(V(i), own(i)), DOMAIN own(i) \ M)
                     /\ other[i] \in Int
    <2> TAKE i \in D
    <2>1. V(i) \in Nat /\ Shared(own(i))
      BY <1>1
    <2>2. PICK v, w : v = V(i) /\ w = own(i)
      OBVIOUS
    <2>3. other[i] = Sums!Total([m \in DOMAIN w \cap (DOMAIN w \ M) |-> Sums!OwnerSplit(v, w)[m]])
      BY <2>2
    <2>4. DOMAIN w \cap (DOMAIN w \ M) = DOMAIN w \ M
      OBVIOUS
    <2>5. PICK who : who = DOMAIN w \ M
      OBVIOUS
    <2>6. other[i] = SumOn(Sums!SplitByWeight(v, w), DOMAIN w \cap who) /\ other[i] \in Int
      <3>1. v \in Nat /\ Shared(w)
        BY <2>1, <2>2
      <3>2. other[i] = Sums!Total([m \in DOMAIN w \cap who |-> Sums!OwnerSplit(v, w)[m]])
        BY <2>3, <2>5
      <3> HIDE DEF other, V, own
      <3>3. /\ Sums!Total([m \in DOMAIN w \cap who |-> Sums!OwnerSplit(v, w)[m]])
                   = SumOn(Sums!SplitByWeight(v, w), DOMAIN w \cap who)
            /\ SumOn(Sums!SplitByWeight(v, w), DOMAIN w \cap who) \in Int
        BY <3>1, PartOf
      <3> QED
        BY <3>2, <3>3
    <2> HIDE DEF other, V, own
    <2> QED
      BY <2>2, <2>4, <2>5, <2>6
  <1>6. all.household = Sums!NetWorth(items, Household)
    <2>1. PICK a : a = [i \in DOMAIN items |-> Sums!LensAmount(items[i].value, items[i].owners, Household)]
      OBVIOUS
    <2>2. \A i \in D : val[i] = a[i] /\ val[i] \in Int
      BY <1>3, <2>1
    <2>3. Sums!NetWorth(items, Household) = Sums!Totals(items, a)
      BY <2>1 DEF Sums!NetWorth
    <2> HIDE DEF val, all
    <2>4. Sums!Totals(items, val) = Sums!Totals(items, a)
      BY <1>1, <2>2, TotalsSame
    <2> QED
      BY <1>2, <2>3, <2>4
  <1>7. \A m \in M : all.byMember[m] = Sums!NetWorth(items, m)
    <2> TAKE m \in M
    <2>1. Sums!NetWorth(items, m) = Sums!Totals(items, share(m))
      BY DEF Sums!NetWorth
    <2>2. PICK a, b : a = part(m) /\ b = share(m)
      OBVIOUS
    <2>3. \A i \in D : a[i] = b[i] /\ a[i] \in Int
      BY <1>4, <2>2
    <2>4. Sums!Totals(items, a) = Sums!Totals(items, b)
      BY <1>1, <2>3, TotalsSame
    <2> HIDE DEF all, part, share
    <2> QED
      BY <1>2, <2>1, <2>2, <2>4
  <1>8. ASSUME NEW kind
        PROVE  LET C == Counted(items, kind)
               IN  \A by : (\A m \in M : by[m] = SumOn(part(m), C)) =>
                       SumOn(val, C) = SumOn(by, M) + SumOn(other, C)
    <2>1. PICK C : C = Counted(items, kind)
      OBVIOUS
    <2>2. C \in SUBSET D
      BY <2>1 DEF Counted
    <2>3. IsFiniteSet(C)
      BY <1>1, <2>2, FS_Subset
    <2> SUFFICES ASSUME NEW by, \A m \in M : by[m] = SumOn(part(m), C)
                 PROVE  SumOn(val, C) = SumOn(by, M) + SumOn(other, C)
      BY <2>1
    <2> DEFINE L == [i \in C |-> [m \in M |-> Sums!LensAmount(V(i), own(i), m)]]
               G == [m \in M |-> part(m)]
    <2>4. \A i \in C : \A m \in M : L[i][m] \in Int /\ G[m][i] = L[i][m]
      <3> TAKE i \in C
      <3> TAKE m \in M
      <3>1. L[i][m] = share(m)[i] /\ G[m][i] = part(m)[i]
        BY <2>2
      <3> HIDE DEF L, G, share, part
      <3> QED
        BY <1>4, <2>2, <3>1
    <2>5. \A i \in C : other[i] \in Int /\ val[i] = SumOn(L[i], M) + other[i]
      <3> TAKE i \in C
      <3>1. PICK v, w, r : v = V(i) /\ w = own(i) /\ r = L[i]
        OBVIOUS
      <3>2. \A m \in M : r[m] = Sums!LensAmount(v, w, m)
        BY <3>1
      <3>3. v \in Nat /\ Shared(w)
        BY <1>1, <2>2, <3>1
      <3>4. v = SumOn(r, M) + SumOn(Sums!SplitByWeight(v, w), DOMAIN w \ M)
        BY <3>2, <3>3, LensesCover
      <3>5. val[i] = v
        BY <2>2, <3>1
      <3> HIDE DEF L, other, val, V, own
      <3> QED
        BY <1>5, <2>2, <3>1, <3>4, <3>5
    <2>6. \A m \in M : by[m] = SumOn(G[m], C)
      OBVIOUS
    <2>7. \A i \in C : \A m \in M : L[i][m] \in Int
      BY <2>4
    <2>8. \A i \in C : \A m \in M : G[m][i] = L[i][m]
      BY <2>4
    <2>9. IsFiniteSet(M)
      OBVIOUS
    <2> HIDE DEF L, G, other, val, D
    <2> QED
      <3>1. Table(C, M, L, G, other, val, by)
        BY <2>3, <2>5, <2>6, <2>7, <2>8, <2>9 DEF Table
      <3> QED
        BY <3>1, RowsMakeUp
  <1>9. ASSUME NEW m \in M
        PROVE  /\ all.byMember[m].assets = SumOn(part(m), Counted(items, "asset"))
               /\ all.byMember[m].liabilities = SumOn(part(m), Counted(items, "liability"))
               /\ all.byMember[m].net = all.byMember[m].assets - all.byMember[m].liabilities
               /\ all.byMember[m].assets \in Int /\ all.byMember[m].liabilities \in Int
    <2>1. PICK a : a = part(m)
      OBVIOUS
    <2>2. IsFiniteSet(DOMAIN items) /\ \A i \in DOMAIN items : a[i] \in Int
      BY <1>1, <1>4, <2>1
    <2>3. all.byMember[m] = Sums!Totals(items, a)
      BY <1>2, <2>1
    <2> HIDE DEF all, part, D
    <2> QED
      BY <2>1, <2>2, <2>3, TotalsAre
  <1>10. /\ all.household.assets = SumOn(val, Counted(items, "asset"))
         /\ all.household.liabilities = SumOn(val, Counted(items, "liability"))
         /\ all.household.net = all.household.assets - all.household.liabilities
         /\ all.formerMembers.assets = SumOn(other, Counted(items, "asset"))
         /\ all.formerMembers.liabilities = SumOn(other, Counted(items, "liability"))
         /\ all.formerMembers.net = all.formerMembers.assets - all.formerMembers.liabilities
         /\ all.formerMembers.assets \in Int /\ all.formerMembers.liabilities \in Int
    <2>1. PICK a, b : a = val /\ b = other
      OBVIOUS
    <2>2. IsFiniteSet(DOMAIN items) /\ \A i \in DOMAIN items : a[i] \in Int
      BY <1>1, <1>3, <2>1
    <2>3. \A i \in DOMAIN items : b[i] \in Int
      BY <1>5, <2>1
    <2>4. all.household = Sums!Totals(items, a) /\ all.formerMembers = Sums!Totals(items, b)
      BY <1>2, <2>1
    <2> HIDE DEF all, val, other, D
    <2> QED
      BY <2>1, <2>2, <2>3, <2>4, TotalsAre
  <1> DEFINE of(what) == [m \in M |-> all.byMember[m][what]]
  <1>11. /\ all.household.assets = Sums!Total(of("assets")) + all.formerMembers.assets
         /\ all.household.liabilities = Sums!Total(of("liabilities")) + all.formerMembers.liabilities
         /\ Sums!Total(of("assets")) \in Int /\ Sums!Total(of("liabilities")) \in Int
         /\ Sums!Total(of("net")) = Sums!Total(of("assets")) - Sums!Total(of("liabilities"))
    <2>1. PICK a, b, n : a = of("assets") /\ b = of("liabilities") /\ n = of("net")
      OBVIOUS
    <2>2. DOMAIN a = M /\ DOMAIN b = M /\ DOMAIN n = M
      BY <2>1
    <2>3. /\ \A m \in M : a[m] = SumOn(part(m), Counted(items, "asset"))
          /\ \A m \in M : b[m] = SumOn(part(m), Counted(items, "liability"))
          /\ \A m \in M : a[m] \in Int /\ b[m] \in Int /\ n[m] = a[m] - b[m]
      <3> HIDE DEF all, part, D
      <3> QED
        BY <1>9, <2>1
    <2> HIDE DEF all, part, of, val, other, D
    <2>4. Sums!Total(a) = SumOn(a, M) /\ Sums!Total(b) = SumOn(b, M) /\ Sums!Total(n) = SumOn(n, M)
      BY <2>2, TotalIs
    <2>5. \A m \in M : n[m] \in Int /\ b[m] \in Int /\ a[m] = n[m] + b[m]
      BY <2>3
    <2>6. SumOn(a, M) = SumOn(n, M) + SumOn(b, M)
      BY <2>5, SumAdd
    <2>7. SumOn(a, M) \in Int /\ SumOn(b, M) \in Int /\ SumOn(n, M) \in Int
      BY <2>3, <2>5, SumSame
    <2>8. /\ SumOn(val, Counted(items, "asset"))
                  = SumOn(a, M) + SumOn(other, Counted(items, "asset"))
          /\ SumOn(val, Counted(items, "liability"))
                  = SumOn(b, M) + SumOn(other, Counted(items, "liability"))
      BY <1>8, <2>3
    <2> QED
      BY <1>10, <2>1, <2>4, <2>6, <2>7, <2>8
  <1>12. \A what \in {"assets", "liabilities", "net"} :
             all.household[what] = Sums!Total(of(what)) + all.formerMembers[what]
    <2> HIDE DEF all, of, val, other, D
    <2>1. all.household.net = Sums!Total(of("net")) + all.formerMembers.net
      BY <1>10, <1>11
    <2> QED
      BY <1>11, <2>1
  <1>13. /\ all.formerMembers.net \in Int /\ all.household.net \in Int
         /\ DOMAIN all.byMember = M /\ \A m \in M : all.byMember[m].net \in Int
    <2> HIDE DEF all, of, val, other, D, part
    <2>1. \A m \in M : all.byMember[m].net \in Int
      BY <1>9
    <2>2. all.formerMembers.net \in Int
      BY <1>10
    <2>3. all.household.net \in Int
      BY <1>10, <1>11
    <2> QED
      BY <1>2, <2>1, <2>2, <2>3
  <1> QED
    BY <1>6, <1>7, <1>12, <1>13 DEF LensesAgree

(* One allocation, and all of them.                                              *)
LEMMA AllocatedIsNat ==
    ASSUME NEW list, Earmarked(list), NEW value \in Nat, NEW g \in DOMAIN list
    PROVE  Sums!Allocated(list[g], value) \in Nat
  <1>1. list[g].n \in Nat
    BY DEF Earmarked
  <1>2. value * list[g].n \in Nat
    BY <1>1
  <1>3. (value * list[g].n) \div FullBps \in Nat
    BY <1>2, MoneyAssumption, Division
  <1> QED
    BY <1>1, <1>3 DEF Sums!Allocated

LEMMA AllocatedAddsUp ==
    ASSUME NEW list, Earmarked(list), NEW value \in Nat, NEW al,
           \A g \in DOMAIN list : al[g] = Sums!Allocated(list[g], value)
    PROVE  Sums!AllocatedPaise(list, value) = SumOn(al, DOMAIN list) /\ Sums!AllocatedPaise(list, value) \in Nat
  <1>1. PICK D, f, nil : D = DOMAIN list /\ f = [g \in DOMAIN list |-> Sums!Allocated(list[g], value)]
                         /\ nil = [g \in DOMAIN list |-> 0]
    OBVIOUS
  <1>2. IsFiniteSet(D)
    BY <1>1 DEF Earmarked
  <1>3. \A g \in D : f[g] = al[g] /\ f[g] \in Int
    BY <1>1, AllocatedIsNat
  <1>4. \A g \in D : nil[g] \in Int /\ f[g] \in Int /\ nil[g] <= f[g]
    BY <1>1, AllocatedIsNat
  <1>5. SumOn(f, D) = SumOn(al, D) /\ SumOn(f, D) \in Int
    BY <1>2, <1>3, SumSame
  <1>6. SumOn(nil, D) <= SumOn(f, D)
    BY <1>2, <1>4, SumMono
  <1>7. SumOn(nil, D) = 0
    <2>1. \A g \in D : nil[g] = 0
      BY <1>1
    <2> QED
      BY <1>2, <2>1, SumNone
  <1>8. Sums!AllocatedPaise(list, value) = SumOn(f, D)
    <2>1. Sums!AllocatedPaise(list, value) = Sums!Total(f) /\ DOMAIN f = D
      BY <1>1 DEF Sums!AllocatedPaise
    <2> QED
      BY <2>1, TotalIs
  <1> QED
    BY <1>1, <1>5, <1>6, <1>7, <1>8

(* What one goal claims, 0 if nothing.                                           *)
ClaimOf(list, value, g) ==
    IF Sums!AllocatedPaise(list, value) <= value THEN Sums!Allocated(list[g], value)
    ELSE (Sums!Allocated(list[g], value) * value) \div Sums!AllocatedPaise(list, value)

(* Claims are above 0 and never exceed the value together, scaled down or not.   *)
LEMMA ClaimsFit ==
    ASSUME NEW list, Earmarked(list), NEW value \in Nat
    PROVE  /\ Sums!Claims(list, value) = [g \in DOMAIN Sums!Claims(list, value) |-> Sums!Claims(list, value)[g]]
           /\ DOMAIN Sums!Claims(list, value) \subseteq DOMAIN list
           /\ IsFiniteSet(DOMAIN Sums!Claims(list, value))
           /\ \A g \in DOMAIN Sums!Claims(list, value) :
                 /\ Sums!Claims(list, value)[g] \in Nat /\ Sums!Claims(list, value)[g] > 0
                 /\ Sums!Claims(list, value)[g] = ClaimOf(list, value, g)
           /\ Sums!Total(Sums!Claims(list, value)) \in 0 .. value
  <1> DEFINE D       == DOMAIN list
             all     == Sums!AllocatedPaise(list, value)
             al      == [g \in D |-> Sums!Allocated(list[g], value)]
             cl      == [g \in D |-> ClaimOf(list, value, g)]
             claimed == {g \in D : value > 0 /\ cl[g] > 0}
             c       == [g \in claimed |-> cl[g]]
  <1>1. Sums!Claims(list, value) = c
    BY DEF Sums!Claims, ClaimOf
  <1>2. IsFiniteSet(D) /\ claimed \in SUBSET D
    BY DEF Earmarked
  <1>3. IsFiniteSet(claimed)
    BY <1>2, FS_Subset
  <1>4. \A g \in D : al[g] \in Nat
    BY AllocatedIsNat
  <1>5. all = SumOn(al, D) /\ all \in Nat
    <2>1. \A g \in DOMAIN list : al[g] = Sums!Allocated(list[g], value)
      OBVIOUS
    <2> HIDE DEF al
    <2> QED
      BY <2>1, AllocatedAddsUp DEF D
  <1>6. \A g \in D : cl[g] = IF all <= value THEN al[g] ELSE (al[g] * value) \div all
    BY DEF ClaimOf
  <1>7. \A g \in D : cl[g] \in Nat /\ (all > value => all * cl[g] <= value * al[g])
    <2> TAKE g \in D
    <2>1. CASE all <= value
      <3> HIDE DEF cl, al, all
      <3> QED
        BY <1>4, <1>5, <1>6, <2>1
    <2>2. CASE all > value
      <3>1. PICK a : a = al[g] * value
        OBVIOUS
      <3> HIDE DEF cl, al, all
      <3>2. a \in Nat /\ a = value * al[g] /\ all \in Nat \ {0}
        BY <1>4, <1>5, <2>2, <3>1
      <3>3. a = all * (a \div all) + (a % all) /\ a % all \in Nat /\ a \div all \in Nat
        BY <3>2, Division
      <3>4. cl[g] = a \div all
        BY <1>5, <1>6, <2>2, <3>1
      <3>5. all * (a \div all) \in Int
        BY <3>2, <3>3
      <3> QED
        BY <3>2, <3>3, <3>4, <3>5
    <2> HIDE DEF cl, al, all
    <2> QED
      BY <1>5, <2>1, <2>2
  <1>8. SumOn(cl, D) \in Int /\ SumOn(cl, D) <= value
    <2>0. \A g \in D : cl[g] \in Int
      BY <1>7
    <2>1. SumOn(cl, D) \in Int
      <3> HIDE DEF cl, D
      <3> QED
        BY <1>2, <2>0, SumSame
    <2>2. CASE all <= value
      <3>1. \A g \in D : cl[g] = al[g] /\ cl[g] \in Int
        BY <1>6, <2>0, <2>2
      <3> HIDE DEF cl, al, D, all
      <3>2. SumOn(cl, D) = SumOn(al, D)
        BY <1>2, <3>1, SumSame
      <3> QED
        BY <1>5, <2>1, <2>2, <3>2
    <2>3. CASE all > value
      <3>1. PICK p, q : p = [g \in D |-> all * cl[g]] /\ q = [g \in D |-> value * al[g]]
        OBVIOUS
      <3>2. \A g \in D : cl[g] \in Int /\ p[g] = all * cl[g]
        BY <2>0, <3>1
      <3>3. \A g \in D : al[g] \in Int /\ q[g] = value * al[g]
        BY <1>4, <3>1
      <3> HIDE DEF cl, al, D, all
      <3>4. SumOn(p, D) = all * SumOn(cl, D)
        <4>1. all \in Int /\ IsFiniteSet(D)
          BY <1>2, <1>5
        <4> QED
          BY <3>2, <4>1, SumScale
      <3>5. SumOn(q, D) = value * SumOn(al, D)
        <4>1. value \in Int /\ IsFiniteSet(D)
          BY <1>2
        <4> QED
          BY <3>3, <4>1, SumScale
      <3>6. \A g \in D : p[g] \in Int /\ q[g] \in Int /\ p[g] <= q[g]
        BY <1>4, <1>5, <1>7, <2>3, <3>2, <3>3
      <3>7. SumOn(p, D) <= SumOn(q, D)
        BY <1>2, <3>6, SumMono
      <3>8. value * SumOn(al, D) = all * value
        BY <1>5
      <3>9. all * SumOn(cl, D) <= all * value
        BY <3>4, <3>5, <3>7, <3>8
      <3>10. all \in Nat \ {0} /\ value \in Int
        BY <1>5, <2>3
      <3> QED
        BY <2>1, <3>9, <3>10, Cancel
    <2> HIDE DEF all
    <2> QED
      BY <1>5, <2>1, <2>2, <2>3
  <1>9. \A g \in claimed : c[g] = cl[g] /\ c[g] \in Nat /\ c[g] > 0
    BY <1>7
  <1>10. Sums!Total(c) = SumOn(c, claimed) /\ SumOn(c, claimed) \in Nat
    <2>1. DOMAIN c = claimed
      OBVIOUS
    <2>2. PICK nil : nil = [g \in claimed |-> 0]
      OBVIOUS
    <2>3. \A g \in claimed : nil[g] \in Int /\ nil[g] = 0 /\ c[g] \in Int /\ nil[g] <= c[g]
      BY <1>9, <2>2
    <2> HIDE DEF c, claimed
    <2>4. SumOn(nil, claimed) <= SumOn(c, claimed) /\ SumOn(c, claimed) \in Int
      BY <1>3, <2>3, SumMono, SumSame
    <2>5. SumOn(nil, claimed) = 0
      BY <1>3, <2>3, SumNone
    <2>6. Sums!Total(c) = SumOn(c, claimed)
      BY <2>1, TotalIs
    <2> QED
      BY <2>4, <2>5, <2>6
  <1>11. SumOn(c, claimed) <= value
    <2>1. CASE value = 0
      <3>1. claimed = {}
        BY <2>1
      <3> HIDE DEF c, claimed
      <3> QED
        BY <2>1, <3>1, SumEmpty
    <2>2. CASE value > 0
      <3>1. \A g \in claimed : cl[g] = c[g] /\ c[g] \in Int
        BY <1>9
      <3>2. \A g \in D \ claimed : cl[g] = 0
        BY <1>7, <2>2
      <3> HIDE DEF c, cl, claimed, D
      <3>3. SumOn(cl, D) = SumOn(c, claimed)
        BY <1>2, <3>1, <3>2, SumWhere
      <3> QED
        BY <1>8, <3>3
    <2> QED
      BY <2>1, <2>2
  <1>12. /\ c = [g \in DOMAIN c |-> c[g]] /\ DOMAIN c = claimed
         /\ \A g \in claimed : c[g] = ClaimOf(list, value, g)
    OBVIOUS
  <1>13. DOMAIN c \subseteq DOMAIN list /\ Sums!Total(c) \in 0 .. value
    <2>1. Sums!Total(c) \in 0 .. value
      <3> HIDE DEF c, claimed
      <3> QED
        BY <1>10, <1>11
    <2> QED
      BY <2>1
  <1>14. c = Sums!Claims(list, value)
    BY <1>1
  <1> HIDE DEF c, claimed
  <1>15. /\ c = [g \in DOMAIN c |-> c[g]]
         /\ DOMAIN c \subseteq DOMAIN list
         /\ IsFiniteSet(DOMAIN c)
         /\ \A g \in DOMAIN c : c[g] \in Nat /\ c[g] > 0 /\ c[g] = ClaimOf(list, value, g)
         /\ Sums!Total(c) \in 0 .. value
    BY <1>3, <1>9, <1>12, <1>13
  <1> QED
    BY <1>14, <1>15, Zenon

(* The share shown as tagged is a percentage.                                    *)
LEMMA SmallestOfTwo ==
    ASSUME NEW a \in Nat, NEW b \in Nat
    PROVE  Min({a, b}) \in Nat /\ Min({a, b}) <= b
  <1>1. \E x \in {a, b} : \A y \in {a, b} : x <= y
    <2>1. CASE a <= b
      BY <2>1
    <2>2. CASE b <= a
      BY <2>2
    <2> QED
      BY <2>1, <2>2
  <1>2. Min({a, b}) = CHOOSE x \in {a, b} : \A y \in {a, b} : x <= y
    BY DEF Min
  <1>3. Min({a, b}) \in {a, b} /\ \A y \in {a, b} : Min({a, b}) <= y
    BY <1>1, <1>2
  <1> QED
    BY <1>3

LEMMA TaggedInBounds ==
    ASSUME NEW list, Earmarked(list), NEW value \in Nat
    PROVE  Sums!TaggedPercent(list, value) \in 0 .. 100
  <1>1. CASE value = 0
    BY <1>1 DEF Sums!TaggedPercent
  <1>2. CASE value > 0
    <2>1. PICK al : al = [g \in DOMAIN list |-> Sums!Allocated(list[g], value)]
      OBVIOUS
    <2>2. \A g \in DOMAIN list : al[g] = Sums!Allocated(list[g], value)
      BY <2>1
    <2>3. Sums!AllocatedPaise(list, value) \in Nat
      BY <2>2, AllocatedAddsUp
    <2>4. PICK m : m = Min({Sums!AllocatedPaise(list, value), value})
      OBVIOUS
    <2>5. m \in Nat /\ m <= value
      BY <2>3, <2>4, SmallestOfTwo
    <2>6. PICK a : a = m * 100
      OBVIOUS
    <2>7. a \in Nat /\ a <= value * 100
      BY <2>5, <2>6
    <2>8. a = value * (a \div value) + (a % value) /\ a % value \in Nat /\ a \div value \in Nat
      BY <1>2, <2>7, Division
    <2>9. value * (a \div value) <= value * 100
      <3>1. value * (a \div value) \in Int
        BY <2>8
      <3> QED
        BY <2>7, <2>8, <3>1
    <2>10. a \div value <= 100
      BY <1>2, <2>8, <2>9, Cancel
    <2>11. Sums!TaggedPercent(list, value) = a \div value
      BY <1>2, <2>4, <2>6 DEF Sums!TaggedPercent, Sums!Min, Min
    <2>12. PICK q : q = a \div value
      OBVIOUS
    <2> QED
      <3>1. q \in Nat
        BY <2>8, <2>12
      <3>2. q <= 100
        BY <2>10, <2>12
      <3>3. q \in 0 .. 100
        BY <3>1, <3>2
      <3> QED
        BY <2>11, <2>12, <3>3
  <1> QED
    BY <1>1, <1>2

(* With what it is tagged with.                                                 *)
Stored(items) ==
    /\ Held(items)
    /\ \A i \in DOMAIN items :
          items[i].side \in {"asset", "liability"} /\ Earmarked(items[i].allocations)

(* No record is overbooked.                                                      *)
LEMMA NotOverbooked ==
    ASSUME NEW h, h.value \in Nat, Earmarked(h.allocations)
    PROVE  LET claims == Sums!Claims(h.allocations, h.value)
           IN  /\ \A g \in DOMAIN claims : claims[g] > 0
               /\ Sums!UnallocatedOf(h) >= 0
               /\ Sums!TaggedPercent(h.allocations, h.value) \in 0 .. 100
               /\ Sums!AllocationsFit(h.allocations, h.value) =>
                     \A g \in DOMAIN claims : claims[g] = Sums!Allocated(h.allocations[g], h.value)
  <1>1. PICK list, value : list = h.allocations /\ value = h.value
    OBVIOUS
  <1>2. Earmarked(list) /\ value \in Nat
    BY <1>1
  <1>3. PICK c : c = Sums!Claims(list, value)
    OBVIOUS
  <1>4. /\ \A g \in DOMAIN c : c[g] > 0 /\ c[g] = ClaimOf(list, value, g)
        /\ Sums!Total(c) \in 0 .. value
    BY <1>2, <1>3, ClaimsFit
  <1>5. Sums!UnallocatedOf(h) >= 0
    BY <1>1, <1>2, <1>3, <1>4 DEF Sums!UnallocatedOf
  <1>6. Sums!AllocationsFit(list, value) => \A g \in DOMAIN c : c[g] = Sums!Allocated(list[g], value)
    BY <1>4 DEF Sums!AllocationsFit, ClaimOf
  <1>7. Sums!TaggedPercent(list, value) \in 0 .. 100
    BY <1>2, TaggedInBounds
  <1> QED
    BY <1>1, <1>3, <1>4, <1>5, <1>6, <1>7
(* The parts of EarmarksOf.                                                      *)
Counts(sources) == {i \in DOMAIN sources : sources[i].includeInNetWorth}
SignOf(sources, i) == IF sources[i].side = "asset" THEN 1 ELSE -1
WorthOf(sources, i, lens) == Sums!LensAmount(sources[i].value, sources[i].owners, lens)
ClaimsOn(sources, i) == Sums!Claims(sources[i].allocations, sources[i].value)
PartOn(sources, i, g, lens) == Sums!LensAmount(ClaimsOn(sources, i)[g], sources[i].owners, lens)
ClaimedBy(sources, g) == {i \in Counts(sources) : g \in DOMAIN ClaimsOn(sources, i)}

(* Assets less liabilities: the sum of what counts, each with its sign.          *)
LEMMA NetIsSigned ==
    ASSUME NEW sources, Stored(sources), NEW lens,
           NEW x, \A i \in Counts(sources) : x[i] = SignOf(sources, i) * WorthOf(sources, i, lens)
    PROVE  Sums!NetWorth(sources, lens).net = SumOn(x, Counts(sources))
  <1>1. PICK D, S, A, a : /\ D = DOMAIN sources /\ S = Counts(sources)
                          /\ A = Counted(sources, "asset")
                          /\ a = [i \in DOMAIN sources |-> WorthOf(sources, i, lens)]
    OBVIOUS
  <1>2. IsFiniteSet(D) /\ \A i \in D : a[i] \in Nat
    <2>1. IsFiniteSet(D) /\ \A i \in D : sources[i].value \in Nat /\ Shared(sources[i].owners)
      BY <1>1 DEF Stored, Held
    <2>2. \A i \in D : a[i] = WorthOf(sources, i, lens)
      BY <1>1
    <2> QED
      BY <2>1, <2>2, LensIsNat DEF WorthOf
  <1>3. /\ Sums!NetWorth(sources, lens) = Sums!Totals(sources, a)
        /\ S \in SUBSET D /\ S \cap A = A /\ S \ A = Counted(sources, "liability")
        /\ A \in SUBSET S /\ S \ A \in SUBSET S
    BY <1>1 DEF Sums!NetWorth, WorthOf, Counts, Counted, Stored
  <1>4. IsFiniteSet(S)
    BY <1>2, <1>3, FS_Subset
  <1>5. IsFiniteSet(A) /\ IsFiniteSet(S \ A)
    BY <1>3, <1>4, FS_Subset
  <1>6. \A i \in DOMAIN sources : a[i] \in Int
    BY <1>1, <1>2
  <1>7. Sums!NetWorth(sources, lens).net = SumOn(a, A) - SumOn(a, S \ A)
    BY <1>1, <1>2, <1>3, <1>6, TotalsAre
  <1>8. (\A i \in A : x[i] = a[i] /\ x[i] \in Int) /\ \A i \in S \ A : x[i] + a[i] = 0 /\ x[i] \in Int
    <2>1. \A i \in S : a[i] = WorthOf(sources, i, lens) /\ a[i] \in Nat
      BY <1>1, <1>2, <1>3
    <2>2. \A i \in S : x[i] = SignOf(sources, i) * a[i]
      BY <1>1, <2>1
    <2>3. (\A i \in A : SignOf(sources, i) = 1) /\ \A i \in S \ A : SignOf(sources, i) = -1
      BY <1>1, <1>3 DEF SignOf, Counted
    <2> QED
      BY <1>3, <2>1, <2>2, <2>3
  <1>9. SumOn(x, A) = SumOn(a, A) /\ SumOn(x, A) \in Int
    BY <1>5, <1>8, SumSame
  <1>10. SumOn(x, S \ A) + SumOn(a, S \ A) = 0 /\ SumOn(a, S \ A) \in Int /\ SumOn(x, S \ A) \in Int
    <2>1. PICK B, nil : B = S \ A /\ nil = [i \in S \ A |-> 0]
      OBVIOUS
    <2>2. IsFiniteSet(B) /\ \A i \in B : nil[i] = 0
      BY <1>5, <2>1
    <2>3. \A i \in B : x[i] \in Int /\ a[i] \in Int /\ nil[i] = x[i] + a[i]
      BY <1>1, <1>3, <1>6, <1>8, <2>1
    <2>4. SumOn(nil, B) = SumOn(x, B) + SumOn(a, B)
      BY <2>2, <2>3, SumAdd
    <2>5. SumOn(a, B) \in Int /\ SumOn(x, B) \in Int
      BY <2>2, <2>3, SumSame
    <2>6. SumOn(nil, B) = 0
      BY <2>2, SumNone
    <2> QED
      BY <2>1, <2>4, <2>5, <2>6
  <1>11. \A i \in S : x[i] \in Int
    BY <1>8
  <1>12. SumOn(x, S) = SumOn(x, S \cap A) + SumOn(x, S \ A)
    BY <1>4, <1>11, SumSplit
  <1>13. SumOn(x, S) = SumOn(x, A) + SumOn(x, S \ A)
    BY <1>3, <1>12
  <1> QED
    BY <1>1, <1>7, <1>9, <1>10, <1>13

GoalsIn(sources, ids) == {g \in ids : ClaimedBy(sources, g) # {}}
OfGoal(sources, g, lens) ==
    Sums!Total([i \in ClaimedBy(sources, g) |-> SignOf(sources, i) * PartOn(sources, i, g, lens)])
TakenFrom(sources, ids, i, lens) ==
    Sums!Total([g \in DOMAIN ClaimsOn(sources, i) \cap ids |-> PartOn(sources, i, g, lens)])
LeftOf(sources, ids, lens) ==
    [i \in Counts(sources) |->
        SignOf(sources, i) * (WorthOf(sources, i, lens) - TakenFrom(sources, ids, i, lens))]

(* EarmarksOf in these terms.                                                    *)
LEMMA EarmarksAre ==
    ASSUME NEW sources, NEW ids, NEW lens
    PROVE  /\ Sums!EarmarksOf(sources, ids, lens).byGoal
                  = [g \in GoalsIn(sources, ids) |-> OfGoal(sources, g, lens)]
           /\ Sums!EarmarksOf(sources, ids, lens).unallocated = Sums!Total(LeftOf(sources, ids, lens))
  BY DEF Sums!EarmarksOf, GoalsIn, OfGoal, LeftOf, TakenFrom, Counts, SignOf, WorthOf, ClaimsOn,
         PartOn, ClaimedBy

(* A claim's part under a lens is an amount.                                     *)
LEMMA PartIsNat ==
    ASSUME NEW sources, Stored(sources), NEW lens, NEW i \in DOMAIN sources,
           NEW g \in DOMAIN ClaimsOn(sources, i)
    PROVE  PartOn(sources, i, g, lens) \in Nat
  <1>1. PICK c, list, value, w : /\ list = sources[i].allocations /\ value = sources[i].value
                                 /\ w = sources[i].owners /\ c = Sums!Claims(list, value)
    OBVIOUS
  <1>2. Earmarked(list) /\ value \in Nat /\ Shared(w)
    BY <1>1 DEF Stored, Held
  <1>3. g \in DOMAIN c
    BY <1>1 DEF ClaimsOn
  <1>4. c[g] \in Nat
    BY <1>1, <1>2, <1>3, ClaimsFit
  <1>5. Sums!LensAmount(c[g], w, lens) \in Nat
    BY <1>2, <1>4, LensIsNat
  <1> QED
    BY <1>1, <1>5 DEF PartOn, ClaimsOn

(* Earmarked and Unallocated make up the net worth: the table of records and     *)
(* goals, added up by either.                                                    *)
LEMMA HeadlineIsNet ==
    ASSUME NEW sources, Stored(sources), NEW ids, IsFiniteSet(ids), NEW lens
    PROVE  /\ Sums!Total(Sums!EarmarksOf(sources, ids, lens).byGoal)
                  + Sums!EarmarksOf(sources, ids, lens).unallocated = Sums!NetWorth(sources, lens).net
           /\ \A g \in GoalsIn(sources, ids) : OfGoal(sources, g, lens) \in Int
           /\ Sums!EarmarksOf(sources, ids, lens).unallocated \in Int
           /\ IsFiniteSet(GoalsIn(sources, ids))
  <1> DEFINE S       == Counts(sources)
             G       == GoalsIn(sources, ids)
             On(i)   == DOMAIN ClaimsOn(sources, i)
             E(i, g) == SignOf(sources, i) * PartOn(sources, i, g, lens)
             F       == [i \in S |-> [g \in G |-> IF g \in On(i) THEN E(i, g) ELSE 0]]
             H       == [g \in G |-> [i \in S |-> IF g \in On(i) THEN E(i, g) ELSE 0]]
             taken   == [i \in S |-> SignOf(sources, i) * TakenFrom(sources, ids, i, lens)]
             worth   == [i \in S |-> SignOf(sources, i) * WorthOf(sources, i, lens)]
             left    == LeftOf(sources, ids, lens)
             by      == [g \in G |-> OfGoal(sources, g, lens)]
  <1>1. IsFiniteSet(S) /\ S \in SUBSET DOMAIN sources
    <2>1. IsFiniteSet(DOMAIN sources) /\ S \in SUBSET DOMAIN sources
      BY DEF Stored, Held, Counts
    <2> HIDE DEF S
    <2> QED
      BY <2>1, FS_Subset
  <1>2. IsFiniteSet(G) /\ G \in SUBSET ids
    <2>1. G \in SUBSET ids
      BY DEF GoalsIn
    <2> HIDE DEF G
    <2> QED
      BY <2>1, FS_Subset
  <1>3. \A i \in S : SignOf(sources, i) \in {1, -1}
    BY DEF SignOf
  <1>4. \A i \in S : \A g \in On(i) : PartOn(sources, i, g, lens) \in Nat /\ E(i, g) \in Int
    <2> TAKE i \in S
    <2> TAKE g \in On(i)
    <2>1. i \in DOMAIN sources
      BY <1>1
    <2>2. PartOn(sources, i, g, lens) \in Nat
      BY <2>1, PartIsNat
    <2> QED
      BY <1>3, <2>2
  <1>5. \A i \in S : /\ TakenFrom(sources, ids, i, lens) \in Int
                     /\ taken[i] = SumOn(F[i], G)
    <2> TAKE i \in S
    <2>1. PICK T, p, e, s, f : /\ T = On(i) \cap ids /\ s = SignOf(sources, i) /\ f = F[i]
                               /\ p = [g \in On(i) \cap ids |-> PartOn(sources, i, g, lens)]
                               /\ e = [g \in On(i) \cap ids |-> E(i, g)]
      OBVIOUS
    <2>2. T \in SUBSET G
      BY <2>1 DEF GoalsIn, ClaimedBy
    <2>3. IsFiniteSet(T)
      BY <1>2, <2>2, FS_Subset
    <2>4. \A g \in T : p[g] \in Int /\ e[g] = s * p[g] /\ e[g] \in Int
      BY <1>4, <2>1
    <2>5. \A g \in T : f[g] = e[g]
      BY <2>1, <2>2
    <2>6. \A g \in G \ T : f[g] = 0
      BY <1>2, <2>1
    <2>7. TakenFrom(sources, ids, i, lens) = Sums!Total(p) /\ DOMAIN p = T
      BY <2>1 DEF TakenFrom
    <2>8. s \in Int /\ taken[i] = s * TakenFrom(sources, ids, i, lens)
      BY <1>3, <2>1
    <2> HIDE DEF F, G, taken, E, On, S
    <2>9. Sums!Total(p) = SumOn(p, T) /\ SumOn(p, T) \in Int
      BY <2>3, <2>4, <2>7, TotalIs, SumSame
    <2>10. SumOn(e, T) = s * SumOn(p, T)
      <3>1. \A g \in T : p[g] \in Int /\ e[g] = s * p[g]
        BY <2>4
      <3> QED
        BY <2>3, <2>8, <3>1, SumScale
    <2>11. SumOn(f, G) = SumOn(e, T)
      <3>1. IsFiniteSet(G) /\ \A g \in T : f[g] = e[g] /\ e[g] \in Int
        BY <1>2, <2>4, <2>5
      <3> QED
        BY <2>2, <2>6, <3>1, SumWhere
    <2> QED
      BY <2>1, <2>7, <2>8, <2>9, <2>10, <2>11
  <1>6. \A g \in G : by[g] = SumOn(H[g], S) /\ by[g] \in Int
    <2> TAKE g \in G
    <2>1. PICK C, e, h : /\ C = ClaimedBy(sources, g) /\ h = H[g]
                         /\ e = [i \in ClaimedBy(sources, g) |-> E(i, g)]
      OBVIOUS
    <2>2. C \in SUBSET S
      BY <2>1 DEF ClaimedBy
    <2>3. IsFiniteSet(C)
      BY <1>1, <2>2, FS_Subset
    <2>4. \A i \in C : h[i] = e[i] /\ e[i] \in Int
      BY <1>4, <2>1, <2>2 DEF ClaimedBy
    <2>5. \A i \in S \ C : h[i] = 0
      BY <2>1 DEF ClaimedBy
    <2>6. by[g] = Sums!Total(e) /\ DOMAIN e = C
      BY <2>1 DEF OfGoal
    <2> HIDE DEF H, S, by, E
    <2>7. SumOn(h, S) = SumOn(e, C)
      BY <1>1, <2>2, <2>4, <2>5, SumWhere
    <2>8. Sums!Total(e) = SumOn(e, C) /\ SumOn(e, C) \in Int
      BY <2>3, <2>4, <2>6, TotalIs, SumSame
    <2> QED
      BY <2>1, <2>6, <2>7, <2>8
  <1>7. SumOn(taken, S) = SumOn(by, G)
    <2>1. \A i \in S : \A g \in G : F[i][g] \in Int /\ H[g][i] = F[i][g]
      BY <1>4
    <2> HIDE DEF F, H, S, G, by, taken
    <2>2. TwoWays(S, G, F, H, taken, by)
      BY <1>1, <1>2, <1>5, <1>6, <2>1 DEF TwoWays
    <2> QED
      BY <2>2, SumSwap
  <1>8. Sums!Total(by) = SumOn(by, G)
    <2>1. DOMAIN by = G
      OBVIOUS
    <2> HIDE DEF by, G
    <2> QED
      BY <2>1, TotalIs
  <1>9. \A i \in S : /\ left[i] \in Int /\ taken[i] \in Int /\ worth[i] \in Int
                     /\ worth[i] = left[i] + taken[i]
    <2> TAKE i \in S
    <2>1. PICK s, v, t : /\ s = SignOf(sources, i) /\ v = WorthOf(sources, i, lens)
                         /\ t = TakenFrom(sources, ids, i, lens)
      OBVIOUS
    <2>2. v \in Nat
      <3>1. sources[i].value \in Nat /\ Shared(sources[i].owners)
        BY <1>1 DEF Stored, Held
      <3> QED
        BY <2>1, <3>1, LensIsNat DEF WorthOf
    <2>3. left[i] = s * (v - t) /\ taken[i] = s * t /\ worth[i] = s * v
      BY <2>1 DEF LeftOf
    <2>4. t \in Int /\ s \in {1, -1}
      BY <1>3, <1>5, <2>1
    <2> HIDE DEF left, taken, worth
    <2>5. CASE s = 1
      BY <2>2, <2>3, <2>4, <2>5
    <2>6. CASE s = -1
      BY <2>2, <2>3, <2>4, <2>6
    <2> QED
      BY <2>4, <2>5, <2>6
  <1>10. Sums!Total(left) = SumOn(left, S)
    <2>1. DOMAIN left = S
      BY DEF LeftOf
    <2> HIDE DEF left, S
    <2> QED
      BY <2>1, TotalIs
  <1>11. SumOn(worth, S) = Sums!NetWorth(sources, lens).net
    <2>1. \A i \in Counts(sources) : worth[i] = SignOf(sources, i) * WorthOf(sources, i, lens)
      OBVIOUS
    <2> HIDE DEF worth
    <2> QED
      BY <2>1, NetIsSigned DEF S
  <1>12. /\ SumOn(worth, S) = SumOn(left, S) + SumOn(taken, S)
         /\ SumOn(left, S) \in Int /\ SumOn(taken, S) \in Int
    <2> HIDE DEF worth, left, taken, S
    <2>1. \A i \in S : left[i] \in Int
      BY <1>9
    <2>2. \A i \in S : taken[i] \in Int
      BY <1>9
    <2>3. SumOn(worth, S) = SumOn(left, S) + SumOn(taken, S)
      BY <1>1, <1>9, SumAdd
    <2> QED
      BY <1>1, <2>1, <2>2, <2>3, SumSame
  <1>13. /\ Sums!EarmarksOf(sources, ids, lens).byGoal = by
         /\ Sums!EarmarksOf(sources, ids, lens).unallocated = Sums!Total(left)
    BY EarmarksAre
  <1>14. \A g \in G : OfGoal(sources, g, lens) \in Int
    BY <1>6
  <1> HIDE DEF left, by, taken, worth
  <1> QED
    BY <1>2, <1>7, <1>8, <1>10, <1>11, <1>12, <1>13, <1>14

(* So the Goals screen tells the net worth.                                      *)
LEMMA HeadlineAddsUp ==
    ASSUME NEW sources, Stored(sources), NEW ids, IsFiniteSet(ids), NEW lens
    PROVE  Sums!Headline(sources, ids, lens).netWorth = Sums!NetWorth(sources, lens).net
  BY HeadlineIsNet DEF Sums!Headline

(* What a goal that goes claimed is Unallocated again.                           *)
Frees(sources, ids, less, lens) ==
    LET before == Sums!EarmarksOf(sources, ids, lens)
        after  == Sums!EarmarksOf(sources, less, lens)
        freed  == DOMAIN before.byGoal \ less
    IN  /\ \A g \in DOMAIN after.byGoal : after.byGoal[g] = before.byGoal[g]
        /\ DOMAIN after.byGoal = DOMAIN before.byGoal \ freed
        /\ after.unallocated = before.unallocated
              + Sums!Total([g \in freed |-> before.byGoal[g]])

(* It is, as the headline is the same before and after.                          *)
LEMMA FreedToUnallocated ==
    ASSUME NEW sources, Stored(sources), NEW ids, IsFiniteSet(ids), NEW less \in SUBSET ids, NEW lens
    PROVE  Frees(sources, ids, less, lens)
  <1>1. PICK before, after, b, a, G, R, f :
            /\ before = Sums!EarmarksOf(sources, ids, lens) /\ after = Sums!EarmarksOf(sources, less, lens)
            /\ b = before.byGoal /\ a = after.byGoal
            /\ G = GoalsIn(sources, ids) /\ R = GoalsIn(sources, less)
            /\ f = [g \in DOMAIN b \ less |-> b[g]]
    OBVIOUS
  <1>2. IsFiniteSet(less)
    BY FS_Subset
  <1>3. /\ b = [g \in G |-> OfGoal(sources, g, lens)]
        /\ a = [g \in R |-> OfGoal(sources, g, lens)]
    BY <1>1, EarmarksAre
  <1>4. DOMAIN b = G /\ DOMAIN a = R /\ R \in SUBSET G /\ R = G \ (G \ less) /\ G \cap R = R
        /\ G \ R = G \ less
    BY <1>1, <1>3 DEF GoalsIn
  <1>5. /\ Sums!Total(b) + before.unallocated = Sums!NetWorth(sources, lens).net
        /\ Sums!Total(a) + after.unallocated = Sums!NetWorth(sources, lens).net
        /\ before.unallocated \in Int /\ after.unallocated \in Int
        /\ (\A g \in G : b[g] \in Int) /\ IsFiniteSet(G)
    <2>1. /\ Sums!Total(b) + before.unallocated = Sums!NetWorth(sources, lens).net
          /\ before.unallocated \in Int
          /\ (\A g \in G : OfGoal(sources, g, lens) \in Int) /\ IsFiniteSet(G)
      BY <1>1, HeadlineIsNet
    <2>2. /\ Sums!Total(a) + after.unallocated = Sums!NetWorth(sources, lens).net
          /\ after.unallocated \in Int
      BY <1>1, <1>2, HeadlineIsNet
    <2> QED
      BY <1>3, <2>1, <2>2
  <1>6. \A g \in R : a[g] = b[g] /\ a[g] \in Int
    BY <1>3, <1>4, <1>5
  <1>7. SumOn(b, G) = SumOn(b, R) + SumOn(b, G \ R) /\ SumOn(b, R) \in Int /\ SumOn(b, G \ R) \in Int
    <2>1. IsFiniteSet(G) /\ \A g \in G : b[g] \in Int
      BY <1>5
    <2>2. /\ SumOn(b, G) = SumOn(b, G \cap R) + SumOn(b, G \ R)
          /\ SumOn(b, G \cap R) \in Int /\ SumOn(b, G \ R) \in Int
      BY <2>1, SumSplit
    <2> QED
      BY <1>4, <2>2
  <1>8. Sums!Total(b) = SumOn(b, G) /\ Sums!Total(a) = SumOn(a, R)
    BY <1>4, TotalIs
  <1>9. SumOn(a, R) = SumOn(b, R)
    <2>1. IsFiniteSet(R)
      BY <1>4, <1>5, FS_Subset
    <2> QED
      BY <1>6, <2>1, SumSame
  <1>10. Sums!Total(f) = SumOn(b, G \ R)
    <2>1. PICK C : C = G \ R
      OBVIOUS
    <2>2. DOMAIN f = C /\ C \in SUBSET G /\ \A g \in C : f[g] = b[g] /\ f[g] \in Int
      BY <1>1, <1>4, <1>5, <2>1
    <2>3. IsFiniteSet(C)
      BY <1>5, <2>2, FS_Subset
    <2>4. SumOn(f, C) = SumOn(b, C)
      BY <2>2, <2>3, SumSame
    <2>5. Sums!Total(f) = SumOn(f, C)
      BY <2>2, TotalIs
    <2> QED
      BY <2>1, <2>4, <2>5
  <1>11. after.unallocated = before.unallocated + Sums!Total(f)
    BY <1>5, <1>7, <1>8, <1>9, <1>10
  <1> QED
    BY <1>1, <1>4, <1>6, <1>11 DEF Frees
------------------------------------------------------------------------------
(* The run: the holdings are what the schemas accept.                         *)
LEMMA MoneyInit == MCInit => MoneyInv
  <1> SUFFICES ASSUME MCInit, side = "money" PROVE MoneyInv
    BY DEF MoneyInv
  <1>1. input = [holdings |-> <<>>, goals |-> {}]
    BY DEF MCInit, Inputs
  <1> QED
    BY <1>1 DEF MoneyInv

(* Whatever is put together, it stays so.                                         *)
LEMMA MoneyStep == MoneyInv /\ [MCNext]_mcVars => MoneyInv'
  <1> SUFFICES ASSUME MoneyInv, [MCNext]_mcVars, side' = "money" PROVE MoneyInv'
    BY DEF MoneyInv
  <1>1. side = "money"
    BY DEF MCNext, mcVars
  <1>2. /\ input = [holdings |-> input.holdings, goals |-> input.goals]
        /\ input.holdings \in Seq(Holdings) /\ input.goals \subseteq GoalIds
    BY <1>1 DEF MoneyInv
  <1>3. CASE AddHolding
    <2>1. PICK h \in Holdings : input' = [input EXCEPT !.holdings = Append(@, h)]
      BY <1>3 DEF AddHolding
    <2>2. input' = [holdings |-> Append(input.holdings, h), goals |-> input.goals]
      BY <1>2, <2>1
    <2> QED
      BY <1>2, <2>2 DEF MoneyInv
  <1>4. CASE MoveGoal
    <2>1. PICK g \in GoalIds : \/ input' = [input EXCEPT !.goals = @ \cup {g}]
                               \/ input' = [input EXCEPT !.goals = @ \ {g}]
      BY <1>4 DEF MoveGoal
    <2>2. \/ input' = [holdings |-> input.holdings, goals |-> input.goals \cup {g}]
          \/ input' = [holdings |-> input.holdings, goals |-> input.goals \ {g}]
      BY <1>2, <2>1
    <2> QED
      BY <1>2, <2>2 DEF MoneyInv
  <1>5. CASE UNCHANGED input
    BY <1>1, <1>5 DEF MoneyInv
  <1> QED
    BY <1>1, <1>3, <1>4, <1>5 DEF MCNext, mcVars, Ask, AddKey, AddLeg, Buy, Sell, AddAsset,
                                  Fetch, AddSnapshot, AddRow

LEMMA MoneyInvariant == MCSpec => []MoneyInv
  BY MoneyInit, MoneyStep, PTL DEF MCSpec

(* Then the lemmas above apply.                                                  *)
LEMMA HoldingsAreStored ==
    ASSUME MoneyInv, side = "money"
    PROVE  Stored(input.holdings) /\ IsFiniteSet(input.goals)
  <1>1. PICK s : s = input.holdings
    OBVIOUS
  <1>2. s \in Seq(Holdings) /\ input.goals \in SUBSET GoalIds
    BY <1>1 DEF MoneyInv
  <1>3. IsFiniteSet(input.goals)
    BY <1>2, MoneyAssumption, FS_Subset
  <1>4. DOMAIN s = 1 .. Len(s) /\ Len(s) \in Nat /\ \A i \in DOMAIN s : s[i] \in Holdings
    BY <1>2
  <1>5. IsFiniteSet(DOMAIN s)
    BY <1>4, FS_Interval
  <1>6. \A i \in DOMAIN s : /\ s[i].side \in {"asset", "liability"} /\ s[i].value \in Nat
                            /\ Shared(s[i].owners) /\ Earmarked(s[i].allocations)
    BY <1>4, MoneyAssumption
  <1> QED
    BY <1>1, <1>3, <1>5, <1>6 DEF Stored, Held

(* Every holding there is adds up.                                               *)
LEMMA MoneyAgrees == MoneyInv => LensesAddUp /\ NobodyOverbooked /\ GoalsAddUp
  <1> SUFFICES ASSUME MoneyInv, side = "money" PROVE LensesAddUp /\ NobodyOverbooked /\ GoalsAddUp
    BY DEF LensesAddUp, NobodyOverbooked, GoalsAddUp
  <1>1. Stored(input.holdings) /\ IsFiniteSet(input.goals)
    BY HoldingsAreStored
  <1>2. LensesAddUp
    <2>1. LensesAgree(input.holdings, Members)
      BY <1>1, MoneyAssumption, LensesAgreeAlways DEF Stored
    <2> QED
      BY <2>1 DEF LensesAddUp, LensesAgree
  <1>3. NobodyOverbooked
    <2> SUFFICES ASSUME NEW i \in DOMAIN input.holdings
                 PROVE  LET h      == input.holdings[i]
                            claims == Sums!Claims(h.allocations, h.value)
                        IN  /\ \A g \in DOMAIN claims : claims[g] > 0
                            /\ Sums!UnallocatedOf(h) >= 0
                            /\ Sums!TaggedPercent(h.allocations, h.value) \in 0 .. 100
                            /\ Sums!AllocationsFit(h.allocations, h.value) =>
                                  \A g \in DOMAIN claims :
                                      claims[g] = Sums!Allocated(h.allocations[g], h.value)
      BY DEF NobodyOverbooked
    <2>1. PICK h : h = input.holdings[i]
      OBVIOUS
    <2>2. h.value \in Nat /\ Earmarked(h.allocations)
      BY <1>1, <2>1 DEF Stored, Held
    <2> QED
      BY <2>1, <2>2, NotOverbooked
  <1>4. GoalsAddUp
    BY <1>1, HeadlineAddsUp DEF GoalsAddUp
  <1> QED
    BY <1>2, <1>3, <1>4

LEMMA GoalsGoFree == MoneyInv => FreesToUnallocated
  <1> SUFFICES ASSUME MoneyInv, NEW lens \in Members \cup {Household}, side = "money",
                      input'.goals \subseteq input.goals, input'.holdings = input.holdings
               PROVE  Frees(input.holdings, input.goals, input'.goals, lens)
    BY DEF FreesToUnallocated, Frees
  <1>1. Stored(input.holdings) /\ IsFiniteSet(input.goals)
    BY HoldingsAreStored
  <1>2. PICK sources, ids, less : /\ sources = input.holdings /\ ids = input.goals
                                  /\ less = input'.goals
    OBVIOUS
  <1>3. Stored(sources) /\ IsFiniteSet(ids) /\ less \in SUBSET ids
    BY <1>1, <1>2
  <1> QED
    BY <1>2, <1>3, FreedToUnallocated

(* To the paisa, whatever is held: the lenses of the members and what members  *)
(* who left still own add up to the household's (networth.ts:113), no record   *)
(* is earmarked for more than it is worth (earmarks.ts:36), the Goals screen   *)
(* tells the net worth of its lens (goals.tsx:76), and a goal that goes gives  *)
(* back what it claimed (earmarks.ts:75). For any members, owners and shares,  *)
(* any amounts, any goals and any number of records.                          *)
THEOREM PaisaAddUpHolds == MCSpec => PaisaAddUp
  <1>1. MCSpec => [](LensesAddUp /\ NobodyOverbooked /\ GoalsAddUp)
    BY MoneyInvariant, MoneyAgrees, PTL
  <1>2. MCSpec => GoalFreed
    BY MoneyInvariant, GoalsGoFree, PTL DEF GoalFreed
  <1> QED
    BY <1>1, <1>2 DEF PaisaAddUp

------------------------------------------------------------------------------
(* Folds over sequences.                                                       *)

(* The numbers up to n, and how a fold takes them apart.                         *)
LEMMA UpTo ==
    /\ 1 .. 0 = {}
    /\ \A n \in Nat \ {0} : 1 .. n # {} /\ Max(1 .. n) = n /\ (1 .. n) \ {n} = 1 .. (n - 1)
  <1>1. \A n \in Nat \ {0} : Max(1 .. n) = n
    <2> TAKE n \in Nat \ {0}
    <2>1. n \in 1 .. n /\ \A y \in 1 .. n : n >= y
      OBVIOUS
    <2> DEFINE S == 1 .. n
    <2>2. n \in S /\ \A y \in S : n >= y
      BY <2>1
    <2> HIDE DEF S
    <2>3. Max(S) \in S /\ \A y \in S : Max(S) >= y
      BY <2>2 DEF Max
    <2>4. Max(S) \in Int /\ Max(S) >= n /\ n >= Max(S)
      BY <2>2, <2>3 DEF S
    <2> QED
      BY <2>4 DEF S
  <1>2. \A n \in Nat \ {0} : n \in 1 .. n /\ (1 .. n) \ {n} = 1 .. (n - 1)
    OBVIOUS
  <1>3. 1 .. 0 = {}
    OBVIOUS
  <1> QED
    BY <1>1, <1>2, <1>3

LEMMA MaxIsIn ==
    ASSUME NEW n \in Nat, NEW t \in SUBSET (1 .. n), t # {}
    PROVE  Max(t) \in t
  <1>1. \E x \in t : \A y \in t : y <= x
    <2>1. t \in SUBSET Nat /\ n + 1 \in Nat /\ \A x \in t : x < n + 1
      OBVIOUS
    <2> QED
      BY <2>1, Largest
  <1>2. \E x \in t : \A y \in t : x >= y
    BY <1>1
  <1> QED
    BY <1>2 DEF Max

(* A fold is well defined when its steps stay in some set.                       *)
Folding(n, A, base, B, s, step) ==
    /\ n \in Nat /\ base \in A
    /\ \A i \in 1 .. n : s[i] \in B
    /\ step \in [A \X B -> A]

Unfolds(it, n, base, s, step) ==
    \A t \in SUBSET (1 .. n) :
        it[t] = IF t = {} THEN base ELSE step[<<it[t \ {Max(t)}], s[Max(t)]>>]

LEMMA FoldExists ==
    ASSUME NEW n, NEW A, NEW base, NEW B, NEW s, NEW step, Folding(n, A, base, B, s, step)
    PROVE  \E it \in [SUBSET (1 .. n) -> A] : Unfolds(it, n, base, s, step)
  <1> USE DEF Folding, Unfolds
  <1> DEFINE S == 1 .. n
             Next1(g, t) == IF t = {} THEN base ELSE step[<<g[t \ {Max(t)}], s[Max(t)]>>]
             U == {k \in Nat : \E g \in [SUBSET S -> A] : \A t \in SUBSET S :
                      Cardinality(t) <= k => g[t] = Next1(g, t)}
  <1>0. \A t \in SUBSET S : t # {} => Max(t) \in t
    BY MaxIsIn, Zenon
  <1>1. IsFiniteSet(S) /\ \A t \in SUBSET S : IsFiniteSet(t) /\ Cardinality(t) \in Nat
    <2>1. IsFiniteSet(S)
      BY FS_Interval
    <2> HIDE DEF S
    <2>2. \A t \in SUBSET S : IsFiniteSet(t)
      BY <2>1, FS_Subset
    <2> QED
      BY <2>1, <2>2, FS_CardinalityType
  <1>a. \A g \in [SUBSET S -> A] : \A t \in SUBSET S : Next1(g, t) \in A
    <2> TAKE g \in [SUBSET S -> A]
    <2> TAKE t \in SUBSET S
    <2>1. CASE t = {}
      BY <2>1
    <2>2. CASE t # {}
      <3>1. Max(t) \in S /\ t \ {Max(t)} \in SUBSET S
        BY <1>0, <2>2
      <3>2. <<g[t \ {Max(t)}], s[Max(t)]>> \in A \X B
        BY <3>1
      <3> QED
        BY <2>2, <3>2
    <2> QED
      BY <2>1, <2>2
  <1>2. 0 \in U
    <2> DEFINE g == [t \in SUBSET S |-> base]
    <2>1. \A t \in SUBSET S : Cardinality(t) <= 0 => t = {}
      BY <1>1, FS_EmptySet
    <2>2. g \in [SUBSET S -> A] /\ \A t \in SUBSET S : Cardinality(t) <= 0 => g[t] = Next1(g, t)
      BY <2>1
    <2> QED
      BY <2>2
  <1>3. ASSUME NEW k \in U PROVE k + 1 \in U
    <2>1. PICK g \in [SUBSET S -> A] : \A t \in SUBSET S : Cardinality(t) <= k => g[t] = Next1(g, t)
      OBVIOUS
    <2> DEFINE h == [t \in SUBSET S |-> Next1(g, t)]
    <2>2. h \in [SUBSET S -> A]
      BY <1>a
    <2>3. ASSUME NEW t \in SUBSET S, Cardinality(t) <= k + 1 PROVE h[t] = Next1(h, t)
      <3>1. CASE t = {}
        BY <3>1
      <3>2. CASE t # {}
        <4> DEFINE u == t \ {Max(t)}
        <4>1. u \in SUBSET S /\ Cardinality(u) <= k
          <5>1. Cardinality(u) = Cardinality(t) - 1
            BY <1>0, <1>1, <3>2, FS_RemoveElement
          <5>2. u \in SUBSET S /\ k \in Nat /\ Cardinality(t) \in Nat
            BY <1>1
          <5> HIDE DEF u, U
          <5> QED
            BY <2>3, <5>1, <5>2
        <4>2. g[u] = h[u]
          BY <2>1, <4>1
        <4> QED
          BY <3>2, <4>1, <4>2
      <3> QED
        BY <3>1, <3>2
    <2>0. k + 1 \in Nat
      OBVIOUS
    <2> HIDE DEF h, Next1
    <2>4. \E f \in [SUBSET S -> A] : \A t \in SUBSET S : Cardinality(t) <= k + 1 => f[t] = Next1(f, t)
      BY <2>2, <2>3
    <2> QED
      BY <2>0, <2>4
  <1>4. U = Nat
    <2>1. U \in SUBSET Nat
      OBVIOUS
    <2> HIDE DEF U
    <2> QED
      BY <1>2, <1>3, <2>1, CountUp
  <1>5. Cardinality(S) \in U
    BY <1>1, <1>4
  <1>6. PICK g \in [SUBSET S -> A] : \A t \in SUBSET S : Cardinality(t) <= Cardinality(S) => g[t] = Next1(g, t)
    BY <1>5
  <1>7. \A t \in SUBSET S : Cardinality(t) <= Cardinality(S)
    BY <1>1, FS_Subset
  <1> QED
    BY <1>6, <1>7

(* What a fold gives is where its steps lead, whatever recursion it is made of.    *)
FoldedBy(it, n, A, base, s, step) ==
    /\ it[{}] = base
    /\ \A t \in SUBSET (1 .. n) : t # {} /\ it[t \ {Max(t)}] \in A =>
          it[t] = step[<<it[t \ {Max(t)}], s[Max(t)]>>]

LEMMA FoldSteps ==
    ASSUME NEW n, NEW A, NEW base, NEW B, NEW s, NEW step, Folding(n, A, base, B, s, step),
           NEW it, FoldedBy(it, n, A, base, s, step)
    PROVE  \E r \in [0 .. n -> A] : /\ r[0] = base /\ it[1 .. n] = r[n]
                                    /\ \A i \in 1 .. n : r[i] = step[<<r[i - 1], s[i]>>]
  <1> USE DEF Folding, FoldedBy
  <1> DEFINE r == [i \in 0 .. n |-> it[1 .. i]]
             U == {i \in Nat : i <= n => /\ it[1 .. i] \in A
                                         /\ i # 0 => it[1 .. i] = step[<<it[1 .. (i - 1)], s[i]>>]}
  <1>1. 0 \in U
    BY UpTo
  <1>2. ASSUME NEW i \in U PROVE i + 1 \in U
    <2>0. i \in Nat
      OBVIOUS
    <2> SUFFICES ASSUME i + 1 <= n
                 PROVE  /\ it[1 .. (i + 1)] \in A
                        /\ it[1 .. (i + 1)] = step[<<it[1 .. i], s[i + 1]>>]
      BY <2>0
    <2>1. it[1 .. i] \in A /\ i + 1 \in 1 .. n
      BY <2>0
    <2>2. /\ 1 .. (i + 1) # {} /\ Max(1 .. (i + 1)) = i + 1
          /\ (1 .. (i + 1)) \ {i + 1} = 1 .. i
      BY <2>0, UpTo
    <2>3. 1 .. (i + 1) \in SUBSET (1 .. n)
      BY <2>0
    <2>4. it[1 .. (i + 1)] = step[<<it[1 .. i], s[i + 1]>>]
      <3> DEFINE t == 1 .. (i + 1)
      <3>1. t \in SUBSET (1 .. n) /\ t # {} /\ Max(t) = i + 1 /\ t \ {Max(t)} = 1 .. i
        BY <2>2, <2>3
      <3> HIDE DEF t
      <3>2. it[t] = step[<<it[1 .. i], s[i + 1]>>]
        BY <2>1, <3>1
      <3> QED
        BY <3>2 DEF t
    <2>5. <<it[1 .. i], s[i + 1]>> \in A \X B
      BY <2>1
    <2> QED
      BY <2>4, <2>5
  <1>3. U = Nat
    <2>1. U \in SUBSET Nat
      OBVIOUS
    <2> HIDE DEF U
    <2> QED
      BY <1>1, <1>2, <2>1, CountUp
  <1>4. \A i \in 0 .. n : i \in U /\ i <= n
    BY <1>3
  <1>5. r \in [0 .. n -> A]
    BY <1>4
  <1>6. \A i \in 1 .. n : r[i] = step[<<r[i - 1], s[i]>>]
    BY <1>4
  <1>7. r[0] = base /\ r[n] = it[1 .. n]
    BY UpTo
  <1> HIDE DEF r, U
  <1> QED
    BY <1>5, <1>6, <1>7
------------------------------------------------------------------------------
(* Lots: a sale.                                                               *)

(* A share of an amount is no more than the amount.                              *)
LEMMA ProratedFits ==
    ASSUME NEW amount \in Nat, NEW whole \in Nat, NEW part \in 1 .. whole
    PROVE  Tax!Prorate(amount, part, whole) \in 0 .. amount
  <1>1. amount * part \in Nat /\ amount * whole \in Nat /\ whole \in Nat \ {0}
    OBVIOUS
  <1>2. amount * part <= amount * whole
    <2>1. PICK d \in Nat : whole = part + d
      <3>1. whole - part \in Nat /\ whole = part + (whole - part)
        OBVIOUS
      <3> QED
        BY <3>1
    <2>2. amount * whole = amount * part + amount * d /\ amount * d \in Nat
      BY <2>1
    <2> QED
      BY <1>1, <2>2
  <1>3. PICK x \in Nat : x = amount * part
    BY <1>1
  <1>4. x \div whole \in Nat /\ whole * (x \div whole) <= x
    BY <1>1, <1>3
  <1>5. x \div whole <= amount
    <2> SUFFICES ASSUME x \div whole >= amount + 1 PROVE FALSE
      BY <1>4
    <2>0. PICK q \in Nat : q = x \div whole
      BY <1>4
    <2>1. PICK d \in Nat : q = amount + 1 + d
      <3>1. q - (amount + 1) \in Nat /\ q = amount + 1 + (q - (amount + 1))
        BY <2>0
      <3> QED
        BY <3>1
    <2>2. whole * (x \div whole) = amount * whole + whole + whole * d /\ whole * d \in Nat
      BY <2>0, <2>1
    <2> QED
      BY <1>1, <1>2, <1>3, <1>4, <2>2
  <1> QED
    BY <1>3, <1>4, <1>5 DEF Tax!Prorate

(* Sums along a sequence and over a permutation of one.                          *)
LEMMA RunningSum ==
    ASSUME NEW n \in Nat, NEW g, \A i \in 1 .. n : g[i] \in Int, NEW r \in [0 .. n -> Int],
           r[0] = 0, \A i \in 1 .. n : r[i] = r[i - 1] + g[i]
    PROVE  r[n] = SumOn(g, 1 .. n)
  <1> DEFINE U == {i \in Nat : i <= n => r[i] = SumOn(g, 1 .. i)}
  <1>1. 0 \in U
    BY UpTo, SumEmpty
  <1>2. ASSUME NEW i \in U PROVE i + 1 \in U
    <2>0. i \in Nat
      OBVIOUS
    <2> SUFFICES ASSUME i + 1 <= n PROVE r[i + 1] = SumOn(g, 1 .. (i + 1))
      BY <2>0
    <2>1. r[i + 1] = r[i] + g[i + 1] /\ g[i + 1] \in Int
      <3>1. i + 1 \in 1 .. n /\ (i + 1) - 1 = i
        BY <2>0
      <3> QED
        BY <3>1
    <2>2. r[i] = SumOn(g, 1 .. i)
      BY <2>0
    <2>3. SumOn(g, 1 .. (i + 1)) = g[i + 1] + SumOn(g, 1 .. i) /\ SumOn(g, 1 .. i) \in Int
      <3> DEFINE S == 1 .. n
                 T == 1 .. i
      <3>1. IsFiniteSet(S) /\ T \in SUBSET S /\ i + 1 \in S \ T
        BY <2>0, FS_Interval
      <3>2. T \cup {i + 1} = 1 .. (i + 1)
        BY <2>0
      <3>3. \A x \in S : g[x] \in Int
        OBVIOUS
      <3> HIDE DEF S, T
      <3>4. SumOn(g, T \cup {i + 1}) = g[i + 1] + SumOn(g, T) /\ SumOn(g, T) \in Int
        BY <3>1, <3>3, SumInsert
      <3> QED
        BY <3>2, <3>4 DEF T
    <2> HIDE DEF U
    <2> QED
      BY <2>1, <2>2, <2>3
  <1>3. U = Nat
    <2>1. U \in SUBSET Nat
      OBVIOUS
    <2> HIDE DEF U
    <2> QED
      BY <1>1, <1>2, <2>1, CountUp
  <1>4. n \in U
    BY <1>3
  <1> QED
    BY <1>4

Renames(h, S, V, f, g) ==
    /\ IsFiniteSet(S)
    /\ \A x, y \in S : h[x] = h[y] => x = y
    /\ \A x \in S : h[x] \in V /\ f[x] \in Int /\ g[h[x]] = f[x]
    /\ \A y \in V : \E x \in S : h[x] = y

LEMMA SumImage ==
    ASSUME NEW h, NEW S, NEW V, NEW f, NEW g, Renames(h, S, V, f, g)
    PROVE  SumOn(g, V) = SumOn(f, S) /\ IsFiniteSet(V)
  <1> USE DEF Renames
  <1> DEFINE Image(T) == {h[x] : x \in T}
             U == {T \in SUBSET S : IsFiniteSet(Image(T)) /\ SumOn(g, Image(T)) = SumOn(f, T)}
  <1>1. {} \in U
    <2>1. Image({}) = {}
      OBVIOUS
    <2> QED
      BY <2>1, SumEmpty, FS_EmptySet
  <1>2. ASSUME NEW T \in U, NEW x \in S PROVE T \cup {x} \in U
    <2>1. CASE x \in T
      <3>1. T \cup {x} = T
        BY <2>1
      <3> QED
        BY <3>1
    <2>2. CASE x \notin T
      <3>1. SumOn(f, T \cup {x}) = f[x] + SumOn(f, T)
        BY <2>2, SumInsert
      <3> DEFINE R == Image(T) \cup {h[x]}
      <3>2. /\ IsFiniteSet(R) /\ Image(T) \in SUBSET R
            /\ h[x] \in R \ Image(T) /\ Image(T \cup {x}) = R
        <4>1. IsFiniteSet(R)
          BY FS_AddElement
        <4> QED
          BY <2>2, <4>1
      <3>3. \A y \in R : g[y] \in Int
        OBVIOUS
      <3>4. SumOn(g, Image(T) \cup {h[x]}) = g[h[x]] + SumOn(g, Image(T))
        <4> HIDE DEF Image, R
        <4>1. SumOn(g, Image(T) \cup {h[x]}) = g[h[x]] + SumOn(g, Image(T))
          BY <3>2, <3>3, SumInsert
        <4> QED
          BY <4>1
      <3>5. SumOn(g, Image(T)) = SumOn(f, T) /\ g[h[x]] = f[x]
        OBVIOUS
      <3>6. SumOn(g, Image(T \cup {x})) = SumOn(f, T \cup {x}) /\ IsFiniteSet(Image(T \cup {x}))
        <4>1. SumOn(g, R) = SumOn(f, T \cup {x})
          BY <3>1, <3>4, <3>5
        <4> HIDE DEF Image, U, R
        <4> QED
          BY <3>2, <4>1
      <3> QED
        BY <3>6
    <2> QED
      BY <2>1, <2>2
  <1> HIDE DEF U
  <1>3. S \in U
    BY <1>1, <1>2, BuildUp
  <1>4. V = Image(S)
    OBVIOUS
  <1> QED
    BY <1>3, <1>4 DEF U

(* What a property of lots, given as a function, comes to over a sequence of them.  *)
SumOf(w, s) == SumOn([i \in DOMAIN s |-> w[s[i]]], DOMAIN s)

LEMMA SumOverIs ==
    ASSUME NEW s
    PROVE  /\ Tax!SumOver(s, LAMBDA lot : lot.cost) = SumOn([i \in DOMAIN s |-> s[i].cost], DOMAIN s)
           /\ Tax!SumOver(s, LAMBDA lot : IF lot.fmv = Null THEN 0 ELSE lot.fmv)
                  = SumOn([i \in DOMAIN s |-> IF s[i].fmv = Null THEN 0 ELSE s[i].fmv], DOMAIN s)
           /\ Tax!SumUnits(s) = SumOn([i \in DOMAIN s |-> s[i].units], DOMAIN s)
  BY DEF Tax!SumUnits, Tax!SumOver, SumOn, Tax!FoldFunction, FoldFunction, Tax!FoldFunctionOnSet,
         FoldFunctionOnSet, Tax!MapThenFoldSet, MapThenFoldSet, MapThenSumSet

(* What is added by one lot more.                                                *)
LEMMA SumOfMore ==
    ASSUME NEW w \in [LotTypes -> Int]
    PROVE  /\ SumOf(w, <<>>) = 0
           /\ \A s \in Seq(LotTypes) : SumOf(w, s) \in Int
           /\ \A s \in Seq(LotTypes), x \in LotTypes : SumOf(w, Append(s, x)) = SumOf(w, s) + w[x]
  <1>1. SumOf(w, <<>>) = 0
    BY SumEmpty DEF SumOf
  <1>2. ASSUME NEW s \in Seq(LotTypes) PROVE SumOf(w, s) \in Int
    <2>1. IsFiniteSet(DOMAIN s) /\ \A i \in DOMAIN s : w[s[i]] \in Int
      BY FS_Interval
    <2> QED
      BY <2>1, SumSame DEF SumOf
  <1>3. ASSUME NEW s \in Seq(LotTypes), NEW x \in LotTypes
        PROVE  SumOf(w, Append(s, x)) = SumOf(w, s) + w[x]
    <2> DEFINE t == Append(s, x)
               n == Len(s)
               f == [i \in DOMAIN t |-> w[t[i]]]
               g == [i \in DOMAIN s |-> w[s[i]]]
    <2>1. /\ n \in Nat /\ DOMAIN s = 1 .. n /\ DOMAIN t = 1 .. (n + 1)
          /\ t[n + 1] = x /\ (\A i \in 1 .. n : t[i] = s[i] /\ s[i] \in LotTypes)
      OBVIOUS
    <2> HIDE DEF t, n
    <2>2. /\ \A i \in 1 .. (n + 1) : f[i] \in Int
          /\ f[n + 1] = w[x]
          /\ \A i \in 1 .. n : f[i] = g[i] /\ f[i] \in Int
      BY <2>1
    <2> HIDE DEF f, g
    <2>3. /\ IsFiniteSet(1 .. (n + 1)) /\ IsFiniteSet(1 .. n) /\ n + 1 \in 1 .. (n + 1)
          /\ (1 .. (n + 1)) \ {n + 1} = 1 .. n
      <3>1. n \in Int /\ n + 1 \in Int /\ 1 \in Int
        BY <2>1
      <3>2. IsFiniteSet(1 .. (n + 1)) /\ IsFiniteSet(1 .. n)
        BY <3>1, FS_Interval, Zenon
      <3>3. n + 1 \in 1 .. (n + 1) /\ (1 .. (n + 1)) \ {n + 1} = 1 .. n
        BY <2>1
      <3> QED
        BY <3>2, <3>3
    <2>4. SumOn(f, 1 .. (n + 1)) = f[n + 1] + SumOn(f, (1 .. (n + 1)) \ {n + 1})
      BY <2>2, <2>3, SumRemove
    <2>5. SumOn(f, 1 .. n) = SumOn(g, 1 .. n) /\ SumOn(f, 1 .. n) \in Int
      BY <2>2, <2>3, SumSame
    <2>6. SumOf(w, t) = SumOn(f, 1 .. (n + 1)) /\ SumOf(w, s) = SumOn(g, 1 .. n)
      BY <2>1 DEF SumOf, f, g, t
    <2>7. w[x] \in Int
      OBVIOUS
    <2>8. SumOf(w, t) = f[n + 1] + SumOn(f, 1 .. n)
      BY <2>3, <2>4, <2>6, Zenon
    <2>9. SumOf(w, t) = SumOf(w, s) + w[x]
      BY <2>2, <2>5, <2>6, <2>7, <2>8
    <2> QED
      BY <2>9 DEF t
  <1> QED
    BY <1>1, <1>2, <1>3

(* A sequence in another order has the same sum.                                 *)
LEMMA SumOfReordered ==
    ASSUME NEW w \in [LotTypes -> Int], NEW s \in Seq(LotTypes),
           NEW p \in [DOMAIN s -> DOMAIN s], \A i, j \in DOMAIN s : p[i] = p[j] => i = j
    PROVE  SumOf(w, [i \in DOMAIN s |-> s[p[i]]]) = SumOf(w, s)
  <1> DEFINE S == DOMAIN s
             f == [i \in S |-> w[s[p[i]]]]
             g == [i \in S |-> w[s[i]]]
  <1>1. IsFiniteSet(S) /\ \A i \in S : s[i] \in LotTypes
    BY FS_Interval
  <1>2. \A y \in S : \E x \in S : p[x] = y
    <2>1. p \in [S -> S] /\ \A i, j \in S : p[i] = p[j] => i = j
      OBVIOUS
    <2> HIDE DEF S
    <2>2. p \in Injection(S, S)
      BY <2>1, Fun_IsInj
    <2>3. p \in Surjection(S, S)
      BY <1>1, <2>2, FS_Injection
    <2> QED
      BY <2>3, Fun_SurjectionProperties
  <1>3. \A i \in S : f[i] \in Int /\ g[p[i]] = f[i]
    BY <1>1
  <1>3a. (\A i, j \in S : p[i] = p[j] => i = j) /\ \A i \in S : p[i] \in S
    OBVIOUS
  <1> HIDE DEF f, g, S
  <1>4. SumOn(g, S) = SumOn(f, S)
    <2>1. Renames(p, S, S, f, g)
      BY <1>1, <1>2, <1>3, <1>3a DEF Renames
    <2> QED
      BY <2>1, SumImage
  <1>5. SumOf(w, s) = SumOn(g, S)
    BY DEF SumOf, g, S
  <1>6. SumOf(w, [i \in S |-> s[p[i]]]) = SumOn(f, S)
    <2>1. [i \in DOMAIN [j \in S |-> s[p[j]]] |-> w[[j \in S |-> s[p[j]]][i]]] = f
      BY DEF f
    <2> QED
      BY <2>1 DEF SumOf
  <1> QED
    BY <1>2, <1>4, <1>5, <1>6 DEF S

(* First in, first out is an order: every lot has one place, no earlier one is newer. *)
LEMMA FifoSorts ==
    ASSUME NEW s \in Seq(LotTypes)
    PROVE  \E p \in [DOMAIN s -> DOMAIN s] :
              /\ Tax!FifoOrder(s) = [k \in DOMAIN s |-> s[p[k]]]
              /\ \A j, k \in DOMAIN s : p[j] = p[k] => j = k
              /\ \A j, k \in DOMAIN s : j < k => s[p[j]].acquired <= s[p[k]].acquired
  <1> DEFINE K == DOMAIN s
             B == [i \in K |-> Tax!Before(s, i)]
             r == [i \in K |-> Cardinality(B[i])]
             p == [k \in K |-> CHOOSE i \in K : Tax!Place(s, i) = k]
  <1>1. /\ K = 1 .. Len(s) /\ Len(s) \in Nat
        /\ \A i \in K : i \in Nat /\ s[i].acquired \in Int
    <2>1. K = 1 .. Len(s) /\ Len(s) \in Nat /\ \A i \in K : i \in Nat /\ s[i] \in LotTypes
      OBVIOUS
    <2>2. \A lot \in LotTypes : lot.acquired \in Int
      BY DEF LotTypes
    <2> QED
      BY <2>1, <2>2
  <1>2. IsFiniteSet(K) /\ Cardinality(K) = Len(s)
    <2> HIDE DEF K, B, r, p
    <2>1. PICK n \in Nat : n = Len(s)
      BY <1>1
    <2>2. IsFiniteSet(1 .. n) /\ Cardinality(1 .. n) = n
      <3>1. 1 \in Int /\ n \in Int /\ (IF 1 > n THEN 0 ELSE (n - 1) + 1) = n
        OBVIOUS
      <3> QED
        BY <3>1, FS_Interval, Zenon
    <2> QED
      BY <1>1, <2>1, <2>2, Zenon
  <1>3. Tax!FifoOrder(s) = [k \in K |-> s[p[k]]]
    <2>1. ASSUME NEW k \in K PROVE Tax!FifoOrder(s)[k] = s[p[k]]
      BY DEF Tax!FifoOrder
    <2>2. Tax!FifoOrder(s) = [k \in K |-> Tax!FifoOrder(s)[k]]
      BY DEF Tax!FifoOrder
    <2> HIDE DEF p, r
    <2> QED
      BY <2>1, <2>2
  <1>4. \A i \in K : B[i] \in SUBSET K /\ i \notin B[i]
    BY <1>1 DEF Tax!Before
  <1>5. \A j, i \in K : j # i => j \in B[i] \/ i \in B[j]
    BY <1>1 DEF Tax!Before
  <1>6. \A j, i \in K : j \in B[i] => B[j] \subseteq B[i]
    BY <1>1 DEF Tax!Before
  <1>7. \A j, i \in K : s[j].acquired < s[i].acquired => j \in B[i]
    BY <1>1 DEF Tax!Before
  <1>8. \A i \in K : r[i] = Cardinality(B[i])
    OBVIOUS
  <1> HIDE DEF B, r
  <1>9. \A i \in K : r[i] \in Nat /\ IsFiniteSet(B[i])
    BY <1>2, <1>4, <1>8, FS_Subset, FS_CardinalityType
  <1>10. ASSUME NEW k \in K PROVE \E i \in K : r[i] + 1 = k
    <2> DEFINE Upto(m) == {i \in K : Cardinality(B[i]) < m}
    <2>1. \A m \in 0 .. Cardinality(K) : Cardinality(Upto(m)) = m
      <3> HIDE DEF K
      <3> QED
        BY <1>2, <1>4, <1>5, <1>6, Ranks
    <2>2. k \in 0 .. Cardinality(K) /\ k - 1 \in 0 .. Cardinality(K)
      BY <1>1, <1>2
    <2>3. Cardinality(Upto(k)) = k /\ Cardinality(Upto(k - 1)) = k - 1
      BY <2>1, <2>2, Zenon
    <2>4. Upto(k) # Upto(k - 1)
      <3>1. k # k - 1
        BY <2>2
      <3> QED
        BY <2>3, <3>1, Zenon
    <2>5. \A i \in Upto(k - 1) : i \in Upto(k)
      BY <1>8, <1>9, <2>2
    <2>6. PICK i \in K : Cardinality(B[i]) < k /\ ~(Cardinality(B[i]) < k - 1)
      BY <2>4, <2>5
    <2>7. r[i] + 1 = k
      BY <1>8, <1>9, <2>2, <2>6
    <2> QED
      BY <2>7
  <1>11. \A k \in K : p[k] \in K /\ r[p[k]] + 1 = k
    <2> TAKE k \in K
    <2>1. p[k] = CHOOSE i \in K : Tax!Place(s, i) = k
      OBVIOUS
    <2>2. \A i \in K : r[i] + 1 = Tax!Place(s, i)
      BY <1>8 DEF B, Tax!Place, Tax!Cardinality, Cardinality
    <2> HIDE DEF p
    <2> QED
      BY <1>10, <2>1, <2>2
  <1> HIDE DEF p
  <1>12. \A j, k \in K : j < k => s[p[j]].acquired <= s[p[k]].acquired
    <2> SUFFICES ASSUME NEW j \in K, NEW k \in K, j < k, ~(s[p[j]].acquired <= s[p[k]].acquired)
                 PROVE  FALSE
      OBVIOUS
    <2>1. p[j] \in K /\ p[k] \in K /\ r[p[j]] < r[p[k]]
      BY <1>1, <1>9, <1>11
    <2>2. p[k] \in B[p[j]]
      BY <1>1, <1>7, <2>1
    <2>3. B[p[k]] \subseteq B[p[j]] /\ IsFiniteSet(B[p[j]])
      BY <1>6, <1>9, <2>1, <2>2
    <2>4. r[p[k]] <= r[p[j]]
      BY <1>8, <2>1, <2>3, FS_Subset
    <2> QED
      BY <1>9, <2>1, <2>4
  <1>13. p \in [K -> K] /\ \A j, k \in K : p[j] = p[k] => j = k
    <2>1. p \in [K -> K]
      <3>1. \A k \in K : p[k] \in K
        BY <1>11
      <3> QED
        BY <3>1 DEF p
    <2> QED
      BY <1>1, <1>11, <2>1
  <1> QED
    BY <1>3, <1>12, <1>13

------------------------------------------------------------------------------
(* Lots: a sale.                                                             *)

(* What a sale may not lose.                                                 *)
LotUnits == [lot \in LotTypes |-> lot.units]
LotCost  == [lot \in LotTypes |-> lot.cost]
LotFmv   == [lot \in LotTypes |-> IF lot.fmv = Null THEN 0 ELSE lot.fmv]
Weights  == {LotUnits, LotCost, LotFmv}

Walks == [sold : Seq(LotTypes), remaining : Seq(LotTypes), left : Nat]

LEMMA WeightsAre == \A w \in Weights : w \in [LotTypes -> Int]
  <1>1. LotUnits \in [LotTypes -> Int]
    BY DEF LotUnits, LotTypes
  <1>2. LotCost \in [LotTypes -> Int]
    BY DEF LotCost, LotTypes
  <1>3. LotFmv \in [LotTypes -> Int]
    <2>1. \A lot \in LotTypes : (IF lot.fmv = Null THEN 0 ELSE lot.fmv) \in Int
      BY DEF LotTypes
    <2> QED
      BY <2>1 DEF LotFmv
  <1> QED
    BY <1>1, <1>2, <1>3 DEF Weights

(* A lot that is split stays two lots, and nothing of it is lost.                 *)
LEMMA LotIsSplit ==
    ASSUME NEW lot \in LotTypes, NEW take \in Nat \ {0}, take < lot.units
    PROVE  /\ Tax!Taken(lot, take) \in LotTypes /\ Tax!Kept(lot, take) \in LotTypes
           /\ Tax!Taken(lot, take).acquired = lot.acquired
           /\ Tax!Kept(lot, take).acquired = lot.acquired
           /\ \A w \in Weights : w[Tax!Taken(lot, take)] + w[Tax!Kept(lot, take)] = w[lot]
           /\ Tax!LotValid(lot) => Tax!LotValid(Tax!Kept(lot, take))
  <1> DEFINE units == lot.units
             cost  == Tax!Prorate(lot.cost, take, lot.units)
             fmv   == Tax!Prorate(lot.fmv, take, lot.units)
             taken == Tax!Taken(lot, take)
             kept  == Tax!Kept(lot, take)
  <1>1. /\ lot.units \in Nat /\ lot.cost \in Nat /\ lot.acquired \in Int
        /\ lot.fmv # Null => lot.fmv \in Nat
        /\ lot = [units |-> lot.units, cost |-> lot.cost, acquired |-> lot.acquired, fmv |-> lot.fmv]
    BY DEF LotTypes
  <1>2. take \in 1 .. lot.units /\ lot.units - take \in Nat \ {0}
    BY <1>1
  <1>3. cost \in 0 .. lot.cost /\ (lot.fmv # Null => fmv \in 0 .. lot.fmv)
    BY <1>1, <1>2, ProratedFits
  <1>4. taken = [units |-> take, cost |-> cost, acquired |-> lot.acquired,
                 fmv |-> IF lot.fmv = Null THEN Null ELSE fmv]
    <2>1. taken = [lot EXCEPT !.units = take, !.cost = cost,
                              !.fmv = IF lot.fmv = Null THEN Null ELSE fmv]
      BY DEF Tax!Taken
    <2> HIDE DEF cost, fmv, taken
    <2> QED
      BY <1>1, <2>1
  <1> HIDE DEF cost, fmv, taken
  <1>5. kept = [units |-> lot.units - take, cost |-> lot.cost - cost, acquired |-> lot.acquired,
                fmv |-> IF lot.fmv = Null THEN Null ELSE lot.fmv - fmv]
    <2>1. kept = [lot EXCEPT !.units = @ - take, !.cost = @ - taken.cost,
                             !.fmv = IF @ = Null THEN Null ELSE @ - taken.fmv]
      BY DEF Tax!Kept, taken
    <2>2. taken.cost = cost /\ (lot.fmv # Null => taken.fmv = fmv)
      BY <1>4
    <2> QED
      BY <1>1, <2>1, <2>2
  <1> HIDE DEF kept
  <1>6. taken \in LotTypes
    BY <1>1, <1>2, <1>3, <1>4 DEF LotTypes
  <1>7. kept \in LotTypes
    BY <1>1, <1>2, <1>3, <1>5 DEF LotTypes
  <1>8. taken.acquired = lot.acquired /\ kept.acquired = lot.acquired
    BY <1>4, <1>5
  <1>9. LotUnits[taken] + LotUnits[kept] = LotUnits[lot]
    <2>1. LotUnits[taken] = take /\ LotUnits[kept] = lot.units - take /\ LotUnits[lot] = lot.units
      BY <1>4, <1>5, <1>6, <1>7 DEF LotUnits
    <2> QED
      BY <1>1, <2>1
  <1>10. LotCost[taken] + LotCost[kept] = LotCost[lot]
    <2>1. LotCost[taken] = cost /\ LotCost[kept] = lot.cost - cost /\ LotCost[lot] = lot.cost
      BY <1>4, <1>5, <1>6, <1>7 DEF LotCost
    <2> QED
      BY <1>1, <1>3, <2>1
  <1>11. LotFmv[taken] + LotFmv[kept] = LotFmv[lot]
    <2>1. CASE lot.fmv = Null
      <3>1. LotFmv[taken] = 0 /\ LotFmv[kept] = 0 /\ LotFmv[lot] = 0
        BY <1>4, <1>5, <1>6, <1>7, <2>1 DEF LotFmv
      <3> QED
        BY <3>1
    <2>2. CASE lot.fmv # Null
      <3>1. taken.fmv = fmv /\ kept.fmv = lot.fmv - fmv /\ fmv \in Nat /\ lot.fmv - fmv \in Nat
        BY <1>1, <1>3, <1>4, <1>5, <2>2
      <3>2. taken.fmv # Null /\ kept.fmv # Null
        BY <3>1, LotsAssumption
      <3>3. LotFmv[taken] = fmv /\ LotFmv[kept] = lot.fmv - fmv /\ LotFmv[lot] = lot.fmv
        BY <1>6, <1>7, <2>2, <3>1, <3>2 DEF LotFmv
      <3> QED
        BY <1>1, <2>2, <3>1, <3>3
    <2> QED
      BY <2>1, <2>2
  <1>12. Tax!LotValid(lot) => Tax!LotValid(kept)
    <2>1. kept.units > 0 /\ kept.cost >= 0
      BY <1>1, <1>2, <1>3, <1>5
    <2>2. ASSUME kept.fmv # Null PROVE lot.fmv # Null /\ kept.fmv >= 0
      <3>1. lot.fmv # Null
        BY <1>5, <2>2
      <3> QED
        BY <1>1, <1>3, <1>5, <3>1
    <2>3. kept.acquired = lot.acquired
      BY <1>8
    <2> QED
      BY <2>1, <2>2, <2>3 DEF Tax!LotValid
  <1>13. \A w \in Weights : w[taken] + w[kept] = w[lot]
    BY <1>9, <1>10, <1>11 DEF Weights
  <1> QED
    BY <1>6, <1>7, <1>8, <1>12, <1>13 DEF taken, kept

(* One lot of the walk: nothing of it is lost either.                            *)
LEMMA ConsumeCounts ==
    ASSUME NEW walk \in Walks, NEW lot \in LotTypes
    PROVE  /\ Tax!Consume(walk, lot) \in Walks
           /\ \A w \in Weights :
                 SumOf(w, Tax!Consume(walk, lot).sold) + SumOf(w, Tax!Consume(walk, lot).remaining)
                     = SumOf(w, walk.sold) + SumOf(w, walk.remaining) + w[lot]
  <1> DEFINE next == Tax!Consume(walk, lot)
             S == walk.sold
             R == walk.remaining
  <1>1. /\ S \in Seq(LotTypes) /\ R \in Seq(LotTypes) /\ walk.left \in Nat
        /\ walk = [sold |-> S, remaining |-> R, left |-> walk.left]
        /\ lot.units \in Nat
    BY DEF Walks, LotTypes
  <1>2. \A w \in Weights : /\ w \in [LotTypes -> Int] /\ SumOf(w, S) \in Int /\ SumOf(w, R) \in Int
                           /\ \A x \in LotTypes : w[x] \in Int
    BY <1>1, WeightsAre, SumOfMore
  <1>3. \A w \in Weights : \A s \in Seq(LotTypes) : \A x \in LotTypes :
           Append(s, x) \in Seq(LotTypes) /\ SumOf(w, Append(s, x)) = SumOf(w, s) + w[x]
    BY WeightsAre, SumOfMore
  <1> HIDE DEF S, R
  <1>4. CASE walk.left <= 0
    <2>1. next = [sold |-> S, remaining |-> Append(R, lot), left |-> walk.left]
      <3>1. next = [walk EXCEPT !.remaining = Append(@, lot)]
        BY <1>4 DEF Tax!Consume
      <3> HIDE DEF next
      <3> QED
        BY <1>1, <3>1 DEF S, R
    <2>2. Append(R, lot) \in Seq(LotTypes)
      BY <1>1
    <2>3. next \in Walks
      BY <1>1, <2>1, <2>2 DEF Walks
    <2>4. next.sold = S /\ next.remaining = Append(R, lot)
      BY <2>1
    <2> HIDE DEF next
    <2> QED
      BY <1>1, <1>2, <1>3, <2>3, <2>4 DEF S, R, next
  <1>5. CASE walk.left > 0 /\ lot.units <= walk.left
    <2>1. next = [sold |-> Append(S, lot), remaining |-> R, left |-> walk.left - lot.units]
      <3>1. next = [walk EXCEPT !.sold = Append(@, lot), !.left = @ - lot.units]
        BY <1>1, <1>5 DEF Tax!Consume
      <3> HIDE DEF next
      <3> QED
        BY <1>1, <3>1 DEF S, R
    <2>2. Append(S, lot) \in Seq(LotTypes) /\ walk.left - lot.units \in Nat
      BY <1>1, <1>5
    <2>3. next \in Walks
      BY <1>1, <2>1, <2>2 DEF Walks
    <2>4. next.sold = Append(S, lot) /\ next.remaining = R
      BY <2>1
    <2> HIDE DEF next
    <2> QED
      BY <1>1, <1>2, <1>3, <2>3, <2>4 DEF S, R, next
  <1>6. CASE walk.left > 0 /\ ~(lot.units <= walk.left)
    <2> DEFINE taken == Tax!Taken(lot, walk.left)
               kept  == Tax!Kept(lot, walk.left)
    <2>0. /\ taken \in LotTypes /\ kept \in LotTypes
          /\ \A w \in Weights : w[taken] + w[kept] = w[lot]
      <3>1. walk.left \in Nat \ {0} /\ walk.left < lot.units
        BY <1>1, <1>6
      <3> QED
        BY <3>1, LotIsSplit
    <2>1. next = [sold |-> Append(S, taken), remaining |-> Append(R, kept), left |-> 0]
      BY <1>1, <1>6 DEF Tax!Consume, S, R
    <2> HIDE DEF taken, kept
    <2>2. Append(S, taken) \in Seq(LotTypes) /\ Append(R, kept) \in Seq(LotTypes)
      BY <1>1, <2>0
    <2>3. next \in Walks
      BY <2>1, <2>2 DEF Walks
    <2>4. next.sold = Append(S, taken) /\ next.remaining = Append(R, kept)
      BY <2>1
    <2> HIDE DEF next
    <2>5. \A w \in Weights : SumOf(w, next.sold) + SumOf(w, next.remaining)
                                = SumOf(w, S) + SumOf(w, R) + w[lot]
      <3> TAKE w \in Weights
      <3>1. SumOf(w, next.sold) = SumOf(w, S) + w[taken] /\ SumOf(w, next.remaining) = SumOf(w, R) + w[kept]
        BY <1>1, <1>3, <2>0, <2>4
      <3>2. /\ w[taken] \in Int /\ w[kept] \in Int /\ w[lot] \in Int
            /\ SumOf(w, S) \in Int /\ SumOf(w, R) \in Int
        BY <1>2, <2>0
      <3> QED
        BY <2>0, <3>1, <3>2
    <2> QED
      BY <2>3, <2>5 DEF S, R, next
  <1> QED
    BY <1>1, <1>4, <1>5, <1>6

(* The walk over lots, as the steps it consists of.                              *)
LEMMA WalkSteps ==
    ASSUME NEW base \in Walks, NEW s \in Seq(LotTypes)
    PROVE  \E r \in [0 .. Len(s) -> Walks] :
              /\ r[0] = base /\ Tax!FoldLeft(Tax!Consume, base, s) = r[Len(s)]
              /\ \A i \in 1 .. Len(s) : r[i] = Tax!Consume(r[i - 1], s[i])
  <1> DEFINE n == Len(s)
             step == [p \in Walks \X LotTypes |-> Tax!Consume(p[1], p[2])]
             Once(it, t) == IF t = {} THEN base ELSE Tax!Consume(it[t \ {Max(t)}], s[Max(t)])
             fold == CHOOSE it : it = [t \in SUBSET (1 .. n) |-> Once(it, t)]
  <1>1. /\ n \in Nat /\ DOMAIN s = 1 .. n /\ (\A i \in 1 .. n : s[i] \in LotTypes)
    OBVIOUS
  <1>2. \A walk \in Walks : \A lot \in LotTypes :
           step[<<walk, lot>>] = Tax!Consume(walk, lot) /\ Tax!Consume(walk, lot) \in Walks
    BY ConsumeCounts
  <1>3. step \in [Walks \X LotTypes -> Walks]
    <2>1. \A p \in Walks \X LotTypes : Tax!Consume(p[1], p[2]) \in Walks
      BY ConsumeCounts
    <2> QED
      BY <2>1
  <1>3a. Folding(n, Walks, base, LotTypes, s, step)
    BY <1>1, <1>3 DEF Folding
  <1>4. Tax!FoldLeft(Tax!Consume, base, s) = fold[1 .. n]
    BY <1>1 DEF Tax!FoldLeft, Tax!MapThenFoldSet, MapThenFoldSet, Tax!Max, Max
  <1> HIDE DEF step, n
  <1>5. PICK it \in [SUBSET (1 .. n) -> Walks] : Unfolds(it, n, base, s, step)
    BY <1>3a, FoldExists
  <1>6. it = [t \in SUBSET (1 .. n) |-> Once(it, t)]
    <2>1. \A t \in SUBSET (1 .. n) : it[t] = Once(it, t)
      <3> TAKE t \in SUBSET (1 .. n)
      <3>1. CASE t = {}
        BY <1>5, <3>1 DEF Unfolds
      <3>2. CASE t # {}
        <4>1. Max(t) \in 1 .. n
          BY <1>1, <3>2, MaxIsIn
        <4>2. s[Max(t)] \in LotTypes /\ it[t \ {Max(t)}] \in Walks
          BY <1>1, <4>1
        <4> QED
          BY <1>2, <1>5, <3>2, <4>2 DEF Unfolds
      <3> QED
        BY <3>1, <3>2
    <2> HIDE DEF Once
    <2> QED
      BY <2>1
  <1>7. fold = [t \in SUBSET (1 .. n) |-> Once(fold, t)]
    <2> HIDE DEF Once
    <2> QED
      BY <1>6
  <1> HIDE DEF fold
  <1>8. fold[{}] = base
    BY <1>7
  <1>9. \A t \in SUBSET (1 .. n) : t # {} /\ fold[t \ {Max(t)}] \in Walks =>
           fold[t] = step[<<fold[t \ {Max(t)}], s[Max(t)]>>]
    <2> SUFFICES ASSUME NEW t \in SUBSET (1 .. n), t # {}, fold[t \ {Max(t)}] \in Walks
                 PROVE  fold[t] = step[<<fold[t \ {Max(t)}], s[Max(t)]>>]
      OBVIOUS
    <2>1. Max(t) \in 1 .. n
      BY <1>1, MaxIsIn
    <2>2. fold[t] = Tax!Consume(fold[t \ {Max(t)}], s[Max(t)])
      BY <1>7
    <2> QED
      BY <1>1, <1>2, <2>1, <2>2
  <1>10. PICK r \in [0 .. n -> Walks] : /\ r[0] = base /\ fold[1 .. n] = r[n]
                                        /\ \A i \in 1 .. n : r[i] = step[<<r[i - 1], s[i]>>]
    <2>1. FoldedBy(fold, n, Walks, base, s, step)
      BY <1>8, <1>9 DEF FoldedBy
    <2> QED
      BY <1>3a, <2>1, FoldSteps
  <1>11. \A i \in 1 .. n : r[i] = Tax!Consume(r[i - 1], s[i])
    <2> TAKE i \in 1 .. n
    <2>1. i - 1 \in 0 .. n
      BY <1>1
    <2> QED
      BY <1>1, <1>2, <1>10, <2>1
  <1> QED
    BY <1>4, <1>10, <1>11 DEF n

(* Kept lots are sound, and none of them is older than what was sold.            *)
SoundWalk(walk) ==
    /\ walk.left > 0 => walk.remaining = <<>>
    /\ \A a \in DOMAIN walk.sold, b \in DOMAIN walk.remaining :
          walk.sold[a].acquired <= walk.remaining[b].acquired
    /\ \A b \in DOMAIN walk.remaining : Tax!LotValid(walk.remaining[b])

NotOlder(lot, walk) == \A a \in DOMAIN walk.sold : walk.sold[a].acquired <= lot.acquired

LEMMA ConsumeKeeps ==
    ASSUME NEW walk \in Walks, NEW lot \in LotTypes, Tax!LotValid(lot), SoundWalk(walk),
           NotOlder(lot, walk)
    PROVE  /\ SoundWalk(Tax!Consume(walk, lot))
           /\ \A l \in LotTypes : NotOlder(l, walk) /\ lot.acquired <= l.acquired =>
                  NotOlder(l, Tax!Consume(walk, lot))
  <1> DEFINE next == Tax!Consume(walk, lot)
             S == walk.sold
             R == walk.remaining
  <1>1. /\ S \in Seq(LotTypes) /\ R \in Seq(LotTypes) /\ walk.left \in Nat
        /\ lot.units \in Nat /\ lot.acquired \in Int
        /\ \A x \in LotTypes : x.acquired \in Int
    BY DEF Walks, LotTypes
  <1>2. \A s \in Seq(LotTypes) : \A x \in LotTypes : \A i \in DOMAIN Append(s, x) :
           \/ i \in DOMAIN s /\ Append(s, x)[i] = s[i]
           \/ Append(s, x)[i] = x
    OBVIOUS
  <1>3. CASE walk.left <= 0
    <2>1. next.sold = S /\ next.remaining = Append(R, lot) /\ next.left = walk.left
      <3>1. next = [walk EXCEPT !.remaining = Append(@, lot)]
        BY <1>3 DEF Tax!Consume
      <3> QED
        BY <3>1 DEF Walks
    <2> HIDE DEF next
    <2>2. SoundWalk(next)
      <3> HIDE DEF S, R
      <3>1. \A a \in DOMAIN S, b \in DOMAIN Append(R, lot) : S[a].acquired <= Append(R, lot)[b].acquired
        BY <1>1, <1>2 DEF SoundWalk, NotOlder, S, R
      <3>2. \A b \in DOMAIN Append(R, lot) : Tax!LotValid(Append(R, lot)[b])
        BY <1>1, <1>2 DEF SoundWalk, R
      <3> QED
        BY <1>1, <1>3, <2>1, <3>1, <3>2 DEF SoundWalk
    <2>3. \A l \in LotTypes : NotOlder(l, walk) => NotOlder(l, next)
      BY <2>1 DEF NotOlder
    <2> QED
      BY <2>2, <2>3 DEF next
  <1>4. CASE walk.left > 0 /\ lot.units <= walk.left
    <2>1. next.sold = Append(S, lot) /\ next.remaining = R
      <3>1. next = [walk EXCEPT !.sold = Append(@, lot), !.left = @ - lot.units]
        BY <1>1, <1>4 DEF Tax!Consume
      <3> QED
        BY <3>1 DEF Walks
    <2>2. R = <<>>
      BY <1>4 DEF SoundWalk
    <2> HIDE DEF next
    <2>3. SoundWalk(next)
      BY <2>1, <2>2 DEF SoundWalk
    <2>4. \A l \in LotTypes : NotOlder(l, walk) /\ lot.acquired <= l.acquired => NotOlder(l, next)
      <3> HIDE DEF S, R
      <3> QED
        BY <1>1, <1>2, <2>1 DEF NotOlder, S
    <2> QED
      BY <2>3, <2>4 DEF next
  <1>5. CASE walk.left > 0 /\ ~(lot.units <= walk.left)
    <2> DEFINE taken == Tax!Taken(lot, walk.left)
               kept  == Tax!Kept(lot, walk.left)
    <2>0. /\ taken \in LotTypes /\ kept \in LotTypes
          /\ taken.acquired = lot.acquired /\ kept.acquired = lot.acquired
          /\ Tax!LotValid(kept)
      <3>1. walk.left \in Nat \ {0} /\ walk.left < lot.units
        BY <1>1, <1>5
      <3> QED
        BY <3>1, LotIsSplit
    <2>1. next = [sold |-> Append(S, taken), remaining |-> Append(R, kept), left |-> 0]
      BY <1>1, <1>5 DEF Tax!Consume
    <2>2. R = <<>>
      BY <1>5 DEF SoundWalk
    <2> HIDE DEF taken, kept, S
    <2>3. /\ next.sold = Append(S, taken) /\ next.remaining = <<kept>> /\ next.left = 0
      BY <2>1, <2>2
    <2> HIDE DEF next
    <2>4. \A l \in LotTypes : NotOlder(l, walk) /\ lot.acquired <= l.acquired => NotOlder(l, next)
      BY <1>1, <1>2, <2>0, <2>3 DEF NotOlder, S
    <2>5. NotOlder(lot, next)
      BY <1>1, <2>4
    <2>6. SoundWalk(next)
      <3>1. \A b \in DOMAIN next.remaining : next.remaining[b] = kept
        BY <2>3
      <3> QED
        BY <2>0, <2>3, <2>5, <3>1 DEF SoundWalk, NotOlder
    <2> QED
      BY <2>4, <2>6 DEF next
  <1> QED
    BY <1>1, <1>3, <1>4, <1>5

(* The whole walk, over lots from the oldest on.                                *)
LEMMA WalkKeeps ==
    ASSUME NEW s \in Seq(LotTypes), \A i \in DOMAIN s : Tax!LotValid(s[i]),
           \A j, k \in DOMAIN s : j < k => s[j].acquired <= s[k].acquired,
           NEW r \in [0 .. Len(s) -> Walks],
           r[0].sold = <<>>, r[0].remaining = <<>>,
           \A i \in 1 .. Len(s) : r[i] = Tax!Consume(r[i - 1], s[i])
    PROVE  /\ SoundWalk(r[Len(s)])
           /\ \A w \in Weights : SumOf(w, r[Len(s)].sold) + SumOf(w, r[Len(s)].remaining) = SumOf(w, s)
  <1> DEFINE n == Len(s)
             U == {i \in Nat : i <= n => /\ SoundWalk(r[i])
                                         /\ \A k \in (i + 1) .. n : NotOlder(s[k], r[i])}
  <1>1. n \in Nat /\ DOMAIN s = 1 .. n /\ \A i \in 1 .. n : s[i] \in LotTypes
    OBVIOUS
  <1> HIDE DEF n
  <1>2. 0 \in U
    BY <1>1 DEF SoundWalk, NotOlder
  <1>3. ASSUME NEW i \in U PROVE i + 1 \in U
    <2>0. i \in Nat
      OBVIOUS
    <2> SUFFICES ASSUME i + 1 <= n
                 PROVE  SoundWalk(r[i + 1]) /\ \A k \in (i + 2) .. n : NotOlder(s[k], r[i + 1])
      BY <2>0
    <2>1. /\ r[i] \in Walks /\ i + 1 \in 1 .. n /\ s[i + 1] \in LotTypes /\ Tax!LotValid(s[i + 1])
          /\ r[i + 1] = Tax!Consume(r[i], s[i + 1])
      <3>1. i \in 0 .. n /\ i + 1 \in 1 .. n /\ (i + 1) - 1 = i
        BY <2>0, <1>1
      <3> QED
        BY <1>1, <3>1 DEF n
    <2>2. SoundWalk(r[i]) /\ \A k \in (i + 1) .. n : NotOlder(s[k], r[i])
      BY <1>1, <2>0
    <2>3. NotOlder(s[i + 1], r[i])
      BY <2>0, <1>1, <2>2
    <2>4. /\ SoundWalk(r[i + 1])
          /\ \A l \in LotTypes : NotOlder(l, r[i]) /\ s[i + 1].acquired <= l.acquired =>
                 NotOlder(l, r[i + 1])
      BY <2>1, <2>2, <2>3, ConsumeKeeps
    <2>5. \A k \in (i + 2) .. n : NotOlder(s[k], r[i + 1])
      <3> TAKE k \in (i + 2) .. n
      <3>1. k \in 1 .. n /\ k \in (i + 1) .. n /\ i + 1 < k
        BY <1>1, <2>0
      <3>2. s[k] \in LotTypes /\ s[i + 1].acquired <= s[k].acquired
        BY <1>1, <2>1, <3>1
      <3> QED
        BY <2>2, <2>4, <3>1, <3>2
    <2> QED
      BY <2>4, <2>5
  <1>4. n \in U
    <2> HIDE DEF U
    <2>1. U \in SUBSET Nat
      BY DEF U
    <2> QED
      BY <1>1, <1>2, <1>3, <2>1, CountUp
  <1>5. SoundWalk(r[n])
    BY <1>1, <1>4
  <1>6. ASSUME NEW w \in Weights
        PROVE  SumOf(w, r[n].sold) + SumOf(w, r[n].remaining) = SumOf(w, s)
    <2> DEFINE q == [i \in 0 .. n |-> SumOf(w, r[i].sold) + SumOf(w, r[i].remaining)]
               g == [i \in DOMAIN s |-> w[s[i]]]
    <2>1. /\ w \in [LotTypes -> Int] /\ SumOf(w, <<>>) = 0
          /\ \A t \in Seq(LotTypes) : SumOf(w, t) \in Int
      BY WeightsAre, SumOfMore
    <2>2. \A i \in 0 .. n : r[i].sold \in Seq(LotTypes) /\ r[i].remaining \in Seq(LotTypes) /\ r[i] \in Walks
      BY DEF Walks, n
    <2>3. q \in [0 .. n -> Int] /\ q[0] = 0
      <3>1. \A i \in 0 .. n : SumOf(w, r[i].sold) + SumOf(w, r[i].remaining) \in Int
        BY <2>1, <2>2
      <3>2. 0 \in 0 .. n
        BY <1>1
      <3>3. SumOf(w, r[0].sold) + SumOf(w, r[0].remaining) = 0
        BY <2>1
      <3>4. q[0] = 0
        BY <3>2, <3>3
      <3> QED
        BY <3>1, <3>4
    <2>4. \A i \in 1 .. n : g[i] \in Int
      BY <1>1, <2>1
    <2>5. \A i \in 1 .. n : q[i] = q[i - 1] + g[i]
      <3> TAKE i \in 1 .. n
      <3>1. i - 1 \in 0 .. n /\ i \in 0 .. n
        BY <1>1
      <3>2. /\ r[i - 1] \in Walks /\ s[i] \in LotTypes /\ r[i] = Tax!Consume(r[i - 1], s[i])
        BY <1>1, <2>2, <3>1 DEF n
      <3>3. SumOf(w, r[i].sold) + SumOf(w, r[i].remaining)
              = SumOf(w, r[i - 1].sold) + SumOf(w, r[i - 1].remaining) + w[s[i]]
        BY <3>2, ConsumeCounts
      <3> QED
        BY <1>1, <3>1, <3>3
    <2>6. q[n] = SumOf(w, r[n].sold) + SumOf(w, r[n].remaining)
      BY <1>1
    <2> HIDE DEF q, g
    <2>7. q[n] = SumOn(g, 1 .. n)
      BY <1>1, <2>3, <2>4, <2>5, RunningSum
    <2>8. SumOf(w, s) = SumOn(g, 1 .. n)
      BY <1>1 DEF SumOf, g
    <2> QED
      BY <2>6, <2>7, <2>8
  <1> QED
    BY <1>5, <1>6 DEF n

(* What a sale that is possible does.                                            *)
SaleKeeps(lots, sale) ==
    /\ sale = [sold |-> sale.sold, remaining |-> sale.remaining]
    /\ sale.sold \in Seq(LotTypes) /\ sale.remaining \in Seq(LotTypes)
    /\ \A w \in Weights : SumOf(w, sale.sold) + SumOf(w, sale.remaining) = SumOf(w, lots)
    /\ \A a \in DOMAIN sale.sold, b \in DOMAIN sale.remaining :
          sale.sold[a].acquired <= sale.remaining[b].acquired
    /\ \A b \in DOMAIN sale.remaining : Tax!LotValid(sale.remaining[b])

LEMMA SaleConserves ==
    ASSUME NEW lots \in Seq(LotTypes), \A i \in DOMAIN lots : Tax!LotValid(lots[i]),
           NEW units \in Nat, Tax!ConsumeFifo(lots, units) # Refused
    PROVE  SaleKeeps(lots, Tax!ConsumeFifo(lots, units))
  <1> DEFINE base == [sold |-> <<>>, remaining |-> <<>>, left |-> units]
             s == Tax!FifoOrder(lots)
             walk == Tax!FoldLeft(Tax!Consume, base, s)
             sale == Tax!ConsumeFifo(lots, units)
  <1>1. sale = [sold |-> walk.sold, remaining |-> walk.remaining]
    BY DEF Tax!ConsumeFifo
  <1>2. base \in Walks /\ base.sold = <<>> /\ base.remaining = <<>>
    BY DEF Walks
  <1>3. PICK p \in [DOMAIN lots -> DOMAIN lots] :
              /\ s = [k \in DOMAIN lots |-> lots[p[k]]]
              /\ \A j, k \in DOMAIN lots : p[j] = p[k] => j = k
              /\ \A j, k \in DOMAIN lots : j < k => lots[p[j]].acquired <= lots[p[k]].acquired
    BY FifoSorts
  <1>4. /\ s \in Seq(LotTypes) /\ DOMAIN s = DOMAIN lots
        /\ \A i \in DOMAIN s : Tax!LotValid(s[i])
        /\ \A j, k \in DOMAIN s : j < k => s[j].acquired <= s[k].acquired
    <2> HIDE DEF s
    <2>1. DOMAIN lots = 1 .. Len(lots) /\ Len(lots) \in Nat /\ \A i \in DOMAIN lots : lots[i] \in LotTypes
      OBVIOUS
    <2>2. s \in [1 .. Len(lots) -> LotTypes]
      BY <1>3, <2>1
    <2>3. s \in Seq(LotTypes)
      BY <2>1, <2>2
    <2> QED
      BY <1>3, <2>3
  <1>5. \A w \in Weights : SumOf(w, s) = SumOf(w, lots)
    <2> HIDE DEF s
    <2> QED
      BY <1>3, WeightsAre, SumOfReordered
  <1> HIDE DEF base, s
  <1>6. PICK r \in [0 .. Len(s) -> Walks] :
              /\ r[0] = base /\ walk = r[Len(s)]
              /\ \A i \in 1 .. Len(s) : r[i] = Tax!Consume(r[i - 1], s[i])
    BY <1>2, <1>4, WalkSteps
  <1> HIDE DEF walk, sale
  <1>7. /\ SoundWalk(walk)
        /\ \A w \in Weights : SumOf(w, walk.sold) + SumOf(w, walk.remaining) = SumOf(w, s)
    BY <1>2, <1>4, <1>6, WalkKeeps
  <1>8. walk.sold \in Seq(LotTypes) /\ walk.remaining \in Seq(LotTypes)
    <2>1. walk \in Walks
      <3>1. Len(s) \in Nat
        BY <1>4
      <3> QED
        BY <1>6, <3>1
    <2> QED
      BY <2>1 DEF Walks
  <1>9. sale.sold = walk.sold /\ sale.remaining = walk.remaining
    BY <1>1
  <1>10. SaleKeeps(lots, sale)
    BY <1>1, <1>5, <1>7, <1>8, <1>9 DEF SaleKeeps, SoundWalk
  <1> QED
    BY <1>10 DEF sale

LEMMA LotsInit == MCInit => LotsInv
  <1> SUFFICES ASSUME MCInit, side = "lots" PROVE LotsInv
    BY DEF LotsInv
  <1>1. input = [lots |-> <<>>, sold |-> <<>>, sales |-> 0]
    BY DEF MCInit, Inputs
  <1> QED
    BY <1>1 DEF LotsInv

(* A purchase adds a lot.                                                        *)
LEMMA BuyKeeps ==
    ASSUME LotsInv, Buy
    PROVE  LotsInv' /\ input'.sales = input.sales
  <1>1. /\ side = "lots"
        /\ input = [lots |-> input.lots, sold |-> input.sold, sales |-> input.sales]
        /\ input.lots \in Seq(LotTypes) /\ input.sold \in Seq(LotTypes) /\ input.sales \in Nat
        /\ \A i \in DOMAIN input.lots : Tax!LotValid(input.lots[i])
    BY DEF Buy, LotsInv
  <1>2. PICK l \in Purchases : input' = [input EXCEPT !.lots = Append(@, l)]
    BY DEF Buy
  <1>3. l \in LotTypes /\ Tax!LotValid(l)
    BY LotsAssumption
  <1> DEFINE more == Append(input.lots, l)
  <1>4. input' = [lots |-> more, sold |-> input.sold, sales |-> input.sales]
    BY <1>1, <1>2
  <1>5. more \in Seq(LotTypes) /\ \A i \in DOMAIN more : Tax!LotValid(more[i])
    <2>1. PICK s \in Seq(LotTypes) : s = input.lots
      BY <1>1
    <2>2. \A i \in DOMAIN Append(s, l) : \/ i \in DOMAIN s /\ Append(s, l)[i] = s[i]
                                         \/ Append(s, l)[i] = l
      BY <1>3
    <2>3. Append(s, l) \in Seq(LotTypes)
      BY <1>3
    <2> QED
      BY <1>1, <1>3, <2>1, <2>2, <2>3
  <1> HIDE DEF more
  <1> QED
    BY <1>1, <1>4, <1>5 DEF LotsInv

(* A sale moves lots, or parts of them.                                           *)
LEMMA SellKeeps ==
    ASSUME LotsInv, Sell
    PROVE  /\ LotsInv'
           /\ \E sale : /\ SaleKeeps(input.lots, sale)
                        /\ input'.lots = sale.remaining /\ input'.sold = input.sold \o sale.sold
  <1>1. /\ side = "lots"
        /\ input.lots \in Seq(LotTypes) /\ input.sold \in Seq(LotTypes) /\ input.sales \in Nat
        /\ \A i \in DOMAIN input.lots : Tax!LotValid(input.lots[i])
    BY DEF Sell, LotsInv
  <1>2. PICK n \in 1 .. MaxSold :
            /\ Tax!ConsumeFifo(input.lots, n) # Refused
            /\ input' = [lots |-> Tax!ConsumeFifo(input.lots, n).remaining,
                         sold |-> input.sold \o Tax!ConsumeFifo(input.lots, n).sold,
                         sales |-> input.sales + 1]
    BY DEF Sell
  <1>3. PICK sale : sale = Tax!ConsumeFifo(input.lots, n)
    OBVIOUS
  <1>4. n \in Nat
    OBVIOUS
  <1>5. SaleKeeps(input.lots, sale)
    BY <1>1, <1>2, <1>3, <1>4, SaleConserves
  <1>6. input' = [lots |-> sale.remaining, sold |-> input.sold \o sale.sold, sales |-> input.sales + 1]
    BY <1>2, <1>3
  <1>7. input.sold \o sale.sold \in Seq(LotTypes) /\ sale.remaining \in Seq(LotTypes)
    <2>1. sale.sold \in Seq(LotTypes) /\ sale.remaining \in Seq(LotTypes)
      BY <1>5 DEF SaleKeeps
    <2>2. PICK s \in Seq(LotTypes), t \in Seq(LotTypes) : s = input.sold /\ t = sale.sold
      BY <1>1, <2>1
    <2>3. s \o t \in Seq(LotTypes)
      OBVIOUS
    <2> QED
      BY <2>1, <2>2, <2>3
  <1>8. LotsInv'
    <2>1. \A b \in DOMAIN sale.remaining : Tax!LotValid(sale.remaining[b])
      BY <1>5 DEF SaleKeeps
    <2> QED
      BY <1>1, <1>6, <1>7, <2>1 DEF LotsInv
  <1> QED
    BY <1>5, <1>6, <1>8

LEMMA LotsStep == LotsInv /\ [MCNext]_mcVars => LotsInv'
  <1> SUFFICES ASSUME LotsInv, [MCNext]_mcVars, side' = "lots" PROVE LotsInv'
    BY DEF LotsInv
  <1>1. side = "lots"
    BY DEF MCNext, mcVars
  <1>2. CASE Buy
    BY <1>2, BuyKeeps
  <1>3. CASE Sell
    BY <1>3, SellKeeps
  <1>4. CASE UNCHANGED input
    BY <1>1, <1>4 DEF LotsInv
  <1> QED
    BY <1>1, <1>2, <1>3, <1>4 DEF MCNext, mcVars, Ask, AddHolding, MoveGoal, AddKey, AddLeg, AddAsset,
                                  Fetch, AddSnapshot, AddRow

(* The sums the property is stated with.                                          *)
LEMMA LotSums ==
    ASSUME NEW s \in Seq(LotTypes)
    PROVE  /\ Tax!SumUnits(s) = SumOf(LotUnits, s)
           /\ Tax!SumOver(s, LAMBDA lot : lot.cost) = SumOf(LotCost, s)
           /\ Tax!SumOver(s, LAMBDA lot : IF lot.fmv = Null THEN 0 ELSE lot.fmv) = SumOf(LotFmv, s)
           /\ SumOf(LotUnits, s) \in Int
  <1>1. \A i \in DOMAIN s : s[i] \in LotTypes
    OBVIOUS
  <1>2. Tax!SumUnits(s) = SumOf(LotUnits, s)
    <2>1. [i \in DOMAIN s |-> s[i].units] = [i \in DOMAIN s |-> LotUnits[s[i]]]
      BY <1>1 DEF LotUnits
    <2> QED
      BY <2>1, SumOverIs, Zenon DEF SumOf
  <1>3. Tax!SumOver(s, LAMBDA lot : lot.cost) = SumOf(LotCost, s)
    <2>1. [i \in DOMAIN s |-> s[i].cost] = [i \in DOMAIN s |-> LotCost[s[i]]]
      BY <1>1 DEF LotCost
    <2> QED
      BY <2>1, SumOverIs, Zenon DEF SumOf
  <1>4. Tax!SumOver(s, LAMBDA lot : IF lot.fmv = Null THEN 0 ELSE lot.fmv) = SumOf(LotFmv, s)
    <2>1. [i \in DOMAIN s |-> IF s[i].fmv = Null THEN 0 ELSE s[i].fmv]
             = [i \in DOMAIN s |-> LotFmv[s[i]]]
      BY <1>1 DEF LotFmv
    <2> QED
      BY <2>1, SumOverIs, Zenon DEF SumOf
  <1>5. SumOf(LotUnits, s) \in Int
    BY WeightsAre, SumOfMore DEF Weights
  <1> QED
    BY <1>2, <1>3, <1>4, <1>5

LEMMA WhatIsNew ==
    ASSUME NEW s \in Seq(LotTypes), NEW t \in Seq(LotTypes)
    PROVE  SubSeq(s \o t, Len(s) + 1, Len(s \o t)) = t
  <1>1. /\ s \o t \in Seq(LotTypes) /\ Len(s \o t) = Len(s) + Len(t)
        /\ \A i \in 1 .. Len(t) : (s \o t)[Len(s) + i] = t[i]
        /\ Len(s) \in Nat /\ Len(t) \in Nat
    OBVIOUS
  <1> DEFINE u == SubSeq(s \o t, Len(s) + 1, Len(s \o t))
  <1>2. u = [i \in 1 .. Len(t) |-> (s \o t)[Len(s) + i]]
    OBVIOUS
  <1>3. t = [i \in 1 .. Len(t) |-> t[i]]
    OBVIOUS
  <1> HIDE DEF u
  <1> QED
    BY <1>1, <1>2, <1>3 DEF u

(* A sale loses nothing.                                                         *)
LEMMA SaleStep == LotsInv /\ [MCNext]_mcVars => [LosesNothing]_mcVars
  <1> SUFFICES ASSUME LotsInv, MCNext, side = "lots", input'.sales > input.sales
               PROVE  LosesNothing
    BY DEF LosesNothing
  <1>1. ~(input'.sales = input.sales)
    <2>1. input.sales \in Nat
      BY DEF LotsInv
    <2> QED
      BY <2>1
  <1>2. ~Buy
    BY <1>1, BuyKeeps
  <1>3. Sell
    BY <1>1, <1>2 DEF MCNext, Ask, AddHolding, MoveGoal, AddKey, AddLeg, AddAsset, Fetch,
                      AddSnapshot, AddRow
  <1>4. PICK sale : /\ SaleKeeps(input.lots, sale)
                    /\ input'.lots = sale.remaining /\ input'.sold = input.sold \o sale.sold
    BY <1>3, SellKeeps
  <1> DEFINE new == SubSeq(input'.sold, Len(input.sold) + 1, Len(input'.sold))
  <1>5. input.lots \in Seq(LotTypes) /\ input.sold \in Seq(LotTypes)
    BY DEF LotsInv
  <1>6. sale.sold \in Seq(LotTypes) /\ sale.remaining \in Seq(LotTypes)
    BY <1>4 DEF SaleKeeps
  <1>7. new = sale.sold
    <2>1. PICK s \in Seq(LotTypes), t \in Seq(LotTypes) : s = input.sold /\ t = sale.sold
      BY <1>5, <1>6
    <2>2. SubSeq(s \o t, Len(s) + 1, Len(s \o t)) = t
      BY WhatIsNew
    <2> QED
      BY <1>4, <2>1, <2>2
  <1> HIDE DEF new
  <1>8. \A w \in {LotUnits, LotCost, LotFmv} :
           SumOf(w, new) + SumOf(w, input'.lots) = SumOf(w, input.lots)
    BY <1>4, <1>7 DEF SaleKeeps, Weights
  <1>9. \A w \in {LotUnits, LotCost, LotFmv} : SumOf(w, new) \in Int /\ SumOf(w, input'.lots) \in Int
    <2>1. \A w \in Weights : \A s \in Seq(LotTypes) : SumOf(w, s) \in Int
      BY WeightsAre, SumOfMore
    <2> QED
      BY <1>4, <1>6, <1>7, <2>1 DEF Weights
  <1> DEFINE Cost(lots) == Tax!SumOver(lots, LAMBDA lot : lot.cost)
             Fmv(lots)  == Tax!SumOver(lots, LAMBDA lot : IF lot.fmv = Null THEN 0 ELSE lot.fmv)
  <1>10. \A s \in Seq(LotTypes) : /\ Tax!SumUnits(s) = SumOf(LotUnits, s)
                                  /\ Cost(s) = SumOf(LotCost, s) /\ Fmv(s) = SumOf(LotFmv, s)
    BY LotSums
  <1> HIDE DEF Cost, Fmv
  <1>11. Tax!LotsMatch(Tax!SumUnits(input.lots) - Tax!SumUnits(new), input'.lots)
    <2>1. Tax!SumUnits(input'.lots) = Tax!SumUnits(input.lots) - Tax!SumUnits(new)
      BY <1>4, <1>5, <1>6, <1>7, <1>8, <1>9, <1>10
    <2> QED
      BY <2>1 DEF Tax!LotsMatch
  <1>12. Cost(input'.lots) + Cost(new) = Cost(input.lots) /\ Fmv(input'.lots) + Fmv(new) = Fmv(input.lots)
    BY <1>4, <1>5, <1>6, <1>7, <1>8, <1>9, <1>10
  <1>13. \A i \in DOMAIN new, j \in DOMAIN input'.lots : new[i].acquired <= input'.lots[j].acquired
    BY <1>4, <1>7 DEF SaleKeeps
  <1>14. \A j \in DOMAIN input'.lots : Tax!LotValid(input'.lots[j])
    BY <1>4 DEF SaleKeeps
  <1> QED
    BY <1>11, <1>12, <1>13, <1>14 DEF LosesNothing, new, Cost, Fmv

LEMMA LotsInvariant == MCSpec => []LotsInv
  BY LotsInit, LotsStep, PTL DEF MCSpec

(* No sale loses units, cost or grandfathered value, for any lots.                  *)
LEMMA SalesConserveAlways == MCSpec => SalesConserve
  BY LotsInvariant, SaleStep, PTL DEF MCSpec, SalesConserve

------------------------------------------------------------------------------
(* Money: what came in and went out.                                         *)

(* What counts under a lens: each leg on its own, and each sound transfer.        *)
Singles(legs, range) ==
    {{l} : l \in {k \in DOMAIN legs : legs[k].transfer = Null
                                      /\ Sums!InRange(legs[k].date, range)}}

PairsOf(legs, range) ==
    {group \in Sums!GroupTransfers(legs) :
        /\ Sums!CheckPair(legs, group) = Null
        /\ \E l \in group : legs[l].kind = "out" /\ Sums!InRange(legs[l].date, range)}

Moves(legs, lens, range) ==
    Singles(legs, range) \cup IF lens = Household THEN {} ELSE PairsOf(legs, range)

SignedOf(legs, lens) == [l \in DOMAIN legs |-> Sums!Signed(legs[l], Accounts, lens)]

LegWorth(legs, lens) == [v \in SUBSET (DOMAIN legs) |-> SumOn(SignedOf(legs, lens), v)]

(* Legs there may be, of accounts there are.                                     *)
Booked(legs) ==
    /\ IsFiniteSet(DOMAIN legs)
    /\ \A l \in DOMAIN legs : /\ legs[l].amount \in Nat /\ legs[l].kind \in {"in", "out"}
                              /\ legs[l].account \in DOMAIN Accounts

LEMMA GroupsAre ==
    ASSUME NEW legs
    PROVE  /\ Sums!GroupTransfers(legs) \subseteq SUBSET (DOMAIN legs)
           /\ \A group \in Sums!GroupTransfers(legs) :
                 /\ \E l \in group : TRUE
                 /\ \A l \in group : /\ legs[l].transfer # Null
                                     /\ group = {k \in DOMAIN legs : legs[k].transfer = legs[l].transfer}
           /\ \A l \in DOMAIN legs : legs[l].transfer # Null =>
                 {k \in DOMAIN legs : legs[k].transfer = legs[l].transfer} \in Sums!GroupTransfers(legs)
  BY DEF Sums!GroupTransfers

LEMMA MovesAreFinite ==
    ASSUME NEW legs, IsFiniteSet(DOMAIN legs), NEW lens, NEW range
    PROVE  /\ Moves(legs, lens, range) \subseteq SUBSET (DOMAIN legs)
           /\ IsFiniteSet(Moves(legs, lens, range))
           /\ Singles(legs, range) \subseteq Moves(legs, lens, range)
           /\ Singles(legs, range) \cap PairsOf(legs, range) = {}
           /\ Singles(legs, range) \cup PairsOf(legs, range) \subseteq SUBSET (DOMAIN legs)
           /\ IsFiniteSet(Singles(legs, range) \cup PairsOf(legs, range))
  <1>1. Singles(legs, range) \subseteq SUBSET (DOMAIN legs)
    BY DEF Singles
  <1>2. PairsOf(legs, range) \subseteq SUBSET (DOMAIN legs)
    BY GroupsAre DEF PairsOf
  <1>3. IsFiniteSet(SUBSET (DOMAIN legs))
    BY FS_SUBSET
  <1>4. ASSUME NEW v \in Singles(legs, range) PROVE v \notin PairsOf(legs, range)
    <2>1. PICK l \in DOMAIN legs : v = {l} /\ legs[l].transfer = Null
      BY DEF Singles
    <2> QED
      BY <2>1, GroupsAre DEF PairsOf
  <1>5. Moves(legs, lens, range) \subseteq SUBSET (DOMAIN legs)
    BY <1>1, <1>2 DEF Moves
  <1>6. IsFiniteSet(Moves(legs, lens, range))
    BY <1>3, <1>5, FS_Subset
  <1>7. Singles(legs, range) \subseteq Moves(legs, lens, range)
    BY DEF Moves
  <1>8. /\ Singles(legs, range) \cup PairsOf(legs, range) \subseteq SUBSET (DOMAIN legs)
        /\ IsFiniteSet(Singles(legs, range) \cup PairsOf(legs, range))
    BY <1>1, <1>2, <1>3, FS_Subset
  <1> QED
    BY <1>4, <1>5, <1>6, <1>7, <1>8

LEMMA OwnersAreFinite == IsFiniteSet(Owners)
  <1>1. IsFiniteSet(DOMAIN Accounts) /\ \A a \in DOMAIN Accounts : IsFiniteSet(DOMAIN Accounts[a])
    BY LegsAssumption DEF Shared
  <1> DEFINE All(T) == UNION {DOMAIN Accounts[a] : a \in T}
             U == {T \in SUBSET (DOMAIN Accounts) : IsFiniteSet(All(T))}
  <1>2. {} \in U
    <2>1. All({}) = {}
      OBVIOUS
    <2> QED
      BY <2>1, FS_EmptySet
  <1>3. ASSUME NEW T \in U, NEW a \in DOMAIN Accounts PROVE T \cup {a} \in U
    <2>1. All(T \cup {a}) = All(T) \cup DOMAIN Accounts[a]
      OBVIOUS
    <2>2. IsFiniteSet(All(T)) /\ IsFiniteSet(DOMAIN Accounts[a])
      BY <1>1
    <2> HIDE DEF All
    <2>3. IsFiniteSet(All(T \cup {a}))
      BY <2>1, <2>2, FS_Union
    <2> QED
      BY <2>3
  <1> HIDE DEF U
  <1>4. DOMAIN Accounts \in U
    BY <1>1, <1>2, <1>3, BuildUp
  <1> QED
    BY <1>4 DEF U, Owners

(* A leg is worth its amount to the household, in parts to the owners.             *)
LEMMA LegsAreShared ==
    ASSUME NEW legs, Booked(legs), NEW l \in DOMAIN legs
    PROVE  /\ IsFiniteSet(Owners)
           /\ \A lens \in Owners \cup {Household} : SignedOf(legs, lens)[l] \in Int
           /\ SignedOf(legs, Household)[l]
                  = IF legs[l].kind = "in" THEN legs[l].amount ELSE -legs[l].amount
           /\ \A f : (\A m \in Owners : f[m] = SignedOf(legs, m)[l]) =>
                        SumOn(f, Owners) = SignedOf(legs, Household)[l]
  <1> DEFINE leg == legs[l]
             w == Accounts[leg.account]
             split == Sums!SplitByWeight(leg.amount, w)
  <1>1. leg.amount \in Nat /\ leg.kind \in {"in", "out"} /\ leg.account \in DOMAIN Accounts
    BY DEF Booked
  <1>2. Shared(w) /\ DOMAIN w \subseteq Owners /\ Household \notin Owners
    BY <1>1, LegsAssumption DEF Owners
  <1>3. IsFiniteSet(Owners)
    BY OwnersAreFinite
  <1>4. /\ \A k \in DOMAIN w : split[k] \in Nat
        /\ SumOn(split, DOMAIN w) = leg.amount
    BY <1>1, <1>2, SplitAddsUp
  <1>5. \A m \in Owners : Sums!LensAmount(leg.amount, w, m) = IF m \in DOMAIN w THEN split[m] ELSE 0
    BY <1>2 DEF Sums!LensAmount, Sums!OwnerSplit
  <1>6. Sums!LensAmount(leg.amount, w, Household) = leg.amount
    BY DEF Sums!LensAmount
  <1>7. \A lens : SignedOf(legs, lens)[l] = IF leg.kind = "in" THEN Sums!LensAmount(leg.amount, w, lens)
                                            ELSE -Sums!LensAmount(leg.amount, w, lens)
    BY <1>1 DEF SignedOf, Sums!Signed
  <1> HIDE DEF split, w
  <1>8. \A lens \in Owners \cup {Household} : SignedOf(legs, lens)[l] \in Int
    BY <1>1, <1>4, <1>5, <1>6, <1>7
  <1>9. SignedOf(legs, Household)[l] = IF leg.kind = "in" THEN leg.amount ELSE -leg.amount
    BY <1>6, <1>7
  <1>10. ASSUME NEW f, \A m \in Owners : f[m] = SignedOf(legs, m)[l]
         PROVE  SumOn(f, Owners) = SignedOf(legs, Household)[l]
    <2> DEFINE c == IF leg.kind = "in" THEN 1 ELSE -1
               g == [m \in Owners |-> IF m \in DOMAIN w THEN split[m] ELSE 0]
    <2>1. \A m \in Owners : g[m] \in Int /\ f[m] = c * g[m]
      BY <1>1, <1>4, <1>5, <1>7, <1>10
    <2>2. \A m \in DOMAIN w : g[m] = split[m] /\ split[m] \in Int
      BY <1>2, <1>4
    <2>3. \A m \in Owners \ DOMAIN w : g[m] = 0
      OBVIOUS
    <2>4. c \in Int
      OBVIOUS
    <2> HIDE DEF g, c
    <2>5. SumOn(g, Owners) = leg.amount
      BY <1>2, <1>3, <1>4, <2>2, <2>3, SumWhere
    <2>6. SumOn(f, Owners) = c * SumOn(g, Owners)
      BY <1>3, <2>1, <2>4, SumScale
    <2> QED
      BY <1>1, <1>9, <2>5, <2>6 DEF c
  <1> QED
    BY <1>3, <1>8, <1>9, <1>10

(* The figures, as sums over what counts.                                        *)
LEMMA ContributionsAre ==
    ASSUME NEW legs, Booked(legs), NEW lens \in Owners \cup {Household}, NEW range
    PROVE  LET moves == Moves(legs, lens, range)
               moved     == LegWorth(legs, lens)
           IN  /\ Sums!ContributionsOf(legs, Accounts, lens, range)
                     = [added     |-> SumOn(moved, {v \in moves : moved[v] > 0}),
                        withdrawn |-> -SumOn(moved, {v \in moves : moved[v] <= 0}),
                        net       |-> SumOn(moved, moves)]
               /\ \A v \in SUBSET (DOMAIN legs) : moved[v] \in Int
  <1> DEFINE moves == Moves(legs, lens, range)
             moved == LegWorth(legs, lens)
             Moved(move) == Sums!Total([l \in move |-> Sums!Signed(legs[l], Accounts, lens)])
             All(some)   == Sums!Total([v \in some |-> Moved(v)])
             sg == SignedOf(legs, lens)
  <1>1. IsFiniteSet(DOMAIN legs) /\ \A l \in DOMAIN legs : sg[l] \in Int
    BY LegsAreShared DEF Booked
  <1>2. ASSUME NEW v \in SUBSET (DOMAIN legs) PROVE Moved(v) = moved[v] /\ moved[v] \in Int
    <2> DEFINE f == [l \in v |-> Sums!Signed(legs[l], Accounts, lens)]
    <2>1. IsFiniteSet(v)
      BY <1>1, FS_Subset
    <2>2. \A l \in v : f[l] = sg[l] /\ f[l] \in Int
      BY <1>1 DEF SignedOf
    <2>3. Moved(v) = SumOn(f, v)
      <3>1. DOMAIN f = v
        OBVIOUS
      <3> HIDE DEF f
      <3>2. Sums!Total(f) = SumOn(f, v)
        BY <3>1, TotalIs
      <3> QED
        BY <3>2 DEF f
    <2>4. moved[v] = SumOn(sg, v)
      BY DEF LegWorth
    <2> HIDE DEF f, sg
    <2>5. SumOn(f, v) = SumOn(sg, v) /\ SumOn(f, v) \in Int
      BY <2>1, <2>2, SumSame
    <2> QED
      BY <2>3, <2>4, <2>5
  <1>3. moves \subseteq SUBSET (DOMAIN legs) /\ IsFiniteSet(moves)
    BY <1>1, MovesAreFinite
  <1>4. Sums!ContributionsOf(legs, Accounts, lens, range)
           = [added     |-> All({v \in moves : Moved(v) > 0}),
              withdrawn |-> -All({v \in moves : Moved(v) <= 0}),
              net       |-> All(moves)]
    BY DEF Sums!ContributionsOf, Moves, Singles, PairsOf
  <1> HIDE DEF moves, moved, Moved, sg
  <1>5. ASSUME NEW some \in SUBSET moves PROVE All(some) = SumOn(moved, some)
    <2> DEFINE f == [v \in some |-> Moved(v)]
    <2>1. IsFiniteSet(some) /\ DOMAIN f = some
      BY <1>3, FS_Subset
    <2>2. \A v \in some : f[v] = moved[v] /\ f[v] \in Int
      BY <1>2, <1>3
    <2>3. All(some) = Sums!Total(f)
      OBVIOUS
    <2> HIDE DEF f, All
    <2>4. Sums!Total(f) = SumOn(f, some)
      BY <2>1, TotalIs
    <2> QED
      BY <2>1, <2>2, <2>3, <2>4, SumSame
  <1> HIDE DEF All
  <1>6. /\ {v \in moves : Moved(v) > 0} = {v \in moves : moved[v] > 0}
        /\ {v \in moves : Moved(v) <= 0} = {v \in moves : moved[v] <= 0}
    BY <1>2, <1>3
  <1>7. /\ All({v \in moves : moved[v] > 0}) = SumOn(moved, {v \in moves : moved[v] > 0})
        /\ All({v \in moves : moved[v] <= 0}) = SumOn(moved, {v \in moves : moved[v] <= 0})
        /\ All(moves) = SumOn(moved, moves)
    BY <1>5
  <1>8. Sums!ContributionsOf(legs, Accounts, lens, range)
           = [added |-> SumOn(moved, {v \in moves : moved[v] > 0}),
              withdrawn |-> -SumOn(moved, {v \in moves : moved[v] <= 0}), net |-> SumOn(moved, moves)]
    BY <1>4, <1>6, <1>7, Zenon
  <1> QED
    BY <1>2, <1>8 DEF moves, moved

(* What came in less what went out is the change.                                  *)
LEMMA ChangeIsNet ==
    ASSUME NEW legs, Booked(legs), NEW lens \in Owners \cup {Household}, NEW range
    PROVE  LET figures == Sums!ContributionsOf(legs, Accounts, lens, range)
           IN  /\ figures.added >= 0 /\ figures.withdrawn >= 0
               /\ figures.net = figures.added - figures.withdrawn
               /\ figures.net = SumOn(LegWorth(legs, lens), Moves(legs, lens, range))
               /\ figures.net \in Int
  <1> DEFINE moves == Moves(legs, lens, range)
             moved == LegWorth(legs, lens)
             ups == {v \in moves : moved[v] > 0}
             downs == {v \in moves : moved[v] <= 0}
             figures == Sums!ContributionsOf(legs, Accounts, lens, range)
  <1>1. /\ figures = [added |-> SumOn(moved, ups), withdrawn |-> -SumOn(moved, downs), net |-> SumOn(moved, moves)]
        /\ \A v \in SUBSET (DOMAIN legs) : moved[v] \in Int
    BY ContributionsAre
  <1>2. moves \subseteq SUBSET (DOMAIN legs) /\ IsFiniteSet(moves)
    BY MovesAreFinite DEF Booked
  <1> HIDE DEF moves, moved, figures
  <1>3. \A v \in moves : moved[v] \in Int
    BY <1>1, <1>2
  <1>4. moves \cap ups = ups /\ moves \ ups = downs
    BY <1>3
  <1>5. /\ SumOn(moved, moves) = SumOn(moved, ups) + SumOn(moved, downs)
        /\ SumOn(moved, ups) \in Int /\ SumOn(moved, downs) \in Int
    <2> HIDE DEF ups, downs
    <2>1. /\ SumOn(moved, moves) = SumOn(moved, moves \cap ups) + SumOn(moved, moves \ ups)
          /\ SumOn(moved, moves \cap ups) \in Int /\ SumOn(moved, moves \ ups) \in Int
      BY <1>2, <1>3, SumSplit
    <2> QED
      BY <1>4, <2>1, Zenon
  <1> DEFINE nil == [v \in moves |-> 0]
  <1>6. SumOn(moved, ups) >= 0
    <2>1. IsFiniteSet(ups) /\ \A v \in ups : nil[v] = 0 /\ nil[v] \in Int /\ moved[v] \in Int /\ nil[v] <= moved[v]
      BY <1>2, <1>3, FS_Subset
    <2> HIDE DEF ups, nil
    <2>2. SumOn(nil, ups) = 0 /\ SumOn(nil, ups) <= SumOn(moved, ups)
      BY <2>1, SumNone, SumMono
    <2> QED
      BY <1>5, <2>2
  <1>7. SumOn(moved, downs) <= 0
    <2>1. IsFiniteSet(downs) /\ \A v \in downs : nil[v] = 0 /\ nil[v] \in Int /\ moved[v] \in Int /\ moved[v] <= nil[v]
      BY <1>2, <1>3, FS_Subset
    <2> HIDE DEF downs, nil
    <2>2. SumOn(nil, downs) = 0 /\ SumOn(moved, downs) <= SumOn(nil, downs)
      BY <2>1, SumNone, SumMono
    <2> QED
      BY <1>5, <2>2
  <1>8. /\ figures.added = SumOn(moved, ups) /\ figures.withdrawn = -SumOn(moved, downs)
        /\ figures.net = SumOn(moved, moves)
    BY <1>1
  <1> HIDE DEF ups, downs
  <1>9. /\ figures.added >= 0 /\ figures.withdrawn >= 0
        /\ figures.net = figures.added - figures.withdrawn
        /\ figures.net \in Int
    BY <1>5, <1>6, <1>7, <1>8
  <1> QED
    BY <1>8, <1>9 DEF figures, moved, moves

(* What each transfer or leg is worth to all owners together: to a household, a     *)
(* sound transfer is worth nothing.                                               *)
LEMMA WorthToAll ==
    ASSUME NEW legs, Booked(legs), NEW v \in SUBSET (DOMAIN legs),
           NEW f, \A m \in Owners : f[m] = LegWorth(legs, m)[v]
    PROVE  SumOn(f, Owners) = LegWorth(legs, Household)[v]
  <1> DEFINE F == [m \in Owners |-> SignedOf(legs, m)]
             G == [l \in v |-> [m \in Owners |-> SignedOf(legs, m)[l]]]
             H == SignedOf(legs, Household)
  <1>1. IsFiniteSet(v)
    BY FS_Subset DEF Booked
  <1>3. IsFiniteSet(Owners) /\ \A l \in v : \A m \in Owners : SignedOf(legs, m)[l] \in Int
    BY OwnersAreFinite, LegsAreShared
  <1>4. \A l \in v : SumOn(G[l], Owners) = H[l]
    <2> TAKE l \in v
    <2>1. \A m \in Owners : G[l][m] = SignedOf(legs, m)[l]
      OBVIOUS
    <2> HIDE DEF G, H
    <2> QED
      BY <2>1, LegsAreShared DEF H
  <1>5. \A m \in Owners : f[m] = SumOn(F[m], v)
    BY DEF LegWorth
  <1>6. TwoWays(Owners, v, F, G, f, H)
    BY <1>1, <1>3, <1>4, <1>5 DEF TwoWays
  <1> HIDE DEF F, G, H
  <1>7. SumOn(f, Owners) = SumOn(H, v)
    BY <1>6, SumSwap
  <1> QED
    BY <1>7 DEF LegWorth, H

LEMMA TransfersAreZero ==
    ASSUME NEW legs, Booked(legs), NEW range, NEW v \in PairsOf(legs, range)
    PROVE  LegWorth(legs, Household)[v] = 0
  <1> DEFINE H == SignedOf(legs, Household)
  <1>1. v \in SUBSET (DOMAIN legs) /\ Sums!CheckPair(legs, v) = Null
    BY GroupsAre DEF PairsOf
  <1>2. IsFiniteSet(v) /\ Cardinality(v) \in Nat
    BY <1>1, FS_Subset, FS_CardinalityType DEF Booked
  <1>3. Sums!Cardinality(v) = Cardinality(v)
    BY DEF Sums!Cardinality, Cardinality
  <1>4. /\ Cardinality(v) = 2
        /\ \A a, b \in v : a # b => legs[a].kind # legs[b].kind /\ legs[a].amount = legs[b].amount
    BY <1>1, <1>2, <1>3, LegsAssumption DEF Sums!CheckPair
  <1>5. PICK a \in v, b \in v : a # b /\ v = {a, b}
    <2>1. PICK a \in v : TRUE
      BY <1>2, <1>4, FS_EmptySet
    <2>2. IsFiniteSet(v \ {a}) /\ Cardinality(v \ {a}) = 1
      BY <1>2, <1>4, FS_RemoveElement
    <2>3. PICK b : v \ {a} = {b}
      BY <2>2, FS_Singleton
    <2> QED
      BY <2>1, <2>3
  <1>6. legs[a].kind # legs[b].kind /\ legs[a].amount = legs[b].amount
    BY <1>4, <1>5
  <1>7. /\ legs[a].kind \in {"in", "out"} /\ legs[b].kind \in {"in", "out"} /\ legs[a].amount \in Nat
        /\ H[a] = IF legs[a].kind = "in" THEN legs[a].amount ELSE -legs[a].amount
        /\ H[b] = IF legs[b].kind = "in" THEN legs[b].amount ELSE -legs[b].amount
    BY <1>1, LegsAreShared DEF Booked
  <1>8. H[a] + H[b] = 0 /\ H[a] \in Int /\ H[b] \in Int
    BY <1>6, <1>7
  <1>9. \A x \in v : H[x] \in Int
    BY <1>5, <1>8
  <1> HIDE DEF H
  <1>10. SumOn(H, v) = H[a] + SumOn(H, v \ {a})
    BY <1>2, <1>9, SumRemove
  <1>11. v \ {a} = {b}
    BY <1>5
  <1>12. SumOn(H, {b}) = H[b]
    BY <1>8, SumOne
  <1>13. SumOn(H, v) = H[a] + H[b]
    BY <1>10, <1>11, <1>12, Zenon
  <1> QED
    BY <1>1, <1>8, <1>13 DEF LegWorth, H

(* The members' changes add up to the household's.                                *)
LEMMA ChangesAddUp ==
    ASSUME NEW legs, Booked(legs), NEW range
    PROVE  Sums!ContributionsOf(legs, Accounts, Household, range).net
              = Sums!Total([m \in Owners |-> Sums!ContributionsOf(legs, Accounts, m, range).net])
  <1> DEFINE single == Singles(legs, range)
             linked == PairsOf(legs, range)
             all    == single \cup linked
             moved(lens) == LegWorth(legs, lens)
             Net(lens) == Sums!ContributionsOf(legs, Accounts, lens, range).net
             H == moved(Household)
             F == [m \in Owners |-> moved(m)]
             G == [v \in all |-> [m \in Owners |-> moved(m)[v]]]
             nets == [m \in Owners |-> Net(m)]
  <1>1. /\ IsFiniteSet(Owners) /\ Household \notin Owners
        /\ \A lens \in Owners \cup {Household} : \A v \in SUBSET (DOMAIN legs) : moved(lens)[v] \in Int
    BY OwnersAreFinite, LegsAssumption, ContributionsAre
  <1>2. \A lens : Moves(legs, lens, range) = IF lens = Household THEN single ELSE all
    BY DEF Moves
  <1>3. /\ all \subseteq SUBSET (DOMAIN legs) /\ IsFiniteSet(all)
        /\ single \cap linked = {}
    BY MovesAreFinite DEF Booked
  <1>4. \A lens \in Owners \cup {Household} : Net(lens) = SumOn(moved(lens), Moves(legs, lens, range))
                                              /\ Net(lens) \in Int
    BY ChangeIsNet
  <1>5. Net(Household) = SumOn(H, single)
    BY <1>2, <1>4
  <1>6. \A m \in Owners : nets[m] = SumOn(F[m], all) /\ nets[m] \in Int
    BY <1>1, <1>2, <1>4
  <1>7. \A v \in all : SumOn(G[v], Owners) = H[v]
    <2> TAKE v \in all
    <2>1. \A m \in Owners : G[v][m] = LegWorth(legs, m)[v]
      OBVIOUS
    <2>2. v \in SUBSET (DOMAIN legs)
      BY <1>3
    <2> HIDE DEF G, all
    <2> QED
      BY <2>1, <2>2, WorthToAll
  <1>8. TwoWays(Owners, all, F, G, nets, H)
    <2>1. \A m \in Owners : \A v \in all : F[m][v] \in Int /\ G[v][m] = F[m][v]
      BY <1>1, <1>3
    <2> HIDE DEF F, G, H, nets, all
    <2> QED
      BY <1>1, <1>3, <1>6, <1>7, <2>1 DEF TwoWays
  <1>9. \A v \in linked : H[v] = 0
    BY TransfersAreZero
  <1>10. \A v \in all : H[v] \in Int
    BY <1>1, <1>3
  <1>11. single \subseteq all /\ \A v \in all \ single : H[v] = 0
    BY <1>9
  <1> HIDE DEF F, G, H, all, single, linked, nets
  <1>12. SumOn(nets, Owners) = SumOn(H, all)
    BY <1>8, SumSwap
  <1>13. SumOn(H, all) = SumOn(H, single)
    <2>1. single \in SUBSET all /\ \A x \in single : H[x] = H[x] /\ H[x] \in Int
      BY <1>10, <1>11
    <2> QED
      BY <1>3, <1>11, <2>1, SumWhere
  <1>14. Sums!Total(nets) = SumOn(nets, Owners)
    <2>1. DOMAIN nets = Owners
      BY DEF nets
    <2> QED
      BY <2>1, TotalIs
  <1>15. Net(Household) = Sums!Total(nets)
    BY <1>5, <1>12, <1>13, <1>14
  <1> QED
    BY <1>15 DEF nets

(* The legs of a transfer that is told count nowhere: without them nothing changes.  *)
LEMMA ToldCountNowhere ==
    ASSUME NEW legs, Booked(legs), NEW lens \in Owners \cup {Household}, NEW range
    PROVE  LET told  == {issue.transfer : issue \in Sums!TransferIssues(legs)}
               sound == [l \in {k \in DOMAIN legs : legs[k].transfer \notin told} |-> legs[l]]
           IN  Sums!ContributionsOf(legs, Accounts, lens, range)
                  = Sums!ContributionsOf(sound, Accounts, lens, range)
  <1> DEFINE told  == {issue.transfer : issue \in Sums!TransferIssues(legs)}
             D     == {k \in DOMAIN legs : legs[k].transfer \notin told}
             sound == [l \in D |-> legs[l]]
             Group(id) == {k \in DOMAIN legs : legs[k].transfer = id}
  <1>1. \A id : id \in told <=>
           \E group \in Sums!GroupTransfers(legs) :
              Sums!CheckPair(legs, group) # Null /\ id = legs[Some(group)].transfer
    <2> DEFINE Issue(group) == [transfer |-> legs[Some(group)].transfer,
                                problem |-> Sums!CheckPair(legs, group)]
               told2 == {issue.transfer : issue \in {Issue(group) : group \in
                            {h \in Sums!GroupTransfers(legs) : Sums!CheckPair(legs, h) # Null}}}
    <2>1. told = told2
      BY DEF Sums!TransferIssues, Some
    <2>2. \A group : Issue(group).transfer = legs[Some(group)].transfer
      OBVIOUS
    <2> HIDE DEF Issue, told
    <2>3. \A id : id \in told2 <=> \E group \in Sums!GroupTransfers(legs) :
              Sums!CheckPair(legs, group) # Null /\ id = Issue(group).transfer
      OBVIOUS
    <2> HIDE DEF told2
    <2> QED
      BY <2>1, <2>2, <2>3
  <1>2. \A group \in Sums!GroupTransfers(legs) :
           /\ \A l \in group : l \in DOMAIN legs /\ group = Group(legs[l].transfer)
           /\ Some(group) \in group
    <2> TAKE group \in Sums!GroupTransfers(legs)
    <2>1. \E l \in group : TRUE
      BY GroupsAre
    <2>2. Some(group) \in group
      BY <2>1 DEF Some
    <2> QED
      BY <2>2, GroupsAre
  <1>3. \A group \in Sums!GroupTransfers(legs) : \A l \in group :
           legs[l].transfer \in told <=> Sums!CheckPair(legs, group) # Null
    <2> TAKE group \in Sums!GroupTransfers(legs)
    <2> TAKE l \in group
    <2> HIDE DEF told
    <2>1. ASSUME legs[l].transfer \in told PROVE Sums!CheckPair(legs, group) # Null
      <3>1. PICK other \in Sums!GroupTransfers(legs) :
               /\ Sums!CheckPair(legs, other) # Null
               /\ legs[l].transfer = legs[Some(other)].transfer
        BY <1>1, <2>1
      <3>2. other = group
        BY <1>2, <3>1
      <3> QED
        BY <3>1, <3>2
    <2>2. ASSUME Sums!CheckPair(legs, group) # Null PROVE legs[l].transfer \in told
      <3>1. legs[Some(group)].transfer = legs[l].transfer
        <4>1. Some(group) \in group /\ group = Group(legs[l].transfer)
          BY <1>2
        <4> QED
          BY <4>1
      <3> QED
        BY <1>1, <2>2, <3>1
    <2> QED
      BY <2>1, <2>2
  <1>4. Null \notin told
    <2> SUFFICES ASSUME Null \in told PROVE FALSE
      OBVIOUS
    <2> HIDE DEF told
    <2>1. PICK group \in Sums!GroupTransfers(legs) : Null = legs[Some(group)].transfer
      BY <1>1
    <2> QED
      BY <1>2, <2>1, GroupsAre
  <1> HIDE DEF told
  <1>5. /\ DOMAIN sound = D /\ D \subseteq DOMAIN legs
        /\ \A l \in D : sound[l] = legs[l]
    OBVIOUS
  <1>6. Booked(sound)
    BY <1>5, FS_Subset DEF Booked
  <1>7. Singles(sound, range) = Singles(legs, range)
    <2>1. \A k : (k \in DOMAIN sound /\ sound[k].transfer = Null) <=> (k \in DOMAIN legs /\ legs[k].transfer = Null)
      BY <1>4, <1>5
    <2>2. \A k \in DOMAIN sound : sound[k].date = legs[k].date
      BY <1>5
    <2> HIDE DEF sound
    <2>3. {k \in DOMAIN sound : sound[k].transfer = Null /\ Sums!InRange(sound[k].date, range)}
             = {k \in DOMAIN legs : legs[k].transfer = Null /\ Sums!InRange(legs[k].date, range)}
      BY <2>1, <2>2
    <2> QED
      BY <2>3, Zenon DEF Singles
  <1>8. \A id : id \notin told => {k \in DOMAIN sound : sound[k].transfer = id} = Group(id)
    BY <1>5
  <1>9. \A group : group \in Sums!GroupTransfers(sound) <=>
           group \in Sums!GroupTransfers(legs) /\ Sums!CheckPair(legs, group) = Null
    <2> TAKE group
    <2>1. ASSUME group \in Sums!GroupTransfers(sound)
          PROVE  group \in Sums!GroupTransfers(legs) /\ Sums!CheckPair(legs, group) = Null
      <3>1. PICK l \in group : l \in DOMAIN sound /\ sound[l].transfer # Null
                               /\ group = {k \in DOMAIN sound : sound[k].transfer = sound[l].transfer}
        BY <2>1, GroupsAre
      <3>2. l \in D /\ sound[l].transfer = legs[l].transfer /\ legs[l].transfer \notin told
        BY <1>5, <3>1
      <3>3. group = Group(legs[l].transfer)
        BY <1>8, <3>1, <3>2
      <3>4. group \in Sums!GroupTransfers(legs)
        <4>1. l \in DOMAIN legs /\ legs[l].transfer # Null
          BY <1>5, <3>1, <3>2
        <4>2. {k \in DOMAIN legs : legs[k].transfer = legs[l].transfer} \in Sums!GroupTransfers(legs)
          BY <4>1, GroupsAre
        <4> QED
          BY <3>3, <4>2, Zenon
      <3> QED
        BY <1>3, <3>2, <3>4
    <2>2. ASSUME group \in Sums!GroupTransfers(legs), Sums!CheckPair(legs, group) = Null
          PROVE  group \in Sums!GroupTransfers(sound)
      <3>1. PICK l \in group : l \in DOMAIN legs /\ legs[l].transfer # Null
                               /\ group = Group(legs[l].transfer)
        BY <1>2, <2>2, GroupsAre
      <3>2. legs[l].transfer \notin told
        BY <1>3, <2>2
      <3>3. l \in D /\ sound[l].transfer = legs[l].transfer
        BY <1>5, <3>1, <3>2
      <3>4. group = {k \in DOMAIN sound : sound[k].transfer = sound[l].transfer}
        BY <1>8, <3>1, <3>2, <3>3
      <3> HIDE DEF sound, D
      <3> QED
        BY <1>5, <3>1, <3>3, <3>4, GroupsAre
    <2> QED
      BY <2>1, <2>2
  <1>10. ASSUME NEW group \in Sums!GroupTransfers(sound)
         PROVE  /\ Sums!CheckPair(sound, group) = Sums!CheckPair(legs, group)
                /\ \A l \in group : sound[l] = legs[l]
    <2>1. \A l \in group : sound[l] = legs[l]
      BY <1>5, GroupsAre
    <2> HIDE DEF sound
    <2> QED
      BY <2>1 DEF Sums!CheckPair
  <1>11. PairsOf(sound, range) = PairsOf(legs, range)
    <2>1. \A group : group \in PairsOf(sound, range) <=> group \in PairsOf(legs, range)
      <3> HIDE DEF sound
      <3> QED
        BY <1>9, <1>10 DEF PairsOf
    <2> QED
      BY <2>1
  <1>12. Moves(sound, lens, range) = Moves(legs, lens, range)
    BY <1>7, <1>11, Zenon DEF Moves
  <1>13. \A v \in Moves(legs, lens, range) : LegWorth(sound, lens)[v] = LegWorth(legs, lens)[v]
    <2> TAKE v \in Moves(legs, lens, range)
    <2>1. v \in SUBSET (DOMAIN legs) /\ v \in SUBSET (DOMAIN sound)
      BY <1>6, <1>12, MovesAreFinite DEF Booked
    <2>2. IsFiniteSet(v)
      BY <2>1, FS_Subset DEF Booked
    <2>3. \A l \in v : SignedOf(sound, lens)[l] = SignedOf(legs, lens)[l] /\ SignedOf(sound, lens)[l] \in Int
      <3>1. \A l \in v : l \in DOMAIN sound /\ l \in DOMAIN legs /\ sound[l] = legs[l]
        BY <1>5, <2>1
      <3> HIDE DEF sound
      <3> QED
        BY <1>6, <3>1, LegsAreShared DEF SignedOf
    <2> HIDE DEF sound
    <2>4. SumOn(SignedOf(sound, lens), v) = SumOn(SignedOf(legs, lens), v)
      BY <2>2, <2>3, SumSame
    <2> QED
      BY <2>1, <2>4 DEF LegWorth
  <1> DEFINE moves == Moves(legs, lens, range)
             moved == LegWorth(legs, lens)
             V == LegWorth(sound, lens)
  <1> HIDE DEF sound, D
  <1>14. /\ Sums!ContributionsOf(legs, Accounts, lens, range)
              = [added |-> SumOn(moved, {v \in moves : moved[v] > 0}),
                 withdrawn |-> -SumOn(moved, {v \in moves : moved[v] <= 0}), net |-> SumOn(moved, moves)]
         /\ \A v \in SUBSET (DOMAIN legs) : moved[v] \in Int
    BY ContributionsAre
  <1>15. Sums!ContributionsOf(sound, Accounts, lens, range)
              = [added |-> SumOn(V, {v \in moves : V[v] > 0}),
                 withdrawn |-> -SumOn(V, {v \in moves : V[v] <= 0}), net |-> SumOn(V, moves)]
    <2>1. Sums!ContributionsOf(sound, Accounts, lens, range)
              = [added |-> SumOn(V, {v \in Moves(sound, lens, range) : V[v] > 0}),
                 withdrawn |-> -SumOn(V, {v \in Moves(sound, lens, range) : V[v] <= 0}),
                 net |-> SumOn(V, Moves(sound, lens, range))]
      BY <1>6, ContributionsAre
    <2> QED
      BY <1>12, <2>1, Zenon
  <1>16. moves \subseteq SUBSET (DOMAIN legs) /\ IsFiniteSet(moves)
    BY MovesAreFinite DEF Booked
  <1>17. \A v \in moves : V[v] = moved[v] /\ V[v] \in Int
    BY <1>13, <1>14, <1>16
  <1> HIDE DEF moves, moved, V
  <1>18. /\ {v \in moves : V[v] > 0} = {v \in moves : moved[v] > 0}
         /\ {v \in moves : V[v] <= 0} = {v \in moves : moved[v] <= 0}
    BY <1>17
  <1>19. \A some \in SUBSET moves : SumOn(V, some) = SumOn(moved, some)
    <2> TAKE some \in SUBSET moves
    <2>1. IsFiniteSet(some) /\ \A v \in some : V[v] = moved[v] /\ V[v] \in Int
      BY <1>16, <1>17, FS_Subset
    <2> QED
      BY <2>1, SumSame
  <1>20. Sums!ContributionsOf(sound, Accounts, lens, range)
              = [added |-> SumOn(moved, {v \in moves : moved[v] > 0}),
                 withdrawn |-> -SumOn(moved, {v \in moves : moved[v] <= 0}), net |-> SumOn(moved, moves)]
    <2>1. /\ SumOn(V, {v \in moves : moved[v] > 0}) = SumOn(moved, {v \in moves : moved[v] > 0})
          /\ SumOn(V, {v \in moves : moved[v] <= 0}) = SumOn(moved, {v \in moves : moved[v] <= 0})
          /\ SumOn(V, moves) = SumOn(moved, moves)
      BY <1>19
    <2> QED
      BY <1>15, <1>18, <2>1, Zenon
  <1>21. Sums!ContributionsOf(legs, Accounts, lens, range)
            = Sums!ContributionsOf(sound, Accounts, lens, range)
    BY <1>14, <1>20, Zenon
  <1> QED
    BY <1>21 DEF sound, D, told

LEMMA LegsInit == MCInit => LegsInv
  <1> SUFFICES ASSUME MCInit, side = "legs" PROVE LegsInv
    BY DEF LegsInv
  <1>1. input = <<>>
    BY DEF MCInit, Inputs
  <1> QED
    BY <1>1 DEF LegsInv

LEMMA LegsStep == LegsInv /\ [MCNext]_mcVars => LegsInv'
  <1> SUFFICES ASSUME LegsInv, [MCNext]_mcVars, side' = "legs" PROVE LegsInv'
    BY DEF LegsInv
  <1>1. side = "legs" /\ input \in Seq(Legs)
    BY DEF MCNext, mcVars, LegsInv
  <1>2. CASE AddLeg
    <2>1. PICK l \in Legs : input' = Append(input, l)
      BY <1>2 DEF AddLeg
    <2> QED
      BY <1>1, <2>1 DEF LegsInv
  <1>3. CASE UNCHANGED input
    BY <1>1, <1>3 DEF LegsInv
  <1> QED
    BY <1>1, <1>2, <1>3 DEF MCNext, mcVars, Ask, AddHolding, MoveGoal, AddKey, Buy, Sell, AddAsset,
                            Fetch, AddSnapshot, AddRow

(* Every leg of an account that is here is counted once.                          *)
LEMMA LegsAgree == LegsInv => ContributionsAddUp
  <1> SUFFICES ASSUME LegsInv, side = "legs",
                      \A i \in DOMAIN input : input[i].account \in DOMAIN Accounts,
                      NEW range \in Ranges
               PROVE  LET Of(lens) == Sums!ContributionsOf(input, Accounts, lens, range)
                          told     == {issue.transfer : issue \in Sums!TransferIssues(input)}
                          sound    == [l \in {k \in DOMAIN input : input[k].transfer \notin told} |-> input[l]]
                      IN  /\ Of(Household).net = Sums!Total([m \in Owners |-> Of(m).net])
                          /\ \A lens \in Owners \cup {Household} :
                                /\ Of(lens).added >= 0 /\ Of(lens).withdrawn >= 0
                                /\ Of(lens).net = Of(lens).added - Of(lens).withdrawn
                                /\ Of(lens) = Sums!ContributionsOf(sound, Accounts, lens, range)
    BY DEF ContributionsAddUp
  <1>1. PICK legs : legs = input
    OBVIOUS
  <1>2. Booked(legs)
    <2>1. legs \in Seq(Legs)
      BY <1>1 DEF LegsInv
    <2>2. DOMAIN legs = 1 .. Len(legs) /\ Len(legs) \in Nat /\ \A l \in DOMAIN legs : legs[l] \in Legs
      BY <2>1
    <2>3. IsFiniteSet(DOMAIN legs)
      BY <2>2, FS_Interval, 1 \in Int, Len(legs) \in Int
    <2>4. \A l \in DOMAIN legs : legs[l].amount \in Nat /\ legs[l].kind \in {"in", "out"}
      BY <2>2, LegsAssumption
    <2>5. \A l \in DOMAIN legs : legs[l].account \in DOMAIN Accounts
      BY <1>1
    <2> QED
      BY <2>3, <2>4, <2>5 DEF Booked
  <1> QED
    BY <1>1, <1>2, ChangesAddUp, ChangeIsNet, ToldCountNowhere

LEMMA ContributionsAddUpAlways == MCSpec => []ContributionsAddUp
  <1>1. MCSpec => []LegsInv
    BY LegsInit, LegsStep, PTL DEF MCSpec
  <1> QED
    BY <1>1, LegsAgree, PTL

------------------------------------------------------------------------------
(* Valuation: what assets are worth, and the snapshot of a day.                *)

(* The operators of the two instances that share Money are the same ones.          *)
LEMMA WorthTotal == \A f : Worth!Total(f) = Sums!Total(f)
  BY DEF Worth!Total, Sums!Total, Worth!MapThenSumSet, Sums!MapThenSumSet, Worth!MapThenFoldSet,
         Sums!MapThenFoldSet

LEMMA WorthSplit == \A amount, w : Worth!SplitByWeight(amount, w) = Sums!SplitByWeight(amount, w)
  BY DEF Worth!SplitByWeight, Sums!SplitByWeight, Worth!Total, Sums!Total, Worth!MapThenSumSet,
         Sums!MapThenSumSet, Worth!MapThenFoldSet, Sums!MapThenFoldSet, Worth!Cardinality,
         Sums!Cardinality

LEMMA WorthTotals == \A items, amount : Worth!Totals(items, amount) = Sums!Totals(items, amount)
  BY WorthTotal DEF Worth!Totals, Sums!Totals

LEMMA WorthLenses == \A items, M : Worth!AllLenses(items, M) = Sums!AllLenses(items, M)
  <1>1. \A amount, w : Worth!OwnerSplit(amount, w) = Sums!OwnerSplit(amount, w)
    BY WorthSplit DEF Worth!OwnerSplit, Sums!OwnerSplit
  <1> TAKE items, M
  <1>2. \A amount : Worth!Totals(items, amount) = Sums!Totals(items, amount)
    BY WorthTotals
  <1>3. \A i, who : Worth!Total([m \in DOMAIN items[i].owners \cap who |->
                                   Worth!OwnerSplit(items[i].value, items[i].owners)[m]])
                   = Sums!Total([m \in DOMAIN items[i].owners \cap who |->
                                   Sums!OwnerSplit(items[i].value, items[i].owners)[m]])
    BY <1>1, WorthTotal
  <1> QED
    BY <1>2, <1>3 DEF Worth!AllLenses, Sums!AllLenses

(* Sums by group make up the whole.                                              *)
LEMMA SumParts ==
    ASSUME NEW S, IsFiniteSet(S), NEW f, \A x \in S : f[x] \in Int,
           NEW k, NEW sums, \A x \in S : sums[k[x]] = SumOn(f, {y \in S : k[y] = k[x]})
    PROVE  SumOn(sums, {k[x] : x \in S}) = SumOn(f, S) /\ IsFiniteSet({k[x] : x \in S})
  <1> DEFINE K == {k[x] : x \in S}
             F == [b \in K |-> [x \in S |-> IF k[x] = b THEN f[x] ELSE 0]]
             G == [x \in S |-> [b \in K |-> IF k[x] = b THEN f[x] ELSE 0]]
  <1>1. IsFiniteSet(K)
    <2> DEFINE Image(T) == {k[x] : x \in T}
               U == {T \in SUBSET S : IsFiniteSet(Image(T))}
    <2>1. {} \in U
      <3>1. Image({}) = {}
        OBVIOUS
      <3> QED
        BY <3>1, FS_EmptySet
    <2>2. ASSUME NEW T \in U, NEW x \in S PROVE T \cup {x} \in U
      <3>1. Image(T \cup {x}) = Image(T) \cup {k[x]} /\ IsFiniteSet(Image(T))
        OBVIOUS
      <3> HIDE DEF Image
      <3>2. IsFiniteSet(Image(T) \cup {k[x]})
        BY <3>1, FS_AddElement
      <3>3. IsFiniteSet(Image(T \cup {x}))
        BY <3>1, <3>2, Zenon
      <3> QED
        BY <3>3
    <2> HIDE DEF U
    <2>3. S \in U
      BY <2>1, <2>2, BuildUp
    <2> QED
      BY <2>3 DEF U
  <1>2. \A b \in K : sums[b] = SumOn(F[b], S)
    <2> TAKE b \in K
    <2>1. PICK z \in S : b = k[z]
      OBVIOUS
    <2> DEFINE R == {y \in S : k[y] = b}
    <2>2. sums[b] = SumOn(f, R)
      BY <2>1
    <2>3. /\ \A x \in R : F[b][x] = f[x] /\ f[x] \in Int
          /\ \A x \in S \ R : F[b][x] = 0
          /\ R \in SUBSET S
      OBVIOUS
    <2> HIDE DEF R, F, K
    <2> QED
      BY <2>2, <2>3, SumWhere
  <1>3. \A x \in S : SumOn(G[x], K) = f[x]
    <2> TAKE x \in S
    <2> DEFINE h == G[x]
               b0 == k[x]
    <2>1. /\ b0 \in K /\ {b0} \in SUBSET K
          /\ \A b \in {b0} : h[b] = h[b] /\ h[b] \in Int
          /\ \A b \in K \ {b0} : h[b] = 0
          /\ h[b0] = f[x] /\ f[x] \in Int
      OBVIOUS
    <2> HIDE DEF h, b0, K
    <2>2. SumOn(h, K) = SumOn(h, {b0})
      BY <1>1, <2>1, SumWhere
    <2>3. SumOn(h, {b0}) = h[b0]
      BY <2>1, SumOne
    <2> QED
      BY <2>1, <2>2, <2>3 DEF h
  <1>4. TwoWays(K, S, F, G, sums, f)
    <2>1. \A b \in K : \A x \in S : F[b][x] \in Int /\ G[x][b] = F[b][x]
      OBVIOUS
    <2>2. \A x \in S : f[x] = SumOn(G[x], K)
      BY <1>3
    <2> HIDE DEF K, F, G
    <2> QED
      BY <1>1, <1>2, <2>1, <2>2 DEF TwoWays
  <1> HIDE DEF K, F, G
  <1>5. SumOn(sums, K) = SumOn(f, S)
    BY <1>4, SumSwap
  <1> QED
    BY <1>1, <1>5 DEF K

SoundLists(lists) == \A s \in DOMAIN lists : SoundList(lists[s])

(* A product of prices is rounded to an amount.                                    *)
LEMMA RoundedIsNat == \A n \in Nat, d \in Nat \ {0} : Worth!RoundHalfUp(n, d) \in Nat
  <1> SUFFICES ASSUME NEW n \in Nat, NEW d \in Nat \ {0} PROVE (2 * n + d) \div (2 * d) \in Nat
    BY DEF Worth!RoundHalfUp
  <1>1. 2 * n + d \in Nat /\ 2 * d \in Nat \ {0}
    OBVIOUS
  <1>2. PICK a \in Nat, b \in Nat \ {0} : a = 2 * n + d /\ b = 2 * d
    BY <1>1
  <1>3. a \div b \in Nat
    BY Division
  <1> QED
    BY <1>2, <1>3

LEMMA TimesIsNat == /\ \A a, b \in Nat : a * b \in Nat
                    /\ \A a, b \in Nat \ {0} : a * b \in Nat \ {0}
  OBVIOUS

LEMMA AmountsAreNat ==
    /\ \A quantity, price, fx \in Nat : Worth!MarketValue(quantity, price, fx) \in Nat \cup {Null}
    /\ \A weight, karat, perGram \in Nat : Worth!MetalValue(weight, karat, perGram) \in Nat \cup {Null}
    /\ \A minor \in Nat : (minor * UnitScale) \div 100 \in Nat
  <1>0. UnitScale \in Nat \ {0} /\ PriceScale \in Nat \ {0}
    BY ValuesAssumption
  <1>1. ASSUME NEW quantity \in Nat, NEW price \in Nat, NEW fx \in Nat
        PROVE  Worth!MarketValue(quantity, price, fx) \in Nat \cup {Null}
    <2>1. PICK n \in Nat : n = 100 * quantity * price * fx
      <3>1. 100 * quantity \in Nat
        OBVIOUS
      <3>2. 100 * quantity * price \in Nat
        BY <3>1, TimesIsNat
      <3>3. 100 * quantity * price * fx \in Nat
        BY <3>2, TimesIsNat
      <3> QED
        BY <3>3
    <2>2. PICK d \in Nat \ {0} : d = UnitScale * PriceScale * PriceScale
      <3>1. UnitScale * PriceScale \in Nat \ {0}
        BY <1>0, TimesIsNat
      <3>2. UnitScale * PriceScale * PriceScale \in Nat \ {0}
        BY <1>0, <3>1, TimesIsNat
      <3> QED
        BY <3>2
    <2>3. Worth!RoundHalfUp(n, d) \in Nat
      BY RoundedIsNat
    <2>4. Worth!MarketValue(quantity, price, fx) = Worth!Safe(Worth!RoundHalfUp(n, d))
      BY <2>1, <2>2 DEF Worth!MarketValue
    <2> QED
      BY <2>3, <2>4 DEF Worth!Safe
  <1>2. ASSUME NEW weight \in Nat, NEW karat \in Nat, NEW perGram \in Nat
        PROVE  Worth!MetalValue(weight, karat, perGram) \in Nat \cup {Null}
    <2>1. PICK n \in Nat : n = weight * karat * perGram
      <3>1. weight * karat \in Nat
        BY TimesIsNat
      <3>2. weight * karat * perGram \in Nat
        BY <3>1, TimesIsNat
      <3> QED
        BY <3>2
    <2>2. PICK d \in Nat \ {0} : d = 240 * PriceScale
      BY <1>0
    <2>3. Worth!RoundHalfUp(n, d) \in Nat
      BY RoundedIsNat
    <2>4. Worth!MetalValue(weight, karat, perGram) = Worth!Safe(Worth!RoundHalfUp(n, d))
      BY <2>1, <2>2 DEF Worth!MetalValue
    <2> QED
      BY <2>3, <2>4 DEF Worth!Safe
  <1>3. ASSUME NEW minor \in Nat PROVE (minor * UnitScale) \div 100 \in Nat
    <2>1. PICK n \in Nat : n = minor * UnitScale
      BY <1>0, TimesIsNat
    <2>2. n \div 100 \in Nat
      OBVIOUS
    <2> QED
      BY <2>1, <2>2
  <1> QED
    BY <1>1, <1>2, <1>3

(* What a valuation may be.                                                       *)
ValuationIs(v) ==
    /\ v.value \in Nat
    /\ v.source = "market" => v.asOf \in Int

LEMMA ManualIs ==
    ASSUME NEW a, SoundAsset(a), NEW priceable
    PROVE  /\ ValuationIs(Worth!Manual(a, priceable))
           /\ Worth!Manual(a, priceable).source = "manual"
  <1>1. Worth!NetWorthValue(a) \in Nat
    BY DEF Worth!NetWorthValue, SoundAsset
  <1> QED
    BY <1>1 DEF Worth!Manual, ValuationIs

LEMMA MarketIs ==
    ASSUME NEW a, SoundAsset(a), NEW value \in Nat \cup {Null}, NEW asOf \in Int, NEW now, NEW files
    PROVE  /\ ValuationIs(Worth!Market(a, value, asOf, now, files))
           /\ Worth!Market(a, value, asOf, now, files)
                 = IF value = Null THEN Worth!Manual(a, TRUE)
                   ELSE [source |-> "market", value |-> value, asOf |-> asOf,
                         stale |-> Worth!IsStale(now, files)]
  BY ManualIs DEF Worth!Market, ValuationIs

(* What a price list says of a code, if anything.                                   *)
LEMMA QuotesAre ==
    ASSUME NEW lists, SoundLists(lists), NEW instrument
    PROVE  Worth!Lookup(lists, instrument) = Null \/
              /\ instrument.source \in DOMAIN lists
              /\ Worth!Lookup(lists, instrument).price \in Nat
              /\ Worth!Lookup(lists, instrument).date \in Int
              /\ Worth!Lookup(lists, instrument).currency = lists[instrument.source].currency
  <1> DEFINE code == Worth!NormaliseCode(instrument.code)
             file == lists[instrument.source]
             quote == [price |-> file.prices[code], currency |-> file.currency,
                       date |-> Worth!DateOf(file, code)]
  <1>1. CASE instrument.source \notin DOMAIN lists \/ code \notin DOMAIN file.prices
    BY <1>1 DEF Worth!Lookup
  <1>2. CASE instrument.source \in DOMAIN lists /\ code \in DOMAIN file.prices
    <2>1. Worth!Lookup(lists, instrument) = quote
      BY <1>2 DEF Worth!Lookup
    <2>2. SoundList(file)
      BY <1>2 DEF SoundLists
    <2> HIDE DEF code, file
    <2>3. file.prices[code] \in Nat /\ Worth!DateOf(file, code) \in Int
      BY <1>2, <2>2 DEF SoundList, Worth!DateOf
    <2>4. quote.price \in Nat /\ quote.date \in Int /\ quote.currency = file.currency
      BY <2>3
    <2> HIDE DEF quote
    <2> QED
      BY <1>2, <2>1, <2>4 DEF file
  <1> QED
    BY <1>1, <1>2

LEMMA RatesAre ==
    ASSUME NEW lists, SoundLists(lists), NEW currency
    PROVE  Worth!FxRate(lists, currency) = Null \/
              /\ Worth!FxRate(lists, currency) \in Nat
              /\ currency # "INR" => "fx" \in DOMAIN lists
  <1>1. Worth!INR \in Nat
    BY ValuesAssumption DEF Worth!INR
  <1>2. CASE currency = "INR"
    BY <1>1, <1>2 DEF Worth!FxRate
  <1>3. CASE currency # "INR" /\ "fx" \in DOMAIN lists /\ currency \in DOMAIN lists.fx.prices
    <2>1. SoundList(lists.fx)
      BY <1>3 DEF SoundLists
    <2>2. lists.fx.prices[currency] \in Nat
      BY <1>3, <2>1 DEF SoundList
    <2> QED
      BY <1>3, <2>2 DEF Worth!FxRate
  <1>4. CASE currency # "INR" /\ ~("fx" \in DOMAIN lists /\ currency \in DOMAIN lists.fx.prices)
    BY <1>4 DEF Worth!FxRate
  <1> QED
    BY <1>2, <1>3, <1>4

LEMMA ValuationsAre ==
    ASSUME NEW a, SoundAsset(a), NEW lists, SoundLists(lists), NEW now
    PROVE  ValuationIs(Worth!ValuationOf(a, lists, now))
  <1>1. CASE a.kind \in Worth!PricedKinds
    <2> DEFINE quote == Worth!Lookup(lists, a.instrument)
               fx    == Worth!FxRate(lists, quote.currency)
               amount == Worth!MarketValue(a.quantity, quote.price, fx)
               files == {lists[a.instrument.source]} \cup Worth!FxFile(lists, quote.currency)
    <2>0. Worth!ValuationOf(a, lists, now) = Worth!Priced(a, lists, now)
      BY <1>1 DEF Worth!ValuationOf, Worth!PricedKinds
    <2>1. Worth!ValuationOf(a, lists, now)
             = IF quote = Null \/ fx = Null THEN Worth!Manual(a, TRUE)
               ELSE Worth!Market(a, amount, quote.date, now, files)
      BY <2>0, Zenon DEF Worth!Priced
    <2> HIDE DEF quote, fx, amount, files
    <2>2. CASE quote = Null \/ fx = Null
      BY <2>1, <2>2, ManualIs
    <2>3. CASE ~(quote = Null \/ fx = Null)
      <3>1. quote.price \in Nat /\ quote.date \in Int
        BY <2>3, QuotesAre DEF quote
      <3>2. fx \in Nat
        BY <2>3, RatesAre DEF fx
      <3>3. amount \in Nat \cup {Null}
        <4>1. a.quantity \in Nat
          BY <1>1 DEF SoundAsset
        <4> QED
          BY <3>1, <3>2, <4>1, AmountsAreNat DEF amount
      <3>4. ValuationIs(Worth!Market(a, amount, quote.date, now, files))
        BY <3>1, <3>3, MarketIs
      <3> QED
        BY <2>1, <2>3, <3>4
    <2> QED
      BY <2>2, <2>3
  <1>2. CASE a.kind = "foreignBank"
    <2> DEFINE fx == Worth!FxRate(lists, a.currency)
               minor == (a.balanceMinor * UnitScale) \div 100
               amount == Worth!MarketValue(minor, fx, Worth!INR)
    <2>0. a.kind \notin Worth!PricedKinds
      BY <1>2 DEF Worth!PricedKinds
    <2>1. Worth!ValuationOf(a, lists, now)
             = IF fx = Null \/ a.currency = "INR" THEN Worth!Manual(a, TRUE)
               ELSE Worth!Market(a, amount, lists.fx.date, now, {lists.fx})
      BY <1>2, <2>0 DEF Worth!ValuationOf, Worth!ForeignBank
    <2> HIDE DEF fx, amount, minor
    <2>2. CASE fx = Null \/ a.currency = "INR"
      BY <2>1, <2>2, ManualIs
    <2>3. CASE ~(fx = Null \/ a.currency = "INR")
      <3>1. fx \in Nat /\ "fx" \in DOMAIN lists
        BY <2>3, RatesAre DEF fx
      <3>2. lists.fx.date \in Int
        BY <3>1 DEF SoundLists, SoundList
      <3>3. minor \in Nat /\ Worth!INR \in Nat
        <4>1. a.balanceMinor \in Nat
          BY <1>2 DEF SoundAsset
        <4> QED
          BY <4>1, AmountsAreNat, ValuesAssumption DEF minor, Worth!INR
      <3>4. amount \in Nat \cup {Null}
        BY <3>1, <3>3, AmountsAreNat DEF amount
      <3>5. ValuationIs(Worth!Market(a, amount, lists.fx.date, now, {lists.fx}))
        BY <3>2, <3>4, MarketIs
      <3> QED
        BY <2>1, <2>3, <3>5
    <2> QED
      BY <2>2, <2>3
  <1>3. CASE a.kind = "preciousMetal"
    <2> DEFINE code == IF a.metal = "gold" THEN "gold999" ELSE "silver999"
               karat == IF a.metal = "gold" /\ a.karat # Null THEN a.karat ELSE 24
               file == lists.metal
               amount == Worth!MetalValue(a.weightMg, karat, file.prices[code])
               none == \/ a.weightMg = Null \/ "metal" \notin DOMAIN lists
                       \/ code \notin DOMAIN file.prices
    <2>0. a.kind \notin Worth!PricedKinds /\ a.kind # "foreignBank"
      BY <1>3 DEF Worth!PricedKinds
    <2>1. Worth!ValuationOf(a, lists, now)
             = IF none THEN Worth!Manual(a, TRUE)
               ELSE Worth!Market(a, amount, Worth!DateOf(file, code), now, {file})
      BY <1>3, <2>0 DEF Worth!ValuationOf, Worth!Metal
    <2>2. CASE none
      <3> HIDE DEF none, amount
      <3> QED
        BY <2>1, <2>2, ManualIs
    <2>3. CASE ~none
      <3>1. SoundList(file) /\ code \in DOMAIN file.prices
        BY <2>3 DEF SoundLists
      <3>2. a.weightMg \in Nat /\ karat \in Nat
        BY <1>3, <2>3 DEF SoundAsset
      <3> HIDE DEF file, code, karat
      <3>3. file.prices[code] \in Nat /\ Worth!DateOf(file, code) \in Int
        BY <3>1 DEF SoundList, Worth!DateOf
      <3>4. amount \in Nat \cup {Null}
        BY <3>2, <3>3, AmountsAreNat
      <3> HIDE DEF none, amount
      <3>5. ValuationIs(Worth!Market(a, amount, Worth!DateOf(file, code), now, {file}))
        BY <3>3, <3>4, MarketIs
      <3> QED
        BY <2>1, <2>3, <3>5
    <2> QED
      BY <2>2, <2>3
  <1>4. CASE ~(a.kind \in Worth!PricedKinds \/ a.kind = "foreignBank" \/ a.kind = "preciousMetal")
    <2>1. Worth!ValuationOf(a, lists, now) = Worth!Manual(a, FALSE)
      BY <1>4 DEF Worth!ValuationOf
    <2> QED
      BY <2>1, ManualIs
  <1> QED
    BY <1>1, <1>2, <1>3, <1>4

(* Whatever is bought and fetched, assets and price lists are what the schemas accept. *)
LEMMA ValuesInit == MCInit => ValuesInv
  <1> SUFFICES ASSUME MCInit, side = "values" PROVE ValuesInv
    BY DEF ValuesInv
  <1>1. input = [assets |-> <<>>, universes |-> [s \in {} |-> Null]]
    BY DEF MCInit, Inputs
  <1> QED
    BY <1>1 DEF ValuesInv

LEMMA ValuesStep == ValuesInv /\ [MCNext]_mcVars => ValuesInv'
  <1> SUFFICES ASSUME ValuesInv, [MCNext]_mcVars, side' = "values" PROVE ValuesInv'
    BY DEF ValuesInv
  <1>1. side = "values"
    BY DEF MCNext, mcVars
  <1>2. /\ input = [assets |-> input.assets, universes |-> input.universes]
        /\ input.assets \in Seq(Assets)
        /\ input.universes = [s \in DOMAIN input.universes |-> input.universes[s]]
        /\ \A s \in DOMAIN input.universes : SoundList(input.universes[s])
    BY <1>1 DEF ValuesInv
  <1>3. CASE AddAsset
    <2>1. PICK a \in Assets : input' = [input EXCEPT !.assets = Append(@, a)]
      BY <1>3 DEF AddAsset
    <2>2. input' = [assets |-> Append(input.assets, a), universes |-> input.universes]
      BY <1>2, <2>1
    <2> QED
      BY <1>2, <2>2 DEF ValuesInv
  <1>4. CASE Fetch
    <2>0. PICK source \in DOMAIN Lists \ DOMAIN input.universes : \E file \in Lists[source] :
             input' = [input EXCEPT !.universes =
                          [s \in DOMAIN @ \cup {source} |-> IF s = source THEN file ELSE @[s]]]
      BY <1>4 DEF Fetch
    <2>1. PICK file \in Lists[source] :
             input' = [input EXCEPT !.universes =
                          [s \in DOMAIN @ \cup {source} |-> IF s = source THEN file ELSE @[s]]]
      BY <2>0
    <2>2. PICK lists : lists = [s \in DOMAIN input.universes \cup {source} |->
                                   IF s = source THEN file ELSE input.universes[s]]
      OBVIOUS
    <2>3. input' = [assets |-> input.assets, universes |-> lists]
      BY <1>2, <2>1, <2>2
    <2>4. SoundList(file)
      BY ValuesAssumption
    <2>5. /\ lists = [s \in DOMAIN lists |-> lists[s]]
          /\ \A s \in DOMAIN lists : SoundList(lists[s])
      BY <1>2, <2>2, <2>4
    <2> QED
      BY <1>2, <2>3, <2>5 DEF ValuesInv
  <1>5. CASE UNCHANGED input
    BY <1>1, <1>5 DEF ValuesInv
  <1> QED
    BY <1>1, <1>3, <1>4, <1>5 DEF MCNext, mcVars, Ask, AddHolding, MoveGoal, AddKey, AddLeg, Buy,
                                  Sell, AddSnapshot, AddRow

LEMMA ValuesInvariant == MCSpec => []ValuesInv
  BY ValuesInit, ValuesStep, PTL DEF MCSpec

(* The oldest of some dates.                                                       *)
LEMMA OldestIs ==
    ASSUME NEW S, IsFiniteSet(S), S # {}, NEW d, \A x \in S : d[x] \in Int
    PROVE  \E x \in S : \A y \in S : d[x] <= d[y]
  <1> DEFINE U == {T \in SUBSET S : T = {} \/ \E x \in T : \A y \in T : d[x] <= d[y]}
  <1>1. {} \in U
    OBVIOUS
  <1>2. ASSUME NEW T \in U, NEW x \in S PROVE T \cup {x} \in U
    <2>1. CASE T = {}
      BY <2>1
    <2>2. CASE T # {}
      <3>1. PICK z \in T : \A y \in T : d[z] <= d[y]
        BY <2>2
      <3>2. CASE d[z] <= d[x]
        BY <3>1, <3>2
      <3>3. CASE d[x] < d[z]
        BY <3>1, <3>3
      <3> QED
        BY <3>1, <3>2, <3>3
    <2> QED
      BY <2>1, <2>2
  <1> HIDE DEF U
  <1>3. S \in U
    BY <1>1, <1>2, BuildUp
  <1> QED
    BY <1>3 DEF U

(* What a snapshot is made of.                                                    *)
ValuesOf(assets, lists) == [a \in DOMAIN assets |-> Worth!ValuationOf(assets[a], lists, Now)]

ItemsOf(assets, lists) ==
    [i \in DOMAIN assets \cup DOMAIN Debts |->
        [side |-> IF i \in DOMAIN assets THEN "asset" ELSE "liability",
         value |-> IF i \in DOMAIN assets THEN ValuesOf(assets, lists)[i].value
                   ELSE Worth!NetWorthValue(Debts[i]),
         includeInNetWorth |-> (IF i \in DOMAIN assets THEN assets[i] ELSE Debts[i]).includeInNetWorth,
         owners |-> (IF i \in DOMAIN assets THEN assets[i] ELSE Debts[i]).owners]]

InBucket(assets, b) ==
    {a \in DOMAIN assets : assets[a].includeInNetWorth /\ Worth!BucketOf(assets[a].kind) = b}

Included(assets) == {a \in DOMAIN assets : assets[a].includeInNetWorth}

SnapshotOf(assets, lists) == Worth!BuildSnapshot(assets, Debts, lists, Members, Now)
LensesOf(assets, lists)   == Sums!AllLenses(ItemsOf(assets, lists), Members)
BucketsOf(assets, lists) ==
    [b \in {Worth!BucketOf(assets[a].kind) : a \in Included(assets)} |->
        Sums!Total([a \in InBucket(assets, b) |-> ValuesOf(assets, lists)[a].value])]

LEMMA SnapshotIs ==
    ASSUME NEW assets, NEW lists
    PROVE  /\ SnapshotOf(assets, lists).household = LensesOf(assets, lists).household
           /\ SnapshotOf(assets, lists).members = LensesOf(assets, lists).byMember
           /\ SnapshotOf(assets, lists).formerMembers = LensesOf(assets, lists).formerMembers
           /\ SnapshotOf(assets, lists).buckets = BucketsOf(assets, lists)
           /\ SnapshotOf(assets, lists).pricesAsOf
                 = Worth!PriceSummary({ValuesOf(assets, lists)[a] : a \in DOMAIN assets}).asOf
  <1> DEFINE items  == ItemsOf(assets, lists)
             lenses == Worth!AllLenses(items, Members)
             valued == ValuesOf(assets, lists)
             prices == Worth!PriceSummary({valued[a] : a \in DOMAIN assets})
             buckets == [b \in {Worth!BucketOf(assets[a].kind) : a \in Included(assets)} |->
                            Worth!Total([a \in InBucket(assets, b) |-> valued[a].value])]
  <1>1. SnapshotOf(assets, lists)
           = [date |-> Day(Now), household |-> lenses.household, members |-> lenses.byMember,
              formerMembers |-> lenses.formerMembers, buckets |-> buckets,
              pricesAsOf |-> prices.asOf, stale |-> prices.stale]
    BY Zenon DEF SnapshotOf, Worth!BuildSnapshot, ItemsOf, ValuesOf, InBucket, Included
  <1>2. lenses = LensesOf(assets, lists)
    BY WorthLenses DEF LensesOf
  <1>3. buckets = BucketsOf(assets, lists)
    BY WorthTotal DEF BucketsOf
  <1> HIDE DEF items, lenses, valued, prices, buckets
  <1>4. LET s == SnapshotOf(assets, lists)
        IN  /\ s.household = lenses.household /\ s.members = lenses.byMember
            /\ s.formerMembers = lenses.formerMembers /\ s.buckets = buckets
            /\ s.pricesAsOf = prices.asOf
    BY <1>1
  <1> QED
    BY <1>2, <1>3, <1>4, Zenon DEF prices, valued

(* What the lemmas below assume of the assets and the lists there are.             *)
Kept(assets, lists) ==
    /\ IsFiniteSet(DOMAIN assets) /\ \A a \in DOMAIN assets : SoundAsset(assets[a])
    /\ SoundLists(lists)

LEMMA ValuesAre ==
    ASSUME NEW assets, NEW lists, Kept(assets, lists)
    PROVE  \A a \in DOMAIN assets : ValuationIs(ValuesOf(assets, lists)[a])
  BY ValuationsAre DEF Kept, ValuesOf

LEMMA ItemsAreHeld ==
    ASSUME NEW assets, NEW lists, Kept(assets, lists)
    PROVE  /\ Held(ItemsOf(assets, lists))
           /\ Counted(ItemsOf(assets, lists), "asset") = Included(assets)
           /\ \A a \in DOMAIN assets : ItemsOf(assets, lists)[a].value = ValuesOf(assets, lists)[a].value
  <1> DEFINE items == ItemsOf(assets, lists)
             D     == DOMAIN assets \cup DOMAIN Debts
  <1>1. IsFiniteSet(D)
    BY ValuesAssumption, FS_Union DEF Kept
  <1>2. \A i \in DOMAIN assets :
           /\ items[i].value = ValuesOf(assets, lists)[i].value /\ items[i].owners = assets[i].owners
           /\ items[i].side = "asset" /\ items[i].includeInNetWorth = assets[i].includeInNetWorth
    BY DEF ItemsOf
  <1>3. \A i \in DOMAIN Debts \ DOMAIN assets :
           /\ items[i].value = Worth!NetWorthValue(Debts[i]) /\ items[i].owners = Debts[i].owners
           /\ items[i].side = "liability"
    BY DEF ItemsOf
  <1>4. DOMAIN items = D
    BY DEF ItemsOf
  <1>5. \A i \in DOMAIN Debts : Worth!NetWorthValue(Debts[i]) \in Nat /\ Shared(Debts[i].owners)
    BY ValuesAssumption DEF Worth!NetWorthValue
  <1>6. \A i \in DOMAIN assets : ValuesOf(assets, lists)[i].value \in Nat /\ Shared(assets[i].owners)
    BY ValuesAre DEF ValuationIs, Kept, SoundAsset
  <1> HIDE DEF items
  <1>7. Held(items)
    <2>1. \A i \in DOMAIN items : items[i].value \in Nat /\ Shared(items[i].owners)
      BY <1>2, <1>3, <1>4, <1>5, <1>6
    <2> QED
      BY <1>1, <1>4, <2>1 DEF Held
  <1>8. Counted(items, "asset") = Included(assets)
    BY <1>2, <1>3, <1>4 DEF Counted, Included
  <1> QED
    BY <1>2, <1>7, <1>8 DEF items

(* The rows of a snapshot's members, and of who left, make up the members' lenses.  *)
LEMMA RowsAddUp ==
    ASSUME NEW point, NEW M, IsFiniteSet(M), Null \notin M, DOMAIN point.members = M,
           \A m \in M : point.members[m].net \in Int, point.formerMembers.net \in Int
    PROVE  Sums!Total([row \in Past!ByMember(point) |-> row.net])
              = Sums!Total([m \in M |-> point.members[m].net]) + point.formerMembers.net
  <1> DEFINE n  == point.formerMembers.net
             f  == [m \in M |-> point.members[m].net]
             h  == [m \in M |-> [id |-> m, net |-> point.members[m].net]]
             A  == {[id |-> m, net |-> point.members[m].net] : m \in M}
             last == [id |-> Null, net |-> n]
             B  == {[id |-> Null, net |-> k] : k \in {n} \ {0}}
             g  == [row \in A \cup B |-> row.net]
  <1>1. Past!ByMember(point) = A \cup B
    BY DEF Past!ByMember
  <1>2. last \notin A /\ last.net = n /\ n \in Int
    OBVIOUS
  <1>3. B = IF n = 0 THEN {} ELSE {last}
    OBVIOUS
  <1>4. Renames(h, M, A, f, g)
    <2>1. \A x, y \in M : h[x] = h[y] => x = y
      <3> TAKE x \in M, y \in M
      <3>1. h[x].id = x /\ h[y].id = y
        OBVIOUS
      <3> HIDE DEF h
      <3> QED
        BY <3>1
    <2>2. \A x \in M : h[x] \in A /\ f[x] \in Int /\ g[h[x]] = f[x]
      <3> TAKE x \in M
      <3>1. h[x] \in A /\ h[x].net = f[x] /\ f[x] \in Int
        OBVIOUS
      <3> HIDE DEF h, f, A, B
      <3> QED
        BY <3>1
    <2>3. \A y \in A : \E x \in M : h[x] = y
      OBVIOUS
    <2> QED
      BY <2>1, <2>2, <2>3 DEF Renames
  <1>5. SumOn(g, A) = SumOn(f, M) /\ IsFiniteSet(A)
    <2> HIDE DEF h, A, f, g
    <2> QED
      BY <1>4, SumImage
  <1>6. \A row \in A \cup B : g[row] \in Int
    <2>1. \A row \in A : row.net \in Int
      OBVIOUS
    <2>2. \A row \in B : row.net \in Int
      BY <1>2, <1>3
    <2> HIDE DEF A, B
    <2> QED
      BY <2>1, <2>2
  <1>7. SumOn(g, A \cup B) = SumOn(f, M) + n
    <2>1. SumOn(g, A) \in Int
      <3>1. \A row \in A : g[row] = g[row] /\ g[row] \in Int
        BY <1>6
      <3> HIDE DEF A, g
      <3> QED
        BY <1>5, <3>1, SumSame
    <2>2. CASE n = 0
      <3>1. A \cup B = A
        BY <1>3, <2>2
      <3> HIDE DEF A, B, g, f, n
      <3>2. SumOn(g, A \cup B) = SumOn(g, A)
        BY <3>1, Zenon
      <3> QED
        BY <1>5, <2>1, <2>2, <3>2
    <2>3. CASE n # 0
      <3>1. B = {last}
        BY <1>3, <2>3
      <3>2. IsFiniteSet(A \cup {last})
        BY <1>5, FS_AddElement
      <3>3. g[last] = n /\ \A row \in A \cup {last} : g[row] \in Int
        <4>1. last \in A \cup B
          BY <3>1
        <4> HIDE DEF A, B, last, n
        <4>2. g[last] = last.net
          BY <4>1
        <4> QED
          BY <1>2, <1>6, <3>1, <4>2
      <3> HIDE DEF A, B, g, f, n, last
      <3>4. SumOn(g, A \cup {last}) = g[last] + SumOn(g, A)
        <4>1. A \in SUBSET (A \cup {last}) /\ last \in (A \cup {last}) \ A
          BY <1>2
        <4> QED
          BY <3>2, <3>3, <4>1, SumInsert
      <3>5. SumOn(g, A \cup B) = SumOn(g, A \cup {last})
        BY <3>1, Zenon
      <3> QED
        BY <1>2, <1>5, <2>1, <3>3, <3>4, <3>5
    <2> QED
      BY <2>2, <2>3
  <1>8. /\ Sums!Total(g) = SumOn(g, A \cup B) /\ Sums!Total(f) = SumOn(f, M)
    <2>1. DOMAIN g = A \cup B /\ DOMAIN f = M
      OBVIOUS
    <2> HIDE DEF g, f, A, B
    <2> QED
      BY <2>1, TotalIs
  <1> HIDE DEF A, B, n
  <1>9. Sums!Total([row \in Past!ByMember(point) |-> row.net]) = Sums!Total(g)
    BY <1>1, Zenon
  <1> HIDE DEF f, g
  <1> QED
    BY <1>7, <1>8, <1>9 DEF f, n

(* The buckets make up what the household has.                                     *)
LEMMA BucketsAddUp ==
    ASSUME NEW assets, NEW lists, Kept(assets, lists)
    PROVE  LET s == SnapshotOf(assets, lists) IN Worth!Total(s.buckets) = s.household.assets
  <1> DEFINE items  == ItemsOf(assets, lists)
             S      == Included(assets)
             V      == ValuesOf(assets, lists)
             f      == [a \in S |-> V[a].value]
             k      == [a \in S |-> Worth!BucketOf(assets[a].kind)]
             K      == {Worth!BucketOf(assets[a].kind) : a \in S}
             part(b) == [a \in InBucket(assets, b) |-> V[a].value]
             sums   == [b \in K |-> Sums!Total(part(b))]
             amount == [i \in DOMAIN items |-> Sums!LensAmount(items[i].value, items[i].owners, Household)]
             s      == SnapshotOf(assets, lists)
  <1>1. s.buckets = sums /\ s.household = Sums!AllLenses(items, Members).household
    <2>1. BucketsOf(assets, lists) = sums
      BY DEF BucketsOf
    <2> HIDE DEF s, sums
    <2> QED
      BY <2>1, SnapshotIs DEF s, LensesOf
  <1>2. Held(items) /\ Counted(items, "asset") = S /\ \A a \in DOMAIN assets : items[a].value = V[a].value
    BY ItemsAreHeld
  <1>3. s.household = Sums!Totals(items, amount)
    <2>1. LensesAgree(items, Members)
      BY <1>2, MoneyAssumption, LensesAgreeAlways
    <2> QED
      BY <1>1, <2>1 DEF LensesAgree, Sums!NetWorth
  <1>4. \A i \in DOMAIN items : amount[i] = items[i].value /\ amount[i] \in Int
    BY <1>2 DEF Sums!LensAmount, Held
  <1>5. S \in SUBSET DOMAIN assets /\ IsFiniteSet(S) /\ S \in SUBSET DOMAIN items
    <2>1. S \in SUBSET DOMAIN assets
      BY DEF Included
    <2>2. DOMAIN assets \in SUBSET DOMAIN items
      BY DEF ItemsOf
    <2> QED
      BY <2>1, <2>2, FS_Subset DEF Kept
  <1>6. \A a \in S : f[a] = amount[a] /\ f[a] \in Int
    <2> TAKE a \in S
    <2>1. f[a] = V[a].value /\ a \in DOMAIN assets /\ a \in DOMAIN items
      BY <1>5
    <2> HIDE DEF f, V, S, items, amount
    <2> QED
      BY <1>2, <1>4, <2>1
  <1>7. s.household.assets = SumOn(f, S)
    <2> HIDE DEF s, amount, items, f, S, V
    <2>1. s.household.assets = SumOn(amount, S)
      <3>1. IsFiniteSet(DOMAIN items)
        BY <1>2 DEF Held
      <3>2. Sums!Totals(items, amount).assets = SumOn(amount, Counted(items, "asset"))
        BY <1>4, <3>1, TotalsAre
      <3>3. SumOn(amount, Counted(items, "asset")) = SumOn(amount, S)
        BY <1>2, Zenon
      <3> QED
        BY <1>3, <3>2, <3>3
    <2>2. SumOn(f, S) = SumOn(amount, S)
      BY <1>5, <1>6, SumSame
    <2> QED
      BY <2>1, <2>2
  <1>8. \A x \in S : sums[k[x]] = SumOn(f, {y \in S : k[y] = k[x]})
    <2> TAKE x \in S
    <2>1. PICK b : b = k[x]
      OBVIOUS
    <2>2. b \in K /\ sums[b] = Sums!Total(part(b))
      BY <2>1
    <2>3. PICK T : T = {y \in S : k[y] = b}
      OBVIOUS
    <2>4. InBucket(assets, b) = T
      BY <2>3 DEF InBucket, Included
    <2>5. DOMAIN part(b) = T
      BY <2>4
    <2>6. T \in SUBSET S
      BY <2>3
    <2>7. \A y \in T : f[y] = part(b)[y] /\ f[y] \in Int
      <3> TAKE y \in T
      <3>1. y \in S /\ y \in InBucket(assets, b)
        BY <2>4, <2>6
      <3>2. f[y] = V[y].value /\ part(b)[y] = V[y].value
        BY <3>1
      <3> HIDE DEF f, part, V, S
      <3> QED
        BY <1>6, <3>1, <3>2
    <2>8. PICK p : p = part(b)
      OBVIOUS
    <2> HIDE DEF part, f, sums, k, S, V
    <2>9. Sums!Total(p) = SumOn(p, T)
      BY <2>5, <2>8, TotalIs
    <2>10. IsFiniteSet(T)
      BY <1>5, <2>6, FS_Subset
    <2>11. SumOn(f, T) = SumOn(p, T)
      BY <2>7, <2>8, <2>10, SumSame
    <2>12. sums[b] = SumOn(f, T)
      BY <2>2, <2>8, <2>9, <2>11
    <2> QED
      BY <2>1, <2>3, <2>12
  <1>9. SumOn(sums, {k[x] : x \in S}) = SumOn(f, S)
    <2>1. \A x \in S : f[x] \in Int
      BY <1>6
    <2> HIDE DEF f, S, k, sums
    <2> QED
      BY <1>5, <1>8, <2>1, SumParts
  <1>10. {k[x] : x \in S} = K /\ DOMAIN sums = K
    OBVIOUS
  <1> HIDE DEF s, f, S, k, K, sums
  <1>11. SumOn(sums, K) = SumOn(f, S)
    BY <1>9, <1>10, Zenon
  <1>12. Worth!Total(sums) = SumOn(sums, K)
    BY <1>10, WorthTotal, TotalIs
  <1> QED
    BY <1>1, <1>7, <1>11, <1>12 DEF s
(* The prices of a snapshot are as old as the oldest it used.                      *)
LEMMA OldestPrice ==
    ASSUME NEW assets, NEW lists, Kept(assets, lists)
    PROVE  LET s      == SnapshotOf(assets, lists)
               V(i)   == Worth!ValuationOf(assets[i], lists, Now)
               market == {i \in DOMAIN assets : V(i).source = "market"}
           IN  /\ s.pricesAsOf = Null <=> market = {}
               /\ \A i \in market : s.pricesAsOf <= V(i).asOf
  <1> DEFINE V      == ValuesOf(assets, lists)
             D      == DOMAIN assets
             all    == {V[a] : a \in D}
             market == {i \in D : V[i].source = "market"}
             marked == {v \in all : v.source = "market"}
             dates  == {v.asOf : v \in marked}
             asOf   == SnapshotOf(assets, lists).pricesAsOf
  <1>1. asOf = IF marked = {} THEN Null ELSE Worth!Min(dates)
    <2>1. asOf = Worth!PriceSummary(all).asOf
      BY SnapshotIs, Zenon
    <2> HIDE DEF asOf, all
    <2>2. Worth!PriceSummary(all).asOf = IF marked = {} THEN Null ELSE Worth!Min(dates)
      BY DEF Worth!PriceSummary
    <2> QED
      BY <2>1, <2>2
  <1>2. \A i \in D : V[i] = Worth!ValuationOf(assets[i], lists, Now)
    BY DEF ValuesOf
  <1>3. \A i \in market : V[i].asOf \in Int
    BY ValuesAre DEF ValuationIs
  <1>4. IsFiniteSet(market)
    BY FS_Subset DEF Kept
  <1>5. marked = {V[i] : i \in market}
    OBVIOUS
  <1>6. dates = {V[i].asOf : i \in market}
    <2>1. \A v \in marked : \E i \in market : v = V[i]
      BY <1>5
    <2>2. \A i \in market : V[i] \in marked
      BY <1>5
    <2> HIDE DEF V, market, marked
    <2> QED
      BY <2>1, <2>2
  <1> HIDE DEF V, all, marked, dates, asOf
  <1>7. CASE market = {}
    <2>1. marked = {}
      BY <1>5, <1>7
    <2>2. asOf = Null
      BY <1>1, <2>1
    <2> QED
      BY <1>2, <1>7, <2>2 DEF asOf
  <1>8. CASE market # {}
    <2>1. PICK d : d = [i \in market |-> V[i].asOf]
      OBVIOUS
    <2>2. \A i \in market : d[i] = V[i].asOf /\ d[i] \in Int
      BY <1>3, <2>1
    <2>3. PICK z \in market : \A y \in market : d[z] <= d[y]
      <3> HIDE DEF market
      <3> QED
        BY <1>4, <1>8, <2>2, OldestIs
    <2>4. d[z] \in dates /\ \A x \in dates : d[z] =< x
      <3> HIDE DEF market
      <3> QED
        BY <1>6, <2>2, <2>3
    <2>5. Worth!Min(dates) \in dates /\ \A x \in dates : Worth!Min(dates) =< x
      BY <2>4 DEF Worth!Min
    <2>6. marked # {}
      BY <1>5, <1>8
    <2>7. asOf \in Int /\ asOf # Null /\ \A i \in market : asOf <= V[i].asOf
      <3>1. asOf = Worth!Min(dates)
        BY <1>1, <2>6
      <3>2. \A i \in market : V[i].asOf \in dates
        BY <1>6
      <3>3. asOf \in Int
        <4> HIDE DEF market
        <4> QED
          BY <1>3, <1>6, <2>5, <3>1
      <3> QED
        BY <2>5, <3>1, <3>2, <3>3, ValuesAssumption
    <2> QED
      BY <1>2, <1>8, <2>7 DEF asOf
  <1> QED
    BY <1>7, <1>8

LEMMA SnapshotAgrees == ValuesInv => SnapshotAddsUp
  <1> SUFFICES ASSUME ValuesInv, side = "values" PROVE SnapshotAddsUp
    BY DEF SnapshotAddsUp
  <1> DEFINE assets == input.assets
             lists  == input.universes
             s      == SnapshotOf(assets, lists)
  <1>1. Kept(assets, lists)
    <2>1. PICK a : a = input.assets
      OBVIOUS
    <2>2. a \in Seq(Assets)
      BY <2>1 DEF ValuesInv
    <2>3. DOMAIN a = 1 .. Len(a) /\ Len(a) \in Nat /\ \A i \in DOMAIN a : a[i] \in Assets
      BY <2>2
    <2>4. SoundLists(lists)
      BY DEF ValuesInv, SoundLists
    <2>5. IsFiniteSet(DOMAIN a) /\ \A i \in DOMAIN a : SoundAsset(a[i])
      BY <2>3, FS_Interval, ValuesAssumption
    <2> QED
      BY <2>1, <2>4, <2>5 DEF Kept
  <1>2. Past!LensNet(s, Household) = Sums!Total([row \in Past!ByMember(s) |-> row.net])
    <2> DEFINE items == ItemsOf(assets, lists)
               all   == LensesOf(assets, lists)
    <2>1. LensesAgree(items, Members)
      BY <1>1, ItemsAreHeld, MoneyAssumption, LensesAgreeAlways
    <2>2. s.household = all.household /\ s.members = all.byMember /\ s.formerMembers = all.formerMembers
      <3>1. PICK a, l : a = assets /\ l = lists
        OBVIOUS
      <3>2. /\ SnapshotOf(a, l).household = LensesOf(a, l).household
            /\ SnapshotOf(a, l).members = LensesOf(a, l).byMember
            /\ SnapshotOf(a, l).formerMembers = LensesOf(a, l).formerMembers
        BY SnapshotIs
      <3> QED
        BY <3>1, <3>2
    <2> HIDE DEF all, items, assets, lists, s
    <2>3. /\ all.household.net = Sums!Total([m \in Members |-> all.byMember[m].net])
                                  + all.formerMembers.net
          /\ all.formerMembers.net \in Int /\ DOMAIN all.byMember = Members
          /\ \A m \in Members : all.byMember[m].net \in Int
      BY <2>1 DEF LensesAgree, all, LensesOf, items
    <2>4. Sums!Total([row \in Past!ByMember(s) |-> row.net])
             = Sums!Total([m \in Members |-> s.members[m].net]) + s.formerMembers.net
      BY <2>2, <2>3, RowsAddUp, MoneyAssumption, ValuesAssumption
    <2> QED
      BY <2>2, <2>3, <2>4 DEF Past!LensNet
  <1>3. Worth!Total(s.buckets) = s.household.assets
    BY <1>1, BucketsAddUp
  <1> QED
    BY <1>1, <1>2, <1>3, OldestPrice DEF SnapshotAddsUp, SnapshotOf

LEMMA SnapshotAddsUpAlways == MCSpec => []SnapshotAddsUp
  BY ValuesInvariant, SnapshotAgrees, PTL

(* No sale loses units or cost, what moved between accounts is in every lens, and a *)
(* snapshot holds all there is (lots.ts:29, contributions.ts:62, snapshot.ts:62).   *)
THEOREM NothingIsLostHolds == MCSpec => NothingIsLost
  BY SalesConserveAlways, ContributionsAddUpAlways, SnapshotAddsUpAlways, PTL DEF NothingIsLost

------------------------------------------------------------------------------
(* Numbers: decimals, digit by digit.                                           *)

LEMMA NumbersInvariant == MCSpec => []NumbersInv
  <1>1. MCInit => NumbersInv
    BY DEF MCInit, Inputs, NumbersInv
  <1>2. NumbersInv /\ [MCNext]_mcVars => NumbersInv'
    <2> SUFFICES ASSUME NumbersInv, [MCNext]_mcVars PROVE NumbersInv'
      OBVIOUS
    <2>1. side' = side
      BY DEF MCNext, mcVars
    <2>2. CASE input' = input
      BY <2>1, <2>2 DEF NumbersInv
    <2>3. CASE side \notin {"text", "number"}
      BY <2>1, <2>3 DEF NumbersInv
    <2> QED
      BY <2>1, <2>2, <2>3 DEF MCNext, mcVars, Ask, AddHolding, MoveGoal, AddKey, Buy, Sell,
                              AddAsset, Fetch, AddRow, AddLeg, AddSnapshot
  <1> QED
    BY <1>1, <1>2, PTL DEF MCSpec

LEMMA TenTimesIsNat == 0 \in Nat /\ \A a \in Nat : \A b \in Nat : 10 * a + b \in Nat
  OBVIOUS

(* The steps of reading digits.                                                  *)
LEMMA ValueSteps ==
    ASSUME NEW rows \in Seq(Nat)
    PROVE  \E r \in [0 .. Len(rows) -> Nat] :
              /\ r[0] = 0 /\ Text!Value(rows) = r[Len(rows)]
              /\ \A i \in 1 .. Len(rows) : r[i] = (10 * r[i - 1] + rows[i])
  <1> DEFINE n == Len(rows)
             step == [p \in Nat \X Nat |-> (10 * p[1] + p[2])]
             Once(it, t) == IF t = {} THEN 0
                            ELSE (10 * it[t \ {Max(t)}] + rows[Max(t)])
             fold == CHOOSE it : it = [t \in SUBSET (1 .. n) |-> Once(it, t)]
  <1>1. n \in Nat /\ DOMAIN rows = 1 .. n /\ (\A i \in 1 .. n : rows[i] \in Nat)
    OBVIOUS
  <1>0. 0 \in Nat /\ \A a \in Nat : \A b \in Nat : (10 * a + b) \in Nat
    BY TenTimesIsNat
  <1>2. \A a \in Nat : \A b \in Nat : step[<<a, b>>] = (10 * a + b)
    OBVIOUS
  <1>3. step \in [Nat \X Nat -> Nat]
    BY <1>0
  <1>4. Folding(n, Nat, 0, Nat, rows, step)
    BY <1>0, <1>1, <1>3 DEF Folding
  <1>5. Text!Value(rows) = fold[1 .. n]
    BY <1>1 DEF Text!Value, Text!FoldLeft, Text!MapThenFoldSet, MapThenFoldSet, Text!Max, Max
  <1> HIDE DEF step, n
  <1>6. PICK it \in [SUBSET (1 .. n) -> Nat] : Unfolds(it, n, 0, rows, step)
    BY <1>4, FoldExists
  <1>7. it = [t \in SUBSET (1 .. n) |-> Once(it, t)]
    <2>1. \A t \in SUBSET (1 .. n) : it[t] = Once(it, t)
      <3> TAKE t \in SUBSET (1 .. n)
      <3>1. CASE t = {}
        BY <1>6, <3>1 DEF Unfolds
      <3>2. CASE t # {}
        <4>1. Max(t) \in 1 .. n
          BY <1>1, <3>2, MaxIsIn
        <4>2. rows[Max(t)] \in Nat /\ it[t \ {Max(t)}] \in Nat
          BY <1>1, <4>1
        <4> QED
          BY <1>2, <1>6, <3>2, <4>2 DEF Unfolds
      <3> QED
        BY <3>1, <3>2
    <2> HIDE DEF Once
    <2> QED
      BY <2>1
  <1>8. fold = [t \in SUBSET (1 .. n) |-> Once(fold, t)]
    <2> HIDE DEF Once
    <2> QED
      BY <1>7
  <1> HIDE DEF fold
  <1>9. FoldedBy(fold, n, Nat, 0, rows, step)
    <2>1. fold[{}] = 0
      BY <1>8
    <2>2. ASSUME NEW t \in SUBSET (1 .. n), t # {}, fold[t \ {Max(t)}] \in Nat
          PROVE  fold[t] = step[<<fold[t \ {Max(t)}], rows[Max(t)]>>]
      <3>1. Max(t) \in 1 .. n
        BY <1>1, <2>2, MaxIsIn
      <3>2. fold[t] = (10 * fold[t \ {Max(t)}] + rows[Max(t)])
        BY <1>8, <2>2
      <3> QED
        BY <1>1, <1>2, <2>2, <3>1, <3>2
    <2> QED
      BY <2>1, <2>2 DEF FoldedBy
  <1>10. PICK r \in [0 .. n -> Nat] : /\ r[0] = 0 /\ fold[1 .. n] = r[n]
                                      /\ \A i \in 1 .. n : r[i] = step[<<r[i - 1], rows[i]>>]
    BY <1>4, <1>9, FoldSteps
  <1>11. \A i \in 1 .. n : r[i] = (10 * r[i - 1] + rows[i])
    <2> TAKE i \in 1 .. n
    <2>1. i - 1 \in 0 .. n /\ rows[i] \in Nat
      BY <1>1
    <2> QED
      BY <1>2, <1>10, <2>1
  <1> QED
    BY <1>5, <1>10, <1>11 DEF n

(* What has been read after each digit.                                           *)
ReadTo(s, r) ==
    /\ r \in [0 .. Len(s) -> Nat] /\ r[0] = 0
    /\ \A i \in 1 .. Len(s) : r[i] = 10 * r[i - 1] + s[i]

LEMMA Prefixes ==
    ASSUME NEW s \in Seq(Nat)
    PROVE  \E r : ReadTo(s, r) /\ Text!Value(s) = r[Len(s)]
  BY ValueSteps DEF ReadTo

(* Whatever is read of a number digit by digit is its value.                         *)
LEMMA ValueIs ==
    ASSUME NEW s \in Seq(Nat), NEW r, ReadTo(s, r)
    PROVE  Text!Value(s) = r[Len(s)] /\ Text!Value(s) \in Nat
  <1>1. PICK q : ReadTo(s, q) /\ Text!Value(s) = q[Len(s)]
    BY Prefixes
  <1>2. PICK n \in Nat : n = Len(s)
    OBVIOUS
  <1> DEFINE U == {j \in Nat : j <= n => r[j] = q[j]}
  <1>3. 0 \in U
    BY <1>1 DEF ReadTo
  <1>4. ASSUME NEW j \in U PROVE j + 1 \in U
    <2> SUFFICES ASSUME j + 1 <= n PROVE r[j + 1] = q[j + 1]
      OBVIOUS
    <2>1. j \in Nat /\ r[j] = q[j] /\ j + 1 \in 1 .. n /\ (j + 1) - 1 = j
      OBVIOUS
    <2>2. r[j + 1] = 10 * r[j] + s[j + 1] /\ q[j + 1] = 10 * q[j] + s[j + 1]
      BY <1>1, <1>2, <2>1 DEF ReadTo
    <2> QED
      BY <2>1, <2>2
  <1> HIDE DEF U
  <1>5. U = Nat
    BY <1>3, <1>4, CountUp DEF U
  <1>6. r[n] = q[n]
    BY <1>5 DEF U
  <1>7. n \in 0 .. n
    OBVIOUS
  <1> QED
    BY <1>1, <1>2, <1>6, <1>7 DEF ReadTo

LEMMA ValueIsNat ==
    ASSUME NEW s \in Seq(Nat)
    PROVE  Text!Value(s) \in Nat
  BY Prefixes, ValueIs

LEMMA ValueOfNone == Text!Value(<<>>) = 0
  <1> DEFINE s == <<>>
             r == [i \in 0 .. 0 |-> 0]
  <1>1. s \in Seq(Nat) /\ Len(s) = 0
    OBVIOUS
  <1>2. ReadTo(s, r)
    BY <1>1 DEF ReadTo
  <1>3. r[0] = 0
    OBVIOUS
  <1> HIDE DEF r
  <1> QED
    BY <1>1, <1>2, <1>3, ValueIs

LEMMA ValueOfMore ==
    ASSUME NEW s \in Seq(Nat), NEW d \in Nat
    PROVE  Text!Value(Append(s, d)) = 10 * Text!Value(s) + d
  <1>1. PICK q : ReadTo(s, q) /\ Text!Value(s) = q[Len(s)]
    BY Prefixes
  <1>2. PICK n \in Nat : n = Len(s)
    OBVIOUS
  <1> DEFINE t == Append(s, d)
             r == [i \in 0 .. n + 1 |-> IF i = n + 1 THEN 10 * q[n] + d ELSE q[i]]
  <1>3. t \in Seq(Nat) /\ Len(t) = n + 1 /\ t[n + 1] = d /\ \A i \in 1 .. n : t[i] = s[i]
    BY <1>2
  <1>4. q \in [0 .. n -> Nat] /\ q[0] = 0 /\ \A i \in 1 .. n : q[i] = 10 * q[i - 1] + s[i]
    BY <1>1, <1>2 DEF ReadTo
  <1> HIDE DEF t
  <1>5. ReadTo(t, r)
    <2>1. r \in [0 .. n + 1 -> Nat]
      <3>1. \A i \in 0 .. n + 1 : i # n + 1 => i \in 0 .. n
        OBVIOUS
      <3>2. 10 * q[n] + d \in Nat
        BY <1>4
      <3> QED
        BY <1>4, <3>1, <3>2
    <2>2. r[0] = 0
      BY <1>4
    <2>3. ASSUME NEW i \in 1 .. n + 1 PROVE r[i] = 10 * r[i - 1] + t[i]
      <3>1. i - 1 \in 0 .. n /\ i - 1 # n + 1
        OBVIOUS
      <3>2. r[i - 1] = q[i - 1]
        BY <3>1
      <3>3. CASE i = n + 1
        BY <1>3, <3>2, <3>3
      <3>4. CASE i # n + 1
        <4>1. i \in 1 .. n /\ r[i] = q[i]
          BY <3>4
        <4> QED
          BY <1>3, <1>4, <3>2, <4>1
      <3> QED
        BY <3>3, <3>4
    <2> QED
      BY <1>3, <2>1, <2>2, <2>3 DEF ReadTo
  <1>6. r[n + 1] = 10 * q[n] + d
    OBVIOUS
  <1> HIDE DEF r
  <1>7. Text!Value(t) = r[n + 1]
    BY <1>3, <1>5, ValueIs
  <1> QED
    BY <1>1, <1>2, <1>6, <1>7 DEF t

LEMMA ZerosAre ==
    ASSUME NEW n \in Nat
    PROVE  /\ Text!Zeros(n) \in Seq(Nat) /\ Len(Text!Zeros(n)) = n
           /\ \A i \in 1 .. n : Text!Zeros(n)[i] = 0
  <1>1. Text!Max({0, n}) = n
    BY DEF Text!Max
  <1>2. Text!Zeros(n) = [i \in 1 .. n |-> 0]
    BY <1>1 DEF Text!Zeros
  <1>3. PICK z : z = [i \in 1 .. n |-> 0]
    OBVIOUS
  <1>4. z \in Seq(Nat) /\ Len(z) = n /\ \A i \in 1 .. n : z[i] = 0
    BY <1>3
  <1> QED
    BY <1>2, <1>3, <1>4, Zenon

LEMMA NoZeros ==
    ASSUME NEW n \in Int, n <= 0
    PROVE  Text!Zeros(n) = <<>>
  <1>1. Text!Max({0, n}) = 0
    BY DEF Text!Max
  <1> QED
    BY <1>1, SMTT(30) DEF Text!Zeros

(* One list and then another.                                                     *)
Joins(s, a, b) ==
    /\ s \in Seq(Nat) /\ Len(s) = Len(a) + Len(b)
    /\ \A i \in 1 .. Len(a) : s[i] = a[i]
    /\ \A j \in 1 .. Len(b) : s[Len(a) + j] = b[j]

LEMMA Joined ==
    ASSUME NEW a \in Seq(Nat), NEW b \in Seq(Nat)
    PROVE  Joins(a \o b, a, b)
  <1>1. PICK m \in Nat, n \in Nat : m = Len(a) /\ n = Len(b)
    OBVIOUS
  <1>2. \A i \in 1 .. m + n : (a \o b)[i] = IF i <= m THEN a[i] ELSE b[i - m]
    BY <1>1, ConcatProperties
  <1>3. \A i \in 1 .. m : i \in 1 .. m + n /\ i <= m
    OBVIOUS
  <1>4. \A j \in 1 .. n : m + j \in 1 .. m + n /\ ~(m + j <= m) /\ (m + j) - m = j
    OBVIOUS
  <1>5. \A i \in 1 .. m : (a \o b)[i] = a[i]
    BY <1>2, <1>3
  <1>6. \A j \in 1 .. n : (a \o b)[m + j] = b[j]
    BY <1>2, <1>4
  <1> QED
    BY <1>1, <1>5, <1>6, ConcatProperties DEF Joins

(* The powers of ten.                                                            *)
LEMMA OneAndZeros ==
    ASSUME NEW n \in Nat
    PROVE  \E s \in Seq(Nat) : /\ s = <<1>> \o Text!Zeros(n) /\ Len(s) = n + 1 /\ s[1] = 1
                               /\ \A i \in 1 .. n : s[1 + i] = 0
  <1>1. PICK z : z = Text!Zeros(n)
    OBVIOUS
  <1>2. z \in Seq(Nat) /\ Len(z) = n /\ \A i \in 1 .. n : z[i] = 0
    BY <1>1, ZerosAre
  <1>3. PICK one : one = <<1>>
    OBVIOUS
  <1>4. one \in Seq(Nat) /\ Len(one) = 1 /\ one[1] = 1
    BY <1>3
  <1>5. PICK s : s = one \o z
    OBVIOUS
  <1>6. /\ s \in Seq(Nat) /\ Len(s) = 1 + n
        /\ \A i \in 1 .. 1 : s[i] = one[i]
        /\ \A i \in 1 .. n : s[1 + i] = z[i]
    <2>1. Joins(s, one, z)
      BY <1>2, <1>4, <1>5, Joined
    <2> QED
      BY <1>2, <1>4, <2>1 DEF Joins
  <1>7. s = <<1>> \o Text!Zeros(n)
    BY <1>1, <1>3, <1>5, Zenon
  <1>8. s \in Seq(Nat) /\ Len(s) = n + 1 /\ s[1] = 1
    BY <1>4, <1>6
  <1>9. \A i \in 1 .. n : s[1 + i] = 0
    BY <1>2, <1>6
  <1> QED
    BY <1>7, <1>8, <1>9, Zenon

LEMMA ScaleOfNone == Text!Scale(0) = 1
  <1>1. PICK none : none = <<>>
    OBVIOUS
  <1>2. none \in Seq(Nat) /\ 1 \in Nat /\ <<1>> \o none = Append(none, 1)
    BY <1>1
  <1>3. Text!Zeros(0) = none
    BY <1>1, NoZeros
  <1>4. Text!Value(Append(none, 1)) = 10 * Text!Value(none) + 1
    BY <1>2, ValueOfMore
  <1>5. Text!Value(none) = 0
    BY <1>1, ValueOfNone
  <1>6. Text!Scale(0) = Text!Value(Append(none, 1))
    BY <1>2, <1>3, Zenon DEF Text!Scale
  <1> QED
    BY <1>4, <1>5, <1>6

LEMMA ScaleGrows ==
    ASSUME NEW n \in Nat
    PROVE  Text!Scale(n + 1) = 10 * Text!Scale(n) /\ Text!Scale(n) \in Nat
  <1>1. PICK s \in Seq(Nat) : /\ s = <<1>> \o Text!Zeros(n) /\ Len(s) = n + 1 /\ s[1] = 1
                              /\ \A i \in 1 .. n : s[1 + i] = 0
    BY OneAndZeros
  <1>2. PICK m \in Nat : m = n + 1
    OBVIOUS
  <1>3. PICK t \in Seq(Nat) : /\ t = <<1>> \o Text!Zeros(m) /\ Len(t) = m + 1 /\ t[1] = 1
                              /\ \A i \in 1 .. m : t[1 + i] = 0
    BY OneAndZeros
  <1>4. t = Append(s, 0)
    <2>1. PICK u : u = Append(s, 0)
      OBVIOUS
    <2>2. u \in Seq(Nat) /\ Len(u) = n + 2 /\ u[n + 2] = 0 /\ \A i \in 1 .. n + 1 : u[i] = s[i]
      BY <1>1, <2>1
    <2>3. ASSUME NEW i \in 1 .. n + 2 PROVE u[i] = t[i]
      <3>1. CASE i = 1
        BY <1>1, <1>3, <2>2, <3>1
      <3>2. CASE i \in 2 .. n + 1
        <4>1. i - 1 \in 1 .. n /\ i - 1 \in 1 .. m /\ 1 + (i - 1) = i
          BY <1>2, <3>2
        <4>2. s[i] = 0 /\ t[i] = 0
          BY <1>1, <1>3, <4>1
        <4> QED
          BY <2>2, <3>2, <4>2
      <3>3. CASE i = n + 2
        <4>1. i - 1 \in 1 .. m /\ 1 + (i - 1) = i
          BY <1>2, <3>3
        <4> QED
          BY <1>3, <2>2, <3>3, <4>1
      <3> QED
        BY <3>1, <3>2, <3>3
    <2>4. Len(t) = n + 2
      BY <1>2, <1>3
    <2> QED
      BY <2>1, <2>2, <2>3, <2>4
  <1>5. Text!Value(t) = 10 * Text!Value(s) + 0 /\ Text!Value(s) \in Nat
    BY <1>4, ValueOfMore, ValueIsNat
  <1>6. Text!Scale(n) = Text!Value(s) /\ Text!Scale(n + 1) = Text!Value(t)
    BY <1>1, <1>2, <1>3, Zenon DEF Text!Scale
  <1> QED
    BY <1>5, <1>6

------------------------------------------------------------------------------
LEMMA ScaleIsSome == \A n \in Nat : Text!Scale(n) \in Nat \ {0}
  <1> DEFINE U == {j \in Nat : Text!Scale(j) \in Nat \ {0}}
  <1>1. 0 \in U
    BY ScaleOfNone
  <1>2. ASSUME NEW j \in U PROVE j + 1 \in U
    <2>1. j \in Nat /\ Text!Scale(j) \in Nat \ {0}
      OBVIOUS
    <2>2. Text!Scale(j + 1) = 10 * Text!Scale(j)
      BY <2>1, ScaleGrows
    <2> QED
      BY <2>1, <2>2
  <1> HIDE DEF U
  <1>3. U = Nat
    BY <1>1, <1>2, CountUp DEF U
  <1> QED
    BY <1>3 DEF U

LEMMA ScaleOfSum ==
    ASSUME NEW a \in Nat, NEW b \in Nat
    PROVE  Text!Scale(a + b) = Text!Scale(a) * Text!Scale(b)
  <1>1. PICK x \in Nat : x = Text!Scale(a)
    BY ScaleIsSome
  <1> DEFINE U == {j \in Nat : Text!Scale(a + j) = x * Text!Scale(j)}
  <1>2. 0 \in U
    <2>1. a + 0 = a
      OBVIOUS
    <2> QED
      BY <1>1, <2>1, ScaleOfNone
  <1>3. ASSUME NEW j \in U PROVE j + 1 \in U
    <2>1. j \in Nat /\ a + j \in Nat /\ Text!Scale(a + j) = x * Text!Scale(j)
      OBVIOUS
    <2>2. PICK y \in Nat : y = Text!Scale(j)
      BY <2>1, ScaleIsSome
    <2>3. Text!Scale(j + 1) = 10 * y
      BY <2>1, <2>2, ScaleGrows
    <2>4. Text!Scale((a + j) + 1) = 10 * (x * y)
      BY <2>1, <2>2, ScaleGrows
    <2>5. (a + j) + 1 = a + (j + 1) /\ 10 * (x * y) = x * (10 * y)
      BY <2>1
    <2> QED
      BY <2>1, <2>3, <2>4, <2>5
  <1> HIDE DEF U
  <1>4. U = Nat
    BY <1>2, <1>3, CountUp DEF U
  <1> QED
    BY <1>1, <1>4 DEF U

(* Digits after digits: the first count for as much more as there are second ones.   *)
LEMMA ValueOfJoined ==
    ASSUME NEW a \in Seq(Nat), NEW b \in Seq(Nat)
    PROVE  Text!Value(a \o b) = Text!Value(a) * Text!Scale(Len(b)) + Text!Value(b)
  <1>1. PICK p : ReadTo(a, p) /\ Text!Value(a) = p[Len(a)]
    BY Prefixes
  <1>2. PICK q : ReadTo(b, q) /\ Text!Value(b) = q[Len(b)]
    BY Prefixes
  <1>3. PICK m \in Nat, n \in Nat : m = Len(a) /\ n = Len(b)
    OBVIOUS
  <1>4. PICK x : x = p[m]
    OBVIOUS
  <1>5. /\ p \in [0 .. m -> Nat] /\ p[0] = 0 /\ \A i \in 1 .. m : p[i] = 10 * p[i - 1] + a[i]
        /\ q \in [0 .. n -> Nat] /\ q[0] = 0 /\ \A j \in 1 .. n : q[j] = 10 * q[j - 1] + b[j]
    BY <1>1, <1>2, <1>3 DEF ReadTo
  <1>6. x \in Nat
    BY <1>4, <1>5
  <1>7. PICK s : s = a \o b
    OBVIOUS
  <1>8. /\ s \in Seq(Nat) /\ Len(s) = m + n
        /\ \A i \in 1 .. m : s[i] = a[i]
        /\ \A j \in 1 .. n : s[m + j] = b[j]
    BY <1>3, <1>7, Joined DEF Joins
  <1> DEFINE r == [i \in 0 .. m + n |-> IF i <= m THEN p[i]
                                        ELSE x * Text!Scale(i - m) + q[i - m]]
  <1>9. \A i \in 0 .. m : r[i] = p[i] /\ r[i] \in Nat
    <2> TAKE i \in 0 .. m
    <2>1. i \in 0 .. m + n /\ i <= m
      OBVIOUS
    <2> QED
      BY <1>5, <2>1
  <1>10. \A j \in 0 .. n : r[m + j] = x * Text!Scale(j) + q[j] /\ r[m + j] \in Nat
    <2> TAKE j \in 0 .. n
    <2>1. PICK y \in Nat : y = Text!Scale(j)
      BY ScaleIsSome
    <2>2. CASE j = 0
      <3>1. m + 0 = m /\ m \in 0 .. m
        OBVIOUS
      <3>2. y = 1 /\ x * 1 = x
        BY <1>6, <2>1, <2>2, ScaleOfNone
      <3> QED
        BY <1>4, <1>5, <1>6, <1>9, <2>1, <2>2, <3>1, <3>2
    <2>3. CASE j # 0
      <3>1. m + j \in 0 .. m + n /\ ~(m + j <= m) /\ (m + j) - m = j
        BY <2>3
      <3>2. r[m + j] = x * Text!Scale(j) + q[j]
        BY <3>1
      <3>3. x * y \in Nat /\ q[j] \in Nat
        BY <1>5, <1>6
      <3> QED
        BY <2>1, <3>2, <3>3
    <2> QED
      BY <2>2, <2>3
  <1>11. r = [i \in 0 .. m + n |-> r[i]]
    OBVIOUS
  <1> HIDE DEF r
  <1>12. ReadTo(s, r)
    <2>1. r \in [0 .. m + n -> Nat]
      <3>1. ASSUME NEW i \in 0 .. m + n PROVE r[i] \in Nat
        <4>1. CASE i <= m
          BY <1>9, <4>1
        <4>2. CASE ~(i <= m)
          <5>1. i - m \in 0 .. n /\ m + (i - m) = i
            BY <4>2
          <5> QED
            BY <1>10, <5>1
        <4> QED
          BY <4>1, <4>2
      <3> QED
        BY <1>11, <3>1
    <2>2. r[0] = 0
      <3>1. 0 \in 0 .. m
        OBVIOUS
      <3> QED
        BY <1>5, <1>9, <3>1
    <2>3. ASSUME NEW i \in 1 .. m + n PROVE r[i] = 10 * r[i - 1] + s[i]
      <3>1. CASE i <= m
        <4>1. i \in 1 .. m /\ i \in 0 .. m /\ i - 1 \in 0 .. m
          BY <3>1
        <4> QED
          BY <1>5, <1>8, <1>9, <4>1
      <3>2. CASE ~(i <= m)
        <4>1. PICK j \in 1 .. n : i = m + j
          <5>1. i - m \in 1 .. n /\ i = m + (i - m)
            BY <3>2
          <5> QED
            BY <5>1
        <4>2. j \in 0 .. n /\ j - 1 \in 0 .. n /\ m + (j - 1) = i - 1 /\ j - 1 \in Nat
              /\ (j - 1) + 1 = j
          BY <4>1
        <4>3. PICK y \in Nat : y = Text!Scale(j - 1)
          BY <4>2, ScaleIsSome
        <4>4. Text!Scale(j) = 10 * y
          BY <4>2, <4>3, ScaleGrows
        <4>5. r[i] = x * (10 * y) + q[j] /\ r[i - 1] = x * y + q[j - 1]
          BY <1>10, <4>1, <4>2, <4>3, <4>4
        <4>6. x * (10 * y) = 10 * (x * y) /\ x * y \in Nat
          BY <1>6
        <4>7. q[j] = 10 * q[j - 1] + b[j] /\ q[j - 1] \in Nat /\ b[j] \in Nat /\ s[i] = b[j]
          <5>1. b[j] \in Nat
            BY <1>3, <4>1
          <5> QED
            BY <1>5, <1>8, <4>1, <4>2, <5>1
        <4> QED
          BY <4>5, <4>6, <4>7
      <3> QED
        BY <3>1, <3>2
    <2> QED
      BY <1>8, <2>1, <2>2, <2>3 DEF ReadTo
  <1>13. Text!Value(s) = r[m + n]
    BY <1>8, <1>12, ValueIs
  <1>14. n \in 0 .. n
    OBVIOUS
  <1>15. Text!Value(s) = x * Text!Scale(n) + q[n]
    BY <1>10, <1>13, <1>14
  <1> QED
    BY <1>1, <1>2, <1>3, <1>4, <1>7, <1>15

LEMMA ValueOfZeros ==
    ASSUME NEW n \in Nat
    PROVE  Text!Value(Text!Zeros(n)) = 0
  <1>1. PICK z : z = Text!Zeros(n)
    OBVIOUS
  <1>2. z \in Seq(Nat) /\ Len(z) = n /\ \A i \in 1 .. n : z[i] = 0
    BY <1>1, ZerosAre
  <1>3. PICK r : r = [i \in 0 .. n |-> 0]
    OBVIOUS
  <1>4. ReadTo(z, r) /\ r[n] = 0
    <2>1. \A i \in 1 .. n : i \in 0 .. n /\ i - 1 \in 0 .. n
      OBVIOUS
    <2> QED
      BY <1>2, <1>3, <2>1 DEF ReadTo
  <1> QED
    BY <1>1, <1>2, <1>4, ValueIs

LEMMA ValuePadded ==
    ASSUME NEW s \in Seq(Nat), NEW n \in Nat
    PROVE  Text!Value(s \o Text!Zeros(n)) = Text!Value(s) * Text!Scale(n)
  <1>1. PICK z : z = Text!Zeros(n)
    OBVIOUS
  <1>2. z \in Seq(Nat) /\ Len(z) = n /\ Text!Value(z) = 0
    BY <1>1, ZerosAre, ValueOfZeros
  <1>3. Text!Value(s \o z) = Text!Value(s) * Text!Scale(n) + 0
    BY <1>2, ValueOfJoined
  <1>4. PICK x \in Nat, y \in Nat : x = Text!Value(s) /\ y = Text!Scale(n)
    BY ValueIsNat, ScaleIsSome
  <1>5. x * y \in Nat
    OBVIOUS
  <1> QED
    BY <1>1, <1>3, <1>4, <1>5

(* What a number of digits can say is less than one more digit starts with.           *)
LEMMA ValueIsBelow ==
    ASSUME NEW s \in Seq(0 .. 9)
    PROVE  s \in Seq(Nat) /\ Text!Value(s) < Text!Scale(Len(s))
  <1>1. s \in Seq(Nat)
    OBVIOUS
  <1>2. PICK r : ReadTo(s, r) /\ Text!Value(s) = r[Len(s)]
    BY <1>1, Prefixes
  <1>3. PICK n \in Nat : n = Len(s)
    OBVIOUS
  <1>4. r \in [0 .. n -> Nat] /\ r[0] = 0 /\ \A i \in 1 .. n : r[i] = 10 * r[i - 1] + s[i]
    BY <1>2, <1>3 DEF ReadTo
  <1> DEFINE U == {j \in Nat : j <= n => r[j] < Text!Scale(j)}
  <1>5. 0 \in U
    BY <1>4, ScaleOfNone
  <1>6. ASSUME NEW j \in U PROVE j + 1 \in U
    <2> SUFFICES ASSUME j + 1 <= n PROVE r[j + 1] < Text!Scale(j + 1)
      OBVIOUS
    <2>1. j \in Nat /\ j \in 0 .. n /\ r[j] < Text!Scale(j) /\ j + 1 \in 1 .. n /\ (j + 1) - 1 = j
      OBVIOUS
    <2>2. Text!Scale(j) \in Nat /\ Text!Scale(j + 1) = 10 * Text!Scale(j)
      BY <2>1, ScaleGrows
    <2>3. r[j + 1] = 10 * r[j] + s[j + 1] /\ r[j] \in Nat /\ s[j + 1] \in 0 .. 9
      BY <1>3, <1>4, <2>1
    <2> QED
      BY <2>1, <2>2, <2>3, SMTT(20)
  <1> HIDE DEF U
  <1>7. U = Nat
    BY <1>5, <1>6, CountUp DEF U
  <1> QED
    BY <1>1, <1>2, <1>3, <1>7 DEF U

------------------------------------------------------------------------------
(* Quotients are what they are multiplied back from.                              *)
LEMMA QuotientBy ==
    ASSUME NEW n \in Nat, NEW d \in Nat \ {0}, NEW q \in Nat, NEW r \in Nat,
           n = d * q + r, r < d
    PROVE  n \div d = q /\ n % d = r
  <1>1. PICK a \in Nat, b \in Nat : a = n \div d /\ b = n % d /\ n = d * a + b /\ b < d
    BY Z3
  <1>2. a = q
    <2>1. CASE a > q
      <3>1. PICK e \in Nat : a = q + 1 + e
        <4>1. a - q - 1 \in Nat /\ a = q + 1 + (a - q - 1)
          BY <2>1
        <4> QED
          BY <4>1
      <3>2. d * a = d * q + d + d * e /\ d * e \in Nat /\ d * q \in Nat
        BY <3>1
      <3> QED
        BY <1>1, <3>2
    <2>2. CASE q > a
      <3>1. PICK e \in Nat : q = a + 1 + e
        <4>1. q - a - 1 \in Nat /\ q = a + 1 + (q - a - 1)
          BY <2>2
        <4> QED
          BY <4>1
      <3>2. d * q = d * a + d + d * e /\ d * e \in Nat /\ d * a \in Nat
        BY <3>1
      <3> QED
        BY <1>1, <3>2
    <2> QED
      BY <2>1, <2>2
  <1>3. d * q \in Nat
    OBVIOUS
  <1>4. b = r
    BY <1>1, <1>2, <1>3
  <1> QED
    BY <1>1, <1>2, <1>4

LEMMA Divided ==
    ASSUME NEW n \in Nat, NEW d \in Nat \ {0}
    PROVE  \E q \in Nat, r \in Nat : /\ q = n \div d /\ r = n % d
                                     /\ n = d * q + r /\ r < d
  BY Z3

LEMMA TenFold ==
    ASSUME NEW n \in Nat, NEW d \in Nat \ {0}
    PROVE  n \div d = 10 * (n \div (10 * d)) + ((n \div d) % 10)
  <1>1. PICK q \in Nat, r \in Nat : q = n \div d /\ n = d * q + r /\ r < d
    BY Divided
  <1>2. PICK a \in Nat, b \in Nat : b = q % 10 /\ q = 10 * a + b /\ b < 10
    <2>1. 10 \in Nat \ {0}
      OBVIOUS
    <2> QED
      BY <2>1, Divided
  <1>3. PICK t \in Nat \ {0} : t = 10 * d
    OBVIOUS
  <1>4. PICK c \in Nat : c = d * b + r
    OBVIOUS
  <1>5. n = t * a + c
    <2>1. d * q = d * (10 * a) + d * b
      BY <1>2
    <2>2. d * (10 * a) = t * a
      BY <1>3
    <2>3. t * a \in Nat /\ d * b \in Nat
      BY <1>3
    <2> QED
      BY <1>1, <1>4, <2>1, <2>2, <2>3
  <1>6. c < t
    <2>1. PICK e \in Nat : b + e = 9
      <3>1. 9 - b \in Nat /\ b + (9 - b) = 9
        BY <1>2
      <3> QED
        BY <3>1
    <2>2. d * b + d * e = d * 9 /\ d * e \in Nat /\ d * b \in Nat
      BY <2>1
    <2> QED
      BY <1>1, <1>3, <1>4, <2>2
  <1>7. n \div t = a
    BY <1>5, <1>6, QuotientBy
  <1> QED
    BY <1>1, <1>2, <1>3, <1>7

(* A number below a power of ten is what its digits say.                            *)
LEMMA DigitsAre ==
    ASSUME NEW places \in Nat, NEW n \in Nat, n < Text!Scale(places)
    PROVE  \E d \in Seq(0 .. 9) : /\ d = Text!Digits(n, places) /\ Len(d) = places
                                  /\ Text!Value(d) = n
                                  /\ places > 0 => d[places] = n % 10
  <1>1. PICK d : d = Text!Digits(n, places)
    OBVIOUS
  <1>2. d = [i \in 1 .. places |-> (n \div Text!Scale(places - i)) % 10]
    BY <1>1, Zenon DEF Text!Digits
  <1> DEFINE Q(i) == n \div Text!Scale(places - i)
  <1>3. \A i \in 1 .. places : d[i] = Q(i) % 10
    BY <1>2
  <1>4. \A i \in 0 .. places : Q(i) \in Nat
    <2> TAKE i \in 0 .. places
    <2>1. places - i \in Nat
      OBVIOUS
    <2>2. Text!Scale(places - i) \in Nat \ {0}
      BY <2>1, ScaleIsSome
    <2> QED
      BY <2>2, Divided
  <1>5. \A i \in 1 .. places : Q(i) = 10 * Q(i - 1) + d[i]
    <2> TAKE i \in 1 .. places
    <2>1. PICK k \in Nat : k = places - i
      OBVIOUS
    <2>2. places - (i - 1) = k + 1
      BY <2>1
    <2>3. PICK y \in Nat \ {0} : y = Text!Scale(k)
      BY ScaleIsSome
    <2>4. Text!Scale(k + 1) = 10 * y
      BY <2>3, ScaleGrows
    <2>5. n \div y = 10 * (n \div (10 * y)) + ((n \div y) % 10)
      BY TenFold
    <2> QED
      BY <1>3, <2>1, <2>2, <2>3, <2>4, <2>5
  <1>6. Q(0) = 0
    <2>1. PICK y \in Nat \ {0} : y = Text!Scale(places)
      BY ScaleIsSome
    <2>2. 0 \in Nat /\ n = y * 0 + n /\ n < y
      BY <2>1
    <2>3. n \div y = 0
      BY <2>2, QuotientBy
    <2>4. places - 0 = places
      OBVIOUS
    <2> QED
      BY <2>1, <2>3, <2>4
  <1>7. Q(places) = n
    <2>1. places - places = 0
      OBVIOUS
    <2> QED
      BY <2>1, ScaleOfNone
  <1> DEFINE r == [i \in 0 .. places |-> Q(i)]
  <1>8. r \in [0 .. places -> Nat] /\ \A i \in 0 .. places : r[i] = Q(i)
    BY <1>4
  <1>9. \A i \in 1 .. places : d[i] \in 0 .. 9
    <2> TAKE i \in 1 .. places
    <2>1. PICK q \in Nat : q = Q(i)
      BY <1>4
    <2>2. q % 10 \in 0 .. 9
      OBVIOUS
    <2> QED
      BY <1>3, <2>1, <2>2
  <1> HIDE DEF Q, r
  <1>10. d \in Seq(0 .. 9) /\ d \in Seq(Nat) /\ Len(d) = places
    <2>1. d = [i \in 1 .. places |-> d[i]]
      BY <1>2
    <2> QED
      BY <1>9, <2>1
  <1>11. ReadTo(d, r)
    <2>1. r[0] = 0
      BY <1>6, <1>8
    <2>2. ASSUME NEW i \in 1 .. places PROVE r[i] = 10 * r[i - 1] + d[i]
      <3>1. i \in 0 .. places /\ i - 1 \in 0 .. places
        OBVIOUS
      <3> QED
        BY <1>5, <1>8, <3>1
    <2> QED
      BY <1>8, <1>10, <2>1, <2>2 DEF ReadTo
  <1>12. Text!Value(d) = r[places]
    BY <1>10, <1>11, ValueIs
  <1>13. Text!Value(d) = n
    <2>1. places \in 0 .. places
      OBVIOUS
    <2> QED
      BY <1>7, <1>8, <1>12, <2>1
  <1>14. places > 0 => d[places] = n % 10
    <2>1. places > 0 => places \in 1 .. places
      OBVIOUS
    <2> QED
      BY <1>3, <1>7, <2>1
  <1> QED
    BY <1>1, <1>10, <1>13, <1>14

------------------------------------------------------------------------------
LEMMA LargestIs ==
    ASSUME NEW n \in Nat, NEW S \in SUBSET (0 .. n), S # {}
    PROVE  Text!Max(S) \in S /\ \A x \in S : x <= Text!Max(S)
  <1>1. \E x \in S : \A y \in S : y <= x
    <2>1. S \in SUBSET Nat /\ n + 1 \in Nat /\ \A x \in S : x < n + 1
      OBVIOUS
    <2> QED
      BY <2>1, Largest
  <1>2. \E x \in S : \A y \in S : x >= y
    BY <1>1
  <1>3. Text!Max(S) \in S /\ \A y \in S : Text!Max(S) >= y
    BY <1>2, Zenon DEF Text!Max
  <1> QED
    BY <1>3

(* Digits without their last zeros: how many are left, and what they say.              *)
Trims(t, d) ==
    /\ t \in Seq(0 .. 9) /\ Len(t) <= Len(d)
    /\ Text!Value(d) = Text!Value(t) * Text!Scale(Len(d) - Len(t))
    /\ Len(d) > 0 => (Len(t) = Len(d) <=> d[Len(d)] # 0)

LEMMA TrimmedIs ==
    ASSUME NEW d \in Seq(0 .. 9)
    PROVE  Trims(Text!Trimmed(d), d)
  <1>1. PICK n \in Nat : n = Len(d)
    OBVIOUS
  <1>2. DOMAIN d = 1 .. n /\ \A i \in 1 .. n : d[i] \in 0 .. 9
    BY <1>1
  <1> DEFINE S == {0} \cup {i \in DOMAIN d : d[i] # 0}
  <1>3. PICK last : last = Text!Max(S)
    OBVIOUS
  <1>4. last \in S /\ \A x \in S : x <= last
    <2>1. S \in SUBSET (0 .. n) /\ S # {}
      BY <1>2
    <2> HIDE DEF S
    <2> QED
      BY <1>3, <2>1, LargestIs
  <1>5. last \in 0 .. n /\ (last > 0 => d[last] # 0)
    BY <1>2, <1>4
  <1>6. \A i \in 1 .. n : i > last => d[i] = 0
    <2> SUFFICES ASSUME NEW i \in 1 .. n, i > last, d[i] # 0 PROVE FALSE
      OBVIOUS
    <2>1. i \in S
      BY <1>2
    <2>2. i <= last
      BY <1>4, <2>1
    <2> QED
      BY <1>5, <2>2
  <1>7. PICK t : t = Text!Trimmed(d)
    OBVIOUS
  <1>8. t = SubSeq(d, 1, last)
    BY <1>3, <1>7, Zenon DEF Text!Trimmed
  <1> HIDE DEF S
  <1>9. t \in Seq(0 .. 9) /\ t \in Seq(Nat) /\ Len(t) = last /\ \A i \in 1 .. last : t[i] = d[i]
    BY <1>1, <1>5, <1>8
  <1>10. PICK m \in Nat : m = n - last
    BY <1>5
  <1>11. PICK z : z = Text!Zeros(m)
    OBVIOUS
  <1>12. z \in Seq(Nat) /\ Len(z) = m /\ \A i \in 1 .. m : z[i] = 0
    BY <1>11, ZerosAre
  <1>13. PICK s : s = t \o z
    OBVIOUS
  <1>14. Joins(s, t, z)
    BY <1>9, <1>12, <1>13, Joined
  <1>15. s = d
    <2>1. s \in Seq(Nat) /\ Len(s) = n
      BY <1>5, <1>9, <1>10, <1>12, <1>14 DEF Joins
    <2>2. ASSUME NEW i \in 1 .. n PROVE s[i] = d[i]
      <3>1. CASE i <= last
        <4>1. i \in 1 .. last
          BY <1>5, <3>1
        <4> QED
          BY <1>9, <1>14, <4>1 DEF Joins
      <3>2. CASE i > last
        <4>1. i - last \in 1 .. m /\ last + (i - last) = i
          BY <1>5, <1>10, <3>2
        <4>2. s[last + (i - last)] = z[i - last]
          BY <1>9, <1>12, <1>14, <4>1 DEF Joins
        <4> QED
          BY <1>6, <1>12, <3>2, <4>1, <4>2
      <3> QED
        BY <1>5, <3>1, <3>2
    <2> QED
      BY <1>1, <2>1, <2>2
  <1>16. Text!Value(d) = Text!Value(t) * Text!Scale(m)
    BY <1>9, <1>11, <1>13, <1>15, ValuePadded
  <1>17. Len(t) <= Len(d) /\ Len(d) - Len(t) = m
    BY <1>1, <1>5, <1>9, <1>10
  <1>18. Len(d) > 0 => (Len(t) = Len(d) <=> d[Len(d)] # 0)
    <2> SUFFICES ASSUME n > 0 PROVE last = n <=> d[n] # 0
      BY <1>1, <1>9
    <2>1. n \in 1 .. n
      OBVIOUS
    <2> QED
      BY <1>5, <1>6, <2>1
  <1> QED
    BY <1>7, <1>9, <1>16, <1>17, <1>18 DEF Trims

(* A number spelt with a point, and the number that text counts.                      *)
Spelt(t, n, places) ==
    /\ t = [whole |-> t.whole, frac |-> t.frac]
    /\ t.whole = n \div Text!Scale(places) /\ t.whole \in Nat
    /\ t.frac \in Seq(0 .. 9) /\ Len(t.frac) <= places
    /\ n = t.whole * Text!Scale(places)
           + Text!Value(t.frac) * Text!Scale(places - Len(t.frac))
    /\ places > 0 => (Len(t.frac) = places <=> n % 10 # 0)

LEMMA SpellIs ==
    ASSUME NEW n \in Nat, NEW places \in Nat
    PROVE  Spelt(Text!Spell(n, places), n, places)
  <1>1. PICK y \in Nat \ {0} : y = Text!Scale(places)
    BY ScaleIsSome
  <1>2. PICK q \in Nat, m \in Nat : q = n \div y /\ m = n % y /\ n = y * q + m /\ m < y
    BY Divided
  <1>3. PICK d \in Seq(0 .. 9) : /\ d = Text!Digits(m, places) /\ Len(d) = places
                                 /\ Text!Value(d) = m
                                 /\ places > 0 => d[places] = m % 10
    BY <1>1, <1>2, DigitsAre
  <1>4. PICK f : f = Text!Trimmed(d) /\ Trims(f, d)
    BY TrimmedIs
  <1>4a. /\ f \in Seq(0 .. 9) /\ Len(f) <= Len(d)
         /\ Text!Value(d) = Text!Value(f) * Text!Scale(Len(d) - Len(f))
         /\ Len(d) > 0 => (Len(f) = Len(d) <=> d[Len(d)] # 0)
    BY <1>4, Zenon DEF Trims
  <1>5. PICK t : t = Text!Spell(n, places)
    OBVIOUS
  <1>6. t = [whole |-> q, frac |-> f]
    <2>1. t = [whole |-> n \div Text!Scale(places),
               frac |-> Text!Trimmed(Text!Digits(n % Text!Scale(places), places))]
      BY <1>5, Zenon DEF Text!Spell
    <2>2. Text!Digits(n % Text!Scale(places), places) = d
      BY <1>1, <1>2, <1>3, Zenon
    <2>3. n \div Text!Scale(places) = q
      BY <1>1, <1>2, Zenon
    <2> QED
      BY <1>4, <2>1, <2>2, <2>3, Zenon
  <1>7. t.whole = q /\ t.frac = f /\ t = [whole |-> t.whole, frac |-> t.frac]
    BY <1>6
  <1>8. f \in Seq(0 .. 9) /\ Len(f) <= places /\ m = Text!Value(f) * Text!Scale(places - Len(f))
    BY <1>3, <1>4a, Zenon
  <1>9. n = q * y + Text!Value(f) * Text!Scale(places - Len(f))
    <2>1. y * q = q * y
      OBVIOUS
    <2> QED
      BY <1>2, <1>8, <2>1
  <1>10. places > 0 => (Len(f) = places <=> n % 10 # 0)
    <2> SUFFICES ASSUME places > 0 PROVE Len(f) = places <=> n % 10 # 0
      OBVIOUS
    <2>1. Len(f) = places <=> m % 10 # 0
      <3>1. d[places] = m % 10
        BY <1>3
      <3> QED
        BY <1>3, <1>4a, <3>1, Zenon
    <2>2. n % 10 = m % 10
      <3>1. PICK k \in Nat : k = places - 1 /\ k + 1 = places
        <4>1. places - 1 \in Nat /\ (places - 1) + 1 = places
          OBVIOUS
        <4> QED
          BY <4>1
      <3>2. PICK x \in Nat : x = Text!Scale(k)
        BY ScaleIsSome
      <3>3. y = 10 * x
        BY <1>1, <3>1, <3>2, ScaleGrows
      <3>4. PICK a \in Nat, b \in Nat : b = m % 10 /\ m = 10 * a + b /\ b < 10
        <4>1. 10 \in Nat \ {0}
          OBVIOUS
        <4> QED
          BY <4>1, Divided
      <3>5. PICK c \in Nat : c = x * q + a
        OBVIOUS
      <3>6. n = 10 * c + b
        <4>1. PICK w \in Nat : w = x * q
          OBVIOUS
        <4>2. y * q = 10 * w
          BY <3>3, <4>1
        <4>3. n = 10 * w + m /\ c = w + a /\ m = 10 * a + b
          BY <1>2, <3>4, <3>5, <4>1, <4>2
        <4> QED
          BY <4>3
      <3>7. n % 10 = b
        <4>1. 10 \in Nat \ {0}
          OBVIOUS
        <4> QED
          BY <3>4, <3>6, <4>1, QuotientBy
      <3> QED
        BY <3>4, <3>7
    <2> QED
      BY <2>1, <2>2
  <1>11. t.whole = n \div Text!Scale(places) /\ t.whole \in Nat
    BY <1>1, <1>2, <1>7
  <1>12. t.frac \in Seq(0 .. 9) /\ Len(t.frac) <= places
    BY <1>7, <1>8
  <1>13. n = t.whole * Text!Scale(places) + Text!Value(t.frac) * Text!Scale(places - Len(t.frac))
    BY <1>1, <1>7, <1>9
  <1>14. places > 0 => (Len(t.frac) = places <=> n % 10 # 0)
    BY <1>7, <1>10
  <1> QED
    BY <1>5, <1>7, <1>11, <1>12, <1>13, <1>14 DEF Spelt

LEMMA CountIs ==
    ASSUME NEW t, t.frac \in Seq(0 .. 9), NEW places \in Nat, Len(t.frac) <= places
    PROVE  Text!Count(t, places) = t.whole * Text!Scale(places)
                                   + Text!Value(t.frac) * Text!Scale(places - Len(t.frac))
  <1>1. PICK m \in Nat : m = places - Len(t.frac)
    <2>1. places - Len(t.frac) \in Nat
      OBVIOUS
    <2> QED
      BY <2>1
  <1>2. t.frac \in Seq(Nat)
    OBVIOUS
  <1>3. Text!Value(t.frac \o Text!Zeros(m)) = Text!Value(t.frac) * Text!Scale(m)
    BY <1>2, ValuePadded
  <1> QED
    BY <1>1, <1>3, Zenon DEF Text!Count

LEMMA CountsWhatIsSpelt ==
    ASSUME NEW n \in Nat, NEW places \in Nat
    PROVE  Text!Count(Text!Spell(n, places), places) = n
  <1>1. PICK t : t = Text!Spell(n, places) /\ Spelt(t, n, places)
    BY SpellIs
  <1>2. t.frac \in Seq(0 .. 9) /\ Len(t.frac) <= places
    BY <1>1 DEF Spelt
  <1>3. Text!Count(t, places) = t.whole * Text!Scale(places)
                                + Text!Value(t.frac) * Text!Scale(places - Len(t.frac))
    BY <1>2, CountIs
  <1> QED
    BY <1>1, <1>3 DEF Spelt

------------------------------------------------------------------------------
LEMMA Hundred == Text!Scale(1) = 10 /\ Text!Scale(2) = 100 /\ Text!Scale(3) = 1000
  <1>1. Text!Scale(0 + 1) = 10 * Text!Scale(0)
    <2>1. 0 \in Nat
      OBVIOUS
    <2> QED
      BY <2>1, ScaleGrows
  <1>2. Text!Scale(1 + 1) = 10 * Text!Scale(1)
    <2>1. 1 \in Nat
      OBVIOUS
    <2> QED
      BY <2>1, ScaleGrows
  <1>3. Text!Scale(2 + 1) = 10 * Text!Scale(2)
    <2>1. 2 \in Nat
      OBVIOUS
    <2> QED
      BY <2>1, ScaleGrows
  <1>4. 0 + 1 = 1 /\ 1 + 1 = 2 /\ 2 + 1 = 3
    OBVIOUS
  <1>5. Text!Scale(1) = 10
    BY <1>1, <1>4, ScaleOfNone
  <1>6. Text!Scale(2) = 100
    BY <1>2, <1>4, <1>5
  <1> QED
    BY <1>3, <1>4, <1>5, <1>6

(* The whole part is no more than the largest exactly below the next one.               *)
LEMMA WholeIsUpTo ==
    ASSUME NEW n \in Nat, NEW d \in Nat \ {0}, NEW largest \in Nat
    PROVE  n \div d <= largest <=> n < (largest + 1) * d
  <1>1. PICK q \in Nat, r \in Nat : q = n \div d /\ n = d * q + r /\ r < d
    BY Divided
  <1>2. (largest + 1) * d = d * largest + d /\ d * largest \in Nat /\ d * q \in Nat
    OBVIOUS
  <1>3. CASE q <= largest
    <2>1. PICK e \in Nat : largest = q + e
      <3>1. largest - q \in Nat /\ largest = q + (largest - q)
        BY <1>3
      <3> QED
        BY <3>1
    <2>2. d * largest = d * q + d * e /\ d * e \in Nat
      BY <2>1
    <2> QED
      BY <1>1, <1>2, <1>3, <2>2
  <1>4. CASE q > largest
    <2>1. PICK e \in Nat : q = largest + 1 + e
      <3>1. q - largest - 1 \in Nat /\ q = largest + 1 + (q - largest - 1)
        BY <1>4
      <3> QED
        BY <3>1
    <2>2. d * q = d * largest + d + d * e /\ d * e \in Nat
      BY <2>1
    <2> QED
      BY <1>1, <1>2, <1>4, <2>2
  <1> QED
    BY <1>3, <1>4

(* What a form shows reads back, unless its whole part is too large for it.             *)
LEMMA ReadsBack ==
    ASSUME NEW n \in Nat, NEW places \in Nat, NEW largest \in Nat
    PROVE  Text!Readable(Text!Spell(n, places), places, largest)
               <=> n < (largest + 1) * Text!Scale(places)
  <1>1. PICK t : t = Text!Spell(n, places) /\ Spelt(t, n, places)
    BY SpellIs
  <1>2. PICK y \in Nat \ {0} : y = Text!Scale(places)
    BY ScaleIsSome
  <1>3. t.whole = n \div y /\ Len(t.frac) <= places
    BY <1>1, <1>2, Zenon DEF Spelt
  <1>4. n \div y <= largest <=> n < (largest + 1) * y
    BY WholeIsUpTo
  <1> QED
    BY <1>1, <1>2, <1>3, <1>4 DEF Text!Readable

(* Of three decimals, a form of two reads what has no third one, and that ten times less. *)
LEMMA ReadsTwoOfThree ==
    ASSUME NEW n \in Nat, NEW t, Spelt(t, n, 3)
    PROVE  /\ n % 10 # 0 => Len(t.frac) > 2
           /\ n % 10 = 0 => Len(t.frac) <= 2 /\ Text!Count(t, 2) = n \div 10
  <1>1. PICK w \in Nat, x \in Nat : w = t.whole /\ x = Text!Value(t.frac)
    <2>1. t.frac \in Seq(Nat) /\ t.whole \in Nat
      <3>1. t.frac \in Seq(0 .. 9) /\ t.whole \in Nat
        BY DEF Spelt
      <3> QED
        BY <3>1
    <2> QED
      BY <2>1, ValueIsNat
  <1>2. PICK k : k = Len(t.frac)
    OBVIOUS
  <1>3. /\ t.frac \in Seq(0 .. 9) /\ k \in 0 .. 3
        /\ n = w * 1000 + x * Text!Scale(3 - k)
        /\ k = 3 <=> n % 10 # 0
    <2>1. t.frac \in Seq(0 .. 9) /\ Len(t.frac) <= 3
      BY Zenon DEF Spelt
    <2>2. k \in 0 .. 3
      <3>1. PICK f \in Seq(0 .. 9) : f = t.frac /\ Len(f) <= 3
        BY <2>1
      <3>2. PICK m \in Nat : m = Len(f)
        OBVIOUS
      <3>3. Len(f) \in 0 .. 3
        <4>1. m <= 3
          BY <3>1, <3>2, Zenon
        <4>2. m \in 0 .. 3
          BY <4>1
        <4> QED
          BY <3>2, <4>2, Zenon
      <3> QED
        BY <1>2, <3>1, <3>3, Zenon
    <2>3. n = t.whole * Text!Scale(3) + Text!Value(t.frac) * Text!Scale(3 - Len(t.frac))
      BY Zenon DEF Spelt
    <2>4. n = w * 1000 + x * Text!Scale(3 - k)
      BY <1>1, <1>2, <2>3, Hundred, ZenonT(60)
    <2>5. 3 > 0
      OBVIOUS
    <2>6. Len(t.frac) = 3 <=> n % 10 # 0
      BY <2>5, Zenon DEF Spelt
    <2> QED
      BY <1>2, <2>1, <2>2, <2>4, <2>6
  <1>4. ASSUME n % 10 = 0
        PROVE  k <= 2 /\ Text!Count(t, 2) = n \div 10
    <2>1. k \in 0 .. 2 /\ 2 - k \in Nat /\ (2 - k) + 1 = 3 - k
      BY <1>3, <1>4
    <2>2. PICK y \in Nat : y = Text!Scale(2 - k)
      BY <2>1, ScaleIsSome
    <2>3. Text!Scale(3 - k) = 10 * y
      BY <2>1, <2>2, ScaleGrows
    <2>4. PICK z \in Nat : z = x * y
      OBVIOUS
    <2>5. x * (10 * y) = 10 * z
      BY <2>4
    <2>6. n = 10 * (w * 100 + z) + 0
      <3>1. n = w * 1000 + 10 * z
        BY <1>3, <2>3, <2>5, ZenonT(60)
      <3> QED
        BY <3>1
    <2>7. Text!Count(t, 2) = w * 100 + z
      <3>1. Len(t.frac) <= 2 /\ 2 \in Nat
        BY <1>2, <2>1
      <3>2. Text!Count(t, 2) = t.whole * Text!Scale(2)
                               + Text!Value(t.frac) * Text!Scale(2 - Len(t.frac))
        BY <1>3, <3>1, CountIs
      <3> QED
        BY <1>1, <1>2, <2>2, <2>4, <3>2, Hundred, Zenon
    <2>8. n \div 10 = w * 100 + z
      <3>1. PICK c \in Nat : c = w * 100 + z
        OBVIOUS
      <3>2. 10 \in Nat \ {0} /\ 0 \in Nat /\ 0 < 10 /\ n = 10 * c + 0
        BY <2>6, <3>1
      <3>3. n \div 10 = c
        BY <3>2, QuotientBy
      <3> QED
        BY <3>1, <3>3
    <2> QED
      BY <2>1, <2>7, <2>8
  <1>5. n % 10 # 0 => k > 2
    BY <1>3
  <1> QED
    BY <1>2, <1>4, <1>5, Zenon

LEMMA TextDoesRoundTrip == NumbersInv => TextRoundTrips
  <1> SUFFICES ASSUME NumbersInv, side = "text" PROVE TextRoundTrips
    BY DEF TextRoundTrips
  <1>1. PICK n \in Nat : n = input
    BY TextAssumption DEF NumbersInv
  <1>2. /\ UnitPlaces \in Nat /\ PricePlaces \in Nat /\ 2 \in Nat /\ 3 \in Nat
        /\ MaxRupees \in Nat /\ MaxGrams \in Nat
    BY TextAssumption
  <1>3. Text!ToUnits(Text!FormatUnits(n)) = n
    BY <1>2, CountsWhatIsSpelt DEF Text!ToUnits, Text!FormatUnits
  <1>4. Text!ToPriceUnits(Text!FromPriceUnits(n)) = n
    BY <1>2, CountsWhatIsSpelt DEF Text!ToPriceUnits, Text!FromPriceUnits
  <1>5. PICK t : t = Text!Spell(n, 2)
    OBVIOUS
  <1>6. Text!Count(t, 2) = n /\ Spelt(t, n, 2)
    BY <1>2, <1>5, CountsWhatIsSpelt, SpellIs
  <1>7. Text!ParseRupees(Text!PaiseToInput(n)) = IF n < (MaxRupees + 1) * 100 THEN n ELSE Null
    <2>1. Text!Readable(t, 2, MaxRupees) <=> n < (MaxRupees + 1) * 100
      <3>1. Text!Readable(t, 2, MaxRupees) <=> n < (MaxRupees + 1) * Text!Scale(2)
        BY <1>2, <1>5, ReadsBack
      <3> QED
        BY <3>1, Hundred, Zenon
    <2> QED
      BY <1>5, <1>6, <2>1, Zenon DEF Text!ParseRupees, Text!PaiseToInput
  <1>8. Text!ParseGrams(Text!GramsToInput(n)) = IF n < (MaxGrams + 1) * 1000 THEN n ELSE Null
    <2>1. Text!Readable(Text!Spell(n, 3), 3, MaxGrams) <=> n < (MaxGrams + 1) * 1000
      <3>1. Text!Readable(Text!Spell(n, 3), 3, MaxGrams) <=> n < (MaxGrams + 1) * Text!Scale(3)
        BY <1>2, ReadsBack
      <3> QED
        BY <3>1, Hundred, ZenonT(60)
    <2>2. Text!Count(Text!Spell(n, 3), 3) = n
      BY <1>2, CountsWhatIsSpelt
    <2> QED
      BY <2>1, <2>2, Zenon DEF Text!ParseGrams, Text!GramsToInput
  <1>9. Text!ParsePercent(Text!BpsToPercent(n)) = IF n < 10001 THEN n ELSE Null
    <2>1. Len(t.frac) <= 2
      BY <1>6, Zenon DEF Spelt
    <2>2. n <= 10000 <=> n < 10001
      OBVIOUS
    <2> QED
      <3>1. Text!ParsePercent(t) = IF n <= 10000 THEN n ELSE Null
        BY <1>6, <2>1 DEF Text!ParsePercent
      <3> QED
        BY <1>5, <2>2, <3>1 DEF Text!BpsToPercent
  <1>10. Text!ParseRupees(Text!GramsToInput(n)) =
             IF n % 10 = 0 THEN IF n < (MaxRupees + 1) * 1000 THEN n \div 10 ELSE Null ELSE Null
    <2>1. PICK u : u = Text!Spell(n, 3) /\ Spelt(u, n, 3)
      BY <1>2, SpellIs
    <2>2. /\ n % 10 # 0 => Len(u.frac) > 2
          /\ n % 10 = 0 => Len(u.frac) <= 2 /\ Text!Count(u, 2) = n \div 10
      BY <2>1, ReadsTwoOfThree
    <2>3. u.whole <= MaxRupees <=> n < (MaxRupees + 1) * 1000
      <3>1. u.whole = n \div 1000
        BY <2>1, Hundred, ZenonT(60) DEF Spelt
      <3>2. 1000 \in Nat \ {0}
        OBVIOUS
      <3> QED
        BY <1>2, <3>1, <3>2, WholeIsUpTo
    <2>4. CASE n % 10 = 0
      BY <2>1, <2>2, <2>3, <2>4, Zenon DEF Text!ParseRupees, Text!GramsToInput, Text!Readable
    <2>5. CASE n % 10 # 0
      <3>1. ~(Len(u.frac) <= 2)
        <4>1. u.frac \in Seq(0 .. 9)
          BY <2>1, Zenon DEF Spelt
        <4> QED
          BY <2>2, <2>5, <4>1
      <3> QED
        BY <2>1, <2>5, <3>1, Zenon DEF Text!ParseRupees, Text!GramsToInput, Text!Readable
    <2> QED
      BY <2>4, <2>5
  <1>11. /\ Text!ToUnits(Text!FormatUnits(input)) = input
         /\ Text!ToPriceUnits(Text!FromPriceUnits(input)) = input
    BY <1>1, <1>3, <1>4, Zenon
  <1>12. Text!ParseRupees(Text!PaiseToInput(input))
             = IF input < (MaxRupees + 1) * 100 THEN input ELSE Null
    BY <1>1, <1>7, Zenon
  <1>14. Text!ParseGrams(Text!GramsToInput(input))
             = IF input < (MaxGrams + 1) * 1000 THEN input ELSE Null
    BY <1>1, <1>8, Zenon
  <1>15. Text!ParsePercent(Text!BpsToPercent(input)) = IF input < 10001 THEN input ELSE Null
    BY <1>1, <1>9
  <1>13. Text!ParseRupees(Text!GramsToInput(input)) =
             IF input % 10 = 0
             THEN IF input < (MaxRupees + 1) * 1000 THEN input \div 10 ELSE Null ELSE Null
    BY <1>1, <1>10, Zenon
  <1> QED
    BY <1>11, <1>12, <1>13, <1>14, <1>15 DEF TextRoundTrips
==============================================================================
