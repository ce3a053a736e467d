--------------------------- MODULE HouseholdProofs ---------------------------
(* Proofs that who is admitted to a household has a right to it, and that    *)
(* the server's tables implement Standing, on which the gate of a member's   *)
(* device relies, for any people, households and lifetimes.                  *)
EXTENDS MCHousehold, TLAPS

LEMMA MembersInit == Members!NullIsApart /\ Members!Init => Members!MembersInv
  <1> SUFFICES ASSUME Members!NullIsApart, Members!Init PROVE Members!MembersInv
    OBVIOUS
  <1>1. Members!TablesOK
    BY DEF Members!Init, Members!TablesOK
  <1>2. Members!OneOwner /\ Members!SharedProtected /\ Members!SignupOutlives /\ Members!ExpiryInTTL
    BY DEF Members!Init, Members!OneOwner, Members!SharedProtected, Members!SignupOutlives,
           Members!ExpiryInTTL
  <1>3. ASSUME NEW p \in People PROVE Members!RequestHolds(p) /\ Members!PanelHolds(p)
    BY DEF Members!Init, Members!RequestHolds, Members!PanelHolds, Members!Busy,
           Members!List
  <1> QED BY <1>1, <1>2, <1>3 DEF Members!MembersInv

(* Steps that give nobody anything: the tables stay, or lose an invite.      *)
OnlyLess ==
    /\ now' \in Nat /\ now <= now'
    /\ accounts \subseteq accounts' /\ accounts' \subseteq People /\ vault' = vault /\ member' = member
    /\ signup' = signup
    /\ invite' \in [Households -> [People -> Members!Invites \cup {Null}]]
    /\ \A h \in Households, e \in People : invite'[h][e] = invite[h][e] \/ invite'[h][e] = Null
    /\ request' = [p \in People |-> request'[p]] /\ panel' = [p \in People |-> panel'[p]]

LEMMA LessKeeps ==
    ASSUME Members!NullIsApart, TTL \in Nat, Members!MembersInv, OnlyLess,
           owner' \in People \cup {Null}, claimants' \subseteq People, Members!OneOwner',
           \A p \in People : Members!RequestHolds(p)' /\ Members!PanelHolds(p)'
    PROVE  Members!MembersInv'
  <1>1. Members!TablesOK'
    BY DEF Members!MembersInv, Members!TablesOK, OnlyLess
  <1>2. Members!SharedProtected'
    BY DEF Members!MembersInv, Members!SharedProtected, OnlyLess, Members!Guarded
  <1>3. Members!SignupOutlives'
    BY DEF Members!MembersInv, Members!SignupOutlives, OnlyLess
  <1>4. Members!ExpiryInTTL'
    BY DEF Members!MembersInv, Members!TablesOK, Members!ExpiryInTTL, OnlyLess,
           Members!Invites, Members!Signups
  <1> QED BY <1>1, <1>2, <1>3, <1>4 DEF Members!MembersInv

(* What was right about a request stays right while tables only grow.       *)
Grows ==
    /\ accounts \subseteq accounts'
    /\ owner # Null => owner' = owner
    /\ \A h \in Households, e \in People : member[h][e] # Null => member'[h][e] # Null
    /\ \A e \in People : /\ vault[e] # "none" => vault'[e] # "none"
                         /\ vault[e] = "protected" => vault'[e] = "protected"

LEMMA HeldStays ==
    ASSUME Members!NullIsApart, Members!MembersInv, Grows, NEW q \in People
    PROVE  /\ request'[q] = request[q] => Members!RequestHolds(q)'
           /\ panel'[q] = panel[q] => Members!PanelHolds(q)'
  <1>1. Members!RequestHolds(q) /\ Members!PanelHolds(q)
    BY DEF Members!MembersInv
  <1>2. ASSUME request'[q] = request[q] PROVE Members!RequestHolds(q)'
    BY <1>1, <1>2 DEF Members!RequestHolds, Members!Busy, Members!Guarded, Grows,
                      Members!NullIsApart
  <1>3. ASSUME panel'[q] = panel[q] PROVE Members!PanelHolds(q)'
    BY <1>1, <1>3 DEF Members!PanelHolds, Members!Guarded, Grows
  <1> QED BY <1>2, <1>3

(* A step of p's leaves the requests of others, and what they show.         *)
LEMMA OthersHold ==
    ASSUME Members!NullIsApart, Members!MembersInv, Grows, NEW p \in People,
           \A q \in People \ {p} : request'[q] = request[q] /\ panel'[q] = panel[q],
           Members!RequestHolds(p)', Members!PanelHolds(p)'
    PROVE  \A q \in People : Members!RequestHolds(q)' /\ Members!PanelHolds(q)'
  BY HeldStays

LEMMA AccountKeeps ==
    ASSUME Members!NullIsApart, TTL \in Nat, Members!MembersInv, NEW p \in People,
           Members!AskCode(p) \/ Members!BeforeCreate(p) \/ Members!Claim(p) \/ Members!Lose(p)
    PROVE  Members!MembersInv'
  <1>1. Members!TablesOK /\ Members!OneOwner
    BY DEF Members!MembersInv
  <1>2. /\ UNCHANGED <<now, accounts, signup, vault, invite, member, panel, claimants>>
        /\ owner' = owner \/ (owner = Null /\ owner' = p)
    BY DEF Members!AskCode, Members!BeforeCreate, Members!Claim, Members!Lose
  <1>3. PICK r : request' = [request EXCEPT ![p] = r] /\ (r # Null => r.at \in {"coded", "claim", "create"})
    BY DEF Members!AskCode, Members!BeforeCreate, Members!Claim, Members!Lose, Members!Goes
  <1>4. OnlyLess /\ Grows /\ owner' \in People \cup {Null}
    <2>1. /\ request' = [q \in People |-> request'[q]] /\ panel' = [q \in People |-> panel'[q]]
      BY <1>1, <1>2, <1>3 DEF Members!TablesOK
    <2>2. OnlyLess
      BY <1>1, <1>2, <2>1 DEF OnlyLess, Members!TablesOK
    <2> QED BY <1>1, <1>2, <2>2 DEF Grows, Members!TablesOK
  <1>5. Members!OneOwner' /\ claimants' \subseteq People
    BY <1>1, <1>2 DEF Members!OneOwner, Members!TablesOK, Members!NullIsApart
  <1>6. Members!PanelHolds(p)' /\ \A q \in People \ {p} : request'[q] = request[q] /\ panel'[q] = panel[q]
    BY <1>1, <1>2, <1>3, <1>4, HeldStays DEF Members!TablesOK
  <1>7. request'[p] = r
    BY <1>1, <1>3 DEF Members!TablesOK
  <1>8. Members!RequestHolds(p)'
    <2>1. ASSUME r # Null, r.at = "create", r.claims PROVE owner' = p
      <3>1. CASE Members!Claim(p)
        BY <1>1, <1>7, <2>1, <3>1 DEF Members!Claim, Members!Goes, Members!TablesOK
      <3>2. CASE Members!AskCode(p) \/ Members!BeforeCreate(p) \/ Members!Lose(p)
        BY <1>1, <1>7, <2>1, <3>2 DEF Members!AskCode, Members!BeforeCreate, Members!Lose,
                                      Members!Goes, Members!TablesOK
      <3> QED BY <3>1, <3>2
    <2> QED BY <1>3, <1>7, <2>1 DEF Members!RequestHolds, Members!Busy
  <1> QED BY <1>4, <1>5, <1>6, <1>8, OthersHold, LessKeeps

LEMMA PanelKeeps ==
    ASSUME Members!NullIsApart, TTL \in Nat, Members!MembersInv, NEW p \in People,
           \/ Members!Matches(p) \/ Members!DoesNotMatch(p) \/ Members!ClosePanel(p)
           \/ \E h \in Households : \/ Members!DeclineInvite(p, h)
                                  \/ \E e \in People : Members!AskInvite(p, h, e) \/ Members!OpenCheck(p, h, e)
    PROVE  Members!MembersInv'
  <1>1. Members!TablesOK /\ Members!OneOwner /\ Members!RequestHolds(p) /\ Members!PanelHolds(p)
    BY DEF Members!MembersInv
  <1>2. UNCHANGED <<now, accounts, owner, signup, vault, member, claimants>>
    BY DEF Members!Matches, Members!DoesNotMatch, Members!ClosePanel,
           Members!DeclineInvite, Members!AskInvite, Members!OpenCheck
  <1>3. Grows /\ Members!OneOwner' /\ owner' \in People \cup {Null} /\ claimants' \subseteq People
    BY <1>1, <1>2 DEF Grows, Members!OneOwner, Members!TablesOK
  <1>4. /\ request' = request \/ \E r : request' = [request EXCEPT ![p] = r]
        /\ panel' = panel \/ \E r : panel' = [panel EXCEPT ![p] = r]
    BY DEF Members!Matches, Members!DoesNotMatch, Members!ClosePanel,
           Members!DeclineInvite, Members!AskInvite, Members!OpenCheck, Members!Goes
  <1>5. /\ request' = [q \in People |-> request'[q]] /\ panel' = [q \in People |-> panel'[q]]
        /\ \A q \in People \ {p} : request'[q] = request[q] /\ panel'[q] = panel[q]
    BY <1>1, <1>4 DEF Members!TablesOK
  <1>6. /\ invite' \in [Households -> [People -> Members!Invites \cup {Null}]]
        /\ \A h \in Households, e \in People : invite'[h][e] = invite[h][e] \/ invite'[h][e] = Null
    <2>1. CASE invite' = invite
      BY <1>1, <2>1 DEF Members!TablesOK
    <2>2. ASSUME NEW h \in Households, NEW e \in People, invite' = [invite EXCEPT ![h][e] = Null]
          PROVE  /\ invite' \in [Households -> [People -> Members!Invites \cup {Null}]]
                 /\ \A g \in Households, q \in People :
                       invite'[g][q] = invite[g][q] \/ invite'[g][q] = Null
      BY <1>1, <2>2 DEF Members!TablesOK
    <2> QED BY <1>1, <2>1, <2>2
            DEF Members!Matches, Members!DoesNotMatch, Members!ClosePanel,
                Members!DeclineInvite, Members!AskInvite, Members!OpenCheck,
                Members!PanelHolds
  <1>7. OnlyLess
    BY <1>1, <1>2, <1>5, <1>6 DEF OnlyLess, Members!TablesOK
  <1>8. Members!RequestHolds(p)' /\ Members!PanelHolds(p)'
    <2>1. CASE Members!Matches(p)
      BY <1>1, <1>2, <2>1 DEF Members!Matches, Members!Goes, Members!Ready,
                              Members!RequestHolds, Members!PanelHolds, Members!Busy,
                              Members!Guarded, Members!List, Members!TablesOK
    <2>2. CASE Members!DoesNotMatch(p) \/ Members!ClosePanel(p) \/ \E h \in Households : Members!DeclineInvite(p, h)
      BY <1>1, <1>2, <1>3, <2>2, HeldStays
         DEF Members!DoesNotMatch, Members!ClosePanel, Members!DeclineInvite,
             Members!PanelHolds, Members!List, Members!TablesOK
    <2>3. ASSUME NEW h \in Households, NEW e \in People, Members!AskInvite(p, h, e)
          PROVE  Members!RequestHolds(p)' /\ Members!PanelHolds(p)'
      <3>1. CASE vault[p] = "protected"
        BY <1>1, <1>2, <1>3, <2>3, <3>1, HeldStays
           DEF Members!AskInvite, Members!Goes, Members!RequestHolds, Members!Busy,
               Members!Guarded, Members!TablesOK
      <3>2. CASE vault[p] # "protected"
        BY <1>1, <1>2, <1>3, <2>3, <3>2, HeldStays
           DEF Members!AskInvite, Members!PanelHolds, Members!Guarded, Members!TablesOK
      <3> QED BY <3>1, <3>2
    <2>4. ASSUME NEW h \in Households, NEW e \in People, Members!OpenCheck(p, h, e)
          PROVE  Members!RequestHolds(p)' /\ Members!PanelHolds(p)'
      BY <1>1, <1>2, <1>3, <2>4, HeldStays
         DEF Members!OpenCheck, Members!PanelHolds, Members!TablesOK
    <2> QED BY <2>1, <2>2, <2>3, <2>4
  <1> QED BY <1>3, <1>5, <1>7, <1>8, OthersHold, LessKeeps

LEMMA CreateAccountKeeps ==
    ASSUME Members!NullIsApart, Members!MembersInv, NEW p \in People, Members!CreateAccount(p)
    PROVE  Members!MembersInv'
  <1>1. Members!TablesOK /\ Members!RequestHolds(p)
    BY DEF Members!MembersInv
  <1>2. UNCHANGED <<now, owner, signup, vault, invite, member, panel>> /\ accounts' = accounts \cup {p}
    BY DEF Members!CreateAccount
  <1>3. Members!TablesOK' /\ Grows
    BY <1>1, <1>2 DEF Members!CreateAccount, Members!Goes, Members!TablesOK, Grows
  <1>4. Members!OneOwner'
    BY <1>1, <1>2 DEF Members!CreateAccount, Members!Busy, Members!RequestHolds,
                      Members!OneOwner, Members!MembersInv
  <1>5. Members!RequestHolds(p)'
    BY <1>1, <1>2 DEF Members!CreateAccount, Members!Goes, Members!RequestHolds,
                      Members!Busy, Members!TablesOK
  <1>6. \A q \in People : Members!RequestHolds(q)' /\ Members!PanelHolds(q)'
    BY <1>1, <1>2, <1>3, <1>5, HeldStays, OthersHold
       DEF Members!CreateAccount, Members!Goes, Members!TablesOK
  <1>7. Members!SharedProtected' /\ Members!SignupOutlives' /\ Members!ExpiryInTTL'
    BY <1>2 DEF Members!MembersInv, Members!SharedProtected, Members!Guarded,
                Members!SignupOutlives, Members!ExpiryInTTL
  <1> QED BY <1>3, <1>4, <1>6, <1>7 DEF Members!MembersInv

(* The account is there before its invite is used up.                       *)
LEMMA ConsumeKeeps ==
    ASSUME Members!NullIsApart, Members!MembersInv, NEW p \in People, Members!Consume(p)
    PROVE  Members!MembersInv'
  <1>1. Members!TablesOK /\ p \in accounts
    BY DEF Members!MembersInv, Members!RequestHolds, Members!Consume
  <1>2. UNCHANGED <<now, accounts, owner, vault, invite, member, panel, claimants>>
    BY DEF Members!Consume
  <1>3. /\ signup' \in [People -> Members!Signups \cup {Null}]
        /\ \A e \in People \ {p} : signup'[e] = signup[e]
        /\ signup'[p] # Null => signup[p] # Null /\ signup'[p].expires = signup[p].expires
    BY <1>1 DEF Members!Consume, Members!IsInvited, Members!TablesOK, Members!Signups
  <1>4. Members!TablesOK' /\ Grows /\ Members!OneOwner'
    BY <1>1, <1>2, <1>3 DEF Members!Consume, Members!Goes, Members!TablesOK, Grows,
                            Members!OneOwner, Members!MembersInv
  <1>5. request'[p] = Null
    BY <1>1 DEF Members!Consume, Members!Goes, Members!TablesOK
  <1>6. \A q \in People : Members!RequestHolds(q)' /\ Members!PanelHolds(q)'
    BY <1>1, <1>2, <1>4, <1>5, HeldStays, OthersHold
       DEF Members!Consume, Members!Goes, Members!TablesOK, Members!RequestHolds,
           Members!Busy
  <1>7. Members!SharedProtected' /\ Members!SignupOutlives' /\ Members!ExpiryInTTL'
    BY <1>1, <1>2, <1>3 DEF Members!MembersInv, Members!SharedProtected, Members!Guarded,
                            Members!SignupOutlives, Members!ExpiryInTTL
  <1> QED BY <1>4, <1>6, <1>7 DEF Members!MembersInv

(* A vault is only ever more than it was; protecting it sends the invite    *)
(* that waited.                                                             *)
LEMMA VaultKeeps ==
    ASSUME Members!NullIsApart, Members!MembersInv, NEW p \in People, Members!PutVault(p) \/ Members!Protect(p)
    PROVE  Members!MembersInv'
  <1>1. Members!TablesOK /\ Members!PanelHolds(p)
    BY DEF Members!MembersInv
  <1>2. UNCHANGED <<now, accounts, owner, signup, invite, member, claimants>>
    BY DEF Members!PutVault, Members!Protect
  <1>3. PICK v \in {"bare", "protected"} :
           /\ vault' = [vault EXCEPT ![p] = v]
           /\ vault[p] # "protected" /\ (Members!Protect(p) => v = "protected")
    BY DEF Members!PutVault, Members!Protect
  <1>4. Members!TablesOK' /\ Grows
    <2>1. request' = [q \in People |-> request'[q]] /\ panel' = [q \in People |-> panel'[q]]
      BY <1>1 DEF Members!PutVault, Members!Protect, Members!Goes, Members!TablesOK
    <2> QED BY <1>1, <1>2, <1>3, <2>1 DEF Members!TablesOK, Grows
  <1>5. Members!OneOwner' /\ Members!SignupOutlives' /\ Members!ExpiryInTTL'
    BY <1>2 DEF Members!MembersInv, Members!OneOwner, Members!SignupOutlives,
                Members!ExpiryInTTL
  <1>6. Members!SharedProtected'
    BY <1>1, <1>2, <1>3 DEF Members!MembersInv, Members!SharedProtected, Members!Guarded,
                            Members!TablesOK
  <1>7. Members!RequestHolds(p)' /\ Members!PanelHolds(p)'
    <2>1. CASE UNCHANGED <<request, panel>>
      BY <1>4, <2>1, HeldStays
    <2>2. CASE Members!Protect(p) /\ panel[p].at = "protecting"
      <3>1. /\ panel'[p] = Members!List /\ vault'[p] = "protected"
            /\ request'[p] = [at |-> "invite", household |-> panel[p].household, email |-> panel[p].email]
        BY <1>1, <1>3, <2>2 DEF Members!Protect, Members!Goes, Members!TablesOK
      <3> QED BY <1>1, <1>2, <2>2, <3>1 DEF Members!RequestHolds, Members!PanelHolds,
                                            Members!Busy, Members!Guarded, Members!List
    <2> QED BY <2>1, <2>2 DEF Members!PutVault, Members!Protect
  <1>8. \A q \in People \ {p} : request'[q] = request[q] /\ panel'[q] = panel[q]
    BY <1>1 DEF Members!PutVault, Members!Protect, Members!Goes, Members!TablesOK
  <1> QED BY <1>4, <1>5, <1>6, <1>7, <1>8, OthersHold DEF Members!MembersInv

LEMMA CreateHouseholdKeeps ==
    ASSUME Members!NullIsApart, Members!MembersInv, NEW p \in People, NEW h \in Households, Members!CreateHousehold(p, h)
    PROVE  Members!MembersInv'
  <1>1. Members!TablesOK
    BY DEF Members!MembersInv
  <1>2. /\ UNCHANGED <<now, accounts, owner, signup, vault, invite, request, panel, claimants>>
        /\ vault[p] # "none"
    BY DEF Members!CreateHousehold
  <1>3. /\ member' \in [Households -> [People -> Members!Wraps \cup {Null}]]
        /\ member'[h][p] # Null
        /\ \A g \in Households, q \in People : member'[g][q] = member[g][q] \/ (g = h /\ q = p)
    BY <1>1 DEF Members!CreateHousehold, Members!TablesOK, Members!Wraps,
                Members!NullIsApart
  <1>4. Members!TablesOK' /\ Grows
    BY <1>1, <1>2, <1>3 DEF Members!TablesOK, Grows
  <1>5. Members!OneOwner' /\ Members!SignupOutlives' /\ Members!ExpiryInTTL'
    BY <1>2 DEF Members!MembersInv, Members!OneOwner, Members!SignupOutlives,
                Members!ExpiryInTTL
  <1>6. Members!SharedProtected'
    BY <1>2, <1>3 DEF Members!MembersInv, Members!SharedProtected, Members!Guarded
  <1>7. \A q \in People : Members!RequestHolds(q)' /\ Members!PanelHolds(q)'
    BY <1>2, <1>4, HeldStays
  <1> QED BY <1>4, <1>5, <1>6, <1>7 DEF Members!MembersInv

(* The sign-up invite becomes as late as the latest of the household ones.  *)
LEMMA InviteKeeps ==
    ASSUME Members!NullIsApart, TTL \in Nat, Members!MembersInv, NEW p \in People, Members!InviteMember(p)
    PROVE  Members!MembersInv'
  <1> DEFINE h == request[p].household
             e == request[p].email
             late == now + TTL
  <1>1. /\ Members!TablesOK /\ h \in Households /\ e \in People /\ Members!Guarded(p, h) /\ vault[p] = "protected"
        /\ late \in Nat
    BY DEF Members!MembersInv, Members!RequestHolds, Members!InviteMember, Members!TablesOK
  <1>2. UNCHANGED <<now, accounts, owner, vault, member, panel, claimants>>
    BY DEF Members!InviteMember
  <1>3. PICK hh \in Households, ee \in People : hh = h /\ ee = e
    BY <1>1
  <1>4. /\ invite' = [invite EXCEPT ![hh][ee] = [expires |-> late]]
        /\ signup' = [signup EXCEPT ![ee] = Members!SignupExtended(@, late)]
    BY <1>3 DEF Members!InviteMember
  <1>5. [expires |-> late] \in Members!Invites /\ [expires |-> late, consumed |-> FALSE] \in Members!Signups
    BY <1>1 DEF Members!Invites, Members!Signups
  <1>6. /\ invite' \in [Households -> [People -> Members!Invites \cup {Null}]]
        /\ invite'[hh][ee].expires = late
        /\ \A g \in Households, q \in People : (g # hh \/ q # ee) => invite'[g][q] = invite[g][q]
    BY <1>1, <1>4, <1>5 DEF Members!TablesOK
  <1>7. /\ signup' \in [People -> Members!Signups \cup {Null}]
        /\ \A q \in People : q # ee => signup'[q] = signup[q]
        /\ \/ signup'[ee] = [expires |-> late, consumed |-> FALSE]
           \/ signup'[ee] = signup[ee] /\ signup[ee] # Null /\ signup[ee].consumed
    BY <1>1, <1>4, <1>5 DEF Members!TablesOK, Members!SignupExtended
  <1>8. Members!TablesOK' /\ Grows /\ Members!OneOwner' /\ request'[p] = Null
    BY <1>1, <1>2, <1>6, <1>7 DEF Members!InviteMember, Members!Goes, Members!TablesOK,
                                  Grows, Members!OneOwner, Members!MembersInv
  <1>9. \A q \in People : Members!RequestHolds(q)' /\ Members!PanelHolds(q)'
    BY <1>1, <1>2, <1>8, HeldStays, OthersHold
       DEF Members!InviteMember, Members!Goes, Members!TablesOK, Members!RequestHolds,
           Members!Busy
  <1>10. Members!SharedProtected'
    BY <1>1, <1>2, <1>3, <1>6 DEF Members!MembersInv, Members!SharedProtected,
                                  Members!Guarded
  <1>11. Members!ExpiryInTTL'
    BY <1>1, <1>2, <1>6, <1>7 DEF Members!MembersInv, Members!ExpiryInTTL, Members!TablesOK
  <1>12. Members!SignupOutlives'
    <2>1. [expires |-> late, consumed |-> FALSE] # Null
      BY <1>5 DEF Members!NullIsApart
    <2>2. ASSUME NEW q \in People, signup'[q] # Null, signup'[q].consumed PROVE q \in accounts'
      BY <1>2, <1>7, <2>2 DEF Members!MembersInv, Members!SignupOutlives
    <2>3. ASSUME NEW q \in People, q \notin accounts', NEW g \in Households, invite'[g][q] # Null
          PROVE  signup'[q] # Null /\ invite'[g][q].expires <= signup'[q].expires
      <3>1. CASE q # ee
        BY <1>2, <1>6, <1>7, <2>3, <3>1 DEF Members!MembersInv, Members!SignupOutlives
      <3>2. CASE q = ee
        <4>1. signup'[q] = [expires |-> late, consumed |-> FALSE]
          BY <1>2, <1>7, <2>3, <3>2 DEF Members!MembersInv, Members!SignupOutlives
        <4>2. invite'[g][q].expires <= late
          BY <1>1, <1>2, <1>11, <2>3 DEF Members!ExpiryInTTL
        <4> QED BY <2>1, <4>1, <4>2
      <3> QED BY <3>1, <3>2
    <2> QED BY <2>2, <2>3 DEF Members!SignupOutlives
  <1> QED BY <1>8, <1>9, <1>10, <1>11, <1>12 DEF Members!MembersInv

LEMMA AddKeeps ==
    ASSUME Members!NullIsApart, Members!MembersInv, NEW p \in People, Members!AddMember(p)
    PROVE  Members!MembersInv'
  <1>1. Members!TablesOK
    BY DEF Members!MembersInv
  <1>2. PICK h \in Households, e \in People :
           /\ h = request[p].household /\ e = request[p].email
           /\ Members!Guarded(p, h) /\ vault[e] # "none"
    BY DEF Members!MembersInv, Members!RequestHolds, Members!AddMember
  <1>3. /\ UNCHANGED <<now, accounts, owner, signup, vault, claimants>>
        /\ member' = IF member[h][e] = Null THEN [member EXCEPT ![h][e] = [by |-> p]] ELSE member
        /\ invite' = [invite EXCEPT ![h][e] = Null]
    BY <1>2 DEF Members!AddMember
  <1>4. /\ member' \in [Households -> [People -> Members!Wraps \cup {Null}]]
        /\ \A g \in Households, q \in People :
              \/ member'[g][q] = member[g][q]
              \/ g = h /\ q = e /\ member'[g][q] # Null
        /\ invite' \in [Households -> [People -> Members!Invites \cup {Null}]]
        /\ \A g \in Households, q \in People : invite'[g][q] = invite[g][q] \/ invite'[g][q] = Null
    <2>1. [by |-> p] \in Members!Wraps /\ [by |-> p] # Null
      BY DEF Members!Wraps, Members!NullIsApart
    <2> QED BY <1>1, <1>3, <2>1 DEF Members!TablesOK
  <1>5. Members!TablesOK' /\ Grows /\ Members!OneOwner'
    <2>1. request' = [q \in People |-> request'[q]] /\ panel' = [q \in People |-> panel'[q]]
      BY <1>1 DEF Members!AddMember, Members!Goes, Members!TablesOK
    <2> QED BY <1>1, <1>3, <1>4, <2>1 DEF Members!TablesOK, Grows, Members!OneOwner,
                                          Members!MembersInv
  <1>6. request'[p] = Null /\ panel'[p] = Members!List
    BY <1>1 DEF Members!AddMember, Members!Goes, Members!TablesOK
  <1>7. \A q \in People : Members!RequestHolds(q)' /\ Members!PanelHolds(q)'
    <2>1. Members!RequestHolds(p)' /\ Members!PanelHolds(p)'
      BY <1>6 DEF Members!RequestHolds, Members!PanelHolds, Members!Busy, Members!List
    <2>2. \A q \in People \ {p} : request'[q] = request[q] /\ panel'[q] = panel[q]
      BY <1>1 DEF Members!AddMember, Members!Goes, Members!TablesOK
    <2> QED BY <1>5, <2>1, <2>2, OthersHold
  <1>8. Members!SharedProtected'
    <2>1. ASSUME NEW g \in Households, NEW q \in People, invite'[g][q] # Null
          PROVE  \E a \in People : Members!Guarded(a, g)' /\ vault'[a] = "protected"
      <3>1. PICK a \in People : Members!Guarded(a, g) /\ vault[a] = "protected"
        BY <1>4, <2>1 DEF Members!MembersInv, Members!SharedProtected
      <3> QED BY <1>3, <1>5, <3>1 DEF Members!Guarded, Grows
    <2>2. ASSUME NEW g \in Households, NEW q \in People, member'[g][q] # Null PROVE vault'[q] # "none"
      BY <1>2, <1>3, <1>4, <2>2 DEF Members!MembersInv, Members!SharedProtected
    <2> QED BY <2>1, <2>2 DEF Members!SharedProtected
  <1>9. Members!SignupOutlives' /\ Members!ExpiryInTTL'
    BY <1>3, <1>4 DEF Members!MembersInv, Members!SignupOutlives, Members!ExpiryInTTL
  <1> QED BY <1>5, <1>7, <1>8, <1>9 DEF Members!MembersInv

LEMMA MembersNext == Members!NullIsApart /\ TTL \in Nat /\ Members!MembersInv /\ [Members!Next]_Members!vars => Members!MembersInv'
  <1> SUFFICES ASSUME Members!NullIsApart, TTL \in Nat, Members!MembersInv, [Members!Next]_Members!vars PROVE Members!MembersInv'
    OBVIOUS
  <1>1. ASSUME UNCHANGED <<accounts, owner, signup, vault, invite, member, request, panel, claimants>>,
               now' \in Nat, now <= now'
        PROVE  Members!MembersInv'
    <2>1. OnlyLess /\ Grows /\ Members!OneOwner'
      BY <1>1 DEF OnlyLess, Grows, Members!OneOwner, Members!MembersInv, Members!TablesOK
    <2>2. \A q \in People : Members!RequestHolds(q)' /\ Members!PanelHolds(q)'
      BY <1>1, <2>1, HeldStays
    <2> QED BY <1>1, <2>1, <2>2, LessKeeps DEF Members!MembersInv, Members!TablesOK
  <1>2. CASE Members!Tick
    BY <1>1, <1>2 DEF Members!Tick, Members!MembersInv, Members!TablesOK
  <1>3. CASE UNCHANGED Members!vars
    BY <1>1, <1>3 DEF Members!vars, Members!MembersInv, Members!TablesOK
  <1>4. ASSUME NEW p \in People, Members!Account(p) PROVE Members!MembersInv'
    BY <1>4, AccountKeeps, CreateAccountKeeps, ConsumeKeeps, VaultKeeps DEF Members!Account
  <1>5. ASSUME NEW p \in People, Members!Panel(p) PROVE Members!MembersInv'
    BY <1>5, PanelKeeps, InviteKeeps, AddKeeps DEF Members!Panel
  <1> QED BY <1>2, <1>3, <1>4, <1>5, AccountKeeps, PanelKeeps, CreateHouseholdKeeps
     DEF Members!Next

(* Of racing first sign-ups one claims the server, an open invite lets its  *)
(* newcomer sign up, and wraps go only to who has a key, from a household   *)
(* somebody can always get back into.                                       *)
THEOREM AdmittedRightlyHolds ==
    ASSUME Members!NullIsApart, TTL \in Nat
    PROVE  Members!Spec => []AdmittedRightly
  <1>1. Members!MembersInv => Members!AdmittedRightly
    <2> SUFFICES ASSUME Members!MembersInv PROVE Members!InviteCanSignUp
      BY DEF Members!MembersInv, Members!AdmittedRightly
    <2> SUFFICES ASSUME NEW h \in Households, NEW e \in People, Members!Open(h, e), e \notin accounts
                 PROVE  Members!IsInvited(e)
      BY DEF Members!InviteCanSignUp
    <2>1. /\ signup[e] # Null /\ ~signup[e].consumed
          /\ invite[h][e].expires <= signup[e].expires /\ invite[h][e].expires > now
      BY DEF Members!MembersInv, Members!SignupOutlives, Members!Open
    <2>2. signup[e] \in Members!Signups /\ invite[h][e] \in Members!Invites /\ now \in Nat
      BY <2>1 DEF Members!MembersInv, Members!TablesOK, Members!Open
    <2> QED BY <2>1, <2>2 DEF Members!IsInvited, Members!Signups, Members!Invites
  <1> QED BY <1>1, MembersInit, MembersNext, PTL DEF Members!Spec, AdmittedRightly
(* The tables implement Standing: a household is created, somebody invited  *)
(* or added, or invites end; everything else is a stutter.                  *)

(* Whoever is not in is invited after the step only if before it.           *)
LEMMA InvitesEnd ==
    ASSUME member' = member,
           \A h \in Households, p \in People : member[h][p] = Null /\ Members!Open(h, p)' => Members!Open(h, p)
    PROVE  Members!Promise!Next
  <1> DEFINE gone == {hp \in Households \X People : ~Members!Open(hp[1], hp[2])'}
  <1>1. Members!Standings' = [h \in Households |-> [p \in People |->
            IF <<h, p>> \in gone /\ Members!Standings[h][p] = Members!Promise!Invited THEN Members!Promise!Out
            ELSE Members!Standings[h][p]]]
    <2>1. ASSUME NEW h \in Households, NEW p \in People
          PROVE  Members!Standings'[h][p] = IF <<h, p>> \in gone /\ Members!Standings[h][p] = Members!Promise!Invited
                                    THEN Members!Promise!Out ELSE Members!Standings[h][p]
      <3>1. <<h, p>> \in gone <=> ~Members!Open(h, p)'
        OBVIOUS
      <3> QED BY <3>1 DEF Members!Standings, Members!Promise!Invited, Members!Promise!Out
    <2> QED BY <2>1 DEF Members!Standings
  <1>2. gone \in SUBSET (Households \X People)
    OBVIOUS
  <1>3. Members!Promise!End
    BY <1>1, <1>2 DEF Members!Promise!End
  <1> QED BY <1>3 DEF Members!Promise!Next

LEMMA InIs == \A h \in Households : Members!Promise!Members(h) = {p \in People : Members!Guarded(p, h)}
  BY DEF Members!Promise!Members, Members!Standings, Members!Guarded

LEMMA InviteStep ==
    ASSUME Members!NullIsApart, TTL \in Nat, Members!MembersInv, NEW p \in People, Members!InviteMember(p)
    PROVE  Members!Promise!Next
  <1>1. PICK h \in Households, e \in People : h = request[p].household /\ e = request[p].email /\ Members!Guarded(p, h)
    BY DEF Members!MembersInv, Members!RequestHolds, Members!InviteMember
  <1>2. /\ invite' = [invite EXCEPT ![h][e] = [expires |-> now + TTL]] /\ member' = member /\ now' = now
        /\ invite \in [Households -> [People -> Members!Invites \cup {Null}]]
    BY <1>1 DEF Members!InviteMember, Members!MembersInv, Members!TablesOK
  <1>3. \A g \in Households, q \in People : Members!Open(g, q)' = Members!Open(g, q) \/ (g = h /\ q = e)
    BY <1>2 DEF Members!Open
  <1>4. CASE member[h][e] = Null /\ Members!Open(h, e)' /\ ~Members!Open(h, e)
    <2>1. Members!Standings[h][e] = Members!Promise!Out
      BY <1>4 DEF Members!Standings, Members!Promise!Out
    <2>2. Members!Standings' = [Members!Standings EXCEPT ![h][e] = Members!Promise!Invited]
      BY <1>2, <1>3, <1>4 DEF Members!Standings, Members!Promise!Invited
    <2>3. Members!Promise!Members(h) # {}
      BY <1>1, InIs
    <2> QED BY <2>1, <2>2, <2>3 DEF Members!Promise!Next, Members!Promise!Invite
  <1>5. CASE ~(member[h][e] = Null /\ Members!Open(h, e)' /\ ~Members!Open(h, e))
    BY <1>2, <1>3, <1>5, InvitesEnd
  <1> QED BY <1>4, <1>5

LEMMA AddStep ==
    ASSUME Members!NullIsApart, Members!MembersInv, NEW p \in People, Members!AddMember(p)
    PROVE  Members!Promise!Next
  <1>1. PICK h \in Households, e \in People : h = request[p].household /\ e = request[p].email /\ Members!Guarded(p, h)
    BY DEF Members!MembersInv, Members!RequestHolds, Members!AddMember
  <1>2. /\ invite' = [invite EXCEPT ![h][e] = Null] /\ now' = now
        /\ member' = IF member[h][e] = Null THEN [member EXCEPT ![h][e] = [by |-> p]] ELSE member
        /\ invite \in [Households -> [People -> Members!Invites \cup {Null}]]
        /\ member \in [Households -> [People -> Members!Wraps \cup {Null}]]
    BY <1>1 DEF Members!AddMember, Members!MembersInv, Members!TablesOK
  <1>3. \A g \in Households, q \in People : Members!Open(g, q)' => Members!Open(g, q)
    BY <1>2 DEF Members!Open
  <1>4. CASE member[h][e] = Null
    <2>1. member' = [member EXCEPT ![h][e] = [by |-> p]] /\ [by |-> p] # Null
      BY <1>2, <1>4 DEF Members!NullIsApart, Members!Wraps
    <2>2. \A g \in Households, q \in People : Members!Open(g, q)' = Members!Open(g, q) \/ (g = h /\ q = e)
      BY <1>2 DEF Members!Open
    <2>3. /\ member'[h][e] = [by |-> p]
          /\ \A g \in Households, q \in People : ~(g = h /\ q = e) => member'[g][q] = member[g][q]
      BY <1>2, <2>1
    <2>4. \A g \in Households, q \in People :
              Members!Standings'[g][q] = IF g = h /\ q = e THEN Members!Promise!In(p) ELSE Members!Standings[g][q]
      BY <2>1, <2>2, <2>3 DEF Members!Standings, Members!Promise!In
    <2>5. Members!Standings' = [Members!Standings EXCEPT ![h][e] = Members!Promise!In(p)]
      <3>1. /\ Members!Standings = [g \in Households |-> [q \in People |-> Members!Standings[g][q]]]
            /\ Members!Standings' = [g \in Households |-> [q \in People |-> Members!Standings'[g][q]]]
        BY DEF Members!Standings
      <3> QED BY <2>4, <3>1, <1>1
    <2>6. e \notin Members!Promise!Members(h) /\ p \in Members!Promise!Members(h)
      BY <1>1, <1>4, InIs DEF Members!Guarded
    <2>7. Members!Promise!Add(h, e)
      BY <2>5, <2>6 DEF Members!Promise!Add
    <2> QED BY <2>7, <1>1 DEF Members!Promise!Next
  <1>5. CASE member[h][e] # Null
    BY <1>2, <1>3, <1>5, InvitesEnd
  <1> QED BY <1>4, <1>5

LEMMA CreateStep ==
    ASSUME Members!NullIsApart, Members!MembersInv, NEW p \in People, NEW h \in Households, Members!CreateHousehold(p, h)
    PROVE  Members!Promise!Next
  <1>1. /\ member' = [member EXCEPT ![h][p] = [by |-> p]] /\ invite' = invite /\ now' = now /\ Members!Fresh(h)
        /\ member \in [Households -> [People -> Members!Wraps \cup {Null}]] /\ [by |-> p] # Null
    BY DEF Members!CreateHousehold, Members!MembersInv, Members!TablesOK,
           Members!NullIsApart, Members!Wraps
  <1>2. Members!Standings' = [Members!Standings EXCEPT ![h][p] = Members!Promise!In(p)]
    BY <1>1 DEF Members!Standings, Members!Promise!In, Members!Open
  <1>3. Members!Promise!Members(h) = {}
    BY <1>1, InIs DEF Members!Fresh, Members!Guarded
  <1> QED BY <1>2, <1>3 DEF Members!Promise!Next, Members!Promise!Create

LEMMA StandingStep == Members!NullIsApart /\ TTL \in Nat /\ Members!MembersInv /\ [Members!Next]_Members!vars => [Members!Promise!Next]_Members!Standings
  <1> SUFFICES ASSUME Members!NullIsApart, TTL \in Nat, Members!MembersInv, [Members!Next]_Members!vars PROVE [Members!Promise!Next]_Members!Standings
    OBVIOUS
  <1>1. Members!TablesOK
    BY DEF Members!MembersInv
  <1>2. ASSUME member' = member, now' \in Nat, now <= now',
               \A h \in Households, p \in People : invite'[h][p] = invite[h][p] \/ invite'[h][p] = Null
        PROVE  Members!Promise!Next
    <2>1. \A h \in Households, p \in People : Members!Open(h, p)' => Members!Open(h, p)
      BY <1>1, <1>2 DEF Members!Open, Members!TablesOK, Members!Invites
    <2> QED BY <1>2, <2>1, InvitesEnd
  <1>3. CASE Members!Tick \/ UNCHANGED Members!vars \/ \E p \in People : Members!Account(p) \/ Members!Lose(p)
    <2>1. CASE Members!Tick
      BY <1>1, <1>2, <2>1 DEF Members!Tick, Members!TablesOK
    <2>2. CASE UNCHANGED Members!vars
      BY <1>1, <1>2, <2>2 DEF Members!vars, Members!TablesOK
    <2>3. ASSUME NEW p \in People, Members!Account(p) \/ Members!Lose(p) PROVE UNCHANGED <<member, invite, now>>
      BY <2>3 DEF Members!Account, Members!AskCode, Members!BeforeCreate, Members!Claim,
                  Members!CreateAccount, Members!Consume, Members!PutVault,
                  Members!Protect, Members!Lose
    <2> QED BY <1>1, <1>2, <1>3, <2>1, <2>2, <2>3 DEF Members!TablesOK
  <1>4. ASSUME NEW p \in People, Members!Matches(p) \/ Members!DoesNotMatch(p) \/ Members!ClosePanel(p) PROVE Members!Promise!Next
    <2>1. Members!PanelHolds(p)
      BY DEF Members!MembersInv
    <2>2. UNCHANGED <<member, now>>
      BY <1>4 DEF Members!Matches, Members!DoesNotMatch, Members!ClosePanel
    <2>3. \A h \in Households, q \in People : invite'[h][q] = invite[h][q] \/ invite'[h][q] = Null
      BY <1>1, <1>4, <2>1 DEF Members!Matches, Members!DoesNotMatch, Members!ClosePanel,
                              Members!PanelHolds, Members!TablesOK
    <2> QED BY <1>1, <1>2, <2>2, <2>3 DEF Members!TablesOK
  <1>5. ASSUME NEW p \in People, NEW h \in Households,
               Members!DeclineInvite(p, h) \/ \E e \in People : Members!AskInvite(p, h, e) \/ Members!OpenCheck(p, h, e)
        PROVE  Members!Promise!Next
    <2>1. UNCHANGED <<member, now>>
      BY <1>5 DEF Members!DeclineInvite, Members!AskInvite, Members!OpenCheck
    <2>2. CASE Members!DeclineInvite(p, h)
      <3>1. invite' = [invite EXCEPT ![h][p] = Null]
        BY <2>2 DEF Members!DeclineInvite
      <3>2. \A g \in Households, q \in People : invite'[g][q] = invite[g][q] \/ invite'[g][q] = Null
        BY <1>1, <3>1 DEF Members!TablesOK
      <3> QED BY <1>1, <1>2, <2>1, <3>2 DEF Members!TablesOK
    <2>3. CASE \E e \in People : Members!AskInvite(p, h, e) \/ Members!OpenCheck(p, h, e)
      <3>1. invite' = invite
        BY <2>3 DEF Members!AskInvite, Members!OpenCheck
      <3> QED BY <1>1, <1>2, <2>1, <3>1 DEF Members!TablesOK
    <2> QED BY <1>5, <2>2, <2>3
  <1> QED BY <1>3, <1>4, <1>5, InviteStep, AddStep, CreateStep
     DEF Members!Next, Members!Panel

LEMMA StandingInit == Members!Init => Members!Promise!Init
  BY DEF Members!Init, Members!Promise!Init, Members!Promise!Out, Members!Standings,
         Members!Open

(* Requests that read, wait and write in any order keep what the household  *)
(* gate relies on: a wrap once stored is the member's for good, and was     *)
(* made by somebody who was in.                                             *)
THEOREM ImplementsStandingHolds ==
    ASSUME Members!NullIsApart, TTL \in Nat
    PROVE  Members!Spec => ImplementsStanding
  BY MembersInit, MembersNext, StandingInit, StandingStep, PTL
  DEF Members!Spec, ImplementsStanding, Members!ImplementsStanding, Members!Promise!Spec
==============================================================================
