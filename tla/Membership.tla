----------------------------- MODULE Membership -----------------------------
(* Who may have an account, who may be invited to a household, and who is    *)
(* let in: the server's tables, its requests, and the panel an inviter uses. *)
(* Sources: src/server/invites.ts, members.ts, households.ts, guard.ts, the  *)
(* hooks of auth.ts, requireRecoveryMethod of vault.ts, and                  *)
(* src/features/household/household-panel.tsx, panel-client.ts and           *)
(* code-check.tsx.                                                           *)
(*                                                                           *)
(* A statement or a transaction is a step; what a request read before is     *)
(* kept in it, and others come between. A person is an email address.        *)
EXTENDS Naturals, FiniteSets

CONSTANTS
    People,
    Households,
    TTL,        \* INVITE_TTL_DAYS
    MaxTime,    \* bound: days that pass
    MaxAtOnce,  \* bound: people with a request or a check under way at a time
    Null

VARIABLES
    now,
    accounts,   \* user: the addresses that have one
    owner,      \* server_owner: the address that claimed the server, or Null
    signup,     \* invites: [expires, consumed] of an address, or Null
    vault,      \* identity_vaults: "none", "bare" or "protected"
    invite,     \* household_invites: [expires], or Null
    member,     \* household_members: [by] with a wrap made by by, or Null
    request,    \* what a person's request is about to do, or Null
    panel,      \* what a person's household panel shows
    claimants   \* history: accounts made without an invite

vars == <<now, accounts, owner, signup, vault, invite, member, request, panel, claimants>>

List == [at |-> "list"]

Init ==
    /\ now = 0
    /\ accounts = {}
    /\ owner = Null
    /\ signup = [p \in People |-> Null]
    /\ vault = [p \in People |-> "none"]
    /\ invite = [h \in Households |-> [p \in People |-> Null]]
    /\ member = [h \in Households |-> [p \in People |-> Null]]
    /\ request = [p \in People |-> Null]
    /\ panel = [p \in People |-> List]
    /\ claimants = {}

Busy(p, at) == request[p] # Null /\ request[p].at = at

Goes(p, r) == request' = [request EXCEPT ![p] = r]

(* Somebody may begin something.                                             *)
Turn(p) == Cardinality({q \in People \ {p} : request[q] # Null \/ panel[q] # List}) < MaxAtOnce

(* A day passes between requests: none takes that long.                      *)
Tick ==
    /\ now < MaxTime
    /\ \A p \in People : request[p] = Null
    /\ now' = now + 1
    /\ UNCHANGED <<accounts, owner, signup, vault, invite, member, request, panel, claimants>>

(* A sign-up is cut off between two steps: another request would not have    *)
(* written anything yet.                                                     *)
Lose(p) ==
    /\ Busy(p, "create") \/ Busy(p, "consume")
    /\ Goes(p, Null)
    /\ UNCHANGED <<now, accounts, owner, signup, vault, invite, member, panel, claimants>>

------------------------------------------------------------------------------
(* Accounts.                                                                 *)
IsInvited(p) == signup[p] # Null /\ ~signup[p].consumed /\ signup[p].expires > now

MayBootstrap(p) == accounts = {} /\ owner \in {Null, p}

(* Only who may sign up is ever mailed a code; it is then typed back.        *)
AskCode(p) ==
    /\ request[p] = Null
    /\ p \notin accounts
    /\ Turn(p)
    /\ IsInvited(p) \/ MayBootstrap(p)
    /\ Goes(p, [at |-> "coded"])
    /\ UNCHANGED <<now, accounts, owner, signup, vault, invite, member, panel, claimants>>

(* user.create.before: an invite, or else the claim of an empty server.      *)
BeforeCreate(p) ==
    /\ Busy(p, "coded")
    /\ Goes(p, IF IsInvited(p) THEN [at |-> "create", claims |-> FALSE]
               ELSE IF accounts = {} THEN [at |-> "claim"] ELSE Null)
    /\ UNCHANGED <<now, accounts, owner, signup, vault, invite, member, panel, claimants>>

ClaimUnread(p) ==
    /\ Busy(p, "claim")
    /\ owner' = IF owner = Null THEN p ELSE owner
    /\ Goes(p, [at |-> "create", claims |-> TRUE])
    /\ UNCHANGED <<now, accounts, signup, vault, invite, member, panel, claimants>>

(* claimOwner: the insert leaves an earlier claim, and the row decides.      *)
Claim(p) ==
    /\ Busy(p, "claim")
    /\ owner' = IF owner = Null THEN p ELSE owner
    /\ Goes(p, IF owner' = p THEN [at |-> "create", claims |-> TRUE] ELSE Null)
    /\ UNCHANGED <<now, accounts, signup, vault, invite, member, panel, claimants>>

CreateAccount(p) ==
    /\ Busy(p, "create")
    /\ accounts' = accounts \cup {p}
    /\ claimants' = IF request[p].claims THEN claimants \cup {p} ELSE claimants
    /\ Goes(p, [at |-> "consume"])
    /\ UNCHANGED <<now, owner, signup, vault, invite, member, panel>>

Consume(p) ==
    /\ Busy(p, "consume")
    /\ signup' = IF IsInvited(p) THEN [signup EXCEPT ![p].consumed = TRUE] ELSE signup
    /\ Goes(p, Null)
    /\ UNCHANGED <<now, accounts, owner, vault, invite, member, panel, claimants>>

(* The first vault, and a first way back in: server/vault.ts never drops it. *)
(* The invite that waited for it is sent at once.                            *)
PutVault(p) ==
    /\ p \in accounts
    /\ vault[p] = "none"
    /\ vault' = [vault EXCEPT ![p] = "bare"]
    /\ UNCHANGED <<now, accounts, owner, signup, invite, member, request, panel, claimants>>

Protect(p) ==
    /\ vault[p] = "bare"
    /\ vault' = [vault EXCEPT ![p] = "protected"]
    /\ IF panel[p].at = "protecting"
       THEN /\ panel' = [panel EXCEPT ![p] = List]
            /\ Goes(p, [at |-> "invite", household |-> panel[p].household, email |-> panel[p].email])
       ELSE UNCHANGED <<panel, request>>
    /\ UNCHANGED <<now, accounts, owner, signup, invite, member, claimants>>

------------------------------------------------------------------------------
(* Households. A new one has an id of its own and its creator's wrap.        *)
Fresh(h) == \A p \in People : member[h][p] = Null

CreateHousehold(p, h) ==
    /\ p \in accounts
    /\ vault[p] # "none"
    /\ Fresh(h)
    /\ member' = [member EXCEPT ![h][p] = [by |-> p]]
    /\ UNCHANGED <<now, accounts, owner, signup, vault, invite, request, panel, claimants>>

(* guardHousehold.                                                           *)
Guarded(p, h) == member[h][p] # Null

(* requireRecoveryMethod: 409, and the panel asks to protect the account.    *)
AskInvite(p, h, e) ==
    /\ Turn(p)
    /\ panel[p].at = "list"
    /\ request[p] = Null
    /\ Guarded(p, h)
    /\ IF vault[p] = "protected"
       THEN /\ Goes(p, [at |-> "invite", household |-> h, email |-> e])
            /\ UNCHANGED panel
       ELSE /\ panel' = [panel EXCEPT ![p] = [at |-> "protecting", household |-> h, email |-> e]]
            /\ UNCHANGED request
    /\ UNCHANGED <<now, accounts, owner, signup, vault, invite, member, claimants>>

SignupKept(old, expires) == IF old # Null THEN old ELSE [expires |-> expires, consumed |-> FALSE]

SignupExtended(old, expires) ==
    IF old # Null /\ old.consumed THEN old ELSE [expires |-> expires, consumed |-> FALSE]

(* One transaction: the household's invite and the sign-up invite.           *)
InviteMember(p) ==
    /\ Busy(p, "invite")
    /\ LET h == request[p].household
           e == request[p].email
       IN  /\ invite' = [invite EXCEPT ![h][e] = [expires |-> now + TTL]]
           /\ signup' = [signup EXCEPT ![e] = SignupExtended(@, now + TTL)]
    /\ Goes(p, Null)
    /\ UNCHANGED <<now, accounts, owner, vault, member, panel, claimants>>

(* openInvites: ready to add once the address has an account and a vault.    *)
Open(h, e) == invite[h][e] # Null /\ invite[h][e].expires > now
ReadyOnAccount(h, e) == Open(h, e) /\ e \in accounts

Ready(h, e) == Open(h, e) /\ e \in accounts /\ vault[e] # "none"

OpenCheck(p, h, e) ==
    /\ Turn(p)
    /\ panel[p].at = "list"
    /\ Guarded(p, h)
    /\ Ready(h, e)
    /\ panel' = [panel EXCEPT ![p] = [at |-> "comparing", household |-> h, invitee |-> e]]
    /\ UNCHANGED <<now, accounts, owner, signup, vault, invite, member, request, claimants>>

(* "It matches": the key is wrapped to the compared code's owner; the server *)
(* looks the invite up again, before its transaction.                        *)
Matches(p) ==
    /\ panel[p].at = "comparing"
    /\ request[p] = Null
    /\ LET c == panel[p]
       IN  IF Guarded(p, c.household) /\ Ready(c.household, c.invitee)
           THEN /\ Goes(p, [at |-> "add", household |-> c.household, email |-> c.invitee])
                /\ panel' = [panel EXCEPT ![p] = [at |-> "adding"]]
           ELSE /\ panel' = [panel EXCEPT ![p] = List]
                /\ UNCHANGED request
    /\ UNCHANGED <<now, accounts, owner, signup, vault, invite, member, claimants>>

AddMemberAgain(p) ==
    /\ Busy(p, "add")
    /\ LET h == request[p].household
           e == request[p].email
       IN  /\ member' = [member EXCEPT ![h][e] = [by |-> p]]
           /\ invite' = [invite EXCEPT ![h][e] = Null]
    /\ Goes(p, Null)
    /\ panel' = [panel EXCEPT ![p] = List]
    /\ UNCHANGED <<now, accounts, owner, signup, vault, claimants>>

AddMember(p) ==
    /\ Busy(p, "add")
    /\ LET h == request[p].household
           e == request[p].email
       IN  /\ member' = IF member[h][e] = Null THEN [member EXCEPT ![h][e] = [by |-> p]] ELSE member
           /\ invite' = [invite EXCEPT ![h][e] = Null]
    /\ Goes(p, Null)
    /\ panel' = [panel EXCEPT ![p] = List]
    /\ UNCHANGED <<now, accounts, owner, signup, vault, claimants>>

(* "It doesn't match": nothing is wrapped, and the invite is cancelled, or   *)
(* the request for it fails.                                                 *)
DoesNotMatch(p) ==
    /\ panel[p].at = "comparing"
    /\ panel' = [panel EXCEPT ![p] = [at |-> "stopped"]]
    /\ invite' \in {invite, [invite EXCEPT ![panel[p].household][panel[p].invitee] = Null]}
    /\ UNCHANGED <<now, accounts, owner, signup, vault, member, request, claimants>>

(* "Not now", "Close", "Cancel".                                             *)
ClosePanel(p) ==
    /\ panel[p].at \in {"comparing", "stopped", "protecting"}
    /\ panel' = [panel EXCEPT ![p] = List]
    /\ UNCHANGED <<now, accounts, owner, signup, vault, invite, member, request, claimants>>

DeclineInvite(p, h) ==
    /\ p \in accounts
    /\ invite[h][p] # Null
    /\ invite' = [invite EXCEPT ![h][p] = Null]
    /\ UNCHANGED <<now, accounts, owner, signup, vault, member, request, panel, claimants>>

Account(p) ==
    AskCode(p) \/ BeforeCreate(p) \/ Claim(p) \/ CreateAccount(p) \/ Consume(p)
        \/ PutVault(p) \/ Protect(p)

Panel(p) ==
    InviteMember(p) \/ Matches(p) \/ AddMember(p) \/ DoesNotMatch(p) \/ ClosePanel(p)

Next ==
    \/ Tick
    \/ \E p \in People :
           \/ Lose(p)
           \/ Account(p)
           \/ Panel(p)
           \/ \E h \in Households :
                  \/ CreateHousehold(p, h)
                  \/ DeclineInvite(p, h)
                  \/ \E e \in People \ {p} : AskInvite(p, h, e) \/ OpenCheck(p, h, e)

Spec == Init /\ [][Next]_vars
------------------------------------------------------------------------------
(* invites.ts:20: of racing first sign-ups exactly one claims the server,    *)
(* and nobody else ever has an account without an invite.                    *)
OneOwner == claimants \subseteq {owner}

(* members.ts:137: an invited newcomer can create an account for as long as  *)
(* any household's invite is open, whatever other invites came before.       *)
InviteCanSignUp ==
    \A h \in Households, e \in People :
        Open(h, e) /\ e \notin accounts => IsInvited(e)

(* vault.ts:128: nobody invites before they have a way back in themselves;   *)
(* and a wrap goes only to somebody who has a key to open it with.           *)
SharedProtected ==
    \A h \in Households, e \in People :
        /\ invite[h][e] # Null => \E p \in People : Guarded(p, h) /\ vault[p] = "protected"
        /\ member[h][e] # Null => vault[e] # "none"

(* Whatever requests, sign-ups and invites overlap, nobody is let in who has *)
(* no right to it, and nobody is kept out who has.                           *)
AdmittedRightly == OneOwner /\ InviteCanSignUp /\ SharedProtected

Standings ==
    [h \in Households |-> [p \in People |->
        IF member[h][p] # Null THEN [at |-> "in", by |-> member[h][p].by]
        ELSE IF Open(h, p) THEN [at |-> "invited"] ELSE [at |-> "out"]]]

------------------------------------------------------------------------------
(* Why each of these survives every step.                                    *)
Invites == [expires : Nat]
Signups == [expires : Nat, consumed : BOOLEAN]
Wraps   == [by : People]

NullIsApart == Null \notin People \cup Invites \cup Signups \cup Wraps

TablesOK ==
    /\ now \in Nat
    /\ accounts \subseteq People
    /\ owner \in People \cup {Null}
    /\ signup \in [People -> Signups \cup {Null}]
    /\ vault \in [People -> {"none", "bare", "protected"}]
    /\ invite \in [Households -> [People -> Invites \cup {Null}]]
    /\ member \in [Households -> [People -> Wraps \cup {Null}]]
    /\ claimants \subseteq People
    /\ request = [p \in People |-> request[p]]
    /\ panel = [p \in People |-> panel[p]]

(* What a request is about to do was right when it was asked for and still   *)
(* is, whatever came between.                                                *)
RequestHolds(p) ==
    /\ Busy(p, "create") /\ request[p].claims => owner = p
    /\ Busy(p, "consume") => p \in accounts
    /\ Busy(p, "invite") =>
          /\ request[p].household \in Households /\ request[p].email \in People
          /\ Guarded(p, request[p].household) /\ vault[p] = "protected"
    /\ Busy(p, "add") =>
          /\ request[p].household \in Households /\ request[p].email \in People
          /\ Guarded(p, request[p].household) /\ vault[request[p].email] # "none"

PanelHolds(p) ==
    /\ panel[p].at = "protecting" =>
          /\ panel[p].household \in Households /\ panel[p].email \in People
          /\ Guarded(p, panel[p].household)
    /\ panel[p].at = "comparing" =>
          panel[p].household \in Households /\ panel[p].invitee \in People

(* A sign-up invite outlives every household's invite of its address, and is *)
(* used up only by the account.                                              *)
SignupOutlives ==
    \A e \in People :
        /\ signup[e] # Null /\ signup[e].consumed => e \in accounts
        /\ e \notin accounts =>
              \A h \in Households : invite[h][e] # Null =>
                  /\ signup[e] # Null
                  /\ invite[h][e].expires <= signup[e].expires

ExpiryInTTL ==
    \A h \in Households, e \in People :
        /\ invite[h][e] # Null => invite[h][e].expires <= now + TTL
        /\ signup[e] # Null => signup[e].expires <= now + TTL

MembersInv ==
    /\ TablesOK /\ OneOwner /\ SharedProtected /\ SignupOutlives /\ ExpiryInTTL
    /\ \A p \in People : RequestHolds(p) /\ PanelHolds(p)

------------------------------------------------------------------------------
Promise == INSTANCE Standing WITH standing <- Standings

(* Requests that read, wait and write in any order keep what the household   *)
(* gate relies on: a wrap once stored is the member's for good, and was made *)
(* by somebody who was in.                                                   *)
ImplementsStanding == Promise!Spec
==============================================================================
