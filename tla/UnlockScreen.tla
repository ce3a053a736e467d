---------------------------- MODULE UnlockScreen ----------------------------
(* The unlock screen of one device: passkey, passphrase, the recovery kit,   *)
(* and the one-time offer of a passkey that follows a passphrase.            *)
(* Sources: src/features/lock/unlock-screen.tsx, restore-with-kit.tsx,       *)
(* enrol-offer.tsx and passkey-prf.ts, with the key session they unlock.     *)
(*                                                                           *)
(* A vault is the passphrase it opens with (a number, new ones are larger)   *)
(* and whether it has a passkey. Every upload may fail, or be stored with    *)
(* its answer lost; the screens keep what they could not save and try again. *)
EXTENDS Naturals

CONSTANTS
    Null,
    MaxPassphrases,  \* bound: passphrases chosen with the kit
    MaxFails,        \* bound: ceremonies, secrets and uploads that fail
    MaxLocks         \* bound: times the session locks

PASSKEY_TRIES == 2

VARIABLES
    prf,       \* the authenticator: "none", "blind" (no PRF output) or "works"
    server,    \* the vault as the server stores it
    vault,     \* the vault as the gate holds it
    status,    \* the key session
    by,        \* what the session is being or was opened with, or Null
    mode,      \* which way in the screen shows
    asking,    \* a ceremony is under way
    tries,     \* passkey failures on this screen
    form,      \* the recovery form: "closed", "words", "passphrase" or "saving"
    kit,       \* the kit typed in and not used yet: "right", "wrong" or Null
    pending,   \* a vault made and not saved yet, or Null
    offer,     \* the passkey offer: "closed", "asked", "shown", "busy", "saving"
    fast,      \* nwt.fastUnlock: Null, "enrolled" or "declined"
    fails,
    locks

vars == <<prf, server, vault, status, by, mode, asking, tries, form, kit, pending, offer,
          fast, fails, locks>>

screen == <<mode, asking, tries, form, kit>>

Vaults == [pass : Nat, passkey : BOOLEAN]

Shown == status # "unlocked"

Busy == asking \/ status = "unlocking" \/ form = "saving"

(* Mounted anew, after a lock or a load of the page.                         *)
Mounted(v) == IF v.passkey THEN "checking" ELSE "passphrase"

Init ==
    /\ prf \in {"none", "blind", "works"}
    /\ server \in [pass : {0}, passkey : BOOLEAN]
    /\ vault = server
    /\ status = "locked"
    /\ by = Null
    /\ mode = Mounted(vault)
    /\ asking = FALSE
    /\ tries = 0
    /\ form = "closed"
    /\ kit = Null
    /\ pending = Null
    /\ offer = "closed"
    /\ fast = Null
    /\ fails = 0
    /\ locks = 0

Fault == fails < MaxFails /\ fails' = fails + 1

------------------------------------------------------------------------------
(* Passkey.                                                                  *)
Available ==
    /\ Shown
    /\ mode = "checking"
    /\ mode' = IF prf = "none" THEN "passphrase" ELSE "passkey"
    /\ UNCHANGED <<prf, server, vault, status, by, asking, tries, form, kit, pending, offer,
                   fast, fails, locks>>

AskPasskey ==
    /\ Shown /\ mode = "passkey" /\ ~Busy
    /\ asking' = TRUE
    /\ UNCHANGED <<prf, server, vault, status, by, mode, tries, form, kit, pending, offer,
                   fast, fails, locks>>

NoPrf ==
    /\ asking
    /\ prf = "blind"
    /\ asking' = FALSE
    /\ mode' = "passphrase"
    /\ UNCHANGED <<prf, server, vault, status, by, tries, form, kit, pending, offer, fast,
                   fails, locks>>

Count(n) == tries' = n + 1 /\ mode' = IF n + 1 >= PASSKEY_TRIES THEN "passphrase" ELSE mode

(* Cancelled, or failed.                                                     *)
CeremonyFails ==
    /\ asking
    /\ Fault
    /\ asking' = FALSE
    /\ Count(tries)
    /\ UNCHANGED <<prf, server, vault, status, by, form, kit, pending, offer, fast, locks>>

GotPrf ==
    /\ asking
    /\ prf = "works"
    /\ asking' = FALSE
    /\ status' = "unlocking"
    /\ by' = "passkey"
    /\ UNCHANGED <<prf, server, vault, mode, tries, form, kit, pending, offer, fast, fails,
                   locks>>

UsePassphrase ==
    /\ Shown /\ mode = "passkey" /\ ~Busy
    /\ mode' = "passphrase"
    /\ UNCHANGED <<prf, server, vault, status, by, asking, tries, form, kit, pending, offer,
                   fast, fails, locks>>

Submit ==
    /\ Shown /\ mode = "passphrase" /\ form = "closed" /\ ~Busy
    /\ status' = "unlocking"
    /\ by' = "passphrase"
    /\ UNCHANGED <<prf, server, vault, mode, asking, tries, form, kit, pending, offer, fast,
                   fails, locks>>

------------------------------------------------------------------------------
EligibleAnyway == ~vault.passkey

(* The offer closes by itself unless it is the first, the session can still  *)
(* enrol and there is room.                                                  *)
Eligible == fast = Null /\ ~vault.passkey

Opened ==
    /\ status = "unlocking"
    /\ status' = "unlocked"
    /\ offer' = IF by = "passphrase" /\ Eligible THEN "asked" ELSE "closed"
    /\ UNCHANGED <<prf, server, vault, by, screen, pending, fast, fails, locks>>

WrongSecret ==
    /\ status = "unlocking"
    /\ Fault
    /\ status' = "failed"
    /\ IF by = "passkey" THEN Count(tries) ELSE UNCHANGED <<tries, mode>>
    /\ by' = Null
    /\ UNCHANGED <<prf, server, vault, asking, form, kit, pending, offer, fast, locks>>

(* Everything on the screens goes with them, a vault not saved yet too.      *)
Lock ==
    /\ status \in {"unlocking", "unlocked"}
    /\ locks < MaxLocks
    /\ locks' = locks + 1
    /\ status' = "locked"
    /\ by' = Null
    /\ IF status = "unlocked"
       THEN /\ mode' = Mounted(vault)
            /\ tries' = 0
            /\ form' = "closed"
            /\ kit' = Null
            /\ pending' = Null
            /\ offer' = "closed"
       ELSE /\ IF by = "passkey" THEN Count(tries) ELSE UNCHANGED <<tries, mode>>
            /\ UNCHANGED <<form, kit, pending, offer>>
    /\ UNCHANGED <<prf, server, vault, asking, fast, fails>>

------------------------------------------------------------------------------
(* The recovery kit.                                                         *)
OpenForm ==
    /\ Shown /\ mode = "passphrase" /\ form = "closed" /\ ~Busy
    /\ form' = "words"
    /\ UNCHANGED <<prf, server, vault, status, by, mode, asking, tries, kit, pending, offer,
                   fast, fails, locks>>

CloseForm ==
    /\ Shown /\ form \in {"words", "passphrase"}
    /\ form' = "closed"
    /\ kit' = Null
    /\ pending' = Null
    /\ UNCHANGED <<prf, server, vault, status, by, mode, asking, tries, offer, fast, fails,
                   locks>>

(* Words with a mistake stay in the form; a well-formed kit may be another's.*)
TypeKit ==
    /\ form = "words"
    /\ kit' \in {"right", "wrong"}
    /\ form' = "passphrase"
    /\ UNCHANGED <<prf, server, vault, status, by, mode, asking, tries, pending, offer, fast,
                   fails, locks>>

Restored == [vault EXCEPT !.pass = server.pass + 1]

(* A vault that waits to be saved is saved first; the kit is used once.      *)
ChoosePassphrase ==
    /\ form = "passphrase"
    /\ \/ /\ pending # Null
          /\ form' = "saving"
          /\ UNCHANGED <<kit, pending>>
       \/ /\ pending = Null /\ kit = "right" /\ server.pass < MaxPassphrases
          /\ form' = "saving"
          /\ pending' = Restored
          /\ kit' = Null
       \/ /\ pending = Null /\ kit # "right"
          /\ form' = "words"
          /\ kit' = Null
          /\ UNCHANGED pending
    /\ UNCHANGED <<prf, server, vault, status, by, mode, asking, tries, offer, fast, fails,
                   locks>>

SavedStartingFirst ==
    /\ form = "saving"
    /\ vault' = pending
    /\ status' = "unlocked"
    /\ by' = "kit"
    /\ form' = "closed"
    /\ pending' = Null
    /\ UNCHANGED <<prf, server, mode, asking, tries, kit, offer, fast, fails, locks>>

Saved ==
    /\ form = "saving"
    /\ server' = pending
    /\ vault' = pending
    /\ status' = "unlocked"
    /\ by' = "kit"
    /\ form' = "closed"
    /\ pending' = Null
    /\ UNCHANGED <<prf, mode, asking, tries, kit, offer, fast, fails, locks>>

SaveFails ==
    /\ form = "saving"
    /\ Fault
    /\ server' \in {server, pending}
    /\ form' = "passphrase"
    /\ UNCHANGED <<prf, vault, status, by, mode, asking, tries, kit, pending, offer, fast, locks>>

------------------------------------------------------------------------------
(* The offer.                                                                *)
OfferShown ==
    /\ offer = "asked"
    /\ offer' = IF prf = "none" THEN "closed" ELSE "shown"
    /\ UNCHANGED <<prf, server, vault, status, by, screen, pending, fast, fails, locks>>

NotNow ==
    /\ offer = "shown"
    /\ offer' = "closed"
    /\ fast' = "declined"
    /\ pending' = Null
    /\ UNCHANGED <<prf, server, vault, status, by, screen, fails, locks>>

SetUp ==
    /\ offer = "shown"
    /\ offer' = IF pending = Null THEN "busy" ELSE "saving"
    /\ UNCHANGED <<prf, server, vault, status, by, screen, pending, fast, fails, locks>>

(* The session adds a passkey to the vault of the unlock.                    *)
Enrolled ==
    /\ offer = "busy"
    /\ IF prf = "blind"
       THEN /\ offer' = "closed"
            /\ fast' = "declined"
            /\ UNCHANGED pending
       ELSE /\ offer' = "saving"
            /\ pending' = [vault EXCEPT !.passkey = TRUE]
            /\ UNCHANGED fast
    /\ UNCHANGED <<prf, server, vault, status, by, screen, fails, locks>>

EnrolFails ==
    /\ offer = "busy"
    /\ Fault
    /\ offer' = "shown"
    /\ UNCHANGED <<prf, server, vault, status, by, screen, pending, fast, locks>>

OfferSaved ==
    /\ offer = "saving"
    /\ server' = pending
    /\ vault' = pending
    /\ fast' = "enrolled"
    /\ offer' = "closed"
    /\ pending' = Null
    /\ UNCHANGED <<prf, status, by, screen, fails, locks>>

OfferSaveFailsUnnoticed ==
    /\ offer = "saving"
    /\ Fault
    /\ server' \in {server, pending}
    /\ fast' = "enrolled"
    /\ offer' = "closed"
    /\ UNCHANGED <<prf, vault, status, by, screen, pending, locks>>

OfferSaveFails ==
    /\ offer = "saving"
    /\ Fault
    /\ server' \in {server, pending}
    /\ offer' = "shown"
    /\ UNCHANGED <<prf, vault, status, by, screen, pending, fast, locks>>

Answers ==
    \/ Available
    \/ NoPrf
    \/ GotPrf
    \/ CeremonyFails
    \/ Opened
    \/ WrongSecret
    \/ Saved
    \/ SaveFails
    \/ OfferShown
    \/ Enrolled
    \/ EnrolFails
    \/ OfferSaved
    \/ OfferSaveFails

Choices ==
    \/ AskPasskey
    \/ UsePassphrase
    \/ Submit
    \/ OpenForm
    \/ CloseForm
    \/ TypeKit
    \/ ChoosePassphrase
    \/ NotNow
    \/ SetUp

Next == Answers \/ Choices \/ Lock

(* Ceremonies, key derivation and requests end.                              *)
Spec == Init /\ [][Next]_vars /\ WF_vars(Answers)
------------------------------------------------------------------------------
(* enrol-offer.tsx: the device remembers "enrolled" only once the server has *)
(* the passkey, whatever was lost, retried or locked on the way.             *)
EnrolledIsStored == fast = "enrolled" => server.passkey

(* A restore opens the app only on what the server stores, so the member's   *)
(* new passphrase works on every device that loads the vault from then on.   *)
RestoredIsStored == status = "unlocked" /\ by = "kit" => vault = server

(* What the device goes by, after lost answers and second tries, is what the *)
(* server stores.                                                            *)
OpensWhatIsStored == EnrolledIsStored /\ RestoredIsStored

(* The offer is made once on a device: however often the session is unlocked *)
(* later, an answer given is not asked for again.                            *)
OfferedOnce == [][fast # Null => offer' \in {"closed", offer}]_vars

------------------------------------------------------------------------------
(* Why what the device goes by is stored.                                    *)
NullIsApart == Null # "enrolled"

(* A way in, the kit's form and the offer do not meet: the form is open only *)
(* on a screen that waits, the offer only after a passphrase.                *)
OneAtATime ==
    /\ form # "closed" => mode = "passphrase" /\ ~asking /\ status \notin {"unlocking", "unlocked"}
    /\ asking => mode = "passkey" /\ status \notin {"unlocking", "unlocked"}
    /\ status = "unlocking" => by \in {"passkey", "passphrase"}
    /\ offer # "closed" => status = "unlocked" /\ by = "passphrase" /\ fast = Null

(* So what waits to be saved is known from where: of the form, a vault that  *)
(* keeps the passkey an answer "enrolled" stands for, of the offer, one that *)
(* has the new passkey.                                                      *)
WaitsToBeSaved ==
    /\ pending # Null => \/ form \in {"passphrase", "saving"}
                         \/ offer \in {"shown", "saving"}
    /\ pending # Null \/ form = "saving" \/ offer = "saving" => pending \in Vaults
    /\ fast = "enrolled" => vault.passkey /\ (pending # Null \/ form = "saving" => pending.passkey)
    /\ offer = "saving" \/ (offer = "shown" /\ pending # Null) => pending.passkey

ScreenInv ==
    /\ server \in Vaults /\ vault \in Vaults
    /\ OneAtATime /\ WaitsToBeSaved /\ OpensWhatIsStored
==============================================================================
