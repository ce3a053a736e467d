------------------------------- MODULE Session -------------------------------
(* What the key session of a tab promises, without clocks or timers: which  *)
(* attempt to open it may still succeed, and whose keys it holds.            *)
(* Source: src/features/lock/key-session.ts, interface KeySession.           *)
(*                                                                           *)
(* Attempts to open the session are numbered upwards, with gaps. At most one *)
(* is live: the last one begun, while nothing locked or restarted the        *)
(* session.                                                                  *)
EXTENDS Naturals

VARIABLES
    status,     \* "locked", "unlocking", "failed" or "unlocked"
    identity,   \* the attempt whose identity the session holds, or None
    household,  \* whether it holds a household key
    enrol,      \* whether it can still add a passkey slot
    opening,    \* attempts whose opener has not answered yet
    live,       \* the one of them whose answer still counts, or None
    attempts    \* the highest number given to an attempt

sessionVars == <<status, identity, household, enrol, opening, live, attempts>>

None == 0

SessionInit ==
    /\ status = "locked"
    /\ identity = None
    /\ household = FALSE
    /\ enrol = FALSE
    /\ opening = {}
    /\ live = None
    /\ attempts = 0

NoKeys ==
    /\ identity' = None
    /\ household' = FALSE
    /\ enrol' = FALSE

Begin ==
    /\ attempts' > attempts
    /\ opening' = opening \cup {attempts'}
    /\ live' = attempts'
    /\ status' = "unlocking"
    /\ NoKeys

(* Only the live attempt opens the session; a passphrase may also enrol.     *)
Open(may) ==
    /\ live # None
    /\ opening' = opening \ {live}
    /\ live' = None
    /\ identity' = live
    /\ enrol' = may
    /\ status' = "unlocked"
    /\ UNCHANGED <<household, attempts>>

Refuse ==
    /\ live # None
    /\ opening' = opening \ {live}
    /\ live' = None
    /\ status' = "failed"
    /\ UNCHANGED <<identity, household, enrol, attempts>>

(* The answer to an attempt that something overtook changes nothing.         *)
Discard(a) ==
    /\ a \in opening \ {live}
    /\ opening' = opening \ {a}
    /\ UNCHANGED <<status, identity, household, enrol, live, attempts>>

Lock ==
    /\ status' = "locked"
    /\ live' = None
    /\ NoKeys
    /\ attempts' >= attempts
    /\ UNCHANGED opening

Start ==
    /\ attempts' > attempts
    /\ live' = None
    /\ identity' = attempts'
    /\ household' = FALSE
    /\ enrol' = FALSE
    /\ status' = "unlocked"
    /\ UNCHANGED opening

SetHousehold ==
    /\ identity # None
    /\ household' = TRUE
    /\ UNCHANGED <<status, identity, enrol, opening, live, attempts>>

UseUpEnrol ==
    /\ enrol' = FALSE
    /\ UNCHANGED <<status, identity, household, opening, live, attempts>>

SessionNext ==
    \/ Begin
    \/ \E may \in BOOLEAN : Open(may)
    \/ Refuse
    \/ \E a \in opening : Discard(a)
    \/ Lock
    \/ Start
    \/ SetHousehold
    \/ UseUpEnrol

SessionSpec == SessionInit /\ [][SessionNext]_sessionVars
==============================================================================
