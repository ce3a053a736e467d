----------------------------- MODULE MCHousehold -----------------------------
(* The server and a household, under one run: two members' devices that      *)
(* exchange its records, or the accounts, invites and wraps by which they    *)
(* became members. `side` says which a behaviour is about; the first is      *)
(* RecordSync itself, the second an instance of Membership.                  *)
EXTENDS MCRecordSync, TLC

CONSTANTS People, Households, TTL, MaxTime, MaxAtOnce, Null

VARIABLES side, now, accounts, owner, signup, vault, invite, member, request, panel, claimants

Members == INSTANCE Membership

(* What the theorems about Membership assume of its constants.               *)
ASSUME MembersAssumption == Members!NullIsApart /\ TTL \in Nat

memberVars == <<now, accounts, owner, signup, vault, invite, member, request, panel, claimants>>
mcVars     == <<side, vars, memberVars>>

MCInit ==
    /\ side \in {"devices", "members"}
    /\ Init
    /\ Members!Init

MCNext ==
    \/ side = "devices" /\ Next /\ UNCHANGED <<side, memberVars>>
    \/ side = "members" /\ Members!Next /\ UNCHANGED <<side, vars>>

MCSpec == MCInit /\ [][MCNext]_mcVars

(* No operation tells one person from another.                               *)
Symmetry == Permutations(People)

(* Membership: one owner, an invite that lets its newcomer sign up, wraps    *)
(* only for who has a key, by who has a way back in.                         *)
AdmittedRightly    == Members!AdmittedRightly

(* Membership: the tables implement the abstract Standing.                   *)
ImplementsStanding == Members!ImplementsStanding
=============================================================================
