------------------------------- MODULE GoalForm -------------------------------
(* The form of a goal, and the split among its owners. What the form shows is    *)
(* held from when it opened; what it does not show (the goal's colour) is read   *)
(* from the live record at every render. A goal is [kind, inflation, owners,     *)
(* colour], owners a sequence of [member, bps].                                  *)
(* Sources: src/features/goals/goal-form.tsx, features/add/owned-by.tsx.         *)
EXTENDS Integers, Sequences, FiniteSetsExt, SequencesExt

CONSTANTS
    Null,               \* no goal, no form, or text that is not a percent
    FullBps,
    GoalKinds, Custom,
    Default,            \* the inflation each kind starts with
    Rates, Parts,       \* what may be typed as inflation, and as a share
    Everyone,           \* me, then the other members; a former one is not in it
    MaxTyped

VARIABLES
    goal,               \* the goal on this device
    sheet,              \* the open form, or Null
    sent,               \* what a save in flight will store, or Null
    typed,              \* the inflation last typed in this form, if any, in a set
    steps

goalVars == <<goal, sheet, sent, typed, steps>>

EvenSharesDown(members) ==
    [i \in DOMAIN members |-> [member |-> members[i], bps |-> FullBps \div Len(members)]]

(* Equal shares; the odd basis points go to the first in the list.               *)
EvenShares(members) ==
    LET base == FullBps \div Len(members)
    IN  [i \in DOMAIN members |->
            [member |-> members[i],
             bps    |-> base + IF i <= FullBps - base * Len(members) THEN 1 ELSE 0]]

(* What is left to assign; Null while a share is not one.                        *)
Remainder(shares) ==
    LET bps == [i \in DOMAIN shares |-> shares[i].bps]
    IN  IF \E i \in DOMAIN bps : bps[i] \in {Null, 0} THEN Null
        ELSE FullBps - MapThenSumSet(LAMBDA i : bps[i], DOMAIN bps)

Owners(shares) == {shares[i].member : i \in DOMAIN shares}

(* Those of a list that are picked, in its order.                                 *)
Pick(members, picked) ==
    FoldLeft(LAMBDA list, m : IF m \in picked THEN Append(list, m) ELSE list, <<>>, members)

(* Ticking and unticking: the former members go too once somebody is ticked.      *)
Ticked(shares, m) == EvenShares(Pick(Everyone, Owners(shares) \cup {m}))

Unticked(shares, m) ==
    EvenShares(Pick([i \in DOMAIN shares |-> shares[i].member], Owners(shares) \ {m}))

(* What Save would store: `parsed`, which is valid or the button is disabled.      *)
GoalData ==
    [kind |-> sheet.kind, inflation |-> sheet.inflation, owners |-> sheet.shares,
     colour |-> IF sheet.editing THEN goal.colour ELSE 0]

Valid == sheet.inflation # Null /\ Remainder(sheet.shares) = 0
------------------------------------------------------------------------------
NewGoal ==
    /\ sheet = Null /\ goal = Null
    /\ sheet' = [editing |-> FALSE, kind |-> Custom, inflation |-> Default[Custom],
                 touched |-> FALSE,
                 shares |-> <<[member |-> Head(Everyone), bps |-> FullBps]>>]
    /\ typed' = {}
    /\ UNCHANGED <<goal, sent, steps>>

EditGoal ==
    /\ sheet = Null /\ goal # Null
    /\ sheet' = [editing |-> TRUE, kind |-> goal.kind, inflation |-> goal.inflation,
                 touched |-> TRUE, shares |-> goal.owners]
    /\ typed' = {goal.inflation}
    /\ UNCHANGED <<goal, sent, steps>>

CloseGoal ==
    /\ sheet # Null
    /\ sheet' = Null
    /\ UNCHANGED <<goal, sent, typed, steps>>

PickKindAndRate(k) ==
    /\ sheet' = [sheet EXCEPT !.kind = k, !.inflation = Default[k]]
    /\ UNCHANGED typed

(* The inflation follows the kind until it is typed.                              *)
PickKind(k) ==
    /\ sheet' = [sheet EXCEPT !.kind = k,
                              !.inflation = IF sheet.touched THEN @ ELSE Default[k]]
    /\ UNCHANGED typed

TypeInflation(rate) ==
    /\ sheet' = [sheet EXCEPT !.inflation = rate, !.touched = TRUE]
    /\ typed' = {rate}

Toggle(m) ==
    /\ m \in Owners(sheet.shares) => Len(sheet.shares) > 1
    /\ sheet' = [sheet EXCEPT !.shares = IF m \in Owners(@) THEN Unticked(@, m)
                                         ELSE Ticked(@, m)]
    /\ UNCHANGED typed

(* A share has an input only while there are two.                                 *)
SetShare(m, bps) ==
    /\ Len(sheet.shares) > 1
    /\ sheet' = [sheet EXCEPT !.shares =
                    [i \in DOMAIN @ |-> IF @[i].member = m THEN [@[i] EXCEPT !.bps = bps]
                                        ELSE @[i]]]
    /\ UNCHANGED typed

TypeGoal ==
    /\ sheet # Null /\ steps < MaxTyped
    /\ \/ \E k \in GoalKinds : PickKind(k)
       \/ \E rate \in Rates : TypeInflation(rate)
       \/ \E i \in DOMAIN Everyone : Toggle(Everyone[i])
       \/ \E i \in DOMAIN Everyone, bps \in Parts : SetShare(Everyone[i], bps)
    /\ steps' = steps + 1
    /\ UNCHANGED <<goal, sent>>

SubmitGoal ==
    /\ sheet # Null /\ sent = Null
    /\ Valid
    /\ sent' = GoalData
    /\ UNCHANGED <<goal, sheet, typed, steps>>

(* Stored, unless a later version was pulled meanwhile; and the dialog closes.     *)
GoalSaved ==
    /\ sent # Null
    /\ goal' \in {sent, goal}
    /\ sent' = Null /\ sheet' = Null
    /\ UNCHANGED <<typed, steps>>

GoalSaveFails ==
    /\ sent # Null
    /\ sent' = Null
    /\ UNCHANGED <<goal, sheet, typed, steps>>

(* Accounts keep their earmarks of a deleted goal.                                *)
DeleteGoal ==
    /\ sheet # Null /\ sheet.editing /\ sent = Null
    /\ goal' = Null /\ sheet' = Null
    /\ UNCHANGED <<sent, typed, steps>>

(* Another device's version arrives; the form of a goal that is gone is gone.      *)
PullGoal(next) ==
    /\ steps < MaxTyped
    /\ goal # Null /\ goal # next
    /\ goal' = next
    /\ sheet' = IF sheet # Null /\ sheet.editing /\ next = Null THEN Null ELSE sheet
    /\ steps' = steps + 1
    /\ UNCHANGED <<sent, typed>>
------------------------------------------------------------------------------
(* A goal is saved with the inflation that was last typed, or was stored when its   *)
(* form opened, whatever kind is picked after; with its kind's when none was; and   *)
(* with the colour the live goal has (goal-form.tsx:120, :127).                    *)
SavesWhatWasTyped ==
    sent = Null /\ sent' # Null =>
        /\ sent'.inflation \in IF typed = {} THEN {Default[sent'.kind]} ELSE typed
        /\ sheet.editing => sent'.colour = goal.colour

(* However owners are ticked and unticked, the split that comes out is saved as it   *)
(* is: it adds up to 100% and no two owners are more than a basis point apart, so   *)
(* nobody is left at nothing (owned-by.tsx:20, :85).                               *)
SplitsEvenly ==
    sheet # Null /\ sheet' # Null /\ Owners(sheet.shares) # Owners(sheet'.shares) =>
        /\ Remainder(sheet'.shares) = 0
        /\ \A i, j \in DOMAIN sheet'.shares :
              sheet'.shares[i].bps - sheet'.shares[j].bps \in -1 .. 1
==============================================================================
