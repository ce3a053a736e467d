-------------------------------- MODULE MCData --------------------------------
(* What the app computes from its data, under one run. `side` says which part  *)
(* a behaviour is about. Three are state machines: a vault's life, which is    *)
(* VaultLife itself, records across builds and the form of a record. The       *)
(* others put inputs together, or start from one, and ask the functions of the  *)
(* domain about them.                                                         *)
EXTENDS VaultLife, Sequences, Integers, FiniteSetsExt, TLC

CONSTANTS
    Household, Unreadable, g1, g2,
    FullBps, Members, GoalIds, Holdings, MaxHoldings,    \* of the side "money"
    Accounts, Legs, Ranges, MaxLegs,                     \* of "legs"
    Purchases, GrandfatherDate, MaxLots, MaxSales, MaxSold,                   \* of "lots"
    Assets, Debts, MaxAssets, Lists, Now, UnitScale, PriceScale, MaxPaise,
    StaleAfter, Upper, Day(_),                           \* of "values"
    Rows, MaxRows, DayLength, IstOffset, ExchangeOffset, Inr,            \* of "feeds"
    Snapshots, MaxSnapshots, Calendar,                   \* of "series", "dates"
    Today, Plans, Advised, Targets,                      \* of "plan", "advice"
    UnitPlaces, PricePlaces, MaxWhole, MaxRupees, MaxGrams,
    Texts, Numbers,                                      \* of "text", "number"
    Builds, Codecs(_), Writers, Values, MaxId, MaxTime,  \* of "records"
    Kinds, Contents, Shares, Fixeds, Amounts, MaxEdits, Versions(_),     \* of "form"
    GoalBps, GoalKinds, Custom, Default, GoalRates, Parts, Everyone, MaxTyped,
    SharedGoals                                          \* of "goal"

VARIABLES
    side,
    stored, time,                          \* the sides "records" ...
    live, goals, form, pending, edits,     \* ... "form"
    goal, sheet, sent, typed, steps,       \* ... "goal"
    input                                  \* and all others

(* An old build and a new one, which can read what the old one wrote.            *)
CodecsOf(build) ==
    IF build = "old" THEN [type \in {"asset", "member"} |-> [current |-> 1, upgrades |-> {}]]
    ELSE [type \in {"asset", "member"} |-> [current |-> 2, upgrades |-> {1}]]

Typed == INSTANCE Records WITH Members <- Writers

ASSUME RecordsAssumption == Typed!CodecConstants /\ Null \notin Typed!Sound

Form == INSTANCE RecordForm WITH Goals <- GoalIds

Sums  == INSTANCE Earmarks
Tax   == INSTANCE Lots WITH NotEnough <- Refused
Past  == INSTANCE Timeline
Plan  == INSTANCE GoalMaths WITH TargetPassed <- Refused, BPS <- 20, AtRiskBps <- 18
Text  == INSTANCE Decimals WITH FullBps <- 10000

SameDay(n) == n

Worth == INSTANCE PriceFeeds WITH NoPrices <- Refused, DateOfNumber <- SameDay

Goal == INSTANCE GoalForm WITH FullBps <- GoalBps, Rates <- GoalRates
------------------------------------------------------------------------------
(* The inputs. Two members, one who left (3); shares of 1/4.                    *)
Ownership == {[m \in {1} |-> 4], [m \in {1, 2} |-> IF m = 1 THEN 1 ELSE 3],
              [m \in {1, 2, 3} |-> IF m = 1 THEN 2 ELSE 1]}

Share(n)  == [mode |-> "percent", n |-> n]
Fixed(n)  == [mode |-> "fixed", n |-> n]
Tagged    == {[g \in {} |-> Null], [g \in {g1} |-> Share(2)],
              [g \in {g1, g2} |-> IF g = g1 THEN Fixed(3) ELSE Share(3)]}

HoldingsOf ==
    {h \in [side : {"asset", "liability"}, value : {1, 3, 5}, owners : Ownership,
            includeInNetWorth : BOOLEAN, allocations : Tagged] :
        h.includeInNetWorth \/ h.value = 5}

(* What the schemas accept: shares above 0 of members, which have numbers, and   *)
(* what a record is tagged with (records/common.ts).                            *)
Shared(owners) ==
    /\ owners = [m \in DOMAIN owners |-> owners[m]]
    /\ IsFiniteSet(DOMAIN owners) /\ DOMAIN owners # {} /\ DOMAIN owners \subseteq Nat
    /\ \A m \in DOMAIN owners : owners[m] \in Nat \ {0}

Earmarked(list) ==
    /\ list = [g \in DOMAIN list |-> list[g]]
    /\ IsFiniteSet(DOMAIN list)
    /\ \A g \in DOMAIN list : list[g].n \in Nat

ASSUME MoneyAssumption ==
    /\ FullBps \in Nat \ {0}
    /\ IsFiniteSet(Members) /\ Household \notin Members
    /\ IsFiniteSet(GoalIds)
    /\ \A h \in Holdings :
          /\ h.side \in {"asset", "liability"} /\ h.value \in Nat
          /\ Shared(h.owners) /\ Earmarked(h.allocations)

AddHolding ==
    /\ side = "money"
    /\ Len(input.holdings) < MaxHoldings
    /\ \E h \in Holdings : input' = [input EXCEPT !.holdings = Append(@, h)]

MoveGoal ==
    /\ side = "money"
    /\ \E g \in GoalIds :
          \/ input' = [input EXCEPT !.goals = @ \cup {g}]
          \/ input' = [input EXCEPT !.goals = @ \ {g}]

(* A vault as an upload may spell it, good or bad: one key after the other is   *)
(* added to an object, and what each key may hold.                              *)
WireValues(k) ==
    LET Slot(c, s) == [credentialId |-> c, prfSalt |-> s,
                       wrap |-> Wrap(PasskeyKey(c, s), "passkey", CHOOSE i \in Identities : TRUE)]
        AWrap(name) == Wrap(name, name, CHOOSE i \in Identities : TRUE)
    IN  CASE k = "v"            -> {0, 1, 2, 3}
          [] k = "publicKey"    -> Identities \cup {Malformed}
          [] k = "kdf"          -> [salt : Salts, work : Work]
          [] k = "byPassphrase" -> {AWrap("passphrase"), Malformed}
          [] k = "byRecovery"   -> {AWrap("recovery")}
          [] k = "passkeys"     -> SUBSET {Slot(c, s) : c \in Credentials, s \in Salts}

AddKey ==
    /\ side = "wire"
    /\ \E k \in Keys \ DOMAIN input : \E x \in WireValues(k) :
          input' = [l \in DOMAIN input \cup {k} |-> IF l = k THEN x ELSE input[l]]

(* Legs on an account of one member, of two, and on one that is gone.           *)
AccountsOf == [a \in {"own", "joint"} |->
                  IF a = "own" THEN [m \in {1} |-> 4]
                  ELSE [m \in {1, 2, 3} |-> IF m = 1 THEN 2 ELSE 1]]

RangesOf == [from : {Null, 2}, to : {Null, 1}]

Owners == UNION {DOMAIN Accounts[a] : a \in DOMAIN Accounts}

LegsOf ==
    {l \in [kind : {"in", "out"}, account : {"own", "joint", "gone"}, amount : {3, 5},
            date : {1, 2}, transfer : {Null, "t"}] :
        l.transfer = Null => l.amount = 5}

ASSUME LegsAssumption ==
    /\ IsFiniteSet(DOMAIN Accounts)
    /\ \A a \in DOMAIN Accounts : Shared(Accounts[a])
    /\ Household \notin Owners
    /\ \A l \in Legs : l.amount \in Nat /\ l.kind \in {"in", "out"}
    /\ Null \notin {"missing-leg", "mismatched"}

AddLeg ==
    /\ side = "legs"
    /\ Len(input) < MaxLegs
    /\ \E l \in Legs : input' = Append(input, l)

(* Lots are bought, then units are sold, twice at most.                         *)
PurchasesOf ==
    {l \in [units : {1, 2, 3}, cost : {0, 5, 7}, acquired : {1, 2}, fmv : {Null, 4}] :
        Tax!LotValid(l)}

(* What the schema of a lot accepts: some units, a cost, a date, and for an old     *)
(* one perhaps its grandfathered value.                                         *)
LotTypes == [units : Nat, cost : Nat, acquired : Int, fmv : Nat \cup {Null}]

ASSUME LotsAssumption ==
    /\ GrandfatherDate \in Int /\ Null \notin Nat
    /\ \A l \in Purchases : l \in LotTypes /\ Tax!LotValid(l)

Buy ==
    /\ side = "lots"
    /\ Len(input.lots) < MaxLots /\ input.sales = 0
    /\ \E l \in Purchases : input' = [input EXCEPT !.lots = Append(@, l)]

Sell ==
    /\ side = "lots"
    /\ input.sales < MaxSales
    /\ \E n \in 1 .. MaxSold :
          LET result == Tax!ConsumeFifo(input.lots, n)
          IN  /\ result # Refused
              /\ input' = [lots |-> result.remaining, sold |-> input.sold \o result.sold,
                           sales |-> input.sales + 1]

(* Assets of six kinds; price lists that are recent, old or missing.            *)
DayNumber(now) == now \div 4

UpperOf == [inf |-> "INF"]

Priced(kind, source, code) ==
    [kind |-> kind, value |-> 9, quantity |-> 15, includeInNetWorth |-> TRUE,
     instrument |-> [source |-> source, code |-> code]]

AssetsOf ==
    {a @@ [owners |-> o] :
        o \in Ownership,
        a \in {Priced("mutualFund", "mf", "inf"), Priced("mutualFund", "mf", "ABC"),
               Priced("usStock", "us", "XYZ"),
               [kind |-> "foreignBank", value |-> 9, currency |-> "USD", balanceMinor |-> 30,
                includeInNetWorth |-> TRUE],
               [kind |-> "preciousMetal", value |-> 9, metal |-> "gold", karat |-> 22,
                weightMg |-> 20, includeInNetWorth |-> TRUE],
               [kind |-> "bankAccount", value |-> 7, includeInNetWorth |-> FALSE],
               [kind |-> "term", value |-> 7, includeInNetWorth |-> TRUE]}}

List(source, fetched) ==
    [date |-> 2, fetchedAt |-> fetched, currency |-> IF source = "us" THEN "USD" ELSE "INR",
     dates  |-> IF source = "mf" THEN [c \in {"INF"} |-> 1] ELSE [c \in {} |-> 1],
     prices |-> CASE source = "mf" -> [INF |-> 12, ABC |-> 90]
                  [] source = "us" -> [XYZ |-> 5]
                  [] source = "fx" -> [USD |-> 13]
                  [] OTHER -> [gold999 |-> 25]]

ListsOf == [s \in {"mf", "us", "fx", "metal"} |-> {List(s, fetched) : fetched \in {5, 6}}]

DebtsOf == [i \in {9} |-> [kind |-> "loan", value |-> 4, includeInNetWorth |-> TRUE,
                              owners |-> [m \in {1, 3} |-> 2]]]

(* What the schemas of assets and of price lists accept: amounts and prices that     *)
(* are not negative, dates and stamps that are numbers.                           *)
SoundAsset(a) ==
    /\ a.value \in Nat /\ a.includeInNetWorth \in BOOLEAN /\ Shared(a.owners)
    /\ a.kind \in Worth!PricedKinds => a.quantity \in Nat
    /\ a.kind = "foreignBank" => a.balanceMinor \in Nat
    /\ a.kind = "preciousMetal" =>
           a.weightMg \in Nat \cup {Null} /\ (a.metal = "gold" => a.karat \in Nat \cup {Null})

SoundList(file) ==
    /\ file.date \in Int /\ file.fetchedAt \in Int
    /\ \A c \in DOMAIN file.dates : file.dates[c] \in Int
    /\ \A c \in DOMAIN file.prices : file.prices[c] \in Nat

ASSUME ValuesAssumption ==
    /\ \A a \in Assets : SoundAsset(a)
    /\ IsFiniteSet(DOMAIN Debts)
    /\ \A i \in DOMAIN Debts : /\ Debts[i].value \in Nat /\ Debts[i].includeInNetWorth \in BOOLEAN
                               /\ Shared(Debts[i].owners)
    /\ \A s \in DOMAIN Lists : \A file \in Lists[s] : SoundList(file)
    /\ UnitScale \in Nat \ {0} /\ PriceScale \in Nat \ {0}
    /\ Null \notin Int /\ Null \notin Members

AddAsset ==
    /\ side = "values"
    /\ Len(input.assets) < MaxAssets
    /\ \E a \in Assets : input' = [input EXCEPT !.assets = Append(@, a)]

Fetch ==
    /\ side = "values"
    /\ \E source \in DOMAIN Lists \ DOMAIN input.universes : \E file \in Lists[source] :
          input' = [input EXCEPT !.universes =
                       [s \in DOMAIN @ \cup {source} |-> IF s = source THEN file ELSE @[s]]]

(* Snapshots of two days, each with a stamp of its own.                         *)
SnapshotsOf == [modifiedAt : 1 .. 4, data : [date : {1, 2}, net : {0, 5}]]

CalendarOf == {d \in 20240101 .. 20251231 : Past!IsDate(d)}

ASSUME TimelineAssumption ==
    /\ \A s \in Snapshots : s.modifiedAt \in Int
    /\ \A d \in Calendar : d \in Int /\ Past!IsDate(d)

AddSnapshot ==
    /\ side = "series"
    /\ Len(input) < MaxSnapshots
    /\ \E s \in Snapshots :
          /\ \A i \in DOMAIN input : input[i].modifiedAt # s.modifiedAt
          /\ input' = Append(input, s)

(* Lines, rows or entries of a feed: each price tells when it was one.             *)
FeedRows ==
    {[code |-> c, price |-> 70 + 10 * at, at |-> at, flag |-> f] :
        c \in {"inf", "ABC", "XYZ"}, at \in {2, 3, 5}, f \in BOOLEAN}
    \cup {[code |-> c, price |-> Null, at |-> 2, flag |-> TRUE] : c \in {"inf", "ABC", "XYZ"}}
    \cup {[code |-> "ABC", price |-> 0, at |-> 2, flag |-> TRUE]}

(* What a feed's rows hold: a price that is not negative, unless it does not read,    *)
(* and a time; and what is told of the codes in them.                              *)
SoundRow(row) == row.price \in Nat \cup {Null} /\ row.at \in Int /\ row.flag \in BOOLEAN

FeedDates == {(row.at + offset) \div DayLength : row \in Rows,
                                                offset \in {0, ExchangeOffset, IstOffset}}
FeedCodes == {row.code : row \in Rows} \cup {Worth!NormaliseCode(row.code) : row \in Rows}
ByCode(S) == UNION {[codes -> S] : codes \in SUBSET FeedCodes}

ASSUME FeedsAssumption ==
    /\ \A row \in Rows : SoundRow(row)
    /\ DayLength \in Nat \ {0} /\ IstOffset \in Int /\ ExchangeOffset \in Int
    /\ Inr \in Nat \ {0}
    /\ Null \notin FeedCodes /\ Null # Refused
    /\ Null \notin [date : FeedDates, dates : ByCode(FeedDates)]
    /\ Null \notin [price : Nat, currency : {"INR", "USD"}, date : FeedDates]
    /\ Null \notin [gold : Nat, silver : Nat, date : FeedDates, session : {"AM", "PM"}]
    /\ Refused \notin [date : FeedDates, dates : ByCode(FeedDates), prices : ByCode(Nat),
                       currency : {"INR", "USD"}, skipped : Nat]

WestOffset == -1

AddRow ==
    /\ side = "feeds"
    /\ Len(input) < MaxRows
    /\ \E row \in Rows : input' = Append(input, row)

AssetKinds ==
    {"bankAccount", "cash", "wallet", "fixedDeposit", "recurringDeposit", "ppf", "epf", "nps",
     "sukanyaSamriddhi", "smallSavings", "employerBenefit", "mutualFund", "stock", "bond",
     "unlisted", "crypto", "usStock", "rsu", "foreignBank", "realEstate", "vehicle",
     "preciousMetal", "valuable", "insurance", "moneyLent", "securityDeposit",
     "reimbursement", "chitFund", "p2pLending"}

(* Goals that are due, in part of a month, and in one month to three.            *)
Rates == {[up |-> 0, of |-> 1], [up |-> 1, of |-> 4], [up |-> 1, of |-> 2]}
PlansOf == [target : 1 .. 20, present : {-1, 0, 2, 3, 5}, rate : Rates, inflation : Rates,
            by : {20240115, 20240214, 20240215, 20240314, 20240315, 20240415}]
AdvisedOf == [kind : {"stock", "epf", "ppf", "vehicle"}, claim : {0, 5},
              lockedUntil : {Null, 20270131}, goal : {"retirement", "emergency"}]
TargetsOf == {20261231, 20270114, 20270115, 20270116, 20270131, 20270201}

(* A rate is never below zero (schema.ts), and a date is one of the calendar.     *)
SoundRate(rate) == rate.up \in Nat /\ rate.of \in Nat \ {0}

ASSUME PlansAssumption ==
    /\ Today \in Int /\ Past!IsDate(Today)
    /\ \A p \in Plans : /\ p.target \in Nat /\ p.present \in Int /\ p.by \in Int
                        /\ SoundRate(p.rate) /\ SoundRate(p.inflation)
    /\ \A d \in Targets : d \in Int /\ Past!IsDate(d)
    /\ \A source \in Advised : source.lockedUntil \in Int \cup {Null}

(* Numbers as JavaScript spells them: digits, a point among them, an exponent.    *)
NumbersOf ==
    {n \in [digits : UNION {[1 .. k -> {1, 4, 5, 9}] : k \in 1 .. 3} \cup {<<9, 9, 9, 9, 5>>},
            dot : 1 .. 3, exp : -6 .. 1] :
        n.dot <= Len(n.digits)}

(* Integers that are stored: paise, basis points, milligrams, units.             *)
TextsOf == 0 .. 1200 \cup {9999, 10000, 10001, 99999, 100000}

ASSUME TextAssumption ==
    /\ UnitPlaces \in Nat /\ PricePlaces \in Nat
    /\ MaxWhole \in Nat /\ MaxRupees \in Nat /\ MaxGrams \in Nat
    /\ \A n \in Texts : n \in Nat
    /\ \A n \in Numbers : /\ n.digits \in Seq(0 .. 9) /\ n.digits # <<>>
                          /\ n.dot \in 1 .. Len(n.digits) /\ n.exp \in Int
    /\ Null \notin Nat /\ Null \notin [whole : Nat, frac : Seq(Nat)]

Inputs ==
    CASE side = "wire"   -> {[k \in {} |-> Null]}
      [] side = "money"  -> {[holdings |-> <<>>, goals |-> {}]}
      [] side = "lots"   -> {[lots |-> <<>>, sold |-> <<>>, sales |-> 0]}
      [] side = "values" -> {[assets |-> <<>>, universes |-> [s \in {} |-> Null]]}
      [] side \in {"legs", "series", "feeds"} -> {<<>>}
      [] side = "dates"  -> Calendar
      [] side = "plan"   -> Plans
      [] side = "advice" -> Advised
      [] side = "text"   -> Texts
      [] side = "number" -> Numbers
      [] side = "kinds"  -> Form!LiabilityKinds \cup AssetKinds
      [] OTHER           -> {Null}
------------------------------------------------------------------------------
(* What another device may store: a version of a record that its build accepts. *)
VersionsOf(kind) ==
    LET hidden == DOMAIN Form!Schema(kind)
        must   == DOMAIN Form!Required(kind)
        Only(one, n) == [g \in {one} |-> n]
        data   == [kind : {kind}, value : {4},
                   fields : {[k \in must \cup more |-> c] : more \in {{}, hidden}, c \in {1, 2}},
                   fixed : {Form!None} \cup {Only(g, 3) : g \in {g1, g2}},
                   percent : {Form!None} \cup {Only(g, 2) : g \in {g1, g2}}]
    IN  {d \in data : Form!Writable(d, Null)}

(* A record as its schema has it: a field that is there holds something.          *)
SoundData(d) ==
    /\ d = [kind |-> d.kind, fields |-> d.fields, value |-> d.value, fixed |-> d.fixed,
            percent |-> d.percent]
    /\ d.fields = [k \in DOMAIN d.fields |-> d.fields[k]]
    /\ Form!Valid(d)
    /\ \A k \in DOMAIN d.fields : d.fields[k] # Form!Blank

ASSUME FormAssumption ==
    \A kind \in Kinds : \A d \in Versions(kind) : SoundData(d) /\ d.kind = kind

AllVersions == UNION {Versions(kind) : kind \in Kinds}

FormInit ==
    /\ live \in {Null} \cup AllVersions
    /\ goals \in SUBSET GoalIds
    /\ form = Null /\ pending = Null /\ edits = 0

(* A record keeps its kind, so a version of another kind comes only as a new one.  *)
PullAny ==
    \E next \in {Null, Unreadable} \cup
                IF Form!Readable THEN Versions(live.kind) ELSE AllVersions :
        Form!Pull(next)

FormNext ==
    \/ Form!OpenNew \/ Form!OpenEdit \/ Form!Close \/ Form!Type
    \/ Form!Submit \/ Form!Saved \/ Form!SaveFails \/ Form!Delete
    \/ PullAny \/ Form!GoalsMove
------------------------------------------------------------------------------
(* A goal was made by some device's form, so its shares are a sound split; one of    *)
(* its owners may have left.                                                     *)
GoalsOf == {[kind |-> "education", inflation |-> rate, owners |-> owners, colour |-> colour] :
               rate \in {7, 10}, colour \in {0, 1},
               owners \in {Goal!EvenShares(<<1>>), Goal!EvenShares(<<2, 4>>)}}

DefaultOf == [custom |-> 6, education |-> 10]

Family == <<1, 2, 3>>

(* The owners of a goal: nobody twice, and no more than can have a basis point.      *)
Apart(list) == \A i, j \in DOMAIN list : list[i] = list[j] => i = j

SoundOwners(shares) ==
    LET list == [i \in DOMAIN shares |-> shares[i].member]
    IN  /\ list \in Seq(Nat) /\ Apart(list) /\ Len(list) \in 1 .. GoalBps
        /\ \A i \in DOMAIN shares :
              shares[i] = [member |-> shares[i].member, bps |-> shares[i].bps]

ASSUME GoalAssumption ==
    /\ GoalBps \in Nat \ {0} /\ Null \notin Nat
    /\ Everyone \in Seq(Nat) /\ Apart(Everyone) /\ Len(Everyone) \in 1 .. GoalBps
    /\ \A g \in SharedGoals : SoundOwners(g.owners)

GoalInit ==
    /\ goal \in {Null} \cup IF side = "goal" THEN SharedGoals ELSE {}
    /\ sheet = Null /\ sent = Null /\ typed = {} /\ steps = 0

GoalNext ==
    \/ Goal!NewGoal \/ Goal!EditGoal \/ Goal!CloseGoal \/ Goal!TypeGoal
    \/ Goal!SubmitGoal \/ Goal!GoalSaved \/ Goal!GoalSaveFails \/ Goal!DeleteGoal
    \/ \E next \in SharedGoals \cup {Null} : Goal!PullGoal(next)
------------------------------------------------------------------------------
formVars == <<live, goals, form, pending, edits>>
goalVars == <<goal, sheet, sent, typed, steps>>
mcVars   == <<side, vars, stored, time, formVars, goalVars, input>>

MCInit ==
    /\ side \in {"vault", "wire", "records", "form", "money", "legs", "lots", "values",
                 "series", "dates", "plan", "text", "number", "kinds", "feeds", "goal",
                 "advice"}
    /\ side # "vault" =>
          device = Null /\ vault = CreateIdentity(CHOOSE i \in Identities : TRUE,
                                                 CHOOSE p \in Passphrases : TRUE,
                                                 CHOOSE c \in Codes : TRUE,
                                                 CHOOSE k \in Kdfs : TRUE)
    /\ side # "form" => live = Null /\ goals = {}
    /\ Init
    /\ Typed!Init
    /\ FormInit
    /\ GoalInit
    /\ input \in Inputs

Ask ==
    \/ AddHolding \/ MoveGoal \/ AddLeg \/ Buy \/ Sell \/ AddAsset \/ Fetch \/ AddSnapshot
    \/ AddRow \/ AddKey

MCNext ==
    \/ /\ side = "vault" /\ Next
       /\ UNCHANGED <<side, stored, time, formVars, goalVars, input>>
    \/ /\ side = "records" /\ Typed!Next
       /\ UNCHANGED <<side, vars, formVars, goalVars, input>>
    \/ /\ side = "form" /\ FormNext
       /\ UNCHANGED <<side, vars, stored, time, goalVars, input>>
    \/ /\ side = "goal" /\ GoalNext
       /\ UNCHANGED <<side, vars, stored, time, formVars, input>>
    \/ /\ Ask
       /\ UNCHANGED <<side, vars, stored, time, formVars, goalVars>>

MCSpec == MCInit /\ [][MCNext]_mcVars
------------------------------------------------------------------------------
(* The properties of the instances.                                            *)

NewerIsKept          == [][Typed!KeepsNewer]_mcVars
RenamesOnlyOneself   == [][Typed!RenamesTheWriter]_mcVars
EditKeepsTheRest     == [][Form!KeepsTheRest]_mcVars
UntouchedSavesTheSame == [][Form!SavesTheSame]_mcVars
GoalSavesWhatWasTyped == [][Goal!SavesWhatWasTyped]_mcVars
SplitsEvenly          == [][Goal!SplitsEvenly]_mcVars

(* Why: a form that edits is of the kind of the live record, which is readable.     *)
FormInv ==
    /\ Form!Readable => SoundData(live) /\ live.kind \in Kinds
    /\ pending # Null => SoundData(pending) /\ pending.kind \in Kinds
    /\ form # Null =>
           /\ form = [editing |-> form.editing, kind |-> form.kind, value |-> form.value,
                      inputs |-> form.inputs, tags |-> form.tags]
           /\ form.kind \in Kinds
           /\ form.inputs = [k \in DOMAIN Form!FormFields(form.kind) |-> form.inputs[k]]
           /\ form.editing => Form!Readable /\ live.kind = form.kind

(* Why: the inflation of a goal's form is the one last typed, or its kind's.        *)
GoalInv ==
    /\ goal # Null => SoundOwners(goal.owners)
    /\ sent # Null => SoundOwners(sent.owners)
    /\ sheet # Null =>
           /\ sheet = [editing |-> sheet.editing, kind |-> sheet.kind,
                       inflation |-> sheet.inflation, touched |-> sheet.touched,
                       shares |-> sheet.shares]
           /\ SoundOwners(sheet.shares)
           /\ typed = IF sheet.touched THEN {sheet.inflation} ELSE {}
           /\ sheet.touched \/ sheet.inflation = Default[sheet.kind]

(* Why: what the objects of side "wire" are made of, none of which is Null.        *)
WireInv ==
    side = "wire" =>
        /\ input = [k \in DOMAIN input |-> input[k]]
        /\ DOMAIN input \subseteq Keys
        /\ \A k \in DOMAIN input : input[k] \in WireValues(k)

ApartFromWires ==
    /\ Malformed # Null
    /\ Null \notin [salt : Salts, work : Work]
    /\ Null \notin Wraps({"passphrase"}, "passphrase") /\ Null \notin Wraps({"recovery"}, "recovery")

ASSUME WireAssumption == ApartFromWires /\ Identities # {}

(* One canonical form per vault: what decodes is exactly what the decoded vault     *)
(* encodes to, so two devices never hold different bytes for one vault (wire.ts).   *)
OneForm ==
    side = "wire" =>
        LET decoded == DecodeVault(input)
        IN  decoded # Refused => EncodeVault(decoded) = input

(* Nothing decodes to a vault whose passphrase cannot be tried, whose KDF would ask *)
(* for more or less work than allowed, or where two passkey slots or a sixth        *)
(* compete (wire.ts:154).                                                           *)
DecodedIsSound ==
    side = "wire" =>
        LET decoded == DecodeVault(input)
        IN  decoded # Refused =>
                /\ decoded.byPassphrase # Null <=> decoded.kdf # Null
                /\ decoded.kdf # Null => decoded.kdf.work \in MinWork .. MaxWork
                /\ \A c \in Credentials :
                       Cardinality({slot \in decoded.passkeys : slot.credentialId = c}) <= 1
                /\ Cardinality(decoded.passkeys) <= MaxSlots
                /\ Malformed \notin {decoded.publicKey, decoded.byPassphrase,
                                     decoded.byRecovery}

(* Why: the holdings are what the schemas accept, whichever goals there are.       *)
MoneyInv ==
    side = "money" =>
        /\ input = [holdings |-> input.holdings, goals |-> input.goals]
        /\ input.holdings \in Seq(Holdings)
        /\ input.goals \subseteq GoalIds

(* Household = the members' lenses + what former members still own, on each side,  *)
(* to the paisa, and the pass over all lenses agrees with each lens on its own      *)
(* (networth.ts:113, money.ts:37).                                             *)
LensesAddUp ==
    side = "money" =>
        LET all == Sums!AllLenses(input.holdings, Members)
        IN  /\ all.household = Sums!NetWorth(input.holdings, Household)
            /\ \A m \in Members : all.byMember[m] = Sums!NetWorth(input.holdings, m)
            /\ \A part \in {"assets", "liabilities", "net"} :
                  all.household[part] = Sums!Total([m \in Members |-> all.byMember[m][part]])
                                        + all.formerMembers[part]

(* However goals overbook a record (two devices may each have tagged it), their      *)
(* claims together never exceed its value and none is negative: what is left, and    *)
(* the share shown as tagged, stay within bounds (earmarks.ts:36, badge.ts:35).   *)
NobodyOverbooked ==
    side = "money" =>
        \A i \in DOMAIN input.holdings :
            LET h      == input.holdings[i]
                claims == Sums!Claims(h.allocations, h.value)
            IN  /\ \A g \in DOMAIN claims : claims[g] > 0
                /\ Sums!UnallocatedOf(h) >= 0
                /\ Sums!TaggedPercent(h.allocations, h.value) \in 0 .. 100
                /\ Sums!AllocationsFit(h.allocations, h.value) =>
                      \A g \in DOMAIN claims :
                          claims[g] = Sums!Allocated(h.allocations[g], h.value)

(* Under any lens, a goal that is deleted gives exactly what it claimed back to      *)
(* Unallocated, and moves no other goal (earmarks.ts:75, ADR-0053).               *)
FreesToUnallocated ==
    \A lens \in Members \cup {Household} :
        side = "money" /\ input'.goals \subseteq input.goals
                       /\ input'.holdings = input.holdings =>
            LET before == Sums!EarmarksOf(input.holdings, input.goals, lens)
                after  == Sums!EarmarksOf(input.holdings, input'.goals, lens)
                freed  == DOMAIN before.byGoal \ input'.goals
            IN  /\ \A g \in DOMAIN after.byGoal : after.byGoal[g] = before.byGoal[g]
                /\ DOMAIN after.byGoal = DOMAIN before.byGoal \ freed
                /\ after.unallocated = before.unallocated
                      + Sums!Total([g \in freed |-> before.byGoal[g]])

GoalFreed == [][FreesToUnallocated]_mcVars

(* The Goals screen tells the net worth of its lens, whatever goals are tagged, gone or   *)
(* overbooked: what it calls earmarked and Unallocated make up exactly that (goals.tsx:76). *)
GoalsAddUp ==
    side = "money" =>
        \A lens \in Members \cup {Household} :
            Sums!Headline(input.holdings, input.goals, lens).netWorth
                = Sums!NetWorth(input.holdings, lens).net

(* Why: the legs are among those there may be.                                     *)
LegsInv == side = "legs" => input \in Seq(Legs)

(* What came in or went out of accounts that are here is the household's figure,      *)
(* and the members' lenses add up to it in every range: a transfer between them      *)
(* counts for nothing in sum, also over a range that has one leg of it only, and     *)
(* the legs of one that is told as an issue count nowhere (contributions.ts:62, :79). *)
ContributionsAddUp ==
    side = "legs" /\ (\A i \in DOMAIN input : input[i].account \in DOMAIN Accounts) =>
        \A range \in Ranges :
            LET Of(lens) == Sums!ContributionsOf(input, Accounts, lens, range)
                told     == {issue.transfer : issue \in Sums!TransferIssues(input)}
                sound    == [l \in {k \in DOMAIN input : input[k].transfer \notin told} |-> input[l]]
            IN  /\ Of(Household).net = Sums!Total([m \in Owners |-> Of(m).net])
                /\ \A lens \in Owners \cup {Household} :
                      /\ Of(lens).added >= 0 /\ Of(lens).withdrawn >= 0
                      /\ Of(lens).net = Of(lens).added - Of(lens).withdrawn
                      /\ Of(lens) = Sums!ContributionsOf(sound, Accounts, lens, range)

(* Why: the lots kept are ones the schema accepts, and so is each part of one.       *)
LotsInv ==
    side = "lots" =>
        /\ input = [lots |-> input.lots, sold |-> input.sold, sales |-> input.sales]
        /\ input.lots \in Seq(LotTypes) /\ input.sold \in Seq(LotTypes)
        /\ \A i \in DOMAIN input.lots : Tax!LotValid(input.lots[i])
        /\ input.sales \in Nat

(* Sales take units oldest first and lose nothing: units, cost and grandfathered      *)
(* value of what is sold and what is kept add up to what was held, however often a   *)
(* lot is split, and every lot kept is one the schema accepts (lots.ts:29).        *)
LosesNothing ==
    side = "lots" /\ input'.sales > input.sales =>
        LET Cost(lots) == Tax!SumOver(lots, LAMBDA lot : lot.cost)
            Fmv(lots)  == Tax!SumOver(lots, LAMBDA lot : IF lot.fmv = Null THEN 0 ELSE lot.fmv)
            new        == SubSeq(input'.sold, Len(input.sold) + 1, Len(input'.sold))
        IN  /\ Tax!LotsMatch(Tax!SumUnits(input.lots) - Tax!SumUnits(new), input'.lots)
            /\ Cost(input'.lots) + Cost(new) = Cost(input.lots)
            /\ Fmv(input'.lots) + Fmv(new) = Fmv(input.lots)
            /\ \A i \in DOMAIN new, j \in DOMAIN input'.lots :
                  new[i].acquired <= input'.lots[j].acquired
            /\ \A j \in DOMAIN input'.lots : Tax!LotValid(input'.lots[j])

SalesConserve == [][LosesNothing]_mcVars

(* Why: the assets and the price lists are what the schemas accept.                *)
ValuesInv ==
    side = "values" =>
        /\ input = [assets |-> input.assets, universes |-> input.universes]
        /\ input.assets \in Seq(Assets)
        /\ input.universes = [s \in DOMAIN input.universes |-> input.universes[s]]
        /\ \A s \in DOMAIN input.universes : SoundList(input.universes[s])

(* A value is shown as stale exactly when a price list without which it would be       *)
(* another is old (valuation.ts:43, :83).                                       *)
StaleIffInfluenced ==
    side = "values" =>
        \A i \in DOMAIN input.assets :
            LET Of(universes) == Worth!ValuationOf(input.assets[i], universes, Now)
                Less(s)    == [t \in DOMAIN input.universes \ {s} |-> input.universes[t]]
                Counts(s)     == Of(Less(s)).source # "market"
            IN  Of(input.universes).source = "market" =>
                  (Of(input.universes).stale <=>
                      \E s \in DOMAIN input.universes :
                          Counts(s) /\ Now - input.universes[s].fetchedAt > StaleAfter)

(* The day's snapshot adds up: its lenses to the household, its buckets to what the    *)
(* household owns, and its date of prices is that of the oldest it used             *)
(* (snapshot.ts:62).                                                           *)
SnapshotAddsUp ==
    side = "values" =>
        LET s == Worth!BuildSnapshot(input.assets, Debts, input.universes, Members, Now)
            V(i) == Worth!ValuationOf(input.assets[i], input.universes, Now)
            market == {i \in DOMAIN input.assets : V(i).source = "market"}
        IN  /\ Past!LensNet(s, Household)
                  = Sums!Total([row \in Past!ByMember(s) |-> row.net])
            /\ Worth!Total(s.buckets) = s.household.assets
            /\ s.pricesAsOf = Null <=> market = {}
            /\ \A i \in market : s.pricesAsOf <= V(i).asOf

(* The orders a list may be put in: what is at each place, and where all of it is.       *)
Orders(places) == {p \in [places -> places] : \A i \in places : \E j \in places : p[j] = i}

(* Why: what is asked about is an input, and no two snapshots have one stamp.           *)
PlansInv ==
    /\ side = "series" =>
           /\ input \in Seq(Snapshots)
           /\ \A i, j \in DOMAIN input : i # j => input[i].modifiedAt # input[j].modifiedAt
    /\ side = "dates"  => input \in Calendar
    /\ side = "plan"   => input \in Plans
    /\ side = "advice" => input \in Advised

(* The timeline does not depend on the order in which snapshots are synced: of each    *)
(* day it shows the one stamped last (timeline.ts:32).                            *)
OrderIsIrrelevant ==
    side = "series" =>
        \A live_ \in {Null} \cup {s.data : s \in Snapshots}, p \in Orders(DOMAIN input) :
            Past!TimelineSeries([i \in DOMAIN input |-> input[p[i]]], live_)
                = Past!TimelineSeries(input, live_)

(* A range starts a whole number of months back, on the same day or, where the month   *)
(* has no such day, on its last one (timeline.ts:40).                             *)
RangeIsWholeMonths ==
    side = "dates" =>
        \A range \in DOMAIN Past!RangeMonths :
            LET start == Past!RangeStart(range, input)
                Months(d) == Past!Year(d) * 12 + Past!Month(d)
            IN  /\ Past!IsDate(start)
                /\ Months(input) - Months(start) = Past!RangeMonths[range]
                /\ \/ Past!DayOf(start) = Past!DayOf(input)
                   \/ Past!DayOf(start) < Past!DayOf(input) /\ ~Past!IsDate(start + 1)

(* Paying what a goal is said to need puts it on track, whatever is saved already and      *)
(* however prices rise, and a goal said to need nothing is on track (projection.ts:72,     *)
(* :87, :117).                                                                      *)
SipIsEnough ==
    side = "plan" /\ Plan!MonthsUntil(Today, input.by) > 0 =>
        LET goal_(monthly) ==
                [targetDate |-> input.by, targetAmount |-> input.target,
                 inflation |-> input.inflation, return |-> input.rate,
                 earmarked |-> input.present, monthlyContribution |-> monthly]
            Paying(monthly) == Plan!ProjectGoal(goal_(monthly), Today)
        IN  Paying(Paying(0).requiredMonthlySip).status = "onTrack"

(* A target further away suits a source better or as well, never worse: no warning appears *)
(* on a day of the month on which another one goes (suitability.ts:55, projection.ts:25). *)
LaterSuitsBetter ==
    side = "advice" =>
        LET Warned(d) == Plan!Suitability([kind |-> input.goal, targetDate |-> d], input, Today)
        IN  \A sooner, later \in Targets : sooner < later => Warned(later) \subseteq Warned(sooner)

(* Why: what is asked about is an input.                                          *)
NumbersInv ==
    /\ side = "text"   => input \in Texts
    /\ side = "number" => input \in Numbers

(* What is stored is what a form shows and reads back, to the last unit, unless it is    *)
(* more than the form reads; text with more decimals than its kind has is refused,       *)
(* never cut (units.ts:21, kinds.ts:105, fields.ts:26, :42).                         *)
TextRoundTrips ==
    side = "text" =>
        LET UpTo(largest, value) == IF input < largest THEN value ELSE Null
        IN  /\ Text!ToUnits(Text!FormatUnits(input)) = input
            /\ Text!ToPriceUnits(Text!FromPriceUnits(input)) = input
            /\ Text!ParseRupees(Text!PaiseToInput(input)) = UpTo((MaxRupees + 1) * 100, input)
            /\ Text!ParseGrams(Text!GramsToInput(input)) = UpTo((MaxGrams + 1) * 1000, input)
            /\ Text!ParsePercent(Text!BpsToPercent(input)) = UpTo(10001, input)
            /\ Text!ParseRupees(Text!GramsToInput(input)) =
                  IF input % 10 = 0 THEN UpTo((MaxRupees + 1) * 1000, input \div 10) ELSE Null

(* A feed's number becomes the price nearest to it, half up, however it is spelled       *)
(* (price.ts:47).                                                              *)
PriceIsRounded ==
    side = "number" =>
        LET digits == Text!Value(input.digits)
            shift  == input.dot + input.exp - Len(input.digits) + PricePlaces
            cut    == Text!Scale(-shift)
            units  == IF shift >= 0 THEN digits * Text!Scale(shift)
                      ELSE (2 * digits + cut) \div (2 * cut)
            price  == Text!PriceFromNumber(input)
        IN  IF units >= (MaxWhole + 1) * Text!Scale(PricePlaces) THEN price = Null
            ELSE price # Null /\ Text!ToPriceUnits(price) = units

(* What each form can ask for is what its kind stores, in that field's own type, and     *)
(* no required field is left without an input or a default: a form no one could ever    *)
(* save, or one whose field the strict schema refuses (field-specs.ts:38, asset.ts). *)
FormsFitSchemas ==
    side = "kinds" =>
        LET Fits(asks) ==
                CASE asks \in {"select"} -> {"enum"}
                  [] asks = "switch"  -> {"boolean"}
                  [] asks = "rupees"  -> {"paise", "somePaise"}
                  [] asks = "percent" -> {"bps"}
                  [] asks = "grams"   -> {"int"}
                  [] OTHER -> {asks}
            form_  == Form!FormOf(input)
            schema == Form!Schema(input)
        IN  /\ \A k \in DOMAIN form_ : k \in DOMAIN schema /\ schema[k] \in Fits(form_[k])
            /\ DOMAIN Form!Required(input) \subseteq DOMAIN form_ \cup DOMAIN Form!KindBase(input)
            /\ DOMAIN Form!KindBase(input) \subseteq DOMAIN schema

(* Why: the rows are among those there may be.                                     *)
FeedsInv == side = "feeds" => input \in Seq(Rows)

(* The lists each feed makes of the rows so far. Scheme codes are digits, which the        *)
(* upper-case codes stand for; a flag is a kept series, or a PM rate.                 *)
OnDay(row, offset) == (row.at + offset) \div DayLength
Schemes(rows) == [i \in DOMAIN rows |-> [code  |-> IF rows[i].code \in DOMAIN Upper THEN Null
                                                  ELSE rows[i].code,
                                         price |-> rows[i].price, date |-> OnDay(rows[i], 0)]]
Trades(rows) == [i \in DOMAIN rows |-> [code |-> rows[i].code, price |-> rows[i].price,
                                        date |-> OnDay(rows[i], 0), kept |-> rows[i].flag]]
Quotes(rows) == [i \in DOMAIN rows |-> [code |-> rows[i].code, price |-> rows[i].price,
                                        at |-> rows[i].at, offset |-> ExchangeOffset]]
Metals(rows) == [i \in DOMAIN rows |-> [gold |-> rows[i].price, silver |-> rows[i].price,
                                        date |-> OnDay(rows[i], 0),
                                        session |-> IF rows[i].flag THEN "PM" ELSE "AM"]]

Same(code, other) == Worth!NormaliseCode(code) = Worth!NormaliseCode(other)

(* From a feed to a screen, a price keeps its row and its day: what a lookup gives for     *)
(* a code, however it is spelled, is the price of a row of that code, dated as that       *)
(* row is; and a code with a row that reads has one, but in a bhavcopy of another day      *)
(* (amfi.ts:66, bhavcopy.ts:88, universe.ts:64, :85).                              *)
PricesKeepTheirDay ==
    side = "feeds" =>
        \A feed \in {"amfi", "nse", "us", "crypto"} :
            LET file == CASE feed = "amfi" -> Worth!ParseAmfi(Schemes(input))
                          [] feed = "nse"  -> Worth!ParseBhavcopy(Trades(input))
                          [] feed = "us"   -> Worth!ParseSpark(Quotes(input))
                          [] OTHER         -> Worth!ParseCoinGecko(Quotes(input))
                offset == CASE feed = "us" -> ExchangeOffset [] feed = "crypto" -> IstOffset
                            [] OTHER -> 0
                Reads(r) == /\ r.price # Null
                            /\ feed = "nse" => r.flag
                            /\ feed = "amfi" => r.code \notin DOMAIN Upper
                Quote(c) == IF file = Refused THEN Null
                            ELSE Worth!Lookup([s \in {feed} |-> file],
                                              [source |-> feed, code |-> c])
            IN  \A c \in FeedCodes :
                    LET read == {i \in DOMAIN input : Same(input[i].code, c) /\ Reads(input[i])}
                    IN  IF Quote(c) # Null
                        THEN \E i \in read : input[i].price = Quote(c).price
                                             /\ OnDay(input[i], offset) = Quote(c).date
                        ELSE \A i \in read : feed = "nse" /\ OnDay(input[i], 0) # file.date

(* The order of batches, and of rows in a page of rates, does not matter (us.ts:4,         *)
(* metal.ts:8).                                                                     *)
FeedsInAnyOrder ==
    side = "feeds" =>
        \A p \in Orders(DOMAIN input) :
            LET other == [i \in DOMAIN input |-> input[p[i]]]
                Once(key) == \A i, j \in DOMAIN input : i # j => key[i] # key[j]
            IN  /\ Once([i \in DOMAIN input |-> Worth!NormaliseCode(input[i].code)]) =>
                      Worth!ParseSpark(Quotes(other)) = Worth!ParseSpark(Quotes(input))
                /\ Once([i \in DOMAIN input |-> <<OnDay(input[i], 0), input[i].flag>>]) =>
                      Worth!ParseIbja(Metals(other)) = Worth!ParseIbja(Metals(input))

(* Any two currencies are worth each other in rupees what the feed says, to the rounding   *)
(* of the last place; one it quotes at nothing has no rate (fx.ts:5).               *)
RatesAreCross ==
    side = "feeds" =>
        LET quoted == {input[i].code : i \in DOMAIN input} \ {"INR", "EUR"}
            rate   == [c \in quoted |->
                         (CHOOSE r \in {input[i] : i \in DOMAIN input} : r.code = c).price]
            rates  == [c \in quoted \cup {"INR"} |-> IF c = "INR" THEN Inr ELSE rate[c]]
            file   == Worth!ParseFrankfurter("EUR", 1, rates)
        IN  /\ Worth!FxRate([fx |-> file], "EUR") = Inr
            /\ \A c \in quoted :
                  LET inr == Worth!FxRate([fx |-> file], c)
                  IN  IF rate[c] \in {Null, 0} THEN inr = Null
                      ELSE 2 * (inr * rate[c] - Inr * PriceScale) \in -rate[c] .. rate[c]

------------------------------------------------------------------------------
(* Whatever is added, replaced and removed, every slot of a vault opens, and so    *)
(* does what travels as its wire form, of which a vault has exactly one.           *)
VaultsOpen == SlotsOpen /\ Travels /\ OneForm /\ DecodedIsSound

(* To the paisa, parts add up: lenses and goals tell one net worth, however it is  *)
(* split and goals are overbooked, and no goal that goes takes anything with it.   *)
PaisaAddUp == [](LensesAddUp /\ NobodyOverbooked /\ GoalsAddUp) /\ GoalFreed

(* No sale loses units or cost, what moved between accounts is in every lens, and  *)
(* a snapshot holds all there is.                                                  *)
NothingIsLost == SalesConserve /\ [](ContributionsAddUp /\ SnapshotAddsUp)

(* From a feed to a value, a price keeps its row, its day and its ratio, in any    *)
(* order of rows, and what is old says so.                                         *)
PricesAreTrue == StaleIffInfluenced /\ PricesKeepTheirDay /\ FeedsInAnyOrder /\ RatesAreCross

(* Series, ranges and plans agree with the calendar: the order of a sync changes   *)
(* nothing, months are whole, and what is advised is enough.                       *)
PlansHold == OrderIsIrrelevant /\ RangeIsWholeMonths /\ SipIsEnough /\ LaterSuitsBetter

(* A number typed, fetched or stored is the number read back, and every form asks  *)
(* for what its kind stores.                                                       *)
NumbersAreKept == TextRoundTrips /\ PriceIsRounded /\ FormsFitSchemas

(* A form saves what it shows and nothing else: fields it does not show, tags of   *)
(* goals that are gone, and a goal's shares survive, whatever a sync brings.       *)
FormsSaveWhatIsShown ==
    EditKeepsTheRest /\ UntouchedSavesTheSame /\ GoalSavesWhatWasTyped /\ SplitsEvenly

(* Whoever writes, with an old build or a new one, leaves what is newer and what   *)
(* is another member's.                                                            *)
BuildsAgree == NewerIsKept /\ RenamesOnlyOneself
=============================================================================
