------------------------------ MODULE RecordForm ------------------------------
(* The form of one account on one device, while the record it edits and the     *)
(* goals it is tagged to move underneath it. The fields the form shows are held  *)
(* from when it opened; the rest is read from the live record at every render.   *)
(* A record's data is [kind, fields, value, fixed, percent]: its kind's fields,  *)
(* and its earmarks by goal. A field holds one of Contents.                      *)
(* Sources: src/features/add/record-form.tsx, fields.ts, goal-tags.tsx,         *)
(* form-actions.tsx, features/accounts/accounts.tsx, features/sync/             *)
(* typed-records.ts, field-specs.ts, domain/records/typed.ts, common.ts,         *)
(* asset.ts, liability.ts.                                                      *)
EXTENDS Earmarks

CONSTANTS
    Unreadable,            \* a record this build cannot read; Null is no record
    Kinds, Contents,       \* Contents are numbers; a select opens at the first
    Goals, Shares, Fixeds, \* goals, and what may be earmarked to one
    Amounts,               \* the values a record may have
    MaxEdits               \* what is typed and pulled, at most

VARIABLES
    live,        \* the record on this device: its data, Null, or Unreadable
    goals,       \* the goals readable here
    form,        \* the open form, or Null
    pending,     \* what a save in flight will store, or Null
    edits
------------------------------------------------------------------------------
(* What each kind of record stores, and what its form asks for. A schema maps   *)
(* each field to what it may hold; a form maps each field to its input.         *)
Map(keys, what) == [k \in keys |-> what]

f ++ g == [k \in DOMAIN f \cup DOMAIN g |-> IF k \in DOMAIN f THEN f[k] ELSE g[k]]

Nothing == Map({}, "none")

(* What the fields of each kind hold beyond the common ones: the required ...   *)
Required(kind) ==
    CASE kind = "bankAccount" -> [accountType |-> "enum"]
      [] kind = "fixedDeposit" -> Map({"issuer", "payout"}, "enum")
                                  ++ Map({"taxSaver", "autoRenew"}, "boolean")
      [] kind \in {"recurringDeposit"} -> [instalment |-> "somePaise"]
      [] kind = "epf" -> [includesVpf |-> "boolean"]
      [] kind = "nps" -> [tier |-> "enum"]
      [] kind = "sukanyaSamriddhi" -> [beneficiary |-> "text"]
      [] kind = "smallSavings" -> [scheme |-> "enum"]
      [] kind = "employerBenefit" -> [benefit |-> "enum"]
      [] kind = "mutualFund" -> [quantity |-> "units", instrument |-> "instrument",
                                 plan |-> "enum"]
      [] kind \in {"stock", "crypto", "usStock"} ->
            [quantity |-> "units", instrument |-> "instrument"]
      [] kind = "rsu" -> Map({"quantity", "unvested"}, "units") ++ Map({"plan", "schedule"}, "enum")
                         ++ [instrument |-> "instrument", vestingStart |-> "date"]
      [] kind = "bond" -> [bondType |-> "enum"]
      [] kind = "foreignBank" -> [currency |-> "text", balanceMinor |-> "paise"]
      [] kind = "realEstate" -> [linkedLiabilityIds |-> "ids"]
      [] kind = "preciousMetal" -> Map({"metal", "form"}, "enum")
      [] kind = "insurance" -> [policyType |-> "enum", sumAssured |-> "paise"]
      [] kind \in {"moneyLent", "securityDeposit", "reimbursement", "borrowing"} ->
            [counterparty |-> "text"]
      [] kind = "chitFund" -> [instalment |-> "somePaise"] ++ Map({"monthsPaid", "monthsTotal"}, "int")
      [] kind = "loan" -> [loanType |-> "enum"]
      [] OTHER -> Nothing

Term     == Map({"startDate", "maturityDate"}, "date")
Interest == [interestBps |-> "bps"]
LotsToo  == [lots |-> "lots"]

(* ... and the optional ones.                                                  *)
Optional(kind) ==
    CASE kind \in {"bankAccount"} -> [last4 |-> "text"]
      [] kind \in {"fixedDeposit", "recurringDeposit", "smallSavings"} -> Interest ++ Term
      [] kind \in {"ppf", "sukanyaSamriddhi"} -> Term
      [] kind = "mutualFund" -> LotsToo ++ [folio |-> "text", sip |-> "somePaise"]
      [] kind \in {"stock", "crypto", "usStock", "rsu"} -> LotsToo
      [] kind = "bond" -> Interest ++ [maturityDate |-> "date"]
      [] kind = "unlisted" -> [units |-> "units"]
      [] kind = "realEstate" -> [address |-> "text"]
      [] kind = "vehicle" -> [registration |-> "text"]
      [] kind = "preciousMetal" -> Map({"weightMg", "karat"}, "int")
      [] kind = "insurance" -> [maturityDate |-> "date"]
      [] kind = "moneyLent" -> Interest ++ [expectedBy |-> "date"]
      [] OTHER -> Nothing

LiabilityKinds == {"loan", "creditCard", "borrowing"}

(* A liability's own optional fields; each has a rate.                          *)
OptionalOwed(kind) ==
    Interest ++
    CASE kind = "loan" -> [emi |-> "somePaise", tenureMonthsLeft |-> "int",
                           linkedAssetId |-> "id"]
      [] kind = "creditCard" -> [last4 |-> "text", dueDate |-> "date"]
      [] OTHER -> [repayBy |-> "date"]

Schema(kind) ==
    Required(kind) ++ (IF kind \in LiabilityKinds THEN OptionalOwed(kind) ELSE Optional(kind))
------------------------------------------------------------------------------
(* The inputs each form shows; all of a kind in one map.                        *)
FormOf(kind) ==
    LET rate == [interestBps |-> "percent"]
        ends == [maturityDate |-> "date"]
        held == [quantity |-> "units", instrument |-> "instrument"]
    IN
    CASE kind = "bankAccount" -> [accountType |-> "select", last4 |-> "text"]
      [] kind = "foreignBank" -> [currency |-> "text", balanceMinor |-> "rupees"]
      [] kind = "fixedDeposit" -> ends ++ rate ++ Map({"autoRenew", "taxSaver"}, "switch")
                                  ++ Map({"issuer", "payout"}, "select")
      [] kind = "recurringDeposit" -> ends ++ rate ++ [instalment |-> "rupees"]
      [] kind = "mutualFund" -> held ++ [plan |-> "select", folio |-> "text", sip |-> "rupees"]
      [] kind \in {"stock", "crypto", "usStock"} -> held
      [] kind = "bond" -> ends ++ rate ++ [bondType |-> "select"]
      [] kind = "unlisted" -> [units |-> "units"]
      [] kind = "rsu" -> held ++ [vestingStart |-> "date", unvested |-> "units"]
                         ++ Map({"schedule", "plan"}, "select")
      [] kind = "ppf" -> ends ++ [startDate |-> "date"]
      [] kind = "epf" -> [includesVpf |-> "switch"]
      [] kind = "nps" -> [tier |-> "select"]
      [] kind = "sukanyaSamriddhi" -> ends ++ [startDate |-> "date", beneficiary |-> "text"]
      [] kind = "smallSavings" -> ends ++ rate ++ [scheme |-> "select"]
      [] kind = "employerBenefit" -> [benefit |-> "select"]
      [] kind = "realEstate" -> [address |-> "text"]
      [] kind = "vehicle" -> [registration |-> "text"]
      [] kind = "preciousMetal" -> [weightMg |-> "grams"] ++ Map({"metal", "form"}, "select")
      [] kind = "insurance" -> ends ++ [policyType |-> "select", sumAssured |-> "rupees"]
      [] kind = "moneyLent" -> rate ++ [counterparty |-> "text", expectedBy |-> "date"]
      [] kind \in {"securityDeposit", "reimbursement"} -> [counterparty |-> "text"]
      [] kind = "chitFund" -> [instalment |-> "rupees"] ++ Map({"monthsPaid", "monthsTotal"}, "int")
      [] kind = "loan" -> rate ++ [loanType |-> "select", emi |-> "rupees",
                                   tenureMonthsLeft |-> "int"]
      [] kind = "creditCard" -> [last4 |-> "text", dueDate |-> "date"]
      [] kind = "borrowing" -> rate ++ [counterparty |-> "text", repayBy |-> "date"]
      [] OTHER -> Nothing

KindBaseForgotten(kind) == Nothing

KindBase(kind) == IF kind = "realEstate" THEN [linkedLiabilityIds |-> "ids"] ELSE Nothing
------------------------------------------------------------------------------
vars == <<live, goals, form, pending, edits>>

Blank == 0
None  == [g \in {} |-> 0]

Allocations(data) ==
    [g \in DOMAIN data.fixed |-> [mode |-> "fixed", n |-> data.fixed[g]]]
        ++ [g \in DOMAIN data.percent |-> [mode |-> "percent", n |-> data.percent[g]]]

(* The strict schema of the kind and of the earmarks.                            *)
Valid(data) ==
    /\ DOMAIN Required(data.kind) \subseteq DOMAIN data.fields
    /\ DOMAIN data.fields \subseteq DOMAIN Schema(data.kind)
    /\ DOMAIN data.fixed \cap DOMAIN data.percent = {}
    /\ \A g \in DOMAIN data.percent : data.percent[g] >= 1
    /\ Total(data.percent) <= FullBps

(* prepareWrite's own checks: nothing unreadable is saved over, and the earmarks  *)
(* fit the value.                                                               *)
Writable(data, existing) ==
    /\ existing # Unreadable
    /\ Valid(data)
    /\ AllocationsFit(Allocations(data), data.value)

Readable == live \notin {Null, Unreadable}
------------------------------------------------------------------------------
(* What a form shows: the inputs of its kind, and the lots of a priced holding.    *)
FormFields(kind) ==
    FormOf(kind) ++ IF "instrument" \in DOMAIN FormOf(kind) THEN LotsToo ELSE Nothing

Chosen == {"select", "switch"}
FieldInputsAtFirst(kind, fields) ==
    [k \in DOMAIN FormFields(kind) |->
        IF FormFields(kind)[k] \in Chosen THEN 1
        ELSE IF k \in DOMAIN fields THEN fields[k] ELSE Blank]

(* fieldInputs: what the form starts with. A switch and a select are never blank. *)
FieldInputs(kind, fields) ==
    [k \in DOMAIN FormFields(kind) |->
        IF k \in DOMAIN fields THEN fields[k]
        ELSE IF FormFields(kind)[k] \in Chosen THEN 1
        ELSE Blank]

ReadFilled(kind, inputs, stored) ==
    LET filled == {k \in DOMAIN inputs : inputs[k] # Blank}
    IN  [k \in filled |-> inputs[k]]
            ++ [k \in DOMAIN KindBase(kind) \ filled |-> 1]

(* readFields and the overlay on the stored record: a blank field is cleared.     *)
ReadFields(kind, inputs, stored) ==
    LET filled == {k \in DOMAIN inputs : inputs[k] # Blank}
        rest   == (DOMAIN stored \cup DOMAIN KindBase(kind)) \ DOMAIN inputs
    IN  [k \in filled |-> inputs[k]]
            ++ [k \in rest |-> IF k \in DOMAIN stored THEN stored[k] ELSE 1]

FormFor(data, editing) ==
    [editing |-> editing, kind |-> data.kind, value |-> data.value,
     inputs |-> FieldInputs(data.kind, data.fields), tags |-> data.percent]

Empty(kind) ==
    [kind |-> kind, fields |-> None, value |-> Null, fixed |-> None, percent |-> None]

(* What Save would store: fixed earmarks are kept when their goal is here, the     *)
(* shares are the form's.                                                        *)
FormData ==
    LET stored == IF form.editing THEN live ELSE Empty(form.kind)
        known  == DOMAIN stored.fixed \cap goals
    IN  [kind    |-> form.kind,
         fields  |-> ReadFields(form.kind, form.inputs, stored.fields),
         value   |-> form.value,
         fixed   |-> [g \in known |-> stored.fixed[g]],
         percent |-> form.tags]

CanSave == form.value # Null /\ Valid(FormData)
------------------------------------------------------------------------------
OpenNew ==
    \E kind \in Kinds :
        /\ form = Null /\ live = Null
        /\ form' = FormFor(Empty(kind), FALSE)
        /\ UNCHANGED <<live, goals, pending, edits>>

OpenEdit ==
    /\ form = Null /\ Readable
    /\ form' = FormFor(live, TRUE)
    /\ UNCHANGED <<live, goals, pending, edits>>

Close ==
    /\ form # Null
    /\ form' = Null
    /\ UNCHANGED <<live, goals, pending, edits>>

(* Typing a value, a field, a tag's share, or choosing and dropping a tag. Only    *)
(* goals this device has can be chosen, and none is chosen twice.                 *)
Retag(g, share) == [h \in DOMAIN form.tags \cup {g} |-> IF h = g THEN share ELSE form.tags[h]]

Type ==
    /\ form # Null /\ edits < MaxEdits
    /\ \/ \E v \in Amounts : form' = [form EXCEPT !.value = v]
       \/ \E k \in DOMAIN form.inputs :
             \E c \in Contents \cup IF FormFields(form.kind)[k] \in Chosen THEN {} ELSE {Blank} :
                form' = [form EXCEPT !.inputs[k] = c]
       \/ goals # {} /\ \E g \in DOMAIN form.tags, s \in Shares :
             form' = [form EXCEPT !.tags = Retag(g, s)]
       \/ \E g \in goals \ DOMAIN form.tags :
             form' = [form EXCEPT !.tags = Retag(g, FullBps)]
       \/ goals # {} /\ \E g \in DOMAIN form.tags :
             form' = [form EXCEPT !.tags = [h \in DOMAIN @ \ {g} |-> @[h]]]
    /\ form' # form
    /\ edits' = edits + 1
    /\ UNCHANGED <<live, goals, pending>>

(* submit: refused with a message, or handed to the sync layer.                    *)
Submit ==
    /\ form # Null /\ pending = Null
    /\ CanSave
    /\ Writable(FormData, IF form.editing THEN live ELSE Null)
    /\ pending' = FormData
    /\ UNCHANGED <<live, goals, form, edits>>

(* The write is done. It loses to a later one that was pulled meanwhile; and it     *)
(* closes the dialog, though the form in it may have been opened since.             *)
Saved ==
    /\ pending # Null
    /\ live' \in {pending, live}
    /\ pending' = Null
    /\ form' = Null
    /\ UNCHANGED <<goals, edits>>

(* The write throws (the session locked): the form stays as it was.                *)
SaveFails ==
    /\ pending # Null
    /\ pending' = Null
    /\ UNCHANGED <<live, goals, form, edits>>

Delete ==
    /\ form # Null /\ form.editing /\ pending = Null
    /\ live' = Null
    /\ form' = Null
    /\ UNCHANGED <<goals, pending, edits>>

(* Another device's version arrives. The row, and the form in it, are gone once     *)
(* the record is deleted or no longer readable here.                              *)
Pull(next) ==
    /\ edits < MaxEdits
    /\ live # next
    /\ live # Null \/ (form = Null /\ pending = Null)
    /\ live' = next
    /\ form' = IF form # Null /\ form.editing /\ next \in {Null, Unreadable}
               THEN Null ELSE form
    /\ edits' = edits + 1
    /\ UNCHANGED <<goals, pending>>

GoalsMove ==
    /\ edits < MaxEdits
    /\ goals' \in SUBSET Goals \ {goals}
    /\ edits' = edits + 1
    /\ UNCHANGED <<live, form, pending>>
------------------------------------------------------------------------------
Submits == pending = Null /\ pending' # Null

(* Saving an edit keeps what its form does not show, fields and fixed earmarks of  *)
(* goals that are here, as the live record has them, though the form was opened on  *)
(* an earlier version (record-form.tsx:131).                                     *)
KeepsTheRest ==
    Submits /\ form.editing =>
        /\ \A k \in DOMAIN Schema(live.kind) \ DOMAIN FormFields(live.kind) :
              /\ k \in DOMAIN pending'.fields <=> k \in DOMAIN live.fields
              /\ k \in DOMAIN live.fields => pending'.fields[k] = live.fields[k]
        /\ \A g \in DOMAIN live.fixed \cap goals :
              g \in DOMAIN pending'.fixed /\ pending'.fixed[g] = live.fixed[g]

(* Opening a record and saving it as it is changes nothing but earmarks of goals     *)
(* that are gone (fields.ts:95, record-form.tsx:122).                            *)
SavesTheSame ==
    Submits /\ form.editing /\ form = FormFor(live, TRUE) =>
        pending' = [live EXCEPT !.fixed = [g \in DOMAIN @ \cap goals |-> @[g]]]
==============================================================================
