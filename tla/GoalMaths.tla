------------------------------ MODULE GoalMaths ------------------------------
(* What a goal needs and where it stands. Rates are given as exact fractions   *)
(* per month, where the program computes them in floating point from annual    *)
(* basis points; every amount is rounded once, as in the program.             *)
(* Sources: src/domain/goals/projection.ts, suitability.ts.                   *)
EXTENDS Integers, FiniteSets, SequencesExt

CONSTANTS
    Null,
    TargetPassed,   \* the error of a goal whose month has come
    BPS, AtRiskBps  \* 100%, and the share at which a goal is only at risk

Year(date)  == date \div 10000
Month(date) == (date \div 100) % 100
DayOf(date) == date % 100

AtLeast0(n) == IF n < 0 THEN 0 ELSE n
MonthsUntilByDay(today, target) ==
    AtLeast0((Year(target) - Year(today)) * 12 + Month(target) - Month(today)
             - IF DayOf(target) > DayOf(today) THEN 1 ELSE 0)

(* Whole calendar months; a part month does not count.                        *)
MonthsUntil(today, target) ==
    AtLeast0((Year(target) - Year(today)) * 12 + Month(target) - Month(today)
             - IF DayOf(target) < DayOf(today) THEN 1 ELSE 0)

Round(n, d)   == (2 * n + d) \div (2 * d)
CeilingToNearest(n, d) == Round(n, d)

Ceiling(n, d) == -((-n) \div d)

Power(b, n) == FoldLeft(LAMBDA product, x : product * x, 1, [i \in 1 .. n |-> b])

(* A monthly rate of rate.up / rate.of grows one rupee to a fraction,          *)
(* and one rupee a month to another.                                          *)
Growth(rate, months)  == [n |-> Power(rate.of + rate.up, months), d |-> Power(rate.of, months)]
Annuity(rate, months) ==
    LET g == Growth(rate, months)
    IN  IF rate.up = 0 THEN [n |-> months, d |-> 1]
        ELSE [n |-> (g.n - g.d) \div rate.up, d |-> Power(rate.of, months - 1)]

InflatedTarget(target, rate, months) ==
    LET g == Growth(rate, months) IN Round(target * g.n, g.d)

ProjectedCorpus(present, monthly, rate, months) ==
    LET g == Growth(rate, months)
        a == Annuity(rate, months)
    IN  Round(present * g.n * a.d + monthly * a.n * g.d, g.d * a.d)

(* Rounded up, so that paying it is always enough.                            *)
RequiredMonthlySip(target, present, rate, months) ==
    LET g   == Growth(rate, months)
        a   == Annuity(rate, months)
        gap == target * g.d - present * g.n
    IN  IF months <= 0 THEN TargetPassed
        ELSE IF gap <= 0 THEN 0
        ELSE Ceiling(gap * a.d, g.d * a.n)

GoalStatus(projected, target) ==
    IF projected >= target THEN "onTrack"
    ELSE IF projected * BPS >= target * AtRiskBps THEN "atRisk" ELSE "offTrack"

ProjectGoal(goal, today) ==
    LET months    == MonthsUntil(today, goal.targetDate)
        target    == InflatedTarget(goal.targetAmount, goal.inflation, months)
        present   == AtLeast0(goal.earmarked)
        projected == ProjectedCorpus(present, goal.monthlyContribution, goal.return, months)
        progress  == (present * BPS) \div target
    IN  IF months <= 0 THEN TargetPassed
        ELSE [months |-> months, inflatedTarget |-> target,
              progressBps |-> IF progress > BPS THEN BPS ELSE progress,
              shortfall |-> AtLeast0(target - present), projected |-> projected,
              requiredMonthlySip |-> RequiredMonthlySip(target, present, goal.return, months),
              status |-> GoalStatus(projected, target)]
------------------------------------------------------------------------------
VolatileMinMonths == 36

Volatile         == {"mutualFund", "stock", "usStock", "rsu", "crypto", "unlisted"}
RetirementLocked == {"epf", "nps"}
Illiquid         == {"realEstate", "vehicle", "valuable", "chitFund"}

(* The reasons a source does not fit the goal it funds.                        *)
Suitability(goal, source, today) ==
    {code \in {"volatileShortHorizon", "retirementLocked", "locksPastTarget",
               "illiquidEmergency"} :
        /\ source.claim > 0
        /\ CASE code = "volatileShortHorizon" ->
                    source.kind \in Volatile
                    /\ MonthsUntil(today, goal.targetDate) < VolatileMinMonths
             [] code = "retirementLocked" ->
                    source.kind \in RetirementLocked /\ goal.kind # "retirement"
             [] code = "locksPastTarget" ->
                    source.lockedUntil # Null /\ source.lockedUntil > goal.targetDate
             [] OTHER -> source.kind \in Illiquid /\ goal.kind = "emergency"}
==============================================================================
