------------------------------- MODULE Timeline -------------------------------
(* The net worth timeline: a series of the daily snapshots, and its ranges.    *)
(* A date is the number its digits spell (20240229), which sorts as its text    *)
(* does. A stamped snapshot is [modifiedAt, data].                             *)
(* Sources: src/domain/timeline.ts.                                           *)
EXTENDS Integers, Sequences, SequencesExt

CONSTANTS Null, Household

Year(date)  == date \div 10000
Month(date) == (date \div 100) % 100
DayOf(date) == date % 100

(* The last day of a month.                                                   *)
LastDay(y, m) ==
    CASE m = 2            -> IF (y % 4 = 0 /\ y % 100 # 0) \/ y % 400 = 0 THEN 29 ELSE 28
      [] m \in {4, 6, 9, 11} -> 30
      [] OTHER            -> 31

IsDate(date) == Month(date) \in 1 .. 12 /\ DayOf(date) \in 1 .. LastDay(Year(date), Month(date))

RangeMonths == [m1 |-> 1, m3 |-> 3, y1 |-> 12]
RangeStartUnclamped(range, today) ==
    LET back == Year(today) * 12 + (Month(today) - 1) - RangeMonths[range]
    IN  (back \div 12) * 10000 + ((back % 12) + 1) * 100 + DayOf(today)

RangeStart(range, today) ==
    IF range = "All" THEN 101
    ELSE LET back  == Year(today) * 12 + (Month(today) - 1) - RangeMonths[range]
             year  == back \div 12
             month == (back % 12) + 1
         IN  year * 10000 + month * 100 + Min({DayOf(today), LastDay(year, month)})

KeptLast(seen, i, snapshots) ==
    {j \in seen : snapshots[j].data.date # snapshots[i].data.date} \cup {i}

(* Of the snapshots of one date, the later stamp; the first of equal ones.     *)
Kept(seen, i, snapshots) ==
    LET date == snapshots[i].data.date
        old  == {j \in seen : snapshots[j].data.date = date}
    IN  IF \A j \in old : snapshots[i].modifiedAt > snapshots[j].modifiedAt
        THEN (seen \ old) \cup {i} ELSE seen

(* One point per date, oldest first; today's live figure replaces its own.     *)
TimelineSeries(snapshots, live) ==
    LET kept   == FoldLeftDomain(LAMBDA seen, i : Kept(seen, i, snapshots), {}, snapshots)
        points == {snapshots[i].data : i \in kept}
        shown  == IF live = Null THEN points
                  ELSE {p \in points : p.date # live.date} \cup {live}
    IN  SetToSortSeq(shown, LAMBDA p, q : p.date < q.date)

InRange(points, range, today) ==
    SelectSeq(points, LAMBDA p : p.date >= RangeStart(range, today))

LensNet(point, lens) ==
    IF lens = Household THEN point.household.net
    ELSE IF lens \in DOMAIN point.members THEN point.members[lens].net
    ELSE 0

(* Each member's net, and the former members' (Null) when they have one.        *)
ByMember(point) ==
    {[id |-> m, net |-> point.members[m].net] : m \in DOMAIN point.members}
        \cup {[id |-> Null, net |-> n] : n \in {point.formerMembers.net} \ {0}}
==============================================================================
