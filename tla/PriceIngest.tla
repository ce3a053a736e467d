----------------------------- MODULE PriceIngest -----------------------------
(* The price server: the schedule that starts a run twice a day, a run's     *)
(* ingest of every kind, and the table it keeps and serves.                  *)
(* Sources: src/server/price-schedule.ts, src/server/prices.ts,              *)
(* src/instrumentation.ts, the price routes, and price-feeds.ts for how a    *)
(* fetch ends.                                                               *)
(*                                                                           *)
(* The clock counts the four parts of an Indian day that the schedule tells  *)
(* apart: before 07:00, to noon, to 23:30, to midnight.                      *)
EXTENDS Naturals, FiniteSets, FiniteSetsExt

CONSTANTS
    Kinds,          \* UNIVERSE_KINDS
    Counts,         \* how many codes a file lists
    RetentionDays,
    MaxDay,         \* bound: the last day of the clock
    MaxStored,      \* bound: files stored
    MaxFaults,      \* bound: database errors and restarts
    Null

VARIABLES
    host,       \* "home": a process with a timer; "staging": a cron calls in
    clock,
    due,        \* when the timer fires, or Null
    job,        \* where a run is with each kind, or Null
    table,      \* price_universes: a row for a kind and date, or Null
    stored,     \* files stored so far; the last is the ETag of a new one
    faults

vars == <<host, clock, due, job, table, stored, faults>>

PartsPerDay == 4
IngestDates == 0 .. MaxDay
Today == clock \div PartsPerDay

(* RUN_TIMES_IST: 07:00 and 23:30.                                           *)
RunTimes == {1, 3}

NextRunOfToday(now) ==
    LET times == {(now \div PartsPerDay) * PartsPerDay + t : t \in RunTimes}
        left  == {t \in times : t > now}
    IN  IF left = {} THEN now + PartsPerDay ELSE Min(left)

NextRun(now) ==
    Min({t \in {(now \div PartsPerDay + d) * PartsPerDay + r : d \in {0, 1}, r \in RunTimes}
            : t > now})

(* Before noon a run collects the day before.                                *)
RunDate(now) ==
    IF now % PartsPerDay < 2 THEN now \div PartsPerDay - 1 ELSE now \div PartsPerDay

(* register: a server that starts arms the timer at once.                    *)
Init ==
    /\ host \in {"home", "staging"}
    /\ clock = PartsPerDay
    /\ due = IF host = "home" THEN NextRun(clock) ELSE Null
    /\ job = [k \in Kinds |-> Null]
    /\ table = [k \in Kinds |-> [d \in IngestDates |-> Null]]
    /\ stored = 0
    /\ faults = 0

Tick ==
    /\ clock < MaxDay * PartsPerDay + PartsPerDay - 1
    /\ clock' = clock + 1
    /\ UNCHANGED <<host, due, job, table, stored, faults>>

------------------------------------------------------------------------------
(* ingestAll: every kind at once.                                            *)
Ingesting == job' = [k \in Kinds |-> [at |-> "fetch", date |-> RunDate(clock)]]

Resting == \A k \in Kinds : job[k] = Null

Fire ==
    /\ due # Null
    /\ due <= clock
    /\ Resting
    /\ Ingesting
    /\ due' = Null
    /\ UNCHANGED <<host, clock, table, stored, faults>>

Cron ==
    /\ host = "staging"
    /\ Resting
    /\ Ingesting
    /\ UNCHANGED <<host, clock, due, table, stored, faults>>

ArmAfterStored ==
    /\ host = "home"
    /\ due = Null
    /\ Resting
    /\ \E k \in Kinds : table[k][Today] # Null
    /\ due' = NextRun(clock)
    /\ UNCHANGED <<host, clock, job, table, stored, faults>>

(* The run settled: arm again.                                               *)
Arm ==
    /\ host = "home"
    /\ due = Null
    /\ Resting
    /\ due' = NextRun(clock)
    /\ UNCHANGED <<host, clock, job, table, stored, faults>>

Pending == {k \in Kinds : job[k] # Null /\ job[k].at \in {"check", "write"}}

(* A feed answers with the day asked for, or with its own latest.            *)
Fetched(k) ==
    /\ job[k] # Null
    /\ job[k].at = "fetch"
    /\ stored + Cardinality(Pending) < MaxStored
    /\ \E d \in {job[k].date, Today}, n \in Counts :
           job' = [job EXCEPT ![k] = [at |-> "check", date |-> d, count |-> n]]
    /\ UNCHANGED <<host, clock, due, table, stored, faults>>

(* No answer, a bad one, or a file that does not parse.                      *)
FetchFailed(k) ==
    /\ job[k] # Null
    /\ job[k].at = "fetch"
    /\ job' = [job EXCEPT ![k] = Null]
    /\ UNCHANGED <<host, clock, due, table, stored, faults>>

RowsUpTo(k, date) == {d \in IngestDates : d <= date /\ table[k][d] # Null}

(* The file to compare with is the newest that is not newer.                 *)
PrevCount(k, date) ==
    IF RowsUpTo(k, date) = {} THEN 0 ELSE table[k][Max(RowsUpTo(k, date))].count

TooSmallOnAnotherDay(k, j) ==
    RowsUpTo(k, j.date - 1) # {} /\ j.count * 2 < table[k][Max(RowsUpTo(k, j.date - 1))].count

TooSmall(k, j) == j.count * 2 < PrevCount(k, j.date)

Check(k) ==
    /\ job[k] # Null
    /\ job[k].at = "check"
    /\ job' = [job EXCEPT ![k] = IF TooSmall(k, job[k]) THEN Null ELSE [job[k] EXCEPT !.at = "write"]]
    /\ UNCHANGED <<host, clock, due, table, stored, faults>>

Write(k) ==
    /\ job[k] # Null
    /\ job[k].at = "write"
    /\ stored' = stored + 1
    /\ table' = [table EXCEPT ![k][job[k].date] = [count |-> job[k].count, stamp |-> stored']]
    /\ job' = [job EXCEPT ![k].at = "prune"]
    /\ UNCHANGED <<host, clock, due, faults>>

OutdatedOrLater(d, date) == d + RetentionDays # date

Outdated(d, date) == d + RetentionDays < date

Prune(k) ==
    /\ job[k] # Null
    /\ job[k].at = "prune"
    /\ table' = [table EXCEPT ![k] =
                    [d \in IngestDates |-> IF Outdated(d, job[k].date) THEN Null ELSE @[d]]]
    /\ job' = [job EXCEPT ![k] = Null]
    /\ UNCHANGED <<host, clock, due, stored, faults>>

(* A statement that fails ends this kind's ingest and the run's promise: the *)
(* timer is armed while the other kinds go on.                               *)
DbFails(k) ==
    /\ job[k] # Null
    /\ job[k].at # "fetch"
    /\ faults < MaxFaults
    /\ faults' = faults + 1
    /\ job' = [job EXCEPT ![k] = Null]
    /\ due' = IF host = "home" /\ due = Null THEN NextRun(clock) ELSE due
    /\ UNCHANGED <<host, clock, table, stored>>

Restart ==
    /\ faults < MaxFaults
    /\ faults' = faults + 1
    /\ job' = [k \in Kinds |-> Null]
    /\ due' = IF host = "home" THEN NextRun(clock) ELSE Null
    /\ UNCHANGED <<host, clock, table, stored>>

Ingest(k) ==
    Fetched(k) \/ FetchFailed(k) \/ Check(k) \/ Write(k) \/ Prune(k)

Next ==
    \/ Tick
    \/ Fire
    \/ Cron
    \/ Arm
    \/ Restart
    \/ \E k \in Kinds :
           \/ Ingest(k)
           \/ DbFails(k)

(* Requests time out and promises settle; nothing makes a clock go on here.  *)
Fairness ==
    /\ WF_vars(Arm)
    /\ \A k \in Kinds : WF_vars(Ingest(k))

Spec == Init /\ [][Next]_vars /\ Fairness
------------------------------------------------------------------------------
Latest(k) == Max(RowsUpTo(k, MaxDay))

(* What /latest answers.                                                     *)
Served ==
    [k \in Kinds |->
        IF RowsUpTo(k, MaxDay) = {} THEN Null
        ELSE [date |-> Latest(k), stamp |-> table[k][Latest(k)].stamp]]

Promise == INSTANCE PriceFile WITH
    Dates <- IngestDates, Stamps <- 1 .. MaxStored, file <- Served

(* Fetches in any order, failures, restarts and pruning: the file served as  *)
(* the latest of a kind is only ever replaced by one of the same day or a    *)
(* later one, and never taken away.                                          *)
ImplementsPriceFile == Promise!Spec

ServedCount(k) == IF Served[k] = Null THEN 0 ELSE table[k][Latest(k)].count

(* prices.ts:68: a file with under half the codes of the previous one        *)
(* writes nothing, also a retry for the same day.                            *)
HalfKept == [][\A k \in Kinds : ServedCount(k)' * 2 >= ServedCount(k)]_vars

FilesKept == ImplementsPriceFile /\ HalfKept

(* price-schedule.ts:79: at every run time, forever. An armed timer is due   *)
(* by the next run time, however late the last run fired or ended.           *)
NoRunSkipped == due # Null => due <= NextRun(clock)

(* A run that throws, hangs for a while or finds nothing still ends with the *)
(* timer armed.                                                              *)
ArmedAgain == [](host = "home" => <>(due # Null))

------------------------------------------------------------------------------
(* Why the file served is only ever replaced by a later one.                 *)
Rows == [count : Counts, stamp : 1 .. MaxStored]

Jobs ==
    [at : {"fetch"}, date : IngestDates]
        \cup [at : {"check", "write", "prune"}, date : IngestDates, count : Counts]

IngestConstants ==
    /\ IsFiniteSet(Kinds)
    /\ Counts \subseteq Nat
    /\ RetentionDays \in Nat
    /\ MaxDay \in Nat \ {0}
    /\ MaxStored \in Nat
    /\ Null \notin Nat \cup Rows \cup Jobs \cup [date : IngestDates, stamp : 1 .. MaxStored]

IngestOK ==
    /\ clock \in PartsPerDay .. (MaxDay * PartsPerDay + PartsPerDay - 1)
    /\ due \in Nat \cup {Null}
    /\ job \in [Kinds -> Jobs \cup {Null}]
    /\ table \in [Kinds -> [IngestDates -> Rows \cup {Null}]]
    /\ stored \in 0 .. MaxStored

(* Every stored file has a stamp of its own time, and every file on its way  *)
(* to the table has room there.                                              *)
StampsInOrder ==
    /\ \A k \in Kinds, d \in IngestDates : table[k][d] # Null => table[k][d].stamp <= stored
    /\ stored + Cardinality(Pending) <= MaxStored

(* A kind has one job, so what its check compared with is still there at its *)
(* write, and what it wrote is still there when it prunes.                   *)
JobHolds(k) ==
    /\ job[k] # Null /\ job[k].at = "write" => ~TooSmall(k, job[k])
    /\ job[k] # Null /\ job[k].at = "prune" => table[k][job[k].date] # Null

IngestInv == IngestOK /\ StampsInOrder /\ NoRunSkipped /\ \A k \in Kinds : JobHolds(k)
==============================================================================
