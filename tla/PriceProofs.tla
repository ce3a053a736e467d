----------------------------- MODULE PriceProofs -----------------------------
(* Proofs about prices, for any kinds, days and files: that the server       *)
(* implements PriceFile, never halves what it serves, and skips no run; and  *)
(* that a device, which relies on PriceFile, never replaces a file by an     *)
(* older one nor counts one as checked that is out of date.                  *)
(*                                                                           *)
(* The server's invariant is IngestInv: a kind has one job at a time, and    *)
(* what that job has checked or written is still in the table when it goes   *)
(* on. The device's is RefreshInv: an ETag tells the file, and a run's answer*)
(* is of its day or later, whatever other tabs stored meanwhile.             *)
EXTENDS MCPrices, FiniteSetTheorems, WellFoundedInduction, TLAPS

(* A finite set of numbers has a greatest: its elements that are greater than*)
(* one of them are a set that strictly shrinks as that one grows.            *)
LEMMA MaxIs ==
    ASSUME NEW S, IsFiniteSet(S), S \subseteq Nat, S # {}
    PROVE  Max(S) \in S /\ \A y \in S : y <= Max(S)
  <1> DEFINE Above(m) == {x \in S : x > m}
             T == {Above(m) : m \in S}
  <1>1. \A m \in S : Above(m) \in FiniteSubsetsOf(S)
    BY FS_Subset DEF FiniteSubsetsOf
  <1>2. T \subseteq FiniteSubsetsOf(S) /\ T # {}
    BY <1>1
  <1>3. PICK U \in T : \A V \in T : ~(<<V, U>> \in StrictSubsetOrdering(S))
    BY <1>2, FS_StrictSubsetOrderingWellFounded, WFMin
  <1>4. PICK m \in S : U = Above(m)
    BY <1>3
  <1>5. ASSUME NEW n \in S, n > m PROVE FALSE
    <2>1. n \in Nat /\ m \in Nat /\ \A x \in S : x \in Nat /\ (x > n => x > m)
      BY <1>5
    <2>2. Above(n) \subseteq Above(m)
      BY <2>1
    <2>3. n \in Above(m) /\ n \notin Above(n)
      BY <1>5, <2>1
    <2>4. Above(n) \in T
      OBVIOUS
    <2>5. Above(n) \subseteq S /\ Above(m) \subseteq S
      OBVIOUS
    <2> HIDE DEF Above, T
    <2>6. <<Above(n), Above(m)>> \in StrictSubsetOrdering(S)
      BY <2>2, <2>3, <2>5 DEF StrictSubsetOrdering
    <2> QED BY <1>3, <1>4, <2>4, <2>6
  <1>6. \A y \in S : m >= y
    BY <1>5
  <1> QED BY <1>6 DEF Max

LEMMA MaxIsThat ==
    ASSUME NEW S, IsFiniteSet(S), S \subseteq Nat, NEW m \in S, \A y \in S : y <= m
    PROVE  Max(S) = m
  <1>1. Max(S) \in S /\ m <= Max(S) /\ Max(S) <= m
    BY MaxIs
  <1>2. Max(S) \in Nat /\ m \in Nat
    BY <1>1
  <1> QED BY <1>1, <1>2

------------------------------------------------------------------------------
(* The schedule: the next run time comes later, and never moves back.        *)
LEMMA NextRunIs ==
    ASSUME NEW day \in Nat, NEW part \in 0 .. 3
    PROVE  NextRun(day * PartsPerDay + part) =
               day * PartsPerDay + (IF part < 1 THEN 1 ELSE IF part < 3 THEN 3 ELSE PartsPerDay + 1)
  <1> DEFINE now == day * 4 + part
             next == day * 4 + (IF part < 1 THEN 1 ELSE IF part < 3 THEN 3 ELSE 5)
             S == {t \in {(day + d) * 4 + r : d \in {0, 1}, r \in {1, 3}} : t > now}
  <1>1. now \div 4 = day
    OBVIOUS
  <1>2. next \in S /\ \A t \in S : next <= t /\ t \in Nat
    OBVIOUS
  <1>3. NextRun(now) = Min(S)
    BY <1>1 DEF NextRun, PartsPerDay, RunTimes
  <1> HIDE DEF S, next
  <1>4. Min(S) \in S /\ \A t \in S : Min(S) <= t
    BY <1>2 DEF Min
  <1>5. Min(S) <= next /\ next <= Min(S) /\ next \in Nat /\ Min(S) \in Nat
    BY <1>2, <1>4
  <1>6. NextRun(now) = next
    BY <1>3, <1>5
  <1> QED BY <1>6 DEF next, PartsPerDay

LEMMA NextRunGrows == \A n \in Nat : NextRun(n) \in Nat /\ NextRun(n) <= NextRun(n + 1)
  <1> SUFFICES ASSUME NEW n \in Nat PROVE NextRun(n) \in Nat /\ NextRun(n) <= NextRun(n + 1)
    OBVIOUS
  <1>1. PICK day \in Nat, part \in 0 .. 3 : n = day * 4 + part
    <2>1. n \div 4 \in Nat /\ n % 4 \in 0 .. 3 /\ n = ((n \div 4) * 4) + (n % 4)
      OBVIOUS
    <2> QED BY <2>1
  <1>2. NextRun(n) = day * 4 + (IF part < 1 THEN 1 ELSE IF part < 3 THEN 3 ELSE 5)
    BY <1>1, NextRunIs DEF PartsPerDay
  <1>3. CASE part < 3
    <2>1. part + 1 \in 0 .. 3 /\ n + 1 = day * 4 + (part + 1)
      BY <1>1, <1>3
    <2>2. NextRun(n + 1) = day * 4 + (IF part + 1 < 1 THEN 1 ELSE IF part + 1 < 3 THEN 3 ELSE 5)
      BY <2>1, NextRunIs DEF PartsPerDay
    <2> QED BY <1>2, <1>3, <2>2
  <1>4. CASE part = 3
    <2>1. day + 1 \in Nat /\ 0 \in 0 .. 3 /\ n + 1 = (day + 1) * 4 + 0
      BY <1>1, <1>4
    <2>2. NextRun((day + 1) * PartsPerDay + 0)
              = (day + 1) * PartsPerDay + (IF 0 < 1 THEN 1 ELSE IF 0 < 3 THEN 3 ELSE PartsPerDay + 1)
      BY <2>1, NextRunIs
    <2>3. NextRun(n + 1) = (day + 1) * 4 + 1
      BY <2>1, <2>2 DEF PartsPerDay
    <2> QED BY <1>2, <1>4, <2>3
  <1> QED BY <1>3, <1>4

------------------------------------------------------------------------------
(* The table.                                                                *)
LEMMA RowsAre ==
    ASSUME IngestConstants, NEW k, NEW date
    PROVE  IsFiniteSet(RowsUpTo(k, date)) /\ RowsUpTo(k, date) \subseteq Nat
  <1>1. IsFiniteSet(IngestDates)
    <2>1. 0 \in Int /\ MaxDay \in Int
      BY DEF IngestConstants
    <2> QED BY <2>1, FS_Interval DEF IngestDates
  <1>2. RowsUpTo(k, date) \subseteq IngestDates
    BY DEF RowsUpTo
  <1> QED BY <1>1, <1>2, FS_Subset DEF IngestDates, IngestConstants

LEMMA ServedIs ==
    \A k \in Kinds : Served[k] = IF RowsUpTo(k, MaxDay) = {} THEN Null
                                 ELSE [date |-> Latest(k), stamp |-> table[k][Latest(k)].stamp]
  BY DEF Served

LEMMA AllRows ==
    ASSUME IngestConstants, NEW k
    PROVE  RowsUpTo(k, MaxDay) = {d \in IngestDates : table[k][d] # Null}
  BY DEF RowsUpTo, IngestDates, IngestConstants

LEMMA LatestIs ==
    ASSUME IngestConstants, NEW k \in Kinds, RowsUpTo(k, MaxDay) # {}
    PROVE  /\ Latest(k) \in IngestDates /\ table[k][Latest(k)] # Null
           /\ \A d \in IngestDates : table[k][d] # Null => d <= Latest(k)
  <1>1. /\ Latest(k) \in RowsUpTo(k, MaxDay)
        /\ \A d \in RowsUpTo(k, MaxDay) : d <= Latest(k)
    BY RowsAre, MaxIs DEF Latest
  <1> QED BY <1>1, AllRows

SameServed(k) == Served'[k] = Served[k] /\ ServedCount(k)' = ServedCount(k)

LEMMA SameTableSameServed ==
    ASSUME NEW k \in Kinds, table'[k] = table[k]
    PROVE  SameServed(k) /\ \A date : PrevCount(k, date)' = PrevCount(k, date)
  <1>1. \A date : RowsUpTo(k, date)' = RowsUpTo(k, date)
    BY DEF RowsUpTo
  <1>2. Latest(k)' = Latest(k)
    BY <1>1 DEF Latest
  <1>3. Served'[k] = Served[k]
    BY <1>1, <1>2 DEF Served
  <1> QED BY <1>1, <1>2, <1>3 DEF SameServed, ServedCount, PrevCount

------------------------------------------------------------------------------
(* The steps that leave the table alone.                                     *)
LEMMA IngestInit == IngestConstants /\ Init => IngestInv
  <1> SUFFICES ASSUME IngestConstants, Init PROVE IngestInv
    OBVIOUS
  <1>1. IngestOK
    BY NextRunGrows DEF Init, IngestOK, IngestConstants, PartsPerDay
  <1>2. Pending = {}
    BY DEF Init, Pending
  <1>3. StampsInOrder
    BY <1>2, FS_EmptySet DEF Init, StampsInOrder, IngestConstants
  <1>4. NoRunSkipped
    BY NextRunGrows DEF Init, NoRunSkipped, PartsPerDay
  <1>5. \A k \in Kinds : JobHolds(k)
    BY DEF Init, JobHolds
  <1> QED BY <1>1, <1>3, <1>4, <1>5 DEF IngestInv

LEMMA PendingIsFinite ==
    ASSUME IngestConstants
    PROVE  IsFiniteSet(Pending) /\ Cardinality(Pending) \in Nat
  <1>1. Pending \subseteq Kinds
    BY DEF Pending
  <1> QED BY <1>1, FS_Subset, FS_CardinalityType DEF IngestConstants

LEMMA TickKeeps == IngestConstants /\ IngestInv /\ Tick => IngestInv'
  <1> SUFFICES ASSUME IngestConstants, IngestInv, Tick PROVE IngestInv'
    OBVIOUS
  <1>1. clock \in Nat /\ clock' = clock + 1 /\ UNCHANGED <<due, job, table, stored>>
    BY DEF Tick, IngestInv, IngestOK, PartsPerDay, IngestConstants
  <1>2. IngestOK'
    BY <1>1 DEF Tick, IngestInv, IngestOK, PartsPerDay, IngestConstants
  <1>3. NoRunSkipped'
    BY <1>1, NextRunGrows DEF IngestInv, NoRunSkipped, IngestOK
  <1>4. Pending' = Pending
    BY <1>1 DEF Pending
  <1>5. \A k \in Kinds : JobHolds(k)'
    BY <1>1, SameTableSameServed DEF IngestInv, JobHolds, TooSmall
  <1> QED BY <1>1, <1>2, <1>3, <1>4, <1>5 DEF IngestInv, StampsInOrder

LEMMA RunDateIs ==
    ASSUME IngestConstants, IngestOK
    PROVE  RunDate(clock) \in IngestDates /\ Today \in IngestDates
  <1>1. clock \in Nat /\ clock \div 4 \in Nat /\ clock \div 4 >= 1 /\ clock \div 4 <= MaxDay
    BY DEF IngestOK, PartsPerDay, IngestConstants
  <1> QED BY <1>1 DEF RunDate, Today, IngestDates, PartsPerDay, IngestConstants

(* What any step does to the table-less part of a kind's job.                *)
LEMMA JobsMoveOn ==
    ASSUME IngestConstants, IngestInv, UNCHANGED <<clock, table, stored>>,
           job' \in [Kinds -> Jobs \cup {Null}],
           due' \in Nat \cup {Null}, NoRunSkipped',
           Pending' \subseteq Pending,
           \A k \in Kinds : job'[k] # job[k] =>
               job'[k] = Null \/ job'[k].at = "fetch" \/ (job'[k].at = "write" /\ ~TooSmall(k, job'[k]))
    PROVE  IngestInv' /\ \A k \in Kinds : SameServed(k)
  <1>1. IngestOK'
    BY DEF IngestInv, IngestOK
  <1>2. Cardinality(Pending') <= Cardinality(Pending) /\ Cardinality(Pending') \in Nat
    BY PendingIsFinite, FS_Subset, FS_CardinalityType
  <1>3. StampsInOrder'
    BY <1>2, PendingIsFinite DEF IngestInv, StampsInOrder, IngestOK, IngestConstants
  <1>4. \A k \in Kinds : SameServed(k) /\ \A date : PrevCount(k, date)' = PrevCount(k, date)
    BY SameTableSameServed
  <1>5. \A k \in Kinds : JobHolds(k)'
    <2> SUFFICES ASSUME NEW k \in Kinds PROVE JobHolds(k)'
      OBVIOUS
    <2>1. CASE job'[k] = job[k]
      BY <1>4, <2>1 DEF IngestInv, JobHolds, TooSmall
    <2>2. CASE job'[k] # job[k]
      BY <1>4, <2>2 DEF JobHolds, TooSmall
    <2> QED BY <2>1, <2>2
  <1> QED BY <1>1, <1>3, <1>4, <1>5 DEF IngestInv

LEMMA ScheduleKeeps ==
    ASSUME IngestConstants, IngestInv, Fire \/ Cron \/ Arm \/ Restart
    PROVE  IngestInv' /\ \A k \in Kinds : SameServed(k)
  <1>1. UNCHANGED <<clock, table, stored>> /\ clock \in Nat
    BY DEF Fire, Cron, Arm, Restart, IngestInv, IngestOK, PartsPerDay, IngestConstants
  <1>2. due' \in Nat \cup {Null} /\ NoRunSkipped'
    BY <1>1, NextRunGrows DEF Fire, Cron, Arm, Restart, IngestInv, IngestOK, NoRunSkipped
  <1>3. \A k \in Kinds : job'[k] = job[k] \/ job'[k] = Null \/ job'[k].at = "fetch"
    BY DEF Fire, Cron, Arm, Restart, Ingesting
  <1>4. job' \in [Kinds -> Jobs \cup {Null}]
    <2>1. [at |-> "fetch", date |-> RunDate(clock)] \in Jobs
      BY RunDateIs DEF IngestInv, Jobs
    <2> QED BY <2>1 DEF Fire, Cron, Arm, Restart, Ingesting, IngestInv, IngestOK
  <1>5. Pending' \subseteq Pending
    BY <1>3 DEF Pending
  <1> QED BY <1>1, <1>2, <1>3, <1>4, <1>5, JobsMoveOn

LEMMA JobsKeep ==
    ASSUME IngestConstants, IngestInv, NEW k \in Kinds, FetchFailed(k) \/ Check(k) \/ DbFails(k)
    PROVE  IngestInv' /\ \A c \in Kinds : SameServed(c)
  <1>1. UNCHANGED <<clock, table, stored>> /\ clock \in Nat
    BY DEF FetchFailed, Check, DbFails, IngestInv, IngestOK, PartsPerDay, IngestConstants
  <1>2. due' \in Nat \cup {Null} /\ NoRunSkipped'
    BY <1>1, NextRunGrows DEF FetchFailed, Check, DbFails, IngestInv, IngestOK, NoRunSkipped
  <1>3. job[k] \in Jobs /\ job[k] # Null
    BY DEF FetchFailed, Check, DbFails, IngestInv, IngestOK
  <1>4. PICK j : /\ job' = [job EXCEPT ![k] = j]
                 /\ j = Null \/ (Check(k) /\ ~TooSmall(k, job[k]) /\ j = [job[k] EXCEPT !.at = "write"])
    BY DEF FetchFailed, Check, DbFails
  <1>5. j # Null => /\ j \in Jobs /\ j.at = "write" /\ j.date = job[k].date /\ j.count = job[k].count
                    /\ k \in Pending /\ ~TooSmall(k, j)
    BY <1>3, <1>4 DEF Check, Jobs, Pending, TooSmall
  <1>6. /\ job' \in [Kinds -> Jobs \cup {Null}]
        /\ \A c \in Kinds : job'[c] = IF c = k THEN j ELSE job[c]
    BY <1>4, <1>5 DEF IngestInv, IngestOK
  <1>7. Pending' \subseteq Pending
    BY <1>5, <1>6 DEF Pending
  <1> QED BY <1>1, <1>2, <1>5, <1>6, <1>7, JobsMoveOn

LEMMA FetchedKeeps ==
    ASSUME IngestConstants, IngestInv, NEW k \in Kinds, Fetched(k)
    PROVE  IngestInv' /\ \A c \in Kinds : SameServed(c)
  <1>1. PICK d \in {job[k].date, Today}, n \in Counts :
            job' = [job EXCEPT ![k] = [at |-> "check", date |-> d, count |-> n]]
    BY DEF Fetched
  <1>2. /\ UNCHANGED <<clock, due, table, stored>> /\ stored + Cardinality(Pending) < MaxStored
        /\ job[k] \in Jobs /\ job[k].at = "fetch"
    BY DEF Fetched, IngestInv, IngestOK
  <1>3. d \in IngestDates
    BY <1>2, RunDateIs DEF IngestInv, Jobs
  <1>4. [at |-> "check", date |-> d, count |-> n] \in Jobs
    BY <1>3 DEF Jobs
  <1>5. /\ job' \in [Kinds -> Jobs \cup {Null}]
        /\ \A c \in Kinds : job'[c] = IF c = k THEN [at |-> "check", date |-> d, count |-> n] ELSE job[c]
    BY <1>1, <1>4 DEF IngestInv, IngestOK
  <1>6. Pending' \subseteq Pending \cup {k} /\ k \notin Pending
    BY <1>2, <1>5 DEF Pending
  <1>7. /\ IsFiniteSet(Pending \cup {k})
        /\ Cardinality(Pending \cup {k}) = Cardinality(Pending) + 1
    BY <1>6, PendingIsFinite, FS_AddElement
  <1>8. Cardinality(Pending') <= Cardinality(Pending) + 1 /\ Cardinality(Pending') \in Nat
    BY <1>6, <1>7, FS_Subset, FS_CardinalityType
  <1>9. StampsInOrder'
    BY <1>2, <1>8, PendingIsFinite DEF IngestInv, StampsInOrder, IngestOK, IngestConstants
  <1>10. \A c \in Kinds : SameServed(c) /\ \A date : PrevCount(c, date)' = PrevCount(c, date)
    BY <1>2, SameTableSameServed
  <1>11. \A c \in Kinds : JobHolds(c)'
    BY <1>2, <1>5, <1>10 DEF IngestInv, JobHolds, TooSmall
  <1> QED BY <1>2, <1>5, <1>9, <1>10, <1>11 DEF IngestInv, IngestOK, NoRunSkipped

------------------------------------------------------------------------------
(* The steps that change the table.                                          *)
(* What Write does, in full.                                                 *)
Written(k) ==
    /\ job[k] \in Jobs /\ job[k].date \in IngestDates /\ job[k].count \in Counts
    /\ ~TooSmall(k, job[k])
    /\ stored < MaxStored /\ stored' = stored + 1 /\ stored \in Nat
    /\ Cardinality(Pending') = Cardinality(Pending) - 1 /\ Cardinality(Pending) \in Nat
    /\ \A c \in Kinds, d \in IngestDates :
           table'[c][d] = IF c = k /\ d = job[k].date
                          THEN [count |-> job[k].count, stamp |-> stored + 1] ELSE table[c][d]
    /\ \A c \in Kinds : c # k => table'[c] = table[c] /\ job'[c] = job[c]
    /\ job'[k] \in Jobs /\ job'[k].at = "prune" /\ job'[k].date = job[k].date
    /\ [count |-> job[k].count, stamp |-> stored + 1] \in Rows
    /\ table' \in [Kinds -> [IngestDates -> Rows \cup {Null}]]
    /\ job' \in [Kinds -> Jobs \cup {Null}]

LEMMA WriteIs ==
    ASSUME IngestConstants, IngestInv, NEW k \in Kinds, Write(k)
    PROVE  Written(k)
  <1>1. /\ job[k] \in Jobs /\ job[k] # Null /\ job[k].at = "write" /\ stored \in Nat /\ MaxStored \in Nat
        /\ stored' = stored + 1
    BY DEF Write, IngestInv, IngestOK, IngestConstants
  <1>2. job[k].date \in IngestDates /\ job[k].count \in Counts /\ ~TooSmall(k, job[k])
    BY <1>1 DEF Jobs, IngestInv, JobHolds
  <1>3. [job[k] EXCEPT !.at = "prune"] \in Jobs
    BY <1>1 DEF Jobs
  <1>4. job' = [job EXCEPT ![k] = [job[k] EXCEPT !.at = "prune"]]
    BY DEF Write, IngestInv, IngestOK
  <1>5. /\ \A c \in Kinds : c # k => job'[c] = job[c]
        /\ job'[k] \in Jobs /\ job'[k].at = "prune" /\ job'[k].date = job[k].date
        /\ job' \in [Kinds -> Jobs \cup {Null}]
    BY <1>1, <1>3, <1>4 DEF IngestInv, IngestOK, Jobs
  <1>6. k \in Pending /\ Pending' = Pending \ {k}
    BY <1>1, <1>5 DEF Pending
  <1>7. Cardinality(Pending') = Cardinality(Pending) - 1 /\ Cardinality(Pending) \in Nat
    BY <1>6, PendingIsFinite, FS_RemoveElement
  <1>8. Cardinality(Pending) # 0
    BY <1>6, PendingIsFinite, FS_EmptySet
  <1>9. stored < MaxStored
    BY <1>1, <1>7, <1>8 DEF IngestInv, StampsInOrder
  <1>10. [count |-> job[k].count, stamp |-> stored + 1] \in Rows
    BY <1>1, <1>2, <1>9 DEF Rows
  <1>11. table' = [table EXCEPT ![k][job[k].date] = [count |-> job[k].count, stamp |-> stored + 1]]
    BY <1>1 DEF Write
  <1> HIDE DEF Rows
  <1>12. /\ \A c \in Kinds, d \in IngestDates :
                table'[c][d] = IF c = k /\ d = job[k].date
                               THEN [count |-> job[k].count, stamp |-> stored + 1] ELSE table[c][d]
         /\ \A c \in Kinds : c # k => table'[c] = table[c]
         /\ table' \in [Kinds -> [IngestDates -> Rows \cup {Null}]]
    BY <1>2, <1>10, <1>11 DEF IngestInv, IngestOK
  <1> QED BY <1>1, <1>2, <1>5, <1>7, <1>9, <1>10, <1>12 DEF Written

LEMMA WriteKeeps ==
    ASSUME IngestConstants, IngestInv, NEW k \in Kinds, Write(k)
    PROVE  IngestInv'
  <1> DEFINE new == [count |-> job[k].count, stamp |-> stored + 1]
  <1>w. Written(k)
    BY WriteIs
  <1>1. UNCHANGED <<clock, due>>
    BY DEF Write
  <1>2. IngestOK'
    BY <1>1, <1>w DEF IngestInv, IngestOK, IngestConstants, Written
  <1>3. NoRunSkipped'
    BY <1>1 DEF IngestInv, NoRunSkipped
  <1>4. StampsInOrder'
    <2>1. ASSUME NEW c \in Kinds, NEW d \in IngestDates, table'[c][d] # Null
          PROVE  table'[c][d].stamp <= stored'
      <3>1. CASE c = k /\ d = job[k].date
        BY <3>1, <1>w DEF Written
      <3>2. CASE ~(c = k /\ d = job[k].date)
        <4>1. table'[c][d] = table[c][d] /\ table[c][d].stamp <= stored /\ table[c][d] \in Rows
          BY <2>1, <3>2, <1>w DEF IngestInv, StampsInOrder, IngestOK, Written
        <4> QED BY <4>1, <1>w DEF Rows, Written
      <3> QED BY <3>1, <3>2
    <2>2. stored' + Cardinality(Pending') <= MaxStored
      BY <1>w DEF IngestInv, StampsInOrder, IngestConstants, Written
    <2> QED BY <2>1, <2>2 DEF StampsInOrder
  <1>5. \A c \in Kinds : JobHolds(c)'
    <2> SUFFICES ASSUME NEW c \in Kinds PROVE JobHolds(c)'
      OBVIOUS
    <2>1. CASE c = k
      <3>1. table'[k][job'[k].date] = new /\ new # Null
        BY <1>w DEF IngestConstants, Written
      <3> QED BY <2>1, <3>1, <1>w DEF JobHolds, Written
    <2>2. CASE c # k
      <3>1. table'[c] = table[c] /\ job'[c] = job[c]
        BY <2>2, <1>w DEF Written
      <3> QED BY <3>1, SameTableSameServed DEF IngestInv, JobHolds, TooSmall
    <2> QED BY <2>1, <2>2
  <1> QED BY <1>2, <1>3, <1>4, <1>5 DEF IngestInv

(* A file written becomes the one that is served, unless a later day's is.   *)
LEMMA WriteServes ==
    ASSUME IngestConstants, IngestInv, NEW k \in Kinds, Write(k)
    PROVE  /\ \A c \in Kinds : c # k => SameServed(c)
           /\ \/ SameServed(k)
              \/ /\ Served'[k] = [date |-> job[k].date, stamp |-> stored + 1]
                 /\ Served[k] # Null =>
                       Served[k].date <= job[k].date /\ Served[k].stamp <= stored
                 /\ ServedCount(k)' = job[k].count
                 /\ ServedCount(k) = PrevCount(k, job[k].date)
  <1>w. Written(k)
    BY WriteIs
  <1>1. \A c \in Kinds : c # k => SameServed(c)
    BY <1>w, SameTableSameServed DEF Written
  <1>c. PICK date, new, R, Q :
            /\ date = job[k].date /\ new = [count |-> job[k].count, stamp |-> stored + 1]
            /\ R = RowsUpTo(k, MaxDay) /\ Q = RowsUpTo(k, MaxDay)'
    OBVIOUS
  <1>2. /\ new # Null /\ date \in IngestDates /\ date \in Nat
        /\ \A d \in IngestDates : table'[k][d] = IF d = date THEN new ELSE table[k][d]
    BY <1>w, <1>c DEF Written, IngestConstants, IngestDates
  <1>r. /\ R = {d \in IngestDates : table[k][d] # Null}
        /\ IsFiniteSet(R) /\ R \subseteq Nat /\ Q \subseteq Nat
    <2>1. Q \subseteq IngestDates
      BY <1>c DEF RowsUpTo
    <2>2. IngestDates \subseteq Nat
      BY DEF IngestDates, IngestConstants
    <2> QED BY <1>c, <2>1, <2>2, AllRows, RowsAre
  <1>3. Q = R \cup {date}
    <2>1. Q = {d \in IngestDates : table'[k][d] # Null}
      BY <1>c DEF RowsUpTo, IngestDates, IngestConstants
    <2> QED BY <1>2, <1>r, <2>1
  <1>4. IsFiniteSet(Q)
    <2>1. CASE date \in R
      BY <1>3, <1>r, <2>1
    <2>2. CASE date \notin R
      BY <1>3, <1>r, <2>2, FS_AddElement
    <2> QED BY <2>1, <2>2
  <1>5. CASE \E l \in R : l > date
    <2>1. PICK l \in Nat : l = Latest(k)
      BY <1>5, <1>c, <1>r, MaxIs DEF Latest
    <2>2. l \in R /\ l > date /\ l \in IngestDates /\ \A d \in R : d <= l
      <3>1. R # {}
        BY <1>5
      <3>2. l \in R /\ \A d \in R : d <= l
        BY <1>c, <1>r, <2>1, <3>1, MaxIs DEF Latest
      <3>3. l > date
        BY <1>2, <1>5, <1>r, <3>2
      <3> QED BY <1>r, <3>2, <3>3
    <2>3. Latest(k)' = l
      <3>1. l \in Q /\ \A d \in Q : d <= l
        BY <1>2, <1>3, <2>1, <2>2
      <3> QED BY <1>4, <1>c, <1>r, <3>1, MaxIsThat DEF Latest
    <2>4. table'[k][l] = table[k][l] /\ table[k][l] \in Rows
      BY <1>2, <1>r, <2>2 DEF IngestInv, IngestOK
    <2>5. Served'[k] = [date |-> l, stamp |-> table'[k][l].stamp]
      BY <1>3, <1>c, <2>3 DEF Served
    <2>6. Served[k] = [date |-> l, stamp |-> table[k][l].stamp]
      BY <1>c, <2>1, <2>2 DEF Served
    <2>7. Served[k] # Null
      BY <2>2, <2>4, <2>6 DEF Rows, IngestConstants
    <2>8. ServedCount(k)' = table'[k][l].count /\ ServedCount(k) = table[k][l].count
      BY <2>1, <2>3, <2>4, <2>5, <2>6, <2>7 DEF ServedCount
    <2> QED BY <1>1, <2>4, <2>5, <2>6, <2>8 DEF SameServed
  <1>6. CASE \A l \in R : l <= date
    <2>1. Latest(k)' = date
      <3>1. \A d \in Q : d <= date
        BY <1>2, <1>3, <1>6
      <3> QED BY <1>3, <1>4, <1>c, <1>r, <3>1, MaxIsThat DEF Latest
    <2>2. Served'[k] = [date |-> date, stamp |-> stored + 1]
      <3>1. table'[k][date].stamp = stored + 1
        BY <1>2, <1>c
      <3> QED BY <1>3, <1>c, <2>1, <3>1 DEF Served
    <2>3. Served'[k] # Null
      BY <1>2, <1>c, <1>w, <2>2 DEF IngestConstants, Written, Rows
    <2>4. ServedCount(k)' = job[k].count
      BY <1>2, <1>c, <2>1, <2>3 DEF ServedCount
    <2>5. RowsUpTo(k, date) = R
      BY <1>6, <1>r DEF RowsUpTo
    <2>6. CASE R = {}
      <3>1. Served[k] = Null
        BY <1>c, <2>6 DEF Served
      <3>2. ServedCount(k) = 0 /\ PrevCount(k, date) = 0
        BY <2>5, <2>6, <3>1 DEF ServedCount, PrevCount
      <3> QED BY <1>1, <1>c, <2>2, <2>4, <3>1, <3>2
    <2>7. CASE R # {}
      <3>1. PICK l \in Nat : l = Latest(k)
        BY <2>7, <1>c, <1>r, MaxIs DEF Latest
      <3>2. l \in R /\ l <= date /\ table[k][l] \in Rows /\ table[k][l].stamp <= stored /\ l \in IngestDates
        <4>1. l \in R
          BY <2>7, <3>1, <1>c, <1>r, MaxIs DEF Latest
        <4> QED BY <1>6, <1>r, <4>1 DEF IngestInv, IngestOK, StampsInOrder
      <3>3. Served[k] = [date |-> l, stamp |-> table[k][l].stamp]
        BY <2>7, <1>c, <3>1 DEF Served
      <3>4. Served[k] # Null
        BY <3>2, <3>3 DEF Rows, IngestConstants
      <3>5. ServedCount(k) = table[k][l].count
        BY <3>1, <3>4 DEF ServedCount
      <3>6. PrevCount(k, date) = table[k][l].count
        BY <2>5, <2>7, <1>c, <3>1 DEF PrevCount, Latest
      <3> QED BY <1>1, <1>c, <2>2, <2>4, <3>2, <3>3, <3>5, <3>6
    <2> QED BY <2>6, <2>7
  <1> QED BY <1>2, <1>5, <1>6, <1>r

(* What is served is never pruned: a run prunes what is older than the file  *)
(* it wrote, and the latest is not.                                          *)
LEMMA PruneKeeps ==
    ASSUME IngestConstants, IngestInv, NEW k \in Kinds, Prune(k)
    PROVE  IngestInv' /\ \A c \in Kinds : SameServed(c)
  <1>1. PICK date : date = job[k].date
    OBVIOUS
  <1>2. /\ date \in IngestDates /\ date \in Nat /\ table[k][date] # Null /\ IngestDates \subseteq Nat
        /\ UNCHANGED <<clock, due, stored>>
    BY <1>1 DEF Prune, IngestInv, IngestOK, JobHolds, Jobs, IngestDates, IngestConstants
  <1>3. /\ \A d \in IngestDates : table'[k][d] = IF Outdated(d, date) THEN Null ELSE table[k][d]
        /\ \A c \in Kinds : c # k => table'[c] = table[c] /\ job'[c] = job[c]
        /\ job'[k] = Null
    BY <1>1 DEF Prune, IngestInv, IngestOK
  <1>4. /\ table' \in [Kinds -> [IngestDates -> Rows \cup {Null}]]
        /\ job' \in [Kinds -> Jobs \cup {Null}]
    <2>1. [d \in IngestDates |-> IF Outdated(d, job[k].date) THEN Null ELSE table[k][d]]
              \in [IngestDates -> Rows \cup {Null}]
      BY DEF IngestInv, IngestOK
    <2> QED BY <2>1 DEF Prune, IngestInv, IngestOK
  <1>5. \A c \in Kinds : c # k => SameServed(c) /\ \A day : PrevCount(c, day)' = PrevCount(c, day)
    BY <1>3, SameTableSameServed
  <1>6. SameServed(k)
    <2>1. PICK R, Q : R = RowsUpTo(k, MaxDay) /\ Q = RowsUpTo(k, MaxDay)'
      OBVIOUS
    <2>2. R = {d \in IngestDates : table[k][d] # Null} /\ IsFiniteSet(R) /\ R \subseteq Nat
      BY <1>2, <2>1, AllRows, RowsAre
    <2>3. Q = {d \in IngestDates : table'[k][d] # Null}
      BY <2>1 DEF RowsUpTo, IngestDates, IngestConstants
    <2>4. Q \subseteq R
      BY <1>3, <2>2, <2>3
    <2>5. IsFiniteSet(Q) /\ Q \subseteq Nat /\ date \in R
      BY <1>2, <2>2, <2>4, FS_Subset
    <2>6. PICK l \in Nat : l = Latest(k)
      BY <2>1, <2>2, <2>5, MaxIs DEF Latest
    <2>7. l \in R /\ \A d \in R : d <= l
      BY <2>1, <2>2, <2>5, <2>6, MaxIs DEF Latest
    <2>8. ~Outdated(l, date)
      BY <1>2, <2>5, <2>7 DEF Outdated, IngestConstants
    <2>9. l \in Q /\ table'[k][l] = table[k][l]
      BY <1>3, <2>2, <2>3, <2>7, <2>8
    <2>10. Latest(k)' = l
      <3>1. \A d \in Q : d <= l
        BY <2>4, <2>7
      <3> QED BY <2>1, <2>5, <2>9, <3>1, MaxIsThat DEF Latest
    <2>11. /\ Served[k] = [date |-> l, stamp |-> table[k][l].stamp]
           /\ Served'[k] = [date |-> l, stamp |-> table'[k][l].stamp]
      BY <2>1, <2>6, <2>7, <2>9, <2>10 DEF Served
    <2>12. Served'[k] = Served[k]
      BY <2>9, <2>11
    <2>13. ServedCount(k)' = ServedCount(k)
      BY <2>6, <2>9, <2>10, <2>12 DEF ServedCount
    <2> QED BY <2>12, <2>13 DEF SameServed
  <1>7. Pending' = Pending
    BY <1>3 DEF Prune, Pending
  <1>8. StampsInOrder'
    <2>1. ASSUME NEW c \in Kinds, NEW d \in IngestDates, table'[c][d] # Null
          PROVE  table'[c][d] = table[c][d]
      BY <1>3, <2>1
    <2> QED BY <1>2, <1>7, <2>1 DEF IngestInv, StampsInOrder
  <1>9. \A c \in Kinds : JobHolds(c)'
    BY <1>3, <1>5 DEF IngestInv, JobHolds, TooSmall
  <1> QED BY <1>2, <1>4, <1>5, <1>6, <1>8, <1>9 DEF IngestInv, IngestOK, NoRunSkipped

------------------------------------------------------------------------------
LEMMA TickServes == Tick => \A k \in Kinds : SameServed(k)
  BY SameTableSameServed DEF Tick

LEMMA IngestNext == IngestConstants /\ IngestInv /\ [Next]_vars => IngestInv'
  <1> SUFFICES ASSUME IngestConstants, IngestInv, [Next]_vars PROVE IngestInv'
    OBVIOUS
  <1>1. CASE UNCHANGED vars
    <2>1. /\ UNCHANGED <<clock, due, job, table, stored>> /\ Pending' = Pending
      BY <1>1 DEF vars, Pending
    <2>2. \A k \in Kinds : JobHolds(k)'
      BY <2>1, SameTableSameServed DEF IngestInv, JobHolds, TooSmall
    <2> QED BY <2>1, <2>2 DEF IngestInv, IngestOK, StampsInOrder, NoRunSkipped
  <1>2. CASE Next
    BY <1>2, TickKeeps, ScheduleKeeps, JobsKeep, FetchedKeeps, WriteKeeps, PruneKeeps
       DEF Next, Ingest
  <1> QED BY <1>1, <1>2

(* A step of the server changes nothing that is served, or writes one file.  *)
LEMMA ServesOrWrites ==
    ASSUME IngestConstants, IngestInv, [Next]_vars
    PROVE  (\A k \in Kinds : SameServed(k)) \/ (\E k \in Kinds : Write(k))
  <1>1. CASE UNCHANGED vars
    BY <1>1, SameTableSameServed DEF vars
  <1>2. CASE Next
    BY <1>2, TickServes, ScheduleKeeps, JobsKeep, FetchedKeeps, PruneKeeps DEF Next, Ingest
  <1> QED BY <1>1, <1>2

LEMMA PublishInit == Init => Promise!Init
  BY DEF Init, Promise!Init, Served, RowsUpTo

LEMMA PublishStep ==
    ASSUME IngestConstants, IngestInv, [Next]_vars
    PROVE  [Promise!Next]_Served
  <1>0. Served = [k \in Kinds |-> Served[k]] /\ Served' = [k \in Kinds |-> Served'[k]]
    BY DEF Served
  <1>1. CASE \A k \in Kinds : SameServed(k)
    <2>1. \A k \in Kinds : Served'[k] = Served[k]
      BY <1>1 DEF SameServed
    <2> QED BY <1>0, <2>1
  <1>2. ASSUME NEW k \in Kinds, Write(k), ~SameServed(k)
        PROVE  Promise!Publish(k)
    <2>1. PICK f : f = [date |-> job[k].date, stamp |-> stored + 1]
      OBVIOUS
    <2>2. /\ \A c \in Kinds : c # k => Served'[c] = Served[c]
          /\ Served'[k] = f
          /\ Served[k] # Null => Served[k].date <= job[k].date /\ Served[k].stamp <= stored
      BY <1>2, <2>1, WriteServes DEF SameServed
    <2>3. Written(k)
      BY <1>2, WriteIs
    <2>4. f \in [date : IngestDates, stamp : 1 .. MaxStored]
      BY <2>1, <2>3 DEF Written, IngestConstants
    <2>5. Served[k] # Null => f.date >= Served[k].date /\ f.stamp > Served[k].stamp
      <3> SUFFICES ASSUME Served[k] # Null PROVE f.date >= Served[k].date /\ f.stamp > Served[k].stamp
        OBVIOUS
      <3>1. RowsUpTo(k, MaxDay) # {}
        BY ServedIs
      <3>2. Served[k] = [date |-> Latest(k), stamp |-> table[k][Latest(k)].stamp]
        BY <3>1, ServedIs
      <3>3. Latest(k) \in IngestDates /\ table[k][Latest(k)] \in Rows
        BY <3>1, LatestIs DEF IngestInv, IngestOK
      <3>4. Served[k].date \in Nat /\ Served[k].stamp \in Nat /\ stored \in Nat /\ job[k].date \in Nat
        BY <2>3, <3>2, <3>3 DEF IngestDates, Rows, IngestConstants, Written
      <3> QED BY <2>1, <2>2, <3>4
    <2>6. Served' = [Served EXCEPT ![k] = f]
      BY <1>0, <2>2
    <2> QED BY <2>4, <2>5, <2>6 DEF Promise!Publish, Promise!Files
  <1>3. CASE \E k \in Kinds : Write(k)
    <2>1. PICK k \in Kinds : Write(k)
      BY <1>3
    <2>2. CASE SameServed(k)
      BY <1>1, <2>1, <2>2, WriteServes
    <2>3. CASE ~SameServed(k)
      BY <1>2, <2>1, <2>3 DEF Promise!Next
    <2> QED BY <2>2, <2>3
  <1> QED BY <1>1, <1>3, ServesOrWrites

(* Runs, failures between their statements, restarts and pruning in any      *)
(* order: the server implements PriceFile, on which every device relies.     *)
THEOREM ImplementsPriceFileHolds ==
    ASSUME IngestConstants
    PROVE  Spec => ImplementsPriceFile
  BY IngestInit, IngestNext, PublishInit, PublishStep, PTL
     DEF Spec, ImplementsPriceFile, Promise!Spec

LEMMA HalfStep ==
    ASSUME IngestConstants, IngestInv, [Next]_vars
    PROVE  \A k \in Kinds : ServedCount(k)' * 2 >= ServedCount(k)
  <1>1. ASSUME NEW k \in Kinds PROVE ServedCount(k) \in Nat
    <2>1. CASE RowsUpTo(k, MaxDay) = {}
      BY <2>1 DEF ServedCount, Served
    <2>2. CASE RowsUpTo(k, MaxDay) # {}
      <3>1. Latest(k) \in IngestDates /\ table[k][Latest(k)] \in Rows
        BY <2>2, LatestIs DEF IngestInv, IngestOK
      <3>2. table[k][Latest(k)].count \in Nat
        BY <3>1 DEF Rows, IngestConstants
      <3> QED BY <3>2 DEF ServedCount
    <2> QED BY <2>1, <2>2
  <1>2. ASSUME NEW k \in Kinds, SameServed(k) PROVE ServedCount(k)' * 2 >= ServedCount(k)
    BY <1>1, <1>2 DEF SameServed
  <1>3. ASSUME NEW k \in Kinds, Write(k) PROVE \A c \in Kinds : ServedCount(c)' * 2 >= ServedCount(c)
    <2>1. CASE SameServed(k)
      BY <1>2, <1>3, <2>1, WriteServes
    <2>2. CASE ~SameServed(k)
      <3>1. ServedCount(k)' = job[k].count /\ ServedCount(k) = PrevCount(k, job[k].date)
        BY <1>3, <2>2, WriteServes
      <3>2. ~(job[k].count * 2 < PrevCount(k, job[k].date)) /\ job[k].count \in Nat
        BY <1>3, WriteIs DEF Written, TooSmall, IngestConstants
      <3>3. ServedCount(k)' * 2 >= ServedCount(k)
        BY <1>1, <3>1, <3>2
      <3> QED BY <1>2, <1>3, <3>3, WriteServes
    <2> QED BY <2>1, <2>2
  <1> QED BY <1>2, <1>3, ServesOrWrites

(* prices.ts:68: whatever days the feeds answer with, and whatever fails and *)
(* is tried again, the latest file never halves.                             *)
THEOREM HalfKeptHolds ==
    ASSUME IngestConstants
    PROVE  Spec => HalfKept
  BY IngestInit, IngestNext, HalfStep, PTL DEF Spec, HalfKept

(* Both together are what the server keeps for the devices.                  *)
THEOREM FilesKeptHolds ==
    ASSUME IngestConstants
    PROVE  Spec => FilesKept
  BY ImplementsPriceFileHolds, HalfKeptHolds DEF FilesKept

(* price-schedule.ts:79: an armed timer is never later than the next run     *)
(* time, whenever it was armed.                                              *)
THEOREM NoRunSkippedHolds ==
    ASSUME IngestConstants
    PROVE  Spec => []NoRunSkipped
  <1>1. IngestInv => NoRunSkipped
    BY DEF IngestInv
  <1> QED BY <1>1, IngestInit, IngestNext, PTL DEF Spec

------------------------------------------------------------------------------
(* PriceRefresh: the tabs of a device and the store they share.              *)

(* What a tab may do to the store, its own answers and its run.              *)
RowMoves(k) ==
    \/ row'[k] = row[k]
    \/ /\ row'[k] # Null
       /\ row[k] # Null => row'[k].date >= row[k].date
       /\ row'[k].checkedOn <= priceDay
       /\ Dev!AtLeast(row'[k], opening[row'[k].checkedOn][k])
       /\ \E y \in Dev!Heard(k) : y.stamp = row'[k].stamp /\ y.date = row'[k].date

AnswerMoves(t, k) ==
    \/ answered'[t][k] \in {answered[t][k], Null}
    \/ /\ answered'[t][k] <= priceDay
       /\ Dev!AtLeast(row'[k], opening[answered'[t][k]][k])

StepMoves(t, k) ==
    \/ step'[t][k] = step[t][k] /\ inflight'[t] = inflight[t]
    \/ step'[t][k].at = "ended"
    \/ Dev!StepHolds(t, k)' /\ Dev!Held(step'[t][k]) \subseteq Dev!Heard(k) \cup {Null}

TabMoves ==
    /\ Dev!PTypeOK'
    /\ UNCHANGED <<file, priceDay, opening>>
    /\ \A k \in Kinds : RowMoves(k)
    /\ \A t \in Tabs, k \in Kinds : AnswerMoves(t, k) /\ StepMoves(t, k)
    /\ \A t \in Tabs : inflight'[t] \in {inflight[t], priceDay, Null}

LEMMA AtLeastOrders ==
    ASSUME Dev!RefreshConstants,
           NEW r \in Dev!Rows \cup Dev!Files \cup {Null},
           NEW s \in Dev!Rows \cup Dev!Files \cup {Null},
           NEW f \in Dev!Rows \cup Dev!Files \cup {Null},
           Dev!AtLeast(s, r), Dev!AtLeast(r, f)
    PROVE  Dev!AtLeast(s, f)
  <1>1. \A x \in Dev!Rows \cup Dev!Files : x.date \in Nat
    BY DEF Dev!Rows, Dev!Files, Dev!RefreshConstants
  <1>2. \A x \in {r, s, f} : x # Null => x.date \in Nat
    BY <1>1
  <1> QED BY <1>2 DEF Dev!AtLeast

LEMMA StepTypes ==
    ASSUME Dev!PTypeOK, NEW t \in Tabs, NEW k \in Kinds
    PROVE  /\ step[t][k].at \in {"ended", "ask", "asked", "answered"}
           /\ step[t][k].at \in {"asked", "answered"} => step[t][k].row \in Dev!Rows \cup {Null}
           /\ step[t][k].at = "answered" => step[t][k].file \in Dev!Files \cup {Null}
  <1>1. step[t][k] \in Dev!Steps
    BY DEF Dev!PTypeOK
  <1> QED BY <1>1 DEF Dev!Steps

LEMMA FileTypes ==
    ASSUME Dev!RefreshConstants, Dev!PTypeOK, NEW k \in Kinds
    PROVE  /\ file[k] # Null => file[k].date \in Nat /\ file[k].stamp \in Nat
           /\ \A d \in Days : opening[d][k] # Null => opening[d][k].date \in Nat
  <1>1. file[k] \in Dev!Files \cup {Null} /\ \A d \in Days : opening[d][k] \in Dev!Files \cup {Null}
    BY DEF Dev!PTypeOK
  <1>2. \A x \in Dev!Files : x.date \in Nat /\ x.stamp \in Nat
    BY DEF Dev!Files, Dev!RefreshConstants
  <1> QED BY <1>1, <1>2

LEMMA HeardTypes ==
    ASSUME Dev!PTypeOK, NEW k \in Kinds
    PROVE  Dev!Heard(k) \subseteq Dev!Rows \cup Dev!Files
  <1>1. \A t \in Tabs : Dev!Held(step[t][k]) \subseteq Dev!Rows \cup Dev!Files \cup {Null}
    BY StepTypes DEF Dev!Held, Dev!HeldRow, Dev!HeldFile
  <1> QED BY <1>1 DEF Dev!Heard, Dev!PTypeOK

LEMMA TabMovesKeep ==
    ASSUME Dev!RefreshConstants, Dev!RefreshInv, TabMoves PROVE Dev!RefreshInv'
  <1>1. ASSUME NEW k \in Kinds
        PROVE  /\ row[k] \in Dev!Rows \cup {Null} /\ row'[k] \in Dev!Rows \cup {Null}
               /\ file[k] \in Dev!Files \cup {Null} /\ file'[k] = file[k]
               /\ Dev!AtLeast(row'[k], row[k])
    <2>1. /\ row[k] \in Dev!Rows \cup {Null} /\ row'[k] \in Dev!Rows \cup {Null}
          /\ file[k] \in Dev!Files \cup {Null} /\ file'[k] = file[k]
      BY DEF TabMoves, Dev!RefreshInv, Dev!PTypeOK
    <2>2. row[k] # Null => row[k].date \in Nat
      BY <2>1 DEF Dev!Rows, Dev!RefreshConstants
    <2> QED BY <2>1, <2>2 DEF TabMoves, RowMoves, Dev!AtLeast
  <1>2. \A d \in Days, k \in Kinds : opening[d][k] \in Dev!Files \cup {Null}
    BY DEF Dev!RefreshInv, Dev!PTypeOK
  <1>3. \A d \in Days, k \in Kinds :
            Dev!AtLeast(row[k], opening[d][k]) => Dev!AtLeast(row'[k], opening[d][k])
    BY <1>1, <1>2, AtLeastOrders
  <1>4. Dev!NotAhead'
    <2>1. \A k \in Kinds : row'[k] # Null => row'[k].checkedOn <= priceDay
      BY DEF TabMoves, RowMoves, Dev!RefreshInv, Dev!NotAhead
    <2>2. priceDay \in Nat
      BY DEF Dev!RefreshInv, Dev!PTypeOK, Dev!RefreshConstants
    <2>3. \A t \in Tabs : inflight'[t] # Null => inflight'[t] <= priceDay
      BY <2>2 DEF TabMoves, Dev!RefreshInv, Dev!NotAhead
    <2>4. \A t \in Tabs, k \in Kinds : answered'[t][k] # Null => answered'[t][k] <= priceDay
      BY DEF TabMoves, AnswerMoves, Dev!RefreshInv, Dev!NotAhead
    <2> QED BY <2>1, <2>3, <2>4 DEF Dev!NotAhead, TabMoves
  <1>5. Dev!CheckedIsCurrent'
    <2>1. ASSUME NEW k \in Kinds, row'[k] # Null
          PROVE  Dev!AtLeast(row'[k], opening[row'[k].checkedOn][k])
      BY <2>1 DEF TabMoves, RowMoves, Dev!RefreshInv, Dev!CheckedIsCurrent
    <2>2. ASSUME NEW t \in Tabs, NEW k \in Kinds, answered'[t][k] # Null
          PROVE  Dev!AtLeast(row'[k], opening[answered'[t][k]][k])
      <3>1. CASE answered'[t][k] = answered[t][k]
        <4>1. answered[t][k] \in Days
          BY <2>2, <3>1 DEF Dev!RefreshInv, Dev!PTypeOK
        <4>2. Dev!AtLeast(row[k], opening[answered[t][k]][k])
          BY <2>2, <3>1 DEF Dev!RefreshInv, Dev!CheckedIsCurrent
        <4> QED BY <1>3, <3>1, <4>1, <4>2
      <3>2. CASE answered'[t][k] # answered[t][k]
        BY <2>2, <3>2 DEF TabMoves, AnswerMoves
      <3> QED BY <3>1, <3>2
    <2> QED BY <2>1, <2>2 DEF Dev!CheckedIsCurrent, Dev!AtLeast, TabMoves
  <1>6. ASSUME NEW k \in Kinds PROVE Dev!StampTells(k)' /\ Dev!OpenedBehind(k)'
    <2>1. Dev!StampTells(k) /\ Dev!OpenedBehind(k)
      BY DEF Dev!RefreshInv
    <2>2. \A t \in Tabs : Dev!Held(step'[t][k]) \subseteq Dev!Heard(k) \cup {Null}
      BY DEF TabMoves, StepMoves, Dev!Held, Dev!HeldRow, Dev!HeldFile, Dev!Heard
    <2>3. \A x \in Dev!Heard(k)' : \E y \in Dev!Heard(k) : y.stamp = x.stamp /\ y.date = x.date
      <3>1. ASSUME NEW x \in Dev!Heard(k)' PROVE x = row'[k] \/ x \in Dev!Heard(k)
        BY <1>1, <2>2 DEF Dev!Heard
      <3>2. row'[k] # Null =>
                \E y \in Dev!Heard(k) : y.stamp = row'[k].stamp /\ y.date = row'[k].date
        <4>1. CASE row'[k] = row[k]
          BY <4>1 DEF Dev!Heard
        <4>2. CASE row'[k] # row[k]
          BY <4>2 DEF TabMoves, RowMoves
        <4> QED BY <4>1, <4>2
      <3>3. Null \notin Dev!Heard(k)'
        BY DEF Dev!Heard
      <3> QED BY <3>1, <3>2, <3>3
    <2>4. Dev!StampTells(k)'
      BY <1>1, <2>1, <2>3 DEF Dev!StampTells
    <2> QED BY <2>1, <2>4 DEF Dev!OpenedBehind, Dev!AtLeast, TabMoves
  <1>7. ASSUME NEW t \in Tabs, NEW k \in Kinds PROVE Dev!StepHolds(t, k)'
    <2>1. CASE step'[t][k] = step[t][k] /\ inflight'[t] = inflight[t]
      <3>1. Dev!StepHolds(t, k)
        BY DEF Dev!RefreshInv
      <3>2. step[t][k].at \in {"asked", "answered"} => Dev!AtLeast(row'[k], step[t][k].row)
        <4>1. Dev!PTypeOK
          BY DEF Dev!RefreshInv
        <4> QED BY <1>1, <3>1, <4>1, StepTypes, AtLeastOrders DEF Dev!StepHolds
      <3> QED BY <2>1, <3>1, <3>2 DEF Dev!StepHolds, Dev!AtLeast, TabMoves
    <2>2. CASE step'[t][k].at = "ended"
      BY <2>2 DEF Dev!StepHolds
    <2> QED BY <2>1, <2>2 DEF TabMoves, StepMoves
  <1> QED BY <1>4, <1>5, <1>6, <1>7 DEF Dev!RefreshInv, TabMoves

LEMMA InitRefresh == Dev!RefreshConstants /\ Dev!PInit => Dev!RefreshInv
  <1> SUFFICES ASSUME Dev!RefreshConstants, Dev!PInit PROVE Dev!RefreshInv
    OBVIOUS
  <1>0. Dev!Ended \in Dev!Steps /\ Dev!Ended.at = "ended"
    BY DEF Dev!Ended, Dev!Steps
  <1>1. Dev!PTypeOK
    BY <1>0 DEF Dev!PInit, Dev!Init, Dev!PTypeOK, Dev!RefreshConstants
  <1>2. Dev!NotAhead /\ Dev!CheckedIsCurrent
    BY DEF Dev!PInit, Dev!Init, Dev!NotAhead, Dev!CheckedIsCurrent
  <1>3. ASSUME NEW k \in Kinds PROVE Dev!StampTells(k) /\ Dev!OpenedBehind(k)
    <2>1. Dev!Heard(k) = {}
      BY <1>0 DEF Dev!PInit, Dev!Init, Dev!Heard, Dev!Held, Dev!HeldRow,
                  Dev!HeldFile
    <2> QED BY <2>1 DEF Dev!StampTells, Dev!OpenedBehind, Dev!AtLeast,
                        Dev!PInit, Dev!Init
  <1>4. ASSUME NEW t \in Tabs, NEW k \in Kinds PROVE Dev!StepHolds(t, k)
    BY <1>0 DEF Dev!StepHolds, Dev!PInit
  <1> QED BY <1>1, <1>2, <1>3, <1>4 DEF Dev!RefreshInv

LEMMA IngestedKeeps ==
    ASSUME Dev!RefreshConstants, Dev!RefreshInv, NEW k \in Kinds, Dev!Ingested(k)
    PROVE  Dev!RefreshInv'
  <1>1. PICK f \in Dev!Files : /\ file[k] # Null => f.date >= file[k].date /\ f.stamp > file[k].stamp
                          /\ file' = [file EXCEPT ![k] = f]
    BY DEF Dev!Ingested, Dev!Publish
  <1>2. UNCHANGED <<priceDay, opening, row, answered, inflight, step, updated, universes>>
    BY DEF Dev!Ingested, Dev!tabVars
  <1>3. Dev!PTypeOK'
    BY <1>1, <1>2 DEF Dev!RefreshInv, Dev!PTypeOK
  <1>4. Dev!NotAhead' /\ Dev!CheckedIsCurrent'
    BY <1>2 DEF Dev!RefreshInv, Dev!NotAhead, Dev!CheckedIsCurrent, Dev!AtLeast
  <1>5. ASSUME NEW l \in Kinds PROVE Dev!StampTells(l)' /\ Dev!OpenedBehind(l)'
    <2>1. Dev!StampTells(l) /\ Dev!OpenedBehind(l)
      BY DEF Dev!RefreshInv
    <2>2. CASE l # k
      <3>1. file'[l] = file[l]
        BY <1>1, <2>2 DEF Dev!RefreshInv, Dev!PTypeOK
      <3> QED BY <1>2, <2>1, <3>1 DEF Dev!StampTells, Dev!OpenedBehind,
                                      Dev!AtLeast, Dev!Heard, Dev!Held,
                                      Dev!HeldRow, Dev!HeldFile
    <2>3. CASE l = k
      <3>1. file'[l] = f /\ f # Null /\ f.date \in Nat /\ f.stamp \in Nat
        BY <1>1, <2>3 DEF Dev!RefreshInv, Dev!PTypeOK, Dev!Files,
                          Dev!RefreshConstants
      <3>2. file[l] # Null => file[l].date \in Nat /\ file[l].stamp \in Nat
        BY FileTypes DEF Dev!RefreshInv
      <3>3. \A x \in Dev!Heard(l)' : x = f \/ x \in Dev!Heard(l)
        BY <1>2, <3>1 DEF Dev!Heard, Dev!Held, Dev!HeldRow, Dev!HeldFile
      <3>4. \A x \in Dev!Heard(l) : x.stamp \in Nat /\ x.stamp < f.stamp
        <4>1. \A x \in Dev!Heard(l) : x.stamp \in Nat
          BY HeardTypes DEF Dev!RefreshInv, Dev!Rows, Dev!Files,
                            Dev!RefreshConstants
        <4> QED BY <1>1, <2>1, <2>3, <3>1, <3>2, <4>1 DEF Dev!StampTells
      <3>5. Dev!StampTells(l)'
        BY <2>1, <3>1, <3>3, <3>4 DEF Dev!StampTells
      <3>6. \A d \in Days : opening[d][l] # Null => opening[d][l].date \in Nat
        BY FileTypes DEF Dev!RefreshInv
      <3>7. Dev!OpenedBehind(l)'
        BY <1>1, <1>2, <2>1, <2>3, <3>1, <3>2, <3>6 DEF Dev!OpenedBehind, Dev!AtLeast
      <3> QED BY <3>5, <3>7
    <2> QED BY <2>2, <2>3
  <1>6. ASSUME NEW t \in Tabs, NEW l \in Kinds PROVE Dev!StepHolds(t, l)'
    BY <1>2 DEF Dev!RefreshInv, Dev!StepHolds, Dev!AtLeast
  <1> QED BY <1>3, <1>4, <1>5, <1>6 DEF Dev!RefreshInv

LEMMA NextDayKeeps == ASSUME Dev!RefreshConstants, Dev!RefreshInv, Dev!NextDay PROVE Dev!RefreshInv'
  <1>1. UNCHANGED <<file, row, answered, inflight, step, updated, universes>>
    BY DEF Dev!NextDay, Dev!tabVars
  <1>2. priceDay \in Nat /\ priceDay' = priceDay + 1 /\ priceDay' \in Days
    BY DEF Dev!NextDay, Dev!RefreshInv, Dev!PTypeOK, Dev!RefreshConstants
  <1>3. /\ opening' \in [Days -> [Kinds -> Dev!Files \cup {Null}]]
        /\ opening'[priceDay'] = file
        /\ \A d \in Days : d # priceDay' => opening'[d] = opening[d]
    BY <1>2 DEF Dev!NextDay, Dev!RefreshInv, Dev!PTypeOK
  <1>4. Dev!PTypeOK'
    BY <1>1, <1>2, <1>3 DEF Dev!RefreshInv, Dev!PTypeOK
  <1>5. \A d \in Days : d <= priceDay => opening'[d] = opening[d]
    BY <1>2, <1>3 DEF Dev!RefreshConstants
  <1>6. /\ \A k \in Kinds : row[k] # Null => row[k].checkedOn \in Days /\ row[k].checkedOn \in Nat
        /\ \A t \in Tabs : inflight[t] # Null => inflight[t] \in Days /\ inflight[t] \in Nat
        /\ \A t \in Tabs, k \in Kinds :
               answered[t][k] # Null => answered[t][k] \in Days /\ answered[t][k] \in Nat
    <2>1. /\ \A k \in Kinds : row[k] \in Dev!Rows \cup {Null}
          /\ \A t \in Tabs : inflight[t] \in Days \cup {Null}
          /\ \A t \in Tabs, k \in Kinds : answered[t][k] \in Days \cup {Null}
      BY DEF Dev!RefreshInv, Dev!PTypeOK
    <2>2. \A x \in Dev!Rows : x.checkedOn \in Days
      BY DEF Dev!Rows
    <2> QED BY <2>1, <2>2 DEF Dev!RefreshConstants
  <1>7. Dev!NotAhead'
    BY <1>1, <1>2, <1>6 DEF Dev!RefreshInv, Dev!NotAhead
  <1>8. Dev!CheckedIsCurrent'
    BY <1>1, <1>5, <1>6 DEF Dev!RefreshInv, Dev!NotAhead, Dev!CheckedIsCurrent,
                            Dev!AtLeast
  <1>9. ASSUME NEW k \in Kinds PROVE Dev!StampTells(k)' /\ Dev!OpenedBehind(k)'
    <2>1. Dev!StampTells(k) /\ Dev!OpenedBehind(k)
      BY DEF Dev!RefreshInv
    <2>2. file[k] # Null => file[k].date >= file[k].date
      BY FileTypes DEF Dev!RefreshInv
    <2>3. Dev!OpenedBehind(k)'
      BY <1>1, <1>3, <2>1, <2>2 DEF Dev!OpenedBehind, Dev!AtLeast
    <2> QED BY <1>1, <2>1, <2>3 DEF Dev!StampTells, Dev!Heard, Dev!Held,
                                    Dev!HeldRow, Dev!HeldFile
  <1>10. ASSUME NEW t \in Tabs, NEW k \in Kinds PROVE Dev!StepHolds(t, k)'
    <2>1. Dev!StepHolds(t, k)
      BY DEF Dev!RefreshInv
    <2>2. step[t][k].at = "answered" => opening'[inflight[t]] = opening[inflight[t]]
      BY <1>5, <1>6, <2>1 DEF Dev!RefreshInv, Dev!NotAhead, Dev!StepHolds
    <2> QED BY <1>1, <2>1, <2>2 DEF Dev!StepHolds, Dev!AtLeast
  <1> QED BY <1>4, <1>7, <1>8, <1>9, <1>10 DEF Dev!RefreshInv

(* A run of one tab takes a step with one kind, or ends it.                  *)
LEMMA KindStep ==
    ASSUME Dev!RefreshConstants, Dev!RefreshInv,
           NEW t \in Tabs, NEW k \in Kinds, NEW s \in Dev!Steps,
           Dev!Go(t, k, s), UNCHANGED <<file, priceDay, opening, inflight, universes>>,
           updated' \in [Tabs -> BOOLEAN],
           s.at = "ended" \/ (Dev!StepHolds(t, k)' /\ Dev!Held(s) \subseteq Dev!Heard(k) \cup {Null}),
           row' \in [Kinds -> Dev!Rows \cup {Null}], RowMoves(k),
           \A l \in Kinds \ {k} : row'[l] = row[l],
           \/ UNCHANGED answered
           \/ /\ Dev!Answered(t, k) /\ inflight[t] # Null
              /\ Dev!AtLeast(row'[k], opening[inflight[t]][k])
    PROVE  TabMoves
  <1>1. step' \in [Tabs -> [Kinds -> Dev!Steps]] /\ step'[t][k] = s
        /\ \A u \in Tabs, l \in Kinds : <<u, l>> # <<t, k>> => step'[u][l] = step[u][l]
    BY DEF Dev!Go, Dev!RefreshInv, Dev!PTypeOK
  <1>2. inflight[t] # Null => inflight[t] \in Days /\ inflight[t] <= priceDay
    BY DEF Dev!RefreshInv, Dev!PTypeOK, Dev!NotAhead
  <1>3. /\ answered' \in [Tabs -> [Kinds -> Days \cup {Null}]]
        /\ \A u \in Tabs, l \in Kinds : AnswerMoves(u, l)
    <2>1. CASE UNCHANGED answered
      BY <2>1 DEF Dev!RefreshInv, Dev!PTypeOK, AnswerMoves
    <2>2. CASE ~UNCHANGED answered
      <3>1. answered' = [answered EXCEPT ![t][k] = inflight[t]] /\ inflight[t] # Null
        BY <2>2 DEF Dev!Answered
      <3>2. /\ answered' \in [Tabs -> [Kinds -> Days \cup {Null}]]
            /\ answered'[t][k] = inflight[t]
            /\ \A u \in Tabs, l \in Kinds : <<u, l>> # <<t, k>> => answered'[u][l] = answered[u][l]
        BY <1>2, <3>1 DEF Dev!RefreshInv, Dev!PTypeOK
      <3> QED BY <1>2, <2>2, <3>1, <3>2 DEF AnswerMoves
    <2> QED BY <2>1, <2>2
  <1>4. \A l \in Kinds : RowMoves(l)
    BY DEF RowMoves
  <1>5. \A u \in Tabs, l \in Kinds : StepMoves(u, l)
    BY <1>1 DEF StepMoves
  <1>6. Dev!PTypeOK'
    BY <1>1, <1>3 DEF Dev!RefreshInv, Dev!PTypeOK
  <1> QED BY <1>3, <1>4, <1>5, <1>6 DEF TabMoves

LEMMA HandleKeeps ==
    ASSUME Dev!RefreshConstants, Dev!RefreshInv,
           NEW t \in Tabs, NEW k \in Kinds, Dev!Handle(t, k) \/ Dev!Failed(t, k)
    PROVE  TabMoves
  <1> DEFINE s == step[t][k]
  <1>1. /\ s \in Dev!Steps /\ s.at \in {"ended", "ask", "asked", "answered"}
        /\ s.at \in {"asked", "answered"} => s.row \in Dev!Rows \cup {Null}
        /\ s.at = "answered" => s.file \in Dev!Files \cup {Null}
    BY StepTypes DEF Dev!RefreshInv, Dev!PTypeOK
  <1>2. Dev!StepHolds(t, k) /\ Dev!StampTells(k) /\ Dev!OpenedBehind(k)
    BY DEF Dev!RefreshInv
  <1>3. /\ UNCHANGED <<file, priceDay, opening, inflight, universes>>
        /\ updated' \in [Tabs -> BOOLEAN]
    BY DEF Dev!Handle, Dev!Fresh, Dev!Ask, Dev!Serve, Dev!Touch,
           Dev!Missing, Dev!Put, Dev!Failed, Dev!RefreshInv, Dev!PTypeOK
  <1>4. Dev!Ended \in Dev!Steps /\ Dev!Ended.at = "ended"
    BY DEF Dev!Ended, Dev!Steps
  <1>5. /\ row \in [Kinds -> Dev!Rows \cup {Null}] /\ row[k] \in Dev!Rows \cup {Null}
        /\ file[k] \in Dev!Files \cup {Null}
    BY DEF Dev!RefreshInv, Dev!PTypeOK
  <1>6. s.at # "ended" => inflight[t] # Null /\ inflight[t] \in Days /\ inflight[t] <= priceDay
    BY <1>2 DEF Dev!StepHolds, Dev!RefreshInv, Dev!PTypeOK, Dev!NotAhead
  <1>7. CASE Dev!Fresh(t, k)
    <2>1. \/ UNCHANGED answered
          \/ /\ Dev!Answered(t, k) /\ inflight[t] # Null
             /\ Dev!AtLeast(row'[k], opening[inflight[t]][k])
      BY <1>6, <1>7 DEF Dev!Fresh, Dev!RefreshInv, Dev!CheckedIsCurrent
    <2> QED BY <1>3, <1>4, <1>5, <1>7, <2>1, KindStep DEF Dev!Fresh, RowMoves
  <1>8. CASE Dev!Ask(t, k)
    <2> DEFINE n == [at |-> "asked", row |-> row[k]]
    <2>1. n \in Dev!Steps /\ n.at = "asked" /\ n.row = row[k] /\ Dev!Held(n) \subseteq Dev!Heard(k) \cup {Null}
      BY <1>5 DEF Dev!Steps, Dev!Held, Dev!HeldRow, Dev!HeldFile, Dev!Heard
    <2>2. step'[t][k] = n
      BY <1>8 DEF Dev!Ask, Dev!Go, Dev!RefreshInv, Dev!PTypeOK
    <2>3. Dev!AtLeast(row[k], row[k])
      <3>1. row[k] # Null => row[k].date \in Nat
        BY <1>5 DEF Dev!Rows, Dev!RefreshConstants
      <3> QED BY <3>1 DEF Dev!AtLeast
    <2>4. Dev!StepHolds(t, k)'
      BY <1>3, <1>6, <1>8, <2>1, <2>2, <2>3 DEF Dev!StepHolds, Dev!Ask, Dev!AtLeast
    <2> HIDE DEF n
    <2> QED BY <1>3, <1>5, <1>8, <2>1, <2>4, KindStep DEF Dev!Ask, RowMoves, n
  <1>9. CASE Dev!Serve(t, k)
    <2> DEFINE n == [at |-> "answered", file |-> file[k], row |-> s.row]
    <2>1. n \in Dev!Steps /\ n.at = "answered" /\ n.row = s.row /\ n.file = file[k]
      BY <1>1, <1>5, <1>9 DEF Dev!Steps, Dev!Serve
    <2>2. Dev!Held(n) \subseteq Dev!Heard(k) \cup {Null}
      BY <1>9, <2>1 DEF Dev!Held, Dev!HeldRow, Dev!HeldFile, Dev!Heard,
                        Dev!Serve
    <2>3. step'[t][k] = n
      BY <1>9 DEF Dev!Serve, Dev!Go, Dev!RefreshInv, Dev!PTypeOK
    <2>4. Dev!AtLeast(file[k], opening[inflight[t]][k]) /\ Dev!AtLeast(row[k], s.row)
      BY <1>2, <1>6, <1>9 DEF Dev!OpenedBehind, Dev!StepHolds, Dev!Serve
    <2>5. Dev!StepHolds(t, k)'
      BY <1>3, <1>6, <1>9, <2>1, <2>3, <2>4
         DEF Dev!StepHolds, Dev!Serve, Dev!AtLeast
    <2> HIDE DEF n
    <2> QED BY <1>3, <1>5, <1>9, <2>1, <2>2, <2>5, KindStep DEF Dev!Serve, RowMoves, n
  <1>10. CASE Dev!Failed(t, k)
    BY <1>3, <1>4, <1>5, <1>10, KindStep DEF Dev!Failed, RowMoves
  <1>11. CASE Dev!Missing(t, k)
    <2>1. opening[inflight[t]][k] = Null
      BY <1>2, <1>11 DEF Dev!StepHolds, Dev!AtLeast, Dev!Missing
    <2>2. Dev!AtLeast(row'[k], opening[inflight[t]][k])
      BY <2>1 DEF Dev!AtLeast
    <2> QED BY <1>3, <1>4, <1>5, <1>6, <1>11, <2>2, KindStep DEF Dev!Missing, RowMoves
  <1>12. CASE Dev!Touch(t, k)
    <2>1. /\ s.at = "answered" /\ s.row # Null /\ s.file # Null /\ s.row.stamp = s.file.stamp
      BY <1>12 DEF Dev!Touch, Dev!Unchanged
    <2>2. s.row \in Dev!Heard(k) /\ s.file \in Dev!Heard(k)
      BY <2>1 DEF Dev!Heard, Dev!Held, Dev!HeldRow, Dev!HeldFile
    <2>3. s.row.date = s.file.date
      BY <1>2, <2>1, <2>2 DEF Dev!StampTells
    <2>4. row[k] # Null /\ row[k].date >= s.row.date
      BY <1>2, <2>1 DEF Dev!StepHolds, Dev!AtLeast
    <2>5. /\ row' \in [Kinds -> Dev!Rows \cup {Null}]
          /\ row'[k] # Null /\ row'[k].date = row[k].date /\ row'[k].stamp = row[k].stamp
          /\ row'[k].checkedOn = inflight[t]
          /\ \A l \in Kinds \ {k} : row'[l] = row[l]
      <3> DEFINE r == [row[k] EXCEPT !.checkedOn = inflight[t]]
      <3>1. /\ r \in Dev!Rows /\ r.date = row[k].date /\ r.stamp = row[k].stamp
            /\ r.checkedOn = inflight[t]
        BY <1>5, <1>6, <2>1, <2>4 DEF Dev!Rows
      <3>2. row' = [row EXCEPT ![k] = r]
        BY <1>12 DEF Dev!Touch
      <3> HIDE DEF r
      <3> QED BY <1>5, <3>1, <3>2 DEF Dev!RefreshConstants, Dev!Rows
    <2>6. Dev!AtLeast(row'[k], opening[inflight[t]][k])
      <3>1. Dev!AtLeast(s.file, opening[inflight[t]][k]) /\ Dev!AtLeast(row[k], s.file)
        BY <1>2, <2>1, <2>3, <2>4 DEF Dev!StepHolds, Dev!AtLeast
      <3>2. opening[inflight[t]][k] \in Dev!Files \cup {Null}
        BY <1>6, <2>1 DEF Dev!RefreshInv, Dev!PTypeOK
      <3>3. Dev!AtLeast(row[k], opening[inflight[t]][k])
        BY <1>1, <1>5, <2>1, <3>1, <3>2, AtLeastOrders
      <3> QED BY <2>4, <2>5, <3>3 DEF Dev!AtLeast
    <2>7. RowMoves(k)
      <3>1. row[k] \in Dev!Heard(k) /\ row[k].date \in Nat
        BY <1>5, <2>4 DEF Dev!Heard, Dev!Rows, Dev!RefreshConstants
      <3> QED BY <1>6, <2>1, <2>4, <2>5, <2>6, <3>1 DEF RowMoves
    <2> QED BY <1>3, <1>4, <1>6, <1>12, <2>1, <2>5, <2>6, <2>7, KindStep DEF Dev!Touch
  <1>13. CASE Dev!Put(t, k)
    <2>1. s.at = "answered" /\ s.file # Null /\ s.file \in Dev!Files /\ s.file \in Dev!Heard(k)
      BY <1>1, <1>13 DEF Dev!Put, Dev!Heard, Dev!Held, Dev!HeldRow,
                         Dev!HeldFile
    <2> DEFINE r == Dev!PutRow(row[k], s.file, inflight[t])
    <2>2. /\ r \in Dev!Rows /\ r.checkedOn = inflight[t]
          /\ r.date >= s.file.date
          /\ row[k] # Null => r.date >= row[k].date
          /\ \E y \in Dev!Heard(k) : y.stamp = r.stamp /\ y.date = r.date
      <3>1. inflight[t] \in Days
        BY <1>6, <2>1
      <3>2. /\ s.file.date \in Nat /\ s.file.date \in Dates /\ s.file.stamp \in Stamps
        BY <2>1 DEF Dev!Files, Dev!RefreshConstants
      <3>3. CASE row[k] # Null /\ row[k].date > s.file.date
        <4>1. row[k] \in Dev!Heard(k) /\ row[k] \in Dev!Rows /\ row[k].date \in Nat
          BY <1>5, <3>3 DEF Dev!Heard, Dev!Rows, Dev!RefreshConstants
        <4>2. r = [row[k] EXCEPT !.checkedOn = inflight[t]]
          BY <3>3 DEF Dev!PutRow
        <4>3. r \in Dev!Rows /\ r.checkedOn = inflight[t] /\ r.date = row[k].date /\ r.stamp = row[k].stamp
          BY <3>1, <4>1, <4>2 DEF Dev!Rows
        <4> HIDE DEF r
        <4> QED BY <3>2, <3>3, <4>1, <4>3
      <3>4. CASE ~(row[k] # Null /\ row[k].date > s.file.date)
        <4>1. r = [date |-> s.file.date, stamp |-> s.file.stamp, checkedOn |-> inflight[t]]
          BY <3>4 DEF Dev!PutRow
        <4>2. /\ r \in Dev!Rows /\ r.checkedOn = inflight[t]
              /\ r.date = s.file.date /\ r.stamp = s.file.stamp
          BY <3>1, <3>2, <4>1 DEF Dev!Rows
        <4>3. row[k] # Null => row[k].date \in Nat
          BY <1>5 DEF Dev!Rows, Dev!RefreshConstants
        <4> HIDE DEF r
        <4> QED BY <2>1, <3>2, <3>4, <4>2, <4>3
      <3> QED BY <3>3, <3>4
    <2>3. row' = [row EXCEPT ![k] = r]
      BY <1>13 DEF Dev!Put
    <2> HIDE DEF r
    <2>4. /\ row' \in [Kinds -> Dev!Rows \cup {Null}] /\ row'[k] = r
          /\ \A l \in Kinds \ {k} : row'[l] = row[l]
      BY <1>5, <2>2, <2>3
    <2>5. r # Null
      BY <2>2 DEF Dev!RefreshConstants, Dev!Rows
    <2>6. Dev!AtLeast(row'[k], opening[inflight[t]][k])
      <3>1. Dev!AtLeast(s.file, opening[inflight[t]][k]) /\ Dev!AtLeast(r, s.file)
        BY <1>2, <2>1, <2>2, <2>5 DEF Dev!StepHolds, Dev!AtLeast
      <3>2. opening[inflight[t]][k] \in Dev!Files \cup {Null}
        BY <1>6, <2>1 DEF Dev!RefreshInv, Dev!PTypeOK
      <3> QED BY <2>1, <2>2, <2>4, <3>1, <3>2, AtLeastOrders
    <2>7. RowMoves(k)
      BY <1>6, <2>1, <2>2, <2>4, <2>5, <2>6 DEF RowMoves
    <2> QED BY <1>3, <1>4, <1>6, <1>13, <2>1, <2>4, <2>6, <2>7, KindStep DEF Dev!Put
  <1> QED BY <1>7, <1>8, <1>9, <1>10, <1>11, <1>12, <1>13 DEF Dev!Handle

LEMMA RunKeeps ==
    ASSUME Dev!RefreshConstants, Dev!RefreshInv,
           NEW t \in Tabs, Dev!Refresh(t) \/ Dev!Settle(t) \/ Dev!Reload(t)
    PROVE  TabMoves
  <1> DEFINE ask == [at |-> "ask"]
  <1>1. ask \in Dev!Steps /\ ask.at = "ask" /\ Dev!Ended \in Dev!Steps /\ Dev!Ended.at = "ended"
    BY DEF Dev!Steps, Dev!Ended
  <1> HIDE DEF ask
  <1>2. UNCHANGED <<file, priceDay, opening, row>>
    BY DEF Dev!Refresh, Dev!Settle, Dev!Reload
  <1>3. priceDay \in Days
    BY DEF Dev!RefreshInv, Dev!PTypeOK
  <1>4. \A k \in Kinds : RowMoves(k)
    BY <1>2 DEF RowMoves
  <1>5. CASE Dev!Refresh(t)
    <2>1. /\ inflight[t] = Null /\ inflight' = [inflight EXCEPT ![t] = priceDay]
          /\ step' = [step EXCEPT ![t] = [k \in Kinds |-> ask]]
          /\ UNCHANGED <<answered, updated, universes>>
      BY <1>5 DEF Dev!Refresh, ask
    <2>2. Dev!PTypeOK'
      BY <1>1, <1>2, <1>3, <2>1 DEF Dev!RefreshInv, Dev!PTypeOK
    <2>3. ASSUME NEW u \in Tabs, NEW k \in Kinds PROVE AnswerMoves(u, k) /\ StepMoves(u, k)
      <3>1. CASE u # t
        <4>1. step'[u][k] = step[u][k] /\ inflight'[u] = inflight[u]
          BY <2>1, <3>1 DEF Dev!RefreshInv, Dev!PTypeOK
        <4> QED BY <2>1, <4>1 DEF AnswerMoves, StepMoves
      <3>2. CASE u = t
        <4>1. step'[u][k] = ask /\ inflight'[u] = priceDay
          BY <2>1, <3>2 DEF Dev!RefreshInv, Dev!PTypeOK
        <4>2. priceDay # Null
          BY <1>3 DEF Dev!RefreshConstants
        <4>3. Dev!StepHolds(u, k)' /\ Dev!Held(step'[u][k]) = {}
          BY <1>1, <4>1, <4>2 DEF Dev!StepHolds, Dev!Held, Dev!HeldRow,
                                  Dev!HeldFile
        <4> QED BY <2>1, <4>3 DEF AnswerMoves, StepMoves
      <3> QED BY <3>1, <3>2
    <2>4. \A u \in Tabs : inflight'[u] \in {inflight[u], priceDay, Null}
      BY <2>1 DEF Dev!RefreshInv, Dev!PTypeOK
    <2> QED BY <1>2, <1>4, <2>2, <2>3, <2>4 DEF TabMoves
  <1>6. CASE Dev!Settle(t)
    <2>1. /\ inflight' = [inflight EXCEPT ![t] = Null]
          /\ \A k \in Kinds : step[t][k].at = "ended"
          /\ updated' = [updated EXCEPT ![t] = FALSE]
          /\ UNCHANGED <<answered, step>>
          /\ universes' = IF updated[t] THEN [universes EXCEPT ![t] = row] ELSE universes
      BY <1>6 DEF Dev!Settle
    <2>2. Dev!PTypeOK'
      BY <1>2, <2>1 DEF Dev!RefreshInv, Dev!PTypeOK
    <2>3. ASSUME NEW u \in Tabs, NEW k \in Kinds PROVE AnswerMoves(u, k) /\ StepMoves(u, k)
      BY <2>1 DEF Dev!RefreshInv, Dev!PTypeOK, AnswerMoves, StepMoves
    <2>4. \A u \in Tabs : inflight'[u] \in {inflight[u], priceDay, Null}
      BY <2>1 DEF Dev!RefreshInv, Dev!PTypeOK
    <2> QED BY <1>2, <1>4, <2>2, <2>3, <2>4 DEF TabMoves
  <1>7. CASE Dev!Reload(t)
    <2>1. /\ inflight' = [inflight EXCEPT ![t] = Null]
          /\ step' = [step EXCEPT ![t] = [k \in Kinds |-> Dev!Ended]]
          /\ answered' = [answered EXCEPT ![t] = [k \in Kinds |-> Null]]
          /\ updated' = [updated EXCEPT ![t] = FALSE]
          /\ universes' = [universes EXCEPT ![t] = row]
      BY <1>7 DEF Dev!Reload, Dev!NewTab
    <2>2. Dev!PTypeOK'
      BY <1>1, <1>2, <2>1 DEF Dev!RefreshInv, Dev!PTypeOK
    <2>3. ASSUME NEW u \in Tabs, NEW k \in Kinds PROVE AnswerMoves(u, k) /\ StepMoves(u, k)
      BY <1>1, <2>1 DEF Dev!RefreshInv, Dev!PTypeOK, AnswerMoves, StepMoves
    <2>4. \A u \in Tabs : inflight'[u] \in {inflight[u], priceDay, Null}
      BY <2>1 DEF Dev!RefreshInv, Dev!PTypeOK
    <2> QED BY <1>2, <1>4, <2>2, <2>3, <2>4 DEF TabMoves
  <1> QED BY <1>5, <1>6, <1>7

ServerStepsOrTabMoves ==
    Dev!NextDay \/ (\E k \in Kinds : Dev!Ingested(k)) \/ TabMoves \/ UNCHANGED Dev!pvars

LEMMA RefreshStep ==
    Dev!RefreshConstants /\ Dev!RefreshInv /\ [Dev!PNext]_Dev!pvars
        => Dev!RefreshInv' /\ ServerStepsOrTabMoves
  <1> SUFFICES ASSUME Dev!RefreshConstants, Dev!RefreshInv, [Dev!PNext]_Dev!pvars
               PROVE  Dev!RefreshInv' /\ ServerStepsOrTabMoves
    OBVIOUS
  <1>1. CASE Dev!NextDay
    BY <1>1, NextDayKeeps DEF ServerStepsOrTabMoves
  <1>2. CASE \E k \in Kinds : Dev!Ingested(k)
    BY <1>2, IngestedKeeps DEF ServerStepsOrTabMoves
  <1>3. CASE \E t \in Tabs : \/ Dev!Refresh(t) \/ Dev!Settle(t) \/ Dev!Reload(t)
                             \/ \E k \in Kinds : Dev!Handle(t, k) \/ Dev!Failed(t, k)
    BY <1>3, RunKeeps, HandleKeeps, TabMovesKeep DEF ServerStepsOrTabMoves
  <1>4. CASE UNCHANGED Dev!pvars
    <2>1. Dev!PTypeOK'
      BY <1>4 DEF Dev!pvars, Dev!RefreshInv, Dev!PTypeOK
    <2>2. TabMoves
      BY <1>4, <2>1 DEF Dev!pvars, TabMoves, RowMoves, AnswerMoves, StepMoves
    <2> QED BY <1>4, <2>2, TabMovesKeep DEF ServerStepsOrTabMoves
  <1> QED BY <1>1, <1>2, <1>3, <1>4 DEF Dev!PNext, ServerStepsOrTabMoves

(* In whatever order tabs ask, answers come, days turn and pages are loaded  *)
(* anew, also when a 304 is the answer to a row that was replaced meanwhile: *)
(* no older file replaces a newer one, and what counts as checked on a day   *)
(* is at least what the server had when that day began.                      *)
THEOREM NeverWorseHolds ==
    ASSUME Dev!RefreshConstants
    PROVE  Dev!PSpec => NeverWorse
  <1>1. Dev!RefreshInv => Dev!CheckedIsCurrent
    BY DEF Dev!RefreshInv
  <1>2. Dev!RefreshInv /\ [Dev!PNext]_Dev!pvars =>
            [\A k \in Kinds : row[k] # Null => row'[k] # Null /\ row'[k].date >= row[k].date]_Dev!pvars
    <2> SUFFICES ASSUME Dev!RefreshInv, [Dev!PNext]_Dev!pvars, NEW k \in Kinds, row[k] # Null
                 PROVE  row'[k] # Null /\ row'[k].date >= row[k].date
      OBVIOUS
    <2>1. row[k].date \in Nat
      <3>1. row[k] \in Dev!Rows
        BY DEF Dev!RefreshInv, Dev!PTypeOK
      <3> QED BY <3>1 DEF Dev!Rows, Dev!RefreshConstants
    <2>2. row' = row \/ TabMoves
      BY RefreshStep DEF ServerStepsOrTabMoves, Dev!NextDay, Dev!Ingested, Dev!tabVars,
                         Dev!pvars
    <2> QED BY <2>1, <2>2 DEF TabMoves, RowMoves
  <1> QED BY <1>1, <1>2, InitRefresh, RefreshStep, PTL
     DEF Dev!PSpec, NeverWorse, Dev!NeverWorse, Dev!NeverOlder
==============================================================================
