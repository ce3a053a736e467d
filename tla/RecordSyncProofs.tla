-------------------------- MODULE RecordSyncProofs --------------------------
(***************************************************************************)
(* Proofs about RecordSync, for every set of records, devices, tabs and     *)
(* engines, every clock and every bound.                                    *)
(***************************************************************************)
EXTENDS RecordSyncProperties, FiniteSetTheorems, TLAPS

------------------------------------------------------------------------------
(* Runs and their parts *)

LEMMA EmptyPushable == Pushable({})
  BY FS_EmptySet DEF Pushable

LEMMA AnIdIsId == AnId \in Ids
  BY IdsAssumption DEF AnId

LEMMA PlaceholderTypes ==
    /\ IdleRun \in Run /\ RunHoldsLog(IdleRun) /\ NoDraft \in Draft
    /\ \A r \in Ids : Blank(r) \in Envelope /\ NoEntry(r) \in Entry
    /\ Blank(AnId) \in Envelope /\ NoEntry(AnId) \in Entry
  BY EmptyPushable, AnIdIsId
     DEF IdleRun, Run, RunHoldsLog, InHand, NoDraft, Draft, Blank, NoEntry, Envelope, Entry

(* What is left of a run when its loops move on (engine.ts, run()): it has  *)
(* nothing in hand, and what it holds it held before.                       *)
MovedOn(w, u) == /\ w \in Run /\ w.pc \notin InHand
                 /\ w.inbox = u.inbox /\ w.acks = u.acks /\ w.unsent = u.unsent
                 /\ w.batch = u.batch \/ w.batch = {}

LEMMA AfterInboxMoves == \A u \in Run : MovedOn(AfterInbox(u), u)
  <1> TAKE u \in Run
  <1>1. CASE u.inbox # {}
    BY <1>1 DEF AfterInbox, Run, MovedOn, InHand
  <1>2. CASE u.inbox = {} /\ u.batch = {}
    BY <1>2 DEF AfterInbox, Run, MovedOn, InHand
  <1>3. CASE u.inbox = {} /\ u.batch # {}
    BY <1>3 DEF AfterInbox, Run, MovedOn, InHand
  <1> QED BY <1>1, <1>2, <1>3

LEMMA AfterAcksMoves == \A u \in Run : MovedOn(AfterAcks(u), u)
  <1> TAKE u \in Run
  <1>1. CASE u.acks # {}
    BY <1>1 DEF AfterAcks, Run, MovedOn, InHand
  <1>2. CASE u.acks = {}
    BY <1>2, AfterInboxMoves DEF AfterAcks
  <1> QED BY <1>1, <1>2

HoldsLog(u) == /\ u \in Run /\ u.inbox \subseteq log /\ u.acks \subseteq log
               /\ Pushable(u.batch) /\ Pushable(u.unsent)

LEMMA MovedOnHolds ==
    ASSUME NEW u, HoldsLog(u), NEW w, MovedOn(w, u)
    PROVE  w \in Run /\ RunHoldsLog(w)
  BY EmptyPushable DEF MovedOn, HoldsLog, RunHoldsLog

LEMMA LogInit == Init => LogInv
  <1> SUFFICES ASSUME Init PROVE LogInv OBVIOUS
  <1>1. TypeOK
    BY PlaceholderTypes DEF Init, TypeOK, NotLoading
  <1>2. LogIsLinear /\ StoresHoldLog
    BY DEF Init, LogIsLinear, StoresHoldLog, Blank, NoEntry
  <1>3. ProcessesHoldLog
    BY PlaceholderTypes, AnIdIsId DEF Init, ProcessesHoldLog, NoDraft, Blank
  <1> QED BY <1>1, <1>2, <1>3 DEF LogInv

------------------------------------------------------------------------------
(* The push transaction *)

(* What one push leaves behind (records-push.ts): the log is still linear,  *)
(* a row only goes up, by one, and then to a seq not given out before.      *)
LEMMA CommitFacts ==
    ASSUME LogInv, NEW B \in SUBSET Entry, Pushable(B), ~BadBase(B),
           NEW f \in Orders(Applied(B)), Commit(B, f)
    PROVE  /\ records' \in [Ids -> Envelope] /\ recordSeq' \in Nat
           /\ log' \subseteq Envelope /\ LogIsLinear'
           /\ log \subseteq log' /\ recordSeq <= recordSeq'
           /\ \A r \in Ids : /\ records[r].v <= records'[r].v
                             /\ records'[r] = records[r] \/ records'[r].seq > recordSeq
           /\ Committed(Applied(B), f) \subseteq log' /\ Conflicts(B) \subseteq log
           /\ \A x \in log' \ log :
                 /\ x.v = records[x.rec].v + 1 /\ x.seq > recordSeq
                 /\ \E y \in B : y.rec = x.rec /\ y.v = x.v /\ y.e = x.e
  <1> DEFINE A == Applied(B)
             n == Cardinality(A)
             new == Committed(A, f)
  <1>1. A \subseteq B /\ IsFiniteSet(A) /\ n \in Nat
    BY FS_Subset, FS_CardinalityType DEF Applied, Pushable
  <1>2. f \in [A -> 1 .. n] /\ \A x, y \in A : f[x] = f[y] => x = y
    BY DEF Orders
  <1>3. \A x \in A : x \in Entry /\ x.v = records[x.rec].v + 1 /\ f[x] \in 1 .. n
    <2> SUFFICES ASSUME NEW x \in A
                 PROVE  x \in Entry /\ x.v = records[x.rec].v + 1 /\ f[x] \in 1 .. n
      OBVIOUS
    <2>1. x \in Entry /\ records[x.rec] \in Envelope /\ records[x.rec].v = x.v - 1
      BY <1>1 DEF Applied, Applies, LogInv, TypeOK, Entry
    <2> QED BY <2>1, <1>2 DEF Entry, Envelope
  <1>4. \A z \in new : \E x \in A : z = [rec |-> x.rec, v |-> x.v, e |-> x.e, seq |-> recordSeq + f[x]]
    BY DEF Committed
  <1>5. \A z \in new : /\ z \in Envelope /\ z.v = records[z.rec].v + 1 /\ z.v > 0
                       /\ z.seq > recordSeq /\ z.seq <= recordSeq + n
                       /\ \E y \in B : y.rec = z.rec /\ y.v = z.v /\ y.e = z.e
    <2> TAKE z \in new
    <2> PICK x \in A : z = [rec |-> x.rec, v |-> x.v, e |-> x.e, seq |-> recordSeq + f[x]]
      BY <1>4
    <2>1. recordSeq \in Nat /\ records \in [Ids -> Envelope]
      BY DEF LogInv, TypeOK
    <2> QED BY <2>1, <1>1, <1>3 DEF Entry, Envelope
  <1>6. \A y, z \in new : y.rec = z.rec \/ y.seq = z.seq => y = z
    <2> TAKE y, z \in new
    <2> PICK p \in A : y = [rec |-> p.rec, v |-> p.v, e |-> p.e, seq |-> recordSeq + f[p]]
      BY <1>4
    <2> PICK q \in A : z = [rec |-> q.rec, v |-> q.v, e |-> q.e, seq |-> recordSeq + f[q]]
      BY <1>4
    <2>1. p.rec = q.rec => p = q
      BY <1>1 DEF Pushable
    <2>2. recordSeq + f[p] = recordSeq + f[q] => p = q
      <3>1. recordSeq \in Nat /\ f[p] \in Nat /\ f[q] \in Nat
        BY <1>1, <1>3 DEF LogInv, TypeOK
      <3>2. recordSeq + f[p] = recordSeq + f[q] => f[p] = f[q]
        BY <3>1
      <3> QED BY <3>2, <1>2
    <2> QED BY <2>1, <2>2
  <1>7. /\ records' = [r \in Ids |-> IF \E x \in new : x.rec = r
                                        THEN CHOOSE x \in new : x.rec = r ELSE records[r]]
        /\ recordSeq' = recordSeq + n /\ log' = log \cup new
    BY DEF Commit
  <1>8. \A r \in Ids : \/ records'[r] \in new /\ records'[r].rec = r
                       \/ records'[r] = records[r] /\ \A x \in new : x.rec # r
    BY <1>7
  <1>9. \A x \in new : x.rec \in Ids /\ records'[x.rec] = x
    BY <1>5, <1>6, <1>8 DEF Envelope
  <1>10. /\ records' \in [Ids -> Envelope] /\ recordSeq' \in Nat
         /\ log' \subseteq Envelope /\ log \subseteq log' /\ recordSeq <= recordSeq'
    BY <1>1, <1>5, <1>7, <1>8 DEF LogInv, TypeOK
  <1>11. \A r \in Ids : /\ records[r].v <= records'[r].v
                        /\ records'[r] = records[r] \/ records'[r].seq > recordSeq
    <2> TAKE r \in Ids
    <2>1. records[r] \in Envelope
      BY DEF LogInv, TypeOK
    <2> QED BY <2>1, <1>5, <1>8 DEF Envelope
  <1>12. LogIsLinear'
    <2>1. \A x \in log' : x.v > 0 /\ x.v <= records'[x.rec].v /\ x.seq <= recordSeq'
      <3> TAKE x \in log'
      <3>1. CASE x \in new
        BY <3>1, <1>5, <1>7, <1>9 DEF Envelope
      <3>2. CASE x \in log
        <4>1. x \in Envelope /\ x.v > 0 /\ x.v <= records[x.rec].v /\ x.seq <= recordSeq
          BY <3>2 DEF LogInv, TypeOK, LogIsLinear
        <4>2. records[x.rec] \in Envelope /\ records'[x.rec] \in Envelope /\ recordSeq \in Nat
          BY <4>1, <1>10 DEF LogInv, TypeOK, Envelope
        <4> QED BY <4>1, <4>2, <1>1, <1>7, <1>11 DEF Envelope
      <3> QED BY <3>1, <3>2, <1>7
    <2>2. \A x, y \in log' : /\ x.rec = y.rec /\ x.v = y.v => x = y
                             /\ x.seq = y.seq => x = y
      <3> TAKE x, y \in log'
      <3>1. CASE x \in new /\ y \in new
        BY <3>1, <1>6
      <3>2. \A p \in log, q \in new : (p.rec = q.rec => p.v # q.v) /\ p.seq # q.seq
        <4> TAKE p \in log, q \in new
        <4>1. p \in Envelope /\ p.v <= records[p.rec].v /\ p.seq <= recordSeq
          BY DEF LogInv, TypeOK, LogIsLinear
        <4>2. q \in Envelope /\ q.v = records[q.rec].v + 1 /\ q.seq > recordSeq
          BY <1>5
        <4>3. records[p.rec] \in Envelope /\ records[q.rec] \in Envelope /\ recordSeq \in Nat
          BY <4>1, <4>2 DEF LogInv, TypeOK, Envelope
        <4> QED BY <4>1, <4>2, <4>3 DEF Envelope
      <3>3. CASE x \in log /\ y \in log
        BY <3>3 DEF LogInv, LogIsLinear
      <3> QED BY <3>1, <3>2, <3>3, <1>7
    <2>3. \A r \in Ids : /\ records'[r].rec = r
                         /\ records'[r].v > 0 => records'[r] \in log'
                         /\ records'[r].v = 0 => records'[r].seq = 0
      BY <1>5, <1>7, <1>8 DEF LogInv, LogIsLinear
    <2> QED BY <2>1, <2>2, <2>3 DEF LogIsLinear
  <1>13. Conflicts(B) \subseteq log
    <2> SUFFICES ASSUME NEW x \in B \ A PROVE records[x.rec] \in log
      BY DEF Conflicts
    <2>1. x \in Entry /\ records[x.rec] \in Envelope /\ x.v > 0
      BY DEF LogInv, TypeOK, Entry, Pushable
    <2>2. records[x.rec].v # x.v - 1
      BY DEF Applied, Applies
    <2>3. x.v > 1 => records[x.rec].v # 0
      BY DEF BadBase
    <2>4. records[x.rec].v > 0
      BY <2>1, <2>2, <2>3 DEF Entry, Envelope
    <2> QED BY <2>1, <2>4 DEF LogInv, LogIsLinear, Entry
  <1> QED BY <1>5, <1>7, <1>10, <1>11, <1>12, <1>13

------------------------------------------------------------------------------
(* Steps *)

(* What was pushable, and what a run held, stays so while the log grows.    *)
LEMMA GrowthKeeps ==
    ASSUME LogInv, records' \in [Ids -> Envelope], log \subseteq log',
           \A r \in Ids : records[r].v <= records'[r].v
    PROVE  /\ \A B \in SUBSET Entry : Pushable(B) => Pushable(B)'
           /\ \A u \in Run : RunHoldsLog(u) => RunHoldsLog(u)'
           /\ \A w \in Draft : w.base <= records[w.rec].v => w.base <= records'[w.rec].v
           /\ \A x \in Entry : x.v <= records[x.rec].v + 1 => x.v <= records'[x.rec].v + 1
  <1>1. \A r \in Ids : records[r].v \in Nat /\ records'[r].v \in Nat
    BY DEF LogInv, TypeOK, Envelope
  <1>2. \A x \in Entry : x.v <= records[x.rec].v + 1 => x.v <= records'[x.rec].v + 1
    BY <1>1 DEF Entry
  <1>3. \A B \in SUBSET Entry : Pushable(B) => Pushable(B)'
    BY <1>2 DEF Pushable
  <1>4. \A w \in Draft : w.base <= records[w.rec].v => w.base <= records'[w.rec].v
    BY <1>1 DEF Draft
  <1>5. \A u \in Run : RunHoldsLog(u) => RunHoldsLog(u)'
    BY <1>3 DEF RunHoldsLog, Run
  <1> QED BY <1>2, <1>3, <1>4, <1>5

(* A step of one run that leaves the server alone.                          *)
LEMMA RunStepKeeps ==
    ASSUME LogInv, UNCHANGED server, UNCHANGED <<draft, orphans>>,
           NEW e \in Engines, NEW u \in Run, RunHoldsLog(u),
           run' = [run EXCEPT ![e] = u]
    PROVE  run' \in [Engines -> Run] /\ ProcessesHoldLog' /\ LogIsLinear'
  <1>1. run' \in [Engines -> Run] /\ \A x \in Engines : RunHoldsLog(run'[x])
    BY DEF LogInv, TypeOK, ProcessesHoldLog
  <1>2. LogIsLinear'
    BY DEF LogInv, LogIsLinear, server
  <1>3. \A x \in Engines : RunHoldsLog(run[x])'
    BY <1>1 DEF RunHoldsLog, Pushable, server
  <1>4. \A B \in orphans : Pushable(B)'
    BY DEF LogInv, ProcessesHoldLog, Pushable, server
  <1>5. \A x \in Engines : draft'[x].base <= records'[draft'[x].rec].v
    BY DEF LogInv, ProcessesHoldLog, server
  <1> QED BY <1>1, <1>2, <1>3, <1>4, <1>5 DEF ProcessesHoldLog

(* A step that changes neither server nor store nor run.                    *)
LEMMA PageStepKeeps ==
    ASSUME LogInv, UNCHANGED <<server, store, draft, run, orphans>>
    PROVE  LogIsLinear' /\ StoresHoldLog' /\ ProcessesHoldLog'
  <1>1. LogIsLinear' /\ StoresHoldLog'
    BY DEF LogInv, LogIsLinear, StoresHoldLog, server, store
  <1>2. ProcessesHoldLog'
    BY DEF LogInv, ProcessesHoldLog, RunHoldsLog, Pushable, server
  <1> QED BY <1>1, <1>2

LEMMA SessionKeepsLog ==
    ASSUME LogInv, NEW t \in Tabs, Unlock(t) \/ Lock(t) \/ Reload(t)
    PROVE  LogInv'
  <1>1. CASE Unlock(t)
    <2>1. PICK e \in Engines :
             /\ mounted' = [mounted EXCEPT ![e] = TRUE]
             /\ cache' = [cache EXCEPT ![e] = [r \in Ids |-> 0]]
             /\ hydrating' = [hydrating EXCEPT ![e].stage = "start"]
      BY <1>1 DEF Unlock, InTab
    <2>2. TypeOK'
      BY <1>1, <2>1, ZenonT(60) DEF Unlock, LogInv, TypeOK, server, store
    <2> QED BY <1>1, <2>2, PageStepKeeps DEF Unlock, LogInv
  <1>2. CASE Lock(t)
    <2>1. TypeOK'
      BY <1>2 DEF Lock, Unmount, NotLoading, LogInv, TypeOK, server, store
    <2> QED BY <1>2, <2>1, PageStepKeeps DEF Lock, LogInv
  <1>3. CASE Reload(t)
    <2>1. run' \in [Engines -> Run] /\ draft' \in [Engines -> Draft]
      BY <1>3, PlaceholderTypes DEF Reload, LogInv, TypeOK
    <2>2. \A B \in orphans' : B \in orphans \/ \E e \in Engines : B = run[e].batch
      BY <1>3 DEF Reload, InTab
    <2>3. \A B \in orphans' : B \in SUBSET Entry /\ Pushable(B)
      BY <2>2 DEF LogInv, TypeOK, Run, ProcessesHoldLog, RunHoldsLog
    <2>4. TypeOK'
      BY <1>3, <2>1, <2>3 DEF Reload, Unmount, NotLoading, LogInv, TypeOK, server, store
    <2>5. LogIsLinear' /\ StoresHoldLog'
      BY <1>3 DEF Reload, LogInv, LogIsLinear, StoresHoldLog, server, store
    <2>6. \A e \in Engines : RunHoldsLog(run'[e])
      BY <1>3, PlaceholderTypes DEF Reload, LogInv, ProcessesHoldLog
    <2>7. /\ \A e \in Engines : RunHoldsLog(run[e])'
          /\ \A B \in orphans' : Pushable(B)'
      BY <1>3, <2>3, <2>6 DEF Reload, RunHoldsLog, Pushable, server
    <2>8. \A e \in Engines : draft'[e].base <= records'[draft'[e].rec].v
      <3> TAKE e \in Engines
      <3>1. records' = records /\ (draft'[e] = draft[e] \/ draft'[e] = NoDraft)
        BY <1>3 DEF Reload, server
      <3>2. NoDraft.base <= records[NoDraft.rec].v
        BY AnIdIsId DEF NoDraft, LogInv, TypeOK, Envelope
      <3> QED BY <3>1, <3>2 DEF LogInv, ProcessesHoldLog
    <2> QED BY <2>4, <2>5, <2>7, <2>8 DEF LogInv, ProcessesHoldLog
  <1> QED BY <1>1, <1>2, <1>3

(* A session's page: what Shown leaves in a cache is content or nothing.    *)
LEMMA ShownType ==
    ASSUME TypeOK, NEW e \in Engines, NEW r \in Ids, NEW i \in Nat, NEW del
    PROVE  Shown(e, r, i, del) \in [Engines -> [Ids -> Nat]]
  BY DEF Shown, TypeOK

LEMMA HostType == \A e \in Engines : TabOf[e] \in Tabs /\ Host(e) \in Devices
  BY PlacesAssumption DEF Host

LEMMA HydrateKeepsLog ==
    ASSUME LogInv, NEW e \in Engines, Hydrate(e)
    PROVE  LogInv'
  <1>1. CASE HydrateEnvelopes(e)
    <2>1. [r \in Ids |-> envelopes[Host(e)][r].e] \in [Ids -> Nat]
      BY HostType DEF LogInv, TypeOK, Envelope
    <2>2. TypeOK'
      BY <1>1, <2>1 DEF HydrateEnvelopes, LogInv, TypeOK, server, store
    <2> QED BY <1>1, <2>2, PageStepKeeps DEF HydrateEnvelopes, LogInv
  <1>2. CASE HydrateOutbox(e)
    <2>1. [r \in Ids |-> outbox[Host(e)][r].e] \in [Ids -> Nat]
      BY HostType DEF LogInv, TypeOK, Entry
    <2>2. TypeOK'
      BY <1>2, <2>1 DEF HydrateOutbox, LogInv, TypeOK, server, store
    <2> QED BY <1>2, <2>2, PageStepKeeps DEF HydrateOutbox, LogInv
  <1>3. ASSUME NEW r \in Ids, HydrateShow(e, r) PROVE LogInv'
    <2>1. hydrating[e].todo[r] \in Nat
      BY DEF LogInv, TypeOK
    <2>2. cache' \in [Engines -> [Ids -> Nat]]
      BY <1>3, <2>1, ShownType DEF HydrateShow, LogInv
    <2>3. hydrating' = [hydrating EXCEPT ![e].todo[r] = 0]
      BY <1>3 DEF HydrateShow
    <2>4. hydrating' \in [Engines -> [stage : {"none", "start", "envelopes", "outbox"},
                                      todo : [Ids -> Nat]]]
      BY <2>3 DEF LogInv, TypeOK
    <2>5. TypeOK'
      BY <1>3, <2>2, <2>4 DEF HydrateShow, LogInv, TypeOK, server, store
    <2> QED BY <1>3, <2>5, PageStepKeeps DEF HydrateShow, LogInv
  <1> QED BY <1>1, <1>2, <1>3 DEF Hydrate

LEMMA EditKeepsLog ==
    ASSUME LogInv, NEW e \in Engines,
           Edited(e) \/ \E r \in Ids : Write(e, r)
    PROVE  LogInv'
  <1>1. ASSUME NEW r \in Ids, Write(e, r) PROVE LogInv'
    <2>1. PICK at \in Clocks, del \in Deletions : draft' = [draft EXCEPT ![e] =
                 [rec |-> r, at |-> at, del |-> del, base |-> BaseVersion(Host(e), r)]]
      BY <1>1 DEF Write
    <2>2. envelopes[Host(e)][r] \in Envelope /\ BaseVersion(Host(e), r) \in Nat
      BY HostType DEF LogInv, TypeOK, Envelope, BaseVersion
    <2>3. draft' \in [Engines -> Draft]
      BY <2>1, <2>2, NumbersAssumption DEF LogInv, TypeOK, Draft
    <2>4. BaseVersion(Host(e), r) <= records[r].v
      <3>1. CASE envelopes[Host(e)][r].v > 0
        <4>1. envelopes[Host(e)][r] \in log /\ envelopes[Host(e)][r].rec = r
          BY <3>1, HostType DEF LogInv, StoresHoldLog
        <4> QED BY <4>1 DEF LogInv, LogIsLinear, BaseVersion
      <3>2. CASE envelopes[Host(e)][r].v = 0
        BY <3>2 DEF LogInv, TypeOK, Envelope, BaseVersion
      <3> QED BY <2>2, <3>1, <3>2 DEF Envelope
    <2>5. TypeOK'
      BY <1>1, <2>3 DEF Write, LogInv, TypeOK, server, store, page
    <2>6. LogIsLinear' /\ StoresHoldLog'
      BY <1>1 DEF Write, LogInv, LogIsLinear, StoresHoldLog, server, store
    <2>7. \A x \in Engines : draft'[x].base <= records'[draft'[x].rec].v
      BY <1>1, <2>1, <2>4 DEF Write, LogInv, TypeOK, ProcessesHoldLog, server
    <2>8. ProcessesHoldLog'
      BY <1>1, <2>7 DEF Write, LogInv, ProcessesHoldLog, RunHoldsLog, Pushable, server
    <2> QED BY <2>5, <2>6, <2>8 DEF LogInv
  <1>2. CASE QueueEdit(e)
    <2> DEFINE w == draft[e]
               d == Host(e)
               n == Len(edits) + 1
               new == [rec |-> w.rec, at |-> w.at, by |-> AuthorOf[d],
                       del |-> w.del, dev |-> d, base |-> w.base]
    <2>1. w \in Draft /\ d \in Devices /\ n \in Nat /\ AuthorOf[d] \in Nat
      BY HostType, PlacesAssumption DEF LogInv, TypeOK
    <2>2. new \in Edit
      BY <2>1 DEF Draft, Edit
    <2>3. /\ edits' = Append(edits, new) /\ outbox' = Queued(d, w.rec, w.base + 1, n)
          /\ cache' = Shown(e, w.rec, n, w.del) /\ draft' = [draft EXCEPT ![e] = NoDraft]
      BY <1>2 DEF QueueEdit
    <2>4. edits' \in Seq(Edit)
      BY <2>2, <2>3 DEF LogInv, TypeOK
    <2>5. [rec |-> w.rec, v |-> w.base + 1, e |-> n] \in Entry
      BY <2>1 DEF Draft, Entry
    <2>6. outbox' \in [Devices -> [Ids -> Entry]]
      BY <2>1, <2>3, <2>5 DEF Queued, LogInv, TypeOK
    <2>7. cache' \in [Engines -> [Ids -> Nat]]
      BY <2>1, <2>3, ShownType DEF Draft, LogInv
    <2> DEFINE u == [run[e] EXCEPT !.pc = IF @ = "idle" THEN "pull" ELSE @]
    <2>8. run' = [run EXCEPT ![e] = u]
      BY <1>2 DEF QueueEdit, LogInv, TypeOK
    <2>9. run[e] \in Run /\ RunHoldsLog(run[e])
      BY DEF LogInv, TypeOK, ProcessesHoldLog
    <2>10. u \in Run /\ RunHoldsLog(u)
      BY <2>9 DEF Run, RunHoldsLog, InHand
    <2>11. TypeOK'
      BY <1>2, <2>3, <2>4, <2>6, <2>7, <2>8, <2>10, PlaceholderTypes
         DEF QueueEdit, LogInv, TypeOK, server
    <2>12. LogIsLinear'
      BY <1>2 DEF QueueEdit, LogInv, LogIsLinear, server
    <2>13. w.base <= records[w.rec].v /\ records[w.rec].v \in Nat
      BY <2>1 DEF LogInv, TypeOK, ProcessesHoldLog, Draft, Envelope
    <2>14. StoresHoldLog'
      <3> SUFFICES ASSUME NEW x \in Devices, NEW r \in Ids
                   PROVE  /\ outbox'[x][r].rec = r /\ envelopes'[x][r].rec = r
                          /\ envelopes'[x][r].v > 0 => envelopes'[x][r] \in log'
                          /\ outbox'[x][r].v <= records'[r].v + 1
        BY DEF StoresHoldLog
      <3>1. envelopes' = envelopes /\ records' = records /\ log' = log
        BY <1>2 DEF QueueEdit, server
      <3>2. CASE x = d /\ r = w.rec
        BY <2>1, <2>3, <2>13, <3>1, <3>2 DEF Queued, LogInv, TypeOK, StoresHoldLog, Draft
      <3>3. CASE ~(x = d /\ r = w.rec)
        BY <2>1, <2>3, <3>1, <3>3 DEF Queued, LogInv, TypeOK, StoresHoldLog
      <3> QED BY <3>2, <3>3
    <2>15. \A x \in Engines : draft'[x].base <= records'[draft'[x].rec].v
      <3>1. NoDraft.base <= records[NoDraft.rec].v
        BY AnIdIsId DEF NoDraft, LogInv, TypeOK, Envelope
      <3> QED BY <1>2, <2>3, <3>1 DEF QueueEdit, LogInv, TypeOK, ProcessesHoldLog, server
    <2>16. \A x \in Engines : RunHoldsLog(run'[x])
      BY <2>8, <2>10 DEF LogInv, TypeOK, ProcessesHoldLog
    <2>17. ProcessesHoldLog'
      BY <1>2, <2>15, <2>16
         DEF QueueEdit, LogInv, ProcessesHoldLog, RunHoldsLog, Pushable, server
    <2> QED BY <2>11, <2>12, <2>14, <2>17 DEF LogInv
  <1>3. CASE RefuseEdit(e)
    <2>1. TypeOK'
      BY <1>3, PlaceholderTypes DEF RefuseEdit, LogInv, TypeOK, server, store, page
    <2>2. LogIsLinear' /\ StoresHoldLog'
      BY <1>3 DEF RefuseEdit, LogInv, LogIsLinear, StoresHoldLog, server, store
    <2>3. \A x \in Engines : draft'[x].base <= records'[draft'[x].rec].v
      <3>1. NoDraft.base <= records[NoDraft.rec].v
        BY AnIdIsId DEF NoDraft, LogInv, TypeOK, Envelope
      <3> QED BY <1>3, <3>1 DEF RefuseEdit, LogInv, TypeOK, ProcessesHoldLog, server
    <2>4. ProcessesHoldLog'
      BY <1>3, <2>3 DEF RefuseEdit, LogInv, ProcessesHoldLog, RunHoldsLog, Pushable, server
    <2> QED BY <2>1, <2>2, <2>4 DEF LogInv
  <1> QED BY <1>1, <1>2, <1>3 DEF Edited

(* A run step that leaves server, store and page alone.                     *)
LEMMA PlainRunStep ==
    ASSUME LogInv, UNCHANGED <<server, store, unlocked, page, draft, orphans, edits>>,
           faults' \in Nat, NEW e \in Engines, NEW u \in Run, RunHoldsLog(u),
           run' = [run EXCEPT ![e] = u]
    PROVE  LogInv'
  <1>1. run' \in [Engines -> Run] /\ ProcessesHoldLog' /\ LogIsLinear'
    BY RunStepKeeps
  <1>2. StoresHoldLog'
    BY DEF LogInv, StoresHoldLog, server, store
  <1>3. TypeOK'
    BY <1>1 DEF LogInv, TypeOK, server, store, page
  <1> QED BY <1>1, <1>2, <1>3 DEF LogInv

(* One that also changes the store, the cache or both.                      *)
LEMMA StoreRunStep ==
    ASSUME LogInv, UNCHANGED <<server, unlocked, mounted, hydrating, draft, orphans, faults, edits>>,
           NEW e \in Engines, NEW u \in Run, RunHoldsLog(u),
           run' = [run EXCEPT ![e] = u],
           envelopes' \in [Devices -> [Ids -> Envelope]],
           outbox' \in [Devices -> [Ids -> Entry]],
           cursor' \in [Devices -> Nat],
           cache' \in [Engines -> [Ids -> Nat]],
           \A d \in Devices, r \in Ids :
               /\ outbox'[d][r].rec = r /\ envelopes'[d][r].rec = r
               /\ envelopes'[d][r].v > 0 => envelopes'[d][r] \in log
               /\ outbox'[d][r].v <= records[r].v + 1
    PROVE  LogInv'
  <1>1. run' \in [Engines -> Run] /\ ProcessesHoldLog' /\ LogIsLinear'
    BY RunStepKeeps
  <1>2. StoresHoldLog'
    BY DEF StoresHoldLog, server
  <1>3. TypeOK'
    BY <1>1 DEF LogInv, TypeOK, server
  <1> QED BY <1>1, <1>2, <1>3 DEF LogInv

LEMMA RunFacts ==
    ASSUME LogInv, NEW e \in Engines
    PROVE  /\ run[e] \in Run /\ RunHoldsLog(run[e]) /\ HoldsLog(run[e])
           /\ run[e].pc \in InHand => run[e].remote \in log /\ run[e].remote \in Envelope
           /\ run[e].pending \in Entry
  BY DEF LogInv, TypeOK, ProcessesHoldLog, RunHoldsLog, HoldsLog, Run

LEMMA PullKeepsLog ==
    ASSUME LogInv, NEW e \in Engines, Pull(e) \/ StartRun(e) \/ StopLocked(e)
    PROVE  LogInv'
  <1> USE RunFacts
  <1>1. CASE StartRun(e)
    <2> DEFINE u == [run[e] EXCEPT !.pc = "pull"]
    <2>1. u \in Run /\ RunHoldsLog(u)
      BY DEF Run, RunHoldsLog, InHand
    <2>2. run' = [run EXCEPT ![e] = u]
      BY <1>1 DEF StartRun, LogInv, TypeOK
    <2> QED BY <1>1, <2>1, <2>2, PlainRunStep DEF StartRun, LogInv, TypeOK
  <1>2. CASE Pull(e)
    <2> DEFINE got == Page(cursor[Host(e)])
               u == [run[e] EXCEPT !.inbox = got, !.full = (Cardinality(got) = PullPage)]
    <2>1. got \subseteq log
      <3> SUFFICES ASSUME NEW r \in Ids, records[r].seq > cursor[Host(e)]
                   PROVE  records[r] \in log
        BY DEF Page, Newer
      <3>1. records[r] \in Envelope /\ cursor[Host(e)] \in Nat
        BY HostType DEF LogInv, TypeOK
      <3>2. records[r].v # 0
        BY <3>1 DEF LogInv, LogIsLinear, Envelope
      <3> QED BY <3>1, <3>2 DEF LogInv, LogIsLinear, Envelope
    <2>2. u \in Run /\ HoldsLog(u)
      BY <2>1, ZenonT(60) DEF Run, HoldsLog, LogInv, TypeOK
    <2>3. AfterInbox(u) \in Run /\ RunHoldsLog(AfterInbox(u))
      BY <2>2, AfterInboxMoves, MovedOnHolds DEF HoldsLog
    <2>4. run' = [run EXCEPT ![e] = AfterInbox(u)]
      BY <1>2 DEF Pull
    <2> QED BY <1>2, <2>3, <2>4, PlainRunStep DEF Pull, LogInv, TypeOK
  <1>3. CASE StopLocked(e)
    BY <1>3, PlaceholderTypes, PlainRunStep DEF StopLocked, LogInv, TypeOK
  <1> QED BY <1>1, <1>2, <1>3

LEMMA ReceiveKeepsLog ==
    ASSUME LogInv, NEW e \in Engines, ReceiveStep(e)
    PROVE  LogInv'
  <1> DEFINE x == run[e].remote
             p == run[e].pending
             d == Host(e)
  <1> USE RunFacts
  <1>0. d \in Devices
    BY HostType
  <1>s. /\ envelopes \in [Devices -> [Ids -> Envelope]] /\ outbox \in [Devices -> [Ids -> Entry]]
        /\ cursor \in [Devices -> Nat] /\ cache \in [Engines -> [Ids -> Nat]]
        /\ \A c \in Devices, r \in Ids :
               /\ outbox[c][r].rec = r /\ envelopes[c][r].rec = r
               /\ envelopes[c][r].v > 0 => envelopes[c][r] \in log
               /\ outbox[c][r].v <= records[r].v + 1
    BY DEF LogInv, TypeOK, StoresHoldLog
  <1>1. CASE Receive(e)
    <2>1. PICK y \in run[e].inbox : run' = [run EXCEPT
                ![e].remote = y,
                ![e].pc = IF y.v < envelopes[d][y.rec].v THEN "received" ELSE "put"]
      BY <1>1 DEF Receive
    <2> DEFINE u == [run[e] EXCEPT !.remote = y,
                       !.pc = IF y.v < envelopes[d][y.rec].v THEN "received" ELSE "put"]
    <2>2. u \in Run /\ RunHoldsLog(u)
      BY DEF Run, RunHoldsLog
    <2>3. run' = [run EXCEPT ![e] = u]
      BY <2>1 DEF LogInv, TypeOK, Run
    <2> QED BY <1>1, <2>2, <2>3, PlainRunStep DEF Receive, LogInv, TypeOK
  <1>2. CASE PutRemote(e)
    <2> DEFINE u == [run[e] EXCEPT !.pc = "peek"]
    <2>1. x \in log /\ x \in Envelope
      BY <1>2 DEF PutRemote, InHand
    <2>2. u \in Run /\ RunHoldsLog(u)
      BY <2>1 DEF Run, RunHoldsLog
    <2>3. run' = [run EXCEPT ![e] = u]
      BY <1>2 DEF PutRemote, LogInv, TypeOK
    <2>4. envelopes' = [envelopes EXCEPT ![d][x.rec] = PutEnvelope(@, x)]
      BY <1>2 DEF PutRemote
    <2>5. /\ envelopes' \in [Devices -> [Ids -> Envelope]]
          /\ \A c \in Devices, r \in Ids : /\ envelopes'[c][r].rec = r
                                           /\ envelopes'[c][r].v > 0 => envelopes'[c][r] \in log
      <3> DEFINE new == PutEnvelope(envelopes[d][x.rec], x)
      <3>1. x.rec \in Ids
        BY <2>1 DEF Envelope
      <3>2. new \in Envelope /\ new.rec = x.rec /\ (new.v > 0 => new \in log)
        BY <1>0, <1>s, <2>1, <3>1 DEF PutEnvelope
      <3>3. envelopes' = [envelopes EXCEPT ![d][x.rec] = new]
        BY <2>4
      <3> HIDE DEF new, x
      <3>4. envelopes' \in [Devices -> [Ids -> Envelope]]
        BY <1>s, <3>2, <3>3
      <3>5. ASSUME NEW c \in Devices, NEW r \in Ids
            PROVE  envelopes'[c][r] = IF c = d /\ r = x.rec THEN new ELSE envelopes[c][r]
        BY <1>s, <3>3
      <3> QED BY <1>s, <3>2, <3>4, <3>5
    <2>6. UNCHANGED <<server, outbox, cursor, unlocked, mounted, cache, hydrating, draft,
                      orphans, faults, edits>>
      BY <1>2 DEF PutRemote, page
    <2>7. \A c \in Devices, r \in Ids :
             /\ outbox'[c][r].rec = r /\ envelopes'[c][r].rec = r
             /\ envelopes'[c][r].v > 0 => envelopes'[c][r] \in log
             /\ outbox'[c][r].v <= records[r].v + 1
      BY <1>s, <2>5, <2>6
    <2> QED BY <1>s, <2>2, <2>3, <2>5, <2>6, <2>7, StoreRunStep
  <1>3. CASE PeekNone(e)
    <2> DEFINE u == [run[e] EXCEPT !.pc = "received"]
    <2>1. x \in log /\ x \in Envelope
      BY <1>3 DEF PeekNone, InHand
    <2>2. u \in Run /\ RunHoldsLog(u)
      BY <2>1 DEF Run, RunHoldsLog
    <2>3. run' = [run EXCEPT ![e] = u]
      BY <1>3 DEF PeekNone, LogInv, TypeOK
    <2>4. cache' \in [Engines -> [Ids -> Nat]]
      BY <1>3, <2>1, ShownType DEF PeekNone, LogInv, Envelope
    <2> QED BY <1>3, <1>s, <2>2, <2>3, <2>4, StoreRunStep DEF PeekNone, store
  <1>4. CASE PeekStands(e)
    <2> DEFINE u == [run[e] EXCEPT !.pc = "received"]
    <2>1. u \in Run /\ RunHoldsLog(u)
      BY <1>4 DEF PeekStands, Run, RunHoldsLog, InHand
    <2>2. run' = [run EXCEPT ![e] = u]
      BY <1>4 DEF PeekStands, LogInv, TypeOK
    <2> QED BY <1>4, <2>1, <2>2, PlainRunStep DEF PeekStands, LogInv, TypeOK
  <1>5. CASE PeekMerge(e)
    <2> DEFINE u == [run[e] EXCEPT !.pc = "merge", !.pending = Seen(e)]
    <2>1. Seen(e) \in Entry
      BY <1>0, <1>5, <1>s DEF PeekMerge, Seen, InHand, Envelope
    <2>2. u \in Run /\ RunHoldsLog(u)
      BY <1>5, <2>1 DEF PeekMerge, Run, RunHoldsLog, InHand
    <2>3. run' = [run EXCEPT ![e] = u]
      BY <1>5 DEF PeekMerge, LogInv, TypeOK, Run
    <2> QED BY <1>5, <2>2, <2>3, PlainRunStep DEF PeekMerge, LogInv, TypeOK
  <1>6. CASE MergeMine(e)
    <2> DEFINE u == [run[e] EXCEPT !.pc = "received"]
    <2>1. x \in log /\ x \in Envelope /\ p \in Entry
      BY <1>6 DEF MergeMine, InHand
    <2>2. u \in Run /\ RunHoldsLog(u)
      BY <2>1 DEF Run, RunHoldsLog
    <2>3. run' = [run EXCEPT ![e] = u]
      BY <1>6 DEF MergeMine, LogInv, TypeOK
    <2>4. outbox' = Queued(d, x.rec, x.v + 1, p.e) /\ cache' = Shown(e, x.rec, p.e, edits[p.e].del)
      BY <1>6 DEF MergeMine
    <2>5. cache' \in [Engines -> [Ids -> Nat]]
      BY <2>1, <2>4, ShownType DEF LogInv, Envelope, Entry
    <2>6. x.v <= records[x.rec].v /\ records[x.rec] \in Envelope
      BY <2>1 DEF LogInv, TypeOK, LogIsLinear, Envelope
    <2>7. [rec |-> x.rec, v |-> x.v + 1, e |-> p.e] \in Entry
      BY <2>1 DEF Envelope, Entry
    <2>8. outbox' \in [Devices -> [Ids -> Entry]]
      BY <1>0, <1>s, <2>1, <2>4, <2>7 DEF Queued
    <2>9. \A c \in Devices, r \in Ids : outbox'[c][r].rec = r /\ outbox'[c][r].v <= records[r].v + 1
      <3> TAKE c \in Devices, r \in Ids
      <3>1. CASE c = d /\ r = x.rec
        BY <1>0, <1>s, <2>1, <2>4, <2>6, <3>1 DEF Queued, Envelope
      <3>2. CASE ~(c = d /\ r = x.rec)
        BY <1>0, <1>s, <2>1, <2>4, <3>2 DEF Queued, Envelope
      <3> QED BY <3>1, <3>2
    <2> QED BY <1>6, <1>s, <2>2, <2>3, <2>5, <2>8, <2>9, StoreRunStep, ZenonT(60) DEF MergeMine
  <1>7. CASE MergeTheirs(e)
    <2> DEFINE u == [run[e] EXCEPT !.pc = "received"]
    <2>1. x \in log /\ x \in Envelope /\ p \in Entry
      BY <1>7 DEF MergeTheirs, InHand
    <2>2. u \in Run /\ RunHoldsLog(u)
      BY <2>1 DEF Run, RunHoldsLog
    <2>3. run' = [run EXCEPT ![e] = u]
      BY <1>7 DEF MergeTheirs, LogInv, TypeOK
    <2>4. /\ outbox' = [outbox EXCEPT ![d][x.rec] = Dequeued(@, p.v)]
          /\ cache' = Shown(e, x.rec, x.e, edits[x.e].del)
      BY <1>7 DEF MergeTheirs
    <2>5. cache' \in [Engines -> [Ids -> Nat]]
      BY <2>1, <2>4, ShownType DEF LogInv, Envelope
    <2>6. \A c \in Devices, r \in Ids :
             \/ outbox'[c][r] = outbox[c][r]
             \/ outbox'[c][r] = NoEntry(r)
      BY <1>0, <1>s, <2>1, <2>4 DEF Dequeued, Envelope
    <2>7. outbox' \in [Devices -> [Ids -> Entry]]
      <3>1. Dequeued(outbox[d][x.rec], p.v) \in Entry
        BY <1>0, <1>s, <2>1, PlaceholderTypes DEF Dequeued, Envelope
      <3>2. outbox' = [outbox EXCEPT ![d][x.rec] = Dequeued(outbox[d][x.rec], p.v)]
        BY <2>4
      <3> HIDE DEF x, p
      <3> QED BY <1>s, <3>1, <3>2
    <2>8. UNCHANGED <<server, envelopes, cursor, unlocked, mounted, hydrating, draft,
                      orphans, faults, edits>>
      BY <1>7 DEF MergeTheirs
    <2>9. \A c \in Devices, r \in Ids :
             /\ outbox'[c][r].rec = r /\ envelopes'[c][r].rec = r
             /\ envelopes'[c][r].v > 0 => envelopes'[c][r] \in log
             /\ outbox'[c][r].v <= records[r].v + 1
      <3> TAKE c \in Devices, r \in Ids
      <3>1. records[r].v \in Nat
        BY DEF LogInv, TypeOK, Envelope
      <3>2. outbox'[c][r].rec = r /\ outbox'[c][r].v <= records[r].v + 1
        <4>1. CASE outbox'[c][r] = outbox[c][r]
          BY <1>s, <4>1
        <4>2. CASE outbox'[c][r] = NoEntry(r)
          BY <3>1, <4>2 DEF NoEntry
        <4> QED BY <2>6, <4>1, <4>2
      <3> QED BY <1>s, <2>8, <3>2
    <2> QED BY <1>s, <2>2, <2>3, <2>5, <2>7, <2>8, <2>9, StoreRunStep
  <1>8. CASE Received(e)
    <2> DEFINE u == [run[e] EXCEPT !.inbox = @ \ {x}, !.remote = Blank(AnId),
                                   !.pending = NoEntry(AnId)]
    <2>1. x \in log /\ x \in Envelope
      BY <1>8 DEF Received, InHand
    <2>2. HoldsLog(u)
      BY PlaceholderTypes DEF HoldsLog, Run
    <2>3. AfterInbox(u) \in Run /\ RunHoldsLog(AfterInbox(u))
      BY <2>2, AfterInboxMoves, MovedOnHolds DEF HoldsLog
    <2>4. run' = [run EXCEPT ![e] = AfterInbox(u)]
      BY <1>8 DEF Received
    <2>5. cursor' \in [Devices -> Nat]
      BY <1>0, <1>8, <1>s, <2>1 DEF Received, CursorAfter, Envelope
    <2> QED BY <1>8, <1>s, <2>3, <2>4, <2>5, StoreRunStep DEF Received, page
  <1> QED BY <1>1, <1>2, <1>3, <1>4, <1>5, <1>6, <1>7, <1>8 DEF ReceiveStep

(* A step in which the server commits a push: serving one, heard or not,    *)
(* orphaned or not, keeps what everybody holds.                             *)
LEMMA ServeStep ==
    ASSUME LogInv, NEW B \in SUBSET Entry, Pushable(B), ~BadBase(B),
           NEW f \in Orders(Applied(B)), Commit(B, f),
           UNCHANGED <<store, unlocked, page, draft, edits>>, faults' \in Nat,
           run' \in [Engines -> Run], \A e \in Engines : RunHoldsLog(run[e])',
           orphans' \subseteq orphans
    PROVE  LogInv'
  <1>1. /\ records' \in [Ids -> Envelope] /\ recordSeq' \in Nat
        /\ log' \subseteq Envelope /\ LogIsLinear' /\ log \subseteq log'
        /\ \A r \in Ids : records[r].v <= records'[r].v
    BY CommitFacts
  <1>2. TypeOK'
    BY <1>1 DEF LogInv, TypeOK, store, page
  <1>3. StoresHoldLog'
    <2>1. \A d \in Devices, r \in Ids : outbox[d][r] \in Entry /\ outbox[d][r].rec = r
      BY DEF LogInv, TypeOK, StoresHoldLog
    <2>2. \A d \in Devices, r \in Ids : outbox[d][r].v <= records'[r].v + 1
      BY <1>1, <2>1, GrowthKeeps DEF LogInv, StoresHoldLog
    <2> QED BY <1>1, <2>2 DEF LogInv, StoresHoldLog, store
  <1>4. \A C \in orphans' : Pushable(C)'
    BY <1>1, GrowthKeeps DEF LogInv, TypeOK, ProcessesHoldLog
  <1>5. \A e \in Engines : draft'[e].base <= records'[draft'[e].rec].v
    BY <1>1, GrowthKeeps DEF LogInv, TypeOK, ProcessesHoldLog
  <1> QED BY <1>1, <1>2, <1>3, <1>4, <1>5 DEF LogInv, ProcessesHoldLog

LEMMA OrphanKeepsLog ==
    ASSUME LogInv, NEW B \in orphans, ServeOrphan(B)
    PROVE  LogInv'
  <1>1. B \in SUBSET Entry /\ Pushable(B)
    BY DEF LogInv, TypeOK, ProcessesHoldLog
  <1>2. CASE BadBase(B)
    <2>1. /\ UNCHANGED <<server, store, unlocked, page, draft, run, faults, edits>>
          /\ orphans' \subseteq orphans
      BY <1>2 DEF ServeOrphan
    <2>2. TypeOK'
      BY <2>1 DEF LogInv, TypeOK, server, store, page
    <2>3. LogIsLinear' /\ StoresHoldLog'
      BY <2>1 DEF LogInv, LogIsLinear, StoresHoldLog, server, store
    <2>4. ProcessesHoldLog'
      BY <2>1 DEF LogInv, ProcessesHoldLog, RunHoldsLog, Pushable, server
    <2> QED BY <2>2, <2>3, <2>4 DEF LogInv
  <1>3. CASE ~BadBase(B)
    <2>1. PICK f \in Orders(Applied(B)) : Commit(B, f)
      BY <1>3 DEF ServeOrphan
    <2>2. /\ UNCHANGED <<store, unlocked, page, draft, run, faults, edits>>
          /\ orphans' \subseteq orphans
      BY DEF ServeOrphan
    <2>3. /\ records' \in [Ids -> Envelope] /\ log \subseteq log'
          /\ \A r \in Ids : records[r].v <= records'[r].v
      BY <1>1, <1>3, <2>1, CommitFacts
    <2>4. \A e \in Engines : RunHoldsLog(run[e])'
      <3> TAKE e \in Engines
      <3>1. \A u \in Run : RunHoldsLog(u) => RunHoldsLog(u)'
        BY <2>3, GrowthKeeps
      <3>2. run[e] \in Run /\ RunHoldsLog(run[e]) /\ run' = run
        BY <2>2, RunFacts
      <3> QED BY <3>1, <3>2 DEF RunHoldsLog
    <2>5. run' \in [Engines -> Run] /\ faults' \in Nat
      BY <2>2 DEF LogInv, TypeOK
    <2> QED BY <1>1, <1>3, <2>1, <2>2, <2>4, <2>5, ServeStep
  <1> QED BY <1>2, <1>3

(* The round's snapshot of the outbox (engine.ts:163-168).                  *)
LEMMA SendSnapshot ==
    ASSUME NEW u \in Run, RunHoldsLog(u), NEW Q \in SUBSET Entry, Pushable(Q)
    PROVE  LET w == [u EXCEPT !.pc = "send", !.unsent = Q, !.round = u.round + 1]
           IN  w \in Run /\ RunHoldsLog(w)
  <1> DEFINE n == u.round + 1
             w == [u EXCEPT !.pc = "send", !.unsent = Q, !.round = n]
  <1>0. n \in Nat
    BY DEF Run
  <1> HIDE DEF n
  <1>1. w \in Run
    BY <1>0 DEF Run
  <1>2. /\ w.pc = "send" /\ w.inbox = u.inbox /\ w.acks = u.acks
        /\ w.batch = u.batch /\ w.unsent = Q
    BY DEF Run
  <1> HIDE DEF w
  <1>3. RunHoldsLog(w)
    BY <1>2 DEF RunHoldsLog, InHand
  <1> QED BY <1>1, <1>3 DEF w, n

LEMMA SendKeepsLog ==
    ASSUME LogInv, NEW e \in Engines, PushRound(e) \/ Send(e)
    PROVE  LogInv'
  <1> USE RunFacts
  <1> DEFINE d == Host(e)
  <1>0. d \in Devices
    BY HostType
  <1>1. CASE PushRound(e)
    <2> DEFINE queued == {x \in {outbox[d][r] : r \in Ids} : x.v > 0}
               u == IF queued = {} \/ run[e].round >= MaxRounds THEN IdleRun
                    ELSE [run[e] EXCEPT !.pc = "send", !.unsent = queued, !.round = run[e].round + 1]
    <2>1. \A r \in Ids : /\ outbox[d][r] \in Entry /\ outbox[d][r].rec = r
                         /\ outbox[d][r].v <= records[r].v + 1
      BY <1>0 DEF LogInv, TypeOK, StoresHoldLog
    <2>2. queued \subseteq Entry
      BY <2>1
    <2>3. IsFiniteSet(queued)
      <3> DEFINE entries == {outbox[d][r] : r \in Ids}
                 f == [r \in Ids |-> outbox[d][r]]
      <3>1. f \in Surjection(Ids, entries)
        BY DEF Surjection
      <3>2. IsFiniteSet(entries)
        BY <3>1, IdsAssumption, FS_Surjection
      <3> QED BY <3>2, FS_Subset
    <2>4. Pushable(queued)
      BY <2>1, <2>3 DEF Pushable, Entry
    <2>5. u \in Run /\ RunHoldsLog(u)
      <3>1. CASE queued = {} \/ run[e].round >= MaxRounds
        BY <3>1, PlaceholderTypes
      <3>2. CASE ~(queued = {} \/ run[e].round >= MaxRounds)
        BY <2>2, <2>4, <3>2, SendSnapshot
      <3> QED BY <3>1, <3>2
    <2>6. run' = [run EXCEPT ![e] = u]
      BY <1>1 DEF PushRound, LogInv, TypeOK
    <2> QED BY <1>1, <2>5, <2>6, PlainRunStep DEF PushRound, LogInv, TypeOK
  <1>2. CASE Send(e)
    <2>1. PICK B \in SUBSET run[e].unsent :
             run' = [run EXCEPT ![e].pc = "sent", ![e].batch = B,
                                ![e].unsent = run[e].unsent \ B]
      BY <1>2 DEF Send
    <2> DEFINE u == [run[e] EXCEPT !.pc = "sent", !.batch = B, !.unsent = run[e].unsent \ B]
    <2>2. \A C \in SUBSET run[e].unsent : Pushable(C)
      BY FS_Subset DEF RunHoldsLog, Pushable
    <2>3. u \in Run /\ RunHoldsLog(u)
      BY <2>2 DEF Run, RunHoldsLog, InHand
    <2>4. run' = [run EXCEPT ![e] = u]
      BY <2>1 DEF LogInv, TypeOK, Run
    <2> QED BY <1>2, <2>3, <2>4, PlainRunStep DEF Send, LogInv, TypeOK
  <1> QED BY <1>1, <1>2

LEMMA ServeKeepsLog ==
    ASSUME LogInv, NEW e \in Engines, Serve(e) \/ ServeUnheard(e)
    PROVE  LogInv'
  <1> DEFINE B == run[e].batch
  <1>1. /\ B \in SUBSET Entry /\ Pushable(B)
        /\ run[e] \in Run /\ HoldsLog(run[e])
    BY RunFacts DEF Run, RunHoldsLog
  <1>2. CASE BadBase(B)
    <2>1. /\ UNCHANGED <<server, store, unlocked, page, draft, orphans, faults, edits>>
          /\ run' = [run EXCEPT ![e] = IdleRun]
      BY <1>2 DEF Serve, ServeUnheard
    <2> QED BY <2>1, PlaceholderTypes, PlainRunStep DEF LogInv, TypeOK
  <1>3. ASSUME ~BadBase(B), NEW f \in Orders(Applied(B)), Commit(B, f),
               UNCHANGED <<store, unlocked, page, draft, orphans, edits>>, faults' \in Nat,
               NEW w, w \in Run, RunHoldsLog(w)', run' = [run EXCEPT ![e] = w]
        PROVE  LogInv'
    <2>1. /\ records' \in [Ids -> Envelope] /\ log \subseteq log'
          /\ \A r \in Ids : records[r].v <= records'[r].v
      BY <1>1, <1>3, CommitFacts
    <2>2. run' \in [Engines -> Run]
      BY <1>3 DEF LogInv, TypeOK
    <2>3. \A u \in Run : RunHoldsLog(u) => RunHoldsLog(u)'
      BY <2>1, GrowthKeeps
    <2>4. \A x \in Engines : RunHoldsLog(run[x])'
      <3> TAKE x \in Engines
      <3>1. CASE x = e
        <4>1. run'[x] = w
          BY <1>3, <3>1 DEF LogInv, TypeOK
        <4> QED BY <4>1, <1>3 DEF RunHoldsLog
      <3>2. CASE x # e
        <4>1. run'[x] = run[x] /\ run[x] \in Run /\ RunHoldsLog(run[x])
          BY <1>3, <3>2, RunFacts DEF LogInv, TypeOK
        <4>2. RunHoldsLog(run[x]) => \A u \in Run : u = run[x] => RunHoldsLog(u)'
          BY <2>3
        <4> QED BY <4>1, <4>2 DEF RunHoldsLog
      <3> QED BY <3>1, <3>2
    <2>5. orphans' \subseteq orphans
      BY <1>3
    <2> QED BY <1>1, <1>3, <2>2, <2>4, <2>5, ServeStep
  <1>4. CASE ~BadBase(B) /\ Serve(e)
    <2>1. PICK f \in Orders(Applied(B)) :
             /\ Commit(B, f)
             /\ run' = [run EXCEPT ![e] = AfterAcks([run[e] EXCEPT
                          !.acks = Committed(Applied(B), f), !.inbox = Conflicts(B)])]
      BY <1>4 DEF Serve
    <2> DEFINE u == [run[e] EXCEPT !.acks = Committed(Applied(B), f), !.inbox = Conflicts(B)]
    <2>2. /\ records' \in [Ids -> Envelope] /\ log' \subseteq Envelope /\ log \subseteq log'
          /\ \A r \in Ids : records[r].v <= records'[r].v
          /\ Committed(Applied(B), f) \subseteq log' /\ Conflicts(B) \subseteq log
      BY <1>1, <1>4, <2>1, CommitFacts
    <2>3. u \in Run /\ u.batch = B /\ u.unsent = run[e].unsent
          /\ u.inbox \subseteq log' /\ u.acks \subseteq log'
      BY <1>1, <2>2 DEF Run
    <2>4. \A C \in SUBSET Entry : Pushable(C) => Pushable(C)'
      BY <2>2, GrowthKeeps
    <2>5. PICK w : w = AfterAcks(u)
      OBVIOUS
    <2>6. MovedOn(w, u)
      BY <2>3, <2>5, AfterAcksMoves
    <2>7. w.batch \in SUBSET Entry /\ Pushable(w.batch) /\ w.unsent \in SUBSET Entry /\ Pushable(w.unsent)
      BY <1>1, <2>3, <2>6, EmptyPushable DEF MovedOn, HoldsLog, Run
    <2>8. RunHoldsLog(w)'
      <3>1. Pushable(w.batch)' /\ Pushable(w.unsent)'
        BY <2>4, <2>7
      <3>2. w.inbox \subseteq log' /\ w.acks \subseteq log' /\ w.pc \notin InHand
        BY <2>3, <2>6 DEF MovedOn
      <3> QED BY <3>1, <3>2 DEF RunHoldsLog
    <2>9. w \in Run /\ run' = [run EXCEPT ![e] = w]
      BY <2>1, <2>5, <2>6 DEF MovedOn
    <2>10. UNCHANGED <<store, unlocked, page, draft, orphans, edits>> /\ faults' \in Nat
      BY <1>4 DEF Serve, LogInv, TypeOK
    <2> QED BY <1>3, <1>4, <2>1, <2>8, <2>9, <2>10
  <1>5. CASE ~BadBase(B) /\ ServeUnheard(e)
    <2>1. PICK f \in Orders(Applied(B)) : Commit(B, f)
      BY <1>5 DEF ServeUnheard
    <2>2. run' = [run EXCEPT ![e] = IdleRun] /\ faults' \in Nat
          /\ UNCHANGED <<store, unlocked, page, draft, orphans, edits>>
      BY <1>5, NumbersAssumption DEF ServeUnheard, LogInv, TypeOK
    <2>3. RunHoldsLog(IdleRun)'
      BY EmptyPushable DEF IdleRun, RunHoldsLog, InHand, Pushable
    <2> QED BY <1>3, <1>5, <2>1, <2>2, <2>3, PlaceholderTypes
  <1> QED BY <1>2, <1>4, <1>5

LEMMA SettleKeepsLog ==
    ASSUME LogInv, NEW e \in Engines, RequestFails(e) \/ StoreAcked(e) \/ DequeueAcked(e)
    PROVE  LogInv'
  <1> DEFINE d == Host(e)
  <1>0. d \in Devices
    BY HostType
  <1>s. /\ envelopes \in [Devices -> [Ids -> Envelope]] /\ outbox \in [Devices -> [Ids -> Entry]]
        /\ cursor \in [Devices -> Nat] /\ cache \in [Engines -> [Ids -> Nat]]
        /\ \A c \in Devices, r \in Ids :
               /\ outbox[c][r].rec = r /\ envelopes[c][r].rec = r
               /\ envelopes[c][r].v > 0 => envelopes[c][r] \in log
               /\ outbox[c][r].v <= records[r].v + 1
    BY DEF LogInv, TypeOK, StoresHoldLog
  <1>1. CASE RequestFails(e)
    <2>1. run' = [run EXCEPT ![e] = IdleRun] /\ faults' \in Nat
          /\ orphans' \subseteq orphans \cup {run[e].batch}
          /\ UNCHANGED <<server, store, unlocked, page, draft, edits>>
      BY <1>1 DEF RequestFails, LogInv, TypeOK
    <2>2. run[e].batch \in SUBSET Entry /\ Pushable(run[e].batch)
      BY RunFacts DEF RunHoldsLog, Run
    <2>3. \A B \in orphans' : B \in SUBSET Entry /\ Pushable(B)
      BY <2>1, <2>2 DEF LogInv, TypeOK, ProcessesHoldLog
    <2>4. run' \in [Engines -> Run] /\ \A x \in Engines : RunHoldsLog(run'[x])
      BY <2>1, PlaceholderTypes DEF LogInv, TypeOK, ProcessesHoldLog
    <2>5. TypeOK'
      BY <2>1, <2>3, <2>4 DEF LogInv, TypeOK, server, store, page
    <2>6. LogIsLinear' /\ StoresHoldLog'
      BY <2>1 DEF LogInv, LogIsLinear, StoresHoldLog, server, store
    <2>7. /\ \A x \in Engines : RunHoldsLog(run[x])'
          /\ \A B \in orphans' : Pushable(B)'
      BY <2>1, <2>3, <2>4 DEF RunHoldsLog, Pushable, server
    <2>8. \A x \in Engines : draft'[x].base <= records'[draft'[x].rec].v
      BY <2>1 DEF LogInv, ProcessesHoldLog, server
    <2> QED BY <2>5, <2>6, <2>7, <2>8 DEF LogInv, ProcessesHoldLog
  <1>2. CASE StoreAcked(e)
    <2>1. PICK x \in run[e].acks :
             /\ envelopes' = [envelopes EXCEPT ![d][x.rec] = PutEnvelope(@, x)]
             /\ run' = [run EXCEPT ![e].pc = "acked", ![e].remote = x]
      BY <1>2 DEF StoreAcked
    <2> DEFINE u == [run[e] EXCEPT !.pc = "acked", !.remote = x]
               new == PutEnvelope(envelopes[d][x.rec], x)
    <2>2. x \in log /\ x \in Envelope /\ x.rec \in Ids
      BY RunFacts DEF RunHoldsLog, LogInv, TypeOK, Envelope
    <2>3. u \in Run /\ RunHoldsLog(u)
      BY <2>2, RunFacts DEF Run, RunHoldsLog
    <2>4. run' = [run EXCEPT ![e] = u]
      BY <2>1 DEF LogInv, TypeOK, Run
    <2>5. new \in Envelope /\ new.rec = x.rec /\ (new.v > 0 => new \in log)
      BY <1>0, <1>s, <2>2 DEF PutEnvelope
    <2>6. UNCHANGED <<server, outbox, cursor, unlocked, mounted, cache, hydrating, draft,
                      orphans, faults, edits>>
      BY <1>2 DEF StoreAcked, page
    <2>7. envelopes' = [envelopes EXCEPT ![d][x.rec] = new]
      BY <2>1
    <2> HIDE DEF new, u
    <2>8. envelopes' \in [Devices -> [Ids -> Envelope]]
      BY <1>s, <2>5, <2>7
    <2>9. \A c \in Devices, r \in Ids :
             /\ outbox'[c][r].rec = r /\ envelopes'[c][r].rec = r
             /\ envelopes'[c][r].v > 0 => envelopes'[c][r] \in log
             /\ outbox'[c][r].v <= records[r].v + 1
      <3>1. ASSUME NEW c \in Devices, NEW r \in Ids
            PROVE  envelopes'[c][r] = IF c = d /\ r = x.rec THEN new ELSE envelopes[c][r]
        BY <1>s, <2>7
      <3> QED BY <1>s, <2>5, <2>6, <3>1
    <2> QED BY <1>s, <2>3, <2>4, <2>6, <2>8, <2>9, StoreRunStep
  <1>3. CASE DequeueAcked(e)
    <2> DEFINE x == run[e].remote
               u == [run[e] EXCEPT !.acks = @ \ {x}, !.remote = Blank(AnId)]
               new == Dequeued(outbox[d][x.rec], x.v)
    <2>1. x \in log /\ x \in Envelope /\ x.rec \in Ids
      BY <1>3, RunFacts DEF DequeueAcked, InHand, Envelope
    <2>2. u \in Run /\ HoldsLog(u)
      BY RunFacts, PlaceholderTypes DEF HoldsLog, Run
    <2>3. AfterAcks(u) \in Run /\ RunHoldsLog(AfterAcks(u))
      BY <2>2, AfterAcksMoves, MovedOnHolds
    <2>4. run' = [run EXCEPT ![e] = AfterAcks(u)] /\ outbox' = [outbox EXCEPT ![d][x.rec] = new]
      BY <1>3 DEF DequeueAcked
    <2>5. records[x.rec].v \in Nat /\ outbox[d][x.rec] \in Entry
      BY <1>0, <1>s, <2>1 DEF LogInv, TypeOK, Envelope
    <2>6. new \in Entry /\ new.rec = x.rec /\ new.v <= records[x.rec].v + 1
      BY <1>0, <1>s, <2>1, <2>5 DEF Dequeued, NoEntry, Entry
    <2>7. UNCHANGED <<server, envelopes, cursor, unlocked, mounted, cache, hydrating, draft,
                      orphans, faults, edits>>
      BY <1>3 DEF DequeueAcked, page
    <2> HIDE DEF new, u
    <2>8. outbox' \in [Devices -> [Ids -> Entry]]
      BY <1>s, <2>4, <2>6
    <2>9. \A c \in Devices, r \in Ids :
             /\ outbox'[c][r].rec = r /\ envelopes'[c][r].rec = r
             /\ envelopes'[c][r].v > 0 => envelopes'[c][r] \in log
             /\ outbox'[c][r].v <= records[r].v + 1
      <3>1. ASSUME NEW c \in Devices, NEW r \in Ids
            PROVE  outbox'[c][r] = IF c = d /\ r = x.rec THEN new ELSE outbox[c][r]
        BY <1>s, <2>4
      <3> QED BY <1>s, <2>6, <2>7, <3>1
    <2> QED BY <1>s, <2>3, <2>4, <2>7, <2>8, <2>9, StoreRunStep
  <1> QED BY <1>1, <1>2, <1>3

------------------------------------------------------------------------------
(* Theorems *)

LEMMA LogNext == LogInv /\ [Next]_vars => LogInv'
  <1> SUFFICES ASSUME LogInv, [Next]_vars PROVE LogInv'
    OBVIOUS
  <1>1. CASE UNCHANGED vars
    <2>1. TypeOK'
      BY <1>1 DEF LogInv, TypeOK, vars, server, store, page
    <2> QED BY <1>1, <2>1, PageStepKeeps DEF LogInv, vars
  <1>2. ASSUME NEW t \in Tabs, Unlock(t) \/ Lock(t) \/ Reload(t) PROVE LogInv'
    BY <1>2, SessionKeepsLog
  <1>3. ASSUME NEW e \in Engines, NEW r \in Ids, Write(e, r) PROVE LogInv'
    BY <1>3, EditKeepsLog
  <1>4. ASSUME NEW e \in Engines,
               Hydrate(e) \/ Edited(e) \/ StartRun(e) \/ RunStep(e) \/ Fault(e)
        PROVE  LogInv'
    BY <1>4, HydrateKeepsLog, EditKeepsLog, PullKeepsLog, ReceiveKeepsLog,
       SendKeepsLog, ServeKeepsLog, SettleKeepsLog DEF RunStep, Fault
  <1>5. ASSUME NEW B \in orphans, ServeOrphan(B) PROVE LogInv'
    BY <1>5, OrphanKeepsLog
  <1> QED BY <1>1, <1>2, <1>3, <1>4, <1>5 DEF Next

(* LogInv is an invariant: what runs, stores and queues hold is of the log. *)
THEOREM LogInvariant == Spec => []LogInv
  BY LogInit, LogNext, PTL DEF Spec

(* Every variable keeps its type, for every instance.                       *)
THEOREM TypeCorrect == Spec => []TypeOK
  <1>1. LogInv => TypeOK
    BY DEF LogInv
  <1> QED BY <1>1, LogInvariant, PTL

(* No fork on the server, no envelope on a device that is not of its log    *)
(* (records-push.ts under the row lock; engine.ts storing its own pushes).  *)
THEOREM StoreIsLogHolds == Spec => []StoreIsLog
  <1>1. LogInv => StoreIsLog
    BY DEF LogInv, LogIsLinear, StoresHoldLog, StoreIsLog
  <1> QED BY <1>1, LogInvariant, PTL

(* No edit is queued or pushed on a base the server never had, so its 400   *)
(* for such a push (records-push.ts) is never met.                          *)
THEOREM BuiltOnHistoryHolds == Spec => []BuiltOnHistory
  <1>1. LogInv => BuiltOnHistory
    BY DEF LogInv, StoresHoldLog, ProcessesHoldLog, RunHoldsLog, Pushable, BuiltOnHistory
  <1> QED BY <1>1, LogInvariant, PTL
------------------------------------------------------------------------------
(* A version only replaces one its author's device had, or one that is not  *)
(* the later write, whatever the clocks.                                    *)

LEMMA InFlightIs ==
    \A y : y \in InFlight <=> \/ \E d \in Devices, r \in Ids : y = outbox[d][r]
                              \/ \E e \in Engines : y \in run[e].batch \cup run[e].unsent
                              \/ \E B \in orphans : y \in B
  <1> DEFINE queued == UNION {{outbox[d][r] : r \in Ids} : d \in Devices}
             sending == UNION {run[e].batch \cup run[e].unsent : e \in Engines}
  <1>1. \A y : y \in queued <=> \E d \in Devices, r \in Ids : y = outbox[d][r]
    OBVIOUS
  <1>2. \A y : y \in sending <=> \E e \in Engines : y \in run[e].batch \cup run[e].unsent
    OBVIOUS
  <1>3. InFlight = queued \cup sending \cup (UNION orphans)
    BY DEF InFlight
  <1> HIDE DEF queued, sending
  <1> QED BY <1>1, <1>2, <1>3

LEMMA InFlightNext ==
    \A y : y \in InFlight' <=> \/ \E d \in Devices, r \in Ids : y = outbox'[d][r]
                               \/ \E e \in Engines : y \in run'[e].batch \cup run'[e].unsent
                               \/ \E B \in orphans' : y \in B
  <1> DEFINE queued == UNION {{outbox'[d][r] : r \in Ids} : d \in Devices}
             sending == UNION {run'[e].batch \cup run'[e].unsent : e \in Engines}
  <1>1. \A y : y \in queued <=> \E d \in Devices, r \in Ids : y = outbox'[d][r]
    OBVIOUS
  <1>2. \A y : y \in sending <=> \E e \in Engines : y \in run'[e].batch \cup run'[e].unsent
    OBVIOUS
  <1>3. InFlight' = queued \cup sending \cup (UNION orphans')
    BY DEF InFlight
  <1> HIDE DEF queued, sending
  <1> QED BY <1>1, <1>2, <1>3

LEMMA InFlightBuilt ==
    ASSUME LogInv, NEW y \in InFlight
    PROVE  y \in Entry /\ y.v <= records[y.rec].v + 1
  <1>1. CASE \E d \in Devices, r \in Ids : y = outbox[d][r]
    BY <1>1 DEF LogInv, TypeOK, StoresHoldLog
  <1>2. ASSUME NEW e \in Engines, y \in run[e].batch \cup run[e].unsent
        PROVE  y \in Entry /\ y.v <= records[y.rec].v + 1
    BY <1>2, RunFacts DEF RunHoldsLog, Pushable, Run
  <1>3. CASE \E B \in orphans : y \in B
    BY <1>3 DEF LogInv, TypeOK, ProcessesHoldLog, Pushable
  <1> QED BY <1>1, <1>2, <1>3, InFlightIs

------------------------------------------------------------------------------
(* History only grows *)

LogGrows == /\ log \subseteq log'
            /\ \A x \in log' \ log : x.v = records[x.rec].v + 1

EditsGrow == /\ Len(edits) \in Nat /\ Len(edits') \in Nat /\ Len(edits) <= Len(edits')
             /\ \A i \in 1 .. Len(edits) : edits'[i] = edits[i]

LEMMA Unchanged == TypeOK /\ UNCHANGED <<log, edits>> => LogGrows /\ EditsGrow
  BY DEF TypeOK, LogGrows, EditsGrow

(* What could follow the log still can: no version it follows is added.     *)
LEMMA FollowsKept ==
    ASSUME FollowInv, LogInv', LogGrows, EditsGrow,
           NEW y \in Entry, y.v <= records[y.rec].v + 1, EntryFollows(y)
    PROVE  EntryFollows(y)'
  <1> SUFFICES ASSUME y.v > 0 PROVE Known(y.e)' /\ \A x \in log' : MayFollow(y, x)'
    BY DEF EntryFollows
  <1>1. Known(y.e) /\ y.e \in 1 .. Len(edits) /\ edits'[y.e] = edits[y.e] /\ y.v \in Nat
    BY DEF EntryFollows, Known, EditsGrow, Entry
  <1>2. Known(y.e)'
    BY <1>1 DEF Known, EditsGrow
  <1>3. ASSUME NEW x \in log' PROVE MayFollow(y, x)'
    <2>1. CASE x \in log
      <3>1. MayFollow(y, x) /\ edits'[x.e] = edits[x.e]
        BY <2>1 DEF EntryFollows, FollowInv, Known, EditsGrow
      <3> QED BY <1>1, <3>1 DEF MayFollow, Later
    <2>2. CASE x \notin log
      <3>1. x.v = records[x.rec].v + 1 /\ x \in Envelope
        BY <2>2 DEF LogGrows, LogInv, TypeOK
      <3>2. records[x.rec].v \in Nat
        BY <3>1 DEF FollowInv, LogInv, TypeOK, Envelope
      <3>3. ~(y.rec = x.rec /\ y.v = x.v + 1)
        BY <1>1, <3>1, <3>2
      <3> QED BY <3>3 DEF MayFollow
    <2> QED BY <2>1, <2>2
  <1> QED BY <1>2, <1>3

(* A step keeps the invariant if it commits only what was in flight, puts   *)
(* nothing in flight that may not follow, and merges a known edit.          *)
LEMMA FollowStep ==
    ASSUME FollowInv, LogInv', LogGrows, EditsGrow,
           \A x \in log' \ log :
               \E y \in InFlight : y.rec = x.rec /\ y.v = x.v /\ y.e = x.e,
           \A y \in InFlight' : y \in InFlight \/ y.v = 0 \/ EntryFollows(y)',
           \A e \in Engines : run'[e].pc = "merge" =>
               \/ run[e].pc = "merge" /\ run'[e].pending = run[e].pending
               \/ Known(run'[e].pending.e)
    PROVE  FollowInv'
  <1>1. ASSUME NEW y \in InFlight PROVE y \in Entry /\ EntryFollows(y)'
    BY InFlightBuilt, FollowsKept DEF FollowInv
  <1>2. \A y \in InFlight' : EntryFollows(y)'
    <2> TAKE y \in InFlight'
    <2>1. CASE y \in InFlight
      BY <1>1, <2>1
    <2>2. CASE y.v = 0
      BY <2>2 DEF EntryFollows
    <2> QED BY <2>1, <2>2
  <1>3. \A i : Known(i) => Known(i)'
    BY DEF Known, EditsGrow
  <1>4. \A x \in log' \ log : /\ x.v > 0
                              /\ \E y \in InFlight : /\ y.rec = x.rec /\ y.v = x.v /\ y.e = x.e
                                                     /\ EntryFollows(y)'
    BY <1>1 DEF LogInv, LogIsLinear
  <1>5. \A x \in log' : Known(x.e)'
    <2> TAKE x \in log'
    <2>1. CASE x \in log
      BY <1>3, <2>1 DEF FollowInv
    <2>2. CASE x \notin log
      BY <1>4, <2>2 DEF EntryFollows
    <2> QED BY <2>1, <2>2
  <1>6. OverwritesSeenOrEarlier'
    <2> SUFFICES ASSUME NEW x \in log', NEW y \in log', x.rec = y.rec, y.v = x.v + 1
                 PROVE  edits'[y.e].base >= x.v \/ ~Later(x.e, y.e)'
      BY DEF OverwritesSeenOrEarlier
    <2>1. CASE y \notin log
      <3>1. PICK z \in InFlight : z.rec = y.rec /\ z.v = y.v /\ z.e = y.e /\ EntryFollows(z)'
        BY <1>4, <2>1
      <3>2. z.v > 0
        BY <1>4, <2>1, <3>1
      <3>3. MayFollow(z, x)'
        BY <3>1, <3>2 DEF EntryFollows
      <3> QED BY <3>1, <3>3 DEF MayFollow, Later
    <2>2. CASE y \in log /\ x \notin log
      <3>1. x.v = records[x.rec].v + 1 /\ x \in Envelope
        BY <2>2 DEF LogGrows, LogInv, TypeOK
      <3>2. y \in Envelope /\ y.v <= records[y.rec].v /\ records[x.rec].v \in Nat
        BY <2>2, <3>1 DEF FollowInv, LogInv, TypeOK, LogIsLinear, Envelope
      <3> QED BY <3>1, <3>2 DEF Envelope
    <2>3. CASE y \in log /\ x \in log
      <3>1. edits'[x.e] = edits[x.e] /\ edits'[y.e] = edits[y.e]
        BY <2>3 DEF FollowInv, Known, EditsGrow
      <3>2. edits[y.e].base >= x.v \/ ~Later(x.e, y.e)
        BY <2>3 DEF FollowInv, OverwritesSeenOrEarlier
      <3> QED BY <3>1, <3>2 DEF Later
    <2> QED BY <2>1, <2>2, <2>3
  <1>7. \A e \in Engines : run'[e].pc = "merge" => run'[e].pending.e \in 1 .. Len(edits')
    <2> SUFFICES ASSUME NEW e \in Engines, run'[e].pc = "merge"
                 PROVE  run'[e].pending.e \in 1 .. Len(edits')
      OBVIOUS
    <2>1. run'[e].pending.e \in 1 .. Len(edits)
      BY DEF FollowInv, Known
    <2> QED BY <2>1 DEF EditsGrow
  <1> QED BY <1>2, <1>5, <1>6, <1>7 DEF FollowInv, Known
------------------------------------------------------------------------------
(* Steps *)

LEMMA FollowInit == Init => FollowInv
  <1> SUFFICES ASSUME Init PROVE FollowInv OBVIOUS
  <1>1. OverwritesSeenOrEarlier /\ \A x \in log : Known(x.e)
    BY DEF Init, OverwritesSeenOrEarlier
  <1>2. \A y \in InFlight : y.v = 0
    <2>1. /\ \A d \in Devices, r \in Ids : outbox[d][r].v = 0
          /\ \A e \in Engines : run[e].batch = {} /\ run[e].unsent = {}
          /\ orphans = {}
      BY DEF Init, NoEntry, IdleRun
    <2> QED BY <2>1, InFlightIs
  <1>3. \A e \in Engines : run[e].pc # "merge"
    BY DEF Init, IdleRun
  <1> QED BY <1>1, <1>2, <1>3, LogInit DEF FollowInv, EntryFollows

(* Entries leave the queue, move into a push or from a push to an orphan.   *)
OnlyMoves ==
    /\ UNCHANGED <<log, edits>>
    /\ \A d \in Devices, r \in Ids : outbox'[d][r] = outbox[d][r] \/ outbox'[d][r].v = 0
    /\ \A B \in orphans' : B \in orphans \/ \E e \in Engines : B = run[e].batch

LEMMA MovesKeepFollow ==
    ASSUME FollowInv, LogInv', OnlyMoves,
           \A e \in Engines :
              /\ \A y \in run'[e].batch \cup run'[e].unsent : y \in InFlight \/ y.v = 0
              /\ run'[e].pc = "merge" => \/ run[e].pc = "merge" /\ run'[e].pending = run[e].pending
                                         \/ Known(run'[e].pending.e)
    PROVE  FollowInv'
  <1>1. LogGrows /\ EditsGrow
    BY Unchanged DEF OnlyMoves, FollowInv, LogInv
  <1>2. \A y \in InFlight' : y \in InFlight \/ y.v = 0
    <2> TAKE y \in InFlight'
    <2>1. CASE \E d \in Devices, r \in Ids : y = outbox'[d][r]
      BY <2>1, InFlightIs DEF OnlyMoves
    <2>2. CASE \E e \in Engines : y \in run'[e].batch \cup run'[e].unsent
      BY <2>2
    <2>3. CASE \E B \in orphans' : y \in B
      BY <2>3, InFlightIs DEF OnlyMoves
    <2> QED BY <2>1, <2>2, <2>3, InFlightNext
  <1>3. log' \ log = {}
    BY DEF OnlyMoves
  <1> QED BY <1>1, <1>2, <1>3, FollowStep

LEMMA RunKeepsFollow ==
    ASSUME FollowInv, LogInv', OnlyMoves, NEW e \in Engines, NEW w,
           run' = [run EXCEPT ![e] = w],
           \A y \in w.batch \cup w.unsent : y \in InFlight \/ y.v = 0,
           w.pc = "merge" => Known(w.pending.e)
    PROVE  FollowInv'
  <1>1. \A x \in Engines : run'[x] = IF x = e THEN w ELSE run[x]
    BY DEF FollowInv, LogInv, TypeOK
  <1>2. \A x \in Engines : \A y \in run[x].batch \cup run[x].unsent : y \in InFlight
    BY InFlightIs
  <1> QED BY <1>1, <1>2, MovesKeepFollow

LEMMA PagesKeepFollow ==
    ASSUME FollowInv, LogInv',
           \/ \E t \in Tabs : Unlock(t) \/ Lock(t) \/ Reload(t)
           \/ \E e \in Engines : Hydrate(e) \/ RefuseEdit(e) \/ \E r \in Ids : Write(e, r)
    PROVE  FollowInv'
  <1>1. CASE \E t \in Tabs : Reload(t)
    <2>1. OnlyMoves
      BY <1>1 DEF Reload, InTab, OnlyMoves, server, store
    <2>2. \A e \in Engines : run'[e] = run[e] \/ run'[e] = IdleRun
      BY <1>1 DEF Reload
    <2>3. \A e \in Engines : \A y \in run[e].batch \cup run[e].unsent : y \in InFlight
      BY InFlightIs
    <2>4. IdleRun.batch = {} /\ IdleRun.unsent = {} /\ IdleRun.pc # "merge"
      BY DEF IdleRun
    <2> QED BY <2>1, <2>2, <2>3, <2>4, MovesKeepFollow
  <1>2. CASE run' = run /\ OnlyMoves
    <2>1. \A e \in Engines : \A y \in run[e].batch \cup run[e].unsent : y \in InFlight
      BY InFlightIs
    <2> QED BY <1>2, <2>1, MovesKeepFollow
  <1> QED BY <1>1, <1>2 DEF Unlock, Lock, Hydrate, HydrateEnvelopes, HydrateOutbox,
                            HydrateShow, RefuseEdit, Write, OnlyMoves, server, store

(* A run's steps that put nothing new in flight.                            *)
LEMMA RunStepsKeepFollow ==
    ASSUME FollowInv, LogInv', NEW e \in Engines,
           \/ StartRun(e) \/ Pull(e) \/ Receive(e) \/ PutRemote(e) \/ PeekNone(e)
           \/ PeekStands(e) \/ PeekMerge(e) \/ MergeTheirs(e) \/ Received(e) \/ StopLocked(e)
           \/ PushRound(e) \/ Send(e) \/ RequestFails(e) \/ StoreAcked(e) \/ DequeueAcked(e)
    PROVE  FollowInv'
  <1> DEFINE u == run[e]
  <1>1. /\ u \in Run /\ Host(e) \in Devices
        /\ run \in [Engines -> Run] /\ run' \in [Engines -> Run]
        /\ outbox \in [Devices -> [Ids -> Entry]]
    BY RunFacts, HostType DEF FollowInv, LogInv, TypeOK
  <1>2. \A y \in u.batch \cup u.unsent : y \in InFlight
    BY InFlightIs
  <1>3. OnlyMoves
    <2>1. CASE MergeTheirs(e) \/ DequeueAcked(e)
      <3>1. PICK r \in Ids, v \in Nat :
               outbox' = [outbox EXCEPT ![Host(e)][r] = Dequeued(@, v)]
        BY <1>1, <2>1 DEF MergeTheirs, DequeueAcked, Run, Envelope, Entry
      <3>2. \A d \in Devices, q \in Ids : outbox'[d][q] = outbox[d][q] \/ outbox'[d][q].v = 0
        BY <1>1, <3>1 DEF Dequeued, NoEntry
      <3> QED BY <2>1, <3>2 DEF MergeTheirs, DequeueAcked, OnlyMoves, server
    <2>2. CASE RequestFails(e)
      BY <2>2 DEF RequestFails, OnlyMoves, server, store
    <2>3. CASE ~(MergeTheirs(e) \/ DequeueAcked(e) \/ RequestFails(e))
      BY <2>3 DEF StartRun, Pull, Receive, PutRemote, PeekNone, PeekStands, PeekMerge, Received,
                  StopLocked, PushRound, Send, StoreAcked, OnlyMoves, server, store
    <2> QED BY <2>1, <2>2, <2>3
  <1>4. PICK w : w = run'[e]
    OBVIOUS
  <1>5. /\ run' = [run EXCEPT ![e] = w]
        /\ \A y \in w.batch \cup w.unsent : y \in InFlight \/ y.v = 0
        /\ w.pc = "merge" => Known(w.pending.e)
    <2>1. run' = [run EXCEPT ![e] = w] /\ w \in Run
      BY <1>1, <1>4 DEF StartRun, Pull, Receive, PutRemote, PeekNone, PeekStands, PeekMerge,
                        MergeTheirs, Received, StopLocked, PushRound, Send, RequestFails,
                        StoreAcked, DequeueAcked
    <2>2. CASE StopLocked(e) \/ RequestFails(e)
      BY <1>1, <1>4, <2>2 DEF StopLocked, RequestFails, IdleRun
    <2>3. CASE StartRun(e) \/ PutRemote(e) \/ PeekNone(e) \/ PeekStands(e) \/ MergeTheirs(e)
      <3>1. w.batch = u.batch /\ w.unsent = u.unsent /\ w.pc # "merge"
        BY <1>1, <1>4, <2>3 DEF StartRun, PutRemote, PeekNone, PeekStands, MergeTheirs, Run
      <3> QED BY <1>2, <2>1, <3>1
    <2>4. CASE Receive(e) \/ StoreAcked(e)
      <3>1. w.batch = u.batch /\ w.unsent = u.unsent /\ w.pc # "merge"
        <4>1. CASE Receive(e)
          <5>1. PICK x \in u.inbox : run' = [run EXCEPT
                   ![e].remote = x,
                   ![e].pc = IF x.v < envelopes[Host(e)][x.rec].v THEN "received" ELSE "put"]
            BY <4>1 DEF Receive
          <5> QED BY <1>1, <1>4, <5>1 DEF Run
        <4>2. CASE StoreAcked(e)
          <5>1. PICK x \in u.acks : run' = [run EXCEPT ![e].pc = "acked", ![e].remote = x]
            BY <4>2 DEF StoreAcked
          <5> QED BY <1>1, <1>4, <5>1 DEF Run
        <4> QED BY <2>4, <4>1, <4>2
      <3> QED BY <1>2, <2>1, <3>1
    <2>5. CASE Pull(e) \/ Received(e) \/ DequeueAcked(e)
      <3>1. \E v \in Run : /\ v.batch = u.batch /\ v.unsent = u.unsent
                           /\ w = AfterInbox(v) \/ w = AfterAcks(v)
        <4>1. CASE Pull(e)
          <5> DEFINE got == Page(cursor[Host(e)])
                     v == [u EXCEPT !.inbox = got, !.full = (Cardinality(got) = PullPage)]
          <5>1. got \subseteq Envelope
            BY DEF Page, Newer, FollowInv, LogInv, TypeOK
          <5>2. v \in Run /\ v.batch = u.batch /\ v.unsent = u.unsent
            BY <1>1, <5>1 DEF Run
          <5>3. w = AfterInbox(v)
            BY <1>1, <1>4, <4>1 DEF Pull
          <5> QED BY <5>2, <5>3
        <4>2. CASE Received(e)
          <5> DEFINE v == [u EXCEPT !.inbox = @ \ {u.remote}, !.remote = Blank(AnId),
                                    !.pending = NoEntry(AnId)]
          <5>1. v \in Run /\ v.batch = u.batch /\ v.unsent = u.unsent
            BY <1>1, PlaceholderTypes DEF Run
          <5>2. w = AfterInbox(v)
            BY <1>1, <1>4, <4>2 DEF Received
          <5> QED BY <5>1, <5>2
        <4>3. CASE DequeueAcked(e)
          <5> DEFINE v == [u EXCEPT !.acks = @ \ {u.remote}, !.remote = Blank(AnId)]
          <5>1. v \in Run /\ v.batch = u.batch /\ v.unsent = u.unsent
            BY <1>1, PlaceholderTypes DEF Run
          <5>2. w = AfterAcks(v)
            BY <1>1, <1>4, <4>3 DEF DequeueAcked
          <5> QED BY <5>1, <5>2
        <4> QED BY <2>5, <4>1, <4>2, <4>3
      <3>2. /\ w.batch = u.batch \/ w.batch = {}
            /\ w.unsent = u.unsent /\ w.pc # "merge"
        BY <3>1, AfterInboxMoves, AfterAcksMoves DEF MovedOn, InHand
      <3> QED BY <1>2, <2>1, <3>2
    <2>6. CASE PeekMerge(e)
      <3>1. /\ w.batch = u.batch /\ w.unsent = u.unsent /\ w.pending = Seen(e)
            /\ Seen(e).v > 0
        BY <1>1, <1>4, <2>6 DEF PeekMerge, Run
      <3>2. Seen(e) \in InFlight
        BY <1>1, InFlightIs DEF Seen, Run, Envelope
      <3> QED BY <1>2, <2>1, <3>1, <3>2 DEF FollowInv, EntryFollows
    <2>7. CASE PushRound(e)
      <3>1. \/ w = IdleRun
            \/ /\ w.batch = u.batch /\ w.pc = "send"
               /\ w.unsent \subseteq {outbox[Host(e)][r] : r \in Ids}
        BY <1>1, <1>4, <2>7 DEF PushRound, Run
      <3>2. \A r \in Ids : outbox[Host(e)][r] \in InFlight
        BY <1>1, InFlightIs
      <3> QED BY <1>2, <2>1, <3>1, <3>2 DEF IdleRun
    <2>8. CASE Send(e)
      <3>1. PICK B \in SUBSET u.unsent :
               run' = [run EXCEPT ![e].pc = "sent", ![e].batch = B, ![e].unsent = u.unsent \ B]
        BY <2>8 DEF Send
      <3> QED BY <1>1, <1>2, <1>4, <2>1, <3>1 DEF Run
    <2> QED BY <2>2, <2>3, <2>4, <2>5, <2>6, <2>7, <2>8
  <1> QED BY <1>3, <1>5, RunKeepsFollow
LEMMA ServeKeepsFollow ==
    ASSUME FollowInv, LogInv', 
           \/ \E e \in Engines : Serve(e) \/ ServeUnheard(e)
           \/ \E B \in orphans : ServeOrphan(B)
    PROVE  FollowInv'
  <1>1. /\ outbox' = outbox /\ edits' = edits
        /\ \A B \in orphans' : B \in orphans
    BY DEF Serve, ServeUnheard, ServeOrphan, store
  <1> DEFINE RunsLoseOnly ==
                \A e \in Engines :
                   /\ run'[e].batch \cup run'[e].unsent \subseteq run[e].batch \cup run[e].unsent
                   /\ run'[e].pc = "merge" => run'[e] = run[e]
             CommitsInFlight ==
                /\ LogGrows
                /\ \A x \in log' \ log :
                      \E y \in InFlight : y.rec = x.rec /\ y.v = x.v /\ y.e = x.e
  <1>2. RunsLoseOnly
    <2>1. \A e \in Engines : /\ run[e] \in Run /\ run[e].batch \in SUBSET Entry
                             /\ Pushable(run[e].batch) /\ run \in [Engines -> Run]
      BY RunFacts DEF FollowInv, LogInv, TypeOK, HoldsLog, Run
    <2>2. ASSUME NEW e \in Engines, NEW w, run' = [run EXCEPT ![e] = w],
                 w.batch \cup w.unsent \subseteq run[e].batch \cup run[e].unsent, w.pc # "merge"
          PROVE  RunsLoseOnly
      BY <2>1, <2>2
    <2>3. IdleRun.batch \cup IdleRun.unsent = {} /\ IdleRun.pc # "merge"
      BY DEF IdleRun
    <2>4. ASSUME NEW e \in Engines, Serve(e), ~BadBase(run[e].batch) PROVE RunsLoseOnly
      <3> DEFINE B == run[e].batch
      <3>1. PICK f \in Orders(Applied(B)) :
               /\ Commit(B, f)
               /\ run' = [run EXCEPT ![e] = AfterAcks([run[e] EXCEPT
                     !.acks = Committed(Applied(B), f), !.inbox = Conflicts(B)])]
        BY <2>4 DEF Serve
      <3> DEFINE u == [run[e] EXCEPT !.acks = Committed(Applied(B), f), !.inbox = Conflicts(B)]
      <3>2. /\ Committed(Applied(B), f) \subseteq log' /\ log' \subseteq Envelope
            /\ Conflicts(B) \subseteq log /\ log \subseteq Envelope
        BY <2>1, <2>4, <3>1, CommitFacts DEF FollowInv, LogInv, TypeOK
      <3>3. u \in Run /\ u.batch = B /\ u.unsent = run[e].unsent
        BY <2>1, <3>2 DEF Run
      <3>4. /\ AfterAcks(u).batch \cup AfterAcks(u).unsent \subseteq run[e].batch \cup run[e].unsent
            /\ AfterAcks(u).pc # "merge"
        BY <3>3, AfterAcksMoves DEF MovedOn, InHand
      <3> QED BY <2>2, <3>1, <3>4
    <2> QED BY <2>2, <2>3, <2>4 DEF Serve, ServeUnheard, ServeOrphan
  <1>3. \A y \in InFlight' : y \in InFlight
    <2> TAKE y \in InFlight'
    <2>1. CASE \E d \in Devices, r \in Ids : y = outbox'[d][r]
      BY <1>1, <2>1, InFlightIs
    <2>2. CASE \E e \in Engines : y \in run'[e].batch \cup run'[e].unsent
      BY <1>2, <2>2, InFlightIs
    <2>3. CASE \E B \in orphans' : y \in B
      BY <1>1, <2>3, InFlightIs
    <2> QED BY <2>1, <2>2, <2>3, InFlightNext
  <1>4. CommitsInFlight
    <2>1. CASE UNCHANGED server
      BY <2>1 DEF LogGrows, server
    <2>2. ASSUME NEW B \in SUBSET Entry, B \subseteq InFlight, Pushable(B), ~BadBase(B),
                 NEW f \in Orders(Applied(B)), Commit(B, f)
          PROVE  CommitsInFlight
      BY <2>2, CommitFacts DEF LogGrows, FollowInv
    <2>3. ASSUME NEW e \in Engines, NEW f \in Orders(Applied(run[e].batch)),
                 Commit(run[e].batch, f), ~BadBase(run[e].batch)
          PROVE  CommitsInFlight
      <3>1. /\ run[e].batch \in SUBSET Entry /\ Pushable(run[e].batch)
            /\ run[e].batch \subseteq InFlight
        BY RunFacts, InFlightIs DEF FollowInv, HoldsLog, Run
      <3> QED BY <2>2, <2>3, <3>1
    <2>4. ASSUME NEW B \in orphans, NEW f \in Orders(Applied(B)), Commit(B, f), ~BadBase(B)
          PROVE  CommitsInFlight
      <3>1. B \in SUBSET Entry /\ Pushable(B) /\ B \subseteq InFlight
        BY InFlightIs DEF FollowInv, LogInv, TypeOK, ProcessesHoldLog
      <3> QED BY <2>2, <2>4, <3>1
    <2> QED BY <2>1, <2>3, <2>4 DEF Serve, ServeUnheard, ServeOrphan
  <1>5. EditsGrow
    BY <1>1 DEF EditsGrow, FollowInv, LogInv, TypeOK
  <1> QED BY <1>2, <1>3, <1>4, <1>5, FollowStep
(* What is queued follows the log, and everything else was in flight.       *)
LEMMA QueueKeepsFollow ==
    ASSUME FollowInv, LogInv', EditsGrow, UNCHANGED <<log, orphans>>,
           NEW d \in Devices, NEW y \in Entry, outbox' = Queued(d, y.rec, y.v, y.e),
           EntryFollows(y)',
           \A e \in Engines : /\ run'[e].batch = run[e].batch /\ run'[e].unsent = run[e].unsent
                              /\ run'[e].pc = "merge" => run'[e] = run[e]
    PROVE  FollowInv'
  <1>1. LogGrows /\ log' \ log = {}
    BY DEF LogGrows
  <1>2. \A z \in InFlight' : z \in InFlight \/ z = y
    <2> TAKE z \in InFlight'
    <2>1. CASE \E c \in Devices, r \in Ids : z = outbox'[c][r]
      <3>1. y = [rec |-> y.rec, v |-> y.v, e |-> y.e]
        BY DEF Entry
      <3>2. \A c \in Devices, r \in Ids : outbox'[c][r] = outbox[c][r] \/ outbox'[c][r] = y
        BY <3>1 DEF Queued, FollowInv, LogInv, TypeOK
      <3> QED BY <2>1, <3>2, InFlightIs
    <2>2. CASE \E e \in Engines : z \in run'[e].batch \cup run'[e].unsent
      BY <2>2, InFlightIs
    <2>3. CASE \E B \in orphans' : z \in B
      BY <2>3, InFlightIs
    <2> QED BY <2>1, <2>2, <2>3, InFlightNext
  <1> QED BY <1>1, <1>2, FollowStep

LEMMA EditKeepsFollow ==
    ASSUME FollowInv, LogInv', NEW e \in Engines, QueueEdit(e)
    PROVE  FollowInv'
  <1> DEFINE w == draft[e]
             d == Host(e)
             n == Len(edits) + 1
             new == [rec |-> w.rec, at |-> w.at, by |-> AuthorOf[d],
                     del |-> w.del, dev |-> d, base |-> w.base]
  <1>1. /\ w \in Draft /\ d \in Devices /\ AuthorOf[d] \in Nat
        /\ edits \in Seq(Edit) /\ run \in [Engines -> Run]
    BY HostType, PlacesAssumption DEF FollowInv, LogInv, TypeOK
  <1>2. edits' = Append(edits, new) /\ new \in Edit /\ w.base \in Nat
    BY <1>1 DEF QueueEdit, Draft, Edit
  <1>3. EditsGrow /\ n \in 1 .. Len(edits') /\ edits'[n] = new /\ n \in Nat
    BY <1>1, <1>2 DEF EditsGrow
  <1>4. PICK y \in Entry : y = [rec |-> w.rec, v |-> w.base + 1, e |-> n]
    <2>1. w.rec \in Ids /\ w.base + 1 \in Nat /\ n \in Nat
      BY <1>1, <1>2, <1>3 DEF Draft
    <2>2. [rec |-> w.rec, v |-> w.base + 1, e |-> n] \in Entry
      BY <2>1 DEF Entry
    <2> QED BY <2>2
  <1>5. EntryFollows(y)'
    <2>1. edits'[y.e].base = w.base /\ Known(y.e)'
      BY <1>3, <1>4 DEF Known
    <2>2. ASSUME NEW x \in log', y.v = x.v + 1 PROVE edits'[y.e].base >= x.v
      <3>1. x.v \in Nat
        BY DEF LogInv, TypeOK, Envelope
      <3> QED BY <1>2, <1>4, <2>1, <2>2, <3>1
    <2> QED BY <2>1, <2>2 DEF EntryFollows, MayFollow
  <1>6. /\ outbox' = Queued(d, y.rec, y.v, y.e) /\ UNCHANGED <<log, orphans>>
        /\ run' = [run EXCEPT ![e].pc = IF @ = "idle" THEN "pull" ELSE @]
    BY <1>4 DEF QueueEdit, server
  <1>7. \A x \in Engines : /\ run'[x].batch = run[x].batch /\ run'[x].unsent = run[x].unsent
                           /\ run'[x].pc = "merge" => run'[x] = run[x]
    <2>1. CASE run[e].pc = "idle"
      BY <1>1, <1>6, <2>1 DEF Run
    <2>2. CASE run[e].pc # "idle"
      BY <1>1, <1>6, <2>2 DEF Run
    <2> QED BY <2>1, <2>2
  <1> QED BY <1>1, <1>3, <1>5, <1>6, <1>7, QueueKeepsFollow

(* The winner of a merge is queued on the version it was compared with.     *)
LEMMA MergeKeepsFollow ==
    ASSUME FollowInv, LogInv', NEW e \in Engines, MergeMine(e)
    PROVE  FollowInv'
  <1> DEFINE x == run[e].remote
             p == run[e].pending
  <1>1. /\ x \in log /\ x \in Envelope /\ p \in Entry /\ Host(e) \in Devices
        /\ run \in [Engines -> Run] /\ Known(p.e)
    BY HostType, RunFacts DEF MergeMine, FollowInv, InHand, LogInv, TypeOK
  <1>2. PICK y \in Entry : y = [rec |-> x.rec, v |-> x.v + 1, e |-> p.e]
    <2>1. [rec |-> x.rec, v |-> x.v + 1, e |-> p.e] \in Entry
      BY <1>1 DEF Entry, Envelope
    <2> QED BY <2>1
  <1>3. ~Later(x.e, y.e) /\ UNCHANGED <<log, edits, orphans>>
    BY <1>2 DEF MergeMine, MineWins, server
  <1>4. EditsGrow
    BY <1>3, Unchanged DEF FollowInv, LogInv
  <1>5. EntryFollows(y)'
    <2>1. ASSUME NEW z \in log, y.rec = z.rec, y.v = z.v + 1 PROVE z = x
      <3>1. z.v \in Nat /\ x.v \in Nat
        BY <1>1 DEF FollowInv, LogInv, TypeOK, Envelope
      <3>2. z.v = x.v /\ z.rec = x.rec
        BY <1>2, <2>1, <3>1
      <3> QED BY <1>1, <3>2 DEF FollowInv, LogInv, LogIsLinear
    <2>2. Known(y.e)
      BY <1>1, <1>2
    <2> QED BY <1>3, <2>1, <2>2 DEF EntryFollows, MayFollow, Known, Later
  <1>6. /\ outbox' = Queued(Host(e), y.rec, y.v, y.e)
        /\ run' = [run EXCEPT ![e].pc = "received"]
    BY <1>2 DEF MergeMine
  <1>7. \A q \in Engines : /\ run'[q].batch = run[q].batch /\ run'[q].unsent = run[q].unsent
                           /\ run'[q].pc = "merge" => run'[q] = run[q]
    BY <1>1, <1>6 DEF Run
  <1> QED BY <1>1, <1>3, <1>4, <1>5, <1>6, <1>7, QueueKeepsFollow

------------------------------------------------------------------------------
(* Theorems *)

LEMMA FollowNext == FollowInv /\ [Next]_vars => FollowInv'
  <1> SUFFICES ASSUME FollowInv, [Next]_vars PROVE FollowInv'
    OBVIOUS
  <1>1. LogInv'
    BY LogNext DEF FollowInv
  <1>2. CASE UNCHANGED vars
    <2>1. \A e \in Engines : \A y \in run[e].batch \cup run[e].unsent : y \in InFlight
      BY InFlightIs
    <2>2. OnlyMoves /\ run' = run
      BY <1>2 DEF OnlyMoves, vars, server, store
    <2> QED BY <1>1, <2>1, <2>2, MovesKeepFollow
  <1>3. ASSUME NEW t \in Tabs, Unlock(t) \/ Lock(t) \/ Reload(t) PROVE FollowInv'
    BY <1>1, <1>3, PagesKeepFollow
  <1>4. ASSUME NEW e \in Engines, NEW r \in Ids, Write(e, r) PROVE FollowInv'
    BY <1>1, <1>4, PagesKeepFollow
  <1>5. ASSUME NEW e \in Engines, Hydrate(e) \/ Edited(e) \/ StartRun(e) PROVE FollowInv'
    BY <1>1, <1>5, PagesKeepFollow, EditKeepsFollow, RunStepsKeepFollow DEF Edited
  <1>6. ASSUME NEW e \in Engines, RunStep(e) PROVE FollowInv'
    BY <1>1, <1>6, RunStepsKeepFollow, MergeKeepsFollow, ServeKeepsFollow DEF RunStep, ReceiveStep
  <1>7. ASSUME NEW e \in Engines, Fault(e) PROVE FollowInv'
    BY <1>1, <1>7, RunStepsKeepFollow, ServeKeepsFollow DEF Fault
  <1>8. ASSUME NEW B \in orphans, ServeOrphan(B) PROVE FollowInv'
    BY <1>1, <1>8, ServeKeepsFollow
  <1> QED BY <1>2, <1>3, <1>4, <1>5, <1>6, <1>7, <1>8 DEF Next

(* A version replaces another only if its author's device held that one     *)
(* when the edit was made, or if its stamp is not the earlier one (engine.ts *)
(* receive(), lww.ts), through any number of merges and of racing devices.  *)
THEOREM OverwritesSeenOrEarlierHolds == Spec => []OverwritesSeenOrEarlier
  <1>1. FollowInv => OverwritesSeenOrEarlier
    BY DEF FollowInv
  <1> QED BY <1>1, FollowInit, FollowNext, PTL DEF Spec
------------------------------------------------------------------------------
(* The server and the devices' stores implement the one log of RecordLog: a *)
(* push that applies something is a Commit, an envelope newly stored a      *)
(* Learn, and every other step a stutter.                                   *)

LEMMA InitRefines == Init => Log!Init
  BY DEF Init, Log!Init, Blank, Log!Blank

(* One push transaction (records-push.ts) is one Commit, or changes nothing. *)
LEMMA CommitRefines ==
    ASSUME LogInv, NEW B \in SUBSET Entry, Pushable(B), ~BadBase(B),
           NEW f \in Orders(Applied(B)), Commit(B, f), UNCHANGED envelopes
    PROVE  [Log!Next]_Log!vars
  <1>1. /\ log \subseteq log' /\ LogIsLinear' /\ log' \subseteq Envelope
        /\ \A x \in log' \ log : x.v = records[x.rec].v + 1 /\ x.seq > recordSeq
    BY CommitFacts
  <1>2. CASE log' = log
    BY <1>2 DEF Log!vars
  <1>3. CASE log' # log
    <2> SUFFICES ASSUME NEW x \in log' \ log
                 PROVE  /\ \A y \in log' \ log : y.rec = x.rec \/ y.seq = x.seq => y = x
                        /\ \A y \in log : /\ y.seq < x.seq
                                          /\ y.rec = x.rec => y.v < x.v
                        /\ x.v = 1 \/ \E y \in log : y.rec = x.rec /\ y.v = x.v - 1
      BY <1>1, <1>3 DEF Log!Next, Log!Commit
    <2>1. /\ x \in Envelope /\ x.rec \in Ids /\ records[x.rec] \in Envelope /\ recordSeq \in Nat
          /\ x.v = records[x.rec].v + 1 /\ x.seq > recordSeq
      BY <1>1 DEF LogInv, TypeOK, Envelope
    <2>2. \A y \in log' \ log : y.rec = x.rec \/ y.seq = x.seq => y = x
      BY <1>1, <2>1 DEF LogIsLinear
    <2>3. ASSUME NEW y \in log PROVE y.seq < x.seq /\ (y.rec = x.rec => y.v < x.v)
      <3>1. y \in Envelope /\ y.v <= records[y.rec].v /\ y.seq <= recordSeq
        BY DEF LogInv, TypeOK, LogIsLinear
      <3> QED BY <2>1, <3>1 DEF Envelope
    <2>4. CASE records[x.rec].v > 0
      <3>1. records[x.rec] \in log /\ records[x.rec].rec = x.rec
        BY <2>1, <2>4 DEF LogInv, LogIsLinear
      <3>2. records[x.rec].v = x.v - 1
        BY <2>1 DEF Envelope
      <3> QED BY <2>2, <2>3, <3>1, <3>2
    <2>5. CASE records[x.rec].v = 0
      BY <2>1, <2>2, <2>3, <2>5 DEF Envelope
    <2> QED BY <2>1, <2>4, <2>5 DEF Envelope
  <1> QED BY <1>2, <1>3

(* Storing an envelope of the log is a Learn, or puts back what was there.  *)
LEMMA PutRefines ==
    ASSUME LogInv, NEW d \in Devices, NEW x \in log, UNCHANGED log,
           envelopes' = [envelopes EXCEPT ![d][x.rec] = PutEnvelope(@, x)]
    PROVE  [Log!Next]_Log!vars
  <1> DEFINE old == envelopes[d][x.rec]
  <1>1. /\ x \in Envelope /\ x.rec \in Ids /\ x.v > 0 /\ old \in Envelope /\ old.rec = x.rec
        /\ old.v > 0 => old \in log
        /\ envelopes \in [Devices -> [Ids -> Envelope]]
    BY DEF LogInv, TypeOK, LogIsLinear, StoresHoldLog, Envelope
  <1>2. CASE x.v > old.v
    <2>1. PutEnvelope(old, x) = x
      BY <1>1, <1>2 DEF PutEnvelope, Envelope
    <2>2. envelopes' = [envelopes EXCEPT ![d][x.rec] = x]
      BY <2>1
    <2>3. Log!Learn(d, x.rec)
      BY <1>2, <2>2 DEF Log!Learn
    <2> QED BY <1>1, <2>3 DEF Log!Next
  <1>3. CASE ~(x.v > old.v)
    <2>1. PutEnvelope(old, x) = old
      <3>1. PutEnvelope(old, x) = old \/ (PutEnvelope(old, x) = x /\ ~(old.v > x.v))
        BY DEF PutEnvelope
      <3>2. ASSUME ~(old.v > x.v) PROVE old = x
        <4>1. old.v \in Nat /\ x.v \in Nat
          BY <1>1 DEF Envelope
        <4>2. old.v = x.v
          BY <1>3, <3>2, <4>1
        <4> QED BY <1>1, <4>2 DEF LogInv, LogIsLinear
      <3> QED BY <3>1, <3>2
    <2>2. envelopes' = [envelopes EXCEPT ![d][x.rec] = old]
      BY <2>1
    <2>3. envelopes' = envelopes
      BY <1>1, <2>2
    <2> QED BY <2>3 DEF Log!vars
  <1> QED BY <1>2, <1>3

LEMMA StepRefines == LogInv /\ [Next]_vars => [Log!Next]_Log!vars
  <1> SUFFICES ASSUME LogInv, [Next]_vars PROVE [Log!Next]_Log!vars
    OBVIOUS
  <1>1. CASE UNCHANGED <<log, envelopes>>
    BY <1>1 DEF Log!vars
  <1>2. ASSUME NEW e \in Engines, Serve(e) \/ ServeUnheard(e) PROVE [Log!Next]_Log!vars
    <2>1. run[e].batch \in SUBSET Entry /\ Pushable(run[e].batch)
      BY RunFacts DEF HoldsLog, Run
    <2>2. CASE UNCHANGED server
      BY <1>1, <1>2, <2>2 DEF Serve, ServeUnheard, server, store
    <2>3. CASE ~UNCHANGED server
      BY <1>2, <2>1, <2>3, CommitRefines DEF Serve, ServeUnheard, store
    <2> QED BY <2>2, <2>3
  <1>3. ASSUME NEW B \in orphans, ServeOrphan(B) PROVE [Log!Next]_Log!vars
    <2>1. B \in SUBSET Entry /\ Pushable(B)
      BY DEF LogInv, TypeOK, ProcessesHoldLog
    <2>2. CASE UNCHANGED server
      BY <1>1, <1>3, <2>2 DEF ServeOrphan, server, store
    <2>3. CASE ~UNCHANGED server
      BY <1>3, <2>1, <2>3, CommitRefines DEF ServeOrphan, store
    <2> QED BY <2>2, <2>3
  <1>4. ASSUME NEW e \in Engines, PutRemote(e) \/ StoreAcked(e) PROVE [Log!Next]_Log!vars
    <2>1. Host(e) \in Devices /\ RunHoldsLog(run[e])
      BY HostType, RunFacts
    <2>2. CASE PutRemote(e)
      BY <2>1, <2>2, PutRefines DEF PutRemote, RunHoldsLog, InHand, server
    <2>3. CASE StoreAcked(e)
      BY <2>1, <2>3, PutRefines DEF StoreAcked, RunHoldsLog, server
    <2> QED BY <1>4, <2>2, <2>3
  <1>5. CASE UNCHANGED vars
    BY <1>1, <1>5 DEF vars, server, store
  <1>6. ASSUME NEW t \in Tabs, Unlock(t) \/ Lock(t) \/ Reload(t) PROVE [Log!Next]_Log!vars
    BY <1>1, <1>6 DEF Unlock, Lock, Reload, server, store
  <1>7. ASSUME NEW e \in Engines,
               \/ Hydrate(e) \/ Edited(e) \/ StartRun(e) \/ \E r \in Ids : Write(e, r)
        PROVE  [Log!Next]_Log!vars
    BY <1>1, <1>7 DEF Hydrate, HydrateEnvelopes, HydrateOutbox, HydrateShow, Edited, QueueEdit,
                      RefuseEdit, StartRun, Write, server, store
  <1>8. ASSUME NEW e \in Engines, RunStep(e) PROVE [Log!Next]_Log!vars
    <2>1. CASE Pull(e) \/ StopLocked(e) \/ PushRound(e) \/ Send(e) \/ DequeueAcked(e)
      BY <1>1, <2>1 DEF Pull, StopLocked, PushRound, Send, DequeueAcked, server, store
    <2>2. CASE ReceiveStep(e) /\ ~PutRemote(e)
      BY <1>1, <2>2 DEF ReceiveStep, Receive, PeekNone, PeekStands, PeekMerge, MergeMine,
                        MergeTheirs, Received, server, store
    <2> QED BY <1>2, <1>4, <1>8, <2>1, <2>2 DEF RunStep
  <1>9. ASSUME NEW e \in Engines, Fault(e) PROVE [Log!Next]_Log!vars
    BY <1>1, <1>2, <1>9 DEF Fault, RequestFails, server, store
  <1> QED BY <1>3, <1>5, <1>6, <1>7, <1>8, <1>9 DEF Next

(* Behind engines, queues, retries and lost answers there is one log, and   *)
(* each device's store is a copy of it that only ever moves forward.        *)
THEOREM Implements == Spec => ImplementsLog
  BY InitRefines, LogInvariant, StepRefines, PTL DEF Spec, ImplementsLog, Log!Spec

------------------------------------------------------------------------------
(***************************************************************************)
(* What a device holds and shows, for every instance. The pull cursor      *)
(* skips nothing: a page is the oldest part of what the device lacks, it    *)
(* is stored oldest first, and the cursor follows what is stored.          *)
(***************************************************************************)

(* Stores and rows only grow: what a step changes is newer than it was.     *)
Grown == /\ \A d \in Devices, r \in Ids : envelopes'[d][r].v >= envelopes[d][r].v
         /\ \A r \in Ids : records'[r] = records[r] \/ records'[r].seq > recordSeq
         /\ recordSeq' >= recordSeq

LEMMA Still == LogInv /\ UNCHANGED <<records, recordSeq, envelopes>> => Grown
  BY DEF Grown, LogInv, TypeOK, Envelope

(* An envelope takes the place of an older one only (local-store.ts, put).  *)
LEMMA PutGrows ==
    ASSUME LogInv, UNCHANGED <<records, recordSeq>>, NEW d \in Devices, NEW x \in Envelope,
           envelopes' = [envelopes EXCEPT ![d][x.rec] = PutEnvelope(@, x)]
    PROVE  Grown /\ envelopes'[d][x.rec].v >= x.v
  <1> DEFINE new == PutEnvelope(envelopes[d][x.rec], x)
  <1>1. /\ x.rec \in Ids /\ x.v \in Nat /\ envelopes \in [Devices -> [Ids -> Envelope]]
        /\ \A c \in Devices, r \in Ids : envelopes[c][r].v \in Nat
    BY DEF LogInv, TypeOK, Envelope
  <1>2. new.v >= x.v /\ new.v >= envelopes[d][x.rec].v
    BY <1>1 DEF PutEnvelope
  <1>3. envelopes' = [envelopes EXCEPT ![d][x.rec] = new]
    OBVIOUS
  <1> HIDE DEF new
  <1>4. /\ envelopes'[d][x.rec] = new
        /\ \A c \in Devices, r \in Ids :
              envelopes'[c][r] = envelopes[c][r] \/ (c = d /\ r = x.rec /\ envelopes'[c][r] = new)
    BY <1>1, <1>3
  <1>5. \A c \in Devices, r \in Ids : envelopes'[c][r].v >= envelopes[c][r].v
    BY <1>1, <1>2, <1>4
  <1>6. recordSeq \in Nat
    BY DEF LogInv, TypeOK
  <1> QED BY <1>2, <1>4, <1>5, <1>6 DEF Grown

------------------------------------------------------------------------------
(* What a step leaves alone stays covered *)

LEMMA StillCovers ==
    ASSUME LogInv, LogInv', Grown, NEW d \in Devices,
           NEW u \in Run, RunHoldsLog(u), RunCovers(d, u)
    PROVE  RunCovers(d, u)'
  <1>1. \A r \in Ids : /\ records[r] \in Envelope /\ records'[r] \in Envelope
                       /\ envelopes[d][r] \in Envelope /\ envelopes'[d][r] \in Envelope
    BY DEF LogInv, TypeOK
  <1>2. \A x \in u.inbox : x \in Envelope /\ x.seq <= recordSeq /\ recordSeq \in Nat
    BY DEF RunHoldsLog, LogInv, LogIsLinear, TypeOK
  <1>3. ASSUME NEW x \in u.inbox, u.batch = {} PROVE Covered(d, u.inbox, x.seq)'
    <2> SUFFICES ASSUME NEW r \in Ids, records'[r].v > 0, records'[r].seq <= x.seq
                 PROVE  envelopes'[d][r].v >= records'[r].v \/ records'[r] \in u.inbox
      BY DEF Covered
    <2>1. records'[r] = records[r]
      BY <1>1, <1>2 DEF Grown, Envelope
    <2>2. envelopes[d][r].v >= records[r].v \/ records[r] \in u.inbox
      BY <1>3, <2>1 DEF RunCovers, Covered
    <2> QED BY <1>1, <2>1, <2>2 DEF Grown, Envelope
  <1>4. ASSUME u.pc \in {"peek", "merge", "received"}
        PROVE  envelopes'[d][u.remote.rec].v >= u.remote.v
    <2>1. u.remote \in Envelope /\ envelopes[d][u.remote.rec].v >= u.remote.v
      BY <1>4 DEF Run, RunCovers
    <2> QED BY <1>1, <2>1 DEF Grown, Envelope
  <1> QED BY <1>3, <1>4 DEF RunCovers

LEMMA CursorStays ==
    ASSUME CursorInv, LogInv', Grown, cursor' = cursor
    PROVE  CursorSkipsNothing' /\ CursorsInRange'
  <1>1. /\ \A r \in Ids : records[r] \in Envelope /\ records'[r] \in Envelope
        /\ \A d \in Devices : cursor[d] \in Nat
        /\ \A d \in Devices, r \in Ids :
              envelopes[d][r] \in Envelope /\ envelopes'[d][r] \in Envelope
        /\ recordSeq \in Nat /\ recordSeq' \in Nat
    BY DEF CursorInv, LogInv, TypeOK
  <1>2. CursorsInRange'
    BY <1>1 DEF CursorInv, CursorsInRange, Grown
  <1>3. CursorSkipsNothing'
    <2> SUFFICES ASSUME NEW d \in Devices, NEW r \in Ids,
                        records'[r].v > 0, records'[r].seq <= cursor[d]
                 PROVE  envelopes'[d][r].v >= records'[r].v
      BY DEF CursorSkipsNothing
    <2>1. cursor[d] <= recordSeq
      BY DEF CursorInv, CursorsInRange
    <2>2. records'[r] = records[r]
      BY <1>1, <2>1 DEF Grown, Envelope
    <2> QED BY <1>1, <2>2 DEF CursorInv, CursorSkipsNothing, Grown, Envelope
  <1> QED BY <1>2, <1>3

LEMMA RunsStay ==
    ASSUME CursorInv, LogInv', Grown
    PROVE  \A e \in Engines : RunCovers(Host(e), run[e]) /\
              \A u \in Run : u = run[e] => RunCovers(Host(e), u)'
  <1> TAKE e \in Engines
  <1>1. run[e] \in Run /\ RunHoldsLog(run[e]) /\ RunCovers(Host(e), run[e])
    BY RunFacts DEF CursorInv, RunsCover
  <1>2. ASSUME NEW u \in Run, u = run[e] PROVE RunCovers(Host(e), u)'
    <2>1. RunHoldsLog(u) /\ RunCovers(Host(e), u)
      BY <1>1, <1>2
    <2> QED BY <2>1, HostType, StillCovers DEF CursorInv
  <1> QED BY <1>1, <1>2

(* A step of the runs in which each covers what it holds, or did not move.  *)
LEMMA RunsCoverNext ==
    ASSUME CursorInv, LogInv', Grown,
           \A e \in Engines :
               run'[e] = run[e] \/ \E w \in Run : w = run'[e] /\ RunCovers(Host(e), w)'
    PROVE  RunsCover'
  <1> SUFFICES ASSUME NEW e \in Engines PROVE RunCovers(Host(e), run[e])'
    BY DEF RunsCover
  <1>1. PICK w \in Run : w = run'[e] /\ RunCovers(Host(e), w)'
    <2>1. CASE run'[e] = run[e]
      BY <2>1, RunsStay, RunFacts DEF CursorInv
    <2> QED BY <2>1
  <1> QED BY <1>1 DEF RunCovers, Covered

LEMMA CursorStep ==
    ASSUME CursorInv, LogInv', Grown, cursor' = cursor,
           NEW e \in Engines, NEW w \in Run, run' = [run EXCEPT ![e] = w],
           RunCovers(Host(e), w)'
    PROVE  CursorInv'
  <1>1. \A x \in Engines : run'[x] = IF x = e THEN w ELSE run[x]
    BY DEF CursorInv, LogInv, TypeOK
  <1>2. RunsCover'
    BY <1>1, RunsCoverNext
  <1> QED BY <1>2, CursorStays DEF CursorInv

LEMMA CursorUntouched ==
    ASSUME CursorInv, LogInv', Grown, cursor' = cursor, run' = run
    PROVE  CursorInv'
  <1>1. RunsCover'
    BY RunsCoverNext
  <1> QED BY <1>1, CursorStays DEF CursorInv

(* A run that holds nothing of a page, nor of a push.                       *)
LEMMA EmptyCovers ==
    ASSUME NEW d, NEW w, w.inbox = {},
           w.pc \notin InHand \cup {"sent", "settle"}
    PROVE  RunCovers(d, w) /\ RunCovers(d, w)'
  BY DEF RunCovers, InHand

LEMMA IdleCovers == \A d : RunCovers(d, IdleRun) /\ RunCovers(d, IdleRun)'
  BY DEF RunCovers, IdleRun, InHand

(* A run whose loops have moved on covers what it still holds.              *)
LEMMA RestCovers ==
    ASSUME NEW d, NEW u \in Run, NEW w,
           w = AfterInbox(u) \/ (w = AfterAcks(u) /\ u.batch # {}),
           u.batch = {} => \A x \in u.inbox : Covered(d, u.inbox, x.seq)'
    PROVE  w \in Run /\ RunCovers(d, w)'
  <1>1. w \in Run /\ w.inbox = u.inbox /\ w.pc \notin InHand
        /\ (w.batch = u.batch \/ w.batch = {})
    BY AfterInboxMoves, AfterAcksMoves DEF MovedOn
  <1>2. /\ w.pc # "sent" /\ (w.pc = "settle" => w.batch # {})
        /\ w.batch = u.batch \/ w.inbox = {}
    <2>1. CASE w = AfterInbox(u)
      BY <2>1 DEF AfterInbox, Run
    <2>2. CASE w = AfterAcks(u) /\ u.batch # {} /\ u.acks # {}
      BY <2>2 DEF AfterAcks, Run
    <2>3. CASE w = AfterAcks(u) /\ u.batch # {} /\ u.acks = {}
      BY <2>3 DEF AfterAcks, AfterInbox, Run
    <2> QED BY <2>1, <2>2, <2>3
  <1>3. w.batch = {} => \A x \in w.inbox : Covered(d, w.inbox, x.seq)'
    BY <1>1, <1>2
  <1> QED BY <1>1, <1>2, <1>3 DEF RunCovers, InHand
------------------------------------------------------------------------------
(* Steps *)

LEMMA CursorInit == Init => CursorInv
  <1> SUFFICES ASSUME Init PROVE CursorInv OBVIOUS
  <1>1. CursorSkipsNothing /\ CursorsInRange
    BY DEF Init, CursorSkipsNothing, CursorsInRange, Blank
  <1>2. RunsCover
    BY IdleCovers DEF Init, RunsCover
  <1> QED BY <1>1, <1>2, LogInit DEF CursorInv

LEMMA PagesKeepCursor ==
    ASSUME CursorInv, LogInv',
           \/ \E t \in Tabs : Unlock(t) \/ Lock(t) \/ Reload(t)
           \/ \E e \in Engines : Hydrate(e) \/ RefuseEdit(e) \/ \E r \in Ids : Write(e, r)
    PROVE  CursorInv'
  <1>1. Grown /\ cursor' = cursor
    BY Still DEF CursorInv, Unlock, Lock, Reload, Hydrate, HydrateEnvelopes, HydrateOutbox,
                 HydrateShow, RefuseEdit, Write, server, store
  <1>2. ASSUME NEW t \in Tabs, Reload(t) PROVE CursorInv'
    <2>1. \A e \in Engines : run'[e] = run[e] \/ run'[e] = IdleRun
      BY <1>2 DEF Reload
    <2>2. RunsCover'
      BY <1>1, <2>1, IdleCovers, PlaceholderTypes, RunsCoverNext
    <2> QED BY <1>1, <2>2, CursorStays DEF CursorInv
  <1>3. ASSUME run' = run PROVE CursorInv'
    BY <1>1, <1>3, CursorUntouched
  <1> QED BY <1>2, <1>3 DEF Unlock, Lock, Hydrate, HydrateEnvelopes, HydrateOutbox,
                            HydrateShow, RefuseEdit, Write

(* A run goes on to where it holds what it held, but nothing in hand.       *)
LEMMA StartKeepsCursor ==
    ASSUME CursorInv, LogInv', NEW e \in Engines,
           \/ StartRun(e) \/ QueueEdit(e) \/ StopLocked(e)
           \/ PushRound(e) \/ Send(e) \/ RequestFails(e)
    PROVE  CursorInv'
  <1>1. Grown /\ cursor' = cursor
    BY Still DEF CursorInv, StartRun, QueueEdit, StopLocked, PushRound, Send, RequestFails,
                 server, store
  <1>2. PICK u \in Run : u = run[e] /\ RunCovers(Host(e), u)'
    BY <1>1, RunsStay, RunFacts DEF CursorInv
  <1>3. /\ run' = [run EXCEPT ![e] = run'[e]] /\ run'[e] \in Run
        /\ \/ run'[e] = IdleRun
           \/ run'[e].inbox = u.inbox /\ run'[e].batch = u.batch /\ run'[e].pc \in {"pull", "send"}
           \/ run'[e] = u
           \/ run'[e].pc = "sent" /\ run'[e].batch # {}
    <2>1. run \in [Engines -> Run] /\ run' \in [Engines -> Run]
      BY DEF CursorInv, LogInv, TypeOK
    <2>2. CASE StartRun(e)
      BY <1>2, <2>1, <2>2 DEF StartRun, Run
    <2>3. CASE QueueEdit(e)
      <3>1. run' = [run EXCEPT ![e].pc = IF @ = "idle" THEN "pull" ELSE @]
        BY <2>3 DEF QueueEdit
      <3>2. CASE run[e].pc = "idle"
        BY <1>2, <2>1, <3>1, <3>2 DEF Run
      <3>3. CASE run[e].pc # "idle"
        BY <1>2, <2>1, <3>1, <3>3 DEF Run
      <3> QED BY <3>2, <3>3
    <2>4. CASE StopLocked(e) \/ RequestFails(e)
      BY <2>1, <2>4 DEF StopLocked, RequestFails
    <2>5. CASE PushRound(e)
      BY <1>2, <2>1, <2>5 DEF PushRound, Run
    <2>6. CASE Send(e)
      <3>1. PICK B : /\ B # {}
                     /\ run' = [run EXCEPT ![e].pc = "sent", ![e].batch = B,
                                           ![e].unsent = run[e].unsent \ B]
        BY <2>6 DEF Send
      <3> QED BY <2>1, <3>1 DEF Run
    <2> QED BY <2>2, <2>3, <2>4, <2>5, <2>6
  <1>4. PICK w : w = run'[e]
    OBVIOUS
  <1>5. RunCovers(Host(e), w)'
    <2>1. CASE w.inbox = u.inbox /\ w.batch = u.batch /\ w.pc \in {"pull", "send"}
      BY <1>2, <2>1 DEF RunCovers, InHand
    <2>2. CASE w.pc = "sent" /\ w.batch # {}
      BY <2>2 DEF RunCovers, InHand
    <2> QED BY <1>2, <1>3, <1>4, <2>1, <2>2, IdleCovers
  <1> QED BY <1>1, <1>3, <1>4, <1>5, CursorStep

(* A page is the oldest part of what is newer than the cursor.              *)
LEMMA OldestFirst ==
    ASSUME LogInv, NEW c \in Nat, NEW x \in Page(c), NEW r \in Ids,
           records[r].seq > c, records[r].seq <= x.seq
    PROVE  records[r] \in Page(c)
  <1> DEFINE before(y) == {z \in Newer(c) : z.seq < y.seq}
  <1>1. \A q \in Ids : records[q] \in Envelope
    BY DEF LogInv, TypeOK
  <1>2. IsFiniteSet(Newer(c))
    <2> DEFINE rows == {records[q] : q \in Ids}
               f == [q \in Ids |-> records[q]]
    <2>1. f \in Surjection(Ids, rows)
      BY DEF Surjection
    <2>2. IsFiniteSet(rows)
      BY <2>1, IdsAssumption, FS_Surjection
    <2> QED BY <2>2, FS_Subset DEF Newer
  <1>3. records[r] \in Newer(c)
    BY DEF Newer
  <1>4. x \in Newer(c) /\ Cardinality(before(x)) < PullPage
    BY DEF Page
  <1>5. \A z \in Newer(c) : z.seq \in Nat
    BY <1>1 DEF Newer, Envelope
  <1>6. before(records[r]) \subseteq before(x)
    BY <1>3, <1>4, <1>5
  <1>7. IsFiniteSet(before(x)) /\ IsFiniteSet(before(records[r]))
    BY <1>2, FS_Subset
  <1>8. Cardinality(before(records[r])) <= Cardinality(before(x))
    BY <1>6, <1>7, FS_Subset
  <1>9. Cardinality(before(records[r])) \in Nat /\ Cardinality(before(x)) \in Nat
    BY <1>7, FS_CardinalityType
  <1>10. Cardinality(before(records[r])) < PullPage
    BY <1>4, <1>8, <1>9, NumbersAssumption
  <1> QED BY <1>3, <1>10 DEF Page

LEMMA PullKeepsCursor ==
    ASSUME CursorInv, LogInv', NEW e \in Engines, Pull(e)
    PROVE  CursorInv'
  <1> DEFINE d == Host(e)
             c == cursor[d]
  <1>1. Grown /\ cursor' = cursor /\ UNCHANGED <<records, envelopes>>
    BY Still DEF CursorInv, Pull, server, store
  <1>2. d \in Devices /\ c \in Nat /\ \A r \in Ids : records[r] \in Envelope
    BY HostType DEF CursorInv, LogInv, TypeOK
  <1>4. \A x \in Page(c) : Covered(d, Page(c), x.seq)
    <2> SUFFICES ASSUME NEW x \in Page(c), NEW r \in Ids,
                        records[r].v > 0, records[r].seq <= x.seq
                 PROVE  envelopes[d][r].v >= records[r].v \/ records[r] \in Page(c)
      BY DEF Covered
    <2>1. CASE records[r].seq <= c
      BY <1>2, <2>1 DEF CursorInv, CursorSkipsNothing
    <2>2. CASE records[r].seq > c
      BY <1>2, <2>2, OldestFirst DEF CursorInv
    <2> QED BY <1>2, <2>1, <2>2 DEF Envelope
  <1>5. PICK got : got = Page(c)
    OBVIOUS
  <1>6. PICK u : u = [run[e] EXCEPT !.inbox = got, !.full = (Cardinality(got) = PullPage)]
    OBVIOUS
  <1>7. u \in Run /\ u.inbox = got
    <2>1. got \subseteq Envelope
      BY <1>2, <1>5 DEF Page, Newer
    <2> QED BY <1>6, <2>1, RunFacts DEF CursorInv, Run
  <1>8. \A x \in got : Covered(d, got, x.seq)'
    <2>1. \A x \in got : Covered(d, got, x.seq)
      BY <1>4, <1>5
    <2> QED BY <1>1, <2>1 DEF Covered
  <1>9. PICK w : w = AfterInbox(u)
    OBVIOUS
  <1>10. run' = [run EXCEPT ![e] = w]
    BY <1>5, <1>6, <1>9 DEF Pull
  <1>11. w \in Run /\ RunCovers(d, w)'
    BY <1>7, <1>8, <1>9, RestCovers
  <1> QED BY <1>1, <1>10, <1>11, CursorStep
LEMMA ReceiveKeepsCursor ==
    ASSUME CursorInv, LogInv', NEW e \in Engines,
           \/ Receive(e) \/ PutRemote(e) \/ PeekNone(e) \/ PeekStands(e) \/ PeekMerge(e)
           \/ MergeMine(e) \/ MergeTheirs(e)
    PROVE  CursorInv'
  <1> DEFINE d == Host(e)
  <1>1. /\ d \in Devices /\ run[e] \in Run /\ RunHoldsLog(run[e])
        /\ run \in [Engines -> Run]
    BY HostType, RunFacts DEF CursorInv, LogInv, TypeOK
  <1>2. /\ cursor' = cursor /\ UNCHANGED <<records, recordSeq>>
        /\ PutRemote(e) \/ UNCHANGED envelopes
    BY DEF Receive, PutRemote, PeekNone, PeekStands, PeekMerge, MergeMine, MergeTheirs,
           server, store
  <1>3. Grown /\ (PutRemote(e) =>
                     envelopes'[d][run[e].remote.rec].v >= run[e].remote.v)
    <2>1. CASE PutRemote(e)
      BY <1>1, <1>2, <2>1, PutGrows DEF PutRemote, Run, CursorInv
    <2>2. CASE ~PutRemote(e)
      BY <1>2, <2>2, Still DEF CursorInv
    <2> QED BY <2>1, <2>2
  <1>4. PICK u \in Run : u = run[e] /\ RunCovers(d, u) /\ RunCovers(d, u)'
    BY <1>3, RunsStay, RunFacts DEF CursorInv
  <1>5. PICK w : w = run'[e]
    OBVIOUS
  <1> DEFINE Taken == /\ w.pc \in {"put", "received"} /\ w.remote \in u.inbox
                      /\ w.pc = "received" => w.remote.v < envelopes[d][w.remote.rec].v
                      /\ u.batch = {} => \A y \in u.inbox : w.remote.seq <= y.seq
             Kept == /\ w.pc \in {"peek", "merge", "received"} /\ w.remote = u.remote
                     /\ u.pc \in {"put", "peek", "merge"}
                     /\ u.pc = "put" => envelopes'[d][u.remote.rec].v >= u.remote.v
  <1>6. /\ run' = [run EXCEPT ![e] = w] /\ w \in Run
        /\ w.inbox = u.inbox /\ w.batch = u.batch /\ (Taken \/ Kept)
    <2>1. run' \in [Engines -> Run]
      BY DEF LogInv, TypeOK
    <2>2. CASE Receive(e)
      <3>1. PICK x \in u.inbox :
               /\ u.batch = {} => \A y \in u.inbox : x.seq <= y.seq
               /\ run' = [run EXCEPT ![e].remote = x,
                     ![e].pc = IF x.v < envelopes[d][x.rec].v THEN "received" ELSE "put"]
        BY <1>4, <2>2 DEF Receive
      <3> QED BY <1>1, <1>4, <1>5, <2>1, <3>1 DEF Run
    <2>3. CASE PutRemote(e)
      BY <1>1, <1>3, <1>4, <1>5, <2>1, <2>3 DEF PutRemote, Run
    <2>4. CASE PeekNone(e) \/ PeekStands(e) \/ MergeMine(e) \/ MergeTheirs(e)
      BY <1>1, <1>4, <1>5, <2>1, <2>4 DEF PeekNone, PeekStands, MergeMine, MergeTheirs, Run
    <2>5. CASE PeekMerge(e)
      BY <1>1, <1>4, <1>5, <2>1, <2>5 DEF PeekMerge, Run
    <2> QED BY <2>2, <2>3, <2>4, <2>5
  <1>7. RunCovers(d, w)'
    <2>1. CASE Taken
      <3>1. w.pc = "received" => envelopes'[d][w.remote.rec].v >= w.remote.v
        <4>1. w.remote \in Envelope /\ w.remote.rec \in Ids
          BY <1>6 DEF Run, Envelope
        <4>2. /\ envelopes[d][w.remote.rec] \in Envelope
              /\ envelopes'[d][w.remote.rec] \in Envelope
              /\ envelopes'[d][w.remote.rec].v >= envelopes[d][w.remote.rec].v
          BY <1>1, <1>3, <4>1 DEF Grown, CursorInv, LogInv, TypeOK
        <4> QED BY <2>1, <4>1, <4>2 DEF Envelope
      <3> QED BY <1>4, <1>6, <2>1, <3>1 DEF RunCovers
    <2>2. CASE Kept
      BY <1>4, <1>6, <2>2 DEF RunCovers, InHand
    <2> QED BY <1>6, <2>1, <2>2
  <1> QED BY <1>2, <1>3, <1>6, <1>7, CursorStep
(* The oldest envelope of the page is stored: the cursor may pass it.       *)
LEMMA ReceivedKeepsCursor ==
    ASSUME CursorInv, LogInv', NEW e \in Engines, Received(e)
    PROVE  CursorInv'
  <1> DEFINE d == Host(e)
             x == run[e].remote
  <1>1. /\ d \in Devices /\ run[e] \in Run /\ RunHoldsLog(run[e]) /\ RunCovers(d, run[e])
        /\ x \in log /\ x \in Envelope /\ x.seq <= recordSeq
        /\ envelopes[d][x.rec].v >= x.v
    BY HostType, RunFacts
       DEF Received, CursorInv, RunsCover, RunCovers, InHand, LogInv, LogIsLinear
  <1>2. Grown /\ UNCHANGED <<records, recordSeq, log, envelopes>>
    BY Still DEF CursorInv, Received, server
  <1>3. PICK u : u = [run[e] EXCEPT !.inbox = @ \ {x}, !.remote = Blank(AnId),
                                    !.pending = NoEntry(AnId)]
    OBVIOUS
  <1>4. PICK w : w = AfterInbox(u)
    OBVIOUS
  <1>5. run' = [run EXCEPT ![e] = w]
    BY <1>3, <1>4 DEF Received
  <1>6. u \in Run /\ u.inbox = run[e].inbox \ {x} /\ u.batch = run[e].batch
    BY <1>1, <1>3, PlaceholderTypes DEF Run
  <1>7. ASSUME run[e].batch = {}, NEW r \in Ids, NEW s \in Nat,
               records[r].v > 0, records[r].seq <= s,
               s = x.seq \/ \E y \in u.inbox : y.seq = s
        PROVE  envelopes[d][r].v >= records[r].v \/ records[r] \in u.inbox
    <2>1. Covered(d, run[e].inbox, s)
      BY <1>1, <1>6, <1>7 DEF RunCovers, Received, InHand
    <2>2. envelopes[d][r].v >= records[r].v \/ records[r] \in run[e].inbox
      BY <1>7, <2>1 DEF Covered
    <2>3. records[r] = x => envelopes[d][r].v >= records[r].v
      BY <1>1 DEF CursorInv, LogInv, LogIsLinear
    <2> QED BY <1>6, <2>2, <2>3
  <1>8. w \in Run /\ RunCovers(d, w)'
    <2>1. u.batch = {} => \A y \in u.inbox : Covered(d, u.inbox, y.seq)'
      <3> SUFFICES ASSUME u.batch = {}, NEW y \in u.inbox, NEW r \in Ids,
                          records[r].v > 0, records[r].seq <= y.seq
                   PROVE  envelopes[d][r].v >= records[r].v \/ records[r] \in u.inbox
        BY <1>2 DEF Covered
      <3>1. y.seq \in Nat
        BY <1>6 DEF Run, Envelope
      <3> QED BY <1>6, <1>7, <3>1
    <2> QED BY <1>4, <1>6, <2>1, RestCovers
  <1>9. \A c \in Devices : \/ cursor'[c] = cursor[c]
                           \/ c = d /\ run[e].batch = {} /\ cursor'[c] = x.seq
    <2>1. CASE run[e].batch = {}
      BY <2>1 DEF Received, CursorAfter, CursorInv, LogInv, TypeOK
    <2>2. CASE run[e].batch # {}
      BY <2>2 DEF Received
    <2> QED BY <2>1, <2>2
  <1>10. CursorsInRange'
    BY <1>1, <1>2, <1>9 DEF CursorInv, CursorsInRange
  <1>11. CursorSkipsNothing'
    <2> SUFFICES ASSUME NEW c \in Devices, NEW r \in Ids,
                        records[r].v > 0, records[r].seq <= cursor'[c]
                 PROVE  envelopes[c][r].v >= records[r].v
      BY <1>2 DEF CursorSkipsNothing
    <2>1. CASE cursor'[c] = cursor[c]
      BY <2>1 DEF CursorInv, CursorSkipsNothing
    <2>2. CASE c = d /\ run[e].batch = {} /\ cursor'[c] = x.seq
      <3>1. envelopes[d][r].v >= records[r].v \/ records[r] \in u.inbox
        BY <1>1, <1>7, <2>2 DEF Envelope
      <3>2. ASSUME records[r] \in u.inbox PROVE FALSE
        <4>1. records[r] \in run[e].inbox /\ records[r] # x
          BY <1>6, <3>2
        <4>2. x.seq <= records[r].seq
          BY <1>1, <2>2, <4>1 DEF RunCovers, Received, InHand
        <4>3. records[r].seq = x.seq
          BY <1>1, <2>2, <4>2, SMTT(30) DEF CursorInv, LogInv, TypeOK, Envelope
        <4> QED BY <1>1, <4>1, <4>3 DEF RunHoldsLog, CursorInv, LogInv, LogIsLinear
      <3> QED BY <2>2, <3>1, <3>2
    <2> QED BY <1>9, <2>1, <2>2
  <1>12. RunsCover'
    <2>1. \A y \in Engines : run'[y] = IF y = e THEN w ELSE run[y]
      BY <1>5 DEF CursorInv, LogInv, TypeOK
    <2> QED BY <1>2, <1>8, <2>1, RunsCoverNext
  <1> QED BY <1>10, <1>11, <1>12 DEF CursorInv
LEMMA CommitGrows ==
    ASSUME LogInv, NEW B \in SUBSET Entry, Pushable(B), ~BadBase(B),
           NEW f \in Orders(Applied(B)), Commit(B, f), envelopes' = envelopes
    PROVE  Grown
  <1>1. \A d \in Devices, r \in Ids : envelopes[d][r].v \in Nat
    BY DEF LogInv, TypeOK, Envelope
  <1>2. recordSeq \in Nat /\ recordSeq' \in Nat /\ recordSeq <= recordSeq'
        /\ \A r \in Ids : records'[r] = records[r] \/ records'[r].seq > recordSeq
    BY CommitFacts DEF LogInv, TypeOK
  <1> QED BY <1>1, <1>2 DEF Grown

LEMMA ServeGrows ==
    ASSUME CursorInv,
           \/ \E e \in Engines : Serve(e) \/ ServeUnheard(e)
           \/ \E B \in orphans : ServeOrphan(B)
    PROVE  Grown
  <1>0. cursor' = cursor /\ envelopes' = envelopes
    BY DEF Serve, ServeUnheard, ServeOrphan, store
  <1>1. CASE UNCHANGED server
    BY <1>0, <1>1, Still DEF CursorInv, server
  <1>2. ASSUME NEW e \in Engines, NEW f \in Orders(Applied(run[e].batch)),
               Commit(run[e].batch, f), ~BadBase(run[e].batch)
        PROVE  Grown
    <2>1. run[e].batch \in SUBSET Entry /\ Pushable(run[e].batch)
      BY RunFacts DEF CursorInv, HoldsLog, Run
    <2> QED BY <1>0, <1>2, <2>1, CommitGrows DEF CursorInv
  <1>3. ASSUME NEW B \in orphans, NEW f \in Orders(Applied(B)), Commit(B, f), ~BadBase(B)
        PROVE  Grown
    <2>1. B \in SUBSET Entry /\ Pushable(B)
      BY DEF CursorInv, LogInv, TypeOK, ProcessesHoldLog
    <2> QED BY <1>0, <1>3, <2>1, CommitGrows DEF CursorInv
  <1> QED BY <1>1, <1>2, <1>3 DEF Serve, ServeUnheard, ServeOrphan

LEMMA ServeKeepsCursor ==
    ASSUME CursorInv, LogInv',
           \/ \E e \in Engines : Serve(e) \/ ServeUnheard(e)
           \/ \E B \in orphans : ServeOrphan(B)
    PROVE  CursorInv'
  <1>1. cursor' = cursor /\ envelopes' = envelopes
    BY DEF Serve, ServeUnheard, ServeOrphan, store
  <1>2. Grown
    BY ServeGrows
  <1>3. ASSUME NEW e \in Engines, Serve(e), ~BadBase(run[e].batch) PROVE CursorInv'
    <2> DEFINE B == run[e].batch
    <2>1. PICK f \in Orders(Applied(B)) :
             /\ Commit(B, f)
             /\ run' = [run EXCEPT ![e] = AfterAcks([run[e] EXCEPT
                   !.acks = Committed(Applied(B), f), !.inbox = Conflicts(B)])]
      BY <1>3 DEF Serve
    <2>2. PICK u : u = [run[e] EXCEPT !.acks = Committed(Applied(B), f), !.inbox = Conflicts(B)]
      OBVIOUS
    <2>3. u \in Run /\ u.batch # {}
      <3>1. run[e] \in Run /\ B \in SUBSET Entry /\ Pushable(B) /\ B # {}
        BY <1>3, RunFacts DEF Serve, CursorInv, RunsCover, RunCovers, HoldsLog, Run
      <3>2. /\ Committed(Applied(B), f) \subseteq log' /\ log' \subseteq Envelope
            /\ Conflicts(B) \subseteq log /\ log \subseteq Envelope
        BY <1>3, <2>1, <3>1, CommitFacts DEF CursorInv, LogInv, TypeOK
      <3> QED BY <2>2, <3>1, <3>2 DEF Run
    <2>4. PICK w : w = AfterAcks(u)
      OBVIOUS
    <2>5. run' = [run EXCEPT ![e] = w]
      BY <2>1, <2>2, <2>4
    <2>6. w \in Run /\ RunCovers(Host(e), w)'
      BY <2>3, <2>4, RestCovers
    <2> QED BY <1>1, <1>2, <2>5, <2>6, CursorStep
  <1>4. ASSUME NEW e \in Engines, run' = [run EXCEPT ![e] = IdleRun] PROVE CursorInv'
    BY <1>1, <1>2, <1>4, IdleCovers, PlaceholderTypes, CursorStep
  <1>5. ASSUME run' = run PROVE CursorInv'
    BY <1>1, <1>2, <1>5, CursorUntouched
  <1> QED BY <1>3, <1>4, <1>5 DEF Serve, ServeUnheard, ServeOrphan

LEMMA SettleKeepsCursor ==
    ASSUME CursorInv, LogInv', NEW e \in Engines, StoreAcked(e) \/ DequeueAcked(e)
    PROVE  CursorInv'
  <1>1. /\ Host(e) \in Devices /\ run[e] \in Run /\ RunHoldsLog(run[e])
        /\ run[e].batch # {}
    BY HostType, RunFacts DEF CursorInv, RunsCover, RunCovers, StoreAcked, DequeueAcked
  <1>2. CASE StoreAcked(e)
    <2>1. PICK x \in run[e].acks :
             /\ envelopes' = [envelopes EXCEPT ![Host(e)][x.rec] = PutEnvelope(@, x)]
             /\ run' = [run EXCEPT ![e].pc = "acked", ![e].remote = x]
      BY <1>2 DEF StoreAcked
    <2>2. x \in Envelope
      BY <1>1 DEF Run
    <2>3. Grown /\ cursor' = cursor
      BY <1>1, <1>2, <2>1, <2>2, PutGrows DEF StoreAcked, CursorInv, server
    <2>4. PICK w : w = [run[e] EXCEPT !.pc = "acked", !.remote = x]
      OBVIOUS
    <2>5. run' = [run EXCEPT ![e] = w]
      BY <2>1, <2>4 DEF CursorInv, LogInv, TypeOK, Run
    <2>6. w \in Run /\ w.pc = "acked" /\ w.batch # {}
      BY <1>1, <2>2, <2>4 DEF Run
    <2>7. RunCovers(Host(e), w)'
      BY <2>6 DEF RunCovers
    <2> QED BY <2>3, <2>5, <2>6, <2>7, CursorStep
  <1>3. CASE DequeueAcked(e)
    <2> DEFINE x == run[e].remote
    <2>1. Grown /\ cursor' = cursor
      BY <1>3, Still DEF DequeueAcked, CursorInv, server
    <2>2. PICK u : u = [run[e] EXCEPT !.acks = @ \ {x}, !.remote = Blank(AnId)]
      OBVIOUS
    <2>3. u \in Run /\ u.batch # {}
      BY <1>1, <2>2, PlaceholderTypes DEF Run
    <2>4. PICK w : w = AfterAcks(u)
      OBVIOUS
    <2>5. run' = [run EXCEPT ![e] = w]
      BY <1>3, <2>2, <2>4 DEF DequeueAcked
    <2>6. w \in Run /\ RunCovers(Host(e), w)'
      BY <2>3, <2>4, RestCovers
    <2> QED BY <2>1, <2>5, <2>6, CursorStep
  <1> QED BY <1>2, <1>3

------------------------------------------------------------------------------
(* Theorems *)

LEMMA CursorNext == CursorInv /\ [Next]_vars => CursorInv'
  <1> SUFFICES ASSUME CursorInv, [Next]_vars PROVE CursorInv'
    OBVIOUS
  <1>1. LogInv'
    BY LogNext DEF CursorInv
  <1>2. CASE UNCHANGED vars
    BY <1>1, <1>2, Still, CursorUntouched DEF CursorInv, vars, server, store
  <1>3. ASSUME NEW t \in Tabs, Unlock(t) \/ Lock(t) \/ Reload(t) PROVE CursorInv'
    BY <1>1, <1>3, PagesKeepCursor
  <1>4. ASSUME NEW e \in Engines, NEW r \in Ids, Write(e, r) PROVE CursorInv'
    BY <1>1, <1>4, PagesKeepCursor
  <1>5. ASSUME NEW e \in Engines, Hydrate(e) \/ Edited(e) \/ StartRun(e) PROVE CursorInv'
    BY <1>1, <1>5, PagesKeepCursor, StartKeepsCursor DEF Edited
  <1>6. ASSUME NEW e \in Engines, RunStep(e) PROVE CursorInv'
    BY <1>1, <1>6, PullKeepsCursor, ReceiveKeepsCursor, ReceivedKeepsCursor, StartKeepsCursor,
       ServeKeepsCursor, SettleKeepsCursor DEF RunStep, ReceiveStep
  <1>7. ASSUME NEW e \in Engines, Fault(e) PROVE CursorInv'
    BY <1>1, <1>7, ServeKeepsCursor, StartKeepsCursor DEF Fault
  <1>8. ASSUME NEW B \in orphans, ServeOrphan(B) PROVE CursorInv'
    BY <1>1, <1>8, ServeKeepsCursor
  <1> QED BY <1>2, <1>3, <1>4, <1>5, <1>6, <1>7, <1>8 DEF Next

(* Whatever is locked, reloaded, lost or pushed meanwhile, a row at or      *)
(* below a device's pull cursor is on that device (engine.ts, pull, and     *)
(* local-store.ts, advanceCursor).                                          *)
THEOREM CursorSkipsNothingHolds == Spec => []CursorSkipsNothing
  <1>1. CursorInv => CursorSkipsNothing
    BY DEF CursorInv
  <1> QED BY <1>1, CursorInit, CursorNext, PTL DEF Spec
------------------------------------------------------------------------------
(* A locked tab shows nothing *)

LEMMA LockedStays ==
    ASSUME TypeOK, LockedShowsNothing, unlocked' = unlocked,
           \/ cache' = cache
           \/ \E e \in Engines, r \in Ids : \E i, del : cache' = Shown(e, r, i, del)
    PROVE  LockedShowsNothing'
  <1>1. CASE cache' = cache
    BY <1>1 DEF LockedShowsNothing
  <1>2. ASSUME NEW e \in Engines, NEW r \in Ids, NEW i, NEW del,
               cache' = Shown(e, r, i, del)
        PROVE  LockedShowsNothing'
    <2>1. cache \in [Engines -> [Ids -> Nat]]
      BY DEF TypeOK
    <2>2. \A x \in Engines, q \in Ids :
             cache'[x][q] = cache[x][q] \/ cache'[x][q] = 0 \/ (x = e /\ unlocked[TabOf[e]])
      BY <1>2, <2>1 DEF Shown
    <2> QED BY <2>2 DEF LockedShowsNothing
  <1> QED BY <1>1, <1>2

LEMMA LockedNext == LogInv /\ LockedShowsNothing /\ [Next]_vars => LockedShowsNothing'
  <1> SUFFICES ASSUME LogInv, LockedShowsNothing, [Next]_vars PROVE LockedShowsNothing'
    OBVIOUS
  <1>1. TypeOK
    BY DEF LogInv
  <1>2. ASSUME NEW t \in Tabs, Unlock(t) PROVE LockedShowsNothing'
    <2>1. PICK n \in InTab(t) : cache' = [cache EXCEPT ![n] = [r \in Ids |-> 0]]
      BY <1>2 DEF Unlock
    <2>2. \A e \in Engines, r \in Ids : cache'[e][r] = cache[e][r] \/ cache'[e][r] = 0
      BY <1>1, <2>1 DEF TypeOK, InTab
    <2>3. \A x \in Tabs : unlocked[x] => unlocked'[x]
      BY <1>1, <1>2 DEF Unlock, TypeOK
    <2> QED BY <2>2, <2>3, HostType DEF LockedShowsNothing
  <1>3. ASSUME NEW t \in Tabs, Unmount(t) PROVE LockedShowsNothing'
    <2>1. \A x \in Tabs : unlocked'[x] = unlocked[x] \/ x = t
      BY <1>1, <1>3 DEF Unmount, TypeOK
    <2>2. \A e \in Engines, r \in Ids : cache'[e][r] = IF TabOf[e] = t THEN 0 ELSE cache[e][r]
      BY <1>3 DEF Unmount
    <2> QED BY <2>1, <2>2, HostType DEF LockedShowsNothing
  <1>4. ASSUME NEW e \in Engines, Hydrate(e) \/ Edited(e) PROVE LockedShowsNothing'
    <2>1. CASE \E r \in Ids : HydrateShow(e, r)
      BY <1>1, <2>1, LockedStays DEF HydrateShow
    <2>2. CASE QueueEdit(e)
      <3>1. draft[e].rec \in Ids
        BY <1>1 DEF TypeOK, Draft
      <3> QED BY <1>1, <2>2, <3>1, LockedStays DEF QueueEdit
    <2>3. CASE HydrateEnvelopes(e) \/ HydrateOutbox(e) \/ RefuseEdit(e)
      BY <1>1, <2>3, LockedStays DEF HydrateEnvelopes, HydrateOutbox, RefuseEdit, page
    <2> QED BY <1>4, <2>1, <2>2, <2>3 DEF Hydrate, Edited
  <1>5. ASSUME NEW e \in Engines, RunStep(e) PROVE LockedShowsNothing'
    <2>1. CASE PeekNone(e) \/ MergeMine(e) \/ MergeTheirs(e)
      <3>1. run[e].remote.rec \in Ids
        BY <1>1 DEF TypeOK, Run, Envelope
      <3> QED BY <1>1, <2>1, <3>1, LockedStays DEF PeekNone, MergeMine, MergeTheirs
    <2>2. CASE ~(PeekNone(e) \/ MergeMine(e) \/ MergeTheirs(e))
      BY <1>1, <1>5, <2>2, LockedStays
         DEF RunStep, ReceiveStep, Pull, Receive, PutRemote, PeekStands, PeekMerge, Received,
             StopLocked, PushRound, Send, Serve, StoreAcked, DequeueAcked, page
    <2> QED BY <2>1, <2>2
  <1>6. ASSUME UNCHANGED <<unlocked, cache>> PROVE LockedShowsNothing'
    BY <1>1, <1>6, LockedStays
  <1>7. ASSUME NEW e \in Engines,
               StartRun(e) \/ Fault(e) \/ \E r \in Ids : Write(e, r)
        PROVE  LockedShowsNothing'
    BY <1>6, <1>7 DEF StartRun, Fault, ServeUnheard, RequestFails, Write, page
  <1>8. ASSUME NEW B \in orphans, ServeOrphan(B) PROVE LockedShowsNothing'
    BY <1>6, <1>8 DEF ServeOrphan, page
  <1>9. CASE UNCHANGED vars
    BY <1>6, <1>9 DEF vars, page
  <1> QED BY <1>2, <1>3, <1>4, <1>5, <1>7, <1>8, <1>9 DEF Next, Lock, Reload

(* No receive(), hydrate() or write() that began before a lock can show a   *)
(* record after it, however they are ordered (record-cache.ts, set, and     *)
(* household-sync.ts, which empties the cache when the session locks).      *)
THEOREM LockedShowsNothingHolds == Spec => []LockedShowsNothing
  <1>1. Init => LockedShowsNothing
    BY DEF Init, LockedShowsNothing
  <1> QED BY <1>1, LogInit, LockedNext, LogNext, PTL DEF Spec
------------------------------------------------------------------------------
(* What leaves the outbox is stored *)

(* Before an edit is dropped, the store holds what it is dropped for.       *)
HeldStored(d, u) ==
    /\ u.pc = "merge" => u.pending.v <= u.remote.v
    /\ u.pc = "acked" => envelopes[d][u.remote.rec].v >= u.remote.v

QueueInv == CursorInv /\ \A e \in Engines : HeldStored(Host(e), run[e])

LEMMA GrownNext == CursorInv /\ [Next]_vars => Grown
  <1> SUFFICES ASSUME CursorInv, [Next]_vars PROVE Grown
    OBVIOUS
  <1>1. ASSUME UNCHANGED <<records, recordSeq, envelopes>> PROVE Grown
    BY <1>1, Still DEF CursorInv
  <1>2. ASSUME NEW e \in Engines, PutRemote(e) \/ StoreAcked(e) PROVE Grown
    <2>1. PICK x \in Envelope :
             envelopes' = [envelopes EXCEPT ![Host(e)][x.rec] = PutEnvelope(@, x)]
      BY <1>2, RunFacts DEF PutRemote, StoreAcked, InHand, CursorInv, Run
    <2>2. UNCHANGED <<records, recordSeq>>
      BY <1>2 DEF PutRemote, StoreAcked, server
    <2> QED BY <2>1, <2>2, HostType, PutGrows DEF CursorInv
  <1>3. ASSUME NEW e \in Engines, RunStep(e) \/ Fault(e) PROVE Grown
    <2>1. CASE PutRemote(e) \/ StoreAcked(e)
      BY <1>2, <2>1
    <2>2. CASE Serve(e) \/ ServeUnheard(e)
      BY <2>2, ServeGrows
    <2>3. CASE ~(PutRemote(e) \/ StoreAcked(e) \/ Serve(e) \/ ServeUnheard(e))
      BY <1>1, <1>3, <2>3
         DEF RunStep, ReceiveStep, Fault, Pull, Receive, PeekNone, PeekStands, PeekMerge,
             MergeMine, MergeTheirs, Received, StopLocked, PushRound, Send, DequeueAcked,
             RequestFails, server, store
    <2> QED BY <2>1, <2>2, <2>3
  <1>4. ASSUME NEW e \in Engines,
               Hydrate(e) \/ Edited(e) \/ StartRun(e) \/ \E r \in Ids : Write(e, r)
        PROVE  Grown
    BY <1>1, <1>4 DEF Hydrate, HydrateEnvelopes, HydrateOutbox, HydrateShow, Edited, QueueEdit,
                      RefuseEdit, StartRun, Write, server, store
  <1>5. ASSUME NEW t \in Tabs, Unlock(t) \/ Lock(t) \/ Reload(t) PROVE Grown
    BY <1>1, <1>5 DEF Unlock, Lock, Reload, server, store
  <1>6. CASE UNCHANGED vars
    BY <1>1, <1>6 DEF vars, server, store
  <1> QED BY <1>3, <1>4, <1>5, <1>6, ServeGrows DEF Next

(* Only a peek begins a merge, and only a store of the device acknowledges. *)
TakenInHand(e) ==
    \/ run'[e] = run[e]
    \/ run'[e].pc \notin {"merge", "acked"}
    \/ PeekMerge(e)
    \/ StoreAcked(e)

LEMMA HandsNext ==
    ASSUME CursorInv, [Next]_vars, NEW e \in Engines
    PROVE  TakenInHand(e)
  <1>1. /\ run \in [Engines -> Run] /\ run[e] \in Run
    BY RunFacts DEF CursorInv, LogInv, TypeOK
  <1>2. IdleRun.pc = "idle"
    BY DEF IdleRun
  <1>3. ASSUME NEW x \in Engines, NEW u \in Run,
               \/ run' = [run EXCEPT ![x] = AfterInbox(u)]
               \/ run' = [run EXCEPT ![x] = AfterAcks(u)]
        PROVE  TakenInHand(e)
    BY <1>1, <1>3, AfterInboxMoves, AfterAcksMoves DEF MovedOn, InHand, TakenInHand
  <1>4. ASSUME NEW x \in Engines, RunStep(x) PROVE TakenInHand(e)
    <2>1. run[x] \in Run
      BY RunFacts DEF CursorInv
    <2>2. CASE Pull(x)
      <3>1. PICK got : got = Page(cursor[Host(x)])
        OBVIOUS
      <3>2. got \subseteq Envelope
        BY <3>1 DEF Page, Newer, CursorInv, LogInv, TypeOK
      <3>3. PICK u : u = [run[x] EXCEPT !.inbox = got, !.full = (Cardinality(got) = PullPage)]
        OBVIOUS
      <3>4. u \in Run
        BY <2>1, <3>2, <3>3 DEF Run
      <3> QED BY <1>3, <2>2, <3>1, <3>3, <3>4 DEF Pull
    <2>3. CASE Received(x)
      <3>1. PICK u : u = [run[x] EXCEPT !.inbox = @ \ {run[x].remote}, !.remote = Blank(AnId),
                                        !.pending = NoEntry(AnId)]
        OBVIOUS
      <3>2. u \in Run
        BY <2>1, <3>1, PlaceholderTypes DEF Run
      <3> QED BY <1>3, <2>3, <3>1, <3>2 DEF Received
    <2>4. CASE DequeueAcked(x)
      <3>1. PICK u : u = [run[x] EXCEPT !.acks = @ \ {run[x].remote}, !.remote = Blank(AnId)]
        OBVIOUS
      <3>2. u \in Run
        BY <2>1, <3>1, PlaceholderTypes DEF Run
      <3> QED BY <1>3, <2>4, <3>1, <3>2 DEF DequeueAcked
    <2>5. CASE Serve(x) /\ ~BadBase(run[x].batch)
      <3> DEFINE B == run[x].batch
      <3>1. PICK f \in Orders(Applied(B)) :
               /\ Commit(B, f)
               /\ run' = [run EXCEPT ![x] = AfterAcks([run[x] EXCEPT
                     !.acks = Committed(Applied(B), f), !.inbox = Conflicts(B)])]
        BY <2>5 DEF Serve
      <3>2. /\ Committed(Applied(B), f) \subseteq Envelope /\ Conflicts(B) \subseteq Envelope
        <4>1. B \in SUBSET Entry /\ Pushable(B)
          BY RunFacts DEF CursorInv, HoldsLog, Run
        <4> QED BY <2>5, <3>1, <4>1, CommitFacts DEF CursorInv, LogInv, TypeOK
      <3>3. PICK u : u = [run[x] EXCEPT !.acks = Committed(Applied(B), f), !.inbox = Conflicts(B)]
        OBVIOUS
      <3>4. u \in Run
        BY <2>1, <3>2, <3>3 DEF Run
      <3> QED BY <1>3, <3>1, <3>3, <3>4
    <2>6. CASE PushRound(x)
      <3>1. run'[e] = run[e] \/ run'[e] = IdleRun \/ run'[e].pc = "send"
        BY <1>1, <2>1, <2>6 DEF PushRound, Run
      <3> QED BY <1>2, <3>1 DEF TakenInHand
    <2>7. CASE Send(x) \/ StopLocked(x) \/ (Serve(x) /\ BadBase(run[x].batch))
      BY <1>1, <1>2, <2>7, ZenonT(60) DEF Send, StopLocked, Serve, TakenInHand, Run
    <2>8. CASE Receive(x) \/ PutRemote(x) \/ PeekNone(x) \/ PeekStands(x)
               \/ MergeMine(x) \/ MergeTheirs(x)
      <3>1. CASE Receive(x)
        <4>1. PICK y \in run[x].inbox : run' = [run EXCEPT
                 ![x].remote = y,
                 ![x].pc = IF y.v < envelopes[Host(x)][y.rec].v THEN "received" ELSE "put"]
          BY <3>1 DEF Receive
        <4>2. run'[e] = run[e] \/ run'[e].pc \in {"received", "put"}
          BY <1>1, <2>1, <4>1 DEF Run
        <4> QED BY <4>2 DEF TakenInHand
      <3>2. CASE PutRemote(x)
        BY <1>1, <3>2 DEF PutRemote, TakenInHand, Run
      <3>3. CASE PeekNone(x) \/ PeekStands(x) \/ MergeMine(x) \/ MergeTheirs(x)
        BY <1>1, <3>3 DEF PeekNone, PeekStands, MergeMine, MergeTheirs, TakenInHand, Run
      <3> QED BY <2>8, <3>1, <3>2, <3>3
    <2>9. CASE PeekMerge(x) \/ StoreAcked(x)
      BY <1>1, <2>9 DEF PeekMerge, StoreAcked, TakenInHand
    <2> QED BY <1>4, <2>2, <2>3, <2>4, <2>5, <2>6, <2>7, <2>8, <2>9 DEF RunStep, ReceiveStep
  <1>5. ASSUME run' = run PROVE TakenInHand(e)
    BY <1>5 DEF TakenInHand
  <1>6. ASSUME NEW x \in Engines,
               Hydrate(x) \/ Edited(x) \/ StartRun(x) \/ \E r \in Ids : Write(x, r)
        PROVE  TakenInHand(e)
    <2>1. CASE StartRun(x)
      BY <1>1, <2>1 DEF StartRun, TakenInHand, Run
    <2>2. CASE QueueEdit(x)
      <3>1. run' = [run EXCEPT ![x].pc = IF @ = "idle" THEN "pull" ELSE @]
        BY <2>2 DEF QueueEdit
      <3>2. run'[e] = run[e] \/ run'[e].pc = "pull"
        BY <1>1, <3>1 DEF Run
      <3> QED BY <3>2 DEF TakenInHand
    <2> QED BY <1>5, <1>6, <2>1, <2>2 DEF Hydrate, HydrateEnvelopes, HydrateOutbox, HydrateShow,
                                          Edited, RefuseEdit, Write
  <1>7. ASSUME NEW x \in Engines, Fault(x) PROVE TakenInHand(e)
    BY <1>1, <1>2, <1>7 DEF Fault, ServeUnheard, RequestFails, TakenInHand
  <1>8. ASSUME NEW t \in Tabs, Unlock(t) \/ Lock(t) \/ Reload(t) PROVE TakenInHand(e)
    BY <1>2, <1>5, <1>8 DEF Unlock, Lock, Reload, TakenInHand
  <1>9. ASSUME NEW B \in orphans, ServeOrphan(B) PROVE TakenInHand(e)
    BY <1>5, <1>9 DEF ServeOrphan
  <1>10. CASE UNCHANGED vars
    BY <1>5, <1>10 DEF vars
  <1> QED BY <1>4, <1>6, <1>7, <1>8, <1>9, <1>10 DEF Next

LEMMA QueueNext == QueueInv /\ [Next]_vars => QueueInv'
  <1> SUFFICES ASSUME QueueInv, [Next]_vars, NEW e \in Engines
               PROVE  HeldStored(Host(e), run[e])'
    BY CursorNext DEF QueueInv
  <1>1. /\ CursorInv /\ Grown /\ Host(e) \in Devices /\ run[e] \in Run /\ TakenInHand(e)
        /\ run \in [Engines -> Run] /\ HeldStored(Host(e), run[e])
    BY GrownNext, HandsNext, HostType, RunFacts DEF QueueInv, CursorInv, LogInv, TypeOK
  <1>2. CASE run'[e] = run[e]
    <2>1. run[e].remote.rec \in Ids /\ run[e].remote.v \in Nat
      BY <1>1 DEF Run, Envelope
    <2>2. /\ envelopes[Host(e)][run[e].remote.rec].v \in Nat
          /\ envelopes'[Host(e)][run[e].remote.rec].v \in Nat
          /\ envelopes'[Host(e)][run[e].remote.rec].v
                >= envelopes[Host(e)][run[e].remote.rec].v
      <3>1. CursorInv'
        BY <1>1, CursorNext
      <3>2. /\ envelopes \in [Devices -> [Ids -> Envelope]]
            /\ envelopes' \in [Devices -> [Ids -> Envelope]]
        BY <1>1, <3>1 DEF CursorInv, LogInv, TypeOK
      <3> QED BY <1>1, <2>1, <3>2 DEF Envelope, Grown
    <2> QED BY <1>1, <1>2, <2>1, <2>2 DEF HeldStored
  <1>3. CASE run'[e].pc \notin {"merge", "acked"}
    BY <1>3 DEF HeldStored
  <1>4. CASE PeekMerge(e)
    <2>1. /\ run'[e].pc = "merge" /\ run'[e].pending = Seen(e)
          /\ run'[e].remote = run[e].remote
      BY <1>1, <1>4 DEF PeekMerge, Run
    <2>2. run[e].remote.rec \in Ids /\ run[e].remote.v \in Nat
      BY <1>1 DEF Run, Envelope
    <2>3. Seen(e).v \in Nat
      BY <1>1, <2>2 DEF Seen, CursorInv, LogInv, TypeOK, Entry
    <2> QED BY <1>4, <2>1, <2>2, <2>3 DEF HeldStored, PeekMerge, Stands
  <1>5. CASE StoreAcked(e)
    <2>1. PICK x \in run[e].acks :
             /\ envelopes' = [envelopes EXCEPT ![Host(e)][x.rec] = PutEnvelope(@, x)]
             /\ run' = [run EXCEPT ![e].pc = "acked", ![e].remote = x]
      BY <1>5 DEF StoreAcked
    <2>2. x \in Envelope /\ run'[e].pc = "acked" /\ run'[e].remote = x
      BY <1>1, <2>1 DEF Run
    <2>3. envelopes'[Host(e)][x.rec].v >= x.v
      BY <1>1, <1>5, <2>1, <2>2, PutGrows DEF StoreAcked, CursorInv, server
    <2> QED BY <2>2, <2>3 DEF HeldStored
  <1> QED BY <1>1, <1>2, <1>3, <1>4, <1>5 DEF TakenInHand

(* The steps that empty an entry of the outbox.                             *)
LEMMA Leaves ==
    ASSUME CursorInv, [Next]_vars, NEW d \in Devices, NEW r \in Ids,
           outbox[d][r].v > 0, outbox'[d][r].v = 0
    PROVE  \E e \in Engines :
              /\ d = Host(e) /\ r = run[e].remote.rec /\ envelopes' = envelopes
              /\ \/ run[e].pc = "merge" /\ outbox[d][r].v = run[e].pending.v
                 \/ run[e].pc = "acked" /\ outbox[d][r].v = run[e].remote.v
  <1>1. /\ outbox \in [Devices -> [Ids -> Entry]] /\ outbox[d][r].v \in Nat
        /\ outbox[d][r].v # 0
    BY DEF CursorInv, LogInv, TypeOK, Entry
  <1>2. outbox' # outbox
    BY <1>1
  <1>3. ASSUME NEW e \in Engines, NEW v \in Nat, NEW q \in Ids,
               outbox' = [outbox EXCEPT ![Host(e)][q] = Dequeued(@, v)]
        PROVE  d = Host(e) /\ r = q /\ outbox[d][r].v = v
    <2>1. outbox'[d][r] = IF d = Host(e) /\ r = q THEN Dequeued(outbox[d][r], v) ELSE outbox[d][r]
      BY <1>1, <1>3
    <2> QED BY <1>1, <2>1 DEF Dequeued
  <1>4. ASSUME NEW e \in Engines, NEW v \in Nat, NEW i, NEW q \in Ids,
               outbox' = Queued(Host(e), q, v + 1, i)
        PROVE  FALSE
    <2>1. outbox'[d][r] = outbox[d][r] \/ outbox'[d][r] = [rec |-> q, v |-> v + 1, e |-> i]
      BY <1>1, <1>4 DEF Queued
    <2> QED BY <1>1, <2>1
  <1>5. ASSUME NEW e \in Engines
        PROVE  /\ run[e].remote.rec \in Ids /\ run[e].remote.v \in Nat
               /\ run[e].pending.v \in Nat
               /\ draft[e].rec \in Ids /\ draft[e].base \in Nat
    BY DEF CursorInv, LogInv, TypeOK, Run, Envelope, Entry, Draft
  <1>6. ASSUME NEW e \in Engines, MergeTheirs(e) \/ DequeueAcked(e)
        PROVE  /\ d = Host(e) /\ r = run[e].remote.rec /\ envelopes' = envelopes
               /\ \/ run[e].pc = "merge" /\ outbox[d][r].v = run[e].pending.v
                  \/ run[e].pc = "acked" /\ outbox[d][r].v = run[e].remote.v
    BY <1>3, <1>5, <1>6 DEF MergeTheirs, DequeueAcked
  <1>7. ASSUME NEW e \in Engines, MergeMine(e) \/ QueueEdit(e) PROVE FALSE
    BY <1>4, <1>5, <1>7 DEF MergeMine, QueueEdit
  <1>8. \/ \E e \in Engines : MergeTheirs(e) \/ DequeueAcked(e) \/ MergeMine(e) \/ QueueEdit(e)
        \/ outbox' = outbox
    <2>1. ASSUME NEW e \in Engines, RunStep(e) \/ Fault(e)
          PROVE  MergeTheirs(e) \/ DequeueAcked(e) \/ MergeMine(e) \/ outbox' = outbox
      BY <2>1 DEF RunStep, ReceiveStep, Fault, Pull, Receive, PutRemote, PeekNone, PeekStands,
                  PeekMerge, Received, StopLocked, PushRound, Send, Serve, ServeUnheard,
                  StoreAcked, RequestFails, store
    <2>2. ASSUME NEW e \in Engines,
                 Hydrate(e) \/ Edited(e) \/ StartRun(e) \/ \E q \in Ids : Write(e, q)
          PROVE  QueueEdit(e) \/ outbox' = outbox
      BY <2>2 DEF Hydrate, HydrateEnvelopes, HydrateOutbox, HydrateShow, Edited, RefuseEdit,
                  StartRun, Write, store
    <2>3. ASSUME NEW t \in Tabs, Unlock(t) \/ Lock(t) \/ Reload(t) PROVE outbox' = outbox
      BY <2>3 DEF Unlock, Lock, Reload, store
    <2>4. ASSUME NEW B \in orphans, ServeOrphan(B) PROVE outbox' = outbox
      BY <2>4 DEF ServeOrphan, store
    <2> QED BY <2>1, <2>2, <2>3, <2>4 DEF Next, vars, store
  <1> QED BY <1>2, <1>6, <1>7, <1>8

LEMMA LeavesStored ==
    ASSUME QueueInv, [Next]_vars, NEW d \in Devices, NEW r \in Ids,
           outbox[d][r].v > 0, outbox'[d][r].v = 0
    PROVE  envelopes'[d][r].v >= outbox[d][r].v
  <1>1. PICK e \in Engines :
           /\ d = Host(e) /\ r = run[e].remote.rec /\ envelopes' = envelopes
           /\ \/ run[e].pc = "merge" /\ outbox[d][r].v = run[e].pending.v
              \/ run[e].pc = "acked" /\ outbox[d][r].v = run[e].remote.v
    BY Leaves DEF QueueInv
  <1>2. /\ HeldStored(d, run[e]) /\ RunCovers(d, run[e]) /\ run[e] \in Run
        /\ envelopes[d][r].v \in Nat
    BY <1>1, RunFacts, SMTT(40) DEF QueueInv, CursorInv, RunsCover, LogInv, TypeOK, Envelope
  <1>3. run[e].remote.v \in Nat /\ run[e].pending.v \in Nat
    BY <1>2 DEF Run, Envelope, Entry
  <1> QED BY <1>1, <1>2, <1>3 DEF HeldStored, RunCovers

(* An edit leaves the queue only for something at least as new in the same  *)
(* device's store, whatever two tabs, a lock or a lost answer do between    *)
(* the two transactions (engine.ts, push and receive).                      *)
THEOREM LeavesQueueWhenStoredHolds == Spec => LeavesQueueWhenStored
  <1> DEFINE Step == \A d \in Devices, r \in Ids :
                outbox[d][r].v > 0 /\ outbox'[d][r].v = 0
                    => envelopes'[d][r].v >= outbox[d][r].v
  <1>1. Init => QueueInv
    <2>1. Init => \A e \in Engines : HeldStored(Host(e), run[e])
      BY DEF Init, IdleRun, HeldStored
    <2> QED BY <2>1, CursorInit DEF QueueInv
  <1>2. QueueInv /\ [Next]_vars => [Step]_vars
    BY LeavesStored
  <1> QED BY <1>1, <1>2, QueueNext, PTL DEF Spec, LeavesQueueWhenStored
------------------------------------------------------------------------------
(* A caught-up tab shows what the server has *)

LEMMA ShownInit == Init => ShownInv
  <1> SUFFICES ASSUME Init PROVE ShownInv
    OBVIOUS
  <1>1. CursorInv
    BY CursorInit
  <1>2. /\ \A e \in Engines : ~mounted[e] /\ run[e] = IdleRun /\ hydrating[e] = NotLoading
        /\ log = {}
        /\ \A d \in Devices, r \in Ids : envelopes[d][r] = Blank(r) /\ outbox[d][r] = NoEntry(r)
    BY DEF Init
  <1>3. NoVersionNoContent
    <2>1. \A r : Blank(r).v = 0 /\ Blank(r).e = 0 /\ NoEntry(r).v = 0 /\ NoEntry(r).e = 0
      BY DEF Blank, NoEntry
    <2> QED BY <1>2, <2>1 DEF NoVersionNoContent
  <1>4. \A e \in Engines : EngineShows(e)
    <2> SUFFICES ASSUME NEW e \in Engines PROVE EngineShows(e)
      OBVIOUS
    <2>1. ~mounted[e] /\ hydrating[e] = NotLoading /\ run[e].pc = "idle" /\ run[e].inbox = {}
      BY <1>2 DEF IdleRun
    <2> QED BY <2>1 DEF EngineShows, TabShows, PageIsWhole, HandShows, AcksComeBack
  <1> QED BY <1>1, <1>2, <1>3, <1>4 DEF ShownInv

(* The device has a row its cursor is past as it is.                        *)
LEMMA PastIsStored ==
    ASSUME CursorInv, NEW d \in Devices, NEW r \in Ids, records[r].seq <= cursor[d]
    PROVE  Content(envelopes[d][r]) = Visible(r)
  <1>1. /\ envelopes[d][r] \in Envelope /\ records[r] \in Envelope /\ recordSeq \in Nat
        /\ envelopes[d][r].rec = r /\ records[r].rec = r
        /\ envelopes[d][r].v > 0 => envelopes[d][r] \in log /\ envelopes[d][r].v <= records[r].v
    BY DEF CursorInv, LogInv, TypeOK, StoresHoldLog, LogIsLinear
  <1>2. CASE records[r].v = 0
    BY <1>1, <1>2 DEF Content, Visible, Envelope
  <1>3. CASE records[r].v > 0
    <2>1. envelopes[d][r].v >= records[r].v
      BY <1>3 DEF CursorInv, CursorSkipsNothing
    <2>2. envelopes[d][r].v = records[r].v /\ envelopes[d][r].v > 0
      BY <1>1, <1>3, <2>1 DEF Envelope
    <2>3. envelopes[d][r] = records[r]
      BY <1>1, <1>3, <2>2 DEF CursorInv, LogInv, LogIsLinear
    <2> QED BY <2>3 DEF Visible
  <1> QED BY <1>1, <1>2, <1>3 DEF Envelope

(* Nothing known changes its content.                                       *)
LEMMA ContentKept ==
    ASSUME ShownInv, EditsGrow, NEW x \in Envelope, x \in log \/ x.v = 0
    PROVE  Content(x)' = Content(x)
  BY DEF ShownInv, EditsGrow, Known, Content, Envelope

LEMMA RowsKept ==
    ASSUME CursorInv, CursorInv', Grown, NEW d \in Devices, NEW r \in Ids,
           records'[r].seq <= cursor[d] \/ records'[r].seq <= recordSeq
    PROVE  records'[r] = records[r]
  <1>1. records'[r].seq \in Nat
    BY DEF CursorInv, LogInv, TypeOK, Envelope
  <1>2. recordSeq \in Nat /\ cursor[d] \in Nat /\ cursor[d] <= recordSeq
    BY DEF CursorInv, CursorsInRange, LogInv, TypeOK
  <1> QED BY <1>1, <1>2 DEF Grown

LEMMA VisibleKept ==
    ASSUME ShownInv, CursorInv', Grown, EditsGrow, NEW r \in Ids, records'[r] = records[r]
    PROVE  Visible(r)' = Visible(r)
  <1>1. records[r] \in Envelope /\ (records[r].v = 0 \/ records[r] \in log)
    BY DEF ShownInv, CursorInv, LogInv, TypeOK, LogIsLinear, Envelope
  <1>3. (edits'[records[r].e]).del = (edits[records[r].e]).del \/ records[r].v = 0
    BY <1>1 DEF ShownInv, EditsGrow, Known, Envelope
  <1> QED BY <1>1, <1>3 DEF Visible, Content

(* A tab that shows its settled rows goes on to: what is newly settled is   *)
(* shown, and what was settled is neither replaced nor hidden.              *)
LEMMA TabKept ==
    ASSUME ShownInv, CursorInv', Grown, EditsGrow, NEW e \in Engines,
           mounted'[e] = mounted[e], mounted[e] => unlocked'[TabOf[e]] /\ Ready(e),
           hydrating'[e] = hydrating[e],
           cursor'[Host(e)] \in Nat,
           mounted[e] => \A r \in Ids : Settled(Host(e), r)' =>
               \/ Settled(Host(e), r) /\ cache'[e][r] = cache[e][r] /\ cursor'[Host(e)] <= recordSeq
               \/ cache'[e][r] = Visible(r)'
    PROVE  TabShows(e)'
  <1> SUFFICES ASSUME mounted'[e]
               PROVE  /\ unlocked'[TabOf[e]] /\ Ready(e)'
                      /\ \A r \in Ids : Settled(Host(e), r)' => cache'[e][r] = Visible(r)'
    BY DEF TabShows, ShownInv, EngineShows
  <1>1. Ready(e)' = Ready(e)
    BY DEF Ready, AllShown
  <1>2. ASSUME NEW r \in Ids, Settled(Host(e), r)', Settled(Host(e), r),
               cache'[e][r] = cache[e][r], cursor'[Host(e)] <= recordSeq
        PROVE  cache'[e][r] = Visible(r)'
    <2>1. records'[r].seq \in Nat /\ recordSeq \in Nat
      BY DEF ShownInv, CursorInv, LogInv, TypeOK, Envelope
    <2>2. records'[r].seq <= recordSeq
      BY <1>2, <2>1 DEF Settled
    <2>3. records'[r] = records[r]
      BY <2>1, <2>2 DEF Grown
    <2> QED BY <1>2, <2>3, VisibleKept DEF ShownInv, EngineShows, TabShows
  <1> QED BY <1>1, <1>2

(* The pages in hand stay whole: rows committed later get later seqs.       *)
LEMMA PageKept ==
    ASSUME ShownInv, CursorInv', Grown, NEW e \in Engines, cursor'[Host(e)] = cursor[Host(e)],
           run'[e].batch = {} =>
               run'[e].inbox = {} \/ (run[e].batch = {} /\ run'[e].inbox = run[e].inbox)
    PROVE  PageIsWhole(e)'
  <1> SUFFICES ASSUME run'[e].batch = {}, NEW x \in run'[e].inbox, NEW r \in Ids,
                      cursor[Host(e)] < records'[r].seq, records'[r].seq <= x.seq
               PROVE  records'[r] \in run'[e].inbox
    BY DEF PageIsWhole
  <1>1. run[e].batch = {} /\ run'[e].inbox = run[e].inbox
    OBVIOUS
  <1>2. x \in Envelope /\ x.seq <= recordSeq /\ recordSeq \in Nat /\ records'[r].seq \in Nat
    BY <1>1, RunFacts DEF ShownInv, CursorInv, LogInv, LogIsLinear, TypeOK, Envelope, RunHoldsLog
  <1>3. records'[r] = records[r]
    BY <1>2 DEF Grown, Envelope
  <1> QED BY <1>1, <1>3 DEF ShownInv, EngineShows, PageIsWhole

(* What is in hand stays as good, while its device and its tab do.          *)
LEMMA HandKept ==
    ASSUME ShownInv, CursorInv', Grown, EditsGrow, NEW e \in Engines, run'[e] = run[e],
           envelopes'[Host(e)] = envelopes[Host(e)], cursor'[Host(e)] = cursor[Host(e)],
           mounted'[e] => mounted[e],
           mounted'[e] => \A r \in Ids :
               outbox'[Host(e)][r].v = 0 => outbox[Host(e)][r].v = 0 /\ cache'[e][r] = cache[e][r]
    PROVE  HandShows(e)' /\ AcksComeBack(e)'
  <1> DEFINE x == run[e].remote
  <1>1. /\ run[e] \in Run /\ RunHoldsLog(run[e]) /\ Host(e) \in Devices /\ recordSeq \in Nat
        /\ cursor[Host(e)] \in Nat /\ cursor[Host(e)] <= recordSeq
        /\ run[e].pc \in InHand => x \in log /\ x \in Envelope /\ x.rec \in Ids
    BY RunFacts, HostType DEF ShownInv, CursorInv, CursorsInRange, LogInv, TypeOK, RunHoldsLog, Envelope
  <1>2. \A r \in Ids : records[r].seq > cursor[Host(e)] => records'[r].seq > cursor[Host(e)]
    <2> TAKE r \in Ids
    <2>1. records'[r].seq \in Nat /\ records[r].seq \in Nat
      BY DEF ShownInv, CursorInv, LogInv, TypeOK, Envelope
    <2> QED BY <1>1, <2>1 DEF Grown
  <1>3. AcksComeBack(e)'
    <2>1. \A y \in run[e].acks : y.rec \in Ids
      BY <1>1 DEF Run, Envelope
    <2> QED BY <1>1, <1>2, <2>1 DEF AcksComeBack, ShownInv, EngineShows, InHand
  <1>4. ASSUME run[e].pc = "received", run[e].batch = {}, mounted'[e],
               outbox'[Host(e)][x.rec].v = 0, records'[x.rec] = x
        PROVE  cache'[e][x.rec] = Visible(x.rec)'
    <2>1. x \in log /\ x \in Envelope /\ x.rec \in Ids /\ x.seq <= recordSeq /\ x.seq \in Nat
      BY <1>1, <1>4 DEF InHand, ShownInv, CursorInv, LogInv, LogIsLinear, Envelope
    <2>2. records'[x.rec] = records[x.rec]
      BY <1>1, <1>4, <2>1 DEF Grown
    <2>3. cache[e][x.rec] = Visible(x.rec)
      BY <1>4, <2>1, <2>2 DEF ShownInv, EngineShows, HandShows
    <2> QED BY <1>4, <2>1, <2>2, <2>3, VisibleKept
  <1>5. run[e].pc \in {"put", "peek", "merge"} => x.rec \in Ids
    BY <1>1 DEF InHand
  <1>6. HandShows(e)'
    BY <1>4, <1>5 DEF HandShows, ShownInv, EngineShows
  <1> QED BY <1>3, <1>6

(* A step of another engine, on another device.                             *)
Apart(e) ==
    /\ envelopes'[Host(e)] = envelopes[Host(e)] /\ outbox'[Host(e)] = outbox[Host(e)]
    /\ cursor'[Host(e)] = cursor[Host(e)] /\ unlocked'[TabOf[e]] = unlocked[TabOf[e]]
    /\ mounted'[e] = mounted[e] /\ cache'[e] = cache[e] /\ hydrating'[e] = hydrating[e]
    /\ draft'[e] = draft[e] /\ run'[e] = run[e]

LEMMA StoredContentKept ==
    ASSUME ShownInv, EditsGrow, NEW d \in Devices, NEW r \in Ids, envelopes'[d] = envelopes[d]
    PROVE  Content(envelopes[d][r])' = Content(envelopes[d][r])
  <1>1. /\ envelopes[d][r] \in Envelope
        /\ envelopes[d][r] \in log \/ envelopes[d][r].v = 0
    BY DEF ShownInv, CursorInv, LogInv, TypeOK, StoresHoldLog, Envelope
  <1>2. edits'[envelopes[d][r].e].del = edits[envelopes[d][r].e].del \/ envelopes[d][r].v = 0
    BY <1>1 DEF ShownInv, EditsGrow, Known, Envelope
  <1> QED BY <1>2 DEF Content

LEMMA ApartShows ==
    ASSUME ShownInv, CursorInv', Grown, EditsGrow, NEW e \in Engines, Apart(e)
    PROVE  EngineShows(e)'
  <1>1. HandShows(e)' /\ AcksComeBack(e)'
    BY HandKept DEF Apart
  <1>2. PageIsWhole(e)'
    BY PageKept DEF Apart
  <1>3. /\ Host(e) \in Devices /\ cursor'[Host(e)] \in Nat /\ cursor'[Host(e)] <= recordSeq
        /\ cursor[Host(e)] \in Nat /\ recordSeq \in Nat
    BY HostType DEF Apart, ShownInv, CursorInv, CursorsInRange, LogInv, TypeOK
  <1>4. CASE mounted[e] => Ready(e)
    <2>1. ASSUME NEW r \in Ids, Settled(Host(e), r)' PROVE Settled(Host(e), r)
      <3>1. records'[r].seq \in Nat /\ records'[r].seq <= recordSeq
        BY <1>3, <2>1 DEF Apart, Settled, ShownInv, CursorInv, LogInv, TypeOK, Envelope
      <3>2. records'[r] = records[r]
        BY <1>3, <3>1 DEF Grown
      <3> QED BY <2>1, <3>2 DEF Apart, Settled
    <2>2. mounted[e] => unlocked'[TabOf[e]]
      BY DEF Apart, ShownInv, EngineShows, TabShows
    <2>3. TabShows(e)'
      BY <1>3, <1>4, <2>1, <2>2, TabKept DEF Apart
    <2> QED BY <1>1, <1>2, <2>3 DEF EngineShows
  <1>5. CASE mounted[e] /\ ~Ready(e)
    <2>1. ~Ready(e)' /\ mounted'[e] /\ unlocked'[TabOf[e]] /\ run'[e].pc = "idle" /\ draft'[e] = NoDraft
      BY <1>5 DEF Apart, Ready, AllShown, ShownInv, EngineShows, TabShows
    <2>2. \A r \in Ids : Content(envelopes[Host(e)][r])' = Content(envelopes[Host(e)][r])
      BY <1>3, StoredContentKept DEF Apart
    <2>3. HydrateShows(e)'
      BY <1>5, <2>2 DEF Apart, HydrateShows, ShownInv, EngineShows, TabShows
    <2> QED BY <1>1, <1>2, <2>1, <2>3 DEF EngineShows, TabShows
  <1> QED BY <1>4, <1>5

LEMMA EditsGrowNext == LogInv /\ [Next]_vars => EditsGrow
  <1> SUFFICES ASSUME LogInv, [Next]_vars PROVE EditsGrow
    OBVIOUS
  <1>1. /\ edits \in Seq(Edit) /\ Len(edits) \in Nat
    BY DEF LogInv, TypeOK
  <1>2. CASE edits' = edits
    BY <1>1, <1>2 DEF EditsGrow
  <1>3. ASSUME NEW e \in Engines, QueueEdit(e) PROVE EditsGrow
    <2>1. PICK w : edits' = Append(edits, w)
      BY <1>3, SMTT(60) DEF QueueEdit
    <2> QED BY <1>1, <2>1 DEF EditsGrow
  <1>4. edits' = edits \/ \E e \in Engines : QueueEdit(e)
    BY ZenonT(40) DEF Next, vars, Unlock, Lock, Reload, Write, Hydrate, HydrateEnvelopes, HydrateOutbox,
           HydrateShow, Edited, RefuseEdit, StartRun, RunStep, Pull, ReceiveStep, Receive, PutRemote,
           PeekNone, PeekStands, PeekMerge, MergeMine, MergeTheirs, Received, StopLocked, PushRound,
           Send, Serve, StoreAcked, DequeueAcked, Fault, ServeUnheard, RequestFails, ServeOrphan
  <1> QED BY <1>2, <1>3, <1>4

(* With one engine to a device, a step is of one of them and apart from all *)
(* others: the store, the page and the run it changes are its own.          *)
LEMMA OthersApart ==
    ASSUME LogInv, OneEngineADevice, NEW e \in Engines, NEW f \in Engines, f # e,
           Hydrate(e) \/ Edited(e) \/ StartRun(e) \/ RunStep(e) \/ Fault(e) \/ \E r \in Ids : Write(e, r)
    PROVE  Apart(f)
  <1>1. /\ Host(f) # Host(e) /\ TabOf[f] # TabOf[e]
        /\ Host(f) \in Devices /\ Host(e) \in Devices /\ TypeOK
    BY HostType DEF OneEngineADevice, Host, LogInv
  <1> USE DEF server, store, page
  <1>2. CASE Hydrate(e)
    BY <1>1, <1>2 DEF Hydrate, HydrateEnvelopes, HydrateOutbox, HydrateShow, Shown, Apart, TypeOK
  <1>3. CASE Edited(e) \/ StartRun(e) \/ \E r \in Ids : Write(e, r)
    BY <1>1, <1>3 DEF Edited, QueueEdit, RefuseEdit, StartRun, Write, Shown, Queued, Apart, TypeOK
  <1>4. CASE Pull(e) \/ StopLocked(e) \/ PushRound(e) \/ Send(e)
    BY <1>1, <1>4 DEF Pull, StopLocked, PushRound, Send, Apart, TypeOK
  <1>5. CASE ReceiveStep(e)
    <2>1. CASE Receive(e) \/ PutRemote(e) \/ PeekStands(e) \/ PeekMerge(e) \/ Received(e)
      BY <1>1, <2>1 DEF Receive, PutRemote, PeekStands, PeekMerge, Received, Apart, TypeOK
    <2>2. CASE PeekNone(e) \/ MergeMine(e) \/ MergeTheirs(e)
      BY <1>1, <2>2 DEF PeekNone, MergeMine, MergeTheirs, Shown, Queued, Apart, TypeOK
    <2> QED BY <1>5, <2>1, <2>2 DEF ReceiveStep
  <1>6. CASE Serve(e) \/ Fault(e)
    BY <1>1, <1>6 DEF Serve, Fault, ServeUnheard, RequestFails, Apart, TypeOK
  <1>7. CASE StoreAcked(e) \/ DequeueAcked(e)
    BY <1>1, <1>7 DEF StoreAcked, DequeueAcked, Apart, TypeOK
  <1> QED BY <1>2, <1>3, <1>4, <1>5, <1>6, <1>7 DEF RunStep

(* Of a run that is going, the tab is ready.                                *)
LEMMA GoingIsReady ==
    ASSUME ShownInv, NEW e \in Engines, run[e].pc # "idle" \/ draft[e] # NoDraft, mounted[e]
    PROVE  Ready(e) /\ unlocked[TabOf[e]]
  BY DEF ShownInv, EngineShows, TabShows

(* A step that touches neither the store nor the page.                      *)
LEMMA RunOnlyKeepsTab ==
    ASSUME ShownInv, CursorInv', Grown, EditsGrow, NEW e \in Engines,
           UNCHANGED <<outbox, cursor, unlocked, page>>, mounted[e] => Ready(e)
    PROVE  TabShows(e)'
  <1>1. /\ Host(e) \in Devices /\ cursor'[Host(e)] \in Nat /\ cursor'[Host(e)] <= recordSeq
        /\ recordSeq \in Nat
    BY HostType DEF ShownInv, CursorInv, CursorsInRange, LogInv, TypeOK
  <1>2. ASSUME NEW r \in Ids, Settled(Host(e), r)' PROVE Settled(Host(e), r)
    <2>1. records'[r].seq \in Nat /\ records'[r].seq <= recordSeq
      BY <1>1, <1>2 DEF Settled, CursorInv, LogInv, TypeOK, Envelope
    <2>2. records'[r] = records[r]
      BY <1>1, <2>1 DEF Grown
    <2> QED BY <1>2, <2>2 DEF Settled
  <1>3. mounted[e] => unlocked'[TabOf[e]]
    BY DEF ShownInv, EngineShows, TabShows
  <1> QED BY <1>1, <1>2, <1>3, TabKept DEF page

(* The run of e goes on with nothing in hand.                               *)
LEMMA FreeHand ==
    ASSUME NEW e, run'[e].pc \notin InHand \cup {"settle"}
    PROVE  HandShows(e)' /\ AcksComeBack(e)'
  BY DEF HandShows, AcksComeBack, InHand

LEMMA StartShows ==
    ASSUME ShownInv, CursorInv', Grown, EditsGrow, NEW e \in Engines,
           StartRun(e) \/ StopLocked(e) \/ PushRound(e) \/ Send(e) \/ RequestFails(e)
    PROVE  EngineShows(e)'
  <1>1. /\ run \in [Engines -> Run] /\ run[e] \in Run /\ UNCHANGED <<outbox, cursor, unlocked, page>>
    BY RunFacts DEF ShownInv, CursorInv, LogInv, TypeOK,
           StartRun, StopLocked, PushRound, Send, RequestFails, store
  <1>2. mounted[e] => Ready(e)
    BY GoingIsReady DEF StartRun, StopLocked, PushRound, Send, RequestFails
  <1>3. TabShows(e)'
    BY <1>1, <1>2, RunOnlyKeepsTab
  <1>4. IdleRun.pc = "idle" /\ IdleRun.inbox = {}
    BY DEF IdleRun
  <1>5. /\ run'[e].pc \notin InHand \cup {"settle"}
        /\ run'[e].batch = {} =>
              run'[e].inbox = {} \/ (run[e].batch = {} /\ run'[e].inbox = run[e].inbox)
    <2>1. CASE StartRun(e)
      BY <1>1, <2>1 DEF StartRun, Run, InHand
    <2>2. CASE StopLocked(e) \/ RequestFails(e)
      BY <1>1, <1>4, <2>2 DEF StopLocked, RequestFails, InHand
    <2>3. CASE PushRound(e)
      BY <1>1, <1>4, <2>3 DEF PushRound, Run, InHand
    <2>4. ASSUME NEW B, B # {}, NEW u, run' = [run EXCEPT ![e].pc = "sent", ![e].batch = B, ![e].unsent = u]
          PROVE  run'[e].pc = "sent" /\ run'[e].batch # {}
      BY <1>1, <2>4 DEF Run
    <2>5. CASE Send(e)
      BY <2>4, <2>5 DEF Send, InHand
    <2> QED BY <2>1, <2>2, <2>3, <2>5
  <1>6. PageIsWhole(e)'
    BY <1>1, <1>5, PageKept
  <1> QED BY <1>3, <1>5, <1>6, FreeHand DEF EngineShows

LEMMA PullShows ==
    ASSUME ShownInv, CursorInv', NEW e \in Engines, Pull(e)
    PROVE  EngineShows(e)'
  <1> DEFINE c == cursor[Host(e)]
  <1>1. /\ Grown /\ EditsGrow /\ UNCHANGED <<records, outbox, cursor, unlocked, page>>
        /\ c \in Nat /\ LogInv /\ run[e].pc = "pull"
        /\ run \in [Engines -> Run] /\ run[e] \in Run /\ Page(c) \subseteq Envelope
    BY Still, Unchanged, HostType, RunFacts
       DEF ShownInv, CursorInv, LogInv, TypeOK, Pull, server, store, Page, Newer
  <1>2. TabShows(e)'
    BY <1>1, GoingIsReady, RunOnlyKeepsTab
  <1>3. PICK u \in Run : u.inbox = Page(c) /\ run' = [run EXCEPT ![e] = AfterInbox(u)]
    <2> DEFINE w == [run[e] EXCEPT !.inbox = Page(c), !.full = (Cardinality(Page(c)) = PullPage)]
    <2>1. w \in Run /\ w.inbox = Page(c)
      BY <1>1 DEF Run
    <2> QED BY <2>1 DEF Pull
  <1>4. run'[e].inbox = Page(c) /\ run'[e].pc \notin InHand \cup {"settle"}
    BY <1>1, <1>3 DEF AfterInbox, Run, InHand
  <1>5. PageIsWhole(e)'
    BY <1>1, <1>4, OldestFirst DEF PageIsWhole
  <1> QED BY <1>2, <1>4, <1>5, FreeHand DEF EngineShows

(* receive() before it changes what is shown.                               *)
LEMMA ReceiveShows ==
    ASSUME ShownInv, CursorInv', NEW e \in Engines,
           Receive(e) \/ PutRemote(e) \/ PeekStands(e) \/ PeekMerge(e)
    PROVE  EngineShows(e)'
  <1> DEFINE d == Host(e)
             x == run[e].remote
  <1>1. /\ d \in Devices /\ LogInv /\ run \in [Engines -> Run] /\ run[e] \in Run
        /\ UNCHANGED <<records, recordSeq, outbox, cursor, unlocked, page, edits>> /\ EditsGrow
        /\ run[e].pc \in InHand => x \in log /\ x \in Envelope
        /\ run[e].inbox \subseteq Envelope /\ run[e].inbox \subseteq log
    BY HostType, RunFacts, Unchanged
       DEF ShownInv, CursorInv, LogInv, TypeOK, Receive, PutRemote, PeekStands, PeekMerge, RunHoldsLog,
           server, store, Run
  <1>2. Grown
    BY <1>1, Still, PutGrows DEF Receive, PutRemote, PeekStands, PeekMerge, InHand, store
  <1>3. TabShows(e)'
    BY <1>1, <1>2, GoingIsReady, RunOnlyKeepsTab DEF Receive, PutRemote, PeekStands, PeekMerge
  <1>4. run'[e].batch = run[e].batch /\ run'[e].inbox = run[e].inbox
    BY <1>1, ZenonT(60) DEF Receive, PutRemote, PeekStands, PeekMerge, Run
  <1>5. PageIsWhole(e)'
    BY <1>1, <1>2, <1>4, PageKept
  <1>6. CASE Receive(e)
    <2>1. PICK y \in run[e].inbox :
             run' = [run EXCEPT ![e].remote = y,
                        ![e].pc = IF y.v < envelopes[d][y.rec].v THEN "received" ELSE "put"]
      BY <1>6 DEF Receive
    <2>2. /\ run'[e].remote = y
          /\ run'[e].pc = IF y.v < envelopes[d][y.rec].v THEN "received" ELSE "put"
      BY <1>1, <2>1 DEF Run
    <2>3. /\ y \in Envelope /\ y.rec \in Ids /\ envelopes[d][y.rec] \in Envelope
          /\ records[y.rec] \in Envelope
      BY <1>1 DEF Envelope, LogInv, TypeOK
    <2>4. envelopes' = envelopes
      BY <1>6 DEF Receive, store
    <2>5. envelopes[d][y.rec].v > 0 => envelopes[d][y.rec].v <= records[y.rec].v
      BY <1>1, <2>3 DEF LogInv, StoresHoldLog, LogIsLinear
    <2>6. y.v < envelopes[d][y.rec].v => records[y.rec] # y
      BY <2>3, <2>4, <2>5 DEF Envelope
    <2>7. ~(y.v < envelopes[d][y.rec].v) => envelopes[d][y.rec].v <= y.v
      BY <2>3, <2>4, <2>5 DEF Envelope
    <2>8. HandShows(e)' /\ AcksComeBack(e)'
      BY <1>1, <2>2, <2>3, <2>4, <2>5, <2>6, <2>7 DEF HandShows, AcksComeBack
    <2> QED BY <1>3, <1>5, <2>8 DEF EngineShows
  <1>7. CASE PutRemote(e)
    <2>1. /\ run'[e].remote = x /\ run'[e].pc = "peek" /\ x \in Envelope /\ x.rec \in Ids
          /\ envelopes[d][x.rec].v <= x.v
      BY <1>1, <1>7 DEF PutRemote, Run, InHand, ShownInv, EngineShows, HandShows, Envelope
    <2>2. envelopes'[d][x.rec] = x
      BY <1>1, <1>7, <2>1 DEF PutRemote, PutEnvelope, LogInv, TypeOK, Envelope
    <2> QED BY <1>3, <1>5, <2>1, <2>2 DEF EngineShows, HandShows, AcksComeBack
  <1>8. CASE PeekStands(e)
    <2>1. /\ run'[e].remote = x /\ run'[e].pc = "received" /\ x.rec \in Ids
          /\ outbox[d][x.rec].v > x.v /\ outbox[d][x.rec] \in Entry /\ x.v \in Nat
      BY <1>1, <1>8 DEF PeekStands, Run, InHand, Seen, Stands, Envelope, LogInv, TypeOK
    <2>2. outbox'[d][x.rec].v # 0
      BY <1>1, <2>1 DEF Entry
    <2> QED BY <1>3, <1>5, <2>1, <2>2 DEF EngineShows, HandShows, AcksComeBack
  <1>9. CASE PeekMerge(e)
    <2>1. run'[e].remote = x /\ run'[e].pc = "merge" /\ envelopes' = envelopes /\ run[e].pc = "peek"
      BY <1>1, <1>9 DEF PeekMerge, Run, store
    <2>2. envelopes[d][x.rec] = x
      BY <2>1 DEF ShownInv, EngineShows, HandShows
    <2> QED BY <1>3, <1>5, <2>1, <2>2 DEF EngineShows, HandShows, AcksComeBack
  <1> QED BY <1>6, <1>7, <1>8, <1>9

(* What receive() and write() put on the page: the record they are about,   *)
(* the row itself unless it is newer or an edit is queued.                  *)
LEMMA ShowingKeepsTab ==
    ASSUME ShownInv, CursorInv', Grown, EditsGrow, NEW e \in Engines, NEW r \in Ids,
           UNCHANGED <<cursor, unlocked, mounted, hydrating>>, mounted[e] => Ready(e),
           mounted[e] => /\ \A q \in Ids \ {r} : /\ outbox'[Host(e)][q] = outbox[Host(e)][q]
                                                 /\ cache'[e][q] = cache[e][q]
                         /\ Settled(Host(e), r)' => cache'[e][r] = Visible(r)'
    PROVE  TabShows(e)'
  <1>1. /\ Host(e) \in Devices /\ cursor'[Host(e)] \in Nat /\ cursor'[Host(e)] <= recordSeq
        /\ recordSeq \in Nat
    BY HostType DEF ShownInv, CursorInv, CursorsInRange, LogInv, TypeOK
  <1>2. ASSUME mounted[e], NEW q \in Ids \ {r}, Settled(Host(e), q)' PROVE Settled(Host(e), q)
    <2>1. records'[q].seq \in Nat /\ records'[q].seq <= recordSeq
      BY <1>1, <1>2 DEF Settled, CursorInv, LogInv, TypeOK, Envelope
    <2>2. records'[q] = records[q]
      BY <1>1, <2>1 DEF Grown
    <2> QED BY <1>2, <2>2 DEF Settled
  <1>3. mounted[e] => unlocked'[TabOf[e]]
    BY DEF ShownInv, EngineShows, TabShows
  <1>4. mounted[e] => \A q \in Ids : Settled(Host(e), q)' =>
               \/ Settled(Host(e), q) /\ cache'[e][q] = cache[e][q] /\ cursor'[Host(e)] <= recordSeq
               \/ cache'[e][q] = Visible(q)'
    BY <1>1, <1>2
  <1> QED BY <1>1, <1>3, <1>4, TabKept

LEMMA MergeShows ==
    ASSUME ShownInv, CursorInv', NEW e \in Engines, PeekNone(e) \/ MergeMine(e) \/ MergeTheirs(e)
    PROVE  EngineShows(e)'
  <1> DEFINE d == Host(e)
             p == run[e].pending
  <1>0. PICK x : x = run[e].remote
    OBVIOUS
  <1>1. /\ d \in Devices /\ LogInv /\ run \in [Engines -> Run] /\ run[e] \in Run
        /\ UNCHANGED <<records, recordSeq, envelopes, cursor, unlocked, mounted, hydrating, edits>>
        /\ EditsGrow /\ x \in log /\ x \in Envelope /\ x.rec \in Ids /\ x.v \in Nat \ {0}
        /\ TabOf[e] \in Tabs
    <2>1. d \in Devices /\ TabOf[e] \in Tabs /\ LogInv /\ run \in [Engines -> Run] /\ run[e] \in Run
      BY HostType, RunFacts DEF ShownInv, CursorInv, LogInv, TypeOK
    <2>2. /\ UNCHANGED <<records, recordSeq, log, envelopes, cursor, unlocked, mounted, hydrating, edits>>
          /\ run[e].pc \in {"peek", "merge"}
      BY DEF PeekNone, MergeMine, MergeTheirs, server, store
    <2>3. x \in log /\ x \in Envelope
      BY <1>0, <2>1, <2>2, RunFacts DEF InHand
    <2>4. x.rec \in Ids /\ x.v \in Nat \ {0}
      BY <2>1, <2>3 DEF Envelope, LogInv, LogIsLinear
    <2> QED BY <2>1, <2>2, <2>3, <2>4, Unchanged DEF LogInv
  <1>2. Grown
    BY <1>1, Still
  <1>3. mounted[e] => Ready(e) /\ unlocked[TabOf[e]]
    BY GoingIsReady DEF PeekNone, MergeMine, MergeTheirs
  <1>4. envelopes[d][x.rec] = x
    BY <1>0 DEF PeekNone, MergeMine, MergeTheirs, ShownInv, EngineShows, HandShows
  <1>5. /\ run'[e].pc = "received" /\ run'[e].remote = x
        /\ run'[e].batch = run[e].batch /\ run'[e].inbox = run[e].inbox
    BY <1>0, <1>1 DEF PeekNone, MergeMine, MergeTheirs, Run
  <1>6. PageIsWhole(e)'
    BY <1>1, <1>2, <1>5, PageKept
  <1>7. /\ \A q \in Ids \ {x.rec} : /\ outbox'[d][q] = outbox[d][q]
                                    /\ cache'[e][q] = cache[e][q]
        /\ outbox'[d][x.rec].v = 0 /\ mounted[e] => cache'[e][x.rec] = Content(x)
    <2>1. CASE PeekNone(e)
      BY <1>0, <1>1, <1>3, <2>1 DEF PeekNone, Shown, Content, LogInv, TypeOK, store
    <2>2. CASE MergeMine(e)
      <3>1. outbox'[d][x.rec].v = x.v + 1
        BY <1>0, <1>1, <2>2 DEF MergeMine, Queued, LogInv, TypeOK
      <3>2. \A q \in Ids \ {x.rec} : outbox'[d][q] = outbox[d][q] /\ cache'[e][q] = cache[e][q]
        BY <1>0, <1>1, <2>2 DEF MergeMine, Queued, Shown, LogInv, TypeOK
      <3> QED BY <1>1, <3>1, <3>2
    <2>3. CASE MergeTheirs(e)
      BY <1>0, <1>1, <1>3, <2>3 DEF MergeTheirs, Shown, Content, LogInv, TypeOK
    <2> QED BY <2>1, <2>2, <2>3
  <1>8. records[x.rec] = x => Visible(x.rec)' = Content(x)
    BY <1>1 DEF Visible, Content
  <1>9. mounted[e] /\ Settled(d, x.rec)' => cache'[e][x.rec] = Visible(x.rec)'
    <2>1. records[x.rec].seq <= cursor[d] => Visible(x.rec) = Content(x)
      BY <1>1, <1>4, PastIsStored DEF ShownInv
    <2>2. Visible(x.rec)' = Visible(x.rec)
      BY <1>1 DEF Visible, Content
    <2> QED BY <1>1, <1>7, <2>1, <2>2 DEF Settled
  <1>10. TabShows(e)'
    BY <1>1, <1>2, <1>3, <1>7, <1>9, ShowingKeepsTab
  <1>11. HandShows(e)' /\ AcksComeBack(e)'
    BY <1>1, <1>5, <1>7, <1>8 DEF HandShows, AcksComeBack
  <1> QED BY <1>6, <1>10, <1>11 DEF EngineShows

LEMMA EditShows ==
    ASSUME ShownInv, CursorInv', EditsGrow, ~EarlyWrites, NEW e \in Engines,
           Edited(e) \/ \E r \in Ids : Write(e, r)
    PROVE  EngineShows(e)'
  <1> DEFINE d == Host(e)
             w == draft[e]
  <1>1. /\ d \in Devices /\ LogInv /\ run \in [Engines -> Run] /\ run[e] \in Run
        /\ UNCHANGED <<records, recordSeq, envelopes, cursor, unlocked, mounted, hydrating>>
        /\ w \in Draft /\ w.rec \in Ids /\ w.base \in Nat
    BY HostType, RunFacts DEF ShownInv, CursorInv, LogInv, TypeOK, Draft,
           Edited, QueueEdit, RefuseEdit, Write, server, store, page
  <1>2. Grown
    BY <1>1, Still
  <1>3. mounted[e] => Ready(e)
    BY GoingIsReady DEF Edited, QueueEdit, RefuseEdit, Write
  <1>4. CASE RefuseEdit(e) \/ \E r \in Ids : Write(e, r)
    <2>1. UNCHANGED <<outbox, page, cache, run>>
      BY <1>4 DEF RefuseEdit, Write, store, page
    <2>2. TabShows(e)' /\ PageIsWhole(e)' /\ HandShows(e)' /\ AcksComeBack(e)'
      BY <1>1, <1>2, <1>3, <2>1, RunOnlyKeepsTab, PageKept, HandKept
    <2> QED BY <2>2 DEF EngineShows
  <1>5. CASE QueueEdit(e)
    <2>1. /\ outbox'[d][w.rec].v # 0
          /\ \A q \in Ids \ {w.rec} : outbox'[d][q] = outbox[d][q] /\ cache'[e][q] = cache[e][q]
      BY <1>1, <1>5 DEF QueueEdit, Queued, Shown, LogInv, TypeOK
    <2>2. TabShows(e)'
      BY <1>1, <1>2, <1>3, <2>1, ShowingKeepsTab DEF Settled
    <2>3. CASE run[e].pc = "idle"
      <3>1. run'[e].pc = "pull" /\ run'[e].batch = run[e].batch /\ run'[e].inbox = run[e].inbox
        BY <1>1, <1>5, <2>3 DEF QueueEdit, Run
      <3>2. PageIsWhole(e)'
        BY <1>1, <1>2, <3>1, PageKept
      <3> QED BY <2>2, <3>1, <3>2, FreeHand DEF EngineShows, InHand
    <2>4. CASE run[e].pc # "idle"
      <3>1. run'[e] = run[e]
        BY <1>1, <1>5, <2>4 DEF QueueEdit, Run
      <3>2. \A r \in Ids :
               outbox'[d][r].v = 0 => outbox[d][r].v = 0 /\ cache'[e][r] = cache[e][r]
        BY <2>1
      <3>3. PageIsWhole(e)' /\ HandShows(e)' /\ AcksComeBack(e)'
        BY <1>1, <1>2, <3>1, <3>2, PageKept, HandKept
      <3> QED BY <2>2, <3>3 DEF EngineShows
    <2> QED BY <2>3, <2>4
  <1> QED BY <1>4, <1>5 DEF Edited

(* The cursor moves past an envelope of the page: the page had every row up *)
(* to it, so the only row newly settled is that envelope, which was shown.  *)
LEMMA ReceivedShows ==
    ASSUME ShownInv, CursorInv', NEW e \in Engines, Received(e)
    PROVE  EngineShows(e)'
  <1> DEFINE d == Host(e)
             c == cursor[d]
  <1>0. PICK x : x = run[e].remote
    OBVIOUS
  <1>1. /\ d \in Devices /\ LogInv /\ run \in [Engines -> Run] /\ run[e] \in Run /\ c \in Nat
        /\ c <= recordSeq /\ recordSeq \in Nat
        /\ run[e].inbox \subseteq log /\ log \subseteq Envelope /\ run[e].pc = "received"
    BY HostType, RunFacts DEF ShownInv, CursorInv, CursorsInRange, LogInv, TypeOK, RunHoldsLog, Received
  <1>2. /\ UNCHANGED <<records, recordSeq, log, envelopes, outbox, unlocked, mounted, cache,
                       hydrating, edits>>
        /\ Grown /\ EditsGrow
    BY <1>1, Still, Unchanged DEF Received, server, page, LogInv
  <1>3. x \in log /\ x \in Envelope /\ x.rec \in Ids /\ x.seq \in Nat /\ x.seq <= recordSeq
    <2>1. x \in log /\ x \in Envelope
      BY <1>0, <1>1, RunFacts DEF InHand
    <2> QED BY <1>1, <2>1 DEF Envelope, LogInv, LogIsLinear
  <1>4. mounted[e] => Ready(e) /\ unlocked[TabOf[e]]
    BY <1>1, GoingIsReady
  <1>5. PICK u \in Run : /\ u.inbox = run[e].inbox \ {x} /\ u.batch = run[e].batch
                         /\ run' = [run EXCEPT ![e] = AfterInbox(u)]
    <2> DEFINE w == [run[e] EXCEPT !.inbox = @ \ {x}, !.remote = Blank(AnId), !.pending = NoEntry(AnId)]
    <2>1. w \in Run /\ w.inbox = run[e].inbox \ {x} /\ w.batch = run[e].batch
      BY <1>1, PlaceholderTypes DEF Run
    <2> QED BY <1>0, <2>1 DEF Received
  <1>6. /\ run'[e].inbox = run[e].inbox \ {x} /\ run'[e].pc \notin InHand \cup {"settle"}
        /\ run'[e].batch = {} => run'[e].inbox = {} \/ run[e].batch = {}
    BY <1>1, <1>5 DEF AfterInbox, Run, InHand
  <1>7. HandShows(e)' /\ AcksComeBack(e)'
    BY <1>6, FreeHand
  <1>8. CASE run[e].batch # {}
    <2>1. cursor' = cursor
      BY <1>8 DEF Received
    <2>2. TabShows(e)'
      BY <1>2, <1>4, <2>1, RunOnlyKeepsTab DEF page
    <2>3. PageIsWhole(e)'
      BY <1>2, <1>6, <1>8, <2>1, PageKept
    <2> QED BY <1>7, <2>2, <2>3 DEF EngineShows
  <1>9. CASE run[e].batch = {}
    <2>1. cursor'[d] = CursorAfter(c, x)
      BY <1>0, <1>1, <1>9 DEF Received, ShownInv, CursorInv, LogInv, TypeOK
    <2>2. cursor'[d] \in Nat /\ c <= cursor'[d] /\ x.seq <= cursor'[d] /\ cursor'[d] <= recordSeq
      BY <1>1, <1>3, <2>1 DEF CursorAfter
    <2>3. x \in run[e].inbox /\ \A y \in run[e].inbox : x.seq <= y.seq
      BY <1>0, <1>1, <1>9 DEF ShownInv, CursorInv, RunsCover, RunCovers, InHand
    <2>4. ASSUME NEW y \in run[e].inbox, NEW r \in Ids, c < records[r].seq, records[r].seq <= y.seq
          PROVE  records[r] \in run[e].inbox
      BY <1>9, <2>4 DEF ShownInv, EngineShows, PageIsWhole
    <2>5. \A r \in Ids : records[r] \in Envelope /\ records[r].seq \in Nat
      BY <1>1 DEF LogInv, TypeOK, Envelope
    <2>6. ASSUME mounted[e], NEW r \in Ids, Settled(d, r)', ~(records[r].seq <= c)
          PROVE  cache'[e][r] = Visible(r)'
      <3>1. outbox[d][r].v = 0 /\ records[r].seq <= cursor'[d]
        BY <1>2, <2>6 DEF Settled
      <3>2. c < records[r].seq /\ records[r].seq <= x.seq
        BY <1>1, <1>3, <2>1, <2>5, <2>6, <3>1 DEF CursorAfter
      <3>3. records[r] \in run[e].inbox
        BY <2>3, <2>4, <3>2
      <3>4. records[r].seq = x.seq
        BY <1>3, <2>3, <2>5, <3>2, <3>3
      <3>5. records[r] = x /\ r = x.rec
        BY <1>1, <1>3, <3>3, <3>4 DEF LogInv, LogIsLinear
      <3>6. cache[e][r] = Visible(r)
        BY <1>0, <1>1, <1>9, <2>6, <3>1, <3>5 DEF ShownInv, EngineShows, HandShows
      <3> QED BY <1>2, <3>6 DEF Visible, Content
    <2>7. ASSUME mounted[e], NEW r \in Ids, Settled(d, r)', records[r].seq <= c
          PROVE  Settled(d, r)
      BY <1>2, <2>7 DEF Settled
    <2>8. TabShows(e)'
      BY <1>2, <1>4, <2>2, <2>6, <2>7, TabKept
    <2>9. PageIsWhole(e)'
      <3> SUFFICES ASSUME NEW y \in run'[e].inbox, NEW r \in Ids,
                          cursor'[d] < records'[r].seq, records'[r].seq <= y.seq
                   PROVE  records'[r] \in run'[e].inbox
        BY DEF PageIsWhole
      <3>1. y \in run[e].inbox /\ c < records[r].seq /\ records[r].seq <= y.seq
        BY <1>1, <1>2, <1>6, <2>2, <2>5
      <3>2. records[r] \in run[e].inbox
        BY <2>4, <3>1
      <3>3. records[r] # x
        BY <1>2, <1>3, <2>2, <2>5
      <3> QED BY <1>2, <1>6, <3>2, <3>3
    <2> QED BY <1>7, <2>8, <2>9 DEF EngineShows
  <1> QED BY <1>8, <1>9

(* What was acknowledged is above the cursor: it is not settled before a    *)
(* pull brings it back.                                                     *)
LEMMA SettleShows ==
    ASSUME ShownInv, CursorInv', NEW e \in Engines, StoreAcked(e) \/ DequeueAcked(e)
    PROVE  EngineShows(e)'
  <1> DEFINE d == Host(e)
  <1>1. /\ d \in Devices /\ LogInv /\ run \in [Engines -> Run] /\ run[e] \in Run
        /\ run[e].acks \subseteq Envelope /\ run[e].batch # {} /\ run[e].pc \in {"settle", "acked"}
    BY HostType, RunFacts DEF ShownInv, CursorInv, LogInv, TypeOK, RunsCover, RunCovers, Run,
           StoreAcked, DequeueAcked
  <1>2. /\ UNCHANGED <<records, recordSeq, cursor, unlocked, mounted, cache, hydrating, edits, log>>
        /\ EditsGrow
    BY <1>1, Unchanged DEF StoreAcked, DequeueAcked, server, page, LogInv
  <1>3. mounted[e] => Ready(e)
    BY <1>1, GoingIsReady
  <1>4. CASE StoreAcked(e)
    <2>1. PICK x \in run[e].acks :
             /\ envelopes' = [envelopes EXCEPT ![d][x.rec] = PutEnvelope(@, x)]
             /\ run' = [run EXCEPT ![e].pc = "acked", ![e].remote = x]
      BY <1>4 DEF StoreAcked
    <2>2. outbox' = outbox /\ Grown
      BY <1>1, <1>2, <1>4, <2>1, PutGrows DEF StoreAcked
    <2>3. /\ run'[e].pc = "acked" /\ run'[e].remote = x /\ run'[e].acks = run[e].acks
          /\ run'[e].batch = run[e].batch /\ run'[e].inbox = run[e].inbox
      BY <1>1, <2>1 DEF Run
    <2>4. TabShows(e)' /\ PageIsWhole(e)'
      BY <1>1, <1>2, <1>3, <2>2, <2>3, RunOnlyKeepsTab, PageKept DEF page
    <2>5. AcksComeBack(e)'
      BY <1>1, <1>2, <2>3 DEF AcksComeBack, ShownInv, EngineShows
    <2> QED BY <2>3, <2>4, <2>5 DEF EngineShows, HandShows
  <1>5. CASE DequeueAcked(e)
    <2>0. PICK x : x = run[e].remote
      OBVIOUS
    <2>1. /\ run[e].pc = "acked" /\ x \in Envelope /\ x.rec \in Ids /\ envelopes' = envelopes /\ Grown
          /\ records[x.rec].seq > cursor[d] /\ records[x.rec].seq \in Nat /\ cursor[d] \in Nat
      <3>1. run[e].pc = "acked" /\ envelopes' = envelopes
        BY <1>5 DEF DequeueAcked
      <3>2. x \in Envelope /\ x.rec \in Ids
        BY <1>1, <2>0, <3>1, RunFacts DEF InHand, Envelope
      <3> QED BY <1>1, <1>2, <2>0, <3>1, <3>2, Still DEF ShownInv, EngineShows, AcksComeBack, LogInv,
                     TypeOK, Envelope
    <2>2. \A q \in Ids \ {x.rec} : outbox'[d][q] = outbox[d][q] /\ cache'[e][q] = cache[e][q]
      BY <1>1, <1>2, <1>5, <2>0 DEF DequeueAcked, LogInv, TypeOK
    <2>3. ~Settled(d, x.rec)'
      BY <1>2, <2>1 DEF Settled
    <2>4. TabShows(e)'
      BY <1>2, <1>3, <2>1, <2>2, <2>3, ShowingKeepsTab
    <2>5. PICK u \in Run : /\ u.acks = run[e].acks \ {x} /\ u.batch = run[e].batch
                           /\ u.inbox = run[e].inbox /\ run' = [run EXCEPT ![e] = AfterAcks(u)]
      <3> DEFINE w == [run[e] EXCEPT !.acks = @ \ {x}, !.remote = Blank(AnId)]
      <3>1. w \in Run /\ w.acks = run[e].acks \ {x} /\ w.batch = run[e].batch /\ w.inbox = run[e].inbox
        BY <1>1, PlaceholderTypes DEF Run
      <3> QED BY <1>5, <2>0, <3>1 DEF DequeueAcked
    <2>6. /\ run'[e].acks \subseteq run[e].acks /\ run'[e].pc \notin InHand
          /\ run'[e].batch = {} => run'[e].inbox = {}
      BY <1>1, <2>5 DEF AfterAcks, AfterInbox, Run, InHand
    <2>7. PageIsWhole(e)'
      BY <2>6 DEF PageIsWhole
    <2>8. HandShows(e)' /\ AcksComeBack(e)'
      BY <1>1, <1>2, <2>6 DEF HandShows, AcksComeBack, ShownInv, EngineShows, InHand
    <2> QED BY <2>4, <2>7, <2>8 DEF EngineShows
  <1> QED BY <1>4, <1>5

LEMMA ServeShows ==
    ASSUME ShownInv, CursorInv', NEW e \in Engines, Serve(e) \/ ServeUnheard(e)
    PROVE  EngineShows(e)'
  <1> DEFINE d == Host(e)
  <1>0. PICK B : B = run[e].batch
    OBVIOUS
  <1>1. /\ d \in Devices /\ LogInv /\ run \in [Engines -> Run] /\ run[e] \in Run
        /\ B \in SUBSET Entry /\ Pushable(B) /\ B # {} /\ run[e].pc = "sent"
        /\ recordSeq \in Nat /\ cursor[d] \in Nat /\ cursor[d] <= recordSeq
    BY <1>0, HostType, RunFacts
       DEF ShownInv, CursorInv, CursorsInRange, LogInv, TypeOK, RunsCover, RunCovers, RunHoldsLog, Run,
           Serve, ServeUnheard
  <1>2. UNCHANGED <<envelopes, outbox, cursor, unlocked, page, edits>> /\ EditsGrow
    <2>1. UNCHANGED <<envelopes, outbox, cursor, unlocked, page, edits>>
      BY DEF Serve, ServeUnheard, store
    <2>2. edits \in Seq(Edit)
      BY <1>1 DEF LogInv, TypeOK
    <2> QED BY <2>1, <2>2 DEF EditsGrow
  <1>3. Grown
    BY ServeGrows DEF ShownInv
  <1>4. TabShows(e)'
    BY <1>1, <1>2, <1>3, GoingIsReady, RunOnlyKeepsTab
  <1>5. CASE run' = [run EXCEPT ![e] = IdleRun]
    <2>1. run'[e].pc = "idle" /\ run'[e].inbox = {}
      BY <1>1, <1>5 DEF IdleRun
    <2> QED BY <1>4, <2>1, FreeHand DEF EngineShows, PageIsWhole, InHand
  <1>6. CASE ~BadBase(B) /\ Serve(e)
    <2>1. PICK f \in Orders(Applied(B)) :
             /\ Commit(B, f)
             /\ run' = [run EXCEPT ![e] = AfterAcks([run[e] EXCEPT
                           !.acks = Committed(Applied(B), f), !.inbox = Conflicts(B)])]
      BY <1>0, <1>6 DEF Serve
    <2>2. /\ Committed(Applied(B), f) \subseteq log' /\ log' \subseteq Envelope /\ LogIsLinear'
          /\ Conflicts(B) \subseteq log /\ log \subseteq Envelope
      BY <1>1, <1>6, <2>1, CommitFacts DEF LogInv, TypeOK
    <2>3. PICK u \in Run : /\ u.acks = Committed(Applied(B), f) /\ u.batch = B
                           /\ run' = [run EXCEPT ![e] = AfterAcks(u)]
      <3> DEFINE w == [run[e] EXCEPT !.acks = Committed(Applied(B), f), !.inbox = Conflicts(B)]
      <3>1. w \in Run /\ w.acks = Committed(Applied(B), f) /\ w.batch = B
        BY <1>0, <1>1, <2>2 DEF Run
      <3> QED BY <2>1, <3>1
    <2>4. /\ run'[e].acks = Committed(Applied(B), f) /\ run'[e].pc \notin InHand
          /\ run'[e].batch = {} => run'[e].inbox = {}
      BY <1>1, <2>3 DEF AfterAcks, AfterInbox, Run, InHand
    <2>5. ASSUME NEW x \in Committed(Applied(B), f) PROVE records'[x.rec].seq > cursor'[d]
      <3>1. PICK y \in Applied(B) : x.rec = y.rec /\ x.v = y.v
        BY DEF Committed
      <3>2. y \in Entry /\ x.v = records[x.rec].v + 1
        BY <1>1, <3>1 DEF Applied, Applies, Entry, LogInv, TypeOK, Envelope
      <3>3. x.rec \in Ids /\ x.v <= records'[x.rec].v
        BY <2>2, <3>1, <3>2 DEF LogIsLinear, Entry
      <3>4. /\ records[x.rec].v \in Nat /\ records'[x.rec].v \in Nat /\ records'[x.rec].seq \in Nat
        BY <1>1, <3>3 DEF CursorInv, LogInv, TypeOK, Envelope
      <3>5. records'[x.rec] # records[x.rec]
        BY <3>2, <3>3, <3>4
      <3>6. records'[x.rec].seq > recordSeq
        BY <1>3, <3>3, <3>5 DEF Grown
      <3> QED BY <1>1, <1>2, <3>4, <3>6
    <2>6. HandShows(e)' /\ AcksComeBack(e)'
      BY <2>4, <2>5 DEF HandShows, AcksComeBack, InHand
    <2> QED BY <1>4, <2>4, <2>6 DEF EngineShows, PageIsWhole
  <1> QED BY <1>0, <1>5, <1>6 DEF Serve, ServeUnheard

(* hydrate() shows what the store holds, and over it what is queued; a run  *)
(* or an edit comes only after it.                                          *)
LEMMA HydrateKeepsShown ==
    ASSUME ShownInv, CursorInv', NEW e \in Engines, Hydrate(e)
    PROVE  EngineShows(e)'
  <1> DEFINE d == Host(e)
             h == hydrating[e]
  <1>1. /\ d \in Devices /\ LogInv /\ TypeOK
        /\ UNCHANGED <<records, recordSeq, log, envelopes, outbox, cursor, unlocked, mounted, draft, run, edits>>
    BY HostType DEF ShownInv, CursorInv, LogInv, Hydrate, HydrateEnvelopes, HydrateShow, HydrateOutbox,
           server, store
  <1>2. Grown /\ EditsGrow
    BY <1>1, Still, Unchanged
  <1>3. mounted[e] /\ ~Ready(e)
    <2>1. h # NotLoading
      BY DEF Hydrate, HydrateEnvelopes, HydrateShow, HydrateOutbox, NotLoading
    <2>2. ~Ready(e)
      BY DEF Hydrate, HydrateEnvelopes, HydrateShow, HydrateOutbox, Ready, AllShown
    <2> QED BY <2>1, <2>2 DEF ShownInv, EngineShows, TabShows
  <1>4. /\ unlocked[TabOf[e]] /\ TabOf[e] \in Tabs /\ run[e].pc = "idle" /\ draft[e] = NoDraft
        /\ HydrateShows(e)
    BY <1>3, HostType DEF ShownInv, EngineShows, TabShows
  <1>5. PageIsWhole(e)' /\ HandShows(e)' /\ AcksComeBack(e)'
    BY <1>1, <1>2, <1>4, PageKept, FreeHand DEF InHand
  <1>6. \A r \in Ids : /\ envelopes[d][r].v = 0 => envelopes[d][r].e = 0
                       /\ outbox[d][r].v = 0 => outbox[d][r].e = 0
    BY <1>1 DEF ShownInv, NoVersionNoContent
  <1>7. \A r \in Ids : /\ Content(envelopes[d][r])' = Content(envelopes[d][r])
                       /\ Visible(r)' = Visible(r) /\ Settled(d, r)' = Settled(d, r)
    BY <1>1 DEF Content, Visible, Settled
  <1>8. HydrateShows(e)'
    <2>1. CASE HydrateEnvelopes(e)
      <3>1. hydrating'[e] = [stage |-> "envelopes", todo |-> [r \in Ids |-> envelopes[d][r].e]]
        BY <1>1, <2>1 DEF HydrateEnvelopes, TypeOK
      <3>2. \A r \in Ids : cache'[e][r] = 0
        BY <1>4, <2>1 DEF HydrateEnvelopes, HydrateShows
      <3>3. \A r \in Ids : envelopes[d][r].e = 0 => Content(envelopes[d][r]) = 0
        BY DEF Content
      <3>4. \A r \in Ids : hydrating'[e].todo[r] = envelopes'[d][r].e
        BY <1>1, <3>1
      <3> QED BY <1>1, <1>7, <3>1, <3>2, <3>3, <3>4 DEF HydrateShows
    <2>2. CASE HydrateOutbox(e)
      <3>1. hydrating'[e] = [stage |-> "outbox", todo |-> [r \in Ids |-> outbox[d][r].e]]
        BY <1>1, <2>2 DEF HydrateOutbox, TypeOK
      <3>2. \A r \in Ids : cache'[e][r] = Content(envelopes[d][r])
        BY <1>4, <2>2 DEF HydrateOutbox, HydrateShows, AllShown
      <3>3. \A r \in Ids : outbox'[d][r].v = 0 => hydrating'[e].todo[r] = 0
        BY <1>1, <1>6, <3>1
      <3> QED BY <1>7, <3>1, <3>2, <3>3 DEF HydrateShows
    <2>3. ASSUME NEW r \in Ids, HydrateShow(e, r) PROVE HydrateShows(e)'
      <3>1. /\ hydrating'[e].stage = h.stage /\ hydrating'[e].todo[r] = 0 /\ h.todo[r] # 0
            /\ cache'[e][r] = IF edits[h.todo[r]].del THEN 0 ELSE h.todo[r]
        BY <1>1, <1>4, <2>3 DEF HydrateShow, Shown, TypeOK
      <3>2. \A q \in Ids \ {r} : hydrating'[e].todo[q] = h.todo[q] /\ cache'[e][q] = cache[e][q]
        BY <1>1, <2>3 DEF HydrateShow, Shown, TypeOK
      <3>3. h.stage # "start"
        BY <1>4, <3>1 DEF HydrateShows
      <3>4. CASE h.stage = "envelopes"
        <4>1. h.todo[r] = envelopes[d][r].e
          BY <1>4, <3>1, <3>4 DEF HydrateShows
        <4>2. cache'[e][r] = Content(envelopes[d][r])
          BY <1>6, <3>1, <4>1 DEF Content
        <4>3. \A q \in Ids : IF hydrating'[e].todo[q] = 0 THEN cache'[e][q] = Content(envelopes[d][q])
                                                         ELSE hydrating'[e].todo[q] = envelopes[d][q].e
          BY <1>4, <3>1, <3>2, <3>4, <4>2 DEF HydrateShows
        <4> QED BY <1>1, <1>7, <3>1, <3>4, <4>3 DEF HydrateShows
      <3>5. CASE h.stage = "outbox"
        <4>1. \A q \in Ids : outbox[d][q].v = 0
                     => q # r /\ hydrating'[e].todo[q] = 0 /\ cache'[e][q] = Content(envelopes[d][q])
          BY <1>4, <3>1, <3>2, <3>5 DEF HydrateShows
        <4> QED BY <1>1, <1>7, <3>1, <3>5, <4>1 DEF HydrateShows
      <3>6. CASE h.stage = "none"
        BY <3>1, <3>6 DEF HydrateShows
      <3> QED BY <1>1, <3>3, <3>4, <3>5, <3>6 DEF TypeOK
    <2> QED BY <2>1, <2>2, <2>3 DEF Hydrate
  <1>9. ASSUME Ready(e)', NEW r \in Ids, Settled(d, r)' PROVE cache'[e][r] = Visible(r)'
    <2>1. outbox[d][r].v = 0 /\ records[r].seq <= cursor[d] /\ outbox'[d][r].v = 0
      BY <1>1, <1>9 DEF Settled
    <2>2. cache'[e][r] = Content(envelopes[d][r])
      BY <1>7, <1>8, <1>9, <2>1 DEF HydrateShows, Ready
    <2> QED BY <1>1, <1>7, <2>1, <2>2, PastIsStored DEF ShownInv
  <1>10. TabShows(e)'
    BY <1>1, <1>3, <1>4, <1>8, <1>9 DEF TabShows
  <1> QED BY <1>5, <1>10 DEF EngineShows

(* An unlock mounts an engine that has nothing going; a lock unmounts it,   *)
(* and leaves its run with what it has in hand; a reload ends that too.     *)
LEMMA SessionKeepsShown ==
    ASSUME ShownInv, CursorInv', OneEngineADevice, NEW t \in Tabs, Unlock(t) \/ Lock(t) \/ Reload(t),
           NEW f \in Engines
    PROVE  EngineShows(f)'
  <1>1. /\ TypeOK /\ LogInv /\ Host(f) \in Devices /\ TabOf[f] \in Tabs /\ EngineShows(f)
        /\ UNCHANGED <<records, recordSeq, log, envelopes, outbox, cursor, edits>>
    BY HostType DEF ShownInv, CursorInv, LogInv, Unlock, Lock, Reload, server, store
  <1>2. Grown /\ EditsGrow
    BY <1>1, Still, Unchanged
  <1>3. CASE TabOf[f] # t
    <2>1. Apart(f)
      <3>1. CASE Unlock(t)
        BY <1>1, <1>3, <3>1 DEF Unlock, InTab, Apart, TypeOK
      <3>2. CASE Lock(t)
        BY <1>1, <1>3, <3>2 DEF Lock, Unmount, Apart, TypeOK
      <3>3. CASE Reload(t)
        BY <1>1, <1>3, <3>3 DEF Reload, Unmount, Apart, TypeOK
      <3> QED BY <3>1, <3>2, <3>3
    <2> QED BY <1>2, <2>1, ApartShows
  <1>4. CASE TabOf[f] = t /\ Unlock(t)
    <2>1. PICK e \in InTab(t) :
             /\ ~mounted[e] /\ run[e].pc = "idle" /\ draft[e] = NoDraft
             /\ mounted' = [mounted EXCEPT ![e] = TRUE]
             /\ cache' = [cache EXCEPT ![e] = [r \in Ids |-> 0]]
             /\ hydrating' = [hydrating EXCEPT ![e].stage = "start"]
             /\ unlocked' = [unlocked EXCEPT ![t] = TRUE] /\ UNCHANGED <<draft, run>>
      BY <1>4 DEF Unlock
    <2>2. e = f
      BY <1>4, <2>1 DEF InTab, OneEngineADevice, Host
    <2>3. hydrating[f] = NotLoading
      BY <1>1, <2>1, <2>2 DEF EngineShows, TabShows
    <2>4. /\ mounted'[f] /\ unlocked'[TabOf[f]] /\ hydrating'[f].stage = "start"
          /\ run'[f].pc = "idle" /\ draft'[f] = NoDraft
          /\ \A r \in Ids : hydrating'[f].todo[r] = 0 /\ cache'[f][r] = 0
      BY <1>1, <1>4, <2>1, <2>2, <2>3 DEF TypeOK, NotLoading
    <2>5. TabShows(f)'
      BY <2>4 DEF TabShows, Ready, HydrateShows
    <2>6. PageIsWhole(f)' /\ HandShows(f)' /\ AcksComeBack(f)'
      BY <1>1, <1>2, <2>1, <2>4, PageKept, FreeHand DEF InHand
    <2> QED BY <2>5, <2>6 DEF EngineShows
  <1>5. CASE TabOf[f] = t /\ (Lock(t) \/ Reload(t))
    <2>1. ~mounted'[f] /\ hydrating'[f] = NotLoading
      BY <1>5 DEF Lock, Reload, Unmount
    <2>2. CASE run'[f] = run[f]
      <3>1. PageIsWhole(f)' /\ HandShows(f)' /\ AcksComeBack(f)'
        BY <1>1, <1>2, <2>1, <2>2, PageKept, HandKept
      <3> QED BY <2>1, <3>1 DEF EngineShows, TabShows
    <2>3. CASE run'[f] = IdleRun
      <3>1. run'[f].pc = "idle" /\ run'[f].inbox = {}
        BY <2>3 DEF IdleRun
      <3> QED BY <2>1, <3>1, FreeHand DEF EngineShows, TabShows, PageIsWhole, InHand
    <2> QED BY <1>5, <2>2, <2>3 DEF Lock, Reload
  <1> QED BY <1>3, <1>4, <1>5

(* Only what has a version is ever put in a store.                          *)
LEMMA StoresKeepContent ==
    ASSUME CursorInv, NoVersionNoContent, [Next]_vars
    PROVE  NoVersionNoContent'
  <1>1. TypeOK /\ LogInv
    BY DEF CursorInv, LogInv
  <1> DEFINE Right(x) == x.v = 0 => x.e = 0
  <1>2. ASSUME envelopes' = envelopes,
               \A d \in Devices, r \in Ids : outbox'[d][r] = outbox[d][r] \/ Right(outbox'[d][r])
        PROVE  NoVersionNoContent'
    BY <1>2 DEF NoVersionNoContent
  <1>3. \A r \in Ids : Right(NoEntry(r))
    BY DEF NoEntry
  <1>4. ASSUME envelopes' = envelopes, NEW d \in Devices, NEW r \in Ids, NEW v \in Nat, NEW i,
               outbox' = Queued(d, r, v + 1, i)
        PROVE  NoVersionNoContent'
    <2> DEFINE new == [rec |-> r, v |-> v + 1, e |-> i]
    <2>1. Right(new)
      OBVIOUS
    <2> HIDE DEF new
    <2>2. outbox' = [outbox EXCEPT ![d][r] = new]
      BY <1>4 DEF Queued, new
    <2>3. \A c \in Devices, q \in Ids : outbox'[c][q] = outbox[c][q] \/ outbox'[c][q] = new
      BY <1>1, <2>2 DEF TypeOK
    <2> QED BY <1>2, <1>4, <2>1, <2>3
  <1>5. ASSUME envelopes' = envelopes, NEW d \in Devices, NEW r \in Ids, NEW v,
               outbox' = [outbox EXCEPT ![d][r] = Dequeued(@, v)]
        PROVE  NoVersionNoContent'
    <2>1. \A c \in Devices, q \in Ids :
             outbox'[c][q] = outbox[c][q] \/ outbox'[c][q] = NoEntry(outbox[d][r].rec)
      BY <1>1, <1>5 DEF TypeOK, Dequeued
    <2>2. outbox[d][r].rec \in Ids
      BY <1>1 DEF TypeOK, Entry
    <2> QED BY <1>2, <1>3, <1>5, <2>1, <2>2
  <1>6. ASSUME outbox' = outbox, NEW d \in Devices, NEW x \in Envelope, x.v > 0,
               envelopes' = [envelopes EXCEPT ![d][x.rec] = PutEnvelope(@, x)]
        PROVE  NoVersionNoContent'
    <2>1. \A c \in Devices, q \in Ids : envelopes'[c][q] = envelopes[c][q] \/ envelopes'[c][q] = x
      BY <1>1, <1>6 DEF TypeOK, PutEnvelope, Envelope
    <2> QED BY <1>6, <2>1 DEF NoVersionNoContent, Envelope
  <1>7. ASSUME UNCHANGED <<envelopes, outbox>> PROVE NoVersionNoContent'
    BY <1>7 DEF NoVersionNoContent
  <1>8. ASSUME NEW e \in Engines, QueueEdit(e) PROVE NoVersionNoContent'
    <2>1. Host(e) \in Devices /\ draft[e].rec \in Ids /\ draft[e].base \in Nat
      BY <1>1, HostType DEF TypeOK, Draft
    <2> QED BY <1>4, <1>8, <2>1 DEF QueueEdit
  <1>9. ASSUME NEW e \in Engines, PutRemote(e) \/ MergeMine(e) \/ MergeTheirs(e) \/ DequeueAcked(e)
        PROVE  NoVersionNoContent'
    <2>0. PICK x : x = run[e].remote
      OBVIOUS
    <2>1. Host(e) \in Devices /\ x \in log /\ x \in Envelope
      BY <1>1, <1>9, <2>0, HostType, RunFacts DEF InHand, PutRemote, MergeMine, MergeTheirs, DequeueAcked
    <2>2. x.rec \in Ids /\ x.v \in Nat /\ x.v > 0
      BY <1>1, <2>1 DEF LogInv, LogIsLinear, Envelope
    <2>3. CASE PutRemote(e)
      BY <1>6, <2>0, <2>1, <2>2, <2>3 DEF PutRemote
    <2>4. CASE MergeMine(e)
      BY <1>4, <2>0, <2>1, <2>2, <2>4 DEF MergeMine
    <2>5. CASE MergeTheirs(e) \/ DequeueAcked(e)
      BY <1>5, <2>0, <2>1, <2>2, <2>5, SMTT(60) DEF MergeTheirs, DequeueAcked
    <2> QED BY <1>9, <2>3, <2>4, <2>5
  <1>10. ASSUME NEW e \in Engines, StoreAcked(e) PROVE NoVersionNoContent'
    <2>1. PICK x \in run[e].acks : envelopes' = [envelopes EXCEPT ![Host(e)][x.rec] = PutEnvelope(@, x)]
      BY <1>10 DEF StoreAcked
    <2>2. Host(e) \in Devices /\ x \in log /\ x \in Envelope
      BY <1>1, HostType, RunFacts DEF RunHoldsLog, LogInv, TypeOK
    <2>3. x.v \in Nat /\ x.v > 0
      BY <1>1, <2>2 DEF LogInv, LogIsLinear, Envelope
    <2> QED BY <1>6, <1>10, <2>1, <2>2, <2>3 DEF StoreAcked
  <1>11. \/ UNCHANGED <<envelopes, outbox>>
         \/ \E e \in Engines : \/ QueueEdit(e) \/ PutRemote(e) \/ MergeMine(e) \/ MergeTheirs(e)
                               \/ DequeueAcked(e) \/ StoreAcked(e)
    BY ZenonT(40) DEF Next, vars, store, Unlock, Lock, Reload, Write, Hydrate, HydrateEnvelopes, HydrateOutbox,
           HydrateShow, Edited, RefuseEdit, StartRun, RunStep, Pull, ReceiveStep, Receive,
           PeekNone, PeekStands, PeekMerge, Received, StopLocked, PushRound,
           Send, Serve, Fault, ServeUnheard, RequestFails, ServeOrphan
  <1> QED BY <1>7, <1>8, <1>9, <1>10, <1>11

LEMMA ShownNext ==
    ASSUME OneEngineADevice, ~EarlyWrites, ShownInv, FollowInv', [Next]_vars
    PROVE  ShownInv'
  <1>1. CursorInv' /\ Grown /\ EditsGrow /\ LogInv /\ TypeOK
    BY CursorNext, GrownNext, EditsGrowNext DEF ShownInv, CursorInv, LogInv
  <1>2. NoVersionNoContent'
    BY StoresKeepContent DEF ShownInv
  <1>3. ASSUME NEW f \in Engines PROVE EngineShows(f)'
    <2>1. ASSUME NEW t \in Tabs, Unlock(t) \/ Lock(t) \/ Reload(t) PROVE EngineShows(f)'
      BY <1>1, <2>1, SessionKeepsShown
    <2>2. ASSUME NEW e \in Engines,
                 Hydrate(e) \/ Edited(e) \/ StartRun(e) \/ RunStep(e) \/ Fault(e)
                     \/ \E r \in Ids : Write(e, r)
          PROVE  EngineShows(f)'
      <3>1. CASE f # e
        <4>1. Apart(f)
          BY <1>1, <2>2, <3>1, OthersApart
        <4> QED BY <1>1, <4>1, ApartShows
      <3>2. CASE f = e /\ (Hydrate(e) \/ Edited(e) \/ \E r \in Ids : Write(e, r))
        BY <1>1, <3>2, HydrateKeepsShown, EditShows
      <3>3. CASE f = e /\ (StartRun(e) \/ Fault(e))
        BY <1>1, <3>3, StartShows, ServeShows DEF Fault
      <3>4. CASE f = e /\ RunStep(e)
        BY <1>1, <3>4, PullShows, StartShows, ReceiveShows, MergeShows, ReceivedShows, ServeShows,
           SettleShows DEF RunStep, ReceiveStep
      <3> QED BY <2>2, <3>1, <3>2, <3>3, <3>4
    <2>3. ASSUME Apart(f) PROVE EngineShows(f)'
      BY <1>1, <2>3, ApartShows
    <2>4. ASSUME NEW B \in orphans, ServeOrphan(B) PROVE EngineShows(f)'
      BY <2>3, <2>4 DEF ServeOrphan, Apart, store, page
    <2>5. CASE UNCHANGED vars
      BY <2>3, <2>5 DEF vars, Apart, store, page
    <2> QED BY <2>1, <2>2, <2>4, <2>5 DEF Next
  <1> QED BY <1>1, <1>2, <1>3 DEF ShownInv, FollowInv

(* A caught-up tab shows what the server has, if no edit is made before     *)
(* hydrate is done and no other engine, of a second tab or of the session   *)
(* before a lock, shares the store: without the first it is a finding.      *)
THEOREM CaughtUpIsShownHolds ==
    ASSUME OneEngineADevice, ~EarlyWrites
    PROVE  Spec => []CaughtUpIsShown
  <1>1. Init => ShownInv /\ FollowInv
    BY ShownInit, FollowInit
  <1>2. ShownInv /\ FollowInv /\ [Next]_vars => ShownInv' /\ FollowInv'
    BY ShownNext, FollowNext
  <1>3. ShownInv => CaughtUpIsShown
    <2> SUFFICES ASSUME ShownInv, NEW e \in Engines, mounted[e], Ready(e), CaughtUp(Host(e)),
                        NEW r \in Ids
                 PROVE  cache[e][r] = Visible(r)
      BY DEF CaughtUpIsShown
    <2>1. /\ records[r].seq \in Nat /\ recordSeq \in Nat
          /\ records[r].v = 0 => records[r].seq = 0
          /\ records[r].v # 0 => records[r].seq <= recordSeq
      BY DEF ShownInv, CursorInv, LogInv, TypeOK, LogIsLinear, Envelope
    <2>2. Settled(Host(e), r)
      BY <2>1 DEF CaughtUp, Settled
    <2> QED BY <2>2 DEF ShownInv, EngineShows, TabShows
  <1> QED BY <1>1, <1>2, <1>3, PTL DEF Spec
==============================================================================
