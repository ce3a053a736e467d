-------------------------------- MODULE Records --------------------------------
(* Typed records across builds: what each build makes of a record, and what it   *)
(* may save over. A record is [id, type, version, data, modifiedAt, modifiedBy]; *)
(* of its data only the schema version it really has the shape of, the member a  *)
(* profile names and one value are kept. A build is a map of codecs: for each    *)
(* type it knows, the version it writes and the versions it can upgrade from.    *)
(* Sources: src/domain/records/evolution.ts, typed.ts,                          *)
(* src/features/sync/typed-records.ts.                                          *)
EXTENDS Integers

CONSTANTS
    Null, Refused,    \* no record; InvalidRecordError
    Builds,           \* the builds in use
    Codecs(_),        \* each one's codecs: type -> [current, upgrades]
    Members, Values, MaxId, MaxTime

VARIABLES
    stored,           \* the live records, by id
    time

vars == <<stored, time>>

(* A record upgrades one version at a time, each step by a function of its own.  *)
ReadRecord(codecs, r) ==
    LET codec == codecs[r.type]
        steps == r.version .. codec.current - 1
    IN  IF r.type \notin DOMAIN codecs THEN [status |-> "unknown-type"]
        ELSE IF r.version > codec.current THEN [status |-> "too-new"]
        ELSE IF ~(steps \subseteq codec.upgrades) THEN [status |-> "invalid"]
        ELSE IF r.data.shape + (codec.current - r.version) # codec.current THEN [status |-> "invalid"]
        ELSE [status |-> "ok", upgraded |-> steps # {},
              value |-> [r.data EXCEPT !.shape = codec.current]]

CanOverwriteNewer(result) == result.status \in {"ok", "too-new"}

CanOverwrite(result) == result.status = "ok"

(* A profile counts only when its own member wrote it.                           *)
Read(codecs, r) ==
    LET result == ReadRecord(codecs, r)
    IN  IF result.status = "ok" /\ r.type = "member" /\ result.value.memberId # r.modifiedBy
        THEN [status |-> "invalid"] ELSE result

Readable(codecs) ==
    {id \in DOMAIN stored : Read(codecs, stored[id]).status = "ok"}

ProfilesOf(codecs, m) ==
    {id \in Readable(codecs) : stored[id].type = "member" /\ stored[id].modifiedBy = m}

(* The latest of a member's own profiles is the one shown.                       *)
Latest(ids) == CHOOSE id \in ids : \A k \in ids : stored[k].modifiedAt <= stored[id].modifiedAt

Profiles(codecs) ==
    [m \in {n \in Members : ProfilesOf(codecs, n) # {}} |->
        Read(codecs, stored[Latest(ProfilesOf(codecs, m))]).value]

OwnProfileOfAnyone(codecs, m) ==
    LET own == {id \in Readable(codecs) : stored[id].type = "member"}
    IN  IF own = {} THEN Null ELSE Latest(own)

(* The record a member edits to change their profile; Null when there is none.    *)
OwnProfile(codecs, m) ==
    LET own == {id \in Readable(codecs) :
                   stored[id].type = "member"
                   /\ Read(codecs, stored[id]).value.memberId = m}
    IN  IF own = {} THEN Null ELSE Latest(own)

(* Checks a save against the record now stored under its id, if any.              *)
PrepareWrite(codecs, type, data, existing) ==
    IF existing # Null /\ (existing.type # type \/ ~CanOverwrite(Read(codecs, existing)))
    THEN Refused
    ELSE IF data.shape # codecs[type].current THEN Refused
    ELSE [type |-> type, version |-> codecs[type].current, data |-> data]
------------------------------------------------------------------------------
(* The ids of new records are random, so any unused one will do.                  *)
NewIds ==
    LET free == 1 .. MaxId \ DOMAIN stored
    IN  {id \in free : \A k \in free : id <= k}

(* save: checked on the device that writes, then stamped.                         *)
Save(codecs, m, type, data, id) ==
    LET existing == IF id \in DOMAIN stored THEN stored[id] ELSE Null
        w        == PrepareWrite(codecs, type, data, existing)
    IN  /\ time < MaxTime
        /\ w # Refused
        /\ time' = time + 1
        /\ stored' = [k \in DOMAIN stored \cup {id} |->
                         IF k # id THEN stored[k]
                         ELSE [type |-> type, version |-> w.version, data |-> w.data,
                               modifiedAt |-> time, modifiedBy |-> m]]

(* A form saves over any record of its type that its build could show.            *)
SaveRecord(b, m, type) ==
    \E id \in DOMAIN stored \cup NewIds :
        Save(Codecs(b), m, type,
             [shape |-> Codecs(b)[type].current, memberId |-> Null, value |-> Null], id)

EditProfile(b, m) ==
    LET own == OwnProfile(Codecs(b), m)
    IN  \E id \in IF own = Null THEN NewIds ELSE {own}, v \in Values :
            Save(Codecs(b), m, "member",
                 [shape |-> Codecs(b)["member"].current, memberId |-> m, value |-> v], id)

(* remove: a tombstone keeps no data, so any record may be deleted.               *)
Delete(id) ==
    /\ id \in DOMAIN stored
    /\ stored' = [k \in DOMAIN stored \ {id} |-> stored[k]]
    /\ UNCHANGED time

Init ==
    /\ stored = [id \in {} |-> Null]
    /\ time = 0

Next ==
    \/ \E b \in Builds, m \in Members :
          \/ \E type \in DOMAIN Codecs(b) \ {"member"} : SaveRecord(b, m, type)
          \/ EditProfile(b, m)
    \/ \E id \in 1 .. MaxId : Delete(id)

Spec == Init /\ [][Next]_vars
------------------------------------------------------------------------------
(* No build saves over what a newer one wrote: a record only ever gets a newer     *)
(* shape, and keeps its type, until it is deleted (typed.ts:157, evolution.ts:92).  *)
KeepsNewer ==
    \A id \in DOMAIN stored \cap DOMAIN stored' :
        /\ stored'[id].version >= stored[id].version
        /\ stored'[id].type = stored[id].type

(* A save changes no profile but the writer's, which it does change to what they    *)
(* typed, on every build that can read it (typed.ts:71, :109, :124).               *)
RenamesTheWriter ==
    \A id \in DOMAIN stored', b \in Builds :
        id \notin DOMAIN stored \/ stored'[id] # stored[id] =>
            \E before \in {Profiles(Codecs(b))}, after \in {Profiles(Codecs(b))'},
               new \in {stored'[id]} :
                /\ \A m \in DOMAIN before \ {new.modifiedBy} :
                      m \in DOMAIN after /\ after[m] = before[m]
                /\ new.type = "member" /\ new.version <= Codecs(b)["member"].current =>
                      new.modifiedBy \in DOMAIN after
                      /\ after[new.modifiedBy].value = new.data.value
------------------------------------------------------------------------------
(* Why. Every build can upgrade a record of its types from any version before    *)
(* the one it writes (evolution.ts:28), and knows profiles.                      *)
CodecConstants ==
    /\ MaxId \in Nat /\ MaxTime \in Nat
    /\ \A b \in Builds :
          /\ "member" \in DOMAIN Codecs(b)
          /\ \A type \in DOMAIN Codecs(b) :
                /\ Codecs(b)[type].current \in Nat \ {0}
                /\ 1 .. Codecs(b)[type].current - 1 \subseteq Codecs(b)[type].upgrades

Types == UNION {DOMAIN Codecs(b) : b \in Builds}

(* A record has the shape its version says, and a profile names its writer.       *)
Sound ==
    {r \in [type : Types, version : Nat \ {0},
            data : [shape : Nat, memberId : Members \cup {Null}, value : Values \cup {Null}],
            modifiedAt : Nat, modifiedBy : Members] :
        /\ r.data.shape = r.version
        /\ r.type = "member" => r.data.memberId = r.modifiedBy}

(* No two records are stamped alike, for each save takes a stamp of its own.      *)
RecordsInv ==
    /\ time \in Nat
    /\ DOMAIN stored \subseteq 1 .. MaxId
    /\ \A id \in DOMAIN stored :
          /\ stored[id] \in Sound /\ stored[id] # Null
          /\ stored[id].modifiedAt < time
          /\ \A k \in DOMAIN stored : stored[k].modifiedAt = stored[id].modifiedAt => k = id
==============================================================================
