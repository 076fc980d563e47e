-------------------------- MODULE StateStoreProofs --------------------------
(***************************************************************************)
(* What StateStore promises for every number of categories, versions,      *)
(* faults and crashes.  The saves go through several commands, so the      *)
(* invariant says what is known between them: which categories have been   *)
(* written, and that what is written is not older than the snapshot.       *)
(***************************************************************************)
EXTENDS StateStore, TLAPS

\* The runner's state is never older than the snapshot, nor is a state that is
\* being written; up to the step, Redis has it already.
WriteInv ==
  /\ memory >= rows
  /\ pc = "set" => /\ writing >= rows /\ ~fallback
                   /\ \A i \in DOMAIN Categories : i < step => redis[Categories[i]] = writing
                   /\ ~reload => writing = memory
  /\ pc = "row" => /\ writing = memory
                   /\ ~missed => \A c \in Category : redis[c] = writing

StoreInv == StoreTypeOK /\ WriteInv /\ RedisIsWhole

\* The parts of StoreTypeOK: what is counted, what is stored, what is true or
\* false, and the stages.
Numbers ==
  /\ memory \in 1 .. newest /\ newest \in Version /\ rows \in 0 .. newest
  /\ writing \in 0 .. newest /\ step \in DOMAIN Categories
  /\ faults \in 0 .. MaxFaults /\ crashes \in 0 .. MaxCrashes

Data ==
  /\ redis \in [Category -> 0 .. newest]
  /\ loaded \in [from : {"none", "redis", "rows"}, parts : [Category -> 0 .. newest]]

Flags == {aborted, fallback, reload, missed} \subseteq BOOLEAN

Mode == failures \in 0 .. FailThreshold /\ (fallback <=> failures >= FailThreshold)

Stages == pc \in {"idle", "set", "row"} /\ (pc # "idle" => writing # 0)

-----------------------------------------------------------------------------
\* The categories are at the places of a sequence.
LEMMA CategoryPlaces ==
  /\ DOMAIN Categories = 1 .. Len(Categories) /\ Len(Categories) \in Nat \ {0}
  /\ \A i \in DOMAIN Categories : Categories[i] \in Category
  /\ \A c \in Category : \E i \in DOMAIN Categories : c = Categories[i]
<1>1. Categories \in Seq(STRING) /\ Categories # <<>>
  BY StoreAssumption DEF StoreAssumption
<1>2. DOMAIN Categories = 1 .. Len(Categories) /\ Len(Categories) \in Nat
  BY <1>1
<1>3. Len(Categories) # 0
  BY <1>1
<1>. QED BY <1>2, <1>3 DEF Category

\* The assumptions about numbers.
LEMMA StoreBounds ==
  /\ FailThreshold \in Nat \ {0} /\ MaxVersion \in Nat \ {0}
  /\ MaxFaults \in Nat /\ MaxCrashes \in Nat
BY StoreAssumption DEF StoreAssumption

LEMMA TypeParts == StoreTypeOK <=> Numbers /\ Data /\ Flags /\ Mode /\ Stages
BY DEF StoreTypeOK, Numbers, Data, Flags, Mode, Stages

LEMMA TypePartsNext == StoreTypeOK' <=> Numbers' /\ Data' /\ Flags' /\ Mode' /\ Stages'
BY DEF StoreTypeOK, Numbers, Data, Flags, Mode, Stages

\* The invariant holds at the start.
LEMMA StoreInitial == StoreInit => StoreInv
<1>. SUFFICES ASSUME StoreInit PROVE StoreInv
  OBVIOUS
<1>1. Numbers
  BY StoreBounds, CategoryPlaces DEF StoreInit, Numbers, Version
<1>2. Data
  BY StoreBounds DEF StoreInit, Data, All, Nothing, Version
<1>3. Flags /\ Stages
  BY DEF StoreInit, Flags, Stages
<1>5. Mode
  <2>1. failures = 0 /\ ~fallback /\ ~(failures >= FailThreshold)
    BY StoreBounds DEF StoreInit
  <2>. QED BY <2>1, StoreBounds DEF Mode
<1>4. WriteInv /\ RedisIsWhole
  BY StoreBounds DEF StoreInit, WriteInv, RedisIsWhole
<1>. QED BY <1>1, <1>2, <1>3, <1>4, <1>5, TypeParts DEF StoreInv

\* Every step keeps it.
LEMMA StoreStep == StoreInv /\ [StoreNext]_vars => StoreInv'
<1>. SUFFICES ASSUME StoreInv, [StoreNext]_vars PROVE StoreInv'
  OBVIOUS
<1>0. Numbers /\ Data /\ Flags /\ Mode /\ Stages /\ WriteInv /\ RedisIsWhole
  BY TypeParts DEF StoreInv
<1>1. CASE Change
  <2>1. Numbers'
    BY <1>0, <1>1, StoreBounds, CategoryPlaces DEF Change, storeVars, jobVars,
       boundVars, Idle, Numbers, Stages, Version
  <2>2. Data'
    BY <1>0, <1>1, StoreBounds, CategoryPlaces DEF Change, storeVars, jobVars,
       boundVars, Idle, Numbers, Data, Version
  <2>3. Flags'
    BY <1>0, <1>1 DEF Change, storeVars, jobVars, boundVars, Idle, Flags
  <2>4. Mode'
    BY <1>0, <1>1, StoreBounds DEF Change, storeVars, jobVars, boundVars,
       Idle, Mode, Flags
  <2>5. Stages'
    BY <1>0, <1>1 DEF Change, storeVars, jobVars, boundVars, Idle, Stages,
       Numbers
  <2>6. WriteInv'
    BY <1>0, <1>1, CategoryPlaces DEF Change, storeVars, jobVars, boundVars,
       Idle, Numbers, Data, Stages, Version, WriteInv, RedisIsWhole, Mode
  <2>7. RedisIsWhole'
    BY <1>0, <1>1, CategoryPlaces DEF Change, storeVars, jobVars, boundVars,
       Idle, Numbers, Data, Stages, Version, WriteInv, RedisIsWhole
  <2>. QED BY <2>1, <2>2, <2>3, <2>4, <2>5, <2>6, <2>7, TypePartsNext DEF StoreInv
<1>2. CASE Crash
  <2>1. Numbers'
    BY <1>0, <1>2, StoreBounds, CategoryPlaces DEF Crash, Resumed, Nothing, All, Idle,
       Numbers, Stages, Version
  <2>2. Data'
    BY <1>0, <1>2, StoreBounds, CategoryPlaces DEF Crash, Resumed, Nothing, All, Idle,
       Numbers, Data, Version
  <2>3. Flags'
    BY <1>0, <1>2 DEF Crash, Resumed, Nothing, All, Idle, Flags
  <2>4. Mode'
    BY <1>0, <1>2, StoreBounds DEF Crash, Resumed, Nothing, All, Idle, Mode, Flags
  <2>5. Stages'
    BY <1>0, <1>2 DEF Crash, Resumed, Nothing, All, Idle, Stages, Numbers
  <2>6. WriteInv'
    BY <1>0, <1>2, CategoryPlaces DEF Crash, Resumed, Nothing, All, Idle, Numbers, Data,
       Stages, Version, WriteInv, RedisIsWhole, Mode
  <2>7. RedisIsWhole'
    BY <1>0, <1>2, CategoryPlaces DEF Crash, Resumed, Nothing, All, Idle, Numbers, Data,
       Stages, Version, WriteInv, RedisIsWhole
  <2>. QED BY <2>1, <2>2, <2>3, <2>4, <2>5, <2>6, <2>7, TypePartsNext DEF StoreInv
<1>3. CASE Delete
  <2>1. Numbers'
    BY <1>0, <1>3, StoreBounds, CategoryPlaces DEF Delete, runnerVars, jobVars, boundVars,
       Idle, All, Numbers, Stages, Version
  <2>2. Data'
    BY <1>0, <1>3, StoreBounds, CategoryPlaces DEF Delete, runnerVars, jobVars, boundVars,
       Idle, All, Numbers, Data, Version
  <2>3. Flags'
    BY <1>0, <1>3 DEF Delete, runnerVars, jobVars, boundVars, Idle, All, Flags
  <2>4. Mode'
    BY <1>0, <1>3, StoreBounds DEF Delete, runnerVars, jobVars, boundVars, Idle, All,
       Mode, Flags
  <2>5. Stages'
    BY <1>0, <1>3 DEF Delete, runnerVars, jobVars, boundVars, Idle, All, Stages, Numbers
  <2>6. WriteInv'
    BY <1>0, <1>3, CategoryPlaces DEF Delete, runnerVars, jobVars, boundVars, Idle, All,
       Numbers, Data, Stages, Version, WriteInv, RedisIsWhole, Mode
  <2>7. RedisIsWhole'
    BY <1>0, <1>3, CategoryPlaces DEF Delete, runnerVars, jobVars, boundVars, Idle, All,
       Numbers, Data, Stages, Version, WriteInv, RedisIsWhole
  <2>. QED BY <2>1, <2>2, <2>3, <2>4, <2>5, <2>6, <2>7, TypePartsNext DEF StoreInv
<1>4. CASE SaveBegins
  <2>1. Numbers'
    BY <1>0, <1>4, StoreBounds, CategoryPlaces DEF SaveBegins, storeVars, runnerVars,
       boundVars, Idle, BeginSave, Numbers, Stages, Version
  <2>2. Data'
    BY <1>0, <1>4, StoreBounds, CategoryPlaces DEF SaveBegins, storeVars, runnerVars,
       boundVars, Idle, BeginSave, Numbers, Data, Version
  <2>3. Flags'
    BY <1>0, <1>4 DEF SaveBegins, storeVars, runnerVars, boundVars, Idle,
       BeginSave, Flags
  <2>4. Mode'
    BY <1>0, <1>4, StoreBounds DEF SaveBegins, storeVars, runnerVars,
       boundVars, Idle, BeginSave, Mode, Flags
  <2>5. Stages'
    BY <1>0, <1>4 DEF SaveBegins, storeVars, runnerVars, boundVars, Idle,
       BeginSave, Stages, Numbers
  <2>6. WriteInv'
    BY <1>0, <1>4, CategoryPlaces DEF SaveBegins, storeVars, runnerVars,
       boundVars, Idle, BeginSave, Numbers, Data, Stages, Version, WriteInv, RedisIsWhole,
       Mode
  <2>7. RedisIsWhole'
    BY <1>0, <1>4, CategoryPlaces DEF SaveBegins, storeVars, runnerVars,
       boundVars, Idle, BeginSave, Numbers, Data, Stages, Version, WriteInv, RedisIsWhole
  <2>. QED BY <2>1, <2>2, <2>3, <2>4, <2>5, <2>6, <2>7, TypePartsNext DEF StoreInv
<1>5. CASE SaveSkipped
  <2>1. Numbers'
    BY <1>0, <1>5, StoreBounds, CategoryPlaces DEF SaveSkipped, storeVars, runnerVars,
       boundVars, Idle, BeginSave, Numbers, Stages, Version
  <2>2. Data'
    BY <1>0, <1>5, StoreBounds, CategoryPlaces DEF SaveSkipped, storeVars, runnerVars,
       boundVars, Idle, BeginSave, Numbers, Data, Version
  <2>3. Flags'
    BY <1>0, <1>5 DEF SaveSkipped, storeVars, runnerVars, boundVars, Idle, BeginSave, Flags
  <2>4. Mode'
    BY <1>0, <1>5, StoreBounds DEF SaveSkipped, storeVars, runnerVars, boundVars, Idle,
       BeginSave, Mode, Flags
  <2>5. Stages'
    BY <1>0, <1>5 DEF SaveSkipped, storeVars, runnerVars, boundVars, Idle, BeginSave,
       Stages, Numbers
  <2>6. WriteInv'
    BY <1>0, <1>5, CategoryPlaces DEF SaveSkipped, storeVars, runnerVars, boundVars, Idle,
       BeginSave, Numbers, Data, Stages, Version, WriteInv, RedisIsWhole, Mode
  <2>7. RedisIsWhole'
    BY <1>0, <1>5, CategoryPlaces DEF SaveSkipped, storeVars, runnerVars, boundVars, Idle,
       BeginSave, Numbers, Data, Stages, Version, WriteInv, RedisIsWhole
  <2>. QED BY <2>1, <2>2, <2>3, <2>4, <2>5, <2>6, <2>7, TypePartsNext DEF StoreInv
<1>6. CASE SetNext
  <2>1. Numbers'
    BY <1>0, <1>6, StoreBounds, CategoryPlaces DEF SetNext, Idle, runnerVars,
       boundVars, AfterSave, Numbers, Stages, Version
  <2>2. Data'
    BY <1>0, <1>6, StoreBounds, CategoryPlaces DEF SetNext, Idle, runnerVars,
       boundVars, AfterSave, Numbers, Data, Version
  <2>3. Flags'
    BY <1>0, <1>6 DEF SetNext, Idle, runnerVars, boundVars, AfterSave, Flags
  <2>4. Mode'
    <3>1. ~fallback /\ ~(failures >= FailThreshold) /\ failures \in Nat
      BY <1>0, <1>6, StoreBounds DEF SetNext, WriteInv, Mode
    <3>2. failures' \in {failures, 0} /\ fallback' = fallback
      BY <1>6 DEF SetNext
    <3>3. failures' \in 0 .. FailThreshold /\ ~(failures' >= FailThreshold) /\ ~fallback'
      BY <3>1, <3>2, StoreBounds
    <3>. QED BY <3>3 DEF Mode
  <2>5. Stages'
    BY <1>0, <1>6 DEF SetNext, Idle, runnerVars, boundVars, AfterSave,
       Stages, Numbers
  <2>6. WriteInv'
    <3>1. /\ pc = "set" /\ step \in DOMAIN Categories /\ redis \in [Category -> 0 .. newest]
          /\ redis' = [redis EXCEPT ![Categories[step]] = writing]
          /\ UNCHANGED <<memory, rows, fallback, writing, reload>>
      BY <1>0, <1>6 DEF SetNext, runnerVars, Numbers, Data
    <3>2. \A i \in DOMAIN Categories : i < step \/ i = step => redis'[Categories[i]] = writing
      BY <1>0, <3>1, CategoryPlaces DEF WriteInv
    <3>3. CASE step < Len(Categories)
      <4>1. step' = step + 1 /\ pc' = "set"
        BY <1>6, <3>1, <3>3 DEF SetNext
      <4>2. \A i \in DOMAIN Categories : i < step' => i < step \/ i = step
        BY <3>1, <4>1, CategoryPlaces
      <4>. QED BY <1>0, <3>1, <3>2, <4>1, <4>2 DEF WriteInv
    <3>4. CASE ~(step < Len(Categories))
      <4>1. pc' \in {"row", "idle"} /\ (pc' = "row" => ~reload)
        BY <1>6, <3>4 DEF SetNext, AfterSave, Idle
      <4>2. \A i \in DOMAIN Categories : i < step \/ i = step
        BY <3>1, <3>4, CategoryPlaces
      <4>3. \A c \in Category : redis'[c] = writing
        BY <3>2, <4>2, CategoryPlaces
      <4>. QED BY <1>0, <3>1, <4>1, <4>3 DEF WriteInv
    <3>. QED BY <3>3, <3>4
  <2>7. RedisIsWhole'
    <3>. SUFFICES ASSUME pc' = "idle" PROVE /\ writing >= rows /\ rows' = rows
                                           /\ \A c \in Category : redis'[c] = writing
      BY DEF RedisIsWhole, Idle
    <3>1. pc = "set" /\ step = Len(Categories) /\ step \in DOMAIN Categories
      BY <1>0, <1>6, CategoryPlaces DEF SetNext, Numbers
    <3>2. redis' = [redis EXCEPT ![Categories[step]] = writing] /\ rows' = rows
      BY <1>6 DEF SetNext
    <3>3. ASSUME NEW c \in Category PROVE redis'[c] = writing
      <4>1. PICK k \in DOMAIN Categories : c = Categories[k]
        BY CategoryPlaces
      <4>2. k < step \/ k = step
        BY <3>1, CategoryPlaces
      <4>. QED BY <1>0, <3>1, <3>2, <4>1, <4>2 DEF WriteInv, Data
    <3>. QED BY <1>0, <3>1, <3>2, <3>3 DEF WriteInv
  <2>. QED BY <2>1, <2>2, <2>3, <2>4, <2>5, <2>6, <2>7, TypePartsNext DEF StoreInv
<1>7. CASE SetFails
  <2>1. Numbers'
    BY <1>0, <1>7, StoreBounds, CategoryPlaces DEF SetFails, Idle, runnerVars, Fault,
       CountFailure, AfterSave, Numbers, Stages, Version
  <2>2. Data'
    <3>1. Categories[step] \in Category /\ writing \in 0 .. newest
      BY <1>0, CategoryPlaces DEF Numbers
    <3>2. redis' \in [Category -> 0 .. newest]
      <4>1. CASE redis' = redis
        BY <1>0, <4>1 DEF Data
      <4>2. CASE redis' = [redis EXCEPT ![Categories[step]] = writing]
        BY <1>0, <3>1, <4>2 DEF Data
      <4>. QED BY <1>7, <4>1, <4>2 DEF SetFails
    <3>. QED BY <1>0, <1>7, <3>2 DEF SetFails, runnerVars, Data
  <2>3. Flags'
    BY <1>0, <1>7 DEF SetFails, Idle, runnerVars, Fault, CountFailure, AfterSave, Flags
  <2>4. Mode'
    <3>1. ~fallback /\ ~(failures >= FailThreshold) /\ failures \in Nat
      BY <1>0, <1>7, StoreBounds DEF SetFails, WriteInv, Mode
    <3>2. failures' = failures + 1
      BY <1>7 DEF SetFails, CountFailure
    <3>3. fallback' <=> failures' >= FailThreshold
      BY <3>1, <3>2, <1>7 DEF SetFails, CountFailure
    <3>4. failures' \in 0 .. FailThreshold
      BY <3>1, <3>2, StoreBounds
    <3>. QED BY <3>3, <3>4 DEF Mode
  <2>5. Stages'
    BY <1>0, <1>7 DEF SetFails, Idle, runnerVars, Fault, CountFailure, AfterSave, Stages,
       Numbers
  <2>6. WriteInv'
    BY <1>0, <1>7, CategoryPlaces DEF SetFails, Idle, runnerVars, Fault, CountFailure,
       AfterSave, Numbers, Data, Stages, Version, WriteInv, RedisIsWhole, Mode
  <2>7. RedisIsWhole'
    BY <1>0, <1>7, CategoryPlaces DEF SetFails, Idle, runnerVars, Fault, CountFailure,
       AfterSave, Numbers, Data, Stages, Version, WriteInv, RedisIsWhole
  <2>. QED BY <2>1, <2>2, <2>3, <2>4, <2>5, <2>6, <2>7, TypePartsNext DEF StoreInv
<1>8. CASE SnapshotCommits
  <2>1. Numbers'
    BY <1>0, <1>8, StoreBounds, CategoryPlaces DEF SnapshotCommits, Idle, runnerVars,
       boundVars, Numbers, Stages, Version
  <2>2. Data'
    BY <1>0, <1>8, StoreBounds, CategoryPlaces DEF SnapshotCommits, Idle, runnerVars,
       boundVars, Numbers, Data, Version
  <2>3. Flags'
    BY <1>0, <1>8 DEF SnapshotCommits, Idle, runnerVars, boundVars, Flags
  <2>4. Mode'
    BY <1>0, <1>8, StoreBounds DEF SnapshotCommits, Idle, runnerVars,
       boundVars, Mode, Flags
  <2>5. Stages'
    BY <1>0, <1>8 DEF SnapshotCommits, Idle, runnerVars, boundVars, Stages,
       Numbers
  <2>6. WriteInv'
    BY <1>0, <1>8, CategoryPlaces DEF SnapshotCommits, Idle, runnerVars,
       boundVars, Numbers, Data, Stages, Version, WriteInv, RedisIsWhole, Mode
  <2>7. RedisIsWhole'
    BY <1>0, <1>8, CategoryPlaces DEF SnapshotCommits, Idle, runnerVars,
       boundVars, Numbers, Data, Stages, Version, WriteInv, RedisIsWhole
  <2>. QED BY <2>1, <2>2, <2>3, <2>4, <2>5, <2>6, <2>7, TypePartsNext DEF StoreInv
<1>9. CASE SnapshotRollsBack
  <2>1. Numbers'
    BY <1>0, <1>9, StoreBounds, CategoryPlaces DEF SnapshotRollsBack, Idle, runnerVars,
       boundVars, Fault, Numbers, Stages, Version
  <2>2. Data'
    BY <1>0, <1>9, StoreBounds, CategoryPlaces DEF SnapshotRollsBack, Idle, runnerVars,
       boundVars, Fault, Numbers, Data, Version
  <2>3. Flags'
    BY <1>0, <1>9 DEF SnapshotRollsBack, Idle, runnerVars, boundVars, Fault,
       Flags
  <2>4. Mode'
    BY <1>0, <1>9, StoreBounds DEF SnapshotRollsBack, Idle, runnerVars,
       boundVars, Fault, Mode, Flags
  <2>5. Stages'
    BY <1>0, <1>9 DEF SnapshotRollsBack, Idle, runnerVars, boundVars, Fault,
       Stages, Numbers
  <2>6. WriteInv'
    BY <1>0, <1>9, CategoryPlaces DEF SnapshotRollsBack, Idle, runnerVars,
       boundVars, Fault, Numbers, Data, Stages, Version, WriteInv, RedisIsWhole, Mode
  <2>7. RedisIsWhole'
    BY <1>0, <1>9, CategoryPlaces DEF SnapshotRollsBack, Idle, runnerVars,
       boundVars, Fault, Numbers, Data, Stages, Version, WriteInv, RedisIsWhole
  <2>. QED BY <2>1, <2>2, <2>3, <2>4, <2>5, <2>6, <2>7, TypePartsNext DEF StoreInv
<1>10. CASE LoadInFallback
  <2>1. Numbers'
    BY <1>0, <1>10, StoreBounds, CategoryPlaces DEF LoadInFallback, runnerVars, jobVars,
       boundVars, Idle, Fault, LoadRows, LoadRowsFails, All, Nothing,
       Numbers, Stages, Version
  <2>2. Data'
    BY <1>0, <1>10, StoreBounds, CategoryPlaces DEF LoadInFallback, runnerVars, jobVars,
       boundVars, Idle, Fault, LoadRows, LoadRowsFails, All, Nothing,
       Numbers, Data, Version
  <2>3. Flags'
    BY <1>0, <1>10 DEF LoadInFallback, runnerVars, jobVars, boundVars, Idle,
       Fault, LoadRows, LoadRowsFails, All, Nothing, Flags
  <2>4. Mode'
    BY <1>0, <1>10, StoreBounds DEF LoadInFallback, runnerVars, jobVars,
       boundVars, Idle, Fault, LoadRows, LoadRowsFails, All, Nothing, Mode, Flags
  <2>5. Stages'
    BY <1>0, <1>10 DEF LoadInFallback, runnerVars, jobVars, boundVars, Idle,
       Fault, LoadRows, LoadRowsFails, All, Nothing, Stages, Numbers
  <2>6. WriteInv'
    BY <1>0, <1>10, CategoryPlaces DEF LoadInFallback, runnerVars, jobVars,
       boundVars, Idle, Fault, LoadRows, LoadRowsFails, All, Nothing, Numbers, Data,
       Stages, Version, WriteInv, RedisIsWhole, Mode
  <2>7. RedisIsWhole'
    BY <1>0, <1>10, CategoryPlaces DEF LoadInFallback, runnerVars, jobVars,
       boundVars, Idle, Fault, LoadRows, LoadRowsFails, All, Nothing, Numbers, Data,
       Stages, Version, WriteInv, RedisIsWhole
  <2>. QED BY <2>1, <2>2, <2>3, <2>4, <2>5, <2>6, <2>7, TypePartsNext DEF StoreInv
<1>11. CASE LoadFromRedis
  <2>1. Numbers'
    BY <1>0, <1>11, StoreBounds, CategoryPlaces DEF LoadFromRedis, runnerVars, jobVars,
       boundVars, Idle, All, Nothing, Numbers, Stages, Version
  <2>2. Data'
    BY <1>0, <1>11, StoreBounds, CategoryPlaces DEF LoadFromRedis, runnerVars, jobVars,
       boundVars, Idle, All, Nothing, Numbers, Data, Version
  <2>3. Flags'
    BY <1>0, <1>11 DEF LoadFromRedis, runnerVars, jobVars, boundVars, Idle,
       All, Nothing, Flags
  <2>4. Mode'
    BY <1>0, <1>11, StoreBounds DEF LoadFromRedis, runnerVars, jobVars,
       boundVars, Idle, All, Nothing, Mode, Flags
  <2>5. Stages'
    BY <1>0, <1>11 DEF LoadFromRedis, runnerVars, jobVars, boundVars, Idle,
       All, Nothing, Stages, Numbers
  <2>6. WriteInv'
    BY <1>0, <1>11, CategoryPlaces DEF LoadFromRedis, runnerVars, jobVars,
       boundVars, Idle, All, Nothing, Numbers, Data, Stages, Version, WriteInv,
       RedisIsWhole, Mode
  <2>7. RedisIsWhole'
    BY <1>0, <1>11, CategoryPlaces DEF LoadFromRedis, runnerVars, jobVars,
       boundVars, Idle, All, Nothing, Numbers, Data, Stages, Version, WriteInv,
       RedisIsWhole
  <2>. QED BY <2>1, <2>2, <2>3, <2>4, <2>5, <2>6, <2>7, TypePartsNext DEF StoreInv
<1>12. CASE LoadFails
  <2>1. Numbers'
    BY <1>0, <1>12, StoreBounds, CategoryPlaces DEF LoadFails, runnerVars, jobVars,
       Idle, Fault, CountFailure, LoadRows, LoadRowsFails, All, Nothing,
       Numbers, Stages, Version
  <2>2. Data'
    BY <1>0, <1>12, StoreBounds, CategoryPlaces DEF LoadFails, runnerVars, jobVars,
       Idle, Fault, CountFailure, LoadRows, LoadRowsFails, All, Nothing,
       Numbers, Data, Version
  <2>3. Flags'
    BY <1>0, <1>12 DEF LoadFails, runnerVars, jobVars, Idle, Fault,
       CountFailure, LoadRows, LoadRowsFails, All, Nothing, Flags
  <2>4. Mode'
    <3>1. ~fallback /\ ~(failures >= FailThreshold) /\ failures \in Nat
      BY <1>0, <1>12, StoreBounds DEF LoadFails, WriteInv, Mode
    <3>2. failures' = failures + 1
      BY <1>12 DEF LoadFails, CountFailure
    <3>3. fallback' <=> failures' >= FailThreshold
      BY <3>1, <3>2, <1>12 DEF LoadFails, CountFailure
    <3>4. failures' \in 0 .. FailThreshold
      BY <3>1, <3>2, StoreBounds
    <3>. QED BY <3>3, <3>4 DEF Mode
  <2>5. Stages'
    BY <1>0, <1>12 DEF LoadFails, runnerVars, jobVars, Idle, Fault,
       CountFailure, LoadRows, LoadRowsFails, All, Nothing, Stages, Numbers
  <2>6. WriteInv'
    BY <1>0, <1>12, CategoryPlaces DEF LoadFails, runnerVars, jobVars, Idle,
       Fault, CountFailure, LoadRows, LoadRowsFails, All, Nothing, Numbers, Data, Stages,
       Version, WriteInv, RedisIsWhole, Mode
  <2>7. RedisIsWhole'
    BY <1>0, <1>12, CategoryPlaces DEF LoadFails, runnerVars, jobVars, Idle,
       Fault, CountFailure, LoadRows, LoadRowsFails, All, Nothing, Numbers, Data, Stages,
       Version, WriteInv, RedisIsWhole
  <2>. QED BY <2>1, <2>2, <2>3, <2>4, <2>5, <2>6, <2>7, TypePartsNext DEF StoreInv
<1>13. CASE CheckHealth
  <2>1. Numbers'
    BY <1>0, <1>13, StoreBounds, CategoryPlaces DEF CheckHealth, runnerVars, jobVars,
       boundVars, Idle, LeaveFallback, Numbers, Stages, Version
  <2>2. Data'
    BY <1>0, <1>13, StoreBounds, CategoryPlaces DEF CheckHealth, runnerVars, jobVars,
       boundVars, Idle, LeaveFallback, Numbers, Data, Version
  <2>3. Flags'
    BY <1>0, <1>13 DEF CheckHealth, runnerVars, jobVars, boundVars, Idle, LeaveFallback,
       Flags
  <2>4. Mode'
    BY <1>0, <1>13, StoreBounds DEF CheckHealth, runnerVars, jobVars, boundVars, Idle,
       LeaveFallback, Mode, Flags
  <2>5. Stages'
    BY <1>0, <1>13 DEF CheckHealth, runnerVars, jobVars, boundVars, Idle, LeaveFallback,
       Stages, Numbers
  <2>6. WriteInv'
    BY <1>0, <1>13, CategoryPlaces DEF CheckHealth, runnerVars, jobVars, boundVars, Idle,
       LeaveFallback, Numbers, Data, Stages, Version, WriteInv, RedisIsWhole, Mode
  <2>7. RedisIsWhole'
    BY <1>0, <1>13, CategoryPlaces DEF CheckHealth, runnerVars, jobVars, boundVars, Idle,
       LeaveFallback, Numbers, Data, Stages, Version, WriteInv, RedisIsWhole
  <2>. QED BY <2>1, <2>2, <2>3, <2>4, <2>5, <2>6, <2>7, TypePartsNext DEF StoreInv
<1>14. CASE ReloadFromSnapshot
  <2>1. Numbers'
    BY <1>0, <1>14, StoreBounds, CategoryPlaces DEF ReloadFromSnapshot, runnerVars,
       boundVars, Idle, BeginSave, LeaveFallback, Numbers, Stages, Version
  <2>2. Data'
    BY <1>0, <1>14, StoreBounds, CategoryPlaces DEF ReloadFromSnapshot, runnerVars,
       boundVars, Idle, BeginSave, LeaveFallback, Numbers, Data, Version
  <2>3. Flags'
    BY <1>0, <1>14 DEF ReloadFromSnapshot, runnerVars, boundVars, Idle, BeginSave,
       LeaveFallback, Flags
  <2>4. Mode'
    BY <1>0, <1>14, StoreBounds DEF ReloadFromSnapshot, runnerVars, boundVars, Idle,
       BeginSave, LeaveFallback, Mode, Flags
  <2>5. Stages'
    BY <1>0, <1>14 DEF ReloadFromSnapshot, runnerVars, boundVars, Idle, BeginSave,
       LeaveFallback, Stages, Numbers
  <2>6. WriteInv'
    BY <1>0, <1>14, CategoryPlaces DEF ReloadFromSnapshot, runnerVars, boundVars, Idle,
       BeginSave, LeaveFallback, Numbers, Data, Stages, Version, WriteInv, RedisIsWhole,
       Mode
  <2>7. RedisIsWhole'
    BY <1>0, <1>14, CategoryPlaces DEF ReloadFromSnapshot, runnerVars, boundVars, Idle,
       BeginSave, LeaveFallback, Numbers, Data, Stages, Version, WriteInv, RedisIsWhole
  <2>. QED BY <2>1, <2>2, <2>3, <2>4, <2>5, <2>6, <2>7, TypePartsNext DEF StoreInv
<1>15. CASE ReloadFails
  <2>1. Numbers'
    BY <1>0, <1>15, StoreBounds, CategoryPlaces DEF ReloadFails, runnerVars, jobVars,
       boundVars, Idle, Fault, Numbers, Stages, Version
  <2>2. Data'
    BY <1>0, <1>15, StoreBounds, CategoryPlaces DEF ReloadFails, runnerVars, jobVars,
       boundVars, Idle, Fault, Numbers, Data, Version
  <2>3. Flags'
    BY <1>0, <1>15 DEF ReloadFails, runnerVars, jobVars, boundVars, Idle,
       Fault, Flags
  <2>4. Mode'
    BY <1>0, <1>15, StoreBounds DEF ReloadFails, runnerVars, jobVars,
       boundVars, Idle, Fault, Mode, Flags
  <2>5. Stages'
    BY <1>0, <1>15 DEF ReloadFails, runnerVars, jobVars, boundVars, Idle,
       Fault, Stages, Numbers
  <2>6. WriteInv'
    BY <1>0, <1>15, CategoryPlaces DEF ReloadFails, runnerVars, jobVars,
       boundVars, Idle, Fault, Numbers, Data, Stages, Version, WriteInv, RedisIsWhole,
       Mode
  <2>7. RedisIsWhole'
    BY <1>0, <1>15, CategoryPlaces DEF ReloadFails, runnerVars, jobVars,
       boundVars, Idle, Fault, Numbers, Data, Stages, Version, WriteInv, RedisIsWhole
  <2>. QED BY <2>1, <2>2, <2>3, <2>4, <2>5, <2>6, <2>7, TypePartsNext DEF StoreInv
<1>16. CASE UNCHANGED vars
  <2>1. StoreTypeOK'
    BY <1>16 DEF StoreInv, StoreTypeOK, vars, storeVars, runnerVars, jobVars,
       boundVars
  <2>2. WriteInv' /\ RedisIsWhole'
    BY <1>0, <1>16 DEF WriteInv, RedisIsWhole, Idle, vars, storeVars, runnerVars, jobVars
  <2>. QED BY <2>1, <2>2 DEF StoreInv
<1>. QED
  BY <1>1, <1>2, <1>3, <1>4, <1>5, <1>6, <1>7, <1>8, <1>9, <1>10, <1>11, <1>12, <1>13,
     <1>14, <1>15, <1>16 DEF StoreNext, Save, Load, Recover

-----------------------------------------------------------------------------
\* The inductive invariant holds of every reachable state.
THEOREM StoreInvariant == StoreSpec => []StoreInv
BY StoreInitial, StoreStep, PTL DEF StoreSpec

\* The state of the store stays well typed, and the count of failures agrees with
\* the fallback mode (_enable_fallback_mode, check_redis_health).
THEOREM StoreTyped == StoreSpec => []StoreTypeOK
<1>1. StoreInv => StoreTypeOK
  BY DEF StoreInv
<1>. QED BY StoreInvariant, <1>1, PTL

\* What save_state_to_redis wrote without an error is one state, no older than
\* the latest snapshot.
THEOREM RedisStaysWhole == StoreSpec => []RedisIsWhole
<1>1. StoreInv => RedisIsWhole
  BY DEF StoreInv
<1>. QED BY StoreInvariant, <1>1, PTL

\* save_snapshot_to_db never puts an older state behind a newer one.
THEOREM SnapshotsOnlyAdvance == StoreSpec => SnapshotsAdvance
<1>1. StoreInv /\ [StoreNext]_vars => [rows' >= rows]_vars
  <2>. SUFFICES ASSUME StoreInv, [StoreNext]_vars PROVE rows' >= rows \/ UNCHANGED vars
    OBVIOUS
  <2>0. rows \in Int /\ memory >= rows /\ (pc = "row" => writing = memory)
    BY TypeParts DEF StoreInv, WriteInv, Numbers
  <2>1. rows' = rows \/ SnapshotCommits
    BY DEF StoreNext, Save, Load, Recover, Change, Crash, Delete, SaveBegins, SaveSkipped,
       SetNext, SetFails,
           SnapshotRollsBack, LoadInFallback, LoadFromRedis, LoadFails, CheckHealth,
           ReloadFromSnapshot, ReloadFails, vars, storeVars
  <2>2. SnapshotCommits => rows' >= rows
    BY <2>0 DEF SnapshotCommits
  <2>. QED BY <2>0, <2>1, <2>2
<1>. QED BY StoreInvariant, <1>1, PTL DEF StoreSpec, SnapshotsAdvance
=============================================================================
