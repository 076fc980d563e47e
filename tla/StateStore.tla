----------------------------- MODULE StateStore -----------------------------
(***************************************************************************)
(* StateStore (arbitrage/state_store.py) and the way ArbitrageLiveRunner   *)
(* saves to it and resumes from it: the state of a session in Redis, one   *)
(* key for each category and no transaction, its snapshots in PostgreSQL,  *)
(* and the fallback mode that leaves Redis alone after repeated failures.  *)
(*                                                                         *)
(* A state is its version: every change of the runner's state makes a new  *)
(* one.  0 is a state that is not there.  Of the snapshots only the latest *)
(* is ever read.  The process is sequential; it may die between any two    *)
(* commands, and any command may fail.                                     *)
(***************************************************************************)
EXTENDS Integers, Sequences

CONSTANTS
  Categories,     \* of a state, in the order they are written
  FailThreshold,  \* _redis_failure_threshold
  MaxVersion, MaxFaults, MaxCrashes  \* bounds of the model

ASSUME StoreAssumption ==
  /\ Categories # <<>> /\ Categories \in Seq(STRING)
  /\ \A i, j \in DOMAIN Categories : Categories[i] = Categories[j] => i = j
  /\ FailThreshold \in Nat \ {0}
  /\ MaxVersion \in Nat \ {0} /\ MaxFaults \in Nat /\ MaxCrashes \in Nat

Category == {Categories[i] : i \in DOMAIN Categories}
Version == 0 .. MaxVersion

VARIABLES
  memory,    \* the state of the runner
  newest,    \* the last version made
  redis,     \* the version of each category in Redis
  rows,      \* the latest snapshot in PostgreSQL
  aborted,   \* the connection's transaction failed and was not rolled back
  fallback, failures,  \* _fallback_mode, _redis_failure_count
  pc,        \* idle, before a SET, or before the snapshot
  step,      \* the category to be SET
  writing,   \* the version being written
  reload,    \* whether it is written by reload_from_snapshot
  loaded,    \* what load_state_from_redis answered last
  missed,    \* history: Redis was not wholly written by the last save
  faults, crashes  \* counted for their bounds

storeVars == <<redis, rows, aborted, fallback, failures>>
runnerVars == <<memory, newest>>
jobVars == <<pc, step, writing, reload>>
boundVars == <<faults, crashes>>
vars == <<storeVars, runnerVars, jobVars, loaded, missed, boundVars>>

All(v) == [c \in Category |-> v]
Nothing == [from |-> "none", parts |-> All(0)]

Idle == pc = "idle"
Fault == faults < MaxFaults /\ faults' = faults + 1 /\ UNCHANGED crashes

\* A Redis command of a save or a load failed.
CountFailure ==
  /\ failures' = failures + 1
  /\ fallback' = (fallback \/ failures + 1 >= FailThreshold)

BeginSave(v, again) == writing' = v /\ reload' = again /\ step' = 1

\* The save to Redis is over: the runner goes on to the snapshot.
AfterSave == pc' = IF reload THEN "idle" ELSE "row"

-----------------------------------------------------------------------------
(* Slips of a change to the store; see the README. *)

\* A category that cannot be written is left out.
SetNextSkipping ==
  /\ pc = "set"
  /\ \E done \in BOOLEAN :
       /\ redis' = IF done THEN [redis EXCEPT ![Categories[step]] = writing] ELSE redis
       /\ done \/ faults < MaxFaults
       /\ faults' = IF done THEN faults ELSE faults + 1
  /\ IF step < Len(Categories)
     THEN step' = step + 1 /\ UNCHANGED <<pc, failures, missed>>
     ELSE /\ failures' = 0
          /\ missed' = FALSE
          /\ step' = 1
          /\ AfterSave
  /\ UNCHANGED <<rows, aborted, fallback, runnerVars, writing, reload, loaded, crashes>>

\* Resume from Redis, where the state is newer as a rule.
ResumedFromRedis ==
  /\ UNCHANGED <<faults, aborted>>
  /\ IF \E c \in Category : redis[c] # 0
     THEN memory' = redis[Categories[1]] /\ UNCHANGED newest
     ELSE newest < MaxVersion /\ newest' = newest + 1 /\ memory' = newest + 1

-----------------------------------------------------------------------------
(* The runner. *)

Change ==
  /\ Idle /\ newest < MaxVersion
  /\ newest' = newest + 1
  /\ memory' = newest + 1
  /\ UNCHANGED <<storeVars, jobVars, loaded, missed, boundVars>>

\* The latest snapshot; a fresh state if there is none, or reading it failed.
Resumed ==
  \/ /\ rows # 0
     /\ memory' = rows /\ aborted' = FALSE
     /\ UNCHANGED <<newest, faults>>
  \/ /\ newest < MaxVersion
     /\ newest' = newest + 1 /\ memory' = newest + 1
     /\ IF rows = 0
        THEN aborted' = FALSE /\ UNCHANGED faults
        ELSE faults < MaxFaults /\ faults' = faults + 1 /\ aborted' = TRUE

\* The process dies, and another one resumes the session.
Crash ==
  /\ crashes < MaxCrashes
  /\ crashes' = crashes + 1
  /\ pc' = "idle" /\ step' = 1 /\ writing' = 0 /\ reload' = FALSE
  /\ fallback' = FALSE /\ failures' = 0
  /\ loaded' = Nothing
  /\ missed' = (missed \/ pc = "set")
  /\ Resumed
  /\ UNCHANGED <<redis, rows>>

\* CLEAN_RESET with the id of an earlier session, which is started anew.
Delete ==
  /\ Idle
  /\ redis' = All(0)
  /\ missed' = TRUE
  /\ UNCHANGED <<rows, aborted, fallback, failures, runnerVars, jobVars, loaded, boundVars>>

-----------------------------------------------------------------------------
(* save_state_to_redis, then save_snapshot_to_db. *)

SaveBegins ==
  /\ Idle /\ ~fallback
  /\ pc' = "set"
  /\ BeginSave(memory, FALSE)
  /\ UNCHANGED <<storeVars, runnerVars, loaded, missed, boundVars>>

SaveSkipped ==
  /\ Idle /\ fallback
  /\ pc' = "row"
  /\ BeginSave(memory, FALSE)
  /\ missed' = TRUE
  /\ UNCHANGED <<storeVars, runnerVars, loaded, boundVars>>

SetNext ==
  /\ pc = "set"
  /\ redis' = [redis EXCEPT ![Categories[step]] = writing]
  /\ IF step < Len(Categories)
     THEN step' = step + 1 /\ UNCHANGED <<pc, failures, missed>>
     ELSE /\ failures' = 0
          /\ missed' = FALSE
          /\ step' = 1
          /\ AfterSave
  /\ UNCHANGED <<rows, aborted, fallback, runnerVars, writing, reload, loaded, boundVars>>

\* A SET raises, whether or not Redis has executed it: the categories still to
\* come are not written.
SetFails ==
  /\ pc = "set" /\ Fault
  /\ redis' \in {redis, [redis EXCEPT ![Categories[step]] = writing]}
  /\ CountFailure
  /\ missed' = TRUE
  /\ step' = 1
  /\ AfterSave
  /\ UNCHANGED <<rows, aborted, runnerVars, writing, reload, loaded>>

\* One transaction over the four tables.
SnapshotCommits ==
  /\ pc = "row" /\ ~aborted
  /\ rows' = writing
  /\ pc' = "idle"
  /\ UNCHANGED <<redis, aborted, fallback, failures, runnerVars, step, writing, reload,
                 loaded, missed, boundVars>>

\* It fails, at the latest because an earlier load left the transaction failed,
\* and is rolled back.
SnapshotRollsBack ==
  /\ pc = "row"
  /\ IF aborted THEN UNCHANGED boundVars ELSE Fault
  /\ aborted' = FALSE
  /\ pc' = "idle"
  /\ UNCHANGED <<redis, rows, fallback, failures, runnerVars, step, writing, reload,
                 loaded, missed>>

-----------------------------------------------------------------------------
(* load_state_from_redis *)

\* load_latest_snapshot: the snapshot, or nothing when a statement fails.
LoadRows ==
  /\ ~aborted /\ UNCHANGED aborted
  /\ loaded' = IF rows # 0 THEN [from |-> "rows", parts |-> All(rows)] ELSE Nothing

LoadRowsFails == loaded' = Nothing /\ aborted' = TRUE

LoadInFallback ==
  /\ Idle /\ fallback
  /\ \/ LoadRows /\ UNCHANGED boundVars
     \/ LoadRowsFails /\ IF aborted THEN UNCHANGED boundVars ELSE Fault
  /\ UNCHANGED <<redis, rows, fallback, failures, runnerVars, jobVars, missed>>

\* What there is of the four categories; finding none of them does not clear
\* the counter.
LoadFromRedis ==
  /\ Idle /\ ~fallback
  /\ IF redis = All(0)
     THEN loaded' = Nothing /\ UNCHANGED failures
     ELSE loaded' = [from |-> "redis", parts |-> redis] /\ failures' = 0
  /\ UNCHANGED <<redis, rows, aborted, fallback, runnerVars, jobVars, missed, boundVars>>

\* A GET raises: the snapshot is the answer.
LoadFails ==
  /\ Idle /\ ~fallback /\ Fault
  /\ CountFailure
  /\ IF aborted THEN LoadRowsFails ELSE LoadRows
  /\ UNCHANGED <<redis, rows, runnerVars, jobVars, missed>>

-----------------------------------------------------------------------------
(* Health and recovery. *)

\* check_redis_health gets an answer to its PING.
LeaveFallback ==
  /\ fallback' = FALSE
  /\ failures' = IF fallback THEN 0 ELSE failures

CheckHealth ==
  /\ Idle
  /\ LeaveFallback
  /\ UNCHANGED <<redis, rows, aborted, runnerVars, jobVars, loaded, missed, boundVars>>

\* reload_from_snapshot: the snapshot is written to Redis, if that is healthy.
ReloadFromSnapshot ==
  /\ Idle /\ rows # 0 /\ ~aborted
  /\ pc' = "set"
  /\ BeginSave(rows, TRUE)
  /\ LeaveFallback
  /\ UNCHANGED <<redis, rows, aborted, runnerVars, loaded, missed, boundVars>>

\* It cannot read the snapshot, and leaves the transaction failed.
ReloadFails ==
  /\ Idle
  /\ IF aborted THEN UNCHANGED boundVars ELSE Fault
  /\ aborted' = TRUE
  /\ UNCHANGED <<redis, rows, fallback, failures, runnerVars, jobVars, loaded, missed>>

-----------------------------------------------------------------------------
StoreInit ==
  /\ memory = 1 /\ newest = 1
  /\ redis = All(0) /\ rows = 0 /\ aborted = FALSE
  /\ fallback = FALSE /\ failures = 0
  /\ pc = "idle" /\ step = 1 /\ writing = 0 /\ reload = FALSE
  /\ loaded = Nothing
  /\ missed = TRUE
  /\ faults = 0 /\ crashes = 0

Save == SaveBegins \/ SaveSkipped \/ SetNext \/ SetFails \/ SnapshotCommits \/ SnapshotRollsBack
Load == LoadInFallback \/ LoadFromRedis \/ LoadFails
Recover == CheckHealth \/ ReloadFromSnapshot \/ ReloadFails

StoreNext == Change \/ Crash \/ Delete \/ Save \/ Load \/ Recover

StoreSpec == StoreInit /\ [][StoreNext]_vars

-----------------------------------------------------------------------------
(* Properties. *)

\* Types.  The counter of failures of _enable_fallback_mode agrees with the
\* mode: below the threshold Redis is used.
StoreTypeOK ==
  /\ memory \in 1 .. newest /\ newest \in Version
  /\ redis \in [Category -> 0 .. newest] /\ rows \in 0 .. newest
  /\ aborted \in BOOLEAN /\ fallback \in BOOLEAN /\ failures \in 0 .. FailThreshold
  /\ fallback <=> failures >= FailThreshold
  /\ pc \in {"idle", "set", "row"} /\ step \in DOMAIN Categories
  /\ writing \in 0 .. newest /\ reload \in BOOLEAN
  /\ pc # "idle" => writing # 0
  /\ loaded \in [from : {"none", "redis", "rows"}, parts : [Category -> 0 .. newest]]
  /\ missed \in BOOLEAN
  /\ faults \in 0 .. MaxFaults /\ crashes \in 0 .. MaxCrashes

\* What save_state_to_redis wrote without an error is one state, no older than
\* the latest snapshot: a load from Redis mixes states, or goes back behind the
\* snapshot, only after a save that failed, was skipped or was cut short.
RedisIsWhole ==
  Idle /\ ~missed =>
    /\ \A c, d \in Category : redis[c] = redis[d]
    /\ \A c \in Category : redis[c] >= rows

\* The latest snapshot is never followed by one of an older state, whatever
\* Redis holds, fails to hold, or held before a fallback: a restart cannot
\* undo what an earlier one resumed from.
SnapshotsAdvance == [][rows' >= rows]_vars

=============================================================================
