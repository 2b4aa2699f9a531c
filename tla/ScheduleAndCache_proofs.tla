----------------------- MODULE ScheduleAndCache_proofs -----------------------
(***************************************************************************)
(* Two small components, which have no state in common.                    *)
(*                                                                         *)
(* The schedules of connectors, for any connectors and crontabs: a step    *)
(* sets a job from its row, or leaves both, or names a cause.              *)
(*                                                                         *)
(* The query cache, for any number of executors, any limits and any number *)
(* of writes: a step keeps the entry's version against the table's, or     *)
(* leaves its run open, or names a reason.                                 *)
(***************************************************************************)
EXTENDS ConnectorSchedule, QueryCache, TLAPS

----------------------------------------------------------------------------
(***************************************************************************)
(* Schedules.                                                              *)
(***************************************************************************)

\* What each step does to the row and the job of each connector.
LEMMA StepCases ==
    ASSUME [Next]_vars, NEW P,
           \A c \in Connectors : Create(c) => P,
           \A c \in Connectors, status \in Statuses : SetStatus(c, status) => P,
           \A c \in Connectors, cron \in Crons \cup BadCrons \cup {NONE}, status \in Statuses :
                SetCron(c, cron, status) => P,
           \A c \in Connectors : Delete(c) => P,
           \A c \in Connectors : Tick(c) => P,
           \A c \in Connectors : LookUp(c) => P,
           \A c \in Connectors : Finish(c) => P,
           Restart => P,
           UNCHANGED vars => P
    PROVE  P
BY DEF Next, Manage, Scheduled

\* Every variable keeps the type that TypeOK gives it.
THEOREM ScheduleTypeCorrect == Spec => []TypeOK
<1>1. Init => TypeOK
  BY DEF Init, TypeOK, NoRow
<1>2. TypeOK /\ [Next]_vars => TypeOK'
  <2> SUFFICES ASSUME TypeOK, [Next]_vars PROVE TypeOK'
    OBVIOUS
  <2> USE DEF TypeOK
  <2>1. ASSUME NEW c \in Connectors, Create(c) PROVE TypeOK'
    BY <2>1 DEF Create, Statuses
  <2>2. ASSUME NEW c \in Connectors, NEW status \in Statuses, SetStatus(c, status)
        PROVE TypeOK'
    BY <2>2 DEF SetStatus, Reasons
  <2>3. ASSUME NEW c \in Connectors, NEW cron \in Crons \cup BadCrons \cup {NONE},
               NEW status \in Statuses, SetCron(c, cron, status)
        PROVE TypeOK'
    <3>1. Parsed(row'[c].cron) \in Crons \cup {NONE}
      BY DEF Parsed
    <3>2. row' \in [Connectors -> [status : Statuses \cup {"unborn", "deleted"},
                                   cron : Crons \cup BadCrons \cup {NONE}]]
      BY <2>3 DEF SetCron
    <3>3. drifted' \in [Connectors -> SUBSET Reasons]
      BY <2>3 DEF SetCron, Reasons
    <3> QED  BY <2>3, <3>1, <3>2, <3>3 DEF SetCron
  <2>4. ASSUME NEW c \in Connectors, Delete(c) PROVE TypeOK'
    BY <2>4 DEF Delete, NoRow, Reasons
  <2>5. ASSUME NEW c \in Connectors, Tick(c) PROVE TypeOK'
    BY <2>5 DEF Tick
  <2>6. ASSUME NEW c \in Connectors, LookUp(c) PROVE TypeOK'
    BY <2>6 DEF LookUp
  <2>7. ASSUME NEW c \in Connectors, Finish(c) PROVE TypeOK'
    BY <2>7 DEF Finish
  <2>8. CASE Restart
    <3>1. \A c \in Connectors : Due(c) \in Crons \cup {NONE}
      BY DEF Due, Parsed
    <3> QED  BY <2>8, <3>1 DEF Restart, Reasons
  <2>9. CASE UNCHANGED vars
    BY <2>9 DEF vars
  <2> QED
    BY <2>1, <2>2, <2>3, <2>4, <2>5, <2>6, <2>7, <2>8, <2>9, StepCases
<1> QED
  BY <1>1, <1>2, PTL DEF Spec

\* A job that differs from what a startup would load has one of the listed
\* causes, whatever PATCHes, deletions and restarts come in whatever order.
THEOREM DriftIsExplained == Spec => []JobsFollowRows
<1>1. Init => JobsFollowRows
  BY DEF Init, JobsFollowRows, NoRow, Due, Loadable
<1>2. TypeOK /\ JobsFollowRows /\ [Next]_vars => JobsFollowRows'
  <2> SUFFICES ASSUME TypeOK, JobsFollowRows, [Next]_vars,
                      NEW k \in Connectors, drifted'[k] = {}
               PROVE  job'[k] = Due(k)'
    BY DEF JobsFollowRows
  <2> USE ScheduleAssumption DEF TypeOK, JobsFollowRows, Due, Loadable
  <2>1. ASSUME NEW c \in Connectors, Create(c) PROVE job'[k] = Due(k)'
    BY <2>1 DEF Create
  <2>2. ASSUME NEW c \in Connectors, NEW status \in Statuses, SetStatus(c, status)
        PROVE job'[k] = Due(k)'
    BY <2>2 DEF SetStatus
  <2>3. ASSUME NEW c \in Connectors, NEW cron \in Crons \cup BadCrons \cup {NONE},
               NEW status \in Statuses, SetCron(c, cron, status)
        PROVE job'[k] = Due(k)'
    <3>1. CASE k = c
      <4>1. k \in ApiPulls /\ row'[k].status = "active"
        BY <2>3, <3>1 DEF SetCron
      <4>2. job'[k] = Parsed(row'[k].cron)
        BY <2>3, <3>1 DEF SetCron
      <4> QED  BY <4>1, <4>2 DEF Parsed
    <3>2. CASE k # c
      <4>1. row'[k] = row[k] /\ job'[k] = job[k] /\ drifted'[k] = drifted[k]
        BY <2>3, <3>2 DEF SetCron
      <4> QED  BY <4>1 DEF Parsed
    <3> QED  BY <3>1, <3>2
  <2>4. ASSUME NEW c \in Connectors, Delete(c) PROVE job'[k] = Due(k)'
    BY <2>4 DEF Delete
  <2>5. CASE Restart
    <3>1. job'[k] = Due(k)
      <4>1. \/ job' = [c \in Connectors |-> Due(c)]
            \/ drifted' = [c \in Connectors |-> {"not_loaded"}]
        BY <2>5 DEF Restart
      <4>2. drifted'[k] # {"not_loaded"}
        OBVIOUS
      <4> QED  BY <4>1, <4>2
    <3>2. row' = row
      BY <2>5 DEF Restart
    <3> QED  BY <3>1, <3>2 DEF Parsed
  <2> QED
    BY <2>1, <2>2, <2>3, <2>4, <2>5, StepCases DEF Tick, LookUp, Finish, vars, Parsed
<1> QED
  BY <1>1, <1>2, ScheduleTypeCorrect, PTL DEF Spec

\* The job of a connector that exists runs at the times its row says.  For that a
\* connector that is not there yet must have no job.
THEOREM ScheduleIsTheRows == Spec => []NoForeignSchedule
<1> DEFINE UnbornIdle == \A c \in Connectors : row[c].status = "unborn" => job[c] = NONE
           Inv == NoForeignSchedule /\ UnbornIdle
<1>1. Init => Inv
  BY DEF Init, NoForeignSchedule
<1>2. TypeOK /\ Inv /\ [Next]_vars => Inv'
  <2> SUFFICES ASSUME TypeOK, Inv, [Next]_vars, NEW k \in Connectors
               PROVE  /\ job'[k] # NONE /\ Exists(k)' => job'[k] = row'[k].cron
                      /\ row'[k].status = "unborn" => job'[k] = NONE
    BY DEF NoForeignSchedule
  <2> DEFINE Goal == /\ job'[k] # NONE /\ Exists(k)' => job'[k] = row'[k].cron
                     /\ row'[k].status = "unborn" => job'[k] = NONE
  <2> USE ScheduleAssumption DEF TypeOK, NoForeignSchedule, Exists, Statuses
  <2>1. ASSUME NEW c \in Connectors, Create(c) PROVE Goal
    BY <2>1 DEF Create
  <2>2. ASSUME NEW c \in Connectors, NEW status \in Statuses, SetStatus(c, status)
        PROVE Goal
    BY <2>2 DEF SetStatus
  <2>3. ASSUME NEW c \in Connectors, NEW cron \in Crons \cup BadCrons \cup {NONE},
               NEW status \in Statuses, SetCron(c, cron, status)
        PROVE Goal
    <3>1. CASE k = c
      <4>1. row'[k].status = status /\ job'[k] = Parsed(row'[k].cron)
        BY <2>3, <3>1 DEF SetCron
      <4> QED  BY <4>1 DEF Parsed
    <3>2. CASE k # c
      <4>1. row'[k] = row[k] /\ job'[k] = job[k]
        BY <2>3, <3>2 DEF SetCron
      <4> QED  BY <4>1
    <3> QED  BY <3>1, <3>2
  <2>4. ASSUME NEW c \in Connectors, Delete(c) PROVE Goal
    BY <2>4 DEF Delete, NoRow
  <2>5. CASE Restart
    <3>1. row' = row /\ (job'[k] = Due(k) \/ job'[k] = NONE)
      BY <2>5 DEF Restart
    <3>2. Due(k) # NONE => Due(k) = row[k].cron /\ row[k].status = "active"
      BY DEF Due, Parsed, Loadable
    <3> QED  BY <3>1, <3>2
  <2>6. ASSUME NEW c \in Connectors, Tick(c) \/ LookUp(c) \/ Finish(c) PROVE Goal
    BY <2>6 DEF Tick, LookUp, Finish
  <2>7. CASE UNCHANGED vars
    BY <2>7 DEF vars
  <2> QED
    BY <2>1, <2>2, <2>3, <2>4, <2>5, <2>6, <2>7, StepCases
<1> QED
  BY <1>1, <1>2, ScheduleTypeCorrect, PTL DEF Spec

----------------------------------------------------------------------------
(***************************************************************************)
(* The query cache.                                                        *)
(***************************************************************************)

\* Every variable keeps the type that CacheTypeOK gives it.
THEOREM CacheTypeCorrect == CacheSpec => []CacheTypeOK
<1> USE CacheAssumption DEF Actors, NoEntry, IdleReader, IdleWriter, Remaining
<1>1. CacheInit => CacheTypeOK
  BY DEF CacheInit, CacheTypeOK
<1>2. CacheTypeOK /\ [CacheNext]_cacheVars => CacheTypeOK'
  <2> SUFFICES ASSUME CacheTypeOK, [CacheNext]_cacheVars PROVE CacheTypeOK'
    OBVIOUS
  <2> USE DEF CacheTypeOK
  <2>1. ASSUME NEW limit \in Limits, Hit(limit) PROVE CacheTypeOK'
    BY <2>1 DEF Hit
  <2>2. ASSUME NEW limit \in Limits, Miss(limit) PROVE CacheTypeOK'
    BY <2>2 DEF Miss
  <2>3. CASE Fetch
    <3>1. reader' = [pc |-> "fill", limit |-> reader.limit, version |-> table]
      BY <2>3 DEF Fetch
    <3>2. reader.limit \in Limits
      BY <2>3 DEF Fetch
    <3> QED BY <2>3, <3>1, <3>2 DEF Fetch
  <2>4. CASE Fill
    <3>1. reader.limit \in Limits /\ reader.version \in 0..MaxCommits
      BY <2>4 DEF Fill
    <3>2. entry' = entry \/ entry' \in [version : 1..MaxCommits, rows : Limits]
      BY <2>4, <3>1 DEF Fill
    <3>3. blame' \subseteq Causes
      BY <2>4 DEF Fill, Causes
    <3>4. reply' \in [asked : Limits \cup {0}, rows : Limits \cup {0}, version : 0..MaxCommits]
      BY <2>4, <3>1 DEF Fill
    <3> QED BY <2>4, <3>2, <3>3, <3>4 DEF Fill
  <2>5. CASE Expire
    BY <2>5 DEF Expire
  <2>6. CASE ApiRestart
    BY <2>6 DEF ApiRestart, Causes
  <2>7. ASSUME NEW a \in Actors, Write(a) PROVE CacheTypeOK'
    <3>1. CASE Execute(a)
      BY <3>1 DEF Execute
    <3>2. CASE Commit(a)
      <4>1. table' \in 0..MaxCommits
        BY <3>2 DEF Commit
      <4>2. writer' \in [Actors -> [pc : {"idle", "statements", "invalidate"}, dirty : BOOLEAN]]
        BY <3>2 DEF Commit
      <4> QED BY <3>2, <4>1, <4>2 DEF Commit
    <3>3. CASE Fail(a)
      BY <3>3 DEF Fail, LeaveEntry, Causes
    <3>4. CASE Succeed(a)
      BY <3>4 DEF Succeed
    <3>5. CASE ExportRaises(a)
      BY <3>5 DEF ExportRaises, LeaveEntry, Causes
    <3>6. CASE Invalidate(a)
      <4>1. CASE entry' = NoEntry /\ writer' = [writer EXCEPT ![a] = IdleWriter]
                 /\ blame' = Remaining /\ UNCHANGED <<table, reader, reply>>
        BY <4>1
      <4>2. ASSUME NEW cause \in Causes, LeaveEntry(a, cause) PROVE CacheTypeOK'
        BY <4>2 DEF LeaveEntry
      <4> QED BY <3>6, <4>1, <4>2 DEF Invalidate, Causes
    <3> QED BY <2>7, <3>1, <3>2, <3>3, <3>4, <3>5, <3>6 DEF Write
  <2>8. CASE UNCHANGED cacheVars
    BY <2>8 DEF cacheVars
  <2> QED BY <2>1, <2>2, <2>3, <2>4, <2>5, <2>6, <2>7, <2>8 DEF CacheNext, Read
<1> QED BY <1>1, <1>2, PTL DEF CacheSpec

\* Whatever fills, invalidations, failures and crashes interleave, an entry that
\* is older than its table has an open writer or one of the listed causes.
THEOREM StaleIsExplained == CacheSpec => []FreshUnlessBlamed
<1>1. CacheInit => FreshUnlessBlamed
  BY DEF CacheInit, FreshUnlessBlamed, Stale
<1>2. CacheTypeOK /\ FreshUnlessBlamed /\ [CacheNext]_cacheVars => FreshUnlessBlamed'
  <2> SUFFICES ASSUME CacheTypeOK, FreshUnlessBlamed, [CacheNext]_cacheVars
               PROVE  FreshUnlessBlamed'
    OBVIOUS
  <2> USE DEF FreshUnlessBlamed, Stale
  <2>w. writer \in [Actors -> [pc : {"idle", "statements", "invalidate"}, dirty : BOOLEAN]]
    BY DEF CacheTypeOK
  <2>1. ASSUME NEW limit \in Limits, Hit(limit) PROVE FreshUnlessBlamed'
    BY <2>1 DEF Hit, Writing
  <2>2. ASSUME NEW limit \in Limits, Miss(limit) PROVE FreshUnlessBlamed'
    BY <2>2 DEF Miss, Writing
  <2>3. CASE Fetch
    BY <2>3 DEF Fetch, Writing
  <2>4. CASE Fill  \* an old version that is stored is blamed on the overtaking
    BY <2>4 DEF Fill, Writing, NoEntry
  <2>5. CASE Expire
    BY <2>5 DEF Expire
  <2>6. CASE ApiRestart  \* the open writer becomes a cause
    BY <2>6 DEF ApiRestart, Exposed
  <2>7. ASSUME NEW a \in Actors, Write(a) PROVE FreshUnlessBlamed'
    <3>1. CASE Execute(a)
      BY <3>1, <2>w DEF Execute, Writing
    <3>2. CASE Commit(a)  \* a becomes an open writer
      BY <3>2, <2>w DEF Commit, Writing
    <3>3. CASE Fail(a)  \* if a was the open writer, it becomes a cause
      BY <3>3, <2>w DEF Fail, LeaveEntry, Writing, Exposed
    <3>4. CASE Succeed(a)
      BY <3>4, <2>w DEF Succeed, Writing
    <3>5. CASE ExportRaises(a)  \* likewise
      BY <3>5, <2>w DEF ExportRaises, LeaveEntry, Writing, Exposed
    <3>6. CASE Invalidate(a)  \* the entry is gone, or likewise
      BY <3>6, <2>w DEF Invalidate, LeaveEntry, Writing, Exposed
    <3> QED BY <2>7, <3>1, <3>2, <3>3, <3>4, <3>5, <3>6 DEF Write
  <2>8. CASE UNCHANGED cacheVars
    BY <2>8 DEF cacheVars, Writing
  <2> QED BY <2>1, <2>2, <2>3, <2>4, <2>5, <2>6, <2>7, <2>8 DEF CacheNext, Read
<1> QED BY <1>1, <1>2, CacheTypeCorrect, PTL DEF CacheSpec

\* What is answered is never ahead of the table, and what is fetched is at least as
\* new as the last answer: there is one reader.
Forward ==
    /\ reply.version <= table
    /\ reader.pc = "fill" => reply.version <= reader.version /\ reader.version <= table
    /\ entry.version <= table

\* Answers go backwards in time only while a run is open or after one of the
\* listed causes, for any number of executors, limits and writes.
THEOREM AnswersGoForward == CacheSpec => ReadsGoForward
<1>1. CacheInit => Forward
  BY DEF CacheInit, Forward, NoEntry, IdleReader
<1>2. CacheTypeOK /\ Forward /\ [CacheNext]_cacheVars => Forward'
  <2> SUFFICES ASSUME CacheTypeOK, Forward, [CacheNext]_cacheVars PROVE Forward'
    OBVIOUS
  <2> USE DEF Forward
  <2>n. /\ table \in Nat /\ entry.version \in Nat
        /\ reply.version \in Nat /\ (reader.pc = "fill" => reader.version \in Nat)
    BY CacheAssumption DEF CacheTypeOK, NoEntry, IdleReader
  <2>1. ASSUME NEW limit \in Limits, Hit(limit) PROVE Forward'
    BY <2>1 DEF Hit
  <2>2. ASSUME NEW limit \in Limits, Miss(limit) PROVE Forward'
    BY <2>2 DEF Miss
  <2>3. CASE Fetch
    BY <2>n, <2>3 DEF Fetch, CacheTypeOK, IdleReader
  <2>4. CASE Fill
    BY <2>4 DEF Fill, IdleReader
  <2>5. CASE Expire
    BY <2>n, <2>5 DEF Expire, NoEntry
  <2>6. CASE ApiRestart
    BY <2>6 DEF ApiRestart, IdleReader
  <2>7. ASSUME NEW a \in Actors, Write(a) PROVE Forward'
    <3>1. CASE Commit(a)
      BY <2>n, <3>1 DEF Commit
    <3>2. CASE Invalidate(a)
      BY <2>n, <3>2 DEF Invalidate, LeaveEntry, NoEntry
    <3> QED  BY <2>7, <3>1, <3>2 DEF Write, Execute, Fail, Succeed, ExportRaises, LeaveEntry
  <2>8. CASE UNCHANGED cacheVars
    BY <2>8 DEF cacheVars
  <2> QED  BY <2>1, <2>2, <2>3, <2>4, <2>5, <2>6, <2>7, <2>8 DEF CacheNext, Read
<1>3. CacheTypeOK /\ Forward /\ FreshUnlessBlamed /\ [CacheNext]_cacheVars
        => [reply'.version < reply.version => Writing \/ blame # {}]_cacheVars
  <2> SUFFICES ASSUME CacheTypeOK, Forward, FreshUnlessBlamed, CacheNext,
                      ~Writing, blame = {}
               PROVE  ~(reply'.version < reply.version)
    OBVIOUS
  <2>n. table \in Nat /\ reply.version \in Nat
    BY CacheAssumption DEF CacheTypeOK
  <2>1. ASSUME NEW limit \in Limits, Hit(limit)  \* the entry is the table
        PROVE  ~(reply'.version < reply.version)
    BY <2>n, <2>1 DEF Hit, Forward, FreshUnlessBlamed, Stale
  <2>2. CASE Fill
    BY <2>n, <2>2, CacheAssumption DEF Fill, Forward, CacheTypeOK, IdleReader
  <2>3. CASE UNCHANGED reply
    BY <2>n, <2>3
  <2> QED
    BY <2>1, <2>2, <2>3 DEF CacheNext, Read, Write, Miss, Fetch, Expire, ApiRestart,
       Execute, Commit, Fail, Succeed, ExportRaises, Invalidate, LeaveEntry
<1> QED
  BY <1>1, <1>2, <1>3, CacheTypeCorrect, StaleIsExplained, PTL DEF CacheSpec, ReadsGoForward
=============================================================================
