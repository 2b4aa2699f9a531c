----------------------------- MODULE QueryCache -----------------------------
(***************************************************************************)
(* The Redis cache in front of a silver or gold table: the GraphQL         *)
(* resolver entity_data reads through it and fills it                      *)
(* (services/api/src/graphql/schema.py, cache/redis.py), execute_transform *)
(* drops the entry when it has written the table (transforms/service.py).  *)
(*                                                                         *)
(* One table and its one key.  The resolver is not async, so it runs on    *)
(* the event loop without a pause: there is one reader.  The event loop    *)
(* also executes transforms; so do the threads of agent streams, at the    *)
(* same time.  Redis outlives the API process and any call to it can fail, *)
(* which cache/redis.py turns into a miss or into nothing.  A table that   *)
(* was written has at least as many rows as a query asks for.  The masking *)
(* of columns by role is left out.                                         *)
(***************************************************************************)
EXTENDS Naturals

CONSTANTS
    Threads,      \* threads of agent streams that execute transforms
    EventLoop,    \* the REST and GraphQL API
    Limits,       \* the limits that queries ask for
    CacheLimit,   \* 100: a query for more bypasses the cache
    MaxCommits    \* bound: statements that change the table

ASSUME CacheAssumption ==
    /\ EventLoop \notin Threads
    /\ Limits \subseteq Nat \ {0}
    /\ CacheLimit \in Nat /\ MaxCommits \in Nat

VARIABLES
    table,    \* the version of the table: how many statements have changed it
    entry,    \* the cache entry: a version and how many rows of it, or none
    reader,   \* the resolver
    writer,   \* writer[a]: the execution actor a is inside
    \* History variables, they guard nothing.
    reply,    \* the last answer of the resolver
    blame     \* why an entry may be older than the table though no run is open

cacheVars == <<table, entry, reader, writer, reply, blame>>

Actors == {EventLoop} \cup Threads

NoEntry == [version |-> 0, rows |-> 0]

IdleReader == [pc |-> "idle", limit |-> 0, version |-> 0]

IdleWriter == [pc |-> "idle", dirty |-> FALSE]

Causes == {"overtaken", "partial", "unexported", "misnamed", "lost", "cut"}

CacheTypeOK ==
    /\ table \in 0..MaxCommits
    /\ entry \in {NoEntry} \cup [version : 1..MaxCommits, rows : Limits]
    /\ reader \in {IdleReader} \cup [pc : {"fetch", "fill"}, limit : Limits,
                                     version : 0..MaxCommits]
    /\ writer \in [Actors -> [pc : {"idle", "statements", "invalidate"}, dirty : BOOLEAN]]
    /\ reply \in [asked : Limits \cup {0}, rows : Limits \cup {0}, version : 0..MaxCommits]
    /\ blame \subseteq Causes

CacheInit ==
    /\ table = 0
    /\ entry = NoEntry
    /\ reader = IdleReader
    /\ writer = [a \in Actors |-> IdleWriter]
    /\ reply = [asked |-> 0, rows |-> 0, version |-> 0]
    /\ blame = {}

\* The entry is not what the table holds.
Stale == entry # NoEntry /\ entry.version # table

\* A run that has changed the table is not over.
Writing == \E a \in Actors : writer[a].dirty

\* An old version is in the cache, or may be on its way there.
Exposed == Stale \/ reader.pc = "fill"

\* What is left to blame when the cache has become empty.
Remaining == IF reader.pc = "fill" THEN blame ELSE {}

----------------------------------------------------------------------------
(***************************************************************************)
(* entity_data.                                                            *)
(***************************************************************************)

\* get_cached answers: the first limit rows of the entry, however few it has.
Hit(limit) ==
    /\ reader.pc = "idle" /\ writer[EventLoop].pc = "idle"
    /\ limit <= CacheLimit
    /\ entry # NoEntry
    /\ reply' = [asked |-> limit, version |-> entry.version,
                 rows |-> IF limit <= entry.rows THEN limit ELSE entry.rows]
    /\ UNCHANGED <<table, entry, reader, writer, blame>>

\* No entry, or Redis does not answer, or the limit is too large for it.
Miss(limit) ==
    /\ reader.pc = "idle" /\ writer[EventLoop].pc = "idle"
    /\ reader' = [pc |-> "fetch", limit |-> limit, version |-> 0]
    /\ UNCHANGED <<table, entry, writer, reply, blame>>

Fetch ==
    /\ reader.pc = "fetch"
    /\ reader' = [reader EXCEPT !.pc = "fill", !.version = table]
    /\ UNCHANGED <<table, entry, writer, reply, blame>>

\* Mutant: a result without rows is cached too.
FillEmpty ==
    /\ reader.pc = "fill"
    /\ reader' = IdleReader
    /\ reply' = [asked |-> reader.limit, rows |-> reader.limit, version |-> reader.version]
    /\ IF reader.limit <= CacheLimit
         THEN /\ entry' = [version |-> reader.version, rows |-> reader.limit]
              /\ blame' = IF reader.version = table THEN {} ELSE blame \cup {"overtaken"}
         ELSE UNCHANGED <<entry, blame>>
    /\ UNCHANGED <<table, writer>>

\* set_cached stores what was fetched, if any rows were (a table that was never
\* written has none); or it stores nothing: a row is not JSON (a date, a
\* decimal), or Redis does not answer.
Fill ==
    /\ reader.pc = "fill"
    /\ reader' = IdleReader
    /\ reply' = [asked |-> reader.limit, rows |-> reader.limit, version |-> reader.version]
    /\ \/ /\ reader.limit <= CacheLimit
          /\ reader.version > 0
          /\ entry' = [version |-> reader.version, rows |-> reader.limit]
          /\ blame' = IF reader.version = table THEN {} ELSE blame \cup {"overtaken"}
       \/ /\ blame' = IF entry = NoEntry THEN {} ELSE blame
          /\ UNCHANGED entry
    /\ UNCHANGED <<table, writer>>

\* Mutant: the entry is stored without a time to live.
NeverExpire ==
    /\ FALSE
    /\ UNCHANGED cacheVars

\* CACHE_TTL seconds have passed.
Expire ==
    /\ entry # NoEntry
    /\ entry' = NoEntry
    /\ blame' = Remaining
    /\ UNCHANGED <<table, reader, writer, reply>>

----------------------------------------------------------------------------
(***************************************************************************)
(* The part of execute_transform that touches the table and the cache.     *)
(***************************************************************************)

Execute(a) ==
    /\ writer[a].pc = "idle"
    /\ a = EventLoop => reader.pc = "idle"
    /\ writer' = [writer EXCEPT ![a].pc = "statements"]
    /\ UNCHANGED <<table, entry, reader, reply, blame>>

\* A statement of the transform commits.
Commit(a) ==
    /\ writer[a].pc = "statements"
    /\ table < MaxCommits
    /\ table' = table + 1
    /\ writer' = [writer EXCEPT ![a].dirty = TRUE]
    /\ UNCHANGED <<entry, reader, reply, blame>>

\* The run is over and has not dropped the entry.
LeaveEntry(a, cause) ==
    /\ writer' = [writer EXCEPT ![a] = IdleWriter]
    /\ blame' = IF Exposed /\ writer[a].dirty THEN blame \cup {cause} ELSE blame
    /\ UNCHANGED <<table, entry, reader, reply>>

\* A statement fails: the ones before it stay and nothing is dropped.
Fail(a) == writer[a].pc = "statements" /\ LeaveEntry(a, "partial")

\* Mutant: a run is over with its last statement.
SucceedQuietly(a) ==
    /\ writer[a].pc = "statements"
    /\ writer' = [writer EXCEPT ![a] = IdleWriter]
    /\ UNCHANGED <<table, entry, reader, reply, blame>>

Succeed(a) ==
    /\ writer[a].pc = "statements"
    /\ writer' = [writer EXCEPT ![a].pc = "invalidate"]
    /\ UNCHANGED <<table, entry, reader, reply, blame>>

\* The export between the run's record and the invalidation raises.
ExportRaises(a) == writer[a].pc = "invalidate" /\ LeaveEntry(a, "unexported")

\* The key that is dropped is of the transform's target layer and of the first
\* name that follows CREATE TABLE or INSERT INTO in the text, else of the
\* transform's own name.  It is not the key of this table when the text reads
\* CREATE OR REPLACE TABLE and the transform is called otherwise, when the table
\* is not the first that is named, or when it is in another layer.
Invalidate(a) ==
    /\ writer[a].pc = "invalidate"
    /\ \/ /\ entry' = NoEntry
          /\ writer' = [writer EXCEPT ![a] = IdleWriter]
          /\ blame' = Remaining
          /\ UNCHANGED <<table, reader, reply>>
       \/ LeaveEntry(a, "lost")       \* Redis does not answer
       \/ LeaveEntry(a, "misnamed")

\* The API process dies; Redis and the database do not.
ApiRestart ==
    /\ reader.pc # "idle" \/ \E a \in Actors : writer[a].pc # "idle"
    /\ reader' = IdleReader
    /\ writer' = [a \in Actors |-> IdleWriter]
    /\ blame' = IF Stale /\ Writing THEN blame \cup {"cut"} ELSE blame
    /\ UNCHANGED <<table, entry, reply>>

----------------------------------------------------------------------------
Read == (\E limit \in Limits : Hit(limit) \/ Miss(limit)) \/ Fetch \/ Fill

Write(a) ==
    \/ Execute(a)
    \/ Commit(a)
    \/ Fail(a)
    \/ Succeed(a)
    \/ ExportRaises(a)
    \/ Invalidate(a)

CacheNext == Read \/ Expire \/ ApiRestart \/ \E a \in Actors : Write(a)

CacheSpec == CacheInit /\ [][CacheNext]_cacheVars

\* Redis expires entries on time, and the event loop finishes the call it is in.
FairCacheSpec == CacheSpec /\ WF_cacheVars(Expire) /\ WF_cacheVars(Fetch \/ Fill)

----------------------------------------------------------------------------
\* An entry older than the table has one of seven reasons: an open run that has
\* written and has not invalidated yet; a fill that a write overtook; a run that
\* failed half way; one whose export raised; an invalidation of another key; one
\* that Redis did not answer; a process that died in between.  Nothing else
\* leaves one behind.  (transforms/service.py promises "the next GraphQL read picks
\* up the fresh data immediately", without these.)
FreshUnlessBlamed == Stale => Writing \/ blame # {}

\* Who asks again never gets an older table than an answer before, be the answers
\* from the cache, from a fill or past the cache, unless a run is open or one of
\* these reasons is there: the entry may then be older than the answer to a query
\* that missed it.
ReadsGoForward ==
    [][reply'.version < reply.version => Writing \/ blame # {}]_cacheVars

\* When the table is not written any more, the cache catches up with it for
\* good, whatever went wrong before.
EventuallyFresh == <>[]~Stale

=============================================================================
