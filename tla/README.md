# Verification of the Jonas data platform

TLA+ specifications of the API service of the Jonas data platform
(`services/api/src`, with the tables of `db/`), the TLC runs that check them on
small instances and the TLAPS proofs of their main properties for every
instance. Paths below are relative to `services/api/src` unless they start with
`db/`, `docs/` or `apps/`.

Contents: 1 the system, 2 how it executes, 3 the modules, 4 the runs, 5 the
proofs, 6 what the checks found, 7 assumptions, 8 what is not modelled, 9 the plan.

## 1. The system: an inventory

Jonas is a multi-tenant data platform: data lands in *bronze* tables through
connectors, SQL *transforms* that an engineer drafts and an admin approves make
*silver* and *gold* tables of it, dashboards and GraphQL read them, and an LLM
agent does all of this on behalf of a user. One Python process serves
everything; its state is one DuckDB file, one Redis cache and some dictionaries.

| Component | State | Operations | Interacts with | Hard behaviour | What makes it correct |
|---|---|---|---|---|---|
| transforms (`transforms/service.py`, `router.py`) | rows of `transforms.transform` and `transform_run` | create, update, approve/reject, execute, delete | agent, collections and bootstrap write the same rows; execution calls parquet, cache, triggers | edits, approvals and executions interleave; executions work on a snapshot; several statements commit one by one; crashes | only approved text runs; an edit withdraws approval; the run history says what happened |
| on_change triggers (`transforms/triggers.py`) | `_in_flight` set | `fire_on_data_changed`, `on_data_changed` | fired by ingestion and executions, executes transforms | one daemon thread per event, cascades, debounce on a stale timestamp | watchers run once per change; cycles end |
| ingestion (`integrations/ingest.py`) | bronze tables, `integrations.connector_run` | webhook, CSV and JSON upload, API pull with five pagination modes | OAuth, SSRF check, parquet, triggers | remote services fail in the middle; caps; partial failure; crashes | run rows agree with tables; landed rows are announced; pulls end |
| connectors, scheduler (`integrations/service.py`, `router.py`, `scheduler/scheduler.py`) | rows of `integrations.connector`, in-memory cron jobs | create, update, delete, reload of a job, scheduled pull, load at startup | PATCH handlers set jobs, jobs start pulls | rows and jobs are two copies; deletion during a pull; restart | jobs are those the rows ask for |
| GraphQL and cache (`graphql/schema.py`, `cache/redis.py`) | Redis entries with a time to live | read through, fill, invalidate | executions invalidate | fill races invalidation; Redis unavailable | fresh answers, whole answers |
| agent (`agent/router.py`, `service.py`, `handlers/`) | conversation; no state of its own | tool calls of the services above | every service | each open stream is a thread beside the event loop | tools respect roles and preconditions |
| smart import (`agent/handlers/smart_import.py`) | none | entity, connector, ingestion, transform in turn | catalogue, connectors, ingestion, transforms | fails half way | what is left can be resumed |
| collections (`collections/router.py`) | labels on rows | export, import (overwrite by name) | catalogue, connectors, transforms | partial imports; overwriting approved transforms | an import never approves |
| catalogue (`catalogue/`) | `catalogue.entity`, `entity_field` | CRUD, bulk fields | agent, GraphQL | layered names, partial bulk inserts | fields belong to entities |
| bootstrap (`db/init.py`) | schema, `schema_migration` | DDL, migrations, rewriting of stored SQL, seeding | every table | runs at every start, swallows failures | idempotent |
| schema names (`db/tenant_schemas.py`) | none | inject and strip tenant prefixes | execution, import, bootstrap | text rewriting that must be undone exactly | stripping undoes injecting |
| connection (`db/connection.py`) | one shared DuckDB connection | `get_conn` | everything | threads share its pending result | – |
| parquet (`storage/parquet.py`) | files | export, restore | ingestion, executions | names by the second; a directory that cannot be made raises in the caller | a failing backup leaves the caller alone |
| OAuth (`security/oauth.py`) | token cache, refresh token in the row | look up, exchange, store, write back | pulls, PATCH of connectors, token servers | concurrent rotation, expiry, lost replies | the row's refresh token is usable; the cache's tokens are alive |
| auth, tenants, superuser (`auth/`, `tenant/`, `superuser/`) | accounts, memberships, invites, tokens in the clients' hands | login, refresh, invite, accept, create, change role, revoke; tenants and superusers | every request | several statements without a transaction; tokens are copies of rows | members and superusers are kept apart; a spent invite has its member; old claims end |
| audit, query workbench, dashboards | rows | append; read; CRUD | – | – | – |
| agent memory (`agent/memory.py`) | memories with scores | save, recall with boost, forget, decay, prune | agent, bootstrap | overlapping recalls; decay and prune at every start | what is used stays |
| prompts, providers, PII masking | – | text | agent | – | – |
| dashboard (`apps/dashboard`) | what its forms have loaded | – | REST and GraphQL | a form sends back what it loaded, however old | – |
| seed scripts, e2e | – | – | – | – | – |

`PROJECT.json` lists the same components with what is modelled of each, and
every hazard at the line where it bites.

## 2. How the code executes

What runs concurrently decides what the models interleave.

* REST handlers are `async def` functions that never await between their
  database calls (uploads await the body first), and the GraphQL resolvers are
  synchronous functions. They all run on the event loop without a pause: the
  REST and GraphQL API is *one actor*, `EventLoop`.
* `POST /agent/chat/stream` (`agent/router.py`) returns a plain generator, which
  Starlette iterates in a worker thread. Its tool calls run the same service
  functions beside the event loop: *one more actor per open stream*.
* Scheduled pulls run on APScheduler's threads, triggers on daemon threads. Both
  and the agent's pulls resolve OAuth headers at their start.
* `bootstrap()` runs before the process serves anything, so nothing interleaves
  with it but its own death.
* Every `conn.execute` commits by itself. A service function is a sequence of
  atomic steps, one per statement whose outcome matters; local variables carry
  what it read before.

## 3. The modules

### ApprovalGate
The abstract promise: a text that is changed loses its clearance, only a text in
force can be cleared, and what starts to run is in force and cleared at that
moment. Maintenance may revise texts in place (`Revise`), because the bootstrap does.

### TransformLifecycle
`row[t]` is the row of `transforms.transform` (its status, text, and which run
stamped `last_run_at`), `run[r]` the row of `transform_run`, `actor[a]` the
service call an actor is inside with its local variables, `announced` the runs
that went on to invalidate and fire triggers, `unheard` those whose export raised
before that.

| Action | Code |
|---|---|
| `Create` | `create_transform`, one INSERT |
| `BeginUpdate`, `FinishUpdate` | `update_transform`: the SELECT that sets `is_draft`; the UPDATE |
| `Review` | `approve_transform` |
| `Import`, `Delete` | `import_collection` with overwrite; `delete_transform` |
| `ReadForRun` ... `Publish` | `execute_transform`: the SELECT and the status check; the INSERT of the run; validation; each statement; the outcome; `last_run_at`; export, cache and triggers |
| `ExportRaises` | `export_layer` raises before its COPY: the call is left, its run a success |
| `Restart` | the process dies and `bootstrap()` rewrites stored texts |

Only creation checks the statements of a text. An edit stores any: PATCH checks
nothing, and the agent's dry run tries a text's SELECT blocks, of which it may have
none. An update that changes no SQL does not change what is modelled, so it is a
stutter. `run[r].sql` and `run[r].done` are not columns: they record what the run
executed. `vetted`, `raced`, `cut` are history variables and guard nothing:
`vetted[t]` are the texts an approval found in the row and what later bootstraps
made of them, `raced` the transforms that were approved while an edit was open
that had read a draft, `cut` the runs whose process died.

`MCTransformLifecycle` gives the constants values. The module instantiates
`ApprovalGate` with the refinement mapping: the text in force is the row's, it is cleared when the
status is `approved`, what has started is what the run rows record.

### Ingest
A job is one call of `land_webhook`, `land_batch_csv`, `land_batch_json` or
`land_api_pull`; `job[j]` are its local variables, `bronze[j]` the rows it has
in the table, `record[j]` its row of `connector_run`, `fired` whether it
announced. `FetchPage`, `FetchFails`, `FetchRaisesValueError` and `StopAtCap`
are the four ways a page can go, `Leads` says where each strategy goes after it,
`Land`, `Reject` and `LandRaises` are `land_webhook` for one record; after `Land`
the backup of the table is `Export` or `ExportRaises`, and only then does the caller
count the record (a webhook has no caller: it records its run before the export).
`Account` and `Fire` are the end of the function. `_record_run` swallows its own
failure, so `Write` may write nothing. `abandoned` and `uncounted` are history
variables.

### QueryCache
One table and its one key. `table` counts the statements that changed the table,
`entry` is the snapshot in Redis, `reader` the resolver, `writer[a]` the
execution an actor is inside. Every call of Redis may fail, which the code turns
into a miss or into nothing. An execution that succeeds exports first, which may
raise (`ExportRaises`), and then drops the key of the name it reads out of the text,
which may be another table's (`Invalidate`; `LeaveEntry` for every way past the
entry). `blame` (history) collects why an entry may be old.

### ConnectorSchedule
`row[c]` holds a connector's status and cron schedule, `job[c]` the crontab of
its in-memory job, `pull[c]` its scheduled pull (inside, module Ingest takes
over). `SetStatus` is a PATCH that does not name `cron_schedule`, `SetCron` one
that does; each is one step because only the event loop takes it. `drifted`
(history) collects why the job may differ from the row.

### Membership
`account`, `member`, `tenant` and `invite` are the rows, `access` and
`refreshers` the tokens that have been issued and have not expired, whoever holds
them. A token is a record of what it says; requests are decided by it
(`Administers`, `Administer`, `Govern`), so a handler can act for somebody whose
row has changed. The handlers run on the event loop and do not interleave; one
that takes several statements (`Join` and `Spends` in `AcceptInvite`,
`CreateUser`, `CreateTenant`, `DeleteTenant`) chooses how many of them were done
before it stopped. `Refresh` reads the rows again, `Tick` ages tokens and
invitations. `emptied`, `crossed`, `since` are history variables.

### Catalogue
`entity[i]` is a row of the catalogue with what became of each field of its
schema, `connector[c]` and `transform[n]` the rows that refer to entities by id,
`file` the collection that was exported last, `task[a]` the operation that an
actor is inside. One action is one statement, and tasks share them: `Look`,
`InsertEntity` and `InsertField` are `create_entity` and `create_fields_bulk`
for the POST handler, `register_entity`, the import and smart_import alike;
`Resolve` and `Join` are `create_integration`; `Land`, `MakeTransform` and
`Return` are the rest of `smart_import`; `NextItem` and `WireUp` take the next
item of an import. `Raise` is the except clause of whichever it is, `Crash` the
end of the process. What actors request is bounded by `MaxRequests`. `excused`
is a history variable. `MCCatalogue` adds the symmetry.

### OAuthTokens
One connector: `row` is its auth_config, `cache` the entry of `_TOKEN_CACHE` under
its id, `pull[p]` what a call of `land_api_pull` has read and where it is. The
steps of a pull are the reads and writes that others can come between: `Begin`
(copies the row), `Lookup` (asks the cache), `Exchange` and `ReplyLost` (the
server's part, external), `Store`, `PersistRead` and `PersistWrite`. `Patch` (with
the configuration of a client that was authorized anew) and `Delete` are the event
loop's. `form` is what the dashboard's edit form loaded (`OpenForm`); `SaveForm` is
the PATCH that sends it back, whatever was edited and however the row has changed. Times are relative: a token has what is `left` of
it by the server's clock and what the cache `believed`. `excused`, `wanted` and
`since` are history variables.

### Bootstrap, MCBootstrap
`Bootstrap` is `bootstrap()` over any scripts; a database is the set of objects
(tables, columns, indexes, rows) that statements make and need. `Check` is
`_is_migration_applied`, `Execute` and `Raise` the two ways a statement ends,
`Record` is `_record_migration`. `MCBootstrap` holds `db/001_core_duckdb.sql` (as
far as later files alter it) and `db/002` to `013` statement by statement, and two
databases to start on: none, and one of the time before 002.

### AgentMemory
`memory[m]` is a row, its score counted in the decays that it outlasts before
`prune_memories` deletes it (a recall's factor of 1.2 outweighs three decays by
0.95), `task[a]` the writes that a recall still has to do with the scores it
computed from its read. `Decay`, `Prune`, `ServeAnyway` and `Stop` are the starts
and ends of the process. `recalled` is a history variable.

### TriggerDispatch
`thread[d]` is the stack of calls of `on_data_changed` of a trigger's thread,
`inFlight` the in-flight set. `Selected` is a transform's row as
`_find_watching_transforms` selects it, a record of `Columns`, and `Watched` what
`t.get("watch_entities")` makes of it. `Take`, `Debounce`, `Execute`, `Return` and
`TooDeep` are the rest of the function; as the code stands no row is ever taken.

### Proof modules
`TransformLifecycle_proofs` (with the refinement of `ApprovalGate`),
`Ingest_proofs`, `ScheduleAndCache_proofs` (for `ConnectorSchedule` and
`QueryCache`, which share no name: hence `cacheVars`, `CacheInit`, `CacheNext` and
the like in `QueryCache`), `Membership_proofs`, `Catalogue_proofs`,
`OAuthTokens_proofs`, `Bootstrap_proofs`, `AgentMemory_proofs`: section 5.

Definitions named as mutants in a comment are plausible bugs of the definition
that follows them; each property of a passing run is violated when one of them
takes its place.

## 4. The runs

| Run | Instance | Checks |
|---|---|---|
| `lifecycle_streams` | one transform, a text of two statements and an invalid one, the event loop and one stream, two run ids (245,000 states) | type; the gate up to the race; what runs was approved; new text is unapproved; running rows are owned; outcomes are truthful; history is final; every run settles |
| `lifecycle_rest` | two transforms, no stream, one run id, a text that the bootstrap rewrites (760,000 states) | the gate without exception; the refinement of ApprovalGate |
| `lifecycle_race` | as `lifecycle_streams`, with the text that is rewritten | *violated*: finding 1 |
| `ingest` | one job of any kind, 3 pages, cap of 4 records, pages of up to 3 (14,300 states) | type; run rows; announcements; caps; termination |
| `cache` | two writers, three commits, limits 1, 2 (the cache's limit) and 3 (121,000 states) | type; old entries have a reason; answers do not go back in time without one; old entries do not stay |
| `schedule` | an api_pull connector and another, two valid schedules and a malformed one (11,700 states) | type; jobs follow rows; no foreign schedule; deleted connectors are not pulled |
| `membership` | the first superuser and two more people, one tenant, one invite, two roles, lifetimes 1, 2 and 1 (access, refresh, invite) | members and superusers apart; spent invites have members; somebody governs; stale claims die out |
| `catalogue` | the event loop and one stream, two names, two fields, three entity ids, three requests | type; one row per name; partial entities are explained; reports are true; watched entities are whole; imports link their entities |
| `oauth` | two pulls, two clients, lifetime 2, buffer and delay 1, three refresh tokens each (5.1 million states) | type; the row keeps up; the old client's token dies out; the cache hands out live tokens |
| `bootstrap` | the files of `db/`, two databases to start on, two failing calls (1.4 million states) | type; failures heal until they are recorded |
| `memory` | two memories, two threads, scores up to 4 decays, a boost of 2, pruning after 2 days (1.0 million states) | recalled memories stay |
| `triggers` | one transform, one entity, one thread | *violated*: finding 2 |

Why the bounds are enough to be interesting:

* Two actors and one transform contain every pairwise race on a row; two run ids
  let two executions of it overlap, and a restart leave one run behind while
  another starts. Run ids are the bound on the number of executions. Only the
  *gate* is checked with several transforms, as the other properties relate an
  actor to one row; the proofs cover any number.
* Jobs of `Ingest` share no variable component, so one job shows what each can
  do. Three pages and a cap of four records with pages of up to three reach both
  caps, the overshoot, the short last page and the empty page. `MaxBatch` is a
  bound of the model, the others are the code's parameters at small values.
* Three commits (`MaxCommits`, a bound of the model) let an entry be two versions
  old and both writers be open. Limits below, at and above the cache's limit.
* Two connectors differ in type; schedules matter only by being equal, different
  or malformed.

* One tenant and one invite contain every order of inviting, accepting, creating,
  revoking and deleting for a person; three people are what it takes for two
  superusers to revoke each other and for a third to be a member. Lifetimes keep
  their order; the proofs cover any.
* Two actors over two names make every pair of operations on one row meet; three
  ids let a name be registered, deleted and registered again while a third row is
  there; three requests are an operation on each side and one that undoes. A file
  of one entity and one connector holds the link between two items.
* Two pulls are the overlap; three refresh tokens per client let a token rotate
  twice, which overlapping pulls and a form of before a rotation need. A token that
  lives for two ticks is cached for one, and an answer can be stored a tick late.
  `MaxTokens` is a bound of the model.
* `MaxFaults` = 2 lets a statement fail and its record as well, or two statements
  of different starts. The database of before 002 makes every statement of 002 do
  something.
* A score of 4 with a boost of 2 can be capped by a recall; two days before the
  prune let a recall be older than one and younger than the other. `Lowest` bounds
  how far a memory that prune failed to delete goes on decaying.

Deadlock is not checked where users may simply stop making requests, run ids or
commits are used up, and every call has returned: the runs of the first four modules
and `triggers`. In the others something can always happen, and deadlock is checked.

Fairness: `RunSettles`, `JobEnds`, `EventuallyFresh` and `DeletedIsNotPulled`
assume only that a call that has begun goes on (its thread is scheduled, queries
return, HTTP requests have a timeout of 30 s) and that Redis expires entries.
Nobody is assumed to make a request, to approve, or to restart anything; that a
deleted connector is never pulled again is a matter of the look-up, not of luck.
`RunSettles` excuses a run that a crash cut off: the code has no recovery for it,
which `HistoryIsFinal` states.

## 5. The proofs

All proofs are checked by TLAPS from the assumptions that the modules state on
their constants (`LifecycleAssumption`, `IngestAssumption`, `CacheAssumption`,
`ScheduleAssumption`, `MembershipAssumption`, `BootstrapAssumption`,
`MemoryAssumption`, `OAuthAssumption`, `CatalogueAssumption`), for any values of
these constants.

**Lifecycle.** `TypeCorrect` gives types. `GateHoldsUnlessRaced` is not inductive:
an edit writes a status that depends on what it read, and an execution runs a
text it read. `Gated` adds what is true of calls under way: a call works on an
inserted transform and owns its run row alone (`CallsAreWellFormed`); an open
edit that saw a draft has not been overtaken by an approval, and an execution
carries a vetted text, both unless the transform is in `raced`
(`CallsRespectGate`); run rows name a transform and a text
(`RunsAreWellFormed`). The proof has one step per action; the crucial one is
`Review`, which puts a transform in `raced` exactly if it would break the second
part. From it follow `GateUnlessRaced`, `ExecutionGated` (`RunsOnlyReviewedSql`:
vetted texts are never taken back, so a snapshot stays vetted),
`NewTextIsUnapproved` (an action property) and `GateOnRestAlone`: without stream
threads the only actor cannot review while it edits, `raced` stays empty and the
gate holds without exception.

The run history has an invariant of its own, `Kept`: between its INSERT and its
outcome a run row belongs to one actor, and the stage of that actor says how far the
row is (`CallsKeepJournal`); a row without an owner is finished or was cut off.
`RunningOwned`, `OutcomesTruthful` and `HistoryFinal` (an action property) follow.

`RestImplementsGate` is the refinement: without streams every
step of the service is a step of `ApprovalGate` or a stutter. It adds that what an
execution has read is still so when it inserts its run row (`ReadIsCurrent`), which is
true because nothing else runs meanwhile; every edit is a `Change`, every run row a
`Run`, every bootstrap a `Revise`.

**Ingestion.** `AccountInv` relates the local counters of a call to the table
(`CountersMatch`), the page in hand to the caps (`PagesMatch`) and the stage to
the run row and the trigger (`AccountsInOrder`). Jobs do not touch each other's
components, so each action is proved for its job and the others are unchanged.
`TruthfulRuns`, `LandingAnnounced` and `CapsRespected` follow. Counters and table
differ by one row at most (`Uncounted`), the one whose export is under way or
raised; for a pull that is why its run is not a success.

**Cache.** `FreshUnlessBlamed` is inductive with the types (`StaleIsExplained`): a
fetched version that is already old is not to blame yet, but the fill that stores
it is; a run that leaves the entry, by whichever of its ends, leaves its reason. `AnswersGoForward` (an action property) needs it and `Forward`: what is
fetched is at least as new as the last answer, since there is one reader, and
neither is ahead of the table; an answer from the cache goes back only when the entry
is old, which then has a reason.

**Schedules.** `DriftIsExplained` is inductive with the types: every action that
changes a row without its job records a reason. `ScheduleIsTheRows` also needs that a
connector that is not there yet has no job.

**Membership.** Handlers touch accounts and memberships in up to three statements
and can stop after any. `OneKind` is inductive with the types; what
does it is that members and superusers alike are made of addresses without an
account (`Free`). `SpentInvite` and `KeepsSuperuser`
follow with it, action by action. `StaleClaims` is strengthened to
`StaleClaimsAreOld`: a token whose claims no longer hold is at least as old as the
change that ended them, since the token was issued before it and both age together.
They hold for any number of people, tenants and invites and for any lifetimes.

**Bootstrap.** `FailuresHeal` holds for any scripts, for what they promise and no
statement drops: the invariant `Progress` says, in every state, that what a
recorded file or an earlier file or statement of this start promises is in the
database or in `lost`.

**Memories.** `RecalledStay` (an action property) follows from `RecallHelps`: while
the process is up a memory that was recalled in time has a score above the
threshold by the one decay to come and a last_used_at no older than the recall; after
the decay it is still not below. Overlapping recalls write scores in any order,
and each of them has that margin.

**OAuth tokens.** `Shape` adds to the types what a pull carries at each of its
steps (`Equipped`). Three invariants rest on it, one for each property. `LiveTokens`:
a token that the cache holds, or that a pull is about to store, is believed to live no
longer than it does plus the time it waited (`ClocksAgree`), which is at most
`MaxDelay` and so within `Buffer`. `OldClientFades`: while `since` counts, nobody
carries another client's configuration, and an old client's token in the cache has
`believed + since` at most the longest lifetime (`Fades`). `RowStaysUsable`: while
nothing is `excused` all pulls and the row speak of one client (`OneClient`), at most one
pull holds a rotated token, and that token is the last one issued, hence unspent since
the server only spends earlier ones (`HolderIsSound`); when nobody holds one the same
is true of the row's (`RowIsSound`). Each of the six excuses is a step that
would break it; a form that resends what the row still holds breaks nothing.

**Catalogue.** One inductive invariant, `IInv`, carries all six properties. `Rowwise`
types the rows. `Sound(a, t)` is what is true of the operation t that a is inside: what
it holds for its next statement (`Equipped`, `OfItsKind`), what it has finished and
will report or build on (`Achieved`), and for an import that its entities are still
there and its connectors are linked as they should be (`Linked`). `Registration` gives
each entity that lacks fields one registrar which knows all of them, or excuses it.
The lemmas `KeepsAchieved` and `KeepsLinked` say why other actors cannot take this
away: whole entities stay whole, and no row is renamed or deleted while the event loop
imports, because the handlers that do so run on the event loop (`Stays`; `RowsAtRest`
for these handlers). `ImportIsLinked` also needs that the entities of a file come
before its connectors. `NamesAreUnique` rests on the unique index in `InsertEntity`
and `UpdateEntity`, not on the look before it.

Only model-checked: the liveness properties `RunSettles`, `JobEnds`,
`EventuallyFresh` and the second part of `DeletedIsNotPulled`, which are outside the
prover's reach; its first part follows from the look-up's guard alone. Nothing is
proved about `TriggerDispatch`, whose one property does not hold. Every invariant that a passing run checks is a theorem. The type
invariants of `Membership` and `AgentMemory` are proved and not in a run.

## 6. What the checks found

Two runs end in a violation of something the repository says of itself.

1. **Approval over an open edit** (`transforms/service.py:145`): the edit decides
   from its first read whether to reset the status. Property
   `ApprovedSqlWasReviewed`; `GateHoldsUnlessRaced` and its proof show that this is
   the only way past the gate.
2. **No transform is ever triggered** (`transforms/triggers.py:60`): the query for
   watching transforms does not select `watch_entities`, which line 76 reads from
   its rows. Property `WatchersAreFound`.

Other disagreements are named by properties that hold, as their exceptions:

* *A late ValueError forgets the rows* (`integrations/ingest.py:417`): the run says
  0 records and nothing is announced though pages have landed. `RunIsTruthful`
  exempts these pulls (`abandoned`) and no others.
* *A backup that interferes* (`storage/parquet.py:195`): an export prepares its
  directory outside the `try` that makes it best effort, when the row has landed. A
  pull then counts that row as rejected and stops, a CSV or JSON upload ends without
  a run row or a trigger, a webhook without its trigger, and an execution
  (`transforms/service.py:323`) leaves a success that neither cache nor triggers hear
  of; the module's own words are "Failures are logged but never raise" (lines 27-28).
  `RunIsTruthful`, `LandedIsAnnounced` (`uncounted`, `abandoned`), `RunSettles`
  (`unheard`) and `FreshUnlessBlamed` name it, and show that it does no more.
* *The wrong key is dropped* (`transforms/service.py:203-211`): the pattern that reads
  the target out of a text misses CREATE OR REPLACE TABLE, which the repository's own
  transform uses (`db/init.py:60`), and every target but the first. The entry of the
  table that was written stays then unless the transform bears its name, though
  line 327 says that the next read "picks up the fresh data immediately". One of the
  reasons of `FreshUnlessBlamed`; the time to live mends it (`EventuallyFresh`).
* *A fill after the invalidation* (`graphql/schema.py:258`): rows fetched before a
  commit are stored after it. One of the reasons of `FreshUnlessBlamed`;
  `EventuallyFresh` shows that the time to live mends it.
* *Jobs of connectors that are not active or not api_pull*
  (`scheduler/scheduler.py:53`): two of the reasons of `JobsFollowRows`. In the same
  place, a PATCH with a null schedule neither clears it nor stops the job
  (`integrations/router.py:100`), which is what `SetCron` does with `NONE`.
* *A useless refresh token* (`security/oauth.py:109-141`): a lost reply, a crash, a
  failed write, an overlapping pull or a PATCH in between leave the row with a token
  that the server takes no more or that belongs to another client. So does saving an
  edit form that was opened before a rotation, with no pull under way
  (`apps/dashboard/src/pages/ConnectorsPage.tsx:661`). `RowKeepsUp` lists the six; the
  connector then fails until it is configured again.
* *Half an entity* (`agent/handlers/smart_import.py:120`, `collections/router.py:307`):
  after an error the row stays without some fields and every later attempt is
  refused, skipped or overwrites the row only. `PartialIsExplained` (`excused`).
* *Two superusers revoke each other* (`superuser/router.py:315`): the exception of
  `SomebodyGoverns`. A start that finds migration 012 unrecorded makes the
  first superuser one again; later ones do not.
* *Failures that never heal* (`db/init.py:222-224`): what a statement failed to make
  in the start that recorded its file is missing for good (`lost` in
  `FailuresHealUntilRecorded`). Files 002 to 010 run at the first two starts, as the
  table that records them is made by 011.

And what the models contain but no property can say well:

* A small query leaves a short snapshot in the cache that answers larger ones
  (`graphql/schema.py:257`; `Fill` and `Hit` of `QueryCache`).
* `db/001` makes `integrations.connector` before `db/002`, whose CREATE TABLE AS is
  then skipped and whose `INSERT ... SELECT *, NULL` no longer fits the columns; it
  raises, and the DROP of `integrations.integration` follows. `MCBootstrap` with the
  database of before 002 reaches a state without the old table and without the rows.
* `create_integration` drops the schedule and status of an imported connector; POST
  `/entities` accepts `fields` and ignores them; a generated transform goes on
  watching the id of an entity that was deleted.
* Memories are said to decay daily and decay at every start.
* Tokens of the other OAuth grants are stored under a hash where no pull looks
  (`security/oauth.py:223`).

## 7. Assumptions

* An `execute` and the fetch of its result are one step, although threads share
  one DuckDB connection (`db/connection.py`) and could read each other's result.
* The database file survives a restart, and each statement is durable when it returns.
* Ids (`uuid4`) are never given twice. Names of transforms are modelled in
  `Catalogue` only.
* `update_transform` is called with the fields its request model and tool schema
  offer: `status` is not one of them, although the function takes it and the agent's
  handler passes on whatever the model sent.
* APScheduler is installed and runs one instance of a job at a time (its default).
* An INSERT or UPDATE of `transform_run` itself does not raise. (If it did, the
  run would be left running as after a crash.)
* A table that was written has at least as many rows as a query asks for, so that
  a short answer is the cache's doing.
* The trigger threads would be further executors like streams; they never
  get that far in the code as it is (section 6).
* The token server answers within `MaxDelay`, which is at most `Buffer`: the
  exchange's timeouts are below 60 s, and there is a longest lifetime among those that
  it gives (`OAuthAssumption`).
* Tokens are those that the service has issued; `DEMO_MODE` is off.

## 8. What is not modelled

Text and presentation (the dashboard, prompts, language models, PII masking, the
agent's context), cryptography and URL checks, single-statement or best-effort
components (audit, query workbench, dashboards, parquet files, labels of collections,
tenant configuration), the MotherDuck backend, and the rewriting of schema names in
SQL texts (`db/tenant_schemas.py`), which is a matter of characters: the models let
a bootstrap or an import rewrite a text where the code may.

## 9. The plan

1. `TransformLifecycle` with `ApprovalGate` – the gate, executions, history. *Done.*
2. `Ingest` – landing and accounting. *Done.*
3. `QueryCache` – freshness. *Done.*
4. `ConnectorSchedule` – rows and jobs. *Done.*
5. `Membership` – accounts, memberships, invitations, tokens. *Done.*
6. `Catalogue` – entities, connectors, collections, smart_import. *Done.*
7. `OAuthTokens` – cache, expiry and rotation. *Done.*
8. `Bootstrap` – schema, migrations and their records. *Done.*
9. `AgentMemory` – boosts, decay and prune. *Done.*
10. `TriggerDispatch` – done as the code stands; once the column is selected, its
    in-flight guard, debounce and cascade depth want properties of their own.

Proofs to come: abstract specifications of what `OAuthTokens` and `Ingest` promise to
their callers, with the refinements proved as `RestImplementsGate` is.
