------------------------- MODULE ConnectorSchedule -------------------------
(***************************************************************************)
(* Cron schedules of connectors: the rows of integrations.connector        *)
(* (services/api/src/integrations), the in-memory jobs of the APScheduler  *)
(* instance (scheduler/scheduler.py) that are meant to follow them, and    *)
(* the pulls that the jobs start in the scheduler's threads.               *)
(*                                                                         *)
(* PATCH handlers run on the event loop without an await, so an update of  *)
(* the row and the reload of its job are one step; connectors are also     *)
(* created from agent streams, by one INSERT.  The rows are in the         *)
(* database and the jobs in the process.                                   *)
(***************************************************************************)
CONSTANTS
    Connectors,  \* ids (uuid4)
    ApiPulls,    \* those created with connector_type api_pull
    Crons,       \* crontab strings that CronTrigger.from_crontab accepts
    BadCrons,    \* strings it does not: the empty one and malformed ones
    NONE         \* no cron schedule (NULL), no job

ASSUME ScheduleAssumption ==
    /\ ApiPulls \subseteq Connectors
    /\ Crons \cap BadCrons = {}
    /\ NONE \notin Crons \cup BadCrons

VARIABLES
    row,       \* row[c]: the connector's row, or that there is none
    job,       \* job[c]: the crontab of the job connector_<c>, or NONE
    pull,      \* pull[c]: the scheduled pull that is under way
    \* History variable, guards nothing.
    drifted    \* why job[c] may differ from what the row asks for

vars == <<row, job, pull, drifted>>

\* What the dashboard offers; the table's CHECK also admits draft and error.
Statuses == {"active", "paused"}

Reasons == {"status", "deleted", "not_due", "not_loaded"}

NoRow(status) == [status |-> status, cron |-> NONE]

TypeOK ==
    /\ row \in [Connectors -> [status : Statuses \cup {"unborn", "deleted"},
                               cron : Crons \cup BadCrons \cup {NONE}]]
    /\ job \in [Connectors -> Crons \cup {NONE}]
    /\ pull \in [Connectors -> {"idle", "read", "landing"}]
    /\ drifted \in [Connectors -> SUBSET Reasons]

Init ==
    /\ row = [c \in Connectors |-> NoRow("unborn")]
    /\ job = [c \in Connectors |-> NONE]
    /\ pull = [c \in Connectors |-> "idle"]
    /\ drifted = [c \in Connectors |-> {}]

Exists(c) == row[c].status \in Statuses

\* Mutant: any string becomes a job.
ParsedUnchecked(cron) == cron

\* What from_crontab makes of a stored string: a bad one is logged, no job.
Parsed(cron) == IF cron \in Crons THEN cron ELSE NONE

\* The rows that the scheduler loads at startup.
Loadable(c) == c \in ApiPulls /\ row[c].status = "active" /\ row[c].cron # NONE

\* The job that a startup would give the connector now.
Due(c) == IF Loadable(c) THEN Parsed(row[c].cron) ELSE NONE

----------------------------------------------------------------------------
(***************************************************************************)
(* The rows.                                                               *)
(***************************************************************************)

\* create_integration: always active, and without a cron schedule even if the
\* request or an imported collection has one.
Create(c) ==
    /\ row[c].status = "unborn"
    /\ row' = [row EXCEPT ![c] = [status |-> "active", cron |-> NONE]]
    /\ UNCHANGED <<job, pull, drifted>>

\* A PATCH that does not name cron_schedule: the job is not looked at.
SetStatus(c, status) ==
    /\ Exists(c)
    /\ status # row[c].status
    /\ row' = [row EXCEPT ![c].status = status]
    /\ drifted' = [drifted EXCEPT ![c] = @ \cup {"status"}]
    /\ UNCHANGED <<job, pull>>

\* Mutant: the new job is added beside the old one, which is the one found.
SetCronKeepsJob(c, cron, status) ==
    /\ Exists(c)
    /\ row' = [row EXCEPT ![c] = [status |-> status,
                                  cron |-> IF cron = NONE THEN @.cron ELSE cron]]
    /\ job' = [job EXCEPT ![c] = IF @ = NONE THEN Parsed(row'[c].cron) ELSE @]
    /\ drifted' = [drifted EXCEPT ![c] =
                      IF c \in ApiPulls /\ status = "active" THEN {} ELSE {"not_due"}]
    /\ UNCHANGED pull

\* A PATCH that names cron_schedule, and may name a status.  A null is dropped
\* before the UPDATE, so the row keeps its schedule; then the old job goes and
\* the row's schedule is added, whatever its status and its type.
SetCron(c, cron, status) ==
    /\ Exists(c)
    /\ row' = [row EXCEPT ![c] = [status |-> status,
                                  cron |-> IF cron = NONE THEN @.cron ELSE cron]]
    /\ job' = [job EXCEPT ![c] = Parsed(row'[c].cron)]
    /\ drifted' = [drifted EXCEPT ![c] =
                      IF c \in ApiPulls /\ status = "active" THEN {} ELSE {"not_due"}]
    /\ UNCHANGED pull

\* delete_integration: the row only.
Delete(c) ==
    /\ Exists(c)
    /\ row' = [row EXCEPT ![c] = NoRow("deleted")]
    /\ drifted' = [drifted EXCEPT ![c] = @ \cup {"deleted"}]
    /\ UNCHANGED <<job, pull>>

----------------------------------------------------------------------------
(***************************************************************************)
(* The pulls.                                                              *)
(***************************************************************************)

\* The job is due; APScheduler runs one instance of a job at a time.
Tick(c) ==
    /\ job[c] # NONE
    /\ pull[c] = "idle"
    /\ pull' = [pull EXCEPT ![c] = "read"]
    /\ UNCHANGED <<row, job, drifted>>

\* Mutant: the connector is not looked up again.
LookUpNothing(c) ==
    /\ pull[c] = "read"
    /\ pull' = [pull EXCEPT ![c] = "landing"]
    /\ UNCHANGED <<row, job, drifted>>

\* _run_connector_pull reads the row: without one, or without a URL, it is
\* over.  It checks neither the status nor the type.
LookUp(c) ==
    /\ pull[c] = "read"
    /\ \/ Exists(c) /\ pull' = [pull EXCEPT ![c] = "landing"]
       \/ pull' = [pull EXCEPT ![c] = "idle"]
    /\ UNCHANGED <<row, job, drifted>>

\* land_api_pull (module Ingest) returns or raises.
Finish(c) ==
    /\ pull[c] = "landing"
    /\ pull' = [pull EXCEPT ![c] = "idle"]
    /\ UNCHANGED <<row, job, drifted>>

\* The process is started again: _reload_jobs reads the rows, or fails and
\* leaves the scheduler without jobs.
Restart ==
    /\ pull' = [c \in Connectors |-> "idle"]
    /\ \/ /\ job' = [c \in Connectors |-> Due(c)]
          /\ drifted' = [c \in Connectors |-> {}]
       \/ /\ job' = [c \in Connectors |-> NONE]
          /\ drifted' = [c \in Connectors |-> {"not_loaded"}]
    /\ UNCHANGED row

----------------------------------------------------------------------------
Manage(c) ==
    \/ Create(c)
    \/ \E status \in Statuses : SetStatus(c, status)
    \/ \E cron \in Crons \cup BadCrons \cup {NONE}, status \in Statuses :
            SetCron(c, cron, status)
    \/ Delete(c)

Scheduled(c) == LookUp(c) \/ Finish(c)

Next == Restart \/ \E c \in Connectors : Manage(c) \/ Tick(c) \/ Scheduled(c)

Spec == Init /\ [][Next]_vars

\* A thread that runs a pull is scheduled until the pull is over.
FairSpec == Spec /\ \A c \in Connectors : WF_vars(Scheduled(c))

----------------------------------------------------------------------------
\* The jobs are those that a startup would load, except where one of four
\* things has happened since the job was last set: the status was changed alone,
\* the connector was deleted, the cron schedule was set on a connector that is
\* not active or not an api_pull, or the load failed.
JobsFollowRows == \A c \in Connectors : drifted[c] = {} => job[c] = Due(c)

\* Even then a job runs at no other time than the row says: it is the row's
\* schedule, or none, or the connector is gone.
NoForeignSchedule ==
    \A c \in Connectors : job[c] # NONE /\ Exists(c) => job[c] = row[c].cron

\* A deleted connector keeps its job until the next restart, but is pulled at
\* most to the end of the pull that had begun.
DeletedIsNotPulled ==
    /\ [][\A c \in Connectors :
            row[c].status = "deleted" /\ pull'[c] = "landing" => pull[c] = "landing"]_vars
    /\ \A c \in Connectors :
            []( row[c].status = "deleted" => <>[](pull[c] # "landing"))

=============================================================================
