------------------------------- MODULE Ingest -------------------------------
(***************************************************************************)
(* How data lands in the bronze layer (services/api/src/integrations/      *)
(* ingest.py): the api_pull loop with its pagination strategies, the CSV   *)
(* and JSON uploads and the webhook, down to the row of connector_run that *)
(* accounts for them and the trigger that announces them.                  *)
(*                                                                         *)
(* A job is one call of a land_ function.  Jobs run on the event loop, on  *)
(* the scheduler's threads and on the threads of agent streams, side by    *)
(* side; every INSERT commits on its own.  The counters of a job are its   *)
(* local variables and die with it; rows, run rows and fired triggers do   *)
(* not.                                                                    *)
(***************************************************************************)
EXTENDS Integers

CONSTANTS
    Jobs,         \* calls of the land_ functions
    MaxPages,     \* pagination.max_pages, at most _MAX_PAGES_CAP
    RecordsCap,   \* _MAX_RECORDS_CAP
    PageSize,     \* pagination.page_size
    MaxBatch      \* bound: the most records of a response or an upload

ASSUME IngestAssumption ==
    MaxPages \in Nat /\ RecordsCap \in Nat /\ PageSize \in Nat /\ MaxBatch \in Nat

VARIABLES
    job,        \* job[j]: the local variables of the call
    bronze,     \* bronze[j]: rows of job j in the bronze table
    record,     \* record[j]: its row of integrations.connector_run, if any
    fired,      \* jobs that called fire_on_data_changed
    \* History variables, they guard nothing.
    abandoned,  \* jobs that an exception ended after rows had landed
    uncounted   \* pulls that the export of a landed row ended before it counted

vars == <<job, bronze, record, fired, abandoned, uncounted>>

\* The strategies that loop over pages; "single" is no strategy at all.
Paged == {"offset", "cursor", "link_header", "next_url"}

Pulls == Paged \cup {"single", "unknown"}

Uploads == {"csv", "json", "webhook"}

Kinds == Pulls \cup Uploads

NewJob == [pc |-> "new", kind |-> "none", page |-> 0, received |-> 0, landed |-> 0,
           size |-> 0, left |-> 0, errors |-> FALSE]

NoRecord == [status |-> "none", in |-> 0, out |-> 0, rejected |-> 0]

JobType == [pc : {"new", "fetch", "land", "export", "account", "fire", "done", "cut"},
            kind : Kinds \cup {"none"},
            page : Nat,
            received : Nat,
            landed : Nat,
            size : 0..MaxBatch,    \* records of the page or upload in hand
            left : 0..MaxBatch,    \* ... those not landed yet
            errors : BOOLEAN]

\* The CHECK of connector_run also allows 'running', which nothing writes.
RecordType == [status : {"none", "success", "partial", "failed"},
               in : Nat, out : Nat, rejected : Nat]

TypeOK ==
    /\ job \in [Jobs -> JobType]
    /\ bronze \in [Jobs -> Nat]
    /\ record \in [Jobs -> RecordType]
    /\ fired \subseteq Jobs
    /\ abandoned \subseteq Jobs
    /\ uncounted \subseteq Jobs

Init ==
    /\ job = [j \in Jobs |-> NewJob]
    /\ bronze = [j \in Jobs |-> 0]
    /\ record = [j \in Jobs |-> NoRecord]
    /\ fired = {}
    /\ abandoned = {}
    /\ uncounted = {}

Active(j) == job[j].pc \notin {"new", "done", "cut"}

\* _record_run: its INSERT may fail, and the failure is swallowed.  (Nor is
\* there a row when the call has no connector.)
Write(j, status, in, out) ==
    \/ record' = [record EXCEPT ![j] =
                    [status |-> status, in |-> in, out |-> out, rejected |-> in - out]]
    \/ UNCHANGED record

\* An exception leaves the function: what it has landed stays landed.
Abandon(j) ==
    /\ job' = [job EXCEPT ![j].pc = "done"]
    /\ abandoned' = IF bronze[j] > 0 THEN abandoned \cup {j} ELSE abandoned

----------------------------------------------------------------------------
(***************************************************************************)
(* Where a job starts.                                                     *)
(***************************************************************************)

\* land_api_pull.  Without a token, or with a strategy it does not know, it
\* goes straight to the accounts with an error.
StartPull(j, kind) ==
    /\ job[j].pc = "new"
    /\ \E token \in BOOLEAN :
        LET ok == token /\ kind # "unknown" IN
        job' = [job EXCEPT ![j].kind = kind, ![j].errors = ~ok,
                           ![j].pc = IF ok THEN "fetch" ELSE "account"]
    /\ UNCHANGED <<bronze, record, fired, abandoned, uncounted>>

\* land_webhook (one record), land_batch_csv, land_batch_json, once parsed.
StartUpload(j, kind, n) ==
    /\ job[j].pc = "new"
    /\ kind = "webhook" => n = 1
    /\ job' = [job EXCEPT ![j].kind = kind, ![j].size = n, ![j].left = n,
                          ![j].pc = "land"]
    /\ UNCHANGED <<bronze, record, fired, abandoned, uncounted>>

\* A JSON upload that is neither JSON nor lines of JSON, and a pull whose
\* page_size or max_pages is not a number, raise before anything is done.
RefuseInput(j, kind) ==
    /\ job[j].pc = "new"
    /\ kind \in Pulls \cup {"json"}
    /\ job' = [job EXCEPT ![j].kind = kind, ![j].pc = "done"]
    /\ UNCHANGED <<bronze, record, fired, abandoned, uncounted>>

----------------------------------------------------------------------------
(***************************************************************************)
(* The pages of a pull.                                                    *)
(***************************************************************************)

\* Mutant: the loop forgets the cap on records.
MayFetchManyRecords(op) == op.kind = "single" \/ op.page < MaxPages

\* The condition of the while loop, before every page.
MayFetch(op) == op.kind = "single" \/ (op.page < MaxPages /\ op.received < RecordsCap)

\* A response arrives with n records.  An empty page ends the strategies that
\* count on records, before the page is counted.
FetchPage(j, n) ==
    LET op == job[j] IN
    /\ op.pc = "fetch"
    /\ MayFetch(op)
    /\ job' = [job EXCEPT
                ![j].size = n, ![j].left = n,
                ![j].pc = IF n = 0 /\ op.kind \in {"offset", "cursor"}
                            THEN "account" ELSE "land"]
    /\ UNCHANGED <<bronze, record, fired, abandoned, uncounted>>

\* Timeout, HTTP status, connection error: the error is kept with the counts.
FetchFails(j) ==
    /\ job[j].pc = "fetch"
    /\ MayFetch(job[j])
    /\ job' = [job EXCEPT ![j].errors = TRUE, ![j].pc = "account"]
    /\ UNCHANGED <<bronze, record, fired, abandoned, uncounted>>

\* A body that is not JSON, or a URL that check_url refuses, is a ValueError:
\* the run is recorded as failed with no records at all, and nothing is fired.
FetchRaisesValueError(j) ==
    /\ job[j].pc = "fetch"
    /\ MayFetch(job[j])
    /\ Write(j, "failed", 0, 0)
    /\ Abandon(j)
    /\ UNCHANGED <<bronze, fired, uncounted>>

StopAtCap(j) ==
    /\ job[j].pc = "fetch"
    /\ ~MayFetch(job[j])
    /\ job' = [job EXCEPT ![j].pc = "account"]
    /\ UNCHANGED <<bronze, record, fired, abandoned, uncounted>>

\* Where the page just landed leads: offset stops at a short page, the others
\* at a page that names no next one, or one that check_url refuses.
Leads(op) ==
    CASE op.kind = "offset" -> {IF op.size < PageSize THEN "end" ELSE "next"}
      [] op.kind = "cursor" -> {"next", "end"}
      [] op.kind \in {"link_header", "next_url"} -> {"next", "end", "blocked"}
      [] OTHER -> {"end"}

\* Mutant: only pages with records are counted.
TurnPageIfFull(j) ==
    LET op == job[j] IN
    /\ op.pc = "land"
    /\ op.left = 0
    /\ \E lead \in Leads(op) :
        job' = [job EXCEPT
                  ![j].page = IF op.kind \in Paged /\ op.size > 0 THEN @ + 1 ELSE @,
                  ![j].errors = @ \/ lead = "blocked",
                  ![j].pc = IF lead = "next" THEN "fetch" ELSE "account"]
    /\ UNCHANGED <<bronze, record, fired, abandoned, uncounted>>

\* Everything in hand has been tried.
TurnPage(j) ==
    LET op == job[j] IN
    /\ op.pc = "land"
    /\ op.left = 0
    /\ \E lead \in Leads(op) :
        job' = [job EXCEPT
                  ![j].page = IF op.kind \in Paged THEN @ + 1 ELSE @,
                  ![j].errors = @ \/ lead = "blocked",
                  ![j].pc = IF lead = "next" THEN "fetch" ELSE "account"]
    /\ UNCHANGED <<bronze, record, fired, abandoned, uncounted>>

----------------------------------------------------------------------------
(***************************************************************************)
(* The records of a page or an upload: one INSERT each, and after it the   *)
(* backup of the table, export_bronze.                                     *)
(***************************************************************************)

\* Mutant: a record is counted as received only when it is rejected.
LandUncounted(j) ==
    LET op == job[j] IN
    /\ op.pc = "land"
    /\ op.left > 0
    /\ job' = [job EXCEPT
                 ![j] = IF op.kind = "webhook"
                          THEN [op EXCEPT !.left = @ - 1, !.landed = @ + 1]
                          ELSE [op EXCEPT !.left = @ - 1, !.pc = "export"]]
    /\ bronze' = [bronze EXCEPT ![j] = @ + 1]
    /\ UNCHANGED <<record, fired, abandoned, uncounted>>

\* The row is in the table.  The caller counts it only when land_webhook has
\* returned; a webhook is its own caller and records its run before the export.
Land(j) ==
    LET op == job[j] IN
    /\ op.pc = "land"
    /\ op.left > 0
    /\ job' = [job EXCEPT
                 ![j] = IF op.kind = "webhook"
                          THEN [op EXCEPT !.left = @ - 1, !.received = @ + 1, !.landed = @ + 1]
                          ELSE [op EXCEPT !.left = @ - 1, !.received = @ + 1, !.pc = "export"]]
    /\ bronze' = [bronze EXCEPT ![j] = @ + 1]
    /\ UNCHANGED <<record, fired, abandoned, uncounted>>

\* The export is done, or its COPY failed, which is swallowed.
Export(j) ==
    LET op == job[j] IN
    /\ op.pc = "export"
    /\ job' = [job EXCEPT
                 ![j] = IF op.kind = "webhook" THEN [op EXCEPT !.pc = "fire"]
                        ELSE [op EXCEPT !.landed = @ + 1, !.pc = "land"]]
    /\ UNCHANGED <<bronze, record, fired, abandoned, uncounted>>

\* It prepares the directory (or the S3 settings) outside its try.  What that
\* raises ends the pages of a pull, or leaves the upload.
ExportRaises(j) ==
    /\ job[j].pc = "export"
    /\ \/ /\ job[j].kind \in Pulls
          /\ job' = [job EXCEPT ![j].errors = TRUE, ![j].pc = "account"]
          /\ uncounted' = uncounted \cup {j}
          /\ UNCHANGED abandoned
       \/ /\ job[j].kind \in Uploads
          /\ Abandon(j)
          /\ UNCHANGED uncounted
    /\ UNCHANGED <<bronze, record, fired>>

\* The INSERT fails: land_webhook returns the error and the loop goes on.
Reject(j) ==
    /\ job[j].pc = "land"
    /\ job[j].left > 0
    /\ job' = [job EXCEPT ![j].left = @ - 1, ![j].received = @ + 1, ![j].errors = TRUE]
    /\ UNCHANGED <<bronze, record, fired, abandoned, uncounted>>

\* The CREATE SCHEMA or CREATE TABLE before it raises: a pull keeps the error
\* and goes to the accounts, an upload is left by the exception.
LandRaises(j) ==
    /\ job[j].pc = "land"
    /\ job[j].left > 0
    /\ \/ /\ job[j].kind \in Pulls
          /\ job' = [job EXCEPT ![j].received = @ + 1, ![j].errors = TRUE,
                                ![j].pc = "account"]
          /\ UNCHANGED abandoned
       \/ /\ job[j].kind \in Uploads
          /\ Abandon(j)
    /\ UNCHANGED <<bronze, record, fired, uncounted>>

----------------------------------------------------------------------------
(***************************************************************************)
(* The accounts.                                                           *)
(***************************************************************************)

\* Mutant: any error makes the run a failure.
VerdictOfErrors(op) == IF op.errors THEN "failed" ELSE "success"

Verdict(op) ==
    IF ~op.errors THEN "success" ELSE IF op.landed > 0 THEN "partial" ELSE "failed"

Account(j) ==
    LET op == job[j] IN
    /\ op.pc = "account"
    /\ Write(j, Verdict(op), op.received, op.landed)
    /\ job' = [job EXCEPT ![j].pc =
                    IF op.kind = "webhook" /\ op.landed > 0 THEN "export" ELSE "fire"]
    /\ UNCHANGED <<bronze, fired, abandoned, uncounted>>

\* Mutant: the trigger is for successful runs only.
FireOnSuccess(j) ==
    /\ job[j].pc = "fire"
    /\ fired' = IF job[j].landed > 0 /\ ~job[j].errors THEN fired \cup {j} ELSE fired
    /\ job' = [job EXCEPT ![j].pc = "done"]
    /\ UNCHANGED <<bronze, record, abandoned, uncounted>>

\* fire_on_data_changed, if anything landed; then the function returns.
Fire(j) ==
    /\ job[j].pc = "fire"
    /\ fired' = IF job[j].landed > 0 THEN fired \cup {j} ELSE fired
    /\ job' = [job EXCEPT ![j].pc = "done"]
    /\ UNCHANGED <<bronze, record, abandoned, uncounted>>

\* The process dies, and every call in it; nothing resumes one.
Restart ==
    /\ \E j \in Jobs : Active(j)
    /\ job' = [j \in Jobs |-> IF Active(j) THEN [job[j] EXCEPT !.pc = "cut"] ELSE job[j]]
    /\ UNCHANGED <<bronze, record, fired, abandoned, uncounted>>

----------------------------------------------------------------------------
Start(j) ==
    \/ \E kind \in Pulls : StartPull(j, kind)
    \/ \E kind \in Uploads, n \in 0..MaxBatch : StartUpload(j, kind, n)
    \/ \E kind \in Kinds : RefuseInput(j, kind)

Proceed(j) ==
    \/ \E n \in 0..MaxBatch : FetchPage(j, n)
    \/ FetchFails(j)
    \/ FetchRaisesValueError(j)
    \/ StopAtCap(j)
    \/ TurnPage(j)
    \/ Land(j)
    \/ Export(j)
    \/ ExportRaises(j)
    \/ Reject(j)
    \/ LandRaises(j)
    \/ Account(j)
    \/ Fire(j)

Next == Restart \/ \E j \in Jobs : Start(j) \/ Proceed(j)

Spec == Init /\ [][Next]_vars

\* A call runs until it returns: its thread is scheduled and every request has
\* a timeout.  Nothing makes anybody start one.
FairSpec == Spec /\ \A j \in Jobs : WF_vars(Proceed(j))

----------------------------------------------------------------------------
\* The row of j that is in the table and not in its counters: the one whose
\* export is under way, or raised.
Uncounted(j) ==
    IF j \in uncounted \/ (job[j].pc = "export" /\ job[j].kind # "webhook") THEN 1 ELSE 0

\* A run row tells what is in the table: it counts the rows that landed, a
\* success rejected none, a partial run counts some and a failed one none.  Two
\* pulls are excepted, and no upload: a paged one that a ValueError ended after
\* rows had landed counts none of them, and one that an export ended counts all
\* but the last and says so with an error.  For them "call get_connector_runs
\* to verify rows landed" (agent/tools.py) misleads, and of a failing export
\* storage/parquet.py says that it is logged and does not raise.
RunIsTruthful ==
    \A j \in Jobs : record[j].status # "none" =>
        IF j \in abandoned /\ job[j].kind \in Paged
            THEN record[j].status = "failed"
            ELSE /\ record[j].out = bronze[j] - Uncounted(j)
                 /\ record[j].status = "success" => record[j].rejected = 0 /\ j \notin uncounted
                 /\ record[j].status = "partial" => record[j].out > 0
                 /\ record[j].status = "failed" => record[j].out = 0

\* Triggers are fired for the calls that put rows in the table and for no
\* others, whatever the run's status, unless the call raised or was cut off, or
\* the export of the only row it landed ended the pull.
LandedIsAnnounced ==
    /\ \A j \in fired : bronze[j] > 0
    /\ \A j \in Jobs \ abandoned :
        job[j].pc = "done" /\ bronze[j] > Uncounted(j) => j \in fired

\* The caps of a pull hold against any remote: a page is only asked for below
\* both, so the records overshoot by less than one page.
CapsHold ==
    \A j \in Jobs : job[j].kind \in Paged =>
        /\ job[j].page <= MaxPages
        /\ job[j].received < RecordsCap + MaxBatch \/ job[j].received = 0

\* Every call ends, against a remote that always names a next page, even if
\* its pages are empty; or a restart ends it.
JobEnds == \A j \in Jobs : Active(j) ~> job[j].pc \in {"done", "cut"}

----------------------------------------------------------------------------
(***************************************************************************)
(* Why they hold: the local counters of a call, against the table.         *)
(***************************************************************************)

\* Until a call is over its counters and the one row they may miss are what is
\* in the table, and it has met an error if that is not all it received.
CountersMatch ==
    \A j \in Jobs : job[j].pc \notin {"done", "cut"} =>
        /\ bronze[j] = job[j].landed + Uncounted(j)
        /\ bronze[j] <= job[j].received
        /\ ~job[j].errors => bronze[j] = job[j].received
        /\ job[j].pc = "new" => job[j].received = 0 /\ ~job[j].errors

\* A page in hand was asked for below both caps; without a strategy there is
\* only one.
PagesMatch ==
    \A j \in Jobs :
        LET op == job[j] IN
        /\ op.pc = "fetch" => \/ op.kind \in Paged
                              \/ op.kind = "single" /\ op.received = 0
        /\ op.pc \in {"land", "export"} /\ op.kind \in Paged =>
              op.page < MaxPages /\ op.received + op.left < RecordsCap + op.size

\* The run row is written when the counting is over, the triggers are fired
\* last, a call that was left by an exception fires none, and an export that
\* ends a pull leaves an error and nothing to do but the accounts.
AccountsInOrder ==
    \A j \in Jobs :
        /\ record[j].status # "none" =>
              \/ job[j].pc \in {"fire", "done", "cut"}
              \/ job[j].pc = "export" /\ job[j].kind = "webhook"
        /\ j \in fired => job[j].pc = "done"
        /\ j \in abandoned => job[j].pc = "done" /\ j \notin fired
        /\ j \in uncounted =>
              /\ job[j].errors
              /\ job[j].kind \in Pulls
              /\ job[j].pc \in {"account", "fire", "done", "cut"}

AccountInv == CountersMatch /\ PagesMatch /\ AccountsInOrder

=============================================================================
