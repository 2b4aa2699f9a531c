------------------------- MODULE TransformLifecycle -------------------------
(***************************************************************************)
(* The life of a transform: drafted, edited, reviewed, imported, deleted   *)
(* and executed (services/api/src/transforms/service.py and its callers).  *)
(*                                                                         *)
(* Every REST handler is an `async def` that never awaits between its      *)
(* database calls, so the REST API is ONE actor, EventLoop.  The agent's   *)
(* streaming endpoint hands a plain generator to StreamingResponse, which  *)
(* runs it in a worker thread: every open stream is one more actor, and it *)
(* calls the same service functions.  Each conn.execute() commits on its   *)
(* own, so a service function is as many atomic steps as it makes calls    *)
(* whose results it uses.  An execute and the fetch that reads its result  *)
(* are one step (README, "Assumptions").                                   *)
(***************************************************************************)
EXTENDS Naturals, FiniteSets

CONSTANTS
    Transforms,     \* ids (uuid4): an id is given to one row only
    Sqls,           \* the SQL texts that users, the agent and imports write
    BadSqls,        \* the texts validate_transform_sql rejects
    Stmts,          \* Stmts[s]: how many statements split_sql_statements finds
    Rewritten,      \* Rewritten[s]: what a bootstrap makes of a stored text s
    Runs,           \* ids of transform_run rows
    EventLoop,      \* the REST API
    StreamThreads,  \* the threads that serve open agent streams
    NONE            \* no value (NULL, or no operation under way)

ASSUME LifecycleAssumption ==
    /\ BadSqls \subseteq Sqls
    /\ Stmts \in [Sqls -> Nat]
    /\ Rewritten \in [Sqls -> Sqls]
    /\ EventLoop \notin StreamThreads
    /\ NONE \notin Transforms \cup Sqls \cup Runs

VARIABLES
    row,        \* row[t]: the row of transforms.transform, or that there is none
    run,        \* run[r]: the row of transforms.transform_run
    actor,      \* actor[a]: the service call the actor is inside
    announced,  \* runs that exported, invalidated the cache and fired triggers
    \* History variables: they record what happened and guard nothing.
    unheard,    \* successful runs whose export raised before they were announced
    vetted,     \* vetted[t]: the texts an approval found in the row, and what
                \* later bootstraps made of them
    raced,      \* transforms approved while an edit that saw a draft was open
    cut         \* runs whose process died before they were through

vars == <<row, run, actor, announced, unheard, vetted, raced, cut>>

Actors == {EventLoop} \cup StreamThreads

Live == {"draft", "approved", "rejected"}

\* A row before it is inserted and after it is deleted; ids are never reused.
NoRow(status) == [status |-> status, sql |-> NONE, lastRun |-> NONE]

NoRun == [status |-> "none", t |-> NONE, sql |-> NONE, done |-> 0]

Idle == [pc |-> "idle", t |-> NONE, sql |-> NONE, sawDraft |-> FALSE,
         run |-> NONE, failed |-> FALSE]

\* The stages of execute_transform, in order.
RunStages == {"begin", "validate", "statements", "stamp", "publish"}

RowType == [status : Live \cup {"unborn", "deleted"},
            sql : Sqls \cup {NONE},
            lastRun : Runs \cup {NONE}]

RunType == [status : {"none", "running", "success", "failed"},
            t : Transforms \cup {NONE},
            sql : Sqls \cup {NONE},
            done : Nat]

OpType == [pc : {"idle", "update"} \cup RunStages,
           t : Transforms \cup {NONE},
           sql : Sqls \cup {NONE},
           sawDraft : BOOLEAN,
           run : Runs \cup {NONE},
           failed : BOOLEAN]

TypeOK ==
    /\ row \in [Transforms -> RowType]
    /\ run \in [Runs -> RunType]
    /\ actor \in [Actors -> OpType]
    /\ announced \subseteq Runs
    /\ unheard \subseteq Runs
    /\ vetted \in [Transforms -> SUBSET Sqls]
    /\ raced \subseteq Transforms
    /\ cut \subseteq Runs

Init ==
    /\ row = [t \in Transforms |-> NoRow("unborn")]
    /\ run = [r \in Runs |-> NoRun]
    /\ actor = [a \in Actors |-> Idle]
    /\ announced = {}
    /\ unheard = {}
    /\ vetted = [t \in Transforms |-> {}]
    /\ raced = {}
    /\ cut = {}

Exists(t) == row[t].status \in Live

Free(a) == actor[a] = Idle

----------------------------------------------------------------------------
(***************************************************************************)
(* Drafting and editing.                                                   *)
(***************************************************************************)

\* create_transform: one INSERT, always a draft.  Only creation calls
\* validate_transform_sql: neither PATCH nor the import of an existing transform
\* does, and the agent's edit tries a text's SELECT blocks at most.
Create(a, t, s) ==
    /\ Free(a)
    /\ row[t].status = "unborn"
    /\ s \notin BadSqls
    /\ row' = [row EXCEPT ![t] = [status |-> "draft", sql |-> s, lastRun |-> NONE]]
    /\ UNCHANGED <<run, actor, announced, unheard, vetted, raced, cut>>

\* update_transform reads the row and decides from it whether the status has
\* to be reset ...
BeginUpdate(a, t, s) ==
    /\ Free(a)
    /\ Exists(t)
    /\ actor' = [actor EXCEPT ![a] = [Idle EXCEPT
                    !.pc = "update", !.t = t, !.sql = s,
                    !.sawDraft = (row[t].status = "draft")]]
    /\ UNCHANGED <<row, run, announced, unheard, vetted, raced, cut>>

\* Mutant: the edit never resets the status.
FinishUpdateKeepsStatus(a) ==
    LET op == actor[a] IN
    /\ op.pc = "update"
    /\ row' = IF Exists(op.t) THEN [row EXCEPT ![op.t].sql = op.sql] ELSE row
    /\ actor' = [actor EXCEPT ![a] = Idle]
    /\ UNCHANGED <<run, announced, unheard, vetted, raced, cut>>

\* ... and then updates whatever the row has become: a text that replaces a
\* non-draft's also sets it to draft; a row that is gone is left alone.
FinishUpdate(a) ==
    LET op == actor[a] IN
    /\ op.pc = "update"
    /\ row' = IF Exists(op.t)
                THEN [row EXCEPT ![op.t].sql = op.sql,
                                 ![op.t].status = IF op.sawDraft THEN @ ELSE "draft"]
                ELSE row
    /\ actor' = [actor EXCEPT ![a] = Idle]
    /\ UNCHANGED <<run, announced, unheard, vetted, raced, cut>>

\* Mutant: the import replaces the text and keeps the approval.
ImportKeepsStatus(t, s) ==
    /\ Free(EventLoop)
    /\ Exists(t)
    /\ row' = [row EXCEPT ![t].sql = s]
    /\ UNCHANGED <<run, actor, announced, unheard, vetted, raced, cut>>

\* import_collection with overwrite, on a transform of that name: the UPDATE
\* is unconditional.  (Without one of that name it is Create.)
Import(t, s) ==
    /\ Free(EventLoop)
    /\ Exists(t)
    /\ row' = [row EXCEPT ![t].sql = s, ![t].status = "draft"]
    /\ UNCHANGED <<run, actor, announced, unheard, vetted, raced, cut>>

Delete(t) ==
    /\ Free(EventLoop)
    /\ Exists(t)
    /\ row' = [row EXCEPT ![t] = NoRow("deleted")]
    /\ UNCHANGED <<run, actor, announced, unheard, vetted, raced, cut>>

----------------------------------------------------------------------------
(***************************************************************************)
(* Review.                                                                 *)
(***************************************************************************)

\* An edit of t is open that read a draft: it will not reset the status.
DraftEditOpen(t) ==
    \E a \in Actors : actor[a].pc = "update" /\ actor[a].t = t /\ actor[a].sawDraft

Status(action) == IF action = "approve" THEN "approved" ELSE "rejected"

\* Mutant: the endpoint stores the action of the request as the status.
ReviewStoresAction(t, action) ==
    /\ Free(EventLoop)
    /\ Exists(t)
    /\ row' = [row EXCEPT ![t].status = action]
    /\ vetted' = [vetted EXCEPT ![t] =
                        IF action = "approve" THEN @ \cup {row[t].sql} ELSE @]
    /\ raced' = IF action = "approve" /\ DraftEditOpen(t) THEN raced \cup {t} ELSE raced
    /\ UNCHANGED <<run, actor, announced, unheard, cut>>

\* approve_transform: from any status, on whatever text the row holds now.
Review(t, action) ==
    /\ Free(EventLoop)
    /\ Exists(t)
    /\ row' = [row EXCEPT ![t].status = Status(action)]
    /\ vetted' = [vetted EXCEPT ![t] =
                        IF action = "approve" THEN @ \cup {row[t].sql} ELSE @]
    /\ raced' = IF action = "approve" /\ DraftEditOpen(t) THEN raced \cup {t} ELSE raced
    /\ UNCHANGED <<run, actor, announced, unheard, cut>>

----------------------------------------------------------------------------
(***************************************************************************)
(* Execution: execute_transform.  Everything after the first step works on *)
(* the row as that step read it.                                           *)
(***************************************************************************)

\* Mutant: any transform can be executed.
ReadForRunAnyStatus(a, t) ==
    /\ Free(a)
    /\ Exists(t)
    /\ actor' = [actor EXCEPT ![a] = [Idle EXCEPT
                    !.pc = "begin", !.t = t, !.sql = row[t].sql]]
    /\ UNCHANGED <<row, run, announced, unheard, vetted, raced, cut>>

ReadForRun(a, t) ==
    /\ Free(a)
    /\ Exists(t)
    /\ row[t].status = "approved"
    /\ actor' = [actor EXCEPT ![a] = [Idle EXCEPT
                    !.pc = "begin", !.t = t, !.sql = row[t].sql]]
    /\ UNCHANGED <<row, run, announced, unheard, vetted, raced, cut>>

\* Mutant: the run row is looked up by transform and written over.
BeginRunOverOldRow(a) ==
    LET op == actor[a] IN
    /\ op.pc = "begin"
    /\ \E r \in Runs :
        /\ \A b \in Actors : actor[b].run # r
        /\ run' = [run EXCEPT ![r] =
                      [status |-> "running", t |-> op.t, sql |-> op.sql, done |-> 0]]
        /\ actor' = [actor EXCEPT ![a].pc = "validate", ![a].run = r]
    /\ UNCHANGED <<row, announced, unheard, vetted, raced, cut>>

\* INSERT INTO transform_run with status 'running'.  The row holds no text:
\* run[r].sql and run[r].done record what the run executes.
BeginRun(a) ==
    LET op == actor[a] IN
    /\ op.pc = "begin"
    /\ \E r \in Runs :
        /\ run[r].status = "none"
        /\ run' = [run EXCEPT ![r] =
                      [status |-> "running", t |-> op.t, sql |-> op.sql, done |-> 0]]
        /\ actor' = [actor EXCEPT ![a].pc = "validate", ![a].run = r]
    /\ UNCHANGED <<row, announced, unheard, vetted, raced, cut>>

\* Mutant: a text that fails validation raises out of the function.
ValidateRaises(a) ==
    LET op == actor[a] IN
    /\ op.pc = "validate"
    /\ \E failed \in BOOLEAN :
        /\ op.sql \in BadSqls => failed
        /\ actor' = [actor EXCEPT ![a] =
                        IF failed THEN Idle ELSE [op EXCEPT !.pc = "statements"]]
    /\ UNCHANGED <<row, run, announced, unheard, vetted, raced, cut>>

\* The statement kinds are checked again and every SELECT part is tried; the
\* first error ends validation and no statement will run.
Validate(a) ==
    LET op == actor[a] IN
    /\ op.pc = "validate"
    /\ \E failed \in BOOLEAN :
        /\ op.sql \in BadSqls => failed
        /\ actor' = [actor EXCEPT ![a].pc = "statements", ![a].failed = failed]
    /\ UNCHANGED <<row, run, announced, unheard, vetted, raced, cut>>

Executable(a) ==
    /\ actor[a].pc = "statements"
    /\ ~actor[a].failed
    /\ run[actor[a].run].done < Stmts[actor[a].sql]

\* The next statement commits ...
RunStatement(a) ==
    /\ Executable(a)
    /\ run' = [run EXCEPT ![actor[a].run].done = @ + 1]
    /\ UNCHANGED <<row, actor, announced, unheard, vetted, raced, cut>>

\* ... or raises, and the ones before it stay committed.
FailStatement(a) ==
    /\ Executable(a)
    /\ actor' = [actor EXCEPT ![a].failed = TRUE]
    /\ UNCHANGED <<row, run, announced, unheard, vetted, raced, cut>>

Through(a) ==
    /\ actor[a].pc = "statements"
    /\ actor[a].failed \/ run[actor[a].run].done = Stmts[actor[a].sql]

\* Mutant: the outcome ignores the errors that were collected.
RecordRunAsSuccess(a) ==
    /\ Through(a)
    /\ run' = [run EXCEPT ![actor[a].run].status = "success"]
    /\ actor' = [actor EXCEPT ![a].pc = "stamp"]
    /\ UNCHANGED <<row, announced, unheard, vetted, raced, cut>>

RecordRun(a) ==
    /\ Through(a)
    /\ run' = [run EXCEPT ![actor[a].run].status =
                  IF actor[a].failed THEN "failed" ELSE "success"]
    /\ actor' = [actor EXCEPT ![a].pc = "stamp"]
    /\ UNCHANGED <<row, announced, unheard, vetted, raced, cut>>

\* last_run_at, after a failure too; then the call returns if there was one.
StampRun(a) ==
    LET op == actor[a] IN
    /\ op.pc = "stamp"
    /\ row' = IF Exists(op.t) THEN [row EXCEPT ![op.t].lastRun = op.run] ELSE row
    /\ actor' = [actor EXCEPT ![a] =
                    IF op.failed THEN Idle ELSE [op EXCEPT !.pc = "publish"]]
    /\ UNCHANGED <<run, announced, unheard, vetted, raced, cut>>

\* export_layer, then cache.invalidate and fire_on_data_changed, for the name
\* read out of the text; a failing COPY, cache or trigger changes nothing here.
Publish(a) ==
    /\ actor[a].pc = "publish"
    /\ announced' = announced \cup {actor[a].run}
    /\ actor' = [actor EXCEPT ![a] = Idle]
    /\ UNCHANGED <<row, run, unheard, vetted, raced, cut>>

\* export_layer prepares the directory (or the S3 settings) outside its try: an
\* exception there leaves execute_transform, its run already a success.
ExportRaises(a) ==
    /\ actor[a].pc = "publish"
    /\ unheard' = unheard \cup {actor[a].run}
    /\ actor' = [actor EXCEPT ![a] = Idle]
    /\ UNCHANGED <<row, run, announced, vetted, raced, cut>>

----------------------------------------------------------------------------
(***************************************************************************)
(* The process dies and is started again on the same database file.  The   *)
(* bootstrap leaves the run rows as they are and rewrites stored texts     *)
(* (tenant prefixes, the old orders demo) whatever the status of the row;  *)
(* each UPDATE may fail or not be reached.                                 *)
(***************************************************************************)
\* What the approvals given before cover after a bootstrap.
StillVetted(t) == vetted[t] \cup {Rewritten[s] : s \in vetted[t]}

Restart ==
    /\ cut' = cut \cup ({actor[a].run : a \in Actors} \ {NONE})
    /\ actor' = [a \in Actors |-> Idle]
    /\ \E T \in SUBSET {t \in Transforms : Exists(t)} :
        row' = [t \in Transforms |->
                  IF t \in T THEN [row[t] EXCEPT !.sql = Rewritten[@]] ELSE row[t]]
    /\ vetted' = [t \in Transforms |-> StillVetted(t)]
    /\ UNCHANGED <<run, announced, unheard, raced>>

----------------------------------------------------------------------------
Edit(a) ==
    \E t \in Transforms, s \in Sqls : Create(a, t, s) \/ BeginUpdate(a, t, s)

Start(a) == \E t \in Transforms : ReadForRun(a, t)

\* What an actor that is inside a call does next.
Proceed(a) ==
    \/ FinishUpdate(a)
    \/ BeginRun(a)
    \/ Validate(a)
    \/ RunStatement(a)
    \/ FailStatement(a)
    \/ RecordRun(a)
    \/ StampRun(a)
    \/ Publish(a)
    \/ ExportRaises(a)

Manage ==
    \E t \in Transforms :
        \/ \E s \in Sqls : Import(t, s)
        \/ \E action \in {"approve", "reject"} : Review(t, action)
        \/ Delete(t)

Next ==
    \/ \E a \in Actors : Edit(a) \/ Start(a) \/ Proceed(a)
    \/ Manage
    \/ Restart

Spec == Init /\ [][Next]_vars

\* A thread that is inside a call is scheduled until the call returns.  Nothing
\* makes a user or the agent start one, and nothing makes the process stay up.
FairSpec == Spec /\ \A a \in Actors : WF_vars(Proceed(a))

----------------------------------------------------------------------------
(***************************************************************************)
(* The approval gate.                                                      *)
(***************************************************************************)

\* An approved row holds a text that an approval was given to (or, here and
\* below, a bootstrap's rewriting of one).  This is what update_transform's
\* comment promises ("so the updated SQL goes through the approval flow
\* again"); with an agent stream running beside the REST API it does not hold.
ApprovedSqlWasReviewed ==
    \A t \in Transforms : row[t].status = "approved" => row[t].sql \in vetted[t]

\* The one way past the gate: the approval came while an edit was open that
\* had read the row as a draft.  Every other interleaving of edits, imports,
\* reviews, deletions and executions leaves approved rows reviewed.
GateHoldsUnlessRaced ==
    \A t \in Transforms \ raced :
        row[t].status = "approved" => row[t].sql \in vetted[t]

\* Whatever is executed, at whatever moment the row is edited, rejected or
\* deleted meanwhile, is a text that a reviewer approved for that transform
\* (with the same one exception).
RunsOnlyReviewedSql ==
    \A r \in Runs :
        run[r].status # "none" /\ run[r].t \notin raced
            => run[r].sql \in vetted[run[r].t]

\* A step that replaces the text of a row leaves the row unapproved, whoever
\* takes it, unless the writer read the row before it was approved: or it is a
\* bootstrap, which is the only thing that rewrites the text of a row in place.
NewTextNeedsApproval ==
    [][\A t \in Transforms \ raced :
          row'[t].sql # row[t].sql =>
              \/ row'[t].status # "approved"
              \/ Exists(t) /\ row'[t] = [row[t] EXCEPT !.sql = Rewritten[@]]]_vars

Gate == INSTANCE ApprovalGate WITH
            Items <- Transforms,
            Texts <- Sqls,
            Nothing <- NONE,
            Revision <- Rewritten,
            text <- [t \in Transforms |-> row[t].sql],
            cleared <- [t \in Transforms |-> row[t].status = "approved"],
            started <- {<<run[r].t, run[r].sql>> : r \in {q \in Runs : run[q].status # "none"}}

\* The REST API alone implements the approval gate: every edit withdraws the
\* approval and every run that starts is of an approved transform's text, even
\* though execute_transform works on a row it read earlier.
ImplementsGate == Gate!GateSpec

----------------------------------------------------------------------------
(***************************************************************************)
(* The run history.                                                        *)
(***************************************************************************)

\* A row that says 'running' is being executed by exactly one actor, or its
\* process died: no validation or statement error leaves one behind.
RunningIsOwned ==
    \A r \in Runs \ cut :
        run[r].status = "running" =>
            \E a \in Actors :
                /\ actor[a].run = r
                /\ actor[a].pc \in {"validate", "statements"}
                /\ \A b \in Actors : actor[b].run = r => b = a

\* The recorded outcome is what happened to the data: a success committed
\* every statement of a valid text; a text that fails the statement check
\* committed none; only a success is exported and announced, or fails to be;
\* last_run_at is the time of a finished run of that same transform.
OutcomeIsTruthful ==
    /\ \A r \in Runs :
        /\ run[r].status = "success" =>
              run[r].sql \notin BadSqls /\ run[r].done = Stmts[run[r].sql]
        /\ run[r].sql \in BadSqls => run[r].done = 0
    /\ announced \cup unheard \subseteq {r \in Runs : run[r].status = "success"}
    /\ \A t \in Transforms :
        row[t].lastRun # NONE =>
            /\ run[row[t].lastRun].t = t
            /\ run[row[t].lastRun].status \in {"success", "failed"}

\* History is append-only: a run never changes its transform or its text, an
\* outcome is never revised, and a run that a restart cut off keeps the status
\* it had: no code path revisits it, so it reads 'running' for ever.
HistoryIsFinal ==
    [][\A r \in Runs :
        /\ run[r].status # "none" => run'[r].t = run[r].t /\ run'[r].sql = run[r].sql
        /\ run[r].status \in {"success", "failed"} => run'[r] = run[r]
        /\ r \in cut => run'[r] = run[r]]_vars

\* Every run that starts is recorded as failed, or is announced, or was cut
\* off by a restart, or its export raised: only that way can a run that
\* succeeded end with its readers and watchers told nothing.
RunSettles ==
    \A r \in Runs :
        run[r].status # "none" ~>
            \/ run[r].status = "failed"
            \/ r \in announced
            \/ r \in unheard
            \/ r \in cut

----------------------------------------------------------------------------
(***************************************************************************)
(* Why the invariants hold: what is true of a call that is under way.      *)
(***************************************************************************)

\* A call works on a transform that was inserted and on an actual text, and
\* from its INSERT on it owns a run row of that transform and that text, alone.
CallsAreWellFormed ==
    /\ \A t \in Transforms : Exists(t) => row[t].sql \in Sqls
    /\ \A a \in Actors :
        /\ actor[a].pc # "idle" => actor[a].t \in Transforms /\ actor[a].sql \in Sqls
        /\ actor[a].pc \in {"idle", "update", "begin"} => actor[a].run = NONE
        /\ actor[a].pc \in RunStages \ {"begin"} =>
              /\ actor[a].run \in Runs \ cut
              /\ run[actor[a].run].t = actor[a].t
              /\ run[actor[a].run].sql = actor[a].sql
              /\ \A b \in Actors : actor[b].run = actor[a].run => b = a

\* An open edit that will not reset the status has not been overtaken by an
\* approval, and an execution carries a reviewed text: unless raced.
CallsRespectGate ==
    \A a \in Actors :
        actor[a].t \notin raced =>
            /\ actor[a].pc = "update" /\ actor[a].sawDraft =>
                  row[actor[a].t].status # "approved"
            /\ actor[a].pc \in RunStages => actor[a].sql \in vetted[actor[a].t]

\* How far the run row of an execution is, stage by stage.
CallsKeepJournal ==
    \A a \in Actors :
        LET op == actor[a]  r == run[actor[a].run] IN
        /\ op.pc = "validate" => r.status = "running" /\ r.done = 0
        /\ op.pc = "statements" =>
              /\ r.status = "running"
              /\ r.done <= Stmts[op.sql]
              /\ op.sql \in BadSqls => op.failed /\ r.done = 0
        /\ op.pc = "stamp" => r.status = IF op.failed THEN "failed" ELSE "success"
        /\ op.pc = "publish" => r.status = "success"

\* A run row that was inserted names a transform and a text; one that was not
\* is nobody's.
RunsAreWellFormed ==
    \A r \in Runs :
        IF run[r].status = "none"
            THEN run[r] = NoRun /\ r \notin cut
            ELSE run[r].t \in Transforms /\ run[r].sql \in Sqls

=============================================================================
