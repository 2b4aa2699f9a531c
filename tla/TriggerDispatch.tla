-------------------------- MODULE TriggerDispatch --------------------------
(***************************************************************************)
(* What happens to the triggers that Ingest.Fire and                       *)
(* TransformLifecycle.Publish start: services/api/src/transforms/          *)
(* triggers.py, for one tenant.                                            *)
(*                                                                         *)
(* Each trigger is a daemon thread that calls on_data_changed for an       *)
(* entity: it resolves the entity, reads the approved on_change transforms *)
(* that watch it, and takes them in turn, one thread at a time per         *)
(* transform (_in_flight).  One that has not run of late is executed and,  *)
(* if that ends without errors, on_data_changed is called for its target,  *)
(* one level deeper, while the transform is still in flight.               *)
(*                                                                         *)
(* An entity stands for its name and layer.  Of a transform, the rows of   *)
(* execute_transform are in TransformLifecycle; here it runs or fails.     *)
(***************************************************************************)
EXTENDS Naturals, Sequences

CONSTANTS
    Transforms,
    Entities,
    Threads,         \* the daemon threads, idle ones included
    MaxCascadeDepth  \* MAX_CASCADE_DEPTH

VARIABLES
    transform,       \* transform[t]: its row
    registered,      \* the entities of the catalogue
    inFlight,        \* _in_flight
    thread           \* thread[d]: its calls of on_data_changed, the last first

vars == <<transform, registered, inFlight, thread>>

\* recent: last_run_at is less than DEBOUNCE_SECONDS ago; target: the entity
\* that its SQL writes.
RowType == [status : {"none", "draft", "approved", "rejected"}, mode : {"manual", "on_change"},
            watch : SUBSET Entities, target : Entities, recent : BOOLEAN]

Init ==
    /\ transform \in [Transforms -> {row \in RowType : row.status = "none" /\ ~row.recent}]
    /\ registered = {}
    /\ inFlight = {}
    /\ thread = [d \in Threads |-> <<>>]

Call(e, depth) == [stage |-> "called", entity |-> e, depth |-> depth, rows |-> {}, row |-> <<>>]

Top(d) == Head(thread[d])
At(d, stage) == thread[d] # <<>> /\ Top(d).stage = stage
Become(d, call) == thread' = [thread EXCEPT ![d] = <<call>> \o Tail(@)]

----------------------------------------------------------------------------
\* The columns that _find_watching_transforms selects: id, name,
\* transform_sql and last_run_at.
Columns == {"id", "target", "recent"}

Selected(t) == [c \in Columns |-> IF c = "id" THEN t ELSE transform[t][c]]

\* t.get("watch_entities") or "[]"
Watched(row) == IF "watch" \in DOMAIN row THEN row.watch ELSE {}

Triggered == {t \in Transforms : transform[t].status = "approved" /\ transform[t].mode = "on_change"}

\* _find_watching_transforms
Watching(e) == {row \in {Selected(t) : t \in Triggered} : e \in Watched(row)}

----------------------------------------------------------------------------
\* fire_on_data_changed
Fire(d, e) ==
    /\ thread[d] = <<>>
    /\ thread' = [thread EXCEPT ![d] = <<Call(e, 0)>>]
    /\ UNCHANGED <<transform, registered, inFlight>>

\* A call ends; the transform whose target it was called for is released.
Return(d) ==
    /\ thread' = [thread EXCEPT ![d] =
          IF Len(@) = 1 THEN <<>>
          ELSE <<[@[2] EXCEPT !.stage = "loop"]>> \o SubSeq(@, 3, Len(@))]
    /\ inFlight' = IF Len(thread[d]) = 1 THEN inFlight
                   ELSE inFlight \ {thread[d][2].row.id}
    /\ UNCHANGED <<transform, registered>>

TooDeep(d) == At(d, "called") /\ Top(d).depth >= MaxCascadeDepth /\ Return(d)

\* _resolve_entity_id
Resolve(d) ==
    /\ At(d, "called")
    /\ Top(d).depth < MaxCascadeDepth
    /\ IF Top(d).entity \in registered
       THEN /\ Become(d, [Top(d) EXCEPT !.stage = "resolved"])
            /\ UNCHANGED <<transform, registered, inFlight>>
       ELSE Return(d)

Find(d) ==
    /\ At(d, "resolved")
    /\ Become(d, [Top(d) EXCEPT !.stage = "loop", !.rows = Watching(Top(d).entity)])
    /\ UNCHANGED <<transform, registered, inFlight>>

EndLoop(d) == At(d, "loop") /\ Top(d).rows = {} /\ Return(d)

Take(d) ==
    /\ At(d, "loop")
    /\ \E row \in Top(d).rows :
          LET rest == [Top(d) EXCEPT !.rows = @ \ {row}] IN
          IF row.id \in inFlight
          THEN Become(d, rest) /\ UNCHANGED inFlight
          ELSE /\ Become(d, [rest EXCEPT !.stage = "taken", !.row = row])
               /\ inFlight' = inFlight \cup {row.id}
    /\ UNCHANGED <<transform, registered>>

Release(d) ==
    /\ Become(d, [Top(d) EXCEPT !.stage = "loop"])
    /\ inFlight' = inFlight \ {Top(d).row.id}

\* The debounce looks at the row as it was read.
Debounce(d) ==
    /\ At(d, "taken")
    /\ Top(d).row.recent
    /\ Release(d)
    /\ UNCHANGED <<transform, registered>>

\* execute_transform raises, ends with errors, or writes its target, fires a
\* trigger of its own for it and is followed by the cascade's call.
Execute(d) ==
    LET t == Top(d).row.id
        ran == [transform EXCEPT ![t].recent = TRUE]
    IN
    /\ At(d, "taken")
    /\ ~Top(d).row.recent
    /\ \/ transform' \in {transform, ran} /\ Release(d)
       \/ /\ transform[t].status = "approved"
          /\ transform' = ran
          /\ \E own \in Threads :
                /\ thread[own] = <<>>
                /\ thread' = [thread EXCEPT
                      ![own] = <<Call(transform[t].target, 0)>>,
                      ![d] = <<Call(Top(d).row.target, Top(d).depth + 1),
                               [Top(d) EXCEPT !.stage = "cascading"]>> \o Tail(@)]
          /\ UNCHANGED inFlight
    /\ UNCHANGED registered

\* Transforms and entities come and go, and the debounce's time passes.
Manage ==
    /\ \/ \E t \in Transforms : \E row \in RowType : transform' = [transform EXCEPT ![t] = row]
       \/ UNCHANGED transform
    /\ registered' \in SUBSET Entities
    /\ UNCHANGED <<inFlight, thread>>

Dispatch(d) ==
    \/ TooDeep(d) \/ Resolve(d) \/ Find(d) \/ EndLoop(d) \/ Take(d) \/ Debounce(d) \/ Execute(d)

Next == Manage \/ \E d \in Threads : Dispatch(d) \/ \E e \in Entities : Fire(d, e)

Spec == Init /\ [][Next]_vars

----------------------------------------------------------------------------
\* "Fires approved transforms whose trigger_mode='on_change' when watched
\* entities change" (triggers.py): a dispatch goes through every transform
\* that watches its entity when it reads them.
WatchersAreFound ==
    [][\A d \in Threads : Find(d) =>
          \A t \in Triggered :
             Top(d).entity \in transform[t].watch => \E row \in Top(d)'.rows : row.id = t]_vars
=============================================================================
