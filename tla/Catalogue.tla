----------------------------- MODULE Catalogue -----------------------------
(***************************************************************************)
(* The catalogue and the operations that fill it in several statements:    *)
(* registering an entity, creating a connector, importing a collection     *)
(* and smart_import (services/api/src/catalogue, collections/router.py,    *)
(* integrations/service.py, agent/handlers/smart_import.py).               *)
(*                                                                         *)
(* REST handlers run one at a time on the event loop; agent streams run    *)
(* their tools in threads of their own.  There are no transactions: each   *)
(* statement commits by itself, and between two statements of one actor    *)
(* the others take steps.  An operation is a task that an actor carries    *)
(* from statement to statement.  Foreign keys exist in comments only; what *)
(* the database enforces are UNIQUE (tenant, name, layer) of entities,     *)
(* UNIQUE (entity, name) of fields and UNIQUE (tenant, name) of connectors *)
(* and transforms.  One tenant is modelled.                                *)
(***************************************************************************)
EXTENDS Naturals, FiniteSets

CONSTANTS
    Rest,        \* the event loop
    Streams,     \* the threads of agent streams
    Names,       \* names that callers give to entities and connectors
    NoName,      \* none of them
    Fields,      \* the fields of a schema
    Ids,         \* uuids of entities; none is used twice
    MaxRequests  \* bound on the requests of a behaviour

\* smart_import names its connector f"{name}_connector".
AutoName(n) == <<n, "connector">>
AllNames == Names \cup {AutoName(n) : n \in Names}

ASSUME CatalogueAssumption ==
    /\ Rest \notin Streams
    /\ NoName \notin AllNames
    /\ Ids \subseteq Nat \ {0}
    /\ MaxRequests \in Nat

VARIABLES
    entity,      \* entity[i]: the row of catalogue.entity and its field rows
    connector,   \* connector[c]: the row with that name
    transform,   \* transform[n]: the row named flatten_n
    task,        \* task[a]: what actor a is doing
    file,        \* the collection that was exported last
    requests,    \* how many requests were made, for the bound
    excused      \* entities whose registration raised or was cut by a crash
                 \* (history, guards nothing)

vars == <<entity, connector, transform, task, file, requests, excused>>

Actors == Streams \cup {Rest}

NamesOrNone == AllNames \cup {NoName}

Layers == {"bronze", "silver"}

\* A field of a schema is not part of it, was announced with the row and is
\* not inserted yet, has its row, or had one.
FieldStates == {"none", "missing", "there", "gone"}

EntityType == [status : {"none", "live", "deleted"}, name : NamesOrNone, layer : Layers,
               fields : [Fields -> FieldStates]]

\* An item of an export file: an entity, or a connector with the name of the
\* entity that it feeds.
EntityItem == [name : AllNames, layer : Layers, fields : SUBSET Fields]
Wire == [name : AllNames, link : NamesOrNone]
NoWire == [name |-> NoName, link |-> NoName]

Stages == {"idle", "look", "insert", "fields", "items", "wire", "resolve", "join",
           "land", "transform", "done"}

TaskType == [kind : {"none", "post", "register", "connect", "import", "smart"},
             at : Stages,
             name : NamesOrNone,       \* of the entity being registered
             layer : Layers,
             left : SUBSET Fields,     \* fields still to be inserted
             id : Ids \cup {0},        \* of the entity being registered
             wire : Wire \cup {NoWire},\* the connector being created
             base : Ids \cup {0},      \* its target
             skip : BOOLEAN,           \* skip_transform
             items : SUBSET EntityItem, wires : SUBSET Wire,    \* not yet imported
             made : SUBSET Ids,        \* entities that will be reported as created
             joined : SUBSET Wire,     \* connectors that will be
             report : {"none", "ok", "refused", "error"}]

NoEntity == [status |-> "none", name |-> NoName, layer |-> "bronze",
             fields |-> [f \in Fields |-> "none"]]
Idle == [kind |-> "none", at |-> "idle", name |-> NoName, layer |-> "bronze",
         left |-> {}, id |-> 0, wire |-> NoWire, base |-> 0, skip |-> FALSE,
         items |-> {}, wires |-> {}, made |-> {}, joined |-> {}, report |-> "none"]

\* A collection of one entity and a connector that feeds it.
SmallFile(n, l, c) ==
    [entities |-> {[name |-> n, layer |-> l, fields |-> Fields]},
     connectors |-> {[name |-> c, link |-> n]}]

\* The first file comes from another tenant.
Init ==
    /\ entity = [i \in Ids |-> NoEntity]
    /\ connector = [c \in AllNames |-> [status |-> "none", target |-> 0]]
    /\ transform = [n \in Names |-> [status |-> "none", watch |-> 0]]
    /\ task = [a \in Actors |-> Idle]
    /\ file \in {SmallFile(n, l, c) : n, c \in Names, l \in Layers}
    /\ requests = 0
    /\ excused = {}

----------------------------------------------------------------------------
(***************************************************************************)
(* Statements.                                                             *)
(***************************************************************************)

\* The row that SELECT ... WHERE name = ? AND layer = ? finds.
Rows(n, l) == {i \in Ids : /\ entity[i].status = "live"
                           /\ entity[i].name = n
                           /\ entity[i].layer = l}

Unused == {i \in Ids : entity[i].status = "none"}

\* Unused ids are alike: a new row takes the least.
Fresh == {i \in Unused : \A j \in Unused : i <= j}

\* The actor's own record changes; what else a statement changes is said by
\* the action that has it.
Goes(a, t) == task' = [task EXCEPT ![a] = t]

Ends(t, report) == [t EXCEPT !.at = "done", !.report = report]

\* Mutant: smart_import goes on without its connector.
FailsSoftly(t) == CASE t.kind = "import" -> [t EXCEPT !.at = "items", !.id = 0, !.left = {}]
                    [] t.kind = "smart" /\ t.at = "join" -> [t EXCEPT !.at = "land"]
                    [] OTHER -> Ends(t, "error")

\* A statement raised.  The import notes the error and goes on with the next
\* item; every other operation ends.
Fails(t) == IF t.kind = "import" THEN [t EXCEPT !.at = "items", !.id = 0, !.left = {}]
                                 ELSE Ends(t, "error")

\* Statements that read only change nothing but the task.
ReadsOnly == UNCHANGED <<entity, connector, transform, file, requests, excused>>

\* create_entity looks for a row of that name and layer first.  The import
\* skips or overwrites it, fields excepted; for smart_import an existing
\* silver entity is fine; everybody else is refused with a ValueError.
Look(a) ==
    LET t == task[a] IN
    /\ t.at = "look"
    /\ IF Rows(t.name, t.layer) = {}
       THEN Goes(a, [t EXCEPT !.at = "insert"])
       ELSE Goes(a, CASE t.kind = "import" -> [t EXCEPT !.at = "items"]
                      [] t.kind = "smart" /\ t.layer = "silver" -> Ends(t, "ok")
                      [] OTHER -> Ends(t, "refused"))
    /\ ReadsOnly

\* Mutant: migration 009 is missing.
TakenNever(n, l) == FALSE

\* The INSERT.  The unique index raises for a row that came in between.
Taken(n, l) == Rows(n, l) # {}

\* Mutant: an import reports the entity before its fields.
InsertAndReport(a) ==
    LET t == task[a] IN
    /\ t.at = "insert"
    /\ ~Taken(t.name, t.layer)
    /\ \E i \in Fresh :
          /\ entity' = [entity EXCEPT ![i] =
                [status |-> "live", name |-> t.name, layer |-> t.layer,
                 fields |-> [f \in Fields |-> IF f \in t.left THEN "missing" ELSE "none"]]]
          /\ Goes(a, [t EXCEPT !.at = "fields", !.id = i,
                               !.made = IF t.kind = "import" THEN @ \cup {i} ELSE @])
    /\ UNCHANGED <<connector, transform, file, requests, excused>>

InsertEntity(a) ==
    LET t == task[a] IN
    /\ t.at = "insert"
    /\ ~Taken(t.name, t.layer)
    /\ \E i \in Fresh :
          /\ entity' = [entity EXCEPT ![i] =
                [status |-> "live", name |-> t.name, layer |-> t.layer,
                 fields |-> [f \in Fields |-> IF f \in t.left THEN "missing" ELSE "none"]]]
          /\ Goes(a, [t EXCEPT !.at = "fields", !.id = i])
    /\ UNCHANGED <<connector, transform, file, requests, excused>>

\* create_fields_bulk: one INSERT for each field, whether or not the entity
\* is still there.
InsertField(a) ==
    LET t == task[a] IN
    /\ t.at = "fields"
    /\ \E f \in t.left :
          /\ entity[t.id].fields[f] # "there"
          /\ entity' = [entity EXCEPT ![t.id].fields[f] = "there"]
          /\ Goes(a, [t EXCEPT !.left = @ \ {f}])
    /\ UNCHANGED <<connector, transform, file, requests, excused>>

\* Mutant: not all fields are waited for.
RegisteredEarly(a) ==
    LET t == task[a] IN
    /\ t.at = "fields"
    /\ Goes(a, Ends(t, "ok"))
    /\ ReadsOnly

\* The entity is complete; what comes next depends on who registered it.
Registered(a) ==
    LET t == task[a] IN
    /\ t.at = "fields" /\ t.left = {}
    /\ Goes(a, CASE t.kind \in {"post", "register"} -> Ends(t, "ok")
                 [] t.kind = "smart" /\ t.layer = "bronze" ->
                       [t EXCEPT !.at = "join", !.base = t.id, !.id = 0]
                 [] t.kind = "smart" /\ t.layer = "silver" -> Ends(t, "ok")
                 [] t.kind = "connect" -> [t EXCEPT !.at = "join", !.base = t.id, !.id = 0]
                 [] t.kind = "import" /\ t.wire # NoWire ->
                       [t EXCEPT !.at = "join", !.base = t.id, !.id = 0]
                 [] t.kind = "import" /\ t.wire = NoWire ->
                       [t EXCEPT !.at = "items", !.made = @ \cup {t.id}, !.id = 0])
    /\ ReadsOnly

\* Any statement that writes may raise: a constraint, a value that is
\* refused, the connection.  An unfinished entity stays behind.
Raise(a) ==
    LET t == task[a] IN
    /\ \/ t.at \in {"insert", "join", "transform"}
       \/ t.at = "fields" /\ t.left # {}
       \/ t.at = "land"
    /\ Goes(a, Fails(t))
    /\ excused' = IF t.at = "fields" THEN excused \cup {t.id} ELSE excused
    /\ UNCHANGED <<entity, connector, transform, file, requests>>

\* create_integration without an entity: the bronze entity named like the
\* connector, which is created if need be.
Resolve(a) ==
    LET t == task[a] IN
    /\ t.at = "resolve"
    /\ IF Rows(t.wire.name, "bronze") = {}
       THEN Goes(a, [t EXCEPT !.at = "look", !.name = t.wire.name, !.layer = "bronze",
                              !.left = {}])
       ELSE \E i \in Rows(t.wire.name, "bronze") : Goes(a, [t EXCEPT !.at = "join", !.base = i])
    /\ ReadsOnly

\* The INSERT of the connector, always linked.
Join(a) ==
    LET t == task[a] IN
    /\ t.at = "join"
    /\ connector[t.wire.name].status # "live"
    /\ connector' = [connector EXCEPT ![t.wire.name] = [status |-> "live", target |-> t.base]]
    /\ Goes(a, CASE t.kind = "smart" -> [t EXCEPT !.at = "land"]
                 [] t.kind = "connect" -> Ends(t, "ok")
                 [] t.kind = "import" -> [t EXCEPT !.at = "items", !.joined = @ \cup {t.wire}])
    /\ UNCHANGED <<entity, transform, file, requests, excused>>

----------------------------------------------------------------------------
(***************************************************************************)
(* smart_import after its connector: ingest, transform, silver entity.     *)
(***************************************************************************)

\* Without rows, or when told to, smart_import stops here.
Land(a) ==
    LET t == task[a] IN
    /\ t.at = "land"
    /\ \E landed \in BOOLEAN :
          Goes(a, IF landed /\ ~t.skip THEN [t EXCEPT !.at = "transform"] ELSE Ends(t, "ok"))
    /\ ReadsOnly

\* Mutant: a generated transform needs no review.
MakeApproved(a) ==
    LET t == task[a] IN
    /\ t.at = "transform"
    /\ transform' = [transform EXCEPT ![t.name] = [status |-> "approved", watch |-> t.base]]
    /\ Goes(a, Ends(t, "ok"))
    /\ UNCHANGED <<entity, connector, file, requests, excused>>

MakeTransform(a) ==
    LET t == task[a] IN
    /\ t.at = "transform"
    /\ transform[t.name].status # "draft"
    /\ transform' = [transform EXCEPT ![t.name] = [status |-> "draft", watch |-> t.base]]
    /\ Goes(a, [t EXCEPT !.at = "look", !.layer = "silver", !.left = Fields])
    /\ UNCHANGED <<entity, connector, file, requests, excused>>

----------------------------------------------------------------------------
(***************************************************************************)
(* Collections.                                                            *)
(***************************************************************************)

\* The entities with their fields, the connectors with the name of their
\* target, whatever its layer.
Exported ==
    [entities |-> {[name |-> entity[i].name, layer |-> entity[i].layer,
                    fields |-> {f \in Fields : entity[i].fields[f] = "there"}] :
                      i \in {j \in Ids : entity[j].status = "live"}},
     connectors |->
        {LET i == connector[c].target
         IN  [name |-> c, link |-> IF entity[i].status = "live" THEN entity[i].name ELSE NoName] :
           c \in {d \in AllNames : connector[d].status = "live"}}]

\* Mutant: connectors do not wait for the entities.
NextAny(a) ==
    LET t == [task[a] EXCEPT !.wire = NoWire, !.base = 0, !.id = 0, !.left = {}] IN
    /\ t.at = "items"
    /\ \/ \E e \in t.items :
             Goes(a, [t EXCEPT !.at = "look", !.name = e.name, !.layer = e.layer,
                               !.left = e.fields, !.items = @ \ {e}])
       \/ \E w \in t.wires : Goes(a, [t EXCEPT !.at = "wire", !.wire = w, !.wires = @ \ {w}])
       \/ /\ t.items = {} /\ t.wires = {}
          /\ Goes(a, Ends(t, "ok"))
    /\ ReadsOnly

\* The next item of an import: first the entities, then the connectors.
NextItem(a) ==
    LET t == [task[a] EXCEPT !.wire = NoWire, !.base = 0, !.id = 0, !.left = {}] IN
    /\ t.at = "items"
    /\ \/ \E e \in t.items :
             Goes(a, [t EXCEPT !.at = "look", !.name = e.name, !.layer = e.layer,
                               !.left = e.fields, !.items = @ \ {e}])
       \/ /\ t.items = {}
          /\ \E w \in t.wires : Goes(a, [t EXCEPT !.at = "wire", !.wire = w, !.wires = @ \ {w}])
       \/ /\ t.items = {} /\ t.wires = {}
          /\ Goes(a, Ends(t, "ok"))
    /\ ReadsOnly

\* A connector that exists is skipped; the others are linked by the name of
\* their entity, which is looked for in bronze.
WireUp(a) ==
    LET t == task[a]
        found == Rows(t.wire.link, "bronze")
    IN
    /\ t.at = "wire"
    /\ CASE connector[t.wire.name].status = "live" -> Goes(a, [t EXCEPT !.at = "items"])
         [] connector[t.wire.name].status # "live" /\ found # {} ->
               \E i \in found : Goes(a, [t EXCEPT !.at = "join", !.base = i])
         [] OTHER -> Goes(a, [t EXCEPT !.at = "resolve"])
    /\ ReadsOnly

----------------------------------------------------------------------------
(***************************************************************************)
(* What callers ask for.                                                   *)
(***************************************************************************)

\* POST /entities takes fields and does not pass them on; register_entity
\* inserts them.
Register(a, n, l) ==
    Goes(a, IF a = Rest THEN [Idle EXCEPT !.kind = "post", !.at = "look", !.name = n, !.layer = l]
                        ELSE [Idle EXCEPT !.kind = "register", !.at = "look", !.name = n,
                                          !.layer = l, !.left = Fields])

\* POST /connectors and create_connector, with an entity or without.
Connect(a, n, i) ==
    LET w == [NoWire EXCEPT !.name = n] IN
    /\ i # 0 => entity[i].status # "none"
    /\ Goes(a, [Idle EXCEPT !.kind = "connect", !.wire = w, !.base = i,
                            !.at = IF i = 0 THEN "resolve" ELSE "join"])

\* What smart_import has fetched and inferred before its first statement
\* leaves no trace.
SmartImport(a, n, skip) ==
    Goes(a, [Idle EXCEPT !.kind = "smart", !.at = "look", !.name = n, !.left = Fields,
                         !.wire = [NoWire EXCEPT !.name = AutoName(n)], !.skip = skip])

Import ==
    Goes(Rest, [Idle EXCEPT !.kind = "import", !.at = "items", !.items = file.entities,
                            !.wires = file.connectors])

Start(a) ==
    /\ task[a].at = "idle"
    /\ requests < MaxRequests
    /\ requests' = requests + 1
    /\ \/ \E n \in Names, l \in Layers : Register(a, n, l)
       \/ \E n \in Names, i \in Ids \cup {0} : Connect(a, n, i)
       \/ a # Rest /\ \E n \in Names, skip \in BOOLEAN : SmartImport(a, n, skip)
       \/ a = Rest /\ Import
    /\ UNCHANGED <<entity, connector, transform, file, excused>>

\* The response.
Return(a) ==
    /\ task[a].at = "done"
    /\ Goes(a, Idle)
    /\ ReadsOnly

----------------------------------------------------------------------------
(***************************************************************************)
(* REST handlers of one statement, while the event loop is free.           *)
(***************************************************************************)

\* Fields, connectors, transforms and the table of the entity stay.
DeleteEntity(i) ==
    /\ entity[i].status = "live"
    /\ entity' = [entity EXCEPT ![i].status = "deleted"]
    /\ UNCHANGED <<connector, transform, file>>

\* update_entity: a new name or layer, or both.  The index raises when they
\* are taken.
UpdateEntity(i, n, l) ==
    /\ entity[i].status = "live"
    /\ ~Taken(n, l)
    /\ entity' = [entity EXCEPT ![i].name = n, ![i].layer = l]
    /\ UNCHANGED <<connector, transform, file>>

\* POST and DELETE of single fields.
AddField(i, f) ==
    /\ entity[i].status # "none" /\ entity[i].fields[f] # "there"
    /\ entity' = [entity EXCEPT ![i].fields[f] = "there"]
    /\ UNCHANGED <<connector, transform, file>>

DeleteField(i, f) ==
    /\ entity[i].fields[f] = "there"
    /\ entity' = [entity EXCEPT ![i].fields[f] = "gone"]
    /\ UNCHANGED <<connector, transform, file>>

DeleteConnector(c) ==
    /\ connector[c].status = "live"
    /\ connector' = [connector EXCEPT ![c].status = "deleted"]
    /\ UNCHANGED <<entity, transform, file>>

\* What else happens to a transform is in module TransformLifecycle.
DeleteTransform(n) ==
    /\ transform[n].status = "draft"
    /\ transform' = [transform EXCEPT ![n].status = "deleted"]
    /\ UNCHANGED <<entity, connector, file>>

Export ==
    /\ file' = Exported
    /\ UNCHANGED <<entity, connector, transform>>

Manage ==
    /\ task[Rest].at = "idle"
    /\ requests < MaxRequests
    /\ requests' = requests + 1
    /\ \/ \E i \in Ids : DeleteEntity(i) \/ \E n \in Names, l \in Layers : UpdateEntity(i, n, l)
       \/ \E i \in Ids, f \in Fields : AddField(i, f) \/ DeleteField(i, f)
       \/ \E c \in AllNames : DeleteConnector(c)
       \/ \E n \in Names : DeleteTransform(n)
       \/ Export
    /\ UNCHANGED <<task, excused>>

\* The process dies at any time and starts again.
Crash ==
    /\ task' = [a \in Actors |-> Idle]
    /\ excused' = excused \cup {task[a].id : a \in {b \in Actors : task[b].at = "fields"}}
    /\ UNCHANGED <<entity, connector, transform, file, requests>>

Proceed(a) ==
    \/ Look(a) \/ InsertEntity(a) \/ InsertField(a) \/ Registered(a) \/ Raise(a)
    \/ Resolve(a) \/ Join(a) \/ Land(a) \/ MakeTransform(a)
    \/ NextItem(a) \/ WireUp(a) \/ Return(a)

Next ==
    \/ \E a \in Actors : Start(a) \/ Proceed(a)
    \/ Manage
    \/ Crash

Spec == Init /\ [][Next]_vars

----------------------------------------------------------------------------
(***************************************************************************)
(* Properties.                                                             *)
(***************************************************************************)

TypeOK ==
    /\ entity \in [Ids -> EntityType]
    /\ connector \in [AllNames -> [status : {"none", "live", "deleted"}, target : Ids \cup {0}]]
    /\ transform \in [Names -> [status : {"none", "draft", "deleted"}, watch : Ids \cup {0}]]
    /\ task \in [Actors -> TaskType]
    /\ file \in [entities : SUBSET EntityItem, connectors : SUBSET Wire]
    /\ requests \in 0..MaxRequests
    /\ excused \subseteq Ids

\* No two rows of the catalogue have the same name and layer, although
\* create_entity looks and inserts in two statements and update_entity does
\* not look at all.  Everything that resolves an entity by its name takes
\* the first row it gets.
OneRowPerName ==
    \A i, j \in Ids : /\ entity[i].status = "live" /\ entity[j].status = "live"
                      /\ entity[i].name = entity[j].name
                      /\ entity[i].layer = entity[j].layer
                      => i = j

Missing(i) == {f \in Fields : entity[i].fields[f] = "missing"}

Whole(i) == i # 0 /\ entity[i].status # "none" /\ Missing(i) = {}

\* An entity lacks fields it was registered with only while its one
\* registrar is inserting them, or after that raised or died.
PartialIsExplained ==
    \A i \in Ids :
        \/ Missing(i) = {}
        \/ i \in excused
        \/ \E a \in Actors : /\ task[a].at = "fields" /\ task[a].id = i
                             /\ Missing(i) \subseteq task[a].left
                             /\ \A b \in Actors : task[b].at = "fields" /\ task[b].id = i => b = a

\* What is reported as done is there, or was deleted since: all fields of
\* every entity that is said to be created, the connector of smart_import,
\* and its transform before its silver entity.
ReportsAreTrue ==
    \A a \in Actors :
        LET t == task[a] IN
        t.report = "ok" =>
            /\ t.kind \in {"post", "register"} => Whole(t.id)
            /\ \A i \in t.made : Whole(i)
            /\ t.kind = "smart" =>
                  /\ Whole(t.base)
                  /\ connector[AutoName(t.name)].status # "none"
                  /\ t.layer = "silver" => transform[t.name].status # "none"
                  /\ t.id # 0 => Whole(t.id)

\* The entity that a generated transform watches was registered with all
\* its fields and has its connector, at whatever point smart_import or the
\* process stopped.
WatchedIsWhole ==
    \A n \in Names : transform[n].status # "none" =>
        Whole(transform[n].watch) /\ connector[AutoName(n)].status # "none"

\* "Entities are imported first": a connector that an import creates for an
\* entity that the same import created in bronze is linked to it, and to
\* the entity of the connector's own name only when there is none.
ImportLinksItsEntities ==
    LET t == task[Rest] IN
    t.kind = "import" /\ t.at = "done" =>
        \A w \in t.joined :
            LET i == connector[w.name].target IN
            /\ w.link # NoName /\ entity[i].name # w.link =>
                   \A j \in t.made : ~(entity[j].name = w.link /\ entity[j].layer = "bronze")
            /\ entity[i].name # w.name => entity[i].name = w.link
            /\ entity[i].layer = "bronze"
=============================================================================
