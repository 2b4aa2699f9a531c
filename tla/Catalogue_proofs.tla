-------------------------- MODULE Catalogue_proofs --------------------------
(***************************************************************************)
(* The catalogue, for any number of streams, names, fields, rows and       *)
(* requests.  The inductive invariant has four parts: what a task holds at *)
(* each of its statements (Shape), who registers an entity that lacks      *)
(* fields (Registration), what a task has completed by the time it relies  *)
(* on it (Progress), and how an import links its connectors (Links).       *)
(***************************************************************************)
EXTENDS Catalogue, TLAPS

Registering == {"look", "insert", "fields"}

\* What a task must hold to run its next statement.
Equipped(t) ==
    /\ t.at \in Registering => t.name \in AllNames /\ t.kind # "none"
    /\ t.at = "fields" => t.id \in Ids
    /\ t.id # 0 => t.at \in {"fields", "done"}
    /\ t.at \in {"join", "land", "transform"} => t.base \in Ids
    /\ t.at \in {"resolve", "wire", "join"} => t.wire \in Wire
    /\ t.at = "resolve" => t.kind \in {"connect", "import"}
    /\ t.at = "join" => t.kind \in {"connect", "import", "smart"}
    /\ t.at \in {"items", "wire"} => t.kind = "import"
    /\ t.at \in {"land", "transform"} => t.kind = "smart"
    /\ t.at = "idle" => t.kind = "none"
    /\ t.report = "ok" => t.at = "done"

\* What follows from the kind of the operation.
OfItsKind(t) ==
    /\ t.kind \in {"connect", "smart"} => t.wire \in Wire
    /\ t.kind = "smart" =>
          /\ t.name \in Names /\ t.wire.name = AutoName(t.name)
          /\ t.at \in {"join", "land", "transform"} => t.layer = "bronze"
    /\ t.kind # "import" => t.made = {} /\ t.joined = {}
    \* Connectors wait for the entities of the file.
    /\ t.kind = "import" /\ (t.joined # {} \/ t.wire # NoWire) => t.items = {}
    /\ t.kind = "import" /\ t.at \in Registering /\ t.wire = NoWire => t.joined = {}
    /\ t.kind = "import" /\ t.at \in Registering /\ t.wire # NoWire =>
          t.name = t.wire.name /\ t.layer = "bronze"

\* The import of t made a bronze entity of that name.
Made(t, n) == \E j \in t.made : entity[j].name = n /\ entity[j].layer = "bronze"

\* Row i is what connector w of the import t may be linked to.
Feeds(t, w, i) ==
    /\ entity[i].status # "none" /\ entity[i].layer = "bronze"
    /\ entity[i].name = w.link \/ (entity[i].name = w.name /\ ~Made(t, w.link))

\* While an import goes on nobody renames or deletes a row.
Linked(t) ==
    t.kind = "import" =>
        /\ \A j \in t.made : entity[j].status = "live"
        /\ t.at = "fields" => /\ entity[t.id].status = "live"
                              /\ entity[t.id].name = t.name /\ entity[t.id].layer = t.layer
        /\ t.at \in Registering \cup {"resolve"} /\ t.wire # NoWire => ~Made(t, t.wire.link)
        /\ t.at = "join" => Feeds(t, t.wire, t.base)
        /\ \A w \in t.joined : /\ connector[w.name].status = "live"
                               /\ Feeds(t, w, connector[w.name].target)

\* What a task has made and will report or build on.
Achieved(t) ==
    /\ \A i \in t.made : Whole(i)
    /\ t.kind = "smart" /\ t.at \in {"join", "land", "transform"} => Whole(t.base)
    /\ t.kind = "smart" /\ t.at \in {"land", "transform"} =>
          connector[AutoName(t.name)].status # "none"
    /\ t.kind = "smart" /\ t.layer = "silver" =>
          /\ Whole(t.base)
          /\ connector[AutoName(t.name)].status # "none"
          /\ transform[t.name].status # "none"
    /\ t.report = "ok" =>
          /\ t.kind \in {"post", "register"} => Whole(t.id)
          /\ t.kind = "smart" => /\ Whole(t.base)
                                 /\ connector[AutoName(t.name)].status # "none"
                                 /\ t.id # 0 => Whole(t.id)

Sound(a, t) ==
    /\ t \in TaskType /\ Equipped(t) /\ OfItsKind(t)
    /\ t.kind = "import" => a = Rest
    /\ Achieved(t) /\ Linked(t)

Tasks == task \in [Actors -> TaskType] /\ \A a \in Actors : Sound(a, task[a])

\* The rows.
Rowwise ==
    /\ entity \in [Ids -> EntityType]
    /\ connector \in [AllNames -> [status : {"none", "live", "deleted"}, target : Ids \cup {0}]]
    /\ transform \in [Names -> [status : {"none", "draft", "deleted"}, watch : Ids \cup {0}]]
    /\ file \in [entities : SUBSET EntityItem, connectors : SUBSET Wire]
    /\ requests \in 0..MaxRequests
    /\ excused \subseteq Ids
    /\ \A i \in Ids : /\ entity[i].status # "none" => entity[i].name \in AllNames
                      /\ entity[i].status = "none" => \A f \in Fields : entity[i].fields[f] = "none"
    /\ \A c \in AllNames : connector[c].status # "none" => connector[c].target \in Ids

\* An entity has one registrar at a time, which knows all the fields that it
\* lacks.
Registration ==
    /\ \A a \in Actors : task[a].at = "fields" =>
          /\ entity[task[a].id].status # "none"
          /\ Missing(task[a].id) \subseteq task[a].left
    /\ \A a, b \in Actors :
          task[a].at = "fields" /\ task[b].at = "fields" /\ task[a].id = task[b].id => a = b
    /\ \A i \in Ids : \/ Missing(i) = {} \/ i \in excused
                      \/ \E a \in Actors : task[a].at = "fields" /\ task[a].id = i

IInv == Rowwise /\ Tasks /\ Registration /\ WatchedIsWhole

\* The look before the INSERT: whatever it finds, the task goes on soundly.
LEMMA LookTask ==
    ASSUME IInv, NEW a \in Actors, Look(a)
    PROVE  \E u : Goes(a, u) /\ Sound(a, u) /\ u.at # "fields"
<1> DEFINE t == task[a]
<1>1. Sound(a, t) /\ t.at = "look"
  BY DEF IInv, Tasks, Look
<1>2. PICK u : /\ Goes(a, u)
               /\ \/ u = [t EXCEPT !.at = "insert"]
                  \/ t.kind = "import" /\ u = [t EXCEPT !.at = "items"]
                  \/ t.kind = "smart" /\ t.layer = "silver" /\ u = Ends(t, "ok")
                  \/ t.kind # "import" /\ u = Ends(t, "refused")
  BY <1>1 DEF Look
<1> HIDE DEF t
<1> SUFFICES Sound(a, u) /\ u.at # "fields"
  BY <1>2
<1>4. CASE u = [t EXCEPT !.at = "insert"]
  <2>1. u \in TaskType
    BY <1>1, <1>4 DEF Sound, TaskType, Stages
  <2>2. Equipped(u) /\ OfItsKind(u)
    BY <1>1, <1>4 DEF Sound, Equipped, OfItsKind, Registering, TaskType
  <2>3. Achieved(u)
    BY <1>1, <1>4 DEF Sound, Equipped, Achieved, TaskType
  <2>4. Linked(u)
    BY <1>1, <1>4 DEF Sound, Linked, Feeds, Made, Registering, TaskType
  <2> QED  BY <1>1, <1>4, <2>1, <2>2, <2>3, <2>4 DEF Sound, TaskType
<1>5. CASE t.kind = "import" /\ u = [t EXCEPT !.at = "items"]
  <2>1. u \in TaskType
    BY <1>1, <1>5 DEF Sound, TaskType, Stages
  <2>2. Equipped(u) /\ OfItsKind(u)
    BY <1>1, <1>5 DEF Sound, Equipped, OfItsKind, Registering, TaskType
  <2>3. Achieved(u)
    BY <1>1, <1>5 DEF Sound, Equipped, Achieved, TaskType
  <2>4. Linked(u)
    BY <1>1, <1>5 DEF Sound, Linked, Feeds, Made, Registering, TaskType
  <2> QED  BY <1>1, <1>5, <2>1, <2>2, <2>3, <2>4 DEF Sound, TaskType
<1>6. CASE t.kind = "smart" /\ t.layer = "silver" /\ u = Ends(t, "ok")
  <2>1. u \in TaskType
    BY <1>1, <1>6 DEF Sound, TaskType, Stages, Ends
  <2>2. Equipped(u) /\ OfItsKind(u)
    BY <1>1, <1>6 DEF Sound, Equipped, OfItsKind, Registering, TaskType, Ends
  <2>3. Achieved(u)
    BY <1>1, <1>6 DEF Sound, Equipped, Achieved, TaskType, Ends
  <2>4. Linked(u)
    BY <1>1, <1>6 DEF Sound, Linked, Feeds, Made, Registering, TaskType, Ends
  <2> QED  BY <1>1, <1>6, <2>1, <2>2, <2>3, <2>4 DEF Sound, TaskType, Ends
<1>7. CASE t.kind # "import" /\ u = Ends(t, "refused")
  <2>1. u \in TaskType
    BY <1>1, <1>7 DEF Sound, TaskType, Stages, Ends
  <2>2. Equipped(u) /\ OfItsKind(u)
    BY <1>1, <1>7 DEF Sound, Equipped, OfItsKind, Registering, TaskType, Ends
  <2>3. Achieved(u)
    BY <1>1, <1>7 DEF Sound, Equipped, Achieved, TaskType, Ends
  <2>4. Linked(u)
    BY <1>1, <1>7 DEF Sound, Linked, Feeds, Made, Registering, TaskType, Ends
  <2> QED  BY <1>1, <1>7, <2>1, <2>2, <2>3, <2>4 DEF Sound, TaskType, Ends
<1> QED  BY <1>1, <1>2, <1>4, <1>5, <1>6, <1>7

\* All fields are in: the entity is whole, and the task goes on to what follows
\* for its kind.
LEMMA RegisteredTask ==
    ASSUME IInv, NEW a \in Actors, Registered(a)
    PROVE  \E u : Goes(a, u) /\ Sound(a, u) /\ u.at # "fields"
<1> DEFINE t == task[a]
<1>1. Sound(a, t) /\ t.at = "fields" /\ t.left = {}
  BY DEF IInv, Tasks, Registered
<1>2. PICK u : /\ Goes(a, u)
               /\ \/ t.kind \in {"post", "register"} /\ u = Ends(t, "ok")
                  \/ t.kind = "smart" /\ t.layer = "bronze" /\ u = [t EXCEPT !.at = "join",
                                                            !.base = t.id, !.id = 0]
                  \/ t.kind = "smart" /\ t.layer = "silver" /\ u = Ends(t, "ok")
                  \/ t.kind = "connect" /\ u = [t EXCEPT !.at = "join", !.base = t.id, !.id = 0]
                  \/ t.kind = "import" /\ t.wire # NoWire /\ u = [t EXCEPT !.at = "join",
                                                            !.base = t.id, !.id = 0]
                  \/ t.kind = "import" /\ t.wire = NoWire /\ u = [t EXCEPT !.at = "items",
                                                            !.made = @ \cup {t.id}, !.id = 0]
  BY <1>1 DEF Registered, Sound, Equipped, Registering, TaskType, Layers
<1>3. t.id \in Ids /\ Whole(t.id)
  BY <1>1, CatalogueAssumption DEF IInv, Registration, Whole, Sound, Equipped
<1> HIDE DEF t
<1> SUFFICES Sound(a, u) /\ u.at # "fields"
  BY <1>2
<1>4. CASE t.kind \in {"post", "register"} /\ u = Ends(t, "ok")
  <2>1. u \in TaskType
    BY <1>1, <1>4, <1>3 DEF Sound, TaskType, Stages, Ends
  <2>2. Equipped(u) /\ OfItsKind(u)
    BY <1>1, <1>4, <1>3 DEF Sound, Equipped, OfItsKind, Registering, TaskType, Ends
  <2>3. Achieved(u)
    BY <1>1, <1>4, <1>3 DEF Sound, Equipped, Achieved, TaskType, Ends
  <2>4. Linked(u)
    BY <1>1, <1>4, <1>3 DEF Sound, Linked, Feeds, Made, Registering, TaskType, Ends
  <2> QED  BY <1>1, <1>4, <1>3, <2>1, <2>2, <2>3, <2>4 DEF Sound, TaskType, Ends
<1>5. CASE t.kind = "smart" /\ t.layer = "bronze" /\ u = [t EXCEPT !.at = "join", !.base = t.id, !.id = 0]
  <2>1. u \in TaskType
    BY <1>1, <1>5, <1>3 DEF Sound, TaskType, Stages, Equipped
  <2>2. Equipped(u) /\ OfItsKind(u)
    BY <1>1, <1>5, <1>3 DEF Sound, Equipped, OfItsKind, Registering, TaskType
  <2>3. Achieved(u)
    BY <1>1, <1>5, <1>3 DEF Sound, Equipped, Achieved, TaskType
  <2>4. Linked(u)
    BY <1>1, <1>5, <1>3 DEF Sound, Linked, Feeds, Made, Registering, TaskType, Equipped
  <2> QED  BY <1>1, <1>5, <1>3, <2>1, <2>2, <2>3, <2>4 DEF Sound, TaskType, Equipped
<1>6. CASE t.kind = "smart" /\ t.layer = "silver" /\ u = Ends(t, "ok")
  <2>1. u \in TaskType
    BY <1>1, <1>6, <1>3 DEF Sound, TaskType, Stages, Ends
  <2>2. Equipped(u) /\ OfItsKind(u)
    BY <1>1, <1>6, <1>3 DEF Sound, Equipped, OfItsKind, Registering, TaskType, Ends
  <2>3. Achieved(u)
    BY <1>1, <1>6, <1>3 DEF Sound, Equipped, Achieved, TaskType, Ends
  <2>4. Linked(u)
    BY <1>1, <1>6, <1>3 DEF Sound, Linked, Feeds, Made, Registering, TaskType, Ends
  <2> QED  BY <1>1, <1>6, <1>3, <2>1, <2>2, <2>3, <2>4 DEF Sound, TaskType, Ends
<1>7. CASE t.kind = "connect" /\ u = [t EXCEPT !.at = "join", !.base = t.id, !.id = 0]
  <2>1. u \in TaskType
    BY <1>1, <1>7, <1>3 DEF Sound, TaskType, Stages, Equipped
  <2>2. Equipped(u) /\ OfItsKind(u)
    BY <1>1, <1>7, <1>3 DEF Sound, Equipped, OfItsKind, Registering, TaskType
  <2>3. Achieved(u)
    BY <1>1, <1>7, <1>3 DEF Sound, Equipped, Achieved, TaskType
  <2>4. Linked(u)
    BY <1>1, <1>7, <1>3 DEF Sound, Linked, Feeds, Made, Registering, TaskType, Equipped
  <2> QED  BY <1>1, <1>7, <1>3, <2>1, <2>2, <2>3, <2>4 DEF Sound, TaskType, Equipped
<1>8. CASE t.kind = "import" /\ t.wire # NoWire /\ u = [t EXCEPT !.at = "join", !.base = t.id, !.id = 0]
  <2>1. u \in TaskType
    BY <1>1, <1>8, <1>3 DEF Sound, TaskType, Stages, Equipped, OfItsKind
  <2>2. Equipped(u) /\ OfItsKind(u)
    BY <1>1, <1>8, <1>3 DEF Sound, Equipped, OfItsKind, Registering, TaskType
  <2>3. Achieved(u)
    BY <1>1, <1>8, <1>3 DEF Sound, Equipped, Achieved, TaskType, OfItsKind
  <2>4. Linked(u)
    BY <1>1, <1>8, <1>3 DEF Sound, Linked, Feeds, Made, Registering, TaskType, Equipped, OfItsKind
  <2> QED  BY <1>1, <1>8, <1>3, <2>1, <2>2, <2>3, <2>4 DEF Sound, TaskType, Equipped, OfItsKind
<1>9. CASE t.kind = "import" /\ t.wire = NoWire /\ u = [t EXCEPT !.at = "items",
                                                            !.made = @ \cup {t.id}, !.id = 0]
  <2>1. u \in TaskType
    BY <1>1, <1>9, <1>3 DEF Sound, TaskType, Stages, Equipped, OfItsKind
  <2>2. Equipped(u) /\ OfItsKind(u)
    BY <1>1, <1>9, <1>3 DEF Sound, Equipped, OfItsKind, Registering, TaskType
  <2>3. Achieved(u)
    BY <1>1, <1>9, <1>3 DEF Sound, Equipped, Achieved, TaskType, OfItsKind
  <2>4. Linked(u)
    BY <1>1, <1>9, <1>3 DEF Sound, Linked, Feeds, Made, Registering, TaskType, Equipped, OfItsKind
  <2> QED  BY <1>1, <1>9, <1>3, <2>1, <2>2, <2>3, <2>4 DEF Sound, TaskType, Equipped, OfItsKind
<1> QED  BY <1>1, <1>2, <1>4, <1>5, <1>6, <1>7, <1>8, <1>9

\* A statement that raises: what was done so far is all that is claimed.
LEMMA RaiseTask ==
    ASSUME IInv, NEW a \in Actors, Raise(a)
    PROVE  \E u : Goes(a, u) /\ Sound(a, u) /\ u.at # "fields"
<1> DEFINE t == task[a]
<1>1. Sound(a, t) /\ t.at \in {"insert", "fields", "join", "land", "transform"}
  BY DEF IInv, Tasks, Raise
<1>2. PICK u : /\ Goes(a, u)
               /\ \/ t.kind = "import" /\ u = [t EXCEPT !.at = "items", !.id = 0, !.left = {}]
                  \/ t.kind # "import" /\ u = Ends(t, "error")
  BY <1>1 DEF Raise, Fails
<1> HIDE DEF t
<1> SUFFICES Sound(a, u) /\ u.at # "fields"
  BY <1>2
<1>4. CASE t.kind = "import" /\ u = [t EXCEPT !.at = "items", !.id = 0, !.left = {}]
  <2>1. u \in TaskType
    BY <1>1, <1>4 DEF Sound, TaskType, Stages
  <2>2. Equipped(u) /\ OfItsKind(u)
    BY <1>1, <1>4 DEF Sound, Equipped, OfItsKind, Registering, TaskType
  <2>3. Achieved(u)
    BY <1>1, <1>4 DEF Sound, Equipped, Achieved, TaskType
  <2>4. Linked(u)
    BY <1>1, <1>4 DEF Sound, Linked, Feeds, Made, Registering, TaskType
  <2> QED  BY <1>1, <1>4, <2>1, <2>2, <2>3, <2>4 DEF Sound, TaskType
<1>5. CASE t.kind # "import" /\ u = Ends(t, "error")
  <2>1. u \in TaskType
    BY <1>1, <1>5 DEF Sound, TaskType, Stages, Ends
  <2>2. Equipped(u) /\ OfItsKind(u)
    BY <1>1, <1>5 DEF Sound, Equipped, OfItsKind, Registering, TaskType, Ends
  <2>3. Achieved(u)
    BY <1>1, <1>5 DEF Sound, Equipped, Achieved, TaskType, Ends
  <2>4. Linked(u)
    BY <1>1, <1>5 DEF Sound, Linked, Feeds, Made, Registering, TaskType, Ends
  <2> QED  BY <1>1, <1>5, <2>1, <2>2, <2>3, <2>4 DEF Sound, TaskType, Ends
<1> QED  BY <1>1, <1>2, <1>4, <1>5

\* A connector that asked for an entity has found one, or gives up.
LEMMA ResolveTask ==
    ASSUME IInv, NEW a \in Actors, Resolve(a)
    PROVE  \E u : Goes(a, u) /\ Sound(a, u) /\ u.at # "fields"
<1> DEFINE t == task[a]
<1>1. Sound(a, t) /\ t.at = "resolve"
  BY DEF IInv, Tasks, Resolve
<1>2. PICK u : /\ Goes(a, u)
               /\ \/ u = [t EXCEPT !.at = "look", !.name = t.wire.name, !.layer = "bronze", !.left = {}]
                  \/ \E i \in Rows(t.wire.name, "bronze") : u = [t EXCEPT !.at = "join", !.base = i]
  BY <1>1 DEF Resolve
<1> HIDE DEF t
<1> SUFFICES Sound(a, u) /\ u.at # "fields"
  BY <1>2
<1>4. CASE u = [t EXCEPT !.at = "look", !.name = t.wire.name, !.layer = "bronze", !.left = {}]
  <2>1. u \in TaskType
    BY <1>1, <1>4, CatalogueAssumption
      DEF Sound, TaskType, Stages, Wire, NoWire, NamesOrNone, Layers, Equipped
  <2>2. Equipped(u) /\ OfItsKind(u)
    BY <1>1, <1>4, CatalogueAssumption
      DEF Sound, Equipped, OfItsKind, Registering, TaskType, Wire, NoWire, NamesOrNone, Layers
  <2>3. Achieved(u)
    BY <1>1, <1>4, CatalogueAssumption
      DEF Sound, Equipped, Achieved, TaskType, Wire, NoWire, NamesOrNone, Layers
  <2>4. Linked(u)
    BY <1>1, <1>4, CatalogueAssumption
      DEF Sound, Linked, Feeds, Made, Registering, TaskType, Wire, NoWire, NamesOrNone, Layers, Equipped
  <2> QED  BY <1>1, <1>4, CatalogueAssumption, <2>1, <2>2, <2>3, <2>4
    DEF Sound, TaskType, Wire, NoWire, NamesOrNone, Layers, Equipped
<1>5. CASE \E i \in Rows(t.wire.name, "bronze") : u = [t EXCEPT !.at = "join", !.base = i]
  <2>p. PICK i \in Rows(t.wire.name, "bronze") : u = [t EXCEPT !.at = "join", !.base = i]
    BY <1>5
  <2>1. u \in TaskType
    BY <1>1, <1>5, <2>p, CatalogueAssumption
      DEF Sound, TaskType, Stages, Rows, Wire, NoWire, Equipped
  <2>2. Equipped(u) /\ OfItsKind(u)
    BY <1>1, <1>5, <2>p, CatalogueAssumption
      DEF Sound, Equipped, OfItsKind, Registering, TaskType, Rows, Wire, NoWire
  <2>3. Achieved(u)
    BY <1>1, <1>5, <2>p, CatalogueAssumption
      DEF Sound, Equipped, Achieved, TaskType, Rows, Wire, NoWire
  <2>4. Linked(u)
    BY <1>1, <1>5, <2>p, CatalogueAssumption
      DEF Sound, Linked, Feeds, Made, Registering, TaskType, Rows, Wire, NoWire, Equipped
  <2> QED  BY <1>1, <1>5, <2>p, CatalogueAssumption, <2>1, <2>2, <2>3, <2>4
    DEF Sound, TaskType, Rows, Wire, NoWire, Equipped
<1> QED  BY <1>1, <1>2, <1>4, <1>5

\* The sample has landed: the silver layer is next.
LEMMA LandTask ==
    ASSUME IInv, NEW a \in Actors, Land(a)
    PROVE  \E u : Goes(a, u) /\ Sound(a, u) /\ u.at # "fields"
<1> DEFINE t == task[a]
<1>1. Sound(a, t) /\ t.at = "land"
  BY DEF IInv, Tasks, Land
<1>2. PICK u : /\ Goes(a, u)
               /\ \/ u = [t EXCEPT !.at = "transform"]
                  \/ u = Ends(t, "ok")
  BY <1>1 DEF Land
<1> HIDE DEF t
<1> SUFFICES Sound(a, u) /\ u.at # "fields"
  BY <1>2
<1>4. CASE u = [t EXCEPT !.at = "transform"]
  <2>1. u \in TaskType
    BY <1>1, <1>4 DEF Sound, TaskType, Stages
  <2>2. Equipped(u) /\ OfItsKind(u)
    BY <1>1, <1>4 DEF Sound, Equipped, OfItsKind, Registering, TaskType
  <2>3. Achieved(u)
    BY <1>1, <1>4 DEF Sound, Equipped, Achieved, TaskType
  <2>4. Linked(u)
    BY <1>1, <1>4 DEF Sound, Linked, Feeds, Made, Registering, TaskType
  <2> QED  BY <1>1, <1>4, <2>1, <2>2, <2>3, <2>4 DEF Sound, TaskType
<1>5. CASE u = Ends(t, "ok")
  <2>1. u \in TaskType
    BY <1>1, <1>5 DEF Sound, TaskType, Stages, Ends, OfItsKind
  <2>2. Equipped(u) /\ OfItsKind(u)
    BY <1>1, <1>5 DEF Sound, Equipped, OfItsKind, Registering, TaskType, Ends
  <2>3. Achieved(u)
    BY <1>1, <1>5 DEF Sound, Equipped, Achieved, TaskType, Ends, OfItsKind
  <2>4. Linked(u)
    BY <1>1, <1>5 DEF Sound, Linked, Feeds, Made, Registering, TaskType, Ends, OfItsKind
  <2> QED  BY <1>1, <1>5, <2>1, <2>2, <2>3, <2>4 DEF Sound, TaskType, Ends, OfItsKind
<1> QED  BY <1>1, <1>2, <1>4, <1>5

\* An import takes the next entity of the file, or its first connector when no
\* entity is left.
LEMMA NextItemTask ==
    ASSUME IInv, NEW a \in Actors, NextItem(a)
    PROVE  \E u : Goes(a, u) /\ Sound(a, u) /\ u.at # "fields"
<1> DEFINE t == [task[a] EXCEPT !.wire = NoWire, !.base = 0, !.id = 0, !.left = {}]
<1>1. Sound(a, t) /\ t.at = "items" /\ t.kind = "import" /\ t.wire = NoWire /\ t.id = 0
  <2> DEFINE s == task[a]
  <2>1. Sound(a, s) /\ s \in TaskType
    BY DEF IInv, Tasks, Sound
  <2> HIDE DEF s
  <2>2. t.at = s.at /\ t.at = "items"
    BY <2>1 DEF NextItem, TaskType, s
  <2>3. t = [s EXCEPT !.wire = NoWire, !.base = 0, !.id = 0, !.left = {}]
    BY DEF s
  <2> HIDE DEF t
  <2>4. t \in TaskType /\ t.wire = NoWire /\ s.kind = "import"
    BY <2>1, <2>2, <2>3 DEF TaskType, Sound, Equipped
  <2>5. Equipped(t) /\ OfItsKind(t)
    BY <2>1, <2>2, <2>3, <2>4 DEF Sound, Equipped, OfItsKind, Registering, TaskType
  <2>6. Achieved(t)
    BY <2>1, <2>2, <2>3, <2>4 DEF Sound, Equipped, Achieved, TaskType
  <2>7. Linked(t)
    BY <2>1, <2>2, <2>3, <2>4 DEF Sound, Linked, Feeds, Made, Registering, TaskType
  <2> QED  BY <2>1, <2>2, <2>3, <2>4, <2>5, <2>6, <2>7 DEF Sound, TaskType
<1>2. PICK u : /\ Goes(a, u)
               /\ \/ \E e \in t.items : u = [t EXCEPT !.at = "look", !.name = e.name,
                                                      !.layer = e.layer, !.left = e.fields, !.items = @ \ {e}]
                  \/ t.items = {} /\ \E w \in t.wires : u = [t EXCEPT !.at = "wire",
                                                            !.wire = w, !.wires = @ \ {w}]
                  \/ u = Ends(t, "ok")
  BY <1>1 DEF NextItem
<1> HIDE DEF t
<1> SUFFICES Sound(a, u) /\ u.at # "fields"
  BY <1>2
<1>4. CASE \E e \in t.items : u = [t EXCEPT !.at = "look", !.name = e.name,
                                            !.layer = e.layer, !.left = e.fields, !.items = @ \ {e}]
  <2>p. PICK e \in t.items : u = [t EXCEPT !.at = "look", !.name = e.name,
                                           !.layer = e.layer, !.left = e.fields, !.items = @ \ {e}]
    BY <1>4
  <2>t. /\ e.name \in NamesOrNone /\ e.name \in AllNames
        /\ e.layer \in Layers /\ e.fields \subseteq Fields
        /\ t.items \ {e} \subseteq EntityItem
    BY <1>1, <2>p DEF Sound, TaskType, EntityItem, NamesOrNone
  <2>1. u \in TaskType
    BY <1>1, <1>4, <2>t, <2>p DEF Sound, TaskType, Stages
  <2>2. Equipped(u) /\ OfItsKind(u)
    BY <1>1, <1>4, <2>t, <2>p DEF Sound, Equipped, OfItsKind, Registering, TaskType
  <2>3. Achieved(u)
    BY <1>1, <1>4, <2>t, <2>p DEF Sound, Equipped, Achieved, TaskType
  <2>4. Linked(u)
    BY <1>1, <1>4, <2>t, <2>p DEF Sound, Linked, Feeds, Made, Registering, TaskType
  <2> QED  BY <1>1, <1>4, <2>t, <2>p, <2>1, <2>2, <2>3, <2>4 DEF Sound, TaskType
<1>5. CASE t.items = {} /\ \E w \in t.wires : u = [t EXCEPT !.at = "wire", !.wire = w, !.wires = @ \ {w}]
  <2>p. PICK w \in t.wires : u = [t EXCEPT !.at = "wire", !.wire = w, !.wires = @ \ {w}]
    BY <1>5
  <2>t. w \in Wire /\ t.wires \ {w} \subseteq Wire
    BY <1>1, <2>p DEF Sound, TaskType, EntityItem, NamesOrNone
  <2>1. u \in TaskType
    BY <1>1, <1>5, <2>t, <2>p DEF Sound, TaskType, Stages
  <2>2. Equipped(u) /\ OfItsKind(u)
    BY <1>1, <1>5, <2>t, <2>p DEF Sound, Equipped, OfItsKind, Registering, TaskType
  <2>3. Achieved(u)
    BY <1>1, <1>5, <2>t, <2>p DEF Sound, Equipped, Achieved, TaskType
  <2>4. Linked(u)
    BY <1>1, <1>5, <2>t, <2>p DEF Sound, Linked, Feeds, Made, Registering, TaskType
  <2> QED  BY <1>1, <1>5, <2>t, <2>p, <2>1, <2>2, <2>3, <2>4 DEF Sound, TaskType
<1>6. CASE u = Ends(t, "ok")
  <2>1. u \in TaskType
    BY <1>1, <1>6 DEF Sound, TaskType, Stages, Ends
  <2>2. Equipped(u) /\ OfItsKind(u)
    BY <1>1, <1>6 DEF Sound, Equipped, OfItsKind, Registering, TaskType, Ends
  <2>3. Achieved(u)
    BY <1>1, <1>6 DEF Sound, Equipped, Achieved, TaskType, Ends
  <2>4. Linked(u)
    BY <1>1, <1>6 DEF Sound, Linked, Feeds, Made, Registering, TaskType, Ends
  <2> QED  BY <1>1, <1>6, <2>1, <2>2, <2>3, <2>4 DEF Sound, TaskType, Ends
<1> QED  BY <1>1, <1>2, <1>4, <1>5, <1>6

\* An import resolves what a connector of the file is linked to.
LEMMA WireUpTask ==
    ASSUME IInv, NEW a \in Actors, WireUp(a)
    PROVE  \E u : Goes(a, u) /\ Sound(a, u) /\ u.at # "fields"
<1> DEFINE t == task[a]
<1>1. Sound(a, t) /\ t.at = "wire" /\ t.kind = "import"
  BY DEF IInv, Tasks, WireUp, Sound, Equipped
<1>2. PICK u : /\ Goes(a, u)
               /\ \/ u = [t EXCEPT !.at = "items"]
                  \/ \E i \in Rows(t.wire.link, "bronze") : u = [t EXCEPT !.at = "join", !.base = i]
                  \/ Rows(t.wire.link, "bronze") = {} /\ u = [t EXCEPT !.at = "resolve"]
  BY <1>1 DEF WireUp
<1> HIDE DEF t
<1> SUFFICES Sound(a, u) /\ u.at # "fields"
  BY <1>2
<1>4. CASE u = [t EXCEPT !.at = "items"]
  <2>1. u \in TaskType
    BY <1>1, <1>4 DEF Sound, TaskType, Stages
  <2>2. Equipped(u) /\ OfItsKind(u)
    BY <1>1, <1>4 DEF Sound, Equipped, OfItsKind, Registering, TaskType
  <2>3. Achieved(u)
    BY <1>1, <1>4 DEF Sound, Equipped, Achieved, TaskType
  <2>4. Linked(u)
    BY <1>1, <1>4 DEF Sound, Linked, Feeds, Made, Registering, TaskType
  <2> QED  BY <1>1, <1>4, <2>1, <2>2, <2>3, <2>4 DEF Sound, TaskType
<1>5. CASE \E i \in Rows(t.wire.link, "bronze") : u = [t EXCEPT !.at = "join", !.base = i]
  <2>p. PICK i \in Rows(t.wire.link, "bronze") : u = [t EXCEPT !.at = "join", !.base = i]
    BY <1>5
  <2>1. u \in TaskType
    BY <1>1, <1>5, <2>p DEF Sound, TaskType, Stages, Rows
  <2>2. Equipped(u) /\ OfItsKind(u)
    BY <1>1, <1>5, <2>p DEF Sound, Equipped, OfItsKind, Registering, TaskType, Rows
  <2>3. Achieved(u)
    BY <1>1, <1>5, <2>p DEF Sound, Equipped, Achieved, TaskType, Rows
  <2>4. Linked(u)
    BY <1>1, <1>5, <2>p DEF Sound, Linked, Feeds, Made, Registering, TaskType, Rows
  <2> QED  BY <1>1, <1>5, <2>p, <2>1, <2>2, <2>3, <2>4 DEF Sound, TaskType, Rows
<1>6. CASE Rows(t.wire.link, "bronze") = {} /\ u = [t EXCEPT !.at = "resolve"]
  <2>1. u \in TaskType
    BY <1>1, <1>6 DEF Sound, TaskType, Stages, Rows
  <2>2. Equipped(u) /\ OfItsKind(u)
    BY <1>1, <1>6 DEF Sound, Equipped, OfItsKind, Registering, TaskType, Rows
  <2>3. Achieved(u)
    BY <1>1, <1>6 DEF Sound, Equipped, Achieved, TaskType, Rows
  <2>4. Linked(u)
    BY <1>1, <1>6 DEF Sound, Linked, Feeds, Made, Registering, TaskType, Rows
  <2> QED  BY <1>1, <1>6, <2>1, <2>2, <2>3, <2>4 DEF Sound, TaskType, Rows
<1> QED  BY <1>1, <1>2, <1>4, <1>5, <1>6

\* An actor outside any operation claims nothing.
LEMMA IdleSound == \A a \in Actors : Sound(a, Idle)
<1>1. Idle \in TaskType
  BY DEF Idle, TaskType, Stages, NamesOrNone, Layers
<1>2. Equipped(Idle) /\ OfItsKind(Idle)
  BY DEF Idle, Equipped, OfItsKind, Registering
<1>3. Achieved(Idle) /\ Linked(Idle)
  BY DEF Idle, Achieved, Linked
<1> QED  BY <1>1, <1>2, <1>3 DEF Sound, Idle

\* An operation begins with nothing made.
LEMMA FreshSound ==
    ASSUME NEW a \in Actors, NEW u \in TaskType,
           u.made = {}, u.joined = {}, u.report = "none", u.id = 0,
           u.kind # "none", u.layer \in Layers, u.wire \in Wire \cup {NoWire},
           u.at \in {"look", "resolve", "join", "items"},
           u.at = "look" => u.kind \in {"post", "register", "smart"} /\ u.name \in AllNames,
           u.at \in {"resolve", "join"} => u.kind = "connect",
           u.at = "join" => u.base \in Ids,
           u.at = "items" => u.kind = "import" /\ u.wire = NoWire /\ a = Rest,
           u.kind = "connect" => u.wire \in Wire,
           u.kind = "smart" => /\ u.layer = "bronze" /\ u.name \in Names
                               /\ u.wire \in Wire /\ u.wire.name = AutoName(u.name)
    PROVE  Sound(a, u)
<1>1. Equipped(u)
  BY DEF Equipped, Registering
<1>2. OfItsKind(u)
  BY DEF OfItsKind, Registering
<1>3. Achieved(u)
  BY DEF Achieved
<1>4. Linked(u)
  BY DEF Linked
<1> QED  BY <1>1, <1>2, <1>3, <1>4 DEF Sound

\* Each operation begins soundly.
LEMMA StartTask ==
    ASSUME IInv, NEW a \in Actors, Start(a)
    PROVE  \E u : Goes(a, u) /\ Sound(a, u) /\ u.at # "fields"
<1> USE DEF Idle
<1>0. NoName \in NamesOrNone /\ Names \subseteq AllNames /\ AllNames \subseteq NamesOrNone
  BY DEF NamesOrNone, AllNames
<1>1. CASE \E n \in Names, l \in Layers : Register(a, n, l)
  <2>1. PICK n \in Names, l \in Layers : Register(a, n, l)
    BY <1>1
  <2>2. PICK u : /\ Goes(a, u)
                 /\ \/ u = [Idle EXCEPT !.kind = "post", !.at = "look", !.name = n, !.layer = l]
                    \/ u = [Idle EXCEPT !.kind = "register", !.at = "look", !.name = n,
                                        !.layer = l, !.left = Fields]
    BY <2>1 DEF Register
  <2>3. u \in TaskType
    BY <1>0, <2>2 DEF TaskType, Stages
  <2>4. /\ u.layer = l /\ u.name = n /\ u.kind \in {"post", "register"} /\ u.at = "look"
        /\ u.made = {} /\ u.joined = {} /\ u.report = "none" /\ u.id = 0 /\ u.wire = NoWire
    BY <2>2
  <2>5. Sound(a, u)
    BY <1>0, <2>3, <2>4, FreshSound
  <2> QED  BY <2>2, <2>4, <2>5
<1>2. CASE \E n \in Names, i \in Ids \cup {0} : Connect(a, n, i)
  <2>1. PICK n \in Names, i \in Ids \cup {0} : Connect(a, n, i)
    BY <1>2
  <2> DEFINE w == [NoWire EXCEPT !.name = n]
  <2>2. w \in Wire
    BY <1>0 DEF NoWire, Wire
  <2>3. PICK u : Goes(a, u) /\ u = [Idle EXCEPT !.kind = "connect", !.wire = w, !.base = i,
                                                !.at = IF i = 0 THEN "resolve" ELSE "join"]
    BY <2>1 DEF Connect
  <2> HIDE DEF w
  <2>4. u \in TaskType
    BY <1>0, <2>2, <2>3 DEF TaskType, Stages, Layers
  <2>5. Sound(a, u)
    BY <1>0, <2>2, <2>3, <2>4, FreshSound DEF Layers
  <2>6. u.at # "fields"
    BY <2>3
  <2> QED  BY <2>3, <2>5, <2>6
<1>3. CASE \E n \in Names, skip \in BOOLEAN : SmartImport(a, n, skip)
  <2>1. PICK n \in Names, skip \in BOOLEAN : SmartImport(a, n, skip)
    BY <1>3
  <2> DEFINE w == [NoWire EXCEPT !.name = AutoName(n)]
  <2>2. w \in Wire /\ w.name = AutoName(n)
    BY <1>0 DEF NoWire, Wire, AllNames
  <2>3. PICK u : Goes(a, u) /\ u = [Idle EXCEPT !.kind = "smart", !.at = "look", !.name = n,
                                                !.left = Fields, !.wire = w, !.skip = skip]
    BY <2>1 DEF SmartImport
  <2> HIDE DEF w
  <2>4. u \in TaskType
    BY <1>0, <2>2, <2>3 DEF TaskType, Stages, Layers
  <2>5. Sound(a, u)
    BY <1>0, <2>2, <2>3, <2>4, FreshSound DEF Layers
  <2>6. u.at # "fields"
    BY <2>3
  <2> QED  BY <2>3, <2>5, <2>6
<1>4. CASE a = Rest /\ Import
  <2>1. PICK u : Goes(a, u) /\ u = [Idle EXCEPT !.kind = "import", !.at = "items",
                                           !.items = file.entities, !.wires = file.connectors]
    BY <1>4 DEF Import
  <2>2. file.entities \subseteq EntityItem /\ file.connectors \subseteq Wire
    BY DEF IInv, Rowwise
  <2>3. u \in TaskType
    BY <1>0, <2>1, <2>2 DEF TaskType, Stages, Layers
  <2>4. Sound(a, u)
    BY <1>4, <2>1, <2>3, FreshSound DEF Layers
  <2>5. u.at # "fields"
    BY <2>1
  <2> QED  BY <2>1, <2>4, <2>5
<1> QED  BY <1>1, <1>2, <1>3, <1>4 DEF Start

\* No step undoes what WatchedIsWhole and Achieved speak of.
Grows ==
    /\ \A i \in Ids : Whole(i) => Whole(i)'
    /\ \A c \in AllNames : connector[c].status # "none" => connector'[c].status # "none"
    /\ \A n \in Names : transform[n].status # "none" => transform'[n].status # "none"

\* Only the event loop renames and deletes.
Stays ==
    /\ \A i \in Ids : entity[i].status # "none" =>
          /\ entity'[i].status = entity[i].status
          /\ entity'[i].name = entity[i].name
          /\ entity'[i].layer = entity[i].layer
    /\ \A c \in AllNames : connector[c].status = "live" => connector'[c] = connector[c]

\* What a task has achieved stays when rows are only added and completed.
LEMMA KeepsAchieved ==
    ASSUME Grows, NEW u \in TaskType, OfItsKind(u), Achieved(u)
    PROVE  Achieved(u)'
<1>1. \A i \in Ids \cup {0} : Whole(i) => Whole(i)'
  BY DEF Grows, Whole
<1>2. u.made \subseteq Ids /\ u.base \in Ids \cup {0} /\ u.id \in Ids \cup {0}
  BY DEF TaskType
<1>3. u.kind = "smart" => u.name \in Names /\ AutoName(u.name) \in AllNames
  BY DEF OfItsKind, AllNames
<1> QED  BY <1>1, <1>2, <1>3 DEF Achieved, Grows

\* What an import has linked stays linked while nobody renames or deletes.
LEMMA KeepsLinked ==
    ASSUME Rowwise, Stays, NEW u \in TaskType, Equipped(u), Linked(u)
    PROVE  Linked(u)'
<1> SUFFICES ASSUME u.kind = "import" PROVE Linked(u)'
  BY DEF Linked
<1>1. /\ u.made \subseteq Ids /\ u.joined \subseteq Wire
      /\ \A j \in u.made : entity[j].status = "live"
  BY DEF TaskType, Linked
<1>2. \A n : Made(u, n)' <=> Made(u, n)
  BY <1>1 DEF Made, Stays
<1>3. \A w : \A i \in Ids : Feeds(u, w, i) => Feeds(u, w, i)'
  BY <1>2 DEF Feeds, Stays
<1>4. \A w \in u.joined : /\ w.name \in AllNames /\ connector[w.name].status = "live"
                          /\ connector[w.name].target \in Ids
  BY <1>1 DEF Linked, Rowwise, Wire
<1>5. \A w \in u.joined : /\ connector'[w.name].status = "live"
                          /\ Feeds(u, w, connector[w.name].target)'
  BY <1>3, <1>4 DEF Linked, Stays
<1>6. u.at = "fields" => /\ entity'[u.id].status = "live"
                         /\ entity'[u.id].name = u.name /\ entity'[u.id].layer = u.layer
  BY DEF Linked, Stays, Equipped
<1>7. u.at = "join" => Feeds(u, u.wire, u.base)'
  BY <1>3 DEF Linked, Equipped
<1> QED  BY <1>1, <1>2, <1>4, <1>5, <1>6, <1>7 DEF Linked, Stays

\* The other tasks stay sound when one goes on.
LEMMA OneGoesOn ==
    ASSUME IInv, Grows, Stays, NEW a \in Actors, NEW u, Goes(a, u), Sound(a, u)'
    PROVE  Tasks'
<1>1. task' \in [Actors -> TaskType]
  BY DEF IInv, Tasks, Goes, Sound
<1>2. ASSUME NEW b \in Actors PROVE Sound(b, task[b])'
  <2>1. CASE b = a
    BY <2>1 DEF Goes, IInv, Tasks
  <2>2. CASE b # a
    <3>1. PICK v : v = task[b]
      OBVIOUS
    <3>2. task'[b] = v
      BY <2>2, <3>1 DEF Goes, IInv, Tasks
    <3>3. Sound(b, v)
      BY <3>1 DEF IInv, Tasks
    <3>4. Achieved(v)' /\ Linked(v)'
      BY <3>3, KeepsAchieved, KeepsLinked DEF Sound, IInv
    <3>5. Sound(b, v)'
      BY <3>3, <3>4 DEF Sound
    <3> QED  BY <3>2, <3>5
  <2> QED  BY <2>1, <2>2
<1> QED  BY <1>1, <1>2 DEF Tasks

\* A step that changes no row, except that it may excuse an entity.
LEMMA NoRowChanges ==
    ASSUME IInv, UNCHANGED <<entity, connector, transform, file>>,
           requests' \in 0..MaxRequests, excused \subseteq excused', excused' \subseteq Ids,
           NEW a \in Actors, NEW u, Goes(a, u), Sound(a, u), u.at # "fields",
           task[a].at = "fields" => Missing(task[a].id) = {} \/ task[a].id \in excused'
    PROVE  IInv'
<1>1. Rowwise'
  BY DEF IInv, Rowwise
<1>2. Grows /\ Stays
  BY DEF Grows, Stays, Whole, Missing
<1>3. Sound(a, u)'
  BY DEF Sound, Achieved, Linked, Feeds, Made, Whole, Missing
<1>4. Tasks'
  BY <1>2, <1>3, OneGoesOn
<1>5. task'[a] = u /\ \A b \in Actors \ {a} : task'[b] = task[b]
  BY DEF IInv, Tasks, Goes
<1>6. \A i : Missing(i)' = Missing(i)
  BY DEF Missing
<1>7. Registration'
  BY <1>5, <1>6 DEF IInv, Registration
<1>8. WatchedIsWhole'
  BY <1>6 DEF IInv, WatchedIsWhole, Whole
<1> QED  BY <1>1, <1>4, <1>7, <1>8 DEF IInv

\* The INSERT of an entity makes its actor the one registrar of the row.
LEMMA InsertEntityStep == ASSUME IInv, NEW a \in Actors, InsertEntity(a) PROVE IInv'
<1>1. PICK t : t = task[a]
  OBVIOUS
<1>2. Sound(a, t) /\ t \in TaskType /\ t.at = "insert"
  BY <1>1 DEF IInv, Tasks, Sound, InsertEntity
<1>3. PICK i \in Fresh :
        /\ ~Taken(t.name, t.layer)
        /\ entity' = [entity EXCEPT ![i] =
              [status |-> "live", name |-> t.name, layer |-> t.layer,
               fields |-> [f \in Fields |-> IF f \in t.left THEN "missing" ELSE "none"]]]
        /\ Goes(a, [t EXCEPT !.at = "fields", !.id = i])
        /\ UNCHANGED <<connector, transform, file, requests, excused>>
  BY <1>1 DEF InsertEntity
<1>4. i \in Ids /\ entity[i].status = "none"
  BY <1>3 DEF Fresh, Unused
<1>5. /\ entity'[i].status = "live" /\ entity'[i].name = t.name /\ entity'[i].layer = t.layer
      /\ \A f \in Fields : entity'[i].fields[f] = IF f \in t.left THEN "missing" ELSE "none"
      /\ \A j \in Ids \ {i} : entity'[j] = entity[j]
  BY <1>3, <1>4 DEF IInv, Rowwise
<1>6. PICK u : Goes(a, u) /\ u = [t EXCEPT !.at = "fields", !.id = i]
  BY <1>3
<1>7. /\ u \in TaskType /\ u.at = "fields" /\ u.id = i /\ u.left = t.left
      /\ u.kind = t.kind /\ u.name = t.name /\ u.layer = t.layer /\ u.made = t.made
      /\ u.joined = t.joined /\ u.wire = t.wire /\ u.base = t.base /\ u.report = t.report
      /\ u.items = t.items
  BY <1>2, <1>4, <1>6 DEF TaskType, Stages
<1>8. Rowwise'
  <2>1. t.name \in AllNames /\ t.layer \in Layers
    BY <1>2 DEF Sound, Equipped, Registering, TaskType
  <2>2. entity' \in [Ids -> EntityType]
    BY <1>3, <1>4, <2>1 DEF IInv, Rowwise, EntityType, FieldStates, NamesOrNone
  <2>3. \A j \in Ids : entity'[j].status # "none" => entity'[j].name \in AllNames
    BY <1>5, <2>1 DEF IInv, Rowwise
  <2> QED  BY <1>3, <2>2, <2>3 DEF IInv, Rowwise
<1>9. \A j \in Ids \ {i} : (Missing(j)' = Missing(j)) /\ (Whole(j)' <=> Whole(j))
  BY <1>5 DEF Missing, Whole
<1>10. Grows /\ Stays
  BY <1>3, <1>4, <1>5, <1>9 DEF Grows, Stays, Whole
<1>11. Sound(a, u)'
  <2>1. Equipped(u) /\ OfItsKind(u)
    BY <1>2, <1>4, <1>7 DEF Sound, Equipped, OfItsKind, Registering
  <2>2. Achieved(u)
    BY <1>2, <1>7 DEF Sound, Achieved, Equipped
  <2>3. Achieved(u)'
    BY <1>7, <1>10, <2>1, <2>2, KeepsAchieved
  <2>4. Linked(t)'
    BY <1>2, <1>10, KeepsLinked DEF IInv, Sound
  <2>5. Linked(u)'
    BY <1>2, <1>5, <1>7, <2>4 DEF Linked, Feeds, Made, Registering
  <2> QED  BY <1>2, <1>7, <2>1, <2>3, <2>5 DEF Sound
<1>12. Tasks'
  BY <1>6, <1>10, <1>11, OneGoesOn
<1>13. task'[a] = u /\ \A b \in Actors \ {a} : task'[b] = task[b]
  BY <1>6 DEF IInv, Tasks, Goes
<1>14. \A b \in Actors : task[b].at = "fields" =>
          /\ task[b].id \in Ids \ {i} /\ entity[task[b].id].status # "none"
          /\ Missing(task[b].id) \subseteq task[b].left
  BY <1>4 DEF IInv, Tasks, Sound, Equipped, Registration
<1>15. Missing(i)' \subseteq t.left
  BY <1>5 DEF Missing
<1>16. Registration'
  <2>1. ASSUME NEW b \in Actors, task'[b].at = "fields"
        PROVE  /\ entity'[task'[b].id].status # "none"
               /\ Missing(task[b].id)' \subseteq task'[b].left
    <3>1. CASE b = a
      BY <1>5, <1>7, <1>13, <1>15, <3>1
    <3>2. CASE b # a
      BY <1>5, <1>9, <1>13, <1>14, <2>1, <3>2
    <3> QED  BY <3>1, <3>2
  <2>2. \A b, c \in Actors :
          task'[b].at = "fields" /\ task'[c].at = "fields" /\ task'[b].id = task'[c].id => b = c
    BY <1>7, <1>13, <1>14 DEF IInv, Registration
  <2>3. ASSUME NEW j \in Ids
        PROVE  \/ Missing(j)' = {} \/ j \in excused'
               \/ \E b \in Actors : task'[b].at = "fields" /\ task'[b].id = j
    BY <1>2, <1>1, <1>3, <1>7, <1>9, <1>13 DEF IInv, Registration
  <2> QED  BY <2>1, <2>2, <2>3 DEF Registration
<1>17. WatchedIsWhole'
  BY <1>3, <1>10, CatalogueAssumption DEF IInv, Rowwise, WatchedIsWhole, Grows, Whole
<1> QED  BY <1>8, <1>12, <1>16, <1>17 DEF IInv

\* The INSERT of a field is the only step by which an entity becomes whole.
LEMMA InsertFieldStep == ASSUME IInv, NEW a \in Actors, InsertField(a) PROVE IInv'
<1>1. PICK t : t = task[a]
  OBVIOUS
<1>2. Sound(a, t) /\ t \in TaskType /\ t.at = "fields" /\ t.id \in Ids
  BY <1>1 DEF IInv, Tasks, Sound, InsertField, Equipped
<1>3. PICK f \in t.left :
        /\ entity' = [entity EXCEPT ![t.id].fields[f] = "there"]
        /\ Goes(a, [t EXCEPT !.left = @ \ {f}])
        /\ UNCHANGED <<connector, transform, file, requests, excused>>
  BY <1>1 DEF InsertField
<1>4. f \in Fields
  BY <1>2, <1>3 DEF TaskType
<1>5. /\ entity'[t.id].status = entity[t.id].status
      /\ entity'[t.id].name = entity[t.id].name /\ entity'[t.id].layer = entity[t.id].layer
      /\ \A j \in Ids \ {t.id} : entity'[j] = entity[j]
  BY <1>2, <1>3 DEF IInv, Rowwise, EntityType
<1>6. entity'[t.id].fields = [entity[t.id].fields EXCEPT ![f] = "there"]
  BY <1>2, <1>3 DEF IInv, Rowwise, EntityType
<1>7. PICK u : Goes(a, u) /\ u = [t EXCEPT !.left = @ \ {f}]
  BY <1>3
<1>8. /\ u \in TaskType /\ u.at = "fields" /\ u.id = t.id /\ u.left = t.left \ {f}
      /\ u.kind = t.kind /\ u.name = t.name /\ u.layer = t.layer /\ u.made = t.made
      /\ u.joined = t.joined /\ u.wire = t.wire /\ u.base = t.base /\ u.report = t.report
      /\ u.items = t.items
  BY <1>2, <1>7 DEF TaskType
<1>9. Rowwise'
  <2>1. entity[t.id] \in EntityType
    BY <1>2 DEF IInv, Rowwise
  <2>2. entity' \in [Ids -> EntityType]
    BY <1>3, <1>4, <2>1 DEF IInv, Rowwise, EntityType, FieldStates
  <2>3. \A j \in Ids :
          /\ entity'[j].status # "none" => entity'[j].name \in AllNames
          /\ entity'[j].status = "none" => \A g \in Fields : entity'[j].fields[g] = "none"
    <3>1. entity[t.id].status # "none"
      BY <1>1, <1>2 DEF IInv, Registration
    <3> QED  BY <1>2, <1>5, <3>1 DEF IInv, Rowwise
  <2> QED  BY <1>3, <2>2, <2>3 DEF IInv, Rowwise
<1>10. \A j \in Ids \ {t.id} : (Missing(j)' = Missing(j)) /\ (Whole(j)' <=> Whole(j))
  BY <1>5 DEF Missing, Whole
<1>11. Missing(t.id)' = Missing(t.id) \ {f}
  BY <1>2, <1>4, <1>6 DEF Missing, IInv, Rowwise, EntityType
<1>12. Grows /\ Stays
  BY <1>2, <1>3, <1>5, <1>10, <1>11 DEF Grows, Stays, Whole
<1>13. Sound(a, u)'
  <2>1. Sound(a, u)
    BY <1>2, <1>8 DEF Sound, Equipped, OfItsKind, Achieved, Linked, Feeds, Made
  <2>2. Achieved(u)' /\ Linked(u)'
    BY <1>8, <1>12, <2>1, KeepsAchieved, KeepsLinked DEF IInv, Sound
  <2> QED  BY <2>1, <2>2 DEF Sound
<1>14. Tasks'
  BY <1>7, <1>12, <1>13, OneGoesOn
<1>15. task'[a] = u /\ \A b \in Actors \ {a} : task'[b] = task[b]
  BY <1>7 DEF IInv, Tasks, Goes
<1>16. \A b \in Actors : task[b].at = "fields" =>
          /\ b # a => task[b].id \in Ids \ {t.id}
          /\ entity[task[b].id].status # "none"
          /\ Missing(task[b].id) \subseteq task[b].left
  BY <1>1, <1>2 DEF IInv, Tasks, Sound, Equipped, Registration
<1>17. Registration'
  <2>1. ASSUME NEW b \in Actors, task'[b].at = "fields"
        PROVE  /\ entity'[task'[b].id].status # "none"
               /\ Missing(task[b].id)' \subseteq task'[b].left
    <3>1. CASE b = a
      BY <1>1, <1>2, <1>5, <1>8, <1>11, <1>15, <1>16, <3>1
    <3>2. CASE b # a
      BY <1>5, <1>10, <1>15, <1>16, <2>1, <3>2
    <3> QED  BY <3>1, <3>2
  <2>2. \A b, c \in Actors :
          task'[b].at = "fields" /\ task'[c].at = "fields" /\ task'[b].id = task'[c].id => b = c
    BY <1>1, <1>2, <1>8, <1>15 DEF IInv, Registration
  <2>3. ASSUME NEW j \in Ids
        PROVE  \/ Missing(j)' = {} \/ j \in excused'
               \/ \E b \in Actors : task'[b].at = "fields" /\ task'[b].id = j
    BY <1>1, <1>2, <1>3, <1>8, <1>10, <1>15 DEF IInv, Registration
  <2> QED  BY <2>1, <2>2, <2>3 DEF Registration
<1>18. WatchedIsWhole'
  BY <1>3, <1>12, CatalogueAssumption DEF IInv, Rowwise, WatchedIsWhole, Grows, Whole
<1> QED  BY <1>9, <1>14, <1>17, <1>18 DEF IInv

\* A connector joins a row that exists; an import, the row that it should.
LEMMA JoinStep == ASSUME IInv, NEW a \in Actors, Join(a) PROVE IInv'
<1>1. PICK t : t = task[a]
  OBVIOUS
<1>2. /\ Sound(a, t) /\ t \in TaskType /\ t.at = "join" /\ t.wire \in Wire /\ t.base \in Ids
      /\ t.kind \in {"connect", "import", "smart"} /\ t.report # "ok" /\ t.id = 0
  BY <1>1 DEF IInv, Tasks, Sound, Join, Equipped
<1> DEFINE c == t.wire.name
<1>3. /\ connector[c].status # "live"
      /\ connector' = [connector EXCEPT ![c] = [status |-> "live", target |-> t.base]]
      /\ UNCHANGED <<entity, transform, file, requests, excused>>
  BY <1>1 DEF Join
<1>4. PICK u : /\ Goes(a, u)
               /\ \/ t.kind = "smart" /\ u = [t EXCEPT !.at = "land"]
                  \/ t.kind = "connect" /\ u = Ends(t, "ok")
                  \/ t.kind = "import" /\ u = [t EXCEPT !.at = "items", !.joined = @ \cup {t.wire}]
  BY <1>1, <1>2 DEF Join
<1>5. c \in AllNames /\ c = t.wire.name
  BY <1>2 DEF Wire
<1> HIDE DEF c
<1>6. /\ connector'[c] = [status |-> "live", target |-> t.base]
      /\ \A d \in AllNames \ {c} : connector'[d] = connector[d]
  BY <1>3, <1>5 DEF IInv, Rowwise
<1>7. Rowwise'
  BY <1>2, <1>3, <1>5, <1>6 DEF IInv, Rowwise
<1>8. \A i : (Missing(i)' = Missing(i)) /\ (Whole(i)' <=> Whole(i))
  BY <1>3 DEF Missing, Whole
<1>9. Grows /\ Stays
  BY <1>3, <1>6, <1>8 DEF Grows, Stays
<1>10. Linked(t)'
  BY <1>2, <1>9, KeepsLinked DEF IInv, Sound
<1>11. u.at # "fields" /\ Sound(a, u)'
  <2>1. CASE t.kind = "smart" /\ u = [t EXCEPT !.at = "land"]
    <3>1. u \in TaskType
      BY <1>2, <2>1 DEF TaskType, Stages
    <3>2. Equipped(u) /\ OfItsKind(u)
      BY <1>2, <2>1 DEF Sound, Equipped, OfItsKind, Registering, TaskType
    <3>3. AutoName(u.name) = c /\ connector'[c].status = "live"
      BY <1>2, <1>5, <1>6, <2>1 DEF Sound, OfItsKind, TaskType
    <3>4. u.layer = "bronze" /\ Whole(u.base)' /\ u.made = {} /\ u.report # "ok"
      BY <1>2, <1>8, <2>1 DEF Sound, Achieved, OfItsKind, TaskType
    <3>5. Achieved(u)'
      BY <3>3, <3>4 DEF Achieved
    <3>6. u.kind = "smart" /\ u.at = "land"
      BY <1>2, <2>1 DEF TaskType
    <3> QED  BY <3>1, <3>2, <3>5, <3>6 DEF Sound, Linked
  <2>2. CASE t.kind = "connect" /\ u = Ends(t, "ok")
    <3>1. u \in TaskType
      BY <1>2, <2>2 DEF TaskType, Stages, Ends
    <3>2. Equipped(u) /\ OfItsKind(u)
      BY <1>2, <2>2 DEF Sound, Equipped, OfItsKind, Registering, TaskType, Ends
    <3>3. u.kind = "connect" /\ u.at = "done" /\ u.made = {}
      BY <1>2, <2>2 DEF Sound, OfItsKind, TaskType, Ends
    <3> QED  BY <3>1, <3>2, <3>3 DEF Sound, Linked, Achieved
  <2>3. CASE t.kind = "import" /\ u = [t EXCEPT !.at = "items", !.joined = @ \cup {t.wire}]
    <3>1. t.joined \cup {t.wire} \subseteq Wire
      BY <1>2 DEF TaskType
    <3>2. u \in TaskType
      BY <1>2, <2>3, <3>1 DEF TaskType, Stages
    <3>3. t.wire # NoWire
      BY <1>5, CatalogueAssumption DEF NoWire
    <3>4. Equipped(u) /\ OfItsKind(u)
      BY <1>2, <2>3, <3>3 DEF Sound, Equipped, OfItsKind, Registering, TaskType
    <3>5. /\ u.kind = "import" /\ u.at = "items" /\ u.made = t.made /\ u.report = t.report
          /\ u.joined = t.joined \cup {t.wire}
      BY <1>2, <2>3 DEF TaskType
    <3>6. Achieved(u)'
      BY <1>2, <1>8, <3>5 DEF Sound, Achieved
    <3>7. Feeds(t, t.wire, t.base)'
      BY <1>2, <1>10, <2>3 DEF Linked
    <3>8. \A w, i : Feeds(u, w, i)' <=> Feeds(t, w, i)'
      BY <3>5 DEF Feeds, Made
    <3>9. \A w \in u.joined : /\ connector'[w.name].status = "live"
                              /\ Feeds(u, w, connector[w.name].target)'
      BY <1>5, <1>6, <1>10, <2>3, <3>5, <3>7, <3>8 DEF Linked
    <3>10. Linked(u)'
      BY <1>10, <2>3, <3>5, <3>9 DEF Linked, Registering
    <3> QED  BY <1>2, <2>3, <3>2, <3>4, <3>5, <3>6, <3>10 DEF Sound
  <2> QED  BY <1>4, <2>1, <2>2, <2>3
<1>12. Tasks'
  BY <1>4, <1>9, <1>11, OneGoesOn
<1>13. task'[a] = u /\ \A b \in Actors \ {a} : task'[b] = task[b]
  BY <1>4 DEF IInv, Tasks, Goes
<1>14. Registration'
  BY <1>1, <1>2, <1>3, <1>8, <1>11, <1>13 DEF IInv, Registration
<1>15. WatchedIsWhole'
  BY <1>3, <1>8, <1>9 DEF IInv, WatchedIsWhole, Grows, AllNames
<1> QED  BY <1>7, <1>12, <1>14, <1>15 DEF IInv

\* The generated transform comes after the entity and the connector that it
\* watches.
LEMMA MakeTransformStep == ASSUME IInv, NEW a \in Actors, MakeTransform(a) PROVE IInv'
<1>1. PICK t : t = task[a]
  OBVIOUS
<1>2. Sound(a, t) /\ t \in TaskType /\ t.at = "transform" /\ t.kind = "smart"
  BY <1>1 DEF IInv, Tasks, Sound, MakeTransform, Equipped
<1>3. /\ transform' = [transform EXCEPT ![t.name] = [status |-> "draft", watch |-> t.base]]
      /\ UNCHANGED <<entity, connector, file, requests, excused>>
  BY <1>1 DEF MakeTransform
<1>4. PICK u : Goes(a, u) /\ u = [t EXCEPT !.at = "look", !.layer = "silver", !.left = Fields]
  BY <1>1 DEF MakeTransform
<1>5. /\ t.name \in Names /\ t.base \in Ids /\ Whole(t.base) /\ t.made = {} /\ t.report # "ok"
      /\ connector[AutoName(t.name)].status # "none"
  BY <1>2 DEF Sound, Equipped, OfItsKind, Achieved
<1>6. /\ transform'[t.name] = [status |-> "draft", watch |-> t.base]
      /\ \A n \in Names \ {t.name} : transform'[n] = transform[n]
  BY <1>3, <1>5 DEF IInv, Rowwise
<1>7. Rowwise'
  BY <1>3, <1>5 DEF IInv, Rowwise
<1>8. \A i : (Missing(i)' = Missing(i)) /\ (Whole(i)' <=> Whole(i))
  BY <1>3 DEF Missing, Whole
<1>9. Grows /\ Stays
  BY <1>3, <1>6, <1>8 DEF Grows, Stays
<1>10. Sound(a, u)' /\ u.at = "look"
  <2>1. u \in TaskType
    BY <1>2, <1>4 DEF TaskType, Stages, Layers
  <2>2. Equipped(u) /\ OfItsKind(u)
    BY <1>2, <1>4, <1>5 DEF Sound, Equipped, OfItsKind, Registering, TaskType, AllNames
  <2>3. /\ u.kind = "smart" /\ u.at = "look" /\ u.made = {} /\ u.report # "ok"
        /\ u.base = t.base /\ u.name = t.name
    BY <1>2, <1>4, <1>5 DEF TaskType
  <2>4. Achieved(u)'
    BY <1>3, <1>5, <1>6, <1>8, <2>3 DEF Achieved
  <2> QED  BY <2>1, <2>2, <2>3, <2>4 DEF Sound, Linked
<1>11. Tasks'
  BY <1>4, <1>9, <1>10, OneGoesOn
<1>12. task'[a] = u /\ \A b \in Actors \ {a} : task'[b] = task[b]
  BY <1>4 DEF IInv, Tasks, Goes
<1>13. Registration'
  BY <1>1, <1>2, <1>3, <1>8, <1>10, <1>12 DEF IInv, Registration
<1>14. WatchedIsWhole'
  BY <1>3, <1>5, <1>6, <1>8 DEF IInv, WatchedIsWhole
<1> QED  BY <1>7, <1>11, <1>13, <1>14 DEF IInv

\* A REST handler of one statement: no import is under way.
LEMMA RowsAtRest ==
    ASSUME IInv, task[Rest].at = "idle", UNCHANGED <<task, excused>>, Rowwise',
           \A i \in Ids : /\ Missing(i)' \subseteq Missing(i)
                          /\ entity[i].status # "none" => entity'[i].status # "none",
           \A c \in AllNames : connector[c].status # "none" => connector'[c].status # "none",
           \A n \in Names : /\ transform'[n].watch = transform[n].watch
                            /\ transform'[n].status # "none" <=> transform[n].status # "none"
    PROVE  IInv'
<1>1. Grows
  BY DEF Grows, Whole
<1>2. Tasks'
  <2>1. ASSUME NEW b \in Actors PROVE Sound(b, task[b])'
    <3>1. PICK v : v = task[b]
      OBVIOUS
    <3>2. Sound(b, v)
      BY <3>1 DEF IInv, Tasks
    <3>3. v.kind # "import"
      BY <3>1, <3>2 DEF Sound, Equipped
    <3>4. Achieved(v)'
      BY <1>1, <3>2, KeepsAchieved DEF Sound
    <3>5. Sound(b, v)'
      BY <3>2, <3>3, <3>4 DEF Sound, Linked
    <3> QED  BY <3>1, <3>5
  <2> QED  BY <2>1 DEF IInv, Tasks
<1>3. Registration'
  <2>1. \A b \in Actors : task[b].at = "fields" => task[b].id \in Ids
    BY DEF IInv, Tasks, Sound, Equipped
  <2> QED  BY <2>1 DEF IInv, Registration
<1>4. WatchedIsWhole'
  <2> SUFFICES ASSUME NEW n \in Names, transform'[n].status # "none"
               PROVE  Whole(transform[n].watch)' /\ connector'[AutoName(n)].status # "none"
    BY DEF WatchedIsWhole
  <2>1. PICK i : i = transform[n].watch
    OBVIOUS
  <2>2. i \in Ids /\ Whole(i) /\ connector[AutoName(n)].status # "none"
    BY <2>1 DEF IInv, Rowwise, WatchedIsWhole, Whole
  <2>3. transform'[n].watch = i /\ AutoName(n) \in AllNames
    BY <2>1 DEF AllNames
  <2>4. Whole(i)'
    BY <1>1, <2>2 DEF Grows
  <2> QED  BY <1>1, <2>2, <2>3, <2>4 DEF Grows
<1> QED  BY <1>2, <1>3, <1>4 DEF IInv

\* The handlers of one statement run while no import is under way: they are on
\* the event loop.
LEMMA ManageStep == ASSUME IInv, Manage PROVE IInv'
<1>1. task[Rest].at = "idle" /\ UNCHANGED <<task, excused>> /\ requests' \in 0..MaxRequests
  BY CatalogueAssumption DEF Manage, IInv, Rowwise
<1> DEFINE Few == \A i \in Ids : /\ Missing(i)' \subseteq Missing(i)
                                 /\ entity[i].status # "none" => entity'[i].status # "none"
<1>2. ASSUME NEW i \in Ids, NEW e \in EntityType, entity[i].status # "none", e.status # "none",
             e.name \in AllNames, {f \in Fields : e.fields[f] = "missing"} \subseteq Missing(i),
             entity' = [entity EXCEPT ![i] = e], UNCHANGED <<connector, transform, file>>
      PROVE  IInv'
  <2>1. entity'[i] = e /\ \A j \in Ids \ {i} : entity'[j] = entity[j]
    BY <1>2 DEF IInv, Rowwise
  <2>2. Rowwise'
    BY <1>1, <1>2, <2>1 DEF IInv, Rowwise
  <2>3. Few
    BY <1>2, <2>1 DEF Missing
  <2> QED  BY <1>1, <1>2, <2>2, <2>3, RowsAtRest
<1>3. ASSUME NEW i \in Ids, DeleteEntity(i) PROVE IInv'
  <2>1. PICK e : e = [entity[i] EXCEPT !.status = "deleted"]
    OBVIOUS
  <2>2. entity[i] \in EntityType /\ entity[i].name \in AllNames /\ entity[i].status # "none"
    BY <1>3 DEF DeleteEntity, IInv, Rowwise
  <2>3. /\ e \in EntityType /\ e.status # "none" /\ e.name = entity[i].name
        /\ e.fields = entity[i].fields
    BY <2>1, <2>2 DEF EntityType
  <2> QED  BY <1>2, <1>3, <2>1, <2>2, <2>3 DEF DeleteEntity, Missing
<1>4. ASSUME NEW i \in Ids, NEW n \in Names, NEW l \in Layers, UpdateEntity(i, n, l) PROVE IInv'
  <2>1. PICK e : e = [entity[i] EXCEPT !.name = n, !.layer = l]
    OBVIOUS
  <2>2. entity[i] \in EntityType /\ entity[i].status # "none" /\ n \in AllNames
    BY <1>4 DEF UpdateEntity, IInv, Rowwise, AllNames
  <2>3. /\ e \in EntityType /\ e.status # "none" /\ e.name = n
        /\ e.fields = entity[i].fields
    BY <2>1, <2>2 DEF EntityType, NamesOrNone
  <2>4. entity' = [entity EXCEPT ![i] = e]
    BY <1>4, <2>1 DEF UpdateEntity, IInv, Rowwise
  <2> QED  BY <1>2, <1>4, <2>2, <2>3, <2>4 DEF UpdateEntity, Missing
<1>5. ASSUME NEW i \in Ids, NEW f \in Fields, NEW s \in {"there", "gone"},
             entity[i].status # "none", entity' = [entity EXCEPT ![i].fields[f] = s],
             UNCHANGED <<connector, transform, file>>
      PROVE  IInv'
  <2>1. PICK e : e = [entity[i] EXCEPT !.fields[f] = s]
    OBVIOUS
  <2>2. entity[i] \in EntityType /\ entity[i].name \in AllNames
    BY <1>5 DEF IInv, Rowwise
  <2>3. /\ e \in EntityType /\ e.status # "none" /\ e.name = entity[i].name
        /\ e.fields = [entity[i].fields EXCEPT ![f] = s]
    BY <1>5, <2>1, <2>2 DEF EntityType, FieldStates
  <2>4. entity' = [entity EXCEPT ![i] = e]
    BY <1>5, <2>1 DEF IInv, Rowwise
  <2>5. {g \in Fields : e.fields[g] = "missing"} \subseteq Missing(i)
    BY <2>2, <2>3 DEF EntityType, Missing
  <2> QED  BY <1>2, <1>5, <2>2, <2>3, <2>4, <2>5
<1>6. ASSUME NEW i \in Ids, NEW f \in Fields, AddField(i, f) \/ DeleteField(i, f) PROVE IInv'
  <2>1. CASE AddField(i, f)
    BY <1>5, <2>1 DEF AddField
  <2>2. CASE DeleteField(i, f)
    <3>1. entity[i].status # "none"
      BY <2>2 DEF DeleteField, IInv, Rowwise
    <3> QED  BY <1>5, <2>2, <3>1 DEF DeleteField
  <2> QED  BY <1>6, <2>1, <2>2
<1>7. ASSUME NEW c \in AllNames, DeleteConnector(c) PROVE IInv'
  <2>1. /\ connector' = [connector EXCEPT ![c].status = "deleted"]
        /\ UNCHANGED <<entity, transform, file>> /\ connector[c].status = "live"
    BY <1>7 DEF DeleteConnector
  <2>2. Rowwise'
    BY <1>1, <2>1 DEF IInv, Rowwise
  <2>3. Few
    BY <2>1 DEF Missing
  <2>4. \A d \in AllNames : connector[d].status # "none" => connector'[d].status # "none"
    BY <2>1 DEF IInv, Rowwise
  <2> QED  BY <1>1, <2>1, <2>2, <2>3, <2>4, RowsAtRest
<1>8. ASSUME NEW n \in Names, DeleteTransform(n) PROVE IInv'
  <2>1. /\ transform' = [transform EXCEPT ![n].status = "deleted"]
        /\ UNCHANGED <<entity, connector, file>> /\ transform[n].status = "draft"
    BY <1>8 DEF DeleteTransform
  <2>2. Rowwise'
    BY <1>1, <2>1 DEF IInv, Rowwise
  <2>3. Few
    BY <2>1 DEF Missing
  <2>4. \A m \in Names : /\ transform'[m].watch = transform[m].watch
                         /\ transform'[m].status # "none" <=> transform[m].status # "none"
    BY <2>1 DEF IInv, Rowwise
  <2> QED  BY <1>1, <2>1, <2>2, <2>3, <2>4, RowsAtRest
<1>9. CASE Export
  <2>1. file' = Exported /\ UNCHANGED <<entity, connector, transform>>
    BY <1>9 DEF Export
  <2>2. Exported.entities \subseteq EntityItem
    BY DEF Exported, EntityItem, IInv, Rowwise, EntityType
  <2>3. Exported.connectors \subseteq Wire
    BY DEF Exported, Wire, IInv, Rowwise, NamesOrNone
  <2>4. Rowwise'
    BY <1>1, <2>1, <2>2, <2>3 DEF IInv, Rowwise, Exported
  <2>5. Few
    BY <2>1 DEF Missing
  <2> QED  BY <1>1, <2>1, <2>4, <2>5, RowsAtRest
<1> QED  BY <1>3, <1>4, <1>6, <1>7, <1>8, <1>9 DEF Manage

\* A crash ends every operation; what was being registered is excused.
LEMMA CrashStep == ASSUME IInv, Crash PROVE IInv'
<1>1. /\ UNCHANGED <<entity, connector, transform, file, requests>>
      /\ task' = [a \in Actors |-> Idle]
      /\ excused' = excused \cup {task[a].id : a \in {b \in Actors : task[b].at = "fields"}}
  BY DEF Crash
<1>2. \A a \in Actors : task[a].at = "fields" => task[a].id \in Ids
  BY DEF IInv, Tasks, Sound, Equipped
<1>3. Rowwise'
  BY <1>1, <1>2 DEF IInv, Rowwise
<1>4. Tasks'
  <2>1. Idle \in TaskType /\ Idle.made = {} /\ Idle.kind = "none" /\ Idle.report = "none"
    BY DEF Idle, TaskType, Stages, NamesOrNone, Layers
  <2>2. \A a \in Actors : Sound(a, Idle)'
    BY <2>1, IdleSound DEF Sound, Achieved, Linked
  <2> QED  BY <1>1, <2>1, <2>2 DEF Tasks
<1>5. \A i : (Missing(i)' = Missing(i)) /\ (Whole(i)' <=> Whole(i))
  BY <1>1 DEF Missing, Whole
<1>6. Registration'
  BY <1>1, <1>5 DEF IInv, Registration, Idle
<1>7. WatchedIsWhole'
  BY <1>1, <1>5 DEF IInv, WatchedIsWhole
<1> QED  BY <1>3, <1>4, <1>6, <1>7 DEF IInv

----------------------------------------------------------------------------
\* IInv holds in every state, for any names, layers, fields, streams and requests:
\* rows are well-formed, every operation owns what it claims, every entity that lacks
\* fields has one registrar or an excuse, and what is watched is whole.
THEOREM Invariance == Spec => []IInv
<1>1. Init => IInv
  <2> SUFFICES ASSUME Init PROVE IInv
    OBVIOUS
  <2> USE DEF Init
  <2>1. NoEntity \in EntityType
    BY DEF NoEntity, EntityType, NamesOrNone, Layers, FieldStates
  <2>2. file \in [entities : SUBSET EntityItem, connectors : SUBSET Wire]
    <3>1. PICK n \in Names, c \in Names, l \in Layers : file = SmallFile(n, l, c)
      OBVIOUS
    <3>2. n \in AllNames /\ c \in AllNames /\ n \in NamesOrNone
      BY DEF AllNames, NamesOrNone
    <3>3. [name |-> n, layer |-> l, fields |-> Fields] \in EntityItem
      BY <3>2 DEF EntityItem
    <3>4. [name |-> c, link |-> n] \in Wire
      BY <3>2 DEF Wire
    <3> QED  BY <3>1, <3>3, <3>4 DEF SmallFile
  <2>3. Rowwise
    BY <2>1, <2>2, CatalogueAssumption DEF Rowwise, NoEntity
  <2>4. Tasks
    BY IdleSound DEF Tasks, Sound
  <2>5. Registration
    BY DEF Registration, Missing, NoEntity, Idle
  <2>6. WatchedIsWhole
    BY DEF WatchedIsWhole
  <2> QED  BY <2>3, <2>4, <2>5, <2>6 DEF IInv
<1>2. IInv /\ [Next]_vars => IInv'
  <2> SUFFICES ASSUME IInv, [Next]_vars PROVE IInv'
    OBVIOUS
  <2>0. requests \in 0..MaxRequests /\ excused \subseteq Ids /\ MaxRequests \in Nat
    BY CatalogueAssumption DEF IInv, Rowwise
  <2>1. ASSUME NEW a \in Actors, Look(a) PROVE IInv'
    BY <2>0, <2>1, LookTask, NoRowChanges DEF Look, ReadsOnly
  <2>2. ASSUME NEW a \in Actors, Registered(a) PROVE IInv'
    <3>1. Missing(task[a].id) = {}
      BY <2>2 DEF Registered, IInv, Registration
    <3> QED  BY <2>0, <2>2, <3>1, RegisteredTask, NoRowChanges DEF Registered, ReadsOnly
  <2>3. ASSUME NEW a \in Actors, Raise(a) PROVE IInv'
    <3>1. /\ UNCHANGED <<entity, connector, transform, file, requests>>
          /\ excused' = IF task[a].at = "fields" THEN excused \cup {task[a].id} ELSE excused
      BY <2>3 DEF Raise
    <3>2. task[a].at = "fields" => task[a].id \in Ids
      BY DEF IInv, Tasks, Sound, Equipped
    <3>3. excused \subseteq excused' /\ excused' \subseteq Ids
      BY <2>0, <3>1, <3>2
    <3>4. PICK u : Goes(a, u) /\ Sound(a, u) /\ u.at # "fields"
      BY <2>3, RaiseTask
    <3>5. task[a].at = "fields" => task[a].id \in excused'
      BY <3>1
    <3> QED  BY <2>0, <3>1, <3>3, <3>4, <3>5, NoRowChanges
  <2>4. ASSUME NEW a \in Actors, Resolve(a) PROVE IInv'
    BY <2>0, <2>4, ResolveTask, NoRowChanges DEF Resolve, ReadsOnly
  <2>5. ASSUME NEW a \in Actors, Land(a) PROVE IInv'
    BY <2>0, <2>5, LandTask, NoRowChanges DEF Land, ReadsOnly
  <2>6. ASSUME NEW a \in Actors, NextItem(a) PROVE IInv'
    <3>1. task[a].at # "fields" /\ ReadsOnly
      BY <2>6 DEF NextItem, IInv, Tasks, TaskType
    <3> QED  BY <2>0, <2>6, <3>1, NextItemTask, NoRowChanges DEF ReadsOnly
  <2>7. ASSUME NEW a \in Actors, WireUp(a) PROVE IInv'
    BY <2>0, <2>7, WireUpTask, NoRowChanges DEF WireUp, ReadsOnly
  <2>8. ASSUME NEW a \in Actors, Return(a) PROVE IInv'
    <3>1. PICK u : u = Idle /\ Goes(a, u)
      BY <2>8 DEF Return
    <3>2. u.at # "fields"
      BY <3>1 DEF Idle
    <3> QED  BY <2>0, <2>8, <3>1, <3>2, IdleSound, NoRowChanges DEF Return, ReadsOnly
  <2>9. ASSUME NEW a \in Actors, Start(a) PROVE IInv'
    <3>1. requests' \in 0..MaxRequests /\ task[a].at # "fields"
      BY <2>0, <2>9 DEF Start
    <3> QED  BY <2>0, <2>9, <3>1, StartTask, NoRowChanges DEF Start
  <2>10. ASSUME NEW a \in Actors, Proceed(a) PROVE IInv'
    BY <2>1, <2>2, <2>3, <2>4, <2>5, <2>6, <2>7, <2>8, <2>10, InsertEntityStep,
       InsertFieldStep, JoinStep, MakeTransformStep DEF Proceed
  <2>11. CASE UNCHANGED vars
    BY <2>11 DEF vars, IInv, Rowwise, Tasks, Sound, Achieved, Linked, Feeds, Made, Registration,
                 WatchedIsWhole, Whole, Missing
  <2> QED  BY <2>9, <2>10, <2>11, ManageStep, CrashStep DEF Next
<1> QED  BY <1>1, <1>2, PTL DEF Spec

\* Every variable keeps the type that TypeOK gives it: no statement of any
\* operation meets a name, an id or an item that it cannot have.
THEOREM TypeCorrect == Spec => []TypeOK
<1>1. IInv => TypeOK
  BY DEF IInv, Rowwise, Tasks, TypeOK
<1> QED  BY <1>1, Invariance, PTL

\* No two live rows share a name and a layer, whoever creates and renames:
\* the unique index is enough, the look before the INSERT is not needed.
THEOREM NamesAreUnique == Spec => []OneRowPerName
<1>1. Init => OneRowPerName
  BY DEF Init, OneRowPerName, NoEntity
<1>2. IInv /\ OneRowPerName /\ [Next]_vars => OneRowPerName'
  <2> SUFFICES ASSUME IInv, OneRowPerName, [Next]_vars PROVE OneRowPerName'
    OBVIOUS
  <2>0. entity \in [Ids -> EntityType]
    BY DEF IInv, Rowwise
  <2>1. CASE entity' = entity
    BY <2>1 DEF OneRowPerName
  <2>2. ASSUME NEW a \in Actors, InsertEntity(a) PROVE OneRowPerName'
    <3>1. PICK i \in Ids :
            /\ ~Taken(task[a].name, task[a].layer)
            /\ entity' = [entity EXCEPT ![i] =
              [status |-> "live", name |-> task[a].name, layer |-> task[a].layer,
               fields |-> [f \in Fields |-> IF f \in task[a].left THEN "missing" ELSE "none"]]]
      BY <2>2 DEF InsertEntity, Fresh, Unused
    <3>2. /\ entity'[i].name = task[a].name /\ entity'[i].layer = task[a].layer
          /\ \A j \in Ids \ {i} : entity'[j] = entity[j]
      BY <2>0, <3>1
    <3> QED  BY <3>1, <3>2 DEF OneRowPerName, Taken, Rows
  <2>3. ASSUME NEW a \in Actors, InsertField(a) PROVE OneRowPerName'
    <3>1. PICK f : entity' = [entity EXCEPT ![task[a].id].fields[f] = "there"]
      BY <2>3 DEF InsertField
    <3>2. \A j \in Ids : /\ entity'[j].status = entity[j].status
                         /\ entity'[j].name = entity[j].name /\ entity'[j].layer = entity[j].layer
      BY <2>0, <3>1 DEF EntityType
    <3> QED  BY <3>2 DEF OneRowPerName
  <2>4. ASSUME NEW i \in Ids, DeleteEntity(i) PROVE OneRowPerName'
    <3>1. entity'[i].status = "deleted" /\ \A j \in Ids \ {i} : entity'[j] = entity[j]
      BY <2>0, <2>4 DEF DeleteEntity, EntityType
    <3> QED  BY <3>1 DEF OneRowPerName
  <2>5. ASSUME NEW i \in Ids, NEW n \in Names, NEW l \in Layers, UpdateEntity(i, n, l)
        PROVE  OneRowPerName'
    <3>1. /\ entity'[i].name = n /\ entity'[i].layer = l
          /\ \A j \in Ids \ {i} : entity'[j] = entity[j]
      BY <2>0, <2>5 DEF UpdateEntity, EntityType
    <3>2. \A j \in Ids : ~( /\ entity[j].status = "live"
                             /\ entity[j].name = n /\ entity[j].layer = l )
      BY <2>5 DEF UpdateEntity, Taken, Rows
    <3> QED  BY <3>1, <3>2 DEF OneRowPerName
  <2>6. ASSUME NEW i \in Ids, NEW f \in Fields, AddField(i, f) \/ DeleteField(i, f)
        PROVE  OneRowPerName'
    <3>1. PICK s : entity' = [entity EXCEPT ![i].fields[f] = s]
      BY <2>6 DEF AddField, DeleteField
    <3>2. \A j \in Ids : /\ entity'[j].status = entity[j].status
                         /\ entity'[j].name = entity[j].name /\ entity'[j].layer = entity[j].layer
      BY <2>0, <3>1 DEF EntityType
    <3> QED  BY <3>2 DEF OneRowPerName
  <2>7. CASE Manage
    BY <2>1, <2>4, <2>5, <2>6, <2>7 DEF Manage, DeleteConnector, DeleteTransform, Export
  <2>8. ASSUME NEW a \in Actors, Proceed(a) PROVE OneRowPerName'
    BY <2>1, <2>2, <2>3, <2>8 DEF Proceed, Look, Registered, Raise, Resolve, Join, Land,
                                  MakeTransform, NextItem, WireUp, Return, ReadsOnly
  <2> QED  BY <2>1, <2>7, <2>8 DEF Next, Start, Crash, vars
<1> QED  BY <1>1, <1>2, Invariance, PTL DEF Spec

\* However registrations, deletions of rows and fields, failures and crashes
\* interleave, a field that was announced and is not there has a registrar
\* that still knows it, or its registration raised or died.
THEOREM LackIsExplained == Spec => []PartialIsExplained
<1>1. IInv => PartialIsExplained
  BY DEF IInv, Registration, PartialIsExplained
<1> QED  BY <1>1, Invariance, PTL

\* An operation that reports success has done all that it reports, whatever
\* the other actors did between its statements.
THEOREM SuccessIsReal == Spec => []ReportsAreTrue
<1>1. IInv => ReportsAreTrue
  BY DEF IInv, Tasks, Sound, Achieved, ReportsAreTrue
<1> QED  BY <1>1, Invariance, PTL

\* A generated transform never watches a table whose entity or connector is
\* not there yet, at whatever statement the process dies.
THEOREM WatchedIsReady == Spec => []WatchedIsWhole
<1>1. IInv => WatchedIsWhole
  BY DEF IInv
<1> QED  BY <1>1, Invariance, PTL

\* The connectors of an import feed the entities of the same file, though
\* streams register entities and create connectors in between.
THEOREM ImportIsLinked == Spec => []ImportLinksItsEntities
<1>1. IInv => ImportLinksItsEntities
  <2> SUFFICES ASSUME IInv, task[Rest].kind = "import", NEW w \in task[Rest].joined
               PROVE  LET i == connector[w.name].target IN
                      /\ w.link # NoName /\ entity[i].name # w.link =>
                             \A j \in task[Rest].made :
                                 ~(entity[j].name = w.link /\ entity[j].layer = "bronze")
                      /\ entity[i].name # w.name => entity[i].name = w.link
                      /\ entity[i].layer = "bronze"
    BY DEF ImportLinksItsEntities
  <2>1. Feeds(task[Rest], w, connector[w.name].target)
    BY DEF IInv, Tasks, Sound, Linked, Actors
  <2> QED  BY <2>1 DEF Feeds, Made
<1> QED  BY <1>1, Invariance, PTL
=============================================================================
