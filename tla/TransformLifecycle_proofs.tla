---------------------- MODULE TransformLifecycle_proofs ----------------------
(***************************************************************************)
(* For any transforms, texts, runs and streams: types are kept; the        *)
(* approval gate holds except through the one race; with no stream open it *)
(* holds outright, and the service refines ApprovalGate; and the run       *)
(* history is truthful and final.                                          *)
(***************************************************************************)
EXTENDS TransformLifecycle, TLAPS

\* The type invariant, with the shape of calls and run rows that it needs:
\* a step writes through op.t and op.run, which must name rows.
Shape == TypeOK /\ CallsAreWellFormed /\ RunsAreWellFormed

\* Every step is one of the actions, or changes nothing.
LEMMA StepCases ==
    ASSUME [Next]_vars, NEW P,
           \A a \in Actors, t \in Transforms, s \in Sqls : Create(a, t, s) => P,
           \A a \in Actors, t \in Transforms, s \in Sqls : BeginUpdate(a, t, s) => P,
           \A a \in Actors, t \in Transforms : ReadForRun(a, t) => P,
           \A a \in Actors : FinishUpdate(a) => P,
           \A a \in Actors : BeginRun(a) => P,
           \A a \in Actors : Validate(a) => P,
           \A a \in Actors : RunStatement(a) => P,
           \A a \in Actors : FailStatement(a) => P,
           \A a \in Actors : RecordRun(a) => P,
           \A a \in Actors : StampRun(a) => P,
           \A a \in Actors : Publish(a) => P,
           \A a \in Actors : ExportRaises(a) => P,
           \A t \in Transforms, s \in Sqls : Import(t, s) => P,
           \A t \in Transforms, action \in {"approve", "reject"} : Review(t, action) => P,
           \A t \in Transforms : Delete(t) => P,
           Restart => P,
           UNCHANGED vars => P
    PROVE  P
BY DEF Next, Edit, Start, Proceed, Manage

\* The records an actor is set to are operations.
LEMMA IdleIsOp == Idle \in OpType /\ Idle.pc = "idle" /\ Idle.run = NONE /\ Idle.t = NONE
BY DEF Idle, OpType

\* A bootstrap leaves a row as it is or rewrites the text of one that exists, and
\* what was vetted covers the rewriting.
LEMMA RestartEffect ==
    ASSUME Shape, Restart
    PROVE  /\ row' \in [Transforms -> RowType]
           /\ vetted' \in [Transforms -> SUBSET Sqls]
           /\ \A t \in Transforms :
                 /\ \/ row'[t] = row[t]
                    \/ Exists(t) /\ row'[t] = [row[t] EXCEPT !.sql = Rewritten[@]]
                 /\ row'[t].status = row[t].status
                 /\ row'[t].sql \in {row[t].sql} \cup
                        (IF Exists(t) THEN {Rewritten[row[t].sql]} ELSE {})
                 /\ vetted[t] \subseteq vetted'[t]
                 /\ \A s \in vetted[t] : Rewritten[s] \in vetted'[t]
<1> USE LifecycleAssumption DEF Shape, TypeOK
<1>1. vetted' = [t \in Transforms |-> vetted[t] \cup {Rewritten[s] : s \in vetted[t]}]
  BY DEF Restart, StillVetted
<1>2. vetted' \in [Transforms -> SUBSET Sqls]
  BY <1>1
<1>3. PICK T \in SUBSET {t \in Transforms : Exists(t)} :
        row' = [t \in Transforms |->
                  IF t \in T THEN [row[t] EXCEPT !.sql = Rewritten[@]] ELSE row[t]]
  BY DEF Restart
<1>4. \A t \in Transforms : Exists(t) =>
        [row[t] EXCEPT !.sql = Rewritten[@]] \in RowType
  BY DEF RowType, CallsAreWellFormed
<1>5. row' \in [Transforms -> RowType]
  BY <1>3, <1>4
<1>6. ASSUME NEW t \in Transforms
      PROVE  /\ \/ row'[t] = row[t]
                \/ Exists(t) /\ row'[t] = [row[t] EXCEPT !.sql = Rewritten[@]]
             /\ row'[t].status = row[t].status
             /\ row'[t].sql \in {row[t].sql} \cup
                    (IF Exists(t) THEN {Rewritten[row[t].sql]} ELSE {})
  <2>1. row[t] \in RowType
    OBVIOUS
  <2>2. CASE t \in T
    BY <1>3, <2>1, <2>2 DEF RowType
  <2>3. CASE t \notin T
    BY <1>3, <2>3
  <2> QED  BY <2>2, <2>3
<1> QED
  BY <1>1, <1>2, <1>5, <1>6

\* The reachable states keep Shape: the initial state has it, every step keeps it.
LEMMA ShapeInit == Init => Shape
<1> SUFFICES ASSUME Init PROVE Shape
  OBVIOUS
<1>1. TypeOK
  BY DEF Init, TypeOK, RowType, RunType, OpType, NoRow, NoRun, Idle, Actors
<1>2. CallsAreWellFormed
  BY DEF Init, CallsAreWellFormed, NoRow, Idle, Exists, Live, RunStages
<1>3. RunsAreWellFormed
  BY DEF Init, RunsAreWellFormed, NoRun
<1> QED
  BY <1>1, <1>2, <1>3 DEF Shape

LEMMA ShapeStep == Shape /\ [Next]_vars => Shape'
<1> SUFFICES ASSUME Shape, [Next]_vars PROVE Shape'
  OBVIOUS
<1> USE LifecycleAssumption DEF Shape, TypeOK
<1>1. ASSUME NEW a \in Actors, NEW t \in Transforms, NEW s \in Sqls, Create(a, t, s)
      PROVE  Shape'
  <2>1. TypeOK'
    BY <1>1 DEF Create, RowType, Live
  <2>2. CallsAreWellFormed'
    BY <1>1 DEF Create, CallsAreWellFormed, RowType, Exists, Live, Free
  <2>3. RunsAreWellFormed'
    BY <1>1 DEF Create, RunsAreWellFormed
  <2> QED  BY <2>1, <2>2, <2>3
<1>2. ASSUME NEW a \in Actors, NEW t \in Transforms, NEW s \in Sqls, BeginUpdate(a, t, s)
      PROVE  Shape'
  <2>0. actor'[a] \in OpType /\ actor'[a].pc = "update" /\ actor'[a].t = t
        /\ actor'[a].sql = s /\ actor'[a].run = NONE
    BY <1>2 DEF BeginUpdate, Idle, OpType
  <2>1. TypeOK'
    BY <1>2, <2>0 DEF BeginUpdate
  <2>2. CallsAreWellFormed'
    BY <1>2, <2>0 DEF BeginUpdate, CallsAreWellFormed, Exists, RunStages, OpType
  <2>3. RunsAreWellFormed'
    BY <1>2 DEF BeginUpdate, RunsAreWellFormed
  <2> QED  BY <2>1, <2>2, <2>3
<1>3. ASSUME NEW a \in Actors, NEW t \in Transforms, ReadForRun(a, t)
      PROVE  Shape'
  <2>0. actor'[a] \in OpType /\ actor'[a].pc = "begin" /\ actor'[a].t = t
        /\ actor'[a].sql = row[t].sql /\ actor'[a].run = NONE
    BY <1>3 DEF ReadForRun, Idle, OpType, RowType, RunStages
  <2>1. TypeOK'
    BY <1>3, <2>0 DEF ReadForRun
  <2>2. CallsAreWellFormed'
    BY <1>3, <2>0 DEF ReadForRun, CallsAreWellFormed, Exists, RunStages, OpType
  <2>3. RunsAreWellFormed'
    BY <1>3 DEF ReadForRun, RunsAreWellFormed
  <2> QED  BY <2>1, <2>2, <2>3
<1>4. ASSUME NEW a \in Actors, FinishUpdate(a) PROVE Shape'
  <2>0. actor[a].t \in Transforms /\ actor[a].sql \in Sqls /\ actor[a].sawDraft \in BOOLEAN
    BY <1>4 DEF FinishUpdate, CallsAreWellFormed, OpType
  <2>1. \A t \in Transforms : row'[t] \in RowType /\ (row'[t].status \in Live => row'[t].sql \in Sqls)
    BY <1>4, <2>0 DEF FinishUpdate, RowType, Live, Exists, CallsAreWellFormed
  <2>2. row' \in [Transforms -> RowType]
    BY <1>4, <2>0, <2>1 DEF FinishUpdate
  <2>3. actor' \in [Actors -> OpType] /\ actor'[a] = Idle
        /\ \A b \in Actors \ {a} : actor'[b] = actor[b]
    BY <1>4, IdleIsOp DEF FinishUpdate
  <2>4. CallsAreWellFormed'
    BY <1>4, <2>1, <2>3, IdleIsOp DEF FinishUpdate, CallsAreWellFormed, Exists, RunStages
  <2>5. RunsAreWellFormed'
    BY <1>4 DEF FinishUpdate, RunsAreWellFormed
  <2> QED  BY <1>4, <2>2, <2>3, <2>4, <2>5 DEF FinishUpdate
<1>5. ASSUME NEW a \in Actors, BeginRun(a) PROVE Shape'
  <2>0. PICK r \in Runs :
          /\ run[r].status = "none"
          /\ run' = [run EXCEPT ![r] =
                [status |-> "running", t |-> actor[a].t, sql |-> actor[a].sql, done |-> 0]]
          /\ actor' = [actor EXCEPT ![a].pc = "validate", ![a].run = r]
    BY <1>5 DEF BeginRun
  <2>1. actor[a].pc = "begin" /\ actor[a].t \in Transforms /\ actor[a].sql \in Sqls
    BY <1>5 DEF BeginRun, CallsAreWellFormed
  <2>2. run'[r] \in RunType /\ run' \in [Runs -> RunType]
    BY <2>0, <2>1 DEF RunType
  <2>3. actor'[a] \in OpType /\ actor'[a].pc = "validate" /\ actor'[a].run = r
        /\ actor'[a].t = actor[a].t /\ actor'[a].sql = actor[a].sql
        /\ \A b \in Actors \ {a} : actor'[b] = actor[b]
    BY <2>0 DEF OpType, RunStages
  <2>4. actor' \in [Actors -> OpType]
    BY <2>0, <2>3
  <2>5. \A b \in Actors : actor[b].run # r
    BY <2>0, <2>1 DEF CallsAreWellFormed, RunsAreWellFormed, NoRun, OpType, RunStages
  <2>6. r \notin cut
    BY <2>0 DEF RunsAreWellFormed
  <2>7. CallsAreWellFormed'
    <3>1. ASSUME NEW b \in Actors, b # a, actor[b].pc \in RunStages \ {"begin"}
          PROVE  /\ actor[b].run \in Runs \ cut
                 /\ run'[actor[b].run] = run[actor[b].run]
                 /\ \A c \in Actors : actor'[c].run = actor[b].run => c = b
      BY <2>0, <2>3, <2>5, <3>1 DEF CallsAreWellFormed
    <3>2. \A c \in Actors : actor'[c].run = r => c = a
      BY <2>3, <2>5
    <3>3. run'[r].t = actor[a].t /\ run'[r].sql = actor[a].sql
      BY <2>0
    <3> QED
      BY <1>5, <2>1, <2>3, <2>6, <3>1, <3>2, <3>3
      DEF BeginRun, CallsAreWellFormed, Exists, RunStages
  <2>8. RunsAreWellFormed'
    BY <1>5, <2>0, <2>1, <2>2 DEF BeginRun, RunsAreWellFormed
  <2> QED  BY <1>5, <2>2, <2>4, <2>7, <2>8 DEF BeginRun
<1>6. ASSUME NEW a \in Actors, Validate(a) PROVE Shape'
  <2>1. actor'[a] \in OpType /\ actor'[a].pc = "statements" /\ actor'[a].run = actor[a].run
        /\ actor'[a].t = actor[a].t /\ actor'[a].sql = actor[a].sql
    <3>1. PICK failed \in BOOLEAN :
            actor' = [actor EXCEPT ![a].pc = "statements", ![a].failed = failed]
      BY <1>6 DEF Validate
    <3>2. actor'[a] = [actor[a] EXCEPT !.pc = "statements", !.failed = failed]
      BY <3>1
    <3>3. actor[a] \in OpType /\ "statements" \in RunStages
      BY DEF RunStages
    <3> QED  BY <3>2, <3>3 DEF OpType
  <2>2. \A b \in Actors \ {a} : actor'[b] = actor[b]
    BY <1>6 DEF Validate
  <2>3. actor' \in [Actors -> OpType]
    BY <1>6, <2>1 DEF Validate
  <2>4. CallsAreWellFormed'
    <3>1. actor[a].pc = "validate" /\ row' = row /\ run' = run /\ cut' = cut
      BY <1>6 DEF Validate
    <3>2. \A b \in Actors : /\ actor'[b].run = actor[b].run
                           /\ actor'[b].t = actor[b].t /\ actor'[b].sql = actor[b].sql
      BY <2>1, <2>2
    <3> QED
      BY <2>1, <2>2, <3>1, <3>2 DEF CallsAreWellFormed, Exists, RunStages
  <2>5. RunsAreWellFormed'
    BY <1>6 DEF Validate, RunsAreWellFormed
  <2> QED  BY <1>6, <2>3, <2>4, <2>5 DEF Validate
<1>7. ASSUME NEW a \in Actors, RunStatement(a) PROVE Shape'
  <2>1. actor[a].run \in Runs /\ actor[a].pc = "statements"
    BY <1>7 DEF RunStatement, Executable, CallsAreWellFormed, RunStages
  <2>2. \A r \in Runs : run'[r] \in RunType /\ run'[r].status = run[r].status
                        /\ run'[r].t = run[r].t /\ run'[r].sql = run[r].sql
    BY <1>7, <2>1 DEF RunStatement, RunType
  <2>3. run' \in [Runs -> RunType]
    BY <1>7, <2>2 DEF RunStatement
  <2>4. CallsAreWellFormed'
    BY <1>7, <2>2 DEF RunStatement, CallsAreWellFormed, Exists
  <2>5. run[actor[a].run].status # "none"
    BY <2>1 DEF CallsAreWellFormed, RunsAreWellFormed, NoRun, RunStages
  <2>6. RunsAreWellFormed'
    BY <1>7, <2>1, <2>2, <2>5 DEF RunStatement, RunsAreWellFormed
  <2> QED  BY <1>7, <2>3, <2>4, <2>6 DEF RunStatement
<1>8. ASSUME NEW a \in Actors, FailStatement(a) PROVE Shape'
  <2>1. actor'[a] \in OpType /\ actor'[a].pc = actor[a].pc /\ actor'[a].run = actor[a].run
        /\ actor'[a].t = actor[a].t /\ actor'[a].sql = actor[a].sql
    BY <1>8 DEF FailStatement, OpType
  <2>2. \A b \in Actors \ {a} : actor'[b] = actor[b]
    BY <1>8 DEF FailStatement
  <2>3. actor' \in [Actors -> OpType]
    BY <1>8, <2>1 DEF FailStatement
  <2>4. CallsAreWellFormed'
    BY <1>8, <2>1, <2>2 DEF FailStatement, CallsAreWellFormed, Exists
  <2>5. RunsAreWellFormed'
    BY <1>8 DEF FailStatement, RunsAreWellFormed
  <2> QED  BY <1>8, <2>3, <2>4, <2>5 DEF FailStatement
<1>9. ASSUME NEW a \in Actors, RecordRun(a) PROVE Shape'
  <2>0. actor[a].pc = "statements" /\ actor[a].run \in Runs
    BY <1>9 DEF RecordRun, Through, CallsAreWellFormed, RunStages
  <2>1. actor'[a] \in OpType /\ actor'[a].pc = "stamp" /\ actor'[a].run = actor[a].run
        /\ actor'[a].t = actor[a].t /\ actor'[a].sql = actor[a].sql
    BY <1>9 DEF RecordRun, OpType, RunStages
  <2>2. \A b \in Actors \ {a} : actor'[b] = actor[b]
    BY <1>9 DEF RecordRun
  <2>3. actor' \in [Actors -> OpType]
    BY <1>9, <2>1 DEF RecordRun
  <2>4. \A r \in Runs : run'[r] \in RunType
                        /\ run'[r].t = run[r].t /\ run'[r].sql = run[r].sql
    BY <1>9, <2>0 DEF RecordRun, RunType
  <2>5. run' \in [Runs -> RunType]
    BY <1>9, <2>4 DEF RecordRun
  <2>6. CallsAreWellFormed'
    BY <1>9, <2>0, <2>1, <2>2, <2>4 DEF RecordRun, CallsAreWellFormed, Exists, RunStages
  <2>7. run[actor[a].run].status # "none" /\ run'[actor[a].run].status # "none"
    BY <1>9, <2>0 DEF RecordRun, CallsAreWellFormed, RunsAreWellFormed, NoRun, RunStages
  <2>8. \A r \in Runs : r # actor[a].run => run'[r] = run[r]
    BY <1>9, <2>0 DEF RecordRun
  <2>9. RunsAreWellFormed'
    BY <1>9, <2>4, <2>7, <2>8 DEF RecordRun, RunsAreWellFormed
  <2> QED  BY <1>9, <2>3, <2>5, <2>6, <2>9 DEF RecordRun
<1>10. ASSUME NEW a \in Actors, StampRun(a) PROVE Shape'
  <2>0. actor[a].pc = "stamp" /\ actor[a].t \in Transforms /\ actor[a].run \in Runs
    BY <1>10 DEF StampRun, CallsAreWellFormed, RunStages
  <2>1. \A t \in Transforms : /\ row'[t] \in RowType
                             /\ row'[t].status = row[t].status /\ row'[t].sql = row[t].sql
    BY <1>10, <2>0 DEF StampRun, RowType
  <2>2. row' \in [Transforms -> RowType]
    BY <1>10, <2>0, <2>1 DEF StampRun
  <2>3. CASE actor[a].failed
    <3>1. actor'[a] = Idle /\ \A b \in Actors \ {a} : actor'[b] = actor[b]
      BY <1>10, <2>3 DEF StampRun
    <3>2. actor' \in [Actors -> OpType]
      BY <1>10, <3>1, IdleIsOp DEF StampRun
    <3>3. CallsAreWellFormed'
      BY <1>10, <2>1, <3>1, IdleIsOp DEF StampRun, CallsAreWellFormed, Exists, RunStages
    <3>4. RunsAreWellFormed'
      BY <1>10 DEF StampRun, RunsAreWellFormed
    <3> QED  BY <1>10, <2>2, <3>2, <3>3, <3>4 DEF StampRun
  <2>4. CASE ~actor[a].failed
    <3>1. actor'[a] \in OpType /\ actor'[a].pc = "publish" /\ actor'[a].run = actor[a].run
          /\ actor'[a].t = actor[a].t /\ actor'[a].sql = actor[a].sql
      BY <1>10, <2>4 DEF StampRun, OpType, RunStages
    <3>2. \A b \in Actors \ {a} : actor'[b] = actor[b]
      BY <1>10 DEF StampRun
    <3>3. actor' \in [Actors -> OpType]
      BY <1>10, <3>1 DEF StampRun
    <3>4. run' = run /\ cut' = cut
      BY <1>10 DEF StampRun
    <3>5. CallsAreWellFormed'
      BY <2>0, <2>1, <3>1, <3>2, <3>4 DEF CallsAreWellFormed, Exists, RunStages
    <3>6. RunsAreWellFormed'
      BY <3>4 DEF RunsAreWellFormed
    <3> QED  BY <1>10, <2>2, <3>3, <3>5, <3>6 DEF StampRun
  <2> QED  BY <2>3, <2>4
<1>11. ASSUME NEW a \in Actors, Publish(a) \/ ExportRaises(a) PROVE Shape'
  <2>1. actor[a].run \in Runs
    BY <1>11 DEF Publish, ExportRaises, CallsAreWellFormed, RunStages
  <2>2. actor'[a] = Idle /\ \A b \in Actors \ {a} : actor'[b] = actor[b]
    BY <1>11 DEF Publish, ExportRaises
  <2>3. actor' \in [Actors -> OpType]
    BY <1>11, <2>2, IdleIsOp DEF Publish, ExportRaises
  <2>4. CallsAreWellFormed'
    BY <1>11, <2>2, IdleIsOp DEF Publish, ExportRaises, CallsAreWellFormed, Exists, RunStages
  <2>5. RunsAreWellFormed'
    BY <1>11 DEF Publish, ExportRaises, RunsAreWellFormed
  <2> QED  BY <1>11, <2>1, <2>3, <2>4, <2>5 DEF Publish, ExportRaises
<1>12. ASSUME NEW t \in Transforms, NEW s \in Sqls, Import(t, s) PROVE Shape'
  <2>1. TypeOK'
    BY <1>12 DEF Import, RowType, Live
  <2>2. CallsAreWellFormed'
    BY <1>12 DEF Import, CallsAreWellFormed, RowType, Exists, Live
  <2>3. RunsAreWellFormed'
    BY <1>12 DEF Import, RunsAreWellFormed
  <2> QED  BY <2>1, <2>2, <2>3
<1>13. ASSUME NEW t \in Transforms, NEW action \in {"approve", "reject"}, Review(t, action)
       PROVE  Shape'
  <2>0. row[t].sql \in Sqls
    BY <1>13 DEF Review, CallsAreWellFormed
  <2>1. TypeOK'
    BY <1>13, <2>0 DEF Review, RowType, Live, Status
  <2>2. CallsAreWellFormed'
    BY <1>13 DEF Review, CallsAreWellFormed, RowType, Exists
  <2>3. RunsAreWellFormed'
    BY <1>13 DEF Review, RunsAreWellFormed
  <2> QED  BY <2>1, <2>2, <2>3
<1>14. ASSUME NEW t \in Transforms, Delete(t) PROVE Shape'
  <2>1. TypeOK'
    BY <1>14 DEF Delete, NoRow, RowType
  <2>2. CallsAreWellFormed'
    BY <1>14 DEF Delete, NoRow, CallsAreWellFormed, RowType, Exists, Live
  <2>3. RunsAreWellFormed'
    BY <1>14 DEF Delete, RunsAreWellFormed
  <2> QED  BY <2>1, <2>2, <2>3
<1>15. CASE Restart
  <2>1. actor' \in [Actors -> OpType] /\ \A a \in Actors : actor'[a] = Idle
    BY <1>15, IdleIsOp DEF Restart
  <2>2. \A a \in Actors : actor[a].run # NONE => actor[a].run \in Runs
                          /\ run[actor[a].run].status # "none"
    BY DEF CallsAreWellFormed, RunsAreWellFormed, NoRun, OpType, RunStages
  <2>3. cut' \subseteq Runs /\ \A r \in cut' \ cut : run[r].status # "none"
    BY <1>15, <2>2 DEF Restart
  <2>4. CallsAreWellFormed'
    BY <1>15, <2>1, IdleIsOp, RestartEffect DEF Restart, CallsAreWellFormed, Exists, RunStages
  <2>5. RunsAreWellFormed'
    BY <1>15, <2>3 DEF Restart, RunsAreWellFormed
  <2> QED  BY <1>15, <2>1, <2>3, <2>4, <2>5, RestartEffect DEF Restart
<1>16. CASE UNCHANGED vars
  BY <1>16 DEF vars, CallsAreWellFormed, RunsAreWellFormed, Exists
<1> QED
  BY <1>1, <1>2, <1>3, <1>4, <1>5, <1>6, <1>7, <1>8, <1>9, <1>10, <1>11, <1>12,
     <1>13, <1>14, <1>15, <1>16, StepCases

\* The type invariant (TypeOK) holds in every reachable state: every column, run
\* row and call record has its type, whatever the interleaving.
THEOREM TypeCorrect == Spec => []TypeOK
<1>1. Shape => TypeOK
  BY DEF Shape
<1> QED
  BY <1>1, ShapeInit, ShapeStep, PTL DEF Spec

----------------------------------------------------------------------------
(***************************************************************************)
(* The approval gate.  The argument: an open edit that will not reset the  *)
(* status saw a draft, and only an approval can make the row anything else *)
(* without passing through a reset; an approval that comes while such an   *)
(* edit is open marks the transform as raced.                              *)
(***************************************************************************)

\* Everything the gate needs, as one inductive invariant.
Gated == Shape /\ CallsRespectGate /\ GateHoldsUnlessRaced /\ RunsOnlyReviewedSql

LEMMA GatedInit == Init => Gated
<1> SUFFICES ASSUME Init PROVE CallsRespectGate /\ GateHoldsUnlessRaced /\ RunsOnlyReviewedSql
  BY ShapeInit DEF Gated
<1> QED
  BY DEF Init, CallsRespectGate, GateHoldsUnlessRaced, RunsOnlyReviewedSql,
         NoRow, NoRun, Idle, RunStages

\* The three parts that a step can disturb, together.
GateParts == CallsRespectGate /\ GateHoldsUnlessRaced /\ RunsOnlyReviewedSql

\* A step that changes neither texts, statuses, reviews nor the race marks, and
\* moves calls only from one stage of an execution to the next or out, disturbs
\* no part of the gate.
LEMMA GateUndisturbed ==
    ASSUME Gated, vetted' = vetted, raced' = raced,
           \A t \in Transforms : row'[t].status = row[t].status /\ row'[t].sql = row[t].sql,
           \A b \in Actors :
              \/ actor'[b] = Idle
              \/ actor'[b] = actor[b]
              \/ /\ actor[b].pc \in RunStages /\ actor'[b].pc \in RunStages
                 /\ actor'[b].t = actor[b].t /\ actor'[b].sql = actor[b].sql,
           \A r \in Runs :
              /\ run'[r].t = run[r].t /\ run'[r].sql = run[r].sql
              /\ run'[r].status # "none" => run[r].status # "none"
    PROVE  GateParts'
<1>1. CallsRespectGate'
  <2> SUFFICES ASSUME NEW b \in Actors, actor'[b].t \notin raced
               PROVE  /\ actor'[b].pc = "update" /\ actor'[b].sawDraft =>
                            row'[actor'[b].t].status # "approved"
                      /\ actor'[b].pc \in RunStages =>
                            actor'[b].sql \in vetted[actor'[b].t]
    BY DEF CallsRespectGate
  <2>1. CASE actor'[b] = Idle
    BY <2>1 DEF Idle, RunStages
  <2>2. CASE actor'[b] = actor[b]
    BY <2>2 DEF Gated, Shape, CallsRespectGate, CallsAreWellFormed
  <2>3. CASE /\ actor[b].pc \in RunStages /\ actor'[b].pc \in RunStages
             /\ actor'[b].t = actor[b].t /\ actor'[b].sql = actor[b].sql
    BY <2>3 DEF Gated, CallsRespectGate, RunStages
  <2> QED  BY <2>1, <2>2, <2>3
<1>2. GateHoldsUnlessRaced'
  BY DEF Gated, GateHoldsUnlessRaced
<1>3. RunsOnlyReviewedSql'
  BY DEF Gated, RunsOnlyReviewedSql
<1> QED  BY <1>1, <1>2, <1>3 DEF GateParts

LEMMA GatePartsStep == Gated /\ [Next]_vars => GateParts'
<1> SUFFICES ASSUME Gated, [Next]_vars PROVE GateParts'
  OBVIOUS
<1> USE LifecycleAssumption DEF Gated, Shape, TypeOK
<1>1. ASSUME NEW a \in Actors, NEW t \in Transforms, NEW s \in Sqls, Create(a, t, s)
      PROVE  GateParts'
  <2>1. CallsRespectGate'
    BY <1>1 DEF Create, CallsRespectGate, CallsAreWellFormed, RunStages, RowType
  <2>2. GateHoldsUnlessRaced' /\ RunsOnlyReviewedSql'
    BY <1>1 DEF Create, GateHoldsUnlessRaced, RunsOnlyReviewedSql, RowType
  <2> QED  BY <2>1, <2>2 DEF GateParts
<1>2. ASSUME NEW a \in Actors, NEW t \in Transforms, NEW s \in Sqls, BeginUpdate(a, t, s)
      PROVE  GateParts'
  <2>0. actor'[a].pc = "update" /\ actor'[a].t = t
        /\ actor'[a].sawDraft = (row[t].status = "draft")
        /\ \A b \in Actors \ {a} : actor'[b] = actor[b]
    BY <1>2 DEF BeginUpdate, Idle, OpType
  <2>1. CallsRespectGate'
    BY <1>2, <2>0 DEF BeginUpdate, CallsRespectGate, RunStages
  <2>2. GateHoldsUnlessRaced' /\ RunsOnlyReviewedSql'
    BY <1>2 DEF BeginUpdate, GateHoldsUnlessRaced, RunsOnlyReviewedSql
  <2> QED  BY <2>1, <2>2 DEF GateParts
<1>3. ASSUME NEW a \in Actors, NEW t \in Transforms, ReadForRun(a, t)
      PROVE  GateParts'
  <2>0. actor'[a].pc = "begin" /\ actor'[a].t = t /\ actor'[a].sql = row[t].sql
        /\ \A b \in Actors \ {a} : actor'[b] = actor[b]
    BY <1>3 DEF ReadForRun, Idle, OpType
  <2>1. t \notin raced => row[t].sql \in vetted[t]
    BY <1>3 DEF ReadForRun, GateHoldsUnlessRaced
  <2>2. CallsRespectGate'
    BY <1>3, <2>0, <2>1 DEF ReadForRun, CallsRespectGate, RunStages
  <2>3. GateHoldsUnlessRaced' /\ RunsOnlyReviewedSql'
    BY <1>3 DEF ReadForRun, GateHoldsUnlessRaced, RunsOnlyReviewedSql
  <2> QED  BY <2>2, <2>3 DEF GateParts
<1>4. ASSUME NEW a \in Actors, FinishUpdate(a) PROVE GateParts'
  <2>0. /\ actor[a].pc = "update" /\ actor[a].t \in Transforms
        /\ actor'[a] = Idle /\ \A b \in Actors \ {a} : actor'[b] = actor[b]
    BY <1>4 DEF FinishUpdate, CallsAreWellFormed
  <2>1. \A t \in Transforms : row'[t].status = "approved" =>
           /\ row[t].status = "approved"
           /\ t = actor[a].t => actor[a].sawDraft
           /\ t # actor[a].t => row'[t] = row[t]
    BY <1>4, <2>0 DEF FinishUpdate, RowType, Exists, Live
  <2>2. \A t \in Transforms \ raced : row'[t].status = "approved" => t # actor[a].t
    BY <2>0, <2>1 DEF CallsRespectGate
  <2>3. vetted' = vetted /\ raced' = raced /\ run' = run
    BY <1>4 DEF FinishUpdate
  <2>4. CallsRespectGate'
    BY <2>0, <2>1, <2>3, IdleIsOp DEF CallsRespectGate, CallsAreWellFormed, RunStages
  <2>5. GateHoldsUnlessRaced' /\ RunsOnlyReviewedSql'
    BY <2>1, <2>2, <2>3 DEF GateHoldsUnlessRaced, RunsOnlyReviewedSql
  <2> QED  BY <2>4, <2>5 DEF GateParts
<1>5. ASSUME NEW a \in Actors, BeginRun(a) PROVE GateParts'
  <2>0. PICK r \in Runs :
          /\ run' = [run EXCEPT ![r] =
                [status |-> "running", t |-> actor[a].t, sql |-> actor[a].sql, done |-> 0]]
          /\ actor' = [actor EXCEPT ![a].pc = "validate", ![a].run = r]
    BY <1>5 DEF BeginRun
  <2>1. actor[a].pc = "begin" /\ (actor[a].t \notin raced => actor[a].sql \in vetted[actor[a].t])
    BY <1>5 DEF BeginRun, CallsRespectGate, RunStages
  <2>2. \A b \in Actors : actor'[b].t = actor[b].t /\ actor'[b].sql = actor[b].sql
                         /\ (actor'[b].pc = actor[b].pc \/ b = a)
                         /\ actor'[b].sawDraft = actor[b].sawDraft
    BY <2>0 DEF OpType
  <2>3. actor'[a].pc = "validate"
    BY <2>0 DEF OpType
  <2>4. row' = row /\ vetted' = vetted /\ raced' = raced
    BY <1>5 DEF BeginRun
  <2>5. CallsRespectGate'
    BY <2>1, <2>2, <2>3, <2>4 DEF CallsRespectGate, RunStages
  <2>6. GateHoldsUnlessRaced' /\ RunsOnlyReviewedSql'
    BY <2>0, <2>1, <2>4 DEF GateHoldsUnlessRaced, RunsOnlyReviewedSql
  <2> QED  BY <2>5, <2>6 DEF GateParts
<1>6. ASSUME NEW a \in Actors, Validate(a) PROVE GateParts'
  <2>1. PICK failed \in BOOLEAN :
          actor' = [actor EXCEPT ![a].pc = "statements", ![a].failed = failed]
    BY <1>6 DEF Validate
  <2>2. actor[a].pc \in RunStages /\ actor'[a].pc \in RunStages
        /\ actor'[a].t = actor[a].t /\ actor'[a].sql = actor[a].sql
        /\ \A b \in Actors \ {a} : actor'[b] = actor[b]
    BY <1>6, <2>1 DEF Validate, RunStages, OpType
  <2> QED  BY <1>6, <2>2, GateUndisturbed DEF Validate
<1>7. ASSUME NEW a \in Actors, RunStatement(a) PROVE GateParts'
  <2>1. actor[a].run \in Runs /\ run[actor[a].run].status # "none"
    BY <1>7 DEF RunStatement, Executable, CallsAreWellFormed, RunsAreWellFormed, NoRun, RunStages
  <2>2. \A r \in Runs : /\ run'[r].t = run[r].t /\ run'[r].sql = run[r].sql
                       /\ run'[r].status = run[r].status
    BY <1>7, <2>1 DEF RunStatement, RunType
  <2> QED  BY <1>7, <2>2, GateUndisturbed DEF RunStatement
<1>8. ASSUME NEW a \in Actors, FailStatement(a) PROVE GateParts'
  <2>1. actor[a].pc \in RunStages /\ actor'[a].pc \in RunStages
        /\ actor'[a].t = actor[a].t /\ actor'[a].sql = actor[a].sql
        /\ \A b \in Actors \ {a} : actor'[b] = actor[b]
    BY <1>8 DEF FailStatement, Executable, RunStages, OpType
  <2> QED  BY <1>8, <2>1, GateUndisturbed DEF FailStatement
<1>9. ASSUME NEW a \in Actors, RecordRun(a) PROVE GateParts'
  <2>1. actor[a].run \in Runs /\ run[actor[a].run].status # "none"
    BY <1>9 DEF RecordRun, Through, CallsAreWellFormed, RunsAreWellFormed, NoRun, RunStages
  <2>2. \A r \in Runs : /\ run'[r].t = run[r].t /\ run'[r].sql = run[r].sql
                       /\ run'[r].status # "none" => run[r].status # "none"
    BY <1>9, <2>1 DEF RecordRun, RunType
  <2>3. actor[a].pc \in RunStages /\ actor'[a].pc \in RunStages
        /\ actor'[a].t = actor[a].t /\ actor'[a].sql = actor[a].sql
        /\ \A b \in Actors \ {a} : actor'[b] = actor[b]
    BY <1>9 DEF RecordRun, Through, RunStages, OpType
  <2> QED  BY <1>9, <2>2, <2>3, GateUndisturbed DEF RecordRun
<1>10. ASSUME NEW a \in Actors, StampRun(a) PROVE GateParts'
  <2>1. actor[a].pc = "stamp" /\ actor[a].t \in Transforms
    BY <1>10 DEF StampRun, CallsAreWellFormed
  <2>2. \A t \in Transforms : row'[t].status = row[t].status /\ row'[t].sql = row[t].sql
    BY <1>10, <2>1 DEF StampRun, RowType
  <2>3. actor'[a] = Idle \/ ( /\ actor'[a].pc = "publish"
                             /\ actor'[a].t = actor[a].t /\ actor'[a].sql = actor[a].sql)
    BY <1>10 DEF StampRun, OpType
  <2>4. \A b \in Actors \ {a} : actor'[b] = actor[b]
    BY <1>10 DEF StampRun
  <2>5. "stamp" \in RunStages /\ "publish" \in RunStages
    BY DEF RunStages
  <2> QED  BY <1>10, <2>1, <2>2, <2>3, <2>4, <2>5, GateUndisturbed DEF StampRun
<1>11. ASSUME NEW a \in Actors, Publish(a) \/ ExportRaises(a) PROVE GateParts'
  <2>1. actor'[a] = Idle /\ \A b \in Actors \ {a} : actor'[b] = actor[b]
    BY <1>11 DEF Publish, ExportRaises
  <2> QED  BY <1>11, <2>1, GateUndisturbed DEF Publish, ExportRaises
<1>12. ASSUME NEW t \in Transforms, NEW s \in Sqls, Import(t, s) PROVE GateParts'
  <2>1. row'[t].status = "draft" /\ \A u \in Transforms \ {t} : row'[u] = row[u]
    BY <1>12 DEF Import, RowType
  <2>2. CallsRespectGate'
    BY <1>12, <2>1 DEF Import, CallsRespectGate, CallsAreWellFormed
  <2>3. GateHoldsUnlessRaced' /\ RunsOnlyReviewedSql'
    BY <1>12, <2>1 DEF Import, GateHoldsUnlessRaced, RunsOnlyReviewedSql
  <2> QED  BY <2>2, <2>3 DEF GateParts
<1>13. ASSUME NEW t \in Transforms, NEW action \in {"approve", "reject"}, Review(t, action)
       PROVE  GateParts'
  <2>1. /\ \A u \in Transforms \ {t} : row'[u] = row[u] /\ vetted'[u] = vetted[u]
        /\ row'[t].sql = row[t].sql
        /\ row'[t].status = "approved" => row[t].sql \in vetted'[t]
        /\ vetted[t] \subseteq vetted'[t]
        /\ raced \subseteq raced'
        /\ run' = run /\ actor' = actor
    BY <1>13 DEF Review, RowType, Status
  <2>2. ASSUME NEW a \in Actors, actor[a].pc = "update", actor[a].sawDraft,
               actor[a].t = t, t \notin raced'
        PROVE  row'[t].status # "approved"
    BY <1>13, <2>2 DEF Review, DraftEditOpen, Status, RowType
  <2>3. CallsRespectGate'
    BY <2>1, <2>2 DEF CallsRespectGate, CallsAreWellFormed, RunStages
  <2>4. GateHoldsUnlessRaced' /\ RunsOnlyReviewedSql'
    BY <2>1 DEF GateHoldsUnlessRaced, RunsOnlyReviewedSql, RunsAreWellFormed
  <2> QED  BY <2>3, <2>4 DEF GateParts
<1>14. ASSUME NEW t \in Transforms, Delete(t) PROVE GateParts'
  <2>1. row'[t].status = "deleted" /\ \A u \in Transforms \ {t} : row'[u] = row[u]
    BY <1>14 DEF Delete, NoRow
  <2>2. CallsRespectGate'
    BY <1>14, <2>1 DEF Delete, CallsRespectGate, CallsAreWellFormed
  <2>3. GateHoldsUnlessRaced' /\ RunsOnlyReviewedSql'
    BY <1>14, <2>1 DEF Delete, GateHoldsUnlessRaced, RunsOnlyReviewedSql
  <2> QED  BY <2>2, <2>3 DEF GateParts
<1>15. CASE Restart
  <2>1. \A b \in Actors : actor'[b] = Idle
    BY <1>15 DEF Restart
  <2>2. raced' = raced /\ run' = run
    BY <1>15 DEF Restart
  <2>3. CallsRespectGate'
    BY <2>1 DEF CallsRespectGate, Idle, RunStages
  <2>4. GateHoldsUnlessRaced'
    BY <1>15, <2>2, RestartEffect DEF GateHoldsUnlessRaced
  <2>5. RunsOnlyReviewedSql'
    BY <1>15, <2>2, RestartEffect DEF RunsOnlyReviewedSql, RunsAreWellFormed
  <2> QED  BY <2>3, <2>4, <2>5 DEF GateParts
<1>16. CASE UNCHANGED vars
  BY <1>16, GateUndisturbed DEF vars
<1> QED
  BY <1>1, <1>2, <1>3, <1>4, <1>5, <1>6, <1>7, <1>8, <1>9, <1>10, <1>11, <1>12,
     <1>13, <1>14, <1>15, <1>16, StepCases

\* Every reachable state, with any number of streams: calls and rows agree with
\* the gate.
LEMMA GatedAlways == Spec => []Gated
<1>1. Gated /\ [Next]_vars => Gated'
  BY ShapeStep, GatePartsStep DEF Gated, GateParts
<1> QED
  BY <1>1, GatedInit, PTL DEF Spec

\* An approved transform holds a text that an approval was given to, unless the
\* approval came while an edit that had read a draft was open: no other
\* interleaving of create, update, import, review, delete and execute defeats
\* the reset in update_transform.
THEOREM GateUnlessRaced == Spec => []GateHoldsUnlessRaced
<1>1. Gated => GateHoldsUnlessRaced
  BY DEF Gated
<1> QED
  BY <1>1, GatedAlways, PTL

\* execute_transform runs only texts that were approved for their transform, with
\* the same exception, although it works on a row read before its first write.
THEOREM ExecutionGated == Spec => []RunsOnlyReviewedSql
<1>1. Gated => RunsOnlyReviewedSql
  BY DEF Gated
<1> QED
  BY <1>1, GatedAlways, PTL

\* No step replaces the text of a row and leaves the row approved, unless the
\* transform was raced or the step is a bootstrap that rewrites the text in
\* place: the action form of the gate.
THEOREM NewTextIsUnapproved == Spec => NewTextNeedsApproval
<1>1. Gated /\ [Next]_vars =>
        [\A t \in Transforms \ raced :
            row'[t].sql # row[t].sql =>
                \/ row'[t].status # "approved"
                \/ Exists(t) /\ row'[t] = [row[t] EXCEPT !.sql = Rewritten[@]]]_vars
  <2> SUFFICES ASSUME Gated, [Next]_vars,
                      NEW u \in Transforms \ raced, row'[u].sql # row[u].sql
               PROVE  \/ row'[u].status # "approved"
                      \/ Exists(u) /\ row'[u] = [row[u] EXCEPT !.sql = Rewritten[@]]
    OBVIOUS
  <2> USE DEF Gated, Shape, TypeOK
  <2>1. ASSUME NEW a \in Actors, NEW t \in Transforms, NEW s \in Sqls, Create(a, t, s)
        PROVE  row'[u].status # "approved"
    BY <2>1 DEF Create
  <2>2. ASSUME NEW a \in Actors, FinishUpdate(a)
        PROVE  row'[u].status # "approved"
    <3>1. actor[a].t \in Transforms /\ actor[a].pc = "update"
      BY <2>2 DEF FinishUpdate, CallsAreWellFormed
    <3>2. /\ u = actor[a].t
          /\ row'[u].status = IF actor[a].sawDraft THEN row[u].status ELSE "draft"
      BY <2>2, <3>1 DEF FinishUpdate, RowType
    <3> QED
      BY <3>1, <3>2 DEF CallsRespectGate
  <2>3. ASSUME NEW a \in Actors, StampRun(a)
        PROVE  row'[u].status # "approved"
    BY <2>3 DEF StampRun, RowType, CallsAreWellFormed
  <2>4. ASSUME NEW t \in Transforms, NEW s \in Sqls, Import(t, s)
        PROVE  row'[u].status # "approved"
    BY <2>4 DEF Import, RowType
  <2>5. ASSUME NEW t \in Transforms, NEW action \in {"approve", "reject"}, Review(t, action)
        PROVE  row'[u].status # "approved"
    BY <2>5 DEF Review, RowType
  <2>6. ASSUME NEW t \in Transforms, Delete(t)
        PROVE  row'[u].status # "approved"
    BY <2>6 DEF Delete, NoRow
  <2>7. CASE Restart
    BY <2>7, RestartEffect
  <2> QED
    BY <2>1, <2>2, <2>3, <2>4, <2>5, <2>6, <2>7, StepCases
    DEF BeginUpdate, ReadForRun, BeginRun, Validate, RunStatement, FailStatement,
        RecordRun, Publish, ExportRaises, vars
<1> QED
  BY <1>1, GatedAlways, PTL DEF Spec, NewTextNeedsApproval

\* With no agent stream open nothing can come between the read and the write of an
\* edit: approved rows hold reviewed texts, without exception.
THEOREM GateOnRestAlone ==
    ASSUME StreamThreads = {}
    PROVE  Spec => []ApprovedSqlWasReviewed
<1> DEFINE Unraced == raced = {}
<1>1. Init => Unraced
  BY DEF Init
<1>2. Unraced /\ [Next]_vars => Unraced'
  <2> SUFFICES ASSUME Unraced, [Next]_vars PROVE Unraced'
    OBVIOUS
  <2>1. ASSUME NEW t \in Transforms, NEW action \in {"approve", "reject"}, Review(t, action)
        PROVE  Unraced'
    BY <2>1 DEF Review, DraftEditOpen, Free, Actors, Idle
  <2> QED
    BY <2>1, StepCases
    DEF Create, BeginUpdate, ReadForRun, FinishUpdate, BeginRun, Validate, RunStatement,
        FailStatement, RecordRun, StampRun, Publish, ExportRaises, Import, Delete, Restart, vars
<1>3. Gated /\ Unraced => ApprovedSqlWasReviewed
  BY DEF Gated, GateHoldsUnlessRaced, ApprovedSqlWasReviewed
<1> QED
  BY <1>1, <1>2, <1>3, GatedAlways, PTL DEF Spec

----------------------------------------------------------------------------
(***************************************************************************)
(* The run history.  The argument: between its INSERT and its outcome a    *)
(* run row belongs to one actor (CallsAreWellFormed), and the stage of     *)
(* that actor says how far the row is (CallsKeepJournal); a row without an *)
(* owner is finished or was cut off.                                       *)
(***************************************************************************)

Kept == Shape /\ CallsKeepJournal /\ RunningIsOwned /\ OutcomeIsTruthful

\* CallsKeepJournal for one actor, and RunningIsOwned for one row.
JournalOf(a) ==
    LET op == actor[a]  r == run[actor[a].run] IN
    /\ op.pc = "validate" => r.status = "running" /\ r.done = 0
    /\ op.pc = "statements" =>
          /\ r.status = "running"
          /\ r.done <= Stmts[op.sql]
          /\ op.sql \in BadSqls => op.failed /\ r.done = 0
    /\ op.pc = "stamp" => r.status = IF op.failed THEN "failed" ELSE "success"
    /\ op.pc = "publish" => r.status = "success"

Owned(r) ==
    \E a \in Actors :
        /\ actor[a].run = r
        /\ actor[a].pc \in {"validate", "statements"}
        /\ \A b \in Actors : actor[b].run = r => b = a

LEMMA KeptInit == Init => Kept
<1> SUFFICES ASSUME Init PROVE CallsKeepJournal /\ RunningIsOwned /\ OutcomeIsTruthful
  BY ShapeInit DEF Kept
<1>1. CallsKeepJournal
  BY DEF Init, CallsKeepJournal, Idle
<1>2. RunningIsOwned
  BY DEF Init, RunningIsOwned, NoRun
<1>3. OutcomeIsTruthful
  BY LifecycleAssumption DEF Init, OutcomeIsTruthful, NoRun, NoRow
<1> QED  BY <1>1, <1>2, <1>3

\* A call that owns no run row before or after the step changes no journal.
LEMMA JournalUndisturbed ==
    ASSUME Kept, run' = run, cut' = cut, announced' = announced, unheard' = unheard,
           \A b \in Actors :
              \/ actor'[b] = actor[b]
              \/ /\ actor[b].run = NONE /\ actor'[b].run = NONE
                 /\ actor'[b].pc \in {"idle", "update", "begin"},
           \A t \in Transforms : row'[t].lastRun \in {row[t].lastRun, NONE}
    PROVE  CallsKeepJournal' /\ RunningIsOwned' /\ OutcomeIsTruthful'
<1>1. CallsKeepJournal'
  <2> SUFFICES ASSUME NEW b \in Actors PROVE JournalOf(b)'
    BY DEF CallsKeepJournal, JournalOf
  <2>1. CASE actor'[b] = actor[b]
    BY <2>1 DEF Kept, CallsKeepJournal, JournalOf
  <2>2. CASE actor'[b].pc \in {"idle", "update", "begin"}
    BY <2>2 DEF JournalOf
  <2> QED  BY <2>1, <2>2
<1>2. RunningIsOwned'
  <2> SUFFICES ASSUME NEW r \in Runs \ cut, run[r].status = "running"
               PROVE  Owned(r)'
    BY DEF RunningIsOwned, Owned
  <2>1. PICK a \in Actors : /\ actor[a].run = r
                            /\ actor[a].pc \in {"validate", "statements"}
                            /\ \A b \in Actors : actor[b].run = r => b = a
    BY DEF Kept, RunningIsOwned
  <2>2. r # NONE
    BY LifecycleAssumption
  <2> QED  BY <2>1, <2>2 DEF Owned
<1>3. OutcomeIsTruthful'
  BY DEF Kept, OutcomeIsTruthful
<1> QED  BY <1>1, <1>2, <1>3

\* A step of one execution that touches no run row but its own leaves the others'
\* journals alone.
LEMMA OthersUndisturbed ==
    ASSUME Kept, NEW a \in Actors, NEW q \in Runs, cut' = cut,
           \A b \in Actors \ {a} : actor[b].run # q,
           \A b \in Actors \ {a} : actor'[b] = actor[b],
           actor[a].run \in {q, NONE}, actor'[a].run \in {q, NONE},
           \A r \in Runs \ {q} : run'[r] = run[r]
    PROVE  /\ \A b \in Actors \ {a} : JournalOf(b)'
           /\ \A r \in Runs \ cut : r # q /\ run'[r].status = "running" => Owned(r)'
<1>1. ASSUME NEW b \in Actors \ {a} PROVE JournalOf(b)'
  <2>1. CASE actor[b].pc \in RunStages \ {"begin"}
    <3>1. run'[actor[b].run] = run[actor[b].run]
      BY <2>1 DEF Kept, Shape, CallsAreWellFormed
    <3> QED  BY <3>1 DEF Kept, CallsKeepJournal, JournalOf
  <2>2. CASE actor[b].pc \notin RunStages \ {"begin"}
    BY <2>2 DEF JournalOf, RunStages
  <2> QED  BY <2>1, <2>2
<1>2. ASSUME NEW r \in Runs \ cut, r # q, run'[r].status = "running" PROVE Owned(r)'
  <2>1. PICK b \in Actors : /\ actor[b].run = r
                            /\ actor[b].pc \in {"validate", "statements"}
                            /\ \A c \in Actors : actor[c].run = r => c = b
    BY <1>2 DEF Kept, RunningIsOwned
  <2>2. r # NONE
    BY LifecycleAssumption
  <2>3. b # a
    BY <1>2, <2>1, <2>2
  <2> QED  BY <1>2, <2>1, <2>2, <2>3 DEF Owned
<1> QED  BY <1>1, <1>2

LEMMA KeptStep == Kept /\ [Next]_vars => Kept'
<1> SUFFICES ASSUME Kept, [Next]_vars PROVE Kept'
  OBVIOUS
<1> DEFINE P == CallsKeepJournal' /\ RunningIsOwned' /\ OutcomeIsTruthful'
<1> SUFFICES P
  BY ShapeStep DEF Kept
<1> HIDE DEF P
<1> USE LifecycleAssumption DEF Shape, TypeOK
<1>1. ASSUME NEW a \in Actors, NEW t \in Transforms, NEW s \in Sqls, Create(a, t, s)
      PROVE  P
  <2>1. \A u \in Transforms : row'[u].lastRun \in {row[u].lastRun, NONE}
    BY <1>1 DEF Create, Kept, RowType
  <2> QED  BY <1>1, <2>1, JournalUndisturbed DEF Create, P
<1>2. ASSUME NEW a \in Actors, NEW t \in Transforms, NEW s \in Sqls, BeginUpdate(a, t, s)
      PROVE  P
  <2>1. /\ actor[a].run = NONE /\ actor'[a].run = NONE /\ actor'[a].pc = "update"
        /\ \A b \in Actors \ {a} : actor'[b] = actor[b]
    BY <1>2 DEF BeginUpdate, Free, Idle, OpType, Kept
  <2> QED  BY <1>2, <2>1, JournalUndisturbed DEF BeginUpdate, P
<1>3. ASSUME NEW a \in Actors, NEW t \in Transforms, ReadForRun(a, t) PROVE P
  <2>1. /\ actor[a].run = NONE /\ actor'[a].run = NONE /\ actor'[a].pc = "begin"
        /\ \A b \in Actors \ {a} : actor'[b] = actor[b]
    BY <1>3 DEF ReadForRun, Free, Idle, OpType, Kept
  <2> QED  BY <1>3, <2>1, JournalUndisturbed DEF ReadForRun, P
<1>4. ASSUME NEW a \in Actors, FinishUpdate(a) PROVE P
  <2>1. /\ actor[a].run = NONE /\ actor'[a] = Idle
        /\ \A b \in Actors \ {a} : actor'[b] = actor[b]
    BY <1>4 DEF FinishUpdate, CallsAreWellFormed, Kept
  <2>2. \A u \in Transforms : row'[u].lastRun = row[u].lastRun
    BY <1>4 DEF FinishUpdate, RowType, Kept
  <2> QED  BY <1>4, <2>1, <2>2, IdleIsOp, JournalUndisturbed DEF FinishUpdate, P
<1>5. ASSUME NEW a \in Actors, BeginRun(a) PROVE P
  <2>0. PICK q \in Runs :
          /\ run[q].status = "none"
          /\ run' = [run EXCEPT ![q] =
                [status |-> "running", t |-> actor[a].t, sql |-> actor[a].sql, done |-> 0]]
          /\ actor' = [actor EXCEPT ![a].pc = "validate", ![a].run = q]
    BY <1>5 DEF BeginRun
  <2>1. /\ actor[a].run = NONE /\ actor'[a].run = q /\ actor'[a].pc = "validate"
        /\ \A b \in Actors \ {a} : actor'[b] = actor[b]
    BY <1>5, <2>0 DEF BeginRun, CallsAreWellFormed, OpType, Kept
  <2>2. \A b \in Actors : actor[b].run # q
    BY <2>0 DEF CallsAreWellFormed, RunsAreWellFormed, NoRun, OpType, RunStages, Kept
  <2>3. /\ run'[q].status = "running" /\ run'[q].done = 0
        /\ \A r \in Runs \ {q} : run'[r] = run[r]
    BY <2>0 DEF Kept
  <2>4. row' = row /\ announced' = announced /\ unheard' = unheard /\ cut' = cut
    BY <1>5 DEF BeginRun
  <2>5. /\ \A b \in Actors \ {a} : JournalOf(b)'
        /\ \A r \in Runs \ cut : r # q /\ run'[r].status = "running" => Owned(r)'
    BY <2>1, <2>2, <2>3, <2>4, OthersUndisturbed
  <2>6. JournalOf(a)'
    BY <1>5, <2>1, <2>3 DEF JournalOf, BeginRun
  <2>7. Owned(q)'
    BY <2>1, <2>2 DEF Owned
  <2>8. OutcomeIsTruthful'
    <3>1. \A t \in Transforms : row[t].lastRun # NONE => row[t].lastRun \in Runs \ {q}
      BY <2>0 DEF Kept, OutcomeIsTruthful, RowType
    <3>2. announced \cup unheard \subseteq Runs \ {q}
      BY <2>0 DEF Kept, OutcomeIsTruthful
    <3> QED  BY <2>3, <2>4, <3>1, <3>2 DEF Kept, OutcomeIsTruthful
  <2> QED
    BY <2>4, <2>5, <2>6, <2>7, <2>8
    DEF P, CallsKeepJournal, JournalOf, RunningIsOwned, Owned
<1>6. ASSUME NEW a \in Actors, Validate(a) PROVE P
  <2>0. PICK failed \in BOOLEAN :
          /\ actor[a].sql \in BadSqls => failed
          /\ actor' = [actor EXCEPT ![a].pc = "statements", ![a].failed = failed]
    BY <1>6 DEF Validate
  <2> DEFINE q == actor[a].run
  <2>1. /\ actor[a].pc = "validate" /\ q \in Runs
        /\ \A b \in Actors \ {a} : actor[b].run # q
    BY <1>6 DEF Validate, CallsAreWellFormed, RunStages, Kept
  <2>2. /\ actor'[a].run = q /\ actor'[a].pc = "statements"
        /\ actor'[a].sql = actor[a].sql /\ actor'[a].failed = failed
        /\ \A b \in Actors \ {a} : actor'[b] = actor[b]
    BY <2>0 DEF OpType, Kept
  <2>3. row' = row /\ run' = run /\ announced' = announced /\ unheard' = unheard /\ cut' = cut
    BY <1>6 DEF Validate
  <2>4. /\ \A b \in Actors \ {a} : JournalOf(b)'
        /\ \A r \in Runs \ cut : r # q /\ run'[r].status = "running" => Owned(r)'
    BY <2>1, <2>2, <2>3, OthersUndisturbed
  <2>5. run[q].status = "running" /\ run[q].done = 0
    BY <2>1 DEF Kept, CallsKeepJournal
  <2>6. actor[a].sql \in Sqls
    BY <2>1 DEF Kept, CallsAreWellFormed
  <2>7. JournalOf(a)'
    BY <2>0, <2>2, <2>3, <2>5, <2>6 DEF JournalOf
  <2>8. Owned(q)'
    BY <2>1, <2>2 DEF Owned
  <2>9. OutcomeIsTruthful'
    BY <2>3 DEF Kept, OutcomeIsTruthful
  <2>10. CallsKeepJournal'
    BY <2>4, <2>7 DEF CallsKeepJournal, JournalOf
  <2>11. RunningIsOwned'
    <3> SUFFICES ASSUME NEW r \in Runs \ cut', run'[r].status = "running"
                 PROVE  Owned(r)'
      BY DEF RunningIsOwned, Owned
    <3>1. CASE r = q
      BY <2>2, <2>8, <3>1
    <3>2. CASE r # q
      BY <2>3, <2>4, <3>2
    <3> QED  BY <3>1, <3>2
  <2> QED
    BY <2>9, <2>10, <2>11 DEF P
<1>7. ASSUME NEW a \in Actors, RunStatement(a) PROVE P
  <2> DEFINE q == actor[a].run
  <2>1. /\ actor[a].pc = "statements" /\ q \in Runs /\ ~actor[a].failed
        /\ actor[a].sql \in Sqls /\ run[q].sql = actor[a].sql
        /\ \A b \in Actors \ {a} : actor[b].run # q
    BY <1>7 DEF RunStatement, Executable, CallsAreWellFormed, RunStages, Kept
  <2>2. /\ run'[q].status = run[q].status /\ run'[q].done = run[q].done + 1
        /\ run'[q].t = run[q].t /\ run'[q].sql = run[q].sql
        /\ \A r \in Runs \ {q} : run'[r] = run[r]
    BY <1>7, <2>1 DEF RunStatement, RunType, Kept
  <2>3. row' = row /\ actor' = actor /\ announced' = announced /\ unheard' = unheard /\ cut' = cut
    BY <1>7 DEF RunStatement
  <2>4. /\ \A b \in Actors \ {a} : JournalOf(b)'
        /\ \A r \in Runs \ cut : r # q /\ run'[r].status = "running" => Owned(r)'
    BY <2>1, <2>2, <2>3, OthersUndisturbed
  <2>5. run[q].status = "running" /\ actor[a].sql \notin BadSqls
    BY <2>1 DEF Kept, CallsKeepJournal
  <2>6. run[q].done \in Nat /\ Stmts[actor[a].sql] \in Nat /\ run[q].done < Stmts[actor[a].sql]
    BY <1>7, <2>1 DEF RunStatement, Executable, RunType, Kept
  <2>7. run[q].done + 1 <= Stmts[actor[a].sql]
    BY <2>6
  <2>8. JournalOf(a)'
    BY <2>1, <2>2, <2>3, <2>5, <2>7 DEF JournalOf
  <2>9. Owned(q)'
    BY <2>1, <2>3 DEF Owned
  <2>10. OutcomeIsTruthful'
    <3>1. \A t \in Transforms : row[t].lastRun # NONE => row[t].lastRun \in Runs
      BY DEF Kept, RowType
    <3>2. announced \cup unheard \subseteq {r \in Runs : run'[r].status = "success"}
      BY <2>1, <2>2, <2>5 DEF Kept, OutcomeIsTruthful
    <3>3. \A r \in Runs :
            /\ run'[r].status = "success" =>
                  run'[r].sql \notin BadSqls /\ run'[r].done = Stmts[run'[r].sql]
            /\ run'[r].sql \in BadSqls => run'[r].done = 0
      BY <2>1, <2>2, <2>5 DEF Kept, OutcomeIsTruthful
    <3>4. \A r \in Runs : run'[r].t = run[r].t /\ run'[r].status = run[r].status
      BY <2>1, <2>2
    <3> QED  BY <2>3, <3>1, <3>2, <3>3, <3>4 DEF Kept, OutcomeIsTruthful
  <2> QED
    BY <2>3, <2>4, <2>8, <2>9, <2>10
    DEF P, CallsKeepJournal, JournalOf, RunningIsOwned, Owned
<1>8. ASSUME NEW a \in Actors, FailStatement(a) PROVE P
  <2> DEFINE q == actor[a].run
  <2>1. /\ actor[a].pc = "statements" /\ q \in Runs
        /\ \A b \in Actors \ {a} : actor[b].run # q
    BY <1>8 DEF FailStatement, Executable, CallsAreWellFormed, RunStages, Kept
  <2>2. /\ actor'[a].run = q /\ actor'[a].pc = "statements"
        /\ actor'[a].sql = actor[a].sql /\ actor'[a].failed = TRUE
        /\ \A b \in Actors \ {a} : actor'[b] = actor[b]
    BY <1>8, <2>1 DEF FailStatement, OpType, Kept
  <2>3. row' = row /\ run' = run /\ announced' = announced /\ unheard' = unheard /\ cut' = cut
    BY <1>8 DEF FailStatement
  <2>4. /\ \A b \in Actors \ {a} : JournalOf(b)'
        /\ \A r \in Runs \ cut : r # q /\ run'[r].status = "running" => Owned(r)'
    BY <2>1, <2>2, <2>3, OthersUndisturbed
  <2>5. JournalOf(a)
    BY DEF Kept, CallsKeepJournal, JournalOf
  <2>6. JournalOf(a)'
    BY <2>1, <2>2, <2>3, <2>5 DEF JournalOf
  <2>7. Owned(q)'
    BY <2>1, <2>2 DEF Owned
  <2>8. OutcomeIsTruthful'
    BY <2>3 DEF Kept, OutcomeIsTruthful
  <2>9. CallsKeepJournal'
    BY <2>4, <2>6 DEF CallsKeepJournal, JournalOf
  <2>10. RunningIsOwned'
    <3> SUFFICES ASSUME NEW r \in Runs \ cut', run'[r].status = "running"
                 PROVE  Owned(r)'
      BY DEF RunningIsOwned, Owned
    <3>1. CASE r = q
      BY <2>2, <2>7, <3>1
    <3>2. CASE r # q
      BY <2>3, <2>4, <3>2
    <3> QED  BY <3>1, <3>2
  <2> QED
    BY <2>8, <2>9, <2>10 DEF P
<1>9. ASSUME NEW a \in Actors, RecordRun(a) PROVE P
  <2> DEFINE q == actor[a].run
  <2>1. /\ actor[a].pc = "statements" /\ q \in Runs
        /\ run[q].sql = actor[a].sql
        /\ \A b \in Actors \ {a} : actor[b].run # q
    BY <1>9 DEF RecordRun, Through, CallsAreWellFormed, RunStages, Kept
  <2>2. /\ run'[q].status = (IF actor[a].failed THEN "failed" ELSE "success")
        /\ run'[q].done = run[q].done
        /\ run'[q].t = run[q].t /\ run'[q].sql = run[q].sql
        /\ \A r \in Runs \ {q} : run'[r] = run[r]
    BY <1>9, <2>1 DEF RecordRun, RunType, Kept
  <2>3. /\ actor'[a].run = q /\ actor'[a].pc = "stamp" /\ actor'[a].failed = actor[a].failed
        /\ \A b \in Actors \ {a} : actor'[b] = actor[b]
    BY <1>9 DEF RecordRun, OpType, Kept
  <2>4. row' = row /\ announced' = announced /\ unheard' = unheard /\ cut' = cut
    BY <1>9 DEF RecordRun
  <2>5. /\ \A b \in Actors \ {a} : JournalOf(b)'
        /\ \A r \in Runs \ cut : r # q /\ run'[r].status = "running" => Owned(r)'
    BY <2>1, <2>2, <2>3, <2>4, OthersUndisturbed
  <2>6. JournalOf(a)'
    BY <2>2, <2>3 DEF JournalOf
  <2>7. /\ run[q].status = "running"
        /\ actor[a].sql \in BadSqls => actor[a].failed /\ run[q].done = 0
        /\ ~actor[a].failed => run[q].done = Stmts[actor[a].sql]
    BY <1>9, <2>1 DEF RecordRun, Through, Kept, CallsKeepJournal
  <2>8. OutcomeIsTruthful'
    <3>1. \A t \in Transforms : row[t].lastRun # NONE => row[t].lastRun \in Runs \ {q}
      BY <2>7 DEF Kept, OutcomeIsTruthful, RowType
    <3>2. announced \cup unheard \subseteq Runs \ {q}
      BY <2>7 DEF Kept, OutcomeIsTruthful
    <3> QED  BY <2>1, <2>2, <2>4, <2>7, <3>1, <3>2 DEF Kept, OutcomeIsTruthful
  <2> QED
    BY <2>2, <2>4, <2>5, <2>6, <2>8
    DEF P, CallsKeepJournal, JournalOf, RunningIsOwned, Owned
<1>10. ASSUME NEW a \in Actors, StampRun(a) PROVE P
  <2> DEFINE q == actor[a].run
  <2>1. /\ actor[a].pc = "stamp" /\ q \in Runs /\ actor[a].t \in Transforms
        /\ run[q].t = actor[a].t
        /\ \A b \in Actors \ {a} : actor[b].run # q
    BY <1>10 DEF StampRun, CallsAreWellFormed, RunStages, Kept
  <2>2. run[q].status = IF actor[a].failed THEN "failed" ELSE "success"
    BY <2>1 DEF Kept, CallsKeepJournal
  <2>3. /\ \/ actor'[a] = Idle
           \/ /\ ~actor[a].failed /\ actor'[a].run = q /\ actor'[a].pc = "publish"
        /\ \A b \in Actors \ {a} : actor'[b] = actor[b]
    BY <1>10 DEF StampRun, OpType, Kept
  <2>4. run' = run /\ announced' = announced /\ unheard' = unheard /\ cut' = cut
    BY <1>10 DEF StampRun
  <2>5. /\ \A b \in Actors \ {a} : JournalOf(b)'
        /\ \A r \in Runs \ cut : r # q /\ run'[r].status = "running" => Owned(r)'
    BY <2>1, <2>3, <2>4, IdleIsOp, OthersUndisturbed
  <2>6. JournalOf(a)'
    BY <2>2, <2>3, <2>4, IdleIsOp DEF JournalOf
  <2>7. \A t \in Transforms :
           row'[t].lastRun = row[t].lastRun \/ (t = actor[a].t /\ row'[t].lastRun = q)
    BY <1>10, <2>1 DEF StampRun, RowType, Kept
  <2>8. OutcomeIsTruthful'
    BY <2>1, <2>2, <2>4, <2>7 DEF Kept, OutcomeIsTruthful
  <2> QED
    BY <2>2, <2>4, <2>5, <2>6, <2>8
    DEF P, CallsKeepJournal, JournalOf, RunningIsOwned, Owned
<1>11. ASSUME NEW a \in Actors, Publish(a) \/ ExportRaises(a) PROVE P
  <2> DEFINE q == actor[a].run
  <2>1. /\ actor[a].pc = "publish" /\ q \in Runs
        /\ \A b \in Actors \ {a} : actor[b].run # q
    BY <1>11 DEF Publish, ExportRaises, CallsAreWellFormed, RunStages, Kept
  <2>2. run[q].status = "success"
    BY <2>1 DEF Kept, CallsKeepJournal
  <2>3. actor'[a] = Idle /\ \A b \in Actors \ {a} : actor'[b] = actor[b]
    BY <1>11 DEF Publish, ExportRaises, Kept
  <2>4. /\ row' = row /\ run' = run /\ cut' = cut
        /\ announced' \cup unheard' = announced \cup unheard \cup {q}
    BY <1>11 DEF Publish, ExportRaises
  <2>5. /\ \A b \in Actors \ {a} : JournalOf(b)'
        /\ \A r \in Runs \ cut : r # q /\ run'[r].status = "running" => Owned(r)'
    BY <2>1, <2>3, <2>4, IdleIsOp, OthersUndisturbed
  <2>6. JournalOf(a)'
    BY <2>3, IdleIsOp DEF JournalOf
  <2>7. OutcomeIsTruthful'
    BY <2>1, <2>2, <2>4 DEF Kept, OutcomeIsTruthful
  <2> QED
    BY <2>2, <2>4, <2>5, <2>6, <2>7
    DEF P, CallsKeepJournal, JournalOf, RunningIsOwned, Owned
<1>12. ASSUME NEW t \in Transforms, NEW s \in Sqls, Import(t, s) PROVE P
  <2>1. \A u \in Transforms : row'[u].lastRun = row[u].lastRun
    BY <1>12 DEF Import, RowType, Kept
  <2> QED  BY <1>12, <2>1, JournalUndisturbed DEF Import, P
<1>13. ASSUME NEW t \in Transforms, NEW action \in {"approve", "reject"}, Review(t, action)
       PROVE  P
  <2>1. \A u \in Transforms : row'[u].lastRun = row[u].lastRun
    BY <1>13 DEF Review, RowType, Kept
  <2> QED  BY <1>13, <2>1, JournalUndisturbed DEF Review, P
<1>14. ASSUME NEW t \in Transforms, Delete(t) PROVE P
  <2>1. \A u \in Transforms : row'[u].lastRun \in {row[u].lastRun, NONE}
    BY <1>14 DEF Delete, NoRow, RowType, Kept
  <2> QED  BY <1>14, <2>1, JournalUndisturbed DEF Delete, P
<1>15. CASE Restart
  <2>1. \A b \in Actors : actor'[b] = Idle
    BY <1>15 DEF Restart
  <2>2. run' = run /\ announced' = announced /\ unheard' = unheard
    BY <1>15 DEF Restart
  <2>3. CallsKeepJournal'
    BY <2>1, IdleIsOp DEF CallsKeepJournal
  <2>4. RunningIsOwned'
    <3>1. \A r \in Runs \ cut' : r \notin cut /\ \A a \in Actors : actor[a].run # r
      BY <1>15 DEF Restart
    <3> QED  BY <2>2, <3>1 DEF Kept, RunningIsOwned
  <2>5. ASSUME NEW t \in Transforms PROVE row'[t].lastRun = row[t].lastRun
    <3>1. \/ row'[t] = row[t]
          \/ row'[t] = [row[t] EXCEPT !.sql = Rewritten[@]]
      BY <1>15, RestartEffect DEF Kept
    <3> QED  BY <3>1 DEF Kept, RowType
  <2>6. OutcomeIsTruthful'
    BY <2>2, <2>5 DEF Kept, OutcomeIsTruthful
  <2> QED  BY <2>3, <2>4, <2>6 DEF P
<1>16. CASE UNCHANGED vars
  BY <1>16, JournalUndisturbed DEF vars, P
<1> QED
  BY <1>1, <1>2, <1>3, <1>4, <1>5, <1>6, <1>7, <1>8, <1>9, <1>10, <1>11, <1>12,
     <1>13, <1>14, <1>15, <1>16, StepCases

LEMMA KeptAlways == Spec => []Kept
BY KeptInit, KeptStep, PTL DEF Spec

\* A run row that reads 'running' is being executed by exactly one call, unless
\* its process died: for any number of streams, none of execute_transform's error
\* paths leaves such a row behind.
THEOREM RunningOwned == Spec => []RunningIsOwned
<1>1. Kept => RunningIsOwned
  BY DEF Kept
<1> QED
  BY <1>1, KeptAlways, PTL

\* The outcome recorded in a run row is what execute_transform did to the data,
\* only successes are announced (or fail to be), and last_run_at is of a finished run of the
\* transform.
THEOREM OutcomesTruthful == Spec => []OutcomeIsTruthful
<1>1. Kept => OutcomeIsTruthful
  BY DEF Kept
<1> QED
  BY <1>1, KeptAlways, PTL

\* No code path revisits a run row that is finished or whose process died, and
\* none changes what an inserted row was about.
THEOREM HistoryFinal == Spec => HistoryIsFinal
<1> DEFINE Final(r) ==
        /\ run[r].status # "none" => run'[r].t = run[r].t /\ run'[r].sql = run[r].sql
        /\ run[r].status \in {"success", "failed"} => run'[r] = run[r]
        /\ r \in cut => run'[r] = run[r]
<1>1. Kept /\ [Next]_vars => [\A r \in Runs : Final(r)]_vars
  <2> SUFFICES ASSUME Kept, [Next]_vars PROVE \A r \in Runs : Final(r)
    OBVIOUS
  <2> USE DEF Kept, Shape, TypeOK
  <2>1. ASSUME NEW a \in Actors, BeginRun(a) PROVE \A r \in Runs : Final(r)
    BY <2>1 DEF BeginRun, RunsAreWellFormed
  <2>2. ASSUME NEW a \in Actors, actor[a].pc = "statements"
        PROVE  /\ actor[a].run \in Runs \ cut
               /\ run[actor[a].run].status = "running"
    BY <2>2 DEF CallsAreWellFormed, CallsKeepJournal, RunStages
  <2>3. ASSUME NEW a \in Actors, RunStatement(a) PROVE \A r \in Runs : Final(r)
    <3>1. actor[a].pc = "statements"
      BY <2>3 DEF RunStatement, Executable
    <3> QED
      BY <2>2, <2>3, <3>1 DEF RunStatement, RunType
  <2>4. ASSUME NEW a \in Actors, RecordRun(a) PROVE \A r \in Runs : Final(r)
    <3>1. actor[a].pc = "statements"
      BY <2>4 DEF RecordRun, Through
    <3> QED
      BY <2>2, <2>4, <3>1 DEF RecordRun, RunType
  <2> QED
    BY <2>1, <2>3, <2>4, StepCases
    DEF Create, BeginUpdate, ReadForRun, FinishUpdate, Validate, FailStatement,
        StampRun, Publish, ExportRaises, Import, Review, Delete, Restart, vars
<1> QED
  BY <1>1, KeptAlways, PTL DEF Spec, HistoryIsFinal

----------------------------------------------------------------------------
(***************************************************************************)
(* The REST API alone implements the approval gate.  A run starts from a   *)
(* row that execute_transform read two statements earlier; with no stream  *)
(* open nothing can come between.                                          *)
(***************************************************************************)

\* What an execution that has not inserted its run row yet has read still holds.
ReadIsCurrent ==
    \A a \in Actors :
        actor[a].pc = "begin" =>
            row[actor[a].t].status = "approved" /\ row[actor[a].t].sql = actor[a].sql

Alone == Gated /\ raced = {} /\ ReadIsCurrent

Texts == [t \in Transforms |-> row[t].sql]
Cleared == [t \in Transforms |-> row[t].status = "approved"]
Started == {<<run[r].t, run[r].sql>> : r \in {q \in Runs : run[q].status # "none"}}

LEMMA AloneInit == Init => Alone
<1> SUFFICES ASSUME Init PROVE raced = {} /\ ReadIsCurrent
  BY GatedInit DEF Alone
<1> QED
  BY DEF Init, ReadIsCurrent, Idle

LEMMA AloneStep ==
    ASSUME StreamThreads = {}, Alone, [Next]_vars PROVE Alone'
<1>1. Gated'
  BY ShapeStep, GatePartsStep DEF Alone, Gated, GateParts
<1> USE DEF Alone, Gated, Shape, TypeOK
<1>2. raced' = {}
  <2>1. ASSUME NEW t \in Transforms, NEW action \in {"approve", "reject"}, Review(t, action)
        PROVE  raced' = {}
    BY <2>1 DEF Review, DraftEditOpen, Free, Actors, Idle
  <2> QED
    BY <2>1, StepCases
    DEF Create, BeginUpdate, ReadForRun, FinishUpdate, BeginRun, Validate, RunStatement,
        FailStatement, RecordRun, StampRun, Publish, ExportRaises, Import, Delete, Restart, vars
<1>3. ReadIsCurrent'
  <2>0. \A a, b \in Actors : a = b
    BY DEF Actors
  <2>1. ASSUME NEW a \in Actors, actor[a] = Idle, actor' = actor PROVE ReadIsCurrent'
    BY <2>0, <2>1 DEF ReadIsCurrent, Idle
  <2>2. ASSUME NEW a \in Actors, actor'[a].pc # "begin" PROVE ReadIsCurrent'
    BY <2>0, <2>2 DEF ReadIsCurrent
  <2>3. ASSUME NEW a \in Actors, NEW t \in Transforms, ReadForRun(a, t)
        PROVE  ReadIsCurrent'
    <3>1. /\ actor'[a].t = t /\ actor'[a].sql = row[t].sql
          /\ row' = row /\ row[t].status = "approved"
      BY <2>3 DEF ReadForRun, Idle
    <3> QED  BY <2>0, <3>1 DEF ReadIsCurrent
  <2>4. ASSUME NEW a \in Actors, NEW t \in Transforms, NEW s \in Sqls,
               Create(a, t, s) \/ BeginUpdate(a, t, s)
        PROVE  ReadIsCurrent'
    BY <2>1, <2>2, <2>4 DEF Create, BeginUpdate, Free, Idle
  <2>5. ASSUME NEW a \in Actors,
               \/ FinishUpdate(a) \/ Publish(a) \/ ExportRaises(a) \/ StampRun(a) \/ Validate(a)
               \/ FailStatement(a) \/ RecordRun(a) \/ BeginRun(a) \/ RunStatement(a)
        PROVE  ReadIsCurrent'
    <3>1. actor'[a].pc # "begin"
      BY <2>5
      DEF FinishUpdate, Publish, ExportRaises, StampRun, Validate, FailStatement, RecordRun, BeginRun,
          RunStatement, Executable, Through, Idle, OpType
    <3> QED  BY <2>2, <3>1
  <2>6. ASSUME NEW t \in Transforms,
               \/ \E s \in Sqls : Import(t, s)
               \/ \E action \in {"approve", "reject"} : Review(t, action)
               \/ Delete(t)
        PROVE  ReadIsCurrent'
    BY <2>1, <2>6 DEF Import, Review, Delete, Free, Actors
  <2>7. CASE Restart
    BY <2>7 DEF Restart, ReadIsCurrent, Idle
  <2>8. CASE UNCHANGED vars
    BY <2>8 DEF vars, ReadIsCurrent
  <2> QED
    BY <2>3, <2>4, <2>5, <2>6, <2>7, <2>8, StepCases
<1> QED
  BY <1>1, <1>2, <1>3

\* A step that leaves texts and statuses alone and starts no run is a stutter.
LEMMA Stutters ==
    ASSUME \A t \in Transforms : row'[t].sql = row[t].sql
                              /\ (row'[t].status = "approved") = (row[t].status = "approved"),
           \A r \in Runs : /\ run'[r].t = run[r].t /\ run'[r].sql = run[r].sql
                           /\ (run'[r].status = "none") = (run[r].status = "none")
    PROVE  Texts' = Texts /\ Cleared' = Cleared /\ Started' = Started
BY DEF Texts, Cleared, Started

LEMMA StepIsGateStep ==
    ASSUME Alone, [Next]_vars
    PROVE  \/ Gate!GateNext
           \/ Texts' = Texts /\ Cleared' = Cleared /\ Started' = Started
<1> DEFINE P == \/ Gate!GateNext
                \/ Texts' = Texts /\ Cleared' = Cleared /\ Started' = Started
<1> SUFFICES P
  OBVIOUS
<1> USE LifecycleAssumption DEF Alone, Gated, Shape, TypeOK
<1>a. ASSUME NEW t \in Transforms, NEW s \in Sqls \cup {NONE},
             \A u \in Transforms \ {t} : row'[u] = row[u],
             row'[t].sql = s, row'[t].status # "approved", run' = run
      PROVE  P
  <2>1. Texts' = [Texts EXCEPT ![t] = s]
    BY <1>a DEF Texts
  <2>2. Cleared' = [Cleared EXCEPT ![t] = FALSE]
    BY <1>a DEF Cleared
  <2>3. Started' = Started
    BY <1>a DEF Started
  <2>4. Gate!Change(t)
    BY <2>1, <2>2, <2>3 DEF Gate!Change, Texts, Cleared, Started
  <2> QED  BY <2>4 DEF Gate!GateNext
<1>1. ASSUME NEW a \in Actors, NEW t \in Transforms, NEW s \in Sqls, Create(a, t, s)
      PROVE  P
  BY <1>1, <1>a DEF Create
<1>2. ASSUME NEW a \in Actors, FinishUpdate(a) PROVE P
  <2>1. actor[a].t \in Transforms /\ actor[a].sql \in Sqls /\ actor[a].pc = "update"
    BY <1>2 DEF FinishUpdate, CallsAreWellFormed
  <2>2. CASE Exists(actor[a].t)
    <3>1. /\ \A u \in Transforms \ {actor[a].t} : row'[u] = row[u]
          /\ row'[actor[a].t].sql = actor[a].sql
          /\ row'[actor[a].t].status =
                IF actor[a].sawDraft THEN row[actor[a].t].status ELSE "draft"
          /\ run' = run
      BY <1>2, <2>1, <2>2 DEF FinishUpdate, RowType
    <3>2. row'[actor[a].t].status # "approved"
      BY <2>1, <3>1 DEF CallsRespectGate
    <3> QED  BY <1>a, <2>1, <3>1, <3>2
  <2>3. CASE ~Exists(actor[a].t)
    BY <1>2, <2>3, Stutters DEF FinishUpdate
  <2> QED  BY <2>2, <2>3
<1>3. ASSUME NEW a \in Actors, BeginRun(a) PROVE P
  <2>1. PICK r \in Runs :
          /\ run[r].status = "none"
          /\ run' = [run EXCEPT ![r] =
                [status |-> "running", t |-> actor[a].t, sql |-> actor[a].sql, done |-> 0]]
    BY <1>3 DEF BeginRun
  <2>2. /\ actor[a].t \in Transforms /\ row' = row
        /\ row[actor[a].t].status = "approved" /\ row[actor[a].t].sql = actor[a].sql
    BY <1>3 DEF BeginRun, CallsAreWellFormed, ReadIsCurrent
  <2>3. Started' = Started \cup {<<actor[a].t, actor[a].sql>>}
    <3>1. {q \in Runs : run'[q].status # "none"} = {q \in Runs : run[q].status # "none"} \cup {r}
      BY <2>1
    <3>2. \A q \in Runs \ {r} : run'[q] = run[q]
      BY <2>1
    <3>3. run'[r].t = actor[a].t /\ run'[r].sql = actor[a].sql
      BY <2>1
    <3> QED  BY <2>1, <3>1, <3>2, <3>3 DEF Started
  <2>4. PICK t \in Transforms : t = actor[a].t
    BY <2>2
  <2>5. Gate!Run(t)
    BY <2>2, <2>3, <2>4 DEF Gate!Run, Started
  <2> QED  BY <2>5 DEF Gate!GateNext
<1>4. ASSUME NEW a \in Actors, RunStatement(a) \/ RecordRun(a) PROVE P
  <2>1. /\ actor[a].run \in Runs /\ run[actor[a].run].status # "none" /\ row' = row
    BY <1>4 DEF RunStatement, Executable, RecordRun, Through, CallsAreWellFormed,
                RunsAreWellFormed, NoRun, RunStages
  <2>2. \A r \in Runs : /\ run'[r].t = run[r].t /\ run'[r].sql = run[r].sql
                       /\ (run'[r].status = "none") = (run[r].status = "none")
    <3>1. \A r \in Runs : run[r] \in RunType
      OBVIOUS
    <3>2. CASE RunStatement(a)
      BY <2>1, <3>1, <3>2 DEF RunStatement, RunType
    <3>3. CASE RecordRun(a)
      BY <2>1, <3>1, <3>3 DEF RecordRun, RunType
    <3> QED  BY <1>4, <3>2, <3>3
  <2> QED  BY <2>1, <2>2, Stutters
<1>5. ASSUME NEW a \in Actors, StampRun(a) PROVE P
  <2>1. \A t \in Transforms : row'[t].status = row[t].status /\ row'[t].sql = row[t].sql
    BY <1>5 DEF StampRun, CallsAreWellFormed, RowType
  <2> QED  BY <1>5, <2>1, Stutters DEF StampRun
<1>6. ASSUME NEW t \in Transforms, NEW s \in Sqls, Import(t, s) PROVE P
  <2>1. row'[t].status = "draft" /\ row'[t].sql = s
    BY <1>6 DEF Import, RowType
  <2> QED  BY <1>6, <2>1, <1>a DEF Import
<1>7. ASSUME NEW t \in Transforms, Delete(t) PROVE P
  BY <1>7, <1>a DEF Delete, NoRow
<1>8. ASSUME NEW t \in Transforms, NEW action \in {"approve", "reject"}, Review(t, action)
      PROVE  P
  <2>1. /\ \A u \in Transforms \ {t} : row'[u] = row[u]
        /\ row'[t].sql = row[t].sql
        /\ (row'[t].status = "approved") = (action = "approve")
        /\ row[t].sql # NONE /\ run' = run
    BY <1>8 DEF Review, RowType, Status, CallsAreWellFormed
  <2>2. Texts' = Texts /\ Started' = Started
    BY <2>1 DEF Texts, Started
  <2>3. Cleared' = [Cleared EXCEPT ![t] = (action = "approve")]
    BY <2>1 DEF Cleared
  <2>4. Gate!Decide(t)
    BY <2>1, <2>2, <2>3 DEF Gate!Decide, Texts, Cleared, Started
  <2> QED  BY <2>4 DEF Gate!GateNext
<1>9. CASE Restart
  <2>1. PICK T \in SUBSET {t \in Transforms : Exists(t)} :
          row' = [t \in Transforms |->
                    IF t \in T THEN [row[t] EXCEPT !.sql = Rewritten[@]] ELSE row[t]]
    BY <1>9 DEF Restart
  <2>2. \A t \in Transforms :
           /\ row'[t].sql = IF t \in T THEN Rewritten[row[t].sql] ELSE row[t].sql
           /\ row'[t].status = row[t].status
    BY <2>1 DEF RowType
  <2>3. Texts' = [t \in Transforms |-> IF t \in T THEN Rewritten[Texts[t]] ELSE Texts[t]]
    BY <2>2 DEF Texts
  <2>4. Cleared' = Cleared /\ Started' = Started
    BY <1>9, <2>2 DEF Cleared, Started, Restart
  <2>5. T \in SUBSET {t \in Transforms : Texts[t] # NONE}
    BY DEF Texts, CallsAreWellFormed
  <2>6. Gate!Revise
    BY <2>3, <2>4, <2>5 DEF Gate!Revise, Texts, Cleared, Started
  <2> QED  BY <2>6 DEF Gate!GateNext
<1> QED
  BY <1>1, <1>2, <1>3, <1>4, <1>5, <1>6, <1>7, <1>8, <1>9, StepCases, Stutters
  DEF BeginUpdate, ReadForRun, Validate, FailStatement, Publish, ExportRaises, vars

\* With no agent stream open the transform service implements the approval gate:
\* every create, edit, import and delete withdraws the clearance, every review is a
\* decision on the text in force, and every run row that is inserted is of a text
\* in force that is approved at that moment.
THEOREM RestImplementsGate ==
    ASSUME StreamThreads = {}
    PROVE  Spec => ImplementsGate
<1>1. Init => Gate!GateInit
  <2> SUFFICES ASSUME Init PROVE Gate!GateInit
    OBVIOUS
  <2>1. \A t \in Transforms : row[t].sql = NONE /\ row[t].status # "approved"
    BY DEF Init, NoRow
  <2>2. [t \in Transforms |-> row[t].status = "approved"] = [t \in Transforms |-> FALSE]
    BY <2>1
  <2>3. {q \in Runs : run[q].status # "none"} = {}
    BY DEF Init, NoRun
  <2> QED
    BY <2>1, <2>2, <2>3 DEF Gate!GateInit
<1>2. Alone /\ [Next]_vars => Alone'
  BY AloneStep
<1>3. Alone /\ [Next]_vars => [Gate!GateNext]_(Gate!gate)
  BY StepIsGateStep DEF Gate!gate, Texts, Cleared, Started
<1> QED
  BY <1>1, <1>2, <1>3, AloneInit, PTL DEF Spec, ImplementsGate, Gate!GateSpec

=============================================================================
