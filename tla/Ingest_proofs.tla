---------------------------- MODULE Ingest_proofs ----------------------------
(***************************************************************************)
(* For any number of calls, any caps and any remote: the run rows tell     *)
(* what is in the bronze table, what landed is announced, and the caps     *)
(* hold.  A step is of one call, so the argument is about one call: its    *)
(* counters against its rows.                                              *)
(***************************************************************************)
EXTENDS Ingest, TLAPS

Invariants ==
    /\ TypeOK
    /\ AccountInv
    /\ RunIsTruthful
    /\ LandedIsAnnounced
    /\ CapsHold

\* The part of Invariants that is about job j.
About(j) ==
    /\ job[j].pc \notin {"done", "cut"} =>
          /\ bronze[j] = job[j].landed + Uncounted(j)
          /\ bronze[j] <= job[j].received
          /\ ~job[j].errors => bronze[j] = job[j].received
          /\ job[j].pc = "new" => job[j].received = 0 /\ ~job[j].errors
    /\ job[j].pc = "fetch" => \/ job[j].kind \in Paged
                              \/ job[j].kind = "single" /\ job[j].received = 0
    /\ job[j].pc \in {"land", "export"} /\ job[j].kind \in Paged =>
          job[j].page < MaxPages /\ job[j].received + job[j].left < RecordsCap + job[j].size
    /\ record[j].status # "none" =>
          \/ job[j].pc \in {"fire", "done", "cut"}
          \/ job[j].pc = "export" /\ job[j].kind = "webhook"
    /\ j \in fired => job[j].pc = "done" /\ bronze[j] > 0
    /\ j \in abandoned => job[j].pc = "done" /\ j \notin fired
    /\ j \in uncounted =>
          /\ job[j].errors
          /\ job[j].kind \in Pulls
          /\ job[j].pc \in {"account", "fire", "done", "cut"}
    /\ record[j].status # "none" =>
          IF j \in abandoned /\ job[j].kind \in Paged
            THEN record[j].status = "failed"
            ELSE /\ record[j].out = bronze[j] - Uncounted(j)
                 /\ record[j].status = "success" => record[j].rejected = 0 /\ j \notin uncounted
                 /\ record[j].status = "partial" => record[j].out > 0
                 /\ record[j].status = "failed" => record[j].out = 0
    /\ job[j].pc = "done" /\ bronze[j] > Uncounted(j) /\ j \notin abandoned => j \in fired
    /\ job[j].kind \in Paged =>
          /\ job[j].page <= MaxPages
          /\ job[j].received < RecordsCap + MaxBatch \/ job[j].received = 0

\* Invariants says the same of every job.
LEMMA InvariantsPerJob == Invariants <=> TypeOK /\ \A j \in Jobs : About(j)
<1>1. ASSUME Invariants PROVE TypeOK /\ \A j \in Jobs : About(j)
  BY <1>1 DEF Invariants, About, TypeOK, AccountInv, CountersMatch, PagesMatch,
              AccountsInOrder, RunIsTruthful, LandedIsAnnounced, CapsHold
<1>2. ASSUME TypeOK, \A j \in Jobs : About(j) PROVE Invariants
  <2>1. AccountInv
    BY <1>2 DEF About, AccountInv, CountersMatch, PagesMatch, AccountsInOrder
  <2>2. RunIsTruthful /\ LandedIsAnnounced /\ CapsHold
    BY <1>2 DEF TypeOK, About, RunIsTruthful, LandedIsAnnounced, CapsHold
  <2> QED  BY <1>2, <2>1, <2>2 DEF Invariants
<1> QED  BY <1>1, <1>2

LEMMA InvariantsInit == Init => Invariants
<1> SUFFICES ASSUME Init PROVE TypeOK /\ \A j \in Jobs : About(j)
  BY InvariantsPerJob
<1> QED
  BY IngestAssumption
  DEF Init, TypeOK, About, Uncounted, NewJob, NoRecord, JobType, RecordType, Kinds, Pulls, Paged, Uploads

\* The same of the next state.
LEMMA InvariantsPerJobNext ==
    ASSUME TypeOK', \A j \in Jobs : About(j)'
    PROVE  Invariants'
<1>1. AccountInv'
  BY DEF About, AccountInv, CountersMatch, PagesMatch, AccountsInOrder
<1>2. RunIsTruthful' /\ LandedIsAnnounced' /\ CapsHold'
  BY DEF TypeOK, About, RunIsTruthful, LandedIsAnnounced, CapsHold
<1> QED
  BY <1>1, <1>2 DEF Invariants

\* A step that leaves every job but j as it is keeps the invariants if it keeps
\* what they say about j.
LEMMA OneJobSteps ==
    ASSUME Invariants, NEW j \in Jobs, TypeOK', About(j)',
           \A k \in Jobs \ {j} :
              /\ job'[k] = job[k] /\ bronze'[k] = bronze[k] /\ record'[k] = record[k]
              /\ k \in fired' <=> k \in fired
              /\ k \in abandoned' <=> k \in abandoned
              /\ k \in uncounted' <=> k \in uncounted
    PROVE  Invariants'
<1>1. \A k \in Jobs : About(k)
  BY InvariantsPerJob
<1>2. \A k \in Jobs : About(k)'
  BY <1>1 DEF About, Uncounted
<1> QED
  BY <1>2, InvariantsPerJobNext

\* What _record_run leaves behind.
LEMMA WriteEffect ==
    ASSUME TypeOK, NEW j \in Jobs, NEW status \in {"success", "partial", "failed"},
           NEW in \in Nat, NEW out \in Nat, out <= in, Write(j, status, in, out)
    PROVE  /\ record' \in [Jobs -> RecordType]
           /\ \A k \in Jobs \ {j} : record'[k] = record[k]
           /\ \/ record'[j] = [status |-> status, in |-> in, out |-> out,
                               rejected |-> in - out]
              \/ record'[j] = record[j]
<1> DEFINE new == [status |-> status, in |-> in, out |-> out, rejected |-> in - out]
<1>1. new \in RecordType
  BY DEF RecordType
<1> QED
  BY <1>1 DEF Write, TypeOK

LEMMA InvariantsStep == Invariants /\ [Next]_vars => Invariants'
<1> SUFFICES ASSUME Invariants, [Next]_vars PROVE Invariants'
  OBVIOUS
<1>0. TypeOK /\ \A k \in Jobs : About(k)
  BY InvariantsPerJob
<1> USE IngestAssumption DEF TypeOK
<1>1. ASSUME NEW j \in Jobs, NEW kind \in Pulls, StartPull(j, kind) PROVE Invariants'
  <2>1. TypeOK' /\ \A k \in Jobs \ {j} : job'[k] = job[k]
    BY <1>0, <1>1 DEF StartPull, JobType, Kinds
  <2>2. About(j)'
    BY <1>0, <1>1 DEF StartPull, About, Uncounted, JobType, Kinds, Pulls, Paged
  <2> QED
    BY <1>1, <2>1, <2>2, OneJobSteps DEF StartPull
<1>2. ASSUME NEW j \in Jobs, NEW kind \in Uploads, NEW n \in 0..MaxBatch,
             StartUpload(j, kind, n)
      PROVE  Invariants'
  <2>1. TypeOK' /\ \A k \in Jobs \ {j} : job'[k] = job[k]
    BY <1>0, <1>2 DEF StartUpload, JobType, Kinds
  <2>2. About(j)'
    BY <1>0, <1>2 DEF StartUpload, About, Uncounted, JobType, Paged, Uploads
  <2> QED
    BY <1>2, <2>1, <2>2, OneJobSteps DEF StartUpload
<1>3. ASSUME NEW j \in Jobs, NEW kind \in Kinds, RefuseInput(j, kind) PROVE Invariants'
  <2>1. TypeOK' /\ \A k \in Jobs \ {j} : job'[k] = job[k]
    BY <1>0, <1>3 DEF RefuseInput, JobType, Kinds, Pulls, Uploads
  <2>2. About(j)'
    BY <1>0, <1>3 DEF RefuseInput, About, Uncounted, JobType, Paged
  <2> QED
    BY <1>3, <2>1, <2>2, OneJobSteps DEF RefuseInput
<1>4. ASSUME NEW j \in Jobs, NEW n \in 0..MaxBatch, FetchPage(j, n) PROVE Invariants'
  <2>1. TypeOK' /\ \A k \in Jobs \ {j} : job'[k] = job[k]
    BY <1>0, <1>4 DEF FetchPage, JobType
  <2>2. About(j)'
    BY <1>0, <1>4 DEF FetchPage, About, Uncounted, JobType, MayFetch, Paged
  <2> QED
    BY <1>4, <2>1, <2>2, OneJobSteps DEF FetchPage
<1>5. ASSUME NEW j \in Jobs, FetchFails(j) PROVE Invariants'
  <2>1. TypeOK' /\ \A k \in Jobs \ {j} : job'[k] = job[k]
    BY <1>0, <1>5 DEF FetchFails, JobType
  <2>2. About(j)'
    BY <1>0, <1>5 DEF FetchFails, About, Uncounted, JobType, MayFetch, Paged
  <2> QED
    BY <1>5, <2>1, <2>2, OneJobSteps DEF FetchFails
<1>6. ASSUME NEW j \in Jobs, FetchRaisesValueError(j) PROVE Invariants'
  <2>1. /\ record' \in [Jobs -> RecordType]
        /\ \A k \in Jobs \ {j} : record'[k] = record[k]
        /\ \/ record'[j] = [status |-> "failed", in |-> 0, out |-> 0, rejected |-> 0]
           \/ record'[j] = record[j]
    BY <1>0, <1>6, WriteEffect DEF FetchRaisesValueError
  <2>2. /\ job' \in [Jobs -> JobType] /\ \A k \in Jobs \ {j} : job'[k] = job[k]
        /\ job'[j] = [job[j] EXCEPT !.pc = "done"]
        /\ bronze' = bronze /\ fired' = fired /\ uncounted' = uncounted
        /\ abandoned' = IF bronze[j] > 0 THEN abandoned \cup {j} ELSE abandoned
    BY <1>0, <1>6 DEF FetchRaisesValueError, Abandon, JobType
  <2>3. job[j].pc = "fetch" /\ j \notin fired /\ j \notin abandoned
        /\ record[j].status = "none" /\ (bronze[j] > 0 => job[j].kind \in Paged)
    BY <1>0, <1>6 DEF FetchRaisesValueError, About, JobType
  <2>4. About(j)'
    BY <1>0, <2>1, <2>2, <2>3 DEF About, Uncounted, JobType
  <2> QED
    BY <1>0, <2>1, <2>2, <2>4, OneJobSteps
<1>7. ASSUME NEW j \in Jobs, StopAtCap(j) PROVE Invariants'
  <2>1. TypeOK' /\ \A k \in Jobs \ {j} : job'[k] = job[k]
    BY <1>0, <1>7 DEF StopAtCap, JobType
  <2>2. About(j)'
    BY <1>0, <1>7 DEF StopAtCap, About, Uncounted, JobType, MayFetch
  <2> QED
    BY <1>7, <2>1, <2>2, OneJobSteps DEF StopAtCap
<1>8. ASSUME NEW j \in Jobs, TurnPage(j) PROVE Invariants'
  <2>1. TypeOK' /\ \A k \in Jobs \ {j} : job'[k] = job[k]
    BY <1>0, <1>8 DEF TurnPage, JobType, Leads
  <2>2. About(j)'
    BY <1>0, <1>8 DEF TurnPage, About, Uncounted, JobType, Leads, Paged
  <2> QED
    BY <1>8, <2>1, <2>2, OneJobSteps DEF TurnPage
<1>9. ASSUME NEW j \in Jobs, Land(j) PROVE Invariants'
  <2> DEFINE new == IF job[j].kind = "webhook"
                      THEN [job[j] EXCEPT !.left = @ - 1, !.received = @ + 1, !.landed = @ + 1]
                      ELSE [job[j] EXCEPT !.left = @ - 1, !.received = @ + 1, !.pc = "export"]
  <2>1. new \in JobType
    <3>1. /\ job[j] \in JobType /\ job[j].left - 1 \in 0..MaxBatch
          /\ job[j].received + 1 \in Nat /\ job[j].landed + 1 \in Nat
      BY <1>0, <1>9 DEF Land, JobType
    <3> QED  BY <3>1 DEF JobType
  <2>2. job' = [job EXCEPT ![j] = new] /\ bronze' = [bronze EXCEPT ![j] = @ + 1]
    BY <1>9 DEF Land
  <2>3. /\ TypeOK'
        /\ job'[j] = new /\ bronze'[j] = bronze[j] + 1
        /\ \A k \in Jobs \ {j} : job'[k] = job[k] /\ bronze'[k] = bronze[k]
    BY <1>0, <1>9, <2>1, <2>2 DEF Land
  <2>4. About(j)'
    <3>1. CASE job[j].kind = "webhook"
      BY <1>0, <1>9, <2>3, <3>1 DEF Land, About, Uncounted, JobType, Paged
    <3>2. CASE job[j].kind # "webhook"
      BY <1>0, <1>9, <2>3, <3>2 DEF Land, About, Uncounted, JobType
    <3> QED  BY <3>1, <3>2
  <2> QED
    BY <1>9, <2>3, <2>4, OneJobSteps DEF Land
<1>10. ASSUME NEW j \in Jobs, Reject(j) PROVE Invariants'
  <2>1. TypeOK' /\ \A k \in Jobs \ {j} : job'[k] = job[k]
    BY <1>0, <1>10 DEF Reject, JobType
  <2>2. About(j)'
    BY <1>0, <1>10 DEF Reject, About, Uncounted, JobType
  <2> QED
    BY <1>10, <2>1, <2>2, OneJobSteps DEF Reject
<1>11. ASSUME NEW j \in Jobs, LandRaises(j) PROVE Invariants'
  <2>1. TypeOK' /\ \A k \in Jobs \ {j} : job'[k] = job[k]
    BY <1>0, <1>11 DEF LandRaises, JobType, Abandon
  <2>2. About(j)'
    BY <1>0, <1>11 DEF LandRaises, About, Uncounted, JobType, Abandon, Pulls, Uploads, Paged
  <2> QED
    BY <1>11, <2>1, <2>2, OneJobSteps DEF LandRaises, Abandon
<1>12. ASSUME NEW j \in Jobs, Account(j) PROVE Invariants'
  <2> DEFINE next == IF job[j].kind = "webhook" /\ job[j].landed > 0 THEN "export" ELSE "fire"
  <2>0. /\ job[j] \in JobType /\ bronze[j] \in Nat /\ About(j)
        /\ job[j].pc = "account" /\ record[j].status = "none"
    BY <1>0, <1>12 DEF Account, About
  <2>1. /\ job[j].landed \in Nat /\ job[j].received \in Nat
        /\ bronze[j] = job[j].landed + (IF j \in uncounted THEN 1 ELSE 0)
        /\ job[j].landed <= job[j].received
        /\ ~job[j].errors => bronze[j] = job[j].received /\ j \notin uncounted
    BY <2>0 DEF About, Uncounted, JobType
  <2>2. Verdict(job[j]) \in {"success", "partial", "failed"}
    BY DEF Verdict
  <2>3. /\ record' \in [Jobs -> RecordType]
        /\ \A k \in Jobs \ {j} : record'[k] = record[k]
        /\ \/ record'[j] = [status |-> Verdict(job[j]), in |-> job[j].received,
                            out |-> job[j].landed,
                            rejected |-> job[j].received - job[j].landed]
           \/ record'[j] = record[j]
    BY <1>0, <1>12, <2>1, <2>2, WriteEffect DEF Account
  <2>4. [job[j] EXCEPT !.pc = next] \in JobType
    BY <2>0 DEF JobType
  <2>5. job' = [job EXCEPT ![j] = [job[j] EXCEPT !.pc = next]]
    BY <1>12 DEF Account
  <2>6. /\ job' \in [Jobs -> JobType] /\ \A k \in Jobs \ {j} : job'[k] = job[k]
        /\ job'[j] = [job[j] EXCEPT !.pc = next]
    BY <1>0, <2>4, <2>5
  <2>7. /\ bronze' = bronze /\ fired' = fired /\ abandoned' = abandoned
        /\ uncounted' = uncounted
    BY <1>12 DEF Account
  <2>8. Uncounted(j)' = (IF j \in uncounted THEN 1 ELSE 0)
    BY <2>0, <2>6, <2>7 DEF Uncounted, JobType
  <2>9. /\ job'[j].landed = job[j].landed /\ job'[j].received = job[j].received
        /\ job'[j].errors = job[j].errors /\ job'[j].kind = job[j].kind
        /\ job'[j].page = job[j].page /\ job'[j].left = job[j].left
        /\ job'[j].size = job[j].size /\ job'[j].pc = next
        /\ next \in {"export", "fire"} /\ (next = "export" => job[j].kind = "webhook")
    BY <2>0, <2>6 DEF JobType
  <2>10. j \notin abandoned /\ j \notin fired
    BY <2>0 DEF About
  <2>11. record'[j].status # "none" =>
           /\ record'[j].out = bronze[j] - Uncounted(j)'
           /\ record'[j].status = "success" => record'[j].rejected = 0 /\ j \notin uncounted
           /\ record'[j].status = "partial" => record'[j].out > 0
           /\ record'[j].status = "failed" => record'[j].out = 0
    BY <2>0, <2>1, <2>3, <2>8 DEF Verdict, JobType
  <2>12. About(j)'
    BY <2>0, <2>1, <2>7, <2>8, <2>9, <2>10, <2>11 DEF About, Paged, Pulls
  <2> QED
    BY <1>0, <2>3, <2>6, <2>7, <2>12, OneJobSteps
<1>13. ASSUME NEW j \in Jobs, Fire(j) PROVE Invariants'
  <2>1. TypeOK' /\ \A k \in Jobs \ {j} : job'[k] = job[k]
    BY <1>0, <1>13 DEF Fire, JobType
  <2>2. About(j)'
    BY <1>0, <1>13 DEF Fire, About, Uncounted, JobType
  <2> QED
    BY <1>13, <2>1, <2>2, OneJobSteps DEF Fire
<1>14. CASE Restart
  <2>1. TypeOK'
    BY <1>0, <1>14 DEF Restart, Active, JobType
  <2>2. ASSUME NEW j \in Jobs PROVE About(j)'
    BY <1>0, <1>14 DEF Restart, Active, About, Uncounted, JobType
  <2> QED
    BY <2>1, <2>2, InvariantsPerJobNext
<1>15. ASSUME NEW j \in Jobs, Export(j) PROVE Invariants'
  <2> DEFINE new == IF job[j].kind = "webhook" THEN [job[j] EXCEPT !.pc = "fire"]
                    ELSE [job[j] EXCEPT !.landed = @ + 1, !.pc = "land"]
  <2>1. new \in JobType
    <3>1. job[j] \in JobType /\ job[j].landed + 1 \in Nat
      BY <1>0 DEF JobType
    <3> QED  BY <3>1 DEF JobType
  <2>2. job' = [job EXCEPT ![j] = new]
    BY <1>15 DEF Export
  <2>3. /\ TypeOK' /\ job'[j] = new
        /\ \A k \in Jobs \ {j} : job'[k] = job[k]
    BY <1>0, <1>15, <2>1, <2>2 DEF Export
  <2>4. About(j)'
    <3>1. CASE job[j].kind = "webhook"
      BY <1>0, <1>15, <2>3, <3>1 DEF Export, About, Uncounted, JobType, Paged
    <3>2. CASE job[j].kind # "webhook"
      BY <1>0, <1>15, <2>3, <3>2 DEF Export, About, Uncounted, JobType
    <3> QED  BY <3>1, <3>2
  <2> QED
    BY <1>15, <2>3, <2>4, OneJobSteps DEF Export
<1>16. ASSUME NEW j \in Jobs, ExportRaises(j) PROVE Invariants'
  <2>1. TypeOK' /\ \A k \in Jobs \ {j} : job'[k] = job[k]
    BY <1>0, <1>16 DEF ExportRaises, JobType, Abandon
  <2>2. About(j)'
    BY <1>0, <1>16 DEF ExportRaises, About, Uncounted, JobType, Abandon, Pulls, Uploads, Paged
  <2> QED
    BY <1>16, <2>1, <2>2, OneJobSteps DEF ExportRaises, Abandon
<1>17. CASE UNCHANGED vars
  <2>1. \A j \in Jobs : About(j)'
    BY <1>0, <1>17 DEF vars, About, Uncounted
  <2> QED
    BY <1>0, <1>17, <2>1, InvariantsPerJobNext DEF vars
<1> QED
  BY <1>1, <1>2, <1>3, <1>4, <1>5, <1>6, <1>7, <1>8, <1>9, <1>10, <1>11, <1>12, <1>13,
     <1>14, <1>15, <1>16, <1>17 DEF Next, Start, Proceed

\* The invariants of Ingest hold in every reachable state.
LEMMA InvariantsAlways == Spec => []Invariants
BY InvariantsInit, InvariantsStep, PTL DEF Spec

\* Every job record, run row and row count has its type: above all records_rejected,
\* the difference of two counters, is never negative.
THEOREM TypeCorrect == Spec => []TypeOK
<1>1. Invariants => TypeOK
  BY DEF Invariants
<1> QED
  BY <1>1, InvariantsAlways, PTL

\* A run row tells what is in the bronze table, for any remote, any failures and
\* restarts.  The two excepted kinds of pull are bounded too: one that a
\* ValueError ended reads 'failed', and one that an export ended misses one row.
THEOREM TruthfulRuns == Spec => []RunIsTruthful
<1>1. Invariants => RunIsTruthful
  BY DEF Invariants
<1> QED
  BY <1>1, InvariantsAlways, PTL

\* Triggers fire for the calls that landed rows, however the run ended, and for no
\* others, unless an exception left the call or ended it at its first row.
THEOREM LandingAnnounced == Spec => []LandedIsAnnounced
<1>1. Invariants => LandedIsAnnounced
  BY DEF Invariants
<1> QED
  BY <1>1, InvariantsAlways, PTL

\* No remote makes a pull ask for a page beyond its caps.
THEOREM CapsRespected == Spec => []CapsHold
<1>1. Invariants => CapsHold
  BY DEF Invariants
<1> QED
  BY <1>1, InvariantsAlways, PTL

=============================================================================
