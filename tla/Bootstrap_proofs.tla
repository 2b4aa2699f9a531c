-------------------------- MODULE Bootstrap_proofs --------------------------
(***************************************************************************)
(* Proofs about Bootstrap, for any schema, any list of migrations and any  *)
(* number of failures.                                                     *)
(*                                                                         *)
(* FailuresHealUntilRecorded says nothing of a process that is starting.   *)
(* Progress, its strengthening, says it of what a start has gone through   *)
(* so far, and of every file that is recorded, in every state.             *)
(***************************************************************************)
EXTENDS Bootstrap, TLAPS

LEMMA Lengths ==
    /\ Last \in Nat
    /\ \A m \in 0..Last : /\ Script(m) \in Seq(Statement)
                          /\ Len(Script(m)) \in Nat
                          /\ DOMAIN Script(m) = 1..Len(Script(m))
<1>1. Last \in Nat /\ \A m \in 1..Last : Migrations[m] \in Seq(Statement)
  BY BootstrapAssumption DEF Last
<1>2. \A m \in 0..Last : Script(m) \in Seq(Statement)
  BY <1>1, BootstrapAssumption DEF Script
<1> QED BY <1>1, <1>2

LEMMA StatementType ==
    ASSUME NEW m \in 0..Last, NEW k \in 1..Len(Script(m))
    PROVE  /\ Script(m)[k].makes \subseteq Objects
           /\ Script(m)[k].brings \subseteq Objects
           /\ Script(m)[k].drops \subseteq Objects
<1>1. Script(m)[k] \in Statement
  BY Lengths
<1> QED BY <1>1 DEF Statement

\* Every variable keeps its type: db/init.py records names of _MIGRATIONS
\* only, and serves after the last of them.
THEOREM TypeCorrect == Spec => []TypeOK
<1>1. Init => TypeOK
  BY BootstrapAssumption, Lengths DEF Init, TypeOK
<1>2. TypeOK /\ [Next]_vars => TypeOK'
  <2> SUFFICES ASSUME TypeOK, [Next]_vars PROVE TypeOK'
    OBVIOUS
  <2> USE Lengths, BootstrapAssumption DEF TypeOK
  <2>1. CASE Boot
    BY <2>1 DEF Boot, NoFault
  <2>2. CASE Check
    BY <2>2 DEF Check, Skip, Enter, Fault, NoFault
  <2>3. CASE Execute
    <3>1. file \in 0..Last /\ next \in 1..Len(Script(file))
      BY <2>3 DEF Execute
    <3>2. db' \subseteq Objects
      BY <2>3, <3>1, StatementType DEF Execute
    <3> QED BY <2>3, <3>1, <3>2 DEF Execute, NoFault
  <2>4. CASE Raise
    <3>1. file \in 0..Last /\ next \in 1..Len(Script(file))
      BY <2>4 DEF Raise
    <3>2. lost' \subseteq Objects
      BY <2>4, <3>1, StatementType DEF Raise
    <3>3. faults' \in 0..MaxFaults
      <4>1. Fault \/ NoFault
        BY <2>4 DEF Raise
      <4> QED BY <4>1 DEF Fault, NoFault
    <3>4. /\ next' = next + 1
          /\ UNCHANGED <<db, recorded, phase, file>>
          /\ phase = "run"
      BY <2>4 DEF Raise
    <3> QED BY <3>1, <3>2, <3>3, <3>4
  <2>5. CASE Record
    <3>1. recorded' \subseteq 1..Last
      <4>1. file \in 0..Last
        BY <2>5 DEF Record
      <4>2. recorded' = recorded \/ (file # 0 /\ recorded' = recorded \cup {file})
        BY <2>5 DEF Record
      <4>3. file # 0 => file \in 1..Last
        BY <4>1
      <4> SUFFICES ASSUME NEW m \in recorded' PROVE m \in 1..Last
        OBVIOUS
      <4>4. m \in recorded \/ (file # 0 /\ m = file)
        BY <4>2
      <4> QED BY <4>3, <4>4
    <3> QED BY <2>5, <3>1 DEF Record, Fault, NoFault
  <2>6. CASE Serve
    BY <2>6 DEF Serve, NoFault
  <2>7. CASE Stop
    BY <2>7 DEF Stop, NoFault
  <2>8. CASE UNCHANGED vars
    BY <2>8 DEF vars
  <2> QED BY <2>1, <2>2, <2>3, <2>4, <2>5, <2>6, <2>7, <2>8 DEF Next
<1> QED BY <1>1, <1>2, PTL DEF Spec

----------------------------------------------------------------------------
\* What the process has gone through in this start: all statements of the
\* files before, and those before the next one in its file.
Kept(objs) == objs \ Dropped \subseteq db \cup lost

Progress ==
    /\ \A m \in recorded : Kept(Promised(m))
    /\ phase # "down" => \A m \in 0..Last : m < file => Kept(Promised(m))
    /\ phase = "run" =>
          \A k \in 1..Len(Script(file)) : k < next => Kept(Script(file)[k].makes)

\* No statement undoes what another has made.
LEMMA KeptIsKept ==
    ASSUME TypeOK, Execute \/ Raise, NEW objs, Kept(objs)
    PROVE  Kept(objs)'
<1>1. CASE Execute
  <2>1. file \in 0..Last /\ next \in 1..Len(Script(file))
    BY <1>1, Lengths DEF Execute, TypeOK
  <2>2. Script(file)[next].drops \subseteq Dropped
    BY <2>1, Lengths DEF Dropped
  <2> QED BY <1>1, <2>2 DEF Execute, Kept
<1>2. CASE Raise
  BY <1>2 DEF Raise, Kept
<1> QED BY <1>1, <1>2

\* After a statement that was executed or raised, what it makes is kept.
LEMMA StatementKept ==
    ASSUME TypeOK, Execute \/ Raise
    PROVE  Script(file)[next].makes \ Dropped \subseteq db' \cup lost'
<1> DEFINE s == Script(file)[next]
<1>1. CASE Execute
  <2>1. file \in 0..Last /\ next \in 1..Len(Script(file))
    BY <1>1, Lengths DEF Execute, TypeOK
  <2>2. s.drops \subseteq Dropped
    BY <2>1, Lengths DEF Dropped
  <2>3. s.makes \ s.drops \subseteq db'
    BY <1>1 DEF Execute
  <2> QED BY <2>2, <2>3
<1>2. CASE Raise
  BY <1>2 DEF Raise
<1> QED BY <1>1, <1>2

LEMMA ProgressSteps == TypeOK /\ Progress /\ [Next]_vars => Progress'
<1> SUFFICES ASSUME TypeOK, Progress, [Next]_vars PROVE Progress'
  OBVIOUS
<1>1. CASE Boot
  <2>1. ASSUME NEW m \in recorded PROVE Kept(Promised(m))'
    <3>1. Kept(Promised(m))
      BY DEF Progress
    <3>2. Promised(m) \subseteq UNION {Promised(n) : n \in recorded}
      OBVIOUS
    <3> QED BY <1>1, <3>1, <3>2 DEF Boot, Kept
  <2>2. ~\E m \in 0..Last : m < file
    BY <1>1, Lengths DEF Boot, TypeOK
  <2> QED BY <1>1, <2>1, <2>2 DEF Boot, Progress
<1>2. CASE Check
  <2>1. UNCHANGED <<db, lost, recorded>> /\ phase = "check" /\ file \in 0..Last
    BY <1>2, Lengths DEF Check, TypeOK
  <2>2. \A objs : Kept(objs) => objs \ Dropped \subseteq db' \cup lost'
    BY <2>1 DEF Kept
  <2>3. CASE Applied /\ Skip
    <3>1. file \in recorded /\ phase' = "check" /\ file' = file + 1
      BY <2>1, <2>3 DEF Applied, Skip
    <3>2. ASSUME NEW m \in 0..Last, m < file' PROVE Kept(Promised(m))
      <4>1. m < file \/ m = file
        BY <2>1, <3>1, <3>2, Lengths
      <4> QED BY <2>1, <3>1, <4>1 DEF Progress
    <3> QED BY <2>1, <3>1, <3>2 DEF Progress, Kept
  <2>4. CASE Enter
    <3>1. phase' = "run" /\ file' = file /\ next' = 1
      BY <2>4 DEF Enter
    <3>2. ~\E k \in 1..Len(Script(file)) : k < 1
      BY <2>1, Lengths
    <3> QED BY <2>1, <3>1, <3>2 DEF Progress, Kept
  <2> QED BY <1>2, <2>3, <2>4 DEF Check
<1>3. CASE Execute \/ Raise
  <2>1. /\ UNCHANGED <<recorded, phase, file>> /\ next' = next + 1 /\ phase = "run"
        /\ file \in 0..Last /\ next \in 1..Len(Script(file))
    BY <1>3, Lengths DEF Execute, Raise, TypeOK
  <2>2. ASSUME NEW m \in recorded PROVE Kept(Promised(m))'
    <3>1. Kept(Promised(m))
      BY DEF Progress
    <3> QED BY <1>3, <3>1, KeptIsKept
  <2>3. ASSUME NEW m \in 0..Last, m < file PROVE Kept(Promised(m))'
    <3>1. Kept(Promised(m))
      BY <2>1, <2>3 DEF Progress
    <3> QED BY <1>3, <3>1, KeptIsKept
  <2>4. ASSUME NEW k \in 1..Len(Script(file)), k < next + 1
        PROVE Kept(Script(file)[k].makes)'
    <3>1. CASE k < next
      <4>1. Script(file)[k].makes \ Dropped \subseteq db \cup lost
        BY <2>1, <3>1 DEF Progress, Kept
      <4>2. Script(file)[k].makes \ Dropped \subseteq db' \cup lost'
        BY <1>3, <4>1, KeptIsKept DEF Kept
      <4> QED BY <2>1, <4>2 DEF Kept
    <3>2. CASE k = next
      <4>1. Script(file)[k].makes \ Dropped \subseteq db' \cup lost'
        BY <1>3, <3>2, StatementKept
      <4> QED BY <2>1, <4>1 DEF Kept
    <3> QED BY <2>1, <2>4, <3>1, <3>2, Lengths
  <2> QED BY <2>1, <2>2, <2>3, <2>4 DEF Progress
<1>4. CASE Record
  <2>1. /\ UNCHANGED <<db, lost>> /\ phase = "run" /\ phase' = "check" /\ file' = file + 1
        /\ file \in 0..Last /\ next > Len(Script(file))
        /\ recorded' \subseteq recorded \cup {file}
    BY <1>4, Lengths DEF Record, TypeOK
  <2>2. Kept(Promised(file))
    <3>1. \A k \in 1..Len(Script(file)) : Kept(Script(file)[k].makes)
      BY <2>1, Lengths DEF Progress, TypeOK
    <3> QED BY <2>1, <3>1, Lengths DEF Promised, Kept
  <2>3. ASSUME NEW m \in recorded' PROVE Kept(Promised(m))
    BY <2>1, <2>2, <2>3 DEF Progress
  <2>4. ASSUME NEW m \in 0..Last, m < file' PROVE Kept(Promised(m))
    <3>1. m < file \/ m = file
      BY <2>1, <2>4, Lengths
    <3> QED BY <2>1, <2>2, <3>1 DEF Progress
  <2> QED BY <2>1, <2>3, <2>4 DEF Progress, Kept
<1>5. CASE Serve
  <2>1. UNCHANGED <<db, lost, recorded, file>> /\ phase = "check" /\ phase' = "up"
    BY <1>5 DEF Serve
  <2> QED BY <2>1 DEF Progress, Kept
<1>6. CASE Stop
  BY <1>6 DEF Stop, Progress, Kept
<1>7. CASE UNCHANGED vars
  BY <1>7 DEF vars, Progress, Kept
<1> QED BY <1>1, <1>2, <1>3, <1>4, <1>5, <1>6, <1>7 DEF Next

\* bootstrap() of db/init.py heals a failed or interrupted start at the next
\* one, whatever the files contain, as long as the file is not recorded.
THEOREM FailuresHeal == Spec => []FailuresHealUntilRecorded
<1>1. Init => Progress
  BY DEF Init, Progress
<1>2. TypeOK /\ Progress => FailuresHealUntilRecorded
  <2> SUFFICES ASSUME TypeOK, Progress, phase = "up", NEW m \in 0..Last
               PROVE  Promised(m) \ Dropped \subseteq db \cup lost
    BY DEF FailuresHealUntilRecorded
  <2>1. m < file
    BY Lengths DEF TypeOK
  <2> QED BY <2>1 DEF Progress, Kept
<1> QED BY <1>1, <1>2, TypeCorrect, ProgressSteps, PTL DEF Spec
=============================================================================
