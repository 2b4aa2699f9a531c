------------------------- MODULE AgentMemory_proofs -------------------------
(***************************************************************************)
(* Theorems of AgentMemory, for any number of memories and threads.        *)
(***************************************************************************)
EXTENDS AgentMemory, TLAPS

LEMMA Smaller ==
    ASSUME NEW n \in Int, NEW max \in Int
    PROVE  /\ AtMost(n, max) \in Int
           /\ AtMost(n, max) <= max /\ AtMost(n, max) <= n
           /\ AtMost(n, max) = n \/ AtMost(n, max) = max
  BY DEF AtMost

LEMMA InitTypeOK == Init => TypeOK
  BY MemoryAssumption DEF Init, TypeOK, NoMemory, MemoryType, Idle, TaskType, Scores

LEMMA UseTypeOK == ASSUME TypeOK, NEW a \in Threads, Use(a) PROVE TypeOK'
<1> USE MemoryAssumption DEF TypeOK, TaskType, Scores
<1>1. ASSUME NEW m \in Memories, Save(a, m) PROVE TypeOK'
  BY <1>1 DEF Save, MemoryType
<1>2. ASSUME NEW m \in Memories, Forget(a, m) PROVE TypeOK'
  BY <1>2 DEF Forget, MemoryType
<1>3. CASE Recall(a)
  <2>1. PICK top \in SUBSET Live \ {{}} :
           task' = [task EXCEPT ![a] =
                [left |-> top,
                 new |-> [m \in Memories |->
                            IF m \in top THEN AtMost(memory[m].score + Boost, MaxScore) ELSE 0],
                 days |-> 0]]
    BY <1>3 DEF Recall
  <2>2. ASSUME NEW m \in Memories
        PROVE  AtMost(memory[m].score + Boost, MaxScore) \in Scores
    BY DEF MemoryType, AtMost
  <2>3. top \in SUBSET Memories
    BY <2>1 DEF Live
  <2>4. task' \in [Threads -> TaskType]
    BY <2>1, <2>2, <2>3
  <2> QED
    BY <1>3, <2>4 DEF Recall
<1>4. CASE Write(a)
  <2>1. PICK m \in task[a].left :
           /\ task' = [task EXCEPT ![a].left = @ \ {m}, ![a].new[m] = 0]
           /\ IF m \in Live
              THEN /\ memory' = [memory EXCEPT ![m].score = task[a].new[m],
                                               ![m].idle = task[a].days]
                   /\ recalled' = [recalled EXCEPT ![m] =
                                     IF task[a].new[m] > 0 THEN task[a].days ELSE PruneDays]
              ELSE UNCHANGED <<memory, recalled>>
           /\ UNCHANGED phase
    BY <1>4 DEF Write
  <2>2. m \in Memories /\ task[a].new[m] \in Scores /\ task[a].days \in 0..PruneDays
    OBVIOUS
  <2>3. [task[a] EXCEPT !.left = @ \ {m}, !.new[m] = 0] \in TaskType
    <3>1. 0 \in Scores
      BY DEF Scores
    <3>2. [task[a].new EXCEPT ![m] = 0] \in [Memories -> Scores]
      BY <3>1
    <3>3. task[a] \in TaskType
      OBVIOUS
    <3> HIDE DEF Scores
    <3> QED
      BY <3>2, <3>3
  <2>4. task' = [task EXCEPT ![a] = [task[a] EXCEPT !.left = @ \ {m}, !.new[m] = 0]]
    BY <2>1
  <2>5. task' \in [Threads -> TaskType]
    BY <2>3, <2>4
  <2>6. [memory[m] EXCEPT !.score = task[a].new[m], !.idle = task[a].days] \in MemoryType
    BY <2>2 DEF MemoryType
  <2>7. CASE m \in Live
    <3>1. memory' = [memory EXCEPT ![m] =
                       [memory[m] EXCEPT !.score = task[a].new[m], !.idle = task[a].days]]
      BY <2>1, <2>7
    <3>2. (IF task[a].new[m] > 0 THEN task[a].days ELSE PruneDays) \in 0..PruneDays
      BY <2>2
    <3>3. memory' \in [Memories -> MemoryType]
      BY <2>2, <2>6, <3>1
    <3>4. recalled' \in [Memories -> 0..PruneDays]
      BY <2>1, <2>7, <3>2
    <3> QED
      BY <2>1, <2>5, <3>3, <3>4
  <2>8. CASE m \notin Live
    BY <2>1, <2>5, <2>8
  <2> QED
    BY <2>7, <2>8
<1>5. CASE WriteFails(a)
  BY <1>5 DEF WriteFails, Idle
<1> QED
  BY <1>1, <1>2, <1>3, <1>4, <1>5 DEF Use

LEMMA DayTypeOK == ASSUME TypeOK, Day PROVE TypeOK'
<1> USE MemoryAssumption DEF TypeOK
<1>1. ASSUME NEW d \in 0..PruneDays PROVE AtMost(d + 1, PruneDays) \in 0..PruneDays
  BY DEF AtMost
<1>2. memory' \in [Memories -> MemoryType]
  BY <1>1 DEF Day, MemoryType
<1>3. task' \in [Threads -> TaskType]
  BY <1>1 DEF Day, TaskType
<1>4. recalled' \in [Memories -> 0..PruneDays]
  BY <1>1 DEF Day
<1> QED
  BY <1>2, <1>3, <1>4 DEF Day

LEMMA StepTypeOK == TypeOK /\ [Next]_vars => TypeOK'
<1> SUFFICES ASSUME TypeOK, [Next]_vars PROVE TypeOK'
  OBVIOUS
<1>1. ASSUME NEW a \in Threads, Use(a) PROVE TypeOK'
  BY <1>1, UseTypeOK
<1>2. CASE Day
  BY <1>2, DayTypeOK
<1>3. CASE Stop
  BY <1>3, MemoryAssumption DEF Stop, TypeOK, Idle, TaskType, Scores
<1>4. CASE Decay
  <2>1. ASSUME NEW m \in Live PROVE [memory[m] EXCEPT !.score = @ - 1] \in MemoryType
    <3>1. memory[m] \in MemoryType /\ memory[m].score \in Scores /\ memory[m].score > -Lowest
      BY <1>4 DEF Decay, TypeOK, MemoryType, Live
    <3>2. memory[m].score - 1 \in Scores
      BY <3>1, MemoryAssumption DEF Scores
    <3> QED
      BY <3>1, <3>2 DEF MemoryType
  <2>2. memory' \in [Memories -> MemoryType]
    BY <1>4, <2>1 DEF Decay, TypeOK
  <2> QED
    BY <1>4, <2>2 DEF Decay, TypeOK
<1>5. CASE Prune
  BY <1>5, MemoryAssumption DEF Prune, TypeOK, MemoryType
<1>6. CASE ServeAnyway
  BY <1>6, MemoryAssumption DEF ServeAnyway, TypeOK
<1>7. CASE UNCHANGED vars
  BY <1>7 DEF vars, TypeOK
<1> QED
  BY <1>1, <1>2, <1>3, <1>4, <1>5, <1>6, <1>7 DEF Next

\* Type correctness of rows, of the writes under way and of the phases of a
\* start: no score leaves its range, whatever order boosts and decays come in.
THEOREM TypeCorrect == Spec => []TypeOK
<1>1. TypeOK /\ [Next]_vars => TypeOK'
  BY StepTypeOK
<1> QED
  BY InitTypeOK, <1>1, PTL DEF Spec

----------------------------------------------------------------------------
\* What a recall has won for a memory: it is above the threshold by the decay
\* that is to come, and its last_used_at is no older than the recall.
Margin(m) ==
    /\ memory[m].idle <= recalled[m]
    /\ phase # "decayed" => memory[m].score > 0
    /\ phase = "decayed" => memory[m].score >= 0

RecallHelps ==
    \A m \in Memories :
       /\ memory[m].status = "none" => recalled[m] = PruneDays
       /\ m \in Live /\ recalled[m] < PruneDays => Margin(m)

LEMMA WriteHelps == ASSUME TypeOK, RecallHelps, NEW a \in Threads, Write(a) PROVE RecallHelps'
<1> USE MemoryAssumption DEF TypeOK, TaskType
<1>1. PICK m \in task[a].left :
         IF m \in Live
         THEN /\ memory' = [memory EXCEPT ![m].score = task[a].new[m],
                                          ![m].idle = task[a].days]
              /\ recalled' = [recalled EXCEPT ![m] =
                                IF task[a].new[m] > 0 THEN task[a].days ELSE PruneDays]
         ELSE UNCHANGED <<memory, recalled>>
  BY DEF Write
<1>2. phase' = phase /\ m \in Memories
  BY DEF Write
<1>3. CASE m \notin Live
  BY <1>1, <1>2, <1>3 DEF RecallHelps, Margin, Live
<1>4. CASE m \in Live
  <2>1. memory[m].status = "live"
    BY <1>4 DEF Live
  <2>2. phase # "decayed" \/ phase = "decayed"
    OBVIOUS
  <2>3. SUFFICES ASSUME NEW n \in Memories
                 PROVE  /\ memory'[n].status = "none" => recalled'[n] = PruneDays
                        /\ n \in Live' /\ recalled'[n] < PruneDays => Margin(n)'
    BY DEF RecallHelps
  <2>4. CASE n # m
    BY <1>1, <1>2, <1>4, <2>4 DEF RecallHelps, Margin, Live, MemoryType
  <2>5. CASE n = m
    <3>1. /\ memory'[n].status = "live"
          /\ memory'[n].score = task[a].new[m]
          /\ memory'[n].idle = task[a].days
      BY <1>1, <1>4, <2>1, <2>5 DEF MemoryType
    <3>2. recalled'[n] = IF task[a].new[m] > 0 THEN task[a].days ELSE PruneDays
      BY <1>1, <1>4, <2>5
    <3>3. task[a].new[m] \in Int /\ task[a].days \in 0..PruneDays
      BY <1>2 DEF Scores
    <3> QED
      BY <1>2, <3>1, <3>2, <3>3 DEF Margin
  <2> QED
    BY <2>4, <2>5
<1> QED
  BY <1>3, <1>4

LEMMA StepHelps == ASSUME TypeOK, RecallHelps, [Next]_vars PROVE RecallHelps'
<1> USE MemoryAssumption DEF TypeOK
<1>1. ASSUME NEW a \in Threads, Use(a) PROVE RecallHelps'
  <2>1. ASSUME NEW m \in Memories, Save(a, m) PROVE RecallHelps'
    BY <2>1 DEF Save, RecallHelps, Margin, Live, MemoryType
  <2>2. ASSUME NEW m \in Memories, Forget(a, m) PROVE RecallHelps'
    BY <2>2 DEF Forget, RecallHelps, Margin, Live, MemoryType
  <2>3. CASE Recall(a)
    BY <2>3 DEF Recall, RecallHelps, Margin, Live
  <2>4. CASE WriteFails(a)
    BY <2>4 DEF WriteFails, RecallHelps, Margin, Live
  <2> QED
    BY <1>1, <2>1, <2>2, <2>3, <2>4, WriteHelps DEF Use
<1>2. CASE Day
  <2>1. ASSUME NEW d \in 0..PruneDays, NEW e \in 0..PruneDays
        PROVE  /\ d = PruneDays => AtMost(d + 1, PruneDays) = PruneDays
               /\ AtMost(d + 1, PruneDays) < PruneDays => d < PruneDays
               /\ e <= d => AtMost(e + 1, PruneDays) <= AtMost(d + 1, PruneDays)
    BY DEF AtMost
  <2>2. SUFFICES ASSUME NEW m \in Memories
                 PROVE  /\ memory'[m].status = "none" => recalled'[m] = PruneDays
                        /\ m \in Live' /\ recalled'[m] < PruneDays => Margin(m)'
    BY DEF RecallHelps
  <2>3. /\ recalled'[m] = AtMost(recalled[m] + 1, PruneDays)
        /\ memory'[m].status = memory[m].status
        /\ memory'[m].score = memory[m].score
        /\ m \in Live => memory'[m].idle = AtMost(memory[m].idle + 1, PruneDays)
        /\ phase' = phase
    BY <1>2 DEF Day, MemoryType, Live
  <2>4. m \in Live' <=> m \in Live
    BY <2>3 DEF Live
  <2>5. recalled[m] \in 0..PruneDays /\ memory[m].idle \in 0..PruneDays
    BY DEF MemoryType
  <2> QED
    BY <2>1, <2>3, <2>4, <2>5 DEF RecallHelps, Margin
<1>3. CASE Stop
  BY <1>3 DEF Stop, RecallHelps, Margin, Live
<1>4. CASE Decay
  BY <1>4 DEF Decay, RecallHelps, Margin, Live, MemoryType, Scores
<1>5. CASE Prune
  BY <1>5 DEF Prune, RecallHelps, Margin, Live
<1>6. CASE ServeAnyway
  BY <1>6 DEF ServeAnyway, RecallHelps, Margin, Live
<1>7. CASE UNCHANGED vars
  BY <1>7 DEF vars, RecallHelps, Margin, Live
<1> QED
  BY <1>1, <1>2, <1>3, <1>4, <1>5, <1>6, <1>7 DEF Next

LEMMA MarginKeeps ==
    ASSUME TypeOK, RecallHelps, [Next]_vars, phase = "decayed",
           NEW m \in Live, recalled[m] < PruneDays
    PROVE  memory'[m].status = "live"
<1>1. m \in Memories /\ memory[m].status = "live" /\ ~Forgettable(m)
  <2>1. m \in Memories /\ memory[m].status = "live" /\ Margin(m)
    BY DEF RecallHelps, Live
  <2>2. /\ memory[m].score \in Int /\ memory[m].idle \in Int
        /\ recalled[m] \in Int /\ PruneDays \in Int
    BY <2>1, MemoryAssumption DEF TypeOK, MemoryType, Scores
  <2> QED
    BY <2>1, <2>2 DEF Margin, Forgettable
<1>2. memory[m] \in MemoryType /\ memory \in [Memories -> MemoryType]
  BY <1>1 DEF TypeOK
<1>3. ASSUME NEW a \in Threads, Use(a) PROVE memory'[m].status = "live"
  <2>1. ~Free(a)
    BY DEF Free
  <2>2. Write(a) \/ WriteFails(a)
    BY <1>3, <2>1 DEF Use, Save, Forget, Recall
  <2>3. CASE WriteFails(a)
    BY <1>1, <2>3 DEF WriteFails
  <2>4. CASE Write(a)
    <3>1. PICK n \in task[a].left :
             IF n \in Live
             THEN memory' = [memory EXCEPT ![n].score = task[a].new[n],
                                           ![n].idle = task[a].days]
             ELSE UNCHANGED memory
      BY <2>4 DEF Write
    <3>2. n \in Memories
      BY DEF TypeOK, TaskType
    <3>3. CASE n = m
      BY <1>1, <1>2, <3>1, <3>3 DEF MemoryType
    <3>4. CASE n # m
      BY <1>1, <1>2, <3>1, <3>2, <3>4
    <3> QED
      BY <3>3, <3>4
  <2> QED
    BY <2>2, <2>3, <2>4
<1>4. CASE Day
  BY <1>1, <1>2, <1>4 DEF Day, MemoryType
<1>5. CASE Prune
  BY <1>1, <1>5 DEF Prune
<1>6. CASE Stop \/ Decay \/ ServeAnyway \/ UNCHANGED vars
  BY <1>1, <1>6 DEF Stop, Decay, ServeAnyway, vars
<1> QED
  BY <1>3, <1>4, <1>5, <1>6 DEF Next

\* A recall of the last life keeps a memory through the start's decay and
\* prune, whatever recalls, writes and failures overlapped with it.
THEOREM RecalledStay == Spec => RecalledMemoriesStay
<1>1. Init => RecallHelps
  BY MemoryAssumption DEF Init, NoMemory, RecallHelps, Live
<1>2. TypeOK /\ RecallHelps /\ [Next]_vars => RecallHelps'
  BY StepHelps
<1>3. TypeOK /\ RecallHelps /\ [Next]_vars =>
        [phase = "decayed" =>
           \A m \in Live : recalled[m] < PruneDays => memory'[m].status = "live"]_vars
  BY MarginKeeps
<1> QED
  BY TypeCorrect, <1>1, <1>2, <1>3, PTL DEF Spec, RecalledMemoriesStay
=============================================================================
