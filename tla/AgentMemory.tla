---------------------------- MODULE AgentMemory ----------------------------
(***************************************************************************)
(* The agent's memories of one tenant (services/api/src/agent/memory.py    *)
(* and agent/handlers/memory.py).                                          *)
(*                                                                         *)
(* Every prompt and the tool recall_memories read the memories, choose     *)
(* some and write to each its boosted score, computed from what was read:  *)
(* several threads do so at once, without a transaction.  Each start of    *)
(* the process (db/init.py) decays all scores, which commits, and then     *)
(* deletes the memories whose score is too low or that were not used for   *)
(* _PRUNE_DAYS.                                                            *)
(*                                                                         *)
(* A score is counted in the decays that it outlasts before it is below    *)
(* _PRUNE_SCORE: 44 for a new one (0.95^44 > 0.1), 58 at most (for 2.0),   *)
(* and 3 more for each recall (1.2 > 0.95^-3).                             *)
(***************************************************************************)
EXTENDS Integers, FiniteSets

CONSTANTS
    Memories,    \* ids; none is used twice
    Threads,     \* those that build prompts or run tools
    NewScore,    \* the score a memory is saved with
    MaxScore,    \* _MAX_SCORE
    Boost,       \* what a recall adds, _BOOST_FACTOR
    PruneDays,   \* _PRUNE_DAYS
    MaxInjected, \* how many memories a recall returns at most
    Lowest       \* bound: how many decays below _PRUNE_SCORE are told apart

ASSUME MemoryAssumption ==
    /\ NewScore \in Nat /\ MaxScore \in Nat \ {0} /\ NewScore <= MaxScore
    /\ Boost \in Nat \ {0}
    /\ PruneDays \in Nat \ {0}
    /\ MaxInjected \in Nat
    /\ Lowest \in Nat

VARIABLES
    memory,      \* memory[m]: the row of audit.agent_memory
    task,        \* task[a]: the writes a recall still has to do, and its date
    phase,       \* the process: down, between decay and prune, or up
    recalled     \* recalled[m]: days since the recall, in the process's last
                 \* life, that left m above _PRUNE_SCORE; PruneDays without
                 \* one (history, guards nothing)

vars == <<memory, task, phase, recalled>>

NoMemory == [status |-> "none", score |-> 0, idle |-> 0]

Scores == -Lowest..MaxScore

\* A score below 0 is below _PRUNE_SCORE; idle are the days since last_used_at.
MemoryType == [status : {"none", "live", "deleted"}, score : Scores, idle : 0..PruneDays]

TaskType == [left : SUBSET Memories,                \* still to be written
             new : [Memories -> Scores],            \* their new scores
             days : 0..PruneDays]                   \* since "now" was taken

TypeOK ==
    /\ memory \in [Memories -> MemoryType]
    /\ task \in [Threads -> TaskType]
    /\ phase \in {"down", "decayed", "up"}
    /\ recalled \in [Memories -> 0..PruneDays]

Idle == [left |-> {}, new |-> [m \in Memories |-> 0], days |-> 0]

Init ==
    /\ memory = [m \in Memories |-> NoMemory]
    /\ task = [a \in Threads |-> Idle]
    /\ phase = "up"
    /\ recalled = [m \in Memories |-> PruneDays]

Live == {m \in Memories : memory[m].status = "live"}

AtMost(n, max) == IF n < max THEN n ELSE max

Free(a) == phase = "up" /\ task[a].left = {}

----------------------------------------------------------------------------
(***************************************************************************)
(* The tools.                                                              *)
(***************************************************************************)

\* save_memory
Save(a, m) ==
    /\ Free(a)
    /\ memory[m].status = "none"
    /\ memory' = [memory EXCEPT ![m] = [status |-> "live", score |-> NewScore, idle |-> 0]]
    /\ UNCHANGED <<task, phase, recalled>>

\* recall_memories as far as its SELECT: any of the memories may match best.
Recall(a) ==
    /\ Free(a)
    /\ \E top \in SUBSET Live \ {{}} :
          /\ Cardinality(top) <= MaxInjected
          /\ task' = [task EXCEPT ![a] =
                [left |-> top,
                 new |-> [m \in Memories |->
                            IF m \in top THEN AtMost(memory[m].score + Boost, MaxScore) ELSE 0],
                 days |-> 0]]
    /\ UNCHANGED <<memory, phase, recalled>>

\* Mutant: the boost does not touch last_used_at.
WriteScoreOnly(a) ==
    \E m \in task[a].left :
       /\ task' = [task EXCEPT ![a].left = @ \ {m}, ![a].new[m] = 0]
       /\ IF m \in Live
          THEN /\ memory' = [memory EXCEPT ![m].score = task[a].new[m]]
               /\ recalled' = [recalled EXCEPT ![m] =
                                 IF task[a].new[m] > 0 THEN task[a].days ELSE PruneDays]
          ELSE UNCHANGED <<memory, recalled>>
       /\ UNCHANGED phase

\* One UPDATE of recall_memories; a memory that was forgotten stays so.
Write(a) ==
    \E m \in task[a].left :
       /\ task' = [task EXCEPT ![a].left = @ \ {m}, ![a].new[m] = 0]
       /\ IF m \in Live
          THEN /\ memory' = [memory EXCEPT ![m].score = task[a].new[m],
                                           ![m].idle = task[a].days]
               /\ recalled' = [recalled EXCEPT ![m] =
                                 IF task[a].new[m] > 0 THEN task[a].days ELSE PruneDays]
          ELSE UNCHANGED <<memory, recalled>>
       /\ UNCHANGED phase

\* An UPDATE raises: the other memories are not boosted.
WriteFails(a) ==
    /\ task[a].left # {}
    /\ task' = [task EXCEPT ![a] = Idle]
    /\ UNCHANGED <<memory, phase, recalled>>

\* forget_memory
Forget(a, m) ==
    /\ Free(a)
    /\ m \in Live
    /\ memory' = [memory EXCEPT ![m].status = "deleted"]
    /\ UNCHANGED <<task, phase, recalled>>

----------------------------------------------------------------------------
(***************************************************************************)
(* Time, and the starts of the process.                                    *)
(***************************************************************************)

Day ==
    /\ memory' = [m \in Memories |->
                    IF m \in Live THEN [memory[m] EXCEPT !.idle = AtMost(@ + 1, PruneDays)]
                                  ELSE memory[m]]
    /\ task' = [a \in Threads |->
                  IF task[a].left = {} THEN task[a]
                  ELSE [task[a] EXCEPT !.days = AtMost(@ + 1, PruneDays)]]
    /\ recalled' = [m \in Memories |-> AtMost(recalled[m] + 1, PruneDays)]
    /\ UNCHANGED phase

\* The process ends or dies.  If it dies between decay and prune, its next
\* start decays once more.
Stop ==
    /\ phase # "down"
    /\ phase' = "down"
    /\ task' = [a \in Threads |-> Idle]
    /\ recalled' = IF phase = "up" THEN recalled ELSE [m \in Memories |-> PruneDays]
    /\ UNCHANGED memory

\* decay_memories
Decay ==
    /\ phase = "down"
    /\ \A m \in Live : memory[m].score > -Lowest
    /\ phase' = "decayed"
    /\ memory' = [m \in Memories |->
                    IF m \in Live THEN [memory[m] EXCEPT !.score = @ - 1] ELSE memory[m]]
    /\ UNCHANGED <<task, recalled>>

Forgettable(m) == memory[m].score < 0 \/ memory[m].idle = PruneDays

\* prune_memories; then the process serves.
Prune ==
    /\ phase = "decayed"
    /\ phase' = "up"
    /\ memory' = [m \in Memories |->
                    IF m \in Live /\ Forgettable(m) THEN [memory[m] EXCEPT !.status = "deleted"]
                                                    ELSE memory[m]]
    /\ recalled' = [m \in Memories |-> PruneDays]
    /\ UNCHANGED task

\* Decay or prune raised: the process serves without.
ServeAnyway ==
    /\ phase \in {"down", "decayed"}
    /\ phase' = "up"
    /\ recalled' = [m \in Memories |-> PruneDays]
    /\ UNCHANGED <<memory, task>>

Use(a) ==
    \/ \E m \in Memories : Save(a, m) \/ Forget(a, m)
    \/ Recall(a) \/ Write(a) \/ WriteFails(a)

Next ==
    \/ \E a \in Threads : Use(a)
    \/ Day \/ Stop \/ Decay \/ Prune \/ ServeAnyway

Spec == Init /\ [][Next]_vars

----------------------------------------------------------------------------
\* A memory that was recalled in the last life of the process, less than
\* _PRUNE_DAYS ago, survives the start: although overlapping recalls lose
\* boosts, and can lower a score, one of them always outweighs the decay.
\* The exceptions are an earlier attempt to start that decayed the score as
\* well, and a memory that a prune which raised has left so far below
\* _PRUNE_SCORE that the recall did not lift it above.
RecalledMemoriesStay ==
    [][phase = "decayed" =>
         \A m \in Live : recalled[m] < PruneDays => memory'[m].status = "live"]_vars
=============================================================================
