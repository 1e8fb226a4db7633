----------------------- MODULE MemoryConsolidationProofs ------------------------
(* Proofs about the consolidation of memories (MemoryConsolidation), for any   *)
(* number of threads, processes, faults and stalls.                            *)
EXTENDS MemoryConsolidation, FiniteSetTheorems, TLAPS

USE ConsolidationAssumption DEF ConsolidationAssumption

-----------------------------------------------------------------------------
(* Types *)

(* Each field of the job on its own.                                           *)
LEMMA StatusType ==
    ASSUME NEW j \in Job, NEW s \in {"pending", "running", "error", "done"}
    PROVE  [j EXCEPT !.status = s] \in Job
  BY DEF Job

LEMMA LeaseType ==
    ASSUME NEW j \in Job, NEW n \in 0..Lease
    PROVE  [j EXCEPT !.lease = n] \in Job
  BY DEF Job

LEMMA RetryType ==
    ASSUME NEW j \in Job, NEW n \in 0..RetryDelay
    PROVE  [j EXCEPT !.retry = n] \in Job
  BY DEF Job

LEMMA CoolType ==
    ASSUME NEW j \in Job, NEW n \in 0..Cooldown
    PROVE  [j EXCEPT !.cool = n] \in Job
  BY DEF Job

(* What the job becomes when it is enqueued, given up or done is a job.        *)
LEMMA EnqueuedType ==
    ASSUME NEW j \in Job \cup {None}
    PROVE  Enqueued(j) \in Job
  <1>1. CASE j = None
    BY <1>1 DEF Enqueued, Job
  <1>2. CASE j \in Job
    <2> DEFINE k == [j EXCEPT !.status = "pending"]
    <2>1. k \in Job
      BY <1>2, StatusType
    <2>2. [k EXCEPT !.retry = 0] \in Job
      <3> HIDE DEF k
      <3> QED  BY <2>1, RetryType
    <2> QED
      BY <1>2, <2>2 DEF Enqueued
  <1> QED
    BY <1>1, <1>2

LEMMA EnqueueIfType ==
    ASSUME job \in Job \cup {None}, NEW b, EnqueueIf(b)
    PROVE  job' \in Job \cup {None}
  BY EnqueuedType DEF EnqueueIf

LEMMA FailedType ==
    ASSUME job \in Job \cup {None}, NEW p \in Procs, Failed(p)
    PROVE  job' \in Job \cup {None}
  <1>1. CASE Owns(p)
    <2> DEFINE k == [job EXCEPT !.status = "error"]
               l == [k EXCEPT !.lease = 0]
               m == [l EXCEPT !.retry = RetryDelay]
               n == [m EXCEPT !.cool = 0]
    <2>1. k \in Job
      BY <1>1, StatusType DEF Owns
    <2>2. l \in Job
      <3> HIDE DEF k
      <3> QED  BY <2>1, LeaseType
    <2>3. m \in Job
      <3> HIDE DEF l
      <3> QED  BY <2>2, RetryType
    <2>4. n \in Job
      <3> HIDE DEF m
      <3> QED  BY <2>3, CoolType
    <2> QED
      BY <1>1, <2>4 DEF Failed
  <1> QED
    BY <1>1 DEF Failed

LEMMA SucceededType ==
    ASSUME job \in Job \cup {None}, marked \subseteq Threads, NEW p \in Procs,
           Succeeded(p)
    PROVE  job' \in Job \cup {None} /\ marked' \subseteq Threads
  <1>1. CASE Owns(p)
    <2> DEFINE k == [job EXCEPT !.status = "done"]
               l == [k EXCEPT !.lease = 0]
               m == [l EXCEPT !.cool = Cooldown]
    <2>1. k \in Job
      BY <1>1, StatusType DEF Owns
    <2>2. l \in Job
      <3> HIDE DEF k
      <3> QED  BY <2>1, LeaseType
    <2>3. m \in Job
      <3> HIDE DEF l
      <3> QED  BY <2>2, CoolType
    <2> QED
      BY <1>1, <2>3 DEF Succeeded
  <1> QED
    BY <1>1 DEF Succeeded

LEMMA EndType ==
    ASSUME TypeOK, NEW p \in Procs, End(p)
    PROVE  /\ pc' \in [Procs -> {"idle", "claimed", "keys", "unchanged", "agent",
                                 "closing", "confirmed", "reset"}]
           /\ inputs' \in [Procs -> Inputs]
  BY DEF TypeOK, End, NoInputs, Inputs, Stamps

LEMMA PartlySyncedType ==
    ASSUME TypeOK, NEW p \in Procs, NEW w \in PartlySynced(p)
    PROVE  w \in Workspace /\ w.memory = ws.memory
  <1>1. Unchanged(inputs[p]) \in Inputs
    BY DEF TypeOK, Unchanged, Inputs, Stamps
  <1> QED
    BY <1>1 DEF TypeOK, PartlySynced, Workspace, Inputs

LEMMA InitType == Init => TypeOK
  <1>1. Init => torn \in BOOLEAN
    BY DEF Init
  <1> QED
    BY <1>1 DEF Init, TypeOK, Inputs, Stamps, NoInputs, Workspace

LEMMA RowsType ==
    ASSUME TypeOK, NEW t \in Threads,
           \/ StageOneOutput(t) \/ StageOneNoOutput(t) \/ DeleteThreadMemory(t)
           \/ Prune(t) \/ RecordUsage(t) \/ Pollute(t)
    PROVE  TypeOK'
  <1>1. CASE StageOneOutput(t)
    <2>1. stamp' \in Stamps /\ output' \in Inputs
      BY <1>1 DEF StageOneOutput, TypeOK, Inputs, Stamps
    <2> QED
      BY <1>1, <2>1, EnqueueIfType DEF StageOneOutput, TypeOK, workVars, procVars
  <1>2. ASSUME RemoveRow(t)
        PROVE  output' \in Inputs /\ usage' \in [Threads -> 0..MaxUsage]
               /\ marked' \subseteq Threads
    BY <1>2 DEF RemoveRow, TypeOK, Inputs, Stamps
  <1>3. CASE StageOneNoOutput(t)
    BY <1>2, <1>3, EnqueueIfType DEF StageOneNoOutput, TypeOK, workVars, procVars
  <1>4. CASE DeleteThreadMemory(t)
    BY <1>2, <1>4, EnqueueIfType DEF DeleteThreadMemory, TypeOK, workVars, procVars
  <1>5. CASE Prune(t)
    BY <1>2, <1>5 DEF Prune, TypeOK, workVars, procVars
  <1>6. CASE RecordUsage(t)
    BY <1>6 DEF RecordUsage, TypeOK, workVars, procVars
  <1>7. CASE Pollute(t)
    BY <1>7, EnqueueIfType DEF Pollute, TypeOK, workVars, procVars
  <1> QED
    BY <1>1, <1>3, <1>4, <1>5, <1>6, <1>7

LEMMA SelectionType == TypeOK => Selection \in Inputs
  BY DEF TypeOK, Selection, Inputs, Stamps

LEMMA UnchangedType ==
    ASSUME TypeOK, NEW i \in Inputs
    PROVE  Unchanged(i) \in Inputs
  BY DEF Unchanged, Inputs, Stamps

LEMMA StepType ==
    ASSUME TypeOK, NEW p \in Procs, Claim(p) \/ Step(p)
    PROVE  TypeOK'
  <1>1. CASE Claim(p)
    BY <1>1 DEF Claim, TypeOK, Job, rowVars, workVars
  <1>2. CASE LoadKeys(p)
    BY <1>2, SelectionType DEF LoadKeys, TypeOK, Prepared, rowVars
  <1>3. CASE Sync(p)
    <2>1. Unchanged(inputs[p]) \in Inputs
      BY UnchangedType DEF TypeOK
    <2>2. ws' \in Workspace
      BY <1>3, <2>1 DEF Sync, TypeOK, Workspace
    <2>3. inputs' \in [Procs -> Inputs]
      BY <1>3, <2>1 DEF Sync, TypeOK
    <2> QED
      BY <1>3, <2>2, <2>3 DEF Sync, TypeOK, rowVars
  <1>9. CASE DiffFails(p)
    <2>1. Unchanged(inputs[p]) \in Inputs
      BY UnchangedType DEF TypeOK
    <2>2. ws' \in Workspace
      BY <1>9, <2>1 DEF DiffFails, TypeOK, Workspace
    <2> QED
      BY <1>9, <2>2, FailedType, EndType DEF DiffFails, TypeOK, rowVars
  <1>4. CASE SucceedUnchanged(p)
    BY <1>4, SucceededType, EndType DEF SucceedUnchanged, TypeOK, workVars
  <1>5. CASE AgentCompletes(p)
    <2>1. ws' \in Workspace
      BY <1>5 DEF AgentCompletes, TypeOK, Workspace
    <2>2. CASE Owns(p)
      BY <1>5, <2>1, <2>2 DEF AgentCompletes, Owns, TypeOK, Job, rowVars
    <2>3. CASE ~Owns(p)
      BY <1>5, <2>1, <2>3, EndType DEF AgentCompletes, TypeOK, rowVars
    <2> QED
      BY <2>2, <2>3
  <1>6. CASE AgentClosed(p)
    BY <1>6, EndType DEF AgentClosed, TypeOK, rowVars, workVars
  <1>7. CASE ResetBaseline(p)
    BY <1>7 DEF ResetBaseline, TypeOK, rowVars
  <1>8. CASE SucceedCommitted(p)
    BY <1>8, SucceededType, EndType DEF SucceedCommitted, TypeOK, workVars
  <1> QED
    BY <1>1, <1>2, <1>3, <1>4, <1>5, <1>6, <1>7, <1>8, <1>9 DEF Step

LEMMA AgentType ==
    ASSUME TypeOK, NEW p \in Procs,
           \/ Heartbeat(p) \/ ClosingAgentEdits(p)
           \/ StepFails(p) \/ AgentFails(p) \/ ResetFails(p) \/ Crash(p)
    PROVE  TypeOK'
  <1>1. CASE Heartbeat(p)
    <2>1. job' \in Job \cup {None}
      BY <1>1, FailedType DEF Heartbeat, TypeOK, Owns, Job
    <2> QED
      BY <1>1, <2>1 DEF Heartbeat, Stall, TypeOK, rowVars, workVars
  <1>2. CASE ClosingAgentEdits(p)
    BY <1>2 DEF ClosingAgentEdits, TypeOK, Workspace, rowVars, procVars
  <1>3. CASE StepFails(p)
    <2>1. ws' \in Workspace
      BY <1>3, PartlySyncedType DEF StepFails, TypeOK
    <2> QED
      BY <1>3, <2>1, FailedType, EndType DEF StepFails, Fault, TypeOK, rowVars
  <1>4. CASE AgentFails(p)
    <2>1. ws' \in Workspace
      BY <1>4 DEF AgentFails, TypeOK, Workspace
    <2> QED
      BY <1>4, <2>1, FailedType, EndType DEF AgentFails, Fault, TypeOK, rowVars
  <1>5. CASE ResetFails(p)
    <2>1. base' \in Workspace \cup {None} /\ torn' \in BOOLEAN
      BY <1>5 DEF ResetFails, CutShort, TypeOK
    <2> QED
      BY <1>5, <2>1, FailedType, EndType DEF ResetFails, Fault, TypeOK, rowVars
  <1>6. CASE Crash(p)
    <2>1. ws' \in Workspace
      BY <1>6, PartlySyncedType DEF Crash, TypeOK, Workspace
    <2>2. base' \in Workspace \cup {None} /\ torn' \in BOOLEAN
      BY <1>6 DEF Crash, CutShort, TypeOK
    <2> QED
      BY <1>6, <2>1, <2>2, EndType DEF Crash, Fault, TypeOK, rowVars
  <1> QED
    BY <1>1, <1>2, <1>3, <1>4, <1>5, <1>6

LEMMA TickJob == ASSUME TypeOK, Tick PROVE job' \in Job
  <1> DEFINE a == IF job.lease > 0 THEN job.lease - 1 ELSE 0
             b == IF job.retry > 0 THEN job.retry - 1 ELSE 0
             c == IF job.cool > 0 THEN job.cool - 1 ELSE 0
             k == [job EXCEPT !.lease = a]
             l == [k EXCEPT !.retry = b]
             m == [l EXCEPT !.cool = c]
  <1>0. job \in Job /\ a \in 0..Lease /\ b \in 0..RetryDelay /\ c \in 0..Cooldown
    BY DEF Tick, TypeOK, Job
  <1> QED
    <2>1. job' = m
      BY <1>0 DEF Tick, Job
    <2> HIDE DEF a, b, c
    <2>2. k \in Job
      BY <1>0, LeaseType
    <2>3. l \in Job
      <3> HIDE DEF k
      <3> QED  BY <1>0, <2>2, RetryType
    <2>4. m \in Job
      <3> HIDE DEF l
      <3> QED  BY <1>0, <2>3, CoolType
    <2> QED
      BY <2>1, <2>4

LEMMA TickType == ASSUME TypeOK, Tick PROVE TypeOK'
  <1>1. job' \in Job
    BY TickJob
  <1>2. stalls' \in 0..MaxFaults
    BY DEF Tick, TypeOK, Stall
  <1> QED
    BY <1>1, <1>2 DEF Tick, TypeOK, rowVars, workVars, procVars

(* The state has its type, whatever fails and whoever dies.                    *)
THEOREM TypeCorrect == Spec => []TypeOK
  <1>1. TypeOK /\ UNCHANGED vars => TypeOK'
    BY DEF TypeOK, vars, rowVars, workVars, procVars
  <1>2. TypeOK /\ [Next]_vars => TypeOK'
    BY <1>1, RowsType, StepType, AgentType, TickType DEF Next
  <1> QED
    BY <1>2, InitType, PTL DEF Spec

-----------------------------------------------------------------------------
(* The inductive invariant *)

(* A process between its claim and the end of its run holds the job under a    *)
(* lease that has not run out, and no agent outlives its run.                  *)
LeaseHeld ==
    \A p \in Procs : pc[p] # "idle" => /\ pc[p] # "closing"
                                       /\ Owns(p) /\ job.lease > 0

(* What it found or made on its way is still there.                            *)
BaseExists ==
    \A p \in Procs : pc[p] \notin {"idle", "claimed"} => base # None
InputsSynced ==
    \A p \in Procs : pc[p] \in {"agent", "confirmed"} => ws.inputs = inputs[p]
InputsCommitted ==
    \A p \in Procs : pc[p] \in {"unchanged", "reset"} => base.inputs = inputs[p]
ConfirmedDigested ==
    \A p \in Procs : pc[p] = "confirmed" => ws.memory = inputs[p]

(* What is committed, or would be by the next process, is digested.            *)
Digested(w) ==
    w.memory = w.inputs \/ w = [inputs |-> NoInputs, memory |-> Absent]
CommittedDigested == IF base # None THEN Digested(base) ELSE Digested(ws)

MarksCommitted ==
    \A t \in marked : job.status = "done" => base # None /\ base.inputs[t] # 0

(* All this until a live process first lets its lease run out.                 *)
Calm == /\ LeaseHeld
        /\ BaseExists /\ InputsSynced /\ InputsCommitted
        /\ ConfirmedDigested /\ CommittedDigested
        /\ MarksCommitted

(* Always: a marked row exists, and then the job does too.                     *)
MarksHaveRows ==
    /\ job = None => marked = {}
    /\ \A t \in marked : output[t] # 0

Inv == TypeOK /\ MarksHaveRows /\ (stalls = 0 => Calm)

-----------------------------------------------------------------------------
(* What the operations do to the job *)

LEMMA OneOwner ==
    ASSUME NEW p, NEW q, Owns(p), Owns(q)
    PROVE  p = q
  BY DEF Owns

(* An enqueued job goes on if it runs, and is never done by it.                *)
LEMMA EnqueueEffect ==
    ASSUME TypeOK, job' = Enqueued(job) \/ job' = job
    PROVE  /\ \A p \in Procs : Owns(p)' <=> Owns(p)
           /\ \A p \in Procs : Owns(p) => job' = job
           /\ job' = None => job = None
           /\ job' # None /\ job'.status = "done" => job' = job
  <1>1. Enqueued(job) \in Job
    BY EnqueuedType DEF TypeOK
  <1>2. CASE job = None
    BY <1>1, <1>2 DEF Enqueued, Owns
  <1>3. CASE job \in Job /\ job.status = "running"
    BY <1>3 DEF Enqueued, Owns
  <1>4. CASE job \in Job /\ job.status # "running"
    <2>1. Enqueued(job).status = "pending"
      BY <1>4 DEF Enqueued, Job
    <2> QED
      BY <1>1, <1>4, <2>1 DEF Owns
  <1> QED
    BY <1>2, <1>3, <1>4 DEF TypeOK

(* Giving the job up or finishing it concerns only its owner.                  *)
LEMMA FailedEffect ==
    ASSUME TypeOK, NEW p \in Procs, Failed(p)
    PROVE  /\ ~Owns(p)'
           /\ \A q \in Procs \ {p} : Owns(q)' <=> Owns(q)
           /\ \A q \in Procs \ {p} : Owns(q) => job' = job
           /\ job' = None => job = None
           /\ job' # None /\ job'.status = "done" => job' = job
  <1>1. CASE Owns(p)
    <2>1. job' \in Job \cup {None} /\ job \in Job
      BY <1>1, FailedType DEF TypeOK, Owns
    <2>2. job'.status = "error"
      BY <1>1, <2>1 DEF Failed, Job
    <2>3. job' # None
      <3> DEFINE k == [job EXCEPT !.status = "error"]
                 l == [k EXCEPT !.lease = 0]
                 r == [l EXCEPT !.retry = RetryDelay]
      <3>1. k \in Job
        BY <2>1, StatusType
      <3>2. l \in Job
        <4> HIDE DEF k
        <4> QED  BY <3>1, LeaseType
      <3>3. r \in Job
        <4> HIDE DEF l
        <4> QED  BY <3>2, RetryType
      <3>4. [r EXCEPT !.cool = 0] \in Job
        <4> HIDE DEF r
        <4> QED  BY <3>3, CoolType
      <3> QED
        BY <1>1, <3>4 DEF Failed
    <2> QED
      BY <1>1, <2>1, <2>2, <2>3 DEF Owns
  <1>2. CASE ~Owns(p)
    BY <1>2 DEF Failed, Owns
  <1> QED
    BY <1>1, <1>2

LEMMA SucceededEffect ==
    ASSUME TypeOK, NEW p \in Procs, Succeeded(p), Owns(p)
    PROVE  /\ job' \in Job /\ job'.status = "done"
           /\ \A q \in Procs : ~Owns(q)'
           /\ \A q \in Procs \ {p} : ~Owns(q)
           /\ marked' = {t \in Threads : inputs[p][t] # 0 /\ output[t] = inputs[p][t]}
  <1>1. job \in Job
    BY DEF TypeOK, Owns
  <1>2. job'.status = "done"
    BY <1>1 DEF Succeeded, Job
  <1>3. job' \in Job
    <2> DEFINE k == [job EXCEPT !.status = "done"]
               l == [k EXCEPT !.lease = 0]
    <2>1. k \in Job
      BY <1>1, StatusType
    <2>2. l \in Job
      <3> HIDE DEF k
      <3> QED  BY <2>1, LeaseType
    <2>3. [l EXCEPT !.cool = Cooldown] \in Job
      <3> HIDE DEF l
      <3> QED  BY <2>2, CoolType
    <2> QED
      BY <2>3 DEF Succeeded
  <1> QED
    BY <1>2, <1>3 DEF Owns, Succeeded

-----------------------------------------------------------------------------
(* The rows of the marks *)

LEMMA RowsKeepMarks ==
    ASSUME TypeOK, MarksHaveRows, NEW t \in Threads,
           \/ StageOneOutput(t) \/ StageOneNoOutput(t) \/ DeleteThreadMemory(t)
           \/ Prune(t) \/ RecordUsage(t) \/ Pollute(t)
    PROVE  /\ marked' \subseteq marked
           /\ \A u \in marked' : output'[u] # 0
  <1>1. CASE StageOneOutput(t)
    BY <1>1 DEF StageOneOutput, MarksHaveRows, TypeOK, Inputs, Stamps
  <1>2. CASE RemoveRow(t)
    BY <1>2 DEF RemoveRow, MarksHaveRows, TypeOK, Inputs, Stamps
  <1>3. CASE RecordUsage(t) \/ Pollute(t)
    BY <1>3 DEF RecordUsage, Pollute, MarksHaveRows
  <1> QED
    BY <1>1, <1>2, <1>3 DEF StageOneNoOutput, DeleteThreadMemory, Prune

LEMMA RowsEnqueue ==
    ASSUME NEW t \in Threads,
           \/ StageOneOutput(t) \/ StageOneNoOutput(t) \/ DeleteThreadMemory(t)
           \/ Prune(t) \/ RecordUsage(t) \/ Pollute(t)
    PROVE  /\ UNCHANGED <<ws, base, pc, inputs, stalls>>
           /\ job' = Enqueued(job) \/ job' = job
  BY DEF StageOneOutput, StageOneNoOutput, DeleteThreadMemory, Prune, RecordUsage,
         Pollute, EnqueueIf, workVars, procVars

(* A process that finishes marks rows that exist; no other step of a process   *)
(* touches rows or marks, and none removes the job.                            *)
LEMMA ProcessKeepsMarks ==
    ASSUME TypeOK, MarksHaveRows, NEW p \in Procs,
           \/ Claim(p) \/ Step(p) \/ Heartbeat(p) \/ ClosingAgentEdits(p)
           \/ StepFails(p) \/ AgentFails(p) \/ ResetFails(p) \/ Crash(p)
    PROVE  MarksHaveRows'
  <1>1. CASE SucceedUnchanged(p) \/ SucceedCommitted(p)
    <2>1. Succeeded(p) /\ UNCHANGED output
      BY <1>1 DEF SucceedUnchanged, SucceedCommitted
    <2>2. CASE Owns(p)
      <3>1. /\ job' \in Job
            /\ marked' = {t \in Threads : inputs[p][t] # 0 /\ output[t] = inputs[p][t]}
        BY <2>1, <2>2, SucceededEffect
      <3> QED
        BY <2>1, <3>1 DEF MarksHaveRows
    <2>3. CASE ~Owns(p)
      BY <2>1, <2>3 DEF Succeeded, MarksHaveRows
    <2> QED
      BY <2>2, <2>3
  <1>2. CASE Failed(p) /\ UNCHANGED <<marked, output>>
    <2>1. job' = None => job = None
      BY <1>2, FailedEffect
    <2> QED
      BY <1>2, <2>1 DEF MarksHaveRows
  <1>3. CASE Claim(p)
    <2>1. job' \in Job /\ UNCHANGED <<marked, output>>
      BY <1>3 DEF Claim, Job, rowVars
    <2> QED
      BY <2>1 DEF MarksHaveRows
  <1>4. CASE UNCHANGED <<job, marked, output>>
    BY <1>4 DEF MarksHaveRows
  <1>5. CASE Owns(p) /\ job' = [job EXCEPT !.lease = Lease] /\ UNCHANGED <<marked, output>>
    <2>1. job' \in Job
      BY <1>5, LeaseType DEF TypeOK, Owns
    <2> QED
      BY <1>5, <2>1 DEF MarksHaveRows
  <1>6. CASE LoadKeys(p) \/ Sync(p) \/ DiffFails(p) \/ AgentClosed(p) \/ ResetBaseline(p)
    BY <1>2, <1>4, <1>6
    DEF LoadKeys, Sync, DiffFails, AgentClosed, ResetBaseline, rowVars
  <1>7. CASE AgentCompletes(p)
    BY <1>4, <1>5, <1>7 DEF AgentCompletes, rowVars
  <1>8. CASE Heartbeat(p)
    BY <1>2, <1>4, <1>5, <1>8 DEF Heartbeat, rowVars
  <1>9. CASE ClosingAgentEdits(p) \/ StepFails(p) \/ AgentFails(p) \/ ResetFails(p)
             \/ Crash(p)
    BY <1>2, <1>4, <1>9
    DEF ClosingAgentEdits, StepFails, AgentFails, ResetFails, Crash, rowVars
  <1> QED
    BY <1>1, <1>3, <1>6, <1>7, <1>8, <1>9 DEF Step

-----------------------------------------------------------------------------
(* Every step that is no stall keeps the calm *)

(* One process at most is at work.                                             *)
LEMMA Alone ==
    ASSUME LeaseHeld, NEW p \in Procs, pc[p] # "idle"
    PROVE  /\ Owns(p) /\ job.lease > 0 /\ pc[p] # "closing"
           /\ \A q \in Procs \ {p} : pc[q] = "idle"
  BY OneOwner DEF LeaseHeld

LEMMA InitInv == Init => Inv
  <1> SUFFICES ASSUME Init PROVE Inv
    OBVIOUS
  <1>1. TypeOK
    BY InitType
  <1>2. Calm /\ MarksHaveRows
    BY DEF Init, Calm, LeaseHeld, BaseExists, InputsSynced, InputsCommitted,
           ConfirmedDigested, CommittedDigested, Digested, MarksCommitted, MarksHaveRows
  <1> QED
    BY <1>1, <1>2 DEF Inv

(* The rows change, the job is enqueued; no process and no workspace is        *)
(* concerned.                                                                  *)
LEMMA RowsCalm ==
    ASSUME TypeOK, TypeOK', Calm, MarksHaveRows, NEW t \in Threads,
           \/ StageOneOutput(t) \/ StageOneNoOutput(t) \/ DeleteThreadMemory(t)
           \/ Prune(t) \/ RecordUsage(t) \/ Pollute(t)
    PROVE  Calm' /\ MarksHaveRows'
  <1>1. /\ marked' \subseteq marked
        /\ \A u \in marked' : output'[u] # 0
    BY RowsKeepMarks
  <1>2. UNCHANGED <<ws, base, pc, inputs>> /\ (job' = Enqueued(job) \/ job' = job)
    BY RowsEnqueue
  <1>3. /\ \A p \in Procs : Owns(p)' <=> Owns(p)
        /\ \A p \in Procs : Owns(p) => job' = job
        /\ job' = None => job = None
        /\ job' # None /\ job'.status = "done" => job' = job
    BY <1>2, EnqueueEffect
  <1>4. LeaseHeld'
    BY <1>2, <1>3 DEF Calm, LeaseHeld
  <1>5. BaseExists' /\ InputsSynced' /\ InputsCommitted' /\ ConfirmedDigested'
    BY <1>2 DEF Calm, BaseExists, InputsSynced, InputsCommitted, ConfirmedDigested
  <1>6. CommittedDigested'
    BY <1>2 DEF Calm, CommittedDigested, Digested
  <1>7. MarksHaveRows'
    BY <1>1, <1>3 DEF MarksHaveRows
  <1>8. MarksCommitted'
    <2>1. ASSUME NEW u \in marked', job'.status = "done"
          PROVE  base' # None /\ base'.inputs[u] # 0
      <3>1. job' = job
        BY <1>3, <1>7, <2>1 DEF MarksHaveRows
      <3> QED
        BY <1>1, <1>2, <2>1, <3>1 DEF Calm, MarksCommitted
    <2> QED
      BY <2>1 DEF MarksCommitted
  <1> QED
    BY <1>4, <1>5, <1>6, <1>7, <1>8 DEF Calm

LEMMA ClaimCalm ==
    ASSUME TypeOK, TypeOK', Calm, NEW p \in Procs, Claim(p)
    PROVE  Calm'
  <1>1. /\ job' \in Job /\ job'.status = "running" /\ job'.owner = p
        /\ job'.lease = Lease
    BY DEF Claim, Job
  <1>2. /\ \A q \in Procs : ~(Owns(q) /\ job.lease > 0)
        /\ \A q \in Procs \ {p} : pc'[q] = pc[q]
        /\ pc'[p] = "claimed"
        /\ UNCHANGED <<ws, base, marked>>
    BY DEF Claim, Claimable, Owns, TypeOK, rowVars, workVars
  <1>3. \A q \in Procs \ {p} : pc'[q] = "idle"
    BY <1>2 DEF Calm, LeaseHeld
  <1>4. LeaseHeld'
    BY <1>1, <1>2, <1>3 DEF LeaseHeld, Owns
  <1>5. BaseExists' /\ InputsSynced' /\ InputsCommitted' /\ ConfirmedDigested'
    BY <1>2, <1>3 DEF BaseExists, InputsSynced, InputsCommitted, ConfirmedDigested
  <1>6. CommittedDigested' /\ MarksCommitted'
    BY <1>1, <1>2 DEF Calm, CommittedDigested, Digested, MarksCommitted
  <1> QED
    BY <1>4, <1>5, <1>6 DEF Calm

(* The steps before the agent.                                                 *)
LEMMA LoadKeysCalm ==
    ASSUME TypeOK, TypeOK', Calm, NEW p \in Procs, LoadKeys(p)
    PROVE  Calm'
  <1>1. /\ pc[p] = "claimed" /\ pc'[p] = "keys"
        /\ \A q \in Procs \ {p} : pc'[q] = pc[q]
        /\ UNCHANGED <<job, ws, marked>>
        /\ base' = IF base = None THEN ws ELSE base
    BY DEF LoadKeys, Prepared, TypeOK, rowVars
  <1>2. /\ Owns(p) /\ job.lease > 0 /\ base' # None
        /\ \A q \in Procs \ {p} : pc'[q] = "idle"
    BY <1>1, Alone DEF Calm, TypeOK
  <1>3. LeaseHeld' /\ BaseExists'
    BY <1>1, <1>2 DEF LeaseHeld, BaseExists, Owns
  <1>4. InputsSynced' /\ InputsCommitted' /\ ConfirmedDigested'
    BY <1>1, <1>2 DEF InputsSynced, InputsCommitted, ConfirmedDigested
  <1>5. CommittedDigested' /\ MarksCommitted'
    BY <1>1, <1>2 DEF Calm, CommittedDigested, Digested, MarksCommitted, Owns
  <1> QED
    BY <1>3, <1>4, <1>5 DEF Calm

LEMMA SyncCalm ==
    ASSUME TypeOK, TypeOK', Calm, NEW p \in Procs, Sync(p)
    PROVE  Calm'
  <1>1. /\ pc[p] = "keys" /\ pc'[p] \in {"agent", "unchanged"}
        /\ pc'[p] = "unchanged" => ws' = base
        /\ \A q \in Procs \ {p} : pc'[q] = pc[q]
        /\ UNCHANGED <<job, base, marked>>
    BY DEF Sync, HasChanges, TypeOK, rowVars
  <1>2. ws'.inputs = inputs'[p]
    BY DEF Sync, TypeOK, Workspace
  <1>3. /\ Owns(p) /\ job.lease > 0 /\ base # None
        /\ \A q \in Procs \ {p} : pc'[q] = "idle"
    BY <1>1, Alone DEF Calm, BaseExists
  <1>4. LeaseHeld' /\ BaseExists'
    BY <1>1, <1>3 DEF LeaseHeld, BaseExists, Owns
  <1>5. InputsSynced' /\ InputsCommitted' /\ ConfirmedDigested'
    BY <1>1, <1>2, <1>3 DEF InputsSynced, InputsCommitted, ConfirmedDigested
  <1>6. CommittedDigested' /\ MarksCommitted'
    BY <1>1, <1>3 DEF Calm, CommittedDigested, Digested, MarksCommitted
  <1> QED
    BY <1>4, <1>5, <1>6 DEF Calm

(* Both ways to succeed: what was selected is what the baseline holds.         *)
LEMMA SucceedCalm ==
    ASSUME TypeOK, TypeOK', Calm, NEW p \in Procs,
           SucceedUnchanged(p) \/ SucceedCommitted(p)
    PROVE  Calm'
  <1>1. /\ pc[p] \in {"unchanged", "reset"} /\ pc'[p] = "idle"
        /\ \A q \in Procs \ {p} : pc'[q] = pc[q]
        /\ UNCHANGED <<ws, base>>
        /\ Succeeded(p)
    BY DEF SucceedUnchanged, SucceedCommitted, End, TypeOK, workVars
  <1>2. /\ Owns(p) /\ base # None /\ base.inputs = inputs[p]
        /\ \A q \in Procs : pc'[q] = "idle"
    BY <1>1, Alone DEF Calm, BaseExists, InputsCommitted
  <1>3. marked' = {t \in Threads : inputs[p][t] # 0 /\ output[t] = inputs[p][t]}
    BY <1>1, <1>2, SucceededEffect
  <1>4. LeaseHeld' /\ BaseExists' /\ InputsSynced' /\ InputsCommitted'
        /\ ConfirmedDigested'
    BY <1>2 DEF LeaseHeld, BaseExists, InputsSynced, InputsCommitted, ConfirmedDigested
  <1>5. CommittedDigested' /\ MarksCommitted'
    BY <1>1, <1>2, <1>3 DEF Calm, CommittedDigested, Digested, MarksCommitted
  <1> QED
    BY <1>4, <1>5 DEF Calm

(* The agent belongs to the owner of the job.                                  *)
LEMMA AgentCompletesCalm ==
    ASSUME TypeOK, TypeOK', Calm, NEW p \in Procs, AgentCompletes(p)
    PROVE  Calm'
  <1>1. /\ pc[p] = "agent"
        /\ \A q \in Procs \ {p} : pc'[q] = pc[q]
        /\ UNCHANGED <<base, marked>>
        /\ ws'.inputs = ws.inputs /\ ws'.memory = inputs[p]
    BY DEF AgentCompletes, End, TypeOK, Workspace, rowVars
  <1>2. /\ Owns(p) /\ base # None /\ ws.inputs = inputs[p]
        /\ \A q \in Procs \ {p} : pc'[q] = "idle"
    BY <1>1, Alone DEF Calm, BaseExists, InputsSynced
  <1>3. /\ pc'[p] = "confirmed" /\ inputs'[p] = inputs[p]
        /\ job' \in Job /\ job'.status = "running" /\ job'.owner = p
        /\ job'.lease = Lease
    BY <1>2, LeaseType DEF AgentCompletes, Owns, TypeOK, Job
  <1>4. LeaseHeld' /\ BaseExists'
    BY <1>1, <1>2, <1>3 DEF LeaseHeld, BaseExists, Owns
  <1>5. InputsSynced' /\ InputsCommitted' /\ ConfirmedDigested'
    BY <1>1, <1>2, <1>3 DEF InputsSynced, InputsCommitted, ConfirmedDigested
  <1>6. CommittedDigested' /\ MarksCommitted'
    BY <1>1, <1>2, <1>3 DEF Calm, CommittedDigested, Digested, MarksCommitted
  <1> QED
    BY <1>4, <1>5, <1>6 DEF Calm

LEMMA ResetBaselineCalm ==
    ASSUME TypeOK, TypeOK', Calm, NEW p \in Procs, ResetBaseline(p)
    PROVE  Calm'
  <1>1. /\ pc[p] = "confirmed" /\ pc'[p] = "reset" /\ base' = ws
        /\ \A q \in Procs \ {p} : pc'[q] = pc[q]
        /\ UNCHANGED <<job, ws, inputs, marked>>
    BY DEF ResetBaseline, TypeOK, rowVars
  <1>2. /\ Owns(p) /\ job.lease > 0 /\ base' # None
        /\ ws.inputs = inputs[p] /\ ws.memory = inputs[p]
        /\ \A q \in Procs \ {p} : pc'[q] = "idle"
    BY <1>1, Alone DEF Calm, InputsSynced, ConfirmedDigested, TypeOK
  <1>3. LeaseHeld' /\ BaseExists'
    BY <1>1, <1>2 DEF LeaseHeld, BaseExists, Owns
  <1>4. InputsSynced' /\ InputsCommitted' /\ ConfirmedDigested'
    BY <1>1, <1>2 DEF InputsSynced, InputsCommitted, ConfirmedDigested
  <1>5. CommittedDigested' /\ MarksCommitted'
    BY <1>1, <1>2 DEF CommittedDigested, Digested, MarksCommitted, Owns
  <1> QED
    BY <1>3, <1>4, <1>5 DEF Calm

(* A heartbeat that is no stall renews the lease; agents that lost their job   *)
(* do not exist yet.                                                           *)
LEMMA HeartbeatCalm ==
    ASSUME TypeOK, TypeOK', Calm, NEW p \in Procs, Heartbeat(p), stalls' = 0
    PROVE  Calm'
  <1>1. pc[p] = "agent" /\ UNCHANGED <<ws, base, inputs, marked>>
    BY DEF Heartbeat, rowVars, workVars
  <1>2. Owns(p) /\ \A q \in Procs \ {p} : pc[q] = "idle"
    BY <1>1, Alone DEF Calm
  <1>3. job' = [job EXCEPT !.lease = Lease] /\ UNCHANGED pc
    BY <1>2 DEF Heartbeat, Stall, TypeOK
  <1>4. /\ job' \in Job /\ job'.status = "running" /\ job'.owner = p
        /\ job'.lease = Lease
    BY <1>2, <1>3, LeaseType DEF Owns, TypeOK, Job
  <1>5. LeaseHeld'
    BY <1>1, <1>2, <1>3, <1>4 DEF LeaseHeld, Owns
  <1>6. BaseExists' /\ InputsSynced' /\ InputsCommitted' /\ ConfirmedDigested'
    BY <1>1, <1>3
    DEF Calm, BaseExists, InputsSynced, InputsCommitted, ConfirmedDigested
  <1>7. CommittedDigested' /\ MarksCommitted'
    BY <1>1, <1>4 DEF Calm, CommittedDigested, Digested, MarksCommitted
  <1> QED
    BY <1>5, <1>6, <1>7 DEF Calm

LEMMA NoClosing ==
    ASSUME Calm, NEW p \in Procs, ClosingAgentEdits(p) \/ AgentClosed(p)
    PROVE  FALSE
  BY DEF Calm, LeaseHeld, ClosingAgentEdits, AgentClosed

(* A run that fails or dies leaves the baseline as it was, gone, or replaced   *)
(* by a workspace that is digested.                                            *)
LEMMA FailCalm ==
    ASSUME TypeOK, TypeOK', Calm, NEW p \in Procs,
           DiffFails(p) \/ StepFails(p) \/ AgentFails(p) \/ ResetFails(p) \/ Crash(p)
    PROVE  Calm'
  <1>1. /\ pc[p] # "idle" /\ pc'[p] = "idle"
        /\ \A q \in Procs \ {p} : pc'[q] = pc[q]
        /\ UNCHANGED marked
        /\ Failed(p) \/ UNCHANGED job
    BY DEF DiffFails, StepFails, AgentFails, ResetFails, Crash, End, TypeOK, rowVars
  <1>2. /\ pc[p] # "confirmed" => base' = base
        /\ pc[p] = "confirmed" => base' \in {base, None, ws}
        /\ pc[p] \notin {"keys", "agent", "closing"} => ws' = ws
    BY DEF DiffFails, StepFails, AgentFails, ResetFails, Crash, CutShort, TypeOK
  <1>3. /\ Owns(p) /\ pc[p] # "closing"
        /\ \A q \in Procs : pc'[q] = "idle"
    BY <1>1, Alone DEF Calm
  <1>4. LeaseHeld' /\ BaseExists' /\ InputsSynced' /\ InputsCommitted'
        /\ ConfirmedDigested'
    BY <1>3 DEF LeaseHeld, BaseExists, InputsSynced, InputsCommitted, ConfirmedDigested
  <1>5. CommittedDigested'
    <2>1. CASE pc[p] = "claimed"
      BY <1>2, <2>1 DEF Calm, CommittedDigested, Digested
    <2>2. CASE pc[p] = "confirmed"
      <3>1. Digested(ws) /\ ws' = ws /\ base # None
        BY <1>2, <2>2 DEF Calm, BaseExists, InputsSynced, ConfirmedDigested, Digested
      <3> QED
        BY <1>2, <2>2, <3>1 DEF Calm, CommittedDigested, Digested
    <2>3. CASE pc[p] \in {"keys", "unchanged", "agent", "reset"}
      BY <1>2, <2>3 DEF Calm, BaseExists, CommittedDigested, Digested
    <2> QED
      BY <1>1, <1>3, <2>1, <2>2, <2>3 DEF TypeOK
  <1>6. MarksCommitted'
    <2>1. job # None /\ job.status = "running"
      BY <1>3 DEF Owns
    <2>2. CASE Failed(p)
      <3>1. job'.status = "error"
        BY <1>3, <2>1, <2>2 DEF Failed, TypeOK, Job
      <3> QED
        BY <3>1 DEF MarksCommitted
    <2>3. CASE UNCHANGED job
      BY <2>1, <2>3 DEF MarksCommitted
    <2> QED
      BY <1>1, <2>2, <2>3
  <1> QED
    BY <1>4, <1>5, <1>6 DEF Calm

(* Time takes no lease of a live process without a stall.                      *)
LEMMA TickCalm ==
    ASSUME TypeOK, TypeOK', Calm, Tick, stalls' = 0
    PROVE  Calm'
  <1>1. /\ UNCHANGED <<pc, inputs, ws, base, marked>>
        /\ job \in Job /\ job' \in Job
    BY TickJob DEF Tick, TypeOK, rowVars, workVars, procVars
  <1>2. /\ job'.status = job.status /\ job'.owner = job.owner
        /\ job.lease > 1 => job'.lease > 0
    BY <1>1 DEF Tick, Job
  <1>3. ASSUME NEW q \in Procs, pc[q] # "idle"
        PROVE  Owns(q)' /\ job'.lease > 0 /\ pc[q] # "closing"
    <2>1. Owns(q) /\ job.lease > 0 /\ pc[q] # "closing"
      BY <1>3, Alone DEF Calm
    <2>2. job.lease # 1
      BY <1>3, <2>1 DEF Tick, Stall, TypeOK, Owns
    <2> QED
      BY <1>1, <1>2, <2>1, <2>2 DEF Owns, Job
  <1>4. LeaseHeld'
    BY <1>1, <1>3 DEF LeaseHeld
  <1>5. BaseExists' /\ InputsSynced' /\ InputsCommitted' /\ ConfirmedDigested'
    BY <1>1 DEF Calm, BaseExists, InputsSynced, InputsCommitted, ConfirmedDigested
  <1>6. CommittedDigested' /\ MarksCommitted'
    BY <1>1, <1>2 DEF Calm, CommittedDigested, Digested, MarksCommitted
  <1> QED
    BY <1>4, <1>5, <1>6 DEF Calm

-----------------------------------------------------------------------------
(* The theorems *)

LEMMA StallsCount ==
    ASSUME TypeOK, Next, stalls' = 0
    PROVE  stalls = 0
  <1>1. ASSUME NEW t \in Threads,
               \/ StageOneOutput(t) \/ StageOneNoOutput(t) \/ DeleteThreadMemory(t)
               \/ Prune(t) \/ RecordUsage(t) \/ Pollute(t)
        PROVE  stalls = 0
    BY <1>1, RowsEnqueue
  <1>2. ASSUME NEW p \in Procs, Claim(p) \/ Step(p) \/ ClosingAgentEdits(p)
        PROVE  stalls = 0
    BY <1>2 DEF Step, Claim, LoadKeys, Sync, DiffFails, SucceedUnchanged,
                AgentCompletes, AgentClosed, ResetBaseline, SucceedCommitted,
                ClosingAgentEdits
  <1>3. ASSUME NEW p \in Procs,
               StepFails(p) \/ AgentFails(p) \/ ResetFails(p) \/ Crash(p)
        PROVE  stalls = 0
    BY <1>3 DEF StepFails, AgentFails, ResetFails, Crash
  <1>4. ASSUME Tick \/ \E p \in Procs : Heartbeat(p)
        PROVE  stalls = 0
    BY <1>4 DEF TypeOK, Tick, Heartbeat, Stall
  <1> QED
    BY <1>1, <1>2, <1>3, <1>4 DEF Next

LEMMA InvStep == Inv /\ [Next]_vars => Inv'
  <1>1. Inv /\ UNCHANGED vars => Inv'
    BY DEF Inv, TypeOK, Calm, LeaseHeld, BaseExists, InputsSynced, InputsCommitted,
           ConfirmedDigested, CommittedDigested, Digested, MarksCommitted,
           MarksHaveRows, Owns, vars, rowVars, workVars, procVars
  <1>2. ASSUME Inv, Next PROVE Inv'
    <2>1. TypeOK /\ TypeOK'
      BY <1>2, RowsType, StepType, AgentType, TickType DEF Inv, Next
    <2>2. MarksHaveRows'
      <3>1. ASSUME NEW t \in Threads,
                   \/ StageOneOutput(t) \/ StageOneNoOutput(t) \/ DeleteThreadMemory(t)
                   \/ Prune(t) \/ RecordUsage(t) \/ Pollute(t)
            PROVE  MarksHaveRows'
        <4>1. marked' \subseteq marked /\ \A u \in marked' : output'[u] # 0
          BY <1>2, <3>1, RowsKeepMarks DEF Inv
        <4>2. job' = Enqueued(job) \/ job' = job
          BY <3>1, RowsEnqueue
        <4>3. job' = None => job = None
          BY <2>1, <4>2, EnqueueEffect
        <4> QED
          BY <1>2, <4>1, <4>3 DEF Inv, MarksHaveRows
      <3>2. CASE Tick
        <4>1. job' \in Job /\ UNCHANGED <<marked, output>>
          BY <2>1, <3>2, TickJob DEF Tick, rowVars
        <4> QED
          BY <1>2, <4>1 DEF Inv, MarksHaveRows
      <3> QED
        BY <1>2, <2>1, <3>1, <3>2, ProcessKeepsMarks DEF Inv, Next
    <2>3. ASSUME stalls' = 0 PROVE Calm'
      <3>1. Calm /\ MarksHaveRows
        BY <1>2, <2>1, <2>3, StallsCount DEF Inv
      <3> QED
        BY <1>2, <2>1, <2>3, <3>1, RowsCalm, ClaimCalm, LoadKeysCalm, SyncCalm,
           SucceedCalm, AgentCompletesCalm, ResetBaselineCalm, HeartbeatCalm,
           NoClosing, FailCalm, TickCalm DEF Next, Step
    <2> QED
      BY <2>1, <2>2, <2>3 DEF Inv
  <1> QED
    BY <1>1, <1>2

(* The invariant holds in every reachable state.                               *)
THEOREM Invariance == Spec => []Inv
  BY InitInv, InvStep, PTL DEF Spec

(* As long as every live process kept its lease, the committed memory digests  *)
(* the committed inputs, for any number of failures and deaths of phase2::run  *)
(* and its agent at any step, inside the removal of .git too.                  *)
THEOREM CommitsAreDigested == Spec => []BaselineIsDigested
  <1>1. Inv => BaselineIsDigested
    BY DEF Inv, Calm, CommittedDigested, Digested, BaselineIsDigested
  <1> QED
    BY <1>1, Invariance, PTL

(* Two consolidations meet only after a live process let its lease run out or  *)
(* could not renew it (try_claim_global_phase2_job,                            *)
(* heartbeat_global_phase2_job).                                               *)
THEOREM OverlapsNeedStalls == Spec => []OverlapNeedsStall
  <1>1. ASSUME Inv, stalls = 0
        PROVE  ~(Cardinality(Consolidating) > 1)
    <2>1. \A p \in Consolidating : p \in Procs /\ Owns(p)
      BY <1>1 DEF Inv, Calm, Consolidating, LeaseHeld
    <2>2. CASE Consolidating = {}
      BY <2>2, FS_EmptySet
    <2>3. ASSUME NEW p \in Consolidating
          PROVE  Cardinality(Consolidating) = 1
      <3>1. Consolidating = {p}
        BY <2>1, <2>3, OneOwner
      <3> QED
        BY <3>1, FS_Singleton
    <2> QED
      BY <2>2, <2>3
  <1>2. Inv => OverlapNeedsStall
    BY <1>1 DEF Inv, TypeOK, OverlapNeedsStall
  <1> QED
    BY <1>2, Invariance, PTL

(* A marked row exists, whatever stalls; as long as every lease was held, a    *)
(* job that is done has it in the baseline (mark_global_phase2_job_succeeded   *)
(* and what removes rows).                                                     *)
THEOREM MarksAreCommitted == Spec => []MarkedIsCommitted
  <1>1. Inv => MarkedIsCommitted
    BY DEF Inv, Calm, MarksHaveRows, MarksCommitted, MarkedIsCommitted
  <1> QED
    BY <1>1, Invariance, PTL
=============================================================================
