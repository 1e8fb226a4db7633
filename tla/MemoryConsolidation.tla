-------------------------- MODULE MemoryConsolidation -------------------------
(***************************************************************************)
(* Phase 2 of the Codex memory pipeline (memories/write/src/phase2.rs):    *)
(* a process claims the one global job of the memories database, writes    *)
(* the selected stage-1 outputs into the shared memory workspace, compares *)
(* it with the committed baseline, lets an agent consolidate what changed, *)
(* and commits the workspace as the new baseline.  Meanwhile phase 1       *)
(* changes outputs, threads are polluted or deleted, rows are pruned and   *)
(* used; steps fail, processes die, heartbeats are missed.                 *)
(*                                                                         *)
(* An output is the stamp of its source, 0 for no row.  What the workspace *)
(* holds is two things: the inputs (per thread the stamp of its summary),  *)
(* and the consolidated memory, which is named by the inputs it digests.   *)
(* lease_until, retry_at and finished_at are countdowns, as in             *)
(* MemoryExtraction, and an ownership token is the process that drew it.   *)
(* The job's watermarks are bookkeeping the code never branches on.        *)
(***************************************************************************)
EXTENDS Integers, FiniteSets

CONSTANTS
    Threads,    \* threads with memory
    Procs,      \* processes that run the memories startup
    None,       \* no row
    Absent,     \* MEMORY.md or memory_summary.md missing or malformed
    Partial,    \* an edit of the memory that an agent did not finish
    MaxRaw,     \* max_raw_memories_for_consolidation
    Lease,      \* JOB_LEASE_SECONDS, in ticks
    RetryDelay, \* JOB_RETRY_DELAY_SECONDS, in ticks
    Cooldown,   \* PHASE2_SUCCESS_COOLDOWN_SECONDS, in ticks
    MaxStamp,   \* bound: stage-1 results
    MaxUsage,   \* bound: recorded usages of a row
    MaxFaults   \* bound: failed steps, failed agents, deaths of processes,
                \* heartbeat errors and leases a live process let run out

Stamps == 0..MaxStamp
Inputs == [Threads -> Stamps]
NoInputs == [t \in Threads |-> 0]
Job == [status : {"pending", "running", "error", "done"}, owner : Procs \cup {None},
        lease : 0..Lease, retry : 0..RetryDelay, cool : 0..Cooldown]
Workspace == [inputs : Inputs, memory : Inputs \cup {Absent, Partial}]

ASSUME ConsolidationAssumption ==
    /\ IsFiniteSet(Threads)
    /\ MaxRaw \in Nat /\ Lease \in Nat \ {0} /\ RetryDelay \in Nat
    /\ Cooldown \in Nat /\ MaxStamp \in Nat /\ MaxUsage \in Nat
    /\ MaxFaults \in Nat
    /\ None \notin Job /\ None \notin Workspace

VARIABLES
    stamp,      \* the last source stamp given out
    enabled,    \* per thread: memory_mode = 'enabled'
    output,     \* per thread: source_updated_at of its stage1_outputs row
    usage,      \* per thread: usage_count of that row
    marked,     \* threads whose row has selected_for_phase2
    job,        \* the row of kind memory_consolidate_global
    ws,         \* the memory workspace: [inputs, memory]
    base,       \* its committed baseline, of the same form; None: no usable .git
    torn,       \* of the baseline only the trees are left, not every blob
    pc,         \* per process: where in phase2::run or agent::handle it is
    inputs,     \* per process: threads and stamps it selected, then loaded
    faults,     \* failed steps, failed agents and deaths so far
    stalls      \* heartbeat errors and leases a live process let run out

rowVars == <<stamp, enabled, output, usage, marked>>
workVars == <<ws, base, torn>>
procVars == <<pc, inputs>>
vars == <<rowVars, job, workVars, procVars, faults, stalls>>

-----------------------------------------------------------------------------
(* The rows of stage 1, and the requests to consolidate                    *)

(* enqueue_global_consolidation_with_executor: a job that runs goes on; of *)
(* any other the retry backoff ends, but not the cooldown.                 *)
Enqueued(j) ==
    IF j = None
    THEN [status |-> "pending", owner |-> None, lease |-> 0, retry |-> 0,
          cool |-> 0]
    ELSE IF j.status = "running" THEN j
    ELSE [j EXCEPT !.status = "pending", !.retry = 0]

EnqueueIf(b) == job' = IF b THEN Enqueued(job) ELSE job

(* mark_stage1_job_succeeded: a new row, or a newer source of an old one,  *)
(* whose mark it keeps.                                                    *)
StageOneOutput(t) ==
    /\ stamp < MaxStamp
    /\ stamp' = stamp + 1
    /\ output' = [output EXCEPT ![t] = stamp + 1]
    /\ EnqueueIf(TRUE)
    /\ UNCHANGED <<enabled, usage, marked, workVars, procVars,
                   faults, stalls>>

(* The row goes: mark_stage1_job_succeeded_no_output enqueues whenever     *)
(* there was one, delete_thread_memory only if it was selected, and        *)
(* prune_stage1_outputs_for_retention takes only rows that are not.        *)
RemoveRow(t) ==
    /\ output' = [output EXCEPT ![t] = 0]
    /\ usage' = [usage EXCEPT ![t] = 0]
    /\ marked' = marked \ {t}

StageOneNoOutput(t) ==
    /\ output[t] # 0
    /\ RemoveRow(t)
    /\ EnqueueIf(TRUE)
    /\ UNCHANGED <<stamp, enabled, workVars, procVars, faults, stalls>>

DeleteThreadMemory(t) ==
    /\ output[t] # 0
    /\ RemoveRow(t)
    /\ EnqueueIf(t \in marked)
    /\ UNCHANGED <<stamp, enabled, workVars, procVars, faults, stalls>>

Prune(t) ==
    /\ output[t] # 0 /\ t \notin marked
    /\ RemoveRow(t)
    /\ UNCHANGED <<stamp, enabled, job, workVars, procVars, faults,
                   stalls>>

(* record_stage1_output_usage                                              *)
RecordUsage(t) ==
    /\ output[t] # 0 /\ usage[t] < MaxUsage
    /\ usage' = [usage EXCEPT ![t] = @ + 1]
    /\ UNCHANGED <<stamp, enabled, output, marked, job, workVars,
                   procVars, faults, stalls>>

(* mark_thread_memory_mode_polluted: the mark is read in one database, the *)
(* thread changed in the other, and the job enqueued by what was read,     *)
(* which may be stale by then.  A thread polluted already enqueues too.    *)
Pollute(t) ==
    /\ enabled' = [enabled EXCEPT ![t] = FALSE]
    /\ \E wasMarked \in BOOLEAN : EnqueueIf(wasMarked)
    /\ UNCHANGED <<stamp, output, usage, marked, workVars, procVars, faults,
                   stalls>>

-----------------------------------------------------------------------------
(* phase2::run                                                             *)

(* The processes that inspect or change the workspace: from the claim to   *)
(* the end of their agent.                                                 *)
Consolidating == {p \in Procs : pc[p] # "idle"}

Owns(p) == job # None /\ job.status = "running" /\ job.owner = p

(* Mutant: a running job is taken over under any lease.                    *)
ClaimableAnyLease == job # None => job.retry = 0 /\ job.cool = 0

(* try_claim_global_phase2_job                                             *)
Claimable ==
    job # None =>
        /\ job.retry = 0
        /\ ~(job.status = "running" /\ job.lease > 0)
        /\ job.cool = 0

Claim(p) ==
    /\ pc[p] = "idle" /\ Claimable
    /\ job' = [status |-> "running", owner |-> p, lease |-> Lease, retry |-> 0,
               cool |-> 0]
    /\ pc' = [pc EXCEPT ![p] = "claimed"]
    /\ UNCHANGED <<rowVars, workVars, inputs, faults, stalls>>

(* get_phase2_input_selection ranks the rows of enabled threads ...        *)
Candidates == {t \in Threads : enabled[t] /\ output[t] # 0}
Before(t, u) ==
    \/ usage[t] > usage[u]
    \/ usage[t] = usage[u] /\ output[t] > output[u]
Selection ==
    [t \in Threads |->
        IF t \in Candidates
           /\ Cardinality({u \in Candidates : Before(u, t)}) < MaxRaw
        THEN output[t] ELSE 0]

(* Mutant: the baseline is made anew whether or not there is one.          *)
PreparedAnew == ws

(* prepare_memory_workspace comes first: where no baseline is usable, the  *)
(* workspace as it is becomes one.  Usable means that HEAD and its trees    *)
(* can be read; ensure_git_baseline_repository asks for no blob.           *)
Prepared == IF base = None THEN ws ELSE base

LoadKeys(p) ==
    /\ pc[p] = "claimed"
    /\ base' = Prepared
    /\ inputs' = [inputs EXCEPT ![p] = Selection]
    /\ pc' = [pc EXCEPT ![p] = "keys"]
    /\ UNCHANGED <<rowVars, job, ws, torn, faults, stalls>>

(* ... then reads those that have not changed since, which                 *)
(* sync_phase2_workspace_inputs writes into the workspace.  If nothing     *)
(* differs from the baseline and the artifacts are in place, there is      *)
(* nothing to consolidate.                                                 *)
Unchanged(i) ==
    [t \in Threads |-> IF enabled[t] /\ output[t] = i[t] THEN i[t] ELSE 0]

(* Mutant: only missing artifacts count as a change.                       *)
LacksArtifacts(w) == w.memory = Absent

HasChanges(w) == w # base \/ w.memory = Absent

Sync(p) ==
    /\ pc[p] = "keys"
    /\ inputs' = [inputs EXCEPT ![p] = Unchanged(@)]
    /\ ws' = [ws EXCEPT !.inputs = Unchanged(inputs[p])]
    /\ pc' = [pc EXCEPT ![p] = IF HasChanges(ws') THEN "agent" ELSE "unchanged"]
    /\ UNCHANGED <<rowVars, job, base, torn, faults, stalls>>

(* mark_global_phase2_job_failed; failed_if_unowned matches nothing more,  *)
(* because a running row always has its token.                             *)
Failed(p) ==
    job' = IF Owns(p) THEN [job EXCEPT !.status = "error", !.lease = 0,
                                       !.retry = RetryDelay, !.cool = 0]
           ELSE job

(* Mutant: rows are marked whatever their source is by now.                *)
SucceededWhateverRow(p) ==
    IF Owns(p)
    THEN /\ job' = [job EXCEPT !.status = "done", !.lease = 0, !.cool = Cooldown]
         /\ marked' = {t \in Threads : inputs[p][t] # 0}
    ELSE UNCHANGED <<job, marked>>

(* mark_global_phase2_job_succeeded: only rows whose source is still the   *)
(* one that was consolidated stay marked.                                  *)
Succeeded(p) ==
    IF Owns(p)
    THEN /\ job' = [job EXCEPT !.status = "done", !.lease = 0, !.cool = Cooldown]
         /\ marked' = {t \in Threads : inputs[p][t] # 0
                                       /\ output[t] = inputs[p][t]}
    ELSE UNCHANGED <<job, marked>>

End(p) ==
    /\ pc' = [pc EXCEPT ![p] = "idle"]
    /\ inputs' = [inputs EXCEPT ![p] = NoInputs]

SucceedUnchanged(p) ==
    /\ pc[p] = "unchanged"
    /\ Succeeded(p) /\ End(p)
    /\ UNCHANGED <<stamp, enabled, output, usage, workVars, faults, stalls>>

(* diff_since_latest_init renders every change, and for that reads the blob *)
(* of the file in HEAD (read_head_blob).  If that is one of those missing,  *)
(* the run fails, now and as long as the file differs.                      *)
DiffFails(p) ==
    /\ pc[p] = "keys" /\ torn
    /\ ws' = [ws EXCEPT !.inputs = Unchanged(inputs[p])]
    /\ ws' # base
    /\ Failed(p) /\ End(p)
    /\ UNCHANGED <<rowVars, base, torn, faults, stalls>>

Fault == faults + stalls < MaxFaults /\ faults' = faults + 1
Stall == faults + stalls < MaxFaults /\ stalls' = stalls + 1

(* A sync that stops half way has written the inputs of some threads.      *)
PartlySynced(p) ==
    {[ws EXCEPT !.inputs = [t \in Threads |-> IF t \in T THEN Unchanged(inputs[p])[t]
                                             ELSE ws.inputs[t]]] :
        T \in SUBSET Threads}

(* A step before the agent fails, the sync perhaps half done.              *)
StepFails(p) ==
    /\ pc[p] \in {"claimed", "keys"} /\ Fault
    /\ ws' \in IF pc[p] = "keys" THEN PartlySynced(p) ELSE {ws}
    /\ Failed(p) /\ End(p)
    /\ UNCHANGED <<rowVars, base, torn, stalls>>

-----------------------------------------------------------------------------
(* agent::handle and loop_agent                                            *)

(* The agent finished: the memory digests the inputs it was given, and the *)
(* artifacts are valid.  The heartbeat that follows decides: no baseline is *)
(* reset without the lock.                                                 *)
AgentCompletes(p) ==
    /\ pc[p] = "agent"
    /\ ws' = [ws EXCEPT !.memory = inputs[p]]
    /\ IF Owns(p)
       THEN /\ job' = [job EXCEPT !.lease = Lease]
            /\ pc' = [pc EXCEPT ![p] = "confirmed"] /\ UNCHANGED inputs
       ELSE End(p) /\ UNCHANGED job
    /\ UNCHANGED <<rowVars, base, torn, faults, stalls>>

(* The agent errors half way, what it leaves does not validate, or the     *)
(* heartbeat after it fails.                                               *)
AgentFails(p) ==
    /\ pc[p] = "agent" /\ Fault
    /\ \E m \in {ws.memory, Partial, Absent, inputs[p]} : ws' = [ws EXCEPT !.memory = m]
    /\ Failed(p) /\ End(p)
    /\ UNCHANGED <<rowVars, base, torn, stalls>>

(* Mutant: the lease is extended by another lease.                         *)
HeartbeatExtends(p) ==
    /\ pc[p] = "agent"
    /\ \/ Owns(p) /\ job' = [job EXCEPT !.lease = @ + Lease]
          /\ UNCHANGED <<pc, stalls>>
       \/ /\ Owns(p) /\ Stall
          /\ Failed(p)
          /\ pc' = [pc EXCEPT ![p] = "closing"]
       \/ ~Owns(p) /\ pc' = [pc EXCEPT ![p] = "closing"]
          /\ UNCHANGED <<job, stalls>>
    /\ UNCHANGED <<rowVars, workVars, inputs, faults>>

(* heartbeat_global_phase2_job while the agent runs.  When the update      *)
(* fails, or the row has another owner, the job is given up at once and    *)
(* the agent, which still runs, is shut down by a task of its own.         *)
Heartbeat(p) ==
    /\ pc[p] = "agent"
    /\ \/ Owns(p) /\ job' = [job EXCEPT !.lease = Lease]
          /\ UNCHANGED <<pc, stalls>>
       \/ /\ Owns(p) /\ Stall
          /\ Failed(p)
          /\ pc' = [pc EXCEPT ![p] = "closing"]
       \/ ~Owns(p) /\ pc' = [pc EXCEPT ![p] = "closing"]
          /\ UNCHANGED <<job, stalls>>
    /\ UNCHANGED <<rowVars, workVars, inputs, faults>>

(* Until then it goes on editing.                                          *)
ClosingAgentEdits(p) ==
    /\ pc[p] = "closing"
    /\ \E m \in {Partial, inputs[p]} : ws' = [ws EXCEPT !.memory = m]
    /\ UNCHANGED <<rowVars, job, base, torn, procVars, faults, stalls>>

AgentClosed(p) ==
    /\ pc[p] = "closing"
    /\ End(p)
    /\ UNCHANGED <<rowVars, job, workVars, faults, stalls>>

(* reset_memory_workspace_baseline removes .git before it commits anew.    *)
ResetBaseline(p) ==
    /\ pc[p] = "confirmed"
    /\ base' = ws /\ torn' = FALSE
    /\ pc' = [pc EXCEPT ![p] = "reset"]
    /\ UNCHANGED <<rowVars, job, ws, inputs, faults, stalls>>

(* Cut short, it leaves the old baseline, some of its objects or none.     *)
CutShort ==
    \/ UNCHANGED <<base, torn>>
    \/ base # None /\ torn' = TRUE /\ UNCHANGED base
    \/ base' = None /\ torn' = FALSE

ResetFails(p) ==
    /\ pc[p] = "confirmed" /\ Fault
    /\ CutShort \/ (base' = ws /\ torn' = FALSE)
    /\ Failed(p) /\ End(p)
    /\ UNCHANGED <<rowVars, ws, stalls>>

SucceedCommitted(p) ==
    /\ pc[p] = "reset"
    /\ Succeeded(p) /\ End(p)
    /\ UNCHANGED <<stamp, enabled, output, usage, workVars, faults, stalls>>

(* The process dies, and its agent with it.                                *)
Crash(p) ==
    /\ pc[p] # "idle" /\ Fault
    /\ ws' \in CASE pc[p] = "keys" -> PartlySynced(p)
                 [] pc[p] \in {"agent", "closing"} ->
                      {ws, [ws EXCEPT !.memory = Partial]}
                 [] OTHER -> {ws}
    /\ IF pc[p] = "confirmed" THEN CutShort ELSE UNCHANGED <<base, torn>>
    /\ End(p)
    /\ UNCHANGED <<rowVars, job, stalls>>

(* Time passes.  A live process that is suspended or slow may let its      *)
(* lease run out at any step, and goes on with it when it wakes.           *)
Tick ==
    /\ job # None /\ (job.lease > 0 \/ job.retry > 0 \/ job.cool > 0)
    /\ IF job.lease = 1 /\ pc[job.owner] # "idle" /\ Owns(job.owner)
       THEN Stall
       ELSE UNCHANGED stalls
    /\ job' = [job EXCEPT !.lease = IF @ > 0 THEN @ - 1 ELSE 0,
                          !.retry = IF @ > 0 THEN @ - 1 ELSE 0,
                          !.cool = IF @ > 0 THEN @ - 1 ELSE 0]
    /\ UNCHANGED <<rowVars, workVars, procVars, faults>>

-----------------------------------------------------------------------------
Init ==
    /\ stamp = 0
    /\ enabled = [t \in Threads |-> TRUE]
    /\ output = [t \in Threads |-> 0] /\ usage = [t \in Threads |-> 0]
    /\ marked = {}
    /\ job = None
    /\ ws = [inputs |-> NoInputs, memory |-> Absent] /\ base = None /\ torn = FALSE
    /\ pc = [p \in Procs |-> "idle"]
    /\ inputs = [p \in Procs |-> NoInputs]
    /\ faults = 0 /\ stalls = 0

(* What a live process does by itself.                                     *)
Step(p) ==
    \/ LoadKeys(p) \/ Sync(p) \/ DiffFails(p) \/ SucceedUnchanged(p)
    \/ AgentCompletes(p) \/ AgentClosed(p)
    \/ ResetBaseline(p) \/ SucceedCommitted(p)

Next ==
    \/ \E t \in Threads :
          \/ StageOneOutput(t) \/ StageOneNoOutput(t) \/ DeleteThreadMemory(t)
          \/ Prune(t) \/ RecordUsage(t) \/ Pollute(t)
    \/ \E p \in Procs :
          \/ Claim(p) \/ Step(p) \/ Heartbeat(p) \/ ClosingAgentEdits(p)
          \/ StepFails(p) \/ AgentFails(p) \/ ResetFails(p) \/ Crash(p)
    \/ Tick

Spec == Init /\ [][Next]_vars

(* Sessions keep starting, what a live process began goes on, and time     *)
(* passes.                                                                 *)
FairSpec ==
    /\ Spec
    /\ WF_vars(Tick)
    /\ WF_vars(\E p \in Procs : Claim(p))
    /\ \A p \in Procs : WF_vars(Step(p))

-----------------------------------------------------------------------------
TypeOK ==
    /\ stamp \in Stamps /\ enabled \in [Threads -> BOOLEAN]
    /\ output \in Inputs /\ usage \in [Threads -> 0..MaxUsage]
    /\ marked \subseteq Threads
    /\ job \in Job \cup {None}
    /\ ws \in Workspace /\ base \in Workspace \cup {None} /\ torn \in BOOLEAN
    /\ pc \in [Procs -> {"idle", "claimed", "keys", "unchanged", "agent",
                         "closing", "confirmed", "reset"}]
    /\ inputs \in [Procs -> Inputs]
    /\ faults \in 0..MaxFaults /\ stalls \in 0..MaxFaults

(* As long as no live process let its lease run out, the committed memory  *)
(* digests exactly the committed inputs: no crash, failed step, half-done  *)
(* edit or half-done reset gets inputs into the baseline that no agent has *)
(* read, which the next run would take for nothing to do.                  *)
BaselineIsDigested ==
    stalls = 0 /\ base # None =>
        \/ base.memory = base.inputs
        \/ base = [inputs |-> NoInputs, memory |-> Absent]

(* Only one consolidation inspects or changes the workspace at a time, as  *)
(* memories/README.md says: two meet only after a live process let its     *)
(* lease run out or could not renew it.                                    *)
OverlapNeedsStall == Cardinality(Consolidating) > 1 => stalls > 0

(* A mark is never without what it stands for: the row of a marked thread  *)
(* exists, and, as long as every lease was held, it or an older source of  *)
(* it is in the baseline once the job is done.                             *)
MarkedIsCommitted ==
    \A t \in marked :
        /\ output[t] # 0
        /\ stalls = 0 /\ job.status = "done" => base.inputs[t] # 0

(* Whatever fails, dies or stalls on the way, the committed inputs follow  *)
(* the rows in the end: what was extracted gets in, and the memory of a    *)
(* polluted or deleted thread gets out; unless a reset of the baseline was *)
(* cut short inside the removal of .git and left it without its blobs.     *)
BaselineFollowsRows ==
    <>[](torn \/ (base # None /\ base.inputs = Selection))
===============================================================================
