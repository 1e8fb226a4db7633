--------------------------- MODULE MemoryExtraction ---------------------------
(***************************************************************************)
(* Phase 1 of the Codex memory pipeline: every process that starts up      *)
(* (memories/write/src/phase1.rs) scans the threads of the state database, *)
(* claims extraction jobs in the memories database under leases            *)
(* (state/src/runtime/memories.rs), lets a model extract a memory from the *)
(* rollout of each claimed thread, and records the result.  Processes die, *)
(* leases expire and are taken over, threads go on while they are          *)
(* extracted, and memories are pruned, deleted and cleared meanwhile.      *)
(*                                                                         *)
(* A timestamp of the database is a countdown here: `lease' and `retry'    *)
(* say for how long they still hold, and Tick lets an hour pass.  A        *)
(* thread's updated_at is a stamp from one counter; the database keeps it  *)
(* in milliseconds and a claim in seconds, but a thread is claimed only    *)
(* after hours without a turn, so two turns with a claim between them      *)
(* never share a second.  An ownership token is the worker that drew it: a *)
(* worker holds one claim per thread at a time.  What the same operations  *)
(* do to the global job of phase 2 is in MemoryConsolidation.              *)
(***************************************************************************)
EXTENDS Integers, FiniteSets

CONSTANTS
    Threads,        \* threads of the state database
    Workers,        \* processes that run the memories startup
    NoThread,       \* "a thread of its own that is not among Threads"
    CurrentThread,  \* the thread each worker's session runs
    None,           \* no row, no claim
    ScanLimit,      \* THREAD_SCAN_LIMIT
    MaxRunning,     \* max_rollouts_per_startup: claims of a run, running jobs
    Lease,          \* JOB_LEASE_SECONDS, in ticks
    RetryDelay,     \* JOB_RETRY_DELAY_SECONDS, in ticks
    Retries,        \* DEFAULT_RETRY_REMAINING
    MaxStamp,       \* bound: turns recorded in all threads
    MaxCrashes,     \* bound: deaths of workers and marks that are not made
    MaxSlow,        \* bound: ticks that end the lease of a job still at work
    MaxResets       \* bound: prunes, deletions and clears of memory data

Stamps == 0..MaxStamp
Job == [status : {"running", "error", "done"}, owner : Workers,
        lease : 0..Lease, retry : 0..RetryDelay, remaining : 0..Retries,
        input : Stamps, success : Stamps]
Output == [source : Stamps, content : Stamps]
Claim == [source : Stamps, content : Stamps]

ASSUME ExtractionAssumption ==
    /\ CurrentThread \in [Workers -> Threads \cup {NoThread}]
    /\ NoThread \notin Threads
    /\ None \notin Workers /\ None \notin Job /\ None \notin Claim
    /\ IsFiniteSet(Threads)
    /\ ScanLimit \in Nat /\ MaxRunning \in Nat
    /\ Lease \in Nat /\ RetryDelay \in Nat /\ Retries \in Nat \ {0}
    /\ MaxStamp \in Nat /\ MaxCrashes \in Nat /\ MaxSlow \in Nat
    /\ MaxResets \in Nat

VARIABLES
    stamp,      \* the last stamp given out
    content,    \* per thread: stamp of the newest item of its rollout file
    updated,    \* per thread: threads.updated_at
    window,     \* per thread: "active", "idle" long enough, or "out": too
                \* old, archived, or its memory_mode not 'enabled'
    job,        \* per thread: its row of jobs with kind memory_stage1
    output,     \* per thread: its row of stage1_outputs
    covered,    \* history: newest content a successful extraction read
    pc,         \* per worker: "idle", "claiming" or "running"
    scan,       \* per worker: rows it selected and has not yet tried
    claims,     \* per worker and thread: the claim it holds
    crashes, slow, resets

threadVars == <<stamp, content, updated, window>>
memoryVars == <<job, output, covered>>
workerVars == <<pc, scan, claims>>
vars == <<threadVars, memoryVars, workerVars, crashes, slow, resets>>

-----------------------------------------------------------------------------
(* Threads                                                                 *)

(* append_items: the items are flushed to the rollout file first ...       *)
AppendItems(t) ==
    /\ stamp < MaxStamp /\ content[t] = updated[t]
    /\ stamp' = stamp + 1
    /\ content' = [content EXCEPT ![t] = stamp + 1]
    /\ UNCHANGED <<updated, window, memoryVars, workerVars, crashes, slow,
                   resets>>

(* ... and the metadata of the thread follows.                             *)
TouchThread(t) ==
    /\ updated[t] < content[t]
    /\ updated' = [updated EXCEPT ![t] = content[t]]
    /\ window' = [window EXCEPT ![t] = "active"]
    /\ UNCHANGED <<stamp, content, memoryVars, workerVars, crashes, slow, resets>>

(* Time moves the thread past the idle cutoff; later it leaves the window, *)
(* by age, by being archived or by a change of its memory mode.            *)
Age(t) ==
    /\ updated[t] > 0 /\ window[t] # "out"
    /\ window' = [window EXCEPT ![t] = IF @ = "active" THEN "idle" ELSE "out"]
    /\ UNCHANGED <<stamp, content, updated, memoryVars, workerVars, crashes, slow,
                   resets>>

-----------------------------------------------------------------------------
(* Claiming                                                                *)

Eligible(w) ==
    {t \in Threads : window[t] = "idle" /\ t # CurrentThread[w]}

(* claim_stage1_jobs_for_startup: the most recent eligible threads, at     *)
(* most ScanLimit of them, before anything is known of their memories.     *)
Selection(w) ==
    {S \in SUBSET Eligible(w) :
        /\ Cardinality(S) <= ScanLimit
        /\ S # Eligible(w) => Cardinality(S) = ScanLimit
        /\ \A t \in S, u \in Eligible(w) \ S : updated[u] <= updated[t]}

StartUp(w) ==
    /\ pc[w] = "idle"
    /\ \E S \in Selection(w) :
          scan' = [scan EXCEPT ![w] = {[thread |-> t, source |-> updated[t]] :
                                       t \in S}]
    /\ pc' = [pc EXCEPT ![w] = "claiming"]
    /\ UNCHANGED <<threadVars, memoryVars, claims, crashes, slow, resets>>

(* stage1_source_needs_update, and again inside the claiming transaction   *)
UpToDate(t, source) ==
    \/ output[t] # None /\ output[t].source >= source
    \/ job[t] # None /\ job[t].success >= source

Running(t) == job[t] # None /\ job[t].status = "running" /\ job[t].lease > 0

(* Mutant: exhausted retries do not stop a claim.                          *)
ClaimableForEver(t, source) ==
    /\ ~UpToDate(t, source) /\ ~Running(t)
    /\ job[t] # None => source > job[t].input \/ job[t].retry = 0
    /\ Cardinality({u \in Threads \ {t} : Running(u)}) < MaxRunning

(* Mutant: the cap is checked for an insert only, not for a takeover.      *)
ClaimableUncapped(t, source) ==
    /\ ~UpToDate(t, source) /\ ~Running(t)
    /\ job[t] # None =>
         \/ source > job[t].input
         \/ job[t].retry = 0 /\ job[t].remaining > 0
    /\ job[t] = None => Cardinality({u \in Threads : Running(u)}) < MaxRunning

(* Mutant: the transaction relies on the check made before it.             *)
ClaimableUnchecked(t, source) ==
    /\ ~Running(t)
    /\ job[t] # None =>
         \/ source > job[t].input
         \/ job[t].retry = 0 /\ job[t].remaining > 0
    /\ Cardinality({u \in Threads \ {t} : Running(u)}) < MaxRunning

(* Mutant: an expired lease is not taken over.                             *)
ClaimableOnce(t, source) ==
    /\ ~UpToDate(t, source)
    /\ job[t] # None =>
         /\ job[t].status # "running"
         /\ \/ source > job[t].input
            \/ job[t].retry = 0 /\ job[t].remaining > 0
    /\ Cardinality({u \in Threads \ {t} : Running(u)}) < MaxRunning

(* The row may be inserted or taken over with this source stamp.           *)
Claimable(t, source) ==
    /\ ~UpToDate(t, source)
    /\ ~Running(t)
    /\ job[t] # None =>
         \/ source > job[t].input
         \/ job[t].retry = 0 /\ job[t].remaining > 0
    /\ Cardinality({u \in Threads \ {t} : Running(u)}) < MaxRunning

(* The row after a claim; only a newer source restores the retries.        *)
ClaimedJob(t, w, source) ==
    [status |-> "running", owner |-> w, lease |-> Lease, retry |-> 0,
     remaining |-> IF job[t] = None \/ source > job[t].input
                   THEN Retries ELSE job[t].remaining,
     input |-> source,
     success |-> IF job[t] = None THEN 0 ELSE job[t].success]

(* The newest row of the scan is tried, in one transaction.                *)
TryClaim(w, r) ==
    /\ pc[w] = "claiming" /\ r \in scan[w]
    /\ \A s \in scan[w] : s.source <= r.source
    /\ Cardinality({t \in Threads : claims[w][t] # None}) < MaxRunning
    /\ scan' = [scan EXCEPT ![w] = @ \ {r}]
    /\ IF Claimable(r.thread, r.source)
       THEN /\ job' = [job EXCEPT ![r.thread] = ClaimedJob(r.thread, w, r.source)]
            /\ claims' = [claims EXCEPT ![w][r.thread] =
                             [source |-> r.source, content |-> 0]]
       ELSE UNCHANGED <<job, claims>>
    /\ UNCHANGED <<threadVars, output, covered, pc, crashes, slow, resets>>

(* Nothing left to try, or max_claimed reached: the jobs start.            *)
RunJobs(w) ==
    /\ pc[w] = "claiming"
    /\ \/ scan[w] = {}
       \/ Cardinality({t \in Threads : claims[w][t] # None}) >= MaxRunning
    /\ pc' = [pc EXCEPT ![w] = "running"]
    /\ scan' = [scan EXCEPT ![w] = {}]
    /\ UNCHANGED <<threadVars, memoryVars, claims, crashes, slow, resets>>

-----------------------------------------------------------------------------
(* Running the jobs of a worker, side by side                              *)

Holds(w, t) == pc[w] = "running" /\ claims[w][t] # None

(* The claim is still the one in the database.                             *)
Owned(w, t) ==
    job[t] # None /\ job[t].status = "running" /\ job[t].owner = w

(* sample: the rollout file is read as it is now.                          *)
Sample(w, t) ==
    /\ Holds(w, t) /\ claims[w][t].content = 0
    /\ claims' = [claims EXCEPT ![w][t].content = content[t]]
    /\ UNCHANGED <<threadVars, memoryVars, pc, scan, crashes, slow, resets>>

(* Mutant: the watermark is the thread's stamp at the time of the mark.    *)
DoneNow(t) == [job EXCEPT ![t].status = "done", ![t].lease = 0,
                          ![t].success = updated[t]]

Done(t) == [job EXCEPT ![t].status = "done", ![t].lease = 0,
                       ![t].success = job[t].input]

(* mark_stage1_job_succeeded                                               *)
Succeed(w, t) ==
    /\ Holds(w, t) /\ claims[w][t].content > 0
    /\ IF Owned(w, t)
       THEN /\ job' = Done(t)
            /\ output' = IF output[t] # None
                            /\ output[t].source > claims[w][t].source
                         THEN output
                         ELSE [output EXCEPT ![t] = claims[w][t]]
            /\ covered' = [covered EXCEPT ![t] = claims[w][t].content]
       ELSE UNCHANGED <<job, output, covered>>
    /\ claims' = [claims EXCEPT ![w][t] = None]
    /\ UNCHANGED <<threadVars, pc, scan, crashes, slow, resets>>

(* mark_stage1_job_succeeded_no_output                                     *)
SucceedNoOutput(w, t) ==
    /\ Holds(w, t) /\ claims[w][t].content > 0
    /\ IF Owned(w, t)
       THEN /\ job' = Done(t)
            /\ output' = [output EXCEPT ![t] = None]
            /\ covered' = [covered EXCEPT ![t] = claims[w][t].content]
       ELSE UNCHANGED <<job, output, covered>>
    /\ claims' = [claims EXCEPT ![w][t] = None]
    /\ UNCHANGED <<threadVars, pc, scan, crashes, slow, resets>>

(* mark_stage1_job_failed, for any error of load, request or parse         *)
Fail(w, t) ==
    /\ Holds(w, t)
    /\ job' = IF Owned(w, t)
              THEN [job EXCEPT ![t].status = "error", ![t].lease = 0,
                               ![t].retry = RetryDelay, ![t].remaining = @ - 1]
              ELSE job
    /\ claims' = [claims EXCEPT ![w][t] = None]
    /\ UNCHANGED <<threadVars, output, covered, pc, scan, crashes, slow, resets>>

(* The database refuses the mark: the error is swallowed, the job ends and *)
(* its row stays 'running' until its lease expires.                        *)
MarkIsLost(w, t) ==
    /\ Holds(w, t) /\ crashes < MaxCrashes
    /\ crashes' = crashes + 1
    /\ claims' = [claims EXCEPT ![w][t] = None]
    /\ UNCHANGED <<threadVars, memoryVars, pc, scan, slow, resets>>

(* All jobs of the run have ended.                                         *)
Finish(w) ==
    /\ pc[w] = "running" /\ \A t \in Threads : claims[w][t] = None
    /\ pc' = [pc EXCEPT ![w] = "idle"]
    /\ UNCHANGED <<threadVars, memoryVars, scan, claims, crashes, slow, resets>>

(* The process dies, or an error of the database while it claims ends the  *)
(* run with the claims made so far; their rows stay 'running' until their  *)
(* leases expire.                                                          *)
Crash(w) ==
    /\ pc[w] # "idle" /\ crashes < MaxCrashes
    /\ crashes' = crashes + 1
    /\ pc' = [pc EXCEPT ![w] = "idle"]
    /\ scan' = [scan EXCEPT ![w] = {}]
    /\ claims' = [claims EXCEPT ![w] = [t \in Threads |-> None]]
    /\ UNCHANGED <<threadVars, memoryVars, slow, resets>>

-----------------------------------------------------------------------------
(* Time, retention and deletion                                            *)

(* The tick ends a lease whose holder is alive and at work.                *)
EndsLease ==
    \E w \in Workers, t \in Threads :
        claims[w][t] # None /\ Owned(w, t) /\ job[t].lease = 1

Tick ==
    /\ \E t \in Threads : job[t] # None /\ (job[t].lease > 0 \/ job[t].retry > 0)
    /\ IF EndsLease THEN slow < MaxSlow /\ slow' = slow + 1 ELSE UNCHANGED slow
    /\ job' = [t \in Threads |->
                 IF job[t] = None THEN None
                 ELSE [job[t] EXCEPT !.lease = IF @ > 0 THEN @ - 1 ELSE 0,
                                     !.retry = IF @ > 0 THEN @ - 1 ELSE 0]]
    /\ UNCHANGED <<threadVars, output, covered, workerVars, crashes, resets>>

Reset == resets < MaxResets /\ resets' = resets + 1

(* prune_stage1_outputs_for_retention: a stale row goes, but its job row   *)
(* stays, and with it the watermark.                                       *)
Prune(t) ==
    /\ Reset
    /\ output[t] # None
    /\ output' = [output EXCEPT ![t] = None]
    /\ UNCHANGED <<threadVars, job, covered, workerVars, crashes, slow>>

(* delete_thread_memory                                                    *)
DeleteThreadMemory(t) ==
    /\ Reset
    /\ output' = [output EXCEPT ![t] = None]
    /\ job' = [job EXCEPT ![t] = None]
    /\ UNCHANGED <<threadVars, covered, workerVars, crashes, slow>>

(* clear_memory_data                                                       *)
ClearMemoryData ==
    /\ Reset
    /\ output' = [t \in Threads |-> None]
    /\ job' = [t \in Threads |-> None]
    /\ UNCHANGED <<threadVars, covered, workerVars, crashes, slow>>

-----------------------------------------------------------------------------
Init ==
    /\ stamp = 0
    /\ content = [t \in Threads |-> 0] /\ updated = [t \in Threads |-> 0]
    /\ window = [t \in Threads |-> "active"]
    /\ job = [t \in Threads |-> None] /\ output = [t \in Threads |-> None]
    /\ covered = [t \in Threads |-> 0]
    /\ pc = [w \in Workers |-> "idle"] /\ scan = [w \in Workers |-> {}]
    /\ claims = [w \in Workers |-> [t \in Threads |-> None]]
    /\ crashes = 0 /\ slow = 0 /\ resets = 0

JobStep(w, t) ==
    Sample(w, t) \/ Succeed(w, t) \/ SucceedNoOutput(w, t) \/ Fail(w, t)

ClaimStep(w) == (\E r \in scan[w] : TryClaim(w, r)) \/ RunJobs(w) \/ Finish(w)

Next ==
    \/ \E t \in Threads :
          AppendItems(t) \/ TouchThread(t) \/ Age(t) \/ Prune(t)
             \/ DeleteThreadMemory(t)
    \/ \E w \in Workers : StartUp(w) \/ ClaimStep(w) \/ Crash(w)
    \/ \E w \in Workers, t \in Threads : JobStep(w, t) \/ MarkIsLost(w, t)
    \/ Tick \/ ClearMemoryData

Spec == Init /\ [][Next]_vars

(* Sessions keep starting up, a worker that lives goes on, time passes.    *)
Fairness ==
    /\ WF_vars(Tick)
    /\ \A w \in Workers :
          /\ WF_vars(StartUp(w)) /\ WF_vars(ClaimStep(w))
          /\ \A t \in Threads : WF_vars(JobStep(w, t))

FairSpec == Spec /\ Fairness

-----------------------------------------------------------------------------
TypeOK ==
    /\ stamp \in Stamps
    /\ content \in [Threads -> Stamps] /\ updated \in [Threads -> Stamps]
    /\ window \in [Threads -> {"active", "idle", "out"}]
    /\ job \in [Threads -> Job \cup {None}]
    /\ output \in [Threads -> Output \cup {None}]
    /\ covered \in [Threads -> Stamps]
    /\ pc \in [Workers -> {"idle", "claiming", "running"}]
    /\ scan \in [Workers -> SUBSET [thread : Threads, source : Stamps]]
    /\ claims \in [Workers -> [Threads -> Claim \cup {None}]]
    /\ crashes \in 0..MaxCrashes /\ slow \in 0..MaxSlow /\ resets \in 0..MaxResets

(* However the workers' claims interleave, no more than MaxRunning jobs    *)
(* run under a lease that holds.                                           *)
RunningCap == Cardinality({t \in Threads : Running(t)}) <= MaxRunning

(* A thread that is skipped as up to date really is: the extraction whose  *)
(* success the watermark records read everything up to that watermark,     *)
(* although the thread may have gone on, or the job have changed hands,    *)
(* between the scan, the claim, the read and the mark.                     *)
WatermarkIsCovered ==
    \A t \in Threads :
        /\ job[t] # None => job[t].success <= covered[t]
        /\ output[t] # None => output[t].source <= output[t].content

(* A row's success watermark never goes back, even when a worker claims    *)
(* from a scan that is older than the last extraction.                     *)
SuccessNeverGoesBack ==
    [][\A t \in Threads :
          job[t] # None /\ job'[t] # None => job[t].success <= job'[t].success]_vars

(* Under the stated fairness every idle thread is extracted, given up      *)
(* after its retries, or leaves the window.                                *)
Settled(w, t) ==
    \/ t \notin Eligible(w)
    \/ UpToDate(t, updated[t])
    \/ job[t] # None /\ job[t].remaining = 0 /\ updated[t] <= job[t].input

(* Every thread that stays idle and enabled is in the end extracted or     *)
(* given up, although workers die, fail and lose their leases.             *)
EveryThreadSettles == \A w \in Workers, t \in Threads : <>[]Settled(w, t)
===============================================================================
