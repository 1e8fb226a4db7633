------------------------ MODULE MemoryExtractionProofs --------------------------
(* Proofs about the extraction of memories (MemoryExtraction), for any number  *)
(* of threads, workers, deaths, slow jobs and removals.                        *)
EXTENDS MemoryExtraction, FiniteSetTheorems, TLAPS

USE ExtractionAssumption DEF ExtractionAssumption

-----------------------------------------------------------------------------
(* The row of a job *)

(* Each field of a row on its own.                                             *)
LEMMA StatusType ==
    ASSUME NEW j \in Job, NEW s \in {"running", "error", "done"}
    PROVE  [j EXCEPT !.status = s] \in Job
  BY DEF Job

LEMMA LeaseType ==
    ASSUME NEW j \in Job, NEW n \in 0..Lease
    PROVE  [j EXCEPT !.lease = n] \in Job
  BY DEF Job

LEMMA RetryType ==
    ASSUME NEW j \in Job, NEW n \in 0..RetryDelay
    PROVE  [j EXCEPT !.retry = n] \in Job
  BY DEF Job

LEMMA RemainingType ==
    ASSUME NEW j \in Job, NEW n \in 0..Retries
    PROVE  [j EXCEPT !.remaining = n] \in Job
  BY DEF Job

LEMMA SuccessType ==
    ASSUME NEW j \in Job, NEW n \in Stamps
    PROVE  [j EXCEPT !.success = n] \in Job
  BY DEF Job

(* What Done writes: the claimed source becomes the success watermark.         *)
LEMMA DoneRow ==
    ASSUME TypeOK, NEW t \in Threads, job[t] # None
    PROVE  /\ Done(t) \in [Threads -> Job \cup {None}]
           /\ Done(t)[t] \in Job
           /\ Done(t)[t].status = "done" /\ Done(t)[t].success = job[t].input
           /\ \A u \in Threads \ {t} : Done(t)[u] = job[u]
  <1>1. job[t] \in Job
    BY DEF TypeOK
  <1> DEFINE k == [job[t] EXCEPT !.status = "done"]
             l == [k EXCEPT !.lease = 0]
             m == [l EXCEPT !.success = job[t].input]
  <1>2. m \in Job
    <2>1. k \in Job
      BY <1>1, StatusType
    <2>2. l \in Job
      <3> HIDE DEF k
      <3> QED  BY <2>1, LeaseType
    <2>3. job[t].input \in Stamps
      BY <1>1 DEF Job
    <2> HIDE DEF l
    <2> QED  BY <2>2, <2>3, SuccessType
  <1>3. Done(t) = [job EXCEPT ![t] = m]
    BY DEF Done, TypeOK
  <1>4. m.status = "done" /\ m.success = job[t].input
    BY <1>1 DEF Job
  <1> HIDE DEF m
  <1> QED
    BY <1>2, <1>3, <1>4 DEF TypeOK

(* What Fail writes: one retry less.                                           *)
LEMMA FailRow ==
    ASSUME TypeOK, NEW t \in Threads, job[t] # None, job[t].remaining > 0,
           NEW f, f = [job EXCEPT ![t].status = "error", ![t].lease = 0,
                                  ![t].retry = RetryDelay, ![t].remaining = @ - 1]
    PROVE  \E r \in Job : /\ f = [job EXCEPT ![t] = r]
                          /\ r.status = "error" /\ r.success = job[t].success
  <1>1. job[t] \in Job /\ job[t].remaining - 1 \in 0..Retries
    BY DEF TypeOK, Job
  <1> DEFINE k == [job[t] EXCEPT !.status = "error"]
             l == [k EXCEPT !.lease = 0]
             m == [l EXCEPT !.retry = RetryDelay]
             n == [m EXCEPT !.remaining = job[t].remaining - 1]
  <1>2. n \in Job
    <2>1. k \in Job
      BY <1>1, StatusType
    <2>2. l \in Job
      <3> HIDE DEF k
      <3> QED  BY <2>1, LeaseType
    <2>3. m \in Job
      <3> HIDE DEF l
      <3> QED  BY <2>2, RetryType
    <2> HIDE DEF m
    <2> QED  BY <1>1, <2>3, RemainingType
  <1>3. f = [job EXCEPT ![t] = n]
    <2> DEFINE g == [job EXCEPT ![t].status = "error", ![t].lease = 0,
                                ![t].retry = RetryDelay]
    <2>1. g = [job EXCEPT ![t] = m]
      BY DEF TypeOK
    <2>2. m.remaining = job[t].remaining
      BY <1>1 DEF Job
    <2>3. f = [g EXCEPT ![t].remaining = @ - 1]
      OBVIOUS
    <2> HIDE DEF g, m
    <2>4. job = [u \in Threads |-> job[u]] /\ g = [u \in Threads |-> g[u]] /\ g[t] = m
      BY <2>1 DEF TypeOK
    <2>5. f = [g EXCEPT ![t] = [m EXCEPT !.remaining = m.remaining - 1]]
      BY <2>3, <2>4
    <2>6. f = [g EXCEPT ![t] = n]
      BY <2>2, <2>5
    <2> HIDE DEF n
    <2> QED
      BY <2>1, <2>4, <2>6
  <1>4. n.status = "error" /\ n.success = job[t].success
    BY <1>1 DEF Job
  <1> HIDE DEF n
  <1> QED
    BY <1>2, <1>3, <1>4, Zenon

(* What Tick leaves of a row.                                                  *)
LEMMA TickRow ==
    ASSUME TypeOK, Tick
    PROVE  /\ job' \in [Threads -> Job \cup {None}]
           /\ \A t \in Threads :
                /\ job[t] = None <=> job'[t] = None
                /\ job[t] # None =>
                     /\ job'[t] \in Job
                     /\ job'[t].status = job[t].status /\ job'[t].owner = job[t].owner
                     /\ job'[t].remaining = job[t].remaining
                     /\ job'[t].input = job[t].input /\ job'[t].success = job[t].success
                     /\ job'[t].lease > 0 => job[t].lease > 0
  <1>1. ASSUME NEW t \in Threads, job[t] # None
        PROVE  /\ job'[t] \in Job
               /\ job'[t].status = job[t].status /\ job'[t].owner = job[t].owner
               /\ job'[t].remaining = job[t].remaining
               /\ job'[t].input = job[t].input /\ job'[t].success = job[t].success
               /\ job'[t].lease > 0 => job[t].lease > 0
    <2> DEFINE a == IF job[t].lease > 0 THEN job[t].lease - 1 ELSE 0
               b == IF job[t].retry > 0 THEN job[t].retry - 1 ELSE 0
               k == [job[t] EXCEPT !.lease = a]
               l == [k EXCEPT !.retry = b]
    <2>1. job[t] \in Job /\ a \in 0..Lease /\ b \in 0..RetryDelay
      BY <1>1 DEF TypeOK, Job
    <2>2. job'[t] = l
      BY <1>1, <2>1 DEF Tick, Job
    <2>3. a > 0 => job[t].lease > 0
      BY <2>1 DEF Job
    <2> HIDE DEF a, b
    <2>4. l \in Job
      <3>1. k \in Job
        BY <2>1, LeaseType
      <3> HIDE DEF k
      <3> QED  BY <2>1, <3>1, RetryType
    <2>5. /\ l.status = job[t].status /\ l.owner = job[t].owner
          /\ l.remaining = job[t].remaining
          /\ l.input = job[t].input /\ l.success = job[t].success
          /\ l.lease = a
      BY <2>1 DEF Job
    <2> HIDE DEF l
    <2> QED
      BY <2>2, <2>3, <2>4, <2>5
  <1>2. \A t \in Threads : job[t] = None => job'[t] = None
    BY DEF Tick
  <1>3. job' \in [Threads -> Job \cup {None}]
    <2>1. \A t \in Threads : job'[t] \in Job \cup {None}
      BY <1>1, <1>2
    <2>2. job' = [t \in Threads |-> job'[t]]
      BY DEF Tick
    <2> QED
      BY <2>1, <2>2
  <1> QED
    BY <1>1, <1>2, <1>3

-----------------------------------------------------------------------------
(* The inductive invariant *)

(* A row never claims more success than an extraction read, and one that runs  *)
(* is for a source not older than its success and has a retry left.            *)
RowsSound ==
    \A t \in Threads : job[t] # None =>
        /\ job[t].success <= covered[t]
        /\ job[t].status = "running" => /\ job[t].remaining > 0
                                       /\ job[t].success <= job[t].input

(* A worker that still owns a row holds the claim the row was written with.    *)
ClaimsMatch ==
    \A w \in Workers, t \in Threads :
        claims[w][t] # None /\ Owned(w, t) => job[t].input = claims[w][t].source

(* Before a worker tries a thread it holds no claim on it, and it tries it     *)
(* once in a scan.                                                             *)
ScansSound ==
    \A w \in Workers :
        /\ pc[w] = "idle" => \A t \in Threads : claims[w][t] = None
        /\ pc[w] # "claiming" => scan[w] = {}
        /\ \A r \in scan[w] : /\ claims[w][r.thread] = None
                              /\ r.source <= updated[r.thread]
                              /\ \A s \in scan[w] : s.thread = r.thread => s = r

(* The rollout is ahead of the thread's row, which is ahead of every scan and  *)
(* claim, and what a job read is ahead of what it claimed.                     *)
ContentAhead ==
    /\ \A t \in Threads : updated[t] <= content[t] /\ content[t] <= stamp
    /\ \A w \in Workers, t \in Threads : claims[w][t] # None =>
          /\ claims[w][t].source <= content[t]
          /\ claims[w][t].content > 0 => claims[w][t].source <= claims[w][t].content
    /\ \A t \in Threads : output[t] # None => output[t].source <= output[t].content

Inv == TypeOK /\ RowsSound /\ ClaimsMatch /\ ScansSound /\ ContentAhead /\ RunningCap

-----------------------------------------------------------------------------
(* Every action keeps the invariant *)

(* The cap holds as long as no further row runs.                               *)
LEMMA CapKept ==
    ASSUME RunningCap, \A t \in Threads : Running(t)' => Running(t)
    PROVE  RunningCap'
  <1> DEFINE S == {t \in Threads : Running(t)}
             T == {t \in Threads : Running(t)'}
  <1>1. IsFiniteSet(S) /\ T \subseteq S
    BY FS_Subset
  <1>2. Cardinality(T) <= Cardinality(S) /\ IsFiniteSet(T)
    BY <1>1, FS_Subset
  <1>3. Cardinality(T) \in Nat /\ Cardinality(S) \in Nat
    BY <1>1, <1>2, FS_CardinalityType
  <1>4. Cardinality(S) <= MaxRunning /\ (RunningCap' <=> Cardinality(T) <= MaxRunning)
    BY DEF RunningCap
  <1> HIDE DEF S, T
  <1> QED
    BY <1>2, <1>3, <1>4

LEMMA InitInv == Init => Inv
  <1> SUFFICES ASSUME Init PROVE Inv
    OBVIOUS
  <1>1. TypeOK
    BY DEF Init, TypeOK, Stamps
  <1>2. RowsSound /\ ClaimsMatch /\ ScansSound /\ ContentAhead
    BY DEF Init, RowsSound, ClaimsMatch, ScansSound, ContentAhead
  <1>3. RunningCap
    <2>1. {t \in Threads : Running(t)} = {}
      BY DEF Init, Running
    <2> QED
      BY <2>1, FS_EmptySet DEF RunningCap
  <1> QED
    BY <1>1, <1>2, <1>3 DEF Inv

(* A thread goes on or ages: stamps only grow.                                 *)
LEMMA ThreadInv ==
    ASSUME Inv, NEW t \in Threads, AppendItems(t) \/ TouchThread(t) \/ Age(t)
    PROVE  Inv'
  <1>1. UNCHANGED <<job, output, covered, pc, scan, claims, crashes, slow, resets>>
    BY DEF AppendItems, TouchThread, Age, memoryVars, workerVars
  <1>2. /\ stamp' \in Stamps /\ content' \in [Threads -> Stamps]
        /\ updated' \in [Threads -> Stamps]
        /\ window' \in [Threads -> {"active", "idle", "out"}]
    BY DEF AppendItems, TouchThread, Age, Inv, TypeOK, Stamps
  <1>3. \A u \in Threads : /\ content[u] <= content'[u] /\ updated[u] <= updated'[u]
                           /\ updated'[u] <= content'[u] /\ content'[u] <= stamp'
    BY DEF AppendItems, TouchThread, Age, Inv, TypeOK, Stamps, ContentAhead
  <1>4. TypeOK'
    BY <1>1, <1>2 DEF Inv, TypeOK
  <1>5. RowsSound' /\ ClaimsMatch'
    BY <1>1 DEF Inv, RowsSound, ClaimsMatch, Owned
  <1>6. ScansSound'
    <2>1. ASSUME NEW w \in Workers, NEW r \in scan[w]
          PROVE  r.source <= updated'[r.thread]
      <3>1. /\ r.thread \in Threads /\ r.source \in Stamps
            /\ r.source <= updated[r.thread]
        BY <2>1 DEF Inv, TypeOK, ScansSound
      <3> QED
        BY <1>2, <1>3, <3>1 DEF Inv, TypeOK, Stamps
    <2> QED
      BY <1>1, <2>1 DEF Inv, ScansSound
  <1>7. ContentAhead'
    <2>1. ASSUME NEW w \in Workers, NEW u \in Threads, claims[w][u] # None
          PROVE  claims[w][u].source <= content'[u]
      <3>1. claims[w][u].source \in Stamps /\ claims[w][u].source <= content[u]
        BY <2>1 DEF Inv, TypeOK, Claim, ContentAhead
      <3> QED
        BY <1>2, <1>3, <3>1 DEF Inv, TypeOK, Stamps
    <2> QED
      BY <1>1, <1>3, <2>1 DEF Inv, ContentAhead
  <1>8. RunningCap'
    BY <1>1 DEF Inv, RunningCap, Running
  <1> QED
    BY <1>4, <1>5, <1>6, <1>7, <1>8 DEF Inv

(* Rows go.                                                                    *)
LEMMA RemovalInv ==
    ASSUME Inv, (\E t \in Threads : Prune(t) \/ DeleteThreadMemory(t)) \/ ClearMemoryData
    PROVE  Inv'
  <1>1. /\ UNCHANGED <<stamp, content, updated, window, covered, pc, scan, claims,
                       crashes, slow>>
        /\ resets' \in 0..MaxResets
    BY DEF Prune, DeleteThreadMemory, ClearMemoryData, Reset, threadVars, workerVars,
           Inv, TypeOK
  <1>2. /\ job' \in [Threads -> Job \cup {None}]
        /\ output' \in [Threads -> Output \cup {None}]
        /\ \A u \in Threads : job'[u] \in {job[u], None} /\ output'[u] \in {output[u], None}
    BY DEF Prune, DeleteThreadMemory, ClearMemoryData, Inv, TypeOK
  <1>3. TypeOK'
    BY <1>1, <1>2 DEF Inv, TypeOK
  <1>4. RowsSound' /\ ClaimsMatch'
    BY <1>1, <1>2 DEF Inv, RowsSound, ClaimsMatch, Owned
  <1>5. ScansSound' /\ ContentAhead'
    BY <1>1, <1>2 DEF Inv, ScansSound, ContentAhead
  <1>6. RunningCap'
    <2>1. \A u \in Threads : Running(u)' => Running(u)
      BY <1>2 DEF Running
    <2> QED
      BY <2>1, CapKept DEF Inv
  <1> QED
    BY <1>3, <1>4, <1>5, <1>6 DEF Inv

(* A worker scans, starts its jobs, ends or dies: no row changes.              *)
LEMMA WorkerInv ==
    ASSUME Inv, NEW w \in Workers, StartUp(w) \/ RunJobs(w) \/ Finish(w) \/ Crash(w)
    PROVE  Inv'
  <1>1. /\ UNCHANGED <<stamp, content, updated, window, job, output, covered, slow,
                       resets>>
        /\ crashes' \in 0..MaxCrashes
    BY DEF StartUp, RunJobs, Finish, Crash, threadVars, memoryVars, Inv, TypeOK
  <1>2. /\ pc' \in [Workers -> {"idle", "claiming", "running"}]
        /\ claims' \in [Workers -> [Threads -> Claim \cup {None}]]
        /\ scan' \in [Workers -> SUBSET [thread : Threads, source : Stamps]]
    <2>1. CASE StartUp(w)
      <3>1. PICK S \in SUBSET Threads :
               scan' = [scan EXCEPT ![w] = {[thread |-> t, source |-> updated[t]] : t \in S}]
        BY <2>1 DEF StartUp, Selection, Eligible
      <3> QED
        BY <2>1, <3>1 DEF StartUp, Inv, TypeOK
    <2>2. CASE RunJobs(w) \/ Finish(w)
      BY <2>2 DEF RunJobs, Finish, Inv, TypeOK
    <2>3. CASE Crash(w)
      BY <2>3 DEF Crash, Inv, TypeOK
    <2> QED
      BY <2>1, <2>2, <2>3
  <1>3. \A v \in Workers, t \in Threads : claims'[v][t] \in {claims[v][t], None}
    BY DEF StartUp, RunJobs, Finish, Crash, Inv, TypeOK
  <1>4. TypeOK'
    BY <1>1, <1>2 DEF Inv, TypeOK
  <1>5. RowsSound' /\ RunningCap'
    BY <1>1 DEF Inv, RowsSound, RunningCap, Running
  <1>6. ClaimsMatch' /\ ContentAhead'
    BY <1>1, <1>3 DEF Inv, ClaimsMatch, ContentAhead, Owned
  <1>7. ScansSound'
    <2>1. CASE StartUp(w)
      <3>1. /\ \A t \in Threads : claims[w][t] = None
            /\ UNCHANGED claims
            /\ \A v \in Workers \ {w} : pc'[v] = pc[v] /\ scan'[v] = scan[v]
            /\ pc'[w] = "claiming"
        BY <2>1 DEF StartUp, Inv, TypeOK, ScansSound
      <3>2. \A r \in scan'[w] : r.thread \in Threads /\ r.source = updated[r.thread]
        BY <2>1 DEF StartUp, Selection, Eligible, Inv, TypeOK
      <3>3. \A r, s \in scan'[w] : r.thread = s.thread => r = s
        BY <2>1 DEF StartUp, Selection, Eligible, Inv, TypeOK
      <3>4. \A t \in Threads : updated[t] <= updated[t]
        BY DEF Inv, TypeOK, Stamps
      <3> QED
        BY <1>1, <3>1, <3>2, <3>3, <3>4 DEF Inv, ScansSound
    <2>2. CASE RunJobs(w) \/ Finish(w)
      BY <1>1, <2>2 DEF RunJobs, Finish, Inv, TypeOK, ScansSound
    <2>3. CASE Crash(w)
      BY <1>1, <2>3 DEF Crash, Inv, TypeOK, ScansSound
    <2> QED
      BY <2>1, <2>2, <2>3
  <1> QED
    BY <1>4, <1>5, <1>6, <1>7 DEF Inv

(* A row is tried.  If it is claimed, row and claim are written together, and  *)
(* the row may be the last one the cap allows.                                 *)
LEMMA TryClaimInv ==
    ASSUME Inv, NEW w \in Workers, NEW r \in scan[w], TryClaim(w, r)
    PROVE  Inv'
  <1> DEFINE t == r.thread
  <1>1. /\ t \in Threads /\ r.source \in Stamps /\ claims[w][t] = None
        /\ r.source <= updated[t] /\ r.source <= content[t]
    <2>1. t \in Threads /\ r.source \in Stamps
      BY DEF Inv, TypeOK
    <2> QED
      BY <2>1 DEF Inv, TypeOK, ScansSound, ContentAhead, Stamps
  <1>2. /\ UNCHANGED <<stamp, content, updated, window, output, covered, pc, crashes,
                       slow, resets>>
        /\ scan' \in [Workers -> SUBSET [thread : Threads, source : Stamps]]
        /\ scan'[w] = scan[w] \ {r} /\ \A v \in Workers \ {w} : scan'[v] = scan[v]
    BY DEF TryClaim, threadVars, Inv, TypeOK
  <1>3. CASE ~Claimable(t, r.source)
    <2>1. UNCHANGED <<job, claims>>
      BY <1>3 DEF TryClaim
    <2>2. TypeOK'
      BY <1>2, <2>1 DEF Inv, TypeOK
    <2>3. RowsSound' /\ ClaimsMatch' /\ ContentAhead' /\ RunningCap'
      BY <1>2, <2>1
      DEF Inv, RowsSound, ClaimsMatch, ContentAhead, RunningCap, Running, Owned
    <2>4. ScansSound'
      BY <1>2, <2>1 DEF Inv, ScansSound
    <2> QED
      BY <2>2, <2>3, <2>4 DEF Inv
  <1>4. CASE Claimable(t, r.source)
    <2> DEFINE j == ClaimedJob(t, w, r.source)
               c == [source |-> r.source, content |-> 0]
    <2>1. /\ job' = [job EXCEPT ![t] = j]
          /\ claims' = [claims EXCEPT ![w][t] = c]
      BY <1>4 DEF TryClaim
    <2>2. c \in Claim /\ c.source = r.source /\ c.content = 0
      BY <1>1 DEF Claim, Stamps
    <2>3. job[t] \in Job \cup {None}
      BY <1>1 DEF Inv, TypeOK
    <2>4. /\ j \in Job
          /\ j.status = "running" /\ j.owner = w /\ j.input = r.source
          /\ j.success = IF job[t] = None THEN 0 ELSE job[t].success
          /\ j.remaining = IF job[t] = None \/ r.source > job[t].input
                           THEN Retries ELSE job[t].remaining
      BY <1>1, <2>3 DEF ClaimedJob, Job, Stamps
    <2>5. /\ j.remaining > 0 /\ j.success <= j.input /\ j.success <= covered[t]
      <3>1. CASE job[t] = None
        BY <1>1, <2>4, <3>1 DEF Stamps, Inv, TypeOK
      <3>2. CASE job[t] \in Job
        <4>1. job[t].success <= r.source
          BY <1>1, <1>4, <3>2 DEF Claimable, UpToDate, Job, Stamps
        <4>2. j.remaining > 0
          BY <1>4, <2>4, <3>2 DEF Claimable
        <4>3. job[t].success <= covered[t]
          BY <1>1, <3>2 DEF Inv, RowsSound
        <4> QED
          BY <2>4, <3>2, <4>1, <4>2, <4>3
      <3> QED
        BY <2>3, <3>1, <3>2
    <2> HIDE DEF j, c
    <2>6. /\ job' \in [Threads -> Job \cup {None}]
          /\ job'[t] = j /\ \A u \in Threads \ {t} : job'[u] = job[u]
      BY <1>1, <2>1, <2>4 DEF Inv, TypeOK
    <2>7. /\ claims' \in [Workers -> [Threads -> Claim \cup {None}]]
          /\ claims'[w][t] = c
          /\ \A u \in Threads \ {t} : claims'[w][u] = claims[w][u]
          /\ \A v \in Workers \ {w} : claims'[v] = claims[v]
      BY <1>1, <2>1, <2>2 DEF Inv, TypeOK
    <2>8. TypeOK'
      BY <1>2, <2>6, <2>7 DEF Inv, TypeOK
    <2>9. RowsSound'
      BY <1>2, <2>4, <2>5, <2>6 DEF Inv, RowsSound
    <2>10. ClaimsMatch'
      BY <2>2, <2>4, <2>6, <2>7 DEF Inv, ClaimsMatch, Owned
    <2>11. ScansSound'
      <3>1. \A s \in scan'[w] : s \in scan[w] /\ s.thread # t /\ s.thread \in Threads
        BY <1>2 DEF Inv, ScansSound, TypeOK
      <3>2. pc[w] = "claiming"
        BY DEF TryClaim
      <3> QED
        BY <1>2, <2>7, <3>1, <3>2 DEF Inv, ScansSound
    <2>12. ContentAhead'
      BY <1>1, <1>2, <2>2, <2>7 DEF Inv, ContentAhead
    <2>13. RunningCap'
      <3> DEFINE S == {u \in Threads \ {t} : Running(u)}
                 T == {u \in Threads : Running(u)'}
      <3>1. IsFiniteSet(S) /\ Cardinality(S) < MaxRunning
        BY <1>4, FS_Subset DEF Claimable
      <3>2. T \subseteq S \cup {t}
        BY <2>6 DEF Running
      <3>3. IsFiniteSet(S \cup {t}) /\ Cardinality(S \cup {t}) = Cardinality(S) + 1
        BY <3>1, FS_AddElement
      <3>4. Cardinality(T) <= Cardinality(S \cup {t}) /\ IsFiniteSet(T)
        BY <3>2, <3>3, FS_Subset
      <3>5. Cardinality(S) \in Nat /\ Cardinality(T) \in Nat
        BY <3>1, <3>4, FS_CardinalityType
      <3>6. RunningCap' <=> Cardinality(T) <= MaxRunning
        BY DEF RunningCap
      <3> HIDE DEF S, T
      <3> QED
        BY <3>1, <3>3, <3>4, <3>5, <3>6
    <2> QED
      BY <2>8, <2>9, <2>10, <2>11, <2>12, <2>13 DEF Inv
  <1> QED
    BY <1>3, <1>4

(* A mark that is not made: the claim is gone, its row is left as it is.       *)
LEMMA MarkIsLostInv ==
    ASSUME Inv, NEW w \in Workers, NEW t \in Threads, MarkIsLost(w, t)
    PROVE  Inv'
  <1>1. /\ UNCHANGED <<stamp, content, updated, window, job, output, covered, pc, scan,
                       slow, resets>>
        /\ crashes' \in 0..MaxCrashes
    BY DEF MarkIsLost, threadVars, memoryVars, Inv, TypeOK
  <1>2. /\ claims' \in [Workers -> [Threads -> Claim \cup {None}]]
        /\ \A v \in Workers, u \in Threads :
              claims'[v][u] = claims[v][u] \/ claims'[v][u] = None
    BY DEF MarkIsLost, Inv, TypeOK
  <1>3. TypeOK'
    BY <1>1, <1>2 DEF Inv, TypeOK
  <1>4. RowsSound' /\ RunningCap'
    BY <1>1 DEF Inv, RowsSound, RunningCap, Running
  <1>5. ClaimsMatch'
    BY <1>1, <1>2 DEF Inv, ClaimsMatch, Owned
  <1>6. ContentAhead'
    BY <1>1, <1>2 DEF Inv, ContentAhead
  <1>7. ScansSound'
    <2>1. \A v \in Workers : \A r \in scan[v] : r.thread \in Threads
      BY DEF Inv, TypeOK
    <2> QED
      BY <1>1, <1>2, <2>1 DEF Inv, ScansSound
  <1> QED
    BY <1>3, <1>4, <1>5, <1>6, <1>7 DEF Inv

LEMMA SampleInv ==
    ASSUME Inv, NEW w \in Workers, NEW t \in Threads, Sample(w, t)
    PROVE  Inv'
  <1>1. UNCHANGED <<stamp, content, updated, window, job, output, covered, pc, scan,
                    crashes, slow, resets>>
    BY DEF Sample, threadVars, memoryVars
  <1>2. claims[w][t] \in Claim /\ content[t] \in Stamps
    BY DEF Sample, Holds, Inv, TypeOK
  <1>3. /\ claims' \in [Workers -> [Threads -> Claim \cup {None}]]
        /\ claims'[w][t] \in Claim
        /\ claims'[w][t].source = claims[w][t].source
        /\ claims'[w][t].content = content[t]
        /\ \A u \in Threads \ {t} : claims'[w][u] = claims[w][u]
        /\ \A v \in Workers \ {w} : claims'[v] = claims[v]
    <2> DEFINE c == [claims[w][t] EXCEPT !.content = content[t]]
    <2>1. /\ c \in Claim /\ c.source = claims[w][t].source
          /\ c.content = content[t]
      BY <1>2 DEF Claim
    <2>2. claims' = [claims EXCEPT ![w] = [claims[w] EXCEPT ![t] = c]]
      BY DEF Sample, Inv, TypeOK
    <2> HIDE DEF c
    <2> QED
      BY <2>1, <2>2 DEF Inv, TypeOK
  <1>4. TypeOK'
    BY <1>1, <1>3 DEF Inv, TypeOK
  <1>5. RowsSound' /\ RunningCap'
    BY <1>1 DEF Inv, RowsSound, RunningCap, Running
  <1>6. ClaimsMatch'
    BY <1>1, <1>2, <1>3 DEF Inv, ClaimsMatch, Owned
  <1>7. ScansSound'
    <2>1. scan[w] = {} /\ pc[w] = "running"
      BY DEF Sample, Holds, Inv, ScansSound
    <2> QED
      BY <1>1, <1>3, <2>1 DEF Inv, ScansSound
  <1>8. ContentAhead'
    BY <1>1, <1>2, <1>3 DEF Inv, ContentAhead
  <1> QED
    BY <1>4, <1>5, <1>6, <1>7, <1>8 DEF Inv

(* A job ends, and its claim with it: the rest of the invariant follows from   *)
(* what became of the rows.                                                    *)
LEMMA EndOfJob ==
    ASSUME Inv, NEW w \in Workers, NEW t \in Threads,
           claims' = [claims EXCEPT ![w][t] = None],
           UNCHANGED <<stamp, content, updated, window, pc, scan, crashes, slow, resets>>,
           job' \in [Threads -> Job \cup {None}],
           output' \in [Threads -> Output \cup {None}],
           covered' \in [Threads -> Stamps],
           \A u \in Threads \ {t} : /\ job'[u] = job[u] /\ output'[u] = output[u]
                                    /\ covered'[u] = covered[u],
           job'[t] = job[t] \/ (job'[t] # None => job'[t].status # "running"),
           job'[t] # None => job'[t].success <= covered'[t],
           output'[t] # None => output'[t].source <= output'[t].content
    PROVE  Inv'
  <1>1. /\ claims' \in [Workers -> [Threads -> Claim \cup {None}]]
        /\ claims'[w][t] = None
        /\ \A u \in Threads \ {t} : claims'[w][u] = claims[w][u]
        /\ \A v \in Workers \ {w} : claims'[v] = claims[v]
    BY DEF Inv, TypeOK
  <1>2. TypeOK'
    BY <1>1 DEF Inv, TypeOK
  <1>3. RowsSound'
    BY DEF Inv, RowsSound
  <1>4. ClaimsMatch'
    BY <1>1 DEF Inv, ClaimsMatch, Owned
  <1>5. ScansSound'
    BY <1>1 DEF Inv, ScansSound
  <1>6. ContentAhead'
    BY <1>1 DEF Inv, ContentAhead
  <1>7. RunningCap'
    <2>1. \A u \in Threads : Running(u)' => Running(u)
      BY DEF Running
    <2> QED
      BY <2>1, CapKept DEF Inv
  <1> QED
    BY <1>2, <1>3, <1>4, <1>5, <1>6, <1>7 DEF Inv

LEMMA SucceedInv ==
    ASSUME Inv, NEW w \in Workers, NEW t \in Threads,
           Succeed(w, t) \/ SucceedNoOutput(w, t)
    PROVE  Inv'
  <1>1. /\ claims' = [claims EXCEPT ![w][t] = None]
        /\ UNCHANGED <<stamp, content, updated, window, pc, scan, crashes, slow, resets>>
        /\ claims[w][t] # None /\ claims[w][t].content > 0
    BY DEF Succeed, SucceedNoOutput, Holds, threadVars
  <1>2. /\ claims[w][t] \in Output /\ claims[w][t].content \in Stamps
        /\ claims[w][t].source <= claims[w][t].content
    BY <1>1 DEF Inv, TypeOK, Claim, Output, ContentAhead
  <1>3. CASE ~Owned(w, t)
    <2>1. UNCHANGED <<job, output, covered>>
      BY <1>3 DEF Succeed, SucceedNoOutput
    <2>2. /\ job' \in [Threads -> Job \cup {None}]
          /\ output' \in [Threads -> Output \cup {None}]
          /\ covered' \in [Threads -> Stamps]
      BY <2>1 DEF Inv, TypeOK
    <2>3. /\ job'[t] # None => job'[t].success <= covered'[t]
          /\ output'[t] # None => output'[t].source <= output'[t].content
      BY <2>1 DEF Inv, RowsSound, ContentAhead
    <2> QED
      BY <1>1, <2>1, <2>2, <2>3, EndOfJob
  <1>4. CASE Owned(w, t)
    <2>1. /\ job' = Done(t)
          /\ covered' = [covered EXCEPT ![t] = claims[w][t].content]
          /\ output' \in {output, [output EXCEPT ![t] = claims[w][t]],
                          [output EXCEPT ![t] = None]}
      BY <1>4 DEF Succeed, SucceedNoOutput
    <2>2. job[t] # None /\ job[t].input = claims[w][t].source
      BY <1>1, <1>4 DEF Inv, ClaimsMatch, Owned
    <2>3. /\ job' \in [Threads -> Job \cup {None}]
          /\ job'[t] \in Job /\ job'[t].status = "done"
          /\ job'[t].success = claims[w][t].source
          /\ \A u \in Threads \ {t} : job'[u] = job[u]
      BY <2>1, <2>2, DoneRow DEF Inv
    <2>4. /\ covered' \in [Threads -> Stamps] /\ covered'[t] = claims[w][t].content
          /\ \A u \in Threads \ {t} : covered'[u] = covered[u]
      BY <1>2, <2>1 DEF Inv, TypeOK
    <2>5. /\ output' \in [Threads -> Output \cup {None}]
          /\ \A u \in Threads \ {t} : output'[u] = output[u]
          /\ output'[t] # None => output'[t].source <= output'[t].content
      BY <1>2, <2>1 DEF Inv, TypeOK, ContentAhead
    <2>6. job'[t].success <= covered'[t] /\ job'[t].status # "running"
      BY <1>2, <2>3, <2>4
    <2> QED
      BY <1>1, <2>3, <2>4, <2>5, <2>6, EndOfJob
  <1> QED
    BY <1>3, <1>4

LEMMA FailInv ==
    ASSUME Inv, NEW w \in Workers, NEW t \in Threads, Fail(w, t)
    PROVE  Inv'
  <1>1. /\ claims' = [claims EXCEPT ![w][t] = None]
        /\ UNCHANGED <<stamp, content, updated, window, pc, scan, crashes, slow, resets>>
        /\ UNCHANGED <<output, covered>>
    BY DEF Fail, threadVars
  <1>2. /\ output' \in [Threads -> Output \cup {None}]
        /\ covered' \in [Threads -> Stamps]
        /\ output'[t] # None => output'[t].source <= output'[t].content
    BY <1>1 DEF Inv, TypeOK, ContentAhead
  <1>3. CASE ~Owned(w, t)
    <2>1. UNCHANGED job
      BY <1>3 DEF Fail
    <2>2. /\ job' \in [Threads -> Job \cup {None}]
          /\ job'[t] # None => job'[t].success <= covered'[t]
      BY <1>1, <2>1 DEF Inv, TypeOK, RowsSound
    <2> QED
      BY <1>1, <1>2, <2>1, <2>2, EndOfJob
  <1>4. CASE Owned(w, t)
    <2>1. job[t] # None /\ job[t].remaining > 0 /\ job[t].success <= covered[t]
      BY <1>4 DEF Inv, RowsSound, Owned
    <2>2. job' = [job EXCEPT ![t].status = "error", ![t].lease = 0,
                             ![t].retry = RetryDelay, ![t].remaining = @ - 1]
      BY <1>4 DEF Fail
    <2>3. PICK r \in Job : /\ job' = [job EXCEPT ![t] = r]
                           /\ r.status = "error" /\ r.success = job[t].success
      BY <2>1, <2>2, FailRow, Zenon DEF Inv
    <2>4. /\ job' \in [Threads -> Job \cup {None}]
          /\ job'[t] = r /\ \A u \in Threads \ {t} : job'[u] = job[u]
      BY <2>3 DEF Inv, TypeOK
    <2> QED
      BY <1>1, <1>2, <2>1, <2>3, <2>4, EndOfJob
  <1> QED
    BY <1>3, <1>4

LEMMA TickInv == ASSUME Inv, Tick PROVE Inv'
  <1>1. /\ UNCHANGED <<stamp, content, updated, window, output, covered, pc, scan,
                       claims, crashes, resets>>
        /\ slow' \in 0..MaxSlow
    <2>1. \/ slow < MaxSlow /\ slow' = slow + 1
          \/ slow' = slow
      BY DEF Tick
    <2>2. slow' \in 0..MaxSlow
      BY <2>1 DEF Inv, TypeOK
    <2> QED
      BY <2>2 DEF Tick, threadVars, workerVars
  <1>2. /\ job' \in [Threads -> Job \cup {None}]
        /\ \A t \in Threads :
             /\ job[t] = None <=> job'[t] = None
             /\ job[t] # None =>
                  /\ job'[t] \in Job
                  /\ job'[t].status = job[t].status /\ job'[t].owner = job[t].owner
                  /\ job'[t].remaining = job[t].remaining
                  /\ job'[t].input = job[t].input /\ job'[t].success = job[t].success
                  /\ job'[t].lease > 0 => job[t].lease > 0
    BY TickRow DEF Inv
  <1>3. TypeOK'
    BY <1>1, <1>2 DEF Inv, TypeOK
  <1>4. RowsSound' /\ ClaimsMatch'
    BY <1>1, <1>2 DEF Inv, RowsSound, ClaimsMatch, Owned
  <1>5. ScansSound' /\ ContentAhead'
    BY <1>1 DEF Inv, ScansSound, ContentAhead
  <1>6. RunningCap'
    <2>1. \A u \in Threads : Running(u)' => Running(u)
      BY <1>2 DEF Running
    <2> QED
      BY <2>1, CapKept DEF Inv
  <1> QED
    BY <1>3, <1>4, <1>5, <1>6 DEF Inv

-----------------------------------------------------------------------------
(* The theorems *)

LEMMA InvStep == Inv /\ [Next]_vars => Inv'
  <1>1. Inv /\ UNCHANGED vars => Inv'
    BY DEF Inv, TypeOK, RowsSound, ClaimsMatch, ScansSound, ContentAhead, RunningCap,
           Running, Owned, vars, threadVars, memoryVars, workerVars
  <1> QED
    BY <1>1, ThreadInv, RemovalInv, WorkerInv, TryClaimInv, SampleInv, SucceedInv,
       FailInv, MarkIsLostInv, TickInv DEF Next, ClaimStep, JobStep

(* The invariant holds in every reachable state.                               *)
THEOREM Invariance == Spec => []Inv
  BY InitInv, InvStep, PTL DEF Spec

(* The state has its type: in particular the retries of a row never go below   *)
(* zero (mark_stage1_job_failed subtracts one without a guard of its own).     *)
THEOREM TypeCorrect == Spec => []TypeOK
  <1>1. Inv => TypeOK
    BY DEF Inv
  <1> QED
    BY <1>1, Invariance, PTL

(* However many workers claim at once, no more than MaxRunning rows run under  *)
(* a lease that holds (try_claim_stage1_job).                                  *)
THEOREM CapHolds == Spec => []RunningCap
  <1>1. Inv => RunningCap
    BY DEF Inv
  <1> QED
    BY <1>1, Invariance, PTL

(* What the success watermark of a row covers has been read by the extraction  *)
(* that set it (mark_stage1_job_succeeded, sample).                            *)
THEOREM WatermarksAreCovered == Spec => []WatermarkIsCovered
  <1>1. Inv => WatermarkIsCovered
    BY DEF Inv, RowsSound, ContentAhead, WatermarkIsCovered
  <1> QED
    BY <1>1, Invariance, PTL

(* No step takes a success watermark back, a claim from an old scan included.  *)
THEOREM WatermarksOnlyGrow == Spec => SuccessNeverGoesBack
  <1> DEFINE Grows == \A t \in Threads : job[t] # None /\ job'[t] # None
                                         => job[t].success <= job'[t].success
  <1>1. ASSUME Inv, Next PROVE Grows
    <2>0. \A t \in Threads : job[t] # None => job[t] \in Job /\ job[t].success \in Nat
                                              /\ job[t].success <= job[t].success
      BY <1>1 DEF Inv, TypeOK, Job, Stamps
    <2>1. ASSUME NEW t \in Threads,
                 AppendItems(t) \/ TouchThread(t) \/ Age(t) \/ Prune(t)
                    \/ DeleteThreadMemory(t)
          PROVE  Grows
      <3>1. \A u \in Threads : job'[u] \in {job[u], None}
        BY <1>1, <2>1 DEF AppendItems, TouchThread, Age, Prune, DeleteThreadMemory,
                          memoryVars, Inv, TypeOK
      <3> QED
        BY <2>0, <3>1
    <2>2. ASSUME NEW w \in Workers, StartUp(w) \/ RunJobs(w) \/ Finish(w) \/ Crash(w)
          PROVE  Grows
      BY <2>0, <2>2 DEF StartUp, RunJobs, Finish, Crash, memoryVars
    <2>3. ASSUME NEW w \in Workers, NEW r \in scan[w], TryClaim(w, r)
          PROVE  Grows
      <3> DEFINE j == ClaimedJob(r.thread, w, r.source)
      <3>1. r.thread \in Threads
        BY <1>1, <2>3 DEF Inv, TypeOK
      <3>2. job' = job \/ job' = [job EXCEPT ![r.thread] = j]
        BY <2>3 DEF TryClaim
      <3>3. job[r.thread] # None => j.success = job[r.thread].success
        BY DEF ClaimedJob
      <3> HIDE DEF j
      <3> QED
        BY <1>1, <2>0, <3>1, <3>2, <3>3 DEF Inv, TypeOK
    <2>4. ASSUME NEW w \in Workers, NEW t \in Threads, JobStep(w, t)
          PROVE  Grows
      <3>1. CASE UNCHANGED job
        BY <2>0, <3>1
      <3>2. CASE Owned(w, t) /\ job' = Done(t)
        <4>1. /\ Done(t)[t].success = job[t].input
              /\ \A u \in Threads \ {t} : Done(t)[u] = job[u]
          BY <1>1, <3>2, DoneRow DEF Inv, Owned
        <4>2. job[t].success <= job[t].input
          BY <1>1, <3>2 DEF Inv, RowsSound, Owned
        <4> QED
          BY <2>0, <3>2, <4>1, <4>2
      <3>3. CASE Owned(w, t) /\ Fail(w, t)
        <4>1. job[t] # None /\ job[t].remaining > 0
          BY <1>1, <3>3 DEF Inv, RowsSound, Owned
        <4>2. job' = [job EXCEPT ![t].status = "error", ![t].lease = 0,
                                 ![t].retry = RetryDelay, ![t].remaining = @ - 1]
          BY <3>3 DEF Fail
        <4>3. PICK r \in Job : /\ job' = [job EXCEPT ![t] = r]
                               /\ r.status = "error" /\ r.success = job[t].success
          BY <1>1, <4>1, <4>2, FailRow, Zenon DEF Inv
        <4>4. job'[t] = r /\ \A u \in Threads \ {t} : job'[u] = job[u]
          BY <1>1, <4>3 DEF Inv, TypeOK
        <4> QED
          BY <2>0, <4>3, <4>4
      <3> QED
        BY <2>4, <3>1, <3>2, <3>3
        DEF JobStep, Sample, Succeed, SucceedNoOutput, Fail, memoryVars
    <2>5. CASE Tick
      BY <1>1, <2>0, <2>5, TickRow DEF Inv
    <2>6. CASE ClearMemoryData
      BY <2>6 DEF ClearMemoryData
    <2>7. ASSUME NEW w \in Workers, NEW t \in Threads, MarkIsLost(w, t)
          PROVE  Grows
      BY <2>0, <2>7 DEF MarkIsLost, memoryVars
    <2> QED
      BY <1>1, <2>1, <2>2, <2>3, <2>4, <2>5, <2>6, <2>7 DEF Next, ClaimStep
  <1>2. ASSUME Inv, UNCHANGED vars PROVE Grows
    BY <1>2 DEF vars, memoryVars, Inv, TypeOK, Job, Stamps
  <1>3. Inv /\ [Next]_vars => [Grows]_vars
    BY <1>1, <1>2
  <1> QED
    BY <1>3, Invariance, PTL DEF Spec, SuccessNeverGoesBack
=============================================================================
