------------------------- MODULE TaskAssemblyProofs -------------------------
(***************************************************************************)
(* Proofs about TaskAssembly, for any number of segments and any answers   *)
(* of the two LLMs.                                                        *)
(***************************************************************************)
EXTENDS TaskAssembly, TLAPS

USE AssemblyAssumption

TaskRecords == [segs : SUBSET Nat, of : Nat]

\* A list of numbers names numbers.
LEMMA IdsTyped ==
    ASSUME NEW list \in Seq(Nat)
    PROVE  Ids(list) \subseteq Nat
  BY DEF Ids

\* Adding a task to the guard's result.
LEMMA AppendTyped ==
    ASSUME NEW S \in SUBSET Nat, NEW i \in Nat, tasks \in Seq(TaskRecords)
    PROVE  /\ Append(tasks, Task(S, i)) \in Seq(TaskRecords)
           /\ DOMAIN tasks \subseteq DOMAIN Append(tasks, Task(S, i))
<1>1. Task(S, i) \in TaskRecords
  BY DEF Task, TaskRecords
<1> QED
  BY <1>1

\* Before the segmenter answers every variable has its type.
LEMMA InitTypeOK == Init => TypeOK
  BY DEF Init, TypeOK, MemberLists

\* Neither the guard nor the assembly leaves the types.
LEMMA NextTypeOK == TypeOK /\ [Next]_vars => TypeOK'
<1> SUFFICES ASSUME TypeOK, [Next]_vars PROVE TypeOK'
  OBVIOUS
<1> USE DEF TypeOK
<1>0. tasks \in Seq(TaskRecords)
  BY DEF TaskRecords
<1>1. CASE LlmSegment
  <2>1. /\ answer' \in MemberLists /\ UNCHANGED <<k, groups, heard, seen, clusters>>
        /\ phase' \in {"guard", "assemble"}
    BY <1>1 DEF LlmSegment
  <2>2. tasks' \in Seq(TaskRecords) /\ left' \subseteq DOMAIN tasks'
    <3>1. CASE phase' = "guard"
      BY <1>0, <1>1, <3>1 DEF LlmSegment
    <3>2. CASE phase' # "guard"
      <4>1. /\ tasks' = [i \in DOMAIN answer' |-> Task(Ids(answer'[i]), i)]
            /\ left' = DOMAIN answer'
        BY <1>1, <3>2 DEF LlmSegment
      <4>2. DOMAIN answer' = 1..Len(answer') /\ Len(answer') \in Nat
        BY <2>1 DEF MemberLists
      <4>3. \A i \in DOMAIN answer' : Task(Ids(answer'[i]), i) \in TaskRecords
        <5> TAKE i \in DOMAIN answer'
        <5>1. answer'[i] \in Seq(Nat) /\ i \in Nat
          BY <2>1, <4>2 DEF MemberLists
        <5> QED
          BY <5>1, IdsTyped DEF Task, TaskRecords
      <4> QED
        BY <4>1, <4>2, <4>3
    <3> QED
      BY <3>1, <3>2
  <2> QED
    BY <2>1, <2>2 DEF TaskRecords
<1>2. CASE LlmRaises
  BY <1>2 DEF LlmRaises
<1>3. ASSUME phase \in {"guard", "audit"}, k <= Len(answer)
      PROVE  Current \subseteq Nat
  <2>1. answer[k] \in Seq(Nat)
    BY <1>3 DEF MemberLists
  <2> QED
    BY <2>1, IdsTyped DEF Current
<1>4. CASE KeepTask
  <2>1. Current \in SUBSET Nat /\ k \in Nat
    BY <1>3, <1>4 DEF KeepTask
  <2>2. /\ tasks' = Append(tasks, Task(Current, k)) /\ k' = k + 1 /\ phase = "guard"
        /\ UNCHANGED <<phase, answer, groups, heard, left, seen, clusters>>
    BY <1>4 DEF KeepTask
  <2>3. tasks' \in Seq(TaskRecords) /\ left' \subseteq DOMAIN tasks'
    BY <1>0, <2>1, <2>2, AppendTyped
  <2> QED
    BY <2>2, <2>3 DEF TaskRecords
<1>5. CASE GuardRaises \/ AuditRaises
  BY <1>5 DEF GuardRaises, AuditRaises
<1>6. CASE AskAudit
  <2>1. <<>> \in MemberLists
    BY DEF MemberLists
  <2>2. groups' \in MemberLists
    BY <1>6, <2>1 DEF AskAudit
  <2> QED
    BY <1>6, <2>2 DEF AskAudit
<1>7. CASE TakeGroup
  <2>1. /\ groups # <<>> /\ groups' = Tail(groups)
        /\ heard' = heard \cup GroupTakes(Head(groups))
        /\ tasks' = IF GroupTakes(Head(groups)) = {} THEN tasks
                    ELSE Append(tasks, Task(GroupTakes(Head(groups)), k))
        /\ UNCHANGED <<phase, answer, k, left, seen, clusters>>
    BY <1>7 DEF TakeGroup
  <2>2. Head(groups) \in Seq(Nat) /\ Tail(groups) \in MemberLists
    BY <2>1 DEF MemberLists
  <2>3. GroupTakes(Head(groups)) \in SUBSET Nat /\ k \in Nat
    BY <2>2, IdsTyped DEF GroupTakes
  <2>4. tasks' \in Seq(TaskRecords) /\ left' \subseteq DOMAIN tasks'
    BY <1>0, <2>1, <2>3, AppendTyped
  <2> QED
    BY <2>1, <2>2, <2>3, <2>4 DEF TaskRecords
<1>8. CASE CloseAudit
  <2>1. Current \ heard \in SUBSET Nat /\ k \in Nat
    BY <1>3, <1>8 DEF CloseAudit
  <2>2. /\ tasks' = IF Current \subseteq heard THEN tasks
                    ELSE Append(tasks, Task(Current \ heard, k))
        /\ phase' = "guard" /\ k' = k + 1 /\ heard' = {}
        /\ UNCHANGED <<answer, groups, left, seen, clusters>>
    BY <1>8 DEF CloseAudit
  <2>3. tasks' \in Seq(TaskRecords) /\ left' \subseteq DOMAIN tasks'
    BY <1>0, <2>1, <2>2, AppendTyped
  <2> QED
    BY <2>2, <2>3 DEF TaskRecords
<1>9. CASE GuardDone
  BY <1>9 DEF GuardDone
<1>10. ASSUME NEW i \in left, AssembleTask(i) PROVE TypeOK'
  <2>1. Takes(i) \subseteq Segs
    <3>1. tasks[i] \in TaskRecords
      BY <1>0
    <3>2. tasks[i].segs \subseteq Nat
      BY <3>1 DEF TaskRecords
    <3> QED
      BY <3>2 DEF Takes, Segs
  <2> QED
    BY <1>10, <2>1 DEF AssembleTask
<1>11. CASE AddOrphans
  BY <1>11 DEF AddOrphans
<1>12. CASE UNCHANGED vars
  BY <1>12 DEF vars
<1> QED
  BY <1>1, <1>2, <1>4, <1>5, <1>6, <1>7, <1>8, <1>9, <1>10, <1>11, <1>12 DEF Next

\* Every variable of the guard and of the assembly keeps its type: no number the
\* LLM makes up is ever assembled.
THEOREM TypeCorrect == Spec => []TypeOK
  BY InitTypeOK, NextTypeOK, PTL DEF Spec

-----------------------------------------------------------------------------
(* assemble_clusters *)

Assembled == DOMAIN tasks \ left

\* The clusters so far hold the segments seen so far, each once.
PartitionSoFar ==
    /\ UNION clusters = seen
    /\ Disjoint(clusters)
    /\ {} \notin clusters

\* The tasks assembled so far come first in the order of the sort, what they name
\* is seen, and the clusters are what they claim.
ClaimsSoFar ==
    /\ \A x \in Segs : x \in seen <=> \E i \in Assembled : x \in tasks[i].segs
    /\ \A c : c \in clusters <=> c # {} /\ \E i \in Assembled : c = Claimed(i)
    /\ \A i \in Assembled, j \in left : Before(i, j)

AssemblyInv ==
    /\ TypeOK
    /\ phase \in {"segment", "guard", "audit"} => seen = {} /\ clusters = {}
    /\ phase = "assemble" => PartitionSoFar /\ ClaimsSoFar
    /\ PartitionOfAtoms
    /\ FirstClaimWins

\* The segments a task takes are the ones it is the first to name.
LEMMA TakesIsClaimed ==
    ASSUME TypeOK, ClaimsSoFar, NEW i \in left, AssembleTask(i)
    PROVE  Takes(i) = Claimed(i)
<1>0. i \in DOMAIN tasks /\ i \in Int /\ DOMAIN tasks \subseteq Int
  BY DEF TypeOK
<1>1. ASSUME NEW x \in Takes(i) PROVE x \in Claimed(i)
  <2>1. x \in tasks[i].segs /\ x \notin seen
    BY DEF Takes
  <2>2. x \in Segs
    <3>1. tasks \in Seq(TaskRecords)
      BY DEF TypeOK, TaskRecords
    <3>2. tasks[i] \in TaskRecords
      BY <1>0, <3>1
    <3> QED
      BY <3>2 DEF Takes, Segs, TaskRecords
  <2>3. ASSUME NEW j \in DOMAIN tasks, x \in tasks[j].segs PROVE Before(i, j)
    <3>1. j \in left
      BY <2>1, <2>2, <2>3 DEF ClaimsSoFar, Assembled
    <3> QED
      BY <3>1 DEF AssembleTask
  <2> QED
    BY <2>1, <2>2, <2>3 DEF Claimed, FirstClaim
<1>2. ASSUME NEW x \in Claimed(i) PROVE x \in Takes(i)
  <2>1. x \in Segs /\ x \in tasks[i].segs
    BY DEF Claimed, FirstClaim
  <2>2. ASSUME x \in seen PROVE FALSE
    <3>1. PICK j \in Assembled : x \in tasks[j].segs
      BY <2>1, <2>2 DEF ClaimsSoFar
    <3>2. j \in DOMAIN tasks /\ j # i /\ j \in Int
      BY <1>0, <3>1 DEF Assembled
    <3>3. Before(i, j)
      BY <3>1, <3>2 DEF Claimed, FirstClaim
    <3>4. Before(j, i)
      BY <3>1 DEF ClaimsSoFar
    <3>5. i <= j /\ j <= i
      BY <3>3, <3>4 DEF Before
    <3> QED
      BY <1>0, <3>2, <3>5
  <2> QED
    BY <2>1, <2>2 DEF Takes, Segs
<1> QED
  BY <1>1, <1>2

\* Claims depend on the tasks only.
LEMMA ClaimsUnchanged ==
    ASSUME UNCHANGED tasks
    PROVE  /\ \A i : Claimed(i)' = Claimed(i)
           /\ \A i, j : Before(i, j)' = Before(i, j)
           /\ Unclaimed' = Unclaimed
<1>1. \A i, j : Before(i, j)' = Before(i, j)
  BY DEF Before, NoLater
<1>2. \A i, x : FirstClaim(i, x)' = FirstClaim(i, x)
  BY <1>1 DEF FirstClaim
<1>3. \A i : Claimed(i)' = Claimed(i)
  BY <1>2 DEF Claimed
<1>4. Unclaimed' = Unclaimed
  BY DEF Unclaimed
<1> QED
  BY <1>1, <1>3, <1>4

\* Assembling one more task keeps the partition and the claims.
LEMMA AssembleKeeps ==
    ASSUME TypeOK, PartitionSoFar, ClaimsSoFar, NEW i \in left, AssembleTask(i)
    PROVE  PartitionSoFar' /\ ClaimsSoFar'
<1>1. /\ seen' = seen \cup Takes(i) /\ left' = left \ {i} /\ tasks' = tasks
      /\ clusters' = IF Takes(i) = {} THEN clusters ELSE clusters \cup {Takes(i)}
  BY DEF AssembleTask
<1>2. Takes(i) \cap seen = {}
  BY DEF Takes
<1>3. PartitionSoFar'
  <2>1. CASE Takes(i) = {}
    BY <1>1, <2>1 DEF PartitionSoFar, Disjoint
  <2>2. CASE Takes(i) # {}
    <3>1. \A c \in clusters : c \cap Takes(i) = {}
      BY <1>2 DEF PartitionSoFar
    <3> QED
      BY <1>1, <2>2, <3>1 DEF PartitionSoFar, Disjoint
  <2> QED
    BY <2>1, <2>2
<1>4. Assembled' = Assembled \cup {i}
  BY <1>1 DEF Assembled, TypeOK
<1>5. ASSUME NEW x \in Segs
      PROVE  x \in seen' <=> \E j \in Assembled' : x \in tasks'[j].segs
  <2>1. x \in tasks[i].segs => x \in seen'
    BY <1>1 DEF Takes, Segs
  <2>2. x \in Takes(i) => x \in tasks[i].segs
    BY DEF Takes
  <2> QED
    BY <1>1, <1>4, <2>1, <2>2 DEF ClaimsSoFar
<1>6. \A c : c \in clusters' <=> c # {} /\ \E j \in Assembled' : c = Claimed(j)'
  <2>1. \A c : c \in clusters' <=> c \in clusters \/ (c # {} /\ c = Claimed(i))
    BY <1>1, TakesIsClaimed
  <2>2. \A j : Claimed(j)' = Claimed(j)
    BY <1>1, ClaimsUnchanged
  <2> QED
    BY <1>4, <2>1, <2>2 DEF ClaimsSoFar
<1>7. \A a \in Assembled', b \in left' : Before(a, b)'
  <2>1. \A a, b : Before(a, b)' = Before(a, b)
    BY <1>1, ClaimsUnchanged
  <2>2. \A b \in left : Before(i, b)
    BY DEF AssembleTask
  <2> QED
    BY <1>1, <1>4, <2>1, <2>2 DEF ClaimsSoFar
<1> QED
  BY <1>3, <1>5, <1>6, <1>7 DEF ClaimsSoFar, Segs

\* The orphans complete both.
LEMMA OrphansComplete ==
    ASSUME TypeOK, PartitionSoFar, ClaimsSoFar, AddOrphans
    PROVE  PartitionOfAtoms' /\ FirstClaimWins'
<1>1. /\ left = {} /\ tasks' = tasks
      /\ clusters' = clusters \cup {{x} : x \in Segs \ seen}
  BY DEF AddOrphans
<1>2. PartitionOfAtoms'
  <2>1. seen \subseteq Segs
    BY DEF TypeOK
  <2>2. UNION clusters' = Segs
    BY <1>1, <2>1 DEF PartitionSoFar
  <2>3. \A c \in clusters : \A x \in Segs \ seen : x \notin c
    BY DEF PartitionSoFar
  <2>4. Disjoint(clusters')
    <3> SUFFICES ASSUME NEW c \in clusters', NEW d \in clusters', c # d
                 PROVE  c \cap d = {}
      BY DEF Disjoint
    <3>1. CASE c \in clusters /\ d \in clusters
      BY <3>1 DEF PartitionSoFar, Disjoint
    <3>2. ASSUME NEW x \in Segs \ seen, c = {x} PROVE c \cap d = {}
      BY <1>1, <2>3, <3>2
    <3>3. ASSUME NEW x \in Segs \ seen, d = {x} PROVE c \cap d = {}
      BY <1>1, <2>3, <3>3
    <3> QED
      BY <1>1, <3>1, <3>2, <3>3
  <2>5. {} \notin clusters'
    BY <1>1 DEF PartitionSoFar
  <2> QED
    BY <2>2, <2>4, <2>5 DEF PartitionOfAtoms, Segs, Disjoint
<1>3. FirstClaimWins'
  <2>1. Assembled = DOMAIN tasks
    BY <1>1 DEF Assembled
  <2>2. Unclaimed = Segs \ seen
    BY <2>1 DEF Unclaimed, ClaimsSoFar
  <2>3. clusters = {Claimed(i) : i \in DOMAIN tasks} \ {{}}
    BY <2>1 DEF ClaimsSoFar
  <2>4. clusters' = ({Claimed(i) : i \in DOMAIN tasks} \ {{}}) \cup {{x} : x \in Unclaimed}
    BY <1>1, <2>2, <2>3
  <2>5. /\ \A i : Claimed(i)' = Claimed(i)
        /\ Unclaimed' = Unclaimed
    BY <1>1, ClaimsUnchanged
  <2>6. {Claimed(i)' : i \in DOMAIN tasks} = {Claimed(i) : i \in DOMAIN tasks}
    BY <2>5
  <2> QED
    BY <1>1, <2>4, <2>5, <2>6 DEF FirstClaimWins
<1> QED
  BY <1>2, <1>3

\* Nothing is assembled before the segmenter has answered.
LEMMA InitAssembly == Init => AssemblyInv
  BY InitTypeOK DEF Init, AssemblyInv, PartitionOfAtoms, FirstClaimWins

\* The invariant of the assembly is inductive.
LEMMA NextAssembly == AssemblyInv /\ [Next]_vars => AssemblyInv'
<1> SUFFICES ASSUME AssemblyInv, [Next]_vars PROVE AssemblyInv'
  OBVIOUS
<1> USE DEF AssemblyInv
<1>0. TypeOK'
  BY NextTypeOK
<1>1. ASSUME phase' = "assemble", left' = DOMAIN tasks', seen' = {}, clusters' = {}
      PROVE  PartitionSoFar' /\ ClaimsSoFar'
  <2>1. Assembled' = {}
    BY <1>1 DEF Assembled
  <2> QED
    BY <1>1, <2>1 DEF PartitionSoFar, ClaimsSoFar, Disjoint
<1>2. CASE LlmSegment
  <2>1. /\ seen' = {} /\ clusters' = {} /\ phase' \in {"guard", "assemble"}
        /\ phase' = "assemble" => left' = DOMAIN tasks'
    BY <1>2 DEF LlmSegment
  <2> QED
    BY <1>0, <1>1, <2>1 DEF PartitionOfAtoms, FirstClaimWins
<1>3. CASE LlmRaises \/ GuardRaises \/ AuditRaises \/ GuardDone
  BY <1>0, <1>3 DEF LlmRaises, GuardRaises, AuditRaises, GuardDone, PartitionOfAtoms, FirstClaimWins
<1>4. CASE KeepTask \/ AskAudit \/ TakeGroup \/ CloseAudit
  <2>1. phase \in {"guard", "audit"} /\ phase' \in {"guard", "audit"}
        /\ seen' = seen /\ clusters' = clusters
    BY <1>4 DEF KeepTask, AskAudit, TakeGroup, CloseAudit
  <2> QED
    BY <1>0, <2>1 DEF PartitionOfAtoms, FirstClaimWins
<1>6. ASSUME NEW i \in left, AssembleTask(i) PROVE AssemblyInv'
  <2>1. phase = "assemble" /\ phase' = "assemble"
    BY <1>6 DEF AssembleTask
  <2> QED
    BY <1>0, <1>6, <2>1, AssembleKeeps DEF PartitionOfAtoms, FirstClaimWins
<1>7. CASE AddOrphans
  <2>1. phase = "assemble" /\ phase' = "done"
    BY <1>7 DEF AddOrphans
  <2> QED
    BY <1>0, <1>7, <2>1, OrphansComplete
<1>8. CASE UNCHANGED vars
  <2>1. UNCHANGED <<phase, tasks, left, seen, clusters>>
    BY <1>8 DEF vars
  <2>2. /\ \A i : Claimed(i)' = Claimed(i)
        /\ \A i, j : Before(i, j)' = Before(i, j)
        /\ Unclaimed' = Unclaimed
    BY <2>1, ClaimsUnchanged
  <2>3. PartitionSoFar' = PartitionSoFar /\ PartitionOfAtoms' = PartitionOfAtoms
    BY <2>1 DEF PartitionSoFar, PartitionOfAtoms, Disjoint, Segs
  <2>4. ClaimsSoFar => ClaimsSoFar'
    BY <2>1, <2>2 DEF ClaimsSoFar, Assembled, Segs
  <2>5. {Claimed(i)' : i \in DOMAIN tasks} = {Claimed(i) : i \in DOMAIN tasks}
    BY <2>2
  <2>6. FirstClaimWins => FirstClaimWins'
    BY <2>1, <2>2, <2>5 DEF FirstClaimWins
  <2> QED
    BY <1>0, <2>1, <2>3, <2>4, <2>6
<1> QED
  BY <1>2, <1>3, <1>4, <1>6, <1>7, <1>8 DEF Next

\* assemble_clusters never loses or repeats a segment, for any number of segments
\* and whatever the LLM answers, in or out of range.
THEOREM ClustersPartitionAtoms == Spec => []PartitionOfAtoms
<1>1. AssemblyInv => PartitionOfAtoms
  BY DEF AssemblyInv
<1> QED
  BY <1>1, InitAssembly, NextAssembly, PTL DEF Spec

\* The loop of assemble_clusters computes its closed form: first claim, in the
\* order of the sort, wins.
THEOREM ClustersFollowFirstClaim == Spec => []FirstClaimWins
<1>1. AssemblyInv => FirstClaimWins
  BY DEF AssemblyInv
<1> QED
  BY <1>1, InitAssembly, NextAssembly, PTL DEF Spec

-----------------------------------------------------------------------------
(* apply_split_guard *)

\* The tasks split from task i hold the segments S, each once.
Parts(i, S) ==
    /\ \A x : x \in S <=> \E j \in SplitOf(i) : x \in tasks[j].segs
    /\ \A a, b \in SplitOf(i) : a # b => tasks[a].segs \cap tasks[b].segs = {}

\* Tasks before k are done; of task k the guard has placed what it has heard.
GuardInv ==
    /\ TypeOK
    /\ phase = "segment" => tasks = <<>> /\ k = 1
    /\ phase \in {"guard", "audit"} =>
         /\ k <= Len(answer) + 1
         /\ \A j \in DOMAIN tasks : tasks[j].of <= k
         /\ \A i \in 1..(k - 1) : Parts(i, Ids(answer[i]))
    /\ phase = "guard" => \A j \in DOMAIN tasks : tasks[j].of < k
    /\ phase = "audit" => Parts(k, heard) /\ heard \subseteq Current
    /\ phase = "scored" => \A i \in DOMAIN answer : Parts(i, Ids(answer[i]))

\* A task appended for i adds its segments to those of i, and to no other.
LEMMA AppendParts ==
    ASSUME tasks \in Seq(TaskRecords), NEW S \in SUBSET Nat, NEW i \in Nat,
           tasks' = Append(tasks, Task(S, i)), NEW h \in Nat, NEW X, Parts(h, X)
    PROVE  /\ h # i => Parts(h, X)'
           /\ h = i /\ X \cap S = {} => Parts(h, X \cup S)'
<1> DEFINE n == Len(tasks) + 1
<1>1. /\ DOMAIN tasks = 1..Len(tasks) /\ Len(tasks) \in Nat
      /\ DOMAIN tasks' = DOMAIN tasks \cup {n} /\ n \notin DOMAIN tasks
      /\ \A j \in DOMAIN tasks : tasks'[j] = tasks[j]
      /\ tasks'[n] = Task(S, i)
  BY AppendTyped
<1>2. tasks'[n].segs = S /\ tasks'[n].of = i
  BY <1>1 DEF Task
<1> HIDE DEF n
<1>3. ASSUME h # i PROVE Parts(h, X)'
  <2>1. SplitOf(h)' = SplitOf(h)
    BY <1>1, <1>2, <1>3 DEF SplitOf
  <2>2. \A j \in SplitOf(h) : tasks'[j] = tasks[j]
    BY <1>1 DEF SplitOf
  <2>3. \A x : x \in X <=> \E j \in SplitOf(h)' : x \in tasks'[j].segs
    BY <2>1, <2>2 DEF Parts
  <2>4. ASSUME NEW a \in SplitOf(h)', NEW b \in SplitOf(h)', a # b
        PROVE  tasks'[a].segs \cap tasks'[b].segs = {}
    <3>1. tasks'[a] = tasks[a] /\ tasks'[b] = tasks[b]
      BY <2>1, <2>2
    <3>2. tasks[a].segs \cap tasks[b].segs = {}
      BY <2>1, <2>4 DEF Parts
    <3> QED
      BY <3>1, <3>2
  <2> QED
    BY <2>3, <2>4 DEF Parts
<1>4. ASSUME h = i, X \cap S = {} PROVE Parts(h, X \cup S)'
  <2>1. SplitOf(h)' = SplitOf(h) \cup {n}
    BY <1>1, <1>2, <1>4 DEF SplitOf
  <2>2. \A j \in SplitOf(h) : tasks'[j] = tasks[j] /\ j # n
    BY <1>1 DEF SplitOf
  <2>3. \A x : x \in X \cup S <=> \E j \in SplitOf(h)' : x \in tasks'[j].segs
    BY <1>2, <2>1, <2>2 DEF Parts
  <2>4. \A j \in SplitOf(h) : tasks[j].segs \cap S = {}
    BY <1>4 DEF Parts
  <2>5. \A a, b \in SplitOf(h)' : a # b => tasks'[a].segs \cap tasks'[b].segs = {}
    <3> SUFFICES ASSUME NEW a \in SplitOf(h)', NEW b \in SplitOf(h)', a # b
                 PROVE  tasks'[a].segs \cap tasks'[b].segs = {}
      OBVIOUS
    <3>1. CASE a = n
      BY <1>2, <2>1, <2>2, <2>4, <3>1
    <3>2. CASE b = n
      BY <1>2, <2>1, <2>2, <2>4, <3>2
    <3>3. CASE a # n /\ b # n
      BY <2>1, <2>2, <3>3 DEF Parts
    <3> QED
      BY <3>1, <3>2, <3>3
  <2> QED
    BY <2>3, <2>5 DEF Parts
<1> QED
  BY <1>3, <1>4

\* A task nothing was split from holds nothing.
LEMMA NoParts ==
    ASSUME NEW i, \A j \in DOMAIN tasks : tasks[j].of # i
    PROVE  Parts(i, {})
  BY DEF Parts, SplitOf

\* Parts depend on the tasks only.
LEMMA PartsUnchanged ==
    ASSUME UNCHANGED tasks, NEW i, NEW S, Parts(i, S)
    PROVE  Parts(i, S)'
  BY DEF Parts, SplitOf

\* Whatever the guard appends for the current task leaves the earlier ones alone.
LEMMA EarlierTasksKept ==
    ASSUME GuardInv, phase \in {"guard", "audit"}, UNCHANGED answer,
           NEW S \in SUBSET Nat, tasks' = tasks \/ tasks' = Append(tasks, Task(S, k))
    PROVE  /\ \A i \in 1..(k - 1) : Parts(i, Ids(answer[i]))'
           /\ \A j \in DOMAIN tasks' : tasks'[j].of <= k
<1> USE DEF GuardInv
<1>0. tasks \in Seq(TaskRecords) /\ k \in Nat
  BY DEF TypeOK, TaskRecords
<1>1. CASE tasks' = tasks
  BY <1>1, PartsUnchanged DEF Ids
<1>2. CASE tasks' = Append(tasks, Task(S, k))
  <2>1. ASSUME NEW i \in 1..(k - 1) PROVE Parts(i, Ids(answer[i]))'
    <3>1. i \in Nat /\ i # k /\ Parts(i, Ids(answer[i]))
      BY <1>0
    <3>2. PICK X : X = Ids(answer[i]) /\ X = Ids(answer'[i])
      BY DEF Ids
    <3>3. Parts(i, X)'
      BY <1>0, <1>2, <3>1, <3>2, AppendParts
    <3> QED
      BY <3>2, <3>3 DEF Parts
  <2>2. ASSUME NEW j \in DOMAIN tasks' PROVE tasks'[j].of <= k
    <3>1. (j \in DOMAIN tasks /\ tasks'[j] = tasks[j]) \/ tasks'[j] = Task(S, k)
      BY <1>0, <1>2, AppendTyped
    <3> QED
      BY <1>0, <3>1 DEF Task
  <2> QED
    BY <2>1, <2>2
<1> QED
  BY <1>1, <1>2
\* Parts of a task of the answer depend on the tasks and the answer only.
LEMMA SameTasksSameParts ==
    ASSUME UNCHANGED <<answer, tasks>>, NEW i, Parts(i, Ids(answer[i]))
    PROVE  Parts(i, Ids(answer[i]))'
<1>1. PICK X : X = Ids(answer[i]) /\ X = Ids(answer'[i])
  BY DEF Ids
<1>2. Parts(i, X)'
  BY <1>1, PartsUnchanged
<1> QED
  BY <1>1, <1>2 DEF Parts

\* Once all of the current task is placed, it is done like the earlier ones.
LEMMA CurrentDone ==
    ASSUME k \in Nat, NEW c \in Nat, c = k, NEW X, X = Current, UNCHANGED answer,
           \A i \in 1..(k - 1) : Parts(i, Ids(answer[i]))', Parts(c, X)'
    PROVE  \A i \in 1..k : Parts(i, Ids(answer[i]))'
<1> SUFFICES ASSUME NEW i \in 1..k PROVE Parts(i, Ids(answer[i]))'
  OBVIOUS
<1>1. CASE i # k
  BY <1>1
<1>2. CASE i = k
  <2>1. X = Ids(answer'[i]) /\ i = c
    BY <1>2 DEF Current, Ids
  <2> QED
    BY <2>1 DEF Parts
<1> QED
  BY <1>1, <1>2

\* The guard moves on to the next task.
LEMMA GuardMovesOn ==
    ASSUME TypeOK', k \in Nat, Len(answer) \in Nat, k <= Len(answer), answer' = answer,
           k' = k + 1, phase' = "guard",
           \A i \in 1..k : Parts(i, Ids(answer[i]))',
           \A j \in DOMAIN tasks' : tasks'[j].of <= k
    PROVE  GuardInv'
<1>1. ASSUME NEW j \in DOMAIN tasks' PROVE tasks'[j].of <= k' /\ tasks'[j].of < k'
  <2>1. tasks' \in Seq(TaskRecords)
    BY DEF TypeOK, TaskRecords
  <2>2. tasks'[j] \in TaskRecords
    BY <2>1
  <2> QED
    BY <2>2 DEF TaskRecords
<1>2. 1..(k' - 1) = 1..k
  OBVIOUS
<1>3. \A i \in 1..(k' - 1) : Parts(i, Ids(answer[i]))'
  BY <1>2
<1> QED
  BY <1>1, <1>3 DEF GuardInv

\* Nothing is split before the guard starts.
LEMMA InitGuard == Init => GuardInv
  BY InitTypeOK DEF Init, GuardInv

\* The invariant of the guard is inductive.
LEMMA NextGuard == GuardInv /\ [Next]_vars => GuardInv'
<1> SUFFICES ASSUME GuardInv, [Next]_vars PROVE GuardInv'
  OBVIOUS
<1> USE DEF GuardInv
<1>0. TypeOK'
  BY NextTypeOK
<1>1. tasks \in Seq(TaskRecords) /\ k \in Nat /\ k # 0 /\ Len(answer) \in Nat
  BY DEF TypeOK, TaskRecords, MemberLists
<1>2. ASSUME phase \in {"guard", "audit"}, k <= Len(answer)
      PROVE  Current \subseteq Nat
  <2>1. answer[k] \in Seq(Nat)
    BY <1>1, <1>2 DEF TypeOK, MemberLists
  <2> QED
    BY <2>1, IdsTyped DEF Current
<1>3. ASSUME phase = "guard" PROVE Parts(k, {})
  <2>1. \A j \in DOMAIN tasks : tasks[j] \in TaskRecords
    BY <1>1
  <2>2. \A j \in DOMAIN tasks : tasks[j].of # k
    BY <1>1, <1>3, <2>1 DEF TaskRecords
  <2> QED
    BY <2>2, NoParts
<1>4. CASE LlmSegment
  <2>1. CASE phase' = "guard"
    <3>1. phase' = "guard" /\ tasks' = <<>> /\ k' = 1 /\ answer' \in MemberLists
      BY <1>4, <2>1 DEF LlmSegment
    <3> QED
      BY <1>0, <3>1 DEF MemberLists
  <2>2. CASE phase' # "guard"
    BY <1>0, <1>4, <2>2 DEF LlmSegment
  <2> QED
    BY <2>1, <2>2
<1>5. CASE LlmRaises \/ GuardRaises \/ AuditRaises
  BY <1>0, <1>5 DEF LlmRaises, GuardRaises, AuditRaises
<1>6. PICK c \in Nat : c = k
  BY <1>1
<1>7. CASE KeepTask
  <2>1. /\ phase = "guard" /\ phase' = "guard" /\ k <= Len(answer) /\ answer' = answer
        /\ tasks' = Append(tasks, Task(Current, k)) /\ k' = k + 1
    BY <1>7 DEF KeepTask
  <2>2. PICK S \in SUBSET Nat : S = Current
    BY <1>2, <2>1
  <2>3. /\ \A i \in 1..(k - 1) : Parts(i, Ids(answer[i]))'
        /\ \A j \in DOMAIN tasks' : tasks'[j].of <= k
    BY <2>1, <2>2, EarlierTasksKept
  <2>4. Parts(c, {} \cup S)'
    BY <1>1, <1>3, <1>6, <2>1, <2>2, AppendParts
  <2>5. \A i \in 1..k : Parts(i, Ids(answer[i]))'
    BY <1>1, <1>6, <2>1, <2>2, <2>3, <2>4, CurrentDone
  <2> QED
    BY <1>0, <1>1, <2>1, <2>3, <2>5, GuardMovesOn
<1>8. CASE AskAudit
  <2>1. /\ phase = "guard" /\ phase' = "audit" /\ k <= Len(answer)
        /\ heard' = {} /\ UNCHANGED <<answer, k, tasks>>
    BY <1>8 DEF AskAudit
  <2>2. PICK S \in SUBSET Nat : S = {}
    OBVIOUS
  <2>3. /\ \A i \in 1..(k - 1) : Parts(i, Ids(answer[i]))'
        /\ \A j \in DOMAIN tasks' : tasks'[j].of <= k
    BY <2>1, <2>2, EarlierTasksKept
  <2>4. Parts(c, {})'
    BY <1>3, <1>6, <2>1, PartsUnchanged
  <2>5. Parts(k, heard)'
    BY <1>6, <2>1, <2>4
  <2> QED
    BY <1>0, <1>1, <2>1, <2>3, <2>5
<1>9. CASE TakeGroup
  <2>1. /\ phase = "audit" /\ phase' = "audit" /\ groups # <<>>
        /\ heard' = heard \cup GroupTakes(Head(groups))
        /\ tasks' = IF GroupTakes(Head(groups)) = {} THEN tasks
                    ELSE Append(tasks, Task(GroupTakes(Head(groups)), k))
        /\ UNCHANGED <<answer, k>>
    BY <1>9 DEF TakeGroup
  <2>2. k <= Len(answer)
    BY <2>1 DEF TypeOK
  <2>3. PICK S \in SUBSET Nat : S = GroupTakes(Head(groups))
    BY <1>2, <2>1, <2>2 DEF GroupTakes
  <2>4. PICK H : H = heard
    OBVIOUS
  <2>5. S \subseteq Current /\ H \cap S = {}
    BY <2>3, <2>4 DEF GroupTakes
  <2>6. /\ \A i \in 1..(k - 1) : Parts(i, Ids(answer[i]))'
        /\ \A j \in DOMAIN tasks' : tasks'[j].of <= k
    BY <2>1, <2>3, EarlierTasksKept
  <2>7. Parts(c, H \cup S)'
    <3>1. CASE S = {}
      <4>1. H \cup S = H /\ tasks' = tasks
        BY <2>1, <2>3, <3>1
      <4> QED
        BY <1>6, <2>1, <2>4, <4>1, PartsUnchanged
    <3>2. CASE S # {}
      BY <1>1, <1>6, <2>1, <2>3, <2>4, <2>5, <3>2, AppendParts
    <3> QED
      BY <3>1, <3>2
  <2>8. Parts(k, heard)'
    BY <1>6, <2>1, <2>3, <2>4, <2>7
  <2>9. heard' \subseteq Current'
    BY <2>1, <2>3, <2>5 DEF Current, Ids
  <2> QED
    BY <1>0, <1>1, <2>1, <2>6, <2>8, <2>9
<1>10. CASE CloseAudit
  <2>1. /\ phase = "audit" /\ phase' = "guard"
        /\ tasks' = IF Current \subseteq heard THEN tasks
                    ELSE Append(tasks, Task(Current \ heard, k))
        /\ k' = k + 1 /\ answer' = answer
    BY <1>10 DEF CloseAudit
  <2>2. k <= Len(answer)
    BY <2>1 DEF TypeOK
  <2>3. PICK S \in SUBSET Nat : S = Current \ heard
    BY <1>2, <2>1, <2>2
  <2>4. PICK H : H = heard
    OBVIOUS
  <2>5. H \cap S = {} /\ H \cup S = Current
    BY <2>1, <2>3, <2>4
  <2>6. /\ \A i \in 1..(k - 1) : Parts(i, Ids(answer[i]))'
        /\ \A j \in DOMAIN tasks' : tasks'[j].of <= k
    BY <2>1, <2>3, EarlierTasksKept
  <2>7. Parts(c, H \cup S)'
    <3>1. CASE Current \subseteq heard
      <4>1. H \cup S = H /\ tasks' = tasks
        BY <2>1, <2>3, <3>1
      <4> QED
        BY <1>6, <2>1, <2>4, <4>1, PartsUnchanged
    <3>2. CASE ~(Current \subseteq heard)
      BY <1>1, <1>6, <2>1, <2>3, <2>4, <2>5, <3>2, AppendParts
    <3> QED
      BY <3>1, <3>2
  <2>8. \A i \in 1..k : Parts(i, Ids(answer[i]))'
    BY <1>1, <1>6, <2>1, <2>5, <2>6, <2>7, CurrentDone
  <2> QED
    BY <1>0, <1>1, <2>1, <2>2, <2>6, <2>8, GuardMovesOn
<1>11. CASE GuardDone
  <2>1. /\ phase = "guard" /\ phase' = "scored" /\ k > Len(answer)
        /\ UNCHANGED <<answer, tasks>>
    BY <1>11 DEF GuardDone
  <2>2. DOMAIN answer' = 1..(k - 1)
    BY <1>1, <2>1 DEF TypeOK, MemberLists
  <2>3. PICK S \in SUBSET Nat : S = {}
    OBVIOUS
  <2>4. \A i \in 1..(k - 1) : Parts(i, Ids(answer[i]))'
    BY <2>1, <2>3, EarlierTasksKept
  <2> QED
    BY <1>0, <2>1, <2>2, <2>4
<1>12. CASE UNCHANGED vars \/ AddOrphans \/ \E i \in left : AssembleTask(i)
  <2>1. /\ UNCHANGED <<answer, k, heard, tasks>>
        /\ phase' = phase \/ (phase = "assemble" /\ phase' = "done")
    BY <1>12 DEF vars, AddOrphans, AssembleTask
  <2>2. ASSUME NEW i, Parts(i, Ids(answer[i])) PROVE Parts(i, Ids(answer[i]))'
    BY <2>1, <2>2, SameTasksSameParts
  <2>3. ASSUME Parts(k, heard) PROVE Parts(k, heard)'
    BY <2>1, <2>3 DEF Parts, SplitOf
  <2>4. Current' = Current
    BY <2>1 DEF Current, Ids
  <2> QED
    BY <1>0, <2>1, <2>2, <2>3, <2>4
<1> QED
  BY <1>4, <1>5, <1>7, <1>8, <1>9, <1>10, <1>11, <1>12 DEF Next

\* The split guard only refines the answer: for any answers of the two LLMs, what
\* a task is split into holds each of its segments exactly once.
THEOREM SplitGuardRefines == Spec => []GuardKeepsSegments
<1>1. GuardInv => GuardKeepsSegments
  <2> SUFFICES ASSUME GuardInv, phase = "scored", NEW i \in DOMAIN answer
               PROVE  /\ UNION {tasks[j].segs : j \in SplitOf(i)} = Ids(answer[i])
                      /\ \A a, b \in SplitOf(i) : a # b => tasks[a].segs \cap tasks[b].segs = {}
    BY DEF GuardKeepsSegments
  <2>1. Parts(i, Ids(answer[i]))
    BY DEF GuardInv
  <2> QED
    BY <2>1 DEF Parts
<1> QED
  BY <1>1, InitGuard, NextGuard, PTL DEF Spec

-----------------------------------------------------------------------------
(* audit_membership *)

\* What is assembled is the answer as it is: nothing comes in between.
Unsplit ==
    phase \in {"assemble", "done"} =>
      DOMAIN tasks = DOMAIN answer /\ \A i \in DOMAIN answer : tasks[i].segs = Ids(answer[i])

\* Before the segmenter answers nothing is assembled.
LEMMA InitUnsplit == Init => Unsplit
  BY DEF Init, Unsplit

\* Only llm_segment leads to the assembly.
LEMMA NextUnsplit == TypeOK /\ Unsplit /\ [Next]_vars => Unsplit'
<1> SUFFICES ASSUME TypeOK, Unsplit, [Next]_vars PROVE Unsplit'
  OBVIOUS
<1>1. CASE LlmSegment
  <2>1. CASE phase' = "guard"
    BY <2>1 DEF Unsplit
  <2>2. CASE phase' = "assemble" /\ tasks' = [i \in DOMAIN answer' |-> Task(Ids(answer'[i]), i)]
    <3>1. DOMAIN tasks' = DOMAIN answer'
      BY <2>2
    <3>2. ASSUME NEW i \in DOMAIN answer' PROVE tasks'[i].segs = Ids(answer'[i])
      BY <2>2 DEF Task
    <3>3. \A i \in DOMAIN answer' : tasks'[i].segs = Ids(answer[i])'
      BY <3>2 DEF Ids
    <3> QED BY <2>2, <3>1, <3>3 DEF Unsplit
  <2> QED BY <1>1, <2>1, <2>2 DEF LlmSegment
<1>2. CASE LlmRaises \/ KeepTask \/ GuardRaises \/ AuditRaises \/ AskAudit \/ TakeGroup \/ CloseAudit \/ GuardDone
  <2>1. phase' \notin {"assemble", "done"}
    BY <1>2 DEF LlmRaises, KeepTask, GuardRaises, AuditRaises, AskAudit, TakeGroup, CloseAudit, GuardDone
  <2> QED BY <2>1 DEF Unsplit
<1>3. CASE UNCHANGED vars \/ AddOrphans \/ \E i \in left : AssembleTask(i)
  <2>1. /\ UNCHANGED <<answer, tasks>>
        /\ phase' = phase \/ (phase = "assemble" /\ phase' = "done")
    BY <1>3 DEF vars, AddOrphans, AssembleTask
  <2>2. \A i : Ids(answer[i])' = Ids(answer[i])
    BY <2>1 DEF Ids
  <2> QED BY <2>1, <2>2 DEF Unsplit
<1> QED
  BY <1>1, <1>2, <1>3 DEF Next

\* Two tasks of an answer without overlaps share no segment.
LEMMA NoOverlapDisjoint ==
    ASSUME NEW res, Overlaps(res) = {}, NEW i \in DOMAIN res, NEW j \in DOMAIN res,
           NEW x \in Ids(res[i]), x \in Ids(res[j])
    PROVE  i = j
<1> SUFFICES ASSUME i # j PROVE FALSE
  OBVIOUS
<1>1. PICK a \in DOMAIN res[i] : res[i][a] = x
  BY DEF Ids
<1>2. PICK b \in DOMAIN res[j] : res[j][b] = x
  BY DEF Ids
<1>3. <<i, a>> \in Places(res, x) /\ <<j, b>> \in Places(res, x)
  BY <1>1, <1>2 DEF Places
<1>4. <<i, a>> # <<j, b>>
  OBVIOUS
<1>5. x \in UNION {Ids(res[h]) : h \in DOMAIN res}
  OBVIOUS
<1>6. x \in Overlaps(res)
  BY <1>3, <1>4, <1>5 DEF Overlaps
<1> QED
  BY <1>6

\* What the audit prints above a segmentation is what becomes of it: the segments it
\* reports missing stand alone, and without overlaps every task is there whole.
THEOREM AuditTellsTheClusters == Spec => []AuditIsLoud
<1>1. ASSUME TypeOK, Unsplit, FirstClaimWins PROVE AuditIsLoud
  <2> SUFFICES ASSUME phase = "done"
               PROVE  /\ \A c \in clusters :
                           \/ \E i \in DOMAIN answer : c \subseteq Ids(answer[i])
                           \/ \E x \in Missing(answer) : c = {x}
                      /\ \A x \in Missing(answer) : {x} \in clusters
                      /\ Overlaps(answer) = {} =>
                           \A i \in DOMAIN answer : Ids(answer[i]) \cap Segs \in clusters \cup {{}}
    BY DEF AuditIsLoud
  <2>1. DOMAIN tasks = DOMAIN answer /\ \A i \in DOMAIN answer : tasks[i].segs = Ids(answer[i])
    BY <1>1 DEF Unsplit
  <2>2. clusters = ({Claimed(i) : i \in DOMAIN tasks} \ {{}}) \cup {{x} : x \in Unclaimed}
    BY <1>1 DEF FirstClaimWins
  <2>3. Unclaimed = Missing(answer)
    BY <2>1 DEF Unclaimed, Missing
  <2>4. ASSUME NEW c \in clusters
        PROVE  \/ \E i \in DOMAIN answer : c \subseteq Ids(answer[i])
               \/ \E x \in Missing(answer) : c = {x}
    <3>1. CASE \E x \in Unclaimed : c = {x}
      BY <2>3, <3>1
    <3>2. CASE \E i \in DOMAIN tasks : c = Claimed(i)
      <4>1. PICK i \in DOMAIN tasks : c = Claimed(i)
        BY <3>2
      <4>2. Claimed(i) \subseteq tasks[i].segs
        BY DEF Claimed, FirstClaim
      <4> QED BY <2>1, <4>1, <4>2
    <3> QED BY <2>2, <3>1, <3>2
  <2>5. ASSUME NEW x \in Missing(answer) PROVE {x} \in clusters
    BY <2>2, <2>3
  <2>6. ASSUME Overlaps(answer) = {}, NEW i \in DOMAIN answer
        PROVE  Ids(answer[i]) \cap Segs \in clusters \cup {{}}
    <3>1. ASSUME NEW x \in Ids(answer[i]), NEW j \in DOMAIN tasks, x \in tasks[j].segs PROVE j = i
      BY <2>1, <2>6, <3>1, NoOverlapDisjoint
    <3>2. Before(i, i)
      <4>1. answer[i] \in Seq(Nat) /\ i \in Nat
        BY <1>1 DEF TypeOK, MemberLists
      <4>2. \A y \in tasks[i].segs : y <= y
        BY <2>1, <4>1, IdsTyped
      <4> QED BY <4>1, <4>2 DEF Before, NoLater
    <3>3. ASSUME NEW x \in Segs PROVE x \in Ids(answer[i]) <=> FirstClaim(i, x)
      <4>1. ASSUME x \in Ids(answer[i]) PROVE FirstClaim(i, x)
        BY <2>1, <3>1, <3>2, <4>1 DEF FirstClaim
      <4>2. ASSUME FirstClaim(i, x) PROVE x \in Ids(answer[i])
        BY <2>1, <4>2 DEF FirstClaim
      <4> QED BY <4>1, <4>2
    <3>4. Claimed(i) = Ids(answer[i]) \cap Segs
      BY <3>3 DEF Claimed
    <3>5. Claimed(i) \in clusters \cup {{}}
      BY <2>1, <2>2
    <3> QED BY <3>4, <3>5
  <2> QED BY <2>4, <2>5, <2>6
<1>2. AssemblyInv => TypeOK /\ FirstClaimWins
  BY DEF AssemblyInv
<1> QED
  BY <1>1, <1>2, InitAssembly, NextAssembly, InitUnsplit, NextUnsplit, PTL DEF Spec

=============================================================================
