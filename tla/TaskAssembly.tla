---------------------------- MODULE TaskAssembly ----------------------------
(***************************************************************************)
(* From the segmenter's answer to tasks (trajectory_extract/llm_segment.py:*)
(* llm_segment, apply_split_guard, assemble_clusters).                     *)
(*                                                                         *)
(* The LLM is given N numbered atomic segments and answers with tasks, each*)
(* a list of segment numbers.  Nothing holds it to the rules: a number may *)
(* be repeated, given to two tasks, forgotten or out of range.  The        *)
(* pipelines turn the answer into clusters of segments (assemble_clusters).*)
(* The evaluation of the split guard (eval_split_guard.py), its one caller,*)
(* has a second LLM take multi-segment tasks apart instead, repairs that   *)
(* answer and scores it.                                                   *)
(*                                                                         *)
(* A cluster is the set of its segment numbers (its rows, title and the    *)
(* final sort by time follow from it).  Member lists are parsed to numbers *)
(* by _seg_ints, whatever their spelling.                                  *)
(***************************************************************************)
EXTENDS Integers, Sequences

CONSTANTS
    N,           \* number of atomic segments
    Answers,     \* what the segmenting LLM may answer: lists of member lists
    Audits,      \* what the auditing LLM may answer: lists of groups
    Callers      \* who asks: "pipeline", "evaluation" or either

MemberLists == Seq(Seq(Nat))

ASSUME AssemblyAssumption ==
    /\ N \in Nat
    /\ Answers \subseteq MemberLists
    /\ Audits \subseteq MemberLists
    /\ Callers \subseteq {"pipeline", "evaluation"}

VARIABLES
    phase,     \* where the caller is
    answer,    \* the segmenter's tasks
    k,         \* the task of answer the guard is at
    groups,    \* groups of the current audit not yet looked at
    heard,     \* segments the current audit has placed
    tasks,     \* the tasks: [segs, of], of = the position in answer they are from
    left,      \* positions of tasks not yet assembled
    seen,      \* segments already given to a cluster
    clusters   \* the clusters so far

vars == <<phase, answer, k, groups, heard, tasks, left, seen, clusters>>

Segs == 1..N

Ids(list) == {list[i] : i \in DOMAIN list}

Task(segs, of) == [segs |-> segs, of |-> of]

-----------------------------------------------------------------------------
(* audit_membership: what the report says of the answer *)

Places(res, x) == {p \in {<<i, j>> : i \in DOMAIN res, j \in UNION {DOMAIN res[i] : i \in DOMAIN res}} :
                     p[2] \in DOMAIN res[p[1]] /\ res[p[1]][p[2]] = x}

\* Numbers that occur more than once, in one task or in several.
Overlaps(res) ==
    {x \in UNION {Ids(res[i]) : i \in DOMAIN res} : \E p, q \in Places(res, x) : p # q}

\* Mutant: range(1, n_segs) leaves out the last segment.
MissingButLast(res) == (1..(N - 1)) \ UNION {Ids(res[i]) : i \in DOMAIN res}

\* Segments that occur nowhere.
Missing(res) == Segs \ UNION {Ids(res[i]) : i \in DOMAIN res}

-----------------------------------------------------------------------------
(* llm_segment *)

Init ==
    /\ phase = "segment"
    /\ answer = <<>> /\ k = 1 /\ groups = <<>> /\ heard = {}
    /\ tasks = <<>> /\ left = {} /\ seen = {} /\ clusters = {}

LlmSegment ==
    /\ phase = "segment"
    /\ answer' \in Answers
    /\ \/ /\ "evaluation" \in Callers
          /\ phase' = "guard"
          /\ UNCHANGED <<tasks, left>>
       \/ /\ "pipeline" \in Callers
          /\ phase' = "assemble"
          /\ tasks' = [i \in DOMAIN answer' |-> Task(Ids(answer'[i]), i)]
          /\ left' = DOMAIN answer'
    /\ UNCHANGED <<k, groups, heard, seen, clusters>>

\* The provider refuses, or the answer is not JSON or not of this form: nothing
\* catches it.
LlmRaises ==
    /\ phase = "segment"
    /\ phase' = "raised"
    /\ UNCHANGED <<answer, k, groups, heard, tasks, left, seen, clusters>>

-----------------------------------------------------------------------------
(* apply_split_guard *)

Current == Ids(answer[k])

MultiSegment == \E x, y \in Current : x # y

\* A task of at most one segment is kept as it is.
KeepTask ==
    /\ phase = "guard" /\ k <= Len(answer)
    /\ ~MultiSegment
    /\ tasks' = Append(tasks, Task(Current, k))
    /\ k' = k + 1
    /\ UNCHANGED <<phase, answer, groups, heard, left, seen, clusters>>

\* The prompt is built from atoms[s - 1] before the try: a number past the end
\* raises, and 0 quotes the last segment.
GuardRaises ==
    /\ phase = "guard" /\ k <= Len(answer)
    /\ MultiSegment
    /\ \E x \in Current : x > N
    /\ phase' = "raised"
    /\ UNCHANGED <<answer, k, groups, heard, tasks, left, seen, clusters>>

\* Groups that are null or a number, or a group that is one, raise after the try.
AuditRaises ==
    /\ phase = "guard" /\ k <= Len(answer)
    /\ MultiSegment
    /\ \A x \in Current : x <= N
    /\ phase' = "raised"
    /\ UNCHANGED <<answer, k, groups, heard, tasks, left, seen, clusters>>

\* An audit that fails, or that is no JSON object, counts as one without groups.
AskAudit ==
    /\ phase = "guard" /\ k <= Len(answer)
    /\ MultiSegment
    /\ \A x \in Current : x <= N
    /\ groups' \in Audits \cup {<<>>}
    /\ heard' = {}
    /\ phase' = "audit"
    /\ UNCHANGED <<answer, k, tasks, left, seen, clusters>>

\* The segments a group of the audit may take: of this task, and not yet placed.
GroupTakes(g) == (Ids(g) \cap Current) \ heard

TakeGroup ==
    /\ phase = "audit" /\ groups # <<>>
    /\ tasks' = IF GroupTakes(Head(groups)) = {} THEN tasks
                ELSE Append(tasks, Task(GroupTakes(Head(groups)), k))
    /\ heard' = heard \cup GroupTakes(Head(groups))
    /\ groups' = Tail(groups)
    /\ UNCHANGED <<phase, answer, k, left, seen, clusters>>

\* Mutant: segments the audit forgot are dropped.
CloseAuditDropping ==
    /\ phase = "audit" /\ groups = <<>>
    /\ phase' = "guard"
    /\ k' = k + 1
    /\ heard' = {}
    /\ UNCHANGED <<answer, groups, tasks, left, seen, clusters>>

\* Segments the audit forgot form a last group.  When there is one group in all
\* it holds the whole task, which the code then keeps as it was.
CloseAudit ==
    /\ phase = "audit" /\ groups = <<>>
    /\ tasks' = IF Current \subseteq heard THEN tasks
                ELSE Append(tasks, Task(Current \ heard, k))
    /\ phase' = "guard"
    /\ k' = k + 1
    /\ heard' = {}
    /\ UNCHANGED <<answer, groups, left, seen, clusters>>

\* The evaluation scores what the guard returns.
GuardDone ==
    /\ phase = "guard" /\ k > Len(answer)
    /\ phase' = "scored"
    /\ UNCHANGED <<answer, k, groups, heard, tasks, left, seen, clusters>>

-----------------------------------------------------------------------------
(* assemble_clusters *)

\* The smallest number of task i is at most that of task j; a task without
\* numbers sorts last.
NoLater(i, j) == \A y \in tasks[j].segs : \E x \in tasks[i].segs : x <= y

\* The sort by smallest number is stable.
Before(i, j) == NoLater(i, j) /\ (NoLater(j, i) => i <= j)

\* The segments a task gets: those in range that no earlier task has taken.
Takes(i) == {x \in tasks[i].segs : 1 <= x /\ x <= N /\ x \notin seen}

\* Mutant: the tasks are taken in the order of the answer, without the sort.
AssembleTaskUnsorted(i) ==
    /\ phase = "assemble"
    /\ i \in left
    /\ \A j \in left : i <= j
    /\ seen' = seen \cup Takes(i)
    /\ clusters' = IF Takes(i) = {} THEN clusters ELSE clusters \cup {Takes(i)}
    /\ left' = left \ {i}
    /\ UNCHANGED <<phase, answer, k, groups, heard, tasks>>

AssembleTask(i) ==
    /\ phase = "assemble"
    /\ i \in left
    /\ \A j \in left : Before(i, j)
    /\ seen' = seen \cup Takes(i)
    /\ clusters' = IF Takes(i) = {} THEN clusters ELSE clusters \cup {Takes(i)}
    /\ left' = left \ {i}
    /\ UNCHANGED <<phase, answer, k, groups, heard, tasks>>

\* Mutant: forgotten segments are only reported.
AddNoOrphans ==
    /\ phase = "assemble" /\ left = {}
    /\ phase' = "done"
    /\ UNCHANGED <<answer, k, groups, heard, tasks, left, seen, clusters>>

\* Forgotten segments become tasks of their own.
AddOrphans ==
    /\ phase = "assemble" /\ left = {}
    /\ clusters' = clusters \cup {{x} : x \in Segs \ seen}
    /\ phase' = "done"
    /\ UNCHANGED <<answer, k, groups, heard, tasks, left, seen>>

Next ==
    \/ LlmSegment \/ LlmRaises
    \/ KeepTask \/ GuardRaises \/ AuditRaises \/ AskAudit \/ TakeGroup \/ CloseAudit \/ GuardDone
    \/ \E i \in left : AssembleTask(i)
    \/ AddOrphans

Spec == Init /\ [][Next]_vars

-----------------------------------------------------------------------------
(* Properties *)

\* Every variable keeps its type; in particular only real segments are assembled.
TypeOK ==
    /\ phase \in {"segment", "guard", "audit", "scored", "assemble", "done", "raised"}
    /\ answer \in MemberLists
    /\ k \in Nat \ {0}
    /\ phase = "audit" => k <= Len(answer)
    /\ groups \in MemberLists
    /\ heard \subseteq Nat
    /\ tasks \in Seq([segs : SUBSET Nat, of : Nat])
    /\ left \subseteq DOMAIN tasks
    /\ seen \subseteq Segs
    /\ clusters \subseteq SUBSET Segs

Disjoint(S) == \A c, d \in S : c # d => c \cap d = {}

\* assemble_clusters never loses or repeats data: whatever the LLM answers, the
\* clusters it returns partition the atomic segments.
PartitionOfAtoms ==
    phase = "done" =>
      /\ UNION clusters = Segs
      /\ Disjoint(clusters)
      /\ {} \notin clusters

\* Task i is the first, in the order of the sort, that claims x.
FirstClaim(i, x) ==
    x \in tasks[i].segs /\ \A j \in DOMAIN tasks : x \in tasks[j].segs => Before(i, j)

Claimed(i) == {x \in Segs : FirstClaim(i, x)}

Unclaimed == {x \in Segs : \A i \in DOMAIN tasks : x \notin tasks[i].segs}

\* What assemble_clusters computes, in closed form: a segment goes to the first
\* task, in the order of the tasks' smallest numbers, that names it; a segment no
\* task names is a cluster of its own.
FirstClaimWins ==
    phase = "done" =>
      clusters = ({Claimed(i) : i \in DOMAIN tasks} \ {{}}) \cup {{x} : x \in Unclaimed}

\* The audit printed above a segmentation can be trusted: clusters that come from
\* no task are exactly the segments it reports missing, and when it reports no
\* overlap every task of the answer is there whole.
AuditIsLoud ==
    phase = "done" =>
      /\ \A c \in clusters :
           (\E i \in DOMAIN answer : c \subseteq Ids(answer[i])) \/ (\E x \in Missing(answer) : c = {x})
      /\ \A x \in Missing(answer) : {x} \in clusters
      /\ Overlaps(answer) = {} =>
           \A i \in DOMAIN answer : Ids(answer[i]) \cap Segs \in clusters \cup {{}}

SplitOf(i) == {j \in DOMAIN tasks : tasks[j].of = i}

\* The split guard only refines: what a task is split into holds each of its
\* segments exactly once, whatever the audit repeats, forgets or invents.
GuardKeepsSegments ==
    phase = "scored" =>
      \A i \in DOMAIN answer :
        /\ UNION {tasks[j].segs : j \in SplitOf(i)} = Ids(answer[i])
        /\ \A a, b \in SplitOf(i) : a # b => tasks[a].segs \cap tasks[b].segs = {}
=============================================================================
