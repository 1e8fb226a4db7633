------------------------- MODULE IncrementalSegment -------------------------
(***************************************************************************)
(* Incremental task segmentation of one Feishu group                       *)
(* (trajectory_extract/incremental_segment.py: run_incremental).           *)
(*                                                                         *)
(* Members of the group post, reply to and recall messages while one or    *)
(* more runners (the cron job, an operator by hand) execute run_incremental*)
(* over the same state file: load the state, fetch the history from the    *)
(* watermark on, cut the active zone again with the LLM, write the state   *)
(* through a temporary file, export the frozen tasks.  A run can die, or   *)
(* raise, between any two of those steps.                                  *)
(*                                                                         *)
(* Data that no property tells apart is abstracted: a message is its id    *)
(* with its timestamp and parent; a task is its set of message ids and     *)
(* whether its decomposition succeeded; what the segmenter answers is any  *)
(* grouping of the events (the code that turns the LLM's answer into such  *)
(* a grouping is module TaskAssembly).                                     *)
(***************************************************************************)
EXTENDS Integers

CONSTANTS
    Msg,          \* message ids of the group
    NoMsg,        \* parent of a message that replies to nothing
    Parent,       \* [Msg -> Msg \cup {NoMsg}]: the reply edges (parent_id)
    Noise,        \* messages _is_noise drops (acks, cards, bare links)
    Closing,      \* user messages holding a _CLOSURE word
    Recallable,   \* messages their author may recall
    Runners,      \* processes that execute run_incremental
    Second,       \* clock ticks per second; timestamps are finer than seconds
    Thaw,         \* thaw_hours * 3600, in ticks
    Since,        \* --since, used only while there is no state
    ManualUntils, \* values of --until given by hand (cron gives none)
    MaxTime,      \* bound on the clock
    OutageEnds,   \* whether the outage of the providers may end
    Absent,       \* the file does not exist
    Empty,        \* the file was just truncated by open("w")
    Torn          \* the file holds a mixture, or a part, of writers' bytes

Task == [members : SUBSET Msg, ok : BOOLEAN]

State == [wm : Nat, frozen : SUBSET Task, tail : SUBSET Msg]

ASSUME MsgAssumption ==
    /\ NoMsg \notin Msg
    /\ Parent \in [Msg -> Msg \cup {NoMsg}]
    /\ Noise \subseteq Msg
    /\ Closing \subseteq Msg \ Noise

ASSUME TimeAssumption ==
    /\ Second \in Nat \ {0}
    /\ Since \in Nat
    /\ MaxTime \in Nat
    /\ ManualUntils \subseteq Nat

\* thaw_hours may be 0.
ASSUME ThawAssumption == Thaw \in Nat

ASSUME FileAssumption ==
    /\ {Absent, Empty, Torn} \cap State = {}
    /\ Absent # Empty /\ Absent # Torn /\ Empty # Torn

VARIABLES
    clock,    \* Feishu's clock, in ticks
    feed,     \* life of each message: unposted, live or recalled
    ts,       \* timestamp of each posted message
    healthy,  \* the providers (Feishu, LLM, host) have recovered for good
    disk,     \* contents of the group's state file
    tmp,      \* contents of its temporary file
    indexed,  \* the exported index lists exactly the frozen tasks of disk
    pc,       \* where each runner is in run_incremental
    snap,     \* the state each runner has loaded
    new,      \* the events each runner has fetched
    next,     \* the state each runner is about to write
    at        \* the file each runner's open handle writes to

world == <<clock, feed, ts, healthy>>
files == <<disk, tmp, indexed>>
locals == <<pc, snap, new, next, at>>
vars == <<clock, feed, ts, healthy, disk, tmp, indexed, pc, snap, new, next, at>>

-----------------------------------------------------------------------------
(* Reading a state *)

Readable(f) == f \in State

NoState == [wm |-> 0, frozen |-> {}, tail |-> {}]

\* The state a run works from: the loaded one, or nothing on a first run.
Base(s) == IF s = Absent THEN NoState ELSE s

MembersOf(s) == s.tail \cup UNION {t.members : t \in s.frozen}

\* int(t): timestamps are cut to whole seconds when they become query bounds.
WholeSecond(t) == (t \div Second) * Second

\* Mutant: start just after the watermark, which looks enough to see new messages.
FetchStartAfterWatermark(s) == IF s = Absent THEN Since ELSE s.wm + 1

FetchStart(s) == IF s = Absent THEN Since ELSE WholeSecond(s.wm)

\* Mutant: an empty parent_id counts as a hit.
ReopenedByEmptyParent(s, events) ==
    {t \in s.frozen : \E m \in events : Parent[m] \in t.members \cup {NoMsg}}

Reopened(s, events) == {t \in s.frozen : \E m \in events : Parent[m] \in t.members}

\* last_ts < cutoff, with last_ts the largest timestamp of the task.
OlderThan(t, cutoff) == \A m \in t.members : ts[m] < cutoff

\* Mutant: the cutoff is taken from the newest new event, not from the old watermark.
HardFrozenByNewest(s, events) ==
    {t \in s.frozen \ Reopened(s, events) :
        t.ok /\ \E m \in events : OlderThan(t, ts[m] - Thaw)}

\* Mutant: tasks whose decomposition failed are frozen like the others.
HardFrozenHoles(s, events) ==
    {t \in s.frozen \ Reopened(s, events) : OlderThan(t, s.wm - Thaw)}

HardFrozen(s, events) ==
    {t \in s.frozen \ Reopened(s, events) : t.ok /\ OlderThan(t, s.wm - Thaw)}

ActiveEvents(s, events) ==
    s.tail \cup events \cup UNION {t.members : t \in s.frozen \ HardFrozen(s, events)}

-----------------------------------------------------------------------------
(* What the segmenter may answer for a set of events *)

\* Every event points at one event of its atomic segment's task.
Groupings(S) == {label \in [S -> S] : \A x \in S : label[label[x]] = label[x]}

\* The blocks of events that share a label.
Blocks(label) == {{x \in DOMAIN label : label[x] = label[y]} : y \in DOMAIN label}

\* Atomic segments that hold nothing but noise are dropped before grouping.
Clusters(label) == {c \in Blocks(label) : c \ Noise # {}}

\* m is a latest message of c.
LatestIn(m, c) == m \in c /\ \A x \in c : ts[x] <= ts[m]

\* The most recently touched cluster; ties are broken by the order of the list.
MostRecent(c, cs) ==
    c \in cs /\ \A d \in cs : \A x \in d : \E m \in c : ts[x] <= ts[m]

\* Its last meaningful message is a closing remark of a user.
Resolved(c) == \E m \in Closing : LatestIn(m, c \ Noise)

Unresolved(c) == \E m \in Msg \ Closing : LatestIn(m, c \ Noise)

\* compute_terminal: only the most recent cluster can be unfinished, and then
\* it becomes the active tail.
MayBeTail(tl, cs) ==
    \/ tl = {} /\ cs = {}
    \/ tl = {} /\ \E c \in cs : MostRecent(c, cs) /\ Resolved(c)
    \/ MostRecent(tl, cs) /\ Unresolved(tl)

\* Tasks of fewer than two meaningful messages are not sent to the LLM.
NeedsDecompose(c) == \E a, b \in c \ Noise : a # b

\* Mutant: the watermark is last_ts(new_events), without the max.
NewWatermarkOfEvents(w, old, events) ==
    /\ w \in (IF events = {} THEN {old} ELSE {ts[m] : m \in events})
    /\ \A m \in events : ts[m] <= w

\* Watermark after a run: max(old watermark, last_ts(new_events)).
NewWatermark(w, old, events) ==
    /\ w \in {old} \cup {ts[m] : m \in events}
    /\ w >= old
    /\ \A m \in events : ts[m] <= w

-----------------------------------------------------------------------------
(* The group and its surroundings *)

Init ==
    /\ clock = 0
    /\ feed = [m \in Msg |-> "unposted"]
    /\ ts = [m \in Msg |-> 0]
    /\ healthy = FALSE
    /\ disk = Absent /\ tmp = Absent /\ indexed = FALSE
    /\ pc = [r \in Runners |-> "idle"]
    /\ snap = [r \in Runners |-> Absent]
    /\ new = [r \in Runners |-> {}]
    /\ next = [r \in Runners |-> Absent]
    /\ at = [r \in Runners |-> "none"]

Tick ==
    /\ clock < MaxTime
    /\ clock' = clock + 1
    /\ UNCHANGED <<feed, ts, healthy, files, locals>>

Post(m) ==
    /\ feed[m] = "unposted"
    /\ Parent[m] \in Msg => feed[Parent[m]] # "unposted"
    /\ feed' = [feed EXCEPT ![m] = "live"]
    /\ ts' = [ts EXCEPT ![m] = clock]
    /\ UNCHANGED <<clock, healthy, files, locals>>

\* A recalled message stays listed, flagged deleted, and is skipped from then on.
Recall(m) ==
    /\ m \in Recallable
    /\ feed[m] = "live"
    /\ feed' = [feed EXCEPT ![m] = "recalled"]
    /\ UNCHANGED <<clock, ts, healthy, files, locals>>

\* The outage is over: from here on nothing raises and nobody is killed.
Recover ==
    /\ OutageEnds /\ ~healthy
    /\ healthy' = TRUE
    /\ UNCHANGED <<clock, feed, ts, files, locals>>

-----------------------------------------------------------------------------
(* One run *)

\* The run is over: its process and everything it held are gone.
Finish(r) ==
    /\ pc' = [pc EXCEPT ![r] = "idle"]
    /\ snap' = [snap EXCEPT ![r] = Absent]
    /\ new' = [new EXCEPT ![r] = {}]
    /\ next' = [next EXCEPT ![r] = Absent]

\* An unreadable file makes json.loads raise, so such a run never starts.
LoadState(r) ==
    /\ pc[r] = "idle"
    /\ disk = Absent \/ Readable(disk)
    /\ snap' = [snap EXCEPT ![r] = disk]
    /\ pc' = [pc EXCEPT ![r] = "fetch"]
    /\ UNCHANGED <<world, files, new, next, at>>

Fetched(start, until) == {m \in Msg : feed[m] = "live" /\ start <= ts[m] /\ ts[m] <= until}

\* Mutant: return early when every fetched event is already in the state.
FetchHistoryUnknownOnly(r, until) ==
    /\ pc[r] = "fetch"
    /\ LET events == Fetched(FetchStart(snap[r]), until)
           known == snap[r] # Absent /\ events \subseteq MembersOf(snap[r])
       IN  \/ known /\ Finish(r)
           \/ /\ ~known
              /\ new' = [new EXCEPT ![r] = events]
              /\ pc' = [pc EXCEPT ![r] = "segment"]
              /\ UNCHANGED <<snap, next>>
    /\ UNCHANGED <<world, files, at>>

\* Without new events a run on an existing state returns at once.
FetchHistory(r, until) ==
    /\ pc[r] = "fetch"
    /\ LET events == Fetched(FetchStart(snap[r]), until)
       IN  \/ /\ snap[r] # Absent /\ events = {}
              /\ Finish(r)
           \/ /\ snap[r] = Absent \/ events # {}
              /\ new' = [new EXCEPT ![r] = events]
              /\ pc' = [pc EXCEPT ![r] = "segment"]
              /\ UNCHANGED <<snap, next>>
    /\ UNCHANGED <<world, files, at>>

\* The record kept for a finished cluster; "failed" are the clusters whose
\* decomposition the provider refused.
NewTask(c, failed) == [members |-> c, ok |-> c \notin failed]

\* Hard-frozen tasks are reused as they are, every cluster but the tail is
\* frozen, and the watermark moves.
NextState(base, events, cs, tl, failed, w) ==
    [wm |-> w,
     frozen |-> HardFrozen(base, events) \cup {NewTask(c, failed) : c \in cs \ {tl}},
     tail |-> tl]

\* Segment the active zone and assemble the next state.  The loaded state and
\* the events are not read again after this step.
SegmentEvents(r) ==
    /\ pc[r] = "segment"
    /\ \E label \in Groupings(ActiveEvents(Base(snap[r]), new[r])) :
       \E tl \in Clusters(label) \cup {{}},
          failed \in SUBSET {c \in Clusters(label) : NeedsDecompose(c)},
          w \in {Base(snap[r]).wm} \cup {ts[m] : m \in new[r]} :
         /\ MayBeTail(tl, Clusters(label))
         /\ healthy => failed = {}
         /\ NewWatermark(w, Base(snap[r]).wm, new[r])
         /\ next' = [next EXCEPT ![r] =
                       NextState(Base(snap[r]), new[r], Clusters(label), tl, failed, w)]
    /\ pc' = [pc EXCEPT ![r] = "open"]
    /\ snap' = [snap EXCEPT ![r] = Absent]
    /\ new' = [new EXCEPT ![r] = {}]
    /\ UNCHANGED <<world, files, at>>

\* _write_state: open the one temporary file, truncating whatever it holds ...
OpenTmp(r) ==
    /\ pc[r] = "open"
    /\ tmp' = Empty
    /\ at' = [at EXCEPT ![r] = "tmp"]
    /\ pc' = [pc EXCEPT ![r] = "write"]
    /\ UNCHANGED <<world, disk, indexed, snap, new, next>>

Contents(where) == CASE where = "tmp" -> tmp [] where = "path" -> disk [] OTHER -> Empty

\* Another writer holds, or has written to, the file behind this handle.
Shared(r) ==
    \/ \E q \in Runners \ {r} : at[q] = at[r]
    \/ Contents(at[r]) # Empty

\* ... write the JSON through the handle, wherever its file has moved to ...
CloseTmp(r) ==
    /\ pc[r] = "write"
    /\ \E c \in {next[r]} \cup (IF Shared(r) THEN {Torn} ELSE {}) :
         /\ tmp' = IF at[r] = "tmp" THEN c ELSE tmp
         /\ disk' = IF at[r] = "path" THEN c ELSE disk
    /\ at' = [at EXCEPT ![r] = "none"]
    /\ pc' = [pc EXCEPT ![r] = "replace"]
    /\ indexed' = (indexed /\ at[r] # "path")
    /\ UNCHANGED <<world, snap, new, next>>

\* ... and rename it over the state file.  Renaming a file that another runner
\* has already renamed raises.
Replace(r) ==
    /\ pc[r] = "replace"
    /\ \/ /\ tmp = Absent
          /\ Finish(r)
          /\ UNCHANGED <<files, at>>
       \/ /\ tmp # Absent
          /\ disk' = tmp
          /\ tmp' = Absent
          /\ indexed' = FALSE
          /\ at' = [q \in Runners |-> CASE at[q] = "tmp" -> "path"
                                        [] at[q] = "path" -> "gone"
                                        [] OTHER -> at[q]]
          /\ pc' = [pc EXCEPT ![r] = "export"]
          /\ UNCHANGED <<snap, new, next>>
    /\ UNCHANGED world

\* Export is fail-soft: an error ends the run normally with an old or a cut index.
Export(r) ==
    /\ pc[r] = "export"
    /\ \/ indexed' = (Readable(disk) /\ disk.frozen = next[r].frozen)
       \/ ~healthy /\ indexed' \in {FALSE, indexed}
    /\ Finish(r)
    /\ UNCHANGED <<world, disk, tmp, at>>

\* What a file may hold once r has died: with its handle on that file, part of
\* what r was writing.
Leftovers(r, where) == {Contents(where)} \cup (IF at[r] = where THEN {Torn} ELSE {})

\* An exception or a kill ends the run between two steps.  A temporary file it
\* leaves behind is truncated before its next use, so unless another writer is
\* at work what it holds does not matter.
Abort(r) ==
    /\ ~healthy
    /\ pc[r] # "idle"
    /\ Finish(r)
    /\ at' = [at EXCEPT ![r] = "none"]
    /\ IF \E q \in Runners \ {r} : pc[q] \in {"write", "replace"}
         THEN tmp' \in Leftovers(r, "tmp")
         ELSE tmp' = IF tmp = Absent THEN Absent ELSE Empty
    /\ disk' \in Leftovers(r, "path")
    /\ indexed' = (indexed /\ disk' = disk)
    /\ UNCHANGED world

RunStep(r) ==
    \/ LoadState(r)
    \/ FetchHistory(r, WholeSecond(clock))
    \/ SegmentEvents(r)
    \/ OpenTmp(r) \/ CloseTmp(r) \/ Replace(r)
    \/ Export(r)

Next ==
    \/ Tick
    \/ \E m \in Msg : Post(m) \/ Recall(m)
    \/ Recover
    \/ \E r \in Runners :
         \/ RunStep(r)
         \/ \E until \in ManualUntils : FetchHistory(r, until)
         \/ Abort(r)

Spec == Init /\ [][Next]_vars

\* cron starts a run again and again, a started run goes on, time passes, and
\* the outage ends; nobody is obliged to post or to recall anything.
Fairness ==
    /\ WF_vars(Tick)
    /\ WF_vars(Recover)
    /\ \A r \in Runners : WF_vars(RunStep(r))

FairSpec == Spec /\ Fairness

-----------------------------------------------------------------------------
(* Properties *)

Phases == {"idle", "fetch", "segment", "open", "write", "replace", "export"}

\* Every variable keeps its type; a file holds a state, nothing, or garbage.
TypeOK ==
    /\ clock \in 0..MaxTime
    /\ feed \in [Msg -> {"unposted", "live", "recalled"}]
    /\ ts \in [Msg -> 0..MaxTime]
    /\ healthy \in BOOLEAN
    /\ disk \in State \cup {Absent, Empty, Torn}
    /\ tmp \in State \cup {Absent, Empty, Torn}
    /\ indexed \in BOOLEAN
    /\ pc \in [Runners -> Phases]
    /\ snap \in [Runners -> State \cup {Absent}]
    /\ new \in [Runners -> SUBSET Msg]
    /\ next \in [Runners -> State \cup {Absent}]
    /\ at \in [Runners -> {"none", "tmp", "path", "gone"}]

\* No message belongs to two tasks of s.
TasksDisjoint(s) ==
    /\ \A t \in s.frozen : t.members # {} /\ t.members \cap s.tail = {}
    /\ \A t, u \in s.frozen : t # u => t.members \cap u.members = {}

\* Every meaningful message below the watermark of s is in s.
Covered(s) ==
    \A m \in Msg \ Noise :
        feed[m] = "live" /\ Since <= ts[m] /\ ts[m] < s.wm => m \in MembersOf(s)

\* run_incremental reuses hard-frozen tasks and cuts the rest again, and fetches
\* messages it has already filed: in the state file no message ends up in two
\* tasks, or in a task and in the active tail.  It needs a thaw window that reaches
\* back over the second that is fetched again: with --thaw-hours 0 and timestamps
\* finer than a second a message of that second can be filed twice.
EachMessageOnce == Readable(disk) => TasksDisjoint(disk)

\* The next fetch starts at the watermark of the state file, so a live meaningful
\* message below it that the file does not hold would be lost for good: there is
\* none, whatever was posted during, before or after the fetches.
NothingBelowWatermarkLost == Readable(disk) => Covered(disk)

\* A posted message at or after the watermark's second replies into t.
RepliedTo(s, t) ==
    \E m \in Msg : /\ feed[m] # "unposted"
                   /\ Parent[m] \in t.members
                   /\ ts[m] >= WholeSecond(s.wm)

FrozenForGood(s, t) == t.ok /\ OlderThan(t, s.wm - Thaw)

\* "frozen historical tasks do not drift": a task of the state file that is past
\* the thaw window, was decomposed and got no reply is in the next contents of
\* the file, unchanged.
HardFrozenStable ==
    [][Readable(disk) =>
         \A t \in disk.frozen :
            FrozenForGood(disk, t) /\ ~RepliedTo(disk, t)
              => (Readable(disk') => t \in disk'.frozen)]_vars

\* Once there is a readable state file it stays readable through crashes of
\* _write_state, and its watermark never goes back.
WatermarkMonotone ==
    [][Readable(disk) => Readable(disk') /\ disk'.wm >= disk.wm]_vars

\* Every meaningful message that is not recalled reaches the state file, although
\* runs may raise or die while the outage lasts.
EveryMessageFiled ==
    \A m \in Msg \ Noise :
        feed[m] = "live"
          ~> feed[m] = "recalled" \/ (Readable(disk) /\ m \in MembersOf(disk))

\* The state file holds a task whose decomposition failed.
Holes == Readable(disk) /\ \E t \in disk.frozen : ~t.ok

\* A task whose decomposition the provider refused (_decompose_failed) is
\* decomposed again once the provider is back.
HolesHeal == Holes ~> ~Holes

\* Export is fail-soft and a run may die before it; still the exported index
\* comes to list exactly the frozen tasks of the state file.
IndexCatchesUp == (Readable(disk) /\ disk.frozen # {}) ~> indexed
=============================================================================
