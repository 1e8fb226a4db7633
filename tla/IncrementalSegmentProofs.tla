---------------------- MODULE IncrementalSegmentProofs ----------------------
(***************************************************************************)
(* Proofs about IncrementalSegment, for every group, every reply graph,    *)
(* every number of overlapping runners and every window.                   *)
(***************************************************************************)
EXTENDS IncrementalSegment, TLAPS

USE MsgAssumption, TimeAssumption, ThawAssumption

\* int() cuts a timestamp by less than a second.
LEMMA WholeSecondBounds ==
    ASSUME NEW t \in Nat
    PROVE  /\ WholeSecond(t) \in Nat
           /\ WholeSecond(t) <= t
           /\ t - Second < WholeSecond(t)
  BY DEF WholeSecond

\* The blocks of a grouping are non-empty sets of its events ...
LEMMA BlocksTyped ==
    ASSUME NEW S, NEW label \in Groupings(S), NEW c \in Clusters(label)
    PROVE  c \subseteq S /\ c # {}
  BY DEF Groupings, Clusters, Blocks

\* ... that do not overlap ...
LEMMA BlocksDisjoint ==
    ASSUME NEW S, NEW label \in Groupings(S),
           NEW c \in Clusters(label), NEW d \in Clusters(label), c # d
    PROVE  c \cap d = {}
  BY DEF Groupings, Clusters, Blocks

\* ... and leave out no meaningful event.
LEMMA BlocksCover ==
    ASSUME NEW S, NEW label \in Groupings(S), NEW m \in S \ Noise
    PROVE  \E c \in Clusters(label) : m \in c
<1> DEFINE c == {x \in DOMAIN label : label[x] = label[m]}
<1>1. m \in DOMAIN label
  BY DEF Groupings
<1>2. c \in Blocks(label) /\ m \in c
  BY <1>1 DEF Blocks
<1> QED
  BY <1>2 DEF Clusters

\* A run always works from a state, on a first run from the empty one.
LEMMA BaseTyped ==
    ASSUME NEW s \in State \cup {Absent}
    PROVE  Base(s) \in State
  BY DEF Base, NoState, State

-----------------------------------------------------------------------------
(* Type correctness *)

\* The tasks _hard_frozen_indexes selects are frozen tasks of the state.
LEMMA HardFrozenTyped ==
    ASSUME NEW s \in State, NEW events
    PROVE  /\ HardFrozen(s, events) \subseteq s.frozen
           /\ s.frozen \subseteq Task
  BY DEF HardFrozen, State

\* The active zone a run cuts again holds messages only.
LEMMA ActiveTyped ==
    ASSUME NEW s \in State, NEW events \in SUBSET Msg
    PROVE  ActiveEvents(s, events) \subseteq Msg
<1>1. \A t \in s.frozen : t.members \subseteq Msg
  BY DEF State, Task
<1>2. s.tail \subseteq Msg
  BY DEF State
<1>3. ASSUME NEW m \in ActiveEvents(s, events) PROVE m \in Msg
  <2>1. CASE m \in events \cup s.tail
    BY <1>2, <2>1
  <2>2. CASE m \in UNION {t.members : t \in s.frozen \ HardFrozen(s, events)}
    <3>1. PICK t \in s.frozen : m \in t.members
      BY <2>2
    <3> QED
      BY <3>1, <1>1
  <2> QED
    BY <2>1, <2>2 DEF ActiveEvents
<1> QED
  BY <1>3

\* The state a run assembles is a state.
LEMMA NextStateTyped ==
    ASSUME NEW base \in State, NEW events \in SUBSET Msg,
           NEW label \in Groupings(ActiveEvents(base, events)),
           NEW tl \in Clusters(label) \cup {{}}, NEW failed, NEW w \in Nat
    PROVE  NextState(base, events, Clusters(label), tl, failed, w) \in State
<1>1. \A c \in Clusters(label) : c \subseteq Msg
  BY ActiveTyped, BlocksTyped
<1>2. \A c \in Clusters(label) : NewTask(c, failed) \in Task
  <2> TAKE c \in Clusters(label)
  <2>1. (c \notin failed) \in BOOLEAN
    OBVIOUS
  <2> QED
    BY <1>1, <2>1 DEF NewTask, Task
<1>3. HardFrozen(base, events) \cup {NewTask(c, failed) : c \in Clusters(label) \ {tl}}
        \in SUBSET Task
  BY <1>2, HardFrozenTyped
<1>4. tl \in SUBSET Msg
  BY <1>1
<1> QED
  BY <1>3, <1>4 DEF NextState, State

\* Before the first run every variable has its type.
LEMMA InitTypeOK == Init => TypeOK
<1> SUFFICES ASSUME Init PROVE TypeOK
  OBVIOUS
<1>1. 0 \in 0..MaxTime
  OBVIOUS
<1>2. "idle" \in Phases
  BY DEF Phases
<1> QED
  BY <1>1, <1>2 DEF Init, TypeOK

\* What SegmentEvents writes.
LEMMA SegmentNext ==
    ASSUME NEW r \in Runners, SegmentEvents(r), TypeOK
    PROVE  \E label \in Groupings(ActiveEvents(Base(snap[r]), new[r])) :
           \E tl \in Clusters(label) \cup {{}}, failed \in SUBSET Clusters(label), w \in Nat :
             /\ NewWatermark(w, Base(snap[r]).wm, new[r])
             /\ next' = [next EXCEPT ![r] =
                   NextState(Base(snap[r]), new[r], Clusters(label), tl, failed, w)]
<1>1. PICK label \in Groupings(ActiveEvents(Base(snap[r]), new[r])) :
        \E tl \in Clusters(label) \cup {{}},
           failed \in SUBSET {c \in Clusters(label) : NeedsDecompose(c)},
           w \in {Base(snap[r]).wm} \cup {ts[m] : m \in new[r]} :
         /\ MayBeTail(tl, Clusters(label))
         /\ healthy => failed = {}
         /\ NewWatermark(w, Base(snap[r]).wm, new[r])
         /\ next' = [next EXCEPT ![r] =
                       NextState(Base(snap[r]), new[r], Clusters(label), tl, failed, w)]
  BY Zenon DEF SegmentEvents
<1>2. Base(snap[r]) \in State /\ new[r] \subseteq Msg
  BY BaseTyped DEF TypeOK
<1>3. \A w \in {Base(snap[r]).wm} \cup {ts[m] : m \in new[r]} : w \in Nat
  BY <1>2 DEF State, TypeOK
<1>4. PICK tl \in Clusters(label) \cup {{}},
           failed \in SUBSET {c \in Clusters(label) : NeedsDecompose(c)},
           w \in {Base(snap[r]).wm} \cup {ts[m] : m \in new[r]} :
         /\ NewWatermark(w, Base(snap[r]).wm, new[r])
         /\ next' = [next EXCEPT ![r] =
                       NextState(Base(snap[r]), new[r], Clusters(label), tl, failed, w)]
  BY <1>1, Zenon
<1>5. w \in Nat
  BY <1>3
<1> WITNESS label \in Groupings(ActiveEvents(Base(snap[r]), new[r]))
<1>6. failed \in SUBSET Clusters(label)
  OBVIOUS
<1> WITNESS tl \in Clusters(label) \cup {{}}, failed \in SUBSET Clusters(label), w \in Nat
<1> QED
  BY <1>4

\* Cutting the active zone leaves every runner a state, or nothing, to write.
LEMMA SegmentType ==
    ASSUME NEW r \in Runners, SegmentEvents(r), TypeOK
    PROVE  next' \in [Runners -> State \cup {Absent}]
<1>1. Base(snap[r]) \in State /\ new[r] \in SUBSET Msg
  BY BaseTyped DEF TypeOK
<1>2. PICK s \in State : next' = [next EXCEPT ![r] = s]
  BY <1>1, SegmentNext, NextStateTyped, Zenon
<1> QED
  BY <1>2 DEF TypeOK

\* No step of the group or of a run leaves the types.
LEMMA NextTypeOK == TypeOK /\ [Next]_vars => TypeOK'
<1> SUFFICES ASSUME TypeOK, [Next]_vars PROVE TypeOK'
  OBVIOUS
<1> USE DEF world, files, locals
<1>1. CASE Tick
  BY <1>1 DEF TypeOK, Tick
<1>2. ASSUME NEW m \in Msg, Post(m) PROVE TypeOK'
  BY <1>2 DEF TypeOK, Post
<1>3. ASSUME NEW m \in Msg, Recall(m) PROVE TypeOK'
  BY <1>3 DEF TypeOK, Recall
<1>4. CASE Recover
  BY <1>4 DEF TypeOK, Recover
<1>5. ASSUME NEW r \in Runners, LoadState(r) PROVE TypeOK'
  BY <1>5 DEF TypeOK, LoadState, Readable, Phases
<1>6. ASSUME NEW r \in Runners, NEW until, FetchHistory(r, until) PROVE TypeOK'
  BY <1>6 DEF TypeOK, FetchHistory, Finish, Fetched, Phases
<1>7. ASSUME NEW r \in Runners, SegmentEvents(r) PROVE TypeOK'
  <2>1. next' \in [Runners -> State \cup {Absent}]
    BY <1>7, SegmentType
  <2>2. /\ pc' = [pc EXCEPT ![r] = "open"]
        /\ snap' = [snap EXCEPT ![r] = Absent]
        /\ new' = [new EXCEPT ![r] = {}]
        /\ UNCHANGED <<world, files, at>>
    BY <1>7 DEF SegmentEvents
  <2> QED
    BY <2>1, <2>2 DEF TypeOK, Phases
<1>8. ASSUME NEW r \in Runners, OpenTmp(r) PROVE TypeOK'
  BY <1>8 DEF TypeOK, OpenTmp, Phases
<1>9. ASSUME NEW r \in Runners, CloseTmp(r) PROVE TypeOK'
  <2>1. PICK c \in {next[r], Torn} :
          /\ tmp' = IF at[r] = "tmp" THEN c ELSE tmp
          /\ disk' = IF at[r] = "path" THEN c ELSE disk
    BY <1>9 DEF CloseTmp
  <2>2. c \in State \cup {Absent, Empty, Torn}
    BY DEF TypeOK
  <2>3. indexed' \in BOOLEAN
    BY <1>9 DEF CloseTmp
  <2> QED
    BY <1>9, <2>1, <2>2, <2>3 DEF TypeOK, CloseTmp, Phases
<1>10. ASSUME NEW r \in Runners, Replace(r) PROVE TypeOK'
  <2>1. at' \in [Runners -> {"none", "tmp", "path", "gone"}]
    BY <1>10 DEF TypeOK, Replace
  <2>2. indexed' \in BOOLEAN
    BY <1>10 DEF TypeOK, Replace
  <2>3. /\ disk' \in State \cup {Absent, Empty, Torn}
        /\ tmp' \in State \cup {Absent, Empty, Torn}
    BY <1>10 DEF TypeOK, Replace
  <2> QED
    BY <1>10, <2>1, <2>2, <2>3 DEF TypeOK, Replace, Finish, Phases
<1>11. ASSUME NEW r \in Runners, Export(r) PROVE TypeOK'
  <2>1. indexed' \in BOOLEAN
    BY <1>11 DEF Export, TypeOK
  <2> QED
    BY <1>11, <2>1 DEF TypeOK, Export, Finish, Phases
<1>12. ASSUME NEW r \in Runners, Abort(r) PROVE TypeOK'
  <2>1. /\ disk' \in State \cup {Absent, Empty, Torn}
        /\ tmp' \in State \cup {Absent, Empty, Torn}
    BY <1>12 DEF TypeOK, Abort, Leftovers, Contents
  <2>2. indexed' \in BOOLEAN
    BY <1>12 DEF Abort
  <2> QED
    BY <1>12, <2>1, <2>2 DEF TypeOK, Abort, Finish, Phases
<1>13. CASE UNCHANGED vars
  BY <1>13 DEF TypeOK, vars
<1> QED
  BY <1>1, <1>2, <1>3, <1>4, <1>5, <1>6, <1>7, <1>8, <1>9, <1>10, <1>11, <1>12, <1>13
     DEF Next, RunStep

\* Every variable of run_incremental and of its files keeps its type.
THEOREM TypeCorrect == Spec => []TypeOK
  BY InitTypeOK, NextTypeOK, PTL DEF Spec

-----------------------------------------------------------------------------
(* Every state any runner holds, or any file contains, is sound *)

Posted(m) == feed[m] # "unposted"

\* A state only holds posted messages, none of them above its watermark.
BelowWatermark(s) ==
    /\ s.wm <= clock
    /\ \A m \in MembersOf(s) : Posted(m) /\ ts[m] <= s.wm

\* A message that is fetched again is not past the thaw window.  Any whole number of
\* hours but 0 will do, and 0 if timestamps are whole seconds.
WindowHolds == Thaw + 1 >= Second

Sound(s) == (WindowHolds => TasksDisjoint(s)) /\ Covered(s) /\ BelowWatermark(s)

\* The states in the files and in the memory of the runners.
Held ==
    ({disk, tmp} \cup {snap[r] : r \in Runners} \cup {next[r] : r \in Runners}) \cap State

PostedInPast == \A m \in Msg : Posted(m) => ts[m] <= clock

\* A fetch returns posted events of its window, and skips no live event that
\* is older than one it returns.
FetchSound(r) ==
    pc[r] = "segment" =>
      /\ \A e \in new[r] : Posted(e) /\ FetchStart(snap[r]) <= ts[e]
      /\ \A e \in new[r] : \A m \in Msg :
            feed[m] = "live" /\ FetchStart(snap[r]) <= ts[m] /\ ts[m] < ts[e] => m \in new[r]

IInv ==
    /\ TypeOK
    /\ PostedInPast
    /\ \A s \in Held : Sound(s)
    /\ \A r \in Runners : FetchSound(r)

\* Whatever happens in the group, a sound state stays sound: later messages
\* are not below its watermark, and a recall only asks for less.
LEMMA WorldKeepsSound ==
    ASSUME TypeOK, PostedInPast, NEW s \in State, Sound(s),
           Tick \/ (\E m \in Msg : Post(m) \/ Recall(m)) \/ UNCHANGED world
    PROVE  Sound(s)'
<1>0. /\ s.frozen \subseteq Task /\ s.tail \subseteq Msg /\ s.wm \in Nat
  BY DEF State
<1>1. MembersOf(s) \subseteq Msg
  BY <1>0 DEF MembersOf, Task
<1>2. WindowHolds => TasksDisjoint(s)'
  BY DEF TasksDisjoint, Sound
<1>3. CASE Tick
  <2>1. feed' = feed /\ ts' = ts /\ clock' = clock + 1
    BY <1>3 DEF Tick
  <2>2. Covered(s)'
    BY <2>1 DEF Covered, Sound, MembersOf
  <2>3. BelowWatermark(s)'
    BY <1>0, <2>1 DEF BelowWatermark, Sound, MembersOf, Posted, TypeOK
  <2> QED
    BY <1>2, <2>2, <2>3 DEF Sound
<1>4. ASSUME NEW m \in Msg, Post(m) PROVE Sound(s)'
  <2>1. /\ feed[m] = "unposted" /\ clock' = clock
        /\ feed' = [feed EXCEPT ![m] = "live"]
        /\ ts' = [ts EXCEPT ![m] = clock]
    BY <1>4 DEF Post
  <2>2. m \notin MembersOf(s)
    BY <2>1 DEF Sound, BelowWatermark, Posted
  <2>3. \A x \in Msg : x # m => feed'[x] = feed[x] /\ ts'[x] = ts[x]
    BY <2>1 DEF TypeOK
  <2>4. ts'[m] = clock
    BY <2>1 DEF TypeOK
  <2>5. ~(ts'[m] < s.wm)
    BY <1>0, <2>4 DEF Sound, BelowWatermark, TypeOK
  <2>6. Covered(s)'
    BY <2>3, <2>5 DEF Covered, Sound, MembersOf
  <2>7. BelowWatermark(s)'
    <3>1. \A x \in MembersOf(s) : x # m /\ x \in Msg
      BY <1>1, <2>2
    <3> QED
      BY <2>1, <2>3, <3>1 DEF BelowWatermark, Sound, MembersOf, Posted
  <2> QED
    BY <1>2, <2>6, <2>7 DEF Sound
<1>5. ASSUME NEW m \in Msg, Recall(m) PROVE Sound(s)'
  <2>1. /\ clock' = clock /\ ts' = ts
        /\ feed' = [feed EXCEPT ![m] = "recalled"]
    BY <1>5 DEF Recall
  <2>2. \A x \in Msg : feed'[x] = "live" => feed[x] = "live"
    BY <2>1 DEF TypeOK
  <2>3. \A x \in Msg : feed[x] # "unposted" => feed'[x] # "unposted"
    BY <2>1 DEF TypeOK
  <2>4. Covered(s)'
    BY <2>1, <2>2 DEF Covered, Sound, MembersOf
  <2>5. BelowWatermark(s)'
    BY <1>1, <2>1, <2>3 DEF BelowWatermark, Sound, MembersOf, Posted
  <2> QED
    BY <1>2, <2>4, <2>5 DEF Sound
<1>6. CASE UNCHANGED world
  BY <1>6 DEF Sound, TasksDisjoint, Covered, BelowWatermark, MembersOf, Posted, world
<1> QED
  BY <1>3, <1>4, <1>5, <1>6

\* A run that starts from a sound state assembles a sound state: the hard-frozen
\* tasks are below the fetch window, so no message is both reused and cut again,
\* and what the window starts after was already held.
LEMMA NextStateSound ==
    ASSUME TypeOK, PostedInPast, NEW r \in Runners,
           pc[r] = "segment", FetchSound(r),
           snap[r] \in State => Sound(snap[r]),
           NEW label \in Groupings(ActiveEvents(Base(snap[r]), new[r])),
           NEW tl \in Clusters(label) \cup {{}},
           NEW failed, NEW w \in Nat,
           NewWatermark(w, Base(snap[r]).wm, new[r])
    PROVE  Sound(NextState(Base(snap[r]), new[r], Clusters(label), tl, failed, w))
<1> DEFINE base == Base(snap[r])
           cs == Clusters(label)
           hard == HardFrozen(base, new[r])
           active == ActiveEvents(base, new[r])
           fresh == {NewTask(c, failed) : c \in cs \ {tl}}
           s == NextState(base, new[r], cs, tl, failed, w)
<1>1. /\ base \in State /\ new[r] \subseteq Msg
      /\ base.frozen \subseteq Task /\ base.tail \subseteq Msg /\ base.wm \in Nat
  <2>1. base \in State
    BY BaseTyped DEF TypeOK
  <2> QED
    BY <2>1 DEF TypeOK, State
<1>2. (WindowHolds => TasksDisjoint(base)) /\ BelowWatermark(base)
  <2>1. CASE snap[r] = Absent
    BY <2>1 DEF Base, NoState, TasksDisjoint, BelowWatermark, MembersOf, TypeOK
  <2>2. CASE snap[r] # Absent
    BY <2>2 DEF Base, Sound, TypeOK
  <2> QED
    BY <2>1, <2>2
<1>3. s.wm = w /\ s.frozen = hard \cup fresh /\ s.tail = tl
  BY DEF NextState
<1>4. hard \subseteq base.frozen
  BY <1>1, HardFrozenTyped
<1>5. \A c \in cs : c \subseteq active /\ c # {}
  BY BlocksTyped
<1>6. \A t \in fresh : t.members \in cs /\ t.members # tl
  BY DEF NewTask
<1>7. \A t, u \in fresh : t # u => t.members # u.members
  BY DEF NewTask
<1>8. WindowHolds => \A t \in hard : \A m \in t.members : m \notin active
  <2> SUFFICES ASSUME WindowHolds, NEW t \in hard, NEW m \in t.members, m \in active PROVE FALSE
    OBVIOUS
  <2>0. m \in Msg
    BY <1>1, <1>4 DEF Task
  <2>1. t \in base.frozen /\ ts[m] < base.wm - Thaw
    BY DEF HardFrozen, OlderThan
  <2>2. CASE m \in base.tail
    BY <1>2, <2>1, <2>2 DEF TasksDisjoint
  <2>3. CASE m \in new[r]
    <3>1. snap[r] # Absent
      BY <2>1 DEF Base, NoState
    <3>2. base = snap[r]
      BY <3>1 DEF Base
    <3>3. FetchStart(snap[r]) = WholeSecond(base.wm)
      BY <3>1, <3>2 DEF FetchStart
    <3>4. WholeSecond(base.wm) <= ts[m]
      BY <2>3, <3>3 DEF FetchSound
    <3>5. base.wm - Second < WholeSecond(base.wm) /\ WholeSecond(base.wm) \in Nat
      BY <1>1, WholeSecondBounds
    <3>6. ts[m] \in Nat
      BY <2>0 DEF TypeOK
    <3> QED
      BY <1>1, <2>1, <3>4, <3>5, <3>6 DEF WindowHolds
  <2>4. CASE m \in UNION {u.members : u \in base.frozen \ hard}
    <3>1. PICK u \in base.frozen \ hard : m \in u.members
      BY <2>4
    <3>2. u # t
      OBVIOUS
    <3> QED
      BY <1>2, <2>1, <3>1, <3>2 DEF TasksDisjoint
  <2> QED
    BY <2>2, <2>3, <2>4 DEF ActiveEvents
<1>9. WindowHolds => TasksDisjoint(s)
  <2> SUFFICES ASSUME WindowHolds PROVE TasksDisjoint(s)
    OBVIOUS
  <2>1. \A t \in hard : t.members # {}
    BY <1>2, <1>4 DEF TasksDisjoint
  <2>2. \A t \in fresh : t.members # {}
    BY <1>5, <1>6
  <2>3. tl \subseteq active
    BY <1>5
  <2>4. \A t \in hard : t.members \cap tl = {}
    BY <1>8, <2>3
  <2>5. \A t \in fresh : t.members \cap tl = {}
    <3> TAKE t \in fresh
    <3>1. CASE tl = {}
      BY <3>1
    <3>2. CASE tl # {}
      BY <1>6, <3>2, BlocksDisjoint
    <3> QED
      BY <3>1, <3>2
  <2>6. \A t, u \in hard : t # u => t.members \cap u.members = {}
    BY <1>2, <1>4 DEF TasksDisjoint
  <2>7. \A t \in hard, u \in fresh : t.members \cap u.members = {}
    BY <1>5, <1>6, <1>8
  <2>8. \A t, u \in fresh : t # u => t.members \cap u.members = {}
    BY <1>6, <1>7, BlocksDisjoint
  <2> HIDE DEF hard, fresh, s
  <2> QED
    BY <1>3, <2>1, <2>2, <2>4, <2>5, <2>6, <2>7, <2>8 DEF TasksDisjoint
<1>10. active \ Noise \subseteq MembersOf(s)
  <2> SUFFICES ASSUME NEW m \in active \ Noise PROVE m \in MembersOf(s)
    OBVIOUS
  <2>1. PICK c \in cs : m \in c
    BY BlocksCover
  <2>2. CASE c = tl
    BY <1>3, <2>1, <2>2 DEF MembersOf
  <2>3. CASE c # tl
    <3>1. NewTask(c, failed) \in s.frozen
      BY <1>3, <2>3
    <3>2. m \in NewTask(c, failed).members
      BY <2>1 DEF NewTask
    <3> QED
      BY <3>1, <3>2, Zenon DEF MembersOf
  <2> QED
    BY <2>2, <2>3
<1>11. MembersOf(base) \ Noise \subseteq MembersOf(s)
  <2> SUFFICES ASSUME NEW m \in MembersOf(base) \ Noise PROVE m \in MembersOf(s)
    OBVIOUS
  <2>1. CASE m \in base.tail
    BY <1>10, <2>1 DEF ActiveEvents
  <2>2. ASSUME NEW t \in base.frozen, m \in t.members PROVE m \in MembersOf(s)
    <3>1. CASE t \in hard
      BY <1>3, <2>2, <3>1 DEF MembersOf
    <3>2. CASE t \notin hard
      BY <1>10, <2>2, <3>2 DEF ActiveEvents
    <3> QED
      BY <3>1, <3>2
  <2> QED
    BY <2>1, <2>2 DEF MembersOf
<1>12. Covered(s)
  <2> SUFFICES ASSUME NEW m \in Msg \ Noise, feed[m] = "live", Since <= ts[m], ts[m] < w
               PROVE  m \in MembersOf(s)
    BY <1>3 DEF Covered
  <2>0. ts[m] \in Nat
    BY DEF TypeOK
  <2>1. CASE snap[r] # Absent /\ ts[m] < base.wm
    <3>1. base = snap[r] /\ snap[r] \in State
      BY <2>1 DEF Base, TypeOK
    <3> QED
      BY <1>11, <2>1, <3>1 DEF Sound, Covered
  <2>2. CASE snap[r] = Absent \/ ~(ts[m] < base.wm)
    <3>1. FetchStart(snap[r]) <= ts[m]
      <4>1. CASE snap[r] = Absent
        BY <4>1 DEF FetchStart
      <4>2. CASE snap[r] # Absent
        <5>1. base = snap[r]
          BY <4>2 DEF Base
        <5>2. WholeSecond(base.wm) <= base.wm /\ WholeSecond(base.wm) \in Nat
          BY <1>1, WholeSecondBounds
        <5> QED
          BY <1>1, <2>0, <2>2, <4>2, <5>1, <5>2 DEF FetchStart
      <4> QED
        BY <4>1, <4>2
    <3>2. w # base.wm
      <4>1. CASE snap[r] = Absent
        BY <2>0, <4>1 DEF Base, NoState
      <4>2. CASE snap[r] # Absent
        BY <2>2, <4>2
      <4> QED
        BY <4>1, <4>2
    <3>3. PICK e \in new[r] : w = ts[e]
      BY <3>2 DEF NewWatermark
    <3>4. m \in new[r]
      BY <3>1, <3>3 DEF FetchSound
    <3> QED
      BY <1>10, <3>4 DEF ActiveEvents
  <2> QED
    BY <2>1, <2>2
<1>13. BelowWatermark(s)
  <2>1. w <= clock
    BY <1>1, <1>2 DEF NewWatermark, BelowWatermark, FetchSound, PostedInPast
  <2>2. MembersOf(s) \subseteq MembersOf(base) \cup new[r]
    <3>1. active \subseteq MembersOf(base) \cup new[r]
      BY DEF ActiveEvents, MembersOf
    <3>2. tl \subseteq active
      BY <1>5
    <3>3. \A t \in fresh : t.members \subseteq active
      BY <1>5, <1>6
    <3>4. \A t \in hard : t.members \subseteq MembersOf(base)
      BY <1>4 DEF MembersOf
    <3> HIDE DEF hard, fresh, s, active
    <3> QED
      BY <1>3, <3>1, <3>2, <3>3, <3>4 DEF MembersOf
  <2>3. \A m \in MembersOf(base) : m \in Msg
    BY <1>1 DEF MembersOf, Task
  <2>4. \A m \in MembersOf(base) : Posted(m) /\ ts[m] <= w
    BY <1>1, <1>2, <2>3 DEF BelowWatermark, NewWatermark, TypeOK
  <2>5. \A m \in new[r] : Posted(m) /\ ts[m] <= w
    BY DEF FetchSound, NewWatermark
  <2> HIDE DEF s
  <2> QED
    BY <1>3, <2>1, <2>2, <2>4, <2>5 DEF BelowWatermark
<1> QED
  BY <1>9, <1>12, <1>13 DEF Sound

\* Before the first run nobody holds a state, so all held states are sound.
LEMMA InitIInv == Init => IInv
<1> SUFFICES ASSUME Init PROVE IInv
  OBVIOUS
<1>1. TypeOK
  BY InitTypeOK
<1>2. PostedInPast
  BY DEF Init, PostedInPast, Posted
<1>3. Held = {}
  BY FileAssumption DEF Init, Held
<1>4. \A r \in Runners : FetchSound(r)
  BY DEF Init, FetchSound
<1> QED
  BY <1>1, <1>2, <1>3, <1>4 DEF IInv

\* A step of the group keeps the facts about the past and about the fetches.
LEMMA WorldStep ==
    ASSUME IInv, Tick \/ (\E m \in Msg : Post(m) \/ Recall(m))
    PROVE  PostedInPast' /\ (\A r \in Runners : FetchSound(r)')
<1> USE DEF IInv
<1>1. UNCHANGED <<disk, tmp, indexed, pc, snap, new, next, at>>
  BY DEF Tick, Post, Recall, files, locals
<1>2. CASE Tick
  <2>1. feed' = feed /\ ts' = ts /\ clock' = clock + 1
    BY <1>2 DEF Tick
  <2>2. PostedInPast'
    BY <2>1 DEF PostedInPast, Posted, TypeOK
  <2>3. \A r \in Runners : FetchSound(r)'
    BY <1>1, <2>1 DEF FetchSound, Posted, FetchStart, WholeSecond
  <2> QED
    BY <2>2, <2>3
<1>3. ASSUME NEW m \in Msg, Post(m)
      PROVE  PostedInPast' /\ (\A r \in Runners : FetchSound(r)')
  <2>1. /\ feed[m] = "unposted" /\ clock' = clock
        /\ feed' = [feed EXCEPT ![m] = "live"]
        /\ ts' = [ts EXCEPT ![m] = clock]
    BY <1>3 DEF Post
  <2>2. \A x \in Msg : x # m => feed'[x] = feed[x] /\ ts'[x] = ts[x]
    BY <2>1 DEF TypeOK
  <2>3. ts'[m] = clock
    BY <2>1 DEF TypeOK
  <2>4. PostedInPast'
    BY <2>1, <2>2, <2>3 DEF PostedInPast, Posted, TypeOK
  <2>5. ASSUME NEW r \in Runners PROVE FetchSound(r)'
    <3> SUFFICES ASSUME pc[r] = "segment"
                 PROVE  /\ \A e \in new[r] : feed'[e] # "unposted" /\ FetchStart(snap[r]) <= ts'[e]
                        /\ \A e \in new[r] : \A x \in Msg :
                              feed'[x] = "live" /\ FetchStart(snap[r]) <= ts'[x] /\ ts'[x] < ts'[e]
                                => x \in new[r]
      BY <1>1 DEF FetchSound, Posted, FetchStart, WholeSecond
    <3>1. \A e \in new[r] : e \in Msg /\ e # m
      BY <2>1 DEF FetchSound, Posted, TypeOK
    <3>2. \A e \in new[r] : ts'[e] = ts[e] /\ feed'[e] = feed[e] /\ ts[e] <= clock
      BY <2>2, <3>1 DEF FetchSound, PostedInPast
    <3>3. \A e \in new[r] : ~(ts'[m] < ts'[e])
      BY <2>3, <3>1, <3>2 DEF TypeOK
    <3> QED
      BY <2>2, <3>1, <3>2, <3>3 DEF FetchSound, Posted
  <2> QED
    BY <2>4, <2>5
<1>4. ASSUME NEW m \in Msg, Recall(m)
      PROVE  PostedInPast' /\ (\A r \in Runners : FetchSound(r)')
  <2>1. /\ clock' = clock /\ ts' = ts
        /\ \A x \in Msg : feed'[x] = "live" => feed[x] = "live"
        /\ \A x \in Msg : feed'[x] = "unposted" => feed[x] = "unposted"
        /\ \A x \in Msg : feed[x] = "unposted" => feed'[x] = "unposted"
    BY <1>4 DEF Recall, TypeOK
  <2>2. PostedInPast'
    BY <2>1 DEF PostedInPast, Posted
  <2>3. \A r \in Runners : new[r] \subseteq Msg
    BY DEF TypeOK
  <2>4. \A r \in Runners : FetchSound(r)'
    BY <1>1, <2>1, <2>3 DEF FetchSound, Posted, FetchStart, WholeSecond
  <2> QED
    BY <2>2, <2>4
<1> QED
  BY <1>2, <1>3, <1>4

\* Only SegmentEvents brings a state that nobody held before.
LEMMA HeldStep ==
    ASSUME TypeOK, [Next]_vars, NEW s \in Held',
           ~ \E r \in Runners : SegmentEvents(r)
    PROVE  s \in Held
<1> USE DEF world, files, locals
<1>0. s \in State /\ Absent \notin State /\ Empty \notin State /\ Torn \notin State
  BY FileAssumption DEF Held
<1>1. CASE Tick \/ (\E m \in Msg : Post(m) \/ Recall(m)) \/ Recover \/ UNCHANGED vars
  BY <1>1 DEF Tick, Post, Recall, Recover, Held, vars
<1>2. ASSUME NEW r \in Runners, LoadState(r) PROVE s \in Held
  BY <1>2 DEF LoadState, Held, TypeOK
<1>3. ASSUME NEW r \in Runners, NEW until, FetchHistory(r, until) PROVE s \in Held
  BY <1>0, <1>3 DEF FetchHistory, Finish, Held, TypeOK
<1>4. ASSUME NEW r \in Runners, OpenTmp(r) PROVE s \in Held
  BY <1>0, <1>4 DEF OpenTmp, Held
<1>5. ASSUME NEW r \in Runners, CloseTmp(r) PROVE s \in Held
  <2>1. PICK c \in {next[r], Torn} :
          /\ tmp' = IF at[r] = "tmp" THEN c ELSE tmp
          /\ disk' = IF at[r] = "path" THEN c ELSE disk
    BY <1>5 DEF CloseTmp
  <2>2. snap' = snap /\ next' = next
    BY <1>5 DEF CloseTmp
  <2> QED
    BY <1>0, <2>1, <2>2 DEF Held
<1>6. ASSUME NEW r \in Runners, Replace(r) PROVE s \in Held
  BY <1>0, <1>6 DEF Replace, Finish, Held, TypeOK
<1>7. ASSUME NEW r \in Runners, Export(r) PROVE s \in Held
  BY <1>0, <1>7 DEF Export, Finish, Held, TypeOK
<1>8. ASSUME NEW r \in Runners, Abort(r) PROVE s \in Held
  <2>1. disk' \in {disk, Torn} /\ tmp' \in {tmp, Torn, Absent, Empty}
    BY <1>8 DEF Abort, Leftovers, Contents
  <2> QED
    BY <1>0, <1>8, <2>1 DEF Abort, Finish, Held, TypeOK
<1> QED
  BY <1>1, <1>2, <1>3, <1>4, <1>5, <1>6, <1>7, <1>8 DEF Next, RunStep

\* A step of a runner keeps what its and the others' fetches promise.
LEMMA RunnersKeepFetchSound ==
    ASSUME IInv, UNCHANGED <<clock, feed, ts>>, NEW q \in Runners,
           \/ UNCHANGED <<pc, snap, new>>
           \/ \E r \in Runners :
                 \/ LoadState(r) \/ SegmentEvents(r) \/ OpenTmp(r) \/ CloseTmp(r)
                 \/ Replace(r) \/ Export(r) \/ Abort(r)
                 \/ \E until \in Nat : FetchHistory(r, until)
    PROVE  FetchSound(q)'
<1> USE DEF IInv
<1>1. SUFFICES ASSUME pc'[q] = "segment"
               PROVE  FetchSound(q)'
  BY DEF FetchSound
<1>2. CASE /\ pc[q] = "segment" /\ snap'[q] = snap[q] /\ new'[q] = new[q]
  BY <1>2 DEF FetchSound, Posted, FetchStart, WholeSecond
<1>3. ASSUME NEW until \in Nat, FetchHistory(q, until)
      PROVE  FetchSound(q)'
  <2>1. /\ snap' = snap
        /\ new'[q] = Fetched(FetchStart(snap[q]), until)
    BY <1>1, <1>3 DEF FetchHistory, Finish, TypeOK
  <2>2. \A e \in new'[q] : e \in Msg /\ feed[e] = "live" /\ FetchStart(snap[q]) <= ts[e] /\ ts[e] <= until
    BY <2>1 DEF Fetched
  <2>3. FetchStart(snap[q]) \in Nat
    BY WholeSecondBounds DEF FetchStart, TypeOK, State
  <2>4. ASSUME NEW e \in new'[q], NEW m \in Msg, feed[m] = "live",
               FetchStart(snap[q]) <= ts[m], ts[m] < ts[e]
        PROVE  m \in new'[q]
    <3>1. ts[m] \in Nat /\ ts[e] \in Nat
      BY <2>2 DEF TypeOK
    <3>2. ts[m] <= until
      BY <2>2, <2>4, <3>1
    <3> QED
      BY <2>1, <2>4, <3>2 DEF Fetched
  <2> QED
    BY <2>1, <2>2, <2>4 DEF FetchSound, Posted, FetchStart, WholeSecond
<1>4. CASE UNCHANGED <<pc, snap, new>>
  BY <1>1, <1>2, <1>4
<1>5. ASSUME NEW r \in Runners,
             \/ LoadState(r) \/ SegmentEvents(r) \/ OpenTmp(r) \/ CloseTmp(r)
             \/ Replace(r) \/ Export(r) \/ Abort(r)
      PROVE  pc[q] = "segment" /\ snap'[q] = snap[q] /\ new'[q] = new[q]
  <2>1. CASE LoadState(r)
    BY <1>1, <2>1 DEF LoadState, TypeOK
  <2>2. CASE SegmentEvents(r)
    <3>1. /\ pc' = [pc EXCEPT ![r] = "open"]
          /\ snap' = [snap EXCEPT ![r] = Absent]
          /\ new' = [new EXCEPT ![r] = {}]
      BY <2>2 DEF SegmentEvents
    <3> QED
      BY <1>1, <3>1 DEF TypeOK
  <2>3. CASE OpenTmp(r)
    BY <1>1, <2>3 DEF OpenTmp, TypeOK
  <2>4. CASE CloseTmp(r)
    BY <1>1, <2>4 DEF CloseTmp, TypeOK
  <2>5. CASE Replace(r)
    BY <1>1, <2>5 DEF Replace, Finish, TypeOK
  <2>6. CASE Export(r)
    BY <1>1, <2>6 DEF Export, Finish, TypeOK
  <2>7. CASE Abort(r)
    BY <1>1, <2>7 DEF Abort, Finish, TypeOK
  <2> QED
    BY <1>5, <2>1, <2>2, <2>3, <2>4, <2>5, <2>6, <2>7
<1>6. ASSUME NEW r \in Runners, NEW until \in Nat, FetchHistory(r, until), r # q
      PROVE  pc[q] = "segment" /\ snap'[q] = snap[q] /\ new'[q] = new[q]
  BY <1>1, <1>6 DEF FetchHistory, Finish, TypeOK
<1> QED
  BY <1>2, <1>3, <1>4, <1>5, <1>6

\* The invariant is inductive: every step keeps all held states sound.
LEMMA NextIInv == IInv /\ [Next]_vars => IInv'
<1> SUFFICES ASSUME IInv, [Next]_vars PROVE IInv'
  OBVIOUS
<1> USE DEF IInv
<1>1. TypeOK'
  BY NextTypeOK
<1>2. CASE Tick \/ (\E m \in Msg : Post(m) \/ Recall(m))
  <2>1. ~ \E r \in Runners : SegmentEvents(r)
    BY <1>2 DEF SegmentEvents, Tick, Post, Recall, locals, TypeOK
  <2>2. ASSUME NEW s \in Held' PROVE Sound(s)'
    <3>1. s \in Held /\ s \in State
      BY <2>1, HeldStep DEF Held
    <3> QED
      BY <1>2, <3>1, WorldKeepsSound
  <2> QED
    BY <1>1, <1>2, <2>2, WorldStep
<1>3. CASE ~(Tick \/ (\E m \in Msg : Post(m) \/ Recall(m)))
  <2>1. UNCHANGED <<clock, feed, ts>>
    BY <1>3 DEF Next, RunStep, Recover, LoadState, FetchHistory, SegmentEvents, OpenTmp,
                CloseTmp, Replace, Export, Abort, world, vars
  <2>2. PostedInPast'
    BY <2>1 DEF PostedInPast, Posted
  <2>3. ASSUME NEW s \in State, Sound(s) PROVE Sound(s)'
    BY <2>1, <2>3 DEF Sound, TasksDisjoint, Covered, BelowWatermark, MembersOf, Posted
  <2>4. ASSUME NEW s \in Held' PROVE Sound(s)'
    <3>1. CASE ~ \E r \in Runners : SegmentEvents(r)
      <4>1. s \in Held /\ s \in State
        BY <3>1, HeldStep DEF Held
      <4> QED
        BY <2>3, <4>1
    <3>2. ASSUME NEW r \in Runners, SegmentEvents(r) PROVE Sound(s)'
      <4>1. pc[r] = "segment" /\ snap' = [snap EXCEPT ![r] = Absent] /\ disk' = disk /\ tmp' = tmp
        BY <3>2 DEF SegmentEvents, files
      <4>2. PICK label \in Groupings(ActiveEvents(Base(snap[r]), new[r])) :
              \E tl \in Clusters(label) \cup {{}}, failed \in SUBSET Clusters(label), w \in Nat :
                /\ NewWatermark(w, Base(snap[r]).wm, new[r])
                /\ next' = [next EXCEPT ![r] =
                     NextState(Base(snap[r]), new[r], Clusters(label), tl, failed, w)]
        BY <3>2, SegmentNext
      <4>3. PICK tl \in Clusters(label) \cup {{}}, failed \in SUBSET Clusters(label), w \in Nat :
                /\ NewWatermark(w, Base(snap[r]).wm, new[r])
                /\ next' = [next EXCEPT ![r] =
                     NextState(Base(snap[r]), new[r], Clusters(label), tl, failed, w)]
        BY <4>2
      <4> DEFINE n == NextState(Base(snap[r]), new[r], Clusters(label), tl, failed, w)
      <4>4. snap[r] \in State => Sound(snap[r])
        BY DEF Held
      <4>5. Sound(n)
        BY <4>1, <4>3, <4>4, NextStateSound
      <4>6. n \in State
        BY BaseTyped, NextStateTyped DEF TypeOK
      <4>7. CASE s = n
        BY <2>3, <4>5, <4>6, <4>7
      <4>8. CASE s # n
        <5>1. s \in State /\ s # Absent
          BY FileAssumption DEF Held
        <5>2. s \in Held
          BY <4>1, <4>3, <4>8, <5>1 DEF Held, TypeOK
        <5> QED
          BY <2>3, <5>1, <5>2
      <4> QED
        BY <4>7, <4>8
    <3> QED
      BY <3>1, <3>2
  <2>5. ASSUME NEW q \in Runners PROVE FetchSound(q)'
    <3>1. WholeSecond(clock) \in Nat
      BY WholeSecondBounds DEF TypeOK
    <3>2. CASE Recover \/ UNCHANGED vars
      <4>1. UNCHANGED <<pc, snap, new>>
        BY <3>2 DEF Recover, locals, vars
      <4> QED
        BY <2>1, <4>1, RunnersKeepFetchSound
    <3>3. CASE ~(Recover \/ UNCHANGED vars)
      <4>1. \E r \in Runners :
              \/ LoadState(r) \/ SegmentEvents(r) \/ OpenTmp(r) \/ CloseTmp(r)
              \/ Replace(r) \/ Export(r) \/ Abort(r)
              \/ \E until \in Nat : FetchHistory(r, until)
        BY <1>3, <3>1, <3>3 DEF Next, RunStep
      <4> QED
        BY <2>1, <4>1, RunnersKeepFetchSound
    <3> QED
      BY <3>2, <3>3
  <2> QED
    BY <1>1, <2>2, <2>4, <2>5
<1> QED
  BY <1>2, <1>3

\* However many runs overlap and wherever they die, a readable state file files
\* every message under at most one task, if the thaw window is not empty or the
\* timestamps are whole seconds.
THEOREM MessagesFiledOnce ==
    ASSUME Thaw + 1 >= Second
    PROVE  Spec => []EachMessageOnce
<1>1. IInv => EachMessageOnce
  BY DEF IInv, Held, Sound, WindowHolds, EachMessageOnce, Readable
<1> QED
  BY <1>1, InitIInv, NextIInv, PTL DEF Spec

\* However many runs overlap and wherever they die, a readable state file holds
\* every live meaningful message below its watermark: moving the watermark never
\* skips a message, though messages of its own second may still be missing.
THEOREM WatermarkLosesNothing == Spec => []NothingBelowWatermarkLost
<1>1. IInv => NothingBelowWatermarkLost
  BY DEF IInv, Held, Sound, NothingBelowWatermarkLost, Readable
<1> QED
  BY <1>1, InitIInv, NextIInv, PTL DEF Spec

-----------------------------------------------------------------------------
(* One runner at a time: frozen tasks stay and the watermark never falls *)

\* n may replace d on disk.
Extends(d, n) ==
    /\ n.wm >= d.wm
    /\ \A t \in d.frozen : FrozenForGood(d, t) /\ ~RepliedTo(d, t) => t \in n.frozen

\* What one runner knows of the files at each stage of its run.
SoloInv ==
    /\ disk \in State \cup {Absent}
    /\ \A r \in Runners :
         /\ pc[r] \in {"fetch", "segment"} => snap[r] = disk
         /\ pc[r] \in {"open", "write", "replace"} =>
              next[r] \in State /\ (disk \in State => Extends(disk, next[r]))
         /\ pc[r] = "write" => at[r] = "tmp" /\ tmp = Empty
         /\ pc[r] # "write" => at[r] = "none"
         /\ pc[r] = "replace" => tmp = next[r]

\* A run extends the state it loaded.
LEMMA NextStateExtends ==
    ASSUME TypeOK, NEW r \in Runners, pc[r] = "segment", FetchSound(r),
           snap[r] \in State, NEW cs, NEW tl, NEW failed, NEW w \in Nat,
           NewWatermark(w, snap[r].wm, new[r])
    PROVE  Extends(snap[r], NextState(snap[r], new[r], cs, tl, failed, w))
<1> DEFINE d == snap[r]
           n == NextState(d, new[r], cs, tl, failed, w)
<1>1. n.wm = w /\ HardFrozen(d, new[r]) \subseteq n.frozen
  BY DEF NextState
<1>2. w >= d.wm
  BY DEF NewWatermark
<1>3. ASSUME NEW t \in d.frozen, FrozenForGood(d, t), ~RepliedTo(d, t)
      PROVE  t \in HardFrozen(d, new[r])
  <2>1. d # Absent
    BY FileAssumption
  <2>2. ASSUME NEW e \in new[r], Parent[e] \in t.members PROVE FALSE
    <3>1. e \in Msg
      BY DEF TypeOK
    <3>2. feed[e] # "unposted" /\ FetchStart(d) <= ts[e]
      BY DEF FetchSound, Posted
    <3>3. FetchStart(d) = WholeSecond(d.wm) /\ WholeSecond(d.wm) \in Nat /\ ts[e] \in Nat
      BY <2>1, <3>1, WholeSecondBounds DEF FetchStart, State, TypeOK
    <3>4. ts[e] >= WholeSecond(d.wm)
      BY <3>2, <3>3
    <3> QED
      BY <1>3, <2>2, <3>1, <3>2, <3>4 DEF RepliedTo
  <2> QED
    BY <1>3, <2>2 DEF HardFrozen, Reopened, FrozenForGood
<1> QED
  BY <1>1, <1>2, <1>3 DEF Extends

\* The group cannot undo that relation: a message of a held state keeps its
\* timestamp and a reply stays a reply.
LEMMA WorldKeepsExtends ==
    ASSUME TypeOK, NEW d \in State, BelowWatermark(d), NEW n, Extends(d, n),
           Tick \/ (\E m \in Msg : Post(m) \/ Recall(m)) \/ UNCHANGED <<feed, ts>>
    PROVE  Extends(d, n)'
<1>1. \A t \in d.frozen : t.members \subseteq Msg /\ t.members \subseteq MembersOf(d)
  BY DEF State, Task, MembersOf
<1>2. \A x \in Msg : feed[x] # "unposted" => feed'[x] # "unposted" /\ ts'[x] = ts[x]
  BY DEF Tick, Post, Recall, TypeOK
<1>3. ASSUME NEW t \in d.frozen, FrozenForGood(d, t)' PROVE FrozenForGood(d, t)
  <2>1. \A x \in t.members : ts'[x] = ts[x]
    BY <1>1, <1>2 DEF BelowWatermark, Posted
  <2> QED
    BY <1>3, <2>1 DEF FrozenForGood, OlderThan
<1>4. ASSUME NEW t \in d.frozen, RepliedTo(d, t) PROVE RepliedTo(d, t)'
  BY <1>2, <1>4 DEF RepliedTo, WholeSecond
<1> QED
  BY <1>3, <1>4 DEF Extends

\* Before the first run nothing is known of the files and nothing need be.
LEMMA InitSolo == Init => SoloInv
  BY DEF Init, SoloInv

\* With a single runner its knowledge of the files survives every step.
LEMMA NextSolo ==
    ASSUME NEW r, Runners = {r}
    PROVE  IInv /\ SoloInv /\ [Next]_vars => SoloInv'
<1> SUFFICES ASSUME IInv, SoloInv, [Next]_vars PROVE SoloInv'
  OBVIOUS
<1> USE DEF IInv, world, files, locals
<1>1. CASE Tick \/ (\E m \in Msg : Post(m) \/ Recall(m)) \/ Recover \/ UNCHANGED vars
  <2>1. UNCHANGED <<disk, tmp, pc, snap, next, at>>
    BY <1>1 DEF Tick, Post, Recall, Recover, vars
  <2>2. disk \in State => BelowWatermark(disk)
    BY DEF Held, Sound
  <2>3. Tick \/ (\E m \in Msg : Post(m) \/ Recall(m)) \/ UNCHANGED <<feed, ts>>
    BY <1>1 DEF Recover, vars
  <2>4. ASSUME NEW d \in State, d = disk, NEW n, Extends(d, n) PROVE Extends(d, n)'
    BY <2>2, <2>3, <2>4, WorldKeepsExtends
  <2>5. ASSUME disk \in State, pc[r] \in {"open", "write", "replace"}
        PROVE  Extends(disk, next[r])'
    <3>1. PICK d \in State : d = disk
      BY <2>5
    <3>2. PICK n : n = next[r]
      OBVIOUS
    <3>3. Extends(d, n)
      BY <2>5, <3>1, <3>2 DEF SoloInv
    <3>4. Extends(d, n)'
      BY <2>4, <3>1, <3>3
    <3> QED
      BY <2>1, <3>1, <3>2, <3>4
         DEF Extends, FrozenForGood, OlderThan, RepliedTo, WholeSecond
  <2> QED
    BY <2>1, <2>5 DEF SoloInv
<1>2. CASE LoadState(r)
  BY <1>2 DEF LoadState, SoloInv, TypeOK, Readable
<1>3. ASSUME NEW until, FetchHistory(r, until) PROVE SoloInv'
  BY <1>3 DEF FetchHistory, Finish, SoloInv, TypeOK
<1>4. CASE SegmentEvents(r)
  <2>1. /\ pc[r] = "segment" /\ pc'[r] = "open"
        /\ UNCHANGED <<clock, feed, ts, disk, tmp, at>>
    BY <1>4 DEF SegmentEvents, TypeOK
  <2>2. PICK label \in Groupings(ActiveEvents(Base(snap[r]), new[r])) :
          \E tl \in Clusters(label) \cup {{}}, failed \in SUBSET Clusters(label), w \in Nat :
            /\ NewWatermark(w, Base(snap[r]).wm, new[r])
            /\ next' = [next EXCEPT ![r] =
                 NextState(Base(snap[r]), new[r], Clusters(label), tl, failed, w)]
    BY <1>4, SegmentNext
  <2>3. PICK tl \in Clusters(label) \cup {{}}, failed \in SUBSET Clusters(label), w \in Nat :
            /\ NewWatermark(w, Base(snap[r]).wm, new[r])
            /\ next' = [next EXCEPT ![r] =
                 NextState(Base(snap[r]), new[r], Clusters(label), tl, failed, w)]
    BY <2>2
  <2> DEFINE n == NextState(Base(snap[r]), new[r], Clusters(label), tl, failed, w)
  <2>4. next'[r] = n
    BY <2>3 DEF TypeOK
  <2>5. n \in State
    BY BaseTyped, NextStateTyped DEF TypeOK
  <2>6. snap[r] = disk /\ at[r] = "none"
    BY <2>1 DEF SoloInv
  <2>7. ASSUME disk \in State PROVE Extends(disk, n)
    <3>1. Base(snap[r]) = snap[r]
      BY <2>6, <2>7, FileAssumption DEF Base
    <3> QED
      BY <2>1, <2>3, <2>6, <2>7, <3>1, NextStateExtends
  <2>8. ASSUME disk \in State PROVE Extends(disk, next[r])'
    <3> HIDE DEF n
    <3> QED
      BY <2>1, <2>4, <2>7, <2>8 DEF Extends, FrozenForGood, OlderThan, RepliedTo, WholeSecond
  <2> HIDE DEF n
  <2> QED
    BY <2>1, <2>4, <2>5, <2>6, <2>8 DEF SoloInv
<1>5. CASE OpenTmp(r)
  <2>1. /\ pc[r] = "open" /\ pc'[r] = "write" /\ at'[r] = "tmp" /\ tmp' = Empty
        /\ UNCHANGED <<clock, feed, ts, disk, snap, next>>
    BY <1>5 DEF OpenTmp, TypeOK
  <2>2. disk \in State => Extends(disk, next[r])'
    BY <2>1 DEF SoloInv, Extends, FrozenForGood, OlderThan, RepliedTo, WholeSecond
  <2> QED
    BY <2>1, <2>2 DEF SoloInv
<1>6. CASE CloseTmp(r)
  <2>1. /\ pc[r] = "write" /\ pc'[r] = "replace" /\ at'[r] = "none"
        /\ UNCHANGED <<clock, feed, ts, snap, next>>
    BY <1>6 DEF CloseTmp, TypeOK
  <2>2. ~Shared(r)
    BY <2>1 DEF Shared, Contents, SoloInv
  <2>3. tmp' = next[r] /\ disk' = disk
    BY <1>6, <2>1, <2>2 DEF CloseTmp, SoloInv
  <2>4. disk \in State => Extends(disk, next[r])'
    BY <2>1, <2>3 DEF SoloInv, Extends, FrozenForGood, OlderThan, RepliedTo, WholeSecond
  <2> QED
    BY <2>1, <2>3, <2>4 DEF SoloInv
<1>7. CASE Replace(r)
  <2>1. /\ pc[r] = "replace" /\ tmp = next[r] /\ next[r] \in State /\ at[r] = "none"
    BY <1>7 DEF Replace, SoloInv
  <2>2. tmp # Absent
    BY <2>1, FileAssumption
  <2>3. disk' = tmp /\ pc'[r] = "export" /\ at'[r] = "none"
    BY <1>7, <2>1, <2>2 DEF Replace, TypeOK
  <2> QED
    BY <2>1, <2>3 DEF SoloInv
<1>8. CASE Export(r)
  BY <1>8 DEF Export, Finish, SoloInv, TypeOK
<1>9. CASE Abort(r)
  <2>1. at[r] # "path"
    BY DEF SoloInv
  <2>2. disk' = disk
    BY <1>9, <2>1 DEF Abort, Leftovers, Contents
  <2> QED
    BY <1>9, <2>2 DEF Abort, Finish, SoloInv, TypeOK
<1> QED
  BY <1>1, <1>2, <1>3, <1>4, <1>5, <1>6, <1>7, <1>8, <1>9 DEF Next, RunStep

\* The state file only changes by a rename, to a state that extends it.
LEMMA SoloStep ==
    ASSUME NEW r, Runners = {r}, IInv, SoloInv, [Next]_vars, Readable(disk)
    PROVE  Readable(disk') /\ (disk' = disk \/ Extends(disk, disk'))
<1> USE DEF IInv, world, files, locals, Readable
<1>1. CASE Replace(r)
  <2>1. /\ pc[r] = "replace" /\ tmp = next[r] /\ next[r] \in State
        /\ Extends(disk, next[r])
    BY <1>1 DEF Replace, SoloInv
  <2>2. disk' = tmp
    BY <1>1, <2>1, FileAssumption DEF Replace
  <2> QED
    BY <2>1, <2>2
<1>2. CASE CloseTmp(r)
  <2>1. at[r] = "tmp"
    BY <1>2 DEF CloseTmp, SoloInv
  <2> QED
    BY <1>2, <2>1 DEF CloseTmp
<1>3. CASE Abort(r)
  <2>1. at[r] # "path"
    BY DEF SoloInv
  <2> QED
    BY <1>3, <2>1 DEF Abort, Leftovers, Contents
<1>4. CASE ~Replace(r) /\ ~CloseTmp(r) /\ ~Abort(r)
  BY <1>4 DEF Next, RunStep, Tick, Post, Recall, Recover, LoadState, FetchHistory,
              SegmentEvents, OpenTmp, Export, vars
<1> QED
  BY <1>1, <1>2, <1>3, <1>4

\* With one runner at a time, a task that is past the thaw window, was decomposed
\* and got no reply is in every later state file, unchanged, whatever is posted,
\* whatever the segmenter answers and wherever runs die.
THEOREM FrozenTasksDoNotDrift ==
    ASSUME NEW r, Runners = {r}
    PROVE  Spec => HardFrozenStable
<1>1. Spec => [](IInv /\ SoloInv)
  BY InitIInv, NextIInv, InitSolo, NextSolo, PTL DEF Spec
<1>2. ASSUME IInv, SoloInv, [Next]_vars
      PROVE  [Readable(disk) =>
                \A t \in disk.frozen :
                   FrozenForGood(disk, t) /\ ~RepliedTo(disk, t)
                     => (Readable(disk') => t \in disk'.frozen)]_vars
  BY <1>2, SoloStep DEF Extends
<1> QED
  BY <1>1, <1>2, PTL DEF Spec, HardFrozenStable

\* With one runner at a time, the state file stays readable once it exists, and
\* its watermark never goes back.
THEOREM WatermarkNeverFalls ==
    ASSUME NEW r, Runners = {r}
    PROVE  Spec => WatermarkMonotone
<1>1. Spec => [](IInv /\ SoloInv)
  BY InitIInv, NextIInv, InitSolo, NextSolo, PTL DEF Spec
<1>2. ASSUME IInv, SoloInv, [Next]_vars
      PROVE  [Readable(disk) => Readable(disk') /\ disk'.wm >= disk.wm]_vars
  BY <1>2, SoloStep DEF Extends, Readable, State
<1> QED
  BY <1>1, <1>2, PTL DEF Spec, WatermarkMonotone

=============================================================================
