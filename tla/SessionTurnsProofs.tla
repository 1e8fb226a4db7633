--------------------------- MODULE SessionTurnsProofs ---------------------------
(* Proofs about the turns of a session (SessionTurns), for any number of turns, *)
(* messages, mails and notes, and for every interleaving of the submission      *)
(* loop, the guardian, an extension, the clients and the tasks.                 *)
EXTENDS SessionTurns, SequenceTheorems, FiniteSetTheorems, TLAPS

USE TurnAssumption DEF TurnAssumption

-----------------------------------------------------------------------------
(* The inductive invariant *)

(* A task that may still reach the end of its turn by itself.                   *)
Alive == Running \cup {"ended", "finish"}

InSlot(t) == HasTask /\ active.task = t
Lost(t) == \E s \in Turns : <<s, t>> \in evicted
Steals(t) == \E u \in Turns : <<t, u>> \in evicted

(* An actor that will start a turn has one that is allocated and new, and no    *)
(* two actors the same; an abort knows its victim. Items are in an actor's      *)
(* hands only between taking and passing them on.                               *)
Starts(a) ==
    \/ actor[a].at \in {"reserved", "prepare", "open", "fill", "install"}
    \/ actor[a].at \in {"abort", "waiting"} /\ actor[a].reason = "replaced"
ActorOK(a) ==
    /\ actor[a].at = "waiting" => actor[a].victim \in Turns
    /\ actor[a].at \in {"waiting", "reserved", "fill"} => actor[a].ts \in States
    /\ Starts(a) => /\ actor[a].turn \in Turns /\ actor[a].turn <= turns
                    /\ task[actor[a].turn].pc = "none"
    /\ a # "loop" /\ actor[a].at \in {"abort", "waiting"} => actor[a].reason = "interrupted"
    /\ actor[a].input # <<>> => Starts(a) /\ actor[a].at # "reserved"
    /\ actor[a].held # <<>> => actor[a].at \in {"open", "fill"}
Apart ==
    \A a, b \in Actors :
       /\ Starts(a) /\ Starts(b) /\ actor[a].turn = actor[b].turn => a = b
       /\ /\ actor[a].at = "waiting" /\ actor[b].at = "waiting"
          /\ actor[a].victim = actor[b].victim
          => a = b

(* Where a task is, how often its turn was reported and what it holds. A live   *)
(* task is in the slot, waited for by an abort, or was lost to another turn;    *)
(* one that is waited for and nevertheless reports has stolen another's place.  *)
TaskOK(t) ==
    /\ task[t].pc # "none" => t <= turns
    /\ task[t].pc \in Alive \cup {"none", "terminal"} => ends[t] = 0
    /\ task[t].pc = "clear" => ends[t] = 1
    /\ task[t].pc \in Alive => InSlot(t) \/ Waits(t) \/ Lost(t)
    /\ task[t].pc = "gone" /\ ends[t] = 0 => Waits(t) \/ Lost(t)
    /\ InSlot(t) => task[t].pc \in Alive /\ ~Waits(t)
    /\ Waits(t) => task[t].pc # "none"
    /\ Waits(t) /\ task[t].pc \in {"terminal", "clear"} => Steals(t)
    /\ Waits(t) /\ ends[t] # 0 => ends[t] = 1 /\ Steals(t)
    /\ ends[t] > 1 => ends[t] = 2 /\ Steals(t)
    /\ task[t].cancelled => Waits(t)
    /\ task[t].held # <<>> => task[t].pc \in {"start", "record", "terminal"}

(* Until a task is installed while another actor is busy, nobody waits for a    *)
(* task or is about to start one while the slot holds a task, and no task is    *)
(* taken out of the slot but by its own turn or by an abort.                    *)
Owning == {"waiting", "reserved", "prepare", "open", "fill", "install"}
RaceOK ==
    /\ evicted # {} => raced
    /\ raced \/ ~HasTask \/ \A a \in Actors : actor[a].at \notin Owning

Inv ==
    /\ TypeOK
    /\ \A a \in Actors : ActorOK(a)
    /\ Apart
    /\ \A t \in Turns : TaskOK(t)
    /\ RaceOK

-----------------------------------------------------------------------------
(* Types *)

LEMMA ItemSeqs ==
    ASSUME TypeOK
    PROVE  /\ mailbox \in Seq(Items)
           /\ PendingInput \in Seq(Items)
           /\ \A ts \in States : pending[ts] \in Seq(Items)
           /\ \A t \in Turns : task[t].held \in Seq(Items)
           /\ \A a \in Actors : actor[a].input \in Seq(Items) /\ actor[a].held \in Seq(Items)
           /\ active # None => active \in Slot /\ active.ts \in States
  <1>1. mailbox \in Seq(Items)
    <2>1. mailbox \in Seq(Mails) /\ Mails \subseteq Items
      BY DEF TypeOK, Items
    <2> QED
      BY <2>1
  <1>2. /\ \A ts \in States : pending[ts] \in Seq(Items)
        /\ \A t \in Turns : task[t].held \in Seq(Items)
    BY DEF TypeOK, Task
  <1>3. \A a \in Actors : actor[a].input \in Seq(Items) /\ actor[a].held \in Seq(Items)
    <2>1. \A a \in Actors : actor[a].input \in Seq(Inputs) /\ actor[a].held \in Seq(Items)
      BY DEF TypeOK, Actor
    <2>2. Inputs \subseteq Items
      BY DEF Items
    <2> QED
      BY <2>1, <2>2
  <1>4. active # None => active \in Slot /\ active.ts \in States
    BY DEF TypeOK, Slot
  <1>5. PendingInput \in Seq(Items)
    <2>1. ASSUME NEW s \in Seq(Items), NEW u \in Seq(Items)
          PROVE  s \o u \in Seq(Items)
      OBVIOUS
    <2>2. (IF active = None THEN <<>> ELSE pending[active.ts]) \in Seq(Items)
      BY <1>2, <1>4
    <2>3. (IF AcceptsMailbox THEN mailbox ELSE <<>>) \in Seq(Items)
      BY <1>1
    <2> QED
      BY <2>1, <2>2, <2>3 DEF PendingInput
  <1> QED
    BY <1>1, <1>2, <1>3, <1>4, <1>5

LEMMA MailType == ASSUME TypeOK, MailTaken PROVE mailbox' \in Seq(Mails)
  <1>1. mailbox' = <<>> \/ mailbox' = mailbox
    BY DEF MailTaken
  <1>2. <<>> \in Seq(Mails) /\ mailbox \in Seq(Mails)
    BY DEF TypeOK
  <1> QED
    BY <1>1, <1>2

LEMMA RecordType ==
    ASSUME TypeOK, NEW s, RecordItems(s)
    PROVE  history' \in [Items -> Nat]
  BY DEF TypeOK, RecordItems

LEMMA DropType ==
    ASSUME TypeOK, NEW s \in Seq(Items), Drop(s)
    PROVE  dropped' \subseteq Items
  <1>1. Range(s) \subseteq Items
    BY DEF Range
  <1> QED
    BY <1>1 DEF TypeOK, Drop

(* g is f with the task of turn t moved to pc, and s in its hands.              *)
Pcs == Running \cup Finishing \cup {"none", "gone"}

Moved(f, g, t, pc, s) ==
    /\ g \in [Turns -> Task]
    /\ g[t].pc = pc /\ g[t].held = s /\ g[t].cancelled = f[t].cancelled
    /\ \A u \in Turns \ {t} : g[u] = f[u]

LEMMA SetPc ==
    ASSUME NEW f \in [Turns -> Task], NEW t \in Turns, NEW pc \in Pcs
    PROVE  Moved(f, [f EXCEPT ![t].pc = pc], t, pc, f[t].held)
  <1>1. f[t] \in Task
    OBVIOUS
  <1>2. [f[t] EXCEPT !.pc = pc] \in Task
    BY <1>1 DEF Task, Pcs
  <1> QED
    BY <1>1, <1>2 DEF Task, Moved

LEMMA SetHeld ==
    ASSUME NEW f, NEW g, NEW t \in Turns, NEW pc \in Pcs, NEW s, Moved(f, g, t, pc, s),
           NEW r \in Seq(Items)
    PROVE  Moved(f, [g EXCEPT ![t].held = r], t, pc, r)
  <1>1. g \in [Turns -> Task] /\ g[t] \in Task
    BY DEF Moved
  <1>2. [g[t] EXCEPT !.held = r] \in Task
    BY <1>1 DEF Task
  <1> QED
    BY <1>1, <1>2 DEF Task, Moved

LEMMA SetDrain ==
    ASSUME NEW f, NEW g, NEW t \in Turns, NEW pc \in Pcs, NEW s, Moved(f, g, t, pc, s),
           NEW b \in BOOLEAN
    PROVE  Moved(f, [g EXCEPT ![t].drain = b], t, pc, s)
  <1>1. g \in [Turns -> Task] /\ g[t] \in Task
    BY DEF Moved
  <1>2. [g[t] EXCEPT !.drain = b] \in Task
    BY <1>1 DEF Task
  <1> QED
    BY <1>1, <1>2 DEF Task, Moved

LEMMA SetTs ==
    ASSUME NEW f, NEW g, NEW t \in Turns, NEW pc \in Pcs, NEW s, Moved(f, g, t, pc, s),
           NEW ts \in States \cup {None}
    PROVE  Moved(f, [g EXCEPT ![t].ts = ts], t, pc, s)
  <1>1. g \in [Turns -> Task] /\ g[t] \in Task
    BY DEF Moved
  <1>2. [g[t] EXCEPT !.ts = ts] \in Task
    BY <1>1 DEF Task
  <1> QED
    BY <1>1, <1>2 DEF Task, Moved

LEMMA SetPcHeld ==
    ASSUME NEW f \in [Turns -> Task], NEW t \in Turns, NEW pc \in Pcs,
           NEW r \in Seq(Items)
    PROVE  Moved(f, [f EXCEPT ![t].pc = pc, ![t].held = r], t, pc, r)
  <1> DEFINE g0 == [f EXCEPT ![t].pc = pc]
             g1 == [g0 EXCEPT ![t].held = r]
  <1>1. Moved(f, g0, t, pc, f[t].held)
    BY SetPc
  <1> HIDE DEF g0
  <1>2. Moved(f, g1, t, pc, r)
    BY <1>1, SetHeld
  <1> QED
    BY <1>2 DEF g0

LEMMA SetPcDrain ==
    ASSUME NEW f \in [Turns -> Task], NEW t \in Turns, NEW pc \in Pcs,
           NEW b \in BOOLEAN
    PROVE  Moved(f, [f EXCEPT ![t].pc = pc, ![t].drain = b], t, pc, f[t].held)
  <1> DEFINE g0 == [f EXCEPT ![t].pc = pc]
             g1 == [g0 EXCEPT ![t].drain = b]
  <1>1. Moved(f, g0, t, pc, f[t].held)
    BY SetPc
  <1> HIDE DEF g0
  <1>2. Moved(f, g1, t, pc, f[t].held)
    BY <1>1, SetDrain
  <1> QED
    BY <1>2 DEF g0

LEMMA SetPcDrainHeld ==
    ASSUME NEW f \in [Turns -> Task], NEW t \in Turns, NEW pc \in Pcs,
           NEW b \in BOOLEAN, NEW r \in Seq(Items)
    PROVE  Moved(f, [f EXCEPT ![t].pc = pc, ![t].drain = b, ![t].held = r], t, pc, r)
  <1> DEFINE g0 == [f EXCEPT ![t].pc = pc]
             g1 == [g0 EXCEPT ![t].drain = b]
             g2 == [g1 EXCEPT ![t].held = r]
  <1>1. Moved(f, g0, t, pc, f[t].held)
    BY SetPc
  <1> HIDE DEF g0
  <1>2. Moved(f, g1, t, pc, f[t].held)
    BY <1>1, SetDrain
  <1> HIDE DEF g1
  <1>3. Moved(f, g2, t, pc, r)
    BY <1>2, SetHeld
  <1> QED
    BY <1>3 DEF g0, g1

LEMMA SetPcHeldDrain ==
    ASSUME NEW f \in [Turns -> Task], NEW t \in Turns, NEW pc \in Pcs,
           NEW r \in Seq(Items), NEW b \in BOOLEAN
    PROVE  Moved(f, [f EXCEPT ![t].pc = pc, ![t].held = r, ![t].drain = b], t, pc, r)
  <1> DEFINE g0 == [f EXCEPT ![t].pc = pc]
             g1 == [g0 EXCEPT ![t].held = r]
             g2 == [g1 EXCEPT ![t].drain = b]
  <1>1. Moved(f, g0, t, pc, f[t].held)
    BY SetPc
  <1> HIDE DEF g0
  <1>2. Moved(f, g1, t, pc, r)
    BY <1>1, SetHeld
  <1> HIDE DEF g1
  <1>3. Moved(f, g2, t, pc, r)
    BY <1>2, SetDrain
  <1> QED
    BY <1>3 DEF g0, g1

LEMMA SetPcTsHeld ==
    ASSUME NEW f \in [Turns -> Task], NEW t \in Turns, NEW pc \in Pcs,
           NEW ts \in States \cup {None}, NEW r \in Seq(Items)
    PROVE  Moved(f, [f EXCEPT ![t].pc = pc, ![t].ts = ts, ![t].held = r], t, pc, r)
  <1> DEFINE g0 == [f EXCEPT ![t].pc = pc]
             g1 == [g0 EXCEPT ![t].ts = ts]
             g2 == [g1 EXCEPT ![t].held = r]
  <1>1. Moved(f, g0, t, pc, f[t].held)
    BY SetPc
  <1> HIDE DEF g0
  <1>2. Moved(f, g1, t, pc, f[t].held)
    BY <1>1, SetTs
  <1> HIDE DEF g1
  <1>3. Moved(f, g2, t, pc, r)
    BY <1>2, SetHeld
  <1> QED
    BY <1>3 DEF g0, g1

(* A task that is replaced by one that is gone.                                 *)
LEMMA GoneIsTask == Gone \in Task /\ Gone.pc = "gone" /\ Gone.held = <<>> /\ Gone.cancelled = FALSE
  <1>1. NoTask \in Task /\ NoTask.held = <<>> /\ NoTask.cancelled = FALSE
    BY DEF NoTask, Task
  <1>2. ASSUME NEW r \in Task
        PROVE  LET q == [r EXCEPT !.pc = "gone"]
               IN  q \in Task /\ q.pc = "gone" /\ q.held = r.held /\ q.cancelled = r.cancelled
    BY DEF Task
  <1> QED
    BY <1>1, <1>2 DEF Gone

-----------------------------------------------------------------------------
(* What a step leaves alone *)

(* A turn whose task and report do not change: it may be lost to another turn,  *)
(* and the marks only grow.                                                     *)
LEMMA TaskKept ==
    ASSUME NEW u \in Turns, TaskOK(u), task'[u] = task[u], ends'[u] = ends[u],
           turns \in Nat, turns' \in Nat, turns <= turns',
           InSlot(u)' => InSlot(u), InSlot(u) => InSlot(u)' \/ Lost(u)',
           Waits(u)' = Waits(u), evicted \subseteq evicted'
    PROVE  TaskOK(u)'
  <1>1. (Lost(u) => Lost(u)') /\ (Steals(u) => Steals(u)')
    BY DEF Lost, Steals
  <1>2. u <= turns => u <= turns'
    BY DEF Turns
  <1> QED
    BY <1>1, <1>2 DEF TaskOK

LEMMA ActorKept ==
    ASSUME NEW b \in Actors, ActorOK(b), actor'[b] = actor[b],
           turns \in Nat, turns' \in Nat, turns <= turns',
           Starts(b) => task'[actor[b].turn].pc = "none"
    PROVE  ActorOK(b)'
  <1>1. Starts(b)' = Starts(b)
    BY DEF Starts
  <1>2. actor[b].turn \in Turns /\ actor[b].turn <= turns => actor[b].turn <= turns'
    BY DEF Turns
  <1> QED
    BY <1>1, <1>2 DEF ActorOK

(* A step of a task, alive before it: the actors do not move, and the others'   *)
(* tasks stay as they are.                                                      *)
LEMMA TaskStepInv ==
    ASSUME Inv, TypeOK', NEW t \in Turns, task[t].pc # "none",
           UNCHANGED <<actor, turns>>, TaskOK(t)', RaceOK',
           \A u \in Turns \ {t} : /\ task'[u] = task[u] /\ ends'[u] = ends[u]
                                  /\ InSlot(u)' => InSlot(u)
                                  /\ InSlot(u) => InSlot(u)' \/ Lost(u)',
           evicted \subseteq evicted'
    PROVE  Inv'
  <1>1. turns \in Nat /\ turns' \in Nat /\ turns <= turns'
    BY DEF Inv, TypeOK
  <1>2. \A u : Waits(u)' = Waits(u)
    BY DEF Waits
  <1>3. ASSUME NEW u \in Turns PROVE TaskOK(u)'
    <2>1. CASE u = t
      BY <2>1
    <2>2. CASE u # t
      <3>1. TaskOK(u) /\ u \in Turns \ {t}
        BY <2>2 DEF Inv
      <3> QED
        BY <1>1, <1>2, <3>1, TaskKept
    <2> QED
      BY <2>1, <2>2
  <1>4. ASSUME NEW b \in Actors PROVE ActorOK(b)'
    <2>1. ActorOK(b)
      BY DEF Inv
    <2>2. Starts(b) => actor[b].turn \in Turns \ {t} /\ task[actor[b].turn].pc = "none"
      BY <2>1 DEF ActorOK
    <2>3. Starts(b) => task'[actor[b].turn].pc = "none"
      BY <2>2
    <2> QED
      BY <1>1, <2>1, <2>3, ActorKept
  <1>5. Apart'
    BY DEF Inv, Apart, Starts
  <1> QED
    BY <1>3, <1>4, <1>5 DEF Inv

(* A running task goes on, or comes to its end.                                 *)
LEMMA RunsOn ==
    ASSUME Inv, TypeOK', NEW t \in Turns, task[t].pc \in Running,
           NEW pc \in Alive, NEW s, Moved(task, task', t, pc, s),
           s # <<>> => pc \in {"start", "record"},
           UNCHANGED <<active, actor, ends, turns, evicted, raced>>
    PROVE  Inv'
  <1>1. /\ task'[t].pc = pc /\ task'[t].cancelled = task[t].cancelled
        /\ task'[t].held = s /\ \A u \in Turns \ {t} : task'[u] = task[u]
    BY DEF Moved
  <1>2. \A u : /\ InSlot(u)' = InSlot(u) /\ Waits(u)' = Waits(u)
               /\ Lost(u)' = Lost(u) /\ Steals(u)' = Steals(u)
    BY DEF Waits, InSlot, HasTask, Lost, Steals
  <1>3. RaceOK'
    BY DEF Inv, RaceOK, HasTask
  <1>4. TaskOK(t)'
    <2>1. TaskOK(t) /\ task[t].pc \in Alive /\ task[t].pc # "none"
      BY DEF Inv, Alive, Running
    <2>2. pc \notin {"none", "gone", "terminal", "clear"}
      BY DEF Alive, Running
    <2> QED
      BY <1>1, <1>2, <2>1, <2>2 DEF TaskOK
  <1>5. task[t].pc # "none"
    BY DEF Running
  <1> QED
    BY <1>1, <1>2, <1>3, <1>4, <1>5, TaskStepInv

-----------------------------------------------------------------------------
(* Steps of one task *)

(* The task records or drops what it holds, or takes what waits.                *)
LEMMA StartTaskInv == ASSUME Inv, NEW t \in Turns, StartTask(t) PROVE Inv'
  <1> DEFINE p == IF task[t].kind = "other" THEN "ended" ELSE "top"
             b == (task[t].held = <<>>)
  <1>1. task \in [Turns -> Task] /\ p \in Pcs /\ p \in Alive /\ b \in BOOLEAN
        /\ <<>> \in Seq(Items) /\ task[t].pc \in Running
    BY DEF Inv, TypeOK, Pcs, Running, Finishing, Alive, StartTask, At
  <1>2. task' = [task EXCEPT ![t].pc = p, ![t].drain = b, ![t].held = <<>>]
    BY DEF StartTask
  <1> HIDE DEF p, b
  <1>3. Moved(task, task', t, p, <<>>)
    BY <1>1, <1>2, SetPcDrainHeld
  <1>4. history' \in [Items -> Nat]
    BY RecordType DEF StartTask, Inv
  <1>5. UNCHANGED <<active, pending, deferred, mailbox, actor, ends, dropped, sent, turns,
                    evicted, raced>>
    BY DEF StartTask, marks
  <1>6. TypeOK'
    BY <1>3, <1>4, <1>5 DEF Inv, TypeOK, Moved
  <1> QED
    BY <1>1, <1>3, <1>5, <1>6, RunsOn

LEMMA GivesUpInv ==
    ASSUME Inv, NEW t \in Turns, StartFails(t) \/ ObserveCancel(t)
    PROVE  Inv'
  <1>1. /\ task \in [Turns -> Task] /\ {"check", "ended"} \subseteq Pcs \cap Alive
        /\ <<>> \in Seq(Items) /\ task[t].pc \in Running /\ task[t].held \in Seq(Items)
    BY ItemSeqs DEF Inv, TypeOK, Pcs, Running, Finishing, Alive, StartFails, ObserveCancel, At
  <1>2. UNCHANGED <<active, pending, deferred, mailbox, actor, ends, history, sent, turns,
                    evicted, raced>>
    BY DEF StartFails, ObserveCancel, marks
  <1>3. PICK pc \in {"check", "ended"} : task' = [task EXCEPT ![t].pc = pc, ![t].held = <<>>]
    BY DEF StartFails, ObserveCancel
  <1>4. Moved(task, task', t, pc, <<>>)
    BY <1>1, <1>3, SetPcHeld
  <1>5. dropped' \subseteq Items
    BY <1>1, DropType DEF StartFails, ObserveCancel, Inv
  <1>6. TypeOK'
    BY <1>2, <1>4, <1>5 DEF Inv, TypeOK, Moved
  <1> QED
    BY <1>1, <1>2, <1>4, <1>6, RunsOn

LEMMA DrainInputInv == ASSUME Inv, NEW t \in Turns, DrainInput(t) PROVE Inv'
  <1>1. /\ task \in [Turns -> Task] /\ "record" \in Pcs /\ "record" \in Alive
        /\ task[t].pc \in Running /\ PendingInput \in Seq(Items)
        /\ active # None => active.ts \in States
    BY ItemSeqs DEF Inv, TypeOK, Pcs, Running, Alive, DrainInput, At
  <1>2. UNCHANGED <<active, deferred, actor, ends, history, dropped, sent, turns,
                    evicted, raced>>
    BY DEF DrainInput, marks
  <1>3. PICK s : Moved(task, task', t, "record", s)
    <2>1. \/ task' = [task EXCEPT ![t].pc = "record", ![t].held = PendingInput]
          \/ task' = [task EXCEPT ![t].pc = "record"]
      BY DEF DrainInput, Go
    <2>2. CASE task' = [task EXCEPT ![t].pc = "record", ![t].held = PendingInput]
      BY <1>1, <2>2, SetPcHeld
    <2>3. CASE task' = [task EXCEPT ![t].pc = "record"]
      BY <1>1, <2>3, SetPc
    <2> QED
      BY <2>1, <2>2, <2>3
  <1>4. pending' \in [States -> Seq(Items)]
    <2>1. pending' = pending \/ pending' = [pending EXCEPT ![active.ts] = <<>>]
      BY DEF DrainInput
    <2>2. <<>> \in Seq(Items)
      OBVIOUS
    <2> QED
      BY <2>1, <2>2 DEF Inv, TypeOK
  <1>5. mailbox' \in Seq(Mails)
    BY MailType DEF DrainInput, Inv, TypeOK
  <1>6. TypeOK'
    BY <1>2, <1>3, <1>4, <1>5 DEF Inv, TypeOK, Moved
  <1> QED
    BY <1>1, <1>2, <1>3, <1>6, RunsOn

LEMMA RecordInputInv == ASSUME Inv, NEW t \in Turns, RecordInput(t) PROVE Inv'
  <1>1. /\ task \in [Turns -> Task] /\ "sample" \in Pcs /\ "sample" \in Alive
        /\ <<>> \in Seq(Items) /\ task[t].pc \in Running
    BY DEF Inv, TypeOK, Pcs, Running, Alive, RecordInput, At
  <1>2. /\ task' = [task EXCEPT ![t].pc = "sample", ![t].held = <<>>, ![t].drain = FALSE]
        /\ UNCHANGED <<active, pending, deferred, mailbox, actor, ends, dropped, sent, turns,
                       evicted, raced>>
    BY DEF RecordInput, marks
  <1>3. Moved(task, task', t, "sample", <<>>)
    BY <1>1, <1>2, SetPcHeldDrain
  <1>4. history' \in [Items -> Nat]
    BY RecordType DEF RecordInput, Inv
  <1>5. TypeOK'
    BY <1>2, <1>3, <1>4 DEF Inv, TypeOK, Moved
  <1> QED
    BY <1>1, <1>2, <1>3, <1>5, RunsOn

(* A task between recording and its end holds nothing.                          *)
LEMMA EmptyHands ==
    ASSUME Inv, NEW t \in Turns,
           task[t].pc \notin {"start", "record", "terminal"}
    PROVE  task[t].held = <<>>
  BY DEF Inv, TaskOK

(* The model answers or calls a tool.                                           *)
LEMMA SampledInv == ASSUME Inv, NEW t \in Turns, Answer(t) \/ CallTool(t) PROVE Inv'
  <1>1. /\ task \in [Turns -> Task] /\ {"sampled", "top"} \subseteq Pcs \cap Alive
        /\ task[t].pc = "sample" /\ task[t].pc \in Running
    BY DEF Inv, TypeOK, Pcs, Running, Alive, Answer, CallTool, At
  <1>2. UNCHANGED <<active, pending, mailbox, actor, ends, history, dropped, sent, turns,
                    evicted, raced>>
    BY DEF Answer, CallTool, marks
  <1>3. PICK pc \in {"sampled", "top"} : Moved(task, task', t, pc, task[t].held)
    <2>1. CASE Answer(t)
      BY <1>1, <2>1, SetPc DEF Answer, Go
    <2>2. CASE CallTool(t)
      <3>1. PICK b \in BOOLEAN : task' = [task EXCEPT ![t].pc = "top", ![t].drain = b]
        BY <2>2 DEF CallTool
      <3> QED
        BY <1>1, <3>1, SetPcDrain
    <2> QED
      BY <2>1, <2>2
  <1>4. deferred' \in [States -> BOOLEAN]
    <2>1. deferred' = deferred \/ \E b \in BOOLEAN : deferred' = [deferred EXCEPT ![active.ts] = b]
      BY DEF Answer, CallTool
    <2> QED
      BY <2>1 DEF Inv, TypeOK
  <1>5. TypeOK'
    BY <1>2, <1>3, <1>4 DEF Inv, TypeOK, Moved
  <1>6. task[t].held = <<>>
    BY <1>1, EmptyHands
  <1> QED
    BY <1>1, <1>2, <1>3, <1>5, <1>6, RunsOn

(* After the answer, after a failure, and before the next run of the turn.      *)
LEMMA GoesOnInv ==
    ASSUME Inv, NEW t \in Turns, AfterAnswer(t) \/ SampleFails(t) \/ CheckPending(t)
    PROVE  Inv'
  <1>1. /\ task \in [Turns -> Task] /\ {"top", "check", "start", "ended"} \subseteq Pcs \cap Alive
        /\ task[t].pc \in {"sampled", "sample", "check"} /\ HasPendingInput \in BOOLEAN
    BY DEF Inv, TypeOK, Pcs, Running, Finishing, Alive, AfterAnswer, SampleFails,
           CheckPending, At, HasPendingInput
  <1>2. UNCHANGED <<active, pending, deferred, mailbox, actor, ends, history, dropped,
                    sent, turns, evicted, raced>>
    BY DEF AfterAnswer, SampleFails, CheckPending, marks
  <1>3. PICK pc \in {"top", "check", "start", "ended"} : Moved(task, task', t, pc, task[t].held)
    <2>1. CASE AfterAnswer(t)
      <3>1. PICK pc \in {"top", "check"} :
               task' = [task EXCEPT ![t].pc = pc, ![t].drain = HasPendingInput]
        BY <2>1 DEF AfterAnswer
      <3> QED
        BY <1>1, <3>1, SetPcDrain
    <2>2. CASE SampleFails(t) \/ CheckPending(t)
      <3>1. PICK pc \in {"check", "start", "ended"} : task' = [task EXCEPT ![t].pc = pc]
        BY <2>2 DEF SampleFails, CheckPending, Go
      <3> QED
        BY <1>1, <3>1, SetPc
    <2> QED
      BY <2>1, <2>2
  <1>4. TypeOK'
    BY <1>2, <1>3 DEF Inv, TypeOK, Moved
  <1>5. task[t].held = <<>> /\ task[t].pc \in Running
    BY <1>1, EmptyHands DEF Running
  <1> QED
    BY <1>1, <1>2, <1>3, <1>4, <1>5, RunsOn

(* A task that ends: a cancelled one is gone, and the abort waits for it; the   *)
(* other goes on to report.                                                     *)
LEMMA EndTaskInv == ASSUME Inv, NEW t \in Turns, EndTask(t) PROVE Inv'
  <1>1. /\ task \in [Turns -> Task] /\ task[t].pc = "ended" /\ TaskOK(t) /\ RaceOK
        /\ "finish" \in Pcs
    BY DEF Inv, TypeOK, EndTask, At, Pcs, Finishing
  <1>2. UNCHANGED <<active, pending, deferred, mailbox, actor, ends, history, dropped,
                    sent, turns, evicted, raced>>
    BY DEF EndTask, marks
  <1>3. \A u : /\ InSlot(u)' = InSlot(u) /\ Waits(u)' = Waits(u)
               /\ Lost(u)' = Lost(u) /\ Steals(u)' = Steals(u)
    BY <1>2 DEF Waits, InSlot, HasTask, Lost, Steals
  <1>4. RaceOK'
    BY <1>1, <1>2 DEF RaceOK, HasTask
  <1>5. CASE task[t].cancelled
    <2>1. task' = [task EXCEPT ![t] = Gone]
      BY <1>1, <1>5 DEF EndTask
    <2>2. /\ task' \in [Turns -> Task] /\ task'[t] = Gone
          /\ \A u \in Turns \ {t} : task'[u] = task[u]
      BY <1>1, <2>1, GoneIsTask
    <2>3. TypeOK'
      BY <1>2, <2>2 DEF Inv, TypeOK
    <2>4. Waits(t) /\ ~InSlot(t) /\ ends[t] = 0
      BY <1>1, <1>5 DEF TaskOK, Alive
    <2>5. TaskOK(t)'
      BY <1>1, <1>2, <1>3, <2>2, <2>4, GoneIsTask DEF TaskOK, Alive, Running
    <2> QED
      BY <1>1, <1>2, <1>3, <1>4, <2>2, <2>3, <2>5, TaskStepInv
  <1>6. CASE ~task[t].cancelled
    <2>1. task' = [task EXCEPT ![t].pc = "finish"]
      BY <1>1, <1>6 DEF EndTask
    <2>2. Moved(task, task', t, "finish", task[t].held)
      BY <1>1, <2>1, SetPc
    <2>3. TypeOK'
      BY <1>2, <2>2 DEF Inv, TypeOK, Moved
    <2>4. TaskOK(t)'
      BY <1>1, <1>2, <1>3, <2>2 DEF TaskOK, Alive, Running, Moved
    <2>5. \A u \in Turns \ {t} : task'[u] = task[u]
      BY <2>2 DEF Moved
    <2> QED
      BY <1>1, <1>2, <1>3, <1>4, <2>3, <2>4, <2>5, TaskStepInv
  <1> QED
    BY <1>5, <1>6

(* on_task_finished: the task in the slot is the turn's own or another's, which *)
(* is lost; the turn that takes it goes on to report.                           *)
LEMMA TakeTaskInv == ASSUME Inv, NEW t \in Turns, TakeTask(t) PROVE Inv'
  <1>1. /\ task \in [Turns -> Task] /\ task[t].pc = "finish" /\ TaskOK(t) /\ RaceOK
        /\ "terminal" \in Pcs
    BY DEF Inv, TypeOK, TakeTask, At, Pcs, Finishing
  <1>2. UNCHANGED <<deferred, mailbox, actor, ends, history, dropped, sent, turns, raced>>
    BY DEF TakeTask
  <1>3. \A u : Waits(u)' = Waits(u)
    BY <1>2 DEF Waits
  <1>4. CASE HasTask
    <2>1. /\ active' = [active EXCEPT !.task = None]
          /\ task' = [task EXCEPT ![t].pc = "terminal", ![t].ts = active.ts,
                                  ![t].held = pending[active.ts]]
          /\ pending' = [pending EXCEPT ![active.ts] = <<>>]
          /\ evicted' = IF active.task = t THEN evicted
                        ELSE evicted \cup {<<t, active.task>>}
      BY <1>4 DEF TakeTask
    <2>2. active \in Slot /\ active.ts \in States /\ pending[active.ts] \in Seq(Items)
      BY <1>4, ItemSeqs DEF Inv, HasTask
    <2>3. Moved(task, task', t, "terminal", pending[active.ts])
      BY <1>1, <2>1, <2>2, SetPcTsHeld
    <2>4. active' \in Slot /\ active'.task = None /\ active.task \in Turns
      BY <1>4, <2>1, <2>2 DEF Slot, HasTask
    <2>5. ~HasTask' /\ \A u : ~InSlot(u)'
      BY <2>4 DEF HasTask, InSlot
    <2>6. /\ evicted \subseteq evicted' /\ evicted' \subseteq Turns \X Turns
          /\ active.task # t => <<t, active.task>> \in evicted'
      BY <2>1, <2>4 DEF Inv, TypeOK
    <2>7. pending' \in [States -> Seq(Items)]
      <3>1. <<>> \in Seq(Items) /\ pending \in [States -> Seq(Items)]
        BY DEF Inv, TypeOK
      <3> QED
        BY <2>1, <3>1
    <2>8. TypeOK'
      BY <1>2, <2>3, <2>4, <2>6, <2>7 DEF Inv, TypeOK, Moved
    <2>9. evicted' # {} => raced
      <3>1. CASE active.task = t
        BY <1>1, <2>1, <3>1 DEF RaceOK
      <3>2. CASE active.task # t
        (* The turn is waited for or lost, and the slot holds a task.           *)
        <4>1. ~InSlot(t)
          BY <3>2 DEF InSlot
        <4>2. Waits(t) \/ Lost(t)
          BY <1>1, <4>1 DEF TaskOK, Alive
        <4>3. Lost(t) => raced
          BY <1>1 DEF Lost, RaceOK
        <4>4. Waits(t) => raced
          BY <1>1, <1>4 DEF Waits, RaceOK, Owning
        <4> QED
          BY <4>2, <4>3, <4>4
      <3> QED
        BY <3>1, <3>2
    <2>10. RaceOK'
      BY <1>2, <2>5, <2>9 DEF RaceOK
    <2>11. \A u \in Turns : active.task = u /\ u # t => Lost(u)'
      BY <2>4, <2>6 DEF Lost
    <2>12. (Steals(t) => Steals(t)') /\ (active.task # t => Steals(t)')
      BY <2>4, <2>6 DEF Steals
    <2>13. TaskOK(t)'
      <3>1. Waits(t) => Steals(t)'
        <4>1. Waits(t) => ~InSlot(t)
          BY <1>1 DEF TaskOK
        <4>2. active.task = t => InSlot(t)
          BY <1>4 DEF InSlot
        <4> QED
          BY <2>12, <4>1, <4>2
      <3>2. ends[t] = 0 /\ ends'[t] = 0
        BY <1>1, <1>2 DEF TaskOK, Alive
      <3>3. task'[t].pc = "terminal" /\ task'[t].cancelled = task[t].cancelled
        BY <2>3 DEF Moved
      <3> QED
        BY <1>1, <1>2, <1>3, <2>5, <3>1, <3>2, <3>3 DEF TaskOK, Alive, Running
    <2>14. \A u \in Turns \ {t} : /\ task'[u] = task[u] /\ ends'[u] = ends[u]
                                  /\ InSlot(u)' => InSlot(u)
                                  /\ InSlot(u) => InSlot(u)' \/ Lost(u)'
      BY <1>2, <2>3, <2>5, <2>11 DEF Moved, InSlot
    <2>15. task[t].pc # "none" /\ UNCHANGED <<actor, turns>>
      BY <1>1, <1>2
    <2> QED
      BY <2>6, <2>8, <2>10, <2>13, <2>14, <2>15, TaskStepInv
  <1>5. CASE ~HasTask
    <2>1. task' = [task EXCEPT ![t] = Gone] /\ UNCHANGED <<active, pending, evicted>>
      BY <1>5 DEF TakeTask
    <2>2. /\ task' \in [Turns -> Task] /\ task'[t] = Gone
          /\ \A u \in Turns \ {t} : task'[u] = task[u]
      BY <1>1, <2>1, GoneIsTask
    <2>3. TypeOK'
      BY <1>2, <2>1, <2>2 DEF Inv, TypeOK
    <2>4. \A u : /\ InSlot(u)' = InSlot(u) /\ Lost(u)' = Lost(u) /\ Steals(u)' = Steals(u)
      BY <2>1 DEF InSlot, HasTask, Lost, Steals
    <2>5. (Waits(t) \/ Lost(t)) /\ ~InSlot(t) /\ ends[t] = 0
      BY <1>1, <1>5 DEF TaskOK, Alive, InSlot
    <2>6. TaskOK(t)'
      BY <1>1, <1>2, <1>3, <2>2, <2>4, <2>5, GoneIsTask DEF TaskOK, Alive, Running
    <2>7. RaceOK'
      BY <1>1, <1>2, <2>1 DEF RaceOK, HasTask
    <2> QED
      BY <1>1, <1>2, <2>1, <2>2, <2>3, <2>4, <2>6, <2>7, TaskStepInv
  <1> QED
    BY <1>4, <1>5

LEMMA SendTerminalInv == ASSUME Inv, NEW t \in Turns, SendTerminal(t) PROVE Inv'
  <1>1. /\ task \in [Turns -> Task] /\ task[t].pc = "terminal" /\ TaskOK(t) /\ RaceOK
        /\ "clear" \in Pcs /\ <<>> \in Seq(Items) /\ ends \in [Turns -> Nat]
    BY DEF Inv, TypeOK, SendTerminal, At, Pcs, Finishing
  <1>2. /\ UNCHANGED <<active, pending, deferred, mailbox, actor, dropped, sent, turns,
                       evicted, raced>>
        /\ task' = [task EXCEPT ![t].pc = "clear", ![t].held = <<>>]
        /\ ends' = [ends EXCEPT ![t] = @ + 1]
    BY DEF SendTerminal, marks
  <1>3. \A u : /\ InSlot(u)' = InSlot(u) /\ Waits(u)' = Waits(u)
               /\ Lost(u)' = Lost(u) /\ Steals(u)' = Steals(u)
    BY <1>2 DEF Waits, InSlot, HasTask, Lost, Steals
  <1>4. RaceOK'
    BY <1>1, <1>2 DEF RaceOK, HasTask
  <1>5. Moved(task, task', t, "clear", <<>>)
    BY <1>1, <1>2, SetPcHeld
  <1>6. history' \in [Items -> Nat]
    BY RecordType DEF SendTerminal, Inv
  <1>7. /\ ends' \in [Turns -> Nat] /\ ends[t] = 0 /\ ends'[t] = 1
        /\ \A u \in Turns \ {t} : ends'[u] = ends[u]
    BY <1>1, <1>2 DEF TaskOK
  <1>8. TypeOK'
    BY <1>2, <1>5, <1>6, <1>7 DEF Inv, TypeOK, Moved
  <1>9. TaskOK(t)'
    BY <1>1, <1>2, <1>3, <1>5, <1>7 DEF TaskOK, Alive, Running, Moved
  <1>10. \A u \in Turns \ {t} : task'[u] = task[u]
    BY <1>5 DEF Moved
  <1> QED
    BY <1>1, <1>2, <1>3, <1>4, <1>7, <1>8, <1>9, <1>10, TaskStepInv

LEMMA ClearActiveTurnInv == ASSUME Inv, NEW t \in Turns, ClearActiveTurn(t) PROVE Inv'
  <1>1. /\ task \in [Turns -> Task] /\ task[t].pc = "clear" /\ TaskOK(t) /\ RaceOK
    BY DEF Inv, TypeOK, ClearActiveTurn, At
  <1>2. /\ UNCHANGED <<pending, deferred, mailbox, actor, ends, history, dropped, sent, turns,
                       evicted, raced>>
        /\ task' = [task EXCEPT ![t] = Gone]
        /\ active' = active \/ (active' = None /\ active # None /\ active.task = None)
    BY DEF ClearActiveTurn, marks
  <1>3. HasTask' = HasTask
    BY <1>2 DEF HasTask
  <1>4. \A u : /\ InSlot(u)' = InSlot(u) /\ Waits(u)' = Waits(u)
               /\ Lost(u)' = Lost(u) /\ Steals(u)' = Steals(u)
    BY <1>2 DEF Waits, InSlot, HasTask, Lost, Steals
  <1>5. RaceOK'
    BY <1>1, <1>2, <1>3 DEF RaceOK
  <1>6. /\ task' \in [Turns -> Task] /\ task'[t] = Gone
        /\ \A u \in Turns \ {t} : task'[u] = task[u]
    BY <1>1, <1>2, GoneIsTask
  <1>7. TypeOK'
    BY <1>2, <1>6 DEF Inv, TypeOK
  <1>8. TaskOK(t)'
    BY <1>1, <1>2, <1>4, <1>6, GoneIsTask DEF TaskOK, Alive, Running
  <1> QED
    BY <1>1, <1>2, <1>4, <1>5, <1>6, <1>7, <1>8, TaskStepInv

-----------------------------------------------------------------------------
(* Steps that leave the tasks and the actors alone *)

LEMMA StillInv ==
    ASSUME Inv, TypeOK', UNCHANGED <<active, task, actor, ends, turns, evicted, raced>>
    PROVE  Inv'
  <1>1. \A a \in Actors : Starts(a)' = Starts(a)
    BY DEF Starts
  <1>2. \A t : /\ InSlot(t)' = InSlot(t) /\ Waits(t)' = Waits(t)
               /\ Lost(t)' = Lost(t) /\ Steals(t)' = Steals(t)
    BY DEF Waits, InSlot, HasTask, Lost, Steals
  <1>3. \A a \in Actors : ActorOK(a)'
    BY <1>1 DEF Inv, ActorOK
  <1>4. \A t \in Turns : TaskOK(t)'
    BY <1>2 DEF Inv, TaskOK
  <1>5. Apart' /\ RaceOK'
    BY <1>1 DEF Inv, Apart, RaceOK, HasTask
  <1> QED
    BY <1>3, <1>4, <1>5 DEF Inv

(* Input that steers the active task.                                           *)
LEMMA SteerInInv ==
    ASSUME Inv, NEW u \in Inputs, SteerIn(u), sent' = sent \cup {u},
           UNCHANGED <<active, mailbox, task, ends, history, dropped, marks>>
    PROVE  Inv'
  <1>1. UNCHANGED <<active, mailbox, task, actor, ends, history, dropped, turns, evicted, raced>>
    BY DEF SteerIn, marks
  <1>2. active.ts \in States /\ u \in Items /\ pending[active.ts] \in Seq(Items)
    BY ItemSeqs DEF Inv, SteerIn, HasTask, Items
  <1>3. Append(pending[active.ts], u) \in Seq(Items)
    BY <1>2
  <1>4. /\ pending' = [pending EXCEPT ![active.ts] = Append(pending[active.ts], u)]
        /\ deferred' = [deferred EXCEPT ![active.ts] = FALSE]
    BY <1>2 DEF SteerIn, Inv, TypeOK
  <1>5. pending' \in [States -> Seq(Items)] /\ deferred' \in [States -> BOOLEAN]
    BY <1>2, <1>3, <1>4 DEF Inv, TypeOK
  <1>6. TypeOK'
    BY <1>1, <1>2, <1>5 DEF Inv, TypeOK
  <1> QED
    BY <1>1, <1>6, StillInv

LEMMA InjectInv == ASSUME Inv, NEW i \in Notes, InjectNoNewTurn(i) PROVE Inv'
  <1>1. UNCHANGED <<active, deferred, mailbox, task, actor, ends, dropped, turns,
                    evicted, raced>>
    BY DEF InjectNoNewTurn, marks
  <1>2. i \in Items /\ sent' = sent \cup {i}
    BY DEF InjectNoNewTurn, Items
  <1>3. CASE active # None
    <2>1. pending[active.ts] \in Seq(Items) /\ active.ts \in States
      BY <1>3, ItemSeqs DEF Inv
    <2>2. Append(pending[active.ts], i) \in Seq(Items)
      BY <1>2, <2>1
    <2>3. /\ pending' = [pending EXCEPT ![active.ts] = Append(pending[active.ts], i)]
          /\ history' = history
      BY <1>3, <2>1 DEF InjectNoNewTurn, Inv, TypeOK
    <2>4. pending' \in [States -> Seq(Items)]
      BY <2>1, <2>2, <2>3 DEF Inv, TypeOK
    <2>5. TypeOK'
      BY <1>1, <1>2, <2>3, <2>4 DEF Inv, TypeOK
    <2> QED
      BY <1>1, <2>5, StillInv
  <1>4. CASE active = None
    <2>1. history' \in [Items -> Nat] /\ pending' = pending
      BY <1>4, RecordType DEF InjectNoNewTurn, Inv
    <2>2. TypeOK'
      BY <1>1, <1>2, <2>1 DEF Inv, TypeOK
    <2> QED
      BY <1>1, <2>2, StillInv
  <1> QED
    BY <1>3, <1>4

-----------------------------------------------------------------------------
(* Steps of one actor *)

(* What an actor does leaves the other actors alone; a turn it begins to start  *)
(* is its own.                                                                  *)
OnlyActor(a) == /\ actor' \in [Actors -> Actor]
                /\ \A b \in Actors \ {a} : actor'[b] = actor[b]

LEMMA ActorStepInv ==
    ASSUME Inv, TypeOK', NEW a \in Actors, OnlyActor(a), ActorOK(a)', turns <= turns',
           \A b \in Actors \ {a} : Starts(b) => task'[actor[b].turn].pc = "none",
           Starts(a)' => (Starts(a) /\ actor'[a].turn = actor[a].turn) \/ actor'[a].turn > turns,
           actor'[a].at = "waiting" => ~Waits(actor'[a].victim),
           \A t \in Turns : TaskOK(t)',
           RaceOK'
    PROVE  Inv'
  <1>1. turns \in Nat /\ turns' \in Nat
    BY DEF Inv, TypeOK
  <1>2. \A b \in Actors \ {a} : actor'[b] = actor[b] /\ Starts(b)' = Starts(b)
    BY DEF OnlyActor, Starts
  <1>3. ASSUME NEW b \in Actors PROVE ActorOK(b)'
    <2>1. CASE b = a
      BY <2>1
    <2>2. CASE b # a
      <3>1. ActorOK(b)
        BY DEF Inv
      <3> QED
        BY <1>1, <1>2, <2>2, <3>1, ActorKept
    <2> QED
      BY <2>1, <2>2
  <1>4. ASSUME NEW b \in Actors, NEW c \in Actors, b # c
        PROVE  /\ Starts(b)' /\ Starts(c)' => actor'[b].turn # actor'[c].turn
               /\ actor'[b].at = "waiting" /\ actor'[c].at = "waiting"
                  => actor'[b].victim # actor'[c].victim
    <2>1. ASSUME NEW d \in Actors \ {a}
          PROVE  /\ Starts(a)' /\ Starts(d)' => actor'[a].turn # actor'[d].turn
                 /\ actor'[a].at = "waiting" /\ actor'[d].at = "waiting"
                    => actor'[a].victim # actor'[d].victim
      <3>1. Starts(d) => actor[d].turn \in Turns /\ actor[d].turn <= turns
        BY DEF Inv, ActorOK
      <3>2. Starts(a) /\ Starts(d) => actor[a].turn # actor[d].turn
        BY DEF Inv, Apart
      <3>3. Starts(d) => ~(actor[d].turn > turns)
        BY <1>1, <3>1 DEF Turns
      <3>4. Starts(a)' /\ Starts(d)' => actor'[a].turn # actor'[d].turn
        BY <1>2, <3>1, <3>2, <3>3
      <3>5. actor'[a].at = "waiting" /\ actor'[d].at = "waiting"
                    => actor'[a].victim # actor'[d].victim
        BY <1>2 DEF Waits
      <3> QED
        BY <3>4, <3>5
    <2>2. CASE b = a
      BY <1>4, <2>1, <2>2
    <2>3. CASE c = a
      BY <1>4, <2>1, <2>3
    <2>4. CASE b # a /\ c # a
      <3>1. b \in Actors \ {a} /\ c \in Actors \ {a}
        BY <2>4
      <3> QED
        BY <1>2, <1>4, <3>1 DEF Inv, Apart
    <2> QED
      BY <2>2, <2>3, <2>4
  <1>5. Apart'
    BY <1>4 DEF Apart
  <1> QED
    BY <1>3, <1>5 DEF Inv

(* One that neither waits for a task nor moves one.                             *)
LEMMA ActorQuietInv ==
    ASSUME Inv, TypeOK', NEW a \in Actors, OnlyActor(a), ActorOK(a)', turns <= turns',
           UNCHANGED <<task, ends, evicted, raced>>,
           HasTask' = HasTask, HasTask => active'.task = active.task,
           actor[a].at # "waiting", actor'[a].at # "waiting",
           Starts(a)' => (Starts(a) /\ actor'[a].turn = actor[a].turn) \/ actor'[a].turn > turns,
           actor'[a].at \in Owning => actor[a].at \in Owning \/ ~HasTask
    PROVE  Inv'
  <1>1. turns \in Nat /\ turns' \in Nat
    BY DEF Inv, TypeOK
  <1>2. \A t \in Turns : InSlot(t)' = InSlot(t) /\ Waits(t)' = Waits(t)
    <2>1. ASSUME NEW t \in Turns PROVE Waits(t)' = Waits(t)
      BY DEF Waits, OnlyActor
    <2>2. ASSUME NEW t \in Turns PROVE InSlot(t)' = InSlot(t)
      BY DEF InSlot
    <2> QED
      BY <2>1, <2>2
  <1>3. ASSUME NEW t \in Turns PROVE TaskOK(t)'
    <2>1. TaskOK(t)
      BY DEF Inv
    <2> QED
      BY <1>1, <1>2, <2>1, TaskKept
  <1>4. RaceOK'
    <2>1. RaceOK
      BY DEF Inv
    <2> QED
      BY <2>1 DEF RaceOK, OnlyActor
  <1>5. \A b \in Actors \ {a} : Starts(b) => task'[actor[b].turn].pc = "none"
    BY DEF Inv, ActorOK
  <1> QED
    BY <1>3, <1>4, <1>5, ActorStepInv

(* The records of the actors.                                                   *)
LEMMA IdleIsActor ==
    /\ Idle \in Actor /\ Idle.at = "idle" /\ Idle.turn = None /\ Idle.victim = None
    /\ Idle.ts = None /\ Idle.input = <<>> /\ Idle.held = <<>> /\ Idle.reason = "replaced"
  BY DEF Idle, Actor

LEMMA OneActor ==
    ASSUME TypeOK, NEW a \in Actors, NEW r \in Actor, actor' = [actor EXCEPT ![a] = r]
    PROVE  OnlyActor(a) /\ actor'[a] = r
  BY DEF TypeOK, OnlyActor

(* An actor that does not start a turn and waits for nothing.                   *)
LEMMA IdlerOK ==
    ASSUME TypeOK, NEW a \in Actors, NEW at \in {"idle", "wake", "reserve"},
           actor' = [actor EXCEPT ![a] = [Idle EXCEPT !.at = at]]
    PROVE  OnlyActor(a) /\ actor'[a].at = at /\ ~Starts(a)' /\ ActorOK(a)'
  <1> DEFINE r == [Idle EXCEPT !.at = at]
  <1>1. r \in Actor /\ r.at = at /\ r.input = <<>> /\ r.held = <<>>
    <2>1. ASSUME NEW q \in Actor
          PROVE  LET s == [q EXCEPT !.at = at]
                 IN  s \in Actor /\ s.at = at /\ s.input = q.input /\ s.held = q.held
      BY DEF Actor
    <2> QED
      BY <2>1, IdleIsActor
  <1> HIDE DEF r
  <1>2. OnlyActor(a) /\ actor'[a] = r
    BY <1>1, OneActor DEF r
  <1>3. ~Starts(a)'
    BY <1>1, <1>2 DEF Starts
  <1> QED
    BY <1>1, <1>2, <1>3 DEF ActorOK

LEMMA IdleAgain == Idle = [Idle EXCEPT !.at = "idle"]
  BY DEF Idle

(* An actor that keeps its turn and moves to another step of its start.         *)
LEMMA MovesOn ==
    ASSUME TypeOK, NEW a \in Actors, NEW r \in Actor, actor' = [actor EXCEPT ![a] = r],
           ActorOK(a), Starts(a), UNCHANGED <<task, turns>>,
           r.turn = actor[a].turn, r.at \in {"prepare", "open", "fill", "install"},
           r.at = "fill" => r.ts \in States,
           r.held # <<>> => r.at \in {"open", "fill"}
    PROVE  OnlyActor(a) /\ Starts(a)' /\ ActorOK(a)' /\ actor'[a] = r
  <1>1. OnlyActor(a) /\ actor'[a] = r
    BY OneActor
  <1>2. Starts(a)'
    BY <1>1 DEF Starts
  <1> QED
    BY <1>1, <1>2 DEF ActorOK

(* The loop begins to replace the active turn.                                  *)
LEMMA SpawnInv ==
    ASSUME Inv, MayAct("loop"), NEW s \in Seq(Inputs), NEW k \in {"regular", "other"},
           Spawn(s, k), sent' \subseteq Items,
           UNCHANGED <<active, pending, deferred, mailbox, task, ends, history, dropped,
                       evicted, raced>>
    PROVE  Inv'
  <1> DEFINE t == turns + 1
             r == [Idle EXCEPT !.at = "abort", !.turn = t, !.input = s, !.kind = k]
  <1>1. turns \in Nat /\ t \in Turns /\ turns' = t /\ t > turns /\ turns' \in 0 .. MaxTurns
    BY DEF Inv, TypeOK, Spawn, Turns
  <1>2. actor' = [actor EXCEPT !["loop"] = r] /\ "loop" \in Actors
    BY DEF Spawn, Actors
  <1>3. r \in Actor /\ r.at = "abort" /\ r.turn = t /\ r.held = <<>>
    <2>1. ASSUME NEW q \in Actor
          PROVE  LET p == [q EXCEPT !.at = "abort", !.turn = t, !.input = s, !.kind = k]
                 IN  p \in Actor /\ p.at = "abort" /\ p.turn = t /\ p.held = q.held
      BY <1>1 DEF Actor
    <2> QED
      BY <2>1, IdleIsActor
  <1>4. r.reason = "replaced"
    BY DEF Idle
  <1> HIDE DEF r, t
  <1>5. OnlyActor("loop") /\ actor'["loop"] = r
    BY <1>2, <1>3, OneActor DEF Inv
  <1>6. TypeOK'
    BY <1>1, <1>5 DEF Inv, TypeOK, OnlyActor
  <1>7. Starts("loop")'
    BY <1>3, <1>4, <1>5 DEF Starts
  <1>8. task[t].pc = "none"
    <2>1. task[t].pc # "none" => t <= turns
      BY <1>1 DEF Inv, TaskOK
    <2> QED
      BY <1>1, <2>1
  <1>9. ActorOK("loop")'
    BY <1>1, <1>3, <1>4, <1>5, <1>7, <1>8 DEF ActorOK
  <1>10. actor["loop"].at = "idle" /\ actor'["loop"].at = "abort" /\ actor'["loop"].turn > turns
    BY <1>1, <1>3, <1>5 DEF MayAct
  <1>11. HasTask' = HasTask /\ active'.task = active.task /\ "abort" \notin Owning
    BY DEF HasTask, Owning
  <1>12. turns <= turns'
    BY <1>1
  <1> QED
    BY <1>2, <1>5, <1>6, <1>9, <1>10, <1>11, <1>12, ActorQuietInv

LEMMA SubmitInputInv == ASSUME Inv, NEW u \in Inputs, SubmitInput(u) PROVE Inv'
  <1>1. /\ MayAct("loop") /\ sent' = sent \cup {u} /\ u \in Items
        /\ UNCHANGED <<active, mailbox, task, ends, history, dropped, evicted, raced, marks>>
    BY DEF SubmitInput, marks, Items
  <1>2. CASE SteerIn(u)
    BY <1>1, <1>2, SteerInInv
  <1>3. CASE ~HasTask /\ Spawn(<<u>>, "regular") /\ UNCHANGED <<pending, deferred>>
    <2>1. <<u>> \in Seq(Inputs) /\ sent' \subseteq Items
      BY <1>1 DEF Inv, TypeOK
    <2> QED
      BY <1>1, <1>3, <2>1, SpawnInv
  <1> QED
    BY <1>2, <1>3 DEF SubmitInput

LEMMA SteerInputInv == ASSUME Inv, NEW u \in Inputs, SteerInput(u) PROVE Inv'
  BY SteerInInv DEF SteerInput

LEMMA SubmitOtherInv == ASSUME Inv, SubmitOther PROVE Inv'
  <1>1. /\ MayAct("loop") /\ <<>> \in Seq(Inputs) /\ sent' \subseteq Items
        /\ Spawn(<<>>, "other")
        /\ UNCHANGED <<active, pending, deferred, mailbox, task, ends, history, dropped,
                       evicted, raced>>
    BY DEF SubmitOther, marks, Inv, TypeOK
  <1> QED
    BY <1>1, SpawnInv

LEMMA SubmitMailInv == ASSUME Inv, NEW m \in Mails, SubmitMail(m) PROVE Inv'
  <1>1. /\ UNCHANGED <<active, pending, deferred, task, ends, history, dropped, turns,
                       evicted, raced>>
        /\ sent' = sent \cup {m} /\ m \in Items /\ mailbox' = Append(mailbox, m)
        /\ MayAct("loop") /\ "loop" \in Actors
    BY DEF SubmitMail, marks, Items, Actors
  <1>2. mailbox' \in Seq(Mails)
    BY <1>1 DEF Inv, TypeOK
  <1>3. CASE m \notin Triggers
    <2>1. actor' = actor
      BY <1>3 DEF SubmitMail
    <2>2. TypeOK'
      BY <1>1, <1>2, <2>1 DEF Inv, TypeOK
    <2> QED
      BY <1>1, <2>1, <2>2, StillInv
  <1>4. CASE m \in Triggers
    <2>1. actor' = [actor EXCEPT !["loop"] = [Idle EXCEPT !.at = "wake"]]
      BY <1>4 DEF SubmitMail
    <2>2. /\ OnlyActor("loop") /\ actor'["loop"].at = "wake"
          /\ ~Starts("loop")' /\ ActorOK("loop")'
      BY <1>1, <2>1, IdlerOK DEF Inv
    <2>3. TypeOK'
      BY <1>1, <1>2, <2>2 DEF Inv, TypeOK, OnlyActor
    <2>4. /\ HasTask' = HasTask /\ active'.task = active.task /\ "wake" \notin Owning
          /\ actor["loop"].at = "idle" /\ turns <= turns'
      BY <1>1 DEF HasTask, Owning, MayAct, Inv, TypeOK
    <2> QED
      BY <1>1, <2>2, <2>3, <2>4, ActorQuietInv
  <1> QED
    BY <1>3, <1>4

(* An actor sets out to interrupt.                                              *)
LEMMA InterruptsInv ==
    ASSUME Inv, NEW a \in Actors, MayAct(a), NEW r \in Actor,
           actor' = [actor EXCEPT ![a] = r], r.at = "abort", r.reason = "interrupted",
           r.input = <<>>, r.held = <<>>,
           UNCHANGED <<active, pending, deferred, mailbox, task, ends, history, dropped,
                       sent, turns, evicted, raced>>
    PROVE  Inv'
  <1>1. OnlyActor(a) /\ actor'[a] = r
    BY OneActor DEF Inv
  <1>2. ~Starts(a)'
    BY <1>1 DEF Starts
  <1>3. ActorOK(a)'
    BY <1>1, <1>2 DEF ActorOK
  <1>4. TypeOK'
    BY <1>1 DEF Inv, TypeOK, OnlyActor
  <1>5. /\ HasTask' = HasTask /\ active'.task = active.task /\ "abort" \notin Owning
        /\ actor[a].at = "idle" /\ turns <= turns' /\ actor'[a].at = "abort"
    BY <1>1 DEF HasTask, Owning, MayAct, Inv, TypeOK
  <1> QED
    BY <1>1, <1>2, <1>3, <1>4, <1>5, ActorQuietInv

LEMMA InterruptInv == ASSUME Inv, Interrupt PROVE Inv'
  <1> DEFINE r == [Idle EXCEPT !.at = "abort", !.reason = "interrupted"]
  <1>1. /\ r \in Actor /\ r.at = "abort" /\ r.reason = "interrupted"
        /\ r.input = <<>> /\ r.held = <<>>
    <2>1. ASSUME NEW q \in Actor
          PROVE  LET p == [q EXCEPT !.at = "abort", !.reason = "interrupted"]
                 IN  /\ p \in Actor /\ p.at = "abort" /\ p.reason = "interrupted"
                     /\ p.input = q.input /\ p.held = q.held
      BY DEF Actor
    <2> QED
      BY <2>1, IdleIsActor
  <1>2. /\ actor' = [actor EXCEPT !["loop"] = r]
        /\ UNCHANGED <<active, pending, deferred, mailbox, task, ends, history, dropped,
                       sent, turns, evicted, raced>>
        /\ "loop" \in Actors /\ MayAct("loop")
    BY DEF Interrupt, marks, Actors
  <1> HIDE DEF r
  <1> QED
    BY <1>1, <1>2, InterruptsInv

LEMMA GuardianInterruptsInv == ASSUME Inv, NEW t \in Turns, GuardianInterrupts(t) PROVE Inv'
  <1> DEFINE r == [Idle EXCEPT !.at = "abort", !.victim = t, !.reason = "interrupted"]
  <1>1. /\ r \in Actor /\ r.at = "abort" /\ r.reason = "interrupted"
        /\ r.input = <<>> /\ r.held = <<>>
    <2>1. ASSUME NEW q \in Actor
          PROVE  LET p == [q EXCEPT !.at = "abort", !.victim = t, !.reason = "interrupted"]
                 IN  /\ p \in Actor /\ p.at = "abort" /\ p.reason = "interrupted"
                     /\ p.input = q.input /\ p.held = q.held
      BY DEF Actor
    <2> QED
      BY <2>1, IdleIsActor
  <1>2. /\ actor' = [actor EXCEPT !["guardian"] = r]
        /\ UNCHANGED <<active, pending, deferred, mailbox, task, ends, history, dropped,
                       sent, turns, evicted, raced>>
        /\ "guardian" \in Actors /\ MayAct("guardian")
    BY DEF GuardianInterrupts, marks, Actors
  <1> HIDE DEF r
  <1> QED
    BY <1>1, <1>2, InterruptsInv

(* The slot is emptied: with a task in it the actor waits for that task, which  *)
(* nobody waited for; with none it goes on.                                     *)
LEMMA TakeActiveTurnInv == ASSUME Inv, NEW a \in Actors, TakeActiveTurn(a) PROVE Inv'
  <1> DEFINE mine == a = "loop" \/ (HasTask /\ active.task = actor[a].victim)
             v == active.task
  <1>1. /\ actor[a].at = "abort" /\ actor[a] \in Actor /\ ActorOK(a) /\ RaceOK
        /\ task \in [Turns -> Task] /\ turns \in Nat
    BY DEF Inv, TypeOK, TakeActiveTurn
  <1>2. /\ active' = IF mine THEN None ELSE active
        /\ UNCHANGED <<pending, deferred, mailbox, ends, history, dropped, sent, turns,
                       evicted, raced>>
    BY DEF TakeActiveTurn, marks
  <1>3. CASE mine /\ HasTask
    <2> DEFINE r == [actor[a] EXCEPT !.at = "waiting", !.victim = v, !.ts = active.ts]
    <2>1. v \in Turns /\ active.ts \in States /\ InSlot(v) /\ active' = None
      BY <1>2, <1>3 DEF Inv, TypeOK, Slot, HasTask, InSlot
    <2>2. /\ r \in Actor /\ r.at = "waiting" /\ r.victim = v /\ r.ts = active.ts
          /\ r.turn = actor[a].turn /\ r.reason = actor[a].reason
          /\ r.input = actor[a].input /\ r.held = actor[a].held
      <3>1. ASSUME NEW q \in Actor
            PROVE  LET p == [q EXCEPT !.at = "waiting", !.victim = v, !.ts = active.ts]
                   IN  /\ p \in Actor /\ p.at = "waiting" /\ p.victim = v /\ p.ts = active.ts
                       /\ p.turn = q.turn /\ p.reason = q.reason
                       /\ p.input = q.input /\ p.held = q.held
        BY <2>1 DEF Actor
      <3> QED
        BY <1>1, <3>1
    <2>3. actor' = [actor EXCEPT ![a] = r]
      BY <1>3 DEF TakeActiveTurn, Inv, TypeOK
    <2> HIDE DEF r
    <2>4. OnlyActor(a) /\ actor'[a] = r
      BY <2>2, <2>3, OneActor DEF Inv
    <2>5. /\ task' = [task EXCEPT ![v].cancelled = TRUE]
      BY <1>3 DEF TakeActiveTurn
    <2>6. /\ task' \in [Turns -> Task] /\ task'[v].pc = task[v].pc /\ task'[v].held = task[v].held
          /\ \A u \in Turns \ {v} : task'[u] = task[u]
      <3>1. ASSUME NEW q \in Task
            PROVE  LET p == [q EXCEPT !.cancelled = TRUE]
                   IN  p \in Task /\ p.pc = q.pc /\ p.held = q.held
        BY DEF Task
      <3>2. task[v] \in Task
        BY <1>1, <2>1
      <3> QED
        BY <1>1, <2>1, <2>5, <3>1, <3>2
    <2>7. TypeOK'
      BY <1>2, <2>1, <2>4, <2>6 DEF Inv, TypeOK, OnlyActor
    <2>8. Starts(a)' = Starts(a)
      BY <1>1, <2>2, <2>4 DEF Starts
    <2>9. ActorOK(a)'
      <3>1. Starts(a) => task'[actor[a].turn].pc = "none"
        BY <1>1, <2>6 DEF ActorOK
      <3>2. actor[a].held = <<>>
        BY <1>1 DEF ActorOK
      <3> QED
        BY <1>1, <1>2, <2>1, <2>2, <2>4, <2>8, <3>1, <3>2 DEF ActorOK
    <2>10. ~Waits(v) /\ task[v].pc \in Alive /\ TaskOK(v)
      BY <2>1 DEF Inv, TaskOK
    <2>11. \A u \in Turns \ {v} : Waits(u)' = Waits(u)
      BY <1>1, <2>2, <2>4 DEF Waits, OnlyActor
    <2>12. (\E b \in Actors : actor'[b].at = "waiting" /\ actor'[b].victim = v)
      BY <2>2, <2>4
    <2>13. \A u \in Turns : ~InSlot(u)' /\ Lost(u)' = Lost(u) /\ Steals(u)' = Steals(u)
      BY <1>2, <2>1 DEF InSlot, HasTask, Lost, Steals
    <2>14. ASSUME NEW u \in Turns PROVE TaskOK(u)'
      <3>1. CASE u = v
        <4>1. Waits(u)'
          BY <2>12, <3>1 DEF Waits
        <4>2. task'[u].pc = task[u].pc /\ task[u].pc \in Alive /\ TaskOK(u) /\ ends'[u] = ends[u]
              /\ task'[u].held = task[u].held
          BY <1>2, <2>6, <2>10, <3>1
        <4>3. ends[u] = 0
          BY <4>2 DEF TaskOK
        <4> QED
          BY <1>2, <2>13, <4>1, <4>2, <4>3 DEF TaskOK, Alive, Running
      <3>2. CASE u # v
        <4>1. TaskOK(u) /\ ~InSlot(u) /\ Waits(u)' = Waits(u) /\ task'[u] = task[u]
          BY <2>6, <2>11, <3>2 DEF Inv, InSlot
        <4> QED
          BY <1>1, <1>2, <2>13, <4>1, TaskKept
      <3> QED
        BY <3>1, <3>2
    <2>15. RaceOK'
      BY <1>1, <1>2, <2>1 DEF RaceOK, HasTask
    <2>16. \A b \in Actors \ {a} : Starts(b) => task'[actor[b].turn].pc = "none"
      BY <2>6 DEF Inv, ActorOK
    <2>17. actor'[a].at = "waiting" => ~Waits(actor'[a].victim)
      BY <2>2, <2>4, <2>10
    <2>18. turns <= turns' /\ actor'[a].turn = actor[a].turn
      BY <1>1, <1>2, <2>2, <2>4
    <2> QED
      BY <2>4, <2>7, <2>8, <2>9, <2>14, <2>15, <2>16, <2>17, <2>18, ActorStepInv
  <1>4. CASE ~(mine /\ HasTask)
    <2> DEFINE r == [actor[a] EXCEPT !.at = AfterAbort(a)]
    <2>1. /\ r \in Actor /\ r.at = AfterAbort(a) /\ r.ts = actor[a].ts
          /\ r.turn = actor[a].turn /\ r.reason = actor[a].reason
          /\ r.input = actor[a].input /\ r.held = actor[a].held
      <3>1. ASSUME NEW q \in Actor, NEW at \in {"prepare", "idle"}
            PROVE  LET p == [q EXCEPT !.at = at]
                   IN  /\ p \in Actor /\ p.at = at /\ p.ts = q.ts
                       /\ p.turn = q.turn /\ p.reason = q.reason
                       /\ p.input = q.input /\ p.held = q.held
        BY DEF Actor
      <3>2. AfterAbort(a) \in {"prepare", "idle"}
        BY DEF AfterAbort
      <3> QED
        BY <1>1, <3>1, <3>2
    <2>2. actor' = [actor EXCEPT ![a] = r] /\ task' = task
      BY <1>4 DEF TakeActiveTurn, Inv, TypeOK
    <2> HIDE DEF r
    <2>3. OnlyActor(a) /\ actor'[a] = r
      BY <2>1, <2>2, OneActor DEF Inv
    <2>4. HasTask' = HasTask /\ (HasTask => active'.task = active.task)
      BY <1>2, <1>4 DEF HasTask
    <2>5. TypeOK'
      BY <1>2, <2>2, <2>3 DEF Inv, TypeOK, OnlyActor
    <2>6. Starts(a)' = Starts(a)
      BY <1>1, <2>1, <2>3 DEF Starts, AfterAbort
    <2>7. ActorOK(a)'
      <3>1. actor[a].held = <<>>
        BY <1>1 DEF ActorOK
      <3> QED
        BY <1>1, <1>2, <2>1, <2>2, <2>3, <2>6, <3>1 DEF ActorOK, AfterAbort
    <2>8. actor'[a].at \in Owning => ~HasTask
      <3>1. actor'[a].at \in Owning => actor[a].reason = "replaced"
        BY <2>1, <2>3 DEF AfterAbort, Owning
      <3>2. actor[a].reason = "replaced" => a = "loop"
        BY <1>1 DEF ActorOK
      <3> QED
        BY <1>4, <3>1, <3>2
    <2>9. /\ turns <= turns' /\ actor'[a].turn = actor[a].turn
          /\ actor[a].at # "waiting" /\ actor'[a].at # "waiting"
      BY <1>1, <1>2, <2>1, <2>3 DEF AfterAbort
    <2> QED
      BY <1>2, <2>2, <2>3, <2>4, <2>5, <2>6, <2>7, <2>8, <2>9, ActorQuietInv
  <1> QED
    BY <1>3, <1>4

(* The task an actor waited for is gone and reported once more than before.     *)
LEMMA AbortTaskInv == ASSUME Inv, NEW a \in Actors, AbortTask(a) PROVE Inv'
  <1> DEFINE v == actor[a].victim
             ts == actor[a].ts
  <1>1. /\ actor[a].at = "waiting" /\ actor[a] \in Actor /\ ActorOK(a) /\ RaceOK
        /\ task \in [Turns -> Task] /\ turns \in Nat /\ ends \in [Turns -> Nat]
    BY DEF Inv, TypeOK, AbortTask
  <1>2. v \in Turns /\ ts \in States
    BY <1>1 DEF ActorOK
  <1>3. /\ UNCHANGED <<active, deferred, mailbox, history, sent, turns, evicted, raced>>
        /\ task' = [task EXCEPT ![v] = Gone] /\ ends' = [ends EXCEPT ![v] = @ + 1]
        /\ pending' = [pending EXCEPT ![ts] = <<>>]
    BY DEF AbortTask, marks
  <1>4. TaskOK(v) /\ Waits(v)
    BY <1>1, <1>2 DEF Inv, Waits
  <1>5. task[v].pc # "none" /\ ~InSlot(v) /\ (ends[v] = 0 \/ (ends[v] = 1 /\ Steals(v)))
    BY <1>2, <1>4 DEF TaskOK
  <1>6. /\ task' \in [Turns -> Task] /\ task'[v] = Gone
        /\ \A u \in Turns \ {v} : task'[u] = task[u]
    BY <1>1, <1>2, <1>3, GoneIsTask
  <1>7. /\ ends' \in [Turns -> Nat] /\ (ends'[v] = 1 \/ (ends'[v] = 2 /\ Steals(v)))
        /\ \A u \in Turns \ {v} : ends'[u] = ends[u]
    BY <1>1, <1>2, <1>3, <1>5
  <1>8. dropped' \subseteq Items
    <2>1. task[v].held \in Seq(Items) /\ pending[ts] \in Seq(Items)
      BY <1>2, ItemSeqs DEF Inv
    <2>2. task[v].held \o pending[ts] \in Seq(Items)
      BY <2>1
    <2> QED
      BY <2>2, DropType DEF AbortTask, Inv
  <1>9. pending' \in [States -> Seq(Items)]
    <2>1. <<>> \in Seq(Items) /\ pending \in [States -> Seq(Items)]
      BY DEF Inv, TypeOK
    <2> QED
      BY <1>3, <2>1
  <1>10. \A b \in Actors : Starts(b) => /\ task'[actor[b].turn].pc = "none"
                                        /\ actor[b].turn \in Turns /\ actor[b].turn <= turns
    BY <1>2, <1>5, <1>6 DEF Inv, ActorOK
  <1>11. /\ OnlyActor(a) /\ ActorOK(a)' /\ actor'[a].at # "waiting"
         /\ Starts(a)' => Starts(a) /\ actor'[a].turn = actor[a].turn
    <2>1. CASE actor[a].reason = "interrupted"
      <3>1. actor' = [actor EXCEPT ![a] = [Idle EXCEPT !.at = "wake"]]
        BY <2>1 DEF AbortTask, Inv, TypeOK
      <3> QED
        BY <3>1, IdlerOK DEF Inv
    <2>2. CASE actor[a].reason # "interrupted"
      <3> DEFINE r == [actor[a] EXCEPT !.at = "prepare", !.victim = None, !.ts = None]
      <3>1. /\ r \in Actor /\ r.at = "prepare" /\ r.turn = actor[a].turn
            /\ r.held = actor[a].held /\ r.input = actor[a].input
        <4>1. ASSUME NEW q \in Actor
              PROVE  LET p == [q EXCEPT !.at = "prepare", !.victim = None, !.ts = None]
                     IN  /\ p \in Actor /\ p.at = "prepare" /\ p.turn = q.turn
                         /\ p.held = q.held /\ p.input = q.input
          BY DEF Actor
        <4> QED
          BY <1>1, <4>1
      <3>2. actor' = [actor EXCEPT ![a] = r]
        BY <2>2 DEF AbortTask, Inv, TypeOK
      <3> HIDE DEF r
      <3>3. OnlyActor(a) /\ actor'[a] = r
        BY <3>1, <3>2, OneActor DEF Inv
      <3>4. Starts(a)' /\ Starts(a)
        <4>1. actor[a].reason = "replaced"
          BY <1>1, <2>2 DEF Actor
        <4> QED
          BY <1>1, <3>1, <3>3, <4>1 DEF Starts
      <3>5. actor[a].held = <<>>
        BY <1>1 DEF ActorOK
      <3>6. ActorOK(a)'
        BY <1>3, <1>10, <3>1, <3>3, <3>4, <3>5 DEF ActorOK
      <3> QED
        BY <3>1, <3>3, <3>4, <3>6
    <2> QED
      BY <2>1, <2>2
  <1>12. TypeOK'
    BY <1>3, <1>6, <1>7, <1>8, <1>9, <1>11 DEF Inv, TypeOK, OnlyActor
  <1>13. \A u \in Turns : InSlot(u)' = InSlot(u) /\ Lost(u)' = Lost(u) /\ Steals(u)' = Steals(u)
    BY <1>3 DEF InSlot, HasTask, Lost, Steals
  <1>14. \A b \in Actors \ {a} : ~(actor[b].at = "waiting" /\ actor[b].victim = v)
    BY <1>1 DEF Inv, Apart
  <1>15. \A u \in Turns \ {v} : Waits(u)' = Waits(u)
    BY <1>1, <1>11 DEF Waits, OnlyActor
  <1>16. ASSUME NEW u \in Turns PROVE TaskOK(u)'
    <2>1. CASE u = v
      <3>1. ~Waits(u)'
        BY <1>11, <1>14, <2>1 DEF Waits, OnlyActor
      <3>2. task'[u] = Gone /\ ~InSlot(u)' /\ (ends'[u] = 1 \/ (ends'[u] = 2 /\ Steals(u)'))
        BY <1>5, <1>6, <1>7, <1>13, <2>1
      <3>3. u <= turns'
        BY <1>3, <1>4, <1>5, <2>1 DEF TaskOK
      <3> QED
        BY <3>1, <3>2, <3>3, GoneIsTask DEF TaskOK, Alive, Running
    <2>2. CASE u # v
      <3>1. TaskOK(u) /\ task'[u] = task[u] /\ ends'[u] = ends[u] /\ Waits(u)' = Waits(u)
        BY <1>6, <1>7, <1>15, <2>2 DEF Inv
      <3> QED
        BY <1>1, <1>3, <1>13, <3>1, TaskKept
    <2> QED
      BY <2>1, <2>2
  <1>17. RaceOK'
    BY <1>1, <1>3, <1>11 DEF RaceOK, HasTask, OnlyActor, Owning
  <1>18. turns <= turns'
    BY <1>1, <1>3
  <1> QED
    BY <1>10, <1>11, <1>12, <1>16, <1>17, <1>18, ActorStepInv

LEMMA CheckMailInv == ASSUME Inv, NEW a \in Actors, CheckMail(a) PROVE Inv'
  <1>1. PICK at \in {"idle", "reserve"} : actor' = [actor EXCEPT ![a] = [Idle EXCEPT !.at = at]]
    BY IdleAgain DEF CheckMail
  <1>2. OnlyActor(a) /\ actor'[a].at = at /\ ~Starts(a)' /\ ActorOK(a)'
    BY <1>1, IdlerOK DEF Inv
  <1>3. /\ UNCHANGED <<active, pending, deferred, mailbox, task, ends, history, dropped,
                       sent, turns, evicted, raced>>
        /\ actor[a].at = "wake"
    BY DEF CheckMail, marks
  <1>4. TypeOK'
    BY <1>2, <1>3 DEF Inv, TypeOK, OnlyActor
  <1>5. /\ HasTask' = HasTask /\ active'.task = active.task /\ at \notin Owning
        /\ turns <= turns'
    BY <1>3 DEF HasTask, Owning, Inv, TypeOK
  <1> QED
    BY <1>2, <1>3, <1>4, <1>5, ActorQuietInv

(* An idle slot is reserved for a turn that is new.                             *)
LEMMA ReservesInv ==
    ASSUME Inv, NEW a \in Actors, actor[a].at \in {"idle", "reserve"},
           active = None, turns < MaxTurns, turns' = turns + 1,
           active' = [ts |-> <<turns + 1, "reserved">>, task |-> None],
           NEW r \in Actor, actor' = [actor EXCEPT ![a] = r], r.turn = turns + 1,
           r.at \in {"prepare", "reserved"}, r.at = "reserved" => r.ts \in States,
           r.held = <<>>, r.input = <<>>,
           UNCHANGED <<pending, deferred, mailbox, task, ends, history, dropped, sent,
                       evicted, raced>>
    PROVE  Inv'
  <1>1. OnlyActor(a) /\ actor'[a] = r
    BY OneActor DEF Inv
  <1>2. /\ turns \in Nat /\ turns + 1 \in Turns /\ turns' \in 0 .. MaxTurns /\ turns <= turns'
        /\ turns + 1 > turns
    BY DEF Inv, TypeOK, Turns
  <1>3. active' \in Slot /\ ~HasTask /\ HasTask' = HasTask
    BY <1>2 DEF Slot, States, HasTask
  <1>4. TypeOK'
    BY <1>1, <1>2, <1>3 DEF Inv, TypeOK, OnlyActor
  <1>5. task[turns + 1].pc = "none"
    <2>1. task[turns + 1].pc # "none" => turns + 1 <= turns
      BY <1>2 DEF Inv, TaskOK
    <2> QED
      BY <1>2, <2>1
  <1>6. Starts(a)'
    BY <1>1 DEF Starts
  <1>7. ActorOK(a)'
    BY <1>1, <1>2, <1>5, <1>6 DEF ActorOK
  <1>8. actor[a].at # "waiting" /\ actor'[a].at # "waiting"
    BY <1>1
  <1>9. actor'[a].turn > turns
    BY <1>1, <1>2
  <1> QED
    BY <1>1, <1>2, <1>3, <1>4, <1>7, <1>8, <1>9, ActorQuietInv

LEMMA ReserveTurnInv == ASSUME Inv, NEW a \in Actors, ReserveTurn(a) PROVE Inv'
  <1>1. /\ actor[a].at = "reserve" /\ turns \in Nat
        /\ UNCHANGED <<pending, deferred, mailbox, task, ends, history, dropped, sent,
                       evicted, raced>>
    BY DEF ReserveTurn, marks, Inv, TypeOK
  <1>2. CASE active = None
    <2> DEFINE r == [Idle EXCEPT !.at = "prepare", !.turn = turns + 1]
    <2>1. /\ turns < MaxTurns /\ turns' = turns + 1
          /\ active' = [ts |-> <<turns + 1, "reserved">>, task |-> None]
          /\ actor' = [actor EXCEPT ![a] = r]
      BY <1>2 DEF ReserveTurn
    <2>2. /\ r \in Actor /\ r.at = "prepare" /\ r.turn = turns + 1
          /\ r.held = <<>> /\ r.input = <<>>
      <3>1. turns + 1 \in Turns
        BY <1>1, <2>1 DEF Turns
      <3>2. ASSUME NEW q \in Actor
            PROVE  LET p == [q EXCEPT !.at = "prepare", !.turn = turns + 1]
                   IN  /\ p \in Actor /\ p.at = "prepare" /\ p.turn = turns + 1
                       /\ p.held = q.held /\ p.input = q.input
        BY <3>1 DEF Actor
      <3> QED
        BY <3>2, IdleIsActor
    <2> HIDE DEF r
    <2> QED
      BY <1>1, <1>2, <2>1, <2>2, ReservesInv
  <1>3. CASE active # None
    <2>1. actor' = [actor EXCEPT ![a] = [Idle EXCEPT !.at = "idle"]] /\ UNCHANGED <<active, turns>>
      BY <1>3, IdleAgain DEF ReserveTurn
    <2>2. OnlyActor(a) /\ actor'[a].at = "idle" /\ ~Starts(a)' /\ ActorOK(a)'
      BY <2>1, IdlerOK DEF Inv
    <2>3. TypeOK'
      BY <1>1, <2>1, <2>2 DEF Inv, TypeOK, OnlyActor
    <2>4. HasTask' = HasTask /\ active'.task = active.task /\ "idle" \notin Owning
          /\ turns <= turns'
      BY <1>1, <2>1 DEF HasTask, Owning
    <2> QED
      BY <1>1, <2>1, <2>2, <2>3, <2>4, ActorQuietInv
  <1> QED
    BY <1>2, <1>3

LEMMA TryStartInv == ASSUME Inv, TryStartTurnIfIdle PROVE Inv'
  <1> DEFINE r == [Idle EXCEPT !.at = "reserved", !.turn = turns + 1,
                               !.ts = <<turns + 1, "reserved">>]
  <1>1. /\ "extension" \in Actors /\ actor["extension"].at = "idle"
        /\ active = None /\ turns < MaxTurns /\ turns' = turns + 1
        /\ active' = [ts |-> <<turns + 1, "reserved">>, task |-> None]
        /\ actor' = [actor EXCEPT !["extension"] = r]
        /\ UNCHANGED <<pending, deferred, mailbox, task, ends, history, dropped, sent,
                       evicted, raced>>
    BY DEF TryStartTurnIfIdle, marks, MayAct, Actors
  <1>2. /\ r \in Actor /\ r.at = "reserved" /\ r.turn = turns + 1 /\ r.held = <<>>
        /\ r.ts \in States /\ r.input = <<>>
    <2>1. turns + 1 \in Turns /\ <<turns + 1, "reserved">> \in States
      BY <1>1 DEF Turns, States, Inv, TypeOK
    <2>2. ASSUME NEW q \in Actor, NEW ts \in States
          PROVE  LET p == [q EXCEPT !.at = "reserved", !.turn = turns + 1, !.ts = ts]
                 IN  /\ p \in Actor /\ p.at = "reserved" /\ p.turn = turns + 1
                     /\ p.held = q.held /\ p.ts = ts /\ p.input = q.input
      BY <2>1 DEF Actor
    <2> QED
      BY <2>1, <2>2, IdleIsActor
  <1> HIDE DEF r
  <1> QED
    BY <1>1, <1>2, ReservesInv

LEMMA GiveBackInv == ASSUME Inv, NEW a \in Actors, GiveBack(a) PROVE Inv'
  <1>1. PICK at \in {"idle", "wake"} : actor' = [actor EXCEPT ![a] = [Idle EXCEPT !.at = at]]
    BY DEF GiveBack
  <1>2. OnlyActor(a) /\ actor'[a].at = at /\ ~Starts(a)' /\ ActorOK(a)'
    BY <1>1, IdlerOK DEF Inv
  <1>3. /\ UNCHANGED <<pending, deferred, mailbox, task, ends, history, dropped,
                       sent, turns, evicted, raced>>
        /\ actor[a].at = "reserved"
        /\ active' = active \/ (active' = None /\ active # None /\ active.task = None)
    BY DEF GiveBack, marks, StillReserved
  <1>4. TypeOK'
    BY <1>2, <1>3 DEF Inv, TypeOK, OnlyActor
  <1>5. /\ HasTask' = HasTask /\ (HasTask => active'.task = active.task) /\ at \notin Owning
        /\ turns <= turns'
    BY <1>3 DEF HasTask, Owning, Inv, TypeOK
  <1> QED
    BY <1>2, <1>3, <1>4, <1>5, ActorQuietInv

(* A start goes from one of its steps to the next.                              *)
LEMMA NextStepInv ==
    ASSUME Inv, NEW a \in Actors, actor[a].at \in {"reserved", "prepare", "open", "fill"},
           NEW r \in Actor, actor' = [actor EXCEPT ![a] = r], r.turn = actor[a].turn,
           r.at \in {"prepare", "open", "fill", "install"}, r.at = "fill" => r.ts \in States,
           r.held # <<>> => r.at \in {"open", "fill"},
           active' = active \/ (active = None /\ active' \in Slot /\ active'.task = None),
           pending' \in [States -> Seq(Items)], mailbox' \in Seq(Mails), sent' \subseteq Items,
           UNCHANGED <<deferred, task, ends, history, dropped, turns, evicted, raced>>
    PROVE  Inv'
  <1>1. ActorOK(a) /\ Starts(a)
    BY DEF Inv, Starts
  <1>2. OnlyActor(a) /\ Starts(a)' /\ ActorOK(a)' /\ actor'[a] = r
    BY <1>1, MovesOn DEF Inv
  <1>3. TypeOK'
    BY <1>2 DEF Inv, TypeOK, OnlyActor
  <1>4. /\ HasTask' = HasTask /\ (HasTask => active'.task = active.task)
        /\ actor[a].at \in Owning /\ turns <= turns'
    BY DEF HasTask, Owning, Inv, TypeOK
  <1> QED
    BY <1>1, <1>2, <1>3, <1>4, ActorQuietInv

(* The extension's item is queued in its reservation.                           *)
LEMMA StartReservedInv ==
    ASSUME Inv, NEW a \in Actors, NEW i \in Notes, StartReserved(a, i)
    PROVE  Inv'
  <1> DEFINE r == [actor[a] EXCEPT !.at = "prepare", !.ts = None]
  <1>1. /\ actor[a].at = "reserved" /\ actor[a] \in Actor /\ ActorOK(a)
        /\ UNCHANGED <<active, deferred, mailbox, task, ends, history, dropped, turns,
                       evicted, raced>>
        /\ sent' = sent \cup {i} /\ i \in Items
    BY DEF StartReserved, marks, Inv, TypeOK, Items
  <1>2. /\ r \in Actor /\ r.at = "prepare" /\ r.turn = actor[a].turn /\ r.held = actor[a].held
    <2>1. ASSUME NEW q \in Actor
          PROVE  LET p == [q EXCEPT !.at = "prepare", !.ts = None]
                 IN  p \in Actor /\ p.at = "prepare" /\ p.turn = q.turn /\ p.held = q.held
      BY DEF Actor
    <2> QED
      BY <1>1, <2>1
  <1>3. actor' = [actor EXCEPT ![a] = r]
    BY DEF StartReserved, Inv, TypeOK
  <1>4. actor[a].held = <<>> /\ actor[a].ts \in States
    BY <1>1 DEF ActorOK
  <1>5. pending' \in [States -> Seq(Items)]
    <2>1. pending \in [States -> Seq(Items)] /\ pending[actor[a].ts] \in Seq(Items)
      BY <1>4 DEF Inv, TypeOK
    <2>2. Append(pending[actor[a].ts], i) \in Seq(Items)
      BY <1>1, <2>1
    <2>3. pending' = [pending EXCEPT ![actor[a].ts] = Append(pending[actor[a].ts], i)]
      BY <1>4, <2>1 DEF StartReserved
    <2> QED
      BY <1>4, <2>1, <2>2, <2>3
  <1>6. sent' \subseteq Items /\ mailbox' \in Seq(Mails)
    BY <1>1 DEF Inv, TypeOK
  <1> HIDE DEF r
  <1> QED
    BY <1>1, <1>2, <1>3, <1>4, <1>5, <1>6, NextStepInv

LEMMA TakePendingInv == ASSUME Inv, NEW a \in Actors, TakePending(a) PROVE Inv'
  <1> DEFINE r == [actor[a] EXCEPT !.at = "open", !.held = PendingInput]
  <1>1. /\ actor[a].at = "prepare" /\ actor[a] \in Actor /\ PendingInput \in Seq(Items)
        /\ UNCHANGED <<active, deferred, task, ends, history, dropped, sent, turns,
                       evicted, raced>>
    BY ItemSeqs DEF TakePending, marks, Inv, TypeOK
  <1>2. r \in Actor /\ r.at = "open" /\ r.turn = actor[a].turn
    <2>1. ASSUME NEW q \in Actor, NEW s \in Seq(Items)
          PROVE  LET p == [q EXCEPT !.at = "open", !.held = s]
                 IN  p \in Actor /\ p.at = "open" /\ p.turn = q.turn
      BY DEF Actor
    <2> QED
      BY <1>1, <2>1
  <1>3. actor' = [actor EXCEPT ![a] = r]
    BY DEF TakePending, Inv, TypeOK
  <1>4. pending' \in [States -> Seq(Items)]
    <2>1. pending' = pending \/ pending' = [pending EXCEPT ![active.ts] = <<>>]
      BY DEF TakePending
    <2>2. <<>> \in Seq(Items) /\ pending \in [States -> Seq(Items)]
      BY DEF Inv, TypeOK
    <2> QED
      BY <2>1, <2>2
  <1>5. mailbox' \in Seq(Mails) /\ sent' \subseteq Items
    BY <1>1, MailType DEF TakePending, Inv, TypeOK
  <1> HIDE DEF r
  <1> QED
    BY <1>1, <1>2, <1>3, <1>4, <1>5, NextStepInv

LEMMA OpenTurnInv == ASSUME Inv, NEW a \in Actors, OpenTurn(a) PROVE Inv'
  <1> DEFINE slot == IF active = None THEN [ts |-> <<actor[a].turn, "opened">>, task |-> None]
                                      ELSE active
             r == [actor[a] EXCEPT !.at = "fill", !.ts = slot.ts]
  <1>1. /\ actor[a].at = "open" /\ actor[a] \in Actor /\ ActorOK(a) /\ Starts(a)
        /\ UNCHANGED <<pending, deferred, mailbox, task, ends, history, dropped, sent, turns,
                       evicted, raced>>
        /\ active' = slot
    BY DEF OpenTurn, marks, Inv, TypeOK, Starts
  <1>2. slot \in Slot /\ (active = None => slot.task = None) /\ (active # None => slot = active)
    <2>1. <<actor[a].turn, "opened">> \in States
      BY <1>1 DEF ActorOK, States
    <2> QED
      BY <2>1 DEF Slot, Inv, TypeOK
  <1>3. actor' = [actor EXCEPT ![a] = r]
    BY DEF OpenTurn, Inv, TypeOK
  <1> HIDE DEF slot
  <1>4. slot.ts \in States
    BY <1>2 DEF Slot
  <1>5. r \in Actor /\ r.at = "fill" /\ r.turn = actor[a].turn /\ r.ts \in States
    <2>1. ASSUME NEW q \in Actor, NEW ts \in States
          PROVE  LET p == [q EXCEPT !.at = "fill", !.ts = ts]
                 IN  p \in Actor /\ p.at = "fill" /\ p.turn = q.turn /\ p.ts = ts
      BY DEF Actor
    <2> QED
      BY <1>1, <1>4, <2>1
  <1> HIDE DEF r
  <1>6. pending' \in [States -> Seq(Items)] /\ mailbox' \in Seq(Mails) /\ sent' \subseteq Items
    BY <1>1 DEF Inv, TypeOK
  <1> QED
    BY <1>1, <1>2, <1>3, <1>5, <1>6, NextStepInv

LEMMA FillTurnInv == ASSUME Inv, NEW a \in Actors, FillTurn(a) PROVE Inv'
  <1> DEFINE r == [actor[a] EXCEPT !.at = "install", !.held = <<>>]
             s == pending[actor[a].ts] \o actor[a].held
  <1>1. /\ actor[a].at = "fill" /\ actor[a] \in Actor /\ ActorOK(a)
        /\ UNCHANGED <<active, deferred, mailbox, task, ends, history, dropped, sent, turns,
                       evicted, raced>>
    BY DEF FillTurn, marks, Inv, TypeOK
  <1>2. r \in Actor /\ r.at = "install" /\ r.turn = actor[a].turn /\ r.held = <<>>
    <2>1. ASSUME NEW q \in Actor, NEW w \in Seq(Items)
          PROVE  LET p == [q EXCEPT !.at = "install", !.held = w]
                 IN  p \in Actor /\ p.at = "install" /\ p.turn = q.turn /\ p.held = w
      BY DEF Actor
    <2>2. <<>> \in Seq(Items)
      OBVIOUS
    <2> QED
      BY <1>1, <2>1, <2>2
  <1>3. actor' = [actor EXCEPT ![a] = r]
    BY DEF FillTurn, Inv, TypeOK
  <1>4. actor[a].ts \in States /\ s \in Seq(Items)
    <2>1. actor[a].ts \in States
      BY <1>1 DEF ActorOK
    <2>2. pending[actor[a].ts] \in Seq(Items) /\ actor[a].held \in Seq(Items)
      BY <2>1, ItemSeqs DEF Inv
    <2>3. ASSUME NEW q \in Seq(Items), NEW p \in Seq(Items)
          PROVE  q \o p \in Seq(Items)
      OBVIOUS
    <2> QED
      BY <2>1, <2>2, <2>3
  <1>5. pending' = [pending EXCEPT ![actor[a].ts] = s]
    BY <1>4 DEF FillTurn, Inv, TypeOK
  <1> HIDE DEF r, s
  <1>6. pending' \in [States -> Seq(Items)] /\ mailbox' \in Seq(Mails) /\ sent' \subseteq Items
    BY <1>1, <1>4, <1>5 DEF Inv, TypeOK
  <1> QED
    BY <1>1, <1>2, <1>3, <1>6, NextStepInv

(* The new task is installed; a task that it finds in the slot is lost to it.   *)
LEMMA InstallTaskInv == ASSUME Inv, NEW a \in Actors, InstallTask(a) PROVE Inv'
  <1> DEFINE t == actor[a].turn
             e == active.task
             fresh == [NoTask EXCEPT !.pc = "start", !.kind = actor[a].kind,
                                     !.held = actor[a].input]
  <1>1. /\ actor[a].at = "install" /\ actor[a] \in Actor /\ ActorOK(a) /\ Starts(a) /\ RaceOK
        /\ task \in [Turns -> Task] /\ turns \in Nat
    BY DEF Inv, TypeOK, InstallTask, Starts
  <1>2. t \in Turns /\ task[t].pc = "none" /\ t <= turns
    BY <1>1 DEF ActorOK
  <1>3. fresh \in Task /\ fresh.pc = "start" /\ fresh.cancelled = FALSE
    <2>1. NoTask \in Task /\ NoTask.cancelled = FALSE
      BY DEF NoTask, Task
    <2>2. ASSUME NEW k \in {"regular", "other"}, NEW s \in Seq(Items)
          PROVE  LET p == [NoTask EXCEPT !.pc = "start", !.kind = k, !.held = s]
                 IN  p \in Task /\ p.pc = "start" /\ p.cancelled = NoTask.cancelled
      BY <2>1 DEF Task, Running
    <2>3. actor[a].kind \in {"regular", "other"} /\ actor[a].input \in Seq(Items)
      BY <1>1, ItemSeqs DEF Inv, Actor
    <2> QED
      BY <2>1, <2>2, <2>3
  <1>4. /\ active' = [ts |-> IF active = None THEN <<t, "installed">> ELSE active.ts, task |-> t]
        /\ actor' = [actor EXCEPT ![a] = [Idle EXCEPT !.at = "idle"]]
        /\ raced' = (raced \/ \E b \in Actors \ {a} : actor[b].at # "idle")
        /\ UNCHANGED <<pending, deferred, mailbox, ends, history, sent, turns>>
    BY IdleAgain DEF InstallTask
  <1>5. OnlyActor(a) /\ actor'[a].at = "idle" /\ ~Starts(a)' /\ ActorOK(a)'
    BY <1>4, IdlerOK DEF Inv
  <1>6. active' \in Slot /\ active'.task = t
    <2>1. <<t, "installed">> \in States /\ (active # None => active.ts \in States)
      BY <1>2, ItemSeqs DEF States, Inv
    <2> QED
      BY <1>2, <1>4, <2>1 DEF Slot
  <1>7. HasTask => e \in Turns /\ InSlot(e)
    BY DEF HasTask, InSlot, Inv, TypeOK, Slot
  <1>8. HasTask => /\ TaskOK(e) /\ task[e].pc \in Alive /\ task[e].pc # "none" /\ e # t
                   /\ ~Waits(e) /\ ends[e] = 0 /\ e <= turns
    <2>1. HasTask => TaskOK(e)
      BY <1>7 DEF Inv
    <2>2. HasTask => task[e].pc \in Alive /\ ~Waits(e)
      BY <1>7, <2>1 DEF TaskOK
    <2>3. "none" \notin Alive
      BY DEF Alive, Running
    <2>4. HasTask => ends[e] = 0 /\ e <= turns
      BY <2>1, <2>2, <2>3 DEF TaskOK
    <2> QED
      BY <1>2, <2>1, <2>2, <2>3, <2>4
  <1> HIDE DEF fresh
  <1>9. /\ task' \in [Turns -> Task] /\ task'[t] = fresh
        /\ HasTask => task'[e] = Gone
        /\ \A u \in Turns \ {t} : ~(HasTask /\ u = e) => task'[u] = task[u]
    <2>1. CASE HasTask
      <3>1. task' = [task EXCEPT ![e] = Gone, ![t] = fresh]
        BY <2>1 DEF InstallTask, fresh
      <3> QED
        BY <1>1, <1>2, <1>3, <1>7, <1>8, <2>1, <3>1, GoneIsTask
    <2>2. CASE ~HasTask
      <3>1. task' = [task EXCEPT ![t] = fresh]
        BY <2>2 DEF InstallTask, fresh
      <3> QED
        BY <1>1, <1>2, <1>3, <2>2, <3>1
    <2> QED
      BY <2>1, <2>2
  <1>10. /\ evicted' \subseteq Turns \X Turns /\ evicted \subseteq evicted'
         /\ HasTask => <<t, e>> \in evicted'
         /\ ~HasTask => evicted' = evicted
    BY <1>2, <1>7 DEF InstallTask, Inv, TypeOK
  <1>11. dropped' \subseteq Items
    <2>1. HasTask => task[e].held \in Seq(Items)
      BY <1>7, ItemSeqs DEF Inv
    <2>2. HasTask => Drop(task[e].held)
      BY DEF InstallTask
    <2>3. ~HasTask => dropped' = dropped
      BY DEF InstallTask
    <2> QED
      BY <2>1, <2>2, <2>3, DropType DEF Inv, TypeOK
  <1>12. TypeOK'
    <2>1. raced' \in BOOLEAN
      BY <1>4 DEF Inv, TypeOK
    <2> QED
      BY <1>4, <1>5, <1>6, <1>9, <1>10, <1>11, <2>1 DEF Inv, TypeOK, OnlyActor
  <1>13. \A u \in Turns : Waits(u)' = Waits(u)
    BY <1>1, <1>5 DEF Waits, OnlyActor
  <1>14. HasTask' /\ \A u \in Turns : InSlot(u)' <=> u = t
    <2>1. active' # None /\ active'.task # None
      BY <1>2, <1>6
    <2> QED
      BY <1>6, <2>1 DEF InSlot, HasTask
  <1>15. ASSUME NEW u \in Turns PROVE TaskOK(u)'
    <2>1. TaskOK(u)
      BY DEF Inv
    <2>2. CASE u = t
      <3>1. ~Waits(u) /\ ends[u] = 0 /\ task'[u].pc = "start" /\ task'[u].cancelled = FALSE
        BY <1>2, <1>3, <1>9, <2>1, <2>2 DEF TaskOK
      <3> QED
        BY <1>2, <1>4, <1>13, <1>14, <2>2, <3>1 DEF TaskOK, Alive, Running
    <2>3. CASE u # t /\ HasTask /\ u = e
      <3>1. /\ ~Waits(u)' /\ ends'[u] = 0 /\ task'[u] = Gone /\ ~InSlot(u)' /\ Lost(u)'
            /\ u <= turns'
        BY <1>2, <1>4, <1>7, <1>8, <1>9, <1>10, <1>13, <1>14, <2>3 DEF Lost
      <3> QED
        BY <3>1, GoneIsTask DEF TaskOK, Alive, Running
    <2>4. CASE u # t /\ ~(HasTask /\ u = e)
      <3>1. task'[u] = task[u] /\ ~InSlot(u) /\ ~InSlot(u)' /\ Waits(u)' = Waits(u)
        BY <1>9, <1>13, <1>14, <2>4 DEF InSlot
      <3> QED
        BY <1>1, <1>4, <1>10, <2>1, <3>1, TaskKept
    <2> QED
      BY <2>2, <2>3, <2>4
  <1>16. RaceOK'
    <2>1. HasTask => raced
      BY <1>1 DEF RaceOK, Owning
    <2>2. evicted' # {} => raced'
      BY <1>1, <1>4, <1>10, <2>1 DEF RaceOK
    <2>3. raced' \/ \A b \in Actors : actor'[b].at = "idle"
      BY <1>4, <1>5 DEF OnlyActor
    <2> QED
      BY <2>2, <2>3 DEF RaceOK, Owning
  <1>17. ASSUME NEW b \in Actors \ {a}, Starts(b)
         PROVE  task'[actor[b].turn].pc = "none"
    <2>1. actor[b].turn \in Turns /\ task[actor[b].turn].pc = "none"
      BY <1>17 DEF Inv, ActorOK
    <2>2. actor[b].turn # t
      BY <1>1, <1>17 DEF Inv, Apart
    <2> QED
      BY <1>8, <1>9, <2>1, <2>2
  <1>18. turns <= turns'
    BY <1>1, <1>4
  <1> QED
    BY <1>5, <1>12, <1>15, <1>16, <1>17, <1>18, ActorStepInv

-----------------------------------------------------------------------------
(* The invariant holds *)

LEMMA InitInv == Init => Inv
  <1> SUFFICES ASSUME Init PROVE Inv
    OBVIOUS
  <1>1. \A a \in Actors : actor[a] = Idle
    BY DEF Init
  <1>2. \A t \in Turns : task[t] = NoTask /\ ends[t] = 0
    BY DEF Init
  <1>3. TypeOK
    <2>1. NoTask \in Task
      BY DEF NoTask, Task
    <2>2. /\ <<>> \in Seq(Items) /\ <<>> \in Seq(Mails) /\ 0 \in 0 .. MaxTurns
      OBVIOUS
    <2> QED
      BY <2>1, <2>2, IdleIsActor DEF Init, TypeOK
  <1>4. \A a \in Actors : ~Starts(a)
    BY <1>1, IdleIsActor DEF Starts
  <1>5. \A a \in Actors : ActorOK(a)
    BY <1>1, <1>4, IdleIsActor DEF ActorOK
  <1>6. Apart
    BY <1>1, <1>4, IdleIsActor DEF Apart
  <1>7. \A t : ~Waits(t) /\ ~InSlot(t)
    BY <1>1, IdleIsActor DEF Waits, InSlot, HasTask, Init
  <1>8. \A t \in Turns : TaskOK(t)
    <2>1. NoTask.pc = "none" /\ NoTask.held = <<>> /\ NoTask.cancelled = FALSE
      BY DEF NoTask
    <2> QED
      BY <1>2, <1>7, <2>1 DEF TaskOK, Alive, Running
  <1>9. RaceOK
    BY DEF RaceOK, HasTask, Init
  <1> QED
    BY <1>3, <1>5, <1>6, <1>8, <1>9 DEF Inv

LEMMA InvStep == Inv /\ [Next]_vars => Inv'
  <1> SUFFICES ASSUME Inv, [Next]_vars PROVE Inv'
    OBVIOUS
  <1>1. CASE Submit
    BY <1>1, SubmitInputInv, SteerInputInv, SubmitOtherInv, SubmitMailInv, InterruptInv,
       GuardianInterruptsInv, InjectInv, TryStartInv DEF Submit
  <1>2. ASSUME NEW a \in Actors, Lifecycle(a) PROVE Inv'
    BY <1>2, TakeActiveTurnInv, AbortTaskInv, CheckMailInv, ReserveTurnInv, GiveBackInv,
       StartReservedInv, TakePendingInv, OpenTurnInv, FillTurnInv, InstallTaskInv DEF Lifecycle
  <1>3. ASSUME NEW t \in Turns, TaskStep(t) PROVE Inv'
    BY <1>3, StartTaskInv, GivesUpInv, DrainInputInv, RecordInputInv, SampledInv, GoesOnInv,
       EndTaskInv, TakeTaskInv, SendTerminalInv, ClearActiveTurnInv DEF TaskStep
  <1>4. CASE UNCHANGED vars
    <2>1. UNCHANGED <<active, pending, deferred, mailbox, task, actor, ends, history,
                      dropped, sent, turns, evicted, raced>>
      BY <1>4 DEF vars
    <2>2. TypeOK'
      BY <2>1 DEF Inv, TypeOK
    <2> QED
      BY <2>1, <2>2, StillInv
  <1> QED
    BY <1>1, <1>2, <1>3, <1>4 DEF Next

LEMMA Invariance == Spec => []Inv
  BY InitInv, InvStep, PTL DEF Spec

-----------------------------------------------------------------------------
(* The theorems about turns *)

(* Every reachable state of a session is well typed, whichever of the loop, the *)
(* guardian, an extension and the tasks steps next.                             *)
THEOREM TypeCorrect == Spec => []TypeOK
  <1>1. Inv => TypeOK
    BY DEF Inv
  <1> QED
    BY <1>1, Invariance, PTL

(* A task runs outside the slot only while an abort stops it, or after another  *)
(* turn took it out, which takes a start that overlapped another actor's.       *)
THEOREM TurnsExclude == Spec => []OneTurnAtATime
  <1>1. Inv => OneTurnAtATime
    <2> SUFFICES ASSUME Inv, NEW t \in Turns, task[t].pc \in Running
                 PROVE  (HasTask /\ active.task = t) \/ Waits(t) \/ Evicted(t)
      BY DEF OneTurnAtATime
    <2>1. InSlot(t) \/ Waits(t) \/ Lost(t)
      BY DEF Inv, TaskOK, Alive
    <2>2. Lost(t) => Evicted(t)
      BY DEF Lost, Evicted, Inv, RaceOK
    <2> QED
      BY <2>1, <2>2 DEF InSlot
  <1> QED
    BY <1>1, Invariance, PTL

(* No turn ends unreported but one that another evicted, and none is reported   *)
(* twice but one that evicted another while an abort waited for it.             *)
THEOREM TurnsReportedOnce == Spec => []ReportedOnce
  <1>1. Inv => ReportedOnce
    <2> SUFFICES ASSUME Inv, NEW t \in Turns
                 PROVE  /\ (task[t].pc = "gone" /\ ends[t] = 0) => (Waits(t) \/ Evicted(t))
                        /\ ends[t] > 1 => (ends[t] = 2 /\ Evicts(t))
      BY DEF ReportedOnce
    <2>1. /\ task[t].pc = "gone" /\ ends[t] = 0 => Waits(t) \/ Lost(t)
          /\ ends[t] > 1 => ends[t] = 2 /\ Steals(t)
      BY DEF Inv, TaskOK
    <2>2. (Lost(t) => Evicted(t)) /\ (Steals(t) => Evicts(t))
      BY DEF Lost, Steals, Evicted, Evicts, Inv, RaceOK
    <2> QED
      BY <2>1, <2>2
  <1> QED
    BY <1>1, Invariance, PTL

(* start_task's assertion fails only after a task was installed while another   *)
(* actor was in the middle of an abort or a start (tasks/mod.rs).               *)
THEOREM SlotFreeUntilRace == Spec => [](raced \/ InstallFindsNoTask)
  <1>1. Inv => raced \/ InstallFindsNoTask
    BY DEF Inv, RaceOK, Owning, InstallFindsNoTask
  <1> QED
    BY <1>1, Invariance, PTL

-----------------------------------------------------------------------------
(* Where the items are *)

(* What the boxes F, the history h and the set d of dropped items say of the    *)
(* items s that were submitted: each of them is in one place, no other item is  *)
(* anywhere.                                                                    *)
In(F, i) == \E b \in Boxes : \E k \in DOMAIN F[b] : F[b][k] = i

Distinct(F) ==
    \A b, c \in Boxes : \A j \in DOMAIN F[b], k \in DOMAIN F[c] :
       F[b][j] = F[c][k] => b = c /\ j = k

OnePlace(F, h, d, s) ==
    /\ F \in [Boxes -> Seq(Items)] /\ h \in [Items -> Nat] /\ d \subseteq Items
    /\ Distinct(F)
    /\ \A i \in Items : /\ h[i] \in {0, 1}
                        /\ h[i] = 1 => i \notin d /\ ~In(F, i)
                        /\ i \in d => ~In(F, i)
                        /\ i \in s <=> (h[i] = 1 \/ i \in d \/ In(F, i))

(* An item enters a box; a box is emptied; a box is poured into another one.    *)
Put(F, b, i) == [F EXCEPT ![b] = Append(@, i)]
Emptied(F, b) == [F EXCEPT ![b] = <<>>]
Poured(F, b, c) == [F EXCEPT ![b] = <<>>, ![c] = F[c] \o F[b]]
Recorded(h, s) == [i \in Items |-> h[i] + IF i \in Range(s) THEN 1 ELSE 0]

LEMMA RangeOfConcat ==
    ASSUME NEW s \in Seq(Items), NEW u \in Seq(Items)
    PROVE  Range(s \o u) = Range(s) \cup Range(u)
  <1>1. ASSUME NEW k \in DOMAIN (s \o u) PROVE (s \o u)[k] \in Range(s) \cup Range(u)
    <2>1. CASE k <= Len(s)
      BY <1>1, <2>1 DEF Range
    <2>2. CASE k > Len(s)
      <3>1. k - Len(s) \in DOMAIN u /\ (s \o u)[k] = u[k - Len(s)]
        BY <1>1, <2>2
      <3> QED
        BY <3>1 DEF Range
    <2> QED
      BY <1>1, <2>1, <2>2
  <1>2. ASSUME NEW k \in DOMAIN s PROVE s[k] \in Range(s \o u)
    <2>1. k \in DOMAIN (s \o u) /\ (s \o u)[k] = s[k]
      BY <1>2
    <2> QED
      BY <2>1 DEF Range
  <1>3. ASSUME NEW k \in DOMAIN u PROVE u[k] \in Range(s \o u)
    <2>1. Len(s) + k \in DOMAIN (s \o u) /\ (s \o u)[Len(s) + k] = u[k]
      BY <1>3
    <2> QED
      BY <2>1 DEF Range
  <1>4. Range(s \o u) \subseteq Range(s) \cup Range(u)
    BY <1>1 DEF Range
  <1>5. Range(s) \subseteq Range(s \o u)
    BY <1>2 DEF Range
  <1>6. Range(u) \subseteq Range(s \o u)
    BY <1>3 DEF Range
  <1> QED
    BY <1>4, <1>5, <1>6

LEMMA EmptiedBox ==
    ASSUME NEW F \in [Boxes -> Seq(Items)], NEW b \in Boxes, Distinct(F)
    PROVE  /\ Emptied(F, b) \in [Boxes -> Seq(Items)] /\ Distinct(Emptied(F, b))
           /\ \A i : In(Emptied(F, b), i) <=> In(F, i) /\ i \notin Range(F[b])
           /\ \A i : i \in Range(F[b]) => In(F, i)
  <1> DEFINE G == Emptied(F, b)
  <1>1. /\ G \in [Boxes -> Seq(Items)] /\ G[b] = <<>> /\ DOMAIN G[b] = {}
        /\ \A x \in Boxes \ {b} : G[x] = F[x]
    BY DEF Emptied
  <1> HIDE DEF G
  <1>2. \A x \in Boxes : \A k \in DOMAIN G[x] : x # b /\ k \in DOMAIN F[x] /\ G[x][k] = F[x][k]
    BY <1>1
  <1>3. Distinct(G)
    BY <1>2 DEF Distinct
  <1>4. \A i : i \in Range(F[b]) <=> \E k \in DOMAIN F[b] : F[b][k] = i
    BY DEF Range
  <1>5. ASSUME NEW i, In(G, i) PROVE In(F, i) /\ i \notin Range(F[b])
    <2>1. PICK x \in Boxes : \E k \in DOMAIN G[x] : G[x][k] = i
      BY <1>5 DEF In
    <2>2. PICK k \in DOMAIN G[x] : G[x][k] = i
      BY <2>1
    <2>3. x # b /\ k \in DOMAIN F[x] /\ F[x][k] = i
      BY <1>2, <2>2
    <2> QED
      BY <1>4, <2>3 DEF In, Distinct
  <1>6. ASSUME NEW i, In(F, i), i \notin Range(F[b]) PROVE In(G, i)
    <2>1. PICK x \in Boxes : \E k \in DOMAIN F[x] : F[x][k] = i
      BY <1>6 DEF In
    <2>2. x # b
      BY <1>4, <1>6, <2>1
    <2>3. G[x] = F[x]
      BY <1>1, <2>2
    <2> QED
      BY <2>1, <2>3 DEF In
  <1>7. \A i : i \in Range(F[b]) => In(F, i)
    BY <1>4 DEF In
  <1> QED
    BY <1>1, <1>3, <1>5, <1>6, <1>7 DEF G

LEMMA RecordBox ==
    ASSUME NEW F, NEW h, NEW d, NEW s, NEW b \in Boxes, OnePlace(F, h, d, s)
    PROVE  OnePlace(Emptied(F, b), Recorded(h, F[b]), d, s)
  <1> DEFINE G == Emptied(F, b)
             g == Recorded(h, F[b])
  <1>1. /\ F \in [Boxes -> Seq(Items)] /\ h \in [Items -> Nat] /\ d \subseteq Items
        /\ Distinct(F)
    BY DEF OnePlace
  <1>2. /\ G \in [Boxes -> Seq(Items)] /\ Distinct(G)
        /\ \A i : In(G, i) <=> In(F, i) /\ i \notin Range(F[b])
        /\ \A i : i \in Range(F[b]) => In(F, i)
    BY <1>1, EmptiedBox
  <1>3. /\ g \in [Items -> Nat]
        /\ \A i \in Items : g[i] = h[i] + IF i \in Range(F[b]) THEN 1 ELSE 0
    BY <1>1 DEF Recorded
  <1> HIDE DEF G, g
  <1>4. ASSUME NEW i \in Items
        PROVE  /\ g[i] \in {0, 1}
               /\ g[i] = 1 => i \notin d /\ ~In(G, i)
               /\ i \in d => ~In(G, i)
               /\ i \in s <=> (g[i] = 1 \/ i \in d \/ In(G, i))
    <2>1. /\ h[i] \in {0, 1}
          /\ h[i] = 1 => i \notin d /\ ~In(F, i)
          /\ i \in d => ~In(F, i)
          /\ i \in s <=> (h[i] = 1 \/ i \in d \/ In(F, i))
      BY DEF OnePlace
    <2>2. CASE i \in Range(F[b])
      BY <1>2, <1>3, <2>1, <2>2
    <2>3. CASE i \notin Range(F[b])
      BY <1>2, <1>3, <2>1, <2>3
    <2> QED
      BY <2>2, <2>3
  <1> QED
    BY <1>1, <1>2, <1>3, <1>4 DEF OnePlace, G, g

LEMMA DropBox ==
    ASSUME NEW F, NEW h, NEW d, NEW s, NEW b \in Boxes, OnePlace(F, h, d, s)
    PROVE  OnePlace(Emptied(F, b), h, d \cup Range(F[b]), s)
  <1> DEFINE G == Emptied(F, b)
             e == d \cup Range(F[b])
  <1>1. /\ F \in [Boxes -> Seq(Items)] /\ h \in [Items -> Nat] /\ d \subseteq Items
        /\ Distinct(F)
    BY DEF OnePlace
  <1>2. /\ G \in [Boxes -> Seq(Items)] /\ Distinct(G)
        /\ \A i : In(G, i) <=> In(F, i) /\ i \notin Range(F[b])
        /\ \A i : i \in Range(F[b]) => In(F, i)
    BY <1>1, EmptiedBox
  <1>3. e \subseteq Items /\ \A i : i \in e <=> i \in d \/ i \in Range(F[b])
    BY <1>1 DEF Range
  <1> HIDE DEF G, e
  <1>4. ASSUME NEW i \in Items
        PROVE  /\ h[i] \in {0, 1}
               /\ h[i] = 1 => i \notin e /\ ~In(G, i)
               /\ i \in e => ~In(G, i)
               /\ i \in s <=> (h[i] = 1 \/ i \in e \/ In(G, i))
    <2>1. /\ h[i] \in {0, 1}
          /\ h[i] = 1 => i \notin d /\ ~In(F, i)
          /\ i \in d => ~In(F, i)
          /\ i \in s <=> (h[i] = 1 \/ i \in d \/ In(F, i))
      BY DEF OnePlace
    <2> QED
      BY <1>2, <1>3, <2>1
  <1> QED
    BY <1>1, <1>2, <1>3, <1>4 DEF OnePlace, G, e

LEMMA PouredBox ==
    ASSUME NEW F \in [Boxes -> Seq(Items)], NEW b \in Boxes, NEW c \in Boxes, b # c,
           Distinct(F)
    PROVE  /\ Poured(F, b, c) \in [Boxes -> Seq(Items)] /\ Distinct(Poured(F, b, c))
           /\ \A i : In(Poured(F, b, c), i) <=> In(F, i)
  <1> DEFINE G == Poured(F, b, c)
             n == Len(F[c])
             box(x, k) == IF x = c /\ k > n THEN b ELSE x
             pos(x, k) == IF x = c /\ k > n THEN k - n ELSE k
  <1>1. F[b] \in Seq(Items) /\ F[c] \in Seq(Items) /\ n \in Nat
    OBVIOUS
  <1>2. /\ G \in [Boxes -> Seq(Items)] /\ G[b] = <<>> /\ G[c] = F[c] \o F[b]
        /\ \A x \in Boxes \ {b, c} : G[x] = F[x]
    <2>1. F[c] \o F[b] \in Seq(Items) /\ <<>> \in Seq(Items)
      BY <1>1
    <2> QED
      BY <2>1 DEF Poured
  <1> HIDE DEF G
  <1>3. ASSUME NEW x \in Boxes, NEW k \in DOMAIN G[x]
        PROVE  /\ x # b /\ k \in Nat /\ box(x, k) \in Boxes
               /\ pos(x, k) \in DOMAIN F[box(x, k)]
               /\ F[box(x, k)][pos(x, k)] = G[x][k]
    <2>1. CASE x = b
      BY <1>2, <1>3, <2>1
    <2>2. CASE x = c
      <3>1. k \in 1 .. (n + Len(F[b])) /\ G[x][k] = (F[c] \o F[b])[k]
        BY <1>1, <1>2, <1>3, <2>2
      <3>2. CASE k > n
        BY <1>1, <2>2, <3>1, <3>2
      <3>3. CASE k <= n
        BY <1>1, <2>2, <3>1, <3>3
      <3> QED
        BY <1>1, <3>1, <3>2, <3>3
    <2>3. CASE x # b /\ x # c
      <3>1. G[x] = F[x] /\ F[x] \in Seq(Items)
        BY <1>2, <2>3
      <3> QED
        BY <1>3, <2>3, <3>1
    <2> QED
      BY <2>1, <2>2, <2>3
  <1>4. Distinct(G)
    <2> SUFFICES ASSUME NEW x \in Boxes, NEW y \in Boxes,
                        NEW j \in DOMAIN G[x], NEW k \in DOMAIN G[y], G[x][j] = G[y][k]
                 PROVE  x = y /\ j = k
      BY DEF Distinct
    <2>1. x # b /\ j \in Nat /\ box(x, j) \in Boxes /\ pos(x, j) \in DOMAIN F[box(x, j)]
             /\ F[box(x, j)][pos(x, j)] = G[x][j]
      BY <1>3
    <2>2. y # b /\ k \in Nat /\ box(y, k) \in Boxes /\ pos(y, k) \in DOMAIN F[box(y, k)]
             /\ F[box(y, k)][pos(y, k)] = G[y][k]
      BY <1>3
    <2>3. box(x, j) = box(y, k) /\ pos(x, j) = pos(y, k)
      <3> HIDE DEF box, pos
      <3> QED
        BY <2>1, <2>2 DEF Distinct
    <2> QED
      BY <1>1, <2>1, <2>2, <2>3
  <1>5. ASSUME NEW i, In(G, i) PROVE In(F, i)
    <2>1. PICK x \in Boxes : \E k \in DOMAIN G[x] : G[x][k] = i
      BY <1>5 DEF In
    <2>2. PICK k \in DOMAIN G[x] : G[x][k] = i
      BY <2>1
    <2>3. box(x, k) \in Boxes /\ pos(x, k) \in DOMAIN F[box(x, k)]
             /\ F[box(x, k)][pos(x, k)] = G[x][k]
      BY <1>3
    <2> HIDE DEF box, pos
    <2> QED
      BY <2>2, <2>3 DEF In
  <1>6. ASSUME NEW i, In(F, i) PROVE In(G, i)
    <2>1. PICK x \in Boxes : \E k \in DOMAIN F[x] : F[x][k] = i
      BY <1>6 DEF In
    <2>2. PICK k \in DOMAIN F[x] : F[x][k] = i
      BY <2>1
    <2>3. CASE x = b
      <3>1. n + k \in DOMAIN G[c] /\ G[c][n + k] = i
        BY <1>1, <1>2, <2>2, <2>3
      <3> QED
        BY <3>1 DEF In
    <2>4. CASE x = c
      <3>1. k \in DOMAIN G[c] /\ G[c][k] = i
        BY <1>1, <1>2, <2>2, <2>4
      <3> QED
        BY <3>1 DEF In
    <2>5. CASE x # b /\ x # c
      <3>1. G[x] = F[x]
        BY <1>2, <2>5
      <3> QED
        BY <2>1, <3>1 DEF In
    <2> QED
      BY <2>3, <2>4, <2>5
  <1> QED
    BY <1>2, <1>4, <1>5, <1>6 DEF G

LEMMA PourBox ==
    ASSUME NEW F, NEW h, NEW d, NEW s, NEW b \in Boxes, NEW c \in Boxes, b # c,
           OnePlace(F, h, d, s)
    PROVE  OnePlace(Poured(F, b, c), h, d, s)
  <1>1. F \in [Boxes -> Seq(Items)] /\ Distinct(F)
    BY DEF OnePlace
  <1>2. /\ Poured(F, b, c) \in [Boxes -> Seq(Items)] /\ Distinct(Poured(F, b, c))
        /\ \A i : In(Poured(F, b, c), i) <=> In(F, i)
    BY <1>1, PouredBox
  <1> QED
    BY <1>2 DEF OnePlace

LEMMA PutInBox ==
    ASSUME NEW F, NEW h, NEW d, NEW s, NEW b \in Boxes, NEW i \in Items, i \notin s,
           OnePlace(F, h, d, s)
    PROVE  OnePlace(Put(F, b, i), h, d, s \cup {i})
  <1> DEFINE G == Put(F, b, i)
             n == Len(F[b]) + 1
  <1>1. /\ F \in [Boxes -> Seq(Items)] /\ h \in [Items -> Nat] /\ d \subseteq Items
        /\ Distinct(F)
    BY DEF OnePlace
  <1>2. h[i] = 0 /\ i \notin d /\ ~In(F, i)
    BY DEF OnePlace
  <1>3. /\ G \in [Boxes -> Seq(Items)] /\ G[b] = Append(F[b], i) /\ F[b] \in Seq(Items)
        /\ \A x \in Boxes \ {b} : G[x] = F[x]
    <2>1. F[b] \in Seq(Items) /\ Append(F[b], i) \in Seq(Items)
      BY <1>1
    <2> QED
      BY <1>1, <2>1 DEF Put
  <1> HIDE DEF G
  <1>4. n \in Nat /\ n \in DOMAIN G[b] /\ G[b][n] = i
    BY <1>3
  <1>5. ASSUME NEW x \in Boxes, NEW k \in DOMAIN G[x]
        PROVE  \/ x = b /\ k = n /\ G[x][k] = i
               \/ k \in DOMAIN F[x] /\ G[x][k] = F[x][k] /\ G[x][k] # i
    <2>1. CASE x = b
      <3>1. /\ DOMAIN G[x] = 1 .. n /\ DOMAIN F[x] = 1 .. (n - 1)
            /\ G[x][n] = i /\ \A m \in 1 .. (n - 1) : G[x][m] = F[x][m]
        BY <1>3, <2>1, AppendProperties
      <3>2. \/ k = n /\ G[x][k] = i
            \/ k \in DOMAIN F[x] /\ G[x][k] = F[x][k]
        BY <1>4, <1>5, <3>1
      <3> QED
        BY <1>2, <2>1, <3>2 DEF In
    <2>2. CASE x # b
      BY <1>2, <1>3, <2>2 DEF In
    <2> QED
      BY <2>1, <2>2
  <1>6. \A x \in Boxes : \A k \in DOMAIN F[x] : k \in DOMAIN G[x] /\ G[x][k] = F[x][k]
    <2>1. \A k \in DOMAIN F[b] : k \in DOMAIN G[b] /\ G[b][k] = F[b][k]
      BY <1>3, AppendProperties
    <2> QED
      BY <1>3, <2>1
  <1> HIDE DEF n
  <1>7. Distinct(G)
    <2> SUFFICES ASSUME NEW x \in Boxes, NEW y \in Boxes,
                        NEW j \in DOMAIN G[x], NEW k \in DOMAIN G[y], G[x][j] = G[y][k]
                 PROVE  x = y /\ j = k
      BY DEF Distinct
    <2>1. \/ x = b /\ j = n /\ G[x][j] = i
          \/ j \in DOMAIN F[x] /\ G[x][j] = F[x][j] /\ G[x][j] # i
      BY <1>5
    <2>2. \/ y = b /\ k = n /\ G[y][k] = i
          \/ k \in DOMAIN F[y] /\ G[y][k] = F[y][k] /\ G[y][k] # i
      BY <1>5
    <2> QED
      BY <1>1, <2>1, <2>2 DEF Distinct
  <1>8. \A u : In(G, u) <=> In(F, u) \/ u = i
    <2>1. ASSUME NEW u, In(G, u) PROVE In(F, u) \/ u = i
      BY <1>5, <2>1 DEF In
    <2>2. ASSUME NEW u, In(F, u) PROVE In(G, u)
      BY <1>6, <2>2 DEF In
    <2>3. In(G, i)
      BY <1>4 DEF In
    <2> QED
      BY <2>1, <2>2, <2>3
  <1>9. ASSUME NEW u \in Items
        PROVE  /\ h[u] \in {0, 1}
               /\ h[u] = 1 => u \notin d /\ ~In(G, u)
               /\ u \in d => ~In(G, u)
               /\ u \in s \cup {i} <=> (h[u] = 1 \/ u \in d \/ In(G, u))
    <2>1. /\ h[u] \in {0, 1}
          /\ h[u] = 1 => u \notin d /\ ~In(F, u)
          /\ u \in d => ~In(F, u)
          /\ u \in s <=> (h[u] = 1 \/ u \in d \/ In(F, u))
      BY DEF OnePlace
    <2> QED
      BY <1>2, <1>8, <2>1
  <1> QED
    BY <1>1, <1>3, <1>7, <1>9 DEF OnePlace, G

LEMMA NoteItem ==
    ASSUME NEW F, NEW h, NEW d, NEW s, NEW i \in Items, i \notin s,
           OnePlace(F, h, d, s)
    PROVE  OnePlace(F, Recorded(h, <<i>>), d, s \cup {i})
  <1> DEFINE g == Recorded(h, <<i>>)
  <1>1. /\ F \in [Boxes -> Seq(Items)] /\ h \in [Items -> Nat] /\ d \subseteq Items
        /\ Distinct(F) /\ h[i] = 0 /\ i \notin d /\ ~In(F, i)
    BY DEF OnePlace
  <1>2. Range(<<i>>) = {i}
    BY DEF Range
  <1>3. g \in [Items -> Nat] /\ \A u \in Items : g[u] = IF u = i THEN 1 ELSE h[u]
    BY <1>1, <1>2 DEF Recorded
  <1> HIDE DEF g
  <1>4. ASSUME NEW u \in Items
        PROVE  /\ g[u] \in {0, 1}
               /\ g[u] = 1 => u \notin d /\ ~In(F, u)
               /\ u \in d => ~In(F, u)
               /\ u \in s \cup {i} <=> (g[u] = 1 \/ u \in d \/ In(F, u))
    <2>1. /\ h[u] \in {0, 1}
          /\ h[u] = 1 => u \notin d /\ ~In(F, u)
          /\ u \in d => ~In(F, u)
          /\ u \in s <=> (h[u] = 1 \/ u \in d \/ In(F, u))
      BY DEF OnePlace
    <2> QED
      BY <1>1, <1>3, <2>1
  <1> QED
    BY <1>1, <1>3, <1>4 DEF OnePlace, g

-----------------------------------------------------------------------------
(* The boxes of a session *)

Ledger == OnePlace(Content, history, dropped, sent)

LEMMA TheBoxes ==
    /\ Mailbox \in Boxes
    /\ \A ts \in States : Queue(ts) \in Boxes
    /\ \A t \in Turns : Hands(t) \in Boxes
    /\ \A a \in Actors : Start(a) \in Boxes /\ Taken(a) \in Boxes
    /\ \A b \in Boxes : \/ b = Mailbox
                        \/ \E ts \in States : b = Queue(ts)
                        \/ \E t \in Turns : b = Hands(t)
                        \/ \E a \in Actors : b = Start(a) \/ b = Taken(a)
  BY DEF Boxes

LEMMA BoxesApart ==
    /\ \A ts : Mailbox # Queue(ts)
    /\ \A t : Mailbox # Hands(t)
    /\ \A a : Mailbox # Start(a) /\ Mailbox # Taken(a)
    /\ \A ts, t : Queue(ts) # Hands(t) /\ Queue(ts) # Start(t) /\ Queue(ts) # Taken(t)
    /\ \A a, t : Hands(t) # Start(a) /\ Hands(t) # Taken(a)
    /\ \A a, b : Start(a) # Taken(b)
    /\ \A x, y : /\ Queue(x) = Queue(y) => x = y
                 /\ Hands(x) = Hands(y) => x = y
                 /\ Start(x) = Start(y) => x = y
                 /\ Taken(x) = Taken(y) => x = y
  BY DEF Mailbox, Queue, Hands, Start, Taken

(* The content of the boxes, told by the four variables it is found in.         *)
Contents(m, p, k, c) ==
    [b \in Boxes |-> CASE b[1] = "mail"  -> m
                       [] b[1] = "queue" -> p[b[2]]
                       [] b[1] = "task"  -> k[b[2]].held
                       [] b[1] = "start" -> c[b[2]].input
                       [] OTHER          -> c[b[2]].held]
Agrees(F, m, p, k, c) ==
    /\ F[Mailbox] = m
    /\ \A ts \in States : F[Queue(ts)] = p[ts]
    /\ \A t \in Turns : F[Hands(t)] = k[t].held
    /\ \A a \in Actors : F[Start(a)] = c[a].input
    /\ \A a \in Actors : F[Taken(a)] = c[a].held

LEMMA ContentsAgree ==
    ASSUME NEW m, NEW p, NEW k, NEW c
    PROVE  Agrees(Contents(m, p, k, c), m, p, k, c)
  <1>1. /\ Mailbox[1] = "mail"
        /\ \A ts : Queue(ts)[1] = "queue" /\ Queue(ts)[2] = ts
        /\ \A t : Hands(t)[1] = "task" /\ Hands(t)[2] = t
        /\ \A a : Start(a)[1] = "start" /\ Start(a)[2] = a
        /\ \A a : Taken(a)[1] = "taken" /\ Taken(a)[2] = a
    BY DEF Mailbox, Queue, Hands, Start, Taken
  <1>2. Contents(m, p, k, c)[Mailbox] = m
    BY <1>1, TheBoxes DEF Contents
  <1>3. ASSUME NEW ts \in States PROVE Contents(m, p, k, c)[Queue(ts)] = p[ts]
    BY <1>1, TheBoxes DEF Contents
  <1>4. ASSUME NEW t \in Turns PROVE Contents(m, p, k, c)[Hands(t)] = k[t].held
    BY <1>1, TheBoxes DEF Contents
  <1>5. ASSUME NEW a \in Actors PROVE Contents(m, p, k, c)[Start(a)] = c[a].input
    BY <1>1, TheBoxes DEF Contents
  <1>6. ASSUME NEW a \in Actors PROVE Contents(m, p, k, c)[Taken(a)] = c[a].held
    BY <1>1, TheBoxes DEF Contents
  <1> QED
    BY <1>2, <1>3, <1>4, <1>5, <1>6 DEF Agrees

LEMMA ContentNow ==
    /\ Agrees(Content, mailbox, pending, task, actor)
    /\ Content = [b \in Boxes |-> Content[b]]
  <1>1. Content = Contents(mailbox, pending, task, actor)
    BY DEF Content, Contents
  <1>2. Contents(mailbox, pending, task, actor)
           = [b \in Boxes |-> Contents(mailbox, pending, task, actor)[b]]
    BY DEF Contents
  <1> QED
    BY <1>1, <1>2, ContentsAgree

LEMMA ContentThen ==
    /\ Agrees(Content', mailbox', pending', task', actor')
    /\ Content' = [b \in Boxes |-> Content'[b]]
  <1>1. Content' = Contents(mailbox', pending', task', actor')
    BY DEF Content, Contents
  <1>2. Contents(mailbox', pending', task', actor')
           = [b \in Boxes |-> Contents(mailbox', pending', task', actor')[b]]
    BY DEF Contents
  <1> QED
    BY <1>1, <1>2, ContentsAgree

(* Only the boxes of S change.                                                  *)
Same(S) == \A x \in Boxes \ S : Content'[x] = Content[x]

LEMMA SameBut ==
    ASSUME NEW S,
           Mailbox \in S \/ mailbox' = mailbox,
           \A ts \in States : Queue(ts) \in S \/ pending'[ts] = pending[ts],
           \A t \in Turns : Hands(t) \in S \/ task'[t].held = task[t].held,
           \A a \in Actors : Start(a) \in S \/ actor'[a].input = actor[a].input,
           \A a \in Actors : Taken(a) \in S \/ actor'[a].held = actor[a].held
    PROVE  Same(S)
  <1> SUFFICES ASSUME NEW x \in Boxes \ S PROVE Content'[x] = Content[x]
    BY DEF Same
  <1>1. CASE x = Mailbox
    BY <1>1, ContentNow, ContentThen DEF Agrees
  <1>2. ASSUME NEW ts \in States, x = Queue(ts) PROVE Content'[x] = Content[x]
    BY <1>2, ContentNow, ContentThen DEF Agrees
  <1>3. ASSUME NEW t \in Turns, x = Hands(t) PROVE Content'[x] = Content[x]
    BY <1>3, ContentNow, ContentThen DEF Agrees
  <1>4. ASSUME NEW a \in Actors, x = Start(a) PROVE Content'[x] = Content[x]
    BY <1>4, ContentNow, ContentThen DEF Agrees
  <1>5. ASSUME NEW a \in Actors, x = Taken(a) PROVE Content'[x] = Content[x]
    BY <1>5, ContentNow, ContentThen DEF Agrees
  <1> QED
    BY <1>1, <1>2, <1>3, <1>4, <1>5, TheBoxes

(* The next content is F, if it is so in every box.                             *)
LEMMA LedgerNext ==
    ASSUME NEW F, OnePlace(F, history', dropped', sent'),
           \A x \in Boxes : Content'[x] = F[x]
    PROVE  Ledger'
  <1>1. F = [b \in Boxes |-> F[b]]
    BY DEF OnePlace
  <1>2. Content' = F
    BY <1>1, ContentThen
  <1>3. OnePlace(Content', history', dropped', sent')
    BY <1>2
  <1> QED
    BY <1>3 DEF Ledger

LEMMA LedgerBoxes == ASSUME Ledger PROVE Content \in [Boxes -> Seq(Items)]
  BY DEF Ledger, OnePlace

(* What the operations on boxes leave in each of them.                          *)
LEMMA EmptiedAt ==
    ASSUME NEW F \in [Boxes -> Seq(Items)], NEW b \in Boxes
    PROVE  \A x \in Boxes : Emptied(F, b)[x] = IF x = b THEN <<>> ELSE F[x]
  BY DEF Emptied

LEMMA PutAt ==
    ASSUME NEW F \in [Boxes -> Seq(Items)], NEW b \in Boxes, NEW i
    PROVE  \A x \in Boxes : Put(F, b, i)[x] = IF x = b THEN Append(F[b], i) ELSE F[x]
  BY DEF Put

LEMMA PouredAt ==
    ASSUME NEW F \in [Boxes -> Seq(Items)], NEW b \in Boxes, NEW c \in Boxes, b # c
    PROVE  \A x \in Boxes : Poured(F, b, c)[x] = IF x = b THEN <<>>
                                                ELSE IF x = c THEN F[c] \o F[b] ELSE F[x]
  BY DEF Poured

(* A step that moves nothing, puts an item in a box, records, drops or pours a  *)
(* box.                                                                         *)
LEMMA LedgerKept ==
    ASSUME Ledger, Same({}), UNCHANGED <<history, dropped, sent>>
    PROVE  Ledger'
  <1>1. OnePlace(Content, history', dropped', sent')
    BY DEF Ledger
  <1>2. \A x \in Boxes : Content'[x] = Content[x]
    BY DEF Same
  <1> QED
    BY <1>1, <1>2, LedgerNext

LEMMA LedgerPut ==
    ASSUME Ledger, NEW b \in Boxes, NEW i \in Items, i \notin sent, sent' = sent \cup {i},
           Same({b}), Content'[b] = Append(Content[b], i), UNCHANGED <<history, dropped>>
    PROVE  Ledger'
  <1> DEFINE F == Put(Content, b, i)
  <1>1. OnePlace(F, history', dropped', sent')
    BY PutInBox DEF Ledger
  <1>2. \A x \in Boxes : F[x] = IF x = b THEN Append(Content[b], i) ELSE Content[x]
    BY LedgerBoxes, PutAt
  <1> HIDE DEF F
  <1>3. \A x \in Boxes : Content'[x] = F[x]
    BY <1>2 DEF Same
  <1> QED
    BY <1>1, <1>3, LedgerNext

LEMMA LedgerRecord ==
    ASSUME Ledger, NEW b \in Boxes, RecordItems(Content[b]),
           Same({b}), Content'[b] = <<>>, UNCHANGED <<dropped, sent>>
    PROVE  Ledger'
  <1> DEFINE F == Emptied(Content, b)
  <1>1. OnePlace(F, history', dropped', sent')
    <2>1. history' = Recorded(history, Content[b])
      BY DEF RecordItems, Recorded
    <2>2. OnePlace(F, Recorded(history, Content[b]), dropped, sent)
      BY RecordBox DEF Ledger
    <2> QED
      BY <2>1, <2>2
  <1>2. \A x \in Boxes : F[x] = IF x = b THEN <<>> ELSE Content[x]
    BY LedgerBoxes, EmptiedAt
  <1> HIDE DEF F
  <1>3. \A x \in Boxes : Content'[x] = F[x]
    BY <1>2 DEF Same
  <1> QED
    BY <1>1, <1>3, LedgerNext

LEMMA LedgerDrop ==
    ASSUME Ledger, NEW b \in Boxes, Drop(Content[b]),
           Same({b}), Content'[b] = <<>>, UNCHANGED <<history, sent>>
    PROVE  Ledger'
  <1> DEFINE F == Emptied(Content, b)
  <1>1. OnePlace(F, history', dropped', sent')
    <2>1. OnePlace(F, history, dropped \cup Range(Content[b]), sent)
      BY DropBox DEF Ledger
    <2> QED
      BY <2>1 DEF Drop
  <1>2. \A x \in Boxes : F[x] = IF x = b THEN <<>> ELSE Content[x]
    BY LedgerBoxes, EmptiedAt
  <1> HIDE DEF F
  <1>3. \A x \in Boxes : Content'[x] = F[x]
    BY <1>2 DEF Same
  <1> QED
    BY <1>1, <1>3, LedgerNext

LEMMA LedgerDropTwo ==
    ASSUME Ledger, NEW b \in Boxes, NEW c \in Boxes, b # c, Drop(Content[b] \o Content[c]),
           Same({b, c}), Content'[b] = <<>>, Content'[c] = <<>>, UNCHANGED <<history, sent>>
    PROVE  Ledger'
  <1> DEFINE F == Emptied(Content, b)
             G == Emptied(F, c)
  <1>1. Content \in [Boxes -> Seq(Items)]
    BY LedgerBoxes
  <1>2. OnePlace(F, history, dropped \cup Range(Content[b]), sent)
    BY DropBox DEF Ledger
  <1>3. F \in [Boxes -> Seq(Items)]
    BY <1>2 DEF OnePlace
  <1>4. \A x \in Boxes : F[x] = IF x = b THEN <<>> ELSE Content[x]
    BY <1>1, EmptiedAt
  <1> HIDE DEF F
  <1>5. OnePlace(G, history, (dropped \cup Range(Content[b])) \cup Range(F[c]), sent)
    BY <1>2, DropBox
  <1>6. dropped' = (dropped \cup Range(Content[b])) \cup Range(F[c])
    <2>1. Range(Content[b] \o Content[c]) = Range(Content[b]) \cup Range(Content[c])
      BY <1>1, RangeOfConcat
    <2> QED
      BY <1>4, <2>1 DEF Drop
  <1>7. \A x \in Boxes : G[x] = IF x = c THEN <<>> ELSE F[x]
    BY <1>3, EmptiedAt
  <1> HIDE DEF G
  <1>8. \A x \in Boxes : Content'[x] = G[x]
    BY <1>4, <1>7 DEF Same
  <1> QED
    BY <1>5, <1>6, <1>8, LedgerNext

LEMMA LedgerPour ==
    ASSUME Ledger, NEW b \in Boxes, NEW c \in Boxes, b # c, Same({b, c}),
           Content'[b] = <<>>, Content'[c] = Content[c] \o Content[b],
           UNCHANGED <<history, dropped, sent>>
    PROVE  Ledger'
  <1> DEFINE F == Poured(Content, b, c)
  <1>1. OnePlace(F, history', dropped', sent')
    BY PourBox DEF Ledger
  <1>2. \A x \in Boxes : F[x] = IF x = b THEN <<>>
                                ELSE IF x = c THEN Content[c] \o Content[b] ELSE Content[x]
    BY LedgerBoxes, PouredAt
  <1> HIDE DEF F
  <1>3. \A x \in Boxes : Content'[x] = F[x]
    BY <1>2 DEF Same
  <1> QED
    BY <1>1, <1>3, LedgerNext

LEMMA LedgerPourTwo ==
    ASSUME Ledger, NEW b \in Boxes, NEW d \in Boxes, NEW c \in Boxes, b # c, d # c, b # d,
           Same({b, d, c}), Content'[b] = <<>>, Content'[d] = <<>>,
           Content'[c] = (Content[c] \o Content[b]) \o Content[d],
           UNCHANGED <<history, dropped, sent>>
    PROVE  Ledger'
  <1> DEFINE F == Poured(Content, b, c)
             G == Poured(F, d, c)
  <1>1. Content \in [Boxes -> Seq(Items)]
    BY LedgerBoxes
  <1>2. OnePlace(F, history, dropped, sent)
    BY PourBox DEF Ledger
  <1>3. F \in [Boxes -> Seq(Items)]
    BY <1>2 DEF OnePlace
  <1>4. \A x \in Boxes : F[x] = IF x = b THEN <<>>
                                ELSE IF x = c THEN Content[c] \o Content[b] ELSE Content[x]
    BY <1>1, PouredAt
  <1> HIDE DEF F
  <1>5. OnePlace(G, history', dropped', sent')
    BY <1>2, PourBox
  <1>6. \A x \in Boxes : G[x] = IF x = d THEN <<>> ELSE IF x = c THEN F[c] \o F[d] ELSE F[x]
    BY <1>3, PouredAt
  <1> HIDE DEF G
  <1>7. \A x \in Boxes : Content'[x] = G[x]
    BY <1>4, <1>6 DEF Same
  <1> QED
    BY <1>5, <1>7, LedgerNext

LEMMA LedgerDropPour ==
    ASSUME Ledger, NEW e \in Boxes, NEW b \in Boxes, NEW c \in Boxes, b # c, e # b, e # c,
           Same({e, b, c}), Content'[e] = <<>>, Content'[b] = <<>>,
           Content'[c] = Content[c] \o Content[b], Drop(Content[e]),
           UNCHANGED <<history, sent>>
    PROVE  Ledger'
  <1> DEFINE F == Emptied(Content, e)
             G == Poured(F, b, c)
  <1>1. Content \in [Boxes -> Seq(Items)]
    BY LedgerBoxes
  <1>2. OnePlace(F, history, dropped \cup Range(Content[e]), sent)
    BY DropBox DEF Ledger
  <1>3. F \in [Boxes -> Seq(Items)]
    BY <1>2 DEF OnePlace
  <1>4. \A x \in Boxes : F[x] = IF x = e THEN <<>> ELSE Content[x]
    BY <1>1, EmptiedAt
  <1> HIDE DEF F
  <1>5. OnePlace(G, history', dropped', sent')
    <2>1. OnePlace(F, history', dropped', sent')
      BY <1>2 DEF Drop
    <2> QED
      BY <2>1, PourBox
  <1>6. \A x \in Boxes : G[x] = IF x = b THEN <<>> ELSE IF x = c THEN F[c] \o F[b] ELSE F[x]
    BY <1>3, PouredAt
  <1> HIDE DEF G
  <1>7. \A x \in Boxes : Content'[x] = G[x]
    BY <1>4, <1>6 DEF Same
  <1> QED
    BY <1>5, <1>7, LedgerNext

-----------------------------------------------------------------------------
(* Where each step moves the items *)

OnlyHands(t, s) ==
    /\ task'[t].held = s
    /\ \A u \in Turns \ {t} : task'[u].held = task[u].held

LEMMA HandsOf == \A t \in Turns : Content[Hands(t)] = task[t].held
                                  /\ Content'[Hands(t)] = task'[t].held
  BY ContentNow, ContentThen DEF Agrees

LEMMA HandsRecorded ==
    ASSUME Ledger, NEW t \in Turns, RecordItems(task[t].held), OnlyHands(t, <<>>),
           UNCHANGED <<mailbox, pending, actor, dropped, sent>>
    PROVE  Ledger'
  <1>1. Same({Hands(t)})
    BY SameBut DEF OnlyHands
  <1>2. RecordItems(Content[Hands(t)]) /\ Content'[Hands(t)] = <<>> /\ Hands(t) \in Boxes
    BY HandsOf, TheBoxes DEF OnlyHands
  <1> QED
    BY <1>1, <1>2, LedgerRecord

LEMMA HandsDropped ==
    ASSUME Ledger, NEW t \in Turns, Drop(task[t].held), OnlyHands(t, <<>>),
           UNCHANGED <<mailbox, pending, actor, history, sent>>
    PROVE  Ledger'
  <1>1. Same({Hands(t)})
    BY SameBut DEF OnlyHands
  <1>2. Drop(Content[Hands(t)]) /\ Content'[Hands(t)] = <<>> /\ Hands(t) \in Boxes
    BY HandsOf, TheBoxes DEF OnlyHands
  <1> QED
    BY <1>1, <1>2, LedgerDrop

LEMMA NothingMoves ==
    ASSUME Ledger, UNCHANGED <<mailbox, pending, history, dropped, sent>>,
           \A t \in Turns : task'[t].held = task[t].held,
           \A a \in Actors : actor'[a].input = actor[a].input /\ actor'[a].held = actor[a].held
    PROVE  Ledger'
  <1>1. Same({})
    BY SameBut
  <1> QED
    BY <1>1, LedgerKept

(* The steps that record what the task holds.                                   *)
LEMMA RecordsLedger ==
    ASSUME Inv, Ledger, NEW t \in Turns, StartTask(t) \/ RecordInput(t) \/ SendTerminal(t)
    PROVE  Ledger'
  <1>1. /\ task \in [Turns -> Task] /\ RecordItems(task[t].held)
        /\ UNCHANGED <<pending, mailbox, actor, dropped, sent>>
    BY DEF StartTask, RecordInput, SendTerminal, Inv, TypeOK
  <1>2. OnlyHands(t, <<>>)
    <2>1. CASE StartTask(t)
      BY <1>1, <2>1 DEF StartTask, Task, OnlyHands
    <2>2. CASE RecordInput(t)
      BY <1>1, <2>2 DEF RecordInput, Task, OnlyHands
    <2>3. CASE SendTerminal(t)
      BY <1>1, <2>3 DEF SendTerminal, Task, OnlyHands
    <2> QED
      BY <2>1, <2>2, <2>3
  <1> QED
    BY <1>1, <1>2, HandsRecorded

(* The steps that throw away what the task holds.                               *)
LEMMA GivesUpLedger ==
    ASSUME Inv, Ledger, NEW t \in Turns, StartFails(t) \/ ObserveCancel(t)
    PROVE  Ledger'
  <1>1. /\ task \in [Turns -> Task] /\ Drop(task[t].held)
        /\ UNCHANGED <<pending, mailbox, actor, history, sent>>
    BY DEF StartFails, ObserveCancel, Inv, TypeOK
  <1>2. OnlyHands(t, <<>>)
    <2>1. PICK pc : task' = [task EXCEPT ![t].pc = pc, ![t].held = <<>>]
      BY DEF StartFails, ObserveCancel
    <2> QED
      BY <1>1, <2>1 DEF Task, OnlyHands
  <1> QED
    BY <1>1, <1>2, HandsDropped

(* The steps of a task that moves no item.                                      *)
LEMMA GoesOnLedger ==
    ASSUME Inv, Ledger, NEW t \in Turns,
           \/ Answer(t) \/ CallTool(t) \/ SampleFails(t)
           \/ AfterAnswer(t) \/ CheckPending(t) \/ EndTask(t) \/ ClearActiveTurn(t)
    PROVE  Ledger'
  <1>1. /\ task \in [Turns -> Task]
        /\ task[t].pc \in {"sample", "sampled", "check", "ended", "clear"}
        /\ UNCHANGED <<pending, mailbox, actor, history, dropped, sent>>
    BY DEF Answer, CallTool, SampleFails, AfterAnswer, CheckPending, EndTask,
           ClearActiveTurn, At, Inv, TypeOK
  <1>2. task[t].held = <<>>
    BY <1>1, EmptyHands
  <1>3. \A u \in Turns : task'[u].held = task[u].held
    <2>1. CASE Answer(t) \/ SampleFails(t) \/ CheckPending(t)
      <3>1. PICK pc : task' = [task EXCEPT ![t].pc = pc]
        BY <2>1 DEF Answer, SampleFails, CheckPending, Go
      <3> QED
        BY <1>1, <3>1 DEF Task
    <2>2. CASE CallTool(t) \/ AfterAnswer(t)
      <3>1. PICK pc, d : task' = [task EXCEPT ![t].pc = pc, ![t].drain = d]
        BY <2>2 DEF CallTool, AfterAnswer
      <3> QED
        BY <1>1, <3>1 DEF Task
    <2>3. CASE EndTask(t) \/ ClearActiveTurn(t)
      <3>1. PICK r : task' = [task EXCEPT ![t] = r] /\ (r = Gone \/ r = [task[t] EXCEPT !.pc = "finish"])
        BY <1>1, <2>3 DEF EndTask, ClearActiveTurn
      <3>2. task[t] \in Task /\ r.held = <<>>
        BY <1>1, <1>2, <3>1, GoneIsTask DEF Task
      <3> QED
        BY <1>1, <1>2, <3>1, <3>2
    <2> QED
      BY <2>1, <2>2, <2>3
  <1> QED
    BY <1>1, <1>3, NothingMoves

(* What get_pending_input takes goes into a box that was empty.                 *)
LEMMA PendingTaken ==
    ASSUME Inv, Ledger, NEW c \in Boxes, c # Mailbox, \A ts \in States : c # Queue(ts),
           Content[c] = <<>>, Content'[c] = PendingInput, MailTaken,
           pending' = IF active = None THEN pending ELSE [pending EXCEPT ![active.ts] = <<>>],
           Same({c, Mailbox} \cup {Queue(ts) : ts \in States}),
           UNCHANGED <<history, dropped, sent>>
    PROVE  Ledger'
  <1> DEFINE q == Queue(active.ts)
             All == {c, Mailbox} \cup {Queue(ts) : ts \in States}
  <1>1. /\ mailbox \in Seq(Items) /\ pending \in [States -> Seq(Items)]
        /\ \A ts \in States : pending[ts] \in Seq(Items)
        /\ active # None => active.ts \in States
    BY ItemSeqs DEF Inv, TypeOK
  <1>2. /\ Content[Mailbox] = mailbox /\ Content'[Mailbox] = mailbox'
        /\ \A ts \in States : Content[Queue(ts)] = pending[ts] /\ Content'[Queue(ts)] = pending'[ts]
    BY ContentNow, ContentThen DEF Agrees
  <1>3. \A x \in Boxes : x = c \/ x = Mailbox \/ (\E ts \in States : x = Queue(ts))
                         \/ Content'[x] = Content[x]
    BY DEF Same
  <1>4. ASSUME NEW s \in Seq(Items) PROVE <<>> \o s = s /\ s \o <<>> = s
    OBVIOUS
  <1>5. CASE active = None
    <2>1. PendingInput = <<>> \o mailbox /\ mailbox' = <<>> /\ pending' = pending
      BY <1>5 DEF PendingInput, AcceptsMailbox, MailTaken
    <2>2. Same({Mailbox, c})
      BY <1>2, <1>3, <2>1 DEF Same
    <2>3. Content'[Mailbox] = <<>> /\ Content'[c] = Content[c] \o Content[Mailbox]
      BY <1>2, <2>1
    <2> QED
      BY <2>2, <2>3, TheBoxes, LedgerPour
  <1>6. CASE active # None /\ AcceptsMailbox
    <2>1. /\ PendingInput = pending[active.ts] \o mailbox /\ mailbox' = <<>>
          /\ pending' = [pending EXCEPT ![active.ts] = <<>>] /\ active.ts \in States
      BY <1>1, <1>6 DEF PendingInput, MailTaken
    <2>2. q \in Boxes /\ q # c /\ q # Mailbox /\ Content[q] = pending[active.ts] /\ Content'[q] = <<>>
      BY <1>1, <1>2, <2>1, TheBoxes, BoxesApart
    <2>3. \A ts \in States : Queue(ts) # q => Content'[Queue(ts)] = Content[Queue(ts)]
      BY <1>1, <1>2, <2>1
    <2>4. Content'[c] = (Content[c] \o Content[q]) \o Content[Mailbox]
      <3>1. <<>> \o pending[active.ts] = pending[active.ts]
        BY <1>1, <1>4, <2>1
      <3> QED
        BY <1>2, <2>1, <2>2, <3>1
    <2> HIDE DEF q
    <2>5. Same({q, Mailbox, c})
      BY <1>3, <2>3 DEF Same
    <2> QED
      BY <1>2, <2>1, <2>2, <2>4, <2>5, TheBoxes, LedgerPourTwo
  <1>7. CASE active # None /\ ~AcceptsMailbox
    <2>1. /\ PendingInput = pending[active.ts] \o <<>> /\ mailbox' = mailbox
          /\ pending' = [pending EXCEPT ![active.ts] = <<>>] /\ active.ts \in States
      BY <1>1, <1>7 DEF PendingInput, MailTaken
    <2>2. q \in Boxes /\ q # c /\ Content[q] = pending[active.ts] /\ Content'[q] = <<>>
      BY <1>1, <1>2, <2>1, TheBoxes
    <2>3. \A ts \in States : Queue(ts) # q => Content'[Queue(ts)] = Content[Queue(ts)]
      BY <1>1, <1>2, <2>1
    <2>4. Content'[c] = Content[c] \o Content[q]
      <3>1. <<>> \o pending[active.ts] = pending[active.ts] \o <<>>
        BY <1>1, <1>4, <2>1
      <3> QED
        BY <2>1, <2>2, <3>1
    <2> HIDE DEF q
    <2>5. Same({q, c})
      BY <1>2, <1>3, <2>1, <2>3 DEF Same
    <2> QED
      BY <2>2, <2>4, <2>5, LedgerPour
  <1> QED
    BY <1>5, <1>6, <1>7

LEMMA DrainInputLedger ==
    ASSUME Inv, Ledger, NEW t \in Turns, DrainInput(t)
    PROVE  Ledger'
  <1>1. /\ task \in [Turns -> Task] /\ task[t].pc = "top"
        /\ UNCHANGED <<actor, history, dropped, sent>>
    BY DEF DrainInput, At, Inv, TypeOK
  <1>2. task[t].held = <<>>
    BY <1>1, EmptyHands
  <1>3. CASE task[t].drain
    <2>1. /\ task' = [task EXCEPT ![t].pc = "record", ![t].held = PendingInput]
          /\ pending' = IF active = None THEN pending ELSE [pending EXCEPT ![active.ts] = <<>>]
          /\ MailTaken
      BY <1>3 DEF DrainInput
    <2>2. OnlyHands(t, PendingInput)
      BY <1>1, <2>1 DEF Task, OnlyHands
    <2>3. Same({Hands(t), Mailbox} \cup {Queue(ts) : ts \in States})
      BY <1>1, <2>2, SameBut DEF OnlyHands
    <2>4. /\ Hands(t) \in Boxes /\ Hands(t) # Mailbox /\ \A ts \in States : Hands(t) # Queue(ts)
          /\ Content[Hands(t)] = <<>> /\ Content'[Hands(t)] = PendingInput
      BY <1>2, <2>2, TheBoxes, BoxesApart, HandsOf DEF OnlyHands
    <2> QED
      BY <1>1, <2>1, <2>3, <2>4, PendingTaken
  <1>4. CASE ~task[t].drain
    <2>1. task' = [task EXCEPT ![t].pc = "record"] /\ UNCHANGED <<pending, mailbox>>
      BY <1>4 DEF DrainInput, Go
    <2>2. \A u \in Turns : task'[u].held = task[u].held
      BY <1>1, <2>1 DEF Task
    <2> QED
      BY <1>1, <2>1, <2>2, NothingMoves
  <1> QED
    BY <1>3, <1>4

LEMMA TakeTaskLedger ==
    ASSUME Inv, Ledger, NEW t \in Turns, TakeTask(t)
    PROVE  Ledger'
  <1>1. /\ task \in [Turns -> Task] /\ pending \in [States -> Seq(Items)]
        /\ task[t].pc = "finish"
        /\ active # None => active.ts \in States
        /\ UNCHANGED <<mailbox, actor, history, dropped, sent>>
    BY ItemSeqs DEF TakeTask, At, Inv, TypeOK
  <1>2. task[t].held = <<>>
    BY <1>1, EmptyHands
  <1>3. CASE HasTask
    <2> DEFINE q == active.ts
    <2>1. /\ task' = [task EXCEPT ![t].pc = "terminal", ![t].ts = q, ![t].held = pending[q]]
          /\ pending' = [pending EXCEPT ![q] = <<>>] /\ q \in States
      BY <1>1, <1>3 DEF TakeTask, HasTask
    <2> HIDE DEF q
    <2>2. OnlyHands(t, pending[q])
      BY <1>1, <2>1 DEF Task, OnlyHands
    <2>3. /\ pending'[q] = <<>> /\ \A ts \in States \ {q} : pending'[ts] = pending[ts]
      BY <1>1, <2>1
    <2>4. Same({Queue(q), Hands(t)})
      BY <1>1, <2>2, <2>3, SameBut DEF OnlyHands
    <2>5. /\ Content[Queue(q)] = pending[q] /\ Content'[Queue(q)] = <<>>
          /\ Content[Hands(t)] = <<>> /\ Content'[Hands(t)] = pending[q]
          /\ Queue(q) \in Boxes /\ Hands(t) \in Boxes /\ Queue(q) # Hands(t)
      BY <1>2, <2>1, <2>2, <2>3, ContentNow, ContentThen, TheBoxes, BoxesApart
         DEF Agrees, OnlyHands
    <2>6. pending[q] = <<>> \o pending[q]
      <3>1. pending[q] \in Seq(Items)
        BY <1>1, <2>1
      <3> QED
        BY <3>1
    <2> QED
      BY <1>1, <2>4, <2>5, <2>6, LedgerPour
  <1>4. CASE ~HasTask
    <2>1. task' = [task EXCEPT ![t] = Gone] /\ UNCHANGED <<active, pending>>
      BY <1>4 DEF TakeTask
    <2>2. \A u \in Turns : task'[u].held = task[u].held
      BY <1>1, <1>2, <2>1, GoneIsTask
    <2> QED
      BY <1>1, <2>1, <2>2, NothingMoves
  <1> QED
    BY <1>3, <1>4

(* An actor moves and holds what it held.                                       *)
LEMMA ActorMoves ==
    ASSUME Inv, Ledger, NEW a \in Actors, NEW r, actor' = [actor EXCEPT ![a] = r],
           r.input = actor[a].input, r.held = actor[a].held,
           \A t \in Turns : task'[t].held = task[t].held,
           UNCHANGED <<mailbox, pending, history, dropped, sent>>
    PROVE  Ledger'
  <1>1. \A b \in Actors : actor'[b].input = actor[b].input /\ actor'[b].held = actor[b].held
    BY DEF Inv, TypeOK
  <1> QED
    BY <1>1, NothingMoves

LEMMA EmptyActor ==
    ASSUME Inv, NEW a \in Actors, ~Starts(a) \/ actor[a].at = "reserved"
    PROVE  actor[a].input = <<>> /\ actor[a].held = <<>>
  BY DEF Inv, ActorOK, Starts

LEMMA IdleMoves ==
    ASSUME Inv, Ledger, NEW a \in Actors, ~Starts(a) \/ actor[a].at = "reserved",
           NEW r, actor' = [actor EXCEPT ![a] = r], r.input = <<>>, r.held = <<>>,
           UNCHANGED <<mailbox, pending, task, history, dropped, sent>>
    PROVE  Ledger'
  <1>1. actor[a].input = <<>> /\ actor[a].held = <<>>
    BY EmptyActor
  <1> QED
    BY <1>1, ActorMoves

(* What a record made from Idle, or from an actor's, holds.                     *)
LEMMA KeepsItems ==
    ASSUME NEW q \in Actor, NEW x, NEW y, NEW z
    PROVE  /\ LET r == [q EXCEPT !.at = x] IN r.input = q.input /\ r.held = q.held
           /\ LET r == [q EXCEPT !.at = x, !.turn = y] IN r.input = q.input /\ r.held = q.held
           /\ LET r == [q EXCEPT !.at = x, !.reason = y] IN r.input = q.input /\ r.held = q.held
           /\ LET r == [q EXCEPT !.at = x, !.ts = y] IN r.input = q.input /\ r.held = q.held
           /\ LET r == [q EXCEPT !.at = x, !.victim = y, !.reason = z]
              IN  r.input = q.input /\ r.held = q.held
           /\ LET r == [q EXCEPT !.at = x, !.turn = y, !.ts = z]
              IN  r.input = q.input /\ r.held = q.held
           /\ LET r == [q EXCEPT !.at = x, !.victim = y, !.ts = z]
              IN  r.input = q.input /\ r.held = q.held
  BY DEF Actor

LEMMA SpawnedItems ==
    ASSUME NEW q \in Actor, NEW x, NEW y, NEW s, NEW k
    PROVE  LET r == [q EXCEPT !.at = x, !.turn = y, !.input = s, !.kind = k]
           IN  r.input = s /\ r.held = q.held
  BY DEF Actor

LEMMA InterruptsLedger ==
    ASSUME Inv, Ledger, Interrupt \/ \E t \in Turns : GuardianInterrupts(t)
    PROVE  Ledger'
  <1>1. UNCHANGED <<mailbox, pending, task, history, dropped, sent>>
    BY DEF Interrupt, GuardianInterrupts
  <1>2. CASE Interrupt
    <2> DEFINE r == [Idle EXCEPT !.at = "abort", !.reason = "interrupted"]
    <2>1. r.input = <<>> /\ r.held = <<>>
      BY IdleIsActor, KeepsItems
    <2>2. actor["loop"].at = "idle" /\ actor' = [actor EXCEPT !["loop"] = r] /\ "loop" \in Actors
      BY <1>2 DEF Interrupt, MayAct, Actors
    <2>3. ~Starts("loop")
      BY <2>2 DEF Starts
    <2> HIDE DEF r
    <2> QED
      BY <1>1, <2>1, <2>2, <2>3, IdleMoves
  <1>3. ASSUME NEW t \in Turns, GuardianInterrupts(t) PROVE Ledger'
    <2> DEFINE r == [Idle EXCEPT !.at = "abort", !.victim = t, !.reason = "interrupted"]
    <2>1. r.input = <<>> /\ r.held = <<>>
      BY IdleIsActor, KeepsItems
    <2>2. /\ actor["guardian"].at = "idle" /\ actor' = [actor EXCEPT !["guardian"] = r]
          /\ "guardian" \in Actors
      BY <1>3 DEF GuardianInterrupts, MayAct, Actors
    <2>3. ~Starts("guardian")
      BY <2>2 DEF Starts
    <2> HIDE DEF r
    <2> QED
      BY <1>1, <2>1, <2>2, <2>3, IdleMoves
  <1> QED
    BY <1>2, <1>3

LEMMA IdlersLedger ==
    ASSUME Inv, Ledger, NEW a \in Actors, CheckMail(a) \/ ReserveTurn(a) \/ GiveBack(a)
    PROVE  Ledger'
  <1>1. PICK r : actor' = [actor EXCEPT ![a] = r] /\ r.input = <<>> /\ r.held = <<>>
    <2>1. \/ \E at : actor' = [actor EXCEPT ![a] = [Idle EXCEPT !.at = at]]
          \/ \E at, t : actor' = [actor EXCEPT ![a] = [Idle EXCEPT !.at = at, !.turn = t]]
      BY IdleAgain DEF CheckMail, ReserveTurn, GiveBack
    <2>2. ASSUME NEW at, actor' = [actor EXCEPT ![a] = [Idle EXCEPT !.at = at]]
          PROVE  \E r : actor' = [actor EXCEPT ![a] = r] /\ r.input = <<>> /\ r.held = <<>>
      <3> WITNESS [Idle EXCEPT !.at = at]
      <3> QED
        BY <2>2, IdleIsActor, KeepsItems
    <2>3. ASSUME NEW at, NEW t,
                 actor' = [actor EXCEPT ![a] = [Idle EXCEPT !.at = at, !.turn = t]]
          PROVE  \E r : actor' = [actor EXCEPT ![a] = r] /\ r.input = <<>> /\ r.held = <<>>
      <3> WITNESS [Idle EXCEPT !.at = at, !.turn = t]
      <3> QED
        BY <2>3, IdleIsActor, KeepsItems
    <2> QED
      BY <2>1, <2>2, <2>3
  <1>2. UNCHANGED <<mailbox, pending, task, history, dropped, sent>>
    BY DEF CheckMail, ReserveTurn, GiveBack
  <1>3. ~Starts(a) \/ actor[a].at = "reserved"
    BY DEF Starts, CheckMail, ReserveTurn, GiveBack
  <1> QED
    BY <1>1, <1>2, <1>3, IdleMoves

LEMMA TryStartLedger == ASSUME Inv, Ledger, TryStartTurnIfIdle PROVE Ledger'
  <1> DEFINE r == [Idle EXCEPT !.at = "reserved", !.turn = turns + 1,
                               !.ts = <<turns + 1, "reserved">>]
  <1>1. actor' = [actor EXCEPT !["extension"] = r] /\ r.input = <<>> /\ r.held = <<>>
    BY IdleIsActor, KeepsItems DEF TryStartTurnIfIdle
  <1> HIDE DEF r
  <1>2. UNCHANGED <<mailbox, pending, task, history, dropped, sent>> /\ "extension" \in Actors
    BY DEF TryStartTurnIfIdle, Actors
  <1>3. ~Starts("extension")
    BY DEF Starts, TryStartTurnIfIdle, MayAct
  <1> QED
    BY <1>1, <1>2, <1>3, IdleMoves

LEMMA TakeActiveTurnLedger ==
    ASSUME Inv, Ledger, NEW a \in Actors, TakeActiveTurn(a)
    PROVE  Ledger'
  <1>1. actor \in [Actors -> Actor] /\ task \in [Turns -> Task]
    BY DEF Inv, TypeOK
  <1>2. UNCHANGED <<mailbox, pending, history, dropped, sent>>
    BY DEF TakeActiveTurn
  <1>3. \A t \in Turns : task'[t].held = task[t].held
    <2>1. task' = task \/ task' = [task EXCEPT ![active.task].cancelled = TRUE]
      BY DEF TakeActiveTurn
    <2> QED
      BY <1>1, <2>1 DEF Task
  <1>4. PICK r : /\ actor' = [actor EXCEPT ![a] = r]
                 /\ r.input = actor[a].input /\ r.held = actor[a].held
    <2>1. \/ \E at : actor' = [actor EXCEPT ![a].at = at]
          \/ \E v, ts : actor' = [actor EXCEPT ![a].at = "waiting", ![a].victim = v, ![a].ts = ts]
      BY DEF TakeActiveTurn
    <2>2. ASSUME NEW at, actor' = [actor EXCEPT ![a].at = at]
          PROVE  \E r : /\ actor' = [actor EXCEPT ![a] = r]
                        /\ r.input = actor[a].input /\ r.held = actor[a].held
      <3> WITNESS [actor[a] EXCEPT !.at = at]
      <3> QED
        BY <1>1, <2>2 DEF Actor
    <2>3. ASSUME NEW v, NEW ts,
                 actor' = [actor EXCEPT ![a].at = "waiting", ![a].victim = v, ![a].ts = ts]
          PROVE  \E r : /\ actor' = [actor EXCEPT ![a] = r]
                        /\ r.input = actor[a].input /\ r.held = actor[a].held
      <3> WITNESS [actor[a] EXCEPT !.at = "waiting", !.victim = v, !.ts = ts]
      <3> QED
        BY <1>1, <2>3 DEF Actor
    <2> QED
      BY <2>1, <2>2, <2>3
  <1> QED
    BY <1>2, <1>3, <1>4, ActorMoves

LEMMA OpenTurnLedger == ASSUME Inv, Ledger, NEW a \in Actors, OpenTurn(a) PROVE Ledger'
  <1>1. actor[a] \in Actor /\ actor \in [Actors -> Actor]
    BY DEF Inv, TypeOK
  <1>2. UNCHANGED <<mailbox, pending, task, history, dropped, sent>>
    BY DEF OpenTurn
  <1>3. PICK ts : actor' = [actor EXCEPT ![a].at = "fill", ![a].ts = ts]
    BY DEF OpenTurn
  <1> DEFINE r == [actor[a] EXCEPT !.at = "fill", !.ts = ts]
  <1>4. actor' = [actor EXCEPT ![a] = r] /\ r.input = actor[a].input /\ r.held = actor[a].held
    BY <1>1, <1>3 DEF Actor
  <1> HIDE DEF r
  <1> QED
    BY <1>2, <1>4, ActorMoves

-----------------------------------------------------------------------------

(* An item that is submitted.                                                   *)
LEMMA QueuePut ==
    ASSUME Inv, Ledger, NEW ts \in States, NEW i \in Items, i \notin sent,
           sent' = sent \cup {i}, pending' = [pending EXCEPT ![ts] = Append(@, i)],
           UNCHANGED <<mailbox, task, history, dropped>>,
           \A a \in Actors : actor'[a].input = actor[a].input /\ actor'[a].held = actor[a].held
    PROVE  Ledger'
  <1>1. /\ pending'[ts] = Append(pending[ts], i)
        /\ \A q \in States \ {ts} : pending'[q] = pending[q]
    BY DEF Inv, TypeOK
  <1>2. Same({Queue(ts)})
    BY <1>1, SameBut
  <1>3. Content'[Queue(ts)] = Append(Content[Queue(ts)], i) /\ Queue(ts) \in Boxes
    BY <1>1, ContentNow, ContentThen, TheBoxes DEF Agrees
  <1> QED
    BY <1>2, <1>3, LedgerPut

LEMMA SteersLedger ==
    ASSUME Inv, Ledger, NEW u \in Inputs, SteerIn(u), u \notin sent, sent' = sent \cup {u},
           UNCHANGED <<active, mailbox, task, history, dropped>>
    PROVE  Ledger'
  <1>1. active.ts \in States /\ u \in Items
    BY ItemSeqs DEF SteerIn, HasTask, Inv, Items
  <1>2. pending' = [pending EXCEPT ![active.ts] = Append(@, u)] /\ actor' = actor
    BY DEF SteerIn
  <1> QED
    BY <1>1, <1>2, QueuePut

LEMMA SubmitInputLedger ==
    ASSUME Inv, Ledger, NEW u \in Inputs, SubmitInput(u)
    PROVE  Ledger'
  <1>1. /\ actor["loop"].at = "idle" /\ u \notin sent /\ sent' = sent \cup {u} /\ u \in Items
        /\ "loop" \in Actors /\ UNCHANGED <<active, mailbox, task, history, dropped>>
    BY DEF SubmitInput, MayAct, Items, Actors
  <1>2. CASE SteerIn(u)
    BY <1>1, <1>2, SteersLedger
  <1>3. CASE ~HasTask /\ Spawn(<<u>>, "regular") /\ UNCHANGED <<pending, deferred>>
    <2>1. actor["loop"].input = <<>> /\ actor["loop"].held = <<>>
      BY <1>1, EmptyActor DEF Starts
    <2> DEFINE r == [Idle EXCEPT !.at = "abort", !.turn = turns + 1, !.input = <<u>>,
                                 !.kind = "regular"]
    <2>2. actor' = [actor EXCEPT !["loop"] = r] /\ r.input = <<u>> /\ r.held = <<>>
      BY <1>3, IdleIsActor, SpawnedItems DEF Spawn
    <2> HIDE DEF r
    <2>3. /\ actor'["loop"].input = <<u>> /\ actor'["loop"].held = <<>>
          /\ \A b \in Actors \ {"loop"} : actor'[b] = actor[b]
      BY <1>1, <2>2 DEF Inv, TypeOK
    <2>4. Same({Start("loop")})
      BY <1>1, <1>3, <2>1, <2>3, SameBut
    <2>5. /\ Content[Start("loop")] = <<>> /\ Content'[Start("loop")] = <<u>>
          /\ Start("loop") \in Boxes
      BY <1>1, <2>1, <2>3, ContentNow, ContentThen, TheBoxes DEF Agrees
    <2>6. Append(<<>>, u) = <<u>>
      OBVIOUS
    <2> QED
      BY <1>1, <2>4, <2>5, <2>6, LedgerPut
  <1> QED
    BY <1>2, <1>3 DEF SubmitInput

LEMMA SubmitOtherLedger == ASSUME Inv, Ledger, SubmitOther PROVE Ledger'
  <1> DEFINE r == [Idle EXCEPT !.at = "abort", !.turn = turns + 1, !.input = <<>>,
                               !.kind = "other"]
  <1>1. actor' = [actor EXCEPT !["loop"] = r] /\ r.input = <<>> /\ r.held = <<>>
    BY IdleIsActor, SpawnedItems DEF SubmitOther, Spawn
  <1> HIDE DEF r
  <1>2. UNCHANGED <<mailbox, pending, task, history, dropped, sent>> /\ "loop" \in Actors
    BY DEF SubmitOther, Actors
  <1>3. ~Starts("loop")
    BY DEF Starts, SubmitOther, MayAct
  <1> QED
    BY <1>1, <1>2, <1>3, IdleMoves

LEMMA SubmitMailLedger == ASSUME Inv, Ledger, NEW m \in Mails, SubmitMail(m) PROVE Ledger'
  <1>1. /\ actor["loop"].at = "idle" /\ m \notin sent /\ sent' = sent \cup {m} /\ m \in Items
        /\ mailbox' = Append(mailbox, m) /\ "loop" \in Actors
        /\ UNCHANGED <<pending, task, history, dropped>>
    BY DEF SubmitMail, MayAct, Items, Actors
  <1>2. \A b \in Actors : actor'[b].input = actor[b].input /\ actor'[b].held = actor[b].held
    <2>1. actor["loop"].input = <<>> /\ actor["loop"].held = <<>>
      BY <1>1, EmptyActor DEF Starts
    <2> DEFINE r == [Idle EXCEPT !.at = "wake"]
    <2>2. r.input = <<>> /\ r.held = <<>>
      BY IdleIsActor, KeepsItems
    <2>3. actor' = actor \/ actor' = [actor EXCEPT !["loop"] = r]
      BY DEF SubmitMail
    <2> HIDE DEF r
    <2> QED
      BY <2>1, <2>2, <2>3 DEF Inv, TypeOK
  <1>3. Same({Mailbox})
    BY <1>1, <1>2, SameBut
  <1>4. Content'[Mailbox] = Append(Content[Mailbox], m) /\ Mailbox \in Boxes
    BY <1>1, ContentNow, ContentThen, TheBoxes DEF Agrees
  <1> QED
    BY <1>1, <1>3, <1>4, LedgerPut

LEMMA InjectLedger == ASSUME Inv, Ledger, NEW i \in Notes, InjectNoNewTurn(i) PROVE Ledger'
  <1>1. /\ i \notin sent /\ sent' = sent \cup {i} /\ i \in Items
        /\ UNCHANGED <<active, mailbox, task, actor, dropped>>
    BY DEF InjectNoNewTurn, Items
  <1>2. CASE active # None
    <2>1. /\ active.ts \in States /\ history' = history
          /\ pending' = [pending EXCEPT ![active.ts] = Append(@, i)]
      BY <1>2, ItemSeqs DEF InjectNoNewTurn, Inv
    <2> QED
      BY <1>1, <2>1, QueuePut
  <1>3. CASE active = None
    <2>1. RecordItems(<<i>>) /\ pending' = pending
      BY <1>3 DEF InjectNoNewTurn
    <2>2. Same({})
      BY <1>1, <2>1, SameBut
    <2>3. history' = Recorded(history, <<i>>)
      BY <2>1 DEF RecordItems, Recorded
    <2>4. OnePlace(Content, Recorded(history, <<i>>), dropped, sent \cup {i})
      BY <1>1, NoteItem DEF Ledger
    <2>5. OnePlace(Content, history', dropped', sent')
      BY <1>1, <2>3, <2>4
    <2>6. \A x \in Boxes : Content'[x] = Content[x]
      BY <2>2 DEF Same
    <2> QED
      BY <2>5, <2>6, LedgerNext
  <1> QED
    BY <1>2, <1>3

LEMMA StartReservedLedger ==
    ASSUME Inv, Ledger, NEW a \in Actors, NEW i \in Notes, StartReserved(a, i)
    PROVE  Ledger'
  <1>1. /\ actor[a].at = "reserved" /\ i \notin sent /\ sent' = sent \cup {i} /\ i \in Items
        /\ pending' = [pending EXCEPT ![actor[a].ts] = Append(@, i)]
        /\ actor' = [actor EXCEPT ![a].at = "prepare", ![a].ts = None]
        /\ UNCHANGED <<mailbox, task, history, dropped>>
    BY DEF StartReserved, Items
  <1>2. actor[a].ts \in States
    BY <1>1 DEF Inv, ActorOK
  <1>3. \A b \in Actors : actor'[b].input = actor[b].input /\ actor'[b].held = actor[b].held
    BY <1>1 DEF Inv, TypeOK, Actor
  <1> QED
    BY <1>1, <1>2, <1>3, QueuePut

LEMMA AbortTaskLedger ==
    ASSUME Inv, Ledger, NEW a \in Actors, AbortTask(a)
    PROVE  Ledger'
  <1> DEFINE v == actor[a].victim
             q == actor[a].ts
  <1>1. /\ actor[a].at = "waiting" /\ ActorOK(a) /\ actor[a] \in Actor
        /\ actor \in [Actors -> Actor] /\ task \in [Turns -> Task]
        /\ pending \in [States -> Seq(Items)]
    BY DEF Inv, TypeOK, AbortTask
  <1>2. v \in Turns /\ q \in States
    BY <1>1 DEF ActorOK
  <1>3. /\ task' = [task EXCEPT ![v] = Gone] /\ pending' = [pending EXCEPT ![q] = <<>>]
        /\ Drop(task[v].held \o pending[q]) /\ UNCHANGED <<mailbox, history, sent>>
    BY DEF AbortTask
  <1>4. OnlyHands(v, <<>>)
    BY <1>1, <1>2, <1>3, GoneIsTask DEF OnlyHands
  <1>5. /\ pending'[q] = <<>> /\ \A ts \in States \ {q} : pending'[ts] = pending[ts]
    BY <1>1, <1>2, <1>3
  <1>6. \A b \in Actors : actor'[b].input = actor[b].input /\ actor'[b].held = actor[b].held
    <2>1. CASE actor[a].reason = "interrupted"
      <3> DEFINE r == [Idle EXCEPT !.at = "wake"]
      <3>1. r.input = <<>> /\ r.held = <<>>
        BY IdleIsActor, KeepsItems
      <3>2. actor' = [actor EXCEPT ![a] = r]
        BY <1>1, <2>1 DEF AbortTask
      <3>3. actor[a].input = <<>> /\ actor[a].held = <<>>
        BY <1>1, <2>1, EmptyActor DEF Starts
      <3> HIDE DEF r
      <3> QED
        BY <1>1, <3>1, <3>2, <3>3
    <2>2. CASE actor[a].reason # "interrupted"
      <3> DEFINE r == [actor[a] EXCEPT !.at = "prepare", !.victim = None, !.ts = None]
      <3>1. r.input = actor[a].input /\ r.held = actor[a].held
        BY <1>1, KeepsItems
      <3>2. actor' = [actor EXCEPT ![a] = r]
        BY <1>1, <2>2 DEF AbortTask
      <3> HIDE DEF r
      <3> QED
        BY <1>1, <3>1, <3>2
    <2> QED
      BY <2>1, <2>2
  <1> HIDE DEF v, q
  <1>7. Same({Hands(v), Queue(q)})
    BY <1>3, <1>4, <1>5, <1>6, SameBut DEF OnlyHands
  <1>8. /\ Hands(v) \in Boxes /\ Queue(q) \in Boxes /\ Hands(v) # Queue(q)
        /\ Content[Hands(v)] = task[v].held /\ Content[Queue(q)] = pending[q]
        /\ Content'[Hands(v)] = <<>> /\ Content'[Queue(q)] = <<>>
    BY <1>2, <1>4, <1>5, TheBoxes, BoxesApart, ContentNow, ContentThen DEF Agrees, OnlyHands
  <1> QED
    BY <1>3, <1>7, <1>8, LedgerDropTwo

(* The boxes of one actor.                                                      *)
OnlyBoxes(a, i, s) ==
    /\ actor'[a].input = i /\ actor'[a].held = s
    /\ \A b \in Actors \ {a} : actor'[b] = actor[b]

LEMMA BoxesOf ==
    \A a \in Actors : /\ Content[Start(a)] = actor[a].input /\ Content'[Start(a)] = actor'[a].input
                      /\ Content[Taken(a)] = actor[a].held /\ Content'[Taken(a)] = actor'[a].held
  BY ContentNow, ContentThen DEF Agrees

LEMMA TakePendingLedger ==
    ASSUME Inv, Ledger, NEW a \in Actors, TakePending(a)
    PROVE  Ledger'
  <1>1. /\ actor[a].at = "prepare" /\ ActorOK(a) /\ actor[a] \in Actor
        /\ actor \in [Actors -> Actor]
        /\ UNCHANGED <<task, history, dropped, sent>> /\ MailTaken
        /\ pending' = IF active = None THEN pending ELSE [pending EXCEPT ![active.ts] = <<>>]
        /\ actor' = [actor EXCEPT ![a].at = "open", ![a].held = PendingInput]
    BY DEF Inv, TypeOK, TakePending
  <1>2. actor[a].held = <<>>
    BY <1>1 DEF ActorOK
  <1>3. OnlyBoxes(a, actor[a].input, PendingInput)
    BY <1>1 DEF OnlyBoxes, Actor
  <1>4. Same({Taken(a), Mailbox} \cup {Queue(ts) : ts \in States})
    BY <1>1, <1>3, SameBut DEF OnlyBoxes
  <1>5. /\ Taken(a) \in Boxes /\ Taken(a) # Mailbox /\ \A ts \in States : Taken(a) # Queue(ts)
        /\ Content[Taken(a)] = <<>> /\ Content'[Taken(a)] = PendingInput
    BY <1>2, <1>3, TheBoxes, BoxesApart, BoxesOf DEF OnlyBoxes
  <1> QED
    BY <1>1, <1>4, <1>5, PendingTaken

LEMMA FillTurnLedger ==
    ASSUME Inv, Ledger, NEW a \in Actors, FillTurn(a)
    PROVE  Ledger'
  <1> DEFINE q == actor[a].ts
  <1>1. /\ actor[a].at = "fill" /\ ActorOK(a) /\ actor[a] \in Actor
        /\ actor \in [Actors -> Actor] /\ pending \in [States -> Seq(Items)]
        /\ UNCHANGED <<mailbox, task, history, dropped, sent>>
        /\ pending' = [pending EXCEPT ![q] = @ \o actor[a].held]
        /\ actor' = [actor EXCEPT ![a].at = "install", ![a].held = <<>>]
    BY DEF Inv, TypeOK, FillTurn
  <1>2. q \in States
    BY <1>1 DEF ActorOK
  <1>3. OnlyBoxes(a, actor[a].input, <<>>)
    BY <1>1 DEF OnlyBoxes, Actor
  <1>4. /\ pending'[q] = pending[q] \o actor[a].held
        /\ \A ts \in States \ {q} : pending'[ts] = pending[ts]
    BY <1>1, <1>2
  <1> HIDE DEF q
  <1>5. Same({Taken(a), Queue(q)})
    BY <1>1, <1>3, <1>4, SameBut DEF OnlyBoxes
  <1>6. /\ Taken(a) \in Boxes /\ Queue(q) \in Boxes /\ Taken(a) # Queue(q)
        /\ Content'[Taken(a)] = <<>> /\ Content[Taken(a)] = actor[a].held
        /\ Content[Queue(q)] = pending[q] /\ Content'[Queue(q)] = pending'[q]
    BY <1>2, <1>3, TheBoxes, BoxesApart, BoxesOf, ContentNow, ContentThen DEF OnlyBoxes, Agrees
  <1> QED
    BY <1>1, <1>4, <1>5, <1>6, LedgerPour

LEMMA InstallTaskLedger ==
    ASSUME Inv, Ledger, NEW a \in Actors, InstallTask(a)
    PROVE  Ledger'
  <1> DEFINE t == actor[a].turn
             e == active.task
             fresh == [NoTask EXCEPT !.pc = "start", !.kind = actor[a].kind,
                                     !.held = actor[a].input]
  <1>1. /\ actor[a].at = "install" /\ ActorOK(a) /\ Starts(a) /\ actor[a] \in Actor
        /\ actor \in [Actors -> Actor] /\ task \in [Turns -> Task]
        /\ actor' = [actor EXCEPT ![a] = Idle]
        /\ UNCHANGED <<pending, mailbox, history, sent>>
    BY DEF Inv, TypeOK, InstallTask, Starts
  <1>2. t \in Turns /\ task[t].pc = "none" /\ actor[a].held = <<>>
    BY <1>1 DEF ActorOK
  <1>3. task[t].held = <<>>
    BY <1>2, EmptyHands
  <1>4. fresh.held = actor[a].input
    BY DEF NoTask
  <1>5. OnlyBoxes(a, <<>>, <<>>)
    BY <1>1, IdleIsActor DEF OnlyBoxes
  <1>6. actor[a].input = <<>> \o actor[a].input
    <2>1. actor[a].input \in Seq(Items)
      BY ItemSeqs DEF Inv
    <2> QED
      BY <2>1
  <1>7. HasTask => e \in Turns /\ e # t
    <2>1. HasTask => e \in Turns
      BY DEF HasTask, Inv, TypeOK, Slot
    <2>2. HasTask => task[e].pc \in Alive
      BY <2>1 DEF Inv, TaskOK, InSlot
    <2>3. "none" \notin Alive
      BY DEF Alive, Running
    <2> QED
      BY <1>2, <2>1, <2>2, <2>3
  <1> HIDE DEF fresh
  <1>8. /\ Start(a) \in Boxes /\ Hands(t) \in Boxes /\ Start(a) # Hands(t)
        /\ Content'[Start(a)] = <<>> /\ Content[Start(a)] = actor[a].input
        /\ Content[Hands(t)] = <<>> /\ Content'[Hands(t)] = task'[t].held
    BY <1>2, <1>3, <1>5, TheBoxes, BoxesApart, BoxesOf, HandsOf DEF OnlyBoxes
  <1>9. CASE HasTask
    <2>1. task' = [task EXCEPT ![e] = Gone, ![t] = fresh] /\ Drop(task[e].held)
      BY <1>9 DEF InstallTask, fresh
    <2>2. /\ task'[t] = fresh /\ task'[e] = Gone
          /\ \A u \in Turns \ {t, e} : task'[u] = task[u]
      BY <1>1, <1>2, <1>7, <1>9, <2>1
    <2>3. /\ Hands(e) \in Boxes /\ Hands(e) # Start(a) /\ Hands(e) # Hands(t)
          /\ Content[Hands(e)] = task[e].held /\ Content'[Hands(e)] = <<>>
      BY <1>7, <1>9, <2>2, GoneIsTask, TheBoxes, BoxesApart, HandsOf
    <2>4. Content'[Hands(t)] = Content[Hands(t)] \o Content[Start(a)]
      BY <1>4, <1>6, <1>8, <2>2
    <2>5. Same({Hands(e), Start(a), Hands(t)})
      <3> HIDE DEF t, e
      <3> QED
        BY <1>1, <1>2, <1>5, <2>2, SameBut DEF OnlyBoxes
    <2> HIDE DEF t, e
    <2> QED
      BY <1>1, <1>8, <2>1, <2>3, <2>4, <2>5, LedgerDropPour
  <1>10. CASE ~HasTask
    <2>1. task' = [task EXCEPT ![t] = fresh] /\ dropped' = dropped
      BY <1>10 DEF InstallTask, fresh
    <2>2. task'[t] = fresh /\ \A u \in Turns \ {t} : task'[u] = task[u]
      BY <1>1, <1>2, <2>1
    <2>3. Content'[Hands(t)] = Content[Hands(t)] \o Content[Start(a)]
      BY <1>4, <1>6, <1>8, <2>2
    <2>4. Same({Start(a), Hands(t)})
      <3> HIDE DEF t
      <3> QED
        BY <1>1, <1>2, <1>5, <2>2, SameBut DEF OnlyBoxes
    <2> HIDE DEF t
    <2> QED
      BY <1>1, <1>8, <2>1, <2>3, <2>4, LedgerPour
  <1> QED
    BY <1>9, <1>10

-----------------------------------------------------------------------------
(* Every item is accounted for *)

LEMMA InitLedger == Init => Ledger
  <1> SUFFICES ASSUME Init PROVE Ledger
    OBVIOUS
  <1>1. \A b \in Boxes : Content[b] = <<>>
    <2>1. /\ mailbox = <<>> /\ \A ts \in States : pending[ts] = <<>>
          /\ \A t \in Turns : task[t] = NoTask
          /\ \A a \in Actors : actor[a] = Idle
      BY DEF Init
    <2>2. NoTask.held = <<>>
      BY DEF NoTask
    <2>3. ASSUME NEW b \in Boxes PROVE Content[b] = <<>>
      <3>1. CASE b = Mailbox
        BY <2>1, <3>1, ContentNow DEF Agrees
      <3>2. ASSUME NEW ts \in States, b = Queue(ts) PROVE Content[b] = <<>>
        BY <2>1, <3>2, ContentNow DEF Agrees
      <3>3. ASSUME NEW t \in Turns, b = Hands(t) PROVE Content[b] = <<>>
        BY <2>1, <2>2, <3>3, ContentNow DEF Agrees
      <3>4. ASSUME NEW a \in Actors, b = Start(a) \/ b = Taken(a) PROVE Content[b] = <<>>
        BY <2>1, <3>4, IdleIsActor, ContentNow DEF Agrees
      <3> QED
        BY <3>1, <3>2, <3>3, <3>4, TheBoxes
    <2> QED
      BY <2>3
  <1>2. Content \in [Boxes -> Seq(Items)] /\ \A b \in Boxes : DOMAIN Content[b] = {}
    <2>1. <<>> \in Seq(Items) /\ DOMAIN <<>> = {}
      OBVIOUS
    <2>2. \A b \in Boxes : Content[b] \in Seq(Items)
      BY <1>1, <2>1
    <2> QED
      BY <1>1, <2>1, <2>2, ContentNow
  <1>3. Distinct(Content) /\ \A i : ~In(Content, i)
    BY <1>2 DEF Distinct, In
  <1> QED
    BY <1>2, <1>3 DEF Init, Ledger, OnePlace

LEMMA LedgerStep == ASSUME Inv, Ledger, [Next]_vars PROVE Ledger'
  <1>1. ASSUME Submit PROVE Ledger'
    <2>1. ASSUME NEW u \in Inputs, SteerInput(u) PROVE Ledger'
      <3>1. /\ u \notin sent /\ sent' = sent \cup {u} /\ SteerIn(u)
            /\ UNCHANGED <<active, mailbox, task, history, dropped>>
        BY <2>1 DEF SteerInput
      <3> QED
        BY <3>1, SteersLedger
    <2> QED
      BY <1>1, <2>1, SubmitInputLedger, SubmitOtherLedger, SubmitMailLedger, InterruptsLedger,
         InjectLedger, TryStartLedger DEF Submit
  <1>2. ASSUME NEW a \in Actors, Lifecycle(a) PROVE Ledger'
    BY <1>2, TakeActiveTurnLedger, AbortTaskLedger, IdlersLedger, StartReservedLedger,
       TakePendingLedger, OpenTurnLedger, FillTurnLedger, InstallTaskLedger DEF Lifecycle
  <1>3. ASSUME NEW t \in Turns, TaskStep(t) PROVE Ledger'
    BY <1>3, RecordsLedger, GivesUpLedger, GoesOnLedger, DrainInputLedger, TakeTaskLedger
       DEF TaskStep
  <1>4. CASE UNCHANGED vars
    <2>1. UNCHANGED <<mailbox, pending, task, actor, history, dropped, sent>>
      BY <1>4 DEF vars
    <2> QED
      BY <2>1, NothingMoves
  <1> QED
    BY <1>1, <1>2, <1>3, <1>4 DEF Next

(* The counts of EachItemOnce follow from the ledger.                           *)
LEMMA LedgerCounts ==
    ASSUME Ledger, NEW i \in Items
    PROVE  Copies(i) = IF i \in sent THEN 1 ELSE 0
  <1>1. /\ history[i] \in {0, 1}
        /\ history[i] = 1 => i \notin dropped /\ ~In(Content, i)
        /\ i \in dropped => ~In(Content, i)
        /\ i \in sent <=> (history[i] = 1 \/ i \in dropped \/ In(Content, i))
        /\ Distinct(Content)
    BY DEF Ledger, OnePlace
  <1>2. \A p : p \in Places(i) <=> \E b \in Boxes : \E k \in DOMAIN Content[b] :
                                      Content[b][k] = i /\ p = <<b, k>>
    BY DEF Places
  <1>3. CASE ~In(Content, i)
    <2>1. Places(i) = {}
      BY <1>2, <1>3 DEF In
    <2>2. Cardinality(Places(i)) = 0
      BY <2>1, FS_EmptySet
    <2> QED
      BY <1>1, <1>3, <2>2 DEF Copies
  <1>4. CASE In(Content, i)
    <2>1. PICK b \in Boxes : \E k \in DOMAIN Content[b] : Content[b][k] = i
      BY <1>4 DEF In
    <2>2. PICK k \in DOMAIN Content[b] : Content[b][k] = i
      BY <2>1
    <2>3. Places(i) = {<<b, k>>}
      <3>1. <<b, k>> \in Places(i)
        BY <1>2, <2>2
      <3>2. ASSUME NEW p \in Places(i) PROVE p = <<b, k>>
        BY <1>1, <1>2, <2>2, <3>2 DEF Distinct
      <3> QED
        BY <3>1, <3>2
    <2>4. Cardinality(Places(i)) = 1
      BY <2>3, FS_Singleton
    <2> QED
      BY <1>1, <1>4, <2>4 DEF Copies
  <1> QED
    BY <1>3, <1>4

(* Whatever the clients, the loop, the guardian, an extension and the tasks do, *)
(* in any order, every message, mail and note that was submitted is in exactly  *)
(* one place: it waits in a queue, is held, was recorded once, or was thrown    *)
(* away by an abort, a failed start or an eviction (input_queue.rs,             *)
(* tasks/mod.rs).                                                               *)
THEOREM ItemsAccounted == Spec => []EachItemOnce
  <1>1. Init => Inv /\ Ledger
    BY InitInv, InitLedger
  <1>2. (Inv /\ Ledger) /\ [Next]_vars => (Inv /\ Ledger)'
    BY InvStep, LedgerStep
  <1>3. Inv /\ Ledger => EachItemOnce
    BY LedgerCounts DEF EachItemOnce
  <1> QED
    BY <1>1, <1>2, <1>3, PTL DEF Spec

=============================================================================
