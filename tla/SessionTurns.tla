------------------------------ MODULE SessionTurns ------------------------------
(* The life of a turn in a Codex session (codex-rs/core): one slot for the      *)
(* active turn, the task that runs it, the queue of input waiting for it and    *)
(* the mailbox of other agents' messages. Several flows of control meet at the  *)
(* slot and hold its lock only for one step: the submission loop, the guardian  *)
(* that interrupts a turn with too many denied approvals, an extension that     *)
(* starts a turn in an idle session, a client that steers, a tool that injects  *)
(* an item, and the tasks themselves. Nothing keeps them apart between steps.   *)
EXTENDS Integers, Sequences, FiniteSets, Functions

CONSTANTS
    Inputs,     \* messages of the user
    Mails,      \* messages of other agents
    Triggers,   \* the mails marked trigger_turn
    Notes,      \* items injected beside the conversation
    MaxTurns,   \* bound: turns started
    None

Turns == 1 .. MaxTurns

\* A start may make a turn state at three places: when it reserves an idle slot,
\* when it moves the waiting input, and when it installs the task.
States == Turns \X {"reserved", "opened", "installed"}
Slot == [ts : States, task : Turns \cup {None}]

ASSUME TurnAssumption ==
    /\ MaxTurns \in Nat \ {0}
    /\ Triggers \subseteq Mails
    /\ None \notin Turns /\ None \notin States /\ None \notin Slot

VARIABLES
    active,     \* None, or the active turn: its turn state and its task, or None
    pending,    \* for each turn state, the input queued in it
    deferred,   \* for each turn state, whether mail waits for the next turn
    mailbox,    \* mail not yet taken by a turn
    task,       \* for each turn, its task
    actor,      \* for each actor, the abort or start in progress
    ends,       \* for each turn, how many TurnComplete and TurnAborted it sent
    history,    \* for each item, how often the conversation records it
    dropped,    \* what an abort or a failed start threw away
    sent,       \* what was submitted
    turns,      \* turns allocated so far
    evicted,    \* history: who took whose task out of the slot
    raced       \* history: a task was installed while another actor was busy

marks == <<evicted, raced>>
vars == <<active, pending, deferred, mailbox, task, actor, ends, history,
          dropped, sent, turns, evicted, raced>>

Items == Inputs \cup Mails \cup Notes
Actors == {"loop", "guardian", "extension"}

Running == {"start", "top", "record", "sample", "sampled", "check"}
Finishing == {"ended", "finish", "terminal", "clear"}

NoTask == [pc |-> "none", kind |-> "regular", held |-> <<>>, drain |-> FALSE,
           cancelled |-> FALSE, ts |-> None]
Gone == [NoTask EXCEPT !.pc = "gone"]
Idle == [at |-> "idle", turn |-> None, victim |-> None, ts |-> None,
         input |-> <<>>, held |-> <<>>, kind |-> "regular", reason |-> "replaced"]

\* A session without a turn.
Init ==
    /\ active = None
    /\ pending = [ts \in States |-> <<>>]
    /\ deferred = [ts \in States |-> FALSE]
    /\ mailbox = <<>>
    /\ task = [t \in Turns |-> NoTask]
    /\ actor = [a \in Actors |-> Idle]
    /\ ends = [t \in Turns |-> 0]
    /\ history = [i \in Items |-> 0]
    /\ dropped = {}
    /\ sent = {}
    /\ turns = 0
    /\ evicted = {}
    /\ raced = FALSE

HasTask == active # None /\ active.task # None

Drop(items) == dropped' = dropped \cup Range(items)

RecordItems(items) ==
    history' = [i \in Items |-> history[i] + IF i \in Range(items) THEN 1 ELSE 0]

-----------------------------------------------------------------------------
(* The input queue *)

\* Mail joins the current turn, unless the turn has shown its answer.
AcceptsMailbox == active = None \/ ~deferred[active.ts]

\* What get_pending_input takes: the queue of whatever turn is active, then the mail.
PendingInput ==
    (IF active = None THEN <<>> ELSE pending[active.ts])
        \o (IF AcceptsMailbox THEN mailbox ELSE <<>>)

HasPendingInput == PendingInput # <<>>

\* Mutant of MailTaken: what may not be delivered yet goes back with the turn's input.
MailPutBack == mailbox' = IF AcceptsMailbox THEN <<>> ELSE PendingInput \o mailbox

MailTaken == mailbox' = IF AcceptsMailbox THEN <<>> ELSE mailbox

-----------------------------------------------------------------------------
(* What reaches the session *)

\* An actor does one thing at a time; what the others do does not hold it up.
MayAct(a) == actor[a].at = "idle"

\* The active task takes user input, and with it the turn is open to mail again.
SteerIn(u) ==
    /\ HasTask /\ task[active.task].kind = "regular"
    /\ pending' = [pending EXCEPT ![active.ts] = Append(@, u)]
    /\ deferred' = [deferred EXCEPT ![active.ts] = FALSE]
    /\ UNCHANGED <<actor, turns>>

\* A client steers the running turn; without one, or with one that takes no
\* input, the call is refused and nothing changes.
SteerInput(u) ==
    /\ u \notin sent
    /\ sent' = sent \cup {u}
    /\ SteerIn(u)
    /\ UNCHANGED <<active, mailbox, task, ends, history, dropped, marks>>

\* The loop begins to replace the active turn by a new one.
Spawn(input, kind) ==
    /\ turns < MaxTurns
    /\ turns' = turns + 1
    /\ actor' = [actor EXCEPT !["loop"] = [Idle EXCEPT !.at = "abort",
                    !.turn = turns + 1, !.input = input, !.kind = kind]]

\* The user's message steers the active task or, when there is none, starts a turn.
SubmitInput(u) ==
    /\ MayAct("loop")
    /\ u \notin sent
    /\ sent' = sent \cup {u}
    /\ \/ SteerIn(u)
       \/ ~HasTask /\ Spawn(<<u>>, "regular") /\ UNCHANGED <<pending, deferred>>
    /\ UNCHANGED <<active, mailbox, task, ends, history, dropped, marks>>

\* A review or a compaction always replaces the active turn.
SubmitOther ==
    /\ MayAct("loop")
    /\ Spawn(<<>>, "other")
    /\ UNCHANGED <<active, pending, deferred, mailbox, task, ends, history,
                   dropped, sent, marks>>

\* Another agent's message is queued; one that triggers a turn also wakes the session.
SubmitMail(m) ==
    /\ MayAct("loop")
    /\ m \notin sent
    /\ sent' = sent \cup {m}
    /\ mailbox' = Append(mailbox, m)
    /\ actor' = IF m \in Triggers
                THEN [actor EXCEPT !["loop"] = [Idle EXCEPT !.at = "wake"]]
                ELSE actor
    /\ UNCHANGED <<active, pending, deferred, task, ends, history, dropped, turns, marks>>

\* The user interrupts; with no turn active the abort finds nothing to do.
Interrupt ==
    /\ MayAct("loop")
    /\ active # None
    /\ actor' = [actor EXCEPT !["loop"] =
                    [Idle EXCEPT !.at = "abort", !.reason = "interrupted"]]
    /\ UNCHANGED <<active, pending, deferred, mailbox, task, ends, history,
                   dropped, sent, turns, marks>>

\* A turn had too many approvals denied: the guardian sets out to abort it.
GuardianInterrupts(t) ==
    /\ MayAct("guardian")
    /\ HasTask /\ active.task = t
    /\ task[t].pc = "sample"
    /\ actor' = [actor EXCEPT !["guardian"] = [Idle EXCEPT !.at = "abort",
                    !.victim = t, !.reason = "interrupted"]]
    /\ UNCHANGED <<active, pending, deferred, mailbox, task, ends, history,
                   dropped, sent, turns, marks>>

\* An item goes to the queue of the active turn, or straight to the history.
InjectNoNewTurn(i) ==
    /\ i \notin sent
    /\ sent' = sent \cup {i}
    /\ \/ /\ active # None
          /\ pending' = [pending EXCEPT ![active.ts] = Append(@, i)]
          /\ UNCHANGED history
       \/ /\ active = None
          /\ RecordItems(<<i>>)
          /\ UNCHANGED pending
    /\ UNCHANGED <<active, deferred, mailbox, task, actor, ends, dropped, turns, marks>>

-----------------------------------------------------------------------------
(* Aborting and starting a turn, by any of the actors *)

\* What an actor does once nothing is left to abort.
AfterAbort(a) == IF actor[a].reason = "replaced" THEN "prepare" ELSE "idle"

\* The actor empties the slot (the guardian only if its turn is still there) and
\* cancels the task it found in it.
TakeActiveTurn(a) ==
    LET mine == a = "loop" \/ (HasTask /\ active.task = actor[a].victim)
    IN  /\ actor[a].at = "abort"
        /\ active' = IF mine THEN None ELSE active
        /\ \/ /\ mine /\ HasTask
              /\ task' = [task EXCEPT ![active.task].cancelled = TRUE]
              /\ actor' = [actor EXCEPT ![a].at = "waiting",
                              ![a].victim = active.task, ![a].ts = active.ts]
           \/ /\ ~(mine /\ HasTask)
              /\ actor' = [actor EXCEPT ![a].at = AfterAbort(a)]
              /\ UNCHANGED task
        /\ UNCHANGED <<pending, deferred, mailbox, ends, history, dropped, sent, turns, marks>>

\* Mutant of AbortTask: the killed task lives on.
AbortTaskGently(a) ==
    LET v == actor[a].victim
    IN  /\ actor[a].at = "waiting"
        /\ ends' = [ends EXCEPT ![v] = @ + 1]
        /\ Drop(pending[actor[a].ts])
        /\ pending' = [pending EXCEPT ![actor[a].ts] = <<>>]
        /\ actor' = [actor EXCEPT ![a] =
                        IF actor[a].reason = "interrupted" THEN [Idle EXCEPT !.at = "wake"]
                        ELSE [@ EXCEPT !.at = "prepare", !.victim = None, !.ts = None]]
        /\ UNCHANGED <<active, deferred, mailbox, history, sent, turns, task, marks>>

\* The aborted task stopped, or its 100 ms are over and it is killed: the turn is
\* reported as aborted and what was queued for it is thrown away. An interrupt
\* goes on to look for waiting mail.
AbortTask(a) ==
    LET v == actor[a].victim
    IN  /\ actor[a].at = "waiting"
        /\ task' = [task EXCEPT ![v] = Gone]
        /\ ends' = [ends EXCEPT ![v] = @ + 1]
        /\ Drop(task[v].held \o pending[actor[a].ts])
        /\ pending' = [pending EXCEPT ![actor[a].ts] = <<>>]
        /\ actor' = [actor EXCEPT ![a] =
                        IF actor[a].reason = "interrupted" THEN [Idle EXCEPT !.at = "wake"]
                        ELSE [@ EXCEPT !.at = "prepare", !.victim = None, !.ts = None]]
        /\ UNCHANGED <<active, deferred, mailbox, history, sent, turns, marks>>

\* maybe_start_turn_for_pending_work, first: is there mail that triggers a turn?
CheckMail(a) ==
    /\ actor[a].at = "wake"
    /\ actor' = [actor EXCEPT ![a] = IF Range(mailbox) \cap Triggers # {}
                                     THEN [Idle EXCEPT !.at = "reserve"] ELSE Idle]
    /\ UNCHANGED <<active, pending, deferred, mailbox, task, ends, history,
                   dropped, sent, turns, marks>>

\* Then, in a lock section of its own: an idle slot is reserved. The mail may be
\* gone by now, and the turn starts without it.
ReserveTurn(a) ==
    /\ actor[a].at = "reserve"
    /\ \/ /\ active = None
          /\ turns < MaxTurns
          /\ turns' = turns + 1
          /\ active' = [ts |-> <<turns + 1, "reserved">>, task |-> None]
          /\ actor' = [actor EXCEPT ![a] =
                          [Idle EXCEPT !.at = "prepare", !.turn = turns + 1]]
       \/ /\ active # None
          /\ actor' = [actor EXCEPT ![a] = Idle]
          /\ UNCHANGED <<active, turns>>
    /\ UNCHANGED <<pending, deferred, mailbox, task, ends, history, dropped, sent, marks>>

\* start_task takes the input and the mail that wait.
TakePending(a) ==
    /\ actor[a].at = "prepare"
    /\ pending' = IF active = None THEN pending ELSE [pending EXCEPT ![active.ts] = <<>>]
    /\ MailTaken
    /\ actor' = [actor EXCEPT ![a].at = "open", ![a].held = PendingInput]
    /\ UNCHANGED <<active, deferred, task, ends, history, dropped, sent, turns, marks>>

\* It remembers the turn state in the slot, a new one if the slot is empty.
OpenTurn(a) ==
    LET slot == IF active = None THEN [ts |-> <<actor[a].turn, "opened">>, task |-> None]
                                 ELSE active
    IN  /\ actor[a].at = "open"
        /\ active' = slot
        /\ actor' = [actor EXCEPT ![a].at = "fill", ![a].ts = slot.ts]
        /\ UNCHANGED <<pending, deferred, mailbox, task, ends, history, dropped,
                       sent, turns, marks>>

\* What it took goes to that turn state, wherever the slot is by now.
FillTurn(a) ==
    /\ actor[a].at = "fill"
    /\ pending' = [pending EXCEPT ![actor[a].ts] = @ \o actor[a].held]
    /\ actor' = [actor EXCEPT ![a].at = "install", ![a].held = <<>>]
    /\ UNCHANGED <<active, deferred, mailbox, task, ends, history, dropped, sent,
                   turns, marks>>

\* The task is spawned and put in the slot. A task found there is dropped and
\* dies unreported; a slot emptied meanwhile gets a fresh turn state.
InstallTask(a) ==
    LET t == actor[a].turn
        fresh == [NoTask EXCEPT !.pc = "start", !.kind = actor[a].kind,
                                !.held = actor[a].input]
    IN  /\ actor[a].at = "install"
        /\ active' = [ts |-> IF active = None THEN <<t, "installed">> ELSE active.ts,
                      task |-> t]
        /\ \/ /\ HasTask
              /\ task' = [task EXCEPT ![active.task] = Gone, ![t] = fresh]
              /\ Drop(task[active.task].held)
              /\ evicted' = evicted \cup {<<t, active.task>>}
           \/ /\ ~HasTask
              /\ task' = [task EXCEPT ![t] = fresh]
              /\ UNCHANGED <<dropped, evicted>>
        /\ actor' = [actor EXCEPT ![a] = Idle]
        /\ raced' = (raced \/ \E b \in Actors \ {a} : actor[b].at # "idle")
        /\ UNCHANGED <<pending, deferred, mailbox, ends, history, sent, turns>>

\* try_start_turn_if_idle: with no triggering mail and nobody in the slot, an
\* extension reserves it; otherwise it is refused.
TryStartTurnIfIdle ==
    /\ MayAct("extension")
    /\ Range(mailbox) \cap Triggers = {}
    /\ active = None
    /\ turns < MaxTurns
    /\ turns' = turns + 1
    /\ active' = [ts |-> <<turns + 1, "reserved">>, task |-> None]
    /\ actor' = [actor EXCEPT !["extension"] = [Idle EXCEPT !.at = "reserved",
                    !.turn = turns + 1, !.ts = <<turns + 1, "reserved">>]]
    /\ UNCHANGED <<pending, deferred, mailbox, task, ends, history, dropped, sent, marks>>

StillReserved(a) == active # None /\ active.task = None /\ active.ts = actor[a].ts

\* The reservation is given back, to mail that came meanwhile or because the
\* session plans, and the session woken; a reservation that was lost is refused.
GiveBack(a) ==
    /\ actor[a].at = "reserved"
    /\ active' = IF StillReserved(a) THEN None ELSE active
    /\ \E at \in {"wake"} \cup (IF StillReserved(a) THEN {} ELSE {"idle"}) :
          actor' = [actor EXCEPT ![a] = [Idle EXCEPT !.at = at]]
    /\ UNCHANGED <<pending, deferred, mailbox, task, ends, history, dropped, sent,
                   turns, marks>>

\* Or the extension's item is queued in it and the turn is started.
StartReserved(a, i) ==
    /\ actor[a].at = "reserved"
    /\ Range(mailbox) \cap Triggers = {}
    /\ StillReserved(a)
    /\ i \notin sent
    /\ sent' = sent \cup {i}
    /\ pending' = [pending EXCEPT ![actor[a].ts] = Append(@, i)]
    /\ actor' = [actor EXCEPT ![a].at = "prepare", ![a].ts = None]
    /\ UNCHANGED <<active, deferred, mailbox, task, ends, history, dropped, turns, marks>>

-----------------------------------------------------------------------------
(* The task *)

At(t, pc) == task[t].pc = pc

Go(t, pc) == task' = [task EXCEPT ![t].pc = pc]

\* The turn records its own input, which the model sees before anything queued.
\* A review or a compaction runs to its end without the queue.
StartTask(t) ==
    /\ At(t, "start")
    /\ RecordItems(task[t].held)
    /\ task' = [task EXCEPT ![t].pc = IF task[t].kind = "other" THEN "ended" ELSE "top",
                            ![t].drain = task[t].held = <<>>,
                            ![t].held = <<>>]
    /\ UNCHANGED <<active, pending, deferred, mailbox, actor, ends, dropped, sent, turns, marks>>

\* The compaction before the first request fails: the turn gives up, and its
\* input is not recorded. One that a hook stops (TurnAborted) ends the task.
StartFails(t) ==
    /\ At(t, "start") /\ task[t].kind = "regular"
    /\ Drop(task[t].held)
    /\ \E pc \in {"check", "ended"} :
          task' = [task EXCEPT ![t].pc = pc, ![t].held = <<>>]
    /\ UNCHANGED <<active, pending, deferred, mailbox, actor, ends, history, sent, turns, marks>>

\* Before a request the queue of the active turn is taken, unless the request
\* must come first: at the start, and after a compaction in mid-turn.
DrainInput(t) ==
    /\ At(t, "top")
    /\ \/ /\ task[t].drain
          /\ task' = [task EXCEPT ![t].pc = "record", ![t].held = PendingInput]
          /\ pending' = IF active = None THEN pending
                        ELSE [pending EXCEPT ![active.ts] = <<>>]
          /\ MailTaken
       \/ ~task[t].drain /\ Go(t, "record") /\ UNCHANGED <<pending, mailbox>>
    /\ UNCHANGED <<active, deferred, actor, ends, history, dropped, sent, turns, marks>>

RecordInput(t) ==
    /\ At(t, "record")
    /\ RecordItems(task[t].held)
    /\ task' = [task EXCEPT ![t].pc = "sample", ![t].held = <<>>, ![t].drain = FALSE]
    /\ UNCHANGED <<active, pending, deferred, mailbox, actor, ends, dropped, sent, turns, marks>>

\* The model answers: with nothing queued for it the turn closes to mail.
Answer(t) ==
    /\ At(t, "sample")
    /\ Go(t, "sampled")
    /\ deferred' = IF HasTask /\ active.task = t /\ pending[active.ts] = <<>>
                   THEN [deferred EXCEPT ![active.ts] = TRUE] ELSE deferred
    /\ UNCHANGED <<active, pending, mailbox, actor, ends, history, dropped, sent, turns, marks>>

\* The model calls a tool: the turn is open to mail again and goes on. When the
\* context is full it is compacted first, and the tool's answer goes before any
\* queued input.
CallTool(t) ==
    /\ At(t, "sample")
    /\ \E drain \in BOOLEAN :
          task' = [task EXCEPT ![t].pc = "top", ![t].drain = drain]
    /\ deferred' = IF HasTask /\ active.task = t
                   THEN [deferred EXCEPT ![active.ts] = FALSE] ELSE deferred
    /\ UNCHANGED <<active, pending, mailbox, actor, ends, history, dropped, sent, turns, marks>>

\* After an answer the turn goes on if input came meanwhile.
AfterAnswer(t) ==
    /\ At(t, "sampled")
    /\ task' = [task EXCEPT ![t].pc = IF HasPendingInput THEN "top" ELSE "check",
                            ![t].drain = HasPendingInput]
    /\ UNCHANGED <<active, pending, deferred, mailbox, actor, ends, history,
                   dropped, sent, turns, marks>>

\* A request that fails ends run_turn; a compaction in mid-turn that a hook stops
\* (TurnAborted) ends the task with it.
SampleFails(t) ==
    /\ At(t, "sample")
    /\ \E pc \in {"check", "ended"} : Go(t, pc)
    /\ UNCHANGED <<active, pending, deferred, mailbox, actor, ends, history,
                   dropped, sent, turns, marks>>

\* RegularTask runs run_turn again, without input of its own, while input waits.
CheckPending(t) ==
    /\ At(t, "check")
    /\ Go(t, IF HasPendingInput THEN "start" ELSE "ended")
    /\ UNCHANGED <<active, pending, deferred, mailbox, actor, ends, history,
                   dropped, sent, turns, marks>>

\* A cancelled task stops where it waits: for the startup, or for the model.
ObserveCancel(t) ==
    /\ task[t].cancelled
    /\ task[t].pc \in {"start", "sample"}
    /\ Drop(task[t].held)
    /\ task' = [task EXCEPT ![t].pc = "ended", ![t].held = <<>>]
    /\ UNCHANGED <<active, pending, deferred, mailbox, actor, ends, history, sent, turns, marks>>

\* Mutant of EndTask: a cancelled task reports too.
EndTaskAlways(t) ==
    /\ At(t, "ended")
    /\ Go(t, IF task[t].cancelled THEN "terminal" ELSE "finish")
    /\ UNCHANGED <<active, pending, deferred, mailbox, actor, ends, history,
                   dropped, sent, turns, marks>>

\* The task has flushed the rollout: only one that was not cancelled reports.
EndTask(t) ==
    /\ At(t, "ended")
    /\ task' = [task EXCEPT ![t] = IF @.cancelled THEN Gone ELSE [@ EXCEPT !.pc = "finish"]]
    /\ UNCHANGED <<active, pending, deferred, mailbox, actor, ends, history,
                   dropped, sent, turns, marks>>

\* Mutant of TakeTask: the input is recorded but stays queued.
TakeTaskCopies(t) ==
    /\ At(t, "finish")
    /\ \/ /\ HasTask
          /\ active' = [active EXCEPT !.task = None]
          /\ task' = [task EXCEPT ![t].pc = "terminal", ![t].ts = active.ts,
                                  ![t].held = pending[active.ts]]
          /\ UNCHANGED pending
          /\ evicted' = IF active.task = t THEN evicted
                        ELSE evicted \cup {<<t, active.task>>}
       \/ /\ ~HasTask
          /\ task' = [task EXCEPT ![t] = Gone]
          /\ UNCHANGED <<active, pending, evicted>>
    /\ UNCHANGED <<deferred, mailbox, actor, ends, history, dropped, sent, turns, raced>>

\* on_task_finished, under the lock: the task found in the slot, whichever it is,
\* is taken out and left to run by itself, the slot stays, and its queue is taken
\* for recording. A slot without a task ends it.
TakeTask(t) ==
    /\ At(t, "finish")
    /\ \/ /\ HasTask
          /\ active' = [active EXCEPT !.task = None]
          /\ task' = [task EXCEPT ![t].pc = "terminal", ![t].ts = active.ts,
                                  ![t].held = pending[active.ts]]
          /\ pending' = [pending EXCEPT ![active.ts] = <<>>]
          /\ evicted' = IF active.task = t THEN evicted
                        ELSE evicted \cup {<<t, active.task>>}
       \/ /\ ~HasTask
          /\ task' = [task EXCEPT ![t] = Gone]
          /\ UNCHANGED <<active, pending, evicted>>
    /\ UNCHANGED <<deferred, mailbox, actor, ends, history, dropped, sent, turns, raced>>

\* The queued input is recorded and the turn reported.
SendTerminal(t) ==
    /\ At(t, "terminal")
    /\ RecordItems(task[t].held)
    /\ ends' = [ends EXCEPT ![t] = @ + 1]
    /\ task' = [task EXCEPT ![t].pc = "clear", ![t].held = <<>>]
    /\ UNCHANGED <<active, pending, deferred, mailbox, actor, dropped, sent, turns, marks>>

\* Mutant of ClearActiveTurn: only a turn that nobody else closed to mail is cleared.
ClearActiveTurnOpen(t) ==
    /\ At(t, "clear")
    /\ active' = IF /\ active # None /\ active.task = None
                    /\ active.ts = task[t].ts /\ ~deferred[active.ts]
                 THEN None ELSE active
    /\ task' = [task EXCEPT ![t] = Gone]
    /\ UNCHANGED <<pending, deferred, mailbox, actor, ends, history, dropped, sent, turns, marks>>

\* The slot is emptied, if it still holds this turn state and no new task.
ClearActiveTurn(t) ==
    /\ At(t, "clear")
    /\ active' = IF active # None /\ active.task = None /\ active.ts = task[t].ts
                 THEN None ELSE active
    /\ task' = [task EXCEPT ![t] = Gone]
    /\ UNCHANGED <<pending, deferred, mailbox, actor, ends, history, dropped, sent, turns, marks>>

-----------------------------------------------------------------------------

Submit ==
    \/ \E u \in Inputs : SubmitInput(u) \/ SteerInput(u)
    \/ SubmitOther
    \/ \E m \in Mails : SubmitMail(m)
    \/ Interrupt
    \/ \E t \in Turns : GuardianInterrupts(t)
    \/ \E i \in Notes : InjectNoNewTurn(i)
    \/ TryStartTurnIfIdle

Lifecycle(a) ==
    \/ TakeActiveTurn(a)
    \/ AbortTask(a)
    \/ CheckMail(a) \/ ReserveTurn(a)
    \/ GiveBack(a) \/ \E i \in Notes : StartReserved(a, i)
    \/ TakePending(a) \/ OpenTurn(a) \/ FillTurn(a)
    \/ InstallTask(a)

TaskStep(t) ==
    \/ StartTask(t) \/ StartFails(t)
    \/ DrainInput(t) \/ RecordInput(t)
    \/ Answer(t) \/ CallTool(t) \/ SampleFails(t)
    \/ AfterAnswer(t) \/ CheckPending(t)
    \/ ObserveCancel(t)
    \/ EndTask(t) \/ TakeTask(t) \/ SendTerminal(t) \/ ClearActiveTurn(t)

Next ==
    \/ Submit
    \/ \E a \in Actors : Lifecycle(a)
    \/ \E t \in Turns : TaskStep(t)

Spec == Init /\ [][Next]_vars

\* The runtime polls every task and every actor. The model does not call tools
\* for ever, and the compaction before a turn does not fail for ever.
Fairness ==
    /\ \A a \in Actors : WF_vars(Lifecycle(a))
    /\ \A t \in Turns : /\ WF_vars(TaskStep(t))
                        /\ SF_vars(Answer(t))
                        /\ SF_vars(StartTask(t))

FairSpec == Spec /\ Fairness

-----------------------------------------------------------------------------
(* Properties *)

Task == [pc : Running \cup Finishing \cup {"none", "gone"},
         kind : {"regular", "other"}, held : Seq(Items), drain : BOOLEAN,
         cancelled : BOOLEAN, ts : States \cup {None}]
Actor == [at : {"idle", "abort", "waiting", "wake", "reserve", "reserved",
                "prepare", "open", "fill", "install"},
          turn : Turns \cup {None}, victim : Turns \cup {None},
          ts : States \cup {None}, input : Seq(Inputs), held : Seq(Items),
          kind : {"regular", "other"}, reason : {"replaced", "interrupted"}]

\* The state has its type.
TypeOK ==
    /\ active \in {None} \cup Slot
    /\ pending \in [States -> Seq(Items)]
    /\ deferred \in [States -> BOOLEAN]
    /\ mailbox \in Seq(Mails)
    /\ task \in [Turns -> Task]
    /\ actor \in [Actors -> Actor]
    /\ ends \in [Turns -> Nat]
    /\ history \in [Items -> Nat]
    /\ dropped \subseteq Items
    /\ sent \subseteq Items
    /\ turns \in 0 .. MaxTurns
    /\ evicted \subseteq Turns \X Turns
    /\ raced \in BOOLEAN

\* The queues an item passes through, and what each of them holds: the mailbox,
\* the input of a turn state, what a task has taken, the input of a start, and
\* what a start has taken.
Mailbox == <<"mail", None>>
Queue(ts) == <<"queue", ts>>
Hands(t) == <<"task", t>>
Start(a) == <<"start", a>>
Taken(a) == <<"taken", a>>
Boxes == {Mailbox} \cup {Queue(ts) : ts \in States} \cup {Hands(t) : t \in Turns}
            \cup {Start(a) : a \in Actors} \cup {Taken(a) : a \in Actors}

Content ==
    [b \in Boxes |-> CASE b[1] = "mail"  -> mailbox
                       [] b[1] = "queue" -> pending[b[2]]
                       [] b[1] = "task"  -> task[b[2]].held
                       [] b[1] = "start" -> actor[b[2]].input
                       [] OTHER          -> actor[b[2]].held]

\* How often an item is somewhere in the session.
Places(i) == UNION {{b} \X {k \in DOMAIN Content[b] : Content[b][k] = i} : b \in Boxes}
Copies(i) == Cardinality(Places(i)) + history[i] + IF i \in dropped THEN 1 ELSE 0

\* Everything that was submitted is in exactly one place: waiting in the mailbox
\* or in a turn state's queue, held by a task or by the start of one, in the
\* history, or thrown away by an abort, a failed start or an eviction. No race of
\* the loop, the guardian, an extension, the clients and the tasks records it twice
\* or duplicates it (input_queue.rs, tasks/mod.rs). It does not say that the item
\* is recorded some day: the queue of a turn state that nobody reads again is a
\* place too.
EachItemOnce == \A i \in Items : Copies(i) = IF i \in sent THEN 1 ELSE 0

Waits(t) == \E a \in Actors : actor[a].at = "waiting" /\ actor[a].victim = t

\* The turn's task was taken out of the slot by the start or by the end of another
\* turn, which takes a start that another actor's abort or start overlapped.
Evicted(t) == raced /\ \E s \in Turns : <<s, t>> \in evicted
Evicts(t) == raced /\ \E u \in Turns : <<t, u>> \in evicted

\* A task that is gone has been reported, by on_task_finished or by the abort that
\* waits for it (handle_task_abort), or was evicted: that is the one way in which a
\* client sees a turn start and not end. A turn is reported once, unless it was
\* being aborted when its on_task_finished found another turn's task in the slot
\* and took it: then it is both completed and aborted.
ReportedOnce ==
    \A t \in Turns :
       /\ (task[t].pc = "gone" /\ ends[t] = 0) => (Waits(t) \/ Evicted(t))
       /\ ends[t] > 1 => (ends[t] = 2 /\ Evicts(t))

\* A task that talks to the model is the one in the slot or one that an abort is
\* stopping: one runs beside the slot only when another turn's on_task_finished took
\* it out (tasks/mod.rs), which leaves it out of reach of any abort.
OneTurnAtATime ==
    \A t \in Turns :
       task[t].pc \in Running =>
          (HasTask /\ active.task = t) \/ Waits(t) \/ Evicted(t)

\* When nothing more is submitted the session falls idle, if no two starts or
\* aborts raced: no turn is left in the slot by a task that ended, was aborted or
\* lost its place. (A task that evicted another and is then killed by the abort
\* that waits for it leaves the slot occupied.)
GoesIdle == <>[](active = None \/ raced)

\* The debug assertion of start_task (tasks/mod.rs): whoever starts a task, the slot
\* it is about to fill holds no other task.
InstallFindsNoTask ==
    \A a \in Actors : actor[a].at = "install" => ~HasTask
=============================================================================
