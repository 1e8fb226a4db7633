# Verification of agent-trajectory

This directory holds TLA+ models of the two programs of this repository, TLC
configurations that check them on small instances, and TLAPS proofs of the main
results for all instances:

* the Python pipeline that turns the chat history of a Feishu group into tasks,
  sub-requirements and corrections (`trajectory_extract/`, with the capture scripts
  of `trajectory-collect/`);
* the Codex agent in Rust (`openai-codex/codex-rs/`), of which the parts that keep
  lasting state or arbitrate between concurrent flows are modelled: the rollout
  recorder, the two phases of the memory pipeline, and the turns of a session.

`tmp/` and `work/` hold artefacts.

## 1. The system

| Component | State it keeps | Operations | Interaction | What makes it correct |
|---|---|---|---|---|
| Incremental segmentation (`incremental_segment.py`, `run_incremental_cron.sh`) | one JSON state file per group: watermark, frozen tasks, active tail, title anchors | one run: load, fetch, reopen or reuse, segment, write through a temporary file, export | called by cron for each group, and by hand; calls `task_stitch`, `llm_segment`, `export_tasks` | every message filed once, none lost, frozen tasks stable, failed decompositions repeated |
| Atomic segments, terminal flags (`task_stitch.py`) | none | fetch history, cut by gap and topic, stitch by replies, decide which task is unfinished | input of the LLM segmentation | a partition of the events; only the most recently touched task may be unfinished |
| LLM segmentation (`llm_segment.py`) | none | group segments, assemble clusters, render; audit splits, in an evaluation only (`eval_split_guard.py`) | LLM calls whose answers may be anything | the clusters partition the segments whatever the answers are |
| Decomposition (`llm_decompose.py`) | none | chunk, ask, retry, repair membership | one call per task | every message of a task in one sub-requirement |
| Export (`export_tasks.py`) | `<group>_index.jsonl`, one file pair per frozen task | export after a run, fail-soft | reads the state just written | the index comes to list the frozen tasks |
| Session routing (`route_day.py`) | route cache | route each request to a session | called by the correction pipeline | replies follow their parent, control commands their target |
| Correction pipeline (`session_corrections.py`) | route cache, append-only detection cache, result file | route, resume, detect per session, guard, verify, publish | `runtime_lane` events, LLM in a child process | every session examined, nothing examined is lost by a kill |
| Correction guard (`session_corrections._guard`, `correction_census.validate_events`) | none | re-derive the anchor, move the corrector, check | applied to fresh and to cached rows | only verifiable rows pass; the result does not depend on made-up ids; a second pass changes nothing |
| Runtime events (`runtime_lane.py`, `refresh_runtime_events.py`) | recent events file | refresh, merge three sources | input of the pipeline | no gap between sources |
| Capture proxies, OTLP collector (`trajectory-collect/scripts/`) | daily JSONL/gzip files, a set of seen prompts | forward, deduplicate, append | between an agent and its model API | every call recorded once, records readable after a crash |
| Message tree, context export (`message_tree.py`, `export_context.py`) | none | build the tree of captured contexts | reads the captured calls | each call on one path |
| Replay, gold review, adapters, thread rewriting | none lasting | batch scripts around one LLM call or one file format | – | – |
| Codex: rollout recorder (`rollout/src/recorder.rs`, `ordinal.rs`) | one JSONL file per thread, the buffer of the writer task, the next ordinal | record, persist, flush, shutdown, resume, append while unloaded | sessions send commands into a bounded channel, one task writes | what a barrier acknowledged stays readable, in order, through failures and crashes |
| Codex: memory extraction (`memories/write/src/phase1.rs`, `state/src/runtime/memories.rs`) | rows `jobs` and `stage1_outputs` of the memories database | scan, claim, extract, mark, retry, prune, delete, clear | every process that starts up; threads go on meanwhile | bounded concurrency; no content skipped as already extracted; every idle thread settles |
| Codex: memory consolidation (`phase2.rs`, `workspace.rs`, `git-utils/src/baseline.rs`) | the global job, the memory workspace and its baseline commit | claim, select, sync, run an agent, reset the baseline, mark | phase 1 enqueues it; an agent edits the workspace | one consolidation at a time; only digested inputs are committed; rows that go are forgotten |
| Codex: turns of a session (`core/src/tasks/`, `core/src/session/`) | the slot of the active turn, its input queue, the mailbox | start, steer, interrupt, replace, inject, finish | submission loop, guardian, extensions, clients, tools and the tasks share one lock held for single steps | each item in one place, each turn reported once, one turn at a time, as long as no two starts overlap |
| Codex: model client, exec, sandbox, app server, TUI, CLI, configuration | – | I/O, rendering, option parsing | – | not modelled, section 5 |

The hard behaviours are the cycle freeze, thaw, reopen over many runs with
timestamps cut to seconds at the query; crashes between any two steps of a run;
runs that overlap (cron and an operator share the state file and the name of its
temporary file); provider outages that fail one call of several; and LLM answers
that repeat, omit or invent ids. In Codex they are half-written lines, leases that
outlive or are outlived by their holders, a workspace that a dead agent left half
edited, and a lock that is released between the steps of starting, aborting and
finishing a turn. `PROJECT.json` lists them line by line under
`hazards`.

## 2. Modules

| Module | Models | Kind |
|---|---|---|
| `IncrementalSegment` | `run_incremental`, the group and its outages | component |
| `MCIncrementalSegment` | up to three messages and their reply edges | TLC instance |
| `IncrementalSegmentProofs` | – | proofs |
| `TaskAssembly` | `llm_segment`, `apply_split_guard`, `audit_membership`, `assemble_clusters` | component |
| `MCTaskAssembly`, `TaskAssemblyProofs` | – | instance, proofs |
| `CorrectionGuard` | `_guard`: `_resolve_anchor`, `_resolve_corrector`, `validate_events` | operators |
| `GuardedReport` | one report about one session, guarded again and again | component, extends `CorrectionGuard` |
| `MCGuardedReport`, `GuardedReportProofs` | – | instance, proofs |
| `SessionCorrections` | `run`, `build_route`, `_reguard_cached_rows`, `verify_events`, with the routes of `route_day` | component, extends `CorrectionGuard` |
| `MCSessionCorrections` | a chat with the same error twice | TLC instance |
| `SessionCorrectionsProofs` | – | proofs, extends `GuardedReportProofs` |
| `DurableLog` | what a rollout recorder promises | abstract specification |
| `RolloutRecorder` | `RolloutRecorder`, `rollout_writer`, ordinals, resume | component, implements `DurableLog` |
| `MemoryExtraction` | phase 1 of the memory pipeline | component |
| `MemoryConsolidation` | phase 2 of the memory pipeline | component |
| `SessionTurns` | the active turn, its task, its input queue, the mailbox | component |
| `MCRolloutRecorder`, `MCMemoryExtraction`, `MCMemoryConsolidation`, `MCSessionTurns` | – | TLC instances |
| `RolloutRecorderProofs`, `MemoryExtractionProofs`, `MemoryConsolidationProofs`, `SessionTurnsProofs` | – | proofs |

### IncrementalSegment

`disk` and `tmp` are the contents of the state file and of its `.tmp` file: a
state, `Absent`, `Empty` (just truncated) or `Torn` (bytes of a partial write or
of two writers). A state is its watermark `wm`, its frozen tasks (message ids and
`decompose_ok`) and the ids of the active tail. Each runner `r` has a program
counter and what its process holds: the loaded state `snap[r]`, the fetched events
`new[r]`, the state it will write `next[r]` and the file `at[r]` its open handle
points to. `feed` and `ts` are Feishu's side, `clock` ticks `Second` times a
second, so a timestamp is finer than the whole seconds the queries use. `healthy`
says that the outage of the providers is over for good.

| Action | Code |
|---|---|
| `LoadState` | `_load_state`; an unreadable file raises, so the run never gets further |
| `FetchHistory` | start at `int(watermark)` or `--since`, end at `int(time.time())` or `--until`; early return on an existing state without events |
| `SegmentEvents` | reopen by replies, hard-freeze by the old watermark minus the thaw window, merge the rest, cut it, freeze all but the unfinished cluster, move the watermark |
| `OpenTmp`, `CloseTmp`, `Replace` | `_write_state`: truncate, write, rename, with a second runner's handle following the renamed file |
| `Export` | `_export_after_segment`, fail-soft |
| `Abort` | an exception or a kill between any two steps |
| `Tick`, `Post`, `Recall`, `Recover` | Feishu, the members of the group, the end of the outage (external) |

The segmenter is abstracted to any grouping of the active events (`Groupings`),
without the noise-only blocks, with the unfinished cluster chosen by
`compute_terminal`'s rule and any set of failed decompositions while the outage
lasts. `TaskAssembly` shows that the code does produce such a grouping. Every
frozen record is terminal, so `terminal` is not kept.

### TaskAssembly

The answers of the two LLMs are any lists of lists of numbers (`Answers`,
`Audits`): repeated, out of range, empty. `_seg_ints` has turned strings into
numbers by then. There are two callers: the pipeline assembles the answer as it is,
`eval_split_guard.py` puts it through `apply_split_guard` and scores what comes out;
nothing in the repository assembles a split answer. The guard and the assembly go
task by task as the loops of the code do. Two exceptions are raised outside the `try`
of `_split_audit_llm`: `GuardRaises` is the `IndexError` of `atoms[s - 1]`,
`AuditRaises` the `TypeError` of an audit whose groups are null or a number. `Before`
is the stable sort by smallest number.

### CorrectionGuard and GuardedReport

A session maps its messages, in row order, to their time and to what the regular
expressions see in the text (`Texts`): a message is a bot's, a receipt, admits an
error, redirects, and so on. A report (`Reports`) is anchor, quote, corrector and
role, all made up by the LLM. `ApplyGuard` is `_guard`: once for a fresh report,
again by every later run for the rows of the cache.

### SessionCorrections

`route`, `cache` and `out` are the three files; `tail` says how the cache ends: with
a newline (`ended`), with a whole line that lacks it (`bare`), or in something that is
no JSON (`broken`). The other variables are the locals of `run`, lost when it ends.
`evs` is what `load_events` would return now: messages may arrive at any time, also
older ones than those already there. `examined` is a history variable, the message
sets the LLM was asked about; about the sessions in `Short`, of less than 40
characters, it is not asked. `Requests` are the messages of role `user`, by which
`route_day` decides; whom the guard takes for a bot is another predicate.

| Action | Code |
|---|---|
| `LoadEvents`, `BuildRoute`, `SaveRoute` | `load_events`; reuse the route if its largest position reaches the last event, else any route `route_day` can return (`Routes`); dump it in place |
| `Resume` | read the cache, guard its rows again in their sessions of today; a line that is no JSON raises |
| `DetectSession`, `Flush`, `DetectFails` | one session at a time, in the order of their numbers: ask, append rows or the sentinel; an exception skips the session |
| `VerifyEvents`, `Publish` | the judge keeps any rows; first row for each anchor into `OUT` |
| `Kill` | the process dies, or the router raises; inside a write (`HalfWritten`) any number of bytes of it stay in the file |
| `Arrive`, `Recover` | new messages, the end of the outage |

A whole line without its newline parses; the next append is glued to it (`Appended`),
and from then on the file does not. On disk a route is by position in the events, in
the model by message: since events are only added, a route that reaches the last
position was made from just these events. A session long enough
to be cut into windows is treated as one window; control commands are left to a
module for `route_day`. `_reguard_cached_rows` groups the lines of the cache by
session; the lines of one session were appended together, so that the groups keep the
order of the file and `ReguardCachedRows` is a selection of its lines.

### RolloutRecorder and DurableLog

An item is its number in the order of acceptance, 0 the session metadata. `file`
keeps the records that parse, whether the last line is terminated (`clean`), whole
but without its newline (`bare`) or broken (`torn`), and whether the first line is
broken. `chan` is the bounded command channel, `pending`, `meta`, `opened`,
`deferred` and `next` the state of the writer, `cmd`, `step` and `attempt` its
program counter.

| Action | Code |
|---|---|
| `RecordCanonicalItems`, `Request` | a caller sends items, or a barrier it waits for |
| `ReceiveItems`, `ReceiveBarrier` | one arm of `rollout_writer` each; a rollout that was never opened buffers, and answers flush and shutdown only when nothing is buffered |
| `EnsureWriterOpen`, `WriteSessionMeta`, `WriteItem`, `WriteDone` | `write_pending_once`, step by step |
| `OpenFails`, `WriteFails`, `OrdinalOverflow` | an error: `Recover` drops the handle and tries once more, then reports |
| `Crash`, `DropRecorder` | the process dies, perhaps inside a line; the last clone is dropped |
| `Resume`, `AppendRolloutItemToPath` | terminate the last line, read the next ordinal, go on; fail if the first line is not metadata |

`DurableLog` has a log, a set of accepted items and the promised items; `Log` maps
the channel, the buffer and the unwritten metadata to the accepted items. The file
system keeps what a write left: there is no `fsync` in the code, so a loss of power
is outside the model.

### MemoryExtraction

The timestamps of the database are countdowns (`lease`, `retry`) that `Tick`
decrements; a thread's `updated_at` is a stamp from one counter. A thread is
`active`, `idle` long enough to be eligible, or `out` of the window (too old,
archived, or its memory mode changed). A token is the worker that drew it. `content`
and `updated` differ between the two steps of `append_items`. `covered` is a history
variable: the newest content a successful extraction read.

`StartUp` scans, `TryClaim` is one claiming transaction, `RunJobs` starts the jobs,
`Sample`, `Succeed`, `SucceedNoOutput` and `Fail` are the steps of one job,
`MarkIsLost` a mark the database refuses, an error `phase1.rs` drops: the job ends and
its row alone stays `running`. `Crash` is the death of the process, or the error of a
claim, which ends the run with the claims it made; `Prune`, `DeleteThreadMemory` and `ClearMemoryData` are the
removals. The database keeps `updated_at` in milliseconds, a claim in seconds
(`memories.rs:250`, `:260`, `phase1.rs:272`); a thread is claimed only after at least
an hour without a turn (`min_rollout_idle_hours` is clamped to 1..48), so the two
never disagree about which of two turns a claim covers, and one stamp stands for both. A worker that comes too late finds that the row is no longer its own and
changes nothing. Two behaviours the model brings out and no property forbids: a
claim from an old scan can lower `input_watermark`, and a worker that dies does not
use up a retry.

### MemoryConsolidation

An output is the stamp of its source. The workspace is its inputs (a stamp for
each thread) and its memory, which is named by the inputs it digests, `Partial`
when an agent stopped half way, or `Absent`. `base` is the committed baseline, `torn`
says that blobs of it are missing: `reset_git_repository_sync` removes `.git` file by
file before it commits anew, and cut short (`CutShort`) it may leave HEAD and trees
without some of their blobs. `ensure_git_baseline_repository` reads only the trees and
accepts that; `DiffFails` is the diff that then needs a missing blob.
`Claim`, `LoadKeys`, `Sync` and `SucceedUnchanged` are `phase2::run`;
`AgentCompletes`, `AgentFails`, `Heartbeat`, `ResetBaseline`, `SucceedCommitted`
are `agent::handle` and `loop_agent`. An agent that lost its lease is shut down by
a task of its own and may edit until then (`ClosingAgentEdits`). A process that is
suspended may lose its lease at any step, and goes on when it wakes. `stalls` counts
heartbeat errors and such leases: within the model, as `OverlapNeedsStall` shows, the
only way in which two consolidations meet. (Outside it there is another, see section 3.)

### SessionTurns

`active` is the slot: a turn state and a task, either of which the flows of control
take and put back one at a time. `pending` and `deferred` belong to a turn state,
`mailbox` to the session. `actor` holds where the submission loop, the guardian and an
extension are in an abort or a start; `task` where each task is. Nothing keeps the
three actors apart: each step is one lock section of the code, and between two of them
anything may happen. `evicted` and `raced` are history variables: who took whose task
out of the slot, and whether a task was ever installed while another actor was in the
middle of an abort or a start.

| Action | Code |
|---|---|
| `SubmitInput`, `SteerInput`, `SubmitOther`, `SubmitMail`, `Interrupt` | the handlers of the submission loop, and a client that steers |
| `GuardianInterrupts` | too many denied approvals: a spawned task aborts the turn |
| `InjectNoNewTurn` | an item beside the conversation |
| `TakeActiveTurn`, `AbortTask` | `abort_all_tasks`, `abort_turn_if_active`, `handle_task_abort` |
| `CheckMail`, `ReserveTurn` | `maybe_start_turn_for_pending_work`: is there mail, then is the slot free |
| `TryStartTurnIfIdle`, `GiveBack`, `StartReserved` | `try_start_turn_if_idle`: reserve, check again, give back or start |
| `TakePending`, `OpenTurn`, `FillTurn`, `InstallTask` | the lock sections of `start_task` |
| `StartTask`, `StartFails`, `DrainInput`, `RecordInput`, `Answer`, `CallTool`, `AfterAnswer`, `SampleFails`, `CheckPending` | `run_turn` inside `RegularTask::run`; `TurnAborted` leaves it without looking at the queue |
| `EndTask`, `TakeTask`, `SendTerminal`, `ClearActiveTurn` | the end of the spawned task and `on_task_finished` |

Merged are: the two lock sections of `get_pending_input` (queue, then mailbox), the
taking of the slot and of its queue in `on_task_finished`, and the checks an extension
makes between reserving and starting, of which the last decides. The guardian works on
one abort at a time. A killed task is gone at once, although tokio stops it at its next
await.

## 3. Runs

| Run | Bounds | Shows |
|---|---|---|
| `incremental` | 3 messages, one a reply, one recallable, one closing; 2 ticks a second, thaw 1 s, 4 ticks; one runner, one manual bound | `EachMessageOnce`, `NothingBelowWatermarkLost`, `HardFrozenStable`, `WatermarkMonotone` |
| `fair` | 3 messages, one of them noise, outage that ends | `EveryMessageFiled`, `HolesHeal`, `IndexCatchesUp` |
| `drift` | two runners, smallest instance with the behaviour | the first finding below |
| `assembly` | 3 segments, up to 2 tasks of up to 2 numbers out of 0..4, both callers, audits of 2 groups | `PartitionOfAtoms`, `FirstClaimWins`, `AuditIsLoud`, `GuardKeepsSegments` |
| `corrections` | 4 messages, 3 from the start, up to 3 sessions, 3 possible reports, 2 rows a session, kills at any byte of a write, outage that ends | `ResumeRestores`, `PublishedRowsHold`, `ExhaustiveWhileQuiet`, `EventuallyAllDone` |
| `guard` | all sessions of 2 or 3 messages of 16 kinds, and those of 4 in which a bot errs and a bot admits it; all reports | `NearestError`, `RescuesMisplacedAnchor`, `AnchorIgnoresModel`, `GuardIdempotent` |
| `rollout` | 2 callers, 3 items in batches of up to 2, a channel for 1 command, ordinals 0..2, 2 I/O errors, 1 death | `AckedIsDurable`, `InOrderByOrdinal`, `BarrierAnswered`, `ImplementsLog` |
| `extraction` | 2 threads, 2 workers (one inside a thread), cap 1, 1 retry, 2 turns, 1 death or lost mark, 1 slow job, 1 removal | `RunningCap`, `WatermarkIsCovered`, `SuccessNeverGoesBack`, `EveryThreadSettles` |
| `consolidation` | 2 threads of which 1 is selected, 2 processes, 2 results, 1 usage of a row, 1 fault or stall | `BaselineIsDigested`, `OverlapNeedsStall`, `MarkedIsCommitted`, `BaselineFollowsRows` |
| `turns` | 1 message, 1 item injected or brought by the extension, 2 turns | `EachItemOnce`, `ReportedOnce`, `OneTurnAtATime` |
| `turns_idle` | 1 message, 1 triggering mail, 2 turns | `GoesIdle` |
| `turns_start` | as `turns` | the second finding below |

Why the bounds suffice: three messages give a frozen task, a reply into it and a
tail; two ticks a second put two messages into one query second; a clock of four
ticks lets a task leave the thaw window and then be reopened, frozen again or
overtaken; one process that can die at each step reaches each crash point. For
the state properties the proofs remove the bounds altogether. In `assembly`
numbers 0 and 4 are out of range on both sides. In `guard` three messages give an
error, a correction and an admission, and the longer sessions let the guard
choose between two people. In `corrections` the chat has two errors with one quote,
the second of which arrives later, and a correction: a route puts the correction in a
session with either error or with both, a new route renumbers the sessions, and the
second error is then the nearer one. Two rows a session let a kill fall between them.
In `rollout` two faults let both attempts of one command fail, three ordinals run
out with the metadata and three items, and a channel of one makes callers wait. In
`extraction` two workers race for one slot of the cap, a lease ends under a live
job, and the second turn of a thread falls before, into or after an extraction. In
`consolidation` a result may change or go at every step of a run, and the one fault
falls on every step; two processes suffice for a lock. In `turns` the second turn is
the one that replaces, follows, overlaps or evicts the first, the message may start a
turn, steer it or wait in it, and all three actors may be under way at once; the mail
has a run of its own because liveness over all kinds of items at once is too large.
`extraction` scans every thread and allows one retry, so it says nothing of the limit
of the scan, and a second attempt comes only after a death or a newer turn.

Deadlock is not checked where the clock runs out and nothing needs to happen any
more (`CHECK_DEADLOCK FALSE`).

### Fairness

`FairSpec` asks for weak fairness of the clock, of the end of the outage and of
each runner's steps: cron starts a run again and again, and a started process goes
on. Nobody is obliged to post or recall. While the outage lasts runs may raise or
die any number of times; `Abort` is disabled after it, which is what the end of an
outage means. `HolesHeal` holds in `fair` because there nobody recalls a message:
the message at the watermark is fetched again by each run, so a run never returns
early; it covers refused decompositions and kills, not the early return itself.

In `SessionCorrections` weak fairness covers the steps of a run and the end of the
outage: the script is started again after it ended or died, which is how its
comments say it is to be used. After the outage no request fails and nothing is
killed.

In `RolloutRecorder` the runtime polls the writer task as long as it can move; the
I/O errors are bounded. In `MemoryExtraction` and `MemoryConsolidation` sessions
keep starting up, a live process goes on and time passes; deaths, faults and stalls
are bounded, so the liveness properties speak of what follows the last of them. In
`SessionTurns` every task and actor is polled (weak fairness), the model does not
call tools for ever and the compaction before a turn does not fail for ever (strong
fairness of `Answer` and `StartTask`): the second is an assumption about the
provider, without which `RegularTask::run` loops while input is pending.

### Findings

* `drift`: the module promises that frozen tasks do not drift. Nothing locks the
  state between reading and writing, and the script invites manual runs beside
  cron; the later writer puts its older view over the newer one.
* `turns_start`: `start_task` asserts (`debug_assert!`, `tasks/mod.rs:357` and `:370`)
  that the slot holds no task. In the trace an extension reserves the idle slot
  (`try_start_turn_if_idle`) and the loop, which finds no task to abort, starts the
  user's turn; both get to `start_task`, and the second to install finds the task of
  the first and drops it, and the dropped turn is never reported. The guardian's abort
  does the same when it goes on to `maybe_start_turn_for_pending_work`. `ReportedOnce`
  and `OneTurnAtATime` name what such an overlap can do and show that nothing else
  can: leave a turn without a report, report it as completed and as aborted, or let
  its task run beside the slot.

Further behaviours met while modelling, which contradict a comment or surprise a
reader, without a run of their own:

* `incremental_segment.py:338`: a run without new events returns before it looks at
  the frozen tasks. If the messages of the watermark's second are recalled and the
  group falls silent, a failed decomposition is not repeated, although the comments
  at `:160` and `:222` say it heals by itself.
* `session_corrections.py:516` skips a session whose number is in the cache, so
  messages that join it later, or sessions that get its number when a new message
  makes the route stale, are published over unexamined (the comment at `:8` calls
  the pass exhaustive). `ExhaustiveWhileQuiet` states what does hold.
* A kill inside `json.dump` (`session_corrections.py:479`) or inside an append
  (`:525–535`) leaves a file on which `:466` or `:506` raises in every later run; the
  comments at `:41` and `:42` call both caches re-enterable. A kill that leaves a whole
  line without its newline is harmless until the next run appends: the two lines
  become one that does not parse. A kill after the first of several rows of a session
  leaves it done without the others. `ResumeRestores` and `EventuallyAllDone` are about
  files that still parse.
* `incremental_segment.py:216`: with `--thaw-hours 0`, which the tests use, and
  timestamps finer than a second a message of the watermark's second that was frozen
  at once is fetched again and filed a second time. `EachMessageOnce` is checked with a
  window of one second and proved for every window that spans the rest of a second.
* `baseline.rs:76` says that "missing or unusable metadata is replaced". A repository
  whose blobs were partly removed by a kill in `remove_dir_all` (`:131`) counts as
  usable (`:83–86`), and every diff that needs one of the blobs fails (`:380–383`), so
  that each later consolidation ends in `failed_workspace_status`.
  `BaselineFollowsRows` excepts this state, `torn`.
* Resuming an empty rollout file is tested (`recorder_tests.rs:624`) and makes a
  rollout without metadata or ordinals, which `read_history_mode` then refuses. Every
  caller in the program reads the history or the metadata first, and
  `load_rollout_items` refuses an empty file, so `Resume` asks for a record.
* A rollout whose first line is broken can still be read by `load_rollout_items`,
  which skips it, but cannot be resumed. Items sent behind a shutdown that succeeds
  are accepted and dropped.
* `memories/README.md:85` says that only one consolidation inspects or changes the
  workspace at a time. A process that sleeps past its lease breaks this until it next
  looks at its row; `OverlapNeedsStall` shows that nothing else in the model does. The
  reset of all memories by a client, which is not in the model, does too: it deletes
  the row of the running job (`memories.rs:1386–1410`), and the next process claims a
  new one.
* Mail that triggers a turn and arrives while a turn is finishing, or after it has
  shown its answer, waits until something else wakes the session:
  `on_task_finished` does not call `maybe_start_turn_for_pending_work`.
* An item injected after `on_task_finished` has taken the queue goes into a turn
  state that is dropped when the slot is cleared. `EachItemOnce` counts the queue of a
  dropped turn state as a place: it rules out duplicates, not this loss.
* `on_task_finished` takes whatever task it finds in the slot. A turn that is being
  aborted by one actor and ends by itself after another actor has installed the next
  turn detaches that one's task, which then runs beside the slot where no abort finds
  it; and the aborted turn is reported twice. If it is killed before it clears the
  slot, the slot stays taken, which is why `GoesIdle` excepts sessions that `raced`.

## 4. Proofs

All proofs are for arbitrary constants, from the named assumptions of the modules.

* `IncrementalSegmentProofs`. Assumptions: the reply edges and noise are given, file
  marks are no states. `TypeCorrect`; `WatermarkLosesNothing` for any number of
  runners and any thaw window, 0 included; `MessagesFiledOnce` for any number of
  runners under the hypothesis `Thaw + 1 >= Second`, which its statement carries; `FrozenTasksDoNotDrift`
  and `WatermarkNeverFalls` for a single runner (the `drift` run shows that two
  runners break the first). The two state properties are not inductive on the
  file alone: a run carries what it loaded through the fetch and the
  segmentation. The inductive invariant says that every state anywhere (file,
  temporary file, loaded, about to be written) has disjoint tasks and holds every
  live meaningful message below its watermark and no message above it, and that
  a fetched set skips no live message of its window that is older than one it
  returns. The hypothesis is what keeps a message that is fetched again out of a
  hard-frozen task: without it TLC finds a message filed twice.
* `TaskAssemblyProofs`. `ClustersPartitionAtoms`, `ClustersFollowFirstClaim`,
  `SplitGuardRefines` and `AuditTellsTheClusters`, for any number of segments and any
  answers. The invariant relates `seen` to the clusters and says that the tasks still
  in `left` all come after those already assembled, so that what a task takes is what
  it claims first. The audit looks at the answer, the clusters come from the tasks:
  the second invariant, `Unsplit`, says that the pipeline's answer becomes the tasks
  as it is. `SplitGuardRefines` is about what the guard of the evaluation returns.
* `GuardedReportProofs`. `KeptRowsStay`, `KeptRowsBlameNearest`,
  `KeptRowsIgnoreReportedAnchor`, `MisplacedAnchorsRescued`, for every session in
  time order and every report. The core is `KeptAnchor`: moving the corrector to
  an earlier person only removes candidates that are later than the chosen anchor,
  so the choice stays the maximum. That a set of messages has a first and a last
  one comes from the well-foundedness of finite sets under inclusion, through the
  intervals the messages bound, because induction over the naturals is out of the
  prover's reach. `MisplacedAnchorsRescued` has two exceptions the proof brought
  out: the nearest message with the quote may be a receipt, and two messages with
  the quote may carry the same time.
* `SessionCorrectionsProofs`. `TypeCorrect`, `ResumeLosesNothing`,
  `PublishedRowsAreHeld`, `QuietRunsAreExhaustive`, for every chat, router, detector
  and judge and any deaths and outages. Assumptions: messages are numbered in time
  order, what the LLM may claim is a report, the file of a route is neither absent nor
  torn. The first part is about lists: which element is the i-th of those picked
  (`PlaceExists`), and that picking from a list and from its extension agree. With the
  idempotence of the guard (`GuardTwice`, from `GuardedReportProofs`) it gives that
  guarding the cache again after rows or a sentinel were appended yields the rows
  before, then the new ones (`ReguardGrows`, `ReguardSentinel`). The invariant
  `RunInv` says that the rows in memory are what a new run would take from the file,
  as long as the file parses, and that each is held by the guard in its session, which the judge and
  `first row for each anchor` only select from; and that a route on disk is about
  events a run has loaded. `QuietInv` says that, while no message has arrived, the
  cache names only sessions the LLM answered about, or that are too short, under the
  route on disk, and that
  a run has left a session aside only if it reports it missed: the property is about
  one run, but a session may have been examined by any run before.
* `RolloutRecorderProofs`. `TypeCorrect`, `AcksAreDurable`, `ReadersSeeOrder`,
  `Refinement`, for any number of callers, items, faults and deaths and any capacity of
  the channel. That what was promised
  is in the file says nothing about what is still on its way. The inductive invariant
  adds that every item this process accepted is in the file, in the buffer or in the
  channel (`NothingLost`); that a barrier in the channel is behind the items it covers,
  so that they are written or buffered once it is received (`BarriersBehind`); and that
  a file the writer holds open ends in a complete line (`WriterSound`), without which
  a retried line would join a broken one and take its neighbour along. Appending to
  such a file, whole or in part, keeps every record (`ItemsKept`). The order needs an
  invariant of its own, `Ordered`: items and ordinals grow along the file, every item
  in the buffer is newer than the file and every item in the channel newer than both,
  the next ordinal is above those in the file, and the metadata comes first. With
  both, each action is a step of `DurableLog` or leaves it alone, one lemma for each.
* `MemoryExtractionProofs`. `TypeCorrect`, `CapHolds`, `WatermarksAreCovered`,
  `WatermarksOnlyGrow`, for any number of threads, workers and retries. Assumption:
  `None` is neither a job row nor a claim. The invariant says that a claim a live
  worker holds and the row it belongs to agree as long as the token is the same, that
  a running row still has a retry left and an input watermark not below its success,
  that no two rows of a scan are about one thread, and that the content of a thread is
  never behind what scans and claims have seen of it. The cap follows by the
  cardinality of the set of running rows with a lease.
* `MemoryConsolidationProofs`. `TypeCorrect`, `CommitsAreDigested`, `OverlapsNeedStalls`,
  `MarksAreCommitted`. Assumption: `None` is neither a job nor a workspace. The
  invariant says that, until the first stall, whoever is between claim and end holds
  the lease and only its agent is alive, and that what is committed, or would be
  committed next, is digested by the memory beside it, with or without its blobs. A
  stall may hit a process at any step; what is proved about commits and marks is about
  the time before the first one.
* `SessionTurnsProofs`. `TypeCorrect`, `TurnsExclude`, `TurnsReportedOnce`,
  `ItemsAccounted` and `SlotFreeUntilRace`, for any number of turns and items and every
  interleaving of the three actors, the clients and the tasks. Assumption: `None` is
  neither a turn, a turn state nor the content of a slot. The invariant says that the
  turns being started are new and different from each other, that no two aborts wait
  for one task, that a live task is in the slot, waited for, or lost to another turn
  (`evicted`), and that the place of a task determines how often its turn was reported.
  Its last part, `RaceOK`, says that until a task is installed while another actor is
  busy nobody waits for a task or is about to start one while the slot holds one: from
  it follow `SlotFreeUntilRace`, the assertion of `start_task` up to the first such
  installation, and that an eviction takes one, which is how `raced` gets into the
  other two theorems. `ItemsAccounted` states `EachItemOnce`. Its proof has a ledger
  (`OnePlace`) and four ways to change it: an item enters a queue, a queue is poured
  into another, recorded, or dropped, each of which keeps every item in one place.
  Every action is one or two of these, provided that what it overwrites is empty, which
  the invariant says of the hands of actors and tasks.

Every invariant and action property of the passing runs, and the refinement, is stated
by a theorem. Only model-checked is liveness (`EveryMessageFiled`, `HolesHeal`,
`IndexCatchesUp`, `EventuallyAllDone`, `BarrierAnswered`, `EveryThreadSettles`,
`BaselineFollowsRows`, `GoesIdle`), which needs fairness and ENABLED, out of the
prover's reach.

## 5. Not modelled

Pipeline: titles carried from one window to the next, `confirmation_status`, rendered
documents and prompts (text); `hist_file` and pool snapshots (offline input of the
same code); the topic and gap
rules of the atomic segments, which only narrow the groupings that are considered
here; adapters, gold review, replay and thread rewriting (format conversion and
prompts without lasting state).

Codex: within the modelled parts, pending approvals, hooks that block input and the
startup prewarm of a session; the resumption of an empty rollout file, which no caller
attempts; the reset of all
memories by a client while a consolidation runs, and the retention window of its
selection; a loss of power. Of the rest of its nearly 700,000 lines of Rust most
is rendering and key handling (`tui`), protocol types, option and
configuration parsing, adapters to processes, sandboxes, the network and the
database, and tests inside the source files. A state model has nothing to say about
them line by line, so the models cover a small share of all lines by design: the
parts where several actors, failures or restarts meet.

## 6. Plan

In this order:

1. `MemoryConsolidation` with the reset of all memories by a client; `SessionTurns`
   with approvals and blocking hooks.
2. The child process of one LLM call with its timeout, and windows of long sessions,
   in `SessionCorrections`; `RouteDay` composed with it.
3. Exec sessions of Codex (process, output buffer, timeout) and the life of a thread
   in the app server.
4. `RuntimeEvents`, `AtomicSegments`, `Decompose`, `CaptureProxy`, `OtlpCollector`.
5. An abstract specification of the filed history (each message unfiled, filed,
   frozen) that `IncrementalSegment` with one runner refines.
