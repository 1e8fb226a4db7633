--------------------------- MODULE RolloutRecorder ----------------------------
(***************************************************************************)
(* The rollout recorder of Codex (codex-rs/rollout/src/recorder.rs): the   *)
(* sessions of one process send commands into a bounded channel, one       *)
(* writer task owns the JSONL file, buffers items, opens the file late,    *)
(* and answers barriers (persist, flush, shutdown).  A write may fail and  *)
(* leave part of its line behind; the process may die at any step and the  *)
(* rollout be resumed, or be appended to while it is unloaded.             *)
(*                                                                         *)
(* An item is its number in the order of acceptance, 0 the session         *)
(* metadata.  A line's text is reduced to whether it parses.               *)
(***************************************************************************)
EXTENDS Integers, Sequences, FiniteSets

CONSTANTS
    Clients,        \* callers that hold a clone of the recorder
    MaxItems,       \* bound: items recorded in a behaviour
    MaxBatch,       \* bound: items of one record_canonical_items call
    ChanCap,        \* capacity of the command channel (256 in the code)
    MaxOrdinal,     \* largest ordinal (u64::MAX in the code)
    MaxFaults,      \* bound: I/O errors in a behaviour
    MaxCrashes      \* bound: process deaths in a behaviour

ASSUME RolloutAssumption ==
    /\ MaxItems \in Nat /\ MaxBatch \in Nat \ {0} /\ ChanCap \in Nat \ {0}
    /\ MaxOrdinal \in Nat /\ MaxFaults \in Nat /\ MaxCrashes \in Nat

SessionMeta == 0
Items == 0..MaxItems
NoOrdinal == -1
Barriers == {"persist", "flush", "shutdown"}

VARIABLES
    exists,     \* the rollout file exists
    file,       \* its content: records that parse, state of the last line
    mode,       \* history mode of the thread: "legacy" or "paginated"
    up,         \* the writer task runs
    chan,       \* commands sent and not received
    client,     \* what each caller does: "idle" or "wait" for an ack
    pending,    \* pending_items
    meta,       \* the session metadata has still to be written
    opened,     \* the writer holds a file handle
    deferred,   \* deferred_log_file_info is set
    next,       \* next ordinal; above MaxOrdinal when it overflowed
    cmd,        \* the command the writer works on
    step,       \* where in write_pending_once it is; "recv" between commands
    attempt,    \* first or second write_pending_once of the command
    nextItem,   \* history: number of the next item
    born,       \* history: first number of this process's items
    promised,   \* history: items covered by a barrier answered with Ok
    faults, crashes

fileVars == <<exists, file, mode>>
writerVars == <<pending, meta, opened, deferred, next>>
taskVars == <<up, cmd, step, attempt>>
historyVars == <<nextItem, born>>
vars == <<fileVars, writerVars, taskVars, historyVars, chan, client, promised,
          faults, crashes>>

Record == [item : Items, ordinal : Nat \cup {NoOrdinal}]
Command == [op : {"add"} \cup Barriers, items : Seq(Items \ {SessionMeta}),
            client : Clients, upto : Items]
NoCommand == [op |-> "none"]

Written == {file.records[k].item : k \in DOMAIN file.records}

-----------------------------------------------------------------------------
(* The file                                                                *)

(* What the file holds after a write of record r that came out as `how': a *)
(* whole line, the whole record without its newline ("bare"), or part of   *)
(* it ("torn").  Whatever follows an unterminated line joins that line,    *)
(* which then does not parse.                                              *)
AppendBytes(f, r, how) ==
    LET parses == how # "torn" /\ f.tail = "clean"
        kept == IF f.tail = "bare" THEN SubSeq(f.records, 1, Len(f.records) - 1)
                                   ELSE f.records
    IN  [records |-> IF parses THEN Append(f.records, r) ELSE kept,
         tail |-> IF how = "line" THEN "clean"
                  ELSE IF parses THEN "bare" ELSE "torn",
         firstBad |-> f.firstBad \/ (~parses /\ kept = <<>>)]

(* ensure_rollout_is_newline_terminated                                    *)
NewlineTerminated(f) == [f EXCEPT !.tail = "clean"]

(* RolloutOrdinalState: current() of a paginated rollout fails on overflow *)
Overflow(n) == mode = "paginated" /\ n > MaxOrdinal
Ordinal(n) == IF mode = "paginated" THEN n ELSE NoOrdinal
Advance(n) == IF mode = "paginated" /\ n <= MaxOrdinal THEN n + 1 ELSE n

(* ordinal_state_for_rollout: one above the last record that parses        *)
NextOrdinal(f) ==
    IF mode = "paginated" THEN f.records[Len(f.records)].ordinal + 1 ELSE 0

(* read_history_mode: the first line has to parse, and to be metadata      *)
Resumable(f) == ~f.firstBad /\ f.records[1].item = SessionMeta

-----------------------------------------------------------------------------
(* The callers                                                             *)

(* record_canonical_items: the call returns as soon as the command is in   *)
(* the channel.                                                            *)
RecordCanonicalItems(c, n) ==
    /\ up /\ client[c] = "idle" /\ Len(chan) < ChanCap
    /\ nextItem + n - 1 <= MaxItems
    /\ chan' = Append(chan, [op |-> "add", client |-> c, upto |-> 0,
                             items |-> [k \in 1..n |-> nextItem + k - 1]])
    /\ nextItem' = nextItem + n
    /\ UNCHANGED <<fileVars, writerVars, taskVars, born, client, promised,
                   faults, crashes>>

(* persist, flush and shutdown: the caller waits for the ack.              *)
Request(c, op) ==
    /\ up /\ client[c] = "idle" /\ Len(chan) < ChanCap
    /\ chan' = Append(chan, [op |-> op, client |-> c, upto |-> nextItem - 1,
                             items |-> <<>>])
    /\ client' = [client EXCEPT ![c] = "wait"]
    /\ UNCHANGED <<fileVars, writerVars, taskVars, historyVars, promised,
                   faults, crashes>>

-----------------------------------------------------------------------------
(* The writer task                                                         *)

IsDeferred == ~opened /\ deferred

(* The writer is done with command c: a barrier gets its ack, and after a  *)
(* shutdown that succeeded the task ends, which drops the channel and with *)
(* it the acks of the commands still in it.                                *)
Answer(c, ok) ==
    /\ cmd' = NoCommand /\ step' = "recv" /\ attempt' = 1
    /\ promised' = IF ok /\ c.op \in Barriers
                   THEN promised \cup born..c.upto ELSE promised
    /\ IF ok /\ c.op = "shutdown"
       THEN /\ up' = FALSE /\ chan' = <<>>
            /\ client' = [d \in Clients |-> "idle"]
       ELSE /\ UNCHANGED up
            /\ chan' = IF step = "recv" THEN Tail(chan) ELSE chan
            /\ client' = IF c.op = "add" THEN client
                         ELSE [client EXCEPT ![c.client] = "idle"]

(* AddItems: add_items, then flush_if_materialized.                        *)
ReceiveItems ==
    /\ up /\ step = "recv" /\ chan # <<>> /\ Head(chan).op = "add"
    /\ pending' = pending \o Head(chan).items
    /\ chan' = Tail(chan)
    /\ IF IsDeferred THEN UNCHANGED <<cmd, step>>
                     ELSE cmd' = Head(chan) /\ step' = "open"
    /\ UNCHANGED <<fileVars, meta, opened, deferred, next, up, attempt, client,
                   historyVars, promised, faults, crashes>>

(* Mutant: a flush of a deferred rollout is answered whatever is buffered. *)
ReceiveBarrierIgnoresBuffer ==
    /\ up /\ step = "recv" /\ chan # <<>> /\ Head(chan).op \in Barriers
    /\ IF Head(chan).op # "persist" /\ IsDeferred
       THEN Answer(Head(chan), TRUE)
       ELSE /\ cmd' = Head(chan) /\ step' = "open" /\ chan' = Tail(chan)
            /\ UNCHANGED <<up, attempt, client, promised>>
    /\ UNCHANGED <<fileVars, writerVars, historyVars, faults, crashes>>

(* Persist, Flush, Shutdown: only flush and shutdown have nothing to do    *)
(* for a rollout that was never materialized and has no items.             *)
ReceiveBarrier ==
    /\ up /\ step = "recv" /\ chan # <<>> /\ Head(chan).op \in Barriers
    /\ IF Head(chan).op # "persist" /\ IsDeferred /\ pending = <<>>
       THEN Answer(Head(chan), TRUE)
       ELSE /\ cmd' = Head(chan) /\ step' = "open" /\ chan' = Tail(chan)
            /\ UNCHANGED <<up, attempt, client, promised>>
    /\ UNCHANGED <<fileVars, writerVars, historyVars, faults, crashes>>

(* Mutant: the second error too is followed by a retry.                    *)
RecoverKeepsTrying ==
    /\ opened' = FALSE /\ attempt' = attempt + 1 /\ step' = "open"
    /\ UNCHANGED <<up, cmd, chan, client, promised>>

(* Mutant: after the second error the command is dropped with its ack kept.*)
RecoverForgetsAck ==
    /\ opened' = FALSE
    /\ IF attempt = 1
       THEN attempt' = 2 /\ step' = "open" /\ UNCHANGED cmd
       ELSE attempt' = 1 /\ step' = "recv" /\ cmd' = NoCommand
    /\ UNCHANGED <<up, chan, client, promised>>

(* An error inside write_pending_once: enter_recovery_mode drops the file  *)
(* handle, write_pending_with_recovery tries once more, then reports it.   *)
Recover ==
    /\ opened' = FALSE
    /\ IF attempt = 1
       THEN /\ attempt' = 2 /\ step' = "open"
            /\ UNCHANGED <<up, cmd, chan, client, promised>>
       ELSE Answer(cmd, FALSE)

Fault == faults < MaxFaults /\ faults' = faults + 1

(* ensure_writer_open, which creates and terminates the file.              *)
EnsureWriterOpen ==
    /\ up /\ step = "open"
    /\ \/ /\ opened
          /\ UNCHANGED <<exists, file, opened, deferred>>
       \/ /\ ~opened
          /\ exists' = TRUE /\ file' = NewlineTerminated(file)
          /\ opened' = TRUE /\ deferred' = FALSE
    /\ step' = "meta"
    /\ UNCHANGED <<mode, pending, meta, next, up, cmd, attempt, historyVars,
                   chan, client, promised, faults, crashes>>

OpenFails ==
    /\ up /\ step = "open" /\ ~opened /\ Fault
    /\ exists' \in {exists, TRUE}
    /\ Recover
    /\ UNCHANGED <<file, mode, pending, meta, deferred, next, historyVars,
                   crashes>>

(* write_session_meta_if_needed                                            *)
WriteSessionMeta ==
    /\ up /\ step = "meta"
    /\ \/ ~meta /\ UNCHANGED <<file, meta, next>>
       \/ /\ meta /\ ~Overflow(next)
          /\ file' = AppendBytes(file, [item |-> SessionMeta,
                                        ordinal |-> Ordinal(next)], "line")
          /\ meta' = FALSE
          /\ next' = Advance(next)
    /\ step' = "items"
    /\ UNCHANGED <<exists, mode, pending, opened, deferred, up, cmd, attempt,
                   historyVars, chan, client, promised, faults, crashes>>

(* write_pending_items_once: an item leaves the buffer when it is written. *)
WriteItem ==
    /\ up /\ step = "items" /\ pending # <<>> /\ ~Overflow(next)
    /\ file' = AppendBytes(file, [item |-> Head(pending),
                                  ordinal |-> Ordinal(next)], "line")
    /\ pending' = Tail(pending)
    /\ next' = Advance(next)
    /\ UNCHANGED <<exists, mode, meta, opened, deferred, taskVars, historyVars,
                   chan, client, promised, faults, crashes>>

(* The line the writer is about to write, if any.                          *)
Writing == (step = "meta" /\ meta) \/ (step = "items" /\ pending # <<>>)
Line == [item |-> IF step = "meta" THEN SessionMeta ELSE Head(pending),
         ordinal |-> Ordinal(next)]

(* write_line fails: nothing of the line, a part of it, or all of it but   *)
(* the newline is in the file.                                             *)
Partial == {file, AppendBytes(file, Line, "torn"), AppendBytes(file, Line, "bare")}

(* Mutant: the buffer is drained before the result is known.               *)
WriteFailsDrains ==
    /\ up /\ Writing /\ ~Overflow(next) /\ Fault
    /\ file' \in Partial
    /\ pending' = IF step = "items" THEN Tail(pending) ELSE pending
    /\ Recover
    /\ UNCHANGED <<exists, mode, meta, deferred, next, historyVars, crashes>>

(* Mutant: the ordinal advances before the write.                          *)
WriteFailsAdvances ==
    /\ up /\ Writing /\ ~Overflow(next) /\ Fault
    /\ file' \in Partial
    /\ next' = Advance(next)
    /\ Recover
    /\ UNCHANGED <<exists, mode, pending, meta, deferred, historyVars, crashes>>

WriteFails ==
    /\ up /\ Writing /\ ~Overflow(next) /\ Fault
    /\ file' \in Partial
    /\ Recover
    /\ UNCHANGED <<exists, mode, pending, meta, deferred, next, historyVars,
                   crashes>>

(* No ordinal is left: every attempt fails before it writes.               *)
OrdinalOverflow ==
    /\ up /\ Writing /\ Overflow(next)
    /\ Recover
    /\ UNCHANGED <<fileVars, pending, meta, deferred, next, historyVars, faults,
                   crashes>>

(* All written, and the last flush has nothing left to report.             *)
WriteDone ==
    /\ up /\ step = "items" /\ pending = <<>>
    /\ Answer(cmd, TRUE)
    /\ UNCHANGED <<fileVars, writerVars, historyVars, faults, crashes>>

-----------------------------------------------------------------------------
(* Death of the process, and what happens to the rollout afterwards        *)

(* The memory of the process is gone.                                      *)
Gone ==
    /\ up' = FALSE
    /\ chan' = <<>> /\ client' = [d \in Clients |-> "idle"]
    /\ cmd' = NoCommand /\ step' = "recv" /\ attempt' = 1
    /\ pending' = <<>> /\ meta' = FALSE
    /\ opened' = FALSE /\ deferred' = FALSE /\ next' = 0

Crash ==
    /\ up /\ crashes < MaxCrashes
    /\ file' \in IF Writing /\ ~Overflow(next) THEN Partial ELSE {file}
    /\ crashes' = crashes + 1
    /\ Gone
    /\ UNCHANGED <<exists, mode, historyVars, promised, faults>>

(* discard_thread, or the last clone dropped: the channel closes, and the  *)
(* writer ends without a last flush.                                       *)
DropRecorder ==
    /\ up /\ step = "recv" /\ chan = <<>>
    /\ \A c \in Clients : client[c] = "idle"
    /\ Gone
    /\ UNCHANGED <<fileVars, historyVars, promised, faults, crashes>>

(* RolloutRecorder::new with Resume.  Its callers read the history or the  *)
(* metadata of the thread before, and load_rollout_items refuses a file    *)
(* without a record ("empty session file").  open_rollout_for_append       *)
(* terminates the last line, then reads the ordinal state, and fails for a *)
(* first line that is not metadata.                                        *)
Resume ==
    /\ ~up /\ exists /\ file.records # <<>>
    /\ file' = NewlineTerminated(file)
    /\ IF Resumable(file)
       THEN /\ up' = TRUE
            /\ next' = NextOrdinal(file)
            /\ pending' = <<>> /\ meta' = FALSE
            /\ opened' = TRUE /\ deferred' = FALSE
            /\ born' = nextItem
       ELSE UNCHANGED <<up, writerVars, born>>
    /\ UNCHANGED <<exists, mode, cmd, step, attempt, nextItem, chan, client,
                   promised, faults, crashes>>

(* append_rollout_item_to_path: one item appended to an unloaded rollout.  *)
AppendRolloutItemToPath ==
    /\ ~up /\ exists /\ file.records # <<>> /\ Resumable(file)
    /\ nextItem <= MaxItems
    /\ LET f == NewlineTerminated(file)
           r == [item |-> nextItem, ordinal |-> Ordinal(NextOrdinal(file))]
       IN  \/ Overflow(NextOrdinal(file)) /\ file' = f /\ UNCHANGED faults
           \/ /\ ~Overflow(NextOrdinal(file))
              /\ \/ file' = AppendBytes(f, r, "line") /\ UNCHANGED faults
                 \/ Fault /\ file' \in {f, AppendBytes(f, r, "torn"),
                                           AppendBytes(f, r, "bare")}
    /\ nextItem' = nextItem + 1
    /\ UNCHANGED <<exists, mode, writerVars, taskVars, born, chan, client,
                   promised, crashes>>

-----------------------------------------------------------------------------
(* RolloutRecorder::new with Create: nothing on disk yet.                  *)
Init ==
    /\ exists = FALSE
    /\ file = [records |-> <<>>, tail |-> "clean", firstBad |-> FALSE]
    /\ mode \in {"legacy", "paginated"}
    /\ up = TRUE
    /\ chan = <<>> /\ client = [c \in Clients |-> "idle"]
    /\ pending = <<>> /\ meta = TRUE
    /\ opened = FALSE /\ deferred = TRUE
    /\ next = 0
    /\ cmd = NoCommand /\ step = "recv" /\ attempt = 1
    /\ nextItem = 1 /\ born = 1
    /\ promised = {}
    /\ faults = 0 /\ crashes = 0

Writer ==
    \/ ReceiveItems \/ ReceiveBarrier
    \/ EnsureWriterOpen \/ OpenFails
    \/ WriteSessionMeta \/ WriteItem \/ WriteFails \/ OrdinalOverflow
    \/ WriteDone

Next ==
    \/ \E c \in Clients, n \in 1..MaxBatch : RecordCanonicalItems(c, n)
    \/ \E c \in Clients, op \in Barriers : Request(c, op)
    \/ Writer
    \/ Crash \/ DropRecorder \/ Resume \/ AppendRolloutItemToPath

Spec == Init /\ [][Next]_vars

(* The runtime polls the spawned writer task for as long as it can move.   *)
FairSpec == Spec /\ WF_vars(Writer)

-----------------------------------------------------------------------------
TypeOK ==
    /\ exists \in BOOLEAN /\ mode \in {"legacy", "paginated"}
    /\ file \in [records : Seq(Record), tail : {"clean", "torn", "bare"},
                 firstBad : BOOLEAN]
    /\ up \in BOOLEAN /\ opened \in BOOLEAN /\ deferred \in BOOLEAN
    /\ meta \in BOOLEAN
    /\ chan \in Seq(Command)
    /\ client \in [Clients -> {"idle", "wait"}]
    /\ pending \in Seq(Items \ {SessionMeta})
    /\ next \in Nat
    /\ cmd \in Command \cup {NoCommand}
    /\ step \in {"recv", "open", "meta", "items"}
    /\ attempt \in {1, 2}
    /\ nextItem \in 1..MaxItems + 1 /\ born \in 1..MaxItems + 1
    /\ promised \subseteq Items
    /\ faults \in 0..MaxFaults /\ crashes \in 0..MaxCrashes

(* flush and persist return Ok only when every item accepted before them   *)
(* is readable in the file, and no later failure, retry, crash, resume or  *)
(* unloaded append makes one of them unreadable.                           *)
AckedIsDurable == promised \subseteq Written

(* A reader gets the items in the order of their acceptance; an item that  *)
(* a failed write left behind whole is read twice, with one ordinal, and   *)
(* no two items of a paginated rollout share an ordinal.                   *)
InOrderByOrdinal ==
    \A i, j \in DOMAIN file.records :
        i < j => LET r == file.records[i] s == file.records[j] IN
            /\ r.item <= s.item
            /\ mode = "paginated" =>
                 /\ r.ordinal <= s.ordinal
                 /\ r.ordinal = s.ordinal <=> r.item = s.item

(* Every caller that waits for a barrier gets an answer, whatever fails.   *)
BarrierAnswered ==
    \A c \in Clients : client[c] = "wait" ~> client[c] = "idle"

(* The recorder implements the abstract log: the queue is what still waits *)
(* in the channel, in the buffer or as metadata.                           *)
Queued ==
    IF ~up THEN {}
    ELSE (IF meta THEN {SessionMeta} ELSE {})
         \cup {pending[k] : k \in DOMAIN pending}
         \cup UNION {{chan[m].items[k] : k \in DOMAIN chan[m].items} :
                     m \in DOMAIN chan}

Log == INSTANCE DurableLog WITH
           log <- [k \in DOMAIN file.records |-> file.records[k].item],
           queue <- Queued

(* The recorder implements DurableLog: the session metadata becomes        *)
(* readable before any item, accepted items become readable in order,      *)
(* without holes and at least once, and a promised item stays readable.    *)
ImplementsLog == Log!Spec
===============================================================================
