------------------------------ MODULE DurableLog ------------------------------
(***************************************************************************)
(* What a rollout recorder promises to the session that records into it,   *)
(* without channels, files, retries or handles: accepted items become      *)
(* readable in the order in which they were accepted, each at least once,  *)
(* and an item that was promised durable stays readable.  Items are        *)
(* numbered in the order of their acceptance; 0 is the session metadata.   *)
(***************************************************************************)
EXTENDS Naturals, Sequences

CONSTANTS
    Items,          \* the numbers items may get
    SessionMeta     \* the number of the session metadata

VARIABLES
    log,        \* the items a reader of the rollout gets, in file order
    queue,      \* accepted items that are not yet acknowledged by the file
    promised    \* items some caller was told are durable

vars == <<log, queue, promised>>

Logged == {log[k] : k \in DOMAIN log}

Init ==
    /\ log = <<>>
    /\ queue = {SessionMeta}
    /\ promised = {}

(* The session hands over items it numbers above all earlier ones, to a    *)
(* rollout that has its metadata or will get it first.                     *)
Accept(S) ==
    /\ log # <<>> \/ SessionMeta \in queue
    /\ \A i \in S, j \in queue \cup Logged : j < i
    /\ queue' = queue \cup S
    /\ UNCHANGED <<log, promised>>

(* The oldest accepted item becomes readable.  It leaves the queue unless  *)
(* the write reported an error after all: then it is written once more.    *)
Commit(i) ==
    /\ i \in queue
    /\ \A j \in queue : i <= j
    /\ log' = Append(log, i)
    /\ queue' \in {queue, queue \ {i}}
    /\ UNCHANGED promised

(* A barrier is answered: everything it covers is readable.                *)
Promise(S) ==
    /\ S \subseteq Logged
    /\ promised' = promised \cup S
    /\ UNCHANGED <<log, queue>>

(* The process ends, or its writer stops after a shutdown whose barrier    *)
(* covers S: what is still queued is lost, what is promised is not.        *)
Close(S) ==
    /\ S \subseteq Logged
    /\ promised' = promised \cup S
    /\ queue' = {}
    /\ UNCHANGED log

(* The process dies while a line of item i is under way, and the line came *)
(* out whole.                                                              *)
CommitAndClose(i) ==
    /\ i \in queue
    /\ \A j \in queue : i <= j
    /\ log' = Append(log, i)
    /\ queue' = {}
    /\ UNCHANGED promised

(* An unloaded rollout gets one item appended by another writer.           *)
AppendUnloaded(i) ==
    /\ queue = {} /\ log # <<>>
    /\ \A j \in Logged : j < i
    /\ log' = Append(log, i)
    /\ UNCHANGED <<queue, promised>>

Next ==
    \/ \E S \in SUBSET Items : Accept(S) \/ Promise(S) \/ Close(S)
    \/ \E i \in Items : Commit(i) \/ CommitAndClose(i) \/ AppendUnloaded(i)

Spec == Init /\ [][Next]_vars
===============================================================================
