------------------------- MODULE SessionCorrections -------------------------
(***************************************************************************)
(* Corrections, session by session                                         *)
(* (trajectory_extract/session_corrections.py: run, build_route,           *)
(* detect_session, _reguard_cached_rows, verify_events).                   *)
(*                                                                         *)
(* A run loads the events, routes them into sessions or reuses the routes  *)
(* on disk, guards the rows of its append-only cache again, asks the LLM   *)
(* about every session the cache does not name, appends what it finds, has *)
(* every row verified and publishes one row per anchor.  A run may be      *)
(* killed at any time, and messages arrive between and during runs.        *)
(*                                                                         *)
(* Messages are numbered in time order.  Control commands, which no route  *)
(* below depends on, and the windows of very long sessions are left out.   *)
(* A route is kept by message; on disk it is by position in the events,    *)
(* which comes to the same: events are only ever added, so a file that     *)
(* reaches the last position was made from just these events.              *)
(***************************************************************************)
EXTENDS CorrectionGuard, Sequences

CONSTANTS
    Text,        \* the messages: [1..n -> Texts]
    Requests,    \* those of role "user", which route_day routes by themselves
    Short,       \* sessions of less than 40 characters, as sets of messages
    Claims,      \* what the LLM may report
    MaxReports,  \* bound on the reports about one session
    First,       \* messages that are there from the start
    Absent,      \* the file does not exist
    Torn,        \* the file holds part of what was written
    NoRow        \* the sentinel of a session without corrections

Messages == DOMAIN Text

ASSUME PipelineAssumption ==
    /\ IsFiniteSet(Messages) /\ Messages = 1..Cardinality(Messages)
    /\ \A m \in Messages : Text[m] \in Texts
    /\ \A m, x \in Messages : m <= x => Text[m].ts <= Text[x].ts
    /\ Claims \subseteq Reports
    /\ NoRow \notin Reports
    /\ MaxReports \in Nat
    /\ First \subseteq Messages /\ Requests \subseteq Messages
    /\ Short \subseteq SUBSET Messages

VARIABLES
    evs,       \* messages load_events returns
    healthy,   \* the outage is over: nothing raises and nobody is killed
    route,     \* ROUTE_CACHE: Absent, Torn or [covers, assign]
    cache,     \* DETECT_CACHE: the lines written to it whole
    tail,      \* how DETECT_CACHE ends, see Tails
    out,       \* OUT: Absent, Torn or the rows published last
    pc,        \* where the run is
    loaded,    \* the events of the run
    assign,    \* message -> session number, in the run
    rows,      \* raw_rows
    todo,      \* sessions not yet looked at
    found,     \* what was found in the session at hand
    missed,    \* a session of this run could not be examined
    examined   \* history: the message sets the LLM answered about, in any run

files == <<route, cache, tail, out>>
locals == <<pc, loaded, assign, rows, todo, found, missed>>
vars == <<evs, healthy, route, cache, tail, out, pc, loaded, assign, rows, todo, found, missed, examined>>

-----------------------------------------------------------------------------
(* Sessions *)

Size(S) == Cardinality(S)

Unrouted == [m \in {} |-> 0]

\* Mutant: sessions are numbered from 0.
OpenNewFromZero(open) == Size(open)

\* open_new: the number of the next session.
OpenNew(open) == Size(open) + 1

\* What route_day may return for the events E.  Nothing is routed before the first
\* request; what is no request follows the message before it, a reply its parent;
\* any other request joins a session that is open or opens one.  What counts as a
\* request is the role alone; whom the guard takes for a bot depends on the name too.
Routes(E) ==
    LET requests == E \cap Requests
        routed == {m \in E : \E r \in requests : r <= m}
        before(m) == {x \in routed : x < m}
    IN  {a \in [routed -> 0..Size(requests)] :
           \A m \in routed :
             LET open == {a[x] : x \in before(m)}
             IN  /\ a[m] \in open \cup {OpenNew(open)}
                 /\ m \notin Requests => a[m] = a[Latest(before(m))]
                 /\ m \in Requests /\ Text[m].parent \in before(m) => a[m] = a[Text[m].parent]}

Sids(a) == {a[m] : m \in DOMAIN a}

Members(a, sid) == {m \in DOMAIN a : a[m] = sid}

\* by_sess[sid], as the guard sees it.
SessionRows(a, sid) == [m \in Members(a, sid) |-> Text[m]]

\* The last line ended, whole but for its newline, or some line is no JSON.
Tails == {"ended", "bare", "broken"}

DoneSessions(lines) == {lines[i].session : i \in DOMAIN lines}

\* A row with the guard applied in its session.
Guarded(line, a) == [line EXCEPT !.report = Guard(line.report, SessionRows(a, line.session))]

Passes(line, a) ==
    /\ line.report # NoRow
    /\ line.session \in Sids(a)
    /\ \E sess \in {SessionRows(a, line.session)} :
         \E r \in {Guard(line.report, sess)} : Valid(r, sess)

\* The elements of a list at the places keep, in their order.
Picked(list, keep) == [i \in 1..Size(keep) |-> list[CHOOSE k \in keep : Size({x \in keep : x <= k}) = i]]

\* Mutant: cached rows are taken as they are.
ReguardNothing(lines, a) == Picked(lines, {i \in DOMAIN lines : lines[i].report # NoRow})

\* _reguard_cached_rows: rows of sessions that no longer exist, and rows the guard
\* refuses in their session of today, are dropped.
ReguardCachedRows(lines, a) ==
    Picked([i \in DOMAIN lines |-> Guarded(lines[i], a)], {i \in DOMAIN lines : Passes(lines[i], a)})

\* What detect_session may find: guarded reports about messages of the session, and
\* nothing in one that is too short, about which the LLM is not asked.
Findings(a, sid) ==
    LET sess == SessionRows(a, sid)
        guarded == {Guard(c, sess) : c \in {d \in Claims : d.anchor \in DOMAIN sess}}
        kept == [session : {sid}, report : {r \in guarded : Valid(r, sess)}]
    IN  IF Members(a, sid) \in Short THEN {<<>>}
        ELSE UNION {[1..n -> kept] : n \in 0..MaxReports}

\* First row for each anchor.
FirstPerAnchor(list) ==
    {list[i] : i \in {j \in DOMAIN list :
                        \A k \in 1..(j - 1) : list[k].report.anchor # list[j].report.anchor}}

-----------------------------------------------------------------------------
(* Events and outages *)

Init ==
    /\ evs = First
    /\ healthy = FALSE
    /\ route = Absent /\ cache = <<>> /\ tail = "ended" /\ out = Absent
    /\ pc = "idle" /\ loaded = {} /\ assign = Unrouted
    /\ rows = <<>> /\ todo = {} /\ found = <<>> /\ missed = FALSE
    /\ examined = {}

Arrive(m) ==
    /\ m \in Messages \ evs
    /\ evs' = evs \cup {m}
    /\ UNCHANGED <<healthy, files, locals, examined>>

Recover ==
    /\ ~healthy
    /\ healthy' = TRUE
    /\ UNCHANGED <<evs, files, locals, examined>>

-----------------------------------------------------------------------------
(* One run *)

\* The process is gone with all it held.
Finish ==
    /\ pc' = "idle" /\ loaded' = {} /\ assign' = Unrouted
    /\ rows' = <<>> /\ todo' = {} /\ found' = <<>> /\ missed' = FALSE

LoadEvents ==
    /\ pc = "idle"
    /\ loaded' = evs
    /\ pc' = "route"
    /\ UNCHANGED <<evs, healthy, files, assign, rows, todo, found, missed, examined>>

\* A cached route is reused when it reaches the last event by position.
Reaches(r, E) == r \notin {Absent, Torn} /\ r.covers >= Size(E)

\* The last event is routed whenever any is: it is a request or follows one.
RouteFile(E, a) == [covers |-> IF DOMAIN a = {} THEN 0 ELSE Size(E), assign |-> a]

ASSUME RouteFileAssumption ==
    \A E \in SUBSET Messages : \A a \in Routes(E) : RouteFile(E, a) \notin {Absent, Torn}

\* A route file that is no JSON raises.
BuildRoute ==
    /\ pc = "route"
    /\ \/ /\ route = Torn
          /\ Finish
       \/ /\ Reaches(route, loaded)
          /\ assign' = route.assign
          /\ pc' = "resume"
          /\ UNCHANGED <<loaded, rows, todo, found, missed>>
       \/ /\ route # Torn /\ ~Reaches(route, loaded)
          /\ assign' \in Routes(loaded)
          /\ pc' = "save"
          /\ UNCHANGED <<loaded, rows, todo, found, missed>>
    /\ UNCHANGED <<evs, healthy, files, examined>>

SaveRoute ==
    /\ pc = "save"
    /\ route' = RouteFile(loaded, assign)
    /\ pc' = "resume"
    /\ UNCHANGED <<evs, healthy, cache, tail, out, loaded, assign, rows, todo, found, missed, examined>>

\* A line that is no JSON raises; one that only lacks its newline does not.
Resume ==
    /\ pc = "resume"
    /\ \/ tail = "broken" /\ Finish
       \/ /\ tail # "broken"
          /\ rows' = ReguardCachedRows(cache, assign)
          /\ todo' = Sids(assign) \ DoneSessions(cache)
          /\ pc' = "detect"
          /\ UNCHANGED <<loaded, assign, found, missed>>
    /\ UNCHANGED <<evs, healthy, files, examined>>

\* The sessions are taken in the order of their numbers.
Current == CHOOSE s \in todo : \A x \in todo : s <= x

DetectSession ==
    /\ pc = "detect" /\ todo # {}
    /\ found' \in Findings(assign, Current)
    /\ examined' = examined \cup ({Members(assign, Current)} \ Short)
    /\ pc' = "flush"
    /\ UNCHANGED <<evs, healthy, files, loaded, assign, rows, todo, missed>>

\* Mutant: a session that could not be examined gets its sentinel too.
DetectFailsDone ==
    /\ pc = "detect" /\ todo # {}
    /\ ~healthy
    /\ cache' = Append(cache, [session |-> Current, report |-> NoRow])
    /\ todo' = todo \ {Current}
    /\ missed' = TRUE
    /\ UNCHANGED <<evs, healthy, route, tail, out, pc, loaded, assign, rows, found, examined>>

\* The LLM refuses or times out: the session is skipped and stays undone.
DetectFails ==
    /\ pc = "detect" /\ todo # {}
    /\ ~healthy /\ Members(assign, Current) \notin Short
    /\ todo' = todo \ {Current}
    /\ missed' = TRUE
    /\ UNCHANGED <<evs, healthy, files, pc, loaded, assign, rows, found, examined>>

\* The lines of the session at hand: its rows, or the sentinel.
Lines == IF found = <<>> THEN <<[session |-> Current, report |-> NoRow]>> ELSE found

\* The first line appended to one without its newline is glued to it, and the two
\* together are no JSON.
Appended == IF tail = "ended" THEN "ended" ELSE "broken"

\* Mutant: what was found reaches the file and not this run's own rows.
FlushFileOnly ==
    /\ pc = "flush"
    /\ cache' = cache \o Lines
    /\ tail' = Appended
    /\ todo' = todo \ {Current}
    /\ found' = <<>>
    /\ pc' = "detect"
    /\ UNCHANGED <<evs, healthy, route, out, loaded, assign, rows, missed, examined>>

\* Mutant: no sentinel for a session without corrections.
FlushRowsOnly ==
    /\ pc = "flush"
    /\ cache' = cache \o found
    /\ tail' = Appended
    /\ rows' = rows \o found
    /\ todo' = todo \ {Current}
    /\ found' = <<>>
    /\ pc' = "detect"
    /\ UNCHANGED <<evs, healthy, route, out, loaded, assign, missed, examined>>

Flush ==
    /\ pc = "flush"
    /\ cache' = cache \o Lines
    /\ tail' = Appended
    /\ rows' = rows \o found
    /\ todo' = todo \ {Current}
    /\ found' = <<>>
    /\ pc' = "detect"
    /\ UNCHANGED <<evs, healthy, route, out, loaded, assign, missed, examined>>

\* verify_events: the judge, asked about each row, keeps any of them.
VerifyEvents ==
    /\ pc = "detect" /\ todo = {}
    /\ \E keep \in SUBSET DOMAIN rows : rows' = Picked(rows, keep)
    /\ pc' = "publish"
    /\ UNCHANGED <<evs, healthy, files, loaded, assign, todo, found, missed, examined>>

Publish ==
    /\ pc = "publish"
    /\ out' = FirstPerAnchor(rows)
    /\ Finish
    /\ UNCHANGED <<evs, healthy, route, cache, tail, examined>>

\* What an append leaves that stops at some byte after n whole lines.
CutOff(n) ==
    IF n = 0 THEN {tail, "broken"}
    ELSE IF tail # "ended" THEN {"broken"}
    ELSE IF n = Len(Lines) THEN {"bare"} ELSE Tails

\* What a write under way leaves when the process dies in it: a file opened for
\* writing is truncated at once, and an append stops at any byte.
HalfWritten ==
    \/ /\ pc = "save"
       /\ route' = Torn
       /\ UNCHANGED <<cache, tail, out>>
    \/ /\ pc = "flush"
       /\ \E n \in 0..Len(Lines) :
            cache' = cache \o SubSeq(Lines, 1, n) /\ tail' \in CutOff(n)
       /\ UNCHANGED <<route, out>>
    \/ /\ pc = "publish"
       /\ out' = Torn
       /\ UNCHANGED <<route, cache, tail>>

\* The process is killed, or route_day raises because the router does not answer.
Kill ==
    /\ pc # "idle" /\ ~healthy
    /\ HalfWritten \/ UNCHANGED files
    /\ Finish
    /\ UNCHANGED <<evs, healthy, examined>>

RunStep ==
    \/ LoadEvents \/ BuildRoute \/ SaveRoute \/ Resume
    \/ DetectSession \/ DetectFails \/ Flush \/ VerifyEvents \/ Publish

Next ==
    \/ \E m \in Messages : Arrive(m)
    \/ Recover
    \/ RunStep
    \/ Kill

Spec == Init /\ [][Next]_vars

\* The pipeline is started again whenever it ended, and outages end.
FairSpec == Spec /\ WF_vars(RunStep) /\ WF_vars(Recover)

-----------------------------------------------------------------------------
(* Properties *)

IsRoute(a) ==
    /\ DOMAIN a \subseteq Messages
    /\ \A m \in DOMAIN a : a[m] \in 1..Size(Messages)

Rows(reports) == Seq([session : 1..Size(Messages), report : reports])

\* Every file holds nothing, part of a write or what one whole write put there, and
\* the local variables of run have the values they can have at each of its steps.
TypeOK ==
    /\ evs \subseteq Messages /\ healthy \in BOOLEAN
    /\ route \in {Absent, Torn} \/ (IsRoute(route.assign) /\ route.covers \in 0..Size(Messages))
    /\ cache \in Rows(Reports \cup {NoRow}) /\ tail \in Tails
    /\ out \in {Absent, Torn} \/ \A line \in out : line.report \in Reports
    /\ pc \in {"idle", "route", "save", "resume", "detect", "flush", "publish"}
    /\ loaded \subseteq evs /\ IsRoute(assign) /\ DOMAIN assign \subseteq loaded
    /\ rows \in Rows(Reports) /\ found \in Rows(Reports)
    /\ todo \subseteq Sids(assign) /\ missed \in BOOLEAN
    /\ examined \subseteq SUBSET Messages

\* A run in progress holds exactly the rows that a run started on its files after a
\* kill would hold: dying between two sessions costs no correction and keeps none
\* that the guard refuses (the resumption in run, and _reguard_cached_rows).  The
\* exception is a cache no run can read any more, which a run in progress makes of
\* one whose last line a kill left without its newline.
ResumeRestores ==
    pc = "detect" /\ tail # "broken" => rows = ReguardCachedRows(cache, assign)

\* Whatever run found a row and however sessions were numbered then, a published row
\* blames, inside one session of today's route, the last bot message that says the
\* quote before a person corrected it (_reguard_cached_rows: cached rows must not
\* bypass the hard constraints).
PublishedRowsHold ==
    [][Publish => \A line \in out' :
         LET r == line.report
             sess == SessionRows(assign, line.session)
         IN  /\ {r.anchor, r.corrector} \subseteq DOMAIN sess
             /\ Human(sess[r.corrector])
             /\ sess[r.anchor].bot /\ r.quote \in sess[r.anchor].says
             /\ sess[r.anchor].ts < sess[r.corrector].ts
             /\ \A m \in Matches(r, sess) :
                  sess[m].ts < sess[r.corrector].ts => sess[m].ts <= sess[r.anchor].ts]_vars

\* The LLM was asked about every session, unless it is too short, just as the run
\* has it.
AllExamined == \A sid \in Sids(assign) : Members(assign, sid) \in examined \cup Short

\* The module's comment: every session is gone through once, so nothing is left out.
\* When a run publishes and no request failed, all its sessions of 40 characters or
\* more were examined, as long as no message arrives: kills and refused requests, in
\* this or in earlier runs, never make run publish over a session nobody looked at.
ExhaustiveWhileQuiet == [][Publish /\ ~missed /\ evs = First => AllExamined]_vars

\* The comments at ROUTE_CACHE and DETECT_CACHE: both files can be resumed from
\* after a crash.  Once the outage is over and no message arrives any more, the route
\* covers every message and every session in it is marked done, for good, unless a
\* kill inside a write left a route or a line that makes every later run raise.
EventuallyAllDone ==
    <>[](\/ route = Torn \/ tail = "broken"
         \/ /\ Reaches(route, evs)
            /\ Sids(route.assign) \subseteq DoneSessions(cache))
=============================================================================
