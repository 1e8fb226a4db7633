--------------------------- MODULE GuardedReport ---------------------------
(***************************************************************************)
(* One report of the LLM about one session, and the guards it goes through *)
(* (session_corrections.py: _detect_convo, _guard, _reguard_cached_rows).  *)
(***************************************************************************)
EXTENDS CorrectionGuard

CONSTANTS
    Sessions,  \* the sessions a report may be about
    Reported   \* what the LLM may report

ASSUME SessionAssumption ==
    /\ Reported \subseteq Reports
    /\ \A s \in Sessions :
         /\ IsFiniteSet(DOMAIN s) /\ DOMAIN s = 1..Cardinality(DOMAIN s)
         /\ \A m \in DOMAIN s : s[m] \in Texts
         /\ \A m, x \in DOMAIN s : m <= x => s[m].ts <= s[x].ts

VARIABLES
    session,   \* the session
    claim,     \* what the LLM reported
    row,       \* the row as the last guard left it
    verdict    \* new, kept or dropped

guardVars == <<session, claim, row, verdict>>

\* _detect_convo keeps the reports whose anchor is a message of the session.
InitReport ==
    /\ session \in Sessions
    /\ claim \in Reported
    /\ claim.anchor \in DOMAIN session
    /\ row = claim
    /\ verdict = "new"

\* Fresh reports are guarded once; kept rows are guarded again by every later run.
ApplyGuard ==
    /\ verdict # "dropped"
    /\ row' = Guard(row, session)
    /\ verdict' = IF Valid(row', session) THEN "kept" ELSE "dropped"
    /\ UNCHANGED <<session, claim>>

GuardSpec == InitReport /\ [][ApplyGuard]_guardVars

-----------------------------------------------------------------------------
(* Properties *)

\* The docstring of _resolve_anchor: a second pass over a kept row changes
\* nothing, so a cached row is never moved or lost by being guarded again.
GuardIdempotent ==
    [][verdict = "kept" => row' = row /\ verdict' = "kept"]_guardVars

\* A kept row blames the bot message that says the quote last before the person
\* corrected it, whoever the LLM blamed.
NearestError ==
    verdict = "kept" =>
      /\ session[row.anchor].ts < session[row.corrector].ts
      /\ ~session[row.corrector].bot
      /\ \A m \in DOMAIN session :
           /\ session[m].bot /\ row.quote \in session[m].says
           /\ session[m].ts < session[row.corrector].ts
           => session[m].ts <= session[row.anchor].ts

\* _guard rescues a true correction whose anchor the LLM misplaced: a row that some
\* anchor would carry through the checks is kept, unless the message it is moved to
\* is a receipt or was sent at the same time as that anchor.
RescuesMisplacedAnchor ==
    verdict = "dropped" =>
      \A a \in DOMAIN session :
        Valid([claim EXCEPT !.anchor = a], session) =>
          session[row.anchor].placeholder \/ session[row.anchor].ts = session[a].ts

\* The anchor the LLM made up plays no part: had it blamed any other message, the
\* guard would have left the same row (the key rows are deduplicated by).
AnchorIgnoresModel ==
    verdict = "kept" =>
      \A other \in DOMAIN session :
        Guard([claim EXCEPT !.anchor = other], session) = row
=============================================================================
