-------------------------- MODULE CorrectionGuard --------------------------
(***************************************************************************)
(* The machine guard over the corrections an LLM reports                   *)
(* (trajectory_extract/session_corrections.py: _guard = _resolve_anchor,   *)
(* _resolve_corrector; trajectory_extract/correction_census.py:            *)
(* validate_events).                                                       *)
(*                                                                         *)
(* The LLM reads one session and reports rows: which bot message was wrong *)
(* (anchor), the words that were wrong (quote), who corrected it           *)
(* (corrector).  Any of them may be made up.  The guard re-derives the     *)
(* anchor from the quote, moves a corrector that is the bot's own admission*)
(* back to the person who triggered it, and drops what it cannot verify.   *)
(*                                                                         *)
(* A session is a function from its messages, numbered in the order of its *)
(* rows (load_events sorts them by ts, ties kept in file order), to their  *)
(* ts and to what the regular expressions of the guard see in their text.  *)
(***************************************************************************)
EXTENDS Integers, FiniteSets

CONSTANTS
    Quotes,   \* quotes of at least four characters
    NoQuote,  \* an empty or shorter quote
    NoOne     \* a message id that is nowhere in the session

ASSUME QuoteAssumption == NoQuote \notin Quotes /\ NoOne \notin Int

Texts == [ts : Nat,               \* when it was sent: two may share a time
          bot : BOOLEAN,          \* _is_bot_row
          placeholder : BOOLEAN,  \* PLACEHOLDER: a receipt of the system
          says : SUBSET Quotes,   \* the quotes its text contains
          admits : BOOLEAN,       \* SELF_CORRECTION
          sums : BOOLEAN,         \* SUMMARY_CONFIRM and not STRONG_CORRECTION
          redirects : BOOLEAN,    \* _is_demand_change_without_correction
          answers : BOOLEAN,      \* TROUBLESHOOTING_FEEDBACK, not STRONG_CORRECTION
          asks : BOOLEAN,         \* TROUBLESHOOTING_REQUEST
          parent : Int \cup {NoOne}]

Reports == [anchor : Int \cup {NoOne}, quote : Quotes \cup {NoQuote},
            corrector : Int \cup {NoOne}, byUser : BOOLEAN]

Latest(S) == CHOOSE m \in S : \A x \in S : x <= m

\* max(S, key = ts): of the messages with the greatest ts the first in row order.
LatestByTime(S, sess) ==
    CHOOSE m \in S : \A x \in S :
      sess[x].ts < sess[m].ts \/ (sess[x].ts = sess[m].ts /\ m <= x)

-----------------------------------------------------------------------------
(* _resolve_anchor *)

Matches(r, sess) == {m \in DOMAIN sess : sess[m].bot /\ r.quote \in sess[m].says}

EarlierMatches(r, sess) ==
    {m \in Matches(r, sess) : r.corrector \in DOMAIN sess /\ sess[m].ts < sess[r.corrector].ts}

Candidates(r, sess) ==
    IF EarlierMatches(r, sess) # {} THEN EarlierMatches(r, sess) ELSE Matches(r, sess)

\* Mutant: the corrector's place is not looked at.
ResolveAnchorAnywhere(r, sess) ==
    IF Matches(r, sess) = {} THEN r
    ELSE [r EXCEPT !.anchor = LatestByTime(Matches(r, sess), sess)]

\* Mutant: the first message that says the quote, not the one just before.
ResolveAnchorEarliest(r, sess) ==
    IF Matches(r, sess) = {} THEN r
    ELSE [r EXCEPT !.anchor = CHOOSE m \in Candidates(r, sess) : \A x \in Candidates(r, sess) : m <= x]

\* Mutant: the match is looked for before the anchor, not before the corrector.
ResolveAnchorBeforeAnchor(r, sess) ==
    LET earlier == {m \in Matches(r, sess) : r.anchor \in DOMAIN sess /\ sess[m].ts < sess[r.anchor].ts}
    IN  IF Matches(r, sess) = {} THEN r
        ELSE [r EXCEPT !.anchor = LatestByTime(IF earlier # {} THEN earlier ELSE Matches(r, sess), sess)]

\* Mutant: an anchor that says the quote is left as the LLM reported it.
ResolveAnchorIfWrong(r, sess) ==
    IF Matches(r, sess) = {} \/ r.anchor \in Matches(r, sess) THEN r
    ELSE [r EXCEPT !.anchor = LatestByTime(Candidates(r, sess), sess)]

\* The latest bot message before the correction that contains the quote, or else
\* the latest that does; without any the row is left to the checks.
ResolveAnchor(r, sess) ==
    IF Matches(r, sess) = {} THEN r
    ELSE [r EXCEPT !.anchor = LatestByTime(Candidates(r, sess), sess)]

-----------------------------------------------------------------------------
(* _resolve_corrector *)

Human(t) == ~t.placeholder /\ ~t.bot

HumansBetween(r, sess) ==
    {m \in DOMAIN sess : r.anchor < m /\ m < r.corrector /\ Human(sess[m])}

\* The person who triggered an admission: the last who replied to the anchor, or
\* else the last who spoke.
Trigger(r, sess) ==
    LET replies == {m \in HumansBetween(r, sess) : sess[m].parent = r.anchor}
    IN  Latest(IF replies # {} THEN replies ELSE HumansBetween(r, sess))

BotAdmits(r, sess) ==
    /\ {r.anchor, r.corrector} \subseteq DOMAIN sess
    /\ ~Human(sess[r.corrector])
    /\ sess[r.corrector].admits
    /\ r.anchor < r.corrector
    /\ HumansBetween(r, sess) # {}
    /\ ~sess[Trigger(r, sess)].sums

ResolveCorrector(r, sess) ==
    IF BotAdmits(r, sess)
      THEN [r EXCEPT !.corrector = Trigger(r, sess), !.byUser = TRUE]
      ELSE r

-----------------------------------------------------------------------------
(* validate_events *)

\* The corrector only sends the output a bot asked for shortly before.
FillsIn(r, sess) ==
    /\ sess[r.corrector].answers
    /\ r.anchor < r.corrector
    /\ \E b \in DOMAIN sess :
         /\ r.anchor <= b /\ b < r.corrector
         /\ Cardinality({m \in DOMAIN sess : b <= m /\ m < r.corrector}) <= 4
         /\ sess[b].bot /\ sess[b].asks

Valid(r, sess) ==
    /\ r.anchor \in DOMAIN sess
    /\ sess[r.anchor].bot
    /\ ~sess[r.anchor].placeholder
    /\ r.quote \in sess[r.anchor].says
    /\ r.corrector \in DOMAIN sess
    /\ r.byUser
    /\ Human(sess[r.corrector])
    /\ ~sess[r.corrector].redirects
    /\ ~FillsIn(r, sess)
    /\ sess[r.corrector].ts > sess[r.anchor].ts

Guard(r, sess) == ResolveCorrector(ResolveAnchor(r, sess), sess)
=============================================================================
