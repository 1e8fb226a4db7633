------------------------ MODULE GuardedReportProofs -------------------------
(***************************************************************************)
(* The correction guard, for every session and every report: the proofs of *)
(* the properties of CorrectionGuard.                                      *)
(***************************************************************************)
EXTENDS GuardedReport, FiniteSetTheorems, WellFoundedInduction, TLAPS

\* A set of messages of a session has a first one: of the intervals from the first
\* message to each of them, one is contained in no other.
LEMMA EarliestExists ==
    ASSUME NEW n \in Nat, NEW S \in SUBSET (1..n), S # {}
    PROVE  \E m \in S : \A x \in S : m <= x
<1> DEFINE T == {1..x : x \in S}
<1>1. T \subseteq FiniteSubsetsOf(Nat) /\ T # {}
  <2>1. ASSUME NEW x \in S PROVE IsFiniteSet(1..x) /\ 1..x \subseteq Nat
    BY FS_Interval
  <2> QED BY <2>1 DEF FiniteSubsetsOf
<1>2. PICK I \in T : \A J \in T : <<J, I>> \notin StrictSubsetOrdering(Nat)
  <2> HIDE DEF T
  <2>1. IsWellFoundedOn(StrictSubsetOrdering(Nat), FiniteSubsetsOf(Nat))
    BY FS_StrictSubsetOrderingWellFounded
  <2> QED BY <1>1, <2>1, WFMin
<1>3. PICK m \in S : I = 1..m
  BY <1>2
<1>4. ASSUME NEW x \in S PROVE m <= x
  <2>1. SUFFICES ASSUME x < m PROVE FALSE
    OBVIOUS
  <2>2. 1..x \subseteq 1..m /\ 1..x # 1..m /\ 1..x \in SUBSET Nat /\ 1..m \in SUBSET Nat
    BY <2>1
  <2>3. <<1..x, 1..m>> \in StrictSubsetOrdering(Nat)
    BY <2>2 DEF StrictSubsetOrdering
  <2> QED BY <1>2, <1>3, <2>3
<1> QED BY <1>4

\* ... and a last one.
LEMMA LatestExists ==
    ASSUME NEW n \in Nat, NEW S \in SUBSET (1..n), S # {}
    PROVE  Latest(S) \in S /\ \A x \in S : x <= Latest(S)
<1> DEFINE T == {k \in 1..n : n + 1 - k \in S}
<1>1. T # {}
  <2>1. PICK x \in S : TRUE
    OBVIOUS
  <2>2. n + 1 - x \in 1..n /\ n + 1 - (n + 1 - x) = x
    BY <2>1
  <2> QED BY <2>1, <2>2
<1>2. PICK k \in T : \A j \in T : k <= j
  <2>1. T \in SUBSET (1..n)
    OBVIOUS
  <2> HIDE DEF T
  <2> QED BY <1>1, <2>1, EarliestExists
<1>3. ASSUME NEW x \in S PROVE x <= n + 1 - k
  <2>1. n + 1 - x \in T
    OBVIOUS
  <2> QED BY <1>2, <2>1
<1>4. n + 1 - k \in S
  BY <1>2
<1> QED BY <1>3, <1>4 DEF Latest

\* A session is made of messages of a chat in time order.
InOrder(sess) ==
    /\ \E n \in Nat : DOMAIN sess \subseteq 1..n
    /\ \A m \in DOMAIN sess : sess[m] \in Texts
    /\ \A m, x \in DOMAIN sess : m <= x => sess[m].ts <= sess[x].ts

Later(sess, x, m) == sess[x].ts < sess[m].ts \/ (sess[x].ts = sess[m].ts /\ m <= x)

\* Every session the pipeline guards is in time order.
LEMMA SessionsInOrder ==
    ASSUME NEW s \in Sessions
    PROVE  InOrder(s)
BY SessionAssumption, FS_CardinalityType DEF InOrder

\* max(S, key = ts) finds a message of S than which none of S is later.
LEMMA LatestByTimeExists ==
    ASSUME NEW sess, InOrder(sess), NEW S \in SUBSET (DOMAIN sess), S # {}
    PROVE  LatestByTime(S, sess) \in S /\ \A x \in S : Later(sess, x, LatestByTime(S, sess))
<1>1. PICK n \in Nat : DOMAIN sess \subseteq 1..n
  BY DEF InOrder
<1>2. Latest(S) \in S /\ \A x \in S : x <= Latest(S)
  BY <1>1, LatestExists
<1> DEFINE T == {x \in S : sess[x].ts = sess[Latest(S)].ts}
<1>3. PICK m \in T : \A x \in T : m <= x
  <2>1. T \in SUBSET (1..n) /\ T # {}
    BY <1>1, <1>2
  <2> HIDE DEF T
  <2> QED BY <2>1, EarliestExists
<1>4. ASSUME NEW x \in S PROVE Later(sess, x, m)
  <2>1. sess[x].ts <= sess[m].ts /\ sess[x].ts \in Nat /\ sess[m].ts \in Nat
    BY <1>2, <1>3 DEF InOrder, Texts
  <2>2. sess[x].ts = sess[m].ts => m <= x
    BY <1>3
  <2> QED BY <2>1, <2>2 DEF Later
<1> QED BY <1>3, <1>4 DEF LatestByTime, Later

\* ... and there is only one such message.
LEMMA LatestByTimeUnique ==
    ASSUME NEW sess, InOrder(sess), NEW S \in SUBSET (DOMAIN sess),
           NEW m \in S, \A x \in S : Later(sess, x, m)
    PROVE  LatestByTime(S, sess) = m
<1> DEFINE p == LatestByTime(S, sess)
<1>1. p \in S /\ Later(sess, m, p) /\ Later(sess, p, m)
  BY LatestByTimeExists
<1>2. sess[p].ts \in Nat /\ sess[m].ts \in Nat /\ p \in Nat /\ m \in Nat
  BY <1>1 DEF InOrder, Texts
<1> HIDE DEF p
<1>3. p = m
  BY <1>1, <1>2 DEF Later
<1> QED BY <1>3 DEF p

-----------------------------------------------------------------------------
\* The candidates are messages of the session, and there are some exactly when a
\* bot message says the quote.
LEMMA CandidatesType ==
    ASSUME NEW sess, NEW r
    PROVE  /\ Candidates(r, sess) \in SUBSET (DOMAIN sess)
           /\ Candidates(r, sess) \subseteq Matches(r, sess)
           /\ Matches(r, sess) # {} => Candidates(r, sess) # {}
BY DEF Candidates, EarlierMatches, Matches

\* _guard keeps the quote; the anchor comes from _resolve_anchor alone; the
\* corrector is the reported one or a person who spoke before it.
LEMMA GuardShape ==
    ASSUME NEW sess, InOrder(sess), NEW r \in Reports
    PROVE  /\ Guard(r, sess) \in Reports
           /\ Guard(r, sess).quote = r.quote
           /\ Guard(r, sess).anchor = ResolveAnchor(r, sess).anchor
           /\ \/ Guard(r, sess).corrector = r.corrector
              \/ /\ Guard(r, sess).corrector \in DOMAIN sess
                 /\ r.corrector \in DOMAIN sess
                 /\ Guard(r, sess).corrector < r.corrector
<1> DEFINE q == ResolveAnchor(r, sess)
<1>0. PICK n \in Nat : DOMAIN sess \subseteq 1..n
  BY DEF InOrder
<1>1. q \in Reports /\ q.quote = r.quote /\ q.corrector = r.corrector /\ q.byUser = r.byUser
  <2>1. CASE Matches(r, sess) = {}
    BY <2>1 DEF ResolveAnchor
  <2>2. CASE Matches(r, sess) # {}
    <3> DEFINE a == LatestByTime(Candidates(r, sess), sess)
    <3>1. a \in Int
      BY <1>0, <2>2, CandidatesType, LatestByTimeExists
    <3>2. q = [r EXCEPT !.anchor = a]
      BY <2>2 DEF ResolveAnchor
    <3> HIDE DEF a, q
    <3> QED BY <3>1, <3>2 DEF Reports
  <2> QED BY <2>1, <2>2
<1> HIDE DEF q
<1>2. CASE ~BotAdmits(q, sess)
  <2>1. Guard(r, sess) = q
    BY <1>2 DEF Guard, ResolveCorrector, q
  <2> QED BY <1>1, <2>1 DEF q
<1>3. CASE BotAdmits(q, sess)
  <2> DEFINE t == Trigger(q, sess)
  <2>1. t \in HumansBetween(q, sess)
    <3> DEFINE R == {m \in HumansBetween(q, sess) : sess[m].parent = q.anchor}
               S == IF R # {} THEN R ELSE HumansBetween(q, sess)
    <3>1. S # {} /\ S \in SUBSET (1..n) /\ S \subseteq HumansBetween(q, sess)
      BY <1>0, <1>3 DEF BotAdmits, HumansBetween
    <3>2. t = Latest(S)
      BY DEF Trigger
    <3> HIDE DEF S, t
    <3> QED BY <3>1, <3>2, LatestExists
  <2>2. Guard(r, sess) = [q EXCEPT !.corrector = t, !.byUser = TRUE]
    BY <1>3 DEF Guard, ResolveCorrector, q
  <2>3. t \in DOMAIN sess /\ t \in Int /\ t < q.corrector /\ q.corrector \in DOMAIN sess
    BY <1>0, <1>3, <2>1 DEF HumansBetween, BotAdmits
  <2> HIDE DEF t
  <2>4. /\ Guard(r, sess) \in Reports
        /\ Guard(r, sess).quote = q.quote
        /\ Guard(r, sess).anchor = q.anchor
        /\ Guard(r, sess).corrector = t
    BY <1>1, <2>2, <2>3 DEF Reports
  <2> QED BY <1>1, <2>3, <2>4 DEF q
<1> QED BY <1>2, <1>3

\* A row that passed the checks names the latest message with the quote among
\* those sent before its corrector.
LEMMA KeptAnchor ==
    ASSUME NEW sess, InOrder(sess), NEW r \in Reports, Valid(Guard(r, sess), sess)
    PROVE  /\ Matches(r, sess) # {}
           /\ Guard(r, sess).anchor \in EarlierMatches(Guard(r, sess), sess)
           /\ \A x \in EarlierMatches(Guard(r, sess), sess) :
                Later(sess, x, Guard(r, sess).anchor)
<1> DEFINE g == Guard(r, sess)
           a == g.anchor
           c == g.corrector
<1>1. /\ a \in DOMAIN sess /\ sess[a].bot /\ g.quote \in sess[a].says
      /\ c \in DOMAIN sess /\ sess[a].ts < sess[c].ts
  <2>1. sess[g.corrector].ts > sess[g.anchor].ts
    BY DEF Valid
  <2>2. sess[g.corrector].ts \in Nat /\ sess[g.anchor].ts \in Nat
    BY DEF Valid, InOrder, Texts
  <2>3. sess[a].ts < sess[c].ts
    BY <2>1, <2>2
  <2> QED BY <2>3 DEF Valid
<1>2. /\ g.quote = r.quote /\ a = ResolveAnchor(r, sess).anchor
      /\ c = r.corrector \/ (r.corrector \in DOMAIN sess /\ c < r.corrector)
  BY GuardShape
<1> HIDE DEF g
<1>3. a \in Matches(r, sess) /\ a \in Matches(g, sess)
  BY <1>1, <1>2 DEF Matches
<1>4. a \in EarlierMatches(g, sess)
  BY <1>1, <1>3 DEF EarlierMatches
<1>5. a = LatestByTime(Candidates(r, sess), sess)
  <2>1. ResolveAnchor(r, sess) = [r EXCEPT !.anchor = LatestByTime(Candidates(r, sess), sess)]
    BY <1>3 DEF ResolveAnchor
  <2> QED BY <1>2, <2>1 DEF Reports
<1>6. EarlierMatches(g, sess) \subseteq Candidates(r, sess)
  <2> SUFFICES ASSUME NEW x \in EarlierMatches(g, sess) PROVE x \in EarlierMatches(r, sess)
    BY DEF Candidates
  <2>1. x \in Matches(r, sess) /\ x \in DOMAIN sess /\ sess[x].ts < sess[c].ts
    BY <1>2 DEF EarlierMatches, Matches
  <2>2. r.corrector \in DOMAIN sess /\ sess[c].ts <= sess[r.corrector].ts
    <3>1. CASE c = r.corrector
      BY <1>1, <3>1 DEF InOrder, Texts
    <3>2. CASE r.corrector \in DOMAIN sess /\ c < r.corrector
      BY <1>1, <3>2 DEF InOrder
    <3> QED BY <1>2, <3>1, <3>2
  <2>3. sess[x].ts \in Nat /\ sess[c].ts \in Nat /\ sess[r.corrector].ts \in Nat
    BY <1>1, <2>1, <2>2 DEF InOrder, Texts
  <2> QED BY <2>1, <2>2, <2>3 DEF EarlierMatches
<1>7. \A x \in Candidates(r, sess) : Later(sess, x, a)
  BY <1>3, <1>5, CandidatesType, LatestByTimeExists
<1> QED BY <1>3, <1>4, <1>6, <1>7 DEF g

\* The guard leaves a row that passed the checks as it is.
LEMMA GuardTwice ==
    ASSUME NEW sess, InOrder(sess), NEW r \in Reports, Valid(Guard(r, sess), sess)
    PROVE  Guard(Guard(r, sess), sess) = Guard(r, sess)
<1> DEFINE g == Guard(r, sess)
<1>1. g \in Reports
  BY GuardShape
<1>2. /\ g.anchor \in EarlierMatches(g, sess)
      /\ \A x \in EarlierMatches(g, sess) : Later(sess, x, g.anchor)
  BY KeptAnchor
<1>3. Human(sess[g.corrector])
  BY DEF Valid
<1> HIDE DEF g
<1>4. Candidates(g, sess) = EarlierMatches(g, sess) /\ Matches(g, sess) # {}
  BY <1>2 DEF Candidates, EarlierMatches
<1>5. LatestByTime(Candidates(g, sess), sess) = g.anchor
  BY <1>2, <1>4, CandidatesType, LatestByTimeUnique
<1>6. ResolveAnchor(g, sess) = g
  BY <1>1, <1>4, <1>5 DEF ResolveAnchor, Reports
<1>7. ResolveCorrector(g, sess) = g
  BY <1>3 DEF ResolveCorrector, BotAdmits
<1>8. Guard(g, sess) = g
  BY <1>6, <1>7 DEF Guard
<1> QED BY <1>8 DEF g

\* The reported anchor has no bearing on a row that passed the checks.
LEMMA GuardForgetsAnchor ==
    ASSUME NEW sess, NEW r \in Reports, NEW a \in Int \cup {NoOne}, Matches(r, sess) # {}
    PROVE  Guard([r EXCEPT !.anchor = a], sess) = Guard(r, sess)
<1> DEFINE o == [r EXCEPT !.anchor = a]
<1>1. o \in Reports /\ o.quote = r.quote /\ o.corrector = r.corrector /\ o.byUser = r.byUser
  BY DEF Reports
<1> HIDE DEF o
<1>2. Matches(o, sess) = Matches(r, sess) /\ Candidates(o, sess) = Candidates(r, sess)
  BY <1>1 DEF Matches, Candidates, EarlierMatches
<1> DEFINE p == LatestByTime(Candidates(r, sess), sess)
<1>3. ResolveAnchor(o, sess) = [o EXCEPT !.anchor = p] /\ ResolveAnchor(r, sess) = [r EXCEPT !.anchor = p]
  BY <1>2 DEF ResolveAnchor
<1> HIDE DEF p
<1>4. ResolveAnchor(o, sess) = ResolveAnchor(r, sess)
  BY <1>1, <1>3 DEF Reports
<1>5. Guard(o, sess) = Guard(r, sess)
  BY <1>4 DEF Guard
<1> QED BY <1>5 DEF o

\* A nearer anchor sees fewer of the messages that may have asked for the output.
LEMMA NearerFillsInLess ==
    ASSUME NEW sess, InOrder(sess), NEW r, NEW q, r.corrector = q.corrector,
           r.anchor \in DOMAIN sess, q.anchor \in DOMAIN sess, r.corrector \in DOMAIN sess,
           r.anchor <= q.anchor, FillsIn(q, sess)
    PROVE  FillsIn(r, sess)
<1>1. PICK n \in Nat : DOMAIN sess \subseteq 1..n
  BY DEF InOrder
<1>2. r.anchor \in Int /\ q.anchor \in Int /\ r.corrector \in Int
  BY <1>1
<1>3. PICK b \in DOMAIN sess :
        /\ q.anchor <= b /\ b < q.corrector
        /\ Cardinality({m \in DOMAIN sess : b <= m /\ m < q.corrector}) <= 4
        /\ sess[b].bot /\ sess[b].asks
  BY DEF FillsIn
<1>4. r.anchor <= b /\ r.anchor < r.corrector /\ b \in Int
  BY <1>1, <1>2, <1>3
<1> QED BY <1>3, <1>4 DEF FillsIn

\* A report that some anchor carries through the checks is kept, up to receipts and
\* messages sent at one time.
LEMMA GuardRescues ==
    ASSUME NEW sess, InOrder(sess), NEW r \in Reports, NEW a \in DOMAIN sess,
           Valid([r EXCEPT !.anchor = a], sess), ~Valid(Guard(r, sess), sess)
    PROVE  \/ sess[Guard(r, sess).anchor].placeholder
           \/ sess[Guard(r, sess).anchor].ts = sess[a].ts
<1> DEFINE o == [r EXCEPT !.anchor = a]
           c == r.corrector
           p == LatestByTime(Candidates(r, sess), sess)
           g == [r EXCEPT !.anchor = p]
<1>0. PICK n \in Nat : DOMAIN sess \subseteq 1..n
  BY DEF InOrder
<1>1. o.anchor = a /\ o.quote = r.quote /\ o.corrector = r.corrector /\ o.byUser = r.byUser
  BY DEF Reports
<1>2. Valid(o, sess)
  OBVIOUS
<1> HIDE DEF o
<1>3. /\ sess[a].bot /\ r.quote \in sess[a].says /\ c \in DOMAIN sess /\ r.byUser
      /\ Human(sess[c]) /\ ~sess[c].redirects /\ ~FillsIn(o, sess) /\ sess[c].ts > sess[a].ts
  BY <1>1, <1>2 DEF Valid
<1>4. \A m \in DOMAIN sess : sess[m].ts \in Nat
  BY DEF InOrder, Texts
<1>5. a \in EarlierMatches(r, sess) /\ Candidates(r, sess) = EarlierMatches(r, sess)
  <2>1. sess[a].ts < sess[c].ts
    BY <1>3, <1>4
  <2> QED BY <1>3, <2>1 DEF EarlierMatches, Matches, Candidates
<1>6. p \in EarlierMatches(r, sess) /\ Later(sess, a, p) /\ Matches(r, sess) # {}
  <2>1. Candidates(r, sess) \in SUBSET (DOMAIN sess) /\ Candidates(r, sess) # {}
    BY <1>5, CandidatesType
  <2>2. p \in Candidates(r, sess) /\ \A x \in Candidates(r, sess) : Later(sess, x, p)
    BY <2>1, LatestByTimeExists
  <2> QED BY <1>5, <2>2 DEF EarlierMatches
<1>7. p \in DOMAIN sess /\ sess[p].bot /\ r.quote \in sess[p].says /\ sess[p].ts < sess[c].ts
  BY <1>6 DEF EarlierMatches, Matches
<1>8. ResolveAnchor(r, sess) = g
  BY <1>6 DEF ResolveAnchor
<1> HIDE DEF p
<1>9. g.anchor = p /\ g.quote = r.quote /\ g.corrector = c /\ g.byUser = r.byUser
  BY DEF Reports
<1> HIDE DEF g
<1>10. Guard(r, sess) = g
  BY <1>3, <1>8, <1>9 DEF Guard, ResolveCorrector, BotAdmits
<1>11. SUFFICES ASSUME ~sess[p].placeholder, sess[p].ts # sess[a].ts PROVE FALSE
  BY <1>9, <1>10
<1>12. a <= p
  <2>1. sess[a].ts < sess[p].ts
    BY <1>6, <1>11 DEF Later
  <2>2. ~(p <= a)
    BY <1>4, <1>7, <2>1 DEF InOrder
  <2> QED BY <1>0, <1>7, <2>2
<1>13. ~FillsIn(g, sess)
  BY <1>1, <1>3, <1>7, <1>9, <1>12, NearerFillsInLess
<1>14. sess[c].ts > sess[p].ts
  BY <1>3, <1>4, <1>7
<1>15. Valid(g, sess)
  BY <1>3, <1>7, <1>9, <1>11, <1>13, <1>14 DEF Valid
<1> QED BY <1>10, <1>15

-----------------------------------------------------------------------------
\* Between two guards of a report: a kept row is the guarded claim and valid, a
\* dropped one is the guarded claim and not valid.
GuardInv ==
    /\ session \in Sessions /\ claim \in Reported
    /\ verdict \in {"new", "kept", "dropped"}
    /\ verdict = "new" => row = claim
    /\ verdict # "new" => row = Guard(claim, session)
    /\ verdict = "kept" => Valid(row, session)
    /\ verdict = "dropped" => ~Valid(row, session)

\* GuardInv holds of a fresh report and every guard keeps it.
LEMMA GuardInvInductive ==
    /\ InitReport => GuardInv
    /\ GuardInv /\ [ApplyGuard]_guardVars => GuardInv'
<1>1. InitReport => GuardInv
  BY DEF InitReport, GuardInv
<1>2. ASSUME GuardInv, ApplyGuard PROVE GuardInv'
  <2>1. claim \in Reports /\ InOrder(session)
    BY <1>2, SessionAssumption, SessionsInOrder DEF GuardInv
  <2>2. row' = Guard(claim, session)
    <3>1. CASE verdict = "new"
      BY <1>2, <3>1 DEF GuardInv, ApplyGuard
    <3>2. CASE verdict = "kept"
      BY <1>2, <2>1, <3>2, GuardTwice DEF GuardInv, ApplyGuard
    <3> QED BY <1>2, <3>1, <3>2 DEF GuardInv, ApplyGuard
  <2>3. session' = session /\ claim' = claim
    BY <1>2 DEF ApplyGuard
  <2>4. CASE Valid(row', session)
    BY <1>2, <2>2, <2>3, <2>4 DEF GuardInv, ApplyGuard
  <2>5. CASE ~Valid(row', session)
    BY <1>2, <2>2, <2>3, <2>5 DEF GuardInv, ApplyGuard
  <2> QED BY <2>4, <2>5
<1>3. ASSUME GuardInv, UNCHANGED guardVars PROVE GuardInv'
  BY <1>3 DEF GuardInv, guardVars
<1> QED BY <1>1, <1>2, <1>3

\* Guarding a kept row again, as every later run does with the cache, neither moves
\* nor loses it.
THEOREM KeptRowsStay == GuardSpec => GuardIdempotent
<1>1. ASSUME GuardInv, ApplyGuard, verdict = "kept" PROVE row' = row /\ verdict' = "kept"
  <2>1. claim \in Reports /\ InOrder(session) /\ row = Guard(claim, session) /\ Valid(row, session)
    BY <1>1, SessionAssumption, SessionsInOrder DEF GuardInv
  <2>2. row' = row
    BY <1>1, <2>1, GuardTwice DEF ApplyGuard
  <2> QED BY <1>1, <2>1, <2>2 DEF ApplyGuard
<1>2. GuardInv /\ [ApplyGuard]_guardVars
        => [verdict = "kept" => row' = row /\ verdict' = "kept"]_guardVars
  BY <1>1
<1> QED BY <1>2, GuardInvInductive, PTL DEF GuardSpec, GuardIdempotent

\* A kept row blames the bot message that said the quote last before the person
\* corrected it.
THEOREM KeptRowsBlameNearest == GuardSpec => []NearestError
<1>1. ASSUME GuardInv PROVE NearestError
  <2>1. SUFFICES ASSUME verdict = "kept" PROVE NearestError
    BY DEF NearestError
  <2>2. claim \in Reports /\ InOrder(session) /\ row = Guard(claim, session) /\ Valid(row, session)
    BY <1>1, <2>1, SessionAssumption, SessionsInOrder DEF GuardInv
  <2>3. /\ row.anchor \in EarlierMatches(row, session)
        /\ \A x \in EarlierMatches(row, session) : Later(session, x, row.anchor)
    BY <2>2, KeptAnchor
  <2>4. row.anchor \in DOMAIN session /\ row.corrector \in DOMAIN session
        /\ session[row.anchor].ts < session[row.corrector].ts
    BY <2>3 DEF EarlierMatches, Matches
  <2>5. ~session[row.corrector].bot
    BY <2>2 DEF Valid, Human
  <2>6. ASSUME NEW m \in DOMAIN session, session[m].bot, row.quote \in session[m].says,
               session[m].ts < session[row.corrector].ts
        PROVE  session[m].ts <= session[row.anchor].ts
    <3>1. m \in EarlierMatches(row, session)
      BY <2>4, <2>6 DEF EarlierMatches, Matches
    <3>2. session[m].ts \in Nat /\ session[row.anchor].ts \in Nat
      BY <2>2, <2>4 DEF InOrder, Texts
    <3> QED BY <2>3, <3>1, <3>2 DEF Later
  <2> QED BY <2>4, <2>5, <2>6 DEF NearestError
<1> QED BY <1>1, GuardInvInductive, PTL DEF GuardSpec

\* The row that is kept does not depend on the anchor the LLM reported.
THEOREM KeptRowsIgnoreReportedAnchor == GuardSpec => []AnchorIgnoresModel
<1>1. ASSUME GuardInv PROVE AnchorIgnoresModel
  <2>1. SUFFICES ASSUME verdict = "kept", NEW other \in DOMAIN session
                 PROVE  Guard([claim EXCEPT !.anchor = other], session) = row
    BY DEF AnchorIgnoresModel
  <2>2. claim \in Reports /\ InOrder(session) /\ row = Guard(claim, session) /\ Valid(row, session)
    BY <1>1, <2>1, SessionAssumption, SessionsInOrder DEF GuardInv
  <2>3. Matches(claim, session) # {}
    BY <2>2, KeptAnchor
  <2>4. other \in Int \cup {NoOne}
    BY <2>1, <2>2 DEF InOrder
  <2> QED BY <2>2, <2>3, <2>4, GuardForgetsAnchor
<1> QED BY <1>1, GuardInvInductive, PTL DEF GuardSpec

\* A true correction with a misplaced anchor is kept.
THEOREM MisplacedAnchorsRescued == GuardSpec => []RescuesMisplacedAnchor
<1>1. ASSUME GuardInv PROVE RescuesMisplacedAnchor
  <2>1. SUFFICES ASSUME verdict = "dropped", NEW a \in DOMAIN session,
                        Valid([claim EXCEPT !.anchor = a], session)
                 PROVE  session[row.anchor].placeholder \/ session[row.anchor].ts = session[a].ts
    BY DEF RescuesMisplacedAnchor
  <2>2. claim \in Reports /\ InOrder(session) /\ row = Guard(claim, session) /\ ~Valid(row, session)
    BY <1>1, <2>1, SessionAssumption, SessionsInOrder DEF GuardInv
  <2> QED BY <2>1, <2>2, GuardRescues
<1> QED BY <1>1, GuardInvInductive, PTL DEF GuardSpec
=============================================================================
