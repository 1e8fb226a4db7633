------------------------ MODULE MCSessionCorrections ------------------------
(***************************************************************************)
(* A chat in which a bot says the same wrong thing twice.  Depending on how*)
(* the requests are routed, a correction and the error it is about end up  *)
(* in one session or in two, and the second error hides the first.         *)
(***************************************************************************)
EXTENDS SessionCorrections

Person(t, p) ==
    [ts |-> t, bot |-> FALSE, placeholder |-> FALSE, says |-> {}, admits |-> FALSE, sums |-> FALSE,
     redirects |-> FALSE, answers |-> FALSE, asks |-> FALSE, parent |-> p]

Bot(t) == [Person(t, NoOne) EXCEPT !.bot = TRUE, !.says = Quotes]

\* A request, an error, the same error by a bot whose account has the role "user",
\* and a correction that answers neither.
MCText == <<Person(1, NoOne), Bot(2), Bot(3), Person(4, NoOne)>>

MCRequests == {1, 3, 4}

MCShort == {{1}, {3}}

Claim(a, c) == [anchor |-> a, quote |-> "wrong", corrector |-> c, byUser |-> TRUE]

MCClaims == {Claim(2, 4), Claim(3, 4), Claim(2, 1)}
=============================================================================
