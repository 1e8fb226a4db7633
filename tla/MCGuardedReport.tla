-------------------------- MODULE MCGuardedReport ---------------------------
(***************************************************************************)
(* Every session of up to Length messages out of the kinds that matter,    *)
(* and the longer ones in which a bot errs, two messages follow and a bot  *)
(* admits it: the guard then has to choose whom the admission answers.     *)
(***************************************************************************)
EXTENDS GuardedReport

CONSTANT Length

Plain == [ts |-> 0, bot |-> FALSE, placeholder |-> FALSE, says |-> {}, admits |-> FALSE, sums |-> FALSE,
          redirects |-> FALSE, answers |-> FALSE, asks |-> FALSE, parent |-> NoOne]

BotKinds ==
    {[Plain EXCEPT !.bot = TRUE, !.admits = a, !.asks = k] : a \in BOOLEAN, k \in BOOLEAN}
    \cup {[Plain EXCEPT !.bot = TRUE, !.says = Quotes, !.placeholder = f[1], !.admits = f[2], !.asks = f[3]] :
            f \in {<<FALSE, FALSE, FALSE>>, <<TRUE, FALSE, FALSE>>, <<FALSE, TRUE, FALSE>>, <<FALSE, FALSE, TRUE>>}}

HumanKinds ==
    {[Plain EXCEPT !.parent = p] : p \in {NoOne, 1, 2}}
    \cup {[Plain EXCEPT !.sums = TRUE], [Plain EXCEPT !.redirects = TRUE],
          [Plain EXCEPT !.answers = TRUE], [Plain EXCEPT !.admits = TRUE], [Plain EXCEPT !.says = Quotes]}

\* The times of n messages, in row order, each at the time of the one before it or
\* at the next.
Clocks(n) == {c \in [1..n -> 0..n - 1] : c[1] = 0 /\ \A i \in 2..n : c[i] - c[i - 1] \in {0, 1}}

Timed(n, kinds) ==
    {[m \in 1..n |-> [kind[m] EXCEPT !.ts = clock[m]]] : kind \in kinds, clock \in Clocks(n)}

MCSessions ==
    UNION {Timed(n, [1..n -> BotKinds \cup HumanKinds]) : n \in 2..Length}
    \cup Timed(4, {k \in [1..4 -> BotKinds \cup HumanKinds] :
                      k[1].bot /\ k[1].says # {} /\ ~k[1].admits /\ k[4].bot /\ k[4].admits})

\* What the LLM made up: any anchor and corrector, with a quote or without one.
MCClaims ==
    [anchor : 1..4, quote : Quotes, corrector : 2..4 \cup {NoOne}, byUser : {TRUE}]
    \cup [anchor : {1}, quote : Quotes, corrector : 2..4, byUser : {FALSE}]
    \cup [anchor : {1}, quote : {NoQuote}, corrector : {2}, byUser : {TRUE}]
=============================================================================
