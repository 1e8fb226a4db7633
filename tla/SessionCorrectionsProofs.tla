---------------------- MODULE SessionCorrectionsProofs ----------------------
(***************************************************************************)
(* The correction pipeline, for every chat, every router and every judge:  *)
(* the proofs of the properties of SessionCorrections.                     *)
(***************************************************************************)
EXTENDS SessionCorrections, GuardedReportProofs, SequenceTheorems

-----------------------------------------------------------------------------
(* Picking elements of a list *)

\* The elements of keep up to place k.
UpTo(keep, k) == {x \in keep : x <= k}

\* Every set of places is finite, and so are its beginnings.
LEMMA UpToFinite ==
    ASSUME NEW n \in Nat, NEW keep \in SUBSET (1..n), NEW k
    PROVE  /\ IsFiniteSet(keep) /\ Size(keep) \in Nat /\ Size(keep) <= n
           /\ IsFiniteSet(UpTo(keep, k)) /\ Size(UpTo(keep, k)) \in Nat
           /\ Size(UpTo(keep, k)) <= Size(keep)
<1>1. IsFiniteSet(1..n) /\ Cardinality(1..n) = n
  BY FS_Interval
<1>2. IsFiniteSet(keep) /\ Cardinality(keep) <= n
  BY <1>1, FS_Subset
<1>3. UpTo(keep, k) \in SUBSET keep
  BY DEF UpTo
<1>4. IsFiniteSet(UpTo(keep, k)) /\ Cardinality(UpTo(keep, k)) <= Cardinality(keep)
  BY <1>2, <1>3, FS_Subset
<1> QED BY <1>2, <1>4, FS_CardinalityType DEF Size

\* Two places have different ranks.
LEMMA RankGrows ==
    ASSUME NEW n \in Nat, NEW keep \in SUBSET (1..n), NEW j \in keep, NEW k \in keep, j < k
    PROVE  Size(UpTo(keep, j)) < Size(UpTo(keep, k))
<1>1. UpTo(keep, j) \in SUBSET UpTo(keep, k) /\ UpTo(keep, j) # UpTo(keep, k)
  <2>1. k \in UpTo(keep, k) /\ k \notin UpTo(keep, j)
    <3>1. j \in Int /\ k \in Int
      OBVIOUS
    <3> QED BY <3>1 DEF UpTo
  <2>2. ASSUME NEW x \in UpTo(keep, j) PROVE x \in UpTo(keep, k)
    <3>1. x \in keep /\ x <= j /\ x \in Int /\ j \in Int /\ k \in Int
      BY <2>2 DEF UpTo
    <3> QED BY <3>1 DEF UpTo
  <2> QED BY <2>1, <2>2
<1>2. IsFiniteSet(UpTo(keep, k)) /\ Size(UpTo(keep, j)) \in Nat /\ Size(UpTo(keep, k)) \in Nat
  BY UpToFinite
<1>3. Size(UpTo(keep, j)) <= Size(UpTo(keep, k)) /\ Size(UpTo(keep, j)) # Size(UpTo(keep, k))
  BY <1>1, <1>2, FS_Subset DEF Size
<1> QED BY <1>2, <1>3

\* The place with a given rank.
PlaceOf(keep, i) == CHOOSE k \in keep : Size(UpTo(keep, k)) = i

\* Every rank has its place: of the places of at least that rank, the first.
LEMMA PlaceExists ==
    ASSUME NEW n \in Nat, NEW keep \in SUBSET (1..n), NEW i \in 1..Size(keep)
    PROVE  PlaceOf(keep, i) \in keep /\ Size(UpTo(keep, PlaceOf(keep, i))) = i
<1> DEFINE R(k) == Size(UpTo(keep, k))
           B == {k \in keep : i <= R(k)}
<1>0. Size(keep) \in Nat /\ IsFiniteSet(keep) /\ \A k : R(k) \in Nat
  BY UpToFinite
<1>1. keep # {}
  BY <1>0, FS_EmptySet DEF Size
<1>2. PICK m \in B : \A x \in B : m <= x
  <2>1. Latest(keep) \in keep /\ \A x \in keep : x <= Latest(keep)
    BY <1>1, LatestExists
  <2>2. UpTo(keep, Latest(keep)) = keep
    BY <2>1 DEF UpTo
  <2>3. Latest(keep) \in B
    BY <1>0, <2>1, <2>2
  <2>4. B \in SUBSET (1..n) /\ B # {}
    BY <2>3
  <2> HIDE DEF B
  <2> QED BY <2>4, EarliestExists
<1>3. R(m) = i
  <2> SUFFICES ASSUME R(m) > i PROVE FALSE
    BY <1>0, <1>2
  <2> DEFINE L == UpTo(keep, m) \ {m}
  <2>1. m \in UpTo(keep, m) /\ IsFiniteSet(UpTo(keep, m))
    BY <1>2, UpToFinite DEF UpTo
  <2>2. IsFiniteSet(L) /\ Size(L) = R(m) - 1
    BY <2>1, FS_RemoveElement DEF Size
  <2>3. L # {}
    <3>1. Size(L) # 0
      BY <1>0, <1>2, <2>2
    <3> HIDE DEF L
    <3> QED BY <3>1, FS_EmptySet DEF Size
  <2>4. L \in SUBSET (1..n)
    BY DEF UpTo
  <2>5. Latest(L) \in L /\ \A x \in L : x <= Latest(L)
    <3> HIDE DEF L
    <3> QED BY <2>3, <2>4, LatestExists
  <2>6. Latest(L) \in keep /\ Latest(L) < m /\ Latest(L) \in Int /\ m \in Int
    <3>1. Latest(L) \in keep /\ Latest(L) <= m /\ Latest(L) # m
      BY <2>5 DEF UpTo
    <3>2. Latest(L) \in Int /\ m \in Int
      <4>1. m \in keep /\ keep \subseteq Int
        BY <1>2
      <4> HIDE DEF L
      <4> QED BY <3>1, <4>1
    <3> HIDE DEF L
    <3> QED BY <3>1, <3>2
  <2>7. UpTo(keep, Latest(L)) = L
    <3>1. ASSUME NEW x \in L PROVE x \in UpTo(keep, Latest(L))
      BY <2>5, <3>1 DEF UpTo
    <3>2. ASSUME NEW x \in UpTo(keep, Latest(L)) PROVE x \in L
      BY <2>6, <3>2 DEF UpTo
    <3> HIDE DEF L
    <3> QED BY <3>1, <3>2
  <2>8. Latest(L) \in B
    BY <1>0, <2>2, <2>6, <2>7
  <2> HIDE DEF L, B
  <2> QED BY <1>2, <2>6, <2>8
<1> QED BY <1>2, <1>3 DEF PlaceOf

\* ... and only one.
LEMMA PlaceUnique ==
    ASSUME NEW n \in Nat, NEW keep \in SUBSET (1..n), NEW i \in 1..Size(keep),
           NEW k \in keep, Size(UpTo(keep, k)) = i
    PROVE  PlaceOf(keep, i) = k
<1> DEFINE p == PlaceOf(keep, i)
<1>1. p \in keep /\ Size(UpTo(keep, p)) = i
  BY PlaceExists
<1> HIDE DEF p
<1>2. i \in Int /\ p \in Int /\ k \in Int
  <2>1. keep \subseteq Int /\ i \in Int
    OBVIOUS
  <2> QED BY <1>1, <2>1
<1>3. ASSUME p < k PROVE FALSE
  <2>1. Size(UpTo(keep, p)) < Size(UpTo(keep, k))
    BY <1>1, <1>3, RankGrows
  <2> QED BY <1>1, <1>2, <2>1
<1>4. ASSUME k < p PROVE FALSE
  <2>1. Size(UpTo(keep, k)) < Size(UpTo(keep, p))
    BY <1>1, <1>4, RankGrows
  <2> QED BY <1>1, <1>2, <2>1
<1>5. p = k
  BY <1>2, <1>3, <1>4
<1> QED BY <1>5 DEF p

\* What Picked holds: at each place the element of that rank.
LEMMA PickedElements ==
    ASSUME NEW n \in Nat, NEW keep \in SUBSET (1..n), NEW list
    PROVE  /\ Picked(list, keep) = [i \in 1..Size(keep) |-> list[PlaceOf(keep, i)]]
           /\ \A i \in 1..Size(keep) : \E k \in keep : Picked(list, keep)[i] = list[k]
<1>1. Picked(list, keep) = [i \in 1..Size(keep) |-> list[PlaceOf(keep, i)]]
  BY DEF Picked, PlaceOf, UpTo
<1>2. ASSUME NEW i \in 1..Size(keep) PROVE PlaceOf(keep, i) \in keep
  BY PlaceExists
<1> QED BY <1>1, <1>2

\* Elements picked from a list with elements in S make a list with elements in S.
LEMMA PickedType ==
    ASSUME NEW n \in Nat, NEW keep \in SUBSET (1..n), NEW list, NEW S,
           \A k \in keep : list[k] \in S
    PROVE  Picked(list, keep) \in Seq(S) /\ Len(Picked(list, keep)) = Size(keep)
<1>1. Size(keep) \in Nat
  BY UpToFinite
<1>2. ASSUME NEW i \in 1..Size(keep) PROVE Picked(list, keep)[i] \in S
  <2>1. \E k \in keep : Picked(list, keep)[i] = list[k]
    BY PickedElements
  <2> QED BY <2>1
<1>3. Picked(list, keep) \in [1..Size(keep) -> S]
  BY <1>2, PickedElements
<1>4. Picked(list, keep) \in Seq(S)
  BY <1>1, <1>3
<1>5. DOMAIN Picked(list, keep) = 1..Size(keep)
  BY <1>3
<1>6. Len(Picked(list, keep)) = Size(keep)
  BY <1>1, <1>4, <1>5, LenProperties
<1> QED BY <1>4, <1>6

\* Picking the same places of a list that has grown.
LEMMA PickedPrefix ==
    ASSUME NEW n \in Nat, NEW keep \in SUBSET (1..n), NEW old, NEW new,
           \A k \in 1..n : new[k] = old[k]
    PROVE  Picked(new, keep) = Picked(old, keep)
<1>1. ASSUME NEW i \in 1..Size(keep) PROVE new[PlaceOf(keep, i)] = old[PlaceOf(keep, i)]
  BY PlaceExists
<1> QED BY <1>1, PickedElements

\* The places keep among the first n, and the d places after them.
WithNext(keep, n, d) == keep \cup ((n + 1)..(n + d))

\* The list new begins like the list old.
SameUpTo(new, old, n) == \A k \in 1..n : new[k] = old[k]

\* Picking also all that the list has grown by.
LEMMA PickedMore ==
    ASSUME NEW n \in Nat, NEW keep \in SUBSET (1..n), NEW old, NEW new, SameUpTo(new, old, n),
           NEW d \in Nat
    PROVE  /\ Size(WithNext(keep, n, d)) = Size(keep) + d
           /\ \A i \in 1..Size(keep) : Picked(new, WithNext(keep, n, d))[i] = Picked(old, keep)[i]
           /\ \A j \in 1..d : Picked(new, WithNext(keep, n, d))[Size(keep) + j] = new[n + j]
<1> DEFINE N == n + d
           more == keep \cup ((n + 1)..(n + d))
<1>1. IsFiniteSet(keep) /\ Size(keep) \in Nat
  BY UpToFinite
<1>2. ASSUME NEW j \in 0..d
      PROVE  Size(keep \cup ((n + 1)..(n + j))) = Size(keep) + j
  <2> DEFINE I == (n + 1)..(n + j)
  <2>1. IsFiniteSet(I) /\ Cardinality(I) = j
    BY FS_Interval
  <2>2. keep \cap I = {}
    OBVIOUS
  <2> HIDE DEF I
  <2>3. Cardinality(keep \cup I) = Cardinality(keep) + j - 0
    BY <1>1, <2>1, <2>2, FS_Union, FS_EmptySet
  <2> QED BY <1>1, <2>3 DEF I, Size
<1>3. Size(more) = Size(keep) + d
  BY <1>2
<1>4. more \in SUBSET (1..N) /\ N \in Nat
  <2>1. 1..n \subseteq 1..(n + d) /\ (n + 1)..(n + d) \subseteq 1..(n + d) /\ n + d \in Nat
    OBVIOUS
  <2> QED BY <2>1
<1>5. ASSUME NEW i \in 1..Size(keep) PROVE Picked(new, more)[i] = Picked(old, keep)[i]
  <2> DEFINE k == PlaceOf(keep, i)
  <2>1. k \in keep /\ Size(UpTo(keep, k)) = i
    BY PlaceExists
  <2> HIDE DEF k
  <2>2. UpTo(more, k) = UpTo(keep, k)
    BY <2>1 DEF UpTo
  <2>3. k \in more /\ i \in 1..Size(more)
    BY <1>1, <1>3, <2>1
  <2> HIDE DEF more, N
  <2>4. PlaceOf(more, i) = k
    BY <1>4, <2>1, <2>2, <2>3, PlaceUnique
  <2>5. Picked(new, more)[i] = new[k]
    <3>1. Picked(new, more) = [x \in 1..Size(more) |-> new[PlaceOf(more, x)]]
      BY <1>4, PickedElements
    <3> QED BY <2>3, <2>4, <3>1
  <2>6. Picked(old, keep)[i] = old[k]
    <3>1. Picked(old, keep) = [x \in 1..Size(keep) |-> old[PlaceOf(keep, x)]]
      BY PickedElements
    <3> QED BY <3>1 DEF k
  <2> QED BY <2>1, <2>5, <2>6 DEF SameUpTo
<1>6. ASSUME NEW j \in 1..d PROVE Picked(new, more)[Size(keep) + j] = new[n + j]
  <2> DEFINE k == n + j
  <2>1. UpTo(more, k) = keep \cup ((n + 1)..k)
    <3>1. ASSUME NEW x \in keep PROVE x <= k
      <4>1. x \in 1..n
        OBVIOUS
      <4> QED BY <4>1
    <3>2. ASSUME NEW x \in (n + 1)..k PROVE x \in (n + 1)..(n + d) /\ x <= k
      OBVIOUS
    <3>3. ASSUME NEW x \in (n + 1)..(n + d), x <= k PROVE x \in (n + 1)..k
      BY <3>3
    <3> HIDE DEF k
    <3> QED BY <3>1, <3>2, <3>3 DEF UpTo
  <2>2. Size(UpTo(more, k)) = Size(keep) + j
    <3>1. j \in 0..d
      OBVIOUS
    <3> QED BY <1>2, <2>1, <3>1
  <2> DEFINE i == Size(keep) + j
  <2>3. k \in more /\ i \in 1..Size(more)
    BY <1>1, <1>3
  <2> HIDE DEF more, N, k, i
  <2>4. PlaceOf(more, i) = k
    <3>1. Size(UpTo(more, k)) = i
      BY <2>2 DEF i
    <3> QED BY <1>4, <2>3, <3>1, PlaceUnique
  <2>5. Picked(new, more) = [x \in 1..Size(more) |-> new[PlaceOf(more, x)]]
    BY <1>4, PickedElements
  <2>6. Picked(new, more)[i] = new[k]
    BY <2>3, <2>4, <2>5
  <2> QED BY <2>6 DEF i, k
<1>7. WithNext(keep, n, d) = more
  BY DEF WithNext
<1> HIDE DEF more
<1> QED BY <1>3, <1>5, <1>6, <1>7

-----------------------------------------------------------------------------
(* Routes and sessions *)

\* The messages are numbered 1, 2, and so on.
LEMMA MessagesNumbered ==
    Size(Messages) \in Nat /\ IsFiniteSet(Messages) /\ Messages = 1..Size(Messages)
<1>1. IsFiniteSet(Messages) /\ Messages = 1..Cardinality(Messages)
  BY PipelineAssumption
<1>2. Cardinality(Messages) \in Nat
  BY <1>1, FS_CardinalityType
<1> QED BY <1>1, <1>2 DEF Size

\* A session of a route is in time order, as the guard needs it.
LEMMA SessionRowsInOrder ==
    ASSUME NEW a, IsRoute(a), NEW sid
    PROVE  /\ InOrder(SessionRows(a, sid))
           /\ DOMAIN SessionRows(a, sid) = Members(a, sid)
<1> DEFINE sess == SessionRows(a, sid)
<1>1. DOMAIN sess = Members(a, sid) /\ \A m \in Members(a, sid) : sess[m] = Text[m]
  BY DEF SessionRows
<1>2. Members(a, sid) \subseteq Messages
  BY DEF Members, IsRoute
<1>3. \E n \in Nat : DOMAIN sess \subseteq 1..n
  BY <1>1, <1>2, MessagesNumbered
<1>4. \A m \in DOMAIN sess : sess[m] \in Texts
  BY <1>1, <1>2, PipelineAssumption
<1>5. \A m, x \in DOMAIN sess : m <= x => sess[m].ts <= sess[x].ts
  BY <1>1, <1>2, PipelineAssumption
<1> HIDE DEF sess
<1>6. InOrder(sess)
  BY <1>3, <1>4, <1>5 DEF InOrder
<1> QED BY <1>1, <1>6 DEF sess

\* What route_day returns is about the events it was given, and no session has the
\* number 0: the first message of such a session would have opened it.
LEMMA RoutesType ==
    ASSUME NEW E \in SUBSET Messages, NEW a \in Routes(E)
    PROVE  IsRoute(a) /\ DOMAIN a \subseteq E
<1> DEFINE requests == E \cap Requests
           routed == {m \in E : \E r \in requests : r <= m}
           before(m) == {x \in routed : x < m}
           open(m) == {a[x] : x \in before(m)}
           n == Size(requests)
<1>1. /\ a \in [routed -> 0..n]
      /\ \A m \in routed : a[m] \in open(m) \cup {OpenNew(open(m))}
  BY DEF Routes
<1>2. n \in Nat /\ n <= Size(Messages)
  <2>1. requests \in SUBSET Messages
    OBVIOUS
  <2>2. IsFiniteSet(requests) /\ Cardinality(requests) <= Cardinality(Messages)
    BY <2>1, MessagesNumbered, FS_Subset
  <2> HIDE DEF requests
  <2> QED BY <2>2, FS_CardinalityType DEF Size
<1>3. routed \subseteq E /\ DOMAIN a = routed
  BY <1>1
<1> HIDE DEF n, requests
<1>4. ASSUME NEW m \in routed PROVE Size(open(m)) \in Nat
  <2>1. open(m) \in SUBSET (0..n)
    BY <1>1
  <2>2. IsFiniteSet(0..n)
    BY <1>2, FS_Interval
  <2> HIDE DEF open
  <2>3. IsFiniteSet(open(m))
    BY <2>1, <2>2, FS_Subset
  <2> QED BY <2>3, FS_CardinalityType DEF Size
<1> DEFINE Z == {m \in routed : a[m] = 0}
<1>5. Z = {}
  <2> SUFFICES ASSUME Z # {} PROVE FALSE
    OBVIOUS
  <2>1. Z \in SUBSET (1..Size(Messages))
    BY <1>3, MessagesNumbered
  <2>2. PICK m \in Z : \A x \in Z : m <= x
    <3> HIDE DEF Z
    <3> QED BY <2>1, MessagesNumbered, EarliestExists
  <2>3. OpenNew(open(m)) # 0
    <3>1. Size(open(m)) \in Nat
      BY <1>4
    <3> HIDE DEF open
    <3> QED BY <3>1 DEF OpenNew
  <2>4. a[m] \in open(m)
    <3>1. m \in routed /\ a[m] = 0
      OBVIOUS
    <3> HIDE DEF open
    <3> QED BY <1>1, <2>3, <3>1
  <2>5. PICK x \in before(m) : a[m] = a[x]
    BY <2>4
  <2>6. x \in Z /\ x < m
    BY <2>5
  <2>7. x \in Int /\ m \in Int
    BY <2>1, <2>6
  <2> QED BY <2>2, <2>6, <2>7
<1>6. ASSUME NEW m \in routed PROVE a[m] \in 1..Size(Messages)
  <2>1. a[m] \in 0..n /\ a[m] # 0
    BY <1>1, <1>5
  <2> QED BY <1>2, <2>1, MessagesNumbered
<1> QED BY <1>3, <1>6 DEF IsRoute

-----------------------------------------------------------------------------
(* Guarded rows *)

LineSet(reports) == [session : 1..Size(Messages), report : reports]

\* A row as the guard leaves it in its session.
Held(line, a) ==
    /\ line.session \in Sids(a)
    /\ Valid(line.report, SessionRows(a, line.session))
    /\ \E c \in Reports : line.report = Guard(c, SessionRows(a, line.session))

\* The guard makes a row of a row of the same session.
LEMMA GuardedType ==
    ASSUME NEW a, IsRoute(a), NEW line \in LineSet(Reports)
    PROVE  /\ Guarded(line, a) \in LineSet(Reports)
           /\ Guarded(line, a).session = line.session
           /\ Guarded(line, a).report = Guard(line.report, SessionRows(a, line.session))
<1> DEFINE g == Guard(line.report, SessionRows(a, line.session))
<1>1. line.report \in Reports
  BY DEF LineSet
<1>2. g \in Reports
  BY <1>1, SessionRowsInOrder, GuardShape
<1>3. Guarded(line, a) = [line EXCEPT !.report = g]
  BY DEF Guarded
<1> HIDE DEF g
<1>4. /\ Guarded(line, a) \in LineSet(Reports) /\ Guarded(line, a).session = line.session
      /\ Guarded(line, a).report = g
  BY <1>2, <1>3 DEF LineSet
<1> QED BY <1>4 DEF g

\* A cached line that passes makes a row that is held.
LEMMA PassingHeld ==
    ASSUME NEW a, IsRoute(a), NEW line \in LineSet(Reports \cup {NoRow}), Passes(line, a)
    PROVE  Guarded(line, a) \in LineSet(Reports) /\ Held(Guarded(line, a), a)
<1>1. line \in LineSet(Reports) /\ line.report \in Reports
  BY DEF LineSet, Passes
<1>2. /\ Guarded(line, a) \in LineSet(Reports)
      /\ Guarded(line, a).session = line.session
      /\ Guarded(line, a).report = Guard(line.report, SessionRows(a, line.session))
  BY <1>1, GuardedType
<1> QED BY <1>1, <1>2 DEF Held, Passes

\* A row that is held passes and is left as it is.
LEMMA HeldPasses ==
    ASSUME NEW a, IsRoute(a), NEW line \in LineSet(Reports), Held(line, a)
    PROVE  Passes(line, a) /\ Guarded(line, a) = line
<1> DEFINE sess == SessionRows(a, line.session)
<1>1. PICK c \in Reports : line.report = Guard(c, sess)
  BY DEF Held
<1>2. InOrder(sess) /\ Valid(Guard(c, sess), sess)
  BY <1>1, SessionRowsInOrder DEF Held
<1> HIDE DEF sess
<1>3. Guard(line.report, sess) = line.report
  BY <1>1, <1>2, GuardTwice
<1>4. Guarded(line, a) = [line EXCEPT !.report = line.report]
  BY <1>3 DEF Guarded, sess
<1>5. Guarded(line, a) = line
  BY <1>4 DEF LineSet
<1>6. line.report # NoRow
  BY PipelineAssumption DEF LineSet
<1>7. line.session \in Sids(a) /\ Valid(Guard(line.report, sess), sess)
  BY <1>3 DEF Held, sess
<1> QED BY <1>5, <1>6, <1>7 DEF Passes, sess

\* The places of the lines that pass.
Passing(lines, a) == {i \in DOMAIN lines : Passes(lines[i], a)}

\* The lines with the guard applied to each.
GuardedLines(lines, a) == [i \in DOMAIN lines |-> Guarded(lines[i], a)]

\* _reguard_cached_rows returns rows that are held.
LEMMA ReguardType ==
    ASSUME NEW a, IsRoute(a), NEW lines \in Seq(LineSet(Reports \cup {NoRow}))
    PROVE  /\ ReguardCachedRows(lines, a) \in Seq(LineSet(Reports))
           /\ \A i \in DOMAIN ReguardCachedRows(lines, a) : Held(ReguardCachedRows(lines, a)[i], a)
<1> DEFINE keep == Passing(lines, a)
           G == GuardedLines(lines, a)
           S == {line \in LineSet(Reports) : Held(line, a)}
<1>1. ReguardCachedRows(lines, a) = Picked(G, keep)
  BY DEF ReguardCachedRows, Passing, GuardedLines
<1>2. Len(lines) \in Nat /\ keep \in SUBSET (1..Len(lines)) /\ DOMAIN lines = 1..Len(lines)
  BY DEF Passing
<1>3. ASSUME NEW k \in keep PROVE G[k] \in S
  <2>1. k \in DOMAIN lines /\ lines[k] \in LineSet(Reports \cup {NoRow}) /\ Passes(lines[k], a)
    BY <1>2 DEF Passing
  <2>2. Guarded(lines[k], a) \in S
    BY <2>1, PassingHeld
  <2> QED BY <2>1, <2>2 DEF GuardedLines
<1> HIDE DEF S, keep, G
<1>4. Picked(G, keep) \in Seq(S)
  BY <1>2, <1>3, PickedType
<1>5. \A i \in DOMAIN Picked(G, keep) : Picked(G, keep)[i] \in S
  BY <1>4
<1>6. S \subseteq LineSet(Reports) /\ \A line \in S : Held(line, a)
  BY DEF S
<1>7. Picked(G, keep) \in Seq(LineSet(Reports))
  BY <1>4, <1>6, SeqMonotonic
<1> QED BY <1>1, <1>5, <1>6, <1>7

\* What detect_session finds are rows of the session that are held.
LEMMA FindingsType ==
    ASSUME NEW a, IsRoute(a), NEW sid \in Sids(a), NEW f \in Findings(a, sid)
    PROVE  /\ f \in Seq(LineSet(Reports))
           /\ \A i \in DOMAIN f : f[i].session = sid /\ Held(f[i], a)
<1> DEFINE sess == SessionRows(a, sid)
           guarded == {Guard(c, sess) : c \in {d \in Claims : d.anchor \in DOMAIN sess}}
           kept == [session : {sid}, report : {r \in guarded : Valid(r, sess)}]
           S == {line \in LineSet(Reports) : line.session = sid /\ Held(line, a)}
<1>1. PICK n \in 0..MaxReports : f \in [1..n -> kept]
  <2>1. MaxReports \in Nat
    BY PipelineAssumption
  <2>2. CASE Members(a, sid) \in Short
    <3>1. f = <<>>
      BY <2>2 DEF Findings
    <3>2. f \in [1..0 -> kept] /\ 0 \in 0..MaxReports
      BY <2>1, <3>1
    <3> QED BY <3>2
  <2>3. CASE Members(a, sid) \notin Short
    BY <2>1, <2>3 DEF Findings
  <2> QED BY <2>2, <2>3
<1>2. ASSUME NEW line \in kept PROVE line \in S
  <2>1. /\ line.session = sid /\ line.report \in guarded /\ Valid(line.report, sess)
        /\ line = [session |-> line.session, report |-> line.report]
    BY <1>2
  <2>2. PICK c \in Claims : line.report = Guard(c, sess)
    BY <2>1
  <2>3. c \in Reports
    BY PipelineAssumption
  <2>4. Guard(c, sess) \in Reports
    BY <2>3, SessionRowsInOrder, GuardShape
  <2>5. sid \in 1..Size(Messages)
    BY DEF Sids, IsRoute
  <2>6. line \in LineSet(Reports)
    BY <2>1, <2>2, <2>4, <2>5 DEF LineSet
  <2>7. Held(line, a)
    BY <2>1, <2>2, <2>3 DEF Held
  <2> QED BY <2>1, <2>6, <2>7
<1> HIDE DEF S, kept
<1>3. f \in Seq(S) /\ \A i \in DOMAIN f : f[i] \in S
  <2>1. n \in Nat /\ f \in [1..n -> S]
    BY <1>1, <1>2, PipelineAssumption
  <2> QED BY <2>1
<1>4. S \subseteq LineSet(Reports) /\ \A line \in S : line.session = sid /\ Held(line, a)
  BY DEF S
<1>5. f \in Seq(LineSet(Reports))
  BY <1>3, <1>4, SeqMonotonic
<1> QED BY <1>3, <1>4, <1>5

-----------------------------------------------------------------------------
(* The cache grows by what the run holds *)

\* A sentinel changes nothing in the rows a run resumes with.
LEMMA ReguardSentinel ==
    ASSUME NEW a, NEW lines \in Seq(LineSet(Reports \cup {NoRow})), NEW sid \in 1..Size(Messages)
    PROVE  ReguardCachedRows(lines \o <<[session |-> sid, report |-> NoRow]>>, a)
             = ReguardCachedRows(lines, a)
<1> DEFINE last == [session |-> sid, report |-> NoRow]
           more == lines \o <<last>>
           n == Len(lines)
<1>1. n \in Nat /\ DOMAIN lines = 1..n
  OBVIOUS
<1>2. last \in LineSet(Reports \cup {NoRow}) /\ last.report = NoRow
  BY DEF LineSet
<1> HIDE DEF last
<1>3. /\ DOMAIN more = 1..(n + 1) /\ more[n + 1] = last
      /\ \A k \in 1..n : more[k] = lines[k]
  BY <1>1, <1>2
<1> HIDE DEF more, n
<1>4. Passing(more, a) = Passing(lines, a)
  <2>1. ASSUME NEW k \in 1..n PROVE k \in Passing(more, a) <=> k \in Passing(lines, a)
    <3>1. k \in 1..(n + 1)
      BY <1>1
    <3> QED BY <1>1, <1>3, <3>1 DEF Passing
  <2>2. n + 1 \notin Passing(more, a) /\ n + 1 \notin 1..n
    BY <1>1, <1>2, <1>3 DEF Passing, Passes
  <2>3. Passing(more, a) \subseteq (1..n) \cup {n + 1} /\ Passing(lines, a) \subseteq 1..n
    BY <1>1, <1>3 DEF Passing
  <2> QED BY <2>1, <2>2, <2>3
<1>5. \A k \in 1..n : GuardedLines(more, a)[k] = GuardedLines(lines, a)[k]
  <2> SUFFICES ASSUME NEW k \in 1..n PROVE GuardedLines(more, a)[k] = GuardedLines(lines, a)[k]
    OBVIOUS
  <2>1. k \in 1..(n + 1)
    BY <1>1
  <2> QED BY <1>1, <1>3, <2>1 DEF GuardedLines
<1>6. Passing(lines, a) \in SUBSET (1..n)
  BY <1>1 DEF Passing
<1>7. Picked(GuardedLines(more, a), Passing(lines, a))
        = Picked(GuardedLines(lines, a), Passing(lines, a))
  BY <1>1, <1>5, <1>6, PickedPrefix
<1>8. ReguardCachedRows(more, a) = ReguardCachedRows(lines, a)
  BY <1>4, <1>7 DEF ReguardCachedRows, Passing, GuardedLines
<1> QED BY <1>8 DEF more, last

\* Rows that are held, appended to the cache, are appended to the rows a run resumes
\* with, just as they are.
LEMMA ReguardGrows ==
    ASSUME NEW a, IsRoute(a), NEW lines \in Seq(LineSet(Reports \cup {NoRow})),
           NEW f \in Seq(LineSet(Reports)), \A i \in DOMAIN f : Held(f[i], a)
    PROVE  ReguardCachedRows(lines \o f, a) = ReguardCachedRows(lines, a) \o f
<1> DEFINE more == lines \o f
           n == Len(lines)
           d == Len(f)
           keep == Passing(lines, a)
           G == GuardedLines(lines, a)
           H == GuardedLines(more, a)
           S == LineSet(Reports \cup {NoRow})
<1>1. n \in Nat /\ d \in Nat /\ DOMAIN lines = 1..n /\ DOMAIN f = 1..d
  OBVIOUS
<1>2. f \in Seq(S)
  <2>1. LineSet(Reports) \subseteq S
    BY DEF LineSet
  <2> HIDE DEF S
  <2> QED BY <2>1, SeqMonotonic
<1>3. /\ DOMAIN more = 1..(n + d)
      /\ \A k \in 1..n : more[k] = lines[k]
      /\ \A j \in 1..d : more[n + j] = f[j]
  <2>1. more \in Seq(S) /\ Len(more) = n + d
        /\ \A i \in 1..(n + d) : more[i] = IF i <= n THEN lines[i] ELSE f[i - n]
    <3> HIDE DEF S
    <3>1. lines \in Seq(S)
      BY DEF S
    <3> QED BY <1>2, <3>1, ConcatProperties, Zenon
  <2>2. ASSUME NEW k \in 1..n PROVE more[k] = lines[k]
    <3>1. k \in 1..(n + d) /\ k <= n
      BY <1>1
    <3> QED BY <2>1, <3>1
  <2>3. ASSUME NEW j \in 1..d PROVE more[n + j] = f[j]
    <3>1. n + j \in 1..(n + d) /\ ~(n + j <= n) /\ (n + j) - n = j
      BY <1>1
    <3> QED BY <2>1, <3>1
  <2>4. DOMAIN more = 1..(n + d)
    <3>1. DOMAIN more = 1..Len(more)
      <4> HIDE DEF S, more
      <4> QED BY <2>1, LenProperties
    <3> QED BY <2>1, <3>1
  <2> QED BY <2>2, <2>3, <2>4
<1>4. ASSUME NEW j \in 1..d PROVE Passes(f[j], a) /\ Guarded(f[j], a) = f[j]
  BY <1>1, HeldPasses
<1> HIDE DEF more, n, d
<1>5. keep \in SUBSET (1..n)
  BY <1>1 DEF Passing
<1>6. SameUpTo(H, G, n)
  <2> SUFFICES ASSUME NEW k \in 1..n PROVE H[k] = G[k]
    BY DEF SameUpTo
  <2>1. k \in 1..(n + d)
    BY <1>1
  <2> QED BY <1>1, <1>3, <2>1 DEF GuardedLines
<1>7. ASSUME NEW j \in 1..d PROVE H[n + j] = f[j] /\ n + j \in Passing(more, a)
  <2>1. n + j \in 1..(n + d)
    BY <1>1
  <2> QED BY <1>3, <1>4, <2>1 DEF GuardedLines, Passing
<1>8. Passing(more, a) = WithNext(keep, n, d)
  <2>1. ASSUME NEW k \in 1..n PROVE k \in Passing(more, a) <=> k \in keep
    <3>1. k \in 1..(n + d)
      BY <1>1
    <3> QED BY <1>1, <1>3, <3>1 DEF Passing
  <2>2. ASSUME NEW k \in (n + 1)..(n + d) PROVE k \in Passing(more, a)
    <3>1. k - n \in 1..d /\ n + (k - n) = k
      BY <1>1
    <3>2. n + (k - n) \in Passing(more, a)
      BY <1>7, <3>1
    <3> QED BY <3>1, <3>2
  <2>3. Passing(more, a) \subseteq (1..n) \cup ((n + 1)..(n + d))
    <3>1. 1..(n + d) \subseteq (1..n) \cup ((n + 1)..(n + d))
      BY <1>1
    <3> QED BY <1>3, <3>1 DEF Passing
  <2> HIDE DEF keep
  <2> QED BY <1>5, <2>1, <2>2, <2>3 DEF WithNext
<1> DEFINE R == Picked(G, keep)
           T == Picked(H, Passing(more, a))
<1> HIDE DEF keep, G, H
<1>9. /\ Size(Passing(more, a)) = Size(keep) + d
      /\ \A i \in 1..Size(keep) : T[i] = R[i]
      /\ \A j \in 1..d : T[Size(keep) + j] = H[n + j]
  <2>1. n \in Nat /\ d \in Nat
    BY <1>1
  <2> DEFINE W == WithNext(keep, n, d)
  <2>2. /\ Size(W) = Size(keep) + d
        /\ \A i \in 1..Size(keep) : Picked(H, W)[i] = Picked(G, keep)[i]
        /\ \A j \in 1..d : Picked(H, W)[Size(keep) + j] = H[n + j]
    BY <1>5, <1>6, <2>1, PickedMore
  <2>3. W = Passing(more, a)
    BY <1>8
  <2> HIDE DEF W
  <2> QED BY <2>2, <2>3
<1>10. R = ReguardCachedRows(lines, a) /\ T = ReguardCachedRows(more, a)
  BY DEF ReguardCachedRows, Passing, GuardedLines, G, H, keep
<1>11. R \in Seq(LineSet(Reports))
  BY <1>10, ReguardType
<1>12. Size(keep) \in Nat /\ Len(R) = Size(keep)
  <2>1. DOMAIN R = 1..Size(keep)
    BY <1>1, <1>5, PickedElements
  <2>2. Size(keep) \in Nat
    BY <1>1, <1>5, UpToFinite
  <2> HIDE DEF R
  <2> QED BY <1>11, <2>1, <2>2, LenProperties
<1>13. T = [i \in 1..(Size(keep) + d) |-> T[i]]
  <2>1. Passing(more, a) \in SUBSET (1..(n + d)) /\ n + d \in Nat
    BY <1>1, <1>3 DEF Passing
  <2>2. T = [i \in 1..Size(Passing(more, a)) |-> H[PlaceOf(Passing(more, a), i)]]
    <3> DEFINE N == n + d
    <3>1. Passing(more, a) \in SUBSET (1..N) /\ N \in Nat
      BY <2>1
    <3> HIDE DEF N
    <3> QED BY <3>1, PickedElements
  <2> HIDE DEF T
  <2> QED BY <1>9, <2>2
<1> HIDE DEF R, T
<1>14. /\ R \o f \in Seq(LineSet(Reports)) /\ Len(R \o f) = Size(keep) + d
       /\ \A i \in 1..(Size(keep) + d) : (R \o f)[i] = IF i <= Size(keep) THEN R[i] ELSE f[i - Size(keep)]
  <2>1. /\ R \o f \in Seq(LineSet(Reports)) /\ Len(R \o f) = Len(R) + Len(f)
        /\ \A i \in 1..(Len(R) + Len(f)) : (R \o f)[i] = IF i <= Len(R) THEN R[i] ELSE f[i - Len(R)]
    BY <1>11, ConcatProperties, Zenon
  <2> QED BY <1>12, <2>1, Zenon DEF d
<1>15. ASSUME NEW i \in 1..(Size(keep) + d) PROVE T[i] = (R \o f)[i]
  <2>1. CASE i <= Size(keep)
    <3>1. i \in 1..Size(keep)
      BY <1>1, <1>12, <2>1
    <3> QED BY <1>9, <1>14, <2>1, <3>1
  <2>2. CASE ~(i <= Size(keep))
    <3>1. i - Size(keep) \in 1..d /\ Size(keep) + (i - Size(keep)) = i
      BY <1>1, <1>12, <2>2
    <3> DEFINE j == i - Size(keep)
    <3>2. T[i] = f[j]
      <4>1. j \in 1..d /\ Size(keep) + j = i
        BY <3>1
      <4> HIDE DEF j
      <4> QED BY <1>7, <1>9, <4>1 DEF H
    <3> QED BY <1>14, <2>2, <3>2
  <2> QED BY <2>1, <2>2
<1>16. R \o f = [i \in 1..(Size(keep) + d) |-> (R \o f)[i]]
  <2> DEFINE U == R \o f
  <2>1. U \in Seq(LineSet(Reports)) /\ Len(U) = Size(keep) + d
    BY <1>14
  <2> HIDE DEF U
  <2>2. U = [i \in 1..(Size(keep) + d) |-> U[i]]
    BY <2>1, LenProperties
  <2> QED BY <2>2 DEF U
<1>17. T = R \o f
  BY <1>13, <1>15, <1>16
<1> QED BY <1>10, <1>17 DEF more

-----------------------------------------------------------------------------
(* The invariant of a run *)

\* The parts of TypeOK: what is on disk and outside, and what the process holds.
FilesOK ==
    /\ evs \subseteq Messages /\ healthy \in BOOLEAN
    /\ route \in {Absent, Torn} \/ (IsRoute(route.assign) /\ route.covers \in 0..Size(Messages))
    /\ cache \in Rows(Reports \cup {NoRow}) /\ tail \in Tails
    /\ out \in {Absent, Torn} \/ \A line \in out : line.report \in Reports
    /\ examined \subseteq SUBSET Messages

RunOK ==
    /\ pc \in {"idle", "route", "save", "resume", "detect", "flush", "publish"}
    /\ loaded \subseteq evs /\ IsRoute(assign) /\ DOMAIN assign \subseteq loaded
    /\ rows \in Rows(Reports) /\ found \in Rows(Reports)
    /\ todo \subseteq Sids(assign) /\ missed \in BOOLEAN

Written(r) == r \notin {Absent, Torn}

\* A route on disk is about events that are there, and the run that is about to read
\* it has loaded them.
RouteSound ==
    Written(route) =>
      /\ DOMAIN route.assign \subseteq evs
      /\ pc = "route" => DOMAIN route.assign \subseteq loaded

\* The rows in memory are those a new run would resume with, and the guard has
\* accepted each in its session.
RowsSound ==
    /\ pc \in {"detect", "flush"} => rows = ReguardCachedRows(cache, assign)
    /\ pc = "flush" => todo # {} /\ found \in Findings(assign, Current)
    /\ pc \in {"detect", "flush", "publish"} => \A i \in DOMAIN rows : Held(rows[i], assign)
    /\ pc \notin {"detect", "flush"} => todo = {}

RunInv == FilesOK /\ RunOK /\ RouteSound /\ RowsSound

\* The two parts make up TypeOK.
LEMMA TypeParts == TypeOK <=> FilesOK /\ RunOK
BY DEF TypeOK, FilesOK, RunOK

\* The lists of TypeOK are the lists of the lemmas above.
LEMMA RowsAreLines == ASSUME NEW reports PROVE Rows(reports) = Seq(LineSet(reports))
BY DEF Rows, LineSet

\* No session before anything is routed.
LEMMA UnroutedType == IsRoute(Unrouted) /\ DOMAIN Unrouted = {} /\ Sids(Unrouted) = {}
<1>1. DOMAIN Unrouted = {}
  BY DEF Unrouted
<1> QED BY <1>1 DEF IsRoute, Sids

\* A process that is gone holds nothing.
LEMMA FinishSound == Finish => RunOK' /\ RowsSound'
<1> SUFFICES ASSUME Finish PROVE RunOK' /\ RowsSound'
  OBVIOUS
<1>1. <<>> \in Rows(Reports)
  BY DEF Rows
<1>2. RunOK'
  BY <1>1, UnroutedType DEF Finish, RunOK
<1>3. RowsSound'
  BY DEF Finish, RowsSound
<1> QED BY <1>2, <1>3

\* The session at hand is one of those not yet looked at.
LEMMA CurrentIsOpen ==
    ASSUME RunOK, todo # {}
    PROVE  Current \in todo /\ Current \in Sids(assign) /\ Current \in 1..Size(Messages)
<1>1. todo \in SUBSET (1..Size(Messages)) /\ todo \subseteq Sids(assign)
  BY DEF RunOK, Sids, IsRoute
<1>2. \E s \in todo : \A x \in todo : s <= x
  BY <1>1, MessagesNumbered, EarliestExists
<1>3. Current \in todo
  BY <1>2 DEF Current
<1> QED BY <1>1, <1>3

\* The lines of the session at hand are lines of the cache.
LEMMA LinesType ==
    ASSUME RunOK, todo # {}
    PROVE  Lines \in Seq(LineSet(Reports \cup {NoRow}))
<1>1. CASE found = <<>>
  <2> DEFINE l == [session |-> Current, report |-> NoRow]
  <2>1. l \in LineSet(Reports \cup {NoRow})
    BY CurrentIsOpen DEF LineSet
  <2> HIDE DEF l
  <2>2. <<l>> \in Seq(LineSet(Reports \cup {NoRow}))
    BY <2>1
  <2> QED BY <1>1, <2>2 DEF Lines, l
<1>2. CASE found # <<>>
  <2>1. found \in Seq(LineSet(Reports))
    BY RowsAreLines DEF RunOK
  <2>2. LineSet(Reports) \subseteq LineSet(Reports \cup {NoRow})
    BY DEF LineSet
  <2>3. found \in Seq(LineSet(Reports \cup {NoRow}))
    BY <2>1, <2>2, SeqMonotonic
  <2> QED BY <1>2, <2>3 DEF Lines
<1> QED BY <1>1, <1>2

-----------------------------------------------------------------------------
(* Every step keeps it *)

\* Before the first run there is nothing.
LEMMA InitSound == Init => RunInv
<1> SUFFICES ASSUME Init PROVE RunInv
  OBVIOUS
<1>0. ASSUME NEW reports PROVE <<>> \in Rows(reports)
  BY DEF Rows
<1>1. FilesOK
  BY <1>0, PipelineAssumption DEF Init, FilesOK, Tails
<1>2. RunOK
  BY <1>0, UnroutedType DEF Init, RunOK
<1>3. RouteSound /\ RowsSound
  BY DEF Init, RouteSound, RowsSound, Written
<1> QED BY <1>1, <1>2, <1>3 DEF RunInv

\* A message that arrives leaves the files and the run alone.
LEMMA ArriveSound == ASSUME RunInv, NEW m \in Messages, Arrive(m) PROVE RunInv'
<1>1. evs \subseteq evs' /\ evs' \subseteq Messages
  BY DEF Arrive, RunInv, FilesOK
<1>2. UNCHANGED <<healthy, files, locals, examined>>
  BY DEF Arrive
<1>3. FilesOK' /\ RunOK'
  BY <1>1, <1>2 DEF RunInv, FilesOK, RunOK, files, locals
<1>4. RouteSound'
  BY <1>1, <1>2 DEF RunInv, RouteSound, files, locals, Written
<1>5. RowsSound'
  BY <1>2 DEF RunInv, RowsSound, files, locals, Current
<1> QED BY <1>3, <1>4, <1>5 DEF RunInv

\* So does the end of an outage.
LEMMA RecoverSound == ASSUME RunInv, Recover PROVE RunInv'
<1>1. healthy' = TRUE /\ UNCHANGED <<evs, files, locals, examined>>
  BY DEF Recover
<1>2. FilesOK' /\ RunOK'
  BY <1>1 DEF RunInv, FilesOK, RunOK, files, locals
<1>3. RouteSound' /\ RowsSound'
  BY <1>1 DEF RunInv, RouteSound, RowsSound, files, locals, Written, Current
<1> QED BY <1>2, <1>3 DEF RunInv

\* A run that starts loads every event the routes on disk can be about.
LEMMA LoadEventsSound == ASSUME RunInv, LoadEvents PROVE RunInv'
<1> USE DEF LoadEvents, RunInv
<1>1. FilesOK'
  BY DEF FilesOK, files
<1>2. RunOK'
  <2>1. DOMAIN assign \subseteq evs
    BY DEF RunOK
  <2> QED BY <2>1 DEF RunOK
<1>3. RouteSound'
  BY DEF RouteSound, files, Written
<1>4. RowsSound'
  BY DEF RowsSound
<1> QED BY <1>1, <1>2, <1>3, <1>4

\* A route that is read is one that a run wrote; a new one is about the events of
\* the run.
LEMMA BuildRouteSound == ASSUME RunInv, BuildRoute PROVE RunInv'
<1>1. UNCHANGED <<evs, healthy, files, examined>> /\ pc = "route"
  BY DEF BuildRoute
<1>2. FilesOK'
  BY <1>1 DEF RunInv, FilesOK, files
<1>3. CASE Finish
  <2>1. RouteSound'
    BY <1>1, <1>3 DEF RunInv, RouteSound, files, Written, Finish
  <2> QED BY <1>2, <1>3, <2>1, FinishSound DEF RunInv
<1>4. CASE /\ Reaches(route, loaded) /\ assign' = route.assign /\ pc' = "resume"
           /\ UNCHANGED <<loaded, rows, todo, found, missed>>
  <2>1. IsRoute(route.assign) /\ DOMAIN route.assign \subseteq loaded
    BY <1>1, <1>4 DEF RunInv, RouteSound, Written, Reaches, FilesOK
  <2>2. RunOK'
    BY <1>1, <1>4, <2>1 DEF RunInv, RunOK, RowsSound
  <2>3. RouteSound' /\ RowsSound'
    BY <1>1, <1>4 DEF RunInv, RouteSound, RowsSound, files, Written
  <2> QED BY <1>2, <2>2, <2>3 DEF RunInv
<1>5. CASE /\ assign' \in Routes(loaded) /\ pc' = "save"
           /\ UNCHANGED <<loaded, rows, todo, found, missed>>
  <2>1. loaded \in SUBSET Messages
    BY DEF RunInv, RunOK, FilesOK
  <2>2. IsRoute(assign') /\ DOMAIN assign' \subseteq loaded
    <3> SUFFICES ASSUME NEW a \in Routes(loaded) PROVE IsRoute(a) /\ DOMAIN a \subseteq loaded
      BY <1>5
    <3> QED BY <2>1, RoutesType
  <2>3. RunOK'
    BY <1>1, <1>5, <2>2 DEF RunInv, RunOK, RowsSound
  <2>4. RouteSound' /\ RowsSound'
    BY <1>1, <1>5 DEF RunInv, RouteSound, RowsSound, files, Written
  <2> QED BY <1>2, <2>3, <2>4 DEF RunInv
<1> QED BY <1>3, <1>4, <1>5 DEF BuildRoute

\* A route is saved whole.
LEMMA SaveRouteSound == ASSUME RunInv, SaveRoute PROVE RunInv'
<1>1. Size(loaded) \in 0..Size(Messages)
  <2>1. loaded \in SUBSET Messages
    BY DEF RunInv, RunOK, FilesOK
  <2>2. IsFiniteSet(loaded) /\ Cardinality(loaded) <= Cardinality(Messages)
    BY <2>1, MessagesNumbered, FS_Subset
  <2> QED BY <2>2, MessagesNumbered, FS_CardinalityType DEF Size
<1>2. route'.assign = assign /\ route'.covers \in 0..Size(Messages)
  BY <1>1, MessagesNumbered DEF SaveRoute, RouteFile
<1>3. FilesOK'
  BY <1>2 DEF SaveRoute, RunInv, RunOK, FilesOK
<1>4. RunOK'
  BY DEF SaveRoute, RunInv, RunOK
<1>5. RouteSound'
  BY <1>2 DEF SaveRoute, RunInv, RunOK, RouteSound
<1>6. RowsSound'
  BY DEF SaveRoute, RunInv, RowsSound
<1> QED BY <1>3, <1>4, <1>5, <1>6 DEF RunInv

\* What a run resumes with is held.
LEMMA ResumeSound == ASSUME RunInv, Resume PROVE RunInv'
<1>1. UNCHANGED <<evs, healthy, files, examined>> /\ pc = "resume"
  BY DEF Resume
<1>2. FilesOK' /\ RouteSound'
  <2>1. FilesOK'
    BY <1>1 DEF RunInv, FilesOK, files
  <2>2. pc' # "route"
    BY DEF Resume, Finish
  <2>3. RouteSound'
    BY <1>1, <2>2 DEF RunInv, RouteSound, files, Written
  <2> QED BY <2>1, <2>3
<1>3. CASE Finish
  BY <1>2, <1>3, FinishSound DEF RunInv
<1>4. CASE /\ rows' = ReguardCachedRows(cache, assign)
           /\ todo' = Sids(assign) \ DoneSessions(cache)
           /\ pc' = "detect"
           /\ UNCHANGED <<loaded, assign, found, missed>>
  <2>1. IsRoute(assign) /\ cache \in Seq(LineSet(Reports \cup {NoRow}))
    BY RowsAreLines DEF RunInv, RunOK, FilesOK
  <2>2. /\ ReguardCachedRows(cache, assign) \in Rows(Reports)
        /\ \A i \in DOMAIN ReguardCachedRows(cache, assign) :
             Held(ReguardCachedRows(cache, assign)[i], assign)
    BY <2>1, ReguardType, RowsAreLines
  <2>3. RunOK'
    BY <1>1, <1>4, <2>2 DEF RunInv, RunOK
  <2>4. RowsSound'
    BY <1>1, <1>4, <2>2 DEF RowsSound, files
  <2> QED BY <1>2, <2>3, <2>4 DEF RunInv
<1> QED BY <1>3, <1>4 DEF Resume

\* What detect_session finds is held.
LEMMA DetectSessionSound == ASSUME RunInv, DetectSession PROVE RunInv'
<1>1. /\ pc = "detect" /\ todo # {} /\ found' \in Findings(assign, Current) /\ pc' = "flush"
      /\ examined' = examined \cup ({Members(assign, Current)} \ Short)
      /\ UNCHANGED <<evs, healthy, files, loaded, assign, rows, todo, missed>>
  BY DEF DetectSession
<1>2. Members(assign, Current) \subseteq Messages
  BY DEF RunInv, RunOK, IsRoute, Members
<1>3. FilesOK'
  BY <1>1, <1>2 DEF RunInv, FilesOK, files
<1>4. found' \in Rows(Reports)
  <2>1. Current \in Sids(assign) /\ IsRoute(assign)
    BY <1>1, CurrentIsOpen DEF RunInv, RunOK
  <2> SUFFICES ASSUME NEW f \in Findings(assign, Current) PROVE f \in Rows(Reports)
    BY <1>1
  <2> QED BY <2>1, FindingsType, RowsAreLines
<1>5. RunOK'
  BY <1>1, <1>4 DEF RunInv, RunOK
<1>6. RouteSound'
  BY <1>1 DEF RunInv, RouteSound, files, Written
<1>7. RowsSound'
  BY <1>1 DEF RunInv, RowsSound, files, Current
<1> QED BY <1>3, <1>5, <1>6, <1>7 DEF RunInv

\* A session that is skipped leaves the rows alone.
LEMMA DetectFailsSound == ASSUME RunInv, DetectFails PROVE RunInv'
<1>1. /\ pc = "detect" /\ todo' = todo \ {Current} /\ missed' = TRUE
      /\ UNCHANGED <<evs, healthy, files, pc, loaded, assign, rows, found, examined>>
  BY DEF DetectFails
<1>2. FilesOK' /\ RunOK'
  BY <1>1 DEF RunInv, FilesOK, RunOK, files
<1>3. RouteSound'
  BY <1>1 DEF RunInv, RouteSound, files, Written
<1>4. RowsSound'
  BY <1>1 DEF RunInv, RowsSound, files
<1> QED BY <1>2, <1>3, <1>4 DEF RunInv

\* What was found is appended to the file and to the rows alike; the next run finds
\* the same rows in the file, because the guard leaves them as they are.
LEMMA FlushSound == ASSUME RunInv, Flush PROVE RunInv'
<1>1. /\ pc = "flush" /\ cache' = cache \o Lines /\ rows' = rows \o found
      /\ todo' = todo \ {Current} /\ found' = <<>> /\ pc' = "detect"
      /\ UNCHANGED <<evs, healthy, route, out, loaded, assign, missed, examined>>
  BY DEF Flush
<1>2. /\ cache \in Seq(LineSet(Reports \cup {NoRow})) /\ rows \in Seq(LineSet(Reports))
      /\ found \in Seq(LineSet(Reports)) /\ IsRoute(assign)
  BY RowsAreLines DEF RunInv, RunOK, FilesOK
<1>3. /\ todo # {} /\ found \in Findings(assign, Current)
      /\ rows = ReguardCachedRows(cache, assign)
      /\ \A i \in DOMAIN rows : Held(rows[i], assign)
  BY <1>1 DEF RunInv, RowsSound
<1>4. Current \in Sids(assign) /\ Current \in 1..Size(Messages)
  BY <1>3, CurrentIsOpen DEF RunInv
<1>5. \A i \in DOMAIN found : Held(found[i], assign)
  BY <1>2, <1>3, <1>4, FindingsType
<1>6. Lines \in Seq(LineSet(Reports \cup {NoRow}))
  BY <1>3, LinesType DEF RunInv
<1>7. cache' \in Rows(Reports \cup {NoRow}) /\ rows' \in Rows(Reports)
  <2>1. cache \o Lines \in Seq(LineSet(Reports \cup {NoRow}))
    BY <1>2, <1>6, ConcatProperties
  <2>2. rows \o found \in Seq(LineSet(Reports))
    BY <1>2, ConcatProperties
  <2> QED BY <1>1, <2>1, <2>2, RowsAreLines
<1>8. FilesOK'
  <2>1. tail' \in Tails
    BY DEF Flush, Appended, Tails
  <2> QED BY <1>1, <1>7, <2>1 DEF RunInv, FilesOK
<1>9. RunOK'
  BY <1>1, <1>7 DEF RunInv, RunOK, Rows
<1>10. RouteSound'
  BY <1>1 DEF RunInv, RouteSound, Written
<1>11. ReguardCachedRows(cache \o Lines, assign) = rows \o found
  <2>1. CASE found = <<>>
    <3>1. Lines = <<[session |-> Current, report |-> NoRow]>>
      BY <2>1 DEF Lines
    <3>2. ReguardCachedRows(cache \o Lines, assign) = ReguardCachedRows(cache, assign)
      BY <1>2, <1>4, <3>1, ReguardSentinel
    <3>3. rows \o found = rows
      BY <1>2, <2>1, ConcatEmptySeq
    <3> QED BY <1>3, <3>2, <3>3
  <2>2. CASE found # <<>>
    <3>1. Lines = found
      BY <2>2 DEF Lines
    <3>2. ReguardCachedRows(cache \o found, assign) = ReguardCachedRows(cache, assign) \o found
      BY <1>2, <1>5, ReguardGrows
    <3> QED BY <1>3, <3>1, <3>2
  <2> QED BY <2>1, <2>2
<1>12. \A i \in DOMAIN rows' : Held(rows'[i], assign)
  <2>1. cache \o Lines \in Seq(LineSet(Reports \cup {NoRow}))
    BY <1>2, <1>6, ConcatProperties
  <2>2. \A i \in DOMAIN ReguardCachedRows(cache \o Lines, assign) :
          Held(ReguardCachedRows(cache \o Lines, assign)[i], assign)
    BY <1>2, <2>1, ReguardType
  <2> QED BY <1>1, <1>11, <2>2
<1>13. RowsSound'
  BY <1>1, <1>11, <1>12 DEF RowsSound
<1> QED BY <1>8, <1>9, <1>10, <1>13 DEF RunInv

\* The judge only drops rows.
LEMMA VerifyEventsSound == ASSUME RunInv, VerifyEvents PROVE RunInv'
<1>1. /\ pc = "detect" /\ todo = {} /\ pc' = "publish"
      /\ UNCHANGED <<evs, healthy, files, loaded, assign, todo, found, missed, examined>>
  BY DEF VerifyEvents
<1>2. PICK keep \in SUBSET DOMAIN rows : rows' = Picked(rows, keep)
  BY DEF VerifyEvents
<1> DEFINE S == {line \in LineSet(Reports) : Held(line, assign)}
<1>3. rows \in Seq(LineSet(Reports)) /\ \A i \in DOMAIN rows : Held(rows[i], assign)
  BY <1>1, RowsAreLines DEF RunInv, RunOK, RowsSound
<1>4. Len(rows) \in Nat /\ keep \in SUBSET (1..Len(rows)) /\ \A k \in keep : rows[k] \in S
  BY <1>3
<1> HIDE DEF S
<1>5. Picked(rows, keep) \in Seq(S)
  BY <1>4, PickedType
<1>6. S \subseteq LineSet(Reports) /\ \A line \in S : Held(line, assign)
  BY DEF S
<1>7. rows' \in Rows(Reports) /\ \A i \in DOMAIN rows' : Held(rows'[i], assign)
  <2>1. \A i \in DOMAIN Picked(rows, keep) : Picked(rows, keep)[i] \in S
    BY <1>5
  <2>2. Picked(rows, keep) \in Seq(LineSet(Reports))
    BY <1>5, <1>6, SeqMonotonic
  <2> QED BY <1>2, <1>6, <2>1, <2>2, RowsAreLines
<1>8. FilesOK'
  BY <1>1 DEF RunInv, FilesOK, files
<1>9. RunOK'
  BY <1>1, <1>7 DEF RunInv, RunOK
<1>10. RouteSound'
  BY <1>1 DEF RunInv, RouteSound, files, Written
<1>11. RowsSound'
  BY <1>1, <1>7 DEF RunInv, RowsSound
<1> QED BY <1>8, <1>9, <1>10, <1>11 DEF RunInv

\* What is published are rows of the run.
LEMMA PublishSound == ASSUME RunInv, Publish PROVE RunInv'
<1>1. out' = FirstPerAnchor(rows) /\ Finish /\ UNCHANGED <<evs, healthy, route, cache, tail, examined>>
  BY DEF Publish
<1>2. \A line \in out' : line.report \in Reports
  <2>1. \A i \in DOMAIN rows : rows[i].report \in Reports
    <3>1. rows \in Seq(LineSet(Reports))
      BY RowsAreLines DEF RunInv, RunOK
    <3>2. \A i \in DOMAIN rows : rows[i] \in LineSet(Reports)
      BY <3>1
    <3> QED BY <3>2 DEF LineSet
  <2> QED BY <1>1, <2>1 DEF FirstPerAnchor
<1>3. FilesOK'
  BY <1>1, <1>2 DEF RunInv, FilesOK
<1>4. RouteSound'
  BY <1>1 DEF RunInv, RouteSound, Written, Finish
<1> QED BY <1>1, <1>3, <1>4, FinishSound DEF RunInv

\* A kill leaves whole lines, or a file that is recognised as torn.
LEMMA KillSound == ASSUME RunInv, Kill PROVE RunInv'
<1>1. /\ Finish /\ UNCHANGED <<evs, healthy, examined>>
      /\ HalfWritten \/ UNCHANGED files
  BY DEF Kill
<1>2. CASE UNCHANGED files
  <2>1. FilesOK'
    BY <1>1, <1>2 DEF RunInv, FilesOK, files
  <2>2. RouteSound'
    BY <1>1, <1>2 DEF RunInv, RouteSound, files, Written, Finish
  <2> QED BY <1>1, <2>1, <2>2, FinishSound DEF RunInv
<1>3. CASE pc = "save" /\ route' = Torn /\ UNCHANGED <<cache, tail, out>>
  <2>1. FilesOK' /\ RouteSound'
    BY <1>1, <1>3 DEF RunInv, FilesOK, RouteSound, Written
  <2> QED BY <1>1, <2>1, FinishSound DEF RunInv
<1>4. CASE /\ pc = "flush" /\ UNCHANGED <<route, out>>
           /\ \E n \in 0..Len(Lines) :
                cache' = cache \o SubSeq(Lines, 1, n) /\ tail' \in CutOff(n)
  <2>1. PICK n \in 0..Len(Lines) :
          cache' = cache \o SubSeq(Lines, 1, n) /\ tail' \in CutOff(n)
    BY <1>4
  <2> DEFINE S == LineSet(Reports \cup {NoRow})
  <2>2. cache \in Seq(S) /\ Lines \in Seq(S)
    BY <1>4, LinesType, RowsAreLines DEF RunInv, FilesOK, RowsSound
  <2> HIDE DEF S
  <2>3. SubSeq(Lines, 1, n) \in Seq(S)
    <3>1. \A i \in 1..n : Lines[i] \in S
      BY <2>2
    <3>2. n \in Int
      BY <2>2
    <3> QED BY <3>1, <3>2, SubSeqProperties
  <2>4. cache' \in Seq(S)
    BY <2>1, <2>2, <2>3, ConcatProperties
  <2>5. cache' \in Rows(Reports \cup {NoRow}) /\ tail' \in Tails
    <3>1. CutOff(n) \subseteq Tails
      BY DEF CutOff, Tails, RunInv, FilesOK
    <3> QED BY <2>1, <2>4, <3>1, RowsAreLines DEF S
  <2>6. FilesOK'
    BY <1>1, <1>4, <2>5 DEF RunInv, FilesOK
  <2>7. RouteSound'
    BY <1>1, <1>4 DEF RunInv, RouteSound, Written, Finish
  <2> QED BY <1>1, <2>6, <2>7, FinishSound DEF RunInv
<1>5. CASE pc = "publish" /\ out' = Torn /\ UNCHANGED <<route, cache, tail>>
  <2>1. FilesOK'
    BY <1>1, <1>5 DEF RunInv, FilesOK
  <2>2. RouteSound'
    BY <1>1, <1>5 DEF RunInv, RouteSound, Written, Finish
  <2> QED BY <1>1, <2>1, <2>2, FinishSound DEF RunInv
<1> QED BY <1>1, <1>2, <1>3, <1>4, <1>5 DEF HalfWritten

\* A step that changes nothing keeps it.
LEMMA StutterSound == ASSUME RunInv, UNCHANGED vars PROVE RunInv'
<1>1. FilesOK' /\ RunOK'
  BY DEF RunInv, FilesOK, RunOK, vars
<1>2. RouteSound' /\ RowsSound'
  BY DEF RunInv, RouteSound, RowsSound, vars, Written, Current
<1> QED BY <1>1, <1>2 DEF RunInv

\* RunInv holds at first and every step keeps it.
LEMMA RunInvInductive ==
    /\ Init => RunInv
    /\ RunInv /\ [Next]_vars => RunInv'
<1>1. ASSUME RunInv, Next PROVE RunInv'
  <2>1. CASE \E m \in Messages : Arrive(m)
    BY <1>1, <2>1, ArriveSound
  <2>2. CASE Recover
    BY <1>1, <2>2, RecoverSound
  <2>3. CASE RunStep
    BY <1>1, <2>3, LoadEventsSound, BuildRouteSound, SaveRouteSound, ResumeSound, DetectSessionSound,
       DetectFailsSound, FlushSound, VerifyEventsSound, PublishSound DEF RunStep
  <2>4. CASE Kill
    BY <1>1, <2>4, KillSound
  <2> QED BY <1>1, <2>1, <2>2, <2>3, <2>4 DEF Next
<1> QED BY <1>1, InitSound, StutterSound

\* At every step the files and the variables of run have the values they can have.
THEOREM TypeCorrect == Spec => []TypeOK
<1>1. RunInv => TypeOK
  BY TypeParts DEF RunInv
<1> QED BY <1>1, RunInvInductive, PTL DEF Spec

\* Dying between two sessions costs no correction, as long as the cache can be read:
\* what the run holds is what the next run takes from its files, a last line without
\* its newline included.  A cache that an append to such a line has broken is the
\* exception: no run takes anything from it.
THEOREM ResumeLosesNothing == Spec => []ResumeRestores
<1>1. RunInv => ResumeRestores
  BY DEF RunInv, RowsSound, ResumeRestores
<1> QED BY <1>1, RunInvInductive, PTL DEF Spec

\* A row that is held blames the nearest error before its correction.
LEMMA HeldBlamesNearest ==
    ASSUME NEW a, IsRoute(a), NEW line, Held(line, a)
    PROVE  LET r == line.report
               sess == SessionRows(a, line.session)
           IN  /\ {r.anchor, r.corrector} \subseteq DOMAIN sess
               /\ Human(sess[r.corrector])
               /\ sess[r.anchor].bot /\ r.quote \in sess[r.anchor].says
               /\ sess[r.anchor].ts < sess[r.corrector].ts
               /\ \A m \in Matches(r, sess) :
                    sess[m].ts < sess[r.corrector].ts => sess[m].ts <= sess[r.anchor].ts
<1> DEFINE r == line.report
           sess == SessionRows(a, line.session)
<1>1. PICK c \in Reports : r = Guard(c, sess)
  BY DEF Held
<1>2. InOrder(sess) /\ Valid(r, sess)
  BY SessionRowsInOrder DEF Held
<1> HIDE DEF r, sess
<1>3. /\ r.anchor \in EarlierMatches(r, sess)
      /\ \A x \in EarlierMatches(r, sess) : Later(sess, x, r.anchor)
  BY <1>1, <1>2, KeptAnchor
<1>4. /\ {r.anchor, r.corrector} \subseteq DOMAIN sess /\ Human(sess[r.corrector])
      /\ sess[r.anchor].bot /\ r.quote \in sess[r.anchor].says
  BY <1>2 DEF Valid
<1>5. sess[r.anchor].ts < sess[r.corrector].ts
  BY <1>3 DEF EarlierMatches
<1>6. ASSUME NEW m \in Matches(r, sess), sess[m].ts < sess[r.corrector].ts
      PROVE  sess[m].ts <= sess[r.anchor].ts
  <2>1. m \in EarlierMatches(r, sess)
    BY <1>4, <1>6 DEF EarlierMatches
  <2>2. sess[m].ts \in Nat /\ sess[r.anchor].ts \in Nat
    BY <1>2, <1>4 DEF InOrder, Texts, Matches
  <2> QED BY <1>3, <2>1, <2>2 DEF Later
<1> QED BY <1>4, <1>5, <1>6 DEF r, sess

\* Whatever run found a row, what is published blames the nearest error inside one
\* session of today's route.
THEOREM PublishedRowsAreHeld == Spec => PublishedRowsHold
<1> DEFINE Good(line) ==
             LET r == line.report
                 sess == SessionRows(assign, line.session)
             IN  /\ {r.anchor, r.corrector} \subseteq DOMAIN sess
                 /\ Human(sess[r.corrector])
                 /\ sess[r.anchor].bot /\ r.quote \in sess[r.anchor].says
                 /\ sess[r.anchor].ts < sess[r.corrector].ts
                 /\ \A m \in Matches(r, sess) :
                      sess[m].ts < sess[r.corrector].ts => sess[m].ts <= sess[r.anchor].ts
<1>1. ASSUME RunInv, Publish PROVE \A line \in out' : Good(line)
  <2>1. IsRoute(assign) /\ \A i \in DOMAIN rows : Held(rows[i], assign)
    BY <1>1 DEF RunInv, RunOK, RowsSound, Publish
  <2>2. \A i \in DOMAIN rows : Good(rows[i])
    BY <2>1, HeldBlamesNearest
  <2> HIDE DEF Good
  <2> QED BY <1>1, <2>2 DEF Publish, FirstPerAnchor
<1>2. RunInv => [Publish => \A line \in out' : Good(line)]_vars
  BY <1>1
<1> QED BY <1>2, RunInvInductive, PTL DEF Spec, PublishedRowsHold

-----------------------------------------------------------------------------
(* While no message arrives, every session that is done was examined *)

\* The sessions there is nothing left to ask about.
Settled == examined \cup Short

\* The cache names only sessions of the route on disk that the LLM answered about or is not asked about.
CacheExamined ==
    cache # <<>> =>
      /\ Reaches(route, First)
      /\ \A i \in DOMAIN cache : Members(route.assign, cache[i].session) \in Settled

\* The run works on the route on disk, and has left no session aside but in the open.
RunExamined ==
    /\ pc = "save" => cache = <<>>
    /\ pc \in {"resume", "detect", "flush", "publish"} =>
         /\ Written(route) /\ route.assign = assign
         /\ Sids(assign) # {} => Reaches(route, First)
    /\ pc \in {"detect", "flush", "publish"} /\ ~missed =>
         \A sid \in Sids(assign) \ todo : Members(assign, sid) \in Settled
    /\ pc = "flush" => Members(assign, Current) \in Settled

QuietInv ==
    /\ First \subseteq evs
    /\ pc # "idle" => First \subseteq loaded
    /\ pc = "save" => assign \in Routes(loaded)
    /\ evs = First => CacheExamined /\ RunExamined

\* A run that started since, and no message: it has loaded just the first messages.
LEMMA LoadedFirst ==
    ASSUME RunInv, QuietInv, evs = First, pc # "idle"
    PROVE  loaded = First
BY DEF RunInv, RunOK, QuietInv

\* Lines of the session at hand can be appended to the cache, all or some of them.
LEMMA FlushedExamined ==
    ASSUME RunInv, QuietInv, evs = First, pc = "flush",
           NEW t \in Seq(LineSet(Reports \cup {NoRow})), \A j \in 1..Len(t) : t[j].session = Current
    PROVE  /\ Reaches(route, First)
           /\ \A i \in DOMAIN (cache \o t) : Members(route.assign, (cache \o t)[i].session) \in Settled
<1> DEFINE S == LineSet(Reports \cup {NoRow})
           u == cache \o t
<1>1. cache \in Seq(S)
  BY RowsAreLines DEF RunInv, FilesOK
<1>2. todo # {} /\ CacheExamined /\ RunExamined
  BY DEF RunInv, RowsSound, QuietInv
<1>3. Current \in Sids(assign)
  BY <1>2, CurrentIsOpen DEF RunInv
<1>4. /\ Reaches(route, First) /\ route.assign = assign
      /\ Members(route.assign, Current) \in Settled
  BY <1>2, <1>3 DEF RunExamined
<1>5. ASSUME NEW i \in DOMAIN u PROVE Members(route.assign, u[i].session) \in Settled
  <2> HIDE DEF S
  <2>1. /\ Len(u) = Len(cache) + Len(t) /\ u \in Seq(S)
        /\ \A k \in 1..(Len(cache) + Len(t)) : u[k] = IF k <= Len(cache) THEN cache[k] ELSE t[k - Len(cache)]
    <3>1. t \in Seq(S)
      BY DEF S
    <3> QED BY <1>1, <3>1, ConcatProperties, Zenon
  <2> HIDE DEF u
  <2>2. DOMAIN u = 1..(Len(cache) + Len(t)) /\ Len(cache) \in Nat /\ Len(t) \in Nat
        /\ DOMAIN cache = 1..Len(cache)
    BY <1>1, <2>1, LenProperties
  <2>3. CASE i <= Len(cache)
    <3>1. i \in DOMAIN cache /\ u[i] = cache[i]
      BY <1>5, <2>1, <2>2, <2>3
    <3>2. cache # <<>>
      BY <3>1
    <3> QED BY <1>2, <3>1, <3>2 DEF CacheExamined
  <2>4. CASE ~(i <= Len(cache))
    <3>1. i - Len(cache) \in 1..Len(t) /\ u[i] = t[i - Len(cache)]
      BY <1>5, <2>1, <2>2, <2>4
    <3>2. u[i].session = Current
      BY <3>1
    <3> QED BY <1>4, <3>2
  <2> QED BY <2>3, <2>4
<1> QED BY <1>4, <1>5

\* The lines of the session at hand carry its number.
LEMMA LinesOfCurrent ==
    ASSUME RunInv, pc = "flush"
    PROVE  \A j \in 1..Len(Lines) : Lines[j].session = Current
<1>1. todo # {} /\ found \in Findings(assign, Current)
  BY DEF RunInv, RowsSound
<1>2. CASE found = <<>>
  <2> DEFINE l == [session |-> Current, report |-> NoRow]
  <2>1. l.session = Current
    OBVIOUS
  <2> HIDE DEF l
  <2>2. Lines = <<l>>
    BY <1>2 DEF Lines, l
  <2> QED BY <2>1, <2>2
<1>3. CASE found # <<>>
  <2>1. Current \in Sids(assign) /\ IsRoute(assign)
    BY <1>1, CurrentIsOpen DEF RunInv, RunOK
  <2>2. found \in Seq(LineSet(Reports)) /\ \A i \in DOMAIN found : found[i].session = Current
    BY <1>1, <2>1, FindingsType
  <2>3. DOMAIN found = 1..Len(found)
    BY <2>2
  <2> QED BY <1>3, <2>2, <2>3 DEF Lines
<1> QED BY <1>2, <1>3

\* The files as they are serve the next run, whatever becomes of this one.
LEMMA QuietFinish ==
    ASSUME QuietInv, Finish, UNCHANGED <<evs, route, cache, examined>>
    PROVE  QuietInv'
<1>1. pc' = "idle"
  BY DEF Finish
<1>2. evs = First => CacheExamined'
  BY DEF QuietInv, CacheExamined, Reaches, Settled
<1>3. RunExamined'
  BY <1>1 DEF RunExamined
<1> QED BY <1>1, <1>2, <1>3 DEF QuietInv

\* Before the first run.
LEMMA QuietInit == Init => QuietInv
BY DEF Init, QuietInv, CacheExamined, RunExamined

\* A message that arrives ends the quiet.
LEMMA QuietArrive == ASSUME QuietInv, NEW m \in Messages, Arrive(m) PROVE QuietInv'
<1>1. First \subseteq evs' /\ evs' # First
  BY DEF QuietInv, Arrive
<1>2. UNCHANGED <<pc, loaded, assign>>
  BY DEF Arrive, locals
<1> QED BY <1>1, <1>2 DEF QuietInv

\* Nothing that QuietInv is about changes.
LEMMA QuietSame ==
    ASSUME QuietInv, UNCHANGED <<evs, files, locals, examined>> PROVE QuietInv'
<1> USE DEF files, locals
<1>1. CacheExamined => CacheExamined'
  BY DEF CacheExamined, Reaches, Settled
<1>2. RunExamined => RunExamined'
  BY DEF RunExamined, Reaches, Written, Current, Settled
<1> QED BY <1>1, <1>2 DEF QuietInv

\* A run starts: it loads what there is.
LEMMA QuietLoadEvents == ASSUME QuietInv, LoadEvents PROVE QuietInv'
<1>1. pc' = "route" /\ loaded' = evs /\ UNCHANGED <<evs, route, cache, examined>>
  BY DEF LoadEvents, files
<1>2. CacheExamined => CacheExamined'
  BY <1>1 DEF CacheExamined, Reaches, Settled
<1>3. RunExamined'
  BY <1>1 DEF RunExamined
<1> QED BY <1>1, <1>2, <1>3 DEF QuietInv

\* A cache that is not empty comes with a route that is reused: the events are routed
\* again only while no session is done.
LEMMA QuietBuildRoute == ASSUME RunInv, QuietInv, BuildRoute PROVE QuietInv'
<1>1. pc = "route" /\ UNCHANGED <<evs, route, cache, examined>>
  BY DEF BuildRoute, files
<1>2. CASE Finish
  BY <1>1, <1>2, QuietFinish
<1>3. CASE /\ Reaches(route, loaded) /\ assign' = route.assign /\ pc' = "resume" /\ loaded' = loaded
  <2>1. evs = First => CacheExamined'
    BY <1>1 DEF QuietInv, CacheExamined, Reaches, Settled
  <2>2. evs = First => RunExamined'
    <3> SUFFICES ASSUME evs = First PROVE RunExamined'
      OBVIOUS
    <3>1. loaded = First
      BY <1>1, LoadedFirst
    <3>2. Reaches(route', First) /\ Written(route')
      BY <1>1, <1>3, <3>1 DEF Reaches, Written
    <3> QED BY <1>1, <1>3, <3>2 DEF RunExamined
  <2> QED BY <1>1, <1>3, <2>1, <2>2 DEF QuietInv
<1>4. CASE /\ ~Reaches(route, loaded) /\ assign' \in Routes(loaded) /\ pc' = "save" /\ loaded' = loaded
  <2>1. evs = First => CacheExamined'
    BY <1>1 DEF QuietInv, CacheExamined, Reaches, Settled
  <2>2. evs = First => RunExamined'
    <3> SUFFICES ASSUME evs = First PROVE RunExamined'
      OBVIOUS
    <3>1. loaded = First
      BY <1>1, LoadedFirst
    <3>2. cache = <<>>
      BY <1>4, <3>1 DEF QuietInv, CacheExamined
    <3> QED BY <1>1, <1>4, <3>2 DEF RunExamined
  <2> QED BY <1>1, <1>4, <2>1, <2>2 DEF QuietInv
<1> QED BY <1>2, <1>3, <1>4 DEF BuildRoute

\* A route that has a session covers all the events it was made from.
LEMMA QuietSaveRoute == ASSUME RunInv, QuietInv, SaveRoute PROVE QuietInv'
<1>1. /\ pc = "save" /\ pc' = "resume" /\ route' = RouteFile(loaded, assign)
      /\ UNCHANGED <<evs, cache, loaded, assign, examined>>
  BY DEF SaveRoute
<1>2. SUFFICES ASSUME evs = First PROVE CacheExamined' /\ RunExamined'
  BY <1>1 DEF QuietInv
<1>3. loaded = First /\ cache = <<>> /\ assign \in Routes(loaded) /\ loaded \in SUBSET Messages
  BY <1>1, <1>2, LoadedFirst DEF QuietInv, RunExamined, RunInv, FilesOK
<1>4. Written(route')
  BY <1>1, <1>3, RouteFileAssumption DEF Written
<1>5. route'.assign = assign /\ route'.covers = IF DOMAIN assign = {} THEN 0 ELSE Size(First)
  BY <1>1, <1>3 DEF RouteFile
<1>6. Sids(assign) # {} => Reaches(route', First)
  <2>1. Size(First) \in Nat
    <3>1. IsFiniteSet(First)
      BY <1>3, MessagesNumbered, FS_Subset
    <3> QED BY <3>1, FS_CardinalityType DEF Size
  <2>2. Sids(assign) # {} => route'.covers = Size(First)
    BY <1>5 DEF Sids
  <2> QED BY <1>4, <2>1, <2>2 DEF Reaches, Written
<1>7. CacheExamined'
  BY <1>1, <1>3 DEF CacheExamined
<1>8. RunExamined'
  BY <1>1, <1>4, <1>5, <1>6 DEF RunExamined
<1> QED BY <1>7, <1>8

\* The sessions a run does not look at again are in its cache.
LEMMA QuietResume == ASSUME RunInv, QuietInv, Resume PROVE QuietInv'
<1>1. pc = "resume" /\ UNCHANGED <<evs, route, cache, examined>>
  BY DEF Resume, files
<1>2. CASE Finish
  BY <1>1, <1>2, QuietFinish
<1>3. CASE /\ todo' = Sids(assign) \ DoneSessions(cache) /\ pc' = "detect"
           /\ UNCHANGED <<loaded, assign>>
  <2>1. SUFFICES ASSUME evs = First PROVE CacheExamined' /\ RunExamined'
    BY <1>1, <1>3 DEF QuietInv
  <2>2. CacheExamined /\ RunExamined
    BY <2>1 DEF QuietInv
  <2>3. CacheExamined'
    BY <1>1, <2>2 DEF CacheExamined, Reaches, Settled
  <2>4. Written(route) /\ route.assign = assign /\ (Sids(assign) # {} => Reaches(route, First))
    BY <1>1, <2>2 DEF RunExamined
  <2>5. ASSUME NEW sid \in Sids(assign) \ todo' PROVE Members(assign, sid) \in Settled
    <3>1. PICK i \in DOMAIN cache : cache[i].session = sid
      BY <1>3 DEF DoneSessions
    <3>2. cache # <<>>
      BY <3>1
    <3> QED BY <2>2, <2>4, <3>1, <3>2 DEF CacheExamined
  <2>6. RunExamined'
    BY <1>1, <1>3, <2>4, <2>5 DEF RunExamined, Reaches, Written, Settled
  <2> QED BY <2>3, <2>6
<1> QED BY <1>2, <1>3 DEF Resume

\* detect_session: the session at hand is examined now.
LEMMA QuietDetectSession == ASSUME QuietInv, DetectSession PROVE QuietInv'
<1>1. /\ pc = "detect" /\ pc' = "flush" /\ examined' = examined \cup ({Members(assign, Current)} \ Short)
      /\ UNCHANGED <<evs, route, cache, loaded, assign, todo, missed>>
  BY DEF DetectSession, files
<1>2. SUFFICES ASSUME evs = First PROVE CacheExamined' /\ RunExamined'
  BY <1>1 DEF QuietInv
<1>3. CacheExamined /\ RunExamined
  BY <1>2 DEF QuietInv
<1>4. CacheExamined'
  BY <1>1, <1>3 DEF CacheExamined, Reaches, Settled
<1>5. Current' = Current
  BY <1>1 DEF Current
<1>6. RunExamined'
  BY <1>1, <1>3, <1>5 DEF RunExamined, Reaches, Written, Settled
<1> QED BY <1>4, <1>6

\* A session that could not be examined is marked as missed.
LEMMA QuietDetectFails == ASSUME QuietInv, DetectFails PROVE QuietInv'
<1>1. /\ pc = "detect" /\ pc' = "detect" /\ missed' = TRUE
      /\ UNCHANGED <<evs, route, cache, loaded, assign, examined>>
  BY DEF DetectFails, files
<1>2. CacheExamined => CacheExamined'
  BY <1>1 DEF CacheExamined, Reaches, Settled
<1>3. RunExamined => RunExamined'
  BY <1>1 DEF RunExamined, Reaches, Written
<1> QED BY <1>1, <1>2, <1>3 DEF QuietInv

\* Only a session that was examined is written to the cache.
LEMMA QuietFlush == ASSUME RunInv, QuietInv, Flush PROVE QuietInv'
<1>1. /\ pc = "flush" /\ pc' = "detect" /\ cache' = cache \o Lines /\ todo' = todo \ {Current}
      /\ UNCHANGED <<evs, route, loaded, assign, missed, examined>>
  BY DEF Flush
<1>2. SUFFICES ASSUME evs = First PROVE CacheExamined' /\ RunExamined'
  BY <1>1 DEF QuietInv
<1>3. Lines \in Seq(LineSet(Reports \cup {NoRow})) /\ \A j \in 1..Len(Lines) : Lines[j].session = Current
  BY <1>1, LinesType, LinesOfCurrent DEF RunInv, RowsSound
<1>4. /\ Reaches(route, First)
      /\ \A i \in DOMAIN (cache \o Lines) :
           Members(route.assign, (cache \o Lines)[i].session) \in Settled
  BY <1>1, <1>2, <1>3, FlushedExamined
<1>5. CacheExamined'
  BY <1>1, <1>4 DEF CacheExamined, Reaches, Settled
<1>6. RunExamined'
  <2>1. RunExamined
    BY <1>2 DEF QuietInv
  <2> QED BY <1>1, <2>1 DEF RunExamined, Reaches, Written, Settled
<1> QED BY <1>5, <1>6

\* Verification takes no session back.
LEMMA QuietVerifyEvents == ASSUME QuietInv, VerifyEvents PROVE QuietInv'
<1>1. /\ pc = "detect" /\ pc' = "publish"
      /\ UNCHANGED <<evs, route, cache, loaded, assign, todo, missed, examined>>
  BY DEF VerifyEvents, files
<1>2. CacheExamined => CacheExamined'
  BY <1>1 DEF CacheExamined, Reaches, Settled
<1>3. RunExamined => RunExamined'
  BY <1>1 DEF RunExamined, Reaches, Written, Settled
<1> QED BY <1>1, <1>2, <1>3 DEF QuietInv

\* A kill in a write leaves a cache of sessions that were examined: a route is torn
\* only while no session is done.
LEMMA QuietKill == ASSUME RunInv, QuietInv, Kill PROVE QuietInv'
<1>1. /\ Finish /\ UNCHANGED <<evs, examined>>
      /\ HalfWritten \/ UNCHANGED files
  BY DEF Kill
<1>2. CASE UNCHANGED <<route, cache>>
  BY <1>1, <1>2, QuietFinish
<1>3. pc' = "idle" /\ RunExamined'
  BY <1>1 DEF Finish, RunExamined
<1>4. CASE pc = "save" /\ cache' = cache
  <2>1. evs = First => cache' = <<>>
    BY <1>4 DEF QuietInv, RunExamined
  <2>2. evs = First => CacheExamined'
    BY <2>1 DEF CacheExamined
  <2> QED BY <1>1, <1>3, <2>2 DEF QuietInv
<1>5. CASE /\ pc = "flush" /\ UNCHANGED <<route, out>>
           /\ \E n \in 0..Len(Lines) :
                cache' = cache \o SubSeq(Lines, 1, n) /\ tail' \in CutOff(n)
  <2>1. PICK n \in 0..Len(Lines) : cache' = cache \o SubSeq(Lines, 1, n)
    BY <1>5
  <2>2. SUFFICES ASSUME evs = First PROVE CacheExamined'
    BY <1>1, <1>3 DEF QuietInv
  <2> DEFINE S == LineSet(Reports \cup {NoRow})
             t == SubSeq(Lines, 1, n)
  <2>3. Lines \in Seq(S) /\ \A j \in 1..Len(Lines) : Lines[j].session = Current
    BY <1>5, LinesType, LinesOfCurrent DEF RunInv, RowsSound
  <2> HIDE DEF S
  <2>4. n \in Int /\ \A i \in 1..n : i \in 1..Len(Lines) /\ Lines[i] \in S
    BY <2>3
  <2>5. /\ t \in Seq(S) /\ Len(t) = IF 1 <= n THEN n - 1 + 1 ELSE 0
        /\ \A i \in 1..(n - 1 + 1) : t[i] = Lines[1 + i - 1]
    BY <2>4, SubSeqProperties
  <2> HIDE DEF t
  <2>6. \A j \in 1..Len(t) : t[j].session = Current
    <3> SUFFICES ASSUME NEW j \in 1..Len(t) PROVE t[j].session = Current
      OBVIOUS
    <3>1. j \in 1..(n - 1 + 1) /\ j \in 1..n /\ 1 + j - 1 = j
      BY <2>4, <2>5
    <3>2. t[j] = Lines[j]
      BY <2>5, <3>1
    <3> QED BY <2>3, <2>4, <3>1, <3>2
  <2>7. /\ Reaches(route, First)
        /\ \A i \in DOMAIN (cache \o t) : Members(route.assign, (cache \o t)[i].session) \in Settled
    BY <1>5, <2>2, <2>5, <2>6, FlushedExamined DEF S
  <2> QED BY <1>1, <1>5, <2>1, <2>7 DEF CacheExamined, Reaches, t, Settled
<1> QED BY <1>1, <1>2, <1>4, <1>5 DEF HalfWritten, files

\* QuietInv holds at first and every step keeps it.
LEMMA QuietInvInductive ==
    /\ Init => QuietInv
    /\ RunInv /\ QuietInv /\ [Next]_vars => QuietInv'
<1>1. ASSUME RunInv, QuietInv, Next PROVE QuietInv'
  <2>1. CASE \E m \in Messages : Arrive(m)
    BY <1>1, <2>1, QuietArrive
  <2>2. CASE Recover
    BY <1>1, <2>2, QuietSame DEF Recover
  <2>3. CASE Publish
    BY <1>1, <2>3, QuietFinish DEF Publish
  <2>4. CASE RunStep
    BY <1>1, <2>3, <2>4, QuietLoadEvents, QuietBuildRoute, QuietSaveRoute, QuietResume,
       QuietDetectSession, QuietDetectFails, QuietFlush, QuietVerifyEvents DEF RunStep
  <2>5. CASE Kill
    BY <1>1, <2>5, QuietKill
  <2> QED BY <1>1, <2>1, <2>2, <2>4, <2>5 DEF Next
<1>2. ASSUME QuietInv, UNCHANGED vars PROVE QuietInv'
  BY <1>2, QuietSame DEF vars, files, locals
<1> QED BY <1>1, <1>2, QuietInit

\* As long as no message arrives, kills and refused requests never make a run publish
\* over a session nobody looked at.
THEOREM QuietRunsAreExhaustive == Spec => ExhaustiveWhileQuiet
<1>1. ASSUME RunInv, QuietInv, Publish, ~missed, evs = First PROVE AllExamined
  BY <1>1 DEF RunInv, RowsSound, QuietInv, RunExamined, Publish, AllExamined, Settled
<1>2. RunInv /\ QuietInv => [Publish /\ ~missed /\ evs = First => AllExamined]_vars
  BY <1>1
<1> QED BY <1>2, RunInvInductive, QuietInvInductive, PTL DEF Spec, ExhaustiveWhileQuiet

=============================================================================
