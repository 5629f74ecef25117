--------------------------- MODULE MessageProofs ---------------------------
(***************************************************************************)
(* Theorems about DirectMessages, for any number of messages, any page and *)
(* cache size, and any number of requests of a page under way.             *)
(***************************************************************************)
EXTENDS DirectMessages, FiniteSetTheorems, SequenceTheorems, WellFoundedInduction,
        TLAPS

-----------------------------------------------------------------------------
(* The inductive invariant.                                                 *)

Elements(s) == {s[i] : i \in 1..Len(s)}

IdsIn(rows) == {rows[i].id : i \in 1..Len(rows)}

\* Whatever is on a screen, or on its way to one, is stored. p, s and d: a page,
\* the requests of it under way, and what it owes.
ShownStored(p, s, d) ==
    /\ Ids(p) \subseteq Stored \cup {0}
    /\ d.start # None => d.start \subseteq Stored
    /\ \A q \in Elements(s) :
           /\ IdsIn(q.base) \subseteq Stored \cup {0} /\ q.start \subseteq Stored
           /\ q.answer # None => IdsIn(q.answer.rows) \subseteq Stored \cup {0}

\* Read marks are never taken back, nor by an answer.
MarksKept(s) ==
    \A q \in Elements(s) :
        /\ \A m \in q.read : isRead[m]
        /\ q.answer # None =>
               \A row \in Elements(q.answer.rows) : row.id \in q.read => row.isRead

\* The ids of conversation c, and those of T that a page down to cursor shows.
Own(c) == IF c = "other" THEN {0} ELSE Messages

Passed(T, more, cursor) == {m \in T : more => m >= cursor}

\* Only this conversation has more than one page.
MoreOK(more, cursor, c) == more => cursor \in Messages /\ c = "this"

\* What the answer to request q adds to a walk that began with start.
Owed(q, start) ==
    IF q.cursor = None THEN q.start ELSE {m \in start : m < q.cursor}

\* A request of a patient reader, of the page that is open.
RequestOK(q, p, d) ==
    /\ q.params = p.params
    /\ IdsIn(q.base) \subseteq Own(p.params) /\ d.live \subseteq IdsIn(q.base)
    /\ MoreOK(q.cursor # None, q.cursor, p.params)
    /\ q.cursor # None => d.start # None /\ Passed(d.start, TRUE, q.cursor) \subseteq IdsIn(q.base)
    /\ q.answer # None =>
           /\ IdsIn(q.answer.rows) \subseteq Own(p.params)
           /\ MoreOK(q.answer.more, q.answer.cursor, p.params)
           /\ Passed(Owed(q, d.start), q.answer.more, q.answer.cursor) \subseteq IdsIn(q.answer.rows)

\* A patient reader has one request under way at most, and its page everything
\* that the walk has passed.
PatientOK(p, s, d) ==
    /\ Len(s) <= 1 /\ (p.loading <=> s # <<>>)
    /\ p.params = None => p = Cleared
    /\ Ids(p) \subseteq Own(p.params) /\ d.live \subseteq Ids(p)
    /\ MoreOK(p.more, p.cursor, p.params)
    /\ p.more => d.start # None
    /\ d.start # None => Passed(d.start, p.more, p.cursor) \subseteq Ids(p)
    /\ \A q \in Elements(s) : RequestOK(q, p, d)

PagesOK ==
    \A u \in Users : ShownStored(page[u], asked[u], due[u]) /\ MarksKept(asked[u])

PatientPagesOK ==
    patient => \A u \in Users : PatientOK(page[u], asked[u], due[u])

IInv == TypeOK /\ channel \subseteq Stored /\ PagesOK /\ PatientPagesOK

\* The two halves of TypeOK.
ServerTyped ==
    /\ stage \in [Messages -> Stages]
    /\ sender \in [Messages -> Users \cup {None}]
    /\ isRead \in [Messages -> BOOLEAN]
    /\ cache \in Seq([id : Messages, isRead : BOOLEAN])
    /\ channel \subseteq Messages

ClientTyped ==
    /\ page \in [Users -> Lists]
    /\ asked \in [Users -> Seq(Requests)]
    /\ due \in [Users -> Dues]

-----------------------------------------------------------------------------
(* Sets of ids.                                                             *)

LEMMA Assumed ==
  /\ MaxMessages \in Nat /\ Limit \in Nat \ {0} /\ CacheSize \in Nat \ {0}
  /\ Messages = 1..MaxMessages /\ Messages \subseteq Nat /\ 0 \notin Messages
  /\ None \notin Messages /\ None # 0 /\ None \notin Conversations
  /\ None \notin Answers /\ \A S \in SUBSET Messages : S # None
  BY MessagesAssumption DEF Messages

LEMMA LeastExists ==
  ASSUME NEW S \in SUBSET Nat, S # {}
  PROVE  \E m \in S : \A n \in S : m <= n
  <1>1. PICK m \in S : \A n \in S : ~(<<n, m>> \in OpToRel(<, Nat))
    BY NatLessThanWellFounded, WFMin
  <1>2. \A n \in S : ~(n < m)
    BY <1>1 DEF OpToRel
  <1>3. \A n \in S : m <= n
    BY <1>2
  <1>4. QED
    BY <1>3

LEMMA GreatestExists ==
  ASSUME NEW S \in SUBSET Messages, S # {}
  PROVE  \E m \in S : \A n \in S : n <= m
  <1> DEFINE T == {MaxMessages - m : m \in S}
  <1>1. MaxMessages \in Nat /\ \A m \in S : m \in 1..MaxMessages
    BY Assumed
  <1>2. T \in SUBSET Nat /\ T # {}
    BY <1>1
  <1> HIDE DEF T
  <1>3. PICK t \in T : \A x \in T : t <= x
    BY <1>2, LeastExists
  <1>4. PICK m \in S : t = MaxMessages - m
    BY DEF T
  <1>5. \A n \in S : MaxMessages - m <= MaxMessages - n
    BY <1>3, <1>4 DEF T
  <1>6. \A n \in S : n <= m
    BY <1>1, <1>5
  <1>7. QED
    BY <1>6

LEMMA LeastFacts ==
  ASSUME NEW S \in SUBSET Messages, S # {}
  PROVE  Least(S) \in S /\ \A n \in S : Least(S) <= n
  <1>1. S \in SUBSET Nat
    BY Assumed
  <1>2. QED
    BY <1>1, LeastExists DEF Least

LEMMA IdsFinite ==
  ASSUME NEW S \in SUBSET Messages
  PROVE  IsFiniteSet(S)
  <1>1. IsFiniteSet(Messages)
    BY Assumed, FS_Interval
  <1>2. QED
    BY <1>1, FS_Subset

\* The newest ids of a set are closed upwards in it.
LEMMA NewestFacts ==
  ASSUME NEW T \in SUBSET Messages, NEW k \in Nat \ {0}
  PROVE  /\ Newest(T, k) \subseteq T
         /\ \A m \in Newest(T, k), n \in T : n >= m => n \in Newest(T, k)
         /\ T # {} => Newest(T, k) # {}
  <1> DEFINE Above(m) == {n \in T : n > m}
  <1>1. T \subseteq Nat
    BY Assumed
  <1>2. Newest(T, k) = {m \in T : Cardinality(Above(m)) < k}
    BY DEF Newest
  <1>3. \A m \in T : IsFiniteSet(Above(m)) /\ Cardinality(Above(m)) \in Nat
    <2> SUFFICES ASSUME NEW m \in T PROVE IsFiniteSet(Above(m)) /\ Cardinality(Above(m)) \in Nat
      OBVIOUS
    <2>1. Above(m) \in SUBSET Messages
      OBVIOUS
    <2> HIDE DEF Above
    <2>2. QED
      BY <2>1, IdsFinite, FS_CardinalityType
  <1>4. ASSUME NEW m \in Newest(T, k), NEW n \in T, n >= m
        PROVE  n \in Newest(T, k)
    <2>1. m \in T /\ Cardinality(Above(m)) < k
      BY <1>2
    <2>2. \A x \in T : x > n => x > m
      BY <1>1, <1>4, <2>1
    <2>3. Above(n) \in SUBSET Above(m)
      BY <2>2
    <2>4. IsFiniteSet(Above(m)) /\ Cardinality(Above(m)) \in Nat /\ Cardinality(Above(n)) \in Nat
      BY <1>3, <2>1
    <2> HIDE DEF Above
    <2>5. Cardinality(Above(n)) <= Cardinality(Above(m))
      BY <2>3, <2>4, FS_Subset
    <2>6. Cardinality(Above(n)) < k
      BY <2>1, <2>4, <2>5
    <2>7. QED
      BY <1>2, <2>6
  <1>5. ASSUME T # {} PROVE Newest(T, k) # {}
    <2>1. PICK g \in T : \A n \in T : n <= g
      BY <1>5, GreatestExists
    <2>2. Above(g) = {}
      <3>1. \A n \in T : ~(n > g)
        BY <1>1, <2>1
      <3>2. QED
        BY <3>1
    <2> HIDE DEF Above
    <2>3. Cardinality(Above(g)) < k
      BY <2>2, FS_EmptySet
    <2>4. QED
      BY <1>2, <2>3
  <1>6. QED
    BY <1>2, <1>4, <1>5

\* A page leaves out no row of T down to its oldest one; and if the row more
\* that was asked for did not come, it leaves out none at all.
LEMMA PageCovers ==
  ASSUME NEW T \in SUBSET Messages, NEW R, NEW S,
         R = Newest(T, Limit + 1), S = Newest(R, Limit)
  PROVE  /\ S \subseteq T
         /\ R # S => S # {}
         /\ S # {} => \A m \in T : m >= Least(S) => m \in S
         /\ R = S => T \subseteq S
  <1>1. /\ Limit \in Nat \ {0} /\ Limit + 1 \in Nat \ {0} /\ T \subseteq Nat
    BY Assumed
  <1>2. /\ R \subseteq T /\ R \in SUBSET Messages
        /\ \A m \in R, n \in T : n >= m => n \in R
    BY <1>1, NewestFacts
  <1>3. /\ S \subseteq R
        /\ \A m \in S, n \in R : n >= m => n \in S
        /\ R # {} => S # {}
    BY <1>1, <1>2, NewestFacts
  <1>4. ASSUME S # {}, NEW m \in T, m >= Least(S)
        PROVE  m \in S
    <2>1. Least(S) \in S
      BY <1>2, <1>3, <1>4, LeastFacts
    <2>2. QED
      BY <1>2, <1>3, <1>4, <2>1
  <1>5. ASSUME R = S PROVE T \subseteq S
    <2> SUFFICES ASSUME T \ R # {} PROVE FALSE
      BY <1>5
    <2>1. T \ R \in SUBSET Messages
      OBVIOUS
    <2>2. PICK g \in T \ R : \A n \in T \ R : n <= g
      BY <2>1, GreatestExists
    <2> DEFINE U == {n \in T : n > g}
    <2>3. \A n \in U : n \in R /\ n > g
      BY <1>1, <2>2
    <2>4. ~(Cardinality(U) < Limit + 1)
      BY <2>2 DEF Newest
    <2>5. U \in SUBSET Messages
      OBVIOUS
    <2> HIDE DEF U
    <2>6. IsFiniteSet(U) /\ Cardinality(U) \in Nat
      BY <2>5, IdsFinite, FS_CardinalityType
    <2>7. U # {}
      BY <1>1, <2>4, FS_EmptySet
    <2>8. PICK l \in U : \A n \in U : l <= n
      BY <2>5, <2>7, LeastFacts
    <2> DEFINE V == {n \in R : n > l}
    <2>9. l \in R /\ Cardinality(V) < Limit
      BY <1>5, <2>3 DEF Newest
    <2>10. \A n \in U \ {l} : n \in V
      <3> SUFFICES ASSUME NEW n \in U \ {l} PROVE n \in R /\ n > l
        OBVIOUS
      <3>1. n \in R /\ n \in Nat /\ l \in Nat /\ l <= n /\ n # l
        BY <1>1, <1>2, <2>3, <2>8
      <3>2. QED
        BY <3>1
    <2>11. V \in SUBSET Messages
      BY <1>2
    <2> HIDE DEF V
    <2>12. IsFiniteSet(V) /\ Cardinality(V) \in Nat
      BY <2>11, IdsFinite, FS_CardinalityType
    <2>13. Cardinality(U \ {l}) = Cardinality(U) - 1
      BY <2>6, FS_RemoveElement
    <2>14. Cardinality(U \ {l}) <= Cardinality(V)
      BY <2>10, <2>12, FS_Subset
    <2>15. QED
      BY <1>1, <2>4, <2>6, <2>9, <2>12, <2>13, <2>14
  <1>6. QED
    BY <1>2, <1>3, <1>4, <1>5

-----------------------------------------------------------------------------
(* Sequences of rows.                                                       *)

LEMMA IdsOfElements ==
  ASSUME NEW s
  PROVE  IdsIn(s) = {row.id : row \in Elements(s)}
  BY DEF IdsIn, Elements

LEMMA ElementsTyped ==
  ASSUME NEW R, NEW s \in Seq(R)
  PROVE  Elements(s) \subseteq R
  BY DEF Elements

LEMMA RowsTyped ==
  ASSUME NEW s \in Seq(Rows)
  PROVE  /\ Elements(s) \subseteq Rows
         /\ IdsIn(s) \subseteq Messages \cup {0}
  <1>1. Elements(s) \subseteq Rows
    BY ElementsTyped
  <1>2. \A row \in Rows : row.id \in Messages \cup {0}
    BY DEF Rows
  <1>3. QED
    BY <1>1, <1>2, IdsOfElements

LEMMA ElementsOfPair ==
  ASSUME NEW R, NEW s \in Seq(R), NEW t \in Seq(R)
  PROVE  /\ s \o t \in Seq(R) /\ Len(s \o t) = Len(s) + Len(t)
         /\ Elements(s \o t) = Elements(s) \cup Elements(t)
  <1>1. s \o t \in Seq(R) /\ Len(s \o t) = Len(s) + Len(t) /\ Len(s) \in Nat /\ Len(t) \in Nat
    OBVIOUS
  <1>2. /\ \A i \in 1..Len(s) : i \in 1..Len(s \o t) /\ (s \o t)[i] = s[i]
        /\ \A i \in 1..Len(t) : i + Len(s) \in 1..Len(s \o t) /\ (s \o t)[i + Len(s)] = t[i]
        /\ \A i \in 1..Len(s \o t) : i \in 1..Len(s) \/ (i - Len(s) \in 1..Len(t) /\ (s \o t)[i] = t[i - Len(s)])
    BY <1>1
  <1>3. \A x \in Elements(s \o t) : x \in Elements(s) \cup Elements(t)
    <2> SUFFICES ASSUME NEW i \in 1..Len(s \o t)
                 PROVE  (s \o t)[i] \in Elements(s) \cup Elements(t)
      BY DEF Elements
    <2>1. CASE i \in 1..Len(s)
      BY <1>2, <2>1 DEF Elements
    <2>2. CASE i \notin 1..Len(s)
      <3>1. PICK j : j = i - Len(s)
        OBVIOUS
      <3>2. j \in 1..Len(t) /\ (s \o t)[i] = t[j]
        BY <1>2, <2>2, <3>1
      <3>3. QED
        BY <3>2 DEF Elements
    <2>3. QED
      BY <2>1, <2>2
  <1>4. \A x \in Elements(s) : x \in Elements(s \o t)
    BY <1>2 DEF Elements
  <1>5. ASSUME NEW i \in 1..Len(t) PROVE t[i] \in Elements(s \o t)
    <2>1. PICK j : j = i + Len(s)
      OBVIOUS
    <2>2. j \in 1..Len(s \o t) /\ (s \o t)[j] = t[i]
      BY <1>2, <2>1
    <2>3. QED
      BY <2>2 DEF Elements
  <1>6. \A x \in Elements(t) : x \in Elements(s \o t)
    BY <1>5 DEF Elements
  <1>7. QED
    BY <1>1, <1>3, <1>4, <1>6

LEMMA ElementsOfAppend ==
  ASSUME NEW R, NEW s \in Seq(R), NEW x \in R
  PROVE  /\ Append(s, x) \in Seq(R) /\ Len(Append(s, x)) = Len(s) + 1
         /\ Elements(Append(s, x)) = Elements(s) \cup {x}
         /\ Append(s, x) # <<>>
  <1>1. /\ Append(s, x) \in Seq(R) /\ Len(Append(s, x)) = Len(s) + 1
        /\ Len(s) \in Nat /\ 1..(Len(s) + 1) = 1..Len(s) \cup {Len(s) + 1}
    OBVIOUS
  <1>2. /\ \A i \in 1..Len(s) : Append(s, x)[i] = s[i]
        /\ Append(s, x)[Len(s) + 1] = x
    OBVIOUS
  <1>3. Elements(Append(s, x)) = Elements(s) \cup {x}
    BY <1>1, <1>2 DEF Elements
  <1>4. QED
    BY <1>1, <1>3

\* Sorting moves rows and loses none.
LEMMA SortedFacts ==
  ASSUME NEW s \in Seq(Rows)
  PROVE  /\ Sorted(s) \in Seq(Rows)
         /\ Elements(Sorted(s)) = Elements(s)
  <1> DEFINE n == Len(s)
             N == 1..n
             Before(i, j) == Newer(s[i], s[j]) \/ (s[i].id = s[j].id /\ i < j)
             Upto(j) == {i \in N : Before(i, j)}
             Place(j) == Cardinality(Upto(j)) + 1
             place == [j \in N |-> Place(j)]
             At(k) == CHOOSE j \in N : Place(j) = k
  <1>1. n \in Nat /\ DOMAIN s = N /\ IsFiniteSet(N) /\ Cardinality(N) = n
    <2>1. n \in Nat /\ DOMAIN s = N
      OBVIOUS
    <2>2. /\ IsFiniteSet(N)
          /\ Cardinality(N) = IF 1 > n THEN 0 ELSE n - 1 + 1
      BY <2>1, FS_Interval
    <2>3. QED
      BY <2>1, <2>2
  <1>2. \A j \in N : s[j] \in Rows /\ s[j].id \in Nat /\ j \in Nat
    <2>1. \A j \in N : s[j] \in Rows
      OBVIOUS
    <2>2. \A row \in Rows : row.id \in Nat
      BY Assumed DEF Rows
    <2>3. QED
      BY <2>1, <2>2
  <1>3. Sorted(s) = [k \in N |-> s[At(k)]]
    BY <1>1 DEF Sorted
  <1>4. \A i, j \in N : Before(i, j) \/ Before(j, i) \/ i = j
    BY <1>2 DEF Newer
  <1>5. \A i \in N : ~Before(i, i)
    BY <1>2 DEF Newer
  <1>6. \A i, j, k \in N : Before(i, j) /\ Before(j, k) => Before(i, k)
    BY <1>2 DEF Newer
  <1> HIDE DEF Before
  <1>7. ASSUME NEW j \in N
        PROVE  IsFiniteSet(Upto(j)) /\ Place(j) \in N
    <2>1. Upto(j) \in SUBSET (N \ {j})
      BY <1>5
    <2>2. IsFiniteSet(N \ {j}) /\ Cardinality(N \ {j}) = n - 1
      BY <1>1, FS_RemoveElement
    <2> HIDE DEF Upto
    <2>3. IsFiniteSet(Upto(j)) /\ Cardinality(Upto(j)) <= n - 1
      BY <2>1, <2>2, FS_Subset
    <2>4. Cardinality(Upto(j)) \in Nat
      BY <2>3, FS_CardinalityType
    <2>5. QED
      BY <1>1, <2>3, <2>4
  <1>8. ASSUME NEW i \in N, NEW j \in N, Before(i, j)
        PROVE  Place(i) # Place(j)
    <2>1. \A k \in Upto(i) : k \in Upto(j)
      BY <1>6, <1>8
    <2>2. i \in Upto(j) /\ i \notin Upto(i)
      BY <1>5, <1>8
    <2>3. IsFiniteSet(Upto(i)) /\ IsFiniteSet(Upto(j))
      BY <1>7
    <2> HIDE DEF Upto
    <2>4. Cardinality(Upto(i)) \in Nat /\ Cardinality(Upto(j)) \in Nat
      BY <2>3, FS_CardinalityType
    <2>5. Cardinality(Upto(i)) # Cardinality(Upto(j))
      BY <2>1, <2>2, <2>3, FS_Subset
    <2>6. QED
      BY <2>4, <2>5
  <1>9. \A j \in N : Place(j) \in N
    BY <1>7
  <1>10. \A i, j \in N : Place(i) = Place(j) => i = j
    BY <1>4, <1>8
  <1> HIDE DEF Place
  <1>11. place \in Injection(N, N)
    BY <1>9, <1>10 DEF Injection, IsInjective
  <1>12. place \in Surjection(N, N)
    BY <1>1, <1>11, FS_Injection
  <1>13. ASSUME NEW k \in N PROVE At(k) \in N /\ Place(At(k)) = k
    <2>1. PICK j \in N : place[j] = k
      BY <1>12 DEF Surjection
    <2>2. Place(j) = k
      BY <2>1
    <2>3. QED
      BY <2>2
  <1>14. \A j \in N : \E k \in N : At(k) = j
    <2> SUFFICES ASSUME NEW j \in N PROVE \E k \in N : At(k) = j
      OBVIOUS
    <2>1. Place(j) \in N
      BY <1>9
    <2>2. At(Place(j)) \in N /\ Place(At(Place(j))) = Place(j)
      BY <1>13, <2>1
    <2> HIDE DEF At
    <2>3. At(Place(j)) = j
      BY <1>10, <2>2
    <2>4. QED
      BY <2>1, <2>3
  <1>15. \A k \in N : At(k) \in N
    BY <1>13
  <1> HIDE DEF At
  <1> DEFINE t == [k \in N |-> s[At(k)]]
  <1>16. t \in [N -> Rows] /\ \A k \in N : t[k] = s[At(k)]
    BY <1>2, <1>15
  <1> HIDE DEF t
  <1>17. t \in Seq(Rows) /\ Len(t) = n
    BY <1>1, <1>16
  <1>18. \A x \in Elements(t) : x \in Elements(s)
    BY <1>15, <1>16, <1>17 DEF Elements
  <1>19. \A x \in Elements(s) : x \in Elements(t)
    <2> SUFFICES ASSUME NEW j \in N PROVE s[j] \in Elements(t)
      BY DEF Elements
    <2>1. PICK k \in N : At(k) = j
      BY <1>14
    <2>2. t[k] = s[j]
      BY <1>16, <2>1
    <2>3. QED
      BY <1>17, <2>2 DEF Elements
  <1>20. QED
    BY <1>3, <1>17, <1>18, <1>19 DEF t

\* SetToSeq lists every element of a finite set.
LEMMA ListsAll ==
  ASSUME NEW S, IsFiniteSet(S)
  PROVE  SetToSeq(S) \in Seq(S) /\ Elements(SetToSeq(S)) = S
  <1> DEFINE n == Cardinality(S)
             f == SetToSeq(S)
  <1>1. n \in Nat /\ ExistsBijection(1..n, S)
    BY FS_CardinalityType
  <1>2. \E g \in [1..n -> S] : IsInjective(g)
    BY <1>1 DEF ExistsBijection, Bijection, Injection
  <1>3. f \in [1..n -> S] /\ IsInjective(f)
    BY <1>2, Zenon DEF SetToSeq
  <1> HIDE DEF f
  <1>4. f \in Injection(1..n, S)
    BY <1>3 DEF Injection
  <1>5. IsFiniteSet(1..n) /\ Cardinality(1..n) = n
    BY <1>1, FS_Interval
  <1>6. f \in Surjection(1..n, S)
    BY <1>4, <1>5, FS_Injection
  <1>7. \A x \in S : \E i \in 1..n : f[i] = x
    BY <1>6 DEF Surjection
  <1>8. f \in Seq(S) /\ Len(f) = n
    BY <1>1, <1>3
  <1>9. QED
    BY <1>3, <1>7, <1>8 DEF f, Elements

LEMMA PageFacts ==
  ASSUME NEW S \in SUBSET Messages, NEW read, NEW more \in BOOLEAN
  PROVE  /\ PageOf(S, read, more) \in Answers
         /\ IdsIn(PageOf(S, read, more).rows) = S
         /\ \A row \in Elements(PageOf(S, read, more).rows) : row.id \in read => row.isRead
         /\ PageOf(S, read, more).more = more
         /\ PageOf(S, read, more).cursor = IF S = {} THEN None ELSE Least(S)
  <1> DEFINE f == [m \in S |-> [id |-> m, isRead |-> m \in read]]
             R == {f[m] : m \in S}
             c == IF S = {} THEN None ELSE Least(S)
             s == Sorted(SetToSeq(R))
  <1>1. R = {[id |-> m, isRead |-> m \in read] : m \in S}
    OBVIOUS
  <1>2. PageOf(S, read, more) = [rows |-> s, more |-> more, cursor |-> c]
    BY <1>1 DEF PageOf
  <1>3. ASSUME NEW m \in S
        PROVE  f[m] \in Rows /\ f[m].id = m /\ (m \in read => f[m].isRead)
    <2>1. CASE m \in read
      <3>1. f[m] = [id |-> m, isRead |-> TRUE]
        BY <2>1, Zenon
      <3> HIDE DEF f
      <3>2. f[m] \in Rows /\ f[m].id = m /\ f[m].isRead = TRUE
        BY <3>1, Assumed DEF Rows
      <3>3. QED
        BY <3>2, Zenon
    <2>2. CASE m \notin read
      <3>1. f[m] = [id |-> m, isRead |-> FALSE]
        <4>1. (m \in read) = FALSE
          BY <2>2
        <4>2. f[m] = [id |-> m, isRead |-> m \in read]
          BY Zenon
        <4>3. QED
          BY <4>1, <4>2, Zenon
      <3> HIDE DEF f
      <3>2. f[m] \in Rows /\ f[m].id = m /\ f[m].isRead = FALSE
        BY <3>1, Assumed DEF Rows
      <3>3. QED
        BY <2>2, <3>2, Zenon
    <2>3. QED
      BY <2>1, <2>2
  <1>4. IsFiniteSet(R)
    <2>1. f \in Surjection(S, R)
      BY DEF Surjection
    <2> HIDE DEF f, R
    <2>2. QED
      BY <2>1, IdsFinite, FS_Surjection
  <1>5. R \subseteq Rows /\ S = {row.id : row \in R} /\ \A row \in R : row.id \in read => row.isRead
    <2> HIDE DEF f
    <2>1. R \subseteq Rows /\ \A row \in R : row.id \in read => row.isRead
      BY <1>3, Zenon
    <2>2. S = {row.id : row \in R}
      BY <1>3
    <2>3. QED
      BY <2>1, <2>2
  <1> HIDE DEF f, R
  <1>6. SetToSeq(R) \in Seq(R) /\ Elements(SetToSeq(R)) = R
    BY <1>4, ListsAll
  <1>7. SetToSeq(R) \in Seq(Rows)
    BY <1>5, <1>6
  <1>8. s \in Seq(Rows) /\ Elements(s) = R
    BY <1>6, <1>7, SortedFacts
  <1>9. c \in Cursors
    BY LeastFacts DEF Cursors
  <1> HIDE DEF s, c
  <1> DEFINE a == [rows |-> s, more |-> more, cursor |-> c]
  <1>10. a \in Answers /\ a.rows = s /\ a.more = more /\ a.cursor = c
    BY <1>8, <1>9 DEF Answers
  <1>11. IdsIn(s) = S
    BY <1>5, <1>8, IdsOfElements
  <1> HIDE DEF a
  <1>12. /\ a \in Answers /\ IdsIn(a.rows) = S /\ a.more = more /\ a.cursor = c
         /\ \A row \in Elements(a.rows) : row.id \in read => row.isRead
    BY <1>5, <1>8, <1>10, <1>11
  <1>13. PageOf(S, read, more) = a
    BY <1>2 DEF a
  <1>14. QED
    BY <1>12, <1>13 DEF c

LEMMA StoredIds == Stored \in SUBSET Messages
  BY DEF Stored

\* The cast of getMessages has thrown whenever the cache had entries.
LEMMA CacheServesNothing ==
  ASSUME TypeOK
  PROVE  ~CacheServes
  <1> DEFINE C == [id : Messages, isRead : BOOLEAN]
             from == IF Len(cache) > Limit THEN Len(cache) - Limit + 1 ELSE 1
  <1>1. PICK s \in Seq(C) : s = cache
    BY DEF TypeOK
  <1> HIDE DEF C
  <1>2. PICK n \in Nat : n = Len(s)
    OBVIOUS
  <1>3. PICK a \in Int : a = from
    BY <1>1, <1>2, Assumed
  <1>4. a >= 1
    BY <1>1, <1>2, <1>3, Assumed
  <1>5. SubSeq(s, a, n) \in Seq(C)
    BY <1>2, <1>4
  <1>6. Cached = SubSeq(s, a, n)
    BY <1>1, <1>2, <1>3 DEF Cached
  <1>7. Cached # <<>> => 1 \in 1..Len(Cached)
    BY <1>5, <1>6
  <1>8. QED
    BY <1>7 DEF CacheServes, Cast

\* A page from the database: nothing but rows that are stored, their marks, and
\* every row down to its last one.
LEMMA GetMessagesFacts ==
  ASSUME TypeOK, NEW cursor \in Cursors
  PROVE  /\ GetMessages(cursor) \in Answers
         /\ IdsIn(GetMessages(cursor).rows) \subseteq Stored
         /\ \A row \in Elements(GetMessages(cursor).rows) : isRead[row.id] => row.isRead
         /\ GetMessages(cursor).more => GetMessages(cursor).cursor \in Messages
         /\ Passed({m \in Stored : cursor # None => m < cursor},
                   GetMessages(cursor).more, GetMessages(cursor).cursor)
               \subseteq IdsIn(GetMessages(cursor).rows)
  <1> DEFINE T == {m \in Stored : cursor # None => m < cursor}
             R == Newest(T, Limit + 1)
             S == Newest(R, Limit)
             read == {m \in S : isRead[m]}
             more == R # S
             a == PageOf(S, read, more)
  <1>1. GetMessages(cursor) = a
    BY CacheServesNothing, Zenon DEF GetMessages, DbPage, Fetch
  <1>2. T \in SUBSET Messages /\ T \subseteq Stored
    BY StoredIds
  <1> HIDE DEF T
  <1>3. /\ S \subseteq T
        /\ R # S => S # {}
        /\ S # {} => \A m \in T : m >= Least(S) => m \in S
        /\ R = S => T \subseteq S
    BY <1>2, PageCovers
  <1> HIDE DEF R, S
  <1>4. S \in SUBSET Messages /\ more \in BOOLEAN
    BY <1>2, <1>3
  <1>5. /\ a \in Answers /\ IdsIn(a.rows) = S /\ a.more = more
        /\ \A row \in Elements(a.rows) : row.id \in read => row.isRead
        /\ a.cursor = IF S = {} THEN None ELSE Least(S)
    <2> HIDE DEF read, more
    <2>1. QED
      BY <1>4, PageFacts
  <1> HIDE DEF a
  <1>6. \A row \in Elements(a.rows) : isRead[row.id] => row.isRead
    <2>1. \A row \in Elements(a.rows) : row.id \in S
      BY <1>5, IdsOfElements
    <2>2. QED
      BY <1>5, <2>1, Zenon
  <1>7. a.more => a.cursor \in Messages /\ a.cursor = Least(S) /\ S # {}
    <2>1. S # {} => Least(S) \in S
      BY <1>4, LeastFacts
    <2>2. QED
      BY <1>3, <1>4, <1>5, <2>1
  <1>8. Passed(T, a.more, a.cursor) \subseteq IdsIn(a.rows)
    BY <1>3, <1>5, <1>7 DEF Passed
  <1>9. QED
    BY <1>1, <1>2, <1>3, <1>5, <1>6, <1>7, <1>8 DEF T

-----------------------------------------------------------------------------
(* The store of a page, and its requests under way.                         *)

LEMMA ListTyped ==
  ASSUME NEW l \in Lists
  PROVE  /\ l.data \in Seq(Rows) /\ l.more \in BOOLEAN /\ l.cursor \in Cursors
         /\ l.loading \in BOOLEAN /\ l.params \in Conversations \cup {None}
         /\ Ids(l) = IdsIn(l.data)
  BY DEF Lists, Ids, IdsIn

LEMMA NoIds == IdsIn(<<>>) = {} /\ Elements(<<>>) = {}
  BY DEF IdsIn, Elements

LEMMA ClearedFacts ==
  /\ Cleared \in Lists /\ Ids(Cleared) = {}
  /\ Cleared.params = None /\ Cleared.more = FALSE /\ Cleared.loading = FALSE
  /\ Cleared.cursor = None
  <1>1. /\ Cleared \in Lists /\ Cleared.data = <<>> /\ Cleared.params = None
        /\ Cleared.more = FALSE /\ Cleared.loading = FALSE /\ Cleared.cursor = None
    BY DEF Cleared, Lists, Cursors
  <1>2. QED
    BY <1>1, ListTyped, NoIds

LEMMA RelayedFacts ==
  ASSUME NEW l \in Lists, NEW m \in Messages
  PROVE  /\ WithRelayed(l, m) \in Lists /\ Ids(WithRelayed(l, m)) = Ids(l) \cup {m}
         /\ WithRelayed(l, m).more = l.more /\ WithRelayed(l, m).cursor = l.cursor
         /\ WithRelayed(l, m).loading = l.loading /\ WithRelayed(l, m).params = l.params
  <1> DEFINE row == [id |-> m, isRead |-> FALSE]
             data == Sorted(Append(l.data, row))
             k == [l EXCEPT !.data = data]
  <1>1. WithRelayed(l, m) = IF row.id \in Ids(l) THEN l ELSE k
    BY DEF WithRelayed, Add
  <1>2. row \in Rows /\ row.id = m
    BY DEF Rows
  <1>3. l.data \in Seq(Rows)
    BY ListTyped
  <1> HIDE DEF row
  <1>4. Append(l.data, row) \in Seq(Rows) /\ Elements(Append(l.data, row)) = Elements(l.data) \cup {row}
    BY <1>2, <1>3, ElementsOfAppend
  <1>5. data \in Seq(Rows) /\ Elements(data) = Elements(l.data) \cup {row}
    BY <1>4, SortedFacts
  <1> HIDE DEF data
  <1>6. IdsIn(data) = IdsIn(l.data) \cup {m}
    BY <1>2, <1>5, IdsOfElements
  <1>7. /\ k \in Lists /\ k.data = data /\ k.more = l.more /\ k.cursor = l.cursor
        /\ k.loading = l.loading /\ k.params = l.params
    BY <1>5 DEF Lists
  <1> HIDE DEF k
  <1>8. Ids(k) = Ids(l) \cup {m}
    BY <1>6, <1>7, ListTyped
  <1>9. CASE m \in Ids(l)
    BY <1>1, <1>2, <1>9
  <1>10. CASE m \notin Ids(l)
    BY <1>1, <1>2, <1>7, <1>8, <1>10
  <1>11. QED
    BY <1>9, <1>10

LEMMA FetchingFacts ==
  ASSUME NEW l \in Lists, NEW c \in Conversations
  PROVE  /\ Fetching(l, c) \in Lists /\ Fetching(l, c).params = c
         /\ Ids(Fetching(l, c)) \subseteq Ids(l)
         /\ Fetching(l, c).more = l.more /\ Fetching(l, c).cursor = l.cursor
         /\ Fetching(l, c).loading = TRUE
  <1> DEFINE k == Fetching(l, c)
  <1>1. /\ k \in Lists /\ k.params = c /\ (k.data = l.data \/ k.data = <<>>)
        /\ k.more = l.more /\ k.cursor = l.cursor /\ k.loading = TRUE
    <2>1. CASE l.loading
      <3>1. k = [l EXCEPT !.params = c] /\ l.loading = TRUE
        BY <2>1, ListTyped DEF Fetching
      <3>2. QED
        BY <3>1 DEF Lists
    <2>2. CASE ~l.loading
      <3>1. k = [l EXCEPT !.params = c, !.data = <<>>, !.loading = TRUE]
        BY <2>2 DEF Fetching
      <3>2. <<>> \in Seq(Rows)
        OBVIOUS
      <3>3. QED
        BY <3>1, <3>2 DEF Lists
    <2>3. QED
      BY <2>1, <2>2
  <1> HIDE DEF k
  <1>2. Ids(k) \subseteq Ids(l)
    BY <1>1, ListTyped, NoIds
  <1>3. QED
    BY <1>1, <1>2 DEF k

LEMMA FailedFacts ==
  ASSUME NEW l \in Lists
  PROVE  /\ Failed(l) \in Lists /\ Ids(Failed(l)) = Ids(l) /\ Failed(l).params = l.params
         /\ Failed(l).more = l.more /\ Failed(l).cursor = l.cursor /\ Failed(l).loading = FALSE
  <1> DEFINE k == Failed(l)
  <1>1. /\ k \in Lists /\ k.data = l.data /\ k.params = l.params
        /\ k.more = l.more /\ k.cursor = l.cursor /\ k.loading = FALSE
    BY DEF Failed, Lists
  <1> HIDE DEF k
  <1>2. Ids(k) = Ids(l)
    BY <1>1, ListTyped
  <1>3. QED
    BY <1>1, <1>2 DEF k

LEMMA RequestTyped ==
  ASSUME NEW q \in Requests
  PROVE  /\ q.params \in Conversations /\ q.base \in Seq(Rows) /\ q.cursor \in Cursors
         /\ q.start \in SUBSET Messages /\ q.read \in SUBSET Messages
         /\ q.answer # None => q.answer \in Answers
  BY DEF Requests

LEMMA AnswerTyped ==
  ASSUME NEW a \in Answers
  PROVE  a.rows \in Seq(Rows) /\ a.more \in BOOLEAN /\ a.cursor \in Cursors
  BY DEF Answers

LEMMA AnsweredFacts ==
  ASSUME NEW l \in Lists, NEW q \in Requests, NEW a \in Answers
  PROVE  /\ Answered(l, q, a) \in Lists
         /\ Ids(Answered(l, q, a)) = IdsIn(q.base) \cup IdsIn(a.rows)
         /\ Answered(l, q, a).params = l.params /\ Answered(l, q, a).loading = FALSE
         /\ Answered(l, q, a).more = a.more /\ Answered(l, q, a).cursor = a.cursor
  <1> DEFINE k == Answered(l, q, a)
             data == q.base \o a.rows
  <1>1. data \in Seq(Rows) /\ Elements(data) = Elements(q.base) \cup Elements(a.rows)
    BY RequestTyped, AnswerTyped, ElementsOfPair
  <1>2. k = [l EXCEPT !.data = data, !.more = a.more, !.cursor = a.cursor, !.loading = FALSE]
    BY DEF Answered
  <1> HIDE DEF data
  <1>3. /\ k \in Lists /\ k.data = data /\ k.params = l.params
        /\ k.more = a.more /\ k.cursor = a.cursor /\ k.loading = FALSE
    BY <1>1, <1>2, AnswerTyped DEF Lists
  <1>4. IdsIn(data) = IdsIn(q.base) \cup IdsIn(a.rows)
    BY <1>1, IdsOfElements
  <1> HIDE DEF k
  <1>5. Ids(k) = IdsIn(data)
    BY <1>3, ListTyped
  <1>6. QED
    BY <1>3, <1>4, <1>5 DEF k

LEMMA ReplacedFacts ==
  ASSUME NEW R, NEW s \in Seq(R), NEW i \in 1..Len(s), NEW x \in R
  PROVE  /\ [s EXCEPT ![i] = x] \in Seq(R) /\ Len([s EXCEPT ![i] = x]) = Len(s)
         /\ Elements([s EXCEPT ![i] = x]) \subseteq Elements(s) \cup {x}
         /\ [s EXCEPT ![i] = x] = <<>> <=> s = <<>>
  <1> DEFINE t == [s EXCEPT ![i] = x]
  <1>1. t \in Seq(R) /\ Len(t) = Len(s)
    OBVIOUS
  <1>2. \A j \in 1..Len(s) : t[j] = s[j] \/ t[j] = x
    OBVIOUS
  <1>3. s # <<>> /\ Len(s) # 0
    OBVIOUS
  <1> HIDE DEF t
  <1>4. Elements(t) \subseteq Elements(s) \cup {x}
    BY <1>1, <1>2 DEF Elements
  <1>5. t # <<>>
    BY <1>1, <1>3
  <1>6. QED
    BY <1>1, <1>3, <1>4, <1>5 DEF t

LEMMA SingleFacts ==
  ASSUME NEW R, NEW q \in R
  PROVE  /\ Len(Append(<<>>, q)) = 1 /\ Append(<<>>, q) # <<>>
         /\ Elements(Append(<<>>, q)) = {q}
  <1>1. <<>> \in Seq(R) /\ Len(<<>>) = 0
    OBVIOUS
  <1>2. PICK s \in Seq(R) : s = <<>>
    BY <1>1, Zenon
  <1>3. /\ Append(s, q) \in Seq(R) /\ Len(Append(s, q)) = Len(s) + 1
        /\ Elements(Append(s, q)) = Elements(s) \cup {q} /\ Append(s, q) # <<>>
    BY ElementsOfAppend
  <1>4. QED
    BY <1>1, <1>2, <1>3, NoIds

LEMMA RemovedFacts ==
  ASSUME NEW R, NEW s \in Seq(R), NEW i \in 1..Len(s)
  PROVE  /\ RemoveAt(s, i) \in Seq(R) /\ Len(RemoveAt(s, i)) = Len(s) - 1
         /\ Elements(RemoveAt(s, i)) \subseteq Elements(s)
  <1> DEFINE a == SubSeq(s, 1, i - 1)
             b == SubSeq(s, i + 1, Len(s))
  <1>1. Len(s) \in Nat /\ i \in Nat /\ 1 <= i /\ i <= Len(s)
    OBVIOUS
  <1>2. a \in Seq(R) /\ Len(a) = i - 1 /\ \A j \in 1..(i - 1) : a[j] = s[j]
    BY <1>1
  <1>3. b \in Seq(R) /\ Len(b) = Len(s) - i /\ \A j \in 1..(Len(s) - i) : b[j] = s[i + j]
    BY <1>1
  <1>4. RemoveAt(s, i) = a \o b
    BY DEF RemoveAt
  <1> HIDE DEF a, b
  <1>5. a \o b \in Seq(R) /\ Elements(a \o b) = Elements(a) \cup Elements(b)
    BY <1>2, <1>3, ElementsOfPair
  <1>6. Len(a \o b) = Len(a) + Len(b)
    BY <1>2, <1>3, ElementsOfPair
  <1>7. Elements(a) \subseteq Elements(s)
    <2>1. \A j \in 1..(i - 1) : j \in 1..Len(s)
      BY <1>1
    <2>2. QED
      BY <1>2, <2>1 DEF Elements
  <1>8. Elements(b) \subseteq Elements(s)
    <2>1. \A j \in 1..(Len(s) - i) : i + j \in 1..Len(s)
      BY <1>1
    <2>2. QED
      BY <1>3, <2>1 DEF Elements
  <1>9. QED
    BY <1>1, <1>2, <1>3, <1>4, <1>5, <1>6, <1>7, <1>8

-----------------------------------------------------------------------------
(* The steps of the server.                                                 *)

LEMMA TypeSplit == TypeOK <=> ServerTyped /\ ClientTyped /\ patient \in Patience
  BY DEF TypeOK, ServerTyped, ClientTyped

LEMMA UserTyped ==
  ASSUME TypeOK, NEW u \in Users
  PROVE  page[u] \in Lists /\ asked[u] \in Seq(Requests) /\ due[u] \in Dues
  BY DEF TypeOK

\* What is stored and what is read only grows, and so the pages are all right as
\* long as nothing happens to them.
LEMMA ServerKeeps ==
  ASSUME IInv, UNCHANGED <<client, patient>>, ServerTyped',
         Stored \subseteq Stored', \A m \in Messages : isRead[m] => isRead'[m],
         channel' \subseteq Stored'
  PROVE  IInv'
  <1>1. /\ TypeOK /\ page' = page /\ asked' = asked /\ due' = due /\ patient' = patient
        /\ PagesOK /\ PatientPagesOK
    BY DEF IInv, client
  <1>2. TypeOK'
    BY <1>1, TypeSplit DEF TypeOK, ServerTyped
  <1>3. ASSUME NEW u \in Users
        PROVE  ShownStored(page[u], asked[u], due[u])' /\ MarksKept(asked[u])'
    <2>1. ShownStored(page[u], asked[u], due[u]) /\ MarksKept(asked[u])
      BY <1>1 DEF PagesOK
    <2>2. ShownStored(page[u], asked[u], due[u])'
      BY <1>1, <2>1 DEF ShownStored
    <2>3. \A q \in Elements(asked[u]) : q.read \subseteq Messages
      BY <1>1, UserTyped, ElementsTyped, RequestTyped
    <2>4. MarksKept(asked[u])'
      BY <1>1, <2>1, <2>3 DEF MarksKept
    <2>5. QED
      BY <2>2, <2>4
  <1>4. PagesOK'
    BY <1>1, <1>3 DEF PagesOK
  <1>5. PatientPagesOK'
    BY <1>1 DEF PatientPagesOK
  <1>6. QED
    BY <1>2, <1>4, <1>5 DEF IInv

\* A step of a message's request: only a commit adds to what is stored.
LEMMA MovesFacts ==
  ASSUME ServerTyped, NEW m \in Messages, NEW from \in Stages, NEW to \in Stages,
         Moves(m, from, to), from # "committed"
  PROVE  /\ stage' \in [Messages -> Stages] /\ Stored \subseteq Stored'
         /\ to = "committed" => m \in Stored'
  BY DEF ServerTyped, Moves, Stored

LEMMA SendKeeps ==
  ASSUME IInv, NEW m \in Messages, Send(m)
  PROVE  IInv'
  <1> DEFINE C == [id : Messages, isRead : BOOLEAN]
  <1>1. ServerTyped /\ channel \subseteq Stored /\ TypeOK
    BY TypeSplit DEF IInv
  <1>2. CASE \E u \in Users : Insert(m, u)
    <2>1. PICK u \in Users : Insert(m, u)
      BY <1>2
    <2>2. stage' \in [Messages -> Stages] /\ Stored \subseteq Stored'
      BY <1>1, <2>1, MovesFacts DEF Insert, Stages
    <2>3. ServerTyped'
      BY <1>1, <2>1, <2>2 DEF ServerTyped, Insert
    <2>4. QED
      BY <1>1, <2>1, <2>2, <2>3, ServerKeeps DEF Insert
  <1>3. CASE AddToCache(m)
    <2>1. stage' \in [Messages -> Stages] /\ Stored \subseteq Stored'
      BY <1>1, <1>3, MovesFacts DEF AddToCache, Stages
    <2>2. [id |-> m, isRead |-> FALSE] \in C
      OBVIOUS
    <2>3. cache \in Seq(C) /\ cache' = Append(cache, [id |-> m, isRead |-> FALSE])
      BY <1>1, <1>3 DEF ServerTyped, AddToCache
    <2>4. PICK row \in C : row = [id |-> m, isRead |-> FALSE]
      BY <2>2
    <2>5. cache' \in Seq(C)
      <3> HIDE DEF C
      <3>1. QED
        BY <2>3, <2>4, ElementsOfAppend
    <2>6. ServerTyped'
      BY <1>1, <1>3, <2>1, <2>5 DEF ServerTyped, AddToCache
    <2>7. QED
      BY <1>1, <1>3, <2>1, <2>6, ServerKeeps DEF AddToCache
  <1>4. CASE Trim(m)
    <2>1. stage' \in [Messages -> Stages] /\ Stored \subseteq Stored'
      BY <1>1, <1>4, MovesFacts DEF Trim, Stages
    <2>2. PICK s \in Seq(C) : s = cache
      BY <1>1 DEF ServerTyped
    <2>3. cache' = IF Len(s) > CacheSize
                   THEN SubSeq(s, Len(s) - CacheSize + 1, Len(s)) ELSE s
      BY <1>4, <2>2 DEF Trim
    <2>4. cache' \in Seq(C)
      <3> HIDE DEF C
      <3>1. CASE Len(s) > CacheSize
        <4>1. PICK n \in Nat : n = Len(s)
          OBVIOUS
        <4>2. PICK k \in Nat : k = CacheSize
          BY Assumed
        <4>3. n > k
          BY <3>1, <4>1, <4>2
        <4>4. SubSeq(s, n - k + 1, n) \in Seq(C)
          BY <4>1, <4>3
        <4>5. QED
          BY <2>3, <3>1, <4>1, <4>2, <4>4
      <3>2. CASE ~(Len(s) > CacheSize)
        BY <2>3, <3>2
      <3>3. QED
        BY <3>1, <3>2
    <2>5. ServerTyped'
      BY <1>1, <1>4, <2>1, <2>4 DEF ServerTyped, Trim
    <2>6. QED
      BY <1>1, <1>4, <2>1, <2>5, ServerKeeps DEF Trim
  <1>5. CASE Commit(m)
    <2>1. /\ stage' \in [Messages -> Stages] /\ Stored \subseteq Stored'
          /\ m \in Stored'
      BY <1>1, <1>5, MovesFacts DEF Commit, Stages
    <2>2. ServerTyped'
      BY <1>1, <1>5, <2>1 DEF ServerTyped, Commit
    <2>3. channel' \subseteq Stored'
      BY <1>1, <1>5, <2>1 DEF Commit
    <2>4. QED
      BY <1>1, <1>5, <2>1, <2>2, <2>3, ServerKeeps DEF Commit
  <1>6. CASE Rollback(m)
    <2>1. stage' \in [Messages -> Stages] /\ Stored \subseteq Stored'
      BY <1>1, <1>6 DEF ServerTyped, Rollback, Stages, Stored
    <2>2. ServerTyped'
      BY <1>1, <1>6, <2>1 DEF ServerTyped, Rollback
    <2>3. QED
      BY <1>1, <1>6, <2>1, <2>2, ServerKeeps DEF Rollback
  <1>7. QED
    BY <1>2, <1>3, <1>4, <1>5, <1>6 DEF Send

LEMMA LoseKeeps ==
  ASSUME IInv, NEW m \in Messages, Lose(m)
  PROVE  IInv'
  <1>1. ServerTyped /\ channel \subseteq Stored /\ Stored' = Stored
    BY TypeSplit DEF IInv, Lose, Stored
  <1>2. ServerTyped' /\ channel' \subseteq Stored'
    BY <1>1 DEF ServerTyped, Lose
  <1>3. QED
    BY <1>1, <1>2, ServerKeeps DEF Lose

LEMMA MarkAllAsReadKeeps ==
  ASSUME IInv, NEW u \in Users, MarkAllAsRead(u)
  PROVE  IInv'
  <1>1. ServerTyped /\ channel \subseteq Stored /\ Stored' = Stored
    BY TypeSplit DEF IInv, MarkAllAsRead, Stored
  <1>2. \A m \in Messages : isRead'[m] = (isRead[m] \/ (m \in Stored /\ sender[m] # u))
    BY DEF MarkAllAsRead
  <1>3. \A m \in Messages : isRead'[m] \in BOOLEAN
    BY <1>2
  <1>4. isRead' \in [Messages -> BOOLEAN]
    BY <1>3 DEF MarkAllAsRead
  <1>5. ServerTyped' /\ channel' \subseteq Stored'
    BY <1>1, <1>4 DEF ServerTyped, MarkAllAsRead
  <1>6. \A m \in Messages : isRead[m] => isRead'[m]
    BY <1>2
  <1>7. QED
    BY <1>1, <1>5, <1>6, ServerKeeps DEF MarkAllAsRead

-----------------------------------------------------------------------------
(* The steps of a page.                                                     *)

\* What is left to show when one page, its requests and its dues become p, s
\* and d.
LEMMA PageKeeps ==
  ASSUME IInv, UNCHANGED <<server, patient>>, NEW u \in Users,
         NEW p \in Lists, NEW s \in Seq(Requests), NEW d \in Dues,
         page' = [page EXCEPT ![u] = p], asked' = [asked EXCEPT ![u] = s],
         due' = [due EXCEPT ![u] = d],
         ShownStored(p, s, d), MarksKept(s), patient => PatientOK(p, s, d)
  PROVE  IInv'
  <1>1. TypeOK /\ channel \subseteq Stored /\ PagesOK /\ PatientPagesOK
    BY DEF IInv
  <1>2. /\ page' \in [Users -> Lists] /\ page'[u] = p
        /\ asked' \in [Users -> Seq(Requests)] /\ asked'[u] = s
        /\ due' \in [Users -> Dues] /\ due'[u] = d
        /\ \A v \in Users \ {u} : page'[v] = page[v] /\ asked'[v] = asked[v] /\ due'[v] = due[v]
    BY <1>1 DEF TypeOK
  <1>3. TypeOK'
    BY <1>1, <1>2 DEF TypeOK, server
  <1>4. Stored' = Stored /\ channel' = channel /\ isRead' = isRead /\ patient' = patient
    BY DEF Stored, server
  <1>5. ASSUME NEW v \in Users
        PROVE  /\ ShownStored(page[v], asked[v], due[v])' /\ MarksKept(asked[v])'
               /\ patient => PatientOK(page[v], asked[v], due[v])'
    <2>1. PICK x, y, z : /\ x = page'[v] /\ y = asked'[v] /\ z = due'[v]
      OBVIOUS
    <2>2. /\ ShownStored(x, y, z) /\ MarksKept(y)
          /\ patient => PatientOK(x, y, z)
      <3>1. CASE v = u
        BY <1>2, <2>1, <3>1
      <3>2. CASE v # u
        BY <1>1, <1>2, <2>1, <3>2 DEF PagesOK, PatientPagesOK
      <3>3. QED
        BY <3>1, <3>2
    <2>3. ShownStored(page[v], asked[v], due[v])'
      BY <1>4, <2>1, <2>2 DEF ShownStored
    <2>4. MarksKept(asked[v])'
      BY <1>4, <2>1, <2>2 DEF MarksKept
    <2>5. patient => PatientOK(page[v], asked[v], due[v])'
      BY <2>1, <2>2 DEF PatientOK
    <2>6. QED
      BY <2>3, <2>4, <2>5
  <1>6. PagesOK' /\ PatientPagesOK'
    BY <1>4, <1>5 DEF PagesOK, PatientPagesOK
  <1>7. QED
    BY <1>1, <1>3, <1>4, <1>6 DEF IInv

\* What the invariant says of one participant.
LEMMA PageOK ==
  ASSUME IInv, NEW u \in Users
  PROVE  /\ page[u] \in Lists /\ asked[u] \in Seq(Requests) /\ due[u] \in Dues
         /\ ShownStored(page[u], asked[u], due[u]) /\ MarksKept(asked[u])
         /\ patient => PatientOK(page[u], asked[u], due[u])
  BY UserTyped DEF IInv, PagesOK, PatientPagesOK

LEMMA NothingDueFacts ==
  NothingDue \in Dues /\ NothingDue.start = None /\ NothingDue.live = {}
  BY DEF NothingDue, Dues

LEMMA DueTyped ==
  ASSUME NEW d \in Dues
  PROVE  d.start \in {None} \cup SUBSET Messages /\ d.live \in SUBSET Messages
  BY DEF Dues

\* A request that is not answered yet, of a page of conversation c.
NewRequest(c, base, cursor) ==
    [params |-> c, base |-> base, cursor |-> cursor, answer |-> None, start |-> {},
     read |-> {m \in Messages : isRead[m]}]

LEMMA NewRequestFacts ==
  ASSUME NEW c \in Conversations, NEW base \in Seq(Rows), NEW cursor \in Cursors,
         NEW q, q = NewRequest(c, base, cursor)
  PROVE  /\ q \in Requests /\ q.params = c /\ q.base = base /\ q.cursor = cursor
         /\ q.answer = None /\ q.start = {} /\ \A m \in q.read : isRead[m]
  <1> DEFINE read == {m \in Messages : isRead[m]}
  <1>1. read \in SUBSET Messages /\ \A m \in read : isRead[m]
    OBVIOUS
  <1>2. q = [params |-> c, base |-> base, cursor |-> cursor, answer |-> None,
             start |-> {}, read |-> read]
    BY DEF NewRequest
  <1> HIDE DEF read
  <1>3. QED
    BY <1>1, <1>2 DEF Requests

LEMMA AskFacts ==
  ASSUME NEW u, NEW r, Ask(u, r)
  PROVE  asked' = [asked EXCEPT ![u] =
                      Append(asked[u], NewRequest(r.params, r.base, r.cursor))]
  BY DEF Ask, NewRequest

\* A request is asked: nothing of it is shown yet.
LEMMA AskedKeeps ==
  ASSUME IInv, NEW u \in Users, NEW p, NEW d, NEW q \in Requests,
         Ids(p) \subseteq Stored \cup {0}, d.start # None => d.start \subseteq Stored,
         IdsIn(q.base) \subseteq Stored \cup {0}, q.answer = None, q.start = {},
         \A m \in q.read : isRead[m]
  PROVE  /\ Append(asked[u], q) \in Seq(Requests)
         /\ ShownStored(p, Append(asked[u], q), d)
         /\ MarksKept(Append(asked[u], q))
  <1>1. PICK a, s : a = asked[u] /\ s = Append(a, q)
    OBVIOUS
  <1>2. a \in Seq(Requests) /\ MarksKept(a) /\ ShownStored(page[u], a, due[u])
    BY <1>1, PageOK
  <1>3. s \in Seq(Requests) /\ Elements(s) = Elements(a) \cup {q}
    BY <1>1, <1>2, ElementsOfAppend
  <1>4. MarksKept(s)
    BY <1>2, <1>3 DEF MarksKept
  <1>5. ShownStored(p, s, d)
    BY <1>2, <1>3 DEF ShownStored
  <1>6. QED
    BY <1>1, <1>3, <1>4, <1>5

LEMMA OpenKeeps ==
  ASSUME IInv, NEW u \in Users, NEW c \in Conversations, Open(u, c)
  PROVE  IInv'
  <1>1. PICK k, a : k = page[u] /\ a = asked[u]
    OBVIOUS
  <1> DEFINE l == IF k.params = None THEN k ELSE Cleared
             p == Fetching(l, c)
             q == NewRequest(c, <<>>, None)
             s == Append(a, q)
             d == NothingDue
  <1>2. /\ page' = [page EXCEPT ![u] = p] /\ due' = [due EXCEPT ![u] = d]
        /\ Ask(u, FetchRequest(page'[u])) /\ UNCHANGED <<server, patient>>
        /\ patient => a = <<>>
    BY <1>1 DEF Open, MayLeave
  <1>3. /\ k \in Lists /\ a \in Seq(Requests) /\ ShownStored(k, a, due[u])
        /\ patient => PatientOK(k, a, due[u])
    BY <1>1, PageOK
  <1>4. l \in Lists /\ Ids(l) \subseteq Stored \cup {0} /\ (patient => l = Cleared)
    BY <1>3, ClearedFacts DEF ShownStored, PatientOK
  <1> HIDE DEF l
  <1>5. /\ p \in Lists /\ p.params = c /\ Ids(p) \subseteq Ids(l) /\ p.loading = TRUE
        /\ p.more = l.more /\ p.cursor = l.cursor
    BY <1>4, FetchingFacts
  <1> HIDE DEF p
  <1>6. page'[u] = p
    BY <1>2, UserTyped DEF IInv, TypeOK
  <1>7. FetchRequest(p) = [params |-> c, base |-> <<>>, cursor |-> None]
    BY <1>5 DEF FetchRequest
  <1>8. asked' = [asked EXCEPT ![u] = s]
    <2>1. PICK r : r = FetchRequest(page'[u])
      OBVIOUS
    <2>2. r.params = c /\ r.base = <<>> /\ r.cursor = None /\ Ask(u, r)
      BY <1>2, <1>6, <1>7, <2>1
    <2>3. QED
      BY <1>1, <2>2, AskFacts
  <1>9. /\ <<>> \in Seq(Rows) /\ IdsIn(<<>>) = {} /\ None \in Cursors
        /\ d \in Dues /\ d.start = None /\ d.live = {}
    BY NoIds, NothingDueFacts DEF Cursors
  <1> HIDE DEF d
  <1>10. /\ q \in Requests /\ q.params = c /\ q.base = <<>> /\ q.cursor = None
         /\ q.answer = None /\ q.start = {} /\ \A m \in q.read : isRead[m]
    <2>1. PICK base \in Seq(Rows), cursor \in Cursors : base = <<>> /\ cursor = None
      BY <1>9, Zenon
    <2>2. q = NewRequest(c, base, cursor)
      BY <2>1
    <2> HIDE DEF q
    <2>3. /\ q \in Requests /\ q.params = c /\ q.base = base /\ q.cursor = cursor
          /\ q.answer = None /\ q.start = {} /\ \A m \in q.read : isRead[m]
      BY <2>2, NewRequestFacts
    <2>4. QED
      BY <2>1, <2>3
  <1> HIDE DEF q
  <1>11. s \in Seq(Requests) /\ ShownStored(p, s, d) /\ MarksKept(s)
    <2>1. /\ Ids(p) \subseteq Stored \cup {0} /\ IdsIn(q.base) \subseteq Stored \cup {0}
          /\ d.start # None => d.start \subseteq Stored
      BY <1>4, <1>5, <1>9, <1>10
    <2>2. /\ Append(asked[u], q) \in Seq(Requests)
          /\ ShownStored(p, Append(asked[u], q), d) /\ MarksKept(Append(asked[u], q))
      BY <1>10, <2>1, AskedKeeps
    <2>3. QED
      BY <1>1, <2>2
  <1>12. ASSUME patient PROVE PatientOK(p, s, d)
    <2>1. a = <<>> /\ l = Cleared
      BY <1>2, <1>4, <1>12
    <2>2. Ids(p) = {} /\ p.more = FALSE /\ c # None
      BY <1>5, <2>1, ClearedFacts, Assumed
    <2>3. Len(s) = 1 /\ s # <<>> /\ Elements(s) = {q}
      BY <1>10, <2>1, SingleFacts
    <2>4. RequestOK(q, p, d)
      BY <1>5, <1>9, <1>10 DEF RequestOK, MoreOK
    <2> HIDE DEF s
    <2>5. QED
      BY <1>5, <1>9, <2>2, <2>3, <2>4 DEF PatientOK, MoreOK
  <1> HIDE DEF s
  <1>13. QED
    BY <1>2, <1>5, <1>8, <1>9, <1>11, <1>12, PageKeeps

LEMMA LeaveKeeps ==
  ASSUME IInv, NEW u \in Users, Leave(u)
  PROVE  IInv'
  <1>1. PICK a : a = asked[u]
    OBVIOUS
  <1> DEFINE p == Cleared
             d == NothingDue
  <1>2. /\ page' = [page EXCEPT ![u] = p] /\ due' = [due EXCEPT ![u] = d]
        /\ UNCHANGED <<server, patient>> /\ (patient => a = <<>>)
    BY <1>1 DEF Leave, MayLeave
  <1>3. asked' = [asked EXCEPT ![u] = a]
    BY <1>1 DEF Leave, IInv, TypeOK
  <1>4. a \in Seq(Requests) /\ MarksKept(a) /\ ShownStored(page[u], a, due[u])
    BY <1>1, PageOK
  <1>5. /\ p \in Lists /\ Ids(p) = {} /\ p.more = FALSE /\ p.loading = FALSE /\ p.params = None
        /\ d \in Dues /\ d.start = None /\ d.live = {}
    BY ClearedFacts, NothingDueFacts
  <1>6. patient => PatientOK(p, a, d)
    <2> HIDE DEF d
    <2> SUFFICES ASSUME patient PROVE PatientOK(p, a, d)
      OBVIOUS
    <2>1. Len(a) <= 1 /\ a = <<>> /\ Elements(a) = {}
      BY <1>2, NoIds
    <2>2. QED
      BY <1>5, <2>1 DEF PatientOK, MoreOK
  <1> HIDE DEF p, d
  <1>7. ShownStored(p, a, d)
    BY <1>4, <1>5 DEF ShownStored
  <1>8. QED
    BY <1>2, <1>3, <1>4, <1>5, <1>6, <1>7, PageKeeps

LEMMA ScrollKeeps ==
  ASSUME IInv, NEW u \in Users, Scroll(u)
  PROVE  IInv'
  <1>1. PICK k, a, d : k = page[u] /\ a = asked[u] /\ d = due[u]
    OBVIOUS
  <1> DEFINE p == [k EXCEPT !.loading = TRUE]
             q == NewRequest(k.params, k.data, k.cursor)
             s == Append(a, q)
  <1>2. /\ k.params # None /\ ~k.loading /\ k.more /\ UNCHANGED <<server, patient>>
    BY <1>1 DEF Scroll, MayFetchMore
  <1>3. /\ k \in Lists /\ a \in Seq(Requests) /\ d \in Dues /\ ShownStored(k, a, d)
        /\ patient => PatientOK(k, a, d)
    BY <1>1, PageOK
  <1>4. page' = [page EXCEPT ![u] = p] /\ due' = [due EXCEPT ![u] = d]
    BY <1>1 DEF Scroll, IInv, TypeOK
  <1>5. /\ k.data \in Seq(Rows) /\ Ids(k) = IdsIn(k.data) /\ k.cursor \in Cursors
        /\ k.params \in Conversations
    BY <1>2, <1>3, ListTyped
  <1>6. asked' = [asked EXCEPT ![u] = s]
    <2>1. PICK r : r = MoreRequest(k)
      OBVIOUS
    <2>2. r.params = k.params /\ r.base = k.data /\ r.cursor = k.cursor
      BY <2>1 DEF MoreRequest
    <2>3. Ask(u, r)
      BY <1>1, <2>1 DEF Scroll
    <2>4. QED
      BY <1>1, <2>2, <2>3, AskFacts
  <1>7. /\ p \in Lists /\ p.params = k.params /\ p.data = k.data /\ p.loading = TRUE
        /\ p.more = k.more /\ p.cursor = k.cursor
    BY <1>3 DEF Lists
  <1>8. /\ q \in Requests /\ q.params = k.params /\ q.base = k.data /\ q.cursor = k.cursor
        /\ q.answer = None /\ q.start = {} /\ \A m \in q.read : isRead[m]
    <2>1. q = NewRequest(k.params, k.data, k.cursor)
      OBVIOUS
    <2> HIDE DEF q
    <2>2. QED
      BY <1>5, <2>1, NewRequestFacts
  <1> HIDE DEF q
  <1> HIDE DEF p
  <1>9. Ids(p) = Ids(k)
    BY <1>5, <1>7, ListTyped
  <1>10. s \in Seq(Requests) /\ ShownStored(p, s, d) /\ MarksKept(s)
    <2>1. Ids(k) \subseteq Stored \cup {0} /\ (d.start # None => d.start \subseteq Stored)
      BY <1>3 DEF ShownStored
    <2>2. Ids(p) \subseteq Stored \cup {0} /\ IdsIn(q.base) \subseteq Stored \cup {0}
      BY <1>5, <1>8, <1>9, <2>1
    <2>3. /\ Append(asked[u], q) \in Seq(Requests)
          /\ ShownStored(p, Append(asked[u], q), d) /\ MarksKept(Append(asked[u], q))
      BY <1>8, <2>1, <2>2, AskedKeeps
    <2>4. QED
      BY <1>1, <2>3
  <1>11. ASSUME patient PROVE PatientOK(p, s, d)
    <2>1. /\ k.loading <=> a # <<>>
          /\ Ids(k) \subseteq Own(k.params) /\ d.live \subseteq Ids(k)
          /\ k.cursor \in Messages /\ k.params = "this" /\ d.start # None
          /\ Passed(d.start, k.more, k.cursor) \subseteq Ids(k)
      BY <1>2, <1>3, <1>11 DEF PatientOK, MoreOK
    <2>2. a = <<>>
      BY <1>2, <2>1
    <2>3. Len(s) = 1 /\ s # <<>> /\ Elements(s) = {q}
      BY <1>8, <2>2, SingleFacts
    <2>4. Passed(d.start, TRUE, k.cursor) = Passed(d.start, k.more, k.cursor)
      BY <1>2 DEF Passed
    <2>5. RequestOK(q, p, d)
      BY <1>5, <1>7, <1>8, <2>1, <2>4 DEF RequestOK, MoreOK
    <2> HIDE DEF s
    <2>6. /\ Len(s) <= 1 /\ (p.loading <=> s # <<>>) /\ p.params # None
          /\ \A x \in Elements(s) : RequestOK(x, p, d)
      BY <1>2, <1>7, <2>3, <2>5
    <2>7. /\ Ids(p) \subseteq Own(p.params) /\ d.live \subseteq Ids(p)
          /\ MoreOK(p.more, p.cursor, p.params)
          /\ Passed(d.start, p.more, p.cursor) \subseteq Ids(p)
      BY <1>7, <1>9, <2>1 DEF MoreOK
    <2>8. QED
      BY <2>1, <2>6, <2>7 DEF PatientOK
  <1> HIDE DEF s
  <1>12. QED
    BY <1>2, <1>3, <1>4, <1>6, <1>7, <1>10, <1>11, PageKeeps

\* What the server answers to a request.
AnswerTo(q) == IF q.params = "other" THEN OtherPage ELSE GetMessages(q.cursor)

StartOf(q) == IF q.params = "this" THEN Stored ELSE {}

LEMMA OtherPageFacts ==
  /\ OtherPage \in Answers /\ IdsIn(OtherPage.rows) = {0} /\ OtherPage.more = FALSE
  /\ \A row \in Elements(OtherPage.rows) : row.id = 0
  <1>1. [id |-> 0, isRead |-> TRUE] \in Rows
    BY DEF Rows
  <1>2. OtherRows \in Seq(Rows) /\ Len(OtherRows) = 1 /\ OtherRows[1].id = 0
    BY <1>1 DEF OtherRows
  <1>3. IdsIn(OtherRows) = {0} /\ \A row \in Elements(OtherRows) : row.id = 0
    <2>1. 1..1 = {1}
      OBVIOUS
    <2> HIDE DEF OtherRows
    <2>2. QED
      BY <1>2, <2>1 DEF IdsIn, Elements
  <1>4. OtherPage \in Answers /\ OtherPage.rows = OtherRows /\ OtherPage.more = FALSE
    BY <1>2 DEF OtherPage, Answers, Cursors
  <1>5. QED
    BY <1>3, <1>4

LEMMA AnswerFacts ==
  ASSUME TypeOK, NEW q \in Requests
  PROVE  /\ AnswerTo(q) \in Answers
         /\ IdsIn(AnswerTo(q).rows) \subseteq Stored \cup {0}
         /\ (\A m \in q.read : isRead[m]) =>
                \A row \in Elements(AnswerTo(q).rows) : row.id \in q.read => row.isRead
         /\ q.params = "this" => IdsIn(AnswerTo(q).rows) \subseteq Stored
         /\ q.params # "this" => AnswerTo(q).more = FALSE /\ IdsIn(AnswerTo(q).rows) = {0}
         /\ AnswerTo(q).more => AnswerTo(q).cursor \in Messages
         /\ q.params = "this" =>
                Passed({m \in Stored : q.cursor # None => m < q.cursor},
                       AnswerTo(q).more, AnswerTo(q).cursor) \subseteq IdsIn(AnswerTo(q).rows)
  <1>1. q.params \in Conversations /\ q.cursor \in Cursors /\ q.read \in SUBSET Messages
    BY RequestTyped
  <1>2. CASE q.params = "other"
    <2>1. PICK a : a = AnswerTo(q) /\ a = OtherPage
      BY <1>2 DEF AnswerTo
    <2>2. \A row \in Elements(a.rows) : row.id \notin q.read
      BY <1>1, <2>1, OtherPageFacts, Assumed
    <2>3. QED
      BY <1>2, <2>1, <2>2, OtherPageFacts
  <1>3. CASE q.params = "this"
    <2>1. PICK a : a = AnswerTo(q) /\ a = GetMessages(q.cursor)
      BY <1>3 DEF AnswerTo
    <2>2. /\ a \in Answers /\ IdsIn(a.rows) \subseteq Stored
          /\ \A row \in Elements(a.rows) : isRead[row.id] => row.isRead
          /\ a.more => a.cursor \in Messages
          /\ Passed({m \in Stored : q.cursor # None => m < q.cursor}, a.more, a.cursor)
                 \subseteq IdsIn(a.rows)
      BY <1>1, <2>1, GetMessagesFacts
    <2>3. (\A m \in q.read : isRead[m]) =>
              \A row \in Elements(a.rows) : row.id \in q.read => row.isRead
      BY <2>2, Zenon
    <2>4. QED
      BY <1>3, <2>1, <2>2, <2>3
  <1>4. QED
    BY <1>1, <1>2, <1>3 DEF Conversations

LEMMA ServeKeeps ==
  ASSUME IInv, NEW u \in Users, NEW i \in 1..Len(asked[u]), Serve(u, i)
  PROVE  IInv'
  <1>1. PICK p, a, d : p = page[u] /\ a = asked[u] /\ d = due[u]
    OBVIOUS
  <1>2. /\ p \in Lists /\ a \in Seq(Requests) /\ d \in Dues
        /\ ShownStored(p, a, d) /\ MarksKept(a) /\ (patient => PatientOK(p, a, d))
    BY <1>1, PageOK
  <1>3. PICK o : o = a[i]
    OBVIOUS
  <1>4. o \in Requests /\ o \in Elements(a) /\ i \in 1..Len(a)
    BY <1>1, <1>2, <1>3 DEF Elements
  <1> DEFINE q == [o EXCEPT !.answer = AnswerTo(o), !.start = StartOf(o)]
             s == [a EXCEPT ![i] = q]
  <1>5. asked' = [asked EXCEPT ![u] = s]
    BY <1>1, <1>3 DEF Serve, AnswerTo, StartOf
  <1>6. /\ page' = [page EXCEPT ![u] = p] /\ due' = [due EXCEPT ![u] = d]
        /\ UNCHANGED <<server, patient>>
    BY <1>1 DEF Serve, IInv, TypeOK
  <1>7. PICK w : w = AnswerTo(o)
    OBVIOUS
  <1>8. /\ w \in Answers /\ IdsIn(w.rows) \subseteq Stored \cup {0}
        /\ (\A m \in o.read : isRead[m]) =>
               \A row \in Elements(w.rows) : row.id \in o.read => row.isRead
        /\ o.params = "this" => IdsIn(w.rows) \subseteq Stored
        /\ o.params # "this" => w.more = FALSE /\ IdsIn(w.rows) = {0}
        /\ w.more => w.cursor \in Messages
        /\ o.params = "this" =>
               Passed({m \in Stored : o.cursor # None => m < o.cursor}, w.more, w.cursor)
                   \subseteq IdsIn(w.rows)
    <2>1. TypeOK
      BY DEF IInv
    <2>2. QED
      BY <1>4, <1>7, <2>1, AnswerFacts
  <1>9. StartOf(o) \subseteq Stored /\ StartOf(o) \in SUBSET Messages
    BY StoredIds DEF StartOf
  <1>10. /\ q \in Requests /\ q.params = o.params /\ q.base = o.base /\ q.cursor = o.cursor
         /\ q.answer = w /\ q.start = StartOf(o) /\ q.read = o.read
    BY <1>4, <1>7, <1>8, <1>9 DEF Requests
  <1> HIDE DEF q
  <1>11. /\ s \in Seq(Requests) /\ Len(s) = Len(a) /\ (s = <<>> <=> a = <<>>)
         /\ Elements(s) \subseteq Elements(a) \cup {q}
    BY <1>2, <1>4, <1>10, ReplacedFacts
  <1> HIDE DEF s
  <1>12. ShownStored(p, s, d)
    BY <1>2, <1>4, <1>8, <1>9, <1>10, <1>11 DEF ShownStored
  <1>13. MarksKept(s)
    BY <1>2, <1>4, <1>8, <1>10, <1>11 DEF MarksKept
  <1>14. ASSUME patient PROVE PatientOK(p, s, d)
    <2>1. RequestOK(o, p, d) /\ PatientOK(p, a, d)
      BY <1>2, <1>4, <1>14 DEF PatientOK
    <2>2. o.params = p.params /\ o.params \in Conversations /\ o.cursor \in Cursors
      BY <1>4, <2>1, RequestTyped DEF RequestOK
    <2>3. IdsIn(w.rows) \subseteq Own(p.params) /\ MoreOK(w.more, w.cursor, p.params)
      <3>1. CASE o.params = "this"
        BY <1>8, <2>2, <3>1, StoredIds DEF Own, MoreOK
      <3>2. CASE o.params # "this"
        BY <1>8, <2>2, <3>2 DEF Own, MoreOK, Conversations
      <3>3. QED
        BY <3>1, <3>2
    <2>4. Passed(Owed(q, d.start), w.more, w.cursor) \subseteq IdsIn(w.rows)
      <3>1. CASE o.cursor = None /\ o.params = "this"
        BY <1>8, <1>10, <3>1 DEF Owed, StartOf
      <3>2. CASE o.cursor = None /\ o.params # "this"
        BY <1>10, <3>2 DEF Owed, StartOf, Passed
      <3>3. CASE o.cursor # None
        <4>1. o.params = "this" /\ d.start # None
          BY <2>1, <2>2, <3>3 DEF RequestOK, MoreOK
        <4>2. d.start \subseteq Stored
          BY <1>2, <4>1 DEF ShownStored
        <4>3. Owed(q, d.start) \subseteq {m \in Stored : o.cursor # None => m < o.cursor}
          BY <1>10, <3>3, <4>2 DEF Owed
        <4>4. QED
          BY <1>8, <4>1, <4>3 DEF Passed
      <3>4. QED
        BY <3>1, <3>2, <3>3
    <2>5. RequestOK(q, p, d)
      BY <1>10, <2>1, <2>3, <2>4 DEF RequestOK
    <2>6. QED
      BY <1>11, <2>1, <2>5 DEF PatientOK
  <1>15. QED
    BY <1>2, <1>5, <1>6, <1>11, <1>12, <1>13, <1>14, PageKeeps

\* A request that is settled leaves nothing of it behind.
LEMMA SettledFacts ==
  ASSUME IInv, NEW u \in Users, NEW i \in 1..Len(asked[u])
  PROVE  /\ asked[u][i] \in Requests /\ asked[u][i] \in Elements(asked[u])
         /\ RemoveAt(asked[u], i) \in Seq(Requests)
         /\ Elements(RemoveAt(asked[u], i)) \subseteq Elements(asked[u])
         /\ patient => RemoveAt(asked[u], i) = <<>> /\ Elements(RemoveAt(asked[u], i)) = {}
  <1>1. PICK a : a = asked[u]
    OBVIOUS
  <1>2. a \in Seq(Requests) /\ (patient => Len(a) <= 1)
    BY <1>1, PageOK DEF PatientOK
  <1>3. i \in 1..Len(a) /\ a[i] \in Requests /\ a[i] \in Elements(a)
    BY <1>1, <1>2 DEF Elements
  <1>4. PICK s : s = RemoveAt(a, i)
    OBVIOUS
  <1>5. s \in Seq(Requests) /\ Len(s) = Len(a) - 1 /\ Elements(s) \subseteq Elements(a)
    BY <1>2, <1>3, <1>4, RemovedFacts
  <1>6. patient => s = <<>> /\ Elements(s) = {}
    <2>1. Len(a) \in Nat
      BY <1>2
    <2>2. patient => Len(s) = 0
      BY <1>2, <1>3, <1>5, <2>1
    <2>3. patient => s = <<>>
      BY <1>5, <2>2, EmptySeq
    <2>4. QED
      BY <2>3, NoIds
  <1>7. QED
    BY <1>1, <1>3, <1>4, <1>5, <1>6

LEMMA ArriveKeeps ==
  ASSUME IInv, NEW u \in Users, NEW i \in 1..Len(asked[u]), Arrive(u, i)
  PROVE  IInv'
  <1>1. PICK l, a, e, s, q : /\ l = page[u] /\ a = asked[u] /\ e = due[u]
                             /\ s = RemoveAt(asked[u], i) /\ q = asked[u][i]
    OBVIOUS
  <1> DEFINE p == Answered(l, q, q.answer)
             d == [e EXCEPT !.start = IF q.cursor = None THEN q.start ELSE @]
  <1>2. /\ q.answer # None /\ UNCHANGED <<server, patient>>
        /\ page' = [page EXCEPT ![u] = p] /\ asked' = [asked EXCEPT ![u] = s]
    BY <1>1 DEF Arrive, Settled
  <1>3. due' = [due EXCEPT ![u] = d]
    BY <1>1 DEF Arrive
  <1>4. /\ l \in Lists /\ a \in Seq(Requests) /\ e \in Dues
        /\ ShownStored(l, a, e) /\ MarksKept(a) /\ (patient => PatientOK(l, a, e))
    BY <1>1, PageOK
  <1>5. /\ q \in Requests /\ q \in Elements(a) /\ s \in Seq(Requests)
        /\ Elements(s) \subseteq Elements(a) /\ (patient => s = <<>> /\ Elements(s) = {})
    BY <1>1, SettledFacts
  <1>6. q.answer \in Answers /\ q.start \in SUBSET Messages
    BY <1>2, <1>5, RequestTyped
  <1>7. /\ p \in Lists /\ Ids(p) = IdsIn(q.base) \cup IdsIn(q.answer.rows)
        /\ p.params = l.params /\ p.loading = FALSE
        /\ p.more = q.answer.more /\ p.cursor = q.answer.cursor
    BY <1>4, <1>5, <1>6, AnsweredFacts
  <1> HIDE DEF p
  <1>8. d \in Dues /\ d.start = (IF q.cursor = None THEN q.start ELSE e.start) /\ d.live = e.live
    BY <1>4, <1>6 DEF Dues
  <1> HIDE DEF d
  <1>9. ShownStored(p, s, d)
    BY <1>2, <1>4, <1>5, <1>7, <1>8 DEF ShownStored
  <1>10. MarksKept(s)
    BY <1>4, <1>5 DEF MarksKept
  <1>11. ASSUME patient PROVE PatientOK(p, s, d)
    <2>1. RequestOK(q, l, e) /\ q.params \in Conversations
      BY <1>4, <1>5, <1>11, RequestTyped DEF PatientOK
    <2>2. /\ p.params # None /\ Ids(p) \subseteq Own(p.params) /\ d.live \subseteq Ids(p)
          /\ MoreOK(p.more, p.cursor, p.params)
      BY <1>2, <1>7, <1>8, <2>1, Assumed DEF RequestOK
    <2>3. d.start # None
      BY <1>6, <1>8, <2>1, Assumed DEF RequestOK
    <2>4. Passed(d.start, p.more, p.cursor) \subseteq Ids(p)
      <3>1. Passed(Owed(q, e.start), p.more, p.cursor) \subseteq Ids(p)
        BY <1>2, <1>7, <2>1 DEF RequestOK
      <3>2. CASE q.cursor = None
        BY <1>8, <3>1, <3>2 DEF Owed
      <3>3. CASE q.cursor # None
        <4>1. d.start = e.start /\ e.start \in SUBSET Messages /\ q.cursor \in Messages
          BY <1>4, <1>8, <2>3, <2>1, <3>3, DueTyped DEF RequestOK, MoreOK
        <4>2. Passed(e.start, TRUE, q.cursor) \subseteq Ids(p)
          BY <1>7, <2>1, <3>3 DEF RequestOK
        <4>3. \A m \in e.start : m >= q.cursor => m \in Ids(p)
          BY <4>2 DEF Passed
        <4>4. \A m \in e.start : m < q.cursor /\ (p.more => m >= p.cursor) => m \in Ids(p)
          BY <3>1, <3>3 DEF Owed, Passed
        <4>5. \A m \in e.start : m >= q.cursor \/ m < q.cursor
          BY <4>1, Assumed
        <4>6. QED
          BY <4>1, <4>3, <4>4, <4>5 DEF Passed
      <3>4. QED
        BY <3>2, <3>3
    <2>5. Len(s) <= 1 /\ s = <<>> /\ Elements(s) = {}
      BY <1>5, <1>11
    <2>6. QED
      BY <1>7, <2>2, <2>3, <2>4, <2>5 DEF PatientOK
  <1>12. QED
    BY <1>2, <1>3, <1>5, <1>7, <1>8, <1>9, <1>10, <1>11, PageKeeps

LEMMA FailToArriveKeeps ==
  ASSUME IInv, NEW u \in Users, NEW i \in 1..Len(asked[u]), FailToArrive(u, i)
  PROVE  IInv'
  <1>1. PICK l, a, d, s, q : /\ l = page[u] /\ a = asked[u] /\ d = due[u]
                             /\ s = RemoveAt(asked[u], i) /\ q = asked[u][i]
    OBVIOUS
  <1> DEFINE p == Failed(l)
  <1>2. /\ UNCHANGED <<server, patient>>
        /\ page' = [page EXCEPT ![u] = p] /\ asked' = [asked EXCEPT ![u] = s]
    BY <1>1 DEF FailToArrive, Settled
  <1>3. due' = [due EXCEPT ![u] = d]
    BY <1>1 DEF FailToArrive, IInv, TypeOK
  <1>4. /\ l \in Lists /\ a \in Seq(Requests) /\ d \in Dues
        /\ ShownStored(l, a, d) /\ MarksKept(a) /\ (patient => PatientOK(l, a, d))
    BY <1>1, PageOK
  <1>5. /\ q \in Requests /\ q \in Elements(a) /\ s \in Seq(Requests)
        /\ Elements(s) \subseteq Elements(a) /\ (patient => s = <<>> /\ Elements(s) = {})
    BY <1>1, SettledFacts
  <1>6. /\ p \in Lists /\ Ids(p) = Ids(l) /\ p.params = l.params
        /\ p.more = l.more /\ p.cursor = l.cursor /\ p.loading = FALSE
    BY <1>4, FailedFacts
  <1> HIDE DEF p
  <1>7. ShownStored(p, s, d)
    BY <1>4, <1>5, <1>6 DEF ShownStored
  <1>8. MarksKept(s)
    BY <1>4, <1>5 DEF MarksKept
  <1>9. ASSUME patient PROVE PatientOK(p, s, d)
    <2>1. p.params # None
      BY <1>4, <1>5, <1>6, <1>9, RequestTyped, Assumed DEF PatientOK, RequestOK
    <2>2. Len(s) <= 1 /\ s = <<>> /\ Elements(s) = {}
      BY <1>5, <1>9
    <2>3. QED
      BY <1>4, <1>6, <1>9, <2>1, <2>2 DEF PatientOK
  <1>10. QED
    BY <1>2, <1>3, <1>4, <1>5, <1>6, <1>7, <1>8, <1>9, PageKeeps

\* A message is relayed: it is stored, and a page of its conversation owes it
\* from now on if no answer is to come.
LEMMA RelayKeeps ==
  ASSUME IInv, NEW m \in Messages, NEW present \in SUBSET Users, Relay(m, present)
  PROVE  IInv'
  <1> DEFINE d(u) == IF asked[u] = <<>> THEN [due[u] EXCEPT !.live = @ \cup {m}] ELSE due[u]
  <1>1. /\ TypeOK /\ channel \subseteq Stored /\ PagesOK /\ PatientPagesOK
        /\ m \in channel /\ m \in Stored
    BY DEF IInv, Relay
  <1>2. /\ channel' = channel \ {m} /\ Stored' = Stored /\ isRead' = isRead
        /\ asked' = asked /\ patient' = patient
    BY DEF Relay, Stored
  <1>3. /\ page' = [u \in Users |-> IF u \in present THEN WithRelayed(page[u], m) ELSE page[u]]
        /\ \A u \in present : page[u].params = "this"
    BY DEF Relay
  <1>4. due' = [u \in Users |-> IF u \in present THEN d(u) ELSE due[u]]
    BY DEF Relay
  <1>5. ASSUME NEW u \in Users
        PROVE  /\ page'[u] \in Lists /\ due'[u] \in Dues
               /\ ShownStored(page[u], asked[u], due[u])' /\ MarksKept(asked[u])'
               /\ patient => PatientOK(page[u], asked[u], due[u])'
    <2>1. PICK k, a, e : k = page[u] /\ a = asked[u] /\ e = due[u]
      OBVIOUS
    <2>2. /\ k \in Lists /\ a \in Seq(Requests) /\ e \in Dues
          /\ ShownStored(k, a, e) /\ MarksKept(a) /\ (patient => PatientOK(k, a, e))
      BY <2>1, PageOK
    <2>3. PICK p, f : p = page'[u] /\ f = due'[u]
      OBVIOUS
    <2>4. /\ p \in Lists /\ f \in Dues /\ ShownStored(p, a, f)
          /\ patient => PatientOK(p, a, f)
      <3>1. CASE u \notin present
        <4>1. p = k /\ f = e
          BY <1>3, <1>4, <2>1, <2>3, <3>1
        <4>2. QED
          BY <2>2, <4>1
      <3>2. CASE u \in present
        <4>1. /\ p = WithRelayed(k, m) /\ k.params = "this"
              /\ f = IF a = <<>> THEN [e EXCEPT !.live = @ \cup {m}] ELSE e
          BY <1>3, <1>4, <2>1, <2>3, <3>2
        <4>2. /\ p \in Lists /\ Ids(p) = Ids(k) \cup {m} /\ p.more = k.more
              /\ p.cursor = k.cursor /\ p.loading = k.loading /\ p.params = k.params
          BY <2>2, <4>1, RelayedFacts
        <4>3. /\ f \in Dues /\ f.start = e.start
              /\ f.live = IF a = <<>> THEN e.live \cup {m} ELSE e.live
          BY <2>2, <4>1 DEF Dues
        <4>4. ShownStored(p, a, f)
          BY <1>1, <2>2, <4>2, <4>3 DEF ShownStored
        <4>5. ASSUME patient PROVE PatientOK(p, a, f)
          <5>1. PatientOK(k, a, e)
            BY <2>2, <4>5
          <5>2. /\ p.params # None /\ Ids(p) \subseteq Own(p.params) /\ f.live \subseteq Ids(p)
                /\ MoreOK(p.more, p.cursor, p.params)
            <6>1. p.params = "this" /\ p.params # None
              BY <4>1, <4>2, Assumed DEF Conversations
            <6>2. Own("this") = Messages
              BY DEF Own
            <6>3. QED
              BY <4>1, <4>2, <4>3, <5>1, <6>1, <6>2 DEF PatientOK
          <5>3. f.start # None => Passed(f.start, p.more, p.cursor) \subseteq Ids(p)
            BY <4>2, <4>3, <5>1 DEF PatientOK
          <5>4. \A q \in Elements(a) : RequestOK(q, p, f)
            <6>1. CASE a = <<>>
              BY <6>1, NoIds
            <6>2. CASE a # <<>>
              BY <4>2, <4>3, <5>1, <6>2 DEF PatientOK, RequestOK
            <6>3. QED
              BY <6>1, <6>2
          <5>5. QED
            BY <4>2, <4>3, <5>1, <5>2, <5>3, <5>4 DEF PatientOK
        <4>6. QED
          BY <4>2, <4>3, <4>4, <4>5
      <3>3. QED
        BY <3>1, <3>2
    <2>5. ShownStored(page[u], asked[u], due[u])'
      BY <1>2, <2>1, <2>3, <2>4 DEF ShownStored
    <2>6. MarksKept(asked[u])'
      BY <1>2, <2>1, <2>2 DEF MarksKept
    <2>7. patient => PatientOK(page[u], asked[u], due[u])'
      BY <1>2, <2>1, <2>3, <2>4 DEF PatientOK
    <2>8. QED
      BY <2>3, <2>4, <2>5, <2>6, <2>7
  <1>6. page' \in [Users -> Lists] /\ due' \in [Users -> Dues]
    BY <1>3, <1>4, <1>5
  <1>7. TypeOK'
    BY <1>1, <1>2, <1>6 DEF TypeOK, Relay
  <1>8. PagesOK' /\ PatientPagesOK'
    BY <1>2, <1>5 DEF PagesOK, PatientPagesOK
  <1>9. QED
    BY <1>1, <1>2, <1>7, <1>8 DEF IInv

-----------------------------------------------------------------------------
(* The theorems.                                                            *)

LEMMA InvInit == Init => IInv
  <1> SUFFICES ASSUME Init PROVE IInv
    OBVIOUS
  <1>1. Cleared \in Lists /\ Ids(Cleared) = {} /\ <<>> \in Seq(Requests) /\ NothingDue \in Dues
    BY ClearedFacts, NothingDueFacts
  <1>2. cache \in Seq([id : Messages, isRead : BOOLEAN])
    <2> DEFINE C == [id : Messages, isRead : BOOLEAN]
    <2> HIDE DEF C
    <2>1. <<>> \in Seq(C)
      OBVIOUS
    <2>2. QED
      BY <2>1 DEF Init, C
  <1>3. TypeOK
    BY <1>1, <1>2 DEF Init, TypeOK, Stages
  <1>4. ASSUME NEW u \in Users
        PROVE  /\ ShownStored(page[u], asked[u], due[u]) /\ MarksKept(asked[u])
               /\ PatientOK(page[u], asked[u], due[u])
    <2>1. page[u] = Cleared /\ asked[u] = <<>> /\ due[u] = NothingDue
      BY DEF Init
    <2>2. Elements(<<>>) = {} /\ Len(<<>>) = 0
      BY NoIds
    <2>3. ShownStored(page[u], asked[u], due[u]) /\ MarksKept(asked[u])
      BY <1>1, <2>1, <2>2, NothingDueFacts DEF ShownStored, MarksKept
    <2>4. PatientOK(page[u], asked[u], due[u])
      BY <2>1, <2>2, ClearedFacts, NothingDueFacts DEF PatientOK, MoreOK
    <2>5. QED
      BY <2>3, <2>4
  <1>5. QED
    BY <1>3, <1>4 DEF IInv, PagesOK, PatientPagesOK, Init

LEMMA InvStep == IInv /\ [Next]_vars => IInv'
  <1> SUFFICES ASSUME IInv, [Next]_vars PROVE IInv'
    OBVIOUS
  <1>1. ASSUME NEW m \in Messages, Send(m) PROVE IInv'
    BY <1>1, SendKeeps
  <1>2. ASSUME NEW m \in Messages, Lose(m) PROVE IInv'
    BY <1>2, LoseKeeps
  <1>3. ASSUME NEW m \in Messages, NEW present \in SUBSET Users, Relay(m, present) PROVE IInv'
    BY <1>3, RelayKeeps
  <1>4. ASSUME NEW u \in Users, MarkAllAsRead(u) PROVE IInv'
    BY <1>4, MarkAllAsReadKeeps
  <1>5. ASSUME NEW u \in Users, NEW c \in Conversations, Open(u, c) PROVE IInv'
    BY <1>5, OpenKeeps
  <1>6. ASSUME NEW u \in Users, Leave(u) \/ Scroll(u) PROVE IInv'
    BY <1>6, LeaveKeeps, ScrollKeeps
  <1>7. ASSUME NEW u \in Users, NEW i \in 1..Len(asked[u]),
               Serve(u, i) \/ Arrive(u, i) \/ FailToArrive(u, i)
        PROVE  IInv'
    BY <1>7, ServeKeeps, ArriveKeeps, FailToArriveKeeps
  <1>8. CASE UNCHANGED vars
    <2>1. TypeOK' /\ channel' = channel /\ Stored' = Stored
      BY <1>8 DEF IInv, TypeOK, vars, server, client, Stored
    <2>2. /\ UNCHANGED <<client, patient>> /\ channel' \subseteq Stored'
          /\ \A m \in Messages : isRead[m] => isRead'[m]
      BY <1>8, <2>1 DEF IInv, vars, server, client
    <2>3. ServerTyped'
      BY <2>1 DEF TypeOK, ServerTyped
    <2>4. QED
      BY <2>1, <2>2, <2>3, ServerKeeps
  <1>9. QED
    BY <1>1, <1>2, <1>3, <1>4, <1>5, <1>6, <1>7, <1>8 DEF Next, Browse

\* The invariant of the whole module: what is shown or on its way is stored, read
\* marks only grow, and the page of a patient reader has everything its walk has
\* passed, whatever the server, the pub/sub channel and the network do between
\* the steps of DmService.getMessages and of the message store.
THEOREM Inductive == Spec => []IInv
  <1>1. Init => IInv
    BY InvInit
  <1>2. IInv /\ [Next]_vars => IInv'
    BY InvStep
  <1>3. QED
    BY <1>1, <1>2, PTL DEF Spec

\* Type correctness, and: a message on a participant's screen, fetched or
\* relayed, is committed; DmService.saveMessage relays nothing that a rollback
\* takes back.
THEOREM Shown == Spec => []MessagesInv
  <1>1. IInv => MessagesInv
    BY DEF IInv, PagesOK, ShownStored, MessagesInv, NothingShownVanishes
  <1>2. QED
    BY <1>1, Inductive, PTL

\* An answer on its way, however late, flags as read every message that was read
\* when its page was asked for: DmService.getMessages reads the flags from the
\* database, as its cast of the cached entries, which have those of the day the
\* message was saved, always fails.
THEOREM MarksStay == Spec => []ReadStaysRead
  <1>1. IInv => ReadStaysRead
    <2> SUFFICES ASSUME IInv, NEW u \in Users, NEW i \in 1..Len(asked[u]),
                        asked[u][i].answer # None,
                        NEW k \in 1..Len(asked[u][i].answer.rows),
                        asked[u][i].answer.rows[k].id \in asked[u][i].read
                 PROVE  asked[u][i].answer.rows[k].isRead
      BY DEF ReadStaysRead
    <2>1. MarksKept(asked[u]) /\ asked[u][i] \in Elements(asked[u])
      BY DEF IInv, PagesOK, Elements
    <2>2. asked[u][i].answer.rows[k] \in Elements(asked[u][i].answer.rows)
      BY DEF Elements
    <2>3. QED
      BY <2>1, <2>2 DEF MarksKept
  <1>2. QED
    BY <1>1, Inductive, PTL

\* A patient reader who has scrolled to the end has seen every message that was
\* stored when the first page was made: the cursor and the row more of
\* findMessagesByCursor skip none, for any page size.
THEOREM Complete == Spec => []WalkIsComplete
  <1>1. IInv => WalkIsComplete
    <2> SUFFICES ASSUME IInv, NEW u \in Users, patient, due[u].start # None, ~page[u].more
                 PROVE  due[u].start \subseteq Ids(page[u])
      BY DEF WalkIsComplete
    <2>1. PatientOK(page[u], asked[u], due[u])
      BY PageOK
    <2>2. QED
      BY <2>1 DEF PatientOK, Passed
  <1>2. QED
    BY <1>1, Inductive, PTL

\* No answer takes away a message that was relayed while none was awaited: the
\* rows a request was made with had it.
THEOREM RelayedStay == Spec => []LiveKept
  <1>1. IInv => LiveKept
    BY DEF IInv, PatientPagesOK, PatientOK, LiveKept
  <1>2. QED
    BY <1>1, Inductive, PTL

\* The store of a patient reader's page at rest has rows of the conversation that
\* is open and of no other, although the two conversations share the store.
THEOREM RowsOfItsOwn == Spec => []OwnRows
  <1>1. IInv => OwnRows
    BY DEF IInv, PatientPagesOK, PatientOK, OwnRows, Own
  <1>2. QED
    BY <1>1, Inductive, PTL
=============================================================================
