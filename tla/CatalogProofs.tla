--------------------------- MODULE CatalogProofs ---------------------------
(***************************************************************************)
(* Theorems about Catalog and ContentImport, for any users, contents, tags *)
(* and requests, any source and any number of faults.                      *)
(***************************************************************************)
EXTENDS ContentImport, FiniteSetTheorems, WellFoundedInduction, TLAPS

-----------------------------------------------------------------------------
(* The inductive invariant.                                                 *)

AnyTransaction == Transactions \cup UNION {Imports(K) : K \in SUBSET Keys}

TablesTyped ==
    /\ setting \in Modes
    /\ content \in [Contents -> Rows \cup {None}]
    /\ lastId \in 0..MaxContents
    /\ tags \subseteq Names
    /\ mapping \subseteq Mappings
    /\ review \subseteq Reviews

TablesOK ==
    /\ \A c \in Contents : content[c] # None => c <= lastId
    /\ \A m \in mapping : m.tag \in tags /\ content[m.content] # None
    /\ IsFiniteSet(review)
    /\ \A v \in review : v.content <= lastId

ProgressTyped ==
    /\ pc \in [Requests -> {"new", "open", "done", "failed"}]
    /\ tx \in [Requests -> AnyTransaction \cup {None}]
    /\ \A r \in Requests : (pc[r] = "open") <=> (tx[r] # None)

\* The content that transaction t has read is the one it will write back: an id
\* is handed out once. Without overlap, its row has not changed.
Holds(t) ==
    /\ t.content <= lastId
    /\ content[t.content] # None => content[t.content].key = t.row.key
    /\ ~setting.overlap => content[t.content] = t.row

\* A key that the import did not find is still not there.
ImportOK(t) ==
    /\ IsFiniteSet(DOMAIN t.chunk)
    /\ \A k \in DOMAIN t.chunk : t.lacks[k] \subseteq tags \cup t.fresh
    /\ \A k \in DOMAIN t.chunk : t.found[k] = None =>
           /\ \A c \in Contents : content[c] # None => content[c].key # k
           /\ t.lacks[k] = t.chunk[k].names
    /\ \A k \in DOMAIN t.chunk : t.found[k] # None =>
           /\ t.row[k] # None /\ t.row[k].key = k
           /\ t.found[k] <= lastId
           /\ content[t.found[k]] # None => content[t.found[k]].key = k
           /\ ~setting.overlap => /\ content[t.found[k]] = t.row[k]
                                  /\ t.chunk[k].names \subseteq t.lacks[k] \cup TagsOf(t.found[k])

TxOK(r) ==
    LET t == tx[r]
    IN  /\ t.op \in {"review", "patch"} => Holds(t)
        /\ t.op = "review" /\ ~setting.overlap =>
               \A v \in ReviewsOf(t.content) : v.author # t.author
        /\ t.op \in {"editReview", "deleteReview"} => setting.edits
        /\ t.op = "patch" => t.names \subseteq tags \cup t.fresh
        /\ t.op = "create" => t.content <= lastId /\ (t.known => t.tag \in tags)
        /\ t.op \in {"patch", "deleteContent", "create"} => setting.admin
        /\ t.op = "import" => r = chunks /\ chunks > 0 /\ ImportOK(t)

\* The sum of the ratings of reviews S, and TotalsMatch in its terms.
Total(S) == MapThenSumSet(LAMBDA v : v.rating, S)

TotalsOK ==
    ~setting.overlap /\ ~setting.edits =>
        \A c \in Contents : content[c] # None =>
            /\ content[c].count = Cardinality(ReviewsOf(c))
            /\ content[c].sum = Total(ReviewsOf(c))

ProgressOK == \A r \in Requests : pc[r] = "open" => TxOK(r)

OneByOne == ~setting.overlap =>
                \A q, r \in Requests : pc[q] = "open" /\ pc[r] = "open" => q = r

CatalogOK ==
    /\ TablesTyped /\ TablesOK /\ ProgressTyped
    /\ ProgressOK /\ OneByOne
    /\ ReviewsHaveContent /\ KeyOnce /\ TotalsOK

-----------------------------------------------------------------------------
(* Sums.                                                                    *)

\* Induction over the subsets of a finite set, in the form of a least
\* counterexample.
LEMMA LeastSubset ==
  ASSUME NEW S, IsFiniteSet(S), NEW T \in SUBSET SUBSET S, T # {}
  PROVE  \E x \in T : \A y \in T : y \subseteq x => y = x
  <1>1. FiniteSubsetsOf(S) = SUBSET S
    BY FS_FiniteSubsetsOfFinite
  <1>2. IsWellFoundedOn(StrictSubsetOrdering(S), SUBSET S)
    BY <1>1, FS_StrictSubsetOrderingWellFounded
  <1>3. PICK x \in T : \A y \in T : <<y, x>> \notin StrictSubsetOrdering(S)
    BY <1>2, WFMin
  <1>4. QED
    BY <1>3 DEF StrictSubsetOrdering

Chosen(s) == CHOOSE v \in s : TRUE

\* g adds the ratings up, as MapThenSumSet does.
Adds(g, S) ==
    g = [s \in SUBSET S |-> IF s = {} THEN 0 ELSE Chosen(s).rating + g[s \ {Chosen(s)}]]

LEMMA TotalUnfolded == \A S : Total(S) = (CHOOSE g : Adds(g, S))[S]
  BY DEF Total, MapThenSumSet, MapThenFoldSet, Adds, Chosen

LEMMA ChosenIsMember == \A s : s # {} => Chosen(s) \in s
  BY DEF Chosen

LEMMA AddsAt ==
  ASSUME NEW S, NEW g, Adds(g, S), NEW s \in SUBSET S
  PROVE  g[s] = IF s = {} THEN 0 ELSE Chosen(s).rating + g[s \ {Chosen(s)}]
  BY Zenon DEF Adds

\* Two ways of adding up agree where both are defined.
LEMMA AddsOneWay ==
  ASSUME NEW S, IsFiniteSet(S), NEW A \in SUBSET S, NEW B \in SUBSET S,
         NEW g, NEW h, Adds(g, A), Adds(h, B)
  PROVE  \A s \in SUBSET (A \cap B) : g[s] = h[s]
  <1> DEFINE T == {s \in SUBSET (A \cap B) : g[s] # h[s]}
  <1> SUFFICES ASSUME T # {} PROVE FALSE
    OBVIOUS
  <1>1. T \in SUBSET SUBSET S
    OBVIOUS
  <1>2. PICK x \in T : \A y \in T : y \subseteq x => y = x
    <2> HIDE DEF T
    <2>1. QED
      BY <1>1, LeastSubset
  <1>3. x \in SUBSET A /\ x \in SUBSET B /\ g[x] # h[x]
    BY <1>2
  <1>4. x # {}
    BY <1>3, AddsAt
  <1>5. Chosen(x) \in x /\ x \ {Chosen(x)} \subseteq x /\ x \ {Chosen(x)} # x
    BY <1>4, ChosenIsMember
  <1>6. x \ {Chosen(x)} \notin T
    BY <1>2, <1>5
  <1>7. g[x \ {Chosen(x)}] = h[x \ {Chosen(x)}]
    BY <1>3, <1>6
  <1>8. g[x] = Chosen(x).rating + g[x \ {Chosen(x)}] /\ h[x] = Chosen(x).rating + h[x \ {Chosen(x)}]
    BY <1>3, <1>4, AddsAt
  <1>9. QED
    BY <1>3, <1>7, <1>8

\* There is a way of adding up any finite set.
LEMMA AddsExists ==
  ASSUME NEW S, IsFiniteSet(S)
  PROVE  \A A \in SUBSET S : \E g : Adds(g, A)
  <1> DEFINE T == {A \in SUBSET S : ~\E g : Adds(g, A)}
             G(A) == CHOOSE g : Adds(g, A)
  <1> SUFFICES ASSUME T # {} PROVE FALSE
    OBVIOUS
  <1>1. T \in SUBSET SUBSET S
    OBVIOUS
  <1>2. PICK X \in T : \A Y \in T : Y \subseteq X => Y = X
    <2> HIDE DEF T
    <2>1. QED
      BY <1>1, LeastSubset
  <1>3. X \in SUBSET S /\ ~\E g : Adds(g, X)
    BY <1>2
  <1>4. \A A \in SUBSET X : A # X => Adds(G(A), A)
    <2> SUFFICES ASSUME NEW A \in SUBSET X, A # X PROVE Adds(G(A), A)
      OBVIOUS
    <2>1. \E g : Adds(g, A)
      BY <1>2, <1>3
    <2>2. QED
      BY <2>1, Zenon
  <1> DEFINE At(s) == IF s = {} THEN 0
                      ELSE Chosen(s).rating + G(s \ {Chosen(s)})[s \ {Chosen(s)}]
             h == [s \in SUBSET X |-> At(s)]
  <1> HIDE DEF G
  <1>5. \A s \in SUBSET X : s # X => h[s] = G(s)[s]
    <2> SUFFICES ASSUME NEW s \in SUBSET X, s # X PROVE At(s) = G(s)[s]
      OBVIOUS
    <2>1. Adds(G(s), s)
      BY <1>4
    <2>2. CASE s = {}
      BY <2>1, <2>2, AddsAt
    <2>3. CASE s # {}
      <3> DEFINE y == s \ {Chosen(s)}
      <3>1. y \in SUBSET X /\ y # X /\ y \in SUBSET s
        BY <2>3, ChosenIsMember
      <3>2. Adds(G(y), y)
        BY <3>1, <1>4
      <3>3. G(y)[y] = G(s)[y]
        BY <1>3, <2>1, <3>1, <3>2, AddsOneWay
      <3>4. G(s)[s] = Chosen(s).rating + G(s)[y]
        BY <2>1, <2>3, AddsAt
      <3>5. QED
        BY <2>3, <3>3, <3>4
    <2>4. QED
      BY <2>2, <2>3
  <1>6. \A s \in SUBSET X : s # {} => s \ {Chosen(s)} \in SUBSET X /\ s \ {Chosen(s)} # X
    BY ChosenIsMember
  <1>7. \A s \in SUBSET X : At(s) = IF s = {} THEN 0 ELSE Chosen(s).rating + h[s \ {Chosen(s)}]
    BY <1>5, <1>6
  <1>8. Adds(h, X)
    BY <1>7 DEF Adds
  <1>9. QED
    BY <1>3, <1>8

LEMMA TotalAdds ==
  ASSUME NEW S, IsFiniteSet(S)
  PROVE  \E g : Adds(g, S) /\ Total(S) = g[S]
  <1>1. \E g : Adds(g, S)
    BY AddsExists
  <1>2. Adds(CHOOSE g : Adds(g, S), S)
    BY <1>1, Zenon
  <1>3. QED
    BY <1>2, TotalUnfolded

LEMMA TotalStep ==
  ASSUME NEW S, IsFiniteSet(S)
  PROVE  Total(S) = IF S = {} THEN 0 ELSE Chosen(S).rating + Total(S \ {Chosen(S)})
  <1>1. PICK g : Adds(g, S) /\ Total(S) = g[S]
    BY TotalAdds
  <1> DEFINE R == S \ {Chosen(S)}
  <1>2. R \in SUBSET S /\ IsFiniteSet(R)
    BY FS_Subset
  <1>3. PICK h : Adds(h, R) /\ Total(R) = h[R]
    BY <1>2, TotalAdds
  <1>4. g[R] = h[R]
    BY <1>1, <1>2, <1>3, AddsOneWay
  <1>5. S \in SUBSET S
    OBVIOUS
  <1>6. g[S] = IF S = {} THEN 0 ELSE Chosen(S).rating + g[R]
    BY <1>1, <1>5, AddsAt
  <1>7. QED
    BY <1>1, <1>3, <1>4, <1>6

LEMMA TotalType ==
  ASSUME NEW S, IsFiniteSet(S), \A v \in S : v.rating \in Nat
  PROVE  \A s \in SUBSET S : Total(s) \in Nat
  <1> DEFINE T == {s \in SUBSET S : Total(s) \notin Nat}
  <1> SUFFICES ASSUME T # {} PROVE FALSE
    OBVIOUS
  <1>1. T \in SUBSET SUBSET S
    OBVIOUS
  <1>2. PICK x \in T : \A y \in T : y \subseteq x => y = x
    <2> HIDE DEF T
    <2>1. QED
      BY <1>1, LeastSubset
  <1>3. x \in SUBSET S /\ IsFiniteSet(x) /\ Total(x) \notin Nat
    BY <1>2, FS_Subset
  <1>4. x # {}
    <2>1. Total({}) = 0
      BY TotalStep, FS_EmptySet
    <2>2. QED
      BY <1>3, <2>1
  <1>5. Chosen(x) \in x
    BY <1>4, ChosenIsMember
  <1>6. Total(x \ {Chosen(x)}) \in Nat
    BY <1>2, <1>3, <1>5
  <1>7. Total(x) = Chosen(x).rating + Total(x \ {Chosen(x)})
    BY <1>3, <1>4, TotalStep
  <1>8. Chosen(x).rating \in Nat
    BY <1>3, <1>5
  <1>9. QED
    BY <1>3, <1>6, <1>7, <1>8

\* The order in which MapThenSumSet takes the elements does not matter.
LEMMA TotalRemove ==
  ASSUME NEW S, IsFiniteSet(S), \A v \in S : v.rating \in Nat
  PROVE  \A s \in SUBSET S : \A v \in s : Total(s) = v.rating + Total(s \ {v})
  <1> DEFINE T == {s \in SUBSET S : \E v \in s : Total(s) # v.rating + Total(s \ {v})}
  <1> SUFFICES ASSUME T # {} PROVE FALSE
    OBVIOUS
  <1>1. T \in SUBSET SUBSET S
    OBVIOUS
  <1>2. PICK x \in T : \A y \in T : y \subseteq x => y = x
    <2> HIDE DEF T
    <2>1. QED
      BY <1>1, LeastSubset
  <1>3. x \in SUBSET S /\ IsFiniteSet(x)
    BY <1>2, FS_Subset
  <1>4. PICK v \in x : Total(x) # v.rating + Total(x \ {v})
    BY <1>2
  <1> DEFINE w == Chosen(x)
             rest == x \ {v, w}
  <1>5. w \in x /\ Total(x) = w.rating + Total(x \ {w})
    <2>1. x # {}
      BY <1>4
    <2>2. Total(x) = Chosen(x).rating + Total(x \ {Chosen(x)})
      BY <1>3, <2>1, TotalStep
    <2>3. QED
      BY <2>1, <2>2, ChosenIsMember
  <1>6. w # v
    BY <1>4, <1>5
  <1> HIDE DEF w
  <1>7. Total(x \ {w}) = v.rating + Total(rest)
    <2>1. x \ {w} \notin T /\ v \in x \ {w} /\ x \ {w} \in SUBSET S
      BY <1>2, <1>3, <1>4, <1>5, <1>6
    <2>2. (x \ {w}) \ {v} = rest
      OBVIOUS
    <2>3. QED
      BY <2>1, <2>2
  <1>8. Total(x \ {v}) = w.rating + Total(rest)
    <2>1. x \ {v} \notin T /\ w \in x \ {v} /\ x \ {v} \in SUBSET S
      BY <1>2, <1>3, <1>4, <1>5, <1>6
    <2>2. (x \ {v}) \ {w} = rest
      OBVIOUS
    <2>3. QED
      BY <2>1, <2>2
  <1>9. v.rating \in Nat /\ w.rating \in Nat /\ Total(rest) \in Nat
    BY <1>3, <1>4, <1>5, TotalType
  <1>10. QED
    BY <1>4, <1>5, <1>7, <1>8, <1>9

LEMMA TotalsMatchIs == TotalsOK => TotalsMatch
  BY DEF TotalsOK, TotalsMatch, Total

-----------------------------------------------------------------------------
(* What a step does to the requests.                                        *)

LEMMA NoneApart == None \notin AnyTransaction
  BY CatalogAssumption DEF AnyTransaction

LEMMA FieldTypes ==
  ASSUME NEW t \in AnyTransaction
  PROVE  /\ t.op = "review" => t \in [op : {"review"}, author : Users, content : Contents,
                                     row : Rows, rating : Ratings]
         /\ t.op = "editReview" => t \in [op : {"editReview"}, id : Requests, rating : Ratings]
         /\ t.op = "deleteReview" => t \in [op : {"deleteReview"}, id : Requests]
         /\ t.op = "patch" => t \in [op : {"patch"}, content : Contents, row : Rows,
                                    title : Titles, held : SUBSET Mappings,
                                    names : SUBSET Names, fresh : SUBSET Names]
         /\ t.op = "deleteContent" => t \in [op : {"deleteContent"}, content : Contents,
                                            held : SUBSET Mappings]
         /\ t.op = "create" => t \in [op : {"create"}, content : Contents,
                                     todo : SUBSET Names, tag : Names \cup {None},
                                     known : BOOLEAN]
         /\ t.op = "import" => \E K \in SUBSET Keys :
                t \in [op : {"import"}, chunk : [K -> Items], found : [K -> Contents \cup {None}],
                      row : [K -> Rows \cup {None}], lacks : [K -> SUBSET Names],
                      fresh : SUBSET Names]
  BY DEF AnyTransaction, Transactions, Imports

LEMMA BeginEffect ==
  ASSUME ProgressTyped, NEW r \in Requests, NEW goes \in BOOLEAN, NEW t,
         goes => t \in AnyTransaction, Begin(r, goes, t)
  PROVE  /\ ProgressTyped' /\ UNCHANGED tables
         /\ MayStart(r) /\ pc'[r] # "new"
         /\ pc'[r] = "open" => goes /\ tx'[r] = t
         /\ \A q \in Requests \ {r} : pc'[q] = pc[q] /\ tx'[q] = tx[q]
  <1>1. t \in AnyTransaction => t # None
    BY NoneApart
  <1>2. CASE goes
    BY <1>1, <1>2 DEF ProgressTyped, Begin
  <1>3. CASE ~goes
    BY <1>3 DEF ProgressTyped, Begin, MayStart
  <1>4. QED
    BY <1>2, <1>3

LEMMA EndEffect ==
  ASSUME ProgressTyped, NEW r \in Requests, pc[r] = "open",
         NEW how \in {"done", "failed"}, End(r, how)
  PROVE  /\ ProgressTyped' /\ pc'[r] = how
         /\ \A q \in Requests \ {r} : pc'[q] = pc[q] /\ tx'[q] = tx[q]
  BY DEF ProgressTyped, End

\* A step of createContent that stays open.
LEMMA GoesOnEffect ==
  ASSUME ProgressTyped, NEW r \in Requests, pc[r] = "open" \/ MayStart(r),
         NEW t \in AnyTransaction,
         pc' = [pc EXCEPT ![r] = "open"], tx' = [tx EXCEPT ![r] = t]
  PROVE  /\ ProgressTyped' /\ pc'[r] = "open" /\ tx'[r] = t
         /\ \A q \in Requests \ {r} : pc'[q] = pc[q] /\ tx'[q] = tx[q]
  <1>1. t # None
    BY NoneApart
  <1>2. QED
    BY <1>1 DEF ProgressTyped

\* Contents that are there keep their keys, and none comes back.
Evolves ==
    /\ lastId <= lastId' /\ tags \subseteq tags'
    /\ \A c \in Contents : c <= lastId /\ content'[c] # None =>
           content[c] # None /\ content'[c].key = content[c].key

\* Nothing that is stored comes from the import.
ByHand == \A c \in Contents : content'[c] # None /\ content[c] = None => content'[c].key = None

LEMMA OthersKeep ==
  ASSUME TablesTyped, TablesTyped', TablesOK, Evolves, UNCHANGED setting, setting.overlap,
         NEW q \in Requests, tx[q] \in AnyTransaction, TxOK(q), tx'[q] = tx[q],
         tx[q].op = "import" => q = chunks' /\ chunks' > 0 /\ ByHand
  PROVE  TxOK(q)'
  <1> DEFINE t == tx[q]
  <1>1. \A c \in Contents : c <= lastId /\ content'[c] # None =>
           content[c] # None /\ content'[c].key = content[c].key
    BY DEF Evolves
  <1>2. \A c \in Contents : c <= lastId => c <= lastId'
    <2>1. lastId \in Int /\ lastId' \in Int /\ lastId <= lastId'
      BY CatalogAssumption DEF TablesTyped, Evolves
    <2>2. QED
      BY <2>1 DEF Contents
  <1>3. t.op \in {"review", "patch"} => Holds(t)'
    <2> SUFFICES ASSUME t.op \in {"review", "patch"} PROVE Holds(t)'
      OBVIOUS
    <2>1. t.content \in Contents /\ Holds(t)
      BY FieldTypes DEF TxOK
    <2>2. t.content <= lastId' /\ (content'[t.content] # None => content'[t.content].key = t.row.key)
      BY <1>1, <1>2, <2>1 DEF Holds
    <2>3. QED
      BY <2>2 DEF Holds
  <1>4. t.op = "patch" => t.names \subseteq tags' \cup t.fresh
    BY DEF TxOK, Evolves
  <1>5. t.op = "create" => t.content <= lastId' /\ (t.known => t.tag \in tags')
    <2> SUFFICES ASSUME t.op = "create" PROVE t.content <= lastId' /\ (t.known => t.tag \in tags')
      OBVIOUS
    <2>1. t.content \in Contents
      BY FieldTypes
    <2>2. QED
      BY <1>2, <2>1 DEF TxOK, Evolves
  <1>6. t.op = "import" => q = chunks' /\ chunks' > 0 /\ ImportOK(t)'
    <2> SUFFICES ASSUME t.op = "import" PROVE ImportOK(t)'
      OBVIOUS
    <2>1. ImportOK(t) /\ ByHand
      BY DEF TxOK
    <2>2. PICK K \in SUBSET Keys :
              t \in [op : {"import"}, chunk : [K -> Items], found : [K -> Contents \cup {None}],
                    row : [K -> Rows \cup {None}], lacks : [K -> SUBSET Names],
                    fresh : SUBSET Names]
      BY FieldTypes
    <2>3. \A k \in DOMAIN t.chunk : k \in Keys /\ k # None /\ t.found[k] \in Contents \cup {None}
      BY <2>2, CatalogAssumption
    <2>4. \A k \in DOMAIN t.chunk : t.lacks[k] \subseteq tags' \cup t.fresh
      BY <2>1 DEF ImportOK, Evolves
    <2>5. ASSUME NEW k \in DOMAIN t.chunk, t.found[k] = None
          PROVE  \A c \in Contents : content'[c] # None => content'[c].key # k
      <3>1. \A c \in Contents : content[c] # None => content[c].key # k
        BY <2>1, <2>5 DEF ImportOK
      <3>2. \A c \in Contents : content[c] # None => c <= lastId
        BY DEF TxOK, TablesOK
      <3>3. QED
        BY <1>1, <2>1, <2>3, <2>5, <3>1, <3>2 DEF ByHand
    <2>6. ASSUME NEW k \in DOMAIN t.chunk, t.found[k] # None
          PROVE  /\ t.found[k] <= lastId'
                 /\ content'[t.found[k]] # None => content'[t.found[k]].key = k
      <3>1. t.found[k] \in Contents
        BY <2>3, <2>6
      <3>2. t.found[k] <= lastId /\ (content[t.found[k]] # None => content[t.found[k]].key = k)
        BY <2>1, <2>6 DEF ImportOK
      <3>3. QED
        BY <1>1, <1>2, <3>1, <3>2
    <2>7. QED
      BY <2>1, <2>4, <2>5, <2>6 DEF ImportOK
  <1>7. QED
    BY <1>3, <1>4, <1>5, <1>6 DEF TxOK

\* All requests after a step of r.
LEMMA ProgressKeeps ==
  ASSUME CatalogOK, TablesTyped', Evolves, UNCHANGED setting,
         NEW r \in Requests, pc[r] = "open" \/ MayStart(r),
         \A q \in Requests \ {r} : pc'[q] = pc[q] /\ tx'[q] = tx[q],
         pc'[r] = "open" => TxOK(r)',
         \A q \in Requests \ {r} : pc[q] = "open" /\ tx[q].op = "import" =>
             q = chunks' /\ chunks' > 0 /\ ByHand
  PROVE  ProgressOK' /\ OneByOne'
  <1>1. ASSUME NEW q \in Requests, q # r, pc'[q] = "open" PROVE TxOK(q)' /\ setting.overlap
    <2>1. pc[q] = "open" /\ tx'[q] = tx[q] /\ TxOK(q)
      BY <1>1 DEF CatalogOK, ProgressOK
    <2>2. setting.overlap
      BY <1>1, <2>1 DEF CatalogOK, OneByOne, MayStart
    <2>3. tx[q] \in AnyTransaction
      BY <2>1 DEF CatalogOK, ProgressTyped
    <2>4. QED
      BY <1>1, <2>1, <2>2, <2>3, OthersKeep DEF CatalogOK
  <1>2. ProgressOK'
    BY <1>1 DEF ProgressOK
  <1>3. OneByOne'
    BY <1>1 DEF OneByOne
  <1>4. QED
    BY <1>2, <1>3

\* The tables after a step that leaves them alone.
LEMMA TablesStay ==
  ASSUME CatalogOK, UNCHANGED <<setting, tables>>
  PROVE  /\ TablesTyped' /\ TablesOK'
         /\ ReviewsHaveContent' /\ KeyOnce' /\ TotalsOK'
         /\ Evolves /\ ByHand
  <1>1. lastId \in Int
    BY CatalogAssumption DEF CatalogOK, TablesTyped
  <1>2. TablesTyped' /\ TablesOK' /\ ReviewsHaveContent' /\ KeyOnce'
    <2>1. TablesTyped' /\ ReviewsHaveContent'
      BY DEF CatalogOK, tables, TablesTyped, ReviewsHaveContent
    <2>2. TablesOK'
      BY DEF CatalogOK, tables, TablesOK
    <2>3. KeyOnce'
      BY DEF CatalogOK, tables, KeyOnce
    <2>4. QED
      BY <2>1, <2>2, <2>3
  <1>3. TotalsOK'
    BY DEF CatalogOK, tables, TotalsOK, ReviewsOf
  <1>4. Evolves /\ ByHand
    BY <1>1 DEF tables, Evolves, ByHand
  <1>5. QED
    BY <1>2, <1>3, <1>4

\* A step that begins, goes on or ends and leaves the tables alone.
LEMMA ReadingKeeps ==
  ASSUME CatalogOK, ProgressTyped', UNCHANGED <<setting, tables, chunks>>,
         NEW r \in Requests, pc[r] = "open" \/ MayStart(r),
         \A q \in Requests \ {r} : pc'[q] = pc[q] /\ tx'[q] = tx[q],
         pc'[r] = "open" => TxOK(r)'
  PROVE  CatalogOK'
  <1>1. \A q \in Requests : pc[q] = "open" /\ tx[q].op = "import" => q = chunks /\ chunks > 0
    BY DEF CatalogOK, ProgressOK, TxOK
  <1>2. ProgressOK' /\ OneByOne'
    BY <1>1, TablesStay, ProgressKeeps
  <1>3. QED
    BY <1>2, TablesStay DEF CatalogOK

\* A commit by anybody but the import.
LEMMA CommitKeeps ==
  ASSUME CatalogOK, NEW r \in Requests, pc[r] = "open", End(r, "done"),
         UNCHANGED <<setting, chunks>>,
         TablesTyped', TablesOK', ReviewsHaveContent', KeyOnce', TotalsOK',
         Evolves, ByHand
  PROVE  CatalogOK'
  <1>1. /\ ProgressTyped' /\ pc'[r] = "done"
        /\ \A q \in Requests \ {r} : pc'[q] = pc[q] /\ tx'[q] = tx[q]
    BY EndEffect DEF CatalogOK
  <1>2. \A q \in Requests : pc[q] = "open" /\ tx[q].op = "import" => q = chunks /\ chunks > 0
    BY DEF CatalogOK, ProgressOK, TxOK
  <1>3. ProgressOK' /\ OneByOne'
    BY <1>1, <1>2, ProgressKeeps
  <1>4. QED
    BY <1>1, <1>3 DEF CatalogOK

-----------------------------------------------------------------------------
(* Requests begin.                                                          *)

LEMMA RowsAreRecords == \A c \in Contents : TablesTyped /\ content[c] # None => content[c] \in Rows
  BY DEF TablesTyped

LEMMA CreateReviewKeeps ==
  ASSUME CatalogOK, UNCHANGED <<setting, chunks>>, NEW r \in Requests,
         NEW u \in Users, NEW c \in 1..lastId, NEW rating \in Ratings,
         CreateReview(r, u, c, rating)
  PROVE  CatalogOK'
  <1> DEFINE goes == content[c] # None /\ \A v \in ReviewsOf(c) : v.author # u
             t == [op |-> "review", author |-> u, content |-> c, row |-> content[c],
                   rating |-> rating]
  <1>1. Begin(r, goes, t) /\ goes \in BOOLEAN
    BY DEF CreateReview
  <1>2. c \in Contents /\ c <= lastId
    BY CatalogAssumption DEF CatalogOK, TablesTyped, Contents
  <1>3. goes => t \in AnyTransaction
    BY <1>2, RowsAreRecords DEF CatalogOK, AnyTransaction, Transactions, Imports
  <1>4. /\ ProgressTyped' /\ UNCHANGED tables /\ MayStart(r)
        /\ pc'[r] = "open" => goes /\ tx'[r] = t
        /\ \A q \in Requests \ {r} : pc'[q] = pc[q] /\ tx'[q] = tx[q]
    BY <1>1, <1>3, BeginEffect DEF CatalogOK
  <1>5. pc'[r] = "open" => TxOK(r)'
    BY <1>2, <1>4 DEF tables, TxOK, Holds, ReviewsOf
  <1>6. QED
    BY <1>4, <1>5, ReadingKeeps

LEMMA EditReviewKeeps ==
  ASSUME CatalogOK, UNCHANGED <<setting, chunks>>, setting.edits, NEW r \in Requests,
         NEW u \in Users, NEW v \in review,
         \/ DeleteReview(r, u, v)
         \/ \E rating \in Ratings : UpdateReview(r, u, v, rating)
  PROVE  CatalogOK'
  <1>1. v.id \in Requests
    BY DEF CatalogOK, TablesTyped, Reviews
  <1>2. PICK goes \in BOOLEAN, t \in AnyTransaction :
            Begin(r, goes, t) /\ t.op \in {"editReview", "deleteReview"}
    <2>1. CASE DeleteReview(r, u, v)
      <3>1. [op |-> "deleteReview", id |-> v.id] \in AnyTransaction
        BY <1>1 DEF AnyTransaction, Transactions, Imports
      <3>2. QED
        BY <2>1, <3>1 DEF DeleteReview
    <2>2. CASE \E rating \in Ratings : UpdateReview(r, u, v, rating)
      <3>1. PICK rating \in Ratings : UpdateReview(r, u, v, rating)
        BY <2>2
      <3>2. [op |-> "editReview", id |-> v.id, rating |-> rating] \in AnyTransaction
        BY <1>1 DEF AnyTransaction, Transactions, Imports
      <3>3. QED
        BY <3>1, <3>2 DEF UpdateReview
    <2>3. QED
      BY <2>1, <2>2
  <1>3. /\ ProgressTyped' /\ UNCHANGED tables /\ MayStart(r)
        /\ pc'[r] = "open" => tx'[r] = t
        /\ \A q \in Requests \ {r} : pc'[q] = pc[q] /\ tx'[q] = tx[q]
    BY <1>2, BeginEffect DEF CatalogOK
  <1>4. pc'[r] = "open" => TxOK(r)'
    BY <1>2, <1>3 DEF TxOK
  <1>5. QED
    BY <1>3, <1>4, ReadingKeeps

LEMMA PatchContentKeeps ==
  ASSUME CatalogOK, UNCHANGED <<setting, chunks>>, setting.admin, NEW r \in Requests,
         NEW c \in 1..lastId, NEW title \in Titles, NEW tagged \in BOOLEAN,
         NEW names \in SUBSET Names, PatchContent(r, c, title, tagged, names)
  PROVE  CatalogOK'
  <1> DEFINE goes == content[c] # None
             t == [op |-> "patch", content |-> c, row |-> content[c], title |-> title,
                   held |-> IF tagged THEN MappingsOf(c) ELSE {},
                   names |-> names, fresh |-> names \ tags]
  <1>1. Begin(r, goes, t) /\ goes \in BOOLEAN
    BY DEF PatchContent
  <1>2. c \in Contents /\ c <= lastId
    BY CatalogAssumption DEF CatalogOK, TablesTyped, Contents
  <1>3. goes => t \in AnyTransaction
    <2>1. t.held \subseteq Mappings
      BY DEF CatalogOK, TablesTyped, MappingsOf
    <2>2. QED
      BY <1>2, <2>1, RowsAreRecords DEF CatalogOK, AnyTransaction, Transactions, Imports
  <1>4. /\ ProgressTyped' /\ UNCHANGED tables /\ MayStart(r)
        /\ pc'[r] = "open" => goes /\ tx'[r] = t
        /\ \A q \in Requests \ {r} : pc'[q] = pc[q] /\ tx'[q] = tx[q]
    BY <1>1, <1>3, BeginEffect DEF CatalogOK
  <1>5. pc'[r] = "open" => TxOK(r)'
    BY <1>2, <1>4 DEF tables, TxOK, Holds
  <1>6. QED
    BY <1>4, <1>5, ReadingKeeps

LEMMA DeleteContentKeeps ==
  ASSUME CatalogOK, UNCHANGED <<setting, chunks>>, setting.admin, NEW r \in Requests,
         NEW c \in 1..lastId, DeleteContent(r, c)
  PROVE  CatalogOK'
  <1> DEFINE t == [op |-> "deleteContent", content |-> c, held |-> MappingsOf(c)]
  <1>1. Begin(r, content[c] # None, t)
    BY DEF DeleteContent
  <1>2. t \in AnyTransaction
    <2>1. c \in Contents /\ MappingsOf(c) \subseteq Mappings
      BY CatalogAssumption DEF CatalogOK, TablesTyped, Contents, MappingsOf
    <2>2. QED
      BY <2>1 DEF AnyTransaction, Transactions, Imports
  <1>3. /\ ProgressTyped' /\ UNCHANGED tables /\ MayStart(r)
        /\ pc'[r] = "open" => tx'[r] = t
        /\ \A q \in Requests \ {r} : pc'[q] = pc[q] /\ tx'[q] = tx[q]
    BY <1>1, <1>2, BeginEffect DEF CatalogOK
  <1>4. pc'[r] = "open" => TxOK(r)'
    BY <1>3 DEF TxOK
  <1>5. QED
    BY <1>3, <1>4, ReadingKeeps

-----------------------------------------------------------------------------
(* Commits.                                                                 *)

KeysDiffer ==
    \A c, d \in Contents :
        /\ content[c] # None /\ content[d] # None
        /\ content[c].key = content[d].key /\ content[c].key # None
        => c = d

ReviewedOnce ==
    ~setting.overlap =>
        \A v, w \in review : v.author = w.author /\ v.content = w.content => v = w

LEMMA KeysStay ==
  ASSUME CatalogOK, Evolves, ByHand
  PROVE  KeysDiffer'
  <1>1. ASSUME NEW c \in Contents, content'[c] # None, content'[c].key # None
        PROVE  content[c] # None /\ content[c].key = content'[c].key
    <2>1. content[c] # None
      BY <1>1 DEF ByHand
    <2>2. c <= lastId
      BY <2>1 DEF CatalogOK, TablesOK
    <2>3. QED
      BY <1>1, <2>1, <2>2 DEF Evolves
  <1>2. QED
    BY <1>1 DEF CatalogOK, KeyOnce, KeysDiffer

LEMMA WriteBackEffect ==
  ASSUME CatalogOK, NEW c \in Contents, NEW old \in Rows, NEW new \in Rows, WriteBack(c, old, new)
  PROVE  /\ content' \in [Contents -> Rows \cup {None}]
         /\ \A d \in Contents : content'[d] # None <=> content[d] # None
         /\ \A d \in Contents \ {c} : content'[d] = content[d]
         /\ content'[c] = content[c] \/ content'[c] = new
         /\ new # old => content[c] # None /\ content'[c] = new
         /\ new = old => content' = content
  <1>1. new # None /\ content \in [Contents -> Rows \cup {None}]
    BY CatalogAssumption DEF CatalogOK, TablesTyped
  <1>2. QED
    BY <1>1 DEF WriteBack

\* The row that is written back has the key of the row that is there.
LEMMA WrittenBack ==
  ASSUME CatalogOK, NEW c \in Contents, NEW old \in Rows, NEW new \in Rows,
         WriteBack(c, old, new), new.key = old.key,
         content[c] # None => content[c].key = old.key,
         lastId' = lastId, tags \subseteq tags'
  PROVE  Evolves /\ ByHand
  <1>1. /\ \A d \in Contents : content'[d] # None <=> content[d] # None
        /\ \A d \in Contents \ {c} : content'[d] = content[d]
        /\ content'[c] = content[c] \/ content'[c] = new
    BY WriteBackEffect
  <1>2. lastId \in Int
    BY CatalogAssumption DEF CatalogOK, TablesTyped
  <1>3. \A d \in Contents : content'[d] # None =>
            content[d] # None /\ content'[d].key = content[d].key
    BY <1>1
  <1>4. QED
    BY <1>1, <1>2, <1>3 DEF Evolves, ByHand

LEMMA RatedType ==
  ASSUME NEW row \in Rows, NEW rating \in Ratings
  PROVE  /\ Rated(row, rating) \in Rows /\ Rated(row, rating) # row
         /\ Rated(row, rating).key = row.key /\ Rated(row, rating).title = row.title
         /\ Rated(row, rating).sum = row.sum + rating
         /\ Rated(row, rating).count = row.count + 1
  <1>1. rating \in Nat
    BY CatalogAssumption
  <1>2. row.sum + rating \in Nat /\ row.count + 1 \in Nat
    BY <1>1 DEF Rows
  <1>3. row.count + 1 # row.count
    BY DEF Rows
  <1>4. QED
    BY <1>2, <1>3 DEF Rated, Rows

LEMMA ReviewsFinite ==
  ASSUME CatalogOK, NEW c
  PROVE  /\ ReviewsOf(c) \in SUBSET review /\ IsFiniteSet(ReviewsOf(c))
         /\ \A v \in ReviewsOf(c) : v.rating \in Nat
  <1>1. ReviewsOf(c) \in SUBSET review
    BY DEF ReviewsOf
  <1>2. IsFiniteSet(ReviewsOf(c))
    BY <1>1, FS_Subset DEF CatalogOK, TablesOK
  <1>3. \A v \in ReviewsOf(c) : v.rating \in Nat
    <2>1. \A v \in review : v \in Reviews
      BY DEF CatalogOK, TablesTyped
    <2>2. \A v \in Reviews : v.rating \in Ratings
      BY DEF Reviews
    <2>3. Ratings \subseteq Nat
      BY CatalogAssumption
    <2>4. QED
      BY <1>1, <2>1, <2>2, <2>3
  <1>4. QED
    BY <1>1, <1>2, <1>3

LEMMA CommitReviewKeeps ==
  ASSUME CatalogOK, UNCHANGED <<setting, chunks>>, NEW r \in Requests, CommitReview(r)
  PROVE  CatalogOK'
  <1>0. PICK t : t = tx[r]
    OBVIOUS
  <1> DEFINE c == t.content
             new == Rated(t.row, t.rating)
             v == [id |-> r, author |-> t.author, content |-> c, rating |-> t.rating]
  <1>1. /\ pc[r] = "open" /\ t.op = "review" /\ End(r, "done")
        /\ WriteBack(c, t.row, new) /\ review' = review \cup {v}
        /\ UNCHANGED <<lastId, tags, mapping>>
    BY <1>0 DEF CommitReview, Doing
  <1>2. TxOK(r) /\ t \in AnyTransaction
    BY <1>0, <1>1 DEF CatalogOK, ProgressOK, ProgressTyped
  <1>3. t \in [op : {"review"}, author : Users, content : Contents, row : Rows, rating : Ratings]
    BY <1>1, <1>2, FieldTypes
  <1>4. c \in Contents /\ t.row \in Rows /\ t.rating \in Ratings /\ v \in Reviews
    BY <1>3 DEF Reviews
  <1>5. Holds(t) /\ (~setting.overlap => \A w \in ReviewsOf(c) : w.author # t.author)
    BY <1>0, <1>1, <1>2 DEF TxOK
  <1>6. /\ new \in Rows /\ new # t.row /\ new.key = t.row.key
        /\ new.sum = t.row.sum + t.rating /\ new.count = t.row.count + 1
    BY <1>4, RatedType
  <1> HIDE DEF new
  <1>7. /\ content' \in [Contents -> Rows \cup {None}]
        /\ \A d \in Contents : content'[d] # None <=> content[d] # None
        /\ \A d \in Contents \ {c} : content'[d] = content[d]
        /\ content[c] # None /\ content'[c] = new
    BY <1>1, <1>4, <1>6, WriteBackEffect
  <1>8. Evolves /\ ByHand
    BY <1>1, <1>4, <1>5, <1>6, WrittenBack DEF Holds
  <1>9. TablesTyped'
    BY <1>1, <1>4, <1>7 DEF CatalogOK, TablesTyped
  <1>10. TablesOK'
    <2>1. IsFiniteSet(review')
      BY <1>1, FS_AddElement DEF CatalogOK, TablesOK
    <2>2. \A m \in mapping' : m.tag \in tags' /\ content'[m.content] # None
      BY <1>1, <1>7 DEF CatalogOK, TablesOK, TablesTyped, Mappings
    <2>3. \A w \in review' : w.content <= lastId'
      BY <1>1, <1>5 DEF CatalogOK, TablesOK, Holds
    <2>4. \A d \in Contents : content'[d] # None => d <= lastId'
      BY <1>1, <1>7 DEF CatalogOK, TablesOK
    <2>5. QED
      BY <2>1, <2>2, <2>3, <2>4 DEF TablesOK
  <1>11. ReviewsHaveContent'
    BY <1>1, <1>4, <1>7 DEF CatalogOK, TablesTyped, Reviews, ReviewsHaveContent
  <1>12. KeyOnce'
    <2>1. KeysDiffer'
      BY <1>8, KeysStay
    <2>2. ReviewedOnce'
      BY <1>1, <1>5 DEF CatalogOK, KeyOnce, ReviewedOnce, ReviewsOf
    <2>3. QED
      BY <2>1, <2>2 DEF KeyOnce, KeysDiffer, ReviewedOnce
  <1>13. TotalsOK'
    <2> SUFFICES ASSUME ~setting.overlap, ~setting.edits, NEW d \in Contents, content'[d] # None
                 PROVE  /\ content'[d].count = Cardinality(ReviewsOf(d)')
                        /\ content'[d].sum = Total(ReviewsOf(d)')
      BY DEF TotalsOK
    <2>1. content[d] # None /\ content[d].count = Cardinality(ReviewsOf(d))
              /\ content[d].sum = Total(ReviewsOf(d))
      BY <1>7 DEF CatalogOK, TotalsOK
    <2>2. CASE d # c
      <3>1. ReviewsOf(d)' = ReviewsOf(d)
        BY <1>1, <2>2 DEF ReviewsOf
      <3>2. QED
        BY <1>7, <2>1, <2>2, <3>1
    <2>3. CASE d = c
      <3> DEFINE S == ReviewsOf(c)
                 U == S \cup {v}
      <3>1. ReviewsOf(c)' = U
        BY <1>1 DEF ReviewsOf
      <3>2. v \notin S /\ U \ {v} = S
        BY <1>5
      <3>3. IsFiniteSet(S) /\ \A w \in S : w.rating \in Nat
        BY ReviewsFinite
      <3>4. v.rating = t.rating /\ t.rating \in Nat
        BY <1>4, CatalogAssumption
      <3>5. IsFiniteSet(U) /\ Cardinality(U) = Cardinality(S) + 1 /\ \A w \in U : w.rating \in Nat
        BY <3>2, <3>3, <3>4, FS_AddElement
      <3>6. U \in SUBSET U /\ v \in U
        OBVIOUS
      <3> HIDE DEF U, S, v
      <3>7. Total(U) = v.rating + Total(S)
        BY <3>2, <3>5, <3>6, TotalRemove
      <3>8. Total(S) \in Nat
        <4>1. S \in SUBSET S
          OBVIOUS
        <4>2. QED
          BY <3>3, <4>1, TotalType
      <3>9. content[c] = t.row
        BY <1>5 DEF Holds
      <3>10. t.row.count = Cardinality(S) /\ t.row.sum = Total(S)
        BY <2>1, <2>3, <3>9 DEF S
      <3>11. content'[c].count = Cardinality(U) /\ content'[c].sum = Total(U)
        BY <1>6, <1>7, <3>4, <3>5, <3>7, <3>8, <3>10
      <3>12. QED
        BY <2>3, <3>1, <3>11
    <2>4. QED
      BY <2>2, <2>3
  <1>14. QED
    BY <1>1, <1>8, <1>9, <1>10, <1>11, <1>12, <1>13, CommitKeeps

LEMMA CommitUpdateReviewKeeps ==
  ASSUME CatalogOK, UNCHANGED <<setting, chunks>>, NEW r \in Requests, CommitUpdateReview(r)
  PROVE  CatalogOK'
  <1>0. PICK t : t = tx[r]
    OBVIOUS
  <1>1. /\ pc[r] = "open" /\ t.op = "editReview" /\ End(r, "done")
        /\ UNCHANGED <<content, lastId, tags, mapping>>
    BY <1>0 DEF CommitUpdateReview, Doing
  <1>2. TxOK(r) /\ t \in AnyTransaction
    BY <1>0, <1>1 DEF CatalogOK, ProgressOK, ProgressTyped
  <1>3. setting.edits /\ t.rating \in Ratings
    BY <1>0, <1>1, <1>2, FieldTypes DEF TxOK
  <1>4. PICK v \in review : review' = (review \ {v}) \cup {[v EXCEPT !.rating = t.rating]}
    BY <1>0 DEF CommitUpdateReview
  <1>5. PICK w : w = [v EXCEPT !.rating = t.rating]
    OBVIOUS
  <1>6. v \in Reviews /\ w \in Reviews /\ w.content = v.content /\ w.author = v.author
    BY <1>3, <1>4, <1>5 DEF CatalogOK, TablesTyped, Reviews
  <1>7. review' = (review \ {v}) \cup {w}
    BY <1>4, <1>5
  <1>8. lastId \in Int
    BY CatalogAssumption DEF CatalogOK, TablesTyped
  <1>9. Evolves /\ ByHand
    BY <1>1, <1>8 DEF Evolves, ByHand
  <1>10. TablesTyped'
    BY <1>1, <1>6, <1>7 DEF CatalogOK, TablesTyped
  <1>11. TablesOK'
    <2>1. IsFiniteSet(review')
      BY <1>7, FS_AddElement, FS_RemoveElement DEF CatalogOK, TablesOK
    <2>2. QED
      BY <1>1, <1>4, <1>6, <1>7, <2>1 DEF CatalogOK, TablesOK
  <1>12. ReviewsHaveContent'
    BY <1>1, <1>4, <1>6, <1>7 DEF CatalogOK, ReviewsHaveContent
  <1>13. KeyOnce'
    <2>1. KeysDiffer'
      BY <1>9, KeysStay
    <2>2. ReviewedOnce'
      BY <1>1, <1>4, <1>6, <1>7 DEF CatalogOK, KeyOnce, ReviewedOnce
    <2>3. QED
      BY <2>1, <2>2 DEF KeyOnce, KeysDiffer, ReviewedOnce
  <1>14. TotalsOK'
    BY <1>3 DEF TotalsOK
  <1>15. QED
    BY <1>1, <1>9, <1>10, <1>11, <1>12, <1>13, <1>14, CommitKeeps

LEMMA CommitDeleteReviewKeeps ==
  ASSUME CatalogOK, UNCHANGED <<setting, chunks>>, NEW r \in Requests, CommitDeleteReview(r)
  PROVE  CatalogOK'
  <1>1. /\ pc[r] = "open" /\ tx[r].op = "deleteReview" /\ End(r, "done")
        /\ UNCHANGED <<content, lastId, tags, mapping>>
    BY DEF CommitDeleteReview, Doing
  <1>2. setting.edits
    BY <1>1 DEF CatalogOK, ProgressOK, TxOK
  <1>3. PICK v \in review : review' = review \ {v}
    BY DEF CommitDeleteReview
  <1>4. lastId \in Int
    BY CatalogAssumption DEF CatalogOK, TablesTyped
  <1>5. Evolves /\ ByHand
    BY <1>1, <1>4 DEF Evolves, ByHand
  <1>6. TablesTyped'
    BY <1>1, <1>3 DEF CatalogOK, TablesTyped
  <1>7. TablesOK'
    <2>1. IsFiniteSet(review')
      BY <1>3, FS_RemoveElement DEF CatalogOK, TablesOK
    <2>2. QED
      BY <1>1, <1>3, <2>1 DEF CatalogOK, TablesOK
  <1>8. ReviewsHaveContent'
    BY <1>1, <1>3 DEF CatalogOK, ReviewsHaveContent
  <1>9. KeyOnce'
    <2>1. KeysDiffer'
      BY <1>5, KeysStay
    <2>2. ReviewedOnce'
      BY <1>1, <1>3 DEF CatalogOK, KeyOnce, ReviewedOnce
    <2>3. QED
      BY <2>1, <2>2 DEF KeyOnce, KeysDiffer, ReviewedOnce
  <1>10. TotalsOK'
    BY <1>2 DEF TotalsOK
  <1>11. QED
    BY <1>1, <1>5, <1>6, <1>7, <1>8, <1>9, <1>10, CommitKeeps

\* A step that leaves the reviews alone, and the totals of each content.
LEMMA TotalsStay ==
  ASSUME CatalogOK, UNCHANGED <<setting, review>>,
         \A c \in Contents : content'[c] # None =>
             \/ /\ content[c] # None /\ content'[c].sum = content[c].sum
                /\ content'[c].count = content[c].count
             \/ c > lastId /\ content'[c].sum = 0 /\ content'[c].count = 0
  PROVE  TotalsOK'
  <1> SUFFICES ASSUME ~setting.overlap, ~setting.edits, NEW c \in Contents, content'[c] # None
               PROVE  /\ content'[c].count = Cardinality(ReviewsOf(c)')
                      /\ content'[c].sum = Total(ReviewsOf(c)')
    BY DEF TotalsOK
  <1>1. ReviewsOf(c)' = ReviewsOf(c)
    BY DEF ReviewsOf
  <1>2. CASE /\ content[c] # None /\ content'[c].sum = content[c].sum
             /\ content'[c].count = content[c].count
    BY <1>1, <1>2 DEF CatalogOK, TotalsOK
  <1>3. CASE c > lastId /\ content'[c].sum = 0 /\ content'[c].count = 0
    <2>1. lastId \in Int /\ c \in Int
      BY CatalogAssumption DEF CatalogOK, TablesTyped, Contents
    <2>2. ReviewsOf(c) = {}
      BY <1>3, <2>1 DEF CatalogOK, TablesTyped, TablesOK, Reviews, ReviewsOf, Contents
    <2>3. Cardinality({}) = 0 /\ Total({}) = 0
      BY FS_EmptySet, TotalStep
    <2>4. QED
      BY <1>1, <1>3, <2>2, <2>3
  <1>4. QED
    BY <1>2, <1>3

\* A step of r that stays open, or begins, and stores by hand.
LEMMA StepKeeps ==
  ASSUME CatalogOK, NEW r \in Requests, pc[r] = "open" \/ MayStart(r), ProgressTyped',
         \A q \in Requests \ {r} : pc'[q] = pc[q] /\ tx'[q] = tx[q],
         pc'[r] = "open" => TxOK(r)', UNCHANGED <<setting, chunks>>,
         TablesTyped', TablesOK', ReviewsHaveContent', KeyOnce', TotalsOK',
         Evolves, ByHand
  PROVE  CatalogOK'
  <1>1. \A q \in Requests : pc[q] = "open" /\ tx[q].op = "import" => q = chunks /\ chunks > 0
    BY DEF CatalogOK, ProgressOK, TxOK
  <1>2. ProgressOK' /\ OneByOne'
    BY <1>1, ProgressKeeps
  <1>3. QED
    BY <1>2 DEF CatalogOK

\* A step that leaves the reviews alone.
LEMMA KeyOnceStays ==
  ASSUME CatalogOK, Evolves, ByHand, UNCHANGED <<setting, review>>
  PROVE  KeyOnce'
  <1>1. KeysDiffer'
    BY KeysStay
  <1>2. ReviewedOnce'
    BY DEF CatalogOK, KeyOnce, ReviewedOnce
  <1>3. QED
    BY <1>1, <1>2 DEF KeyOnce, KeysDiffer, ReviewedOnce

LEMMA CommitPatchKeeps ==
  ASSUME CatalogOK, UNCHANGED <<setting, chunks>>, NEW r \in Requests, CommitPatch(r)
  PROVE  CatalogOK'
  <1>0. PICK t : t = tx[r]
    OBVIOUS
  <1> DEFINE c == t.content
             new == [t.row EXCEPT !.title = t.title]
             added == {[id |-> r, content |-> c, tag |-> n] : n \in t.names}
  <1>1. /\ pc[r] = "open" /\ t.op = "patch" /\ End(r, "done")
        /\ WriteBack(c, t.row, new) /\ InsertTags(t.fresh)
        /\ t.names # {} => content[c] # None
        /\ mapping' = (mapping \ t.held) \cup added
        /\ UNCHANGED <<lastId, review>>
    BY <1>0 DEF CommitPatch, Doing
  <1>2. TxOK(r) /\ t \in AnyTransaction
    BY <1>0, <1>1 DEF CatalogOK, ProgressOK, ProgressTyped
  <1>3. t \in [op : {"patch"}, content : Contents, row : Rows, title : Titles,
                held : SUBSET Mappings, names : SUBSET Names, fresh : SUBSET Names]
    BY <1>1, <1>2, FieldTypes
  <1>4. /\ c \in Contents /\ t.row \in Rows /\ t.title \in Titles
        /\ t.names \subseteq Names /\ t.fresh \subseteq Names
    BY <1>3
  <1>5. Holds(t) /\ t.names \subseteq tags \cup t.fresh
    BY <1>0, <1>1, <1>2 DEF TxOK
  <1>6. /\ new \in Rows /\ new.key = t.row.key
        /\ new.sum = t.row.sum /\ new.count = t.row.count
    BY <1>4 DEF Rows
  <1> HIDE DEF new
  <1>7. /\ content' \in [Contents -> Rows \cup {None}]
        /\ \A d \in Contents : content'[d] # None <=> content[d] # None
        /\ \A d \in Contents \ {c} : content'[d] = content[d]
        /\ content'[c] = content[c] \/ content'[c] = new
    BY <1>1, <1>4, <1>6, WriteBackEffect
  <1>8. tags \subseteq tags' /\ tags' = tags \cup t.fresh
    BY <1>1 DEF InsertTags
  <1>9. Evolves /\ ByHand
    BY <1>1, <1>4, <1>5, <1>6, <1>8, WrittenBack DEF Holds
  <1>10. added \subseteq Mappings /\ \A m \in added : m.tag \in tags' /\ content'[m.content] # None
    BY <1>1, <1>4, <1>5, <1>7, <1>8 DEF Mappings
  <1>11. TablesTyped'
    BY <1>1, <1>4, <1>7, <1>8, <1>10 DEF CatalogOK, TablesTyped
  <1>12. TablesOK'
    <2>1. \A m \in mapping : m.tag \in tags' /\ content'[m.content] # None
      BY <1>7, <1>8 DEF CatalogOK, TablesOK, TablesTyped, Mappings
    <2>2. \A m \in mapping' : m.tag \in tags' /\ content'[m.content] # None
      BY <1>1, <1>10, <2>1
    <2>3. QED
      BY <1>1, <1>7, <2>2 DEF CatalogOK, TablesOK
  <1>13. ReviewsHaveContent'
    BY <1>1, <1>7 DEF CatalogOK, TablesTyped, Reviews, ReviewsHaveContent
  <1>14. KeyOnce'
    BY <1>1, <1>9, KeyOnceStays
  <1>15. TotalsOK'
    <2>1. CASE setting.overlap
      BY <2>1 DEF TotalsOK
    <2>2. CASE ~setting.overlap
      <3>1. content[c] = t.row
        BY <1>5, <2>2 DEF Holds
      <3>2. \A d \in Contents : content'[d] # None =>
                /\ content[d] # None /\ content'[d].sum = content[d].sum
                /\ content'[d].count = content[d].count
        BY <1>6, <1>7, <3>1
      <3>3. QED
        BY <1>1, <3>2, TotalsStay
    <2>3. QED
      BY <2>1, <2>2
  <1>16. QED
    BY <1>1, <1>9, <1>11, <1>12, <1>13, <1>14, <1>15, CommitKeeps

LEMMA CommitDeleteContentKeeps ==
  ASSUME CatalogOK, UNCHANGED <<setting, chunks>>, NEW r \in Requests, CommitDeleteContent(r)
  PROVE  CatalogOK'
  <1>0. PICK t : t = tx[r]
    OBVIOUS
  <1> DEFINE c == t.content
  <1>1. /\ pc[r] = "open" /\ t.op = "deleteContent" /\ End(r, "done")
        /\ MappingsOf(c) = t.held
        /\ setting.generated => ReviewsOf(c) = {}
        /\ content' = [content EXCEPT ![c] = None]
        /\ mapping' = mapping \ t.held
        /\ UNCHANGED <<lastId, tags, review>>
    BY <1>0 DEF CommitDeleteContent, Doing
  <1>2. t \in AnyTransaction
    BY <1>0, <1>1 DEF CatalogOK, ProgressTyped
  <1>3. c \in Contents
    BY <1>1, <1>2, FieldTypes
  <1>4. /\ content' \in [Contents -> Rows \cup {None}]
        /\ content'[c] = None
        /\ \A d \in Contents \ {c} : content'[d] = content[d]
    BY <1>1, <1>3 DEF CatalogOK, TablesTyped
  <1>5. lastId \in Int
    BY CatalogAssumption DEF CatalogOK, TablesTyped
  <1>6. Evolves /\ ByHand
    BY <1>1, <1>4, <1>5 DEF Evolves, ByHand
  <1>7. TablesTyped'
    BY <1>1, <1>4 DEF CatalogOK, TablesTyped
  <1>8. TablesOK'
    <2>1. \A m \in mapping' : m \in mapping /\ m.content # c /\ m.content \in Contents
      BY <1>1 DEF CatalogOK, TablesTyped, Mappings, MappingsOf
    <2>2. QED
      BY <1>1, <1>4, <2>1 DEF CatalogOK, TablesOK
  <1>9. ReviewsHaveContent'
    <2>1. ASSUME setting.generated, NEW v \in review PROVE content'[v.content] # None
      <3>1. v.content # c /\ v.content \in Contents
        BY <1>1, <2>1 DEF CatalogOK, TablesTyped, Reviews, ReviewsOf
      <3>2. QED
        BY <1>4, <2>1, <3>1 DEF CatalogOK, ReviewsHaveContent
    <2>2. QED
      BY <1>1, <2>1 DEF ReviewsHaveContent
  <1>10. KeyOnce'
    BY <1>1, <1>6, KeyOnceStays
  <1>11. TotalsOK'
    BY <1>1, <1>4, TotalsStay
  <1>12. QED
    BY <1>1, <1>6, <1>7, <1>8, <1>9, <1>10, <1>11, CommitKeeps

LEMMA FailKeeps ==
  ASSUME CatalogOK, UNCHANGED <<setting, chunks>>, NEW r \in Requests, Fail(r)
  PROVE  CatalogOK'
  <1>1. pc[r] = "open" /\ End(r, "failed") /\ UNCHANGED tables
    BY DEF Fail
  <1>2. /\ ProgressTyped' /\ pc'[r] = "failed"
        /\ \A q \in Requests \ {r} : pc'[q] = pc[q] /\ tx'[q] = tx[q]
    BY <1>1, EndEffect DEF CatalogOK
  <1>3. QED
    BY <1>1, <1>2, ReadingKeeps

-----------------------------------------------------------------------------
(* createContent.                                                           *)

LEMMA SaveContentKeeps ==
  ASSUME CatalogOK, UNCHANGED <<setting, chunks>>, setting.admin, NEW r \in Requests,
         NEW title \in Titles, NEW names \in SUBSET Names, SaveContent(r, title, names)
  PROVE  CatalogOK'
  <1> DEFINE new == lastId + 1
             row == [key |-> None, title |-> title, sum |-> 0, count |-> 0]
             t == [op |-> "create", content |-> new, todo |-> names, tag |-> None, known |-> FALSE]
  <1>1. /\ MayStart(r) /\ lastId < MaxContents /\ lastId' = new
        /\ content' = [content EXCEPT ![new] = row]
        /\ pc' = [pc EXCEPT ![r] = "open"] /\ tx' = [tx EXCEPT ![r] = t]
        /\ UNCHANGED <<tags, mapping, review>>
    BY DEF SaveContent
  <1>2. lastId \in Int /\ new \in Contents /\ new \in 0..MaxContents
    BY <1>1, CatalogAssumption DEF CatalogOK, TablesTyped, Contents
  <1>3. row \in Rows /\ row # None /\ row.key = None /\ row.sum = 0 /\ row.count = 0
    BY CatalogAssumption DEF Rows
  <1>4. t \in AnyTransaction
    BY <1>2 DEF AnyTransaction, Transactions, Imports
  <1>5. /\ ProgressTyped' /\ pc'[r] = "open" /\ tx'[r] = t
        /\ \A q \in Requests \ {r} : pc'[q] = pc[q] /\ tx'[q] = tx[q]
    BY <1>1, <1>4, GoesOnEffect DEF CatalogOK
  <1> HIDE DEF row
  <1>6. /\ content' \in [Contents -> Rows \cup {None}] /\ content'[new] = row
        /\ \A d \in Contents \ {new} : content'[d] = content[d]
    BY <1>1, <1>2, <1>3 DEF CatalogOK, TablesTyped
  <1>7. new > lastId /\ \A d \in Contents : d <= lastId => d # new /\ d <= new
    BY <1>2 DEF Contents
  <1>8. content[new] = None
    BY <1>2, <1>7 DEF CatalogOK, TablesOK
  <1>9. Evolves
    BY <1>1, <1>2, <1>6, <1>7 DEF Evolves
  <1>10. ByHand
    BY <1>3, <1>6 DEF ByHand
  <1>11. TablesTyped'
    BY <1>1, <1>2, <1>6 DEF CatalogOK, TablesTyped
  <1>12. TablesOK'
    <2>1. \A d \in Contents : content'[d] # None => d <= lastId'
      BY <1>1, <1>2, <1>6, <1>7 DEF CatalogOK, TablesOK
    <2>2. \A m \in mapping' : m.tag \in tags' /\ content'[m.content] # None
      BY <1>1, <1>3, <1>6 DEF CatalogOK, TablesOK, TablesTyped, Mappings
    <2>3. \A v \in review' : v.content <= lastId'
      BY <1>1, <1>7 DEF CatalogOK, TablesOK, TablesTyped, Reviews
    <2>4. QED
      BY <1>1, <2>1, <2>2, <2>3 DEF CatalogOK, TablesOK
  <1>13. ReviewsHaveContent'
    BY <1>1, <1>3, <1>6 DEF CatalogOK, TablesTyped, Reviews, ReviewsHaveContent
  <1>14. KeyOnce'
    BY <1>1, <1>9, <1>10, KeyOnceStays
  <1>15. TotalsOK'
    <2>1. \A c \in Contents : content'[c] # None =>
             \/ /\ content[c] # None /\ content'[c].sum = content[c].sum
                /\ content'[c].count = content[c].count
             \/ c > lastId /\ content'[c].sum = 0 /\ content'[c].count = 0
      BY <1>3, <1>6, <1>7
    <2>2. QED
      BY <1>1, <2>1, TotalsStay
  <1>16. TxOK(r)'
    <2>1. t.content <= lastId' /\ ~t.known
      BY <1>1, <1>2
    <2>2. QED
      BY <1>5, <2>1 DEF TxOK
  <1>17. QED
    BY <1>1, <1>5, <1>9, <1>10, <1>11, <1>12, <1>13, <1>14, <1>15, <1>16, StepKeeps

\* A createContent that is under way.
LEMMA Creating ==
  ASSUME CatalogOK, NEW r \in Requests, Doing(r, "create")
  PROVE  /\ pc[r] = "open" /\ setting.admin
         /\ tx[r] \in [op : {"create"}, content : Contents, todo : SUBSET Names,
                        tag : Names \cup {None}, known : BOOLEAN]
         /\ tx[r].content <= lastId /\ (tx[r].known => tx[r].tag \in tags)
  <1>1. pc[r] = "open" /\ tx[r].op = "create"
    BY DEF Doing
  <1>2. TxOK(r) /\ tx[r] \in AnyTransaction
    BY <1>1 DEF CatalogOK, ProgressOK, ProgressTyped
  <1>3. QED
    BY <1>1, <1>2, FieldTypes DEF TxOK

\* t is what it knows after its next call.
LEMMA CreateGoesOn ==
  ASSUME CatalogOK, NEW r \in Requests, Doing(r, "create"),
         NEW t \in [op : {"create"}, content : Contents, todo : SUBSET Names,
                    tag : Names \cup {None}, known : BOOLEAN],
         tx' = [tx EXCEPT ![r] = t], UNCHANGED <<setting, pc, chunks>>,
         t.content <= lastId', t.known => t.tag \in tags',
         TablesTyped', TablesOK', ReviewsHaveContent', KeyOnce', TotalsOK',
         Evolves, ByHand
  PROVE  CatalogOK'
  <1>1. pc[r] = "open" /\ setting.admin
    BY Creating
  <1>2. pc' = [pc EXCEPT ![r] = "open"]
    BY <1>1 DEF CatalogOK, ProgressTyped
  <1>3. t \in AnyTransaction
    BY DEF AnyTransaction, Transactions, Imports
  <1>4. /\ ProgressTyped' /\ pc'[r] = "open" /\ tx'[r] = t
        /\ \A q \in Requests \ {r} : pc'[q] = pc[q] /\ tx'[q] = tx[q]
    BY <1>1, <1>2, <1>3, GoesOnEffect DEF CatalogOK
  <1>5. TxOK(r)'
    BY <1>1, <1>4 DEF TxOK
  <1>6. QED
    BY <1>1, <1>4, <1>5, StepKeeps

LEMMA FindTagKeeps ==
  ASSUME CatalogOK, UNCHANGED <<setting, chunks>>, NEW r \in Requests, FindTag(r)
  PROVE  CatalogOK'
  <1>0. PICK t : t = tx[r]
    OBVIOUS
  <1>1. Doing(r, "create") /\ UNCHANGED <<tables, pc>>
    BY DEF FindTag
  <1>2. PICK n \in t.todo : tx' = [tx EXCEPT ![r].tag = n, ![r].known = (n \in tags)]
    BY <1>0 DEF FindTag
  <1>3. /\ t \in [op : {"create"}, content : Contents, todo : SUBSET Names,
                   tag : Names \cup {None}, known : BOOLEAN]
        /\ t.content <= lastId
    BY <1>0, <1>1, Creating
  <1>k. PICK known \in BOOLEAN : known = (n \in tags)
    <2>1. CASE n \in tags
      <3>1. TRUE = (n \in tags)
        BY <2>1
      <3>2. QED
        BY <3>1, Zenon
    <2>2. CASE n \notin tags
      <3>1. FALSE = (n \in tags)
        BY <2>2
      <3>2. QED
        BY <3>1, Zenon
    <2>3. QED
      BY <2>1, <2>2
  <1>4. PICK u : u = [t EXCEPT !.tag = n, !.known = known]
    OBVIOUS
  <1>5. tx' = [tx EXCEPT ![r] = u]
    BY <1>0, <1>2, <1>k, <1>4 DEF CatalogOK, ProgressTyped
  <1>6. /\ u \in [op : {"create"}, content : Contents, todo : SUBSET Names,
                   tag : Names \cup {None}, known : BOOLEAN]
        /\ u.content = t.content /\ u.tag = n /\ u.known = known
    <2>1. n \in Names
      BY <1>2, <1>3
    <2>2. QED
      BY <1>3, <1>4, <2>1
  <1>7. lastId' = lastId /\ tags' = tags
    BY <1>1 DEF tables
  <1>8. /\ TablesTyped' /\ TablesOK' /\ ReviewsHaveContent' /\ KeyOnce' /\ TotalsOK'
        /\ Evolves /\ ByHand
    BY <1>1, TablesStay
  <1>9. u.content <= lastId' /\ (u.known => u.tag \in tags')
    BY <1>3, <1>k, <1>6, <1>7
  <1>10. QED
    BY <1>1, <1>5, <1>6, <1>8, <1>9, CreateGoesOn

LEMMA SaveTagKeeps ==
  ASSUME CatalogOK, UNCHANGED <<setting, chunks>>, NEW r \in Requests, SaveTag(r)
  PROVE  CatalogOK'
  <1>0. PICK t : t = tx[r]
    OBVIOUS
  <1>1. /\ Doing(r, "create") /\ t.tag # None /\ InsertTags({t.tag})
        /\ tx' = [tx EXCEPT ![r].known = TRUE]
        /\ UNCHANGED <<content, lastId, mapping, review, pc>>
    BY <1>0 DEF SaveTag
  <1>2. /\ t \in [op : {"create"}, content : Contents, todo : SUBSET Names,
                   tag : Names \cup {None}, known : BOOLEAN]
        /\ t.content <= lastId
    BY <1>0, <1>1, Creating
  <1>3. PICK u : u = [t EXCEPT !.known = TRUE]
    OBVIOUS
  <1>4. tx' = [tx EXCEPT ![r] = u]
    BY <1>0, <1>1, <1>3 DEF CatalogOK, ProgressTyped
  <1>5. tags' = tags \cup {t.tag} /\ t.tag \in Names
    BY <1>1, <1>2 DEF InsertTags
  <1>6. /\ u \in [op : {"create"}, content : Contents, todo : SUBSET Names,
                   tag : Names \cup {None}, known : BOOLEAN]
        /\ u.content = t.content /\ u.tag \in tags'
    BY <1>2, <1>3, <1>5
  <1>7. lastId \in Int
    BY CatalogAssumption DEF CatalogOK, TablesTyped
  <1>8. Evolves /\ ByHand
    BY <1>1, <1>5, <1>7 DEF Evolves, ByHand
  <1>9. TablesTyped' /\ TablesOK'
    <2>1. TablesTyped'
      BY <1>1, <1>5 DEF CatalogOK, TablesTyped
    <2>2. TablesOK'
      BY <1>1, <1>5 DEF CatalogOK, TablesOK
    <2>3. QED
      BY <2>1, <2>2
  <1>10. ReviewsHaveContent'
    BY <1>1 DEF CatalogOK, ReviewsHaveContent
  <1>11. KeyOnce' /\ TotalsOK'
    BY <1>1, <1>8, KeyOnceStays, TotalsStay
  <1>12. QED
    BY <1>1, <1>2, <1>4, <1>6, <1>8, <1>9, <1>10, <1>11, CreateGoesOn

LEMMA SaveMappingKeeps ==
  ASSUME CatalogOK, UNCHANGED <<setting, chunks>>, NEW r \in Requests, SaveMapping(r)
  PROVE  CatalogOK'
  <1>0. PICK t : t = tx[r]
    OBVIOUS
  <1> DEFINE m == [id |-> r, content |-> t.content, tag |-> t.tag]
  <1>1. /\ Doing(r, "create") /\ t.tag # None /\ t.known /\ content[t.content] # None
        /\ mapping' = mapping \/ mapping' = mapping \cup {m}
        /\ tx' = [tx EXCEPT ![r].todo = @ \ {t.tag}, ![r].tag = None, ![r].known = FALSE]
        /\ UNCHANGED <<content, lastId, tags, review, pc>>
    BY <1>0 DEF SaveMapping
  <1>2. /\ t \in [op : {"create"}, content : Contents, todo : SUBSET Names,
                   tag : Names \cup {None}, known : BOOLEAN]
        /\ t.content <= lastId /\ t.tag \in tags
    BY <1>0, <1>1, Creating
  <1>3. PICK u : u = [t EXCEPT !.todo = @ \ {t.tag}, !.tag = None, !.known = FALSE]
    OBVIOUS
  <1>4. tx' = [tx EXCEPT ![r] = u]
    BY <1>0, <1>1, <1>3 DEF CatalogOK, ProgressTyped
  <1>5. /\ u \in [op : {"create"}, content : Contents, todo : SUBSET Names,
                   tag : Names \cup {None}, known : BOOLEAN]
        /\ u.content = t.content /\ ~u.known
    BY <1>2, <1>3
  <1>6. m \in Mappings /\ m.tag \in tags /\ m.content = t.content
    BY <1>1, <1>2 DEF Mappings
  <1>7. lastId \in Int
    BY CatalogAssumption DEF CatalogOK, TablesTyped
  <1>8. Evolves /\ ByHand
    BY <1>1, <1>7 DEF Evolves, ByHand
  <1>9. TablesTyped' /\ TablesOK'
    <2>1. TablesTyped'
      BY <1>1, <1>6 DEF CatalogOK, TablesTyped
    <2>2. TablesOK'
      BY <1>1, <1>6 DEF CatalogOK, TablesOK
    <2>3. QED
      BY <2>1, <2>2
  <1>10. ReviewsHaveContent'
    BY <1>1 DEF CatalogOK, ReviewsHaveContent
  <1>11. KeyOnce' /\ TotalsOK'
    BY <1>1, <1>8, KeyOnceStays, TotalsStay
  <1>12. Doing(r, "create") /\ UNCHANGED pc /\ u.content <= lastId'
    BY <1>1, <1>2, <1>5
  <1>13. QED
    BY <1>4, <1>5, <1>8, <1>9, <1>10, <1>11, <1>12, CreateGoesOn

LEMMA CreatedKeeps ==
  ASSUME CatalogOK, UNCHANGED <<setting, chunks>>, NEW r \in Requests, Created(r)
  PROVE  CatalogOK'
  <1>1. pc[r] = "open" /\ End(r, "done") /\ UNCHANGED tables
    BY DEF Created, Doing
  <1>2. /\ ProgressTyped' /\ pc'[r] = "done"
        /\ \A q \in Requests \ {r} : pc'[q] = pc[q] /\ tx'[q] = tx[q]
    BY <1>1, EndEffect DEF CatalogOK
  <1>3. QED
    BY <1>1, <1>2, ReadingKeeps

-----------------------------------------------------------------------------
(* The write of a chunk.                                                    *)

LEMMA FindIs ==
  ASSUME NEW k
  PROVE  /\ Find(k) = None => \A c \in Contents : content[c] # None => content[c].key # k
         /\ Find(k) # None => /\ Find(k) \in Contents /\ content[Find(k)] # None
                             /\ content[Find(k)].key = k
  <1>1. None \notin Contents
    BY CatalogAssumption DEF Contents
  <1>2. CASE \E c \in Contents : content[c] # None /\ content[c].key = k
    <2>1. Find(k) = CHOOSE c \in Contents : content[c] # None /\ content[c].key = k
      BY <1>2 DEF Find
    <2>2. Find(k) \in Contents /\ content[Find(k)] # None /\ content[Find(k)].key = k
      BY <1>2, <2>1, Zenon
    <2>3. QED
      BY <1>1, <2>2
  <1>3. CASE ~\E c \in Contents : content[c] # None /\ content[c].key = k
    BY <1>3 DEF Find
  <1>4. QED
    BY <1>2, <1>3

LEMMA WriteChunkKeeps ==
  ASSUME CatalogOK, UNCHANGED setting, NEW r \in Requests, r = chunks', chunks' > 0,
         \A q \in Requests : pc[q] = "open" => tx[q].op # "import",
         NEW K \in SUBSET Keys, IsFiniteSet(K), NEW ch \in [K -> Items], WriteChunk(r, ch)
  PROVE  CatalogOK'
  <1> DEFINE found == [k \in K |-> Find(k)]
             row == [k \in K |-> IF found[k] = None THEN None ELSE content[found[k]]]
             lacks == [k \in K |-> IF found[k] = None THEN ch[k].names
                                   ELSE ch[k].names \ TagsOf(found[k])]
             fresh == (UNION {ch[k].names : k \in K}) \ tags
  <1>1. PICK t : t = [op |-> "import", chunk |-> ch, found |-> found, row |-> row,
                      lacks |-> lacks, fresh |-> fresh]
    OBVIOUS
  <1>2. Begin(r, TRUE, t)
    <2>1. DOMAIN ch = K
      OBVIOUS
    <2>2. QED
      BY <1>1, <2>1 DEF WriteChunk
  <1>3. \A k \in K : ch[k] \in Items /\ ch[k].names \subseteq Names
    BY DEF Items
  <1>4. \A k \in K : found[k] = Find(k) /\ found[k] \in Contents \cup {None}
    BY FindIs
  <1>5. \A k \in K : found[k] # None => row[k] = content[found[k]] /\ row[k] \in Rows /\ row[k].key = k
    <2> SUFFICES ASSUME NEW k \in K, found[k] # None
                 PROVE  row[k] = content[found[k]] /\ row[k] \in Rows /\ row[k].key = k
      OBVIOUS
    <2>1. row[k] = content[found[k]]
      OBVIOUS
    <2>2. found[k] \in Contents /\ content[found[k]] # None /\ content[found[k]].key = k
      BY FindIs
    <2>3. QED
      BY <2>1, <2>2 DEF CatalogOK, TablesTyped
  <1>6. found \in [K -> Contents \cup {None}]
    BY <1>4
  <1>7. row \in [K -> Rows \cup {None}]
    BY <1>5
  <1>8. lacks \in [K -> SUBSET Names]
    BY <1>3
  <1>9. fresh \subseteq Names
    BY <1>3
  <1>10. t \in AnyTransaction
    BY <1>1, <1>6, <1>7, <1>8, <1>9 DEF AnyTransaction, Transactions, Imports
  <1>11. /\ ProgressTyped' /\ UNCHANGED tables /\ MayStart(r)
         /\ tx'[r] = t /\ pc'[r] # "new"
         /\ \A q \in Requests \ {r} : pc'[q] = pc[q] /\ tx'[q] = tx[q]
    <2>1. tx'[r] = t
      BY <1>2 DEF CatalogOK, ProgressTyped, Begin
    <2>2. QED
      BY <1>2, <1>10, <2>1, BeginEffect DEF CatalogOK
  <1>12. ImportOK(t)'
    <2>1. t.op = "import" /\ t.chunk = ch /\ t.found = found /\ t.row = row
              /\ t.lacks = lacks /\ t.fresh = fresh /\ DOMAIN ch = K
      BY <1>1
    <2>2. \A k \in K : lacks[k] \subseteq tags \cup fresh
      <3>1. \A k \in K : lacks[k] \subseteq ch[k].names
        OBVIOUS
      <3>2. \A k \in K : ch[k].names \subseteq tags \cup fresh
        OBVIOUS
      <3>3. QED
        BY <3>1, <3>2
    <2>3. \A k \in K : found[k] = None =>
              /\ \A c \in Contents : content[c] # None => content[c].key # k
              /\ lacks[k] = ch[k].names
      BY FindIs
    <2>4. \A k \in K : found[k] # None =>
              /\ row[k] # None /\ row[k].key = k /\ found[k] <= lastId
              /\ content[found[k]] # None => content[found[k]].key = k
              /\ content[found[k]] = row[k]
              /\ ch[k].names \subseteq lacks[k] \cup TagsOf(found[k])
      <3> SUFFICES ASSUME NEW k \in K, found[k] # None
                   PROVE  /\ row[k] # None /\ row[k].key = k /\ found[k] <= lastId
                          /\ content[found[k]] # None => content[found[k]].key = k
                          /\ content[found[k]] = row[k]
                          /\ ch[k].names \subseteq lacks[k] \cup TagsOf(found[k])
        OBVIOUS
      <3>1. found[k] \in Contents /\ content[found[k]] # None /\ content[found[k]].key = k
        BY <1>4, FindIs
      <3>2. row[k] = content[found[k]] /\ lacks[k] = ch[k].names \ TagsOf(found[k])
        OBVIOUS
      <3> HIDE DEF found, row, lacks
      <3>3. found[k] <= lastId
        BY <3>1 DEF CatalogOK, TablesOK
      <3>4. QED
        BY <3>1, <3>2, <3>3
    <2>5. PICK fd, rw, la, fr : fd = found /\ rw = row /\ la = lacks /\ fr = fresh
      OBVIOUS
    <2> HIDE DEF found, row, lacks, fresh
    <2>6. UNCHANGED <<content, lastId, tags, mapping>>
      BY <1>11 DEF tables
    <2>7. \A c : TagsOf(c)' = TagsOf(c)
      BY <2>6 DEF TagsOf, MappingsOf
    <2>8. /\ \A k \in K : t.lacks[k] \subseteq tags' \cup t.fresh
          /\ \A k \in K : t.found[k] = None =>
                /\ \A c \in Contents : content'[c] # None => content'[c].key # k
                /\ t.lacks[k] = t.chunk[k].names
      BY <2>1, <2>2, <2>3, <2>6
    <2>9. \A k \in K : t.found[k] # None =>
                /\ t.row[k] # None /\ t.row[k].key = k
                /\ t.found[k] <= lastId'
                /\ content'[t.found[k]] # None => content'[t.found[k]].key = k
                /\ content'[t.found[k]] = t.row[k]
                /\ t.chunk[k].names \subseteq t.lacks[k] \cup TagsOf(t.found[k])'
      BY <2>1, <2>4, <2>6, <2>7
    <2>10. IsFiniteSet(DOMAIN t.chunk) /\ DOMAIN t.chunk = K
      BY <2>1
    <2>11. QED
      BY <2>8, <2>9, <2>10 DEF ImportOK
  <1>13. TxOK(r)'
    BY <1>1, <1>11, <1>12 DEF TxOK
  <1>14. /\ TablesTyped' /\ TablesOK' /\ ReviewsHaveContent' /\ KeyOnce' /\ TotalsOK'
         /\ Evolves /\ ByHand
    BY <1>11, TablesStay
  <1>15. ProgressOK' /\ OneByOne'
    BY <1>11, <1>13, <1>14, ProgressKeeps
  <1>16. QED
    BY <1>11, <1>14, <1>15 DEF CatalogOK

\* SetToSeq lists every element of a finite set once.
LEMMA ListsAll ==
  ASSUME NEW S, IsFiniteSet(S)
  PROVE  /\ Cardinality(S) \in Nat /\ Len(SetToSeq(S)) = Cardinality(S)
         /\ SetToSeq(S) \in [1..Cardinality(S) -> S]
         /\ \A i, j \in 1..Cardinality(S) : SetToSeq(S)[i] = SetToSeq(S)[j] => i = j
         /\ \A x \in S : \E i \in 1..Cardinality(S) : SetToSeq(S)[i] = x
  <1> DEFINE n == Cardinality(S)
             f == SetToSeq(S)
  <1>1. n \in Nat /\ ExistsBijection(1..n, S)
    BY FS_CardinalityType
  <1>2. \E g \in [1..n -> S] : IsInjective(g)
    BY <1>1 DEF ExistsBijection, Bijection, Injection
  <1>3. f \in [1..n -> S] /\ IsInjective(f)
    BY <1>2, Zenon DEF SetToSeq
  <1> HIDE DEF f
  <1>4. f \in Injection(1..n, S)
    BY <1>3 DEF Injection
  <1>5. IsFiniteSet(1..n) /\ Cardinality(1..n) = n
    BY <1>1, FS_Interval
  <1>6. f \in Surjection(1..n, S)
    BY <1>4, <1>5, FS_Injection
  <1>7. \A x \in S : \E i \in 1..n : f[i] = x
    BY <1>6 DEF Surjection
  <1>8. Len(f) = n
    BY <1>1, <1>3
  <1>9. QED
    BY <1>1, <1>3, <1>7, <1>8 DEF f, IsInjective

\* What an import has read of its chunk, item by item.
LEMMA ImportTyped ==
  ASSUME NEW t \in AnyTransaction, t.op = "import", ImportOK(t)
  PROVE  /\ IsFiniteSet(DOMAIN t.chunk) /\ DOMAIN t.chunk \subseteq Keys
         /\ t.fresh \subseteq Names
         /\ \A k \in DOMAIN t.chunk :
                /\ t.chunk[k].title \in Titles /\ t.chunk[k].names \subseteq Names
                /\ t.lacks[k] \subseteq Names
                /\ t.found[k] # None => t.found[k] \in Contents /\ t.row[k] \in Rows
  <1>1. PICK K \in SUBSET Keys :
            t \in [op : {"import"}, chunk : [K -> Items], found : [K -> Contents \cup {None}],
                  row : [K -> Rows \cup {None}], lacks : [K -> SUBSET Names],
                  fresh : SUBSET Names]
    BY FieldTypes
  <1>2. DOMAIN t.chunk = K /\ t.fresh \subseteq Names
    BY <1>1
  <1>3. \A k \in K : t.chunk[k] \in Items /\ t.found[k] \in Contents \cup {None}
                     /\ t.row[k] \in Rows \cup {None} /\ t.lacks[k] \subseteq Names
    BY <1>1
  <1>4. QED
    BY <1>2, <1>3 DEF ImportOK, Items

\* The write of a chunk, content by content. id: of each item.
LEMMA ImportEffect ==
  ASSUME CatalogOK, NEW r \in Requests, CommitImport(r)
  PROVE  LET t == tx[r]
             keys == DOMAIN t.chunk
             new  == {k \in keys : t.found[k] = None}
         IN  /\ pc[r] = "open" /\ t.op = "import" /\ End(r, "done")
             /\ InsertTags(t.fresh) /\ review' = review
             /\ lastId' \in lastId..MaxContents /\ content' = [c \in Contents |-> content'[c]]
             /\ \E id :
                 /\ \A k \in keys \ new : id[k] = t.found[k]
                 /\ \A k \in new : /\ id[k] \in lastId + 1..lastId'
                                   /\ content'[id[k]] = NewRow(k, t.chunk[k])
                 /\ \A j, k \in new : id[j] = id[k] => j = k
                 /\ \A k \in keys \ new : t.lacks[k] # {} => content[id[k]] # None
                 /\ \A k \in keys \ new : Updated(t.row[k], t.chunk[k]) # t.row[k] =>
                        /\ content[id[k]] # None
                        /\ content'[id[k]] = Updated(t.row[k], t.chunk[k])
                 /\ \A c \in Contents :
                        \/ content'[c] = content[c]
                        \/ \E k \in new : c = id[k]
                        \/ \E k \in keys \ new :
                               c = id[k] /\ Updated(t.row[k], t.chunk[k]) # t.row[k]
                 /\ mapping' = mapping \cup
                       UNION {{[id |-> r, content |-> id[k], tag |-> n] : n \in t.lacks[k]} :
                              k \in keys}
  <1> DEFINE t == tx[r]
             keys == DOMAIN t.chunk
             new == {k \in keys : t.found[k] = None}
             stale == {k \in keys \ new : Updated(t.row[k], t.chunk[k]) # t.row[k]}
             order == SetToSeq(new)
             Place(k) == CHOOSE i \in 1..Len(order) : order[i] = k
             id == [k \in keys |-> IF k \notin new THEN t.found[k] ELSE lastId + Place(k)]
             Row(k) == IF k \in new THEN NewRow(k, t.chunk[k]) ELSE Updated(t.row[k], t.chunk[k])
  <1>1. /\ pc[r] = "open" /\ t.op = "import" /\ End(r, "done")
        /\ InsertTags(t.fresh) /\ review' = review
        /\ \A k \in keys \ new : k \in stale \/ t.lacks[k] # {} => content[id[k]] # None
        /\ lastId' = lastId + Cardinality(new)
        /\ lastId' <= MaxContents
        /\ content' = [c \in Contents |->
               IF \E k \in stale \cup new : id[k] = c
               THEN Row(CHOOSE k \in stale \cup new : id[k] = c) ELSE content[c]]
        /\ mapping' = mapping \cup
               UNION {{[id |-> r, content |-> id[k], tag |-> n] : n \in t.lacks[k]} :
                      k \in keys}
    BY Zenon DEF CommitImport, Doing
  <1>2. t \in AnyTransaction /\ ImportOK(t)
    BY <1>1 DEF CatalogOK, ProgressOK, ProgressTyped, TxOK
  <1>3. IsFiniteSet(new)
    BY <1>1, <1>2, ImportTyped, FS_Subset
  <1>4. lastId \in Nat /\ MaxContents \in Nat
    BY CatalogAssumption DEF CatalogOK, TablesTyped
  <1>5. \A k \in new : Place(k) \in 1..Cardinality(new) /\ order[Place(k)] = k
    <2>1. \A k \in new : \E i \in 1..Len(order) : order[i] = k
      BY <1>3, ListsAll
    <2>2. \A k \in new : Place(k) \in 1..Len(order) /\ order[Place(k)] = k
      BY <2>1, Zenon
    <2>3. QED
      BY <1>3, <2>2, ListsAll
  <1>6. Cardinality(new) \in Nat
    BY <1>3, ListsAll
  <1> HIDE DEF Place
  <1>7. \A k \in new : id[k] = lastId + Place(k) /\ id[k] \in lastId + 1..lastId' /\ id[k] \in Contents
    <2> SUFFICES ASSUME NEW k \in new
                 PROVE  id[k] = lastId + Place(k) /\ id[k] \in lastId + 1..lastId' /\ id[k] \in Contents
      OBVIOUS
    <2>1. id[k] = lastId + Place(k)
      OBVIOUS
    <2>2. Place(k) \in 1..Cardinality(new)
      BY <1>5
    <2> HIDE DEF id, new
    <2>3. QED
      BY <1>1, <1>4, <1>6, <2>1, <2>2 DEF Contents
  <1>8. \A j, k \in new : id[j] = id[k] => j = k
    <2> SUFFICES ASSUME NEW j \in new, NEW k \in new, id[j] = id[k] PROVE j = k
      OBVIOUS
    <2>1. Place(j) = Place(k)
      BY <1>4, <1>5, <1>6, <1>7
    <2>2. QED
      BY <1>5, <2>1
  <1>9. \A k \in keys \ new : id[k] = t.found[k] /\ id[k] \in Contents /\ id[k] <= lastId
    BY <1>1, <1>2, ImportTyped DEF ImportOK
  <1>10. \A k \in stale : content[id[k]] # None /\ content[id[k]].key = k
    BY <1>1, <1>2, <1>9 DEF ImportOK
  <1>11. \A j, k \in stale \cup new : id[j] = id[k] => j = k
    <2>1. \A j \in new, k \in stale : id[j] # id[k]
      BY <1>4, <1>7, <1>9 DEF Contents
    <2>2. \A j, k \in stale : id[j] = id[k] => j = k
      BY <1>10
    <2>3. QED
      BY <1>8, <2>1, <2>2
  <1> HIDE DEF id, new, stale, Row
  <1>12. \A k \in stale \cup new : id[k] \in Contents /\ content'[id[k]] = Row(k)
    <2> SUFFICES ASSUME NEW k \in stale \cup new PROVE id[k] \in Contents /\ content'[id[k]] = Row(k)
      OBVIOUS
    <2>1. id[k] \in Contents
      BY <1>7, <1>9 DEF stale
    <2>2. (CHOOSE j \in stale \cup new : id[j] = id[k]) = k
      BY <1>11
    <2>3. QED
      BY <1>1, <2>1, <2>2
  <1>13. \A c \in Contents : \/ content'[c] = content[c]
                            \/ \E k \in stale \cup new : id[k] = c
    BY <1>1
  <1>14. content' = [c \in Contents |-> content'[c]]
    BY <1>1
  <1>15. lastId' \in lastId..MaxContents
    BY <1>1, <1>4, <1>6
  <1>16. \A k \in new : content'[id[k]] = NewRow(k, t.chunk[k])
    BY <1>12 DEF Row
  <1>17. \A k \in keys \ new : Updated(t.row[k], t.chunk[k]) # t.row[k] =>
                        /\ content[id[k]] # None
                        /\ content'[id[k]] = Updated(t.row[k], t.chunk[k])
    BY <1>10, <1>12 DEF Row, stale
  <1>18. \A c \in Contents :
                        \/ content'[c] = content[c]
                        \/ \E k \in new : c = id[k]
                        \/ \E k \in keys \ new :
                               c = id[k] /\ Updated(t.row[k], t.chunk[k]) # t.row[k]
    BY <1>13 DEF stale
  <1>19. \A k \in keys \ new : t.lacks[k] # {} => content[id[k]] # None
    BY <1>1
  <1> DEFINE Describes(i) ==
                 /\ \A k \in keys \ new : i[k] = t.found[k]
                 /\ \A k \in new : /\ i[k] \in lastId + 1..lastId'
                                   /\ content'[i[k]] = NewRow(k, t.chunk[k])
                 /\ \A j, k \in new : i[j] = i[k] => j = k
                 /\ \A k \in keys \ new : t.lacks[k] # {} => content[i[k]] # None
                 /\ \A k \in keys \ new : Updated(t.row[k], t.chunk[k]) # t.row[k] =>
                        /\ content[i[k]] # None
                        /\ content'[i[k]] = Updated(t.row[k], t.chunk[k])
                 /\ \A c \in Contents :
                        \/ content'[c] = content[c]
                        \/ \E k \in new : c = i[k]
                        \/ \E k \in keys \ new :
                               c = i[k] /\ Updated(t.row[k], t.chunk[k]) # t.row[k]
                 /\ mapping' = mapping \cup
                       UNION {{[id |-> r, content |-> i[k], tag |-> n] : n \in t.lacks[k]} :
                              k \in keys}
  <1>20. Describes(id)
    BY <1>1, <1>7, <1>8, <1>9, <1>16, <1>17, <1>18, <1>19
  <1>21. \E i : Describes(i)
    <2> HIDE DEF Describes
    <2>1. QED
      BY <1>20
  <1>22. /\ pc[r] = "open" /\ t.op = "import" /\ End(r, "done")
         /\ InsertTags(t.fresh) /\ review' = review
    BY <1>1
  <1>23. QED
    BY <1>14, <1>15, <1>21, <1>22, Zenon DEF new

LEMMA UpdatedType ==
  ASSUME NEW row \in Rows, NEW item, item.title \in Titles
  PROVE  /\ Updated(row, item) \in Rows /\ Updated(row, item).key = row.key
         /\ Updated(row, item).title = item.title
         /\ Updated(row, item).sum = row.sum /\ Updated(row, item).count = row.count
  BY DEF Updated, Rows

LEMMA NewRowType ==
  ASSUME NEW k \in Keys, NEW item, item.title \in Titles
  PROVE  /\ NewRow(k, item) \in Rows /\ NewRow(k, item).key = k
         /\ NewRow(k, item).title = item.title
         /\ NewRow(k, item).sum = 0 /\ NewRow(k, item).count = 0
  BY DEF NewRow, Rows

LEMMA CommitImportKeeps ==
  ASSUME CatalogOK, UNCHANGED <<setting, chunks>>, NEW r \in Requests, CommitImport(r)
  PROVE  CatalogOK' /\ Evolves
  <1>0. PICK t : t = tx[r]
    OBVIOUS
  <1> DEFINE keys == DOMAIN t.chunk
             new == {k \in keys : t.found[k] = None}
             old == keys \ new
             Changed(k) == Updated(t.row[k], t.chunk[k]) # t.row[k]
  <1>1. /\ pc[r] = "open" /\ t.op = "import" /\ End(r, "done")
        /\ InsertTags(t.fresh) /\ review' = review
        /\ lastId' \in lastId..MaxContents
        /\ content' = [c \in Contents |-> content'[c]]
    BY <1>0, ImportEffect
  <1>2. PICK id :
                 /\ \A k \in old : id[k] = t.found[k]
                 /\ \A k \in new : /\ id[k] \in lastId + 1..lastId'
                                   /\ content'[id[k]] = NewRow(k, t.chunk[k])
                 /\ \A j, k \in new : id[j] = id[k] => j = k
                 /\ \A k \in old : t.lacks[k] # {} => content[id[k]] # None
                 /\ \A k \in old : Updated(t.row[k], t.chunk[k]) # t.row[k] =>
                        /\ content[id[k]] # None
                        /\ content'[id[k]] = Updated(t.row[k], t.chunk[k])
                 /\ \A c \in Contents :
                        \/ content'[c] = content[c]
                        \/ \E k \in new : c = id[k]
                        \/ \E k \in old :
                               c = id[k] /\ Updated(t.row[k], t.chunk[k]) # t.row[k]
                 /\ mapping' = mapping \cup
                       UNION {{[id |-> r, content |-> id[k], tag |-> n] : n \in t.lacks[k]} :
                              k \in keys}
    BY <1>0, ImportEffect
  <1>3. t \in AnyTransaction /\ ImportOK(t) /\ r = chunks
    BY <1>0, <1>1 DEF CatalogOK, ProgressOK, ProgressTyped, TxOK
  <1>4. /\ keys \subseteq Keys /\ t.fresh \subseteq Names
        /\ \A k \in keys :
                /\ t.chunk[k].title \in Titles /\ t.chunk[k].names \subseteq Names
                /\ t.lacks[k] \subseteq Names
                /\ t.found[k] # None => t.found[k] \in Contents /\ t.row[k] \in Rows
    BY <1>1, <1>3, ImportTyped
  <1>5. lastId \in Nat /\ lastId' \in Nat /\ lastId <= lastId' /\ lastId' <= MaxContents
    BY <1>1, CatalogAssumption DEF CatalogOK, TablesTyped
  <1>6. ASSUME NEW k \in new
        PROVE  /\ id[k] \in Contents /\ id[k] > lastId /\ id[k] <= lastId'
               /\ content'[id[k]] = NewRow(k, t.chunk[k]) /\ k \in Keys
               /\ content'[id[k]] \in Rows /\ content'[id[k]].key = k
               /\ content'[id[k]].sum = 0 /\ content'[id[k]].count = 0
    <2>1. id[k] \in lastId + 1..lastId' /\ content'[id[k]] = NewRow(k, t.chunk[k])
      BY <1>2
    <2>2. id[k] \in Contents /\ id[k] > lastId /\ id[k] <= lastId'
      <3>1. PICK i : i = id[k]
        OBVIOUS
      <3>2. i \in lastId + 1..lastId'
        BY <2>1, <3>1
      <3>3. MaxContents \in Nat
        BY CatalogAssumption
      <3>4. i \in 1..MaxContents /\ i > lastId /\ i <= lastId'
        BY <1>5, <3>2, <3>3
      <3>5. QED
        BY <3>1, <3>4 DEF Contents
    <2>3. k \in Keys /\ t.chunk[k].title \in Titles
      BY <1>4
    <2>4. QED
      BY <2>1, <2>2, <2>3, NewRowType
  <1>7. ASSUME NEW k \in old, Changed(k)
        PROVE  /\ id[k] \in Contents /\ id[k] <= lastId /\ content[id[k]] # None
               /\ content'[id[k]] \in Rows /\ content'[id[k]].key = content[id[k]].key
               /\ ~setting.overlap => /\ content'[id[k]].sum = content[id[k]].sum
                                      /\ content'[id[k]].count = content[id[k]].count
    <2>1. id[k] = t.found[k] /\ t.found[k] # None /\ content[id[k]] # None
            /\ content'[id[k]] = Updated(t.row[k], t.chunk[k])
      BY <1>2, <1>7
    <2>2. /\ t.row[k].key = k /\ content[id[k]].key = k /\ t.found[k] <= lastId
          /\ ~setting.overlap => content[id[k]] = t.row[k]
      BY <1>3, <2>1 DEF ImportOK
    <2>3. t.row[k] \in Rows /\ id[k] \in Contents /\ t.chunk[k].title \in Titles
      BY <1>4, <2>1
    <2>4. QED
      BY <2>1, <2>2, <2>3, UpdatedType
  <1>8. \A c \in Contents :
            \/ content'[c] = content[c]
            \/ \E k \in new : c = id[k]
            \/ \E k \in old : c = id[k] /\ Changed(k)
    BY <1>2
  <1> HIDE DEF new, old, Changed
  <1>9. ASSUME NEW c \in Contents, content'[c] # content[c]
        PROVE  /\ content'[c] # None /\ content'[c] \in Rows
               /\ \/ /\ c <= lastId /\ content[c] # None /\ content'[c].key = content[c].key
                     /\ ~setting.overlap => /\ content'[c].sum = content[c].sum
                                            /\ content'[c].count = content[c].count
                  \/ /\ c > lastId /\ c <= lastId' /\ content'[c].sum = 0 /\ content'[c].count = 0
                     /\ \E k \in new : c = id[k]
    <2>1. \A row \in Rows : row # None
      BY CatalogAssumption
    <2>2. CASE \E k \in new : c = id[k]
      <3>1. PICK k \in new : c = id[k]
        BY <2>2
      <3>2. QED
        BY <1>6, <2>1, <3>1
    <2>3. CASE \E k \in old : c = id[k] /\ Changed(k)
      <3>1. PICK k \in old : c = id[k] /\ Changed(k)
        BY <2>3
      <3>2. QED
        BY <1>7, <2>1, <3>1
    <2>4. QED
      BY <1>8, <1>9, <2>2, <2>3
  <1>10. tags' = tags \cup t.fresh
    BY <1>1 DEF InsertTags
  <1>11. Evolves
    <2>1. \A c \in Contents : c <= lastId => ~(c > lastId)
      BY <1>5 DEF Contents
    <2>2. \A c \in Contents : c <= lastId /\ content'[c] # None =>
              content[c] # None /\ content'[c].key = content[c].key
      BY <1>9, <2>1
    <2>3. QED
      BY <1>5, <1>10, <2>2 DEF Evolves
  <1>12. \A m \in mapping' \ mapping : m \in Mappings /\ m.tag \in tags' /\ content'[m.content] # None
    <2> SUFFICES ASSUME NEW m \in mapping' \ mapping
                 PROVE  m \in Mappings /\ m.tag \in tags' /\ content'[m.content] # None
      OBVIOUS
    <2>1. PICK k \in keys : m \in {[id |-> r, content |-> id[k], tag |-> n] : n \in t.lacks[k]}
      BY <1>2
    <2>2. PICK n \in t.lacks[k] : m = [id |-> r, content |-> id[k], tag |-> n]
      BY <2>1
    <2>3. n \in Names /\ n \in tags'
      BY <1>3, <1>4, <1>10, <2>2 DEF ImportOK
    <2>4. id[k] \in Contents /\ content'[id[k]] # None
      <3>1. CASE k \in new
        BY <1>6, <3>1, CatalogAssumption
      <3>2. CASE k \notin new
        <4>1. k \in old
          BY <3>2 DEF old
        <4>2. t.found[k] # None /\ id[k] = t.found[k] /\ content[id[k]] # None
          BY <1>2, <2>2, <4>1, <3>2 DEF new
        <4>3. id[k] \in Contents
          BY <1>4, <4>2
        <4>4. QED
          BY <1>9, <4>2, <4>3
      <3>3. QED
        BY <3>1, <3>2
    <2>5. QED
      BY <2>2, <2>3, <2>4 DEF Mappings
  <1>13. mapping \subseteq mapping'
    BY <1>2
  <1>14. TablesTyped'
    <2>1. content' \in [Contents -> Rows \cup {None}]
      <3>1. \A c \in Contents : content'[c] \in Rows \cup {None}
        BY <1>9 DEF CatalogOK, TablesTyped
      <3>2. QED
        BY <1>1, <3>1
    <2>2. mapping' \subseteq Mappings
      BY <1>12 DEF CatalogOK, TablesTyped
    <2>3. tags' \subseteq Names
      BY <1>4, <1>10 DEF CatalogOK, TablesTyped
    <2>4. lastId' \in 0..MaxContents /\ MaxContents \in Nat
      BY <1>5, CatalogAssumption
    <2>5. QED
      BY <1>1, <2>1, <2>2, <2>3, <2>4 DEF CatalogOK, TablesTyped
  <1>15. \A c \in Contents : content[c] # None => content'[c] # None
    BY <1>9
  <1>16. TablesOK'
    <2>1. \A c \in Contents : content'[c] # None => c <= lastId'
      <3>1. \A c \in Contents : c <= lastId => c <= lastId'
        BY <1>5 DEF Contents
      <3>2. QED
        BY <1>9, <3>1 DEF CatalogOK, TablesOK
    <2>2. \A m \in mapping' : m.tag \in tags' /\ content'[m.content] # None
      <3>1. \A m \in mapping : m.tag \in tags' /\ content'[m.content] # None
        BY <1>10, <1>15 DEF CatalogOK, TablesOK, TablesTyped, Mappings
      <3>2. QED
        BY <1>12, <3>1
    <2>3. \A v \in review' : v.content <= lastId'
      <3>1. \A v \in review : v.content \in Contents
        BY DEF CatalogOK, TablesTyped, Reviews
      <3>2. QED
        BY <1>1, <1>5, <3>1 DEF CatalogOK, TablesOK, Contents
    <2>4. QED
      BY <1>1, <2>1, <2>2, <2>3 DEF CatalogOK, TablesOK
  <1>17. ReviewsHaveContent'
    BY <1>1, <1>15 DEF CatalogOK, TablesTyped, Reviews, ReviewsHaveContent
  <1>18. KeysDiffer'
    <2>1. ASSUME NEW c \in Contents, content'[c] # None, content'[c].key # None
          PROVE  \/ content[c] # None /\ content[c].key = content'[c].key
                 \/ \E k \in new : c = id[k] /\ content'[c].key = k
      BY <1>6, <1>9, <2>1
    <2>2. \A k \in new, c \in Contents : content[c] # None => content[c].key # k
      BY <1>3 DEF ImportOK, new
    <2>3. \A j, k \in new : id[j] = id[k] => j = k
      BY <1>2
    <2>4. KeysDiffer
      BY DEF CatalogOK, KeyOnce, KeysDiffer
    <2> SUFFICES ASSUME NEW c \in Contents, NEW d \in Contents, content'[c] # None,
                        content'[d] # None, content'[c].key = content'[d].key,
                        content'[c].key # None
                 PROVE  c = d
      BY DEF KeysDiffer
    <2>5. CASE content[c] # None /\ content[c].key = content'[c].key
      <3>1. content[d] # None /\ content[d].key = content'[d].key
        BY <2>1, <2>2, <2>5
      <3>2. QED
        BY <2>4, <2>5, <3>1 DEF KeysDiffer
    <2>6. CASE \E k \in new : c = id[k] /\ content'[c].key = k
      <3>1. \E k \in new : d = id[k] /\ content'[d].key = k
        BY <2>1, <2>2, <2>6
      <3>2. QED
        BY <2>6, <3>1
    <2>7. QED
      BY <2>1, <2>5, <2>6
  <1>19. KeyOnce'
    <2>1. ReviewedOnce'
      BY <1>1 DEF CatalogOK, KeyOnce, ReviewedOnce
    <2>2. QED
      BY <1>18, <2>1 DEF KeyOnce, KeysDiffer, ReviewedOnce
  <1>20. TotalsOK'
    <2>1. CASE setting.overlap
      BY <2>1 DEF TotalsOK
    <2>2. CASE ~setting.overlap
      <3>1. \A c \in Contents : content'[c] # None =>
             \/ /\ content[c] # None /\ content'[c].sum = content[c].sum
                /\ content'[c].count = content[c].count
             \/ c > lastId /\ content'[c].sum = 0 /\ content'[c].count = 0
        BY <1>9, <2>2
      <3>2. QED
        BY <1>1, <3>1, TotalsStay
    <2>3. QED
      BY <2>1, <2>2
  <1>21. /\ ProgressTyped' /\ pc'[r] = "done"
         /\ \A q \in Requests \ {r} : pc'[q] = pc[q] /\ tx'[q] = tx[q]
    BY <1>1, EndEffect DEF CatalogOK
  <1>22. \A q \in Requests \ {r} : pc[q] = "open" => tx[q].op # "import"
    BY <1>3 DEF CatalogOK, ProgressOK, TxOK
  <1>23. ProgressOK' /\ OneByOne'
    BY <1>1, <1>11, <1>14, <1>21, <1>22, ProgressKeeps
  <1>24. QED
    BY <1>11, <1>14, <1>16, <1>17, <1>19, <1>20, <1>21, <1>23 DEF CatalogOK

-----------------------------------------------------------------------------
(* The job.                                                                 *)

JobTyped ==
    /\ day \in 0..Len(Sources)
    /\ run \in 0..3 /\ step \in 1..3
    /\ reader \in Readers /\ reader.page > 0
    /\ chunk \in Seq(Entries) /\ Len(chunk) <= ChunkSize
    /\ chunks \in 0..MaxChunks
    /\ faults \in Seq(1..day) /\ Len(faults) <= MaxFaults

\* A run has a day to read from, its step for matches knows the number of teams,
\* and no chunk is written without a run.
JobOK ==
    /\ JobTyped
    /\ run # 0 => day # 0
    /\ run # 0 /\ step = 3 => reader.total = Len(Sources[day].teams)
    /\ Writing => run # 0
    /\ \A r \in (chunks + 1)..MaxChunks : pc[r] = "new"

IInv == CatalogOK /\ JobOK

LEMMA SportsIs == ASSUME JobTyped PROVE Sports <=> step = 3
  BY DEF JobTyped, Sports, Steps

LEMMA WiderSeq ==
  ASSUME NEW A, NEW B, A \subseteq B, NEW s \in Seq(A)
  PROVE  s \in Seq(B)
  <1>1. Len(s) \in Nat /\ s \in [1..Len(s) -> A]
    OBVIOUS
  <1>2. s \in [1..Len(s) -> B]
    BY <1>1
  <1>3. QED
    BY <1>1, <1>2

LEMMA SourceTypes ==
  ASSUME JobTyped, day # 0
  PROVE  /\ Sources[day].movies \in Seq(Seq(Entries)) /\ Sources[day].series \in Seq(Seq(Entries))
         /\ Sources[day].teams \in Seq(Seq(Entries)) /\ Pages \in Seq(Seq(Entries))
         /\ step = 3 => Pages = Sources[day].teams
  <1> DEFINE Days == [movies : Seq(Seq(Entries)), series : Seq(Seq(Entries)),
                      teams : Seq(Seq(Entries))]
  <1>1. Sources \in Seq(Days) /\ day \in 1..Len(Sources)
    BY ImportAssumption DEF JobTyped
  <1>2. Sources[day] \in Days
    <2> HIDE DEF Days
    <2>1. QED
      BY <1>1
  <1>3. QED
    BY <1>2, SportsIs DEF Pages

LEMMA OpenedType ==
  ASSUME NEW n \in Nat
  PROVE  /\ Opened(n) \in Readers /\ Opened(n).page = 1 /\ Opened(n).total = n
         /\ Opened(n).buffer = <<>> /\ ~Opened(n).ended
  <1>1. <<>> \in Seq(Entries)
    OBVIOUS
  <1>2. QED
    BY <1>1 DEF Opened, Readers

LEMMA ReceivedType ==
  ASSUME JobTyped, NEW items \in Seq(Entries), NEW n \in Nat
  PROVE  /\ Received(items, n) \in Readers /\ Received(items, n).page = reader.page + 1
         /\ Received(items, n).total = n /\ Received(items, n).buffer = items
         /\ Received(items, n).ended = (items = <<>>)
  <1>1. reader.page + 1 \in Nat
    BY DEF JobTyped, Readers
  <1>2. (items = <<>>) \in BOOLEAN
    OBVIOUS
  <1>3. QED
    BY <1>1, <1>2 DEF Received, Readers

LEMMA CatalogStays ==
  ASSUME CatalogOK, UNCHANGED <<vars, chunks>>
  PROVE  CatalogOK'
  <1>1. UNCHANGED <<setting, tables, pc, tx>>
    BY DEF vars
  <1>2. /\ TablesTyped' /\ TablesOK' /\ ReviewsHaveContent' /\ KeyOnce' /\ TotalsOK'
    BY <1>1, TablesStay
  <1>3. ProgressTyped' /\ OneByOne'
    BY <1>1 DEF CatalogOK, ProgressTyped, OneByOne
  <1>4. ProgressOK'
    BY <1>1 DEF CatalogOK, tables, ProgressOK, TxOK, Holds, ImportOK, ReviewsOf, TagsOf, MappingsOf
  <1>5. QED
    BY <1>2, <1>3, <1>4 DEF CatalogOK

LEMMA ReadFromBufferOK ==
  ASSUME JobOK, ReadFromBuffer
  PROVE  JobOK'
  <1>1. /\ Reading /\ reader.buffer # <<>>
        /\ chunk' = Append(chunk, Head(reader.buffer))
        /\ reader' = [reader EXCEPT !.buffer = Tail(@)]
        /\ UNCHANGED <<vars, day, run, step, chunks, faults>>
    BY DEF ReadFromBuffer
  <1>2. reader \in Readers /\ reader.buffer \in Seq(Entries)
    BY DEF JobOK, JobTyped, Readers
  <1>3. Head(reader.buffer) \in Entries /\ Tail(reader.buffer) \in Seq(Entries)
    BY <1>1, <1>2
  <1>4. reader' \in Readers /\ reader'.page = reader.page /\ reader'.total = reader.total
    BY <1>1, <1>2, <1>3 DEF Readers
  <1>5. chunk' \in Seq(Entries) /\ Len(chunk') <= ChunkSize
    BY <1>1, <1>3, ImportAssumption DEF JobOK, JobTyped, Reading
  <1>6. UNCHANGED pc
    BY <1>1 DEF vars
  <1>7. JobTyped'
    BY <1>1, <1>4, <1>5 DEF JobOK, JobTyped
  <1>8. QED
    BY <1>1, <1>4, <1>6, <1>7 DEF JobOK, Writing

LEMMA FetchPageOK ==
  ASSUME JobOK, FetchPage
  PROVE  JobOK'
  <1>1. /\ Reading /\ ~Sports
        /\ UNCHANGED <<vars, day, run, step, chunk, chunks, faults>>
    BY DEF FetchPage
  <1>2. PICK items : /\ items = (IF reader.page > Len(Pages) THEN <<>> ELSE Pages[reader.page])
                     /\ reader' = Received(items, Len(Pages))
    BY DEF FetchPage
  <1>3. JobTyped /\ day # 0 /\ step # 3
    BY <1>1, SportsIs DEF JobOK, Reading
  <1>4. reader.page \in Nat /\ reader.page > 0 /\ Pages \in Seq(Seq(Entries))
    BY <1>3, SourceTypes DEF JobTyped, Readers
  <1>5. items \in Seq(Entries) /\ Len(Pages) \in Nat
    BY <1>2, <1>4
  <1>6. reader' \in Readers /\ reader'.page = reader.page + 1
    BY <1>2, <1>3, <1>5, ReceivedType
  <1>7. UNCHANGED pc
    BY <1>1 DEF vars
  <1>8. JobTyped'
    BY <1>1, <1>3, <1>4, <1>6 DEF JobTyped
  <1>9. QED
    BY <1>1, <1>3, <1>7, <1>8 DEF JobOK, Writing

LEMMA FetchTeamOK ==
  ASSUME JobOK, FetchTeam
  PROVE  JobOK'
  <1>1. /\ Reading /\ Sports /\ reader.page <= reader.total
        /\ reader' = Received(Pages[reader.page], reader.total)
        /\ UNCHANGED <<vars, day, run, step, chunk, chunks, faults>>
    BY DEF FetchTeam
  <1>2. JobTyped /\ day # 0 /\ step = 3 /\ run # 0
    BY <1>1, SportsIs DEF JobOK, Reading
  <1>3. /\ reader.page \in Nat /\ reader.page > 0 /\ reader.total \in Nat
        /\ Pages \in Seq(Seq(Entries)) /\ reader.total = Len(Pages)
    BY <1>2, SourceTypes DEF JobOK, JobTyped, Readers
  <1>4. Pages[reader.page] \in Seq(Entries)
    BY <1>1, <1>3
  <1>5. reader' \in Readers /\ reader'.page = reader.page + 1 /\ reader'.total = reader.total
    BY <1>1, <1>2, <1>3, <1>4, ReceivedType
  <1>6. UNCHANGED pc
    BY <1>1 DEF vars
  <1>7. JobTyped'
    BY <1>1, <1>2, <1>3, <1>5 DEF JobTyped
  <1>8. QED
    BY <1>1, <1>2, <1>5, <1>6, <1>7 DEF JobOK, Writing

LEMMA FaultType ==
  ASSUME JobOK, run # 0, Fault, day' = day
  PROVE  faults' \in Seq(1..day') /\ Len(faults') <= MaxFaults
  <1>1. day \in 1..day /\ faults \in Seq(1..day)
    BY DEF JobOK, JobTyped
  <1>2. Len(faults) < MaxFaults /\ faults' = Append(faults, day)
    BY DEF Fault
  <1>3. QED
    BY <1>1, <1>2, ImportAssumption

LEMMA ReadingEndsOK ==
  ASSUME JobOK, CallFails \/ NoMore
  PROVE  JobOK'
  <1>1. /\ Reading
        /\ reader' = [reader EXCEPT !.ended = TRUE]
        /\ Fault \/ UNCHANGED faults
        /\ UNCHANGED <<vars, day, run, step, chunk, chunks>>
    BY DEF CallFails, NoMore
  <1>2. reader' \in Readers /\ reader'.page = reader.page /\ reader'.total = reader.total
    BY <1>1 DEF JobOK, JobTyped, Readers
  <1>3. faults' \in Seq(1..day') /\ Len(faults') <= MaxFaults
    BY <1>1, FaultType DEF JobOK, JobTyped, Reading
  <1>4. UNCHANGED pc
    BY <1>1 DEF vars
  <1>5. JobTyped'
    BY <1>1, <1>2, <1>3 DEF JobOK, JobTyped
  <1>6. QED
    BY <1>1, <1>2, <1>4, <1>5 DEF JobOK, Writing

LEMMA EmptyChunk == <<>> \in Seq(Entries) /\ Len(<<>>) <= ChunkSize
  BY ImportAssumption

LEMMA SkipOK ==
  ASSUME JobOK, Skip
  PROVE  JobOK'
  <1>1. chunk' = <<>> /\ UNCHANGED <<vars, day, run, step, reader, chunks, faults>>
    BY DEF Skip
  <1>2. JobTyped'
    BY <1>1, EmptyChunk DEF JobOK, JobTyped
  <1>3. QED
    BY <1>1, <1>2 DEF JobOK, Writing, vars

LEMMA NextDayOK ==
  ASSUME JobOK, NextDay
  PROVE  JobOK'
  <1>1. /\ run = 0 /\ day < Len(Sources) /\ day' = day + 1 /\ run' = 1 /\ step' = 1
        /\ reader' = Opened(1) /\ chunk' = <<>>
        /\ UNCHANGED <<vars, chunks, faults>>
    BY DEF NextDay, StartRun
  <1>2. day \in Nat /\ Len(Sources) \in Nat
    BY ImportAssumption DEF JobOK, JobTyped
  <1>3. faults' \in Seq(1..day')
    <2>1. 1..day \subseteq 1..day'
      BY <1>1, <1>2
    <2>2. faults \in Seq(1..day)
      BY DEF JobOK, JobTyped
    <2>3. QED
      BY <1>1, <2>1, <2>2, WiderSeq
  <1>4. JobTyped'
    BY <1>1, <1>2, <1>3, EmptyChunk, OpenedType DEF JobOK, JobTyped
  <1>5. QED
    BY <1>1, <1>2, <1>4 DEF JobOK, Writing, vars

LEMMA StepEndsOK ==
  ASSUME JobOK, StepEnds
  PROVE  JobOK'
  <1>1. /\ run # 0 /\ chunk = <<>> /\ UNCHANGED <<vars, day, chunks, faults>> /\ ~Writing
    BY DEF StepEnds
  <1>2. JobTyped /\ day # 0
    BY <1>1 DEF JobOK
  <1>3. Len(Sources[day].teams) \in Nat
    BY <1>2, SourceTypes
  <1>4. /\ run' \in 0..3 /\ step' \in 1..3 /\ reader' \in Readers /\ reader'.page > 0
        /\ chunk' = <<>>
        /\ step' = 3 => reader'.total = Len(Sources[day].teams)
    <2>1. CASE step = 3
      <3>1. run' = (IF run = 3 THEN 0 ELSE run + 1) /\ step' = 1 /\ reader' = Opened(1) /\ chunk' = <<>>
        BY <2>1 DEF StepEnds, NextRun, StartRun
      <3>2. QED
        BY <1>2, <3>1, OpenedType DEF JobTyped
    <2>2. CASE step # 3
      <3>1. PICK n \in Nat : /\ n = IF step = 2 THEN Len(Sources[day].teams) ELSE 1
                             /\ reader' = Opened(n)
        BY <1>3, <2>2 DEF StepEnds
      <3>2. step' = step + 1 /\ UNCHANGED <<run, chunk>>
        BY <2>2 DEF StepEnds
      <3>3. QED
        BY <1>1, <1>2, <2>2, <3>1, <3>2, OpenedType DEF JobTyped
    <2>3. QED
      BY <2>1, <2>2
  <1>5. JobTyped'
    BY <1>1, <1>2, <1>4, EmptyChunk DEF JobTyped
  <1>6. ~Writing'
    BY <1>1 DEF Writing, vars
  <1>7. QED
    BY <1>1, <1>2, <1>4, <1>5, <1>6 DEF JobOK, vars

\* A set of numbers up to n has a greatest one.
LEMMA Greatest ==
  ASSUME NEW n \in Nat, NEW S \in SUBSET (1..n), S # {}
  PROVE  \E i \in S : \A j \in S : j <= i
  <1> DEFINE From(i) == {j \in S : j >= i}
             T == {From(i) : i \in S}
  <1>0. PICK N : N = 1..n
    OBVIOUS
  <1>1. IsFiniteSet(N)
    BY <1>0, FS_Interval
  <1>2. T \in SUBSET SUBSET N /\ T # {}
    BY <1>0
  <1>3. PICK x \in T : \A y \in T : y \subseteq x => y = x
    <2> HIDE DEF T
    <2>1. QED
      BY <1>1, <1>2, LeastSubset
  <1>4. PICK i \in S : x = From(i)
    BY <1>3
  <1>5. ASSUME NEW j \in S, ~(j <= i) PROVE FALSE
    <2>1. i \in Int /\ j \in Int /\ S \subseteq Int
      OBVIOUS
    <2>2. i < j /\ i >= i /\ ~(i >= j)
      BY <1>5, <2>1
    <2>5. \A l \in S : l >= j => l >= i
      BY <2>1, <2>2
    <2>6. From(j) \subseteq From(i) /\ i \in From(i) /\ i \notin From(j)
      BY <2>2, <2>5
    <2>3. From(j) \in T
      OBVIOUS
    <2>4. QED
      BY <1>3, <1>4, <2>3, <2>6
  <1>6. QED
    BY <1>5

\* The chunk as the writer sees it.
LEMMA AsChunkType ==
  ASSUME JobTyped
  PROVE  /\ DOMAIN AsChunk = {e.key : e \in Processed}
         /\ DOMAIN AsChunk \in SUBSET Keys /\ IsFiniteSet(DOMAIN AsChunk)
         /\ AsChunk \in [DOMAIN AsChunk -> Items]
         /\ \A k \in DOMAIN AsChunk :
                /\ \E e \in Processed : e.key = k /\ AsChunk[k].title = e.title
                /\ AsChunk[k].names = UNION {e.names : e \in {f \in Processed : f.key = k}}
  <1> DEFINE n == Len(chunk)
             K == {e.key : e \in Processed}
             IsLast(k, i) == chunk[i].key = k /\ \A j \in i + 1 .. n : chunk[j].key # k
             last(k) == CHOOSE i \in 1..n : IsLast(k, i)
             names(k) == UNION {e.names : e \in {f \in Processed : f.key = k}}
  <1>1. n \in Nat /\ \A i \in 1..n : chunk[i] \in Entries
    BY DEF JobTyped
  <1>2. Processed = {} \/ Processed = {chunk[i] : i \in 1..n}
    BY DEF Processed
  <1>3. \A e \in Processed : e \in Entries
    BY <1>1, <1>2
  <1>4. AsChunk = [k \in K |-> [title |-> chunk[last(k)].title, names |-> names(k)]]
    BY Zenon DEF AsChunk
  <1>5. K \in SUBSET Keys
    BY <1>3 DEF Entries
  <1>6. IsFiniteSet(K)
    <2>1. CASE Processed = {}
      BY <2>1, FS_EmptySet
    <2>2. CASE Processed = {chunk[i] : i \in 1..n}
      <3> DEFINE f == [i \in 1..n |-> chunk[i].key]
      <3>1. K = {chunk[i].key : i \in 1..n}
        BY <2>2
      <3>2. f \in Surjection(1..n, K)
        BY <3>1 DEF Surjection
      <3>3. IsFiniteSet(1..n)
        BY <1>1, FS_Interval
      <3> HIDE DEF K, f
      <3>4. QED
        BY <3>2, <3>3, FS_Surjection
    <2>3. QED
      BY <1>2, <2>1, <2>2
  <1>7. ASSUME NEW k \in K
        PROVE  last(k) \in 1..n /\ chunk[last(k)].key = k /\ chunk[last(k)] \in Processed
    <2>1. Processed = {chunk[i] : i \in 1..n}
      BY <1>2
    <2> DEFINE S == {i \in 1..n : chunk[i].key = k}
    <2>2. S \in SUBSET (1..n) /\ S # {}
      BY <2>1
    <2>3. PICK i \in S : \A j \in S : j <= i
      <3> HIDE DEF S
      <3>1. QED
        BY <1>1, <2>2, Greatest
    <2>4. i \in 1..n /\ chunk[i].key = k /\ \A j \in i + 1 .. n : chunk[j].key # k
      BY <1>1, <2>3
    <2>5. \E j \in 1..n : IsLast(k, j)
      BY <2>4
    <2>6. last(k) \in 1..n /\ IsLast(k, last(k))
      <3> HIDE DEF IsLast
      <3>1. QED
        BY <2>5, Zenon
    <2> HIDE DEF last
    <2>7. QED
      BY <2>1, <2>6
  <1>8. \A k \in K : names(k) \subseteq Names
    BY <1>3 DEF Entries
  <1> HIDE DEF last, names
  <1>9. ASSUME NEW k \in K
        PROVE  /\ AsChunk[k] \in Items /\ AsChunk[k].names = names(k)
               /\ \E e \in Processed : e.key = k /\ AsChunk[k].title = e.title
    <2>1. AsChunk[k] = [title |-> chunk[last(k)].title, names |-> names(k)]
      BY <1>4
    <2>2. chunk[last(k)] \in Entries /\ chunk[last(k)] \in Processed /\ chunk[last(k)].key = k
      BY <1>3, <1>7
    <2>3. QED
      BY <1>8, <2>1, <2>2 DEF Items, Entries
  <1> HIDE DEF K
  <1>10. DOMAIN AsChunk = K /\ AsChunk \in [K -> Items]
    BY <1>4, <1>9
  <1>11. QED
    BY <1>5, <1>6, <1>9, <1>10 DEF K, names

\* Only the chunk that is being written is an import under way.
LEMMA OneImport ==
  ASSUME IInv, ~Writing
  PROVE  \A q \in Requests : pc[q] = "open" => tx[q].op # "import"
  BY DEF IInv, CatalogOK, ProgressOK, TxOK, Writing

LEMMA ChunkRequests ==
  ASSUME JobTyped
  PROVE  /\ chunks \in Nat /\ (chunks > 0 => chunks \in Requests)
         /\ chunks < MaxChunks => chunks + 1 \in Requests
  <1>1. chunks \in 0..MaxChunks /\ MaxChunks \in Nat /\ 1..MaxChunks \subseteq Requests
    BY ImportAssumption DEF JobTyped
  <1>2. QED
    BY <1>1

LEMMA WriteOK ==
  ASSUME IInv, Write
  PROVE  IInv'
  <1>1. /\ ChunkFull /\ ~Writing /\ chunks < MaxChunks /\ WriteChunk(chunks + 1, AsChunk)
        /\ chunks' = chunks + 1 /\ chunk' = <<>>
        /\ UNCHANGED <<setting, day, run, step, reader, faults>>
    BY DEF Write
  <1>2. JobTyped /\ CatalogOK
    BY DEF IInv, JobOK
  <1>3. chunks \in Nat /\ chunks' \in Requests /\ chunks' > 0
    BY <1>1, <1>2, ChunkRequests
  <1>4. CatalogOK'
    <2>1. \A q \in Requests : pc[q] = "open" => tx[q].op # "import"
      BY <1>1, OneImport
    <2>2. WriteChunk(chunks', AsChunk) /\ setting' = setting
      BY <1>1
    <2>3. /\ DOMAIN AsChunk \in SUBSET Keys /\ IsFiniteSet(DOMAIN AsChunk)
          /\ AsChunk \in [DOMAIN AsChunk -> Items]
      BY <1>2, AsChunkType
    <2>4. QED
      BY <1>2, <1>3, <2>1, <2>2, <2>3, WriteChunkKeeps
  <1>5. JobTyped'
    BY <1>1, <1>2, <1>3, EmptyChunk, ImportAssumption DEF JobTyped
  <1>6. \A q \in Requests \ {chunks'} : pc'[q] = pc[q]
    BY <1>1, <1>2 DEF WriteChunk, Begin, CatalogOK, ProgressTyped
  <1>7. \A q \in (chunks' + 1)..MaxChunks : pc'[q] = "new"
    <2> SUFFICES ASSUME NEW q \in (chunks' + 1)..MaxChunks PROVE pc'[q] = "new"
      OBVIOUS
    <2>1. /\ q \in (chunks + 1)..MaxChunks /\ q # chunks' /\ q \in Requests
      BY <1>1, <1>3, ImportAssumption
    <2>2. QED
      BY <1>6, <2>1 DEF IInv, JobOK
  <1>8. run' # 0
    BY <1>1 DEF ChunkFull
  <1>9. QED
    BY <1>1, <1>4, <1>5, <1>7, <1>8 DEF IInv, JobOK

LEMMA CommitsOK ==
  ASSUME IInv, Commits
  PROVE  IInv'
  <1>1. /\ Writing /\ CommitImport(chunks)
        /\ UNCHANGED <<setting, day, run, step, reader, chunk, chunks, faults>>
    BY DEF Commits, job
  <1>2. JobTyped /\ CatalogOK /\ chunks \in Requests
    BY <1>1, ChunkRequests DEF IInv, JobOK, Writing
  <1>3. CatalogOK'
    BY <1>1, <1>2, CommitImportKeeps
  <1>4. JobTyped'
    BY <1>1, <1>2 DEF JobTyped
  <1>5. pc' = [pc EXCEPT ![chunks] = "done"]
    BY <1>1 DEF CommitImport, End
  <1>6. \A q \in (chunks + 1)..MaxChunks : pc'[q] = "new"
    BY <1>2, <1>5, ImportAssumption DEF IInv, JobOK, CatalogOK, ProgressTyped
  <1>7. run # 0
    BY <1>1 DEF IInv, JobOK
  <1>8. QED
    BY <1>1, <1>3, <1>4, <1>6, <1>7 DEF IInv, JobOK

LEMMA FailsOK ==
  ASSUME CatalogOK, JobOK, Writing, Fail(chunks), UNCHANGED <<setting, chunks>>
  PROVE  /\ CatalogOK' /\ ~Writing'
         /\ \A q \in (chunks + 1)..MaxChunks : pc'[q] = "new"
  <1>1. chunks \in Requests
    BY ChunkRequests DEF JobOK, Writing
  <1>2. pc' = [pc EXCEPT ![chunks] = "failed"]
    BY DEF Fail, End
  <1>3. CatalogOK'
    BY <1>1, FailKeeps
  <1>4. pc'[chunks] = "failed"
    BY <1>1, <1>2 DEF CatalogOK, ProgressTyped
  <1>5. \A q \in (chunks + 1)..MaxChunks : pc'[q] = "new"
    <2>1. chunks \in Nat
      BY ChunkRequests DEF JobOK
    <2>2. QED
      BY <1>2, <2>1, ImportAssumption DEF JobOK, CatalogOK, ProgressTyped
  <1>6. QED
    BY <1>3, <1>4, <1>5 DEF Writing

LEMMA ChunkFailsOK ==
  ASSUME IInv, ChunkFails
  PROVE  IInv'
  <1>1. /\ Writing /\ Fail(chunks) /\ NextRun /\ Fault
        /\ UNCHANGED <<setting, day, chunks>>
    BY DEF ChunkFails
  <1>2. JobTyped /\ CatalogOK /\ JobOK /\ run # 0
    BY <1>1 DEF IInv, JobOK
  <1>3. run' \in 0..3 /\ step' = 1 /\ reader' = Opened(1) /\ chunk' = <<>>
    BY <1>1, <1>2 DEF NextRun, StartRun, JobTyped
  <1>4. /\ CatalogOK' /\ ~Writing'
        /\ \A q \in (chunks + 1)..MaxChunks : pc'[q] = "new"
    BY <1>1, <1>2, FailsOK
  <1>5. faults' \in Seq(1..day') /\ Len(faults') <= MaxFaults
    BY <1>1, <1>2, FaultType
  <1>6. JobTyped'
    <2>1. day' = day /\ chunks' = chunks
      BY <1>1
    <2>2. reader' \in Readers /\ reader'.page > 0
      BY <1>3, OpenedType
    <2>3. QED
      BY <2>1, <2>2, <1>2, <1>3, <1>5, EmptyChunk DEF JobTyped
  <1>7. QED
    BY <1>1, <1>2, <1>3, <1>4, <1>6 DEF IInv, JobOK

LEMMA CrashOK ==
  ASSUME IInv, Crash
  PROVE  IInv'
  <1>1. /\ run # 0 /\ Fault /\ UNCHANGED <<setting, day, chunks>>
        /\ run' = 0 /\ step' = 1 /\ reader' = Opened(1) /\ chunk' = <<>>
        /\ \/ Writing /\ Fail(chunks)
           \/ ~Writing /\ UNCHANGED <<tables, pc, tx>>
    BY DEF Crash, StartRun
  <1>2. JobTyped /\ CatalogOK /\ JobOK
    BY DEF IInv, JobOK
  <1>3. /\ CatalogOK' /\ ~Writing'
        /\ \A q \in (chunks + 1)..MaxChunks : pc'[q] = "new"
    <2>1. CASE Writing /\ Fail(chunks)
      BY <1>1, <1>2, <2>1, FailsOK
    <2>2. CASE ~Writing /\ UNCHANGED <<tables, pc, tx>>
      <3>1. UNCHANGED <<vars, chunks>>
        BY <1>1, <2>2 DEF vars
      <3>2. QED
        BY <1>1, <1>2, <2>2, <3>1, CatalogStays DEF JobOK, Writing
    <2>3. QED
      BY <1>1, <2>1, <2>2
  <1>4. faults' \in Seq(1..day') /\ Len(faults') <= MaxFaults
    BY <1>1, <1>2, FaultType
  <1>5. JobTyped'
    BY <1>1, <1>2, <1>4, EmptyChunk, OpenedType DEF JobTyped
  <1>6. QED
    BY <1>1, <1>3, <1>5 DEF IInv, JobOK

\* A step of a request moves that request only.
LEMMA RequestMovesOne ==
  ASSUME CatalogOK, NEW r \in Requests, Request(r)
  PROVE  \A q \in Requests \ {r} : pc'[q] = pc[q]
  <1>1. \A how : End(r, how) => \A q \in Requests \ {r} : pc'[q] = pc[q]
    BY DEF End, CatalogOK, ProgressTyped
  <1>2. \A goes, t : Begin(r, goes, t) => \A q \in Requests \ {r} : pc'[q] = pc[q]
    BY DEF Begin, CatalogOK, ProgressTyped
  <1>3. CASE StartReview(r)
    BY <1>2, <1>3 DEF StartReview, CreateReview, UpdateReview, DeleteReview
  <1>4. CASE StartAdmin(r)
    <2>1. \A title, names : SaveContent(r, title, names) => \A q \in Requests \ {r} : pc'[q] = pc[q]
      BY DEF SaveContent, CatalogOK, ProgressTyped
    <2>2. QED
      BY <1>2, <1>4, <2>1 DEF StartAdmin, PatchContent, DeleteContent
  <1>5. CASE Finish(r) \/ Fail(r)
    <2>1. CASE CreateContent(r)
      BY <1>1, <2>1 DEF CreateContent, FindTag, SaveTag, SaveMapping, Created
    <2>2. CASE \/ CommitReview(r) \/ CommitUpdateReview(r) \/ CommitDeleteReview(r)
               \/ CommitPatch(r) \/ CommitDeleteContent(r) \/ Fail(r)
      <3>1. \E how : End(r, how)
        BY <2>2 DEF CommitReview, CommitUpdateReview, CommitDeleteReview, CommitPatch,
                    CommitDeleteContent, Fail
      <3>2. QED
        BY <1>1, <3>1
    <2>3. QED
      BY <1>5, <2>1, <2>2 DEF Finish
  <1>6. QED
    BY <1>3, <1>4, <1>5 DEF Request

LEMMA RequestKeeps ==
  ASSUME CatalogOK, NEW r \in Requests, Request(r)
  PROVE  CatalogOK'
  <1>1. UNCHANGED <<setting, chunks>>
    BY DEF Request, job
  <1>2. CASE StartReview(r)
    <2>1. CASE \E u \in Users, c \in 1..lastId, rating \in Ratings : CreateReview(r, u, c, rating)
      BY <1>1, <2>1, CreateReviewKeeps
    <2>2. CASE setting.edits /\ \E u \in Users, v \in review :
                \/ DeleteReview(r, u, v) \/ \E rating \in Ratings : UpdateReview(r, u, v, rating)
      BY <1>1, <2>2, EditReviewKeeps
    <2>3. QED
      BY <1>2, <2>1, <2>2 DEF StartReview
  <1>3. CASE StartAdmin(r)
    <2>1. setting.admin /\ TagLists \subseteq SUBSET Names
      BY <1>3, CatalogAssumption DEF StartAdmin
    <2>2. CASE \E c \in 1..lastId, title \in Titles : PatchContent(r, c, title, FALSE, {})
      <3>1. {} \in SUBSET Names /\ FALSE \in BOOLEAN
        OBVIOUS
      <3>2. QED
        BY <1>1, <2>1, <2>2, <3>1, PatchContentKeeps
    <2>3. CASE \E c \in 1..lastId, title \in Titles, names \in TagLists :
                  PatchContent(r, c, title, TRUE, names)
      BY <1>1, <2>1, <2>3, PatchContentKeeps
    <2>4. CASE \E c \in 1..lastId : DeleteContent(r, c)
      BY <1>1, <2>1, <2>4, DeleteContentKeeps
    <2>5. CASE \E title \in Titles, names \in TagLists : SaveContent(r, title, names)
      BY <1>1, <2>1, <2>5, SaveContentKeeps
    <2>6. QED
      BY <1>3, <2>2, <2>3, <2>4, <2>5 DEF StartAdmin
  <1>4. CASE Finish(r)
    BY <1>1, <1>4, CommitReviewKeeps, CommitUpdateReviewKeeps, CommitDeleteReviewKeeps,
       CommitPatchKeeps, CommitDeleteContentKeeps, FindTagKeeps, SaveTagKeeps,
       SaveMappingKeeps, CreatedKeeps DEF Finish, CreateContent
  <1>5. CASE Fail(r)
    BY <1>1, <1>5, FailKeeps
  <1>6. QED
    BY <1>2, <1>3, <1>4, <1>5 DEF Request

LEMMA RequestOK ==
  ASSUME IInv, NEW r \in Free, Request(r)
  PROVE  IInv'
  <1>1. r \in Requests \ 1..MaxChunks
    BY ImportAssumption DEF Free
  <1>2. CatalogOK'
    BY <1>1, RequestKeeps DEF IInv
  <1>3. UNCHANGED <<day, run, step, reader, chunk, chunks, faults>>
    BY DEF Request, job
  <1>4. \A q \in 1..MaxChunks : pc'[q] = pc[q]
    BY <1>1, RequestMovesOne, ImportAssumption DEF IInv
  <1>5. chunks \in 0..MaxChunks /\ MaxChunks \in Nat
    BY ImportAssumption DEF IInv, JobOK, JobTyped
  <1>6. Writing' = Writing
    BY <1>3, <1>4, <1>5 DEF Writing
  <1>7. JobTyped'
    BY <1>3 DEF IInv, JobOK, JobTyped
  <1>8. \A q \in (chunks' + 1)..MaxChunks : pc'[q] = "new"
    BY <1>3, <1>4, <1>5 DEF IInv, JobOK
  <1>9. QED
    BY <1>2, <1>3, <1>6, <1>7, <1>8 DEF IInv, JobOK

-----------------------------------------------------------------------------

LEMMA InitOK == JobInit => IInv
  <1> SUFFICES ASSUME JobInit PROVE IInv
    OBVIOUS
  <1>0. Init
    BY DEF JobInit
  <1>1. /\ setting \in Modes /\ lastId = 1 /\ tags = {} /\ mapping = {} /\ review = {}
        /\ pc = [r \in Requests |-> "new"] /\ tx = [r \in Requests |-> None]
    BY <1>0 DEF Init
  <1>2. PICK title \in Titles :
           content = [c \in Contents |->
                         IF c = 1 THEN [key |-> None, title |-> title, sum |-> 0, count |-> 0]
                         ELSE None]
    BY <1>0 DEF Init
  <1>3. PICK row : row = [key |-> None, title |-> title, sum |-> 0, count |-> 0]
    OBVIOUS
  <1>4. row \in Rows /\ row.key = None /\ row.sum = 0 /\ row.count = 0
    BY <1>3 DEF Rows
  <1>5. content \in [Contents -> Rows \cup {None}] /\ \A c \in Contents : content[c] # None => c = 1 /\ content[c] = row
    BY <1>2, <1>3, <1>4
  <1>6. MaxContents \in Nat \ {0}
    BY CatalogAssumption
  <1>7. TablesTyped
    BY <1>1, <1>5, <1>6 DEF TablesTyped
  <1>8. TablesOK
    BY <1>1, <1>5, FS_EmptySet DEF TablesOK
  <1>9. ProgressTyped /\ ProgressOK /\ OneByOne
    BY <1>1 DEF ProgressTyped, ProgressOK, OneByOne
  <1>10. ReviewsHaveContent /\ KeyOnce
    BY <1>1, <1>4, <1>5 DEF ReviewsHaveContent, KeyOnce
  <1>11. TotalsOK
    <2>1. \A c : ReviewsOf(c) = {}
      BY <1>1 DEF ReviewsOf
    <2>2. Cardinality({}) = 0 /\ Total({}) = 0
      BY FS_EmptySet, TotalStep
    <2>3. QED
      BY <1>4, <1>5, <2>1, <2>2 DEF TotalsOK
  <1>12. CatalogOK
    BY <1>7, <1>8, <1>9, <1>10, <1>11 DEF CatalogOK
  <1>13. /\ day = 0 /\ run = 0 /\ step = 1 /\ reader = Opened(1) /\ chunk = <<>>
         /\ chunks = 0 /\ faults = <<>>
    BY DEF JobInit
  <1>14. <<>> \in Seq(1..day) /\ Len(<<>>) <= MaxFaults /\ Len(Sources) \in Nat /\ MaxChunks \in Nat
    BY ImportAssumption
  <1>15. JobTyped
    BY <1>13, <1>14, EmptyChunk, OpenedType DEF JobTyped
  <1>16. \A r \in (chunks + 1)..MaxChunks : pc[r] = "new"
    BY <1>1, <1>13, ImportAssumption
  <1>17. JobOK
    BY <1>13, <1>15, <1>16 DEF JobOK, Writing
  <1>18. QED
    BY <1>12, <1>17 DEF IInv

LEMMA JobKeeps ==
  ASSUME IInv, Job
  PROVE  IInv'
  <1>1. CatalogOK /\ JobOK
    BY DEF IInv
  <1>2. CASE \/ NextDay \/ StepEnds \/ ReadFromBuffer \/ FetchPage \/ FetchTeam
             \/ CallFails \/ NoMore \/ Skip
    <2>1. UNCHANGED <<vars, chunks>>
      BY <1>2 DEF NextDay, StepEnds, ReadFromBuffer, FetchPage, FetchTeam, CallFails, NoMore, Skip
    <2>2. CatalogOK'
      BY <1>1, <2>1, CatalogStays
    <2>3. JobOK'
      BY <1>1, <1>2, NextDayOK, StepEndsOK, ReadFromBufferOK, FetchPageOK, FetchTeamOK,
         ReadingEndsOK, SkipOK
    <2>4. QED
      BY <2>2, <2>3 DEF IInv
  <1>3. QED
    BY <1>2, WriteOK, CommitsOK, ChunkFailsOK, CrashOK DEF Job

LEMMA StutterOK ==
  ASSUME IInv, UNCHANGED allVars
  PROVE  IInv'
  <1>1. UNCHANGED <<vars, day, run, step, reader, chunk, chunks, faults>>
    BY DEF allVars, job
  <1>2. CatalogOK'
    BY <1>1, CatalogStays DEF IInv
  <1>3. JobTyped'
    BY <1>1 DEF IInv, JobOK, JobTyped
  <1>4. UNCHANGED pc
    BY <1>1 DEF vars
  <1>5. QED
    BY <1>1, <1>2, <1>3, <1>4 DEF IInv, JobOK, Writing

\* Tables, open transactions and the job fit each other in every reachable state.
THEOREM Inductive == JobSpec => []IInv
  <1>1. IInv /\ [JobNext]_allVars => IInv'
    BY JobKeeps, RequestOK, StutterOK DEF JobNext
  <1>2. QED
    BY InitOK, <1>1, PTL DEF JobSpec

\* The types hold, a review has its content where the tables demand it, a key of
\* the import has one content, and without overlap a user reviews a content once.
THEOREM CatalogHolds == JobSpec => []CatalogInv
  <1>1. IInv => CatalogInv
    <2> SUFFICES ASSUME IInv PROVE CatalogInv
      OBVIOUS
    <2>1. TypeOK
      <3>1. /\ DOMAIN tx = Requests
            /\ \A r \in Requests : \/ tx[r] \in Transactions \cup {None}
                                  \/ \E K \in SUBSET Keys : tx[r] \in Imports(K)
        BY DEF IInv, CatalogOK, ProgressTyped, AnyTransaction
      <3>2. QED
        BY <3>1 DEF IInv, CatalogOK, TablesTyped, TablesOK, ProgressTyped, TypeOK
    <2>2. JobTypeOK
      BY <2>1 DEF IInv, JobOK, JobTyped, JobTypeOK
    <2>3. QED
      BY <2>2 DEF IInv, CatalogOK, CatalogInv
  <1>2. QED
    BY Inductive, <1>1, PTL

\* The totals of a content are those of its reviews, if transactions do not
\* overlap and no review is edited or deleted.
THEOREM TotalsHold == JobSpec => []TotalsMatch
  <1>1. IInv => TotalsMatch
    BY TotalsMatchIs DEF IInv, CatalogOK
  <1>2. QED
    BY Inductive, <1>1, PTL

-----------------------------------------------------------------------------
(* Nothing that is offered gets lost.                                       *)

Elements(s) == {s[i] : i \in 1..Len(s)}

Today == OfferedOn(day)

\* What ImportComplete assumes of a day.
Undisturbed == ~setting.overlap /\ ~setting.admin /\ day > 0 /\ Sound /\ Plain(day)

StoredAs(e) ==
    \E c \in Contents :
        /\ content[c] # None
        /\ content[c].key = e.key /\ content[c].title = e.title
        /\ e.names \subseteq TagsOf(c)

\* e is in the chunk that is being written.
Sent(e) ==
    /\ Writing /\ e.key \in DOMAIN tx[chunks].chunk
    /\ tx[chunks].chunk[e.key].title = e.title
    /\ tx[chunks].chunk[e.key].names = e.names

Handled(e) == StoredAs(e) \/ e \in Elements(reader.buffer) \/ e \in Elements(chunk) \/ Sent(e)

\* After the first answer the reader knows the number of pages.
Knows == run # 0 => \/ reader.page = 1 /\ reader.total = 1
                    \/ reader.total = Len(Pages)

FromToday ==
    /\ Elements(chunk) \subseteq Today /\ Elements(reader.buffer) \subseteq Today
    /\ Writing => /\ tx[chunks].op = "import"
                  /\ \A k \in DOMAIN tx[chunks].chunk : \E e \in Today : e.key = k /\ Sent(e)

\* The run for matches drops what the other two steps read.
Fetched ==
    run # 0 /\ (run # 3 \/ step = 3) =>
        \A i \in 1..Len(Pages) : i < reader.page => \A e \in Elements(Pages[i]) : Handled(e)

Ended == run # 0 /\ reader.ended => reader.buffer = <<>> /\ reader.page > Len(Pages)

Stored(pages) == \A i \in 1..Len(pages) : \A e \in Elements(pages[i]) : StoredAs(e)

Done ==
    /\ run # 1 \/ step # 1 => Stored(Sources[day].movies)
    /\ run # 1 => Stored(Sources[day].teams)
    /\ run \in {0, 3} \/ (run = 2 /\ step # 1) => Stored(Sources[day].series)

Covered == Undisturbed => Knows /\ FromToday /\ Fetched /\ Ended /\ Done

LEMMA SportsStep == step' = 3 => Sports'
  BY DEF Sports, Steps

LEMMA PagesAre ==
  ASSUME JobTyped, run # 0
  PROVE  Pages = IF step = 3 THEN Sources[day].teams
                 ELSE IF run = 2 THEN Sources[day].series ELSE Sources[day].movies
  <1>1. run \in 1..3
    BY DEF JobTyped
  <1>2. Types[run] = "DRAMA" <=> run = 2
    BY <1>1 DEF Types
  <1>3. QED
    BY <1>2, SportsIs DEF Pages

LEMMA AppendElements ==
  ASSUME NEW S, NEW s \in Seq(S), NEW x
  PROVE  Elements(Append(s, x)) = Elements(s) \cup {x}
  <1>1. Len(Append(s, x)) = Len(s) + 1 /\ Len(s) \in Nat
    OBVIOUS
  <1>2. \A i \in 1..Len(s) : Append(s, x)[i] = s[i]
    OBVIOUS
  <1>3. Append(s, x)[Len(s) + 1] = x
    OBVIOUS
  <1>4. \A i : i \in 1..Len(s) + 1 <=> i \in 1..Len(s) \/ i = Len(s) + 1
    BY <1>1
  <1>5. QED
    BY <1>1, <1>2, <1>3, <1>4 DEF Elements

LEMMA TailElements ==
  ASSUME NEW S, NEW s \in Seq(S), s # <<>>
  PROVE  Elements(s) = Elements(Tail(s)) \cup {Head(s)}
  <1>1. Len(s) \in Nat /\ Len(s) > 0 /\ Len(Tail(s)) = Len(s) - 1 /\ Head(s) = s[1]
    OBVIOUS
  <1>2. \A i \in 1..Len(s) - 1 : Tail(s)[i] = s[i + 1]
    BY <1>1
  <1>3. \A i \in 1..Len(s) : i = 1 \/ (i - 1 \in 1..Len(s) - 1 /\ (i - 1) + 1 = i)
    BY <1>1
  <1>4. \A i \in 1..Len(s) - 1 : i + 1 \in 1..Len(s)
    BY <1>1
  <1>5. Elements(s) \subseteq Elements(Tail(s)) \cup {Head(s)}
    BY <1>1, <1>2, <1>3 DEF Elements
  <1>6. Elements(Tail(s)) \cup {Head(s)} \subseteq Elements(s)
    <2>1. 1 \in 1..Len(s)
      BY <1>1
    <2>2. QED
      BY <1>1, <1>2, <1>4, <2>1 DEF Elements
  <1>7. QED
    BY <1>5, <1>6

LEMMA OfferedIs ==
  ASSUME NEW pages, NEW i \in 1..Len(pages), NEW e \in Elements(pages[i])
  PROVE  e \in Offered(pages)
  BY DEF Elements, Offered

LEMMA PagesOffered ==
  ASSUME JobTyped, run # 0, Undisturbed
  PROVE  /\ \A i \in 1..Len(Pages) : Pages[i] # <<>> /\ Elements(Pages[i]) \subseteq Today
         /\ \A e, f \in Today : e.key = f.key => e = f
  <1>1. \/ Pages = Sources[day].teams \/ Pages = Sources[day].series \/ Pages = Sources[day].movies
    BY PagesAre
  <1>2. Offered(Pages) \subseteq Today
    BY <1>1 DEF Today, OfferedOn
  <1>3. \A i \in 1..Len(Pages) : Elements(Pages[i]) \subseteq Offered(Pages)
    BY OfferedIs
  <1>4. \A i \in 1..Len(Pages) : Pages[i] # <<>>
    BY <1>1 DEF Undisturbed, Plain
  <1>5. \A e, f \in Today : e.key = f.key => e = f
    BY DEF Undisturbed, Plain, Today
  <1>6. QED
    BY <1>2, <1>3, <1>4, <1>5

\* A fault of today ends the sound day.
LEMMA StillUndisturbed ==
  ASSUME IInv, Undisturbed', day' = day, setting' = setting,
         UNCHANGED faults \/ Fault
  PROVE  Undisturbed /\ UNCHANGED faults
  <1>1. faults \in Seq(1..day)
    BY DEF IInv, JobOK, JobTyped
  <1>2. ASSUME Fault PROVE FALSE
    <2>1. faults' = Append(faults, day)
      BY <1>2 DEF Fault
    <2>2. Len(faults) + 1 \in 1..Len(faults') /\ faults'[Len(faults) + 1] = day
      BY <1>1, <2>1
    <2>3. QED
      BY <2>2 DEF Undisturbed, Sound
  <1>3. UNCHANGED faults
    BY <1>2
  <1>4. Plain(day)' = Plain(day)
    BY DEF Plain, OfferedOn
  <1>5. QED
    BY <1>3, <1>4 DEF Undisturbed, Sound

\* A step that leaves the tables and requests alone.
LEMMA NothingStored ==
  ASSUME UNCHANGED <<vars, day, chunks>>
  PROVE  /\ Writing' = Writing /\ Today' = Today
         /\ \A e : StoredAs(e)' = StoredAs(e) /\ Sent(e)' = Sent(e)
         /\ UNCHANGED <<content, mapping, pc, tx>>
  <1>1. UNCHANGED <<content, mapping, pc, tx>>
    BY DEF vars, tables
  <1>2. Writing' = Writing
    BY <1>1 DEF Writing
  <1>3. \A c : TagsOf(c)' = TagsOf(c)
    BY <1>1 DEF TagsOf, MappingsOf
  <1>4. \A e : StoredAs(e)' = StoredAs(e)
    BY <1>1, <1>3 DEF StoredAs
  <1>5. \A e : Sent(e)' = Sent(e)
    BY <1>1, <1>2 DEF Sent
  <1>6. Today' = Today
    BY DEF Today, OfferedOn
  <1>7. QED
    BY <1>1, <1>2, <1>4, <1>5, <1>6

LEMMA DoneStays ==
  ASSUME Done, UNCHANGED <<day, run, step>>, \A e \in Today : StoredAs(e) => StoredAs(e)'
  PROVE  Done'
  <1>1. ASSUME NEW pages \in {Sources[day].movies, Sources[day].teams, Sources[day].series},
               Stored(pages)
        PROVE  \A i \in 1..Len(pages) : \A e \in Elements(pages[i]) : StoredAs(e)'
    <2>1. Offered(pages) \subseteq Today
      BY DEF Today, OfferedOn
    <2>2. QED
      BY <1>1, <2>1, OfferedIs DEF Stored
  <1>2. QED
    BY <1>1 DEF Done, Stored

\* What the reader has got stays handled while items go from page to chunk.
LEMMA FetchedStays ==
  ASSUME Fetched, UNCHANGED <<vars, day, run, step, chunks>>, UNCHANGED Pages,
         reader.page \in Int, \A i \in 1..Len(Pages) : i < reader'.page => i < reader.page,
         Elements(reader.buffer) \cup Elements(chunk) \subseteq
             Elements(reader'.buffer) \cup Elements(chunk')
  PROVE  Fetched'
  <1>1. \A e : Handled(e) => Handled(e)'
    BY NothingStored DEF Handled
  <1>2. QED
    BY <1>1 DEF Fetched

LEMMA PagesStay ==
  ASSUME UNCHANGED <<day, run, step>>
  PROVE  UNCHANGED Pages
  BY DEF Pages, Sports

LEMMA ReadFromBufferCovered ==
  ASSUME IInv, Covered, ReadFromBuffer
  PROVE  Covered'
  <1> SUFFICES ASSUME Undisturbed' PROVE (Knows /\ FromToday /\ Fetched /\ Ended /\ Done)'
    BY DEF Covered
  <1>1. /\ Reading /\ reader.buffer # <<>>
        /\ chunk' = Append(chunk, Head(reader.buffer))
        /\ reader' = [reader EXCEPT !.buffer = Tail(@)]
        /\ UNCHANGED <<vars, day, run, step, chunks, faults>>
    BY DEF ReadFromBuffer
  <1>2. Undisturbed /\ UNCHANGED setting
    BY <1>1, StillUndisturbed DEF vars
  <1>3. Knows /\ FromToday /\ Fetched /\ Ended /\ Done
    BY <1>2 DEF Covered
  <1>4. /\ reader \in Readers /\ reader.buffer \in Seq(Entries) /\ chunk \in Seq(Entries)
        /\ reader.page \in Int
    BY DEF IInv, JobOK, JobTyped, Readers
  <1>5. UNCHANGED Pages
    BY <1>1, PagesStay
  <1>6. /\ reader'.page = reader.page /\ reader'.total = reader.total
        /\ reader'.ended = reader.ended /\ reader'.buffer = Tail(reader.buffer)
    BY <1>1, <1>4 DEF Readers
  <1>7. Elements(chunk') = Elements(chunk) \cup {Head(reader.buffer)}
    BY <1>1, <1>4, AppendElements
  <1>8. Elements(reader.buffer) = Elements(reader'.buffer) \cup {Head(reader.buffer)}
    BY <1>1, <1>4, <1>6, TailElements
  <1>9. Fetched'
    BY <1>1, <1>3, <1>4, <1>5, <1>6, <1>7, <1>8, FetchedStays
  <1>10. FromToday'
    <2>1. Elements(chunk') \subseteq Today' /\ Elements(reader'.buffer) \subseteq Today'
      BY <1>1, <1>3, <1>7, <1>8, NothingStored DEF FromToday
    <2>2. QED
      BY <1>1, <1>3, <2>1, NothingStored DEF FromToday
  <1>11. Knows' /\ Ended'
    <2>1. ~reader.ended
      BY <1>1 DEF Reading
    <2>2. QED
      BY <1>1, <1>3, <1>5, <1>6, <2>1 DEF Knows, Ended
  <1>12. Done'
    BY <1>1, <1>3, NothingStored, DoneStays
  <1>13. QED
    BY <1>9, <1>10, <1>11, <1>12

\* A page arrives. The buffer was empty, and its items are in it now.
LEMMA PageCovered ==
  ASSUME IInv, Undisturbed, Knows, FromToday, Fetched, Ended, Done,
         UNCHANGED <<vars, day, run, step, chunk, chunks>>, run # 0,
         reader.buffer = <<>>, ~reader.ended,
         reader'.page = reader.page + 1, reader'.total = Len(Pages),
         reader'.buffer = (IF reader.page > Len(Pages) THEN <<>> ELSE Pages[reader.page]),
         reader'.ended <=> reader'.buffer = <<>>
  PROVE  (Knows /\ FromToday /\ Fetched /\ Ended /\ Done)'
  <1>1. UNCHANGED Pages
    BY PagesStay
  <1>2. /\ reader.page \in Nat /\ reader.page > 0 /\ Len(Pages) \in Nat
        /\ \A i \in 1..Len(Pages) : Pages[i] # <<>> /\ Elements(Pages[i]) \subseteq Today
    <2>1. JobTyped /\ day # 0
      BY DEF IInv, JobOK
    <2>2. Pages \in Seq(Seq(Entries))
      BY <2>1, SourceTypes
    <2>3. QED
      BY <2>1, <2>2, PagesOffered DEF JobTyped, Readers
  <1>3. Elements(<<>>) = {}
    BY DEF Elements
  <1>4. \A e : StoredAs(e)' = StoredAs(e) /\ Sent(e)' = Sent(e)
    BY NothingStored
  <1>5. ASSUME NEW e, Handled(e) PROVE Handled(e)'
    BY <1>3, <1>4, <1>5 DEF Handled
  <1>6. Fetched'
    <2> SUFFICES ASSUME run # 3 \/ step = 3, NEW i \in 1..Len(Pages), i < reader'.page,
                        NEW e \in Elements(Pages[i])
                 PROVE  Handled(e)'
      BY <1>1 DEF Fetched
    <2>1. CASE i < reader.page
      BY <1>5, <2>1 DEF Fetched
    <2>2. CASE ~(i < reader.page)
      <3>1. i = reader.page /\ reader'.buffer = Pages[i]
        BY <1>2, <2>2
      <3>2. QED
        BY <3>1 DEF Handled
    <2>3. QED
      BY <2>1, <2>2
  <1>7. FromToday'
    <2>1. Elements(reader'.buffer) \subseteq Today
      <3>1. CASE reader.page > Len(Pages)
        BY <1>3, <3>1
      <3>2. CASE ~(reader.page > Len(Pages))
        <4>1. reader.page \in 1..Len(Pages)
          BY <1>2, <3>2
        <4>2. QED
          BY <1>2, <3>2, <4>1
      <3>3. QED
        BY <3>1, <3>2
    <2>2. QED
      BY <2>1, NothingStored DEF FromToday
  <1>8. Knows'
    BY <1>1 DEF Knows
  <1>9. Ended'
    <2> SUFFICES ASSUME reader'.ended PROVE reader'.buffer = <<>> /\ reader'.page > Len(Pages)
      BY <1>1 DEF Ended
    <2>1. reader.page > Len(Pages)
      <3>1. reader.page \in 1..Len(Pages) => Pages[reader.page] # <<>>
        BY <1>2
      <3>2. QED
        BY <1>2, <3>1
    <2>2. QED
      BY <1>2, <2>1
  <1>10. Done'
    BY <1>4, DoneStays
  <1>11. QED
    BY <1>6, <1>7, <1>8, <1>9, <1>10

LEMMA FetchCovered ==
  ASSUME IInv, Covered, FetchPage \/ FetchTeam
  PROVE  Covered'
  <1> SUFFICES ASSUME Undisturbed' PROVE (Knows /\ FromToday /\ Fetched /\ Ended /\ Done)'
    BY DEF Covered
  <1>1. /\ Reading /\ reader.buffer = <<>>
        /\ UNCHANGED <<vars, day, run, step, chunk, chunks, faults>>
    BY DEF FetchPage, FetchTeam
  <1>2. Undisturbed /\ UNCHANGED setting
    BY <1>1, StillUndisturbed DEF vars
  <1>3. Knows /\ FromToday /\ Fetched /\ Ended /\ Done
    BY <1>2 DEF Covered
  <1>4. JobTyped /\ run # 0 /\ ~reader.ended /\ day # 0
    BY <1>1 DEF IInv, JobOK, Reading
  <1>5. Pages \in Seq(Seq(Entries)) /\ reader.page \in Nat /\ reader.page > 0
    BY <1>4, SourceTypes DEF JobTyped, Readers
  <1>6. PICK items : /\ items = (IF reader.page > Len(Pages) THEN <<>> ELSE Pages[reader.page])
                     /\ reader' = Received(items, Len(Pages))
    <2>1. CASE FetchPage
      BY <2>1 DEF FetchPage
    <2>2. CASE FetchTeam
      <3>1. /\ Sports /\ reader.page <= reader.total
            /\ reader' = Received(Pages[reader.page], reader.total)
        BY <2>2 DEF FetchTeam
      <3>2. step = 3 /\ reader.total = Len(Pages)
        BY <1>4, <3>1, SportsIs, SourceTypes DEF IInv, JobOK
      <3>3. ~(reader.page > Len(Pages))
        BY <1>5, <3>1, <3>2
      <3>4. QED
        BY <3>1, <3>2, <3>3
    <2>3. QED
      BY <2>1, <2>2
  <1>7. items \in Seq(Entries) /\ Len(Pages) \in Nat
    BY <1>5, <1>6
  <1>8. /\ reader'.page = reader.page + 1 /\ reader'.total = Len(Pages)
        /\ reader'.buffer = items /\ reader'.ended = (items = <<>>)
    BY <1>4, <1>6, <1>7, ReceivedType
  <1>9. QED
    BY <1>1, <1>2, <1>3, <1>4, <1>6, <1>8, PageCovered

LEMMA NoMoreCovered ==
  ASSUME IInv, Covered, NoMore
  PROVE  Covered'
  <1> SUFFICES ASSUME Undisturbed' PROVE (Knows /\ FromToday /\ Fetched /\ Ended /\ Done)'
    BY DEF Covered
  <1>1. /\ Reading /\ reader.buffer = <<>> /\ reader.page > reader.total
        /\ reader' = [reader EXCEPT !.ended = TRUE]
        /\ UNCHANGED <<vars, day, run, step, chunk, chunks, faults>>
    BY DEF NoMore
  <1>2. Undisturbed /\ UNCHANGED setting
    BY <1>1, StillUndisturbed DEF vars
  <1>3. Knows /\ FromToday /\ Fetched /\ Ended /\ Done
    BY <1>2 DEF Covered
  <1>4. reader \in Readers /\ run # 0 /\ reader.page \in Int
    BY <1>1 DEF IInv, JobOK, JobTyped, Readers, Reading
  <1>5. /\ reader'.page = reader.page /\ reader'.total = reader.total
        /\ reader'.buffer = <<>>
    BY <1>1, <1>4 DEF Readers
  <1>6. UNCHANGED Pages
    BY <1>1, PagesStay
  <1>7. reader.total = Len(Pages)
    <2>1. ~(reader.page = 1 /\ reader.total = 1)
      BY <1>1
    <2>2. QED
      BY <1>3, <1>4, <2>1 DEF Knows
  <1>8. Fetched'
    BY <1>1, <1>3, <1>4, <1>5, <1>6, FetchedStays
  <1>9. FromToday'
    BY <1>1, <1>3, <1>5, NothingStored DEF FromToday
  <1>10. Knows' /\ Ended'
    BY <1>1, <1>5, <1>6, <1>7 DEF Knows, Ended
  <1>11. Done'
    BY <1>1, <1>3, NothingStored, DoneStays
  <1>12. QED
    BY <1>8, <1>9, <1>10, <1>11

\* Only the run for matches has nothing to write.
LEMMA SkipCovered ==
  ASSUME IInv, Covered, Skip
  PROVE  Covered'
  <1> SUFFICES ASSUME Undisturbed' PROVE (Knows /\ FromToday /\ Fetched /\ Ended /\ Done)'
    BY DEF Covered
  <1>1. /\ Processed = {} /\ chunk # <<>> /\ chunk' = <<>> /\ run # 0
        /\ UNCHANGED <<vars, day, run, step, reader, chunks, faults>>
    BY DEF Skip, ChunkFull
  <1>2. Undisturbed /\ UNCHANGED setting
    BY <1>1, StillUndisturbed DEF vars
  <1>3. Knows /\ FromToday /\ Fetched /\ Ended /\ Done
    BY <1>2 DEF Covered
  <1>4. run = 3 /\ step # 3
    <2>1. JobTyped /\ chunk \in Seq(Entries) /\ run \in 1..3
      BY <1>1 DEF IInv, JobOK, JobTyped
    <2>2. 1 \in 1..Len(chunk)
      BY <1>1, <2>1
    <2>3. Types[run] = "SPORTS" /\ ~Sports
      BY <1>1, <2>2 DEF Processed
    <2>4. QED
      BY <2>1, <2>3, SportsIs DEF Types
  <1>5. UNCHANGED Pages
    BY <1>1, PagesStay
  <1>6. Fetched'
    BY <1>1, <1>4 DEF Fetched
  <1>7. FromToday'
    <2>1. Elements(<<>>) = {}
      BY DEF Elements
    <2>2. QED
      BY <1>1, <1>3, <2>1, NothingStored DEF FromToday
  <1>8. Knows' /\ Ended'
    BY <1>1, <1>3, <1>5 DEF Knows, Ended
  <1>9. Done'
    BY <1>1, <1>3, NothingStored, DoneStays
  <1>10. QED
    BY <1>6, <1>7, <1>8, <1>9

LEMMA NextDayCovered ==
  ASSUME IInv, NextDay
  PROVE  Covered'
  <1>1. /\ run = 0 /\ day < Len(Sources) /\ day' = day + 1 /\ run' = 1 /\ step' = 1
        /\ reader' = Opened(1) /\ chunk' = <<>>
        /\ UNCHANGED <<vars, chunks, faults>>
    BY DEF NextDay, StartRun
  <1>2. /\ reader'.page = 1 /\ reader'.total = 1 /\ reader'.buffer = <<>> /\ ~reader'.ended
    BY <1>1, OpenedType
  <1>3. ~Writing'
    BY <1>1 DEF IInv, JobOK, Writing, vars
  <1>4. Elements(<<>>) = {}
    BY DEF Elements
  <1>5. Knows' /\ FromToday' /\ Ended'
    BY <1>1, <1>2, <1>3, <1>4 DEF Knows, FromToday, Ended
  <1>6. Fetched'
    BY <1>2 DEF Fetched
  <1>7. Done'
    BY <1>1 DEF Done
  <1>8. QED
    BY <1>5, <1>6, <1>7 DEF Covered

\* All pages of a step are stored when it ends.
LEMMA PagesStored ==
  ASSUME IInv, Undisturbed, Fetched, Ended, run # 0, reader.ended, chunk = <<>>, ~Writing,
         run # 3 \/ step = 3
  PROVE  Stored(Pages)
  <1>1. reader.buffer = <<>> /\ reader.page > Len(Pages)
    BY DEF Ended
  <1>2. Elements(<<>>) = {}
    BY DEF Elements
  <1>3. \A e : Handled(e) => StoredAs(e)
    BY <1>1, <1>2 DEF Handled, Sent
  <1>4. reader.page \in Int /\ Len(Pages) \in Int
    <2>1. JobTyped /\ day # 0
      BY DEF IInv, JobOK
    <2>2. QED
      BY <2>1, SourceTypes DEF JobTyped, Readers
  <1>5. \A i \in 1..Len(Pages) : i < reader.page
    BY <1>1, <1>4
  <1>6. QED
    BY <1>3, <1>5 DEF Fetched, Stored

LEMMA StepEndsCovered ==
  ASSUME IInv, Covered, StepEnds
  PROVE  Covered'
  <1> SUFFICES ASSUME Undisturbed' PROVE (Knows /\ FromToday /\ Fetched /\ Ended /\ Done)'
    BY DEF Covered
  <1>1. /\ run # 0 /\ reader.ended /\ chunk = <<>> /\ ~Writing
        /\ UNCHANGED <<vars, day, chunks, faults>>
    BY DEF StepEnds
  <1>2. Undisturbed /\ UNCHANGED setting
    BY <1>1, StillUndisturbed DEF vars
  <1>3. Knows /\ FromToday /\ Fetched /\ Ended /\ Done
    BY <1>2 DEF Covered
  <1>4. JobTyped /\ run \in 1..3 /\ step \in 1..3 /\ day # 0
    BY <1>1 DEF IInv, JobOK, JobTyped
  <1>5. Len(Sources[day].teams) \in Nat
    BY <1>4, SourceTypes
  <1>6. PICK n \in Nat : /\ reader' = Opened(n) /\ chunk' = <<>>
                         /\ \/ /\ step = 3 /\ step' = 1 /\ n = 1
                               /\ run' = (IF run = 3 THEN 0 ELSE run + 1)
                            \/ /\ step # 3 /\ step' = step + 1 /\ run' = run
                               /\ n = IF step = 2 THEN Len(Sources[day].teams) ELSE 1
    <2>1. CASE step = 3
      <3>1. run' = (IF run = 3 THEN 0 ELSE run + 1) /\ step' = 1 /\ reader' = Opened(1) /\ chunk' = <<>>
        BY <2>1 DEF StepEnds, NextRun, StartRun
      <3>2. QED
        BY <2>1, <3>1
    <2>2. CASE step # 3
      <3>1. PICK n \in Nat : /\ n = IF step = 2 THEN Len(Sources[day].teams) ELSE 1
                             /\ reader' = Opened(n)
        BY <1>5, <2>2 DEF StepEnds
      <3>2. step' = step + 1 /\ UNCHANGED <<run, chunk>>
        BY <2>2 DEF StepEnds
      <3>3. QED
        BY <1>1, <2>2, <3>1, <3>2
    <2>3. QED
      BY <2>1, <2>2
  <1>7. /\ reader'.page = 1 /\ reader'.total = n /\ reader'.buffer = <<>> /\ ~reader'.ended
    BY <1>6, OpenedType
  <1>8. ~Writing' /\ \A e : StoredAs(e)' = StoredAs(e)
    BY <1>1, NothingStored
  <1>9. FromToday'
    BY <1>6, <1>7, <1>8 DEF FromToday, Elements
  <1>10. Fetched' /\ Ended'
    BY <1>7 DEF Fetched, Ended
  <1>11. Knows'
    <2>1. CASE step' = 3
      <3>1. run' # 0 => Pages' = Sources[day].teams
        BY <1>1, <2>1, SportsStep DEF Pages
      <3>2. QED
        BY <1>4, <1>6, <1>7, <2>1, <3>1 DEF Knows
    <2>2. CASE step' # 3
      BY <1>4, <1>6, <1>7, <2>2 DEF Knows
    <2>3. QED
      BY <2>1, <2>2
  <1>12. /\ run = 1 /\ step = 1 => Stored(Sources[day].movies)
         /\ run = 1 /\ step = 3 => Stored(Sources[day].teams)
         /\ run = 2 /\ step = 1 => Stored(Sources[day].series)
    BY <1>1, <1>2, <1>3, <1>4, PagesAre, PagesStored
  <1>13. /\ run' # 1 \/ step' # 1 => Stored(Sources[day].movies)
         /\ run' # 1 => Stored(Sources[day].teams)
         /\ run' \in {0, 3} \/ (run' = 2 /\ step' # 1) => Stored(Sources[day].series)
    <2>1. /\ run # 1 \/ step # 1 => Stored(Sources[day].movies)
          /\ run # 1 => Stored(Sources[day].teams)
          /\ run \in {0, 3} \/ (run = 2 /\ step # 1) => Stored(Sources[day].series)
      BY <1>3 DEF Done
    <2>3. CASE step = 3
      BY <1>4, <1>6, <1>12, <2>1, <2>3
    <2>4. CASE step # 3
      BY <1>4, <1>6, <1>12, <2>1, <2>4
    <2>5. QED
      BY <2>3, <2>4
  <1>14. Done'
    <2>1. \A pages : Stored(pages) => \A i \in 1..Len(pages) : \A e \in Elements(pages[i]) : StoredAs(e)'
      BY <1>8 DEF Stored
    <2>2. QED
      BY <1>1, <1>13, <2>1 DEF Done, Stored
  <1>15. QED
    BY <1>9, <1>10, <1>11, <1>14

\* Without overlap and administrator a request takes nothing away from a content.
LEMMA RequestStores ==
  ASSUME CatalogOK, ~setting.overlap, ~setting.admin, NEW r \in Requests, Request(r)
  PROVE  \A e : StoredAs(e) => StoredAs(e)'
  <1>1. ASSUME UNCHANGED mapping,
               \A c \in Contents : content[c] # None =>
                   /\ content'[c] # None
                   /\ content'[c].key = content[c].key /\ content'[c].title = content[c].title
        PROVE  \A e : StoredAs(e) => StoredAs(e)'
    <2>1. \A c : TagsOf(c)' = TagsOf(c)
      BY <1>1 DEF TagsOf, MappingsOf
    <2>2. QED
      BY <1>1, <2>1 DEF StoredAs
  <1>2. UNCHANGED <<content, mapping>> => \A e : StoredAs(e) => StoredAs(e)'
    BY <1>1
  <1>3. CASE StartReview(r)
    <2>1. UNCHANGED tables
      BY <1>3 DEF StartReview, CreateReview, UpdateReview, DeleteReview, Begin
    <2>2. QED
      BY <1>2, <2>1 DEF tables
  <1>4. CASE StartAdmin(r)
    BY <1>4 DEF StartAdmin
  <1>5. CASE Fail(r) \/ CommitUpdateReview(r) \/ CommitDeleteReview(r)
    BY <1>2, <1>5 DEF Fail, tables, CommitUpdateReview, CommitDeleteReview
  <1>6. CASE CommitReview(r)
    <2>0. PICK t : t = tx[r]
      OBVIOUS
    <2> DEFINE c == t.content
               new == Rated(t.row, t.rating)
    <2>1. /\ pc[r] = "open" /\ t.op = "review"
          /\ WriteBack(c, t.row, new) /\ UNCHANGED mapping
      BY <1>6, <2>0 DEF CommitReview, Doing
    <2>2. TxOK(r) /\ t \in AnyTransaction
      BY <2>0, <2>1 DEF CatalogOK, ProgressOK, ProgressTyped
    <2>3. c \in Contents /\ t.row \in Rows /\ t.rating \in Ratings
      BY <2>1, <2>2, FieldTypes
    <2>4. content[c] = t.row
      BY <2>0, <2>1, <2>2 DEF TxOK, Holds
    <2>5. new \in Rows /\ new.key = t.row.key /\ new.title = t.row.title
      BY <2>3, RatedType
    <2> HIDE DEF new
    <2>6. /\ \A d \in Contents : content'[d] # None <=> content[d] # None
          /\ \A d \in Contents \ {c} : content'[d] = content[d]
          /\ content'[c] = content[c] \/ content'[c] = new
      BY <2>1, <2>3, <2>5, WriteBackEffect
    <2>7. QED
      BY <1>1, <2>1, <2>4, <2>5, <2>6
  <1>7. CASE CommitPatch(r) \/ CommitDeleteContent(r) \/ CreateContent(r)
    <2>1. pc[r] = "open" /\ tx[r].op \in {"patch", "deleteContent", "create"}
      BY <1>7 DEF CommitPatch, CommitDeleteContent, CreateContent, FindTag, SaveTag,
                  SaveMapping, Created, Doing
    <2>2. QED
      BY <2>1 DEF CatalogOK, ProgressOK, TxOK
  <1>8. QED
    BY <1>3, <1>4, <1>5, <1>6, <1>7 DEF Request, Finish

LEMMA RequestCovered ==
  ASSUME IInv, Covered, NEW r \in Free, Request(r)
  PROVE  Covered'
  <1> SUFFICES ASSUME Undisturbed' PROVE (Knows /\ FromToday /\ Fetched /\ Ended /\ Done)'
    BY DEF Covered
  <1>1. UNCHANGED <<setting, day, run, step, reader, chunk, chunks, faults>>
    BY DEF Request, job
  <1>2. Undisturbed
    BY <1>1, StillUndisturbed
  <1>3. Knows /\ FromToday /\ Fetched /\ Ended /\ Done
    BY <1>2 DEF Covered
  <1>4. r \in Requests \ 1..MaxChunks /\ CatalogOK /\ ~setting.overlap /\ ~setting.admin
    BY <1>2, ImportAssumption DEF Free, IInv, Undisturbed
  <1>5. \A e : StoredAs(e) => StoredAs(e)'
    BY <1>4, RequestStores
  <1>6. chunks > 0 => chunks \in Requests /\ chunks # r
    BY <1>4, ImportAssumption DEF IInv, JobOK, JobTyped
  <1>7. ~Writing
    <2> SUFFICES ASSUME Writing PROVE FALSE
      OBVIOUS
    <2>1. chunks \in Requests /\ chunks # r /\ pc[chunks] = "open"
      BY <1>6 DEF Writing
    <2>2. ~MayStart(r)
      BY <1>4, <2>1 DEF MayStart
    <2>3. pc[r] # "open"
      BY <1>4, <2>1 DEF CatalogOK, OneByOne
    <2>4. ~StartReview(r) /\ ~StartAdmin(r)
      BY <1>4, <2>2 DEF StartReview, StartAdmin, CreateReview, UpdateReview, DeleteReview, Begin
    <2>5. ~Finish(r) /\ ~Fail(r)
      BY <2>3 DEF Finish, Fail, CommitReview, CommitUpdateReview, CommitDeleteReview,
                  CommitPatch, CommitDeleteContent, CreateContent, FindTag, SaveTag,
                  SaveMapping, Created, Doing
    <2>6. QED
      BY <2>4, <2>5 DEF Request
  <1>8. ~Writing'
    <2>1. chunks > 0 => pc'[chunks] = pc[chunks]
      BY <1>4, <1>6, RequestMovesOne
    <2>2. QED
      BY <1>1, <1>7, <2>1 DEF Writing
  <1>9. UNCHANGED Pages /\ Today' = Today
    BY <1>1, PagesStay DEF Today, OfferedOn
  <1>10. FromToday'
    BY <1>1, <1>3, <1>8, <1>9 DEF FromToday
  <1>11. Fetched'
    <2>1. \A e : Handled(e) => Handled(e)'
      BY <1>1, <1>5, <1>7 DEF Handled, Sent
    <2>2. QED
      BY <1>1, <1>3, <1>9, <2>1 DEF Fetched
  <1>12. Knows' /\ Ended'
    BY <1>1, <1>3, <1>9 DEF Knows, Ended
  <1>13. Done'
    BY <1>1, <1>3, <1>5, DoneStays
  <1>14. QED
    BY <1>10, <1>11, <1>12, <1>13

\* A chunk of today that is written: its items are stored, and nothing else of
\* today is changed.
LEMMA ChunkStored ==
  ASSUME IInv, Undisturbed, FromToday, Writing, CommitImport(chunks)
  PROVE  /\ \A e \in Today : StoredAs(e) => StoredAs(e)'
         /\ \A e : Sent(e) => StoredAs(e)'
  <1>0. PICK t : t = tx[chunks]
    OBVIOUS
  <1> DEFINE keys == DOMAIN t.chunk
             new == {k \in keys : t.found[k] = None}
             old == keys \ new
  <1>a. CatalogOK /\ chunks \in Requests /\ pc[chunks] = "open"
    BY ChunkRequests DEF IInv, JobOK, Writing
  <1>b. t.op = "import" /\ lastId' \in lastId..MaxContents
    BY <1>0, <1>a, ImportEffect
  <1>1. PICK id :
                 /\ \A k \in old : id[k] = t.found[k]
                 /\ \A k \in new : /\ id[k] \in lastId + 1..lastId'
                                   /\ content'[id[k]] = NewRow(k, t.chunk[k])
                 /\ \A j, k \in new : id[j] = id[k] => j = k
                 /\ \A k \in old : t.lacks[k] # {} => content[id[k]] # None
                 /\ \A k \in old : Updated(t.row[k], t.chunk[k]) # t.row[k] =>
                        /\ content[id[k]] # None
                        /\ content'[id[k]] = Updated(t.row[k], t.chunk[k])
                 /\ \A c \in Contents :
                        \/ content'[c] = content[c]
                        \/ \E k \in new : c = id[k]
                        \/ \E k \in old :
                               c = id[k] /\ Updated(t.row[k], t.chunk[k]) # t.row[k]
                 /\ mapping' = mapping \cup
                       UNION {{[id |-> chunks, content |-> id[k], tag |-> n] : n \in t.lacks[k]} :
                              k \in keys}
    BY <1>0, <1>a, ImportEffect
  <1>2. t \in AnyTransaction /\ ImportOK(t)
    BY <1>0, <1>a, <1>b DEF CatalogOK, ProgressOK, ProgressTyped, TxOK
  <1>3. /\ keys \subseteq Keys
        /\ \A k \in keys :
                /\ t.chunk[k].title \in Titles /\ t.chunk[k].names \subseteq Names
                /\ t.found[k] # None => t.found[k] \in Contents /\ t.row[k] \in Rows
    BY <1>2, <1>b, ImportTyped
  <1>4. lastId \in Nat /\ MaxContents \in Nat
    BY <1>a, CatalogAssumption DEF CatalogOK, TablesTyped
  <1>5. ASSUME NEW k \in new
        PROVE  /\ id[k] \in Contents /\ id[k] > lastId
               /\ content'[id[k]] # None /\ content'[id[k]].key = k
               /\ content'[id[k]].title = t.chunk[k].title
    <2>1. PICK i : i = id[k]
      OBVIOUS
    <2>2. i \in lastId + 1..lastId' /\ content'[i] = NewRow(k, t.chunk[k])
      BY <1>1, <2>1
    <2>3. i \in 1..MaxContents /\ i > lastId
      BY <1>4, <1>b, <2>2
    <2>4. NewRow(k, t.chunk[k]) \in Rows
      BY <1>3, NewRowType
    <2>5. QED
      BY <1>3, <2>1, <2>2, <2>3, <2>4, NewRowType, CatalogAssumption DEF Contents
  <1>6. ASSUME NEW k \in old
        PROVE  /\ id[k] = t.found[k] /\ id[k] \in Contents /\ ~(id[k] > lastId)
               /\ content[id[k]] = t.row[k] /\ t.row[k] \in Rows /\ t.row[k].key = k
               /\ content[id[k]] # None
               /\ t.chunk[k].names \subseteq t.lacks[k] \cup TagsOf(id[k])
    <2>1. id[k] = t.found[k] /\ t.found[k] # None
      BY <1>1
    <2>2. t.found[k] \in Contents /\ t.row[k] \in Rows
      BY <1>3, <2>1
    <2>3. /\ t.row[k].key = k /\ t.found[k] <= lastId
          /\ content[t.found[k]] = t.row[k] /\ t.row[k] # None
          /\ t.chunk[k].names \subseteq t.lacks[k] \cup TagsOf(t.found[k])
      BY <1>2, <2>1 DEF ImportOK, Undisturbed
    <2>4. ~(t.found[k] > lastId)
      BY <1>4, <2>2, <2>3 DEF Contents
    <2>5. QED
      BY <2>1, <2>2, <2>3, <2>4
  <1>7. \A k \in old : /\ content'[id[k]] # None /\ content'[id[k]].key = k
                       /\ content'[id[k]].title = t.chunk[k].title
    <2> SUFFICES ASSUME NEW k \in old
                 PROVE  /\ content'[id[k]] # None /\ content'[id[k]].key = k
                        /\ content'[id[k]].title = t.chunk[k].title
      OBVIOUS
    <2>1. /\ Updated(t.row[k], t.chunk[k]) \in Rows /\ Updated(t.row[k], t.chunk[k]).key = k
          /\ Updated(t.row[k], t.chunk[k]).title = t.chunk[k].title
      <3>1. PICK row, item : row = t.row[k] /\ item = t.chunk[k]
        OBVIOUS
      <3>2. row \in Rows /\ row.key = k
        BY <1>6, <3>1
      <3>3. item.title \in Titles
        BY <1>3, <3>1
      <3>4. Updated(row, item) \in Rows /\ Updated(row, item).key = row.key
        BY <3>2, <3>3, UpdatedType
      <3>5. Updated(row, item).title = item.title
        BY <3>2, <3>3, UpdatedType
      <3>6. QED
        BY <3>1, <3>2, <3>4, <3>5
    <2>2. content'[id[k]] = Updated(t.row[k], t.chunk[k])
      <3>0. \A j \in old : Updated(t.row[j], t.chunk[j]) # t.row[j] =>
                             content'[id[j]] = Updated(t.row[j], t.chunk[j])
        BY <1>1, Zenon
      <3>1. CASE Updated(t.row[k], t.chunk[k]) # t.row[k]
        BY <3>0, <3>1, Zenon
      <3>2. CASE Updated(t.row[k], t.chunk[k]) = t.row[k]
        <4>1. \A j \in new : id[k] # id[j]
          BY <1>5, <1>6
        <4>2. \A j \in old : id[k] = id[j] => j = k
          BY <1>6
        <4>3. content'[id[k]] = content[id[k]]
          BY <1>1, <1>6, <3>2, <4>1, <4>2
        <4>4. QED
          BY <1>6, <3>2, <4>3
      <3>3. QED
        BY <3>1, <3>2
    <2>3. QED
      BY <2>1, <2>2, CatalogAssumption
  <1>8. \A c : TagsOf(c) \subseteq TagsOf(c)'
    BY <1>1 DEF TagsOf, MappingsOf
  <1>9. ASSUME NEW k \in keys PROVE t.lacks[k] \subseteq TagsOf(id[k])'
    <2> SUFFICES ASSUME NEW n \in t.lacks[k] PROVE n \in TagsOf(id[k])'
      OBVIOUS
    <2>1. PICK i : i = id[k]
      OBVIOUS
    <2>2. PICK m : m = [id |-> chunks, content |-> i, tag |-> n]
      OBVIOUS
    <2>3. m \in mapping'
      BY <1>1, <2>1, <2>2
    <2>4. m \in MappingsOf(i)' /\ m.tag = n
      BY <2>2, <2>3 DEF MappingsOf
    <2>5. n \in TagsOf(i)'
      BY <2>4 DEF TagsOf
    <2>6. QED
      BY <2>1, <2>5
  <1>10. ASSUME NEW e, Sent(e) PROVE StoredAs(e)'
    <2>1. PICK k \in keys : k = e.key /\ t.chunk[k].title = e.title /\ t.chunk[k].names = e.names
      BY <1>0, <1>10 DEF Sent
    <2>2. PICK c : c = id[k]
      OBVIOUS
    <2>3. /\ c \in Contents /\ content'[c] # None /\ content'[c].key = e.key
          /\ content'[c].title = e.title
      <3>1. CASE k \in new
        BY <1>5, <2>1, <2>2, <3>1
      <3>2. CASE k \notin new
        BY <1>6, <1>7, <2>1, <2>2, <3>2
      <3>3. QED
        BY <3>1, <3>2
    <2>4. t.chunk[k].names \subseteq t.lacks[k] \cup TagsOf(c)
      <3>1. CASE k \in new
        BY <1>2, <3>1 DEF ImportOK
      <3>2. CASE k \notin new
        BY <1>6, <2>2, <3>2
      <3>3. QED
        BY <3>1, <3>2
    <2>5. e.names \subseteq TagsOf(c)'
      BY <1>8, <1>9, <2>1, <2>2, <2>4
    <2>6. QED
      BY <2>3, <2>5 DEF StoredAs
  <1>11. ASSUME NEW e \in Today, StoredAs(e) PROVE StoredAs(e)'
    <2>1. PICK c \in Contents :
              /\ content[c] # None /\ content[c].key = e.key /\ content[c].title = e.title
              /\ e.names \subseteq TagsOf(c)
      BY <1>11 DEF StoredAs
    <2>2. content'[c] # None /\ content'[c].key = e.key /\ content'[c].title = e.title
      <3>1. CASE content'[c] = content[c]
        BY <2>1, <3>1
      <3>2. \A k \in new : c # id[k]
        <4>1. c <= lastId
          BY <1>a, <2>1 DEF CatalogOK, TablesOK
        <4>2. ~(c > lastId)
          BY <1>4, <4>1 DEF Contents
        <4>3. QED
          BY <1>5, <4>2
      <3>3. CASE \E k \in old : c = id[k]
        <4>1. PICK k \in old : c = id[k]
          BY <3>3
        <4>2. k = e.key
          BY <1>6, <2>1, <4>1
        <4>3. PICK f \in Today : f.key = k /\ Sent(f)
          BY <1>0 DEF FromToday
        <4>4. f = e
          BY <4>2, <4>3 DEF Undisturbed, Plain, Today
        <4>5. t.chunk[k].title = e.title
          BY <1>0, <4>2, <4>3, <4>4 DEF Sent
        <4>6. QED
          BY <1>7, <4>1, <4>2, <4>5
      <3>4. QED
        BY <1>1, <3>1, <3>2, <3>3
    <2>3. e.names \subseteq TagsOf(c)'
      BY <1>8, <2>1
    <2>4. QED
      BY <2>2, <2>3 DEF StoredAs
  <1>12. QED
    BY <1>10, <1>11

LEMMA WriteCovered ==
  ASSUME IInv, Covered, Write
  PROVE  Covered'
  <1> SUFFICES ASSUME Undisturbed' PROVE (Knows /\ FromToday /\ Fetched /\ Ended /\ Done)'
    BY DEF Covered
  <1>1. /\ run # 0 /\ ~Writing /\ Processed # {} /\ chunks < MaxChunks
        /\ WriteChunk(chunks + 1, AsChunk) /\ chunks' = chunks + 1 /\ chunk' = <<>>
        /\ UNCHANGED <<setting, day, run, step, reader, faults>>
    BY DEF Write, ChunkFull
  <1>2. Undisturbed
    BY <1>1, StillUndisturbed
  <1>3. Knows /\ FromToday /\ Fetched /\ Ended /\ Done
    BY <1>2 DEF Covered
  <1>4. JobTyped /\ CatalogOK /\ chunks' \in Requests /\ chunks' > 0
    BY <1>1, ChunkRequests DEF IInv, JobOK
  <1>5. PICK t : t = tx'[chunks']
    OBVIOUS
  <1>6. t.op = "import" /\ t.chunk = AsChunk /\ pc'[chunks'] = "open" /\ UNCHANGED tables
    <2>1. DOMAIN tx = Requests /\ DOMAIN pc = Requests
      BY <1>4 DEF CatalogOK, ProgressTyped
    <2>2. QED
      BY <1>1, <1>4, <1>5, <2>1, Zenon DEF WriteChunk, Begin
  <1>7. Writing'
    BY <1>4, <1>6 DEF Writing
  <1>8. Processed = Elements(chunk)
    BY <1>1 DEF Processed, Elements
  <1>9. /\ DOMAIN AsChunk = {e.key : e \in Elements(chunk)}
        /\ \A k \in DOMAIN AsChunk :
               /\ \E e \in Elements(chunk) : e.key = k /\ AsChunk[k].title = e.title
               /\ AsChunk[k].names = UNION {e.names : e \in {f \in Elements(chunk) : f.key = k}}
    BY <1>4, <1>8, AsChunkType
  <1>10. UNCHANGED Pages /\ Today' = Today
    BY <1>1, PagesStay DEF Today, OfferedOn
  <1>11. Elements(chunk) \subseteq Today /\ \A e, f \in Elements(chunk) : e.key = f.key => e = f
    BY <1>1, <1>2, <1>3, <1>4, PagesOffered DEF FromToday
  <1>12. ASSUME NEW e \in Elements(chunk) PROVE Sent(e)'
    <2>1. PICK k : k = e.key
      OBVIOUS
    <2>2. k \in DOMAIN AsChunk
      BY <1>9, <2>1
    <2>3. AsChunk[k].title = e.title
      BY <1>9, <1>11, <2>1, <2>2
    <2>4. {f \in Elements(chunk) : f.key = k} = {e}
      BY <1>11, <2>1
    <2>5. AsChunk[k].names = e.names
      <3>1. AsChunk[k].names = UNION {f.names : f \in {g \in Elements(chunk) : g.key = k}}
        BY <1>9, <2>2, Zenon
      <3>2. AsChunk[k].names = UNION {f.names : f \in {e}}
        BY <2>4, <3>1
      <3>3. QED
        BY <3>2
    <2>6. QED
      BY <1>5, <1>6, <1>7, <2>1, <2>2, <2>3, <2>5 DEF Sent
  <1>13. FromToday'
    <2>1. Elements(<<>>) = {}
      BY DEF Elements
    <2>2. \A k \in DOMAIN AsChunk : \E e \in Today : e.key = k /\ Sent(e)'
      BY <1>9, <1>11, <1>12
    <2>3. \A k \in DOMAIN tx'[chunks'].chunk : \E e \in Today' : e.key = k /\ Sent(e)'
      BY <1>5, <1>6, <1>10, <2>2
    <2>4. Elements(chunk') = {} /\ Elements(reader.buffer)' = Elements(reader.buffer)
      BY <1>1, <2>1
    <2>5. tx'[chunks'].op = "import"
      BY <1>5, <1>6
    <2>6. QED
      BY <1>3, <1>10, <2>3, <2>4, <2>5 DEF FromToday
  <1>14. \A e : StoredAs(e)' = StoredAs(e)
    <2>1. \A c : TagsOf(c)' = TagsOf(c)
      BY <1>6 DEF TagsOf, MappingsOf, tables
    <2>2. QED
      BY <1>6, <2>1 DEF StoredAs, tables
  <1>15. Fetched'
    <2>1. \A e : Handled(e) => Handled(e)'
      <3>1. \A e : ~Sent(e)
        BY <1>1 DEF Sent
      <3>2. QED
        BY <1>1, <1>12, <1>14, <3>1 DEF Handled
    <2>2. QED
      BY <1>1, <1>3, <1>10, <2>1 DEF Fetched
  <1>16. Knows' /\ Ended'
    BY <1>1, <1>3, <1>10 DEF Knows, Ended
  <1>17. Done'
    BY <1>1, <1>3, <1>14, DoneStays
  <1>18. QED
    BY <1>13, <1>15, <1>16, <1>17

LEMMA CommitsCovered ==
  ASSUME IInv, Covered, Commits
  PROVE  Covered'
  <1> SUFFICES ASSUME Undisturbed' PROVE (Knows /\ FromToday /\ Fetched /\ Ended /\ Done)'
    BY DEF Covered
  <1>1. /\ Writing /\ CommitImport(chunks)
        /\ UNCHANGED <<setting, day, run, step, reader, chunk, chunks, faults>>
    BY DEF Commits, job
  <1>2. Undisturbed
    BY <1>1, StillUndisturbed
  <1>3. Knows /\ FromToday /\ Fetched /\ Ended /\ Done
    BY <1>2 DEF Covered
  <1>4. JobTyped /\ CatalogOK /\ chunks \in Requests
    BY <1>1, ChunkRequests DEF IInv, JobOK, Writing
  <1>5. ~Writing'
    <2>1. pc' = [pc EXCEPT ![chunks] = "done"]
      <3>1. End(chunks, "done")
        BY <1>1, Zenon DEF CommitImport
      <3>2. QED
        BY <3>1, Zenon DEF End
    <2>2. pc'[chunks] = "done"
      BY <1>4, <2>1 DEF CatalogOK, ProgressTyped
    <2>3. QED
      BY <1>1, <2>2 DEF Writing
  <1>6. /\ \A e \in Today : StoredAs(e) => StoredAs(e)'
        /\ \A e : Sent(e) => StoredAs(e)'
    BY <1>1, <1>2, <1>3, ChunkStored
  <1>7. UNCHANGED Pages /\ Today' = Today
    BY <1>1, PagesStay DEF Today, OfferedOn
  <1>8. FromToday'
    BY <1>1, <1>3, <1>5, <1>7 DEF FromToday
  <1>9. Fetched'
    <2>1. \A e \in Today : Handled(e) => Handled(e)'
      BY <1>1, <1>6 DEF Handled
    <2>2. run # 0 => \A i \in 1..Len(Pages) : Elements(Pages[i]) \subseteq Today
      BY <1>2, <1>4, PagesOffered
    <2>3. QED
      BY <1>1, <1>3, <1>7, <2>1, <2>2 DEF Fetched
  <1>10. Knows' /\ Ended'
    BY <1>1, <1>3, <1>7 DEF Knows, Ended
  <1>11. Done'
    BY <1>1, <1>3, <1>6, DoneStays
  <1>12. QED
    BY <1>8, <1>9, <1>10, <1>11

\* A fault ends the undisturbed day.
LEMMA FaultCovered ==
  ASSUME IInv, Covered, CallFails \/ ChunkFails \/ Crash
  PROVE  Covered'
  <1>1. Fault /\ UNCHANGED <<setting, day>>
    BY DEF CallFails, ChunkFails, Crash, vars
  <1>2. faults' # faults
    <2>1. faults \in Seq(1..day) /\ faults' = Append(faults, day)
      BY <1>1 DEF Fault, IInv, JobOK, JobTyped
    <2>2. Len(faults') = Len(faults) + 1 /\ Len(faults) \in Nat
      BY <2>1
    <2>3. QED
      BY <2>2
  <1>3. ~Undisturbed'
    BY <1>1, <1>2, StillUndisturbed
  <1>4. QED
    BY <1>3 DEF Covered

LEMMA StutterCovered ==
  ASSUME IInv, Covered, UNCHANGED allVars
  PROVE  Covered'
  <1> SUFFICES ASSUME Undisturbed' PROVE (Knows /\ FromToday /\ Fetched /\ Ended /\ Done)'
    BY DEF Covered
  <1>1. UNCHANGED <<vars, setting, day, run, step, reader, chunk, chunks, faults>>
    BY DEF allVars, job, vars
  <1>2. Undisturbed
    BY <1>1, StillUndisturbed
  <1>3. Knows /\ FromToday /\ Fetched /\ Ended /\ Done
    BY <1>2 DEF Covered
  <1>4. UNCHANGED Pages
    BY <1>1, PagesStay
  <1>5. FromToday'
    BY <1>1, <1>3, NothingStored DEF FromToday
  <1>6. Fetched'
    <2>1. \A e : Handled(e) => Handled(e)'
      BY <1>1, NothingStored DEF Handled
    <2>2. QED
      BY <1>1, <1>3, <1>4, <2>1 DEF Fetched
  <1>7. Knows' /\ Ended'
    BY <1>1, <1>3, <1>4 DEF Knows, Ended
  <1>8. Done'
    BY <1>1, <1>3, NothingStored, DoneStays
  <1>9. QED
    BY <1>5, <1>6, <1>7, <1>8

LEMMA InitCovered == JobInit => Covered
  BY DEF JobInit, Covered, Undisturbed

\* Everything that was read on an undisturbed day is on its way or stored.
THEOREM NothingLost == JobSpec => []Covered
  <1>1. IInv /\ Covered /\ [JobNext]_allVars => Covered'
    <2> SUFFICES ASSUME IInv, Covered, [JobNext]_allVars PROVE Covered'
      OBVIOUS
    <2>1. CASE UNCHANGED allVars
      BY <2>1, StutterCovered
    <2>2. CASE \E r \in Free : Request(r)
      BY <2>2, RequestCovered
    <2>3. CASE Job
      BY <2>3, NextDayCovered, StepEndsCovered, ReadFromBufferCovered, FetchCovered,
         NoMoreCovered, WriteCovered, SkipCovered, CommitsCovered, FaultCovered DEF Job
    <2>4. QED
      BY <2>1, <2>2, <2>3 DEF JobNext
  <1>2. QED
    BY InitCovered, Inductive, <1>1, PTL DEF JobSpec

\* After a day of answered calls and written chunks everything that was offered is
\* stored as it was offered, if requests do not overlap the chunks and no
\* administrator interferes.
THEOREM ImportStoresAll == JobSpec => []ImportComplete
  <1>1. Covered => ImportComplete
    <2> SUFFICES ASSUME Covered, run = 0, Undisturbed, NEW e \in OfferedOn(day) PROVE StoredAs(e)
      BY DEF ImportComplete, Undisturbed, StoredAs
    <2>1. Stored(Sources[day].movies) /\ Stored(Sources[day].teams) /\ Stored(Sources[day].series)
      BY DEF Covered, Done
    <2>2. \A pages : Stored(pages) => \A f \in Offered(pages) : StoredAs(f)
      BY DEF Stored, Offered, Elements
    <2>3. QED
      BY <2>1, <2>2 DEF OfferedOn
  <1>2. QED
    BY NothingLost, <1>1, PTL
=============================================================================
