-------------------------- MODULE DeliveryProofs ---------------------------
(***************************************************************************)
(* Theorems about NotificationDelivery, for any users, streams, rows, pool *)
(* and number of restarts.                                                 *)
(***************************************************************************)
EXTENDS NotificationDelivery, FiniteSetTheorems, TLAPS

-----------------------------------------------------------------------------
(* The inductive invariant.                                                 *)

\* The states of a row whose transaction has committed.
Public == {"committed", "deleted"}

\* The push of an event starts after its commit.
RowOK(n) ==
    /\ tx[n] = "none" => kind[n] = None /\ to[n] = None /\ job[n] = "none"
    /\ kind[n] = "event" /\ job[n] \in {"queued", "running", "sending", "done", "rejected"} =>
           tx[n] \in Public

\* A task waits once, and has not begun.
QueueOK ==
    \A i \in 1..Len(queue) :
        /\ job[queue[i]] = "queued"
        /\ \A j \in 1..Len(queue) : i # j => queue[i] # queue[j]

StreamOK(e) ==
    /\ read[e] <= Len(written[e])
    /\ e \in registered <=> conn[e] \in {"open", "gone", "failed"}
    /\ conn[e] = "unused" => phase[e] = "none" /\ written[e] = <<>> /\ read[e] = 0
    /\ phase[e] # "replay" => replay[e] = {}
    /\ phase[e] \in {"query", "replay"} => lastId[e] # None

\* What is written or will be replayed has been committed, if it is an event.
Told(e, n) ==
    /\ n \in Ids(written[e]) \cup replay[e] =>
           tx[n] # "none" /\ (kind[n] = "event" => tx[n] \in Public)
    /\ n \in before[e] => tx[n] \in Public

Copies(w, n) == Cardinality({i \in 1..Len(w) : w[i] = n})

\* The push of row n may still write to stream e; the replay of e may write n.
PushAhead(e, n)   == job[n] \in {"none", "queued", "running"} \/ e \in targets[n]
ReplayAhead(e, n) == lastId[e] = None \/ phase[e] = "query" \/ n \in replay[e]

\* Each of them writes a row once.
Counted(e, n) ==
    /\ Copies(written[e], n) <= 2
    /\ PushAhead(e, n) \/ ReplayAhead(e, n) => Copies(written[e], n) <= 1
    /\ PushAhead(e, n) /\ ReplayAhead(e, n) => Copies(written[e], n) = 0

\* A row that stream e should carry.
Due(e, n) == conn[e] = "open" /\ tx[n] = "committed" /\ to[n] = user[e]

\* The push of an event that was committed after the stream was registered.
Pushed(e, n) ==
    Due(e, n) /\ n \notin before[e] /\ kind[n] = "event" =>
        /\ job[n] = "sending" => e \in targets[n] \/ n \in Ids(written[e])
        /\ job[n] = "done" => n \in Ids(written[e])

\* The replay of a row that was committed before.
Replayed(e, n) ==
    Due(e, n) /\ n \in before[e] /\ lastId[e] # None /\ phase[e] # "query" =>
        \/ n <= lastId[e]
        \/ Cardinality(Ahead(e, n)) >= ReplayLimit
        \/ n \in Ids(written[e]) \cup replay[e]

PairOK(e, n) == Told(e, n) /\ Counted(e, n) /\ Pushed(e, n) /\ Replayed(e, n)

IInv ==
    /\ TypeOK /\ QueueOK
    /\ \A n \in Notes : RowOK(n)
    /\ \A e \in Emitters : StreamOK(e)
    /\ \A e \in Emitters, n \in Notes : PairOK(e, n)

-----------------------------------------------------------------------------
(* Sequences of rows.                                                       *)

LEMMA AppendFacts ==
  ASSUME NEW w \in Seq(Notes), NEW m \in Notes
  PROVE  LET v == Append(w, m)
         IN  /\ v \in Seq(Notes) /\ Len(v) = Len(w) + 1 /\ Len(w) \in Nat
             /\ Ids(v) = Ids(w) \cup {m}
             /\ \A n \in Notes : Copies(v, n) = Copies(w, n) + (IF n = m THEN 1 ELSE 0)
  <1> DEFINE v == Append(w, m)
             At(x, n) == {i \in 1..Len(x) : x[i] = n}
  <1>1. /\ v \in Seq(Notes) /\ Len(v) = Len(w) + 1 /\ Len(w) \in Nat
        /\ v[Len(v)] = m /\ \A i \in 1..Len(w) : v[i] = w[i]
    OBVIOUS
  <1> HIDE DEF v
  <1>2. 1..Len(v) = 1..Len(w) \cup {Len(v)} /\ Len(v) \notin 1..Len(w)
    BY <1>1
  <1>3. Ids(v) = Ids(w) \cup {m}
    BY <1>1, <1>2 DEF Ids
  <1>4. ASSUME NEW n \in Notes
        PROVE  Copies(v, n) = Copies(w, n) + (IF n = m THEN 1 ELSE 0)
    <2>1. IsFiniteSet(At(w, n)) /\ Cardinality(At(w, n)) \in Nat
      <3>1. IsFiniteSet(1..Len(w)) /\ At(w, n) \in SUBSET (1..Len(w))
        BY <1>1, FS_Interval
      <3> HIDE DEF At
      <3>2. QED
        BY <3>1, FS_Subset, FS_CardinalityType
    <2>2. CASE n = m
      <3>1. At(v, n) = At(w, n) \cup {Len(v)} /\ Len(v) \notin At(w, n)
        BY <1>1, <1>2, <2>2
      <3> HIDE DEF At
      <3>2. Cardinality(At(v, n)) = Cardinality(At(w, n)) + 1
        BY <2>1, <3>1, FS_AddElement
      <3>3. Copies(v, n) = Cardinality(At(v, n)) /\ Copies(w, n) = Cardinality(At(w, n))
        BY DEF At, Copies
      <3>4. QED
        BY <2>2, <3>2, <3>3
    <2>3. CASE n # m
      <3>1. At(v, n) = At(w, n)
        BY <1>1, <1>2, <2>3
      <3>2. Copies(v, n) = Cardinality(At(v, n)) /\ Copies(w, n) = Cardinality(At(w, n))
        BY DEF At, Copies
      <3> HIDE DEF At
      <3>3. QED
        BY <2>1, <2>3, <3>1, <3>2
    <2>4. QED
      BY <2>2, <2>3
  <1>5. QED
    BY <1>1, <1>3, <1>4 DEF v

LEMMA EmptyFacts ==
  /\ Ids(<<>>) = {}
  /\ \A n \in Notes : Copies(<<>>, n) = 0
  <1>1. Len(<<>>) = 0 /\ 1..0 = {}
    OBVIOUS
  <1>2. \A n \in Notes : {i \in 1..Len(<<>>) : <<>>[i] = n} = {}
    BY <1>1
  <1>3. QED
    BY <1>1, <1>2, FS_EmptySet DEF Ids, Copies

LEMMA CopiesType ==
  ASSUME NEW w \in Seq(Notes), NEW n
  PROVE  Copies(w, n) \in Nat
  <1> DEFINE At == {i \in 1..Len(w) : w[i] = n}
  <1>1. IsFiniteSet(1..Len(w)) /\ At \in SUBSET (1..Len(w))
    BY FS_Interval
  <1> HIDE DEF At
  <1>2. Cardinality(At) \in Nat
    BY <1>1, FS_Subset, FS_CardinalityType
  <1>3. QED
    BY <1>2 DEF Copies, At

LEMMA NotesFinite == IsFiniteSet(Notes) /\ \A n \in Notes : n \in Nat
  BY DeliveryAssumption, FS_Interval DEF Notes

\* What a row leaves behind only grows: the rows ahead of it stay there.
LEMMA AheadGrows ==
  ASSUME TypeOK, NEW e \in Emitters, NEW n \in Notes,
         \A m \in Notes : tx[m] \in Public => tx'[m] \in Public /\ to'[m] = to[m],
         user'[e] = user[e], lastId'[e] = lastId[e],
         Cardinality(Ahead(e, n)) >= ReplayLimit
  PROVE  Cardinality(Ahead(e, n)') >= ReplayLimit
  <1>1. Ahead(e, n) \in SUBSET Ahead(e, n)' /\ Ahead(e, n)' \in SUBSET Notes
    BY DEF Ahead, Public
  <1>2. IsFiniteSet(Ahead(e, n)')
    BY <1>1, NotesFinite, FS_Subset
  <1>3. Cardinality(Ahead(e, n)) <= Cardinality(Ahead(e, n)')
    BY <1>1, <1>2, FS_Subset
  <1>4. Cardinality(Ahead(e, n)) \in Nat /\ Cardinality(Ahead(e, n)') \in Nat /\ ReplayLimit \in Nat
    <2>1. IsFiniteSet(Ahead(e, n))
      BY <1>1, <1>2, FS_Subset
    <2>2. QED
      BY <1>2, <2>1, FS_CardinalityType, DeliveryAssumption
  <1>5. QED
    BY <1>3, <1>4

LEMMA Invariants ==
  ASSUME IInv
  PROVE  /\ TypeOK /\ QueueOK /\ None \notin Users /\ None \notin Notes
         /\ \A n \in Notes : RowOK(n) /\ kind[n] \in Kinds \cup {None}
         /\ \A e \in Emitters : StreamOK(e) /\ written[e] \in Seq(Notes) /\ replay[e] \subseteq Notes
         /\ \A e \in Emitters, n \in Notes : PairOK(e, n) /\ Copies(written[e], n) \in Nat
  BY CopiesType, DeliveryAssumption DEF IInv, TypeOK

\* A pair of a stream and a row that the step does not disturb.
LEMMA PairKeeps ==
  ASSUME IInv, NEW e \in Emitters, NEW n \in Notes,
         \A m \in Notes : tx[m] \in Public => tx'[m] \in Public /\ to'[m] = to[m],
         user'[e] = user[e], lastId'[e] = lastId[e], before'[e] = before[e],
         written'[e] = written[e], replay'[e] = replay[e],
         phase'[e] = "query" <=> phase[e] = "query",
         conn'[e] = "open" => conn[e] = "open",
         tx'[n] = tx[n], kind'[n] = kind[n], to'[n] = to[n], job'[n] = job[n],
         targets'[n] = targets[n]
  PROVE  PairOK(e, n)'
  <1>1. PairOK(e, n) /\ TypeOK
    BY Invariants
  <1>2. Told(e, n)' /\ Counted(e, n)' /\ Pushed(e, n)'
    BY <1>1 DEF PairOK, Told, Counted, PushAhead, ReplayAhead, Pushed, Due
  <1>3. Replayed(e, n)'
    BY <1>1, AheadGrows DEF PairOK, Replayed, Due
  <1>4. QED
    BY <1>2, <1>3 DEF PairOK

-----------------------------------------------------------------------------
(* Publishers.                                                              *)

\* A step on row n that leaves pushes and streams alone.
LEMMA RowStep ==
  ASSUME IInv, NEW n \in Notes, UNCHANGED <<push, streams, crashes>>, TypeOK', RowOK(n)',
         tx[n] \in Public => tx'[n] \in Public /\ to'[n] = to[n],
         \A m \in Notes \ {n} : tx'[m] = tx[m] /\ kind'[m] = kind[m] /\ to'[m] = to[m],
         \A e \in Emitters : Told(e, n)' /\ Pushed(e, n)' /\ Replayed(e, n)'
  PROVE  IInv'
  <1>1. QueueOK'
    BY Invariants DEF push, QueueOK
  <1>2. ASSUME NEW m \in Notes PROVE RowOK(m)'
    <2>1. RowOK(m)
      BY Invariants
    <2>2. QED
      BY <2>1 DEF RowOK, push
  <1>3. ASSUME NEW e \in Emitters PROVE StreamOK(e)'
    <2>1. StreamOK(e)
      BY Invariants
    <2>2. QED
      BY <2>1 DEF StreamOK, streams
  <1>4. ASSUME NEW e \in Emitters, NEW m \in Notes PROVE PairOK(e, m)'
    <2>1. CASE m # n
      <3>1. /\ \A k \in Notes : tx[k] \in Public => tx'[k] \in Public /\ to'[k] = to[k]
            /\ tx'[m] = tx[m] /\ kind'[m] = kind[m] /\ to'[m] = to[m]
        BY <2>1
      <3>2. QED
        BY <3>1, PairKeeps DEF push, streams
    <2>2. CASE m = n
      <3>1. Counted(e, n)'
        <4>1. Counted(e, n)
          BY Invariants DEF PairOK
        <4>2. QED
          BY <4>1 DEF Counted, PushAhead, ReplayAhead, push, streams
      <3>2. QED
        BY <2>2, <3>1 DEF PairOK
    <2>3. QED
      BY <2>1, <2>2
  <1>5. QED
    BY <1>1, <1>2, <1>3, <1>4 DEF IInv

LEMMA InsertKeeps ==
  ASSUME IInv, NEW n \in Notes, NEW u \in Users, NEW k \in Kinds, Insert(n, u, k)
  PROVE  IInv'
  <1>1. TypeOK /\ RowOK(n) /\ tx[n] = "none"
    BY Invariants DEF Insert
  <1>2. TypeOK'
    BY <1>1 DEF TypeOK, Insert, push, streams
  <1>3. UNCHANGED <<push, streams, crashes>>
        /\ tx'[n] = "open" /\ job'[n] = "none"
        /\ \A m \in Notes \ {n} : tx'[m] = tx[m] /\ kind'[m] = kind[m] /\ to'[m] = to[m]
    BY <1>1 DEF TypeOK, Insert, push, RowOK
  <1>4. RowOK(n)'
    BY <1>3 DEF RowOK
  <1>5. ASSUME NEW e \in Emitters PROVE Told(e, n)' /\ Pushed(e, n)' /\ Replayed(e, n)'
    <2>1. Told(e, n)
      BY Invariants DEF PairOK
    <2>2. QED
      BY <1>1, <1>3, <2>1 DEF Told, Pushed, Replayed, Due, Public, streams
  <1>6. QED
    BY <1>1, <1>2, <1>3, <1>4, <1>5, RowStep DEF Public

LEMMA CommitKeeps ==
  ASSUME IInv, NEW n \in Notes, Commit(n)
  PROVE  IInv'
  <1>1. TypeOK /\ RowOK(n) /\ tx[n] = "open"
    BY Invariants DEF Commit
  <1>2. TypeOK'
    BY <1>1 DEF TypeOK, Commit, push, streams
  <1>3. UNCHANGED <<kind, to, push, streams, crashes>>
        /\ tx'[n] = "committed" /\ \A m \in Notes \ {n} : tx'[m] = tx[m]
    BY <1>1 DEF TypeOK, Commit
  <1>4. RowOK(n)'
    BY <1>3 DEF RowOK, Public
  <1>5. ASSUME NEW e \in Emitters PROVE Told(e, n)' /\ Pushed(e, n)' /\ Replayed(e, n)'
    <2>1. Told(e, n)
      BY Invariants DEF PairOK
    <2>2. kind[n] = "event" => job'[n] \notin {"sending", "done"}
      BY <1>1, <1>3 DEF RowOK, Public, push
    <2>3. n \notin before'[e]
      BY <1>1, <1>3, <2>1 DEF Told, Public, streams
    <2>4. QED
      BY <1>3, <2>1, <2>2, <2>3 DEF Told, Pushed, Replayed, Due, Public, streams
  <1>6. QED
    BY <1>1, <1>2, <1>3, <1>4, <1>5, RowStep DEF Public

LEMMA RollbackKeeps ==
  ASSUME IInv, NEW n \in Notes, Rollback(n)
  PROVE  IInv'
  <1>1. TypeOK /\ RowOK(n) /\ tx[n] = "open"
    BY Invariants DEF Rollback
  <1>2. TypeOK'
    BY <1>1 DEF TypeOK, Rollback, push, streams
  <1>3. UNCHANGED <<kind, to, push, streams, crashes>>
        /\ tx'[n] = "rolledBack" /\ \A m \in Notes \ {n} : tx'[m] = tx[m]
    BY <1>1 DEF TypeOK, Rollback
  <1>4. RowOK(n)'
    BY <1>1, <1>3 DEF RowOK, Public, push
  <1>5. ASSUME NEW e \in Emitters PROVE Told(e, n)' /\ Pushed(e, n)' /\ Replayed(e, n)'
    <2>1. Told(e, n)
      BY Invariants DEF PairOK
    <2>2. QED
      BY <1>1, <1>3, <2>1 DEF Told, Pushed, Replayed, Due, Public, streams
  <1>6. QED
    BY <1>1, <1>2, <1>3, <1>4, <1>5, RowStep DEF Public

LEMMA DeleteKeeps ==
  ASSUME IInv, NEW n \in Notes, Delete(n)
  PROVE  IInv'
  <1>1. TypeOK /\ RowOK(n) /\ tx[n] = "committed"
    BY Invariants DEF Delete
  <1>2. TypeOK'
    BY <1>1 DEF TypeOK, Delete, push, streams
  <1>3. UNCHANGED <<kind, to, push, streams, crashes>>
        /\ tx'[n] = "deleted" /\ \A m \in Notes \ {n} : tx'[m] = tx[m]
    BY <1>1 DEF TypeOK, Delete
  <1>4. RowOK(n)'
    BY <1>1, <1>3 DEF RowOK, Public, push
  <1>5. ASSUME NEW e \in Emitters PROVE Told(e, n)' /\ Pushed(e, n)' /\ Replayed(e, n)'
    <2>1. Told(e, n)
      BY Invariants DEF PairOK
    <2>2. QED
      BY <1>1, <1>3, <2>1 DEF Told, Pushed, Replayed, Due, Public, streams
  <1>6. QED
    BY <1>1, <1>2, <1>3, <1>4, <1>5, RowStep DEF Public

-----------------------------------------------------------------------------
(* The pool.                                                                *)

\* A step of the push of row n that writes nothing: what it was to write to a
\* stream and has not, it does not lose.
LEMMA PushKeeps ==
  ASSUME IInv, NEW n \in Notes, UNCHANGED <<rows, streams, crashes>>, TypeOK', QueueOK', RowOK(n)',
         \A m \in Notes \ {n} : job'[m] = job[m] /\ targets'[m] = targets[m],
         \A e \in Emitters : (PushAhead(e, n)' => PushAhead(e, n)) /\ Pushed(e, n)'
  PROVE  IInv'
  <1>1. ASSUME NEW m \in Notes PROVE RowOK(m)'
    <2>1. RowOK(m)
      BY Invariants
    <2>2. QED
      BY <2>1 DEF RowOK, rows
  <1>2. ASSUME NEW e \in Emitters PROVE StreamOK(e)'
    <2>1. StreamOK(e)
      BY Invariants
    <2>2. QED
      BY <2>1 DEF StreamOK, streams
  <1>3. ASSUME NEW e \in Emitters, NEW m \in Notes PROVE PairOK(e, m)'
    <2>1. PairOK(e, m) /\ TypeOK
      BY Invariants
    <2>2. CASE m # n
      BY <2>2, PairKeeps DEF rows, streams
    <2>3. CASE m = n
      <3>1. Told(e, m)'
        BY <2>1 DEF PairOK, Told, rows, streams
      <3>2. Counted(e, m)'
        BY <2>1, <2>3 DEF PairOK, Counted, ReplayAhead, streams
      <3>3. Replayed(e, m)'
        BY <2>1, AheadGrows DEF PairOK, Replayed, Due, rows, streams
      <3>4. QED
        BY <2>3, <3>1, <3>2, <3>3 DEF PairOK
    <2>4. QED
      BY <2>2, <2>3
  <1>4. QED
    BY <1>1, <1>2, <1>3 DEF IInv

\* A push that looks up its streams: it misses none that is open.
LEMMA StartSendingFacts ==
  ASSUME IInv, NEW n \in Notes, StartSending(n), UNCHANGED <<rows, queue, streams, crashes>>,
         job[n] \in {"none", "running"}
  PROVE  /\ \A m \in Notes \ {n} : job'[m] = job[m] /\ targets'[m] = targets[m]
         /\ job'[n] \in {"done", "sending"} /\ targets'[n] \subseteq Emitters
         /\ job' \in [Notes -> {"none", "queued", "running", "sending", "done", "rejected", "lost"}]
         /\ targets' \in [Notes -> SUBSET Emitters]
         /\ QueueOK'
         /\ \A e \in Emitters : Pushed(e, n)' /\ PushAhead(e, n)
  <1>1. /\ TypeOK /\ QueueOK /\ \A e \in Emitters : StreamOK(e)
        /\ EmittersOf(to[n]) \subseteq Emitters
    BY Invariants DEF EmittersOf, TypeOK
  <1>2. /\ \A m \in Notes \ {n} : job'[m] = job[m] /\ targets'[m] = targets[m]
        /\ job'[n] = IF EmittersOf(to[n]) = {} THEN "done" ELSE "sending"
        /\ targets'[n] = EmittersOf(to[n])
        /\ job' \in [Notes -> {"none", "queued", "running", "sending", "done", "rejected", "lost"}]
        /\ targets' \in [Notes -> SUBSET Emitters]
    BY <1>1 DEF StartSending, TypeOK
  <1>3. QueueOK'
    <2>1. \A i \in 1..Len(queue) : queue[i] \in Notes
      BY <1>1 DEF TypeOK
    <2>2. QED
      BY <1>1, <1>2, <2>1 DEF QueueOK
  <1>4. \A e \in Emitters : Pushed(e, n)'
    <2> SUFFICES ASSUME NEW e \in Emitters, Due(e, n)' PROVE e \in EmittersOf(to[n])
      BY <1>2 DEF Pushed
    <2>1. QED
      BY <1>1 DEF Due, EmittersOf, StreamOK, streams, rows
  <1>5. QED
    BY <1>1, <1>2, <1>3, <1>4 DEF PushAhead

LEMMA DmSendKeeps ==
  ASSUME IInv, NEW n \in Notes, DmSend(n)
  PROVE  IInv'
  <1>1. TypeOK
    BY Invariants
  <1>2. /\ kind[n] = "dm" /\ tx[n] = "open" /\ job[n] = "none" /\ StartSending(n)
        /\ UNCHANGED <<rows, queue, poolSize, streams, crashes>>
    BY DEF DmSend
  <1>3. TypeOK'
    BY <1>1, <1>2, StartSendingFacts DEF TypeOK, rows, streams
  <1>4. RowOK(n)'
    BY <1>2 DEF RowOK, rows
  <1>5. QED
    BY <1>2, <1>3, <1>4, StartSendingFacts, PushKeeps

LEMMA LookUpKeeps ==
  ASSUME IInv, NEW n \in Notes, LookUp(n)
  PROVE  IInv'
  <1>1. TypeOK /\ RowOK(n)
    BY Invariants
  <1>2. /\ job[n] = "running" /\ StartSending(n)
        /\ UNCHANGED <<rows, queue, poolSize, streams, crashes>>
    BY DEF LookUp
  <1>3. TypeOK'
    BY <1>1, <1>2, StartSendingFacts DEF TypeOK, rows, streams
  <1>4. RowOK(n)'
    BY <1>1, <1>2, StartSendingFacts DEF RowOK, rows
  <1>5. QED
    BY <1>2, <1>3, <1>4, StartSendingFacts, PushKeeps

LEMMA AfterCommitKeeps ==
  ASSUME IInv, NEW n \in Notes, AfterCommit(n)
  PROVE  IInv'
  <1>1. /\ TypeOK /\ RowOK(n) /\ QueueOK /\ tx[n] \in Public /\ kind[n] = "event" /\ job[n] = "none"
        /\ Submit(n) /\ UNCHANGED <<rows, targets, streams, crashes>>
    BY Invariants DEF AfterCommit, Public
  <1>2. /\ job'[n] \in {"running", "queued", "rejected"}
        /\ \A m \in Notes \ {n} : job'[m] = job[m]
        /\ job' \in [Notes -> {"none", "queued", "running", "sending", "done", "rejected", "lost"}]
    <2>1. \E step \in {"running", "queued", "rejected"} : job' = [job EXCEPT ![n] = step]
      BY <1>1 DEF Submit
    <2>2. job \in [Notes -> {"none", "queued", "running", "sending", "done", "rejected", "lost"}]
      BY <1>1 DEF TypeOK
    <2>3. QED
      BY <2>1, <2>2
  <1>3. \A i \in 1..Len(queue) : queue[i] \in Notes /\ queue[i] # n
    BY <1>1 DEF TypeOK, QueueOK
  <1>4. QueueOK' /\ queue' \in Seq(Notes) /\ Len(queue') <= QueueCapacity
    <2>1. CASE queue' = queue
      BY <1>1, <1>2, <1>3, <2>1 DEF QueueOK, TypeOK
    <2>2. CASE Len(queue) < QueueCapacity /\ queue' = Append(queue, n) /\ job'[n] = "queued"
      <3>1. /\ queue \in Seq(Notes) /\ Len(queue') = Len(queue) + 1 /\ Len(queue) \in Nat
            /\ queue' \in Seq(Notes) /\ queue'[Len(queue')] = n
            /\ \A i \in 1..Len(queue) : queue'[i] = queue[i]
        BY <1>1, <2>2 DEF TypeOK
      <3>2. \A i \in 1..Len(queue') : i \in 1..Len(queue) \/ i = Len(queue')
        BY <3>1
      <3>3. ASSUME NEW i \in 1..Len(queue') PROVE job'[queue'[i]] = "queued"
        BY <1>1, <1>2, <1>3, <2>2, <3>1, <3>2 DEF QueueOK
      <3>4. ASSUME NEW i \in 1..Len(queue'), NEW j \in 1..Len(queue'), i # j
            PROVE  queue'[i] # queue'[j]
        BY <1>1, <1>3, <3>1, <3>2, <3>4 DEF QueueOK
      <3>5. Len(queue') <= QueueCapacity
        BY <2>2, <3>1, DeliveryAssumption
      <3>6. QED
        BY <3>1, <3>3, <3>4, <3>5 DEF QueueOK
    <2>3. QED
      BY <1>1, <2>1, <2>2 DEF Submit, TypeOK
  <1>5. poolSize' \in 0..MaxPool
    <2>1. /\ poolSize \in 0..MaxPool /\ Core \in Nat /\ MaxPool \in Nat /\ Core <= MaxPool
      BY <1>1, DeliveryAssumption DEF TypeOK
    <2>2. \/ poolSize' = poolSize
          \/ poolSize' = poolSize + 1 /\ (poolSize < Core \/ poolSize < MaxPool)
      BY <1>1 DEF Submit
    <2>3. QED
      BY <2>1, <2>2
  <1>6. TypeOK' /\ RowOK(n)'
    <2>1. TypeOK'
      BY <1>1, <1>2, <1>4, <1>5 DEF TypeOK, rows, streams
    <2>2. RowOK(n)'
      BY <1>1, <1>2 DEF RowOK, rows, Public
    <2>3. QED
      BY <2>1, <2>2
  <1>7. \A e \in Emitters : (PushAhead(e, n)' => PushAhead(e, n)) /\ Pushed(e, n)'
    BY <1>1, <1>2 DEF PushAhead, Pushed
  <1>8. QED
    BY <1>1, <1>2, <1>4, <1>6, <1>7, PushKeeps

LEMMA TakeKeeps ==
  ASSUME IInv, Take
  PROVE  IInv'
  <1> DEFINE n == Head(queue)
  <1>1. /\ TypeOK /\ QueueOK /\ queue # <<>> /\ queue' = Tail(queue)
        /\ job' = [job EXCEPT ![n] = "running"]
        /\ UNCHANGED <<rows, targets, poolSize, streams, crashes>>
    BY Invariants DEF Take
  <1>2. /\ queue \in Seq(Notes) /\ Len(queue) \in Nat \ {0} /\ n = queue[1] /\ 1 \in 1..Len(queue)
        /\ queue' \in Seq(Notes) /\ Len(queue') = Len(queue) - 1
        /\ \A i \in 1..Len(queue') : queue'[i] = queue[i + 1] /\ i + 1 \in 1..Len(queue)
    BY <1>1 DEF TypeOK
  <1>3. n \in Notes /\ job[n] = "queued"
    BY <1>1, <1>2 DEF QueueOK
  <1>4. PICK k \in Notes : k = n
    BY <1>3
  <1> HIDE DEF n
  <1>5. /\ job'[k] = "running" /\ \A m \in Notes \ {k} : job'[m] = job[m]
        /\ job' \in [Notes -> {"none", "queued", "running", "sending", "done", "rejected", "lost"}]
    BY <1>1, <1>4 DEF TypeOK
  <1>6. QueueOK'
    <2>1. ASSUME NEW i \in 1..Len(queue') PROVE queue'[i] \in Notes \ {k} /\ job'[queue'[i]] = "queued"
      <3>1. queue'[i] = queue[i + 1] /\ i + 1 \in 1..Len(queue) /\ i + 1 # 1
        BY <1>2
      <3>2. queue[i + 1] # k /\ queue[i + 1] \in Notes /\ job[queue[i + 1]] = "queued"
        BY <1>1, <1>2, <1>4, <3>1 DEF QueueOK
      <3>3. QED
        BY <1>5, <3>1, <3>2
    <2>2. ASSUME NEW i \in 1..Len(queue'), NEW j \in 1..Len(queue'), i # j
          PROVE  queue'[i] # queue'[j]
      <3>1. /\ queue'[i] = queue[i + 1] /\ i + 1 \in 1..Len(queue)
            /\ queue'[j] = queue[j + 1] /\ j + 1 \in 1..Len(queue) /\ i + 1 # j + 1
        BY <1>2, <2>2
      <3>2. QED
        BY <1>1, <3>1 DEF QueueOK
    <2>3. QED
      BY <2>1, <2>2 DEF QueueOK
  <1>7. Len(queue') <= QueueCapacity
    BY <1>1, <1>2, DeliveryAssumption DEF TypeOK
  <1>8. RowOK(k)
    BY Invariants
  <1>9. TypeOK' /\ RowOK(k)'
    BY <1>1, <1>2, <1>3, <1>4, <1>5, <1>7, <1>8 DEF TypeOK, RowOK, rows, streams
  <1>10. \A e \in Emitters : (PushAhead(e, k)' => PushAhead(e, k)) /\ Pushed(e, k)'
    BY <1>1, <1>3, <1>4, <1>5 DEF PushAhead, Pushed
  <1>11. QED
    BY <1>1, <1>5, <1>6, <1>9, <1>10, PushKeeps

LEMMA SameAll ==
  ASSUME IInv, UNCHANGED <<rows, job, targets, queue, streams, crashes>>, poolSize' \in 0..MaxPool
  PROVE  IInv'
  <1>1. TypeOK'
    BY Invariants DEF TypeOK, rows, streams
  <1>2. QueueOK'
    BY Invariants DEF QueueOK
  <1>3. ASSUME NEW n \in Notes PROVE RowOK(n)'
    <2>1. RowOK(n)
      BY Invariants
    <2>2. QED
      BY <2>1 DEF RowOK, rows
  <1>4. ASSUME NEW e \in Emitters PROVE StreamOK(e)'
    <2>1. StreamOK(e)
      BY Invariants
    <2>2. QED
      BY <2>1 DEF StreamOK, streams
  <1>5. ASSUME NEW e \in Emitters, NEW n \in Notes PROVE PairOK(e, n)'
    BY PairKeeps DEF rows, streams
  <1>6. QED
    BY <1>1, <1>2, <1>3, <1>4, <1>5 DEF IInv

LEMMA RetireKeeps ==
  ASSUME IInv, Retire
  PROVE  IInv'
  <1>1. TypeOK
    BY Invariants
  <1>2. poolSize' \in 0..MaxPool
    BY <1>1, DeliveryAssumption DEF TypeOK, Retire
  <1>3. QED
    BY <1>2, SameAll DEF Retire

-----------------------------------------------------------------------------
(* Writing to a stream.                                                     *)

LEMMA WriteFacts ==
  ASSUME IInv, NEW e \in Emitters, NEW n \in Notes, Write(e, n)
  PROVE  /\ \A d \in Emitters \ {e} : written'[d] = written[d] /\ conn'[d] = conn[d]
         /\ conn'[e] = conn[e] \/ (conn[e] = "gone" /\ conn'[e] = "failed")
         /\ conn' \in [Emitters -> {"unused", "open", "gone", "failed", "closed"}]
         /\ written' \in [Emitters -> Seq(Notes)]
         /\ Len(written[e]) \in Nat /\ Len(written'[e]) \in Nat /\ Len(written[e]) <= Len(written'[e])
         /\ conn[e] # "open" => written'[e] = written[e]
         /\ Ids(written'[e]) = IF conn[e] = "open" THEN Ids(written[e]) \cup {n} ELSE Ids(written[e])
         /\ \A m \in Notes \ {n} : Copies(written'[e], m) = Copies(written[e], m)
         /\ Copies(written'[e], n) \in {Copies(written[e], n), Copies(written[e], n) + 1}
  <1>1. TypeOK /\ written[e] \in Seq(Notes)
    BY Invariants
  <1>2. \A m \in Notes : Copies(written[e], m) \in Nat
    BY <1>1, CopiesType
  <1>3. CASE conn[e] = "open" /\ written' = [written EXCEPT ![e] = Append(@, n)] /\ UNCHANGED conn
    <2> DEFINE v == Append(written[e], n)
    <2>1. /\ v \in Seq(Notes) /\ Len(v) = Len(written[e]) + 1 /\ Len(written[e]) \in Nat
          /\ Ids(v) = Ids(written[e]) \cup {n}
          /\ \A m \in Notes : Copies(v, m) = Copies(written[e], m) + (IF m = n THEN 1 ELSE 0)
      BY <1>1, AppendFacts
    <2>2. written' = [written EXCEPT ![e] = v]
      BY <1>3
    <2> HIDE DEF v
    <2>3. /\ written'[e] = v /\ written' \in [Emitters -> Seq(Notes)]
          /\ \A d \in Emitters \ {e} : written'[d] = written[d]
      BY <1>1, <2>1, <2>2 DEF TypeOK
    <2>4. conn' \in [Emitters -> {"unused", "open", "gone", "failed", "closed"}]
      BY <1>1, <1>3 DEF TypeOK
    <2>5. \A m \in Notes \ {n} : Copies(written'[e], m) = Copies(written[e], m)
      BY <1>2, <2>1, <2>3
    <2>6. Copies(written'[e], n) = Copies(written[e], n) + 1
      BY <1>2, <2>1, <2>3
    <2>7. Len(written'[e]) \in Nat /\ Len(written[e]) <= Len(written'[e])
      BY <2>1, <2>3
    <2>8. Ids(written'[e]) = Ids(written[e]) \cup {n}
      BY <2>1, <2>3
    <2>9. QED
      BY <1>3, <2>1, <2>3, <2>4, <2>5, <2>6, <2>7, <2>8
  <1>4. CASE written' = written /\ conn[e] # "open"
             /\ \/ conn' = conn
                \/ conn[e] = "gone" /\ conn' = [conn EXCEPT ![e] = "failed"]
    <2>1. Len(written[e]) \in Nat
      BY <1>1
    <2>2. /\ conn' \in [Emitters -> {"unused", "open", "gone", "failed", "closed"}]
          /\ conn'[e] = conn[e] \/ (conn[e] = "gone" /\ conn'[e] = "failed")
          /\ \A d \in Emitters \ {e} : conn'[d] = conn[d]
      <3>1. conn \in [Emitters -> {"unused", "open", "gone", "failed", "closed"}]
        BY <1>1 DEF TypeOK
      <3>2. QED
        BY <1>4, <3>1
    <2>3. written' \in [Emitters -> Seq(Notes)]
      BY <1>1, <1>4 DEF TypeOK
    <2>4. QED
      BY <1>4, <2>1, <2>2, <2>3
  <1>5. QED
    BY <1>3, <1>4 DEF Write

\* The stream that is written to.
LEMMA WrittenStream ==
  ASSUME IInv, NEW e \in Emitters, NEW n \in Notes, Write(e, n),
         UNCHANGED <<registered, read, phase, lastId>>,
         phase[e] # "replay" => replay'[e] = replay[e],
         \A d \in Emitters \ {e} : replay'[d] = replay[d]
  PROVE  \A d \in Emitters : StreamOK(d)'
  <1>1. \A d \in Emitters : StreamOK(d)
    BY Invariants
  <1>2. TypeOK
    BY Invariants
  <1>3. ASSUME NEW d \in Emitters \ {e} PROVE StreamOK(d)'
    <2>1. written'[d] = written[d] /\ conn'[d] = conn[d] /\ replay'[d] = replay[d]
      BY <1>3, WriteFacts
    <2>2. QED
      BY <1>1, <2>1 DEF StreamOK
  <1>4. StreamOK(e)'
    <2>1. read'[e] <= Len(written'[e])
      <3>1. read[e] \in Nat /\ read[e] <= Len(written[e]) /\ read' = read
        BY <1>1, <1>2 DEF TypeOK, StreamOK
      <3>2. Len(written[e]) \in Nat /\ Len(written'[e]) \in Nat /\ Len(written[e]) <= Len(written'[e])
        BY WriteFacts
      <3>3. QED
        BY <3>1, <3>2
    <2>2. /\ conn'[e] = conn[e] \/ (conn[e] = "gone" /\ conn'[e] = "failed")
          /\ conn[e] # "open" => written'[e] = written[e]
      BY WriteFacts
    <2>3. QED
      BY <1>1, <2>1, <2>2 DEF StreamOK
  <1>5. QED
    BY <1>3, <1>4

LEMMA SendKeeps ==
  ASSUME IInv, NEW n \in Notes, NEW e \in Emitters, Send(n, e)
  PROVE  IInv'
  <1>1. /\ TypeOK /\ QueueOK /\ RowOK(n) /\ job[n] = "sending" /\ e \in targets[n] /\ Write(e, n)
        /\ UNCHANGED <<rows, queue, poolSize, registered, user, phase, lastId, replay,
                       read, before, crashes>>
    BY Invariants DEF Send
  <1>2. /\ targets'[n] = targets[n] \ {e} /\ targets' \in [Notes -> SUBSET Emitters]
        /\ job'[n] = IF targets[n] = {e} THEN "done" ELSE "sending"
        /\ job' \in [Notes -> {"none", "queued", "running", "sending", "done", "rejected", "lost"}]
        /\ \A m \in Notes \ {n} : job'[m] = job[m] /\ targets'[m] = targets[m]
    BY <1>1 DEF Send, TypeOK
  <1>3. TypeOK'
    BY <1>1, <1>2, WriteFacts DEF TypeOK, rows
  <1>4. QueueOK'
    <2>1. \A i \in 1..Len(queue) : queue[i] \in Notes
      BY <1>1 DEF TypeOK
    <2>2. QED
      BY <1>1, <1>2, <2>1 DEF QueueOK
  <1>5. ASSUME NEW m \in Notes PROVE RowOK(m)'
    <2>1. RowOK(m)
      BY Invariants
    <2>2. QED
      BY <1>1, <1>2, <2>1 DEF RowOK, rows
  <1>6. \A d \in Emitters : StreamOK(d)'
    BY <1>1, WrittenStream
  <1>7. ASSUME NEW d \in Emitters, NEW m \in Notes PROVE PairOK(d, m)'
    <2>1. PairOK(d, m) /\ Copies(written[d], m) \in Nat
      BY Invariants
    <2>2. /\ \A k \in Notes : tx[k] \in Public => tx'[k] \in Public /\ to'[k] = to[k]
          /\ tx' = tx /\ to' = to /\ kind' = kind
      BY <1>1 DEF rows
    <2>3. CASE d # e /\ m # n
      <3>1. /\ written'[d] = written[d] /\ conn'[d] = conn[d]
            /\ targets'[m] = targets[m] /\ job'[m] = job[m]
        <4>1. written'[d] = written[d] /\ conn'[d] = conn[d]
          BY <1>1, <2>3, WriteFacts
        <4>2. targets'[m] = targets[m] /\ job'[m] = job[m]
          BY <1>2, <2>3
        <4>3. QED
          BY <4>1, <4>2
      <3>2. /\ user'[d] = user[d] /\ lastId'[d] = lastId[d] /\ before'[d] = before[d]
            /\ replay'[d] = replay[d] /\ phase'[d] = phase[d]
            /\ tx'[m] = tx[m] /\ kind'[m] = kind[m] /\ to'[m] = to[m]
        BY <1>1, <2>2
      <3>3. QED
        BY <2>2, <3>1, <3>2, PairKeeps
    <2>4. CASE d # e /\ m = n
      <3>1. written'[d] = written[d] /\ conn'[d] = conn[d]
        BY <1>1, <2>4, WriteFacts
      <3>2. Told(d, n)'
        BY <1>1, <2>1, <2>2, <2>4, <3>1 DEF PairOK, Told
      <3>3. Counted(d, n)'
        BY <1>1, <1>2, <2>1, <2>4, <3>1 DEF PairOK, Counted, PushAhead, ReplayAhead
      <3>4. Pushed(d, n)'
        BY <1>1, <1>2, <2>1, <2>2, <2>4, <3>1 DEF PairOK, Pushed, Due
      <3>5. Replayed(d, n)'
        BY <1>1, <2>1, <2>2, <2>4, <3>1, AheadGrows DEF PairOK, Replayed, Due
      <3>6. QED
        BY <2>4, <3>2, <3>3, <3>4, <3>5 DEF PairOK
    <2>5. CASE d = e
      <3>1. conn'[e] = "open" => conn[e] = "open"
        BY <1>1, WriteFacts
      <3>2. /\ Ids(written'[e]) = IF conn[e] = "open" THEN Ids(written[e]) \cup {n} ELSE Ids(written[e])
            /\ m # n => Copies(written'[e], m) = Copies(written[e], m)
            /\ m = n => Copies(written'[e], m) \in {Copies(written[e], m), Copies(written[e], m) + 1}
        BY <1>1, WriteFacts
      <3>3. Told(e, m)'
        <4>1. tx[n] # "none" /\ (kind[n] = "event" => tx[n] \in Public)
          BY <1>1 DEF RowOK
        <4>2. QED
          BY <1>1, <2>1, <2>2, <2>5, <3>2, <4>1 DEF PairOK, Told
      <3>4. Counted(e, m)'
        <4>1. CASE m # n
          BY <1>1, <1>2, <2>1, <2>5, <3>2, <4>1 DEF PairOK, Counted, PushAhead, ReplayAhead
        <4>2. CASE m = n
          <5>1. PushAhead(e, m) /\ ~PushAhead(e, m)'
            BY <1>1, <1>2, <4>2 DEF PushAhead
          <5>2. ReplayAhead(e, m)' <=> ReplayAhead(e, m)
            BY <1>1 DEF ReplayAhead
          <5>3. QED
            BY <2>1, <2>5, <3>2, <4>2, <5>1, <5>2 DEF PairOK, Counted
        <4>3. QED
          BY <4>1, <4>2
      <3>5. Pushed(e, m)'
        BY <1>1, <1>2, <2>1, <2>2, <2>5, <3>1, <3>2 DEF PairOK, Pushed, Due
      <3>6. Replayed(e, m)'
        BY <1>1, <2>1, <2>2, <2>5, <3>1, <3>2, AheadGrows DEF PairOK, Replayed, Due
      <3>7. QED
        BY <2>5, <3>3, <3>4, <3>5, <3>6 DEF PairOK
    <2>6. QED
      BY <2>3, <2>4, <2>5
  <1>8. QED
    BY <1>3, <1>4, <1>5, <1>6, <1>7 DEF IInv

LEMMA ReplayKeeps ==
  ASSUME IInv, NEW e \in Emitters, Replay(e)
  PROVE  IInv'
  <1>1. PICK n \in replay[e] : Write(e, n) /\ replay' = [replay EXCEPT ![e] = @ \ {n}]
    BY DEF Replay
  <1>2. /\ TypeOK /\ QueueOK /\ StreamOK(e) /\ n \in Notes /\ phase[e] = "replay"
        /\ UNCHANGED <<rows, push, registered, user, phase, lastId, read, before, crashes>>
    BY <1>1, Invariants DEF Replay
  <1>3. /\ replay'[e] = replay[e] \ {n} /\ replay' \in [Emitters -> SUBSET Notes]
        /\ \A d \in Emitters \ {e} : replay'[d] = replay[d]
    BY <1>1, <1>2 DEF TypeOK
  <1>4. TypeOK'
    BY <1>1, <1>2, <1>3, WriteFacts DEF TypeOK, rows, push
  <1>5. QueueOK'
    BY <1>2 DEF QueueOK, push
  <1>6. ASSUME NEW m \in Notes PROVE RowOK(m)'
    <2>1. RowOK(m)
      BY Invariants
    <2>2. QED
      BY <1>2, <2>1 DEF RowOK, rows, push
  <1>7. \A d \in Emitters : StreamOK(d)'
    BY <1>1, <1>2, <1>3, WrittenStream
  <1>8. ASSUME NEW d \in Emitters, NEW m \in Notes PROVE PairOK(d, m)'
    <2>1. PairOK(d, m) /\ Copies(written[d], m) \in Nat
      BY Invariants
    <2>2. /\ \A k \in Notes : tx[k] \in Public => tx'[k] \in Public /\ to'[k] = to[k]
          /\ tx' = tx /\ to' = to /\ kind' = kind /\ job' = job /\ targets' = targets
      BY <1>2 DEF rows, push
    <2>3. CASE d # e
      BY <1>1, <1>2, <1>3, <2>2, <2>3, WriteFacts, PairKeeps
    <2>4. CASE d = e
      <3>1. conn'[e] = "open" => conn[e] = "open"
        BY <1>1, <1>2, WriteFacts
      <3>2. /\ Ids(written'[e]) = IF conn[e] = "open" THEN Ids(written[e]) \cup {n} ELSE Ids(written[e])
            /\ m # n => Copies(written'[e], m) = Copies(written[e], m)
            /\ m = n => Copies(written'[e], m) \in {Copies(written[e], m), Copies(written[e], m) + 1}
        BY <1>1, <1>2, WriteFacts
      <3>3. Told(e, m)'
        BY <1>1, <1>2, <1>3, <2>1, <2>2, <2>4, <3>2 DEF PairOK, Told
      <3>4. Counted(e, m)'
        <4>1. PushAhead(e, m)' <=> PushAhead(e, m)
          BY <2>2 DEF PushAhead
        <4>2. CASE m # n
          BY <1>2, <1>3, <2>1, <2>4, <3>2, <4>1, <4>2 DEF PairOK, Counted, ReplayAhead
        <4>3. CASE m = n
          <5>1. ReplayAhead(e, m) /\ ~ReplayAhead(e, m)'
            BY <1>1, <1>2, <1>3, <4>3 DEF ReplayAhead, StreamOK
          <5>2. QED
            BY <2>1, <2>4, <3>2, <4>1, <4>3, <5>1 DEF PairOK, Counted
        <4>4. QED
          BY <4>2, <4>3
      <3>5. Pushed(e, m)'
        BY <1>2, <2>1, <2>2, <2>4, <3>1, <3>2 DEF PairOK, Pushed, Due
      <3>6. Replayed(e, m)'
        BY <1>2, <1>3, <2>1, <2>2, <2>4, <3>1, <3>2, AheadGrows DEF PairOK, Replayed, Due
      <3>7. QED
        BY <2>4, <3>3, <3>4, <3>5, <3>6 DEF PairOK
    <2>5. QED
      BY <2>3, <2>4
  <1>9. QED
    BY <1>4, <1>5, <1>6, <1>7, <1>8 DEF IInv

-----------------------------------------------------------------------------
(* Streams.                                                                 *)

\* A step of stream e that leaves the rows, the pushes and the other streams
\* alone.
LEMMA StreamStep ==
  ASSUME IInv, NEW e \in Emitters, UNCHANGED <<rows, push, crashes>>, TypeOK', StreamOK(e)',
         \A d \in Emitters \ {e} :
             /\ user'[d] = user[d] /\ conn'[d] = conn[d] /\ phase'[d] = phase[d]
             /\ lastId'[d] = lastId[d] /\ replay'[d] = replay[d] /\ written'[d] = written[d]
             /\ read'[d] = read[d] /\ before'[d] = before[d]
             /\ d \in registered' <=> d \in registered,
         \A n \in Notes : PairOK(e, n)'
  PROVE  IInv'
  <1>1. QueueOK'
    BY Invariants DEF push, QueueOK
  <1>2. ASSUME NEW m \in Notes PROVE RowOK(m)'
    <2>1. RowOK(m)
      BY Invariants
    <2>2. QED
      BY <2>1 DEF RowOK, push, rows
  <1>3. ASSUME NEW d \in Emitters PROVE StreamOK(d)'
    <2>1. StreamOK(d)
      BY Invariants
    <2>2. CASE d # e
      BY <2>1, <2>2 DEF StreamOK
    <2>3. QED
      BY <2>2
  <1>4. ASSUME NEW d \in Emitters, NEW m \in Notes PROVE PairOK(d, m)'
    <2>1. CASE d # e
      <3>1. /\ \A k \in Notes : tx[k] \in Public => tx'[k] \in Public /\ to'[k] = to[k]
            /\ tx' = tx /\ kind' = kind /\ to' = to /\ job' = job /\ targets' = targets
        BY DEF rows, push
      <3>2. QED
        BY <2>1, <3>1, PairKeeps
    <2>2. QED
      BY <2>1
  <1>5. QED
    BY <1>1, <1>2, <1>3, <1>4 DEF IInv

\* A stream whose connection may have ended; nothing is written.
LEMMA StreamEnds ==
  ASSUME IInv, NEW e \in Emitters,
         UNCHANGED <<rows, push, user, lastId, replay, written, before, crashes>>, TypeOK',
         StreamOK(e)', conn'[e] = "open" => conn[e] = "open",
         phase'[e] = "query" <=> phase[e] = "query",
         \A d \in Emitters \ {e} : /\ conn'[d] = conn[d] /\ phase'[d] = phase[d]
                                   /\ read'[d] = read[d]
                                   /\ d \in registered' <=> d \in registered
  PROVE  IInv'
  <1>1. ASSUME NEW m \in Notes PROVE PairOK(e, m)'
    <2>1. /\ \A k \in Notes : tx[k] \in Public => tx'[k] \in Public /\ to'[k] = to[k]
          /\ tx' = tx /\ kind' = kind /\ to' = to /\ job' = job /\ targets' = targets
      BY DEF rows, push
    <2>2. QED
      BY <2>1, PairKeeps
  <1>2. QED
    BY <1>1, StreamStep

LEMMA ConnectKeeps ==
  ASSUME IInv, NEW e \in Emitters, NEW u \in Users \cup {None}, NEW last \in Notes \cup {None},
         Connect(e, u, last)
  PROVE  IInv'
  <1>1. /\ TypeOK /\ StreamOK(e) /\ conn[e] = "unused" /\ None \notin Notes
        /\ UNCHANGED <<rows, push, replay, written, read, crashes>>
    BY Invariants DEF Connect
  <1>2. /\ conn'[e] = "open" /\ e \in registered' /\ user'[e] = u /\ lastId'[e] = last
        /\ phase'[e] = IF last = None THEN "ready" ELSE "query"
        /\ before'[e] = {n \in Notes : tx[n] = "committed"}
        /\ \A d \in Emitters \ {e} :
               /\ user'[d] = user[d] /\ conn'[d] = conn[d] /\ phase'[d] = phase[d]
               /\ lastId'[d] = lastId[d] /\ before'[d] = before[d]
               /\ d \in registered' <=> d \in registered
    BY <1>1 DEF TypeOK, Connect
  <1>3. TypeOK'
    <2>1. /\ registered' \subseteq Emitters /\ user' \in [Emitters -> Users \cup {None}]
          /\ conn' \in [Emitters -> {"unused", "open", "gone", "failed", "closed"}]
          /\ phase' \in [Emitters -> {"none", "query", "replay", "ready"}]
          /\ lastId' \in [Emitters -> Notes \cup {None}]
          /\ before' \in [Emitters -> SUBSET Notes]
      BY <1>1 DEF TypeOK, Connect
    <2>2. QED
      BY <1>1, <2>1 DEF TypeOK, rows, push
  <1>4. StreamOK(e)'
    BY <1>1, <1>2 DEF StreamOK
  <1>5. ASSUME NEW n \in Notes PROVE PairOK(e, n)'
    <2>1. written'[e] = <<>> /\ replay'[e] = {} /\ tx' = tx /\ to' = to /\ kind' = kind /\ job' = job
      BY <1>1 DEF StreamOK, rows, push
    <2>2. Ids(written'[e]) = {} /\ Copies(written'[e], n) = 0
      BY <2>1, EmptyFacts
    <2>3. Told(e, n)'
      BY <1>2, <2>1, <2>2 DEF Told, Public
    <2>4. Counted(e, n)'
      BY <2>2 DEF Counted
    <2>5. Pushed(e, n)'
      BY <1>2, <2>1 DEF Pushed, Due
    <2>6. Replayed(e, n)'
      BY <1>2 DEF Replayed
    <2>7. QED
      BY <2>3, <2>4, <2>5, <2>6 DEF PairOK
  <1>6. QED
    BY <1>1, <1>2, <1>3, <1>4, <1>5, StreamStep

LEMMA ReconnectKeeps ==
  ASSUME IInv, NEW e \in Emitters, NEW old \in Emitters, Reconnect(e, old)
  PROVE  IInv'
  <1>1. /\ TypeOK /\ StreamOK(old) /\ written[old] \in Seq(Notes) /\ user[old] \in Users \cup {None}
        /\ read[old] \in Nat /\ lastId[old] \in Notes \cup {None}
    BY Invariants DEF TypeOK
  <1>2. ResumeId(old) \in Notes \cup {None}
    <2>1. CASE read[old] = 0
      BY <1>1, <2>1 DEF ResumeId
    <2>2. CASE read[old] # 0
      <3>1. read[old] \in 1..Len(written[old])
        BY <1>1, <2>2 DEF StreamOK
      <3>2. written[old][read[old]] \in Notes
        BY <1>1, <3>1
      <3>3. QED
        BY <2>2, <3>2 DEF ResumeId
    <2>3. QED
      BY <2>1, <2>2
  <1>3. QED
    BY <1>1, <1>2, ConnectKeeps DEF Reconnect

LEMMA QueryKeeps ==
  ASSUME IInv, NEW e \in Emitters, Query(e)
  PROVE  IInv'
  <1>1. /\ TypeOK /\ StreamOK(e) /\ phase[e] = "query"
        /\ UNCHANGED <<rows, push, registered, user, conn, lastId, written, read, before, crashes>>
    BY Invariants DEF Query
  <1>2. /\ phase'[e] = "replay"
        /\ replay'[e] = {n \in Missed(e) : Cardinality({m \in Missed(e) : m < n}) < ReplayLimit}
        /\ \A d \in Emitters \ {e} : phase'[d] = phase[d] /\ replay'[d] = replay[d]
        /\ Missed(e) \subseteq Notes
    BY <1>1 DEF TypeOK, Query, Missed
  <1>3. TypeOK'
    <2>1. replay' \in [Emitters -> SUBSET Notes]
      <3>1. {n \in Missed(e) : Cardinality({m \in Missed(e) : m < n}) < ReplayLimit} \in SUBSET Notes
        BY <1>2
      <3>2. QED
        BY <1>1, <3>1 DEF TypeOK, Query
    <2>2. phase' \in [Emitters -> {"none", "query", "replay", "ready"}]
      BY <1>1 DEF TypeOK, Query
    <2>3. QED
      BY <1>1, <2>1, <2>2 DEF TypeOK, rows, push
  <1>4. StreamOK(e)'
    BY <1>1, <1>2 DEF StreamOK
  <1>5. ASSUME NEW n \in Notes PROVE PairOK(e, n)'
    <2>1. PairOK(e, n)
      BY Invariants
    <2>2. tx' = tx /\ to' = to /\ kind' = kind /\ job' = job /\ targets' = targets
      BY <1>1 DEF rows, push
    <2>3. Told(e, n)'
      BY <1>1, <1>2, <2>1, <2>2 DEF PairOK, Told, Missed, Public
    <2>4. Counted(e, n)'
      BY <1>1, <1>2, <2>1, <2>2 DEF PairOK, Counted, PushAhead, ReplayAhead
    <2>5. Pushed(e, n)'
      BY <1>1, <2>1, <2>2 DEF PairOK, Pushed, Due
    <2>6. Replayed(e, n)'
      <3> SUFFICES ASSUME Due(e, n)', lastId'[e] # None, ~(n <= lastId'[e]), n \notin replay'[e]
                   PROVE  Cardinality(Ahead(e, n)') >= ReplayLimit
        BY DEF Replayed
      <3> DEFINE Sooner == {m \in Missed(e) : m < n}
      <3>1. lastId[e] \in Notes /\ lastId[e] \in Nat /\ n \in Nat
        BY <1>1, NotesFinite DEF TypeOK
      <3>2. n \in Missed(e)
        BY <1>1, <2>2, <3>1 DEF Due, Missed
      <3>3. ~(Cardinality(Sooner) < ReplayLimit)
        BY <1>2, <3>2
      <3>4. Sooner \in SUBSET Ahead(e, n)' /\ Ahead(e, n)' \in SUBSET Notes
        BY <1>1, <2>2, NotesFinite, <3>1 DEF Ahead, Missed
      <3> HIDE DEF Sooner
      <3>5. IsFiniteSet(Ahead(e, n)') /\ IsFiniteSet(Sooner)
        BY <3>4, NotesFinite, FS_Subset
      <3>6. /\ Cardinality(Sooner) <= Cardinality(Ahead(e, n)')
            /\ Cardinality(Sooner) \in Nat /\ Cardinality(Ahead(e, n)') \in Nat
        BY <3>4, <3>5, FS_Subset, FS_CardinalityType
      <3>7. ReplayLimit \in Nat
        BY DeliveryAssumption
      <3>8. QED
        BY <3>3, <3>6, <3>7
    <2>7. QED
      BY <2>3, <2>4, <2>5, <2>6 DEF PairOK
  <1>6. QED
    BY <1>1, <1>2, <1>3, <1>4, <1>5, StreamStep

LEMMA QueryFailsKeeps ==
  ASSUME IInv, NEW e \in Emitters, QueryFails(e)
  PROVE  IInv'
  <1>1. /\ TypeOK /\ StreamOK(e) /\ phase[e] = "query"
        /\ UNCHANGED <<rows, push, user, lastId, replay, written, read, before, crashes>>
    BY Invariants DEF QueryFails
  <1>2. /\ phase'[e] = "ready" /\ conn'[e] = "closed" /\ e \notin registered'
        /\ \A d \in Emitters \ {e} : /\ phase'[d] = phase[d] /\ conn'[d] = conn[d]
                                     /\ d \in registered' <=> d \in registered
    BY <1>1 DEF TypeOK, QueryFails
  <1>3. TypeOK'
    BY <1>1 DEF TypeOK, QueryFails, rows, push
  <1>4. StreamOK(e)'
    BY <1>1, <1>2 DEF StreamOK
  <1>5. ASSUME NEW n \in Notes PROVE PairOK(e, n)'
    <2>1. PairOK(e, n)
      BY Invariants
    <2>2. tx' = tx /\ to' = to /\ kind' = kind /\ job' = job /\ targets' = targets
      BY <1>1 DEF rows, push
    <2>3. Told(e, n)' /\ Counted(e, n)'
      BY <1>1, <2>1, <2>2 DEF PairOK, Told, Counted, PushAhead, ReplayAhead
    <2>4. Pushed(e, n)' /\ Replayed(e, n)'
      BY <1>2 DEF Pushed, Replayed, Due
    <2>5. QED
      BY <2>3, <2>4 DEF PairOK
  <1>6. QED
    BY <1>1, <1>2, <1>3, <1>4, <1>5, StreamStep

LEMMA ConnectReturnsKeeps ==
  ASSUME IInv, NEW e \in Emitters, ConnectReturns(e)
  PROVE  IInv'
  <1>1. /\ TypeOK /\ StreamOK(e) /\ phase[e] = "replay" /\ replay[e] = {}
        /\ UNCHANGED <<rows, push, registered, user, conn, lastId, replay, written, read,
                       before, crashes>>
    BY Invariants DEF ConnectReturns
  <1>2. phase'[e] = "ready" /\ \A d \in Emitters \ {e} : phase'[d] = phase[d]
    BY <1>1 DEF TypeOK, ConnectReturns
  <1>3. TypeOK'
    BY <1>1 DEF TypeOK, ConnectReturns, rows, push
  <1>4. StreamOK(e)'
    BY <1>1, <1>2 DEF StreamOK
  <1>5. QED
    BY <1>1, <1>2, <1>3, <1>4, StreamEnds

LEMMA ReadKeeps ==
  ASSUME IInv, NEW e \in Emitters, Read(e)
  PROVE  IInv'
  <1>1. /\ TypeOK /\ StreamOK(e) /\ read[e] < Len(written[e]) /\ conn[e] = "open"
        /\ UNCHANGED <<rows, push, registered, user, conn, phase, lastId, replay, written,
                       before, crashes>>
    BY Invariants DEF Read
  <1>2. read[e] \in Nat /\ read'[e] = read[e] + 1 /\ \A d \in Emitters \ {e} : read'[d] = read[d]
    BY <1>1 DEF TypeOK, Read
  <1>3. TypeOK'
    <2>1. read' \in [Emitters -> Nat]
      <3>1. read \in [Emitters -> Nat] /\ read' = [read EXCEPT ![e] = @ + 1]
        BY <1>1 DEF TypeOK, Read
      <3>2. QED
        BY <1>2, <3>1
    <2>2. QED
      BY <1>1, <2>1 DEF TypeOK, rows, push
  <1>4. StreamOK(e)'
    <2>1. Len(written[e]) \in Nat
      BY <1>1 DEF TypeOK
    <2>2. read'[e] <= Len(written'[e])
      BY <1>1, <1>2, <2>1
    <2>3. QED
      BY <1>1, <2>2 DEF StreamOK
  <1>5. QED
    BY <1>1, <1>2, <1>3, <1>4, StreamEnds

\* Leave, Heartbeat: only the state of the connection changes.
LEMMA ConnKeeps ==
  ASSUME IInv, NEW e \in Emitters, Leave(e) \/ Heartbeat(e)
  PROVE  IInv'
  <1>1. /\ TypeOK /\ StreamOK(e)
        /\ UNCHANGED <<rows, push, registered, user, phase, lastId, replay, written, read,
                       before, crashes>>
    BY Invariants DEF Leave, Heartbeat
  <1>2. /\ conn[e] \in {"open", "gone"} /\ conn'[e] \in {"gone", "failed"}
        /\ \A d \in Emitters \ {e} : conn'[d] = conn[d]
        /\ conn' \in [Emitters -> {"unused", "open", "gone", "failed", "closed"}]
    <2>1. conn \in [Emitters -> {"unused", "open", "gone", "failed", "closed"}]
      BY <1>1 DEF TypeOK
    <2>2. CASE Leave(e)
      BY <2>1, <2>2 DEF Leave
    <2>3. CASE Heartbeat(e)
      BY <2>1, <2>3 DEF Heartbeat
    <2>4. QED
      BY <2>2, <2>3
  <1>3. TypeOK'
    BY <1>1, <1>2 DEF TypeOK, rows, push
  <1>4. StreamOK(e)'
    BY <1>1, <1>2 DEF StreamOK
  <1>5. QED
    BY <1>1, <1>2, <1>3, <1>4, StreamEnds

LEMMA ClosesKeeps ==
  ASSUME IInv, NEW e \in Emitters, Callback(e) \/ Timeout(e)
  PROVE  IInv'
  <1>1. /\ TypeOK /\ StreamOK(e) /\ conn[e] # "unused" /\ Closes(e)
        /\ UNCHANGED <<rows, push, user, phase, lastId, replay, written, read, before, crashes>>
    BY Invariants DEF Callback, Timeout, Closes
  <1>2. /\ conn'[e] = "closed" /\ e \notin registered' /\ registered' \subseteq Emitters
        /\ \A d \in Emitters \ {e} : conn'[d] = conn[d] /\ (d \in registered' <=> d \in registered)
        /\ conn' \in [Emitters -> {"unused", "open", "gone", "failed", "closed"}]
    BY <1>1 DEF TypeOK, Closes
  <1>3. TypeOK'
    BY <1>1, <1>2 DEF TypeOK, rows, push
  <1>4. StreamOK(e)'
    BY <1>1, <1>2 DEF StreamOK
  <1>5. QED
    BY <1>1, <1>2, <1>3, <1>4, StreamEnds

-----------------------------------------------------------------------------
(* A restart.                                                               *)

LEMMA CrashKeeps ==
  ASSUME IInv, Crash
  PROVE  IInv'
  <1>1. /\ TypeOK /\ queue' = <<>> /\ poolSize' = 0 /\ registered' = {}
        /\ UNCHANGED <<kind, to, user, lastId, written, read, before>>
        /\ crashes \in 0..MaxCrashes /\ crashes < MaxCrashes /\ crashes' = crashes + 1
    BY Invariants DEF Crash, TypeOK
  <1>2. ASSUME NEW n \in Notes
        PROVE  /\ tx'[n] = IF tx[n] = "open" THEN "rolledBack" ELSE tx[n]
               /\ job'[n] = IF job[n] \in {"queued", "running", "sending"}
                               \/ (tx[n] # "none" /\ job[n] = "none")
                            THEN "lost" ELSE job[n]
               /\ targets'[n] = {}
    BY DEF Crash
  <1>3. ASSUME NEW e \in Emitters
        PROVE  /\ conn'[e] = IF conn[e] = "unused" THEN "unused" ELSE "closed"
               /\ phase'[e] = IF conn[e] = "unused" THEN "none" ELSE "ready"
               /\ replay'[e] = {}
    BY DEF Crash
  <1>4. TypeOK'
    <2>1. tx' \in [Notes -> {"none", "open", "committed", "rolledBack", "deleted"}]
      BY <1>1 DEF Crash, TypeOK
    <2>2. /\ job' \in [Notes -> {"none", "queued", "running", "sending", "done", "rejected", "lost"}]
          /\ targets' \in [Notes -> SUBSET Emitters]
      BY <1>1 DEF Crash, TypeOK
    <2>3. /\ conn' \in [Emitters -> {"unused", "open", "gone", "failed", "closed"}]
          /\ phase' \in [Emitters -> {"none", "query", "replay", "ready"}]
          /\ replay' \in [Emitters -> SUBSET Notes]
      BY <1>1 DEF Crash, TypeOK
    <2>4. queue' \in Seq(Notes) /\ Len(queue') <= QueueCapacity
      BY <1>1, DeliveryAssumption
    <2>5. poolSize' \in 0..MaxPool /\ crashes' \in 0..MaxCrashes
      BY <1>1, DeliveryAssumption
    <2>6. registered' \subseteq Emitters
      BY <1>1
    <2>7. QED
      BY <1>1, <2>1, <2>2, <2>3, <2>4, <2>5, <2>6 DEF TypeOK
  <1>5. QueueOK'
    <2>1. Len(queue') = 0
      BY <1>1
    <2>2. QED
      BY <2>1 DEF QueueOK
  <1>6. ASSUME NEW n \in Notes PROVE RowOK(n)'
    <2>1. RowOK(n)
      BY Invariants
    <2>2. QED
      BY <1>1, <1>2, <2>1 DEF RowOK, Public
  <1>7. ASSUME NEW e \in Emitters PROVE StreamOK(e)'
    <2>1. StreamOK(e)
      BY Invariants
    <2>2. QED
      BY <1>1, <1>3, <2>1 DEF StreamOK
  <1>8. ASSUME NEW e \in Emitters, NEW n \in Notes PROVE PairOK(e, n)'
    <2>1. PairOK(e, n) /\ StreamOK(e)
      BY Invariants
    <2>2. Told(e, n)'
      BY <1>1, <1>2, <1>3, <2>1 DEF PairOK, Told, Public
    <2>3. Counted(e, n)'
      <3>1. PushAhead(e, n)' => PushAhead(e, n)
        BY <1>2 DEF PushAhead
      <3>2. CASE lastId[e] = None
        BY <1>1, <2>1, <3>1, <3>2 DEF PairOK, Counted, ReplayAhead
      <3>3. CASE lastId[e] # None
        <4>1. ~ReplayAhead(e, n)'
          BY <1>1, <1>3, <3>3 DEF ReplayAhead
        <4>2. QED
          BY <1>1, <2>1, <3>1, <4>1 DEF PairOK, Counted
      <3>4. QED
        BY <3>2, <3>3
    <2>4. Pushed(e, n)' /\ Replayed(e, n)'
      BY <1>3 DEF Pushed, Replayed, Due
    <2>5. QED
      BY <2>2, <2>3, <2>4 DEF PairOK
  <1>9. QED
    BY <1>4, <1>5, <1>6, <1>7, <1>8 DEF IInv

-----------------------------------------------------------------------------

LEMMA Starts ==
  ASSUME Init
  PROVE  IInv
  <1>1. TypeOK
    <2>1. queue \in Seq(Notes) /\ Len(queue) = 0
      BY DEF Init
    <2>2. QED
      BY <2>1, DeliveryAssumption DEF Init, TypeOK
  <1>2. QueueOK
    <2>1. Len(queue) = 0
      BY DEF Init
    <2>2. QED
      BY <2>1 DEF QueueOK
  <1>3. ASSUME NEW n \in Notes PROVE RowOK(n)
    BY DEF Init, RowOK
  <1>4. ASSUME NEW e \in Emitters PROVE StreamOK(e)
    <2>1. written[e] = <<>> /\ Len(written[e]) = 0
      BY DEF Init
    <2>2. QED
      BY <2>1 DEF Init, StreamOK
  <1>5. ASSUME NEW e \in Emitters, NEW n \in Notes PROVE PairOK(e, n)
    <2>1. written[e] = <<>> /\ Ids(written[e]) = {} /\ Copies(written[e], n) = 0
      BY EmptyFacts DEF Init
    <2>2. QED
      BY <2>1 DEF Init, PairOK, Told, Counted, Pushed, Replayed, Due
  <1>6. QED
    BY <1>1, <1>2, <1>3, <1>4, <1>5 DEF IInv

LEMMA Steps ==
  ASSUME IInv, [Next]_vars
  PROVE  IInv'
  <1>1. CASE Publish
    BY <1>1, InsertKeeps, DmSendKeeps, CommitKeeps, RollbackKeeps, DeleteKeeps DEF Publish
  <1>2. CASE Pool
    BY <1>2, TakeKeeps, RetireKeeps, AfterCommitKeeps, LookUpKeeps, SendKeeps DEF Pool, PushStep
  <1>3. ASSUME NEW e \in Emitters, Stream(e) PROVE IInv'
    <2>1. ASSUME NEW u \in Users, FirstConnect(e, u) PROVE IInv'
      BY <2>1, ConnectKeeps DEF FirstConnect
    <2>2. ASSUME NEW old \in Emitters, Reconnect(e, old) PROVE IInv'
      BY <2>2, ReconnectKeeps
    <2>3. CASE ConnectStep(e)
      BY <2>3, QueryKeeps, QueryFailsKeeps, ReplayKeeps, ConnectReturnsKeeps DEF ConnectStep
    <2>4. QED
      BY <1>3, <2>1, <2>2, <2>3, ReadKeeps, ConnKeeps, ClosesKeeps DEF Stream
  <1>4. CASE Crash
    BY <1>4, CrashKeeps
  <1>5. CASE UNCHANGED vars
    <2>1. poolSize \in 0..MaxPool
      BY Invariants DEF TypeOK
    <2>2. QED
      BY <1>5, <2>1, SameAll DEF vars, rows, streams
  <1>6. QED
    BY <1>1, <1>2, <1>3, <1>4, <1>5 DEF Next

\* Everything the proofs know of rows, pushes, the pool and streams holds in
\* every reachable state, through restarts.
THEOREM Inductive == Spec => []IInv
  <1>1. Init => IInv
    BY Starts
  <1>2. IInv /\ [Next]_vars => IInv'
    BY Steps
  <1>3. QED
    BY <1>1, <1>2, PTL DEF Spec

\* What a client is told through an event is never rolled back afterwards, and a
\* stream carries a row at most twice: once by the push and once by the replay.
THEOREM DeliveryIsSound == Spec => []DeliveryInv
  <1>1. IInv => DeliveryInv
    <2> SUFFICES ASSUME IInv PROVE DeliveryInv
      OBVIOUS
    <2>1. SentAfterCommit
      <3> SUFFICES ASSUME NEW e \in Emitters, NEW n \in Ids(written[e]), kind[n] = "event"
                   PROVE  tx[n] \in Public
        BY DEF SentAfterCommit, Public
      <3>1. n \in Notes
        BY Invariants DEF Ids
      <3>2. Told(e, n)
        BY <3>1, Invariants DEF PairOK
      <3>3. QED
        BY <3>2 DEF Told
    <2>2. FewCopies
      <3> SUFFICES ASSUME NEW e \in Emitters, NEW n \in Notes
                   PROVE  Copies(written[e], n) <= IF lastId[e] = None THEN 1 ELSE 2
        BY DEF FewCopies, Copies
      <3>1. Counted(e, n)
        BY Invariants DEF PairOK
      <3>2. QED
        BY <3>1 DEF Counted, ReplayAhead
    <2>3. QED
      BY <2>1, <2>2, Invariants DEF DeliveryInv
  <1>2. QED
    BY <1>1, Inductive, PTL

\* Whatever the order of inserts, commits, lookups and registrations, an open
\* stream has a row of its receiver from the replay if it was committed before
\* the stream was registered and fits the page, and from the push if it is an
\* event that was committed later.
THEOREM ReplayMeetsPush == Spec => []NoGap
  <1>1. IInv => NoGap
    <2> SUFFICES ASSUME IInv, NEW e \in Emitters, NEW n \in Notes,
                        Established(e), tx[n] = "committed", to[n] = user[e]
                 PROVE  /\ n \notin before[e] /\ kind[n] = "event" /\ job[n] = "done" =>
                               n \in Ids(written[e])
                        /\ n \in before[e] /\ lastId[e] # None =>
                               \/ n <= lastId[e]
                               \/ Cardinality(Ahead(e, n)) >= ReplayLimit
                               \/ n \in Ids(written[e])
      BY DEF NoGap
    <2>1. Pushed(e, n) /\ Replayed(e, n) /\ StreamOK(e)
      BY Invariants DEF PairOK
    <2>2. QED
      BY <2>1 DEF Pushed, Replayed, StreamOK, Due, Established
  <1>2. QED
    BY <1>1, Inductive, PTL
=============================================================================
