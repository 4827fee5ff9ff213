---------------------- MODULE FirestoreWritesPipeline ----------------------
(***************************************************************************)
(* What FirestoreWrites keeps, for every set of users, every number of     *)
(* writes, changes of user, faults and restarts, and every pipeline: its   *)
(* safety invariants, and that it implements DocumentStore.                *)
(***************************************************************************)
EXTENDS FirestoreWrites, FiniteSetTheorems, SequenceTheorems, TLAPS

USE FirestoreWritesAssumption

-----------------------------------------------------------------------------
(* The inductive invariant.                                                *)

\* The first n items of queue s make u of the user who was there before.
UserAfter(s, n, before, u) ==
    \/ u = before /\ \A i \in 1 .. n : s[i].kind # "change"
    \/ \E i \in 1 .. n :
          /\ s[i].kind = "change" /\ s[i].user = u
          /\ \A j \in i + 1 .. n : s[j].kind # "change"

\* The news of users is passed on in order: the provider is to become Auth's
\* user, and the worker the provider's.
NewsInOrder ==
    /\ UserAfter(main, Len(main), provider.user, authUser)
    /\ UserAfter(worker, Len(worker), currentUser, provider.user)

\* What waits on the worker queue is run for the user it belongs to.
TasksOfUser ==
    \A j \in 1 .. Len(worker) :
        /\ worker[j].kind = "write" =>
              UserAfter(worker, j - 1, currentUser, worker[j].write.by)
        /\ worker[j].kind = "resume" =>
              UserAfter(worker, j - 1, currentUser, worker[j].user)

\* A token that the provider will take is one of the provider's user.
TokensOfUser ==
    /\ \A k \in 1 .. Len(main) :
          main[k].kind = "token" =>
            /\ main[k].counter <= provider.counter
            /\ (/\ main[k].counter = provider.counter
                /\ \A i \in 1 .. k - 1 : main[i].kind # "change")
                  => main[k].user = provider.user
    /\ \A t \in tokens :
          /\ t.counter <= provider.counter
          /\ (/\ t.stage = "fetching" /\ t.counter = provider.counter
              /\ \A i \in 1 .. Len(main) : main[i].kind # "change")
                => t.user = provider.user

\* The answers that the stream waits for, wherever they are.
WantedItem(k) == main[k].kind = "token" /\ main[k].closes = stream.closes
WantedTask(j) == worker[j].kind = "resume" /\ worker[j].closes = stream.closes
WantedToken(t) == t.closes = stream.closes

\* There is no answer of a stream to come, and none waits for more than one.
OneIsWanted ==
    /\ \A t \in tokens :
          /\ t.closes <= stream.closes
          /\ WantedToken(t) =>
                /\ stream.state = "Starting"
                /\ \A v \in tokens : WantedToken(v) => v = t
                /\ \A k \in 1 .. Len(main) : ~ WantedItem(k)
                /\ \A j \in 1 .. Len(worker) : ~ WantedTask(j)
    /\ \A k \in 1 .. Len(main) : main[k].kind = "token" =>
          /\ main[k].closes <= stream.closes
          /\ WantedItem(k) =>
                /\ stream.state = "Starting"
                /\ \A i \in 1 .. Len(main) : WantedItem(i) => i = k
                /\ \A j \in 1 .. Len(worker) : ~ WantedTask(j)
    /\ \A j \in 1 .. Len(worker) : worker[j].kind = "resume" =>
          /\ worker[j].closes <= stream.closes
          /\ WantedTask(j) =>
                /\ stream.state = "Starting"
                /\ \A i \in 1 .. Len(worker) : WantedTask(i) => i = j

\* The ids of a queue ascend, and the next one is past all of them.
Ascending(q) == \A i, j \in 1 .. Len(q) : i < j => q[i].id < q[j].id
IdsAscend ==
    /\ \A u \in User : Ascending(queue[u])
    /\ \A u \in User : \A i \in 1 .. Len(queue[u]) : queue[u][i].id < nextBatchId

\* Batches p are those of queue q after its first n.
PartOf(p, n, q) ==
    /\ n + Len(p) <= Len(q)
    /\ \A i \in 1 .. Len(p) : p[i] = q[n + i]

\* The pipeline is the head of the queue.
PipelineIsHead ==
    /\ PartOf(pipeline, 0, queue[currentUser])
    /\ Len(pipeline) <= MaxPendingWrites

\* A stream with its handshake done has the connection, and only such a stream
\* is idle.
StreamHasWire ==
    /\ stream.handshake => stream.state = "Open"
    /\ wire.open = stream.handshake
    /\ wire.open => wire.user = currentUser
    /\ stream.idle => stream.handshake /\ pipeline = << >>

\* What was sent and not answered, and the answers that are not read, are the
\* first n writes of queue q.
Carries(acks, sent, q, n) ==
    /\ Len(acks) + Len(sent) = n
    /\ n <= Len(q)
    /\ \A i \in 1 .. Len(acks) : acks[i] = q[i].write
    /\ \A i \in 1 .. Len(sent) : sent[i] = q[Len(acks) + i].write

\* A connection, one that is given up too, carries the head of its user's queue,
\* and an open one just the pipeline.
WireIsHead ==
    /\ \E n \in Nat : Carries(wire.acks, wire.sent, queue[wire.user], n)
    /\ wire.open => Carries(wire.acks, wire.sent, queue[wire.user], Len(pipeline))
    /\ wire.refused => wire.sent # << >>

\* Writes wait and are queued in the order in which they were numbered.
WritesNumbered ==
    /\ \A v \in added : v.no <= issued
    /\ \A j \in 1 .. Len(worker) : worker[j].kind = "write" =>
          /\ worker[j].write.no <= issued
          /\ \A v \in added : v.no < worker[j].write.no
          /\ \A i \in 1 .. j - 1 :
                worker[i].kind = "write" => worker[i].write.no < worker[j].write.no

CallbacksOfUsers == callbacks = [u \in User |-> callbacks[u]]

IInv ==
    /\ TypeOK /\ CallbacksOfUsers
    /\ NewsInOrder /\ TasksOfUser /\ TokensOfUser /\ OneIsWanted
    /\ IdsAscend /\ PipelineIsHead /\ StreamHasWire /\ WireIsHead
    /\ WritesNumbered
    /\ StreamOfUser /\ CallbackOfItsWrite

-----------------------------------------------------------------------------
(* Lemmas about the operators.                                             *)

\* A bounded set of numbers has a greatest one: it is as many steps from 0 as
\* there are numbers below some member.
LEMMA Greatest ==
    ASSUME NEW S \in SUBSET Nat, S # {}, NEW n \in Nat, \A s \in S : s < n
    PROVE  \E m \in S : \A s \in S : s <= m
<1> DEFINE D == {d \in 0 .. n : \E s \in S : d <= s}
<1> DEFINE c == Cardinality(D)
<1>1. IsFiniteSet(0 .. n) /\ Cardinality(0 .. n) = n + 1
  BY FS_Interval
<1>2. D \in SUBSET (0 .. n)
  OBVIOUS
<1>3. IsFiniteSet(D) /\ c \in Nat /\ c <= n + 1
  BY <1>1, <1>2, FS_Subset, FS_CardinalityType, Zenon
<1>4. PICK e \in S : TRUE
  OBVIOUS
<1>5. 0 \in D
  BY <1>4
<1>6. c # 0
  BY <1>3, <1>5, FS_EmptySet, Zenon
<1>7. \A s \in S : s \in D
  OBVIOUS
<1>8. \A d \in D, m \in 0 .. n : m <= d => m \in D
  OBVIOUS
<1>9. \A d \in D : \E s \in S : d <= s
  OBVIOUS
<1> HIDE DEF D, c
<1>10. CASE c - 1 \in D
  <2>1. 0 .. c - 1 \in SUBSET D
    BY <1>2, <1>3, <1>8, <1>10
  <2>2. Cardinality(0 .. c - 1) = c
    BY <1>3, <1>6, FS_Interval
  <2>3. 0 .. c - 1 = D
    BY <1>3, <2>1, <2>2, FS_Subset, Zenon DEF c
  <2>4. PICK m \in S : c - 1 <= m
    BY <1>9, <1>10
  <2> QED
    BY <1>3, <1>7, <2>3, <2>4
<1>11. CASE c - 1 \notin D
  <2>1. D \in SUBSET (0 .. c - 2)
    <3>1. SUFFICES ASSUME NEW d \in D, d > c - 2
                   PROVE  FALSE
      BY <1>2, <1>3
    <3>2. c - 1 <= d /\ c - 1 \in 0 .. n
      BY <1>2, <1>3, <1>6, <3>1
    <3> QED
      BY <1>8, <1>11, <3>2
  <2>2. c - 2 \in Int /\ (IF 0 > c - 2 THEN 0 ELSE c - 2 - 0 + 1) = c - 1
    BY <1>3, <1>6
  <2>3. IsFiniteSet(0 .. c - 2) /\ Cardinality(0 .. c - 2) = c - 1
    BY <2>2, FS_Interval
  <2>4. c <= c - 1
    BY <2>1, <2>3, FS_Subset DEF c
  <2> QED
    BY <1>3, <2>4
<1> QED
  BY <1>10, <1>11

\* What is in a sequence.
LEMMA Elements ==
    ASSUME NEW S, NEW s \in Seq(S)
    PROVE  /\ Len(s) \in Nat
           /\ DOMAIN s = 1 .. Len(s)
           /\ \A i \in 1 .. Len(s) : s[i] \in S
  OBVIOUS

\* A sequence of two parts.
LEMMA Parts ==
    ASSUME NEW S, NEW s \in Seq(S), NEW t \in Seq(S)
    PROVE  /\ s \o t \in Seq(S)
           /\ Len(s) \in Nat /\ Len(t) \in Nat
           /\ Len(s \o t) = Len(s) + Len(t)
           /\ s # << >> => s \o t # << >>
           /\ \A i \in 1 .. Len(s) + Len(t) :
                 /\ i <= Len(s) => i \in 1 .. Len(s) /\ (s \o t)[i] = s[i]
                 /\ i > Len(s) => i - Len(s) \in 1 .. Len(t) /\ (s \o t)[i] = t[i - Len(s)]
  OBVIOUS

\* What is in a batch.
LEMMA BatchParts ==
    ASSUME NEW b \in Batch
    PROVE  b.id \in Nat \ {0} /\ b.write \in Write
  BY DEF Batch

\* The batches of the queues.
LEMMA QueueOfBatches ==
    ASSUME TypeOK, NEW u \in User
    PROVE  /\ queue[u] \in Seq(Batch)
           /\ Len(queue[u]) \in Nat
           /\ DOMAIN queue[u] = 1 .. Len(queue[u])
           /\ \A i \in 1 .. Len(queue[u]) :
                 /\ queue[u][i] \in Batch
                 /\ queue[u][i].id \in Nat \ {0}
                 /\ queue[u][i].write \in Write
<1>1. queue[u] \in Seq(Batch)
  BY DEF TypeOK
<1> QED
  BY <1>1, BatchParts, Elements

\* The id that LoadNextBatchIdFromDb finds is past every id in use, and none
\* past those that were given out.
LEMMA NextIdIsFree ==
    ASSUME TypeOK, IdsAscend
    PROVE  /\ LoadNextBatchIdFromDb \in Nat \ {0}
           /\ \A u \in User : \A i \in 1 .. Len(queue[u]) :
                 queue[u][i].id < LoadNextBatchIdFromDb
<1> DEFINE P(n) == n \in {1} \cup { i + 1 : i \in BatchIds } /\ \A i \in BatchIds : i < n
<1>1. \A n : n \in BatchIds <=>
            \E u \in User : \E i \in 1 .. Len(queue[u]) : n = queue[u][i].id
  BY QueueOfBatches DEF BatchIds
<1>2. /\ BatchIds \in SUBSET (Nat \ {0})
      /\ \A n \in BatchIds : n < nextBatchId
  BY <1>1, QueueOfBatches DEF IdsAscend
<1>3. nextBatchId \in Nat
  BY DEF TypeOK
<1>4. \E n : P(n)
  <2>1. CASE BatchIds = {}
    BY <2>1
  <2>2. CASE BatchIds # {}
    <3>1. PICK m \in BatchIds : \A i \in BatchIds : i <= m
      BY <1>2, <1>3, <2>2, Greatest
    <3>2. P(m + 1)
      BY <1>2, <3>1
    <3> QED
      BY <3>2
  <2> QED
    BY <2>1, <2>2
<1>5. P(LoadNextBatchIdFromDb)
  BY <1>4 DEF LoadNextBatchIdFromDb
<1>6. LoadNextBatchIdFromDb \in Nat \ {0}
  <2>1. \A n \in BatchIds : n + 1 \in Nat \ {0}
    BY <1>2
  <2> QED
    BY <1>5, <2>1
<1>7. \A u \in User : \A i \in 1 .. Len(queue[u]) : queue[u][i].id \in BatchIds
  BY <1>1
<1> QED
  BY <1>5, <1>6, <1>7

\* How a user follows from a queue of news when the queue moves.
LEMMA UserAppend ==
    ASSUME NEW S, NEW s \in Seq(S), NEW x \in S, NEW n \in 0 .. Len(s), NEW b, NEW u,
           UserAfter(s, n, b, u)
    PROVE  UserAfter(Append(s, x), n, b, u)
  BY DEF UserAfter

LEMMA UserAppendOther ==
    ASSUME NEW S, NEW s \in Seq(S), NEW x \in S, NEW b, NEW u,
           UserAfter(s, Len(s), b, u), x.kind # "change"
    PROVE  UserAfter(Append(s, x), Len(Append(s, x)), b, u)
  BY DEF UserAfter

LEMMA UserAppendChange ==
    ASSUME NEW S, NEW s \in Seq(S), NEW x \in S, NEW b, x.kind = "change"
    PROVE  UserAfter(Append(s, x), Len(Append(s, x)), b, x.user)
  BY DEF UserAfter

LEMMA UserTail ==
    ASSUME NEW S, NEW s \in Seq(S), s # << >>, NEW n \in 1 .. Len(s), NEW b, NEW u,
           UserAfter(s, n, b, u)
    PROVE  /\ Head(s).kind = "change" => UserAfter(Tail(s), n - 1, Head(s).user, u)
           /\ Head(s).kind # "change" => UserAfter(Tail(s), n - 1, b, u)
<1>1. /\ Len(Tail(s)) = Len(s) - 1
      /\ \A i \in 1 .. Len(s) - 1 : Tail(s)[i] = s[i + 1]
      /\ Head(s) = s[1]
  OBVIOUS
<1> DEFINE before == IF s[1].kind = "change" THEN s[1].user ELSE b
<1>2. CASE \A i \in 1 .. n : s[i].kind # "change"
  BY <1>1, <1>2 DEF UserAfter
<1>3. CASE \E i \in 1 .. n : s[i].kind = "change"
  <2>1. PICK i \in 1 .. n : /\ s[i].kind = "change" /\ s[i].user = u
                            /\ \A j \in i + 1 .. n : s[j].kind # "change"
    BY <1>3 DEF UserAfter
  <2>2. CASE i = 1
    <3>1. \A j \in 1 .. n - 1 : Tail(s)[j].kind # "change"
      BY <1>1, <2>1, <2>2
    <3> QED
      BY <1>1, <2>1, <2>2, <3>1 DEF UserAfter
  <2>3. CASE i # 1
    <3>1. i - 1 \in 1 .. n - 1 /\ Tail(s)[i - 1] = s[i]
      BY <1>1, <2>3
    <3>2. \A j \in (i - 1) + 1 .. n - 1 : Tail(s)[j].kind # "change"
      BY <1>1, <2>1, <2>3
    <3> QED
      BY <2>1, <3>1, <3>2 DEF UserAfter
  <2> QED
    BY <2>2, <2>3
<1> QED
  BY <1>2, <1>3

\* The writes of some batches.
LEMMA WritesOfBatches ==
    ASSUME NEW s \in Seq(Batch)
    PROVE  /\ Writes(s) \in Seq(Write)
           /\ Len(Writes(s)) = Len(s)
           /\ \A i \in 1 .. Len(s) : Writes(s)[i] = s[i].write
<1>1. \A i \in 1 .. Len(s) : s[i].write \in Write
  BY Elements, BatchParts
<1> QED
  BY <1>1, Elements DEF Writes

\* From an ascending queue of which it holds the head, the pipeline is given the
\* batches that follow, as many as there are and there is room for.
LEMMA NextBatchesFollow ==
    ASSUME NEW q \in Seq(Batch), NEW p \in Seq(Batch),
           Ascending(q), PartOf(p, 0, q), Len(p) <= MaxPendingWrites
    PROVE  LET fresh == NextBatches(p, q)
           IN  /\ fresh \in Seq(Batch)
               /\ PartOf(fresh, Len(p), q)
               /\ Len(p) + Len(fresh) <= MaxPendingWrites
               /\ (Len(p) < Len(q) /\ Len(p) < MaxPendingWrites) => fresh # << >>
<1> DEFINE Past(i) == /\ \A j \in 1 .. i - 1 : q[j].id <= LastId(p)
                      /\ i <= Len(q) => q[i].id > LastId(p)
<1> DEFINE start == CHOOSE i \in 1 .. Len(q) + 1 : Past(i)
<1> DEFINE room == MaxPendingWrites - Len(p)
<1> DEFINE end == IF start + room <= Len(q) THEN start + room - 1 ELSE Len(q)
<1>1. /\ Len(p) \in Nat /\ Len(q) \in Nat /\ Len(p) <= Len(q)
      /\ \A i \in 1 .. Len(q) : q[i] \in Batch /\ q[i].id \in Nat \ {0}
      /\ \A i, j \in 1 .. Len(q) : i < j => q[i].id < q[j].id
      /\ \A i \in 1 .. Len(p) : p[i] = q[i]
  <2>1. /\ Len(p) \in Nat /\ Len(q) \in Nat
        /\ \A i \in 1 .. Len(q) : q[i] \in Batch /\ q[i].id \in Nat \ {0}
    BY Elements, BatchParts
  <2>2. \A i \in 1 .. Len(p) : p[i] = q[0 + i]
    BY DEF PartOf
  <2>3. \A i \in 1 .. Len(p) : 0 + i = i
    BY <2>1
  <2>4. 0 + Len(p) <= Len(q)
    BY DEF PartOf
  <2> QED
    BY <2>1, <2>2, <2>3, <2>4 DEF Ascending
<1>2. Past(Len(p) + 1)
  <2>1. CASE p = << >>
    BY <1>1, <2>1 DEF LastId
  <2>2. CASE p # << >>
    <3>1. LastId(p) = q[Len(p)].id /\ Len(p) \in 1 .. Len(q)
      BY <1>1, <2>2 DEF LastId
    <3> QED
      BY <1>1, <3>1
  <2> QED
    BY <2>1, <2>2
<1>3. \A i \in 1 .. Len(q) + 1 : Past(i) => i = Len(p) + 1
  <2>1. SUFFICES ASSUME NEW i \in 1 .. Len(q) + 1, Past(i), i # Len(p) + 1
                 PROVE  FALSE
    OBVIOUS
  <2>2. CASE i < Len(p) + 1
    <3>1. i \in 1 .. (Len(p) + 1) - 1 /\ i \in 1 .. Len(q)
      BY <1>1, <2>1, <2>2
    <3>2. q[i].id <= LastId(p) /\ q[i].id > LastId(p)
      BY <1>2, <2>1, <3>1
    <3>3. LastId(p) \in Nat
      BY <1>1 DEF LastId
    <3> QED
      BY <1>1, <3>1, <3>2, <3>3
  <2>3. CASE i > Len(p) + 1
    <3>1. Len(p) + 1 \in 1 .. i - 1 /\ Len(p) + 1 \in 1 .. Len(q)
      BY <1>1, <2>1, <2>3
    <3>2. q[Len(p) + 1].id <= LastId(p) /\ q[Len(p) + 1].id > LastId(p)
      BY <1>2, <2>1, <3>1
    <3>3. LastId(p) \in Nat
      BY <1>1 DEF LastId
    <3> QED
      BY <1>1, <3>1, <3>2, <3>3
  <2> QED
    BY <1>1, <2>1, <2>2, <2>3
<1>4. Len(p) + 1 \in 1 .. Len(q) + 1
  BY <1>1
<1> HIDE DEF Past
<1>5. start = Len(p) + 1
  BY <1>2, <1>3, <1>4
<1>6. NextBatches(p, q) = SubSeq(q, start, end)
  BY DEF NextBatches, Past
<1> HIDE DEF start
<1>7. /\ end \in Nat /\ end <= Len(q) /\ end <= MaxPendingWrites /\ end >= Len(p)
      /\ (Len(p) < Len(q) /\ Len(p) < MaxPendingWrites) => end > Len(p)
  BY <1>1, <1>5
<1> HIDE DEF end
<1> DEFINE fresh == SubSeq(q, Len(p) + 1, end)
<1>8. \A i \in Len(p) + 1 .. end : q[i] \in Batch
  BY <1>1, <1>7
<1>9. fresh \in Seq(Batch) /\ Len(fresh) = end - Len(p)
  BY <1>1, <1>7, <1>8, SubSeqProperties
<1>10. \A i \in 1 .. end - Len(p) : fresh[i] = q[Len(p) + i]
  BY <1>1, <1>7
<1>11. NextBatches(p, q) = fresh
  BY <1>5, <1>6
<1> HIDE DEF fresh
<1> QED
  <2>1. Len(p) + Len(fresh) <= Len(q) /\ Len(p) + Len(fresh) <= MaxPendingWrites
    BY <1>1, <1>7, <1>9
  <2>2. (Len(p) < Len(q) /\ Len(p) < MaxPendingWrites) => fresh # << >>
    BY <1>1, <1>7, <1>9
  <2>3. PartOf(fresh, Len(p), q)
    BY <1>9, <1>10, <2>1 DEF PartOf
  <2> QED
    BY <1>9, <1>11, <2>1, <2>2, <2>3

\* What the server answers about, the head of the pipeline, is the batch at the
\* head of the queue, and RemoveMutationBatch takes just that one.
LEMMA WithoutHead ==
    ASSUME TypeOK, IdsAscend, PipelineIsHead, pipeline # << >>
    PROVE  /\ WithoutBatch(Head(pipeline)) = Tail(queue[currentUser])
           /\ queue[currentUser] # << >>
           /\ Head(pipeline) = Head(queue[currentUser])
           /\ Head(pipeline) = queue[currentUser][1]
<1> DEFINE q == queue[currentUser]
<1> DEFINE b == Head(pipeline)
<1> DEFINE i == CHOOSE j \in DOMAIN q : q[j].id = b.id
<1>1. pipeline \in Seq(Batch) /\ currentUser \in User
  BY DEF TypeOK
<1>2. /\ q \in Seq(Batch) /\ Len(q) \in Nat /\ DOMAIN q = 1 .. Len(q)
      /\ \A j \in 1 .. Len(q) : q[j].id \in Nat
      /\ \A j, k \in 1 .. Len(q) : j < k => q[j].id < q[k].id
  BY <1>1, QueueOfBatches DEF IdsAscend, Ascending
<1>3. Len(pipeline) \in Nat /\ Len(pipeline) > 0 /\ b = pipeline[1]
  BY <1>1
<1>4. b = q[1] /\ Len(q) > 0
  <2>1. 0 + Len(pipeline) <= Len(q) /\ pipeline[1] = q[0 + 1]
    BY <1>3 DEF PipelineIsHead, PartOf, q
  <2> QED
    BY <1>2, <1>3, <2>1
<1> HIDE DEF q, b
<1>5. \A j \in 1 .. Len(q) : q[j].id = b.id => j = 1
  BY <1>2, <1>4
<1>6. i = 1
  BY <1>2, <1>4, <1>5
<1>7. WithoutBatch(b) = SubSeq(q, 1, i - 1) \o SubSeq(q, i + 1, Len(q))
  BY DEF WithoutBatch, q
<1> HIDE DEF i
<1>8. SubSeq(q, 1, 0) = << >> /\ SubSeq(q, 2, Len(q)) = Tail(q)
  BY <1>2, <1>4
<1>9. << >> \o Tail(q) = Tail(q)
  BY <1>2, <1>4
<1>10. WithoutBatch(b) = Tail(q)
  <2>1. i - 1 = 0 /\ i + 1 = 2
    BY <1>6
  <2> QED
    BY <1>7, <1>8, <1>9, <2>1, Zenon
<1> QED
  BY <1>2, <1>4, <1>10 DEF q, b

\* The batches at the head of a queue and those that follow.
LEMMA PartsOf ==
    ASSUME NEW q \in Seq(Batch), NEW p \in Seq(Batch), NEW fresh \in Seq(Batch),
           PartOf(p, 0, q), PartOf(fresh, Len(p), q)
    PROVE  PartOf(p \o fresh, 0, q)
<1> DEFINE both == p \o fresh
<1>1. /\ Len(p) \in Nat /\ Len(fresh) \in Nat
      /\ Len(both) = Len(p) + Len(fresh)
      /\ \A i \in 1 .. Len(p) + Len(fresh) :
            /\ i <= Len(p) => i \in 1 .. Len(p) /\ both[i] = p[i]
            /\ i > Len(p) => i - Len(p) \in 1 .. Len(fresh) /\ both[i] = fresh[i - Len(p)]
  BY Parts
<1> HIDE DEF both
<1>2. ASSUME NEW i \in 1 .. Len(both)
      PROVE  both[i] = q[0 + i]
  <2>1. CASE i <= Len(p)
    BY <1>1, <2>1 DEF PartOf
  <2>2. CASE i > Len(p)
    <3> DEFINE j == i - Len(p)
    <3>1. j \in 1 .. Len(fresh) /\ both[i] = fresh[j]
      BY <1>1, <2>2
    <3>2. Len(p) + j = 0 + i
      BY <1>1
    <3> HIDE DEF j
    <3> QED
      BY <3>1, <3>2 DEF PartOf
  <2> QED
    BY <1>1, <2>1, <2>2
<1>3. 0 + Len(both) <= Len(q)
  <2>1. Len(p) + Len(fresh) <= Len(q)
    BY DEF PartOf
  <2> QED
    BY <1>1, <2>1
<1> QED
  BY <1>2, <1>3 DEF PartOf, both

\* Sums of lengths.
LEMMA Sums ==
    ASSUME NEW a \in Nat, NEW b \in Nat, NEW c \in Nat, NEW n, a + b = n
    PROVE  /\ a + (b + c) = n + c
           /\ \A i \in Nat : n + (i - b) = a + i
  OBVIOUS

\* A connection that carries a queue's first writes carries more of them when the
\* next batches are sent.
LEMMA SendMore ==
    ASSUME NEW q \in Seq(Batch), NEW n \in Nat, NEW fresh \in Seq(Batch),
           NEW acks \in Seq(Write), NEW sent \in Seq(Write),
           Carries(acks, sent, q, n),
           PartOf(fresh, n, q)
    PROVE  Carries(acks, sent \o Writes(fresh), q, n + Len(fresh))
<1> DEFINE more == Writes(fresh)
<1> DEFINE both == sent \o more
<1>1. more \in Seq(Write) /\ Len(more) = Len(fresh)
  BY WritesOfBatches, Zenon
<1>2. \A i \in 1 .. Len(fresh) : more[i] = fresh[i].write
  BY WritesOfBatches, Zenon
<1> HIDE DEF more
<1>3. /\ Len(acks) \in Nat /\ Len(sent) \in Nat /\ Len(more) \in Nat
      /\ Len(both) = Len(sent) + Len(more)
  BY <1>1, Parts, Elements, Zenon
<1>4. \A i \in 1 .. Len(sent) + Len(more) :
            /\ i <= Len(sent) => i \in 1 .. Len(sent) /\ both[i] = sent[i]
            /\ i > Len(sent) =>
                  i - Len(sent) \in 1 .. Len(more) /\ both[i] = more[i - Len(sent)]
  BY <1>1, Parts
<1> HIDE DEF both
<1>5. Len(acks) + Len(sent) = n /\ n + Len(fresh) <= Len(q)
  BY DEF Carries, PartOf
<1>6. /\ Len(acks) + Len(both) = n + Len(fresh)
      /\ \A i \in Nat : n + (i - Len(sent)) = Len(acks) + i
  <2> DEFINE a == Len(acks)
  <2> DEFINE b == Len(sent)
  <2> DEFINE c == Len(more)
  <2>1. a \in Nat /\ b \in Nat /\ c \in Nat /\ a + b = n
    BY <1>3, <1>5
  <2>2. Len(both) = b + c /\ Len(fresh) = c
    BY <1>1, <1>3
  <2> HIDE DEF a, b, c
  <2>3. /\ a + (b + c) = n + c
        /\ \A i \in Nat : n + (i - b) = a + i
    BY <2>1, Sums
  <2> QED
    BY <2>2, <2>3 DEF a, b, c
<1>7. ASSUME NEW i \in 1 .. Len(both)
      PROVE  both[i] = q[Len(acks) + i].write
  <2>1. CASE i <= Len(sent)
    <3>1. i \in 1 .. Len(sent) /\ both[i] = sent[i]
      BY <1>3, <1>4, <2>1
    <3> QED
      BY <3>1 DEF Carries
  <2>2. CASE i > Len(sent)
    <3> DEFINE j == i - Len(sent)
    <3>1. j \in 1 .. Len(fresh) /\ both[i] = more[j]
      BY <1>1, <1>3, <1>4, <2>2
    <3>2. n + j = Len(acks) + i
      BY <1>6
    <3> HIDE DEF j
    <3>3. fresh[j] = q[n + j] /\ more[j] = fresh[j].write
      BY <1>2, <3>1 DEF PartOf
    <3> QED
      BY <3>1, <3>2, <3>3
  <2> QED
    BY <1>3, <2>1, <2>2
<1>8. Carries(acks, both, q, n + Len(fresh))
  BY <1>5, <1>6, <1>7 DEF Carries
<1> QED
  BY <1>8 DEF both, more

\* FillWritePipeline, when the pipeline was the head of the queue and an open
\* connection carried just the pipeline: so it is again, and a stream is started
\* or idle as it should be.
LEMMA Filling ==
    ASSUME NEW q \in Seq(Batch), NEW p \in Seq(Batch), NEW s \in Stream,
           NEW w \in Connection, NEW t,
           Ascending(q), PartOf(p, 0, q), Len(p) <= MaxPendingWrites,
           s.handshake => s.state = "Open",
           s.idle => s.handshake /\ p = << >>,
           (s.state = "Open" /\ ~ s.handshake) => q # << >>,
           s.handshake => Carries(w.acks, w.sent, q, Len(p)),
           FillWritePipeline(p, q, s, w, t)
    PROVE  /\ pipeline' \in Seq(Batch)
           /\ PartOf(pipeline', 0, q) /\ Len(pipeline') <= MaxPendingWrites
           /\ stream' \in Stream
           /\ stream'.closes = s.closes /\ stream'.user = s.user
           /\ stream'.handshake = s.handshake
           /\ IsStarted(s) => stream'.state = s.state
           /\ ~ IsStarted(s) => stream'.state \in {s.state, "Starting", "Backoff"}
           /\ stream'.idle => stream'.handshake /\ pipeline' = << >>
           /\ \/ tokens' = t
              \/ /\ s.state = "Initial" /\ stream'.state = "Starting"
                 /\ tokens' = t \cup {Ask(s.closes, provider)}
           /\ ~ s.handshake => wire' = w
           /\ wire' \in Connection
           /\ wire'.user = w.user /\ wire'.open = w.open /\ wire'.refused = w.refused
           /\ wire'.acks = w.acks
           /\ w.sent # << >> => wire'.sent # << >>
           /\ s.handshake => Carries(wire'.acks, wire'.sent, q, Len(pipeline'))
<1> DEFINE fresh == NextBatches(p, q)
<1>1. /\ fresh \in Seq(Batch)
      /\ PartOf(fresh, Len(p), q)
      /\ Len(p) + Len(fresh) <= MaxPendingWrites
      /\ (Len(p) < Len(q) /\ Len(p) < MaxPendingWrites) => fresh # << >>
  BY NextBatchesFollow
<1> DEFINE starts == ~ IsStarted(s) /\ p \o fresh # << >>
<1>2. /\ pipeline' = p \o fresh
      /\ stream' = IF starts THEN Start(s)
                   ELSE [s EXCEPT !.idle = IdleAfterFilling(s, p, fresh)]
      /\ tokens' = IF starts /\ s.state = "Initial"
                   THEN t \cup {Ask(s.closes, provider)} ELSE t
      /\ wire' = IF s.state = "Open" /\ s.handshake
                 THEN [w EXCEPT !.sent = @ \o Writes(fresh)] ELSE w
  BY DEF FillWritePipeline
<1> HIDE DEF fresh
<1>3. /\ pipeline' \in Seq(Batch) /\ Len(pipeline') = Len(p) + Len(fresh)
      /\ Len(pipeline') <= MaxPendingWrites
  BY <1>1, <1>2
<1>4. PartOf(pipeline', 0, q)
  BY <1>1, <1>2, PartsOf
<1>5. /\ stream' \in Stream
      /\ stream'.closes = s.closes /\ stream'.user = s.user
      /\ stream'.handshake = s.handshake
      /\ stream'.state = IF ~ starts THEN s.state
                         ELSE IF s.state = "Error" THEN "Backoff" ELSE "Starting"
      /\ stream'.idle = IF starts THEN s.idle ELSE IdleAfterFilling(s, p, fresh)
  BY <1>2 DEF Stream, Started, Start, IdleAfterFilling
<1>6. stream'.idle => stream'.handshake /\ pipeline' = << >>
  <2>1. SUFFICES ASSUME stream'.idle
                 PROVE  s.handshake /\ pipeline' = << >>
    BY <1>5
  <2>2. ~ starts
    BY <1>5, <2>1 DEF IsStarted, Started
  <2>3. s.state = "Open" /\ (fresh # << >> => ~ s.handshake) /\ (s.idle \/ pipeline' = << >>)
    BY <1>2, <1>5, <2>1, <2>2 DEF IdleAfterFilling
  <2>4. CASE s.idle
    BY <1>1, <1>2, <2>3, <2>4
  <2>5. CASE pipeline' = << >>
    <3>1. Len(p) = 0 /\ fresh = << >>
      BY <1>1, <1>3, <2>5
    <3>2. q = << >>
      <4>1. ~ (Len(p) < Len(q) /\ Len(p) < MaxPendingWrites)
        BY <1>1, <3>1
      <4> QED
        BY <3>1, <4>1
    <3> QED
      BY <2>3, <2>5, <3>2
  <2> QED
    BY <2>3, <2>4, <2>5
<1>7. /\ IsStarted(s) => stream'.state = s.state
      /\ ~ IsStarted(s) => stream'.state \in {s.state, "Starting", "Backoff"}
      /\ \/ tokens' = t
         \/ /\ s.state = "Initial" /\ stream'.state = "Starting"
            /\ tokens' = t \cup {Ask(s.closes, provider)}
  BY <1>2, <1>5
<1> DEFINE W == /\ ~ s.handshake => wire' = w
                /\ wire' \in Connection
                /\ wire'.user = w.user /\ wire'.open = w.open /\ wire'.refused = w.refused
                /\ wire'.acks = w.acks
                /\ w.sent # << >> => wire'.sent # << >>
                /\ s.handshake => Carries(wire'.acks, wire'.sent, q, Len(pipeline'))
<1>8. ASSUME ~ s.handshake
      PROVE  W
  BY <1>2, <1>8
<1>9. ASSUME s.handshake
      PROVE  W
  <2>1. wire' = [w EXCEPT !.sent = @ \o Writes(fresh)]
    BY <1>2, <1>9
  <2>2. Carries(w.acks, w.sent, q, Len(p))
    BY <1>9
  <2>3. w.acks \in Seq(Write) /\ w.sent \in Seq(Write) /\ Len(p) \in Nat
    BY DEF Connection
  <2>4. Carries(w.acks, w.sent \o Writes(fresh), q, Len(p) + Len(fresh))
    BY <1>1, <2>2, <2>3, SendMore
  <2>5. Writes(fresh) \in Seq(Write)
    BY <1>1, WritesOfBatches
  <2>6. w.sent \o Writes(fresh) \in Seq(Write)
    BY <2>3, <2>5
  <2>7. /\ wire' \in Connection
        /\ wire'.user = w.user /\ wire'.open = w.open /\ wire'.refused = w.refused
        /\ wire'.acks = w.acks /\ wire'.sent = w.sent \o Writes(fresh)
    BY <2>1, <2>6 DEF Connection
  <2>8. w.sent # << >> => wire'.sent # << >>
    BY <2>3, <2>5, <2>7
  <2>9. Carries(wire'.acks, wire'.sent, q, Len(pipeline'))
    BY <1>3, <2>4, <2>7
  <2> QED
    BY <1>9, <2>7, <2>8, <2>9
<1>10. W
  BY <1>8, <1>9
<1>11. /\ stream' \in Stream
       /\ stream'.closes = s.closes /\ stream'.user = s.user
       /\ stream'.handshake = s.handshake
  BY <1>5
<1> QED
  BY <1>3, <1>4, <1>6, <1>7, <1>10, <1>11

-----------------------------------------------------------------------------
(* Queues that grow at their end and shrink at their head.                 *)

LEMMA Appended ==
    ASSUME NEW S, NEW s \in Seq(S), NEW x \in S
    PROVE  /\ Append(s, x) \in Seq(S)
           /\ Len(s) \in Nat
           /\ Len(Append(s, x)) = Len(s) + 1
           /\ \A i \in 1 .. Len(s) : Append(s, x)[i] = s[i]
           /\ Append(s, x)[Len(s) + 1] = x
  OBVIOUS

LEMMA Headless ==
    ASSUME NEW S, NEW s \in Seq(S), s # << >>
    PROVE  /\ Tail(s) \in Seq(S) /\ Head(s) \in S /\ Head(s) = s[1]
           /\ Len(s) \in Nat /\ Len(s) # 0
           /\ Len(Tail(s)) = Len(s) - 1
           /\ \A i \in 1 .. Len(s) - 1 : Tail(s)[i] = s[i + 1]
  OBVIOUS

\* A batch with a new id joins a queue.
LEMMA AscendingAppend ==
    ASSUME NEW q \in Seq(Batch), NEW b \in Batch, Ascending(q),
           \A i \in 1 .. Len(q) : q[i].id < b.id
    PROVE  Ascending(Append(q, b))
  BY Appended DEF Ascending

LEMMA AscendingTail ==
    ASSUME NEW q \in Seq(Batch), q # << >>, Ascending(q)
    PROVE  Ascending(Tail(q))
<1> DEFINE r == Tail(q)
<1>1. /\ Len(q) \in Nat /\ Len(r) = Len(q) - 1
      /\ \A i \in 1 .. Len(q) - 1 : r[i] = q[i + 1]
  BY Headless
<1> HIDE DEF r
<1>2. \A i, j \in 1 .. Len(r) : i < j => q[i + 1].id < q[j + 1].id
  BY <1>1 DEF Ascending
<1>3. Ascending(r)
  BY <1>1, <1>2 DEF Ascending
<1> QED
  BY <1>3 DEF r

LEMMA PartOfAppend ==
    ASSUME NEW q \in Seq(Batch), NEW b \in Batch, NEW p \in Seq(Batch), PartOf(p, 0, q)
    PROVE  PartOf(p, 0, Append(q, b))
<1> DEFINE r == Append(q, b)
<1>1. /\ Len(q) \in Nat /\ Len(r) = Len(q) + 1 /\ Len(p) \in Nat
      /\ \A i \in 1 .. Len(q) : r[i] = q[i]
  BY Appended
<1> HIDE DEF r
<1>2. 0 + Len(p) <= Len(q)
  BY DEF PartOf
<1>3. \A i \in 1 .. Len(p) : 0 + i \in 1 .. Len(q)
  BY <1>1, <1>2
<1>4. \A i \in 1 .. Len(p) : p[i] = r[0 + i]
  BY <1>1, <1>3 DEF PartOf
<1>5. 0 + Len(p) <= Len(r)
  BY <1>1, <1>2
<1>6. PartOf(p, 0, r)
  BY <1>4, <1>5 DEF PartOf
<1> QED
  BY <1>6 DEF r

LEMMA PartOfTail ==
    ASSUME NEW q \in Seq(Batch), NEW p \in Seq(Batch), p # << >>, PartOf(p, 0, q)
    PROVE  q # << >> /\ PartOf(Tail(p), 0, Tail(q))
<1> DEFINE r == Tail(q)
<1> DEFINE t == Tail(p)
<1>1. 0 + Len(p) <= Len(q)
  BY DEF PartOf
<1>2. q # << >>
  BY <1>1
<1>3. /\ Len(q) \in Nat /\ Len(r) = Len(q) - 1
      /\ Len(p) \in Nat /\ Len(t) = Len(p) - 1 /\ Len(p) # 0
      /\ \A i \in 1 .. Len(q) - 1 : r[i] = q[i + 1]
      /\ \A i \in 1 .. Len(p) - 1 : t[i] = p[i + 1]
  BY <1>2, Headless
<1> HIDE DEF r, t
<1>4. \A i \in 1 .. Len(t) : p[i + 1] = q[0 + (i + 1)]
  BY <1>3 DEF PartOf
<1>5. \A i \in 1 .. Len(t) : t[i] = r[0 + i]
  <2>1. TAKE i \in 1 .. Len(t)
  <2>2. 0 + (i + 1) = i + 1 /\ 0 + i = i /\ i \in 1 .. Len(p) - 1 /\ i \in 1 .. Len(q) - 1
    BY <1>1, <1>3
  <2>3. t[i] = p[i + 1] /\ r[i] = q[i + 1]
    BY <1>3, <2>2
  <2> QED
    BY <1>4, <2>2, <2>3
<1>6. 0 + Len(t) <= Len(r)
  BY <1>1, <1>3
<1>7. PartOf(t, 0, r)
  BY <1>5, <1>6 DEF PartOf
<1> QED
  BY <1>2, <1>7 DEF r, t

LEMMA CarriesAppend ==
    ASSUME NEW q \in Seq(Batch), NEW b \in Batch, NEW n \in Nat,
           NEW acks \in Seq(Write), NEW sent \in Seq(Write), Carries(acks, sent, q, n)
    PROVE  Carries(acks, sent, Append(q, b), n)
<1> DEFINE r == Append(q, b)
<1>1. /\ Len(q) \in Nat /\ Len(r) = Len(q) + 1 /\ Len(acks) \in Nat /\ Len(sent) \in Nat
      /\ \A i \in 1 .. Len(q) : r[i] = q[i]
  BY Appended
<1> HIDE DEF r
<1>2. Len(acks) + Len(sent) = n /\ n <= Len(q)
  BY DEF Carries
<1>3. /\ \A i \in 1 .. Len(acks) : i \in 1 .. Len(q)
      /\ \A i \in 1 .. Len(sent) : Len(acks) + i \in 1 .. Len(q)
  BY <1>1, <1>2
<1>4. /\ \A i \in 1 .. Len(acks) : acks[i] = r[i].write
      /\ \A i \in 1 .. Len(sent) : sent[i] = r[Len(acks) + i].write
  BY <1>1, <1>3 DEF Carries
<1>5. n <= Len(r)
  BY <1>1, <1>2
<1>6. Carries(acks, sent, r, n)
  BY <1>2, <1>4, <1>5 DEF Carries
<1> QED
  BY <1>6 DEF r

LEMMA CarriesTail ==
    ASSUME NEW q \in Seq(Batch), NEW n \in Nat,
           NEW acks \in Seq(Write), acks # << >>,
           NEW sent \in Seq(Write), Carries(acks, sent, q, n)
    PROVE  n # 0 /\ Carries(Tail(acks), sent, Tail(q), n - 1)
<1> DEFINE r == Tail(q)
<1> DEFINE t == Tail(acks)
<1>1. Len(acks) + Len(sent) = n /\ n <= Len(q)
  BY DEF Carries
<1>2. Len(acks) \in Nat /\ Len(acks) # 0 /\ Len(sent) \in Nat /\ Len(q) \in Nat
  BY Headless
<1>3. q # << >>
  BY <1>1, <1>2
<1>4. Len(r) = Len(q) - 1 /\ Len(t) = Len(acks) - 1
  BY <1>3, Headless
<1>5. /\ \A i \in 1 .. Len(q) - 1 : r[i] = q[i + 1]
      /\ \A i \in 1 .. Len(acks) - 1 : t[i] = acks[i + 1]
  BY <1>3, Headless
<1> HIDE DEF r, t
<1>6. ASSUME NEW i \in 1 .. Len(t)
      PROVE  t[i] = r[i].write
  <2>1. i \in 1 .. Len(q) - 1 /\ i \in 1 .. Len(acks) - 1 /\ i + 1 \in 1 .. Len(acks)
    BY <1>1, <1>2, <1>4
  <2>2. acks[i + 1] = q[i + 1].write
    BY <2>1 DEF Carries
  <2> QED
    BY <1>5, <2>1, <2>2
<1>7. ASSUME NEW i \in 1 .. Len(sent)
      PROVE  sent[i] = r[Len(t) + i].write
  <2>1. Len(t) + i \in 1 .. Len(q) - 1 /\ (Len(t) + i) + 1 = Len(acks) + i
    BY <1>1, <1>2, <1>4
  <2>2. r[Len(t) + i] = q[Len(acks) + i]
    BY <1>5, <2>1
  <2> QED
    BY <2>2 DEF Carries
<1>8. Len(t) + Len(sent) = n - 1 /\ n - 1 <= Len(r) /\ n # 0
  BY <1>1, <1>2, <1>4
<1>9. Carries(t, sent, r, n - 1)
  BY <1>6, <1>7, <1>8 DEF Carries
<1> QED
  BY <1>8, <1>9 DEF r, t

LEMMA CarriesNothing ==
    ASSUME NEW q \in Seq(Batch)
    PROVE  Carries(<< >>, << >>, q, 0)
  BY DEF Carries

LEMMA CarriesCommitted ==
    ASSUME NEW q \in Seq(Batch), NEW n \in Nat,
           NEW acks \in Seq(Write), NEW sent \in Seq(Write), sent # << >>,
           Carries(acks, sent, q, n)
    PROVE  Carries(Append(acks, Head(sent)), Tail(sent), q, n)
<1> DEFINE a == Append(acks, Head(sent))
<1> DEFINE t == Tail(sent)
<1>1. Len(acks) + Len(sent) = n /\ n <= Len(q)
  BY DEF Carries
<1>2. Head(sent) \in Write /\ Head(sent) = sent[1] /\ Len(sent) \in Nat /\ Len(sent) # 0
  BY Headless
<1>3. Len(t) = Len(sent) - 1 /\ \A i \in 1 .. Len(sent) - 1 : t[i] = sent[i + 1]
  BY Headless
<1>4. /\ Len(acks) \in Nat /\ Len(a) = Len(acks) + 1
      /\ \A i \in 1 .. Len(acks) : a[i] = acks[i]
      /\ a[Len(acks) + 1] = sent[1]
  BY <1>2, Appended
<1> HIDE DEF a, t
<1>5. ASSUME NEW i \in 1 .. Len(a)
      PROVE  a[i] = q[i].write
  <2>1. CASE i <= Len(acks)
    BY <1>4, <2>1 DEF Carries
  <2>2. CASE i > Len(acks)
    <3>1. i = Len(acks) + 1 /\ 1 \in 1 .. Len(sent)
      BY <1>2, <1>4, <2>2
    <3> QED
      BY <1>4, <3>1 DEF Carries
  <2> QED
    BY <1>4, <2>1, <2>2
<1>6. ASSUME NEW i \in 1 .. Len(t)
      PROVE  t[i] = q[Len(a) + i].write
  <2>1. i + 1 \in 1 .. Len(sent) /\ i \in 1 .. Len(sent) - 1
    BY <1>2, <1>3
  <2>2. Len(acks) + (i + 1) = Len(a) + i
    BY <1>4
  <2>3. sent[i + 1] = q[Len(acks) + (i + 1)].write
    BY <2>1 DEF Carries
  <2> QED
    BY <1>3, <2>1, <2>2, <2>3
<1>7. Len(a) + Len(t) = n
  <2> DEFINE x == Len(acks)
  <2> DEFINE y == Len(sent)
  <2>1. x \in Nat /\ y \in Nat /\ x + y = n
    BY <1>1, <1>2, <1>4
  <2>2. Len(a) = x + 1 /\ Len(t) = y - 1
    BY <1>3, <1>4
  <2> HIDE DEF x, y
  <2>3. (x + 1) + (y - 1) = n
    BY <2>1
  <2> QED
    BY <2>2, <2>3
<1>8. Carries(a, t, q, n)
  BY <1>1, <1>5, <1>6, <1>7 DEF Carries
<1> QED
  BY <1>8 DEF a, t

-----------------------------------------------------------------------------
(* Types, the pipeline and the connection.                                 *)

PipelineInv ==
    /\ TypeOK /\ CallbacksOfUsers
    /\ IdsAscend /\ PipelineIsHead /\ StreamHasWire /\ WireIsHead
    /\ CallbackOfItsWrite

\* What the parts of the state are.
LEMMA StateTypes ==
    ASSUME TypeOK
    PROVE  /\ currentUser \in User /\ authUser \in User /\ provider.user \in User
           /\ queue \in [User -> Seq(Batch)]
           /\ queue[currentUser] \in Seq(Batch)
           /\ pipeline \in Seq(Batch)
           /\ stream \in Stream /\ wire \in Connection
           /\ wire.user \in User /\ wire.acks \in Seq(Write) /\ wire.sent \in Seq(Write)
           /\ queue[wire.user] \in Seq(Batch)
           /\ stream.closes \in Nat /\ stream.user \in User
           /\ Ask(stream.closes, provider) \in Token
  BY DEF TypeOK, Connection, Stream, Ask, Token

\* Close.
LEMMA ClosedType ==
    ASSUME NEW s \in Stream, NEW state \in {"Initial", "Error"}
    PROVE  /\ Closed(s, state) \in Stream
           /\ Closed(s, state).state = state
           /\ ~ Closed(s, state).handshake /\ ~ Closed(s, state).idle
           /\ Closed(s, state).closes = s.closes + 1
           /\ Closed(s, state).user = s.user
<1> DEFINE c == s.closes + 1
<1>1. c \in Nat /\ s.user \in User
  BY DEF Stream
<1> DEFINE r == [s EXCEPT !.state = state, !.idle = FALSE, !.handshake = FALSE,
                          !.closes = c]
<1>2. Closed(s, state) = r
  BY DEF Closed
<1> HIDE DEF c
<1>3. /\ r \in Stream /\ r.state = state /\ r.handshake = FALSE /\ r.idle = FALSE
      /\ r.closes = c /\ r.user = s.user
  BY <1>1 DEF Stream
<1> HIDE DEF r
<1> QED
  BY <1>2, <1>3 DEF c

\* RestartNetwork: the stream is stopped and, if there is something to send,
\* started again.
LEMMA Restarting ==
    ASSUME TypeOK, StreamHasWire, NEW q \in Seq(Batch), Ascending(q), RestartNetwork(q)
    PROVE  /\ pipeline' \in Seq(Batch)
           /\ PartOf(pipeline', 0, q) /\ Len(pipeline') <= MaxPendingWrites
           /\ stream' \in Stream
           /\ stream'.state # "Open" /\ ~ stream'.handshake /\ ~ stream'.idle
           /\ stream'.closes = IF IsStarted(stream) THEN stream.closes + 1
                               ELSE stream.closes
           /\ \/ tokens' = tokens
              \/ /\ stream'.state = "Starting"
                 /\ tokens' = tokens \cup {Ask(stream'.closes, provider)}
           /\ wire' = Hangup(wire) /\ wire' \in Connection
<1> DEFINE s == StopAndInhibitBackoff(stream)
<1> DEFINE w == Hangup(wire)
<1>1. /\ stream \in Stream /\ wire \in Connection
      /\ stream.handshake => stream.state = "Open"
      /\ stream.idle => stream.handshake
  BY DEF TypeOK, StreamHasWire
<1>2. /\ s \in Stream /\ s.state = "Initial" /\ ~ s.handshake /\ ~ s.idle
      /\ s.closes = IF IsStarted(stream) THEN stream.closes + 1 ELSE stream.closes
  <2>1. CASE IsStarted(stream)
    <3>1. s = Closed(stream, "Initial")
      BY <2>1 DEF StopAndInhibitBackoff
    <3> QED
      BY <1>1, <2>1, <3>1, ClosedType
  <2>2. CASE ~ IsStarted(stream)
    <3>1. ~ stream.handshake /\ ~ stream.idle
      BY <1>1, <2>2 DEF IsStarted, Started
    <3>2. s = [stream EXCEPT !.state = "Initial"]
      BY <2>2 DEF StopAndInhibitBackoff
    <3> QED
      BY <1>1, <2>2, <3>1, <3>2 DEF Stream
  <2> QED
    BY <2>1, <2>2
<1>3. w \in Connection
  BY <1>1 DEF Hangup, Connection
<1> DEFINE p == << >>
<1>4. FillWritePipeline(p, q, s, w, tokens)
  BY DEF RestartNetwork
<1>5. p \in Seq(Batch) /\ PartOf(p, 0, q) /\ Len(p) <= MaxPendingWrites
  BY DEF PartOf
<1> HIDE DEF s, w, p
<1>6. ~ IsStarted(s)
  BY <1>2 DEF IsStarted, Started
<1>7. /\ pipeline' \in Seq(Batch)
      /\ PartOf(pipeline', 0, q) /\ Len(pipeline') <= MaxPendingWrites
      /\ stream' \in Stream /\ stream'.closes = s.closes
      /\ stream'.handshake = s.handshake
      /\ stream'.state \in {s.state, "Starting", "Backoff"}
      /\ stream'.idle => stream'.handshake
      /\ \/ tokens' = tokens
         \/ /\ stream'.state = "Starting"
            /\ tokens' = tokens \cup {Ask(s.closes, provider)}
      /\ wire' = w
  <2>1. /\ s.handshake => s.state = "Open"
        /\ s.idle => s.handshake /\ p = << >>
        /\ (s.state = "Open" /\ ~ s.handshake) => q # << >>
        /\ s.handshake => Carries(w.acks, w.sent, q, Len(p))
    BY <1>2
  <2> QED
    BY <1>2, <1>3, <1>4, <1>5, <1>6, <2>1, Filling
<1> QED
  BY <1>2, <1>3, <1>7 DEF w

\* The app's write is queued.
LEMMA WriteMutationsPipeline ==
    ASSUME PipelineInv, WriteMutations
    PROVE  PipelineInv'
<1> DEFINE u == currentUser
<1> DEFINE w == Head(worker).write
<1> DEFINE b == [id |-> nextBatchId, write |-> w]
<1> DEFINE q == Append(queue[u], b)
<1> USE DEF PipelineInv
<1>1. /\ worker # << >> /\ Head(worker).kind = "write" /\ worker' = Tail(worker)
      /\ queue' = [queue EXCEPT ![u] = q]
      /\ callbacks' = [callbacks EXCEPT ![u] =
                          IF nextBatchId \in DOMAIN @ THEN @
                          ELSE [i \in DOMAIN @ \cup {nextBatchId} |->
                                    IF i = nextBatchId THEN w ELSE @[i]]]
      /\ added' = added \cup {w}
      /\ FillWritePipeline(pipeline, q, stream, wire, tokens)
      /\ nextBatchId' = nextBatchId + 1
      /\ UNCHANGED <<auth, currentUser, log, rejected, counters>>
  BY DEF WriteMutations
<1>2. w \in Write /\ worker' \in Seq(Task)
  <2>1. worker \in Seq(Task)
    BY DEF TypeOK
  <2>2. Head(worker) \in Task /\ Tail(worker) \in Seq(Task)
    BY <1>1, <2>1, Headless
  <2> QED
    BY <1>1, <2>2 DEF Task
<1>3. b \in Batch /\ b.id = nextBatchId /\ b.write = w /\ nextBatchId \in Nat \ {0}
  BY <1>2 DEF TypeOK, Batch
<1>4. u \in User /\ queue[u] \in Seq(Batch) /\ Ascending(queue[u])
  BY StateTypes DEF IdsAscend
<1>5. \A i \in 1 .. Len(queue[u]) : queue[u][i].id < nextBatchId
  BY <1>4 DEF IdsAscend
<1> HIDE DEF b, w
<1>6. /\ q \in Seq(Batch) /\ Len(q) = Len(queue[u]) + 1 /\ Len(queue[u]) \in Nat
      /\ q # << >>
      /\ \A i \in 1 .. Len(queue[u]) : q[i] = queue[u][i]
      /\ q[Len(queue[u]) + 1] = b
  BY <1>3, <1>4, Appended
<1>7. Ascending(q)
  BY <1>3, <1>4, <1>5, AscendingAppend
<1>8. PartOf(pipeline, 0, q) /\ Len(pipeline) <= MaxPendingWrites /\ pipeline \in Seq(Batch)
  BY <1>3, <1>4, PartOfAppend, StateTypes DEF PipelineIsHead
<1> HIDE DEF q
<1>9. /\ stream \in Stream /\ wire \in Connection
      /\ stream.handshake => stream.state = "Open"
      /\ stream.idle => stream.handshake /\ pipeline = << >>
      /\ wire.open = stream.handshake
      /\ wire.open => wire.user = u
      /\ (stream.state = "Open" /\ ~ stream.handshake) => q # << >>
  BY <1>6, StateTypes DEF StreamHasWire
<1>10. \A n \in Nat : Carries(wire.acks, wire.sent, queue[wire.user], n) =>
                      Carries(wire.acks, wire.sent, queue'[wire.user], n)
  <2>1. CASE wire.user = u
    <3>1. queue'[wire.user] = q
      BY <1>1, <1>4, <2>1, StateTypes
    <3> QED
      BY <1>3, <1>4, <2>1, <3>1, CarriesAppend, StateTypes DEF q
  <2>2. CASE wire.user # u
    BY <1>1, <2>2, StateTypes
  <2> QED
    BY <2>1, <2>2
<1>11. stream.handshake => Carries(wire.acks, wire.sent, q, Len(pipeline))
  <2>1. Len(pipeline) \in Nat
    BY <1>8
  <2>2. queue'[u] = q
    BY <1>1, <1>4, StateTypes
  <2> QED
    BY <1>9, <1>10, <2>1, <2>2 DEF WireIsHead
<1>12. /\ pipeline' \in Seq(Batch)
       /\ PartOf(pipeline', 0, q) /\ Len(pipeline') <= MaxPendingWrites
       /\ stream' \in Stream
       /\ stream'.handshake = stream.handshake
       /\ IsStarted(stream) => stream'.state = stream.state
       /\ stream'.idle => stream'.handshake /\ pipeline' = << >>
       /\ \/ tokens' = tokens
          \/ tokens' = tokens \cup {Ask(stream.closes, provider)}
       /\ ~ stream.handshake => wire' = wire
       /\ wire' \in Connection
       /\ wire'.user = wire.user /\ wire'.open = wire.open
       /\ wire'.refused = wire.refused /\ wire'.acks = wire.acks
       /\ wire.sent # << >> => wire'.sent # << >>
       /\ stream.handshake => Carries(wire'.acks, wire'.sent, q, Len(pipeline'))
  BY <1>1, <1>6, <1>7, <1>8, <1>9, <1>11, Filling
<1>13. TypeOK'
  <2>1. queue' \in [User -> Seq(Batch)]
    BY <1>1, <1>6, StateTypes
  <2>2. tokens' \in SUBSET Token
    BY <1>12, StateTypes DEF TypeOK
  <2>3. \A v \in User : callbacks'[v] \in [DOMAIN callbacks'[v] -> Write]
    BY <1>1, <1>2, <1>4 DEF TypeOK, CallbacksOfUsers
  <2>4. nextBatchId' \in Nat \ {0} /\ added' \in SUBSET Write
    <3>1. added \in SUBSET Write /\ nextBatchId + 1 \in Nat \ {0}
      BY <1>3 DEF TypeOK
    <3>2. added' = added \cup {w} /\ nextBatchId' = nextBatchId + 1
      BY <1>1
    <3> QED
      BY <1>2, <3>1, <3>2
  <2> QED
    BY <1>1, <1>2, <1>12, <2>1, <2>2, <2>3, <2>4 DEF TypeOK, auth, counters
<1>14. IdsAscend'
  <2>1. ASSUME NEW v \in User
        PROVE  /\ Ascending(queue'[v])
               /\ \A i \in 1 .. Len(queue'[v]) : queue'[v][i].id < nextBatchId'
    <3>1. CASE v = u
      <4>1. queue'[v] = q
        BY <1>1, <1>4, <3>1, StateTypes
      <4>2. \A i \in 1 .. Len(q) : q[i].id < nextBatchId + 1
        <5>1. TAKE i \in 1 .. Len(q)
        <5>2. CASE i = Len(queue[u]) + 1
          BY <1>3, <1>6, <5>2
        <5>3. CASE i # Len(queue[u]) + 1
          <6>1. i \in 1 .. Len(queue[u]) /\ q[i] = queue[u][i]
            BY <1>6, <5>3
          <6>2. queue[u][i].id \in Nat /\ queue[u][i].id < nextBatchId
            BY <1>4, <1>5, <6>1, QueueOfBatches
          <6> QED
            BY <1>3, <6>1, <6>2
        <5> QED
          BY <5>2, <5>3
      <4> QED
        BY <1>1, <1>7, <4>1, <4>2
    <3>2. CASE v # u
      <4>1. queue'[v] = queue[v]
        BY <1>1, <3>2, StateTypes
      <4>2. \A i \in 1 .. Len(queue[v]) : queue[v][i].id \in Nat /\ queue[v][i].id < nextBatchId
        BY QueueOfBatches DEF IdsAscend
      <4>3. \A i \in 1 .. Len(queue[v]) : queue[v][i].id < nextBatchId + 1
        BY <1>3, <4>2
      <4> QED
        BY <1>1, <4>1, <4>3 DEF IdsAscend
    <3> QED
      BY <3>1, <3>2
  <2> QED
    BY <2>1 DEF IdsAscend
<1>15. PipelineIsHead'
  <2>1. queue'[currentUser'] = q
    BY <1>1, <1>4, StateTypes
  <2> QED
    BY <1>12, <2>1 DEF PipelineIsHead
<1>16. StreamHasWire'
  BY <1>1, <1>9, <1>12 DEF StreamHasWire, IsStarted, Started
<1>17. WireIsHead'
  <2>1. CASE stream.handshake
    <3>1. wire'.user = u /\ queue'[wire'.user] = q
      BY <1>1, <1>4, <1>9, <1>12, <2>1, StateTypes
    <3>2. Carries(wire'.acks, wire'.sent, q, Len(pipeline')) /\ Len(pipeline') \in Nat
      BY <1>12, <2>1
    <3>3. wire'.refused => wire'.sent # << >>
      BY <1>12 DEF WireIsHead
    <3> QED
      BY <3>1, <3>2, <3>3 DEF WireIsHead
  <2>2. CASE ~ stream.handshake
    <3>1. wire' = wire /\ ~ wire.open
      BY <1>9, <1>12, <2>2
    <3> QED
      BY <1>10, <3>1 DEF WireIsHead
  <2> QED
    BY <2>1, <2>2
<1>18. CallbacksOfUsers'
  BY <1>1, <1>4 DEF CallbacksOfUsers
<1>19. CallbackOfItsWrite'
  <2>1. SUFFICES ASSUME NEW v \in User, NEW id \in DOMAIN callbacks'[v]
                 PROVE  \E i \in DOMAIN queue'[v] :
                            queue'[v][i] = [id |-> id, write |-> callbacks'[v][id]]
    BY DEF CallbackOfItsWrite
  <2>2. CASE v # u
    BY <1>1, <2>2, StateTypes DEF CallbackOfItsWrite, CallbacksOfUsers
  <2>3. CASE v = u
    <3>1. queue'[v] = q /\ DOMAIN q = 1 .. Len(q) /\ DOMAIN queue[u] = 1 .. Len(queue[u])
      BY <1>1, <1>4, <1>6, <2>3, StateTypes, Elements
    <3>2. nextBatchId \notin DOMAIN callbacks[u]
      <4>1. SUFFICES ASSUME nextBatchId \in DOMAIN callbacks[u]
                     PROVE  FALSE
        OBVIOUS
      <4>2. PICK i \in 1 .. Len(queue[u]) : queue[u][i].id = nextBatchId
        <5>1. PICK i \in DOMAIN queue[u] :
                  queue[u][i] = [id |-> nextBatchId, write |-> callbacks[u][nextBatchId]]
          BY <1>4, <4>1 DEF CallbackOfItsWrite
        <5> QED
          BY <3>1, <5>1
      <4> QED
        BY <1>3, <1>5, <4>2
    <3>3. callbacks'[u] = [i \in DOMAIN callbacks[u] \cup {nextBatchId} |->
                              IF i = nextBatchId THEN w ELSE callbacks[u][i]]
      BY <1>1, <1>4, <3>2 DEF CallbacksOfUsers
    <3>4. CASE id = nextBatchId
      <4>1. callbacks'[u][id] = w
        BY <3>3, <3>4
      <4>2. Len(queue[u]) + 1 \in 1 .. Len(q) /\ q[Len(queue[u]) + 1] = [id |-> id, write |-> w]
        BY <1>6, <3>4 DEF b
      <4> QED
        BY <2>3, <3>1, <4>1, <4>2
    <3>5. CASE id # nextBatchId
      <4>1. id \in DOMAIN callbacks[u] /\ callbacks'[u][id] = callbacks[u][id]
        BY <2>1, <2>3, <3>3, <3>5
      <4>2. PICK i \in 1 .. Len(queue[u]) :
                    queue[u][i] = [id |-> id, write |-> callbacks[u][id]]
        BY <1>4, <3>1, <4>1 DEF CallbackOfItsWrite
      <4>3. i \in 1 .. Len(q) /\ q[i] = queue[u][i]
        BY <1>6
      <4> QED
        BY <2>3, <3>1, <4>1, <4>2, <4>3
    <3> QED
      BY <3>4, <3>5
  <2> QED
    BY <2>2, <2>3
<1> QED
  BY <1>13, <1>14, <1>15, <1>16, <1>17, <1>18, <1>19

\* The network is restarted for user v.
LEMMA RestartedPipeline ==
    ASSUME PipelineInv, NEW v \in User, RestartNetwork(queue[v]), currentUser' = v,
           UNCHANGED <<queue, callbacks>>
    PROVE  /\ PipelineIsHead' /\ StreamHasWire' /\ WireIsHead'
           /\ CallbacksOfUsers' /\ CallbackOfItsWrite'
           /\ pipeline' \in Seq(Batch) /\ stream' \in Stream /\ wire' \in Connection
           /\ tokens' \in SUBSET Token
           /\ stream'.state # "Open"
<1> USE DEF PipelineInv
<1>1. queue[v] \in Seq(Batch) /\ Ascending(queue[v])
  BY StateTypes DEF IdsAscend
<1>2. /\ pipeline' \in Seq(Batch)
      /\ PartOf(pipeline', 0, queue[v]) /\ Len(pipeline') <= MaxPendingWrites
      /\ stream' \in Stream
      /\ stream'.state # "Open" /\ ~ stream'.handshake /\ ~ stream'.idle
      /\ \/ tokens' = tokens
         \/ tokens' = tokens \cup {Ask(stream'.closes, provider)}
      /\ wire' = Hangup(wire) /\ wire' \in Connection
  BY <1>1, Restarting
<1>3. tokens' \in SUBSET Token
  <2>1. stream'.closes \in Nat
    BY <1>2 DEF Stream
  <2>2. Ask(stream'.closes, provider) \in Token
    BY <2>1 DEF TypeOK, Ask, Token
  <2>3. tokens \in SUBSET Token
    BY DEF TypeOK
  <2> QED
    BY <1>2, <2>2, <2>3
<1>4. PipelineIsHead'
  BY <1>2 DEF PipelineIsHead
<1>5. /\ ~ wire'.open /\ wire'.user = wire.user /\ wire'.acks = wire.acks
      /\ wire'.sent = wire.sent /\ wire'.refused = wire.refused
  BY <1>2, StateTypes DEF Hangup, Connection
<1>6. StreamHasWire'
  <2>1. wire'.open = FALSE /\ stream'.handshake = FALSE
    BY <1>2, <1>5 DEF Stream, Connection
  <2> QED
    BY <1>2, <2>1 DEF StreamHasWire
<1>7. WireIsHead'
  BY <1>5 DEF WireIsHead
<1>8. CallbacksOfUsers' /\ CallbackOfItsWrite'
  BY DEF CallbacksOfUsers, CallbackOfItsWrite
<1> QED
  BY <1>2, <1>3, <1>4, <1>6, <1>7, <1>8

LEMMA HandleCredentialChangePipeline ==
    ASSUME PipelineInv, HandleCredentialChange
    PROVE  PipelineInv'
<1> DEFINE v == Head(worker).user
<1>1. /\ worker # << >> /\ Head(worker).kind = "change" /\ worker' = Tail(worker)
      /\ currentUser' = v
      /\ nextBatchId' = IF currentUser' # currentUser THEN LoadNextBatchIdFromDb
                        ELSE nextBatchId
      /\ RestartNetwork(queue[v])
      /\ UNCHANGED <<queue, auth, callbacks, log, history, counters>>
  BY DEF HandleCredentialChange
<1>2. v \in User /\ worker' \in Seq(Task)
  <2>1. worker \in Seq(Task)
    BY DEF PipelineInv, TypeOK
  <2>2. Head(worker) \in Task /\ Tail(worker) \in Seq(Task)
    BY <1>1, <2>1, Headless
  <2> QED
    BY <1>1, <2>2 DEF Task
<1> HIDE DEF v
<1>3. /\ PipelineIsHead' /\ StreamHasWire' /\ WireIsHead'
      /\ CallbacksOfUsers' /\ CallbackOfItsWrite'
      /\ pipeline' \in Seq(Batch) /\ stream' \in Stream /\ wire' \in Connection
      /\ tokens' \in SUBSET Token
  BY <1>1, <1>2, RestartedPipeline
<1>4. nextBatchId' \in Nat \ {0} /\ IdsAscend'
  <2>1. /\ LoadNextBatchIdFromDb \in Nat \ {0}
        /\ \A u \in User : \A i \in 1 .. Len(queue[u]) :
              queue[u][i].id < LoadNextBatchIdFromDb
    BY NextIdIsFree DEF PipelineInv
  <2> QED
    BY <1>1, <2>1 DEF IdsAscend, PipelineInv, TypeOK
<1>5. TypeOK'
  BY <1>1, <1>2, <1>3, <1>4 DEF TypeOK, PipelineInv, auth, history, counters
<1> QED
  BY <1>3, <1>4, <1>5 DEF PipelineInv

LEMMA OnConnectivityChangePipeline ==
    ASSUME PipelineInv, OnConnectivityChange
    PROVE  PipelineInv'
<1>1. /\ faults < MaxFaults /\ faults' = faults + 1
      /\ RestartNetwork(queue[currentUser])
      /\ UNCHANGED <<queue, auth, worker, currentUser, nextBatchId, callbacks, log,
                     history, issued, signIns, crashes>>
  BY DEF OnConnectivityChange
<1>2. /\ PipelineIsHead' /\ StreamHasWire' /\ WireIsHead'
      /\ CallbacksOfUsers' /\ CallbackOfItsWrite'
      /\ pipeline' \in Seq(Batch) /\ stream' \in Stream /\ wire' \in Connection
      /\ tokens' \in SUBSET Token
  BY <1>1, RestartedPipeline, StateTypes DEF PipelineInv
<1>3. IdsAscend'
  BY <1>1 DEF IdsAscend, PipelineInv
<1>4. TypeOK'
  BY <1>1, <1>2 DEF TypeOK, PipelineInv, auth, history
<1> QED
  BY <1>2, <1>3, <1>4 DEF PipelineInv

\* What a step that leaves the queues and the pipeline alone keeps.
LEMMA QueuesKept ==
    ASSUME PipelineInv,
           UNCHANGED <<queue, callbacks, currentUser, pipeline, nextBatchId>>
    PROVE  IdsAscend' /\ PipelineIsHead' /\ CallbacksOfUsers' /\ CallbackOfItsWrite'
  BY DEF PipelineInv, IdsAscend, PipelineIsHead, CallbacksOfUsers, CallbackOfItsWrite

\* OnWriteStreamClose after an error that says nothing of the head.
LEMMA CloseOnErrorPipeline ==
    ASSUME PipelineInv, CloseOnError,
           UNCHANGED <<queue, callbacks, currentUser, nextBatchId>>
    PROVE  /\ StreamHasWire' /\ WireIsHead'
           /\ stream' \in Stream /\ wire' \in Connection
           /\ stream'.state \in {"Error", "Backoff"}
           /\ stream'.closes = stream.closes + 1
           /\ UNCHANGED <<pipeline, tokens>>
<1>1. stream \in Stream /\ wire \in Connection
  BY StateTypes DEF PipelineInv
<1>2. /\ Closed(stream, "Error") \in Stream
      /\ Closed(stream, "Error").state = "Error"
      /\ Closed(stream, "Error").handshake = FALSE /\ Closed(stream, "Error").idle = FALSE
      /\ Closed(stream, "Error").closes = stream.closes + 1
  BY <1>1, ClosedType DEF Stream
<1>3. /\ stream' = IF pipeline # << >> THEN Start(Closed(stream, "Error"))
                   ELSE Closed(stream, "Error")
      /\ wire' = Hangup(wire)
      /\ UNCHANGED <<pipeline, tokens>>
  BY DEF CloseOnError
<1>4. /\ stream' \in Stream /\ stream'.state \in {"Error", "Backoff"}
      /\ stream'.handshake = FALSE /\ stream'.idle = FALSE
      /\ stream'.closes = stream.closes + 1
  BY <1>2, <1>3 DEF Start, Stream, Started
<1>5. /\ wire' \in Connection /\ wire'.open = FALSE
      /\ wire'.user = wire.user /\ wire'.acks = wire.acks
      /\ wire'.sent = wire.sent /\ wire'.refused = wire.refused
  BY <1>1, <1>3 DEF Hangup, Connection
<1>6. StreamHasWire'
  BY <1>4, <1>5 DEF StreamHasWire
<1>7. WireIsHead'
  BY <1>5 DEF WireIsHead, PipelineInv
<1> QED
  BY <1>3, <1>4, <1>5, <1>6, <1>7

LEMMA ResumePipeline ==
    ASSUME PipelineInv, ResumeStartWithCredentials
    PROVE  PipelineInv'
<1>1. /\ worker # << >> /\ Head(worker).kind = "resume" /\ worker' = Tail(worker)
      /\ UNCHANGED <<stable, counters>>
  BY DEF ResumeStartWithCredentials
<1>2. Head(worker).user \in User /\ worker' \in Seq(Task)
  <2>1. worker \in Seq(Task)
    BY DEF PipelineInv, TypeOK
  <2>2. Head(worker) \in Task /\ Tail(worker) \in Seq(Task)
    BY <1>1, <2>1, Headless
  <2> QED
    BY <1>1, <2>2 DEF Task
<1>3. CASE UNCHANGED <<pipeline, stream, tokens, wire>>
  <2>1. IdsAscend' /\ PipelineIsHead' /\ CallbacksOfUsers' /\ CallbackOfItsWrite'
    BY <1>1, <1>3, QueuesKept DEF stable
  <2>2. StreamHasWire' /\ WireIsHead'
    BY <1>1, <1>3 DEF StreamHasWire, WireIsHead, PipelineInv, stable
  <2>3. TypeOK'
    BY <1>1, <1>2, <1>3 DEF TypeOK, PipelineInv, stable, auth, history, counters
  <2> QED
    BY <2>1, <2>2, <2>3 DEF PipelineInv
<1>4. CASE /\ stream' = [stream EXCEPT !.state = "Open", !.user = Head(worker).user,
                                       !.idle = FALSE]
           /\ UNCHANGED <<pipeline, tokens, wire>>
  <2>1. IdsAscend' /\ PipelineIsHead' /\ CallbacksOfUsers' /\ CallbackOfItsWrite'
    BY <1>1, <1>4, QueuesKept DEF stable
  <2>2. /\ stream' \in Stream /\ stream'.state = "Open" /\ stream'.idle = FALSE
        /\ stream'.handshake = stream.handshake
    BY <1>2, <1>4 DEF PipelineInv, TypeOK, Stream, Started
  <2>3. StreamHasWire' /\ WireIsHead'
    BY <1>1, <1>4, <2>2 DEF StreamHasWire, WireIsHead, PipelineInv, stable
  <2>4. TypeOK'
    BY <1>1, <1>2, <1>4, <2>2 DEF TypeOK, PipelineInv, stable, auth, history, counters
  <2> QED
    BY <2>1, <2>3, <2>4 DEF PipelineInv
<1>5. CASE CloseOnError
  <2>1. UNCHANGED <<queue, callbacks, currentUser, nextBatchId>>
    BY <1>1 DEF stable
  <2>2. /\ StreamHasWire' /\ WireIsHead'
        /\ stream' \in Stream /\ wire' \in Connection
        /\ UNCHANGED <<pipeline, tokens>>
    BY <1>5, <2>1, CloseOnErrorPipeline
  <2>3. IdsAscend' /\ PipelineIsHead' /\ CallbacksOfUsers' /\ CallbackOfItsWrite'
    BY <2>1, <2>2, QueuesKept
  <2>4. TypeOK'
    BY <1>1, <1>2, <2>2 DEF TypeOK, PipelineInv, stable, auth, history, counters
  <2> QED
    BY <2>2, <2>3, <2>4 DEF PipelineInv
<1> QED
  BY <1>3, <1>4, <1>5 DEF ResumeStartWithCredentials

\* The head of the pipeline is answered: its batch leaves the queue, and its
\* callback is called.
LEMMA HeadLeaves ==
    ASSUME PipelineInv, pipeline # << >>, NotifyUser(Head(pipeline)),
           queue' = [queue EXCEPT ![currentUser] = WithoutBatch(Head(pipeline))],
           UNCHANGED <<currentUser, nextBatchId>>
    PROVE  /\ queue' \in [User -> Seq(Batch)]
           /\ queue[currentUser] # << >>
           /\ queue'[currentUser] = Tail(queue[currentUser])
           /\ WithoutBatch(Head(pipeline)) = Tail(queue[currentUser])
           /\ \A v \in User : v # currentUser => queue'[v] = queue[v]
           /\ Head(pipeline) \in Batch /\ Head(pipeline) = Head(queue[currentUser])
           /\ IdsAscend' /\ CallbacksOfUsers' /\ CallbackOfItsWrite'
           /\ \A v \in User : callbacks'[v] \in [DOMAIN callbacks'[v] -> Write]
<1> DEFINE u == currentUser
<1> DEFINE q == queue[u]
<1> DEFINE b == Head(pipeline)
<1>1. WithoutBatch(b) = Tail(q) /\ q # << >> /\ b = Head(q) /\ b = q[1]
  BY WithoutHead DEF PipelineInv
<1>2. u \in User /\ queue \in [User -> Seq(Batch)] /\ q \in Seq(Batch) /\ b \in Batch
  BY <1>1, StateTypes, Headless DEF PipelineInv
<1>3. /\ Tail(q) \in Seq(Batch) /\ Len(q) \in Nat /\ Len(q) # 0
      /\ Len(Tail(q)) = Len(q) - 1
      /\ \A i \in 1 .. Len(q) - 1 : Tail(q)[i] = q[i + 1]
      /\ DOMAIN q = 1 .. Len(q) /\ DOMAIN Tail(q) = 1 .. Len(q) - 1
  BY <1>1, <1>2, Headless, Elements
<1>4. /\ queue' \in [User -> Seq(Batch)]
      /\ queue'[u] = Tail(q)
      /\ \A v \in User : v # u => queue'[v] = queue[v]
  BY <1>1, <1>2, <1>3
<1>5. b.id \in Nat \ {0}
  BY <1>2, BatchParts
<1>6. callbacks' = [callbacks EXCEPT ![u] = [i \in DOMAIN @ \ {b.id} |-> @[i]]]
  BY DEF NotifyUser
<1>7. /\ CallbacksOfUsers'
      /\ callbacks'[u] = [i \in DOMAIN callbacks[u] \ {b.id} |-> callbacks[u][i]]
      /\ \A v \in User : v # u => callbacks'[v] = callbacks[v]
  BY <1>2, <1>6 DEF PipelineInv, CallbacksOfUsers
<1>8. \A v \in User : callbacks'[v] \in [DOMAIN callbacks'[v] -> Write]
  <2>1. \A v \in User : callbacks[v] \in [DOMAIN callbacks[v] -> Write]
    BY DEF PipelineInv, TypeOK
  <2>2. callbacks'[u] \in [DOMAIN callbacks'[u] -> Write]
    BY <1>2, <1>7, <2>1
  <2> QED
    BY <1>7, <2>1, <2>2
<1>9. \A i \in 1 .. Len(q) : i # 1 => q[i].id # b.id
  <2>1. SUFFICES ASSUME NEW i \in 1 .. Len(q), i # 1
                 PROVE  q[i].id # b.id
    OBVIOUS
  <2>2. 1 \in 1 .. Len(q) /\ 1 < i
    BY <1>3, <2>1
  <2>3. q[1].id < q[i].id
    BY <1>2, <2>1, <2>2 DEF PipelineInv, IdsAscend, Ascending
  <2>4. q[i].id \in Nat
    BY <1>2, <2>1, QueueOfBatches DEF PipelineInv
  <2> QED
    BY <1>1, <1>5, <2>3, <2>4
<1>10. CallbackOfItsWrite'
  <2>1. SUFFICES ASSUME NEW v \in User, NEW id \in DOMAIN callbacks'[v]
                 PROVE  \E i \in DOMAIN queue'[v] :
                            queue'[v][i] = [id |-> id, write |-> callbacks'[v][id]]
    BY DEF CallbackOfItsWrite
  <2>2. CASE v # u
    BY <1>4, <1>7, <2>2 DEF PipelineInv, CallbackOfItsWrite
  <2>3. CASE v = u
    <3>1. id # b.id /\ id \in DOMAIN callbacks[u] /\ callbacks'[u][id] = callbacks[u][id]
      BY <1>7, <2>1, <2>3
    <3>2. PICK i \in 1 .. Len(q) : q[i] = [id |-> id, write |-> callbacks[u][id]]
      BY <1>2, <1>3, <3>1 DEF PipelineInv, CallbackOfItsWrite
    <3>3. i # 1
      BY <1>1, <3>1, <3>2
    <3>4. i - 1 \in 1 .. Len(q) - 1 /\ (i - 1) + 1 = i
      BY <1>3, <3>3
    <3>5. Tail(q)[i - 1] = q[i]
      BY <1>3, <3>4
    <3> QED
      BY <1>3, <1>4, <2>3, <3>1, <3>2, <3>4, <3>5
  <2> QED
    BY <2>2, <2>3
<1>11. IdsAscend'
  <2>1. ASSUME NEW v \in User
        PROVE  /\ Ascending(queue'[v])
               /\ \A i \in 1 .. Len(queue'[v]) : queue'[v][i].id < nextBatchId
    <3>1. CASE v = u
      <4>1. Ascending(Tail(q))
        BY <1>1, <1>2, AscendingTail DEF PipelineInv, IdsAscend
      <4>2. \A i \in 1 .. Len(q) - 1 : Tail(q)[i].id < nextBatchId
        <5>1. TAKE i \in 1 .. Len(q) - 1
        <5>2. i + 1 \in 1 .. Len(q)
          BY <1>3
        <5> QED
          BY <1>2, <1>3, <5>2 DEF PipelineInv, IdsAscend
      <4> QED
        BY <1>3, <1>4, <3>1, <4>1, <4>2
    <3>2. CASE v # u
      BY <1>4, <3>2 DEF PipelineInv, IdsAscend
    <3> QED
      BY <3>1, <3>2
  <2> QED
    BY <2>1 DEF IdsAscend
<1> QED
  BY <1>1, <1>2, <1>4, <1>7, <1>8, <1>10, <1>11

\* An open connection carries the pipeline of the current user.
LEMMA OpenWire ==
    ASSUME PipelineInv, wire.open
    PROVE  /\ wire.user = currentUser /\ stream.handshake /\ stream.state = "Open"
           /\ Carries(wire.acks, wire.sent, queue[currentUser], Len(pipeline))
           /\ (wire.acks # << >> \/ wire.sent # << >>) => pipeline # << >>
<1>1. /\ wire.user = currentUser /\ stream.handshake /\ stream.state = "Open"
      /\ Carries(wire.acks, wire.sent, queue[currentUser], Len(pipeline))
  BY DEF PipelineInv, StreamHasWire, WireIsHead
<1>2. (wire.acks # << >> \/ wire.sent # << >>) => pipeline # << >>
  <2>1. /\ pipeline \in Seq(Batch) /\ wire.acks \in Seq(Write) /\ wire.sent \in Seq(Write)
    BY StateTypes DEF PipelineInv
  <2>2. Len(wire.acks) + Len(wire.sent) = Len(pipeline)
    BY <1>1 DEF Carries
  <2>3. SUFFICES ASSUME pipeline = << >>
                 PROVE  wire.acks = << >> /\ wire.sent = << >>
    OBVIOUS
  <2> DEFINE x == Len(wire.acks)
  <2> DEFINE y == Len(wire.sent)
  <2>4. x \in Nat /\ y \in Nat /\ x + y = 0
    <3>1. Len(pipeline) = 0
      BY <2>3
    <3>2. x \in Nat /\ y \in Nat
      BY <2>1
    <3> QED
      BY <2>2, <3>1, <3>2
  <2> HIDE DEF x, y
  <2>5. x = 0 /\ y = 0
    BY <2>4
  <2> QED
    BY <2>1, <2>5 DEF x, y
<1> QED
  BY <1>1, <1>2

LEMMA MutationResultPipeline ==
    ASSUME PipelineInv, OnWriteStreamMutationResult
    PROVE  PipelineInv'
<1> DEFINE u == currentUser
<1> DEFINE q == Tail(queue[u])
<1> DEFINE p == Tail(pipeline)
<1> DEFINE w == [wire EXCEPT !.acks = Tail(@)]
<1>1. /\ wire.open /\ wire.acks # << >>
      /\ NotifyUser(Head(pipeline))
      /\ queue' = [queue EXCEPT ![u] = WithoutBatch(Head(pipeline))]
      /\ FillWritePipeline(p, WithoutBatch(Head(pipeline)), stream, w, tokens)
      /\ UNCHANGED <<auth, worker, currentUser, nextBatchId, log, history, counters>>
  BY DEF OnWriteStreamMutationResult
<1>2. /\ wire.user = u /\ stream.handshake /\ stream.state = "Open"
      /\ Carries(wire.acks, wire.sent, queue[u], Len(pipeline))
      /\ pipeline # << >>
  BY <1>1, OpenWire
<1>3. /\ queue' \in [User -> Seq(Batch)] /\ queue'[u] = q
      /\ queue[u] # << >>
      /\ WithoutBatch(Head(pipeline)) = q
      /\ IdsAscend' /\ CallbacksOfUsers' /\ CallbackOfItsWrite'
      /\ \A v \in User : callbacks'[v] \in [DOMAIN callbacks'[v] -> Write]
  BY <1>1, <1>2, HeadLeaves
<1>4. /\ u \in User /\ queue[u] \in Seq(Batch) /\ pipeline \in Seq(Batch)
      /\ stream \in Stream /\ wire \in Connection
      /\ wire.acks \in Seq(Write) /\ wire.sent \in Seq(Write)
  BY StateTypes DEF PipelineInv
<1>5. /\ p \in Seq(Batch) /\ Len(p) = Len(pipeline) - 1 /\ Len(pipeline) \in Nat
      /\ Len(pipeline) <= MaxPendingWrites /\ PartOf(pipeline, 0, queue[u])
  BY <1>2, <1>4, Headless DEF PipelineInv, PipelineIsHead
<1>6. PartOf(p, 0, q) /\ Len(p) <= MaxPendingWrites
  <2>1. PartOf(p, 0, q)
    BY <1>2, <1>4, <1>5, PartOfTail
  <2> QED
    BY <1>5, <2>1
<1>7. Carries(Tail(wire.acks), wire.sent, q, Len(p))
  BY <1>1, <1>2, <1>4, <1>5, CarriesTail
<1>8. q \in Seq(Batch) /\ Ascending(q)
  BY <1>3, <1>4, Headless, AscendingTail DEF PipelineInv, IdsAscend
<1>9. Tail(wire.acks) \in Seq(Write)
  BY <1>1, <1>4, Headless
<1>10. /\ w \in Connection /\ w.user = u /\ w.open = wire.open /\ w.refused = wire.refused
       /\ w.acks = Tail(wire.acks) /\ w.sent = wire.sent
  BY <1>2, <1>4, <1>9 DEF Connection
<1>11. FillWritePipeline(p, q, stream, w, tokens)
  BY <1>1, <1>3
<1>12. /\ stream.handshake => stream.state = "Open"
       /\ stream.idle => stream.handshake /\ p = << >>
       /\ (stream.state = "Open" /\ ~ stream.handshake) => q # << >>
       /\ stream.handshake => Carries(w.acks, w.sent, q, Len(p))
  BY <1>2, <1>7, <1>10 DEF PipelineInv, StreamHasWire
<1>13. IsStarted(stream)
  BY <1>2 DEF IsStarted, Started
<1> HIDE DEF w, p, q
<1>14. /\ pipeline' \in Seq(Batch)
       /\ PartOf(pipeline', 0, q) /\ Len(pipeline') <= MaxPendingWrites
       /\ stream' \in Stream
       /\ stream'.handshake = stream.handshake
       /\ stream'.state = stream.state
       /\ stream'.idle => stream'.handshake /\ pipeline' = << >>
       /\ \/ tokens' = tokens
          \/ tokens' = tokens \cup {Ask(stream.closes, provider)}
       /\ wire' \in Connection
       /\ wire'.user = w.user /\ wire'.open = w.open
       /\ wire'.refused = w.refused
       /\ w.sent # << >> => wire'.sent # << >>
       /\ stream.handshake => Carries(wire'.acks, wire'.sent, q, Len(pipeline'))
  BY <1>4, <1>5, <1>6, <1>8, <1>10, <1>11, <1>12, <1>13, Filling, SMTT(20)
<1>15. tokens' \in SUBSET Token
  BY <1>14, StateTypes DEF PipelineInv, TypeOK
<1>16. TypeOK'
  BY <1>1, <1>3, <1>14, <1>15 DEF PipelineInv, TypeOK, auth, history, counters
<1>17. PipelineIsHead'
  BY <1>1, <1>3, <1>14 DEF PipelineIsHead
<1>18. StreamHasWire'
  BY <1>1, <1>2, <1>10, <1>14 DEF PipelineInv, StreamHasWire
<1>19. WireIsHead'
  <2>1. queue'[wire'.user] = q
    BY <1>3, <1>10, <1>14
  <2>2. Carries(wire'.acks, wire'.sent, q, Len(pipeline')) /\ Len(pipeline') \in Nat
    BY <1>2, <1>14
  <2>3. wire'.refused => wire'.sent # << >>
    BY <1>10, <1>14 DEF PipelineInv, WireIsHead
  <2> QED
    BY <2>1, <2>2, <2>3 DEF WireIsHead
<1> QED
  BY <1>3, <1>16, <1>17, <1>18, <1>19 DEF PipelineInv

LEMMA HandleWriteErrorPipeline ==
    ASSUME PipelineInv, HandleWriteError
    PROVE  PipelineInv'
<1> DEFINE u == currentUser
<1> DEFINE q == Tail(queue[u])
<1> DEFINE p == Tail(pipeline)
<1> DEFINE s == Closed(stream, "Initial")
<1> DEFINE w == Ended(wire)
<1>1. /\ wire.open /\ wire.refused /\ wire.acks = << >>
      /\ NotifyUser(Head(pipeline))
      /\ queue' = [queue EXCEPT ![u] = WithoutBatch(Head(pipeline))]
      /\ rejected' = rejected \cup {Head(pipeline).write}
      /\ FillWritePipeline(p, WithoutBatch(Head(pipeline)), s, w, tokens)
      /\ UNCHANGED <<auth, worker, currentUser, nextBatchId, log, added, counters>>
  BY DEF HandleWriteError
<1>2. wire.user = u /\ pipeline # << >>
  BY <1>1, OpenWire DEF PipelineInv, WireIsHead
<1>3. /\ queue' \in [User -> Seq(Batch)] /\ queue'[u] = q
      /\ queue[u] # << >>
      /\ WithoutBatch(Head(pipeline)) = q
      /\ Head(pipeline) \in Batch
      /\ IdsAscend' /\ CallbacksOfUsers' /\ CallbackOfItsWrite'
      /\ \A v \in User : callbacks'[v] \in [DOMAIN callbacks'[v] -> Write]
  BY <1>1, <1>2, HeadLeaves
<1>4. /\ u \in User /\ queue[u] \in Seq(Batch) /\ pipeline \in Seq(Batch)
      /\ stream \in Stream /\ wire \in Connection
  BY StateTypes DEF PipelineInv
<1>5. /\ p \in Seq(Batch) /\ Len(p) = Len(pipeline) - 1 /\ Len(pipeline) \in Nat
      /\ Len(pipeline) <= MaxPendingWrites /\ PartOf(pipeline, 0, queue[u])
  BY <1>2, <1>4, Headless DEF PipelineInv, PipelineIsHead
<1>6. PartOf(p, 0, q) /\ Len(p) <= MaxPendingWrites
  <2>1. PartOf(p, 0, q)
    BY <1>2, <1>4, <1>5, PartOfTail
  <2> QED
    BY <1>5, <2>1
<1>7. q \in Seq(Batch) /\ Ascending(q)
  BY <1>3, <1>4, Headless, AscendingTail DEF PipelineInv, IdsAscend
<1>8. /\ w \in Connection /\ w.user = u /\ w.open = FALSE /\ w.refused = FALSE
      /\ w.acks = << >> /\ w.sent = << >>
  BY <1>1, <1>2, <1>4 DEF Connection, Ended
<1>9. /\ s \in Stream /\ s.state = "Initial" /\ ~ s.handshake /\ ~ s.idle
      /\ s.closes = stream.closes + 1
  BY <1>4, ClosedType
<1>10. FillWritePipeline(p, q, s, w, tokens)
  BY <1>1, <1>3
<1>11. /\ s.handshake => s.state = "Open"
       /\ s.idle => s.handshake /\ p = << >>
       /\ (s.state = "Open" /\ ~ s.handshake) => q # << >>
       /\ s.handshake => Carries(w.acks, w.sent, q, Len(p))
       /\ ~ IsStarted(s)
  BY <1>9 DEF IsStarted, Started
<1> HIDE DEF w, p, q, s
<1>12. /\ pipeline' \in Seq(Batch)
       /\ PartOf(pipeline', 0, q) /\ Len(pipeline') <= MaxPendingWrites
       /\ stream' \in Stream
       /\ stream'.handshake = s.handshake
       /\ stream'.state \in {s.state, "Starting", "Backoff"}
       /\ stream'.idle => stream'.handshake /\ pipeline' = << >>
       /\ \/ tokens' = tokens
          \/ tokens' = tokens \cup {Ask(s.closes, provider)}
       /\ wire' = w
  BY <1>5, <1>6, <1>7, <1>8, <1>9, <1>10, <1>11, Filling
<1>13. tokens' \in SUBSET Token
  <2>1. s.closes \in Nat
    BY <1>9 DEF Stream
  <2>2. Ask(s.closes, provider) \in Token
    BY <2>1 DEF PipelineInv, TypeOK, Ask, Token
  <2> QED
    BY <1>12, <2>2 DEF PipelineInv, TypeOK
<1>14. TypeOK'
  <2>1. rejected' \in SUBSET Write
    BY <1>1, <1>3, BatchParts DEF PipelineInv, TypeOK
  <2> QED
    BY <1>1, <1>3, <1>8, <1>12, <1>13, <2>1 DEF PipelineInv, TypeOK, auth, counters
<1>15. PipelineIsHead'
  BY <1>1, <1>3, <1>12 DEF PipelineIsHead
<1>16. StreamHasWire'
  <2>1. stream'.handshake = FALSE
    BY <1>9, <1>12 DEF Stream
  <2> QED
    BY <1>8, <1>12, <2>1 DEF StreamHasWire
<1>17. WireIsHead'
  <2>1. queue'[wire'.user] = q
    BY <1>3, <1>8, <1>12
  <2> QED
    BY <1>7, <1>8, <1>12, <2>1, CarriesNothing DEF WireIsHead
<1> QED
  BY <1>3, <1>14, <1>15, <1>16, <1>17 DEF PipelineInv

\* All of the pipeline is sent.
LEMMA CarriesAll ==
    ASSUME NEW q \in Seq(Batch), NEW p \in Seq(Batch), PartOf(p, 0, q)
    PROVE  Carries(<< >>, Writes(p), q, Len(p))
<1> DEFINE t == Writes(p)
<1>1. /\ t \in Seq(Write) /\ Len(t) = Len(p) /\ Len(p) \in Nat
      /\ \A i \in 1 .. Len(p) : t[i] = p[i].write
  BY WritesOfBatches
<1> HIDE DEF t
<1> DEFINE e == << >>
<1>2. Len(e) = 0
  OBVIOUS
<1> HIDE DEF e
<1>3. Len(p) <= Len(q)
  <2>1. 0 + Len(p) <= Len(q) /\ 0 + Len(p) = Len(p)
    BY <1>1 DEF PartOf
  <2> QED
    BY <2>1
<1>4. \A i \in 1 .. Len(t) : t[i] = q[Len(e) + i].write
  BY <1>1, <1>2 DEF PartOf
<1>5. Len(e) + Len(t) = Len(p)
  BY <1>1, <1>2
<1>6. \A i \in 1 .. Len(e) : e[i] = q[i].write
  BY <1>2
<1>7. Carries(e, t, q, Len(p))
  BY <1>3, <1>4, <1>5, <1>6 DEF Carries
<1> QED
  BY <1>7 DEF e, t

LEMMA HandshakePipeline ==
    ASSUME PipelineInv, StreamOfUser, OnWriteStreamHandshakeComplete
    PROVE  PipelineInv'
<1>1. /\ stream.state = "Open" /\ ~ stream.handshake
      /\ stream' = [stream EXCEPT !.handshake = TRUE, !.idle = @ /\ pipeline = << >>]
      /\ wire' = [user |-> stream.user, open |-> TRUE, sent |-> Writes(pipeline),
                  acks |-> << >>, refused |-> FALSE]
      /\ UNCHANGED <<stable, counters, worker, pipeline, tokens>>
  BY DEF OnWriteStreamHandshakeComplete
<1>2. /\ stream \in Stream /\ stream.user = currentUser /\ currentUser \in User
      /\ pipeline \in Seq(Batch) /\ queue[currentUser] \in Seq(Batch)
      /\ PartOf(pipeline, 0, queue[currentUser]) /\ ~ stream.idle
  BY <1>1, StateTypes DEF PipelineInv, PipelineIsHead, StreamOfUser, StreamHasWire
<1>3. /\ stream' \in Stream /\ stream'.handshake = TRUE /\ stream'.idle = FALSE
      /\ stream'.state = "Open"
  BY <1>1, <1>2 DEF Stream, Started
<1>4. Writes(pipeline) \in Seq(Write) /\ << >> \in Seq(Write)
  BY <1>2, WritesOfBatches
<1>5. /\ wire' \in Connection /\ wire'.user = currentUser /\ wire'.open = TRUE
      /\ wire'.sent = Writes(pipeline) /\ wire'.acks = << >> /\ wire'.refused = FALSE
  BY <1>1, <1>2, <1>4 DEF Connection
<1>6. IdsAscend' /\ PipelineIsHead' /\ CallbacksOfUsers' /\ CallbackOfItsWrite'
  BY <1>1, QueuesKept DEF stable
<1>7. StreamHasWire'
  BY <1>1, <1>3, <1>5 DEF StreamHasWire, stable
<1>8. WireIsHead'
  <2>1. Carries(<< >>, Writes(pipeline), queue[currentUser], Len(pipeline))
    BY <1>2, CarriesAll
  <2>2. Len(pipeline) \in Nat
    BY <1>2
  <2> QED
    BY <1>1, <1>5, <2>1, <2>2 DEF WireIsHead, stable
<1>9. TypeOK'
  BY <1>1, <1>3, <1>5 DEF PipelineInv, TypeOK, stable, auth, history, counters
<1> QED
  BY <1>6, <1>7, <1>8, <1>9 DEF PipelineInv

LEMMA WriteStreamClosePipeline ==
    ASSUME PipelineInv, OnWriteStreamClose
    PROVE  PipelineInv'
<1>1. /\ faults < MaxFaults /\ faults' = faults + 1
      /\ CloseOnError
      /\ UNCHANGED <<stable, worker, issued, signIns, crashes>>
  BY DEF OnWriteStreamClose
<1>2. /\ StreamHasWire' /\ WireIsHead'
      /\ stream' \in Stream /\ wire' \in Connection
      /\ UNCHANGED <<pipeline, tokens>>
  BY <1>1, CloseOnErrorPipeline DEF stable
<1>3. IdsAscend' /\ PipelineIsHead' /\ CallbacksOfUsers' /\ CallbackOfItsWrite'
  BY <1>1, <1>2, QueuesKept DEF stable
<1>4. TypeOK'
  BY <1>1, <1>2 DEF PipelineInv, TypeOK, stable, auth, history
<1> QED
  BY <1>2, <1>3, <1>4 DEF PipelineInv

LEMMA TimersPipeline ==
    ASSUME PipelineInv, IdleTimeout \/ BackoffTimeout
    PROVE  PipelineInv'
<1>1. UNCHANGED <<stable, counters, worker, pipeline>>
  BY DEF IdleTimeout, BackoffTimeout
<1>2. IdsAscend' /\ PipelineIsHead' /\ CallbacksOfUsers' /\ CallbackOfItsWrite'
  BY <1>1, QueuesKept DEF stable
<1>3. stream \in Stream /\ wire \in Connection
  BY StateTypes DEF PipelineInv
<1>4. CASE IdleTimeout
  <2>1. /\ stream' = Closed(stream, "Initial") /\ wire' = Hangup(wire)
        /\ UNCHANGED tokens
    BY <1>4 DEF IdleTimeout
  <2>2. /\ stream' \in Stream /\ stream'.handshake = FALSE /\ stream'.idle = FALSE
    BY <1>3, <2>1, ClosedType DEF Stream
  <2>3. /\ wire' \in Connection /\ wire'.open = FALSE
        /\ wire'.user = wire.user /\ wire'.acks = wire.acks
        /\ wire'.sent = wire.sent /\ wire'.refused = wire.refused
    BY <1>3, <2>1 DEF Hangup, Connection
  <2>4. StreamHasWire' /\ WireIsHead'
    BY <1>1, <2>2, <2>3 DEF PipelineInv, StreamHasWire, WireIsHead, stable
  <2>5. TypeOK'
    BY <1>1, <2>1, <2>2, <2>3 DEF PipelineInv, TypeOK, stable, auth, history, counters
  <2> QED
    BY <1>2, <2>4, <2>5 DEF PipelineInv
<1>5. CASE BackoffTimeout
  <2>1. /\ stream.state = "Backoff"
        /\ stream' = [stream EXCEPT !.state = "Starting"]
        /\ tokens' = tokens \cup {Ask(stream.closes, provider)}
        /\ UNCHANGED wire
    BY <1>5 DEF BackoffTimeout
  <2>2. /\ stream' \in Stream /\ stream'.handshake = stream.handshake
        /\ stream'.idle = stream.idle /\ ~ stream.handshake
    BY <1>3, <2>1 DEF PipelineInv, StreamHasWire, Stream, Started
  <2>3. StreamHasWire' /\ WireIsHead'
    BY <1>1, <2>1, <2>2 DEF PipelineInv, StreamHasWire, WireIsHead, stable
  <2>4. tokens' \in SUBSET Token
    BY <2>1, StateTypes DEF PipelineInv, TypeOK
  <2>5. TypeOK'
    BY <1>1, <2>1, <2>2, <2>4 DEF PipelineInv, TypeOK, stable, auth, history, counters
  <2> QED
    BY <1>2, <2>3, <2>5 DEF PipelineInv
<1> QED
  BY <1>4, <1>5

\* What a step that is no event of the client's queues keeps.
LEMMA ClientKept ==
    ASSUME PipelineInv, UNCHANGED client, TypeOK'
    PROVE  PipelineInv'
<1>1. IdsAscend' /\ PipelineIsHead' /\ CallbacksOfUsers' /\ CallbackOfItsWrite'
  BY QueuesKept DEF client
<1>2. StreamHasWire' /\ WireIsHead'
  BY DEF client, PipelineInv, StreamHasWire, WireIsHead
<1> QED
  BY <1>1, <1>2 DEF PipelineInv

LEMMA AuthPipeline ==
    ASSUME PipelineInv, AuthStep \/ SignIn \/ AppWrites
    PROVE  PipelineInv'
<1>1. TypeOK
  BY DEF PipelineInv
<1>2. UNCHANGED client
  BY DEF AuthStep, TakeUser, FetchToken, HearOfUser, HearOfToken, SignIn, AppWrites
<1>3. /\ main \in Seq(Item) /\ worker \in Seq(Task) /\ tokens \in SUBSET Token
      /\ authUser \in User /\ provider \in [user : User, counter : Nat]
  BY <1>1 DEF TypeOK
<1> SUFFICES TypeOK'
  BY <1>2, ClientKept
<1>4. CASE SignIn
  <2>1. main' \in Seq(Item) /\ authUser' \in User
    <3>1. [kind |-> "change", user |-> authUser'] \in Item /\ authUser' \in User
      BY <1>4 DEF SignIn, Item
    <3> QED
      BY <1>3, <1>4, <3>1, Appended DEF SignIn
  <2> QED
    BY <1>1, <1>2, <1>4, <2>1 DEF SignIn, TypeOK, client, history
<1>5. CASE TakeUser
  <2>1. tokens' \in SUBSET Token
    BY <1>3, <1>5 DEF TakeUser, Token
  <2> QED
    BY <1>1, <1>2, <1>5, <2>1 DEF TakeUser, TypeOK, client, auth, history, counters
<1>6. CASE FetchToken
  <2>1. PICK t \in tokens, ok \in BOOLEAN :
            /\ ok \/ faults < MaxFaults
            /\ faults' = IF ok THEN faults ELSE faults + 1
            /\ tokens' = tokens \ {t}
            /\ main' = Append(main, [kind |-> "token", closes |-> t.closes,
                                     counter |-> t.counter, user |-> t.user, ok |-> ok])
            /\ UNCHANGED <<client, authUser, provider, worker, issued, signIns, crashes>>
    BY <1>6 DEF FetchToken
  <2>2. t \in Token
    BY <1>3
  <2>3. [kind |-> "token", closes |-> t.closes, counter |-> t.counter, user |-> t.user,
         ok |-> ok] \in Item
    BY <2>2 DEF Token, Item
  <2>4. main' \in Seq(Item) /\ tokens' \in SUBSET Token
    BY <1>3, <2>1, <2>3, Appended
  <2>5. faults' \in 0 .. MaxFaults
    BY <1>1, <2>1 DEF TypeOK
  <2> QED
    BY <1>1, <1>2, <2>1, <2>4, <2>5 DEF TypeOK, client, history
<1>7. CASE HearOfUser
  <2>1. /\ main # << >> /\ Head(main).kind = "change"
        /\ main' = Tail(main)
        /\ provider' = [user |-> Head(main).user, counter |-> provider.counter + 1]
        /\ worker' = Append(worker, [kind |-> "change", user |-> Head(main).user])
        /\ UNCHANGED <<client, authUser, tokens, counters>>
    BY <1>7 DEF HearOfUser
  <2>2. Head(main) \in Item /\ Tail(main) \in Seq(Item)
    BY <1>3, <2>1, Headless
  <2>3. Head(main).user \in User
    BY <2>1, <2>2 DEF Item
  <2>4. [kind |-> "change", user |-> Head(main).user] \in Task
    BY <2>3 DEF Task
  <2>5. worker' \in Seq(Task) /\ provider' \in [user : User, counter : Nat]
    BY <1>3, <2>1, <2>3, <2>4, Appended
  <2> QED
    BY <1>1, <1>2, <2>1, <2>2, <2>5 DEF TypeOK, client, history, counters
<1>8. CASE HearOfToken
  <2>1. /\ main # << >> /\ Head(main).kind = "token"
        /\ main' = Tail(main)
        /\ UNCHANGED <<client, authUser, provider, counters>>
    BY <1>8 DEF HearOfToken
  <2>2. Head(main) \in Item /\ Tail(main) \in Seq(Item)
    BY <1>3, <2>1, Headless
  <2>3. /\ Head(main).closes \in Nat /\ Head(main).user \in User
        /\ Head(main).ok \in BOOLEAN
    BY <2>1, <2>2 DEF Item
  <2>4. [kind |-> "resume", closes |-> Head(main).closes, user |-> Head(main).user,
         ok |-> Head(main).ok] \in Task
    BY <2>3 DEF Task
  <2>5. Ask(Head(main).closes, provider) \in Token
    BY <1>3, <2>3 DEF Ask, Token
  <2>6. worker' \in Seq(Task) /\ tokens' \in SUBSET Token
    <3>1. CASE IsCurrent(Head(main))
      <4>1. /\ worker' = Append(worker, [kind |-> "resume", closes |-> Head(main).closes,
                                         user |-> Head(main).user, ok |-> Head(main).ok])
            /\ UNCHANGED tokens
        BY <1>8, <3>1 DEF HearOfToken
      <4> QED
        BY <1>3, <2>4, <4>1, Appended
    <3>2. CASE ~ IsCurrent(Head(main))
      BY <1>3, <1>8, <2>5, <3>2 DEF HearOfToken
    <3> QED
      BY <3>1, <3>2
  <2> QED
    BY <1>1, <1>2, <2>1, <2>2, <2>6 DEF TypeOK, client, history, counters
<1>9. CASE AppWrites
  <2>1. issued' = issued + 1 /\ issued < MaxWrites /\ issued \in 0 .. MaxWrites
    BY <1>1, <1>9 DEF AppWrites, TypeOK
  <2>2. [no |-> issued', by |-> provider.user] \in Write
    BY <1>3, <2>1 DEF Write
  <2>3. [kind |-> "write", write |-> [no |-> issued', by |-> provider.user]] \in Task
    BY <2>2 DEF Task
  <2>4. worker' \in Seq(Task) /\ issued' \in 0 .. MaxWrites
    BY <1>3, <1>9, <2>1, <2>3, Appended DEF AppWrites
  <2> QED
    BY <1>1, <1>2, <1>9, <2>4 DEF AppWrites, TypeOK, client, auth, history
<1> QED
  BY <1>4, <1>5, <1>6, <1>7, <1>8, <1>9 DEF AuthStep

\* After a restart the pipeline is filled from the disk, and the connection is
\* given up.
LEMMA RestartPipeline ==
    ASSUME PipelineInv, Restart
    PROVE  PipelineInv'
<1> DEFINE q == queue[authUser]
<1> DEFINE p == << >>
<1> DEFINE fresh == NextBatches(p, q)
<1> DEFINE s == [state |-> "Initial", closes |-> 0, idle |-> FALSE,
                 handshake |-> FALSE, user |-> authUser]
<1>1. /\ crashes < MaxCrashes /\ crashes' = crashes + 1
      /\ provider' = [user |-> authUser, counter |-> 0]
      /\ main' = << >> /\ worker' = << >>
      /\ currentUser' = authUser
      /\ nextBatchId' = LoadNextBatchIdFromDb
      /\ callbacks' = [u \in User |-> << >>]
      /\ pipeline' = fresh
      /\ stream' = IF fresh # << >> THEN Start(s) ELSE s
      /\ tokens' = IF fresh # << >> THEN {Ask(0, provider')} ELSE {}
      /\ wire' = Hangup(wire)
      /\ UNCHANGED <<queue, authUser, log, history, issued, signIns, faults>>
  BY DEF Restart
<1>2. authUser \in User /\ q \in Seq(Batch) /\ Ascending(q) /\ wire \in Connection
  BY StateTypes DEF PipelineInv, TypeOK, IdsAscend
<1>3. p \in Seq(Batch) /\ PartOf(p, 0, q) /\ Len(p) <= MaxPendingWrites /\ Len(p) = 0
  BY <1>2 DEF PartOf
<1> HIDE DEF p
<1>4. /\ fresh \in Seq(Batch) /\ PartOf(fresh, Len(p), q)
      /\ Len(p) + Len(fresh) <= MaxPendingWrites
  BY <1>2, <1>3, NextBatchesFollow
<1>5. Len(p) + Len(fresh) = Len(fresh)
  BY <1>3, <1>4
<1> HIDE DEF fresh, q
<1>6. PipelineIsHead'
  <2>1. pipeline' = fresh /\ queue'[currentUser'] = q
    BY <1>1 DEF q
  <2>2. PartOf(fresh, 0, q) /\ Len(fresh) <= MaxPendingWrites
    BY <1>3, <1>4, <1>5
  <2> QED
    BY <2>1, <2>2 DEF PipelineIsHead
<1>7. /\ stream' \in Stream /\ stream'.handshake = FALSE /\ stream'.idle = FALSE
  BY <1>1, <1>2 DEF Stream, Started, Start
<1>8. /\ wire' \in Connection /\ wire'.open = FALSE
      /\ wire'.user = wire.user /\ wire'.acks = wire.acks
      /\ wire'.sent = wire.sent /\ wire'.refused = wire.refused
  BY <1>1, <1>2 DEF Hangup, Connection
<1>9. StreamHasWire'
  BY <1>7, <1>8 DEF StreamHasWire
<1>10. WireIsHead'
  BY <1>1, <1>8 DEF PipelineInv, WireIsHead
<1>11. nextBatchId' \in Nat \ {0} /\ IdsAscend'
  BY <1>1, NextIdIsFree DEF PipelineInv, IdsAscend
<1>12. CallbacksOfUsers' /\ CallbackOfItsWrite'
  <2>1. \A u \in User : callbacks'[u] = << >> /\ DOMAIN callbacks'[u] = {}
    BY <1>1
  <2> QED
    BY <1>1, <2>1 DEF CallbacksOfUsers, CallbackOfItsWrite
<1>13. TypeOK'
  <2>1. tokens' \in SUBSET Token /\ provider' \in [user : User, counter : Nat]
    BY <1>1, <1>2 DEF Ask, Token
  <2>2. main' \in Seq(Item) /\ worker' \in Seq(Task)
    BY <1>1
  <2>3. \A u \in User : callbacks'[u] \in [DOMAIN callbacks'[u] -> Write]
    BY <1>1
  <2>4. pipeline' \in Seq(Batch)
    BY <1>1, <1>4
  <2>5. /\ queue' \in [User -> Seq(Batch)] /\ authUser' \in User /\ currentUser' \in User
        /\ log' \in Seq([write : Write, as : User])
        /\ added' \in SUBSET Write /\ rejected' \in SUBSET Write
        /\ issued' \in 0 .. MaxWrites /\ signIns' \in 0 .. MaxSignIns
        /\ faults' \in 0 .. MaxFaults /\ crashes' \in 0 .. MaxCrashes
    BY <1>1 DEF PipelineInv, TypeOK, history
  <2> QED
    BY <1>7, <1>8, <1>11, <2>1, <2>2, <2>3, <2>4, <2>5 DEF TypeOK
<1> QED
  BY <1>6, <1>9, <1>10, <1>11, <1>12, <1>13 DEF PipelineInv

\* What the server does to a connection leaves its writes in their order.
LEMMA ServerPipeline ==
    ASSUME PipelineInv, Commit \/ Refuse
    PROVE  PipelineInv'
<1> DEFINE acks == Append(wire.acks, Head(wire.sent))
<1> DEFINE sent == Tail(wire.sent)
<1>1. /\ wire.sent # << >> /\ ~ wire.refused
      /\ UNCHANGED <<queue, auth, tokens, worker, currentUser, nextBatchId, callbacks,
                     pipeline, stream, history, counters>>
  BY DEF Commit, Refuse
<1>2. IdsAscend' /\ PipelineIsHead' /\ CallbacksOfUsers' /\ CallbackOfItsWrite'
  BY <1>1, QueuesKept
<1>3. /\ wire \in Connection /\ wire.user \in User /\ queue[wire.user] \in Seq(Batch)
      /\ wire.acks \in Seq(Write) /\ wire.sent \in Seq(Write)
  BY StateTypes DEF PipelineInv
<1>4. CASE Commit
  <2>1. /\ log' = Append(log, [write |-> Head(wire.sent), as |-> wire.user])
        /\ wire' = [wire EXCEPT !.sent = sent, !.acks = acks]
    BY <1>4 DEF Commit
  <2>2. Head(wire.sent) \in Write /\ sent \in Seq(Write)
    BY <1>1, <1>3, Headless
  <2>3. acks \in Seq(Write)
    BY <1>3, <2>2, Appended
  <2>4. \A n \in Nat : Carries(wire.acks, wire.sent, queue[wire.user], n) =>
                       Carries(acks, sent, queue[wire.user], n)
    BY <1>1, <1>3, CarriesCommitted
  <2> HIDE DEF acks, sent
  <2>5. /\ wire' \in Connection /\ wire'.user = wire.user /\ wire'.open = wire.open
        /\ wire'.acks = acks /\ wire'.sent = sent /\ wire'.refused = FALSE
    BY <1>1, <1>3, <2>1, <2>2, <2>3 DEF Connection
  <2>6. StreamHasWire'
    BY <1>1, <2>5 DEF PipelineInv, StreamHasWire
  <2>7. WireIsHead'
    <3>1. Len(pipeline) \in Nat
      BY StateTypes DEF PipelineInv
    <3> QED
      BY <1>1, <2>4, <2>5, <3>1 DEF PipelineInv, WireIsHead
  <2>8. log' \in Seq([write : Write, as : User])
    <3>1. log \in Seq([write : Write, as : User])
      BY DEF PipelineInv, TypeOK
    <3>2. [write |-> Head(wire.sent), as |-> wire.user] \in [write : Write, as : User]
      BY <1>3, <2>2
    <3> QED
      BY <2>1, <3>1, <3>2, Appended
  <2>9. TypeOK'
    BY <1>1, <2>5, <2>8 DEF PipelineInv, TypeOK, auth, history, counters
  <2> QED
    BY <1>2, <2>6, <2>7, <2>9 DEF PipelineInv
<1>5. CASE Refuse
  <2>1. wire' = [wire EXCEPT !.refused = TRUE] /\ UNCHANGED log
    BY <1>5 DEF Refuse
  <2>2. /\ wire' \in Connection /\ wire'.user = wire.user /\ wire'.open = wire.open
        /\ wire'.acks = wire.acks /\ wire'.sent = wire.sent
    BY <1>3, <2>1 DEF Connection
  <2>3. StreamHasWire'
    BY <1>1, <2>2 DEF PipelineInv, StreamHasWire
  <2>4. WireIsHead'
    BY <1>1, <2>2 DEF PipelineInv, WireIsHead
  <2>5. TypeOK'
    BY <1>1, <2>1, <2>2 DEF PipelineInv, TypeOK, auth, history, counters
  <2> QED
    BY <1>2, <2>3, <2>4, <2>5 DEF PipelineInv
<1> QED
  BY <1>4, <1>5

LEMMA InitPipeline ==
    ASSUME Init
    PROVE  PipelineInv
<1> USE DEF Init
<1>1. TypeOK
  <2>1. stream \in Stream /\ wire \in Connection
    BY DEF Stream, Started, Connection
  <2>2. \A u \in User : callbacks[u] \in [DOMAIN callbacks[u] -> Write]
    OBVIOUS
  <2> QED
    BY <2>1, <2>2 DEF TypeOK
<1>2. CallbacksOfUsers /\ CallbackOfItsWrite
  <2>1. \A u \in User : callbacks[u] = << >> /\ DOMAIN callbacks[u] = {}
    OBVIOUS
  <2> QED
    BY <2>1 DEF CallbacksOfUsers, CallbackOfItsWrite
<1>3. IdsAscend
  BY DEF IdsAscend, Ascending
<1>4. PipelineIsHead
  BY DEF PipelineIsHead, PartOf
<1>5. StreamHasWire
  BY DEF StreamHasWire
<1>6. WireIsHead
  <2>1. Carries(wire.acks, wire.sent, queue[wire.user], 0)
    BY DEF Carries
  <2> QED
    BY <2>1 DEF WireIsHead
<1> QED
  BY <1>1, <1>2, <1>3, <1>4, <1>5, <1>6 DEF PipelineInv

\* Every step keeps the pipeline and the connection in order, as long as the
\* stream works under the current user's token.
LEMMA NextPipeline ==
    ASSUME PipelineInv, StreamOfUser, [Next]_vars
    PROVE  PipelineInv'
<1>1. CASE Next
  BY <1>1, WriteMutationsPipeline, HandleCredentialChangePipeline, ResumePipeline,
     HandshakePipeline, MutationResultPipeline, HandleWriteErrorPipeline, TimersPipeline,
     AuthPipeline, ServerPipeline, WriteStreamClosePipeline, OnConnectivityChangePipeline,
     RestartPipeline DEF Next, WorkerStep
<1>2. CASE UNCHANGED vars
  <2>1. UNCHANGED client
    BY <1>2 DEF vars, client
  <2>2. TypeOK'
    BY <1>2 DEF PipelineInv, TypeOK, vars, auth, history, counters
  <2> QED
    BY <2>1, <2>2, ClientKept
<1> QED
  BY <1>1, <1>2
=============================================================================
