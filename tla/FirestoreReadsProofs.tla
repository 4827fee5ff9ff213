------------------------- MODULE FirestoreReadsProofs -------------------------
(***************************************************************************)
(* Proofs about FirestoreReads, for any users, documents and bounds.       *)
(***************************************************************************)
EXTENDS FirestoreReads, WellFoundedInduction, FiniteSetTheorems, TLAPS

Doc     == Document(Content)
Known   == {d \in Doc : d.version <= Clock /\ (d.type = "invalid" => d = Invalid)}
Reads   == [key : Key, stage : {"unused", "listening", "raised", "done"}]
View    == [on : BOOLEAN, doc : Doc, current : BOOLEAN, synced : BOOLEAN,
            limbo : BOOLEAN, token : 0 .. Clock, since : 0 .. Clock]
Online  == [state : {"Unknown", "Online", "Offline"}, timer : BOOLEAN, failed : BOOLEAN]
Stream  == [state : {"Initial", "Starting", "Backoff", "Open", "Error"}, idle : BOOLEAN]
Target  == [known : BOOLEAN, pending : Int, current : BOOLEAN,
            change : {"None", "Added", "Modified", "Removed"}]
Request == [kind : {"watch", "unwatch"}, key : Key, token : 0 .. Clock]
Message == [kind : {"added", "removed", "error", "current"}, key : Key]
           \cup [kind : {"doc"}, key : Key, doc : Known]
           \cup [kind : {"snapshot"}, version : 1 .. Clock]
Sub     == [on : BOOLEAN, at : 0 .. Clock, current : BOOLEAN]
Commit  == [keys : SUBSET Key, content : Content \cup {0}]

-----------------------------------------------------------------------------
(* Numbers and recursive functions.                                        *)

\* A set of numbers has a least one.
LEMMA Least ==
    ASSUME NEW S \in SUBSET Nat, S # {}
    PROVE  \E m \in S : \A s \in S : m <= s
<1> DEFINE R == {ss \in Nat \X Nat : ss[1] < ss[2]}
<1>1. PICK m \in S : \A s \in S : <<s, m>> \notin R
  <2>1. IsWellFoundedOn(R, Nat)
    BY NatLessThanWellFounded, Zenon DEF OpToRel
  <2>2. IsWellFoundedOn(R, S)
    BY <2>1, IsWellFoundedOnSubset, Zenon
  <2> HIDE DEF R
  <2> QED
    BY <2>2, WFMin, Zenon
<1>2. \A s, n \in Nat : <<s, n>> \notin R => n <= s
  OBVIOUS
<1> QED
  BY <1>1, <1>2

\* A set of numbers that has a bound has a greatest one.
LEMMA Greatest ==
    ASSUME NEW n \in Nat, NEW S \in SUBSET (0 .. n), S # {}
    PROVE  \E m \in S : \A s \in S : s <= m
<1> DEFINE T == {t \in 0 .. n : n - t \in S}
<1>1. T \in SUBSET Nat /\ \A s \in S : n - s \in T
  OBVIOUS
<1>2. PICK t \in T : \A u \in T : t <= u
  <2>1. T # {}
    BY <1>1
  <2> HIDE DEF T
  <2> QED
    BY <1>1, <2>1, Least, Zenon
<1>3. n - t \in S /\ \A s \in S : t <= n - s
  BY <1>1, <1>2
<1> QED
  BY <1>3

\* What holds at 0, and at n + 1 whenever at n, holds up to n.
LEMMA UpTo ==
    ASSUME NEW n \in Nat, NEW S \in SUBSET (0 .. n), 0 \in S,
           \A i \in 0 .. n - 1 : i \in S => i + 1 \in S
    PROVE  S = 0 .. n
<1> DEFINE T == (0 .. n) \ S
<1>1. SUFFICES ASSUME T # {} PROVE FALSE
  OBVIOUS
<1>2. T \in SUBSET Nat
  OBVIOUS
<1>3. PICK m \in T : \A t \in T : m <= t
  <2> HIDE DEF T
  <2> QED
    BY <1>1, <1>2, Least, Zenon
<1>4. m # 0 /\ m - 1 \in 0 .. n - 1 /\ m - 1 \in S
  BY <1>3
<1>5. m - 1 + 1 \in S
  BY <1>4
<1> QED
  BY <1>3, <1>5

-----------------------------------------------------------------------------
(* The local document under a queue.                                       *)

\* The documents after the first, the second, ... batch of q.
Overlays(local, d, q, k) ==
    /\ local[0] = d
    /\ \A i \in 1 .. Len(q) :
          local[i] = IF q[i].key = k THEN ApplyToLocalView(q[i], local[i - 1])
                     ELSE local[i - 1]

\* GetDocument applies the batches one after the other.
LEMMA LocalView ==
    ASSUME NEW d, NEW k, NEW S, NEW q \in Seq(S)
    PROVE  \E local : Overlays(local, d, q, k) /\ GetDocument(d, q, k) = local[Len(q)]
<1> DEFINE n == Len(q)
<1> DEFINE next(i, v) == IF i = 0 THEN d
                         ELSE IF q[i].key = k THEN ApplyToLocalView(q[i], v) ELSE v
<1> DEFINE Body(f) == [i \in 0 .. n |-> next(i, f[i - 1])]
<1> DEFINE whole == CHOOSE f : f = Body(f)
<1>1. GetDocument(d, q, k) = whole[n]
  BY DEF GetDocument
<1>2. n \in Nat
  OBVIOUS
<1>3. \A v : next(0, v) = d
  OBVIOUS
<1>4. \A i \in 1 .. n : \A v : next(i, v) = IF q[i].key = k THEN ApplyToLocalView(q[i], v) ELSE v
  OBVIOUS
<1> HIDE DEF n, next
<1> DEFINE Upto(f, m) == \A i \in 0 .. m : f[i] = next(i, f[i - 1])
<1> DEFINE T == {m \in 0 .. n : \E f : Upto(f, m)}
<1>5. 0 \in T
  <2>1. Upto([i \in 0 .. 0 |-> d], 0)
    BY <1>3
  <2> QED
    BY <1>2, <2>1
<1>6. ASSUME NEW m \in 0 .. n - 1, m \in T
      PROVE  m + 1 \in T
  <2>1. PICK f : Upto(f, m)
    BY <1>6
  <2> DEFINE g == [i \in 0 .. m + 1 |-> IF i = m + 1 THEN next(i, f[m]) ELSE f[i]]
  <2>2. Upto(g, m + 1)
    BY <1>2, <1>3, <2>1
  <2>3. \E f1 : Upto(f1, m + 1)
    BY <2>2
  <2>4. m + 1 \in 0 .. n
    BY <1>2
  <2> QED
    BY <2>3, <2>4
<1>7. T = 0 .. n
  <2>1. T \in SUBSET (0 .. n)
    OBVIOUS
  <2> HIDE DEF T
  <2> QED
    BY <1>2, <1>5, <1>6, <2>1, UpTo
<1>8. \E f : f = Body(f)
  <2>1. PICK f : Upto(f, n)
    BY <1>2, <1>7, SMTT(20)
  <2> DEFINE g == [i \in 0 .. n |-> f[i]]
  <2>2. g = Body(g)
    BY <1>2, <1>3, <2>1
  <2> QED
    BY <2>2
<1>9. whole = Body(whole)
  BY <1>8
<1> HIDE DEF whole
<1>10. whole[0] = d /\ \A i \in 1 .. n : whole[i] = next(i, whole[i - 1])
  BY <1>2, <1>3, <1>9
<1>11. Overlays(whole, d, q, k)
  BY <1>4, <1>10 DEF Overlays, n
<1> QED
  BY <1>1, <1>11 DEF n

\* f and g take the same steps from one document on, g shift batches later.
InStep(f, g, n, shift) ==
    /\ f[0] = g[shift]
    /\ \A i \in 0 .. n - 1 : f[i] = g[i + shift] => f[i + 1] = g[i + 1 + shift]

\* Two ways through queues that take the same steps stay together.
LEMMA Together ==
    ASSUME NEW n \in Nat, NEW shift \in Nat, NEW f, NEW g, InStep(f, g, n, shift)
    PROVE  f[n] = g[n + shift]
<1> DEFINE T == {i \in 0 .. n : f[i] = g[i + shift]}
<1>1. 0 \in T /\ T \in SUBSET (0 .. n)
  BY DEF InStep
<1>2. \A i \in 0 .. n - 1 : i \in T => i + 1 \in T
  BY DEF InStep
<1>3. T = 0 .. n
  <2> HIDE DEF T
  <2> QED
    BY <1>1, <1>2, UpTo
<1> QED
  BY <1>3

\* A batch for another document changes nothing.
LEMMA AppendedApart ==
    ASSUME NEW d, NEW k, NEW S, NEW q \in Seq(S), NEW m \in S, m.key # k
    PROVE  GetDocument(d, Append(q, m), k) = GetDocument(d, q, k)
<1> DEFINE r == Append(q, m)
<1> DEFINE n == Len(q)
<1>1. n \in Nat /\ r \in Seq(S) /\ Len(r) = n + 1 /\ r[n + 1] = m
      /\ \A i \in 1 .. n : r[i] = q[i]
  OBVIOUS
<1> HIDE DEF r
<1>2. PICK f : Overlays(f, d, q, k) /\ GetDocument(d, q, k) = f[n]
  BY LocalView
<1>3. PICK g : Overlays(g, d, r, k) /\ GetDocument(d, r, k) = g[n + 1]
  BY <1>1, LocalView
<1>4. g[n + 1] = g[n]
  BY <1>1, <1>3 DEF Overlays
<1>5. f[0] = g[0] /\ \A i \in 0 .. n - 1 : f[i] = g[i] => f[i + 1] = g[i + 1]
  <2>1. f[0] = g[0]
    BY <1>2, <1>3 DEF Overlays
  <2>2. ASSUME NEW i \in 0 .. n - 1, f[i] = g[i]
        PROVE  f[i + 1] = g[i + 1]
    <3>1. i + 1 \in 1 .. n /\ i + 1 \in 1 .. Len(r) /\ (i + 1) - 1 = i
      BY <1>1
    <3> QED
      BY <1>1, <1>2, <1>3, <2>2, <3>1 DEF Overlays
  <2> QED
    BY <2>1, <2>2
<1>6. f[n] = g[n]
  <2>1. InStep(f, g, n, 0) /\ 0 \in Nat
    BY <1>1, <1>5 DEF InStep
  <2>2. n \in Nat
    BY <1>1
  <2>3. f[n] = g[n + 0]
    <3> HIDE DEF n
    <3> QED
      BY <2>1, <2>2, Together
  <2> QED
    BY <1>1, <2>3
<1> QED
  BY <1>2, <1>3, <1>4, <1>6 DEF r

\* The oldest batch changes nothing that is for another document.
LEMMA TakenApart ==
    ASSUME NEW d, NEW k, NEW S, NEW q \in Seq(S), q # << >>, Head(q).key # k
    PROVE  GetDocument(d, Tail(q), k) = GetDocument(d, q, k)
<1> DEFINE r == Tail(q)
<1> DEFINE n == Len(q) - 1
<1>1. n \in Nat /\ r \in Seq(S) /\ Len(r) = n /\ Len(q) = n + 1 /\ q[1].key # k
      /\ \A i \in 1 .. n : r[i] = q[i + 1]
  OBVIOUS
<1> HIDE DEF r, n
<1>2. PICK f : Overlays(f, d, r, k) /\ GetDocument(d, r, k) = f[n]
  <2>1. \E f : Overlays(f, d, r, k) /\ GetDocument(d, r, k) = f[Len(r)]
    BY <1>1, LocalView
  <2> QED
    BY <1>1, <2>1
<1>3. PICK g : Overlays(g, d, q, k) /\ GetDocument(d, q, k) = g[n + 1]
  BY <1>1, LocalView
<1>4. f[0] = g[1]
  <2>1. g[1] = g[0]
    BY <1>1, <1>3 DEF Overlays
  <2> QED
    BY <1>2, <1>3, <2>1 DEF Overlays
<1>5. ASSUME NEW i \in 0 .. n - 1, f[i] = g[i + 1]
      PROVE  f[i + 1] = g[i + 1 + 1]
  <2>1. /\ i + 1 \in 1 .. n /\ i + 1 \in 1 .. Len(r) /\ (i + 1) - 1 = i
        /\ i + 1 + 1 \in 1 .. Len(q) /\ (i + 1 + 1) - 1 = i + 1
    BY <1>1
  <2>2. f[i + 1] = IF r[i + 1].key = k THEN ApplyToLocalView(r[i + 1], f[i]) ELSE f[i]
    BY <1>2, <2>1 DEF Overlays
  <2>3. g[i + 1 + 1] = IF q[i + 1 + 1].key = k
                       THEN ApplyToLocalView(q[i + 1 + 1], g[i + 1]) ELSE g[i + 1]
    BY <1>3, <2>1 DEF Overlays
  <2>4. r[i + 1] = q[i + 1 + 1]
    BY <1>1, <2>1
  <2> QED
    BY <1>5, <2>2, <2>3, <2>4
<1>6. f[n] = g[n + 1]
  <2>1. InStep(f, g, n, 1) /\ 1 \in Nat
    BY <1>4, <1>5 DEF InStep
  <2>2. n \in Nat
    BY <1>1
  <2> QED
    BY <2>1, <2>2, Together
<1> QED
  BY <1>2, <1>3, <1>6 DEF r

\* A queue with no batch for it leaves a document alone.
LEMMA NothingApplied ==
    ASSUME NEW d, NEW k, NEW S, NEW q \in Seq(S), k \notin Keys(q)
    PROVE  GetDocument(d, q, k) = d
<1> DEFINE n == Len(q)
<1>1. n \in Nat /\ \A i \in 1 .. n : q[i].key # k
  BY DEF Keys
<1>2. PICK f : Overlays(f, d, q, k) /\ GetDocument(d, q, k) = f[n]
  BY LocalView
<1> DEFINE g == [i \in 0 .. n |-> d]
<1>3. f[0] = g[0] /\ \A i \in 0 .. n - 1 : f[i] = g[i + 0] => f[i + 1] = g[i + 1 + 0]
  <2>1. f[0] = g[0]
    BY <1>1, <1>2 DEF Overlays
  <2>2. ASSUME NEW i \in 0 .. n - 1
        PROVE  f[i + 1] = f[i]
    <3>1. i + 1 \in 1 .. n /\ (i + 1) - 1 = i
      BY <1>1
    <3> QED
      BY <1>1, <1>2, <3>1 DEF Overlays
  <2> QED
    BY <1>1, <2>1, <2>2
<1>4. f[n] = g[n]
  <2>1. InStep(f, g, n, 0) /\ 0 \in Nat /\ n \in Nat
    BY <1>1, <1>3 DEF InStep
  <2>2. f[n] = g[n + 0]
    <3> HIDE DEF g, n
    <3> QED
      BY <2>1, Together
  <2> QED
    BY <1>1, <2>2
<1> QED
  BY <1>1, <1>2, <1>4

-----------------------------------------------------------------------------
(* The types, with what keeps them.                                        *)

LEMMA BoundsAreNumbers ==
    /\ MaxGets \in Nat /\ MaxWrites \in Nat /\ MaxOthers \in Nat
    /\ MaxSignIns \in Nat /\ MaxFaults \in Nat /\ MaxDenials \in Nat
    /\ MaxCrashes \in Nat
  BY FirestoreReadsAssumption

USE BoundsAreNumbers

\* What the device reads with: calls, listeners, views and the online state.
ReaderOK ==
    /\ gets \in [Get -> Reads]
    /\ listeners \in [Key -> SUBSET Get]
    /\ view \in [Key -> View]
    /\ online \in Online

\* The cache and what is saved with it.
CacheOK ==
    /\ cache \in [Key -> Known]
    /\ saved \in [Key -> 0 .. Clock]
    /\ matching \in SUBSET Key
    /\ lastRemote \in 0 .. Clock

\* The queues, and the server that takes the current one from its head on.
WritesOK ==
    /\ log \in Seq(Commit)
    /\ queue \in [User -> Seq(Mutation)]
    /\ currentUser \in User
    /\ acks \in Seq(1 .. Clock)
    /\ Len(acks) <= Len(queue[currentUser])

\* The watch stream; no document on it is newer than the server's last commit.
WatchOK ==
    /\ stream \in Stream
    /\ aggregator \in [Key -> Target]
    /\ updates \in [Key -> Known]
    /\ toServer \in Seq(Request)
    /\ toClient \in Seq(Message)
    /\ sub \in [Key -> Sub]

Counted == bounds \in [DOMAIN Limits -> Nat]

Types == ReaderOK /\ CacheOK /\ WritesOK /\ WatchOK /\ Counted

\* The types of FirestoreReads follow.
LEMMA TypesSuffice == Types => TypeOK
<1> SUFFICES ASSUME Types PROVE TypeOK
  OBVIOUS
<1>1. Clock \in Nat
  BY DEF Types, WritesOK, Clock
<1>2. /\ log \in Seq([keys : SUBSET Key, content : Content \cup {0}])
      /\ queue \in [User -> Seq(Mutation)]
      /\ currentUser \in User
      /\ acks \in Seq(1 .. Clock)
  BY DEF Types, WritesOK, Commit
<1>3. /\ cache \in [Key -> Document(Content)]
      /\ \A k \in Key : cache[k].version <= Clock
      /\ saved \in [Key -> 0 .. Clock]
      /\ matching \in SUBSET Key
      /\ lastRemote \in 0 .. Clock
  BY DEF Types, CacheOK, Known, Doc
<1>4. /\ gets \in [Get -> Reads] /\ listeners \in [Key -> SUBSET Get]
      /\ view \in [Key -> View] /\ online \in Online
  BY DEF Types, ReaderOK
<1>5. /\ stream \in Stream /\ aggregator \in [Key -> Target]
      /\ toServer \in Seq(Request) /\ sub \in [Key -> Sub]
  BY DEF Types, WatchOK
<1>6. updates \in [Key -> Document(Content)]
  BY DEF Types, WatchOK, Known, Doc
<1>7. toClient \in Seq([kind : {"added", "removed", "error", "current"}, key : Key]
                       \cup [kind : {"doc"}, key : Key, doc : Document(Content)]
                       \cup [kind : {"snapshot"}, version : 1 .. Clock])
  <2> DEFINE Wire == [kind : {"added", "removed", "error", "current"}, key : Key]
                     \cup [kind : {"doc"}, key : Key, doc : Document(Content)]
                     \cup [kind : {"snapshot"}, version : 1 .. Clock]
  <2>1. Message \subseteq Wire
    <3>1. Known \subseteq Document(Content)
      BY DEF Known, Doc
    <3> QED
      BY <3>1 DEF Message
  <2>2. toClient \in Seq(Message)
    BY DEF Types, WatchOK
  <2> HIDE DEF Wire
  <2>3. toClient \in Seq(Wire)
    BY <2>1, <2>2
  <2> QED
    BY <2>3 DEF Wire
<1> QED
  BY <1>2, <1>3, <1>4, <1>5, <1>6, <1>7
     DEF TypeOK, Types, Counted, Reads, View, Online, Stream, Target, Request, Sub, Doc

\* The server's clock only goes forward, and the types with it.
LEMMA Wider ==
    ASSUME WritesOK, WritesOK', Len(log) <= Len(log')
    PROVE  /\ Clock \in Nat \ {0} /\ Clock' \in Nat \ {0}
           /\ Clock <= Clock'
           /\ 0 .. Clock \subseteq 0 .. Clock'
           /\ 1 .. Clock \subseteq 1 .. Clock'
           /\ Known \subseteq Known'
           /\ View \subseteq View'
           /\ Request \subseteq Request'
           /\ Message \subseteq Message'
           /\ Sub \subseteq Sub'
<1>1. Clock \in Nat \ {0} /\ Clock' \in Nat \ {0} /\ Clock <= Clock'
  BY DEF WritesOK, Clock
<1>2. 0 .. Clock \subseteq 0 .. Clock' /\ 1 .. Clock \subseteq 1 .. Clock'
  BY <1>1
<1>3. Known \subseteq Known'
  <2>1. \A d \in Doc : d.version \in Nat
    BY DEF Doc, Document
  <2> QED
    BY <1>1, <2>1 DEF Known
<1>4. View \subseteq View'
  BY <1>2 DEF View
<1>5. Request \subseteq Request'
  BY <1>2 DEF Request
<1>6. Message \subseteq Message'
  BY <1>2, <1>3 DEF Message
<1>7. Sub \subseteq Sub'
  BY <1>2 DEF Sub
<1> QED
  BY <1>1, <1>2, <1>3, <1>4, <1>5, <1>6, <1>7

\* A sequence of one set is a sequence of any larger one.
LEMMA SeqWider ==
    ASSUME NEW S, NEW T, S \subseteq T, NEW s \in Seq(S)
    PROVE  s \in Seq(T)
  OBVIOUS

-----------------------------------------------------------------------------
(* Documents.                                                              *)

LEMMA InvalidType == Invalid \in Doc /\ Invalid.version = 0
  BY DEF Invalid, Doc, Document

\* The app's contents are contents.
LEMMA MutationContent == \A m \in Mutation : m.no \in Content
  BY DEF Mutation, Content

\* A mutation makes a document of a document.
LEMMA MutationTypes ==
    ASSUME NEW d \in Doc, NEW m \in Mutation
    PROVE  /\ ApplyToLocalView(m, d) \in Doc
           /\ \A v \in Nat : /\ ApplyToRemoteDocument(m, d, v) \in Doc
                             /\ ApplyToRemoteDocument(m, d, v).version = v
                             /\ ApplyToRemoteDocument(m, d, v).type # "invalid"
<1>1. m.no \in Content
  BY MutationContent
<1>2. d.version \in Nat
  BY DEF Doc, Document
<1>3. /\ FoundDocument(m.no, IF d.type = "found" THEN d.version ELSE 0, "local") \in Doc
      /\ NoDocument(0, "synced") \in Doc
  BY <1>1, <1>2 DEF Doc, Document, FoundDocument, NoDocument
<1>4. ApplyToLocalView(m, d) \in Doc
  BY <1>3 DEF ApplyToLocalView
<1>5. ASSUME NEW v \in Nat
      PROVE  /\ ApplyToRemoteDocument(m, d, v) \in Doc
             /\ ApplyToRemoteDocument(m, d, v).version = v
             /\ ApplyToRemoteDocument(m, d, v).type # "invalid"
  BY <1>1 DEF Doc, Document, FoundDocument, NoDocument, ApplyToRemoteDocument
<1> QED
  BY <1>4, <1>5

\* The local document is one, whatever the queue.
LEMMA LocalType ==
    ASSUME NEW d \in Doc, NEW k, NEW q \in Seq(Mutation)
    PROVE  GetDocument(d, q, k) \in Doc
<1> DEFINE n == Len(q)
<1>1. n \in Nat /\ \A i \in 1 .. n : q[i] \in Mutation
  OBVIOUS
<1>2. PICK f : Overlays(f, d, q, k) /\ GetDocument(d, q, k) = f[n]
  BY LocalView
<1> HIDE DEF n
<1> DEFINE T == {i \in 0 .. n : f[i] \in Doc}
<1>3. 0 \in T /\ T \in SUBSET (0 .. n)
  BY <1>1, <1>2 DEF Overlays
<1>4. ASSUME NEW i \in 0 .. n - 1, i \in T
      PROVE  i + 1 \in T
  <2>1. i + 1 \in 1 .. n /\ (i + 1) - 1 = i /\ q[i + 1] \in Mutation
    BY <1>1
  <2>2. f[i] \in Doc
    BY <1>4
  <2>3. f[i + 1] = IF q[i + 1].key = k THEN ApplyToLocalView(q[i + 1], f[i]) ELSE f[i]
    BY <1>2, <2>1 DEF Overlays, n
  <2>4. f[i + 1] \in Doc
    BY <2>1, <2>2, <2>3, MutationTypes
  <2> QED
    BY <2>1, <2>4
<1>5. T = 0 .. n
  <2> HIDE DEF T
  <2> QED
    BY <1>1, <1>3, <1>4, UpTo
<1> QED
  BY <1>1, <1>2, <1>5

\* A view shows a document.
LEMMA ShownType ==
    ASSUME NEW d \in Doc, NEW n \in Doc
    PROVE  Shown(d, n) \in Doc
  BY InvalidType DEF Shown

LEMMA ApplyChangesType ==
    ASSUME NEW v \in View, NEW d \in Doc, NEW current \in BOOLEAN, NEW synced \in BOOLEAN
    PROVE  /\ ApplyChanges(v, d, current, synced) \in View
           /\ ApplyChanges(v, d, current, synced).on = v.on
           /\ ApplyChanges(v, d, current, synced).doc = d
           /\ ApplyChanges(v, d, current, synced).current = current
           /\ ApplyChanges(v, d, current, synced).synced = synced
           /\ ApplyChanges(v, d, current, synced).token = v.token
<1>1. (Found(d) /\ ~ synced /\ d.state # "local") \in BOOLEAN
  OBVIOUS
<1>2. \A b \in BOOLEAN :
         [v EXCEPT !.doc = d, !.current = current, !.synced = synced, !.limbo = b] \in View
  BY DEF View
<1>3. v.limbo \in BOOLEAN
  BY DEF View
<1> DEFINE b == IF current THEN Found(d) /\ ~ synced /\ d.state # "local" ELSE v.limbo
<1>4. b \in BOOLEAN
  BY <1>1, <1>3
<1>5. ApplyChanges(v, d, current, synced) =
         [v EXCEPT !.doc = d, !.current = current, !.synced = synced, !.limbo = b]
  BY DEF ApplyChanges, View
<1> HIDE DEF b
<1> QED
  BY <1>2, <1>4, <1>5 DEF View

\* Changes to some documents.
LEMMA EmitTypes ==
    ASSUME ReaderOK, NEW c \in [Key -> Doc], NEW q \in Seq(Mutation), NEW keys
    PROVE  /\ Emit(keys, c, q) \in [Key -> View]
           /\ \A k \in Key : /\ Emit(keys, c, q)[k].on = view[k].on
                             /\ Emit(keys, c, q)[k].synced = view[k].synced
                             /\ Emit(keys, c, q)[k].current = view[k].current
                             /\ Emit(keys, c, q)[k].token = view[k].token
<1> DEFINE shown(k) == ApplyChanges(view[k], Shown(view[k].doc, GetDocument(c[k], q, k)),
                                    view[k].current, view[k].synced)
<1>1. ASSUME NEW k \in Key
      PROVE  /\ shown(k) \in View /\ shown(k).on = view[k].on
             /\ shown(k).synced = view[k].synced
             /\ shown(k).current = view[k].current /\ shown(k).token = view[k].token
  <2>1. view[k] \in View
    BY DEF ReaderOK
  <2>2. view[k].doc \in Doc /\ view[k].current \in BOOLEAN /\ view[k].synced \in BOOLEAN
    BY <2>1 DEF View
  <2>3. Shown(view[k].doc, GetDocument(c[k], q, k)) \in Doc
    BY <2>2, LocalType, ShownType
  <2> QED
    BY <2>1, <2>2, <2>3, ApplyChangesType
<1>2. Emit(keys, c, q) = [k \in Key |-> IF view[k].on /\ k \in keys THEN shown(k) ELSE view[k]]
  BY DEF Emit
<1> HIDE DEF shown
<1> QED
  BY <1>1, <1>2 DEF ReaderOK

\* Views that go offline.
LEMMA OfflineTypes ==
    ASSUME NEW views \in [Key -> View], NEW o
    PROVE  /\ ApplyOnlineStateChange(views, o) \in [Key -> View]
           /\ \A k \in Key : /\ ApplyOnlineStateChange(views, o)[k].on = views[k].on
                             /\ ApplyOnlineStateChange(views, o)[k].doc = views[k].doc
                             /\ ApplyOnlineStateChange(views, o)[k].synced = views[k].synced
                             /\ ApplyOnlineStateChange(views, o)[k].token = views[k].token
<1> DEFINE shown(k) == ApplyChanges(views[k], views[k].doc, FALSE, views[k].synced)
<1>1. ASSUME NEW k \in Key
      PROVE  /\ shown(k) \in View /\ shown(k).on = views[k].on
             /\ shown(k).doc = views[k].doc
             /\ shown(k).synced = views[k].synced /\ shown(k).token = views[k].token
  <2>1. views[k] \in View
    OBVIOUS
  <2>2. views[k].doc \in Doc /\ views[k].synced \in BOOLEAN
    BY <2>1 DEF View
  <2> DEFINE off  == FALSE
             w    == ApplyChanges(views[k], views[k].doc, off, views[k].synced)
  <2>3. off \in BOOLEAN
    OBVIOUS
  <2>4. /\ w \in View /\ w.on = views[k].on /\ w.doc = views[k].doc
        /\ w.synced = views[k].synced /\ w.token = views[k].token
    <3> HIDE DEF off
    <3> QED
      BY <2>1, <2>2, <2>3, ApplyChangesType
  <2>5. shown(k) = w
    OBVIOUS
  <2> HIDE DEF shown, w
  <2> QED
    BY <2>4, <2>5
<1>2. ApplyOnlineStateChange(views, o) =
         [k \in Key |-> IF o.state = "Offline" /\ views[k].current THEN shown(k) ELSE views[k]]
  BY DEF ApplyOnlineStateChange
<1> HIDE DEF shown
<1> QED
  BY <1>1, <1>2

\* What is published has its type; no view opens or closes by it, or shows
\* something else.
LEMMA PublishTypes ==
    ASSUME NEW views \in [Key -> View], NEW o \in Online, NEW calls \in [Get -> Reads],
           NEW heard, Publish(views, o, calls, heard)
    PROVE  /\ view' \in [Key -> View]
           /\ \A k \in Key : /\ view'[k].on = views[k].on
                             /\ view'[k].doc = views[k].doc
                             /\ view'[k].synced = views[k].synced
                             /\ view'[k].token = views[k].token
           /\ online' = o
           /\ gets' \in [Get -> Reads]
<1>1. view' = ApplyOnlineStateChange(views, o) /\ online' = o
  BY DEF Publish
<1>2. gets' \in [Get -> Reads]
  <2>1. \A g \in Get : [calls[g] EXCEPT !.stage = "raised"] \in Reads
    BY DEF Reads
  <2>2. \A g \in Get : gets'[g] \in {calls[g], [calls[g] EXCEPT !.stage = "raised"]}
    BY DEF Publish
  <2>3. gets' = [g \in Get |-> gets'[g]]
    BY DEF Publish
  <2> QED
    BY <2>1, <2>2, <2>3
<1> QED
  BY <1>1, <1>2, OfflineTypes

-----------------------------------------------------------------------------
(* The steps keep the types.                                               *)

\* Each group of types holds after a step if its variables have, then, the types
\* of before: the clock goes forward.
LEMMA Kept ==
    ASSUME WritesOK, WritesOK', Len(log) <= Len(log')
    PROVE  /\ (/\ gets' \in [Get -> Reads] /\ listeners' \in [Key -> SUBSET Get]
               /\ view' \in [Key -> View] /\ online' \in Online) => ReaderOK'
           /\ (/\ cache' \in [Key -> Known]
               /\ saved' \in [Key -> 0 .. Clock] /\ matching' \in SUBSET Key
               /\ lastRemote' \in 0 .. Clock) => CacheOK'
           /\ (/\ stream' \in Stream /\ aggregator' \in [Key -> Target]
               /\ updates' \in [Key -> Known] /\ toServer' \in Seq(Request)
               /\ toClient' \in Seq(Message) /\ sub' \in [Key -> Sub]) => WatchOK'
<1>1. /\ 0 .. Clock \subseteq (0 .. Clock)' /\ Known \subseteq Known'
      /\ View \subseteq View' /\ Request \subseteq Request'
      /\ Message \subseteq Message' /\ Sub \subseteq Sub'
  BY Wider
<1>2. Get' = Get /\ Reads' = Reads /\ Online' = Online /\ Stream' = Stream /\ Target' = Target
  BY DEF Get, Reads, Online, Stream, Target
<1>3. ASSUME gets' \in [Get -> Reads], listeners' \in [Key -> SUBSET Get],
             view' \in [Key -> View], online' \in Online
      PROVE  ReaderOK'
  <2>1. view' \in [Key -> View']
    BY <1>1, <1>3
  <2> QED
    BY <1>2, <1>3, <2>1 DEF ReaderOK
<1>4. ASSUME cache' \in [Key -> Known],
             saved' \in [Key -> 0 .. Clock], matching' \in SUBSET Key,
             lastRemote' \in 0 .. Clock
      PROVE  CacheOK'
  <2>1. cache' \in [Key -> Known'] /\ saved' \in [Key -> (0 .. Clock)']
        /\ lastRemote' \in (0 .. Clock)'
    BY <1>1, <1>4
  <2> QED
    BY <1>4, <2>1 DEF CacheOK
<1>5. ASSUME stream' \in Stream, aggregator' \in [Key -> Target],
             updates' \in [Key -> Known], toServer' \in Seq(Request),
             toClient' \in Seq(Message), sub' \in [Key -> Sub]
      PROVE  WatchOK'
  <2>1. updates' \in [Key -> Known'] /\ sub' \in [Key -> Sub']
    BY <1>1, <1>5
  <2>2. toServer' \in Seq(Request') /\ toClient' \in Seq(Message')
    BY <1>1, <1>5, SeqWider
  <2> QED
    BY <1>2, <1>5, <2>1, <2>2 DEF WatchOK
<1> QED
  BY <1>3, <1>4, <1>5

LEMMA WritesKept ==
    WritesOK /\ UNCHANGED <<log, queue, currentUser, acks>> =>
        WritesOK' /\ Len(log) <= Len(log')
<1> SUFFICES ASSUME WritesOK, UNCHANGED <<log, queue, currentUser, acks>>
             PROVE  WritesOK' /\ Len(log) <= Len(log')
  OBVIOUS
<1>1. Clock' = Clock /\ Commit' = Commit
  BY DEF Clock, Commit
<1> QED
  BY <1>1 DEF WritesOK

\* Something bounded happens once more.
LEMMA UsesCounts ==
    ASSUME Counted, NEW b \in DOMAIN Limits, Uses(b)
    PROVE  Counted' /\ bounds'[b] \in 1 .. Limits[b]
<1>1. Limits[b] \in Nat
  BY DEF Limits
<1>2. bounds[b] \in Nat /\ bounds' = [bounds EXCEPT ![b] = @ + 1] /\ bounds[b] < Limits[b]
  BY DEF Counted, Uses
<1>3. bounds' \in [DOMAIN Limits -> Nat] /\ bounds'[b] = bounds[b] + 1
  <2> DEFINE D == DOMAIN Limits
  <2>1. bounds \in [D -> Nat] /\ b \in D
    BY DEF Counted
  <2> HIDE DEF D
  <2>2. bounds' \in [D -> Nat] /\ bounds'[b] = bounds[b] + 1
    BY <1>2, <2>1
  <2> QED
    BY <2>2 DEF D
<1>4. Counted'
  BY <1>3 DEF Counted, Limits
<1> QED
  BY <1>1, <1>2, <1>3, <1>4

LEMMA CountedKept == Counted /\ UNCHANGED bounds => Counted'
  BY DEF Counted, Limits

\* The stream is gone.
LEMMA CleanedTypes ==
    ASSUME WritesOK, CleanUpWatchStreamState
    PROVE  /\ aggregator' \in [Key -> Target] /\ updates' \in [Key -> Known]
           /\ toServer' \in Seq(Request) /\ toClient' \in Seq(Message)
           /\ sub' \in [Key -> Sub]
<1>1. Clock \in Nat
  BY DEF WritesOK, Clock
<1>2. NoTarget \in Target /\ NoSub \in Sub
  BY <1>1 DEF NoTarget, Target, NoSub, Sub
<1>3. Invalid \in Known
  BY <1>1, InvalidType DEF Known
<1>4. toServer' \in Seq(Request) /\ toClient' \in Seq(Message)
  <2>1. toServer' = << >> /\ toClient' = << >>
    BY DEF CleanUpWatchStreamState
  <2> QED
    BY <2>1
<1> QED
  BY <1>2, <1>3, <1>4 DEF CleanUpWatchStreamState

\* The online state after a start, a failure or a message.
LEMMA OnlineTypes ==
    ASSUME NEW o \in Online
    PROVE  /\ HandleWatchStreamStart(o) \in Online
           /\ HandleWatchStreamFailure(o) \in Online
           /\ \A s \in {"Unknown", "Online", "Offline"} : UpdateState(s) \in Online
           /\ Unknown \in Online
  BY DEF Online, HandleWatchStreamStart, HandleWatchStreamFailure, UpdateState, Unknown

\* What a step that is about the stream alone leaves alone.
Elsewhere == <<log, disk, currentUser, acks>>

LEMMA ElsewhereKept ==
    Types /\ UNCHANGED Elsewhere => WritesOK' /\ CacheOK' /\ Len(log) <= Len(log')
<1> SUFFICES ASSUME Types, UNCHANGED Elsewhere
             PROVE  WritesOK' /\ CacheOK' /\ Len(log) <= Len(log')
  OBVIOUS
<1>1. WritesOK' /\ Len(log) <= Len(log')
  BY WritesKept DEF Types, Elsewhere, disk
<1>2. cache' = cache /\ saved' = saved /\ matching' = matching /\ lastRemote' = lastRemote
  BY DEF Elsewhere, disk
<1>3. CacheOK'
  BY <1>1, <1>2, Kept DEF Types, CacheOK
<1> QED
  BY <1>1, <1>3

\* The views are published; the rest of what is read with stays.
LEMMA PublishKeeps ==
    ASSUME Types, WritesOK', Len(log) <= Len(log'),
           NEW views \in [Key -> View], NEW o \in Online, NEW calls \in [Get -> Reads],
           NEW heard, Publish(views, o, calls, heard),
           listeners' \in [Key -> SUBSET Get]
    PROVE  ReaderOK'
<1>1. view' \in [Key -> View] /\ online' = o /\ gets' \in [Get -> Reads]
  BY PublishTypes
<1> QED
  BY <1>1, Kept DEF Types

LEMMA ReaderTyped ==
    Types => /\ view \in [Key -> View] /\ online \in Online /\ gets \in [Get -> Reads]
             /\ listeners \in [Key -> SUBSET Get]
  BY DEF Types, ReaderOK

LEMMA WatchTyped ==
    Types => /\ stream \in Stream /\ aggregator \in [Key -> Target]
             /\ updates \in [Key -> Known] /\ toServer \in Seq(Request)
             /\ toClient \in Seq(Message) /\ sub \in [Key -> Sub]
  BY DEF Types, WatchOK

\* One response more, or less, is awaited.
LEMMA PendingMoves ==
    ASSUME NEW t \in Target
    PROVE  /\ [t EXCEPT !.known = TRUE, !.pending = @ + 1] \in Target
           /\ [t EXCEPT !.known = TRUE, !.pending = @ - 1] \in Target
<1>1. t.pending + 1 \in Int /\ t.pending - 1 \in Int
  BY DEF Target
<1>2. \A p \in Int, b \in BOOLEAN : [t EXCEPT !.known = b, !.pending = p] \in Target
  BY DEF Target
<1>3. TRUE \in BOOLEAN
  OBVIOUS
<1> QED
  BY <1>1, <1>2, <1>3, Zenon

LEMMA OnlineStateTimeoutTypes == Types /\ OnlineStateTimeout => Types'
<1> SUFFICES ASSUME Types, OnlineStateTimeout PROVE Types'
  OBVIOUS
<1>1. UNCHANGED <<Elsewhere, listeners, watch, bounds>>
  BY DEF OnlineStateTimeout, Elsewhere, disk
<1>2. WritesOK' /\ CacheOK' /\ Len(log) <= Len(log')
  BY <1>1, ElsewhereKept
<1>3. ReaderOK'
  <2> DEFINE o == [online EXCEPT !.state = "Offline", !.timer = FALSE]
  <2>1. o \in Online
    BY ReaderTyped DEF Online
  <2>2. Publish(view, o, gets, listeners)
    BY DEF OnlineStateTimeout
  <2> HIDE DEF o
  <2> QED
    BY <1>1, <1>2, <2>1, <2>2, ReaderTyped, PublishKeeps
<1>4. WatchOK'
  BY <1>1, <1>2, WatchTyped, Kept DEF watch, Types
<1> QED
  BY <1>1, <1>2, <1>3, <1>4, CountedKept DEF Types

LEMMA OnWatchStreamCloseTypes == Types /\ OnWatchStreamClose => Types'
<1> SUFFICES ASSUME Types, OnWatchStreamClose PROVE Types'
  OBVIOUS
<1>1. UNCHANGED <<Elsewhere, listeners>> /\ CleanUpWatchStreamState
  BY DEF OnWatchStreamClose, Elsewhere, disk
<1>2. WritesOK' /\ CacheOK' /\ Len(log) <= Len(log')
  BY <1>1, ElsewhereKept
<1>3. ReaderOK'
  <2>1. PICK o \in Online : Publish(view, o, gets, listeners)
    BY ReaderTyped, OnlineTypes DEF OnWatchStreamClose
  <2> QED
    BY <1>1, <1>2, <2>1, ReaderTyped, PublishKeeps
<1>4. WatchOK'
  <2>1. stream' \in Stream
    <3>1. \/ stream' = [state |-> "Backoff", idle |-> FALSE]
          \/ stream' = [state |-> "Error", idle |-> FALSE]
      BY DEF OnWatchStreamClose
    <3>2. /\ [state |-> "Backoff", idle |-> FALSE] \in Stream
          /\ [state |-> "Error", idle |-> FALSE] \in Stream
      BY DEF Stream
    <3> QED
      BY <3>1, <3>2, Zenon
  <2> QED
    BY <1>1, <1>2, <2>1, CleanedTypes, Kept DEF Types
<1>5. Counted'
  BY UsesCounts DEF OnWatchStreamClose, Types, Limits
<1> QED
  BY <1>2, <1>3, <1>4, <1>5 DEF Types

\* RestartNetwork, whatever the views.
LEMMA RestartNetworkTypes ==
    ASSUME Types, WritesOK', Len(log) <= Len(log'), NEW views \in [Key -> View],
           RestartNetwork(views), UNCHANGED listeners
    PROVE  ReaderOK' /\ WatchOK'
<1>1. ReaderOK'
  <2>1. PICK o \in Online : Publish(views, o, gets, listeners)
    <3>1. UpdateState("Unknown") \in Online
      BY ReaderTyped, OnlineTypes
    <3>2. HandleWatchStreamStart(UpdateState("Unknown")) \in Online
      BY <3>1, OnlineTypes
    <3> QED
      BY <3>1, <3>2 DEF RestartNetwork
  <2> QED
    BY <2>1, ReaderTyped, PublishKeeps
<1>2. WatchOK'
  <2>1. stream' \in Stream
    <3>1. \/ stream' = [state |-> "Starting", idle |-> FALSE]
          \/ stream' = [state |-> "Initial", idle |-> FALSE]
      BY DEF RestartNetwork
    <3>2. /\ [state |-> "Starting", idle |-> FALSE] \in Stream
          /\ [state |-> "Initial", idle |-> FALSE] \in Stream
      BY DEF Stream
    <3> QED
      BY <3>1, <3>2, Zenon
  <2>2. CleanUpWatchStreamState
    BY DEF RestartNetwork
  <2> QED
    BY <2>1, <2>2, CleanedTypes, Kept DEF Types
<1> QED
  BY <1>1, <1>2

LEMMA OnConnectivityChangeTypes == Types /\ OnConnectivityChange => Types'
<1> SUFFICES ASSUME Types, OnConnectivityChange PROVE Types'
  OBVIOUS
<1>1. UNCHANGED <<Elsewhere, listeners>> /\ RestartNetwork(view)
  BY DEF OnConnectivityChange, Elsewhere, disk
<1>2. WritesOK' /\ CacheOK' /\ Len(log) <= Len(log')
  BY <1>1, ElsewhereKept
<1>3. ReaderOK' /\ WatchOK'
  BY <1>1, <1>2, ReaderTyped, RestartNetworkTypes
<1>4. Counted'
  BY UsesCounts DEF OnConnectivityChange, Types, Limits
<1> QED
  BY <1>2, <1>3, <1>4 DEF Types

LEMMA BackoffTimeoutTypes == Types /\ BackoffTimeout => Types'
<1> SUFFICES ASSUME Types, BackoffTimeout PROVE Types'
  OBVIOUS
<1>1. UNCHANGED <<Elsewhere, reader, aggregator, updates, toServer, toClient, sub, bounds>>
  BY DEF BackoffTimeout, Elsewhere, disk
<1>2. WritesOK' /\ CacheOK' /\ Len(log) <= Len(log')
  BY <1>1, ElsewhereKept
<1>3. ReaderOK'
  BY <1>1, <1>2, ReaderTyped, Kept DEF reader, Types
<1>4. WatchOK'
  <2>1. stream' \in Stream
    BY WatchTyped DEF BackoffTimeout, Stream
  <2> QED
    BY <1>1, <1>2, <2>1, WatchTyped, Kept DEF Types
<1> QED
  BY <1>1, <1>2, <1>3, <1>4, CountedKept DEF Types

LEMMA IdleTimeoutTypes == Types /\ IdleTimeout => Types'
<1> SUFFICES ASSUME Types, IdleTimeout PROVE Types'
  OBVIOUS
<1>1. UNCHANGED <<Elsewhere, listeners, bounds>> /\ CleanUpWatchStreamState
  BY DEF IdleTimeout, Elsewhere, disk
<1>2. WritesOK' /\ CacheOK' /\ Len(log) <= Len(log')
  BY <1>1, ElsewhereKept
<1>3. ReaderOK'
  <2>1. UpdateState("Unknown") \in Online /\ Publish(view, UpdateState("Unknown"), gets, listeners)
    BY ReaderTyped, OnlineTypes DEF IdleTimeout
  <2> QED
    BY <1>1, <1>2, <2>1, ReaderTyped, PublishKeeps
<1>4. WatchOK'
  <2>1. stream' \in Stream
    BY DEF IdleTimeout, Stream
  <2> QED
    BY <1>1, <1>2, <2>1, CleanedTypes, Kept DEF Types
<1> QED
  BY <1>1, <1>2, <1>3, <1>4, CountedKept DEF Types

LEMMA OnWatchStreamOpenTypes == Types /\ OnWatchStreamOpen => Types'
<1> SUFFICES ASSUME Types, OnWatchStreamOpen PROVE Types'
  OBVIOUS
<1>1. UNCHANGED <<Elsewhere, reader, updates, toClient, sub, bounds>>
  BY DEF OnWatchStreamOpen, Elsewhere, disk
<1>2. WritesOK' /\ CacheOK' /\ Len(log) <= Len(log')
  BY <1>1, ElsewhereKept
<1>3. ReaderOK'
  BY <1>1, <1>2, ReaderTyped, Kept DEF reader, Types
<1>4. WatchOK'
  <2>1. stream' \in Stream
    BY WatchTyped DEF OnWatchStreamOpen, Stream
  <2>2. aggregator' \in [Key -> Target]
    <3>1. \A t \in Target : [t EXCEPT !.known = TRUE, !.pending = @ + 1] \in Target
      BY PendingMoves, Zenon
    <3> QED
      BY <3>1, WatchTyped DEF OnWatchStreamOpen
  <2>3. toServer' \in Seq(Request)
    <3>1. \A k \in Key : WatchRequest(k, view[k].token) \in Request
      BY ReaderTyped DEF View, WatchRequest, Request
    <3>2. Listening(view) \subseteq Key
      BY DEF Listening
    <3> DEFINE n == Cardinality(Listening(view))
    <3>3. n \in Nat
      BY <3>2, FirestoreReadsAssumption, FS_Subset, FS_CardinalityType, Zenon
    <3>4. PICK order \in [1 .. n -> Listening(view)] :
             toServer' = [i \in 1 .. n |-> WatchRequest(order[i], view[order[i]].token)]
      BY DEF OnWatchStreamOpen
    <3> HIDE DEF n
    <3> QED
      BY <3>1, <3>2, <3>3, <3>4
  <2> QED
    BY <1>1, <1>2, <2>1, <2>2, <2>3, WatchTyped, Kept DEF Types
<1> QED
  BY <1>1, <1>2, <1>3, <1>4, CountedKept DEF Types

\* The watch stream is not touched, or gets one request more.
LEMMA WatchKept ==
    ASSUME Types, WritesOK', Len(log) <= Len(log'), UNCHANGED watch
    PROVE  WatchOK'
  BY WatchTyped, Kept DEF watch, Types

LEMMA RequestTypes ==
    ASSUME Types, WritesOK', Len(log) <= Len(log'), NEW k \in Key, NEW r \in Request,
           RecordPendingTargetRequest(k), toServer' = Append(toServer, r),
           stream' \in Stream, UNCHANGED <<updates, toClient, sub>>
    PROVE  WatchOK'
<1>1. aggregator' \in [Key -> Target]
  <2> DEFINE t == [aggregator[k] EXCEPT !.known = TRUE, !.pending = @ + 1]
  <2>1. t \in Target
    BY WatchTyped, PendingMoves
  <2>2. aggregator' = [aggregator EXCEPT ![k] = t]
    BY WatchTyped DEF RecordPendingTargetRequest, Target
  <2> HIDE DEF t
  <2> QED
    BY <2>1, <2>2, WatchTyped
<1>2. toServer' \in Seq(Request)
  BY WatchTyped
<1> QED
  BY <1>1, <1>2, WatchTyped, Kept DEF Types

\* The view that a first listener opens.
Opens(k) ==
    LET local == GetDocument(cache[k], queue[currentUser], k)
    IN  [on |-> TRUE, doc |-> IF Found(local) THEN local ELSE Invalid,
         current |-> FALSE, synced |-> k \in matching, limbo |-> FALSE,
         token |-> saved[k], since |-> Clock]

LEMMA OpensType ==
    ASSUME Types, NEW k \in Key
    PROVE  Opens(k) \in View
<1>1. cache[k] \in Doc /\ saved[k] \in 0 .. Clock
  BY DEF Types, CacheOK, Known
<1>2. GetDocument(cache[k], queue[currentUser], k) \in Doc
  BY <1>1, LocalType DEF Types, WritesOK
<1>3. Clock \in 0 .. Clock
  BY DEF Types, WritesOK, Clock
<1> DEFINE doc == IF Found(GetDocument(cache[k], queue[currentUser], k))
                  THEN GetDocument(cache[k], queue[currentUser], k) ELSE Invalid
<1>4. doc \in Doc
  BY <1>2, InvalidType
<1>5. \A b \in BOOLEAN : [on |-> TRUE, doc |-> doc, current |-> FALSE, synced |-> b,
                          limbo |-> FALSE, token |-> saved[k], since |-> Clock] \in View
  <2> HIDE DEF doc
  <2> QED
    BY <1>1, <1>3, <1>4 DEF View
<1>6. (k \in matching) \in BOOLEAN
  OBVIOUS
<1>7. Opens(k) = [on |-> TRUE, doc |-> doc, current |-> FALSE, synced |-> k \in matching,
                  limbo |-> FALSE, token |-> saved[k], since |-> Clock]
  BY DEF Opens
<1> HIDE DEF doc
<1> QED
  BY <1>5, <1>6, <1>7, Zenon

LEMMA AddQueryListenerTypes ==
    ASSUME Types, NEW g \in Get, AddQueryListener(g) PROVE Types'
<1> DEFINE k     == gets[g].key
           first == ~ view[k].on
           views == IF first THEN [view EXCEPT ![k] = Opens(k)] ELSE view
           hears == ShouldRaiseInitialEvent(views[k], online)
           calls == [gets EXCEPT ![g].stage = IF hears THEN "raised" ELSE "listening"]
           heard == [listeners EXCEPT ![k] = @ \cup {g}]
<1>1. k \in Key
  BY ReaderTyped DEF Reads
<1>2. views \in [Key -> View]
  <2> HIDE DEF k
  <2> QED
    BY <1>1, OpensType, ReaderTyped
<1>3. calls \in [Get -> Reads]
  <2> DEFINE s == IF hears THEN "raised" ELSE "listening"
  <2>1. s \in {"raised", "listening"}
    OBVIOUS
  <2> HIDE DEF s
  <2>2. [gets[g] EXCEPT !.stage = s] \in Reads
    BY <2>1, ReaderTyped DEF Reads
  <2>3. calls = [gets EXCEPT ![g] = [gets[g] EXCEPT !.stage = s]]
    BY ReaderTyped DEF s
  <2> QED
    BY <2>2, <2>3, ReaderTyped
<1>4. heard \in [Key -> SUBSET Get]
  <2> HIDE DEF k
  <2> QED
    BY <1>1, ReaderTyped
<1>5. /\ listeners' = heard /\ Uses("gets") /\ UNCHANGED Elsewhere
      /\ \/ /\ CleanUpWatchStreamState
            /\ stream' = [stream EXCEPT !.state = IF @ = "Error" THEN "Backoff"
                                                  ELSE "Starting"]
            /\ Publish(views, HandleWatchStreamStart(online), calls, heard)
         \/ /\ RecordPendingTargetRequest(k)
            /\ toServer' = Append(toServer, WatchRequest(k, saved[k]))
            /\ stream' = [stream EXCEPT !.idle = FALSE]
            /\ Publish(views, online, calls, heard)
            /\ UNCHANGED <<updates, toClient, sub>>
         \/ /\ Publish(views, online, calls, heard)
            /\ UNCHANGED watch
  BY DEF AddQueryListener, Opens, Elsewhere, disk
<1> HIDE DEF k, first, views, calls, heard
<1>6. WritesOK' /\ CacheOK' /\ Len(log) <= Len(log')
  BY <1>5, ElsewhereKept
<1>7. ReaderOK'
  <2>1. PICK o \in Online : Publish(views, o, calls, heard)
    BY <1>5, ReaderTyped, OnlineTypes
  <2> QED
    BY <1>2, <1>3, <1>4, <1>5, <1>6, <2>1, PublishKeeps
<1>8. WatchOK'
  <2>1. CASE /\ CleanUpWatchStreamState
             /\ stream' = [stream EXCEPT !.state = IF @ = "Error" THEN "Backoff"
                                                   ELSE "Starting"]
    <3>1. stream' \in Stream
      BY <2>1, WatchTyped DEF Stream
    <3> QED
      BY <1>6, <2>1, <3>1, CleanedTypes, Kept DEF Types
  <2>2. CASE /\ RecordPendingTargetRequest(k)
             /\ toServer' = Append(toServer, WatchRequest(k, saved[k]))
             /\ stream' = [stream EXCEPT !.idle = FALSE]
             /\ UNCHANGED <<updates, toClient, sub>>
    <3>1. stream' \in Stream
      BY <2>2, WatchTyped DEF Stream
    <3>2. WatchRequest(k, saved[k]) \in Request
      BY <1>1 DEF WatchRequest, Request, Types, CacheOK
    <3> QED
      BY <1>1, <1>6, <2>2, <3>1, <3>2, RequestTypes
  <2>3. CASE UNCHANGED watch
    BY <1>6, <2>3, WatchKept
  <2> QED
    BY <1>5, <2>1, <2>2, <2>3
<1>9. Counted'
  BY <1>5, UsesCounts DEF Types, Limits
<1> QED
  BY <1>6, <1>7, <1>8, <1>9 DEF Types

LEMMA NoViewType == Types => NoView \in View
  BY InvalidType DEF NoView, View, Types, WritesOK, Clock

LEMMA RemoveQueryListenerTypes ==
    ASSUME Types, NEW g \in Get, RemoveQueryListener(g) PROVE Types'
<1> DEFINE k     == gets[g].key
           last  == listeners[k] = {g}
           views == IF last THEN [view EXCEPT ![k] = NoView] ELSE view
           none  == Listening(views) = {}
           calls == [gets EXCEPT ![g].stage = "done"]
           heard == [listeners EXCEPT ![k] = @ \ {g}]
<1>1. k \in Key
  BY ReaderTyped DEF Reads
<1>2. views \in [Key -> View]
  <2> HIDE DEF k
  <2> QED
    BY <1>1, NoViewType, ReaderTyped
<1>3. calls \in [Get -> Reads]
  <2>1. [gets[g] EXCEPT !.stage = "done"] \in Reads
    BY ReaderTyped DEF Reads
  <2> QED
    BY <2>1, ReaderTyped
<1>4. heard \in [Key -> SUBSET Get]
  <2> HIDE DEF k
  <2> QED
    BY <1>1, ReaderTyped
<1>5. /\ listeners' = heard
      /\ saved' = IF last THEN [saved EXCEPT ![k] = view[k].token] ELSE saved
      /\ UNCHANGED <<log, queue, cache, matching, lastRemote, currentUser, acks, bounds>>
      /\ \/ /\ RecordPendingTargetRequest(k)
            /\ toServer' = Append(toServer, UnwatchRequest(k))
            /\ stream' = [stream EXCEPT !.idle = none]
            /\ Publish(views, online, calls, heard)
            /\ UNCHANGED <<updates, toClient, sub>>
         \/ /\ Publish(views, IF last /\ none THEN UpdateState("Unknown") ELSE online,
                       calls, heard)
            /\ UNCHANGED watch
  BY DEF RemoveQueryListener
<1>6. none \in BOOLEAN
  OBVIOUS
<1> HIDE DEF k, last, views, none, calls, heard
<1>7. WritesOK' /\ Len(log) <= Len(log')
  BY <1>5, WritesKept DEF Types
<1>8. CacheOK'
  <2>1. saved' \in [Key -> 0 .. Clock]
    <3>1. view[k].token \in 0 .. Clock
      BY <1>1, ReaderTyped DEF View
    <3> QED
      BY <1>1, <1>5, <3>1 DEF Types, CacheOK
  <2> QED
    BY <1>5, <1>7, <2>1, Kept DEF Types, CacheOK
<1>9. ReaderOK'
  <2>1. PICK o \in Online : Publish(views, o, calls, heard)
    BY <1>5, ReaderTyped, OnlineTypes
  <2> QED
    BY <1>2, <1>3, <1>4, <1>5, <1>7, <2>1, PublishKeeps
<1>10. WatchOK'
  <2>1. CASE /\ RecordPendingTargetRequest(k)
             /\ toServer' = Append(toServer, UnwatchRequest(k))
             /\ stream' = [stream EXCEPT !.idle = none]
             /\ UNCHANGED <<updates, toClient, sub>>
    <3>1. stream' \in Stream
      BY <1>6, <2>1, WatchTyped DEF Stream
    <3>2. UnwatchRequest(k) \in Request
      BY <1>1 DEF UnwatchRequest, Request, Types, WritesOK, Clock
    <3> QED
      BY <1>1, <1>7, <2>1, <3>1, <3>2, RequestTypes
  <2>2. CASE UNCHANGED watch
    BY <1>7, <2>2, WatchKept
  <2> QED
    BY <1>5, <2>1, <2>2
<1> QED
  BY <1>5, <1>7, <1>8, <1>9, <1>10, CountedKept DEF Types

\* The next message.
LEMMA ReceiveTypes ==
    ASSUME Types, NEW kind, Receive(kind)
    PROVE  /\ Head(toClient) \in Message /\ Head(toClient).kind = kind
           /\ toClient' \in Seq(Message)
           /\ kind \in {"added", "removed", "error", "current"} => Head(toClient).key \in Key
           /\ kind = "doc" => Head(toClient).key \in Key /\ Head(toClient).doc \in Known
           /\ kind = "snapshot" => Head(toClient).version \in 1 .. Clock
<1>1. toClient \in Seq(Message) /\ toClient # << >>
  BY WatchTyped DEF Receive
<1> DEFINE M == Message
<1>2. Head(toClient) \in M /\ Tail(toClient) \in Seq(M)
  <2>1. toClient \in Seq(M)
    BY <1>1
  <2> HIDE DEF M
  <2> QED
    BY <1>1, <2>1
<1>3. Head(toClient).kind = kind /\ toClient' = Tail(toClient)
  BY DEF Receive
<1> QED
  BY <1>2, <1>3 DEF Message

LEMMA NowOnlineType == NowOnline \in Online
  BY DEF NowOnline, UpdateState, Online

\* A message that changes no more than the state of its target.
LEMMA TargetMessageTypes ==
    ASSUME Types, NEW kind, Receive(kind), aggregator' \in [Key -> Target],
           updates' \in [Key -> Known],
           Publish(view, NowOnline, gets, listeners),
           UNCHANGED <<Elsewhere, listeners, stream, toServer, sub, bounds>>
    PROVE  Types'
<1>1. WritesOK' /\ CacheOK' /\ Len(log) <= Len(log')
  BY ElsewhereKept
<1>2. ReaderOK'
  BY <1>1, ReaderTyped, NowOnlineType, PublishKeeps
<1>3. WatchOK'
  BY <1>1, ReceiveTypes, WatchTyped, Kept DEF Types
<1> QED
  BY <1>1, <1>2, <1>3, CountedKept DEF Types

LEMMA TargetAddedTypes == Types /\ TargetAdded => Types'
<1> SUFFICES ASSUME Types, TargetAdded PROVE Types'
  OBVIOUS
<1> DEFINE k == Head(toClient).key
           t == Answered(k)
<1>1. Receive("added")
  BY DEF TargetAdded
<1>2. k \in Key
  BY <1>1, ReceiveTypes
<1>3. t \in Target
  BY <1>2, WatchTyped, PendingMoves DEF Answered
<1>4. [t EXCEPT !.change = "None"] \in Target
  BY <1>3 DEF Target
<1>5. aggregator' = [aggregator EXCEPT ![k] =
                       IF t.pending = 0 THEN [t EXCEPT !.change = "None"] ELSE t]
  BY DEF TargetAdded
<1>6. aggregator' \in [Key -> Target]
  <2> HIDE DEF k, t
  <2> QED
    BY <1>2, <1>3, <1>4, <1>5, WatchTyped
<1>7. Publish(view, NowOnline, gets, listeners)
      /\ UNCHANGED <<Elsewhere, listeners, stream, updates, toServer, sub, bounds>>
  BY DEF TargetAdded, Elsewhere, disk
<1> QED
  BY <1>1, <1>6, <1>7, WatchTyped, TargetMessageTypes

LEMMA NoTargetType == NoTarget \in Target
  BY DEF NoTarget, Target

LEMMA TargetRemovedTypes == Types /\ TargetRemoved => Types'
<1> SUFFICES ASSUME Types, TargetRemoved PROVE Types'
  OBVIOUS
<1> DEFINE k == Head(toClient).key
           t == Answered(k)
<1>1. Receive("removed")
  BY DEF TargetRemoved
<1>2. k \in Key
  BY <1>1, ReceiveTypes
<1>3. t \in Target
  BY <1>2, WatchTyped, PendingMoves DEF Answered
<1>4. aggregator' = [aggregator EXCEPT ![k] = IF t.pending = 0 THEN NoTarget ELSE t]
  BY DEF TargetRemoved
<1>5. aggregator' \in [Key -> Target]
  <2> HIDE DEF k, t
  <2> QED
    BY <1>2, <1>3, <1>4, NoTargetType, WatchTyped
<1>6. Publish(view, NowOnline, gets, listeners)
      /\ UNCHANGED <<Elsewhere, listeners, stream, updates, toServer, sub, bounds>>
  BY DEF TargetRemoved, Elsewhere, disk
<1> QED
  BY <1>1, <1>5, <1>6, WatchTyped, TargetMessageTypes

LEMMA TargetCurrentTypes == Types /\ TargetCurrent => Types'
<1> SUFFICES ASSUME Types, TargetCurrent PROVE Types'
  OBVIOUS
<1> DEFINE k == Head(toClient).key
           b == aggregator[k].current \/ IsActiveTarget(k)
<1>1. Receive("current")
  BY DEF TargetCurrent
<1>2. k \in Key
  BY <1>1, ReceiveTypes
<1>3. aggregator' = [aggregator EXCEPT ![k].known = TRUE, ![k].current = b]
  BY <1>2, WatchTyped DEF TargetCurrent, Target
<1>4. b \in BOOLEAN
  OBVIOUS
<1>5. aggregator' \in [Key -> Target]
  <2> HIDE DEF k, b
  <2>1. [aggregator[k] EXCEPT !.known = TRUE, !.current = b] \in Target
    BY <1>2, <1>4, WatchTyped DEF Target
  <2>2. aggregator' = [aggregator EXCEPT ![k] = [aggregator[k] EXCEPT !.known = TRUE,
                                                                     !.current = b]]
    BY <1>2, <1>3, WatchTyped DEF Target
  <2> QED
    BY <1>2, <2>1, <2>2, WatchTyped
<1>6. Publish(view, NowOnline, gets, listeners)
      /\ UNCHANGED <<Elsewhere, listeners, stream, updates, toServer, sub, bounds>>
  BY DEF TargetCurrent, Elsewhere, disk
<1> QED
  BY <1>1, <1>5, <1>6, WatchTyped, TargetMessageTypes

LEMMA DocumentChangedTypes == Types /\ DocumentChanged => Types'
<1> SUFFICES ASSUME Types, DocumentChanged PROVE Types'
  OBVIOUS
<1> DEFINE k == Head(toClient).key
           d == Head(toClient).doc
           c == DocumentChange(k, d)
<1>1. Receive("doc")
  BY DEF DocumentChanged
<1>2. k \in Key /\ d \in Known
  BY <1>1, ReceiveTypes
<1>3. c \in {"None", "Added", "Modified", "Removed"}
  BY DEF DocumentChange
<1>4. \/ /\ aggregator' = [aggregator EXCEPT ![k].known = TRUE, ![k].change = c]
         /\ updates' = [updates EXCEPT ![k] = d]
      \/ UNCHANGED <<aggregator, updates>>
  BY DEF DocumentChanged
<1>5. aggregator' \in [Key -> Target] /\ updates' \in [Key -> Known]
  <2> HIDE DEF k, d, c
  <2>1. [aggregator[k] EXCEPT !.known = TRUE, !.change = c] \in Target
    BY <1>2, <1>3, WatchTyped DEF Target
  <2>2. \/ /\ aggregator' = [aggregator EXCEPT ![k] = [aggregator[k] EXCEPT !.known = TRUE,
                                                                          !.change = c]]
           /\ updates' = [updates EXCEPT ![k] = d]
        \/ UNCHANGED <<aggregator, updates>>
    BY <1>2, <1>4, WatchTyped DEF Target
  <2> QED
    BY <1>2, <2>1, <2>2, WatchTyped
<1>6. Publish(view, NowOnline, gets, listeners)
      /\ UNCHANGED <<Elsewhere, listeners, stream, toServer, sub, bounds>>
  BY DEF DocumentChanged, Elsewhere, disk
<1> QED
  BY <1>1, <1>5, <1>6, WatchTyped, TargetMessageTypes

LEMMA TargetErrorTypes == Types /\ TargetError => Types'
<1> SUFFICES ASSUME Types, TargetError PROVE Types'
  OBVIOUS
<1> DEFINE k     == Head(toClient).key
           calls == [g \in Get |-> IF g \in listeners[k] /\ gets[g].stage = "listening"
                                   THEN [gets[g] EXCEPT !.stage = "done"] ELSE gets[g]]
<1>1. Receive("error")
  BY DEF TargetError
<1>2. k \in Key
  BY <1>1, ReceiveTypes
<1>3. calls \in [Get -> Reads]
  <2>1. \A g \in Get : [gets[g] EXCEPT !.stage = "done"] \in Reads
    BY ReaderTyped DEF Reads
  <2> QED
    BY <2>1, ReaderTyped
<1>4. /\ UNCHANGED <<log, queue, cache, matching, lastRemote, currentUser, acks, stream,
                     updates, toServer, sub, bounds>>
      /\ \/ /\ aggregator' = [aggregator EXCEPT ![k] = NoTarget]
            /\ saved' = [saved EXCEPT ![k] = view[k].token]
            /\ listeners' = [listeners EXCEPT ![k] = {}]
            /\ Publish([view EXCEPT ![k] = NoView], NowOnline, calls, listeners')
         \/ /\ Publish(view, NowOnline, gets, listeners)
            /\ UNCHANGED <<aggregator, saved, listeners>>
  BY DEF TargetError
<1> HIDE DEF k, calls
<1>5. WritesOK' /\ Len(log) <= Len(log')
  BY <1>4, WritesKept DEF Types
<1>6. CacheOK'
  <2>1. view[k].token \in 0 .. Clock
    BY <1>2, ReaderTyped DEF View
  <2>2. saved' \in [Key -> 0 .. Clock]
    BY <1>2, <1>4, <2>1 DEF Types, CacheOK
  <2> QED
    BY <1>4, <1>5, <2>2, Kept DEF Types, CacheOK
<1>7. ReaderOK'
  <2>1. [view EXCEPT ![k] = NoView] \in [Key -> View]
    BY <1>2, NoViewType, ReaderTyped
  <2>2. listeners' \in [Key -> SUBSET Get]
    BY <1>2, <1>4, ReaderTyped
  <2>3. CASE Publish([view EXCEPT ![k] = NoView], NowOnline, calls, listeners')
    BY <1>3, <1>5, <2>1, <2>2, <2>3, NowOnlineType, PublishKeeps
  <2>4. CASE Publish(view, NowOnline, gets, listeners)
    BY <1>5, <2>2, <2>4, NowOnlineType, ReaderTyped, PublishKeeps
  <2> QED
    BY <1>4, <2>3, <2>4
<1>8. WatchOK'
  <2>1. aggregator' \in [Key -> Target]
    BY <1>2, <1>4, NoTargetType, WatchTyped
  <2>2. toClient' \in Seq(Message)
    BY <1>1, ReceiveTypes
  <2> QED
    BY <1>4, <1>5, <2>1, <2>2, WatchTyped, Kept DEF Types
<1> QED
  BY <1>4, <1>5, <1>6, <1>7, <1>8, CountedKept DEF Types

LEMMA Deduced == \A v \in 1 .. Clock : WritesOK => NoDocument(v, "synced") \in Known
<1> SUFFICES ASSUME NEW v \in 1 .. Clock, WritesOK PROVE NoDocument(v, "synced") \in Known
  OBVIOUS
<1>1. Clock \in Nat
  BY DEF WritesOK, Clock
<1> QED
  BY <1>1 DEF NoDocument, Known, Doc, Document

\* The documents of the next snapshot.
LEMMA NewsTypes ==
    ASSUME Types, NEW v \in 1 .. Clock
    PROVE  DocumentUpdates(v) \in [Key -> Known]
  BY WatchTyped, Deduced DEF DocumentUpdates, Types

\* The parts of RaiseWatchSnapshot that its lemmas are about.
Accepted(v)  == { k \in Key : Accepts(cache[k], DocumentUpdates(v)[k]) }
Docs(v)      == [k \in Key |-> IF k \in Accepted(v) THEN DocumentUpdates(v)[k] ELSE cache[k]]
With         == { k \in Changed : aggregator[k].change = "Added" }
Without      == { k \in Changed : aggregator[k].change = "Removed" }
DocOf(v, k)  == IF k \in Accepted(v)
                THEN Shown(view[k].doc, GetDocument(Docs(v)[k], queue[currentUser], k))
                ELSE view[k].doc
SyncedBy(k)  == (view[k].synced \/ k \in With) /\ k \notin Without
ChangedView(v, k) ==
    [ApplyChanges(view[k], DocOf(v, k), aggregator[k].current, SyncedBy(k)) EXCEPT !.token = v]
OtherView(v, k) ==
    ApplyChanges(view[k], DocOf(v, k), view[k].current, view[k].synced)
Views(v) ==
    [k \in Key |-> CASE k \in Changed -> ChangedView(v, k)
                     [] view[k].on /\ k \notin Changed -> OtherView(v, k)
                     [] OTHER -> view[k]]

LEMMA RaiseParts ==
    ASSUME NEW v, NEW aged, RaiseWatchSnapshot(v, aged)
    PROVE  /\ cache' = Docs(v)
           /\ matching' = (matching \cup With) \ Without
           /\ saved' = [k \in Key |-> IF k \in Changed /\ Persists(k, aged) THEN v ELSE saved[k]]
           /\ lastRemote' = v
           /\ aggregator' = [k \in Key |-> IF k \in Changed
                                           THEN [aggregator[k] EXCEPT !.change = "None"]
                                           ELSE aggregator[k]]
           /\ updates' = [k \in Key |-> Invalid]
           /\ Publish(Views(v), NowOnline, gets, listeners)
  BY DEF RaiseWatchSnapshot, Accepted, Docs, With, Without, DocOf, SyncedBy, ChangedView,
         OtherView, Views

LEMMA DocsType ==
    ASSUME Types, NEW v \in 1 .. Clock
    PROVE  Docs(v) \in [Key -> Known]
  BY NewsTypes DEF Docs, Types, CacheOK

\* The views that a snapshot changes, and what they are then.
LEMMA ViewsTypes ==
    ASSUME Types, NEW v \in 1 .. Clock
    PROVE  /\ Views(v) \in [Key -> View]
           /\ \A k \in Key :
                 /\ Views(v)[k].on = view[k].on
                 /\ view[k].on => Views(v)[k].doc = DocOf(v, k)
                 /\ k \in Changed => /\ view[k].on
                                     /\ Views(v)[k].synced = SyncedBy(k)
                                     /\ Views(v)[k].current = aggregator[k].current
                                     /\ Views(v)[k].token = v
                 /\ k \notin Changed => /\ Views(v)[k].synced = view[k].synced
                                        /\ Views(v)[k].current = view[k].current
                                        /\ Views(v)[k].token = view[k].token
<1>1. ASSUME NEW k \in Key
      PROVE  DocOf(v, k) \in Doc
  <2>1. Docs(v)[k] \in Doc
    BY DocsType DEF Known
  <2>2. GetDocument(Docs(v)[k], queue[currentUser], k) \in Doc
    BY <2>1, LocalType DEF Types, WritesOK
  <2>3. view[k].doc \in Doc
    BY ReaderTyped DEF View
  <2> QED
    BY <2>2, <2>3, ShownType DEF DocOf
<1>2. ASSUME NEW k \in Key
      PROVE  /\ ChangedView(v, k) \in View
             /\ ChangedView(v, k).on = view[k].on /\ ChangedView(v, k).doc = DocOf(v, k)
             /\ ChangedView(v, k).synced = SyncedBy(k)
             /\ ChangedView(v, k).current = aggregator[k].current
             /\ ChangedView(v, k).token = v
  <2> DEFINE w == ApplyChanges(view[k], DocOf(v, k), aggregator[k].current, SyncedBy(k))
  <2>1. view[k] \in View /\ aggregator[k].current \in BOOLEAN
    BY ReaderTyped, WatchTyped DEF Target
  <2>2. SyncedBy(k) \in BOOLEAN
    BY DEF SyncedBy
  <2>3. /\ w \in View /\ w.on = view[k].on /\ w.doc = DocOf(v, k)
        /\ w.synced = SyncedBy(k) /\ w.current = aggregator[k].current
    BY <1>1, <2>1, <2>2, ApplyChangesType
  <2>4. v \in 0 .. Clock
    OBVIOUS
  <2>5. ChangedView(v, k) = [w EXCEPT !.token = v]
    BY DEF ChangedView
  <2> HIDE DEF w
  <2> QED
    BY <2>3, <2>4, <2>5 DEF View
<1>3. ASSUME NEW k \in Key
      PROVE  /\ OtherView(v, k) \in View
             /\ OtherView(v, k).on = view[k].on /\ OtherView(v, k).doc = DocOf(v, k)
             /\ OtherView(v, k).synced = view[k].synced
             /\ OtherView(v, k).current = view[k].current
             /\ OtherView(v, k).token = view[k].token
  <2>1. view[k] \in View /\ view[k].current \in BOOLEAN /\ view[k].synced \in BOOLEAN
    BY ReaderTyped DEF View
  <2> QED
    BY <1>1, <2>1, ApplyChangesType DEF OtherView
<1>4. \A k \in Changed : k \in Key /\ view[k].on
  BY DEF Changed, IsActiveTarget
<1>5. \A k \in Key : view[k] \in View
  BY ReaderTyped
<1>6. \A k \in Key : Views(v)[k] = IF k \in Changed THEN ChangedView(v, k)
                                  ELSE IF view[k].on THEN OtherView(v, k) ELSE view[k]
  BY <1>4 DEF Views
<1>7. Views(v) = [k \in Key |-> Views(v)[k]]
  BY DEF Views
<1>8. Views(v) \in [Key -> View]
  BY <1>2, <1>3, <1>5, <1>6, <1>7
<1> QED
  BY <1>2, <1>3, <1>4, <1>6, <1>8

LEMMA GlobalSnapshotTypes == Types /\ GlobalSnapshot => Types'
<1> SUFFICES ASSUME Types, GlobalSnapshot PROVE Types'
  OBVIOUS
<1> DEFINE v == Head(toClient).version
<1>1. /\ Receive("snapshot")
      /\ UNCHANGED <<log, queue, currentUser, acks, listeners, stream, toServer, sub, bounds>>
      /\ \/ \E aged \in BOOLEAN : RaiseWatchSnapshot(v, aged)
         \/ /\ Publish(view, NowOnline, gets, listeners)
            /\ UNCHANGED <<cache, saved, matching, lastRemote, aggregator, updates>>
  BY DEF GlobalSnapshot
<1>2. v \in 1 .. Clock /\ toClient' \in Seq(Message)
  BY <1>1, ReceiveTypes
<1>3. WritesOK' /\ Len(log) <= Len(log')
  BY <1>1, WritesKept DEF Types
<1>4. CASE UNCHANGED <<cache, saved, matching, lastRemote, aggregator, updates>>
           /\ Publish(view, NowOnline, gets, listeners)
  <2>1. ReaderOK'
    BY <1>1, <1>3, <1>4, ReaderTyped, NowOnlineType, PublishKeeps
  <2>2. CacheOK'
    BY <1>3, <1>4, Kept DEF Types, CacheOK
  <2>3. WatchOK'
    BY <1>1, <1>2, <1>3, <1>4, WatchTyped, Kept DEF Types
  <2> QED
    BY <1>1, <1>3, <2>1, <2>2, <2>3, CountedKept DEF Types
<1>5. ASSUME NEW aged \in BOOLEAN, RaiseWatchSnapshot(v, aged)
      PROVE  Types'
  <2> HIDE DEF v
  <2>1. ReaderOK'
    <3>1. Publish(Views(v), NowOnline, gets, listeners) /\ Views(v) \in [Key -> View]
      BY <1>2, <1>5, RaiseParts, ViewsTypes
    <3> QED
      BY <1>1, <1>3, <3>1, ReaderTyped, NowOnlineType, PublishKeeps
  <2>2. CacheOK'
    <3>1. cache' \in [Key -> Known]
      BY <1>2, <1>5, RaiseParts, DocsType
    <3>2. saved' \in [Key -> 0 .. Clock] /\ lastRemote' \in 0 .. Clock
      BY <1>2, <1>5, RaiseParts DEF Types, CacheOK
    <3>3. matching' \in SUBSET Key
      BY <1>5, RaiseParts DEF Types, CacheOK, With, Changed
    <3> QED
      BY <1>3, <3>1, <3>2, <3>3, Kept DEF Types
  <2>3. WatchOK'
    <3>1. aggregator' \in [Key -> Target]
      <4>1. \A t \in Target : [t EXCEPT !.change = "None"] \in Target
        BY DEF Target
      <4> QED
        BY <1>5, <4>1, RaiseParts, WatchTyped
    <3>2. updates' \in [Key -> Known]
      <4>1. Invalid \in Known
        BY InvalidType DEF Known, Types, WritesOK, Clock
      <4> QED
        BY <1>5, <4>1, RaiseParts
    <3> QED
      BY <1>1, <1>2, <1>3, <3>1, <3>2, WatchTyped, Kept DEF Types
  <2> QED
    BY <1>1, <1>3, <2>1, <2>2, <2>3, CountedKept DEF Types
<1> QED
  BY <1>1, <1>4, <1>5

\* The cache under a queue, as the views hear of it.
LEMMA EmitViews ==
    ASSUME Types, NEW keys, NEW c \in [Key -> Known], NEW q \in Seq(Mutation)
    PROVE  /\ Emit(keys, c, q) \in [Key -> View]
           /\ \A k \in Key : /\ Emit(keys, c, q)[k].on = view[k].on
                             /\ Emit(keys, c, q)[k].synced = view[k].synced
                             /\ Emit(keys, c, q)[k].current = view[k].current
                             /\ Emit(keys, c, q)[k].token = view[k].token
<1>1. c \in [Key -> Doc]
  BY DEF Known
<1> QED
  BY <1>1, EmitTypes DEF Types

LEMMA WriteMutationsTypes == Types /\ WriteMutations => Types'
<1> SUFFICES ASSUME Types, WriteMutations PROVE Types'
  OBVIOUS
<1>1. PICK op \in {"set", "update", "delete"}, k \in Key :
         /\ Uses("writes")
         /\ LET m == [no |-> bounds'["writes"], op |-> op, key |-> k]
                q == Append(queue[currentUser], m)
            IN  /\ queue' = [queue EXCEPT ![currentUser] = q]
                /\ Publish(Emit({k}, cache, q), online, gets, listeners)
         /\ UNCHANGED <<log, cache, saved, matching, lastRemote, currentUser, acks, listeners,
                        watch>>
  BY DEF WriteMutations
<1> DEFINE m == [no |-> bounds'["writes"], op |-> op, key |-> k]
           q == Append(queue[currentUser], m)
<1>2. m \in Mutation
  <2>1. bounds'["writes"] \in 1 .. MaxWrites
    BY <1>1, UsesCounts DEF Types, Limits
  <2> QED
    BY <2>1 DEF Mutation
<1>3. /\ currentUser \in User /\ queue \in [User -> Seq(Mutation)]
      /\ queue[currentUser] \in Seq(Mutation)
  BY DEF Types, WritesOK
<1>4. /\ queue' = [queue EXCEPT ![currentUser] = q]
      /\ Publish(Emit({k}, cache, q), online, gets, listeners)
  BY <1>1
<1> HIDE DEF m
<1>5. q \in Seq(Mutation) /\ Len(q) = Len(queue[currentUser]) + 1
  BY <1>2, <1>3
<1> HIDE DEF q
<1>6. WritesOK' /\ Len(log) <= Len(log')
  <2>1. Clock' = Clock /\ Commit' = Commit /\ Mutation' = Mutation
    BY <1>1 DEF Clock, Commit, Mutation
  <2>2. Len(acks) <= Len(queue[currentUser]) /\ Len(acks) \in Nat
        /\ Len(queue[currentUser]) \in Nat
    BY <1>3 DEF Types, WritesOK
  <2>3. queue'[currentUser] = q
    BY <1>3, <1>4
  <2> QED
    BY <1>1, <1>3, <1>4, <1>5, <2>1, <2>2, <2>3 DEF Types, WritesOK
<1>7. ReaderOK'
  <2>1. Emit({k}, cache, q) \in [Key -> View]
    BY <1>5, EmitViews DEF Types, CacheOK
  <2> QED
    BY <1>1, <1>4, <1>6, <2>1, ReaderTyped, PublishKeeps
<1>8. CacheOK'
  BY <1>1, <1>6, Kept DEF Types, CacheOK
<1>9. WatchOK'
  BY <1>1, <1>6, WatchKept
<1>10. Counted'
  BY <1>1, UsesCounts DEF Types, Limits
<1> QED
  BY <1>6, <1>7, <1>8, <1>9, <1>10 DEF Types

\* The head of the current user's queue.
LEMMA HeadTypes ==
    ASSUME Types, queue[currentUser] # << >>
    PROVE  /\ Head(queue[currentUser]) \in Mutation
           /\ Head(queue[currentUser]).key \in Key
           /\ Tail(queue[currentUser]) \in Seq(Mutation)
           /\ Len(Tail(queue[currentUser])) = Len(queue[currentUser]) - 1
<1> DEFINE q == queue[currentUser]
<1>1. q \in Seq(Mutation) /\ q # << >>
  BY DEF Types, WritesOK
<1> HIDE DEF q
<1>2. Head(q) \in Mutation /\ Tail(q) \in Seq(Mutation) /\ Len(Tail(q)) = Len(q) - 1
  BY <1>1
<1>3. Head(q).key \in Key
  BY <1>2 DEF Mutation
<1> QED
  BY <1>2, <1>3 DEF q

\* The document after the commit of a mutation.
LEMMA BatchResultType ==
    ASSUME Types, NEW d \in Known, NEW m \in Mutation, NEW v \in 1 .. Clock
    PROVE  /\ ApplyBatchResult(d, m, v) \in Known
           /\ ApplyBatchResult(d, m, v).version >= d.version
<1>1. Clock \in Nat
  BY DEF Types, WritesOK, Clock
<1>2. d \in Doc /\ d.version \in Nat /\ v \in Nat /\ v <= Clock
  BY <1>1 DEF Known, Doc, Document
<1>3. /\ ApplyToRemoteDocument(m, d, v) \in Doc
      /\ ApplyToRemoteDocument(m, d, v).version = v
      /\ ApplyToRemoteDocument(m, d, v).type # "invalid"
  BY <1>2, MutationTypes
<1> QED
  BY <1>2, <1>3 DEF ApplyBatchResult, Known

LEMMA AcksAwaited ==
    ASSUME Types, acks # << >>
    PROVE  /\ queue[currentUser] # << >>
           /\ Head(acks) \in 1 .. Clock
           /\ Tail(acks) \in Seq(1 .. Clock)
           /\ Len(Tail(acks)) = Len(acks) - 1
<1>1. /\ acks \in Seq(1 .. Clock) /\ Len(acks) <= Len(queue[currentUser])
      /\ queue[currentUser] \in Seq(Mutation)
  BY DEF Types, WritesOK
<1> DEFINE S == 1 .. Clock
<1>2. acks \in Seq(S)
  BY <1>1
<1>3. Len(acks) # 0
  BY <1>2
<1> HIDE DEF S
<1>4. Head(acks) \in S /\ Tail(acks) \in Seq(S) /\ Len(Tail(acks)) = Len(acks) - 1
  BY <1>2
<1>5. queue[currentUser] # << >>
  <2>1. Len(acks) \in Nat
    BY <1>2
  <2>2. Len(queue[currentUser]) # 0
    BY <1>1, <1>3, <2>1
  <2> QED
    BY <1>1, <2>2
<1> QED
  BY <1>4, <1>5 DEF S

LEMMA HandleSuccessfulWriteTypes == Types /\ HandleSuccessfulWrite => Types'
<1> SUFFICES ASSUME Types, HandleSuccessfulWrite PROVE Types'
  OBVIOUS
<1> DEFINE m == Head(queue[currentUser])
           q == Tail(queue[currentUser])
           c == [cache EXCEPT ![m.key] = ApplyBatchResult(@, m, Head(acks))]
<1>1. /\ acks # << >> /\ acks' = Tail(acks)
      /\ queue' = [queue EXCEPT ![currentUser] = q]
      /\ cache' = c
      /\ Publish(Emit({m.key}, c, q), online, gets, listeners)
      /\ UNCHANGED <<log, saved, matching, lastRemote, currentUser, listeners, watch, bounds>>
  BY DEF HandleSuccessfulWrite
<1>2. /\ queue[currentUser] # << >> /\ Head(acks) \in 1 .. Clock
      /\ Tail(acks) \in Seq(1 .. Clock) /\ Len(Tail(acks)) = Len(acks) - 1
  BY <1>1, AcksAwaited
<1>3. /\ m \in Mutation /\ m.key \in Key /\ q \in Seq(Mutation)
      /\ Len(q) = Len(queue[currentUser]) - 1
  BY <1>2, HeadTypes
<1> HIDE DEF m, q
<1>4. c \in [Key -> Known]
  BY <1>2, <1>3, BatchResultType DEF Types, CacheOK
<1> HIDE DEF c
<1>5. WritesOK' /\ Len(log) <= Len(log')
  <2>1. Clock' = Clock /\ Commit' = Commit /\ Mutation' = Mutation
    BY <1>1 DEF Clock, Commit, Mutation
  <2>2. /\ Len(acks) <= Len(queue[currentUser]) /\ Len(acks) \in Nat
        /\ Len(queue[currentUser]) \in Nat
        /\ currentUser \in User /\ queue \in [User -> Seq(Mutation)]
    BY DEF Types, WritesOK
  <2>3. queue'[currentUser] = q /\ queue' \in [User -> Seq(Mutation)]
    BY <1>1, <1>3, <2>2
  <2> QED
    BY <1>1, <1>2, <1>3, <2>1, <2>2, <2>3 DEF Types, WritesOK
<1>6. ReaderOK'
  <2>1. Emit({m.key}, c, q) \in [Key -> View]
    BY <1>3, <1>4, EmitViews
  <2> QED
    BY <1>1, <1>5, <2>1, ReaderTyped, PublishKeeps
<1>7. CacheOK'
  BY <1>1, <1>4, <1>5, Kept DEF Types, CacheOK
<1>8. WatchOK'
  BY <1>1, <1>5, WatchKept
<1> QED
  BY <1>1, <1>5, <1>6, <1>7, <1>8, CountedKept DEF Types

LEMMA HandleRejectedWriteTypes == Types /\ HandleRejectedWrite => Types'
<1> SUFFICES ASSUME Types, HandleRejectedWrite PROVE Types'
  OBVIOUS
<1> DEFINE m == Head(queue[currentUser])
           q == Tail(queue[currentUser])
<1>1. /\ acks = << >> /\ queue[currentUser] # << >>
      /\ queue' = [queue EXCEPT ![currentUser] = q]
      /\ Publish(Emit({m.key}, cache, q), online, gets, listeners)
      /\ UNCHANGED <<log, cache, saved, matching, lastRemote, currentUser, acks, listeners,
                     watch, bounds>>
  BY DEF HandleRejectedWrite
<1>2. m.key \in Key /\ q \in Seq(Mutation)
  BY <1>1, HeadTypes
<1> HIDE DEF m, q
<1>3. WritesOK' /\ Len(log) <= Len(log')
  <2>1. Clock' = Clock /\ Commit' = Commit /\ Mutation' = Mutation
    BY <1>1 DEF Clock, Commit, Mutation
  <2>2. currentUser \in User /\ queue \in [User -> Seq(Mutation)]
    BY DEF Types, WritesOK
  <2>3. queue'[currentUser] = q /\ queue' \in [User -> Seq(Mutation)]
    BY <1>1, <1>2, <2>2
  <2>4. Len(acks) = 0 /\ Len(q) \in Nat
    BY <1>1, <1>2
  <2> QED
    BY <1>1, <1>2, <2>1, <2>2, <2>3, <2>4 DEF Types, WritesOK
<1>4. ReaderOK'
  <2>1. Emit({m.key}, cache, q) \in [Key -> View]
    BY <1>2, EmitViews DEF Types, CacheOK
  <2> QED
    BY <1>1, <1>3, <2>1, ReaderTyped, PublishKeeps
<1>5. CacheOK'
  BY <1>1, <1>3, Kept DEF Types, CacheOK
<1>6. WatchOK'
  BY <1>1, <1>3, WatchKept
<1> QED
  BY <1>1, <1>3, <1>4, <1>5, <1>6, CountedKept DEF Types

LEMMA HandleCredentialChangeTypes ==
    ASSUME Types, NEW u \in User, HandleCredentialChange(u) PROVE Types'
<1> DEFINE views == IF u = currentUser THEN view
                    ELSE Emit(ChangedByUser(u), cache, queue[u])
<1>1. /\ Uses("signIns") /\ currentUser' = u /\ acks' = << >>
      /\ RestartNetwork(views) /\ UNCHANGED <<log, disk, listeners>>
  BY DEF HandleCredentialChange
<1>2. views \in [Key -> View]
  <2>1. queue[u] \in Seq(Mutation) /\ cache \in [Key -> Known]
    BY DEF Types, WritesOK, CacheOK
  <2> QED
    BY <2>1, EmitViews, ReaderTyped
<1> HIDE DEF views
<1>3. WritesOK' /\ Len(log) <= Len(log')
  <2>1. Clock' = Clock /\ Commit' = Commit /\ Mutation' = Mutation
    BY <1>1 DEF Clock, Commit, Mutation
  <2>2. Len(queue[u]) \in Nat /\ queue' = queue
    BY <1>1 DEF Types, WritesOK, disk
  <2>3. acks' \in Seq(1 .. Clock) /\ Len(acks') = 0
    BY <1>1
  <2> QED
    BY <1>1, <2>1, <2>2, <2>3 DEF Types, WritesOK
<1>4. ReaderOK' /\ WatchOK'
  BY <1>1, <1>2, <1>3, RestartNetworkTypes
<1>5. CacheOK'
  BY <1>1, <1>3, Kept DEF Types, CacheOK, disk
<1>6. Counted'
  BY <1>1, UsesCounts DEF Types, Limits
<1> QED
  BY <1>3, <1>4, <1>5, <1>6 DEF Types

LEMMA RestartTypes == Types /\ Restart => Types'
<1> SUFFICES ASSUME Types, Restart PROVE Types'
  OBVIOUS
<1>1. WritesOK' /\ Len(log) <= Len(log')
  <2>1. Clock' = Clock /\ Commit' = Commit /\ Mutation' = Mutation
    BY DEF Restart, Clock, Commit, Mutation
  <2>2. acks' \in Seq(1 .. Clock) /\ Len(acks') = 0
    BY DEF Restart
  <2>3. queue' = queue /\ currentUser' = currentUser /\ log' = log
    BY DEF Restart, disk
  <2>4. Len(queue[currentUser]) \in Nat
    BY DEF Types, WritesOK
  <2> QED
    BY <2>1, <2>2, <2>3, <2>4 DEF Types, WritesOK
<1>2. ReaderOK'
  <2>1. gets' \in [Get -> Reads]
    <3>1. \A r \in Reads : [r EXCEPT !.stage = "done"] \in Reads
      BY DEF Reads
    <3> QED
      BY <3>1, ReaderTyped DEF Restart
  <2>2. view' \in [Key -> View] /\ online' \in Online
    BY NoViewType, ReaderTyped, OnlineTypes DEF Restart
  <2>3. listeners' \in [Key -> SUBSET Get]
    BY DEF Restart
  <2> QED
    BY <1>1, <2>1, <2>2, <2>3, Kept DEF Types
<1>3. CacheOK'
  BY <1>1, Kept DEF Types, CacheOK, Restart, disk
<1>4. WatchOK'
  <2>1. stream' \in Stream
    BY DEF Restart, Stream
  <2>2. CleanUpWatchStreamState
    BY DEF Restart
  <2> QED
    BY <1>1, <2>1, <2>2, CleanedTypes, Kept DEF Types
<1>5. Counted'
  BY UsesCounts DEF Restart, Types, Limits
<1> QED
  BY <1>1, <1>2, <1>3, <1>4, <1>5 DEF Types

-----------------------------------------------------------------------------
(* The server.                                                             *)

\* The commits of document k up to version v.
WritesTo(k, v) == { j \in DOMAIN log : k \in log[j].keys /\ j + 1 <= v }

\* WrittenAt is the version of the last of these commits, or 0.
LEMMA WrittenAtIs ==
    ASSUME WritesOK, NEW k, NEW v
    PROVE  /\ WrittenAt(k, v) \in 0 .. Clock
           /\ WrittenAt(k, v) # 0 => WrittenAt(k, v) - 1 \in WritesTo(k, v)
           /\ \A j \in WritesTo(k, v) : j + 1 <= WrittenAt(k, v)
<1> DEFINE at == {0} \cup { i + 1 : i \in WritesTo(k, v) }
<1>1. DOMAIN log = 1 .. Len(log) /\ Len(log) \in Nat /\ Clock = Len(log) + 1
  BY DEF WritesOK, Clock
<1>2. at \in SUBSET (0 .. Clock) /\ at # {} /\ Clock \in Nat
  BY <1>1 DEF WritesTo
<1>3. WrittenAt(k, v) = CHOOSE n \in at : \A m \in at : m <= n
  BY DEF WrittenAt, WritesTo
<1>4. \E n \in at : \A m \in at : m <= n
  <2> HIDE DEF at
  <2> QED
    BY <1>2, Greatest
<1>5. WrittenAt(k, v) \in at /\ \A m \in at : m <= WrittenAt(k, v)
  <2> HIDE DEF at
  <2> QED
    BY <1>3, <1>4, Zenon
<1>6. \A j \in WritesTo(k, v) : j + 1 \in at /\ j \in Nat
  BY <1>1 DEF WritesTo
<1>7. WrittenAt(k, v) # 0 => \E i \in WritesTo(k, v) : WrittenAt(k, v) = i + 1
  BY <1>5
<1> QED
  BY <1>2, <1>5, <1>6, <1>7

LEMMA ContentAtType ==
    ASSUME WritesOK, NEW k, NEW v
    PROVE  ContentAt(k, v) \in Content \cup {0}
<1>1. \A j \in DOMAIN log : log[j].content \in Content \cup {0}
  <2>1. \A j \in DOMAIN log : log[j] \in Commit
    BY DEF WritesOK
  <2> QED
    BY <2>1 DEF Commit
<1>2. WrittenAt(k, v) # 0 => WrittenAt(k, v) - 1 \in DOMAIN log
  BY WrittenAtIs DEF WritesTo
<1> QED
  BY <1>1, <1>2 DEF ContentAt

LEMMA Single ==
    ASSUME NEW S
    PROVE  << >> \in Seq(S) /\ \A m \in S : << m >> \in Seq(S)
  OBVIOUS

\* The messages on document k.
LEMMA NewsOfType ==
    ASSUME Types, NEW k \in Key
    PROVE  NewsOf(k) \in Seq(Message)
<1> DEFINE at      == WrittenAt(k, Clock)
           content == ContentAt(k, Clock)
           doc(d)  == [kind |-> "doc", key |-> k, doc |-> d]
           current == [kind |-> "current", key |-> k]
<1>1. at \in 0 .. Clock /\ content \in Content \cup {0} /\ Clock \in Nat
  BY WrittenAtIs, ContentAtType DEF Types, WritesOK, Clock
<1>2. /\ FoundDocument(content, at, "synced") \in Known
      /\ NoDocument(Clock, "synced") \in Known
  <2> HIDE DEF at, content
  <2> QED
    BY <1>1 DEF FoundDocument, NoDocument, Known, Doc, Document
<1>3. /\ doc(FoundDocument(content, at, "synced")) \in Message
      /\ doc(NoDocument(Clock, "synced")) \in Message
      /\ current \in Message
  <2> DEFINE found == FoundDocument(content, at, "synced")
             none  == NoDocument(Clock, "synced")
  <2>1. found \in Known /\ none \in Known
    BY <1>2
  <2> HIDE DEF found, none, at, content
  <2>2. doc(found) \in Message /\ doc(none) \in Message /\ current \in Message
    BY <2>1 DEF Message
  <2> QED
    BY <2>2 DEF found, none
<1> DEFINE first == doc(FoundDocument(content, at, "synced"))
           gone  == doc(NoDocument(Clock, "synced"))
<1>4. \E c, n : /\ c = << >> \/ c = << first >> \/ c = << gone >>
                /\ n = << >> \/ n = << current >>
                /\ NewsOf(k) = c \o n
  BY DEF NewsOf
<1>5. first \in Message /\ gone \in Message /\ current \in Message
  BY <1>3
<1> HIDE DEF first, gone, current
<1> HIDE DEF first, gone, current
<1>6. PICK c, n : /\ c = << >> \/ c = << first >> \/ c = << gone >>
                  /\ n = << >> \/ n = << current >>
                  /\ NewsOf(k) = c \o n
  BY <1>4
<1>7. c \in Seq(Message)
  BY <1>5, <1>6, Single
<1>8. n \in Seq(Message)
  BY <1>5, <1>6, Single
<1> DEFINE M == Message
<1>9. c \in Seq(M) /\ n \in Seq(M)
  BY <1>7, <1>8
<1> HIDE DEF M
<1>10. NewsOf(k) \in Seq(M)
  BY <1>6, <1>9
<1> QED
  BY <1>10 DEF M

\* The first sequences of seqs one after the other, as FlattenSeq adds them up.
Flattens(f, seqs) ==
    /\ f[1] = seqs[1]
    /\ \A i \in 2 .. Len(seqs) : f[i] = f[i - 1] \o seqs[i]

LEMMA Flattened ==
    ASSUME NEW S, NEW seqs \in Seq(S), seqs # << >>
    PROVE  \E f : Flattens(f, seqs) /\ FlattenSeq(seqs) = f[Len(seqs)]
<1> DEFINE n == Len(seqs)
<1> DEFINE next(i, v) == IF i = 1 THEN seqs[i] ELSE v \o seqs[i]
<1> DEFINE Body(f) == [i \in 1 .. n |-> next(i, f[i - 1])]
<1> DEFINE whole == CHOOSE f : f = Body(f)
<1>1. n \in Nat \ {0}
  OBVIOUS
<1>2. FlattenSeq(seqs) = whole[n]
  BY <1>1 DEF FlattenSeq
<1>3. \A v : next(1, v) = seqs[1]
  OBVIOUS
<1>4. \A i \in 2 .. n : \A v : next(i, v) = v \o seqs[i]
  OBVIOUS
<1> HIDE DEF n, next
<1> DEFINE Upto(f, m) == \A i \in 1 .. m + 1 : f[i] = next(i, f[i - 1])
<1> DEFINE T == {m \in 0 .. n - 1 : \E f : Upto(f, m)}
<1>5. 0 \in T
  <2>1. Upto([i \in 1 .. 1 |-> seqs[1]], 0)
    BY <1>3
  <2>2. \E f : Upto(f, 0)
    BY <2>1
  <2> QED
    BY <1>1, <2>2
<1>6. ASSUME NEW m \in 0 .. (n - 1) - 1, m \in T
      PROVE  m + 1 \in T
  <2>1. PICK f : Upto(f, m)
    BY <1>6
  <2> DEFINE g == [i \in 1 .. m + 2 |-> IF i = m + 2 THEN next(i, f[m + 1]) ELSE f[i]]
  <2>2. ASSUME NEW i \in 1 .. m + 1 + 1
        PROVE  g[i] = next(i, g[i - 1])
    <3>1. CASE i = m + 2
      BY <3>1
    <3>2. CASE i # m + 2 /\ i # 1
      BY <2>1, <3>2
    <3>3. CASE i = 1
      BY <1>3, <2>1, <3>3
    <3> QED
      BY <3>1, <3>2, <3>3
  <2>3. \E f1 : Upto(f1, m + 1)
    BY <2>2
  <2>4. m + 1 \in 0 .. n - 1
    BY <1>1
  <2> QED
    BY <2>3, <2>4
<1>7. T = 0 .. n - 1
  <2>1. T \in SUBSET (0 .. n - 1) /\ n - 1 \in Nat
    BY <1>1
  <2> HIDE DEF T
  <2> QED
    BY <1>5, <1>6, <2>1, UpTo
<1>8. \E f : f = Body(f)
  <2>1. PICK f : Upto(f, n - 1)
    <3>1. n - 1 \in T
      <4>1. n - 1 \in 0 .. n - 1
        BY <1>1
      <4> HIDE DEF T
      <4> QED
        BY <4>1, <1>7
    <3> QED
      BY <3>1
  <2> DEFINE g == [i \in 1 .. n |-> f[i]]
  <2>2. ASSUME NEW i \in 1 .. n
        PROVE  g[i] = next(i, g[i - 1])
    <3>1. CASE i = 1
      BY <1>1, <1>3, <2>1, <3>1
    <3>2. CASE i # 1
      BY <1>1, <2>1, <3>2
    <3> QED
      BY <3>1, <3>2
  <2>3. g = Body(g)
    BY <2>2
  <2> QED
    BY <2>3
<1>9. whole = Body(whole)
  BY <1>8
<1> HIDE DEF whole
<1>10. \A i \in 1 .. n : whole[i] = next(i, whole[i - 1])
  BY <1>9
<1>11. Flattens(whole, seqs)
  <2>1. whole[1] = seqs[1]
    <3>1. 1 \in 1 .. n
      BY <1>1
    <3> QED
      BY <1>3, <1>10, <3>1
  <2>2. ASSUME NEW i \in 2 .. n
        PROVE  whole[i] = whole[i - 1] \o seqs[i]
    <3>1. i \in 1 .. n
      BY <1>1
    <3> QED
      BY <1>4, <1>10, <3>1
  <2> QED
    BY <2>1, <2>2 DEF Flattens, n
<1> QED
  BY <1>2, <1>11 DEF n

\* Sequences over a set make one over it.
LEMMA FlattenSeqType ==
    ASSUME NEW S, NEW seqs \in Seq(Seq(S))
    PROVE  FlattenSeq(seqs) \in Seq(S)
<1>1. CASE seqs = << >>
  BY <1>1 DEF FlattenSeq
<1>2. CASE seqs # << >>
  <2> DEFINE n == Len(seqs)
  <2>1. n \in Nat \ {0} /\ \A i \in 1 .. n : seqs[i] \in Seq(S)
    BY <1>2
  <2>2. PICK f : Flattens(f, seqs) /\ FlattenSeq(seqs) = f[n]
    BY <1>2, Flattened
  <2>3. /\ f[1] \in Seq(S)
        /\ \A i \in 2 .. n : f[i] = f[i - 1] \o seqs[i]
    <3>1. f[1] = seqs[1] /\ 1 \in 1 .. n
      BY <2>1, <2>2 DEF Flattens
    <3>2. \A i \in 2 .. n : f[i] = f[i - 1] \o seqs[i]
      BY <2>2 DEF Flattens
    <3> HIDE DEF n
    <3> QED
      BY <2>1, <3>1, <3>2
  <2> HIDE DEF n
  <2> DEFINE T == {i \in 0 .. n - 1 : f[i + 1] \in Seq(S)}
  <2>4. 0 \in T /\ T \in SUBSET (0 .. n - 1) /\ n - 1 \in Nat
    BY <2>1, <2>3
  <2>5. ASSUME NEW i \in 0 .. (n - 1) - 1, i \in T
        PROVE  i + 1 \in T
    <3>1. i + 1 \in 0 .. n - 1 /\ i + 2 \in 2 .. n /\ i + 2 \in 1 .. n /\ (i + 2) - 1 = i + 1
      BY <2>1
    <3>2. f[i + 1] \in Seq(S) /\ seqs[i + 2] \in Seq(S)
      BY <2>1, <2>5, <3>1
    <3>3. f[i + 2] = f[i + 1] \o seqs[i + 2]
      BY <2>3, <3>1
    <3>4. f[i + 2] \in Seq(S) /\ i + 2 = i + 1 + 1
      BY <3>2, <3>3
    <3> QED
      BY <3>1, <3>4
  <2>6. T = 0 .. n - 1
    <3> HIDE DEF T
    <3> QED
      BY <2>4, <2>5, UpTo
  <2>7. f[n] \in Seq(S)
    <3>1. n - 1 \in T
      <4>1. n - 1 \in 0 .. n - 1
        BY <2>1
      <4> HIDE DEF T
      <4> QED
        BY <4>1, <2>6
    <3>2. (n - 1) + 1 = n
      BY <2>1
    <3> QED
      BY <3>1, <3>2
  <2> QED
    BY <2>2, <2>7 DEF n
<1> QED
  BY <1>1, <1>2

LEMMA SendSnapshotTypes == Types /\ SendSnapshot => Types'
<1> SUFFICES ASSUME Types, SendSnapshot PROVE Types'
  OBVIOUS
<1> DEFINE on == { k \in Key : sub[k].on }
           n  == Cardinality(on)
<1>1. n \in Nat
  <2>1. on \subseteq Key
    OBVIOUS
  <2> HIDE DEF on
  <2> QED
    BY <2>1, FirestoreReadsAssumption, FS_Subset, FS_CardinalityType, Zenon
<1>2. PICK order \in [1 .. n -> on] :
         toClient' = toClient \o FlattenSeq([i \in DOMAIN order |-> NewsOf(order[i])])
                     \o << [kind |-> "snapshot", version |-> Clock] >>
  BY DEF SendSnapshot
<1>3. /\ sub' = [k \in Key |-> IF k \in on THEN [on |-> TRUE, at |-> Clock, current |-> TRUE]
                               ELSE sub[k]]
      /\ UNCHANGED <<client, log, acks, toServer, bounds>>
  BY DEF SendSnapshot
<1>4. on \subseteq Key
  OBVIOUS
<1> HIDE DEF on, n
<1>5. UNCHANGED Elsewhere
  BY <1>3 DEF client, Elsewhere
<1>6. WritesOK' /\ CacheOK' /\ Len(log) <= Len(log')
  BY <1>5, ElsewhereKept
<1>7. ReaderOK'
  BY <1>3, <1>6, ReaderTyped, Kept DEF client, reader, Types
<1>8. WatchOK'
  <2> DEFINE seqs == [i \in DOMAIN order |-> NewsOf(order[i])]
             last == [kind |-> "snapshot", version |-> Clock]
  <2>1. seqs \in Seq(Seq(Message))
    <3>1. \A i \in 1 .. n : NewsOf(order[i]) \in Seq(Message)
      BY <1>2, <1>4, NewsOfType
    <3> DEFINE M == Seq(Message)
    <3>2. seqs = [i \in 1 .. n |-> NewsOf(order[i])] /\ \A i \in 1 .. n : NewsOf(order[i]) \in M
      BY <1>2, <3>1
    <3> HIDE DEF M, seqs
    <3>3. seqs \in Seq(M)
      BY <1>1, <3>2
    <3> QED
      BY <3>3 DEF M
  <2>2. FlattenSeq(seqs) \in Seq(Message)
    <3> HIDE DEF seqs
    <3> QED
      BY <2>1, FlattenSeqType
  <2>3. last \in Message
    <3>1. Clock \in 1 .. Clock
      BY DEF Types, WritesOK, Clock
    <3> QED
      BY <3>1 DEF Message
  <2>4. toClient' = toClient \o FlattenSeq(seqs) \o << last >>
    BY <1>2
  <2>5. toClient' \in Seq(Message)
    <3> DEFINE M == Message
               flat == FlattenSeq(seqs)
    <3>1. toClient \in Seq(M) /\ flat \in Seq(M) /\ last \in M
          /\ toClient' = toClient \o flat \o << last >>
      BY <2>2, <2>3, <2>4, WatchTyped
    <3> HIDE DEF M, flat, last
    <3>2. toClient' \in Seq(M)
      BY <3>1
    <3> QED
      BY <3>2 DEF M
  <2>6. sub' \in [Key -> Sub]
    <3>1. [on |-> TRUE, at |-> Clock, current |-> TRUE] \in Sub
      BY DEF Sub, Types, WritesOK, Clock
    <3> QED
      BY <1>3, <3>1, WatchTyped
  <2> QED
    BY <1>3, <1>6, <2>5, <2>6, WatchTyped, Kept DEF client, Types
<1> QED
  BY <1>3, <1>6, <1>7, <1>8, CountedKept DEF Types

\* The client stays as it is while the server's clock goes on.
LEMMA ClientKept ==
    ASSUME Types, WritesOK', Len(log) <= Len(log'), UNCHANGED client
    PROVE  ReaderOK' /\ CacheOK'
           /\ stream' \in Stream /\ aggregator' \in [Key -> Target]
           /\ updates' \in [Key -> Known]
<1>1. ReaderOK'
  BY ReaderTyped, Kept DEF client, reader, Types
<1>2. CacheOK'
  BY Kept DEF client, disk, Types, CacheOK
<1> QED
  BY <1>1, <1>2, WatchTyped DEF client

\* The current user's next write.
LEMMA NextWrite ==
    ASSUME Types, Len(acks) < Len(queue[currentUser])
    PROVE  /\ Len(acks) + 1 \in DOMAIN queue[currentUser]
           /\ queue[currentUser][Len(acks) + 1] \in Mutation
<1> DEFINE q == queue[currentUser]
<1>1. q \in Seq(Mutation) /\ Len(acks) \in Nat
  BY DEF Types, WritesOK
<1> HIDE DEF q
<1>2. Len(acks) + 1 \in 1 .. Len(q)
  BY <1>1 DEF q
<1> QED
  BY <1>1, <1>2 DEF q

\* The log grows by a commit.
LEMMA LogGrows ==
    ASSUME Types, NEW c \in Commit, log' = Append(log, c), UNCHANGED <<queue, currentUser>>,
           acks' \in Seq(1 .. Clock + 1), Len(acks') <= Len(queue[currentUser])
    PROVE  WritesOK' /\ Len(log) <= Len(log') /\ Clock' = Clock + 1
<1>1. log \in Seq(Commit)
  BY DEF Types, WritesOK
<1> DEFINE C == Commit
<1>2. log' \in Seq(C) /\ Len(log') = Len(log) + 1 /\ Len(log) \in Nat
  <2>1. log \in Seq(C) /\ c \in C
    BY <1>1
  <2> HIDE DEF C
  <2> QED
    BY <2>1
<1>3. Clock' = Clock + 1
  BY <1>2 DEF Clock
<1>4. Commit' = Commit /\ Mutation' = Mutation
  BY DEF Commit, Mutation
<1> QED
  BY <1>2, <1>3, <1>4 DEF Types, WritesOK

LEMMA CommitWriteTypes == Types /\ CommitWrite => Types'
<1> SUFFICES ASSUME Types, CommitWrite PROVE Types'
  OBVIOUS
<1> DEFINE m == queue[currentUser][Len(acks) + 1]
           c == [keys |-> {m.key}, content |-> IF m.op = "delete" THEN 0 ELSE m.no]
<1>1. /\ Len(acks) < Len(queue[currentUser])
      /\ log' = Append(log, c)
      /\ acks' = Append(acks, Clock + 1)
      /\ UNCHANGED <<client, toServer, toClient, sub, bounds>>
  BY DEF CommitWrite
<1>2. m \in Mutation
  BY <1>1, NextWrite
<1>3. c \in Commit
  <2> HIDE DEF m
  <2> QED
    BY <1>2, MutationContent DEF Mutation, Commit
<1> HIDE DEF c
<1>4. acks' \in Seq(1 .. Clock + 1) /\ Len(acks') = Len(acks) + 1
  <2>1. acks \in Seq(1 .. Clock) /\ Clock \in Nat
    BY DEF Types, WritesOK, Clock
  <2>2. acks \in Seq(1 .. Clock + 1) /\ Clock + 1 \in 1 .. Clock + 1
    <3>1. 1 .. Clock \subseteq 1 .. Clock + 1 /\ Clock + 1 \in 1 .. Clock + 1
      BY <2>1
    <3> QED
      BY <2>1, <3>1, SeqWider
  <2> QED
    BY <1>1, <2>2
<1>5. Len(acks') <= Len(queue[currentUser]) /\ UNCHANGED <<queue, currentUser>>
  <2>1. Len(acks) \in Nat /\ Len(queue[currentUser]) \in Nat
    BY DEF Types, WritesOK
  <2> QED
    BY <1>1, <1>4, <2>1 DEF client, disk
<1>6. WritesOK' /\ Len(log) <= Len(log')
  BY <1>1, <1>3, <1>4, <1>5, LogGrows
<1>7. ReaderOK' /\ CacheOK' /\ stream' \in Stream /\ aggregator' \in [Key -> Target]
      /\ updates' \in [Key -> Known]
  BY <1>1, <1>6, ClientKept
<1>8. WatchOK'
  BY <1>1, <1>6, <1>7, WatchTyped, Kept DEF Types
<1> QED
  BY <1>1, <1>6, <1>7, <1>8, CountedKept DEF Types

LEMMA LoseAnswersTypes == Types /\ LoseAnswers => Types'
<1> SUFFICES ASSUME Types, LoseAnswers PROVE Types'
  OBVIOUS
<1>1. Uses("faults") /\ acks' = << >> /\ UNCHANGED <<client, log, toServer, toClient, sub>>
  BY DEF LoseAnswers
<1>2. WritesOK' /\ Len(log) <= Len(log')
  <2>1. Clock' = Clock /\ Commit' = Commit /\ Mutation' = Mutation
    BY <1>1 DEF Clock, Commit, Mutation
  <2>2. acks' \in Seq(1 .. Clock) /\ Len(acks') = 0
    BY <1>1
  <2>3. queue' = queue /\ currentUser' = currentUser /\ log' = log
    BY <1>1 DEF client, disk
  <2>4. Len(queue[currentUser]) \in Nat
    BY DEF Types, WritesOK
  <2> QED
    BY <2>1, <2>2, <2>3, <2>4 DEF Types, WritesOK
<1>3. ReaderOK' /\ CacheOK' /\ stream' \in Stream /\ aggregator' \in [Key -> Target]
      /\ updates' \in [Key -> Known]
  BY <1>1, <1>2, ClientKept
<1>4. WatchOK'
  BY <1>1, <1>2, <1>3, WatchTyped, Kept DEF Types
<1>5. Counted'
  BY <1>1, UsesCounts DEF Types, Limits
<1> QED
  BY <1>2, <1>3, <1>4, <1>5 DEF Types

LEMMA OtherCommitTypes == Types /\ OtherCommit => Types'
<1> SUFFICES ASSUME Types, OtherCommit PROVE Types'
  OBVIOUS
<1>1. Uses("others") /\ UNCHANGED <<client, acks, toServer, toClient, sub>>
  BY DEF OtherCommit
<1>2. PICK keys \in {{}} \cup { {k} : k \in Key },
           c \in {0, MaxWrites + bounds'["others"]} :
         log' = Append(log, [keys |-> keys, content |-> IF keys = {} THEN 0 ELSE c])
  BY DEF OtherCommit
<1>3. Counted' /\ bounds'["others"] \in 1 .. MaxOthers
  BY <1>1, UsesCounts DEF Types, Limits
<1> DEFINE commit == [keys |-> keys, content |-> IF keys = {} THEN 0 ELSE c]
<1>4. commit \in Commit
  <2>1. c \in Content \cup {0}
    BY <1>3 DEF Content
  <2> QED
    BY <2>1 DEF Commit
<1> HIDE DEF commit
<1>5. acks' \in Seq(1 .. Clock + 1) /\ Len(acks') <= Len(queue[currentUser])
  <2>1. acks' = acks /\ acks \in Seq(1 .. Clock) /\ Clock \in Nat
        /\ Len(acks) <= Len(queue[currentUser])
    BY <1>1 DEF Types, WritesOK, Clock
  <2>2. 1 .. Clock \subseteq 1 .. Clock + 1
    BY <2>1
  <2> QED
    BY <2>1, <2>2, SeqWider
<1>6. WritesOK' /\ Len(log) <= Len(log')
  BY <1>1, <1>2, <1>4, <1>5, LogGrows DEF client, disk, commit
<1>7. ReaderOK' /\ CacheOK' /\ stream' \in Stream /\ aggregator' \in [Key -> Target]
      /\ updates' \in [Key -> Known]
  BY <1>1, <1>6, ClientKept
<1>8. WatchOK'
  BY <1>1, <1>6, <1>7, WatchTyped, Kept DEF Types
<1> QED
  BY <1>3, <1>6, <1>7, <1>8 DEF Types

LEMMA TakeRequestTypes == Types /\ TakeRequest => Types'
<1> SUFFICES ASSUME Types, TakeRequest PROVE Types'
  OBVIOUS
<1> DEFINE r == Head(toServer)
<1>1. /\ toServer # << >> /\ toServer' = Tail(toServer)
      /\ UNCHANGED <<client, log, acks>>
      /\ \E kind \in {"added", "removed", "error"} :
            toClient' = Append(toClient, [kind |-> kind, key |-> r.key])
      /\ \/ sub' = [sub EXCEPT ![r.key] = [on |-> TRUE, at |-> r.token, current |-> FALSE]]
         \/ sub' = sub
         \/ sub' = [sub EXCEPT ![r.key] = NoSub]
      /\ UNCHANGED bounds \/ Uses("denials")
  BY DEF TakeRequest
<1>2. r \in Request /\ Tail(toServer) \in Seq(Request)
  <2> DEFINE R == Request
  <2>1. toServer \in Seq(R) /\ toServer # << >>
    BY <1>1, WatchTyped
  <2> HIDE DEF R
  <2>2. Head(toServer) \in R /\ Tail(toServer) \in Seq(R)
    BY <2>1
  <2> QED
    BY <2>2 DEF R
<1>3. r.key \in Key /\ r.token \in 0 .. Clock
  BY <1>2 DEF Request
<1> HIDE DEF r
<1>4. WritesOK' /\ Len(log) <= Len(log')
  BY <1>1, WritesKept DEF Types, client, disk
<1>5. ReaderOK' /\ CacheOK' /\ stream' \in Stream /\ aggregator' \in [Key -> Target]
      /\ updates' \in [Key -> Known]
  BY <1>1, <1>4, ClientKept
<1>6. WatchOK'
  <2>1. toClient' \in Seq(Message)
    <3>1. \A kind \in {"added", "removed", "error"} : [kind |-> kind, key |-> r.key] \in Message
      BY <1>3 DEF Message
    <3> DEFINE M == Message
    <3>2. toClient \in Seq(M) /\ \E m \in M : toClient' = Append(toClient, m)
      BY <1>1, <3>1, WatchTyped
    <3> HIDE DEF M
    <3>3. toClient' \in Seq(M)
      BY <3>2
    <3> QED
      BY <3>3 DEF M
  <2>2. sub' \in [Key -> Sub]
    <3>1. [on |-> TRUE, at |-> r.token, current |-> FALSE] \in Sub
      BY <1>3 DEF Sub
    <3>2. NoSub \in Sub
      BY DEF NoSub, Sub, Types, WritesOK, Clock
    <3> QED
      BY <1>1, <1>3, <3>1, <3>2, WatchTyped
  <2> QED
    BY <1>1, <1>2, <1>4, <1>5, <2>1, <2>2, Kept DEF Types
<1>7. Counted'
  BY <1>1, UsesCounts, CountedKept DEF Types, Limits
<1> QED
  BY <1>4, <1>5, <1>6, <1>7 DEF Types

-----------------------------------------------------------------------------
LEMMA InitTypes == Init => Types
<1> SUFFICES ASSUME Init PROVE Types
  OBVIOUS
<1>1. Clock = 1
  BY DEF Init, Clock
<1>2. /\ Invalid \in Known /\ NoTarget \in Target /\ NoSub \in Sub /\ NoView \in View
      /\ Unknown \in Online
  BY <1>1, InvalidType
     DEF Known, NoTarget, Target, NoSub, Sub, NoView, View, Unknown, Online
<1>3. ReaderOK
  <2>1. [Get -> [key : Key, stage : {"unused"}]] \subseteq [Get -> Reads]
    BY DEF Reads
  <2> QED
    BY <1>2, <2>1 DEF Init, ReaderOK
<1>4. CacheOK
  BY <1>1, <1>2 DEF Init, CacheOK
<1>5. WritesOK
  BY <1>1 DEF Init, WritesOK
<1>6. WatchOK
  <2>1. stream \in Stream
    BY DEF Init, Stream
  <2>2. toServer \in Seq(Request) /\ toClient \in Seq(Message)
    BY Single DEF Init
  <2> QED
    BY <1>2, <2>1, <2>2 DEF Init, WatchOK
<1>7. Counted
  BY DEF Init, Counted
<1> QED
  BY <1>3, <1>4, <1>5, <1>6, <1>7 DEF Types

LEMMA NextTypes == Types /\ [Next]_vars => Types'
<1> SUFFICES ASSUME Types, [Next]_vars PROVE Types'
  OBVIOUS
<1>1. ASSUME NEW g \in Get, AddQueryListener(g) \/ RemoveQueryListener(g) PROVE Types'
  BY <1>1, AddQueryListenerTypes, RemoveQueryListenerTypes
<1>2. CASE OnWatchStreamOpen \/ OnWatchStreamClose \/ OnConnectivityChange
  BY <1>2, OnWatchStreamOpenTypes, OnWatchStreamCloseTypes, OnConnectivityChangeTypes
<1>3. CASE OnWatchStreamChange
  BY <1>3, TargetAddedTypes, TargetRemovedTypes, TargetCurrentTypes, TargetErrorTypes,
     DocumentChangedTypes, GlobalSnapshotTypes DEF OnWatchStreamChange
<1>4. CASE Timer
  BY <1>4, OnlineStateTimeoutTypes, BackoffTimeoutTypes, IdleTimeoutTypes DEF Timer
<1>5. CASE WriteMutations \/ HandleSuccessfulWrite \/ HandleRejectedWrite
  BY <1>5, WriteMutationsTypes, HandleSuccessfulWriteTypes, HandleRejectedWriteTypes
<1>6. ASSUME NEW u \in User, HandleCredentialChange(u) PROVE Types'
  BY <1>6, HandleCredentialChangeTypes
<1>7. CASE Restart
  BY <1>7, RestartTypes
<1>8. CASE CommitWrite \/ LoseAnswers \/ OtherCommit
  BY <1>8, CommitWriteTypes, LoseAnswersTypes, OtherCommitTypes
<1>9. CASE TakeRequest \/ SendSnapshot
  BY <1>9, TakeRequestTypes, SendSnapshotTypes
<1>10. CASE UNCHANGED vars
  <2>1. UNCHANGED <<Elsewhere, reader, watch, bounds>>
    BY <1>10 DEF vars, Elsewhere
  <2>2. WritesOK' /\ CacheOK' /\ Len(log) <= Len(log')
    BY <2>1, ElsewhereKept
  <2>3. ReaderOK'
    BY <2>1, <2>2, ReaderTyped, Kept DEF reader, Types
  <2> QED
    BY <2>1, <2>2, <2>3, WatchKept, CountedKept DEF Types
<1> QED
  BY <1>1, <1>2, <1>3, <1>4, <1>5, <1>6, <1>7, <1>8, <1>9, <1>10 DEF Next

\* Every variable has its type in every state: no version is ahead of the server's
\* clock, no acknowledgement is without a write.
THEOREM TypeCorrect == Spec => []TypeOK
<1>1. Spec => []Types
  BY InitTypes, NextTypes, PTL DEF Spec
<1> QED
  BY <1>1, TypesSuffice, PTL

-----------------------------------------------------------------------------
(* The cache goes forward.                                                 *)

\* Only a committed write and a snapshot put documents into the cache.
LEMMA CacheStays ==
    ASSUME [Next]_vars, ~ HandleSuccessfulWrite, ~ GlobalSnapshot
    PROVE  UNCHANGED cache
<1>1. ASSUME NEW g \in Get, AddQueryListener(g) \/ RemoveQueryListener(g)
      PROVE  UNCHANGED cache
  BY <1>1 DEF AddQueryListener, RemoveQueryListener, disk
<1>2. CASE OnWatchStreamOpen \/ OnWatchStreamClose \/ OnConnectivityChange
  BY <1>2 DEF OnWatchStreamOpen, OnWatchStreamClose, OnConnectivityChange, disk
<1>3. CASE TargetAdded \/ TargetRemoved \/ TargetCurrent \/ TargetError \/ DocumentChanged
  BY <1>3 DEF TargetAdded, TargetRemoved, TargetCurrent, TargetError, DocumentChanged, disk
<1>4. CASE Timer
  BY <1>4 DEF Timer, OnlineStateTimeout, BackoffTimeout, IdleTimeout, disk
<1>5. CASE WriteMutations \/ HandleRejectedWrite
  BY <1>5 DEF WriteMutations, HandleRejectedWrite
<1>6. ASSUME NEW u \in User, HandleCredentialChange(u) PROVE UNCHANGED cache
  BY <1>6 DEF HandleCredentialChange, disk
<1>7. CASE Restart
  BY <1>7 DEF Restart, disk
<1>8. CASE CommitWrite \/ LoseAnswers \/ OtherCommit \/ TakeRequest \/ SendSnapshot
  BY <1>8 DEF CommitWrite, LoseAnswers, OtherCommit, TakeRequest, SendSnapshot, client, disk
<1>9. CASE UNCHANGED vars
  BY <1>9 DEF vars, disk
<1> QED
  BY <1>1, <1>2, <1>3, <1>4, <1>5, <1>6, <1>7, <1>8, <1>9 DEF Next, OnWatchStreamChange

Forward == \A k \in Key : cache'[k].version >= cache[k].version

LEMMA CacheTyped == Types => cache \in [Key -> Known] /\ Clock \in Nat \ {0}
  BY DEF Types, CacheOK, WritesOK, Clock

LEMMA VersionNat == \A d \in Known : d.version \in Nat
  BY DEF Known, Doc, Document

LEMMA CommitForward == Types /\ HandleSuccessfulWrite => Forward
<1> SUFFICES ASSUME Types, HandleSuccessfulWrite PROVE Forward
  OBVIOUS
<1> DEFINE m == Head(queue[currentUser])
<1>1. m \in Mutation /\ m.key \in Key /\ Head(acks) \in 1 .. Clock
  BY AcksAwaited, HeadTypes DEF HandleSuccessfulWrite
<1>2. cache' = [cache EXCEPT ![m.key] = ApplyBatchResult(@, m, Head(acks))]
  BY DEF HandleSuccessfulWrite
<1> HIDE DEF m
<1> QED
  BY <1>1, <1>2, CacheTyped, VersionNat, BatchResultType DEF Forward

\* What the cache accepts is not older than what it has.
LEMMA AcceptedForward ==
    ASSUME Types, NEW v \in 1 .. Clock, NEW k \in Key
    PROVE  Docs(v)[k].version >= cache[k].version
<1>1. cache[k] \in Known /\ Docs(v)[k] \in Known
  BY CacheTyped, DocsType
<1>2. cache[k].version \in Nat /\ Docs(v)[k].version \in Nat
  BY <1>1, VersionNat
<1>3. CASE k \in Accepted(v)
  <2>1. Docs(v)[k] = DocumentUpdates(v)[k] /\ Accepts(cache[k], DocumentUpdates(v)[k])
    BY <1>3 DEF Docs, Accepted
  <2>2. cache[k].type = "invalid" => cache[k].version = 0
    BY <1>1, InvalidType DEF Known
  <2> QED
    BY <1>2, <2>1, <2>2 DEF Accepts
<1>4. CASE k \notin Accepted(v)
  BY <1>2, <1>4 DEF Docs
<1> QED
  BY <1>3, <1>4

LEMMA SnapshotForward == Types /\ GlobalSnapshot => Forward
<1> SUFFICES ASSUME Types, GlobalSnapshot PROVE Forward
  OBVIOUS
<1> DEFINE v == Head(toClient).version
<1>1. v \in 1 .. Clock
  BY ReceiveTypes DEF GlobalSnapshot
<1>2. UNCHANGED cache \/ \E aged \in BOOLEAN : RaiseWatchSnapshot(v, aged)
  BY DEF GlobalSnapshot
<1> HIDE DEF v
<1>3. cache' = cache \/ cache' = Docs(v)
  BY <1>2, RaiseParts
<1> QED
  BY <1>1, <1>3, AcceptedForward, CacheTyped, VersionNat DEF Forward

\* Acknowledgements and snapshots come in any order, and no document of the cache
\* is ever replaced by an older one.
THEOREM NeverBack == Spec => CacheForward
<1>1. Spec => []Types
  BY InitTypes, NextTypes, PTL DEF Spec
<1>2. Types /\ [Next]_vars => [Forward]_vars
  <2> SUFFICES ASSUME Types, [Next]_vars PROVE Forward
    OBVIOUS
  <2>1. CASE HandleSuccessfulWrite
    BY <2>1, CommitForward
  <2>2. CASE GlobalSnapshot
    BY <2>2, SnapshotForward
  <2>3. CASE ~ HandleSuccessfulWrite /\ ~ GlobalSnapshot
    BY <2>3, CacheStays, CacheTyped, VersionNat DEF Forward
  <2> QED
    BY <2>1, <2>2, <2>3
<1>3. Spec => [][Forward]_vars
  BY <1>1, <1>2, PTL DEF Spec
<1>4. CacheForward <=> [][Forward]_vars
  BY PTL DEF CacheForward, Forward
<1> QED
  BY <1>3, <1>4, PTL

-----------------------------------------------------------------------------
(* What becomes of the views.                                              *)

\* Views are published: none opens or closes by it, or shows something else.
LEMMA PublishViews ==
    ASSUME NEW views \in [Key -> View], NEW o, NEW calls, NEW heard,
           Publish(views, o, calls, heard)
    PROVE  \A k \in Key : /\ view'[k].on = views[k].on
                          /\ view'[k].doc = views[k].doc
                          /\ view'[k].synced = views[k].synced
                          /\ view'[k].token = views[k].token
<1>1. view' = ApplyOnlineStateChange(views, o)
  BY DEF Publish
<1> QED
  BY <1>1, OfflineTypes

\* What the emitted views show.
LEMMA EmitDocs ==
    ASSUME Types, NEW keys, NEW c \in [Key -> Known], NEW q \in Seq(Mutation), NEW k \in Key
    PROVE  Emit(keys, c, q)[k].doc = IF view[k].on /\ k \in keys
                                     THEN Shown(view[k].doc, GetDocument(c[k], q, k))
                                     ELSE view[k].doc
<1> DEFINE doc == Shown(view[k].doc, GetDocument(c[k], q, k))
<1>1. view[k] \in View /\ view[k].doc \in Doc
      /\ view[k].current \in BOOLEAN /\ view[k].synced \in BOOLEAN
  BY ReaderTyped DEF View
<1>2. doc \in Doc
  <2>1. GetDocument(c[k], q, k) \in Doc
    BY LocalType DEF Known
  <2> QED
    BY <1>1, <2>1, ShownType
<1>3. Emit(keys, c, q)[k] = IF view[k].on /\ k \in keys
                            THEN ApplyChanges(view[k], doc, view[k].current, view[k].synced)
                            ELSE view[k]
  BY DEF Emit
<1> HIDE DEF doc
<1>4. ApplyChanges(view[k], doc, view[k].current, view[k].synced).doc = doc
  BY <1>1, <1>2, ApplyChangesType
<1> QED
  BY <1>3, <1>4 DEF doc

\* A view that is open has been before, and shows what it showed.
QuietViews ==
    \A k \in Key : view'[k].on => /\ view[k].on
                                  /\ view'[k].doc = view[k].doc
                                  /\ view'[k].synced = view[k].synced

\* What documents look like to the user.
Looks == <<cache, queue, currentUser, matching>>

LEMMA QuietPublish ==
    ASSUME Types, NEW o, NEW calls, NEW heard, Publish(view, o, calls, heard)
    PROVE  QuietViews /\ \A k \in Key : view'[k].on = view[k].on
  BY PublishViews, ReaderTyped DEF QuietViews

LEMMA ClosedViews ==
    ASSUME Types, NEW k \in Key, NEW views, NEW o, NEW calls, NEW heard,
           views = [view EXCEPT ![k] = NoView],
           Publish(views, o, calls, heard)
    PROVE  QuietViews
<1>1. views \in [Key -> View]
  BY NoViewType, ReaderTyped
<1>2. \A j \in Key : views[j] = IF j = k THEN NoView ELSE view[j]
  BY ReaderTyped
<1>3. NoView.on = FALSE
  BY DEF NoView
<1>4. \A j \in Key : /\ view'[j].on = views[j].on
                     /\ view'[j].doc = views[j].doc
                     /\ view'[j].synced = views[j].synced
  BY <1>1, PublishViews
<1>5. ASSUME NEW j \in Key, view'[j].on
      PROVE  view[j].on /\ view'[j].doc = view[j].doc /\ view'[j].synced = view[j].synced
  <2>1. j # k
    BY <1>2, <1>3, <1>4, <1>5
  <2> QED
    BY <1>2, <1>4, <1>5, <2>1
<1> QED
  BY <1>5 DEF QuietViews

\* A step that neither opens views nor changes documents.
Calm == /\ ~ \E g \in Get : AddQueryListener(g)
        /\ ~ WriteMutations /\ ~ HandleSuccessfulWrite /\ ~ HandleRejectedWrite
        /\ ~ \E u \in User : HandleCredentialChange(u)
        /\ ~ GlobalSnapshot

LEMMA CalmSteps ==
    ASSUME Types, [Next]_vars, Calm
    PROVE  QuietViews /\ UNCHANGED Looks
<1>1. ASSUME NEW g \in Get, RemoveQueryListener(g) PROVE QuietViews /\ UNCHANGED Looks
  <2> DEFINE k     == gets[g].key
             last  == listeners[k] = {g}
             views == IF last THEN [view EXCEPT ![k] = NoView] ELSE view
  <2>1. k \in Key
    BY ReaderTyped DEF Reads
  <2>2. /\ UNCHANGED Looks
        /\ \E o, calls, heard : Publish(views, o, calls, heard)
    BY <1>1 DEF RemoveQueryListener, Looks
  <2> HIDE DEF k, last
  <2>3. CASE last
    BY <2>1, <2>2, <2>3, ClosedViews
  <2>4. CASE ~ last
    BY <2>2, <2>4, QuietPublish
  <2> QED
    BY <2>2, <2>3, <2>4
<1>2. CASE OnWatchStreamOpen \/ BackoffTimeout \/ UNCHANGED vars
  BY <1>2 DEF OnWatchStreamOpen, BackoffTimeout, vars, reader, disk, QuietViews, Looks
<1>3. CASE OnWatchStreamClose \/ OnConnectivityChange \/ OnlineStateTimeout \/ IdleTimeout
  <2>1. UNCHANGED Looks /\ \E o, calls, heard : Publish(view, o, calls, heard)
    BY <1>3 DEF OnWatchStreamClose, OnConnectivityChange, RestartNetwork, OnlineStateTimeout,
                IdleTimeout, Looks, disk
  <2> QED
    BY <2>1, QuietPublish
<1>4. CASE TargetAdded \/ TargetRemoved \/ TargetCurrent \/ DocumentChanged
  <2>1. UNCHANGED Looks /\ \E o, calls, heard : Publish(view, o, calls, heard)
    BY <1>4 DEF TargetAdded, TargetRemoved, TargetCurrent, DocumentChanged, Looks, disk
  <2> QED
    BY <2>1, QuietPublish
<1>5. CASE TargetError
  <2> DEFINE k == Head(toClient).key
  <2>1. k \in Key
    BY <1>5, ReceiveTypes DEF TargetError
  <2>2. /\ UNCHANGED Looks
        /\ \E o, calls, heard : \/ Publish([view EXCEPT ![k] = NoView], o, calls, heard)
                                \/ Publish(view, o, calls, heard)
    BY <1>5 DEF TargetError, Looks
  <2> HIDE DEF k
  <2> QED
    BY <2>1, <2>2, ClosedViews, QuietPublish
<1>6. CASE Restart
  <2>1. UNCHANGED Looks /\ view' = [k \in Key |-> NoView]
    BY <1>6 DEF Restart, Looks, disk
  <2> QED
    BY <2>1 DEF QuietViews, NoView
<1>7. CASE CommitWrite \/ LoseAnswers \/ OtherCommit \/ TakeRequest \/ SendSnapshot
  BY <1>7 DEF CommitWrite, LoseAnswers, OtherCommit, TakeRequest, SendSnapshot, client,
              reader, disk, QuietViews, Looks
<1> QED
  BY <1>1, <1>2, <1>3, <1>4, <1>5, <1>6, <1>7
     DEF Calm, Next, OnWatchStreamChange, Timer

-----------------------------------------------------------------------------
(* A view shows the local document.                                        *)

\* Document d is what a view may show for local document n; a write that waits for
\* the server is shown as one.
Agrees(d, n) ==
    \/ Found(d) = Found(n) /\ (Found(n) => d.content = n.content)
    \/ d.state = "local" /\ n.state = "committed"

Fits(d, n) == Agrees(d, n) /\ (Found(n) /\ n.state = "local" => d.state = "local")

Local(k) == GetDocument(cache[k], queue[currentUser], k)

ShowsLocal == \A k \in Key : view[k].on => Fits(view[k].doc, Local(k))

LEMMA ShowsLocalSuffices == ShowsLocal => ViewIsLocalDocument
  BY DEF ShowsLocal, Fits, Agrees, Local, ViewIsLocalDocument

\* Whatever a view has shown, it fits once the new document has been applied.
LEMMA ShownFits ==
    ASSUME NEW d, NEW n
    PROVE  Fits(Shown(d, n), n)
<1>1. Found(Invalid) = FALSE
  BY DEF Found, Invalid
<1>2. CASE ~ Found(n)
  <2>1. Shown(d, n) = Invalid
    BY <1>2 DEF Shown
  <2>2. Found(Shown(d, n)) = Found(n)
    BY <1>1, <1>2, <2>1 DEF Found
  <2> QED
    BY <1>2, <2>2 DEF Fits, Agrees
<1>3. CASE Found(n) /\ ~ Found(d)
  <2>1. Shown(d, n) = n
    BY <1>3 DEF Shown
  <2> QED
    BY <2>1 DEF Fits, Agrees
<1>4. CASE Found(n) /\ Found(d)
  <2> DEFINE waits == d.state = "local" /\ n.state = "committed"
  <2>1. CASE d.content # n.content
    <3>1. Shown(d, n) = IF waits THEN d ELSE n
      BY <1>4, <2>1 DEF Shown
    <3>2. CASE waits
      BY <3>1, <3>2 DEF Fits, Agrees
    <3>3. CASE ~ waits
      <4>1. Shown(d, n) = n
        BY <3>1, <3>3
      <4> QED
        BY <4>1 DEF Fits, Agrees
    <3> QED
      BY <3>2, <3>3
  <2>2. CASE d.content = n.content
    <3>1. \/ Shown(d, n) = d /\ (n.state = "local" => d.state = "local")
          \/ Shown(d, n) = n
      BY <1>4, <2>2 DEF Shown
    <3>2. Agrees(d, n) /\ Fits(n, n)
      BY <1>4, <2>2 DEF Fits, Agrees, Found
    <3> QED
      BY <3>1, <3>2 DEF Fits
  <2> QED
    BY <2>1, <2>2
<1> QED
  BY <1>2, <1>3, <1>4

\* A view that is open afterwards has shown the document before, and the local
\* document is the same; or what it shows now fits.
LocalStep(k) ==
    view'[k].on => \/ view[k].on /\ view'[k].doc = view[k].doc /\ Local(k)' = Local(k)
                   \/ Fits(view'[k].doc, Local(k)')

LEMMA LocalSteps == ShowsLocal /\ (\A k \in Key : LocalStep(k)) => ShowsLocal'
  BY DEF ShowsLocal, LocalStep, Fits, Agrees, Found

LEMMA CalmLocal ==
    ASSUME QuietViews, UNCHANGED Looks, NEW k \in Key
    PROVE  LocalStep(k)
  BY DEF QuietViews, Looks, LocalStep, Local

LEMMA AddQueryListenerLocal ==
    ASSUME Types, NEW g \in Get, AddQueryListener(g), NEW j \in Key
    PROVE  LocalStep(j)
<1> DEFINE k     == gets[g].key
           views == IF ~ view[k].on THEN [view EXCEPT ![k] = Opens(k)] ELSE view
<1>1. k \in Key
  BY ReaderTyped DEF Reads
<1>2. UNCHANGED Looks /\ \E o, calls, heard : Publish(views, o, calls, heard)
  BY DEF AddQueryListener, Opens, Looks, disk
<1> HIDE DEF k
<1>3. views \in [Key -> View]
  BY <1>1, OpensType, ReaderTyped
<1>4. view'[j].on = views[j].on /\ view'[j].doc = views[j].doc
  BY <1>2, <1>3, PublishViews
<1>5. Local(j)' = Local(j)
  BY <1>2 DEF Looks, Local
<1>6. CASE j = k /\ ~ view[k].on
  <2>1. Opens(k).doc = IF Found(Local(k)) THEN Local(k) ELSE Invalid
    BY DEF Opens, Local
  <2>2. Fits(Opens(k).doc, Local(k))
    BY <2>1, InvalidType DEF Fits, Agrees, Found, Invalid
  <2>3. view'[j].doc = Opens(k).doc
    BY <1>1, <1>4, <1>6, ReaderTyped
  <2> QED
    BY <1>5, <1>6, <2>2, <2>3 DEF LocalStep
<1>7. CASE ~ (j = k /\ ~ view[k].on)
  <2>1. views[j] = view[j]
    BY <1>1, <1>7, ReaderTyped
  <2> QED
    BY <1>4, <1>5, <2>1 DEF LocalStep
<1> QED
  BY <1>6, <1>7

\* What the views of the emitted documents show fits, and the others' documents
\* must not have changed.
LEMMA EmitLocal ==
    ASSUME Types, NEW keys, NEW c \in [Key -> Known], NEW q \in Seq(Mutation),
           NEW o, NEW calls, NEW heard,
           Publish(Emit(keys, c, q), o, calls, heard),
           cache' = c, queue'[currentUser'] = q,
           NEW k \in Key,
           k \notin keys => GetDocument(c[k], q, k) = Local(k)
    PROVE  LocalStep(k)
<1> DEFINE views == Emit(keys, c, q)
           doc   == GetDocument(c[k], q, k)
<1>1. views \in [Key -> View] /\ views[k].on = view[k].on
  BY EmitViews
<1>2. views[k].doc = IF view[k].on /\ k \in keys THEN Shown(view[k].doc, doc) ELSE view[k].doc
  BY EmitDocs
<1>3. Local(k)' = doc
  BY DEF Local
<1>4. view'[k].on = views[k].on /\ view'[k].doc = views[k].doc
  <2> HIDE DEF views
  <2> QED
    BY <1>1, PublishViews DEF views
<1> HIDE DEF views, doc
<1>5. Fits(Shown(view[k].doc, doc), doc)
  BY ShownFits
<1> QED
  BY <1>1, <1>2, <1>3, <1>4, <1>5 DEF LocalStep, doc

LEMMA WriteMutationsLocal ==
    ASSUME Types, WriteMutations, NEW j \in Key
    PROVE  LocalStep(j)
<1>1. PICK op \in {"set", "update", "delete"}, k \in Key :
         /\ Uses("writes")
         /\ LET m == [no |-> bounds'["writes"], op |-> op, key |-> k]
                q == Append(queue[currentUser], m)
            IN  /\ queue' = [queue EXCEPT ![currentUser] = q]
                /\ Publish(Emit({k}, cache, q), online, gets, listeners)
         /\ UNCHANGED <<log, cache, saved, matching, lastRemote, currentUser, acks, listeners,
                        watch>>
  BY DEF WriteMutations
<1> DEFINE m == [no |-> bounds'["writes"], op |-> op, key |-> k]
           q == Append(queue[currentUser], m)
<1>2. m \in Mutation /\ m.key = k
  <2>1. bounds'["writes"] \in 1 .. MaxWrites
    BY <1>1, UsesCounts DEF Types, Limits
  <2> QED
    BY <2>1 DEF Mutation
<1>3. /\ currentUser \in User /\ queue \in [User -> Seq(Mutation)]
      /\ queue[currentUser] \in Seq(Mutation)
  BY DEF Types, WritesOK
<1>4. /\ queue' = [queue EXCEPT ![currentUser] = q]
      /\ Publish(Emit({k}, cache, q), online, gets, listeners)
  BY <1>1
<1> HIDE DEF m
<1>5. q \in Seq(Mutation)
  BY <1>2, <1>3
<1>6. j \notin {k} => GetDocument(cache[j], q, j) = Local(j)
  BY <1>2, <1>3, AppendedApart DEF Local
<1>7. queue'[currentUser'] = q /\ cache' = cache
  BY <1>1, <1>3, <1>4
<1> HIDE DEF q
<1> QED
  BY <1>4, <1>5, <1>6, <1>7, CacheTyped, EmitLocal

LEMMA HandleSuccessfulWriteLocal ==
    ASSUME Types, HandleSuccessfulWrite, NEW j \in Key
    PROVE  LocalStep(j)
<1> DEFINE m == Head(queue[currentUser])
           q == Tail(queue[currentUser])
           c == [cache EXCEPT ![m.key] = ApplyBatchResult(@, m, Head(acks))]
<1>1. /\ acks # << >> /\ cache' = c /\ currentUser' = currentUser
      /\ queue' = [queue EXCEPT ![currentUser] = q]
      /\ Publish(Emit({m.key}, c, q), online, gets, listeners)
  BY DEF HandleSuccessfulWrite
<1>2. /\ queue[currentUser] # << >> /\ Head(acks) \in 1 .. Clock
      /\ m \in Mutation /\ m.key \in Key /\ q \in Seq(Mutation)
  BY <1>1, AcksAwaited, HeadTypes
<1>3. /\ currentUser \in User /\ queue \in [User -> Seq(Mutation)]
      /\ queue[currentUser] \in Seq(Mutation)
  BY DEF Types, WritesOK
<1>4. j \notin {m.key} => GetDocument(cache[j], q, j) = Local(j)
  BY <1>2, <1>3, TakenApart DEF Local
<1> HIDE DEF m, q
<1>5. c \in [Key -> Known] /\ (j \notin {m.key} => c[j] = cache[j])
  BY <1>2, CacheTyped, BatchResultType
<1> HIDE DEF c
<1>6. queue'[currentUser'] = q
  BY <1>1, <1>3
<1> QED
  BY <1>1, <1>2, <1>4, <1>5, <1>6, EmitLocal

LEMMA HandleRejectedWriteLocal ==
    ASSUME Types, HandleRejectedWrite, NEW j \in Key
    PROVE  LocalStep(j)
<1> DEFINE m == Head(queue[currentUser])
           q == Tail(queue[currentUser])
<1>1. /\ queue[currentUser] # << >> /\ cache' = cache /\ currentUser' = currentUser
      /\ queue' = [queue EXCEPT ![currentUser] = q]
      /\ Publish(Emit({m.key}, cache, q), online, gets, listeners)
  BY DEF HandleRejectedWrite
<1>2. q \in Seq(Mutation)
  BY <1>1, HeadTypes
<1>3. /\ currentUser \in User /\ queue \in [User -> Seq(Mutation)]
      /\ queue[currentUser] \in Seq(Mutation)
  BY DEF Types, WritesOK
<1>4. j \notin {m.key} => GetDocument(cache[j], q, j) = Local(j)
  BY <1>1, <1>3, TakenApart DEF Local
<1> HIDE DEF m, q
<1>5. queue'[currentUser'] = q
  BY <1>1, <1>3
<1> QED
  BY <1>1, <1>2, <1>4, <1>5, CacheTyped, EmitLocal

LEMMA HandleCredentialChangeLocal ==
    ASSUME Types, NEW u \in User, HandleCredentialChange(u), NEW j \in Key
    PROVE  LocalStep(j)
<1> DEFINE views == IF u = currentUser THEN view
                    ELSE Emit(ChangedByUser(u), cache, queue[u])
<1>1. /\ currentUser' = u /\ cache' = cache /\ queue' = queue
      /\ \E o : Publish(views, o, gets, listeners)
  BY DEF HandleCredentialChange, RestartNetwork, disk
<1>2. /\ currentUser \in User /\ queue \in [User -> Seq(Mutation)]
      /\ queue[u] \in Seq(Mutation) /\ queue[currentUser] \in Seq(Mutation)
  BY DEF Types, WritesOK
<1>3. CASE u = currentUser
  <2>1. Local(j)' = Local(j)
    BY <1>1, <1>3 DEF Local
  <2>2. QuietViews
    BY <1>1, <1>3, QuietPublish
  <2> QED
    BY <2>1, <2>2 DEF QuietViews, LocalStep
<1>4. CASE u # currentUser
  <2>1. \E o : Publish(Emit(ChangedByUser(u), cache, queue[u]), o, gets, listeners)
    BY <1>1, <1>4
  <2>2. j \notin ChangedByUser(u) => GetDocument(cache[j], queue[u], j) = Local(j)
    <3>1. ASSUME j \notin ChangedByUser(u)
          PROVE  GetDocument(cache[j], queue[u], j) = Local(j)
      <4>1. j \notin Keys(queue[u]) /\ j \notin Keys(queue[currentUser])
        BY <3>1 DEF ChangedByUser
      <4> QED
        BY <1>2, <4>1, NothingApplied DEF Local
    <3> QED
      BY <3>1
  <2> QED
    BY <1>1, <1>2, <2>1, <2>2, CacheTyped, EmitLocal
<1> QED
  BY <1>3, <1>4

LEMMA GlobalSnapshotLocal ==
    ASSUME Types, GlobalSnapshot, NEW j \in Key
    PROVE  LocalStep(j)
<1> DEFINE v == Head(toClient).version
<1>1. v \in 1 .. Clock
  BY ReceiveTypes DEF GlobalSnapshot
<1>2. /\ UNCHANGED <<queue, currentUser>>
      /\ \/ \E aged \in BOOLEAN : RaiseWatchSnapshot(v, aged)
         \/ UNCHANGED <<cache, matching>> /\ Publish(view, NowOnline, gets, listeners)
  BY DEF GlobalSnapshot
<1> HIDE DEF v
<1>3. CASE UNCHANGED <<cache, matching>> /\ Publish(view, NowOnline, gets, listeners)
  <2>1. QuietViews /\ UNCHANGED Looks
    BY <1>2, <1>3, QuietPublish DEF Looks
  <2> QED
    BY <2>1, CalmLocal
<1>4. ASSUME NEW aged \in BOOLEAN, RaiseWatchSnapshot(v, aged)
      PROVE  LocalStep(j)
  <2>1. cache' = Docs(v) /\ Publish(Views(v), NowOnline, gets, listeners)
    BY <1>4, RaiseParts
  <2>2. /\ Views(v) \in [Key -> View] /\ Views(v)[j].on = view[j].on
        /\ view[j].on => Views(v)[j].doc = DocOf(v, j)
    BY <1>1, ViewsTypes
  <2>3. view'[j].on = Views(v)[j].on /\ view'[j].doc = Views(v)[j].doc
    BY <2>1, <2>2, PublishViews
  <2> DEFINE doc == GetDocument(Docs(v)[j], queue[currentUser], j)
  <2>4. Local(j)' = doc
    BY <1>2, <2>1 DEF Local
  <2>5. CASE j \in Accepted(v)
    <3>1. DocOf(v, j) = Shown(view[j].doc, doc)
      BY <2>5 DEF DocOf
    <3> HIDE DEF doc
    <3>2. Fits(DocOf(v, j), doc)
      BY <3>1, ShownFits
    <3> QED
      BY <2>2, <2>3, <2>4, <3>2 DEF LocalStep
  <2>6. CASE j \notin Accepted(v)
    <3>1. DocOf(v, j) = view[j].doc /\ doc = Local(j)
      BY <2>6 DEF DocOf, Docs, Local
    <3> HIDE DEF doc
    <3> QED
      BY <2>2, <2>3, <2>4, <3>1 DEF LocalStep
  <2> QED
    BY <2>5, <2>6
<1> QED
  BY <1>2, <1>3, <1>4

LEMMA NextLocal == Types /\ ShowsLocal /\ [Next]_vars => ShowsLocal'
<1> SUFFICES ASSUME Types, ShowsLocal, [Next]_vars PROVE ShowsLocal'
  OBVIOUS
<1>1. SUFFICES ASSUME NEW k \in Key PROVE LocalStep(k)
  BY LocalSteps
<1>2. CASE Calm
  BY <1>2, CalmSteps, CalmLocal
<1>3. CASE ~ Calm
  BY <1>3, AddQueryListenerLocal, WriteMutationsLocal, HandleSuccessfulWriteLocal,
     HandleRejectedWriteLocal, HandleCredentialChangeLocal, GlobalSnapshotLocal DEF Calm
<1> QED
  BY <1>2, <1>3

\* Whichever of writes, answers, snapshots and changes of user come, an open view
\* shows the document of the cache under the current user's writes, or holds back
\* the news of a commit.
THEOREM ShowsLocalDocument == Spec => []ViewIsLocalDocument
<1>1. Init => ShowsLocal
  BY DEF Init, NoView, ShowsLocal
<1>2. Spec => []Types
  BY InitTypes, NextTypes, PTL DEF Spec
<1>3. Spec => []ShowsLocal
  BY <1>1, <1>2, NextLocal, PTL DEF Spec
<1> QED
  BY <1>3, ShowsLocalSuffices, PTL

-----------------------------------------------------------------------------
(* The client's assertions.                                                *)

\* The timer runs while the state of a starting stream is unknown.
TimerRuns ==
    /\ online.timer => IsStarted /\ online.state = "Unknown"
    /\ online.state = "Online" => ~ online.failed

\* A stream is idle while it is open for nothing.
IdleIsOpen == stream.idle => stream.state = "Open" /\ Listening(view) = {}

\* An open view knows whether its document matches, and a document that is modified
\* matches, though views close and open again between the messages on it.
MatchKnown ==
    /\ \A k \in Key : view[k].on => (view[k].synced <=> k \in matching)
    /\ \A k \in Key : aggregator[k].change = "Modified" => k \in matching

Assertions == TimerRuns /\ IdleIsOpen /\ MatchKnown

LEMMA AssertionsSuffice == Assertions => AssertionsHold
<1> SUFFICES ASSUME Assertions PROVE AssertionsHold
  OBVIOUS
<1>1. /\ online.timer => IsStarted /\ online.state = "Unknown"
      /\ online.state = "Online" => ~ online.failed
  BY DEF Assertions, TimerRuns
<1>2. stream.idle => stream.state = "Open" /\ Listening(view) = {}
  BY DEF Assertions, IdleIsOpen
<1>3. \A k \in Key : aggregator[k].change = "Modified" /\ view[k].on => view[k].synced
  BY DEF Assertions, MatchKnown
<1> QED
  BY <1>1, <1>2, <1>3 DEF AssertionsHold

\* The document changes that the aggregator knows of afterwards, it has known of;
\* or the view that is open says that the document matches.
ChangesStay ==
    \A k \in Key : aggregator'[k].change = "Modified" =>
        \/ aggregator[k].change = "Modified"
        \/ view[k].on /\ view[k].synced

LEMMA AggregatorStays ==
    ASSUME Types, [Next]_vars, ~ GlobalSnapshot
    PROVE  ChangesStay
<1>1. CASE CleanUpWatchStreamState
  <2>1. \A k \in Key : aggregator'[k] = NoTarget
    BY <1>1 DEF CleanUpWatchStreamState
  <2> QED
    BY <2>1 DEF ChangesStay, NoTarget
<1>2. ASSUME NEW k \in Key, RecordPendingTargetRequest(k) PROVE ChangesStay
  <2>1. \A j \in Key : aggregator'[j].change = aggregator[j].change
    BY <1>2, WatchTyped DEF RecordPendingTargetRequest, Target
  <2> QED
    BY <2>1 DEF ChangesStay
<1>3. CASE aggregator' = aggregator
  BY <1>3 DEF ChangesStay
<1>4. ASSUME NEW k \in Key, NEW t,
             aggregator' = [aggregator EXCEPT ![k] = t],
             t.change = "Modified" => \/ aggregator[k].change = "Modified"
                                      \/ view[k].on /\ view[k].synced
      PROVE  ChangesStay
  <2>1. \A j \in Key : aggregator'[j] = IF j = k THEN t ELSE aggregator[j]
    BY <1>4, WatchTyped
  <2> QED
    BY <1>4, <2>1 DEF ChangesStay
<1>5. ASSUME NEW g \in Get, AddQueryListener(g) \/ RemoveQueryListener(g) PROVE ChangesStay
  <2>1. gets[g].key \in Key
    BY ReaderTyped DEF Reads
  <2>2. \/ CleanUpWatchStreamState
        \/ RecordPendingTargetRequest(gets[g].key)
        \/ aggregator' = aggregator
    BY <1>5 DEF AddQueryListener, RemoveQueryListener, watch
  <2> QED
    BY <1>1, <1>2, <1>3, <2>1, <2>2
<1>6. CASE OnWatchStreamOpen
  <2>1. \A k \in Key : aggregator'[k].change = aggregator[k].change
    <3>1. \A t \in Target : [t EXCEPT !.known = TRUE, !.pending = @ + 1].change = t.change
      BY DEF Target
    <3> QED
      BY <1>6, <3>1, WatchTyped DEF OnWatchStreamOpen
  <2> QED
    BY <2>1 DEF ChangesStay
<1>7. CASE OnWatchStreamClose \/ OnConnectivityChange \/ IdleTimeout \/ Restart
  BY <1>1, <1>7 DEF OnWatchStreamClose, OnConnectivityChange, RestartNetwork, IdleTimeout, Restart
<1>8. CASE OnlineStateTimeout \/ BackoffTimeout \/ UNCHANGED vars
  BY <1>3, <1>8 DEF OnlineStateTimeout, BackoffTimeout, vars, watch
<1>9. CASE TargetAdded
  <2> DEFINE k == Head(toClient).key
             t == Answered(k)
             n == IF t.pending = 0 THEN [t EXCEPT !.change = "None"] ELSE t
  <2>1. k \in Key /\ aggregator' = [aggregator EXCEPT ![k] = n]
    BY <1>9, ReceiveTypes DEF TargetAdded
  <2> HIDE DEF k
  <2>2. t \in Target /\ t.change = aggregator[k].change
    BY <2>1, WatchTyped, PendingMoves DEF Answered, Target
  <2>3. n.change = "Modified" => aggregator[k].change = "Modified"
    <3> HIDE DEF t
    <3> QED
      BY <2>2 DEF Target
  <2> HIDE DEF t, n
  <2> QED
    BY <1>4, <2>1, <2>3
<1>10. CASE TargetRemoved
  <2> DEFINE k == Head(toClient).key
             t == Answered(k)
             n == IF t.pending = 0 THEN NoTarget ELSE t
  <2>1. k \in Key /\ aggregator' = [aggregator EXCEPT ![k] = n]
    BY <1>10, ReceiveTypes DEF TargetRemoved
  <2> HIDE DEF k
  <2>2. t \in Target /\ t.change = aggregator[k].change
    BY <2>1, WatchTyped, PendingMoves DEF Answered, Target
  <2>3. n.change = "Modified" => aggregator[k].change = "Modified"
    <3> HIDE DEF t
    <3> QED
      BY <2>2 DEF NoTarget
  <2> HIDE DEF t, n
  <2> QED
    BY <1>4, <2>1, <2>3
<1>11. CASE TargetCurrent
  <2> DEFINE k == Head(toClient).key
  <2>1. k \in Key
    BY <1>11, ReceiveTypes DEF TargetCurrent
  <2>2. aggregator' = [aggregator EXCEPT ![k].known = TRUE,
                                         ![k].current = @ \/ IsActiveTarget(k)]
    BY <1>11 DEF TargetCurrent
  <2> HIDE DEF k
  <2>3. \A j \in Key : aggregator'[j].change = aggregator[j].change
    BY <2>1, <2>2, WatchTyped DEF Target
  <2> QED
    BY <2>3 DEF ChangesStay
<1>12. CASE DocumentChanged
  <2> DEFINE k == Head(toClient).key
             c == DocumentChange(k, Head(toClient).doc)
  <2>1. k \in Key
    BY <1>12, ReceiveTypes DEF DocumentChanged
  <2>2. \/ /\ IsActiveTarget(k)
           /\ aggregator' = [aggregator EXCEPT ![k].known = TRUE, ![k].change = c]
        \/ aggregator' = aggregator
    BY <1>12 DEF DocumentChanged
  <2>3. c = "Modified" => view[k].synced
    BY DEF DocumentChange
  <2> HIDE DEF k, c
  <2>4. CASE /\ IsActiveTarget(k)
             /\ aggregator' = [aggregator EXCEPT ![k].known = TRUE, ![k].change = c]
    <3>1. \A j \in Key : aggregator'[j].change = IF j = k THEN c ELSE aggregator[j].change
      BY <2>1, <2>4, WatchTyped DEF Target
    <3> QED
      BY <2>3, <2>4, <3>1 DEF ChangesStay, IsActiveTarget
  <2> QED
    BY <1>3, <2>2, <2>4
<1>13. CASE TargetError
  <2> DEFINE k == Head(toClient).key
  <2>1. k \in Key
    BY <1>13, ReceiveTypes DEF TargetError
  <2>2. aggregator' = [aggregator EXCEPT ![k] = NoTarget] \/ aggregator' = aggregator
    BY <1>13 DEF TargetError
  <2>3. NoTarget.change # "Modified"
    BY DEF NoTarget
  <2> HIDE DEF k
  <2> QED
    BY <1>3, <1>4, <2>1, <2>2, <2>3
<1>14. CASE WriteMutations \/ HandleSuccessfulWrite \/ HandleRejectedWrite
  BY <1>3, <1>14 DEF WriteMutations, HandleSuccessfulWrite, HandleRejectedWrite, watch
<1>15. ASSUME NEW u \in User, HandleCredentialChange(u) PROVE ChangesStay
  BY <1>1, <1>15 DEF HandleCredentialChange, RestartNetwork
<1>16. CASE CommitWrite \/ LoseAnswers \/ OtherCommit \/ TakeRequest \/ SendSnapshot
  BY <1>3, <1>16 DEF CommitWrite, LoseAnswers, OtherCommit, TakeRequest, SendSnapshot, client
<1> QED
  BY <1>5, <1>6, <1>7, <1>8, <1>9, <1>10, <1>11, <1>12, <1>13, <1>14, <1>15, <1>16
     DEF Next, OnWatchStreamChange, Timer

\* Emitted documents open and close no view.
LEMMA EmitQuiet ==
    ASSUME Types, NEW keys, NEW c \in [Key -> Known], NEW q \in Seq(Mutation),
           NEW o, NEW calls, NEW heard, Publish(Emit(keys, c, q), o, calls, heard)
    PROVE  \A k \in Key : view'[k].on = view[k].on /\ view'[k].synced = view[k].synced
<1> DEFINE views == Emit(keys, c, q)
<1>1. /\ views \in [Key -> View]
      /\ \A k \in Key : views[k].on = view[k].on /\ views[k].synced = view[k].synced
  BY EmitViews
<1>2. Publish(views, o, calls, heard)
  OBVIOUS
<1> HIDE DEF views
<1>3. \A k \in Key : view'[k].on = views[k].on /\ view'[k].synced = views[k].synced
  BY <1>1, <1>2, PublishViews
<1> QED
  BY <1>1, <1>3

\* A write opens and closes no view, and so do its answers.
LEMMA WritesQuiet ==
    ASSUME Types, WriteMutations \/ HandleSuccessfulWrite \/ HandleRejectedWrite
    PROVE  \A k \in Key : view'[k].on = view[k].on /\ view'[k].synced = view[k].synced
<1>1. CASE WriteMutations
  <2>1. PICK op \in {"set", "update", "delete"}, k \in Key :
           /\ Uses("writes")
           /\ LET m == [no |-> bounds'["writes"], op |-> op, key |-> k]
                  q == Append(queue[currentUser], m)
              IN  /\ queue' = [queue EXCEPT ![currentUser] = q]
                  /\ Publish(Emit({k}, cache, q), online, gets, listeners)
    BY <1>1 DEF WriteMutations
  <2> DEFINE m == [no |-> bounds'["writes"], op |-> op, key |-> k]
             q == Append(queue[currentUser], m)
  <2>2. m \in Mutation
    BY <2>1, UsesCounts DEF Types, Limits, Mutation
  <2> HIDE DEF m
  <2>3. q \in Seq(Mutation)
    BY <2>2 DEF Types, WritesOK
  <2>4. Publish(Emit({k}, cache, q), online, gets, listeners)
    BY <2>1 DEF m
  <2> HIDE DEF q
  <2> QED
    BY <2>3, <2>4, CacheTyped, EmitQuiet
<1>2. CASE HandleSuccessfulWrite
  <2>1. /\ Tail(queue[currentUser]) \in Seq(Mutation)
        /\ Publish(Emit({Head(queue[currentUser]).key}, cache',
                        Tail(queue[currentUser])), online, gets, listeners)
    BY <1>2, AcksAwaited, HeadTypes DEF HandleSuccessfulWrite
  <2>2. cache' \in [Key -> Known]
    <3>1. /\ Head(queue[currentUser]) \in Mutation
          /\ Head(queue[currentUser]).key \in Key /\ Head(acks) \in 1 .. Clock
      BY <1>2, AcksAwaited, HeadTypes DEF HandleSuccessfulWrite
    <3> DEFINE m == Head(queue[currentUser])
    <3>2. cache' = [cache EXCEPT ![m.key] = ApplyBatchResult(@, m, Head(acks))]
      BY <1>2 DEF HandleSuccessfulWrite
    <3> HIDE DEF m
    <3> QED
      BY <3>1, <3>2, CacheTyped, BatchResultType DEF m
  <2> QED
    BY <2>1, <2>2, EmitQuiet
<1>3. CASE HandleRejectedWrite
  <2>1. /\ Tail(queue[currentUser]) \in Seq(Mutation)
        /\ Publish(Emit({Head(queue[currentUser]).key}, cache,
                        Tail(queue[currentUser])), online, gets, listeners)
    BY <1>3, HeadTypes DEF HandleRejectedWrite
  <2> QED
    BY <2>1, CacheTyped, EmitQuiet
<1> QED
  BY <1>1, <1>2, <1>3

LEMMA MatchingStays ==
    ASSUME Types, MatchKnown, [Next]_vars, ~ GlobalSnapshot
    PROVE  MatchKnown'
<1>1. matching' = matching
        /\ \A k \in Key : view'[k].on => \/ view[k].on /\ view'[k].synced = view[k].synced
                                         \/ view'[k].synced <=> k \in matching
  <2>1. CASE Calm
    BY <2>1, CalmSteps DEF QuietViews, Looks
  <2>2. ASSUME NEW g \in Get, AddQueryListener(g)
        PROVE  /\ matching' = matching
               /\ \A k \in Key : view'[k].on =>
                     \/ view[k].on /\ view'[k].synced = view[k].synced
                     \/ view'[k].synced <=> k \in matching
    <3> DEFINE k     == gets[g].key
               views == IF ~ view[k].on THEN [view EXCEPT ![k] = Opens(k)] ELSE view
    <3>1. k \in Key
      BY ReaderTyped DEF Reads
    <3>2. matching' = matching /\ \E o, calls, heard : Publish(views, o, calls, heard)
      BY <2>2 DEF AddQueryListener, Opens, disk
    <3> HIDE DEF k
    <3>3. views \in [Key -> View]
      BY <3>1, OpensType, ReaderTyped
    <3>4. \A j \in Key : view'[j].on = views[j].on /\ view'[j].synced = views[j].synced
      BY <3>2, <3>3, PublishViews
    <3>5. Opens(k).synced <=> k \in matching
      BY DEF Opens
    <3>6. \A j \in Key : views[j] = view[j] \/ (j = k /\ views[j] = Opens(k))
      BY <3>1, ReaderTyped
    <3> HIDE DEF views
    <3> QED
      BY <3>2, <3>4, <3>5, <3>6
  <2>3. CASE WriteMutations \/ HandleSuccessfulWrite \/ HandleRejectedWrite
    BY <2>3, WritesQuiet DEF WriteMutations, HandleSuccessfulWrite, HandleRejectedWrite
  <2>4. ASSUME NEW u \in User, HandleCredentialChange(u)
        PROVE  /\ matching' = matching
               /\ \A k \in Key : view'[k].on = view[k].on /\ view'[k].synced = view[k].synced
    <3>1. matching' = matching
      BY <2>4 DEF HandleCredentialChange, disk
    <3>2. CASE u = currentUser
      <4>1. \E o, calls, heard : Publish(view, o, calls, heard)
        BY <2>4, <3>2 DEF HandleCredentialChange, RestartNetwork
      <4> QED
        BY <3>1, <4>1, PublishViews, ReaderTyped
    <3>3. CASE u # currentUser
      <4>1. \E o, calls, heard :
               Publish(Emit(ChangedByUser(u), cache, queue[u]), o, calls, heard)
        BY <2>4, <3>3 DEF HandleCredentialChange, RestartNetwork
      <4>2. queue[u] \in Seq(Mutation)
        BY DEF Types, WritesOK
      <4> QED
        BY <3>1, <4>1, <4>2, CacheTyped, EmitQuiet
    <3> QED
      BY <3>2, <3>3
  <2> QED
    BY <2>1, <2>2, <2>3, <2>4 DEF Calm
<1>2. ChangesStay
  BY AggregatorStays
<1>3. ASSUME NEW k \in Key, view'[k].on
      PROVE  view'[k].synced <=> k \in matching'
  BY <1>1, <1>3 DEF MatchKnown
<1>4. ASSUME NEW k \in Key, aggregator'[k].change = "Modified"
      PROVE  k \in matching'
  BY <1>1, <1>2, <1>4 DEF MatchKnown, ChangesStay
<1> QED
  BY <1>3, <1>4 DEF MatchKnown

LEMMA GlobalSnapshotMatching ==
    ASSUME Types, MatchKnown, GlobalSnapshot
    PROVE  MatchKnown'
<1> DEFINE v == Head(toClient).version
<1>1. v \in 1 .. Clock
  BY ReceiveTypes DEF GlobalSnapshot
<1>2. \/ \E aged \in BOOLEAN : RaiseWatchSnapshot(v, aged)
      \/ UNCHANGED <<aggregator, matching>> /\ Publish(view, NowOnline, gets, listeners)
  BY DEF GlobalSnapshot
<1> HIDE DEF v
<1>3. CASE UNCHANGED <<aggregator, matching>> /\ Publish(view, NowOnline, gets, listeners)
  BY <1>3, QuietPublish DEF QuietViews, MatchKnown
<1>4. ASSUME NEW aged \in BOOLEAN, RaiseWatchSnapshot(v, aged)
      PROVE  MatchKnown'
  <2>1. /\ matching' = (matching \cup With) \ Without
        /\ aggregator' = [k \in Key |-> IF k \in Changed
                                        THEN [aggregator[k] EXCEPT !.change = "None"]
                                        ELSE aggregator[k]]
        /\ Publish(Views(v), NowOnline, gets, listeners)
    BY <1>4, RaiseParts
  <2>2. /\ Views(v) \in [Key -> View]
        /\ \A k \in Key :
              /\ Views(v)[k].on = view[k].on
              /\ k \in Changed => view[k].on /\ Views(v)[k].synced = SyncedBy(k)
              /\ k \notin Changed => Views(v)[k].synced = view[k].synced
    BY <1>1, ViewsTypes
  <2>3. \A k \in Key : view'[k].on = view[k].on /\ view'[k].synced = Views(v)[k].synced
    BY <2>1, <2>2, PublishViews
  <2>4. With \subseteq Changed /\ Without \subseteq Changed
    BY DEF With, Without
  <2>5. ASSUME NEW k \in Key, view'[k].on
        PROVE  view'[k].synced <=> k \in matching'
    <3>1. view[k].synced <=> k \in matching
      BY <2>3, <2>5 DEF MatchKnown
    <3>2. CASE k \in Changed
      <4>1. view'[k].synced = SyncedBy(k)
        BY <2>2, <2>3, <3>2
      <4>2. SyncedBy(k) <=> k \in matching'
        BY <2>1, <3>1 DEF SyncedBy
      <4> QED
        BY <4>1, <4>2
    <3>3. CASE k \notin Changed
      <4>1. view'[k].synced = view[k].synced
        BY <2>2, <2>3, <3>3
      <4>2. k \in matching' <=> k \in matching
        BY <2>1, <2>4, <3>3
      <4> QED
        BY <3>1, <4>1, <4>2
    <3> QED
      BY <3>2, <3>3
  <2>6. ASSUME NEW k \in Key, aggregator'[k].change = "Modified"
        PROVE  k \in matching'
    <3>1. k \notin Changed
      <4>1. \A t \in Target : [t EXCEPT !.change = "None"].change = "None"
        BY DEF Target
      <4> QED
        BY <2>1, <2>6, <4>1, WatchTyped
    <3>2. k \in matching
      BY <2>1, <2>6, <3>1 DEF MatchKnown
    <3> QED
      BY <2>1, <2>4, <3>1, <3>2
  <2> QED
    BY <2>5, <2>6 DEF MatchKnown
<1> QED
  BY <1>2, <1>3, <1>4

\* The online state that is published is the next one.
LEMMA PublishOnline ==
    ASSUME NEW views, NEW o, NEW calls, NEW heard, Publish(views, o, calls, heard)
    PROVE  online' = o
  BY DEF Publish

\* An online state that fits a stream which is starting or open, and one that fits
\* any stream.
Ticking(o) == (o.timer => o.state = "Unknown") /\ (o.state = "Online" => ~ o.failed)
Still(o)   == ~ o.timer /\ (o.state = "Online" => ~ o.failed)

LEMMA OnlineStates ==
    /\ \A s \in {"Unknown", "Online", "Offline"} : Still(UpdateState(s))
    /\ Still(Unknown)
    /\ \A o \in Online : (o.timer => o.state = "Unknown") =>
           /\ Ticking(HandleWatchStreamStart(HandleWatchStreamFailure(o)))
    /\ \A o \in Online : Still(o) => Ticking(HandleWatchStreamStart(o))
<1>1. \A s \in {"Unknown", "Online", "Offline"} : Still(UpdateState(s))
  BY DEF Still, UpdateState
<1>2. Still(Unknown)
  BY DEF Still, Unknown
<1>3. ASSUME NEW o \in Online, o.timer => o.state = "Unknown"
      PROVE  Ticking(HandleWatchStreamStart(HandleWatchStreamFailure(o)))
  BY <1>3 DEF Online, Ticking, HandleWatchStreamStart, HandleWatchStreamFailure
<1>4. ASSUME NEW o \in Online, Still(o)
      PROVE  Ticking(HandleWatchStreamStart(o))
  BY <1>4 DEF Online, Still, Ticking, HandleWatchStreamStart
<1> QED
  BY <1>1, <1>2, <1>3, <1>4

\* The next state of the timer fits.
LEMMA TimerNext ==
    ASSUME \/ Still(online')
           \/ Ticking(online') /\ stream'.state \in {"Starting", "Backoff", "Open"}
    PROVE  TimerRuns'
  BY DEF Still, Ticking, TimerRuns, IsStarted

LEMMA TimerParts ==
    TimerRuns => Ticking(online) /\ (~ IsStarted => Still(online))
  BY DEF TimerRuns, Ticking, Still

LEMMA TimerStays ==
    ASSUME Types, TimerRuns, [Next]_vars
    PROVE  TimerRuns'
<1>1. online \in Online /\ stream \in Stream
  BY ReaderTyped, WatchTyped
<1>2. CASE online' = online /\ stream'.state = stream.state
  BY <1>2 DEF TimerRuns, IsStarted
<1>3. CASE \E s \in {"Unknown", "Online", "Offline"} : online' = UpdateState(s)
  BY <1>3, OnlineStates, TimerNext
<1>4. ASSUME NEW g \in Get, AddQueryListener(g) PROVE TimerRuns'
  <2>1. \/ /\ ~ IsStarted
           /\ stream' = [stream EXCEPT !.state = IF @ = "Error" THEN "Backoff"
                                                 ELSE "Starting"]
           /\ \E views, calls, heard :
                 Publish(views, HandleWatchStreamStart(online), calls, heard)
        \/ /\ stream' = [stream EXCEPT !.idle = FALSE] \/ stream' = stream
           /\ \E views, calls, heard : Publish(views, online, calls, heard)
    BY <1>4 DEF AddQueryListener, watch
  <2>2. CASE /\ ~ IsStarted
             /\ stream' = [stream EXCEPT !.state = IF @ = "Error" THEN "Backoff"
                                                   ELSE "Starting"]
             /\ \E views, calls, heard :
                   Publish(views, HandleWatchStreamStart(online), calls, heard)
    <3>1. online' = HandleWatchStreamStart(online)
      BY <2>2, PublishOnline
    <3>2. stream'.state \in {"Backoff", "Starting"}
      BY <1>1, <2>2 DEF Stream
    <3> QED
      BY <1>1, <2>2, <3>1, <3>2, TimerParts, OnlineStates, TimerNext
  <2>3. CASE /\ stream' = [stream EXCEPT !.idle = FALSE] \/ stream' = stream
             /\ \E views, calls, heard : Publish(views, online, calls, heard)
    <3>1. online' = online
      BY <2>3, PublishOnline
    <3>2. stream'.state = stream.state
      BY <1>1, <2>3 DEF Stream
    <3> QED
      BY <1>2, <3>1, <3>2
  <2> QED
    BY <2>1, <2>2, <2>3
<1>5. ASSUME NEW g \in Get, RemoveQueryListener(g) PROVE TimerRuns'
  <2>1. /\ \/ \E b \in BOOLEAN : stream' = [stream EXCEPT !.idle = b]
           \/ stream' = stream
        /\ \E views, calls, heard, o : /\ o = online \/ o = UpdateState("Unknown")
                                       /\ Publish(views, o, calls, heard)
    BY <1>5 DEF RemoveQueryListener, watch
  <2>2. online' = online \/ online' = UpdateState("Unknown")
    BY <2>1, PublishOnline
  <2>3. stream'.state = stream.state
    BY <1>1, <2>1 DEF Stream
  <2> QED
    BY <1>2, <1>3, <2>2, <2>3
<1>6. CASE OnWatchStreamOpen \/ BackoffTimeout
  <2>1. /\ stream.state \in {"Starting", "Backoff"} /\ online' = online
        /\ stream' = [stream EXCEPT !.state = "Open"]
           \/ stream' = [stream EXCEPT !.state = "Starting"]
    BY <1>6 DEF OnWatchStreamOpen, BackoffTimeout, reader
  <2>2. stream'.state \in {"Starting", "Open"}
    BY <1>1, <2>1 DEF Stream
  <2>3. Ticking(online')
    BY <2>1, TimerParts
  <2> QED
    BY <2>2, <2>3, TimerNext
<1>7. CASE OnWatchStreamClose
  <2>1. \/ /\ stream' = [state |-> "Backoff", idle |-> FALSE]
           /\ Publish(view, HandleWatchStreamStart(HandleWatchStreamFailure(online)),
                      gets, listeners)
        \/ Publish(view, UpdateState("Unknown"), gets, listeners)
    BY <1>7 DEF OnWatchStreamClose
  <2>2. CASE /\ stream' = [state |-> "Backoff", idle |-> FALSE]
             /\ Publish(view, HandleWatchStreamStart(HandleWatchStreamFailure(online)),
                        gets, listeners)
    <3>1. online' = HandleWatchStreamStart(HandleWatchStreamFailure(online))
      BY <2>2, PublishOnline
    <3>2. online.timer => online.state = "Unknown"
      BY DEF TimerRuns
    <3>3. stream'.state = "Backoff"
      BY <2>2
    <3>4. Ticking(online')
      BY <1>1, <3>1, <3>2, OnlineStates
    <3> QED
      BY <3>3, <3>4, TimerNext
  <2>3. CASE Publish(view, UpdateState("Unknown"), gets, listeners)
    BY <1>3, <2>3, PublishOnline
  <2> QED
    BY <2>1, <2>2, <2>3
<1>8. ASSUME NEW views, RestartNetwork(views) PROVE TimerRuns'
  <2>1. \/ /\ stream' = [state |-> "Starting", idle |-> FALSE]
           /\ Publish(views, HandleWatchStreamStart(UpdateState("Unknown")), gets, listeners)
        \/ Publish(views, UpdateState("Unknown"), gets, listeners)
    BY <1>8 DEF RestartNetwork
  <2>2. CASE /\ stream' = [state |-> "Starting", idle |-> FALSE]
             /\ Publish(views, HandleWatchStreamStart(UpdateState("Unknown")), gets, listeners)
    <3>1. online' = HandleWatchStreamStart(UpdateState("Unknown"))
      BY <2>2, PublishOnline
    <3>2. Still(UpdateState("Unknown")) /\ UpdateState("Unknown") \in Online
      BY <1>1, OnlineStates, OnlineTypes
    <3>3. stream'.state = "Starting"
      BY <2>2
    <3>4. Ticking(online')
      BY <3>1, <3>2, OnlineStates
    <3> QED
      BY <3>3, <3>4, TimerNext
  <2>3. CASE Publish(views, UpdateState("Unknown"), gets, listeners)
    BY <1>3, <2>3, PublishOnline
  <2> QED
    BY <2>1, <2>2, <2>3
<1>9. CASE OnWatchStreamChange
  <2>1. \E views, calls, heard : Publish(views, NowOnline, calls, heard)
    <3>1. CASE TargetAdded \/ TargetRemoved \/ TargetCurrent \/ DocumentChanged
      BY <3>1 DEF TargetAdded, TargetRemoved, TargetCurrent, DocumentChanged
    <3>2. CASE TargetError
      BY <3>2 DEF TargetError
    <3>3. CASE GlobalSnapshot
      <4>1. \/ \E aged \in BOOLEAN : RaiseWatchSnapshot(Head(toClient).version, aged)
            \/ Publish(view, NowOnline, gets, listeners)
        BY <3>3 DEF GlobalSnapshot
      <4> QED
        BY <4>1, RaiseParts
    <3> QED
      BY <1>9, <3>1, <3>2, <3>3 DEF OnWatchStreamChange
  <2>2. online' = UpdateState("Online")
    BY <2>1, PublishOnline DEF NowOnline
  <2> QED
    BY <1>3, <2>2
<1>10. CASE OnlineStateTimeout
  <2>1. online' = [online EXCEPT !.state = "Offline", !.timer = FALSE]
    BY <1>10, PublishOnline DEF OnlineStateTimeout
  <2>2. Still(online')
    BY <1>1, <2>1 DEF Online, Still
  <2> QED
    BY <2>2, TimerNext
<1>11. CASE IdleTimeout
  BY <1>3, <1>11, PublishOnline DEF IdleTimeout
<1>12. CASE WriteMutations \/ HandleSuccessfulWrite \/ HandleRejectedWrite
  BY <1>2, <1>12, PublishOnline DEF WriteMutations, HandleSuccessfulWrite,
                                    HandleRejectedWrite, watch
<1>13. CASE Restart
  BY <1>13, OnlineStates, TimerNext DEF Restart
<1>14. CASE CommitWrite \/ LoseAnswers \/ OtherCommit \/ TakeRequest \/ SendSnapshot
            \/ UNCHANGED vars
  BY <1>2, <1>14 DEF CommitWrite, LoseAnswers, OtherCommit, TakeRequest, SendSnapshot, client,
                     reader, watch, vars
<1>15. CASE OnConnectivityChange \/ \E u \in User : HandleCredentialChange(u)
  BY <1>8, <1>15 DEF OnConnectivityChange, HandleCredentialChange
<1> QED
  BY <1>4, <1>5, <1>6, <1>7, <1>9, <1>10, <1>11, <1>12, <1>13, <1>14, <1>15 DEF Next, Timer

-----------------------------------------------------------------------------
LEMMA IdleFrame ==
    ASSUME IdleIsOpen, stream' = stream,
           \A k \in Key : view'[k].on => view[k].on
    PROVE  IdleIsOpen'
  BY DEF IdleIsOpen, Listening

LEMMA NotIdle == ~ stream'.idle => IdleIsOpen'
  BY DEF IdleIsOpen

LEMMA IdleStays ==
    ASSUME Types, IdleIsOpen, [Next]_vars
    PROVE  IdleIsOpen'
<1>1. stream \in Stream
  BY WatchTyped
<1>2. ASSUME NEW g \in Get, AddQueryListener(g) PROVE IdleIsOpen'
  <2> DEFINE k     == gets[g].key
             views == IF ~ view[k].on THEN [view EXCEPT ![k] = Opens(k)] ELSE view
  <2>1. k \in Key
    BY ReaderTyped DEF Reads
  <2>2. \/ /\ ~ IsStarted
           /\ stream' = [stream EXCEPT !.state = IF @ = "Error" THEN "Backoff"
                                                 ELSE "Starting"]
        \/ stream' = [stream EXCEPT !.idle = FALSE]
        \/ /\ view[k].on \/ stream.state \in {"Starting", "Backoff"}
           /\ stream' = stream
    BY <1>2 DEF AddQueryListener, watch
  <2> HIDE DEF k
  <2>3. ~ stream.idle
        \/ stream' = [stream EXCEPT !.idle = FALSE]
    <3>1. view[k].on => Listening(view) # {}
      BY <2>1 DEF Listening
    <3> QED
      BY <2>2, <3>1 DEF IdleIsOpen, IsStarted
  <2>4. ~ stream'.idle
    BY <1>1, <2>2, <2>3 DEF Stream
  <2> QED
    BY <2>4, NotIdle
<1>3. ASSUME NEW g \in Get, RemoveQueryListener(g) PROVE IdleIsOpen'
  <2> DEFINE k     == gets[g].key
             last  == listeners[k] = {g}
             views == IF last THEN [view EXCEPT ![k] = NoView] ELSE view
             none  == Listening(views) = {}
  <2>1. k \in Key
    BY ReaderTyped DEF Reads
  <2>2. /\ \E o, calls, heard : Publish(views, o, calls, heard)
        /\ \/ stream.state = "Open" /\ stream' = [stream EXCEPT !.idle = none]
           \/ stream' = stream
    BY <1>3 DEF RemoveQueryListener, watch
  <2>3. views \in [Key -> View] /\ \A j \in Key : views[j].on => view[j].on
    <3>1. \A j \in Key : views[j] = view[j] \/ views[j] = NoView
      BY <2>1, ReaderTyped
    <3>2. NoView.on = FALSE
      BY DEF NoView
    <3>3. views \in [Key -> View]
      <4> HIDE DEF k, last
      <4> QED
        BY <2>1, NoViewType, ReaderTyped
    <3> QED
      BY <3>1, <3>2, <3>3
  <2> HIDE DEF k, views
  <2>4. \A j \in Key : view'[j].on = views[j].on
    BY <2>2, <2>3, PublishViews
  <2>5. CASE stream.state = "Open" /\ stream' = [stream EXCEPT !.idle = none]
    <3>1. stream'.state = "Open" /\ (stream'.idle => none)
      BY <1>1, <2>5 DEF Stream
    <3>2. Listening(views) = {} => Listening(view') = {}
      BY <2>4 DEF Listening
    <3>3. Listening(view)' = Listening(view')
      BY DEF Listening
    <3> QED
      BY <3>1, <3>2, <3>3 DEF IdleIsOpen
  <2>6. CASE stream' = stream
    BY <2>3, <2>4, <2>6, IdleFrame
  <2> QED
    BY <2>2, <2>5, <2>6
<1>4. CASE OnWatchStreamOpen \/ BackoffTimeout
  <2>1. /\ stream.state \in {"Starting", "Backoff"}
        /\ stream' = [stream EXCEPT !.state = "Open"]
           \/ stream' = [stream EXCEPT !.state = "Starting"]
    BY <1>4 DEF OnWatchStreamOpen, BackoffTimeout
  <2>2. ~ stream.idle
    BY <2>1 DEF IdleIsOpen
  <2>3. ~ stream'.idle
    BY <1>1, <2>1, <2>2 DEF Stream
  <2> QED
    BY <2>3, NotIdle
<1>5. CASE \/ OnWatchStreamClose \/ IdleTimeout \/ Restart \/ OnConnectivityChange
           \/ \E u \in User : HandleCredentialChange(u)
  <2>1. \E s : stream' = [state |-> s, idle |-> FALSE]
    BY <1>5 DEF OnWatchStreamClose, IdleTimeout, Restart, OnConnectivityChange,
                HandleCredentialChange, RestartNetwork
  <2> QED
    BY <2>1, NotIdle
<1>6. CASE OnWatchStreamChange
  <2>1. stream' = stream
    BY <1>6 DEF OnWatchStreamChange, TargetAdded, TargetRemoved, TargetCurrent, TargetError,
                DocumentChanged, GlobalSnapshot
  <2>2. \A k \in Key : view'[k].on => view[k].on
    <3>1. CASE ~ GlobalSnapshot
      <4>1. \E kind : Receive(kind)
        BY <1>6 DEF OnWatchStreamChange, TargetAdded, TargetRemoved, TargetCurrent,
                    TargetError, DocumentChanged, GlobalSnapshot
      <4>2. CASE TargetAdded \/ TargetRemoved \/ TargetCurrent \/ DocumentChanged
        <5>1. Publish(view, NowOnline, gets, listeners)
          BY <4>2 DEF TargetAdded, TargetRemoved, TargetCurrent, DocumentChanged
        <5> QED
          BY <5>1, QuietPublish
      <4>3. CASE TargetError
        <5> DEFINE k == Head(toClient).key
        <5>1. k \in Key
          BY <4>3, ReceiveTypes DEF TargetError
        <5>2. \E o, calls, heard : \/ Publish([view EXCEPT ![k] = NoView], o, calls, heard)
                                   \/ Publish(view, o, calls, heard)
          BY <4>3 DEF TargetError
        <5> HIDE DEF k
        <5> QED
          BY <5>1, <5>2, ClosedViews, QuietPublish DEF QuietViews
      <4> QED
        BY <1>6, <3>1, <4>2, <4>3 DEF OnWatchStreamChange
    <3>2. CASE GlobalSnapshot
      <4> DEFINE v == Head(toClient).version
      <4>1. v \in 1 .. Clock
        BY <3>2, ReceiveTypes DEF GlobalSnapshot
      <4>2. \/ \E aged \in BOOLEAN : RaiseWatchSnapshot(v, aged)
            \/ Publish(view, NowOnline, gets, listeners)
        BY <3>2 DEF GlobalSnapshot
      <4> HIDE DEF v
      <4>3. CASE Publish(view, NowOnline, gets, listeners)
        BY <4>3, QuietPublish
      <4>4. CASE Publish(Views(v), NowOnline, gets, listeners)
        <5>1. Views(v) \in [Key -> View] /\ \A k \in Key : Views(v)[k].on = view[k].on
          BY <4>1, ViewsTypes
        <5> QED
          BY <4>4, <5>1, PublishViews
      <4> QED
        BY <4>2, <4>3, <4>4, RaiseParts
    <3> QED
      BY <3>1, <3>2
  <2> QED
    BY <2>1, <2>2, IdleFrame
<1>7. CASE OnlineStateTimeout
  <2>1. stream' = stream /\ \E o : Publish(view, o, gets, listeners)
    BY <1>7 DEF OnlineStateTimeout, watch
  <2> QED
    BY <2>1, QuietPublish, IdleFrame
<1>8. CASE WriteMutations \/ HandleSuccessfulWrite \/ HandleRejectedWrite
  <2>1. stream' = stream
    BY <1>8 DEF WriteMutations, HandleSuccessfulWrite, HandleRejectedWrite, watch
  <2>2. \A k \in Key : view'[k].on => view[k].on
    BY <1>8, WritesQuiet
  <2> QED
    BY <2>1, <2>2, IdleFrame
<1>9. CASE CommitWrite \/ LoseAnswers \/ OtherCommit \/ TakeRequest \/ SendSnapshot
           \/ UNCHANGED vars
  <2>1. stream' = stream /\ view' = view
    BY <1>9 DEF CommitWrite, LoseAnswers, OtherCommit, TakeRequest, SendSnapshot, client,
                reader, watch, vars
  <2> QED
    BY <2>1, IdleFrame
<1> QED
  BY <1>2, <1>3, <1>4, <1>5, <1>6, <1>7, <1>8, <1>9 DEF Next, Timer

\* No assertion of the client fails: the timer never fires without a stream, a
\* stream that is idle serves no target, and a modification is only reported of a
\* document that the view has.
THEOREM NoAssertionFails == Spec => []AssertionsHold
<1>1. Init => Assertions
  BY DEF Init, Assertions, TimerRuns, IdleIsOpen, MatchKnown, Unknown, NoView, NoTarget
<1>2. Types /\ Assertions /\ [Next]_vars => Assertions'
  BY TimerStays, IdleStays, MatchingStays, GlobalSnapshotMatching DEF Assertions
<1>3. Spec => []Types
  BY InitTypes, NextTypes, PTL DEF Spec
<1>4. Spec => []Assertions
  BY <1>1, <1>2, <1>3, PTL DEF Spec
<1> QED
  BY <1>4, AssertionsSuffice, PTL
=============================================================================
