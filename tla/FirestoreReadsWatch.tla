-------------------------- MODULE FirestoreReadsWatch --------------------------
(***************************************************************************)
(* What the watch stream of FirestoreReads guarantees when the server      *)
(* denies no listen, for any users, documents and bounds: the cache holds  *)
(* what the server held, and a view in sync is current and fresh.          *)
(***************************************************************************)
EXTENDS FirestoreReadsProofs

-----------------------------------------------------------------------------
(* The server's log.                                                       *)

\* The log grows, and what is in it stays.
LogKept == Len(log) <= Len(log') /\ \A j \in 1 .. Len(log) : log'[j] = log[j]

LEMMA LogTyped ==
    WritesOK => /\ DOMAIN log = 1 .. Len(log) /\ Len(log) \in Nat
                /\ Clock = Len(log) + 1 /\ Clock \in Nat \ {0}
  BY DEF WritesOK, Clock

\* What was written up to a version of the past is known for good.
LEMMA WrittenStays ==
    ASSUME WritesOK, WritesOK', LogKept, NEW k, NEW v \in 0 .. Clock
    PROVE  /\ WrittenAt(k, v)' = WrittenAt(k, v)
           /\ ContentAt(k, v)' = ContentAt(k, v)
<1>1. WritesTo(k, v)' = WritesTo(k, v)
  <2>1. DOMAIN log = 1 .. Len(log) /\ Len(log) \in Nat /\ Clock = Len(log) + 1
        /\ DOMAIN log' = 1 .. Len(log') /\ Len(log') \in Nat
    BY DEF WritesOK, Clock
  <2>2. \A j : j \in DOMAIN log' /\ j + 1 <= v => j \in DOMAIN log
    BY <2>1
  <2>3. \A j : j \in DOMAIN log => j \in DOMAIN log' /\ log'[j] = log[j]
    BY <2>1 DEF LogKept
  <2> QED
    BY <2>2, <2>3 DEF WritesTo
<1>2. WrittenAt(k, v)' = WrittenAt(k, v)
  BY <1>1 DEF WrittenAt, WritesTo
<1>3. WrittenAt(k, v) # 0 => /\ WrittenAt(k, v) - 1 \in 1 .. Len(log)
                             /\ log'[WrittenAt(k, v) - 1] = log[WrittenAt(k, v) - 1]
  BY WrittenAtIs, LogTyped DEF WritesTo, LogKept
<1> QED
  BY <1>2, <1>3 DEF ContentAt

\* The last write up to version v is the last one up to any version in between.
LEMMA WrittenBetween ==
    ASSUME WritesOK, NEW k, NEW u \in Nat, NEW v \in Nat, u <= v
    PROVE  /\ WrittenAt(k, v) <= v
           /\ WrittenAt(k, u) <= WrittenAt(k, v)
           /\ WrittenAt(k, v) <= u => /\ WrittenAt(k, u) = WrittenAt(k, v)
                                      /\ ContentAt(k, u) = ContentAt(k, v)
<1>1. /\ WrittenAt(k, u) \in Nat /\ WrittenAt(k, v) \in Nat
      /\ WrittenAt(k, u) # 0 => WrittenAt(k, u) - 1 \in WritesTo(k, u)
      /\ WrittenAt(k, v) # 0 => WrittenAt(k, v) - 1 \in WritesTo(k, v)
  BY WrittenAtIs, LogTyped
<1>2. \A w \in Nat : \A j \in WritesTo(k, w) : j \in Nat /\ j + 1 <= w
  BY LogTyped DEF WritesTo
<1>3. WritesTo(k, u) \subseteq WritesTo(k, v)
  BY LogTyped DEF WritesTo
<1>4. WrittenAt(k, v) <= v /\ WrittenAt(k, u) <= WrittenAt(k, v)
  BY <1>1, <1>2, <1>3, WrittenAtIs
<1>5. ASSUME WrittenAt(k, v) <= u, WrittenAt(k, v) # 0
      PROVE  WrittenAt(k, v) - 1 \in WritesTo(k, u)
  BY <1>1, <1>5 DEF WritesTo
<1>6. WrittenAt(k, v) <= u => WrittenAt(k, v) <= WrittenAt(k, u)
  BY <1>1, <1>5, WrittenAtIs
<1>7. WrittenAt(k, v) <= u => WrittenAt(k, u) = WrittenAt(k, v)
  BY <1>1, <1>4, <1>6
<1> QED
  BY <1>4, <1>7 DEF ContentAt

\* Nothing has been written at version 0.
LEMMA WrittenNever ==
    ASSUME WritesOK, NEW k
    PROVE  WrittenAt(k, 0) = 0 /\ ContentAt(k, 0) = 0
<1>1. WrittenAt(k, 0) = 0
  BY WrittenBetween, WrittenAtIs, LogTyped
<1> QED
  BY <1>1 DEF ContentAt

\* A commit is what was written at its version.
LEMMA WrittenThere ==
    ASSUME WritesOK, NEW j \in DOMAIN log, NEW k \in log[j].keys
    PROVE  WrittenAt(k, j + 1) = j + 1 /\ ContentAt(k, j + 1) = log[j].content
<1>1. j \in Nat /\ j \in WritesTo(k, j + 1)
  BY LogTyped DEF WritesTo
<1>2. j + 1 <= WrittenAt(k, j + 1) /\ WrittenAt(k, j + 1) <= j + 1
      /\ WrittenAt(k, j + 1) \in Nat
  BY <1>1, WrittenAtIs, WrittenBetween, LogTyped
<1>3. WrittenAt(k, j + 1) = j + 1
  BY <1>1, <1>2
<1> QED
  BY <1>1, <1>3 DEF ContentAt
-----------------------------------------------------------------------------
(* What is on the stream.                                                  *)

IsAnswer(m)   == m.kind \in {"added", "removed"}
IsSnapshot(m) == m.kind = "snapshot"

\* The client's requests for document k that the server has not taken, and the
\* answers that the client has not had.
Asked(k)   == { i \in DOMAIN toServer : toServer[i].key = k }
Answers(k) == { i \in DOMAIN toClient : IsAnswer(toClient[i]) /\ toClient[i].key = k }
Snapshots  == { i \in DOMAIN toClient : IsSnapshot(toClient[i]) }

\* When the client has had the first i messages, all its requests for k are
\* answered: the messages from there on are about the listen that is open.
Live(k, i) == Asked(k) = {} /\ \A j \in Answers(k) : j <= i

\* No listen is denied.
NoErrors == \A i \in DOMAIN toClient : toClient[i].kind # "error"

\* Without a stream there is nothing on it.
NothingHeard ==
    /\ toServer = << >> /\ toClient = << >>
    /\ \A k \in Key : aggregator[k] = NoTarget /\ updates[k] = Invalid /\ sub[k] = NoSub
StreamClosed == stream.state # "Open" => NothingHeard

\* The aggregator counts the answers that are to come.
Counts == \A k \in Key : aggregator[k].pending = Cardinality(Asked(k)) + Cardinality(Answers(k))

\* The last request for a document that is listened to is a watch from the view's
\* token on, and when the server has taken it, it serves the document.
Requests(k) ==
    /\ \A i \in Asked(k) : (\A j \in Asked(k) : j <= i) => toServer[i] = WatchRequest(k, view[k].token)
    /\ Asked(k) = {} => sub[k].on
    /\ \A i \in Answers(k) : Live(k, i) => toClient[i].kind = "added"
    /\ aggregator[k].known

\* Snapshots come in order.
Ordered ==
    /\ \A i \in Snapshots : lastRemote <= toClient[i].version
    /\ \A i, j \in Snapshots : i < j => toClient[i].version <= toClient[j].version

\* The first messages from p on are those of a snapshot: no answer is among them.
InBlock(p) == \E s \in Snapshots : p < s /\ \A i \in p + 1 .. s : ~ IsAnswer(toClient[i])

\* A document comes together with its snapshot.
Blocks ==
    /\ \A p \in DOMAIN toClient : toClient[p].kind = "doc" => InBlock(p)
    /\ (\E k \in Key : updates[k] # Invalid) => InBlock(0)

\* The change of an active target is that of its document.
ChangeFits(k) ==
    aggregator[k].change = IF updates[k] = Invalid THEN "None" ELSE DocumentChange(k, updates[k])

\* The messages after which the client knows anew how far it has heard of k, and
\* the version up to which it has then: that of a document, of a snapshot, or the
\* one that its listen started from.
Tells(m, k) == IsSnapshot(m) \/ (m.kind = "doc" /\ m.key = k) \/ (IsAnswer(m) /\ m.key = k)

Told(k, p) ==
    IF p = 0 THEN IF updates[k] = Invalid THEN view[k].token ELSE updates[k].version
    ELSE IF IsSnapshot(toClient[p]) THEN toClient[p].version
    ELSE IF IsAnswer(toClient[p]) THEN view[k].token
    ELSE toClient[p].doc.version

Teller(k, p) == p = 0 \/ (p \in DOMAIN toClient /\ Tells(toClient[p], k))

\* Nothing on k comes after message p, up to message q.
Quiet(k, p, q) == \A i \in p + 1 .. q : ~ Tells(toClient[i], k)

\* Who has heard of k up to version h and hears no more knows k at version v.
Covered(k, h, v) == h <= v /\ (WrittenAt(k, v) <= h \/ (h = 0 /\ ContentAt(k, v) = 0))

\* No snapshot leaves out a document that has changed, and the server knows how far
\* the client will have heard.
Hears(k) ==
    \A p \in 0 .. Len(toClient) : Live(k, p) /\ Teller(k, p) =>
        /\ \A s \in Snapshots : p < s /\ Quiet(k, p, s - 1) => Covered(k, Told(k, p), toClient[s].version)
        /\ Quiet(k, p, Len(toClient)) => sub[k].at = Told(k, p)

\* By message q the client has heard that k's listen is current.
HeardCurrent(k, q) ==
    \/ Live(k, 0) /\ aggregator[k].current
    \/ \E p \in 1 .. q : Live(k, p) /\ toClient[p].kind = "current" /\ toClient[p].key = k

\* A listen is current by its first snapshot.
Currents(k) ==
    /\ \A s \in Snapshots : Live(k, s) => HeardCurrent(k, s)
    /\ Asked(k) = {} /\ sub[k].current => HeardCurrent(k, Len(toClient))

\* Its snapshots are from after the get that opened the view.
FreshSnapshots(k) == \A s \in Snapshots : Live(k, s) => view[k].since <= toClient[s].version

\* What is true of every listen on an open stream.
Listens(k) ==
    /\ Requests(k) /\ Hears(k) /\ Currents(k) /\ FreshSnapshots(k)
    /\ Live(k, 0) => ChangeFits(k)

-----------------------------------------------------------------------------
(* Counting.                                                               *)

\* Taking the first of n places away moves a set of places down by one.
LEMMA Shifted ==
    ASSUME NEW n \in Nat, NEW A \in SUBSET (1 .. n), NEW B,
           \A i : i \in B <=> i \in Nat \ {0} /\ i + 1 \in A
    PROVE  /\ IsFiniteSet(A) /\ IsFiniteSet(B)
           /\ Cardinality(A) \in Nat
           /\ Cardinality(B) = IF 1 \in A THEN Cardinality(A) - 1 ELSE Cardinality(A)
<1>1. IsFiniteSet(A) /\ Cardinality(A) \in Nat
  <2>1. IsFiniteSet(1 .. n)
    BY FS_Interval
  <2> QED
    BY <2>1, FS_Subset, FS_CardinalityType
<1> DEFINE C == A \ {1}
<1>2. /\ IsFiniteSet(C)
      /\ Cardinality(C) = IF 1 \in A THEN Cardinality(A) - 1 ELSE Cardinality(A)
  BY <1>1, FS_RemoveElement
<1> DEFINE f == [c \in C |-> c - 1]
<1>3. f \in Bijection(C, B)
  <2>1. f \in [C -> B]
    OBVIOUS
  <2>2. \A c, d \in C : f[c] = f[d] => c = d
    OBVIOUS
  <2>3. \A b \in B : \E c \in C : f[c] = b
    <3>1. \A b \in B : b + 1 \in C /\ f[b + 1] = b
      OBVIOUS
    <3> QED
      BY <3>1
  <2> HIDE DEF f, C
  <2> QED
    BY <2>1, <2>2, <2>3, Zenon DEF Bijection, Injection, Surjection, IsInjective
<1>4. IsFiniteSet(B) /\ Cardinality(B) = Cardinality(C)
  <2> HIDE DEF f, C
  <2> QED
    BY <1>2, <1>3, FS_Bijection, Zenon DEF ExistsBijection
<1> QED
  BY <1>1, <1>2, <1>4

\* The places of a sequence that are about k.
LEMMA Places ==
    ASSUME Types, NEW k
    PROVE  /\ Len(toServer) \in Nat /\ DOMAIN toServer = 1 .. Len(toServer)
           /\ Len(toClient) \in Nat /\ DOMAIN toClient = 1 .. Len(toClient)
           /\ Asked(k) \in SUBSET (1 .. Len(toServer))
           /\ Answers(k) \in SUBSET (1 .. Len(toClient))
           /\ IsFiniteSet(Asked(k)) /\ IsFiniteSet(Answers(k))
           /\ Cardinality(Asked(k)) \in Nat /\ Cardinality(Answers(k)) \in Nat
<1>1. /\ Len(toServer) \in Nat /\ DOMAIN toServer = 1 .. Len(toServer)
      /\ Len(toClient) \in Nat /\ DOMAIN toClient = 1 .. Len(toClient)
  BY WatchTyped
<1>2. /\ Asked(k) \in SUBSET (1 .. Len(toServer))
      /\ Answers(k) \in SUBSET (1 .. Len(toClient))
  BY <1>1 DEF Asked, Answers
<1>3. IsFiniteSet(1 .. Len(toServer)) /\ IsFiniteSet(1 .. Len(toClient))
  BY <1>1, FS_Interval
<1> QED
  BY <1>1, <1>2, <1>3, FS_Subset, FS_CardinalityType

\* No answer is awaited when the client has had them all.
LEMMA PendingIsLive ==
    ASSUME Types, Counts, NEW k \in Key
    PROVE  aggregator[k].pending = 0 <=> Live(k, 0)
<1>1. aggregator[k].pending = Cardinality(Asked(k)) + Cardinality(Answers(k))
  BY DEF Counts
<1>2. aggregator[k].pending = 0 <=> Asked(k) = {} /\ Answers(k) = {}
  <2>1. /\ Cardinality(Asked(k)) = 0 <=> Asked(k) = {}
        /\ Cardinality(Answers(k)) = 0 <=> Answers(k) = {}
    BY Places, FS_EmptySet
  <2> QED
    BY <1>1, <2>1, Places
<1>3. Live(k, 0) <=> Asked(k) = {} /\ Answers(k) = {}
  BY Places DEF Live
<1> QED
  BY <1>2, <1>3

-----------------------------------------------------------------------------
(* What becomes of a view's age and of its limbo.                          *)

\* The view's document is not explained.
InLimbo(w) == Found(w.doc) /\ ~ w.synced /\ w.doc.state # "local"

LEMMA ApplyChangesLimbo ==
    ASSUME NEW v \in View, NEW d \in Doc, NEW current \in BOOLEAN, NEW synced \in BOOLEAN
    PROVE  /\ ApplyChanges(v, d, current, synced).since = v.since
           /\ ~ current => ApplyChanges(v, d, current, synced).limbo = v.limbo
           /\ current /\ ApplyChanges(v, d, current, synced).limbo
                 => InLimbo(ApplyChanges(v, d, current, synced))
<1> DEFINE b == IF current THEN Found(d) /\ ~ synced /\ d.state # "local" ELSE v.limbo
           w == ApplyChanges(v, d, current, synced)
<1>1. w = [v EXCEPT !.doc = d, !.current = current, !.synced = synced, !.limbo = b]
  BY DEF ApplyChanges, View
<1>2. w.doc = d /\ w.synced = synced
  BY ApplyChangesType
<1>3. \A c : [v EXCEPT !.doc = d, !.current = current, !.synced = synced, !.limbo = c].since = v.since
  BY DEF View
<1>4. \A c : [v EXCEPT !.doc = d, !.current = current, !.synced = synced, !.limbo = c].limbo = c
  BY DEF View
<1> HIDE DEF w
<1>5. w.limbo = b /\ w.since = v.since
  <2> HIDE DEF b
  <2> QED
    BY <1>1, <1>3, <1>4
<1>6. current /\ w.limbo => InLimbo(w)
  <2>1. ASSUME current, w.limbo PROVE Found(d) /\ ~ synced /\ d.state # "local"
    BY <1>5, <2>1
  <2> QED
    BY <1>2, <2>1 DEF InLimbo
<1>7. ~ current => w.limbo = v.limbo
  BY <1>5
<1> QED
  BY <1>5, <1>6, <1>7 DEF w

LEMMA PublishLimbo ==
    ASSUME NEW views \in [Key -> View], NEW o, NEW calls, NEW heard,
           Publish(views, o, calls, heard), NEW k \in Key
    PROVE  /\ view'[k].since = views[k].since
           /\ view'[k].limbo = views[k].limbo
           /\ view'[k].current => views[k].current
<1> DEFINE off == FALSE
           w   == ApplyChanges(views[k], views[k].doc, off, views[k].synced)
<1>1. view'[k] = IF o.state = "Offline" /\ views[k].current THEN w ELSE views[k]
  BY DEF Publish, ApplyOnlineStateChange
<1>2. /\ w.since = views[k].since /\ w.limbo = views[k].limbo
      /\ ~ w.current
  <2>1. views[k] \in View /\ views[k].doc \in Doc /\ views[k].synced \in BOOLEAN /\ off \in BOOLEAN
        /\ ~ off
    BY DEF View
  <2> HIDE DEF off
  <2>2. w.since = views[k].since /\ w.limbo = views[k].limbo /\ w.current = off
    BY <2>1, ApplyChangesLimbo, ApplyChangesType
  <2> QED
    BY <2>1, <2>2
<1> HIDE DEF w
<1> QED
  BY <1>1, <1>2

LEMMA EmitLimbo ==
    ASSUME Types, NEW keys, NEW c \in [Key -> Known], NEW q \in Seq(Mutation), NEW k \in Key
    PROVE  /\ Emit(keys, c, q)[k].since = view[k].since
           /\ Emit(keys, c, q)[k].limbo =>
                 view[k].limbo \/ (view[k].on /\ InLimbo(Emit(keys, c, q)[k]))
<1> DEFINE doc == Shown(view[k].doc, GetDocument(c[k], q, k))
           w   == ApplyChanges(view[k], doc, view[k].current, view[k].synced)
<1>1. view[k] \in View /\ view[k].doc \in Doc
      /\ view[k].current \in BOOLEAN /\ view[k].synced \in BOOLEAN
  BY ReaderTyped DEF View
<1>2. doc \in Doc
  <2>1. GetDocument(c[k], q, k) \in Doc
    BY LocalType DEF Known
  <2> QED
    BY <1>1, <2>1, ShownType
<1>3. Emit(keys, c, q)[k] = IF view[k].on /\ k \in keys THEN w ELSE view[k]
  BY DEF Emit
<1> HIDE DEF doc
<1>4. /\ w.since = view[k].since
      /\ w.limbo => view[k].limbo \/ InLimbo(w)
  BY <1>1, <1>2, ApplyChangesLimbo
<1> HIDE DEF w
<1> QED
  BY <1>3, <1>4

\* A snapshot finds the limbo of a view that is current anew.
LEMMA ViewsLimbo ==
    ASSUME Types, NEW v \in 1 .. Clock, NEW k \in Key
    PROVE  /\ Views(v)[k].since = view[k].since
           /\ Views(v)[k].limbo =>
                 \/ view[k].limbo /\ (k \in Changed => ~ aggregator[k].current)
                 \/ view[k].on /\ InLimbo(Views(v)[k])
<1>1. DocOf(v, k) \in Doc
  <2>1. Docs(v)[k] \in Doc
    BY DocsType DEF Known
  <2>2. GetDocument(Docs(v)[k], queue[currentUser], k) \in Doc
    BY <2>1, LocalType DEF Types, WritesOK
  <2>3. view[k].doc \in Doc
    BY ReaderTyped DEF View
  <2> QED
    BY <2>2, <2>3, ShownType DEF DocOf
<1>2. view[k] \in View /\ view[k].current \in BOOLEAN /\ view[k].synced \in BOOLEAN
      /\ aggregator[k].current \in BOOLEAN /\ SyncedBy(k) \in BOOLEAN
  BY ReaderTyped, WatchTyped DEF View, Target, SyncedBy
<1> DEFINE w == ApplyChanges(view[k], DocOf(v, k), aggregator[k].current, SyncedBy(k))
<1>3. /\ w \in View /\ w.since = view[k].since
      /\ w.limbo => (view[k].limbo /\ ~ aggregator[k].current) \/ InLimbo(w)
  BY <1>1, <1>2, ApplyChangesType, ApplyChangesLimbo
<1>4. /\ OtherView(v, k).since = view[k].since
      /\ OtherView(v, k).limbo => view[k].limbo \/ InLimbo(OtherView(v, k))
  BY <1>1, <1>2, ApplyChangesLimbo DEF OtherView
<1>5. ChangedView(v, k) = [w EXCEPT !.token = v]
  BY DEF ChangedView
<1> HIDE DEF w
<1>6. /\ ChangedView(v, k).since = w.since /\ ChangedView(v, k).limbo = w.limbo
      /\ ChangedView(v, k).doc = w.doc /\ ChangedView(v, k).synced = w.synced
  BY <1>3, <1>5 DEF View
<1>7. InLimbo(w) => InLimbo(ChangedView(v, k))
  BY <1>6 DEF InLimbo
<1>8. k \in Changed => view[k].on
  BY DEF Changed, IsActiveTarget
<1>9. Views(v)[k] = IF k \in Changed THEN ChangedView(v, k)
                    ELSE IF view[k].on THEN OtherView(v, k) ELSE view[k]
  BY <1>8 DEF Views
<1> QED
  BY <1>3, <1>4, <1>6, <1>7, <1>8, <1>9

-----------------------------------------------------------------------------
(* The stream through steps that leave it alone, and without one.          *)

Heard == stream.state = "Open" => \A k \in Key : view[k].on => Listens(k)

StreamInv == NoErrors /\ StreamClosed /\ Counts /\ Ordered /\ Blocks /\ Heard

\* A view that no step of the stream, of a get or of the process has changed.
ViewKept(k) ==
    /\ view'[k].on = view[k].on /\ view'[k].synced = view[k].synced
    /\ view'[k].token = view[k].token /\ view'[k].since = view[k].since
    /\ view'[k].current => view[k].current
    /\ view'[k].limbo => view[k].limbo \/ (view[k].on /\ InLimbo(view'[k]))

ViewsKept == \A k \in Key : ViewKept(k)

NothingSent == /\ UNCHANGED <<stream.state, aggregator, updates, toServer, toClient, sub, lastRemote>>
         /\ ViewsKept /\ LogKept

Gone == stream'.state # "Open" /\ NothingHeard'

LEMMA MessageTypes ==
    ASSUME Types, NEW i \in DOMAIN toClient
    PROVE  /\ toClient[i].kind \in {"added", "removed", "error", "current", "doc", "snapshot"}
           /\ toClient[i].kind # "snapshot" => toClient[i].key \in Key
           /\ toClient[i].kind = "doc" => toClient[i].doc \in Known
           /\ toClient[i].kind = "snapshot" => toClient[i].version \in 1 .. Clock
<1>1. toClient[i] \in Message
  BY WatchTyped
<1> QED
  BY <1>1 DEF Message

LEMMA CoveredStays ==
    ASSUME WritesOK, WritesOK', LogKept, NEW k, NEW h, NEW v \in 0 .. Clock
    PROVE  Covered(k, h, v)' <=> Covered(k, h, v)
  BY WrittenStays DEF Covered

LEMMA GoneStream ==
    ASSUME Gone
    PROVE  StreamInv'
<1>1. /\ toServer' = << >> /\ toClient' = << >> /\ stream'.state # "Open"
      /\ \A k \in Key : aggregator'[k] = NoTarget /\ updates'[k] = Invalid
  BY DEF Gone, NothingHeard
<1>2. NoErrors' /\ StreamClosed' /\ Ordered' /\ Blocks' /\ Heard'
  BY <1>1 DEF Gone, NoErrors, StreamClosed, Ordered, Snapshots, Blocks, Heard
<1>3. Counts'
  <2>1. \A k \in Key : Asked(k)' = {} /\ Answers(k)' = {}
    BY <1>1 DEF Asked, Answers
  <2>2. Cardinality({}) = 0
    BY FS_EmptySet
  <2>3. \A k \in Key : aggregator'[k].pending = 0
    BY <1>1 DEF NoTarget
  <2>4. \A k \in Key : Cardinality(Asked(k)') = 0 /\ Cardinality(Answers(k)') = 0
    BY <2>1, <2>2
  <2> QED
    BY <2>3, <2>4 DEF Counts
<1> QED
  BY <1>2, <1>3 DEF StreamInv

\* A step that is not about document k and its view.
Apart(k) ==
    /\ Asked(k)' = Asked(k) /\ \A i \in Asked(k) : toServer'[i] = toServer[i]
    /\ toClient' = toClient
    /\ aggregator'[k] = aggregator[k] /\ updates'[k] = updates[k] /\ sub'[k] = sub[k]
    /\ ViewKept(k) /\ LogKept

LEMMA ApartListens ==
    ASSUME Types, WritesOK', NEW k \in Key, Apart(k), Listens(k)
    PROVE  Listens(k)'
<1>1. /\ toClient' = toClient /\ LogKept
      /\ aggregator'[k] = aggregator[k] /\ updates'[k] = updates[k] /\ sub'[k] = sub[k]
      /\ view'[k].synced = view[k].synced
      /\ view'[k].token = view[k].token /\ view'[k].since = view[k].since
  BY DEF Apart, ViewKept
<1>2. /\ Asked(k)' = Asked(k) /\ Answers(k)' = Answers(k) /\ Snapshots' = Snapshots
      /\ \A i : Live(k, i)' = Live(k, i)
  BY DEF Apart, Answers, Snapshots, Live
<1>3. Requests(k)'
  BY <1>1, <1>2 DEF Apart, Listens, Requests
<1>4. /\ \A p : Told(k, p)' = Told(k, p) /\ (Teller(k, p)' <=> Teller(k, p))
      /\ \A p, q : Quiet(k, p, q)' <=> Quiet(k, p, q)
  BY <1>1 DEF Told, Teller, Quiet
<1>5. \A h : \A s \in Snapshots : Covered(k, h, toClient[s].version)'
                                    <=> Covered(k, h, toClient[s].version)
  <2>1. \A s \in Snapshots : toClient[s].version \in 0 .. Clock
    BY MessageTypes DEF Snapshots, IsSnapshot
  <2>2. toClient' = toClient
    BY <1>1
  <2> QED
    BY <1>1, <2>1, <2>2, WrittenStays DEF Covered, Types
<1>6. Hears(k)'
  BY <1>1, <1>2, <1>4, <1>5 DEF Listens, Hears
<1>7. Currents(k)' /\ FreshSnapshots(k)'
  BY <1>1, <1>2 DEF Listens, Currents, HeardCurrent, FreshSnapshots
<1>8. Live(k, 0)' => ChangeFits(k)'
  BY <1>1, <1>2 DEF Listens, ChangeFits, DocumentChange, Found
<1> QED
  BY <1>3, <1>6, <1>7, <1>8 DEF Listens

LEMMA StillStream ==
    ASSUME Types, WritesOK', NothingSent, StreamInv
    PROVE  StreamInv'
<1>1. UNCHANGED <<stream.state, aggregator, updates, toServer, toClient, sub, lastRemote>>
  BY DEF NothingSent
<1>2. NoErrors' /\ StreamClosed' /\ Ordered' /\ Blocks'
  BY <1>1 DEF StreamInv, NoErrors, StreamClosed, NothingHeard, Ordered, Snapshots, Blocks, InBlock
<1>3. Counts'
  BY <1>1 DEF StreamInv, Counts, Asked, Answers
<1>4. Heard'
  <2>1. \A k \in Key : view'[k].on = view[k].on
    BY DEF NothingSent, ViewsKept, ViewKept
  <2>2. \A k \in Key : Apart(k)
    BY <1>1 DEF NothingSent, ViewsKept, Apart, Asked
  <2> QED
    BY <1>1, <2>1, <2>2, ApartListens DEF StreamInv, Heard
<1> QED
  BY <1>2, <1>3, <1>4 DEF StreamInv

-----------------------------------------------------------------------------
(* A request is sent.                                                      *)

\* Document k is watched or unwatched from now on.
Asks(k, r) ==
    /\ stream.state = "Open" /\ stream'.state = "Open"
    /\ toServer' = Append(toServer, r) /\ r.key = k
    /\ RecordPendingTargetRequest(k)
    /\ view'[k].on => r = WatchRequest(k, view'[k].token)
    /\ \A j \in Key \ {k} : ViewKept(j)
    /\ UNCHANGED <<updates, toClient, sub, log, lastRemote>>

LEMMA AskedMore ==
    ASSUME Types, NEW k \in Key, NEW r, Asks(k, r)
    PROVE  /\ Len(toServer) + 1 \in Asked(k)' /\ toServer'[Len(toServer) + 1] = r
           /\ Asked(k)' = Asked(k) \cup {Len(toServer) + 1}
           /\ \A i \in Asked(k)' : i <= Len(toServer) + 1
           /\ Len(toServer) + 1 \notin Asked(k)
           /\ \A j \in Key \ {k} : Asked(j)' = Asked(j)
           /\ \A i \in DOMAIN toServer : toServer'[i] = toServer[i]
<1> DEFINE n == Len(toServer)
<1>1. n \in Nat /\ DOMAIN toServer = 1 .. n
  BY Places
<1>2. toServer \in Seq(Request) /\ toServer' = Append(toServer, r) /\ r.key = k
  BY WatchTyped DEF Asks
<1>3. /\ DOMAIN toServer' = 1 .. n + 1 /\ toServer'[n + 1] = r
      /\ \A i \in 1 .. n : toServer'[i] = toServer[i]
  BY <1>2
<1> HIDE DEF n
<1> QED
  BY <1>1, <1>2, <1>3 DEF Asked, n

LEMMA AskStream ==
    ASSUME Types, NEW k \in Key, NEW r, Asks(k, r), StreamInv, WritesOK'
    PROVE  StreamInv'
<1>1. /\ UNCHANGED <<updates, toClient, sub, log, lastRemote>>
      /\ aggregator \in [Key -> Target]
      /\ aggregator' = [aggregator EXCEPT ![k].known = TRUE, ![k].pending = @ + 1]
  BY WatchTyped DEF Asks, RecordPendingTargetRequest
<1>2. /\ aggregator'[k].known = TRUE /\ aggregator'[k].pending = aggregator[k].pending + 1
      /\ \A j \in Key \ {k} : aggregator'[j] = aggregator[j]
  BY <1>1 DEF Target
<1>3. NoErrors' /\ Ordered' /\ Blocks'
  BY <1>1 DEF StreamInv, NoErrors, Ordered, Snapshots, Blocks, InBlock
<1>4. StreamClosed'
  BY DEF Asks, StreamClosed
<1>5. Counts'
  <2>1. \A j \in Key : Answers(j)' = Answers(j)
    BY <1>1 DEF Answers
  <2>2. Cardinality(Asked(k)') = Cardinality(Asked(k)) + 1
    BY AskedMore, Places, FS_AddElement
  <2>3. \A j \in Key \ {k} : Asked(j)' = Asked(j)
    BY AskedMore
  <2>4. aggregator'[k].pending = Cardinality(Asked(k)') + Cardinality(Answers(k)')
    BY <1>2, <2>1, <2>2, Places DEF StreamInv, Counts
  <2>5. \A j \in Key \ {k} : aggregator'[j].pending = Cardinality(Asked(j)') + Cardinality(Answers(j)')
    BY <1>2, <2>1, <2>3 DEF StreamInv, Counts
  <2> QED
    BY <2>4, <2>5 DEF Counts
<1>6. ASSUME NEW j \in Key \ {k}, view'[j].on
      PROVE  Listens(j)'
  <2>1. view[j].on /\ Listens(j)
    BY <1>6 DEF StreamInv, Heard, Asks, ViewKept
  <2>2. Apart(j)
    BY <1>1, <1>2, AskedMore DEF Apart, Asks, LogKept, Asked
  <2> QED
    BY <2>1, <2>2, ApartListens
<1>7. ASSUME view'[k].on
      PROVE  Listens(k)'
  <2>1. \A i : ~ Live(k, i)'
    BY AskedMore DEF Live
  <2>2. Requests(k)'
    <3>1. ASSUME NEW i \in Asked(k)', \A j \in Asked(k)' : j <= i
          PROVE  toServer'[i] = WatchRequest(k, view'[k].token)
      <4>1. i = Len(toServer) + 1
        BY <3>1, AskedMore, Places
      <4> QED
        BY <1>7, <4>1, AskedMore DEF Asks
    <3>2. WatchRequest(k, view[k].token)' = WatchRequest(k, view'[k].token)
      BY DEF WatchRequest
    <3> QED
      BY <1>2, <2>1, <3>1, <3>2, AskedMore DEF Requests
  <2>3. Hears(k)' /\ Currents(k)' /\ FreshSnapshots(k)'
    BY <2>1, AskedMore DEF Hears, Currents, FreshSnapshots
  <2> QED
    BY <2>1, <2>2, <2>3 DEF Listens
<1> QED
  BY <1>3, <1>4, <1>5, <1>6, <1>7 DEF StreamInv, Heard

-----------------------------------------------------------------------------
(* The stream opens.                                                       *)

\* Every document is watched once.
LEMMA WatchedOnce ==
    ASSUME OnWatchStreamOpen
    PROVE  \A k \in Listening(view) :
              \E i \in DOMAIN toServer' :
                 Asked(k)' = {i} /\ toServer'[i] = WatchRequest(k, view[k].token)
<1> DEFINE on == Listening(view)
           n  == Cardinality(on)
<1>1. IsFiniteSet(on) /\ n \in Nat
  <2>1. on \subseteq Key
    BY DEF Listening
  <2> HIDE DEF on
  <2> QED
    BY <2>1, FirestoreReadsAssumption, FS_Subset, FS_CardinalityType, Zenon
<1>2. PICK order \in [1 .. n -> on] :
         /\ \A k \in on : \E i \in DOMAIN order : order[i] = k
         /\ toServer' = [i \in DOMAIN order |-> WatchRequest(order[i], view[order[i]].token)]
  BY DEF OnWatchStreamOpen
<1> HIDE DEF on
<1>3. IsFiniteSet(1 .. n) /\ Cardinality(1 .. n) = n
  BY <1>1, FS_Interval
<1>4. order \in Surjection(1 .. n, on)
  BY <1>2 DEF Surjection
<1>5. order \in Injection(1 .. n, on)
  <2>1. Cardinality(1 .. n) = Cardinality(on)
    BY <1>3 DEF n
  <2> HIDE DEF n
  <2> QED
    BY <1>3, <1>4, <2>1, FS_SurjSameCardinalityImpliesInj
<1> HIDE DEF n
<1>6. \A i, j \in 1 .. n : order[i] = order[j] => i = j
  BY <1>5 DEF Injection, IsInjective
<1>7. /\ DOMAIN toServer' = 1 .. n
      /\ \A i \in 1 .. n : toServer'[i] = WatchRequest(order[i], view[order[i]].token)
      /\ \A i \in 1 .. n : toServer'[i].key = order[i]
  BY <1>2 DEF WatchRequest
<1>8. ASSUME NEW k \in on
      PROVE  \E i \in DOMAIN toServer' :
                Asked(k)' = {i} /\ toServer'[i] = WatchRequest(k, view[k].token)
  <2>1. PICK i \in 1 .. n : order[i] = k
    BY <1>2, <1>8
  <2>2. Asked(k)' = {j \in 1 .. n : order[j] = k}
    BY <1>7 DEF Asked
  <2>3. Asked(k)' = {i}
    BY <1>6, <2>1, <2>2
  <2> QED
    BY <1>7, <2>1, <2>3
<1> QED
  BY <1>8 DEF on

LEMMA UnwatchedNever ==
    ASSUME Types, OnWatchStreamOpen, NEW k \in Key \ Listening(view)
    PROVE  Asked(k)' = {}
<1>1. PICK order \in [1 .. Cardinality(Listening(view)) -> Listening(view)] :
         toServer' = [i \in DOMAIN order |-> WatchRequest(order[i], view[order[i]].token)]
  BY DEF OnWatchStreamOpen
<1>2. \A i \in DOMAIN toServer' : toServer'[i].key \in Listening(view)
  BY <1>1 DEF WatchRequest
<1> QED
  BY <1>2 DEF Asked

LEMMA OpenStream ==
    ASSUME Types, OnWatchStreamOpen, StreamInv
    PROVE  StreamInv'
<1>1. /\ stream.state = "Starting" /\ UNCHANGED <<log, disk, reader, updates, toClient, sub>>
      /\ stream' = [stream EXCEPT !.state = "Open"]
      /\ aggregator' = [k \in Key |->
                          IF view[k].on
                          THEN [aggregator[k] EXCEPT !.known = TRUE, !.pending = @ + 1]
                          ELSE aggregator[k]]
  BY DEF OnWatchStreamOpen
<1>2. NothingHeard
  BY <1>1 DEF StreamInv, StreamClosed
<1>3. stream'.state = "Open"
  BY <1>1, WatchTyped DEF Stream
<1>4. /\ toClient' = << >> /\ view' = view /\ \A k \in Key : updates'[k] = Invalid
      /\ \A k \in Key : Answers(k)' = {} /\ Cardinality(Answers(k)') = 0
      /\ Snapshots' = {}
  <2>1. toClient' = << >> /\ view' = view /\ updates' = updates
    BY <1>1, <1>2 DEF NothingHeard, reader
  <2>2. \A k \in Key : Answers(k)' = {}
    BY <2>1 DEF Answers
  <2>3. Snapshots' = {}
    BY <2>1 DEF Snapshots
  <2> QED
    BY <1>2, <2>1, <2>2, <2>3, FS_EmptySet DEF NothingHeard
<1> DEFINE asked == [NoTarget EXCEPT !.known = TRUE, !.pending = @ + 1]
<1>5. /\ \A k \in Key : aggregator'[k] = IF view[k].on THEN asked ELSE NoTarget
      /\ asked.pending = 1 /\ NoTarget.pending = 0
  <2>1. asked.pending = 1 /\ NoTarget.pending = 0
    BY DEF NoTarget
  <2>2. \A k \in Key : aggregator[k] = NoTarget
    BY <1>2 DEF NothingHeard
  <2>3. \A k \in Key : [aggregator[k] EXCEPT !.known = TRUE, !.pending = @ + 1] = asked
    BY <2>2
  <2> HIDE DEF asked
  <2> QED
    BY <1>1, <2>1, <2>2, <2>3
<1>6. asked.known
  BY DEF NoTarget
<1> HIDE DEF asked
<1>7. \A k \in Key : k \in Listening(view) <=> view[k].on
  BY DEF Listening
<1>8. NoErrors' /\ Ordered' /\ Blocks' /\ StreamClosed'
  BY <1>3, <1>4 DEF NoErrors, Ordered, Blocks, StreamClosed
<1>9. Counts'
  <2>1. \A k \in Key : ~ view[k].on => Cardinality(Asked(k)') = 0
    BY <1>7, UnwatchedNever, FS_EmptySet
  <2>2. \A k \in Key : view[k].on => Cardinality(Asked(k)') = 1
    <3>1. \A k \in Key : view[k].on => \E i : Asked(k)' = {i}
      BY <1>7, WatchedOnce
    <3> QED
      BY <3>1, FS_Singleton
  <2>3. \A k \in Key : aggregator'[k].pending = Cardinality(Asked(k)') + Cardinality(Answers(k)')
    BY <1>4, <1>5, <2>1, <2>2
  <2> QED
    BY <2>3 DEF Counts
<1>10. ASSUME NEW k \in Key, view'[k].on
       PROVE  Listens(k)'
  <2>1. PICK i \in DOMAIN toServer' : Asked(k)' = {i} /\ toServer'[i] = WatchRequest(k, view[k].token)
    BY <1>4, <1>7, <1>10, WatchedOnce
  <2>2. \A p : ~ Live(k, p)'
    BY <2>1 DEF Live
  <2>3. WatchRequest(k, view[k].token)' = WatchRequest(k, view[k].token)
    BY <1>4 DEF WatchRequest
  <2>4. Requests(k)'
    BY <1>4, <1>5, <1>6, <1>10, <2>1, <2>2, <2>3 DEF Requests
  <2>5. Hears(k)' /\ Currents(k)' /\ FreshSnapshots(k)'
    BY <2>1, <2>2 DEF Hears, Currents, FreshSnapshots
  <2> QED
    BY <2>2, <2>4, <2>5 DEF Listens
<1> QED
  BY <1>8, <1>9, <1>10 DEF StreamInv, Heard

-----------------------------------------------------------------------------
(* A message is received.                                                  *)

Receives == /\ toClient # << >> /\ toClient' = Tail(toClient)
            /\ UNCHANGED <<stream, toServer, sub, log>>

\* All that is on the stream moves up by one place.
LEMMA MovesUp ==
    ASSUME Types, Receives
    PROVE  /\ Len(toClient) \in Nat \ {0} /\ Len(toClient') = Len(toClient) - 1
           /\ DOMAIN toClient = 1 .. Len(toClient)
           /\ DOMAIN toClient' = 1 .. Len(toClient) - 1
           /\ \A i \in 1 .. Len(toClient) - 1 : toClient'[i] = toClient[i + 1]
           /\ Head(toClient) = toClient[1]
           /\ \A i : i \in Snapshots' <=> i \in Nat \ {0} /\ i + 1 \in Snapshots
<1>1. toClient \in Seq(Message) /\ toClient # << >> /\ toClient' = Tail(toClient)
  BY WatchTyped DEF Receives
<1> DEFINE M == Message
<1>2. toClient \in Seq(M)
  BY <1>1
<1> HIDE DEF M
<1>3. /\ Len(toClient) \in Nat \ {0} /\ Len(toClient') = Len(toClient) - 1
      /\ DOMAIN toClient = 1 .. Len(toClient)
      /\ DOMAIN toClient' = 1 .. Len(toClient) - 1
      /\ \A i \in 1 .. Len(toClient) - 1 : toClient'[i] = toClient[i + 1]
      /\ Head(toClient) = toClient[1]
  BY <1>1, <1>2
<1>4. \A i : i \in Snapshots' <=> i \in Nat \ {0} /\ i + 1 \in Snapshots
  BY <1>3 DEF Snapshots
<1> QED
  BY <1>3, <1>4

LEMMA MovesUpOn ==
    ASSUME Types, Receives, NEW k
    PROVE  /\ Asked(k)' = Asked(k)
           /\ \A i : i \in Answers(k)' <=> i \in Nat \ {0} /\ i + 1 \in Answers(k)
           /\ \A i \in Nat : Live(k, i)' <=> Live(k, i + 1)
           /\ \A p \in 1 .. Len(toClient) - 1 : Teller(k, p)' <=> Teller(k, p + 1)
           /\ \A p \in Nat : \A q \in 0 .. Len(toClient) - 1 :
                 Quiet(k, p, q)' <=> Quiet(k, p + 1, q + 1)
<1>1. Asked(k)' = Asked(k)
  BY DEF Receives, Asked
<1>2. \A i : i \in Answers(k)' <=> i \in Nat \ {0} /\ i + 1 \in Answers(k)
  BY MovesUp DEF Answers
<1>3. \A i \in Nat : Live(k, i)' <=> Live(k, i + 1)
  <2> SUFFICES ASSUME NEW i \in Nat PROVE Live(k, i)' <=> Live(k, i + 1)
    OBVIOUS
  <2>1. Answers(k) \in SUBSET (1 .. Len(toClient)) /\ Len(toClient) \in Nat
    BY Places
  <2>2. (\A j \in Answers(k)' : j <= i) <=> (\A j \in Answers(k) : j <= i + 1)
    <3>1. ASSUME \A j \in Answers(k)' : j <= i, NEW j \in Answers(k)
          PROVE  j <= i + 1
      <4>1. j = 1 \/ (j - 1 \in Nat \ {0} /\ (j - 1) + 1 = j)
        BY <2>1
      <4> QED
        BY <1>2, <2>1, <3>1, <4>1
    <3>2. ASSUME \A j \in Answers(k) : j <= i + 1, NEW j \in Answers(k)'
          PROVE  j <= i
      BY <1>2, <3>2
    <3> QED
      BY <3>1, <3>2
  <2> QED
    BY <1>1, <2>2 DEF Live
<1>4. \A p \in 1 .. Len(toClient) - 1 : Teller(k, p)' <=> Teller(k, p + 1)
  BY MovesUp DEF Teller
<1>5. \A p \in Nat : \A q \in 0 .. Len(toClient) - 1 :
         Quiet(k, p, q)' <=> Quiet(k, p + 1, q + 1)
  <2> SUFFICES ASSUME NEW p \in Nat, NEW q \in 0 .. Len(toClient) - 1
               PROVE  Quiet(k, p, q)' <=> Quiet(k, p + 1, q + 1)
    OBVIOUS
  <2>1. ASSUME Quiet(k, p, q)', NEW i \in p + 1 + 1 .. q + 1
        PROVE  ~ Tells(toClient[i], k)
    <3>1. i - 1 \in p + 1 .. q /\ i - 1 \in 1 .. Len(toClient) - 1 /\ (i - 1) + 1 = i
      BY MovesUp
    <3>2. ~ Tells(toClient'[i - 1], k)
      BY <2>1, <3>1 DEF Quiet
    <3> QED
      BY <3>1, <3>2, MovesUp
  <2>2. ASSUME Quiet(k, p + 1, q + 1), NEW i \in p + 1 .. q
        PROVE  ~ Tells(toClient'[i], k)
    <3>1. i + 1 \in p + 1 + 1 .. q + 1 /\ i \in 1 .. Len(toClient) - 1
      BY MovesUp
    <3> QED
      BY <2>2, <3>1, MovesUp DEF Quiet
  <2> QED
    BY <2>1, <2>2 DEF Quiet
<1> QED
  BY <1>1, <1>2, <1>3, <1>4, <1>5

\* What the first message does to a document that is listened to.
ListenStep(k) ==
    /\ aggregator'[k].known
    /\ Live(k, 1) => Told(k, 0)' = IF Tells(toClient[1], k) THEN Told(k, 1) ELSE Told(k, 0)
    /\ Live(k, 0) \/ view'[k].token = view[k].token
    /\ view'[k].since = view[k].since
    /\ Live(k, 0) /\ aggregator[k].current => aggregator'[k].current
    /\ Live(k, 0) /\ toClient[1].kind = "current" /\ toClient[1].key = k => aggregator'[k].current
    /\ Live(k, 0)' => ChangeFits(k)'

\* A request stays the last one, and what answers it still does.
LEMMA ReceivedRequests ==
    ASSUME Types, Receives, NEW k \in Key, Requests(k), ListenStep(k)
    PROVE  Requests(k)'
<1>1. Asked(k)' = Asked(k) /\ toServer' = toServer /\ sub' = sub
  BY MovesUpOn DEF Receives
<1>2. Asked(k) # {} => view'[k].token = view[k].token
  BY DEF ListenStep, Live
<1>3. ASSUME NEW i \in Asked(k)', \A j \in Asked(k)' : j <= i
      PROVE  toServer'[i] = WatchRequest(k, view[k].token)'
  <2>1. toServer[i] = WatchRequest(k, view[k].token)
    BY <1>1, <1>3 DEF Requests
  <2> QED
    BY <1>1, <1>2, <1>3, <2>1 DEF WatchRequest
<1>4. ASSUME NEW i \in Answers(k)', Live(k, i)'
      PROVE  toClient'[i].kind = "added"
  <2>1. i \in Nat /\ i + 1 \in Answers(k) /\ i \in DOMAIN toClient'
    BY MovesUpOn DEF Answers
  <2>2. Live(k, i + 1)
    BY <1>4, <2>1, MovesUpOn
  <2>3. toClient'[i] = toClient[i + 1]
    BY <2>1, MovesUp
  <2> QED
    BY <2>1, <2>2, <2>3 DEF Requests
<1> QED
  BY <1>1, <1>3, <1>4 DEF Requests, ListenStep

\* What has been heard is what was to be heard.
LEMMA ReceivedHears ==
    ASSUME Types, Receives, NEW k \in Key, Hears(k), ListenStep(k)
    PROVE  Hears(k)'
<1>1. log' = log /\ sub' = sub
  BY DEF Receives
<1>2. \A h, v : Covered(k, h, v)' <=> Covered(k, h, v)
  BY <1>1 DEF Covered, ContentAt, WrittenAt
<1>3. ASSUME NEW p \in 0 .. Len(toClient'), Live(k, p)', Teller(k, p)'
      PROVE  \E P \in 0 .. Len(toClient) :
                /\ Live(k, P) /\ Teller(k, P) /\ P <= p + 1
                /\ Told(k, p)' = Told(k, P)
                /\ \A q : Quiet(k, p + 1, q) => Quiet(k, P, q)
  <2>1. Live(k, p + 1) /\ p \in Nat /\ p <= Len(toClient) - 1 /\ Len(toClient) \in Nat \ {0}
    <3>1. p \in Nat /\ p <= Len(toClient) - 1 /\ Len(toClient) \in Nat \ {0}
      BY MovesUp
    <3> QED
      BY <1>3, <3>1, MovesUpOn
  <2>2. CASE p # 0
    <3>1. p \in 1 .. Len(toClient) - 1 /\ p + 1 \in 0 .. Len(toClient) /\ p + 1 # 0
      BY <2>1, <2>2
    <3>2. Teller(k, p + 1) /\ toClient'[p] = toClient[p + 1]
      BY <1>3, <3>1, MovesUp, MovesUpOn
    <3>3. Told(k, p)' = Told(k, p + 1)
      <4>1. CASE view'[k].token = view[k].token
        BY <2>2, <3>1, <3>2, <4>1 DEF Told
      <4>2. CASE view'[k].token # view[k].token
        <5>1. Live(k, 0)
          BY <4>2 DEF ListenStep
        <5>2. p + 1 \notin Answers(k)
          BY <2>1, <2>2, <5>1 DEF Live
        <5>3. IsSnapshot(toClient[p + 1]) \/ ~ IsAnswer(toClient[p + 1])
          BY <3>1, <3>2, <5>2, MovesUp DEF Teller, Tells, Answers, IsAnswer
        <5> QED
          BY <2>2, <3>1, <3>2, <5>3 DEF Told
      <4> QED
        BY <4>1, <4>2
    <3> QED
      BY <2>1, <3>1, <3>2, <3>3
  <2>3. CASE p = 0 /\ Tells(toClient[1], k)
    <3>1. Told(k, 0)' = Told(k, 1) /\ Teller(k, 1) /\ 1 \in 0 .. Len(toClient)
      BY <2>1, <2>3, MovesUp DEF ListenStep, Teller
    <3> QED
      BY <2>1, <2>3, <3>1
  <2>4. CASE p = 0 /\ ~ Tells(toClient[1], k)
    <3>1. Told(k, 0)' = Told(k, 0) /\ Teller(k, 0) /\ 0 \in 0 .. Len(toClient)
      BY <2>1, <2>4 DEF ListenStep, Teller
    <3>2. Live(k, 0)
      <4>1. 1 \notin Answers(k)
        BY <2>4 DEF Answers, Tells
      <4>2. Answers(k) \in SUBSET (1 .. Len(toClient))
        BY Places
      <4> QED
        BY <2>1, <2>4, <4>1, <4>2 DEF Live
    <3>3. \A q : Quiet(k, 1, q) => Quiet(k, 0, q)
      <4>1. ASSUME NEW q, Quiet(k, 1, q), NEW i \in 0 + 1 .. q
            PROVE  ~ Tells(toClient[i], k)
        <5>1. i = 1 \/ i \in 1 + 1 .. q
          OBVIOUS
        <5> QED
          BY <2>4, <4>1, <5>1 DEF Quiet
      <4> QED
        BY <4>1 DEF Quiet
    <3> QED
      BY <2>4, <3>1, <3>2, <3>3
  <2> QED
    BY <2>2, <2>3, <2>4
<1>4. SUFFICES ASSUME NEW p \in 0 .. Len(toClient'), Live(k, p)', Teller(k, p)'
               PROVE  /\ \A s \in Snapshots' : p < s /\ Quiet(k, p, s - 1)' =>
                            Covered(k, Told(k, p), toClient[s].version)'
                      /\ Quiet(k, p, Len(toClient))' => sub'[k].at = Told(k, p)'
  BY DEF Hears
<1>5. PICK P \in 0 .. Len(toClient) :
         /\ Live(k, P) /\ Teller(k, P) /\ P <= p + 1
         /\ Told(k, p)' = Told(k, P)
         /\ \A q : Quiet(k, p + 1, q) => Quiet(k, P, q)
  BY <1>3, <1>4
<1>6. p \in Nat /\ Len(toClient') = Len(toClient) - 1 /\ Len(toClient) \in Nat \ {0}
  BY <1>4, MovesUp
<1>7. ASSUME NEW s \in Snapshots', p < s, Quiet(k, p, s - 1)'
      PROVE  Covered(k, Told(k, p), toClient[s].version)'
  <2>1. s \in Nat \ {0} /\ s + 1 \in Snapshots /\ s \in 1 .. Len(toClient) - 1
        /\ toClient'[s] = toClient[s + 1]
    BY <1>7, MovesUp DEF Snapshots
  <2>2. Quiet(k, p + 1, s)
    <3>1. s - 1 \in 0 .. Len(toClient) - 1 /\ (s - 1) + 1 = s
      BY <1>6, <2>1
    <3> QED
      BY <1>6, <1>7, <3>1, MovesUpOn
  <2>3. Quiet(k, P, (s + 1) - 1) /\ P < s + 1
    BY <1>5, <1>6, <1>7, <2>1, <2>2
  <2>4. Covered(k, Told(k, P), toClient[s + 1].version)
    BY <1>5, <2>1, <2>3 DEF Hears
  <2> QED
    BY <1>2, <1>5, <2>1, <2>4
<1>8. ASSUME Quiet(k, p, Len(toClient))'
      PROVE  sub'[k].at = Told(k, p)'
  <2>1. Quiet(k, p + 1, Len(toClient))
    <3>1. Len(toClient) - 1 \in 0 .. Len(toClient) - 1 /\ (Len(toClient) - 1) + 1 = Len(toClient)
      BY <1>6
    <3>2. \A i : i \in p + 1 .. Len(toClient') <=> i \in p + 1 .. Len(toClient) - 1
      BY <1>6
    <3>3. \A i \in p + 1 .. Len(toClient) - 1 : ~ Tells(toClient'[i], k)
      BY <1>8, <3>2 DEF Quiet
    <3>4. \A i \in p + 1 + 1 .. Len(toClient) : ~ Tells(toClient[i], k)
      <4>1. ASSUME NEW i \in p + 1 + 1 .. Len(toClient)
            PROVE  ~ Tells(toClient[i], k)
        <5>1. i - 1 \in p + 1 .. Len(toClient) - 1 /\ i - 1 \in 1 .. Len(toClient) - 1
              /\ (i - 1) + 1 = i
          BY <1>6
        <5> QED
          BY <3>3, <5>1, MovesUp
      <4> QED
        BY <4>1
    <3> QED
      BY <3>4 DEF Quiet
  <2> QED
    BY <1>1, <1>5, <2>1 DEF Hears
<1> QED
  BY <1>7, <1>8

LEMMA ReceivedCurrent ==
    ASSUME Types, Receives, NEW k \in Key, ListenStep(k), NEW q \in 0 .. Len(toClient) - 1,
           HeardCurrent(k, q + 1)
    PROVE  HeardCurrent(k, q)'
<1>1. Answers(k) \in SUBSET (1 .. Len(toClient)) /\ Len(toClient) \in Nat \ {0}
  BY Places, MovesUp
<1>2. Live(k, 0) => Live(k, 0)'
  <2>1. Live(k, 0) => Live(k, 1)
    BY <1>1 DEF Live
  <2>2. 0 \in Nat /\ 0 + 1 = 1
    OBVIOUS
  <2> QED
    BY <2>1, <2>2, MovesUpOn
<1>3. CASE Live(k, 0) /\ aggregator[k].current
  BY <1>2, <1>3 DEF HeardCurrent, ListenStep
<1>4. ASSUME NEW p \in 1 .. q + 1, Live(k, p), toClient[p].kind = "current", toClient[p].key = k
      PROVE  HeardCurrent(k, q)'
  <2>1. CASE p = 1
    <3>1. 1 \notin Answers(k)
      BY <1>4, <2>1 DEF Answers, IsAnswer
    <3>2. Live(k, 0)
      BY <1>1, <1>4, <2>1, <3>1 DEF Live
    <3> QED
      BY <1>2, <1>4, <2>1, <3>2 DEF HeardCurrent, ListenStep
  <2>2. CASE p # 1
    <3>1. p - 1 \in 1 .. q /\ p - 1 \in Nat /\ (p - 1) + 1 = p /\ p - 1 \in 1 .. Len(toClient) - 1
      BY <1>1, <2>2
    <3>2. Live(k, p - 1)' /\ toClient'[p - 1] = toClient[p]
      BY <1>4, <3>1, MovesUp, MovesUpOn
    <3>3. \E r \in 1 .. q : Live(k, r)' /\ toClient'[r].kind = "current" /\ toClient'[r].key = k
      BY <1>4, <3>1, <3>2
    <3> QED
      BY <3>3 DEF HeardCurrent
  <2> QED
    BY <2>1, <2>2
<1> QED
  BY <1>3, <1>4 DEF HeardCurrent

LEMMA ReceivedListens ==
    ASSUME Types, Receives, NEW k \in Key, Listens(k), ListenStep(k)
    PROVE  Listens(k)'
<1>1. Requests(k)' /\ Hears(k)'
  BY ReceivedRequests, ReceivedHears DEF Listens
<1>2. ASSUME NEW s \in Snapshots', Live(k, s)'
      PROVE  HeardCurrent(k, s)' /\ view'[k].since <= toClient'[s].version
  <2>1. s \in Nat \ {0} /\ s + 1 \in Snapshots /\ s \in 1 .. Len(toClient) - 1
        /\ s \in 0 .. Len(toClient) - 1 /\ toClient'[s] = toClient[s + 1]
    BY <1>2, MovesUp DEF Snapshots
  <2>2. Live(k, s + 1)
    BY <1>2, <2>1, MovesUpOn
  <2>3. HeardCurrent(k, s + 1) /\ view[k].since <= toClient[s + 1].version
    BY <2>1, <2>2 DEF Listens, Currents, FreshSnapshots
  <2> QED
    BY <2>1, <2>3, ReceivedCurrent DEF ListenStep
<1>3. ASSUME Asked(k)' = {}, sub'[k].current
      PROVE  HeardCurrent(k, Len(toClient))'
  <2>1. PICK q \in 0 .. Len(toClient) - 1 : q + 1 = Len(toClient) /\ Len(toClient') = q
    BY MovesUp
  <2>2. Asked(k) = {} /\ sub[k].current
    BY <1>3, MovesUpOn DEF Receives
  <2>3. HeardCurrent(k, q + 1)
    BY <2>1, <2>2 DEF Listens, Currents
  <2>4. HeardCurrent(k, q)'
    BY <2>3, ReceivedCurrent
  <2> QED
    BY <2>1, <2>4 DEF HeardCurrent
<1>4. Currents(k)' /\ FreshSnapshots(k)'
  BY <1>2, <1>3 DEF Currents, FreshSnapshots
<1> QED
  BY <1>1, <1>4 DEF Listens, ListenStep

LEMMA BlockMoves ==
    ASSUME Types, Receives, NEW p \in Nat, InBlock(p + 1)
    PROVE  InBlock(p)'
<1>1. PICK s \in Snapshots : p + 1 < s /\ \A i \in p + 1 + 1 .. s : ~ IsAnswer(toClient[i])
  BY DEF InBlock
<1>2. /\ s \in 1 .. Len(toClient) /\ Len(toClient) \in Nat \ {0}
      /\ s - 1 \in Nat \ {0} /\ (s - 1) + 1 = s /\ p < s - 1
  BY <1>1, MovesUp DEF Snapshots
<1>3. s - 1 \in Snapshots'
  BY <1>1, <1>2, MovesUp
<1>4. ASSUME NEW i \in p + 1 .. s - 1
      PROVE  ~ IsAnswer(toClient'[i])
  <2>1. i + 1 \in p + 1 + 1 .. s /\ i \in 1 .. Len(toClient) - 1
    BY <1>2
  <2>2. toClient'[i] = toClient[i + 1]
    BY <2>1, MovesUp
  <2> QED
    BY <1>1, <2>1, <2>2
<1> QED
  BY <1>2, <1>3, <1>4 DEF InBlock

\* What the first message does to the aggregator, whoever listens.
MessageStep ==
    /\ \A k \in Key :
          /\ aggregator'[k].pending = IF IsAnswer(toClient[1]) /\ toClient[1].key = k
                                      THEN aggregator[k].pending - 1 ELSE aggregator[k].pending
          /\ updates'[k] # updates[k] => updates'[k] = Invalid \/ toClient[1].kind = "doc"
          /\ view'[k].on = view[k].on
          /\ view[k].on => ListenStep(k)
    /\ lastRemote' = IF IsSnapshot(toClient[1]) THEN toClient[1].version ELSE lastRemote
    /\ IsSnapshot(toClient[1]) => \A k \in Key : updates'[k] = Invalid

LEMMA ReceivedBlocks ==
    ASSUME Types, Receives, MessageStep, Blocks
    PROVE  Blocks'
<1>1. ASSUME NEW p \in DOMAIN toClient', toClient'[p].kind = "doc"
      PROVE  InBlock(p)'
  <2>1. p \in Nat /\ p \in 1 .. Len(toClient) - 1 /\ p + 1 \in DOMAIN toClient
        /\ toClient'[p] = toClient[p + 1]
    BY <1>1, MovesUp
  <2>2. InBlock(p + 1)
    BY <1>1, <2>1 DEF Blocks
  <2> QED
    BY <2>1, <2>2, BlockMoves
<1>2. ASSUME NEW k \in Key, updates'[k] # Invalid
      PROVE  InBlock(0)'
  <2>1. InBlock(1)
    <3>1. CASE toClient[1].kind = "doc"
      BY <3>1, MovesUp DEF Blocks
    <3>2. CASE toClient[1].kind # "doc"
      <4>1. updates[k] # Invalid /\ ~ IsSnapshot(toClient[1])
        BY <1>2, <3>2 DEF MessageStep
      <4>2. PICK s \in Snapshots : 0 < s /\ \A i \in 0 + 1 .. s : ~ IsAnswer(toClient[i])
        BY <4>1 DEF Blocks, InBlock
      <4>3. s # 1 /\ s \in 1 .. Len(toClient) /\ Len(toClient) \in Nat
        BY <4>1, MovesUp DEF Snapshots
      <4>4. 1 < s /\ \A i \in 1 + 1 .. s : ~ IsAnswer(toClient[i])
        BY <4>2, <4>3
      <4> QED
        BY <4>4 DEF InBlock
    <3> QED
      BY <3>1, <3>2
  <2>2. 0 \in Nat /\ 1 = 0 + 1
    OBVIOUS
  <2> QED
    BY <2>1, <2>2, BlockMoves
<1> QED
  BY <1>1, <1>2 DEF Blocks

LEMMA ReceivedCounts ==
    ASSUME Types, Receives, MessageStep, Counts
    PROVE  Counts'
<1>1. ASSUME NEW k \in Key
      PROVE  aggregator'[k].pending = Cardinality(Asked(k)') + Cardinality(Answers(k)')
  <2>1. Asked(k)' = Asked(k) /\ Cardinality(Asked(k)) \in Nat /\ Len(toClient) \in Nat
        /\ Answers(k) \in SUBSET (1 .. Len(toClient))
        /\ \A i : i \in Answers(k)' <=> i \in Nat \ {0} /\ i + 1 \in Answers(k)
    BY MovesUpOn, Places
  <2>2. /\ Cardinality(Answers(k)) \in Nat
        /\ Cardinality(Answers(k)') = IF 1 \in Answers(k) THEN Cardinality(Answers(k)) - 1
                                      ELSE Cardinality(Answers(k))
    BY <2>1, Shifted
  <2>3. 1 \in Answers(k) <=> IsAnswer(toClient[1]) /\ toClient[1].key = k
    BY MovesUp DEF Answers
  <2> QED
    BY <2>1, <2>2, <2>3 DEF MessageStep, Counts
<1> QED
  BY <1>1 DEF Counts

LEMMA ReceivedStream ==
    ASSUME Types, Receives, MessageStep, StreamInv
    PROVE  StreamInv'
<1>1. stream' = stream /\ stream.state = "Open"
  BY DEF StreamInv, StreamClosed, NothingHeard, Receives
<1>2. NoErrors'
  <2>1. ASSUME NEW i \in DOMAIN toClient' PROVE toClient'[i].kind # "error"
    <3>1. i + 1 \in DOMAIN toClient /\ toClient'[i] = toClient[i + 1]
      BY MovesUp
    <3> QED
      BY <3>1 DEF StreamInv, NoErrors
  <2> QED
    BY <2>1 DEF NoErrors
<1>3. StreamClosed'
  BY <1>1 DEF StreamClosed
<1>4. Counts' /\ Blocks'
  BY ReceivedCounts, ReceivedBlocks DEF StreamInv
<1>5. Ordered'
  <2>1. ASSUME NEW i \in Snapshots'
        PROVE  /\ i \in Nat \ {0} /\ i + 1 \in Snapshots
               /\ toClient'[i] = toClient[i + 1]
               /\ lastRemote' <= toClient[i + 1].version
    <3>1. i \in Nat \ {0} /\ i + 1 \in Snapshots /\ toClient'[i] = toClient[i + 1]
      BY MovesUp DEF Snapshots
    <3>2. CASE IsSnapshot(toClient[1])
      <4>1. 1 \in Snapshots /\ 1 < i + 1
        BY <3>1, <3>2, MovesUp DEF Snapshots
      <4>2. toClient[1].version <= toClient[i + 1].version
        BY <3>1, <4>1 DEF StreamInv, Ordered
      <4> QED
        BY <3>1, <3>2, <4>2 DEF MessageStep
    <3>3. CASE ~ IsSnapshot(toClient[1])
      BY <3>1, <3>3 DEF MessageStep, StreamInv, Ordered
    <3> QED
      BY <3>1, <3>2, <3>3
  <2>2. ASSUME NEW i \in Snapshots', NEW j \in Snapshots', i < j
        PROVE  toClient'[i].version <= toClient'[j].version
    <3>1. i + 1 < j + 1
      BY <2>1, <2>2
    <3> QED
      BY <2>1, <3>1 DEF StreamInv, Ordered
  <2> QED
    BY <2>1, <2>2 DEF Ordered
<1>6. Heard'
  <2>1. ASSUME NEW k \in Key, view'[k].on PROVE Listens(k)'
    BY <1>1, <2>1, ReceivedListens DEF MessageStep, StreamInv, Heard
  <2> QED
    BY <2>1 DEF Heard
<1> QED
  BY <1>2, <1>3, <1>4, <1>5, <1>6 DEF StreamInv

-----------------------------------------------------------------------------
(* The kinds of messages.                                                  *)

LEMMA PublishKept ==
    ASSUME Types, NEW o, NEW calls, NEW heard, Publish(view, o, calls, heard)
    PROVE  ViewsKept
<1>1. view \in [Key -> View]
  BY ReaderTyped
<1> QED
  BY <1>1, PublishViews, PublishLimbo DEF ViewsKept, ViewKept

LEMMA EmitKept ==
    ASSUME Types, NEW keys, NEW c \in [Key -> Known], NEW q \in Seq(Mutation),
           NEW o, NEW calls, NEW heard, Publish(Emit(keys, c, q), o, calls, heard)
    PROVE  ViewsKept
<1> DEFINE views == Emit(keys, c, q)
<1>1. views \in [Key -> View]
  BY EmitViews
<1>2. \A k \in Key : /\ views[k].on = view[k].on /\ views[k].synced = view[k].synced
                     /\ views[k].token = view[k].token /\ views[k].since = view[k].since
                     /\ views[k].current = view[k].current
                     /\ views[k].limbo => view[k].limbo \/ (view[k].on /\ InLimbo(views[k]))
  BY EmitViews, EmitLimbo
<1> HIDE DEF views
<1>3. \A k \in Key : /\ view'[k].on = views[k].on /\ view'[k].synced = views[k].synced
                     /\ view'[k].token = views[k].token /\ view'[k].since = views[k].since
                     /\ view'[k].doc = views[k].doc
                     /\ view'[k].current => views[k].current
                     /\ view'[k].limbo = views[k].limbo
  BY <1>1, PublishViews, PublishLimbo DEF views
<1>4. \A k \in Key : InLimbo(views[k]) => InLimbo(view'[k])
  BY <1>3 DEF InLimbo
<1> QED
  BY <1>2, <1>3, <1>4 DEF ViewsKept, ViewKept

\* An answer is the last one that is awaited, or there are more to come.
LEMMA LastAnswer ==
    ASSUME Types, Counts, NEW k \in Key, 1 \in Answers(k)
    PROVE  /\ aggregator[k].pending = 1 <=> Live(k, 1)
           /\ aggregator[k].pending \in Nat \ {0}
<1>1. /\ aggregator[k].pending = Cardinality(Asked(k)) + Cardinality(Answers(k))
      /\ IsFiniteSet(Asked(k)) /\ IsFiniteSet(Answers(k))
      /\ Cardinality(Asked(k)) \in Nat /\ Cardinality(Answers(k)) \in Nat
      /\ Answers(k) \in SUBSET (1 .. Len(toClient)) /\ Len(toClient) \in Nat
  BY Places DEF Counts
<1>2. /\ Cardinality(Asked(k)) = 0 <=> Asked(k) = {}
      /\ Cardinality(Answers(k)) # 0
  BY <1>1, FS_EmptySet
<1>3. Cardinality(Answers(k)) = 1 <=> Answers(k) = {1}
  <2>1. /\ IsFiniteSet(Answers(k) \ {1})
        /\ Cardinality(Answers(k) \ {1}) = Cardinality(Answers(k)) - 1
    BY <1>1, FS_RemoveElement
  <2>2. Cardinality(Answers(k) \ {1}) = 0 <=> Answers(k) \ {1} = {}
    BY <2>1, FS_EmptySet
  <2>3. Answers(k) \ {1} = {} <=> Answers(k) = {1}
    OBVIOUS
  <2> QED
    BY <1>1, <2>1, <2>2, <2>3
<1>4. Live(k, 1) <=> Asked(k) = {} /\ Answers(k) = {1}
  BY <1>1 DEF Live
<1> QED
  BY <1>1, <1>2, <1>3, <1>4

LEMMA LiveNext ==
    ASSUME Types, NEW k, 1 \notin Answers(k)
    PROVE  Live(k, 1) <=> Live(k, 0)
<1>1. Answers(k) \in SUBSET (1 .. Len(toClient)) /\ Len(toClient) \in Nat
  BY Places
<1> QED
  BY <1>1 DEF Live

\* Before an answer no document waits for its snapshot.
LEMMA NothingWaits ==
    ASSUME Types, Blocks, IsAnswer(toClient[1])
    PROVE  \A k \in Key : updates[k] = Invalid
<1>1. \A s \in Snapshots : 0 < s => 1 \in 0 + 1 .. s
  BY Places DEF Snapshots
<1>2. ~ InBlock(0)
  BY <1>1 DEF InBlock
<1> QED
  BY <1>2 DEF Blocks

\* A message for others does nothing to a document.
LEMMA OthersMessage ==
    ASSUME Types, Receives, NEW k \in Key, Listens(k), ViewKept(k),
           aggregator'[k] = aggregator[k], updates'[k] = updates[k],
           ~ Tells(toClient[1], k),
           ~ (toClient[1].kind = "current" /\ toClient[1].key = k)
    PROVE  ListenStep(k)
<1>1. Live(k, 1) <=> Live(k, 0)
  <2>1. 1 \notin Answers(k)
    BY DEF Answers, Tells
  <2> QED
    BY <2>1, LiveNext
<1>2. Live(k, 0)' <=> Live(k, 1)
  <2>1. 0 \in Nat /\ 0 + 1 = 1
    OBVIOUS
  <2> QED
    BY <2>1, MovesUpOn
<1>3. Live(k, 0)' => ChangeFits(k)'
  BY <1>1, <1>2 DEF Listens, ChangeFits, DocumentChange, Found, ViewKept
<1>4. Told(k, 0)' = Told(k, 0)
  BY DEF Told, ViewKept
<1> QED
  BY <1>3, <1>4 DEF ListenStep, ViewKept, Listens, Requests

LEMMA TargetAddedStream ==
    ASSUME Types, TargetAdded, StreamInv
    PROVE  Receives /\ MessageStep
<1>1. Receives /\ ViewsKept
  BY PublishKept DEF TargetAdded, Receive, Receives
<1>2. PICK k \in Key : /\ k = Head(toClient).key /\ Head(toClient) = toClient[1]
                      /\ toClient[1].kind = "added" /\ toClient[1].key = k
  BY <1>1, ReceiveTypes, MovesUp DEF TargetAdded
<1> DEFINE t == Answered(k)
<1>3. /\ aggregator \in [Key -> Target] /\ UNCHANGED <<updates, lastRemote>>
      /\ aggregator' = [aggregator EXCEPT ![k] = IF t.pending = 0 THEN [t EXCEPT !.change = "None"]
                                                 ELSE t]
  BY <1>2, WatchTyped DEF TargetAdded, disk
<1>4. /\ t.known = TRUE /\ t.pending = aggregator[k].pending - 1
      /\ t.current = aggregator[k].current /\ t \in [known : BOOLEAN, pending : Int,
             current : BOOLEAN, change : {"None", "Added", "Modified", "Removed"}]
  <2>1. aggregator[k] \in Target
    BY <1>2, <1>3
  <2>2. t = [aggregator[k] EXCEPT !.known = TRUE, !.pending = @ - 1]
    BY DEF Answered
  <2>3. t \in Target
    BY <2>1, <2>2, PendingMoves
  <2>4. t.known = TRUE /\ t.pending = aggregator[k].pending - 1 /\ t.current = aggregator[k].current
    BY <2>1, <2>2 DEF Target
  <2> QED
    BY <2>3, <2>4 DEF Target
<1> HIDE DEF t
<1>5. /\ aggregator'[k].known = TRUE /\ aggregator'[k].pending = aggregator[k].pending - 1
      /\ aggregator'[k].current = aggregator[k].current
      /\ aggregator[k].pending = 1 => aggregator'[k].change = "None"
      /\ \A j \in Key \ {k} : aggregator'[j] = aggregator[j]
  <2>1. aggregator'[k] = IF t.pending = 0 THEN [t EXCEPT !.change = "None"] ELSE t
    BY <1>2, <1>3
  <2>2. aggregator[k].pending \in Int
    BY <1>2, <1>3 DEF Target
  <2> QED
    BY <1>2, <1>3, <1>4, <2>1, <2>2
<1>6. IsAnswer(toClient[1]) /\ ~ IsSnapshot(toClient[1])
  BY <1>2 DEF IsAnswer, IsSnapshot
<1>7. \A j \in Key : updates[j] = Invalid
  BY <1>6, NothingWaits DEF StreamInv
<1>8. ASSUME NEW j \in Key, view[j].on
      PROVE  ListenStep(j)
  <2>1. Listens(j) /\ ViewKept(j)
    BY <1>1, <1>2, <1>8 DEF StreamInv, Heard, StreamClosed, NothingHeard, Receives, ViewsKept
  <2>2. CASE j # k
    <3>1. ~ Tells(toClient[1], j)
      BY <1>2, <2>2 DEF Tells, IsSnapshot
    <3> QED
      BY <1>1, <1>2, <1>3, <1>5, <2>1, <2>2, <3>1, OthersMessage
  <2>3. CASE j = k
    <3>1. 1 \in Answers(k)
      BY <1>1, <1>2, <1>6, MovesUp DEF Answers
    <3>2. Live(k, 0)' => aggregator[k].pending = 1
      <4>1. 0 \in Nat /\ 0 + 1 = 1
        OBVIOUS
      <4> QED
        BY <1>1, <1>2, <3>1, <4>1, LastAnswer, MovesUpOn DEF StreamInv
    <3>3. Live(k, 0)' => ChangeFits(k)'
      BY <1>2, <1>3, <1>5, <1>7, <3>2 DEF ChangeFits
    <3>4. Told(k, 0)' = view'[k].token /\ Told(k, 1) = view[k].token
      BY <1>2, <1>3, <1>6, <1>7 DEF Told
    <3>5. Tells(toClient[1], k)
      BY <1>2, <1>6 DEF Tells
    <3> QED
      BY <1>2, <1>5, <2>1, <2>3, <3>3, <3>4, <3>5 DEF ListenStep, ViewKept
  <2> QED
    BY <2>2, <2>3
<1>9. \A j \in Key : view'[j].on = view[j].on
  BY <1>1 DEF ViewsKept, ViewKept
<1> QED
  BY <1>1, <1>2, <1>3, <1>5, <1>6, <1>8, <1>9 DEF MessageStep

LEMMA TargetRemovedStream ==
    ASSUME Types, TargetRemoved, StreamInv
    PROVE  Receives /\ MessageStep
<1>1. Receives /\ ViewsKept
  BY PublishKept DEF TargetRemoved, Receive, Receives
<1>2. PICK k \in Key : /\ k = Head(toClient).key /\ Head(toClient) = toClient[1]
                      /\ toClient[1].kind = "removed" /\ toClient[1].key = k
  BY <1>1, ReceiveTypes, MovesUp DEF TargetRemoved
<1> DEFINE t == Answered(k)
<1>3. /\ aggregator \in [Key -> Target] /\ UNCHANGED <<updates, lastRemote>>
      /\ aggregator' = [aggregator EXCEPT ![k] = IF t.pending = 0 THEN NoTarget ELSE t]
  BY <1>2, WatchTyped DEF TargetRemoved, disk
<1>4. /\ t.known = TRUE /\ t.pending = aggregator[k].pending - 1
      /\ t.current = aggregator[k].current
  BY <1>2, <1>3 DEF Answered, Target
<1> HIDE DEF t
<1>5. /\ aggregator'[k].pending = aggregator[k].pending - 1
      /\ aggregator[k].pending # 1 => aggregator'[k].known = TRUE
                                      /\ aggregator'[k].current = aggregator[k].current
      /\ \A j \in Key \ {k} : aggregator'[j] = aggregator[j]
  <2>1. aggregator'[k] = IF t.pending = 0 THEN NoTarget ELSE t
    BY <1>2, <1>3
  <2>2. aggregator[k].pending \in Int /\ NoTarget.pending = 0
    BY <1>2, <1>3 DEF Target, NoTarget
  <2> QED
    BY <1>2, <1>3, <1>4, <2>1, <2>2
<1>6. IsAnswer(toClient[1]) /\ ~ IsSnapshot(toClient[1])
  BY <1>2 DEF IsAnswer, IsSnapshot
<1>7. \A j \in Key : updates[j] = Invalid
  BY <1>6, NothingWaits DEF StreamInv
<1>8. ASSUME NEW j \in Key, view[j].on
      PROVE  ListenStep(j)
  <2>1. Listens(j) /\ ViewKept(j)
    BY <1>1, <1>2, <1>8 DEF StreamInv, Heard, StreamClosed, NothingHeard, Receives, ViewsKept
  <2>2. CASE j # k
    <3>1. ~ Tells(toClient[1], j)
      BY <1>2, <2>2 DEF Tells, IsSnapshot
    <3> QED
      BY <1>1, <1>2, <1>3, <1>5, <2>1, <2>2, <3>1, OthersMessage
  <2>3. CASE j = k
    <3>1. 1 \in Answers(k)
      BY <1>1, <1>2, <1>6, MovesUp DEF Answers
    <3>2. ~ Live(k, 1)
      BY <1>2, <2>1, <2>3, <3>1 DEF Listens, Requests
    <3>3. aggregator[k].pending # 1
      BY <1>2, <3>1, <3>2, LastAnswer DEF StreamInv
    <3>4. ~ Live(k, 0)'
      <4>1. 0 \in Nat /\ 0 + 1 = 1
        OBVIOUS
      <4> QED
        BY <1>1, <3>2, <4>1, MovesUpOn
    <3> QED
      BY <1>2, <1>5, <2>1, <2>3, <3>2, <3>3, <3>4 DEF ListenStep, ViewKept
  <2> QED
    BY <2>2, <2>3
<1>9. \A j \in Key : view'[j].on = view[j].on
  BY <1>1 DEF ViewsKept, ViewKept
<1> QED
  BY <1>1, <1>2, <1>3, <1>5, <1>6, <1>8, <1>9 DEF MessageStep

LEMMA TargetCurrentStream ==
    ASSUME Types, TargetCurrent, StreamInv
    PROVE  Receives /\ MessageStep
<1>1. Receives /\ ViewsKept
  BY PublishKept DEF TargetCurrent, Receive, Receives
<1>2. PICK k \in Key : /\ k = Head(toClient).key /\ Head(toClient) = toClient[1]
                      /\ toClient[1].kind = "current" /\ toClient[1].key = k
  BY <1>1, ReceiveTypes, MovesUp DEF TargetCurrent
<1>3. /\ aggregator \in [Key -> Target] /\ UNCHANGED <<updates, lastRemote>>
      /\ aggregator' = [aggregator EXCEPT ![k].known = TRUE,
                                          ![k].current = @ \/ IsActiveTarget(k)]
  BY <1>2, WatchTyped DEF TargetCurrent, disk
<1>4. /\ aggregator'[k].known = TRUE /\ aggregator'[k].pending = aggregator[k].pending
      /\ aggregator'[k].change = aggregator[k].change
      /\ aggregator[k].current \/ IsActiveTarget(k) => aggregator'[k].current
      /\ \A j \in Key \ {k} : aggregator'[j] = aggregator[j]
  <2> DEFINE c == aggregator[k].current \/ IsActiveTarget(k)
             t == [aggregator[k] EXCEPT !.known = TRUE, !.current = c]
  <2>1. aggregator' = [aggregator EXCEPT ![k] = t]
    BY <1>2, <1>3
  <2>2. /\ t.known = TRUE /\ t.pending = aggregator[k].pending
        /\ t.change = aggregator[k].change /\ t.current = c
    <3>1. aggregator[k] \in Target
      BY <1>2, <1>3
    <3> HIDE DEF c
    <3> QED
      BY <3>1 DEF Target
  <2>3. aggregator'[k] = t /\ \A j \in Key \ {k} : aggregator'[j] = aggregator[j]
    <3> HIDE DEF t
    <3> QED
      BY <1>2, <1>3, <2>1
  <2>4. c => aggregator'[k].current
    <3> HIDE DEF t, c
    <3> QED
      BY <2>2, <2>3, Zenon
  <2> HIDE DEF t
  <2> QED
    BY <2>2, <2>3, <2>4
<1>5. ~ IsAnswer(toClient[1]) /\ ~ IsSnapshot(toClient[1])
  BY <1>2 DEF IsAnswer, IsSnapshot
<1>6. ASSUME NEW j \in Key, view[j].on
      PROVE  ListenStep(j)
  <2>1. Listens(j) /\ ViewKept(j)
    BY <1>1, <1>2, <1>6 DEF StreamInv, Heard, StreamClosed, NothingHeard, Receives, ViewsKept
  <2>2. ~ Tells(toClient[1], j)
    BY <1>2, <1>5 DEF Tells
  <2>3. CASE j # k
    BY <1>1, <1>2, <1>3, <1>4, <2>1, <2>2, <2>3, OthersMessage
  <2>4. CASE j = k
    <3>1. Live(k, 1) <=> Live(k, 0)
      <4>1. 1 \notin Answers(k)
        BY <1>5 DEF Answers
      <4> QED
        BY <4>1, LiveNext
    <3>2. Live(k, 0)' <=> Live(k, 1)
      <4>1. 0 \in Nat /\ 0 + 1 = 1
        OBVIOUS
      <4> QED
        BY <1>1, <4>1, MovesUpOn
    <3>3. Live(k, 0)' => ChangeFits(k)'
      BY <1>3, <1>4, <2>1, <2>4, <3>1, <3>2 DEF Listens, ChangeFits, DocumentChange, Found, ViewKept
    <3>4. Told(k, 0)' = Told(k, 0)
      BY <1>3, <2>1, <2>4 DEF Told, ViewKept
    <3>5. Live(k, 0) => IsActiveTarget(k)
      BY <1>2, <1>6, <2>4, PendingIsLive DEF StreamInv, IsActiveTarget
    <3>6. Live(k, 0) => aggregator'[k].current
      BY <1>4, <3>5
    <3> QED
      BY <1>4, <2>1, <2>2, <2>4, <3>3, <3>4, <3>6 DEF ListenStep, ViewKept
  <2> QED
    BY <2>3, <2>4
<1>7. \A j \in Key : view'[j].on = view[j].on
  BY <1>1 DEF ViewsKept, ViewKept
<1> QED
  BY <1>1, <1>2, <1>3, <1>4, <1>5, <1>6, <1>7 DEF MessageStep

\* Document d of key k is what the server had at the version d has; of a commit
\* whose document is not known, that it was the last then.
IsTrue(k, d) ==
    /\ d.type \in {"found", "none"} => d.content = ContentAt(k, d.version)
    /\ d.type = "found" <=> d.content # 0
    /\ d.type = "unknown" => d.state = "committed" /\ WrittenAt(k, d.version) = d.version

\* The document says what the server has.
Says(d) == d.type \in {"found", "none"} /\ d.version # 0

DocsTrue ==
    /\ \A k \in Key : IsTrue(k, cache[k])
    /\ \A k \in Key : updates[k] # Invalid => IsTrue(k, updates[k]) /\ Says(updates[k])
    /\ \A i \in DOMAIN toClient : toClient[i].kind = "doc" =>
          IsTrue(toClient[i].key, toClient[i].doc) /\ Says(toClient[i].doc)

LEMMA DocumentChangedStream ==
    ASSUME Types, DocumentChanged, StreamInv, DocsTrue
    PROVE  Receives /\ MessageStep
<1>1. Receives /\ ViewsKept
  BY PublishKept DEF DocumentChanged, Receive, Receives
<1>2. PICK k \in Key : /\ k = Head(toClient).key /\ Head(toClient) = toClient[1]
                      /\ toClient[1].kind = "doc" /\ toClient[1].key = k
  BY <1>1, ReceiveTypes, MovesUp DEF DocumentChanged
<1>3. PICK d : d = toClient[1].doc
  OBVIOUS
<1>4. /\ aggregator \in [Key -> Target] /\ updates \in [Key -> Known] /\ lastRemote' = lastRemote
      /\ IF IsActiveTarget(k)
         THEN /\ aggregator' = [aggregator EXCEPT ![k].known = TRUE,
                                                  ![k].change = DocumentChange(k, d)]
              /\ updates' = [updates EXCEPT ![k] = d]
         ELSE UNCHANGED <<aggregator, updates>>
  BY <1>2, <1>3, WatchTyped DEF DocumentChanged, disk
<1>5. d # Invalid
  BY <1>2, <1>3, MovesUp, <1>1 DEF DocsTrue, Says, Invalid
<1>6. /\ aggregator'[k].pending = aggregator[k].pending
      /\ aggregator[k].known => aggregator'[k].known
      /\ aggregator'[k].current = aggregator[k].current
      /\ IsActiveTarget(k) => /\ aggregator'[k].change = DocumentChange(k, d)
                              /\ updates'[k] = d
      /\ ~ IsActiveTarget(k) => /\ aggregator'[k].change = aggregator[k].change
                                /\ updates'[k] = updates[k]
      /\ \A j \in Key \ {k} : aggregator'[j] = aggregator[j] /\ updates'[j] = updates[j]
  <2> DEFINE c == DocumentChange(k, d)
             t == [aggregator[k] EXCEPT !.known = TRUE, !.change = c]
  <2>1. t.known /\ t.pending = aggregator[k].pending /\ t.current = aggregator[k].current
        /\ t.change = c
    <3>1. aggregator[k] \in Target
      BY <1>4
    <3> HIDE DEF c
    <3> QED
      BY <3>1 DEF Target
  <2>2. CASE IsActiveTarget(k)
    <3>1. aggregator' = [aggregator EXCEPT ![k] = t] /\ updates' = [updates EXCEPT ![k] = d]
      BY <1>4, <2>2
    <3> HIDE DEF t
    <3> QED
      BY <1>4, <2>1, <2>2, <3>1
  <2>3. CASE ~ IsActiveTarget(k)
    BY <1>4, <2>3
  <2> QED
    BY <2>2, <2>3
<1>7. ~ IsAnswer(toClient[1]) /\ ~ IsSnapshot(toClient[1])
  BY <1>2 DEF IsAnswer, IsSnapshot
<1>8. ASSUME NEW j \in Key, view[j].on
      PROVE  ListenStep(j)
  <2>1. Listens(j) /\ ViewKept(j)
    BY <1>1, <1>2, <1>8 DEF StreamInv, Heard, StreamClosed, NothingHeard, Receives, ViewsKept
  <2>2. CASE j # k
    <3>1. ~ Tells(toClient[1], j)
      BY <1>2, <1>7, <2>2 DEF Tells
    <3> QED
      BY <1>1, <1>2, <1>6, <2>1, <2>2, <3>1, OthersMessage
  <2>3. CASE j = k
    <3>1. Live(k, 1) <=> Live(k, 0)
      <4>1. 1 \notin Answers(k)
        BY <1>7 DEF Answers
      <4> QED
        BY <4>1, LiveNext
    <3>2. Live(k, 0)' <=> Live(k, 1)
      <4>1. 0 \in Nat /\ 0 + 1 = 1
        OBVIOUS
      <4> QED
        BY <1>1, <4>1, MovesUpOn
    <3>3. Live(k, 0) <=> IsActiveTarget(k)
      BY <1>2, <1>8, <2>3, PendingIsLive DEF StreamInv, IsActiveTarget
    <3>4. Live(k, 0)' => ChangeFits(k)'
      BY <1>5, <1>6, <2>1, <2>3, <3>1, <3>2, <3>3 DEF ChangeFits, DocumentChange, Found, ViewKept
    <3>5. Live(k, 1) => Told(k, 0)' = Told(k, 1)
      BY <1>2, <1>3, <1>5, <1>6, <1>7, <3>1, <3>3 DEF Told
    <3>6. Tells(toClient[1], k)
      BY <1>2 DEF Tells
    <3> QED
      BY <1>2, <1>6, <2>1, <2>3, <3>4, <3>5, <3>6 DEF ListenStep, ViewKept, Listens, Requests
  <2> QED
    BY <2>2, <2>3
<1>9. \A j \in Key : view'[j].on = view[j].on
  BY <1>1 DEF ViewsKept, ViewKept
<1>10. \A j \in Key : aggregator'[j].pending = aggregator[j].pending
  BY <1>6
<1> QED
  BY <1>1, <1>2, <1>4, <1>7, <1>8, <1>9, <1>10 DEF MessageStep

\* Every snapshot on the stream is raised: none is from the past.
LEMMA SnapshotRaised ==
    ASSUME Types, GlobalSnapshot, StreamInv
    PROVE  /\ Receives /\ IsSnapshot(toClient[1]) /\ 1 \in Snapshots
           /\ toClient[1].version \in 1 .. Clock
           /\ \E aged \in BOOLEAN : RaiseWatchSnapshot(toClient[1].version, aged)
           /\ UNCHANGED <<log, queue, currentUser, acks, stream, sub, toServer>>
<1>1. Receives /\ UNCHANGED <<log, queue, currentUser, acks, stream, sub, toServer>>
  BY DEF GlobalSnapshot, Receive, Receives
<1>2. /\ Head(toClient) = toClient[1] /\ toClient[1].kind = "snapshot"
      /\ toClient[1].version \in 1 .. Clock /\ 1 \in DOMAIN toClient
  BY <1>1, ReceiveTypes, MovesUp DEF GlobalSnapshot
<1>3. 1 \in Snapshots
  BY <1>2 DEF Snapshots, IsSnapshot
<1>4. toClient[1].version >= lastRemote
  <2>1. lastRemote <= toClient[1].version
    BY <1>3 DEF StreamInv, Ordered
  <2>2. lastRemote \in Int /\ toClient[1].version \in Int
    BY <1>2 DEF Types, CacheOK
  <2> QED
    BY <2>1, <2>2
<1> QED
  BY <1>1, <1>2, <1>3, <1>4 DEF GlobalSnapshot, IsSnapshot

LEMMA GlobalSnapshotStream ==
    ASSUME Types, GlobalSnapshot, StreamInv
    PROVE  Receives /\ MessageStep
<1>1. /\ Receives /\ IsSnapshot(toClient[1]) /\ toClient[1].version \in 1 .. Clock
      /\ toClient # << >>
  BY SnapshotRaised DEF Receives
<1>2. PICK v \in 1 .. Clock, aged \in BOOLEAN :
         v = toClient[1].version /\ RaiseWatchSnapshot(v, aged)
  BY SnapshotRaised
<1>3. /\ lastRemote' = v
      /\ aggregator' = [k \in Key |-> IF k \in Changed
                                      THEN [aggregator[k] EXCEPT !.change = "None"]
                                      ELSE aggregator[k]]
      /\ updates' = [k \in Key |-> Invalid]
      /\ Publish(Views(v), NowOnline, gets, listeners)
  BY <1>2, RaiseParts
<1>4. \A k \in Key : /\ aggregator'[k].pending = aggregator[k].pending
                     /\ aggregator'[k].known = aggregator[k].known
                     /\ aggregator'[k].current = aggregator[k].current
                     /\ k \in Changed => aggregator'[k].change = "None"
  BY <1>3, WatchTyped DEF Target
<1>5. \A k \in Key : /\ view'[k].on = view[k].on /\ view'[k].since = view[k].since
                     /\ view'[k].token = IF k \in Changed THEN v ELSE view[k].token
  <2>1. Views(v) \in [Key -> View]
    BY ViewsTypes
  <2>2. \A k \in Key : /\ view'[k].on = Views(v)[k].on /\ view'[k].since = Views(v)[k].since
                       /\ view'[k].token = Views(v)[k].token
    BY <1>3, <2>1, PublishViews, PublishLimbo
  <2> QED
    BY <2>2, ViewsTypes, ViewsLimbo
<1>6. ~ IsAnswer(toClient[1]) /\ toClient[1].kind = "snapshot"
  BY <1>1 DEF IsAnswer, IsSnapshot
<1>7. ASSUME NEW k \in Key, view[k].on
      PROVE  ListenStep(k)
  <2>1. Listens(k)
    BY <1>1, <1>7 DEF StreamInv, Heard, StreamClosed, NothingHeard
  <2>2. Live(k, 1) <=> Live(k, 0)
    <3>1. 1 \notin Answers(k)
      BY <1>6 DEF Answers
    <3> QED
      BY <3>1, LiveNext
  <2>3. Live(k, 0)' <=> Live(k, 1)
    <3>1. 0 \in Nat /\ 0 + 1 = 1
      OBVIOUS
    <3> QED
      BY <1>1, <3>1, MovesUpOn
  <2>4. Live(k, 0) <=> k \in Changed
    BY <1>7, <2>1, PendingIsLive DEF StreamInv, Changed, IsActiveTarget, Listens, Requests
  <2>5. Told(k, 0)' = view'[k].token /\ Told(k, 1) = v
    BY <1>1, <1>2, <1>3 DEF Told
  <2>6. Tells(toClient[1], k)
    BY <1>1 DEF Tells
  <2>7. Live(k, 0)' => ChangeFits(k)'
    BY <1>3, <1>4, <2>2, <2>3, <2>4 DEF ChangeFits
  <2> QED
    BY <1>4, <1>5, <1>6, <2>1, <2>2, <2>4, <2>5, <2>6, <2>7 DEF ListenStep, Listens, Requests
<1> QED
  BY <1>1, <1>2, <1>3, <1>4, <1>5, <1>6, <1>7 DEF MessageStep

-----------------------------------------------------------------------------
(* The server takes a request.                                             *)

\* The first request is answered; a watch is served from its token on.
Answering(k, added) ==
    /\ toServer # << >> /\ toServer' = Tail(toServer) /\ Head(toServer).key = k
    /\ Head(toServer).kind = IF added THEN "watch" ELSE "unwatch"
    /\ toClient' = Append(toClient, [kind |-> IF added THEN "added" ELSE "removed", key |-> k])
    /\ sub' = [sub EXCEPT ![k] = IF added THEN [on |-> TRUE, at |-> Head(toServer).token,
                                               current |-> FALSE]
                                 ELSE NoSub]
    /\ UNCHANGED <<client, log>>

LEMMA RequestAnswered ==
    ASSUME MaxDenials = 0, Types, TakeRequest
    PROVE  \E k \in Key : \E added \in BOOLEAN : Answering(k, added)
<1>1. PICK r : r = Head(toServer)
  OBVIOUS
<1>2. toServer # << >> /\ toServer' = Tail(toServer) /\ UNCHANGED <<client, log>>
  BY DEF TakeRequest
<1>3. r.key \in Key
  <2> DEFINE R == Request
  <2>1. toServer \in Seq(R)
    BY WatchTyped
  <2> HIDE DEF R
  <2>2. r \in R
    BY <1>1, <1>2, <2>1
  <2> QED
    BY <2>2 DEF R, Request
<1>4. ~ Uses("denials")
  <2>1. Limits["denials"] = 0
    BY DEF Limits
  <2>2. bounds["denials"] \in Nat
    BY DEF Types, Counted, Limits
  <2> QED
    BY <2>1, <2>2 DEF Uses
<1>5. \/ /\ r.kind = "watch"
         /\ sub' = [sub EXCEPT ![r.key] = [on |-> TRUE, at |-> r.token, current |-> FALSE]]
         /\ toClient' = Append(toClient, [kind |-> "added", key |-> r.key])
      \/ /\ r.kind = "unwatch"
         /\ sub' = [sub EXCEPT ![r.key] = NoSub]
         /\ toClient' = Append(toClient, [kind |-> "removed", key |-> r.key])
  BY <1>1, <1>4 DEF TakeRequest
<1>6. Answering(r.key, TRUE) \/ Answering(r.key, FALSE)
  BY <1>1, <1>2, <1>5 DEF Answering
<1> QED
  BY <1>3, <1>6

\* The requests move up, and an answer comes last.
LEMMA AnswerLast ==
    ASSUME Types, NEW k \in Key, NEW added \in BOOLEAN, Answering(k, added)
    PROVE  /\ \A j : \A i : i \in Asked(j)' <=> i \in Nat \ {0} /\ i + 1 \in Asked(j)
           /\ \A j : \A i \in Asked(j)' : toServer'[i] = toServer[i + 1]
           /\ \A j : 1 \in Asked(j) <=> j = k
           /\ toServer[1] = Head(toServer)
           /\ DOMAIN toClient' = 1 .. Len(toClient) + 1 /\ Len(toClient') = Len(toClient) + 1
           /\ \A i \in 1 .. Len(toClient) : toClient'[i] = toClient[i]
           /\ toClient'[Len(toClient) + 1].kind = (IF added THEN "added" ELSE "removed")
           /\ toClient'[Len(toClient) + 1].key = k
           /\ \A j : Answers(j)' = IF j = k THEN Answers(j) \cup {Len(toClient) + 1} ELSE Answers(j)
           /\ Snapshots' = Snapshots
<1> DEFINE R == Request
           M == Message
           a == [kind |-> IF added THEN "added" ELSE "removed", key |-> k]
<1>1. toServer \in Seq(R) /\ toClient \in Seq(M)
  BY WatchTyped
<1> HIDE DEF R, M
<1>2. /\ Len(toServer) \in Nat \ {0} /\ DOMAIN toServer = 1 .. Len(toServer)
      /\ DOMAIN toServer' = 1 .. Len(toServer) - 1
      /\ \A i \in 1 .. Len(toServer) - 1 : toServer'[i] = toServer[i + 1]
      /\ toServer[1] = Head(toServer) /\ toServer[1].key = k
  BY <1>1 DEF Answering
<1>3. /\ a.kind = (IF added THEN "added" ELSE "removed") /\ a.key = k
      /\ toClient' = Append(toClient, a)
  BY DEF Answering
<1> HIDE DEF a
<1>4. /\ Len(toClient) \in Nat /\ DOMAIN toClient = 1 .. Len(toClient)
      /\ DOMAIN toClient' = 1 .. Len(toClient) + 1 /\ Len(toClient') = Len(toClient) + 1
      /\ \A i \in 1 .. Len(toClient) : toClient'[i] = toClient[i]
      /\ toClient'[Len(toClient) + 1] = a
  BY <1>1, <1>3
<1>5. /\ \A j : \A i : i \in Asked(j)' <=> i \in Nat \ {0} /\ i + 1 \in Asked(j)
      /\ \A j : \A i \in Asked(j)' : toServer'[i] = toServer[i + 1]
      /\ \A j : 1 \in Asked(j) <=> j = k
  BY <1>2 DEF Asked
<1>6. IsAnswer(a) /\ ~ IsSnapshot(a)
  BY <1>3 DEF IsAnswer, IsSnapshot
<1>7. \A j : Answers(j)' = IF j = k THEN Answers(j) \cup {Len(toClient) + 1} ELSE Answers(j)
  <2> SUFFICES ASSUME NEW j, NEW i
               PROVE  i \in Answers(j)' <=> i \in Answers(j) \/ (j = k /\ i = Len(toClient) + 1)
    OBVIOUS
  <2>1. i \in DOMAIN toClient' <=> i \in DOMAIN toClient \/ i = Len(toClient) + 1
    BY <1>4
  <2> QED
    BY <1>3, <1>4, <1>6, <2>1 DEF Answers
<1>8. Snapshots' = Snapshots
  <2>1. \A i : i \in DOMAIN toClient' <=> i \in DOMAIN toClient \/ i = Len(toClient) + 1
    BY <1>4
  <2>2. \A i : i \in Snapshots' <=> i \in Snapshots
    BY <1>4, <1>6, <2>1 DEF Snapshots
  <2> QED
    BY <2>2
<1> QED
  BY <1>2, <1>3, <1>4, <1>5, <1>7, <1>8

-----------------------------------------------------------------------------
(* The server sends.                                                       *)

\* What is on the stream stays, and more comes after it.
Longer ==
    /\ Len(toClient') \in Nat /\ Len(toClient) <= Len(toClient')
    /\ DOMAIN toClient' = 1 .. Len(toClient')
    /\ \A i \in 1 .. Len(toClient) : toClient'[i] = toClient[i]
    /\ UNCHANGED <<client, log>>

LEMMA LongerKeeps ==
    ASSUME Types, Longer, NEW k
    PROVE  /\ \A p \in 0 .. Len(toClient) : /\ Told(k, p)' = Told(k, p)
                                            /\ Teller(k, p)' <=> Teller(k, p)
           /\ \A p \in Nat : \A q \in 0 .. Len(toClient) : Quiet(k, p, q)' <=> Quiet(k, p, q)
           /\ \A s \in Snapshots : s \in Snapshots' /\ s \in 1 .. Len(toClient)
                                   /\ toClient'[s] = toClient[s]
           /\ \A s \in Snapshots' : s <= Len(toClient) => s \in Snapshots
           /\ \A h, v : Covered(k, h, v)' <=> Covered(k, h, v)
<1>1. /\ Len(toClient) \in Nat /\ Len(toClient') \in Nat /\ Len(toClient) <= Len(toClient')
      /\ DOMAIN toClient' = 1 .. Len(toClient') /\ DOMAIN toClient = 1 .. Len(toClient)
      /\ \A i \in 1 .. Len(toClient) : toClient'[i] = toClient[i]
      /\ updates' = updates /\ view' = view /\ log' = log
  BY Places DEF Longer, client, reader
<1>2. \A p \in 0 .. Len(toClient) : p # 0 => p \in 1 .. Len(toClient) /\ p \in 1 .. Len(toClient')
  BY <1>1
<1>3. \A p \in 0 .. Len(toClient) : Told(k, p)' = Told(k, p) /\ (Teller(k, p)' <=> Teller(k, p))
  BY <1>1, <1>2 DEF Told, Teller
<1>4. \A p \in Nat : \A q \in 0 .. Len(toClient) : Quiet(k, p, q)' <=> Quiet(k, p, q)
  <2>1. \A p \in Nat : \A q \in 0 .. Len(toClient) : \A i \in p + 1 .. q : i \in 1 .. Len(toClient)
    BY <1>1
  <2> QED
    BY <1>1, <2>1 DEF Quiet
<1>5. \A s \in Snapshots : s \in Snapshots' /\ s \in 1 .. Len(toClient) /\ toClient'[s] = toClient[s]
  BY <1>1 DEF Snapshots
<1>6. \A s \in Snapshots' : s <= Len(toClient) => s \in Snapshots
  BY <1>1 DEF Snapshots
<1>7. \A h, v : Covered(k, h, v)' <=> Covered(k, h, v)
  BY <1>1 DEF Covered, ContentAt, WrittenAt
<1> QED
  BY <1>3, <1>4, <1>5, <1>6, <1>7

LEMMA LongerBlocks ==
    ASSUME Types, Longer, NEW p \in Nat, InBlock(p)
    PROVE  InBlock(p)'
<1>1. PICK s \in Snapshots : p < s /\ \A i \in p + 1 .. s : ~ IsAnswer(toClient[i])
  BY DEF InBlock
<1>2. s \in Snapshots' /\ s \in 1 .. Len(toClient) /\ Len(toClient) \in Nat
  BY LongerKeeps, Places
<1>3. \A i \in p + 1 .. s : toClient'[i] = toClient[i]
  BY <1>2 DEF Longer
<1> QED
  BY <1>1, <1>2, <1>3 DEF InBlock

\* What the client had heard of, or was to hear of, it is still to hear of.
LEMMA LongerHears ==
    ASSUME Types, Longer, NEW k \in Key, Hears(k), NEW p \in 0 .. Len(toClient),
           Live(k, p), Teller(k, p)
    PROVE  /\ \A s \in Snapshots : p < s /\ Quiet(k, p, s - 1)' =>
                 Covered(k, Told(k, p), toClient[s].version)'
           /\ Quiet(k, p, Len(toClient))' => sub[k].at = Told(k, p)'
<1>1. Told(k, p)' = Told(k, p) /\ p \in Nat /\ Len(toClient) \in Nat
  <2>1. Told(k, p)' = Told(k, p)
    BY LongerKeeps
  <2> QED
    BY <2>1, Places
<1>2. ASSUME NEW s \in Snapshots, p < s, Quiet(k, p, s - 1)'
      PROVE  Covered(k, Told(k, p), toClient[s].version)'
  <2>1. s \in 1 .. Len(toClient) /\ toClient'[s] = toClient[s] /\ s - 1 \in 0 .. Len(toClient)
    BY <1>1, LongerKeeps
  <2>2. Quiet(k, p, s - 1)
    BY <1>1, <1>2, <2>1, LongerKeeps
  <2>3. Covered(k, Told(k, p), toClient[s].version)
    BY <1>2, <2>2 DEF Hears
  <2> QED
    BY <1>1, <2>1, <2>3, LongerKeeps
<1>3. ASSUME Quiet(k, p, Len(toClient))'
      PROVE  sub[k].at = Told(k, p)'
  <2>1. \A i \in p + 1 .. Len(toClient) : i \in p + 1 .. Len(toClient') /\ toClient'[i] = toClient[i]
    BY <1>1 DEF Longer
  <2>2. Quiet(k, p, Len(toClient))
    BY <1>3, <2>1 DEF Quiet
  <2> QED
    BY <1>1, <2>2 DEF Hears
<1> QED
  BY <1>2, <1>3

\* That a listen is current, too.
LEMMA LongerCurrent ==
    ASSUME Longer, NEW k, \A p \in Nat : Live(k, p)' <=> Live(k, p),
           NEW q \in 0 .. Len(toClient), HeardCurrent(k, q), NEW r \in Nat, q <= r
    PROVE  HeardCurrent(k, r)'
<1>1. CASE Live(k, 0) /\ aggregator[k].current
  BY <1>1 DEF HeardCurrent, Longer, client
<1>2. ASSUME NEW p \in 1 .. q, Live(k, p), toClient[p].kind = "current", toClient[p].key = k
      PROVE  HeardCurrent(k, r)'
  <2>1. p \in 1 .. r /\ Live(k, p)' /\ toClient'[p] = toClient[p]
    BY <1>2 DEF Longer
  <2> QED
    BY <1>2, <2>1 DEF HeardCurrent
<1> QED
  BY <1>1, <1>2 DEF HeardCurrent

\* The last request that is left is the last one there was.
LEMMA RequestsMoveUp ==
    ASSUME Types, NEW k \in Key, NEW added \in BOOLEAN, Answering(k, added), NEW j \in Key
    PROVE  /\ \A i \in Asked(j)' : (\A m \in Asked(j)' : m <= i) =>
                 /\ i + 1 \in Asked(j) /\ \A m \in Asked(j) : m <= i + 1
                 /\ toServer'[i] = toServer[i + 1]
           /\ j # k => (Asked(j)' = {} <=> Asked(j) = {})
           /\ Asked(k)' = {} => Asked(k) = {1}
<1>1. /\ \A i : i \in Asked(j)' <=> i \in Nat \ {0} /\ i + 1 \in Asked(j)
      /\ \A i \in Asked(j)' : toServer'[i] = toServer[i + 1]
      /\ 1 \in Asked(j) <=> j = k
  BY AnswerLast
<1>2. Asked(j) \in SUBSET (1 .. Len(toServer)) /\ Len(toServer) \in Nat
  BY Places
<1>3. \A m \in Asked(j) : m = 1 \/ (m - 1 \in Nat \ {0} /\ (m - 1) + 1 = m /\ m - 1 \in Asked(j)')
  BY <1>1, <1>2
<1>4. ASSUME NEW i \in Asked(j)', \A m \in Asked(j)' : m <= i
      PROVE  i + 1 \in Asked(j) /\ (\A m \in Asked(j) : m <= i + 1) /\ toServer'[i] = toServer[i + 1]
  <2>1. i \in Nat \ {0} /\ i + 1 \in Asked(j) /\ toServer'[i] = toServer[i + 1]
    BY <1>1, <1>4
  <2>2. ASSUME NEW m \in Asked(j) PROVE m <= i + 1
    <3>1. m \in 1 .. Len(toServer) /\ (m = 1 \/ m - 1 \in Asked(j)')
      BY <1>2, <1>3
    <3>2. m - 1 \in Asked(j)' => m - 1 <= i
      BY <1>4
    <3> QED
      BY <2>1, <3>1, <3>2, <1>2
  <2> QED
    BY <2>1, <2>2
<1>5. j # k => (Asked(j)' = {} <=> Asked(j) = {})
  BY <1>1, <1>3
<1>6. Asked(k)' = {} => Asked(k) = {1}
  <2>1. /\ \A i : i \in Asked(k)' <=> i \in Nat \ {0} /\ i + 1 \in Asked(k)
        /\ 1 \in Asked(k)
        /\ Asked(k) \in SUBSET (1 .. Len(toServer)) /\ Len(toServer) \in Nat
    BY AnswerLast, Places
  <2>2. \A m \in Asked(k) : m = 1 \/ m - 1 \in Asked(k)'
    BY <2>1
  <2> QED
    BY <2>1, <2>2
<1> QED
  BY <1>4, <1>5, <1>6

LEMMA AnsweringLonger ==
    ASSUME Types, NEW k \in Key, NEW added \in BOOLEAN, Answering(k, added)
    PROVE  Longer
<1>1. Len(toClient) \in Nat
  BY Places
<1> QED
  BY <1>1, AnswerLast DEF Longer, Answering

\* The answer says nothing of the other documents.
LEMMA OthersAnswer ==
    ASSUME Types, NEW k \in Key, NEW added \in BOOLEAN, Answering(k, added),
           NEW j \in Key, j # k, Listens(j)
    PROVE  Listens(j)'
<1>1. /\ Longer /\ UNCHANGED <<client, log>> /\ view' = view /\ aggregator' = aggregator
      /\ updates' = updates /\ Snapshots' = Snapshots /\ Answers(j)' = Answers(j)
      /\ sub'[j] = sub[j]
  <2>1. UNCHANGED <<client, log>> /\ sub'[j] = sub[j]
    BY WatchTyped DEF Answering
  <2> QED
    BY <2>1, AnsweringLonger, AnswerLast DEF client, reader
<1>2. \A i : Live(j, i)' <=> Live(j, i)
  BY <1>1, RequestsMoveUp DEF Live
<1>3. Len(toClient) \in Nat /\ Len(toClient') = Len(toClient) + 1 /\ Snapshots \subseteq 1 .. Len(toClient)
  BY Places, AnswerLast DEF Snapshots
<1>4. Requests(j)'
  <2>1. ASSUME NEW i \in Asked(j)', \A m \in Asked(j)' : m <= i
        PROVE  toServer'[i] = WatchRequest(j, view[j].token)'
    <3>1. toServer'[i] = WatchRequest(j, view[j].token)
      BY <2>1, RequestsMoveUp DEF Listens, Requests
    <3> QED
      BY <1>1, <3>1 DEF WatchRequest
  <2>2. \A i \in Answers(j) : toClient'[i] = toClient[i]
    BY Places, AnswerLast
  <2>3. Asked(j)' = {} => sub'[j].on
    BY <1>1, RequestsMoveUp DEF Listens, Requests
  <2> QED
    BY <1>1, <1>2, <2>1, <2>2, <2>3 DEF Listens, Requests
<1>5. Hears(j)'
  <2> SUFFICES ASSUME NEW p \in 0 .. Len(toClient'), Live(j, p)', Teller(j, p)'
               PROVE  /\ \A s \in Snapshots' : p < s /\ Quiet(j, p, s - 1)' =>
                            Covered(j, Told(j, p), toClient[s].version)'
                      /\ Quiet(j, p, Len(toClient))' => sub'[j].at = Told(j, p)'
    BY DEF Hears
  <2>1. p # Len(toClient) + 1
    <3>1. ~ Tells(toClient'[Len(toClient) + 1], j)
      BY AnswerLast DEF Tells, IsSnapshot
    <3> QED
      BY <1>3, <3>1 DEF Teller
  <2>2. p \in 0 .. Len(toClient)
    BY <1>3, <2>1
  <2>3. Live(j, p) /\ Teller(j, p)
    BY <1>1, <1>2, <2>2, LongerKeeps
  <2> QED
    BY <1>1, <2>2, <2>3, LongerHears DEF Listens
<1>6. \A s \in Snapshots : toClient'[s] = toClient[s]
  BY <1>3, AnswerLast
<1>7. Currents(j)'
  <2>1. ASSUME NEW q \in 0 .. Len(toClient), HeardCurrent(j, q), NEW r \in Nat, q <= r
        PROVE  HeardCurrent(j, r)'
    BY <1>1, <1>2, <2>1, LongerCurrent
  <2>2. ASSUME NEW s \in Snapshots', Live(j, s)' PROVE HeardCurrent(j, s)'
    <3>1. s \in 0 .. Len(toClient) /\ s \in Nat /\ s \in Snapshots
      BY <1>1, <1>3, <2>2
    <3> QED
      BY <1>2, <2>1, <2>2, <3>1 DEF Listens, Currents
  <2>3. ASSUME Asked(j)' = {}, sub'[j].current PROVE HeardCurrent(j, Len(toClient))'
    <3>1. PICK r \in Nat : r = Len(toClient')
      BY <1>3
    <3>2. HeardCurrent(j, Len(toClient))
      BY <1>1, <2>3, RequestsMoveUp DEF Listens, Currents
    <3>3. HeardCurrent(j, r)'
      BY <1>3, <2>1, <3>1, <3>2
    <3> QED
      BY <3>1, <3>3 DEF HeardCurrent
  <2> QED
    BY <2>2, <2>3 DEF Currents
<1>8. FreshSnapshots(j)'
  BY <1>1, <1>2, <1>6 DEF Listens, FreshSnapshots
<1>9. Live(j, 0)' => ChangeFits(j)'
  BY <1>1, <1>2 DEF Listens, ChangeFits, DocumentChange, Found
<1> QED
  BY <1>4, <1>5, <1>7, <1>8, <1>9 DEF Listens

\* The listen that is answered last starts from the view's token.
LEMMA AnsweredListens ==
    ASSUME Types, NEW k \in Key, NEW added \in BOOLEAN, Answering(k, added), Listens(k)
    PROVE  Listens(k)'
<1>0. PICK n \in Nat : n = Len(toClient)
  BY Places
<1>9. Snapshots \subseteq 1 .. n /\ Answers(k) \subseteq 1 .. n
  BY <1>0, Places DEF Snapshots
<1>1. /\ view' = view /\ aggregator' = aggregator /\ updates' = updates
      /\ Snapshots' = Snapshots /\ n \in Nat /\ n + 1 \in Answers(k)'
      /\ Answers(k)' = Answers(k) \cup {n + 1}
      /\ Answers(k) \subseteq 1 .. n /\ Snapshots \subseteq 1 .. n
      /\ Len(toClient') = n + 1
      /\ toClient'[n + 1].kind = (IF added THEN "added" ELSE "removed")
  <2>1. view' = view /\ aggregator' = aggregator /\ updates' = updates
    BY DEF Answering, client, reader
  <2>2. /\ Snapshots' = Snapshots /\ Answers(k)' = Answers(k) \cup {n + 1}
        /\ Len(toClient') = n + 1
        /\ toClient'[n + 1].kind = (IF added THEN "added" ELSE "removed")
    BY <1>0, AnswerLast
  <2> QED
    BY <1>9, <2>1, <2>2
<1>2. \A i : Live(k, i)' => n + 1 <= i /\ Asked(k)' = {}
  BY <1>1 DEF Live
<1>3. ASSUME Asked(k)' = {}
      PROVE  added /\ sub'[k] = [on |-> TRUE, at |-> view[k].token, current |-> FALSE]
  <2>1. toServer[1] = WatchRequest(k, view[k].token) /\ toServer[1] = Head(toServer)
    <3>1. Asked(k) = {1} /\ toServer[1] = Head(toServer)
      BY <1>3, RequestsMoveUp, AnswerLast
    <3>2. 1 \in Asked(k) /\ \A m \in Asked(k) : m <= 1
      BY <3>1
    <3> QED
      BY <3>1, <3>2 DEF Listens, Requests
  <2>2. Head(toServer).kind = "watch" /\ Head(toServer).token = view[k].token
    BY <2>1 DEF WatchRequest
  <2>3. added
    BY <2>2 DEF Answering
  <2>4. DOMAIN sub = Key
    BY WatchTyped
  <2>5. sub' = [sub EXCEPT ![k] = [on |-> TRUE, at |-> view[k].token, current |-> FALSE]]
    BY <2>2, <2>3 DEF Answering
  <2> QED
    BY <2>3, <2>4, <2>5
<1>4. Requests(k)'
  <2>1. ASSUME NEW i \in Asked(k)', \A m \in Asked(k)' : m <= i
        PROVE  toServer'[i] = WatchRequest(k, view[k].token)'
    <3>1. toServer'[i] = WatchRequest(k, view[k].token)
      BY <2>1, RequestsMoveUp DEF Listens, Requests
    <3> QED
      BY <1>1, <3>1 DEF WatchRequest
  <2>2. Asked(k)' = {} => sub'[k].on
    BY <1>3
  <2>3. ASSUME NEW i \in Answers(k)', Live(k, i)' PROVE toClient'[i].kind = "added"
    <3>1. i = n + 1 /\ added
      BY <1>1, <1>2, <1>3, <2>3
    <3> QED
      BY <1>1, <3>1
  <2> QED
    BY <1>1, <2>1, <2>2, <2>3 DEF Listens, Requests
<1>5. Hears(k)'
  <2> SUFFICES ASSUME NEW p \in 0 .. Len(toClient'), Live(k, p)', Teller(k, p)'
               PROVE  /\ \A s \in Snapshots' : ~ (p < s)
                      /\ sub'[k].at = Told(k, p)'
    BY DEF Hears
  <2>1. p = n + 1 /\ Asked(k)' = {}
    BY <1>1, <1>2
  <2>2. Told(k, n + 1)' = view'[k].token
    <3>1. n + 1 # 0 /\ IsAnswer(toClient'[n + 1]) /\ ~ IsSnapshot(toClient'[n + 1])
      BY <1>1 DEF IsAnswer, IsSnapshot
    <3> QED
      BY <3>1 DEF Told
  <2> QED
    BY <1>1, <1>3, <2>1, <2>2
<1>6. \A s \in Snapshots' : ~ Live(k, s)'
  BY <1>1, <1>2
<1>7. Currents(k)' /\ FreshSnapshots(k)'
  BY <1>3, <1>6 DEF Currents, FreshSnapshots
<1>8. ~ Live(k, 0)'
  BY <1>1, <1>2
<1> QED
  BY <1>4, <1>5, <1>7, <1>8 DEF Listens

LEMMA AnsweringStream ==
    ASSUME Types, StreamInv, NEW k \in Key, NEW added \in BOOLEAN, Answering(k, added)
    PROVE  StreamInv'
<1> DEFINE n == Len(toClient)
<1>1. /\ UNCHANGED <<client, log>> /\ toServer # << >> /\ n \in Nat
      /\ UNCHANGED <<view, stream, aggregator, updates, lastRemote>>
  BY Places DEF Answering, client, reader, disk
<1>2. /\ Snapshots' = Snapshots /\ Snapshots \subseteq 1 .. n /\ n + 1 \notin 1 .. n
      /\ DOMAIN toClient' = 1 .. n + 1 /\ DOMAIN toClient = 1 .. n
      /\ \A i \in 1 .. n : toClient'[i] = toClient[i]
      /\ toClient'[n + 1].kind = (IF added THEN "added" ELSE "removed")
  BY <1>1, AnswerLast, Places DEF Snapshots
<1> HIDE DEF n
<1>3. stream.state = "Open" /\ stream'.state = "Open"
  BY <1>1 DEF StreamInv, StreamClosed, NothingHeard
<1>4. NoErrors' /\ StreamClosed' /\ Ordered'
  <2>1. \A i \in DOMAIN toClient' : i \in DOMAIN toClient \/ i = n + 1
    BY <1>1, <1>2
  <2>2. NoErrors'
    BY <1>2, <2>1 DEF StreamInv, NoErrors
  <2> QED
    BY <1>1, <1>2, <1>3, <2>2 DEF StreamInv, StreamClosed, Ordered
<1>5. Blocks'
  <2>1. \A p \in DOMAIN toClient' : toClient'[p].kind = "doc" =>
           p \in DOMAIN toClient /\ p \in Nat /\ toClient[p].kind = "doc"
    BY <1>1, <1>2
  <2>2. Longer /\ 0 \in Nat
    BY AnsweringLonger
  <2> QED
    BY <1>1, <2>1, <2>2, LongerBlocks DEF StreamInv, Blocks
<1>6. Counts'
  <2> SUFFICES ASSUME NEW j \in Key
               PROVE  aggregator'[j].pending = Cardinality(Asked(j)') + Cardinality(Answers(j)')
    BY DEF Counts
  <2>1. /\ aggregator'[j].pending = Cardinality(Asked(j)) + Cardinality(Answers(j))
        /\ Cardinality(Answers(j)) \in Nat
        /\ IsFiniteSet(Answers(j)) /\ n + 1 \notin Answers(j)
        /\ Asked(j) \in SUBSET (1 .. Len(toServer)) /\ Len(toServer) \in Nat
        /\ \A i : i \in Asked(j)' <=> i \in Nat \ {0} /\ i + 1 \in Asked(j)
        /\ 1 \in Asked(j) <=> j = k
        /\ Answers(j)' = IF j = k THEN Answers(j) \cup {n + 1} ELSE Answers(j)
    BY <1>1, <1>2, Places, AnswerLast DEF StreamInv, Counts, n
  <2>2. /\ Cardinality(Asked(j)) \in Nat
        /\ Cardinality(Asked(j)') = IF j = k THEN Cardinality(Asked(j)) - 1 ELSE Cardinality(Asked(j))
    BY <2>1, Shifted
  <2>3. Cardinality(Answers(j)') = IF j = k THEN Cardinality(Answers(j)) + 1 ELSE Cardinality(Answers(j))
    BY <2>1, FS_AddElement
  <2> QED
    BY <2>1, <2>2, <2>3
<1>7. Heard'
  BY <1>1, <1>3, OthersAnswer, AnsweredListens DEF StreamInv, Heard
<1> QED
  BY <1>4, <1>5, <1>6, <1>7 DEF StreamInv

LEMMA TakeRequestStream ==
    ASSUME MaxDenials = 0, Types, StreamInv, TakeRequest
    PROVE  StreamInv'
  BY RequestAnswered, AnsweringStream

-----------------------------------------------------------------------------
(* The server sends a snapshot.                                            *)

\* What sequence s consists of.
Within(m, s) == \E i \in DOMAIN s : s[i] = m

LEMMA ConcatParts ==
    ASSUME NEW S, NEW a \in Seq(S), NEW b \in Seq(S)
    PROVE  /\ a \o b \in Seq(S)
           /\ \A m : Within(m, a \o b) <=> Within(m, a) \/ Within(m, b)
<1>1. /\ a \o b \in Seq(S) /\ Len(a) \in Nat /\ Len(b) \in Nat
      /\ DOMAIN (a \o b) = 1 .. Len(a) + Len(b) /\ DOMAIN a = 1 .. Len(a) /\ DOMAIN b = 1 .. Len(b)
      /\ \A i \in 1 .. Len(a) : (a \o b)[i] = a[i]
      /\ \A i \in Len(a) + 1 .. Len(a) + Len(b) : (a \o b)[i] = b[i - Len(a)]
  OBVIOUS
<1>2. ASSUME NEW m, Within(m, a \o b)
      PROVE  Within(m, a) \/ Within(m, b)
  <2>1. PICK i \in DOMAIN (a \o b) : (a \o b)[i] = m
    BY <1>2 DEF Within
  <2>2. CASE i <= Len(a)
    BY <1>1, <2>1, <2>2 DEF Within
  <2>3. CASE ~ (i <= Len(a))
    <3>1. i \in Len(a) + 1 .. Len(a) + Len(b) /\ i - Len(a) \in DOMAIN b
      BY <1>1, <2>3
    <3> QED
      BY <1>1, <2>1, <3>1 DEF Within
  <2> QED
    BY <2>2, <2>3
<1>3. ASSUME NEW m, Within(m, a)
      PROVE  Within(m, a \o b)
  <2>1. PICK i \in DOMAIN a : a[i] = m
    BY <1>3 DEF Within
  <2>2. i \in DOMAIN (a \o b) /\ (a \o b)[i] = m
    BY <1>1, <2>1
  <2> QED
    BY <2>2 DEF Within
<1>4. ASSUME NEW m, Within(m, b)
      PROVE  Within(m, a \o b)
  <2>1. PICK i \in DOMAIN b : b[i] = m
    BY <1>4 DEF Within
  <2>2. /\ i + Len(a) \in DOMAIN (a \o b) /\ i + Len(a) \in Len(a) + 1 .. Len(a) + Len(b)
        /\ (i + Len(a)) - Len(a) = i
    BY <1>1, <2>1
  <2>3. (a \o b)[i + Len(a)] = m
    BY <1>1, <2>1, <2>2
  <2> QED
    BY <2>2, <2>3 DEF Within
<1> QED
  BY <1>1, <1>2, <1>3, <1>4

\* A flattened sequence consists of what its sequences consist of.
LEMMA FlattenSeqParts ==
    ASSUME NEW S, NEW seqs \in Seq(Seq(S)), NEW m
    PROVE  Within(m, FlattenSeq(seqs)) <=> \E i \in 1 .. Len(seqs) : Within(m, seqs[i])
<1>1. CASE seqs = << >>
  BY <1>1 DEF FlattenSeq, Within
<1>2. CASE seqs # << >>
  <2>1. PICK n \in Nat \ {0} : n = Len(seqs) /\ \A i \in 1 .. n : seqs[i] \in Seq(S)
    BY <1>2
  <2>2. PICK f : Flattens(f, seqs) /\ FlattenSeq(seqs) = f[n]
    BY <1>2, <2>1, Flattened
  <2>3. f[1] = seqs[1] /\ \A i \in 2 .. n : f[i] = f[i - 1] \o seqs[i]
    BY <2>1, <2>2 DEF Flattens
  <2> DEFINE T == {i \in 0 .. n - 1 : /\ f[i + 1] \in Seq(S)
                                      /\ Within(m, f[i + 1]) <=> \E j \in 1 .. i + 1 : Within(m, seqs[j])}
  <2>4. 0 \in T /\ T \in SUBSET (0 .. n - 1) /\ n - 1 \in Nat
    BY <2>1, <2>3
  <2>5. ASSUME NEW i \in 0 .. (n - 1) - 1, i \in T
        PROVE  i + 1 \in T
    <3>1. i + 1 \in 0 .. n - 1 /\ i + 2 \in 2 .. n /\ i + 2 \in 1 .. n /\ (i + 2) - 1 = i + 1
          /\ i + 1 + 1 = i + 2
      BY <2>1
    <3>2. f[i + 2] = f[i + 1] \o seqs[i + 2]
      BY <2>3, <3>1
    <3>3. /\ f[i + 2] \in Seq(S)
          /\ Within(m, f[i + 2]) <=> Within(m, f[i + 1]) \/ Within(m, seqs[i + 2])
      <4>1. f[i + 1] \in Seq(S) /\ seqs[i + 2] \in Seq(S)
        BY <2>1, <2>5, <3>1
      <4> QED
        BY <3>2, <4>1, ConcatParts
    <3>4. Within(m, f[i + 2]) <=> \E j \in 1 .. i + 2 : Within(m, seqs[j])
      <4>1. \A j : j \in 1 .. i + 2 <=> j \in 1 .. i + 1 \/ j = i + 2
        BY <2>1
      <4> QED
        BY <2>5, <3>3, <4>1
    <3> QED
      BY <3>1, <3>3, <3>4
  <2>6. T = 0 .. n - 1
    <3> HIDE DEF T
    <3> QED
      BY <2>4, <2>5, UpTo
  <2>7. n - 1 \in T
    <3>1. n - 1 \in 0 .. n - 1
      BY <2>1
    <3> HIDE DEF T
    <3> QED
      BY <3>1, <2>6
  <2>8. Within(m, f[n]) <=> \E j \in 1 .. n : Within(m, seqs[j])
    <3>1. (n - 1) + 1 = n
      BY <2>1
    <3> QED
      BY <2>7, <3>1
  <2> QED
    BY <2>1, <2>2, <2>8
<1> QED
  BY <1>1, <1>2

\* What the server says about document k is true and up to date.
News(k, m) ==
    \/ /\ m.kind = "doc" /\ m.key = k
       /\ IsTrue(k, m.doc) /\ Says(m.doc)
       /\ m.doc.version <= Clock /\ WrittenAt(k, Clock) <= m.doc.version
    \/ m.kind = "current" /\ m.key = k

LEMMA NewsOfParts ==
    ASSUME Types, NEW k \in Key
    PROVE  /\ \A m : Within(m, NewsOf(k)) => News(k, m)
           /\ Covered(k, sub[k].at, Clock) \/ \E m : Within(m, NewsOf(k)) /\ m.kind = "doc" /\ m.key = k
           /\ sub[k].current \/ \E m : Within(m, NewsOf(k)) /\ m.kind = "current" /\ m.key = k
<1> DEFINE at      == WrittenAt(k, Clock)
           content == ContentAt(k, Clock)
           found   == [kind |-> "doc", key |-> k, doc |-> FoundDocument(content, at, "synced")]
           gone    == [kind |-> "doc", key |-> k, doc |-> NoDocument(Clock, "synced")]
           current == [kind |-> "current", key |-> k]
           changes == CASE at > sub[k].at /\ content # 0                -> << found >>
                        [] at > sub[k].at /\ content = 0 /\ sub[k].at > 0 -> << gone >>
                        [] OTHER                                        -> << >>
           last    == IF sub[k].current THEN << >> ELSE << current >>
<1>1. NewsOf(k) = changes \o last
  BY DEF NewsOf
<1>2. /\ at \in 0 .. Clock /\ Clock \in Nat \ {0} /\ sub[k].at \in 0 .. Clock
      /\ content \in Content \cup {0}
  BY WrittenAtIs, ContentAtType, LogTyped, WatchTyped DEF Types, Sub
<1>3. /\ found.kind = "doc" /\ found.key = k /\ found.doc = FoundDocument(content, at, "synced")
      /\ gone.kind = "doc" /\ gone.key = k /\ gone.doc = NoDocument(Clock, "synced")
      /\ current.kind = "current" /\ current.key = k
  OBVIOUS
<1>4. at > sub[k].at /\ content # 0 => News(k, found)
  <2>1. ContentAt(k, at) = content
    BY <1>2, WrittenBetween DEF Types
  <2>2. at > sub[k].at => at # 0
    BY <1>2
  <2> QED
    BY <1>2, <1>3, <2>1, <2>2 DEF News, IsTrue, Says, FoundDocument
<1>5. content = 0 => News(k, gone)
  BY <1>2, <1>3 DEF News, IsTrue, Says, NoDocument
<1>6. News(k, current)
  BY <1>3 DEF News
<1> HIDE DEF found, gone, current
<1>7. \A m : Within(m, NewsOf(k)) <=> Within(m, changes) \/ Within(m, last)
  <2> DEFINE S == {found, gone, current}
  <2>1. << >> \in Seq(S) /\ << found >> \in Seq(S) /\ << gone >> \in Seq(S) /\ << current >> \in Seq(S)
    BY Single
  <2>2. changes \in Seq(S) /\ last \in Seq(S)
    <3> HIDE DEF S, at, content
    <3> QED
      BY <2>1
  <2> HIDE DEF changes, last, S
  <2> QED
    BY <1>1, <2>2, ConcatParts
<1>8. \A m, x : Within(x, << m >>) <=> x = m
  BY DEF Within
<1>9. \A x : ~ Within(x, << >>)
  BY DEF Within
<1>10. \A m : Within(m, changes) => (at > sub[k].at /\ content # 0 /\ m = found) \/ (content = 0 /\ m = gone)
  <2> HIDE DEF at, content
  <2> QED
    BY <1>8, <1>9
<1>11. at > sub[k].at /\ (content # 0 \/ sub[k].at > 0) => Within(found, changes) \/ Within(gone, changes)
  <2> HIDE DEF at, content
  <2> QED
    BY <1>8, <1>9
<1>12. /\ \A m : Within(m, last) => m = current
       /\ ~ sub[k].current => Within(current, last)
  BY <1>8, <1>9
<1>13. Covered(k, sub[k].at, Clock) \/ (at > sub[k].at /\ (content # 0 \/ sub[k].at > 0))
  BY <1>2 DEF Covered
<1> HIDE DEF changes, last, at, content
<1> QED
  BY <1>3, <1>4, <1>5, <1>6, <1>7, <1>10, <1>11, <1>12, <1>13

\* The messages of a new snapshot, from the end of the stream on: the news of the
\* documents that are served, and the snapshot itself, the b-th message.
Sends(b) ==
    /\ b = Len(toClient') /\ Len(toClient) < b
    /\ toClient'[b].kind = "snapshot" /\ toClient'[b].version = Clock
    /\ \A i \in Len(toClient) + 1 .. b - 1 : \E k \in Key : News(k, toClient'[i])
    /\ \A k \in Key : sub[k].on => \A m : Within(m, NewsOf(k)) =>
          \E i \in Len(toClient) + 1 .. b - 1 : toClient'[i] = m
    /\ \A k \in Key : sub[k].on => sub'[k].on /\ sub'[k].at = Clock
    /\ Longer /\ toServer' = toServer

LEMMA SnapshotSent ==
    ASSUME Types, SendSnapshot
    PROVE  \E b \in Nat : Sends(b)
<1> DEFINE on == { k \in Key : sub[k].on }
<1>1. PICK n : n = Cardinality(on)
  OBVIOUS
<1>2. n \in Nat
  <2>1. on \subseteq Key
    OBVIOUS
  <2> HIDE DEF on
  <2> QED
    BY <1>1, <2>1, FirestoreReadsAssumption, FS_Subset, FS_CardinalityType, Zenon
<1>3. PICK order \in [1 .. n -> on] :
         /\ \A k \in on : \E i \in DOMAIN order : order[i] = k
         /\ toClient' = toClient \o FlattenSeq([i \in DOMAIN order |-> NewsOf(order[i])])
                        \o << [kind |-> "snapshot", version |-> Clock] >>
  BY <1>1 DEF SendSnapshot
<1>4. /\ sub' = [k \in Key |-> IF k \in on THEN [on |-> TRUE, at |-> Clock, current |-> TRUE]
                               ELSE sub[k]]
      /\ UNCHANGED <<client, log, toServer>>
  BY DEF SendSnapshot
<1>5. on \subseteq Key /\ \A k \in Key : sub[k].on <=> k \in on
  OBVIOUS
<1> HIDE DEF on
<1>6. PICK seqs : seqs = [i \in DOMAIN order |-> NewsOf(order[i])]
  OBVIOUS
<1>7. PICK last : last = [kind |-> "snapshot", version |-> Clock]
  OBVIOUS
<1>8. PICK M : M = Message
  OBVIOUS
<1>9. seqs \in Seq(Seq(M)) /\ Len(seqs) = n /\ \A i \in 1 .. n : seqs[i] = NewsOf(order[i])
  <2>1. \A i \in 1 .. n : NewsOf(order[i]) \in Seq(Message)
    BY <1>3, <1>5, NewsOfType
  <2>2. PICK Z : Z = Seq(M)
    OBVIOUS
  <2>3. seqs = [i \in 1 .. n |-> NewsOf(order[i])] /\ \A i \in 1 .. n : NewsOf(order[i]) \in Z
    BY <1>3, <1>6, <1>8, <2>1, <2>2
  <2>4. seqs \in Seq(Z) /\ Len(seqs) = n /\ \A i \in 1 .. n : seqs[i] = NewsOf(order[i])
    BY <1>2, <2>3
  <2> QED
    BY <2>2, <2>4
<1>10. PICK flat \in Seq(M) :
          /\ flat = FlattenSeq(seqs)
          /\ \A m : Within(m, flat) <=> \E i \in 1 .. n : Within(m, seqs[i])
  BY <1>9, FlattenSeqType, FlattenSeqParts
<1>11. last \in M
  <2>1. Clock \in 1 .. Clock
    BY DEF Types, WritesOK, Clock
  <2> QED
    BY <1>7, <1>8, <2>1 DEF Message
<1>12. toClient' = toClient \o flat \o << last >> /\ toClient \in Seq(M)
  BY <1>3, <1>6, <1>7, <1>8, <1>10, WatchTyped
<1>13. PICK l \in Nat : l = Len(toClient)
  BY <1>12
<1>14. PICK f \in Nat : f = Len(flat) /\ DOMAIN flat = 1 .. f
  BY <1>10
<1>15. /\ Len(toClient') = l + f + 1 /\ DOMAIN toClient' = 1 .. l + f + 1
       /\ \A i \in 1 .. l : toClient'[i] = toClient[i]
       /\ \A i \in 1 .. f : toClient'[l + i] = flat[i]
       /\ toClient'[l + f + 1] = last
  <2> HIDE DEF Clock
  <2> QED
    BY <1>10, <1>11, <1>12, <1>13, <1>14
<1>16. ASSUME NEW i \in l + 1 .. (l + f + 1) - 1
       PROVE  \E k \in Key : News(k, toClient'[i])
  <2>1. i - l \in 1 .. f /\ l + (i - l) = i
    BY <1>13
  <2>2. Within(toClient'[i], flat)
    BY <1>14, <1>15, <2>1 DEF Within
  <2>3. PICK j \in 1 .. n : Within(toClient'[i], NewsOf(order[j]))
    BY <1>9, <1>10, <2>2
  <2>4. order[j] \in Key
    BY <1>3, <1>5
  <2> QED
    BY <2>3, <2>4, NewsOfParts
<1>17. ASSUME NEW k \in Key, sub[k].on, NEW m, Within(m, NewsOf(k))
       PROVE  \E i \in l + 1 .. (l + f + 1) - 1 : toClient'[i] = m
  <2>1. PICK j \in 1 .. n : order[j] = k
    BY <1>3, <1>5, <1>17
  <2>2. Within(m, flat)
    BY <1>9, <1>10, <1>17, <2>1
  <2>3. PICK i \in 1 .. f : flat[i] = m
    BY <1>14, <2>2 DEF Within
  <2>4. l + i \in l + 1 .. (l + f + 1) - 1 /\ toClient'[l + i] = m
    BY <1>15, <2>3
  <2> QED
    BY <2>4
<1>18. last.kind = "snapshot" /\ last.version = Clock
  BY <1>7
<1>19. Longer
  BY <1>4, <1>13, <1>15 DEF Longer
<1>20. \A k \in Key : sub[k].on => sub'[k].on /\ sub'[k].at = Clock
  BY <1>4, <1>5
<1>21. Sends(l + f + 1)
  <2>1. l < l + f + 1
    OBVIOUS
  <2> QED
    BY <1>4, <1>13, <1>15, <1>16, <1>17, <1>18, <1>19, <1>20, <2>1 DEF Sends
<1> QED
  BY <1>21

LEMMA SentMessages ==
    ASSUME Types, NEW b \in Nat, Sends(b)
    PROVE  /\ \A i \in Len(toClient) + 1 .. b : /\ toClient'[i].kind \in {"doc", "current", "snapshot"}
                                                /\ toClient'[i].kind = "snapshot" <=> i = b
           /\ Snapshots' = Snapshots \cup {b} /\ Snapshots \subseteq 1 .. Len(toClient)
           /\ \A k : /\ Asked(k)' = Asked(k) /\ Answers(k)' = Answers(k)
                     /\ \A i : Live(k, i)' <=> Live(k, i)
<1>1. PICK n \in Nat : n = Len(toClient) /\ DOMAIN toClient = 1 .. n
  BY Places
<1>2. /\ n < b /\ DOMAIN toClient' = 1 .. b /\ toServer' = toServer
      /\ \A i \in 1 .. n : toClient'[i] = toClient[i]
      /\ toClient'[b].kind = "snapshot"
      /\ \A i \in n + 1 .. b - 1 : \E k \in Key : News(k, toClient'[i])
  BY <1>1 DEF Sends, Longer
<1>3. \A i \in n + 1 .. b - 1 : toClient'[i].kind \in {"doc", "current"}
  BY <1>2 DEF News
<1>4. \A i \in n + 1 .. b : i = b \/ i \in n + 1 .. b - 1
  OBVIOUS
<1>5. \A i \in n + 1 .. b : /\ toClient'[i].kind \in {"doc", "current", "snapshot"}
                            /\ toClient'[i].kind = "snapshot" <=> i = b
  BY <1>2, <1>3, <1>4
<1>6. \A i : i \in 1 .. b <=> i \in 1 .. n \/ i \in n + 1 .. b
  BY <1>2
<1>7. Snapshots' = Snapshots \cup {b} /\ Snapshots \subseteq 1 .. n
  <2>1. \A i : i \in Snapshots' <=> i \in Snapshots \/ i = b
    BY <1>1, <1>2, <1>5, <1>6 DEF Snapshots, IsSnapshot
  <2> QED
    BY <1>1, <2>1 DEF Snapshots
<1>8. \A k : Asked(k)' = Asked(k)
  BY <1>2 DEF Asked
<1>9. \A k : Answers(k)' = Answers(k)
  <2>1. \A i \in n + 1 .. b : ~ IsAnswer(toClient'[i])
    BY <1>5 DEF IsAnswer
  <2>2. \A k : \A i : i \in Answers(k)' <=> i \in Answers(k)
    BY <1>1, <1>2, <1>6, <2>1 DEF Answers
  <2> QED
    BY <2>2
<1>10. \A k : \A i : Live(k, i)' <=> Live(k, i)
  BY <1>8, <1>9 DEF Live
<1> QED
  BY <1>1, <1>5, <1>7, <1>8, <1>9, <1>10

\* A message of the snapshot is about the listens that are open.
LEMMA SentIsLive ==
    ASSUME Types, NEW k, Asked(k) = {}, NEW i \in Nat, Len(toClient) <= i
    PROVE  Live(k, i)
<1>1. Answers(k) \in SUBSET (1 .. Len(toClient)) /\ Len(toClient) \in Nat
  BY Places
<1> QED
  BY <1>1 DEF Live

\* The snapshot leaves out no document that has changed.
LEMMA SentHears ==
    ASSUME Types, NEW b \in Nat, Sends(b), NEW k \in Key, Listens(k)
    PROVE  Hears(k)'
<1>1. PICK n \in Nat : n = Len(toClient)
  BY Places
<1>2. /\ n < b /\ b = Len(toClient') /\ toClient'[b].version = Clock /\ IsSnapshot(toClient'[b])
      /\ Snapshots' = Snapshots \cup {b} /\ Snapshots \subseteq 1 .. n
      /\ \A i \in n + 1 .. b : toClient'[i].kind = "snapshot" <=> i = b
  BY <1>1, SentMessages DEF Sends, IsSnapshot
<1>3. Clock \in Nat \ {0} /\ Clock' = Clock /\ WrittenAt(k, Clock) \in 0 .. Clock
      /\ \A h, v : Covered(k, h, v)' <=> Covered(k, h, v)
  <2>1. Longer /\ log' = log
    BY DEF Sends, Longer
  <2> QED
    BY <2>1, LongerKeeps, LogTyped, WrittenAtIs DEF Types, Clock
<1> SUFFICES ASSUME NEW p \in 0 .. Len(toClient'), Live(k, p)', Teller(k, p)'
             PROVE  /\ \A s \in Snapshots' : p < s /\ Quiet(k, p, s - 1)' =>
                          Covered(k, Told(k, p), toClient[s].version)'
                    /\ Quiet(k, p, Len(toClient))' => sub'[k].at = Told(k, p)'
  BY DEF Hears
<1>4. Live(k, p) /\ Asked(k) = {} /\ sub[k].on /\ sub'[k].at = Clock
  <2>1. Live(k, p)
    BY SentMessages
  <2>2. Asked(k) = {}
    BY <2>1 DEF Live
  <2>3. sub[k].on
    BY <2>2 DEF Listens, Requests
  <2> QED
    BY <2>1, <2>2, <2>3 DEF Sends
<1>5. p < b => ~ Quiet(k, p, Len(toClient))'
  BY <1>2 DEF Quiet, Tells
<1>6. CASE p \in 0 .. n
  <2>1. Teller(k, p) /\ Told(k, p)' = Told(k, p) /\ p \in Nat /\ p < b
    <3>1. Longer /\ p \in 0 .. Len(toClient)
      BY <1>1, <1>6 DEF Sends
    <3>2. Teller(k, p) /\ Told(k, p)' = Told(k, p)
      BY <3>1, LongerKeeps
    <3> QED
      BY <1>2, <1>6, <3>2
  <2>2. ASSUME Quiet(k, p, b - 1)'
        PROVE  Covered(k, Told(k, p), Clock)
    <3>1. Quiet(k, p, n)
      <4>1. Quiet(k, p, n)'
        BY <1>2, <2>2 DEF Quiet
      <4>2. n \in 0 .. Len(toClient) /\ Longer
        BY <1>1 DEF Sends
      <4> QED
        BY <2>1, <4>1, <4>2, LongerKeeps
    <3>2. sub[k].at = Told(k, p)
      BY <1>1, <1>4, <1>6, <2>1, <3>1 DEF Listens, Hears
    <3>3. ASSUME NEW m, Within(m, NewsOf(k)), m.kind = "doc", m.key = k
          PROVE  FALSE
      <4>1. PICK i \in n + 1 .. b - 1 : toClient'[i] = m
        BY <1>1, <1>4, <3>3 DEF Sends
      <4>2. i \in p + 1 .. b - 1
        BY <1>6, <4>1
      <4> QED
        BY <2>2, <3>3, <4>1, <4>2 DEF Quiet, Tells
    <3>4. Covered(k, sub[k].at, Clock)
      BY <3>3, NewsOfParts
    <3> QED
      BY <3>2, <3>4
  <2>3. ASSUME NEW s \in Snapshots, p < s, Quiet(k, p, s - 1)'
        PROVE  Covered(k, Told(k, p), toClient[s].version)'
    <3>1. Longer /\ Hears(k) /\ p \in 0 .. Len(toClient)
      BY <1>1, <1>6 DEF Sends, Listens
    <3> QED
      BY <1>4, <2>1, <2>3, <3>1, LongerHears
  <2>4. Quiet(k, p, b - 1)' => Covered(k, Told(k, p), toClient[b].version)'
    <3>1. toClient'[b].version = Clock
      BY <1>2
    <3>2. Quiet(k, p, b - 1)' => Covered(k, Told(k, p)', Clock)
      BY <2>1, <2>2
    <3> QED
      BY <1>3, <3>1, <3>2 DEF Covered
  <2> QED
    BY <1>2, <1>5, <2>1, <2>3, <2>4
<1>7. CASE p \in n + 1 .. b - 1
  <2>1. p \in Nat /\ p # 0 /\ p < b /\ \A s \in Snapshots' : p < s => s = b
    BY <1>2, <1>7
  <2>2. toClient'[p].kind = "doc" /\ toClient'[p].key = k
    <3>1. PICK j \in Key : News(j, toClient'[p])
      BY <1>1, <1>7 DEF Sends
    <3>2. ~ IsSnapshot(toClient'[p]) /\ ~ IsAnswer(toClient'[p])
      BY <3>1 DEF News, IsSnapshot, IsAnswer
    <3> QED
      BY <2>1, <3>2 DEF Teller, Tells
  <2>3. Told(k, p)' = toClient'[p].doc.version
    BY <2>1, <2>2 DEF Told, IsSnapshot, IsAnswer
  <2>4. toClient'[p].doc.version <= Clock /\ WrittenAt(k, Clock) <= toClient'[p].doc.version
    <3>1. PICK j \in Key : News(j, toClient'[p])
      BY <1>1, <1>7 DEF Sends
    <3> QED
      BY <2>2, <3>1 DEF News
  <2>5. Covered(k, Told(k, p)', Clock)
    BY <2>3, <2>4 DEF Covered
  <2>6. Covered(k, Told(k, p), toClient[b].version)'
    BY <1>2, <1>3, <2>5 DEF Covered
  <2> QED
    BY <1>5, <2>1, <2>6
<1>8. CASE p = b
  <2>1. \A s \in Snapshots' : ~ (p < s)
    BY <1>2, <1>8
  <2>2. Told(k, p)' = Clock
    BY <1>2, <1>8 DEF Told
  <2> QED
    BY <1>4, <2>1, <2>2
<1> QED
  BY <1>2, <1>6, <1>7, <1>8

LEMMA SentListens ==
    ASSUME Types, NEW b \in Nat, Sends(b), NEW k \in Key, Listens(k)
    PROVE  Listens(k)'
<1>1. PICK n \in Nat : n = Len(toClient)
  BY Places
<1>2. /\ n < b /\ b = Len(toClient') /\ toClient'[b].version = Clock
      /\ Snapshots' = Snapshots \cup {b} /\ Snapshots \subseteq 1 .. n
      /\ Asked(k)' = Asked(k) /\ Answers(k)' = Answers(k) /\ toServer' = toServer
      /\ \A i \in 1 .. n : toClient'[i] = toClient[i]
      /\ Longer
  BY <1>1, SentMessages DEF Sends, Longer
<1>3. \A i : Live(k, i)' <=> Live(k, i)
  BY SentMessages
<1>4. view' = view /\ aggregator' = aggregator /\ updates' = updates
  BY <1>2 DEF Longer, client, reader
<1>5. Asked(k) = {} => sub[k].on /\ sub'[k].on
  BY DEF Listens, Requests, Sends
<1>6. Requests(k)'
  <2>1. \A i \in Answers(k) : toClient'[i] = toClient[i]
    BY <1>1, <1>2, Places
  <2>2. WatchRequest(k, view[k].token)' = WatchRequest(k, view[k].token)
    BY <1>4 DEF WatchRequest
  <2> QED
    BY <1>2, <1>3, <1>4, <1>5, <2>1, <2>2 DEF Listens, Requests
<1>7. ASSUME Asked(k) = {}
      PROVE  HeardCurrent(k, b)'
  <2>1. CASE sub[k].current
    <3>1. HeardCurrent(k, n) /\ n \in 0 .. Len(toClient) /\ n <= b
      BY <1>1, <1>2, <1>7, <2>1 DEF Listens, Currents
    <3> QED
      BY <1>2, <1>3, <3>1, LongerCurrent
  <2>2. CASE ~ sub[k].current
    <3>1. PICK m : Within(m, NewsOf(k)) /\ m.kind = "current" /\ m.key = k
      BY <2>2, NewsOfParts
    <3>2. PICK i \in n + 1 .. b - 1 : toClient'[i] = m
      BY <1>1, <1>5, <1>7, <3>1 DEF Sends
    <3>3. i \in 1 .. b /\ i \in Nat /\ Len(toClient) <= i
      BY <1>1, <3>2
    <3>4. Live(k, i)'
      BY <1>3, <1>7, <3>3, SentIsLive
    <3>5. \E j \in 1 .. b : Live(k, j)' /\ toClient'[j].kind = "current" /\ toClient'[j].key = k
      BY <3>1, <3>2, <3>3, <3>4
    <3> QED
      BY <3>5 DEF HeardCurrent
  <2> QED
    BY <2>1, <2>2
<1>8. Currents(k)'
  <2>1. ASSUME NEW s \in Snapshots', Live(k, s)' PROVE HeardCurrent(k, s)'
    <3>1. CASE s = b
      BY <1>3, <1>7, <2>1, <3>1 DEF Live
    <3>2. CASE s # b
      <4>1. s \in Snapshots /\ s \in 0 .. Len(toClient) /\ s \in Nat
        <5>1. s \in Snapshots
          <6>1. s \in Snapshots \cup {b}
            BY <1>2, <2>1
          <6> QED
            BY <6>1, <3>2
        <5>2. s \in 1 .. n
          <6>1. Snapshots \subseteq 1 .. n
            BY <1>2
          <6> QED
            BY <6>1, <5>1
        <5>3. s \in 0 .. n /\ s \in Nat
          BY <1>1, <5>2
        <5> QED
          BY <1>1, <5>1, <5>3
      <4>2. HeardCurrent(k, s)
        BY <1>3, <2>1, <4>1 DEF Listens, Currents
      <4> QED
        BY <1>2, <1>3, <4>1, <4>2, LongerCurrent
    <3> QED
      BY <3>1, <3>2
  <2>2. Asked(k)' = {} => HeardCurrent(k, Len(toClient))'
    <3>1. Asked(k)' = {} => HeardCurrent(k, b)'
      BY <1>2, <1>7
    <3> QED
      BY <1>2, <3>1 DEF HeardCurrent
  <2> QED
    BY <2>1, <2>2 DEF Currents
<1>9. FreshSnapshots(k)'
  <2>1. view[k].since \in 0 .. Clock /\ Clock \in Nat
    BY ReaderTyped, LogTyped DEF View, Types
  <2>2. \A s \in Snapshots : toClient'[s] = toClient[s]
    BY <1>2
  <2>3. \A s \in Snapshots : Live(k, s) => view[k].since <= toClient[s].version
    BY DEF Listens, FreshSnapshots
  <2>4. ASSUME NEW s \in Snapshots', Live(k, s)' PROVE view'[k].since <= toClient'[s].version
    <3>1. view[k].since <= Clock
      BY <2>1
    <3>2. CASE s = b
      BY <1>2, <1>4, <3>1, <3>2
    <3>3. CASE s # b
      <4>1. s \in Snapshots /\ Live(k, s)
        BY <1>2, <1>3, <2>4, <3>3
      <4> QED
        BY <1>4, <2>2, <2>3, <4>1
    <3> QED
      BY <3>2, <3>3
  <2> QED
    BY <2>4 DEF FreshSnapshots
<1>10. Live(k, 0)' => ChangeFits(k)'
  BY <1>3, <1>4 DEF Listens, ChangeFits, DocumentChange, Found
<1> QED
  BY <1>6, <1>8, <1>9, <1>10, SentHears DEF Listens

LEMMA SendSnapshotStream ==
    ASSUME Types, StreamInv, SendSnapshot
    PROVE  StreamInv'
<1>1. PICK b \in Nat : Sends(b)
  BY SnapshotSent
<1>2. PICK n \in Nat : n = Len(toClient) /\ DOMAIN toClient = 1 .. n
  BY Places
<1>3. /\ n < b /\ b = Len(toClient') /\ toClient'[b].version = Clock
      /\ Snapshots' = Snapshots \cup {b} /\ Snapshots \subseteq 1 .. n
      /\ DOMAIN toClient' = 1 .. b /\ toServer' = toServer
      /\ \A i \in 1 .. n : toClient'[i] = toClient[i]
      /\ \A i \in n + 1 .. b : toClient'[i].kind \in {"doc", "current", "snapshot"}
      /\ Longer
  BY <1>1, <1>2, SentMessages DEF Sends, Longer
<1>4. /\ \A k : Asked(k)' = Asked(k) /\ Answers(k)' = Answers(k)
      /\ UNCHANGED <<view, stream, aggregator, updates, lastRemote>>
  BY <1>1, <1>3, SentMessages DEF Longer, client, reader, disk
<1>5. \A i : i \in 1 .. b <=> i \in 1 .. n \/ i \in n + 1 .. b
  BY <1>3
<1>6. stream.state = "Open" /\ stream'.state = "Open"
  <2>1. \E k \in Key : sub[k].on
    BY DEF SendSnapshot
  <2>2. ~ NoSub.on
    BY DEF NoSub
  <2> QED
    BY <1>4, <2>1, <2>2 DEF StreamInv, StreamClosed, NothingHeard
<1>7. NoErrors' /\ StreamClosed' /\ Counts'
  <2>1. NoErrors'
    BY <1>2, <1>3, <1>5 DEF StreamInv, NoErrors
  <2>2. Counts'
    BY <1>4 DEF StreamInv, Counts
  <2> QED
    BY <1>6, <2>1, <2>2 DEF StreamClosed
<1>8. Ordered'
  <2>1. /\ \A i \in Snapshots : toClient[i].version \in Nat /\ toClient[i].version <= Clock
        /\ lastRemote \in Nat /\ lastRemote <= Clock /\ Clock \in Nat
    BY MessageTypes, LogTyped DEF Snapshots, IsSnapshot, Types, CacheOK
  <2>2. \A i \in Snapshots : toClient'[i] = toClient[i] /\ i < b
    BY <1>3
  <2>3. \A i \in Snapshots' : lastRemote' <= toClient'[i].version
    BY <1>3, <1>4, <2>1, <2>2 DEF StreamInv, Ordered
  <2>4. \A i, j \in Snapshots' : i < j => toClient'[i].version <= toClient'[j].version
    <3>1. ASSUME NEW i \in Snapshots', NEW j \in Snapshots', i < j
          PROVE  toClient'[i].version <= toClient'[j].version
      <4>1. i \in Snapshots
        BY <1>3, <2>2, <3>1
      <4>2. CASE j = b
        BY <1>3, <2>1, <2>2, <4>1, <4>2
      <4>3. CASE j # b
        BY <1>3, <2>2, <3>1, <4>1, <4>3 DEF StreamInv, Ordered
      <4> QED
        BY <4>2, <4>3
    <3> QED
      BY <3>1
  <2> QED
    BY <2>3, <2>4 DEF Ordered
<1>9. Blocks'
  <2>1. ASSUME NEW p \in n + 1 .. b, toClient'[p].kind = "doc"
        PROVE  InBlock(p)'
    <3>1. p < b
      <4>1. toClient'[b].kind = "snapshot"
        BY <1>1 DEF Sends
      <4> QED
        BY <2>1, <4>1
    <3>2. b \in Snapshots' /\ \A i \in p + 1 .. b : ~ IsAnswer(toClient'[i])
      BY <1>3 DEF IsAnswer
    <3> QED
      BY <3>1, <3>2 DEF InBlock
  <2>2. ASSUME NEW p \in 1 .. n, toClient'[p].kind = "doc"
        PROVE  InBlock(p)'
    <3>1. InBlock(p)
      BY <1>2, <1>3, <2>2 DEF StreamInv, Blocks
    <3> QED
      BY <1>3, <3>1, LongerBlocks
  <2>3. (\E k \in Key : updates'[k] # Invalid) => InBlock(0)'
    <3>1. 0 \in Nat
      OBVIOUS
    <3> QED
      BY <1>3, <1>4, <3>1, LongerBlocks DEF StreamInv, Blocks
  <2> QED
    BY <1>3, <1>5, <2>1, <2>2, <2>3 DEF Blocks
<1>10. Heard'
  BY <1>1, <1>4, <1>6, SentListens DEF StreamInv, Heard
<1> QED
  BY <1>7, <1>8, <1>9, <1>10 DEF StreamInv

-----------------------------------------------------------------------------
(* The views and the stream in a step.                                     *)

\* A get opens the view of its document, or is the last to leave it.
Opening(g) == AddQueryListener(g) /\ ~ view[gets[g].key].on
Closing(g) == RemoveQueryListener(g) /\ listeners[gets[g].key] = {g}

\* All the other steps of the app, of the network and of the server.
Plain ==
    /\ \A g \in Get : ~ Opening(g) /\ ~ Closing(g)
    /\ ~ Restart /\ ~ TargetError /\ ~ GlobalSnapshot

\* Only the server writes to its log.
LEMMA LogStays ==
    ASSUME [Next]_vars, ~ CommitWrite, ~ OtherCommit
    PROVE  log' = log
<1>1. ASSUME NEW g \in Get, AddQueryListener(g) \/ RemoveQueryListener(g)
      PROVE  UNCHANGED log
  BY <1>1 DEF AddQueryListener, RemoveQueryListener
<1>2. CASE OnWatchStreamOpen \/ OnWatchStreamClose \/ OnConnectivityChange
  BY <1>2 DEF OnWatchStreamOpen, OnWatchStreamClose, OnConnectivityChange
<1>3. CASE TargetAdded \/ TargetRemoved \/ TargetCurrent \/ TargetError \/ DocumentChanged
           \/ GlobalSnapshot
  BY <1>3 DEF TargetAdded, TargetRemoved, TargetCurrent, TargetError, DocumentChanged, GlobalSnapshot
<1>4. CASE Timer
  BY <1>4 DEF Timer, OnlineStateTimeout, BackoffTimeout, IdleTimeout
<1>5. CASE WriteMutations \/ HandleRejectedWrite \/ HandleSuccessfulWrite
  BY <1>5 DEF WriteMutations, HandleRejectedWrite, HandleSuccessfulWrite
<1>6. ASSUME NEW u \in User, HandleCredentialChange(u) PROVE UNCHANGED log
  BY <1>6 DEF HandleCredentialChange
<1>7. CASE Restart
  BY <1>7 DEF Restart
<1>8. CASE LoseAnswers \/ TakeRequest \/ SendSnapshot
  BY <1>8 DEF LoseAnswers, TakeRequest, SendSnapshot
<1>9. CASE UNCHANGED vars
  BY <1>9 DEF vars
<1> QED
  BY <1>1, <1>2, <1>3, <1>4, <1>5, <1>6, <1>7, <1>8, <1>9 DEF Next, OnWatchStreamChange

LEMMA AppendKept ==
    ASSUME Types, NEW c, log' = Append(log, c)
    PROVE  LogKept
<1>1. Len(log) \in Nat /\ log \in Seq(Commit)
  BY DEF Types, WritesOK
<1>2. Len(log') = Len(log) + 1 /\ \A j \in 1 .. Len(log) : log'[j] = log[j]
  BY <1>1
<1> QED
  BY <1>1, <1>2 DEF LogKept

LEMMA LogNext ==
    ASSUME Types, [Next]_vars
    PROVE  LogKept
<1>1. CASE CommitWrite
  <2>1. \E c : log' = Append(log, c)
    BY <1>1 DEF CommitWrite
  <2> QED
    BY <2>1, AppendKept
<1>2. CASE OtherCommit
  <2>1. \E c : log' = Append(log, c)
    BY <1>2 DEF OtherCommit
  <2> QED
    BY <2>1, AppendKept
<1>3. CASE ~ CommitWrite /\ ~ OtherCommit
  <2>1. log' = log /\ Len(log) \in Nat
    BY <1>3, LogStays, LogTyped DEF Types
  <2> QED
    BY <2>1 DEF LogKept
<1> QED
  BY <1>1, <1>2, <1>3

LEMMA SameViews ==
    ASSUME view' = view
    PROVE  ViewsKept
  BY DEF ViewsKept, ViewKept

LEMMA CredentialViews ==
    ASSUME Types, NEW u \in User, HandleCredentialChange(u)
    PROVE  ViewsKept
<1>1. \E o : Publish(IF u = currentUser THEN view ELSE Emit(ChangedByUser(u), cache, queue[u]),
                     o, gets, listeners)
  BY DEF HandleCredentialChange, RestartNetwork
<1>2. queue[u] \in Seq(Mutation)
  BY DEF Types, WritesOK
<1>3. CASE u = currentUser
  BY <1>1, <1>3, PublishKept
<1>4. CASE u # currentUser
  <2>1. \E o : Publish(Emit(ChangedByUser(u), cache, queue[u]), o, gets, listeners)
    BY <1>1, <1>4
  <2> QED
    BY <1>2, <2>1, CacheTyped, EmitKept
<1> QED
  BY <1>3, <1>4

LEMMA WriteViews ==
    ASSUME Types, WriteMutations \/ HandleSuccessfulWrite \/ HandleRejectedWrite
    PROVE  ViewsKept
<1>1. CASE WriteMutations
  <2>1. PICK op \in {"set", "update", "delete"}, k \in Key :
           /\ Uses("writes")
           /\ Publish(Emit({k}, cache, Append(queue[currentUser],
                               [no |-> bounds'["writes"], op |-> op, key |-> k])),
                      online, gets, listeners)
    BY <1>1 DEF WriteMutations
  <2>2. PICK m : m = [no |-> bounds'["writes"], op |-> op, key |-> k]
    OBVIOUS
  <2>3. m \in Mutation
    <3>1. bounds'["writes"] \in 1 .. MaxWrites
      BY <2>1, UsesCounts DEF Types, Limits
    <3> QED
      BY <2>2, <3>1 DEF Mutation
  <2>4. queue[currentUser] \in Seq(Mutation)
    BY DEF Types, WritesOK
  <2>5. Append(queue[currentUser], m) \in Seq(Mutation)
    BY <2>3, <2>4
  <2>6. Publish(Emit({k}, cache, Append(queue[currentUser], m)), online, gets, listeners)
    BY <2>1, <2>2
  <2> QED
    BY <2>5, <2>6, CacheTyped, EmitKept
<1>2. CASE HandleSuccessfulWrite
  <2> DEFINE m == Head(queue[currentUser])
             q == Tail(queue[currentUser])
             c == [cache EXCEPT ![m.key] = ApplyBatchResult(@, m, Head(acks))]
  <2>1. acks # << >> /\ Publish(Emit({m.key}, c, q), online, gets, listeners)
    BY <1>2 DEF HandleSuccessfulWrite
  <2>2. Head(acks) \in 1 .. Clock /\ m \in Mutation /\ m.key \in Key /\ q \in Seq(Mutation)
    BY <2>1, AcksAwaited, HeadTypes
  <2> HIDE DEF m, q
  <2>3. c \in [Key -> Known]
    BY <2>2, CacheTyped, BatchResultType
  <2> HIDE DEF c
  <2> QED
    BY <2>1, <2>2, <2>3, EmitKept
<1>3. CASE HandleRejectedWrite
  <2> DEFINE m == Head(queue[currentUser])
             q == Tail(queue[currentUser])
  <2>1. queue[currentUser] # << >> /\ Publish(Emit({m.key}, cache, q), online, gets, listeners)
    BY <1>3 DEF HandleRejectedWrite
  <2>2. q \in Seq(Mutation)
    BY <2>1, HeadTypes
  <2> HIDE DEF m, q
  <2> QED
    BY <2>1, <2>2, CacheTyped, EmitKept
<1> QED
  BY <1>1, <1>2, <1>3

\* The plain steps leave the views what they were.
LEMMA PlainViews ==
    ASSUME Types, [Next]_vars, Plain
    PROVE  ViewsKept
<1>1. ASSUME NEW g \in Get, AddQueryListener(g) PROVE ViewsKept
  <2>1. view[gets[g].key].on
    BY <1>1 DEF Plain, Opening
  <2>2. \E o, calls, heard : Publish(view, o, calls, heard)
    BY <1>1, <2>1 DEF AddQueryListener
  <2> QED
    BY <2>2, PublishKept
<1>2. ASSUME NEW g \in Get, RemoveQueryListener(g) PROVE ViewsKept
  <2>1. listeners[gets[g].key] # {g}
    BY <1>2 DEF Plain, Closing
  <2>2. \E o, calls, heard : Publish(view, o, calls, heard)
    BY <1>2, <2>1 DEF RemoveQueryListener
  <2> QED
    BY <2>2, PublishKept
<1>3. CASE OnWatchStreamOpen \/ BackoffTimeout \/ UNCHANGED vars \/ CommitWrite \/ LoseAnswers
           \/ OtherCommit \/ TakeRequest \/ SendSnapshot
  BY <1>3, SameViews DEF OnWatchStreamOpen, BackoffTimeout, vars, CommitWrite, LoseAnswers,
     OtherCommit, TakeRequest, SendSnapshot, client, reader
<1>4. CASE OnWatchStreamClose \/ OnConnectivityChange \/ OnlineStateTimeout \/ IdleTimeout
  <2>1. \E o, calls, heard : Publish(view, o, calls, heard)
    BY <1>4 DEF OnWatchStreamClose, OnConnectivityChange, RestartNetwork, OnlineStateTimeout,
                IdleTimeout
  <2> QED
    BY <2>1, PublishKept
<1>5. CASE TargetAdded \/ TargetRemoved \/ TargetCurrent \/ DocumentChanged
  <2>1. \E o, calls, heard : Publish(view, o, calls, heard)
    BY <1>5 DEF TargetAdded, TargetRemoved, TargetCurrent, DocumentChanged
  <2> QED
    BY <2>1, PublishKept
<1> QED
  BY <1>1, <1>2, <1>3, <1>4, <1>5, WriteViews, CredentialViews
     DEF Plain, Next, OnWatchStreamChange, Timer

\* A view is opened from what is saved.
LEMMA OpeningViews ==
    ASSUME Types, NEW g \in Get, Opening(g), NEW k \in Key
    PROVE  IF k = gets[g].key
           THEN /\ view'[k].on /\ view'[k].token = saved[k] /\ (view'[k].synced <=> k \in matching)
                /\ ~ view'[k].limbo /\ ~ view'[k].current
           ELSE ViewKept(k)
<1> DEFINE j     == gets[g].key
           views == [view EXCEPT ![j] = Opens(j)]
<1>1. j \in Key /\ ~ view[j].on
  BY ReaderTyped DEF Reads, Opening
<1>2. \E o, calls, heard : Publish(views, o, calls, heard)
  BY <1>1 DEF Opening, AddQueryListener, Opens
<1> HIDE DEF j
<1>3. views \in [Key -> View] /\ Opens(j) \in View
  BY <1>1, OpensType, ReaderTyped
<1>4. views[k] = IF k = j THEN Opens(j) ELSE view[k]
  BY <1>1, ReaderTyped
<1> HIDE DEF views
<1>5. /\ view'[k].on = views[k].on /\ view'[k].synced = views[k].synced
      /\ view'[k].token = views[k].token /\ view'[k].since = views[k].since
      /\ view'[k].current => views[k].current
      /\ view'[k].limbo = views[k].limbo
  BY <1>2, <1>3, PublishViews, PublishLimbo
<1>6. CASE k = j
  <2>1. /\ Opens(j).on = TRUE /\ Opens(j).token = saved[j] /\ Opens(j).limbo = FALSE
        /\ Opens(j).current = FALSE
    BY DEF Opens
  <2>2. Opens(j).synced = (j \in matching)
    BY DEF Opens
  <2>3. view'[k].synced <=> k \in matching
    BY <1>4, <1>5, <1>6, <2>2, Zenon
  <2>4. ~ view'[k].limbo /\ ~ view'[k].current
    BY <1>4, <1>5, <1>6, <2>1
  <2> QED
    BY <1>4, <1>5, <1>6, <2>1, <2>3, <2>4 DEF j
<1>7. CASE k # j
  BY <1>4, <1>5, <1>7 DEF ViewKept, j
<1> QED
  BY <1>6, <1>7

LEMMA ClosingViews ==
    ASSUME Types, NEW g \in Get, Closing(g), NEW k \in Key
    PROVE  IF k = gets[g].key THEN ~ view'[k].on /\ ~ view'[k].limbo ELSE ViewKept(k)
<1> DEFINE j     == gets[g].key
           views == [view EXCEPT ![j] = NoView]
<1>1. j \in Key
  BY ReaderTyped DEF Reads
<1>2. \E o, calls, heard : Publish(views, o, calls, heard)
  BY DEF Closing, RemoveQueryListener
<1> HIDE DEF j
<1>3. views \in [Key -> View]
  BY <1>1, NoViewType, ReaderTyped
<1>4. views[k] = IF k = j THEN NoView ELSE view[k]
  BY <1>1, ReaderTyped
<1> HIDE DEF views
<1>5. /\ view'[k].on = views[k].on /\ view'[k].synced = views[k].synced
      /\ view'[k].token = views[k].token /\ view'[k].since = views[k].since
      /\ view'[k].current => views[k].current
      /\ view'[k].limbo = views[k].limbo
  BY <1>2, <1>3, PublishViews, PublishLimbo
<1>6. NoView.on = FALSE /\ NoView.limbo = FALSE
  BY DEF NoView
<1> QED
  BY <1>4, <1>5, <1>6 DEF ViewKept, j

-----------------------------------------------------------------------------
(* Every step keeps the stream in order.                                   *)

\* A stream that is closed leaves nothing behind.
LEMMA CleanedStream ==
    ASSUME CleanUpWatchStreamState
    PROVE  NothingHeard'
  BY DEF CleanUpWatchStreamState, NothingHeard

LEMMA LeavesStream ==
    ASSUME \/ OnWatchStreamClose \/ OnConnectivityChange \/ IdleTimeout \/ Restart
           \/ \E u \in User : HandleCredentialChange(u)
    PROVE  StreamInv'
<1>1. CleanUpWatchStreamState
  BY DEF OnWatchStreamClose, OnConnectivityChange, IdleTimeout, Restart, HandleCredentialChange,
         RestartNetwork
<1>2. \E s \in {"Initial", "Starting", "Backoff", "Error"} : stream' = [state |-> s, idle |-> FALSE]
  BY DEF OnWatchStreamClose, OnConnectivityChange, IdleTimeout, Restart, HandleCredentialChange,
         RestartNetwork
<1>3. stream'.state # "Open"
  BY <1>2
<1> QED
  BY <1>1, <1>3, CleanedStream, GoneStream DEF Gone

\* While there is no stream, nothing gets on it.
LEMMA NoStream ==
    ASSUME StreamInv, stream.state # "Open", stream'.state # "Open",
           UNCHANGED <<aggregator, updates, toServer, toClient, sub>>
    PROVE  StreamInv'
<1>1. NothingHeard
  BY DEF StreamInv, StreamClosed
<1>2. NothingHeard'
  BY <1>1 DEF NothingHeard
<1> QED
  BY <1>2, GoneStream DEF Gone

LEMMA BackoffStream ==
    ASSUME Types, StreamInv, BackoffTimeout
    PROVE  StreamInv'
<1>1. stream \in Stream /\ stream.state = "Backoff" /\ stream' = [stream EXCEPT !.state = "Starting"]
  BY WatchTyped DEF BackoffTimeout
<1>2. stream'.state = "Starting"
  BY <1>1 DEF Stream
<1> QED
  BY <1>1, <1>2, NoStream DEF BackoffTimeout

LEMMA OpeningStream ==
    ASSUME Types, WritesOK', StreamInv, NEW g \in Get, Opening(g)
    PROVE  StreamInv'
<1>1. PICK k \in Key : k = gets[g].key /\ ~ view[k].on
  BY ReaderTyped DEF Reads, Opening
<1>2. stream \in Stream /\ UNCHANGED <<log, disk>>
  BY WatchTyped DEF Opening, AddQueryListener
<1>3. CASE /\ ~ IsStarted /\ CleanUpWatchStreamState
           /\ stream' = [stream EXCEPT !.state = IF @ = "Error" THEN "Backoff" ELSE "Starting"]
  <2>1. stream'.state # "Open"
    BY <1>2, <1>3 DEF Stream
  <2> QED
    BY <1>3, <2>1, CleanedStream, GoneStream DEF Gone
<1>4. CASE /\ stream.state = "Open" /\ RecordPendingTargetRequest(k)
           /\ toServer' = Append(toServer, WatchRequest(k, saved[k]))
           /\ stream' = [stream EXCEPT !.idle = FALSE]
           /\ UNCHANGED <<updates, toClient, sub>>
  <2>1. stream'.state = "Open"
    BY <1>2, <1>4 DEF Stream
  <2>2. view'[k].token = saved[k] /\ \A j \in Key \ {k} : ViewKept(j)
    BY <1>1, OpeningViews
  <2>3. WatchRequest(k, saved[k]) = WatchRequest(k, view'[k].token)
        /\ WatchRequest(k, saved[k]).key = k
    BY <2>2 DEF WatchRequest
  <2>4. Asks(k, WatchRequest(k, saved[k]))
    BY <1>2, <1>4, <2>1, <2>2, <2>3 DEF Asks, disk
  <2> QED
    BY <2>4, AskStream
<1>5. CASE stream.state \in {"Starting", "Backoff"} /\ UNCHANGED watch
  BY <1>5, NoStream DEF watch
<1> QED
  BY <1>1, <1>3, <1>4, <1>5 DEF Opening, AddQueryListener

LEMMA ClosingStream ==
    ASSUME Types, WritesOK', StreamInv, NEW g \in Get, Closing(g)
    PROVE  StreamInv'
<1>1. PICK k \in Key : k = gets[g].key
  BY ReaderTyped DEF Reads
<1>2. stream \in Stream /\ UNCHANGED <<log, lastRemote>>
  BY WatchTyped DEF Closing, RemoveQueryListener
<1>3. CASE /\ stream.state = "Open" /\ RecordPendingTargetRequest(k)
           /\ toServer' = Append(toServer, UnwatchRequest(k))
           /\ \E none : stream' = [stream EXCEPT !.idle = none]
           /\ UNCHANGED <<updates, toClient, sub>>
  <2>1. stream'.state = "Open"
    BY <1>2, <1>3 DEF Stream
  <2>2. ~ view'[k].on /\ \A j \in Key \ {k} : ViewKept(j)
    BY <1>1, ClosingViews
  <2>3. UnwatchRequest(k).key = k
    BY DEF UnwatchRequest
  <2>4. Asks(k, UnwatchRequest(k))
    BY <1>2, <1>3, <2>1, <2>2, <2>3 DEF Asks
  <2> QED
    BY <2>4, AskStream
<1>4. CASE stream.state # "Open" /\ UNCHANGED watch
  BY <1>4, NoStream DEF watch
<1> QED
  BY <1>1, <1>3, <1>4 DEF Closing, RemoveQueryListener

\* The steps of the app and of the server that the stream takes no notice of.
LEMMA QuietStream ==
    ASSUME Types, WritesOK', [Next]_vars, StreamInv, Plain,
           \/ \E g \in Get : AddQueryListener(g) \/ RemoveQueryListener(g)
           \/ OnlineStateTimeout
           \/ WriteMutations \/ HandleSuccessfulWrite \/ HandleRejectedWrite
           \/ CommitWrite \/ LoseAnswers \/ OtherCommit \/ UNCHANGED vars
    PROVE  StreamInv'
<1>1. UNCHANGED <<stream, aggregator, updates, toServer, toClient, sub, lastRemote>>
  <2>1. ASSUME NEW g \in Get, AddQueryListener(g)
        PROVE  UNCHANGED <<stream, aggregator, updates, toServer, toClient, sub, lastRemote>>
    BY <2>1 DEF AddQueryListener, Plain, Opening, watch, disk
  <2>2. ASSUME NEW g \in Get, RemoveQueryListener(g)
        PROVE  UNCHANGED <<stream, aggregator, updates, toServer, toClient, sub, lastRemote>>
    BY <2>2 DEF RemoveQueryListener, Plain, Closing, watch
  <2>3. CASE OnlineStateTimeout \/ WriteMutations \/ HandleSuccessfulWrite \/ HandleRejectedWrite
    BY <2>3 DEF OnlineStateTimeout, WriteMutations, HandleSuccessfulWrite, HandleRejectedWrite,
                watch, disk
  <2>4. CASE CommitWrite \/ LoseAnswers \/ OtherCommit \/ UNCHANGED vars
    BY <2>4 DEF CommitWrite, LoseAnswers, OtherCommit, vars, client, watch, disk
  <2> QED
    BY <2>1, <2>2, <2>3, <2>4
<1>2. NothingSent
  BY <1>1, PlainViews, LogNext DEF NothingSent
<1> QED
  BY <1>2, StillStream

\* No denial is on the stream.
LEMMA NoDenial ==
    ASSUME Types, StreamInv
    PROVE  ~ TargetError
<1>1. TargetError => Head(toClient).kind = "error" /\ toClient # << >>
  BY DEF TargetError, Receive
<1>2. toClient # << >> => Head(toClient) = toClient[1] /\ 1 \in DOMAIN toClient
  BY WatchTyped
<1> QED
  BY <1>1, <1>2 DEF StreamInv, NoErrors

\* The stream stays in order, whatever happens.
LEMMA NextStream ==
    ASSUME MaxDenials = 0, Types, StreamInv, DocsTrue, [Next]_vars
    PROVE  StreamInv'
<1>1. WritesOK'
  BY NextTypes DEF Types
<1>2. CASE \E g \in Get : Opening(g) \/ Closing(g)
  BY <1>1, <1>2, OpeningStream, ClosingStream
<1>3. CASE \/ OnWatchStreamClose \/ OnConnectivityChange \/ IdleTimeout \/ Restart
           \/ \E u \in User : HandleCredentialChange(u)
  BY <1>3, LeavesStream
<1>4. CASE BackoffTimeout \/ OnWatchStreamOpen
  BY <1>4, BackoffStream, OpenStream
<1>5. CASE TargetAdded \/ TargetRemoved \/ TargetCurrent \/ DocumentChanged \/ GlobalSnapshot
  BY <1>5, TargetAddedStream, TargetRemovedStream, TargetCurrentStream, DocumentChangedStream,
     GlobalSnapshotStream, ReceivedStream
<1>6. ~ TargetError
  BY NoDenial
<1>7. CASE TakeRequest \/ SendSnapshot
  BY <1>7, TakeRequestStream, SendSnapshotStream
<1>8. CASE /\ Plain
           /\ \/ \E g \in Get : AddQueryListener(g) \/ RemoveQueryListener(g)
              \/ OnlineStateTimeout
              \/ WriteMutations \/ HandleSuccessfulWrite \/ HandleRejectedWrite
              \/ CommitWrite \/ LoseAnswers \/ OtherCommit \/ UNCHANGED vars
  BY <1>1, <1>8, QuietStream
<1> QED
  BY <1>2, <1>3, <1>4, <1>5, <1>6, <1>7, <1>8 DEF Next, OnWatchStreamChange, Timer, Plain

-----------------------------------------------------------------------------
(* The answers to the writes.                                              *)

\* The documents after the commit of mutation m: its content, or none.
Effect(m) == IF m.op = "delete" THEN 0 ELSE m.no

\* Version v is that of the commit of m.
IsCommit(m, v) == v - 1 \in DOMAIN log /\ log[v - 1] = [keys |-> {m.key}, content |-> Effect(m)]

\* The answers that are on their way are those to the first writes of the queue.
AcksTrue == \A i \in DOMAIN acks : IsCommit(queue[currentUser][i], acks[i])

LEMMA AckTypes ==
    ASSUME Types
    PROVE  /\ DOMAIN acks = 1 .. Len(acks) /\ Len(acks) \in Nat
           /\ \A i \in DOMAIN acks : acks[i] \in 1 .. Clock
           /\ queue[currentUser] \in Seq(Mutation) /\ Len(queue[currentUser]) \in Nat
           /\ DOMAIN queue[currentUser] = 1 .. Len(queue[currentUser])
           /\ Len(acks) <= Len(queue[currentUser])
           /\ currentUser \in DOMAIN queue
<1> DEFINE S == 1 .. Clock
<1>1. acks \in Seq(S) /\ queue \in [User -> Seq(Mutation)] /\ currentUser \in User
      /\ Len(acks) <= Len(queue[currentUser])
  BY DEF Types, WritesOK
<1> HIDE DEF S
<1>2. DOMAIN acks = 1 .. Len(acks) /\ Len(acks) \in Nat /\ \A i \in DOMAIN acks : acks[i] \in S
  BY <1>1
<1>3. queue[currentUser] \in Seq(Mutation) /\ currentUser \in DOMAIN queue
  BY <1>1
<1>4. /\ Len(queue[currentUser]) \in Nat
      /\ DOMAIN queue[currentUser] = 1 .. Len(queue[currentUser])
  BY <1>3
<1> QED
  BY <1>1, <1>2, <1>3, <1>4 DEF S

LEMMA CommitStays ==
    ASSUME Types, WritesOK', LogKept, NEW m, NEW v, IsCommit(m, v)
    PROVE  IsCommit(m, v)'
<1>1. v - 1 \in 1 .. Len(log) /\ v - 1 \in 1 .. Len(log')
  BY LogTyped DEF Types, LogKept, IsCommit
<1>2. DOMAIN log' = 1 .. Len(log')
  BY DEF WritesOK
<1> QED
  BY <1>1, <1>2 DEF LogKept, IsCommit, Effect

\* The steps that neither write nor answer.
LEMMA AcksStay ==
    ASSUME [Next]_vars, ~ WriteMutations, ~ HandleSuccessfulWrite, ~ HandleRejectedWrite,
           \A u \in User : ~ HandleCredentialChange(u),
           ~ Restart, ~ CommitWrite, ~ LoseAnswers
    PROVE  UNCHANGED <<queue, currentUser, acks>>
<1>1. ASSUME NEW g \in Get, AddQueryListener(g) \/ RemoveQueryListener(g)
      PROVE  UNCHANGED <<queue, currentUser, acks>>
  BY <1>1 DEF AddQueryListener, RemoveQueryListener, disk
<1>2. CASE OnWatchStreamOpen \/ OnWatchStreamClose \/ OnConnectivityChange
  BY <1>2 DEF OnWatchStreamOpen, OnWatchStreamClose, OnConnectivityChange, disk
<1>3. CASE TargetAdded \/ TargetRemoved \/ TargetCurrent \/ TargetError \/ DocumentChanged
           \/ GlobalSnapshot
  BY <1>3 DEF TargetAdded, TargetRemoved, TargetCurrent, TargetError, DocumentChanged,
              GlobalSnapshot, disk
<1>4. CASE Timer
  BY <1>4 DEF Timer, OnlineStateTimeout, BackoffTimeout, IdleTimeout, disk
<1>5. CASE OtherCommit \/ TakeRequest \/ SendSnapshot
  BY <1>5 DEF OtherCommit, TakeRequest, SendSnapshot, client, disk
<1>6. CASE UNCHANGED vars
  BY <1>6 DEF vars, disk
<1> QED
  BY <1>1, <1>2, <1>3, <1>4, <1>5, <1>6 DEF Next, OnWatchStreamChange

LEMMA AcksNext ==
    ASSUME Types, WritesOK', AcksTrue, [Next]_vars
    PROVE  AcksTrue'
<1>1. \A m, v : IsCommit(m, v) => IsCommit(m, v)'
  BY LogNext, CommitStays
<1>2. CASE acks' = << >>
  BY <1>2 DEF AcksTrue
<1>3. CASE WriteMutations
  <2>1. PICK m : queue' = [queue EXCEPT ![currentUser] = Append(queue[currentUser], m)]
                 /\ UNCHANGED <<currentUser, acks>>
    BY <1>3 DEF WriteMutations
  <2>2. queue'[currentUser'] = Append(queue[currentUser], m)
    BY <2>1, AckTypes
  <2>3. \A i \in DOMAIN acks' : i \in DOMAIN acks /\ queue'[currentUser'][i] = queue[currentUser][i]
    <3>1. DOMAIN acks' = 1 .. Len(acks)
      BY <2>1, AckTypes
    <3> QED
      BY <2>2, <3>1, AckTypes
  <2> QED
    BY <1>1, <2>1, <2>3 DEF AcksTrue
<1>4. CASE HandleSuccessfulWrite
  <2>1. /\ acks # << >> /\ acks' = Tail(acks) /\ UNCHANGED currentUser
        /\ queue' = [queue EXCEPT ![currentUser] = Tail(queue[currentUser])]
    BY <1>4 DEF HandleSuccessfulWrite
  <2>2. queue'[currentUser'] = Tail(queue[currentUser])
    BY <2>1, AckTypes
  <2>3. DOMAIN acks' = 1 .. Len(acks) - 1 /\ \A i \in 1 .. Len(acks) - 1 : acks'[i] = acks[i + 1]
    <3> DEFINE S == 1 .. Clock
    <3>1. acks \in Seq(S) /\ acks # << >> /\ acks' = Tail(acks)
      BY <2>1 DEF Types, WritesOK
    <3> HIDE DEF S
    <3> QED
      BY <3>1
  <2>4. \A i \in 1 .. Len(acks) - 1 : i + 1 \in DOMAIN acks /\ queue'[currentUser'][i] = queue[currentUser][i + 1]
    <3>1. Len(queue[currentUser]) # 0
      BY <2>1, AcksAwaited, AckTypes
    <3> QED
      BY <2>2, <3>1, AckTypes
  <2>5. ASSUME NEW i \in 1 .. Len(acks) - 1
        PROVE  IsCommit(queue'[currentUser'][i], acks'[i])
    BY <2>3, <2>4 DEF AcksTrue
  <2> QED
    BY <1>1, <2>3, <2>5 DEF AcksTrue
<1>5. CASE CommitWrite
  <2>1. PICK m, w, n : /\ m = queue[currentUser][Len(acks) + 1] /\ w = Clock + 1 /\ n = Len(acks)
                       /\ log' = Append(log, [keys |-> {m.key}, content |-> Effect(m)])
                       /\ acks' = Append(acks, w) /\ UNCHANGED <<queue, currentUser>>
    BY <1>5 DEF CommitWrite, client, disk, Effect
  <2>2. PICK c : c = [keys |-> {m.key}, content |-> Effect(m)]
    OBVIOUS
  <2>3. w - 1 \in DOMAIN log' /\ log'[w - 1] = c
    <3>1. log \in Seq(Commit) /\ log' = Append(log, c) /\ w - 1 = Len(log) + 1
      BY <2>1, <2>2, LogTyped DEF Types, WritesOK
    <3> QED
      BY <3>1
  <2>4. IsCommit(m, w)'
    BY <2>2, <2>3 DEF IsCommit, Effect
  <2>5. /\ n \in Nat /\ DOMAIN acks' = 1 .. n + 1 /\ acks'[n + 1] = w
        /\ \A i \in 1 .. n : i \in DOMAIN acks /\ acks'[i] = acks[i]
    <3> DEFINE S == 1 .. Clock
    <3>1. acks \in Seq(S)
      BY DEF Types, WritesOK
    <3> HIDE DEF S
    <3> QED
      BY <2>1, <3>1
  <2>6. ASSUME NEW i \in 1 .. n
        PROVE  IsCommit(queue[currentUser][i], acks[i])'
    <3>1. IsCommit(queue[currentUser][i], acks[i])
      BY <2>5 DEF AcksTrue
    <3> QED
      BY <1>1, <2>1, <2>5, <3>1
  <2>7. \A i \in 1 .. n + 1 : IsCommit(queue[currentUser][i], acks[i])'
    BY <2>1, <2>4, <2>5, <2>6
  <2> QED
    BY <2>5, <2>7 DEF AcksTrue
<1>6. CASE HandleRejectedWrite
  BY <1>2, <1>6 DEF HandleRejectedWrite
<1>7. CASE LoseAnswers \/ Restart \/ \E u \in User : HandleCredentialChange(u)
  BY <1>2, <1>7 DEF LoseAnswers, Restart, HandleCredentialChange
<1>8. CASE UNCHANGED <<queue, currentUser, acks>>
  BY <1>1, <1>8 DEF AcksTrue
<1> QED
  BY <1>3, <1>4, <1>5, <1>6, <1>7, <1>8, AcksStay

-----------------------------------------------------------------------------
(* Targets between snapshots.                                              *)

\* Who listens has a view.
Watched == \A k \in Key : listeners[k] # {} => view[k].on

\* Without a snapshot, a target keeps what is known of it: its view goes on or is
\* opened from what is saved, and what is saved is what its view has had.
TargetStays(k) ==
    /\ k \in matching' <=> k \in matching
    /\ saved'[k] = saved[k] \/ (view[k].on /\ saved'[k] = view[k].token)
    /\ view'[k].on => \/ ViewKept(k)
                      \/ /\ view'[k].token = saved[k] /\ (view'[k].synced <=> k \in matching)
                         /\ ~ view'[k].current
    /\ ~ ViewKept(k) => ~ view'[k].limbo

LEMMA SavedStays ==
    ASSUME [Next]_vars, \A g \in Get : ~ Closing(g), ~ TargetError, ~ GlobalSnapshot
    PROVE  UNCHANGED <<saved, matching>>
<1>1. ASSUME NEW g \in Get, AddQueryListener(g) PROVE UNCHANGED <<saved, matching>>
  BY <1>1 DEF AddQueryListener, disk
<1>2. ASSUME NEW g \in Get, RemoveQueryListener(g) PROVE UNCHANGED <<saved, matching>>
  BY <1>2 DEF RemoveQueryListener, Closing
<1>3. CASE OnWatchStreamOpen \/ OnWatchStreamClose \/ OnConnectivityChange
  BY <1>3 DEF OnWatchStreamOpen, OnWatchStreamClose, OnConnectivityChange, disk
<1>4. CASE TargetAdded \/ TargetRemoved \/ TargetCurrent \/ DocumentChanged
  BY <1>4 DEF TargetAdded, TargetRemoved, TargetCurrent, DocumentChanged, disk
<1>5. CASE Timer
  BY <1>5 DEF Timer, OnlineStateTimeout, BackoffTimeout, IdleTimeout, disk
<1>6. CASE WriteMutations \/ HandleRejectedWrite \/ HandleSuccessfulWrite
  BY <1>6 DEF WriteMutations, HandleRejectedWrite, HandleSuccessfulWrite
<1>7. ASSUME NEW u \in User, HandleCredentialChange(u) PROVE UNCHANGED <<saved, matching>>
  BY <1>7 DEF HandleCredentialChange, disk
<1>8. CASE Restart \/ UNCHANGED vars
  BY <1>8 DEF Restart, vars, disk
<1>9. CASE CommitWrite \/ LoseAnswers \/ OtherCommit \/ TakeRequest \/ SendSnapshot
  BY <1>9 DEF CommitWrite, LoseAnswers, OtherCommit, TakeRequest, SendSnapshot, client, disk
<1> QED
  BY <1>1, <1>2, <1>3, <1>4, <1>5, <1>6, <1>7, <1>8, <1>9 DEF Next, OnWatchStreamChange

LEMMA RestartViews ==
    ASSUME Restart
    PROVE  \A k \in Key : view'[k] = NoView /\ listeners'[k] = {}
  BY DEF Restart

LEMMA TargetsStay ==
    ASSUME Types, Watched, [Next]_vars, ~ TargetError, ~ GlobalSnapshot, NEW k \in Key
    PROVE  TargetStays(k)
<1>1. CASE Plain
  BY <1>1, PlainViews, SavedStays DEF Plain, ViewsKept, TargetStays
<1>2. CASE Restart
  <2>1. UNCHANGED <<saved, matching>>
    BY <1>2 DEF Restart, disk
  <2> QED
    BY <1>2, <2>1, RestartViews DEF TargetStays, NoView
<1>3. ASSUME NEW g \in Get, Opening(g) PROVE TargetStays(k)
  <2>1. UNCHANGED <<saved, matching>>
    BY <1>3 DEF Opening, AddQueryListener, disk
  <2>2. CASE k = gets[g].key
    BY <1>3, <2>1, <2>2, OpeningViews DEF TargetStays
  <2>3. CASE k # gets[g].key
    BY <1>3, <2>1, <2>3, OpeningViews DEF TargetStays
  <2> QED
    BY <2>2, <2>3
<1>4. ASSUME NEW g \in Get, Closing(g) PROVE TargetStays(k)
  <2>1. PICK j \in Key : j = gets[g].key
    BY ReaderTyped DEF Reads
  <2>2. /\ matching' = matching
        /\ saved' = [saved EXCEPT ![j] = view[j].token]
        /\ view[j].on
    BY <1>4, <2>1 DEF Closing, RemoveQueryListener, Watched
  <2>3. saved'[k] = IF k = j THEN view[k].token ELSE saved[k]
    BY <2>2 DEF Types, CacheOK
  <2>4. CASE k = j
    BY <1>4, <2>1, <2>2, <2>3, <2>4, ClosingViews DEF TargetStays
  <2>5. CASE k # j
    BY <1>4, <2>1, <2>2, <2>3, <2>5, ClosingViews DEF TargetStays
  <2> QED
    BY <2>4, <2>5
<1> QED
  BY <1>1, <1>2, <1>3, <1>4 DEF Plain

\* Only gets, listens that are denied and a new process change who listens.
LEMMA ListenersStay ==
    ASSUME [Next]_vars, \A g \in Get : ~ AddQueryListener(g) /\ ~ RemoveQueryListener(g),
           ~ TargetError, ~ Restart
    PROVE  UNCHANGED listeners
<1>1. CASE OnWatchStreamOpen \/ OnWatchStreamClose \/ OnConnectivityChange
  BY <1>1 DEF OnWatchStreamOpen, OnWatchStreamClose, OnConnectivityChange, reader
<1>2. CASE TargetAdded \/ TargetRemoved \/ TargetCurrent \/ DocumentChanged \/ GlobalSnapshot
  BY <1>2 DEF TargetAdded, TargetRemoved, TargetCurrent, DocumentChanged, GlobalSnapshot
<1>3. CASE Timer
  BY <1>3 DEF Timer, OnlineStateTimeout, BackoffTimeout, IdleTimeout, reader
<1>4. CASE WriteMutations \/ HandleRejectedWrite \/ HandleSuccessfulWrite
  BY <1>4 DEF WriteMutations, HandleRejectedWrite, HandleSuccessfulWrite
<1>5. ASSUME NEW u \in User, HandleCredentialChange(u) PROVE UNCHANGED listeners
  BY <1>5 DEF HandleCredentialChange
<1>6. CASE CommitWrite \/ LoseAnswers \/ OtherCommit \/ TakeRequest \/ SendSnapshot \/ UNCHANGED vars
  BY <1>6 DEF CommitWrite, LoseAnswers, OtherCommit, TakeRequest, SendSnapshot, client, reader, vars
<1> QED
  BY <1>1, <1>2, <1>3, <1>4, <1>5, <1>6 DEF Next, OnWatchStreamChange

\* The views that are open after a snapshot were before.
LEMMA SnapshotOpens ==
    ASSUME Types, GlobalSnapshot, NEW k \in Key
    PROVE  view'[k].on = view[k].on
<1> DEFINE v == Head(toClient).version
<1>1. v \in 1 .. Clock
  BY ReceiveTypes DEF GlobalSnapshot
<1>2. \/ \E aged \in BOOLEAN : RaiseWatchSnapshot(v, aged)
      \/ Publish(view, NowOnline, gets, listeners)
  BY DEF GlobalSnapshot
<1> HIDE DEF v
<1>3. Publish(Views(v), NowOnline, gets, listeners) \/ Publish(view, NowOnline, gets, listeners)
  BY <1>2, RaiseParts
<1> QED
  BY <1>1, <1>3, ViewsTypes, ReaderTyped, PublishViews

LEMMA WatchedNext ==
    ASSUME Types, Watched, [Next]_vars, ~ TargetError
    PROVE  Watched'
<1>1. ASSUME NEW g \in Get, Opening(g) PROVE Watched'
  <2>1. PICK j \in Key : j = gets[g].key
    BY ReaderTyped DEF Reads
  <2>2. listeners' = [listeners EXCEPT ![j] = @ \cup {g}]
    BY <1>1, <2>1 DEF Opening, AddQueryListener
  <2>3. \A k \in Key : k # j => listeners'[k] = listeners[k]
    BY <2>2, ReaderTyped
  <2>4. view'[j].on /\ \A k \in Key : k # j => view'[k].on = view[k].on
    BY <1>1, <2>1, OpeningViews DEF ViewKept
  <2> QED
    BY <2>3, <2>4 DEF Watched
<1>2. ASSUME NEW g \in Get, Closing(g) PROVE Watched'
  <2>1. PICK j \in Key : j = gets[g].key
    BY ReaderTyped DEF Reads
  <2>2. listeners' = [listeners EXCEPT ![j] = @ \ {g}] /\ listeners[j] = {g}
    BY <1>2, <2>1 DEF Closing, RemoveQueryListener
  <2>3. listeners'[j] = {} /\ \A k \in Key : k # j => listeners'[k] = listeners[k]
    BY <2>1, <2>2, ReaderTyped
  <2>4. \A k \in Key : k # j => view'[k].on = view[k].on
    BY <1>2, <2>1, ClosingViews DEF ViewKept
  <2> QED
    BY <2>3, <2>4 DEF Watched
<1>3. CASE Restart
  BY <1>3, RestartViews DEF Watched
<1>4. CASE GlobalSnapshot
  BY <1>4, SnapshotOpens DEF GlobalSnapshot, Watched
<1>5. CASE Plain
  <2>1. \A k \in Key : view'[k].on = view[k].on
    BY <1>5, PlainViews DEF ViewsKept, ViewKept
  <2>2. ASSUME NEW g \in Get, AddQueryListener(g) PROVE Watched'
    <3>1. PICK j \in Key : j = gets[g].key
      BY ReaderTyped DEF Reads
    <3>2. listeners' = [listeners EXCEPT ![j] = @ \cup {g}] /\ view[j].on
      BY <1>5, <2>2, <3>1 DEF Plain, Opening, AddQueryListener
    <3>3. \A k \in Key : k # j => listeners'[k] = listeners[k]
      BY <3>2, ReaderTyped
    <3> QED
      BY <2>1, <3>2, <3>3 DEF Watched
  <2>3. ASSUME NEW g \in Get, RemoveQueryListener(g) PROVE Watched'
    <3>1. PICK j \in Key : j = gets[g].key
      BY ReaderTyped DEF Reads
    <3>2. listeners' = [listeners EXCEPT ![j] = @ \ {g}]
      BY <2>3, <3>1 DEF RemoveQueryListener
    <3>3. \A k \in Key : listeners'[k] \subseteq listeners[k]
      BY <3>2, ReaderTyped
    <3> QED
      BY <2>1, <3>3 DEF Watched
  <2>4. CASE \A g \in Get : ~ AddQueryListener(g) /\ ~ RemoveQueryListener(g)
    BY <1>5, <2>1, <2>4, ListenersStay DEF Plain, Watched
  <2> QED
    BY <2>2, <2>3, <2>4
<1> QED
  BY <1>1, <1>2, <1>3, <1>4, <1>5 DEF Plain

-----------------------------------------------------------------------------
(* What the documents say stays true.                                      *)

LEMMA TrueStays ==
    ASSUME Types, WritesOK', LogKept, NEW k, NEW d \in Known, IsTrue(k, d)
    PROVE  IsTrue(k, d)'
<1>1. d.version \in 0 .. Clock
  BY VersionNat, LogTyped DEF Types, Known
<1>2. ContentAt(k, d.version)' = ContentAt(k, d.version)
      /\ WrittenAt(k, d.version)' = WrittenAt(k, d.version)
  BY <1>1, WrittenStays DEF Types
<1> QED
  BY <1>2 DEF IsTrue

\* An acknowledged write is in the cache as the server has it.
LEMMA BatchTrue ==
    ASSUME Types, AcksTrue, acks # << >>, NEW d, IsTrue(Head(queue[currentUser]).key, d)
    PROVE  IsTrue(Head(queue[currentUser]).key,
                  ApplyBatchResult(d, Head(queue[currentUser]), Head(acks)))
<1>1. PICK m, a : m = Head(queue[currentUser]) /\ a = Head(acks)
  OBVIOUS
<1>2. m \in Mutation /\ a \in 1 .. Clock /\ m = queue[currentUser][1] /\ a = acks[1] /\ 1 \in DOMAIN acks
  <2>1. queue[currentUser] # << >> /\ Head(acks) \in 1 .. Clock
    BY AcksAwaited
  <2>2. Head(queue[currentUser]) = queue[currentUser][1]
    BY <2>1, AckTypes
  <2>3. Head(acks) = acks[1] /\ 1 \in DOMAIN acks
    <3> DEFINE S == 1 .. Clock
    <3>1. acks \in Seq(S)
      BY DEF Types, WritesOK
    <3> HIDE DEF S
    <3> QED
      BY <3>1
  <2> QED
    BY <1>1, <2>1, <2>2, <2>3, HeadTypes
<1>3. a - 1 \in DOMAIN log /\ log[a - 1] = [keys |-> {m.key}, content |-> Effect(m)]
  BY <1>2 DEF AcksTrue, IsCommit
<1>4. WrittenAt(m.key, a) = a /\ ContentAt(m.key, a) = Effect(m)
  <2>1. a - 1 + 1 = a /\ m.key \in log[a - 1].keys /\ log[a - 1].content = Effect(m)
    BY <1>2, <1>3, LogTyped DEF Types
  <2>2. PICK j : j = a - 1
    OBVIOUS
  <2> QED
    BY <1>3, <2>1, <2>2, WrittenThere DEF Types
<1>5. m.no # 0 /\ m.no \in Nat
  BY <1>2 DEF Mutation
<1>6. IsTrue(m.key, ApplyToRemoteDocument(m, d, a))
  <2>1. CASE ~ IsValidFor(m, d)
    BY <1>4, <2>1 DEF IsTrue, ApplyToRemoteDocument
  <2>2. CASE IsValidFor(m, d) /\ m.op = "delete"
    BY <1>4, <2>2 DEF IsTrue, ApplyToRemoteDocument, NoDocument, Effect
  <2>3. CASE IsValidFor(m, d) /\ m.op # "delete"
    BY <1>4, <1>5, <2>3 DEF IsTrue, ApplyToRemoteDocument, FoundDocument, Effect
  <2> QED
    BY <2>1, <2>2, <2>3
<1> QED
  BY <1>1, <1>6 DEF ApplyBatchResult

\* The cache after the answer to a write.
LEMMA BatchCache ==
    ASSUME Types, HandleSuccessfulWrite, NEW k \in Key
    PROVE  /\ acks # << >> /\ log' = log /\ Head(queue[currentUser]).key \in Key
           /\ cache'[k] = IF k = Head(queue[currentUser]).key
                          THEN ApplyBatchResult(cache[k], Head(queue[currentUser]), Head(acks))
                          ELSE cache[k]
<1> DEFINE m == Head(queue[currentUser])
<1>1. acks # << >> /\ log' = log /\ cache' = [cache EXCEPT ![m.key] = ApplyBatchResult(@, m, Head(acks))]
  BY DEF HandleSuccessfulWrite
<1>2. m.key \in Key
  BY <1>1, AcksAwaited, HeadTypes
<1> HIDE DEF m
<1> QED
  BY <1>1, <1>2, CacheTyped DEF m

\* The updates that the client holds are those it has held or has just received.
LEMMA UpdatesNext ==
    ASSUME Types, [Next]_vars, NEW k \in Key
    PROVE  \/ updates'[k] = updates[k] \/ updates'[k] = Invalid
           \/ \E i \in DOMAIN toClient : /\ toClient[i].kind = "doc" /\ toClient[i].key = k
                                         /\ updates'[k] = toClient[i].doc
<1>1. CASE CleanUpWatchStreamState
  BY <1>1 DEF CleanUpWatchStreamState
<1>2. ASSUME NEW g \in Get, AddQueryListener(g) \/ RemoveQueryListener(g)
      PROVE  updates' = updates \/ CleanUpWatchStreamState
  BY <1>2 DEF AddQueryListener, RemoveQueryListener, watch
<1>3. CASE OnWatchStreamClose \/ OnConnectivityChange \/ IdleTimeout \/ Restart
           \/ \E u \in User : HandleCredentialChange(u)
  BY <1>1, <1>3 DEF OnWatchStreamClose, OnConnectivityChange, IdleTimeout, Restart,
                    HandleCredentialChange, RestartNetwork
<1>4. CASE OnWatchStreamOpen \/ OnlineStateTimeout \/ BackoffTimeout
  BY <1>4 DEF OnWatchStreamOpen, OnlineStateTimeout, BackoffTimeout, watch
<1>5. CASE TargetAdded \/ TargetRemoved \/ TargetCurrent \/ TargetError
  BY <1>5 DEF TargetAdded, TargetRemoved, TargetCurrent, TargetError
<1>6. CASE DocumentChanged
  <2>1. toClient # << >> => Head(toClient) = toClient[1] /\ 1 \in DOMAIN toClient
    BY WatchTyped
  <2>2. \/ updates' = updates
        \/ updates' = [updates EXCEPT ![Head(toClient).key] = Head(toClient).doc]
    BY <1>6 DEF DocumentChanged
  <2>3. toClient # << >> /\ Head(toClient).kind = "doc"
    BY <1>6 DEF DocumentChanged, Receive
  <2> QED
    BY <2>1, <2>2, <2>3, WatchTyped
<1>7. CASE GlobalSnapshot
  BY <1>7, RaiseParts DEF GlobalSnapshot
<1>8. CASE WriteMutations \/ HandleRejectedWrite \/ HandleSuccessfulWrite
  BY <1>8 DEF WriteMutations, HandleRejectedWrite, HandleSuccessfulWrite, watch
<1>9. CASE CommitWrite \/ LoseAnswers \/ OtherCommit \/ TakeRequest \/ SendSnapshot
  BY <1>9 DEF CommitWrite, LoseAnswers, OtherCommit, TakeRequest, SendSnapshot, client
<1>10. CASE UNCHANGED vars
  BY <1>10 DEF vars, watch
<1> QED
  BY <1>1, <1>2, <1>3, <1>4, <1>5, <1>6, <1>7, <1>8, <1>9, <1>10
     DEF Next, OnWatchStreamChange, Timer

\* The documents on the stream are those it has had, or the server has just sent them.
OldOrNews ==
    \A i \in DOMAIN toClient' : toClient'[i].kind = "doc" =>
        \/ \E j \in DOMAIN toClient : toClient'[i] = toClient[j]
        \/ log' = log /\ \E k \in Key : News(k, toClient'[i])

LEMMA TakeRequestMessages ==
    ASSUME Types, TakeRequest
    PROVE  OldOrNews
<1>1. PICK m : toClient' = Append(toClient, m) /\ m.kind # "doc"
  <2>1. \A x : [kind |-> "added", key |-> x].kind # "doc" /\ [kind |-> "error", key |-> x].kind # "doc"
               /\ [kind |-> "removed", key |-> x].kind # "doc"
    OBVIOUS
  <2> QED
    BY <2>1, Zenon DEF TakeRequest
<1>2. toClient \in Seq(Message)
  BY WatchTyped
<1> DEFINE M == Message
<1>3. toClient \in Seq(M)
  BY <1>2
<1> HIDE DEF M
<1>4. /\ DOMAIN toClient = 1 .. Len(toClient) /\ Len(toClient) \in Nat
      /\ DOMAIN toClient' = 1 .. Len(toClient) + 1 /\ toClient'[Len(toClient) + 1] = m
      /\ \A i \in 1 .. Len(toClient) : toClient'[i] = toClient[i]
  BY <1>1, <1>3
<1>5. ASSUME NEW i \in DOMAIN toClient', toClient'[i].kind = "doc"
      PROVE  i \in DOMAIN toClient /\ toClient'[i] = toClient[i]
  <2>1. i # Len(toClient) + 1
    BY <1>1, <1>4, <1>5
  <2> QED
    BY <1>4, <1>5, <2>1
<1> QED
  BY <1>5 DEF OldOrNews

LEMMA SendSnapshotMessages ==
    ASSUME Types, SendSnapshot
    PROVE  OldOrNews
<1>1. PICK b \in Nat : Sends(b)
  BY SnapshotSent
<1>2. PICK n \in Nat : n = Len(toClient) /\ DOMAIN toClient = 1 .. n
  BY Places
<1>3. /\ DOMAIN toClient' = 1 .. b /\ n < b /\ toClient'[b].kind = "snapshot"
      /\ \A i \in 1 .. n : toClient'[i] = toClient[i]
      /\ \A i \in n + 1 .. b - 1 : \E k \in Key : News(k, toClient'[i])
  BY <1>1, <1>2 DEF Sends, Longer
<1>4. log' = log
  BY DEF SendSnapshot
<1>5. ASSUME NEW i \in DOMAIN toClient', toClient'[i].kind = "doc", i \notin 1 .. n
      PROVE  i \in n + 1 .. b - 1
  <2>1. i # b
    BY <1>3, <1>5
  <2> QED
    BY <1>3, <1>5, <2>1
<1> QED
  BY <1>2, <1>3, <1>4, <1>5 DEF OldOrNews

LEMMA MessagesNext ==
    ASSUME Types, [Next]_vars
    PROVE  OldOrNews
<1>1. CASE toClient' = << >> \/ toClient' = toClient
  BY <1>1 DEF OldOrNews
<1>2. CASE toClient # << >> /\ toClient' = Tail(toClient)
  <2>1. \A i \in DOMAIN toClient' : i + 1 \in DOMAIN toClient /\ toClient'[i] = toClient[i + 1]
    <3> DEFINE M == Message
    <3>1. toClient \in Seq(M) /\ toClient # << >> /\ toClient' = Tail(toClient)
      BY <1>2, WatchTyped
    <3> HIDE DEF M
    <3> QED
      BY <3>1
  <2> QED
    BY <2>1 DEF OldOrNews
<1>3. CASE CleanUpWatchStreamState
  BY <1>1, <1>3 DEF CleanUpWatchStreamState
<1>4. ASSUME NEW g \in Get, AddQueryListener(g) \/ RemoveQueryListener(g)
      PROVE  toClient' = toClient \/ CleanUpWatchStreamState
  BY <1>4 DEF AddQueryListener, RemoveQueryListener, watch
<1>5. CASE OnWatchStreamClose \/ OnConnectivityChange \/ IdleTimeout \/ Restart
           \/ \E u \in User : HandleCredentialChange(u)
  BY <1>3, <1>5 DEF OnWatchStreamClose, OnConnectivityChange, IdleTimeout, Restart,
                    HandleCredentialChange, RestartNetwork
<1>6. CASE OnWatchStreamOpen \/ OnlineStateTimeout \/ BackoffTimeout
  BY <1>1, <1>6 DEF OnWatchStreamOpen, OnlineStateTimeout, BackoffTimeout, watch
<1>7. CASE TargetAdded \/ TargetRemoved \/ TargetCurrent \/ TargetError \/ DocumentChanged
           \/ GlobalSnapshot
  BY <1>2, <1>7 DEF TargetAdded, TargetRemoved, TargetCurrent, TargetError, DocumentChanged,
                    GlobalSnapshot, Receive
<1>8. CASE WriteMutations \/ HandleRejectedWrite \/ HandleSuccessfulWrite
  BY <1>1, <1>8 DEF WriteMutations, HandleRejectedWrite, HandleSuccessfulWrite, watch
<1>9. CASE CommitWrite \/ LoseAnswers \/ OtherCommit \/ UNCHANGED vars
  BY <1>1, <1>9 DEF CommitWrite, LoseAnswers, OtherCommit, vars, watch
<1>10. CASE TakeRequest \/ SendSnapshot
  BY <1>10, TakeRequestMessages, SendSnapshotMessages
<1> QED
  BY <1>1, <1>3, <1>4, <1>5, <1>6, <1>7, <1>8, <1>9, <1>10
     DEF Next, OnWatchStreamChange, Timer

-----------------------------------------------------------------------------
(* What a snapshot says.                                                   *)

\* Document d of key k has all that was written up to version t; if its content is
\* not known, it is ahead.
Covers(d, k, t) ==
    /\ WrittenAt(k, t) <= d.version
    /\ d.type = "unknown" => t < d.version

\* A document matches its target if the server had it when the target was saved,
\* and at the view's last snapshot.
Matches(k) ==
    /\ k \in matching <=> ContentAt(k, saved[k]) # 0
    /\ view[k].on => (view[k].synced <=> ContentAt(k, view[k].token) # 0)

\* What the cache holds is not older than what is saved of the target.
Targets ==
    \A k \in Key : /\ Matches(k)
                   /\ Covers(cache[k], k, saved[k])
                   /\ view[k].on => Covers(cache[k], k, view[k].token)

\* The version up to which the client has heard of k.
HeardUpTo(k) == IF updates[k] = Invalid THEN view[k].token ELSE updates[k].version

LEMMA ChangedHears ==
    ASSUME Types, StreamInv, GlobalSnapshot, NEW k \in Changed
    PROVE  /\ k \in Key /\ view[k].on
           /\ Covered(k, HeardUpTo(k), toClient[1].version)
           /\ view[k].since <= toClient[1].version
           /\ aggregator[k].current /\ ChangeFits(k)
<1>1. k \in Key /\ view[k].on /\ aggregator[k].pending = 0
  BY DEF Changed, IsActiveTarget
<1>2. /\ Receives /\ 1 \in Snapshots /\ toClient[1].kind = "snapshot"
      /\ toClient # << >>
  BY SnapshotRaised DEF Receives, IsSnapshot
<1>3. Live(k, 0) /\ Live(k, 1)
  <2>1. Live(k, 0)
    BY <1>1, PendingIsLive DEF StreamInv
  <2>2. \A j \in Answers(k) : j \in Nat /\ j <= 0
    BY <2>1, Places DEF Live
  <2> QED
    BY <2>1, <2>2 DEF Live
<1>4. Listens(k)
  BY <1>1, <1>2 DEF StreamInv, Heard, StreamClosed, NothingHeard
<1>5. Covered(k, Told(k, 0), toClient[1].version)
  <2>1. 0 \in 0 .. Len(toClient) /\ Teller(k, 0)
    BY Places DEF Teller
  <2>2. Quiet(k, 0, 1 - 1)
    BY DEF Quiet
  <2> QED
    BY <1>2, <1>3, <1>4, <2>1, <2>2 DEF Listens, Hears
<1>6. HeardCurrent(k, 1)
  BY <1>2, <1>3, <1>4 DEF Listens, Currents
<1>7. aggregator[k].current
  BY <1>2, <1>6 DEF HeardCurrent
<1>8. view[k].since <= toClient[1].version /\ ChangeFits(k)
  BY <1>2, <1>3, <1>4 DEF Listens, FreshSnapshots
<1>9. Told(k, 0) = HeardUpTo(k)
  BY DEF Told, HeardUpTo
<1> QED
  BY <1>1, <1>5, <1>7, <1>8, <1>9

\* Who is covered knows the content.
LEMMA CoveredContent ==
    ASSUME WritesOK, NEW k, NEW h \in Nat, NEW v \in Nat, Covered(k, h, v)
    PROVE  /\ h <= v /\ ContentAt(k, v) = ContentAt(k, h)
           /\ h # 0 => WrittenAt(k, v) <= h
<1>1. CASE WrittenAt(k, v) <= h
  BY <1>1, WrittenBetween DEF Covered
<1>2. CASE h = 0 /\ ContentAt(k, v) = 0
  BY <1>2, WrittenNever DEF Covered
<1> QED
  BY <1>1, <1>2 DEF Covered

\* What the client knows of a document that changes is what the server has.
LEMMA ChangedContent ==
    ASSUME Types, StreamInv, DocsTrue, Targets, GlobalSnapshot, NEW k \in Changed
    PROVE  /\ HeardUpTo(k) \in Nat /\ HeardUpTo(k) <= toClient[1].version
           /\ ContentAt(k, toClient[1].version) = ContentAt(k, HeardUpTo(k))
           /\ HeardUpTo(k) # 0 => WrittenAt(k, toClient[1].version) <= HeardUpTo(k)
           /\ updates[k] # Invalid => /\ HeardUpTo(k) # 0
                                      /\ Found(updates[k]) <=> ContentAt(k, HeardUpTo(k)) # 0
           /\ updates[k] = Invalid => (view[k].synced <=> ContentAt(k, HeardUpTo(k)) # 0)
           /\ view[k].synced /\ updates[k] = Invalid => HeardUpTo(k) # 0
           /\ SyncedBy(k) <=> ContentAt(k, toClient[1].version) # 0
<1>1. k \in Key /\ view[k].on /\ Covered(k, HeardUpTo(k), toClient[1].version) /\ ChangeFits(k)
  BY ChangedHears
<1>2. HeardUpTo(k) \in Nat /\ toClient[1].version \in Nat
  <2>1. updates[k].version \in Nat /\ view[k].token \in Nat
    BY <1>1, WatchTyped, ReaderTyped, VersionNat, LogTyped DEF View, Types
  <2>2. toClient[1].version \in 1 .. Clock
    BY SnapshotRaised
  <2> QED
    BY <2>1, <2>2 DEF HeardUpTo
<1>3. /\ HeardUpTo(k) <= toClient[1].version
      /\ ContentAt(k, toClient[1].version) = ContentAt(k, HeardUpTo(k))
      /\ HeardUpTo(k) # 0 => WrittenAt(k, toClient[1].version) <= HeardUpTo(k)
  BY <1>1, <1>2, CoveredContent DEF Types
<1>4. ASSUME updates[k] # Invalid
      PROVE  HeardUpTo(k) # 0 /\ (Found(updates[k]) <=> ContentAt(k, HeardUpTo(k)) # 0)
  <2>1. IsTrue(k, updates[k]) /\ Says(updates[k]) /\ HeardUpTo(k) = updates[k].version
    BY <1>1, <1>4 DEF DocsTrue, HeardUpTo
  <2> QED
    BY <2>1 DEF IsTrue, Says, Found
<1>5. ASSUME updates[k] = Invalid
      PROVE  view[k].synced <=> ContentAt(k, HeardUpTo(k)) # 0
  BY <1>1, <1>5 DEF HeardUpTo, Targets, Matches
<1>6. view[k].synced /\ updates[k] = Invalid => HeardUpTo(k) # 0
  BY <1>5, WrittenNever DEF Types
<1>7. k \in With <=> aggregator[k].change = "Added"
  BY DEF With
<1>8. k \in Without <=> aggregator[k].change = "Removed"
  BY DEF Without
<1>9. SyncedBy(k) <=> ContentAt(k, toClient[1].version) # 0
  <2>1. CASE updates[k] = Invalid
    <3>1. k \notin With /\ k \notin Without
      BY <1>1, <1>7, <1>8, <2>1 DEF ChangeFits
    <3> QED
      BY <1>3, <1>5, <2>1, <3>1 DEF SyncedBy
  <2>2. CASE updates[k] # Invalid
    <3>1. aggregator[k].change = DocumentChange(k, updates[k])
      BY <1>1, <2>2 DEF ChangeFits
    <3>2. SyncedBy(k) <=> Found(updates[k])
      BY <1>7, <1>8, <3>1 DEF SyncedBy, DocumentChange
    <3> QED
      BY <1>3, <1>4, <2>2, <3>2
  <2> QED
    BY <2>1, <2>2
<1> QED
  BY <1>2, <1>3, <1>4, <1>5, <1>6, <1>9

\* The documents of the snapshot are true.
LEMMA NewsTrue ==
    ASSUME Types, StreamInv, DocsTrue, Targets, GlobalSnapshot,
           NEW v, v = toClient[1].version, NEW k \in Key
    PROVE  /\ DocumentUpdates(v)[k] # Invalid => /\ IsTrue(k, DocumentUpdates(v)[k])
                                                 /\ Says(DocumentUpdates(v)[k])
           /\ DocumentUpdates(v)[k] = IF Missing(k) THEN NoDocument(v, "synced") ELSE updates[k]
<1>1. DocumentUpdates(v)[k] = IF Missing(k) THEN NoDocument(v, "synced") ELSE updates[k]
  BY DEF DocumentUpdates
<1>2. ASSUME Missing(k)
      PROVE  IsTrue(k, NoDocument(v, "synced")) /\ Says(NoDocument(v, "synced"))
  <2>1. k \in Changed /\ updates[k] = Invalid /\ ~ view[k].synced
    BY <1>2 DEF Missing
  <2>2. ContentAt(k, v) = 0
    BY <2>1, ChangedContent
  <2>3. v \in 1 .. Clock
    BY SnapshotRaised
  <2> QED
    BY <2>2, <2>3 DEF IsTrue, Says, NoDocument
<1> QED
  BY <1>1, <1>2 DEF DocsTrue

LEMMA DocsAre ==
    ASSUME NEW v, NEW k \in Key
    PROVE  /\ Docs(v)[k] = IF Accepts(cache[k], DocumentUpdates(v)[k])
                           THEN DocumentUpdates(v)[k] ELSE cache[k]
           /\ Accepts(cache[k], DocumentUpdates(v)[k]) => DocumentUpdates(v)[k] # Invalid
  BY DEF Docs, Accepted, Accepts

LEMMA AcceptedTrue ==
    ASSUME Types, StreamInv, DocsTrue, Targets, GlobalSnapshot,
           NEW v, v = toClient[1].version, NEW k \in Key
    PROVE  IsTrue(k, Docs(v)[k])
  BY NewsTrue, DocsAre DEF DocsTrue

\* A document that covers what was written up to t still does.
LEMMA AcceptedCovers ==
    ASSUME Types, StreamInv, DocsTrue, Targets, GlobalSnapshot,
           NEW v, v = toClient[1].version, NEW k \in Key, NEW t, Covers(cache[k], k, t)
    PROVE  Covers(Docs(v)[k], k, t)
<1>1. CASE Accepts(cache[k], DocumentUpdates(v)[k])
  <2>1. Docs(v)[k].type # "unknown"
    BY <1>1, NewsTrue, DocsAre DEF Says
  <2>2. v \in 1 .. Clock
    BY SnapshotRaised
  <2>3. Docs(v)[k].version >= cache[k].version
    BY <2>2, AcceptedForward
  <2>4. Docs(v)[k].version \in Nat /\ cache[k].version \in Nat /\ WrittenAt(k, t) \in Nat
    <3>1. WrittenAt(k, t) \in Nat
      BY WrittenAtIs, LogTyped DEF Types
    <3> QED
      BY <2>2, <3>1, DocsType, CacheTyped, VersionNat
  <2> QED
    BY <2>1, <2>3, <2>4 DEF Covers
<1>2. CASE ~ Accepts(cache[k], DocumentUpdates(v)[k])
  BY <1>2, DocsAre
<1> QED
  BY <1>1, <1>2

\* A commit whose document is not known is not covered by the snapshot, unless it
\* is ahead of it.
LEMMA UnknownAhead ==
    ASSUME WritesOK, NEW k, NEW d \in Known, IsTrue(k, d), d.type = "unknown",
           NEW v \in Nat, NEW w \in Nat, WrittenAt(k, v) <= w, w < d.version
    PROVE  v < d.version
<1>1. d.version \in Nat /\ WrittenAt(k, d.version) = d.version
  BY VersionNat DEF IsTrue
<1>2. d.version <= v => d.version <= WrittenAt(k, v)
  BY <1>1, WrittenBetween
<1>3. WrittenAt(k, v) \in Nat
  BY WrittenAtIs, LogTyped
<1> QED
  BY <1>1, <1>2, <1>3

LEMMA ChangedCovers ==
    ASSUME Types, StreamInv, DocsTrue, Targets, GlobalSnapshot,
           NEW v, v = toClient[1].version, NEW k \in Changed
    PROVE  Covers(Docs(v)[k], k, v)
<1>1. k \in Key /\ view[k].on /\ aggregator[k].current
  BY ChangedHears
<1>2. v \in Nat /\ WrittenAt(k, v) \in Nat /\ WrittenAt(k, v) <= v
  <2>1. v \in 1 .. Clock /\ Clock \in Nat
    BY SnapshotRaised, LogTyped DEF Types
  <2>2. v \in Nat
    BY <2>1
  <2> QED
    BY <2>2, WrittenAtIs, WrittenBetween, LogTyped DEF Types
<1>3. PICK d \in Known : d = cache[k] /\ IsTrue(k, d)
  BY <1>1, CacheTyped DEF DocsTrue
<1>4. PICK n : n = DocumentUpdates(v)[k]
  OBVIOUS
<1>5. d.version \in Nat
  BY <1>3, VersionNat
<1>6. ASSUME n # Invalid
      PROVE  n.version \in Nat /\ WrittenAt(k, v) <= n.version /\ n.type # "unknown"
  <2>1. Says(n)
    BY <1>1, <1>4, <1>6, NewsTrue
  <2>2. n \in Known
    BY <1>1, <1>4, SnapshotRaised, NewsTypes
  <2>3. CASE Missing(k)
    <3>1. n = NoDocument(v, "synced")
      BY <1>1, <1>4, <2>3, NewsTrue
    <3>2. n.version = v
      BY <3>1 DEF NoDocument
    <3> QED
      BY <1>2, <2>1, <3>2 DEF Says
  <2>4. CASE ~ Missing(k)
    <3>1. n = updates[k] /\ updates[k] # Invalid /\ HeardUpTo(k) = n.version
      BY <1>1, <1>4, <1>6, <2>4, NewsTrue DEF HeardUpTo
    <3>2. WrittenAt(k, v) <= HeardUpTo(k)
      BY <3>1, ChangedContent
    <3> QED
      BY <2>1, <2>2, <3>1, <3>2, VersionNat DEF Says
  <2> QED
    BY <2>3, <2>4
<1>7. CASE Accepts(d, n)
  BY <1>1, <1>3, <1>4, <1>6, <1>7, DocsAre DEF Covers
<1>8. CASE ~ Accepts(d, n) /\ n # Invalid
  <2>1. Docs(v)[k] = d
    BY <1>1, <1>3, <1>4, <1>8, DocsAre
  <2>2. n.version <= d.version /\ (d.type = "unknown" => n.version < d.version)
    BY <1>3, <1>5, <1>6, <1>8 DEF Accepts, IsTrue
  <2>3. d.type = "unknown" => v < d.version
    BY <1>2, <1>3, <1>6, <1>8, <2>2, UnknownAhead DEF Types
  <2> QED
    BY <1>2, <1>5, <1>6, <1>8, <2>1, <2>2, <2>3 DEF Covers
<1>9. CASE n = Invalid
  <2>1. Docs(v)[k] = d
    BY <1>1, <1>3, <1>4, <1>9, DocsAre
  <2>2. ~ Missing(k)
    <3>1. NoDocument(v, "synced") # Invalid
      BY DEF NoDocument, Invalid
    <3> QED
      BY <1>1, <1>4, <1>9, <3>1, NewsTrue
  <2>3. updates[k] = Invalid /\ view[k].synced
    BY <1>1, <1>4, <1>9, <2>2, NewsTrue DEF Missing
  <2>4. HeardUpTo(k) # 0 /\ HeardUpTo(k) = view[k].token /\ view[k].token \in Nat
    BY <2>3, ChangedContent DEF HeardUpTo
  <2>5. WrittenAt(k, v) <= view[k].token /\ view[k].token <= v
    BY <2>4, ChangedContent
  <2>6. WrittenAt(k, view[k].token) = WrittenAt(k, v)
    BY <1>2, <2>4, <2>5, WrittenBetween DEF Types
  <2>7. Covers(d, k, view[k].token)
    BY <1>1, <1>3 DEF Targets
  <2>8. d.type = "unknown" => v < d.version
    BY <1>2, <1>3, <2>4, <2>5, <2>7, UnknownAhead DEF Covers, Types
  <2> QED
    BY <2>1, <2>6, <2>7, <2>8 DEF Covers
<1> QED
  BY <1>7, <1>8, <1>9

-----------------------------------------------------------------------------
(* Every step keeps the documents true.                                    *)

\* The documents that a step puts into the cache.
LEMMA CacheNext ==
    ASSUME Types, StreamInv, AcksTrue, Targets, DocsTrue, [Next]_vars, NEW k \in Key
    PROVE  cache'[k] \in Known /\ IsTrue(k, cache'[k])
<1>1. cache[k] \in Known /\ IsTrue(k, cache[k])
  BY CacheTyped DEF DocsTrue
<1>2. CASE HandleSuccessfulWrite
  <2>1. /\ acks # << >>
        /\ cache'[k] = IF k = Head(queue[currentUser]).key
                       THEN ApplyBatchResult(cache[k], Head(queue[currentUser]), Head(acks))
                       ELSE cache[k]
    BY <1>2, BatchCache
  <2>2. Head(queue[currentUser]) \in Mutation /\ Head(acks) \in 1 .. Clock
    BY <2>1, AcksAwaited, HeadTypes
  <2>3. ApplyBatchResult(cache[k], Head(queue[currentUser]), Head(acks)) \in Known
    BY <1>1, <2>2, BatchResultType
  <2> QED
    BY <1>1, <2>1, <2>3, BatchTrue
<1>3. CASE GlobalSnapshot
  <2>1. PICK v \in 1 .. Clock : v = toClient[1].version /\ cache' = Docs(v)
    BY <1>3, SnapshotRaised, RaiseParts
  <2> QED
    BY <1>3, <2>1, AcceptedTrue, DocsType
<1>4. CASE ~ HandleSuccessfulWrite /\ ~ GlobalSnapshot
  BY <1>1, <1>4, CacheStays
<1> QED
  BY <1>2, <1>3, <1>4

LEMMA DocsTrueNext ==
    ASSUME Types, WritesOK', StreamInv, AcksTrue, Targets, DocsTrue, [Next]_vars
    PROVE  DocsTrue'
<1>1. \A k : \A d \in Known : IsTrue(k, d) => IsTrue(k, d)'
  BY LogNext, TrueStays
<1>2. ASSUME NEW k \in Key PROVE IsTrue(k, cache[k])'
  <2>1. PICK d \in Known : d = cache'[k] /\ IsTrue(k, d)
    BY CacheNext
  <2>2. IsTrue(k, d)'
    BY <1>1, <2>1
  <2> QED
    BY <2>1, <2>2
<1>3. \A d : Says(d)' <=> Says(d)
  BY DEF Says
<1>4. ASSUME NEW i \in DOMAIN toClient, toClient[i].kind = "doc"
      PROVE  /\ toClient[i].doc \in Known /\ IsTrue(toClient[i].key, toClient[i].doc)
             /\ Says(toClient[i].doc)
  BY <1>4, MessageTypes DEF DocsTrue
<1>5. ASSUME NEW k \in Key, updates'[k] # Invalid PROVE IsTrue(k, updates[k])' /\ Says(updates[k])'
  <2>1. PICK d \in Known : d = updates'[k] /\ IsTrue(k, d) /\ Says(d)
    BY <1>4, <1>5, UpdatesNext, WatchTyped DEF DocsTrue
  <2>2. IsTrue(k, d)'
    BY <1>1, <2>1
  <2> QED
    BY <1>3, <2>1, <2>2
<1>6. ASSUME NEW i \in DOMAIN toClient', toClient'[i].kind = "doc"
      PROVE  IsTrue(toClient[i].key, toClient[i].doc)' /\ Says(toClient[i].doc)'
  <2>1. PICK m : m = toClient'[i]
    OBVIOUS
  <2>2. CASE \E j \in DOMAIN toClient : m = toClient[j]
    <3>1. m.doc \in Known /\ IsTrue(m.key, m.doc) /\ Says(m.doc)
      BY <1>4, <1>6, <2>1, <2>2
    <3>2. IsTrue(m.key, m.doc)'
      BY <1>1, <3>1
    <3> QED
      BY <1>3, <2>1, <3>1, <3>2
  <2>3. CASE log' = log /\ \E k \in Key : News(k, m)
    <3>1. IsTrue(m.key, m.doc) /\ Says(m.doc)
      BY <1>6, <2>1, <2>3 DEF News
    <3>2. IsTrue(m.key, m.doc)'
      BY <2>3, <3>1 DEF IsTrue, ContentAt, WrittenAt
    <3> QED
      BY <1>3, <2>1, <3>1, <3>2
  <2> QED
    BY <1>6, <2>1, <2>2, <2>3, MessagesNext DEF OldOrNews
<1> QED
  BY <1>2, <1>5, <1>6 DEF DocsTrue

-----------------------------------------------------------------------------
(* Every step keeps what is known of the targets.                          *)

\* Version t may be saved of k, or be the one of k's view.
GoodToken(k, t) == (k \in matching <=> ContentAt(k, t) # 0) /\ Covers(cache[k], k, t)

LEMMA TargetsAreGood ==
    ASSUME MatchKnown
    PROVE  Targets <=> \A k \in Key : GoodToken(k, saved[k]) /\ (view[k].on => GoodToken(k, view[k].token))
  BY DEF MatchKnown, Targets, Matches, GoodToken

LEMMA CoversStay ==
    ASSUME Types, WritesOK', StreamInv, AcksTrue, Targets, DocsTrue, [Next]_vars, ~ GlobalSnapshot,
           NEW k \in Key, NEW t \in 0 .. Clock, Covers(cache[k], k, t)
    PROVE  Covers(cache[k], k, t)'
<1>1. WrittenAt(k, t)' = WrittenAt(k, t) /\ WrittenAt(k, t) \in Nat /\ t \in Nat
  BY LogNext, WrittenStays, WrittenAtIs, LogTyped DEF Types
<1>2. CASE cache'[k] = cache[k]
  BY <1>1, <1>2 DEF Covers
<1>3. CASE HandleSuccessfulWrite /\ cache'[k] # cache[k]
  <2>1. PICK d \in Known : d = cache'[k] /\ IsTrue(k, d)
    BY CacheNext
  <2>2. PICK w \in Nat : w = cache[k].version
    BY CacheTyped, VersionNat
  <2>3. PICK m, a : /\ m \in Mutation /\ a \in 1 .. Clock
                    /\ d = ApplyBatchResult(cache[k], m, a)
    <3>1. Head(queue[currentUser]) \in Mutation /\ Head(acks) \in 1 .. Clock
      BY <1>3, BatchCache, AcksAwaited, HeadTypes
    <3> QED
      BY <1>3, <2>1, <3>1, BatchCache
  <2>4. w < d.version
    <3>1. w < a /\ d = ApplyToRemoteDocument(m, cache[k], a)
      BY <1>3, <2>1, <2>2, <2>3 DEF ApplyBatchResult
    <3>2. d.version = a
      BY <3>1 DEF ApplyToRemoteDocument, NoDocument, FoundDocument
    <3> QED
      BY <3>1, <3>2
  <2>5. WrittenAt(k, t) <= w
    BY <2>2 DEF Covers
  <2>6. d.type = "unknown" => t < d.version
    BY <1>1, <2>1, <2>4, <2>5, UnknownAhead DEF Types
  <2>7. d.version \in Nat
    BY VersionNat
  <2> QED
    BY <1>1, <2>1, <2>4, <2>5, <2>6, <2>7 DEF Covers
<1> QED
  BY <1>2, <1>3, CacheStays

LEMMA TargetsKept ==
    ASSUME Types, WritesOK', StreamInv, AcksTrue, Targets, DocsTrue, Watched, MatchKnown, MatchKnown',
           [Next]_vars, ~ GlobalSnapshot
    PROVE  Targets'
<1>1. ~ TargetError
  BY NoDenial
<1>2. ASSUME NEW k \in Key
      PROVE  GoodToken(k, saved[k])' /\ (view'[k].on => GoodToken(k, view[k].token)')
  <2>1. TargetStays(k)
    BY <1>1, TargetsStay
  <2>2. \A t \in 0 .. Clock : GoodToken(k, t) => GoodToken(k, t)'
    <3> SUFFICES ASSUME NEW t \in 0 .. Clock, GoodToken(k, t) PROVE GoodToken(k, t)'
      OBVIOUS
    <3>1. Covers(cache[k], k, t)'
      BY CoversStay DEF GoodToken
    <3>2. ContentAt(k, t)' = ContentAt(k, t)
      BY LogNext, WrittenStays DEF Types
    <3> QED
      BY <2>1, <3>1, <3>2 DEF GoodToken, TargetStays
  <2>3. /\ saved[k] \in 0 .. Clock /\ view[k].token \in 0 .. Clock
        /\ GoodToken(k, saved[k]) /\ (view[k].on => GoodToken(k, view[k].token))
    BY TargetsAreGood, ReaderTyped DEF Types, CacheOK, View
  <2>4. PICK t \in 0 .. Clock : t = saved'[k] /\ GoodToken(k, t)
    BY <2>1, <2>3 DEF TargetStays
  <2>5. GoodToken(k, saved[k])'
    <3>1. GoodToken(k, t)'
      BY <2>2, <2>4
    <3> QED
      BY <2>4, <3>1
  <2>6. ASSUME view'[k].on PROVE GoodToken(k, view[k].token)'
    <3>1. PICK u \in 0 .. Clock : u = view'[k].token /\ GoodToken(k, u)
      BY <2>1, <2>3, <2>6 DEF TargetStays, ViewKept
    <3>2. GoodToken(k, u)'
      BY <2>2, <3>1
    <3> QED
      BY <3>1, <3>2
  <2> QED
    BY <2>5, <2>6
<1>3. MatchKnown' => (Targets' <=> \A k \in Key : GoodToken(k, saved[k])' /\ (view'[k].on => GoodToken(k, view[k].token)'))
  BY DEF MatchKnown, Targets, Matches, GoodToken
<1> QED
  BY <1>2, <1>3

LEMMA TargetsSnapshot ==
    ASSUME Types, StreamInv, Targets, DocsTrue, MatchKnown, GlobalSnapshot
    PROVE  Targets'
<1>1. PICK v \in 1 .. Clock, aged \in BOOLEAN :
         v = toClient[1].version /\ RaiseWatchSnapshot(v, aged) /\ log' = log
  BY SnapshotRaised
<1>2. /\ cache' = Docs(v) /\ matching' = (matching \cup With) \ Without
      /\ saved' = [k \in Key |-> IF k \in Changed /\ Persists(k, aged) THEN v ELSE saved[k]]
      /\ Publish(Views(v), NowOnline, gets, listeners)
  BY <1>1, RaiseParts
<1>3. \A k, t : ContentAt(k, t)' = ContentAt(k, t)
  BY <1>1 DEF ContentAt, WrittenAt
<1>4. \A k, t : Covers(Docs(v)[k], k, t) => Covers(cache[k], k, t)'
  BY <1>1, <1>2 DEF Covers, WrittenAt
<1>5. MatchKnown'
  BY GlobalSnapshotMatching
<1>6. \A k \in Key : /\ view'[k].on = view[k].on
                     /\ view'[k].token = IF k \in Changed THEN v ELSE view[k].token
  <2>1. Views(v) \in [Key -> View]
    BY ViewsTypes
  <2>2. \A k \in Key : view'[k].on = Views(v)[k].on /\ view'[k].token = Views(v)[k].token
    BY <1>2, <2>1, PublishViews
  <2> QED
    BY <2>2, ViewsTypes
<1>7. ASSUME NEW k \in Key
      PROVE  GoodToken(k, saved[k])' /\ (view'[k].on => GoodToken(k, view[k].token)')
  <2>1. GoodToken(k, saved[k]) /\ (view[k].on => GoodToken(k, view[k].token))
    BY TargetsAreGood
  <2>2. \A t : GoodToken(k, t) => Covers(cache[k], k, t)'
    BY <1>1, <1>4, AcceptedCovers DEF GoodToken
  <2>3. CASE k \notin Changed
    <3>1. k \in matching' <=> k \in matching
      BY <1>2, <2>3 DEF With, Without
    <3>2. saved'[k] = saved[k] /\ view'[k].on = view[k].on /\ view'[k].token = view[k].token
      BY <1>2, <1>6, <2>3
    <3>3. \A t : GoodToken(k, t) => GoodToken(k, t)'
      BY <1>3, <2>2, <3>1 DEF GoodToken
    <3> QED
      BY <2>1, <3>2, <3>3
  <2>4. CASE k \in Changed
    <3>1. view[k].on /\ view'[k].token = v
      BY <1>6, <2>4 DEF Changed, IsActiveTarget
    <3>2. k \in matching' <=> ContentAt(k, v) # 0
      <4>1. k \in matching' <=> SyncedBy(k)
        BY <1>2, <3>1 DEF MatchKnown, SyncedBy
      <4> QED
        BY <1>1, <2>4, <4>1, ChangedContent
    <3>3. GoodToken(k, v)'
      BY <1>1, <1>3, <1>4, <2>4, <3>2, ChangedCovers DEF GoodToken
    <3>4. CASE Persists(k, aged)
      <4>1. saved'[k] = v
        BY <1>2, <2>4, <3>4
      <4> QED
        BY <3>1, <3>3, <4>1
    <3>5. CASE ~ Persists(k, aged)
      <4>1. saved'[k] = saved[k] /\ aggregator[k].change = "None"
        BY <1>2, <3>5 DEF Persists
      <4>2. k \in matching' <=> k \in matching
        BY <1>2, <4>1 DEF With, Without
      <4>3. GoodToken(k, saved[k])'
        <5>1. \A t : GoodToken(k, t) => GoodToken(k, t)'
          BY <1>3, <2>2, <4>2 DEF GoodToken
        <5> QED
          BY <2>1, <4>1, <5>1
      <4> QED
        BY <3>1, <3>3, <4>3
    <3> QED
      BY <3>4, <3>5
  <2> QED
    BY <2>3, <2>4
<1>8. MatchKnown' => (Targets' <=> \A k \in Key : GoodToken(k, saved[k])' /\ (view'[k].on => GoodToken(k, view[k].token)'))
  BY DEF MatchKnown, Targets, Matches, GoodToken
<1> QED
  BY <1>5, <1>7, <1>8

-----------------------------------------------------------------------------
(* What views say.                                                         *)

LEMMA TargetsAreCurrent ==
    ASSUME Types, Targets, DocsTrue
    PROVE  SyncedIsCurrent
<1> SUFFICES ASSUME NEW k \in Key, view[k].on
             PROVE  IF cache[k].version > view[k].token
                    THEN cache[k].type # "invalid"
                    ELSE /\ cache[k].type # "unknown"
                         /\ cache[k].content = ContentAt(k, view[k].token)
  BY DEF SyncedIsCurrent
<1>1. PICK d \in Known : d = cache[k] /\ IsTrue(k, d) /\ Covers(d, k, view[k].token)
  BY CacheTyped DEF DocsTrue, Targets
<1>2. PICK t \in Nat : t = view[k].token
  BY ReaderTyped, LogTyped DEF View, Types
<1>3. /\ d.version \in Nat /\ d.type \in {"invalid", "found", "none", "unknown"}
      /\ d.type = "invalid" => d.version = 0 /\ d.content = 0
  BY InvalidType DEF Known, Doc, Document, Invalid
<1>4. ASSUME d.version <= t
      PROVE  d.type # "unknown" /\ d.content = ContentAt(k, t)
  <2>1. d.type # "unknown" /\ ContentAt(k, d.version) = ContentAt(k, t)
    BY <1>1, <1>2, <1>3, <1>4, WrittenBetween DEF Covers, Types
  <2>2. d.content = ContentAt(k, d.version)
    BY <1>1, <1>3, <2>1, WrittenNever DEF IsTrue, Types
  <2> QED
    BY <2>1, <2>2
<1> QED
  BY <1>1, <1>2, <1>3, <1>4

\* A local document that no write of the user has made is that of the cache.
LEMMA LocalIsCached ==
    ASSUME NEW d, NEW k, NEW S, NEW q \in Seq(S),
           Found(GetDocument(d, q, k)), GetDocument(d, q, k).state # "local"
    PROVE  GetDocument(d, q, k) = d
<1>1. PICK local : Overlays(local, d, q, k) /\ GetDocument(d, q, k) = local[Len(q)]
  BY LocalView
<1>2. PICK n \in Nat : n = Len(q)
  OBVIOUS
<1> DEFINE Unwritten(x) == x = d \/ ~ Found(x) \/ x.state = "local"
           T == {i \in 0 .. n : Unwritten(local[i])}
<1>3. \A m, x : Unwritten(x) => Unwritten(ApplyToLocalView(m, x))
  BY DEF ApplyToLocalView, NoDocument, FoundDocument, Found
<1>4. 0 \in T /\ T \in SUBSET (0 .. n)
  BY <1>1 DEF Overlays
<1>5. ASSUME NEW i \in 0 .. n - 1, i \in T
      PROVE  i + 1 \in T
  <2>1. i + 1 \in 1 .. n /\ i + 1 \in 0 .. n /\ (i + 1) - 1 = i
    BY <1>2
  <2>2. local[i + 1] = local[i] \/ local[i + 1] = ApplyToLocalView(q[i + 1], local[i])
    BY <1>1, <1>2, <2>1 DEF Overlays
  <2>3. Unwritten(local[i])
    BY <1>5
  <2>4. Unwritten(local[i + 1])
    <3> HIDE DEF Unwritten
    <3> QED
      BY <1>3, <2>2, <2>3
  <2> QED
    BY <2>1, <2>4
<1>6. T = 0 .. n
  <2> HIDE DEF T
  <2> QED
    BY <1>2, <1>4, <1>5, UpTo
<1>7. Unwritten(local[n])
  BY <1>2, <1>6
<1> QED
  BY <1>1, <1>2, <1>7

\* A document in limbo is ahead of its view's snapshots.
InLimboAhead == \A k \in Key : view[k].on /\ InLimbo(view[k]) => cache[k].version > view[k].token

LEMMA LimboExplained ==
    ASSUME Types, ShowsLocal, Targets, DocsTrue
    PROVE  InLimboAhead
<1> SUFFICES ASSUME NEW k \in Key, view[k].on, InLimbo(view[k])
             PROVE  cache[k].version > view[k].token
  BY DEF InLimboAhead
<1>1. Fits(view[k].doc, Local(k)) /\ Found(view[k].doc) /\ view[k].doc.state # "local" /\ ~ view[k].synced
  BY DEF ShowsLocal, InLimbo
<1>2. Found(Local(k)) /\ Local(k).state # "local"
  BY <1>1, Zenon DEF Fits, Agrees
<1>3. Local(k) = cache[k]
  <2>1. queue[currentUser] \in Seq(Mutation)
    BY DEF Types, WritesOK
  <2> QED
    BY <1>2, <2>1, LocalIsCached DEF Local
<1>4. PICK d \in Known : d = cache[k] /\ IsTrue(k, d) /\ Covers(d, k, view[k].token)
  BY CacheTyped DEF DocsTrue, Targets
<1>5. PICK t \in Nat : t = view[k].token /\ ContentAt(k, t) = 0
  <2>1. ContentAt(k, view[k].token) = 0
    BY <1>1 DEF Targets, Matches
  <2> QED
    BY <2>1, ReaderTyped, LogTyped DEF View, Types
<1>6. d.version \in Nat /\ ContentAt(k, d.version) # 0
  BY <1>2, <1>3, <1>4, VersionNat DEF IsTrue, Found
<1>7. ~ d.version <= t
  BY <1>4, <1>5, <1>6, WrittenBetween DEF Covers, Types
<1> QED
  BY <1>4, <1>5, <1>6, <1>7

\* What a snapshot makes of a view.
LEMMA SnapshotViews ==
    ASSUME Types, StreamInv, GlobalSnapshot, NEW k \in Key
    PROVE  /\ view'[k].on = view[k].on /\ view'[k].since = view[k].since
           /\ k \in Changed => view'[k].token = toClient[1].version
           /\ k \notin Changed => /\ view'[k].token = view[k].token
                                  /\ view'[k].current => view[k].current
           /\ view'[k].limbo => \/ view[k].limbo /\ k \notin Changed
                                \/ view'[k].on /\ InLimbo(view'[k])
<1>1. PICK v \in 1 .. Clock : v = toClient[1].version /\ Publish(Views(v), NowOnline, gets, listeners)
  BY SnapshotRaised, RaiseParts
<1>2. Views(v) \in [Key -> View]
  BY ViewsTypes
<1>3. /\ view'[k].on = Views(v)[k].on /\ view'[k].token = Views(v)[k].token
      /\ view'[k].doc = Views(v)[k].doc /\ view'[k].synced = Views(v)[k].synced
      /\ view'[k].since = Views(v)[k].since /\ view'[k].limbo = Views(v)[k].limbo
      /\ view'[k].current => Views(v)[k].current
  BY <1>1, <1>2, PublishViews, PublishLimbo
<1>4. /\ Views(v)[k].on = view[k].on /\ Views(v)[k].since = view[k].since
      /\ k \in Changed => Views(v)[k].token = v
      /\ k \notin Changed => Views(v)[k].token = view[k].token /\ Views(v)[k].current = view[k].current
  BY ViewsTypes, ViewsLimbo
<1>5. InLimbo(Views(v)[k]) => InLimbo(view'[k])
  BY <1>3 DEF InLimbo
<1>6. k \in Changed => aggregator[k].current
  BY ChangedHears
<1>7. Views(v)[k].limbo => \/ view[k].limbo /\ (k \in Changed => ~ aggregator[k].current)
                           \/ view[k].on /\ InLimbo(Views(v)[k])
  BY ViewsLimbo
<1> QED
  BY <1>1, <1>3, <1>4, <1>5, <1>6, <1>7

LEMMA FreshNext ==
    ASSUME Types, StreamInv, Watched, SyncedIsFresh, [Next]_vars
    PROVE  SyncedIsFresh'
<1> SUFFICES ASSUME NEW k \in Key, view'[k].on, view'[k].current
             PROVE  view'[k].token >= view'[k].since
  BY DEF SyncedIsFresh
<1>1. view[k].on /\ view[k].current => view[k].token >= view[k].since
  BY DEF SyncedIsFresh
<1>2. CASE GlobalSnapshot
  <2>1. CASE k \in Changed
    <3>1. view[k].since <= toClient[1].version
      BY <1>2, <2>1, ChangedHears
    <3>2. view[k].since \in Nat /\ toClient[1].version \in Nat
      <4>1. toClient[1].version \in 1 .. Clock
        BY <1>2, SnapshotRaised
      <4> QED
        BY <4>1, ReaderTyped, LogTyped DEF View, Types
    <3> QED
      BY <1>2, <2>1, <3>1, <3>2, SnapshotViews
  <2>2. CASE k \notin Changed
    BY <1>1, <1>2, <2>2, SnapshotViews
  <2> QED
    BY <2>1, <2>2
<1>3. CASE ~ GlobalSnapshot
  <2>1. TargetStays(k)
    BY <1>3, NoDenial, TargetsStay
  <2> QED
    BY <1>1, <2>1 DEF TargetStays, ViewKept
<1> QED
  BY <1>2, <1>3

LEMMA LimboNext ==
    ASSUME Types, Types', StreamInv, Watched, LimboIsAhead, InLimboAhead', [Next]_vars
    PROVE  LimboIsAhead'
<1> SUFFICES ASSUME NEW k \in Key, view'[k].limbo
             PROVE  cache'[k].version > view'[k].token
  BY DEF LimboIsAhead
<1>1. /\ view[k].limbo => cache[k].version > view[k].token
      /\ view'[k].on /\ InLimbo(view'[k]) => cache'[k].version > view'[k].token
  BY DEF LimboIsAhead, InLimboAhead
<1>2. /\ cache'[k].version >= cache[k].version
      /\ cache'[k].version \in Nat /\ cache[k].version \in Nat /\ view[k].token \in Nat
  <2>1. Forward
    BY CommitForward, SnapshotForward, CacheStays, CacheTyped, VersionNat DEF Forward
  <2>2. cache'[k].version \in Nat
    BY DEF Types, CacheOK, Known, Doc, Document
  <2> QED
    BY <2>1, <2>2, CacheTyped, VersionNat, ReaderTyped, LogTyped DEF Forward, View, Types
<1>3. CASE view[k].limbo /\ view'[k].token = view[k].token
  BY <1>1, <1>2, <1>3
<1>4. CASE GlobalSnapshot
  BY <1>1, <1>3, <1>4, SnapshotViews
<1>5. CASE ~ GlobalSnapshot
  <2>1. TargetStays(k)
    BY <1>5, NoDenial, TargetsStay
  <2> QED
    BY <1>1, <1>3, <2>1 DEF TargetStays, ViewKept
<1> QED
  BY <1>4, <1>5

-----------------------------------------------------------------------------
(* The theorems.                                                           *)

WatchInv == StreamInv /\ AcksTrue /\ Targets /\ DocsTrue /\ Watched /\ MatchKnown

LEMMA WatchInit ==
    ASSUME Types, Init
    PROVE  WatchInv
<1>1. /\ toServer = << >> /\ toClient = << >> /\ stream.state = "Initial"
      /\ \A k \in Key : aggregator[k] = NoTarget /\ updates[k] = Invalid /\ sub[k] = NoSub
      /\ \A k \in Key : cache[k] = Invalid /\ saved[k] = 0 /\ view[k] = NoView /\ listeners[k] = {}
      /\ matching = {} /\ acks = << >>
  BY DEF Init
<1>2. \A k \in Key : /\ Asked(k) = {} /\ Cardinality(Asked(k)) = 0
                     /\ Answers(k) = {} /\ Cardinality(Answers(k)) = 0
  <2>1. \A k \in Key : Asked(k) = {} /\ Answers(k) = {}
    BY <1>1 DEF Asked, Answers
  <2> QED
    BY <2>1, FS_EmptySet
<1>3. StreamInv
  <2>1. NoErrors /\ StreamClosed /\ Ordered /\ Blocks /\ Heard
    BY <1>1 DEF NoErrors, StreamClosed, NothingHeard, Ordered, Snapshots, Blocks, Heard
  <2>2. Counts
    BY <1>1, <1>2 DEF Counts, NoTarget
  <2> QED
    BY <2>1, <2>2 DEF StreamInv
<1>4. NoView.on = FALSE /\ NoTarget.change = "None"
      /\ Invalid.version = 0 /\ Invalid.content = 0 /\ Invalid.type = "invalid"
  BY DEF NoView, NoTarget, Invalid
<1>5. \A k \in Key : WrittenAt(k, 0) = 0 /\ ContentAt(k, 0) = 0
  BY WrittenNever DEF Types
<1>6. Targets
  BY <1>1, <1>4, <1>5 DEF Targets, Matches, Covers
<1>7. DocsTrue
  BY <1>1, <1>4 DEF DocsTrue, IsTrue
<1>8. AcksTrue /\ Watched /\ MatchKnown
  BY <1>1, <1>4 DEF AcksTrue, Watched, MatchKnown
<1> QED
  BY <1>3, <1>6, <1>7, <1>8 DEF WatchInv

LEMMA WatchNext ==
    ASSUME MaxDenials = 0, Types, Types', WatchInv, [Next]_vars
    PROVE  WatchInv'
<1>1. WritesOK'
  BY DEF Types
<1>2. MatchKnown'
  BY MatchingStays, GlobalSnapshotMatching DEF WatchInv
<1>3. StreamInv' /\ AcksTrue' /\ DocsTrue'
  BY <1>1, NextStream, AcksNext, DocsTrueNext DEF WatchInv
<1>4. Watched'
  BY NoDenial, WatchedNext DEF WatchInv
<1>5. Targets'
  BY <1>1, <1>2, TargetsKept, TargetsSnapshot DEF WatchInv
<1> QED
  BY <1>2, <1>3, <1>4, <1>5 DEF WatchInv

LEMMA WatchHolds ==
    ASSUME MaxDenials = 0
    PROVE  Spec => [](Types /\ WatchInv /\ ShowsLocal)
<1>1. Init => ShowsLocal
  BY DEF Init, NoView, ShowsLocal
<1>2. Init => Types /\ WatchInv
  BY InitTypes, WatchInit
<1>3. Types /\ WatchInv /\ ShowsLocal /\ [Next]_vars => (Types /\ WatchInv /\ ShowsLocal)'
  <2>1. Types /\ [Next]_vars => Types'
    BY NextTypes
  <2>2. Types /\ Types' /\ WatchInv /\ [Next]_vars => WatchInv'
    BY WatchNext
  <2>3. Types /\ ShowsLocal /\ [Next]_vars => ShowsLocal'
    BY NextLocal
  <2> QED
    BY <2>1, <2>2, <2>3
<1> QED
  BY <1>1, <1>2, <1>3, PTL DEF Spec

\* Whatever of an acknowledgement and a snapshot comes first, and whosever user's
\* write it was, what the cache says of a document was true on the server at the
\* version the cache gives it (ApplyBatchResult, PopulateDocumentChanges).
THEOREM CacheIsTrue ==
    ASSUME MaxDenials = 0
    PROVE  Spec => []CacheTrue
<1>1. DocsTrue => CacheTrue
  BY DEF DocsTrue, IsTrue, CacheTrue
<1>2. Types /\ WatchInv /\ ShowsLocal => CacheTrue
  BY <1>1 DEF WatchInv
<1> QED
  BY <1>2, WatchHolds, PTL

\* A view rests on the server's state at its last snapshot or on a later one: no
\* resume token is saved ahead of the documents, no snapshot leaves out a document
\* that has changed (RaiseWatchSnapshot, ShouldPersistTargetData).
THEOREM SyncedRestsOnServer ==
    ASSUME MaxDenials = 0
    PROVE  Spec => []SyncedIsCurrent
<1>1. Types /\ WatchInv /\ ShowsLocal => SyncedIsCurrent
  BY TargetsAreCurrent DEF WatchInv
<1> QED
  BY <1>1, WatchHolds, PTL

\* Every request for a target whose messages count has its response, however often
\* the document has been listened to and left (RecordPendingTargetRequest,
\* remote_store.cc:193-194, 200-202).
THEOREM WaitsForAck ==
    ASSUME MaxDenials = 0
    PROVE  Spec => []AckAwaited
<1>1. ASSUME Types, WatchInv, NEW k \in Key, IsActiveTarget(k)
      PROVE  /\ \A i \in DOMAIN toServer : toServer[i].key # k
             /\ \A i \in DOMAIN toClient :
                    toClient[i].kind \in {"added", "removed", "error"} => toClient[i].key # k
  <2>1. Asked(k) = {} /\ Answers(k) = {}
    <3>1. Live(k, 0)
      BY <1>1, PendingIsLive DEF WatchInv, StreamInv, IsActiveTarget
    <3> QED
      BY <1>1, <3>1, Places DEF Live
  <2>2. NoErrors
    BY <1>1 DEF WatchInv, StreamInv
  <2> QED
    BY <2>1, <2>2 DEF Asked, Answers, IsAnswer, NoErrors
<1>2. Types /\ WatchInv /\ ShowsLocal => AckAwaited
  BY <1>1 DEF AckAwaited
<1> QED
  BY <1>2, WatchHolds, PTL

\* No message for an earlier listen to a document makes a later get's view current:
\* the aggregator waits for the answers to all its requests (remote_store.cc:194).
THEOREM SyncedAfterGet ==
    ASSUME MaxDenials = 0
    PROVE  Spec => []SyncedIsFresh
<1>1. Init => SyncedIsFresh
  BY DEF Init, NoView, SyncedIsFresh
<1>2. Types /\ WatchInv /\ SyncedIsFresh /\ [Next]_vars => SyncedIsFresh'
  BY FreshNext DEF WatchInv
<1> QED
  BY <1>1, <1>2, WatchHolds, PTL DEF Spec

\* A document is in limbo only by a commit that is ahead of the snapshots: a view of
\* one document resolves its limbo by itself (remote_event.cc:259-263).
THEOREM LimboOnlyAhead ==
    ASSUME MaxDenials = 0
    PROVE  Spec => []LimboIsAhead
<1>1. Init => LimboIsAhead
  BY DEF Init, NoView, LimboIsAhead
<1>2. Types /\ WatchInv /\ ShowsLocal => InLimboAhead
  BY LimboExplained DEF WatchInv
<1>3. Types /\ Types' /\ WatchInv /\ InLimboAhead' /\ LimboIsAhead /\ [Next]_vars => LimboIsAhead'
  BY LimboNext DEF WatchInv
<1> QED
  BY <1>1, <1>2, <1>3, WatchHolds, PTL DEF Spec
=============================================================================
