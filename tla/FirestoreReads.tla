--------------------------- MODULE FirestoreReads ---------------------------
(***************************************************************************)
(* How getDocument is answered by the Firestore client of one device.      *)
(*                                                                         *)
(* A get listens to one document until the first event (ListenOnce).  The  *)
(* event comes from a view, which shows the cached document under the      *)
(* user's queued writes; it is raised when the server's state is known, or *)
(* when the client takes itself to be offline.  The watch stream brings    *)
(* changes to the aggregator, which hands them on as one consistent        *)
(* snapshot.                                                               *)
(*                                                                         *)
(* An action is one item of the worker queue, or a step of the server.     *)
(* Writes go the way that DocumentStore promises (see FirestoreWrites):    *)
(* the server commits a prefix of the current user's queue and the answers *)
(* come one by one, or are lost.                                           *)
(***************************************************************************)
EXTENDS Integers, Sequences, FiniteSets, SequencesExt, FirestoreDocument

CONSTANTS
    User,         \* who may be signed in
    Key,          \* documents
    MaxGets,      \* bound: calls of getDocument
    MaxWrites,    \* bound: writes of the app
    MaxOthers,    \* bound: commits of other devices
    MaxSignIns,   \* bound: changes of the user
    MaxFaults,    \* bound: failures of the network
    MaxDenials,   \* bound: listens that the server denies
    MaxCrashes    \* bound: ends of the process

\* A device comes across finitely many documents.
ASSUME FirestoreReadsAssumption ==
    /\ IsFiniteSet(Key)
    /\ MaxGets \in Nat /\ MaxWrites \in Nat /\ MaxOthers \in Nat
    /\ MaxSignIns \in Nat /\ MaxFaults \in Nat /\ MaxDenials \in Nat
    /\ MaxCrashes \in Nat

VARIABLES
    log,         \* server: the commits, in order
    queue,       \* disk: queue[u], u's mutation queue
    cache,       \* disk: remote_document_cache_
    saved,       \* disk: saved[k], the resume token of k's target
    matching,    \* disk: the documents that match their target
    lastRemote,  \* disk: the version of the last snapshot applied
    currentUser, \* current_user_
    acks,        \* versions of the commits whose answers are on their way
    gets,        \* gets[g]: a call of getDocument
    listeners,   \* listeners[k]: the gets that EventManager knows
    view,        \* view[k]: the view and the target of document k
    online,      \* OnlineStateTracker
    stream,      \* watch_stream_
    aggregator,  \* watch_change_aggregator_: its target states
    updates,     \* pending_document_updates_
    toServer,    \* requests on the stream
    toClient,    \* responses on the stream
    sub,         \* server: sub[k], what it serves on this stream
    bounds       \* how often each bounded thing has happened

disk   == <<queue, cache, saved, matching, lastRemote>>
reader == <<gets, listeners, view, online>>
watch  == <<stream, aggregator, updates, toServer, toClient, sub>>
vars   == <<log, disk, currentUser, acks, reader, watch, bounds>>

Get      == 1 .. MaxGets
Content  == 1 .. MaxWrites + MaxOthers
Mutation == [no : 1 .. MaxWrites, op : {"set", "update", "delete"}, key : Key]
Limits   == [gets |-> MaxGets, writes |-> MaxWrites, others |-> MaxOthers,
             signIns |-> MaxSignIns, faults |-> MaxFaults, denials |-> MaxDenials,
             crashes |-> MaxCrashes]

\* The version of the last commit; version 0 is SnapshotVersion::None.
Clock == Len(log) + 1

TypeOK ==
    /\ log \in Seq([keys : SUBSET Key, content : Content \cup {0}])
    /\ queue \in [User -> Seq(Mutation)]
    /\ cache \in [Key -> Document(Content)]
    /\ \A k \in Key : cache[k].version <= Clock
    /\ saved \in [Key -> 0 .. Clock]
    /\ matching \in SUBSET Key
    /\ lastRemote \in 0 .. Clock
    /\ currentUser \in User
    /\ acks \in Seq(1 .. Clock)
    /\ gets \in [Get -> [key : Key, stage : {"unused", "listening", "raised", "done"}]]
    /\ listeners \in [Key -> SUBSET Get]
    /\ view \in [Key -> [on : BOOLEAN, doc : Document(Content), current : BOOLEAN,
                         synced : BOOLEAN, limbo : BOOLEAN, token : 0 .. Clock,
                         since : 0 .. Clock]]
    /\ online \in [state : {"Unknown", "Online", "Offline"}, timer : BOOLEAN,
                   failed : BOOLEAN]
    /\ stream \in [state : {"Initial", "Starting", "Backoff", "Open", "Error"},
                   idle : BOOLEAN]
    /\ aggregator \in [Key -> [known : BOOLEAN, pending : Int, current : BOOLEAN,
                               change : {"None", "Added", "Modified", "Removed"}]]
    /\ updates \in [Key -> Document(Content)]
    /\ toServer \in Seq([kind : {"watch", "unwatch"}, key : Key, token : 0 .. Clock])
    /\ toClient \in Seq([kind : {"added", "removed", "error", "current"}, key : Key]
                        \cup [kind : {"doc"}, key : Key, doc : Document(Content)]
                        \cup [kind : {"snapshot"}, version : 1 .. Clock])
    /\ sub \in [Key -> [on : BOOLEAN, at : 0 .. Clock, current : BOOLEAN]]
    /\ bounds \in [DOMAIN Limits -> Nat]

NoView    == [on |-> FALSE, doc |-> Invalid, current |-> FALSE, synced |-> FALSE,
              limbo |-> FALSE, token |-> 0, since |-> 0]
NoTarget  == [known |-> FALSE, pending |-> 0, current |-> FALSE, change |-> "None"]
NoSub     == [on |-> FALSE, at |-> 0, current |-> FALSE]
Unknown   == [state |-> "Unknown", timer |-> FALSE, failed |-> FALSE]

Init ==
    /\ log = << >>
    /\ queue = [u \in User |-> << >>]
    /\ cache = [k \in Key |-> Invalid]
    /\ saved = [k \in Key |-> 0]
    /\ matching = {}
    /\ lastRemote = 0
    /\ currentUser \in User
    /\ acks = << >>
    /\ gets \in [Get -> [key : Key, stage : {"unused"}]]
    /\ listeners = [k \in Key |-> {}]
    /\ view = [k \in Key |-> NoView]
    /\ online = Unknown
    /\ stream = [state |-> "Initial", idle |-> FALSE]
    /\ aggregator = [k \in Key |-> NoTarget]
    /\ updates = [k \in Key |-> Invalid]
    /\ toServer = << >> /\ toClient = << >>
    /\ sub = [k \in Key |-> NoSub]
    /\ bounds = [b \in DOMAIN Limits |-> 0]

Uses(b) ==
    /\ bounds[b] < Limits[b]
    /\ bounds' = [bounds EXCEPT ![b] = @ + 1]

-----------------------------------------------------------------------------
(* The server's documents.                                                 *)

\* The version at which document k was last written, up to version v, and its
\* content then: 0 for no document.
WrittenAt(k, v) ==
    LET at == {0} \cup { i + 1 : i \in { j \in DOMAIN log : k \in log[j].keys /\ j + 1 <= v } }
    IN  CHOOSE n \in at : \A m \in at : m <= n

ContentAt(k, v) == IF WrittenAt(k, v) = 0 THEN 0 ELSE log[WrittenAt(k, v) - 1].content

-----------------------------------------------------------------------------
(* Views and listeners.                                                    *)

Found(d) == d.type = "found"

\* View::ComputeDocumentChanges: what a view that shows d shows when n is new.
\* The news of a commit waits for the server's document (ShouldWaitForSynced...).
Shown(d, n) ==
    LET waits    == d.state = "local" /\ n.state = "committed"
        pending  == n.state = "local" \/ waits
    IN  CASE ~ Found(n)                                       -> Invalid
          [] Found(n) /\ ~ Found(d)                           -> n
          [] Found(d) /\ Found(n) /\ d.content # n.content    -> IF waits THEN d ELSE n
          [] OTHER -> IF (d.state = "local") # pending THEN n ELSE d

\* View::ApplyChanges: document d, and whether it matches on the server.  A view
\* that is current has documents in limbo if it cannot explain them.
ApplyChanges(v, d, current, synced) ==
    [v EXCEPT !.doc = d, !.current = current, !.synced = synced,
              !.limbo = IF current THEN Found(d) /\ ~ synced /\ d.state # "local" ELSE @]

IsSynced(v) == v.current /\ ~ v.limbo

\* EmitNewSnapshotsAndNotifyLocalStore after changes to the documents in keys,
\* without a remote event; c is the cache and q the current user's queue.
Emit(keys, c, q) ==
    [k \in Key |->
        IF view[k].on /\ k \in keys
        THEN ApplyChanges(view[k], Shown(view[k].doc, GetDocument(c[k], q, k)),
                          view[k].current, view[k].synced)
        ELSE view[k]]

\* View::ApplyOnlineStateChange: offline, no view is current.
ApplyOnlineStateChange(views, o) ==
    [k \in Key |->
        IF o.state = "Offline" /\ views[k].current
        THEN ApplyChanges(views[k], views[k].doc, FALSE, views[k].synced)
        ELSE views[k]]

\* QueryListener::ShouldRaiseInitialEvent, with wait_for_sync_when_online.
ShouldRaiseInitialEvent(v, o) == IsSynced(v) \/ o.state = "Offline"

\* The views and the online state change, and the gets that listen hear of it.
Publish(views, o, calls, heard) ==
    LET shown == ApplyOnlineStateChange(views, o)
    IN  /\ view' = shown
        /\ online' = o
        /\ gets' = [g \in Get |->
                      IF /\ calls[g].stage = "listening"
                         /\ g \in heard[calls[g].key]
                         /\ ShouldRaiseInitialEvent(shown[calls[g].key], o)
                      THEN [calls[g] EXCEPT !.stage = "raised"] ELSE calls[g]]

-----------------------------------------------------------------------------
(* OnlineStateTracker.                                                     *)

\* (mutant) The timer goes on.
UpdateStateOnly(state) == [state |-> state, timer |-> online.timer, failed |-> FALSE]

UpdateState(state) == [state |-> state, timer |-> FALSE, failed |-> FALSE]

HandleWatchStreamStart(o) ==
    IF o.failed THEN o ELSE [state |-> "Unknown", timer |-> TRUE, failed |-> FALSE]

\* One failure is enough (kMaxWatchStreamFailures).
HandleWatchStreamFailure(o) ==
    IF o.state = "Online" THEN [o EXCEPT !.state = "Unknown"]
    ELSE [state |-> "Offline", timer |-> FALSE, failed |-> TRUE]

OnlineStateTimeout ==
    /\ online.timer
    /\ Publish(view, [online EXCEPT !.state = "Offline", !.timer = FALSE], gets, listeners)
    /\ UNCHANGED <<log, disk, currentUser, acks, listeners, watch, bounds>>

-----------------------------------------------------------------------------
(* RemoteStore: the watch stream.                                          *)

IsStarted     == stream.state \in {"Starting", "Backoff", "Open"}
Listening(vs) == { k \in Key : vs[k].on }

\* (mutant) The aggregator outlives the stream.
KeepAggregator ==
    /\ UNCHANGED <<aggregator, updates>>
    /\ toServer' = << >> /\ toClient' = << >>
    /\ sub' = [k \in Key |-> NoSub]

\* The stream is gone, and with it all that was on it.
CleanUpWatchStreamState ==
    /\ aggregator' = [k \in Key |-> NoTarget]
    /\ updates' = [k \in Key |-> Invalid]
    /\ toServer' = << >> /\ toClient' = << >>
    /\ sub' = [k \in Key |-> NoSub]

WatchRequest(k, token) == [kind |-> "watch", key |-> k, token |-> token]
UnwatchRequest(k)      == [kind |-> "unwatch", key |-> k, token |-> 0]

\* (mutant) A request that is not counted.
RecordNoTargetRequest(k) ==
    aggregator' = [aggregator EXCEPT ![k].known = TRUE]

\* RecordPendingTargetRequest.
RecordPendingTargetRequest(k) ==
    aggregator' = [aggregator EXCEPT ![k].known = TRUE, ![k].pending = @ + 1]

\* OnWatchStreamClose after an error: a stream that is still needed is started
\* again, after a backoff.
OnWatchStreamClose ==
    /\ stream.state \in {"Starting", "Open"}
    /\ Uses("faults")
    /\ CleanUpWatchStreamState
    /\ IF Listening(view) # {}
       THEN /\ stream' = [state |-> "Backoff", idle |-> FALSE]
            /\ Publish(view, HandleWatchStreamStart(HandleWatchStreamFailure(online)),
                       gets, listeners)
       ELSE /\ stream' = [state |-> "Error", idle |-> FALSE]
            /\ Publish(view, UpdateState("Unknown"), gets, listeners)
    /\ UNCHANGED <<log, disk, currentUser, acks, listeners>>

\* RestartNetwork, with the views as they are by then.
RestartNetwork(views) ==
    /\ CleanUpWatchStreamState
    /\ IF Listening(views) # {}
       THEN /\ stream' = [state |-> "Starting", idle |-> FALSE]
            /\ Publish(views, HandleWatchStreamStart(UpdateState("Unknown")), gets, listeners)
       ELSE /\ stream' = [state |-> "Initial", idle |-> FALSE]
            /\ Publish(views, UpdateState("Unknown"), gets, listeners)

OnConnectivityChange ==
    /\ Uses("faults")
    /\ RestartNetwork(view)
    /\ UNCHANGED <<log, disk, currentUser, acks, listeners>>

BackoffTimeout ==
    /\ stream.state = "Backoff"
    /\ stream' = [stream EXCEPT !.state = "Starting"]
    /\ UNCHANGED <<log, disk, currentUser, acks, reader, aggregator, updates, toServer,
                   toClient, sub, bounds>>

IdleTimeout ==
    /\ stream.idle
    /\ stream' = [state |-> "Initial", idle |-> FALSE]
    /\ CleanUpWatchStreamState
    /\ Publish(view, UpdateState("Unknown"), gets, listeners)
    /\ UNCHANGED <<log, disk, currentUser, acks, listeners, bounds>>

\* OnWatchStreamOpen, once there is a token: every target is watched again.
OnWatchStreamOpen ==
    /\ stream.state = "Starting"
    /\ stream' = [stream EXCEPT !.state = "Open"]
    /\ aggregator' = [k \in Key |->
                        IF view[k].on
                        THEN [aggregator[k] EXCEPT !.known = TRUE, !.pending = @ + 1]
                        ELSE aggregator[k]]
    /\ \E order \in [1 .. Cardinality(Listening(view)) -> Listening(view)] :
           /\ \A k \in Listening(view) : \E i \in DOMAIN order : order[i] = k
           /\ toServer' = [i \in DOMAIN order |-> WatchRequest(order[i], view[order[i]].token)]
    /\ UNCHANGED <<log, disk, currentUser, acks, reader, updates, toClient, sub, bounds>>

-----------------------------------------------------------------------------
(* EventManager and SyncEngine: a get begins and ends.                     *)

\* AddQueryListener.  The first listener of a document opens its view from the
\* cache, then its target; the others find the view's last snapshot.
AddQueryListener(g) ==
    LET k     == gets[g].key
        first == ~ view[k].on
        local == GetDocument(cache[k], queue[currentUser], k)
        opens == [on |-> TRUE, doc |-> IF Found(local) THEN local ELSE Invalid,
                  current |-> FALSE, synced |-> k \in matching, limbo |-> FALSE,
                  token |-> saved[k], since |-> Clock]
        views == IF first THEN [view EXCEPT ![k] = opens] ELSE view
        hears == ShouldRaiseInitialEvent(views[k], online)
        calls == [gets EXCEPT ![g].stage = IF hears THEN "raised" ELSE "listening"]
        heard == [listeners EXCEPT ![k] = @ \cup {g}]
    IN  /\ gets[g].stage = "unused"
        /\ Uses("gets")
        /\ listeners' = heard
        /\ \/ /\ first /\ ~ IsStarted
              /\ CleanUpWatchStreamState
              /\ stream' = [stream EXCEPT !.state = IF @ = "Error" THEN "Backoff"
                                                    ELSE "Starting"]
              /\ Publish(views, HandleWatchStreamStart(online), calls, heard)
           \/ /\ first /\ stream.state = "Open"
              /\ RecordPendingTargetRequest(k)
              /\ toServer' = Append(toServer, WatchRequest(k, saved[k]))
              /\ stream' = [stream EXCEPT !.idle = FALSE]
              /\ Publish(views, online, calls, heard)
              /\ UNCHANGED <<updates, toClient, sub>>
           \/ /\ ~ first \/ stream.state \in {"Starting", "Backoff"}
              /\ Publish(views, online, calls, heard)
              /\ UNCHANGED watch
        /\ UNCHANGED <<log, disk, currentUser, acks>>

\* ListenOnce has its event: RemoveQueryListener.  With the last listener the
\* view goes, the target is released and no longer watched.
RemoveQueryListener(g) ==
    LET k     == gets[g].key
        last  == listeners[k] = {g}
        views == IF last THEN [view EXCEPT ![k] = NoView] ELSE view
        none  == Listening(views) = {}
        calls == [gets EXCEPT ![g].stage = "done"]
        heard == [listeners EXCEPT ![k] = @ \ {g}]
    IN  /\ gets[g].stage = "raised"
        /\ listeners' = heard
        /\ saved' = IF last THEN [saved EXCEPT ![k] = view[k].token] ELSE saved
        /\ \/ /\ last /\ stream.state = "Open"
              /\ RecordPendingTargetRequest(k)
              /\ toServer' = Append(toServer, UnwatchRequest(k))
              /\ stream' = [stream EXCEPT !.idle = none]
              /\ Publish(views, online, calls, heard)
              /\ UNCHANGED <<updates, toClient, sub>>
           \/ /\ ~ last \/ stream.state # "Open"
              /\ Publish(views, IF last /\ none THEN UpdateState("Unknown") ELSE online,
                         calls, heard)
              /\ UNCHANGED watch
        /\ UNCHANGED <<log, queue, cache, matching, lastRemote, currentUser, acks, bounds>>

-----------------------------------------------------------------------------
(* OnWatchStreamChange.                                                    *)

\* (mutant) Messages of a target that waits for a response count.
IsListenedTo(k) == view[k].on

\* TargetDataForActiveTarget: listened to, and no response is awaited.
IsActiveTarget(k) == view[k].on /\ aggregator[k].pending = 0

\* RecordTargetResponse.
Answered(k) == [aggregator[k] EXCEPT !.known = TRUE, !.pending = @ - 1]

\* The next message on the stream; it shows that the client is online.
Receive(kind) ==
    /\ toClient # << >> /\ Head(toClient).kind = kind
    /\ toClient' = Tail(toClient)

NowOnline == UpdateState("Online")

\* HandleTargetChange: Added.
TargetAdded ==
    /\ Receive("added")
    /\ LET k == Head(toClient).key
           t == Answered(k)
       IN  aggregator' = [aggregator EXCEPT ![k] =
                            IF t.pending = 0 THEN [t EXCEPT !.change = "None"] ELSE t]
    /\ Publish(view, NowOnline, gets, listeners)
    /\ UNCHANGED <<log, disk, currentUser, acks, listeners, stream, updates, toServer, sub,
                   bounds>>

\* HandleTargetChange: Removed.
TargetRemoved ==
    /\ Receive("removed")
    /\ LET k == Head(toClient).key
           t == Answered(k)
       IN  aggregator' = [aggregator EXCEPT ![k] = IF t.pending = 0 THEN NoTarget ELSE t]
    /\ Publish(view, NowOnline, gets, listeners)
    /\ UNCHANGED <<log, disk, currentUser, acks, listeners, stream, updates, toServer, sub,
                   bounds>>

\* HandleTargetChange: Current.
TargetCurrent ==
    /\ Receive("current")
    /\ LET k == Head(toClient).key
       IN  aggregator' = [aggregator EXCEPT ![k].known = TRUE,
                                            ![k].current = @ \/ IsActiveTarget(k)]
    /\ Publish(view, NowOnline, gets, listeners)
    /\ UNCHANGED <<log, disk, currentUser, acks, listeners, stream, updates, toServer, sub,
                   bounds>>

\* AddDocumentToTarget, RemoveDocumentFromTarget: the change of target k, whose
\* view says whether the target contains the document.
DocumentChange(k, d) ==
    CASE Found(d) /\ view[k].synced    -> "Modified"
      [] Found(d) /\ ~ view[k].synced  -> "Added"
      [] ~ Found(d) /\ view[k].synced  -> "Removed"
      [] OTHER                         -> "None"

\* HandleDocumentChange.
DocumentChanged ==
    /\ Receive("doc")
    /\ LET k == Head(toClient).key
           d == Head(toClient).doc
       IN  IF IsActiveTarget(k)
           THEN /\ aggregator' = [aggregator EXCEPT ![k].known = TRUE,
                                                    ![k].change = DocumentChange(k, d)]
                /\ updates' = [updates EXCEPT ![k] = d]
           ELSE UNCHANGED <<aggregator, updates>>
    /\ Publish(view, NowOnline, gets, listeners)
    /\ UNCHANGED <<log, disk, currentUser, acks, listeners, stream, toServer, sub, bounds>>

\* ProcessTargetError and HandleRejectedListen: the listeners get the error.
TargetError ==
    /\ Receive("error")
    /\ LET k     == Head(toClient).key
           calls == [g \in Get |-> IF g \in listeners[k] /\ gets[g].stage = "listening"
                                   THEN [gets[g] EXCEPT !.stage = "done"] ELSE gets[g]]
       IN  IF view[k].on
           THEN /\ aggregator' = [aggregator EXCEPT ![k] = NoTarget]
                /\ saved' = [saved EXCEPT ![k] = view[k].token]
                /\ listeners' = [listeners EXCEPT ![k] = {}]
                /\ Publish([view EXCEPT ![k] = NoView], NowOnline, calls, listeners')
           ELSE /\ Publish(view, NowOnline, gets, listeners)
                /\ UNCHANGED <<aggregator, saved, listeners>>
    /\ UNCHANGED <<log, queue, cache, matching, lastRemote, currentUser, acks, stream,
                   updates, toServer, sub, bounds>>

\* CreateRemoteEvent: the targets with news; a document that its current target
\* neither has nor gets does not exist.
Changed == { k \in Key : IsActiveTarget(k) /\ aggregator[k].known }

\* (mutant) No deletion is deduced.
NeverMissing(k) == FALSE

Missing(k) ==
    /\ k \in Changed /\ aggregator[k].current
    /\ updates[k] = Invalid
    /\ ~ view[k].synced

\* (mutant) The deletion that is deduced comes after the snapshot.
DocumentUpdatesLater(v) ==
    [k \in Key |-> IF Missing(k) THEN NoDocument(v + 1, "synced") ELSE updates[k]]

DocumentUpdates(v) ==
    [k \in Key |-> IF Missing(k) THEN NoDocument(v, "synced") ELSE updates[k]]

\* (mutant) A commit's document is not replaced by the same version of it.
AcceptsNewer(old, new) ==
    new # Invalid /\ (old.type = "invalid" \/ new.version > old.version)

\* PopulateDocumentChanges: document new goes into the cache in the place of old.
Accepts(old, new) ==
    /\ new # Invalid
    /\ \/ old.type = "invalid"
       \/ new.version > old.version
       \/ new.version = old.version /\ old.state # "synced"

\* ShouldPersistTargetData.
Persists(k, aged) == view[k].token = 0 \/ aged \/ aggregator[k].change # "None"

\* RaiseWatchSnapshot: the pending changes are applied as one remote event.
RaiseWatchSnapshot(v, aged) ==
    LET news     == DocumentUpdates(v)
        accepted == { k \in Key : Accepts(cache[k], news[k]) }
        docs     == [k \in Key |-> IF k \in accepted THEN news[k] ELSE cache[k]]
        with     == { k \in Changed : aggregator[k].change = "Added" }
        without  == { k \in Changed : aggregator[k].change = "Removed" }
        doc(k)   == IF k \in accepted
                    THEN Shown(view[k].doc, GetDocument(docs[k], queue[currentUser], k))
                    ELSE view[k].doc
        views    == [k \in Key |->
                       CASE k \in Changed ->
                              [ApplyChanges(view[k], doc(k), aggregator[k].current,
                                   (view[k].synced \/ k \in with) /\ k \notin without)
                               EXCEPT !.token = v]
                         [] view[k].on /\ k \notin Changed ->
                              ApplyChanges(view[k], doc(k), view[k].current, view[k].synced)
                         [] OTHER -> view[k]]
    IN  /\ cache' = docs
        /\ matching' = (matching \cup with) \ without
        /\ saved' = [k \in Key |-> IF k \in Changed /\ Persists(k, aged) THEN v ELSE saved[k]]
        /\ lastRemote' = v
        /\ aggregator' = [k \in Key |-> IF k \in Changed
                                        THEN [aggregator[k] EXCEPT !.change = "None"]
                                        ELSE aggregator[k]]
        /\ updates' = [k \in Key |-> Invalid]
        /\ Publish(views, NowOnline, gets, listeners)

\* A global snapshot; one from the past is not raised.
GlobalSnapshot ==
    /\ Receive("snapshot")
    /\ LET v == Head(toClient).version
       IN  IF v >= lastRemote
           THEN \E aged \in BOOLEAN : RaiseWatchSnapshot(v, aged)
           ELSE /\ Publish(view, NowOnline, gets, listeners)
                /\ UNCHANGED <<cache, saved, matching, lastRemote, aggregator, updates>>
    /\ UNCHANGED <<log, queue, currentUser, acks, listeners, stream, toServer, sub, bounds>>

OnWatchStreamChange ==
    \/ TargetAdded \/ TargetRemoved \/ TargetCurrent \/ TargetError
    \/ DocumentChanged \/ GlobalSnapshot

-----------------------------------------------------------------------------
(* Writes and the change of user.                                          *)

\* WriteMutations: the app sets, updates or deletes a document.
WriteMutations ==
    \E op \in {"set", "update", "delete"}, k \in Key :
        /\ Uses("writes")
        /\ LET m == [no |-> bounds'["writes"], op |-> op, key |-> k]
               q == Append(queue[currentUser], m)
           IN  /\ queue' = [queue EXCEPT ![currentUser] = q]
               /\ Publish(Emit({k}, cache, q), online, gets, listeners)
        /\ UNCHANGED <<log, cache, saved, matching, lastRemote, currentUser, acks, listeners,
                       watch>>

\* (mutant) An acknowledgement always wins over the cache.
ApplyBatchResultAlways(d, m, version) == ApplyToRemoteDocument(m, d, version)

\* (mutant) The document keeps its version.
ApplyBatchResultUnversioned(d, m, version) ==
    IF d.version < version
    THEN [ApplyToRemoteDocument(m, d, version) EXCEPT !.version = d.version] ELSE d

\* ApplyBatchResult: the document after mutation m has been committed.
ApplyBatchResult(d, m, version) ==
    IF d.version < version THEN ApplyToRemoteDocument(m, d, version) ELSE d

\* HandleSuccessfulWrite.
HandleSuccessfulWrite ==
    /\ acks # << >>
    /\ acks' = Tail(acks)
    /\ LET m == Head(queue[currentUser])
           q == Tail(queue[currentUser])
           c == [cache EXCEPT ![m.key] = ApplyBatchResult(@, m, Head(acks))]
       IN  /\ queue' = [queue EXCEPT ![currentUser] = q]
           /\ cache' = c
           /\ Publish(Emit({m.key}, c, q), online, gets, listeners)
    /\ UNCHANGED <<log, saved, matching, lastRemote, currentUser, listeners, watch, bounds>>

\* HandleRejectedWrite: the server has refused the head of the queue.
HandleRejectedWrite ==
    /\ acks = << >> /\ queue[currentUser] # << >>
    /\ LET m == Head(queue[currentUser])
           q == Tail(queue[currentUser])
       IN  /\ queue' = [queue EXCEPT ![currentUser] = q]
           /\ Publish(Emit({m.key}, cache, q), online, gets, listeners)
    /\ UNCHANGED <<log, cache, saved, matching, lastRemote, currentUser, acks, listeners,
                   watch, bounds>>

Keys(q) == { q[i].key : i \in DOMAIN q }

\* (mutant) Only what the new user has written changes.
ChangedByNewUser(u) == Keys(queue[u])

\* HandleUserChange: the documents that look different to user u.
ChangedByUser(u) == Keys(queue[currentUser]) \cup Keys(queue[u])

\* HandleCredentialChange: another queue lies over the cache, and the streams are
\* opened again; the answers of the old write stream are lost.
HandleCredentialChange(u) ==
    /\ Uses("signIns")
    /\ currentUser' = u
    /\ acks' = << >>
    /\ RestartNetwork(IF u = currentUser THEN view
                      ELSE Emit(ChangedByUser(u), cache, queue[u]))
    /\ UNCHANGED <<log, disk, listeners>>

\* The process ends and starts anew, with what is on disk.
Restart ==
    /\ Uses("crashes")
    /\ acks' = << >>
    /\ gets' = [g \in Get |-> IF gets[g].stage = "unused" THEN gets[g]
                              ELSE [gets[g] EXCEPT !.stage = "done"]]
    /\ listeners' = [k \in Key |-> {}]
    /\ view' = [k \in Key |-> NoView]
    /\ online' = Unknown
    /\ stream' = [state |-> "Initial", idle |-> FALSE]
    /\ CleanUpWatchStreamState
    /\ UNCHANGED <<log, disk, currentUser>>

-----------------------------------------------------------------------------
(* The server (external).                                                  *)

client == <<disk, currentUser, reader, stream, aggregator, updates>>

\* It commits the current user's next write, and answers, ...
CommitWrite ==
    /\ Len(acks) < Len(queue[currentUser])
    /\ LET m == queue[currentUser][Len(acks) + 1]
       IN  /\ m.op = "update" => ContentAt(m.key, Clock) # 0
           /\ log' = Append(log, [keys    |-> {m.key},
                                  content |-> IF m.op = "delete" THEN 0 ELSE m.no])
    /\ acks' = Append(acks, Clock + 1)
    /\ UNCHANGED <<client, toServer, toClient, sub, bounds>>

\* ... but the write stream may break before the answers are read, ...
LoseAnswers ==
    /\ acks # << >>
    /\ Uses("faults")
    /\ acks' = << >>
    /\ UNCHANGED <<client, log, toServer, toClient, sub>>

\* ... or a write of another device, to these documents or to none of them.
OtherCommit ==
    /\ Uses("others")
    /\ \E keys \in {{}} \cup { {k} : k \in Key }, c \in {0, MaxWrites + bounds'["others"]} :
           log' = Append(log, [keys |-> keys, content |-> IF keys = {} THEN 0 ELSE c])
    /\ UNCHANGED <<client, acks, toServer, toClient, sub>>

\* It takes requests in order: a watch is accepted, from its resume token on, or
\* denied; every unwatch is confirmed.
TakeRequest ==
    /\ toServer # << >>
    /\ toServer' = Tail(toServer)
    /\ LET r == Head(toServer)
       IN  \/ /\ r.kind = "watch"
              /\ sub' = [sub EXCEPT ![r.key] = [on |-> TRUE, at |-> r.token,
                                                current |-> FALSE]]
              /\ toClient' = Append(toClient, [kind |-> "added", key |-> r.key])
              /\ UNCHANGED bounds
           \/ /\ r.kind = "watch"
              /\ Uses("denials")
              /\ toClient' = Append(toClient, [kind |-> "error", key |-> r.key])
              /\ UNCHANGED sub
           \/ /\ r.kind = "unwatch"
              /\ sub' = [sub EXCEPT ![r.key] = NoSub]
              /\ toClient' = Append(toClient, [kind |-> "removed", key |-> r.key])
              /\ UNCHANGED bounds
    /\ UNCHANGED <<client, log, acks>>

\* What target k has to hear of for a snapshot at the present version.
NewsOf(k) ==
    LET at      == WrittenAt(k, Clock)
        content == ContentAt(k, Clock)
        doc(d)  == << [kind |-> "doc", key |-> k, doc |-> d] >>
        changes == CASE at > sub[k].at /\ content # 0 -> doc(FoundDocument(content, at, "synced"))
                     [] at > sub[k].at /\ content = 0 /\ sub[k].at > 0
                                                      -> doc(NoDocument(Clock, "synced"))
                     [] OTHER                         -> << >>
    IN  changes \o IF sub[k].current THEN << >> ELSE << [kind |-> "current", key |-> k] >>

\* The whole stream reaches a new consistent snapshot.
SendSnapshot ==
    LET on == { k \in Key : sub[k].on }
    IN  /\ \E k \in on : sub[k].at < Clock \/ ~ sub[k].current
        /\ \E order \in [1 .. Cardinality(on) -> on] :
               /\ \A k \in on : \E i \in DOMAIN order : order[i] = k
               /\ toClient' = toClient
                      \o FlattenSeq([i \in DOMAIN order |-> NewsOf(order[i])])
                      \o << [kind |-> "snapshot", version |-> Clock] >>
        /\ sub' = [k \in Key |-> IF k \in on THEN [on |-> TRUE, at |-> Clock, current |-> TRUE]
                                 ELSE sub[k]]
        /\ UNCHANGED <<client, log, acks, toServer, bounds>>

-----------------------------------------------------------------------------
Timer == OnlineStateTimeout \/ BackoffTimeout \/ IdleTimeout

Next ==
    \/ \E g \in Get : AddQueryListener(g) \/ RemoveQueryListener(g)
    \/ OnWatchStreamOpen \/ OnWatchStreamChange \/ OnWatchStreamClose
    \/ OnConnectivityChange
    \/ Timer
    \/ WriteMutations \/ HandleSuccessfulWrite \/ HandleRejectedWrite
    \/ \E u \in User : HandleCredentialChange(u)
    \/ Restart
    \/ CommitWrite \/ LoseAnswers \/ OtherCommit
    \/ TakeRequest \/ SendSnapshot

Spec == Init /\ [][Next]_vars

\* The client does its part: timers fire, the worker queue runs, Auth has tokens.
ClientFairness ==
    /\ WF_vars(OnlineStateTimeout) /\ WF_vars(BackoffTimeout) /\ WF_vars(IdleTimeout)
    /\ WF_vars(OnWatchStreamOpen)
    /\ \A g \in Get : WF_vars(RemoveQueryListener(g))

\* The network carries messages and the server answers.
ServerFairness ==
    WF_vars(OnWatchStreamChange) /\ WF_vars(TakeRequest) /\ WF_vars(SendSnapshot)

ClientSpec == Spec /\ ClientFairness
FairSpec   == Spec /\ ClientFairness /\ ServerFairness

-----------------------------------------------------------------------------
\* A document of the cache was the server's at the version the cache gives it,
\* whichever of acknowledgement and snapshot came first, and for whatever user
\* (ApplyBatchResult, PopulateDocumentChanges).
CacheTrue ==
    \A k \in Key : cache[k].type \in {"found", "none"} =>
                       cache[k].content = ContentAt(k, cache[k].version)

\* The cache never goes back to an older version of a document.
CacheForward == [][\A k \in Key : cache'[k].version >= cache[k].version]_vars

\* A view shows the document of the cache under the current user's writes, unless
\* it holds a commit back until the server sends the document
\* (ShouldWaitForSyncedDocument).
ViewIsLocalDocument ==
    \A k \in Key : view[k].on =>
        LET d == GetDocument(cache[k], queue[currentUser], k)
        IN  \/ Found(view[k].doc) = Found(d) /\ (Found(d) => view[k].doc.content = d.content)
            \/ view[k].doc.state = "local" /\ d.state = "committed"

\* A view that says it is in sync rests on the server's state at the last
\* snapshot of its target, or a later one, though resume tokens, matching documents
\* and the cache are saved apart, targets are watched again after a failure, a
\* restart or a change of user, and acknowledgements overtake snapshots.
SyncedIsCurrent ==
    \A k \in Key : view[k].on /\ IsSynced(view[k]) =>
        IF cache[k].version > view[k].token
        THEN cache[k].type # "invalid"
        ELSE /\ cache[k].type # "unknown"
             /\ cache[k].content = ContentAt(k, view[k].token)

\* A view gets in sync only by a snapshot from after its get was called, never by
\* messages for an earlier listen to the same document that are still on the
\* stream ("so we wait for the ack to process any messages from this target",
\* remote_store.cc:194).
SyncedIsFresh ==
    \A k \in Key : view[k].on /\ view[k].current => view[k].token >= view[k].since

\* The messages of a target count only when every request for it has its response:
\* "we wait for the ack to process any messages from this target"
\* (remote_store.cc:193-194, 200-202).
AckAwaited ==
    \A k \in Key : IsActiveTarget(k) =>
        /\ \A i \in DOMAIN toServer : toServer[i].key # k
        /\ \A i \in DOMAIN toClient :
               toClient[i].kind \in {"added", "removed", "error"} => toClient[i].key # k

\* Only a commit that is ahead of the snapshots puts a document in limbo: the view
\* of a single document needs no resolution of its own (remote_event.cc:259-263).
LimboIsAhead ==
    \A k \in Key : view[k].limbo => cache[k].version > view[k].token

\* The assertions of online_state_tracker.cc:61, 67, 87, 89, view.cc:352 and
\* remote_store.cc:236.
AssertionsHold ==
    /\ online.timer => IsStarted /\ online.state = "Unknown"
    /\ online.state = "Online" => ~ online.failed
    /\ \A k \in Key : aggregator[k].change = "Modified" /\ view[k].on => view[k].synced
    /\ stream.idle => stream.state = "Open" /\ Listening(view) = {}

\* Every get is answered, over broken streams and crashes, as long as the server
\* denies no listen (a denial that the client ignores, remote_store.cc:357-360, can
\* leave a later get without an answer).
GetSettles == \A g \in Get : gets[g].stage = "listening" ~> gets[g].stage # "listening"

\* "We consider OnlineState::Unknown as online (it should become Offline or Online
\* if we wait long enough)" (query_listener.cc:138-139).
UnknownIsLeft ==
    (online.state = "Unknown" /\ \E g \in Get : gets[g].stage = "listening")
        ~> (online.state # "Unknown" \/ \A g \in Get : gets[g].stage # "listening")
=============================================================================
