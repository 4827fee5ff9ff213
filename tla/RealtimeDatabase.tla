-------------------------- MODULE RealtimeDatabase --------------------------
(***************************************************************************)
(* The Firebase Realtime Database as LoopChat uses it: one list of         *)
(* children ("communities", or the "Messages" of one community), written   *)
(* with childByAutoId().setValue and read with observe(.childAdded), on    *)
(* several devices.                                                        *)
(*                                                                         *)
(* On each device the SDK runs on a serial worker queue.  The app's calls  *)
(* are queued for it; it keeps the server's data (snap) and the local      *)
(* writes that are not yet acknowledged (writes), and it dispatches the    *)
(* app's callbacks to the main queue.  The server is external to the       *)
(* repository; the SDK's comments and callbacks say what it sends.         *)
(*                                                                         *)
(* A child is its key: a value never changes once it is written.           *)
(***************************************************************************)
EXTENDS Naturals, Sequences, FiniteSets

CONSTANTS
    Device,       \* the devices that run the app
    Key,          \* the child keys, ordered as push ids are
    Remote,       \* the keys that clients other than Device write
    MaxHandles,   \* bound: calls of observe in one run of the app
    MaxDrops      \* bound: connections that are lost

ASSUME DatabaseAssumption ==
    /\ Key \subseteq Nat /\ Key # {}
    /\ Remote \subseteq Key
    /\ MaxHandles \in Nat
    /\ MaxDrops \in Nat

VARIABLES
    committed,    \* server: the children it stores
    minted,       \* the keys that are taken: no device mints them again
    handles,      \* handles[d]: the observers d has handed out
    work,         \* work[d]: calls queued for the worker of d
    regs,         \* regs[d]: the event registrations of the view
    snap,         \* snap[d]: children the server has told d about
    writes,       \* writes[d]: local writes that are not acknowledged
    putCounter,   \* putCounter[d]: puts made so far, the index of the next one
    outstanding,  \* outstanding[d]: <<index, key>> of puts without a response
    answered,     \* answered[d]: those of them the server has answered
    listen,       \* listen[d]: how far the listen request has come
    deferred,     \* deferred[d]: responses that wait for the listen's
    inbox,        \* inbox[d]: what the server has sent to d
    raising,      \* raising[d]: events the worker is dispatching
    main,         \* main[d]: the callbacks on the main queue of d
    drops,        \* connections lost so far
    refused       \* server: the keys whose put it has refused at least once

calls    == <<minted, handles, work>>
view     == <<regs, snap, writes>>
puts     == <<putCounter, outstanding, answered, deferred>>
trouble  == <<drops, refused>>
network  == <<listen, inbox, trouble>>
callback == <<raising, main>>
client   == <<calls, view, puts, network, callback>>
dbVars   == <<committed, client>>

Reg == 1 .. MaxHandles

Call     == [type : {"observe"}, reg : Reg] \cup [type : {"set"}, key : Key]
Response == [type : {"ack"}, key : Key, ok : BOOLEAN]
Message  == [type : {"data"}, keys : SUBSET Key] \cup [type : {"listenOk"}]
                \cup Response
Callback == [type : {"added"}, key : Key, reg : Reg]
                \cup [type : {"done"}, key : Key, ok : BOOLEAN]

DbTypeOK ==
    /\ committed \in SUBSET Key
    /\ minted \in SUBSET Key
    /\ handles \in [Device -> 0 .. MaxHandles]
    /\ work \in [Device -> Seq(Call)]
    /\ regs \in [Device -> SUBSET Reg]
    /\ snap \in [Device -> SUBSET Key]
    /\ writes \in [Device -> SUBSET Key]
    /\ putCounter \in [Device -> Nat]
    /\ outstanding \in [Device -> SUBSET (Nat \X Key)]
    /\ answered \in [Device -> SUBSET Key]
    /\ listen \in [Device -> {"none", "sent", "serving", "active"}]
    /\ deferred \in [Device -> Seq(Response)]
    /\ inbox \in [Device -> Seq(Message)]
    /\ raising \in [Device -> SUBSET (Key \X Reg)]
    /\ main \in [Device -> Seq(Callback)]
    /\ drops \in 0 .. MaxDrops
    /\ refused \in SUBSET Key

\* A listen that covers the list is out already, or none is.
DbInit(listening) ==
    /\ committed = {}
    /\ minted = Remote
    /\ handles = [d \in Device |-> 0]
    /\ work = [d \in Device |-> << >>]
    /\ regs = [d \in Device |-> {}]
    /\ snap = [d \in Device |-> {}]
    /\ writes = [d \in Device |-> {}]
    /\ putCounter = [d \in Device |-> 0]
    /\ outstanding = [d \in Device |-> {}]
    /\ answered = [d \in Device |-> {}]
    /\ listen = [d \in Device |-> listening]
    /\ deferred = [d \in Device |-> << >>]
    /\ inbox = [d \in Device |-> << >>]
    /\ raising = [d \in Device |-> {}]
    /\ main = [d \in Device |-> << >>]
    /\ drops = 0
    /\ refused = {}

\* The view's event cache: the server's children under the local writes.
View(d) == snap[d] \cup writes[d]

-----------------------------------------------------------------------------
(* What the app calls, on the main thread.                                 *)

\* (mutant) The counter is read before it is increased.
NewHandleUncounted(d) == handles[d]

\* LUIDGenerator.
NewHandle(d) == handles[d] + 1

\* observe(.childAdded): a new handle; the registration waits for the worker.
Observe(d) ==
    /\ handles[d] < MaxHandles
    /\ handles' = [handles EXCEPT ![d] = NewHandle(d)]
    /\ work' = [work EXCEPT
                  ![d] = Append(@, [type |-> "observe", reg |-> NewHandle(d)])]
    /\ UNCHANGED <<committed, minted, view, puts, network, callback>>

\* childByAutoId().setValue: a fresh push id; the write waits for the worker.
SetValue(d, k) ==
    /\ k \notin minted
    /\ minted' = minted \cup {k}
    /\ work' = [work EXCEPT ![d] = Append(@, [type |-> "set", key |-> k])]
    /\ UNCHANGED <<committed, handles, view, puts, network, callback>>

\* The main queue hands the oldest callback to the app.
RunCallback(d) ==
    /\ main[d] # << >>
    /\ main' = [main EXCEPT ![d] = Tail(@)]
    /\ UNCHANGED <<committed, calls, view, puts, network, raising>>

\* The app's process ends.  Persistence is not enabled, so everything the SDK
\* holds goes with it, the writes the server has not answered included.
EndProcess(d) ==
    /\ handles' = [handles EXCEPT ![d] = 0]
    /\ work' = [work EXCEPT ![d] = << >>]
    /\ regs' = [regs EXCEPT ![d] = {}]
    /\ snap' = [snap EXCEPT ![d] = {}]
    /\ writes' = [writes EXCEPT ![d] = {}]
    /\ putCounter' = [putCounter EXCEPT ![d] = 0]
    /\ outstanding' = [outstanding EXCEPT ![d] = {}]
    /\ answered' = [answered EXCEPT ![d] = {}]
    /\ listen' = [listen EXCEPT ![d] = "none"]
    /\ deferred' = [deferred EXCEPT ![d] = << >>]
    /\ inbox' = [inbox EXCEPT ![d] = << >>]
    /\ raising' = [raising EXCEPT ![d] = {}]
    /\ main' = [main EXCEPT ![d] = << >>]
    /\ UNCHANGED <<committed, minted, trouble>>

-----------------------------------------------------------------------------
(* The worker queue: one block at a time, its events dispatched before the *)
(* next block runs.                                                        *)

Idle(d) == raising[d] = {}

\* (mutant) Events for children the view already has.
AddedEventsAgain(d, keys) == keys \X regs[d]

\* The childAdded events of the children that enter the view with `keys`, one
\* for each registration.
AddedEvents(d, keys) == (keys \ View(d)) \X regs[d]

\* (mutant) The local writes are left out.
InitialEventsOfServer(d, r) == snap[d] \X {r}

\* A new registration is first told of every child in the view.
InitialEvents(d, r) == View(d) \X {r}

RunObserve(d) ==
    /\ Idle(d)
    /\ work[d] # << >>
    /\ Head(work[d]).type = "observe"
    /\ LET r == Head(work[d]).reg
       IN  /\ regs' = [regs EXCEPT ![d] = @ \cup {r}]
           /\ raising' = [raising EXCEPT ![d] = InitialEvents(d, r)]
    /\ listen' = [listen EXCEPT ![d] = IF @ = "none" THEN "sent" ELSE @]
    /\ work' = [work EXCEPT ![d] = Tail(@)]
    /\ UNCHANGED <<committed, minted, handles, snap, writes, puts, inbox, trouble,
                   main>>

\* A write shows at once, before the server has heard of it.
RunSet(d) ==
    /\ Idle(d)
    /\ work[d] # << >>
    /\ Head(work[d]).type = "set"
    /\ LET k == Head(work[d]).key
       IN  /\ writes' = [writes EXCEPT ![d] = @ \cup {k}]
           /\ raising' = [raising EXCEPT ![d] = AddedEvents(d, {k})]
           /\ outstanding' = [outstanding EXCEPT ![d] = @ \cup {<<putCounter[d], k>>}]
           /\ putCounter' = [putCounter EXCEPT ![d] = @ + 1]
    /\ work' = [work EXCEPT ![d] = Tail(@)]
    /\ UNCHANGED <<committed, minted, handles, regs, snap, answered, deferred,
                   network, main>>

\* (mutant) The changes are not sorted.
PrecedesUnsorted(e, f) == TRUE

\* generateEvents: in the order of the keys, the registrations of a key in turn.
Precedes(e, f) == e[1] < f[1] \/ (e[1] = f[1] /\ e[2] <= f[2])

RaiseEvent(d) ==
    \E e \in raising[d] :
        /\ \A f \in raising[d] : Precedes(e, f)
        /\ raising' = [raising EXCEPT ![d] = @ \ {e}]
        /\ main' = [main EXCEPT ![d] =
                      Append(@, [type |-> "added", key |-> e[1], reg |-> e[2]])]
        /\ UNCHANGED <<committed, calls, view, puts, network>>

\* The next message of the server, when the worker is free to take it.
Incoming(d, type) ==
    /\ Idle(d)
    /\ inbox[d] # << >>
    /\ Head(inbox[d]).type = type
    /\ inbox' = [inbox EXCEPT ![d] = Tail(@)]

ReceiveData(d) ==
    /\ Incoming(d, "data")
    /\ LET keys == Head(inbox[d]).keys
       IN  /\ snap' = [snap EXCEPT ![d] = @ \cup keys]
           /\ raising' = [raising EXCEPT ![d] = AddedEvents(d, keys)]
    /\ UNCHANGED <<committed, calls, regs, writes, puts, listen, trouble, main>>

\* The completion block of a put, dispatched to the main queue.
Completion(response) ==
    [type |-> "done", key |-> response.key, ok |-> response.ok]

\* ackPuts: the responses that waited for this one are acknowledged, in order.
ReceiveListenOk(d) ==
    /\ Incoming(d, "listenOk")
    /\ listen' = [listen EXCEPT ![d] = "active"]
    /\ writes' = [writes EXCEPT ![d] =
                    @ \ {deferred[d][i].key : i \in DOMAIN deferred[d]}]
    /\ main' = [main EXCEPT ![d] =
                  @ \o [i \in DOMAIN deferred[d] |-> Completion(deferred[d][i])]]
    /\ deferred' = [deferred EXCEPT ![d] = << >>]
    /\ UNCHANGED <<committed, calls, regs, snap, putCounter, outstanding, answered,
                   trouble, raising>>

\* (mutant) Responses are acknowledged as they come.
ListenUnackedIgnored(d) == FALSE

\* Some listen request of d has no response yet.
ListenUnacked(d) == listen[d] \in {"sent", "serving"}

\* The response to the oldest put.  While a listen is unanswered it waits, so
\* that a write is not taken out of the view before the server's data is in.
\* A rejected write leaves the view; nobody observes childRemoved.
ReceivePutResponse(d) ==
    /\ Incoming(d, "ack")
    /\ LET response == Head(inbox[d])
       IN  /\ outstanding' = [outstanding EXCEPT
                                ![d] = { p \in @ : p[2] # response.key }]
           /\ answered' = [answered EXCEPT ![d] = @ \ {response.key}]
           /\ \/ /\ ListenUnacked(d)
                 /\ deferred' = [deferred EXCEPT ![d] = Append(@, response)]
                 /\ UNCHANGED <<writes, main>>
              \/ /\ ~ ListenUnacked(d)
                 /\ writes' = [writes EXCEPT ![d] = @ \ {response.key}]
                 /\ main' = [main EXCEPT ![d] = Append(@, Completion(response))]
                 /\ UNCHANGED deferred
    /\ UNCHANGED <<committed, calls, regs, snap, putCounter, listen, trouble,
                   raising>>

\* (mutant) The listen is not repeated.
RestoredListenForgotten(d) == listen[d]

\* restoreState sends the listen again.
RestoredListen(d) == IF listen[d] = "none" THEN "none" ELSE "sent"

\* (mutant) Puts that are not acknowledged are forgotten.
RestoredPutsForgotten(d) == {}

\* restoreState sends every put without a response again.
RestoredPuts(d) == outstanding[d]

\* The connection is lost and opened again: what the server had sent is gone,
\* the listen is repeated, and so is every put without a response.
Reconnect(d) ==
    /\ drops < MaxDrops
    /\ drops' = drops + 1
    /\ inbox' = [inbox EXCEPT ![d] = << >>]
    /\ answered' = [answered EXCEPT ![d] = {}]
    /\ listen' = [listen EXCEPT ![d] = RestoredListen(d)]
    /\ outstanding' = [outstanding EXCEPT ![d] = RestoredPuts(d)]
    /\ UNCHANGED <<committed, refused, calls, view, putCounter, deferred, callback>>

-----------------------------------------------------------------------------
(* The server (external).                                                  *)

Serving(d) == listen[d] \in {"serving", "active"}

\* The whole list, and that the listen is in place.
AnswerListen(d) ==
    /\ listen[d] = "sent"
    /\ listen' = [listen EXCEPT ![d] = "serving"]
    /\ inbox' = [inbox EXCEPT ![d] = @ \o <<[type |-> "data", keys |-> committed],
                                            [type |-> "listenOk"]>>]
    /\ UNCHANGED <<committed, calls, view, puts, trouble, callback>>

\* k is the oldest put it has not answered on this connection.
NextPut(d, k) ==
    \E p \in outstanding[d] :
        /\ k = p[2]
        /\ k \notin answered[d]
        /\ \A q \in outstanding[d] : q[1] < p[1] => q[2] \in answered[d]

Answer(k, ok) == [type |-> "ack", key |-> k, ok |-> ok]

\* What device e is sent when d's put of k is stored: the data, if it listens
\* and the put is not a repeated one, then to d itself the response.
Pushed(d, k, e) ==
    (IF Serving(e) /\ k \notin committed
     THEN <<[type |-> "data", keys |-> {k}]>> ELSE << >>)
    \o (IF e = d THEN <<Answer(k, TRUE)>> ELSE << >>)

AcceptPut(d) ==
    \E k \in Key :
        /\ NextPut(d, k)
        /\ committed' = committed \cup {k}
        /\ inbox' = [e \in Device |-> inbox[e] \o Pushed(d, k, e)]
        /\ answered' = [answered EXCEPT ![d] = @ \cup {k}]
        /\ UNCHANGED <<calls, view, putCounter, outstanding, deferred, listen, trouble,
                       callback>>

\* The security rules of the database refuse the write.
RejectPut(d) ==
    \E k \in Key :
        /\ NextPut(d, k)
        /\ refused' = refused \cup {k}
        /\ inbox' = [inbox EXCEPT ![d] = Append(@, Answer(k, FALSE))]
        /\ answered' = [answered EXCEPT ![d] = @ \cup {k}]
        /\ UNCHANGED <<committed, calls, view, putCounter, outstanding, deferred, listen,
                       drops, callback>>

\* Another client's put is stored.
RemotePut ==
    \E k \in Remote \ committed :
        /\ committed' = committed \cup {k}
        /\ inbox' = [e \in Device |->
                      IF Serving(e) THEN Append(inbox[e], [type |-> "data", keys |-> {k}])
                                    ELSE inbox[e]]
        /\ UNCHANGED <<calls, view, puts, listen, trouble, callback>>

WorkerStep(d) ==
    \/ RunObserve(d)
    \/ RunSet(d)
    \/ RaiseEvent(d)
    \/ ReceiveData(d)
    \/ ReceiveListenOk(d)
    \/ ReceivePutResponse(d)

ServerStep(d) ==
    \/ AnswerListen(d)
    \/ AcceptPut(d)
    \/ RejectPut(d)

DbStep(d) ==
    \/ WorkerStep(d)
    \/ ServerStep(d)
    \/ Reconnect(d)

-----------------------------------------------------------------------------
(* Where an observer stands, for the properties of the screens.            *)

\* The worker has yet to register observer r of d.
Queued(d, r) ==
    \E i \in DOMAIN work[d] : work[d][i] = [type |-> "observe", reg |-> r]

\* The childAdded callbacks that wait on the main queue, by their place.
Waiting(d) == { i \in DOMAIN main[d] : main[d][i].type = "added" }
Event(d, i) == <<main[d][i].key, main[d][i].reg>>

\* The callback of child k for observer r is on its way to the main thread.
Underway(d, k, r) ==
    \/ <<k, r>> \in raising[d]
    \/ \E i \in Waiting(d) : Event(d, i) = <<k, r>>
=============================================================================
