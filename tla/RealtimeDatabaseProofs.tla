----------------------- MODULE RealtimeDatabaseProofs -----------------------
(***************************************************************************)
(* What every step of the Realtime Database client and of the server       *)
(* preserves, whatever screen it serves.                                   *)
(***************************************************************************)
EXTENDS RealtimeDatabase, SequenceTheorems, TLAPS

USE DatabaseAssumption DEF Reg, trouble

-----------------------------------------------------------------------------
(* Types.                                                                  *)

\* The responses that waited for the listen become callbacks (ackPuts).
LEMMA CompletionsType ==
    ASSUME NEW s \in Seq(Response)
    PROVE  [i \in DOMAIN s |-> Completion(s[i])] \in Seq(Callback)
<1>1. \A r \in Response : Completion(r) \in Callback
  BY DEF Response, Callback, Completion
<1>2. DOMAIN s = 1 .. Len(s) /\ Len(s) \in Nat
  OBVIOUS
<1>3. \A i \in 1 .. Len(s) : s[i] \in Response
  OBVIOUS
<1> QED
  BY <1>1, <1>2, <1>3

\* Queues of elements of S stay queues of elements of S.
LEMMA QueueType ==
    ASSUME NEW S
    PROVE  /\ << >> \in Seq(S)
           /\ \A x \in S : <<x>> \in Seq(S)
           /\ \A s \in Seq(S), x \in S : Append(s, x) \in Seq(S)
           /\ \A s, t \in Seq(S) : s \o t \in Seq(S)
           /\ \A s \in Seq(S) : s # << >> => Head(s) \in S /\ Tail(s) \in Seq(S)
  OBVIOUS

\* What the server sends on storing a put is made of messages.
LEMMA PushedType ==
    ASSUME NEW d \in Device, NEW e \in Device, NEW k \in Key
    PROVE  Pushed(d, k, e) \in Seq(Message)
<1>1. Answer(k, TRUE) \in Message
  BY DEF Answer, Message, Response
<1>2. [type |-> "data", keys |-> {k}] \in Message
  BY DEF Message
<1> QED
  BY <1>1, <1>2, QueueType, Zenon DEF Pushed

\* The initial states of the database have the types.
LEMMA DbInitTypes ==
    ASSUME NEW listening \in {"none", "sent"}, DbInit(listening)
    PROVE  DbTypeOK
<1>1. /\ << >> \in Seq(Call)
      /\ << >> \in Seq(Response)
      /\ << >> \in Seq(Message)
      /\ << >> \in Seq(Callback)
  BY QueueType
<1>2. /\ handles \in [Device -> 0 .. MaxHandles]
      /\ drops \in 0 .. MaxDrops
      /\ raising \in [Device -> SUBSET (Key \X Reg)]
  BY DEF DbInit
<1>3. /\ outstanding \in [Device -> SUBSET (Nat \X Key)]
      /\ putCounter \in [Device -> Nat]
  BY DEF DbInit
<1> QED
  BY <1>1, <1>2, <1>3 DEF DbInit, DbTypeOK

\* The calls of the app keep the types.
LEMMA CallTypes ==
    ASSUME DbTypeOK, NEW d \in Device,
           \/ Observe(d)
           \/ \E k \in Key : SetValue(d, k)
           \/ RunCallback(d)
           \/ EndProcess(d)
    PROVE  DbTypeOK'
<1>1. CASE Observe(d)
  <2>1. [type |-> "observe", reg |-> NewHandle(d)] \in Call
    BY <1>1 DEF Observe, NewHandle, DbTypeOK, Call
  <2> QED
    <3>1. handles' \in [Device -> 0 .. MaxHandles]
      BY <1>1 DEF Observe, NewHandle, DbTypeOK
    <3>2. work' \in [Device -> Seq(Call)]
      BY <1>1, <2>1 DEF Observe, DbTypeOK
    <3> QED
      BY <1>1, <3>1, <3>2 DEF Observe, DbTypeOK, view, puts, network, callback
<1>2. ASSUME NEW k \in Key, SetValue(d, k)
      PROVE  DbTypeOK'
  <2>1. [type |-> "set", key |-> k] \in Call
    BY DEF Call
  <2> QED
    <3>1. work' \in [Device -> Seq(Call)]
      BY <1>2, <2>1 DEF SetValue, DbTypeOK
    <3> QED
      BY <1>2, <3>1 DEF SetValue, DbTypeOK, view, puts, network, callback
<1>3. CASE RunCallback(d)
  BY <1>3 DEF RunCallback, DbTypeOK, calls, view, puts, network
<1>4. CASE EndProcess(d)
  BY <1>4 DEF EndProcess, DbTypeOK
<1> QED
  BY <1>1, <1>2, <1>3, <1>4

\* A step of the worker keeps the types.
LEMMA WorkerTypes ==
    ASSUME DbTypeOK, NEW d \in Device, WorkerStep(d)
    PROVE  DbTypeOK'
<1>1. CASE RunObserve(d)
  <2>1. Head(work[d]) \in Call /\ Tail(work[d]) \in Seq(Call)
    BY <1>1, QueueType DEF RunObserve, DbTypeOK
  <2>2. Head(work[d]).reg \in Reg
    BY <1>1, <2>1 DEF RunObserve, Call
  <2>3. InitialEvents(d, Head(work[d]).reg) \in SUBSET (Key \X Reg)
    BY <2>2 DEF InitialEvents, View, DbTypeOK
  <2> QED
    BY <1>1, <2>1, <2>2, <2>3 DEF RunObserve, DbTypeOK, puts
<1>2. CASE RunSet(d)
  <2>1. Head(work[d]) \in Call /\ Tail(work[d]) \in Seq(Call)
    BY <1>2, QueueType DEF RunSet, DbTypeOK
  <2>2. Head(work[d]).key \in Key
    BY <1>2, <2>1 DEF RunSet, Call
  <2>3. AddedEvents(d, {Head(work[d]).key}) \in SUBSET (Key \X Reg)
    BY <2>2 DEF AddedEvents, DbTypeOK
  <2>4. /\ outstanding' \in [Device -> SUBSET (Nat \X Key)]
        /\ putCounter' \in [Device -> Nat]
    BY <1>2, <2>2 DEF RunSet, DbTypeOK
  <2>5. /\ writes' \in [Device -> SUBSET Key]
        /\ raising' \in [Device -> SUBSET (Key \X Reg)]
        /\ work' \in [Device -> Seq(Call)]
    BY <1>2, <2>1, <2>2, <2>3 DEF RunSet, DbTypeOK
  <2> QED
    BY <1>2, <2>4, <2>5 DEF RunSet, DbTypeOK, network
<1>3. CASE RaiseEvent(d)
  <2>1. PICK e \in raising[d] :
            /\ raising' = [raising EXCEPT ![d] = @ \ {e}]
            /\ main' = [main EXCEPT ![d] =
                  Append(@, [type |-> "added", key |-> e[1], reg |-> e[2]])]
            /\ UNCHANGED <<committed, calls, view, puts, network>>
    BY <1>3 DEF RaiseEvent
  <2>2. [type |-> "added", key |-> e[1], reg |-> e[2]] \in Callback
    BY DEF DbTypeOK, Callback
  <2>3. main' \in [Device -> Seq(Callback)]
    BY <2>1, <2>2, QueueType DEF DbTypeOK
  <2> QED
    BY <2>1, <2>3 DEF DbTypeOK, calls, view, puts, network
<1>4. CASE ReceiveData(d)
  <2>1. Head(inbox[d]) \in Message /\ Tail(inbox[d]) \in Seq(Message)
    BY <1>4, QueueType DEF ReceiveData, Incoming, DbTypeOK
  <2>2. Head(inbox[d]).keys \in SUBSET Key
    BY <1>4, <2>1 DEF ReceiveData, Incoming, Message, Response
  <2>3. AddedEvents(d, Head(inbox[d]).keys) \in SUBSET (Key \X Reg)
    BY <2>2 DEF AddedEvents, DbTypeOK
  <2> QED
    BY <1>4, <2>1, <2>2, <2>3 DEF ReceiveData, Incoming, DbTypeOK, calls, puts
<1>5. CASE ReceiveListenOk(d)
  <2> DEFINE done == [i \in DOMAIN deferred[d] |-> Completion(deferred[d][i])]
  <2>1. done \in Seq(Callback)
    BY CompletionsType DEF DbTypeOK
  <2>2. main' = [main EXCEPT ![d] = @ \o done]
    BY <1>5 DEF ReceiveListenOk
  <2> HIDE DEF done
  <2>3. main' \in [Device -> Seq(Callback)]
    BY <2>1, <2>2, QueueType DEF DbTypeOK
  <2>4. Tail(inbox[d]) \in Seq(Message)
    BY <1>5, QueueType DEF ReceiveListenOk, Incoming, DbTypeOK
  <2> QED
    BY <1>5, <2>3, <2>4, QueueType DEF ReceiveListenOk, Incoming, DbTypeOK, calls
<1>6. CASE ReceivePutResponse(d)
  <2>1. Head(inbox[d]) \in Message /\ Tail(inbox[d]) \in Seq(Message)
    BY <1>6, QueueType DEF ReceivePutResponse, Incoming, DbTypeOK
  <2>2. Head(inbox[d]) \in Response
    BY <1>6, <2>1 DEF ReceivePutResponse, Incoming, Message, Response
  <2>3. Completion(Head(inbox[d])) \in Callback
    BY <2>2 DEF Completion, Response, Callback
  <2>4. /\ deferred' \in [Device -> Seq(Response)]
        /\ main' \in [Device -> Seq(Callback)]
        /\ writes' \in [Device -> SUBSET Key]
    <3>1. CASE ListenUnacked(d)
      <4>1. /\ deferred' = [deferred EXCEPT ![d] = Append(@, Head(inbox[d]))]
            /\ UNCHANGED <<main, writes>>
        BY <1>6, <3>1 DEF ReceivePutResponse
      <4> QED
        BY <2>2, <4>1, QueueType DEF DbTypeOK
    <3>2. CASE ~ ListenUnacked(d)
      <4>1. Head(inbox[d]).key \in Key
        BY <2>2 DEF Response
      <4>2. /\ deferred' = deferred
            /\ main' = [main EXCEPT ![d] = Append(@, Completion(Head(inbox[d])))]
            /\ writes' = [writes EXCEPT ![d] = @ \ {Head(inbox[d]).key}]
        BY <1>6, <3>2 DEF ReceivePutResponse
      <4> QED
        BY <2>3, <4>1, <4>2, QueueType DEF DbTypeOK
    <3> QED
      BY <3>1, <3>2
  <2> QED
    BY <1>6, <2>1, <2>4 DEF ReceivePutResponse, Incoming, DbTypeOK, calls
<1> QED
  BY <1>1, <1>2, <1>3, <1>4, <1>5, <1>6 DEF WorkerStep

\* A step of the server, or the loss of a connection, keeps the types.
LEMMA NetworkTypes ==
    ASSUME DbTypeOK,
           RemotePut \/ \E d \in Device : ServerStep(d) \/ Reconnect(d)
    PROVE  DbTypeOK'
<1>1. ASSUME NEW d \in Device, AnswerListen(d)
      PROVE  DbTypeOK'
  <2>1. <<[type |-> "data", keys |-> committed], [type |-> "listenOk"]>>
            \in Seq(Message)
    BY DEF DbTypeOK, Message
  <2>2. inbox' \in [Device -> Seq(Message)]
    BY <1>1, <2>1, QueueType DEF AnswerListen, DbTypeOK
  <2> QED
    BY <1>1, <2>2 DEF AnswerListen, DbTypeOK, calls, view, puts, callback
<1>2. ASSUME NEW d \in Device, AcceptPut(d)
      PROVE  DbTypeOK'
  <2>1. PICK k \in Key :
            /\ committed' = committed \cup {k}
            /\ inbox' = [e \in Device |-> inbox[e] \o Pushed(d, k, e)]
            /\ answered' = [answered EXCEPT ![d] = @ \cup {k}]
            /\ UNCHANGED <<calls, view, putCounter, outstanding, deferred, listen,
                           trouble, callback>>
    BY <1>2 DEF AcceptPut
  <2>2. ASSUME NEW e \in Device
        PROVE  inbox[e] \o Pushed(d, k, e) \in Seq(Message)
    <3>1. Pushed(d, k, e) \in Seq(Message)
      BY PushedType
    <3>2. inbox[e] \in Seq(Message)
      BY DEF DbTypeOK
    <3> QED
      BY <3>1, <3>2, QueueType
  <2>3. inbox' \in [Device -> Seq(Message)]
    BY <2>1, <2>2
  <2> QED
    BY <2>1, <2>3 DEF DbTypeOK, calls, view, callback
<1>3. ASSUME NEW d \in Device, RejectPut(d)
      PROVE  DbTypeOK'
  <2>1. PICK k \in Key :
            /\ refused' = refused \cup {k}
            /\ inbox' = [inbox EXCEPT ![d] = Append(@, Answer(k, FALSE))]
            /\ answered' = [answered EXCEPT ![d] = @ \cup {k}]
            /\ UNCHANGED <<committed, calls, view, putCounter, outstanding, deferred,
                           listen, drops, callback>>
    BY <1>3 DEF RejectPut
  <2>2. Answer(k, FALSE) \in Message
    BY DEF Answer, Message, Response
  <2>3. inbox' \in [Device -> Seq(Message)]
    BY <2>1, <2>2, QueueType DEF DbTypeOK
  <2> QED
    BY <2>1, <2>3 DEF DbTypeOK, calls, view, callback
<1>4. ASSUME RemotePut
      PROVE  DbTypeOK'
  <2>1. \A k \in Key : [type |-> "data", keys |-> {k}] \in Message
    BY DEF Message
  <2>2. inbox' \in [Device -> Seq(Message)]
    BY <1>4, <2>1, QueueType DEF RemotePut, DbTypeOK
  <2> QED
    BY <1>4, <2>2 DEF RemotePut, DbTypeOK, calls, view, puts, callback
<1>5. ASSUME NEW d \in Device, Reconnect(d)
      PROVE  DbTypeOK'
  BY <1>5, QueueType DEF Reconnect, RestoredListen, RestoredPuts, DbTypeOK, calls, view, callback
<1> QED
  BY <1>1, <1>2, <1>3, <1>4, <1>5 DEF ServerStep

-----------------------------------------------------------------------------
(* Delivery: an observer is told of every child that enters the view.      *)

\* Observer r is registered, or its registration is queued for the worker.
Known(d, r) == r \in regs[d] \/ Queued(d, r)

\* A callback that waits on the main queue stays there when others join it.
LEMMA WaitingAppend ==
    ASSUME DbTypeOK, NEW d \in Device, NEW k \in Key, NEW r \in Reg,
           NEW t \in Seq(Callback), main'[d] = main[d] \o t,
           \E i \in Waiting(d) : Event(d, i) = <<k, r>>
    PROVE  (\E i \in Waiting(d) : Event(d, i) = <<k, r>>)'
<1>1. PICK i \in DOMAIN main[d] : main[d][i].type = "added" /\ Event(d, i) = <<k, r>>
  BY DEF Waiting
<1>2. i \in DOMAIN main'[d] /\ main'[d][i] = main[d][i]
  BY DEF DbTypeOK
<1>3. i \in Waiting(d)'
  BY <1>1, <1>2 DEF Waiting
<1> QED
  BY <1>1, <1>2, <1>3 DEF Event

\* The worker takes the head of its queue: any other registration still waits.
LEMMA QueuedTail ==
    ASSUME DbTypeOK, NEW d \in Device, NEW r \in Reg, work[d] # << >>,
           work'[d] = Tail(work[d]), Queued(d, r)
    PROVE  Head(work[d]) = [type |-> "observe", reg |-> r] \/ Queued(d, r)'
<1>1. PICK i \in 1 .. Len(work[d]) : work[d][i] = [type |-> "observe", reg |-> r]
  BY DEF Queued, DbTypeOK
<1>2. CASE i = 1
  BY <1>1, <1>2 DEF DbTypeOK
<1>3. CASE i # 1
  <2>1. i - 1 \in DOMAIN Tail(work[d]) /\ Tail(work[d])[i - 1] = work[d][i]
    BY <1>3 DEF DbTypeOK
  <2> QED
    BY <1>1, <2>1 DEF Queued
<1> QED
  BY <1>2, <1>3

\* A step of the worker on its own device: an observer that is known stays
\* known; a callback underway stays underway; a child enters the view only with
\* the observer's callback, or while the observer still waits for the worker,
\* which on registering it raises a callback for every child.
LEMMA WorkerDelivers ==
    ASSUME DbTypeOK, NEW d \in Device, NEW k \in Key, NEW r \in Reg,
           WorkerStep(d), Known(d, r)
    PROVE  /\ Known(d, r)'
           /\ Underway(d, k, r) => Underway(d, k, r)'
           /\ k \in View(d)' => k \in View(d) \/ Underway(d, k, r)' \/ Queued(d, r)'
           /\ (k \in View(d)' /\ Queued(d, r)) => Queued(d, r)' \/ Underway(d, k, r)'
<1>1. CASE RunObserve(d)
  <2> DEFINE q == Head(work[d]).reg
  <2>1. /\ work'[d] = Tail(work[d])
        /\ regs'[d] = regs[d] \cup {q}
        /\ raising'[d] = View(d) \X {q}
        /\ raising[d] = {}
        /\ View(d)' = View(d)
        /\ main' = main
    BY <1>1 DEF RunObserve, DbTypeOK, InitialEvents, View, Idle
  <2>2. Queued(d, r) => Queued(d, r)' \/ q = r
    <3>1. work[d] # << >>
      BY <1>1 DEF RunObserve
    <3>2. Queued(d, r) => Head(work[d]) = [type |-> "observe", reg |-> r]
                          \/ Queued(d, r)'
      BY <2>1, <3>1, QueuedTail
    <3> QED
      BY <3>2
  <2>3. (q = r /\ k \in View(d)) => Underway(d, k, r)'
    BY <2>1 DEF Underway
  <2>4. Underway(d, k, r) => Underway(d, k, r)'
    BY <2>1 DEF Underway, Waiting, Event
  <2> QED
    BY <2>1, <2>2, <2>3, <2>4 DEF Known
<1>2. CASE RunSet(d)
  <2> DEFINE j == Head(work[d]).key
  <2>1. /\ work'[d] = Tail(work[d])
        /\ regs' = regs
        /\ raising'[d] = ({j} \ View(d)) \X regs[d]
        /\ raising[d] = {}
        /\ View(d)' = View(d) \cup {j}
        /\ main' = main
    BY <1>2 DEF RunSet, DbTypeOK, AddedEvents, View, Idle, network
  <2>2. Queued(d, r) => Queued(d, r)'
    <3>1. Head(work[d]) # [type |-> "observe", reg |-> r]
      BY <1>2 DEF RunSet
    <3> QED
      BY <1>2, <2>1, <3>1, QueuedTail DEF RunSet
  <2>3. (k = j /\ k \notin View(d) /\ r \in regs[d]) => Underway(d, k, r)'
    BY <2>1 DEF Underway
  <2>4. Underway(d, k, r) => Underway(d, k, r)'
    BY <2>1 DEF Underway, Waiting, Event
  <2> QED
    BY <2>1, <2>2, <2>3, <2>4 DEF Known
<1>3. CASE RaiseEvent(d)
  <2>1. PICK e \in raising[d] :
            /\ raising' = [raising EXCEPT ![d] = @ \ {e}]
            /\ main' = [main EXCEPT ![d] =
                  Append(@, [type |-> "added", key |-> e[1], reg |-> e[2]])]
            /\ UNCHANGED <<committed, calls, view, puts, network>>
    BY <1>3 DEF RaiseEvent
  <2> DEFINE c == [type |-> "added", key |-> e[1], reg |-> e[2]]
  <2>2. c \in Callback /\ e = <<e[1], e[2]>>
    BY DEF DbTypeOK, Callback
  <2>3. main'[d] = Append(main[d], c)
    BY <2>1 DEF DbTypeOK
  <2>4. Known(d, r)' /\ View(d)' = View(d) /\ (Queued(d, r) => Queued(d, r)')
    BY <2>1 DEF Known, Queued, View, calls, view
  <2>5. ASSUME \E i \in Waiting(d) : Event(d, i) = <<k, r>>
        PROVE  Underway(d, k, r)'
    <3>1. main'[d] = main[d] \o <<c>> /\ <<c>> \in Seq(Callback)
      BY <2>2, <2>3 DEF DbTypeOK
    <3> QED
      BY <2>5, <3>1, WaitingAppend DEF Underway
  <2>6. ASSUME e = <<k, r>>
        PROVE  Underway(d, k, r)'
    <3> DEFINE n == Len(main[d]) + 1
    <3>1. n \in DOMAIN main'[d] /\ main'[d][n] = c
      BY <2>2, <2>3 DEF DbTypeOK
    <3>2. c.type = "added" /\ c.key = k /\ c.reg = r
      BY <2>6
    <3> HIDE DEF n, c
    <3> QED
      BY <3>1, <3>2 DEF Underway, Waiting, Event
  <2>7. ASSUME <<k, r>> \in raising[d], e # <<k, r>>
        PROVE  Underway(d, k, r)'
    BY <2>1, <2>7 DEF Underway, DbTypeOK
  <2> QED
    BY <2>4, <2>5, <2>6, <2>7 DEF Underway
<1>4. CASE ReceiveData(d)
  <2> DEFINE keys == Head(inbox[d]).keys
  <2>1. /\ work' = work
        /\ regs' = regs
        /\ raising'[d] = (keys \ View(d)) \X regs[d]
        /\ raising[d] = {}
        /\ View(d)' = View(d) \cup keys
        /\ main' = main
    BY <1>4 DEF ReceiveData, Incoming, DbTypeOK, AddedEvents, View, Idle, calls
  <2>2. (k \in keys /\ k \notin View(d) /\ r \in regs[d]) => Underway(d, k, r)'
    BY <2>1 DEF Underway
  <2>3. Underway(d, k, r) => Underway(d, k, r)'
    BY <2>1 DEF Underway, Waiting, Event
  <2> QED
    BY <2>1, <2>2, <2>3 DEF Known, Queued
<1>5. CASE ReceiveListenOk(d)
  <2> DEFINE done == [i \in DOMAIN deferred[d] |-> Completion(deferred[d][i])]
  <2>1. done \in Seq(Callback)
    BY CompletionsType DEF DbTypeOK
  <2>2. main'[d] = main[d] \o done
    BY <1>5 DEF ReceiveListenOk, DbTypeOK
  <2> HIDE DEF done
  <2>3. Underway(d, k, r) => Underway(d, k, r)'
    BY <1>5, <2>1, <2>2, WaitingAppend DEF ReceiveListenOk, Underway
  <2>4. k \in View(d)' => k \in View(d)
    BY <1>5 DEF ReceiveListenOk, View, DbTypeOK
  <2> QED
    BY <1>5, <2>3, <2>4 DEF ReceiveListenOk, Known, Queued, calls
<1>6. CASE ReceivePutResponse(d)
  <2> DEFINE c == Completion(Head(inbox[d]))
  <2>1. main' = main \/ main'[d] = Append(main[d], c)
    BY <1>6 DEF ReceivePutResponse, DbTypeOK
  <2>2. c \in Callback
    <3>1. Head(inbox[d]) \in Message
      BY <1>6, QueueType DEF ReceivePutResponse, Incoming, DbTypeOK
    <3>2. Head(inbox[d]) \in Response
      BY <1>6, <3>1 DEF ReceivePutResponse, Incoming, Message, Response
    <3> QED
      BY <3>2 DEF Completion, Response, Callback
  <2> HIDE DEF c
  <2>3. main'[d] = main[d] \/ (main'[d] = main[d] \o <<c>> /\ <<c>> \in Seq(Callback))
    <3>1. main[d] \in Seq(Callback)
      BY DEF DbTypeOK
    <3>2. Append(main[d], c) = main[d] \o <<c>> /\ <<c>> \in Seq(Callback)
      BY <2>2, <3>1
    <3> QED
      BY <2>1, <3>2
  <2>4. (\E i \in Waiting(d) : Event(d, i) = <<k, r>>)
            => (\E i \in Waiting(d) : Event(d, i) = <<k, r>>)'
    <3>1. CASE main'[d] = main[d]
      BY <3>1 DEF Waiting, Event
    <3>2. CASE main'[d] = main[d] \o <<c>> /\ <<c>> \in Seq(Callback)
      BY <3>2, WaitingAppend
    <3> QED
      BY <2>3, <3>1, <3>2
  <2>5. k \in View(d)' => k \in View(d)
    BY <1>6 DEF ReceivePutResponse, View, DbTypeOK
  <2> QED
    BY <1>6, <2>4, <2>5 DEF ReceivePutResponse, Underway, Known, Queued, calls
<1> QED
  BY <1>1, <1>2, <1>3, <1>4, <1>5, <1>6 DEF WorkerStep

\* What a step touches of a device's observers and of their callbacks.
desk(d) == <<handles[d], work[d], regs[d], snap[d], writes[d], raising[d], main[d]>>

\* The worker of one device leaves the others alone.
LEMMA WorkerElsewhere ==
    ASSUME DbTypeOK, NEW c \in Device, NEW d \in Device, c # d, WorkerStep(c)
    PROVE  UNCHANGED desk(d)
<1>1. CASE ReceivePutResponse(c)
  BY <1>1 DEF desk, ReceivePutResponse, DbTypeOK, calls
<1>2. CASE RaiseEvent(c)
  BY <1>2 DEF desk, RaiseEvent, DbTypeOK, calls, view
<1> QED
  BY <1>1, <1>2 DEF desk, WorkerStep, RunObserve, RunSet, ReceiveData, ReceiveListenOk,
                    Incoming, DbTypeOK, calls, network

\* The server and the network reach a device only through its inbox.
LEMMA NetworkApart ==
    ASSUME NEW d \in Device,
           RemotePut \/ \E c \in Device : ServerStep(c) \/ Reconnect(c)
    PROVE  UNCHANGED desk(d)
  BY DEF desk, RemotePut, ServerStep, AnswerListen, AcceptPut, RejectPut, Reconnect,
         calls, view, callback

-----------------------------------------------------------------------------
(* Truth: what a device is told is what the server has done.               *)

\* The server has done what a response says.
Verdict(response) ==
    response.key \in (IF response.ok THEN committed ELSE refused)

TrueResponse == { r \in Response : Verdict(r) }

TrueMessage == { m \in Message : /\ m.type = "data" => m.keys \subseteq committed
                                 /\ m.type = "ack" => Verdict(m) }

\* The children that the server has stored or refused, or that d will send again.
Vouched(d) == committed \cup refused \cup { p[2] : p \in outstanding[d] }

TrueCallback(d) == { c \in Callback : /\ c.type = "added" => c.key \in Vouched(d)
                                      /\ (c.type = "done" /\ c.ok) => c.key \in committed }

\* The messages, responses and callbacks that wait on d tell the truth, and its
\* view holds nothing that it is not going to send and the server does not know.
Truthful(d) ==
    /\ inbox[d] \in Seq(TrueMessage)
    /\ deferred[d] \in Seq(TrueResponse)
    /\ main[d] \in Seq(TrueCallback(d))
    /\ snap[d] \subseteq committed
    /\ writes[d] \subseteq Vouched(d)
    /\ raising[d] \subseteq Vouched(d) \X Reg

\* A queue of elements of S is one of elements of a larger set.
LEMMA QueueGrows ==
    ASSUME NEW S, NEW T, S \subseteq T, NEW s \in Seq(S)
    PROVE  s \in Seq(T)
<1>1. \A i \in 1 .. Len(s) : s[i] \in T
  OBVIOUS
<1> QED
  BY <1>1

\* The device keeps vouching, and nothing that waits on it becomes untrue.
LEMMA TruthKept ==
    ASSUME NEW d \in Device, committed \subseteq committed', refused \subseteq refused',
           Vouched(d) \subseteq Vouched(d)'
    PROVE  /\ \A s \in Seq(TrueMessage) : s \in Seq(TrueMessage)'
           /\ \A s \in Seq(TrueResponse) : s \in Seq(TrueResponse)'
           /\ \A s \in Seq(TrueCallback(d)) : s \in Seq(TrueCallback(d))'
<1>1. TrueMessage \subseteq TrueMessage'
  BY DEF TrueMessage, Verdict
<1>2. TrueResponse \subseteq TrueResponse'
  BY DEF TrueResponse, Verdict
<1>3. TrueCallback(d) \subseteq TrueCallback(d)'
  BY DEF TrueCallback
<1> HIDE DEF TrueMessage, TrueResponse, TrueCallback
<1> QED
  BY <1>1, <1>2, <1>3, QueueGrows

\* What the device's truth is about.
told(d) == <<inbox[d], deferred[d], main[d], snap[d], writes[d], raising[d]>>

\* A device that nothing happens to, but for what the server does, stays truthful.
LEMMA TruthStays ==
    ASSUME NEW d \in Device, Truthful(d), UNCHANGED told(d),
           committed \subseteq committed', refused \subseteq refused',
           Vouched(d) \subseteq Vouched(d)'
    PROVE  Truthful(d)'
<1>1. /\ inbox'[d] \in Seq(TrueMessage)'
      /\ deferred'[d] \in Seq(TrueResponse)'
      /\ main'[d] \in Seq(TrueCallback(d))'
  BY TruthKept DEF Truthful, told
<1>2. /\ snap'[d] \subseteq committed'
      /\ writes'[d] \subseteq Vouched(d)'
      /\ raising'[d] \subseteq Vouched(d)' \X Reg
  BY DEF Truthful, told
<1> QED
  BY <1>1, <1>2 DEF Truthful

\* The app's calls are not told of; a callback that runs leaves the queue.
LEMMA CallTruth ==
    ASSUME DbTypeOK, NEW c \in Device, NEW d \in Device, Truthful(d),
           \/ Observe(c)
           \/ \E k \in Key : SetValue(c, k)
           \/ RunCallback(c)
    PROVE  Truthful(d)' /\ Vouched(d) \subseteq Vouched(d)'
<1>1. UNCHANGED <<committed, refused, Vouched(d)>>
  BY DEF Observe, SetValue, RunCallback, calls, view, puts, network, Vouched
<1>2. CASE Observe(c) \/ \E k \in Key : SetValue(c, k)
  <2>1. UNCHANGED told(d)
    BY <1>2 DEF Observe, SetValue, view, puts, network, callback, told
  <2> QED
    BY <1>1, <2>1, TruthStays
<1>3. CASE RunCallback(c)
  <2>1. /\ UNCHANGED <<inbox, deferred, snap, writes, raising>>
        /\ main'[d] = main[d] \/ (main[d] # << >> /\ main'[d] = Tail(main[d]))
    BY <1>3 DEF RunCallback, calls, view, puts, network, DbTypeOK
  <2>2. main'[d] \in Seq(TrueCallback(d))
    BY <2>1, QueueType DEF Truthful
  <2>3. main'[d] \in Seq(TrueCallback(d))' /\ inbox'[d] \in Seq(TrueMessage)'
        /\ deferred'[d] \in Seq(TrueResponse)'
    BY <1>1, <2>1, <2>2, TruthKept DEF Truthful
  <2> QED
    BY <1>1, <2>1, <2>3 DEF Truthful
<1> QED
  BY <1>2, <1>3

\* A process that ends is told nothing; the others are not told of it.
LEMMA EndTruth ==
    ASSUME DbTypeOK, NEW c \in Device, NEW d \in Device, Truthful(d), EndProcess(c)
    PROVE  Truthful(d)' /\ (c # d => Vouched(d) \subseteq Vouched(d)')
<1>1. UNCHANGED <<committed, refused>>
  BY DEF EndProcess
<1>2. CASE c # d
  <2>1. UNCHANGED <<told(d), Vouched(d)>>
    BY <1>1, <1>2 DEF EndProcess, told, Vouched, DbTypeOK
  <2> QED
    BY <1>1, <2>1, TruthStays
<1>3. CASE c = d
  <2>1. /\ inbox'[d] = << >> /\ deferred'[d] = << >> /\ main'[d] = << >>
        /\ snap'[d] = {} /\ writes'[d] = {} /\ raising'[d] = {}
    BY <1>3 DEF EndProcess, DbTypeOK
  <2> QED
    BY <1>3, <2>1, QueueType DEF Truthful
<1> QED
  BY <1>2, <1>3

\* The message that the worker takes is true, and so are those behind it.
LEMMA IncomingTruth ==
    ASSUME DbTypeOK, NEW d \in Device, NEW type, Incoming(d, type), Truthful(d)
    PROVE  /\ Head(inbox[d]) \in TrueMessage /\ Head(inbox[d]).type = type
           /\ inbox'[d] \in Seq(TrueMessage)
<1>1. inbox[d] # << >> /\ inbox'[d] = Tail(inbox[d]) /\ Head(inbox[d]).type = type
  BY DEF Incoming, DbTypeOK
<1> QED
  BY <1>1, QueueType DEF Truthful

\* A step of the worker, for its own device.
LEMMA WorkerTruth ==
    ASSUME DbTypeOK, NEW d \in Device, WorkerStep(d), Truthful(d)
    PROVE  Truthful(d)' /\ Vouched(d) \subseteq Vouched(d)'
<1> DEFINE Goal == Truthful(d)' /\ Vouched(d) \subseteq Vouched(d)'
<1>a. View(d) \subseteq Vouched(d)
  BY DEF Truthful, View, Vouched
<1>b. UNCHANGED <<committed, refused>>
  BY DEF WorkerStep, RunObserve, RunSet, RaiseEvent, ReceiveData, ReceiveListenOk,
         ReceivePutResponse, network
<1>c. ASSUME /\ Vouched(d) \subseteq Vouched(d)'
             /\ inbox'[d] \in Seq(TrueMessage)
             /\ deferred'[d] \in Seq(TrueResponse)
             /\ main'[d] \in Seq(TrueCallback(d))
             /\ snap'[d] \subseteq committed
             /\ writes'[d] \subseteq Vouched(d)'
             /\ raising'[d] \subseteq Vouched(d)' \X Reg
      PROVE  Goal
  <2>1. /\ inbox'[d] \in Seq(TrueMessage)'
        /\ deferred'[d] \in Seq(TrueResponse)'
        /\ main'[d] \in Seq(TrueCallback(d))'
    BY <1>b, <1>c, TruthKept
  <2> QED
    BY <1>b, <1>c, <2>1 DEF Truthful, Goal
<1> HIDE DEF Goal
<1>1. CASE RunObserve(d)
  <2>1. Head(work[d]) \in Call
    BY <1>1, QueueType DEF RunObserve, DbTypeOK
  <2>2. Head(work[d]).reg \in Reg
    BY <1>1, <2>1 DEF RunObserve, Call
  <2>3. /\ raising'[d] = View(d) \X {Head(work[d]).reg}
        /\ UNCHANGED <<inbox, deferred, main, snap, writes, outstanding>>
    BY <1>1 DEF RunObserve, InitialEvents, puts, DbTypeOK
  <2>4. UNCHANGED Vouched(d)
    BY <1>b, <2>3 DEF Vouched
  <2> QED
    BY <1>a, <1>c, <2>2, <2>3, <2>4 DEF Truthful, Goal
<1>2. CASE RunSet(d)
  <2> DEFINE k == Head(work[d]).key
  <2>1. /\ writes'[d] = writes[d] \cup {k}
        /\ outstanding'[d] = outstanding[d] \cup {<<putCounter[d], k>>}
        /\ raising'[d] = ({k} \ View(d)) \X regs[d]
        /\ UNCHANGED <<inbox, deferred, main, snap>>
    BY <1>2 DEF RunSet, AddedEvents, network, DbTypeOK
  <2> HIDE DEF k
  <2>2. Vouched(d) \subseteq Vouched(d)' /\ k \in Vouched(d)'
    <3>1. outstanding[d] \subseteq outstanding'[d]
      BY <2>1
    <3>2. k \in { p[2] : p \in outstanding'[d] }
      <4>1. <<putCounter[d], k>> \in outstanding'[d] /\ <<putCounter[d], k>>[2] = k
        BY <2>1
      <4> QED
        BY <4>1, Zenon
    <3> QED
      BY <1>b, <3>1, <3>2 DEF Vouched
  <2>3. regs[d] \subseteq Reg
    BY DEF DbTypeOK
  <2>4. raising'[d] \subseteq Vouched(d)' \X Reg
    BY <2>1, <2>2, <2>3
  <2>5. writes'[d] \subseteq Vouched(d)'
    BY <2>1, <2>2 DEF Truthful
  <2> QED
    BY <1>c, <2>1, <2>2, <2>4, <2>5 DEF Truthful, Goal
<1>3. CASE RaiseEvent(d)
  <2>1. PICK e \in raising[d] :
            /\ raising' = [raising EXCEPT ![d] = @ \ {e}]
            /\ main' = [main EXCEPT ![d] =
                  Append(@, [type |-> "added", key |-> e[1], reg |-> e[2]])]
            /\ UNCHANGED <<committed, calls, view, puts, network>>
    BY <1>3 DEF RaiseEvent
  <2> DEFINE c == [type |-> "added", key |-> e[1], reg |-> e[2]]
  <2>2. c \in TrueCallback(d)
    <3>1. e[1] \in Vouched(d)
      BY DEF Truthful
    <3>2. e[1] \in Key /\ e[2] \in Reg
      BY DEF DbTypeOK
    <3> QED
      BY <3>1, <3>2 DEF TrueCallback, Callback
  <2>3. main'[d] = Append(main[d], c) /\ raising'[d] \subseteq raising[d]
    BY <2>1 DEF DbTypeOK
  <2> HIDE DEF c
  <2>4. main'[d] \in Seq(TrueCallback(d))
    BY <2>2, <2>3, QueueType DEF Truthful
  <2>5. UNCHANGED <<inbox, deferred, snap, writes, Vouched(d)>>
    BY <1>b, <2>1 DEF view, puts, network, Vouched
  <2> QED
    BY <1>c, <2>3, <2>4, <2>5 DEF Truthful, Goal
<1>4. CASE ReceiveData(d)
  <2> DEFINE keys == Head(inbox[d]).keys
  <2>1. /\ Head(inbox[d]) \in TrueMessage /\ Head(inbox[d]).type = "data"
        /\ inbox'[d] \in Seq(TrueMessage)
    BY <1>4, IncomingTruth DEF ReceiveData
  <2>2. keys \subseteq committed
    BY <2>1 DEF TrueMessage
  <2>3. /\ snap'[d] = snap[d] \cup keys
        /\ raising'[d] = (keys \ View(d)) \X regs[d]
        /\ UNCHANGED <<deferred, main, writes, outstanding>>
    BY <1>4 DEF ReceiveData, AddedEvents, puts, view, DbTypeOK
  <2> HIDE DEF keys
  <2>4. UNCHANGED Vouched(d) /\ regs[d] \subseteq Reg
    BY <1>b, <2>3 DEF Vouched, DbTypeOK
  <2>5. raising'[d] \subseteq Vouched(d) \X Reg
    BY <2>2, <2>3, <2>4 DEF Vouched
  <2>6. snap'[d] \subseteq committed
    BY <2>2, <2>3 DEF Truthful
  <2> QED
    BY <1>c, <2>1, <2>3, <2>4, <2>5, <2>6 DEF Truthful, Goal
<1>5. CASE ReceiveListenOk(d)
  <2> DEFINE done == [i \in DOMAIN deferred[d] |-> Completion(deferred[d][i])]
  <2>1. inbox'[d] \in Seq(TrueMessage)
    BY <1>5, IncomingTruth DEF ReceiveListenOk
  <2>2. done \in Seq(TrueCallback(d))
    <3>1. deferred[d] \in Seq(TrueResponse)
      BY DEF Truthful
    <3>2. \A r \in TrueResponse : Completion(r) \in TrueCallback(d)
      BY DEF TrueResponse, Response, Verdict, Completion, TrueCallback, Callback
    <3> HIDE DEF TrueResponse, TrueCallback
    <3>3. DOMAIN deferred[d] = 1 .. Len(deferred[d]) /\ Len(deferred[d]) \in Nat
      BY <3>1
    <3>4. \A i \in 1 .. Len(deferred[d]) : deferred[d][i] \in TrueResponse
      BY <3>1
    <3> QED
      BY <3>2, <3>3, <3>4
  <2>3. /\ main'[d] = main[d] \o done
        /\ deferred'[d] = << >>
        /\ writes'[d] \subseteq writes[d]
        /\ UNCHANGED <<snap, raising, outstanding>>
    BY <1>5 DEF ReceiveListenOk, DbTypeOK
  <2> HIDE DEF done
  <2>4. main'[d] \in Seq(TrueCallback(d)) /\ deferred'[d] \in Seq(TrueResponse)
    BY <2>2, <2>3, QueueType DEF Truthful
  <2>5. UNCHANGED Vouched(d)
    BY <1>b, <2>3 DEF Vouched
  <2> QED
    BY <1>c, <2>1, <2>3, <2>4, <2>5 DEF Truthful, Goal
<1>6. CASE ReceivePutResponse(d)
  <2> DEFINE r == Head(inbox[d])
  <2>1. r \in TrueMessage /\ r.type = "ack" /\ inbox'[d] \in Seq(TrueMessage)
    BY <1>6, IncomingTruth DEF ReceivePutResponse
  <2>2. r \in TrueResponse
    BY <2>1 DEF TrueMessage, Message, TrueResponse, Response
  <2>3. r.key \in committed \cup refused
    BY <2>2 DEF TrueResponse, Verdict
  <2>4. /\ outstanding'[d] = { p \in outstanding[d] : p[2] # r.key }
        /\ UNCHANGED <<snap, raising>>
        /\ writes'[d] \subseteq writes[d]
        /\ deferred'[d] = deferred[d] \/ deferred'[d] = Append(deferred[d], r)
        /\ main'[d] = main[d] \/ main'[d] = Append(main[d], Completion(r))
    BY <1>6 DEF ReceivePutResponse, DbTypeOK
  <2>5. Completion(r) \in TrueCallback(d)
    BY <2>2 DEF TrueResponse, Response, Verdict, Completion, TrueCallback, Callback
  <2> HIDE DEF r
  <2>6. Vouched(d) \subseteq Vouched(d)'
    BY <1>b, <2>3, <2>4 DEF Vouched
  <2>7. main'[d] \in Seq(TrueCallback(d)) /\ deferred'[d] \in Seq(TrueResponse)
    BY <2>2, <2>4, <2>5, QueueType, ZenonT(30) DEF Truthful
  <2>8. writes'[d] \subseteq Vouched(d)' /\ raising'[d] \subseteq Vouched(d)' \X Reg
    BY <2>4, <2>6 DEF Truthful
  <2> QED
    BY <1>c, <2>1, <2>4, <2>6, <2>7, <2>8 DEF Truthful, Goal
<1> QED
  BY <1>1, <1>2, <1>3, <1>4, <1>5, <1>6 DEF WorkerStep, Goal

\* The worker of one device, for the others.
LEMMA WorkerTruthElsewhere ==
    ASSUME DbTypeOK, NEW c \in Device, NEW d \in Device, c # d, WorkerStep(c), Truthful(d)
    PROVE  Truthful(d)' /\ Vouched(d) \subseteq Vouched(d)'
<1>1. UNCHANGED <<committed, refused, outstanding[d], inbox[d], deferred[d]>>
  <2>1. CASE ReceivePutResponse(c)
    BY <2>1 DEF ReceivePutResponse, Incoming, DbTypeOK
  <2>2. CASE ~ ReceivePutResponse(c)
    BY <2>2 DEF WorkerStep, RunObserve, RunSet, RaiseEvent, ReceiveData, ReceiveListenOk,
                Incoming, network, puts, DbTypeOK
  <2> QED
    BY <2>1, <2>2
<1>2. UNCHANGED desk(d)
  BY WorkerElsewhere
<1> QED
  BY <1>1, <1>2, TruthStays DEF desk, told, Vouched

\* The server says only what it has done.
LEMMA NetworkTruth ==
    ASSUME DbTypeOK, NEW d \in Device, Truthful(d),
           RemotePut \/ \E c \in Device : ServerStep(c) \/ Reconnect(c)
    PROVE  Truthful(d)' /\ Vouched(d) \subseteq Vouched(d)'
<1> DEFINE Goal == Truthful(d)' /\ Vouched(d) \subseteq Vouched(d)'
<1>a. UNCHANGED <<deferred, snap, writes, raising, main, outstanding>>
  <2>1. UNCHANGED <<deferred, snap, writes, raising, main>>
    BY DEF RemotePut, ServerStep, AnswerListen, AcceptPut, RejectPut, Reconnect, view, puts,
           callback
  <2>2. ASSUME NEW c \in Device, Reconnect(c)
        PROVE  UNCHANGED outstanding
    BY <2>2 DEF Reconnect, RestoredPuts, DbTypeOK
  <2>3. ASSUME RemotePut \/ \E c \in Device : ServerStep(c)
        PROVE  UNCHANGED outstanding
    BY <2>3 DEF RemotePut, ServerStep, AnswerListen, AcceptPut, RejectPut, puts
  <2> QED
    BY <2>1, <2>2, <2>3
<1>b. ASSUME /\ committed \subseteq committed'
             /\ refused \subseteq refused'
             /\ inbox'[d] \in Seq(TrueMessage)'
      PROVE  Goal
  <2>1. Vouched(d) \subseteq Vouched(d)'
    BY <1>a, <1>b DEF Vouched
  <2>2. /\ deferred'[d] \in Seq(TrueResponse)'
        /\ main'[d] \in Seq(TrueCallback(d))'
    BY <1>a, <1>b, <2>1, TruthKept DEF Truthful
  <2> QED
    BY <1>a, <1>b, <2>1, <2>2 DEF Truthful
<1>c. ASSUME committed \subseteq committed', refused \subseteq refused',
             NEW t \in Seq(TrueMessage)', inbox'[d] = inbox[d] \o t
      PROVE  Goal
  <2>1. inbox[d] \in Seq(TrueMessage)'
    <3>1. TrueMessage \subseteq TrueMessage'
      BY <1>c DEF TrueMessage, Verdict
    <3> QED
      BY <3>1, QueueGrows DEF Truthful
  <2> HIDE DEF Goal
  <2> QED
    BY <1>b, <1>c, <2>1, QueueType
<1> HIDE DEF Goal
<1>d. /\ << >> \in Seq(TrueMessage)'
      /\ \A x \in TrueMessage' : <<x>> \in Seq(TrueMessage)'
      /\ \A s, t \in Seq(TrueMessage)' : s \o t \in Seq(TrueMessage)'
  BY QueueType
<1>e. inbox[d] \in Seq(TrueMessage) /\ inbox[d] \o << >> = inbox[d]
  BY DEF Truthful
<1>1. ASSUME NEW c \in Device, AnswerListen(c)
      PROVE  Goal
  <2> DEFINE t == <<[type |-> "data", keys |-> committed], [type |-> "listenOk"]>>
  <2>1. t \in Seq(TrueMessage)'
    BY <1>1 DEF AnswerListen, DbTypeOK, Message, TrueMessage
  <2>2. inbox'[d] = inbox[d] \/ inbox'[d] = inbox[d] \o t
    BY <1>1 DEF AnswerListen, DbTypeOK
  <2>3. UNCHANGED <<committed, refused>>
    BY <1>1 DEF AnswerListen
  <2> HIDE DEF t
  <2> QED
    BY <1>c, <1>d, <1>e, <2>1, <2>2, <2>3
<1>2. ASSUME NEW c \in Device, AcceptPut(c)
      PROVE  Goal
  <2>1. PICK k \in Key :
            /\ committed' = committed \cup {k}
            /\ inbox' = [e \in Device |-> inbox[e] \o Pushed(c, k, e)]
            /\ UNCHANGED refused
    BY <1>2 DEF AcceptPut
  <2>2. /\ [type |-> "data", keys |-> {k}] \in TrueMessage'
        /\ Answer(k, TRUE) \in TrueMessage'
    BY <2>1 DEF TrueMessage, Message, Response, Answer, Verdict
  <2>3. Pushed(c, k, d) \in Seq(TrueMessage)'
    <3> HIDE DEF TrueMessage
    <3> QED
      BY <1>d, <2>2, Zenon DEF Pushed
  <2> QED
    BY <1>c, <2>1, <2>3
<1>3. ASSUME NEW c \in Device, RejectPut(c)
      PROVE  Goal
  <2>1. PICK k \in Key :
            /\ refused' = refused \cup {k}
            /\ inbox' = [inbox EXCEPT ![c] = Append(@, Answer(k, FALSE))]
            /\ UNCHANGED committed
    BY <1>3 DEF RejectPut
  <2> DEFINE m == Answer(k, FALSE)
  <2>2. m \in TrueMessage'
    BY <2>1 DEF TrueMessage, Message, Response, Answer, Verdict
  <2>3. inbox'[d] = inbox[d] \/ inbox'[d] = inbox[d] \o <<m>>
    <3>1. inbox'[d] = inbox[d] \/ inbox'[d] = Append(inbox[d], m)
      BY <2>1 DEF DbTypeOK
    <3>2. inbox[d] \in Seq(Message) /\ m \in Message
      BY DEF DbTypeOK, Answer, Message, Response
    <3> HIDE DEF m
    <3> HIDE DEF Message
    <3> QED
      BY <3>1, <3>2
  <2> HIDE DEF TrueMessage, m
  <2> QED
    BY <1>c, <1>d, <1>e, <2>1, <2>2, <2>3
<1>4. ASSUME RemotePut
      PROVE  Goal
  <2>1. PICK k \in Key :
            /\ committed' = committed \cup {k}
            /\ inbox' = [e \in Device |->
                  IF Serving(e) THEN Append(inbox[e], [type |-> "data", keys |-> {k}])
                                ELSE inbox[e]]
            /\ UNCHANGED refused
    BY <1>4 DEF RemotePut
  <2> DEFINE m == [type |-> "data", keys |-> {k}]
  <2>2. m \in TrueMessage'
    BY <2>1 DEF TrueMessage, Message
  <2> HIDE DEF m
  <2>3. inbox'[d] = inbox[d] \/ inbox'[d] = inbox[d] \o <<m>>
    <3>1. inbox'[d] = inbox[d] \/ inbox'[d] = Append(inbox[d], m)
      BY <2>1, Zenon DEF m
    <3>2. inbox[d] \in Seq(Message) /\ m \in Message
      BY DEF DbTypeOK, Message, m
    <3> HIDE DEF Message
    <3> QED
      BY <3>1, <3>2
  <2> HIDE DEF TrueMessage
  <2> QED
    BY <1>c, <1>d, <1>e, <2>1, <2>2, <2>3
<1>5. ASSUME NEW c \in Device, Reconnect(c)
      PROVE  Goal
  <2>1. (inbox'[d] = inbox[d] \/ inbox'[d] = << >>) /\ UNCHANGED <<committed, refused>>
    BY <1>5 DEF Reconnect, DbTypeOK
  <2> QED
    BY <1>b, <1>c, <1>d, <1>e, <2>1
<1> QED
  BY <1>1, <1>2, <1>3, <1>4, <1>5 DEF ServerStep, Goal

\* At the start nobody has been told anything.
LEMMA InitTruth ==
    ASSUME NEW listening, DbInit(listening), NEW d \in Device
    PROVE  Truthful(d)
  BY QueueType DEF DbInit, Truthful

-----------------------------------------------------------------------------
(* Once: a key is written once, answered once, and never shown anew.       *)

\* The put of key k waits for the worker.
Waits(d, k) == \E i \in DOMAIN work[d] : work[d][i] = [type |-> "set", key |-> k]

\* The keys that d has sent, or will send, to the server.
Outgoing(d) == { p[2] : p \in outstanding[d] }
Mine(d) == { k \in Key : Waits(d, k) } \cup Outgoing(d)

\* The keys that nobody will write any more, and those of them that never were.
Settled == { k \in minted \ Remote : \A d \in Device : k \notin Mine(d) }
Gone == Settled \ committed

\* A call waits once, and an observer that waits is not registered.
CallsOnce(d) ==
    /\ \A i, j \in DOMAIN work[d] : work[d][i] = work[d][j] => i = j
    /\ regs[d] \subseteq 1 .. handles[d]
    /\ \A r \in Reg : Queued(d, r) => r \in 1 .. handles[d] /\ r \notin regs[d]

\* A key is written by the device that minted it, and by no other.
KeysOnce ==
    /\ Remote \subseteq minted
    /\ \A d \in Device : Mine(d) \subseteq minted \ Remote
    /\ \A d \in Device : \A k \in Key : Waits(d, k) => k \notin Outgoing(d)
    /\ \A d, e \in Device : d # e => Mine(d) \cap Mine(e) = {}

\* The responses in queue q are to the puts of keys in K, one for each.
Acks(q) == { i \in DOMAIN q : q[i].type = "ack" }
AcksFit(q, K) ==
    /\ \A i \in Acks(q) : q[i].key \in K
    /\ \A i, j \in Acks(q) : q[i].key = q[j].key => i = j

\* A response is to a put that waits for it, and there is one.
AnswersOnce(d) ==
    /\ AcksFit(inbox[d], Outgoing(d) \cap answered[d])
    /\ \A i \in DOMAIN deferred[d] : deferred[d][i].key \in Settled

\* Until the worker listens nothing is registered and nothing is sent.
NothingAsked(d) ==
    listen[d] = "none" =>
        /\ regs[d] = {} /\ Outgoing(d) = {}
        /\ work[d] # << >> => Head(work[d]).type = "observe"

\* How far the listen has come, and what that leaves in the queues.
ListenInOrder(d) ==
    /\ listen[d] \in {"none", "sent"} => DOMAIN inbox[d] = Acks(inbox[d])
    /\ listen[d] \in {"none", "active"} => deferred[d] = << >>

\* With S, and the data in queue q before place i, the worker has child k.
Ahead(S, q, k, i) ==
    k \in S \/ \E j \in DOMAIN q : j < i /\ q[j].type = "data" /\ k \in q[j].keys

\* It has k when it takes the response to the listen.
AtListenOk(S, q, k) ==
    \A p \in DOMAIN q : q[p].type = "listenOk" => Ahead(S, q, k, p)

\* The server's data comes before the response that takes the local write out of
\* the view: before the put's, or, when that has to wait, before the listen's.
\* S is the snap, q the inbox, C what is committed, D the deferred, l the listen.
InTime(S, q, C, D, l) ==
    l \in {"serving", "active"} =>
        /\ \A k \in C : Ahead(S, q, k, Len(q) + 1)
        /\ \A i \in Acks(q) : q[i].key \in C =>
              \/ Ahead(S, q, q[i].key, i)
              \/ l = "serving" /\ AtListenOk(S, q, q[i].key)
        /\ \A i \in DOMAIN D : D[i].key \in C => AtListenOk(S, q, D[i].key)

DataFirst(d) == InTime(snap[d], inbox[d], committed, deferred[d], listen[d])

\* The inductive invariant of the calls, the keys and the server's messages.
Orderly ==
    /\ KeysOnce
    /\ \A d \in Device : /\ CallsOnce(d) /\ AnswersOnce(d)
                         /\ NothingAsked(d) /\ ListenInOrder(d) /\ DataFirst(d)

\* The pair of a child and an observer is one that a callback may be about.
Announced(d, e) == e[2] \in regs[d] /\ e[1] \in View(d) \cup Gone

\* The callbacks of d: none is there twice.
EventsOnce(d) ==
    /\ \A e \in raising[d] : Announced(d, e)
    /\ \A i \in Waiting(d) : Announced(d, Event(d, i)) /\ Event(d, i) \notin raising[d]
    /\ \A i, j \in Waiting(d) : Event(d, i) = Event(d, j) => i = j

\* The pairs in D have been delivered, and are not underway again.
Delivered(d, D) ==
    \A e \in D : /\ Announced(d, e)
                 /\ e \notin raising[d]
                 /\ \A i \in Waiting(d) : Event(d, i) # e

\* What the app and the worker do to the calls of device d, in one step.
Asks(d) ==
    /\ handles'[d] = handles[d] + 1
    /\ work'[d] = Append(work[d], [type |-> "observe", reg |-> handles[d] + 1])
    /\ handles[d] + 1 \in Reg
    /\ UNCHANGED <<regs[d], outstanding[d]>>

Writes(d, k) ==
    /\ k \notin minted /\ k \in minted'
    /\ work'[d] = Append(work[d], [type |-> "set", key |-> k])
    /\ UNCHANGED <<handles[d], regs[d], outstanding[d]>>

Registers(d) ==
    /\ work[d] # << >> /\ Head(work[d]).type = "observe"
    /\ work'[d] = Tail(work[d])
    /\ regs'[d] = regs[d] \cup {Head(work[d]).reg}
    /\ UNCHANGED <<handles[d], outstanding[d]>>

Puts(d) ==
    /\ work[d] # << >> /\ Head(work[d]).type = "set"
    /\ work'[d] = Tail(work[d])
    /\ Outgoing(d)' = Outgoing(d) \cup {Head(work[d]).key}
    /\ UNCHANGED <<handles[d], regs[d]>>

Rests(d) ==
    /\ UNCHANGED <<work[d], handles[d], regs[d]>>
    /\ Outgoing(d)' \subseteq Outgoing(d)

Ends(d) ==
    /\ work'[d] = << >> /\ outstanding'[d] = {}
    /\ handles'[d] = 0 /\ regs'[d] = {}

\* Every step is one of these for each device; at most one device mints a key.
CallsMove ==
    /\ minted \subseteq minted'
    /\ \A d \in Device :
          \/ Asks(d) \/ Registers(d) \/ Puts(d) \/ Rests(d) \/ Ends(d)
          \/ \E k \in Key : Writes(d, k)
    /\ \A d \in Device : \A k \in Key : Writes(d, k) =>
          \A e \in Device : e # d => Rests(e)

\* The app of device c calls the database.  It writes only after it has asked for
\* the list.
Asked(c) == listen[c] # "none" \/ work[c] # << >>
Calling(c) == Observe(c) \/ (Asked(c) /\ \E k \in Key : SetValue(c, k))

AppStep(c) == Calling(c) \/ RunCallback(c) \/ EndProcess(c)

\* One step of the database and of those that use it.
Step ==
    \/ \E c \in Device : AppStep(c) \/ DbStep(c)
    \/ RemotePut
    \/ UNCHANGED dbVars

\* One step, in which the process of d lives and its app takes no callback.
Lives(d) ==
    \/ \E c \in Device : DbStep(c) \/ Calling(c) \/ (c # d /\ AppStep(c))
    \/ RemotePut
    \/ UNCHANGED dbVars

LEMMA StepOfDevice ==
    ASSUME NEW d \in Device
    PROVE  Step <=> Lives(d) \/ RunCallback(d) \/ EndProcess(d)
  BY DEF Step, Lives, AppStep

LEMMA CallsMoved ==
    ASSUME DbTypeOK, Step
    PROVE  CallsMove
<1>a. /\ DOMAIN work = Device /\ DOMAIN handles = Device /\ DOMAIN regs = Device
      /\ DOMAIN outstanding = Device /\ \A d \in Device : handles[d] \in 0 .. MaxHandles
  BY DEF DbTypeOK
<1>1. ASSUME UNCHANGED <<minted, work, handles, regs, outstanding>>
      PROVE  CallsMove
  <2>1. \A d \in Device : Rests(d)
    BY <1>1 DEF Rests, Outgoing
  <2>2. \A d \in Device, k \in Key : ~ Writes(d, k)
    BY <1>1 DEF Writes
  <2> QED
    BY <1>1, <2>1, <2>2 DEF CallsMove
<1>2. ASSUME NEW c \in Device, UNCHANGED minted,
             Asks(c) \/ Registers(c) \/ Puts(c) \/ Rests(c) \/ Ends(c),
             \A e \in Device : e # c => Rests(e)
      PROVE  CallsMove
  <2>1. \A d \in Device, k \in Key : ~ Writes(d, k)
    BY <1>2 DEF Writes
  <2> QED
    BY <1>2, <2>1 DEF CallsMove
<1>3. ASSUME NEW c \in Device, Observe(c)
      PROVE  CallsMove
  <2>1. Asks(c)
    BY <1>a, <1>3 DEF Observe, NewHandle, Asks, view, puts
  <2>2. \A e \in Device : e # c => Rests(e)
    BY <1>a, <1>3 DEF Observe, Rests, view, puts, Outgoing
  <2> QED
    BY <1>2, <1>3, <2>1, <2>2 DEF Observe
<1>4. ASSUME NEW c \in Device, NEW k \in Key, SetValue(c, k)
      PROVE  CallsMove
  <2>1. Writes(c, k)
    BY <1>a, <1>4 DEF SetValue, Writes, view, puts
  <2>2. \A e \in Device : e # c => Rests(e)
    BY <1>a, <1>4 DEF SetValue, Rests, view, puts, Outgoing
  <2>3. ASSUME NEW d \in Device, NEW j \in Key, Writes(d, j)
        PROVE  d = c
    <3>1. j = k
      BY <1>4, <2>3 DEF Writes, SetValue
    <3>2. CASE d # c
      <4>1. work'[d] = work[d]
        BY <1>a, <1>4, <3>2 DEF SetValue
      <4>2. work[d] \in Seq(Call) /\ [type |-> "set", key |-> j] \in Call
        BY DEF DbTypeOK, Call
      <4>3. Len(work'[d]) = Len(work[d]) + 1
        BY <2>3, <4>2 DEF Writes
      <4> QED
        BY <4>1, <4>2, <4>3
    <3> QED
      BY <3>2
  <2>4. minted \subseteq minted'
    BY <1>4 DEF SetValue
  <2>5. \A d \in Device : d = c \/ Rests(d)
    BY <2>2
  <2> QED
    BY <2>1, <2>2, <2>3, <2>4, <2>5, Zenon DEF CallsMove
<1>5. ASSUME NEW c \in Device, EndProcess(c)
      PROVE  CallsMove
  <2>1. Ends(c)
    BY <1>a, <1>5 DEF EndProcess, Ends
  <2>2. \A e \in Device : e # c => Rests(e)
    BY <1>a, <1>5 DEF EndProcess, Rests, Outgoing
  <2> QED
    BY <1>2, <1>5, <2>1, <2>2 DEF EndProcess
<1>6. ASSUME NEW c \in Device, RunObserve(c)
      PROVE  CallsMove
  <2>1. Registers(c)
    BY <1>a, <1>6 DEF RunObserve, Registers, puts
  <2>2. \A e \in Device : e # c => Rests(e)
    BY <1>a, <1>6 DEF RunObserve, Rests, puts, Outgoing
  <2> QED
    BY <1>2, <1>6, <2>1, <2>2 DEF RunObserve
<1>7. ASSUME NEW c \in Device, RunSet(c)
      PROVE  CallsMove
  <2> DEFINE k == Head(work[c]).key
             p == <<putCounter[c], k>>
  <2>1. outstanding'[c] = outstanding[c] \cup {p} /\ p[2] = k
    BY <1>a, <1>7 DEF RunSet
  <2>2. Outgoing(c)' = Outgoing(c) \cup {k}
    <3> HIDE DEF p, k
    <3> QED
      BY <2>1 DEF Outgoing
  <2>3. Puts(c)
    BY <1>a, <1>7, <2>2 DEF RunSet, Puts
  <2>4. \A e \in Device : e # c => Rests(e)
    BY <1>a, <1>7 DEF RunSet, Rests, Outgoing
  <2> QED
    BY <1>2, <1>7, <2>3, <2>4 DEF RunSet
<1>8. ASSUME NEW c \in Device, ReceivePutResponse(c)
      PROVE  CallsMove
  <2>1. outstanding'[c] \subseteq outstanding[c] /\ \A e \in Device : e # c => UNCHANGED outstanding[e]
    BY <1>a, <1>8 DEF ReceivePutResponse
  <2>2. UNCHANGED <<minted, work, handles, regs>>
    BY <1>8 DEF ReceivePutResponse, calls
  <2>3. \A e \in Device : Rests(e)
    BY <2>1, <2>2 DEF Rests, Outgoing
  <2> QED
    BY <1>2, <2>2, <2>3
<1>9. ASSUME NEW c \in Device, Reconnect(c)
      PROVE  CallsMove
  <2>1. outstanding' = outstanding
    BY <1>9 DEF Reconnect, RestoredPuts, DbTypeOK
  <2> QED
    BY <1>1, <1>9, <2>1 DEF Reconnect, calls, view
<1>10. ASSUME NEW c \in Device,
              \/ RunCallback(c) \/ RaiseEvent(c) \/ ReceiveData(c) \/ ReceiveListenOk(c)
              \/ ServerStep(c)
       PROVE  CallsMove
  BY <1>1, <1>10 DEF RunCallback, RaiseEvent, ReceiveData, ReceiveListenOk, ServerStep,
                     AnswerListen, AcceptPut, RejectPut, calls, view, puts
<1>11. CASE RemotePut \/ UNCHANGED dbVars
  BY <1>1, <1>11 DEF RemotePut, dbVars, client, calls, view, puts
<1> QED
  BY <1>3, <1>4, <1>5, <1>6, <1>7, <1>8, <1>9, <1>10, <1>11
  DEF Step, AppStep, Calling, DbStep, WorkerStep

\* The elements of a sequence, of one that grows and of its tail.
LEMMA TailPlaces ==
    ASSUME NEW S, NEW s \in Seq(S), s # << >>
    PROVE  /\ 1 \in DOMAIN s /\ s[1] = Head(s) /\ Len(s) \in Nat /\ Len(Tail(s)) = Len(s) - 1
           /\ \A i \in DOMAIN Tail(s) :
                 i \in Nat /\ i + 1 \in DOMAIN s /\ Tail(s)[i] = s[i + 1]
           /\ \A i \in DOMAIN s : i \in Nat /\ (i # 1 =>
                 i - 1 \in DOMAIN Tail(s) /\ Tail(s)[i - 1] = s[i])
  OBVIOUS

LEMMA AppendPlaces ==
    ASSUME NEW S, NEW s \in Seq(S), NEW x \in S
    PROVE  /\ Len(s) \in Nat /\ Len(Append(s, x)) = Len(s) + 1
           /\ \A i \in DOMAIN s : /\ i \in Nat /\ i <= Len(s)
                                  /\ i \in DOMAIN Append(s, x) /\ Append(s, x)[i] = s[i]
           /\ Len(s) + 1 \in DOMAIN Append(s, x) /\ Append(s, x)[Len(s) + 1] = x
           /\ \A i \in DOMAIN Append(s, x) : i \in DOMAIN s \/ i = Len(s) + 1
  OBVIOUS

\* A call that the worker takes does not wait a second time.
LEMMA CallTaken ==
    ASSUME DbTypeOK, NEW d \in Device, CallsOnce(d), work[d] # << >>, work'[d] = Tail(work[d])
    PROVE  /\ \A i, j \in DOMAIN work'[d] : work'[d][i] = work'[d][j] => i = j
           /\ \A i \in DOMAIN work'[d] : work'[d][i] # Head(work[d])
           /\ \A i \in DOMAIN work'[d] : \E j \in DOMAIN work[d] : work[d][j] = work'[d][i]
           /\ \E j \in DOMAIN work[d] : work[d][j] = Head(work[d])
<1> DEFINE s == work[d]
           t == work'[d]
<1>1. s \in Seq(Call) /\ s # << >> /\ t = Tail(s)
  BY DEF DbTypeOK
<1>2. \A i, j \in DOMAIN s : s[i] = s[j] => i = j
  BY DEF CallsOnce
<1> HIDE DEF s, t
<1>3. /\ 1 \in DOMAIN s /\ s[1] = Head(s)
      /\ \A i \in DOMAIN t : i \in Nat /\ i + 1 \in DOMAIN s /\ t[i] = s[i + 1]
      /\ \A i \in DOMAIN t : i # 0
  <2>1. DOMAIN t \subseteq Nat \ {0}
    BY <1>1
  <2> QED
    BY <1>1, <2>1, TailPlaces
<1>4. \A i, j \in DOMAIN t : t[i] = t[j] => i = j
  BY <1>2, <1>3
<1>5. \A i \in DOMAIN t : t[i] # Head(s)
  BY <1>2, <1>3
<1> QED
  BY <1>3, <1>4, <1>5 DEF s, t

\* A call that is new to the queue waits once.
LEMMA CallAdded ==
    ASSUME DbTypeOK, NEW d \in Device, CallsOnce(d), NEW c \in Call,
           work'[d] = Append(work[d], c), \A i \in DOMAIN work[d] : work[d][i] # c
    PROVE  /\ \A i, j \in DOMAIN work'[d] : work'[d][i] = work'[d][j] => i = j
           /\ \A i \in DOMAIN work'[d] :
                 work'[d][i] = c \/ \E j \in DOMAIN work[d] : work[d][j] = work'[d][i]
<1> DEFINE s == work[d]
           t == work'[d]
<1>1. s \in Seq(Call) /\ t = Append(s, c)
  BY DEF DbTypeOK
<1>2. /\ \A i, j \in DOMAIN s : s[i] = s[j] => i = j
      /\ \A i \in DOMAIN s : s[i] # c
  BY DEF CallsOnce
<1> HIDE DEF s, t
<1>3. /\ \A i \in DOMAIN s : t[i] = s[i]
      /\ t[Len(s) + 1] = c
      /\ \A i \in DOMAIN t : i \in DOMAIN s \/ i = Len(s) + 1
  BY <1>1, AppendPlaces
<1>4. \A i, j \in DOMAIN t : t[i] = t[j] => i = j
  BY <1>2, <1>3
<1>5. \A i \in DOMAIN t : t[i] = c \/ \E j \in DOMAIN s : s[j] = t[i]
  BY <1>3
<1> QED
  BY <1>4, <1>5 DEF s, t

\* Calls wait once, whatever moves.
LEMMA CallsStayOnce ==
    ASSUME DbTypeOK, NEW d \in Device, CallsOnce(d), CallsMove, Mine(d) \subseteq minted
    PROVE  CallsOnce(d)'
<1>a. /\ \A i, j \in DOMAIN work[d] : work[d][i] = work[d][j] => i = j
      /\ regs[d] \subseteq 1 .. handles[d] /\ handles[d] \in Nat
      /\ \A r \in Reg : Queued(d, r) => r \in 1 .. handles[d] /\ r \notin regs[d]
      /\ work[d] \in Seq(Call)
  BY DEF CallsOnce, DbTypeOK
<1>1. ASSUME Asks(d)
      PROVE  CallsOnce(d)'
  <2>1. PICK n \in Nat : n = handles[d]
    BY <1>a
  <2> DEFINE c == [type |-> "observe", reg |-> n + 1]
  <2>2. n + 1 \in Reg /\ c \in Call /\ work'[d] = Append(work[d], c)
        /\ handles'[d] = n + 1 /\ regs'[d] = regs[d]
    BY <1>1, <2>1 DEF Asks, Call
  <2>3. \A i \in DOMAIN work[d] : work[d][i] # c
    <3>1. ~ Queued(d, n + 1)
      BY <1>a, <2>1, <2>2
    <3> QED
      BY <3>1 DEF Queued
  <2> HIDE DEF c
  <2>4. /\ \A i, j \in DOMAIN work'[d] : work'[d][i] = work'[d][j] => i = j
        /\ \A i \in DOMAIN work'[d] :
              work'[d][i] = c \/ \E j \in DOMAIN work[d] : work[d][j] = work'[d][i]
    BY <2>2, <2>3, CallAdded
  <2>5. ASSUME NEW r \in Reg, Queued(d, r)'
        PROVE  r \in 1 .. handles'[d] /\ r \notin regs'[d]
    <3>1. [type |-> "observe", reg |-> r] = c \/ Queued(d, r)
      BY <2>4, <2>5 DEF Queued
    <3>2. CASE Queued(d, r)
      BY <1>a, <2>1, <2>2, <3>2
    <3>3. CASE [type |-> "observe", reg |-> r] = c
      <4>1. r = n + 1
        BY <3>3 DEF c
      <4> QED
        BY <1>a, <2>1, <2>2, <4>1
    <3> QED
      BY <3>1, <3>2, <3>3
  <2>6. regs'[d] \subseteq 1 .. handles'[d]
    BY <1>a, <2>1, <2>2
  <2> QED
    BY <2>4, <2>5, <2>6 DEF CallsOnce
<1>2. ASSUME NEW k \in Key, Writes(d, k)
      PROVE  CallsOnce(d)'
  <2> DEFINE c == [type |-> "set", key |-> k]
  <2>1. c \in Call /\ work'[d] = Append(work[d], c) /\ UNCHANGED <<handles[d], regs[d]>>
    BY <1>2 DEF Writes, Call
  <2>2. \A i \in DOMAIN work[d] : work[d][i] # c
    <3>1. ~ Waits(d, k)
      BY <1>2 DEF Writes, Mine
    <3> QED
      BY <3>1 DEF Waits
  <2>3. \A r \in Reg : [type |-> "observe", reg |-> r] # c
    OBVIOUS
  <2> HIDE DEF c
  <2>4. /\ \A i, j \in DOMAIN work'[d] : work'[d][i] = work'[d][j] => i = j
        /\ \A i \in DOMAIN work'[d] :
              work'[d][i] = c \/ \E j \in DOMAIN work[d] : work[d][j] = work'[d][i]
    BY <2>1, <2>2, CallAdded
  <2>5. \A r \in Reg : Queued(d, r)' => Queued(d, r)
    BY <2>3, <2>4 DEF Queued
  <2> QED
    BY <1>a, <2>1, <2>4, <2>5 DEF CallsOnce
<1>3. ASSUME Registers(d) \/ Puts(d)
      PROVE  CallsOnce(d)'
  <2>1. /\ \A i, j \in DOMAIN work'[d] : work'[d][i] = work'[d][j] => i = j
        /\ \A i \in DOMAIN work'[d] : work'[d][i] # Head(work[d])
        /\ \A i \in DOMAIN work'[d] : \E j \in DOMAIN work[d] : work[d][j] = work'[d][i]
        /\ \E j \in DOMAIN work[d] : work[d][j] = Head(work[d])
    BY <1>3, CallTaken DEF Registers, Puts
  <2>2. \A r \in Reg : Queued(d, r)' =>
            Queued(d, r) /\ Head(work[d]) # [type |-> "observe", reg |-> r]
    BY <2>1 DEF Queued
  <2>3. CASE Registers(d)
    <3>1. Head(work[d]) \in Call
      BY <1>a, <2>3, QueueType DEF Registers
    <3>2. PICK q \in Reg : Head(work[d]) = [type |-> "observe", reg |-> q]
      BY <2>3, <3>1 DEF Registers, Call
    <3>3. Queued(d, q) /\ regs'[d] = regs[d] \cup {q} /\ handles'[d] = handles[d]
      BY <2>1, <2>3, <3>2 DEF Queued, Registers
    <3> QED
      BY <1>a, <2>1, <2>2, <3>2, <3>3 DEF CallsOnce
  <2>4. CASE Puts(d)
    BY <1>a, <2>1, <2>2, <2>4 DEF Puts, CallsOnce
  <2> QED
    BY <1>3, <2>3, <2>4
<1>4. ASSUME Rests(d)
      PROVE  CallsOnce(d)'
  BY <1>a, <1>4 DEF Rests, CallsOnce, Queued
<1>5. ASSUME Ends(d)
      PROVE  CallsOnce(d)'
  BY <1>5 DEF Ends, CallsOnce, Queued
<1> QED
  BY <1>1, <1>2, <1>3, <1>4, <1>5 DEF CallsMove

\* What is d's afterwards was d's, or has been minted by d in this step.
LEMMA MineMoves ==
    ASSUME DbTypeOK, NEW d \in Device, CallsOnce(d), CallsMove, KeysOnce
    PROVE  /\ \/ Mine(d)' \subseteq Mine(d)
              \/ \E k \in Key : Writes(d, k) /\ Mine(d)' \subseteq Mine(d) \cup {k}
           /\ \A k \in Key : Waits(d, k)' => k \notin Outgoing(d)'
<1>a. /\ \A k \in Key : Waits(d, k) => k \notin Outgoing(d)
      /\ Mine(d) \subseteq minted
      /\ work[d] \in Seq(Call)
  BY DEF KeysOnce, DbTypeOK
<1> DEFINE Goal == /\ \/ Mine(d)' \subseteq Mine(d)
                      \/ \E k \in Key : Writes(d, k) /\ Mine(d)' \subseteq Mine(d) \cup {k}
                   /\ \A k \in Key : Waits(d, k)' => k \notin Outgoing(d)'
<1>1. ASSUME Asks(d)
      PROVE  Goal
  <2>1. PICK n : n = handles[d]
    OBVIOUS
  <2> DEFINE c == [type |-> "observe", reg |-> n + 1]
  <2>2. c \in Call /\ work'[d] = Append(work[d], c) /\ Outgoing(d)' = Outgoing(d)
    BY <1>1, <2>1 DEF Asks, Call, Outgoing
  <2>3. \A k \in Key : [type |-> "set", key |-> k] # c
    OBVIOUS
  <2> HIDE DEF c
  <2>4. \A k \in Key : Waits(d, k)' => Waits(d, k)
    <3> DEFINE s == work[d]
               t == work'[d]
    <3>1. \A i \in DOMAIN t : t[i] = c \/ (i \in DOMAIN s /\ t[i] = s[i])
      <4>1. s \in Seq(Call) /\ t = Append(s, c)
        BY <1>a, <2>2
      <4> HIDE DEF s, t
      <4> QED
        BY <2>2, <4>1, AppendPlaces
    <3> QED
      BY <2>3, <3>1 DEF Waits
  <2> QED
    BY <1>a, <2>2, <2>4 DEF Mine
<1>2. ASSUME NEW k \in Key, Writes(d, k)
      PROVE  Goal
  <2> DEFINE c == [type |-> "set", key |-> k]
  <2>1. c \in Call /\ work'[d] = Append(work[d], c) /\ Outgoing(d)' = Outgoing(d)
    BY <1>2 DEF Writes, Call, Outgoing
  <2>2. \A j \in Key : [type |-> "set", key |-> j] = c => j = k
    OBVIOUS
  <2> HIDE DEF c
  <2>3. \A j \in Key : Waits(d, j)' => Waits(d, j) \/ j = k
    <3> DEFINE s == work[d]
               t == work'[d]
    <3>1. \A i \in DOMAIN t : t[i] = c \/ (i \in DOMAIN s /\ t[i] = s[i])
      <4>1. s \in Seq(Call) /\ t = Append(s, c)
        BY <1>a, <2>1
      <4> HIDE DEF s, t
      <4> QED
        BY <2>1, <4>1, AppendPlaces
    <3> QED
      BY <2>2, <3>1 DEF Waits
  <2>4. k \notin Outgoing(d)
    BY <1>a, <1>2 DEF Writes, Mine
  <2>5. Mine(d)' \subseteq Mine(d) \cup {k}
    BY <2>1, <2>3 DEF Mine
  <2> QED
    BY <1>a, <1>2, <2>1, <2>3, <2>4, <2>5
<1>3. ASSUME Registers(d) \/ Puts(d)
      PROVE  Goal
  <2>1. /\ \A i \in DOMAIN work'[d] : work'[d][i] # Head(work[d])
        /\ \A i \in DOMAIN work'[d] : \E j \in DOMAIN work[d] : work[d][j] = work'[d][i]
        /\ \E j \in DOMAIN work[d] : work[d][j] = Head(work[d])
    BY <1>3, CallTaken DEF Registers, Puts
  <2>2. \A k \in Key : Waits(d, k)' =>
            Waits(d, k) /\ Head(work[d]) # [type |-> "set", key |-> k]
    BY <2>1 DEF Waits
  <2>3. CASE Registers(d)
    <3>1. Outgoing(d)' = Outgoing(d)
      BY <2>3 DEF Registers, Outgoing
    <3> QED
      BY <1>a, <2>2, <3>1 DEF Mine
  <2>4. CASE Puts(d)
    <3>1. Head(work[d]) \in Call
      BY <1>a, <2>4, QueueType DEF Puts
    <3>2. PICK q \in Key : Head(work[d]) = [type |-> "set", key |-> q]
      BY <2>4, <3>1 DEF Puts, Call
    <3>3. Waits(d, q) /\ Outgoing(d)' = Outgoing(d) \cup {q}
      BY <2>1, <2>4, <3>2 DEF Waits, Puts
    <3> QED
      BY <1>a, <2>2, <3>2, <3>3 DEF Mine
  <2> QED
    BY <1>3, <2>3, <2>4
<1>4. ASSUME Rests(d)
      PROVE  Goal
  <2>1. Outgoing(d)' \subseteq Outgoing(d) /\ \A k \in Key : Waits(d, k)' = Waits(d, k)
    BY <1>4 DEF Rests, Waits
  <2> QED
    BY <1>a, <2>1 DEF Mine
<1>5. ASSUME Ends(d)
      PROVE  Goal
  BY <1>5 DEF Ends, Mine, Waits, Outgoing
<1> HIDE DEF Goal
<1>6. Goal
  BY <1>1, <1>2, <1>3, <1>4, <1>5 DEF CallsMove
<1> QED
  BY <1>6 DEF Goal

\* Keys keep their one owner, and what is settled stays settled.
LEMMA KeysStayOnce ==
    ASSUME DbTypeOK, DbTypeOK', CallsMove, KeysOnce, \A d \in Device : CallsOnce(d)
    PROVE  KeysOnce' /\ Settled \subseteq Settled'
<1>1. minted \subseteq minted' /\ minted \subseteq Key
  BY DEF CallsMove, DbTypeOK
<1>2. \A d \in Device :
          \/ Mine(d)' \subseteq Mine(d)
          \/ \E k \in Key : Writes(d, k) /\ Mine(d)' \subseteq Mine(d) \cup {k}
  BY MineMoves
<1>3. \A d \in Device : \A k \in Key : Waits(d, k)' => k \notin Outgoing(d)'
  BY MineMoves
<1>4. /\ Remote \subseteq minted
      /\ \A d \in Device : Mine(d) \subseteq minted \ Remote
      /\ \A d, e \in Device : d # e => Mine(d) \cap Mine(e) = {}
  BY DEF KeysOnce
<1>5. \A d \in Device, k \in Key : Writes(d, k) =>
          k \notin minted /\ k \in minted'
  BY DEF Writes
<1>6. ASSUME NEW d \in Device
      PROVE  Mine(d)' \subseteq minted' \ Remote
  <2>1. Mine(d) \subseteq minted' \ Remote
    BY <1>1, <1>4
  <2>2. CASE Mine(d)' \subseteq Mine(d)
    BY <2>1, <2>2
  <2>3. ASSUME NEW k \in Key, Writes(d, k), Mine(d)' \subseteq Mine(d) \cup {k}
        PROVE  Mine(d)' \subseteq minted' \ Remote
    <3>1. k \in minted' /\ k \notin Remote
      BY <1>4, <1>5, <2>3
    <3> QED
      BY <2>1, <2>3, <3>1
  <2> QED
    BY <1>2, <2>2, <2>3
<1>7. ASSUME NEW d \in Device, NEW e \in Device, d # e
      PROVE  Mine(d)' \cap Mine(e)' = {}
  <2>1. ASSUME NEW a \in Device, NEW b \in Device, a # b, NEW k \in Key, Writes(a, k)
        PROVE  Mine(b)' \subseteq Mine(b)
    <3>1. Rests(b)
      BY <2>1 DEF CallsMove
    <3>2. \A j \in Key : Waits(b, j)' => Waits(b, j)
      BY <3>1 DEF Rests, Waits
    <3> QED
      BY <3>1, <3>2 DEF Rests, Mine
  <2>2. CASE Mine(d)' \subseteq Mine(d) /\ Mine(e)' \subseteq Mine(e)
    BY <1>4, <1>7, <2>2
  <2>3. CASE \E k \in Key : Writes(d, k) /\ Mine(d)' \subseteq Mine(d) \cup {k}
    BY <1>4, <1>5, <1>7, <2>1, <2>3
  <2>4. CASE \E k \in Key : Writes(e, k) /\ Mine(e)' \subseteq Mine(e) \cup {k}
    BY <1>4, <1>5, <1>7, <2>1, <2>4
  <2> QED
    BY <1>2, <2>2, <2>3, <2>4
<1>8. KeysOnce'
  BY <1>1, <1>3, <1>4, <1>6, <1>7 DEF KeysOnce
<1>9. Settled \subseteq Settled'
  BY <1>1, <1>2, <1>5 DEF Settled
<1> QED
  BY <1>8, <1>9

-----------------------------------------------------------------------------
(* The server's messages, in the order the worker takes them.              *)

\* Taking the oldest message leaves the responses as they were.
LEMMA AcksTail ==
    ASSUME NEW q \in Seq(Message), q # << >>, NEW K, AcksFit(q, K)
    PROVE  /\ AcksFit(Tail(q), K)
           /\ Head(q).type = "ack" =>
                 Head(q).key \in K /\ AcksFit(Tail(q), K \ {Head(q).key})
<1> DEFINE t == Tail(q)
           h == Head(q)
<1>1. /\ 1 \in DOMAIN q /\ q[1] = h
      /\ \A i \in DOMAIN t : i \in Nat /\ i # 0 /\ i + 1 \in DOMAIN q /\ t[i] = q[i + 1]
  <2>1. DOMAIN t \subseteq Nat \ {0}
    OBVIOUS
  <2> QED
    BY <2>1, TailPlaces
<1> HIDE DEF t, h
<1>2. /\ \A i \in Acks(q) : q[i].key \in K
      /\ \A i, j \in Acks(q) : q[i].key = q[j].key => i = j
  BY DEF AcksFit
<1>3. \A i \in Acks(t) : i \in Nat /\ i # 0 /\ i + 1 \in Acks(q) /\ t[i] = q[i + 1]
  BY <1>1 DEF Acks
<1>4. /\ \A i \in Acks(t) : t[i].key \in K
      /\ \A i, j \in Acks(t) : t[i].key = t[j].key => i = j
  <2>1. ASSUME NEW i \in Acks(t), NEW j \in Acks(t), t[i].key = t[j].key
        PROVE  i = j
    <3>1. i + 1 = j + 1
      BY <1>2, <1>3, <2>1
    <3> QED
      BY <1>3, <3>1
  <2> QED
    BY <1>2, <1>3, <2>1
<1>5. ASSUME h.type = "ack"
      PROVE  h.key \in K /\ \A i \in Acks(t) : t[i].key # h.key
  <2>1. 1 \in Acks(q)
    BY <1>1, <1>5 DEF Acks
  <2>2. ASSUME NEW i \in Acks(t), t[i].key = h.key
        PROVE  FALSE
    <3>1. i + 1 = 1
      BY <1>1, <1>2, <1>3, <2>1, <2>2
    <3> QED
      BY <1>3, <3>1
  <2> QED
    BY <1>1, <1>2, <2>1, <2>2
<1> QED
  BY <1>4, <1>5 DEF AcksFit, t, h

\* A new response is to another put than those in the queue.
LEMMA AcksAppend ==
    ASSUME NEW q \in Seq(Message), NEW m \in Message, NEW K, NEW L, AcksFit(q, K),
           K \subseteq L, m.type = "ack" => m.key \in L \ K
    PROVE  AcksFit(Append(q, m), L)
<1> DEFINE t == Append(q, m)
           n == Len(q) + 1
<1>1. /\ \A i \in DOMAIN q : t[i] = q[i]
      /\ t[n] = m
      /\ \A i \in DOMAIN t : i \in DOMAIN q \/ i = n
  BY AppendPlaces
<1>2. /\ \A i \in Acks(q) : q[i].key \in K
      /\ \A i, j \in Acks(q) : q[i].key = q[j].key => i = j
  BY DEF AcksFit
<1> HIDE DEF t, n
<1>3. \A i \in Acks(t) : \/ i \in Acks(q) /\ t[i] = q[i]
                         \/ i = n /\ t[i] = m /\ m.type = "ack"
  BY <1>1 DEF Acks
<1>4. AcksFit(t, L)
  BY <1>2, <1>3 DEF AcksFit
<1> QED
  BY <1>4 DEF t

\* The data at the head of the queue goes to the worker's; nothing else is lost.
LEMMA AheadTail ==
    ASSUME NEW q \in Seq(Message), q # << >>, NEW S, NEW T, S \subseteq T,
           Head(q).type = "data" => Head(q).keys \subseteq T, NEW k, NEW i \in Nat,
           Ahead(S, q, k, i + 1)
    PROVE  Ahead(T, Tail(q), k, i)
<1>1. CASE k \in T
  BY <1>1 DEF Ahead
<1>2. CASE k \notin T
  <2>1. PICK j \in DOMAIN q : j < i + 1 /\ q[j].type = "data" /\ k \in q[j].keys
    BY <1>2 DEF Ahead
  <2>2. j \in Nat /\ j # 1 /\ j - 1 \in DOMAIN Tail(q) /\ Tail(q)[j - 1] = q[j]
    BY <1>2, <2>1, TailPlaces
  <2>3. j - 1 < i
    BY <2>1, <2>2
  <2> QED
    BY <2>1, <2>2, <2>3 DEF Ahead
<1> QED
  BY <1>1, <1>2

\* A child that arrives stays; later is as good.
LEMMA AheadAppend ==
    ASSUME NEW q \in Seq(Message), NEW m \in Message, NEW S, NEW k, NEW i \in Nat
    PROVE  /\ Ahead(S, q, k, i) => Ahead(S, Append(q, m), k, i)
           /\ Ahead(S, q, k, Len(q) + 1) => Ahead(S, Append(q, m), k, Len(q) + 2)
           /\ (m.type = "data" /\ k \in m.keys) => Ahead(S, Append(q, m), k, Len(q) + 2)
<1>1. /\ Len(q) \in Nat
      /\ \A j \in DOMAIN q : j \in Nat /\ j <= Len(q)
                             /\ j \in DOMAIN Append(q, m) /\ Append(q, m)[j] = q[j]
      /\ Len(q) + 1 \in DOMAIN Append(q, m) /\ Append(q, m)[Len(q) + 1] = m
  BY AppendPlaces
<1>2. Ahead(S, q, k, i) => Ahead(S, Append(q, m), k, i)
  BY <1>1 DEF Ahead
<1>3. Ahead(S, q, k, Len(q) + 1) => Ahead(S, Append(q, m), k, Len(q) + 2)
  <2>1. \A j \in DOMAIN q : j < Len(q) + 2
    BY <1>1
  <2> QED
    BY <1>1, <2>1 DEF Ahead
<1>4. (m.type = "data" /\ k \in m.keys) => Ahead(S, Append(q, m), k, Len(q) + 2)
  <2>1. Len(q) + 1 < Len(q) + 2
    BY <1>1
  <2> QED
    BY <1>1, <2>1 DEF Ahead
<1> QED
  BY <1>2, <1>3, <1>4

\* The same for the response to the listen.
LEMMA ListenOkTail ==
    ASSUME NEW q \in Seq(Message), q # << >>, NEW S, NEW T, S \subseteq T,
           Head(q).type = "data" => Head(q).keys \subseteq T, NEW k, AtListenOk(S, q, k)
    PROVE  AtListenOk(T, Tail(q), k)
<1> SUFFICES ASSUME NEW p \in DOMAIN Tail(q), Tail(q)[p].type = "listenOk"
             PROVE  Ahead(T, Tail(q), k, p)
  BY DEF AtListenOk
<1>1. p \in Nat /\ p + 1 \in DOMAIN q /\ Tail(q)[p] = q[p + 1]
  BY TailPlaces
<1>2. Ahead(S, q, k, p + 1)
  BY <1>1 DEF AtListenOk
<1> QED
  BY <1>1, <1>2, AheadTail

LEMMA ListenOkAppend ==
    ASSUME NEW q \in Seq(Message), NEW m \in Message, NEW S, NEW k,
           AtListenOk(S, q, k), m.type = "listenOk" => Ahead(S, q, k, Len(q) + 1)
    PROVE  AtListenOk(S, Append(q, m), k)
<1> SUFFICES ASSUME NEW p \in DOMAIN Append(q, m), Append(q, m)[p].type = "listenOk"
             PROVE  Ahead(S, Append(q, m), k, p)
  BY DEF AtListenOk
<1>1. /\ Len(q) + 1 \in Nat /\ Append(q, m)[Len(q) + 1] = m
      /\ \A j \in DOMAIN q : j \in Nat /\ Append(q, m)[j] = q[j]
      /\ p \in DOMAIN q \/ p = Len(q) + 1
  BY AppendPlaces
<1>2. CASE p \in DOMAIN q
  <2>1. Ahead(S, q, k, p)
    BY <1>1, <1>2 DEF AtListenOk
  <2> QED
    BY <1>1, <1>2, <2>1, AheadAppend
<1>3. CASE p = Len(q) + 1
  BY <1>1, <1>3, AheadAppend
<1> QED
  BY <1>1, <1>2, <1>3

\* More of the server's messages reach the end of the queue.
LEMMA InTimeAppend ==
    ASSUME NEW S, NEW q \in Seq(Message), NEW m \in Message, NEW C, NEW D, NEW l,
           InTime(S, q, C, D, l), m.type # "listenOk"
    PROVE  InTime(S, Append(q, m), C, D, l)
<1> SUFFICES ASSUME l \in {"serving", "active"}
             PROVE  InTime(S, Append(q, m), C, D, l)
  BY DEF InTime
<1> DEFINE t == Append(q, m)
<1>1. /\ Len(q) \in Nat /\ Len(t) = Len(q) + 1
      /\ \A i \in DOMAIN q : i \in Nat /\ t[i] = q[i]
      /\ t[Len(q) + 1] = m
      /\ \A i \in DOMAIN t : i \in DOMAIN q \/ i = Len(q) + 1
  BY AppendPlaces
<1>2. \A k : /\ Ahead(S, q, k, Len(q) + 1) => Ahead(S, t, k, Len(q) + 1)
             /\ Ahead(S, q, k, Len(q) + 1) => Ahead(S, t, k, Len(q) + 2)
             /\ AtListenOk(S, q, k) => AtListenOk(S, t, k)
             /\ \A i \in Nat : Ahead(S, q, k, i) => Ahead(S, t, k, i)
  BY <1>1, AheadAppend, ListenOkAppend
<1>3. /\ \A k \in C : Ahead(S, q, k, Len(q) + 1)
      /\ \A i \in Acks(q) : q[i].key \in C =>
            \/ Ahead(S, q, q[i].key, i)
            \/ l = "serving" /\ AtListenOk(S, q, q[i].key)
      /\ \A i \in DOMAIN D : D[i].key \in C => AtListenOk(S, q, D[i].key)
  BY DEF InTime
<1> HIDE DEF t
<1>4. \A k \in C : Ahead(S, t, k, Len(t) + 1)
  <2>1. Len(t) + 1 = Len(q) + 2
    BY <1>1
  <2> QED
    BY <1>2, <1>3, <2>1
<1>5. ASSUME NEW i \in Acks(t), t[i].key \in C
      PROVE  Ahead(S, t, t[i].key, i) \/ (l = "serving" /\ AtListenOk(S, t, t[i].key))
  <2>1. CASE i \in DOMAIN q
    <3>1. i \in Acks(q) /\ t[i] = q[i] /\ i \in Nat
      BY <1>1, <2>1 DEF Acks
    <3>2. Ahead(S, q, q[i].key, i) \/ (l = "serving" /\ AtListenOk(S, q, q[i].key))
      BY <1>3, <1>5, <3>1
    <3> QED
      BY <1>2, <3>1, <3>2
  <2>2. CASE i = Len(q) + 1
    BY <1>2, <1>3, <1>5, <2>2
  <2> QED
    BY <1>1, <2>1, <2>2 DEF Acks
<1>6. \A i \in DOMAIN D : D[i].key \in C => AtListenOk(S, t, D[i].key)
  BY <1>2, <1>3
<1> QED
  BY <1>4, <1>5, <1>6 DEF InTime, t

\* A child is committed that no response here is about, and the device is told.
LEMMA InTimeCommit ==
    ASSUME NEW S, NEW q \in Seq(Message), NEW C, NEW D, NEW l, NEW k, InTime(S, q, C, D, l),
           \A i \in Acks(q) : q[i].key # k,
           \A i \in DOMAIN D : D[i].key # k,
           l \in {"serving", "active"} => Ahead(S, q, k, Len(q) + 1)
    PROVE  InTime(S, q, C \cup {k}, D, l)
  BY DEF InTime

\* The worker takes the data.
LEMMA InTimeData ==
    ASSUME NEW S, NEW q \in Seq(Message), q # << >>, NEW C, NEW D, NEW l,
           InTime(S, q, C, D, l), Head(q).type = "data"
    PROVE  InTime(S \cup Head(q).keys, Tail(q), C, D, l)
<1> DEFINE T == S \cup Head(q).keys
           t == Tail(q)
<1> SUFFICES ASSUME l \in {"serving", "active"}
             PROVE  InTime(T, t, C, D, l)
  BY DEF InTime
<1>1. /\ Len(q) \in Nat /\ Len(t) + 1 = Len(q)
      /\ \A i \in DOMAIN t : i \in Nat /\ i + 1 \in DOMAIN q /\ t[i] = q[i + 1]
  BY TailPlaces
<1>2. \A k : /\ AtListenOk(S, q, k) => AtListenOk(T, t, k)
             /\ \A i \in Nat : Ahead(S, q, k, i + 1) => Ahead(T, t, k, i)
  BY ListenOkTail, AheadTail
<1>3. /\ \A k \in C : Ahead(S, q, k, Len(q) + 1)
      /\ \A i \in Acks(q) : q[i].key \in C =>
            \/ Ahead(S, q, q[i].key, i)
            \/ l = "serving" /\ AtListenOk(S, q, q[i].key)
      /\ \A i \in DOMAIN D : D[i].key \in C => AtListenOk(S, q, D[i].key)
  BY DEF InTime
<1> HIDE DEF T, t
<1>4. \A i \in Acks(t) : t[i].key \in C =>
          Ahead(T, t, t[i].key, i) \/ (l = "serving" /\ AtListenOk(T, t, t[i].key))
  <2>1. \A i \in Acks(t) : i \in Nat /\ i + 1 \in Acks(q) /\ t[i] = q[i + 1]
    BY <1>1 DEF Acks
  <2> QED
    BY <1>2, <1>3, <2>1
<1>5. \A k \in C : Ahead(T, t, k, Len(t) + 1)
  BY <1>1, <1>2, <1>3
<1> QED
  BY <1>2, <1>3, <1>4, <1>5 DEF InTime

\* The worker takes a response to a put: of a child that is committed it has the
\* data, or it will have it when the response is acknowledged.
LEMMA InTimeResponse ==
    ASSUME NEW S, NEW q \in Seq(Message), q # << >>, NEW C, NEW D \in Seq(Response), NEW l,
           InTime(S, q, C, D, l), Head(q) \in Response, Head(q).type = "ack"
    PROVE  /\ (l = "active" /\ Head(q).key \in C) => Head(q).key \in S
           /\ InTime(S, Tail(q), C, D, l)
           /\ InTime(S, Tail(q), C, Append(D, Head(q)), l)
<1> DEFINE t == Tail(q)
           h == Head(q)
           E == Append(D, h)
<1> SUFFICES ASSUME l \in {"serving", "active"}
             PROVE  /\ (l = "active" /\ h.key \in C) => h.key \in S
                    /\ InTime(S, t, C, D, l)
                    /\ InTime(S, t, C, E, l)
  BY DEF InTime
<1>1. /\ Len(q) \in Nat /\ Len(t) + 1 = Len(q)
      /\ \A i \in DOMAIN t : i \in Nat /\ i + 1 \in DOMAIN q /\ t[i] = q[i + 1]
      /\ 1 \in DOMAIN q /\ q[1] = h
      /\ DOMAIN q \subseteq Nat \ {0}
  BY TailPlaces
<1>2. \A k : /\ AtListenOk(S, q, k) => AtListenOk(S, t, k)
             /\ \A i \in Nat : Ahead(S, q, k, i + 1) => Ahead(S, t, k, i)
  BY ListenOkTail, AheadTail
<1>3. /\ \A k \in C : Ahead(S, q, k, Len(q) + 1)
      /\ \A i \in Acks(q) : q[i].key \in C =>
            \/ Ahead(S, q, q[i].key, i)
            \/ l = "serving" /\ AtListenOk(S, q, q[i].key)
      /\ \A i \in DOMAIN D : D[i].key \in C => AtListenOk(S, q, D[i].key)
  BY DEF InTime
<1>4. \A i \in DOMAIN E : E[i] = h \/ (i \in DOMAIN D /\ E[i] = D[i])
  <2> HIDE DEF h
  <2>1. h \in Response
    BY DEF h
  <2> QED
    BY <2>1, AppendPlaces
<1> HIDE DEF t, h, E
<1>5. \A k : Ahead(S, q, k, 1) => k \in S
  BY <1>1 DEF Ahead
<1>6. h.key \in C => \/ h.key \in S
                     \/ l = "serving" /\ AtListenOk(S, q, h.key)
  <2>1. 1 \in Acks(q)
    BY <1>1 DEF Acks, h
  <2> QED
    BY <1>1, <1>3, <1>5, <2>1
<1>7. \A i \in Acks(t) : t[i].key \in C =>
          Ahead(S, t, t[i].key, i) \/ (l = "serving" /\ AtListenOk(S, t, t[i].key))
  <2>1. \A i \in Acks(t) : i \in Nat /\ i + 1 \in Acks(q) /\ t[i] = q[i + 1]
    BY <1>1 DEF Acks
  <2> QED
    BY <1>2, <1>3, <2>1
<1>8. \A k \in C : Ahead(S, t, k, Len(t) + 1)
  BY <1>1, <1>2, <1>3
<1>9. h.key \in C => AtListenOk(S, t, h.key)
  <2>1. h.key \in S => AtListenOk(S, t, h.key)
    BY DEF AtListenOk, Ahead
  <2> QED
    BY <1>2, <1>6, <2>1
<1>10. \A i \in DOMAIN E : E[i].key \in C => AtListenOk(S, t, E[i].key)
  BY <1>2, <1>3, <1>4, <1>9
<1> QED
  BY <1>2, <1>3, <1>6, <1>7, <1>8, <1>10 DEF InTime

\* The worker takes the response to the listen: of every response that waited for
\* it, and of those it will take from now on, it has the data.
LEMMA InTimeListenOk ==
    ASSUME NEW S, NEW q \in Seq(Message), q # << >>, NEW C, NEW D, NEW l,
           InTime(S, q, C, D, l), l \in {"serving", "active"}, Head(q).type = "listenOk"
    PROVE  /\ \A i \in DOMAIN D : D[i].key \in C => D[i].key \in S
           /\ InTime(S, Tail(q), C, << >>, "active")
<1> DEFINE t == Tail(q)
<1>1. /\ Len(q) \in Nat /\ Len(t) + 1 = Len(q)
      /\ \A i \in DOMAIN t : i \in Nat /\ i + 1 \in DOMAIN q /\ t[i] = q[i + 1]
      /\ 1 \in DOMAIN q /\ q[1] = Head(q)
      /\ DOMAIN q \subseteq Nat \ {0}
  BY TailPlaces
<1>2. \A k : \A i \in Nat : Ahead(S, q, k, i + 1) => Ahead(S, t, k, i)
  BY AheadTail
<1>3. /\ \A k \in C : Ahead(S, q, k, Len(q) + 1)
      /\ \A i \in Acks(q) : q[i].key \in C =>
            \/ Ahead(S, q, q[i].key, i)
            \/ l = "serving" /\ AtListenOk(S, q, q[i].key)
      /\ \A i \in DOMAIN D : D[i].key \in C => AtListenOk(S, q, D[i].key)
  BY DEF InTime
<1>4. \A k : AtListenOk(S, q, k) => k \in S
  <2>1. \A k : Ahead(S, q, k, 1) => k \in S
    BY <1>1 DEF Ahead
  <2> QED
    BY <1>1, <2>1 DEF AtListenOk
<1> HIDE DEF t
<1>5. \A i \in Acks(t) : t[i].key \in C => Ahead(S, t, t[i].key, i)
  <2>1. \A i \in Acks(t) : i \in Nat /\ i + 1 \in Acks(q) /\ t[i] = q[i + 1]
    BY <1>1 DEF Acks
  <2>2. \A k : AtListenOk(S, q, k) => \A i : Ahead(S, t, k, i)
    BY <1>4 DEF Ahead
  <2> QED
    BY <1>2, <1>3, <2>1, <2>2
<1>6. \A k \in C : Ahead(S, t, k, Len(t) + 1)
  BY <1>1, <1>2, <1>3
<1>7. InTime(S, t, C, << >>, "active")
  <2>1. DOMAIN << >> = {}
    OBVIOUS
  <2> QED
    BY <1>5, <1>6, <2>1 DEF InTime
<1> QED
  BY <1>3, <1>4, <1>7 DEF t

\* The messages and responses that wait on d are in order.
Heard(d) == AnswersOnce(d) /\ ListenInOrder(d) /\ DataFirst(d)

\* A device that hears nothing in a step stays in order; its worker may listen.
LEMMA HeardStays ==
    ASSUME NEW d \in Device, Heard(d), Settled \subseteq Settled',
           UNCHANGED <<inbox[d], deferred[d], answered[d], snap[d], committed>>,
           Outgoing(d) \subseteq Outgoing(d)',
           \/ UNCHANGED listen[d]
           \/ listen[d] = "none" /\ listen'[d] = "sent"
    PROVE  Heard(d)'
<1> USE DEF Heard
<1>1. AcksFit(inbox[d], Outgoing(d) \cap answered[d])
          => AcksFit(inbox'[d], Outgoing(d)' \cap answered'[d])
  BY DEF AcksFit, Acks
<1>2. AnswersOnce(d)'
  BY <1>1 DEF AnswersOnce
<1>3. ListenInOrder(d)'
  BY DEF ListenInOrder
<1>4. DataFirst(d)'
  BY DEF DataFirst, InTime
<1> QED
  BY <1>2, <1>3, <1>4

\* The worker takes a message that is not a response to a put only from a server
\* that listens for it.
LEMMA TakesFromServer ==
    ASSUME DbTypeOK, NEW d \in Device, ListenInOrder(d), NEW type \in {"data", "listenOk"},
           Incoming(d, type)
    PROVE  listen[d] \in {"serving", "active"}
<1>1. inbox[d] \in Seq(Message) /\ inbox[d] # << >> /\ Head(inbox[d]).type = type
  BY DEF DbTypeOK, Incoming
<1>2. 1 \in DOMAIN inbox[d] /\ inbox[d][1] = Head(inbox[d])
  BY <1>1
<1>3. DOMAIN inbox[d] # Acks(inbox[d])
  BY <1>1, <1>2 DEF Acks
<1> QED
  BY <1>3 DEF ListenInOrder, DbTypeOK

\* The worker takes the server's data.
LEMMA HeardData ==
    ASSUME DbTypeOK, NEW d \in Device, Heard(d), Settled \subseteq Settled', ReceiveData(d)
    PROVE  Heard(d)'
<1> DEFINE q == inbox[d]
<1>1. /\ q \in Seq(Message) /\ q # << >> /\ Head(q).type = "data"
      /\ inbox'[d] = Tail(q)
      /\ snap'[d] = snap[d] \cup Head(q).keys
      /\ UNCHANGED <<committed, deferred, answered, outstanding, listen>>
  BY DEF ReceiveData, Incoming, DbTypeOK, puts
<1>2. listen[d] \in {"serving", "active"}
  BY TakesFromServer DEF Heard, ReceiveData
<1>3. AnswersOnce(d)'
  <2>1. Outgoing(d)' = Outgoing(d)
    BY <1>1 DEF Outgoing
  <2>2. AcksFit(q, Outgoing(d) \cap answered[d])
    BY DEF Heard, AnswersOnce
  <2>3. AcksFit(Tail(q), Outgoing(d) \cap answered[d])
    BY <1>1, <2>2, AcksTail
  <2> QED
    BY <1>1, <2>1, <2>3 DEF Heard, AnswersOnce
<1>4. ListenInOrder(d)'
  BY <1>1, <1>2 DEF Heard, ListenInOrder
<1>5. DataFirst(d)'
  <2>1. InTime(snap[d], q, committed, deferred[d], listen[d])
    BY DEF Heard, DataFirst
  <2>2. InTime(snap[d] \cup Head(q).keys, Tail(q), committed, deferred[d], listen[d])
    BY <1>1, <2>1, InTimeData
  <2> QED
    BY <1>1, <2>2 DEF DataFirst
<1> QED
  BY <1>3, <1>4, <1>5 DEF Heard

\* The worker takes the response to the listen.
LEMMA HeardListenOk ==
    ASSUME DbTypeOK, NEW d \in Device, Heard(d), Settled \subseteq Settled',
           ReceiveListenOk(d)
    PROVE  /\ Heard(d)'
           /\ \A i \in DOMAIN deferred[d] :
                 deferred[d][i].key \in committed => deferred[d][i].key \in snap[d]
<1> DEFINE q == inbox[d]
<1>1. /\ q \in Seq(Message) /\ q # << >> /\ Head(q).type = "listenOk"
      /\ inbox'[d] = Tail(q)
      /\ listen'[d] = "active" /\ deferred'[d] = << >>
      /\ UNCHANGED <<committed, snap, answered, outstanding>>
  BY DEF ReceiveListenOk, Incoming, DbTypeOK
<1>2. listen[d] \in {"serving", "active"}
  BY TakesFromServer DEF Heard, ReceiveListenOk
<1>3. AnswersOnce(d)'
  <2>1. Outgoing(d)' = Outgoing(d)
    BY <1>1 DEF Outgoing
  <2>2. AcksFit(q, Outgoing(d) \cap answered[d])
    BY DEF Heard, AnswersOnce
  <2>3. AcksFit(Tail(q), Outgoing(d) \cap answered[d])
    BY <1>1, <2>2, AcksTail
  <2> QED
    BY <1>1, <2>1, <2>3 DEF AnswersOnce
<1>4. ListenInOrder(d)'
  BY <1>1 DEF ListenInOrder
<1>5. /\ \A i \in DOMAIN deferred[d] :
            deferred[d][i].key \in committed => deferred[d][i].key \in snap[d]
      /\ InTime(snap[d], Tail(q), committed, << >>, "active")
  <2>1. InTime(snap[d], q, committed, deferred[d], listen[d])
    BY DEF Heard, DataFirst
  <2> HIDE DEF q
  <2> QED
    BY <1>1, <1>2, <2>1, InTimeListenOk
<1> QED
  BY <1>1, <1>3, <1>4, <1>5 DEF Heard, DataFirst

\* The worker takes the response to a put: its key is settled, and if the child is
\* committed and the local write leaves the view, the data has it.
LEMMA HeardResponse ==
    ASSUME DbTypeOK, NEW d \in Device, Heard(d), NothingAsked(d), KeysOnce,
           Settled \subseteq Settled', ReceivePutResponse(d)
    PROVE  /\ Heard(d)'
           /\ Head(inbox[d]).key \in Settled'
           /\ (~ ListenUnacked(d) /\ Head(inbox[d]).key \in committed)
                 => Head(inbox[d]).key \in snap[d]
<1> DEFINE q == inbox[d]
           h == Head(q)
           D == deferred[d]
           K == Outgoing(d) \cap answered[d]
<1>1. /\ q \in Seq(Message) /\ q # << >> /\ h.type = "ack" /\ D \in Seq(Response)
      /\ inbox'[d] = Tail(q)
      /\ outstanding'[d] = { p \in outstanding[d] : p[2] # h.key }
      /\ answered'[d] = answered[d] \ {h.key}
      /\ UNCHANGED <<committed, minted, work, snap, listen>>
  BY DEF ReceivePutResponse, Incoming, DbTypeOK, calls
<1>2. h \in Response /\ h.key \in Key
  <2>1. h \in Message
    BY <1>1, QueueType
  <2> QED
    BY <1>1, <2>1 DEF Message, Response
<1>3. AcksFit(q, K)
  BY DEF Heard, AnswersOnce
<1>4. h.key \in K /\ AcksFit(Tail(q), K \ {h.key})
  BY <1>1, <1>3, AcksTail
<1>5. Outgoing(d)' = Outgoing(d) \ {h.key}
  BY <1>1 DEF Outgoing
<1>6. h.key \in Settled'
  <2>1. /\ h.key \in minted \ Remote
        /\ ~ Waits(d, h.key)
        /\ \A e \in Device : e # d => h.key \notin Mine(e)
    <3>1. h.key \in Mine(d)
      BY <1>4 DEF Mine
    <3> QED
      BY <1>2, <1>4, <3>1 DEF KeysOnce
  <2>2. \A e \in Device : e # d => Mine(e)' = Mine(e)
    BY <1>1 DEF ReceivePutResponse, Mine, Waits, Outgoing, DbTypeOK
  <2>3. h.key \notin Mine(d)'
    BY <1>1, <1>5, <2>1 DEF Mine, Waits
  <2> QED
    BY <1>1, <2>1, <2>2, <2>3 DEF Settled
<1>7. listen[d] # "none"
  BY <1>4 DEF NothingAsked
<1>8. /\ deferred'[d] = D \/ deferred'[d] = Append(D, h)
      /\ ~ ListenUnacked(d) => deferred'[d] = D
  BY DEF ReceivePutResponse, DbTypeOK
<1>9. \A i \in DOMAIN deferred'[d] : deferred'[d][i].key \in Settled'
  <2>1. \A i \in DOMAIN D : D[i].key \in Settled'
    BY DEF Heard, AnswersOnce
  <2>2. \A i \in DOMAIN Append(D, h) : Append(D, h)[i] = h
                                      \/ (i \in DOMAIN D /\ Append(D, h)[i] = D[i])
    <3> HIDE DEF D, h
    <3> QED
      BY <1>1, <1>2, AppendPlaces
  <2> HIDE DEF D, h
  <2> QED
    BY <1>6, <1>8, <2>1, <2>2
<1>10. AnswersOnce(d)'
  <2>1. K \ {h.key} = Outgoing(d)' \cap answered'[d]
    BY <1>1, <1>5
  <2> HIDE DEF K, h
  <2> QED
    BY <1>1, <1>4, <1>9, <2>1 DEF AnswersOnce
<1>11. ListenInOrder(d)'
  <2>1. listen[d] = "sent" => DOMAIN Tail(q) = Acks(Tail(q))
    <3>1. \A i \in DOMAIN Tail(q) : i + 1 \in DOMAIN q /\ Tail(q)[i] = q[i + 1]
      <4> HIDE DEF q
      <4> QED
        BY <1>1, TailPlaces
    <3>2. listen[d] = "sent" => \A i \in DOMAIN q : q[i].type = "ack"
      BY DEF Heard, ListenInOrder, Acks
    <3> HIDE DEF q
    <3> QED
      BY <3>1, <3>2 DEF Acks
  <2>2. listen[d] = "active" => deferred'[d] = << >>
    BY <1>8 DEF Heard, ListenInOrder, ListenUnacked
  <2> QED
    BY <1>1, <1>7, <2>1, <2>2 DEF ListenInOrder
<1>12. InTime(snap[d], q, committed, D, listen[d])
  BY DEF Heard, DataFirst
<1>13. /\ (listen[d] = "active" /\ h.key \in committed) => h.key \in snap[d]
       /\ InTime(snap[d], Tail(q), committed, D, listen[d])
       /\ InTime(snap[d], Tail(q), committed, Append(D, h), listen[d])
  <2> HIDE DEF q, D
  <2> QED
    BY <1>1, <1>2, <1>12, InTimeResponse
<1>14. DataFirst(d)'
  BY <1>1, <1>8, <1>13 DEF DataFirst
<1>15. ~ ListenUnacked(d) => listen[d] = "active"
  BY <1>7 DEF ListenUnacked, DbTypeOK
<1> QED
  BY <1>6, <1>10, <1>11, <1>13, <1>14, <1>15 DEF Heard

\* The connection of device c is lost and opened again.
LEMMA HeardReconnect ==
    ASSUME DbTypeOK, NEW c \in Device, NEW d \in Device, Heard(d), Settled \subseteq Settled',
           Reconnect(c)
    PROVE  Heard(d)'
<1>1. CASE c # d
  <2>1. UNCHANGED <<inbox[d], deferred[d], answered[d], snap[d], committed, outstanding[d],
                    listen[d]>>
    BY <1>1 DEF Reconnect, RestoredPuts, DbTypeOK, view
  <2>2. Outgoing(d)' = Outgoing(d)
    BY <2>1 DEF Outgoing
  <2> QED
    BY <2>1, <2>2, HeardStays
<1>2. CASE c = d
  <2>1. /\ inbox'[d] = << >> /\ UNCHANGED deferred
        /\ listen'[d] \in {"none", "sent"}
        /\ listen'[d] = "none" => listen[d] = "none"
    BY <1>2 DEF Reconnect, RestoredListen, DbTypeOK
  <2>2. DOMAIN << >> = {}
    OBVIOUS
  <2>3. ListenInOrder(d)'
    BY <2>1, <2>2 DEF Heard, ListenInOrder, Acks
  <2>4. AnswersOnce(d)'
    BY <2>1, <2>2 DEF Heard, AnswersOnce, AcksFit, Acks
  <2>5. DataFirst(d)'
    BY <2>1 DEF DataFirst, InTime
  <2> QED
    BY <2>3, <2>4, <2>5 DEF Heard
<1> QED
  BY <1>1, <1>2

\* The process of device c ends.
LEMMA HeardEnd ==
    ASSUME DbTypeOK, NEW c \in Device, NEW d \in Device, Heard(d), Settled \subseteq Settled',
           EndProcess(c)
    PROVE  Heard(d)'
<1>1. CASE c # d
  <2>1. UNCHANGED <<inbox[d], deferred[d], answered[d], snap[d], committed, outstanding[d],
                    listen[d]>>
    BY <1>1 DEF EndProcess, DbTypeOK
  <2>2. Outgoing(d)' = Outgoing(d)
    BY <2>1 DEF Outgoing
  <2> QED
    BY <2>1, <2>2, HeardStays
<1>2. CASE c = d
  <2>1. inbox'[d] = << >> /\ deferred'[d] = << >> /\ listen'[d] = "none"
    BY <1>2 DEF EndProcess, DbTypeOK
  <2>2. DOMAIN << >> = {}
    OBVIOUS
  <2>3. ListenInOrder(d)'
    BY <2>1, <2>2 DEF ListenInOrder, Acks
  <2>4. AnswersOnce(d)'
    BY <2>1, <2>2 DEF AnswersOnce, AcksFit, Acks
  <2>5. DataFirst(d)'
    BY <2>1 DEF DataFirst, InTime
  <2> QED
    BY <2>3, <2>4, <2>5 DEF Heard
<1> QED
  BY <1>1, <1>2

\* The server answers a listen: the data first, then that the listen is in place.
LEMMA InTimeAnswer ==
    ASSUME NEW S, NEW q \in Seq(Message), DOMAIN q = Acks(q), NEW C, NEW D,
           NEW m \in Message, m.type = "data", m.keys = C,
           NEW n \in Message, n.type = "listenOk"
    PROVE  InTime(S, Append(Append(q, m), n), C, D, "serving")
<1> DEFINE s == Append(q, m)
           t == Append(s, n)
<1>1. /\ s \in Seq(Message) /\ Len(q) \in Nat /\ Len(s) = Len(q) + 1 /\ Len(t) = Len(q) + 2
      /\ \A i \in DOMAIN q : i \in Nat /\ s[i] = q[i]
      /\ s[Len(q) + 1] = m
      /\ \A i \in DOMAIN s : i \in DOMAIN q \/ i = Len(q) + 1
  BY AppendPlaces
<1>2. /\ \A i \in DOMAIN s : t[i] = s[i]
      /\ \A i \in DOMAIN t : i \in DOMAIN s \/ i = Len(q) + 2
  <2> HIDE DEF s
  <2>1. /\ \A i \in DOMAIN s : Append(s, n)[i] = s[i]
        /\ \A i \in DOMAIN Append(s, n) : i \in DOMAIN s \/ i = Len(s) + 1
    BY <1>1, AppendPlaces
  <2> QED
    BY <1>1, <2>1
<1>3. \A k \in C : /\ Ahead(S, s, k, Len(q) + 2)
                   /\ Ahead(S, t, k, Len(q) + 2) /\ Ahead(S, t, k, Len(q) + 3)
  <2> SUFFICES ASSUME NEW k \in C
               PROVE  /\ Ahead(S, s, k, Len(q) + 2)
                      /\ Ahead(S, t, k, Len(q) + 2) /\ Ahead(S, t, k, Len(q) + 3)
    OBVIOUS
  <2>1. Ahead(S, s, k, Len(q) + 2)
    BY AheadAppend
  <2> HIDE DEF s
  <2>2. Ahead(S, t, k, Len(q) + 2)
    BY <1>1, <2>1, AheadAppend
  <2>3. Ahead(S, t, k, Len(q) + 3)
    <3>1. Len(q) + 2 = Len(s) + 1 /\ Len(q) + 3 = Len(s) + 2 /\ Len(s) + 1 \in Nat
      BY <1>1
    <3> QED
      BY <1>1, <2>1, <3>1, AheadAppend
  <2> QED
    BY <2>1, <2>2, <2>3
<1>4. \A i \in DOMAIN t : t[i].type = "listenOk" => i = Len(q) + 2
  <2>1. \A i \in DOMAIN q : q[i].type = "ack"
    BY DEF Acks
  <2> HIDE DEF s, t
  <2> QED
    BY <1>1, <1>2, <2>1
<1> HIDE DEF s, t
<1>5. \A k \in C : AtListenOk(S, t, k)
  BY <1>3, <1>4 DEF AtListenOk
<1>6. Len(t) + 1 = Len(q) + 3
  BY <1>1
<1> QED
  BY <1>3, <1>5, <1>6 DEF InTime, s, t

LEMMA HeardAnswerListen ==
    ASSUME DbTypeOK, NEW c \in Device, NEW d \in Device, Heard(d), Settled \subseteq Settled',
           AnswerListen(c)
    PROVE  Heard(d)'
<1>1. CASE c # d
  <2>1. UNCHANGED <<inbox[d], deferred[d], answered[d], snap[d], committed, outstanding[d],
                    listen[d]>>
    BY <1>1 DEF AnswerListen, DbTypeOK, view, puts
  <2>2. Outgoing(d)' = Outgoing(d)
    BY <2>1 DEF Outgoing
  <2> QED
    BY <2>1, <2>2, HeardStays
<1>2. CASE c = d
  <2> DEFINE q == inbox[d]
             m == [type |-> "data", keys |-> committed]
             n == [type |-> "listenOk"]
             t == Append(Append(q, m), n)
             K == Outgoing(d) \cap answered[d]
  <2>1. /\ q \in Seq(Message) /\ m \in Message /\ n \in Message
        /\ m.type = "data" /\ m.keys = committed /\ n.type = "listenOk"
    BY DEF DbTypeOK, Message
  <2>2. /\ listen[d] = "sent" /\ listen'[d] = "serving"
        /\ inbox'[d] = q \o <<m, n>>
        /\ UNCHANGED <<committed, snap, deferred, outstanding, answered>>
    BY <1>2 DEF AnswerListen, DbTypeOK, view, puts
  <2>3. inbox'[d] = t
    <3> HIDE DEF q, m, n
    <3>1. q \o <<m, n>> = Append(Append(q, m), n)
      BY <2>1
    <3> QED
      BY <2>2, <3>1
  <2>4. AcksFit(q, K) /\ DOMAIN q = Acks(q) /\ UNCHANGED Outgoing(d)
    BY <2>2 DEF Heard, AnswersOnce, ListenInOrder, Outgoing
  <2>5. AcksFit(t, K)
    <3> HIDE DEF q, m, n, K
    <3>1. AcksFit(Append(q, m), K) /\ Append(q, m) \in Seq(Message)
      BY <2>1, <2>4, AcksAppend
    <3> QED
      BY <2>1, <3>1, AcksAppend
  <2>6. AnswersOnce(d)'
    <3> HIDE DEF t
    <3> QED
      BY <2>2, <2>3, <2>4, <2>5 DEF Heard, AnswersOnce
  <2>7. InTime(snap[d], t, committed, deferred[d], "serving")
    <3> HIDE DEF q, m, n
    <3> QED
      BY <2>1, <2>4, InTimeAnswer
  <2> HIDE DEF t
  <2> QED
    BY <2>2, <2>3, <2>6, <2>7 DEF Heard, ListenInOrder, DataFirst
<1> QED
  BY <1>1, <1>2

\* What d is told of a child that is stored.
Told(d, k) ==
    IF Serving(d) /\ k \notin committed
    THEN Append(inbox[d], [type |-> "data", keys |-> {k}])
    ELSE inbox[d]

\* No response that waits on d is about k, so all of them stay in order.
LEMMA HeardStored ==
    ASSUME DbTypeOK, NEW d \in Device, Heard(d), NEW k \in Key,
           k \notin Outgoing(d) \cap answered[d], k \notin Settled
    PROVE  /\ Told(d, k) \in Seq(Message)
           /\ AcksFit(Told(d, k), Outgoing(d) \cap answered[d])
           /\ ~ Serving(d) => Told(d, k) = inbox[d]
           /\ InTime(snap[d], Told(d, k), committed \cup {k}, deferred[d], listen[d])
<1> DEFINE q == inbox[d]
           m == [type |-> "data", keys |-> {k}]
           t == Told(d, k)
           K == Outgoing(d) \cap answered[d]
<1>1. q \in Seq(Message) /\ m \in Message /\ m.type = "data" /\ k \in m.keys
  BY DEF DbTypeOK, Message
<1>2. /\ AcksFit(q, K)
      /\ InTime(snap[d], q, committed, deferred[d], listen[d])
      /\ \A i \in DOMAIN deferred[d] : deferred[d][i].key # k
  BY DEF Heard, AnswersOnce, DataFirst
<1> HIDE DEF m
<1>3. t = q \/ t = Append(q, m)
  BY DEF Told, m
<1>4. t \in Seq(Message)
  BY <1>1, <1>3, QueueType
<1>5. AcksFit(t, K)
  <2> HIDE DEF q, t, K
  <2>1. AcksFit(Append(q, m), K)
    BY <1>1, <1>2, AcksAppend
  <2> QED
    BY <1>2, <1>3, <2>1
<1>6. InTime(snap[d], t, committed, deferred[d], listen[d])
  <2> HIDE DEF q, t
  <2> QED
    BY <1>1, <1>2, <1>3, InTimeAppend
<1>7. ~ Serving(d) => t = q
  BY DEF Told
<1>8. ASSUME Serving(d)
      PROVE  Ahead(snap[d], t, k, Len(t) + 1)
  <2>1. CASE k \in committed
    BY <1>6, <1>8, <2>1 DEF InTime, Serving
  <2>2. CASE k \notin committed
    <3>1. t = Append(q, m)
      BY <1>8, <2>2 DEF Told, m
    <3> HIDE DEF q, t
    <3>2. Len(t) + 1 = Len(q) + 2
      BY <1>1, <3>1
    <3>3. Ahead(snap[d], Append(q, m), k, Len(q) + 2)
      <4>1. 1 \in Nat
        OBVIOUS
      <4> QED
        BY <1>1, <4>1, AheadAppend
    <3> QED
      BY <3>1, <3>2, <3>3
  <2> QED
    BY <2>1, <2>2
<1>9. \A i \in Acks(t) : t[i].key # k
  BY <1>5 DEF AcksFit
<1>10. InTime(snap[d], t, committed \cup {k}, deferred[d], listen[d])
  <2> HIDE DEF t
  <2>1. listen[d] \in {"serving", "active"} => Ahead(snap[d], t, k, Len(t) + 1)
    BY <1>8 DEF Serving
  <2> QED
    BY <1>2, <1>4, <1>6, <1>9, <2>1, InTimeCommit
<1> QED
  BY <1>4, <1>5, <1>7, <1>10

\* A response to a put of d that had none joins what d hears.
LEMMA HeardAnswer ==
    ASSUME DbTypeOK, NEW d \in Device, Heard(d), Settled \subseteq Settled',
           NEW t \in Seq(Message), NEW k \in Outgoing(d) \ answered[d], k \in Key,
           NEW ok \in BOOLEAN, NEW C,
           AcksFit(t, Outgoing(d) \cap answered[d]), ~ Serving(d) => t = inbox[d],
           InTime(snap[d], t, C, deferred[d], listen[d]), committed' = C,
           inbox'[d] = Append(t, Answer(k, ok)), answered'[d] = answered[d] \cup {k},
           UNCHANGED <<deferred[d], snap[d], outstanding[d], listen[d]>>
    PROVE  Heard(d)'
<1> DEFINE m == Answer(k, ok)
           K == Outgoing(d) \cap answered[d]
           L == Outgoing(d) \cap (answered[d] \cup {k})
<1>1. /\ m \in Message /\ m.type = "ack" /\ m.key = k
      /\ Outgoing(d)' = Outgoing(d)
  BY DEF Answer, Message, Response, Outgoing
<1>2. K \subseteq L /\ k \in L \ K
  OBVIOUS
<1> HIDE DEF m, L
<1>3. AcksFit(Append(t, m), L)
  <2> HIDE DEF K
  <2>1. AcksFit(t, K)
    BY DEF K
  <2> QED
    BY <1>1, <1>2, <2>1, AcksAppend
<1>4. AnswersOnce(d)'
  BY <1>1, <1>3 DEF Heard, AnswersOnce, L, m
<1>5. InTime(snap[d], Append(t, m), C, deferred[d], listen[d])
  BY <1>1, InTimeAppend
<1>6. DataFirst(d)'
  BY <1>5 DEF DataFirst, m
<1>7. ListenInOrder(d)'
  <2>1. ASSUME DOMAIN t = Acks(t)
        PROVE  DOMAIN Append(t, m) = Acks(Append(t, m))
    BY <1>1, <2>1, AppendPlaces DEF Acks
  <2>2. listen[d] \in {"none", "sent"} => DOMAIN t = Acks(t)
    BY DEF Heard, ListenInOrder, Serving
  <2>3. inbox'[d] = Append(t, m)
    BY DEF m
  <2> QED
    BY <2>1, <2>2, <2>3 DEF Heard, ListenInOrder
<1> QED
  BY <1>4, <1>6, <1>7 DEF Heard

\* The put that the server answers is one of device c's.
LEMMA NextIsMine ==
    ASSUME NEW c \in Device, NEW k \in Key, NextPut(c, k)
    PROVE  k \in Outgoing(c) \ answered[c] /\ k \in Mine(c) /\ k \notin Settled
  BY DEF NextPut, Outgoing, Mine, Settled

\* A child is stored, and d is told of it if it listens.
LEMMA HeardTold ==
    ASSUME DbTypeOK, NEW d \in Device, Heard(d), Settled \subseteq Settled', NEW k \in Key,
           k \notin Outgoing(d) \cap answered[d], k \notin Settled,
           inbox'[d] = Told(d, k), committed' = committed \cup {k},
           UNCHANGED <<deferred[d], snap[d], outstanding[d], answered[d], listen[d]>>
    PROVE  Heard(d)'
<1>1. /\ AcksFit(Told(d, k), Outgoing(d) \cap answered[d])
      /\ ~ Serving(d) => Told(d, k) = inbox[d]
      /\ InTime(snap[d], Told(d, k), committed \cup {k}, deferred[d], listen[d])
  BY HeardStored
<1>2. Outgoing(d)' = Outgoing(d)
  BY DEF Outgoing
<1>3. AnswersOnce(d)'
  BY <1>1, <1>2 DEF Heard, AnswersOnce
<1>4. ListenInOrder(d)'
  BY <1>1 DEF Heard, ListenInOrder, Serving
<1>5. DataFirst(d)'
  BY <1>1 DEF DataFirst
<1> QED
  BY <1>3, <1>4, <1>5 DEF Heard

\* What is pushed to d in one go is the data, then the response.
LEMMA PushedParts ==
    ASSUME NEW q \in Seq(Message), NEW p \in Message, NEW m \in Message
    PROVE  /\ q \o (<<p>> \o << >>) = Append(q, p)
           /\ q \o (<< >> \o << >>) = q
           /\ q \o (<<p>> \o <<m>>) = Append(Append(q, p), m)
           /\ q \o (<< >> \o <<m>>) = Append(q, m)
<1>1. <<p>> \o << >> = <<p>> /\ << >> \o << >> = << >> /\ << >> \o <<m>> = <<m>>
  OBVIOUS
<1>2. q \o <<p>> = Append(q, p) /\ q \o << >> = q /\ q \o <<m>> = Append(q, m)
  OBVIOUS
<1>3. q \o (<<p>> \o <<m>>) = Append(Append(q, p), m)
  <2> DEFINE a == <<p>>
             b == <<m>>
  <2>1. /\ a \in Seq(Message) /\ b \in Seq(Message)
        /\ Len(a) = 1 /\ Len(b) = 1 /\ a[1] = p /\ b[1] = m
    OBVIOUS
  <2> QED
    BY <2>1
<1> QED
  BY <1>1, <1>2, <1>3, Zenon

LEMMA PushedTold ==
    ASSUME DbTypeOK, NEW c \in Device, NEW d \in Device, NEW k \in Key
    PROVE  inbox[d] \o Pushed(c, k, d) =
               IF c = d THEN Append(Told(d, k), Answer(k, TRUE)) ELSE Told(d, k)
<1> DEFINE q == inbox[d]
           p == [type |-> "data", keys |-> {k}]
           m == Answer(k, TRUE)
<1>1. q \in Seq(Message) /\ p \in Message /\ m \in Message
  BY DEF DbTypeOK, Answer, Message, Response
<1>2. /\ Pushed(c, k, d) = (IF Serving(d) /\ k \notin committed THEN <<p>> ELSE << >>)
                             \o (IF d = c THEN <<m>> ELSE << >>)
      /\ Told(d, k) = IF Serving(d) /\ k \notin committed THEN Append(q, p) ELSE q
  BY Zenon DEF Pushed, Told
<1> HIDE DEF q, p, m
<1>3. /\ q \o (<<p>> \o << >>) = Append(q, p)
      /\ q \o (<< >> \o << >>) = q
      /\ q \o (<<p>> \o <<m>>) = Append(Append(q, p), m)
      /\ q \o (<< >> \o <<m>>) = Append(q, m)
  BY <1>1, PushedParts
<1> DEFINE b == Serving(d) /\ k \notin committed
<1>4. q \o Pushed(c, k, d) = IF c = d THEN Append(Told(d, k), m) ELSE Told(d, k)
  <2>1. CASE b /\ c = d
    BY <1>2, <1>3, <2>1, Zenon
  <2>2. CASE b /\ c # d
    BY <1>2, <1>3, <2>2, Zenon
  <2>3. CASE ~ b /\ c = d
    BY <1>2, <1>3, <2>3, Zenon
  <2>4. CASE ~ b /\ c # d
    BY <1>2, <1>3, <2>4, Zenon
  <2> QED
    BY <2>1, <2>2, <2>3, <2>4
<1> QED
  BY <1>4, Zenon DEF q, m

LEMMA HeardAcceptPut ==
    ASSUME DbTypeOK, NEW c \in Device, NEW d \in Device, Heard(d), KeysOnce,
           Settled \subseteq Settled', AcceptPut(c)
    PROVE  Heard(d)'
<1>1. PICK k \in Key :
          /\ NextPut(c, k)
          /\ committed' = committed \cup {k}
          /\ inbox' = [e \in Device |-> inbox[e] \o Pushed(c, k, e)]
          /\ answered' = [answered EXCEPT ![c] = @ \cup {k}]
          /\ UNCHANGED <<snap, outstanding, deferred, listen>>
  BY DEF AcceptPut, view
<1>2. k \in Outgoing(c) \ answered[c] /\ k \in Mine(c) /\ k \notin Settled
  BY <1>1, NextIsMine
<1>3. k \notin Outgoing(d) \cap answered[d]
  BY <1>2 DEF KeysOnce, Mine
<1>4. inbox[d] \in Seq(Message) /\ Told(d, k) \in Seq(Message)
  BY <1>2, <1>3, HeardStored DEF DbTypeOK
<1>5. inbox'[d] = inbox[d] \o Pushed(c, k, d)
  BY <1>1
<1>6. CASE c # d
  <2>2. inbox'[d] = Told(d, k)
    BY <1>5, <1>6, PushedTold, Zenon
  <2>3. answered'[d] = answered[d]
    BY <1>1, <1>6 DEF DbTypeOK
  <2> QED
    BY <1>1, <1>2, <1>3, <2>2, <2>3, HeardTold
<1>7. CASE c = d
  <2>3. inbox'[d] = Append(Told(d, k), Answer(k, TRUE))
    BY <1>5, <1>7, PushedTold, Zenon
  <2>4. answered'[d] = answered[d] \cup {k}
    BY <1>1, <1>7 DEF DbTypeOK
  <2>5. /\ AcksFit(Told(d, k), Outgoing(d) \cap answered[d])
        /\ ~ Serving(d) => Told(d, k) = inbox[d]
        /\ InTime(snap[d], Told(d, k), committed \cup {k}, deferred[d], listen[d])
    BY <1>2, <1>3, HeardStored
  <2> QED
    BY <1>1, <1>2, <1>4, <1>7, <2>3, <2>4, <2>5, HeardAnswer
<1> QED
  BY <1>6, <1>7

LEMMA HeardRejectPut ==
    ASSUME DbTypeOK, NEW c \in Device, NEW d \in Device, Heard(d),
           Settled \subseteq Settled', RejectPut(c)
    PROVE  Heard(d)'
<1>1. PICK k \in Key :
          /\ NextPut(c, k)
          /\ inbox' = [inbox EXCEPT ![c] = Append(@, Answer(k, FALSE))]
          /\ answered' = [answered EXCEPT ![c] = @ \cup {k}]
          /\ UNCHANGED <<committed, snap, outstanding, deferred, listen>>
  BY DEF RejectPut, view
<1>2. CASE c # d
  <2>1. UNCHANGED <<inbox[d], deferred[d], answered[d], snap[d], committed, outstanding[d],
                    listen[d]>>
    BY <1>1, <1>2 DEF DbTypeOK
  <2>2. Outgoing(d)' = Outgoing(d)
    BY <2>1 DEF Outgoing
  <2> QED
    BY <2>1, <2>2, HeardStays
<1>3. CASE c = d
  <2>1. k \in Outgoing(d) \ answered[d]
    BY <1>1, <1>3, NextIsMine
  <2>2. /\ inbox[d] \in Seq(Message)
        /\ inbox'[d] = Append(inbox[d], Answer(k, FALSE))
        /\ answered'[d] = answered[d] \cup {k}
    BY <1>1, <1>3 DEF DbTypeOK
  <2>3. /\ AcksFit(inbox[d], Outgoing(d) \cap answered[d])
        /\ InTime(snap[d], inbox[d], committed, deferred[d], listen[d])
    BY DEF Heard, AnswersOnce, DataFirst
  <2> QED
    BY <1>1, <2>1, <2>2, <2>3, HeardAnswer
<1> QED
  BY <1>2, <1>3

LEMMA HeardRemotePut ==
    ASSUME DbTypeOK, NEW d \in Device, Heard(d), KeysOnce, Settled \subseteq Settled', RemotePut
    PROVE  Heard(d)'
<1>1. PICK k \in Remote \ committed :
          /\ committed' = committed \cup {k}
          /\ inbox' = [e \in Device |->
                        IF Serving(e) THEN Append(inbox[e], [type |-> "data", keys |-> {k}])
                                      ELSE inbox[e]]
          /\ UNCHANGED <<snap, outstanding, deferred, answered, listen>>
  BY DEF RemotePut, view, puts
<1>2. k \in Key /\ k \notin Settled /\ k \notin Outgoing(d) \cap answered[d]
  BY DatabaseAssumption DEF KeysOnce, Mine, Settled
<1>3. inbox'[d] = Told(d, k)
  BY <1>1 DEF Told
<1> QED
  BY <1>1, <1>2, <1>3, HeardTold

\* A step that sends d nothing, and takes nothing that was sent to it.
Unheard(d) ==
    /\ UNCHANGED <<inbox[d], deferred[d], answered[d], snap[d], committed>>
    /\ Outgoing(d) \subseteq Outgoing(d)'
    /\ \/ UNCHANGED listen[d]
       \/ listen[d] = "none" /\ listen'[d] = "sent"

\* What d hears stays in order, whatever the step.
LEMMA HeardKept ==
    ASSUME DbTypeOK, NEW d \in Device, Heard(d), NothingAsked(d), KeysOnce,
           Settled \subseteq Settled', Step
    PROVE  Heard(d)'
<1>1. ASSUME Unheard(d)
      PROVE  Heard(d)'
  BY <1>1, HeardStays DEF Unheard
<1>2. ASSUME NEW c \in Device, Observe(c) \/ RunCallback(c) \/ (\E k \in Key : SetValue(c, k))
      PROVE  Unheard(d)
  BY <1>2 DEF Unheard, Observe, RunCallback, SetValue, view, puts, network, Outgoing
<1>3. ASSUME NEW c \in Device, RunObserve(c)
      PROVE  Unheard(d)
  BY <1>3 DEF Unheard, RunObserve, puts, Outgoing, DbTypeOK
<1>4. ASSUME NEW c \in Device, RunSet(c)
      PROVE  Unheard(d)
  BY <1>4 DEF Unheard, RunSet, network, Outgoing, DbTypeOK
<1>5. ASSUME NEW c \in Device, RaiseEvent(c)
      PROVE  Unheard(d)
  BY <1>5 DEF Unheard, RaiseEvent, view, puts, network, Outgoing
<1>6. ASSUME NEW c \in Device, c # d, ReceiveData(c) \/ ReceiveListenOk(c)
      PROVE  Unheard(d)
  BY <1>6 DEF Unheard, ReceiveData, ReceiveListenOk, Incoming, puts, Outgoing, DbTypeOK
<1>7. ASSUME NEW c \in Device, c # d, ReceivePutResponse(c)
      PROVE  Unheard(d)
  <2>1. UNCHANGED <<inbox[d], deferred[d], answered[d], snap[d], committed, listen[d],
                    outstanding[d]>>
    BY <1>7 DEF ReceivePutResponse, Incoming, DbTypeOK
  <2> QED
    BY <2>1 DEF Unheard, Outgoing
<1>8. ASSUME NEW c \in Device, AppStep(c)
      PROVE  Heard(d)'
  BY <1>1, <1>2, <1>8, HeardEnd DEF AppStep, Calling
<1>9. ASSUME NEW c \in Device, WorkerStep(c)
      PROVE  Heard(d)'
  <2>1. CASE c # d
    BY <1>1, <1>3, <1>4, <1>5, <1>6, <1>7, <1>9, <2>1 DEF WorkerStep
  <2>2. CASE c = d
    BY <1>1, <1>3, <1>4, <1>5, <1>9, <2>2, HeardData, HeardListenOk, HeardResponse
    DEF WorkerStep
  <2> QED
    BY <2>1, <2>2
<1>10. ASSUME NEW c \in Device, ServerStep(c) \/ Reconnect(c)
       PROVE  Heard(d)'
  BY <1>10, HeardAnswerListen, HeardAcceptPut, HeardRejectPut, HeardReconnect DEF ServerStep
<1>11. CASE UNCHANGED dbVars
  BY <1>1, <1>11 DEF Unheard, dbVars, client, view, puts, network, Outgoing
<1> QED
  BY <1>8, <1>9, <1>10, <1>11, HeardRemotePut DEF Step, DbStep

\* While a device does not listen it has nothing to listen for.
LEMMA NothingAskedKept ==
    ASSUME DbTypeOK, NEW d \in Device, NothingAsked(d), Step
    PROVE  NothingAsked(d)'
<1>1. ASSUME UNCHANGED <<work[d], regs[d]>>, Outgoing(d)' \subseteq Outgoing(d),
             listen'[d] = "none" => listen[d] = "none"
      PROVE  NothingAsked(d)'
  BY <1>1 DEF NothingAsked
<1>2. ASSUME NEW c \in Device, Observe(c)
      PROVE  NothingAsked(d)'
  <2>1. UNCHANGED <<regs, listen, outstanding>>
    BY <1>2 DEF Observe, view, puts, network
  <2>2. CASE c = d
    <3> DEFINE m == [type |-> "observe", reg |-> NewHandle(d)]
               w == work[d]
    <3>1. m \in Call /\ m.type = "observe" /\ work'[d] = Append(w, m) /\ w \in Seq(Call)
      BY <1>2, <2>2 DEF Observe, NewHandle, DbTypeOK, Call, Reg
    <3> HIDE DEF m
    <3>2. Head(work'[d]) = IF w = << >> THEN m ELSE Head(w)
      BY <3>1
    <3> QED
      BY <2>1, <3>1, <3>2 DEF NothingAsked, Outgoing
  <2>3. CASE c # d
    BY <1>1, <1>2, <2>1, <2>3 DEF Observe, DbTypeOK, Outgoing
  <2> QED
    BY <2>2, <2>3
<1>3. ASSUME NEW c \in Device, NEW k \in Key, Asked(c), SetValue(c, k)
      PROVE  NothingAsked(d)'
  <2>1. UNCHANGED <<regs, listen, outstanding>>
    BY <1>3 DEF SetValue, view, puts, network
  <2>2. CASE c = d
    <3> DEFINE m == [type |-> "set", key |-> k]
               w == work[d]
    <3>1. m \in Call /\ work'[d] = Append(w, m) /\ w \in Seq(Call)
      BY <1>3, <2>2 DEF SetValue, DbTypeOK, Call
    <3>2. listen[d] # "none" \/ w # << >>
      BY <1>3, <2>2 DEF Asked
    <3> HIDE DEF m
    <3>3. w # << >> => Head(work'[d]) = Head(w)
      BY <3>1
    <3> QED
      BY <2>1, <3>1, <3>2, <3>3 DEF NothingAsked, Outgoing
  <2>3. CASE c # d
    BY <1>1, <1>3, <2>1, <2>3 DEF SetValue, DbTypeOK, Outgoing
  <2> QED
    BY <2>2, <2>3
<1>4. ASSUME NEW c \in Device, RunCallback(c)
      PROVE  NothingAsked(d)'
  BY <1>1, <1>4 DEF RunCallback, calls, view, puts, network, Outgoing
<1>5. ASSUME NEW c \in Device, EndProcess(c)
      PROVE  NothingAsked(d)'
  BY <1>1, <1>5 DEF EndProcess, NothingAsked, Outgoing, DbTypeOK
<1>6. ASSUME NEW c \in Device, WorkerStep(c), c # d
      PROVE  NothingAsked(d)'
  <2>1. UNCHANGED <<work[d], regs[d]>>
    BY <1>6, WorkerElsewhere DEF desk
  <2>2. UNCHANGED <<outstanding[d], listen[d]>>
    BY <1>6 DEF WorkerStep, RunObserve, RunSet, RaiseEvent, ReceiveData, ReceiveListenOk,
                ReceivePutResponse, puts, network, DbTypeOK
  <2> QED
    BY <1>1, <2>1, <2>2 DEF Outgoing
<1>7. ASSUME RunObserve(d)
      PROVE  NothingAsked(d)'
  BY <1>7 DEF RunObserve, NothingAsked, DbTypeOK
<1>8. ASSUME RunSet(d)
      PROVE  NothingAsked(d)'
  BY <1>8 DEF RunSet, NothingAsked, network
<1>9. ASSUME ReceivePutResponse(d)
      PROVE  NothingAsked(d)'
  <2>1. outstanding'[d] \subseteq outstanding[d] /\ UNCHANGED <<work, regs, listen>>
    BY <1>9 DEF ReceivePutResponse, DbTypeOK, calls
  <2> QED
    BY <1>1, <2>1 DEF Outgoing
<1>10. ASSUME RaiseEvent(d) \/ ReceiveData(d) \/ ReceiveListenOk(d)
       PROVE  NothingAsked(d)'
  BY <1>1, <1>10 DEF RaiseEvent, ReceiveData, ReceiveListenOk, calls, view, puts, network,
                     Outgoing, DbTypeOK
<1>11. ASSUME NEW c \in Device, ServerStep(c) \/ Reconnect(c)
       PROVE  NothingAsked(d)'
  <2>1. UNCHANGED <<work, regs, outstanding>>
    BY <1>11 DEF ServerStep, AnswerListen, AcceptPut, RejectPut, Reconnect, RestoredPuts,
                 calls, view, puts, DbTypeOK
  <2>2. listen'[d] = "none" => listen[d] = "none"
    BY <1>11 DEF ServerStep, AnswerListen, AcceptPut, RejectPut, Reconnect, RestoredListen,
                 DbTypeOK
  <2> QED
    BY <1>1, <2>1, <2>2 DEF Outgoing
<1>12. CASE RemotePut \/ UNCHANGED dbVars
  BY <1>1, <1>12 DEF RemotePut, dbVars, client, calls, view, puts, network, Outgoing
<1> QED
  BY <1>2, <1>3, <1>4, <1>5, <1>6, <1>7, <1>8, <1>9, <1>10, <1>11, <1>12
  DEF Step, AppStep, Calling, DbStep, WorkerStep

\* The invariant of the calls, the keys and the server's messages is inductive.
LEMMA OrderlyKept ==
    ASSUME DbTypeOK, DbTypeOK', Orderly, Step
    PROVE  Orderly' /\ Settled \subseteq Settled'
<1>1. CallsMove
  BY CallsMoved
<1>2. KeysOnce' /\ Settled \subseteq Settled'
  BY <1>1, KeysStayOnce DEF Orderly
<1>3. ASSUME NEW d \in Device
      PROVE  /\ CallsOnce(d)' /\ AnswersOnce(d)'
             /\ NothingAsked(d)' /\ ListenInOrder(d)' /\ DataFirst(d)'
  <2>1. CallsOnce(d)'
    BY <1>1, CallsStayOnce DEF Orderly, KeysOnce
  <2>2. NothingAsked(d)'
    BY NothingAskedKept DEF Orderly
  <2>3. Heard(d)'
    BY <1>2, HeardKept DEF Orderly, Heard
  <2> QED
    BY <2>1, <2>2, <2>3 DEF Heard
<1> QED
  BY <1>2, <1>3 DEF Orderly

LEMMA InitOrderly ==
    ASSUME NEW listening \in {"none", "sent"}, DbInit(listening)
    PROVE  Orderly
<1>1. \A d \in Device : /\ work[d] = << >> /\ outstanding[d] = {} /\ regs[d] = {}
                        /\ inbox[d] = << >> /\ deferred[d] = << >> /\ listen[d] = listening
  BY DEF DbInit
<1>2. DOMAIN << >> = {}
  OBVIOUS
<1>3. \A d \in Device : Mine(d) = {} /\ Outgoing(d) = {}
  BY <1>1, <1>2 DEF Mine, Outgoing, Waits
<1>4. KeysOnce
  BY <1>3 DEF KeysOnce, DbInit, Mine
<1>5. ASSUME NEW d \in Device
      PROVE  /\ CallsOnce(d) /\ AnswersOnce(d)
             /\ NothingAsked(d) /\ ListenInOrder(d) /\ DataFirst(d)
  <2>1. CallsOnce(d)
    BY <1>1, <1>2 DEF CallsOnce, Queued
  <2>2. AnswersOnce(d)
    BY <1>1, <1>2 DEF AnswersOnce, AcksFit, Acks
  <2>3. NothingAsked(d)
    BY <1>1, <1>3 DEF NothingAsked
  <2>4. ListenInOrder(d) /\ DataFirst(d)
    BY <1>1, <1>2 DEF ListenInOrder, DataFirst, InTime, Acks
  <2> QED
    BY <2>1, <2>2, <2>3, <2>4
<1> QED
  BY <1>4, <1>5 DEF Orderly

-----------------------------------------------------------------------------
(* Events: an observer is told of a child once.                            *)

\* The server removes nothing.
LEMMA CommittedGrows ==
    ASSUME Step
    PROVE  committed \subseteq committed'
<1>1. ASSUME NEW c \in Device, AppStep(c)
      PROVE  UNCHANGED committed
  BY <1>1 DEF AppStep, Calling, Observe, SetValue, RunCallback, EndProcess
<1>2. ASSUME NEW c \in Device, WorkerStep(c)
      PROVE  UNCHANGED committed
  BY <1>2 DEF WorkerStep, RunObserve, RunSet, RaiseEvent, ReceiveData, ReceiveListenOk,
              ReceivePutResponse
<1>3. ASSUME NEW c \in Device, ServerStep(c) \/ Reconnect(c)
      PROVE  committed \subseteq committed'
  BY <1>3 DEF ServerStep, AnswerListen, AcceptPut, RejectPut, Reconnect
<1>4. CASE RemotePut \/ UNCHANGED dbVars
  BY <1>4 DEF RemotePut, dbVars
<1> QED
  BY <1>1, <1>2, <1>3, <1>4 DEF Step, DbStep

LEMMA RefusedGrows ==
    ASSUME Step
    PROVE  refused \subseteq refused'
<1>1. ASSUME NEW c \in Device, AppStep(c)
      PROVE  UNCHANGED refused
  BY <1>1 DEF AppStep, Calling, Observe, SetValue, RunCallback, EndProcess, network, trouble
<1>2. ASSUME NEW c \in Device, WorkerStep(c)
      PROVE  UNCHANGED refused
  BY <1>2 DEF WorkerStep, RunObserve, RunSet, RaiseEvent, ReceiveData, ReceiveListenOk,
              ReceivePutResponse, network, trouble
<1>3. ASSUME NEW c \in Device, ServerStep(c) \/ Reconnect(c)
      PROVE  refused \subseteq refused'
  BY <1>3 DEF ServerStep, AnswerListen, AcceptPut, RejectPut, Reconnect, trouble
<1>4. CASE RemotePut \/ UNCHANGED dbVars
  BY <1>4 DEF RemotePut, dbVars, client, network, trouble
<1> QED
  BY <1>1, <1>2, <1>3, <1>4 DEF Step, DbStep

\* A key that is gone is not brought back.
LEMMA GoneKept ==
    ASSUME DbTypeOK, Orderly, Settled \subseteq Settled', Step
    PROVE  Gone \subseteq Gone'
<1>1. ASSUME NEW c \in Device, AcceptPut(c)
      PROVE  Gone \subseteq Gone'
  <2>1. PICK k \in Key : NextPut(c, k) /\ committed' = committed \cup {k}
    BY <1>1 DEF AcceptPut
  <2>2. k \notin Settled
    BY <2>1, NextIsMine
  <2> QED
    BY <2>1, <2>2 DEF Gone
<1>2. ASSUME RemotePut
      PROVE  Gone \subseteq Gone'
  BY <1>2 DEF RemotePut, Gone, Settled
<1>3. ASSUME UNCHANGED committed
      PROVE  Gone \subseteq Gone'
  BY <1>3 DEF Gone
<1>4. ASSUME NEW c \in Device, WorkerStep(c)
      PROVE  UNCHANGED committed
  BY <1>4 DEF WorkerStep, RunObserve, RunSet, RaiseEvent, ReceiveData, ReceiveListenOk,
              ReceivePutResponse
<1>5. ASSUME NEW c \in Device,
             AppStep(c) \/ AnswerListen(c) \/ RejectPut(c) \/ Reconnect(c)
      PROVE  UNCHANGED committed
  BY <1>5 DEF AppStep, Calling, Observe, SetValue, RunCallback, EndProcess, AnswerListen,
              RejectPut, Reconnect
<1>6. CASE UNCHANGED dbVars
  BY <1>3, <1>6 DEF dbVars
<1> QED
  BY <1>1, <1>2, <1>3, <1>4, <1>5, <1>6 DEF Step, DbStep, ServerStep

\* A child leaves the view only for good, or with the process.
LEMMA ViewKept ==
    ASSUME DbTypeOK, Orderly, Settled \subseteq Settled', NEW d \in Device,
           Lives(d) \/ RunCallback(d), NEW k \in View(d)
    PROVE  k \in View(d)' \cup Gone'
<1>1. ASSUME UNCHANGED <<snap[d], writes[d]>>
      PROVE  k \in View(d)'
  BY <1>1 DEF View
<1>2. ASSUME NEW c \in Device, WorkerStep(c), c # d
      PROVE  k \in View(d)'
  BY <1>1, <1>2, WorkerElsewhere DEF desk
<1>3. ASSUME RemotePut \/ \E c \in Device : ServerStep(c) \/ Reconnect(c)
      PROVE  k \in View(d)'
  BY <1>1, <1>3, NetworkApart DEF desk
<1>4. ASSUME NEW c \in Device, Calling(c) \/ RunCallback(c) \/ (c # d /\ EndProcess(c))
      PROVE  k \in View(d)'
  BY <1>1, <1>4 DEF Calling, Observe, SetValue, RunCallback, EndProcess, view, DbTypeOK
<1>5. ASSUME RunObserve(d) \/ RunSet(d) \/ RaiseEvent(d) \/ ReceiveData(d)
      PROVE  k \in View(d)'
  <2>1. CASE RunObserve(d) \/ RaiseEvent(d)
    BY <2>1 DEF RunObserve, RaiseEvent, View, view
  <2>2. CASE RunSet(d)
    <3>1. UNCHANGED snap /\ writes[d] \subseteq writes'[d]
      BY <2>2 DEF RunSet, DbTypeOK
    <3> QED
      BY <3>1 DEF View
  <2>3. CASE ReceiveData(d)
    <3>1. UNCHANGED writes /\ snap[d] \subseteq snap'[d]
      BY <2>3 DEF ReceiveData, DbTypeOK
    <3> QED
      BY <3>1 DEF View
  <2> QED
    BY <1>5, <2>1, <2>2, <2>3
<1>6. ASSUME ReceiveListenOk(d)
      PROVE  k \in View(d)' \cup Gone'
  <2>1. /\ UNCHANGED <<committed, snap>>
        /\ writes'[d] = writes[d] \ {deferred[d][i].key : i \in DOMAIN deferred[d]}
    BY <1>6 DEF ReceiveListenOk, DbTypeOK
  <2>2. \A i \in DOMAIN deferred[d] : /\ deferred[d][i].key \in committed => deferred[d][i].key \in snap[d]
                                      /\ deferred[d][i].key \in Settled'
    BY <1>6, HeardListenOk DEF Orderly, Heard, AnswersOnce
  <2> QED
    BY <2>1, <2>2 DEF View, Gone
<1>7. ASSUME ReceivePutResponse(d)
      PROVE  k \in View(d)' \cup Gone'
  <2> DEFINE h == Head(inbox[d]).key
  <2>1. /\ UNCHANGED <<committed, snap>>
        /\ \/ UNCHANGED writes[d]
           \/ ~ ListenUnacked(d) /\ writes'[d] = writes[d] \ {h}
    BY <1>7 DEF ReceivePutResponse, DbTypeOK, calls
  <2>2. h \in Settled' /\ ((~ ListenUnacked(d) /\ h \in committed) => h \in snap[d])
    BY <1>7, HeardResponse DEF Orderly, Heard
  <2> HIDE DEF h
  <2> QED
    BY <2>1, <2>2 DEF View, Gone
<1>8. CASE UNCHANGED dbVars
  BY <1>1, <1>8 DEF dbVars, client, view
<1> QED
  BY <1>2, <1>3, <1>4, <1>5, <1>6, <1>7, <1>8 DEF Lives, AppStep, DbStep, WorkerStep

\* What a callback may be about it may still be about.
LEMMA AnnouncedKept ==
    ASSUME DbTypeOK, Orderly, Settled \subseteq Settled', NEW d \in Device,
           Lives(d) \/ RunCallback(d), NEW e, Announced(d, e)
    PROVE  Announced(d, e)'
<1>1. e[1] \in View(d)' \cup Gone'
  BY GoneKept, ViewKept, StepOfDevice DEF Announced
<1>2. regs[d] \subseteq regs'[d]
  <2>1. ASSUME NEW c \in Device, WorkerStep(c)
        PROVE  regs[d] \subseteq regs'[d]
    <3>1. ASSUME RunObserve(c)
          PROVE  regs[d] \subseteq regs'[d]
      BY <3>1 DEF RunObserve, DbTypeOK
    <3>2. ASSUME ~ RunObserve(c)
          PROVE  UNCHANGED regs
      BY <2>1, <3>2 DEF WorkerStep, RunSet, RaiseEvent, ReceiveData, ReceiveListenOk,
                        ReceivePutResponse, view
    <3> QED
      BY <3>1, <3>2
  <2>2. ASSUME NEW c \in Device, Calling(c) \/ RunCallback(c) \/ (c # d /\ EndProcess(c))
        PROVE  regs[d] \subseteq regs'[d]
    BY <2>2 DEF Calling, Observe, SetValue, RunCallback, EndProcess, view, DbTypeOK
  <2>3. ASSUME RemotePut \/ \E c \in Device : ServerStep(c) \/ Reconnect(c)
        PROVE  regs[d] \subseteq regs'[d]
    BY <2>3, NetworkApart DEF desk
  <2>4. CASE UNCHANGED dbVars
    BY <2>4 DEF dbVars, client, view
  <2> QED
    BY <2>1, <2>2, <2>3, <2>4 DEF Lives, AppStep, DbStep
<1> QED
  BY <1>1, <1>2 DEF Announced

\* Callbacks of other kinds join the main queue, or none does.
LEMMA EventsJoin ==
    ASSUME DbTypeOK, NEW d \in Device, EventsOnce(d), NEW D, Delivered(d, D),
           \A e : Announced(d, e) => Announced(d, e)',
           NEW t \in Seq(Callback), \A i \in DOMAIN t : t[i].type # "added",
           main'[d] = main[d] \o t, UNCHANGED raising[d]
    PROVE  EventsOnce(d)' /\ Delivered(d, D)'
<1> DEFINE q == main[d]
           s == main'[d]
<1>1. \A i \in DOMAIN s : \/ i \in DOMAIN q /\ s[i] = q[i]
                          \/ \E j \in DOMAIN t : s[i] = t[j]
  <2>1. q \in Seq(Callback) /\ s = q \o t
    BY DEF DbTypeOK
  <2> HIDE DEF q, s
  <2>2. \A i \in DOMAIN s : \/ i \in DOMAIN q /\ s[i] = q[i]
                            \/ i - Len(q) \in DOMAIN t /\ s[i] = t[i - Len(q)]
    BY <2>1
  <2> QED
    BY <2>2
<1>2. \A i \in Waiting(d)' : i \in Waiting(d) /\ Event(d, i)' = Event(d, i)
  BY <1>1 DEF Waiting, Event
<1> QED
  BY <1>2 DEF EventsOnce, Delivered

\* The worker raises events for pairs that no callback was about.
LEMMA EventsRaised ==
    ASSUME NEW d \in Device, EventsOnce(d), NEW D, Delivered(d, D),
           \A e : Announced(d, e) => Announced(d, e)',
           \A e \in raising'[d] : Announced(d, e)' /\ ~ Announced(d, e),
           UNCHANGED main[d]
    PROVE  EventsOnce(d)' /\ Delivered(d, D)'
<1>1. \A i \in Waiting(d)' : i \in Waiting(d) /\ Event(d, i)' = Event(d, i)
  BY DEF Waiting, Event
<1> QED
  BY <1>1 DEF EventsOnce, Delivered

\* The worker dispatches an event to the main queue.
LEMMA EventsDispatched ==
    ASSUME DbTypeOK, NEW d \in Device, EventsOnce(d), NEW D, Delivered(d, D),
           \A e : Announced(d, e) => Announced(d, e)', RaiseEvent(d)
    PROVE  EventsOnce(d)' /\ Delivered(d, D)'
<1>1. PICK e \in raising[d] :
          /\ raising' = [raising EXCEPT ![d] = @ \ {e}]
          /\ main' = [main EXCEPT ![d] =
                        Append(@, [type |-> "added", key |-> e[1], reg |-> e[2]])]
  BY DEF RaiseEvent
<1> DEFINE c == [type |-> "added", key |-> e[1], reg |-> e[2]]
           q == main[d]
           s == main'[d]
<1>2. e = <<e[1], e[2]>> /\ e[1] \in Key /\ e[2] \in Reg
  BY DEF DbTypeOK
<1>3. /\ c \in Callback /\ c.type = "added" /\ <<c.key, c.reg>> = e
      /\ q \in Seq(Callback) /\ s = Append(q, c)
      /\ raising'[d] = raising[d] \ {e}
  BY <1>1, <1>2 DEF DbTypeOK, Callback
<1> HIDE DEF c
<1>4. /\ \A i \in DOMAIN s : i \in DOMAIN q \/ i = Len(q) + 1
      /\ \A i \in DOMAIN q : s[i] = q[i]
      /\ s[Len(q) + 1] = c
  <2> HIDE DEF q, s
  <2> QED
    BY <1>3, AppendPlaces
<1>5. \A i \in Waiting(d)' : \/ i \in Waiting(d) /\ Event(d, i)' = Event(d, i)
                             \/ i = Len(q) + 1 /\ Event(d, i)' = e
  BY <1>3, <1>4 DEF Waiting, Event
<1>6. \A i \in Waiting(d) : Announced(d, Event(d, i)) /\ Event(d, i) # e
  BY DEF EventsOnce
<1> HIDE DEF q, s
<1>7. Announced(d, e)'
  BY DEF EventsOnce
<1>8. EventsOnce(d)'
  <2>1. \A f \in raising'[d] : Announced(d, f)'
    BY <1>3 DEF EventsOnce
  <2> QED
    BY <1>3, <1>5, <1>6, <1>7, <2>1 DEF EventsOnce
<1>9. Delivered(d, D)'
  BY <1>3, <1>5 DEF Delivered
<1> QED
  BY <1>8, <1>9

\* The app takes the oldest callback: the pair it is about is delivered, once.
LEMMA EventsDelivered ==
    ASSUME DbTypeOK, NEW d \in Device, EventsOnce(d), NEW D, Delivered(d, D),
           \A e : Announced(d, e) => Announced(d, e)', RunCallback(d)
    PROVE  /\ EventsOnce(d)' /\ Delivered(d, D)'
           /\ \A e : (/\ Head(main[d]).type = "added"
                      /\ e = <<Head(main[d]).key, Head(main[d]).reg>>)
                 => e \notin D /\ Delivered(d, D \cup {e})'
<1> DEFINE q == main[d]
           s == main'[d]
<1>1. q \in Seq(Callback) /\ q # << >> /\ s = Tail(q) /\ UNCHANGED raising[d]
  BY DEF RunCallback, DbTypeOK
<1>2. /\ 1 \in DOMAIN q /\ q[1] = Head(q)
      /\ \A i \in DOMAIN s : i \in Nat /\ i # 0 /\ i + 1 \in DOMAIN q /\ s[i] = q[i + 1]
  <2> HIDE DEF q, s
  <2>1. DOMAIN s \subseteq Nat \ {0}
    BY <1>1
  <2> QED
    BY <1>1, <2>1, TailPlaces
<1>3. \A i \in Waiting(d)' : /\ i \in Nat /\ i # 0
                             /\ i + 1 \in Waiting(d) /\ Event(d, i)' = Event(d, i + 1)
  BY <1>2 DEF Waiting, Event
<1> HIDE DEF s
<1>4. EventsOnce(d)'
  <2>1. \A i, j \in Waiting(d)' : Event(d, i)' = Event(d, j)' => i = j
    <3> SUFFICES ASSUME NEW i \in Waiting(d)', NEW j \in Waiting(d)',
                        Event(d, i)' = Event(d, j)'
                 PROVE  i = j
      OBVIOUS
    <3>1. i + 1 = j + 1
      BY <1>3 DEF EventsOnce
    <3> QED
      BY <1>3, <3>1
  <2>2. \A i \in Waiting(d)' : Announced(d, Event(d, i)') /\ Event(d, i)' \notin raising'[d]
    BY <1>1, <1>3 DEF EventsOnce
  <2> QED
    BY <1>1, <1>3, <2>1, <2>2 DEF EventsOnce
<1>5. Delivered(d, D)'
  BY <1>1, <1>3 DEF Delivered
<1>6. ASSUME NEW e, Head(q).type = "added", e = <<Head(q).key, Head(q).reg>>
      PROVE  e \notin D /\ Delivered(d, D \cup {e})'
  <2>1. 1 \in Waiting(d) /\ Event(d, 1) = e
    BY <1>2, <1>6 DEF Waiting, Event
  <2>2. e \notin D /\ Announced(d, e) /\ e \notin raising[d]
    BY <2>1 DEF EventsOnce, Delivered
  <2>3. \A i \in Waiting(d)' : Event(d, i)' # e
    <3> SUFFICES ASSUME NEW i \in Waiting(d)', Event(d, i)' = e
                 PROVE  FALSE
      OBVIOUS
    <3>1. i + 1 = 1
      BY <1>3, <2>1 DEF EventsOnce
    <3> QED
      BY <1>3, <3>1
  <2> QED
    BY <1>1, <1>5, <2>2, <2>3 DEF Delivered
<1> QED
  BY <1>4, <1>5, <1>6

\* The worker of d raises events for pairs that no callback was about.
RaisesNew(d) ==
    /\ \A e \in raising'[d] : Announced(d, e)' /\ ~ Announced(d, e)
    /\ UNCHANGED main[d]

\* Callbacks of other kinds join the main queue of d, or none does.
Joins(d) ==
    /\ UNCHANGED raising[d]
    /\ \E t \in Seq(Callback) : /\ \A i \in DOMAIN t : t[i].type # "added"
                                /\ main'[d] = main[d] \o t

\* While the process lives and the app takes no callback, a step does one of these
\* to the events of d.
LEMMA EventsMove ==
    ASSUME DbTypeOK, Orderly, NEW d \in Device, Lives(d), Truthful(d)
    PROVE  RaisesNew(d) \/ RaiseEvent(d) \/ Joins(d)
<1>1. ASSUME UNCHANGED <<main[d], raising[d]>>
      PROVE  Joins(d)
  <2>1. /\ << >> \in Seq(Callback) /\ DOMAIN << >> = {}
        /\ main[d] \in Seq(Callback)
    BY DEF DbTypeOK
  <2>2. main'[d] = main[d] \o << >>
    BY <1>1, <2>1
  <2> QED
    BY <1>1, <2>1, <2>2 DEF Joins
<1>2. ASSUME NEW c \in Device, WorkerStep(c), c # d
      PROVE  UNCHANGED <<main[d], raising[d]>>
  BY <1>2, WorkerElsewhere DEF desk
<1>3. ASSUME RemotePut \/ \E c \in Device : ServerStep(c) \/ Reconnect(c)
      PROVE  UNCHANGED <<main[d], raising[d]>>
  BY <1>3, NetworkApart DEF desk
<1>4. ASSUME NEW c \in Device, Calling(c) \/ (c # d /\ AppStep(c))
      PROVE  UNCHANGED <<main[d], raising[d]>>
  BY <1>4 DEF AppStep, Calling, Observe, SetValue, RunCallback, EndProcess, callback, DbTypeOK
<1>5. CASE RunObserve(d)
  <2> DEFINE r == Head(work[d]).reg
  <2>1. /\ work[d] \in Seq(Call) /\ work[d] # << >> /\ Head(work[d]).type = "observe"
        /\ regs'[d] = regs[d] \cup {r}
        /\ raising'[d] = View(d) \X {r}
        /\ UNCHANGED <<main, snap, writes>>
    BY <1>5 DEF RunObserve, InitialEvents, DbTypeOK
  <2>2. r \notin regs[d]
    <3>1. Head(work[d]) \in Call
      BY <2>1, QueueType
    <3>2. r \in Reg /\ Head(work[d]) = [type |-> "observe", reg |-> r]
      BY <2>1, <3>1 DEF Call
    <3>3. Queued(d, r)
      BY <2>1, <3>2, TailPlaces DEF Queued
    <3> QED
      BY <3>2, <3>3 DEF Orderly, CallsOnce
  <2> HIDE DEF r
  <2>3. View(d)' = View(d)
    BY <2>1 DEF View
  <2>4. \A e \in raising'[d] : Announced(d, e)' /\ ~ Announced(d, e)
    BY <2>1, <2>2, <2>3 DEF Announced
  <2> QED
    BY <2>1, <2>4 DEF RaisesNew
<1>6. CASE RunSet(d)
  <2> DEFINE k == Head(work[d]).key
  <2>1. /\ work[d] \in Seq(Call) /\ work[d] # << >> /\ Head(work[d]).type = "set"
        /\ writes'[d] = writes[d] \cup {k}
        /\ raising'[d] = ({k} \ View(d)) \X regs[d]
        /\ UNCHANGED <<main, regs>>
    BY <1>6 DEF RunSet, AddedEvents, DbTypeOK
  <2>2. k \notin Settled
    <3>1. Head(work[d]) \in Call
      BY <2>1, QueueType
    <3>2. k \in Key /\ Head(work[d]) = [type |-> "set", key |-> k]
      BY <2>1, <3>1 DEF Call
    <3>3. Waits(d, k)
      BY <2>1, <3>2, TailPlaces DEF Waits
    <3> QED
      BY <3>2, <3>3 DEF Mine, Settled
  <2> HIDE DEF k
  <2>3. k \in View(d)'
    BY <2>1 DEF View
  <2>4. \A e \in raising'[d] : Announced(d, e)' /\ ~ Announced(d, e)
    BY <2>1, <2>2, <2>3 DEF Announced, Gone
  <2> QED
    BY <2>1, <2>4 DEF RaisesNew
<1>7. CASE ReceiveData(d)
  <2> DEFINE m == Head(inbox[d])
  <2>1. /\ inbox[d] \in Seq(TrueMessage) /\ inbox[d] # << >> /\ m.type = "data"
        /\ snap'[d] = snap[d] \cup m.keys
        /\ raising'[d] = (m.keys \ View(d)) \X regs[d]
        /\ UNCHANGED <<main, regs>>
    BY <1>7 DEF ReceiveData, Incoming, AddedEvents, Truthful, DbTypeOK, view
  <2>2. m.keys \subseteq committed
    <3>1. m \in TrueMessage
      BY <2>1, QueueType
    <3> QED
      BY <2>1, <3>1 DEF TrueMessage
  <2> HIDE DEF m
  <2>3. m.keys \subseteq View(d)'
    BY <2>1 DEF View
  <2>4. \A e \in raising'[d] : Announced(d, e)' /\ ~ Announced(d, e)
    BY <2>1, <2>2, <2>3 DEF Announced, Gone
  <2> QED
    BY <2>1, <2>4 DEF RaisesNew
<1>8. CASE ReceiveListenOk(d)
  <2> DEFINE t == [i \in DOMAIN deferred[d] |-> Completion(deferred[d][i])]
  <2>1. main'[d] = main[d] \o t /\ UNCHANGED raising
    BY <1>8 DEF ReceiveListenOk, DbTypeOK
  <2>2. t \in Seq(Callback) /\ \A i \in DOMAIN t : t[i].type # "added"
    <3>1. deferred[d] \in Seq(Response)
      BY DEF DbTypeOK
    <3>2. t \in Seq(Callback)
      BY <3>1, CompletionsType
    <3> QED
      BY <3>2 DEF Completion
  <2> HIDE DEF t
  <2> QED
    BY <2>1, <2>2 DEF Joins
<1>9. CASE ReceivePutResponse(d)
  <2> DEFINE c == Completion(Head(inbox[d]))
             t == <<c>>
  <2>1. \/ UNCHANGED <<main[d], raising[d]>>
        \/ main'[d] = Append(main[d], c) /\ UNCHANGED raising[d]
    BY <1>9 DEF ReceivePutResponse, DbTypeOK
  <2>2. c \in Callback /\ c.type = "done"
    <3>1. Head(inbox[d]) \in Message /\ Head(inbox[d]).type = "ack"
      BY <1>9, QueueType DEF ReceivePutResponse, Incoming, DbTypeOK
    <3> QED
      BY <3>1 DEF Message, Response, Completion, Callback
  <2> HIDE DEF c
  <2>3. t \in Seq(Callback) /\ DOMAIN t = {1} /\ t[1] = c
    BY <2>2
  <2>4. Append(main[d], c) = main[d] \o t
    <3>1. main[d] \in Seq(Callback)
      BY DEF DbTypeOK
    <3> QED
      BY <2>2, <3>1
  <2> HIDE DEF t
  <2> QED
    BY <1>1, <2>1, <2>2, <2>3, <2>4 DEF Joins
<1>10. CASE UNCHANGED dbVars
  BY <1>1, <1>10 DEF dbVars, client, callback
<1> QED
  BY <1>1, <1>2, <1>3, <1>4, <1>5, <1>6, <1>7, <1>8, <1>9, <1>10
  DEF Lives, DbStep, WorkerStep

\* While the process lives and the app takes no callback, nothing is delivered
\* and nothing that is delivered is raised again.
LEMMA EventsKept ==
    ASSUME DbTypeOK, Orderly, Settled \subseteq Settled', NEW d \in Device, Lives(d),
           Truthful(d), EventsOnce(d), NEW D, Delivered(d, D)
    PROVE  EventsOnce(d)' /\ Delivered(d, D)'
<1>1. \A e : Announced(d, e) => Announced(d, e)'
  BY AnnouncedKept
<1> QED
  BY <1>1, EventsMove, EventsRaised, EventsDispatched, EventsJoin DEF RaisesNew, Joins

\* Whatever the step, a device is told the truth.
LEMMA StepTruth ==
    ASSUME DbTypeOK, Step, NEW d \in Device, Truthful(d)
    PROVE  Truthful(d)'
<1>1. CASE UNCHANGED dbVars
  <2>1. UNCHANGED <<committed, refused, told(d), Vouched(d)>>
    BY <1>1 DEF dbVars, client, calls, view, puts, network, callback, told, Vouched
  <2> QED
    BY <2>1, TruthStays
<1>2. ASSUME NEW c \in Device, AppStep(c)
      PROVE  Truthful(d)'
  BY <1>2, CallTruth, EndTruth DEF AppStep, Calling
<1>3. ASSUME NEW c \in Device, DbStep(c)
      PROVE  Truthful(d)'
  BY <1>3, WorkerTruth, WorkerTruthElsewhere, NetworkTruth DEF DbStep
<1>4. CASE RemotePut
  BY <1>4, NetworkTruth
<1> QED
  BY <1>1, <1>2, <1>3, <1>4 DEF Step

-----------------------------------------------------------------------------
(* What holds of a device on which the pairs in D have been delivered.     *)

Served(d, D) == Truthful(d) /\ EventsOnce(d) /\ Delivered(d, D)

\* While the process lives, and no callback runs, what is delivered stays so.
LEMMA ServedKept ==
    ASSUME DbTypeOK, DbTypeOK', Orderly, NEW d \in Device, Lives(d), NEW D, Served(d, D)
    PROVE  Served(d, D)'
<1>1. Step
  BY StepOfDevice
<1>2. Settled \subseteq Settled'
  BY <1>1, OrderlyKept
<1> QED
  BY <1>1, <1>2, StepTruth, EventsKept DEF Served

\* A callback that runs delivers one pair, which had not been.
LEMMA ServedRun ==
    ASSUME DbTypeOK, DbTypeOK', Orderly, NEW d \in Device, RunCallback(d), NEW D, Served(d, D)
    PROVE  /\ Served(d, D)'
           /\ \A e : (/\ Head(main[d]).type = "added"
                      /\ e = <<Head(main[d]).key, Head(main[d]).reg>>)
                 => e \notin D /\ Served(d, D \cup {e})'
<1>1. Step
  BY StepOfDevice
<1>2. Settled \subseteq Settled'
  BY <1>1, OrderlyKept
<1>3. \A e : Announced(d, e) => Announced(d, e)'
  BY <1>2, AnnouncedKept
<1> QED
  BY <1>1, <1>3, StepTruth, EventsDelivered DEF Served

\* The end of the process leaves nothing delivered.
LEMMA ServedEnd ==
    ASSUME DbTypeOK, NEW d \in Device, EndProcess(d), NEW D, Served(d, D)
    PROVE  Served(d, {})'
<1>1. Truthful(d)'
  BY EndTruth DEF Served
<1>2. main'[d] = << >> /\ raising'[d] = {}
  BY DEF EndProcess, DbTypeOK
<1>3. DOMAIN << >> = {}
  OBVIOUS
<1> QED
  BY <1>1, <1>2, <1>3 DEF Served, EventsOnce, Delivered, Waiting

LEMMA InitServed ==
    ASSUME NEW listening, DbInit(listening), NEW d \in Device
    PROVE  Served(d, {})
<1>1. main[d] = << >> /\ raising[d] = {}
  BY DEF DbInit
<1>2. DOMAIN << >> = {}
  OBVIOUS
<1> QED
  BY <1>1, <1>2, InitTruth DEF Served, EventsOnce, Delivered, Waiting

\* A smaller set of pairs has been delivered too.
LEMMA ServedLess ==
    ASSUME NEW d \in Device, NEW D, NEW E, E \subseteq D, Served(d, D)'
    PROVE  Served(d, E)'
  BY DEF Served, Delivered

\* The pairs in array a, each there once.
Entries(a) == { a[i] : i \in DOMAIN a }
Distinct(a) == \A i, j \in DOMAIN a : a[i] = a[j] => i = j

LEMMA DistinctAppend ==
    ASSUME NEW S, NEW a \in Seq(S), Distinct(a), NEW e \in S, e \notin Entries(a)
    PROVE  Distinct(Append(a, e)) /\ Entries(Append(a, e)) = Entries(a) \cup {e}
<1> DEFINE b == Append(a, e)
<1>1. /\ \A i \in DOMAIN a : i \in DOMAIN b /\ b[i] = a[i]
      /\ Len(a) + 1 \in DOMAIN b /\ b[Len(a) + 1] = e
      /\ \A i \in DOMAIN b : i \in DOMAIN a \/ i = Len(a) + 1
  BY AppendPlaces
<1> HIDE DEF b
<1>2. Distinct(b)
  BY <1>1 DEF Distinct, Entries
<1>3. Entries(b) = Entries(a) \cup {e}
  BY <1>1 DEF Entries
<1> QED
  BY <1>2, <1>3 DEF b

LEMMA EmptyArray == Distinct(<< >>) /\ Entries(<< >>) = {}
<1>1. DOMAIN << >> = {}
  OBVIOUS
<1> QED
  BY <1>1 DEF Distinct, Entries

-----------------------------------------------------------------------------
(* Order: what one device puts first reaches every observer first.         *)

\* The puts of k and l are on their way from c to the server, k before l.
PutsInOrder(c, k, l) ==
    /\ \A i, j \in DOMAIN work[c] :
          (/\ work[c][i] = [type |-> "set", key |-> k]
           /\ work[c][j] = [type |-> "set", key |-> l]) => i < j
    /\ Waits(c, k) => l \notin Outgoing(c)
    /\ \A p, q \in outstanding[c] : p[2] = k /\ q[2] = l => p[1] < q[1]

\* What the server has stored, refused or answered was put by someone, and a
\* device counts on.
Dated ==
    /\ committed \cup refused \subseteq minted
    /\ \A d \in Device : /\ answered[d] \subseteq committed \cup refused
                         /\ \A p \in outstanding[d] : p[1] < putCounter[d]

LEMMA InitDated ==
    ASSUME NEW listening, DbInit(listening)
    PROVE  Dated
  BY DEF DbInit, Dated

\* Every step keeps the dates.
LEMMA DatedKept ==
    ASSUME DbTypeOK, Orderly, Dated, Step
    PROVE  Dated'
<1>a. /\ DOMAIN outstanding = Device /\ DOMAIN answered = Device /\ DOMAIN putCounter = Device
      /\ \A d \in Device : putCounter[d] \in Nat
  BY DEF DbTypeOK
<1>1. ASSUME UNCHANGED <<committed, refused>>, minted \subseteq minted',
             \A d \in Device : answered'[d] \subseteq answered[d],
             \A d \in Device : \/ outstanding'[d] \subseteq outstanding[d] /\ UNCHANGED putCounter[d]
                               \/ outstanding'[d] = {}
      PROVE  Dated'
  BY <1>1 DEF Dated
<1>2. ASSUME NEW c \in Device, Calling(c) \/ RunCallback(c)
      PROVE  Dated'
  BY <1>1, <1>2 DEF Calling, Observe, SetValue, RunCallback, calls, view, puts, network
<1>3. ASSUME NEW c \in Device, EndProcess(c)
      PROVE  Dated'
  BY <1>a, <1>1, <1>3 DEF EndProcess
<1>4. ASSUME NEW c \in Device, RunSet(c)
      PROVE  Dated'
  <2> DEFINE p == <<putCounter[c], Head(work[c]).key>>
  <2>1. /\ outstanding'[c] = outstanding[c] \cup {p} /\ p[1] = putCounter[c]
        /\ putCounter'[c] = putCounter[c] + 1
        /\ \A d \in Device : d # c => UNCHANGED <<outstanding[d], putCounter[d]>>
        /\ UNCHANGED <<committed, refused, minted, answered>>
    BY <1>a, <1>4 DEF RunSet, network
  <2> HIDE DEF p
  <2>2. ASSUME NEW d \in Device, NEW o \in outstanding'[d]
        PROVE  o[1] < putCounter'[d]
    <3>1. CASE o \in outstanding[d]
      <4>1. o[1] < putCounter[d] /\ o[1] \in Nat
        BY <3>1 DEF Dated, DbTypeOK
      <4> QED
        BY <1>a, <2>1, <4>1
    <3>2. CASE o \notin outstanding[d]
      BY <1>a, <2>1, <2>2, <3>2
    <3> QED
      BY <3>1, <3>2
  <2> QED
    BY <2>1, <2>2 DEF Dated
<1>5. ASSUME NEW c \in Device, RunObserve(c) \/ RaiseEvent(c) \/ ReceiveData(c) \/ ReceiveListenOk(c)
      PROVE  Dated'
  BY <1>1, <1>5 DEF RunObserve, RaiseEvent, ReceiveData, ReceiveListenOk, calls, puts, network
<1>6. ASSUME NEW c \in Device, ReceivePutResponse(c)
      PROVE  Dated'
  <2>1. /\ outstanding'[c] \subseteq outstanding[c] /\ answered'[c] \subseteq answered[c]
        /\ \A d \in Device : d # c => UNCHANGED <<outstanding[d], answered[d]>>
        /\ UNCHANGED <<committed, refused, minted, putCounter>>
    BY <1>a, <1>6 DEF ReceivePutResponse, calls
  <2> QED
    BY <1>1, <2>1
<1>7. ASSUME NEW c \in Device, AcceptPut(c) \/ RejectPut(c)
      PROVE  Dated'
  <2>1. PICK k \in Key :
            /\ NextPut(c, k)
            /\ \/ committed' = committed \cup {k} /\ UNCHANGED refused
               \/ refused' = refused \cup {k} /\ UNCHANGED committed
            /\ answered'[c] = answered[c] \cup {k}
            /\ \A d \in Device : d # c => UNCHANGED answered[d]
            /\ UNCHANGED <<minted, outstanding, putCounter>>
    BY <1>a, <1>7 DEF AcceptPut, RejectPut, calls
  <2>2. k \in minted
    BY <2>1, NextIsMine DEF Orderly, KeysOnce
  <2> QED
    BY <2>1, <2>2 DEF Dated
<1>8. ASSUME NEW c \in Device, AnswerListen(c) \/ Reconnect(c)
      PROVE  Dated'
  BY <1>a, <1>1, <1>8 DEF AnswerListen, Reconnect, RestoredPuts, calls, view, puts
<1>9. CASE RemotePut
  <2>1. PICK k \in Remote : committed' = committed \cup {k} /\ UNCHANGED <<calls, puts, trouble>>
    BY <1>9 DEF RemotePut
  <2>2. k \in minted
    BY <2>1 DEF Orderly, KeysOnce
  <2> QED
    BY <2>1, <2>2 DEF Dated, calls, puts
<1>10. CASE UNCHANGED dbVars
  BY <1>1, <1>10 DEF dbVars, client, calls, puts, network
<1> QED
  BY <1>2, <1>3, <1>4, <1>5, <1>6, <1>7, <1>8, <1>9, <1>10
  DEF Step, AppStep, DbStep, WorkerStep, ServerStep


\* The worker takes a call, and another one does not get before a third.
LEMMA PutsTaken ==
    ASSUME DbTypeOK, NEW c \in Device, NEW k, NEW l, PutsInOrder(c, k, l),
           work[c] # << >>, work'[c] = Tail(work[c])
    PROVE  /\ \A i, j \in DOMAIN work'[c] :
                 (/\ work'[c][i] = [type |-> "set", key |-> k]
                  /\ work'[c][j] = [type |-> "set", key |-> l]) => i < j
           /\ Waits(c, k)' => Waits(c, k)
           /\ Head(work[c]) = [type |-> "set", key |-> l] => ~ Waits(c, k) \/ k = l
<1> DEFINE s == work[c]
           t == work'[c]
           K == [type |-> "set", key |-> k]
           L == [type |-> "set", key |-> l]
<1>1. s \in Seq(Call) /\ s # << >> /\ t = Tail(s)
  BY DEF DbTypeOK
<1>2. \A i, j \in DOMAIN s : s[i] = K /\ s[j] = L => i < j
  BY DEF PutsInOrder
<1> HIDE DEF s, t, K, L
<1>3. /\ 1 \in DOMAIN s /\ s[1] = Head(s)
      /\ \A i \in DOMAIN s : i \in Nat /\ i # 0
      /\ \A i \in DOMAIN t : i \in Nat /\ i + 1 \in DOMAIN s /\ t[i] = s[i + 1]
  <2>1. DOMAIN s \subseteq Nat \ {0}
    BY <1>1
  <2> QED
    BY <1>1, <2>1, TailPlaces
<1>4. ASSUME NEW i \in DOMAIN t, NEW j \in DOMAIN t, t[i] = K, t[j] = L
      PROVE  i < j
  <2>1. i + 1 < j + 1
    BY <1>2, <1>3, <1>4
  <2> QED
    BY <1>3, <2>1
<1>5. Waits(c, k)' => Waits(c, k)
  BY <1>3 DEF Waits, s, t
<1>6. Head(s) = L => \A i \in DOMAIN s : s[i] # K
  <2>1. ASSUME Head(s) = L, NEW i \in DOMAIN s, s[i] = K
        PROVE  FALSE
    <3>1. i < 1 /\ i \in Nat /\ i # 0
      BY <1>2, <1>3, <2>1
    <3> QED
      BY <3>1
  <2> QED
    BY <2>1
<1> QED
  BY <1>4, <1>5, <1>6 DEF s, t, K, L, Waits

\* A call joins the end of the worker's queue; it is not the put of k.
LEMMA PutsAppended ==
    ASSUME DbTypeOK, NEW c \in Device, NEW k, NEW l, PutsInOrder(c, k, l),
           NEW x \in Call, x # [type |-> "set", key |-> k], work'[c] = Append(work[c], x)
    PROVE  /\ \A i, j \in DOMAIN work'[c] :
                 (/\ work'[c][i] = [type |-> "set", key |-> k]
                  /\ work'[c][j] = [type |-> "set", key |-> l]) => i < j
           /\ Waits(c, k)' => Waits(c, k)
<1> DEFINE s == work[c]
           t == work'[c]
           K == [type |-> "set", key |-> k]
           L == [type |-> "set", key |-> l]
<1>1. s \in Seq(Call) /\ t = Append(s, x) /\ x # K
  BY DEF DbTypeOK
<1>2. \A i, j \in DOMAIN s : s[i] = K /\ s[j] = L => i < j
  BY DEF PutsInOrder
<1> HIDE DEF s, t, K, L
<1>3. /\ Len(s) \in Nat /\ t[Len(s) + 1] = x
      /\ \A i \in DOMAIN s : i \in Nat /\ i <= Len(s) /\ t[i] = s[i]
      /\ \A i \in DOMAIN t : i \in DOMAIN s \/ i = Len(s) + 1
  BY <1>1, AppendPlaces
<1>4. \A i \in DOMAIN t : t[i] = K => i \in DOMAIN s /\ s[i] = K
  BY <1>1, <1>3
<1>5. ASSUME NEW i \in DOMAIN t, NEW j \in DOMAIN t, t[i] = K, t[j] = L
      PROVE  i < j
  <2>1. i \in DOMAIN s /\ s[i] = K
    BY <1>4, <1>5
  <2>2. CASE j \in DOMAIN s
    BY <1>2, <1>3, <1>5, <2>1, <2>2
  <2>3. CASE j = Len(s) + 1
    BY <1>3, <2>1, <2>3
  <2> QED
    BY <1>3, <2>2, <2>3
<1>6. Waits(c, k)' => Waits(c, k)
  BY <1>4 DEF Waits, s, t, K
<1> QED
  BY <1>5, <1>6 DEF s, t, K, L

\* The worker sends the put at the head of its queue under the next index.
LEMMA PutsSent ==
    ASSUME DbTypeOK, Orderly, Dated, NEW c \in Device, NEW k \in Key, NEW l \in Key, k # l,
           PutsInOrder(c, k, l), RunSet(c)
    PROVE  PutsInOrder(c, k, l)'
<1> DEFINE x == Head(work[c]).key
           o == <<putCounter[c], x>>
<1>1. /\ work[c] # << >> /\ work'[c] = Tail(work[c])
      /\ outstanding'[c] = outstanding[c] \cup {o}
      /\ Head(work[c]) = [type |-> "set", key |-> x] /\ x \in Key
      /\ o[1] = putCounter[c] /\ o[2] = x /\ putCounter[c] \in Nat
  <2>1. Head(work[c]) \in Call
    BY QueueType DEF RunSet, DbTypeOK
  <2> QED
    BY <2>1 DEF RunSet, DbTypeOK, Call
<1> HIDE DEF o
<1>2. /\ \A i, j \in DOMAIN work'[c] :
            (/\ work'[c][i] = [type |-> "set", key |-> k]
             /\ work'[c][j] = [type |-> "set", key |-> l]) => i < j
      /\ Waits(c, k)' => Waits(c, k)
      /\ x = l => ~ Waits(c, k)
  BY <1>1, PutsTaken
<1>3. x = k => ~ Waits(c, k)' /\ Waits(c, k)
  <2>1. CallsOnce(c)
    BY DEF Orderly
  <2>2. \A i \in DOMAIN work'[c] : work'[c][i] # Head(work[c])
    BY <1>1, <2>1, CallTaken
  <2>3. \E j \in DOMAIN work[c] : work[c][j] = Head(work[c])
    BY <1>1, <2>1, CallTaken
  <2> QED
    BY <1>1, <2>2, <2>3 DEF Waits
<1> HIDE DEF x
<1>4. Outgoing(c)' \subseteq Outgoing(c) \cup {x}
  BY <1>1 DEF Outgoing
<1>5. Waits(c, k)' => l \notin Outgoing(c)'
  BY <1>2, <1>4 DEF PutsInOrder
<1>6. ASSUME NEW p \in outstanding'[c], NEW q \in outstanding'[c], p[2] = k, q[2] = l
      PROVE  p[1] < q[1]
  <2>1. CASE p \in outstanding[c] /\ q \in outstanding[c]
    BY <1>6, <2>1 DEF PutsInOrder
  <2>2. CASE p \in outstanding[c] /\ q = o
    BY <1>1, <2>2 DEF Dated
  <2>3. CASE p = o /\ q \in outstanding[c]
    <3>1. x = k /\ l \in Outgoing(c)
      BY <1>1, <1>6, <2>3 DEF Outgoing
    <3> QED
      BY <1>3, <3>1 DEF PutsInOrder
  <2>4. CASE p = o /\ q = o
    BY <1>6, <2>4
  <2> QED
    BY <1>1, <2>1, <2>2, <2>3, <2>4
<1> QED
  BY <1>2, <1>5, <1>6 DEF PutsInOrder

\* The puts of one device stay in their order until the server has answered.
LEMMA PutsStayInOrder ==
    ASSUME DbTypeOK, Orderly, Dated, Step, NEW c \in Device, NEW k \in Key, NEW l \in Key,
           k # l, k \in minted, PutsInOrder(c, k, l)
    PROVE  PutsInOrder(c, k, l)'
<1>a. DOMAIN work = Device /\ DOMAIN outstanding = Device
  BY DEF DbTypeOK
<1>b. ASSUME outstanding'[c] \subseteq outstanding[c], Waits(c, k)' => Waits(c, k),
             \A i, j \in DOMAIN work'[c] :
                 (/\ work'[c][i] = [type |-> "set", key |-> k]
                  /\ work'[c][j] = [type |-> "set", key |-> l]) => i < j
      PROVE  PutsInOrder(c, k, l)'
  <2>1. Outgoing(c)' \subseteq Outgoing(c)
    BY <1>b DEF Outgoing
  <2> QED
    BY <1>b, <2>1 DEF PutsInOrder
<1>1. ASSUME UNCHANGED work[c], outstanding'[c] \subseteq outstanding[c]
      PROVE  PutsInOrder(c, k, l)'
  <2>1. Waits(c, k)' => Waits(c, k)
    BY <1>1 DEF Waits
  <2> QED
    BY <1>1, <1>b, <2>1 DEF PutsInOrder
<1>2. ASSUME NEW x \in Call, x # [type |-> "set", key |-> k],
             work'[c] = Append(work[c], x), UNCHANGED outstanding[c]
      PROVE  PutsInOrder(c, k, l)'
  BY <1>2, <1>b, PutsAppended
<1>3. CASE Observe(c)
  <2> DEFINE x == [type |-> "observe", reg |-> handles[c] + 1]
  <2>1. x \in Call
    BY <1>3 DEF Observe, DbTypeOK, Call
  <2>2. work'[c] = Append(work[c], x) /\ UNCHANGED outstanding
    BY <1>a, <1>3 DEF Observe, NewHandle, puts
  <2>3. x # [type |-> "set", key |-> k]
    OBVIOUS
  <2> HIDE DEF x
  <2> QED
    BY <1>2, <2>1, <2>2, <2>3
<1>4. ASSUME NEW y \in Key, SetValue(c, y)
      PROVE  PutsInOrder(c, k, l)'
  <2> DEFINE x == [type |-> "set", key |-> y]
  <2>1. x \in Call /\ y # k
    BY <1>4 DEF SetValue, Call
  <2>2. work'[c] = Append(work[c], x) /\ UNCHANGED outstanding
    BY <1>a, <1>4 DEF SetValue, puts
  <2>3. x # [type |-> "set", key |-> k]
    BY <2>1
  <2> HIDE DEF x
  <2> QED
    BY <1>2, <2>1, <2>2, <2>3
<1>5. ASSUME NEW e \in Device, e # c, Calling(e) \/ EndProcess(e)
      PROVE  PutsInOrder(c, k, l)'
  BY <1>a, <1>1, <1>5 DEF Calling, Observe, SetValue, EndProcess, puts
<1>6. CASE EndProcess(c)
  <2>1. work'[c] = << >> /\ outstanding'[c] = {} /\ DOMAIN << >> = {}
    BY <1>a, <1>6 DEF EndProcess
  <2>2. ~ Waits(c, k)'
    BY <2>1 DEF Waits
  <2> QED
    BY <1>b, <2>1, <2>2
<1>7. CASE RunObserve(c)
  <2>1. work[c] # << >> /\ work'[c] = Tail(work[c]) /\ UNCHANGED outstanding
    BY <1>a, <1>7 DEF RunObserve, puts
  <2> QED
    BY <1>b, <2>1, PutsTaken
<1>8. CASE RunSet(c)
  BY <1>8, PutsSent
<1>9. ASSUME NEW e \in Device, e # c, RunObserve(e) \/ RunSet(e)
      PROVE  PutsInOrder(c, k, l)'
  BY <1>a, <1>1, <1>9 DEF RunObserve, RunSet, puts
<1>10. ASSUME NEW e \in Device,
              \/ RunCallback(e) \/ RaiseEvent(e) \/ ReceiveData(e) \/ ReceiveListenOk(e)
              \/ ReceivePutResponse(e) \/ ServerStep(e) \/ Reconnect(e)
       PROVE  PutsInOrder(c, k, l)'
  <2>1. UNCHANGED work
    BY <1>10 DEF RunCallback, RaiseEvent, ReceiveData, ReceiveListenOk, ReceivePutResponse,
                 ServerStep, AnswerListen, AcceptPut, RejectPut, Reconnect, calls
  <2>2. outstanding'[c] \subseteq outstanding[c]
    BY <1>a, <1>10 DEF RunCallback, RaiseEvent, ReceiveData, ReceiveListenOk,
                 ReceivePutResponse, ServerStep, AnswerListen, AcceptPut, RejectPut,
                 Reconnect, RestoredPuts, puts
  <2> QED
    BY <1>1, <2>1, <2>2
<1>11. CASE RemotePut \/ UNCHANGED dbVars
  BY <1>1, <1>11 DEF RemotePut, dbVars, client, calls, puts
<1> QED
  BY <1>3, <1>4, <1>5, <1>6, <1>7, <1>8, <1>9, <1>10, <1>11
  DEF Step, AppStep, Calling, DbStep, WorkerStep

\* A device vouches for a child until its process ends.
LEMMA VouchedGrows ==
    ASSUME DbTypeOK, NEW d \in Device, Truthful(d), Lives(d) \/ RunCallback(d)
    PROVE  Vouched(d) \subseteq Vouched(d)'
<1>1. CASE UNCHANGED dbVars
  BY <1>1 DEF dbVars, client, puts, network, trouble, Vouched
<1>2. ASSUME NEW c \in Device, Calling(c) \/ RunCallback(c) \/ (c # d /\ EndProcess(c))
      PROVE  Vouched(d) \subseteq Vouched(d)'
  BY <1>2, CallTruth, EndTruth DEF Calling
<1>3. ASSUME NEW c \in Device, DbStep(c)
      PROVE  Vouched(d) \subseteq Vouched(d)'
  BY <1>3, WorkerTruth, WorkerTruthElsewhere, NetworkTruth DEF DbStep
<1>4. CASE RemotePut
  BY <1>4, NetworkTruth
<1> QED
  BY <1>1, <1>2, <1>3, <1>4 DEF Lives, AppStep

\* A child leaves the view of a process that lives only if the server refused it.
LEMMA ViewStays ==
    ASSUME DbTypeOK, Orderly, Settled \subseteq Settled', NEW d \in Device, Truthful(d),
           Lives(d) \/ RunCallback(d), NEW k \in View(d)
    PROVE  k \in View(d)' \cup refused'
<1>1. k \in View(d)' \cup Gone'
  BY ViewKept
<1>2. k \in Vouched(d)'
  BY VouchedGrows DEF Truthful, View, Vouched
<1>3. k \in Gone' => k \notin committed' /\ k \notin Outgoing(d)'
  BY DEF Gone, Settled, Mine
<1> QED
  BY <1>1, <1>2, <1>3 DEF Vouched, Outgoing

\* A put that waits for the worker goes on waiting, or it is in the view.
LEMMA WaitsStays ==
    ASSUME DbTypeOK, NEW d \in Device, Lives(d) \/ RunCallback(d), NEW k, Waits(d, k)
    PROVE  Waits(d, k)' \/ k \in View(d)'
<1> DEFINE s == work[d]
           t == work'[d]
           K == [type |-> "set", key |-> k]
<1>a. PICK i \in DOMAIN s : s[i] = K
  BY DEF Waits
<1>b. s \in Seq(Call) /\ DOMAIN work = Device
  BY DEF DbTypeOK
<1> HIDE DEF s, t, K
<1>1. ASSUME UNCHANGED work[d]
      PROVE  Waits(d, k)'
  BY <1>1 DEF Waits
<1>2. ASSUME NEW x \in Call, t = Append(s, x)
      PROVE  Waits(d, k)'
  <2>1. i \in DOMAIN t /\ t[i] = K
    BY <1>a, <1>b, <1>2, AppendPlaces
  <2> QED
    BY <2>1 DEF Waits, t, K
<1>3. ASSUME s # << >>, t = Tail(s), Head(s) # K
      PROVE  Waits(d, k)'
  <2>1. i # 1 /\ i - 1 \in DOMAIN t /\ t[i - 1] = K
    BY <1>a, <1>b, <1>3, TailPlaces
  <2> QED
    BY <2>1 DEF Waits, t, K
<1>4. CASE Observe(d)
  <2>1. PICK x \in Call : t = Append(s, x)
    <3>1. [type |-> "observe", reg |-> handles[d] + 1] \in Call
      BY <1>4 DEF Observe, DbTypeOK, Call
    <3> QED
      BY <1>b, <1>4, <3>1 DEF Observe, NewHandle, s, t
  <2> QED
    BY <1>2, <2>1
<1>5. ASSUME NEW y \in Key, SetValue(d, y)
      PROVE  Waits(d, k)'
  <2>1. PICK x \in Call : t = Append(s, x)
    <3>1. [type |-> "set", key |-> y] \in Call
      BY DEF Call
    <3> QED
      BY <1>b, <1>5, <3>1 DEF SetValue, s, t
  <2> QED
    BY <1>2, <2>1
<1>6. CASE RunObserve(d)
  <2>1. s # << >> /\ t = Tail(s) /\ Head(s) # K
    BY <1>b, <1>6 DEF RunObserve, s, t, K
  <2> QED
    BY <1>3, <2>1
<1>7. CASE RunSet(d)
  <2>1. s # << >> /\ t = Tail(s) /\ Head(s).key \in View(d)'
    BY <1>b, <1>7 DEF RunSet, s, t, View, DbTypeOK
  <2>2. Head(s) = K => Head(s).key = k
    BY DEF K
  <2> QED
    BY <1>3, <2>1, <2>2
<1>8. ASSUME NEW c \in Device, c # d, Calling(c) \/ EndProcess(c) \/ WorkerStep(c)
      PROVE  UNCHANGED work[d]
  BY <1>b, <1>8, WorkerElsewhere DEF Calling, Observe, SetValue, EndProcess, desk
<1>9. ASSUME NEW c \in Device, RunCallback(c)
      PROVE  UNCHANGED work[d]
  BY <1>9 DEF RunCallback, calls
<1>10. CASE RaiseEvent(d) \/ ReceiveData(d) \/ ReceiveListenOk(d) \/ ReceivePutResponse(d)
  BY <1>1, <1>10 DEF RaiseEvent, ReceiveData, ReceiveListenOk, ReceivePutResponse, calls
<1>11. ASSUME RemotePut \/ \E c \in Device : ServerStep(c) \/ Reconnect(c)
       PROVE  UNCHANGED work[d]
  BY <1>11, NetworkApart DEF desk
<1>12. CASE UNCHANGED dbVars
  BY <1>1, <1>12 DEF dbVars, client, calls
<1> QED
  BY <1>1, <1>4, <1>5, <1>6, <1>7, <1>8, <1>9, <1>10, <1>11, <1>12
  DEF Lives, AppStep, Calling, DbStep, WorkerStep

\* c puts l after k: nobody else writes l, and while c has still to send l it has
\* sent k, or is about to.
Later(c, k, l) ==
    /\ k # l /\ k \in minted /\ l \notin Remote
    /\ \A e \in Device : e # c => l \notin Mine(e)
    /\ l \in Mine(c) => Waits(c, k) \/ k \in View(c)

\* The server answers the put of l only when it has stored k.
LEMMA AcceptedInOrder ==
    ASSUME DbTypeOK, Dated, NEW c \in Device, NEW k \in Key, NEW l \in Key, Truthful(c),
           Later(c, k, l), PutsInOrder(c, k, l), k \notin refused,
           NEW e \in Device, NextPut(e, l)
    PROVE  k \in committed
<1>1. l \in Outgoing(e) /\ l \in Mine(e)
  BY NextIsMine
<1>2. e = c
  BY <1>1 DEF Later
<1>3. k \in View(c)
  BY <1>1, <1>2 DEF Later, PutsInOrder
<1>4. PICK q \in outstanding[c] :
          /\ q[2] = l
          /\ \A p \in outstanding[c] : p[1] < q[1] => p[2] \in answered[c]
  BY <1>2 DEF NextPut
<1>5. ASSUME NEW p \in outstanding[c], p[2] = k
      PROVE  k \in committed \cup refused
  <2>1. p[1] < q[1]
    BY <1>4, <1>5 DEF PutsInOrder
  <2> QED
    BY <1>4, <1>5, <2>1 DEF Dated
<1>6. k \in committed \cup refused \cup Outgoing(c)
  BY <1>3 DEF View, Truthful, Vouched, Outgoing
<1> QED
  BY <1>5, <1>6 DEF Outgoing

\* What is stored in a step is a remote key, or somebody's next put.
LEMMA StoredByPut ==
    ASSUME Step, NEW x, x \in committed', x \notin committed
    PROVE  x \in Remote \/ (x \in Key /\ \E e \in Device : NextPut(e, x))
<1>1. ASSUME NEW e \in Device, AppStep(e)
      PROVE  UNCHANGED committed
  BY <1>1 DEF AppStep, Calling, Observe, SetValue, RunCallback, EndProcess
<1>2. ASSUME NEW e \in Device, WorkerStep(e)
      PROVE  UNCHANGED committed
  BY <1>2 DEF WorkerStep, RunObserve, RunSet, RaiseEvent, ReceiveData, ReceiveListenOk,
              ReceivePutResponse
<1>3. ASSUME NEW e \in Device, AcceptPut(e)
      PROVE  x \in Key /\ NextPut(e, x)
  BY <1>3 DEF AcceptPut
<1>4. ASSUME NEW e \in Device, AnswerListen(e) \/ RejectPut(e) \/ Reconnect(e)
      PROVE  UNCHANGED committed
  BY <1>4 DEF AnswerListen, RejectPut, Reconnect
<1>5. CASE RemotePut
  BY <1>5 DEF RemotePut
<1>6. CASE UNCHANGED dbVars
  BY <1>6 DEF dbVars
<1> QED
  BY <1>1, <1>2, <1>3, <1>4, <1>5, <1>6 DEF Step, DbStep, ServerStep

\* The server stores k before l.
LEMMA StoredInOrder ==
    ASSUME DbTypeOK, Dated, Step, NEW c \in Device, NEW k \in Key, NEW l \in Key, Truthful(c),
           Later(c, k, l), PutsInOrder(c, k, l), k \notin refused,
           l \in committed => k \in committed
    PROVE  (l \in committed => k \in committed)'
<1>1. committed \subseteq committed'
  BY CommittedGrows
<1>2. ASSUME l \in committed', l \notin committed
      PROVE  k \in committed
  BY <1>2, StoredByPut, AcceptedInOrder DEF Later
<1> QED
  BY <1>1, <1>2

\* What enters the view of d is a put of its own, or in the server's data.
LEMMA ViewGains ==
    ASSUME DbTypeOK, Step, NEW d \in Device, NEW x, x \in View(d)', x \notin View(d)
    PROVE  \/ RunSet(d) /\ Head(work[d]) = [type |-> "set", key |-> x]
           \/ ReceiveData(d) /\ x \in Head(inbox[d]).keys
<1>1. ASSUME snap'[d] \subseteq snap[d], writes'[d] \subseteq writes[d]
      PROVE  FALSE
  BY <1>1 DEF View
<1>2. CASE RunSet(d)
  <2>1. Head(work[d]) \in Call /\ Head(work[d]).type = "set"
    BY <1>2, QueueType DEF RunSet, DbTypeOK
  <2>2. snap' = snap /\ writes'[d] = writes[d] \cup {Head(work[d]).key}
    BY <1>2 DEF RunSet, DbTypeOK
  <2>3. x = Head(work[d]).key
    BY <2>2 DEF View
  <2> QED
    BY <1>2, <2>1, <2>3 DEF Call
<1>3. CASE ReceiveData(d)
  <2>1. writes' = writes /\ snap'[d] = snap[d] \cup Head(inbox[d]).keys
    BY <1>3 DEF ReceiveData, DbTypeOK
  <2> QED
    BY <1>3, <2>1 DEF View
<1>4. CASE RunObserve(d) \/ RaiseEvent(d) \/ ReceiveListenOk(d) \/ ReceivePutResponse(d)
  <2>1. snap' = snap /\ writes'[d] \subseteq writes[d]
    <3>1. CASE RunObserve(d) \/ RaiseEvent(d)
      BY <3>1 DEF RunObserve, RaiseEvent, view
    <3>2. CASE ReceiveListenOk(d)
      BY <3>2 DEF ReceiveListenOk, DbTypeOK
    <3>3. CASE ReceivePutResponse(d)
      BY <3>3 DEF ReceivePutResponse, DbTypeOK
    <3> QED
      BY <1>4, <3>1, <3>2, <3>3
  <2> QED
    BY <1>1, <2>1
<1>5. ASSUME NEW e \in Device, AppStep(e)
      PROVE  FALSE
  <2>1. snap'[d] \subseteq snap[d] /\ writes'[d] \subseteq writes[d]
    BY <1>5 DEF AppStep, Calling, Observe, SetValue, RunCallback, EndProcess, view, DbTypeOK
  <2> QED
    BY <1>1, <2>1
<1>6. ASSUME NEW e \in Device, e # d, WorkerStep(e)
      PROVE  FALSE
  BY <1>1, <1>6, WorkerElsewhere DEF desk
<1>7. ASSUME RemotePut \/ \E e \in Device : ServerStep(e) \/ Reconnect(e)
      PROVE  FALSE
  BY <1>1, <1>7, NetworkApart DEF desk
<1>8. CASE UNCHANGED dbVars
  BY <1>1, <1>8 DEF dbVars, client, view
<1> QED
  BY <1>2, <1>3, <1>4, <1>5, <1>6, <1>7, <1>8 DEF Step, DbStep, WorkerStep

\* In queue q, to a worker with the children in S, l does not come before k.
InboxInOrder(S, q, k, l) ==
    \A i \in DOMAIN q : (q[i].type = "data" /\ l \in q[i].keys) => Ahead(S, q, k, i + 1)

LEMMA InboxTaken ==
    ASSUME NEW q \in Seq(Message), q # << >>, NEW S, NEW T, S \subseteq T,
           Head(q).type = "data" => Head(q).keys \subseteq T, NEW k, NEW l,
           InboxInOrder(S, q, k, l)
    PROVE  /\ InboxInOrder(T, Tail(q), k, l)
           /\ (Head(q).type = "data" /\ l \in Head(q).keys) => k \in T
<1>1. /\ 1 \in DOMAIN q /\ q[1] = Head(q)
      /\ \A i \in DOMAIN Tail(q) :
            i \in Nat /\ i + 1 \in DOMAIN q /\ Tail(q)[i] = q[i + 1]
  BY TailPlaces
<1>2. ASSUME NEW i \in DOMAIN Tail(q), Tail(q)[i].type = "data", l \in Tail(q)[i].keys
      PROVE  Ahead(T, Tail(q), k, i + 1)
  <2>1. Ahead(S, q, k, (i + 1) + 1) /\ i + 1 \in Nat
    BY <1>1, <1>2 DEF InboxInOrder
  <2> QED
    BY <2>1, AheadTail
<1>3. ASSUME Head(q).type = "data", l \in Head(q).keys
      PROVE  k \in T
  <2>1. Ahead(S, q, k, 1 + 1)
    BY <1>1, <1>3 DEF InboxInOrder
  <2>2. \A j \in DOMAIN q : j < 1 + 1 => j = 1
    OBVIOUS
  <2> QED
    BY <1>1, <2>1, <2>2 DEF Ahead
<1> QED
  BY <1>2, <1>3 DEF InboxInOrder

LEMMA InboxJoined ==
    ASSUME NEW q \in Seq(Message), NEW m \in Message, NEW S, NEW k, NEW l,
           InboxInOrder(S, q, k, l),
           (m.type = "data" /\ l \in m.keys) => k \in m.keys \/ Ahead(S, q, k, Len(q) + 1)
    PROVE  InboxInOrder(S, Append(q, m), k, l)
<1> DEFINE t == Append(q, m)
<1>1. /\ Len(q) \in Nat /\ t[Len(q) + 1] = m
      /\ \A i \in DOMAIN q : i \in Nat /\ t[i] = q[i]
      /\ \A i \in DOMAIN t : i \in DOMAIN q \/ i = Len(q) + 1
  BY AppendPlaces
<1> HIDE DEF t
<1>2. ASSUME NEW i \in DOMAIN t, t[i].type = "data", l \in t[i].keys
      PROVE  Ahead(S, t, k, i + 1)
  <2>1. CASE i \in DOMAIN q
    <3>1. Ahead(S, q, k, i + 1) /\ i + 1 \in Nat
      BY <1>1, <1>2, <2>1 DEF InboxInOrder
    <3> QED
      BY <3>1, AheadAppend DEF t
  <2>2. CASE i = Len(q) + 1
    <3>1. k \in m.keys \/ Ahead(S, q, k, Len(q) + 1)
      BY <1>1, <1>2, <2>2
    <3>2. Ahead(S, t, k, Len(q) + 2)
      BY <1>1, <1>2, <2>2, <3>1, AheadAppend DEF t
    <3>3. i + 1 = Len(q) + 2
      BY <1>1, <2>2
    <3> QED
      BY <3>2, <3>3
  <2> QED
    BY <1>1, <2>1, <2>2
<1> QED
  BY <1>2 DEF InboxInOrder, t

\* d is told of k before it is told of l.
ToldInOrder(d, k, l) ==
    /\ l \in View(d) => k \in View(d)
    /\ InboxInOrder(snap[d], inbox[d], k, l)

\* What is sent to d about x, which is stored now, comes after k if x is l.
LEMMA ToldOfStored ==
    ASSUME DbTypeOK, Orderly, NEW d \in Device, NEW k, NEW l, NEW x \in Key,
           InboxInOrder(snap[d], inbox[d], k, l), x = l => k \in committed
    PROVE  Told(d, x) \in Seq(Message) /\ InboxInOrder(snap[d], Told(d, x), k, l)
<1> DEFINE m == [type |-> "data", keys |-> {x}]
<1>1. inbox[d] \in Seq(Message) /\ m \in Message
  BY DEF DbTypeOK, Message
<1>2. CASE Serving(d) /\ x \notin committed
  <2>1. Told(d, x) = Append(inbox[d], m)
    BY <1>2 DEF Told
  <2>2. x = l => Ahead(snap[d], inbox[d], k, Len(inbox[d]) + 1)
    BY <1>2 DEF Orderly, DataFirst, InTime, Serving
  <2>3. m.type = "data" /\ (l \in m.keys => x = l)
    OBVIOUS
  <2> HIDE DEF m
  <2> QED
    BY <1>1, <2>1, <2>2, <2>3, InboxJoined
<1>3. CASE ~ (Serving(d) /\ x \notin committed)
  BY <1>1, <1>3 DEF Told
<1> QED
  BY <1>2, <1>3

\* A response that joins the inbox says nothing of the data.
LEMMA AnswerInOrder ==
    ASSUME NEW q \in Seq(Message), NEW S, NEW k, NEW l, InboxInOrder(S, q, k, l),
           NEW x \in Key, NEW ok \in BOOLEAN
    PROVE  InboxInOrder(S, Append(q, Answer(x, ok)), k, l)
<1>1. Answer(x, ok) \in Message /\ Answer(x, ok).type = "ack"
  BY DEF Answer, Message, Response
<1> QED
  BY <1>1, InboxJoined

\* While k may be told to d, l is not put before it: one step of the inbox.
LEMMA InboxStaysInOrder ==
    ASSUME DbTypeOK, Orderly, Dated, Step, NEW c \in Device, NEW d \in Device,
           NEW k \in Key, NEW l \in Key, Truthful(c), Later(c, k, l), PutsInOrder(c, k, l),
           k \notin refused, l \in committed => k \in committed, ToldInOrder(d, k, l)
    PROVE  InboxInOrder(snap[d], inbox[d], k, l)'
<1> DEFINE q == inbox[d]
           S == snap[d]
           t == inbox'[d]
           T == snap'[d]
<1>a. /\ q \in Seq(Message) /\ InboxInOrder(S, q, k, l)
      /\ DOMAIN inbox = Device /\ DOMAIN snap = Device
  BY DEF DbTypeOK, ToldInOrder
<1> SUFFICES InboxInOrder(T, t, k, l)
  BY DEF InboxInOrder, Ahead
<1> HIDE DEF q, S, t, T
<1>1. ASSUME t = q, T = S
      PROVE  InboxInOrder(T, t, k, l)
  BY <1>a, <1>1
<1>2. ASSUME t = << >>
      PROVE  InboxInOrder(T, t, k, l)
  <2>1. DOMAIN << >> = {}
    OBVIOUS
  <2> QED
    BY <1>2, <2>1 DEF InboxInOrder
<1>3. ASSUME q # << >>, t = Tail(q), T = S, Head(q).type # "data"
      PROVE  InboxInOrder(T, t, k, l)
  BY <1>a, <1>3, InboxTaken
<1>4. CASE ReceiveData(d)
  <2>1. q # << >> /\ t = Tail(q) /\ T = S \cup Head(q).keys
    BY <1>a, <1>4 DEF ReceiveData, Incoming, q, t, S, T
  <2> QED
    BY <1>a, <2>1, InboxTaken
<1>5. CASE ReceiveListenOk(d) \/ ReceivePutResponse(d)
  <2>1. q # << >> /\ t = Tail(q) /\ T = S /\ Head(q).type # "data"
    BY <1>a, <1>5 DEF ReceiveListenOk, ReceivePutResponse, Incoming, q, t, S, T
  <2> QED
    BY <1>3, <2>1
<1>6. CASE RunObserve(d) \/ RunSet(d) \/ RaiseEvent(d)
  <2>1. t = q /\ T = S
    BY <1>6 DEF RunObserve, RunSet, RaiseEvent, network, view, q, t, S, T
  <2> QED
    BY <1>1, <2>1
<1>7. ASSUME NEW e \in Device, e # d, WorkerStep(e)
      PROVE  t = q /\ T = S
  <2>1. T = S
    BY <1>7, WorkerElsewhere DEF desk, S, T
  <2>2. t = q
    BY <1>a, <1>7 DEF WorkerStep, RunObserve, RunSet, RaiseEvent, ReceiveData,
                      ReceiveListenOk, ReceivePutResponse, Incoming, network, q, t
  <2> QED
    BY <2>1, <2>2
<1>8. ASSUME NEW e \in Device, AppStep(e)
      PROVE  InboxInOrder(T, t, k, l)
  <2>1. CASE EndProcess(d)
    <3>1. t = << >>
      BY <1>a, <2>1 DEF EndProcess, t
    <3> QED
      BY <1>2, <3>1
  <2>2. CASE ~ EndProcess(d)
    <3>1. t = q /\ T = S
      BY <1>a, <1>8, <2>2 DEF AppStep, Calling, Observe, SetValue, RunCallback, EndProcess,
                              view, network, q, t, S, T
    <3> QED
      BY <1>1, <3>1
  <2> QED
    BY <2>1, <2>2
<1>9. ASSUME RemotePut \/ \E e \in Device : ServerStep(e) \/ Reconnect(e)
      PROVE  T = S
  BY <1>9, NetworkApart DEF desk, S, T
<1>10. ASSUME NEW e \in Device, AnswerListen(e)
       PROVE  InboxInOrder(T, t, k, l)
  <2> DEFINE m == [type |-> "data", keys |-> committed]
             n == [type |-> "listenOk"]
  <2>1. m \in Message /\ n \in Message /\ m.type = "data" /\ m.keys = committed
        /\ n.type # "data"
    BY DEF DbTypeOK, Message
  <2>2. t = q \/ t = q \o <<m, n>>
    BY <1>a, <1>10 DEF AnswerListen, q, t
  <2> HIDE DEF m, n
  <2>3. q \o <<m, n>> = Append(Append(q, m), n) /\ Append(q, m) \in Seq(Message)
    BY <1>a, <2>1
  <2>4. InboxInOrder(S, Append(q, m), k, l)
    BY <1>a, <2>1, InboxJoined
  <2>5. InboxInOrder(S, Append(Append(q, m), n), k, l)
    <3> PICK p : p = Append(q, m)
      OBVIOUS
    <3>1. p \in Seq(Message) /\ InboxInOrder(S, p, k, l)
      BY <2>3, <2>4
    <3> QED
      BY <2>1, <3>1, InboxJoined
  <2>6. T = S
    BY <1>9, <1>10 DEF ServerStep
  <2> QED
    BY <1>a, <2>2, <2>3, <2>5, <2>6
<1>11. ASSUME NEW e \in Device, AcceptPut(e)
       PROVE  InboxInOrder(T, t, k, l)
  <2>1. PICK x \in Key :
            /\ NextPut(e, x)
            /\ inbox' = [f \in Device |-> inbox[f] \o Pushed(e, x, f)]
    BY <1>11 DEF AcceptPut
  <2>2. x = l => k \in committed
    BY <2>1, AcceptedInOrder
  <2>3. Told(d, x) \in Seq(Message) /\ InboxInOrder(S, Told(d, x), k, l)
    BY <1>a, <2>2, ToldOfStored DEF q, S
  <2>4. t = IF e = d THEN Append(Told(d, x), Answer(x, TRUE)) ELSE Told(d, x)
    BY <2>1, PushedTold DEF t
  <2>5. InboxInOrder(S, Append(Told(d, x), Answer(x, TRUE)), k, l)
    <3> PICK p : p = Told(d, x)
      OBVIOUS
    <3>1. p \in Seq(Message) /\ InboxInOrder(S, p, k, l)
      BY <2>3
    <3> QED
      BY <3>1, AnswerInOrder
  <2>6. T = S
    BY <1>9, <1>11 DEF ServerStep
  <2> QED
    BY <2>3, <2>4, <2>5, <2>6
<1>12. ASSUME NEW e \in Device, RejectPut(e)
       PROVE  InboxInOrder(T, t, k, l)
  <2>1. PICK x \in Key : t = q \/ t = Append(q, Answer(x, FALSE))
    BY <1>a, <1>12 DEF RejectPut, q, t
  <2>2. T = S
    BY <1>9, <1>12 DEF ServerStep
  <2> QED
    BY <1>a, <2>1, <2>2, AnswerInOrder
<1>13. ASSUME NEW e \in Device, Reconnect(e)
       PROVE  InboxInOrder(T, t, k, l)
  <2>1. t = q \/ t = << >>
    BY <1>a, <1>13 DEF Reconnect, q, t
  <2> QED
    BY <1>1, <1>2, <1>9, <1>13, <2>1
<1>14. CASE RemotePut
  <2>1. PICK x \in Remote \ committed :
            inbox' = [f \in Device |->
                IF Serving(f) THEN Append(inbox[f], [type |-> "data", keys |-> {x}])
                              ELSE inbox[f]]
    BY <1>14 DEF RemotePut
  <2>2. t = Told(d, x)
    BY <2>1 DEF Told, t
  <2>3. x \in Key /\ x # l
    BY DatabaseAssumption DEF Later
  <2>4. InboxInOrder(S, Told(d, x), k, l)
    BY <1>a, <2>3, ToldOfStored DEF q, S
  <2> QED
    BY <1>9, <1>14, <2>2, <2>4
<1>15. CASE UNCHANGED dbVars
  <2>1. t = q /\ T = S
    BY <1>15 DEF dbVars, client, network, view, q, t, S, T
  <2> QED
    BY <1>1, <2>1
<1> QED
  BY <1>1, <1>4, <1>5, <1>6, <1>7, <1>8, <1>10, <1>11, <1>12, <1>13, <1>14, <1>15
  DEF Step, DbStep, WorkerStep, ServerStep

\* Every step leaves d told of k first.
LEMMA ToldStaysInOrder ==
    ASSUME DbTypeOK, Orderly, Settled \subseteq Settled', Dated, Step,
           NEW c \in Device, NEW d \in Device, NEW k \in Key, NEW l \in Key,
           Truthful(c), Truthful(d), Later(c, k, l), PutsInOrder(c, k, l),
           k \notin refused', refused \subseteq refused',
           l \in committed => k \in committed, ToldInOrder(d, k, l)
    PROVE  ToldInOrder(d, k, l)'
<1>1. InboxInOrder(snap[d], inbox[d], k, l)'
  BY InboxStaysInOrder
<1>2. CASE EndProcess(d)
  <2>1. View(d)' = {}
    BY <1>2 DEF EndProcess, View, DbTypeOK
  <2> QED
    BY <1>1, <2>1 DEF ToldInOrder
<1>3. CASE ~ EndProcess(d)
  <2>1. Lives(d) \/ RunCallback(d)
    BY <1>3, StepOfDevice
  <2>2. k \in View(d) => k \in View(d)'
    BY <2>1, ViewStays
  <2>3. CASE RunSet(d) /\ Head(work[d]) = [type |-> "set", key |-> l]
    <3>1. work[d] # << >> /\ work'[d] = Tail(work[d]) /\ work[d] \in Seq(Call)
      BY <2>3 DEF RunSet, DbTypeOK
    <3>2. Waits(d, l)
      BY <2>3, <3>1, TailPlaces DEF Waits
    <3>3. d = c /\ l \in Mine(c)
      BY <3>2 DEF Later, Mine
    <3>4. ~ Waits(c, k)
      BY <2>3, <3>1, <3>3, PutsTaken DEF Later
    <3> QED
      BY <1>1, <2>2, <3>3, <3>4 DEF Later, ToldInOrder
  <2>4. CASE ReceiveData(d) /\ l \in Head(inbox[d]).keys
    <3> DEFINE q == inbox[d]
    <3>1. /\ q \in Seq(Message) /\ q # << >> /\ Head(q).type = "data"
          /\ snap'[d] = snap[d] \cup Head(q).keys
      BY <2>4 DEF ReceiveData, Incoming, DbTypeOK
    <3>2. InboxInOrder(snap[d], q, k, l) /\ l \in Head(q).keys
      BY <2>4 DEF ToldInOrder
    <3> HIDE DEF q
    <3>3. k \in snap'[d]
      BY <3>1, <3>2, InboxTaken
    <3> QED
      BY <1>1, <3>3 DEF ToldInOrder, View
  <2>5. CASE l \in View(d) \/ l \notin View(d)'
    BY <1>1, <2>2, <2>5 DEF ToldInOrder
  <2> QED
    BY <2>3, <2>4, <2>5, ViewGains
<1> QED
  BY <1>2, <1>3

\* While a callback about k is still to come for an observer of d, none about l is
\* before it, and none has been delivered: D is what has been.
EventsInOrder(d, k, l, D) ==
    \A r \in Reg :
        /\ <<k, r>> \in raising[d] => /\ <<l, r>> \notin D
                                      /\ \A j \in Waiting(d) : Event(d, j) # <<l, r>>
        /\ \A i \in Waiting(d) : Event(d, i) = <<k, r>> =>
              /\ <<l, r>> \notin D
              /\ \A j \in Waiting(d) : Event(d, j) = <<l, r>> => i < j

\* An observer that a callback about l is for, or was, is one that has been, or may
\* be, called about k.
LEMMA AnnouncedFirst ==
    ASSUME DbTypeOK, NEW d \in Device, NEW k \in Key, NEW l \in Key, l \notin refused,
           NEW D, Served(d, D), D \subseteq Vouched(d) \X Reg, ToldInOrder(d, k, l),
           NEW r \in Reg, <<l, r>> \in D \/ \E j \in Waiting(d) : Event(d, j) = <<l, r>>
    PROVE  Announced(d, <<k, r>>)
<1>1. Announced(d, <<l, r>>)
  BY DEF Served, EventsOnce, Delivered
<1>2. l \in Vouched(d)
  <2>1. CASE <<l, r>> \in D
    BY <2>1
  <2>2. ASSUME NEW j \in Waiting(d), Event(d, j) = <<l, r>>
        PROVE  l \in Vouched(d)
    <3>1. main[d] \in Seq(TrueCallback(d)) /\ j \in DOMAIN main[d] /\ main[d][j].type = "added"
      BY DEF Served, Truthful, Waiting
    <3>2. main[d][j] \in TrueCallback(d)
      <4> HIDE DEF TrueCallback
      <4> QED
        BY <3>1
    <3>3. main[d][j].key = l
      BY <2>2 DEF Event
    <3> QED
      BY <3>1, <3>2, <3>3 DEF TrueCallback
  <2> QED
    BY <2>1, <2>2
<1>3. l \notin Gone
  BY <1>2 DEF Vouched, Gone, Settled, Mine, Outgoing
<1>4. r \in regs[d] /\ k \in View(d)
  BY <1>1, <1>3 DEF Announced, ToldInOrder
<1> QED
  BY <1>4 DEF Announced

\* Raising, dispatching and delivering leave the callbacks about k first.
LEMMA RaisedInOrder ==
    ASSUME DbTypeOK, NEW d \in Device, NEW k \in Key, NEW l \in Key, l \notin refused,
           NEW D, Served(d, D), D \subseteq Vouched(d) \X Reg, ToldInOrder(d, k, l),
           EventsInOrder(d, k, l, D), RaisesNew(d)
    PROVE  EventsInOrder(d, k, l, D)'
<1>1. \A i \in Waiting(d)' : i \in Waiting(d) /\ Event(d, i)' = Event(d, i)
  BY DEF RaisesNew, Waiting, Event
<1>2. ASSUME NEW r \in Reg, <<k, r>> \in raising'[d]
      PROVE  <<l, r>> \notin D /\ \A j \in Waiting(d) : Event(d, j) # <<l, r>>
  <2>1. ~ Announced(d, <<k, r>>)
    BY <1>2 DEF RaisesNew
  <2> QED
    BY <2>1, AnnouncedFirst
<1> QED
  BY <1>1, <1>2 DEF EventsInOrder

LEMMA JoinedInOrder ==
    ASSUME DbTypeOK, NEW d \in Device, NEW k \in Key, NEW l \in Key, NEW D,
           EventsInOrder(d, k, l, D), Joins(d)
    PROVE  EventsInOrder(d, k, l, D)'
<1>1. PICK t \in Seq(Callback) : /\ \A i \in DOMAIN t : t[i].type # "added"
                                 /\ main'[d] = main[d] \o t
  BY DEF Joins
<1> DEFINE q == main[d]
           s == main'[d]
<1>2. \A i \in DOMAIN s : \/ i \in DOMAIN q /\ s[i] = q[i]
                          \/ \E j \in DOMAIN t : s[i] = t[j]
  <2>1. q \in Seq(Callback) /\ s = q \o t
    BY <1>1 DEF DbTypeOK
  <2> HIDE DEF q, s
  <2>2. \A i \in DOMAIN s : \/ i \in DOMAIN q /\ s[i] = q[i]
                            \/ i - Len(q) \in DOMAIN t /\ s[i] = t[i - Len(q)]
    BY <2>1
  <2> QED
    BY <2>2
<1>3. \A i \in Waiting(d)' : i \in Waiting(d) /\ Event(d, i)' = Event(d, i)
  BY <1>1, <1>2 DEF Waiting, Event
<1> QED
  BY <1>3 DEF EventsInOrder, Joins

\* The worker dispatches the events in the order of their keys.
LEMMA DispatchedInOrder ==
    ASSUME DbTypeOK, NEW d \in Device, NEW k \in Key, NEW l \in Key, k < l, NEW D,
           EventsInOrder(d, k, l, D), RaiseEvent(d)
    PROVE  EventsInOrder(d, k, l, D)'
<1>1. PICK e \in raising[d] :
          /\ \A f \in raising[d] : Precedes(e, f)
          /\ raising' = [raising EXCEPT ![d] = @ \ {e}]
          /\ main' = [main EXCEPT ![d] =
                        Append(@, [type |-> "added", key |-> e[1], reg |-> e[2]])]
  BY DEF RaiseEvent
<1> DEFINE c == [type |-> "added", key |-> e[1], reg |-> e[2]]
           q == main[d]
           s == main'[d]
<1>2. e = <<e[1], e[2]>> /\ e[1] \in Key /\ e[2] \in Reg
  BY DEF DbTypeOK
<1>3. /\ c \in Callback /\ c.type = "added" /\ <<c.key, c.reg>> = e
      /\ q \in Seq(Callback) /\ s = Append(q, c)
      /\ raising'[d] = raising[d] \ {e}
  BY <1>1, <1>2 DEF DbTypeOK, Callback
<1>4. k \in Nat /\ l \in Nat
  BY DatabaseAssumption
<1>5. \A r \in Reg : <<k, r>> \in raising[d] => e # <<l, r>>
  BY <1>1, <1>4 DEF Precedes
<1> PICK n : n = Len(q)
  OBVIOUS
<1> HIDE DEF c, q, s
<1>6. /\ n \in Nat /\ s[n + 1] = c
      /\ \A i \in DOMAIN q : i \in Nat /\ i <= n /\ s[i] = q[i]
      /\ \A i \in DOMAIN s : i \in DOMAIN q \/ i = n + 1
  BY <1>3, AppendPlaces
<1>7. \A i \in Waiting(d) : i \in Nat /\ i <= n
  BY <1>6 DEF Waiting, q
<1>8. \A i \in Waiting(d)' : \/ i \in Waiting(d) /\ Event(d, i)' = Event(d, i)
                             \/ i = n + 1 /\ Event(d, i)' = e
  BY <1>3, <1>6 DEF Waiting, Event, q, s
<1> SUFFICES ASSUME NEW r \in Reg
             PROVE  /\ <<k, r>> \in raising'[d] =>
                          /\ <<l, r>> \notin D
                          /\ \A j \in Waiting(d)' : Event(d, j)' # <<l, r>>
                    /\ \A i \in Waiting(d)' : Event(d, i)' = <<k, r>> =>
                          /\ <<l, r>> \notin D
                          /\ \A j \in Waiting(d)' : Event(d, j)' = <<l, r>> => i < j
  BY DEF EventsInOrder
<1>9. ASSUME <<k, r>> \in raising'[d]
      PROVE  <<l, r>> \notin D /\ \A j \in Waiting(d)' : Event(d, j)' # <<l, r>>
  <2>1. <<k, r>> \in raising[d]
    BY <1>3, <1>9
  <2> QED
    BY <1>5, <1>8, <2>1 DEF EventsInOrder
<1>10. ASSUME NEW i \in Waiting(d)', Event(d, i)' = <<k, r>>
       PROVE  <<l, r>> \notin D /\ \A j \in Waiting(d)' : Event(d, j)' = <<l, r>> => i < j
  <2>1. CASE i \in Waiting(d) /\ Event(d, i)' = Event(d, i)
    <3>1. /\ <<l, r>> \notin D
          /\ \A j \in Waiting(d) : Event(d, j) = <<l, r>> => i < j
      BY <1>10, <2>1 DEF EventsInOrder
    <3>2. i < n + 1
      BY <1>6, <1>7, <2>1
    <3> QED
      BY <1>8, <3>1, <3>2
  <2>2. CASE i = n + 1 /\ Event(d, i)' = e
    <3>1. e = <<k, r>> /\ <<l, r>> # e
      BY <1>4, <1>10, <2>2
    <3>2. <<l, r>> \notin D /\ \A j \in Waiting(d) : Event(d, j) # <<l, r>>
      BY <3>1 DEF EventsInOrder
    <3> QED
      BY <1>8, <3>1, <3>2
  <2> QED
    BY <1>8, <2>1, <2>2
<1> QED
  BY <1>9, <1>10

\* The app takes the oldest callback: nothing about l was delivered before the one
\* about k, and that is so for those that still wait.
LEMMA DeliveredInOrder ==
    ASSUME DbTypeOK, NEW d \in Device, NEW k \in Key, NEW l \in Key, NEW D,
           EventsInOrder(d, k, l, D), RunCallback(d)
    PROVE  /\ EventsInOrder(d, k, l, D)'
           /\ \A e : (/\ Head(main[d]).type = "added"
                      /\ e = <<Head(main[d]).key, Head(main[d]).reg>>)
                 => /\ EventsInOrder(d, k, l, D \cup {e})'
                    /\ \A r \in Reg : e = <<k, r>> => <<l, r>> \notin D
<1> DEFINE q == main[d]
           s == main'[d]
<1>1. q \in Seq(Callback) /\ q # << >> /\ s = Tail(q) /\ UNCHANGED raising[d]
  BY DEF RunCallback, DbTypeOK
<1>2. /\ 1 \in DOMAIN q /\ q[1] = Head(q)
      /\ \A i \in DOMAIN s : i \in Nat /\ i # 0 /\ i + 1 \in DOMAIN q /\ s[i] = q[i + 1]
  <2> HIDE DEF q, s
  <2>1. DOMAIN s \subseteq Nat \ {0}
    BY <1>1
  <2> QED
    BY <1>1, <2>1, TailPlaces
<1>3. \A i \in Waiting(d)' : /\ i \in Nat /\ i # 0
                             /\ i + 1 \in Waiting(d) /\ Event(d, i)' = Event(d, i + 1)
  BY <1>2 DEF Waiting, Event
<1> HIDE DEF s
<1>4. ASSUME NEW r \in Reg, NEW i \in Waiting(d)', NEW j \in Waiting(d)',
             Event(d, i)' = <<k, r>>, Event(d, j)' = <<l, r>>
      PROVE  i < j
  <2>1. i + 1 < j + 1
    BY <1>3, <1>4 DEF EventsInOrder
  <2> QED
    BY <1>3, <2>1
<1>5. ASSUME NEW r \in Reg, NEW i \in Waiting(d)', Event(d, i)' = <<k, r>>
      PROVE  <<l, r>> \notin D
  BY <1>3, <1>5 DEF EventsInOrder
<1>6. ASSUME NEW r \in Reg, <<k, r>> \in raising'[d]
      PROVE  <<l, r>> \notin D /\ \A j \in Waiting(d)' : Event(d, j)' # <<l, r>>
  BY <1>1, <1>3, <1>6 DEF EventsInOrder
<1>7. EventsInOrder(d, k, l, D)'
  BY <1>4, <1>5, <1>6 DEF EventsInOrder
<1>8. ASSUME NEW e, Head(q).type = "added", e = <<Head(q).key, Head(q).reg>>
      PROVE  /\ EventsInOrder(d, k, l, D \cup {e})'
             /\ \A r \in Reg : e = <<k, r>> => <<l, r>> \notin D
  <2>1. 1 \in Waiting(d) /\ Event(d, 1) = e
    BY <1>2, <1>8 DEF Waiting, Event
  <2>2. \A r \in Reg : e = <<k, r>> => <<l, r>> \notin D
    BY <2>1 DEF EventsInOrder
  <2>3. \A r \in Reg : <<k, r>> \in raising'[d] => e # <<l, r>>
    BY <1>1, <2>1 DEF EventsInOrder
  <2>4. ASSUME NEW r \in Reg, NEW i \in Waiting(d)', Event(d, i)' = <<k, r>>, e = <<l, r>>
        PROVE  FALSE
    <3>1. i + 1 < 1
      BY <1>3, <2>1, <2>4 DEF EventsInOrder
    <3> QED
      BY <1>3, <2>4, <3>1
  <2>5. \A r \in Reg :
           /\ <<k, r>> \in raising'[d] => /\ <<l, r>> \notin D \cup {e}
                                          /\ \A j \in Waiting(d)' : Event(d, j)' # <<l, r>>
           /\ \A i \in Waiting(d)' : Event(d, i)' = <<k, r>> =>
                 /\ <<l, r>> \notin D \cup {e}
                 /\ \A j \in Waiting(d)' : Event(d, j)' = <<l, r>> => i < j
    BY <1>4, <1>5, <1>6, <2>3, <2>4
  <2> QED
    BY <2>2, <2>5 DEF EventsInOrder
<1> QED
  BY <1>7, <1>8

\* Fewer pairs have been delivered in order too; none has when the process ends.
LEMMA OrderLess ==
    ASSUME NEW d \in Device, NEW k, NEW l, NEW D, NEW E, E \subseteq D,
           EventsInOrder(d, k, l, D)'
    PROVE  EventsInOrder(d, k, l, E)'
  BY DEF EventsInOrder

LEMMA OrderEnds ==
    ASSUME DbTypeOK, NEW d \in Device, NEW k, NEW l, EndProcess(d)
    PROVE  EventsInOrder(d, k, l, {})'
<1>1. main'[d] = << >> /\ raising'[d] = {}
  BY DEF EndProcess, DbTypeOK
<1>2. DOMAIN << >> = {}
  OBVIOUS
<1> QED
  BY <1>1, <1>2 DEF EventsInOrder, Waiting

\* While the process lives and the app takes no callback, k stays first.
LEMMA EventsStayInOrder ==
    ASSUME DbTypeOK, Orderly, NEW d \in Device, Lives(d),
           NEW k \in Key, NEW l \in Key, k < l, l \notin refused,
           NEW D, Served(d, D), D \subseteq Vouched(d) \X Reg, ToldInOrder(d, k, l),
           EventsInOrder(d, k, l, D)
    PROVE  EventsInOrder(d, k, l, D)'
<1>1. RaisesNew(d) \/ RaiseEvent(d) \/ Joins(d)
  BY EventsMove DEF Served
<1> QED
  BY <1>1, RaisedInOrder, DispatchedInOrder, JoinedInOrder

\* The puts of k and l, in the order c made them, on their way to every device.
PairInOrder(c, k, l) ==
    /\ PutsInOrder(c, k, l)
    /\ l \in committed => k \in committed
    /\ \A d \in Device : ToldInOrder(d, k, l)

LEMMA PairStaysInOrder ==
    ASSUME DbTypeOK, DbTypeOK', Orderly, Dated, Step, \A d \in Device : Truthful(d),
           NEW c \in Device, NEW k \in Key, NEW l \in Key, Later(c, k, l),
           k \notin refused', PairInOrder(c, k, l)
    PROVE  PairInOrder(c, k, l)'
<1>1. refused \subseteq refused' /\ Settled \subseteq Settled'
  BY RefusedGrows, OrderlyKept
<1>2. /\ PutsInOrder(c, k, l) /\ (l \in committed => k \in committed)
      /\ \A d \in Device : ToldInOrder(d, k, l)
      /\ k # l /\ k \in minted
  BY DEF PairInOrder, Later
<1>3. PutsInOrder(c, k, l)'
  BY <1>2, PutsStayInOrder
<1>4. (l \in committed => k \in committed)'
  BY <1>1, <1>2, StoredInOrder
<1>5. ASSUME NEW d \in Device
      PROVE  ToldInOrder(d, k, l)'
  BY <1>1, <1>2, ToldStaysInOrder
<1> QED
  BY <1>3, <1>4, <1>5 DEF PairInOrder

\* What waits on d is about keys that are taken.
LEMMA VouchedIsMinted ==
    ASSUME Orderly, Dated, NEW d \in Device, Truthful(d)
    PROVE  /\ Vouched(d) \subseteq minted /\ View(d) \subseteq minted
           /\ \A i \in DOMAIN inbox[d] : inbox[d][i].type = "data" => inbox[d][i].keys \subseteq minted
           /\ \A i \in Waiting(d) : Event(d, i)[1] \in minted
<1>1. Vouched(d) \subseteq minted
  BY DEF Vouched, Outgoing, Orderly, KeysOnce, Mine, Dated
<1>2. View(d) \subseteq minted
  BY <1>1 DEF View, Truthful, Vouched
<1>3. ASSUME NEW i \in DOMAIN inbox[d], inbox[d][i].type = "data"
      PROVE  inbox[d][i].keys \subseteq minted
  <2>1. inbox[d][i] \in TrueMessage
    <3>1. inbox[d] \in Seq(TrueMessage)
      BY DEF Truthful
    <3> HIDE DEF TrueMessage
    <3> QED
      BY <3>1
  <2> QED
    BY <1>3, <2>1 DEF TrueMessage, Dated
<1>4. ASSUME NEW i \in Waiting(d)
      PROVE  Event(d, i)[1] \in minted
  <2>1. i \in DOMAIN main[d] /\ main[d][i].type = "added"
    BY DEF Waiting
  <2>2. main[d][i] \in TrueCallback(d)
    <3>1. main[d] \in Seq(TrueCallback(d))
      BY DEF Truthful
    <3> HIDE DEF TrueCallback
    <3> QED
      BY <2>1, <3>1
  <2> QED
    BY <1>1, <2>1, <2>2 DEF TrueCallback, Event
<1> QED
  BY <1>1, <1>2, <1>3, <1>4

\* A key that nobody has taken is nowhere, so nothing of it comes before k.
LEMMA FreshInOrder ==
    ASSUME Orderly, Dated, \A d \in Device : Truthful(d), NEW c \in Device,
           NEW k \in minted, NEW l \in Key, l \notin minted
    PROVE  /\ Later(c, k, l)
           /\ PairInOrder(c, k, l)
           /\ \A d \in Device : \A D \in SUBSET (Vouched(d) \X Reg) : EventsInOrder(d, k, l, D)
<1>1. Remote \subseteq minted /\ \A d \in Device : Mine(d) \subseteq minted
  BY DEF Orderly, KeysOnce
<1>2. Later(c, k, l)
  BY <1>1 DEF Later
<1>3. l \notin committed
  BY DEF Dated
<1>4. PutsInOrder(c, k, l)
  <2>1. ~ Waits(c, l) /\ l \notin Outgoing(c)
    BY <1>1 DEF Mine
  <2> QED
    BY <2>1 DEF PutsInOrder, Waits, Outgoing
<1>5. ASSUME NEW d \in Device
      PROVE  ToldInOrder(d, k, l)
  BY VouchedIsMinted DEF ToldInOrder, InboxInOrder
<1>6. ASSUME NEW d \in Device, NEW D \in SUBSET (Vouched(d) \X Reg)
      PROVE  EventsInOrder(d, k, l, D)
  <2>1. \A r \in Reg : <<l, r>> \notin D /\ \A j \in Waiting(d) : Event(d, j) # <<l, r>>
    BY VouchedIsMinted
  <2> QED
    BY <2>1 DEF EventsInOrder
<1> QED
  BY <1>2, <1>3, <1>4, <1>5, <1>6 DEF PairInOrder
=============================================================================
