--------------------------- MODULE ChatRoomProofs ---------------------------
(***************************************************************************)
(* Proofs about ChatRoom, for any devices, messages and bounds.            *)
(***************************************************************************)
EXTENDS ChatRoom, RealtimeDatabaseProofs

USE DatabaseAssumption, ChatAssumption DEF Reg, trouble

-----------------------------------------------------------------------------
(* Types.                                                                  *)

ScreenTypeOK ==
    /\ alive \in [Device -> BOOLEAN]
    /\ visit \in [Device -> 0 .. MaxVisits]
    /\ onTop \in [Device -> BOOLEAN]
    /\ appearing \in [Device -> BOOLEAN]
    /\ owner \in [Device -> Seq(Visit)]
    /\ messageArr \in [Device -> [Visit -> Seq(Key \X Reg)]]
    /\ lookups \in [Device -> [Visit -> Nat]]
    /\ userName1 \in [Device -> SUBSET Visit]
    /\ messageTextField \in [Device -> BOOLEAN]
    /\ sent \in [Device -> Seq(Sent)]

\* A controller that is on screen, or that is about to appear, has been pushed,
\* by an app that runs.
WasPushed ==
    \A d \in Device :
        (onTop[d] \/ appearing[d]) => visit[d] \in Visit /\ alive[d]

\* An update of a function of functions keeps its type.
LEMMA EntryType ==
    ASSUME NEW S, NEW T, NEW W, NEW f \in [S -> [T -> W]], NEW s \in S, NEW t, NEW w,
           t \in T => w \in W
    PROVE  [f EXCEPT ![s][t] = w] \in [S -> [T -> W]]
<1>1. [f[s] EXCEPT ![t] = w] \in [T -> W]
  OBVIOUS
<1> QED
  BY <1>1

\* Appending leaves what stands in a sequence where it is.
LEMMA AppendKeeps ==
    ASSUME NEW S, NEW s \in Seq(S), NEW x \in S
    PROVE  /\ \A i \in DOMAIN s : i \in DOMAIN Append(s, x) /\ Append(s, x)[i] = s[i]
           /\ Len(s) + 1 \in DOMAIN Append(s, x) /\ Append(s, x)[Len(s) + 1] = x
  OBVIOUS

\* What an action of the chat does to the database client.
LEMMA ScreenCalls ==
    ASSUME NEW d \in Device, MainStep(d) \/ Firestore(d) \/ UserStep(d)
    PROVE  \/ Observe(d) \/ (\E k \in Key : SetValue(d, k)) \/ RunCallback(d)
           \/ EndProcess(d) \/ UNCHANGED dbVars
  BY DEF MainStep, Firestore, UserStep, ViewDidAppear, ChildAdded, SendDone,
         UserNameLoaded, UserNameMissing, OpenChat, CancelSwipeBack, CloseChat, TypeText,
         SendMessage

\* Every step keeps the types of the database client.
LEMMA DbTypesKept ==
    ASSUME TypeOK, [Next]_vars
    PROVE  DbTypeOK'
<1>1. CASE UNCHANGED dbVars
  BY <1>1 DEF TypeOK, DbTypeOK, dbVars, client, calls, view, puts, network, callback
<1>2. ASSUME NEW d \in Device, MainStep(d) \/ Firestore(d) \/ UserStep(d)
      PROVE  DbTypeOK'
  BY <1>1, <1>2, ScreenCalls, CallTypes DEF TypeOK
<1>3. CASE Database
  BY <1>3, WorkerTypes, NetworkTypes DEF Database, DbStep, TypeOK
<1> QED
  BY <1>1, <1>2, <1>3 DEF Next, vars

\* The callback at the head of the main queue.
LEMMA HeadCallback ==
    ASSUME DbTypeOK, NEW d \in Device, RunCallback(d), Head(main[d]).type = "added"
    PROVE  Head(main[d]).key \in Key /\ Head(main[d]).reg \in Reg
<1>1. Head(main[d]) \in Callback
  BY QueueType DEF RunCallback, DbTypeOK
<1> QED
  BY <1>1 DEF Callback

\* Every step keeps the types of the screens, and the order of the stack.
LEMMA ScreenTypesKept ==
    ASSUME TypeOK, WasPushed, [Next]_vars
    PROVE  ScreenTypeOK' /\ WasPushed'
<1> DEFINE Goal == ScreenTypeOK' /\ WasPushed'
<1>a. DbTypeOK /\ ScreenTypeOK
  BY DEF TypeOK, ScreenTypeOK
<1> USE <1>a DEF ScreenTypeOK, WasPushed, Visit
<1>1. CASE UNCHANGED screens
  BY <1>1 DEF screens, stack, table, userName, compose
<1>2. ASSUME NEW d \in Device, ViewDidAppear(d)
      PROVE  Goal
  <2>1. visit[d] \in Visit
    BY <1>2 DEF ViewDidAppear
  <2>2. owner' \in [Device -> Seq(Visit)]
    BY <1>2, <2>1, QueueType DEF ViewDidAppear
  <2>3. lookups' \in [Device -> [Visit -> Nat]]
    <3>1. lookups' = [lookups EXCEPT ![d][visit[d]] = lookups[d][visit[d]] + 1]
      BY <1>2 DEF ViewDidAppear
    <3>2. lookups \in [Device -> [Visit -> Nat]]
      OBVIOUS
    <3>3. lookups[d] \in [Visit -> Nat]
      BY <3>2
    <3>4. lookups[d][visit[d]] + 1 \in Nat
      BY <2>1, <3>3
    <3> QED
      BY <3>1, <3>2, <3>4, EntryType
  <2>4. userName1' \in [Device -> SUBSET Visit]
    BY <1>2 DEF ViewDidAppear
  <2> QED
    BY <1>2, <2>2, <2>3, <2>4 DEF ViewDidAppear, compose
<1>3. ASSUME NEW d \in Device, ChildAdded(d)
      PROVE  Goal
  <2> DEFINE entry == <<Head(main[d]).key, Head(main[d]).reg>>
             v == Receiver(d, Head(main[d]).reg)
  <2>1. entry \in Key \X Reg
    BY <1>3, HeadCallback DEF ChildAdded
  <2>2. messageArr' = [messageArr EXCEPT ![d][v] = Append(messageArr[d][v], entry)]
    BY <1>3 DEF ChildAdded
  <2> HIDE DEF entry, v
  <2>3. messageArr' \in [Device -> [Visit -> Seq(Key \X Reg)]]
    <3>1. v \in Visit => Append(messageArr[d][v], entry) \in Seq(Key \X Reg)
      BY <2>1, QueueType
    <3>2. messageArr \in [Device -> [Visit -> Seq(Key \X Reg)]]
      OBVIOUS
    <3> HIDE DEF ScreenTypeOK, Visit
    <3> QED
      BY <2>2, <3>1, <3>2, EntryType, SMTT(20)
  <2> QED
    BY <1>3, <2>3 DEF ChildAdded, stack, userName, compose
<1>4. ASSUME NEW d \in Device, SendDone(d)
      PROVE  Goal
  BY <1>4, Zenon DEF SendDone, stack, table, userName
<1>5. ASSUME NEW d \in Device, UserNameLoaded(d)
      PROVE  Goal
  <2>1. PICK v \in Visit :
            /\ lookups[d][v] > 0
            /\ lookups' = [lookups EXCEPT ![d][v] = @ - 1]
            /\ userName1' = [userName1 EXCEPT ![d] = @ \cup {v}]
            /\ UNCHANGED <<dbVars, stack, table, compose>>
    BY <1>5 DEF UserNameLoaded, AwaitsName
  <2>2. lookups' \in [Device -> [Visit -> Nat]]
    <3>1. lookups' = [lookups EXCEPT ![d][v] = lookups[d][v] - 1]
      BY <2>1
    <3>2. lookups[d][v] - 1 \in Nat /\ lookups \in [Device -> [Visit -> Nat]]
      BY <2>1, SMTT(20)
    <3> QED
      BY <3>1, <3>2, EntryType
  <2>3. userName1' \in [Device -> SUBSET Visit]
    BY <2>1
  <2> QED
    BY <2>1, <2>2, <2>3 DEF stack, table, compose
<1>6. ASSUME NEW d \in Device, UserNameMissing(d)
      PROVE  Goal
  BY <1>6, QueueType DEF UserNameMissing
<1>7. ASSUME NEW d \in Device, OpenChat(d)
      PROVE  Goal
  <2>1. visit[d] + 1 \in Visit /\ visit[d] + 1 \in 0 .. MaxVisits
    BY <1>7 DEF OpenChat
  <2>2. ScreenTypeOK'
    BY <1>7, <2>1 DEF OpenChat, table, userName
  <2>3. WasPushed'
    BY <1>7, <2>1 DEF OpenChat
  <2> QED
    BY <2>2, <2>3
<1>8. ASSUME NEW d \in Device, CancelSwipeBack(d) \/ CloseChat(d)
      PROVE  Goal
  BY <1>8 DEF CancelSwipeBack, CloseChat, Chatting, table, userName, compose
<1>9. ASSUME NEW d \in Device, TypeText(d)
      PROVE  Goal
  BY <1>9 DEF TypeText, stack, table, userName
<1>10. ASSUME NEW d \in Device, SendMessage(d)
       PROVE  Goal
  <2>1. PICK k \in Key :
            sent' = [sent EXCEPT ![d] =
                        Append(@, [key |-> k, visit |-> visit[d],
                                   signed |-> visit[d] \in userName1[d]])]
    BY <1>10 DEF SendMessage
  <2> DEFINE s == [key |-> k, visit |-> visit[d], signed |-> visit[d] \in userName1[d]]
  <2>2. s \in Sent
    <3>1. visit[d] \in Visit
      BY <1>10 DEF SendMessage, Chatting
    <3>2. (visit[d] \in userName1[d]) \in BOOLEAN
      OBVIOUS
    <3> QED
      BY <3>1, <3>2, Zenon DEF Sent
  <2> HIDE DEF s
  <2>3. sent' \in [Device -> Seq(Sent)]
    BY <2>1, <2>2, QueueType DEF s
  <2> QED
    BY <1>10, <2>3 DEF SendMessage, stack, table, userName
<1> HIDE DEF Goal
<1>11. ASSUME NEW d \in Device, MainStep(d) \/ Firestore(d) \/ UserStep(d)
       PROVE  Goal
  BY <1>2, <1>3, <1>4, <1>5, <1>6, <1>7, <1>8, <1>9, <1>10, <1>11
  DEF MainStep, Firestore, UserStep
<1>12. CASE UNCHANGED vars
  BY <1>1, <1>12 DEF vars, screens
<1> QED
  BY <1>1, <1>11, <1>12 DEF Next, Database, Goal

\* The initial states have the types.
LEMMA InitTypes == Init => TypeOK /\ WasPushed
<1> SUFFICES ASSUME Init
             PROVE  TypeOK /\ WasPushed
  OBVIOUS
<1>1. DbTypeOK
  BY DbInitTypes DEF Init
<1>2. ScreenTypeOK /\ WasPushed
  BY QueueType DEF Init, ScreenTypeOK, WasPushed
<1> QED
  BY <1>1, <1>2 DEF TypeOK, ScreenTypeOK

\* The variables of the chat and of the database client keep their types, for any
\* number of devices, messages, observers and lost connections.
THEOREM TypeCorrect == Spec => []TypeOK
<1>1. Init => TypeOK /\ WasPushed
  BY InitTypes
<1>2. TypeOK /\ WasPushed /\ [Next]_vars => (TypeOK /\ WasPushed)'
  BY DbTypesKept, ScreenTypesKept DEF TypeOK, ScreenTypeOK
<1> QED
  BY <1>1, <1>2, PTL DEF Spec

-----------------------------------------------------------------------------
(* No message is lost to an observer.                                      *)

\* The client has handed out one observer for each viewDidAppear, and knows them
\* all: they are registered, or wait for the worker.
ObserversKnown ==
    \A d \in Device :
        /\ Len(owner[d]) = handles[d]
        /\ \A r \in 1 .. handles[d] : Known(d, r)

\* Message k is accounted for to observer r of d.
Accounted(d, k, r) ==
    k \in View(d) => Appended(d, k, r) \/ Underway(d, k, r) \/ Queued(d, r)

\* Device d has lost nothing.
DeviceInv(d) ==
    /\ Len(owner[d]) = handles[d]
    /\ \A r \in 1 .. handles[d] : Known(d, r)
    /\ \A k \in Key : \A r \in 1 .. handles[d] : Accounted(d, k, r)

\* What a step touches of the arrays of a device.
arrays(d) == <<owner[d], messageArr[d]>>

\* When nothing changes for a device, nothing is lost.
LEMMA DeskKept ==
    ASSUME NEW d \in Device, UNCHANGED <<desk(d), arrays(d)>>, DeviceInv(d)
    PROVE  DeviceInv(d)'
<1> USE DEF desk, arrays
<1>1. UNCHANGED <<handles[d], Len(owner[d]), View(d)>>
  BY DEF View
<1>2. ASSUME NEW r \in 1 .. handles[d]
      PROVE  Known(d, r)' /\ \A k \in Key : Accounted(d, k, r)'
  <2>1. Known(d, r) /\ \A k \in Key : Accounted(d, k, r)
    BY DEF DeviceInv
  <2>2. UNCHANGED Known(d, r)
    BY DEF Known, Queued
  <2>3. \A k \in Key : UNCHANGED Underway(d, k, r)
    BY DEF Underway, Waiting, Event
  <2>4. \A k \in Key : UNCHANGED <<Appended(d, k, r), Queued(d, r)>>
    BY DEF Appended, Queued
  <2> QED
    BY <1>1, <2>1, <2>2, <2>3, <2>4 DEF Accounted
<1> QED
  BY <1>1, <1>2 DEF DeviceInv

\* A step of the screens on device c leaves every other device alone.
LEMMA ScreensElsewhere ==
    ASSUME TypeOK, NEW c \in Device, NEW d \in Device, c # d,
           MainStep(c) \/ Firestore(c) \/ UserStep(c)
    PROVE  UNCHANGED <<desk(d), arrays(d)>>
<1> USE DEF TypeOK, DbTypeOK
<1>1. UNCHANGED desk(d)
  <2> USE DEF desk
  <2>1. CASE Observe(c)
    BY <2>1 DEF Observe, view, callback
  <2>2. CASE \E k \in Key : SetValue(c, k)
    BY <2>2 DEF SetValue, view, callback
  <2>3. CASE RunCallback(c)
    BY <2>3 DEF RunCallback, calls, view
  <2>4. CASE EndProcess(c)
    BY <2>4 DEF EndProcess
  <2>5. CASE UNCHANGED dbVars
    BY <2>5 DEF dbVars, client, calls, view, callback
  <2> QED
    BY <2>1, <2>2, <2>3, <2>4, <2>5, ScreenCalls
<1>2. UNCHANGED arrays(d)
  <2>1. \/ UNCHANGED table
        \/ \E x : owner' = [owner EXCEPT ![c] = x] /\ UNCHANGED messageArr
        \/ \E x, v : messageArr' = [messageArr EXCEPT ![c][v] = x] /\ UNCHANGED owner
        \/ /\ \E x : owner' = [owner EXCEPT ![c] = x]
           /\ \E x : messageArr' = [messageArr EXCEPT ![c] = x]
    <3>1. CASE ViewDidAppear(c)
      BY <3>1 DEF ViewDidAppear
    <3>2. CASE ChildAdded(c)
      BY <3>2 DEF ChildAdded
    <3>3. CASE UserNameMissing(c)
      BY <3>3 DEF UserNameMissing
    <3>4. CASE ~ (ViewDidAppear(c) \/ ChildAdded(c) \/ UserNameMissing(c))
      BY <3>4 DEF MainStep, Firestore, UserStep, SendDone, UserNameLoaded, OpenChat,
                  CancelSwipeBack, CloseChat, TypeText, SendMessage
    <3> QED
      BY <3>1, <3>2, <3>3, <3>4
  <2> QED
    BY <2>1 DEF arrays, table
<1> QED
  BY <1>1, <1>2

\* viewDidAppear: the new observer waits for the worker; the others keep their
\* places, and their controllers.
LEMMA AppearAccounts ==
    ASSUME TypeOK, WasPushed, NEW d \in Device, ViewDidAppear(d), DeviceInv(d)
    PROVE  DeviceInv(d)'
<1>a. PICK n : n = handles[d]
  OBVIOUS
<1> DEFINE call == [type |-> "observe", reg |-> n + 1]
           s == owner[d]
           w == work[d]
<1>1. /\ work'[d] = Append(w, call)
      /\ handles'[d] = n + 1
      /\ owner'[d] = Append(s, visit[d])
      /\ UNCHANGED <<messageArr, regs, snap, writes, raising, main>>
  BY <1>a DEF ViewDidAppear, Observe, NewHandle, TypeOK, DbTypeOK, view, callback
<1>2. /\ call \in Call /\ w \in Seq(Call) /\ n \in Nat
      /\ s \in Seq(Visit) /\ visit[d] \in Visit /\ Len(s) = n
  BY <1>a DEF ViewDidAppear, Observe, TypeOK, DbTypeOK, Call, WasPushed, DeviceInv
<1> HIDE DEF call, s, w
<1>3. /\ Len(work'[d]) = Len(w) + 1
      /\ work'[d][Len(w) + 1] = call
      /\ \A i \in DOMAIN w : i \in DOMAIN work'[d] /\ work'[d][i] = w[i]
  BY <1>1, <1>2
<1>4. /\ Len(owner'[d]) = n + 1
      /\ \A r \in 1 .. n : owner'[d][r] = s[r]
  BY <1>1, <1>2
<1>5. Len(work'[d]) \in DOMAIN work'[d]
  BY <1>1, <1>2
<1>6. Queued(d, n + 1)'
  BY <1>1, <1>3, <1>5 DEF Queued, call
<1>7. ASSUME NEW r \in 1 .. n
      PROVE  /\ Known(d, r)'
             /\ \A k \in Key : Accounted(d, k, r)'
  <2>1. Queued(d, r) => Queued(d, r)'
    BY <1>3 DEF Queued, w
  <2>2. Known(d, r) /\ \A k \in Key : Accounted(d, k, r)
    BY <1>a DEF DeviceInv
  <2>3. \A k \in Key : Appended(d, k, r) => Appended(d, k, r)'
    BY <1>1, <1>4 DEF Appended, s
  <2> QED
    BY <1>1, <2>1, <2>2, <2>3 DEF Known, Accounted, View, Underway, Waiting, Event
<1>8. Known(d, n + 1)' /\ \A k \in Key : Accounted(d, k, n + 1)'
  BY <1>6 DEF Known, Accounted
<1>9. \A r \in 1 .. handles'[d] : r \in 1 .. n \/ r = n + 1
  BY <1>1, <1>2
<1> QED
  BY <1>1, <1>4, <1>7, <1>8, <1>9 DEF DeviceInv

\* A callback leaves the main queue for the array of the controller that made its
\* observer.
LEMMA CallbackAccounts ==
    ASSUME TypeOK, NEW d \in Device, ChildAdded(d) \/ SendDone(d), DeviceInv(d)
    PROVE  DeviceInv(d)'
<1> DEFINE c == Head(main[d])
<1>1. /\ main[d] # << >> /\ main[d] \in Seq(Callback)
      /\ main'[d] = Tail(main[d])
      /\ UNCHANGED <<handles, work, regs, snap, writes, raising, owner>>
  BY DEF ChildAdded, SendDone, RunCallback, TypeOK, DbTypeOK, calls, view, table
<1>2. SUFFICES ASSUME NEW k \in Key, NEW r \in 1 .. handles[d], Accounted(d, k, r)
               PROVE  Accounted(d, k, r)'
  BY <1>1 DEF DeviceInv, Known, Queued
<1> DEFINE v == owner[d][r]
           entry == <<c.key, c.reg>>
<1>3. v \in Visit
  <2>1. owner[d] \in Seq(Visit) /\ Len(owner[d]) = handles[d]
    BY DEF TypeOK, DeviceInv
  <2> QED
    BY <2>1
<1>4. messageArr[d][v] \in Seq(Key \X Reg) /\ messageArr[d] \in [Visit -> Seq(Key \X Reg)]
  BY <1>3 DEF TypeOK
<1>5. \/ messageArr'[d][v] = messageArr[d][v]
      \/ entry \in Key \X Reg /\ messageArr'[d][v] = Append(messageArr[d][v], entry)
  <2>1. CASE UNCHANGED messageArr
    BY <2>1
  <2>2. CASE ChildAdded(d)
    <3>1. messageArr' = [messageArr EXCEPT
              ![d][owner[d][c.reg]] = Append(messageArr[d][owner[d][c.reg]], entry)]
      BY <2>2 DEF ChildAdded, Receiver
    <3>2. entry \in Key \X Reg
      BY <2>2, HeadCallback DEF ChildAdded, TypeOK
    <3>3. DOMAIN messageArr = Device
      BY DEF TypeOK
    <3> HIDE DEF entry, c
    <3> QED
      BY <1>3, <1>4, <3>1, <3>2, <3>3
  <2> QED
    BY <2>1, <2>2 DEF SendDone, table
<1>6. (c.type = "added" /\ entry = <<k, r>>) => Appended(d, k, r)'
  <2>1. SUFFICES ASSUME c.type = "added", entry = <<k, r>>
                 PROVE  Appended(d, k, r)'
    OBVIOUS
  <2>2. ChildAdded(d)
    BY <2>1 DEF SendDone
  <2>3. c.reg = r
    BY <2>1
  <2>4. /\ entry \in Key \X Reg
        /\ messageArr'[d][v] = Append(messageArr[d][v], entry)
    <3>1. messageArr' = [messageArr EXCEPT ![d][v] = Append(messageArr[d][v], entry)]
      BY <2>2, <2>3 DEF ChildAdded, Receiver
    <3>2. entry \in Key \X Reg
      BY <2>2, HeadCallback DEF ChildAdded, TypeOK
    <3>3. DOMAIN messageArr = Device
      BY DEF TypeOK
    <3> HIDE DEF entry, c
    <3> QED
      BY <1>3, <1>4, <3>1, <3>2, <3>3
  <2> HIDE DEF entry, v
  <2>5. LET n == Len(messageArr[d][v]) + 1
        IN  n \in DOMAIN messageArr'[d][v] /\ messageArr'[d][v][n] = entry
    BY <1>4, <2>4
  <2> QED
    BY <1>1, <2>1, <2>5 DEF Appended, v
<1>7. Appended(d, k, r) => Appended(d, k, r)'
  <2> DEFINE a == messageArr[d][v]
             b == messageArr'[d][v]
  <2> HIDE DEF entry, v, a, b
  <2>1. \A i \in DOMAIN a : i \in DOMAIN b /\ b[i] = a[i]
    <3>1. a \in Seq(Key \X Reg) /\ (b = a \/ (entry \in Key \X Reg /\ b = Append(a, entry)))
      BY <1>4, <1>5 DEF a, b
    <3>2. CASE b = a
      BY <3>2
    <3>3. CASE entry \in Key \X Reg /\ b = Append(a, entry)
      BY <3>1, <3>3, AppendKeeps
    <3> QED
      BY <3>1, <3>2, <3>3
  <2> QED
    BY <1>1, <2>1 DEF Appended, v, a, b
<1>8. (\E i \in Waiting(d) : Event(d, i) = <<k, r>>)
          => \/ (c.type = "added" /\ entry = <<k, r>>)
             \/ (\E i \in Waiting(d) : Event(d, i) = <<k, r>>)'
  <2>1. SUFFICES ASSUME NEW i \in 1 .. Len(main[d]),
                        main[d][i].type = "added", <<main[d][i].key, main[d][i].reg>> = <<k, r>>,
                        i # 1
                 PROVE  (\E j \in Waiting(d) : Event(d, j) = <<k, r>>)'
    BY <1>1 DEF Waiting, Event
  <2>2. i - 1 \in DOMAIN main'[d] /\ main'[d][i - 1] = main[d][i]
    BY <1>1, <2>1
  <2> QED
    BY <1>1, <2>1, <2>2 DEF Waiting, Event
<1>9. (Queued(d, r) => Queued(d, r)') /\ View(d)' = View(d)
      /\ (<<k, r>> \in raising[d] => <<k, r>> \in raising'[d])
  BY <1>1 DEF Queued, View
<1> HIDE DEF c, v, entry
<1> QED
  BY <1>2, <1>6, <1>7, <1>8, <1>9 DEF Accounted, Underway

\* A step of the worker.
LEMMA WorkerAccounts ==
    ASSUME TypeOK, NEW d \in Device, WorkerStep(d), UNCHANGED table, DeviceInv(d)
    PROVE  DeviceInv(d)'
<1>1. DbTypeOK /\ handles[d] \in 0 .. MaxHandles
  BY DEF TypeOK, DbTypeOK
<1>2. UNCHANGED handles
  BY DEF WorkerStep, RunObserve, RunSet, RaiseEvent, ReceiveData, ReceiveListenOk,
         ReceivePutResponse, calls
<1>3. ASSUME NEW k \in Key, NEW r \in 1 .. handles[d]
      PROVE  Known(d, r)' /\ Accounted(d, k, r)'
  <2>1. Known(d, r) /\ Accounted(d, k, r) /\ r \in Reg
    BY <1>1 DEF DeviceInv
  <2>2. /\ Known(d, r)'
        /\ Underway(d, k, r) => Underway(d, k, r)'
        /\ k \in View(d)' => k \in View(d) \/ Underway(d, k, r)' \/ Queued(d, r)'
        /\ (k \in View(d)' /\ Queued(d, r)) => Queued(d, r)' \/ Underway(d, k, r)'
    BY <1>1, <2>1, WorkerDelivers
  <2>3. Appended(d, k, r) => Appended(d, k, r)'
    BY DEF Appended, table
  <2> QED
    BY <2>1, <2>2, <2>3 DEF Accounted
<1>4. Len(owner'[d]) = handles'[d]
  BY <1>2 DEF DeviceInv, table
<1> QED
  BY <1>2, <1>3, <1>4 DEF DeviceInv

\* Every step, seen from one device.
LEMMA StepAccounts ==
    ASSUME TypeOK, WasPushed, [Next]_vars, NEW d \in Device, DeviceInv(d)
    PROVE  DeviceInv(d)'
<1>a. DbTypeOK
  BY DEF TypeOK
<1>1. CASE ViewDidAppear(d)
  BY <1>1, AppearAccounts
<1>2. CASE ChildAdded(d) \/ SendDone(d)
  BY <1>2, CallbackAccounts
<1>3. CASE UserNameMissing(d)
  <2>1. handles'[d] = 0 /\ owner'[d] = << >>
    BY <1>3 DEF UserNameMissing, EndProcess, TypeOK, DbTypeOK
  <2> QED
    BY <2>1 DEF DeviceInv
<1>4. CASE SendMessage(d)
  <2>1. PICK j \in Key : SetValue(d, j)
    BY <1>4 DEF SendMessage
  <2>2. UNCHANGED <<handles, regs, snap, writes, raising, main, owner, messageArr>>
    BY <1>4, <2>1 DEF SendMessage, SetValue, table, view, callback
  <2> DEFINE call == [type |-> "set", key |-> j]
  <2>3. call \in Call /\ work[d] \in Seq(Call)
    BY DEF TypeOK, DbTypeOK, Call
  <2>4. work'[d] = Append(work[d], call)
    BY <2>1 DEF SetValue, TypeOK, DbTypeOK
  <2> HIDE DEF call
  <2>5. \A i \in DOMAIN work[d] : i \in DOMAIN work'[d] /\ work'[d][i] = work[d][i]
    BY <2>3, <2>4
  <2>6. \A r \in Reg : Queued(d, r) => Queued(d, r)'
    BY <2>5 DEF Queued
  <2>7. \A r \in 1 .. handles[d] : r \in Reg
    BY DEF TypeOK, DbTypeOK
  <2> QED
    BY <2>2, <2>6, <2>7
    DEF DeviceInv, Known, Accounted, View, Appended, Underway, Waiting, Event
<1>5. CASE \/ OpenChat(d) \/ CancelSwipeBack(d) \/ CloseChat(d) \/ TypeText(d)
           \/ UserNameLoaded(d) \/ UNCHANGED vars
  <2>1. UNCHANGED <<dbVars, table>>
    BY <1>5 DEF OpenChat, CancelSwipeBack, CloseChat, TypeText, UserNameLoaded, vars
  <2> QED
    BY <2>1, DeskKept DEF dbVars, client, calls, view, callback, table, desk, arrays
<1>6. ASSUME NEW c \in Device, c # d, MainStep(c) \/ Firestore(c) \/ UserStep(c)
      PROVE  DeviceInv(d)'
  BY <1>6, ScreensElsewhere, DeskKept
<1>7. CASE Database
  <2>1. UNCHANGED table
    BY <1>7 DEF Database, screens
  <2>2. CASE WorkerStep(d)
    BY <2>1, <2>2, WorkerAccounts
  <2>3. ASSUME NEW c \in Device, c # d, WorkerStep(c)
        PROVE  DeviceInv(d)'
    BY <1>a, <2>1, <2>3, WorkerElsewhere, DeskKept DEF table, arrays
  <2>4. CASE RemotePut \/ \E c \in Device : ServerStep(c) \/ Reconnect(c)
    BY <2>1, <2>4, NetworkApart, DeskKept DEF table, arrays
  <2> QED
    BY <1>7, <2>2, <2>3, <2>4 DEF Database, DbStep
<1> QED
  BY <1>1, <1>2, <1>3, <1>4, <1>5, <1>6, <1>7 DEF Next, MainStep, Firestore, UserStep

\* The inductive invariant behind NoLostMessage.
IInv ==
    /\ TypeOK
    /\ WasPushed
    /\ ObserversKnown
    /\ NoLostMessage

\* It is the types and what each device keeps.
LEMMA Devices ==
    ASSUME TypeOK
    PROVE  (ObserversKnown /\ NoLostMessage) <=> \A d \in Device : DeviceInv(d)
<1>1. \A d \in Device : View(d) \subseteq Key
  BY DEF TypeOK, DbTypeOK, View
<1> QED
  BY <1>1 DEF ObserversKnown, NoLostMessage, DeviceInv, Accounted

LEMMA InitDevices == Init => IInv
<1>1. Init => \A d \in Device : DeviceInv(d)
  BY DEF Init, DbInit, DeviceInv
<1> QED
  BY <1>1, InitTypes, Devices DEF IInv

LEMMA DevicesKept ==
    ASSUME IInv, [Next]_vars
    PROVE  IInv'
<1>1. TypeOK' /\ WasPushed'
  BY DbTypesKept, ScreenTypesKept DEF IInv, TypeOK, ScreenTypeOK
<1>2. \A d \in Device : DeviceInv(d)'
  BY StepAccounts, Devices DEF IInv
<1>3. ObserversKnown' /\ NoLostMessage'
  <2>1. \A d \in Device : View(d)' \subseteq Key
    BY <1>1 DEF TypeOK, DbTypeOK, View
  <2> QED
    BY <1>2, <2>1 DEF ObserversKnown, NoLostMessage, DeviceInv, Accounted
<1> QED
  BY <1>1, <1>3 DEF IInv

\* Whenever a chat was opened, whatever is on screen now, and in whatever order
\* local writes, server data, reconnections and callbacks come, each observer of
\* the device is told of every message of the device's view, and its controller
\* appends it.
THEOREM NothingLost == Spec => []NoLostMessage
<1>1. IInv /\ [Next]_vars => IInv'
  BY DevicesKept
<1>2. IInv => NoLostMessage
  BY DEF IInv
<1> QED
  BY <1>1, <1>2, InitDevices, PTL DEF Spec

-----------------------------------------------------------------------------
(* What a screen shows, the server knows or will be sent.                  *)

\* Everything that waits on the devices is true, and every message on a screen of
\* d is one that the server has stored or refused, or that d will send again.
ScreensTruthful ==
    \A d \in Device :
        /\ Truthful(d)
        /\ \A v \in Visit : messageArr[d][v] \in Seq(Vouched(d) \X Reg)

\* The messages on a device's screens stay vouched for.
LEMMA ShownStays ==
    ASSUME NEW d \in Device, Vouched(d) \subseteq Vouched(d)', NEW v \in Visit,
           messageArr[d][v] \in Seq(Vouched(d) \X Reg)
    PROVE  messageArr[d][v] \in Seq(Vouched(d) \X Reg)'
<1>1. Vouched(d) \X Reg \subseteq (Vouched(d) \X Reg)'
  OBVIOUS
<1> QED
  BY <1>1, QueueGrows

\* Every step keeps the devices truthful; only the end of the device's own process
\* makes it forget what it has not sent.
LEMMA DevicesTruthful ==
    ASSUME TypeOK, [Next]_vars, NEW d \in Device, Truthful(d)
    PROVE  Truthful(d)' /\ (~ UserNameMissing(d) => Vouched(d) \subseteq Vouched(d)')
<1>1. DbTypeOK
  BY DEF TypeOK
<1>2. CASE UNCHANGED dbVars
  <2>1. UNCHANGED <<committed, refused, told(d), Vouched(d)>>
    BY <1>2 DEF dbVars, client, calls, view, puts, network, callback, told, Vouched
  <2> QED
    BY <2>1, TruthStays
<1>3. ASSUME NEW c \in Device, MainStep(c) \/ Firestore(c) \/ UserStep(c)
      PROVE  Truthful(d)' /\ (~ UserNameMissing(d) => Vouched(d) \subseteq Vouched(d)')
  <2>1. CASE UserNameMissing(c)
    BY <1>1, <2>1, EndTruth DEF UserNameMissing
  <2>2. CASE ~ UserNameMissing(c)
    <3>1. \/ Observe(c) \/ (\E k \in Key : SetValue(c, k)) \/ RunCallback(c)
          \/ UNCHANGED dbVars
      BY <1>3, <2>2
      DEF MainStep, Firestore, UserStep, ViewDidAppear, ChildAdded, SendDone,
          UserNameLoaded, OpenChat, CancelSwipeBack, CloseChat, TypeText, SendMessage
    <3> QED
      BY <1>1, <1>2, <3>1, CallTruth
  <2> QED
    BY <2>1, <2>2
<1>4. CASE Database
  BY <1>1, <1>4, WorkerTruth, WorkerTruthElsewhere, NetworkTruth DEF Database, DbStep
<1> QED
  BY <1>2, <1>3, <1>4 DEF Next, vars

\* Every step keeps the screens truthful.
LEMMA TruthOfScreens ==
    ASSUME TypeOK, [Next]_vars, ScreensTruthful
    PROVE  ScreensTruthful'
<1>1. SUFFICES ASSUME NEW d \in Device, NEW v \in Visit
               PROVE  Truthful(d)' /\ messageArr'[d][v] \in Seq(Vouched(d) \X Reg)'
  BY DevicesTruthful DEF ScreensTruthful
<1>2. Truthful(d) /\ messageArr[d][v] \in Seq(Vouched(d) \X Reg)
  BY DEF ScreensTruthful
<1>3. Truthful(d)'
  BY <1>2, DevicesTruthful
<1>4. CASE UserNameMissing(d)
  <2>1. messageArr'[d][v] = << >>
    BY <1>4 DEF UserNameMissing, TypeOK
  <2> QED
    BY <1>3, <2>1, QueueType
<1>5. CASE ~ UserNameMissing(d)
  <2>1. Vouched(d) \subseteq Vouched(d)'
    BY <1>2, <1>5, DevicesTruthful
  <2>2. messageArr[d][v] \in Seq(Vouched(d) \X Reg)'
    BY <1>2, <2>1, ShownStays
  <2>3. CASE ChildAdded(d)
    <3> DEFINE c == Head(main[d])
               entry == <<c.key, c.reg>>
    <3>1. messageArr' = [messageArr EXCEPT
              ![d][owner[d][c.reg]] = Append(messageArr[d][owner[d][c.reg]], entry)]
      BY <2>3 DEF ChildAdded, Receiver
    <3>2. c \in TrueCallback(d) /\ c.type = "added" /\ c.reg \in Reg
      BY <1>2, <2>3, QueueType, HeadCallback DEF ChildAdded, RunCallback, Truthful, TypeOK
    <3>3. entry \in (Vouched(d) \X Reg)'
      BY <2>1, <3>2 DEF TrueCallback
    <3> HIDE DEF c, entry
    <3>4. messageArr'[d][v] = messageArr[d][v]
          \/ messageArr'[d][v] = Append(messageArr[d][v], entry)
      BY <3>1 DEF TypeOK
    <3> QED
      BY <1>3, <2>2, <3>3, <3>4, QueueType
  <2>4. CASE ~ ChildAdded(d)
    <3>1. UNCHANGED messageArr[d][v]
      <4>1. ASSUME NEW c \in Device, c # d, MainStep(c) \/ Firestore(c) \/ UserStep(c)
            PROVE  UNCHANGED messageArr[d][v]
        BY <4>1, ScreensElsewhere DEF arrays
      <4>2. CASE MainStep(d) \/ Firestore(d) \/ UserStep(d) \/ Database \/ UNCHANGED vars
        BY <1>5, <2>4, <4>2
        DEF MainStep, Firestore, UserStep, ViewDidAppear, SendDone, UserNameLoaded,
            OpenChat, CancelSwipeBack, CloseChat, TypeText, SendMessage, Database,
            screens, vars, table
      <4> QED
        BY <4>1, <4>2 DEF Next
    <3> QED
      BY <1>3, <2>2, <3>1
  <2> QED
    BY <2>3, <2>4
<1> QED
  BY <1>4, <1>5

\* In every reachable state the screens are truthful.
LEMMA AlwaysTruthful == Spec => [](TypeOK /\ WasPushed /\ ScreensTruthful)
<1>1. Init => ScreensTruthful
  <2>1. ASSUME Init, NEW d \in Device
        PROVE  /\ Truthful(d)
               /\ \A v \in Visit : messageArr[d][v] \in Seq(Vouched(d) \X Reg)
    BY <2>1, InitTruth, QueueType DEF Init
  <2> QED
    BY <2>1 DEF ScreensTruthful
<1>2. Init => TypeOK /\ WasPushed /\ ScreensTruthful
  BY <1>1, InitTypes
<1>3. TypeOK /\ WasPushed /\ ScreensTruthful /\ [Next]_vars
          => (TypeOK /\ WasPushed /\ ScreensTruthful)'
  BY DbTypesKept, ScreenTypesKept, TruthOfScreens DEF TypeOK, ScreenTypeOK
<1> QED
  BY <1>2, <1>3, PTL DEF Spec

\* A message that some screen shows is one that the server has stored or refused,
\* or one that the screen's device will send again: neither a lost connection nor
\* a listen that is answered late leaves a message shown and forgotten.
THEOREM ShownIsKept == Spec => []ShownIsStoredOrPending
<1>1. TypeOK /\ ScreensTruthful => ShownIsStoredOrPending
  <2> SUFFICES ASSUME TypeOK, ScreensTruthful, NEW d \in Device, NEW v \in Visit,
                      NEW i \in DOMAIN messageArr[d][v],
                      NEW k, k = messageArr[d][v][i][1]
               PROVE  k \in committed \cup refused \/ \E p \in outstanding[d] : p[2] = k
    BY DEF ShownIsStoredOrPending
  <2>1. messageArr[d][v][i] \in Vouched(d) \X Reg
    <3>1. messageArr[d][v] \in Seq(Vouched(d) \X Reg)
      BY DEF ScreensTruthful
    <3> QED
      BY <3>1
  <2>2. k \in Vouched(d)
    BY <2>1
  <2> QED
    BY <2>2 DEF Vouched
<1> QED
  BY <1>1, AlwaysTruthful, PTL

\* The field is emptied under the user's eyes only when the server has stored a
\* message of this very screen.
THEOREM FieldKept == Spec => ClearedOnlyWhenStored
<1> DEFINE Kept(d) ==
        (/\ messageTextField[d] /\ ~ messageTextField'[d]
         /\ visit'[d] = visit[d] /\ alive'[d]) =>
            \E i \in DOMAIN sent[d] : /\ sent[d][i].visit = visit[d]
                                      /\ sent[d][i].key \in committed
<1>1. ASSUME TypeOK, ScreensTruthful, [Next]_vars, NEW d \in Device,
             messageTextField[d], ~ messageTextField'[d], visit'[d] = visit[d], alive'[d]
      PROVE  \E i \in DOMAIN sent[d] : /\ sent[d][i].visit = visit[d]
                                       /\ sent[d][i].key \in committed
  <2> USE <1>1
  <2>1. SendDone(d)
    <3>1. ASSUME NEW c \in Device, MainStep(c) \/ Firestore(c) \/ UserStep(c)
          PROVE  SendDone(d)
      <4> USE DEF TypeOK
      <4>1. CASE OpenChat(c)
        <5>1. c = d
          BY <4>1 DEF OpenChat
        <5>2. visit'[d] = visit[d] + 1 /\ visit[d] \in Nat
          BY <4>1, <5>1 DEF OpenChat
        <5> QED
          BY <5>2
      <4>2. CASE UserNameMissing(c)
        BY <4>2 DEF UserNameMissing
      <4>3. CASE SendDone(c)
        <5>1. c = d
          BY <4>3 DEF SendDone
        <5> QED
          BY <4>3, <5>1
      <4>4. CASE TypeText(c)
        BY <4>4 DEF TypeText
      <4> QED
        BY <3>1, <4>1, <4>2, <4>3, <4>4
        DEF MainStep, Firestore, UserStep, ViewDidAppear, ChildAdded, UserNameLoaded,
            CancelSwipeBack, CloseChat, SendMessage, compose
    <3>2. CASE Database \/ UNCHANGED vars
      BY <3>2 DEF Database, screens, vars, compose
    <3> QED
      BY <3>1, <3>2 DEF Next
  <2> DEFINE c == Head(main[d])
  <2>2. c.type = "done" /\ main[d] # << >> /\ ClearsField(d, c)
    BY <2>1 DEF SendDone, RunCallback, TypeOK
  <2>3. c \in TrueCallback(d)
    BY <2>2, QueueType DEF ScreensTruthful, Truthful
  <2>4. c.key \in committed
    BY <2>2, <2>3 DEF TrueCallback, ClearsField
  <2> QED
    BY <2>2, <2>4 DEF ClearsField
<1>2. TypeOK /\ ScreensTruthful /\ [Next]_vars => [\A d \in Device : Kept(d)]_vars
  BY <1>1
<1> QED
  BY <1>2, AlwaysTruthful, PTL DEF Spec, ClearedOnlyWhenStored

-----------------------------------------------------------------------------
(* A screen that has signed a message goes on signing.                     *)

\* A controller that has signed a message has the user's name, until the process
\* ends; and it has signed everything since.
NamesStay(d) ==
    /\ \A m \in DOMAIN sent[d] :
          (alive[d] /\ sent[d][m].signed) => sent[d][m].visit \in userName1[d]
    /\ \A m, n \in DOMAIN sent[d] :
          (m < n /\ sent[d][m].visit = sent[d][n].visit /\ sent[d][m].signed)
              => sent[d][n].signed

\* Every step keeps the names.
LEMMA NamesKept ==
    ASSUME TypeOK, WasPushed, [Next]_vars, NEW d \in Device, NamesStay(d)
    PROVE  NamesStay(d)'
<1>a. /\ DOMAIN sent = Device /\ DOMAIN alive = Device /\ DOMAIN userName1 = Device
      /\ sent[d] \in Seq(Sent)
  BY DEF TypeOK
<1>1. ASSUME /\ UNCHANGED <<sent[d], alive[d]>>
             /\ userName1[d] \subseteq userName1'[d]
      PROVE  NamesStay(d)'
  BY <1>1 DEF NamesStay
<1>2. CASE UserNameMissing(d)
  <2>1. ~ alive'[d] /\ sent' = sent
    BY <1>a, <1>2 DEF UserNameMissing
  <2> QED
    BY <2>1 DEF NamesStay
<1>3. CASE SendMessage(d)
  <2>1. PICK k \in Key :
            sent' = [sent EXCEPT ![d] =
                        Append(@, [key |-> k, visit |-> visit[d],
                                   signed |-> visit[d] \in userName1[d]])]
    BY <1>3 DEF SendMessage
  <2> DEFINE s == [key |-> k, visit |-> visit[d], signed |-> visit[d] \in userName1[d]]
             q == sent[d]
             l == Len(q)
  <2>2. s.visit = visit[d] /\ (s.signed <=> visit[d] \in userName1[d])
    OBVIOUS
  <2>3. s \in Sent
    <3>1. visit[d] \in Visit
      BY <1>3 DEF SendMessage, Chatting, WasPushed
    <3>2. (visit[d] \in userName1[d]) \in BOOLEAN
      OBVIOUS
    <3> QED
      BY <3>1, <3>2, Zenon DEF Sent
  <2>4. sent'[d] = Append(q, s) /\ UNCHANGED <<alive, userName1>> /\ alive[d]
    <3>1. alive[d]
      BY <1>3 DEF SendMessage, Chatting, WasPushed
    <3>2. sent'[d] = Append(q, s)
      BY <1>a, <2>1
    <3> QED
      BY <1>3, <3>1, <3>2 DEF SendMessage, stack, userName
  <2> HIDE DEF s
  <2>5. /\ l \in Nat /\ DOMAIN q = 1 .. l /\ DOMAIN sent'[d] = 1 .. l + 1
        /\ \A i \in 1 .. l : sent'[d][i] = q[i]
        /\ sent'[d][l + 1] = s
    BY <1>a, <2>3, <2>4
  <2> HIDE DEF l
  <2>6. \A m \in 1 .. l : q[m].signed => q[m].visit \in userName1[d]
    BY <2>4, <2>5 DEF NamesStay
  <2>7. \A m, n \in 1 .. l :
            (m < n /\ q[m].visit = q[n].visit /\ q[m].signed) => q[n].signed
    BY <2>5 DEF NamesStay
  <2> HIDE DEF q
  <2>8. ASSUME NEW m \in 1 .. l + 1, sent'[d][m].signed
        PROVE  sent'[d][m].visit \in userName1[d]
    <3>1. CASE m \in 1 .. l
      <4>1. sent'[d][m] = q[m]
        BY <2>5, <3>1
      <4> QED
        BY <2>6, <2>8, <3>1, <4>1
    <3>2. CASE m = l + 1
      <4>1. sent'[d][m] = s
        BY <2>5, <3>2
      <4> QED
        BY <2>2, <2>8, <4>1
    <3> QED
      BY <2>5, <3>1, <3>2
  <2>9. ASSUME NEW m \in 1 .. l + 1, NEW n \in 1 .. l + 1,
               m < n, sent'[d][m].visit = sent'[d][n].visit, sent'[d][m].signed
        PROVE  sent'[d][n].signed
    <3>1. m \in 1 .. l
      BY <2>5, <2>9
    <3>2. CASE n \in 1 .. l
      BY <2>5, <2>7, <2>9, <3>1, <3>2
    <3>3. CASE n = l + 1
      BY <2>2, <2>5, <2>8, <2>9, <3>3
    <3> QED
      BY <2>5, <3>2, <3>3
  <2> QED
    BY <2>4, <2>5, <2>8, <2>9 DEF NamesStay
<1>4. ASSUME NEW c \in Device, MainStep(c) \/ Firestore(c) \/ UserStep(c),
             ~ SendMessage(d), ~ UserNameMissing(d)
      PROVE  NamesStay(d)'
  <2>1. UNCHANGED sent[d]
    BY <1>a, <1>4
    DEF MainStep, Firestore, UserStep, ViewDidAppear, ChildAdded, SendDone, UserNameLoaded,
        UserNameMissing, OpenChat, CancelSwipeBack, CloseChat, TypeText, SendMessage,
        compose
  <2>2. CASE UserNameMissing(c)
    <3>1. c # d
      BY <1>4, <2>2
    <3>2. UNCHANGED <<alive[d], userName1[d]>>
      BY <1>a, <2>2, <3>1 DEF UserNameMissing
    <3> QED
      BY <1>1, <2>1, <3>2
  <2>3. CASE ~ UserNameMissing(c)
    <3>1. UNCHANGED alive
      BY <1>4, <2>3
      DEF MainStep, Firestore, UserStep, ViewDidAppear, ChildAdded, SendDone,
          UserNameLoaded, OpenChat, CancelSwipeBack, CloseChat, TypeText, SendMessage,
          stack
    <3>2. \/ UNCHANGED userName1
          \/ userName1' = [userName1 EXCEPT ![c] = userName1[c]]
          \/ \E v \in Visit : userName1' = [userName1 EXCEPT ![c] = @ \cup {v}]
      BY <1>4, <2>3
      DEF MainStep, Firestore, UserStep, ViewDidAppear, ChildAdded, SendDone,
          UserNameLoaded, OpenChat, CancelSwipeBack, CloseChat, TypeText, SendMessage,
          userName
    <3>3. userName1[d] \subseteq userName1'[d]
      BY <1>a, <3>2
    <3> QED
      BY <1>1, <2>1, <3>1, <3>3
  <2> QED
    BY <2>2, <2>3
<1>5. CASE Database \/ UNCHANGED vars
  BY <1>1, <1>5 DEF Database, screens, vars, stack, userName, compose
<1> QED
  BY <1>2, <1>3, <1>4, <1>5 DEF Next

\* Once a screen has signed a message it signs the later ones too, however often
\* it appears again and asks for the name anew, and whenever the answers come.
THEOREM GoesOnSigning == Spec => []SignedStaysSigned
<1> DEFINE I == TypeOK /\ WasPushed /\ \A d \in Device : NamesStay(d)
<1>1. Init => I
  <2>1. Init => \A d \in Device : NamesStay(d)
    BY DEF Init, NamesStay
  <2> QED
    BY <2>1, InitTypes
<1>2. I /\ [Next]_vars => I'
  BY DbTypesKept, ScreenTypesKept, NamesKept DEF TypeOK, ScreenTypeOK
<1>3. I => SignedStaysSigned
  BY DEF NamesStay, SignedStaysSigned
<1> HIDE DEF I
<1> QED
  BY <1>1, <1>2, <1>3, PTL DEF Spec

-----------------------------------------------------------------------------
(* One observer appends a message once.                                    *)

\* The pairs that the controllers of d have appended.
Shown(d) == UNION { Entries(messageArr[d][v]) : v \in Visit }

\* While the app lives, the listen of CommunityVC covers the messages.
Listens == \A d \in Device : alive[d] => listen[d] # "none"

\* The inductive invariant behind OncePerObserver.
OnceInv ==
    /\ IInv
    /\ Orderly
    /\ Listens
    /\ \A d \in Device : /\ Served(d, Shown(d))
                         /\ \A v \in Visit : Distinct(messageArr[d][v])

\* A message is written by a chat on screen, and that is after the listen.
LEMMA SendsAfterAsking ==
    ASSUME IInv, Listens, NEW c \in Device, SendMessage(c)
    PROVE  Asked(c)
  BY DEF SendMessage, Chatting, IInv, WasPushed, Listens, Asked

\* What a step of the chat on c is for the database.
LEMMA ScreenSteps ==
    ASSUME IInv, Listens, NEW c \in Device, MainStep(c) \/ Firestore(c) \/ UserStep(c)
    PROVE  AppStep(c) \/ UNCHANGED dbVars
<1>1. CASE SendMessage(c)
  BY <1>1, SendsAfterAsking DEF SendMessage, AppStep, Calling
<1>2. CASE ~ SendMessage(c)
  BY <1>2 DEF MainStep, Firestore, UserStep, ViewDidAppear, ChildAdded, SendDone,
              UserNameLoaded, UserNameMissing, OpenChat, CancelSwipeBack, CloseChat,
              TypeText, AppStep, Calling
<1> QED
  BY <1>1, <1>2

LEMMA NextIsStep ==
    ASSUME IInv, Listens, [Next]_vars
    PROVE  Step
<1>1. CASE Database \/ UNCHANGED vars
  BY <1>1 DEF Database, vars, Step
<1> QED
  BY <1>1, ScreenSteps DEF Next, Step

\* The listen is given up only with the process.
LEMMA ListensKept ==
    ASSUME IInv, Listens, [Next]_vars
    PROVE  Listens'
<1>a. TypeOK /\ DbTypeOK /\ DOMAIN alive = Device /\ DOMAIN listen = Device
  BY DEF IInv, TypeOK, DbTypeOK
<1>1. ASSUME NEW c \in Device, UserNameMissing(c)
      PROVE  Listens'
  BY <1>a, <1>1 DEF UserNameMissing, EndProcess, Listens
<1>2. ASSUME UNCHANGED alive, \A d \in Device : listen'[d] = "none" => listen[d] = "none"
      PROVE  Listens'
  BY <1>2 DEF Listens
<1>3. ASSUME NEW c \in Device, MainStep(c) \/ Firestore(c) \/ UserStep(c), ~ UserNameMissing(c)
      PROVE  UNCHANGED <<alive, listen>>
  BY <1>3 DEF MainStep, Firestore, UserStep, ViewDidAppear, ChildAdded, SendDone,
              UserNameLoaded, OpenChat, CancelSwipeBack, CloseChat, TypeText, SendMessage,
              Observe, RunCallback, SetValue, stack, dbVars, client, network
<1>4. CASE Database
  <2>1. UNCHANGED alive
    BY <1>4 DEF Database, screens, stack
  <2>2. ASSUME NEW c \in Device, DbStep(c)
        PROVE  \A d \in Device : listen'[d] = "none" => listen[d] = "none"
    <3>1. \/ UNCHANGED listen
          \/ \E x : x # "none" /\ listen' = [listen EXCEPT ![c] = x]
          \/ listen' = [listen EXCEPT ![c] = RestoredListen(c)]
          \/ listen' = [listen EXCEPT ![c] = IF @ = "none" THEN "sent" ELSE @]
      BY <2>2 DEF DbStep, WorkerStep, ServerStep, RunObserve, RunSet, RaiseEvent, ReceiveData,
                  ReceiveListenOk, ReceivePutResponse, AnswerListen, AcceptPut, RejectPut,
                  Reconnect, network
    <3> QED
      BY <1>a, <3>1 DEF RestoredListen
  <2>3. RemotePut => UNCHANGED listen
    BY DEF RemotePut
  <2> QED
    BY <1>2, <1>4, <2>1, <2>2, <2>3 DEF Database
<1>5. CASE UNCHANGED vars
  BY <1>2, <1>5 DEF vars, dbVars, client, network, stack
<1> QED
  BY <1>1, <1>2, <1>3, <1>4, <1>5 DEF Next

\* What a step is for device d: its process lives and the arrays are as they were,
\* or a callback runs and may append its pair to the array of the controller that
\* made the observer, or the process ends.
LEMMA StepOnDevice ==
    ASSUME IInv, Listens, [Next]_vars, NEW d \in Device
    PROVE  \/ Lives(d) /\ UNCHANGED messageArr[d]
           \/ RunCallback(d) /\ UNCHANGED messageArr[d]
           \/ /\ RunCallback(d)
              /\ Head(main[d]).type = "added"
              /\ \E v : messageArr'[d] =
                    [messageArr[d] EXCEPT ![v] =
                        Append(@, <<Head(main[d]).key, Head(main[d]).reg>>)]
           \/ EndProcess(d) /\ messageArr'[d] = [v \in Visit |-> << >>]
<1>a. TypeOK /\ DOMAIN messageArr = Device
  BY DEF IInv, TypeOK
<1>1. CASE Database \/ UNCHANGED vars
  <2>1. Lives(d)
    BY <1>1 DEF Database, vars, Lives
  <2>2. UNCHANGED messageArr
    BY <1>1 DEF Database, screens, vars, table
  <2> QED
    BY <2>1, <2>2
<1>2. ASSUME NEW c \in Device, c # d, MainStep(c) \/ Firestore(c) \/ UserStep(c)
      PROVE  Lives(d) /\ UNCHANGED messageArr[d]
  <2>1. UNCHANGED messageArr[d]
    BY <1>a, <1>2, ScreensElsewhere DEF arrays
  <2> QED
    BY <1>2, <2>1, ScreenSteps DEF Lives
<1>3. CASE ViewDidAppear(d)
  BY <1>3 DEF ViewDidAppear, Lives, Calling
<1>4. CASE ChildAdded(d)
  <2> DEFINE e == <<Head(main[d]).key, Head(main[d]).reg>>
             v == Receiver(d, Head(main[d]).reg)
  <2>1. /\ RunCallback(d) /\ Head(main[d]).type = "added"
        /\ messageArr' = [messageArr EXCEPT ![d][v] = Append(@, e)]
    BY <1>4 DEF ChildAdded
  <2> HIDE DEF e, v
  <2>2. messageArr'[d] = [messageArr[d] EXCEPT ![v] = Append(@, e)]
    BY <1>a, <2>1
  <2> QED
    BY <2>1, <2>2 DEF e
<1>5. CASE SendDone(d)
  BY <1>5 DEF SendDone, table
<1>6. CASE UserNameMissing(d)
  BY <1>a, <1>6 DEF UserNameMissing
<1>7. CASE SendMessage(d)
  BY <1>7, SendsAfterAsking DEF SendMessage, table, Lives, Calling
<1>8. CASE \/ UserNameLoaded(d) \/ OpenChat(d) \/ CancelSwipeBack(d) \/ CloseChat(d)
           \/ TypeText(d)
  BY <1>8 DEF UserNameLoaded, OpenChat, CancelSwipeBack, CloseChat, TypeText, table, Lives
<1> QED
  BY <1>1, <1>2, <1>3, <1>4, <1>5, <1>6, <1>7, <1>8 DEF Next, MainStep, Firestore, UserStep

\* Every step delivers a pair at most once to the arrays of d.
LEMMA DeliveredOnce ==
    ASSUME OnceInv, DbTypeOK', [Next]_vars, NEW d \in Device
    PROVE  (/\ Served(d, Shown(d))
            /\ \A v \in Visit : Distinct(messageArr[d][v]))'
<1> PICK D : D = Shown(d)
  OBVIOUS
<1>1. /\ TypeOK /\ DbTypeOK /\ Orderly /\ IInv /\ Listens
      /\ Served(d, D) /\ \A v \in Visit : Distinct(messageArr[d][v])
      /\ messageArr[d] \in [Visit -> Seq(Key \X Reg)]
  BY DEF OnceInv, IInv, TypeOK
<1>2. ASSUME NEW E, Served(d, E)', Shown(d)' \subseteq E
      PROVE  Served(d, Shown(d))'
  <2> PICK F : F = Shown(d)'
    OBVIOUS
  <2>1. Served(d, F)'
    BY <1>2, ServedLess
  <2> QED
    BY <2>1
<1>3. CASE UNCHANGED messageArr[d] /\ (Lives(d) \/ RunCallback(d))
  <2>1. Shown(d)' = D
    BY <1>3 DEF Shown
  <2>2. Served(d, D)'
    BY <1>1, <1>3, ServedKept, ServedRun
  <2> QED
    BY <1>1, <1>2, <1>3, <2>1, <2>2
<1>4. CASE /\ RunCallback(d)
           /\ Head(main[d]).type = "added"
           /\ \E v : messageArr'[d] =
                 [messageArr[d] EXCEPT ![v] =
                     Append(@, <<Head(main[d]).key, Head(main[d]).reg>>)]
  <2> PICK e : e = <<Head(main[d]).key, Head(main[d]).reg>>
    OBVIOUS
  <2> PICK v : messageArr'[d] = [messageArr[d] EXCEPT ![v] = Append(@, e)]
    BY <1>4
  <2>1. e \in Key \X Reg
    BY <1>1, <1>4, HeadCallback
  <2>2. e \notin D /\ Served(d, D \cup {e})' /\ Served(d, D)'
    BY <1>1, <1>4, ServedRun
  <2>3. CASE v \notin Visit
    <3>1. UNCHANGED messageArr[d]
      BY <1>1, <2>3
    <3> QED
      BY <1>1, <1>2, <2>2, <3>1 DEF Shown
  <2>4. CASE v \in Visit
    <3> DEFINE a == messageArr[d][v]
               Pair == Key \X Reg
    <3>1. a \in Seq(Pair) /\ e \in Pair /\ Distinct(a) /\ e \notin Entries(a)
      BY <1>1, <2>1, <2>2, <2>4 DEF Shown
    <3>2. /\ messageArr'[d][v] = Append(a, e)
          /\ \A w \in Visit : w # v => messageArr'[d][w] = messageArr[d][w]
      BY <1>1, <2>4
    <3>3. Distinct(Append(a, e)) /\ Entries(Append(a, e)) = Entries(a) \cup {e}
      <4> HIDE DEF a, Pair
      <4> QED
        BY <3>1, DistinctAppend
    <3>4. \A w \in Visit : Distinct(messageArr'[d][w])
      BY <1>1, <3>2, <3>3
    <3>5. \A w \in Visit : Entries(messageArr'[d][w]) \subseteq D \cup {e}
      <4>1. \A w \in Visit : Entries(messageArr[d][w]) \subseteq D
        BY DEF Shown
      <4> QED
        BY <2>4, <3>2, <3>3, <4>1
    <3>6. Shown(d)' \subseteq D \cup {e}
      BY <3>5 DEF Shown
    <3> QED
      BY <1>2, <2>2, <3>4, <3>6
  <2> QED
    BY <2>3, <2>4
<1>5. CASE EndProcess(d) /\ messageArr'[d] = [v \in Visit |-> << >>]
  <2>1. Served(d, {})'
    BY <1>1, <1>5, ServedEnd
  <2>2. \A v \in Visit : messageArr'[d][v] = << >>
    BY <1>5
  <2>3. Shown(d)' \subseteq {} /\ \A v \in Visit : Distinct(messageArr'[d][v])
    BY <2>2, EmptyArray DEF Shown
  <2> QED
    BY <1>2, <2>1, <2>3
<1> QED
  BY <1>1, <1>3, <1>4, <1>5, StepOnDevice

LEMMA AlwaysOnce == Spec => []OnceInv
<1>1. Init => OnceInv
  <2> SUFFICES ASSUME Init
               PROVE  OnceInv
    OBVIOUS
  <2>1. DbInit("sent") /\ \A d \in Device, v \in Visit : messageArr[d][v] = << >>
    BY DEF Init
  <2>2. Orderly
    BY <2>1, InitOrderly
  <2>3. \A d \in Device : Served(d, {})
    BY <2>1, InitServed
  <2>4. \A d \in Device : /\ Shown(d) = {}
                          /\ \A v \in Visit : Distinct(messageArr[d][v])
    BY <2>1, EmptyArray DEF Shown
  <2>5. Listens
    BY <2>1 DEF DbInit, Listens
  <2> QED
    BY <2>2, <2>3, <2>4, <2>5, InitDevices DEF OnceInv
<1>2. OnceInv /\ [Next]_vars => OnceInv'
  <2> SUFFICES ASSUME OnceInv, [Next]_vars
               PROVE  OnceInv'
    OBVIOUS
  <2>1. IInv /\ Listens /\ Orderly /\ DbTypeOK
    BY DEF OnceInv, IInv, TypeOK
  <2>2. IInv' /\ DbTypeOK'
    BY <2>1, DevicesKept DEF IInv, TypeOK
  <2>3. Orderly'
    BY <2>1, <2>2, NextIsStep, OrderlyKept
  <2> QED
    BY <2>1, <2>2, <2>3, DeliveredOnce, ListensKept DEF OnceInv
<1> QED
  BY <1>1, <1>2, PTL DEF Spec

\* An observer appends a message once, whichever way it reached the device: as
\* its own write, with the server's data, or again with the whole list after a
\* reconnection; and no callback is about a message that it has appended.
THEOREM AppendedOnce == Spec => []OncePerObserver
<1>1. OnceInv => OncePerObserver
  <2> SUFFICES ASSUME OnceInv, NEW d \in Device
               PROVE  /\ \A v \in Visit : Distinct(messageArr[d][v])
                      /\ \A i, j \in Waiting(d) : Event(d, i) = Event(d, j) => i = j
                      /\ \A i \in Waiting(d) :
                            /\ Event(d, i) \notin raising[d]
                            /\ ~ Appended(d, main[d][i].key, main[d][i].reg)
                      /\ \A e \in raising[d] : ~ Appended(d, e[1], e[2])
    BY DEF OncePerObserver, Distinct
  <2>1. /\ EventsOnce(d) /\ Delivered(d, Shown(d))
        /\ \A v \in Visit : Distinct(messageArr[d][v])
    BY DEF OnceInv, Served
  <2>2. \A r \in regs[d] : owner[d][r] \in Visit
    <3>1. Len(owner[d]) = handles[d] /\ owner[d] \in Seq(Visit)
      BY DEF OnceInv, IInv, ObserversKnown, TypeOK
    <3>2. regs[d] \subseteq 1 .. handles[d]
      BY DEF OnceInv, Orderly, CallsOnce
    <3> QED
      BY <3>1, <3>2
  <2>3. \A k : \A r \in regs[d] : Appended(d, k, r) => <<k, r>> \in Shown(d)
    BY <2>2 DEF Appended, Shown, Entries
  <2>4. \A e \in raising[d] : e = <<e[1], e[2]>> /\ e[2] \in regs[d]
    BY <2>1 DEF OnceInv, IInv, TypeOK, DbTypeOK, EventsOnce, Announced
  <2>5. \A e \in raising[d] : ~ Appended(d, e[1], e[2])
    BY <2>1, <2>3, <2>4 DEF Delivered
  <2>6. ASSUME NEW i \in Waiting(d)
        PROVE  ~ Appended(d, main[d][i].key, main[d][i].reg)
    <3>1. main[d][i].reg \in regs[d]
      BY <2>1 DEF EventsOnce, Announced, Event
    <3> QED
      BY <2>1, <2>3, <3>1 DEF Delivered, Event
  <2> QED
    BY <2>1, <2>5, <2>6 DEF EventsOnce
<1> QED
  BY <1>1, AlwaysOnce, PTL

-----------------------------------------------------------------------------
(* The messages of one user stand in the order they were sent.             *)

\* What the user of c sent, and what of it before what.
SentKeys(c) == { sent[c][n].key : n \in DOMAIN sent[c] }
Wrote(c, k, l) ==
    \E m, n \in DOMAIN sent[c] : m < n /\ sent[c][m].key = k /\ sent[c][n].key = l

\* Nobody else writes what the user of c sent.  While the app lives it is on its way
\* to the worker, or in the view, unless the server has refused it; an app that has
\* trapped has nothing left to send.
SentKnown(c) ==
    /\ SentKeys(c) \subseteq minted \ Remote
    /\ \A e \in Device : e # c => SentKeys(c) \cap Mine(e) = {}
    /\ alive[c] => \A k \in SentKeys(c) : Waits(c, k) \/ k \in View(c) \/ k \in refused
    /\ ~ alive[c] => Mine(c) = {}

\* What one observer of d has appended about k is before what it has about l.
Before(a, x, y) == \A i, j \in DOMAIN a : (a[i] = x /\ a[j] = y) => i < j
ArraysInOrder(d, k, l) ==
    \A v \in Visit : \A r \in Reg : Before(messageArr[d][v], <<k, r>>, <<l, r>>)

ScreensInOrder(d, k, l) == EventsInOrder(d, k, l, Shown(d)) /\ ArraysInOrder(d, k, l)

\* From c, k is before l everywhere.
InOrder(c, k, l) ==
    PairInOrder(c, k, l) /\ \A d \in Device : ScreensInOrder(d, k, l)

\* The inductive invariant behind SenderOrder.
OrderInv ==
    /\ OnceInv
    /\ ScreensTruthful
    /\ Dated
    /\ \A c \in Device : SentKnown(c)
    /\ \A c \in Device : \A k, l \in Key :
          (Wrote(c, k, l) /\ k < l /\ {k, l} \cap refused = {}) => InOrder(c, k, l)

\* A message that is sent is the last one, after all that were sent before.
LEMMA WroteLast ==
    ASSUME NEW c \in Device, sent[c] \in Seq(Sent), NEW s \in Sent,
           sent'[c] = Append(sent[c], s)
    PROVE  /\ SentKeys(c)' = SentKeys(c) \cup {s.key}
           /\ \A k, l : Wrote(c, k, l)' => \/ Wrote(c, k, l)
                                           \/ k \in SentKeys(c) /\ l = s.key
<1> DEFINE a == sent[c]
           b == sent'[c]
<1>1. a \in Seq(Sent) /\ b = Append(a, s)
  OBVIOUS
<1> HIDE DEF a, b
<1>2. /\ Len(a) \in Nat /\ Len(a) + 1 \in DOMAIN b /\ b[Len(a) + 1] = s
      /\ \A i \in DOMAIN a : i \in Nat /\ i <= Len(a) /\ i \in DOMAIN b /\ b[i] = a[i]
      /\ \A i \in DOMAIN b : i \in DOMAIN a \/ i = Len(a) + 1
  BY <1>1, AppendPlaces
<1>3. SentKeys(c)' = SentKeys(c) \cup {s.key}
  BY <1>2 DEF SentKeys, a, b
<1>4. ASSUME NEW k, NEW l, NEW m \in DOMAIN b, NEW n \in DOMAIN b, m < n,
             b[m].key = k, b[n].key = l
      PROVE  Wrote(c, k, l) \/ (k \in SentKeys(c) /\ l = s.key)
  <2>1. m \in DOMAIN a /\ a[m] = b[m]
    <3>1. m # Len(a) + 1
      BY <1>2, <1>4
    <3> QED
      BY <1>2, <3>1
  <2>2. CASE n \in DOMAIN a
    BY <1>2, <1>4, <2>1, <2>2 DEF Wrote, a
  <2>3. CASE n = Len(a) + 1
    BY <1>2, <1>4, <2>1, <2>3 DEF SentKeys, a
  <2> QED
    BY <1>2, <2>2, <2>3
<1> QED
  BY <1>3, <1>4 DEF Wrote, b

\* A step leaves what the user of c sent, or it sends one more message, and then
\* the app lives.
LEMMA SentGrows ==
    ASSUME IInv, [Next]_vars, NEW c \in Device
    PROVE  \/ UNCHANGED sent[c]
           \/ /\ alive[c] /\ alive'[c]
              /\ \E s \in Sent : SetValue(c, s.key) /\ sent'[c] = Append(sent[c], s)
<1>a. /\ DOMAIN sent = Device /\ WasPushed
      /\ visit[c] \in 0 .. MaxVisits /\ userName1[c] \subseteq Visit
  BY DEF IInv, TypeOK
<1>1. CASE SendMessage(c)
  <2>1. alive[c] /\ visit[c] \in Visit /\ UNCHANGED alive
    BY <1>a, <1>1 DEF SendMessage, Chatting, WasPushed, stack
  <2>2. PICK k \in Key :
            /\ SetValue(c, k)
            /\ sent' = [sent EXCEPT ![c] =
                   Append(@, [key |-> k, visit |-> visit[c],
                              signed |-> visit[c] \in userName1[c]])]
    BY <1>1 DEF SendMessage
  <2> DEFINE s == [key |-> k, visit |-> visit[c], signed |-> visit[c] \in userName1[c]]
  <2>3. s \in Sent /\ s.key = k
    BY <2>1 DEF Sent
  <2>4. sent'[c] = Append(sent[c], s)
    BY <1>a, <2>2
  <2> HIDE DEF s
  <2> QED
    BY <2>1, <2>2, <2>3, <2>4
<1>2. ASSUME NEW e \in Device, e # c, SendMessage(e)
      PROVE  UNCHANGED sent[c]
  BY <1>a, <1>2 DEF SendMessage
<1>3. ASSUME NEW e \in Device, MainStep(e) \/ Firestore(e) \/ UserStep(e), ~ SendMessage(e)
      PROVE  UNCHANGED sent
  BY <1>3 DEF MainStep, Firestore, UserStep, ViewDidAppear, ChildAdded, SendDone,
              UserNameLoaded, UserNameMissing, OpenChat, CancelSwipeBack, CloseChat,
              TypeText, compose
<1>4. CASE Database \/ UNCHANGED vars
  BY <1>4 DEF Database, screens, vars, compose
<1> QED
  BY <1>1, <1>2, <1>3, <1>4 DEF Next

\* The app of d traps, or it is as alive as before and its process goes on.
LEMMA AliveLives ==
    ASSUME IInv, Listens, [Next]_vars, NEW d \in Device
    PROVE  \/ UserNameMissing(d)
           \/ UNCHANGED alive[d] /\ (Lives(d) \/ RunCallback(d))
<1>a. DOMAIN alive = Device
  BY DEF IInv, TypeOK
<1>1. CASE Database \/ UNCHANGED vars
  BY <1>1 DEF Database, screens, vars, stack, Lives
<1>2. ASSUME NEW c \in Device, c # d, MainStep(c) \/ Firestore(c) \/ UserStep(c)
      PROVE  UNCHANGED alive[d] /\ Lives(d)
  <2>1. UNCHANGED alive[d]
    BY <1>a, <1>2 DEF MainStep, Firestore, UserStep, ViewDidAppear, ChildAdded, SendDone,
              UserNameLoaded, UserNameMissing, OpenChat, CancelSwipeBack, CloseChat,
              TypeText, SendMessage, stack
  <2> QED
    BY <1>2, <2>1, ScreenSteps DEF Lives
<1>3. CASE ViewDidAppear(d)
  BY <1>3 DEF ViewDidAppear, Lives, Calling
<1>4. CASE ChildAdded(d) \/ SendDone(d)
  BY <1>4 DEF ChildAdded, SendDone, stack
<1>5. CASE SendMessage(d)
  BY <1>5, SendsAfterAsking DEF SendMessage, stack, Lives, Calling
<1>6. CASE \/ UserNameLoaded(d) \/ OpenChat(d) \/ CancelSwipeBack(d) \/ CloseChat(d)
           \/ TypeText(d)
  BY <1>6 DEF UserNameLoaded, OpenChat, CancelSwipeBack, CloseChat, TypeText, stack, Lives
<1> QED
  BY <1>1, <1>2, <1>3, <1>4, <1>5, <1>6 DEF Next, MainStep, Firestore, UserStep

\* An app that has trapped has nothing left to send, and sends nothing.
LEMMA TrappedSendsNothing ==
    ASSUME OnceInv, [Next]_vars, NEW c \in Device, ~ alive[c], Mine(c) = {},
           UNCHANGED alive[c]
    PROVE  Mine(c)' = {}
<1>1. /\ IInv /\ Listens /\ TypeOK /\ DbTypeOK /\ KeysOnce /\ CallsOnce(c) /\ WasPushed
      /\ DOMAIN work = Device /\ work[c] \in Seq(Call)
  BY DEF OnceInv, IInv, TypeOK, DbTypeOK, Orderly
<1>2. CallsMove
  BY <1>1, NextIsStep, CallsMoved
<1>3. ASSUME NEW k \in Key, Writes(c, k)
      PROVE  FALSE
  <2>1. minted' # minted
    BY <1>3 DEF Writes
  <2>2. PICK e \in Device : SendMessage(e)
    <3>1. ASSUME NEW e \in Device, MainStep(e) \/ Firestore(e) \/ UserStep(e), ~ SendMessage(e)
          PROVE  UNCHANGED minted
      BY <3>1 DEF MainStep, Firestore, UserStep, ViewDidAppear, ChildAdded, SendDone,
                  UserNameLoaded, UserNameMissing, OpenChat, CancelSwipeBack, CloseChat,
                  TypeText, Observe, RunCallback, EndProcess, dbVars, client, calls
    <3>2. ASSUME NEW e \in Device, DbStep(e)
          PROVE  UNCHANGED minted
      BY <3>2 DEF DbStep, WorkerStep, ServerStep, RunObserve, RunSet, RaiseEvent, ReceiveData,
                  ReceiveListenOk, ReceivePutResponse, AnswerListen, AcceptPut, RejectPut,
                  Reconnect, calls
    <3>3. RemotePut \/ UNCHANGED vars => UNCHANGED minted
      BY DEF RemotePut, vars, dbVars, client, calls
    <3> QED
      BY <2>1, <3>1, <3>2, <3>3 DEF Next, Database
  <2>3. e # c
    BY <1>1, <2>2 DEF SendMessage, Chatting, WasPushed
  <2>4. work'[c] = work[c]
    BY <1>1, <2>2, <2>3 DEF SendMessage, SetValue
  <2>5. [type |-> "set", key |-> k] \in Call
    BY DEF Call
  <2> PICK x : x = [type |-> "set", key |-> k]
    OBVIOUS
  <2>6. work'[c] = Append(work[c], x) /\ x \in Call
    BY <1>3, <2>5 DEF Writes
  <2>7. Len(Append(work[c], x)) = Len(work[c]) + 1 /\ Len(work[c]) \in Nat
    BY <1>1, <2>6, AppendPlaces
  <2> QED
    BY <2>4, <2>6, <2>7
<1> QED
  BY <1>1, <1>2, <1>3, MineMoves

\* What the user of c sent stays known.
LEMMA SentStaysKnown ==
    ASSUME OnceInv, OnceInv', [Next]_vars, NEW c \in Device, SentKnown(c)
    PROVE  SentKnown(c)'
<1>1. /\ IInv /\ Listens /\ TypeOK /\ DbTypeOK /\ DbTypeOK' /\ Orderly /\ KeysOnce /\ KeysOnce'
      /\ Truthful(c) /\ \A e \in Device : CallsOnce(e)
      /\ sent[c] \in Seq(Sent) /\ DOMAIN work = Device /\ work[c] \in Seq(Call)
  BY DEF OnceInv, IInv, TypeOK, DbTypeOK, Orderly, Served
<1>2. Step
  BY <1>1, NextIsStep
<1>3. CallsMove /\ Settled \subseteq Settled' /\ refused \subseteq refused'
  BY <1>1, <1>2, CallsMoved, OrderlyKept, RefusedGrows
<1>4. minted \subseteq minted' /\ Remote \subseteq minted
  BY <1>1, <1>3 DEF CallsMove, KeysOnce
<1>5. ASSUME NEW e \in Device, e # c
      PROVE  SentKeys(c) \cap Mine(e)' = {}
  <2>1. \A k \in Key : Writes(e, k) => k \notin minted
    BY DEF Writes
  <2>2. \/ Mine(e)' \subseteq Mine(e)
        \/ \E k \in Key : Writes(e, k) /\ Mine(e)' \subseteq Mine(e) \cup {k}
    BY <1>1, <1>3, MineMoves
  <2>3. SentKeys(c) \cap Mine(e) = {} /\ SentKeys(c) \subseteq minted
    BY <1>5 DEF SentKnown
  <2> QED
    BY <2>1, <2>2, <2>3
<1>6. ASSUME alive'[c], NEW k \in SentKeys(c)
      PROVE  Waits(c, k)' \/ k \in View(c)' \/ k \in refused'
  <2>1. alive[c] /\ (Lives(c) \/ RunCallback(c))
    <3>1. UserNameMissing(c) => ~ alive'[c]
      BY <1>1 DEF UserNameMissing, TypeOK
    <3> QED
      BY <1>1, <1>6, <3>1, AliveLives
  <2>2. Waits(c, k) \/ k \in View(c) \/ k \in refused
    BY <2>1 DEF SentKnown
  <2> QED
    BY <1>1, <1>3, <2>1, <2>2, WaitsStays, ViewStays
<1>7. ASSUME ~ alive'[c]
      PROVE  Mine(c)' = {}
  <2>1. CASE UserNameMissing(c)
    <3>1. work'[c] = << >> /\ outstanding'[c] = {} /\ DOMAIN << >> = {}
      BY <1>1, <2>1 DEF UserNameMissing, EndProcess, DbTypeOK
    <3> QED
      BY <3>1 DEF Mine, Waits, Outgoing
  <2>2. CASE UNCHANGED alive[c]
    BY <1>7, <2>2, TrappedSendsNothing DEF SentKnown
  <2> QED
    BY <1>1, <2>1, <2>2, AliveLives
<1>8. CASE UNCHANGED sent[c]
  <2>1. SentKeys(c)' = SentKeys(c)
    BY <1>8 DEF SentKeys
  <2> QED
    BY <1>4, <1>5, <1>6, <1>7, <2>1 DEF SentKnown
<1>9. ASSUME alive[c], alive'[c], NEW s \in Sent, SetValue(c, s.key), sent'[c] = Append(sent[c], s)
      PROVE  SentKnown(c)'
  <2> PICK k : k = s.key
    OBVIOUS
  <2>1. SentKeys(c)' = SentKeys(c) \cup {k} /\ k \in Key
    BY <1>1, <1>9, WroteLast DEF Sent
  <2>2. k \in minted' /\ k \notin Remote
    BY <1>4, <1>9 DEF SetValue
  <2>3. Waits(c, k)'
    <3> PICK x : x = [type |-> "set", key |-> k]
      OBVIOUS
    <3>1. x \in Call /\ work'[c] = Append(work[c], x)
      BY <1>1, <1>9, <2>1 DEF SetValue, Call
    <3>2. Len(work[c]) + 1 \in DOMAIN work'[c] /\ work'[c][Len(work[c]) + 1] = x
      BY <1>1, <3>1, AppendPlaces
    <3> QED
      BY <3>2 DEF Waits
  <2>4. \A e \in Device : e # c => k \notin Mine(e)'
    BY <1>1, <2>1, <2>3 DEF KeysOnce, Mine
  <2> QED
    BY <1>4, <1>5, <1>6, <1>9, <2>1, <2>2, <2>3, <2>4 DEF SentKnown
<1> QED
  BY <1>1, <1>8, <1>9, SentGrows

\* While the app that wrote l lives, its k is on its way or in the view.
LEMMA WroteLater ==
    ASSUME NEW c \in Device, SentKnown(c), NEW k, NEW l, Wrote(c, k, l), k # l, k \notin refused
    PROVE  Later(c, k, l)
<1>1. k \in SentKeys(c) /\ l \in SentKeys(c)
  BY DEF Wrote, SentKeys
<1> QED
  BY <1>1 DEF SentKnown, Later

\* In the next state a pair is in order if it was in order, or had not been sent.
LEMMA PairOfSent ==
    ASSUME OrderInv, [Next]_vars, NEW c \in Device, NEW k \in Key, NEW l \in Key,
           Wrote(c, k, l)', k < l, {k, l} \cap refused = {}
    PROVE  Later(c, k, l) /\ InOrder(c, k, l)
<1>1. /\ OnceInv /\ IInv /\ Orderly /\ Dated /\ ScreensTruthful /\ TypeOK
      /\ SentKnown(c) /\ sent[c] \in Seq(Sent)
      /\ \A d \in Device : Truthful(d)
  BY DEF OrderInv, OnceInv, IInv, TypeOK, ScreensTruthful
<1>2. k # l
  BY DatabaseAssumption
<1>3. CASE Wrote(c, k, l)
  BY <1>1, <1>2, <1>3, WroteLater DEF OrderInv
<1>4. CASE ~ Wrote(c, k, l)
  <2>1. l \notin minted /\ k \in minted
    <3>1. ~ UNCHANGED sent[c]
      BY <1>4 DEF Wrote
    <3>2. PICK s \in Sent : SetValue(c, s.key) /\ sent'[c] = Append(sent[c], s)
      BY <1>1, <3>1, SentGrows
    <3>3. k \in SentKeys(c) /\ l = s.key
      BY <1>1, <1>4, <3>2, WroteLast
    <3> QED
      BY <1>1, <3>2, <3>3 DEF SetValue, SentKnown
  <2>2. /\ Later(c, k, l) /\ PairInOrder(c, k, l)
        /\ \A d \in Device : \A D \in SUBSET (Vouched(d) \X Reg) : EventsInOrder(d, k, l, D)
    BY <1>1, <2>1, FreshInOrder
  <2>3. ASSUME NEW d \in Device
        PROVE  ScreensInOrder(d, k, l)
    <3>1. \A v \in Visit : messageArr[d][v] \in Seq(Vouched(d) \X Reg)
      BY <1>1 DEF ScreensTruthful
    <3>2. \A v \in Visit : \A i \in DOMAIN messageArr[d][v] :
             messageArr[d][v][i] \in Vouched(d) \X Reg
      BY <3>1
    <3>3. Shown(d) \in SUBSET (Vouched(d) \X Reg)
      BY <3>2 DEF Shown, Entries
    <3>4. l \notin Vouched(d)
      BY <1>1, <2>1, VouchedIsMinted
    <3>5. ArraysInOrder(d, k, l)
      BY <3>2, <3>4 DEF ArraysInOrder, Before
    <3> QED
      BY <2>2, <3>3, <3>5 DEF ScreensInOrder
  <2> QED
    BY <2>2, <2>3 DEF InOrder
<1> QED
  BY <1>3, <1>4

\* An array to which an observer appends stays in order: what comes after x is not
\* in it when x is appended.
LEMMA BeforeAppend ==
    ASSUME NEW S, NEW a \in Seq(S), NEW e \in S, NEW x, NEW y, x # y, Before(a, x, y),
           e = x => y \notin Entries(a)
    PROVE  Before(Append(a, e), x, y)
<1> DEFINE b == Append(a, e)
<1>1. /\ Len(a) \in Nat /\ b[Len(a) + 1] = e
      /\ \A i \in DOMAIN a : i \in Nat /\ i <= Len(a) /\ b[i] = a[i]
      /\ \A i \in DOMAIN b : i \in DOMAIN a \/ i = Len(a) + 1
  BY AppendPlaces
<1> HIDE DEF b
<1>2. ASSUME NEW i \in DOMAIN b, NEW j \in DOMAIN b, b[i] = x, b[j] = y
      PROVE  i < j
  <2>1. CASE i \in DOMAIN a /\ j \in DOMAIN a
    BY <1>1, <1>2, <2>1 DEF Before
  <2>2. CASE i \in DOMAIN a /\ j = Len(a) + 1
    BY <1>1, <2>2
  <2>3. CASE i = Len(a) + 1 /\ j \in DOMAIN a
    BY <1>1, <1>2, <2>3 DEF Entries
  <2>4. CASE i = Len(a) + 1 /\ j = Len(a) + 1
    BY <1>2, <2>4
  <2> QED
    BY <1>1, <2>1, <2>2, <2>3, <2>4
<1> QED
  BY <1>2 DEF Before, b

\* Every step leaves the screens of d in order.
LEMMA ScreensStayInOrder ==
    ASSUME OnceInv, ScreensTruthful, [Next]_vars, NEW d \in Device,
           NEW k \in Key, NEW l \in Key, k < l, l \notin refused,
           ToldInOrder(d, k, l), ScreensInOrder(d, k, l)
    PROVE  ScreensInOrder(d, k, l)'
<1> PICK D : D = Shown(d)
  OBVIOUS
<1>1. /\ TypeOK /\ DbTypeOK /\ Orderly /\ IInv /\ Listens /\ Served(d, D)
      /\ messageArr[d] \in [Visit -> Seq(Key \X Reg)]
      /\ EventsInOrder(d, k, l, D) /\ ArraysInOrder(d, k, l)
      /\ \A v \in Visit : Entries(messageArr[d][v]) \subseteq D
  BY DEF OnceInv, IInv, TypeOK, ScreensInOrder, Shown
<1>2. D \subseteq Vouched(d) \X Reg
  <2>1. \A v \in Visit : messageArr[d][v] \in Seq(Vouched(d) \X Reg)
    BY DEF ScreensTruthful
  <2>2. \A v \in Visit : \A i \in DOMAIN messageArr[d][v] :
           messageArr[d][v][i] \in Vouched(d) \X Reg
    BY <2>1
  <2> QED
    BY <2>2 DEF Shown, Entries
<1>3. k # l
  BY DatabaseAssumption
<1>4. ASSUME NEW E, EventsInOrder(d, k, l, E)', Shown(d)' \subseteq E, ArraysInOrder(d, k, l)'
      PROVE  ScreensInOrder(d, k, l)'
  <2> PICK F : F = Shown(d)'
    OBVIOUS
  <2>1. EventsInOrder(d, k, l, F)'
    BY <1>4, OrderLess
  <2> QED
    BY <1>4, <2>1 DEF ScreensInOrder
<1>5. CASE UNCHANGED messageArr[d] /\ (Lives(d) \/ RunCallback(d))
  <2>1. Shown(d)' = D /\ ArraysInOrder(d, k, l)'
    BY <1>1, <1>5 DEF Shown, ArraysInOrder
  <2>2. EventsInOrder(d, k, l, D)'
    BY <1>1, <1>2, <1>5, EventsStayInOrder, DeliveredInOrder
  <2> QED
    BY <1>4, <2>1, <2>2
<1>6. CASE /\ RunCallback(d)
           /\ Head(main[d]).type = "added"
           /\ \E v : messageArr'[d] =
                 [messageArr[d] EXCEPT ![v] =
                     Append(@, <<Head(main[d]).key, Head(main[d]).reg>>)]
  <2> PICK e : e = <<Head(main[d]).key, Head(main[d]).reg>>
    OBVIOUS
  <2> PICK v : messageArr'[d] = [messageArr[d] EXCEPT ![v] = Append(@, e)]
    BY <1>6
  <2>1. e \in Key \X Reg
    BY <1>1, <1>6, HeadCallback
  <2>2. /\ EventsInOrder(d, k, l, D \cup {e})'
        /\ \A r \in Reg : e = <<k, r>> => <<l, r>> \notin D
    BY <1>1, <1>6, DeliveredInOrder
  <2>3. \A w \in Visit : \/ messageArr'[d][w] = messageArr[d][w]
                         \/ messageArr'[d][w] = Append(messageArr[d][w], e)
    BY <1>1
  <2>4. ASSUME NEW w \in Visit, messageArr'[d][w] = Append(messageArr[d][w], e)
        PROVE  /\ Entries(messageArr'[d][w]) \subseteq D \cup {e}
               /\ \A r \in Reg : Before(messageArr'[d][w], <<k, r>>, <<l, r>>)
    <3> PICK a : a = messageArr[d][w]
      OBVIOUS
    <3> PICK P : P = Key \X Reg
      OBVIOUS
    <3>1. a \in Seq(P) /\ e \in P /\ Entries(a) \subseteq D /\ messageArr'[d][w] = Append(a, e)
      BY <1>1, <2>1, <2>4
    <3>2. Entries(Append(a, e)) \subseteq D \cup {e}
      BY <3>1, AppendPlaces DEF Entries
    <3>3. ASSUME NEW r \in Reg
          PROVE  Before(Append(a, e), <<k, r>>, <<l, r>>)
      <4>1. Before(a, <<k, r>>, <<l, r>>)
        BY <1>1 DEF ArraysInOrder
      <4>2. e = <<k, r>> => <<l, r>> \notin Entries(a)
        BY <2>2, <3>1
      <4>3. <<k, r>> # <<l, r>>
        BY <1>3
      <4> QED
        BY <3>1, <4>1, <4>2, <4>3, BeforeAppend
    <3> QED
      BY <3>1, <3>2, <3>3
  <2>5. Shown(d)' \subseteq D \cup {e}
    <3>1. \A w \in Visit : Entries(messageArr'[d][w]) \subseteq D \cup {e}
      BY <1>1, <2>3, <2>4
    <3> QED
      BY <3>1 DEF Shown
  <2>6. ArraysInOrder(d, k, l)'
    <3>1. \A w \in Visit : messageArr'[d][w] = messageArr[d][w] =>
             \A r \in Reg : Before(messageArr'[d][w], <<k, r>>, <<l, r>>)
      BY <1>1 DEF ArraysInOrder
    <3> QED
      BY <2>3, <2>4, <3>1 DEF ArraysInOrder
  <2> QED
    BY <1>4, <2>2, <2>5, <2>6
<1>7. CASE EndProcess(d) /\ messageArr'[d] = [v \in Visit |-> << >>]
  <2>1. EventsInOrder(d, k, l, {})'
    BY <1>1, <1>7, OrderEnds
  <2>2. \A v \in Visit : messageArr'[d][v] = << >>
    BY <1>7
  <2>3. DOMAIN << >> = {}
    OBVIOUS
  <2>4. Shown(d)' \subseteq {} /\ ArraysInOrder(d, k, l)'
    BY <2>2, <2>3, EmptyArray DEF Shown, ArraysInOrder, Before
  <2> QED
    BY <1>4, <2>1, <2>4
<1> QED
  BY <1>1, <1>5, <1>6, <1>7, StepOnDevice

LEMMA OrderStays ==
    ASSUME OrderInv, [Next]_vars, OnceInv', ScreensTruthful'
    PROVE  OrderInv'
<1>1. /\ OnceInv /\ IInv /\ Listens /\ DbTypeOK /\ DbTypeOK' /\ Orderly /\ Dated
      /\ ScreensTruthful /\ \A d \in Device : Truthful(d)
  BY DEF OrderInv, OnceInv, IInv, TypeOK, ScreensTruthful
<1>2. Step
  BY <1>1, NextIsStep
<1>3. Dated' /\ refused \subseteq refused'
  BY <1>1, <1>2, DatedKept, RefusedGrows
<1>4. ASSUME NEW c \in Device
      PROVE  SentKnown(c)'
  BY <1>1, SentStaysKnown DEF OrderInv
<1>5. ASSUME NEW c \in Device, NEW k \in Key, NEW l \in Key,
             Wrote(c, k, l)', k < l, {k, l} \cap refused' = {}
      PROVE  InOrder(c, k, l)'
  <2>1. {k, l} \cap refused = {} /\ k \notin refused' /\ l \notin refused
    BY <1>3, <1>5
  <2>2. Later(c, k, l) /\ InOrder(c, k, l)
    BY <1>5, <2>1, PairOfSent
  <2>3. PairInOrder(c, k, l)'
    BY <1>1, <1>2, <2>1, <2>2, PairStaysInOrder DEF InOrder
  <2>4. ASSUME NEW d \in Device
        PROVE  ScreensInOrder(d, k, l)'
    BY <1>1, <1>5, <2>1, <2>2, ScreensStayInOrder DEF InOrder, PairInOrder
  <2> QED
    BY <2>3, <2>4 DEF InOrder
<1> QED
  BY <1>3, <1>4, <1>5 DEF OrderInv

\* In every reachable state what one user sent is in order.
LEMMA AlwaysOrdered == Spec => []OrderInv
<1>1. Init /\ OnceInv /\ ScreensTruthful => OrderInv
  <2> SUFFICES ASSUME Init, OnceInv, ScreensTruthful
               PROVE  OrderInv
    OBVIOUS
  <2>1. DOMAIN << >> = {}
    OBVIOUS
  <2>2. DbInit("sent") /\ \A c \in Device : sent[c] = << >> /\ alive[c]
    BY DEF Init
  <2>3. \A c \in Device : SentKeys(c) = {} /\ \A k, l : ~ Wrote(c, k, l)
    BY <2>1, <2>2 DEF SentKeys, Wrote
  <2>4. \A c \in Device : SentKnown(c)
    BY <2>2, <2>3 DEF SentKnown
  <2> QED
    BY <2>2, <2>3, <2>4, InitDated DEF OrderInv
<1>2. OrderInv /\ [Next]_vars /\ OnceInv' /\ ScreensTruthful' => OrderInv'
  BY OrderStays
<1> QED
  BY <1>1, <1>2, AlwaysOnce, AlwaysTruthful, PTL DEF Spec

\* On every device, in what each observer appends, the messages of one user stand
\* in the order they were sent, provided that their push ids grew and the server
\* refused neither at any time: through the worker's queue, the indices of the
\* puts, their repetition after a lost connection, the server's data and the order
\* of the events that the view raises.
THEOREM SentInOrder == Spec => []SenderOrder
<1>1. OrderInv => SenderOrder
  <2> SUFFICES ASSUME OrderInv, NEW c \in Device, NEW d \in Device,
                      NEW m \in DOMAIN sent[c], NEW n \in DOMAIN sent[c], m < n,
                      sent[c][m].key < sent[c][n].key,
                      {sent[c][m].key, sent[c][n].key} \cap refused = {},
                      NEW v \in Visit,
                      NEW i \in DOMAIN messageArr[d][v], NEW j \in DOMAIN messageArr[d][v],
                      messageArr[d][v][i][1] = sent[c][n].key,
                      messageArr[d][v][j][1] = sent[c][m].key,
                      messageArr[d][v][i][2] = messageArr[d][v][j][2]
               PROVE  j < i
    BY DEF SenderOrder
  <2> PICK k : k = sent[c][m].key
    OBVIOUS
  <2> PICK l : l = sent[c][n].key
    OBVIOUS
  <2> PICK r : r = messageArr[d][v][i][2]
    OBVIOUS
  <2>1. /\ sent[c] \in Seq(Sent)
        /\ messageArr[d][v] \in Seq(Key \X Reg)
    BY DEF OrderInv, OnceInv, IInv, TypeOK
  <2>2. k \in Key /\ l \in Key
    BY <2>1 DEF Sent
  <2>3. Wrote(c, k, l)
    BY DEF Wrote
  <2>4. ArraysInOrder(d, k, l)
    BY <2>2, <2>3 DEF OrderInv, InOrder, ScreensInOrder
  <2>5. messageArr[d][v][i] \in Key \X Reg /\ messageArr[d][v][j] \in Key \X Reg
    BY <2>1
  <2>6. /\ messageArr[d][v][i] = <<l, r>> /\ messageArr[d][v][j] = <<k, r>>
        /\ r \in Reg
    BY <2>5
  <2> QED
    BY <2>4, <2>6 DEF ArraysInOrder, Before
<1> QED
  BY <1>1, AlwaysOrdered, PTL
=============================================================================
