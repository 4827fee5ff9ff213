------------------------ MODULE CommunityListProofs ------------------------
(***************************************************************************)
(* Proofs about CommunityList, for any devices, keys and bounds.           *)
(***************************************************************************)
EXTENDS CommunityList, RealtimeDatabaseProofs

USE DatabaseAssumption, ListAssumption DEF Reg, trouble

screens == <<process, nav, list, form>>

-----------------------------------------------------------------------------
(* Types.                                                                  *)

ScreenTypeOK ==
    /\ status \in [Device -> {"stopped", "running", "trapped"}]
    /\ launches \in 0 .. MaxLaunches
    /\ screen \in [Device -> Screen]
    /\ appearing \in [Device -> BOOLEAN]
    /\ signedIn \in [Device -> BOOLEAN]
    /\ arrayOfCommunities \in [Device -> Seq(Key \X Reg)]
    /\ cells \in [Device -> Nat]
    /\ addNewName \in [Device -> BOOLEAN]
    /\ requests \in [Device -> SUBSET Key]

\* What an action of the screens does to the database client.
LEMMA ScreenCalls ==
    ASSUME NEW d \in Device, MainStep(d) \/ UserStep(d)
    PROVE  \/ Observe(d) \/ (\E k \in Key : SetValue(d, k)) \/ RunCallback(d)
           \/ EndProcess(d) \/ UNCHANGED dbVars
  BY DEF MainStep, UserStep, ViewDidAppear, ChildAdded, CreateDone, Launch, Terminate,
         Stop, SelectCommunity, IndexOutOfRange, OpenScreen, Back, Logout, Login,
         EditName, CreateCommunityButton

\* Every step keeps the types of the database client.
LEMMA DbTypesKept ==
    ASSUME TypeOK, [Next]_vars
    PROVE  DbTypeOK'
<1>1. CASE UNCHANGED dbVars
  BY <1>1 DEF TypeOK, DbTypeOK, dbVars, client, calls, view, puts, network, callback
<1>2. ASSUME NEW d \in Device, MainStep(d) \/ UserStep(d)
      PROVE  DbTypeOK'
  BY <1>1, <1>2, ScreenCalls, CallTypes DEF TypeOK
<1>3. CASE Database
  BY <1>3, WorkerTypes, NetworkTypes DEF Database, DbStep, TypeOK
<1> QED
  BY <1>1, <1>2, <1>3 DEF Next, vars

\* The callback at the head of the main queue.
LEMMA HeadCallback ==
    ASSUME DbTypeOK, NEW d \in Device, RunCallback(d), Head(main[d]).type = "added"
    PROVE  Head(main[d]).key \in Key /\ Head(main[d]).reg \in Reg
<1>1. Head(main[d]) \in Callback
  BY QueueType DEF RunCallback, DbTypeOK
<1> QED
  BY <1>1 DEF Callback

\* Every step keeps the types of the screens.
LEMMA ScreenTypesKept ==
    ASSUME TypeOK, [Next]_vars
    PROVE  ScreenTypeOK'
<1> USE DEF TypeOK, ScreenTypeOK
<1>1. CASE UNCHANGED screens
  BY <1>1 DEF screens, process, nav, list, form
<1>2. ASSUME NEW d \in Device, ViewDidAppear(d)
      PROVE  ScreenTypeOK'
  BY <1>2, QueueType DEF ViewDidAppear, process, form, Screen
<1>3. ASSUME NEW d \in Device, ChildAdded(d)
      PROVE  ScreenTypeOK'
  <2> DEFINE entry == <<Head(main[d]).key, Head(main[d]).reg>>
  <2>1. entry \in Key \X Reg
    BY <1>3, HeadCallback DEF ChildAdded
  <2>2. CASE Head(main[d]).key \notin Malformed
    <3>1. /\ arrayOfCommunities' = [arrayOfCommunities EXCEPT ![d] = Append(@, entry)]
          /\ cells' = [cells EXCEPT ![d] = ReloadData(d)]
          /\ UNCHANGED <<process, nav, form>>
      BY <1>3, <2>2 DEF ChildAdded
    <3> HIDE DEF entry
    <3>2. arrayOfCommunities' \in [Device -> Seq(Key \X Reg)]
      BY <2>1, <3>1, QueueType
    <3>3. ReloadData(d) \in Nat
      BY <3>2 DEF ReloadData
    <3> QED
      BY <3>1, <3>2, <3>3 DEF process, nav, form
  <2>3. CASE Head(main[d]).key \in Malformed
    BY <1>3, <2>3 DEF ChildAdded, process, nav, form, list
  <2> QED
    BY <2>2, <2>3
<1>4. ASSUME NEW d \in Device, CreateDone(d)
      PROVE  ScreenTypeOK'
  BY <1>4 DEF CreateDone, process, nav, list
<1>5. ASSUME NEW d \in Device, NEW how \in {"stopped", "trapped"}, Stop(d, how)
      PROVE  ScreenTypeOK'
  BY <1>5, QueueType DEF Stop, Screen
<1>6. ASSUME NEW d \in Device, Launch(d)
      PROVE  ScreenTypeOK'
  BY <1>6 DEF Launch, list, form
<1>7. ASSUME NEW d \in Device,
             SelectCommunity(d) \/ OpenScreen(d) \/ Back(d) \/ Logout(d) \/ Login(d)
      PROVE  ScreenTypeOK'
  BY <1>7 DEF SelectCommunity, OpenScreen, Back, Logout, Login, ShowList,
              process, list, form, Screen
<1>8. ASSUME NEW d \in Device, EditName(d) \/ CreateCommunityButton(d)
      PROVE  ScreenTypeOK'
  <2>1. addNewName' \in [Device -> BOOLEAN]
    BY <1>8, Zenon DEF EditName, CreateCommunityButton
  <2>2. requests' \in [Device -> SUBSET Key]
    <3>1. UNCHANGED requests
          \/ \E k \in Key : requests' = [requests EXCEPT ![d] = @ \cup {k}]
      BY <1>8 DEF EditName, CreateCommunityButton
    <3>2. requests \in [Device -> SUBSET Key]
      OBVIOUS
    <3> HIDE DEF TypeOK, ScreenTypeOK
    <3>3. ASSUME NEW k \in Key, requests' = [requests EXCEPT ![d] = @ \cup {k}]
          PROVE  requests' \in [Device -> SUBSET Key]
      BY <3>2, <3>3
    <3> QED
      BY <3>1, <3>2, <3>3
  <2> QED
    BY <1>8, <2>1, <2>2 DEF EditName, CreateCommunityButton, process, nav, list
<1>9. ASSUME NEW d \in Device, MainStep(d) \/ UserStep(d)
      PROVE  ScreenTypeOK'
  <2> USE <1>9
  <2> HIDE DEF TypeOK, ScreenTypeOK
  <2>1. CASE Terminate(d) \/ IndexOutOfRange(d)
    BY <1>5, <2>1 DEF Terminate, IndexOutOfRange
  <2> QED
    BY <1>2, <1>3, <1>4, <1>6, <1>7, <1>8, <2>1 DEF MainStep, UserStep
<1>10. CASE Database \/ UNCHANGED vars
  BY <1>1, <1>10 DEF Database, screens, vars
<1> QED
  BY <1>9, <1>10 DEF Next

\* The initial states have the types.
LEMMA InitTypes == Init => TypeOK
<1>1. Init => DbTypeOK
  BY DbInitTypes DEF Init
<1>2. Init => ScreenTypeOK
  BY DEF Init, ScreenTypeOK, Screen
<1> QED
  BY <1>1, <1>2 DEF TypeOK, ScreenTypeOK

\* The variables of the database client and of the screens keep their types, for
\* any number of devices, children, observers and lost connections.
THEOREM TypeCorrect == Spec => []TypeOK
<1>1. Init => TypeOK
  BY InitTypes
<1>2. TypeOK /\ [Next]_vars => TypeOK'
  BY DbTypesKept, ScreenTypesKept DEF TypeOK, ScreenTypeOK
<1> QED
  BY <1>1, <1>2, PTL DEF Spec

-----------------------------------------------------------------------------
(* No community is lost between removeAll and the new observer.            *)

\* Until CommunityVC has appeared the client has nothing to do with the list:
\* no child can enter the view unobserved.
Asleep ==
    \A d \in Device : handles[d] = 0 =>
        /\ work[d] = << >> /\ inbox[d] = << >>
        /\ regs[d] = {} /\ snap[d] = {} /\ writes[d] = {} /\ outstanding[d] = {}
        /\ listen[d] = "none"

\* The newest observer is registered, or waits for the worker.
NewestKnown ==
    \A d \in Device : handles[d] > 0 => Known(d, handles[d])

\* Every other screen, and every touch, comes after the list's viewDidAppear.
ListCameFirst ==
    \A d \in Device :
        (screen[d] # "list" \/ (status[d] = "running" /\ ~ appearing[d]))
            => handles[d] > 0

\* The inductive invariant behind NoLostCommunity.
IInv ==
    /\ TypeOK
    /\ Asleep
    /\ NewestKnown
    /\ ListCameFirst
    /\ NoLostCommunity

\* Every step keeps CommunityVC's order: no screen comes before its observer.
LEMMA NavigationKept ==
    ASSUME IInv, [Next]_vars
    PROVE  ListCameFirst'
<1>a. /\ handles \in [Device -> Nat]
      /\ DOMAIN screen = Device /\ DOMAIN status = Device
      /\ DOMAIN appearing = Device
  BY DEF IInv, TypeOK, DbTypeOK
<1>b. \A d \in Device :
        (screen[d] # "list" \/ (status[d] = "running" /\ ~ appearing[d]))
            => handles[d] > 0
  BY DEF IInv, ListCameFirst
<1> USE <1>a, <1>b DEF ListCameFirst
<1>1. CASE Database \/ UNCHANGED vars
  <2>1. UNCHANGED <<screen, status, appearing>>
    BY <1>1 DEF Database, vars, nav, process
  <2>2. UNCHANGED handles
    <3>1. CASE UNCHANGED vars
      BY <3>1 DEF vars, dbVars, client, calls
    <3>2. CASE Database
      BY <3>2 DEF Database, DbStep, WorkerStep, ServerStep, RunObserve, RunSet, RaiseEvent,
           ReceiveData, ReceiveListenOk, ReceivePutResponse, AnswerListen, AcceptPut,
           RejectPut, Reconnect, RemotePut, calls
    <3> QED
      BY <1>1, <3>1, <3>2
  <2> QED
    BY <2>1, <2>2
<1>2. ASSUME NEW d \in Device, ViewDidAppear(d)
      PROVE  ListCameFirst'
  BY <1>2 DEF ViewDidAppear, Observe, NewHandle, process
<1>3. ASSUME NEW d \in Device, ChildAdded(d) \/ CreateDone(d)
      PROVE  ListCameFirst'
  BY <1>3 DEF ChildAdded, CreateDone, RunCallback, calls, process, nav
<1>4. ASSUME NEW d \in Device, NEW how \in {"stopped", "trapped"}, Stop(d, how)
      PROVE  ListCameFirst'
  BY <1>4 DEF Stop, EndProcess
<1>5. ASSUME NEW d \in Device,
             \/ Launch(d) \/ SelectCommunity(d) \/ OpenScreen(d) \/ Back(d)
             \/ Logout(d) \/ Login(d)
      PROVE  ListCameFirst'
  <2>1. UNCHANGED handles
    BY <1>5 DEF Launch, SelectCommunity, OpenScreen, Back, Logout, Login, dbVars, client,
                calls
  <2>2. CASE Launch(d)
    BY <2>1, <2>2 DEF Launch
  <2>3. CASE SelectCommunity(d) \/ OpenScreen(d)
    BY <2>1, <2>3 DEF SelectCommunity, OpenScreen, OnList, process
  <2>4. CASE Back(d) \/ Logout(d) \/ Login(d)
    BY <2>1, <2>4 DEF Back, Logout, Login, ShowList, process
  <2> QED
    BY <1>5, <2>2, <2>3, <2>4
<1>6. ASSUME NEW d \in Device, EditName(d) \/ CreateCommunityButton(d)
      PROVE  ListCameFirst'
  BY <1>6 DEF EditName, CreateCommunityButton, SetValue, dbVars, client, calls, process,
              nav
<1> QED
  <2>1. ASSUME NEW d \in Device, MainStep(d) \/ UserStep(d)
        PROVE  ListCameFirst'
    <3> HIDE DEF ListCameFirst
    <3>1. CASE Terminate(d) \/ IndexOutOfRange(d)
      BY <1>4, <3>1 DEF Terminate, IndexOutOfRange
    <3> QED
      BY <1>2, <1>3, <1>5, <1>6, <2>1, <3>1 DEF MainStep, UserStep
  <2> QED
    BY <1>1, <2>1 DEF Next

\* A process that has ended leaves nothing behind that could still run.
LEMMA AsleepKept ==
    ASSUME IInv, [Next]_vars
    PROVE  Asleep'
<1>1. SUFFICES ASSUME NEW e \in Device, handles'[e] = 0
               PROVE  /\ work'[e] = << >> /\ inbox'[e] = << >>
                      /\ regs'[e] = {} /\ snap'[e] = {} /\ writes'[e] = {}
                      /\ outstanding'[e] = {} /\ listen'[e] = "none"
  BY DEF Asleep
<1> DEFINE Quiet == /\ work'[e] = << >> /\ inbox'[e] = << >>
                    /\ regs'[e] = {} /\ snap'[e] = {} /\ writes'[e] = {}
                    /\ outstanding'[e] = {} /\ listen'[e] = "none"
<1>a. /\ handles \in [Device -> Nat]
      /\ DOMAIN work = Device /\ DOMAIN inbox = Device /\ DOMAIN regs = Device
      /\ DOMAIN snap = Device /\ DOMAIN writes = Device
      /\ DOMAIN outstanding = Device /\ DOMAIN listen = Device
  <2>1. DbTypeOK
    BY DEF IInv, TypeOK
  <2> QED
    BY <2>1 DEF DbTypeOK
<1> USE <1>a
<1>2. ASSUME handles[e] = 0
      PROVE  /\ work[e] = << >> /\ inbox[e] = << >>
             /\ regs[e] = {} /\ snap[e] = {} /\ writes[e] = {}
             /\ outstanding[e] = {} /\ listen[e] = "none"
  BY <1>2 DEF IInv, Asleep
<1>3. ASSUME UNCHANGED dbVars
      PROVE  Quiet
  BY <1>1, <1>2, <1>3 DEF dbVars, client, calls, view, puts, network
<1>4. ASSUME NEW d \in Device, Observe(d)
      PROVE  Quiet
  <2>1. d # e /\ handles[e] = 0
    BY <1>1, <1>4 DEF Observe, NewHandle
  <2> QED
    BY <1>2, <1>4, <2>1 DEF Observe, view, puts, network
<1>5. ASSUME NEW d \in Device, CreateCommunityButton(d)
      PROVE  Quiet
  <2>1. handles[d] > 0
    BY <1>5 DEF CreateCommunityButton, IInv, ListCameFirst
  <2>2. PICK k \in Key : SetValue(d, k)
    BY <1>5 DEF CreateCommunityButton
  <2> QED
    BY <1>1, <1>2, <2>1, <2>2 DEF SetValue, view, puts, network
<1>6. ASSUME NEW d \in Device, RunCallback(d) \/ EndProcess(d)
      PROVE  Quiet
  <2>1. CASE RunCallback(d)
    BY <1>1, <1>2, <2>1 DEF RunCallback, calls, view, puts, network
  <2>2. CASE EndProcess(d)
    BY <1>1, <1>2, <2>2 DEF EndProcess
  <2> QED
    BY <1>6, <2>1, <2>2
<1>7. ASSUME NEW d \in Device, WorkerStep(d)
      PROVE  Quiet
  <2>1. CASE RunObserve(d) \/ RunSet(d)
    BY <1>1, <1>2, <2>1 DEF RunObserve, RunSet, puts, network
  <2>2. CASE RaiseEvent(d)
    BY <1>1, <1>2, <2>2 DEF RaiseEvent, calls, view, puts, network
  <2>3. CASE ReceiveData(d) \/ ReceiveListenOk(d)
    BY <1>1, <1>2, <2>3 DEF ReceiveData, ReceiveListenOk, Incoming, calls, puts
  <2>4. CASE ReceivePutResponse(d)
    BY <1>1, <1>2, <2>4 DEF ReceivePutResponse, Incoming, calls
  <2> QED
    BY <1>7, <2>1, <2>2, <2>3, <2>4 DEF WorkerStep
<1>8. ASSUME NEW d \in Device, AnswerListen(d) \/ RejectPut(d) \/ Reconnect(d)
      PROVE  Quiet
  <2>1. CASE AnswerListen(d)
    BY <1>1, <1>2, <2>1 DEF AnswerListen, calls, view, puts
  <2>2. CASE RejectPut(d)
    <3>1. PICK k \in Key :
              /\ NextPut(d, k)
              /\ inbox' = [inbox EXCEPT ![d] = Append(@, Answer(k, FALSE))]
              /\ UNCHANGED <<calls, view, outstanding, listen>>
      BY <2>2 DEF RejectPut
    <3>2. handles[e] = 0 /\ d # e
      BY <1>1, <1>2, <3>1 DEF NextPut, calls
    <3> QED
      BY <1>2, <3>1, <3>2 DEF calls, view
  <2>3. CASE Reconnect(d)
    BY <1>1, <1>2, <2>3 DEF Reconnect, RestoredListen, RestoredPuts, calls, view
  <2> QED
    BY <1>8, <2>1, <2>2, <2>3
<1>9. ASSUME NEW d \in Device, AcceptPut(d)
      PROVE  Quiet
  <2>1. PICK k \in Key :
            /\ NextPut(d, k)
            /\ inbox' = [c \in Device |-> inbox[c] \o Pushed(d, k, c)]
            /\ UNCHANGED <<calls, view, outstanding, listen>>
    BY <1>9 DEF AcceptPut
  <2>2. handles[e] = 0
    BY <1>1, <2>1 DEF calls
  <2>3. d # e
    BY <1>2, <2>1, <2>2 DEF NextPut
  <2>4. Pushed(d, k, e) = << >>
    BY <1>2, <2>2, <2>3 DEF Pushed, Serving
  <2>5. inbox'[e] = << >>
    BY <1>2, <2>1, <2>2, <2>4
  <2> QED
    BY <1>2, <2>1, <2>2, <2>5 DEF calls, view
<1>10. ASSUME RemotePut
       PROVE  Quiet
  BY <1>1, <1>2, <1>10 DEF RemotePut, Serving, calls, view, puts
<1> HIDE DEF Quiet
<1>11. ASSUME NEW d \in Device, MainStep(d) \/ UserStep(d)
       PROVE  Quiet
  <2>1. CASE CreateCommunityButton(d)
    BY <1>5, <2>1
  <2>2. CASE ~ CreateCommunityButton(d)
    <3>1. Observe(d) \/ RunCallback(d) \/ EndProcess(d) \/ UNCHANGED dbVars
      BY <1>11, <2>2
      DEF MainStep, UserStep, ViewDidAppear, ChildAdded, CreateDone, Launch, Terminate,
          Stop, SelectCommunity, IndexOutOfRange, OpenScreen, Back, Logout, Login, EditName
    <3> QED
      BY <1>3, <1>4, <1>6, <3>1
  <2> QED
    BY <2>1, <2>2
<1>12. ASSUME Database
       PROVE  Quiet
  BY <1>7, <1>8, <1>9, <1>10, <1>12 DEF Database, DbStep, ServerStep
<1>13. Quiet
  BY <1>3, <1>11, <1>12 DEF Next, vars
<1> QED
  BY <1>13 DEF Quiet

\* Child k is accounted for on device d: not in the view, nameless, appended by
\* the newest observer, or on its way to it.
Accounted(d, k) ==
    k \in View(d) \ Malformed =>
        \/ Appended(d, k, handles[d])
        \/ Underway(d, k, handles[d])
        \/ Queued(d, handles[d])

\* When nothing changes for a device, its newest observer stands where it stood.
LEMMA DeskKept ==
    ASSUME NEW d \in Device, UNCHANGED <<desk(d), arrayOfCommunities[d]>>
    PROVE  /\ (handles[d] > 0 => Known(d, handles[d]))
                => (handles[d] > 0 => Known(d, handles[d]))'
           /\ \A k \in Key : Accounted(d, k) => Accounted(d, k)'
  BY DEF desk, Known, Queued, Accounted, View, Appended, Underway, Waiting, Event

\* A step of the screens on device c leaves every other device alone.
LEMMA ScreensElsewhere ==
    ASSUME TypeOK, NEW c \in Device, NEW d \in Device, c # d, MainStep(c) \/ UserStep(c)
    PROVE  UNCHANGED <<desk(d), arrayOfCommunities[d]>>
<1> USE DEF TypeOK, DbTypeOK, desk
<1>1. UNCHANGED desk(d)
  <2>1. CASE Observe(c)
    BY <2>1 DEF Observe, view, callback
  <2>2. CASE \E k \in Key : SetValue(c, k)
    BY <2>2 DEF SetValue, view, callback
  <2>3. CASE RunCallback(c)
    BY <2>3 DEF RunCallback, calls, view
  <2>4. CASE EndProcess(c)
    BY <2>4 DEF EndProcess
  <2>5. CASE UNCHANGED dbVars
    BY <2>5 DEF dbVars, client, calls, view, callback
  <2> QED
    BY <2>1, <2>2, <2>3, <2>4, <2>5, ScreenCalls
<1>2. UNCHANGED arrayOfCommunities[d]
  <2> HIDE DEF desk
  <2>1. \/ UNCHANGED arrayOfCommunities
        \/ arrayOfCommunities' = [arrayOfCommunities EXCEPT ![c] = << >>]
        \/ \E x : arrayOfCommunities' = [arrayOfCommunities EXCEPT ![c] = x]
    BY DEF MainStep, UserStep, ViewDidAppear, ChildAdded, CreateDone, Launch, Terminate,
           Stop, SelectCommunity, IndexOutOfRange, OpenScreen, Back, Logout, Login,
           EditName, CreateCommunityButton, list
  <2> QED
    BY <2>1
<1> QED
  BY <1>1, <1>2

\* viewDidAppear: the array is empty, and the new observer waits for the worker.
LEMMA AppearAccounts ==
    ASSUME TypeOK, NEW d \in Device, NEW k \in Key, ViewDidAppear(d)
    PROVE  (handles[d] > 0 => Known(d, handles[d]))' /\ Accounted(d, k)'
<1> DEFINE call == [type |-> "observe", reg |-> handles[d] + 1]
<1>1. work'[d] = Append(work[d], call) /\ handles'[d] = handles[d] + 1
  BY DEF ViewDidAppear, Observe, NewHandle, TypeOK, DbTypeOK
<1>2. call \in Call /\ work[d] \in Seq(Call)
  BY DEF ViewDidAppear, Observe, TypeOK, DbTypeOK, Call
<1> HIDE DEF call
<1>3. Len(work[d]) + 1 \in DOMAIN work'[d] /\ work'[d][Len(work[d]) + 1] = call
  BY <1>1, <1>2
<1>4. Queued(d, handles[d])'
  BY <1>1, <1>3 DEF Queued, call
<1> QED
  BY <1>4 DEF Known, Accounted

\* An observer's callback leaves the main queue for the array, if it has a name.
LEMMA CallbackAccounts ==
    ASSUME TypeOK, NEW d \in Device, NEW k \in Key, ChildAdded(d) \/ CreateDone(d),
           Accounted(d, k)
    PROVE  Accounted(d, k)'
<1> DEFINE r == handles[d]
           c == Head(main[d])
<1>1. /\ main[d] # << >> /\ main[d] \in Seq(Callback)
      /\ main'[d] = Tail(main[d])
      /\ UNCHANGED <<handles, work, regs, snap, writes, raising>>
  BY DEF ChildAdded, CreateDone, RunCallback, TypeOK, DbTypeOK, calls, view
<1>2. (c.type = "added" /\ c.key = k /\ c.reg = r /\ k \notin Malformed)
          => Appended(d, k, r)'
  <2>1. SUFFICES ASSUME c.type = "added", c.key = k, c.reg = r, k \notin Malformed
                 PROVE  Appended(d, k, r)'
    OBVIOUS
  <2>2. ChildAdded(d)
    BY <2>1 DEF CreateDone
  <2>3. arrayOfCommunities'[d] = Append(arrayOfCommunities[d], <<k, r>>)
    BY <2>1, <2>2 DEF ChildAdded, TypeOK
  <2>4. <<k, r>> \in Key \X Reg /\ arrayOfCommunities[d] \in Seq(Key \X Reg)
    BY <2>1, <2>2, HeadCallback DEF ChildAdded, TypeOK
  <2> DEFINE entry == <<k, r>>
  <2> HIDE DEF entry
  <2>5. LET n == Len(arrayOfCommunities[d]) + 1
        IN  n \in DOMAIN arrayOfCommunities'[d] /\ arrayOfCommunities'[d][n] = entry
    BY <2>3, <2>4 DEF entry
  <2> QED
    BY <1>1, <2>5 DEF Appended, entry
<1>3. Appended(d, k, r) => Appended(d, k, r)'
  <2>1. \/ UNCHANGED arrayOfCommunities
        \/ /\ ChildAdded(d)
           /\ c.type = "added"
           /\ arrayOfCommunities' =
                  [arrayOfCommunities EXCEPT ![d] = Append(@, <<c.key, c.reg>>)]
    BY DEF ChildAdded, CreateDone, list
  <2>2. CASE UNCHANGED arrayOfCommunities
    BY <1>1, <2>2 DEF Appended
  <2>3. CASE /\ ChildAdded(d)
             /\ c.type = "added"
             /\ arrayOfCommunities' =
                    [arrayOfCommunities EXCEPT ![d] = Append(@, <<c.key, c.reg>>)]
    <3> DEFINE entry == <<c.key, c.reg>>
    <3>1. entry \in Key \X Reg /\ arrayOfCommunities[d] \in Seq(Key \X Reg)
      BY <2>3, HeadCallback DEF ChildAdded, TypeOK
    <3>2. arrayOfCommunities'[d] = Append(arrayOfCommunities[d], entry)
      BY <2>3 DEF TypeOK
    <3> HIDE DEF entry
    <3>3. \A i \in DOMAIN arrayOfCommunities[d] :
              /\ i \in DOMAIN arrayOfCommunities'[d]
              /\ arrayOfCommunities'[d][i] = arrayOfCommunities[d][i]
      BY <3>1, <3>2
    <3> QED
      BY <1>1, <3>3 DEF Appended
  <2> QED
    BY <2>1, <2>2, <2>3
<1>4. (\E i \in Waiting(d) : Event(d, i) = <<k, r>>)
          => \/ (c.type = "added" /\ c.key = k /\ c.reg = r)
             \/ (\E i \in Waiting(d) : Event(d, i) = <<k, r>>)'
  <2>1. SUFFICES ASSUME NEW i \in 1 .. Len(main[d]),
                        main[d][i].type = "added", main[d][i].key = k,
                        main[d][i].reg = r, i # 1
                 PROVE  (\E j \in Waiting(d) : Event(d, j) = <<k, r>>)'
    BY <1>1 DEF Waiting, Event
  <2>2. i - 1 \in DOMAIN main'[d] /\ main'[d][i - 1] = main[d][i]
    BY <1>1, <2>1
  <2> QED
    BY <1>1, <2>1, <2>2 DEF Waiting, Event
<1>5. (Queued(d, r) => Queued(d, r)') /\ handles'[d] = r /\ View(d)' = View(d)
      /\ (<<k, r>> \in raising[d] => <<k, r>> \in raising'[d])
  BY <1>1 DEF Queued, View
<1> QED
  BY <1>2, <1>3, <1>4, <1>5 DEF Accounted, Underway

\* A step of the worker keeps the newest observer known and its children
\* accounted for.
LEMMA WorkerAccounts ==
    ASSUME IInv, NEW d \in Device, NEW k \in Key, WorkerStep(d), handles[d] > 0,
           UNCHANGED arrayOfCommunities, Accounted(d, k)
    PROVE  (handles[d] > 0 => Known(d, handles[d]))' /\ Accounted(d, k)'
<1>1. DbTypeOK /\ handles[d] \in Reg /\ Known(d, handles[d])
  <2>1. DbTypeOK /\ NewestKnown
    BY DEF IInv, TypeOK
  <2>2. handles[d] \in 0 .. MaxHandles
    BY <2>1 DEF DbTypeOK
  <2> QED
    BY <2>1, <2>2 DEF NewestKnown
<1>2. UNCHANGED handles
  BY DEF WorkerStep, RunObserve, RunSet, RaiseEvent, ReceiveData, ReceiveListenOk,
         ReceivePutResponse, calls
<1> DEFINE r == handles[d]
<1>3. /\ Known(d, r)'
      /\ Underway(d, k, r) => Underway(d, k, r)'
      /\ k \in View(d)' => k \in View(d) \/ Underway(d, k, r)' \/ Queued(d, r)'
      /\ (k \in View(d)' /\ Queued(d, r)) => Queued(d, r)' \/ Underway(d, k, r)'
  BY <1>1, <1>2, WorkerDelivers
<1>4. Appended(d, k, r) => Appended(d, k, r)'
  BY <1>2 DEF Appended
<1> QED
  BY <1>2, <1>3, <1>4 DEF Accounted

\* Every step, seen from one device and one child.
LEMMA StepAccounts ==
    ASSUME IInv, [Next]_vars, NEW d \in Device, NEW k \in Key
    PROVE  (handles[d] > 0 => Known(d, handles[d]))' /\ Accounted(d, k)'
<1> DEFINE Goal == (handles[d] > 0 => Known(d, handles[d]))' /\ Accounted(d, k)'
<1>1. TypeOK /\ DbTypeOK /\ (handles[d] > 0 => Known(d, handles[d])) /\ Accounted(d, k)
  BY DEF IInv, TypeOK, NewestKnown, NoLostCommunity, Accounted
<1>2. ASSUME UNCHANGED <<desk(d), arrayOfCommunities[d]>>
      PROVE  Goal
  BY <1>1, <1>2, DeskKept
<1> HIDE DEF Goal
<1>3. ASSUME MainStep(d)
      PROVE  Goal
  <2>1. CASE ViewDidAppear(d)
    BY <1>1, <2>1, AppearAccounts DEF Goal
  <2>2. CASE ChildAdded(d) \/ CreateDone(d)
    <3>1. UNCHANGED <<handles, work, regs>>
      BY <2>2 DEF ChildAdded, CreateDone, RunCallback, calls, view
    <3>2. (handles[d] > 0 => Known(d, handles[d]))'
      BY <1>1, <3>1 DEF Known, Queued
    <3> QED
      BY <1>1, <2>2, <3>2, CallbackAccounts DEF Goal
  <2> QED
    BY <1>3, <2>1, <2>2 DEF MainStep
<1>4. ASSUME UserStep(d)
      PROVE  Goal
  <2>1. CASE Terminate(d) \/ IndexOutOfRange(d)
    <3>1. handles'[d] = 0 /\ View(d)' = {}
      BY <1>1, <2>1 DEF Terminate, IndexOutOfRange, Stop, EndProcess, DbTypeOK, View
    <3> QED
      BY <3>1 DEF Goal, Accounted
  <2>2. CASE CreateCommunityButton(d)
    <3>1. PICK j \in Key : SetValue(d, j)
      BY <2>2 DEF CreateCommunityButton
    <3>2. UNCHANGED <<handles, view, callback, arrayOfCommunities>>
      BY <2>2, <3>1 DEF CreateCommunityButton, SetValue, list
    <3> DEFINE call == [type |-> "set", key |-> j]
    <3>3. call \in Call /\ work[d] \in Seq(Call)
      BY <1>1 DEF DbTypeOK, Call
    <3>4. work'[d] = Append(work[d], call)
      BY <1>1, <3>1 DEF SetValue, DbTypeOK
    <3> HIDE DEF call
    <3>5. \A i \in DOMAIN work[d] : i \in DOMAIN work'[d] /\ work'[d][i] = work[d][i]
      BY <3>3, <3>4
    <3>6. Queued(d, handles[d]) => Queued(d, handles[d])'
      BY <3>2, <3>5 DEF Queued
    <3> QED
      BY <1>1, <3>2, <3>6
      DEF Goal, Known, Accounted, View, Appended, Underway, Waiting, Event, view, callback
  <2>3. CASE ~ (Terminate(d) \/ IndexOutOfRange(d) \/ CreateCommunityButton(d))
    <3>1. UNCHANGED dbVars /\ UNCHANGED arrayOfCommunities
      BY <1>4, <2>3
      DEF UserStep, Launch, SelectCommunity, OpenScreen, Back, Logout, Login, EditName, list
    <3> QED
      BY <1>2, <3>1 DEF dbVars, client, calls, view, callback, desk
  <2> QED
    BY <2>1, <2>2, <2>3
<1>5. ASSUME NEW c \in Device, c # d, MainStep(c) \/ UserStep(c)
      PROVE  Goal
  BY <1>1, <1>2, <1>5, ScreensElsewhere
<1>6. ASSUME Database
      PROVE  Goal
  <2>1. UNCHANGED arrayOfCommunities
    BY <1>6 DEF Database, list
  <2>2. CASE WorkerStep(d)
    <3>1. CASE handles[d] > 0
      BY <1>1, <2>1, <2>2, <3>1, WorkerAccounts DEF Goal
    <3>2. CASE handles[d] = 0
      <4>1. work[d] = << >> /\ inbox[d] = << >> /\ View(d) = {}
        BY <3>2 DEF IInv, Asleep, View
      <4>2. RaiseEvent(d)
        BY <2>2, <4>1 DEF WorkerStep, RunObserve, RunSet, ReceiveData, ReceiveListenOk,
                          ReceivePutResponse, Incoming
      <4>3. handles'[d] = 0 /\ View(d)' = {}
        BY <3>2, <4>1, <4>2 DEF RaiseEvent, calls, view, View
      <4> QED
        BY <4>3 DEF Goal, Accounted
    <3> QED
      BY <1>1, <3>1, <3>2 DEF DbTypeOK
  <2>3. ASSUME NEW c \in Device, c # d, WorkerStep(c)
        PROVE  Goal
    BY <1>1, <1>2, <2>1, <2>3, WorkerElsewhere
  <2>4. CASE RemotePut \/ \E c \in Device : ServerStep(c) \/ Reconnect(c)
    BY <1>2, <2>1, <2>4, NetworkApart
  <2> QED
    BY <1>6, <2>2, <2>3, <2>4 DEF Database, DbStep
<1>7. ASSUME UNCHANGED vars
      PROVE  Goal
  BY <1>2, <1>7 DEF vars, dbVars, client, calls, view, callback, list, desk
<1>8. Goal
  BY <1>3, <1>4, <1>5, <1>6, <1>7 DEF Next
<1> QED
  BY <1>8 DEF Goal

LEMMA InitAccounts == Init => IInv
<1>1. Init => TypeOK
  BY InitTypes
<1>2. Init => Asleep /\ NewestKnown /\ ListCameFirst /\ NoLostCommunity
  BY DEF Init, DbInit, Asleep, NewestKnown, ListCameFirst, NoLostCommunity, View
<1> QED
  BY <1>1, <1>2 DEF IInv

LEMMA StaysAccounted ==
    ASSUME IInv, [Next]_vars
    PROVE  IInv'
<1>1. TypeOK'
  BY DbTypesKept, ScreenTypesKept DEF IInv, TypeOK, ScreenTypeOK
<1>2. NewestKnown'
  BY StepAccounts DEF NewestKnown
<1>3. NoLostCommunity'
  <2>1. \A d \in Device : View(d)' \subseteq Key
    BY <1>1 DEF TypeOK, DbTypeOK, View
  <2>2. \A d \in Device, k \in Key : Accounted(d, k)'
    BY StepAccounts
  <2> QED
    BY <2>1, <2>2 DEF NoLostCommunity, Accounted
<1> QED
  BY <1>1, <1>2, <1>3, AsleepKept, NavigationKept DEF IInv

\* Whatever the order of viewDidAppear, of the observers' callbacks, of local
\* writes, server data, reconnections and restarts, no named community of the
\* device's view is lost to the list: CommunityVC may empty its array because
\* the new observer is told of the whole view again.
THEOREM NothingLost == Spec => []NoLostCommunity
<1>1. IInv /\ [Next]_vars => IInv'
  BY StaysAccounted
<1>2. IInv => NoLostCommunity
  BY DEF IInv
<1> QED
  BY <1>1, <1>2, InitAccounts, PTL DEF Spec

-----------------------------------------------------------------------------
(* One observer appends a community once.                                  *)

\* The inductive invariant behind OncePerObserver and StoredStaysVisible.
OnceInv ==
    /\ IInv
    /\ Orderly
    /\ \A d \in Device : /\ Served(d, Entries(arrayOfCommunities[d]))
                         /\ Distinct(arrayOfCommunities[d])

\* CreateCommunityVC is shown by a list that has asked for the communities.
LEMMA CreatesAfterAsking ==
    ASSUME IInv, Orderly, NEW c \in Device, CreateCommunityButton(c)
    PROVE  Asked(c)
<1>1. handles[c] > 0
  BY DEF CreateCommunityButton, IInv, ListCameFirst
<1>2. Known(c, handles[c])
  BY <1>1 DEF IInv, NewestKnown
<1>3. CASE handles[c] \in regs[c]
  BY <1>3 DEF Orderly, NothingAsked, Asked
<1>4. CASE Queued(c, handles[c])
  <2>1. DOMAIN << >> = {}
    OBVIOUS
  <2> QED
    BY <1>4, <2>1 DEF Queued, Asked
<1> QED
  BY <1>2, <1>3, <1>4 DEF Known

\* What a step of the screens on c is for the database.
LEMMA ScreenSteps ==
    ASSUME IInv, Orderly, NEW c \in Device, MainStep(c) \/ UserStep(c)
    PROVE  AppStep(c) \/ UNCHANGED dbVars
<1>1. CASE CreateCommunityButton(c)
  BY <1>1, CreatesAfterAsking DEF CreateCommunityButton, AppStep, Calling
<1>2. CASE ~ CreateCommunityButton(c)
  BY <1>2 DEF MainStep, UserStep, ViewDidAppear, ChildAdded, CreateDone, Launch, Terminate,
              Stop, SelectCommunity, IndexOutOfRange, OpenScreen, Back, Logout, Login,
              EditName, AppStep, Calling
<1> QED
  BY <1>1, <1>2

\* What a step is for device d: its process lives and the array is what it was or
\* empty, or a callback runs and may append its pair, or the process ends.
LEMMA StepOnDevice ==
    ASSUME IInv, Orderly, [Next]_vars, NEW d \in Device
    PROVE  \/ /\ Lives(d)
              /\ arrayOfCommunities'[d] \in {arrayOfCommunities[d], << >>}
           \/ /\ RunCallback(d)
              /\ \/ UNCHANGED arrayOfCommunities[d]
                 \/ /\ Head(main[d]).type = "added"
                    /\ arrayOfCommunities'[d] =
                           Append(arrayOfCommunities[d],
                                  <<Head(main[d]).key, Head(main[d]).reg>>)
           \/ EndProcess(d) /\ arrayOfCommunities'[d] = << >>
<1>a. TypeOK /\ DbTypeOK /\ DOMAIN arrayOfCommunities = Device
  BY DEF IInv, TypeOK
<1>1. CASE Database \/ UNCHANGED vars
  <2>1. Lives(d)
    BY <1>1 DEF Database, vars, Lives
  <2>2. UNCHANGED arrayOfCommunities
    BY <1>1 DEF Database, vars, list
  <2> QED
    BY <2>1, <2>2
<1>2. ASSUME NEW c \in Device, c # d, MainStep(c) \/ UserStep(c)
      PROVE  Lives(d) /\ UNCHANGED arrayOfCommunities[d]
  <2>1. UNCHANGED arrayOfCommunities[d]
    BY <1>a, <1>2, ScreensElsewhere
  <2> QED
    BY <1>2, <2>1, ScreenSteps DEF Lives
<1>3. CASE ViewDidAppear(d)
  BY <1>a, <1>3 DEF ViewDidAppear, Lives, Calling
<1>4. CASE ChildAdded(d)
  BY <1>a, <1>4 DEF ChildAdded, list
<1>5. CASE CreateDone(d)
  BY <1>5 DEF CreateDone, list
<1>6. CASE Terminate(d) \/ IndexOutOfRange(d)
  BY <1>a, <1>6 DEF Terminate, IndexOutOfRange, Stop
<1>7. CASE CreateCommunityButton(d)
  BY <1>7, CreatesAfterAsking DEF CreateCommunityButton, list, Lives, Calling
<1>8. CASE \/ Launch(d) \/ SelectCommunity(d) \/ OpenScreen(d)
           \/ Back(d) \/ Logout(d) \/ Login(d) \/ EditName(d)
  BY <1>8 DEF Launch, SelectCommunity, OpenScreen, Back, Logout, Login, EditName, list, Lives
<1> QED
  BY <1>1, <1>2, <1>3, <1>4, <1>5, <1>6, <1>7, <1>8 DEF Next, MainStep, UserStep

\* Every step is one of the database and its users.
LEMMA NextIsStep ==
    ASSUME IInv, Orderly, [Next]_vars
    PROVE  Step
<1>1. CASE Database \/ UNCHANGED vars
  BY <1>1 DEF Database, vars, Step
<1> QED
  BY <1>1, ScreenSteps DEF Next, Step

\* Every step delivers a pair at most once to the array of d.
LEMMA DeliveredOnce ==
    ASSUME OnceInv, DbTypeOK', [Next]_vars, NEW d \in Device
    PROVE  (/\ Served(d, Entries(arrayOfCommunities[d]))
            /\ Distinct(arrayOfCommunities[d]))'
<1> PICK D : D = Entries(arrayOfCommunities[d])
  OBVIOUS
<1>1. /\ TypeOK /\ DbTypeOK /\ Orderly /\ IInv
      /\ Served(d, D) /\ Distinct(arrayOfCommunities[d])
  BY DEF OnceInv, IInv, TypeOK
<1>2. ASSUME NEW E, Served(d, E)', E = Entries(arrayOfCommunities'[d])
      PROVE  Served(d, Entries(arrayOfCommunities[d]))'
  BY <1>2
<1>3. CASE Lives(d) /\ arrayOfCommunities'[d] \in {arrayOfCommunities[d], << >>}
  <2>1. Served(d, D)' /\ {} \subseteq D
    BY <1>1, <1>3, ServedKept
  <2>2. Served(d, {})'
    BY <2>1, ServedLess
  <2> QED
    BY <1>1, <1>2, <1>3, <2>1, <2>2, EmptyArray
<1>4. CASE RunCallback(d) /\ UNCHANGED arrayOfCommunities[d]
  <2>1. Served(d, D)'
    BY <1>1, <1>4, ServedRun
  <2> QED
    BY <1>1, <1>2, <1>4, <2>1
<1>5. CASE /\ RunCallback(d)
           /\ Head(main[d]).type = "added"
           /\ arrayOfCommunities'[d] = Append(arrayOfCommunities[d],
                                              <<Head(main[d]).key, Head(main[d]).reg>>)
  <2> PICK e : e = <<Head(main[d]).key, Head(main[d]).reg>>
    OBVIOUS
  <2>1. e \in Key \X Reg /\ arrayOfCommunities[d] \in Seq(Key \X Reg)
    BY <1>1, <1>5, HeadCallback DEF TypeOK
  <2>2. e \notin D /\ Served(d, D \cup {e})'
    BY <1>1, <1>5, ServedRun
  <2>3. /\ Distinct(arrayOfCommunities'[d])
        /\ D \cup {e} = Entries(arrayOfCommunities'[d])
    <3> DEFINE a == arrayOfCommunities[d]
               Pair == Key \X Reg
    <3>1. a \in Seq(Pair) /\ e \in Pair /\ Distinct(a) /\ e \notin Entries(a)
      BY <1>1, <2>1, <2>2
    <3>2. arrayOfCommunities'[d] = Append(a, e) /\ D = Entries(a)
      BY <1>5
    <3> HIDE DEF a, Pair
    <3>3. Distinct(Append(a, e)) /\ Entries(Append(a, e)) = Entries(a) \cup {e}
      BY <3>1, DistinctAppend
    <3> QED
      BY <3>2, <3>3
  <2> QED
    BY <1>2, <2>2, <2>3
<1>6. CASE EndProcess(d) /\ arrayOfCommunities'[d] = << >>
  <2>1. Served(d, {})'
    BY <1>1, <1>6, ServedEnd
  <2> QED
    BY <1>2, <1>6, <2>1, EmptyArray
<1> QED
  BY <1>1, <1>3, <1>4, <1>5, <1>6, StepOnDevice

LEMMA AlwaysOnce == Spec => []OnceInv
<1>1. Init => OnceInv
  <2> SUFFICES ASSUME Init
               PROVE  OnceInv
    OBVIOUS
  <2>1. DbInit("none") /\ \A d \in Device : arrayOfCommunities[d] = << >>
    BY DEF Init
  <2>2. Orderly
    BY <2>1, InitOrderly
  <2>3. \A d \in Device : Served(d, {})
    BY <2>1, InitServed
  <2> QED
    BY <2>1, <2>2, <2>3, InitAccounts, EmptyArray DEF OnceInv
<1>2. OnceInv /\ [Next]_vars => OnceInv'
  <2> SUFFICES ASSUME OnceInv, [Next]_vars
               PROVE  OnceInv'
    OBVIOUS
  <2>1. IInv /\ Orderly /\ DbTypeOK
    BY DEF OnceInv, IInv, TypeOK
  <2>2. IInv' /\ DbTypeOK'
    BY <2>1, StaysAccounted DEF IInv, TypeOK
  <2>3. Orderly'
    BY <2>1, <2>2, NextIsStep, OrderlyKept
  <2> QED
    BY <2>2, <2>3, DeliveredOnce DEF OnceInv
<1> QED
  BY <1>1, <1>2, PTL DEF Spec

\* An observer appends a community once since the array was emptied, whichever
\* way it reached the device: as its own write, with the server's data, or again
\* with the whole list after a reconnection.
THEOREM AppendedOnce == Spec => []OncePerObserver
<1>1. OnceInv => OncePerObserver
  <2> SUFFICES ASSUME OnceInv, NEW d \in Device
               PROVE  /\ Distinct(arrayOfCommunities[d])
                      /\ \A i, j \in Waiting(d) : Event(d, i) = Event(d, j) => i = j
                      /\ \A i \in Waiting(d) :
                            /\ Event(d, i) \notin raising[d]
                            /\ ~ Appended(d, main[d][i].key, main[d][i].reg)
                      /\ \A e \in raising[d] : ~ Appended(d, e[1], e[2])
    BY DEF OncePerObserver, Distinct
  <2>1. /\ EventsOnce(d) /\ Delivered(d, Entries(arrayOfCommunities[d]))
        /\ Distinct(arrayOfCommunities[d])
    BY DEF OnceInv, Served
  <2>2. \A k, r : Appended(d, k, r) => <<k, r>> \in Entries(arrayOfCommunities[d])
    BY DEF Appended, Entries
  <2>3. \A e \in raising[d] : e = <<e[1], e[2]>>
    BY DEF OnceInv, IInv, TypeOK, DbTypeOK
  <2>4. \A e \in raising[d] : ~ Appended(d, e[1], e[2])
    BY <2>1, <2>2, <2>3 DEF Delivered
  <2>5. \A i \in Waiting(d) : ~ Appended(d, main[d][i].key, main[d][i].reg)
    BY <2>1, <2>2 DEF Delivered, Event
  <2> QED
    BY <2>1, <2>4, <2>5 DEF EventsOnce
<1> QED
  BY <1>1, AlwaysOnce, PTL

\* While the app runs, a community that the server stores does not leave the view
\* again: neither the acknowledgement of the local write nor a lost connection
\* takes it out before the server's own data is in.
THEOREM StoredStays == Spec => StoredStaysVisible
<1>1. ASSUME OnceInv, [Next]_vars, NEW d \in Device, NEW k \in View(d),
             k \in committed, status'[d] = "running"
      PROVE  k \in View(d)'
  <2>1. IInv /\ Orderly /\ DbTypeOK /\ DbTypeOK' /\ TypeOK
    BY <1>1, StaysAccounted DEF OnceInv, IInv, TypeOK
  <2>2. Step
    BY <1>1, <2>1, NextIsStep
  <2>3. Settled \subseteq Settled' /\ committed \subseteq committed'
    BY <2>1, <2>2, OrderlyKept, CommittedGrows
  <2>4. CASE Lives(d) \/ RunCallback(d)
    <3>1. k \in View(d)' \cup Gone'
      BY <1>1, <2>1, <2>3, <2>4, ViewKept
    <3> QED
      BY <1>1, <2>3, <3>1 DEF Gone
  <2>5. CASE ~ (Lives(d) \/ RunCallback(d))
    <3>1. CASE Terminate(d) \/ IndexOutOfRange(d)
      BY <1>1, <2>1, <3>1 DEF Terminate, IndexOutOfRange, Stop, TypeOK
    <3>2. CASE ~ (Terminate(d) \/ IndexOutOfRange(d))
      <4>1. \/ ViewDidAppear(d) \/ ChildAdded(d) \/ CreateDone(d) \/ Launch(d)
            \/ SelectCommunity(d) \/ OpenScreen(d) \/ Back(d) \/ Logout(d) \/ Login(d)
            \/ EditName(d) \/ CreateCommunityButton(d)
            \/ \E c \in Device : c # d /\ (MainStep(c) \/ UserStep(c))
            \/ Database \/ UNCHANGED vars
        BY <1>1, <3>2 DEF Next, MainStep, UserStep
      <4>2. Lives(d) \/ RunCallback(d)
        BY <2>1, <4>1, ScreenSteps, CreatesAfterAsking
        DEF ViewDidAppear, ChildAdded, CreateDone, Launch, SelectCommunity, OpenScreen, Back,
            Logout, Login, EditName, CreateCommunityButton, Database, vars, Lives, Calling
      <4> QED
        BY <2>5, <4>2
    <3> QED
      BY <3>1, <3>2
  <2> QED
    BY <2>4, <2>5
<1>2. OnceInv /\ [Next]_vars =>
          [\A d \in Device : \A k \in View(d) :
              (k \in committed /\ status'[d] = "running") => k \in View(d)']_vars
  BY <1>1
<1> QED
  BY <1>2, AlwaysOnce, PTL DEF Spec, StoredStaysVisible
=============================================================================
