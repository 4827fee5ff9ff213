---------------------------- MODULE AccountProofs ----------------------------
(***************************************************************************)
(* Proofs about Account, for any users, addresses and bounds.              *)
(***************************************************************************)
EXTENDS Account, WellFoundedInduction, TLAPS

USE AccountAssumption

-----------------------------------------------------------------------------
(* Lemmas about the operators.                                             *)

\* The sets that hold more than users and addresses.
LEMMA Extras ==
    None \in Holder /\ User \subseteq Holder /\ Blank \in Text /\ Email \subseteq Text
  BY DEF Holder, Text

\* A set of numbers has a least one.
LEMMA Least ==
    ASSUME NEW S \in SUBSET Nat, S # {}
    PROVE  \E m \in S : \A s \in S : m <= s
<1> DEFINE R == {ss \in Nat \X Nat : ss[1] < ss[2]}
<1>1. PICK m \in S : \A s \in S : <<s, m>> \notin R
  <2>1. IsWellFoundedOn(R, Nat)
    BY NatLessThanWellFounded, Zenon DEF OpToRel
  <2>2. IsWellFoundedOn(R, S)
    BY <2>1, IsWellFoundedOnSubset, Zenon
  <2> HIDE DEF R
  <2> QED
    BY <2>2, WFMin, Zenon
<1>2. \A s, n \in Nat : <<s, n>> \notin R => n <= s
  OBVIOUS
<1> QED
  BY <1>1, <1>2

\* What getDocument finds: the queued writes are applied one after the other, and
\* each leaves a document or none.
LEMMA LocalDocSteps ==
    ASSUME TypeOK, NEW u \in User
    PROVE  \E after :
              /\ LocalDoc(u) = after[Len(mutations[firestoreUser])]
              /\ \A n \in 0 .. Len(mutations[firestoreUser]) :
                    /\ after[n] \in Text \cup {None}
                    /\ after[n] =
                          IF n = 0 THEN doc[u]
                          ELSE IF mutations[firestoreUser][n].user = u
                               THEN Applied(mutations[firestoreUser][n], after[n - 1])
                          ELSE after[n - 1]
<1> DEFINE q == mutations[firestoreUser]
<1> DEFINE Value == Text \cup {None}
<1> DEFINE next(n, v) == IF n = 0 THEN doc[u]
                         ELSE IF q[n].user = u THEN Applied(q[n], v) ELSE v
<1> DEFINE Applies(f, k) == \A n \in 0 .. k : f[n] = next(n, f[n - 1])
<1>1. /\ q \in Seq(Mutation) /\ Len(q) \in Nat
      /\ doc[u] \in Value
      /\ \A i \in 1 .. Len(q) : q[i] \in Mutation
  BY DEF TypeOK
<1>2. \A v : next(0, v) = doc[u]
  OBVIOUS
<1>3. \A n \in 1 .. Len(q), v \in Value : next(n, v) \in Value
  <2>1. SUFFICES ASSUME NEW n \in 1 .. Len(q), NEW v \in Value
                 PROVE  next(n, v) \in Value
    OBVIOUS
  <2>2. q[n].email \in Text
    BY <1>1 DEF Mutation
  <2>3. Applied(q[n], v) \in Value
    BY <2>2 DEF Applied
  <2> QED
    BY <2>1, <2>3
<1> DEFINE L == Len(q)
<1>4. L \in Nat
  BY <1>1
<1>5. LocalDoc(u) = (CHOOSE f : f = [n \in 0 .. L |-> next(n, f[n - 1])])[L]
  BY DEF LocalDoc
<1> HIDE DEF q, next, L, Value
<1>6. \A k \in 0 .. L : \E f \in [0 .. k -> Value] : Applies(f, k)
  <2> DEFINE S == {k \in 0 .. L : ~ \E f \in [0 .. k -> Value] : Applies(f, k)}
  <2>1. SUFFICES ASSUME S # {} PROVE FALSE
    OBVIOUS
  <2>2. PICK m \in S : \A s \in S : m <= s
    <3>1. S \in SUBSET Nat
      BY <1>4
    <3> HIDE DEF S
    <3> QED
      BY <2>1, <3>1, Least, Zenon
  <2>3. CASE m = 0
    <3> DEFINE f == [n \in 0 .. 0 |-> doc[u]]
    <3>1. f \in [0 .. 0 -> Value] /\ Applies(f, 0)
      BY <1>1, <1>2
    <3> QED
      BY <2>2, <2>3, <3>1
  <2>4. CASE m # 0
    <3>1. PICK f \in [0 .. m - 1 -> Value] : Applies(f, m - 1)
      BY <1>4, <2>2, <2>4
    <3> DEFINE g == [n \in 0 .. m |-> IF n = m THEN next(m, f[m - 1]) ELSE f[n]]
    <3>2. g \in [0 .. m -> Value]
      BY <1>3, <1>4, <2>2, <2>4, <3>1 DEF L
    <3>3. Applies(g, m)
      BY <1>2, <1>4, <2>2, <2>4, <3>1
    <3> QED
      BY <2>2, <3>2, <3>3
  <2> QED
    BY <2>3, <2>4
<1>7. \E f : f = [n \in 0 .. L |-> next(n, f[n - 1])]
  <2>1. PICK f \in [0 .. L -> Value] : Applies(f, L)
    BY <1>4, <1>6
  <2>2. f = [n \in 0 .. L |-> next(n, f[n - 1])]
    BY <2>1
  <2> QED
    BY <2>2
<1> DEFINE after == CHOOSE f : f = [n \in 0 .. L |-> next(n, f[n - 1])]
<1>8. after = [n \in 0 .. L |-> next(n, after[n - 1])]
  BY <1>7
<1> HIDE DEF after
<1>9. \A k \in 0 .. L : after[k] \in Value
  <2> DEFINE S == {k \in 0 .. L : after[k] \notin Value}
  <2>1. SUFFICES ASSUME S # {} PROVE FALSE
    OBVIOUS
  <2>2. PICK m \in S : \A s \in S : m <= s
    <3>1. S \in SUBSET Nat
      BY <1>4
    <3> HIDE DEF S
    <3> QED
      BY <2>1, <3>1, Least, Zenon
  <2>3. after[m] = next(m, after[m - 1])
    BY <1>8, <2>2
  <2>4. CASE m = 0
    BY <1>1, <1>2, <2>2, <2>3, <2>4
  <2>5. CASE m # 0
    <3>1. after[m - 1] \in Value
      BY <1>4, <2>2, <2>5
    <3> QED
      BY <1>3, <1>4, <2>2, <2>3, <2>5, <3>1 DEF L
  <2> QED
    BY <2>4, <2>5
<1>10. LocalDoc(u) = after[L]
  BY <1>5 DEF after
<1>11. \A n \in 0 .. L : after[n] = next(n, after[n - 1])
  BY <1>8
<1> QED
  BY <1>9, <1>10, <1>11 DEF Value, L, next, q

\* What getDocument finds is a document or none.
LEMMA LocalDocType ==
    ASSUME TypeOK, NEW u \in User
    PROVE  LocalDoc(u) \in Text \cup {None}
<1>1. Len(mutations[firestoreUser]) \in Nat
  BY DEF TypeOK
<1> QED
  BY <1>1, LocalDocSteps

-----------------------------------------------------------------------------
(* The inductive invariant.                                                *)

\* What a request is for: a sign-up has an address; an address to be changed,
\* and an account to be deleted, have a user; a user is signed up when the
\* request has gone well, which it has not before it is answered.
IsKnown(r) ==
    /\ r.stage = "asked" => r.result = "none"
    /\ r.op = "signup" => r.email \in Email
    /\ r.op \in {"updateEmail", "delete"} => r.user \in User
    /\ (r.op = "signup" /\ r.result = "ok") => r.user \in User

RequestsKnown == \A r \in requests : IsKnown(r)

\* What the main queue holds.
Item == News \cup {r \in Request : IsKnown(r)}

MainKnown == main \in Seq(Item)

\* Without a process there is nothing to answer.
ProcessEnds == running \/ (requests = {} /\ main = << >>)

\* Firestore, if it knows f, knows user u after the first n items of a main queue:
\* the last news among them is about u, or there is none and f is u.
Hears(queue, f, u, n) ==
    \/ f = u /\ \A k \in 1 .. n : queue[k].op # "news"
    \/ \E j \in 1 .. n :
          queue[j] = NewsOf(u) /\ \A k \in j + 1 .. n : queue[k].op # "news"

\* Firestore hears of user c in the end, and before a sign-up is completed of the
\* user who was signed up.
InOrder(queue, f, c) ==
    /\ Hears(queue, f, c, Len(queue))
    /\ \A i \in DOMAIN queue :
          (queue[i].op = "signup" /\ queue[i].result = "ok") =>
              Hears(queue, f, queue[i].user, i - 1)

NewsInOrder == running => InOrder(main, firestoreUser, currentUser)

\* The login screen stands over the list, and what it presents over the login
\* screen; a profile screen on top of the stack is in the stack.
ScreensInPlace ==
    /\ over # "none" => loginVC # 0
    /\ loginVC # 0 => top = "list"
    /\ top = "profile" => profileVC # 0
    /\ running \/ top = "list"

\* A lookup of the profile screen is for the user who was signed in when it appeared;
\* a screen that has still to appear has none.
LookupsOfScreens ==
    /\ profileVC <= controllers
    /\ \A look \in lookups :
          look.vc <= controllers /\ (look.vc = profileVC => look.user = openedBy)
    /\ (top = "profile" /\ appearing) =>
          loadedFor = None /\ \A look \in lookups : look.vc # profileVC

\* A deletion that is queued was confirmed by the owner.
DeletionsExcused ==
    \A q \in Holder : \A i \in DOMAIN mutations[q] :
        mutations[q][i].op = "delete" => mutations[q][i].user \in excused

IInv ==
    /\ TypeOK
    /\ RequestsKnown /\ MainKnown /\ ProcessEnds /\ NewsInOrder
    /\ ScreensInPlace /\ LookupsOfScreens /\ DeletionsExcused
    /\ ProfileAccounted /\ ShowsWhoOpened

-----------------------------------------------------------------------------
(* Requests.                                                               *)

\* A new request is known for what it is.
LEMMA AskKeeps ==
    ASSUME requests \in SUBSET Request, RequestsKnown, calls \in 0 .. MaxCalls,
           NEW left \in SUBSET Request,
           \A s \in left : IsKnown(s),
           NEW op \in {"signup", "login", "reset", "updateEmail", "delete"},
           NEW v \in Controller, NEW u \in Holder, NEW e \in Text,
           op = "signup" => e \in Email,
           op \in {"updateEmail", "delete"} => u \in User,
           NewCall,
           requests' = left \cup {[id |-> calls', op |-> op, vc |-> v, user |-> u,
                                   email |-> e, stage |-> "asked", result |-> "none"]}
    PROVE  requests' \in SUBSET Request /\ RequestsKnown' /\ calls' \in 0 .. MaxCalls
<1> DEFINE new == [id |-> calls', op |-> op, vc |-> v, user |-> u, email |-> e,
                   stage |-> "asked", result |-> "none"]
<1>1. calls' \in 1 .. MaxCalls
  BY DEF NewCall
<1>2. new \in Request
  BY <1>1 DEF Request
<1>3. /\ new.stage = "asked" /\ new.result = "none" /\ new.op = op /\ new.user = u
      /\ new.email = e
  OBVIOUS
<1> HIDE DEF new
<1>4. requests' = left \cup {new}
  BY DEF new
<1> QED
  BY <1>1, <1>2, <1>3, <1>4 DEF RequestsKnown, IsKnown

\* The user there is after the SDK has handled an answer.
LEMMA UserAfterType ==
    ASSUME requests \in SUBSET Request, currentUser \in Holder, NEW r \in requests
    PROVE  UserAfter(r) \in Holder
  BY DEF UserAfter, Request, Holder

\* The second read of currentUser, with the request that follows it.
LEMMA AskAgainKeeps ==
    ASSUME requests \in SUBSET Request, RequestsKnown, calls \in 0 .. MaxCalls,
           currentUser \in Holder, profileVC \in Controller,
           NEW op \in {"updateEmail", "delete"}, NEW e \in Text, AskAgain(op, e)
    PROVE  /\ requests' \in SUBSET Request /\ RequestsKnown' /\ calls' \in 0 .. MaxCalls
           /\ currentUser' \in Holder
<1>1. PICK r \in requests \cup {None} :
           /\ r # None => r.stage = "answered"
           /\ currentUser' = IF r # None THEN UserAfter(r) ELSE currentUser
           /\ NewCall
           /\ requests' = (IF r # None THEN requests \ {r} ELSE requests) \cup
                  IF currentUser' = None THEN {}
                  ELSE {[id |-> calls', op |-> op, vc |-> profileVC,
                         user |-> currentUser', email |-> e, stage |-> "asked",
                         result |-> "none"]}
  BY DEF AskAgain
<1> DEFINE left == IF r # None THEN requests \ {r} ELSE requests
<1>2. /\ left \in SUBSET Request
      /\ \A s \in left : IsKnown(s)
  BY DEF RequestsKnown
<1>3. currentUser' \in Holder
  BY <1>1, UserAfterType
<1> HIDE DEF left
<1>4. CASE currentUser' = None
  <2>1. requests' = left /\ calls' \in 0 .. MaxCalls
    BY <1>1, <1>4 DEF left, NewCall
  <2> QED
    BY <1>2, <1>3, <2>1 DEF RequestsKnown
<1>5. CASE currentUser' # None
  <2>1. currentUser' \in User
    BY <1>3, <1>5 DEF Holder
  <2>2. NewCall
    BY <1>1
  <2>3. requests' = left \cup {[id |-> calls', op |-> op, vc |-> profileVC,
                               user |-> currentUser', email |-> e, stage |-> "asked",
                               result |-> "none"]}
    BY <1>1, <1>5 DEF left
  <2> QED
    BY <1>2, <1>3, <2>1, <2>2, <2>3, AskKeeps
<1> QED
  BY <1>4, <1>5

\* Every step keeps the requests.
LEMMA RequestsKept ==
    ASSUME TypeOK, RequestsKnown, ScreensInPlace, [Next]_vars
    PROVE  requests' \in SUBSET Request /\ RequestsKnown' /\ calls' \in 0 .. MaxCalls
<1> DEFINE Kept == requests' \in SUBSET Request /\ RequestsKnown' /\ calls' \in 0 .. MaxCalls
<1>1. /\ requests \in SUBSET Request /\ calls \in 0 .. MaxCalls
      /\ currentUser \in Holder /\ profileEmail \in Text
      /\ loginVC \in 0 .. MaxControllers /\ profileVC \in 0 .. MaxControllers
  BY DEF TypeOK
<1>2. CASE UNCHANGED <<requests, calls>>
  BY <1>1, <1>2 DEF RequestsKnown
<1>3. CASE Stop
  BY <1>1, <1>3 DEF Stop, RequestsKnown
<1>4. CASE ProfileAppears
  BY <1>1, <1>3, <1>4 DEF ProfileAppears, NewCall, RequestsKnown
<1>5. CASE LoginScreenButton
  <2>1. CASE UNCHANGED async
    BY <1>2, <2>1 DEF async
  <2>2. ASSUME NEW op \in {"signup", "login"}, NEW e \in Email,
               Ask(op, loginVC, None, e)
        PROVE  Kept
    <3>1. loginVC \in Controller /\ None \in Holder /\ e \in Text
      BY <1>1, <1>5 DEF LoginScreenButton, OnLogin, Controller, Holder, Text
    <3> QED
      BY <1>1, <2>2, <3>1, AskKeeps DEF Ask, RequestsKnown
  <2> QED
    BY <1>5, <2>1, <2>2 DEF LoginScreenButton
<1>6. CASE SendRestPasswordLink
  <2>1. CASE UNCHANGED async
    BY <1>2, <2>1 DEF async
  <2>2. ASSUME Ask("reset", loginVC, None, Blank)
        PROVE  Kept
    <3>1. loginVC \in Controller /\ None \in Holder /\ Blank \in Text
      BY <1>1, <1>6 DEF SendRestPasswordLink, ScreensInPlace, Controller, Holder, Text
    <3> QED
      BY <1>1, <2>2, <3>1, AskKeeps DEF Ask, RequestsKnown
  <2> QED
    BY <1>6, <2>1, <2>2 DEF SendRestPasswordLink
<1>7. ASSUME Update \/ DeleteAccount
      PROVE  Kept
  <2>1. CASE Stop
    BY <1>3, <2>1
  <2>2. ASSUME NEW op \in {"updateEmail", "delete"}, NEW e \in Text, AskAgain(op, e)
        PROVE  Kept
    <3>1. profileVC \in Controller
      BY <1>1, <1>7 DEF Update, DeleteAccount, OnStack, ScreensInPlace, Controller
    <3> QED
      BY <1>1, <2>2, <3>1, AskAgainKeeps
  <2> QED
    BY <1>1, <1>7, <2>1, <2>2 DEF Update, DeleteAccount, Text
<1>8. CASE Execute \/ Refuse
  <2>1. PICK r \in requests, u \in Holder, o \in {"ok", "error", "userNotFound"} :
             /\ Answered(r, u, o)
             /\ r.op \in {"updateEmail", "delete"} => u = r.user
             /\ (r.op = "signup" /\ o = "ok") => u \in User
             /\ UNCHANGED calls
    <3>1. CASE Execute
      BY <3>1 DEF Execute, AuthAccepts
    <3>2. CASE Refuse
      <4>1. \A r \in requests : r.user \in Holder
        BY <1>1 DEF Request
      <4> QED
        BY <3>2, <4>1 DEF Refuse
    <3> QED
      BY <1>8, <3>1, <3>2
  <2> DEFINE new == [r EXCEPT !.stage = "answered", !.user = u, !.result = o]
  <2>2. /\ new \in Request
        /\ new.stage = "answered" /\ new.result = o /\ new.op = r.op
        /\ new.user = u /\ new.email = r.email
    BY <1>1 DEF Request
  <2>3. IsKnown(new)
    BY <2>1, <2>2 DEF IsKnown, RequestsKnown
  <2>4. requests' = (requests \ {r}) \cup {new}
    BY <2>1 DEF Answered
  <2> HIDE DEF new
  <2> QED
    BY <1>1, <2>1, <2>2, <2>3, <2>4 DEF RequestsKnown
<1>9. CASE Deliver
  BY <1>1, <1>9 DEF Deliver, RequestsKnown
<1>10. CASE HearOfUser \/ Completion
  BY <1>2, <1>10 DEF HearOfUser, Completion, async
<1>11. CASE LookupDone
  BY <1>2, <1>3, <1>11 DEF LookupDone
<1>12. ASSUME Launch \/ OpenSettings \/ OpenProfile \/ Back \/ LogoutButton
              \/ ForgetPasswordAction \/ CloseOver \/ EditEmail \/ ListAppears
              \/ WriteStep
       PROVE  UNCHANGED <<requests, calls>>
  BY <1>12 DEF Launch, OpenSettings, OpenProfile, Back, LogoutButton,
               ForgetPasswordAction, CloseOver, EditEmail, ListAppears, WriteStep,
               CommitWrite, RefuseWrite, async
<1> QED
  BY <1>2, <1>3, <1>4, <1>5, <1>6, <1>7, <1>8, <1>9, <1>10, <1>11, <1>12
     DEF Next, UserStep, MainStep, Terminate, vars, async

-----------------------------------------------------------------------------
(* The main queue.                                                         *)

\* What a completion is about.
LEMMA CompletionOf ==
    ASSUME MainKnown, Completion
    PROVE  /\ main # << >>
           /\ Head(main) \in Request /\ IsKnown(Head(main))
<1>1. main # << >> /\ Head(main).op # "news"
  BY DEF Completion, SignupDone, LoginDone, ResetDone, DeleteDone, UpdateDone
<1>2. Head(main) \in Item
  BY <1>1 DEF MainKnown
<1>3. Head(main) \notin News
  BY <1>1 DEF News
<1> QED
  BY <1>1, <1>2, <1>3 DEF Item

\* The news of a change of user.
LEMMA AnnouncedKnown ==
    ASSUME MainKnown, NEW u \in Holder
    PROVE  Announced(main, u) \in Seq(Item)
<1>1. NewsOf(u) \in Item
  BY DEF NewsOf, News, Item
<1> QED
  BY <1>1 DEF Announced, MainKnown

\* The news and the completion that the SDK puts on the main queue.
LEMMA PostedKnown ==
    ASSUME TypeOK, RequestsKnown, MainKnown, NEW r \in requests
    PROVE  UserAfter(r) \in Holder /\ Posted(r) \in Seq(Item)
<1>1. UserAfter(r) \in Holder
  BY UserAfterType DEF TypeOK
<1>2. r \in Item
  BY DEF TypeOK, RequestsKnown, Item
<1>3. Announced(main, UserAfter(r)) \in Seq(Item)
  BY <1>1, AnnouncedKnown
<1> QED
  BY <1>1, <1>2, <1>3 DEF Posted

\* Only the profile screen's two requests are for a user read a second time.
LEMMA SecondRead ==
    ASSUME Update \/ DeleteAccount, ~ Stop
    PROVE  /\ running /\ firestoreUser' = firestoreUser /\ running' = running
           /\ \/ UNCHANGED <<currentUser, main>> /\ requests \subseteq requests'
              \/ \E r \in requests :
                    /\ r.stage = "answered"
                    /\ currentUser' = UserAfter(r) /\ main' = Posted(r)
                    /\ requests \ {r} \subseteq requests'
<1>1. running /\ UNCHANGED <<firestoreUser, running>>
  BY DEF Update, DeleteAccount, OnStack, nav
<1>2. \E op, e : AskAgain(op, e)
  BY DEF Update, DeleteAccount
<1> QED
  BY <1>1, <1>2 DEF AskAgain

\* Every step keeps the main queue.
LEMMA MainKept ==
    ASSUME TypeOK, RequestsKnown, MainKnown, [Next]_vars
    PROVE  MainKnown' /\ currentUser' \in Holder /\ firestoreUser' \in Holder
<1> DEFINE Kept == MainKnown' /\ currentUser' \in Holder /\ firestoreUser' \in Holder
<1>1. currentUser \in Holder /\ firestoreUser \in Holder /\ main \in Seq(Item)
  BY DEF TypeOK, MainKnown
<1>2. CASE UNCHANGED session
  BY <1>1, <1>2 DEF session, MainKnown
<1>3. CASE Stop
  BY <1>1, <1>3, Extras DEF Stop, MainKnown
<1>4. CASE Launch
  <2>1. NewsOf(currentUser) \in Item
    BY <1>1 DEF NewsOf, News, Item
  <2> QED
    <3>1. currentUser' \in Holder /\ firestoreUser' \in Holder
      BY <1>1, <1>4, Extras DEF Launch, StartSession
    <3>2. main' = << >> \/ main' = << NewsOf(currentUser) >>
      BY <1>4 DEF Launch, StartSession
    <3>3. << >> \in Seq(Item) /\ << NewsOf(currentUser) >> \in Seq(Item)
      BY <2>1
    <3> QED
      BY <3>1, <3>2, <3>3 DEF MainKnown
<1>5. CASE LogoutButton
  BY <1>1, <1>5, AnnouncedKnown, Extras DEF LogoutButton, MainKnown
<1>6. CASE Deliver
  BY <1>1, <1>6, PostedKnown DEF Deliver, MainKnown
<1>7. CASE Update \/ DeleteAccount
  <2>1. CASE ~ Stop
    BY <1>1, <1>7, <2>1, SecondRead, PostedKnown DEF MainKnown
  <2> QED
    BY <1>3, <2>1
<1>8. CASE HearOfUser
  <2>1. Head(main) \in Item /\ Head(main) \notin Request /\ Tail(main) \in Seq(Item)
    BY <1>1, <1>8 DEF HearOfUser, Request
  <2>2. Head(main).user \in Holder
    BY <2>1 DEF Item, News
  <2> QED
    BY <1>1, <1>8, <2>1, <2>2 DEF HearOfUser, MainKnown
<1>9. CASE Completion
  BY <1>1, <1>9 DEF Completion, MainKnown
<1>10. CASE ProfileAppears \/ LookupDone
  BY <1>2, <1>3, <1>10 DEF ProfileAppears, LookupDone
<1>11. ASSUME OpenSettings \/ OpenProfile \/ Back \/ LoginScreenButton
              \/ ForgetPasswordAction \/ SendRestPasswordLink \/ CloseOver \/ EditEmail
              \/ ListAppears \/ Execute \/ Refuse \/ WriteStep
       PROVE  UNCHANGED session
  BY <1>11 DEF OpenSettings, OpenProfile, Back, LoginScreenButton, ForgetPasswordAction,
               SendRestPasswordLink, CloseOver, EditEmail, ListAppears, Execute, Refuse,
               WriteStep, CommitWrite, RefuseWrite
<1> QED
  BY <1>2, <1>3, <1>4, <1>5, <1>6, <1>7, <1>8, <1>9, <1>10, <1>11
     DEF Next, UserStep, MainStep, Terminate, vars

\* Without a process nothing is asked, and nothing is put on the main queue.
LEMMA ProcessKept ==
    ASSUME ProcessEnds, [Next]_vars
    PROVE  ProcessEnds'
<1>1. CASE UNCHANGED <<running, requests, main>>
  BY <1>1 DEF ProcessEnds
<1>2. CASE Stop
  BY <1>2 DEF Stop, ProcessEnds
<1>3. CASE Launch
  BY <1>3 DEF Launch, ProcessEnds
<1>4. CASE Update \/ DeleteAccount
  BY <1>2, <1>4, SecondRead DEF ProcessEnds
<1>5. CASE LoginScreenButton \/ SendRestPasswordLink \/ LogoutButton
  BY <1>5 DEF LoginScreenButton, SendRestPasswordLink, LogoutButton, OnLogin, OnStack,
              ProcessEnds
<1>6. CASE Execute \/ Refuse \/ Deliver
  BY <1>6 DEF Execute, Refuse, Deliver, nav, ProcessEnds
<1>7. CASE HearOfUser \/ Completion
  BY <1>7 DEF HearOfUser, Completion, nav, ProcessEnds
<1>8. CASE ProfileAppears \/ LookupDone
  BY <1>1, <1>2, <1>8 DEF ProfileAppears, LookupDone, nav, session
<1>9. ASSUME OpenSettings \/ OpenProfile \/ Back \/ ForgetPasswordAction \/ CloseOver
             \/ EditEmail \/ ListAppears \/ WriteStep
      PROVE  UNCHANGED <<running, requests, main>>
  BY <1>9 DEF OpenSettings, OpenProfile, Back, ForgetPasswordAction, CloseOver, EditEmail,
              ListAppears, WriteStep, CommitWrite, RefuseWrite, nav, session, async
<1> QED
  BY <1>1, <1>2, <1>3, <1>4, <1>5, <1>6, <1>7, <1>8, <1>9
     DEF Next, UserStep, MainStep, Terminate, vars, nav, session, async

-----------------------------------------------------------------------------
(* The news and the completions.                                           *)

\* What is put behind a queue does not change what is heard before.
LEMMA HearsAppend ==
    ASSUME NEW S, NEW q \in Seq(S), NEW x \in S, NEW f, NEW u, NEW n \in 0 .. Len(q),
           Hears(q, f, u, n)
    PROVE  Hears(Append(q, x), f, u, n)
<1> DEFINE longer == Append(q, x)
<1>1. Len(q) \in Nat /\ \A i \in 1 .. Len(q) : longer[i] = q[i]
  OBVIOUS
<1> HIDE DEF longer
<1>2. \A i \in 1 .. n : longer[i] = q[i]
  BY <1>1
<1>3. \A j \in 1 .. n : \A i \in j + 1 .. n : longer[i] = q[i]
  BY <1>2
<1>4. Hears(longer, f, u, n)
  BY <1>2, <1>3 DEF Hears
<1> QED
  BY <1>4 DEF longer

\* News at the end of a queue is heard in the end.
LEMMA HearsNews ==
    ASSUME NEW S, NEW q \in Seq(S), NEW f, NEW u, NewsOf(u) \in S
    PROVE  Hears(Append(q, NewsOf(u)), f, u, Len(q) + 1)
<1>1. Len(q) \in Nat /\ Append(q, NewsOf(u))[Len(q) + 1] = NewsOf(u)
  OBVIOUS
<1>2. Len(q) + 1 \in 1 .. Len(q) + 1 /\ (Len(q) + 1) + 1 .. Len(q) + 1 = {}
  BY <1>1
<1> QED
  BY <1>1, <1>2 DEF Hears

\* A completion at the end of a queue tells nothing.
LEMMA HearsCompletion ==
    ASSUME NEW S, NEW q \in Seq(S), NEW x \in S, NEW f, NEW u, x.op # "news",
           Hears(q, f, u, Len(q))
    PROVE  Hears(Append(q, x), f, u, Len(q) + 1)
<1> DEFINE longer == Append(q, x)
<1> DEFINE L == Len(q)
<1>1. /\ L \in Nat /\ \A i \in 1 .. L : longer[i] = q[i]
      /\ longer[L + 1] = x
  OBVIOUS
<1>2. Hears(longer, f, u, L)
  BY <1>1, HearsAppend
<1> HIDE DEF longer, L
<1>3. ASSUME f = u, \A k \in 1 .. L : longer[k].op # "news"
      PROVE  Hears(longer, f, u, L + 1)
  BY <1>1, <1>3 DEF Hears
<1>4. ASSUME NEW j \in 1 .. L, longer[j] = NewsOf(u),
             \A k \in j + 1 .. L : longer[k].op # "news"
      PROVE  Hears(longer, f, u, L + 1)
  <2>1. j \in 1 .. L + 1 /\ \A k \in j + 1 .. L + 1 : k \in j + 1 .. L \/ k = L + 1
    BY <1>1, <1>4
  <2>2. \A k \in j + 1 .. L + 1 : longer[k].op # "news"
    BY <1>1, <1>4, <2>1
  <2> QED
    BY <1>4, <2>1, <2>2 DEF Hears
<1>5. Hears(longer, f, u, L + 1)
  <2>1. \/ f = u /\ \A k \in 1 .. L : longer[k].op # "news"
        \/ \E j \in 1 .. L :
              longer[j] = NewsOf(u) /\ \A k \in j + 1 .. L : longer[k].op # "news"
    BY <1>2 DEF Hears
  <2> QED
    BY <1>3, <1>4, <2>1, Zenon
<1> QED
  BY <1>5 DEF longer, L

\* The first item leaves the queue, and Firestore has heard of it.
LEMMA HearsTail ==
    ASSUME NEW S, NEW q \in Seq(S), q # << >>, NEW f, NEW u, NEW n \in 1 .. Len(q),
           Hears(q, f, u, n)
    PROVE  Hears(Tail(q), IF Head(q).op = "news" THEN Head(q).user ELSE f, u, n - 1)
<1> DEFINE rest == Tail(q)
<1> DEFINE g == IF q[1].op = "news" THEN q[1].user ELSE f
<1>1. /\ Len(q) \in Nat /\ Head(q) = q[1]
      /\ \A i \in 1 .. Len(q) - 1 : rest[i] = q[i + 1]
  OBVIOUS
<1> HIDE DEF rest
<1>2. \A i \in 1 .. n - 1 : rest[i] = q[i + 1] /\ i + 1 \in 1 .. n
  BY <1>1
<1>3. CASE f = u /\ \A k \in 1 .. n : q[k].op # "news"
  <2>1. \A i \in 1 .. n - 1 : rest[i].op # "news"
    BY <1>2, <1>3
  <2>2. g = u
    BY <1>1, <1>3
  <2> QED
    BY <1>1, <2>1, <2>2 DEF Hears, rest
<1>4. ASSUME NEW j \in 1 .. n, q[j] = NewsOf(u), \A k \in j + 1 .. n : q[k].op # "news"
      PROVE  Hears(rest, g, u, n - 1)
  <2>1. CASE j = 1
    <3>1. \A i \in 1 .. n - 1 : rest[i].op # "news"
      <4>1. SUFFICES ASSUME NEW i \in 1 .. n - 1 PROVE rest[i].op # "news"
        OBVIOUS
      <4>2. i + 1 \in j + 1 .. n /\ rest[i] = q[i + 1]
        BY <1>1, <1>2, <2>1
      <4> QED
        BY <1>4, <4>2
    <3>2. g = u
      BY <1>4, <2>1 DEF NewsOf
    <3> QED
      BY <3>1, <3>2 DEF Hears
  <2>2. CASE j # 1
    <3>1. j - 1 \in 1 .. n - 1 /\ rest[j - 1] = NewsOf(u)
      BY <1>1, <1>2, <1>4, <2>2
    <3>2. \A i \in (j - 1) + 1 .. n - 1 : rest[i].op # "news"
      <4>1. SUFFICES ASSUME NEW i \in (j - 1) + 1 .. n - 1 PROVE rest[i].op # "news"
        OBVIOUS
      <4>2. i + 1 \in j + 1 .. n /\ i \in 1 .. n - 1
        BY <1>1, <2>2
      <4> QED
        BY <1>2, <1>4, <4>2
    <3> QED
      BY <3>1, <3>2 DEF Hears
  <2> QED
    BY <2>1, <2>2
<1> QED
  BY <1>1, <1>3, <1>4 DEF Hears, rest

\* A completion that a user's sign-up has, or none, is put behind the user's news.
LEMMA AppendInOrder ==
    ASSUME NEW S, NEW q \in Seq(S), NEW x \in S, NEW f, NEW u, InOrder(q, f, u),
           x.op # "news", (x.op = "signup" /\ x.result = "ok") => x.user = u
    PROVE  InOrder(Append(q, x), f, u)
<1> DEFINE longer == Append(q, x)
<1>1. /\ Len(q) \in Nat /\ DOMAIN q = 1 .. Len(q)
      /\ DOMAIN longer = 1 .. Len(q) + 1 /\ Len(longer) = Len(q) + 1
      /\ \A i \in 1 .. Len(q) : longer[i] = q[i]
      /\ longer[Len(q) + 1] = x
  OBVIOUS
<1>2. Hears(longer, f, u, Len(q) + 1)
  BY HearsCompletion DEF InOrder
<1>3. \A v : \A n \in 0 .. Len(q) : Hears(q, f, v, n) => Hears(longer, f, v, n)
  BY HearsAppend
<1> HIDE DEF longer
<1>4. SUFFICES ASSUME NEW i \in DOMAIN longer,
                      longer[i].op = "signup" /\ longer[i].result = "ok"
               PROVE  Hears(longer, f, longer[i].user, i - 1)
  BY <1>1, <1>2 DEF InOrder, longer
<1>5. CASE i \in 1 .. Len(q)
  <2>1. Hears(q, f, q[i].user, i - 1) /\ i - 1 \in 0 .. Len(q)
    BY <1>1, <1>4, <1>5 DEF InOrder
  <2> QED
    BY <1>1, <1>3, <1>5, <2>1
<1>6. CASE i \notin 1 .. Len(q)
  <2>1. i = Len(q) + 1 /\ i - 1 = Len(q) /\ longer[i] = x
    BY <1>1, <1>4, <1>6
  <2>2. Hears(longer, f, u, Len(q))
    BY <1>1, <1>3 DEF InOrder
  <2> QED
    BY <1>4, <2>1, <2>2
<1> QED
  BY <1>5, <1>6

\* The news of a change of user is put on the queue when Auth changes its user.
LEMMA AnnouncedInOrder ==
    ASSUME MainKnown, InOrder(main, firestoreUser, currentUser), NEW u \in Holder
    PROVE  InOrder(Announced(main, u), firestoreUser, u)
<1>1. CASE u = currentUser
  BY <1>1 DEF Announced
<1>2. CASE u # currentUser
  <2> DEFINE f == firestoreUser
  <2> DEFINE longer == Append(main, NewsOf(u))
  <2>1. main \in Seq(Item) /\ NewsOf(u) \in Item
    BY DEF MainKnown, NewsOf, News, Item
  <2>2. /\ Len(main) \in Nat /\ DOMAIN main = 1 .. Len(main)
        /\ DOMAIN longer = 1 .. Len(main) + 1 /\ Len(longer) = Len(main) + 1
        /\ \A i \in 1 .. Len(main) : longer[i] = main[i]
        /\ longer[Len(main) + 1] = NewsOf(u)
    BY <2>1
  <2>3. Hears(longer, f, u, Len(main) + 1)
    BY <2>1, HearsNews
  <2>4. \A v : \A n \in 0 .. Len(main) : Hears(main, f, v, n) => Hears(longer, f, v, n)
    BY <2>1, HearsAppend
  <2>5. Announced(main, u) = longer
    BY <1>2 DEF Announced
  <2> HIDE DEF longer
  <2>6. ASSUME NEW i \in DOMAIN longer,
               longer[i].op = "signup" /\ longer[i].result = "ok"
        PROVE  Hears(longer, f, longer[i].user, i - 1)
    <3>1. i # Len(main) + 1
      BY <2>2, <2>6 DEF NewsOf
    <3>2. i \in 1 .. Len(main) /\ longer[i] = main[i] /\ i - 1 \in 0 .. Len(main)
      BY <2>2, <3>1
    <3>3. Hears(main, f, main[i].user, i - 1)
      BY <2>2, <2>6, <3>2 DEF InOrder
    <3> QED
      BY <2>4, <3>2, <3>3
  <2> QED
    BY <2>2, <2>3, <2>5, <2>6 DEF InOrder
<1> QED
  BY <1>1, <1>2

\* So are the news and the completion when the SDK handles an answer.
LEMMA PostedInOrder ==
    ASSUME TypeOK, RequestsKnown, MainKnown, InOrder(main, firestoreUser, currentUser),
           NEW r \in requests
    PROVE  InOrder(Posted(r), firestoreUser, UserAfter(r))
<1> DEFINE q == Announced(main, UserAfter(r))
<1>1. UserAfter(r) \in Holder /\ q \in Seq(Item)
  BY PostedKnown, AnnouncedKnown
<1>2. InOrder(q, firestoreUser, UserAfter(r))
  BY <1>1, AnnouncedInOrder
<1>3. r \in Item /\ r.op # "news"
  BY DEF TypeOK, RequestsKnown, Item, Request
<1>4. (r.op = "signup" /\ r.result = "ok") => r.user = UserAfter(r)
  BY DEF UserAfter
<1>5. Posted(r) = Append(q, r)
  BY DEF Posted
<1> HIDE DEF q
<1> QED
  BY <1>1, <1>2, <1>3, <1>4, <1>5, AppendInOrder

\* The main thread takes the first item.
LEMMA TailInOrder ==
    ASSUME MainKnown, main # << >>, InOrder(main, firestoreUser, currentUser)
    PROVE  InOrder(Tail(main),
                   IF Head(main).op = "news" THEN Head(main).user ELSE firestoreUser,
                   currentUser)
<1> DEFINE rest == Tail(main)
<1> DEFINE g == IF Head(main).op = "news" THEN Head(main).user ELSE firestoreUser
<1>1. /\ Len(main) \in Nat \ {0} /\ DOMAIN main = 1 .. Len(main)
      /\ DOMAIN rest = 1 .. Len(main) - 1 /\ Len(rest) = Len(main) - 1
      /\ \A i \in 1 .. Len(main) - 1 : rest[i] = main[i + 1]
  BY DEF MainKnown
<1>2. \A u : \A n \in 1 .. Len(main) :
         Hears(main, firestoreUser, u, n) => Hears(rest, g, u, n - 1)
  BY HearsTail DEF MainKnown
<1> HIDE DEF rest, g
<1>3. Hears(rest, g, currentUser, Len(rest))
  BY <1>1, <1>2 DEF InOrder
<1>4. ASSUME NEW i \in DOMAIN rest, rest[i].op = "signup" /\ rest[i].result = "ok"
      PROVE  Hears(rest, g, rest[i].user, i - 1)
  <2>1. i + 1 \in 1 .. Len(main) /\ i \in 1 .. Len(main) /\ rest[i] = main[i + 1]
    BY <1>1
  <2>2. Hears(main, firestoreUser, main[i + 1].user, (i + 1) - 1)
    BY <1>1, <1>4, <2>1 DEF InOrder
  <2>3. (i + 1) - 1 = i
    BY <1>1
  <2> QED
    BY <1>2, <2>1, <2>2, <2>3
<1>5. InOrder(rest, g, currentUser)
  BY <1>3, <1>4 DEF InOrder
<1> QED
  BY <1>5 DEF rest, g

\* Every step keeps the news in order.
LEMMA NewsKept ==
    ASSUME TypeOK, RequestsKnown, MainKnown, NewsInOrder, [Next]_vars
    PROVE  NewsInOrder'
<1>1. CASE UNCHANGED <<session, running>>
  BY <1>1 DEF NewsInOrder, session
<1>2. CASE Stop
  BY <1>2 DEF Stop, NewsInOrder
<1>3. CASE Launch
  <2>1. Hears(<< >>, currentUser, currentUser, 0)
    BY DEF Hears
  <2>2. InOrder(<< >>, currentUser, currentUser)
    BY <2>1 DEF InOrder
  <2>3. InOrder(<< NewsOf(currentUser) >>, None, currentUser)
    <3>1. Hears(<< NewsOf(currentUser) >>, None, currentUser, 1)
      BY DEF Hears
    <3> QED
      BY <3>1 DEF InOrder, NewsOf
  <2> QED
    BY <1>3, <2>2, <2>3 DEF Launch, StartSession, NewsInOrder
<1>4. CASE LogoutButton
  BY <1>4, AnnouncedInOrder, Extras DEF LogoutButton, OnStack, NewsInOrder
<1>5. CASE Deliver
  BY <1>5, PostedInOrder DEF Deliver, nav, NewsInOrder
<1>6. CASE Update \/ DeleteAccount
  <2>1. CASE ~ Stop
    BY <1>6, <2>1, SecondRead, PostedInOrder DEF NewsInOrder
  <2> QED
    BY <1>2, <2>1
<1>7. CASE HearOfUser
  BY <1>7, TailInOrder DEF HearOfUser, nav, NewsInOrder
<1>8. CASE Completion
  <2>1. /\ main # << >> /\ Head(main).op # "news" /\ main' = Tail(main)
        /\ UNCHANGED <<currentUser, firestoreUser, running>>
    BY <1>8, CompletionOf DEF Completion, Request
  <2> QED
    BY <2>1, TailInOrder DEF NewsInOrder
<1>9. CASE ProfileAppears \/ LookupDone
  BY <1>1, <1>2, <1>9 DEF ProfileAppears, LookupDone, nav
<1>10. ASSUME OpenSettings \/ OpenProfile \/ Back \/ LoginScreenButton
              \/ ForgetPasswordAction \/ SendRestPasswordLink \/ CloseOver \/ EditEmail
              \/ ListAppears \/ Execute \/ Refuse \/ WriteStep
       PROVE  UNCHANGED <<session, running>>
  BY <1>10 DEF OpenSettings, OpenProfile, Back, LoginScreenButton, ForgetPasswordAction,
               SendRestPasswordLink, CloseOver, EditEmail, ListAppears, Execute, Refuse,
               WriteStep, CommitWrite, RefuseWrite, nav
<1> QED
  BY <1>1, <1>2, <1>3, <1>4, <1>5, <1>6, <1>7, <1>8, <1>9, <1>10
     DEF Next, UserStep, MainStep, Terminate, vars, nav

\* The completion of a sign-up finds that Firestore knows the new user.
LEMMA SignupKnown ==
    ASSUME MainKnown, ProcessEnds, NewsInOrder, Completion,
           Head(main).op = "signup", Head(main).result = "ok"
    PROVE  firestoreUser = Head(main).user
<1>1. main # << >> /\ running
  BY CompletionOf DEF ProcessEnds
<1>2. 1 \in DOMAIN main /\ main[1] = Head(main)
  BY <1>1 DEF MainKnown
<1>3. Hears(main, firestoreUser, Head(main).user, 0)
  BY <1>1, <1>2 DEF NewsInOrder, InOrder
<1> QED
  BY <1>3 DEF Hears

-----------------------------------------------------------------------------
(* Screens.                                                                *)

ScreenTypeOK ==
    /\ running \in BOOLEAN
    /\ top \in {"list", "settings", "profile"}
    /\ appearing \in BOOLEAN
    /\ loginVC \in 0 .. MaxControllers
    /\ over \in {"none", "alert", "forget", "forgetAlert"}
    /\ profileVC \in 0 .. MaxControllers
    /\ openedBy \in Holder
    /\ profileEmail \in Text
    /\ loadedFor \in Holder
    /\ controllers \in 0 .. MaxControllers

\* A completion leaves the screens in place: it dismisses one of them, or pops the
\* stack to the list.
LEMMA CompletionScreens ==
    ASSUME TypeOK, MainKnown, ScreensInPlace, Completion
    PROVE  ScreenTypeOK' /\ ScreensInPlace'
<1> DEFINE r == Head(main)
<1>1. /\ SignupDone(r) \/ LoginDone(r) \/ ResetDone(r) \/ DeleteDone(r) \/ UpdateDone(r)
      /\ UNCHANGED <<running, controllers>>
  BY DEF Completion
<1>2. r.vc \in 1 .. MaxControllers
  BY CompletionOf DEF Request, Controller
<1> HIDE DEF r
<1>3. ASSUME Dismiss(r.vc), UNCHANGED <<top, profile>>
      PROVE  ScreenTypeOK' /\ ScreensInPlace'
  <2>1. /\ loginVC' \in 0 .. MaxControllers
        /\ over' \in {"none", "alert", "forget", "forgetAlert"}
    BY <1>2, <1>3 DEF Dismiss, TypeOK
  <2>4. appearing' \in BOOLEAN
    BY <1>3, Zenon DEF Dismiss, TypeOK
  <2>2. over' # "none" => loginVC' # 0
    BY <1>2, <1>3 DEF Dismiss, ScreensInPlace
  <2>3. loginVC' # 0 => loginVC # 0
    BY <1>2, <1>3 DEF Dismiss
  <2> QED
    BY <1>1, <1>3, <2>1, <2>2, <2>3, <2>4
       DEF TypeOK, ScreenTypeOK, ScreensInPlace, profile
<1>4. CASE SignupDone(r)
  BY <1>1, <1>3, <1>4 DEF SignupDone, TypeOK, ScreenTypeOK, ScreensInPlace, profile
<1>5. CASE LoginDone(r)
  BY <1>1, <1>2, <1>3, <1>5 DEF LoginDone, TypeOK, ScreenTypeOK, ScreensInPlace, profile
<1>6. CASE ResetDone(r)
  BY <1>1, <1>2, <1>6 DEF ResetDone, TypeOK, ScreenTypeOK, ScreensInPlace, profile
<1>7. CASE DeleteDone(r)
  <2>1. /\ top' \in {"list", "settings", "profile"}
        /\ profileVC' \in 0 .. MaxControllers
        /\ openedBy' \in Holder /\ profileEmail' \in Text /\ loadedFor' \in Holder
        /\ top' = "list" \/ (top' = top /\ profileVC' = profileVC)
        /\ UNCHANGED <<loginVC, over>>
    BY <1>7, Extras DEF DeleteDone, LeaveProfile, TypeOK, profile
  <2>2. appearing' \in BOOLEAN
    BY <1>7, Zenon DEF DeleteDone, TypeOK
  <2> QED
    BY <1>1, <2>1, <2>2 DEF TypeOK, ScreenTypeOK, ScreensInPlace
<1>8. CASE UpdateDone(r)
  BY <1>1, <1>8 DEF UpdateDone, TypeOK, ScreenTypeOK, ScreensInPlace, nav, profile
<1> QED
  BY <1>1, <1>4, <1>5, <1>6, <1>7, <1>8

\* Every step keeps the screens in place.
LEMMA ScreensKept ==
    ASSUME TypeOK, MainKnown, ScreensInPlace, [Next]_vars
    PROVE  ScreenTypeOK' /\ ScreensInPlace'
<1> DEFINE Kept == ScreenTypeOK' /\ ScreensInPlace'
<1> USE DEF TypeOK, ScreenTypeOK, ScreensInPlace
<1>1. CASE UNCHANGED <<nav, profile>>
  BY <1>1 DEF nav, profile
<1>2. CASE Stop
  <2>1. /\ running' = FALSE /\ appearing' = FALSE
        /\ top' = "list" /\ over' = "none" /\ loginVC' = 0 /\ profileVC' = 0
        /\ profileEmail' = Blank /\ loadedFor' = None
        /\ openedBy' = None /\ controllers' = controllers
    BY <1>2 DEF Stop, LeaveProfile
  <2>2. openedBy' \in Holder /\ controllers' \in 0 .. MaxControllers
    BY <2>1, Extras
  <2>3. /\ running' \in BOOLEAN /\ appearing' \in BOOLEAN
        /\ top' \in {"list", "settings", "profile"}
        /\ over' \in {"none", "alert", "forget", "forgetAlert"}
    BY <2>1, Zenon
  <2>4. loginVC' \in 0 .. MaxControllers /\ profileVC' \in 0 .. MaxControllers
    BY <2>1
  <2>5. profileEmail' \in Text /\ loadedFor' \in Holder
    BY <2>1, Extras
  <2>6. ScreenTypeOK'
    BY <2>2, <2>3, <2>4, <2>5, Zenon
  <2> QED
    BY <2>1, <2>6
<1>3. CASE Launch \/ OpenSettings \/ OpenProfile \/ Back \/ LogoutButton
  <2>1. CASE Launch
    BY <2>1 DEF Launch, profile
  <2>2. CASE OpenSettings
    BY <2>2 DEF OpenSettings, OnStack, profile
  <2>3. CASE OpenProfile
    BY <2>3, Extras DEF OpenProfile, OnStack
  <2>4. CASE Back
    BY <2>4, Extras DEF Back, OnStack, LeaveProfile
  <2>5. CASE LogoutButton
    BY <2>5 DEF LogoutButton, OnStack, profile
  <2> QED
    BY <1>3, <2>1, <2>2, <2>3, <2>4, <2>5
<1>4. CASE LoginScreenButton \/ ForgetPasswordAction \/ SendRestPasswordLink \/ CloseOver
  BY <1>4 DEF LoginScreenButton, ForgetPasswordAction, SendRestPasswordLink, CloseOver,
              OnLogin, profile
<1>5. CASE EditEmail
  BY <1>5 DEF EditEmail, nav, Text
<1>6. CASE Update \/ DeleteAccount
  BY <1>1, <1>2, <1>6 DEF Update, DeleteAccount
<1>7. CASE ListAppears
  <2>1. /\ loginVC' \in 0 .. MaxControllers
        /\ controllers' \in 0 .. MaxControllers
        /\ appearing' = FALSE /\ top = "list"
        /\ UNCHANGED <<running, top, over>>
        /\ UNCHANGED profile
        /\ loginVC # 0 => loginVC' # 0
    BY <1>7 DEF ListAppears
  <2> QED
    BY <2>1 DEF profile
<1>8. CASE ProfileAppears
  <2>1. CASE Stop
    BY <1>2, <2>1
  <2>2. CASE ~ Stop
    <3>1. /\ openedBy' = currentUser
          /\ appearing' = FALSE
          /\ UNCHANGED <<running, top, loginVC, over, controllers, profileVC,
                         profileEmail, loadedFor>>
      BY <1>8, <2>2 DEF ProfileAppears
    <3> QED
      BY <3>1
  <2> QED
    BY <2>1, <2>2
<1>9. CASE LookupDone
  <2>1. ASSUME NEW look \in lookups, HasDocument(look.user), IsAskedBy(look),
               profileEmail' = LocalDoc(look.user), loadedFor' = look.user,
               UNCHANGED <<nav, profileVC, openedBy>>
        PROVE  Kept
    <3>1. look.user \in User
      BY DEF Lookup
    <3>2. LocalDoc(look.user) \in Text
      BY <2>1, <3>1, LocalDocType DEF HasDocument
    <3> QED
      BY <2>1, <3>1, <3>2 DEF nav, Holder
  <2> QED
    BY <1>1, <1>2, <1>9, <2>1 DEF LookupDone, profile
<1>10. CASE Completion
  BY <1>10, CompletionScreens
<1>11. CASE Execute \/ Refuse \/ Deliver \/ HearOfUser \/ WriteStep
  BY <1>1, <1>11
     DEF Execute, Refuse, Deliver, HearOfUser, WriteStep, CommitWrite, RefuseWrite
<1> QED
  BY <1>1, <1>2, <1>3, <1>4, <1>5, <1>6, <1>7, <1>8, <1>9, <1>10, <1>11
     DEF Next, UserStep, MainStep, Terminate, vars

-----------------------------------------------------------------------------
(* Lookups.                                                                *)

\* Every step keeps the lookups with their screens, and a profile screen shows
\* what was looked up for it.
LEMMA LookupsKept ==
    ASSUME TypeOK, MainKnown, ScreensInPlace, LookupsOfScreens, ShowsWhoOpened,
           [Next]_vars
    PROVE  lookups' \in SUBSET Lookup /\ LookupsOfScreens' /\ ShowsWhoOpened'
<1> DEFINE Kept == lookups' \in SUBSET Lookup /\ LookupsOfScreens' /\ ShowsWhoOpened'
<1>1. /\ lookups \in SUBSET Lookup /\ calls \in 0 .. MaxCalls
      /\ controllers \in 0 .. MaxControllers /\ profileVC \in 0 .. MaxControllers
      /\ \A look \in lookups : look.vc \in 1 .. MaxControllers /\ look.user \in User
  BY DEF TypeOK, Lookup, Controller
<1>2. ASSUME UNCHANGED <<profile, lookups>>,
             controllers <= controllers' /\ controllers' \in Nat,
             top' = "profile" /\ appearing' => top = "profile" /\ appearing
      PROVE  Kept
  <2>1. profileVC <= controllers' /\ \A look \in lookups : look.vc <= controllers'
    BY <1>1, <1>2 DEF LookupsOfScreens
  <2> QED
    BY <1>1, <1>2, <2>1 DEF profile, LookupsOfScreens, ShowsWhoOpened
<1>3. CASE Stop
  <2>1. profileVC' = 0 /\ lookups' = {} /\ controllers' = controllers /\ top' = "list"
    BY <1>3 DEF Stop, LeaveProfile
  <2> QED
    BY <1>1, <2>1 DEF LookupsOfScreens, ShowsWhoOpened
<1>4. CASE ProfileAppears
  <2>1. CASE ~ Stop
    <3>1. /\ currentUser \in User
          /\ top = "profile" /\ appearing /\ appearing' = FALSE
          /\ NewCall
          /\ openedBy' = currentUser
          /\ lookups' = lookups \cup
                {[id |-> calls', vc |-> profileVC, user |-> currentUser]}
          /\ UNCHANGED <<controllers, profileVC, loadedFor>>
      BY <1>4, <2>1 DEF ProfileAppears, TypeOK, Holder
    <3> DEFINE new == [id |-> calls', vc |-> profileVC, user |-> currentUser]
    <3>2. profileVC \in 1 .. MaxControllers /\ calls' \in 1 .. MaxCalls
      BY <1>1, <3>1 DEF ScreensInPlace, NewCall
    <3>3. new \in Lookup /\ new.vc = profileVC /\ new.user = currentUser
      BY <3>1, <3>2 DEF Lookup, Controller
    <3> HIDE DEF new
    <3>4. lookups' = lookups \cup {new}
      BY <3>1 DEF new
    <3>5. loadedFor' = None /\ \A look \in lookups : look.vc # profileVC
      BY <3>1 DEF LookupsOfScreens
    <3> QED
      BY <1>1, <3>1, <3>3, <3>4, <3>5 DEF LookupsOfScreens, ShowsWhoOpened
  <2> QED
    BY <1>3, <2>1
<1>5. CASE OpenProfile
  <2>1. /\ profileVC' = controllers + 1 /\ controllers' = controllers + 1
        /\ loadedFor' = None /\ UNCHANGED lookups
    BY <1>5 DEF OpenProfile, async
  <2>2. \A look \in lookups : look.vc <= controllers
    BY DEF LookupsOfScreens
  <2>3. \A look \in lookups : look.vc <= controllers' /\ look.vc # profileVC'
    BY <1>1, <2>1, <2>2
  <2> QED
    BY <1>1, <2>1, <2>3 DEF LookupsOfScreens, ShowsWhoOpened
<1>6. CASE Back
  <2>1. /\ profileVC' = 0 /\ top' # "profile"
        /\ UNCHANGED <<lookups, controllers>>
    BY <1>6 DEF Back, LeaveProfile, async
  <2> QED
    BY <1>1, <2>1 DEF LookupsOfScreens, ShowsWhoOpened
<1>7. CASE Completion
  <2> DEFINE r == Head(main)
  <2>1. /\ \/ SignupDone(r) \/ LoginDone(r) \/ ResetDone(r) \/ DeleteDone(r)
           \/ UpdateDone(r)
        /\ UNCHANGED <<controllers, lookups>>
    BY <1>7 DEF Completion, async
  <2>2. r.vc \in 1 .. MaxControllers
    BY <1>7, CompletionOf DEF Request, Controller
  <2> HIDE DEF r
  <2>3. \/ top' = "list" /\ profileVC' = 0
        \/ UNCHANGED <<top, profile>> /\ (UNCHANGED appearing \/ top = "list")
    <3>1. Dismiss(r.vc) => (UNCHANGED appearing \/ top = "list")
      BY <2>2 DEF Dismiss, ScreensInPlace
    <3> QED
      BY <2>1, <3>1
         DEF SignupDone, LoginDone, ResetDone, DeleteDone, UpdateDone, LeaveProfile, nav
  <2>4. CASE top' = "list" /\ profileVC' = 0
    BY <1>1, <2>1, <2>4 DEF LookupsOfScreens, ShowsWhoOpened
  <2>5. CASE UNCHANGED <<top, profile>> /\ (UNCHANGED appearing \/ top = "list")
    BY <1>1, <2>1, <2>5 DEF LookupsOfScreens, ShowsWhoOpened, profile
  <2> QED
    BY <2>3, <2>4, <2>5
<1>8. CASE LookupDone
  <2>1. ASSUME NEW look \in lookups, lookups' = lookups \ {look},
               \/ IsAskedBy(look) /\ loadedFor' = look.user
               \/ ~ IsAskedBy(look) /\ UNCHANGED loadedFor,
               UNCHANGED <<nav, profileVC, openedBy>>
        PROVE  Kept
    <3>1. look.vc = profileVC => look.user = openedBy
      BY DEF LookupsOfScreens
    <3>2. ShowsWhoOpened'
      BY <2>1, <3>1 DEF ShowsWhoOpened, IsAskedBy
    <3>3. (top = "profile" /\ appearing) => UNCHANGED loadedFor
      BY <2>1 DEF IsAskedBy, LookupsOfScreens
    <3> QED
      BY <1>1, <2>1, <3>2, <3>3 DEF nav, LookupsOfScreens
  <2> QED
    BY <1>3, <1>8, <2>1 DEF LookupDone
<1>9. CASE EditEmail
  BY <1>1, <1>9 DEF EditEmail, nav, async, LookupsOfScreens, ShowsWhoOpened
<1>10. CASE Update \/ DeleteAccount
  <2>1. CASE ~ Stop
    BY <1>1, <1>2, <1>10, <2>1 DEF Update, DeleteAccount, nav
  <2> QED
    BY <1>3, <2>1
<1>11. CASE UNCHANGED <<nav, profile, lookups>>
  BY <1>1, <1>2, <1>11 DEF nav
<1>12. CASE Launch \/ OpenSettings \/ LogoutButton \/ ListAppears
  <2>1. UNCHANGED <<profile, lookups>>
    BY <1>12 DEF Launch, OpenSettings, LogoutButton, ListAppears, async
  <2>2. controllers' = controllers \/ controllers' = controllers + 1
    BY <1>12 DEF Launch, OpenSettings, LogoutButton, ListAppears
  <2>3. ~ (top' = "profile" /\ appearing')
    BY <1>12 DEF Launch, OpenSettings, LogoutButton, ListAppears, ScreensInPlace
  <2> QED
    BY <1>1, <1>2, <2>1, <2>2, <2>3
<1>13. CASE LoginScreenButton \/ SendRestPasswordLink \/ ForgetPasswordAction \/ CloseOver
  <2>1. UNCHANGED <<profile, lookups, controllers, top, appearing>>
    BY <1>13 DEF LoginScreenButton, SendRestPasswordLink, ForgetPasswordAction,
                 CloseOver, async
  <2> QED
    BY <1>1, <1>2, <2>1
<1>14. ASSUME Execute \/ Refuse \/ Deliver \/ HearOfUser \/ WriteStep
       PROVE  UNCHANGED <<nav, profile, lookups>>
  BY <1>14 DEF Execute, Refuse, Deliver, HearOfUser, WriteStep, CommitWrite, RefuseWrite,
               async
<1> QED
  BY <1>3, <1>4, <1>5, <1>6, <1>7, <1>8, <1>9, <1>10, <1>11, <1>12, <1>13, <1>14
     DEF Next, UserStep, MainStep, Terminate, vars, async

-----------------------------------------------------------------------------
(* Documents, accounts and the queues of writes.                           *)

\* What appending to a queue, or taking the oldest write of it, does.
LEMMA Appended ==
    ASSUME mutations \in [Holder -> Seq(Mutation)], NEW c \in Holder,
           NEW m \in Mutation,
           mutations' = [mutations EXCEPT ![c] = Append(@, m)]
    PROVE  /\ mutations' \in [Holder -> Seq(Mutation)]
           /\ \A q \in Holder : \A i \in DOMAIN mutations[q] :
                 i \in DOMAIN mutations'[q] /\ mutations'[q][i] = mutations[q][i]
           /\ \A q \in Holder : \A i \in DOMAIN mutations'[q] :
                 \/ i \in DOMAIN mutations[q] /\ mutations'[q][i] = mutations[q][i]
                 \/ mutations'[q][i] = m
           /\ \E i \in DOMAIN mutations'[c] : mutations'[c][i] = m
<1>1. mutations[c] \in Seq(Mutation) /\ Len(mutations[c]) \in Nat
  OBVIOUS
<1> DEFINE q == mutations[c]
<1>2. /\ Append(q, m) \in Seq(Mutation)
      /\ DOMAIN q = 1 .. Len(q) /\ DOMAIN Append(q, m) = 1 .. Len(q) + 1
      /\ \A i \in 1 .. Len(q) : Append(q, m)[i] = q[i]
      /\ Append(q, m)[Len(q) + 1] = m
  BY <1>1
<1> DEFINE longer == Append(q, m)
<1>3. mutations' = [mutations EXCEPT ![c] = longer]
  OBVIOUS
<1>4. q = mutations[c]
  OBVIOUS
<1>5. /\ longer \in Seq(Mutation) /\ Len(q) \in Nat
      /\ DOMAIN q = 1 .. Len(q) /\ DOMAIN longer = 1 .. Len(q) + 1
      /\ \A i \in 1 .. Len(q) : longer[i] = q[i]
      /\ longer[Len(q) + 1] = m
  BY <1>1, <1>2
<1> HIDE DEF longer, q
<1>6. mutations' \in [Holder -> Seq(Mutation)] /\ mutations'[c] = longer
      /\ \A h \in Holder : h # c => mutations'[h] = mutations[h]
  BY <1>3, <1>5
<1> QED
  BY <1>4, <1>5, <1>6

\* The oldest write of a queue leaves it.
LEMMA Taken ==
    ASSUME mutations \in [Holder -> Seq(Mutation)], NEW c \in Holder,
           mutations[c] # << >>,
           mutations' = [mutations EXCEPT ![c] = Tail(@)]
    PROVE  /\ mutations' \in [Holder -> Seq(Mutation)]
           /\ Head(mutations[c]) \in Mutation
           /\ \A q \in Holder : \A i \in DOMAIN mutations[q] :
                 \/ \E j \in DOMAIN mutations'[q] : mutations'[q][j] = mutations[q][i]
                 \/ mutations[q][i] = Head(mutations[c])
           /\ \A q \in Holder : \A i \in DOMAIN mutations'[q] :
                 \E j \in DOMAIN mutations[q] : mutations'[q][i] = mutations[q][j]
<1> DEFINE q == mutations[c]
<1>1. q \in Seq(Mutation) /\ Len(q) \in Nat /\ Len(q) # 0
  OBVIOUS
<1> DEFINE rest == Tail(q)
<1>2. /\ rest \in Seq(Mutation)
      /\ DOMAIN q = 1 .. Len(q) /\ DOMAIN rest = 1 .. Len(q) - 1
      /\ \A i \in 1 .. Len(q) - 1 : rest[i] = q[i + 1]
      /\ Head(q) = q[1] /\ q[1] \in Mutation
  BY <1>1
<1>3. mutations' = [mutations EXCEPT ![c] = rest] /\ q = mutations[c]
  OBVIOUS
<1> HIDE DEF rest, q
<1>4. mutations' \in [Holder -> Seq(Mutation)] /\ mutations'[c] = rest
      /\ \A h \in Holder : h # c => mutations'[h] = mutations[h]
  BY <1>2, <1>3
<1>5. \A i \in DOMAIN q : q[i] = Head(q) \/ \E j \in DOMAIN rest : rest[j] = q[i]
  <2>1. SUFFICES ASSUME NEW i \in DOMAIN q, i # 1
                 PROVE  i - 1 \in DOMAIN rest /\ rest[i - 1] = q[i]
    BY <1>2
  <2>2. i - 1 \in 1 .. Len(q) - 1 /\ i = (i - 1) + 1
    BY <1>1, <1>2, <2>1
  <2> QED
    BY <1>2, <2>2
<1>6. \A i \in DOMAIN rest : i + 1 \in DOMAIN q /\ rest[i] = q[i + 1]
  BY <1>1, <1>2
<1> QED
  BY <1>2, <1>3, <1>4, <1>5, <1>6, SMTT(20)

\* Only completions and the two buttons of the profile screen queue writes, and only
\* Firestore takes them off.
LEMMA OtherSteps ==
    ASSUME [Next]_vars
    PROVE  \/ Update \/ DeleteAccount \/ Completion \/ CommitWrite \/ RefuseWrite
           \/ UNCHANGED <<doc, mutations>>
<1>1. CASE Stop
  BY <1>1 DEF Stop, server
<1>2. ASSUME Launch \/ OpenSettings \/ OpenProfile \/ Back \/ LogoutButton
             \/ LoginScreenButton \/ ForgetPasswordAction \/ SendRestPasswordLink
             \/ CloseOver \/ EditEmail \/ ListAppears \/ Execute \/ Refuse \/ Deliver
             \/ HearOfUser
      PROVE  UNCHANGED <<doc, mutations>>
  BY <1>2 DEF Launch, OpenSettings, OpenProfile, Back, LogoutButton, LoginScreenButton,
              ForgetPasswordAction, SendRestPasswordLink, CloseOver, EditEmail,
              ListAppears, Execute, Refuse, Deliver, HearOfUser, server
<1>3. CASE ProfileAppears \/ LookupDone
  BY <1>1, <1>3 DEF ProfileAppears, LookupDone, server
<1> QED
  BY <1>1, <1>2, <1>3
     DEF Next, UserStep, MainStep, WriteStep, Terminate, vars, server

\* The completion of a sign-up queues the document of the new account.
LEMMA CompletionQueues ==
    ASSUME TypeOK, MainKnown, Completion
    PROVE  \/ /\ UNCHANGED mutations
              /\ ~ (Head(main).op = "signup" /\ Head(main).result = "ok")
           \/ \E m \in Mutation :
                 /\ Head(main).op = "signup" /\ Head(main).result = "ok"
                 /\ m.op = "set" /\ m.user = Head(main).user
                 /\ mutations' = [mutations EXCEPT ![firestoreUser] = Append(@, m)]
<1> DEFINE r == Head(main)
<1> DEFINE m == [op |-> "set", user |-> r.user, email |-> r.email, from |-> r.user]
<1>1. r \in Request /\ IsKnown(r)
  BY CompletionOf
<1>2. SignupDone(r) \/ LoginDone(r) \/ ResetDone(r) \/ DeleteDone(r) \/ UpdateDone(r)
  BY DEF Completion
<1> HIDE DEF r
<1>3. CASE SignupDone(r) /\ r.result = "ok"
  <2>1. r.user \in User /\ r.email \in Text /\ r.op = "signup"
    BY <1>1, <1>3 DEF SignupDone, IsKnown, Request
  <2>2. m \in Mutation /\ m.op = "set" /\ m.user = r.user
    BY <2>1, Extras DEF Mutation
  <2>3. mutations' = [mutations EXCEPT ![firestoreUser] = Append(@, m)]
    BY <1>3 DEF SignupDone, WritesProfile, Queue
  <2> HIDE DEF m
  <2> QED
    BY <1>3, <2>1, <2>2, <2>3 DEF r
<1>4. CASE SignupDone(r) /\ r.result # "ok"
  BY <1>4 DEF SignupDone, WritesProfile, r
<1>5. CASE ~ SignupDone(r)
  BY <1>2, <1>5 DEF LoginDone, ResetDone, DeleteDone, UpdateDone, r
<1> QED
  BY <1>3, <1>4, <1>5

\* update and deleteAccount queue a write of the user who is signed in.
LEMMA ProfileQueues ==
    ASSUME TypeOK, ScreensInPlace, Update \/ DeleteAccount, ~ Stop
    PROVE  /\ currentUser \in User
           /\ \E m \in Mutation :
                 /\ m.op # "set" /\ m.user = currentUser
                 /\ m.op = "delete" => DeleteAccount /\ excused' = excused \cup {currentUser}
                 /\ mutations' = [mutations EXCEPT ![firestoreUser] = Append(@, m)]
<1>1. currentUser \in User /\ openedBy \in Holder
  BY DEF Update, DeleteAccount, TypeOK, Holder
<1>2. CASE Update
  <2> DEFINE m == [op |-> "update", user |-> currentUser, email |-> profileEmail,
                   from |-> openedBy]
  <2>1. m \in Mutation /\ m.op = "update" /\ m.user = currentUser
    BY <1>1 DEF Mutation, TypeOK
  <2>2. mutations' = [mutations EXCEPT ![firestoreUser] = Append(@, m)]
    BY <1>2 DEF Update, Queue
  <2> QED
    BY <1>1, <2>1, <2>2
<1>3. CASE DeleteAccount
  <2> DEFINE m == [op |-> "delete", user |-> currentUser, email |-> Blank,
                   from |-> openedBy]
  <2>1. m \in Mutation /\ m.op = "delete" /\ m.user = currentUser
    BY <1>1, Extras DEF Mutation
  <2>2. /\ mutations' = [mutations EXCEPT ![firestoreUser] = Append(@, m)]
        /\ excused' = excused \cup {currentUser}
    BY <1>3 DEF DeleteAccount, Queue
  <2> QED
    BY <1>1, <1>3, <2>1, <2>2
<1> QED
  BY <1>2, <1>3

\* Every step keeps the type of the queues.
LEMMA QueuesKept ==
    ASSUME TypeOK, MainKnown, ScreensInPlace, [Next]_vars
    PROVE  mutations' \in [Holder -> Seq(Mutation)]
<1>1. firestoreUser \in Holder /\ mutations \in [Holder -> Seq(Mutation)]
  BY DEF TypeOK
<1>2. CASE UNCHANGED mutations
  BY <1>1, <1>2
<1>3. CASE Completion
  BY <1>1, <1>3, CompletionQueues, Appended
<1>4. CASE Update \/ DeleteAccount
  <2>1. CASE ~ Stop
    BY <1>1, <1>4, <2>1, ProfileQueues, Appended
  <2> QED
    BY <1>1, <2>1 DEF Stop
<1>5. CASE CommitWrite \/ RefuseWrite
  <2>1. /\ mutations[firestoreUser] # << >>
        /\ \/ UNCHANGED mutations
           \/ mutations' = [mutations EXCEPT ![firestoreUser] = Tail(@)]
    BY <1>5 DEF CommitWrite, RefuseWrite, Sendable
  <2> QED
    BY <1>1, <2>1, Taken
<1> QED
  BY <1>2, <1>3, <1>4, <1>5, OtherSteps

ServerTypeOK ==
    /\ email \in [User -> Email \cup {None}]
    /\ given \in SUBSET User
    /\ doc \in [User -> Text \cup {None}]
    /\ excused \in SUBSET User
    /\ cutOff \in SUBSET User

\* A sign-up that is not over is in the requests or on the main queue.
LEMMA UnfinishedUsers ==
    ASSUME TypeOK, RequestsKnown, MainKnown
    PROVE  Unfinished \in SUBSET User
<1>1. ASSUME NEW r \in requests \cup {main[i] : i \in DOMAIN main},
             r.op = "signup" /\ r.result = "ok"
      PROVE  r.user \in User
  <2>1. CASE r \in requests
    BY <1>1, <2>1 DEF RequestsKnown, IsKnown
  <2>2. CASE r \notin requests
    <3>1. r \in Item
      BY <1>1, <2>2 DEF MainKnown
    <3> QED
      BY <1>1, <3>1 DEF Item, News, IsKnown
  <2> QED
    BY <2>1, <2>2
<1> QED
  BY <1>1 DEF Unfinished

\* What the server has carried out is about a user, and leaves an address.
LEMMA AcceptTypes ==
    ASSUME TypeOK, RequestsKnown, NEW r \in requests, NEW u \in Holder,
           AuthAccepts(r, u)
    PROVE  /\ email' \in [User -> Email \cup {None}]
           /\ r.op = "signup" => u \in User
<1>1. r \in Request /\ IsKnown(r) /\ email \in [User -> Email \cup {None}]
  BY DEF TypeOK, RequestsKnown
<1>2. r.op \in {"updateEmail", "delete"} => r.user \in User
  BY <1>1 DEF IsKnown
<1>3. r.op = "signup" => r.email \in Email
  BY <1>1 DEF IsKnown
<1>4. r.email \in Email \cup {Blank}
  BY <1>1 DEF Request, Text
<1>5. CASE r.op = "signup"
  BY <1>1, <1>3, <1>5 DEF AuthAccepts
<1>6. CASE r.op \in {"login", "reset"}
  BY <1>1, <1>6 DEF AuthAccepts
<1>7. CASE r.op \in {"updateEmail", "delete"}
  BY <1>1, <1>2, <1>4, <1>7 DEF AuthAccepts
<1> QED
  BY <1>1, <1>5, <1>6, <1>7 DEF Request

\* A committed write leaves a document or none.
LEMMA AppliedType ==
    ASSUME NEW m \in Mutation, NEW v \in Text \cup {None}
    PROVE  /\ Applied(m, v) \in Text \cup {None}
           /\ m.op = "set" => Applied(m, v) # None
           /\ m.op = "update" /\ v # None => Applied(m, v) # None
<1>1. m.email \in Text /\ None \notin Text
  BY DEF Mutation, Text
<1> QED
  BY <1>1 DEF Applied

\* Every step keeps the types of the accounts and the documents.
LEMMA ServerKept ==
    ASSUME TypeOK, RequestsKnown, MainKnown, [Next]_vars
    PROVE  ServerTypeOK' /\ excused \subseteq excused' /\ cutOff \subseteq cutOff'
<1> DEFINE Kept == ServerTypeOK' /\ excused \subseteq excused' /\ cutOff \subseteq cutOff'
<1>1. /\ email \in [User -> Email \cup {None}] /\ given \in SUBSET User
      /\ doc \in [User -> Text \cup {None}] /\ excused \in SUBSET User
      /\ cutOff \in SUBSET User
      /\ currentUser \in Holder /\ firestoreUser \in Holder
      /\ mutations \in [Holder -> Seq(Mutation)] /\ requests \in SUBSET Request
  BY DEF TypeOK
<1>2. ASSUME UNCHANGED <<server, cutOff>>, excused \subseteq excused',
             excused' \in SUBSET User
      PROVE  Kept
  BY <1>1, <1>2 DEF server, ServerTypeOK
<1>3. CASE Stop
  <2>1. UNCHANGED <<server, excused>> /\ cutOff' = cutOff \cup Unfinished
    BY <1>3 DEF Stop
  <2> QED
    BY <1>1, <2>1, UnfinishedUsers DEF server, ServerTypeOK
<1>4. CASE Execute
  <2>1. PICK r \in requests, u \in Holder :
             /\ AuthAccepts(r, u)
             /\ given' = given \cup ({u} \ {None})
             /\ \/ UNCHANGED excused
                \/ excused' = IF r.op = "signup" THEN excused \cup {u} ELSE excused
             /\ UNCHANGED <<doc, cutOff>>
    BY <1>4 DEF Execute
  <2>2. /\ email' \in [User -> Email \cup {None}]
        /\ r.op = "signup" => u \in User
    BY <2>1, AcceptTypes
  <2>3. given' \in SUBSET User
    BY <1>1, <2>1 DEF Holder
  <2> QED
    BY <1>1, <2>1, <2>2, <2>3 DEF ServerTypeOK
<1>5. CASE CommitWrite
  <2> DEFINE m == Head(mutations[firestoreUser])
  <2>1. m \in Mutation
    BY <1>1, <1>5 DEF CommitWrite, Sendable
  <2>2. m.user \in User
    BY <2>1 DEF Mutation
  <2>3. doc' = [doc EXCEPT ![m.user] = Applied(m, @)] /\ UNCHANGED <<email, given, history>>
    BY <1>5 DEF CommitWrite
  <2> HIDE DEF m
  <2>4. Applied(m, doc[m.user]) \in Text \cup {None}
    BY <1>1, <2>1, <2>2, AppliedType
  <2> QED
    BY <1>1, <2>2, <2>3, <2>4 DEF ServerTypeOK, history
<1>6. CASE RefuseWrite
  <2> DEFINE m == Head(mutations[firestoreUser])
  <2>1. m \in Mutation
    BY <1>1, <1>6 DEF RefuseWrite, Sendable
  <2>2. m.user \in User
    BY <2>1 DEF Mutation
  <2>3. /\ UNCHANGED <<server, cutOff>>
        /\ excused' = IF m.op = "set" THEN excused \cup {m.user} ELSE excused
    BY <1>6 DEF RefuseWrite
  <2> QED
    BY <1>1, <1>2, <2>2, <2>3
<1>7. CASE DeleteAccount
  <2>1. CASE ~ Stop
    <3>1. UNCHANGED <<server, cutOff>> /\ excused' = excused \cup {currentUser} /\ currentUser # None
      BY <1>7, <2>1 DEF DeleteAccount
    <3> QED
      BY <1>1, <1>2, <3>1 DEF Holder
  <2> QED
    BY <1>3, <2>1
<1>8. CASE UNCHANGED <<server, history>>
  BY <1>1, <1>2, <1>8 DEF history
<1>9. ASSUME Launch \/ OpenSettings \/ OpenProfile \/ Back \/ LogoutButton
             \/ LoginScreenButton \/ ForgetPasswordAction \/ SendRestPasswordLink
             \/ CloseOver \/ EditEmail \/ ListAppears \/ Refuse \/ Deliver
             \/ HearOfUser \/ Completion
      PROVE  UNCHANGED <<server, history>>
  BY <1>9 DEF Launch, OpenSettings, OpenProfile, Back, LogoutButton, LoginScreenButton,
              ForgetPasswordAction, SendRestPasswordLink, CloseOver, EditEmail,
              ListAppears, Refuse, Deliver, HearOfUser, Completion
<1>10. CASE Update \/ ProfileAppears \/ LookupDone
  <2>1. Stop \/ UNCHANGED <<server, history>>
    BY <1>10 DEF Update, ProfileAppears, LookupDone
  <2> QED
    BY <1>3, <1>8, <2>1
<1> QED
  BY <1>3, <1>4, <1>5, <1>6, <1>7, <1>8, <1>9, <1>10
     DEF Next, UserStep, MainStep, WriteStep, Terminate, vars

\* Every step keeps the types.
LEMMA TypesKept ==
    ASSUME TypeOK, RequestsKnown, MainKnown, ScreensInPlace, LookupsOfScreens,
           ShowsWhoOpened, [Next]_vars
    PROVE  TypeOK'
<1>1. ServerTypeOK'
  BY ServerKept
<1>2. mutations' \in [Holder -> Seq(Mutation)]
  BY QueuesKept
<1>3. ScreenTypeOK'
  BY ScreensKept
<1>4. requests' \in SUBSET Request /\ calls' \in 0 .. MaxCalls
  BY RequestsKept
<1>5. lookups' \in SUBSET Lookup
  BY LookupsKept
<1>6. currentUser' \in Holder /\ firestoreUser' \in Holder /\ MainKnown'
  BY MainKept
<1>7. main' \in Seq(News \cup Request)
  BY <1>6 DEF MainKnown, Item
<1> QED
  BY <1>1, <1>2, <1>3, <1>4, <1>5, <1>6, <1>7, Zenon
     DEF TypeOK, ServerTypeOK, ScreenTypeOK

-----------------------------------------------------------------------------
(* What becomes of an account.                                             *)

\* A deletion that is queued stays excused, and a new one is.
LEMMA DeletionsKept ==
    ASSUME TypeOK, RequestsKnown, MainKnown, ScreensInPlace, DeletionsExcused,
           [Next]_vars
    PROVE  DeletionsExcused'
<1>1. excused \subseteq excused' /\ mutations \in [Holder -> Seq(Mutation)]
      /\ firestoreUser \in Holder
  BY ServerKept DEF TypeOK
<1>2. ASSUME \A q \in Holder : \A i \in DOMAIN mutations'[q] :
                \E j \in DOMAIN mutations[q] : mutations'[q][i] = mutations[q][j]
      PROVE  DeletionsExcused'
  <2>1. SUFFICES ASSUME NEW q \in Holder, NEW i \in DOMAIN mutations'[q],
                        mutations'[q][i].op = "delete"
                 PROVE  mutations'[q][i].user \in excused'
    BY DEF DeletionsExcused
  <2>2. PICK j \in DOMAIN mutations[q] : mutations'[q][i] = mutations[q][j]
    BY <1>2
  <2> QED
    BY <1>1, <2>1, <2>2 DEF DeletionsExcused
<1>3. ASSUME NEW m \in Mutation, m.op = "delete" => m.user \in excused',
             mutations' = [mutations EXCEPT ![firestoreUser] = Append(@, m)]
      PROVE  DeletionsExcused'
  <2>1. SUFFICES ASSUME NEW q \in Holder, NEW i \in DOMAIN mutations'[q],
                        mutations'[q][i].op = "delete"
                 PROVE  mutations'[q][i].user \in excused'
    BY DEF DeletionsExcused
  <2>2. \/ i \in DOMAIN mutations[q] /\ mutations'[q][i] = mutations[q][i]
        \/ mutations'[q][i] = m
    BY <1>1, <1>3, Appended
  <2> QED
    BY <1>1, <1>3, <2>1, <2>2 DEF DeletionsExcused
<1>4. CASE UNCHANGED mutations
  BY <1>2, <1>4
<1>5. CASE CommitWrite \/ RefuseWrite
  <2>1. mutations[firestoreUser] # << >>
        /\ (UNCHANGED mutations \/ mutations' = [mutations EXCEPT ![firestoreUser] = Tail(@)])
    BY <1>5 DEF CommitWrite, RefuseWrite, Sendable
  <2>2. CASE mutations' = [mutations EXCEPT ![firestoreUser] = Tail(@)]
    BY <1>1, <1>2, <2>1, <2>2, Taken
  <2> QED
    BY <1>4, <2>1, <2>2
<1>6. CASE Update \/ DeleteAccount
  <2>1. CASE Stop
    BY <1>4, <2>1 DEF Stop
  <2>2. CASE ~ Stop
    BY <1>1, <1>3, <1>6, <2>2, ProfileQueues
  <2> QED
    BY <2>1, <2>2
<1>7. CASE Completion
  BY <1>3, <1>4, <1>7, CompletionQueues
<1> QED
  BY <1>4, <1>5, <1>6, <1>7, OtherSteps

\* The document of u is to be written, and u's own queue has the write.
SetQueued(u) ==
    \E i \in DOMAIN mutations[u] : mutations[u][i].op = "set" /\ mutations[u][i].user = u

\* The document of u is there, or to be written, or its sign-up is not over.
Accounted(u) == doc[u] # None \/ u \in Unfinished \/ SetQueued(u)

\* The SDK has not handled the answer, or its completion has not run.
Waits(s) == s \in requests \/ \E i \in DOMAIN main : main[i] = s

\* The news, if there is one, and the completion are behind what was there.
LEMMA PostedBehind ==
    ASSUME MainKnown, NEW r
    PROVE  /\ \A i \in DOMAIN main : i \in DOMAIN Posted(r) /\ Posted(r)[i] = main[i]
           /\ \E i \in DOMAIN Posted(r) : Posted(r)[i] = r
           /\ \A u : \A i \in DOMAIN main :
                 i \in DOMAIN Announced(main, u) /\ Announced(main, u)[i] = main[i]
<1>1. ASSUME NEW S, NEW q \in Seq(S), NEW x
      PROVE  /\ Append(q, x) \in Seq(S \cup {x})
             /\ \A i \in DOMAIN q : i \in DOMAIN Append(q, x) /\ Append(q, x)[i] = q[i]
             /\ Len(q) + 1 \in DOMAIN Append(q, x) /\ Append(q, x)[Len(q) + 1] = x
  <2>1. q \in Seq(S \cup {x}) /\ x \in S \cup {x}
    OBVIOUS
  <2> QED
    BY <2>1
<1>2. ASSUME NEW u
      PROVE  /\ \E T : Announced(main, u) \in Seq(T)
             /\ \A i \in DOMAIN main :
                   i \in DOMAIN Announced(main, u) /\ Announced(main, u)[i] = main[i]
  <2>1. CASE u = currentUser
    BY <2>1 DEF Announced, MainKnown
  <2>2. CASE u # currentUser
    <3>1. Announced(main, u) = Append(main, NewsOf(u))
      BY <2>2 DEF Announced
    <3>2. main \in Seq(Item)
      BY DEF MainKnown
    <3>3. /\ Append(main, NewsOf(u)) \in Seq(Item \cup {NewsOf(u)})
          /\ \A i \in DOMAIN main : /\ i \in DOMAIN Append(main, NewsOf(u))
                                   /\ Append(main, NewsOf(u))[i] = main[i]
      BY <1>1, <3>2
    <3> QED
      BY <3>1, <3>3, Zenon
  <2> QED
    BY <2>1, <2>2
<1> DEFINE q == Announced(main, UserAfter(r))
<1>3. PICK T : q \in Seq(T)
  BY <1>2
<1>4. /\ \A i \in DOMAIN q : i \in DOMAIN Append(q, r) /\ Append(q, r)[i] = q[i]
      /\ \E i \in DOMAIN Append(q, r) : Append(q, r)[i] = r
  <2> HIDE DEF q
  <2> QED
    BY <1>1, <1>3
<1>5. \A i \in DOMAIN main : i \in DOMAIN q /\ q[i] = main[i]
  BY <1>2
<1>6. Posted(r) = Append(q, r)
  BY DEF Posted
<1> HIDE DEF q
<1> QED
  BY <1>2, <1>4, <1>5, <1>6

\* An answer waits until its completion runs, or the process ends.
LEMMA WaitingStays ==
    ASSUME TypeOK, MainKnown, ProcessEnds, [Next]_vars, ~ Stop,
           NEW s, Waits(s), s.op # "news", s.stage # "asked"
    PROVE  Waits(s)' \/ (Completion /\ s = Head(main))
<1>1. CASE requests \subseteq requests' /\ UNCHANGED main
  BY <1>1 DEF Waits
<1>2. ASSUME NEW r \in requests, main' = Posted(r), requests \ {r} \subseteq requests'
      PROVE  Waits(s)'
  <2>1. CASE s = r
    BY <1>2, <2>1, PostedBehind DEF Waits
  <2>2. CASE s # r
    BY <1>2, <2>2, PostedBehind DEF Waits
  <2> QED
    BY <2>1, <2>2
<1>3. CASE Deliver
  BY <1>2, <1>3 DEF Deliver
<1>4. CASE Update \/ DeleteAccount
  BY <1>1, <1>2, <1>4, SecondRead
<1>5. CASE LogoutButton
  BY <1>5, PostedBehind DEF LogoutButton, async, Waits
<1>6. CASE HearOfUser \/ Completion
  <2>1. main # << >> /\ main' = Tail(main) /\ requests' = requests
    BY <1>6 DEF HearOfUser, Completion, async
  <2>2. \A i \in DOMAIN main :
           i = 1 \/ (i - 1 \in DOMAIN Tail(main) /\ Tail(main)[i - 1] = main[i])
    BY <2>1 DEF MainKnown
  <2>3. main[1] = Head(main)
    BY <2>1 DEF MainKnown
  <2>4. Waits(s)' \/ s = Head(main)
    BY <2>1, <2>2, <2>3 DEF Waits
  <2> QED
    BY <1>6, <2>4 DEF HearOfUser
<1>7. CASE Execute \/ Refuse
  <2>1. PICK r \in requests : r.stage = "asked" /\ \E w, o : Answered(r, w, o)
    BY <1>7 DEF Execute, Refuse
  <2>2. r # s
    BY <2>1
  <2>3. main' = main
    BY <1>7 DEF Execute, Refuse, session
  <2> QED
    BY <2>1, <2>2, <2>3 DEF Answered, Waits
<1>8. CASE Launch
  BY <1>8 DEF Launch, ProcessEnds, Waits
<1>9. ASSUME OpenSettings \/ OpenProfile \/ Back \/ LoginScreenButton
             \/ ForgetPasswordAction \/ SendRestPasswordLink \/ CloseOver \/ EditEmail
             \/ ListAppears \/ ProfileAppears \/ WriteStep \/ LookupDone
      PROVE  requests \subseteq requests' /\ UNCHANGED main
  BY <1>9 DEF OpenSettings, OpenProfile, Back, LoginScreenButton, ForgetPasswordAction,
              SendRestPasswordLink, CloseOver, EditEmail, ListAppears, ProfileAppears,
              WriteStep, CommitWrite, RefuseWrite, LookupDone, session, async, Ask
<1> QED
  BY <1>1, <1>3, <1>4, <1>5, <1>6, <1>7, <1>8, <1>9
     DEF Next, UserStep, MainStep, Terminate, vars, session, async

\* A sign-up that Auth has carried out is not over before its completion has run.
LEMMA UnfinishedStays ==
    ASSUME TypeOK, RequestsKnown, MainKnown, ProcessEnds, [Next]_vars, ~ Stop,
           NEW u \in Unfinished
    PROVE  \/ u \in Unfinished'
           \/ /\ Completion
              /\ Head(main).op = "signup" /\ Head(main).result = "ok"
              /\ Head(main).user = u
<1>1. PICK s : Waits(s) /\ s.op = "signup" /\ s.result = "ok" /\ s.user = u
  BY DEF Unfinished, Waits
<1>2. s.op # "news" /\ s.stage # "asked"
  <2>1. s \in requests \/ s \in Item
    BY <1>1 DEF Waits, MainKnown
  <2>2. IsKnown(s)
    BY <1>1, <2>1 DEF RequestsKnown, Item, News
  <2> QED
    BY <1>1, <2>2 DEF IsKnown
<1>3. Waits(s)' \/ (Completion /\ s = Head(main))
  BY <1>1, <1>2, WaitingStays
<1>4. CASE Waits(s)'
  <2>1. s \in requests' \cup {main'[i] : i \in DOMAIN main'}
    BY <1>4 DEF Waits
  <2> QED
    BY <1>1, <2>1 DEF Unfinished
<1> QED
  BY <1>1, <1>3, <1>4

\* A step of Auth that makes an account leaves its sign-up to be finished, or
\* excuses it.
LEMMA ExecuteAccounts ==
    ASSUME TypeOK, RequestsKnown, Execute, NEW u \in User, email'[u] # None,
           u \notin excused'
    PROVE  email[u] # None \/ u \in Unfinished'
<1>1. PICK r \in requests, w \in Holder :
           /\ AuthAccepts(r, w)
           /\ \/ Answered(r, w, "ok")
              \/ excused' = IF r.op = "signup" THEN excused \cup {w} ELSE excused
  BY DEF Execute
<1>2. r \in Request /\ email \in [User -> Email \cup {None}]
  BY DEF TypeOK
<1>3. CASE r.op = "signup" /\ w = u
  <2>1. Answered(r, u, "ok")
    BY <1>1, <1>3
  <2> DEFINE new == [r EXCEPT !.stage = "answered", !.user = u, !.result = "ok"]
  <2>2. new.op = "signup" /\ new.result = "ok" /\ new.user = u
    BY <1>2, <1>3 DEF Request
  <2>3. new \in requests'
    BY <2>1 DEF Answered
  <2> HIDE DEF new
  <2> QED
    BY <2>2, <2>3 DEF Unfinished
<1>4. CASE ~ (r.op = "signup" /\ w = u)
  BY <1>1, <1>2, <1>4 DEF AuthAccepts
<1> QED
  BY <1>3, <1>4

\* A document goes only by a deletion, and a queued document only into the
\* collection or by a refusal.
LEMMA DocumentStays ==
    ASSUME TypeOK, RequestsKnown, MainKnown, ScreensInPlace, DeletionsExcused,
           [Next]_vars, NEW u \in User, doc[u] # None \/ SetQueued(u)
    PROVE  doc'[u] # None \/ SetQueued(u)' \/ u \in excused'
<1>1. /\ mutations \in [Holder -> Seq(Mutation)] /\ firestoreUser \in Holder
      /\ u \in Holder
      /\ doc \in [User -> Text \cup {None}] /\ excused \subseteq excused'
  BY ServerKept, Extras DEF TypeOK
<1>2. ASSUME UNCHANGED doc, NEW m \in Mutation,
             mutations' = [mutations EXCEPT ![firestoreUser] = Append(@, m)]
      PROVE  doc'[u] # None \/ SetQueued(u)'
  <2>1. \A q \in Holder : \A i \in DOMAIN mutations[q] :
           i \in DOMAIN mutations'[q] /\ mutations'[q][i] = mutations[q][i]
    BY <1>1, <1>2, Appended
  <2> QED
    BY <1>2, <2>1 DEF SetQueued
<1>3. CASE UNCHANGED <<doc, mutations>>
  BY <1>3 DEF SetQueued
<1>4. CASE CommitWrite
  <2> DEFINE m == Head(mutations[firestoreUser])
  <2>1. /\ mutations[firestoreUser] # << >>
        /\ doc' = [doc EXCEPT ![m.user] = Applied(m, @)]
        /\ m.op = "update" => doc[m.user] # None
        /\ UNCHANGED mutations \/ mutations' = [mutations EXCEPT ![firestoreUser] = Tail(@)]
    BY <1>4 DEF CommitWrite, Sendable
  <2>2. m \in Mutation
    BY <1>1, <2>1
  <2>3. \E i \in DOMAIN mutations[firestoreUser] : m = mutations[firestoreUser][i]
    BY <1>1, <2>1
  <2> HIDE DEF m
  <2>4. /\ m.user \in User
        /\ m.op \in {"set", "update", "delete"}
    BY <2>2 DEF Mutation
  <2>5. CASE m.user = u
    <3>1. CASE m.op = "delete"
      BY <1>1, <2>3, <2>5, <3>1 DEF DeletionsExcused
    <3>2. CASE m.op # "delete"
      <4>1. doc'[u] = Applied(m, doc[u])
        BY <1>1, <2>1, <2>5
      <4>2. Applied(m, doc[u]) # None
        BY <1>1, <2>1, <2>2, <2>4, <2>5, <3>2, AppliedType
      <4> QED
        BY <4>1, <4>2
    <3> QED
      BY <3>1, <3>2
  <2>6. CASE m.user # u
    <3>1. doc'[u] = doc[u]
      BY <1>1, <2>1, <2>6
    <3>2. SetQueued(u) => SetQueued(u)'
      <4>1. CASE UNCHANGED mutations
        BY <4>1 DEF SetQueued
      <4>2. CASE mutations' = [mutations EXCEPT ![firestoreUser] = Tail(@)]
        <5>1. \A q \in Holder : \A i \in DOMAIN mutations[q] :
                 \/ \E j \in DOMAIN mutations'[q] : mutations'[q][j] = mutations[q][i]
                 \/ mutations[q][i] = m
          BY <1>1, <2>1, <4>2, Taken DEF m
        <5>2. SUFFICES ASSUME NEW i \in DOMAIN mutations[u],
                              mutations[u][i].op = "set" /\ mutations[u][i].user = u
                       PROVE  SetQueued(u)'
          BY DEF SetQueued
        <5>3. PICK j \in DOMAIN mutations'[u] : mutations'[u][j] = mutations[u][i]
          BY <1>1, <2>6, <5>1, <5>2
        <5> QED
          BY <5>2, <5>3 DEF SetQueued
      <4> QED
        BY <2>1, <4>1, <4>2
    <3> QED
      BY <3>1, <3>2
  <2> QED
    BY <2>5, <2>6
<1>5. CASE RefuseWrite
  <2> DEFINE m == Head(mutations[firestoreUser])
  <2>1. /\ mutations[firestoreUser] # << >>
        /\ UNCHANGED doc
        /\ mutations' = [mutations EXCEPT ![firestoreUser] = Tail(@)]
        /\ excused' = IF m.op = "set" THEN excused \cup {m.user} ELSE excused
    BY <1>5 DEF RefuseWrite, Sendable, server
  <2>2. \A q \in Holder : \A i \in DOMAIN mutations[q] :
           \/ \E j \in DOMAIN mutations'[q] : mutations'[q][j] = mutations[q][i]
           \/ mutations[q][i] = m
    BY <1>1, <2>1, Taken
  <2> HIDE DEF m
  <2>3. CASE doc[u] # None
    BY <2>1, <2>3
  <2>4. ASSUME NEW i \in DOMAIN mutations[u],
               mutations[u][i].op = "set" /\ mutations[u][i].user = u
        PROVE  SetQueued(u)' \/ u \in excused'
    <3>1. CASE mutations[u][i] = m
      BY <2>1, <2>4, <3>1
    <3>2. CASE mutations[u][i] # m
      <4>1. PICK j \in DOMAIN mutations'[u] : mutations'[u][j] = mutations[u][i]
        BY <1>1, <2>2, <3>2
      <4> QED
        BY <2>4, <4>1 DEF SetQueued
    <3> QED
      BY <3>1, <3>2
  <2> QED
    BY <2>3, <2>4 DEF SetQueued
<1>6. CASE Update \/ DeleteAccount
  <2>1. CASE Stop
    BY <1>3, <2>1 DEF Stop, server
  <2>2. CASE ~ Stop
    <3>1. UNCHANGED doc
      BY <1>6, <2>2 DEF Update, DeleteAccount, server
    <3> QED
      BY <1>2, <1>6, <2>2, <3>1, ProfileQueues
  <2> QED
    BY <2>1, <2>2
<1>7. CASE Completion
  <2>1. UNCHANGED doc
    BY <1>7 DEF Completion, server
  <2> QED
    BY <1>2, <1>3, <1>7, <2>1, CompletionQueues
<1> QED
  BY <1>3, <1>4, <1>5, <1>6, <1>7, OtherSteps

\* Every step keeps every account accounted for.
LEMMA ProfilesKept ==
    ASSUME TypeOK, RequestsKnown, MainKnown, ProcessEnds, NewsInOrder, ScreensInPlace,
           DeletionsExcused, ProfileAccounted, [Next]_vars
    PROVE  ProfileAccounted'
<1>1. SUFFICES ASSUME NEW u \in User, email'[u] # None, u \notin excused', u \notin cutOff'
               PROVE  Accounted(u)'
  BY DEF ProfileAccounted, Accounted, SetQueued
<1>2. u \notin excused /\ u \notin cutOff
  BY <1>1, ServerKept
<1>3. ASSUME email[u] # None, u \in Unfinished => Accounted(u)'
      PROVE  Accounted(u)'
  <2>1. Accounted(u)
    BY <1>2, <1>3 DEF ProfileAccounted, Accounted, SetQueued
  <2> QED
    BY <1>1, <1>3, <2>1, DocumentStays DEF Accounted
<1>4. CASE Stop
  BY <1>1, <1>3, <1>4 DEF Stop, server
<1>5. ASSUME ~ Stop, u \in Unfinished
      PROVE  Accounted(u)'
  <2>1. CASE u \in Unfinished'
    BY <2>1 DEF Accounted
  <2>2. CASE u \notin Unfinished'
    <3>1. /\ Completion
          /\ Head(main).op = "signup" /\ Head(main).result = "ok" /\ Head(main).user = u
      BY <1>5, <2>2, UnfinishedStays
    <3>2. firestoreUser = u
      BY <3>1, SignupKnown
    <3>3. PICK m \in Mutation :
               /\ m.op = "set" /\ m.user = u
               /\ mutations' = [mutations EXCEPT ![u] = Append(@, m)]
      BY <3>1, <3>2, CompletionQueues
    <3>4. \E i \in DOMAIN mutations'[u] : mutations'[u][i] = m
      <4>1. mutations \in [Holder -> Seq(Mutation)] /\ u \in Holder
        BY Extras DEF TypeOK
      <4> QED
        BY <3>3, <4>1, Appended
    <3> QED
      BY <3>3, <3>4 DEF Accounted, SetQueued
  <2> QED
    BY <2>1, <2>2
<1>6. CASE Execute
  <2>1. email[u] # None \/ u \in Unfinished'
    BY <1>1, <1>6, ExecuteAccounts
  <2> QED
    BY <1>3, <1>4, <1>5, <2>1 DEF Accounted
<1>7. CASE ~ Execute /\ ~ Stop
  <2>1. UNCHANGED email
    BY <1>7 DEF Next, UserStep, MainStep, WriteStep, vars, server, Terminate, Launch,
                OpenSettings, OpenProfile, Back, LogoutButton, LoginScreenButton,
                ForgetPasswordAction, SendRestPasswordLink, CloseOver, EditEmail, Update,
                DeleteAccount, ListAppears, ProfileAppears, HearOfUser, Completion,
                Refuse, Deliver, CommitWrite, RefuseWrite, LookupDone
  <2> QED
    BY <1>1, <1>3, <1>5, <1>7, <2>1
<1> QED
  BY <1>4, <1>6, <1>7

\* A document in the collection or in the own queue, with no deletion of it queued,
\* is what getDocument finds.
LEMMA FindsDocument ==
    ASSUME TypeOK, DeletionsExcused, NEW u \in User, u \notin excused,
           firestoreUser = u, doc[u] # None \/ SetQueued(u)
    PROVE  HasDocument(u)
<1> DEFINE q == mutations[firestoreUser]
<1>1. PICK after :
           /\ LocalDoc(u) = after[Len(q)]
           /\ \A n \in 0 .. Len(q) :
                 /\ after[n] \in Text \cup {None}
                 /\ after[n] = IF n = 0 THEN doc[u]
                               ELSE IF q[n].user = u THEN Applied(q[n], after[n - 1])
                               ELSE after[n - 1]
  BY LocalDocSteps
<1>2. /\ Len(q) \in Nat /\ DOMAIN q = 1 .. Len(q)
      /\ \A i \in 1 .. Len(q) : q[i] \in Mutation
  BY DEF TypeOK
<1>3. \A i \in 1 .. Len(q) : q[i].user = u => q[i].op # "delete"
  BY <1>2 DEF DeletionsExcused, TypeOK
<1>4. doc[u] # None \/ \E i \in 1 .. Len(q) : q[i].op = "set" /\ q[i].user = u
  BY <1>2 DEF SetQueued
<1> DEFINE L == Len(q)
<1> HIDE DEF q
<1>5. ASSUME NEW n \in 1 .. L, after[n - 1] # None
      PROVE  after[n] # None
  <2>1. n - 1 \in 0 .. L /\ n \in 0 .. L /\ n # 0
    BY <1>2
  <2>2. after[n - 1] \in Text \cup {None} /\ q[n] \in Mutation
    BY <1>1, <1>2, <2>1
  <2>3. CASE q[n].user = u
    <3>1. after[n] = Applied(q[n], after[n - 1])
      BY <1>1, <2>1, <2>3
    <3>2. q[n].op \in {"set", "update"}
      BY <1>3, <2>2, <2>3 DEF Mutation
    <3> QED
      BY <1>5, <2>2, <3>1, <3>2, AppliedType
  <2>4. CASE q[n].user # u
    BY <1>1, <1>5, <2>1, <2>4
  <2> QED
    BY <2>3, <2>4
<1>6. PICK k \in 0 .. L : after[k] # None
  <2>1. CASE doc[u] # None
    BY <1>1, <1>2, <2>1
  <2>2. ASSUME NEW i \in 1 .. L, q[i].op = "set" /\ q[i].user = u
        PROVE  after[i] # None
    <3>1. i - 1 \in 0 .. L /\ i \in 0 .. L /\ i # 0
      BY <1>2
    <3>2. after[i - 1] \in Text \cup {None} /\ q[i] \in Mutation
      BY <1>1, <1>2, <3>1
    <3>3. after[i] = Applied(q[i], after[i - 1])
      BY <1>1, <2>2, <3>1
    <3> QED
      BY <2>2, <3>2, <3>3, AppliedType
  <2> QED
    BY <1>2, <1>4, <2>1, <2>2
<1>7. after[L] # None
  <2> DEFINE S == {n \in k .. L : after[n] = None}
  <2>1. SUFFICES ASSUME S # {} PROVE FALSE
    BY <1>2, <1>6
  <2>2. PICK n \in S : \A s \in S : n <= s
    <3>1. S \in SUBSET Nat
      BY <1>2, <1>6
    <3> HIDE DEF S
    <3> QED
      BY <2>1, <3>1, Least, Zenon
  <2>3. n # k /\ n \in 1 .. L /\ n - 1 \in k .. L
    BY <1>2, <1>6, <2>2
  <2>4. after[n - 1] # None
    BY <1>2, <1>6, <2>2, <2>3
  <2> QED
    BY <1>5, <2>2, <2>3, <2>4
<1> QED
  BY <1>1, <1>7 DEF HasDocument

-----------------------------------------------------------------------------
(* The theorems.                                                           *)

\* The screens, requests and queues of a fresh process are in order.
LEMMA InitInv == Init => IInv
<1> SUFFICES ASSUME Init PROVE IInv
  OBVIOUS
<1>1. TypeOK
  <2>1. email \in [User -> Text \cup {None}]
    BY DEF Init, Text
  <2>2. currentUser \in Holder /\ firestoreUser \in Holder /\ main = << >>
    BY DEF Init, Holder
  <2>3. mutations \in [Holder -> Seq(Mutation)]
    BY DEF Init
  <2>4. openedBy \in Holder /\ profileEmail \in Text /\ loadedFor \in Holder
    BY Extras DEF Init
  <2>5. running \in BOOLEAN /\ appearing \in BOOLEAN
    BY Zenon DEF Init
  <2>6. /\ calls \in 0 .. MaxCalls /\ excused \in SUBSET User /\ cutOff \in SUBSET User
        /\ loginVC \in 0 .. MaxControllers /\ profileVC \in 0 .. MaxControllers
        /\ controllers \in 0 .. MaxControllers
    BY DEF Init
  <2> QED
    BY <2>1, <2>2, <2>3, <2>4, <2>5, <2>6 DEF Init, TypeOK
<1>2. RequestsKnown /\ ScreensInPlace /\ LookupsOfScreens /\ ShowsWhoOpened
  BY DEF Init, RequestsKnown, ScreensInPlace, LookupsOfScreens, ShowsWhoOpened
<1>3. MainKnown /\ ProcessEnds /\ NewsInOrder
  BY DEF Init, MainKnown, ProcessEnds, NewsInOrder, InOrder, Hears
<1>4. DeletionsExcused
  BY DEF Init, DeletionsExcused
<1>5. ProfileAccounted
  BY DEF Init, ProfileAccounted
<1> QED
  BY <1>1, <1>2, <1>3, <1>4, <1>5 DEF IInv

\* The inductive invariant: what requests and completions are for, whose news stands
\* before which completion, where the screens are, which lookups are whose, and that
\* a queued deletion is excused.
THEOREM Inductive == Spec => []IInv
<1>1. IInv /\ [Next]_vars => IInv'
  <2> SUFFICES ASSUME IInv, [Next]_vars PROVE IInv'
    OBVIOUS
  <2> USE DEF IInv
  <2>1. TypeOK' /\ RequestsKnown' /\ ScreensInPlace'
    BY TypesKept, RequestsKept, ScreensKept
  <2>2. MainKnown' /\ ProcessEnds' /\ NewsInOrder'
    BY MainKept, ProcessKept, NewsKept
  <2>3. LookupsOfScreens' /\ ShowsWhoOpened'
    BY LookupsKept
  <2>4. DeletionsExcused' /\ ProfileAccounted'
    BY DeletionsKept, ProfilesKept
  <2> QED
    BY <2>1, <2>2, <2>3, <2>4
<1> QED
  BY <1>1, InitInv, PTL DEF Spec

\* Every variable keeps its type: no closure, however late, finds a screen or a
\* request that is not there, and getUserData finds a document or none.
THEOREM TypeCorrect == Spec => []TypeOK
<1>1. IInv => TypeOK
  BY DEF IInv
<1> QED
  BY <1>1, Inductive, PTL

\* An account has its document, or its user's own queue holds the write of it, or its
\* sign-up is not over (signupButtonAction), for any number of users, requests and
\* lost answers.
THEOREM Profiles == Spec => []ProfileAccounted
<1>1. IInv => ProfileAccounted
  BY DEF IInv
<1> QED
  BY <1>1, Inductive, PTL

\* A user whom Firestore knows and whose sign-up is over finds the own document
\* (snapshot!.data()!, UserProfileVC.swift:90), however many users sign up and log in
\* in whatever order their requests are answered.
THEOREM FindsOwn == Spec => []OwnProfileFound
<1>1. IInv => OwnProfileFound
  <2>1. SUFFICES ASSUME IInv, NEW u \in User \ (excused \cup cutOff), firestoreUser = u,
                        email[u] # None, u \notin Unfinished
                 PROVE  HasDocument(u)
    BY DEF OwnProfileFound
  <2>2. doc[u] # None \/ SetQueued(u)
    BY <2>1 DEF IInv, ProfileAccounted, SetQueued
  <2> QED
    BY <2>1, <2>2, FindsDocument DEF IInv
<1> QED
  BY <1>1, Inductive, PTL

\* A profile screen shows the document of the user who was signed in when it
\* appeared (getUserData), whatever answers come late.
THEOREM ShowsItsUser == Spec => []ShowsWhoOpened
<1>1. IInv => ShowsWhoOpened
  BY DEF IInv
<1> QED
  BY <1>1, Inductive, PTL
=============================================================================
