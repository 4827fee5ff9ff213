----------------------- MODULE FirestoreWritesProofs -----------------------
(***************************************************************************)
(* What FirestoreWrites keeps, for every set of users, every number of     *)
(* writes, changes of user, faults and restarts, and every length of the   *)
(* pipeline: its safety invariants, and that it implements DocumentStore.  *)
(* First the part of the inductive invariant that is about users, tokens   *)
(* and the order of calls, then the theorems.                              *)
(***************************************************************************)
EXTENDS FirestoreWritesPipeline

USE FirestoreWritesAssumption

-----------------------------------------------------------------------------
(* How the stream moves.                                                   *)

\* A step of the client that is no answer to a token: the stream does not open,
\* and it asks for a token only if it was not waiting for one, or is closed.
Moves ==
    /\ stream' \in Stream
    /\ stream'.closes >= stream.closes
    /\ stream'.state = "Open" => stream.state = "Open" /\ stream'.user = stream.user
    /\ (stream'.closes = stream.closes /\ stream.state = "Starting")
          => stream'.state = "Starting"
    /\ \/ tokens' = tokens
       \/ /\ stream'.state = "Starting"
          /\ stream'.closes = stream.closes => stream.state # "Starting"
          /\ tokens' = tokens \cup {Ask(stream'.closes, provider)}

\* FillWritePipeline moves the stream on from s.
LEMMA FillingMoves ==
    ASSUME NEW s \in Stream, NEW p, NEW q, NEW w, FillWritePipeline(p, q, s, w, tokens)
    PROVE  /\ stream' \in Stream
           /\ stream'.closes = s.closes /\ stream'.user = s.user
           /\ stream'.state = "Open" => s.state = "Open"
           /\ s.state = "Starting" => stream'.state = "Starting"
           /\ \/ tokens' = tokens
              \/ /\ s.state = "Initial" /\ stream'.state = "Starting"
                 /\ tokens' = tokens \cup {Ask(stream'.closes, provider)}
<1> DEFINE fresh == NextBatches(p, q)
<1> DEFINE starts == ~ IsStarted(s) /\ p \o fresh # << >>
<1> DEFINE idle == IdleAfterFilling(s, p, fresh)
<1>1. /\ stream' = IF starts THEN Start(s) ELSE [s EXCEPT !.idle = idle]
      /\ tokens' = IF starts /\ s.state = "Initial"
                   THEN tokens \cup {Ask(s.closes, provider)} ELSE tokens
  BY DEF FillWritePipeline
<1>2. idle \in BOOLEAN
  BY DEF IdleAfterFilling
<1>3. starts => s.state # "Starting" /\ s.state # "Open"
  BY DEF IsStarted, Started
<1> HIDE DEF starts, idle
<1> QED
  BY <1>1, <1>2, <1>3 DEF Start, Stream, Started

\* RestartNetwork stops the stream first.
LEMMA RestartMoves ==
    ASSUME stream \in Stream, NEW q, RestartNetwork(q)
    PROVE  Moves /\ stream'.state # "Open"
<1> DEFINE s == StopAndInhibitBackoff(stream)
<1>1. /\ s \in Stream /\ s.state = "Initial" /\ s.closes >= stream.closes
      /\ s.closes = stream.closes => stream.state # "Starting"
  <2>1. CASE IsStarted(stream)
    <3>1. s = Closed(stream, "Initial")
      BY <2>1 DEF StopAndInhibitBackoff
    <3>2. s \in Stream /\ s.state = "Initial" /\ s.closes = stream.closes + 1
      BY <3>1, ClosedType
    <3>3. stream.closes \in Nat
      BY DEF Stream
    <3> QED
      BY <3>2, <3>3
  <2>2. CASE ~ IsStarted(stream)
    <3>1. s = [stream EXCEPT !.state = "Initial"]
      BY <2>2 DEF StopAndInhibitBackoff
    <3> QED
      BY <2>2, <3>1 DEF Stream, IsStarted, Started
  <2> QED
    BY <2>1, <2>2
<1>2. FillWritePipeline(<< >>, q, s, Hangup(wire), tokens)
  BY DEF RestartNetwork
<1> HIDE DEF s
<1>3. /\ stream' \in Stream /\ stream'.closes = s.closes
      /\ stream'.state = "Open" => s.state = "Open"
      /\ \/ tokens' = tokens
         \/ /\ stream'.state = "Starting"
            /\ tokens' = tokens \cup {Ask(stream'.closes, provider)}
  BY <1>1, <1>2, FillingMoves
<1> QED
  BY <1>1, <1>3 DEF Moves

\* CloseOnError closes it, and asks for nothing before the backoff is over.
LEMMA CloseOnErrorMoves ==
    ASSUME stream \in Stream, CloseOnError
    PROVE  Moves
<1> DEFINE c == Closed(stream, "Error")
<1>1. c \in Stream /\ c.state = "Error" /\ c.closes = stream.closes + 1
  BY ClosedType
<1>2. stream' = (IF pipeline # << >> THEN Start(c) ELSE c) /\ UNCHANGED tokens
  BY DEF CloseOnError
<1> HIDE DEF c
<1>3. /\ stream' \in Stream /\ stream'.state \in {"Error", "Backoff"}
      /\ stream'.closes = stream.closes + 1
  BY <1>1, <1>2 DEF Start, Stream, Started
<1>4. stream.closes \in Nat
  BY DEF Stream
<1> QED
  BY <1>2, <1>3, <1>4 DEF Moves

\* The steps of the client and the server that take nothing from the main queue.
ClientStep ==
    \/ WriteMutations \/ HandleCredentialChange \/ OnWriteStreamHandshakeComplete
    \/ OnWriteStreamMutationResult \/ HandleWriteError
    \/ IdleTimeout \/ BackoffTimeout
    \/ Commit \/ Refuse
    \/ OnWriteStreamClose \/ OnConnectivityChange
    \/ (ResumeStartWithCredentials /\ ~ (IsWanted(Head(worker)) /\ Head(worker).ok))

\* The next task of the worker is done, and the user is the one it brings.
TaskDone ==
    /\ worker # << >> /\ worker' = Tail(worker)
    /\ \/ Head(worker).kind = "change" /\ currentUser' = Head(worker).user
       \/ Head(worker).kind # "change" /\ currentUser' = currentUser

\* What such a step does to users, tasks and the stream.
LEMMA ClientMoves ==
    ASSUME TypeOK, ClientStep
    PROVE  /\ Moves /\ UNCHANGED auth
           /\ TaskDone \/ UNCHANGED <<worker, currentUser>>
           /\ (stream'.state = "Open") => currentUser' = currentUser
<1>1. stream \in Stream /\ stream.closes \in Nat
  BY DEF TypeOK, Stream
<1>2. (UNCHANGED <<stream, tokens>>) => Moves
  BY <1>1 DEF Moves
<1>3. CASE WriteMutations
  <2>1. /\ worker # << >> /\ Head(worker).kind = "write" /\ worker' = Tail(worker)
        /\ UNCHANGED <<auth, currentUser>>
        /\ \E q : FillWritePipeline(pipeline, q, stream, wire, tokens)
    BY <1>3 DEF WriteMutations
  <2>2. Moves
    BY <1>1, <2>1, FillingMoves DEF Moves
  <2> QED
    BY <2>1, <2>2 DEF TaskDone
<1>4. CASE HandleCredentialChange
  <2>1. /\ worker # << >> /\ Head(worker).kind = "change" /\ worker' = Tail(worker)
        /\ currentUser' = Head(worker).user /\ UNCHANGED auth
        /\ RestartNetwork(queue[currentUser'])
    BY <1>4 DEF HandleCredentialChange
  <2>2. Moves /\ stream'.state # "Open"
    BY <1>1, <2>1, RestartMoves
  <2> QED
    BY <2>1, <2>2 DEF TaskDone
<1>5. CASE OnWriteStreamHandshakeComplete
  <2>1. /\ stream' = [stream EXCEPT !.handshake = TRUE, !.idle = @ /\ pipeline = << >>]
        /\ UNCHANGED <<tokens, auth, worker, currentUser>>
    BY <1>5 DEF OnWriteStreamHandshakeComplete, stable
  <2>2. /\ stream' \in Stream /\ stream'.state = stream.state
        /\ stream'.closes = stream.closes /\ stream'.user = stream.user
    BY <1>1, <2>1 DEF Stream
  <2> QED
    BY <1>1, <2>1, <2>2 DEF Moves
<1>6. CASE OnWriteStreamMutationResult
  <2>1. /\ \E p, q, w : FillWritePipeline(p, q, stream, w, tokens)
        /\ UNCHANGED <<auth, worker, currentUser>>
    BY <1>6 DEF OnWriteStreamMutationResult
  <2>2. Moves
    BY <1>1, <2>1, FillingMoves DEF Moves
  <2> QED
    BY <2>1, <2>2
<1>7. CASE HandleWriteError
  <2>1. /\ \E p, q, w : FillWritePipeline(p, q, Closed(stream, "Initial"), w, tokens)
        /\ UNCHANGED <<auth, worker, currentUser>>
    BY <1>7 DEF HandleWriteError
  <2>2. /\ Closed(stream, "Initial") \in Stream
        /\ Closed(stream, "Initial").state = "Initial"
        /\ Closed(stream, "Initial").closes = stream.closes + 1
    BY <1>1, ClosedType
  <2>3. /\ stream' \in Stream /\ stream'.closes = stream.closes + 1
        /\ stream'.state # "Open"
        /\ \/ tokens' = tokens
           \/ /\ stream'.state = "Starting"
              /\ tokens' = tokens \cup {Ask(stream'.closes, provider)}
    BY <2>1, <2>2, FillingMoves
  <2>4. Moves
    BY <1>1, <2>3 DEF Moves
  <2> QED
    BY <2>1, <2>4
<1>8. CASE IdleTimeout
  <2>1. stream' = Closed(stream, "Initial") /\ UNCHANGED <<tokens, auth, worker, currentUser>>
    BY <1>8 DEF IdleTimeout, stable
  <2>2. /\ stream' \in Stream /\ stream'.state = "Initial"
        /\ stream'.closes = stream.closes + 1
    BY <1>1, <2>1, ClosedType
  <2> QED
    BY <1>1, <2>1, <2>2 DEF Moves
<1>9. CASE BackoffTimeout
  <2>1. /\ stream.state = "Backoff"
        /\ stream' = [stream EXCEPT !.state = "Starting"]
        /\ tokens' = tokens \cup {Ask(stream.closes, provider)}
        /\ UNCHANGED <<auth, worker, currentUser>>
    BY <1>9 DEF BackoffTimeout, stable
  <2>2. /\ stream' \in Stream /\ stream'.state = "Starting"
        /\ stream'.closes = stream.closes
    BY <1>1, <2>1 DEF Stream, Started
  <2> QED
    BY <1>1, <2>1, <2>2 DEF Moves
<1>10. CASE Commit \/ Refuse
  BY <1>2, <1>10 DEF Commit, Refuse
<1>11. CASE OnWriteStreamClose
  <2>1. CloseOnError /\ UNCHANGED <<auth, worker, currentUser>>
    BY <1>11 DEF OnWriteStreamClose, stable
  <2> QED
    BY <1>1, <2>1, CloseOnErrorMoves
<1>12. CASE OnConnectivityChange
  <2>1. RestartNetwork(queue[currentUser]) /\ UNCHANGED <<auth, worker, currentUser>>
    BY <1>12 DEF OnConnectivityChange
  <2> QED
    BY <1>1, <2>1, RestartMoves
<1>13. CASE ResumeStartWithCredentials /\ ~ (IsWanted(Head(worker)) /\ Head(worker).ok)
  <2>1. /\ worker # << >> /\ Head(worker).kind = "resume" /\ worker' = Tail(worker)
        /\ UNCHANGED <<auth, currentUser>>
        /\ CloseOnError \/ UNCHANGED <<stream, tokens>>
    BY <1>13 DEF ResumeStartWithCredentials, stable
  <2> QED
    BY <1>1, <1>2, <2>1, CloseOnErrorMoves DEF TaskDone
<1> QED
  BY <1>3, <1>4, <1>5, <1>6, <1>7, <1>8, <1>9, <1>10, <1>11, <1>12, <1>13 DEF ClientStep

-----------------------------------------------------------------------------
(* News, tasks and tokens are of the user they are run for.                *)

UsersInOrder == NewsInOrder /\ TasksOfUser /\ TokensOfUser

\* A token asked for now is none that Auth has answered.
LEMMA AskedTokens ==
    ASSUME TypeOK, TokensOfUser, UNCHANGED <<main, provider>>, NEW c,
           tokens' \in {tokens, tokens \cup {Ask(c, provider)}}
    PROVE  TokensOfUser'
<1> DEFINE a == Ask(c, provider)
<1>1. a.counter = provider.counter /\ a.stage = "asked" /\ provider.counter \in Nat
  BY DEF Ask, TypeOK
<1> HIDE DEF a
<1>2. \A t \in tokens' : t \in tokens \/ t = a
  BY DEF a
<1> QED
  BY <1>1, <1>2 DEF TokensOfUser

\* A task that is done leaves the others in order.
LEMMA TaskDoneUsers ==
    ASSUME TypeOK, NewsInOrder, TasksOfUser, TaskDone, UNCHANGED auth
    PROVE  NewsInOrder' /\ TasksOfUser'
<1> DEFINE t == Tail(worker)
<1> DEFINE h == Head(worker)
<1>1. /\ worker \in Seq(Task) /\ worker # << >> /\ worker' = t
      /\ Len(worker) \in Nat /\ Len(worker) # 0 /\ Len(t) = Len(worker) - 1
      /\ \A i \in 1 .. Len(worker) - 1 : t[i] = worker[i + 1]
  BY Headless DEF TaskDone, TypeOK
<1>2. \A n \in 1 .. Len(worker) : \A u :
          UserAfter(worker, n, currentUser, u) => UserAfter(t, n - 1, currentUser', u)
  <2>1. SUFFICES ASSUME NEW n \in 1 .. Len(worker), NEW u,
                        UserAfter(worker, n, currentUser, u)
                 PROVE  UserAfter(t, n - 1, currentUser', u)
    OBVIOUS
  <2>2. /\ h.kind = "change" => UserAfter(t, n - 1, h.user, u)
        /\ h.kind # "change" => UserAfter(t, n - 1, currentUser, u)
    BY <1>1, <2>1, UserTail
  <2> QED
    BY <2>2 DEF TaskDone
<1> HIDE DEF t
<1>3. NewsInOrder'
  <2>1. Len(worker) \in 1 .. Len(worker) /\ Len(worker') = Len(worker) - 1
    BY <1>1
  <2> QED
    BY <1>1, <1>2, <2>1 DEF NewsInOrder, auth
<1>4. TasksOfUser'
  <2>1. SUFFICES ASSUME NEW j \in 1 .. Len(t)
                 PROVE  /\ t[j].kind = "write" =>
                              UserAfter(t, j - 1, currentUser', t[j].write.by)
                        /\ t[j].kind = "resume" =>
                              UserAfter(t, j - 1, currentUser', t[j].user)
    BY <1>1 DEF TasksOfUser
  <2>2. j + 1 \in 1 .. Len(worker) /\ j \in 1 .. Len(worker) /\ (j + 1) - 1 = j
    BY <1>1
  <2>3. t[j] = worker[j + 1]
    BY <1>1
  <2>4. /\ t[j].kind = "write" => UserAfter(worker, j, currentUser, t[j].write.by)
        /\ t[j].kind = "resume" => UserAfter(worker, j, currentUser, t[j].user)
    BY <2>2, <2>3 DEF TasksOfUser
  <2> QED
    BY <1>2, <2>2, <2>4
<1> QED
  BY <1>3, <1>4

\* A task that is no news joins the worker queue.
LEMMA TaskAddedUsers ==
    ASSUME TypeOK, NewsInOrder, TasksOfUser, NEW x \in Task, worker' = Append(worker, x),
           x.kind \in {"write", "resume"},
           x.kind = "write" => x.write.by = provider.user,
           x.kind = "resume" => x.user = provider.user,
           UNCHANGED <<currentUser, provider>>
    PROVE  /\ UserAfter(worker, Len(worker), currentUser, provider.user)'
           /\ TasksOfUser'
<1> DEFINE s == Append(worker, x)
<1>1. /\ worker \in Seq(Task) /\ Len(worker) \in Nat /\ Len(s) = Len(worker) + 1
      /\ \A i \in 1 .. Len(worker) : s[i] = worker[i]
      /\ s[Len(worker) + 1] = x
  BY Appended DEF TypeOK
<1>2. /\ UserAfter(worker, Len(worker), currentUser, provider.user)
      /\ UserAfter(s, Len(s), currentUser, provider.user)
  BY <1>1, UserAppendOther DEF NewsInOrder
<1>3. \A n \in 0 .. Len(worker) : \A u :
          UserAfter(worker, n, currentUser, u) => UserAfter(s, n, currentUser, u)
  BY <1>1, UserAppend
<1> HIDE DEF s
<1>4. ASSUME NEW j \in 1 .. Len(s)
      PROVE  /\ s[j].kind = "write" => UserAfter(s, j - 1, currentUser, s[j].write.by)
             /\ s[j].kind = "resume" => UserAfter(s, j - 1, currentUser, s[j].user)
  <2>1. CASE j = Len(worker) + 1
    <3>1. j - 1 = Len(worker) /\ Len(worker) \in 0 .. Len(worker) /\ s[j] = x
      BY <1>1, <2>1
    <3>2. UserAfter(s, j - 1, currentUser, provider.user)
      BY <1>2, <1>3, <3>1
    <3> QED
      BY <3>1, <3>2
  <2>2. CASE j # Len(worker) + 1
    <3>1. j \in 1 .. Len(worker) /\ j - 1 \in 0 .. Len(worker) /\ s[j] = worker[j]
      BY <1>1, <2>2
    <3> QED
      BY <1>3, <3>1 DEF TasksOfUser
  <2> QED
    BY <2>1, <2>2
<1>5. worker' = s
  BY DEF s
<1> QED
  BY <1>2, <1>4, <1>5 DEF TasksOfUser

LEMMA ClientUsers ==
    ASSUME TypeOK, UsersInOrder, StreamOfUser, ClientStep
    PROVE  UsersInOrder' /\ StreamOfUser'
<1>1. /\ Moves /\ UNCHANGED auth
      /\ TaskDone \/ UNCHANGED <<worker, currentUser>>
      /\ (stream'.state = "Open") => currentUser' = currentUser
  BY ClientMoves
<1>2. NewsInOrder' /\ TasksOfUser'
  <2>1. CASE TaskDone
    BY <1>1, <2>1, TaskDoneUsers DEF UsersInOrder
  <2>2. CASE UNCHANGED <<worker, currentUser>>
    BY <1>1, <2>2 DEF UsersInOrder, NewsInOrder, TasksOfUser, auth
  <2> QED
    BY <1>1, <2>1, <2>2
<1>3. TokensOfUser'
  BY <1>1, AskedTokens DEF Moves, auth, UsersInOrder
<1>4. StreamOfUser'
  BY <1>1 DEF StreamOfUser, Moves
<1> QED
  BY <1>2, <1>3, <1>4 DEF UsersInOrder

\* A token that the stream waits for opens it for its user.
Opens ==
    /\ ResumeStartWithCredentials /\ IsWanted(Head(worker)) /\ Head(worker).ok

LEMMA OpensUsers ==
    ASSUME TypeOK, UsersInOrder, Opens
    PROVE  UsersInOrder' /\ StreamOfUser'
<1>1. /\ worker # << >> /\ Head(worker).kind = "resume" /\ worker' = Tail(worker)
      /\ stream' = [stream EXCEPT !.state = "Open", !.user = Head(worker).user,
                                  !.idle = FALSE]
      /\ UNCHANGED <<auth, currentUser, tokens>>
  BY DEF Opens, ResumeStartWithCredentials, stable
<1>2. TaskDone
  BY <1>1 DEF TaskDone
<1>3. NewsInOrder' /\ TasksOfUser'
  BY <1>1, <1>2, TaskDoneUsers DEF UsersInOrder
<1>4. TokensOfUser'
  BY <1>1 DEF UsersInOrder, TokensOfUser, auth
<1>5. Head(worker).user = currentUser
  <2>1. Head(worker) = worker[1] /\ 1 \in 1 .. Len(worker)
    BY <1>1, Headless DEF TypeOK
  <2>2. UserAfter(worker, 0, currentUser, Head(worker).user)
    BY <1>1, <2>1 DEF UsersInOrder, TasksOfUser
  <2> QED
    BY <2>2 DEF UserAfter
<1>6. StreamOfUser'
  <2>1. stream \in Stream
    BY DEF TypeOK
  <2>2. stream'.user = Head(worker).user
    BY <1>1, <2>1 DEF Stream
  <2> QED
    BY <1>1, <1>5, <2>2 DEF StreamOfUser
<1> QED
  BY <1>3, <1>4, <1>6 DEF UsersInOrder

LEMMA SignInUsers ==
    ASSUME TypeOK, UsersInOrder, SignIn
    PROVE  UsersInOrder'
<1> DEFINE x == [kind |-> "change", user |-> authUser']
<1> DEFINE s == Append(main, x)
<1>1. /\ authUser' \in User /\ main' = s
      /\ UNCHANGED <<client, provider, tokens, worker>>
  BY DEF SignIn
<1>2. x \in Item /\ x.kind = "change" /\ x.user = authUser' /\ main \in Seq(Item)
  BY <1>1 DEF Item, TypeOK
<1> HIDE DEF x
<1>3. /\ Len(main) \in Nat /\ Len(s) = Len(main) + 1
      /\ \A i \in 1 .. Len(main) : s[i] = main[i]
      /\ s[Len(main) + 1] = x
  BY <1>2, Appended
<1>4. UserAfter(s, Len(s), provider.user, authUser')
  BY <1>2, UserAppendChange
<1> HIDE DEF s
<1>5. NewsInOrder' /\ TasksOfUser'
  BY <1>1, <1>4 DEF UsersInOrder, NewsInOrder, TasksOfUser, client
<1>6. TokensOfUser'
  <2>1. ASSUME NEW k \in 1 .. Len(s), s[k].kind = "token"
        PROVE  /\ s[k].counter <= provider.counter
               /\ (/\ s[k].counter = provider.counter
                   /\ \A i \in 1 .. k - 1 : s[i].kind # "change")
                     => s[k].user = provider.user
    <3>1. k \in 1 .. Len(main) /\ s[k] = main[k] /\ \A i \in 1 .. k - 1 : s[i] = main[i]
      BY <1>2, <1>3, <2>1
    <3> QED
      BY <2>1, <3>1 DEF UsersInOrder, TokensOfUser
  <2>2. \E i \in 1 .. Len(s) : s[i].kind = "change"
    BY <1>2, <1>3
  <2> QED
    BY <1>1, <2>1, <2>2 DEF UsersInOrder, TokensOfUser
<1> QED
  BY <1>5, <1>6 DEF UsersInOrder

LEMMA TakeUserUsers ==
    ASSUME TypeOK, UsersInOrder, TakeUser
    PROVE  UsersInOrder'
<1>1. PICK t \in tokens :
          /\ t.stage = "asked"
          /\ tokens' = (tokens \ {t}) \cup {[t EXCEPT !.stage = "fetching", !.user = authUser]}
          /\ UNCHANGED <<client, auth, worker>>
  BY DEF TakeUser
<1> DEFINE v == [t EXCEPT !.stage = "fetching", !.user = authUser]
<1>2. v.counter = t.counter /\ v.user = authUser
  BY DEF TypeOK, Token
<1> HIDE DEF v
<1>3. (\A i \in 1 .. Len(main) : main[i].kind # "change") => authUser = provider.user
  BY DEF UsersInOrder, NewsInOrder, UserAfter, TypeOK
<1>4. \A x \in tokens' : x \in tokens \/ x = v
  BY <1>1 DEF v
<1>5. TokensOfUser'
  BY <1>1, <1>2, <1>3, <1>4 DEF UsersInOrder, TokensOfUser, auth
<1> QED
  BY <1>1, <1>5 DEF UsersInOrder, NewsInOrder, TasksOfUser, auth, client

LEMMA FetchTokenUsers ==
    ASSUME TypeOK, UsersInOrder, FetchToken
    PROVE  UsersInOrder'
<1>1. PICK t \in tokens, ok \in BOOLEAN :
          /\ t.stage = "fetching"
          /\ tokens' = tokens \ {t}
          /\ main' = Append(main, [kind |-> "token", closes |-> t.closes,
                                   counter |-> t.counter, user |-> t.user, ok |-> ok])
          /\ UNCHANGED <<client, authUser, provider, worker>>
  BY DEF FetchToken
<1> DEFINE x == [kind |-> "token", closes |-> t.closes, counter |-> t.counter,
                 user |-> t.user, ok |-> ok]
<1> DEFINE s == Append(main, x)
<1>2. /\ x \in Item /\ x.kind = "token" /\ x.counter = t.counter /\ x.user = t.user
      /\ main \in Seq(Item)
  BY DEF Item, TypeOK, Token
<1>3. main' = s
  BY <1>1
<1> HIDE DEF x
<1>4. /\ Len(main) \in Nat /\ Len(s) = Len(main) + 1
      /\ \A i \in 1 .. Len(main) : s[i] = main[i]
      /\ s[Len(main) + 1] = x
  BY <1>2, Appended
<1>5. UserAfter(s, Len(s), provider.user, authUser)
  BY <1>2, UserAppendOther DEF UsersInOrder, NewsInOrder
<1> HIDE DEF s
<1>6. NewsInOrder' /\ TasksOfUser'
  BY <1>1, <1>3, <1>5 DEF UsersInOrder, NewsInOrder, TasksOfUser, client
<1>7. TokensOfUser'
  <2>1. ASSUME NEW k \in 1 .. Len(s), s[k].kind = "token"
        PROVE  /\ s[k].counter <= provider.counter
               /\ (/\ s[k].counter = provider.counter
                   /\ \A i \in 1 .. k - 1 : s[i].kind # "change")
                     => s[k].user = provider.user
    <3>1. CASE k = Len(main) + 1
      <4>1. k - 1 = Len(main) /\ s[k] = x
        BY <1>4, <3>1
      <4>2. \A i \in 1 .. Len(main) : s[i] = main[i]
        BY <1>4
      <4> QED
        BY <1>1, <1>2, <4>1, <4>2 DEF UsersInOrder, TokensOfUser
    <3>2. CASE k # Len(main) + 1
      <4>1. k \in 1 .. Len(main) /\ s[k] = main[k] /\ \A i \in 1 .. k - 1 : s[i] = main[i]
        BY <1>4, <3>2
      <4> QED
        BY <2>1, <4>1 DEF UsersInOrder, TokensOfUser
    <3> QED
      BY <3>1, <3>2
  <2>2. ASSUME \A i \in 1 .. Len(s) : s[i].kind # "change"
        PROVE  \A i \in 1 .. Len(main) : main[i].kind # "change"
    BY <1>4, <2>2
  <2> QED
    BY <1>1, <1>3, <2>1, <2>2 DEF UsersInOrder, TokensOfUser
<1> QED
  BY <1>6, <1>7 DEF UsersInOrder

LEMMA HearOfUserUsers ==
    ASSUME TypeOK, UsersInOrder, HearOfUser
    PROVE  UsersInOrder'
<1> DEFINE h == Head(main)
<1> DEFINE m == Tail(main)
<1> DEFINE x == [kind |-> "change", user |-> h.user]
<1> DEFINE s == Append(worker, x)
<1>1. /\ main # << >> /\ h.kind = "change" /\ main' = m
      /\ provider' = [user |-> h.user, counter |-> provider.counter + 1]
      /\ worker' = s
      /\ UNCHANGED <<client, authUser, tokens>>
  BY DEF HearOfUser
<1>2. /\ main \in Seq(Item) /\ h \in Item /\ Len(main) \in Nat /\ Len(main) # 0
      /\ Len(m) = Len(main) - 1
      /\ \A i \in 1 .. Len(main) - 1 : m[i] = main[i + 1]
  BY <1>1, Headless DEF TypeOK
<1>3. x \in Task /\ x.kind = "change" /\ x.user = h.user
  BY <1>1, <1>2 DEF Item, Task
<1>4. UserAfter(m, Len(main) - 1, h.user, authUser)
  <2>1. Len(main) \in 1 .. Len(main)
    BY <1>2
  <2>2. UserAfter(main, Len(main), provider.user, authUser)
    BY DEF UsersInOrder, NewsInOrder
  <2> QED
    BY <1>1, <1>2, <2>1, <2>2, UserTail
<1> HIDE DEF m, h, x
<1>5. /\ worker \in Seq(Task) /\ Len(worker) \in Nat /\ Len(s) = Len(worker) + 1
      /\ \A i \in 1 .. Len(worker) : s[i] = worker[i]
      /\ s[Len(worker) + 1] = x
  BY <1>3, Appended DEF TypeOK
<1>6. UserAfter(s, Len(s), currentUser, h.user)
  BY <1>3, <1>5, UserAppendChange
<1>7. \A n \in 0 .. Len(worker) : \A u :
          UserAfter(worker, n, currentUser, u) => UserAfter(s, n, currentUser, u)
  BY <1>3, <1>5, UserAppend
<1> HIDE DEF s
<1>8. NewsInOrder'
  <2>1. provider'.user = h.user
    BY <1>1
  <2> QED
    BY <1>1, <1>2, <1>4, <1>6, <2>1 DEF NewsInOrder, client
<1>9. TasksOfUser'
  <2>1. ASSUME NEW j \in 1 .. Len(s)
        PROVE  /\ s[j].kind = "write" => UserAfter(s, j - 1, currentUser, s[j].write.by)
               /\ s[j].kind = "resume" => UserAfter(s, j - 1, currentUser, s[j].user)
    <3>1. CASE j = Len(worker) + 1
      BY <1>3, <1>5, <3>1
    <3>2. CASE j # Len(worker) + 1
      <4>1. j \in 1 .. Len(worker) /\ j - 1 \in 0 .. Len(worker) /\ s[j] = worker[j]
        BY <1>5, <3>2
      <4> QED
        BY <1>7, <4>1 DEF UsersInOrder, TasksOfUser
    <3> QED
      BY <3>1, <3>2
  <2> QED
    BY <1>1, <2>1 DEF TasksOfUser, client
<1>10. TokensOfUser'
  <2>1. provider.counter \in Nat /\ provider'.counter = provider.counter + 1
    BY <1>1 DEF TypeOK
  <2>2. ASSUME NEW k \in 1 .. Len(m), m[k].kind = "token"
        PROVE  m[k].counter <= provider.counter /\ m[k].counter \in Nat
    <3>1. k + 1 \in 1 .. Len(main) /\ m[k] = main[k + 1]
      BY <1>2
    <3>2. main[k + 1] \in Item
      BY <1>2, <3>1, Elements
    <3> QED
      BY <2>2, <3>1, <3>2 DEF UsersInOrder, TokensOfUser, Item
  <2>3. \A t \in tokens : t.counter <= provider.counter /\ t.counter \in Nat
    BY DEF UsersInOrder, TokensOfUser, TypeOK, Token
  <2>4. /\ \A k \in 1 .. Len(m) : m[k].kind = "token" =>
               m[k].counter <= provider'.counter /\ m[k].counter # provider'.counter
        /\ \A t \in tokens :
               t.counter <= provider'.counter /\ t.counter # provider'.counter
    <3>1. \A n \in Nat : n <= provider.counter =>
              n <= provider.counter + 1 /\ n # provider.counter + 1
      BY <2>1
    <3> QED
      BY <2>1, <2>2, <2>3, <3>1
  <2> QED
    BY <1>1, <2>4 DEF TokensOfUser
<1> QED
  BY <1>8, <1>9, <1>10 DEF UsersInOrder

\* A token that the provider passes on is one of its user.
LEMMA HearOfTokenUsers ==
    ASSUME TypeOK, UsersInOrder, HearOfToken
    PROVE  UsersInOrder'
<1> DEFINE h == Head(main)
<1> DEFINE m == Tail(main)
<1> DEFINE x == [kind |-> "resume", closes |-> h.closes, user |-> h.user, ok |-> h.ok]
<1>1. /\ main # << >> /\ h.kind = "token" /\ main' = m
      /\ UNCHANGED <<client, authUser, provider>>
      /\ \/ IsCurrent(h) /\ worker' = Append(worker, x) /\ UNCHANGED tokens
         \/ tokens' = tokens \cup {Ask(h.closes, provider)} /\ UNCHANGED worker
  BY DEF HearOfToken
<1>2. /\ main \in Seq(Item) /\ h \in Item /\ h = main[1]
      /\ Len(main) \in Nat /\ Len(main) # 0
      /\ Len(m) = Len(main) - 1
      /\ \A i \in 1 .. Len(main) - 1 : m[i] = main[i + 1]
  BY <1>1, Headless DEF TypeOK
<1>3. x \in Task /\ x.kind = "resume" /\ x.user = h.user
  BY <1>1, <1>2 DEF Item, Task
<1>4. UserAfter(m, Len(main) - 1, provider.user, authUser)
  <2>1. Len(main) \in 1 .. Len(main)
    BY <1>2
  <2>2. UserAfter(main, Len(main), provider.user, authUser)
    BY DEF UsersInOrder, NewsInOrder
  <2> QED
    BY <1>1, <1>2, <2>1, <2>2, UserTail
<1> HIDE DEF m, x
<1>5. IsCurrent(h) => h.user = provider.user
  <2>1. 1 \in 1 .. Len(main) /\ \A i \in 1 .. 1 - 1 : main[i].kind # "change"
    BY <1>2
  <2> QED
    BY <1>1, <1>2, <2>1 DEF IsCurrent, UsersInOrder, TokensOfUser
<1>6. UserAfter(worker, Len(worker), currentUser, provider.user)' /\ TasksOfUser'
  <2>1. CASE IsCurrent(h) /\ worker' = Append(worker, x)
    BY <1>1, <1>3, <1>5, <2>1, TaskAddedUsers DEF UsersInOrder, client
  <2>2. CASE UNCHANGED worker
    BY <1>1, <2>2 DEF UsersInOrder, NewsInOrder, TasksOfUser, client
  <2> QED
    BY <1>1, <2>1, <2>2
<1>7. NewsInOrder'
  BY <1>1, <1>2, <1>4, <1>6 DEF NewsInOrder
<1>8. TokensOfUser'
  <2>1. ASSUME NEW k \in 1 .. Len(m), m[k].kind = "token"
        PROVE  /\ m[k].counter <= provider.counter
               /\ (/\ m[k].counter = provider.counter
                   /\ \A i \in 1 .. k - 1 : m[i].kind # "change")
                     => m[k].user = provider.user
    <3>1. k + 1 \in 1 .. Len(main) /\ m[k] = main[k + 1]
      BY <1>2
    <3>2. ASSUME \A i \in 1 .. k - 1 : m[i].kind # "change"
          PROVE  \A i \in 1 .. (k + 1) - 1 : main[i].kind # "change"
      <4>1. TAKE i \in 1 .. (k + 1) - 1
      <4>2. CASE i = 1
        BY <1>1, <1>2, <4>2
      <4>3. CASE i # 1
        <5>1. i - 1 \in 1 .. k - 1 /\ i - 1 \in 1 .. Len(main) - 1 /\ (i - 1) + 1 = i
          BY <1>2, <4>3
        <5>2. m[i - 1] = main[i]
          BY <1>2, <5>1
        <5> QED
          BY <3>2, <5>1, <5>2
      <4> QED
        BY <4>2, <4>3
    <3> QED
      BY <2>1, <3>1, <3>2 DEF UsersInOrder, TokensOfUser
  <2>2. ASSUME NEW t \in tokens'
        PROVE  /\ t.counter <= provider.counter
               /\ (/\ t.stage = "fetching" /\ t.counter = provider.counter
                   /\ \A i \in 1 .. Len(m) : m[i].kind # "change")
                     => t.user = provider.user
    <3>1. CASE t \in tokens
      <4>1. ASSUME \A i \in 1 .. Len(m) : m[i].kind # "change"
            PROVE  \A i \in 1 .. Len(main) : main[i].kind # "change"
        <5>1. TAKE i \in 1 .. Len(main)
        <5>2. CASE i = 1
          BY <1>1, <1>2, <5>2
        <5>3. CASE i # 1
          <6>1. i - 1 \in 1 .. Len(m) /\ (i - 1) + 1 = i /\ i - 1 \in 1 .. Len(main) - 1
            BY <1>2, <5>3
          <6>2. m[i - 1] = main[i]
            BY <1>2, <6>1
          <6> QED
            BY <4>1, <6>1, <6>2
        <5> QED
          BY <5>2, <5>3
      <4> QED
        BY <3>1, <4>1 DEF UsersInOrder, TokensOfUser
    <3>2. CASE t = Ask(h.closes, provider)
      <4>1. t.counter = provider.counter /\ t.stage = "asked" /\ provider.counter \in Nat
        BY <3>2 DEF Ask, TypeOK
      <4> QED
        BY <4>1
    <3> QED
      BY <1>1, <3>1, <3>2
  <2> QED
    BY <1>1, <2>1, <2>2 DEF TokensOfUser
<1> QED
  BY <1>6, <1>7, <1>8 DEF UsersInOrder

LEMMA AppWritesUsers ==
    ASSUME TypeOK, UsersInOrder, AppWrites
    PROVE  UsersInOrder'
<1> DEFINE x == [kind |-> "write", write |-> [no |-> issued', by |-> provider.user]]
<1>1. /\ issued < MaxWrites /\ issued' = issued + 1
      /\ worker' = Append(worker, x)
      /\ UNCHANGED <<client, auth, tokens>>
  BY DEF AppWrites
<1>2. x \in Task /\ x.kind = "write" /\ x.write.by = provider.user
  BY <1>1 DEF TypeOK, Task, Write
<1> HIDE DEF x
<1>3. UserAfter(worker, Len(worker), currentUser, provider.user)' /\ TasksOfUser'
  BY <1>1, <1>2, TaskAddedUsers DEF UsersInOrder, client, auth
<1>4. NewsInOrder' /\ TokensOfUser'
  BY <1>1, <1>3 DEF UsersInOrder, NewsInOrder, TokensOfUser, auth
<1> QED
  BY <1>3, <1>4 DEF UsersInOrder

LEMMA RestartUsers ==
    ASSUME TypeOK, Restart
    PROVE  UsersInOrder' /\ StreamOfUser'
<1>1. /\ provider' = [user |-> authUser, counter |-> 0]
      /\ main' = << >> /\ worker' = << >> /\ currentUser' = authUser
      /\ authUser' = authUser
      /\ tokens' \in {{}, {Ask(0, provider')}}
      /\ stream'.state # "Open"
  BY DEF Restart, Start
<1>2. NewsInOrder' /\ TasksOfUser'
  BY <1>1 DEF NewsInOrder, TasksOfUser, UserAfter
<1>3. TokensOfUser'
  BY <1>1 DEF TokensOfUser, Ask
<1> QED
  BY <1>1, <1>2, <1>3 DEF UsersInOrder, StreamOfUser

LEMMA InitUsers ==
    ASSUME Init
    PROVE  UsersInOrder /\ StreamOfUser
  BY DEF Init, UsersInOrder, NewsInOrder, TasksOfUser, TokensOfUser, UserAfter, StreamOfUser

\* No order of news, tokens and tasks brings one user's stream to another.
LEMMA NextUsers ==
    ASSUME TypeOK, UsersInOrder, StreamOfUser, [Next]_vars
    PROVE  UsersInOrder' /\ StreamOfUser'
<1>1. CASE UNCHANGED vars
  BY <1>1 DEF UsersInOrder, NewsInOrder, TasksOfUser, TokensOfUser, StreamOfUser, vars, auth
<1>2. CASE AuthStep \/ SignIn \/ AppWrites
  <2>1. UsersInOrder'
    BY <1>2, SignInUsers, TakeUserUsers, FetchTokenUsers, HearOfUserUsers,
       HearOfTokenUsers, AppWritesUsers DEF AuthStep
  <2>2. UNCHANGED client
    BY <1>2 DEF AuthStep, TakeUser, FetchToken, HearOfUser, HearOfToken, SignIn, AppWrites
  <2> QED
    BY <2>1, <2>2 DEF StreamOfUser, client
<1>3. CASE ClientStep \/ Opens \/ Restart
  BY <1>3, ClientUsers, OpensUsers, RestartUsers
<1>4. Next => AuthStep \/ SignIn \/ AppWrites \/ ClientStep \/ Opens \/ Restart
  BY DEF Next, WorkerStep, ClientStep, Opens
<1> QED
  BY <1>1, <1>2, <1>3, <1>4

-----------------------------------------------------------------------------
(* A stream waits for one answer.                                          *)

\* While the stream moves, the answers on the main queue stay, and those on the
\* worker queue stay or are taken.
LEMMA MovesWanted ==
    ASSUME TypeOK, OneIsWanted, Moves, UNCHANGED main,
           worker' = worker \/ (worker # << >> /\ worker' = Tail(worker))
    PROVE  OneIsWanted'
<1>1. PICK d \in {0, 1} : \A j \in 1 .. Len(worker') :
            j + d \in 1 .. Len(worker) /\ worker'[j] = worker[j + d]
  <2>1. worker \in Seq(Task)
    BY DEF TypeOK
  <2>2. CASE worker' = worker
    <3>1. \A j \in 1 .. Len(worker') : j + 0 \in 1 .. Len(worker) /\ worker'[j] = worker[j + 0]
      BY <2>1, <2>2
    <3> QED
      BY <3>1
  <2>3. CASE worker # << >> /\ worker' = Tail(worker)
    <3>1. \A j \in 1 .. Len(worker') : j + 1 \in 1 .. Len(worker) /\ worker'[j] = worker[j + 1]
      BY <2>1, <2>3, Headless
    <3> QED
      BY <3>1
  <2> QED
    BY <2>2, <2>3
<1>2. stream.closes \in Nat /\ stream'.closes \in Nat /\ stream'.closes >= stream.closes
  BY DEF TypeOK, Moves, Stream
<1>3. /\ \A t \in tokens : t.closes \in Nat /\ t.closes <= stream.closes
      /\ \A k \in 1 .. Len(main) : main[k].kind = "token" =>
            main[k].closes \in Nat /\ main[k].closes <= stream.closes
      /\ \A j \in 1 .. Len(worker) : worker[j].kind = "resume" =>
            worker[j].closes \in Nat /\ worker[j].closes <= stream.closes
  <2>1. /\ \A k \in 1 .. Len(main) : main[k] \in Item
        /\ \A j \in 1 .. Len(worker) : worker[j] \in Task
        /\ \A t \in tokens : t \in Token
    BY Elements DEF TypeOK
  <2> QED
    BY <2>1 DEF OneIsWanted, Item, Task, Token
<1> DEFINE a == Ask(stream'.closes, provider)
<1>4. a.closes = stream'.closes
  BY DEF Ask
<1> HIDE DEF a
<1>5. CASE stream'.closes # stream.closes
  <2>1. /\ \A t \in tokens : t.closes <= stream'.closes /\ t.closes # stream'.closes
        /\ \A k \in 1 .. Len(main) : main[k].kind = "token" =>
              main[k].closes <= stream'.closes /\ main[k].closes # stream'.closes
        /\ \A j \in 1 .. Len(worker) : worker[j].kind = "resume" =>
              worker[j].closes <= stream'.closes /\ worker[j].closes # stream'.closes
    <3>1. \A n \in Nat : n <= stream.closes => n <= stream'.closes /\ n # stream'.closes
      BY <1>2, <1>5
    <3> QED
      BY <1>3, <3>1
  <2>2. \A j \in 1 .. Len(worker') : worker'[j].kind = "resume" =>
              worker'[j].closes <= stream'.closes /\ worker'[j].closes # stream'.closes
    BY <1>1, <2>1
  <2>3. \A t \in tokens' :
            \/ t \in tokens
            \/ t = a /\ stream'.state = "Starting"
    BY DEF Moves, a
  <2>4. a.closes <= stream'.closes
    BY <1>2, <1>4
  <2> QED
    BY <2>1, <2>2, <2>3, <2>4 DEF OneIsWanted, WantedItem, WantedTask, WantedToken
<1>6. CASE stream'.closes = stream.closes
  <2>1. /\ stream.state = "Starting" => stream'.state = "Starting" /\ tokens' = tokens
        /\ \A t \in tokens' : t \in tokens \/ (t = a /\ stream'.state = "Starting")
    BY <1>6 DEF Moves, a
  <2>2. \A i, j \in 1 .. Len(worker') : i + d = j + d => i = j
    <3>1. worker \in Seq(Task)
      BY DEF TypeOK
    <3>2. worker' \in Seq(Task)
      BY <3>1, Headless
    <3>3. Len(worker') \in Nat
      BY <3>2
    <3> QED
      BY <3>3
  <2>3. \A j \in 1 .. Len(worker') : WantedTask(j)' => WantedTask(j + d)
    BY <1>1, <1>6 DEF WantedTask
  <2>4. \A k : WantedItem(k)' <=> WantedItem(k)
    BY <1>6 DEF WantedItem
  <2>5. \A t : WantedToken(t)' <=> WantedToken(t)
    BY <1>6 DEF WantedToken
  <2>6. ASSUME NEW t \in tokens'
        PROVE  /\ t.closes <= stream'.closes
               /\ WantedToken(t)' =>
                    /\ stream'.state = "Starting"
                    /\ \A v \in tokens' : WantedToken(v)' => v = t
                    /\ \A k \in 1 .. Len(main) : ~ WantedItem(k)'
                    /\ \A j \in 1 .. Len(worker') : ~ WantedTask(j)'
    <3>1. CASE stream.state = "Starting"
      BY <1>1, <1>6, <2>1, <2>3, <2>4, <2>5, <3>1 DEF OneIsWanted
    <3>2. CASE stream.state # "Starting"
      <4>1. /\ \A v \in tokens : ~ WantedToken(v)
            /\ \A k \in 1 .. Len(main) : ~ WantedItem(k)
            /\ \A j \in 1 .. Len(worker) : ~ WantedTask(j)
        BY <3>2 DEF OneIsWanted, WantedItem, WantedTask
      <4>2. \A v \in tokens' : WantedToken(v)' => v = a /\ stream'.state = "Starting"
        BY <2>1, <2>5, <4>1
      <4>3. t.closes <= stream'.closes
        BY <1>2, <1>3, <1>4, <1>6, <2>1
      <4>4. \A j \in 1 .. Len(worker') : ~ WantedTask(j)'
        BY <1>1, <2>3, <4>1
      <4> QED
        BY <2>4, <4>1, <4>2, <4>3, <4>4
    <3> QED
      BY <3>1, <3>2
  <2>7. ASSUME NEW k \in 1 .. Len(main), main[k].kind = "token"
        PROVE  /\ main[k].closes <= stream'.closes
               /\ WantedItem(k)' =>
                    /\ stream'.state = "Starting"
                    /\ \A i \in 1 .. Len(main) : WantedItem(i)' => i = k
                    /\ \A j \in 1 .. Len(worker') : ~ WantedTask(j)'
    BY <1>1, <1>6, <2>1, <2>3, <2>4, <2>7 DEF OneIsWanted
  <2>8. ASSUME NEW j \in 1 .. Len(worker'), worker'[j].kind = "resume"
        PROVE  /\ worker'[j].closes <= stream'.closes
               /\ WantedTask(j)' =>
                    /\ stream'.state = "Starting"
                    /\ \A i \in 1 .. Len(worker') : WantedTask(i)' => i = j
    <3>1. j + d \in 1 .. Len(worker) /\ worker[j + d].kind = "resume"
      BY <1>1, <2>8
    <3>2. \A i \in 1 .. Len(worker') : i + d \in 1 .. Len(worker)
      BY <1>1
    <3> QED
      BY <1>1, <1>6, <2>1, <2>2, <2>3, <3>1, <3>2 DEF OneIsWanted
  <2> QED
    BY <2>6, <2>7, <2>8 DEF OneIsWanted
<1> QED
  BY <1>5, <1>6

LEMMA ClientWanted ==
    ASSUME TypeOK, OneIsWanted, ClientStep
    PROVE  OneIsWanted'
<1>1. /\ Moves /\ UNCHANGED auth
      /\ TaskDone \/ UNCHANGED <<worker, currentUser>>
  BY ClientMoves
<1> QED
  BY <1>1, MovesWanted DEF TaskDone, auth

\* The answer that is taken was the only one.
LEMMA OpensWanted ==
    ASSUME TypeOK, OneIsWanted, Opens
    PROVE  OneIsWanted'
<1> DEFINE w == Tail(worker)
<1>1. /\ worker # << >> /\ Head(worker).kind = "resume" /\ worker' = w
      /\ Head(worker).closes = stream.closes
      /\ stream' = [stream EXCEPT !.state = "Open", !.user = Head(worker).user,
                                  !.idle = FALSE]
      /\ UNCHANGED <<auth, tokens>>
  BY DEF Opens, ResumeStartWithCredentials, IsWanted, stable
<1>2. stream'.closes = stream.closes
  BY <1>1 DEF TypeOK, Stream
<1>3. /\ worker \in Seq(Task) /\ Head(worker) = worker[1]
      /\ Len(worker) \in Nat /\ Len(worker) # 0 /\ Len(w) = Len(worker) - 1
      /\ \A i \in 1 .. Len(worker) - 1 : w[i] = worker[i + 1]
  BY <1>1, Headless DEF TypeOK
<1> HIDE DEF w
<1>4. WantedTask(1) /\ 1 \in 1 .. Len(worker)
  BY <1>1, <1>3 DEF WantedTask
<1>5. /\ \A j \in 1 .. Len(worker) : WantedTask(j) => j = 1
      /\ \A k \in 1 .. Len(main) : ~ WantedItem(k)
      /\ \A t \in tokens : ~ WantedToken(t)
  BY <1>1, <1>3, <1>4 DEF OneIsWanted, WantedItem
<1>6. \A j \in 1 .. Len(w) : ~ WantedTask(j)'
  <2>1. SUFFICES ASSUME NEW j \in 1 .. Len(w), WantedTask(j)'
                 PROVE  FALSE
    OBVIOUS
  <2>2. j + 1 \in 1 .. Len(worker) /\ w[j] = worker[j + 1] /\ j + 1 # 1
    BY <1>3
  <2>3. WantedTask(j + 1)
    BY <1>1, <1>2, <2>1, <2>2 DEF WantedTask
  <2> QED
    BY <1>5, <2>2, <2>3
<1>7. \A j \in 1 .. Len(w) : w[j].kind = "resume" => w[j].closes <= stream.closes
  <2>1. \A j \in 1 .. Len(w) : j + 1 \in 1 .. Len(worker) /\ w[j] = worker[j + 1]
    BY <1>3
  <2> QED
    BY <2>1 DEF OneIsWanted
<1>8. /\ \A k : WantedItem(k)' <=> WantedItem(k)
      /\ \A t : WantedToken(t)' <=> WantedToken(t)
  BY <1>1, <1>2 DEF WantedItem, WantedToken, auth
<1> QED
  BY <1>1, <1>2, <1>5, <1>6, <1>7, <1>8 DEF OneIsWanted, auth

\* A task that is no answer joins the worker queue, and news joins or leaves the
\* main queue.
LEMMA NewsWanted ==
    ASSUME TypeOK, OneIsWanted, SignIn \/ HearOfUser \/ AppWrites
    PROVE  OneIsWanted'
<1>1. UNCHANGED <<stream, tokens>> /\ main \in Seq(Item) /\ worker \in Seq(Task)
  BY DEF SignIn, HearOfUser, AppWrites, client, TypeOK
<1>2. \E d \in {0, 1} : \A k \in 1 .. Len(main') : main'[k].kind = "token" =>
            k + d \in 1 .. Len(main) /\ main'[k] = main[k + d]
  <2>1. CASE SignIn
    <3>1. main' = Append(main, [kind |-> "change", user |-> authUser'])
          /\ authUser' \in User
      BY <2>1 DEF SignIn
    <3>2. \A k \in 1 .. Len(main') : main'[k].kind = "token" =>
              k + 0 \in 1 .. Len(main) /\ main'[k] = main[k + 0]
      BY <1>1, <3>1
    <3> QED
      BY <3>2
  <2>2. CASE HearOfUser
    <3>1. main # << >> /\ main' = Tail(main)
      BY <2>2 DEF HearOfUser
    <3>2. \A k \in 1 .. Len(main') : k + 1 \in 1 .. Len(main) /\ main'[k] = main[k + 1]
      BY <1>1, <3>1, Headless
    <3> QED
      BY <3>2
  <2>3. CASE AppWrites
    <3>1. main' = main
      BY <2>3 DEF AppWrites, auth
    <3>2. \A k \in 1 .. Len(main') : k + 0 \in 1 .. Len(main) /\ main'[k] = main[k + 0]
      BY <1>1, <3>1
    <3> QED
      BY <3>2
  <2> QED
    BY <2>1, <2>2, <2>3
<1>3. \A j \in 1 .. Len(worker') : worker'[j].kind = "resume" =>
            j \in 1 .. Len(worker) /\ worker'[j] = worker[j]
  <2>1. worker' = worker \/ \E x : worker' = Append(worker, x) /\ x.kind # "resume"
    BY DEF SignIn, HearOfUser, AppWrites, client
  <2>2. CASE worker' = worker
    BY <2>2
  <2>3. CASE \E x : worker' = Append(worker, x) /\ x.kind # "resume"
    BY <1>1, <2>3
  <2> QED
    BY <2>1, <2>2, <2>3
<1>4. \A j \in 1 .. Len(worker') : WantedTask(j)' => j \in 1 .. Len(worker) /\ WantedTask(j)
  BY <1>1, <1>3 DEF WantedTask
<1>5. \A t : WantedToken(t)' <=> WantedToken(t)
  BY <1>1 DEF WantedToken
<1>6. PICK d \in {0, 1} : \A k \in 1 .. Len(main') : main'[k].kind = "token" =>
            k + d \in 1 .. Len(main) /\ main'[k] = main[k + d]
  BY <1>2
<1>7. \A k \in 1 .. Len(main') : WantedItem(k)' => k + d \in 1 .. Len(main) /\ WantedItem(k + d)
  BY <1>1, <1>6 DEF WantedItem
<1>8. \A i, k \in 1 .. Len(main') : i + d = k + d => i = k
  <2>1. main' \in Seq(Item)
    <3>1. CASE SignIn
      <4>1. authUser' \in User
        BY <3>1 DEF SignIn
      <4>2. [kind |-> "change", user |-> authUser'] \in Item
        BY <4>1 DEF Item
      <4> QED
        BY <1>1, <3>1, <4>2, Appended DEF SignIn
    <3>2. CASE HearOfUser
      BY <1>1, <3>2, Headless DEF HearOfUser
    <3>3. CASE AppWrites
      BY <1>1, <3>3 DEF AppWrites, auth
    <3> QED
      BY <3>1, <3>2, <3>3
  <2>2. Len(main') \in Nat
    BY <2>1
  <2> QED
    BY <2>2
<1>9. ASSUME NEW k \in 1 .. Len(main'), main'[k].kind = "token"
      PROVE  /\ main'[k].closes <= stream.closes
             /\ WantedItem(k)' =>
                  /\ stream.state = "Starting"
                  /\ \A i \in 1 .. Len(main') : WantedItem(i)' => i = k
                  /\ \A j \in 1 .. Len(worker') : ~ WantedTask(j)'
  <2>1. k + d \in 1 .. Len(main) /\ main'[k] = main[k + d]
    BY <1>6, <1>9
  <2> QED
    BY <1>4, <1>7, <1>8, <1>9, <2>1 DEF OneIsWanted
<1>10. ASSUME NEW j \in 1 .. Len(worker'), worker'[j].kind = "resume"
       PROVE  /\ worker'[j].closes <= stream.closes
              /\ WantedTask(j)' =>
                   /\ stream.state = "Starting"
                   /\ \A i \in 1 .. Len(worker') : WantedTask(i)' => i = j
  BY <1>3, <1>4, <1>10 DEF OneIsWanted
<1>11. ASSUME NEW t \in tokens
       PROVE  /\ t.closes <= stream.closes
              /\ WantedToken(t)' =>
                   /\ stream.state = "Starting"
                   /\ \A v \in tokens : WantedToken(v)' => v = t
                   /\ \A k \in 1 .. Len(main') : ~ WantedItem(k)'
                   /\ \A j \in 1 .. Len(worker') : ~ WantedTask(j)'
  BY <1>4, <1>5, <1>7 DEF OneIsWanted
<1> QED
  BY <1>1, <1>9, <1>10, <1>11 DEF OneIsWanted

LEMMA TakeUserWanted ==
    ASSUME TypeOK, OneIsWanted, TakeUser
    PROVE  OneIsWanted'
<1>1. PICK t \in tokens :
          /\ tokens' = (tokens \ {t}) \cup {[t EXCEPT !.stage = "fetching", !.user = authUser]}
          /\ UNCHANGED <<client, auth, worker>>
  BY DEF TakeUser
<1> DEFINE v == [t EXCEPT !.stage = "fetching", !.user = authUser]
<1>2. v.closes = t.closes
  BY DEF TypeOK, Token
<1> HIDE DEF v
<1>3. \A x \in tokens' : (x \in tokens /\ x # t) \/ x = v
  BY <1>1 DEF v
<1>4. /\ \A k : WantedItem(k)' <=> WantedItem(k)
      /\ \A j : WantedTask(j)' <=> WantedTask(j)
      /\ \A x : WantedToken(x)' <=> WantedToken(x)
      /\ WantedToken(v) <=> WantedToken(t)
  BY <1>1, <1>2 DEF WantedItem, WantedTask, WantedToken, client, auth
<1> QED
  BY <1>1, <1>2, <1>3, <1>4 DEF OneIsWanted, client, auth

LEMMA FetchTokenWanted ==
    ASSUME TypeOK, OneIsWanted, FetchToken
    PROVE  OneIsWanted'
<1>1. PICK t \in tokens, ok \in BOOLEAN :
          /\ tokens' = tokens \ {t}
          /\ main' = Append(main, [kind |-> "token", closes |-> t.closes,
                                   counter |-> t.counter, user |-> t.user, ok |-> ok])
          /\ UNCHANGED <<client, worker>>
  BY DEF FetchToken
<1> DEFINE x == [kind |-> "token", closes |-> t.closes, counter |-> t.counter,
                 user |-> t.user, ok |-> ok]
<1>2. x \in Item /\ x.kind = "token" /\ x.closes = t.closes /\ main' = Append(main, x)
  BY <1>1 DEF Item, TypeOK, Token
<1> HIDE DEF x
<1>3. /\ Len(main) \in Nat /\ Len(main') = Len(main) + 1
      /\ \A i \in 1 .. Len(main) : main'[i] = main[i]
      /\ main'[Len(main) + 1] = x
  BY <1>2, Appended DEF TypeOK
<1>4. PICK n \in Nat : n = Len(main) + 1
  BY <1>3
<1>5. \A k \in 1 .. Len(main') : k = n \/ (k \in 1 .. Len(main) /\ main'[k] = main[k])
  BY <1>3, <1>4
<1>6. /\ \A k \in 1 .. Len(main) : WantedItem(k)' <=> WantedItem(k)
      /\ WantedItem(n)' <=> WantedToken(t)
      /\ \A j : WantedTask(j)' <=> WantedTask(j)
      /\ \A v : WantedToken(v)' <=> WantedToken(v)
  BY <1>1, <1>2, <1>3, <1>4 DEF WantedItem, WantedTask, WantedToken, client
<1>7. main'[n].closes = t.closes
  BY <1>2, <1>3, <1>4
<1>8. ASSUME NEW k \in 1 .. Len(main'), main'[k].kind = "token"
      PROVE  /\ main'[k].closes <= stream.closes
             /\ WantedItem(k)' =>
                  /\ stream.state = "Starting"
                  /\ \A i \in 1 .. Len(main') : WantedItem(i)' => i = k
                  /\ \A j \in 1 .. Len(worker) : ~ WantedTask(j)'
  <2>1. CASE k = n
    BY <1>5, <1>6, <1>7, <2>1 DEF OneIsWanted
  <2>2. CASE k # n
    BY <1>5, <1>6, <1>7, <1>8, <2>2 DEF OneIsWanted
  <2> QED
    BY <2>1, <2>2
<1>9. ASSUME NEW v \in tokens'
      PROVE  /\ v.closes <= stream.closes
             /\ WantedToken(v)' =>
                  /\ stream.state = "Starting"
                  /\ \A y \in tokens' : WantedToken(y)' => y = v
                  /\ \A k \in 1 .. Len(main') : ~ WantedItem(k)'
                  /\ \A j \in 1 .. Len(worker) : ~ WantedTask(j)'
  <2>1. v \in tokens /\ v # t /\ tokens' \subseteq tokens
    BY <1>1
  <2> QED
    BY <1>5, <1>6, <2>1 DEF OneIsWanted
<1>10. ASSUME NEW j \in 1 .. Len(worker), worker[j].kind = "resume"
      PROVE  /\ worker[j].closes <= stream.closes
             /\ WantedTask(j)' =>
                  /\ stream.state = "Starting"
                  /\ \A i \in 1 .. Len(worker) : WantedTask(i)' => i = j
  BY <1>6, <1>10 DEF OneIsWanted
<1> QED
  BY <1>1, <1>8, <1>9, <1>10 DEF OneIsWanted, client

LEMMA HearOfTokenWanted ==
    ASSUME TypeOK, OneIsWanted, HearOfToken
    PROVE  OneIsWanted'
<1> DEFINE h == Head(main)
<1> DEFINE m == Tail(main)
<1> DEFINE x == [kind |-> "resume", closes |-> h.closes, user |-> h.user, ok |-> h.ok]
<1> DEFINE a == Ask(h.closes, provider)
<1>1. /\ main # << >> /\ h.kind = "token" /\ main' = m
      /\ UNCHANGED stream
      /\ \/ worker' = Append(worker, x) /\ UNCHANGED tokens
         \/ tokens' = tokens \cup {a} /\ UNCHANGED worker
  BY DEF HearOfToken, client
<1>2. /\ h \in Item /\ h = main[1] /\ Len(main) \in Nat /\ Len(main) # 0
      /\ Len(m) = Len(main) - 1
      /\ \A k \in 1 .. Len(main) - 1 : m[k] = main[k + 1]
  BY <1>1, Headless DEF TypeOK
<1>3. x \in Task /\ x.kind = "resume" /\ x.closes = h.closes /\ a.closes = h.closes
  BY <1>1, <1>2 DEF Item, Task, Ask
<1> HIDE DEF m, x, a, h
<1>4. /\ \A k \in 1 .. Len(m) : k + 1 \in 1 .. Len(main) /\ k + 1 # 1 /\ m[k] = main[k + 1]
      /\ \A i, k \in 1 .. Len(m) : i + 1 = k + 1 => i = k
      /\ 1 \in 1 .. Len(main)
  BY <1>2
<1>5. /\ \A k \in 1 .. Len(m) : WantedItem(k)' <=> WantedItem(k + 1)
      /\ \A t : WantedToken(t)' <=> WantedToken(t)
  BY <1>1, <1>4 DEF WantedItem, WantedToken
<1>6. CASE worker' = Append(worker, x) /\ UNCHANGED tokens
  <2>1. /\ Len(worker) \in Nat /\ Len(worker') = Len(worker) + 1
        /\ \A i \in 1 .. Len(worker) : worker'[i] = worker[i]
        /\ worker'[Len(worker) + 1] = x
    BY <1>3, <1>6, Appended DEF TypeOK
  <2>2. PICK n \in Nat : n = Len(worker) + 1
    BY <2>1
  <2>3. \A j \in 1 .. Len(worker') : j = n \/ (j \in 1 .. Len(worker) /\ worker'[j] = worker[j])
    BY <2>1, <2>2
  <2>4. /\ \A j \in 1 .. Len(worker) : WantedTask(j)' <=> WantedTask(j)
        /\ WantedTask(n)' <=> WantedItem(1)
        /\ worker'[n].closes = main[1].closes
    BY <1>1, <1>2, <1>3, <2>1, <2>2 DEF WantedTask, WantedItem
  <2>5. ASSUME NEW j \in 1 .. Len(worker'), worker'[j].kind = "resume"
        PROVE  /\ worker'[j].closes <= stream.closes
               /\ WantedTask(j)' =>
                    /\ stream.state = "Starting"
                    /\ \A i \in 1 .. Len(worker') : WantedTask(i)' => i = j
    <3>1. CASE j = n
      BY <1>1, <1>2, <1>4, <2>3, <2>4, <3>1 DEF OneIsWanted
    <3>2. CASE j # n
      BY <1>1, <1>2, <1>4, <2>3, <2>4, <2>5, <3>2 DEF OneIsWanted
    <3> QED
      BY <3>1, <3>2
  <2>6. ASSUME NEW k \in 1 .. Len(m), m[k].kind = "token"
        PROVE  /\ m[k].closes <= stream.closes
               /\ WantedItem(k)' =>
                    /\ stream.state = "Starting"
                    /\ \A i \in 1 .. Len(m) : WantedItem(i)' => i = k
                    /\ \A j \in 1 .. Len(worker') : ~ WantedTask(j)'
    <3>1. k + 1 \in 1 .. Len(main) /\ k + 1 # 1 /\ main[k + 1].kind = "token"
      BY <1>4, <2>6
    <3>2. main[k + 1].closes <= stream.closes
      BY <3>1 DEF OneIsWanted
    <3>3. WantedItem(k + 1) =>
                    /\ stream.state = "Starting"
                    /\ \A i \in 1 .. Len(main) : WantedItem(i) => i = k + 1
                    /\ \A j \in 1 .. Len(worker) : ~ WantedTask(j)
      BY <3>1 DEF OneIsWanted
    <3> QED
      BY <1>4, <1>5, <2>3, <2>4, <3>1, <3>2, <3>3
  <2>7. ASSUME NEW t \in tokens
        PROVE  /\ t.closes <= stream.closes
               /\ WantedToken(t)' =>
                    /\ stream.state = "Starting"
                    /\ \A v \in tokens : WantedToken(v)' => v = t
                    /\ \A k \in 1 .. Len(m) : ~ WantedItem(k)'
                    /\ \A j \in 1 .. Len(worker') : ~ WantedTask(j)'
    BY <1>4, <1>5, <2>3, <2>4 DEF OneIsWanted
  <2> QED
    BY <1>1, <1>6, <2>5, <2>6, <2>7 DEF OneIsWanted
<1>7. CASE tokens' = tokens \cup {a} /\ UNCHANGED worker
  <2>1. \A t \in tokens' : t \in tokens \/ t = a
    BY <1>7
  <2>2. /\ WantedToken(a) <=> WantedItem(1)
        /\ a.closes = main[1].closes
    BY <1>1, <1>2, <1>3 DEF WantedItem, WantedToken
  <2>3. \A j : WantedTask(j)' <=> WantedTask(j)
    BY <1>1, <1>7 DEF WantedTask
  <2>4. ASSUME NEW t \in tokens'
        PROVE  /\ t.closes <= stream.closes
               /\ WantedToken(t)' =>
                    /\ stream.state = "Starting"
                    /\ \A v \in tokens' : WantedToken(v)' => v = t
                    /\ \A k \in 1 .. Len(m) : ~ WantedItem(k)'
                    /\ \A j \in 1 .. Len(worker) : ~ WantedTask(j)'
    <3>1. CASE t = a
      BY <1>1, <1>2, <1>4, <1>5, <2>1, <2>2, <2>3, <3>1 DEF OneIsWanted
    <3>2. CASE t # a
      BY <1>1, <1>2, <1>4, <1>5, <2>1, <2>2, <2>3, <3>2 DEF OneIsWanted
    <3> QED
      BY <3>1, <3>2
  <2>5. ASSUME NEW k \in 1 .. Len(m), m[k].kind = "token"
        PROVE  /\ m[k].closes <= stream.closes
               /\ WantedItem(k)' =>
                    /\ stream.state = "Starting"
                    /\ \A i \in 1 .. Len(m) : WantedItem(i)' => i = k
                    /\ \A j \in 1 .. Len(worker) : ~ WantedTask(j)'
    <3>1. k + 1 \in 1 .. Len(main) /\ main[k + 1].kind = "token"
      BY <1>4, <2>5
    <3> QED
      BY <1>4, <1>5, <2>3, <3>1 DEF OneIsWanted
  <2>6. ASSUME NEW j \in 1 .. Len(worker), worker[j].kind = "resume"
        PROVE  /\ worker[j].closes <= stream.closes
               /\ WantedTask(j)' =>
                    /\ stream.state = "Starting"
                    /\ \A i \in 1 .. Len(worker) : WantedTask(i)' => i = j
    BY <2>3, <2>6 DEF OneIsWanted
  <2> QED
    BY <1>1, <1>7, <2>4, <2>5, <2>6 DEF OneIsWanted
<1> QED
  BY <1>1, <1>6, <1>7

LEMMA RestartWanted ==
    ASSUME Restart
    PROVE  OneIsWanted'
<1>1. /\ main' = << >> /\ worker' = << >>
      /\ stream'.closes = 0
      /\ \/ tokens' = {}
         \/ tokens' = {Ask(0, provider')} /\ stream'.state = "Starting"
  BY DEF Restart, Start
<1>2. Ask(0, provider').closes = 0
  BY DEF Ask
<1> QED
  BY <1>1, <1>2 DEF OneIsWanted, WantedToken

\* A stream never waits for two answers, and none of an earlier start reaches it.
LEMMA NextWanted ==
    ASSUME TypeOK, OneIsWanted, [Next]_vars
    PROVE  OneIsWanted'
<1>1. CASE UNCHANGED vars
  BY <1>1 DEF OneIsWanted, WantedItem, WantedTask, WantedToken, vars, auth
<1>2. CASE AuthStep \/ SignIn \/ AppWrites
  BY <1>2, NewsWanted, TakeUserWanted, FetchTokenWanted, HearOfTokenWanted DEF AuthStep
<1>3. CASE ClientStep \/ Opens \/ Restart
  BY <1>3, ClientWanted, OpensWanted, RestartWanted
<1>4. Next => AuthStep \/ SignIn \/ AppWrites \/ ClientStep \/ Opens \/ Restart
  BY DEF Next, WorkerStep, ClientStep, Opens
<1> QED
  BY <1>1, <1>2, <1>3, <1>4

-----------------------------------------------------------------------------
(* Writes keep the order of the calls.                                     *)

\* Tasks that are done, or join and are no write, leave the order.
LEMMA NumbersKept ==
    ASSUME WritesNumbered, UNCHANGED <<added, issued>>,
           NEW d \in {0, 1},
           \A j \in 1 .. Len(worker') : worker'[j].kind = "write" =>
               j + d \in 1 .. Len(worker) /\ worker'[j] = worker[j + d]
    PROVE  WritesNumbered'
<1>1. ASSUME NEW j \in 1 .. Len(worker'), worker'[j].kind = "write"
      PROVE  /\ worker'[j].write.no <= issued
             /\ \A v \in added : v.no < worker'[j].write.no
             /\ \A i \in 1 .. j - 1 : worker'[i].kind = "write" =>
                   worker'[i].write.no < worker'[j].write.no
  <2>1. j + d \in 1 .. Len(worker) /\ worker'[j] = worker[j + d]
    BY <1>1
  <2>2. ASSUME NEW i \in 1 .. j - 1, worker'[i].kind = "write"
        PROVE  i + d \in 1 .. (j + d) - 1 /\ worker'[i] = worker[i + d]
    <3>1. i \in 1 .. Len(worker') /\ i + d \in 1 .. (j + d) - 1
      <4>1. j \in Int /\ j <= Len(worker')
        OBVIOUS
      <4>2. i \in Nat /\ 1 <= i /\ i < j
        BY <4>1
      <4>3. i \in 1 .. Len(worker')
        BY <1>1, <4>2
      <4> QED
        BY <4>1, <4>2, <4>3
    <3> QED
      BY <2>2, <3>1
  <2> QED
    BY <1>1, <2>1, <2>2 DEF WritesNumbered
<1> QED
  BY <1>1 DEF WritesNumbered

LEMMA WriteMutationsNumbers ==
    ASSUME TypeOK, WritesNumbered, WriteMutations
    PROVE  WritesNumbered'
<1> DEFINE t == Tail(worker)
<1>1. /\ worker # << >> /\ Head(worker).kind = "write" /\ worker' = t
      /\ added' = added \cup {Head(worker).write}
      /\ UNCHANGED issued
  BY DEF WriteMutations, counters
<1>2. /\ Head(worker) = worker[1] /\ Len(worker) \in Nat /\ Len(worker) # 0
      /\ Len(t) = Len(worker) - 1
      /\ \A i \in 1 .. Len(worker) - 1 : t[i] = worker[i + 1]
  BY <1>1, Headless DEF TypeOK
<1> HIDE DEF t
<1>3. ASSUME NEW j \in 1 .. Len(t), t[j].kind = "write"
      PROVE  /\ t[j].write.no <= issued
             /\ \A v \in added' : v.no < t[j].write.no
             /\ \A i \in 1 .. j - 1 : t[i].kind = "write" => t[i].write.no < t[j].write.no
  <2>1. /\ j + 1 \in 1 .. Len(worker) /\ t[j] = worker[j + 1] /\ 1 \in 1 .. (j + 1) - 1
        /\ \A i \in 1 .. j - 1 : i + 1 \in 1 .. (j + 1) - 1 /\ t[i] = worker[i + 1]
    BY <1>2
  <2> QED
    BY <1>1, <1>2, <1>3, <2>1 DEF WritesNumbered
<1>4. \A v \in added' : v.no <= issued
  <2>1. 1 \in 1 .. Len(worker)
    BY <1>2
  <2> QED
    BY <1>1, <1>2, <2>1 DEF WritesNumbered
<1> QED
  BY <1>1, <1>3, <1>4 DEF WritesNumbered

LEMMA AppWritesNumbers ==
    ASSUME TypeOK, WritesNumbered, AppWrites
    PROVE  WritesNumbered'
<1> DEFINE x == [kind |-> "write", write |-> [no |-> issued', by |-> provider.user]]
<1> DEFINE s == Append(worker, x)
<1>1. /\ issued' = issued + 1 /\ worker' = s /\ issued \in Nat
      /\ UNCHANGED added
  BY DEF AppWrites, client, history, TypeOK
<1>2. x \in Task /\ x.kind = "write" /\ x.write.no = issued + 1
  BY <1>1 DEF AppWrites, TypeOK, Task, Write
<1> HIDE DEF x
<1>3. /\ Len(worker) \in Nat /\ Len(s) = Len(worker) + 1
      /\ \A i \in 1 .. Len(worker) : s[i] = worker[i]
      /\ s[Len(worker) + 1] = x
  BY <1>2, Appended DEF TypeOK
<1> HIDE DEF s
<1>4. /\ \A v \in added : v.no \in Nat /\ v.no <= issued
      /\ \A j \in 1 .. Len(worker) : worker[j].kind = "write" =>
            worker[j].write.no \in Nat /\ worker[j].write.no <= issued
  <2>1. \A j \in 1 .. Len(worker) : worker[j] \in Task
    BY Elements DEF TypeOK
  <2>2. \A y \in Task : y.kind = "write" => y.write.no \in Nat
    BY DEF Task, Write
  <2>3. \A v \in added : v.no \in Nat
    BY DEF TypeOK, Write
  <2> QED
    BY <2>1, <2>2, <2>3 DEF WritesNumbered
<1>5. \A n \in Nat : n <= issued => n <= issued + 1 /\ n < issued + 1
  BY <1>1
<1>6. ASSUME NEW j \in 1 .. Len(s), s[j].kind = "write"
      PROVE  /\ s[j].write.no <= issued'
             /\ \A v \in added : v.no < s[j].write.no
             /\ \A i \in 1 .. j - 1 : s[i].kind = "write" => s[i].write.no < s[j].write.no
  <2>1. CASE j = Len(worker) + 1
    <3>1. s[j] = x /\ \A i \in 1 .. j - 1 : i \in 1 .. Len(worker) /\ s[i] = worker[i]
      BY <1>3, <2>1
    <3> QED
      BY <1>1, <1>2, <1>4, <1>5, <3>1
  <2>2. CASE j # Len(worker) + 1
    <3>1. /\ j \in 1 .. Len(worker) /\ s[j] = worker[j]
          /\ \A i \in 1 .. j - 1 : s[i] = worker[i]
      BY <1>3, <2>2
    <3> QED
      BY <1>1, <1>4, <1>5, <1>6, <3>1 DEF WritesNumbered
  <2> QED
    BY <2>1, <2>2
<1>7. \A v \in added : v.no <= issued'
  BY <1>1, <1>4, <1>5
<1> QED
  BY <1>1, <1>6, <1>7 DEF WritesNumbered

\* The worker queue holds the app's writes in the order of the calls.
LEMMA NextNumbers ==
    ASSUME TypeOK, WritesNumbered, [Next]_vars
    PROVE  WritesNumbered'
<1>1. worker \in Seq(Task) /\ Len(worker) \in Nat
  BY DEF TypeOK
<1>2. (UNCHANGED <<added, issued, worker>>) => WritesNumbered'
  BY DEF WritesNumbered
<1>3. ASSUME worker # << >>, worker' = Tail(worker), UNCHANGED <<added, issued>>
      PROVE  WritesNumbered'
  <2>1. \A j \in 1 .. Len(worker') : j + 1 \in 1 .. Len(worker) /\ worker'[j] = worker[j + 1]
    BY <1>1, <1>3, Headless
  <2> QED
    BY <1>3, <2>1, NumbersKept
<1>4. ASSUME NEW x \in Task, worker' = Append(worker, x), x.kind # "write",
             UNCHANGED <<added, issued>>
      PROVE  WritesNumbered'
  <2>1. \A j \in 1 .. Len(worker') : worker'[j].kind = "write" =>
            j + 0 \in 1 .. Len(worker) /\ worker'[j] = worker[j + 0]
    BY <1>1, <1>4
  <2> QED
    BY <1>4, <2>1, NumbersKept
<1>5. CASE UNCHANGED vars
  BY <1>2, <1>5 DEF vars, history, counters
<1>6. CASE Restart
  BY <1>6 DEF Restart, WritesNumbered, history
<1>7. CASE HandleCredentialChange \/ ResumeStartWithCredentials
  BY <1>3, <1>7 DEF HandleCredentialChange, ResumeStartWithCredentials, stable, history,
     counters
<1>8. CASE HearOfUser
  <2> DEFINE x == [kind |-> "change", user |-> Head(main).user]
  <2>1. /\ main # << >> /\ Head(main).kind = "change" /\ worker' = Append(worker, x)
        /\ UNCHANGED <<added, issued>>
    BY <1>8 DEF HearOfUser, client, history, counters
  <2>2. Head(main) \in Item
    BY <2>1, Headless DEF TypeOK
  <2>3. x \in Task /\ x.kind # "write"
    BY <2>1, <2>2 DEF Item, Task
  <2> QED
    BY <1>4, <2>1, <2>3
<1>9. CASE HearOfToken
  <2> DEFINE x == [kind |-> "resume", closes |-> Head(main).closes,
                   user |-> Head(main).user, ok |-> Head(main).ok]
  <2>1. /\ main # << >> /\ Head(main).kind = "token"
        /\ worker' = Append(worker, x) \/ UNCHANGED worker
        /\ UNCHANGED <<added, issued>>
    BY <1>9 DEF HearOfToken, client, history, counters
  <2>2. Head(main) \in Item
    BY <2>1, Headless DEF TypeOK
  <2>3. x \in Task /\ x.kind # "write"
    BY <2>1, <2>2 DEF Item, Task
  <2> HIDE DEF x
  <2> QED
    BY <1>2, <1>4, <2>1, <2>3
<1>10. CASE SignIn \/ TakeUser \/ FetchToken
  BY <1>2, <1>10 DEF SignIn, TakeUser, FetchToken, client, history, counters
<1>11. CASE \/ OnWriteStreamHandshakeComplete \/ OnWriteStreamMutationResult
            \/ HandleWriteError \/ IdleTimeout \/ BackoffTimeout
            \/ OnWriteStreamClose \/ OnConnectivityChange \/ Commit \/ Refuse
  BY <1>2, <1>11 DEF OnWriteStreamHandshakeComplete, OnWriteStreamMutationResult,
     HandleWriteError, IdleTimeout, BackoffTimeout, OnWriteStreamClose,
     OnConnectivityChange, Commit, Refuse, stable, history, counters
<1> QED
  BY <1>5, <1>6, <1>7, <1>8, <1>9, <1>10, <1>11, WriteMutationsNumbers, AppWritesNumbers
  DEF Next, WorkerStep, AuthStep

-----------------------------------------------------------------------------
(* The theorems.                                                           *)


\* The invariant holds at the start, and every step keeps it.
THEOREM Inductive == Spec => []IInv
<1>1. ASSUME Init
      PROVE  IInv
  <2>1. PipelineInv /\ UsersInOrder /\ StreamOfUser
    BY <1>1, InitPipeline, InitUsers
  <2>2. OneIsWanted /\ WritesNumbered
    BY <1>1 DEF Init, OneIsWanted, WritesNumbered
  <2> QED
    BY <2>1, <2>2 DEF IInv, PipelineInv, UsersInOrder
<1>2. ASSUME IInv, [Next]_vars
      PROVE  IInv'
  <2>1. PipelineInv /\ UsersInOrder /\ StreamOfUser /\ TypeOK
    BY <1>2 DEF IInv, PipelineInv, UsersInOrder
  <2>2. PipelineInv'
    BY <1>2, <2>1, NextPipeline
  <2>3. UsersInOrder' /\ StreamOfUser'
    BY <1>2, <2>1, NextUsers
  <2>4. OneIsWanted' /\ WritesNumbered'
    BY <1>2, <2>1, NextWanted, NextNumbers DEF IInv
  <2> QED
    BY <2>2, <2>3, <2>4 DEF IInv, PipelineInv, UsersInOrder
<1> QED
  BY <1>1, <1>2, PTL DEF Spec

\* Whatever fails, crashes or changes hands, the queues, the stream and the
\* connection hold what their types say.
THEOREM TypeCorrect == Spec => []TypeOK
<1>1. IInv => TypeOK
  BY DEF IInv
<1> QED
  BY <1>1, Inductive, PTL

\* The write stream never works under one user's token on another's queue:
\* tokens are those of the provider's user, and a change of user reaches the
\* worker before any token that was asked for after it (RequestCredentials,
\* GetToken and HandleCredentialChange).
THEOREM OwnStream == Spec => []StreamOfUser
<1>1. IInv => StreamOfUser
  BY DEF IInv
<1> QED
  BY <1>1, Inductive, PTL

\* The assertion of ResumeStartWithCredentials (stream.cc:171) never fails: of
\* all requests on their way only one has the present close count, and none has
\* once the stream is no longer starting.
THEOREM TokensFindStarting == Spec => []TokenFindsStarting
<1>1. IInv => TokenFindsStarting
  <2>1. SUFFICES ASSUME IInv, worker # << >>, Head(worker).kind = "resume",
                        IsWanted(Head(worker))
                 PROVE  stream.state = "Starting"
    BY DEF TokenFindsStarting
  <2>2. Head(worker) = worker[1] /\ 1 \in 1 .. Len(worker)
    BY <2>1, Headless DEF IInv, TypeOK
  <2> QED
    BY <2>1, <2>2 DEF IInv, OneIsWanted, WantedTask, IsWanted
<1> QED
  BY <1>1, Inductive, PTL

\* An idle timer never stops a stream that has writes to send
\* (remote_store.cc:457): the pipeline is empty while it runs.
THEOREM IdleStreams == Spec => []IdleHasNothingToSend
<1>1. IInv => IdleHasNothingToSend
  BY DEF IInv, StreamHasWire, IdleHasNothingToSend
<1> QED
  BY <1>1, Inductive, PTL

\* A callback is called for its own write: ids that start over after a change of
\* user or a restart (LoadNextBatchIdFromDb) never name another batch.
THEOREM OwnCallback == Spec => []CallbackOfItsWrite
<1>1. IInv => CallbackOfItsWrite
  BY DEF IInv
<1> QED
  BY <1>1, Inductive, PTL

-----------------------------------------------------------------------------
\* Batches that are the head of a queue are a subsequence of it.
LEMMA PartIsSubSeq ==
    ASSUME NEW q \in Seq(Batch), NEW p \in Seq(Batch), PartOf(p, 0, q)
    PROVE  p = SubSeq(q, 1, Len(p))
<1> DEFINE n == Len(p)
<1>1. n \in Nat /\ n <= Len(q) /\ Len(q) \in Nat
  BY DEF PartOf
<1>2. \A i \in 1 .. n : p[i] = q[i]
  <2>1. \A i \in 1 .. n : 0 + i = i
    BY <1>1
  <2> QED
    BY <2>1 DEF PartOf
<1>3. p = [i \in 1 .. n |-> p[i]]
  OBVIOUS
<1> HIDE DEF n
<1>4. SubSeq(q, 1, n) = [i \in 1 .. n |-> q[i]]
  BY <1>1
<1> QED
  BY <1>2, <1>3, <1>4 DEF n

\* A connection that carries just a pipeline carries the pipeline's writes.
LEMMA CarriesPipeline ==
    ASSUME NEW q \in Seq(Batch), NEW p \in Seq(Batch), PartOf(p, 0, q),
           NEW acks \in Seq(Write), NEW sent \in Seq(Write),
           Carries(acks, sent, q, Len(p))
    PROVE  acks \o sent = Writes(p)
<1> DEFINE both == acks \o sent
<1> DEFINE t == Writes(p)
<1>1. /\ t \in Seq(Write) /\ Len(t) = Len(p)
      /\ \A i \in 1 .. Len(p) : t[i] = p[i].write
  BY WritesOfBatches
<1>2. /\ both \in Seq(Write) /\ Len(acks) \in Nat /\ Len(sent) \in Nat
      /\ Len(both) = Len(acks) + Len(sent)
      /\ \A i \in 1 .. Len(acks) + Len(sent) :
            /\ i <= Len(acks) => i \in 1 .. Len(acks) /\ both[i] = acks[i]
            /\ i > Len(acks) => i - Len(acks) \in 1 .. Len(sent)
                                /\ both[i] = sent[i - Len(acks)]
  BY Parts
<1> HIDE DEF both, t
<1>3. Len(acks) + Len(sent) = Len(p)
  BY DEF Carries
<1>4. ASSUME NEW i \in 1 .. Len(p)
      PROVE  both[i] = t[i]
  <2>1. t[i] = q[i].write
    <3>1. p[i] = q[0 + i] /\ 0 + i = i
      BY DEF PartOf
    <3> QED
      BY <1>1, <3>1
  <2>2. CASE i <= Len(acks)
    BY <1>2, <1>3, <2>1, <2>2 DEF Carries
  <2>3. CASE i > Len(acks)
    <3> DEFINE j == i - Len(acks)
    <3>1. j \in 1 .. Len(sent) /\ both[i] = sent[j]
      BY <1>2, <1>3, <2>3
    <3>2. Len(acks) + j = i
      BY <1>2
    <3> HIDE DEF j
    <3> QED
      BY <2>1, <3>1, <3>2 DEF Carries
  <2> QED
    BY <1>2, <2>2, <2>3
<1>5. Len(both) = Len(t)
  BY <1>1, <1>2, <1>3
<1>6. \A i \in 1 .. Len(both) : both[i] = t[i]
  BY <1>2, <1>3, <1>4
<1>7. both = t
  BY <1>1, <1>2, <1>5, <1>6, SeqEqual
<1> QED
  BY <1>7 DEF both, t

\* An answer is about the head of the pipeline, and the pipeline is the head of
\* the current user's queue, as OnWriteStreamMutationResult and
\* HandleWriteError take for granted.
THEOREM AnswersFit == Spec => []AnswersAreForThePipeline
<1>1. IInv => AnswersAreForThePipeline
  <2>1. SUFFICES ASSUME IInv
                 PROVE  AnswersAreForThePipeline
    OBVIOUS
  <2>2. /\ queue[currentUser] \in Seq(Batch) /\ pipeline \in Seq(Batch)
        /\ wire.acks \in Seq(Write) /\ wire.sent \in Seq(Write)
        /\ PartOf(pipeline, 0, queue[currentUser])
    BY <2>1, StateTypes DEF IInv, PipelineIsHead
  <2>3. pipeline = SubSeq(queue[currentUser], 1, Len(pipeline))
    BY <2>2, PartIsSubSeq
  <2>4. ASSUME wire.open
        PROVE  wire.acks \o wire.sent = Writes(pipeline)
    <3>1. Carries(wire.acks, wire.sent, queue[currentUser], Len(pipeline))
      BY <2>1, <2>4 DEF IInv, WireIsHead, StreamHasWire
    <3> QED
      BY <2>2, <3>1, CarriesPipeline
  <2> QED
    BY <2>3, <2>4 DEF AnswersAreForThePipeline
<1> QED
  BY <1>1, Inductive, PTL

-----------------------------------------------------------------------------
(* FirestoreWrites implements DocumentStore.                               *)

LEMMA WritesAppend ==
    ASSUME NEW q \in Seq(Batch), NEW b \in Batch
    PROVE  Writes(Append(q, b)) = Append(Writes(q), b.write)
<1> DEFINE l == Writes(Append(q, b))
<1> DEFINE r == Append(Writes(q), b.write)
<1>1. /\ Append(q, b) \in Seq(Batch) /\ Len(q) \in Nat
      /\ Len(Append(q, b)) = Len(q) + 1
      /\ \A i \in 1 .. Len(q) : Append(q, b)[i] = q[i]
      /\ Append(q, b)[Len(q) + 1] = b
  BY Appended
<1>2. /\ l \in Seq(Write) /\ Len(l) = Len(q) + 1
      /\ \A i \in 1 .. Len(q) : l[i] = q[i].write
      /\ l[Len(q) + 1] = b.write
  <2>1. /\ l \in Seq(Write) /\ Len(l) = Len(Append(q, b))
        /\ \A i \in 1 .. Len(Append(q, b)) : l[i] = Append(q, b)[i].write
    BY <1>1, WritesOfBatches
  <2> HIDE DEF l
  <2> QED
    BY <1>1, <2>1
<1>3. /\ Writes(q) \in Seq(Write) /\ Len(Writes(q)) = Len(q) /\ b.write \in Write
      /\ \A i \in 1 .. Len(q) : Writes(q)[i] = q[i].write
  BY WritesOfBatches, BatchParts
<1>4. /\ r \in Seq(Write) /\ Len(r) = Len(q) + 1
      /\ \A i \in 1 .. Len(q) : r[i] = q[i].write
      /\ r[Len(q) + 1] = b.write
  BY <1>3, Appended
<1> HIDE DEF l, r
<1>5. \A i \in 1 .. Len(l) : l[i] = r[i]
  BY <1>1, <1>2, <1>4
<1>6. l = r
  BY <1>2, <1>4, <1>5, SeqEqual
<1> QED
  BY <1>6 DEF l, r

LEMMA WritesTail ==
    ASSUME NEW q \in Seq(Batch), q # << >>
    PROVE  /\ Writes(Tail(q)) = Tail(Writes(q))
           /\ Writes(q) # << >> /\ Head(Writes(q)) = Head(q).write
<1> DEFINE l == Writes(Tail(q))
<1> DEFINE w == Writes(q)
<1> DEFINE r == Tail(w)
<1>1. /\ Tail(q) \in Seq(Batch) /\ Len(q) \in Nat /\ Len(q) # 0 /\ Head(q) = q[1]
      /\ Len(Tail(q)) = Len(q) - 1
      /\ \A i \in 1 .. Len(q) - 1 : Tail(q)[i] = q[i + 1]
  BY Headless
<1>2. /\ l \in Seq(Write) /\ Len(l) = Len(q) - 1
      /\ \A i \in 1 .. Len(q) - 1 : l[i] = q[i + 1].write
  <2>1. /\ l \in Seq(Write) /\ Len(l) = Len(Tail(q))
        /\ \A i \in 1 .. Len(Tail(q)) : l[i] = Tail(q)[i].write
    BY <1>1, WritesOfBatches
  <2> HIDE DEF l
  <2> QED
    BY <1>1, <2>1
<1>3. /\ w \in Seq(Write) /\ Len(w) = Len(q)
      /\ \A i \in 1 .. Len(q) : w[i] = q[i].write
  BY WritesOfBatches
<1> HIDE DEF l, w
<1>4. w # << >>
  BY <1>1, <1>3
<1>5. /\ r \in Seq(Write) /\ Len(r) = Len(q) - 1 /\ Head(w) = w[1]
      /\ \A i \in 1 .. Len(q) - 1 : r[i] = w[i + 1]
  BY <1>3, <1>4, Headless
<1> HIDE DEF r
<1>6. \A i \in 1 .. Len(l) : l[i] = r[i]
  <2>1. \A i \in 1 .. Len(q) - 1 : i + 1 \in 1 .. Len(q)
    BY <1>1
  <2> QED
    BY <1>2, <1>3, <1>5, <2>1
<1>7. l = r
  BY <1>2, <1>5, <1>6, SeqEqual
<1>8. Head(w) = Head(q).write
  BY <1>1, <1>3, <1>5
<1> QED
  BY <1>4, <1>7, <1>8 DEF l, r, w

\* DocumentStore's queues, commits and refusals.
Queues   == [u \in User |-> Writes(queue[u])]
Done     == [u \in User |-> IF u = wire.user THEN Len(wire.acks) ELSE 0]
Refusals == [u \in User |-> u = wire.user /\ wire.refused]

\* How they move with one of the queues on disk.
LEMMA QueuesMove ==
    ASSUME TypeOK, NEW u \in User, NEW q, queue' = [queue EXCEPT ![u] = q]
    PROVE  Queues' = [Queues EXCEPT ![u] = Writes(q)]
<1>1. queue'[u] = q /\ \A v \in User : v # u => queue'[v] = queue[v]
  BY DEF TypeOK
<1>2. Queues' = [v \in User |-> Writes(queue'[v])]
  BY DEF Queues
<1>3. [Queues EXCEPT ![u] = Writes(q)]
          = [v \in User |-> IF v = u THEN Writes(q) ELSE Writes(queue[v])]
  BY DEF Queues
<1> QED
  BY <1>1, <1>2, <1>3

\* What a step that touches no queue and leaves the server's work alone is to
\* DocumentStore: nothing.
LEMMA Stutters ==
    ASSUME UNCHANGED <<queue, log, history>>,
           wire'.user = wire.user, wire'.acks = wire.acks, wire'.refused = wire.refused
    PROVE  UNCHANGED Promise!vars
  BY DEF Promise!vars, history

LEMMA InitImplements ==
    ASSUME Init
    PROVE  Promise!Init
<1>1. Writes(<< >>) = << >>
  BY DEF Writes
<1>2. /\ queue = [u \in User |-> << >>] /\ wire.acks = << >> /\ wire.refused = FALSE
      /\ log = << >> /\ added = {} /\ rejected = {}
  BY DEF Init
<1>3. \A u \in User : Writes(queue[u]) = << >>
  BY <1>1, <1>2
<1>4. [u \in User |-> Writes(queue[u])] = [u \in User |-> << >>]
  BY <1>3
<1>5. [u \in User |-> IF u = wire.user THEN Len(wire.acks) ELSE 0] = [u \in User |-> 0]
  BY <1>2
<1>6. [u \in User |-> u = wire.user /\ wire.refused] = [u \in User |-> FALSE]
  BY <1>2
<1> QED
  BY <1>2, <1>4, <1>5, <1>6 DEF Promise!Init

\* The write that is queued is the current user's and the latest.
LEMMA WriteMutationsImplements ==
    ASSUME IInv, NEW u \in User, u = currentUser, IInv', WriteMutations
    PROVE  Promise!Add(u)
<1> DEFINE w == Head(worker).write
<1> DEFINE b == [id |-> nextBatchId, write |-> w]
<1>1. /\ worker # << >> /\ Head(worker).kind = "write"
      /\ queue' = [queue EXCEPT ![u] = Append(queue[u], b)]
      /\ added' = added \cup {w}
      /\ FillWritePipeline(pipeline, Append(queue[u], b), stream, wire, tokens)
      /\ UNCHANGED <<log, rejected>>
  BY DEF WriteMutations
<1>2. /\ TypeOK /\ TasksOfUser /\ WritesNumbered
      /\ u \in User /\ queue[u] \in Seq(Batch) /\ wire \in Connection
  BY StateTypes DEF IInv
<1>3. /\ worker \in Seq(Task) /\ Head(worker) \in Task
      /\ Head(worker) = worker[1] /\ 1 \in 1 .. Len(worker)
  BY <1>1, <1>2, Headless DEF TypeOK
<1>4. w \in Write /\ w.by = u
  <2>1. UserAfter(worker, 0, u, w.by)
    BY <1>1, <1>2, <1>3 DEF TasksOfUser
  <2> QED
    BY <1>1, <1>3, <2>1 DEF UserAfter, Task
<1>5. \A v \in added : v.no < w.no
  BY <1>1, <1>2, <1>3 DEF WritesNumbered
<1>6. b \in Batch /\ b.write = w
  BY <1>2, <1>4 DEF TypeOK, Batch
<1> HIDE DEF b, w
<1>7. Queues' = [Queues EXCEPT ![u] = Append(@, w)]
  <2>1. Writes(Append(queue[u], b)) = Append(Writes(queue[u]), w)
    BY <1>2, <1>6, WritesAppend
  <2>2. Queues' = [Queues EXCEPT ![u] = Writes(Append(queue[u], b))]
    BY <1>1, <1>2, QueuesMove
  <2>3. Queues[u] = Writes(queue[u])
    BY <1>2 DEF Queues
  <2> QED
    BY <2>1, <2>2, <2>3
<1>8. wire'.user = wire.user /\ wire'.acks = wire.acks /\ wire'.refused = wire.refused
  BY <1>1, <1>2 DEF FillWritePipeline, Connection
<1>9. w \in Promise!Write
  BY <1>4 DEF Promise!Write, Write
<1> QED
  BY <1>1, <1>4, <1>5, <1>7, <1>8, <1>9 DEF Promise!Add, Queues

\* The head of the pipeline, whose answer is read, is the head of DocumentStore's
\* queue.
LEMMA MutationResultImplements ==
    ASSUME IInv, NEW u \in User, u = currentUser, OnWriteStreamMutationResult
    PROVE  Promise!Settle(u)
<1> DEFINE w == [wire EXCEPT !.acks = Tail(@)]
<1>1. /\ wire.open /\ wire.acks # << >>
      /\ NotifyUser(Head(pipeline))
      /\ queue' = [queue EXCEPT ![u] = WithoutBatch(Head(pipeline))]
      /\ FillWritePipeline(Tail(pipeline), WithoutBatch(Head(pipeline)), stream, w, tokens)
      /\ UNCHANGED <<currentUser, nextBatchId, log, history>>
  BY DEF OnWriteStreamMutationResult
<1>2. PipelineInv /\ TypeOK
  BY DEF IInv, PipelineInv
<1>3. wire.user = u /\ pipeline # << >>
  BY <1>1, <1>2, OpenWire
<1>4. queue[u] # << >> /\ WithoutBatch(Head(pipeline)) = Tail(queue[u])
  BY <1>1, <1>2, <1>3, HeadLeaves
<1>5. /\ u \in User /\ queue[u] \in Seq(Batch) /\ wire \in Connection
      /\ wire.acks \in Seq(Write)
  BY <1>2, StateTypes
<1>6. Queues' = [Queues EXCEPT ![u] = Tail(@)]
  <2>1. Writes(Tail(queue[u])) = Tail(Writes(queue[u]))
    BY <1>4, <1>5, WritesTail
  <2>2. Queues' = [Queues EXCEPT ![u] = Writes(Tail(queue[u]))]
    BY <1>1, <1>2, <1>4, <1>5, QueuesMove
  <2>3. Queues[u] = Writes(queue[u])
    BY <1>5 DEF Queues
  <2> QED
    BY <2>1, <2>2, <2>3
<1>7. /\ w \in Connection /\ w.user = wire.user /\ w.refused = wire.refused
      /\ w.acks = Tail(wire.acks)
  <2>1. Tail(wire.acks) \in Seq(Write)
    BY <1>1, <1>5, Headless
  <2> QED
    BY <1>5, <2>1 DEF Connection
<1> HIDE DEF w
<1>8. wire'.user = u /\ wire'.acks = Tail(wire.acks) /\ wire'.refused = wire.refused
  BY <1>1, <1>3, <1>7 DEF FillWritePipeline, Connection
<1>9. /\ Len(wire.acks) \in Nat /\ Len(wire.acks) > 0
      /\ Len(Tail(wire.acks)) = Len(wire.acks) - 1
  BY <1>1, <1>5, Headless
<1>10. Done' = [Done EXCEPT ![u] = @ - 1] /\ Done[u] > 0
  <2>1. Len(wire'.acks) = Len(wire.acks) - 1
    BY <1>8, <1>9
  <2>2. Done' = [v \in User |-> IF v = u THEN Len(wire.acks) - 1 ELSE 0]
    BY <1>8, <2>1 DEF Done
  <2>3. [Done EXCEPT ![u] = @ - 1] = [v \in User |-> IF v = u THEN Len(wire.acks) - 1 ELSE 0]
    BY <1>3, <1>5 DEF Done
  <2>4. Done[u] = Len(wire.acks)
    BY <1>3, <1>5 DEF Done
  <2> QED
    BY <1>9, <2>2, <2>3, <2>4
<1>11. Refusals' = Refusals
  BY <1>3, <1>8 DEF Refusals
<1> QED
  BY <1>1, <1>6, <1>10, <1>11 DEF Promise!Settle, Queues, Done, Refusals, history

LEMMA HandleWriteErrorImplements ==
    ASSUME IInv, NEW u \in User, u = currentUser, HandleWriteError
    PROVE  Promise!Drop(u)
<1>1. /\ wire.open /\ wire.refused /\ wire.acks = << >>
      /\ NotifyUser(Head(pipeline))
      /\ queue' = [queue EXCEPT ![u] = WithoutBatch(Head(pipeline))]
      /\ rejected' = rejected \cup {Head(pipeline).write}
      /\ FillWritePipeline(Tail(pipeline), WithoutBatch(Head(pipeline)),
                           Closed(stream, "Initial"), Ended(wire), tokens)
      /\ UNCHANGED <<currentUser, nextBatchId, log, added>>
  BY DEF HandleWriteError
<1>2. PipelineInv /\ TypeOK
  BY DEF IInv, PipelineInv
<1>3. wire.user = u /\ pipeline # << >>
  BY <1>1, <1>2, OpenWire DEF PipelineInv, WireIsHead
<1>4. /\ queue[u] # << >> /\ WithoutBatch(Head(pipeline)) = Tail(queue[u])
      /\ Head(pipeline) = Head(queue[u])
  BY <1>1, <1>2, <1>3, HeadLeaves
<1>5. u \in User /\ queue[u] \in Seq(Batch) /\ wire \in Connection /\ stream \in Stream
  BY <1>2, StateTypes
<1>6. /\ Writes(Tail(queue[u])) = Tail(Writes(queue[u]))
      /\ Head(Writes(queue[u])) = Head(queue[u]).write
  BY <1>4, <1>5, WritesTail
<1>7. Queues' = [Queues EXCEPT ![u] = Tail(@)] /\ Queues[u] = Writes(queue[u])
  <2>1. Queues' = [Queues EXCEPT ![u] = Writes(Tail(queue[u]))]
    BY <1>1, <1>2, <1>4, <1>5, QueuesMove
  <2>2. Queues[u] = Writes(queue[u])
    BY <1>5 DEF Queues
  <2> QED
    BY <1>6, <2>1, <2>2
<1>8. wire'.user = u /\ wire'.acks = << >> /\ wire'.refused = FALSE
  <2>1. ~ (Closed(stream, "Initial").state = "Open")
    BY <1>5, ClosedType
  <2>2. wire' = Ended(wire)
    BY <1>1, <2>1 DEF FillWritePipeline
  <2> QED
    BY <1>1, <1>3, <1>5, <2>2 DEF Ended, Connection
<1>9. rejected' = rejected \cup {Head(Queues[u])}
  BY <1>1, <1>4, <1>6, <1>7
<1> QED
  BY <1>1, <1>3, <1>5, <1>7, <1>8, <1>9 DEF Promise!Drop, Queues

\* A handshake takes over from the connection that is given up.
LEMMA HandshakeImplements ==
    ASSUME IInv, NEW u \in User, u = wire.user, OnWriteStreamHandshakeComplete
    PROVE  Promise!Forget(u)
<1>1. /\ wire'.acks = << >> /\ wire'.refused = FALSE
      /\ UNCHANGED <<queue, log, history>>
  BY DEF OnWriteStreamHandshakeComplete, stable
<1>2. Len(wire'.acks) = 0
  BY <1>1
<1>3. u \in User
  BY StateTypes DEF IInv
<1>4. Done' = [Done EXCEPT ![u] = 0]
  <2>1. Done' = [v \in User |-> 0]
    BY <1>2 DEF Done
  <2>2. [Done EXCEPT ![u] = 0] = [v \in User |-> 0]
    BY DEF Done
  <2> QED
    BY <2>1, <2>2
<1>5. Refusals' = [Refusals EXCEPT ![u] = FALSE]
  <2>1. Refusals' = [v \in User |-> FALSE]
    BY <1>1 DEF Refusals
  <2>2. [Refusals EXCEPT ![u] = FALSE] = [v \in User |-> FALSE]
    BY DEF Refusals
  <2> QED
    BY <2>1, <2>2
<1> QED
  BY <1>1, <1>3, <1>4, <1>5 DEF Promise!Forget, Done, Refusals, history

\* The server takes the next write of the connection's user.
LEMMA ServerImplements ==
    ASSUME IInv, NEW u \in User, u = wire.user, Commit \/ Refuse
    PROVE  Promise!CommitNext(u) \/ Promise!RefuseNext(u)
<1>1. /\ wire.sent # << >> /\ wire.refused = FALSE
      /\ UNCHANGED <<queue, history>>
  BY StateTypes DEF IInv, Commit, Refuse, Connection
<1>2. /\ u \in User /\ queue[u] \in Seq(Batch) /\ wire \in Connection
      /\ wire.acks \in Seq(Write) /\ wire.sent \in Seq(Write)
  BY StateTypes DEF IInv
<1>3. PICK n \in Nat : Carries(wire.acks, wire.sent, queue[u], n)
  BY DEF IInv, WireIsHead
<1>4. /\ Head(wire.sent) \in Write /\ Head(wire.sent) = wire.sent[1]
      /\ Len(wire.sent) \in Nat /\ Len(wire.sent) # 0
  BY <1>1, <1>2, Headless
<1>5. /\ Writes(queue[u]) \in Seq(Write) /\ Len(Writes(queue[u])) = Len(queue[u])
      /\ \A i \in 1 .. Len(queue[u]) : Writes(queue[u])[i] = queue[u][i].write
  BY <1>2, WritesOfBatches
<1> DEFINE d == Len(wire.acks)
<1>6. /\ d \in Nat /\ d < Len(queue[u])
      /\ Head(wire.sent) = queue[u][d + 1].write
  <2>1. d + Len(wire.sent) = n /\ n <= Len(queue[u])
    BY <1>3 DEF Carries
  <2>2. d \in Nat /\ Len(queue[u]) \in Nat
    BY <1>2
  <2>3. d < Len(queue[u])
    <3> DEFINE x == Len(wire.sent)
    <3> DEFINE y == Len(queue[u])
    <3>1. x \in Nat /\ x # 0 /\ y \in Nat /\ d + x = n /\ n <= y
      BY <1>4, <2>1, <2>2
    <3> HIDE DEF d, x, y
    <3>2. d < y
      BY <2>2, <3>1
    <3> QED
      BY <3>2 DEF y
  <2>4. 1 \in 1 .. Len(wire.sent)
    BY <1>4
  <2>5. wire.sent[1] = queue[u][d + 1].write
    BY <1>3, <2>4 DEF Carries
  <2> QED
    BY <1>4, <2>2, <2>3, <2>5
<1>7. Queues[u] = Writes(queue[u])
  BY <1>2 DEF Queues
<1>8. d < Len(Queues[u]) /\ Head(wire.sent) = Queues[u][d + 1]
  <2>1. d + 1 \in 1 .. Len(queue[u])
    BY <1>2, <1>6
  <2> QED
    BY <1>5, <1>6, <1>7, <2>1
<1>9. CASE Commit
  <2>1. /\ log' = Append(log, [write |-> Head(wire.sent), as |-> u])
        /\ wire'.user = u /\ wire'.refused = wire.refused
        /\ wire'.acks = Append(wire.acks, Head(wire.sent))
    BY <1>2, <1>9 DEF Commit, Connection
  <2>2. Len(wire'.acks) = d + 1
    BY <1>2, <1>4, <2>1, Appended
  <2>3. Promise!CommitNext(u)
    BY <1>1, <1>2, <1>6, <1>8, <2>1, <2>2 DEF Promise!CommitNext, Queues, history
  <2> QED
    BY <2>3
<1>10. CASE Refuse
  <2>1. /\ wire'.user = u /\ wire'.refused = TRUE /\ wire'.acks = wire.acks
        /\ UNCHANGED log
    BY <1>2, <1>10 DEF Refuse, Connection
  <2>2. Promise!RefuseNext(u)
    BY <1>1, <1>2, <1>8, <2>1 DEF Promise!RefuseNext, Queues, history
  <2> QED
    BY <2>2
<1> QED
  BY <1>9, <1>10

\* Everything else is the client's own affair.
LEMMA OthersImplement ==
    ASSUME IInv,
           \/ HandleCredentialChange \/ ResumeStartWithCredentials \/ IdleTimeout
           \/ BackoffTimeout \/ AuthStep \/ SignIn \/ AppWrites \/ OnWriteStreamClose
           \/ OnConnectivityChange \/ Restart
    PROVE  UNCHANGED Promise!vars
<1>1. wire \in Connection
  BY StateTypes DEF IInv
<1>2. UNCHANGED <<queue, log, history>>
  BY DEF HandleCredentialChange, ResumeStartWithCredentials, IdleTimeout, BackoffTimeout,
     AuthStep, TakeUser, FetchToken, HearOfUser, HearOfToken, SignIn, AppWrites,
     OnWriteStreamClose, OnConnectivityChange, Restart, stable, client
<1>3. wire' = wire \/ wire' = Hangup(wire)
  <2>1. ASSUME NEW q, RestartNetwork(q)
        PROVE  wire' = Hangup(wire)
    <3>1. stream \in Stream
      BY StateTypes DEF IInv
    <3>2. StopAndInhibitBackoff(stream).state # "Open"
      BY <3>1, ClosedType DEF StopAndInhibitBackoff, Stream
    <3> QED
      BY <2>1, <3>2 DEF RestartNetwork, FillWritePipeline
  <2>2. CloseOnError => wire' = Hangup(wire)
    BY DEF CloseOnError
  <2>3. CASE HandleCredentialChange \/ OnConnectivityChange
    BY <2>1, <2>3 DEF HandleCredentialChange, OnConnectivityChange
  <2>4. CASE ResumeStartWithCredentials \/ OnWriteStreamClose
    BY <2>2, <2>4 DEF ResumeStartWithCredentials, OnWriteStreamClose
  <2>5. CASE \/ IdleTimeout \/ BackoffTimeout \/ AuthStep \/ SignIn \/ AppWrites
             \/ Restart
    BY <2>5 DEF IdleTimeout, BackoffTimeout, AuthStep, TakeUser, FetchToken, HearOfUser,
       HearOfToken, SignIn, AppWrites, Restart, client
  <2> QED
    BY <2>3, <2>4, <2>5
<1>4. wire'.user = wire.user /\ wire'.acks = wire.acks /\ wire'.refused = wire.refused
  BY <1>1, <1>3 DEF Hangup, Connection
<1> QED
  BY <1>2, <1>4, Stutters

\* The client keeps DocumentStore's promise: whatever is lost, retried, crashes
\* or changes hands, writes are committed in the order of the calls with the
\* credentials of the user who made them, and none leaves a queue but for an
\* answer about itself (RemoteStore, SyncEngine and LocalStore).
THEOREM Implements == Spec => Refines
<1>1. ASSUME Init
      PROVE  Promise!Init
  BY <1>1, InitImplements
<1>2. ASSUME IInv, IInv', [Next]_vars
      PROVE  [Promise!Next]_(Promise!vars)
  <2>1. PICK u \in User, v \in User : u = currentUser /\ v = wire.user
    BY <1>2, StateTypes DEF IInv
  <2>2. CASE WriteMutations
    <3>1. Promise!Add(u)
      BY <1>2, <2>1, <2>2, WriteMutationsImplements
    <3> QED
      BY <3>1 DEF Promise!Next
  <2>3. CASE OnWriteStreamMutationResult
    <3>1. Promise!Settle(u)
      BY <1>2, <2>1, <2>3, MutationResultImplements
    <3> QED
      BY <3>1 DEF Promise!Next
  <2>4. CASE HandleWriteError
    <3>1. Promise!Drop(u)
      BY <1>2, <2>1, <2>4, HandleWriteErrorImplements
    <3> QED
      BY <3>1 DEF Promise!Next
  <2>5. CASE OnWriteStreamHandshakeComplete
    <3>1. Promise!Forget(v)
      BY <1>2, <2>1, <2>5, HandshakeImplements
    <3> QED
      BY <3>1 DEF Promise!Next
  <2>6. CASE Commit \/ Refuse
    <3>1. Promise!CommitNext(v) \/ Promise!RefuseNext(v)
      BY <1>2, <2>1, <2>6, ServerImplements
    <3> QED
      BY <3>1 DEF Promise!Next
  <2>7. CASE \/ HandleCredentialChange \/ ResumeStartWithCredentials \/ IdleTimeout
             \/ BackoffTimeout \/ AuthStep \/ SignIn \/ AppWrites \/ OnWriteStreamClose
             \/ OnConnectivityChange \/ Restart
    BY <1>2, <2>7, OthersImplement
  <2>8. CASE UNCHANGED vars
    BY <2>8, Stutters DEF vars, history
  <2> QED
    BY <1>2, <2>2, <2>3, <2>4, <2>5, <2>6, <2>7, <2>8 DEF Next, WorkerStep
<1> QED
  BY <1>1, <1>2, Inductive, PTL DEF Spec, Refines, Promise!Spec
=============================================================================
