--------------------------- MODULE FirestoreWrites ---------------------------
(***************************************************************************)
(* How the Firestore client of one device gets writes to the server.       *)
(*                                                                         *)
(* The client works on three serial queues.  Auth's queue changes the      *)
(* user; the main queue delivers that news, and tokens, to the credentials *)
(* provider; the worker queue runs everything else: the app's writes, the  *)
(* change of user, the stream's events and its timers.  An action is one   *)
(* item of one of these queues, or a step of the server.                   *)
(*                                                                         *)
(* A user's writes wait in a queue on disk (LevelDbMutationQueue).  The    *)
(* head of the current user's queue is copied into the write pipeline      *)
(* (RemoteStore) and sent over the write stream, which is opened with a    *)
(* token of the current user.  A stream that breaks is opened again after  *)
(* a backoff, and the whole pipeline is sent again.                        *)
(***************************************************************************)
EXTENDS Naturals, Sequences, FiniteSets

CONSTANTS
    User,              \* who may be signed in, the unauthenticated user included
    MaxPendingWrites,  \* kMaxPendingWrites, the length of the pipeline
    MaxWrites,         \* bound: writes the app makes
    MaxSignIns,        \* bound: changes of Auth's user or of its token
    MaxFaults,         \* bound: failures of the network and of token requests
    MaxCrashes         \* bound: ends of the process

ASSUME FirestoreWritesAssumption ==
    /\ MaxPendingWrites \in Nat \ {0}
    /\ MaxWrites \in Nat /\ MaxSignIns \in Nat
    /\ MaxFaults \in Nat /\ MaxCrashes \in Nat

VARIABLES
    queue,        \* disk: queue[u], the batches of u's mutation queue
    authUser,     \* disk: the user of FIRAuth, kept in the keychain
    provider,     \* the credentials provider: current_user and token_counter
    main,         \* the main queue: news of users and tokens, in order
    tokens,       \* the token requests that Auth has not answered
    worker,       \* the worker queue: credential changes, tokens, writes
    currentUser,  \* SyncEngine::current_user_
    nextBatchId,  \* next_batch_id_ of the current user's mutation queue
    callbacks,    \* mutation_callbacks_
    pipeline,     \* write_pipeline_
    stream,       \* write_stream_
    wire,         \* the connection on which the server takes writes
    log,          \* the server's commits
    added,        \* history: the writes ever queued
    rejected,     \* history: the writes dropped as refused
    issued, signIns, faults, crashes    \* counters, bounded

auth      == <<authUser, provider, main>>
history   == <<added, rejected>>
counters  == <<issued, signIns, faults, crashes>>
vars      == <<queue, auth, tokens, worker, currentUser, nextBatchId, callbacks,
               pipeline, stream, wire, log, history, counters>>

Write     == [no : 1 .. MaxWrites, by : User]
Batch     == [id : Nat \ {0}, write : Write]
Started   == {"Starting", "Backoff", "Open"}
Item      == [kind : {"change"}, user : User]
             \cup [kind : {"token"}, closes : Nat, counter : Nat, user : User,
                   ok : BOOLEAN]
Task      == [kind : {"change"}, user : User]
             \cup [kind : {"resume"}, closes : Nat, user : User, ok : BOOLEAN]
             \cup [kind : {"write"}, write : Write]
Stream    == [state : {"Initial", "Error"} \cup Started, closes : Nat, idle : BOOLEAN,
              handshake : BOOLEAN, user : User]
Connection == [user : User, open : BOOLEAN, sent : Seq(Write), acks : Seq(Write),
               refused : BOOLEAN]
Token     == [closes : Nat, counter : Nat, stage : {"asked", "fetching"}, user : User]

TypeOK ==
    /\ queue \in [User -> Seq(Batch)]
    /\ authUser \in User
    /\ provider \in [user : User, counter : Nat]
    /\ main \in Seq(Item)
    /\ tokens \in SUBSET Token
    /\ worker \in Seq(Task)
    /\ currentUser \in User
    /\ nextBatchId \in Nat \ {0}
    /\ \A u \in User : callbacks[u] \in [DOMAIN callbacks[u] -> Write]
    /\ pipeline \in Seq(Batch)
    /\ stream \in Stream
    /\ wire \in Connection
    /\ log \in Seq([write : Write, as : User])
    /\ added \in SUBSET Write
    /\ rejected \in SUBSET Write
    /\ issued \in 0 .. MaxWrites /\ signIns \in 0 .. MaxSignIns
    /\ faults \in 0 .. MaxFaults /\ crashes \in 0 .. MaxCrashes

\* A client that has nothing to do yet, for a user who is signed in.
Init ==
    /\ queue = [u \in User |-> << >>]
    /\ authUser \in User
    /\ provider = [user |-> authUser, counter |-> 0]
    /\ main = << >>
    /\ tokens = {}
    /\ worker = << >>
    /\ currentUser = authUser
    /\ nextBatchId = 1
    /\ callbacks = [u \in User |-> << >>]
    /\ pipeline = << >>
    /\ stream = [state |-> "Initial", closes |-> 0, idle |-> FALSE,
                 handshake |-> FALSE, user |-> authUser]
    /\ wire = [user |-> authUser, open |-> FALSE, sent |-> << >>, acks |-> << >>,
               refused |-> FALSE]
    /\ log = << >>
    /\ added = {} /\ rejected = {}
    /\ issued = 0 /\ signIns = 0 /\ faults = 0 /\ crashes = 0

-----------------------------------------------------------------------------
(* The stream.                                                             *)

IsStarted(s) == s.state \in Started

\* (mutant) A stream that has failed stays so.
StartUnlessFailed(s) == [s EXCEPT !.state = IF @ = "Error" THEN "Error" ELSE "Starting"]

\* Start: Error leads to Backoff, Initial to a request for credentials.
Start(s) == [s EXCEPT !.state = IF @ = "Error" THEN "Backoff" ELSE "Starting"]

\* The request that RequestCredentials makes, noting close_count_ and the
\* provider's token_counter.
Ask(closes, p) ==
    [closes |-> closes, counter |-> p.counter, stage |-> "asked", user |-> p.user]

\* Close: the timers are cancelled and close_count_ outdates the requests.
Closed(s, state) ==
    [s EXCEPT !.state = state, !.idle = FALSE, !.handshake = FALSE, !.closes = @ + 1]

\* Stop, then InhibitBackoff.
StopAndInhibitBackoff(s) ==
    IF IsStarted(s) THEN Closed(s, "Initial") ELSE [s EXCEPT !.state = "Initial"]

\* The server may still work on what a closed connection has brought it.
Hangup(w) == [w EXCEPT !.open = FALSE]

\* A connection that the server has closed brings nothing any more.
Ended(w) == [w EXCEPT !.open = FALSE, !.sent = << >>, !.refused = FALSE]

-----------------------------------------------------------------------------
(* RemoteStore: the pipeline.                                              *)

LastId(p) == IF p = << >> THEN 0 ELSE p[Len(p)].id

\* (mutant) The search for the next batch starts with the last one.
NextBatchesFromLast(p, q) ==
    LET start == CHOOSE i \in 1 .. Len(q) + 1 :
                     /\ \A j \in 1 .. i - 1 : q[j].id < LastId(p)
                     /\ i <= Len(q) => q[i].id >= LastId(p)
        room  == MaxPendingWrites - Len(p)
    IN  SubSeq(q, start, IF start + room <= Len(q) THEN start + room - 1 ELSE Len(q))

\* The batches that FillWritePipeline adds to pipeline p from queue q: those
\* after the place where NextMutationBatchAfterBatchId finds the first one past
\* p's last, as many as there is room for.
NextBatches(p, q) ==
    LET start == CHOOSE i \in 1 .. Len(q) + 1 :
                     /\ \A j \in 1 .. i - 1 : q[j].id <= LastId(p)
                     /\ i <= Len(q) => q[i].id > LastId(p)
        room  == MaxPendingWrites - Len(p)
    IN  SubSeq(q, start, IF start + room <= Len(q) THEN start + room - 1 ELSE Len(q))

Writes(batches) == [i \in DOMAIN batches |-> batches[i].write]

\* (mutant) Sending does not cancel the idle timer.
IdleAfterFillingKept(s, p, fresh) ==
    s.state = "Open" /\ (s.idle \/ p \o fresh = << >>)

\* MarkIdle, when an open stream has nothing left; Write cancels the timer.
IdleAfterFilling(s, p, fresh) ==
    /\ s.state = "Open"
    /\ fresh # << >> => ~ s.handshake
    /\ s.idle \/ p \o fresh = << >>

\* FillWritePipeline, from pipeline p, queue q, stream s, connection w and token
\* requests t: new batches are sent if the stream takes writes, and a stream
\* that is not started is.
FillWritePipeline(p, q, s, w, t) ==
    LET fresh  == NextBatches(p, q)
        starts == ~ IsStarted(s) /\ p \o fresh # << >>
    IN  /\ pipeline' = p \o fresh
        /\ stream' = IF starts THEN Start(s)
                     ELSE [s EXCEPT !.idle = IdleAfterFilling(s, p, fresh)]
        /\ tokens' = IF starts /\ s.state = "Initial"
                     THEN t \cup {Ask(s.closes, provider)} ELSE t
        /\ wire' = IF s.state = "Open" /\ s.handshake
                   THEN [w EXCEPT !.sent = @ \o Writes(fresh)] ELSE w

\* (mutant) A stream that has nothing to send is not stopped.
RestartNetworkIfBusy(q) ==
    LET idle == pipeline = << >>
    IN  FillWritePipeline(<< >>, q, IF idle THEN stream ELSE StopAndInhibitBackoff(stream),
                          IF idle THEN wire ELSE Hangup(wire), tokens)

\* RestartNetwork, with queue q.
RestartNetwork(q) ==
    FillWritePipeline(<< >>, q, StopAndInhibitBackoff(stream), Hangup(wire), tokens)

\* OnWriteStreamClose after an error that says nothing of the head: the stream
\* is opened again, after a backoff, if the pipeline needs it.
CloseOnError ==
    LET s == Closed(stream, "Error")
    IN  /\ stream' = IF pipeline # << >> THEN Start(s) ELSE s
        /\ wire' = Hangup(wire)
        /\ UNCHANGED <<pipeline, tokens>>

-----------------------------------------------------------------------------
(* SyncEngine and LocalStore.                                              *)

\* (mutant) The callback is called and stays.
NotifyUserKeeping(b) == UNCHANGED callbacks

\* NotifyUser: the callback of batch b, if it is still there, is called once.
NotifyUser(b) ==
    callbacks' = [callbacks EXCEPT ![currentUser] =
                    [i \in DOMAIN @ \ {b.id} |-> @[i]]]

\* RemoveMutationBatch: the batch is found by its id.
WithoutBatch(b) ==
    LET q == queue[currentUser]
        i == CHOOSE j \in DOMAIN q : q[j].id = b.id
    IN  SubSeq(q, 1, i - 1) \o SubSeq(q, i + 1, Len(q))

BatchIds == UNION { { queue[u][i].id : i \in DOMAIN queue[u] } : u \in User }

\* (mutant) The highest batch id itself.
LoadHighestBatchIdFromDb ==
    CHOOSE n \in {0} \cup BatchIds : \A i \in BatchIds : i <= n

\* LoadNextBatchIdFromDb: past every batch of every user.
LoadNextBatchIdFromDb ==
    CHOOSE n \in {1} \cup { i + 1 : i \in BatchIds } : \A i \in BatchIds : i < n

\* WriteMutations, with WriteLocally and AddMutationBatch.
WriteMutations ==
    /\ worker # << >> /\ Head(worker).kind = "write"
    /\ worker' = Tail(worker)
    /\ LET w == Head(worker).write
           b == [id |-> nextBatchId, write |-> w]
           q == Append(queue[currentUser], b)
       IN  /\ queue' = [queue EXCEPT ![currentUser] = q]
           /\ callbacks' = [callbacks EXCEPT ![currentUser] =
                              IF b.id \in DOMAIN @ THEN @
                              ELSE [i \in DOMAIN @ \cup {b.id} |->
                                        IF i = b.id THEN w ELSE @[i]]]
           /\ added' = added \cup {w}
           /\ FillWritePipeline(pipeline, q, stream, wire, tokens)
    /\ nextBatchId' = nextBatchId + 1
    /\ UNCHANGED <<auth, currentUser, log, rejected, counters>>

\* HandleCredentialChange: another user's queue takes over; the same user with a
\* new token only restarts the network.
HandleCredentialChange ==
    /\ worker # << >> /\ Head(worker).kind = "change"
    /\ worker' = Tail(worker)
    /\ currentUser' = Head(worker).user
    /\ nextBatchId' = IF currentUser' # currentUser THEN LoadNextBatchIdFromDb
                      ELSE nextBatchId
    /\ RestartNetwork(queue[currentUser'])
    /\ UNCHANGED <<queue, auth, callbacks, log, history, counters>>

\* The monitor reports a network that is reachable again.
OnConnectivityChange ==
    /\ faults < MaxFaults
    /\ faults' = faults + 1
    /\ RestartNetwork(queue[currentUser])
    /\ UNCHANGED <<queue, auth, worker, currentUser, nextBatchId, callbacks, log,
                   history, issued, signIns, crashes>>

-----------------------------------------------------------------------------
(* The write stream's events.                                              *)

stable == <<queue, auth, currentUser, nextBatchId, callbacks, log, history>>

\* (mutant) The close count is not compared.
IsWantedAlways(task) == TRUE

\* The close count tells whether the stream still waits for this token.
IsWanted(task) == task.closes = stream.closes

\* ResumeStartWithCredentials: the stream is open at once, and the handshake is
\* on its way; without a token the stream ends in an error.
ResumeStartWithCredentials ==
    /\ worker # << >> /\ Head(worker).kind = "resume"
    /\ worker' = Tail(worker)
    /\ LET task == Head(worker)
       IN  \/ /\ ~ IsWanted(task)
              /\ UNCHANGED <<pipeline, stream, tokens, wire>>
           \/ /\ IsWanted(task) /\ task.ok
              /\ stream' = [stream EXCEPT !.state = "Open", !.user = task.user,
                                          !.idle = FALSE]
              /\ UNCHANGED <<pipeline, tokens, wire>>
           \/ /\ IsWanted(task) /\ ~ task.ok
              /\ CloseOnError
    /\ UNCHANGED <<stable, counters>>

\* OnWriteStreamHandshakeComplete: the whole pipeline is sent.  The server
\* answers a handshake when it is through with earlier connections.
OnWriteStreamHandshakeComplete ==
    /\ stream.state = "Open" /\ ~ stream.handshake
    /\ stream' = [stream EXCEPT !.handshake = TRUE,
                                !.idle = @ /\ pipeline = << >>]
    /\ wire' = [user |-> stream.user, open |-> TRUE, sent |-> Writes(pipeline),
                acks |-> << >>, refused |-> FALSE]
    /\ UNCHANGED <<stable, counters, worker, pipeline, tokens>>

\* OnWriteStreamMutationResult and HandleSuccessfulWrite: the answer is for the
\* head of the pipeline, which leaves the queue as well.
OnWriteStreamMutationResult ==
    /\ wire.open /\ wire.acks # << >>
    /\ LET b == Head(pipeline)
       IN  /\ NotifyUser(b)
           /\ queue' = [queue EXCEPT ![currentUser] = WithoutBatch(b)]
           /\ FillWritePipeline(Tail(pipeline), WithoutBatch(b), stream,
                                [wire EXCEPT !.acks = Tail(@)], tokens)
    /\ UNCHANGED <<auth, worker, currentUser, nextBatchId, log, history, counters>>

\* OnWriteStreamClose with a permanent error: HandleWriteError drops the head,
\* which is to blame, and the stream starts again without a backoff.
HandleWriteError ==
    /\ wire.open /\ wire.refused /\ wire.acks = << >>
    /\ LET b == Head(pipeline)
       IN  /\ NotifyUser(b)
           /\ queue' = [queue EXCEPT ![currentUser] = WithoutBatch(b)]
           /\ rejected' = rejected \cup {b.write}
           /\ FillWritePipeline(Tail(pipeline), WithoutBatch(b),
                                Closed(stream, "Initial"), Ended(wire), tokens)
    /\ UNCHANGED <<auth, worker, currentUser, nextBatchId, log, added, counters>>

\* A transient error: what the server has answered and is not read is lost.
OnWriteStreamClose ==
    /\ stream.state = "Open"
    /\ faults < MaxFaults
    /\ faults' = faults + 1
    /\ CloseOnError
    /\ UNCHANGED <<stable, worker, issued, signIns, crashes>>

\* The timer that MarkIdle has set: Stop.
IdleTimeout ==
    /\ stream.idle
    /\ stream' = Closed(stream, "Initial")
    /\ wire' = Hangup(wire)
    /\ UNCHANGED <<stable, counters, worker, pipeline, tokens>>

\* The timer of BackoffAndTryRestarting.
BackoffTimeout ==
    /\ stream.state = "Backoff"
    /\ stream' = [stream EXCEPT !.state = "Starting"]
    /\ tokens' = tokens \cup {Ask(stream.closes, provider)}
    /\ UNCHANGED <<stable, counters, worker, pipeline, wire>>

-----------------------------------------------------------------------------
(* Auth and the credentials provider.                                      *)

client == <<queue, currentUser, nextBatchId, callbacks, pipeline, stream, wire, log,
            history>>

\* On Auth's queue the user changes, or gets a new token, and the main queue is
\* given the news.
SignIn ==
    /\ signIns < MaxSignIns
    /\ signIns' = signIns + 1
    /\ authUser' \in User
    /\ main' = Append(main, [kind |-> "change", user |-> authUser'])
    /\ UNCHANGED <<client, provider, tokens, worker, issued, faults, crashes>>

\* On Auth's queue a request for a token takes the user it finds.
TakeUser ==
    \E t \in tokens :
        /\ t.stage = "asked"
        /\ tokens' = (tokens \ {t}) \cup {[t EXCEPT !.stage = "fetching", !.user = authUser]}
        /\ UNCHANGED <<client, auth, worker, counters>>

\* Auth has that user's token, or fails; the main queue gets the answer.
FetchToken ==
    \E t \in tokens, ok \in BOOLEAN :
        /\ t.stage = "fetching"
        /\ ok \/ faults < MaxFaults
        /\ faults' = IF ok THEN faults ELSE faults + 1
        /\ tokens' = tokens \ {t}
        /\ main' = Append(main, [kind |-> "token", closes |-> t.closes,
                                 counter |-> t.counter, user |-> t.user, ok |-> ok])
        /\ UNCHANGED <<client, authUser, provider, worker, issued, signIns, crashes>>

\* (mutant) The change of user overtakes the writes on the worker queue.
HearOfUserFirst ==
    /\ main # << >> /\ Head(main).kind = "change"
    /\ main' = Tail(main)
    /\ provider' = [user |-> Head(main).user, counter |-> provider.counter + 1]
    /\ worker' = << [kind |-> "change", user |-> Head(main).user] >> \o worker
    /\ UNCHANGED <<client, authUser, tokens, counters>>

\* The provider hears of a user: token_counter_ moves, the worker is told.
HearOfUser ==
    /\ main # << >> /\ Head(main).kind = "change"
    /\ main' = Tail(main)
    /\ provider' = [user |-> Head(main).user, counter |-> provider.counter + 1]
    /\ worker' = Append(worker, [kind |-> "change", user |-> Head(main).user])
    /\ UNCHANGED <<client, authUser, tokens, counters>>

\* The counter has not moved since the token was asked for.
IsCurrent(item) == item.counter = provider.counter

\* get_token_callback: the token goes to the worker, or another is asked for.
HearOfToken ==
    /\ main # << >> /\ Head(main).kind = "token"
    /\ main' = Tail(main)
    /\ LET item == Head(main)
       IN  \/ /\ IsCurrent(item)
              /\ worker' = Append(worker, [kind |-> "resume", closes |-> item.closes,
                                           user |-> item.user, ok |-> item.ok])
              /\ UNCHANGED tokens
           \/ /\ ~ IsCurrent(item)
              /\ tokens' = tokens \cup {Ask(item.closes, provider)}
              /\ UNCHANGED worker
    /\ UNCHANGED <<client, authUser, provider, counters>>

\* The app writes, on the main thread.
AppWrites ==
    /\ issued < MaxWrites
    /\ issued' = issued + 1
    /\ worker' = Append(worker, [kind |-> "write",
                                 write |-> [no |-> issued', by |-> provider.user]])
    /\ UNCHANGED <<client, auth, tokens, signIns, faults, crashes>>

\* The process ends and starts anew: the queues and Auth's user are on disk.
Restart ==
    /\ crashes < MaxCrashes
    /\ crashes' = crashes + 1
    /\ provider' = [user |-> authUser, counter |-> 0]
    /\ main' = << >>
    /\ worker' = << >>
    /\ currentUser' = authUser
    /\ nextBatchId' = LoadNextBatchIdFromDb
    /\ callbacks' = [u \in User |-> << >>]
    /\ LET fresh == NextBatches(<< >>, queue[authUser])
           s     == [state |-> "Initial", closes |-> 0, idle |-> FALSE,
                     handshake |-> FALSE, user |-> authUser]
       IN  /\ pipeline' = fresh
           /\ stream' = IF fresh # << >> THEN Start(s) ELSE s
           /\ tokens' = IF fresh # << >> THEN {Ask(0, provider')} ELSE {}
           /\ wire' = Hangup(wire)
    /\ UNCHANGED <<queue, authUser, log, history, issued, signIns, faults>>

-----------------------------------------------------------------------------
(* The server (external): it takes the writes of a connection in order, and *)
(* stops at one that it refuses.                                            *)

Commit ==
    /\ wire.sent # << >> /\ ~ wire.refused
    /\ log' = Append(log, [write |-> Head(wire.sent), as |-> wire.user])
    /\ wire' = [wire EXCEPT !.sent = Tail(@), !.acks = Append(@, Head(wire.sent))]
    /\ UNCHANGED <<queue, auth, tokens, worker, currentUser, nextBatchId, callbacks,
                   pipeline, stream, history, counters>>

Refuse ==
    /\ wire.sent # << >> /\ ~ wire.refused
    /\ wire' = [wire EXCEPT !.refused = TRUE]
    /\ UNCHANGED <<queue, auth, tokens, worker, currentUser, nextBatchId, callbacks,
                   pipeline, stream, log, history, counters>>

-----------------------------------------------------------------------------
WorkerStep ==
    \/ WriteMutations
    \/ HandleCredentialChange
    \/ ResumeStartWithCredentials
    \/ OnWriteStreamHandshakeComplete
    \/ OnWriteStreamMutationResult
    \/ HandleWriteError
    \/ IdleTimeout
    \/ BackoffTimeout

AuthStep == TakeUser \/ FetchToken \/ HearOfUser \/ HearOfToken

Next ==
    \/ WorkerStep
    \/ AuthStep
    \/ Commit \/ Refuse
    \/ SignIn \/ AppWrites
    \/ OnWriteStreamClose \/ OnConnectivityChange \/ Restart

Spec == Init /\ [][Next]_vars

\* The serial queues run their items, timers fire, Auth and the server answer.
\* Nobody has to write, to sign in, to fail or to crash.
Fairness ==
    /\ WF_vars(WriteMutations \/ HandleCredentialChange \/ ResumeStartWithCredentials)
    /\ WF_vars(OnWriteStreamHandshakeComplete)
    /\ WF_vars(OnWriteStreamMutationResult)
    /\ WF_vars(HandleWriteError)
    /\ WF_vars(BackoffTimeout)
    /\ WF_vars(HearOfUser \/ HearOfToken)
    /\ WF_vars(TakeUser) /\ WF_vars(FetchToken)
    /\ WF_vars(Commit \/ Refuse)

FairSpec == Spec /\ Fairness
-----------------------------------------------------------------------------
\* What DocumentStore promises, of this client: the server has committed what is
\* answered, or will be, on the connection it works on.
Promise == INSTANCE DocumentStore WITH
    WriteNo <- 1 .. MaxWrites,
    queue   <- [u \in User |-> Writes(queue[u])],
    done    <- [u \in User |-> IF u = wire.user THEN Len(wire.acks) ELSE 0],
    refused <- [u \in User |-> u = wire.user /\ wire.refused]

\* The client keeps DocumentStore's promise, through failures, restarts and
\* changes of user: writes are committed in the order of the calls, with the
\* credentials of the user who made them, and none leaves a queue but for an
\* answer about itself (RemoteStore, lines 370-527).
Refines == Promise!Spec

\* The write stream never works under one user's token on another's queue,
\* whatever order users change, tokens arrive and streams close in
\* (RequestCredentials, GetToken and HandleCredentialChange).
StreamOfUser == stream.state = "Open" => stream.user = currentUser

\* A token that the worker takes finds the stream waiting for it, though tokens
\* of streams that were stopped, failed or restarted meanwhile are still on
\* their way ("State should still be 'Starting'", stream.cc:171).
TokenFindsStarting ==
    (worker # << >> /\ Head(worker).kind = "resume" /\ IsWanted(Head(worker)))
        => stream.state = "Starting"

\* The pipeline is the head of the current user's queue, and the connection
\* carries exactly the pipeline: an answer belongs to the pipeline's head, as
\* OnWriteStreamMutationResult takes for granted.
AnswersAreForThePipeline ==
    /\ pipeline = SubSeq(queue[currentUser], 1, Len(pipeline))
    /\ wire.open => wire.acks \o wire.sent = Writes(pipeline)

\* An idle timer never stops a stream that has writes to send ("Write stream was
\* stopped gracefully while still needed", remote_store.cc:457).
IdleHasNothingToSend == stream.idle => (stream.state = "Open" /\ pipeline = << >>)

\* A callback waits for a batch that is queued, the batch of its own write,
\* though batch ids start over with every user and every restart
\* (LoadNextBatchIdFromDb, mutation_callbacks_).
CallbackOfItsWrite ==
    \A u \in User : \A id \in DOMAIN callbacks[u] :
        \E i \in DOMAIN queue[u] :
            queue[u][i] = [id |-> id, write |-> callbacks[u][id]]

\* The writes of a user who stays signed in are all settled, whatever failed,
\* crashed or changed hands before ("our stream logic will just retry",
\* remote_store.cc:499; a dropped token is asked for again).
WritesSettle ==
    \A u \in User : <>[](authUser = u) => []<>(queue[u] = << >>)
=============================================================================
