---------------------------- MODULE DocumentStore ----------------------------
(***************************************************************************)
(* What the Firestore client promises about the writes of one device.      *)
(*                                                                         *)
(* A user's writes wait in a queue.  The server commits a prefix of it, in *)
(* order and under that user's credentials; a write leaves the queue when  *)
(* the client hears that it is committed or refused.  The news may get     *)
(* lost, and then the server commits the prefix once more.                 *)
(***************************************************************************)
EXTENDS Naturals, Sequences

CONSTANTS
    User,    \* who may be signed in
    WriteNo  \* the numbers of the writes

VARIABLES
    queue,     \* queue[u]: u's writes that are not settled
    done,      \* done[u]: how many of them the server has committed
    refused,   \* refused[u]: the server has refused the next one
    log,       \* the commits, in order, with the credentials of each
    added,     \* the writes ever queued
    rejected   \* the writes dropped because the server refused them

vars == <<queue, done, refused, log, added, rejected>>

Write  == [no : WriteNo, by : User]
Commit == [write : Write, as : User]

TypeOK ==
    /\ queue \in [User -> Seq(Write)]
    /\ done \in [User -> Nat]
    /\ refused \in [User -> BOOLEAN]
    /\ log \in Seq(Commit)
    /\ added \in SUBSET Write
    /\ rejected \in SUBSET Write

Init ==
    /\ queue = [u \in User |-> << >>]
    /\ done = [u \in User |-> 0]
    /\ refused = [u \in User |-> FALSE]
    /\ log = << >>
    /\ added = {}
    /\ rejected = {}

\* A write joins the queue of the user who made it; writes are numbered in the
\* order of the calls.
Add(u) ==
    \E w \in Write :
        /\ w.by = u
        /\ \A v \in added : v.no < w.no
        /\ queue' = [queue EXCEPT ![u] = Append(@, w)]
        /\ added' = added \cup {w}
        /\ UNCHANGED <<done, refused, log, rejected>>

CommitNext(u) ==
    /\ ~ refused[u]
    /\ done[u] < Len(queue[u])
    /\ log' = Append(log, [write |-> queue[u][done[u] + 1], as |-> u])
    /\ done' = [done EXCEPT ![u] = @ + 1]
    /\ UNCHANGED <<queue, refused, added, rejected>>

RefuseNext(u) ==
    /\ ~ refused[u]
    /\ done[u] < Len(queue[u])
    /\ refused' = [refused EXCEPT ![u] = TRUE]
    /\ UNCHANGED <<queue, done, log, added, rejected>>

\* The client hears of the oldest commit.
Settle(u) ==
    /\ done[u] > 0
    /\ queue' = [queue EXCEPT ![u] = Tail(@)]
    /\ done' = [done EXCEPT ![u] = @ - 1]
    /\ UNCHANGED <<refused, log, added, rejected>>

\* The client hears of the refusal.
Drop(u) ==
    /\ refused[u] /\ done[u] = 0
    /\ rejected' = rejected \cup {Head(queue[u])}
    /\ queue' = [queue EXCEPT ![u] = Tail(@)]
    /\ refused' = [refused EXCEPT ![u] = FALSE]
    /\ UNCHANGED <<done, log, added>>

\* The news is lost: the server starts again with the head of the queue.
Forget(u) ==
    /\ done' = [done EXCEPT ![u] = 0]
    /\ refused' = [refused EXCEPT ![u] = FALSE]
    /\ UNCHANGED <<queue, log, added, rejected>>

Next ==
    \E u \in User :
        \/ Add(u)
        \/ CommitNext(u)
        \/ RefuseNext(u)
        \/ Settle(u)
        \/ Drop(u)
        \/ Forget(u)

Spec == Init /\ [][Next]_vars
=============================================================================
