------------------------------ MODULE ChatRoom ------------------------------
(***************************************************************************)
(* ChatScreentVC over the path "communities/<id>/Messages" of one          *)
(* community.  CommunityVC's listen covers that path, so the messages are  *)
(* in the client's cache, or on their way, before the chat is opened.      *)
(*                                                                         *)
(* Every visit pushes a new view controller.  Its observers are never      *)
(* removed and their closures hold it, so a controller lives on, and goes  *)
(* on appending, after it has left the screen.  A swipe back that is let   *)
(* go makes the same controller appear again: one more observer for the    *)
(* same array.                                                             *)
(*                                                                         *)
(* A user is signed in while a chat is open (Account says when that fails),*)
(* and every message has the three fields that sendMessage writes.         *)
(***************************************************************************)
EXTENDS RealtimeDatabase

CONSTANTS
    Sender,     \* bound: the devices whose users write messages
    MaxVisits   \* bound: chat screens pushed on one device

ASSUME ChatAssumption == Sender \subseteq Device /\ MaxVisits \in Nat

VARIABLES
    alive,             \* alive[d]: the app has not trapped
    visit,             \* visit[d]: view controllers pushed so far
    onTop,             \* onTop[d]: the newest one is the top of the stack
    appearing,         \* appearing[d]: its viewDidAppear is on its way
    owner,             \* owner[d][r]: the view controller that made observer r
    messageArr,        \* messageArr[d][v]: the messages, as appended, each with
                       \* the observer that appended it
    lookups,           \* lookups[d][v]: getDocument calls without an answer
    userName1,         \* userName1[d]: the controllers that have the user's name
    messageTextField,  \* messageTextField[d]: the newest one's field has text
    sent               \* sent[d]: what the user of d sent: the key, the
                       \* controller, and whether SenderName was filled in

stack    == <<alive, visit, onTop, appearing>>
table    == <<owner, messageArr>>
userName == <<lookups, userName1>>
compose  == <<messageTextField, sent>>
vars     == <<dbVars, stack, table, userName, compose>>

Visit == 1 .. MaxVisits
Sent  == [key : Key, visit : Visit, signed : BOOLEAN]

TypeOK ==
    /\ DbTypeOK
    /\ alive \in [Device -> BOOLEAN]
    /\ visit \in [Device -> 0 .. MaxVisits]
    /\ onTop \in [Device -> BOOLEAN]
    /\ appearing \in [Device -> BOOLEAN]
    /\ owner \in [Device -> Seq(Visit)]
    /\ messageArr \in [Device -> [Visit -> Seq(Key \X Reg)]]
    /\ lookups \in [Device -> [Visit -> Nat]]
    /\ userName1 \in [Device -> SUBSET Visit]
    /\ messageTextField \in [Device -> BOOLEAN]
    /\ sent \in [Device -> Seq(Sent)]

Init ==
    /\ DbInit("sent")
    /\ alive = [d \in Device |-> TRUE]
    /\ visit = [d \in Device |-> 0]
    /\ onTop = [d \in Device |-> FALSE]
    /\ appearing = [d \in Device |-> FALSE]
    /\ owner = [d \in Device |-> << >>]
    /\ messageArr = [d \in Device |-> [v \in Visit |-> << >>]]
    /\ lookups = [d \in Device |-> [v \in Visit |-> 0]]
    /\ userName1 = [d \in Device |-> {}]
    /\ messageTextField = [d \in Device |-> FALSE]
    /\ sent = [d \in Device |-> << >>]

-----------------------------------------------------------------------------
(* The controller comes and goes.  The bound on observers is the model's.  *)

\* CommunityVC pushes a new ChatScreentVC.
OpenChat(d) ==
    /\ alive[d] /\ ~ onTop[d]
    /\ visit[d] < MaxVisits /\ handles[d] < MaxHandles
    /\ visit' = [visit EXCEPT ![d] = @ + 1]
    /\ onTop' = [onTop EXCEPT ![d] = TRUE]
    /\ appearing' = [appearing EXCEPT ![d] = TRUE]
    /\ messageTextField' = [messageTextField EXCEPT ![d] = FALSE]
    /\ UNCHANGED <<dbVars, alive, table, userName, sent>>

\* The chat is on screen and takes touches.
Chatting(d) == onTop[d] /\ ~ appearing[d]

\* A swipe back that the user lets go.
CancelSwipeBack(d) ==
    /\ Chatting(d)
    /\ handles[d] < MaxHandles
    /\ appearing' = [appearing EXCEPT ![d] = TRUE]
    /\ UNCHANGED <<dbVars, alive, visit, onTop, table, userName, compose>>

CloseChat(d) ==
    /\ Chatting(d)
    /\ onTop' = [onTop EXCEPT ![d] = FALSE]
    /\ UNCHANGED <<dbVars, alive, visit, appearing, table, userName, compose>>

\* (mutant) The name is asked for again, and forgotten meanwhile.
ViewDidAppearForgetting(d) ==
    /\ appearing[d]
    /\ appearing' = [appearing EXCEPT ![d] = FALSE]
    /\ lookups' = [lookups EXCEPT ![d][visit[d]] = @ + 1]
    /\ userName1' = [userName1 EXCEPT ![d] = @ \ {visit[d]}]
    /\ owner' = [owner EXCEPT ![d] = Append(@, visit[d])]
    /\ Observe(d)
    /\ UNCHANGED <<alive, visit, onTop, messageArr, compose>>

\* userNameFunction, then getMessage; messageArr is not emptied, and userName1 stays
\* what it is until the answer comes.
ViewDidAppear(d) ==
    /\ appearing[d]
    /\ appearing' = [appearing EXCEPT ![d] = FALSE]
    /\ lookups' = [lookups EXCEPT ![d][visit[d]] = @ + 1]
    /\ owner' = [owner EXCEPT ![d] = Append(@, visit[d])]
    /\ Observe(d)
    /\ UNCHANGED <<alive, visit, onTop, messageArr, userName1, compose>>

-----------------------------------------------------------------------------
(* The callbacks.                                                          *)

\* (mutant) One answer too many.
AwaitsNameTwice(d, v) == v <= visit[d]

\* Some getDocument of controller v is not answered.
AwaitsName(d, v) == lookups[d][v] > 0

\* Firestore answers with the user's document.
UserNameLoaded(d) ==
    \E v \in Visit :
        /\ AwaitsName(d, v)
        /\ lookups' = [lookups EXCEPT ![d][v] = @ - 1]
        /\ userName1' = [userName1 EXCEPT ![d] = @ \cup {v}]
        /\ UNCHANGED <<dbVars, stack, table, compose>>

\* Firestore answers with an error, or the document is not there: the forced
\* unwrapping of snapshot!.data()! traps, and the process ends.
UserNameMissing(d) ==
    /\ \E v \in Visit : AwaitsName(d, v)
    /\ EndProcess(d)
    /\ alive' = [alive EXCEPT ![d] = FALSE]
    /\ onTop' = [onTop EXCEPT ![d] = FALSE]
    /\ appearing' = [appearing EXCEPT ![d] = FALSE]
    /\ owner' = [owner EXCEPT ![d] = << >>]
    /\ messageArr' = [messageArr EXCEPT ![d] = [v \in Visit |-> << >>]]
    /\ lookups' = [lookups EXCEPT ![d] = [v \in Visit |-> 0]]
    /\ userName1' = [userName1 EXCEPT ![d] = {}]
    /\ messageTextField' = [messageTextField EXCEPT ![d] = FALSE]
    /\ UNCHANGED <<visit, sent>>

\* (mutant) Only the controller on screen is told.
ReceiverOnTop(d, r) == visit[d]

\* The controller whose closure observer r runs.
Receiver(d, r) == owner[d][r]

\* getMessage's closure: append, and reload the table.
ChildAdded(d) ==
    /\ RunCallback(d)
    /\ Head(main[d]).type = "added"
    /\ LET k == Head(main[d]).key
           r == Head(main[d]).reg
       IN  messageArr' = [messageArr EXCEPT ![d][Receiver(d, r)] = Append(@, <<k, r>>)]
    /\ UNCHANGED <<stack, owner, userName, compose>>

\* (mutant) The error is not looked at.
ClearsFieldAlways(d, done) ==
    \E i \in DOMAIN sent[d] : sent[d][i].key = done.key /\ sent[d][i].visit = visit[d]

\* The message was stored and the controller that sent it is the newest one.
ClearsField(d, done) ==
    /\ done.ok
    /\ \E i \in DOMAIN sent[d] : sent[d][i].key = done.key /\ sent[d][i].visit = visit[d]

\* setValue's completion empties the field, whatever was typed meanwhile.
SendDone(d) ==
    /\ RunCallback(d)
    /\ Head(main[d]).type = "done"
    /\ messageTextField' =
           [messageTextField EXCEPT ![d] = @ /\ ~ ClearsField(d, Head(main[d]))]
    /\ UNCHANGED <<stack, table, userName, sent>>

-----------------------------------------------------------------------------
(* The user.                                                               *)

TypeText(d) ==
    /\ d \in Sender
    /\ Chatting(d)
    /\ ~ messageTextField[d]
    /\ messageTextField' = [messageTextField EXCEPT ![d] = TRUE]
    /\ UNCHANGED <<dbVars, stack, table, userName, sent>>

\* sendMessageAction and sendMessage.  The field keeps its text until the write
\* is acknowledged, so the button sends again what it has just sent.
SendMessage(d) ==
    /\ Chatting(d)
    /\ messageTextField[d]
    /\ \E k \in Key :
           /\ SetValue(d, k)
           /\ sent' = [sent EXCEPT ![d] =
                         Append(@, [key |-> k, visit |-> visit[d],
                                    signed |-> visit[d] \in userName1[d]])]
    /\ UNCHANGED <<stack, table, userName, messageTextField>>

-----------------------------------------------------------------------------
MainStep(d) == ViewDidAppear(d) \/ ChildAdded(d) \/ SendDone(d)

Firestore(d) == UserNameLoaded(d) \/ UserNameMissing(d)

UserStep(d) ==
    \/ OpenChat(d)
    \/ CancelSwipeBack(d)
    \/ CloseChat(d)
    \/ TypeText(d)
    \/ SendMessage(d)

screens == <<stack, table, userName, compose>>

Database ==
    /\ RemotePut \/ \E d \in Device : DbStep(d)
    /\ UNCHANGED screens

Next ==
    \/ \E d \in Device : MainStep(d) \/ Firestore(d) \/ UserStep(d)
    \/ Database

Spec == Init /\ [][Next]_vars

-----------------------------------------------------------------------------
(* What the chat shows.                                                    *)

\* Observer r has appended message k to its controller's array.
Appended(d, k, r) ==
    \E i \in DOMAIN messageArr[d][owner[d][r]] :
        messageArr[d][owner[d][r]][i] = <<k, r>>

\* No message is lost to a chat that has been opened, whenever it was opened and
\* whatever is on screen now (getMessage, lines 44-57): each of its observers has
\* appended every message of the device's view, or its callback is underway, or
\* it waits for the worker, which will tell it of the whole view.
NoLostMessage ==
    \A d \in Device : \A k \in View(d) : \A r \in 1 .. handles[d] :
        Appended(d, k, r) \/ Underway(d, k, r) \/ Queued(d, r)

\* An observer appends a message once, though the sender's device has it from the
\* local write, from the server's data and from every repeated listen.
OncePerObserver ==
    \A d \in Device :
        /\ \A v \in Visit : \A i, j \in DOMAIN messageArr[d][v] :
              messageArr[d][v][i] = messageArr[d][v][j] => i = j
        /\ \A i, j \in Waiting(d) : Event(d, i) = Event(d, j) => i = j
        /\ \A i \in Waiting(d) : /\ Event(d, i) \notin raising[d]
                                 /\ ~ Appended(d, main[d][i].key, main[d][i].reg)
        /\ \A e \in raising[d] : ~ Appended(d, e[1], e[2])

\* A message on some screen that the server does not store is one the server has
\* refused, or one that the screen's own device still holds for sending: setValue
\* shows it at once (line 33), and neither a lost connection nor a listen that is
\* late may leave it shown and forgotten.
ShownIsStoredOrPending ==
    \A d \in Device : \A v \in Visit : \A i \in DOMAIN messageArr[d][v] :
        LET k == messageArr[d][v][i][1]
        IN  k \in committed \cup refused \/ \E p \in outstanding[d] : p[2] = k

\* The messages of one user stand in the order they were sent, in what each
\* observer appends on each device, provided that their push ids grew (the clock
\* did not go back) and that the server refused neither at any time.
SenderOrder ==
    \A c, d \in Device : \A m, n \in DOMAIN sent[c] :
        LET k == sent[c][m].key
            l == sent[c][n].key
        IN  (m < n /\ k < l /\ {k, l} \cap refused = {}) =>
              \A v \in Visit : \A i, j \in DOMAIN messageArr[d][v] :
                  (/\ messageArr[d][v][i][1] = l
                   /\ messageArr[d][v][j][1] = k
                   /\ messageArr[d][v][i][2] = messageArr[d][v][j][2]) => j < i

\* Once a screen has signed a message it signs the later ones too: asking for the
\* name again in viewDidAppear does not take it away (userNameFunction, 59-70).
SignedStaysSigned ==
    \A d \in Device : \A m, n \in DOMAIN sent[d] :
        (m < n /\ sent[d][m].visit = sent[d][n].visit /\ sent[d][m].signed)
            => sent[d][n].signed

\* The field is emptied only when the server has stored a message of this very
\* screen (lines 34-35): a refused message leaves the text where it is.
ClearedOnlyWhenStored ==
    [][ \A d \in Device :
          (/\ messageTextField[d] /\ ~ messageTextField'[d]
           /\ visit'[d] = visit[d] /\ alive'[d]) =>
              \E i \in DOMAIN sent[d] : /\ sent[d][i].visit = visit[d]
                                        /\ sent[d][i].key \in committed ]_vars
=============================================================================
