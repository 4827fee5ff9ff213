------------------------------- MODULE Account -------------------------------
(***************************************************************************)
(* Accounts on one device: SignupAndLoginVC, ForgetPasswordVC, the logout  *)
(* of SettignScreenVC and UserProfileVC, over Firebase Auth and the        *)
(* Firestore collection "Users".                                           *)
(*                                                                         *)
(* An account lives twice: in Auth, with its e-mail address, and as the    *)
(* document Users/<uid>, with a copy of it.  The app writes the two with   *)
(* separate requests and waits for neither.  Auth executes a request; then *)
(* the SDK, on its own queue, changes currentUser and puts on the main     *)
(* queue the news of it and, behind, the completion, which finds whatever  *)
(* screen is there by then.  Firestore knows the user from that news only. *)
(* It keeps a queue of writes for each user, on disk: a write joins the    *)
(* queue of the user it knows, and that queue is the one it sends.         *)
(*                                                                         *)
(* A document is its "email"; "userName" is written and read with it.      *)
(***************************************************************************)
EXTENDS Naturals, Sequences, FiniteSets

CONSTANTS
    User,            \* the user ids that Auth may give out
    Email,           \* the addresses people type
    None,            \* no user, no account, no document
    Blank,           \* the empty text
    MaxCalls,        \* bound: Auth requests and getDocument calls
    MaxControllers   \* bound: login and profile screens made

ASSUME AccountAssumption ==
    /\ None \notin User \cup Email \cup {Blank}
    /\ Blank \notin Email
    /\ MaxCalls \in Nat /\ MaxControllers \in Nat

VARIABLES
    email,         \* Auth: email[u], the address of account u
    given,         \* Auth: the user ids it has given out
    doc,           \* Firestore: doc[u], the document Users/u
    currentUser,   \* Auth.auth().currentUser, kept in the keychain
    firestoreUser, \* the user that Firestore's credentials provider knows
    main,          \* the main queue: news for Firestore, and completions
    mutations,     \* mutations[q]: the writes queued while Firestore knew q
    running,       \* the app's process is there
    top,           \* the top of the navigation stack
    appearing,     \* its viewDidAppear is on its way
    loginVC,       \* the login screen over the stack, 0 for none
    over,          \* what the login screen itself presents
    profileVC,     \* the profile screen in the stack, 0 for none
    openedBy,      \* who was signed in when the profile screen appeared
    profileEmail,  \* the text of the profile screen's field
    loadedFor,     \* whose document the profile screen has shown
    calls,         \* calls made so far
    controllers,   \* login and profile screens made so far
    requests,      \* the Auth requests whose answer the SDK has not handled
    lookups,       \* the getDocument calls that are not answered
    excused,       \* accounts that may lack a document (see ProfileAccounted)
    cutOff         \* accounts whose sign-up the end of the process cut off

server  == <<email, given, doc>>
session == <<currentUser, firestoreUser, main>>
nav     == <<running, top, appearing, loginVC, over, controllers>>
profile == <<profileVC, openedBy, profileEmail, loadedFor>>
async   == <<calls, requests, lookups>>
history == <<excused, cutOff>>
vars    == <<server, session, mutations, nav, profile, async, history>>

Text       == Email \cup {Blank}
Holder     == User \cup {None}
Controller == 1 .. MaxControllers
Mutation   == [op : {"set", "update", "delete"}, user : User, email : Text,
               from : Holder]
Request    == [id : 1 .. MaxCalls, vc : Controller, user : Holder, email : Text,
               op : {"signup", "login", "reset", "updateEmail", "delete"},
               stage : {"asked", "answered"},
               result : {"none", "ok", "error", "userNotFound"}]
News       == [op : {"news"}, user : Holder]
Lookup     == [id : 1 .. MaxCalls, vc : Controller, user : User]

TypeOK ==
    /\ email \in [User -> Email \cup {None}]
    /\ given \in SUBSET User
    /\ doc \in [User -> Text \cup {None}]
    /\ currentUser \in Holder
    /\ firestoreUser \in Holder
    /\ main \in Seq(News \cup Request)
    /\ mutations \in [Holder -> Seq(Mutation)]
    /\ running \in BOOLEAN
    /\ top \in {"list", "settings", "profile"}
    /\ appearing \in BOOLEAN
    /\ loginVC \in 0 .. MaxControllers
    /\ over \in {"none", "alert", "forget", "forgetAlert"}
    /\ profileVC \in 0 .. MaxControllers
    /\ openedBy \in Holder
    /\ profileEmail \in Text
    /\ loadedFor \in Holder
    /\ calls \in 0 .. MaxCalls
    /\ controllers \in 0 .. MaxControllers
    /\ requests \in SUBSET Request
    /\ lookups \in SUBSET Lookup
    /\ excused \in SUBSET User
    /\ cutOff \in SUBSET User

-----------------------------------------------------------------------------
(* The main queue.                                                         *)

NewsOf(u) == [op |-> "news", user |-> u]

\* possiblyPostAuthStateChangeNotification, when currentUser becomes u.  News of
\* the same user, with another token, changes nothing here.
Announced(queue, u) == IF u # currentUser THEN Append(queue, NewsOf(u)) ELSE queue

\* Auth loads the user from the keychain and tells of it; the provider may ask
\* for the user (getUserID) after that, or before, and then learns by the news.
StartSession(u) ==
    \/ /\ firestoreUser' = u
       /\ main' = << >>
    \/ /\ u # None
       /\ firestoreUser' = None
       /\ main' = << NewsOf(u) >>

\* Some accounts exist, each with its document, and one may be signed in; the app
\* has been started and has heard of the user.
Init ==
    /\ given \in SUBSET User
    /\ email \in [User -> Email \cup {None}]
    /\ \A u \in User : email[u] # None <=> u \in given
    /\ \A u, v \in given : email[u] = email[v] => u = v
    /\ doc = email
    /\ currentUser \in given \cup {None}
    /\ firestoreUser = currentUser
    /\ main = << >>
    /\ mutations = [q \in Holder |-> << >>]
    /\ running = TRUE
    /\ top = "list"
    /\ appearing = TRUE
    /\ loginVC = 0
    /\ over = "none"
    /\ profileVC = 0
    /\ openedBy = None
    /\ profileEmail = Blank
    /\ loadedFor = None
    /\ calls = 0
    /\ controllers = 0
    /\ requests = {}
    /\ lookups = {}
    /\ excused = {}
    /\ cutOff = {}

-----------------------------------------------------------------------------
(* The process.                                                            *)

\* Sign-ups that Auth has carried out and whose completion has not run.
Unfinished ==
    LET known == requests \cup {main[i] : i \in DOMAIN main}
    IN  { r.user : r \in { s \in known : s.op = "signup" /\ s.result = "ok" } }

\* There is no profile screen any more, nor what it showed.
LeaveProfile ==
    /\ profileVC' = 0
    /\ openedBy' = None
    /\ profileEmail' = Blank
    /\ loadedFor' = None

\* The process ends: screens, requests, lookups and the main queue are gone.  The
\* keychain and Firestore's queues are on disk.
Stop ==
    /\ running' = FALSE
    /\ top' = "list"
    /\ appearing' = FALSE
    /\ loginVC' = 0
    /\ over' = "none"
    /\ LeaveProfile
    /\ requests' = {}
    /\ lookups' = {}
    /\ firestoreUser' = None
    /\ main' = << >>
    /\ cutOff' = cutOff \cup Unfinished
    /\ UNCHANGED <<server, currentUser, mutations, calls, controllers, excused>>

Terminate == running /\ Stop

Launch ==
    /\ ~ running
    /\ running' = TRUE
    /\ appearing' = TRUE
    /\ StartSession(currentUser)
    /\ UNCHANGED <<server, currentUser, mutations, top, loginVC, over, controllers,
                   profile, async, history>>

-----------------------------------------------------------------------------
(* Navigation.                                                             *)

\* The navigation stack, or the login screen, takes touches.
OnStack(screen) == running /\ ~ appearing /\ loginVC = 0 /\ top = screen
OnLogin         == running /\ loginVC # 0 /\ over = "none"

\* A call gets a number; the bound on calls is the model's.
NewCall ==
    /\ calls < MaxCalls
    /\ calls' = calls + 1

\* viewDidAppear of CommunityVC: the login screen, if nobody is signed in.
ListAppears ==
    /\ appearing /\ top = "list"
    /\ appearing' = FALSE
    /\ \/ /\ currentUser = None
          /\ controllers < MaxControllers
          /\ controllers' = controllers + 1
          /\ loginVC' = controllers'
       \/ /\ currentUser # None
          /\ UNCHANGED <<controllers, loginVC>>
    /\ UNCHANGED <<server, session, mutations, running, top, over, profile, async,
                   history>>

\* viewDidAppear of UserProfileVC and getUserData.  Without a user the forced
\* unwrapping of the user id traps.
ProfileAppears ==
    /\ appearing /\ top = "profile"
    /\ \/ /\ currentUser = None
          /\ Stop
       \/ /\ currentUser # None
          /\ appearing' = FALSE
          /\ NewCall
          /\ openedBy' = currentUser
          /\ lookups' = lookups \cup
                 {[id |-> calls', vc |-> profileVC, user |-> currentUser]}
          /\ UNCHANGED <<server, session, mutations, running, top, loginVC, over,
                         controllers, profileVC, profileEmail, loadedFor, requests,
                         history>>

OpenSettings ==
    /\ OnStack("list")
    /\ top' = "settings"
    /\ UNCHANGED <<server, session, mutations, running, appearing, loginVC, over,
                   controllers, profile, async, history>>

\* A new UserProfileVC, its fields empty.
OpenProfile ==
    /\ OnStack("settings")
    /\ controllers < MaxControllers
    /\ calls < MaxCalls
    /\ controllers' = controllers + 1
    /\ profileVC' = controllers'
    /\ openedBy' = None
    /\ top' = "profile"
    /\ appearing' = TRUE
    /\ profileEmail' = Blank
    /\ loadedFor' = None
    /\ UNCHANGED <<server, session, mutations, running, loginVC, over, async, history>>

Back ==
    /\ \/ OnStack("settings") /\ top' = "list" /\ appearing' = TRUE
       \/ OnStack("profile") /\ top' = "settings" /\ appearing' = FALSE
    /\ LeaveProfile
    /\ UNCHANGED <<server, session, mutations, running, loginVC, over, controllers,
                   async, history>>

\* logoutButton: signOut, then popToRootViewController.
LogoutButton ==
    /\ OnStack("settings")
    /\ currentUser' = None
    /\ main' = Announced(main, None)
    /\ top' = "list"
    /\ appearing' = TRUE
    /\ UNCHANGED <<server, firestoreUser, mutations, running, loginVC, over, controllers,
                   profile, async, history>>

\* self.dismiss on login screen v: what it presents goes; if it presents
\* nothing it goes itself, and CommunityVC appears.
Dismiss(v) ==
    \/ /\ loginVC = v /\ over = "none"
       /\ loginVC' = 0
       /\ appearing' = TRUE
       /\ UNCHANGED over
    \/ /\ loginVC = v /\ over # "none"
       /\ over' = "none"
       /\ UNCHANGED <<loginVC, appearing>>
    \/ /\ loginVC # v
       /\ UNCHANGED <<loginVC, over, appearing>>

-----------------------------------------------------------------------------
(* What the user asks for.                                                 *)

Ask(op, v, u, e) ==
    /\ NewCall
    /\ requests' = requests \cup
           {[id |-> calls', op |-> op, vc |-> v, user |-> u, email |-> e,
             stage |-> "asked", result |-> "none"]}

\* signupButtonAction and loginButtonAction: an alert for a form that is not
\* filled in, or a request; the button stays enabled.
LoginScreenButton ==
    /\ OnLogin
    /\ \/ /\ over' = "alert"
          /\ UNCHANGED async
       \/ /\ \E op \in {"signup", "login"}, e \in Email : Ask(op, loginVC, None, e)
          /\ UNCHANGED <<over, lookups>>
    /\ UNCHANGED <<server, session, mutations, running, top, appearing, loginVC,
                   controllers, profile, history>>

\* forgetPasswordAction.
ForgetPasswordAction ==
    /\ OnLogin
    /\ over' = "forget"
    /\ UNCHANGED <<server, session, mutations, running, top, appearing, loginVC,
                   controllers, profile, async, history>>

\* sendRestPasswordLink, for some address.
SendRestPasswordLink ==
    /\ running /\ over = "forget"
    /\ \/ /\ over' = "forgetAlert"
          /\ UNCHANGED async
       \/ /\ Ask("reset", loginVC, None, Blank)
          /\ UNCHANGED <<over, lookups>>
    /\ UNCHANGED <<server, session, mutations, running, top, appearing, loginVC,
                   controllers, profile, history>>

\* The OK of an alert; ForgetPasswordVC is swiped down.
CloseOver ==
    /\ over # "none"
    /\ over' = IF over = "forgetAlert" THEN "forget" ELSE "none"
    /\ UNCHANGED <<server, session, mutations, running, top, appearing, loginVC,
                   controllers, profile, async, history>>

EditEmail ==
    /\ OnStack("profile")
    /\ profileEmail' \in Text \ {profileEmail}
    /\ UNCHANGED <<server, session, mutations, nav, profileVC, openedBy, loadedFor,
                   async, history>>

\* A write joins the queue of the user whom Firestore knows.
Queue(op, u, e, from) ==
    mutations' = [mutations EXCEPT ![firestoreUser] =
                    Append(@, [op |-> op, user |-> u, email |-> e, from |-> from])]

\* The SDK, on its own queue: currentUser changes before the app hears of it.
\* A user that Auth no longer knows is signed out when updateEmail fails.
UserAfter(r) ==
    CASE r.result = "ok" /\ r.op \in {"signup", "login"}         -> r.user
      [] /\ currentUser = r.user
         /\ \/ r.result = "ok" /\ r.op = "delete"
            \/ r.result = "userNotFound"                        -> None
      [] OTHER                                                  -> currentUser

\* (mutant) The completion is put before the news.
PostedFirst(r) == Announced(Append(main, r), UserAfter(r))

\* The SDK handles the answer to r: the news of the change of user, if there is
\* one, and behind it the completion.
Posted(r) == Append(Announced(main, UserAfter(r)), r)

\* currentUser is read a second time, and the SDK may have changed it by then: the
\* request is for the user found now, and there is none without a user.
AskAgain(op, e) ==
    \E r \in requests \cup {None} :
        LET late == r # None
            u    == IF late THEN UserAfter(r) ELSE currentUser
            left == IF late THEN requests \ {r} ELSE requests
        IN  /\ late => r.stage = "answered"
            /\ currentUser' = u
            /\ main' = IF late THEN Posted(r) ELSE main
            /\ NewCall
            /\ requests' = left \cup
                   IF u = None THEN {}
                   ELSE {[id |-> calls', op |-> op, vc |-> profileVC, user |-> u,
                          email |-> e, stage |-> "asked", result |-> "none"]}

\* update: the document and the address in Auth, by two requests.
Update ==
    /\ OnStack("profile")
    /\ \/ /\ currentUser = None
          /\ Stop
       \/ /\ currentUser # None
          /\ Queue("update", currentUser, profileEmail, openedBy)
          /\ AskAgain("updateEmail", profileEmail)
          /\ UNCHANGED <<server, firestoreUser, nav, profile, lookups, history>>

\* deleteAccount, confirmed: the document and the account, by two requests.
DeleteAccount ==
    /\ OnStack("profile")
    /\ \/ /\ currentUser = None
          /\ Stop
       \/ /\ currentUser # None
          /\ Queue("delete", currentUser, Blank, openedBy)
          /\ AskAgain("delete", Blank)
          /\ excused' = excused \cup {currentUser}
          /\ UNCHANGED <<server, firestoreUser, nav, profile, lookups, cutOff>>

-----------------------------------------------------------------------------
(* Auth (external): the server carries a request out, or refuses it.       *)

Answered(r, u, outcome) ==
    requests' = (requests \ {r}) \cup
                    {[r EXCEPT !.stage = "answered", !.user = u, !.result = outcome]}

\* updateEmail runs one at a time for a user.
Turn(r) == \A s \in requests :
    (s.op = r.op /\ s.user = r.user /\ s.stage = "asked") => r.id <= s.id

\* The new addresses after request r of account u.
AuthAccepts(r, u) ==
    \/ /\ r.op = "signup"
       /\ u \in User \ given
       /\ \A v \in User : email[v] # r.email
       /\ email' = [email EXCEPT ![u] = r.email]
    \/ /\ r.op = "login"
       /\ u \in User /\ email[u] = r.email
       /\ UNCHANGED email
    \/ /\ r.op = "reset"
       /\ u = None
       /\ UNCHANGED email
    \/ /\ r.op = "updateEmail"
       /\ u = r.user /\ email[u] # None
       /\ r.email # Blank
       /\ Turn(r)
       /\ \A v \in User \ {u} : email[v] # r.email
       /\ email' = [email EXCEPT ![u] = r.email]
    \/ /\ r.op = "delete"
       /\ u = r.user /\ email[u] # None
       /\ email' = [email EXCEPT ![u] = None]

Execute ==
    \E r \in requests, u \in Holder :
        /\ r.stage = "asked"
        /\ AuthAccepts(r, u)
        /\ given' = given \cup ({u} \ {None})
        /\ \/ /\ Answered(r, u, "ok")
              /\ UNCHANGED excused
           \/ /\ Answered(r, u, "error")   \* the answer is lost on the way
              /\ excused' = IF r.op = "signup" THEN excused \cup {u} ELSE excused
        /\ UNCHANGED <<doc, session, mutations, nav, profile, calls, lookups, cutOff>>

Refuse ==
    \E r \in requests :
        /\ r.stage = "asked"
        /\ \/ Answered(r, r.user, "error")
           \/ /\ r.op = "updateEmail" /\ email[r.user] = None
              /\ Answered(r, r.user, "userNotFound")
        /\ UNCHANGED <<server, session, mutations, nav, profile, calls, lookups, history>>

Deliver ==
    \E r \in requests :
        /\ r.stage = "answered"
        /\ currentUser' = UserAfter(r)
        /\ main' = Posted(r)
        /\ requests' = requests \ {r}
        /\ UNCHANGED <<server, firestoreUser, mutations, nav, profile, calls, lookups,
                       history>>

-----------------------------------------------------------------------------
(* The main thread takes the news and the completions in their order.      *)

\* The observer of the credentials provider, and with it Firestore's change of user.
HearOfUser ==
    /\ main # << >>
    /\ Head(main).op = "news"
    /\ firestoreUser' = Head(main).user
    /\ main' = Tail(main)
    /\ UNCHANGED <<server, currentUser, mutations, nav, profile, async, history>>

\* (mutant) Only a login screen that is still there writes the document.
WritesProfileIfShown(r) == r.result = "ok" /\ r.vc = loginVC

\* The document of a new account is written whatever is on screen.
WritesProfile(r) == r.result = "ok"

SignupDone(r) ==
    /\ r.op = "signup"
    /\ \/ /\ WritesProfile(r)
          /\ Queue("set", r.user, r.email, r.user)
          /\ Dismiss(r.vc)
       \/ /\ ~ WritesProfile(r)
          /\ UNCHANGED <<mutations, loginVC, over, appearing>>
    /\ UNCHANGED <<top, profile>>

LoginDone(r) ==
    /\ r.op = "login"
    /\ \/ r.result = "ok" /\ Dismiss(r.vc)
       \/ /\ r.result # "ok"
          /\ over' = IF loginVC = r.vc /\ over = "none" THEN "alert" ELSE over
          /\ UNCHANGED <<loginVC, appearing>>
    /\ UNCHANGED <<mutations, top, profile>>

\* Both answers end in an alert of ForgetPasswordVC.
ResetDone(r) ==
    /\ r.op = "reset"
    /\ over' = IF loginVC = r.vc /\ over = "forget" THEN "forgetAlert" ELSE over
    /\ UNCHANGED <<mutations, loginVC, appearing, top, profile>>

\* popToRootViewController, if the screen that asked is still in the stack.
DeleteDone(r) ==
    /\ r.op = "delete"
    /\ \/ /\ r.result = "ok" /\ profileVC = r.vc
          /\ top' = "list"
          /\ appearing' = TRUE
          /\ LeaveProfile
       \/ /\ ~ (r.result = "ok" /\ profileVC = r.vc)
          /\ UNCHANGED <<top, appearing, profile>>
    /\ UNCHANGED <<mutations, loginVC, over>>

\* updateEmail's completion prints.
UpdateDone(r) ==
    /\ r.op = "updateEmail"
    /\ UNCHANGED <<mutations, nav, profile>>

Completion ==
    /\ main # << >>
    /\ LET r == Head(main)
       IN  \/ SignupDone(r)
           \/ LoginDone(r)
           \/ ResetDone(r)
           \/ DeleteDone(r)
           \/ UpdateDone(r)
    /\ main' = Tail(main)
    /\ UNCHANGED <<server, currentUser, firestoreUser, running, controllers,
                   async, history>>

-----------------------------------------------------------------------------
(* Firestore.                                                              *)

\* Document u after mutation m has been applied to the value v.
Applied(m, v) ==
    CASE m.op = "set"                  -> m.email
      [] m.op = "delete"               -> None
      [] m.op = "update" /\ v # None   -> m.email
      [] OTHER                         -> None

\* fillWritePipeline: the queue of the user whom Firestore knows.
Sendable == running /\ mutations[firestoreUser] # << >>

\* The server commits the oldest write of that queue; the acknowledgement comes,
\* or is lost, and then the write is sent again.
CommitWrite ==
    /\ Sendable
    /\ LET m == Head(mutations[firestoreUser])
       IN  /\ m.op = "update" => doc[m.user] # None
           /\ doc' = [doc EXCEPT ![m.user] = Applied(m, @)]
    /\ \/ mutations' = [mutations EXCEPT ![firestoreUser] = Tail(@)]
       \/ UNCHANGED mutations
    /\ UNCHANGED <<email, given, session, nav, profile, async, history>>

\* It refuses the write: a security rule, or no document to update.  The write
\* is dropped.
RefuseWrite ==
    /\ Sendable
    /\ mutations' = [mutations EXCEPT ![firestoreUser] = Tail(@)]
    /\ LET m == Head(mutations[firestoreUser])
       IN  excused' = IF m.op = "set" THEN excused \cup {m.user} ELSE excused
    /\ UNCHANGED <<server, session, nav, profile, async, cutOff>>

\* What getDocument finds: the server's document under the queued writes.
LocalDoc(u) ==
    LET q == mutations[firestoreUser]
        after[n \in 0 .. Len(q)] ==
            IF n = 0 THEN doc[u]
            ELSE IF q[n].user = u THEN Applied(q[n], after[n - 1])
            ELSE after[n - 1]
    IN  after[Len(q)]

\* (mutant) A missing document is taken for one.
HasDocumentUnchecked(u) == TRUE

HasDocument(u) == LocalDoc(u) # None

\* (mutant) The answer goes to the profile screen that is there now.
IsAskedByAny(look) == profileVC # 0

\* The closure holds the screen that asked.
IsAskedBy(look) == profileVC = look.vc

\* The answer overwrites what the user has typed.  An error, or no document:
\* snapshot!.data()! traps.
LookupDone ==
    \E look \in lookups :
        \/ Stop
        \/ /\ HasDocument(look.user)
           /\ lookups' = lookups \ {look}
           /\ \/ /\ IsAskedBy(look)
                 /\ profileEmail' = LocalDoc(look.user)
                 /\ loadedFor' = look.user
              \/ /\ ~ IsAskedBy(look)
                 /\ UNCHANGED <<profileEmail, loadedFor>>
           /\ UNCHANGED <<server, session, mutations, nav, profileVC, openedBy, calls,
                          requests, history>>

-----------------------------------------------------------------------------
UserStep ==
    \/ Terminate \/ Launch
    \/ OpenSettings \/ OpenProfile \/ Back \/ LogoutButton
    \/ LoginScreenButton \/ ForgetPasswordAction \/ SendRestPasswordLink \/ CloseOver
    \/ EditEmail \/ Update \/ DeleteAccount

MainStep  == ListAppears \/ ProfileAppears \/ HearOfUser \/ Completion
WriteStep == CommitWrite \/ RefuseWrite

Next ==
    \/ UserStep
    \/ MainStep
    \/ Execute \/ Refuse
    \/ Deliver
    \/ WriteStep
    \/ LookupDone

Spec == Init /\ [][Next]_vars

-----------------------------------------------------------------------------
(* What becomes of an account.                                             *)

\* Every account has its document, or the write of it waits in the user's own
\* queue, which is sent when that user is signed in, or the sign-up is not over
\* (signupButtonAction, lines 55-70), whatever screens, users and requests come in
\* between.  Excused are the accounts of which Auth's answer was lost, whose write
\* the server refused, or whose owner has confirmed the deletion; cut off are those
\* whose sign-up the end of the process interrupted (see SignupSurvives).
ProfileAccounted ==
    \A u \in User \ (excused \cup cutOff) : email[u] # None =>
        \/ doc[u] # None
        \/ u \in Unfinished
        \/ \E i \in DOMAIN mutations[u] :
               mutations[u][i].op = "set" /\ mutations[u][i].user = u

\* A user whom Firestore knows, and whose sign-up is over, finds the own document
\* (HasDocument), whose absence is fatal to the profile screen and the chat
\* (snapshot!.data()!, UserProfileVC.swift:90, ChatScreentVC.swift:62), although
\* sign-ups and logins of other users are answered in between: on the main queue
\* the news of a user stands right before the completion that writes the document.
OwnProfileFound ==
    \A u \in User \ (excused \cup cutOff) :
        (firestoreUser = u /\ email[u] # None /\ u \notin Unfinished) => HasDocument(u)

\* "As a user I can join the chat" (README.md:16): a user whom Firestore knows finds
\* the own document, also when the process has ended in between, unless a request
\* failed or the account is being deleted.
SignupSurvives ==
    \A u \in User \ excused :
        (firestoreUser = u /\ email[u] # None /\ u \notin Unfinished) => HasDocument(u)

\* A profile screen shows no document but that of a user who was signed in when
\* it appeared (getUserData, lines 87-98), though answers come late and screens
\* and users have changed.
ShowsWhoOpened ==
    (profileVC # 0 /\ loadedFor # None) => loadedFor = openedBy

\* The app runs and nothing is under way any more.
AtRest ==
    /\ running /\ ~ appearing
    /\ requests = {} /\ lookups = {} /\ main = << >>
    /\ mutations[firestoreUser] = << >>

\* "As a user I can update my name" (README.md:11): what update writes into a
\* user's document, and into the account, comes from the profile screen of that
\* user (lines 67-79).
UpdatesOwnProfile ==
    /\ \A q \in Holder : \A i \in DOMAIN mutations[q] :
           LET m == mutations[q][i] IN m.op = "update" => m.from = m.user
    /\ \A r \in requests : (r.op = "updateEmail" /\ r.vc = profileVC) => r.user = openedBy

\* "As a user I can update my email" (README.md:10): when nothing is under way any
\* more, an account and its document have the same address (update, lines 68-79).
EmailsAgree ==
    (AtRest /\ \A q \in Holder : mutations[q] = << >>)
        => \A u \in User : (email[u] # None /\ doc[u] # None) => doc[u] = email[u]
=============================================================================
