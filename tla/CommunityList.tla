---------------------------- MODULE CommunityList ----------------------------
(***************************************************************************)
(* CommunityVC, the root screen that lists the communities, with           *)
(* CreateCommunityVC and the navigation around them, over the Realtime     *)
(* Database path "communities".                                            *)
(*                                                                         *)
(* Every viewDidAppear empties the array and adds one more observer; no    *)
(* observer is ever removed.  Callbacks of all of them append to the one   *)
(* array, on the main thread, in between the user's actions.               *)
(***************************************************************************)
EXTENDS RealtimeDatabase

CONSTANTS
    Malformed,    \* the children that have no string "CommunityName"
    MaxLaunches   \* bound: times the app is started, over all devices

ASSUME ListAssumption ==
    /\ Malformed \subseteq Remote
    /\ MaxLaunches \in Nat

VARIABLES
    status,              \* status[d]: the app's process on d
    launches,            \* times the app has been started
    screen,              \* screen[d]: the view controller on top
    appearing,           \* appearing[d]: CommunityVC is coming on screen
    signedIn,            \* signedIn[d]: Auth.auth().currentUser is not nil
    arrayOfCommunities,  \* arrayOfCommunities[d]: the keys, as appended, each
                         \* with the observer that appended it
    cells,               \* cells[d]: the items the collection view has
    addNewName,          \* addNewName[d]: the name field is not empty
    requests             \* requests[d]: keys minted by this CreateCommunityVC

process == <<status, launches>>
nav     == <<screen, appearing, signedIn>>
list    == <<arrayOfCommunities, cells>>
form    == <<addNewName, requests>>
vars    == <<dbVars, process, nav, list, form>>

Screen == {"list", "login", "create", "settings", "chat"}

TypeOK ==
    /\ DbTypeOK
    /\ status \in [Device -> {"stopped", "running", "trapped"}]
    /\ launches \in 0 .. MaxLaunches
    /\ screen \in [Device -> Screen]
    /\ appearing \in [Device -> BOOLEAN]
    /\ signedIn \in [Device -> BOOLEAN]
    /\ arrayOfCommunities \in [Device -> Seq(Key \X Reg)]
    /\ cells \in [Device -> Nat]
    /\ addNewName \in [Device -> BOOLEAN]
    /\ requests \in [Device -> SUBSET Key]

Init ==
    /\ DbInit("none")
    /\ status = [d \in Device |-> "stopped"]
    /\ launches = 0
    /\ screen = [d \in Device |-> "list"]
    /\ appearing = [d \in Device |-> FALSE]
    /\ signedIn \in [Device -> BOOLEAN]
    /\ arrayOfCommunities = [d \in Device |-> << >>]
    /\ cells = [d \in Device |-> 0]
    /\ addNewName = [d \in Device |-> FALSE]
    /\ requests = [d \in Device |-> {}]

-----------------------------------------------------------------------------
(* The process.                                                            *)

\* FirebaseApp.configure, then the storyboard's root, CommunityVC.
Launch(d) ==
    /\ status[d] # "running"
    /\ launches < MaxLaunches
    /\ launches' = launches + 1
    /\ status' = [status EXCEPT ![d] = "running"]
    /\ appearing' = [appearing EXCEPT ![d] = TRUE]
    /\ UNCHANGED <<dbVars, screen, signedIn, list, form>>

\* The process is gone, and every view controller with it.
Stop(d, how) ==
    /\ EndProcess(d)
    /\ status' = [status EXCEPT ![d] = how]
    /\ screen' = [screen EXCEPT ![d] = "list"]
    /\ appearing' = [appearing EXCEPT ![d] = FALSE]
    /\ arrayOfCommunities' = [arrayOfCommunities EXCEPT ![d] = << >>]
    /\ cells' = [cells EXCEPT ![d] = 0]
    /\ addNewName' = [addNewName EXCEPT ![d] = FALSE]
    /\ requests' = [requests EXCEPT ![d] = {}]
    /\ UNCHANGED <<launches, signedIn>>

\* The user or the system ends the app.
Terminate(d) ==
    /\ status[d] = "running"
    /\ Stop(d, "stopped")

-----------------------------------------------------------------------------
(* CommunityVC.                                                            *)

\* CommunityVC becomes the top of the stack: viewDidAppear is on its way.
\* The guard is the model's bound on viewDidAppear, not the code's.
ShowList(d) ==
    /\ handles[d] < MaxHandles
    /\ screen' = [screen EXCEPT ![d] = "list"]
    /\ appearing' = [appearing EXCEPT ![d] = TRUE]

\* Without a user the login screen is presented, and the rest runs all the
\* same.  The array is emptied; the collection view is not told.
ViewDidAppear(d) ==
    /\ appearing[d]
    /\ appearing' = [appearing EXCEPT ![d] = FALSE]
    /\ screen' = [screen EXCEPT ![d] = IF signedIn[d] THEN @ ELSE "login"]
    /\ arrayOfCommunities' = [arrayOfCommunities EXCEPT ![d] = << >>]
    /\ Observe(d)
    /\ UNCHANGED <<process, signedIn, cells, form>>

\* reloadData: the collection view asks for the number of items again.
ReloadData(d) == Len(arrayOfCommunities'[d])

\* The observer's closure: append and reload, when the child has a name.
ChildAdded(d) ==
    /\ RunCallback(d)
    /\ Head(main[d]).type = "added"
    /\ LET k == Head(main[d]).key
           r == Head(main[d]).reg
       IN  \/ /\ k \notin Malformed
              /\ arrayOfCommunities' =
                     [arrayOfCommunities EXCEPT ![d] = Append(@, <<k, r>>)]
              /\ cells' = [cells EXCEPT ![d] = ReloadData(d)]
           \/ /\ k \in Malformed
              /\ UNCHANGED list
    /\ UNCHANGED <<process, nav, form>>

\* CommunityVC is on screen and takes touches.
OnList(d) == status[d] = "running" /\ screen[d] = "list" /\ ~ appearing[d]

\* didSelectItemAt, for a cell on screen that the array still holds.
SelectCommunity(d) ==
    /\ OnList(d)
    /\ \E i \in 1 .. cells[d] : i <= Len(arrayOfCommunities[d])
    /\ screen' = [screen EXCEPT ![d] = "chat"]
    /\ UNCHANGED <<dbVars, process, appearing, signedIn, list, form>>

\* didSelectItemAt or cellForItemAt, for an item beyond the end of the array:
\* Swift's subscript traps.
IndexOutOfRange(d) ==
    /\ OnList(d)
    /\ \E i \in 1 .. cells[d] : i > Len(arrayOfCommunities[d])
    /\ Stop(d, "trapped")

\* The two "show" segues of CommunityVC.
OpenScreen(d) ==
    /\ OnList(d)
    /\ screen' \in { [screen EXCEPT ![d] = s] : s \in {"create", "settings"} }
    /\ UNCHANGED <<dbVars, process, appearing, signedIn, list, form>>

\* The back button; CreateCommunityVC goes with its field.
Back(d) ==
    /\ screen[d] \in {"create", "settings", "chat"}
    /\ ShowList(d)
    /\ addNewName' = [addNewName EXCEPT ![d] = FALSE]
    /\ requests' = [requests EXCEPT ![d] = {}]
    /\ UNCHANGED <<dbVars, process, signedIn, list>>

\* logoutButton: signOut, then popToRootViewController.
Logout(d) ==
    /\ screen[d] = "settings"
    /\ ShowList(d)
    /\ signedIn' = [signedIn EXCEPT ![d] = FALSE]
    /\ UNCHANGED <<dbVars, process, list, form>>

\* The login screen ends with a user, and dismisses itself.
Login(d) ==
    /\ screen[d] = "login"
    /\ ShowList(d)
    /\ signedIn' = [signedIn EXCEPT ![d] = TRUE]
    /\ UNCHANGED <<dbVars, process, list, form>>

-----------------------------------------------------------------------------
(* CreateCommunityVC.                                                      *)

EditName(d) ==
    /\ screen[d] = "create"
    /\ addNewName' = [addNewName EXCEPT ![d] = ~ @]
    /\ UNCHANGED <<dbVars, process, nav, list, requests>>

CreateCommunityButton(d) ==
    /\ screen[d] = "create"
    /\ addNewName[d]
    /\ \E k \in Key : /\ SetValue(d, k)
                      /\ requests' = [requests EXCEPT ![d] = @ \cup {k}]
    /\ UNCHANGED <<process, nav, list, addNewName>>

\* The completion of setValue empties the field of the screen that asked, be
\* it still the top of the stack or not, whatever has been typed since.
CreateDone(d) ==
    /\ RunCallback(d)
    /\ Head(main[d]).type = "done"
    /\ addNewName' = [addNewName EXCEPT ![d] =
                        @ /\ ~ (Head(main[d]).ok /\ Head(main[d]).key \in requests[d])]
    /\ UNCHANGED <<process, nav, list, requests>>

-----------------------------------------------------------------------------
MainStep(d) == ViewDidAppear(d) \/ ChildAdded(d) \/ CreateDone(d)

UserStep(d) ==
    \/ Launch(d)
    \/ Terminate(d)
    \/ SelectCommunity(d)
    \/ IndexOutOfRange(d)
    \/ OpenScreen(d)
    \/ Back(d)
    \/ Logout(d)
    \/ Login(d)
    \/ EditName(d)
    \/ CreateCommunityButton(d)

Database ==
    /\ RemotePut \/ \E d \in Device : DbStep(d)
    /\ UNCHANGED <<process, nav, list, form>>

Next ==
    \/ \E d \in Device : MainStep(d) \/ UserStep(d)
    \/ Database

Spec == Init /\ [][Next]_vars

\* The queues are served and the server answers; the user, the network and
\* the server's verdict on a write owe nothing.
Fairness ==
    \A d \in Device :
        /\ WF_vars(MainStep(d))
        /\ WF_vars(WorkerStep(d) /\ UNCHANGED <<process, nav, list, form>>)
        /\ WF_vars(AnswerListen(d) /\ UNCHANGED <<process, nav, list, form>>)

FairSpec == Spec /\ Fairness
-----------------------------------------------------------------------------
(* What the list shows.                                                    *)

\* Observer r has appended k since the array was last emptied.
Appended(d, k, r) ==
    \E i \in DOMAIN arrayOfCommunities[d] : arrayOfCommunities[d][i] = <<k, r>>

Listed(d, k) == \E r \in Reg : Appended(d, k, r)

\* No community falls between removeAll and the new observer (viewDidAppear,
\* lines 62-63): the newest observer has appended each named child of the
\* device's view, or its callback is underway, or it waits for the worker, which
\* will tell it of the whole view.
NoLostCommunity ==
    \A d \in Device : \A k \in View(d) \ Malformed :
        \/ Appended(d, k, handles[d])
        \/ Underway(d, k, handles[d])
        \/ Queued(d, handles[d])

\* One observer appends a community once (observeCommunity, lines 22-28), though
\* a created community reaches the device as the local write, as the server's
\* data and, after a reconnection, in a whole new copy of the list.
OncePerObserver ==
    \A d \in Device :
        /\ \A i, j \in DOMAIN arrayOfCommunities[d] :
              arrayOfCommunities[d][i] = arrayOfCommunities[d][j] => i = j
        /\ \A i, j \in Waiting(d) : Event(d, i) = Event(d, j) => i = j
        /\ \A i \in Waiting(d) : /\ Event(d, i) \notin raising[d]
                                 /\ ~ Appended(d, main[d][i].key, main[d][i].reg)
        /\ \A e \in raising[d] : ~ Appended(d, e[1], e[2])

\* A community that the server stores never leaves the list's data again while
\* the app runs: acknowledging the local write (FRepo ackWrite) does not take it
\* out before the server's own data is in.
StoredStaysVisible ==
    [][ \A d \in Device : \A k \in View(d) :
          (k \in committed /\ status'[d] = "running") => k \in View(d)' ]_vars

\* "As a user I can view all chat communities" (README.md:15): what the server
\* stores reaches the list of every device that keeps running.
EventuallyListed ==
    \A d \in Device : \A k \in Key \ Malformed :
        (k \in committed /\ status[d] = "running")
            ~> (Listed(d, k) \/ status[d] # "running")
=============================================================================
