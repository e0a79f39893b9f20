------------------------------ MODULE Session ------------------------------
(***************************************************************************)
(* One device: the navigation stack of the app (login, register,           *)
(* message_controller), driven by the user's taps, by the sign-in state of *)
(* AuthState and by the answers of the Firebase servers.                   *)
(*                                                                         *)
(* Login screens are never popped (login.swift gives them an empty left    *)
(* bar button), so the l-th login screen of the stack owns listener l.     *)
(* Pushing message_controller only puts it on the stack: UIKit loads its   *)
(* view later, and viewDidLoad then asks again and again for the user who  *)
(* is signed in, while the work queue may be signing somebody out.  A      *)
(* popped message_controller lives on in "leaked": its database observers  *)
(* hold it and are never removed.  Titles, and the screens opened from     *)
(* message_controller (chat_collect, new_message), do not change this      *)
(* state and are left out.                                                 *)
(***************************************************************************)
EXTENDS AuthState, FiniteSets
LOCAL INSTANCE Functions

CONSTANTS
  Patient,       \* TRUE: the user lets one request settle before the next
  MaxScreens,    \* bound: no tap pushes a screen on, or signs in from, a higher stack
  MaxQueue,      \* bound: no sign-in or refresh starts while as many blocks wait
  MaxRequests    \* bound: no sign-in starts while as many wait for an answer

ASSUME BoundsAssumption == {MaxScreens, MaxQueue, MaxRequests} \subseteq Nat

VARIABLES
  accounts,      \* the users Firebase Auth knows
  profile,       \* database node user/<uid>: whose data it holds, or None
  unsent,        \* the same, written by this process, not yet stored
  nav,           \* the navigation stack, bottom first
  leaked,        \* accounts without a stored profile that popped inboxes observe
  requests,      \* how many sign-ins of each account wait for an answer
  registration   \* progress of Register.register_to_firebase

netVars == <<accounts, profile, unsent>>
uiVars  == <<nav, leaked, requests, registration>>
vars    == <<authVars, netVars, uiVars>>

(* The reads of the current user in viewDidLoad, in order: for the profile *)
(* that brings the Logout button, and for the list.                        *)
Bar  == 1
List == 2

Reads == UNION {[1..n -> Nullable] : n \in 0..List}

Screen == [kind: {"login", "register", "messages"}, reads: Reads, ready: BOOLEAN]

(* The root of the stack is the login screen of the storyboard.            *)
Stacks == {s \in Seq(Screen) : s # <<>> /\ s[1].kind = "login"}

LoginScreen    == [kind |-> "login", reads |-> <<>>, ready |-> TRUE]
RegisterScreen == [kind |-> "register", reads |-> <<>>, ready |-> TRUE]
NewInbox       == [kind |-> "messages", reads |-> <<>>, ready |-> FALSE]

Idle == [step |-> "idle", user |-> None]
Registration ==
  {Idle} \cup [step: {"creating", "uploading", "linking", "abandoned"}, user: Users]

AppTypeOK ==
  /\ accounts \subseteq Users
  /\ profile \in [Users -> Nullable] /\ unsent \in [Users -> Nullable]
  /\ nav \in Stacks
  /\ leaked \subseteq Users
  /\ requests \in [Users -> Nat]
  /\ registration \in Registration

TypeOK == AuthTypeOK /\ AppTypeOK

NoRequest == [u \in Users |-> 0]
Nobody    == [u \in Users |-> None]

FreshApp(n, k, r, g, w) ==
  n = <<LoginScreen>> /\ k = {} /\ r = NoRequest /\ g = Idle /\ w = Nobody

Init ==
  /\ AuthInit
  /\ accounts \in SUBSET Users
  /\ keychain \in accounts \cup {None}
  /\ profile = [u \in Users |-> IF u \in accounts THEN u ELSE None]
  /\ FreshApp(nav, leaked, requests, registration, unsent)

Top == nav[Len(nav)]

IsInbox(i) == nav[i].kind = "messages"

(* viewDidLoad is between its two reads.                                   *)
Loading(i) == Len(nav[i].reads) = Bar

(* The main thread is between two blocks: no listener of a notification    *)
(* has still to be told, no viewDidLoad is under way.                      *)
Free == phase = "up" /\ ~Telling /\ ~\E i \in DOMAIN nav : Loading(i)

(* A spinner that covers nothing.                                          *)
AlwaysTouchable == Free

(* The spinner that register_to_firebase presents covers every screen.     *)
Touchable == Free /\ registration.step = "idle"

(* The app has reacted to everything the user asked for: a patient user    *)
(* waits for that before the next sign-in or registration.                 *)
Settled == loaded /\ requests = NoRequest /\ mainQ = <<>>

----------------------------------------------------------------------------
(* The process.                                                            *)

Restart == Launch /\ UNCHANGED <<netVars, uiVars>>

Ended(how) ==
  /\ End(how)
  /\ FreshApp(nav', leaked', requests', registration', unsent')
  /\ UNCHANGED <<accounts, profile>>

Kill  == Ended("killed")
Crash == Ended("crashed")

Load(ok) == LoadUser(ok) /\ UNCHANGED <<netVars, uiVars>>

Refresh == Len(mainQ) < MaxQueue /\ RefreshToken /\ UNCHANGED <<netVars, uiVars>>

Revoke(saved) == RevokeUser(saved) /\ UNCHANGED <<netVars, uiVars>>

----------------------------------------------------------------------------
(* Signing in: login.logim.                                                *)

TapLogin(u) ==
  /\ Touchable /\ Top.kind = "login" /\ Len(nav) <= MaxScreens
  /\ SumFunction(requests) < MaxRequests /\ Len(mainQ) < MaxQueue
  /\ Patient => Settled
  /\ requests' = [requests EXCEPT ![u] = @ + 1]
  /\ UNCHANGED <<authVars, netVars, nav, leaked, registration>>

SignInAccepted(u) ==
  /\ u \in accounts /\ requests[u] > 0
  /\ CompleteSignIn(u, "signedIn")
  /\ requests' = [requests EXCEPT ![u] = @ - 1]
  /\ UNCHANGED <<netVars, nav, leaked, registration>>

(* Wrong password, no network, or the user could not be archived: the      *)
(* error is printed.                                                       *)
SignInFails(u) ==
  /\ Ready /\ requests[u] > 0
  /\ requests' = [requests EXCEPT ![u] = @ - 1]
  /\ UNCHANGED <<authVars, netVars, nav, leaked, registration>>

----------------------------------------------------------------------------
(* Registering: Register.register_to_firebase.                             *)

TapRegister ==
  /\ Touchable /\ Top.kind = "login" /\ Len(nav) < MaxScreens
  /\ nav' = Append(nav, RegisterScreen)
  /\ UNCHANGED <<authVars, netVars, leaked, requests, registration>>

StartRegistration(u) ==
  /\ Touchable /\ Top.kind = "register" /\ Len(mainQ) < MaxQueue
  /\ Patient => Settled
  /\ registration' = [step |-> "creating", user |-> u]
  /\ UNCHANGED <<authVars, netVars, nav, leaked, requests>>

Step(from, to) ==
  registration.step = from /\ registration' = [registration EXCEPT !.step = to]

UserCreated ==
  LET u == registration.user IN
  /\ registration.step = "creating" /\ u \notin accounts
  /\ accounts' = accounts \cup {u}
  /\ CompleteSignIn(u, "created")
  /\ UNCHANGED <<profile, unsent, uiVars>>

(* The error is printed and the spinner stays.  The server may have        *)
(* created the account all the same, its answer lost.                      *)
CreationFails ==
  /\ Ready /\ ~\E t \in DOMAIN mainQ : mainQ[t] = Done("created")
  /\ Step("creating", "abandoned")
  /\ accounts' \in {accounts, accounts \cup {registration.user}}
  /\ UNCHANGED <<authVars, profile, unsent, nav, leaked, requests>>

AvatarStored ==
  /\ phase = "up"
  /\ Step("uploading", "linking")
  /\ UNCHANGED <<authVars, netVars, nav, leaked, requests>>

AvatarFails ==
  /\ phase = "up"
  /\ Step("uploading", "abandoned")
  /\ UNCHANGED <<authVars, netVars, nav, leaked, requests>>

(* downloadURL's completion, with a URL or without one: the profile goes   *)
(* under the user who is current now, unwrapped by force, and the inbox is *)
(* pushed for whoever will be current when it loads.                       *)
LinkArrives ==
  /\ Ready /\ Free /\ registration.step = "linking" /\ currentUser # None
  /\ unsent' = [unsent EXCEPT ![currentUser] = registration.user]
  /\ registration' = Idle
  /\ nav' = Append(nav, NewInbox)
  /\ UNCHANGED <<authVars, accounts, profile, leaked, requests>>

(* A link that is ignored when nobody is signed in.                        *)
LinkIgnoredSignedOut ==
  /\ Ready /\ registration.step = "linking" /\ currentUser = None
  /\ UNCHANGED vars

LinkArrivesSignedOut ==
  Ready /\ Free /\ registration.step = "linking" /\ currentUser = None /\ Crash

(* Nothing removes a stored profile: who observes it will always find one. *)
ProfileStored(u) ==
  /\ phase = "up" /\ unsent[u] # None
  /\ profile' = [profile EXCEPT ![u] = unsent[u]]
  /\ unsent' = [unsent EXCEPT ![u] = None]
  /\ leaked' = leaked \ {u}
  /\ UNCHANGED <<authVars, accounts, nav, requests, registration>>

(* The server refuses the write: the client takes it back, and             *)
(* register_to_firebase ignores the error.                                 *)
ProfileRefused(u) ==
  /\ phase = "up" /\ unsent[u] # None
  /\ unsent' = [unsent EXCEPT ![u] = None]
  /\ UNCHANGED <<authVars, accounts, profile, uiVars>>

----------------------------------------------------------------------------
(* message_controller.                                                     *)

(* UIKit loads the view of an inbox that is shown or about to be, never of *)
(* one that another screen covers.                                         *)
Showable(i) == \A j \in i..Len(nav) : IsInbox(j)

(* One read of viewDidLoad.  The first starts it on a free main thread,    *)
(* the second follows before anything else runs there; each waits for the  *)
(* work queue and sees what it left.  A read that finds nobody registers   *)
(* no observer.                                                            *)
ReadUser(i) ==
  /\ Ready /\ Showable(i) /\ Len(nav[i].reads) < List
  /\ Free \/ Loading(i)
  /\ nav' = [nav EXCEPT ![i].reads = Append(@, currentUser)]
  /\ UNCHANGED <<authVars, netVars, leaked, requests, registration>>

(* What an observer of user/<u> is given: a local write shadows the node.  *)
Visible(u) == IF unsent[u] # None THEN unsent[u] ELSE profile[u]

(* The inboxes whose buttons depend on user/<u>.                           *)
Barred(u) == {i \in DOMAIN nav : nav[i].reads # <<>> /\ nav[i].reads[Bar] = u}

Observed(u) == u \in leaked \/ Barred(u) # {}

(* The Logout and New buttons replace the back button when the node        *)
(* arrives.                                                                *)
ProfileArrives(u) ==
  /\ Free /\ Visible(u) # None
  /\ \E i \in Barred(u) : ~nav[i].ready
  /\ nav' = [i \in DOMAIN nav |->
               IF i \in Barred(u) THEN [nav[i] EXCEPT !.ready = TRUE] ELSE nav[i]]
  /\ UNCHANGED <<authVars, netVars, leaked, requests, registration>>

(* An observer that is raised before the server has answered, with what    *)
(* this process wrote.                                                     *)
NoProfileWritten(u) ==
  /\ Free /\ Observed(u) /\ unsent[u] = None
  /\ Crash

(* "snap.value as! NSDictionary" on an absent node.                        *)
NoProfileArrives(u) ==
  /\ Free /\ Observed(u) /\ Visible(u) = None
  /\ Crash

Pop ==
  /\ nav' = SubSeq(nav, 1, Len(nav) - 1)
  /\ leaked' = leaked \cup {u \in Users : profile[u] = None /\ Len(nav) \in Barred(u)}
  /\ UNCHANGED <<authVars, netVars, requests, registration>>

(* A login screen that keeps its back button.                              *)
BackPastLogin ==
  /\ Touchable /\ Len(nav) > 1
  /\ ~(Top.kind = "messages" /\ (Top.ready \/ Len(Top.reads) < List))
  /\ Pop

(* A back button on the root of the stack.                                 *)
BackPastRoot == Touchable /\ Pop

(* The back button: of a register screen, or of a loaded inbox that has no *)
(* Logout button yet.                                                      *)
Back ==
  /\ Touchable
  /\ \/ Top.kind = "register"
     \/ Top.kind = "messages" /\ ~Top.ready /\ Len(Top.reads) = List
  /\ Pop

Logout(saved) ==
  /\ Touchable /\ Top.kind = "messages" /\ Top.ready /\ Len(nav) < MaxScreens
  /\ SignOutAndListen(saved)
  /\ nav' = Append(nav, LoginScreen)
  /\ UNCHANGED <<netVars, leaked, requests, registration>>

----------------------------------------------------------------------------
(* The main queue.                                                         *)

(* The called listener pushes message_controller when a user is signed in  *)
(* (login.is_logined).                                                     *)
RunListener ==
  /\ IsNext("notify") \/ IsNext("first")
  /\ RunMainQ
  /\ nav' = IF currentUser # None /\ Called # {} THEN Append(nav, NewInbox) ELSE nav
  /\ UNCHANGED <<netVars, leaked, requests, registration>>

(* logim's completion does nothing on success.                             *)
RunSignedIn == IsNext("signedIn") /\ RunMainQ /\ UNCHANGED <<netVars, uiVars>>

(* createUser's completion starts the upload of the avatar.                *)
RunCreated ==
  /\ IsNext("created") /\ RunMainQ
  /\ Step("creating", "uploading")
  /\ UNCHANGED <<netVars, nav, leaked, requests>>

MainQueue ==
  /\ Free \/ Telling
  /\ RunListener \/ RunSignedIn \/ RunCreated

Answers ==
  \/ UserCreated \/ CreationFails \/ AvatarStored \/ AvatarFails
  \/ LinkArrives \/ LinkArrivesSignedOut
  \/ \E u \in Users : \/ SignInAccepted(u) \/ SignInFails(u)
                      \/ ProfileStored(u) \/ ProfileRefused(u)
                      \/ ProfileArrives(u) \/ NoProfileArrives(u)

Taps ==
  \/ TapRegister \/ Back
  \/ \E u \in Users : TapLogin(u) \/ StartRegistration(u)
  \/ \E saved \in BOOLEAN : Logout(saved)

Next ==
  \/ Restart \/ Kill \/ Refresh
  \/ \E ok \in BOOLEAN : Load(ok) \/ Revoke(ok)
  \/ \E i \in DOMAIN nav : ReadUser(i)
  \/ MainQueue \/ Answers \/ Taps

Spec == Init /\ [][Next]_vars

(* The queues drain, and every request is answered or fails: the main and  *)
(* the work queue keep running, the SDK's requests time out, and the       *)
(* database connection comes back.  What needs a free main thread gets its *)
(* turn between the notifications (strong fairness): the main queue serves *)
(* in order, and each pass of the run loop lays the top screen out.        *)
(* Nothing makes the user tap.                                             *)
FairSpec ==
  /\ Spec
  /\ WF_vars(MainQueue)
  /\ WF_vars(\E ok \in BOOLEAN : Load(ok))
  /\ WF_vars(\E i \in DOMAIN nav : Loading(i) /\ ReadUser(i))
  /\ SF_vars(ReadUser(Len(nav)))
  /\ WF_vars(UserCreated \/ CreationFails)
  /\ WF_vars(AvatarStored \/ AvatarFails)
  /\ SF_vars(LinkArrives \/ LinkArrivesSignedOut)

----------------------------------------------------------------------------
(* The inbox a user looks at is their own: neither read of a              *)
(* message_controller on top of the stack has found anybody but the        *)
(* signed-in user, and none has found nobody, as long as somebody is       *)
(* signed in (it never looks again).                                       *)
InboxIsOwn ==
  Top.kind = "messages" /\ currentUser # None =>
    \A r \in DOMAIN Top.reads : Top.reads[r] = currentUser

(* No inbox shows one account's Logout button or name over another one's   *)
(* list: the reads of one viewDidLoad find at most one account, whatever   *)
(* the work queue does between them; a forced sign-out can only make the   *)
(* later ones find nobody.                                                 *)
InboxOfOneAccount ==
  \A i \in DOMAIN nav : \A r, s \in DOMAIN nav[i].reads :
    nav[i].reads[r] = nav[i].reads[s] \/ None \in {nav[i].reads[r], nav[i].reads[s]}

(* A user's node never holds the name, e-mail and password somebody else   *)
(* typed: the uid that register_to_firebase reads after the upload is      *)
(* still that of the account it created.                                   *)
ProfileIsOwn == \A u \in Users : {profile[u], unsent[u]} \subseteq {u, None}

(* What crashes these screens is an account without a profile: one that an *)
(* inbox observes, open or left, or the one whose registration is being    *)
(* written up.  No inbox ever unwraps the node of a user who has one,      *)
(* written by this process or stored, and none observes a user Firebase    *)
(* Auth does not know.  (The cells of an inbox have crashes of their own:  *)
(* see Inbox and Pictures.)                                                *)
CrashHasBareAccount ==
  [][phase = "up" /\ phase' = "crashed" =>
       \E u \in accounts :
         /\ profile[u] = None /\ unsent[u] = None
         /\ Observed(u) \/ registration = [step |-> "linking", user |-> u]]_vars

(* Each login screen registered one listener and none is ever lost or      *)
(* registered twice, so listener l always finds its screen in the stack.   *)
OneListenerPerLogin == Cardinality({i \in DOMAIN nav : nav[i].kind = "login"}) = Len(seen)

(* Every listener is told of a sign-in, however many refreshes, sign-outs  *)
(* and screens come in between, unless the user changes again or the       *)
(* process ends.                                                           *)
SignInReachesListeners ==
  \A u \in Users :
    currentUser = u ~> \/ currentUser # u \/ phase # "up"
                       \/ \A l \in DOMAIN seen : seen[l] = u

(* A restart brings a signed-in user back to the inbox without a tap.      *)
LaunchOpensInbox ==
  \A u \in Users :
    phase = "up" /\ ~loaded /\ keychain = u ~>
      \/ phase # "up" \/ keychain # u
      \/ \E i \in DOMAIN nav : nav[i].reads = [r \in 1..List |-> u]

(* A registration never hangs between two answers: it ends in the inbox,   *)
(* or on an error path, which leaves the spinner up for good, or with the  *)
(* process.                                                                *)
RegistrationStops ==
  registration # Idle ~> registration.step \in {"idle", "abandoned"} \/ phase # "up"

----------------------------------------------------------------------------
(* How far an account got: its node may be missing, be under way from this *)
(* process, or be stored.                                                  *)
life ==
  [u \in Users |-> IF unsent[u] # None THEN "writing"
                   ELSE IF profile[u] # None THEN "whole"
                   ELSE IF u \in accounts THEN "bare"
                   ELSE "none"]

(* Between createUser's answer and the link a registration has an account  *)
(* to describe.                                                            *)
pending ==
  IF registration.step \in {"uploading", "linking"} \/ \E k \in DOMAIN mainQ : mainQ[k] = Done("created")
  THEN registration.user ELSE None

R == INSTANCE Registry

(* With one request at a time a registration implements Registry: only the *)
(* account it created gets its node, nobody's node is ever written again,  *)
(* and an account left without one has none for good, whoever signs in,    *)
(* registers or restarts afterwards: the inbox that crashes on it does so  *)
(* at every launch.                                                        *)
ImplementsRegistry == R!Spec

----------------------------------------------------------------------------
(* What the comments of the code promise and the code does not keep; each  *)
(* is checked by a run that is expected to find it violated.               *)

(* One sign-in moves to the inbox once: no account's message_controller is *)
(* pushed right on top of another one of the same account (login.swift     *)
(* 87-88).                                                                 *)
MovesOnce ==
  \A i \in 2..Len(nav), u \in Users : ~({i - 1, i} \subseteq Barred(u))

(* A sign-in moves: the notification that comes right before logim's       *)
(* completion finds a listener to call, and with it a screen that pushes   *)
(* message_controller, unless nobody is signed in any more (login.swift    *)
(* 87).                                                                    *)
SignInMoves ==
  /\ Len(mainQ) > 1 /\ mainQ[1] = Notify(1) /\ mainQ[2] = Done("signedIn")
  /\ currentUser # None
  => \E l \in DOMAIN seen : seen[l] # currentUser

(* A registration is not ended by a crash (Register.swift 65).             *)
RegistrationSurvives ==
  [][phase = "up" /\ phase' = "crashed" => registration = Idle]_vars
============================================================================
