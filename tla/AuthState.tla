----------------------------- MODULE AuthState -----------------------------
(***************************************************************************)
(* The sign-in state of one running app as FIRAuth keeps it: the user held *)
(* in memory, the copy in the keychain, and the state listeners that the   *)
(* app's login screens register (login.swift is_logined).  FIRAuth changes *)
(* its state on one serial work queue and tells the listeners through      *)
(* blocks it appends to the main queue, so a listener always runs later    *)
(* than the change it is told about.  Each listener of a notification asks *)
(* for the current user on its own: the work queue may change the user     *)
(* between one listener and the next.                                      *)
(*                                                                         *)
(* Every sign-in and every token refresh yields a token that was never     *)
(* posted before, and signing out goes from some token to none, so the     *)
(* comparison with _lastNotifiedUserToken never suppresses a post here.    *)
(***************************************************************************)
EXTENDS Integers, Sequences

CONSTANTS
  Users,         \* the accounts a person may use on this device
  None,          \* no user (nil)
  Unset,         \* previousUserID of a listener that was never invoked
  KeychainFails  \* TRUE iff keychain reads and writes may return an error

ASSUME NilAssumption == None \notin Users /\ Unset \notin Users \cup {None}
ASSUME KeychainAssumption == KeychainFails \in BOOLEAN

VARIABLES
  phase,        \* "up", or how the process ended: "crashed" or "killed"
  loaded,       \* the work queue has run the block that reads the keychain
  currentUser,  \* FIRAuth._currentUser
  keychain,     \* the user archived in the keychain; survives the process
  mainQ,        \* blocks FIRAuth has dispatched to the main queue, in order
  seen          \* previousUserID of the listeners, in registration order

authVars == <<phase, loaded, currentUser, keychain, mainQ, seen>>

Nullable == Users \cup {None}

Task == [kind: {"notify", "first", "signedIn", "created"}, listener: Nat]

(* A notification with its first m - 1 listeners told already.             *)
Notify(m) == [kind |-> "notify", listener |-> m]
First(l)  == [kind |-> "first", listener |-> l]
Done(flow) == [kind |-> flow, listener |-> 0]

AuthTypeOK ==
  /\ phase \in {"up", "crashed", "killed"}
  /\ loaded \in BOOLEAN
  /\ currentUser \in Nullable
  /\ keychain \in Nullable
  /\ mainQ \in Seq(Task)
  /\ seen \in Seq(Nullable \cup {Unset})

(* What a process finds when it starts: nothing loaded yet, and the        *)
(* listener of the root login screen waiting for its first invocation.     *)
(* The memory of a process that ended is gone.                             *)
FreshProcess(l, c, q, s) ==
  l = FALSE /\ c = None /\ q = <<First(1)>> /\ s = <<Unset>>

AuthInit ==
  /\ phase = "up"
  /\ FreshProcess(loaded, currentUser, mainQ, seen)
  /\ keychain \in Nullable

Launch ==
  /\ phase # "up"
  /\ phase' = "up"
  /\ UNCHANGED <<loaded, currentUser, keychain, mainQ, seen>>

End(how) ==
  /\ phase = "up"
  /\ phase' = how
  /\ FreshProcess(loaded', currentUser', mainQ', seen')
  /\ UNCHANGED keychain

----------------------------------------------------------------------------
(* The work queue.  Its first block loads the archived user; everything    *)
(* else is queued behind it.                                               *)

Ready == phase = "up" /\ loaded

(* possiblyPostAuthStateChangeNotification; "next" is what the caller      *)
(* dispatches to the main queue after it.                                  *)
PostAuthChange(next) == mainQ' = mainQ \o <<Notify(1)>> \o next

(* A start-up that takes the archived user for one already announced.      *)
LoadUnannounced(read) ==
  /\ phase = "up" /\ ~loaded
  /\ read \/ KeychainFails
  /\ loaded' = TRUE
  /\ currentUser' = IF read THEN keychain ELSE None
  /\ UNCHANGED <<phase, keychain, mainQ, seen>>

(* getUser fails when the keychain read fails: the process then runs       *)
(* signed out although a user is archived.                                 *)
LoadUser(read) ==
  /\ phase = "up" /\ ~loaded
  /\ read \/ KeychainFails
  /\ loaded' = TRUE
  /\ currentUser' = IF read THEN keychain ELSE None
  /\ IF currentUser' = None THEN UNCHANGED mainQ ELSE PostAuthChange(<<>>)
  /\ UNCHANGED <<phase, keychain, seen>>

(* An updateCurrentUser that archives a user but never removes one.        *)
UpdateWithoutRemoval(user, force, saved, next) ==
  /\ Ready
  /\ saved \/ KeychainFails
  /\ keychain' = IF saved /\ user # None THEN user ELSE keychain
  /\ currentUser' = user
  /\ PostAuthChange(next)
  /\ UNCHANGED <<phase, loaded>>

(* updateCurrentUser: save first; a failed save leaves the user in memory  *)
(* alone unless the change is forced.                                      *)
UpdateCurrentUser(user, force, saved, next) ==
  /\ Ready
  /\ saved \/ KeychainFails
  /\ keychain' = IF saved THEN user ELSE keychain
  /\ \/ /\ saved \/ force
        /\ currentUser' = user
        /\ PostAuthChange(next)
     \/ /\ ~saved /\ ~force
        /\ currentUser' = currentUser
        /\ mainQ' = mainQ \o next
  /\ UNCHANGED <<phase, loaded>>

(* A sign-in whose completion is all that reaches the main queue.          *)
SignInUnannounced(user, flow) ==
  /\ Ready
  /\ currentUser' = user /\ keychain' = user
  /\ mainQ' = Append(mainQ, Done(flow))
  /\ UNCHANGED <<phase, loaded, seen>>

(* A sign-in or createUser answered by the server: the notification is     *)
(* dispatched before the caller's completion.                              *)
CompleteSignIn(user, flow) ==
  /\ UpdateCurrentUser(user, FALSE, TRUE, <<Done(flow)>>)
  /\ UNCHANGED seen

(* A forced sign-out that only drops the user.                             *)
RevokeUnannounced(saved) ==
  /\ Ready /\ currentUser # None
  /\ saved \/ KeychainFails
  /\ currentUser' = None
  /\ keychain' = IF saved THEN None ELSE keychain
  /\ UNCHANGED <<phase, loaded, mainQ, seen>>

(* The server found the token invalid or the account disabled.             *)
RevokeUser(saved) ==
  /\ currentUser # None
  /\ UpdateCurrentUser(None, TRUE, saved, <<>>)
  /\ UNCHANGED seen

RefreshToken ==
  /\ Ready /\ currentUser # None
  /\ PostAuthChange(<<>>)
  /\ UNCHANGED <<phase, loaded, currentUser, keychain, seen>>

----------------------------------------------------------------------------
(* The main queue.                                                         *)

(* A notification has some of its listeners told and others not: nothing   *)
(* else runs on the main thread until all are.                             *)
Telling ==
  mainQ # <<>> /\ Head(mainQ).kind = "notify" /\ Head(mainQ).listener > 1

(* signOut returns early when nobody is signed in.  The login screen that  *)
(* handle_logout shows afterwards, whatever signOut returned, registers a  *)
(* listener of its own; those of earlier login screens stay registered.    *)
SignOutAndListen(saved) ==
  LET newListener == <<First(Len(seen) + 1)>> IN
  /\ ~Telling
  /\ seen' = Append(seen, Unset)
  /\ \/ /\ Ready /\ currentUser = None
        /\ mainQ' = mainQ \o newListener
        /\ UNCHANGED <<phase, loaded, currentUser, keychain>>
     \/ /\ currentUser # None
        /\ UpdateCurrentUser(None, FALSE, saved, newListener)

IsNext(kind) == phase = "up" /\ mainQ # <<>> /\ Head(mainQ).kind = kind

(* The listener whose turn it is in the block at the head of the main queue.*)
Told == {l \in DOMAIN seen : Head(mainQ) \in {Notify(l), First(l)}}

(* A listener calls the app's block on its first invocation and whenever   *)
(* the user id differs from the one it saw before.                         *)
Called == {l \in Told : seen[l] # currentUser}

(* A notification stays at the head until its last listener was told.      *)
RunMainQ ==
  /\ mainQ' = IF Head(mainQ).kind = "notify" /\ Head(mainQ).listener < Len(seen)
              THEN <<Notify(Head(mainQ).listener + 1)>> \o Tail(mainQ)
              ELSE Tail(mainQ)
  /\ seen' = [l \in DOMAIN seen |-> IF l \in Told THEN currentUser ELSE seen[l]]
  /\ UNCHANGED <<phase, loaded, currentUser, keychain>>

AuthNext ==
  \/ Launch
  \/ \E how \in {"crashed", "killed"} : End(how)
  \/ \E ok \in BOOLEAN : LoadUser(ok) \/ RevokeUser(ok) \/ SignOutAndListen(ok)
  \/ \E u \in Users, flow \in {"signedIn", "created"} : CompleteSignIn(u, flow)
  \/ RefreshToken
  \/ \E kind \in {"notify", "first", "signedIn", "created"} :
       IsNext(kind) /\ RunMainQ

AuthSpec == AuthInit /\ [][AuthNext]_authVars

----------------------------------------------------------------------------
(* No listener misses a change: a login screen whose listener last saw     *)
(* another user than the current one has a block pending on the main queue *)
(* in which its turn is still to come.  FIRAuth.m has to post after every  *)
(* path that changes _currentUser, forced or not, and the first invocation *)
(* has to cover the gap between registering and the next post.             *)
ListenersCatchUp ==
  \A l \in DOMAIN seen : seen[l] # currentUser =>
    \E k \in DOMAIN mainQ : mainQ[k] = First(l) \/ \E m \in 1..l : mainQ[k] = Notify(m)

(* What the process believes is what a restart would restore, once the     *)
(* keychain was read.                                                      *)
KeychainAgrees == loaded => keychain = currentUser
============================================================================
