-------------------------- MODULE AuthStateProofs --------------------------
(***************************************************************************)
(* AuthState for any set of users, any number of listeners and any length  *)
(* of the main queue: no listener misses a change of the current user, and *)
(* with a reliable keychain memory and keychain agree.                     *)
(***************************************************************************)
EXTENDS AuthState, SequenceTheorems, TLAPS

(* The turn of listener l is still to come in the block t.                 *)
Tells(t, l) == t = First(l) \/ \E m \in 1..l : t = Notify(m)

LEMMA TaskType ==
  /\ \A m \in Nat : Notify(m) \in Task
  /\ \A l \in Nat : First(l) \in Task
  /\ \A flow \in {"signedIn", "created"} : Done(flow) \in Task
BY DEF Notify, First, Done, Task

LEMMA PostType ==
  ASSUME mainQ \in Seq(Task), NEW next \in Seq(Task), PostAuthChange(next)
  PROVE  mainQ' \in Seq(Task)
<1>1. <<Notify(1)>> \in Seq(Task)
  BY TaskType
<1>2. mainQ \o <<Notify(1)>> \in Seq(Task)
  BY <1>1, ConcatProperties
<1> QED
  BY <1>2, ConcatProperties DEF PostAuthChange

(* A post leaves a notification pending, whatever user it is about.        *)
LEMMA PostPends ==
  ASSUME mainQ \in Seq(Task), NEW next \in Seq(Task), PostAuthChange(next)
  PROVE  \E k \in DOMAIN mainQ' : mainQ'[k] = Notify(1)
<1>1. <<Notify(1)>> \in Seq(Task)
  BY TaskType
<1>2. /\ mainQ \o <<Notify(1)>> \in Seq(Task)
      /\ Len(mainQ \o <<Notify(1)>>) = Len(mainQ) + 1
      /\ (mainQ \o <<Notify(1)>>)[Len(mainQ) + 1] = Notify(1)
  BY <1>1
<1>3. mainQ' = (mainQ \o <<Notify(1)>>) \o next
  BY DEF PostAuthChange
<1>4. /\ Len(mainQ) + 1 \in DOMAIN mainQ'
      /\ mainQ'[Len(mainQ) + 1] = Notify(1)
  BY <1>2, <1>3, LenProperties
<1> QED
  BY <1>4

(* Appending to the main queue keeps what is pending.                      *)
LEMMA ConcatKeeps ==
  ASSUME NEW q \in Seq(Task), NEW next \in Seq(Task), NEW k \in DOMAIN q
  PROVE  k \in DOMAIN (q \o next) /\ (q \o next)[k] = q[k]
OBVIOUS

LEMMA LastOfConcat ==
  ASSUME NEW q \in Seq(Task), NEW t \in Task
  PROVE  /\ q \o <<t>> \in Seq(Task)
         /\ Len(q) + 1 \in DOMAIN (q \o <<t>>)
         /\ (q \o <<t>>)[Len(q) + 1] = t
OBVIOUS

(* Before the keychain is read nobody is signed in: what lets a load that  *)
(* finds no user go without a post.                                        *)
NothingLoadedYet == ~loaded => currentUser = None

AuthInv == AuthTypeOK /\ NothingLoadedYet /\ ListenersCatchUp

LEMMA InitHolds == AuthInit => AuthInv
<1> SUFFICES ASSUME AuthInit PROVE AuthInv
  OBVIOUS
<1>1. <<First(1)>> \in Seq(Task) /\ <<Unset>> \in Seq(Nullable \cup {Unset})
  BY TaskType
<1>2. AuthTypeOK
  BY <1>1 DEF AuthInit, FreshProcess, AuthTypeOK, Nullable
<1>3. ListenersCatchUp
  BY DEF AuthInit, FreshProcess, ListenersCatchUp
<1> QED
  BY <1>2, <1>3 DEF AuthInv, NothingLoadedYet, AuthInit, FreshProcess

----------------------------------------------------------------------------
(* One lemma per way the state changes.                                    *)

LEMMA LaunchKeeps ==
  ASSUME AuthInv, Launch
  PROVE  AuthInv'
BY DEF AuthInv, AuthTypeOK, NothingLoadedYet, ListenersCatchUp, Launch

LEMMA EndKeeps ==
  ASSUME AuthInv, NEW how \in {"crashed", "killed"}, End(how)
  PROVE  AuthInv'
<1>1. <<First(1)>> \in Seq(Task) /\ <<Unset>> \in Seq(Nullable \cup {Unset})
  BY TaskType
<1>2. AuthTypeOK'
  BY <1>1 DEF End, FreshProcess, AuthInv, AuthTypeOK, Nullable
<1>3. ListenersCatchUp'
  BY DEF End, FreshProcess, ListenersCatchUp
<1> QED
  BY <1>2, <1>3 DEF AuthInv, NothingLoadedYet, End, FreshProcess

(* A posted notification covers every listener.                            *)
LEMMA PostCatchesUp ==
  ASSUME mainQ \in Seq(Task), NEW next \in Seq(Task), PostAuthChange(next),
         seen' \in Seq(Nullable \cup {Unset})
  PROVE  ListenersCatchUp'
<1>1. PICK k \in DOMAIN mainQ' : mainQ'[k] = Notify(1)
  BY PostPends
<1>2. ASSUME NEW l \in DOMAIN seen' PROVE 1 \in 1..l
  OBVIOUS
<1> QED
  BY <1>1, <1>2 DEF ListenersCatchUp

LEMMA LoadKeeps ==
  ASSUME AuthInv, NEW read \in BOOLEAN, LoadUser(read)
  PROVE  AuthInv'
<1> USE DEF AuthInv
<1>1. currentUser' \in Nullable /\ NothingLoadedYet'
  BY DEF LoadUser, AuthTypeOK, Nullable, NothingLoadedYet
<1>2. CASE currentUser' = None
  <2>1. UNCHANGED mainQ /\ currentUser = None
    BY <1>2 DEF LoadUser, NothingLoadedYet
  <2>2. AuthTypeOK'
    BY <1>1, <2>1 DEF LoadUser, AuthTypeOK
  <2>3. ListenersCatchUp'
    BY <1>2, <2>1 DEF LoadUser, ListenersCatchUp
  <2> QED
    BY <1>1, <2>2, <2>3
<1>3. CASE currentUser' # None
  <2>1. /\ PostAuthChange(<<>>) /\ <<>> \in Seq(Task) /\ mainQ \in Seq(Task)
        /\ seen' \in Seq(Nullable \cup {Unset})
    BY <1>3 DEF LoadUser, AuthTypeOK
  <2>2. mainQ' \in Seq(Task) /\ ListenersCatchUp'
    BY <2>1, PostType, PostCatchesUp
  <2>3. AuthTypeOK'
    BY <1>1, <2>2 DEF LoadUser, AuthTypeOK
  <2> QED
    BY <1>1, <2>2, <2>3
<1> QED
  BY <1>2, <1>3

(* Every change that goes through updateCurrentUser and posts, with the    *)
(* listeners left alone or one added.                                      *)
LEMMA UpdateKeeps ==
  ASSUME AuthInv, NEW user \in Nullable, NEW force \in BOOLEAN, NEW saved \in BOOLEAN,
         NEW next \in Seq(Task), seen' \in Seq(Nullable \cup {Unset}),
         UpdateCurrentUser(user, force, saved, next), saved \/ force
  PROVE  AuthInv'
<1> USE DEF AuthInv
<1>1. PostAuthChange(next) /\ mainQ \in Seq(Task)
  BY DEF UpdateCurrentUser, AuthTypeOK
<1>2. mainQ' \in Seq(Task) /\ ListenersCatchUp'
  BY <1>1, PostType, PostCatchesUp
<1>3. AuthTypeOK' /\ NothingLoadedYet'
  BY <1>2 DEF UpdateCurrentUser, AuthTypeOK, NothingLoadedYet, Ready
<1> QED
  BY <1>2, <1>3

LEMMA SignInKeeps ==
  ASSUME AuthInv, NEW u \in Users, NEW flow \in {"signedIn", "created"},
         CompleteSignIn(u, flow)
  PROVE  AuthInv'
<1>1. <<Done(flow)>> \in Seq(Task) /\ u \in Nullable
  BY TaskType DEF Nullable
<1>2. seen' \in Seq(Nullable \cup {Unset})
  BY DEF CompleteSignIn, AuthInv, AuthTypeOK
<1> QED
  BY <1>1, <1>2, UpdateKeeps DEF CompleteSignIn

LEMMA RevokeKeeps ==
  ASSUME AuthInv, NEW saved \in BOOLEAN, RevokeUser(saved)
  PROVE  AuthInv'
<1>1. <<>> \in Seq(Task) /\ None \in Nullable
  BY DEF Nullable
<1>2. seen' \in Seq(Nullable \cup {Unset})
  BY DEF RevokeUser, AuthInv, AuthTypeOK
<1> QED
  BY <1>1, <1>2, UpdateKeeps DEF RevokeUser

LEMMA RefreshKeeps ==
  ASSUME AuthInv, RefreshToken
  PROVE  AuthInv'
<1> USE DEF AuthInv
<1>1. /\ PostAuthChange(<<>>) /\ <<>> \in Seq(Task) /\ mainQ \in Seq(Task)
      /\ seen' \in Seq(Nullable \cup {Unset})
  BY DEF RefreshToken, AuthTypeOK
<1>2. mainQ' \in Seq(Task) /\ ListenersCatchUp'
  BY <1>1, PostType, PostCatchesUp
<1> QED
  BY <1>2 DEF RefreshToken, AuthTypeOK, NothingLoadedYet

(* Adding a listener with its first invocation pending, the user as it was.*)
LEMMA ListenKeeps ==
  ASSUME AuthInv, seen' = Append(seen, Unset),
         mainQ' = mainQ \o <<First(Len(seen) + 1)>>,
         UNCHANGED <<phase, loaded, currentUser, keychain>>
  PROVE  AuthInv'
<1> USE DEF AuthInv
<1>1. Len(seen) + 1 \in Nat /\ mainQ \in Seq(Task) /\ seen \in Seq(Nullable \cup {Unset})
  BY DEF AuthTypeOK
<1>2. First(Len(seen) + 1) \in Task
  BY <1>1, TaskType
<1>3. AuthTypeOK'
  BY <1>1, <1>2, LastOfConcat DEF AuthTypeOK
<1>4. ASSUME NEW l \in DOMAIN seen', seen'[l] # currentUser'
      PROVE  \E k \in DOMAIN mainQ' : Tells(mainQ'[k], l)
  <2>1. CASE l \in DOMAIN seen
    <3>1. seen[l] # currentUser
      BY <1>1, <1>4, <2>1
    <3>2. PICK k \in DOMAIN mainQ : Tells(mainQ[k], l)
      BY <2>1, <3>1 DEF ListenersCatchUp, Tells
    <3>3. k \in DOMAIN mainQ' /\ mainQ'[k] = mainQ[k]
      BY <1>1, <1>2, ConcatKeeps
    <3> QED
      BY <3>2, <3>3
  <2>2. CASE l = Len(seen) + 1
    BY <1>1, <1>2, <2>2, LastOfConcat DEF Tells
  <2> QED
    BY <1>1, <2>1, <2>2
<1>5. ListenersCatchUp'
  BY <1>4 DEF ListenersCatchUp, Tells
<1> QED
  BY <1>3, <1>5 DEF NothingLoadedYet

LEMMA SignOutKeeps ==
  ASSUME AuthInv, NEW saved \in BOOLEAN, SignOutAndListen(saved)
  PROVE  AuthInv'
<1>1. seen \in Seq(Nullable \cup {Unset}) /\ seen' = Append(seen, Unset)
  BY DEF SignOutAndListen, AuthInv, AuthTypeOK
<1>2. seen' \in Seq(Nullable \cup {Unset}) /\ <<First(Len(seen) + 1)>> \in Seq(Task)
  BY <1>1, TaskType
<1>3. CASE currentUser # None /\ saved
  BY <1>2, <1>3, UpdateKeeps DEF SignOutAndListen, Nullable
<1>4. CASE ~(currentUser # None /\ saved)
  <2>1. /\ mainQ' = mainQ \o <<First(Len(seen) + 1)>>
        /\ UNCHANGED <<phase, loaded, currentUser>>
    BY <1>4 DEF SignOutAndListen, UpdateCurrentUser
  <2>2. UNCHANGED keychain
    BY <1>4 DEF SignOutAndListen, UpdateCurrentUser
  <2> QED
    BY <1>1, <2>1, <2>2, ListenKeeps
<1> QED
  BY <1>3, <1>4

(* The main queue after its head ran: a notification with listeners still  *)
(* to tell stays at the head, anything else goes.                          *)
LEMMA RunQueue ==
  ASSUME mainQ \in Seq(Task), mainQ # <<>>, seen \in Seq(Nullable \cup {Unset}), RunMainQ
  PROVE  /\ mainQ' \in Seq(Task)
         /\ \/ /\ Head(mainQ).kind = "notify" /\ Head(mainQ).listener < Len(seen)
               /\ DOMAIN mainQ' = DOMAIN mainQ
               /\ mainQ'[1] = Notify(Head(mainQ).listener + 1)
               /\ \A k \in DOMAIN mainQ \ {1} : mainQ'[k] = mainQ[k]
            \/ /\ ~(Head(mainQ).kind = "notify" /\ Head(mainQ).listener < Len(seen))
               /\ mainQ' = Tail(mainQ)
               /\ \A k \in DOMAIN mainQ \ {1} :
                    k - 1 \in DOMAIN mainQ' /\ mainQ'[k - 1] = mainQ[k]
<1> DEFINE h == Head(mainQ)
<1>1. h \in Task /\ h = mainQ[1] /\ Tail(mainQ) \in Seq(Task)
  OBVIOUS
<1>2. CASE h.kind = "notify" /\ h.listener < Len(seen)
  <2> DEFINE n == Notify(h.listener + 1)
  <2>1. n \in Task
    <3>1. h.listener + 1 \in Nat
      BY <1>1 DEF Task
    <3> QED
      BY <3>1, TaskType
  <2>2. mainQ' = <<n>> \o Tail(mainQ)
    BY <1>2 DEF RunMainQ
  <2> HIDE DEF n
  <2>3. /\ mainQ' \in Seq(Task) /\ Len(mainQ') = Len(mainQ)
        /\ mainQ'[1] = n
        /\ \A k \in DOMAIN mainQ \ {1} : mainQ'[k] = mainQ[k]
    BY <2>1, <2>2
  <2> QED
    BY <1>2, <2>3 DEF n
<1>3. CASE ~(h.kind = "notify" /\ h.listener < Len(seen))
  <2>1. mainQ' = Tail(mainQ)
    BY <1>3 DEF RunMainQ
  <2> QED
    BY <1>1, <1>3, <2>1
<1> QED
  BY <1>2, <1>3

(* Running the head of the main queue: a listener that still lags was not  *)
(* told, so its turn is later in the same notification or further down.    *)
LEMMA RunKeeps ==
  ASSUME AuthInv, mainQ # <<>>, RunMainQ
  PROVE  AuthInv'
<1> USE DEF AuthInv
<1>1. /\ mainQ \in Seq(Task) /\ seen \in Seq(Nullable \cup {Unset})
      /\ currentUser \in Nullable
  BY DEF AuthTypeOK
<1>2. /\ seen' \in Seq(Nullable \cup {Unset})
      /\ DOMAIN seen' = DOMAIN seen
  <2>1. \A l \in 1..Len(seen) : seen'[l] \in Nullable \cup {Unset}
    BY <1>1 DEF RunMainQ
  <2>2. seen' = [l \in 1..Len(seen) |-> seen'[l]]
    BY <1>1 DEF RunMainQ
  <2> QED
    BY <1>1, <2>1, <2>2
<1>3. AuthTypeOK'
  BY <1>1, <1>2, RunQueue DEF RunMainQ, AuthTypeOK
<1>4. ASSUME NEW l \in DOMAIN seen', seen'[l] # currentUser'
      PROVE  \E k \in DOMAIN mainQ' : Tells(mainQ'[k], l)
  <2>1. l \in DOMAIN seen /\ l \notin Told /\ seen[l] # currentUser
    BY <1>4 DEF RunMainQ
  <2>2. PICK k \in DOMAIN mainQ : Tells(mainQ[k], l)
    BY <2>1 DEF ListenersCatchUp, Tells
  <2>3. CASE k # 1
    BY <1>1, <2>2, <2>3, RunQueue
  <2>4. CASE k = 1
    <3>1. Head(mainQ) = mainQ[1] /\ mainQ[1] \notin {Notify(l), First(l)}
      BY <1>1, <2>1 DEF Told
    <3>2. PICK m \in 1..l : mainQ[1] = Notify(m)
      BY <2>2, <2>4, <3>1 DEF Tells
    <3>3. m # l /\ m \in Nat /\ l \in 1..Len(seen)
      BY <1>1, <2>1, <3>1, <3>2
    <3>4. Head(mainQ).kind = "notify" /\ Head(mainQ).listener = m
      BY <3>1, <3>2 DEF Notify
    <3>5. 1 \in DOMAIN mainQ' /\ mainQ'[1] = Notify(m + 1)
      BY <1>1, <3>3, <3>4, RunQueue
    <3>6. m + 1 \in 1..l
      BY <3>2, <3>3
    <3> QED
      BY <3>5, <3>6 DEF Tells
  <2> QED
    BY <2>3, <2>4
<1>5. ListenersCatchUp'
  BY <1>4 DEF ListenersCatchUp, Tells
<1> QED
  BY <1>3, <1>5 DEF RunMainQ, NothingLoadedYet

LEMMA NextKeeps == AuthInv /\ [AuthNext]_authVars => AuthInv'
<1> SUFFICES ASSUME AuthInv, [AuthNext]_authVars PROVE AuthInv'
  OBVIOUS
<1>1. CASE Launch
  BY <1>1, LaunchKeeps DEF AuthInv
<1>2. CASE \E how \in {"crashed", "killed"} : End(how)
  BY <1>2, EndKeeps
<1>3. CASE \E ok \in BOOLEAN : LoadUser(ok) \/ RevokeUser(ok) \/ SignOutAndListen(ok)
  BY <1>3, LoadKeeps, RevokeKeeps, SignOutKeeps
<1>4. CASE \E u \in Users, flow \in {"signedIn", "created"} : CompleteSignIn(u, flow)
  BY <1>4, SignInKeeps
<1>5. CASE RefreshToken
  BY <1>5, RefreshKeeps
<1>6. CASE \E kind \in {"notify", "first", "signedIn", "created"} :
             IsNext(kind) /\ RunMainQ
  BY <1>6, RunKeeps DEF IsNext
<1>7. CASE UNCHANGED authVars
  BY <1>7 DEF authVars, AuthInv, AuthTypeOK, NothingLoadedYet, ListenersCatchUp
<1> QED
  BY <1>1, <1>2, <1>3, <1>4, <1>5, <1>6, <1>7 DEF AuthNext

(* FIRAuth's listener mechanism, whatever the app does with it: a listener *)
(* that lags behind _currentUser always has a block pending that will run  *)
(* it, for any number of users, listeners and queued blocks, with keychain *)
(* failures, forced sign-outs and restarts.                                *)
THEOREM AuthCatchesUp == AuthSpec => []ListenersCatchUp
<1>1. AuthSpec => []AuthInv
  BY InitHolds, NextKeeps, PTL DEF AuthSpec
<1>2. AuthInv => ListenersCatchUp
  BY DEF AuthInv
<1> QED
  BY <1>1, <1>2, PTL

(* The keychain always holds what a restart should restore, if its reads   *)
(* and writes never fail: every path saves before it changes the user.     *)
THEOREM KeychainFollows ==
  ASSUME ~KeychainFails
  PROVE  AuthSpec => []KeychainAgrees
<1> DEFINE Inv == AuthInv /\ KeychainAgrees
<1>1. AuthInit => Inv
  BY InitHolds DEF AuthInit, FreshProcess, KeychainAgrees
<1>2. Inv /\ [AuthNext]_authVars => Inv'
  <2> SUFFICES ASSUME Inv, [AuthNext]_authVars PROVE KeychainAgrees'
    BY NextKeeps
  <2>1. CASE Launch
    BY <2>1 DEF Launch, KeychainAgrees
  <2>2. CASE \E how \in {"crashed", "killed"} : End(how)
    BY <2>2 DEF End, FreshProcess, KeychainAgrees
  <2>3. ASSUME NEW ok \in BOOLEAN, LoadUser(ok) PROVE KeychainAgrees'
    BY <2>3 DEF LoadUser, KeychainAgrees
  <2>4. ASSUME NEW ok \in BOOLEAN, RevokeUser(ok) PROVE KeychainAgrees'
    BY <2>4 DEF RevokeUser, UpdateCurrentUser, KeychainAgrees
  <2>5. ASSUME NEW ok \in BOOLEAN, SignOutAndListen(ok) PROVE KeychainAgrees'
    BY <2>5 DEF SignOutAndListen, UpdateCurrentUser, KeychainAgrees
  <2>6. CASE \E u \in Users, flow \in {"signedIn", "created"} : CompleteSignIn(u, flow)
    BY <2>6 DEF CompleteSignIn, UpdateCurrentUser, KeychainAgrees
  <2>7. CASE RefreshToken
    BY <2>7 DEF RefreshToken, KeychainAgrees
  <2>8. CASE RunMainQ
    BY <2>8 DEF RunMainQ, KeychainAgrees
  <2>9. CASE UNCHANGED authVars
    BY <2>9 DEF authVars, KeychainAgrees
  <2> QED
    BY <2>1, <2>2, <2>3, <2>4, <2>5, <2>6, <2>7, <2>8, <2>9 DEF AuthNext
<1>3. Inv => KeychainAgrees
  OBVIOUS
<1> QED
  BY <1>1, <1>2, <1>3, PTL DEF AuthSpec
============================================================================
