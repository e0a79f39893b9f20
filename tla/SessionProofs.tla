--------------------------- MODULE SessionProofs ---------------------------
(***************************************************************************)
(* Session for any set of users and any bounds: its steps are steps of     *)
(* AuthState, so what AuthStateProofs proves of the listeners and of the   *)
(* keychain holds of the whole app; and its state stays well-formed.       *)
(***************************************************************************)
EXTENDS Session, AuthStateProofs, FiniteSetTheorems

LEMMA RegistrationStep ==
  ASSUME registration \in Registration, NEW from \in {"creating", "uploading", "linking"},
         NEW to \in {"uploading", "linking", "abandoned"}, Step(from, to)
  PROVE  registration' \in Registration
BY DEF Registration, Idle, Step

(* Every step of the app is a step of FIRAuth or leaves it alone: no       *)
(* handler touches the user, the keychain or the listeners on its own.     *)
LEMMA StepImplements ==
  ASSUME AppTypeOK, [Next]_vars
  PROVE  [AuthNext]_authVars
<1>1. CASE Restart
  BY <1>1 DEF Restart, AuthNext
<1>2. CASE Kill
  BY <1>2 DEF Kill, Ended, AuthNext
<1>3. CASE Refresh
  BY <1>3 DEF Refresh, AuthNext
<1>4. CASE \E ok \in BOOLEAN : Load(ok) \/ Revoke(ok)
  BY <1>4 DEF Load, Revoke, AuthNext
<1>5. CASE MainQueue
  <2>1. \A kind \in {"notify", "first", "signedIn", "created"} :
          IsNext(kind) /\ RunMainQ => AuthNext
    BY DEF AuthNext
  <2> QED
    BY <1>5, <2>1 DEF MainQueue, RunListener, RunSignedIn, RunCreated
<1>6. CASE Answers
  <2>1. ASSUME UserCreated PROVE AuthNext
    <3>1. registration.user \in Users
      BY <2>1 DEF UserCreated, AppTypeOK, Registration, Idle
    <3> QED
      BY <2>1, <3>1 DEF UserCreated, AuthNext
  <2>2. ASSUME NEW u \in Users, SignInAccepted(u) PROVE AuthNext
    BY <2>2 DEF SignInAccepted, AuthNext
  <2>3. ASSUME Crash PROVE AuthNext
    BY <2>3 DEF Crash, Ended, AuthNext
  <2>4. ASSUME \/ CreationFails \/ AvatarStored \/ AvatarFails \/ LinkArrives
               \/ \E u \in Users : \/ SignInFails(u) \/ ProfileStored(u)
                                   \/ ProfileRefused(u) \/ ProfileArrives(u)
        PROVE  UNCHANGED authVars
    BY <2>4 DEF CreationFails, AvatarStored, AvatarFails, LinkArrives, SignInFails,
                ProfileStored, ProfileRefused, ProfileArrives
  <2> QED
    BY <1>6, <2>1, <2>2, <2>3, <2>4
    DEF Answers, LinkArrivesSignedOut, NoProfileArrives
<1>7. CASE Taps
  <2>1. ASSUME NEW saved \in BOOLEAN, Logout(saved) PROVE AuthNext
    BY <2>1 DEF Logout, AuthNext
  <2>2. ASSUME TapRegister \/ Back \/ \E u \in Users : TapLogin(u) \/ StartRegistration(u)
        PROVE  UNCHANGED authVars
    BY <2>2 DEF TapRegister, Back, Pop, TapLogin, StartRegistration
  <2> QED
    BY <1>7, <2>1, <2>2 DEF Taps
<1>8. CASE \E i \in DOMAIN nav : ReadUser(i)
  BY <1>8 DEF ReadUser
<1>9. CASE UNCHANGED vars
  BY <1>9 DEF vars
<1> QED
  BY <1>1, <1>2, <1>3, <1>4, <1>5, <1>6, <1>7, <1>8, <1>9 DEF Next

----------------------------------------------------------------------------
(* What viewDidLoad has read so far is a sequence of at most two accounts. *)
LEMMA ReadsType ==
  /\ <<>> \in Reads
  /\ \A r \in Reads : r \in Seq(Nullable) /\ Len(r) \in 0..List
  /\ \A r \in Seq(Nullable) : Len(r) <= List => r \in Reads
<1>1. Reads = [1..0 -> Nullable] \cup [1..1 -> Nullable] \cup [1..2 -> Nullable]
  BY DEF Reads, List
<1>2. ASSUME NEW r \in Reads PROVE r \in Seq(Nullable) /\ Len(r) \in 0..List
  <2>1. PICK n \in 0..2 : r \in [1..n -> Nullable]
    BY <1>1
  <2> QED
    BY <2>1 DEF List
<1>3. ASSUME NEW r \in Seq(Nullable), Len(r) <= List PROVE r \in Reads
  <2>1. r \in [1..Len(r) -> Nullable] /\ Len(r) \in Nat
    BY LenProperties
  <2>2. Len(r) \in {0, 1, 2}
    BY <1>3, <2>1 DEF List
  <2> QED
    BY <1>1, <2>1, <2>2
<1>4. <<>> \in Reads
  <2>1. <<>> \in Seq(Nullable) /\ Len(<<>>) <= List
    BY DEF List
  <2> QED
    BY <1>3, <2>1
<1> QED
  BY <1>2, <1>3, <1>4

LEMMA AppendRead ==
  ASSUME NEW r \in Reads, NEW u \in Nullable, Len(r) < List
  PROVE  /\ Append(r, u) \in Reads /\ Len(Append(r, u)) = Len(r) + 1
         /\ Append(r, u)[Len(r) + 1] = u
         /\ \A k \in 1..Len(r) : Append(r, u)[k] = r[k]
<1>1. r \in Seq(Nullable) /\ Len(r) \in Nat
  BY ReadsType
<1>2. /\ Append(r, u) \in Seq(Nullable) /\ Len(Append(r, u)) = Len(r) + 1
      /\ Append(r, u)[Len(r) + 1] = u
      /\ \A k \in 1..Len(r) : Append(r, u)[k] = r[k]
  BY <1>1, AppendProperties
<1>3. Append(r, u) \in Reads
  <2>1. Len(Append(r, u)) <= List
    BY <1>1, <1>2 DEF List
  <2> QED
    BY <1>2, <2>1, ReadsType
<1> QED
  BY <1>2, <1>3

LEMMA ScreenType ==
  LoginScreen \in Screen /\ RegisterScreen \in Screen /\ NewInbox \in Screen
BY ReadsType DEF LoginScreen, RegisterScreen, NewInbox, Screen

(* Growing a sequence, or dropping its last of two elements or more, keeps *)
(* its first element.                                                      *)
LEMMA BottomStays ==
  ASSUME NEW S, NEW q \in Seq(S), q # <<>>
  PROVE  /\ \A s \in S : /\ Append(q, s) \in Seq(S) /\ Append(q, s) # <<>>
                         /\ Append(q, s)[1] = q[1]
         /\ \A t \in Seq(S) : /\ q \o t \in Seq(S) /\ q \o t # <<>>
                              /\ (q \o t)[1] = q[1]
         /\ Len(q) >= 2 => LET r == SubSeq(q, 1, Len(q) - 1) IN
                            r \in Seq(S) /\ r # <<>> /\ r[1] = q[1]
<1>1. Len(q) \in Nat /\ Len(q) >= 1
  OBVIOUS
<1>2. \A s \in S : /\ Append(q, s) \in Seq(S) /\ Append(q, s) # <<>>
                  /\ Append(q, s)[1] = q[1]
  BY <1>1, AppendProperties
<1>3. ASSUME NEW t \in Seq(S)
      PROVE  q \o t \in Seq(S) /\ q \o t # <<>> /\ (q \o t)[1] = q[1]
  BY <1>1, ConcatProperties
<1>4. ASSUME Len(q) >= 2
      PROVE  LET r == SubSeq(q, 1, Len(q) - 1) IN
             r \in Seq(S) /\ r # <<>> /\ r[1] = q[1]
  <2>1. SubSeq(q, 1, Len(q) - 1) \in Seq(S)
    BY <1>1
  <2>2. SubSeq(q, 1, Len(q) - 1) = [i \in 1..Len(q) - 1 |-> q[i]]
    BY <1>1, <1>4
  <2>3. SubSeq(q, 1, Len(q) - 1)[1] = q[1] /\ 1 \in DOMAIN SubSeq(q, 1, Len(q) - 1)
    BY <1>1, <1>4, <2>2
  <2>4. ASSUME SubSeq(q, 1, Len(q) - 1) = <<>> PROVE FALSE
    <3>1. DOMAIN SubSeq(q, 1, Len(q) - 1) = {}
      BY <2>4
    <3> QED
      BY <2>3, <3>1
  <2> QED
    BY <2>1, <2>3, <2>4
<1> QED
  BY <1>2, <1>3, <1>4

LEMMA PushType ==
  ASSUME NEW s \in Screen, nav \in Stacks, nav' = Append(nav, s)
  PROVE  nav' \in Stacks
BY BottomStays DEF Stacks

(* One screen of the stack after one more read of the current user.        *)
LEMMA ReadScreen ==
  ASSUME AuthTypeOK, nav \in Stacks, NEW i \in DOMAIN nav, ReadUser(i)
  PROVE  /\ Len(nav') = Len(nav) /\ nav' \in Stacks
         /\ \A j \in DOMAIN nav \ {i} : nav'[j] = nav[j]
         /\ nav'[i] = [nav[i] EXCEPT !.reads = Append(nav[i].reads, currentUser)]
         /\ nav'[i].kind = "messages" /\ nav[i].kind = "messages"
         /\ nav'[i].ready = nav[i].ready
         /\ nav'[i].reads = Append(nav[i].reads, currentUser)
<1> DEFINE s == [nav[i] EXCEPT !.reads = Append(nav[i].reads, currentUser)]
<1>1. nav \in Seq(Screen) /\ nav # <<>> /\ nav[1].kind = "login" /\ nav[i] \in Screen
  BY DEF Stacks
<1>2. nav[i].kind = "messages" /\ Len(nav[i].reads) < List /\ currentUser \in Nullable
  <2>1. i \in i..Len(nav)
    BY <1>1
  <2> QED
    BY <2>1 DEF ReadUser, Showable, IsInbox, AuthTypeOK
<1>3. nav[i].reads \in Reads /\ Append(nav[i].reads, currentUser) \in Reads
  BY <1>1, <1>2, AppendRead DEF Screen
<1>4. /\ s \in Screen /\ s.kind = "messages" /\ s.ready = nav[i].ready
      /\ s.reads = Append(nav[i].reads, currentUser)
  BY <1>1, <1>2, <1>3 DEF Screen
<1>5. nav' = [nav EXCEPT ![i] = s]
  BY DEF ReadUser
<1>6. /\ Len(nav') = Len(nav) /\ nav' \in Seq(Screen) /\ nav'[i] = s
      /\ \A j \in DOMAIN nav \ {i} : nav'[j] = nav[j]
  <2> HIDE DEF s
  <2> QED
    BY <1>1, <1>4, <1>5
<1>7. i # 1 /\ nav'[1] = nav[1] /\ nav' # <<>>
  BY <1>1, <1>2, <1>6
<1> QED
  BY <1>1, <1>2, <1>4, <1>6, <1>7 DEF Stacks

LEMMA EndedType ==
  ASSUME AppTypeOK, NEW how, Ended(how)
  PROVE  AppTypeOK'
<1>1. nav' = <<LoginScreen>> /\ <<LoginScreen>> \in Seq(Screen)
  BY ScreenType DEF Ended, FreshApp
<1>2. nav' \in Stacks
  BY <1>1 DEF Stacks, LoginScreen
<1>3. requests' \in [Users -> Nat] /\ unsent' \in [Users -> Nullable]
  BY DEF Ended, FreshApp, NoRequest, Nobody, Nullable
<1> QED
  BY <1>2, <1>3 DEF Ended, FreshApp, AppTypeOK, Registration

LEMMA AnswersType ==
  ASSUME AuthTypeOK, AppTypeOK, Answers
  PROVE  AppTypeOK'
<1> USE DEF AppTypeOK
<1>1. CASE UserCreated
  BY <1>1 DEF UserCreated, uiVars, Registration, Idle
<1>2. CASE CreationFails
  <2>1. registration.user \in Users
    BY <1>2 DEF CreationFails, Step, Registration, Idle
  <2> QED
    BY <1>2, <2>1, RegistrationStep DEF CreationFails
<1>3. CASE AvatarStored
  BY <1>3, RegistrationStep DEF AvatarStored, netVars
<1>4. CASE AvatarFails
  BY <1>4, RegistrationStep DEF AvatarFails, netVars
<1>5. CASE LinkArrives
  <2>1. registration.user \in Users
    BY <1>5 DEF LinkArrives, Registration, Idle
  <2>2. unsent' \in [Users -> Nullable] /\ registration' \in Registration
    BY <1>5, <2>1 DEF LinkArrives, Nullable, Registration
  <2>3. nav' \in Stacks
    BY <1>5, ScreenType, PushType DEF LinkArrives, AuthTypeOK
  <2> QED
    BY <1>5, <2>2, <2>3 DEF LinkArrives
<1>6. CASE Crash
  BY <1>6, EndedType DEF Crash
<1>7. ASSUME NEW u \in Users, SignInAccepted(u) \/ SignInFails(u) PROVE AppTypeOK'
  <2>1. requests' = [requests EXCEPT ![u] = @ - 1] /\ requests[u] > 0
    BY <1>7 DEF SignInAccepted, SignInFails
  <2>2. requests' \in [Users -> Nat]
    BY <2>1
  <2> QED
    BY <1>7, <2>2 DEF SignInAccepted, SignInFails, netVars
<1>8. ASSUME NEW u \in Users, ProfileStored(u) \/ ProfileRefused(u) PROVE AppTypeOK'
  BY <1>8 DEF ProfileStored, ProfileRefused, uiVars, Nullable
<1>9. ASSUME NEW u \in Users, ProfileArrives(u) PROVE AppTypeOK'
  <2> DEFINE shown(i) == IF i \in Barred(u) THEN [nav[i] EXCEPT !.ready = TRUE] ELSE nav[i]
  <2>2. nav \in Seq(Screen) /\ Len(nav) \in Nat \ {0} /\ nav[1].kind = "login"
    BY DEF Stacks
  <2>3. nav' = [i \in 1..Len(nav) |-> shown(i)]
    BY <1>9, <2>2 DEF ProfileArrives
  <2>3a. \A s \in Screen : LET t == [s EXCEPT !.ready = TRUE] IN
                              t \in Screen /\ t.kind = s.kind
    BY DEF Screen
  <2>4. \A i \in 1..Len(nav) : shown(i) \in Screen /\ shown(i).kind = nav[i].kind
    BY <2>2, <2>3a
  <2>5. nav' \in Seq(Screen) /\ nav'[1].kind = "login" /\ nav' # <<>>
    <3> HIDE DEF shown
    <3> QED
      BY <2>2, <2>3, <2>4
  <2>6. nav' \in Stacks
    BY <2>5 DEF Stacks
  <2> QED
    BY <1>9, <2>6 DEF ProfileArrives, netVars
<1> QED
  BY <1>1, <1>2, <1>3, <1>4, <1>5, <1>6, <1>7, <1>8, <1>9
  DEF Answers, LinkArrivesSignedOut, NoProfileArrives

LEMMA TapsType ==
  ASSUME AuthTypeOK, AppTypeOK, Taps
  PROVE  AppTypeOK'
<1> USE DEF AppTypeOK
<1>1. CASE TapRegister
  BY <1>1, ScreenType, PushType DEF TapRegister, netVars
<1>2. CASE Back
  <2>1. nav \in Seq(Screen) /\ nav # <<>> /\ nav[1].kind = "login" /\ Top \in Screen
    BY DEF Stacks, Top
  <2>2. Len(nav) \in Nat /\ Len(nav) >= 2
    BY <1>2, <2>1 DEF Back, Top
  <2>3. nav' = SubSeq(nav, 1, Len(nav) - 1)
    BY <1>2 DEF Back, Pop
  <2>4. nav' \in Stacks
    BY <2>1, <2>2, <2>3, BottomStays DEF Stacks
  <2>5. leaked' \subseteq Users
    BY <1>2 DEF Back, Pop
  <2> QED
    BY <1>2, <2>4, <2>5 DEF Back, Pop, netVars
<1>3. ASSUME NEW u \in Users, TapLogin(u) PROVE AppTypeOK'
  <2>1. requests' \in [Users -> Nat]
    BY <1>3 DEF TapLogin
  <2> QED
    BY <1>3, <2>1 DEF TapLogin, netVars
<1>4. ASSUME NEW u \in Users, StartRegistration(u) PROVE AppTypeOK'
  BY <1>4 DEF StartRegistration, netVars, Registration
<1>5. ASSUME NEW saved \in BOOLEAN, Logout(saved) PROVE AppTypeOK'
  BY <1>5, ScreenType, PushType DEF Logout, netVars
<1> QED
  BY <1>1, <1>2, <1>3, <1>4, <1>5 DEF Taps

LEMMA NextType ==
  ASSUME AuthTypeOK, AppTypeOK, [Next]_vars
  PROVE  AppTypeOK'
<1> USE DEF AppTypeOK
<1>1. CASE Kill
  BY <1>1, EndedType DEF Kill
<1>2. CASE Restart \/ Refresh \/ \E ok \in BOOLEAN : Load(ok) \/ Revoke(ok)
  BY <1>2 DEF Restart, Refresh, Load, Revoke, netVars, uiVars
<1>3. CASE RunListener
  <2>1. nav' = nav \/ nav' = Append(nav, NewInbox)
    BY <1>3 DEF RunListener
  <2>2. nav' \in Stacks
    BY <2>1, ScreenType, PushType
  <2> QED
    BY <1>3, <2>2 DEF RunListener, netVars
<1>4. CASE RunSignedIn
  BY <1>4 DEF RunSignedIn, netVars, uiVars
<1>5. CASE RunCreated
  BY <1>5, RegistrationStep DEF RunCreated, netVars
<1>6. CASE Answers
  BY <1>6, AnswersType
<1>7. CASE Taps
  BY <1>7, TapsType
<1>8. CASE \E i \in DOMAIN nav : ReadUser(i)
  <2>1. nav' \in Stacks
    BY <1>8, ReadScreen
  <2> QED
    BY <1>8, <2>1 DEF ReadUser, netVars
<1>9. CASE UNCHANGED vars
  BY <1>9 DEF vars, netVars, uiVars
<1> QED
  BY <1>1, <1>2, <1>3, <1>4, <1>5, <1>6, <1>7, <1>8, <1>9 DEF Next, MainQueue

LEMMA InitType == Init => AuthInv /\ AppTypeOK
<1> SUFFICES ASSUME Init PROVE AuthInv /\ AppTypeOK
  OBVIOUS
<1>1. AuthInv
  BY InitHolds DEF Init
<1>2. nav = <<LoginScreen>> /\ <<LoginScreen>> \in Seq(Screen)
  BY ScreenType DEF Init, FreshApp
<1>3. nav \in Stacks
  BY <1>2 DEF Stacks, LoginScreen
<1>4. AppTypeOK
  BY <1>3 DEF Init, FreshApp, AppTypeOK, NoRequest, Nobody, Nullable, Registration
<1> QED
  BY <1>1, <1>4

LEMMA Invariance == Spec => [](AuthInv /\ AppTypeOK)
<1>1. AuthInv /\ AppTypeOK /\ [Next]_vars => (AuthInv /\ AppTypeOK)'
  BY StepImplements, NextKeeps, NextType DEF AuthInv
<1> QED
  BY <1>1, InitType, PTL DEF Spec

(* The variables keep their types and the root of the stack stays the      *)
(* login screen, for any users, bounds and keychain behaviour.             *)
THEOREM TypeCorrect == Spec => []TypeOK
<1>1. AuthInv /\ AppTypeOK => TypeOK
  BY DEF AuthInv, TypeOK
<1> QED
  BY <1>1, Invariance, PTL

(* The app implements AuthState: whatever screens do, the user in memory,  *)
(* the keychain and the listeners only change as FIRAuth changes them.     *)
THEOREM ImplementsAuthState == Spec => AuthSpec
<1>1. Init => AuthInit
  BY DEF Init
<1>2. AuthInv /\ AppTypeOK /\ [Next]_vars => [AuthNext]_authVars
  BY StepImplements
<1> QED
  BY <1>1, <1>2, Invariance, PTL DEF Spec, AuthSpec

(* No login screen of the app misses a change of the current user: one     *)
(* whose listener lags behind has a block pending that will run it, after  *)
(* any taps, answers, crashes and restarts.                                *)
THEOREM SessionCatchesUp == Spec => []ListenersCatchUp
BY ImplementsAuthState, AuthCatchesUp, PTL

(* With a keychain that works, what a restart restores is who is signed in *)
(* when the process ends.                                                  *)
THEOREM SessionKeychainFollows ==
  ASSUME ~KeychainFails
  PROVE  Spec => []KeychainAgrees
BY ImplementsAuthState, KeychainFollows, PTL
============================================================================
