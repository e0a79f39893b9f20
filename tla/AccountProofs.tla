--------------------------- MODULE AccountProofs ---------------------------
(***************************************************************************)
(* Session for any users, bounds and keychain.  Whatever the user taps,    *)
(* what screens have read and what observers watch are accounts that       *)
(* exist, listeners and login screens are one to one, and what crashes     *)
(* these screens is an account without a profile.  For a user who lets one *)
(* request settle before the next, profiles and inboxes are their own.     *)
(***************************************************************************)
EXTENDS SessionProofs

Known == accounts \cup {None}

Owned(s, a) ==
  \A i \in DOMAIN s : \A r \in DOMAIN s[i].reads : s[i].reads[r] \in a \cup {None}

(* Whoever is signed in, archived, read, observed or stored has an         *)
(* account.                                                                *)
AccountsKnown ==
  /\ currentUser \in Known /\ keychain \in Known
  /\ leaked \subseteq accounts
  /\ Owned(nav, accounts)
  /\ \A u \in Users : profile[u] # None \/ unsent[u] # None => u \in accounts

(* An account that was created and has no node yet, not even an unsent one.*)
Fresh(u) == u \in accounts /\ profile[u] = None /\ unsent[u] = None

CreatedAt(q) == {k \in DOMAIN q : q[k].kind = "created"}

OnceAtMost(q) == \A j, k \in CreatedAt(q) : j = k /\ q[k] = Done("created")

(* createUser's completion is dispatched once per registration, and the    *)
(* account has nothing until the registration writes its node.             *)
RegistrationFresh ==
  /\ OnceAtMost(mainQ)
  /\ CreatedAt(mainQ) # {} => registration.step = "creating" /\ Fresh(registration.user)
  /\ registration.step \in {"uploading", "linking"} => Fresh(registration.user)

Logins(s) == {i \in DOMAIN s : s[i].kind = "login"}

LoginsCounted == Cardinality(Logins(nav)) = Len(seen)

AccountInv ==
  /\ AuthInv /\ AppTypeOK
  /\ AccountsKnown /\ RegistrationFresh /\ LoginsCounted

----------------------------------------------------------------------------
LEMMA ConcatCreated ==
  ASSUME NEW q \in Seq(Task), NEW t \in Seq(Task), CreatedAt(t) = {}
  PROVE  /\ CreatedAt(q \o t) = CreatedAt(q)
         /\ \A k \in CreatedAt(q) : (q \o t)[k] = q[k]
BY DEF CreatedAt

(* Running the main queue adds no completion of createUser, and the first  *)
(* block is run or told to the next listener.                              *)
LEMMA RunCreatedAt ==
  ASSUME AuthTypeOK, mainQ # <<>>, RunMainQ
  PROVE  \/ /\ CreatedAt(mainQ') = CreatedAt(mainQ) /\ Head(mainQ).kind = "notify"
            /\ \A k \in CreatedAt(mainQ) : mainQ'[k] = mainQ[k]
         \/ /\ \A k \in CreatedAt(mainQ') : k \in Nat \ {0} /\ k + 1 \in CreatedAt(mainQ)
                                           /\ mainQ'[k] = mainQ[k + 1]
            /\ \A k \in CreatedAt(mainQ) \ {1} : k - 1 \in CreatedAt(mainQ')
<1>1. mainQ \in Seq(Task) /\ seen \in Seq(Nullable \cup {Unset})
  BY DEF AuthTypeOK
<1>2. CASE /\ Head(mainQ).kind = "notify" /\ Head(mainQ).listener < Len(seen)
           /\ DOMAIN mainQ' = DOMAIN mainQ
           /\ mainQ'[1] = Notify(Head(mainQ).listener + 1)
           /\ \A k \in DOMAIN mainQ \ {1} : mainQ'[k] = mainQ[k]
  <2>1. mainQ[1].kind = "notify" /\ mainQ'[1].kind = "notify"
    BY <1>1, <1>2 DEF Notify
  <2> QED
    BY <1>2, <2>1 DEF CreatedAt
<1>3. CASE /\ mainQ' = Tail(mainQ)
           /\ \A k \in DOMAIN mainQ \ {1} : k - 1 \in DOMAIN mainQ' /\ mainQ'[k - 1] = mainQ[k]
  <2>1. \A k \in DOMAIN mainQ' : /\ k \in Nat \ {0} /\ k + 1 \in DOMAIN mainQ
                                /\ mainQ'[k] = mainQ[k + 1]
    BY <1>1, <1>3
  <2> QED
    BY <1>3, <2>1 DEF CreatedAt
<1> QED
  BY <1>1, <1>2, <1>3, RunQueue

(* Nothing of the kind is dispatched, and at most the head is run.         *)
Calm == /\ CreatedAt(mainQ') # {} => CreatedAt(mainQ) # {}
        /\ OnceAtMost(mainQ) => OnceAtMost(mainQ')

LEMMA AppendCalm ==
  ASSUME AuthTypeOK, NEW t \in Seq(Task), CreatedAt(t) = {}, mainQ' = mainQ \o t
  PROVE  Calm
<1>1. /\ CreatedAt(mainQ') = CreatedAt(mainQ)
      /\ \A k \in CreatedAt(mainQ) : mainQ'[k] = mainQ[k]
  BY ConcatCreated DEF AuthTypeOK
<1> QED
  BY <1>1 DEF Calm, OnceAtMost

LEMMA RunCalm ==
  ASSUME AuthTypeOK, mainQ # <<>>, RunMainQ
  PROVE  Calm
<1>1. CASE /\ CreatedAt(mainQ') = CreatedAt(mainQ)
           /\ \A k \in CreatedAt(mainQ) : mainQ'[k] = mainQ[k]
  BY <1>1 DEF Calm, OnceAtMost
<1>2. CASE \A k \in CreatedAt(mainQ') : k \in Nat \ {0} /\ k + 1 \in CreatedAt(mainQ)
                                        /\ mainQ'[k] = mainQ[k + 1]
  <2>1. CreatedAt(mainQ') # {} => CreatedAt(mainQ) # {}
    BY <1>2
  <2>2. ASSUME OnceAtMost(mainQ), NEW j \in CreatedAt(mainQ'), NEW k \in CreatedAt(mainQ')
        PROVE  j = k /\ mainQ'[k] = Done("created")
    <3>1. j + 1 = k + 1 /\ mainQ[k + 1] = Done("created")
      BY <1>2, <2>2 DEF OnceAtMost
    <3> QED
      BY <1>2, <2>2, <3>1
  <2> QED
    BY <2>1, <2>2 DEF Calm, OnceAtMost
<1> QED
  BY <1>1, <1>2, RunCreatedAt

LEMMA OtherTasks ==
  /\ CreatedAt(<<>>) = {} /\ <<>> \in Seq(Task)
  /\ CreatedAt(<<Notify(1)>>) = {} /\ <<Notify(1)>> \in Seq(Task)
  /\ \A l \in Nat : CreatedAt(<<First(l)>>) = {} /\ <<First(l)>> \in Seq(Task)
  /\ CreatedAt(<<Done("signedIn")>>) = {} /\ <<Done("signedIn")>> \in Seq(Task)
BY TaskType DEF CreatedAt, Notify, First, Done

LEMMA PostCalm ==
  ASSUME AuthTypeOK, NEW t \in Seq(Task), CreatedAt(t) = {}, PostAuthChange(t)
  PROVE  Calm
<1>1. mainQ \in Seq(Task) /\ mainQ \o <<Notify(1)>> \in Seq(Task)
  BY OtherTasks, ConcatProperties DEF AuthTypeOK
<1>2. /\ CreatedAt(mainQ \o <<Notify(1)>>) = CreatedAt(mainQ)
      /\ \A k \in CreatedAt(mainQ) : (mainQ \o <<Notify(1)>>)[k] = mainQ[k]
  BY <1>1, OtherTasks, ConcatCreated
<1>3. /\ CreatedAt(mainQ') = CreatedAt(mainQ)
      /\ \A k \in CreatedAt(mainQ) : mainQ'[k] = mainQ[k]
  BY <1>1, <1>2, ConcatCreated DEF PostAuthChange
<1> QED
  BY <1>3 DEF Calm, OnceAtMost

(* createUser's answer posts its completion behind the notification.       *)
LEMMA CreatedOnce ==
  ASSUME AuthTypeOK, CreatedAt(mainQ) = {}, PostAuthChange(<<Done("created")>>)
  PROVE  OnceAtMost(mainQ')
<1> DEFINE q == mainQ \o <<Notify(1)>>
<1>1. q \in Seq(Task) /\ CreatedAt(q) = {}
  BY OtherTasks, ConcatCreated, ConcatProperties DEF AuthTypeOK
<1>2. mainQ' = q \o <<Done("created")>>
  BY DEF PostAuthChange
<1> HIDE DEF q
<1>3. \A k \in CreatedAt(mainQ') : k = Len(q) + 1 /\ mainQ'[k] = Done("created")
  BY <1>1, <1>2, TaskType DEF CreatedAt
<1> QED
  BY <1>3 DEF OnceAtMost

----------------------------------------------------------------------------
(* What the app does to its stack.                                         *)

LEMMA PushOwned ==
  ASSUME NEW s \in Seq(Screen), NEW a, Owned(s, a), NEW x \in Screen, x.reads = <<>>
  PROVE  /\ Owned(Append(s, x), a)
         /\ x.kind # "login" => Logins(Append(s, x)) = Logins(s)
         /\ x.kind = "login" => Logins(Append(s, x)) = Logins(s) \cup {Len(s) + 1}
<1> DEFINE r == Append(s, x)
<1>1. /\ DOMAIN r = DOMAIN s \cup {Len(s) + 1} /\ Len(s) + 1 \notin DOMAIN s
      /\ \A i \in DOMAIN s : r[i] = s[i]
      /\ r[Len(s) + 1] = x
  BY AppendProperties
<1> HIDE DEF r
<1>2. Owned(r, a)
  BY <1>1 DEF Owned
<1>3. /\ x.kind # "login" => Logins(r) = Logins(s)
      /\ x.kind = "login" => Logins(r) = Logins(s) \cup {Len(s) + 1}
  BY <1>1 DEF Logins
<1> QED
  BY <1>2, <1>3 DEF r

LEMMA PopOwned ==
  ASSUME NEW s \in Seq(Screen), Len(s) >= 2, NEW a, Owned(s, a), s[Len(s)].kind # "login"
  PROVE  LET r == SubSeq(s, 1, Len(s) - 1) IN Owned(r, a) /\ Logins(r) = Logins(s)
<1> DEFINE r == SubSeq(s, 1, Len(s) - 1)
<1>1. /\ Len(s) \in Nat /\ DOMAIN s = 1..Len(s)
      /\ DOMAIN r = 1..Len(s) - 1
      /\ \A i \in DOMAIN r : r[i] = s[i]
  OBVIOUS
<1> HIDE DEF r
<1>2. Owned(r, a)
  BY <1>1 DEF Owned
<1>3. Logins(r) = Logins(s)
  BY <1>1 DEF Logins
<1> QED
  BY <1>2, <1>3 DEF r

(* A node that arrives gives an inbox its Logout button.                   *)
LEMMA ReadyShape ==
  ASSUME nav \in Seq(Screen), NEW u, ProfileArrives(u)
  PROVE  /\ DOMAIN nav' = DOMAIN nav /\ Len(nav') = Len(nav)
         /\ \A i \in DOMAIN nav : nav'[i].kind = nav[i].kind /\ nav'[i].reads = nav[i].reads
<1> DEFINE shown(i) == IF i \in Barred(u) THEN [nav[i] EXCEPT !.ready = TRUE] ELSE nav[i]
<1>1. Len(nav) \in Nat /\ DOMAIN nav = 1..Len(nav) /\ \A i \in 1..Len(nav) : nav[i] \in Screen
  OBVIOUS
<1>2. \A x \in Screen : LET t == [x EXCEPT !.ready = TRUE] IN
                        t \in Screen /\ t.kind = x.kind /\ t.reads = x.reads
  BY DEF Screen
<1>3. \A i \in 1..Len(nav) : /\ shown(i) \in Screen /\ shown(i).kind = nav[i].kind
                            /\ shown(i).reads = nav[i].reads
  BY <1>1, <1>2
<1>4. nav' = [i \in 1..Len(nav) |-> shown(i)]
  BY <1>1 DEF ProfileArrives
<1> HIDE DEF shown
<1>5. nav' \in Seq(Screen)
  BY <1>1, <1>3, <1>4
<1> QED
  BY <1>1, <1>3, <1>4, <1>5

LEMMA ReadyOwned ==
  ASSUME nav \in Seq(Screen), NEW a, Owned(nav, a), NEW u, ProfileArrives(u)
  PROVE  Owned(nav', a) /\ Logins(nav') = Logins(nav)
BY ReadyShape DEF Owned, Logins

(* A read of the current user adds an account that exists, or nobody.      *)
LEMMA ReadOwned ==
  ASSUME AuthTypeOK, nav \in Stacks, NEW a, Owned(nav, a), currentUser \in a \cup {None},
         NEW i \in DOMAIN nav, ReadUser(i)
  PROVE  Owned(nav', a) /\ Logins(nav') = Logins(nav)
<1>1. nav \in Seq(Screen) /\ nav' \in Seq(Screen) /\ DOMAIN nav' = DOMAIN nav
  <2>1. nav \in Seq(Screen) /\ nav' \in Seq(Screen) /\ Len(nav') = Len(nav)
    BY ReadScreen DEF Stacks
  <2> QED
    BY <2>1
<1>2. Logins(nav') = Logins(nav)
  BY <1>1, ReadScreen DEF Logins
<1>3. /\ nav[i].reads \in Reads /\ Len(nav[i].reads) < List /\ currentUser \in Nullable
  BY <1>1 DEF Screen, ReadUser, AuthTypeOK
<1>4. ASSUME NEW r \in DOMAIN nav'[i].reads PROVE nav'[i].reads[r] \in a \cup {None}
  <2>1. nav'[i].reads = Append(nav[i].reads, currentUser)
    BY ReadScreen
  <2>2. /\ nav'[i].reads \in Seq(Nullable) /\ nav[i].reads \in Seq(Nullable)
        /\ Len(nav'[i].reads) = Len(nav[i].reads) + 1
        /\ nav'[i].reads[Len(nav[i].reads) + 1] = currentUser
        /\ \A k \in 1..Len(nav[i].reads) : nav'[i].reads[k] = nav[i].reads[k]
    BY <1>3, <2>1, AppendRead, ReadsType
  <2>3. r \in 1..Len(nav[i].reads) \/ r = Len(nav[i].reads) + 1
    BY <1>4, <2>2
  <2> QED
    BY <2>2, <2>3 DEF Owned
<1>5. Owned(nav', a)
  BY <1>1, <1>4, ReadScreen DEF Owned
<1> QED
  BY <1>2, <1>5

(* Who an inbox observes has an account.                                   *)
LEMMA BarredOwned ==
  ASSUME nav \in Seq(Screen), NEW a, Owned(nav, a), NEW u \in Users, Barred(u) # {}
  PROVE  u \in a
<1>1. PICK i \in DOMAIN nav : nav[i].reads # <<>> /\ nav[i].reads[Bar] = u
  BY DEF Barred
<1>2. nav[i].reads \in Seq(Nullable) /\ Len(nav[i].reads) \in Nat
  <2>1. nav[i] \in Screen
    BY <1>1
  <2>2. nav[i].reads \in Reads
    BY <2>1 DEF Screen
  <2> QED
    BY <2>2, ReadsType
<1>3. Bar \in DOMAIN nav[i].reads
  BY <1>1, <1>2 DEF Bar
<1> QED
  BY <1>1, <1>3, NilAssumption DEF Owned

LEMMA MoreAccounts ==
  ASSUME NEW s, NEW a, NEW b, a \subseteq b, Owned(s, a)
  PROVE  Owned(s, b)
BY DEF Owned

(* One login screen more for one listener more.                            *)
LEMMA CountLogin ==
  ASSUME NEW s \in Seq(Screen), NEW n \in Nat, Cardinality(Logins(s)) = n
  PROVE  Cardinality(Logins(s) \cup {Len(s) + 1}) = n + 1
<1>1. Logins(s) \subseteq 1..Len(s) /\ Len(s) \in Nat
  BY DEF Logins
<1>2. IsFiniteSet(Logins(s))
  <2>1. IsFiniteSet(1..Len(s))
    BY <1>1, FS_Interval
  <2> QED
    BY <1>1, <2>1, FS_Subset
<1>3. Len(s) + 1 \notin Logins(s)
  BY <1>1
<1> QED
  BY <1>2, <1>3, FS_AddElement

----------------------------------------------------------------------------
(* One lemma per way the state changes.                                    *)

LEMMA StepUser ==
  ASSUME registration \in Registration, NEW from \in {"creating", "uploading", "linking"},
         NEW to \in {"uploading", "linking", "abandoned"}, Step(from, to)
  PROVE  /\ registration.step = from /\ registration.user \in Users
         /\ registration'.step = to /\ registration'.user = registration.user
BY DEF Registration, Idle, Step

(* Steps that leave the app's screens and accounts alone.                  *)
LEMMA AuthOnly ==
  ASSUME AccountInv, UNCHANGED <<netVars, nav, leaked, registration>>, Calm,
         currentUser' \in Known, keychain' \in Known
  PROVE  AccountsKnown' /\ RegistrationFresh'
BY DEF AccountInv, AccountsKnown, Known, RegistrationFresh, Fresh, Calm, netVars

LEMMA CountKeeps ==
  ASSUME LoginsCounted, UNCHANGED seen, Logins(nav') = Logins(nav)
  PROVE  LoginsCounted'
BY DEF LoginsCounted

LEMMA SameStack == ASSUME UNCHANGED nav PROVE Logins(nav') = Logins(nav)
BY DEF Logins

(* A process that ends takes the screens, the listeners and the            *)
(* registration with it.                                                   *)
LEMMA EndedAccount ==
  ASSUME AccountInv, NEW how, Ended(how)
  PROVE  AccountsKnown' /\ RegistrationFresh' /\ LoginsCounted'
<1> USE DEF AccountInv, Ended, FreshApp, End, FreshProcess
<1>1. CreatedAt(mainQ') = {}
  BY OtherTasks
<1>2. RegistrationFresh'
  BY <1>1 DEF RegistrationFresh, OnceAtMost, Idle
<1>3. nav' = <<LoginScreen>>
  OBVIOUS
<1>4. Owned(nav', accounts') /\ Logins(nav') = {1}
  BY <1>3 DEF Owned, Logins, LoginScreen
<1>5. AccountsKnown'
  BY <1>4 DEF AccountsKnown, Known, Nobody
<1>6. LoginsCounted'
  BY <1>4, FS_Singleton DEF LoginsCounted
<1> QED
  BY <1>2, <1>5, <1>6

LEMMA RestartAccount ==
  ASSUME AccountInv, Restart
  PROVE  AccountsKnown' /\ RegistrationFresh' /\ LoginsCounted'
<1>1. UNCHANGED <<netVars, nav, leaked, registration, mainQ, seen, currentUser, keychain>>
  BY DEF Restart, Launch, uiVars
<1>2. Calm
  BY <1>1 DEF Calm
<1> QED
  BY <1>1, <1>2, AuthOnly, CountKeeps, SameStack DEF AccountInv, AccountsKnown

(* viewDidLoad adds what it read to its own screen.                        *)
LEMMA ReadAccount ==
  ASSUME AccountInv, NEW i \in DOMAIN nav, ReadUser(i)
  PROVE  AccountsKnown' /\ RegistrationFresh' /\ LoginsCounted'
<1>1. /\ AuthTypeOK /\ nav \in Stacks /\ Owned(nav, accounts)
      /\ currentUser \in accounts \cup {None}
  BY DEF AccountInv, AuthInv, AppTypeOK, AccountsKnown, Known
<1>2. Owned(nav', accounts) /\ Logins(nav') = Logins(nav)
  BY <1>1, ReadOwned
<1>3. UNCHANGED <<currentUser, keychain, mainQ, seen, netVars, leaked, registration>>
  BY DEF ReadUser, authVars
<1> QED
  BY <1>2, <1>3, CountKeeps
  DEF AccountInv, AccountsKnown, Known, netVars, RegistrationFresh, Fresh

LEMMA WorkAccount ==
  ASSUME AccountInv, NEW ok \in BOOLEAN, Load(ok) \/ Revoke(ok) \/ Refresh
  PROVE  AccountsKnown' /\ RegistrationFresh' /\ LoginsCounted'
<1> USE DEF AccountInv
<1>1. UNCHANGED <<netVars, nav, leaked, registration, seen>>
  BY DEF Load, LoadUser, Revoke, RevokeUser, Refresh, RefreshToken, uiVars
<1>2. Calm
  <2>1. AuthTypeOK
    BY DEF AuthInv
  <2>2. ASSUME PostAuthChange(<<>>) PROVE Calm
    BY <2>1, <2>2, PostCalm, OtherTasks
  <2>3. ASSUME mainQ' = mainQ PROVE Calm
    BY <2>3 DEF Calm
  <2>4. ASSUME mainQ' = mainQ \o <<>> PROVE Calm
    BY <2>1, <2>4, AppendCalm, OtherTasks
  <2> QED
    BY <2>2, <2>3, <2>4
    DEF Load, LoadUser, Revoke, RevokeUser, UpdateCurrentUser, Refresh, RefreshToken
<1>3. currentUser' \in Known /\ keychain' \in Known
  BY DEF Load, LoadUser, Revoke, RevokeUser, UpdateCurrentUser, Refresh, RefreshToken,
         AccountsKnown, Known
<1> QED
  BY <1>1, <1>2, <1>3, AuthOnly, CountKeeps, SameStack

LEMMA QueueAccount ==
  ASSUME AccountInv, AuthInv', MainQueue
  PROVE  AccountsKnown' /\ RegistrationFresh' /\ LoginsCounted'
<1> USE DEF AccountInv
<1>1. /\ AuthTypeOK /\ AuthTypeOK' /\ mainQ \in Seq(Task) /\ mainQ # <<>> /\ RunMainQ
      /\ UNCHANGED <<accounts, profile, unsent, leaked, currentUser, keychain>>
  BY DEF AuthInv, AuthTypeOK, MainQueue, RunListener, RunSignedIn, RunCreated, IsNext,
         RunMainQ, netVars, uiVars
<1>2. Calm
  BY <1>1, RunCalm
<1>3. Len(seen') = Len(seen)
  BY <1>1 DEF RunMainQ, AuthTypeOK
<1>4. currentUser \in Known /\ keychain \in Known /\ nav \in Seq(Screen)
      /\ Owned(nav, accounts)
  BY DEF AccountsKnown, AppTypeOK, Stacks
<1>5. CASE RunListener
  <2>1. UNCHANGED registration
    BY <1>5 DEF RunListener
  <2>2. RegistrationFresh'
    BY <1>1, <1>2, <2>1 DEF RegistrationFresh, Fresh, Calm
  <2>3. Owned(nav', accounts) /\ Logins(nav') = Logins(nav)
    <3>1. CASE UNCHANGED nav
      BY <1>4, <3>1, SameStack
    <3>2. CASE nav' = Append(nav, NewInbox)
      BY <1>4, <3>2, ScreenType, PushOwned DEF NewInbox
    <3> QED
      BY <1>5, <3>1, <3>2 DEF RunListener
  <2> QED
    BY <1>1, <1>3, <2>2, <2>3 DEF AccountsKnown, Known, LoginsCounted
<1>6. CASE RunSignedIn
  <2>1. UNCHANGED <<netVars, nav, leaked, registration>>
    BY <1>6 DEF RunSignedIn, uiVars
  <2>2. AccountsKnown' /\ RegistrationFresh'
    BY <1>1, <1>2, <1>4, <2>1, AuthOnly
  <2> QED
    BY <1>3, <2>1, <2>2 DEF LoginsCounted, Logins
<1>7. CASE RunCreated
  <2>1. /\ registration.step = "creating" /\ registration'.step = "uploading"
        /\ registration'.user = registration.user /\ UNCHANGED nav
    BY <1>7, StepUser DEF RunCreated, AppTypeOK
  <2>2. 1 \in CreatedAt(mainQ)
    BY <1>1, <1>7 DEF RunCreated, IsNext, CreatedAt
  <2>3. CreatedAt(mainQ') = {}
    <3>1. /\ \A k \in CreatedAt(mainQ') : k + 1 \in CreatedAt(mainQ) /\ k \in Nat \ {0}
      <4>1. Head(mainQ).kind = "created"
        BY <1>7 DEF RunCreated, IsNext
      <4> QED
        BY <1>1, <4>1, RunCreatedAt
    <3>2. \A k \in CreatedAt(mainQ) : k = 1
      BY <2>2 DEF RegistrationFresh, OnceAtMost
    <3> QED
      BY <3>1, <3>2
  <2>4. RegistrationFresh'
    BY <1>1, <2>1, <2>2, <2>3 DEF RegistrationFresh, Fresh, OnceAtMost
  <2> QED
    BY <1>1, <1>3, <2>1, <2>4 DEF AccountsKnown, Known, LoginsCounted, Logins
<1> QED
  BY <1>5, <1>6, <1>7 DEF MainQueue

LEMMA AnswersAccount ==
  ASSUME AccountInv, Answers
  PROVE  AccountsKnown' /\ RegistrationFresh' /\ LoginsCounted'
<1> USE DEF AccountInv
<1>1. /\ AuthTypeOK /\ mainQ \in Seq(Task) /\ nav \in Seq(Screen) /\ nav # <<>>
      /\ registration \in Registration /\ accounts \subseteq Users
      /\ profile \in [Users -> Nullable] /\ unsent \in [Users -> Nullable]
  BY DEF AuthInv, AuthTypeOK, AppTypeOK, Stacks
<1>2. /\ currentUser \in Known /\ keychain \in Known /\ leaked \subseteq accounts
      /\ Owned(nav, accounts)
      /\ \A u \in Users : profile[u] # None \/ unsent[u] # None => u \in accounts
  BY DEF AccountsKnown
<1>3. CASE UserCreated
  <2> DEFINE u == registration.user
  <2>1. /\ u \in Users \ accounts /\ registration.step = "creating"
        /\ accounts' = accounts \cup {u} /\ currentUser' = u /\ keychain' = u
        /\ PostAuthChange(<<Done("created")>>)
        /\ UNCHANGED <<profile, unsent, nav, leaked, registration, seen>>
    BY <1>1, <1>3 DEF UserCreated, CompleteSignIn, UpdateCurrentUser, uiVars,
                      Registration, Idle
  <2>2. CreatedAt(mainQ) = {}
    BY <2>1 DEF RegistrationFresh, Fresh
  <2>3. OnceAtMost(mainQ')
    BY <1>1, <2>1, <2>2, CreatedOnce
  <2>4. profile[u] = None /\ unsent[u] = None
    BY <1>2, <2>1
  <2>5. RegistrationFresh'
    BY <2>1, <2>3, <2>4 DEF RegistrationFresh, Fresh
  <2>6. Owned(nav', accounts')
    BY <1>2, <2>1, MoreAccounts
  <2>7. AccountsKnown'
    BY <1>2, <2>1, <2>6 DEF AccountsKnown, Known
  <2> QED
    BY <2>1, <2>5, <2>7, CountKeeps, SameStack
<1>4. CASE CreationFails
  <2>1. /\ registration.step = "creating" /\ registration'.step = "abandoned"
        /\ accounts \subseteq accounts'
        /\ \A t \in DOMAIN mainQ : mainQ[t] # Done("created")
        /\ UNCHANGED <<authVars, profile, unsent, nav, leaked>>
    BY <1>1, <1>4, StepUser DEF CreationFails
  <2>2. UNCHANGED <<currentUser, keychain, mainQ, seen>>
    BY <2>1 DEF authVars
  <2>3. CreatedAt(mainQ') = {}
    BY <2>1, <2>2 DEF RegistrationFresh, OnceAtMost, CreatedAt
  <2>4. RegistrationFresh'
    BY <2>1, <2>3 DEF RegistrationFresh, OnceAtMost
  <2>5. Owned(nav', accounts')
    BY <1>2, <2>1, MoreAccounts
  <2>6. AccountsKnown'
    BY <1>2, <2>1, <2>2, <2>5 DEF AccountsKnown, Known
  <2> QED
    BY <2>1, <2>2, <2>4, <2>6, CountKeeps, SameStack
<1>5. CASE AvatarStored \/ AvatarFails
  <2>1. /\ registration.step = "uploading" /\ registration'.step \in {"linking", "abandoned"}
        /\ registration'.user = registration.user
    BY <1>1, <1>5, StepUser DEF AvatarStored, AvatarFails
  <2>2. UNCHANGED <<currentUser, keychain, mainQ, seen, accounts, profile, unsent, nav, leaked>>
    BY <1>5 DEF AvatarStored, AvatarFails, authVars, netVars
  <2>3. CreatedAt(mainQ') = {} /\ Fresh(registration.user)
    BY <2>1, <2>2 DEF RegistrationFresh
  <2>4. RegistrationFresh'
    BY <2>1, <2>2, <2>3 DEF RegistrationFresh, OnceAtMost, Fresh
  <2> QED
    BY <2>2, <2>4, CountKeeps, SameStack DEF AccountsKnown, Known
<1>6. CASE LinkArrives
  <2>1. /\ registration.step = "linking" /\ registration'.step = "idle"
        /\ currentUser \in accounts /\ nav' = Append(nav, NewInbox)
        /\ unsent' = [unsent EXCEPT ![currentUser] = registration.user]
        /\ UNCHANGED <<currentUser, keychain, mainQ, seen, accounts, profile, leaked>>
    BY <1>2, <1>6 DEF LinkArrives, authVars, Known, Idle
  <2>2. CreatedAt(mainQ') = {}
    BY <2>1 DEF RegistrationFresh
  <2>3. RegistrationFresh'
    BY <2>1, <2>2 DEF RegistrationFresh, OnceAtMost
  <2>5. Owned(nav', accounts) /\ Logins(nav') = Logins(nav)
    BY <1>1, <1>2, <2>1, ScreenType, PushOwned DEF NewInbox
  <2>6. \A u \in Users : unsent'[u] # None => u \in accounts
    BY <1>1, <1>2, <2>1
  <2>7. AccountsKnown'
    BY <1>2, <2>1, <2>5, <2>6 DEF AccountsKnown, Known
  <2> QED
    BY <2>1, <2>3, <2>5, <2>7, CountKeeps
<1>7. CASE Crash
  BY <1>7, EndedAccount DEF Crash
<1>8. ASSUME NEW u \in Users, SignInAccepted(u)
      PROVE  AccountsKnown' /\ RegistrationFresh' /\ LoginsCounted'
  <2>1. /\ u \in accounts /\ currentUser' = u /\ keychain' = u
        /\ PostAuthChange(<<Done("signedIn")>>)
        /\ UNCHANGED <<netVars, nav, leaked, registration, seen>>
    BY <1>8 DEF SignInAccepted, CompleteSignIn, UpdateCurrentUser
  <2>2. Calm
    BY <1>1, <2>1, PostCalm, OtherTasks
  <2> QED
    BY <2>1, <2>2, AuthOnly, CountKeeps, SameStack DEF Known
<1>9. ASSUME NEW u \in Users, SignInFails(u)
      PROVE  AccountsKnown' /\ RegistrationFresh' /\ LoginsCounted'
  <2>1. UNCHANGED <<netVars, nav, leaked, registration, mainQ, seen, currentUser, keychain>>
    BY <1>9 DEF SignInFails, authVars
  <2>2. Calm
    BY <2>1 DEF Calm
  <2> QED
    BY <1>2, <2>1, <2>2, AuthOnly, CountKeeps, SameStack
<1>10. ASSUME NEW u \in Users, ProfileStored(u)
       PROVE  AccountsKnown' /\ RegistrationFresh' /\ LoginsCounted'
  <2>1. /\ unsent[u] # None
        /\ profile' = [profile EXCEPT ![u] = unsent[u]]
        /\ unsent' = [unsent EXCEPT ![u] = None] /\ leaked' = leaked \ {u}
        /\ UNCHANGED <<currentUser, keychain, mainQ, seen, accounts, nav, registration>>
    BY <1>10 DEF ProfileStored, authVars
  <2>2. u \in accounts
    BY <1>2, <2>1
  <2>3. \A v \in Users : v # u => profile'[v] = profile[v] /\ unsent'[v] = unsent[v]
    BY <1>1, <2>1
  <2>4. AccountsKnown'
    BY <1>2, <2>1, <2>2, <2>3 DEF AccountsKnown, Known
  <2>5. ASSUME Fresh(registration.user) PROVE Fresh(registration.user)'
    BY <1>1, <2>1, <2>3, <2>5 DEF Fresh
  <2>6. RegistrationFresh'
    BY <2>1, <2>5 DEF RegistrationFresh
  <2> QED
    BY <2>1, <2>4, <2>6, CountKeeps, SameStack
<1>11. ASSUME NEW u \in Users, ProfileArrives(u)
       PROVE  AccountsKnown' /\ RegistrationFresh' /\ LoginsCounted'
  <2>1. UNCHANGED <<currentUser, keychain, mainQ, seen, netVars, leaked, registration>>
    BY <1>11 DEF ProfileArrives, authVars
  <2>2. Owned(nav', accounts) /\ Logins(nav') = Logins(nav)
    BY <1>1, <1>2, <1>11, ReadyOwned
  <2>3. AccountsKnown'
    BY <1>2, <2>1, <2>2 DEF AccountsKnown, Known, netVars
  <2>4. RegistrationFresh'
    BY <2>1 DEF RegistrationFresh, Fresh, netVars
  <2> QED
    BY <2>1, <2>2, <2>3, <2>4, CountKeeps
<1>12. ASSUME NEW u \in Users, ProfileRefused(u)
       PROVE  AccountsKnown' /\ RegistrationFresh' /\ LoginsCounted'
  <2>1. /\ unsent' = [unsent EXCEPT ![u] = None] /\ unsent[u] # None
        /\ UNCHANGED <<currentUser, keychain, mainQ, seen, accounts, profile, nav, leaked,
                       registration>>
    BY <1>12 DEF ProfileRefused, authVars, uiVars
  <2>2. \A v \in Users : unsent'[v] # None => unsent[v] # None
    BY <1>1, <2>1
  <2>3. AccountsKnown'
    BY <1>2, <2>1, <2>2 DEF AccountsKnown, Known
  <2>4. ASSUME Fresh(registration.user) PROVE Fresh(registration.user)'
    BY <1>1, <2>1, <2>4 DEF Fresh
  <2>5. RegistrationFresh'
    BY <2>1, <2>4 DEF RegistrationFresh
  <2> QED
    BY <2>1, <2>3, <2>5, CountKeeps, SameStack
<1> QED
  BY <1>3, <1>4, <1>5, <1>6, <1>7, <1>8, <1>9, <1>10, <1>11, <1>12
  DEF Answers, LinkArrivesSignedOut, NoProfileArrives

LEMMA TapsAccount ==
  ASSUME AccountInv, Taps
  PROVE  AccountsKnown' /\ RegistrationFresh' /\ LoginsCounted'
<1> USE DEF AccountInv
<1>1. /\ AuthTypeOK /\ mainQ \in Seq(Task) /\ nav \in Seq(Screen) /\ nav # <<>>
      /\ seen \in Seq(Nullable \cup {Unset}) /\ nav[1].kind = "login"
  BY DEF AuthInv, AuthTypeOK, AppTypeOK, Stacks
<1>2. /\ currentUser \in Known /\ keychain \in Known /\ leaked \subseteq accounts
      /\ Owned(nav, accounts)
  BY DEF AccountsKnown
<1>3. CASE TapRegister
  <2>1. /\ nav' = Append(nav, RegisterScreen)
        /\ UNCHANGED <<currentUser, keychain, mainQ, seen, netVars, leaked, registration>>
    BY <1>3 DEF TapRegister, authVars
  <2>2. Owned(nav', accounts) /\ Logins(nav') = Logins(nav)
    <3>1. RegisterScreen.reads = <<>> /\ RegisterScreen.kind = "register"
      BY DEF RegisterScreen
    <3> QED
      BY <1>1, <1>2, <2>1, <3>1, ScreenType, PushOwned
  <2> QED
    BY <1>2, <2>1, <2>2, CountKeeps
    DEF AccountsKnown, Known, netVars, RegistrationFresh, Fresh
<1>4. CASE Back
  <2>1. /\ nav' = SubSeq(nav, 1, Len(nav) - 1) /\ Top.kind # "login"
        /\ leaked' \subseteq leaked \cup {u \in Users : Barred(u) # {}}
        /\ UNCHANGED <<currentUser, keychain, mainQ, seen, netVars, registration>>
    BY <1>4 DEF Back, Pop, authVars
  <2>2. Len(nav) \in Nat /\ Len(nav) >= 2
    BY <1>1, <2>1 DEF Top
  <2>3. Owned(nav', accounts) /\ Logins(nav') = Logins(nav)
    BY <1>1, <1>2, <2>1, <2>2, PopOwned DEF Top
  <2>4. leaked' \subseteq accounts
    BY <1>1, <1>2, <2>1, BarredOwned
  <2> QED
    BY <1>2, <2>1, <2>3, <2>4, CountKeeps
    DEF AccountsKnown, Known, netVars, RegistrationFresh, Fresh
<1>5. ASSUME NEW u \in Users, TapLogin(u)
      PROVE  AccountsKnown' /\ RegistrationFresh' /\ LoginsCounted'
  <2>1. UNCHANGED <<netVars, nav, leaked, registration, mainQ, seen, currentUser, keychain>>
    BY <1>5 DEF TapLogin, authVars
  <2>2. Calm
    BY <2>1 DEF Calm
  <2> QED
    BY <1>2, <2>1, <2>2, AuthOnly, CountKeeps, SameStack
<1>6. ASSUME NEW u \in Users, StartRegistration(u)
      PROVE  AccountsKnown' /\ RegistrationFresh' /\ LoginsCounted'
  <2>1. /\ registration.step = "idle" /\ registration'.step = "creating"
        /\ UNCHANGED <<netVars, nav, leaked, mainQ, seen, currentUser, keychain>>
    BY <1>6 DEF StartRegistration, Touchable, Free, authVars
  <2>2. CreatedAt(mainQ') = {}
    BY <2>1 DEF RegistrationFresh
  <2> QED
    BY <2>1, <2>2, CountKeeps, SameStack
    DEF AccountsKnown, Known, netVars, RegistrationFresh, OnceAtMost
<1>7. ASSUME NEW saved \in BOOLEAN, Logout(saved)
      PROVE  AccountsKnown' /\ RegistrationFresh' /\ LoginsCounted'
  <2> DEFINE next == <<First(Len(seen) + 1)>>
  <2>1. /\ seen' = Append(seen, Unset) /\ nav' = Append(nav, LoginScreen)
        /\ PostAuthChange(next) \/ mainQ' = mainQ \o next
        /\ currentUser' \in Known /\ keychain' \in Known
        /\ UNCHANGED <<netVars, leaked, registration>>
    BY <1>2, <1>7 DEF Logout, SignOutAndListen, UpdateCurrentUser, Known
  <2>2. Calm
    <3>1. Len(seen) + 1 \in Nat
      BY <1>1
    <3>2. next \in Seq(Task) /\ CreatedAt(next) = {}
      BY <3>1, OtherTasks
    <3> QED
      BY <1>1, <2>1, <3>2, PostCalm, AppendCalm
  <2>3. /\ LoginScreen \in Screen /\ LoginScreen.reads = <<>> /\ LoginScreen.kind = "login"
    BY ScreenType DEF LoginScreen
  <2>4. Owned(nav', accounts) /\ Logins(nav') = Logins(nav) \cup {Len(nav) + 1}
    BY <1>1, <1>2, <2>1, <2>3, PushOwned
  <2>5. Cardinality(Logins(nav')) = Len(seen')
    BY <1>1, <2>1, <2>4, CountLogin DEF LoginsCounted
  <2>6. AccountsKnown'
    BY <1>2, <2>1, <2>4 DEF AccountsKnown, Known, netVars
  <2>7. RegistrationFresh'
    BY <2>1, <2>2 DEF RegistrationFresh, Fresh, Calm, netVars
  <2> QED
    BY <2>5, <2>6, <2>7 DEF LoginsCounted
<1> QED
  BY <1>3, <1>4, <1>5, <1>6, <1>7 DEF Taps

----------------------------------------------------------------------------
(* A crash takes an account without a node: that of an observer which was  *)
(* given none, or that of a registration whose link came too late.         *)
LEMMA CrashCause ==
  ASSUME AccountInv, [Next]_vars, phase = "up", phase' = "crashed"
  PROVE  \E u \in accounts :
           /\ profile[u] = None /\ unsent[u] = None
           /\ Observed(u) \/ registration = [step |-> "linking", user |-> u]
<1> USE DEF AccountInv
<1>1. LinkArrivesSignedOut \/ \E u \in Users : NoProfileArrives(u)
  <2>1. ~(UNCHANGED phase)
    OBVIOUS
  <2>2. ~Restart /\ ~Kill
    BY DEF Restart, Launch, Kill, Ended, End
  <2>3. ~(Refresh \/ \E ok \in BOOLEAN : Load(ok) \/ Revoke(ok))
    BY <2>1 DEF Refresh, RefreshToken, Load, LoadUser, Revoke, RevokeUser, UpdateCurrentUser
  <2>4. ~MainQueue /\ ~\E i \in DOMAIN nav : ReadUser(i)
    BY <2>1 DEF MainQueue, RunListener, RunSignedIn, RunCreated, RunMainQ, ReadUser, authVars
  <2>5. ~Taps
    BY <2>1 DEF Taps, TapRegister, Back, Pop, TapLogin, StartRegistration, Logout,
                SignOutAndListen, UpdateCurrentUser, authVars
  <2>6. Answers
    BY <2>1, <2>2, <2>3, <2>4, <2>5 DEF Next, vars, authVars
  <2> QED
    BY <2>1, <2>6
    DEF Answers, UserCreated, CreationFails, AvatarStored, AvatarFails, LinkArrives,
        SignInAccepted, SignInFails, ProfileStored, ProfileRefused, ProfileArrives,
        CompleteSignIn, UpdateCurrentUser, authVars
<1>2. CASE LinkArrivesSignedOut
  <2>1. registration.step = "linking" /\ Fresh(registration.user)
    BY <1>2 DEF LinkArrivesSignedOut, RegistrationFresh
  <2>2. registration = [step |-> "linking", user |-> registration.user]
    BY <2>1 DEF AppTypeOK, Registration, Idle
  <2> QED
    BY <2>1, <2>2 DEF Fresh
<1>3. CASE \E u \in Users : NoProfileArrives(u)
  <2>1. PICK u \in Users : NoProfileArrives(u)
    BY <1>3
  <2>2. Observed(u) /\ unsent[u] = None /\ profile[u] = None
    BY <2>1 DEF NoProfileArrives, Visible
  <2>3. u \in accounts
    BY <2>2, BarredOwned DEF Observed, AccountsKnown, AppTypeOK, Stacks
  <2> QED
    BY <2>2, <2>3
<1> QED
  BY <1>1, <1>2, <1>3

LEMMA InitAccount == Init => AccountInv
<1> SUFFICES ASSUME Init PROVE AccountInv
  OBVIOUS
<1>1. AuthInv /\ AppTypeOK
  BY InitType
<1>2. /\ nav = <<LoginScreen>> /\ Owned(nav, accounts) /\ Logins(nav) = {1}
  BY DEF Init, FreshApp, Owned, Logins, LoginScreen
<1>3. LoginsCounted
  BY <1>2, FS_Singleton DEF LoginsCounted, Init, AuthInit, FreshProcess
<1>4. AccountsKnown
  BY <1>2 DEF AccountsKnown, Known, Init, AuthInit, FreshProcess, FreshApp, Nobody
<1>5. CreatedAt(mainQ) = {}
  BY OtherTasks DEF Init, AuthInit, FreshProcess
<1>6. RegistrationFresh
  BY <1>5 DEF RegistrationFresh, OnceAtMost, Init, FreshApp, Idle
<1> QED
  BY <1>1, <1>3, <1>4, <1>6 DEF AccountInv

LEMMA NextAccount == AccountInv /\ [Next]_vars => AccountInv'
<1> SUFFICES ASSUME AccountInv, [Next]_vars PROVE AccountInv'
  OBVIOUS
<1>1. AuthInv' /\ AppTypeOK'
  BY StepImplements, NextKeeps, NextType DEF AccountInv, AuthInv
<1>2. AccountsKnown' /\ RegistrationFresh' /\ LoginsCounted'
  <2>1. CASE UNCHANGED vars
    <3>1. UNCHANGED <<currentUser, keychain, mainQ, seen, netVars, nav, leaked, registration>>
      BY <2>1 DEF vars, authVars, uiVars
    <3>2. Calm
      BY <3>1 DEF Calm
    <3> QED
      BY <3>1, <3>2, AuthOnly, CountKeeps, SameStack DEF AccountInv, AccountsKnown
  <2> QED
    BY <1>1, <2>1, RestartAccount, EndedAccount, WorkAccount, ReadAccount, QueueAccount,
       AnswersAccount, TapsAccount DEF Next, Kill
<1> QED
  BY <1>1, <1>2 DEF AccountInv

LEMMA AccountInvariance == Spec => []AccountInv
BY InitAccount, NextAccount, PTL DEF Spec

(* Listeners and login screens stay one to one through any logouts,        *)
(* crashes and restarts.                                                   *)
THEOREM ListenersMatchLogins == Spec => []OneListenerPerLogin
<1>1. AccountInv => OneListenerPerLogin
  BY DEF AccountInv, LoginsCounted, Logins, OneListenerPerLogin
<1> QED
  BY <1>1, AccountInvariance, PTL

(* No screen of Session crashes over a user who has a profile, sent or     *)
(* stored, nor over one Firebase Auth does not know, for any users and     *)
(* bounds, an impatient user and a failing keychain: what crashes them is  *)
(* the account of an observer that found none, or of a registration whose  *)
(* link found nobody signed in.                                            *)
THEOREM CrashesHaveBareAccount == Spec => CrashHasBareAccount
<1>1. AccountInv /\ [Next]_vars =>
        [phase = "up" /\ phase' = "crashed" =>
           \E u \in accounts :
             /\ profile[u] = None /\ unsent[u] = None
             /\ Observed(u) \/ registration = [step |-> "linking", user |-> u]]_vars
  BY CrashCause
<1> QED
  BY <1>1, AccountInvariance, PTL DEF Spec, CrashHasBareAccount

----------------------------------------------------------------------------
(* A patient user.                                                         *)

(* A registration runs without a sign-in beside it, and between            *)
(* createUser's answer and the link nobody else is signed in.              *)
RegistrationAlone ==
  registration # Idle =>
    /\ loaded /\ requests = NoRequest
    /\ registration.step \in {"uploading", "linking"} \/ CreatedAt(mainQ) # {}
         => currentUser \in {registration.user, None}

(* A register screen is on a login screen.                                 *)
Sound(s) == \A i \in 2..Len(s) : s[i].kind = "register" => s[i - 1].kind = "login"

(* An inbox that has read nobody but the signed-in user.                   *)
Own(x) == \A r \in DOMAIN x.reads : x.reads[r] = currentUser

(* Inboxes that are shown, or will be without a further login, are the     *)
(* signed-in user's.                                                       *)
OwnOrNone == currentUser # None => \A i \in DOMAIN nav : Showable(i) => Own(nav[i])

(* A server still owes an answer that will sign somebody in.               *)
Awaited == requests # NoRequest \/ (registration.step = "creating" /\ CreatedAt(mainQ) = {})

(* No listener has news for its login screen.                              *)
Quiet == currentUser = None \/ \A l \in DOMAIN seen : seen[l] = currentUser

OneRequest ==
  \A u, v \in Users : requests[u] > 0 /\ requests[v] > 0 => u = v /\ requests[u] = 1

AwaitedQuietly ==
  /\ OneRequest
  /\ Awaited => Top.kind # "messages" /\ Quiet
  /\ ~loaded => requests = NoRequest /\ \A i \in DOMAIN nav : nav[i].kind # "messages"

StackOwn == Sound(nav) /\ OwnOrNone /\ InboxOfOneAccount

PatientInv ==
  /\ AccountInv
  /\ RegistrationAlone /\ ProfileIsOwn /\ StackOwn /\ AwaitedQuietly

(* What a patient user's next steps must keep.                             *)
Kept == RegistrationAlone' /\ ProfileIsOwn' /\ StackOwn' /\ AwaitedQuietly'

(* The main queue lost no completion of createUser.                        *)
Steady == CreatedAt(mainQ') = {} <=> CreatedAt(mainQ) = {}

LEMMA RunSteady ==
  ASSUME AuthTypeOK, mainQ # <<>>, RunMainQ, Head(mainQ).kind # "created"
  PROVE  Steady
<1>1. 1 \notin CreatedAt(mainQ)
  BY DEF CreatedAt, AuthTypeOK
<1> QED
  BY <1>1, RunCreatedAt DEF Steady

LEMMA PostSteady ==
  ASSUME AuthTypeOK, NEW t \in Seq(Task), CreatedAt(t) = {},
         PostAuthChange(t) \/ mainQ' = mainQ \o t
  PROVE  Steady
<1>1. mainQ \in Seq(Task) /\ mainQ \o <<Notify(1)>> \in Seq(Task)
  BY OtherTasks, ConcatProperties DEF AuthTypeOK
<1>2. CreatedAt(mainQ \o <<Notify(1)>>) = CreatedAt(mainQ)
  BY <1>1, OtherTasks, ConcatCreated
<1>3. CreatedAt((mainQ \o <<Notify(1)>>) \o t) = CreatedAt(mainQ)
  BY <1>1, <1>2, ConcatCreated
<1>4. CreatedAt(mainQ \o t) = CreatedAt(mainQ)
  BY <1>1, ConcatCreated
<1> QED
  BY <1>3, <1>4 DEF PostAuthChange, Steady

LEMMA CreatedPends ==
  ASSUME AuthTypeOK, PostAuthChange(<<Done("created")>>)
  PROVE  CreatedAt(mainQ') # {}
<1> DEFINE q == mainQ \o <<Notify(1)>>
<1>1. q \in Seq(Task) /\ Done("created") \in Task
  BY OtherTasks, ConcatProperties, TaskType DEF AuthTypeOK
<1>2. mainQ' = q \o <<Done("created")>>
  BY DEF PostAuthChange
<1> HIDE DEF q
<1>3. Len(q) + 1 \in DOMAIN mainQ' /\ mainQ'[Len(q) + 1] = Done("created")
  BY <1>1, <1>2, LastOfConcat
<1> QED
  BY <1>3 DEF CreatedAt, Done

(* With nothing left to run every listener has caught up.                  *)
LEMMA SettledQuiet ==
  ASSUME AuthInv, mainQ = <<>>
  PROVE  Quiet
BY DEF AuthInv, ListenersCatchUp, Quiet

(* Which screens are shown after a push: the pushed one, and with an inbox *)
(* those that were shown before.                                           *)
LEMMA PushSound ==
  ASSUME nav \in Seq(Screen), nav # <<>>, Sound(nav), InboxOfOneAccount,
         NEW x \in Screen, x.reads = <<>>, nav' = Append(nav, x),
         x.kind = "register" => Top.kind = "login"
  PROVE  /\ Sound(nav') /\ InboxOfOneAccount' /\ Top' = x
         /\ \A i \in DOMAIN nav' : nav'[i] = x \/ (i \in DOMAIN nav /\ nav'[i] = nav[i])
         /\ \A i \in DOMAIN nav' : Showable(i)' /\ nav'[i] # x =>
              i \in DOMAIN nav /\ Showable(i) /\ nav'[i] = nav[i]
<1>1. /\ Len(nav) \in Nat \ {0} /\ Len(nav') = Len(nav) + 1
      /\ \A i \in 1..Len(nav) : nav'[i] = nav[i]
      /\ nav'[Len(nav) + 1] = x
  BY AppendProperties
<1>2. DOMAIN nav' = 1..Len(nav) + 1 /\ DOMAIN nav = 1..Len(nav)
  BY <1>1, AppendProperties
<1>3. ASSUME NEW i \in 2..Len(nav'), nav'[i].kind = "register" PROVE nav'[i - 1].kind = "login"
  <2>1. CASE i \in 2..Len(nav)
    BY <1>1, <1>3, <2>1 DEF Sound
  <2>2. CASE i = Len(nav) + 1
    BY <1>1, <1>3, <2>2 DEF Top
  <2> QED
    BY <1>1, <2>1, <2>2
<1>4. Sound(nav') /\ Top' = x
  BY <1>1, <1>3 DEF Sound, Top
<1>5. \A i \in DOMAIN nav' : nav'[i] = x \/ (i \in DOMAIN nav /\ nav'[i] = nav[i])
  BY <1>1, <1>2
<1>6. InboxOfOneAccount'
  BY <1>5 DEF InboxOfOneAccount
<1>7. ASSUME NEW i \in DOMAIN nav', Showable(i)', nav'[i] # x
      PROVE  i \in DOMAIN nav /\ Showable(i) /\ nav'[i] = nav[i]
  <2>1. i \in 1..Len(nav)
    BY <1>1, <1>2, <1>7
  <2>2. \A j \in i..Len(nav) : j \in i..Len(nav') /\ nav'[j] = nav[j]
    BY <1>1, <2>1
  <2> QED
    BY <1>1, <1>2, <1>7, <2>1, <2>2 DEF Showable, IsInbox
<1> QED
  BY <1>4, <1>5, <1>6, <1>7

(* Only a push, a pop and a read touch what the shown screens have read.   *)
LEMMA SameShown ==
  ASSUME UNCHANGED <<nav, currentUser>>, StackOwn
  PROVE  StackOwn'
BY DEF StackOwn, Sound, OwnOrNone, Own, InboxOfOneAccount, Showable, IsInbox

LEMMA PopSound ==
  ASSUME nav \in Seq(Screen), Len(nav) >= 2, Sound(nav), InboxOfOneAccount,
         nav' = SubSeq(nav, 1, Len(nav) - 1)
  PROVE  /\ Sound(nav') /\ InboxOfOneAccount' /\ Top' = nav[Len(nav) - 1]
         /\ \A i \in DOMAIN nav' : i \in DOMAIN nav /\ nav'[i] = nav[i]
         /\ \A i \in DOMAIN nav' : Showable(i)' /\ Top.kind = "messages" => Showable(i)
<1>1. /\ Len(nav) \in Nat /\ Len(nav') = Len(nav) - 1
      /\ DOMAIN nav = 1..Len(nav) /\ DOMAIN nav' = 1..Len(nav) - 1
      /\ \A i \in 1..Len(nav) - 1 : nav'[i] = nav[i]
  OBVIOUS
<1>2. Sound(nav') /\ Top' = nav[Len(nav) - 1]
  BY <1>1 DEF Sound, Top
<1>3. \A i \in DOMAIN nav' : i \in DOMAIN nav /\ nav'[i] = nav[i]
  BY <1>1
<1>4. InboxOfOneAccount'
  BY <1>3 DEF InboxOfOneAccount
<1>5. ASSUME NEW i \in DOMAIN nav', Showable(i)', Top.kind = "messages" PROVE Showable(i)
  <2>1. \A j \in i..Len(nav) - 1 : nav[j].kind = "messages"
    BY <1>1, <1>5 DEF Showable, IsInbox
  <2> QED
    BY <1>1, <1>5, <2>1 DEF Showable, IsInbox, Top
<1> QED
  BY <1>2, <1>3, <1>4, <1>5

LEMMA IdleStep ==
  ASSUME registration \in Registration, registration.step = "idle"
  PROVE  registration = Idle
BY DEF Registration

(* A step that leaves the screens alone and signs nobody in.               *)
LEMMA CalmKept ==
  ASSUME PatientInv, UNCHANGED <<profile, unsent, nav, requests, registration, seen>>,
         loaded => loaded', currentUser' \in {currentUser, None}, Steady
  PROVE  Kept
<1> USE DEF PatientInv
<1>1. RegistrationAlone'
  BY DEF RegistrationAlone, Steady
<1>2. ProfileIsOwn'
  BY DEF ProfileIsOwn
<1>3. StackOwn'
  BY DEF StackOwn, OwnOrNone, Own, Showable, IsInbox, Sound, InboxOfOneAccount
<1>4. AwaitedQuietly'
  BY DEF AwaitedQuietly, OneRequest, Awaited, Steady, Quiet, Top
<1> QED
  BY <1>1, <1>2, <1>3, <1>4 DEF Kept

LEMMA RestartKept ==
  ASSUME PatientInv, Restart
  PROVE  Kept
<1>1. UNCHANGED <<profile, unsent, nav, requests, registration, seen, loaded, currentUser, mainQ>>
  BY DEF Restart, Launch, netVars, uiVars
<1>2. Steady
  BY <1>1 DEF Steady
<1> QED
  BY <1>1, <1>2, CalmKept

LEMMA EndedKept ==
  ASSUME PatientInv, NEW how, Ended(how)
  PROVE  Kept
<1> USE DEF PatientInv, Ended, FreshApp, End, FreshProcess
<1>1. RegistrationAlone'
  BY DEF RegistrationAlone
<1>2. ProfileIsOwn'
  BY DEF ProfileIsOwn, Nobody
<1>3. nav' = <<LoginScreen>> /\ Top' = LoginScreen /\ LoginScreen.kind = "login"
  BY DEF Top, LoginScreen
<1>4. Sound(nav') /\ OwnOrNone'
  BY <1>3 DEF OwnOrNone, Sound
<1>5. InboxOfOneAccount'
  <2>1. \A i \in DOMAIN nav' : nav'[i].reads = <<>>
    BY <1>3 DEF LoginScreen
  <2> QED
    BY <2>1 DEF InboxOfOneAccount
<1>6. AwaitedQuietly'
  BY <1>3 DEF AwaitedQuietly, OneRequest, NoRequest, Awaited, Idle
<1> QED
  BY <1>1, <1>2, <1>4, <1>5, <1>6 DEF Kept, StackOwn

(* The user archived in the keychain comes back before any inbox exists.   *)
LEMMA LoadKept ==
  ASSUME PatientInv, NEW ok \in BOOLEAN, Load(ok)
  PROVE  Kept
<1> USE DEF PatientInv
<1>1. /\ ~loaded /\ UNCHANGED <<profile, unsent, nav, requests, registration, seen>>
  BY DEF Load, LoadUser, netVars, uiVars
<1>2. nav \in Seq(Screen) /\ nav # <<>>
  BY DEF AccountInv, AppTypeOK, Stacks
<1>3. /\ registration = Idle /\ requests = NoRequest /\ Top.kind # "messages"
      /\ \A i \in DOMAIN nav : nav[i].kind # "messages"
  BY <1>1, <1>2 DEF RegistrationAlone, AwaitedQuietly, Top
<1>4. RegistrationAlone' /\ ProfileIsOwn'
  BY <1>1, <1>3 DEF RegistrationAlone, ProfileIsOwn
<1>5. StackOwn'
  <2>1. \A i \in DOMAIN nav : ~Showable(i)
    BY <1>2, <1>3, LenProperties DEF Showable, IsInbox
  <2> QED
    BY <1>1, <2>1 DEF StackOwn, Sound, OwnOrNone, Showable, IsInbox, InboxOfOneAccount
<1>6. AwaitedQuietly'
  BY <1>1, <1>3 DEF AwaitedQuietly, OneRequest, NoRequest, Awaited, Idle
<1> QED
  BY <1>4, <1>5, <1>6 DEF Kept

LEMMA WorkKept ==
  ASSUME PatientInv, Refresh \/ \E ok \in BOOLEAN : Revoke(ok)
  PROVE  Kept
<1>1. /\ UNCHANGED <<profile, unsent, nav, requests, registration, seen, loaded>>
      /\ currentUser' \in {currentUser, None}
  BY DEF Refresh, RefreshToken, Revoke, RevokeUser, UpdateCurrentUser, netVars, uiVars
<1>2. Steady
  <2>1. AuthTypeOK
    BY DEF PatientInv, AccountInv, AuthInv
  <2>2. PostAuthChange(<<>>) \/ mainQ' = mainQ \o <<>>
    BY DEF Refresh, RefreshToken, Revoke, RevokeUser, UpdateCurrentUser
  <2> QED
    BY <2>1, <2>2, PostSteady, OtherTasks
<1> QED
  BY <1>1, <1>2, CalmKept

(* A read of a screen that is shown finds whom the reads before it found,  *)
(* or nobody.                                                              *)
LEMMA ReadKept ==
  ASSUME PatientInv, NEW i \in DOMAIN nav, ReadUser(i)
  PROVE  Kept
<1> USE DEF PatientInv, AccountInv
<1>1. /\ AuthTypeOK /\ nav \in Stacks /\ nav \in Seq(Screen) /\ nav # <<>> /\ loaded
      /\ UNCHANGED <<profile, unsent, requests, registration, seen, loaded, currentUser, mainQ>>
  BY DEF AuthInv, AppTypeOK, Stacks, ReadUser, Ready, authVars, netVars
<1>2. /\ Len(nav') = Len(nav) /\ nav' \in Seq(Screen) /\ DOMAIN nav' = DOMAIN nav
      /\ Len(nav) \in Nat \ {0} /\ DOMAIN nav = 1..Len(nav)
  <2>1. Len(nav') = Len(nav) /\ nav' \in Seq(Screen)
    BY <1>1, ReadScreen DEF Stacks
  <2> QED
    BY <1>1, <2>1
<1>3. \A j \in DOMAIN nav : nav'[j].kind = nav[j].kind
  BY <1>1, ReadScreen
<1>4. RegistrationAlone' /\ ProfileIsOwn'
  BY <1>1 DEF RegistrationAlone, ProfileIsOwn
<1>5. AwaitedQuietly'
  <2>1. Top'.kind = Top.kind
    BY <1>2, <1>3 DEF Top
  <2> QED
    BY <1>1, <1>2, <1>3, <2>1 DEF AwaitedQuietly, OneRequest, Awaited, Quiet
<1>6. Sound(nav')
  <2>1. \A j \in 2..Len(nav) : j \in DOMAIN nav /\ j - 1 \in DOMAIN nav
    BY <1>2
  <2> QED
    BY <1>2, <1>3, <2>1 DEF StackOwn, Sound
<1>7. \A j \in DOMAIN nav : Showable(j)' <=> Showable(j)
  <2>1. \A j \in DOMAIN nav : \A k \in j..Len(nav) : k \in DOMAIN nav
    BY <1>2
  <2> QED
    BY <1>2, <1>3, <2>1 DEF Showable, IsInbox
<1> DEFINE old == nav[i].reads
           new == nav'[i].reads
<1>8. /\ DOMAIN new = DOMAIN old \cup {Len(old) + 1}
      /\ new[Len(old) + 1] = currentUser
      /\ \A k \in DOMAIN old : new[k] = old[k]
  <2>1. nav[i] \in Screen
    BY <1>1
  <2>2. old \in Reads /\ Len(old) < List /\ currentUser \in Nullable
    BY <1>1, <2>1 DEF Screen, ReadUser, AuthTypeOK
  <2>3. new = Append(old, currentUser)
    BY <1>1, ReadScreen
  <2> HIDE DEF old, new
  <2>4. old \in Seq(Nullable)
    BY <2>2, ReadsType
  <2> QED
    BY <2>2, <2>3, <2>4, AppendProperties
<1>9. Showable(i) /\ (currentUser # None => \A k \in DOMAIN old : old[k] = currentUser)
  BY DEF ReadUser, StackOwn, OwnOrNone, Own
<1>10. OwnOrNone'
  <2>1. ASSUME currentUser' # None, NEW j \in DOMAIN nav', Showable(j)',
               NEW r \in DOMAIN nav'[j].reads
        PROVE  nav'[j].reads[r] = currentUser'
    <3>1. CASE j = i
      BY <1>1, <1>8, <1>9, <2>1, <3>1
    <3>2. CASE j # i
      <4>1. nav'[j] = nav[j] /\ Own(nav[j])
        BY <1>1, <1>2, <1>7, <2>1, <3>2, ReadScreen DEF StackOwn, OwnOrNone
      <4> QED
        BY <1>1, <2>1, <4>1 DEF Own
    <3> QED
      BY <3>1, <3>2
  <2> QED
    BY <2>1 DEF OwnOrNone, Own
<1>11. InboxOfOneAccount'
  <2>1. ASSUME NEW j \in DOMAIN nav', NEW r \in DOMAIN nav'[j].reads,
               NEW s \in DOMAIN nav'[j].reads
        PROVE  nav'[j].reads[r] = nav'[j].reads[s] \/ None \in {nav'[j].reads[r], nav'[j].reads[s]}
    <3>1. CASE j = i
      <4>1. \A k \in DOMAIN new : new[k] = currentUser \/ (k \in DOMAIN old /\ new[k] = old[k])
        BY <1>8
      <4>2. \A k, m \in DOMAIN old : old[k] = old[m] \/ None \in {old[k], old[m]}
        BY DEF StackOwn, InboxOfOneAccount
      <4> QED
        BY <1>9, <2>1, <3>1, <4>1, <4>2
    <3>2. CASE j # i
      BY <1>1, <1>2, <2>1, <3>2, ReadScreen DEF StackOwn, InboxOfOneAccount
    <3> QED
      BY <3>1, <3>2
  <2> QED
    BY <2>1 DEF InboxOfOneAccount
<1> QED
  BY <1>4, <1>5, <1>6, <1>10, <1>11 DEF Kept, StackOwn

LEMMA RunCreatedKept ==
  ASSUME PatientInv, RunCreated
  PROVE  Kept
<1> USE DEF PatientInv, AccountInv
<1>1. /\ registration \in Registration /\ mainQ \in Seq(Task) /\ mainQ # <<>>
      /\ Head(mainQ).kind = "created"
      /\ UNCHANGED <<profile, unsent, nav, requests, loaded, currentUser>>
  BY DEF AppTypeOK, AuthInv, AuthTypeOK, RunCreated, IsNext, RunMainQ, netVars
<1>2. registration.step = "creating" /\ registration'.step = "uploading"
      /\ registration'.user = registration.user
  BY <1>1, StepUser DEF RunCreated
<1>3. CreatedAt(mainQ) # {} /\ registration # Idle
  BY <1>1, <1>2 DEF CreatedAt, Idle
<1>4. RegistrationAlone'
  BY <1>1, <1>2, <1>3 DEF RegistrationAlone
<1>5. ProfileIsOwn' /\ StackOwn'
  BY <1>1, SameShown DEF ProfileIsOwn
<1>6. AwaitedQuietly'
  BY <1>1, <1>2, <1>3 DEF AwaitedQuietly, OneRequest, Awaited, RegistrationAlone
<1> QED
  BY <1>4, <1>5, <1>6 DEF Kept

(* A new inbox on the stack has read nothing yet.                          *)
LEMMA PushInbox ==
  ASSUME nav \in Seq(Screen), nav # <<>>, StackOwn, UNCHANGED currentUser,
         nav' = Append(nav, NewInbox)
  PROVE  StackOwn'
<1>1. NewInbox \in Screen /\ NewInbox.reads = <<>> /\ NewInbox.kind = "messages"
  BY ScreenType DEF NewInbox
<1>2. /\ Sound(nav') /\ InboxOfOneAccount'
      /\ \A i \in DOMAIN nav' : Showable(i)' /\ nav'[i] # NewInbox =>
           i \in DOMAIN nav /\ Showable(i) /\ nav'[i] = nav[i]
  BY <1>1, PushSound DEF StackOwn
<1>3. OwnOrNone'
  BY <1>1, <1>2 DEF StackOwn, OwnOrNone, Own
<1> QED
  BY <1>2, <1>3 DEF StackOwn

(* A push of another screen covers every inbox.                            *)
LEMMA PushOther ==
  ASSUME nav \in Seq(Screen), nav # <<>>, StackOwn,
         NEW x \in {LoginScreen, RegisterScreen}, nav' = Append(nav, x),
         x = RegisterScreen => Top.kind = "login"
  PROVE  /\ StackOwn' /\ Top'.kind # "messages"
         /\ \A i \in DOMAIN nav' : nav'[i].kind # "messages" \/ (i \in DOMAIN nav /\ nav'[i] = nav[i])
<1>1. /\ x \in Screen /\ x.reads = <<>> /\ x.kind # "messages"
      /\ x.kind = "register" => x = RegisterScreen
  <2>1. CASE x = LoginScreen
    BY <2>1, ScreenType DEF LoginScreen
  <2>2. CASE x = RegisterScreen
    BY <2>2, ScreenType DEF RegisterScreen
  <2> QED
    BY <2>1, <2>2
<1>2. /\ Sound(nav') /\ InboxOfOneAccount' /\ Top' = x
      /\ \A i \in DOMAIN nav' : nav'[i] = x \/ (i \in DOMAIN nav /\ nav'[i] = nav[i])
  BY <1>1, PushSound DEF StackOwn
<1>3. OwnOrNone'
  <2>1. Len(nav') \in Nat /\ DOMAIN nav' = 1..Len(nav')
    BY <1>1, AppendProperties
  <2>2. \A i \in DOMAIN nav' : ~Showable(i)'
    BY <1>1, <1>2, <2>1 DEF Showable, IsInbox, Top
  <2> QED
    BY <2>2 DEF OwnOrNone
<1> QED
  BY <1>1, <1>2, <1>3 DEF StackOwn

(* A listener pushes an inbox only if it has news, and has none while an   *)
(* answer is awaited.                                                      *)
LEMMA ListenerKept ==
  ASSUME PatientInv, RunListener
  PROVE  Kept
<1> USE DEF PatientInv, AccountInv
<1>1. /\ AuthTypeOK /\ mainQ \in Seq(Task) /\ mainQ # <<>> /\ RunMainQ
      /\ Head(mainQ).kind # "created"
      /\ nav \in Seq(Screen) /\ nav # <<>>
      /\ UNCHANGED <<profile, unsent, requests, registration, loaded, currentUser>>
  BY DEF AppTypeOK, Stacks, AuthInv, AuthTypeOK, RunListener, IsNext, RunMainQ, netVars
<1>2. Steady
  BY <1>1, RunSteady
<1>3. RegistrationAlone' /\ ProfileIsOwn'
  BY <1>1, <1>2 DEF RegistrationAlone, Steady, ProfileIsOwn
<1>4. Quiet => Quiet'
  BY <1>1 DEF Quiet, RunMainQ
<1>5. CASE UNCHANGED nav
  <2>1. StackOwn'
    BY <1>1, <1>5, SameShown
  <2>2. AwaitedQuietly'
    BY <1>1, <1>2, <1>4, <1>5 DEF AwaitedQuietly, OneRequest, Awaited, Steady, Top
  <2> QED
    BY <1>3, <2>1, <2>2 DEF Kept
<1>6. CASE nav' = Append(nav, NewInbox) /\ currentUser # None /\ Called # {}
  <2>1. ~Quiet
    BY <1>6 DEF Quiet, Called, Told
  <2>2. ~Awaited
    BY <2>1 DEF AwaitedQuietly
  <2>3. StackOwn'
    BY <1>1, <1>6, PushInbox
  <2>4. loaded
    BY <1>6 DEF AuthInv, NothingLoadedYet
  <2>5. AwaitedQuietly'
    BY <1>1, <1>2, <2>2, <2>4 DEF AwaitedQuietly, OneRequest, Awaited, Steady
  <2> QED
    BY <1>3, <2>3, <2>5 DEF Kept
<1> QED
  BY <1>5, <1>6 DEF RunListener

LEMMA QueueKept ==
  ASSUME PatientInv, MainQueue
  PROVE  Kept
<1>1. CASE RunSignedIn
  <2>1. /\ mainQ \in Seq(Task) /\ mainQ # <<>> /\ Head(mainQ).kind = "signedIn"
        /\ AuthTypeOK /\ Told = {} /\ seen \in Seq(Nullable \cup {Unset})
        /\ UNCHANGED <<profile, unsent, nav, requests, registration, loaded, currentUser>>
    BY <1>1 DEF RunSignedIn, IsNext, RunMainQ, Told, Notify, First, PatientInv, AccountInv,
                AuthInv, AuthTypeOK, netVars, uiVars
  <2>2. UNCHANGED seen
    BY <1>1, <2>1 DEF RunSignedIn, RunMainQ
  <2>3. Steady
    BY <1>1, <2>1, RunSteady DEF RunSignedIn
  <2> QED
    BY <2>1, <2>2, <2>3, CalmKept
<1> QED
  BY <1>1, ListenerKept, RunCreatedKept DEF MainQueue

(* While a login or a register screen is on top no inbox is shown, whoever *)
(* is signed in.                                                           *)
LEMMA CoveredKeeps ==
  ASSUME nav \in Seq(Screen), nav # <<>>, Top.kind # "messages", StackOwn, UNCHANGED nav
  PROVE  StackOwn'
<1>1. \A i \in DOMAIN nav : ~Showable(i)
  BY LenProperties DEF Showable, IsInbox, Top
<1> QED
  BY <1>1 DEF StackOwn, Sound, OwnOrNone, Showable, IsInbox, InboxOfOneAccount

(* The one request that is under way is answered.                          *)
LEMMA LastRequest ==
  ASSUME PatientInv, NEW u \in Users, requests[u] > 0,
         requests' = [requests EXCEPT ![u] = @ - 1]
  PROVE  requests' = NoRequest /\ requests # NoRequest
<1>1. requests \in [Users -> Nat] /\ OneRequest
  BY DEF PatientInv, AccountInv, AppTypeOK, AwaitedQuietly
<1>2. requests[u] = 1 /\ \A v \in Users \ {u} : requests[v] = 0
  <2>1. requests[u] = 1
    BY <1>1 DEF OneRequest
  <2>2. ASSUME NEW v \in Users, v # u PROVE requests[v] = 0
    <3>1. ~(requests[v] > 0) /\ requests[v] \in Nat
      BY <1>1, <2>2 DEF OneRequest
    <3> QED
      BY <3>1
  <2> QED
    BY <2>1, <2>2
<1>3. \A v \in Users : requests'[v] = 0
  BY <1>1, <1>2
<1>4. requests' = [v \in Users |-> 0]
  <2>1. requests' = [v \in Users |-> requests'[v]]
    BY <1>1
  <2> QED
    BY <1>3, <2>1
<1>5. requests # NoRequest
  BY <1>2 DEF NoRequest
<1> QED
  BY <1>4, <1>5, Zenon DEF NoRequest

LEMMA NoneIsOne ==
  ASSUME requests' = NoRequest
  PROVE  OneRequest'
<1>1. \A v \in Users : ~(requests'[v] > 0)
  BY DEF NoRequest
<1> QED
  BY <1>1 DEF OneRequest

LEMMA AnswersKept ==
  ASSUME PatientInv, Answers
  PROVE  Kept
<1> USE DEF PatientInv, AccountInv
<1>1. /\ AuthTypeOK /\ nav \in Seq(Screen) /\ nav # <<>> /\ registration \in Registration
      /\ profile \in [Users -> Nullable] /\ unsent \in [Users -> Nullable]
  BY DEF AuthInv, AppTypeOK, Stacks
<1>2. CASE UserCreated
  <2>1. /\ registration.step = "creating" /\ currentUser' = registration.user
        /\ PostAuthChange(<<Done("created")>>) /\ loaded' /\ registration # Idle
        /\ registration.user \notin accounts
        /\ UNCHANGED <<profile, unsent, nav, requests, registration, seen>>
    BY <1>2 DEF UserCreated, CompleteSignIn, UpdateCurrentUser, Ready, uiVars, Idle
  <2>2. requests = NoRequest /\ CreatedAt(mainQ') # {}
    BY <1>1, <2>1, CreatedPends DEF RegistrationAlone
  <2>3. Top.kind # "messages"
    BY <2>1 DEF AwaitedQuietly, OneRequest, Awaited, RegistrationFresh, Fresh
  <2>4. RegistrationAlone' /\ ProfileIsOwn'
    BY <2>1, <2>2 DEF RegistrationAlone, ProfileIsOwn
  <2>5. StackOwn'
    BY <1>1, <2>1, <2>3, CoveredKeeps
  <2>6. AwaitedQuietly'
    BY <2>1, <2>2 DEF AwaitedQuietly, OneRequest, Awaited
  <2> QED
    BY <2>4, <2>5, <2>6 DEF Kept
<1>3. CASE CreationFails \/ AvatarStored \/ AvatarFails
  <2>1. /\ registration.step \in {"creating", "uploading"} /\ registration # Idle
        /\ registration'.step \in {"linking", "abandoned"}
        /\ registration'.step = "linking" => registration.step = "uploading"
        /\ registration'.user = registration.user
        /\ UNCHANGED <<profile, unsent, nav, requests, authVars>>
    BY <1>1, <1>3, StepUser DEF CreationFails, AvatarStored, AvatarFails, netVars, Idle
  <2>2. UNCHANGED <<currentUser, mainQ, seen, loaded>>
    BY <2>1 DEF authVars
  <2>3. requests = NoRequest /\ loaded
    BY <2>1 DEF RegistrationAlone
  <2>4. RegistrationAlone' /\ ProfileIsOwn'
    BY <2>1, <2>2, <2>3 DEF RegistrationAlone, ProfileIsOwn
  <2>5. StackOwn'
    BY <2>1, <2>2, SameShown
  <2>6. AwaitedQuietly'
    BY <2>1, <2>2, <2>3 DEF AwaitedQuietly, OneRequest, Awaited
  <2> QED
    BY <2>4, <2>5, <2>6 DEF Kept
<1>4. CASE LinkArrives
  <2>1. /\ registration.step = "linking" /\ registration # Idle /\ currentUser # None
        /\ registration' = Idle /\ nav' = Append(nav, NewInbox) /\ loaded
        /\ unsent' = [unsent EXCEPT ![currentUser] = registration.user]
        /\ UNCHANGED <<profile, requests, loaded, currentUser>>
    BY <1>4 DEF LinkArrives, Ready, authVars, Idle
  <2>2. requests = NoRequest /\ currentUser = registration.user
    BY <2>1 DEF RegistrationAlone
  <2>3. RegistrationAlone'
    BY <2>1 DEF RegistrationAlone
  <2>4. ProfileIsOwn'
    BY <1>1, <2>1, <2>2 DEF ProfileIsOwn
  <2>7. StackOwn'
    BY <1>1, <2>1, PushInbox
  <2>8. AwaitedQuietly'
    BY <2>1, <2>2 DEF AwaitedQuietly, OneRequest, Awaited, Idle
  <2> QED
    BY <2>3, <2>4, <2>7, <2>8 DEF Kept
<1>5. CASE Crash
  BY <1>5, EndedKept DEF Crash
<1>6. ASSUME NEW u \in Users, SignInAccepted(u) PROVE Kept
  <2>1. /\ requests[u] > 0 /\ requests' = [requests EXCEPT ![u] = @ - 1] /\ loaded'
        /\ UNCHANGED <<profile, unsent, nav, registration>>
    BY <1>6 DEF SignInAccepted, CompleteSignIn, UpdateCurrentUser, Ready, netVars
  <2>2. requests' = NoRequest /\ registration = Idle /\ Top.kind # "messages"
    BY <2>1, LastRequest DEF AwaitedQuietly, Awaited, RegistrationAlone
  <2>3. RegistrationAlone' /\ ProfileIsOwn'
    BY <2>1, <2>2 DEF RegistrationAlone, ProfileIsOwn
  <2>4. StackOwn'
    BY <1>1, <2>1, <2>2, CoveredKeeps
  <2>5. AwaitedQuietly'
    BY <2>1, <2>2, NoneIsOne DEF AwaitedQuietly, Awaited, Idle
  <2> QED
    BY <2>3, <2>4, <2>5 DEF Kept
<1>7. ASSUME NEW u \in Users, SignInFails(u) PROVE Kept
  <2>1. /\ requests[u] > 0 /\ requests' = [requests EXCEPT ![u] = @ - 1]
        /\ UNCHANGED <<profile, unsent, nav, registration, currentUser, mainQ, seen, loaded>>
    BY <1>7 DEF SignInFails, netVars, authVars
  <2>2. requests' = NoRequest /\ registration = Idle
    BY <2>1, LastRequest DEF RegistrationAlone
  <2>3. RegistrationAlone' /\ ProfileIsOwn' /\ StackOwn'
    BY <2>1, <2>2, SameShown DEF RegistrationAlone, ProfileIsOwn
  <2>4. AwaitedQuietly'
    BY <2>1, <2>2, NoneIsOne DEF AwaitedQuietly, Awaited, Idle
  <2> QED
    BY <2>3, <2>4 DEF Kept
<1>8. ASSUME NEW u \in Users, ProfileStored(u) PROVE Kept
  <2>1. /\ profile' = [profile EXCEPT ![u] = unsent[u]]
        /\ unsent' = [unsent EXCEPT ![u] = None]
        /\ UNCHANGED <<nav, requests, registration, currentUser, mainQ, seen, loaded>>
    BY <1>8 DEF ProfileStored, authVars
  <2>2. ProfileIsOwn'
    <3>1. \A v \in Users : v # u => profile'[v] = profile[v] /\ unsent'[v] = unsent[v]
      BY <1>1, <2>1
    <3>2. profile'[u] = unsent[u] /\ unsent'[u] = None
      BY <1>1, <2>1
    <3> QED
      BY <3>1, <3>2 DEF ProfileIsOwn
  <2>3. RegistrationAlone' /\ StackOwn'
    BY <2>1, SameShown DEF RegistrationAlone
  <2>4. AwaitedQuietly'
    BY <2>1 DEF AwaitedQuietly, OneRequest, Awaited, Quiet, Top
  <2> QED
    BY <2>2, <2>3, <2>4 DEF Kept
<1>9. ASSUME NEW u \in Users, ProfileRefused(u) PROVE Kept
  <2>1. /\ unsent' = [unsent EXCEPT ![u] = None]
        /\ UNCHANGED <<profile, nav, requests, registration, currentUser, mainQ, seen, loaded>>
    BY <1>9 DEF ProfileRefused, authVars, uiVars
  <2>2. ProfileIsOwn'
    <3>1. \A v \in Users : unsent'[v] \in {unsent[v], None}
      BY <1>1, <2>1
    <3> QED
      BY <2>1, <3>1 DEF ProfileIsOwn
  <2>3. RegistrationAlone' /\ StackOwn'
    BY <2>1, SameShown DEF RegistrationAlone
  <2>4. AwaitedQuietly'
    BY <2>1 DEF AwaitedQuietly, OneRequest, Awaited, Quiet, Top
  <2> QED
    BY <2>2, <2>3, <2>4 DEF Kept
<1>10. ASSUME NEW u \in Users, ProfileArrives(u) PROVE Kept
  <2>1. UNCHANGED <<profile, unsent, requests, registration, currentUser, mainQ, seen, loaded>>
    BY <1>10 DEF ProfileArrives, authVars, netVars
  <2>2. Len(nav) \in Nat \ {0} /\ Len(nav') = Len(nav) /\ DOMAIN nav' = 1..Len(nav)
        /\ DOMAIN nav = 1..Len(nav)
        /\ \A i \in 1..Len(nav) : nav'[i].kind = nav[i].kind /\ nav'[i].reads = nav[i].reads
    BY <1>1, <1>10, ReadyShape
  <2>3. RegistrationAlone' /\ ProfileIsOwn'
    BY <2>1 DEF RegistrationAlone, ProfileIsOwn
  <2>4. Sound(nav')
    <3>1. \A i \in 2..Len(nav) : i - 1 \in 1..Len(nav) /\ i \in 1..Len(nav)
      BY <2>2
    <3> QED
      BY <2>2, <3>1 DEF StackOwn, Sound
  <2>5. Top'.kind = Top.kind
    BY <2>2 DEF Top
  <2>6. OwnOrNone' /\ InboxOfOneAccount'
    <3>1. \A i \in DOMAIN nav : Showable(i)' => Showable(i)
      BY <2>2 DEF Showable, IsInbox
    <3>2. OwnOrNone'
      BY <2>1, <2>2, <3>1 DEF StackOwn, OwnOrNone, Own
    <3>3. InboxOfOneAccount'
      BY <2>2 DEF StackOwn, InboxOfOneAccount
    <3> QED
      BY <3>2, <3>3
  <2>7. AwaitedQuietly'
    BY <1>1, <2>1, <2>2, <2>5 DEF AwaitedQuietly, OneRequest, Awaited, Quiet
  <2> QED
    BY <2>3, <2>4, <2>6, <2>7 DEF Kept, StackOwn
<1> QED
  BY <1>2, <1>3, <1>4, <1>5, <1>6, <1>7, <1>8, <1>9, <1>10
  DEF Answers, LinkArrivesSignedOut, NoProfileArrives

LEMMA TapsKept ==
  ASSUME Patient, PatientInv, Taps
  PROVE  Kept
<1> USE DEF PatientInv, AccountInv
<1>1. /\ AuthTypeOK /\ nav \in Seq(Screen) /\ nav # <<>> /\ registration \in Registration
      /\ nav[1].kind = "login"
  BY DEF AuthInv, AppTypeOK, Stacks
<1>2. registration = Idle
  <2>1. registration.step = "idle"
    BY DEF Taps, TapRegister, Back, TapLogin, StartRegistration, Logout, Touchable
  <2> QED
    BY <1>1, <2>1, IdleStep
<1>3. CASE TapRegister
  <2>1. /\ nav' = Append(nav, RegisterScreen) /\ Top.kind = "login"
        /\ UNCHANGED <<profile, unsent, requests, registration, currentUser, mainQ, seen, loaded>>
    BY <1>3 DEF TapRegister, netVars, authVars
  <2>2. /\ StackOwn' /\ Top'.kind # "messages"
        /\ \A i \in DOMAIN nav' :
             nav'[i].kind # "messages" \/ (i \in DOMAIN nav /\ nav'[i] = nav[i])
    BY <1>1, <2>1, PushOther
  <2>3. RegistrationAlone' /\ ProfileIsOwn'
    BY <2>1 DEF RegistrationAlone, ProfileIsOwn
  <2>4. AwaitedQuietly'
    BY <2>1, <2>2 DEF AwaitedQuietly, OneRequest, Awaited, Quiet
  <2> QED
    BY <2>2, <2>3, <2>4 DEF Kept
<1>4. CASE Back
  <2>1. /\ nav' = SubSeq(nav, 1, Len(nav) - 1) /\ Top.kind \in {"register", "messages"}
        /\ UNCHANGED <<profile, unsent, requests, registration, currentUser, mainQ, seen, loaded>>
    BY <1>4 DEF Back, Pop, netVars, authVars
  <2>2. Len(nav) \in Nat /\ Len(nav) >= 2
    BY <1>1, <2>1 DEF Top
  <2>3. /\ Sound(nav') /\ InboxOfOneAccount' /\ Top' = nav[Len(nav) - 1]
        /\ \A i \in DOMAIN nav' : i \in DOMAIN nav /\ nav'[i] = nav[i]
        /\ \A i \in DOMAIN nav' : Showable(i)' /\ Top.kind = "messages" => Showable(i)
    BY <1>1, <2>1, <2>2, PopSound DEF StackOwn
  <2>4. Top.kind = "register" => Top'.kind = "login"
    BY <2>2, <2>3 DEF StackOwn, Sound, Top
  <2>5. OwnOrNone'
    <3>1. CASE Top.kind = "register"
      <4>1. /\ Len(nav') = Len(nav) - 1
            /\ \A i \in DOMAIN nav' : i \in 1..Len(nav) - 1
        BY <1>1, <2>1, <2>2
      <4>2. nav'[Len(nav')].kind = "login"
        BY <2>4, <3>1 DEF Top
      <4>3. \A i \in DOMAIN nav' : ~Showable(i)'
        BY <2>2, <4>1, <4>2 DEF Showable, IsInbox
      <4> QED
        BY <4>3 DEF OwnOrNone
    <3>2. CASE Top.kind = "messages"
      BY <2>1, <2>3, <3>2 DEF StackOwn, OwnOrNone, Own
    <3> QED
      BY <2>1, <3>1, <3>2
  <2>6. RegistrationAlone' /\ ProfileIsOwn'
    BY <2>1 DEF RegistrationAlone, ProfileIsOwn
  <2>7. AwaitedQuietly'
    BY <2>1, <2>3, <2>4 DEF AwaitedQuietly, OneRequest, Awaited, Quiet
  <2> QED
    BY <2>3, <2>5, <2>6, <2>7 DEF Kept, StackOwn
<1>5. ASSUME NEW u \in Users, TapLogin(u) PROVE Kept
  <2>1. /\ Settled /\ Top.kind = "login" /\ requests' = [requests EXCEPT ![u] = @ + 1]
        /\ UNCHANGED <<profile, unsent, nav, registration, currentUser, mainQ, seen, loaded>>
    BY <1>5 DEF TapLogin, netVars, authVars
  <2>2. loaded /\ Quiet
    BY <2>1, SettledQuiet DEF Settled
  <2>3. RegistrationAlone' /\ ProfileIsOwn' /\ StackOwn'
    BY <1>2, <2>1, SameShown DEF RegistrationAlone, ProfileIsOwn
  <2>4. OneRequest'
    <3>1. requests = [v \in Users |-> 0]
      BY <2>1 DEF Settled, NoRequest
    <3>2. \A v \in Users : requests'[v] = IF v = u THEN 1 ELSE 0
      BY <2>1, <3>1
    <3> QED
      BY <3>2 DEF OneRequest
  <2>5. AwaitedQuietly'
    BY <2>1, <2>2, <2>4 DEF AwaitedQuietly, Quiet, Top
  <2> QED
    BY <2>3, <2>5 DEF Kept
<1>6. ASSUME NEW u \in Users, StartRegistration(u) PROVE Kept
  <2>1. /\ Settled /\ Top.kind = "register" /\ registration'.step = "creating"
        /\ UNCHANGED <<profile, unsent, nav, requests, currentUser, mainQ, seen, loaded>>
    BY <1>6 DEF StartRegistration, netVars, authVars
  <2>2. loaded /\ requests = NoRequest /\ Quiet /\ CreatedAt(mainQ') = {}
    BY <2>1, SettledQuiet, OtherTasks DEF Settled
  <2>3. RegistrationAlone' /\ ProfileIsOwn' /\ StackOwn'
    BY <2>1, <2>2, SameShown DEF RegistrationAlone, ProfileIsOwn
  <2>4. AwaitedQuietly'
    BY <2>1, <2>2, NoneIsOne DEF AwaitedQuietly, Quiet, Top
  <2> QED
    BY <2>3, <2>4 DEF Kept
<1>7. ASSUME NEW saved \in BOOLEAN, Logout(saved) PROVE Kept
  <2>1. /\ Top.kind = "messages" /\ nav' = Append(nav, LoginScreen) /\ loaded'
        /\ UNCHANGED <<profile, unsent, requests, registration>>
    BY <1>7 DEF Logout, SignOutAndListen, UpdateCurrentUser, Ready, netVars
  <2>2. StackOwn' /\ Top'.kind # "messages"
    BY <1>1, <2>1, PushOther DEF LoginScreen, RegisterScreen
  <2>3. requests = NoRequest
    BY <2>1 DEF AwaitedQuietly, Awaited
  <2>4. RegistrationAlone' /\ ProfileIsOwn'
    BY <1>2, <2>1 DEF RegistrationAlone, ProfileIsOwn
  <2>5. AwaitedQuietly'
    BY <1>2, <2>1, <2>3, NoneIsOne DEF AwaitedQuietly, Awaited, Idle
  <2> QED
    BY <2>2, <2>4, <2>5 DEF Kept
<1> QED
  BY <1>3, <1>4, <1>5, <1>6, <1>7 DEF Taps

LEMMA InitPatient == Init => PatientInv
<1> SUFFICES ASSUME Init PROVE PatientInv
  OBVIOUS
<1>1. AccountInv
  BY InitAccount
<1>2. /\ nav = <<LoginScreen>> /\ Top.kind = "login" /\ requests = NoRequest
      /\ registration = Idle /\ currentUser = None
  BY DEF Init, FreshApp, Top, LoginScreen, AuthInit, FreshProcess
<1>3. \A i \in DOMAIN nav : nav[i].reads = <<>> /\ nav[i].kind # "messages"
  BY <1>2 DEF LoginScreen
<1>4. RegistrationAlone /\ StackOwn
  BY <1>2, <1>3 DEF RegistrationAlone, StackOwn, OwnOrNone, Sound, InboxOfOneAccount
<1>5. AwaitedQuietly
  BY <1>2, <1>3 DEF AwaitedQuietly, OneRequest, NoRequest, Awaited, Idle
<1>6. ProfileIsOwn
  BY DEF Init, FreshApp, Nobody, ProfileIsOwn
<1> QED
  BY <1>1, <1>4, <1>5, <1>6 DEF PatientInv

LEMMA NextPatient ==
  ASSUME Patient
  PROVE  PatientInv /\ [Next]_vars => PatientInv'
<1> SUFFICES ASSUME PatientInv, [Next]_vars PROVE PatientInv'
  OBVIOUS
<1>1. AccountInv'
  BY NextAccount DEF PatientInv
<1>2. Kept
  <2>1. CASE UNCHANGED vars
    <3>1. /\ UNCHANGED <<profile, unsent, nav, requests, registration, seen>>
          /\ UNCHANGED <<loaded, currentUser, mainQ>>
      BY <2>1 DEF vars, authVars, netVars, uiVars
    <3>2. Steady
      BY <3>1 DEF Steady
    <3> QED
      BY <3>1, <3>2, CalmKept
  <2> QED
    BY <2>1, RestartKept, EndedKept, LoadKept, WorkKept, ReadKept, QueueKept, AnswersKept,
       TapsKept DEF Next, Kill
<1> QED
  BY <1>1, <1>2 DEF PatientInv, Kept

LEMMA PatientInvariance ==
  ASSUME Patient
  PROVE  Spec => []PatientInv
BY InitPatient, NextPatient, PTL DEF Spec

(* A patient user's node never holds what somebody else typed, whoever     *)
(* registers, is revoked or comes back from the keychain in between.       *)
THEOREM PatientProfiles ==
  ASSUME Patient
  PROVE  Spec => []ProfileIsOwn
<1>1. PatientInv => ProfileIsOwn
  BY DEF PatientInv
<1> QED
  BY <1>1, PatientInvariance, PTL

(* A patient user never looks at an inbox of another account: when the     *)
(* database or the work queue interrupts viewDidLoad or the listeners, the *)
(* screens on top have read the signed-in user or nobody is signed in.     *)
THEOREM PatientInboxes ==
  ASSUME Patient
  PROVE  Spec => []InboxIsOwn
<1>1. PatientInv => InboxIsOwn
  <2> SUFFICES ASSUME PatientInv, Top.kind = "messages", currentUser # None
               PROVE  \A r \in DOMAIN Top.reads : Top.reads[r] = currentUser
    BY DEF InboxIsOwn
  <2>1. nav \in Seq(Screen) /\ nav # <<>>
    BY DEF PatientInv, AccountInv, AppTypeOK, Stacks
  <2>2. Len(nav) \in DOMAIN nav /\ Showable(Len(nav))
    BY <2>1 DEF Showable, IsInbox, Top
  <2> QED
    BY <2>2 DEF PatientInv, StackOwn, OwnOrNone, Own, Top
<1> QED
  BY <1>1, PatientInvariance, PTL

(* Whatever the work queue does between the reads of a viewDidLoad, one    *)
(* inbox never mixes two accounts: a later read can only find nobody.      *)
THEOREM PatientInboxesOfOneAccount ==
  ASSUME Patient
  PROVE  Spec => []InboxOfOneAccount
<1>1. PatientInv => InboxOfOneAccount
  BY DEF PatientInv, StackOwn
<1> QED
  BY <1>1, PatientInvariance, PTL

----------------------------------------------------------------------------
(* Registry.  A node that is under way was not there before.               *)

WrittenOnce == \A u \in Users : unsent[u] # None => profile[u] = None

RegistryInv == PatientInv /\ WrittenOnce

(* A registration has an account to describe.                              *)
Pursued == registration.step \in {"uploading", "linking"} \/ CreatedAt(mainQ) # {}

LEMMA PendingIs ==
  ASSUME OnceAtMost(mainQ)
  PROVE  pending = IF Pursued THEN registration.user ELSE None
<1>1. (\E k \in DOMAIN mainQ : mainQ[k] = Done("created")) <=> CreatedAt(mainQ) # {}
  BY DEF CreatedAt, OnceAtMost, Done
<1> QED
  BY <1>1 DEF pending, Pursued

(* A step that writes no account and no node lets the registration go on   *)
(* with its account or give it up.                                         *)
LEMMA QuietRegisters ==
  ASSUME RegistryInv, PatientInv', UNCHANGED netVars,
         Pursued' => Pursued /\ registration'.user = registration.user
  PROVE  WrittenOnce' /\ [R!Next]_R!vars
<1>1. life' = life /\ WrittenOnce'
  BY DEF life, WrittenOnce, RegistryInv, netVars
<1>2. OnceAtMost(mainQ) /\ OnceAtMost(mainQ')
  BY DEF RegistryInv, PatientInv, AccountInv, RegistrationFresh
<1>3. pending = IF Pursued THEN registration.user ELSE None
  BY <1>2, PendingIs
<1>4. pending' = IF Pursued' THEN registration'.user ELSE None
  <2>1. (\E k \in DOMAIN mainQ' : mainQ'[k] = Done("created")) <=> CreatedAt(mainQ') # {}
    BY <1>2 DEF CreatedAt, OnceAtMost, Done
  <2> QED
    BY <2>1 DEF pending, Pursued
<1>5. pending' \in {pending, None}
  BY <1>3, <1>4
<1> QED
  BY <1>1, <1>5 DEF R!Next, R!GiveUp, R!vars

LEMMA WorkRegisters ==
  ASSUME RegistryInv, PatientInv',
         \/ Restart \/ Refresh \/ AvatarStored \/ AvatarFails
         \/ \E ok \in BOOLEAN : Load(ok) \/ Revoke(ok)
         \/ \E i \in DOMAIN nav : ReadUser(i)
         \/ \E u \in Users : SignInAccepted(u) \/ SignInFails(u) \/ ProfileArrives(u)
  PROVE  WrittenOnce' /\ [R!Next]_R!vars
<1>1. AuthTypeOK /\ registration \in Registration
  BY DEF RegistryInv, PatientInv, AccountInv, AuthInv, AppTypeOK
<1>2. UNCHANGED netVars
  BY DEF Restart, Refresh, AvatarStored, AvatarFails, Load, Revoke, ReadUser, SignInAccepted,
         SignInFails, ProfileArrives
<1>3. CreatedAt(mainQ') # {} => CreatedAt(mainQ) # {}
  <2>1. ASSUME NEW t \in {<<>>, <<Done("signedIn")>>},
               PostAuthChange(t) \/ mainQ' = mainQ \o t
        PROVE  CreatedAt(mainQ') # {} => CreatedAt(mainQ) # {}
    BY <1>1, <2>1, PostSteady, OtherTasks DEF Steady
  <2>2. \/ UNCHANGED mainQ
        \/ \E t \in {<<>>, <<Done("signedIn")>>} : PostAuthChange(t) \/ mainQ' = mainQ \o t
    BY DEF Restart, Launch, Refresh, RefreshToken, AvatarStored, AvatarFails, Load, LoadUser,
           Revoke, RevokeUser, ReadUser, SignInAccepted, CompleteSignIn, UpdateCurrentUser,
           SignInFails, ProfileArrives, authVars
  <2> QED
    BY <2>1, <2>2
<1>4. /\ registration'.user = registration.user
      /\ registration'.step \in {"uploading", "linking"} =>
           registration.step \in {"uploading", "linking"}
  <2>1. CASE AvatarStored \/ AvatarFails
    BY <1>1, <2>1, StepUser DEF AvatarStored, AvatarFails
  <2>2. CASE UNCHANGED registration
    BY <2>2
  <2> QED
    BY <2>1, <2>2 DEF Restart, Refresh, Load, Revoke, ReadUser, SignInAccepted, SignInFails,
                      ProfileArrives, uiVars
<1> QED
  BY <1>2, <1>3, <1>4, QuietRegisters DEF Pursued

LEMMA QueueRegisters ==
  ASSUME RegistryInv, PatientInv', MainQueue
  PROVE  WrittenOnce' /\ [R!Next]_R!vars
<1>1. /\ AuthTypeOK /\ registration \in Registration /\ mainQ # <<>>
      /\ RunMainQ /\ UNCHANGED netVars
  BY DEF RegistryInv, PatientInv, AccountInv, AuthInv, AppTypeOK, MainQueue, RunListener,
         RunSignedIn, RunCreated, IsNext
<1>2. CreatedAt(mainQ') # {} => CreatedAt(mainQ) # {}
  BY <1>1, RunCalm DEF Calm
<1>3. CASE RunListener \/ RunSignedIn
  BY <1>1, <1>2, <1>3, QuietRegisters DEF RunListener, RunSignedIn, uiVars, Pursued
<1>4. CASE RunCreated
  <2>1. 1 \in CreatedAt(mainQ)
    BY <1>1, <1>4 DEF RunCreated, IsNext, CreatedAt, AuthTypeOK
  <2>2. registration'.user = registration.user
    BY <1>1, <1>4, StepUser DEF RunCreated
  <2> QED
    BY <1>1, <2>1, <2>2, QuietRegisters DEF Pursued
<1> QED
  BY <1>3, <1>4 DEF MainQueue

(* A tap finds no registration under way.                                  *)
LEMMA TapsRegister ==
  ASSUME RegistryInv, PatientInv', Taps
  PROVE  WrittenOnce' /\ [R!Next]_R!vars
<1>1. AuthTypeOK /\ RegistrationFresh
  BY DEF RegistryInv, PatientInv, AccountInv, AuthInv
<1>2. registration.step = "idle" /\ UNCHANGED netVars
  BY DEF Taps, TapRegister, Back, Pop, TapLogin, StartRegistration, Logout, Touchable
<1>3. CreatedAt(mainQ) = {}
  BY <1>1, <1>2 DEF RegistrationFresh
<1>4. registration'.step \in {"idle", "creating"}
  BY <1>2 DEF Taps, TapRegister, Back, Pop, TapLogin, StartRegistration, Logout
<1>5. CreatedAt(mainQ') = {}
  <2>1. CASE UNCHANGED mainQ
    BY <1>3, <2>1
  <2>2. CASE \E saved \in BOOLEAN : Logout(saved)
    <3> DEFINE next == <<First(Len(seen) + 1)>>
    <3>1. PostAuthChange(next) \/ mainQ' = mainQ \o next
      BY <2>2 DEF Logout, SignOutAndListen, UpdateCurrentUser
    <3>2. next \in Seq(Task) /\ CreatedAt(next) = {}
      BY <1>1, OtherTasks DEF AuthTypeOK
    <3> HIDE DEF next
    <3> QED
      BY <1>1, <1>3, <3>1, <3>2, PostSteady DEF Steady
  <2> QED
    BY <2>1, <2>2 DEF Taps, TapRegister, Back, Pop, TapLogin, StartRegistration, authVars
<1> QED
  BY <1>2, <1>4, <1>5, QuietRegisters DEF Pursued

(* createUser makes an account without a node, whether its answer arrives  *)
(* or not.                                                                 *)
LEMMA CreationRegisters ==
  ASSUME RegistryInv, PatientInv', UserCreated \/ CreationFails
  PROVE  WrittenOnce' /\ [R!Next]_R!vars
<1> USE DEF RegistryInv, PatientInv, AccountInv
<1>1. PICK u \in Users : u = registration.user
  <2>1. registration.step = "creating"
    BY DEF UserCreated, CreationFails, Step
  <2> QED
    BY <2>1 DEF AppTypeOK, Registration, Idle
<1>2. /\ UNCHANGED <<profile, unsent>> /\ registration.step = "creating"
      /\ accounts' \in {accounts, accounts \cup {u}}
  BY <1>1 DEF UserCreated, CreationFails, Step
<1>3. WrittenOnce'
  BY <1>2 DEF WrittenOnce
<1>4. pending = None
  <2>1. ~\E k \in DOMAIN mainQ : mainQ[k] = Done("created")
    <3>1. CASE UserCreated
      <4>1. registration.user \notin accounts
        BY <3>1 DEF UserCreated
      <4> QED
        BY <4>1 DEF RegistrationFresh, Fresh, CreatedAt, Done
    <3> QED
      BY <3>1 DEF CreationFails
  <2> QED
    BY <1>2, <2>1 DEF pending
<1>5. pending' \in {u, None}
  <2>1. registration'.user = u
    BY <1>1, <1>2, StepUser DEF UserCreated, CreationFails, uiVars, AppTypeOK
  <2> QED
    BY <2>1 DEF pending
<1>6. CASE accounts' = accounts
  <2>1. CreationFails
    BY <1>1, <1>6 DEF UserCreated
  <2>2. UNCHANGED mainQ /\ registration'.step = "abandoned"
    BY <2>1, StepUser DEF CreationFails, authVars, AppTypeOK
  <2>3. ~\E k \in DOMAIN mainQ' : mainQ'[k] = Done("created")
    BY <2>1, <2>2 DEF CreationFails
  <2>4. pending' = None
    BY <2>2, <2>3 DEF pending
  <2>5. life' = life
    BY <1>2, <1>6 DEF life
  <2> QED
    BY <1>3, <2>4, <2>5 DEF R!Next, R!GiveUp
<1>7. CASE u \notin accounts /\ accounts' = accounts \cup {u}
  <2>1. profile[u] = None /\ unsent[u] = None
    BY <1>7 DEF AccountsKnown
  <2>2. life[u] = "none"
    BY <1>7, <2>1 DEF life
  <2>3. life' = [life EXCEPT ![u] = "bare"]
    <3>1. \A v \in Users : life'[v] = IF v = u THEN "bare" ELSE life[v]
      BY <1>2, <1>7, <2>1 DEF life
    <3>2. DOMAIN life = Users /\ life' = [v \in Users |-> life'[v]]
      BY DEF life
    <3> QED
      BY <3>1, <3>2
  <2>4. R!Create(u)
    BY <1>4, <1>5, <2>2, <2>3 DEF R!Create, R!Become
  <2> QED
    BY <1>3, <2>4 DEF R!Next
<1> QED
  BY <1>2, <1>6, <1>7

(* The link writes the node of the account the registration created.       *)
LEMMA LinkRegisters ==
  ASSUME RegistryInv, PatientInv', LinkArrives
  PROVE  WrittenOnce' /\ [R!Next]_R!vars
<1> USE DEF RegistryInv, PatientInv, AccountInv
<1>1. /\ registration.step = "linking" /\ registration # Idle /\ currentUser # None
      /\ unsent' = [unsent EXCEPT ![currentUser] = registration.user]
      /\ registration' = Idle /\ UNCHANGED <<accounts, profile, mainQ>>
  BY DEF LinkArrives, Idle, authVars
<1>2. PICK u \in Users : u = registration.user /\ u = currentUser
  <2>1. currentUser = registration.user
    BY <1>1 DEF RegistrationAlone
  <2> QED
    BY <1>1, <2>1 DEF AuthInv, AuthTypeOK, Nullable
<1>3. u \in accounts /\ profile[u] = None /\ unsent[u] = None
  BY <1>1, <1>2 DEF RegistrationFresh, Fresh
<1>4. unsent \in [Users -> Nullable] /\ u # None
  BY <1>1, <1>2 DEF AppTypeOK
<1>5. \A v \in Users : unsent'[v] = IF v = u THEN u ELSE unsent[v]
  BY <1>1, <1>2, <1>4
<1>6. WrittenOnce'
  BY <1>1, <1>3, <1>5 DEF WrittenOnce
<1>7. pending = u
  BY <1>1, <1>2 DEF pending
<1>8. pending' = None
  <2>1. CreatedAt(mainQ) = {}
    BY <1>1 DEF RegistrationFresh
  <2>2. ~\E k \in DOMAIN mainQ' : mainQ'[k] = Done("created")
    BY <1>1, <2>1 DEF CreatedAt, Done
  <2> QED
    BY <1>1, <2>2 DEF pending, Idle
<1>9. life[u] = "bare"
  BY <1>3 DEF life
<1>10. life' = [life EXCEPT ![u] = "writing"]
  <2>1. \A v \in Users : life'[v] = IF v = u THEN "writing" ELSE life[v]
    BY <1>1, <1>4, <1>5 DEF life
  <2>2. DOMAIN life = Users /\ life' = [v \in Users |-> life'[v]]
    BY DEF life
  <2> QED
    BY <2>1, <2>2
<1>11. R!Describe(u)
  BY <1>7, <1>8, <1>9, <1>10 DEF R!Describe, R!Become
<1> QED
  BY <1>6, <1>11 DEF R!Next

LEMMA StorageRegisters ==
  ASSUME RegistryInv, NEW u \in Users, ProfileStored(u)
  PROVE  WrittenOnce' /\ [R!Next]_R!vars
<1> USE DEF RegistryInv, PatientInv, AccountInv
<1>1. /\ unsent[u] # None
      /\ profile' = [profile EXCEPT ![u] = unsent[u]] /\ unsent' = [unsent EXCEPT ![u] = None]
      /\ UNCHANGED <<accounts, registration, mainQ>>
  BY DEF ProfileStored, authVars
<1>2. profile \in [Users -> Nullable] /\ unsent \in [Users -> Nullable]
  BY DEF AppTypeOK
<1>3. /\ unsent'[u] = None /\ profile'[u] # None
      /\ \A v \in Users : v # u => unsent'[v] = unsent[v] /\ profile'[v] = profile[v]
  BY <1>1, <1>2
<1>4. WrittenOnce'
  BY <1>3 DEF WrittenOnce
<1>5. life[u] = "writing"
  BY <1>1 DEF life
<1>6. life' = [life EXCEPT ![u] = "whole"]
  <2>1. \A v \in Users : life'[v] = IF v = u THEN "whole" ELSE life[v]
    BY <1>1, <1>3 DEF life
  <2>2. DOMAIN life = Users /\ life' = [v \in Users |-> life'[v]]
    BY DEF life
  <2> QED
    BY <2>1, <2>2
<1>7. pending' = pending
  BY <1>1 DEF pending
<1>8. R!Store(u)
  BY <1>5, <1>6, <1>7 DEF R!Store, R!Become
<1> QED
  BY <1>4, <1>8 DEF R!Next

LEMMA RefusalRegisters ==
  ASSUME RegistryInv, NEW u \in Users, ProfileRefused(u)
  PROVE  WrittenOnce' /\ [R!Next]_R!vars
<1> USE DEF RegistryInv, PatientInv, AccountInv
<1>1. /\ unsent[u] # None /\ unsent' = [unsent EXCEPT ![u] = None]
      /\ UNCHANGED <<accounts, profile, registration, mainQ>>
  BY DEF ProfileRefused, authVars, uiVars
<1>2. unsent \in [Users -> Nullable]
  BY DEF AppTypeOK
<1>3. unsent'[u] = None /\ \A v \in Users : v # u => unsent'[v] = unsent[v]
  BY <1>1, <1>2
<1>4. WrittenOnce'
  BY <1>1, <1>3 DEF WrittenOnce
<1>5. life[u] = "writing" /\ profile[u] = None /\ u \in accounts
  BY <1>1 DEF life, WrittenOnce, AccountsKnown
<1>6. life' = [life EXCEPT ![u] = "bare"]
  <2>1. \A v \in Users : life'[v] = IF v = u THEN "bare" ELSE life[v]
    BY <1>1, <1>3, <1>5 DEF life
  <2>2. DOMAIN life = Users /\ life' = [v \in Users |-> life'[v]]
    BY DEF life
  <2> QED
    BY <2>1, <2>2
<1>7. pending' = pending
  BY <1>1 DEF pending
<1>8. R!Refuse(u)
  BY <1>5, <1>6, <1>7 DEF R!Refuse, R!Become
<1> QED
  BY <1>4, <1>8 DEF R!Next

(* A process that ends forgets what it had under way.                      *)
LEMMA EndedRegisters ==
  ASSUME RegistryInv, NEW how, Ended(how)
  PROVE  WrittenOnce' /\ [R!Next]_R!vars
<1> USE DEF RegistryInv, PatientInv, AccountInv
<1>1. /\ unsent' = Nobody /\ registration' = Idle /\ mainQ' = <<First(1)>>
      /\ UNCHANGED <<accounts, profile>>
  BY DEF Ended, FreshApp, End, FreshProcess
<1>2. WrittenOnce'
  BY <1>1 DEF WrittenOnce, Nobody
<1>3. pending' = None
  <2>1. CreatedAt(mainQ') = {}
    BY <1>1, OtherTasks
  <2>2. ~\E k \in DOMAIN mainQ' : mainQ'[k] = Done("created")
    BY <2>1 DEF CreatedAt, Done
  <2> QED
    BY <1>1, <2>2 DEF pending, Idle
<1>4. \A u \in Users : life'[u] = IF life[u] = "writing" THEN "bare" ELSE life[u]
  <2> SUFFICES ASSUME NEW u \in Users
               PROVE  life'[u] = IF life[u] = "writing" THEN "bare" ELSE life[u]
    OBVIOUS
  <2>1. unsent'[u] = None /\ profile'[u] = profile[u] /\ accounts' = accounts
    BY <1>1 DEF Nobody
  <2>2. unsent[u] # None => profile[u] = None /\ u \in accounts
    BY DEF WrittenOnce, AccountsKnown
  <2> QED
    BY <2>1, <2>2 DEF life
<1>5. life' = [u \in Users |-> IF life[u] = "writing" THEN "bare" ELSE life[u]]
  <2>1. life' = [u \in Users |-> life'[u]]
    BY DEF life
  <2> QED
    BY <1>4, <2>1
<1> QED
  BY <1>2, <1>3, <1>5 DEF R!Next, R!Restart

LEMMA StepRegisters ==
  ASSUME Patient, RegistryInv, [Next]_vars
  PROVE  RegistryInv' /\ [R!Next]_R!vars
<1>1. PatientInv'
  BY NextPatient DEF RegistryInv
<1>2. WrittenOnce' /\ [R!Next]_R!vars
  <2>1. CASE UNCHANGED vars
    BY <1>1, <2>1, QuietRegisters DEF vars, netVars, uiVars, authVars, Pursued
  <2>2. CASE Answers
    BY <1>1, <2>2, WorkRegisters, CreationRegisters, LinkRegisters, StorageRegisters,
       RefusalRegisters, EndedRegisters
    DEF Answers, LinkArrivesSignedOut, NoProfileArrives, Crash
  <2> QED
    BY <1>1, <2>1, <2>2, EndedRegisters, WorkRegisters, QueueRegisters, TapsRegister
    DEF Next, Kill
<1> QED
  BY <1>1, <1>2 DEF RegistryInv

LEMMA InitRegisters == Init => RegistryInv /\ R!Init
<1> SUFFICES ASSUME Init PROVE RegistryInv /\ R!Init
  OBVIOUS
<1>1. /\ unsent = [u \in Users |-> None] /\ registration = Idle /\ mainQ = <<First(1)>>
      /\ profile = [u \in Users |-> IF u \in accounts THEN u ELSE None]
  BY DEF Init, FreshApp, Nobody, AuthInit, FreshProcess
<1>2. RegistryInv
  BY <1>1, InitPatient DEF RegistryInv, WrittenOnce
<1>3. life \in [Users -> {"none", "whole"}]
  <2>1. \A u \in Users : life[u] \in {"none", "whole"}
    BY <1>1, NilAssumption DEF life
  <2>2. life = [u \in Users |-> life[u]]
    BY DEF life
  <2> QED
    BY <2>1, <2>2
<1>4. pending = None
  <2>1. ~\E k \in DOMAIN mainQ : mainQ[k] = Done("created")
    <3>1. CreatedAt(mainQ) = {}
      BY <1>1, OtherTasks
    <3> QED
      BY <3>1 DEF CreatedAt, Done
  <2> QED
    BY <1>1, <2>1 DEF pending, Idle
<1> QED
  BY <1>2, <1>3, <1>4 DEF R!Init

(* For a patient user register_to_firebase keeps what Registry promises:   *)
(* a node is written once, by the registration that created its account,   *)
(* and an account left without one stays so, which is what crashes the     *)
(* inbox of message_controller at every launch.                            *)
THEOREM PatientRegistryHolds ==
  ASSUME Patient
  PROVE  Spec => ImplementsRegistry
<1>1. Init => RegistryInv /\ R!Init
  BY InitRegisters
<1>2. RegistryInv /\ [Next]_vars => RegistryInv' /\ [R!Next]_R!vars
  BY StepRegisters
<1> QED
  BY <1>1, <1>2, PTL DEF Spec, ImplementsRegistry, R!Spec
============================================================================
