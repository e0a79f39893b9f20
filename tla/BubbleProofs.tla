---------------------------- MODULE BubbleProofs ----------------------------
(***************************************************************************)
(* The chat screen of Delivery for any users, texts, losses and deaths: it *)
(* shows only texts its user sent or received, and where the rules refuse  *)
(* nothing it shows each of them at most once.                             *)
(***************************************************************************)
EXTENDS MailProofs

(* The two ends of a text.                                                 *)
Ends(id) == {texts[id].from, texts[id].to}

(* What a chat asked for or shows.                                         *)
On(u) == {a[1] : a \in asked[u]} \cup {bubbles[u][k] : k \in DOMAIN bubbles[u]}

ListsOwn == \A u, p \in Users : \A id \in listed[u][p] : id \in DOMAIN texts /\ Ends(id) = {u, p}

ScreenOwn(u) == \A id \in On(u) : id \in DOMAIN texts /\ u \in Ends(id)

ReadInv == DeliveryInv /\ ListsOwn /\ \A u \in Users : ScreenOwn(u)

(* The outer observer was raised once for each partner, and what the one   *)
(* observer of a partner's keys was raised for it is not raised for again. *)
OneObserver(u) ==
  \A p \in Users : inner[u][p] = 0 \/ (inner[u][p] = 1 /\ p \in known[u])

RaisedOwn(u) == \A a \in added[u] : a[3] = 1 /\ a[2] \in DOMAIN texts /\ Ends(a[2]) = {u, a[1]}

OnRaised(u) ==
  /\ \A a \in asked[u] : a[2] = 1
  /\ \A id \in On(u) : \E p \in Users : <<p, id, 1>> \in added[u]

OneBubble(u) ==
  /\ \A i, j \in DOMAIN bubbles[u] : bubbles[u][i] = bubbles[u][j] => i = j
  /\ \A i \in DOMAIN bubbles[u] : \A a \in asked[u] : bubbles[u][i] # a[1]

OnceInv ==
  \A u \in Users : OneObserver(u) /\ RaisedOwn(u) /\ OnRaised(u) /\ OneBubble(u)

----------------------------------------------------------------------------
(* The texts and the lists.                                                *)

TextsStay == \A id \in DOMAIN texts : id \in DOMAIN texts' /\ texts'[id] = texts[id]

LEMMA StepKeepsTexts ==
  ASSUME DeliveryInv, [Next]_vars
  PROVE  TextsStay
<1>1. CASE \E u \in Users : Send(u)
  <2>1. PICK s, t : s \in Seq(Text) /\ s = texts /\ texts' = Append(s, t)
    BY <1>1 DEF Send, DeliveryInv, TypeOK
  <2> QED
    BY <2>1 DEF TextsStay
<1>2. CASE ~\E u \in Users : Send(u)
  <2>1. UNCHANGED texts
    BY <1>2 DEF Next, vars, Kill, NoPartnerArrives, Relaunch, Disconnect, Reconnect, CloseChat,
                PartnerArrives, ChooseUser, Server, ServerApplies, ServerDenies, Completion,
                FileKey, FileKeyForNobody, AckKey, RevertKey, Reading, PartnerAdded, KeyAdded,
                ValueArrives, NoValueArrives
  <2> QED
    BY <2>1 DEF TextsStay
<1> QED
  BY <1>1, <1>2

(* A write under usermess lists a text of its sender between its two ends. *)
LEMMA KeyIsOwn ==
  ASSUME DeliveryInv, NEW u \in Users, NEW i \in DOMAIN puts[u], puts[u][i].node # "mess"
  PROVE  LET w == puts[u][i] IN
         /\ w.id \in DOMAIN texts /\ w.id \in stored
         /\ {Path(w)[1], Path(w)[2]} = Ends(w.id)
         /\ Path(w)[1] \in Users /\ Path(w)[2] \in Users
<1>1. PICK w : w = puts[u][i]
  OBVIOUS
<1>2. w \in SoundWrites(u) /\ w.node # "mess"
  BY <1>1 DEF DeliveryInv, PutsSound
<1>3. texts \in Seq(Text)
  BY DEF DeliveryInv, TypeOK
<1>4. w.id \in DOMAIN texts /\ w.id \in stored /\ texts[w.id].from \in Users /\ texts[w.id].to \in Users
  BY <1>2, <1>3 DEF SoundWrites, Write, Ids, Text
<1> QED
  BY <1>1, <1>4 DEF Path, Ends

(* What u can be told of under p is a text between u and p.                *)
LEMMA ViewIsOwn ==
  ASSUME DeliveryInv, ListsOwn, NEW u \in Users, NEW e \in View(u, puts[u])
  PROVE  /\ e[1] \in Users /\ e[2] \in Ids /\ e[2] \in stored
         /\ e[2] \in DOMAIN texts /\ Ends(e[2]) = {u, e[1]}
<1>1. e[1] \in Users /\ e[2] \in Ids /\ e[2] \in stored
  BY ViewIsStored
<1>2. CASE e[2] \in listed[u][e[1]]
  BY <1>1, <1>2 DEF ListsOwn
<1>3. CASE <<<<u, e[1]>>, e[2]>> \in Pending(puts[u])
  <2>1. PICK i \in DOMAIN puts[u] :
          puts[u][i].node # "mess" /\ Path(puts[u][i]) = <<u, e[1]>> /\ puts[u][i].id = e[2]
    BY <1>3 DEF Pending
  <2> QED
    BY <1>1, <2>1, KeyIsOwn
<1> QED
  BY <1>1, <1>2, <1>3 DEF View, OwnView

LEMMA AppliesKeepsLists ==
  ASSUME DeliveryInv, ListsOwn, NEW u \in Users, NEW i \in DOMAIN puts[u], ServerApplies(u, i)
  PROVE  ListsOwn'
<1>1. PICK w : w = puts[u][i]
  OBVIOUS
<1>2. UNCHANGED texts
  BY DEF ServerApplies
<1>3. CASE w.node = "mess"
  <2>1. UNCHANGED listed
    BY <1>1, <1>3 DEF ServerApplies
  <2> QED
    BY <1>2, <2>1 DEF ListsOwn, Ends
<1>4. CASE w.node # "mess"
  <2>1. /\ w.id \in DOMAIN texts /\ {Path(w)[1], Path(w)[2]} = Ends(w.id)
        /\ Path(w)[1] \in Users /\ Path(w)[2] \in Users
    BY <1>1, <1>4, KeyIsOwn
  <2>2. PICK a \in Users, b \in Users : a = Path(w)[1] /\ b = Path(w)[2]
    BY <2>1
  <2>3. listed' = [listed EXCEPT ![a][b] = @ \cup {w.id}]
    BY <1>1, <1>4, <2>2 DEF ServerApplies
  <2>4. \A x, y \in Users : \A id \in listed'[x][y] :
          id \in listed[x][y] \/ (id = w.id /\ x = a /\ y = b)
    BY <2>3 DEF DeliveryInv, TypeOK
  <2>5. w.id \in DOMAIN texts /\ Ends(w.id) = {a, b}
    BY <2>1, <2>2
  <2>6. ASSUME NEW x \in Users, NEW y \in Users, NEW id \in listed'[x][y]
        PROVE  id \in DOMAIN texts /\ Ends(id) = {x, y}
    <3>1. CASE id \in listed[x][y]
      BY <3>1 DEF ListsOwn
    <3>2. CASE id = w.id /\ x = a /\ y = b
      BY <2>5, <3>2
    <3> QED
      BY <2>4, <3>1, <3>2
  <2> QED
    BY <1>2, <2>6 DEF ListsOwn, Ends
<1> QED
  BY <1>3, <1>4

LEMMA StepKeepsLists ==
  ASSUME DeliveryInv, ListsOwn, [Next]_vars
  PROVE  ListsOwn'
<1>1. CASE \E u \in Users : \E i \in DOMAIN puts[u] : ServerApplies(u, i)
  BY <1>1, AppliesKeepsLists
<1>2. CASE UNCHANGED listed
  BY <1>2, StepKeepsTexts DEF ListsOwn, TextsStay, Ends
<1> QED
  <2>1. \A u \in Users : Send(u) => UNCHANGED listed
    BY DEF Send, serverVars
  <2> QED
    BY <1>1, <1>2, <2>1, StepQuiet DEF Content

----------------------------------------------------------------------------
(* What a step does to one user's chat screen.                             *)

Blank(v) ==
  /\ bubbles'[v] = <<>> /\ asked'[v] = {} /\ added'[v] = {}
  /\ \A p \in Users : inner'[v][p] = 0

Same(v) == UNCHANGED <<known[v], inner[v], added[v], asked[v], bubbles[v]>>

Reverts(v) ==
  /\ RevertKey(v) /\ UNCHANGED <<asked[v], bubbles[v]>>

GetsPartner(v) ==
  /\ UNCHANGED <<added[v], asked[v], bubbles[v]>>
  /\ \E p \in Users \ known[v] :
       /\ known'[v] = known[v] \cup {p}
       /\ inner'[v] = [inner[v] EXCEPT ![p] = @ + 1]

GetsKey(v) ==
  /\ UNCHANGED <<known[v], inner[v], bubbles[v]>>
  /\ \E e \in View(v, puts[v]) : \E n \in 1..inner[v][e[1]] :
       /\ <<e[1], e[2], n>> \notin added[v]
       /\ added'[v] = added[v] \cup {<<e[1], e[2], n>>}
       /\ asked'[v] = asked[v] \cup {<<e[2], n>>}

GetsValue(v) ==
  /\ UNCHANGED <<known[v], inner[v], added[v]>>
  /\ \E a \in asked[v] : /\ asked'[v] = asked[v] \ {a}
                         /\ bubbles'[v] = Append(bubbles[v], a[1])

ScreenStep(v) ==
  Blank(v) \/ Same(v) \/ Reverts(v) \/ GetsPartner(v) \/ GetsKey(v) \/ GetsValue(v)

LEMMA NewScreenSteps ==
  ASSUME TypeOK, NEW u \in Users, NEW p, NewScreen(u, p), NEW v \in Users
  PROVE  Blank(v) \/ Same(v)
BY DEF NewScreen, TypeOK, Blank, Same

LEMMA ReadingSteps ==
  ASSUME DeliveryInv, NEW u \in Users, Reading(u), NEW v \in Users
  PROVE  ScreenStep(v)
<1> TypeOK
  BY DEF DeliveryInv
<1>1. ASSUME NEW p \in Users, PartnerAdded(u, p) PROVE ScreenStep(v)
  <2>1. CASE v = u
    BY <1>1, <2>1 DEF PartnerAdded, TypeOK, GetsPartner, ScreenStep
  <2>2. CASE v # u
    BY <1>1, <2>2 DEF PartnerAdded, TypeOK, Same, ScreenStep
  <2> QED
    BY <2>1, <2>2
<1>2. ASSUME NEW e \in View(u, puts[u]), NEW n \in 1..inner[u][e[1]], KeyAdded(u, e, n)
      PROVE  ScreenStep(v)
  <2>1. CASE v = u
    BY <1>2, <2>1 DEF KeyAdded, TypeOK, GetsKey, ScreenStep
  <2>2. CASE v # u
    BY <1>2, <2>2 DEF KeyAdded, TypeOK, Same, ScreenStep
  <2> QED
    BY <2>1, <2>2
<1>3. ASSUME NEW a \in asked[u], ValueArrives(u, a) PROVE ScreenStep(v)
  <2>1. CASE v = u
    BY <1>3, <2>1 DEF ValueArrives, TypeOK, GetsValue, ScreenStep
  <2>2. CASE v # u
    BY <1>3, <2>2 DEF ValueArrives, TypeOK, Same, ScreenStep
  <2> QED
    BY <2>1, <2>2
<1>4. ASSUME NEW a \in asked[u], NoValueArrives(u, a) PROVE ScreenStep(v)
  BY <1>4, NewScreenSteps DEF NoValueArrives, Die, ScreenStep
<1> QED
  BY <1>1, <1>2, <1>3, <1>4 DEF Reading

LEMMA ScreenSteps ==
  ASSUME DeliveryInv, [Next]_vars, NEW v \in Users
  PROVE  ScreenStep(v)
<1> TypeOK
  BY DEF DeliveryInv
<1>1. CASE UNCHANGED vars
  BY <1>1 DEF vars, clientVars, readVars, Same, ScreenStep
<1>2. ASSUME NEW u \in Users,
             \/ Kill(u) \/ NoPartnerArrives(u) \/ Relaunch(u) \/ Disconnect(u) \/ Reconnect(u)
             \/ CloseChat(u) \/ \E p \in Users : PartnerArrives(u, p) \/ ChooseUser(u, p)
             \/ Send(u) \/ Server(u) \/ Completion(u)
      PROVE  ScreenStep(v)
  <2>1. CASE \/ Kill(u) \/ NoPartnerArrives(u) \/ FileKeyForNobody(u)
             \/ CloseChat(u) \/ \E p \in Users : ChooseUser(u, p)
    <3>1. PICK p : NewScreen(u, p)
      BY <2>1 DEF Kill, NoPartnerArrives, FileKeyForNobody, Die, CloseChat, ChooseUser
    <3> QED
      BY <3>1, NewScreenSteps DEF ScreenStep
  <2>2. CASE \/ Relaunch(u) \/ Disconnect(u) \/ Reconnect(u) \/ \E p \in Users : PartnerArrives(u, p)
             \/ Send(u) \/ Server(u) \/ FileKey(u) \/ AckKey(u)
    <3>1. UNCHANGED readVars
      BY <2>2 DEF Relaunch, Disconnect, Reconnect, PartnerArrives, Send, Server, ServerApplies,
                  ServerDenies, FileKey, AckKey, clientVars
    <3> QED
      BY <3>1 DEF readVars, Same, ScreenStep
  <2>3. CASE RevertKey(u)
    <3>1. CASE v = u
      BY <2>3, <3>1 DEF RevertKey, Reverts, ScreenStep
    <3>2. CASE v # u
      BY <2>3, <3>2 DEF RevertKey, TypeOK, Same, ScreenStep
    <3> QED
      BY <3>1, <3>2
  <2> QED
    BY <1>2, <2>1, <2>2, <2>3 DEF Completion
<1> QED
  BY <1>1, <1>2, ReadingSteps DEF Next

----------------------------------------------------------------------------
(* Every text on a screen is its user's.                                   *)

LEMMA ValueStaysOn ==
  ASSUME DeliveryInv, NEW v \in Users, GetsValue(v)
  PROVE  On(v)' \subseteq On(v)
<1>0. PICK a \in asked[v] :
        asked'[v] = asked[v] \ {a} /\ bubbles'[v] = Append(bubbles[v], a[1])
  BY DEF GetsValue
<1>1. PICK b, r, n : /\ b \in Seq(Ids) /\ b = bubbles[v] /\ r = Append(b, a[1]) /\ n = Len(b)
                     /\ asked'[v] = asked[v] \ {a} /\ bubbles'[v] = r
  BY <1>0 DEF DeliveryInv, TypeOK
<1>2. \A k \in DOMAIN r : (k \in DOMAIN b /\ r[k] = b[k]) \/ r[k] = a[1]
  BY <1>1
<1> QED
  BY <1>1, <1>2 DEF On

LEMMA AskedIsOn ==
  ASSUME NEW v \in Users, NEW id, NEW n, UNCHANGED bubbles[v],
         asked'[v] = asked[v] \cup {<<id, n>>}
  PROVE  On(v)' = On(v) \cup {id}
<1>1. {a[1] : a \in asked'[v]} = {a[1] : a \in asked[v]} \cup {id}
  <2>1. \A a \in asked'[v] : a \in asked[v] \/ a[1] = id
    OBVIOUS
  <2>2. \E a \in asked'[v] : a[1] = id
    <3>1. <<id, n>> \in asked'[v] /\ <<id, n>>[1] = id
      OBVIOUS
    <3> QED
      BY <3>1
  <2>3. \A a \in asked[v] : a \in asked'[v]
    OBVIOUS
  <2> QED
    BY <2>1, <2>2, <2>3
<1> QED
  BY <1>1 DEF On

LEMMA KeyIsOn ==
  ASSUME NEW v \in Users, GetsKey(v)
  PROVE  \E e \in View(v, puts[v]) : On(v)' = On(v) \cup {e[2]}
<1>1. PICK e \in View(v, puts[v]) : \E n : asked'[v] = asked[v] \cup {<<e[2], n>>}
  BY DEF GetsKey
<1>2. bubbles'[v] = bubbles[v]
  BY DEF GetsKey
<1> QED
  BY <1>1, <1>2, AskedIsOn

LEMMA OnlyKeysAppear ==
  ASSUME DeliveryInv, NEW v \in Users, ScreenStep(v)
  PROVE  \A id \in On(v)' : id \in On(v) \/ \E e \in View(v, puts[v]) : id = e[2]
<1>1. CASE Blank(v)
  BY <1>1 DEF Blank, On
<1>2. CASE Same(v) \/ Reverts(v) \/ GetsPartner(v)
  <2>1. bubbles'[v] = bubbles[v] /\ asked'[v] = asked[v]
    BY <1>2 DEF Same, Reverts, GetsPartner
  <2> QED
    BY <2>1 DEF On
<1>3. CASE GetsKey(v)
  BY <1>3, KeyIsOn
<1>4. CASE GetsValue(v)
  BY <1>4, ValueStaysOn
<1> QED
  BY <1>1, <1>2, <1>3, <1>4 DEF ScreenStep

LEMMA StepKeepsRead ==
  ASSUME ReadInv, [Next]_vars
  PROVE  ReadInv'
<1> USE DEF ReadInv
<1>1. DeliveryInv' /\ ListsOwn' /\ TextsStay
  BY StepKeeps, StepKeepsLists, StepKeepsTexts
<1>2. ASSUME NEW v \in Users PROVE ScreenOwn(v)'
  <2> SUFFICES ASSUME NEW id \in On(v)' PROVE (id \in DOMAIN texts /\ v \in Ends(id))'
    BY DEF ScreenOwn
  <2>1. id \in DOMAIN texts /\ v \in Ends(id)
    BY ScreenSteps, OnlyKeysAppear, ViewIsOwn DEF ScreenOwn
  <2> QED
    BY <1>1, <2>1 DEF TextsStay, Ends
<1> QED
  BY <1>1, <1>2

LEMMA InitReads == Init => ReadInv
<1> SUFFICES ASSUME Init PROVE ReadInv
  OBVIOUS
<1>1. \A u \in Users : On(u) = {}
  BY DEF Init, On
<1> QED
  BY <1>1, InitKeeps DEF Init, ReadInv, ListsOwn, ScreenOwn

LEMMA ReadInvariant == Spec => []ReadInv
BY InitReads, StepKeepsRead, PTL DEF Spec

----------------------------------------------------------------------------
(* Once each, where the rules refuse nothing.                              *)

(* No key is taken back, so no partner is raised a second time.            *)
LEMMA NothingReverts ==
  ASSUME MailInv, NEW v \in Users
  PROVE  ~Reverts(v)
<1> SUFFICES ASSUME RevertKey(v) PROVE FALSE
  BY DEF Reverts
<1>1. puts[v] \in Seq(SoundWrites(v)) /\ puts[v] # <<>> /\ Head(puts[v]).reply = "denied"
  BY DEF RevertKey, Acked, MailInv, TextInv, DeliveryInv, PutsSound
<1>2. 1 \in DOMAIN puts[v] /\ Head(puts[v]) = puts[v][1]
  BY <1>1
<1> QED
  BY <1>1, <1>2 DEF MailInv, QueueFair

LEMMA PartnerKeepsOnce ==
  ASSUME DeliveryInv, NEW v \in Users, GetsPartner(v), OneObserver(v)
  PROVE  OneObserver(v)'
<1>1. PICK p \in Users : /\ p \notin known[v] /\ known'[v] = known[v] \cup {p}
                         /\ inner'[v] = [inner[v] EXCEPT ![p] = @ + 1]
  BY DEF GetsPartner
<1>2. inner[v] \in [Users -> Nat] /\ inner[v][p] = 0
  BY <1>1 DEF OneObserver, DeliveryInv, TypeOK
<1> QED
  BY <1>1, <1>2 DEF OneObserver

(* A key that is raised is new to the screen: on it already, it would have *)
(* been raised under the same partner to the same observer.                *)
LEMMA KeyIsNew ==
  ASSUME ReadInv, OnceInv, NEW v \in Users, GetsKey(v)
  PROVE  \E e \in View(v, puts[v]) :
           /\ e[2] \notin On(v)
           /\ added'[v] = added[v] \cup {<<e[1], e[2], 1>>}
           /\ asked'[v] = asked[v] \cup {<<e[2], 1>>}
<1>0. PICK e \in View(v, puts[v]) :
        \E n \in 1..inner[v][e[1]] :
          /\ <<e[1], e[2], n>> \notin added[v]
          /\ added'[v] = added[v] \cup {<<e[1], e[2], n>>}
          /\ asked'[v] = asked[v] \cup {<<e[2], n>>}
  BY DEF GetsKey
<1>1. PICK n \in 1..inner[v][e[1]] :
        /\ <<e[1], e[2], n>> \notin added[v]
        /\ added'[v] = added[v] \cup {<<e[1], e[2], n>>}
        /\ asked'[v] = asked[v] \cup {<<e[2], n>>}
  BY <1>0
<1>2. e[1] \in Users /\ Ends(e[2]) = {v, e[1]}
  BY ViewIsOwn DEF ReadInv
<1>3. n = 1
  BY <1>1, <1>2 DEF OnceInv, OneObserver
<1>4. ASSUME e[2] \in On(v) PROVE FALSE
  <2>1. PICK p \in Users : <<p, e[2], 1>> \in added[v]
    BY <1>4 DEF OnceInv, OnRaised
  <2>2. Ends(e[2]) = {v, p}
    BY <2>1 DEF OnceInv, RaisedOwn
  <2>3. p = e[1]
    BY <1>2, <2>2
  <2> QED
    BY <1>1, <1>3, <2>1, <2>3
<1> QED
  BY <1>1, <1>3, <1>4

LEMMA KeyKeepsOnce ==
  ASSUME ReadInv, OnceInv, NEW v \in Users, GetsKey(v), TextsStay
  PROVE  (OneObserver(v) /\ RaisedOwn(v) /\ OnRaised(v) /\ OneBubble(v))'
<1>1. PICK e \in View(v, puts[v]) :
        /\ e[2] \notin On(v)
        /\ added'[v] = added[v] \cup {<<e[1], e[2], 1>>}
        /\ asked'[v] = asked[v] \cup {<<e[2], 1>>}
  BY KeyIsNew
<1>2. UNCHANGED <<known[v], inner[v], bubbles[v]>>
  BY DEF GetsKey
<1>3. e[1] \in Users /\ e[2] \in DOMAIN texts /\ Ends(e[2]) = {v, e[1]}
  BY ViewIsOwn DEF ReadInv
<1>4. On(v)' = On(v) \cup {e[2]}
  BY <1>1, <1>2, AskedIsOn
<1>5. OneObserver(v)'
  BY <1>2 DEF OnceInv, OneObserver
<1>6. RaisedOwn(v)'
  BY <1>1, <1>3 DEF OnceInv, RaisedOwn, TextsStay, Ends
<1>7. OnRaised(v)'
  BY <1>1, <1>3, <1>4 DEF OnceInv, OnRaised
<1>8. OneBubble(v)'
  BY <1>1, <1>2 DEF OnceInv, OneBubble, On
<1> QED
  BY <1>5, <1>6, <1>7, <1>8

LEMMA ValueKeepsOnce ==
  ASSUME ReadInv, OnceInv, NEW v \in Users, GetsValue(v), TextsStay
  PROVE  (OneObserver(v) /\ RaisedOwn(v) /\ OnRaised(v) /\ OneBubble(v))'
<1>0. PICK a \in asked[v] :
        asked'[v] = asked[v] \ {a} /\ bubbles'[v] = Append(bubbles[v], a[1])
  BY DEF GetsValue
<1>1. PICK b, r, n : /\ b \in Seq(Ids) /\ b = bubbles[v] /\ r = Append(b, a[1]) /\ n = Len(b)
                     /\ asked'[v] = asked[v] \ {a} /\ bubbles'[v] = r
  BY <1>0 DEF ReadInv, DeliveryInv, TypeOK
<1>2. UNCHANGED <<known[v], inner[v], added[v]>>
  BY DEF GetsValue
<1>3. /\ DOMAIN b = 1..n /\ DOMAIN r = 1..(n + 1) /\ n \in Nat
      /\ \A k \in DOMAIN r : (k \in DOMAIN b /\ r[k] = b[k]) \/ (k = n + 1 /\ r[k] = a[1])
  BY <1>1
<1>4. On(v)' \subseteq On(v)
  BY ValueStaysOn DEF ReadInv
<1>5. OneObserver(v)' /\ RaisedOwn(v)'
  BY <1>2 DEF OnceInv, OneObserver, RaisedOwn, TextsStay, Ends
<1>6. OnRaised(v)'
  BY <1>1, <1>2, <1>4 DEF OnceInv, OnRaised
<1>7. \A c \in asked'[v] : c \in asked[v] /\ c[1] # a[1]
  <2> SUFFICES ASSUME NEW c \in asked[v] \ {a} PROVE c[1] # a[1]
    BY <1>1
  <2>1. a[2] = 1 /\ c[2] = 1 /\ a \in Ids \X Nat /\ c \in Ids \X Nat
    BY <1>1 DEF OnceInv, OnRaised, ReadInv, DeliveryInv, TypeOK
  <2> QED
    BY <2>1
<1>8. /\ \A k, l \in DOMAIN b : b[k] = b[l] => k = l
      /\ \A k \in DOMAIN b : \A c \in asked[v] : b[k] # c[1]
  BY <1>1 DEF OnceInv, OneBubble
<1>9. OneBubble(v)'
  BY <1>1, <1>3, <1>7, <1>8 DEF OneBubble
<1> QED
  BY <1>5, <1>6, <1>9

LEMMA StillOnce ==
  ASSUME OnceInv, NEW v \in Users, TextsStay, UNCHANGED <<added[v], asked[v], bubbles[v]>>
  PROVE  RaisedOwn(v)' /\ OnRaised(v)' /\ OneBubble(v)'
<1>1. RaisedOwn(v)'
  BY DEF OnceInv, RaisedOwn, TextsStay, Ends
<1>2. On(v)' = On(v)
  BY DEF On
<1>3. OnRaised(v)'
  BY <1>2 DEF OnceInv, OnRaised
<1>4. OneBubble(v)'
  BY DEF OnceInv, OneBubble
<1> QED
  BY <1>1, <1>3, <1>4

LEMMA StepKeepsOnce ==
  ASSUME ReadInv, MailInv, OnceInv, [Next]_vars
  PROVE  OnceInv'
<1>1. DeliveryInv /\ TextsStay
  BY StepKeepsTexts DEF ReadInv
<1>2. ASSUME NEW v \in Users
      PROVE  (OneObserver(v) /\ RaisedOwn(v) /\ OnRaised(v) /\ OneBubble(v))'
  <2>1. CASE Blank(v)
    BY <2>1 DEF Blank, OneObserver, RaisedOwn, OnRaised, OneBubble, On
  <2>2. CASE Same(v)
    <3>1. UNCHANGED <<known[v], inner[v], added[v], asked[v], bubbles[v]>>
      BY <2>2 DEF Same
    <3>2. OneObserver(v)'
      BY <3>1 DEF OnceInv, OneObserver
    <3> QED
      BY <1>1, <3>1, <3>2, StillOnce
  <2>3. CASE GetsPartner(v)
    <3>1. UNCHANGED <<added[v], asked[v], bubbles[v]>>
      BY <2>3 DEF GetsPartner
    <3>2. OneObserver(v)'
      BY <1>1, <2>3, PartnerKeepsOnce DEF OnceInv
    <3> QED
      BY <1>1, <3>1, <3>2, StillOnce
  <2> QED
    BY <1>1, <2>1, <2>2, <2>3, ScreenSteps, NothingReverts, KeyKeepsOnce, ValueKeepsOnce
    DEF ScreenStep
<1> QED
  BY <1>2 DEF OnceInv

LEMMA InitOnce == Init => OnceInv
<1> SUFFICES ASSUME Init, NEW u \in Users
             PROVE  OneObserver(u) /\ RaisedOwn(u) /\ OnRaised(u) /\ OneBubble(u)
  BY DEF OnceInv
<1>1. /\ bubbles[u] = <<>> /\ asked[u] = {} /\ added[u] = {}
      /\ \A p \in Users : inner[u][p] = 0
  BY DEF Init
<1> QED
  BY <1>1 DEF OneObserver, RaisedOwn, OnRaised, OneBubble, On

----------------------------------------------------------------------------
(* Where the rules refuse nothing, a message appears once in a chat and is *)
(* not asked for again, whatever was sent again or raised from the local   *)
(* write and then from the server: the nested observers of                 *)
(* get_mess_from_firebase are installed once for each partner.  Without    *)
(* the assumption this is false: a refused write takes the partner away,   *)
(* and the next text brings a second observer of the same keys.            *)
THEOREM AlwaysOneBubbleEach == ASSUME ~Denials PROVE Spec => []OneBubbleEach
<1>1. MailInv /\ [Next]_vars => MailInv'
  BY StepFair
<1>2. ReadInv /\ MailInv /\ OnceInv /\ [Next]_vars => OnceInv'
  BY StepKeepsOnce
<1>3. OnceInv => OneBubbleEach
  BY DEF OnceInv, OneBubble, OneBubbleEach
<1> QED
  BY <1>1, <1>2, <1>3, InitFair, InitOnce, ReadInvariant, PTL DEF Spec

(* Nobody is shown a message they neither sent nor received, with whatever *)
(* partner: send_mess_to_firebase lists a key under the two ends of its    *)
(* message, whatever chat is open when the message is acknowledged.        *)
THEOREM AlwaysOnlyOwnTexts == Spec => []OnlyOwnTexts
<1>1. ReadInv => OnlyOwnTexts
  BY DEF ReadInv, ScreenOwn, On, Ends, OnlyOwnTexts
<1> QED
  BY <1>1, ReadInvariant, PTL

(* What the observers of usermess/<u>/<p> can be told of is stored and is  *)
(* between u and p: what send_mess_to_firebase lists, in whatever order    *)
(* devices and server run, is what an inbox counts on.                     *)
THEOREM ListsAlwaysHoldOwnTexts == Spec => []ListsHoldOwnTexts
<1>1. ReadInv => ListsHoldOwnTexts
  BY ViewIsOwn DEF ReadInv, Ends, ListsHoldOwnTexts
<1> QED
  BY <1>1, ReadInvariant, PTL
=============================================================================
