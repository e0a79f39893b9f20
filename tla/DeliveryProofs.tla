--------------------------- MODULE DeliveryProofs ---------------------------
(***************************************************************************)
(* Delivery for any users, any number of texts, connection losses and      *)
(* deaths: no list ever holds the key of a message that is not stored, and *)
(* no chat ever asks for one.                                              *)
(***************************************************************************)
EXTENDS Delivery, SequenceTheorems, TLAPS

(* What may be outstanding in the client of u: writes for texts that u     *)
(* sent; a key only for a text that has a recipient and is stored; and     *)
(* what was answered with "ok" is stored.                                  *)
SoundWrites(u) ==
  {w \in Write :
     /\ w.id <= Len(texts) /\ texts[w.id].from = u
     /\ w.node # "mess" => texts[w.id].to \in Users /\ w.id \in stored
     /\ w.reply = "ok" => w.id \in stored}

PutsSound == \A u \in Users : puts[u] \in Seq(SoundWrites(u))

ListsSound == \A u, p \in Users : listed[u][p] \subseteq stored

DeliveryInv == TypeOK /\ PutsSound /\ ListsSound /\ NoValueMissing

(* The parts of the state that PutsSound is about only grow.               *)
LEMMA SoundStays ==
  ASSUME TypeOK, NEW u \in Users, stored \subseteq stored',
         texts' = texts \/ \E t \in Text : texts' = Append(texts, t)
  PROVE  SoundWrites(u) \subseteq SoundWrites(u)'
<1>1. texts \in Seq(Text)
  BY DEF TypeOK
<1>2. \A id \in Ids : id <= Len(texts) => id <= Len(texts') /\ texts'[id] = texts[id]
  BY <1>1 DEF Ids
<1> QED
  BY <1>2 DEF SoundWrites, Write

LEMMA PutType ==
  ASSUME NEW id \in Ids, NEW node \in {"mess", "own", "partner"}
  PROVE  Put(id, node) \in Write
BY DEF Put, Write

LEMMA NewScreenType ==
  ASSUME TypeOK, NEW u \in Users, NEW p \in Users \cup {Nobody}, NewScreen(u, p)
  PROVE  /\ partner' \in [Users -> Users \cup {Nobody}]
         /\ known' \in [Users -> SUBSET Users]
         /\ inner' \in [Users -> [Users -> Nat]]
         /\ added' \in [Users -> SUBSET (Users \X Ids \X Nat)]
         /\ asked' \in [Users -> SUBSET (Ids \X Nat)]
         /\ bubbles' \in [Users -> Seq(Ids)]
         /\ \A v \in Users : asked'[v] \subseteq asked[v]
<1>1. partner' = [partner EXCEPT ![u] = p] /\ known' = [known EXCEPT ![u] = {}]
  BY DEF NewScreen
<1>2. partner' \in [Users -> Users \cup {Nobody}]
  BY <1>1 DEF TypeOK
<1>3. known' \in [Users -> SUBSET Users]
  BY <1>1 DEF TypeOK
<1>4. inner' \in [Users -> [Users -> Nat]]
  <2> DEFINE z == [p2 \in Users |-> 0]
  <2>1. z \in [Users -> Nat] /\ inner' = [inner EXCEPT ![u] = z]
    BY DEF NewScreen
  <2> HIDE DEF z
  <2> QED
    BY <2>1 DEF TypeOK
<1>5. added' \in [Users -> SUBSET (Users \X Ids \X Nat)]
  BY DEF TypeOK, NewScreen
<1>6. asked' \in [Users -> SUBSET (Ids \X Nat)] /\ \A v \in Users : asked'[v] \subseteq asked[v]
  BY DEF TypeOK, NewScreen
<1>7. bubbles' \in [Users -> Seq(Ids)]
  BY DEF TypeOK, NewScreen
<1> QED
  BY <1>2, <1>3, <1>4, <1>5, <1>6, <1>7

(* Steps that leave the texts, the writes and the server alone.            *)
LEMMA QuietKeeps ==
  ASSUME DeliveryInv, UNCHANGED <<texts, puts, serverVars>>, TypeOK',
         \A v \in Users : \A a \in asked'[v] : a[1] \in stored
  PROVE  DeliveryInv'
<1>1. PutsSound'
  BY DEF DeliveryInv, PutsSound, SoundWrites, serverVars
<1>2. ListsSound' /\ NoValueMissing'
  BY DEF DeliveryInv, ListsSound, NoValueMissing, serverVars
<1> QED
  BY <1>1, <1>2 DEF DeliveryInv

LEMMA DieKeeps ==
  ASSUME DeliveryInv, NEW u \in Users, Die(u), UNCHANGED <<texts, serverVars>>,
         faults' \in 0..MaxFaults
  PROVE  DeliveryInv'
<1>1. Nobody \in Users \cup {Nobody} /\ NewScreen(u, Nobody) /\ TypeOK
  BY DEF Die, DeliveryInv
<1>2. TypeOK'
  <2>1. puts' \in [Users -> Seq(Write)]
    BY <1>1 DEF Die, TypeOK
  <2> QED
    BY <1>1, <2>1, NewScreenType DEF Die, TypeOK, serverVars
<1>3. PutsSound'
  <2> SUFFICES ASSUME NEW v \in Users PROVE puts'[v] \in Seq(SoundWrites(v)')
    BY DEF PutsSound
  <2>1. SoundWrites(v)' = SoundWrites(v)
    BY DEF SoundWrites, serverVars
  <2>2. puts'[v] = puts[v] \/ puts'[v] = <<>>
    BY <1>1 DEF Die, TypeOK
  <2> QED
    BY <2>1, <2>2, EmptySeq DEF DeliveryInv, PutsSound
<1>4. ListsSound'
  BY DEF DeliveryInv, ListsSound, serverVars
<1>5. NoValueMissing'
  BY <1>1, NewScreenType DEF DeliveryInv, NoValueMissing, serverVars
<1> QED
  BY <1>2, <1>3, <1>4, <1>5 DEF DeliveryInv

----------------------------------------------------------------------------
LEMMA InitKeeps == Init => DeliveryInv
<1> SUFFICES ASSUME Init PROVE DeliveryInv
  OBVIOUS
<1>1. TypeOK
  BY BoundAssumption DEF Init, TypeOK, Ids
<1>2. PutsSound
  BY EmptySeq DEF Init, PutsSound
<1> QED
  BY <1>1, <1>2 DEF Init, DeliveryInv, ListsSound, NoValueMissing

LEMMA ConnectionKeeps ==
  ASSUME DeliveryInv, NEW u \in Users,
         \/ Relaunch(u) \/ Reconnect(u) \/ CloseChat(u)
         \/ \E p \in Users : PartnerArrives(u, p) \/ ChooseUser(u, p)
  PROVE  DeliveryInv'
<1> USE DEF DeliveryInv
<1>1. CASE Relaunch(u) \/ Reconnect(u)
  <2>1. TypeOK'
    BY <1>1 DEF Relaunch, Reconnect, TypeOK, serverVars, clientVars, readVars
  <2> QED
    BY <1>1, <2>1, QuietKeeps
    DEF Relaunch, Reconnect, NoValueMissing, clientVars, readVars
<1>2. CASE \E p \in Users : PartnerArrives(u, p)
  <2>1. TypeOK'
    BY <1>2 DEF PartnerArrives, TypeOK, serverVars, readVars
  <2> QED
    BY <1>2, <2>1, QuietKeeps DEF PartnerArrives, NoValueMissing, readVars
<1>3. CASE CloseChat(u) \/ \E p \in Users : ChooseUser(u, p)
  <2>1. PICK p \in Users \cup {Nobody} : NewScreen(u, p)
    BY <1>3 DEF CloseChat, ChooseUser
  <2>2. TypeOK'
    BY <1>3, <2>1, NewScreenType DEF CloseChat, ChooseUser, TypeOK, serverVars
  <2> QED
    BY <1>3, <2>1, <2>2, NewScreenType, QuietKeeps
    DEF CloseChat, ChooseUser, NoValueMissing
<1> QED
  BY <1>1, <1>2, <1>3

(* A step that gives u a sound queue and takes nothing from the server or  *)
(* from the texts keeps all queues sound.                                  *)
LEMMA QueueKeeps ==
  ASSUME DeliveryInv, NEW u \in Users, NEW q \in Seq(SoundWrites(u)'),
         puts' = [puts EXCEPT ![u] = q], stored \subseteq stored',
         texts' = texts \/ \E t \in Text : texts' = Append(texts, t)
  PROVE  PutsSound' /\ puts' \in [Users -> Seq(Write)]
<1> USE DEF DeliveryInv
<1>1. PutsSound'
  <2> SUFFICES ASSUME NEW v \in Users PROVE puts'[v] \in Seq(SoundWrites(v)')
    BY DEF PutsSound
  <2>1. SoundWrites(v) \subseteq SoundWrites(v)'
    BY SoundStays
  <2>2. puts[v] \in Seq(SoundWrites(v)')
    BY <2>1, SeqMonotonic DEF PutsSound
  <2> QED
    BY <2>2 DEF TypeOK
<1>2. q \in Seq(Write)
  <2>1. SoundWrites(u)' \subseteq Write
    BY DEF SoundWrites, Write
  <2> QED
    BY <2>1, SeqMonotonic
<1> QED
  BY <1>1, <1>2 DEF TypeOK

(* Changing one reply, within what SoundWrites allows, keeps the queue     *)
(* sound.                                                                  *)
LEMMA ReplyKeeps ==
  ASSUME NEW S, NEW q \in Seq(S), NEW i \in DOMAIN q, NEW w \in S
  PROVE  [q EXCEPT ![i] = w] \in Seq(S)
OBVIOUS

(* A lost reply makes a write unanswered, which asks nothing of it.        *)
LEMMA DisconnectKeeps ==
  ASSUME DeliveryInv, NEW u \in Users, Disconnect(u)
  PROVE  DeliveryInv'
<1> USE DEF DeliveryInv
<1> DEFINE q == [i \in DOMAIN puts[u] |-> [puts[u][i] EXCEPT !.reply = "none"]]
<1>1. q \in Seq(SoundWrites(u))
  <2>1. puts[u] \in Seq(SoundWrites(u))
    BY DEF PutsSound
  <2>2. \A i \in DOMAIN puts[u] : q[i] \in SoundWrites(u)
    <3> SUFFICES ASSUME NEW i \in DOMAIN puts[u] PROVE q[i] \in SoundWrites(u)
      OBVIOUS
    <3>1. puts[u][i] \in SoundWrites(u)
      BY <2>1
    <3> QED
      BY <3>1 DEF SoundWrites, Write
  <2>3. DOMAIN puts[u] = 1..Len(puts[u]) /\ Len(puts[u]) \in Nat
    BY <2>1
  <2>4. q \in [1..Len(puts[u]) -> SoundWrites(u)]
    BY <2>2, <2>3
  <2> HIDE DEF q
  <2> QED
    BY <2>3, <2>4, SeqDef
<1>2. /\ puts' = [puts EXCEPT ![u] = q]
      /\ UNCHANGED <<alive, texts, stored, listed,
                     partner, known, inner, added, asked, bubbles>>
      /\ online' = online \ {u} /\ faults' \in 0..MaxFaults
  BY BoundAssumption DEF Disconnect, TypeOK, serverVars, clientVars, readVars
<1> HIDE DEF q
<1>3. SoundWrites(u)' = SoundWrites(u)
  BY <1>2 DEF SoundWrites
<1>4. PutsSound' /\ puts' \in [Users -> Seq(Write)]
  BY <1>1, <1>2, <1>3, QueueKeeps
<1>5. TypeOK'
  BY <1>2, <1>4 DEF TypeOK
<1>6. ListsSound' /\ NoValueMissing'
  BY <1>2 DEF ListsSound, NoValueMissing
<1> QED
  BY <1>4, <1>5, <1>6

LEMMA SendKeeps ==
  ASSUME DeliveryInv, NEW u \in Users, Send(u)
  PROVE  DeliveryInv'
<1> USE DEF DeliveryInv
<1> DEFINE id == Len(texts) + 1
           t  == [from |-> u, to |-> partner[u]]
           w  == Put(id, "mess")
<1>1. texts \in Seq(Text) /\ t \in Text /\ id \in Ids
  BY BoundAssumption DEF Send, TypeOK, Text, Ids
<1>2. /\ texts' = Append(texts, t) /\ puts' = [puts EXCEPT ![u] = Append(@, w)]
      /\ UNCHANGED <<alive, online, faults, stored, listed,
                     partner, known, inner, added, asked, bubbles>>
  BY DEF Send, serverVars, clientVars, readVars
<1>3. w \in SoundWrites(u)'
  <2>1. w \in Write /\ w.id = id /\ w.node = "mess" /\ w.reply = "none"
    BY <1>1, PutType DEF Put
  <2>2. id <= Len(texts') /\ texts'[id] = t
    BY <1>1, <1>2
  <2> QED
    BY <2>1, <2>2 DEF SoundWrites, Write, Ids
<1>4. Append(puts[u], w) \in Seq(SoundWrites(u)')
  <2>1. SoundWrites(u) \subseteq SoundWrites(u)'
    BY <1>1, <1>2, SoundStays
  <2>2. puts[u] \in Seq(SoundWrites(u)')
    BY <2>1, SeqMonotonic DEF PutsSound
  <2> QED
    BY <1>3, <2>2, AppendProperties
<1>5. texts' \in Seq(Text) /\ Len(texts') <= MaxMessages
  BY <1>1, <1>2, BoundAssumption DEF Ids
<1> HIDE DEF id, t, w
<1>6. PutsSound' /\ puts' \in [Users -> Seq(Write)]
  BY <1>1, <1>2, <1>4, QueueKeeps
<1>7. TypeOK'
  BY <1>2, <1>5, <1>6 DEF TypeOK
<1>8. ListsSound' /\ NoValueMissing'
  BY <1>2 DEF ListsSound, NoValueMissing
<1> QED
  BY <1>6, <1>7, <1>8

----------------------------------------------------------------------------
(* The server.                                                             *)

(* Answering "ok" is sound once the message is stored, and the message is  *)
(* stored before any key that names it.                                    *)
LEMMA ServerAppliesKeeps ==
  ASSUME DeliveryInv, NEW u \in Users, NEW i \in DOMAIN puts[u], ServerApplies(u, i)
  PROVE  DeliveryInv'
<1> USE DEF DeliveryInv
<1> DEFINE w == puts[u][i]
           a == [w EXCEPT !.reply = "ok"]
           q == [puts[u] EXCEPT ![i] = a]
<1>0. w \in SoundWrites(u) /\ w \in Write
  <2>1. w \in SoundWrites(u)
    BY DEF PutsSound
  <2> QED
    BY <2>1 DEF SoundWrites
<1>1. /\ puts[u] \in Seq(SoundWrites(u)) /\ w \in SoundWrites(u) /\ w \in Write
      /\ puts' = [puts EXCEPT ![u] = q]
      /\ UNCHANGED <<alive, online, texts, faults,
                     partner, known, inner, added, asked, bubbles>>
  BY <1>0 DEF ServerApplies, PutsSound, clientVars, readVars
<1>2. /\ stored \subseteq stored' /\ stored' \subseteq Ids /\ w.id \in stored'
      /\ listed' \in [Users -> [Users -> SUBSET Ids]]
      /\ ListsSound'
  <2>1. CASE w.node = "mess"
    <3>1. stored' = stored \cup {w.id} /\ listed' = listed /\ w.id \in Ids
      BY <1>1, <2>1 DEF ServerApplies, Write
    <3> QED
      BY <3>1 DEF TypeOK, ListsSound
  <2>2. CASE w.node # "mess"
    <3>1. PICK v, p \in Users : Path(w) = <<v, p>>
      <4>1. texts[w.id] \in Text /\ texts[w.id].to \in Users
        BY <1>1, <2>2 DEF SoundWrites, TypeOK, Write, Ids
      <4> QED
        BY <4>1 DEF Path, Text
    <3>2. /\ stored' = stored /\ w.id \in Ids /\ w.id \in stored
          /\ listed' = [listed EXCEPT ![v][p] = @ \cup {w.id}]
      BY <1>1, <2>2, <3>1 DEF ServerApplies, SoundWrites, Write
    <3> HIDE DEF w
    <3>3. listed' \in [Users -> [Users -> SUBSET Ids]]
      BY <3>2 DEF TypeOK
    <3>4. \A x, y \in Users : listed'[x][y] \subseteq listed[x][y] \cup {w.id}
      BY <3>2 DEF TypeOK
    <3>5. ListsSound'
      BY <3>2, <3>4 DEF ListsSound
    <3> QED
      BY <3>2, <3>3, <3>5 DEF TypeOK
  <2> QED
    BY <2>1, <2>2
<1>3. q \in Seq(SoundWrites(u)')
  <2>1. SoundWrites(u) \subseteq SoundWrites(u)'
    BY <1>1, <1>2, SoundStays
  <2>2. a \in SoundWrites(u)'
    BY <1>1, <1>2, <2>1 DEF SoundWrites, Write
  <2>3. puts[u] \in Seq(SoundWrites(u)')
    BY <1>1, <2>1, SeqMonotonic
  <2> HIDE DEF a
  <2> QED
    BY <2>2, <2>3, ReplyKeeps
<1> HIDE DEF w, a, q
<1>4. PutsSound' /\ puts' \in [Users -> Seq(Write)]
  BY <1>1, <1>2, <1>3, QueueKeeps
<1>5. TypeOK'
  BY <1>1, <1>2, <1>4 DEF TypeOK
<1>6. NoValueMissing'
  BY <1>1, <1>2 DEF NoValueMissing
<1> QED
  BY <1>2, <1>4, <1>5, <1>6

LEMMA ServerDeniesKeeps ==
  ASSUME DeliveryInv, NEW u \in Users, NEW i \in DOMAIN puts[u], ServerDenies(u, i)
  PROVE  DeliveryInv'
<1> USE DEF DeliveryInv
<1> DEFINE a == [puts[u][i] EXCEPT !.reply = "denied"]
           q == [puts[u] EXCEPT ![i] = a]
<1>1. /\ puts[u] \in Seq(SoundWrites(u)) /\ puts[u][i] \in SoundWrites(u)
      /\ puts' = [puts EXCEPT ![u] = q]
      /\ faults' \in 0..MaxFaults
      /\ UNCHANGED <<alive, online, texts, stored, listed,
                     partner, known, inner, added, asked, bubbles>>
  BY BoundAssumption DEF ServerDenies, TypeOK, PutsSound, serverVars, clientVars, readVars
<1>2. SoundWrites(u)' = SoundWrites(u)
  BY <1>1 DEF SoundWrites
<1>3. q \in Seq(SoundWrites(u)')
  <2>1. a \in SoundWrites(u)'
    BY <1>1, <1>2 DEF SoundWrites, Write
  <2> HIDE DEF a
  <2> QED
    BY <1>1, <1>2, <2>1, ReplyKeeps
<1> HIDE DEF q
<1>4. PutsSound' /\ puts' \in [Users -> Seq(Write)]
  BY <1>1, <1>3, QueueKeeps
<1>5. TypeOK'
  BY <1>1, <1>4 DEF TypeOK
<1>6. ListsSound' /\ NoValueMissing'
  BY <1>1 DEF ListsSound, NoValueMissing
<1> QED
  BY <1>4, <1>5, <1>6

----------------------------------------------------------------------------
(* The completions.                                                        *)

(* The message is stored when its completion lists the key.                *)
LEMMA FileKeyKeeps ==
  ASSUME DeliveryInv, NEW u \in Users, FileKey(u)
  PROVE  DeliveryInv'
<1> USE DEF DeliveryInv
<1> DEFINE h == Head(puts[u])
           keys == IF h.reply = "ok" THEN <<Put(h.id, "own"), Put(h.id, "partner")>> ELSE <<>>
           q == Tail(puts[u]) \o keys
<1>1. /\ puts' = [puts EXCEPT ![u] = q]
      /\ h.reply = "denied" \/ texts[h.id].to # Nobody
      /\ puts[u] \in Seq(SoundWrites(u)) /\ puts[u] # <<>>
      /\ UNCHANGED <<alive, online, texts, faults, stored, listed,
                     partner, known, inner, added, asked, bubbles>>
  BY DEF FileKey, Acked, PutsSound, TypeOK, serverVars, clientVars, readVars
<1>2. SoundWrites(u)' = SoundWrites(u)
  BY <1>1 DEF SoundWrites
<1>3. h \in SoundWrites(u) /\ Tail(puts[u]) \in Seq(SoundWrites(u))
  BY <1>1, HeadTailProperties
<1>4. keys \in Seq(SoundWrites(u))
  <2>1. CASE h.reply = "ok"
    <3>1. /\ h.id \in Ids /\ h.id <= Len(texts) /\ texts[h.id].from = u
          /\ h.id \in stored /\ texts[h.id].to \in Users
      <4>1. h.id \in Ids /\ h.id <= Len(texts) /\ texts[h.id].from = u /\ h.id \in stored
        BY <1>3, <2>1 DEF SoundWrites, Write
      <4>2. texts[h.id] \in Text
        BY <4>1 DEF TypeOK, Ids
      <4> QED
        BY <1>1, <2>1, <4>1, <4>2 DEF Text
    <3>2. Put(h.id, "own") \in SoundWrites(u) /\ Put(h.id, "partner") \in SoundWrites(u)
      BY <3>1 DEF SoundWrites, Put, Write
    <3> QED
      BY <2>1, <3>2
  <2>2. CASE h.reply # "ok"
    BY <2>2, EmptySeq
  <2> QED
    BY <2>1, <2>2
<1>5. q \in Seq(SoundWrites(u)')
  <2> HIDE DEF keys
  <2> QED
    BY <1>2, <1>3, <1>4, ConcatProperties
<1> HIDE DEF q
<1>6. PutsSound' /\ puts' \in [Users -> Seq(Write)]
  BY <1>1, <1>5, QueueKeeps
<1>7. TypeOK'
  BY <1>1, <1>6 DEF TypeOK
<1>8. ListsSound' /\ NoValueMissing'
  BY <1>1 DEF ListsSound, NoValueMissing
<1> QED
  BY <1>6, <1>7, <1>8

LEMMA AckKeyKeeps ==
  ASSUME DeliveryInv, NEW u \in Users, AckKey(u) \/ RevertKey(u)
  PROVE  DeliveryInv'
<1> USE DEF DeliveryInv
<1> DEFINE q == Tail(puts[u])
<1>1. /\ puts' = [puts EXCEPT ![u] = q]
      /\ puts[u] \in Seq(SoundWrites(u)) /\ puts[u] # <<>>
      /\ UNCHANGED <<alive, online, texts, faults, stored, listed,
                     partner, inner, asked, bubbles>>
  BY DEF AckKey, RevertKey, Acked, PutsSound, TypeOK, serverVars, clientVars, readVars
<1>2. SoundWrites(u)' = SoundWrites(u)
  BY <1>1 DEF SoundWrites
<1>3. q \in Seq(SoundWrites(u)')
  BY <1>1, <1>2, HeadTailProperties
<1> HIDE DEF q
<1>4. PutsSound' /\ puts' \in [Users -> Seq(Write)]
  BY <1>1, <1>3, QueueKeeps
<1>5. known' \in [Users -> SUBSET Users] /\ added' \in [Users -> SUBSET (Users \X Ids \X Nat)]
  <2>1. CASE AckKey(u)
    BY <2>1 DEF AckKey, clientVars, readVars, TypeOK
  <2>2. CASE RevertKey(u)
    <3>1. PICK A, K : /\ A \subseteq added[u] /\ added' = [added EXCEPT ![u] = A]
                      /\ K \subseteq known[u] /\ known' = [known EXCEPT ![u] = K]
      <4>1. PICK A : A \subseteq added[u] /\ added' = [added EXCEPT ![u] = A]
        BY <2>2 DEF RevertKey
      <4>2. \/ known' = [known EXCEPT ![u] = known[u]]
            \/ \E p : known' = [known EXCEPT ![u] = @ \ {p}]
        BY <2>2 DEF RevertKey, TypeOK
      <4> QED
        BY <4>1, <4>2
    <3> QED
      BY <3>1 DEF TypeOK
  <2> QED
    BY <2>1, <2>2
<1>6. TypeOK'
  BY <1>1, <1>4, <1>5 DEF TypeOK
<1>7. ListsSound' /\ NoValueMissing'
  BY <1>1 DEF ListsSound, NoValueMissing
<1> QED
  BY <1>4, <1>6, <1>7

----------------------------------------------------------------------------
(* The observers.                                                          *)

(* A chat is only told of keys that are stored: those of its list, and     *)
(* those its own device is about to list.                                  *)
LEMMA ViewIsStored ==
  ASSUME DeliveryInv, NEW u \in Users, NEW e \in View(u, puts[u])
  PROVE  e \in Users \X Ids /\ e[2] \in stored
<1> USE DEF DeliveryInv
<1>1. e \in Users \X Ids
  BY DEF View, OwnView
<1>2. CASE e[2] \in listed[u][e[1]]
  BY <1>1, <1>2 DEF ListsSound
<1>3. CASE <<<<u, e[1]>>, e[2]>> \in Pending(puts[u])
  <2>1. PICK i \in DOMAIN puts[u] :
          puts[u][i].node # "mess" /\ puts[u][i].id = e[2]
    BY <1>3 DEF Pending
  <2>2. puts[u][i] \in SoundWrites(u)
    BY DEF PutsSound
  <2> QED
    BY <1>1, <2>1, <2>2 DEF SoundWrites
<1> QED
  BY <1>1, <1>2, <1>3 DEF View, OwnView

LEMMA ReadingKeeps ==
  ASSUME DeliveryInv, NEW u \in Users, Reading(u)
  PROVE  DeliveryInv'
<1> USE DEF DeliveryInv
<1>0. ASSUME NEW p \in Users, PartnerAdded(u, p) PROVE DeliveryInv'
  <2>1. /\ known' = [known EXCEPT ![u] = @ \cup {p}]
        /\ inner' = [inner EXCEPT ![u][p] = @ + 1]
        /\ UNCHANGED <<alive, online, texts, puts, faults, stored, listed,
                       partner, added, asked, bubbles>>
    BY <1>0 DEF PartnerAdded, serverVars
  <2>2. TypeOK'
    BY <2>1 DEF TypeOK
  <2> QED
    BY <2>1, <2>2, QuietKeeps DEF NoValueMissing, serverVars
<1>1. ASSUME NEW e \in View(u, puts[u]), NEW n \in 1..inner[u][e[1]], KeyAdded(u, e, n)
      PROVE  DeliveryInv'
  <2>1. e[1] \in Users /\ e[2] \in stored /\ e[2] \in Ids /\ n \in Nat
    <3>1. e[1] \in Users /\ e[2] \in stored /\ e[2] \in Ids
      BY ViewIsStored
    <3>2. inner[u][e[1]] \in Nat
      BY <3>1 DEF TypeOK
    <3> QED
      BY <3>1, <3>2
  <2>2. /\ added' = [added EXCEPT ![u] = @ \cup {<<e[1], e[2], n>>}]
        /\ asked' = [asked EXCEPT ![u] = @ \cup {<<e[2], n>>}]
        /\ UNCHANGED <<alive, online, texts, puts, faults, stored, listed,
                       partner, known, inner, bubbles>>
    BY <1>1 DEF KeyAdded, serverVars
  <2>3. TypeOK'
    <3>1. <<e[1], e[2], n>> \in Users \X Ids \X Nat /\ <<e[2], n>> \in Ids \X Nat
      BY <2>1
    <3>2. /\ added' \in [Users -> SUBSET (Users \X Ids \X Nat)]
          /\ asked' \in [Users -> SUBSET (Ids \X Nat)]
      BY <2>2, <3>1 DEF TypeOK
    <3> QED
      BY <2>2, <3>2 DEF TypeOK
  <2>4. \A v \in Users : \A a \in asked'[v] : a[1] \in stored
    BY <2>1, <2>2 DEF TypeOK, NoValueMissing
  <2> QED
    BY <2>2, <2>3, <2>4, QuietKeeps DEF serverVars
<1>2. ASSUME NEW a \in asked[u], ValueArrives(u, a) PROVE DeliveryInv'
  <2>1. /\ asked' = [asked EXCEPT ![u] = @ \ {a}]
        /\ bubbles' = [bubbles EXCEPT ![u] = Append(@, a[1])]
        /\ UNCHANGED <<alive, online, texts, puts, faults, stored, listed,
                       partner, known, inner, added>>
    BY <1>2 DEF ValueArrives, serverVars
  <2>2. a[1] \in Ids /\ Append(bubbles[u], a[1]) \in Seq(Ids)
    BY AppendProperties DEF TypeOK
  <2>3. TypeOK'
    BY <2>1, <2>2 DEF TypeOK
  <2>4. \A v \in Users : \A b \in asked'[v] : b[1] \in stored
    BY <2>1 DEF TypeOK, NoValueMissing
  <2> QED
    BY <2>1, <2>3, <2>4, QuietKeeps DEF serverVars
<1>3. ASSUME NEW a \in asked[u], NoValueArrives(u, a) PROVE DeliveryInv'
  BY <1>3 DEF NoValueArrives, NoValueMissing
<1> QED
  BY <1>0, <1>1, <1>2, <1>3 DEF Reading

----------------------------------------------------------------------------
LEMMA StepKeeps == DeliveryInv /\ [Next]_vars => DeliveryInv'
<1> SUFFICES ASSUME DeliveryInv, [Next]_vars PROVE DeliveryInv'
  OBVIOUS
<1>1. CASE UNCHANGED vars
  BY <1>1 DEF vars, serverVars, clientVars, readVars, DeliveryInv, TypeOK, PutsSound, SoundWrites,
              ListsSound, NoValueMissing
<1>2. ASSUME NEW u \in Users,
             \/ Kill(u) \/ NoPartnerArrives(u) \/ Relaunch(u) \/ Disconnect(u) \/ Reconnect(u)
             \/ CloseChat(u) \/ \E p \in Users : PartnerArrives(u, p) \/ ChooseUser(u, p)
             \/ Send(u) \/ Server(u) \/ Completion(u) \/ Reading(u)
      PROVE  DeliveryInv'
  <2>1. CASE Kill(u) \/ NoPartnerArrives(u)
    <3>1. faults' \in 0..MaxFaults
      BY <2>1, BoundAssumption DEF Kill, NoPartnerArrives, DeliveryInv, TypeOK
    <3> QED
      BY <2>1, <3>1, DieKeeps DEF Kill, NoPartnerArrives
  <2>2. CASE \/ Relaunch(u) \/ Reconnect(u) \/ CloseChat(u)
             \/ \E p \in Users : PartnerArrives(u, p) \/ ChooseUser(u, p)
    BY <2>2, ConnectionKeeps
  <2>3. CASE Disconnect(u)
    BY <2>3, DisconnectKeeps
  <2>4. CASE Send(u)
    BY <2>4, SendKeeps
  <2>5. CASE Server(u)
    BY <2>5, ServerAppliesKeeps, ServerDeniesKeeps DEF Server
  <2>6. CASE Completion(u)
    <3>1. CASE FileKeyForNobody(u)
      <4>1. faults' \in 0..MaxFaults
        BY <3>1 DEF FileKeyForNobody, DeliveryInv, TypeOK
      <4> QED
        BY <3>1, <4>1, DieKeeps DEF FileKeyForNobody
    <3> QED
      BY <2>6, <3>1, FileKeyKeeps, AckKeyKeeps DEF Completion
  <2>7. CASE Reading(u)
    BY <2>7, ReadingKeeps
  <2> QED
    BY <1>2, <2>1, <2>2, <2>3, <2>4, <2>5, <2>6, <2>7
<1> QED
  BY <1>1, <1>2 DEF Next

LEMMA DeliveryInvariant == Spec => []DeliveryInv
BY InitKeeps, StepKeeps, PTL DEF Spec

(* The state of sending and reading stays well-formed.                     *)
THEOREM TypeCorrect == Spec => []TypeOK
<1>1. DeliveryInv => TypeOK
  BY DEF DeliveryInv
<1> QED
  BY <1>1, DeliveryInvariant, PTL

(* A key is listed, or about to be, only for a message that is stored:     *)
(* send_mess_to_firebase lists it in the completion of the message's       *)
(* write, and losses, resends, refusals and deaths do not break the order. *)
THEOREM KeysFollowMessages == Spec => []NoDanglingKey
<1>1. DeliveryInv => NoDanglingKey
  <2> SUFFICES ASSUME DeliveryInv, NEW u \in Users, NEW i \in DOMAIN puts[u],
                      puts[u][i].node # "mess"
               PROVE  puts[u][i].id \in stored
    BY DEF NoDanglingKey, DeliveryInv, ListsSound
  <2>1. puts[u][i] \in SoundWrites(u)
    BY DEF DeliveryInv, PutsSound
  <2> QED
    BY <2>1 DEF SoundWrites
<1> QED
  BY <1>1, DeliveryInvariant, PTL

(* The forced unwrap of a message's value in get_mess_from_firebase never  *)
(* meets an absent one.                                                    *)
THEOREM ValuesArePresent == Spec => []NoValueMissing
<1>1. DeliveryInv => NoValueMissing
  BY DEF DeliveryInv
<1> QED
  BY <1>1, DeliveryInvariant, PTL
=============================================================================
