----------------------------- MODULE MailProofs -----------------------------
(***************************************************************************)
(* Delivery implements Mail, for any users, texts, losses and deaths, and  *)
(* whether the rules may refuse a write or not.                            *)
(***************************************************************************)
EXTENDS DeliveryProofs

(* The key for the recipient is never ahead of the sender's: it waits in   *)
(* the queue behind it, or the sender's is listed.  What was answered was  *)
(* applied.                                                                *)
QueueFair(q) ==
  /\ \A i \in DOMAIN q : q[i].reply # "denied"
  /\ \A i \in DOMAIN q : q[i].node = "own" /\ q[i].reply = "ok" => Filed(q[i].id)
  /\ \A i \in DOMAIN q : q[i].node = "partner" =>
       Filed(q[i].id) \/ \E j \in 1..(i - 1) : q[j].node = "own" /\ q[j].id = q[i].id

TextInv == DeliveryInv /\ stored \subseteq 1..Len(texts)

(* Kept as long as no write is refused.                                    *)
MailInv ==
  /\ TextInv
  /\ \A u \in Users : QueueFair(puts[u])
  /\ SenderFindsFirst

RulesInv == TextInv /\ (~Denials => MailInv)

(* What the stages are computed from.                                      *)
Content == <<texts, stored, listed>>

LEMMA InitFair == Init => MailInv
<1> SUFFICES ASSUME Init PROVE MailInv
  OBVIOUS
<1>1. \A u \in Users : puts[u] = <<>>
  BY DEF Init
<1>2. \A u \in Users : QueueFair(puts[u])
  BY <1>1 DEF QueueFair
<1>3. SenderFindsFirst
  BY DEF Init, SenderFindsFirst, Addressed
<1> QED
  BY <1>2, <1>3, InitKeeps DEF MailInv, TextInv, Init

LEMMA QuietFair ==
  ASSUME MailInv, DeliveryInv', UNCHANGED Content, UNCHANGED puts
  PROVE  MailInv'
BY DEF MailInv, TextInv, QueueFair, SenderFindsFirst, Addressed, Filed, Delivered, Content

LEMMA QueueChangeFair ==
  ASSUME MailInv, DeliveryInv', UNCHANGED Content, NEW u \in Users, NEW q,
         puts' = [puts EXCEPT ![u] = q], QueueFair(q)
  PROVE  MailInv'
<1>1. \A id : Filed(id)' = Filed(id) /\ Delivered(id)' = Delivered(id)
  BY DEF Filed, Delivered, Content
<1>2. \A v \in Users : puts'[v] = puts[v] \/ puts'[v] = q
  BY DEF MailInv, TextInv, DeliveryInv, TypeOK
<1>3. \A v \in Users : QueueFair(puts[v])'
  BY <1>1, <1>2 DEF MailInv, TextInv, QueueFair
<1>4. SenderFindsFirst' /\ stored' \subseteq 1..Len(texts')
  BY <1>1 DEF MailInv, TextInv, SenderFindsFirst, Addressed, Content
<1> QED
  BY <1>3, <1>4 DEF MailInv, TextInv

LEMMA DieFair ==
  ASSUME MailInv, DeliveryInv', NEW u \in Users, Die(u), UNCHANGED Content
  PROVE  MailInv'
<1>1. QueueFair(<<>>)
  BY DEF QueueFair
<1> QED
  BY <1>1, QueueChangeFair DEF Die

LEMMA DisconnectFair ==
  ASSUME MailInv, DeliveryInv', NEW u \in Users, Disconnect(u)
  PROVE  MailInv'
<1> DEFINE q == [i \in DOMAIN puts[u] |-> [puts[u][i] EXCEPT !.reply = "none"]]
<1>1. puts' = [puts EXCEPT ![u] = q] /\ UNCHANGED Content
  BY DEF Disconnect, Content, serverVars
<1>2. /\ puts[u] \in Seq(SoundWrites(u))
      /\ QueueFair(puts[u])
  BY DEF MailInv, TextInv, DeliveryInv, PutsSound
<1>3. \A i \in DOMAIN puts[u] : puts[u][i] \in Write
  BY <1>2 DEF SoundWrites
<1>4. /\ DOMAIN q = DOMAIN puts[u]
      /\ \A i \in DOMAIN q : /\ q[i].reply = "none"
                             /\ q[i].node = puts[u][i].node /\ q[i].id = puts[u][i].id
  BY <1>3 DEF Write
<1>5. DOMAIN puts[u] = 1..Len(puts[u]) /\ Len(puts[u]) \in Nat
  BY <1>2
<1> HIDE DEF q
<1>6. QueueFair(q)
  BY <1>2, <1>4, <1>5 DEF QueueFair
<1> QED
  BY <1>1, <1>6, QueueChangeFair

(* A queue stays fair when its head leaves, unless that is a sender's key  *)
(* that was not applied.                                                   *)
LEMMA TailFair ==
  ASSUME NEW S, NEW q \in Seq(S), q # <<>>, QueueFair(q),
         Head(q).node = "own" => Filed(Head(q).id)
  PROVE  QueueFair(Tail(q))
<1> DEFINE t == Tail(q)
<1>1. /\ t \in Seq(S) /\ Len(t) = Len(q) - 1 /\ Len(q) \in Nat
      /\ DOMAIN t = 1..(Len(q) - 1) /\ DOMAIN q = 1..Len(q)
      /\ \A i \in 1..(Len(q) - 1) : t[i] = q[i + 1]
      /\ Head(q) = q[1]
  OBVIOUS
<1> HIDE DEF t
<1>2. \A i \in DOMAIN t : i + 1 \in DOMAIN q /\ t[i] = q[i + 1]
  BY <1>1
<1>3. /\ \A i \in DOMAIN t : t[i].reply # "denied"
      /\ \A i \in DOMAIN t : t[i].node = "own" /\ t[i].reply = "ok" => Filed(t[i].id)
  BY <1>2 DEF QueueFair
<1>4. ASSUME NEW i \in DOMAIN t, t[i].node = "partner", ~Filed(t[i].id)
      PROVE  \E j \in 1..(i - 1) : t[j].node = "own" /\ t[j].id = t[i].id
  <2>1. q[i + 1].node = "partner" /\ ~Filed(q[i + 1].id) /\ i \in Nat
    BY <1>1, <1>2, <1>4
  <2>2. PICK j \in 1..i : q[j].node = "own" /\ q[j].id = q[i + 1].id
    BY <1>2, <2>1 DEF QueueFair
  <2>3. j # 1
    BY <1>1, <2>1, <2>2
  <2>4. j - 1 \in 1..(i - 1) /\ j - 1 \in DOMAIN t /\ (j - 1) + 1 = j
    BY <1>1, <2>1, <2>2, <2>3
  <2>5. t[j - 1] = q[j]
    BY <1>2, <2>4
  <2> QED
    BY <1>2, <2>2, <2>4, <2>5
<1>5. QueueFair(t)
  BY <1>3, <1>4 DEF QueueFair
<1> QED
  BY <1>5 DEF t

(* The sender's key followed by the recipient's.                           *)
LEMMA KeysFair ==
  ASSUME NEW S, NEW q \in Seq(S), QueueFair(q), NEW id
  PROVE  QueueFair(q \o <<Put(id, "own"), Put(id, "partner")>>)
<1> DEFINE n == Len(q)
           a == Put(id, "own")
           b == Put(id, "partner")
           r == q \o <<a, b>>
<1>1. /\ a.node = "own" /\ a.id = id /\ a.reply = "none"
      /\ b.node = "partner" /\ b.id = id /\ b.reply = "none"
  BY DEF Put
<1> HIDE DEF a, b
<1>2. /\ n \in Nat /\ DOMAIN q = 1..n /\ DOMAIN r = 1..(n + 2)
      /\ \A i \in 1..n : r[i] = q[i]
      /\ r[n + 1] = a /\ r[n + 2] = b
  OBVIOUS
<1> HIDE DEF r, n
<1>3. \A i \in DOMAIN r : (i \in DOMAIN q /\ r[i] = q[i]) \/ i = n + 1 \/ i = n + 2
  BY <1>2
<1>4. /\ \A i \in DOMAIN r : r[i].reply # "denied"
      /\ \A i \in DOMAIN r : r[i].node = "own" /\ r[i].reply = "ok" => Filed(r[i].id)
  BY <1>1, <1>2, <1>3 DEF QueueFair
<1>5. ASSUME NEW i \in DOMAIN r, r[i].node = "partner", ~Filed(r[i].id)
      PROVE  \E j \in 1..(i - 1) : r[j].node = "own" /\ r[j].id = r[i].id
  <2>1. CASE i \in DOMAIN q
    <3>1. q[i] = r[i]
      BY <1>2, <2>1
    <3>2. PICK j \in 1..(i - 1) : q[j].node = "own" /\ q[j].id = q[i].id
      BY <1>5, <2>1, <3>1 DEF QueueFair
    <3>3. r[j] = q[j]
      BY <1>2, <2>1, <3>2
    <3> QED
      BY <3>1, <3>2, <3>3
  <2>2. CASE i = n + 2
    <3>1. n + 1 \in 1..(i - 1)
      BY <1>2, <2>2
    <3> QED
      BY <1>1, <1>2, <2>2, <3>1
  <2> QED
    BY <1>1, <1>2, <1>3, <1>5, <2>1, <2>2
<1>6. QueueFair(r)
  BY <1>4, <1>5 DEF QueueFair
<1> QED
  BY <1>6 DEF r, a, b

LEMMA FileKeyFair ==
  ASSUME MailInv, DeliveryInv', NEW u \in Users, FileKey(u)
  PROVE  MailInv'
<1> DEFINE h == Head(puts[u])
           keys == IF h.reply = "ok" THEN <<Put(h.id, "own"), Put(h.id, "partner")>> ELSE <<>>
           t == Tail(puts[u])
<1>1. /\ puts' = [puts EXCEPT ![u] = t \o keys] /\ UNCHANGED Content
      /\ puts[u] # <<>> /\ h.node = "mess"
      /\ puts[u] \in Seq(SoundWrites(u)) /\ QueueFair(puts[u])
  BY DEF FileKey, Acked, MailInv, TextInv, DeliveryInv, TypeOK, PutsSound, Content, serverVars
<1>2. t \in Seq(SoundWrites(u)) /\ QueueFair(t)
  BY <1>1, TailFair, HeadTailProperties
<1>3. QueueFair(t \o keys)
  <2>1. CASE h.reply = "ok"
    BY <1>2, <2>1, KeysFair
  <2>2. CASE h.reply # "ok"
    BY <1>2, <2>2, ConcatEmptySeq
  <2> QED
    BY <2>1, <2>2
<1> QED
  BY <1>1, <1>3, QueueChangeFair

LEMMA AckKeyFair ==
  ASSUME MailInv, DeliveryInv', NEW u \in Users, AckKey(u) \/ RevertKey(u)
  PROVE  MailInv'
<1>1. /\ puts' = [puts EXCEPT ![u] = Tail(@)] /\ UNCHANGED Content
      /\ puts[u] # <<>> /\ Head(puts[u]).reply # "none"
      /\ puts[u] \in Seq(SoundWrites(u)) /\ QueueFair(puts[u])
  BY DEF AckKey, RevertKey, Acked, MailInv, TextInv, DeliveryInv, TypeOK, PutsSound, Content, serverVars
<1>2. Head(puts[u]) = puts[u][1] /\ 1 \in DOMAIN puts[u] /\ puts[u][1] \in SoundWrites(u)
  BY <1>1
<1>3. puts[u][1].reply = "ok"
  BY <1>1, <1>2 DEF QueueFair, SoundWrites, Write
<1>4. QueueFair(Tail(puts[u]))
  BY <1>1, <1>2, <1>3, TailFair DEF QueueFair
<1> QED
  BY <1>1, <1>4, QueueChangeFair

----------------------------------------------------------------------------
(* Where messages stand.                                                   *)

LEMMA Sides ==
  ASSUME TypeOK, NEW id \in Addressed
  PROVE  /\ id \in Ids /\ id \in 1..Len(texts)
         /\ texts[id].from \in Users /\ texts[id].to \in Users
<1>1. texts \in Seq(Text) /\ Len(texts) <= MaxMessages /\ id \in DOMAIN texts
  BY DEF TypeOK, Addressed
<1>2. DOMAIN texts = 1..Len(texts) /\ texts[id] \in Text
  BY <1>1
<1> QED
  BY <1>1, <1>2, BoundAssumption DEF Text, Addressed, Ids

LEMMA OneMoves ==
  ASSUME NEW id \in Ids, NEW from, NEW to, Stage(id) = from, Stage(id)' = to,
         \A x \in Ids \ {id} : Stage(x)' = Stage(x)
  PROVE  M!Move(id, from, to)
BY DEF M!Move, stage

LEMMA QuietStutters ==
  ASSUME UNCHANGED Content
  PROVE  UNCHANGED M!vars
BY DEF M!vars, stage, own, Stage, Addressed, Filed, Delivered, Content

----------------------------------------------------------------------------
(* Send.                                                                   *)

LEMMA AppendFair ==
  ASSUME NEW S, NEW q \in Seq(S), QueueFair(q), NEW id
  PROVE  QueueFair(Append(q, Put(id, "mess")))
<1> DEFINE n == Len(q)
           w == Put(id, "mess")
           r == Append(q, w)
<1>1. w.node = "mess" /\ w.reply = "none"
  BY DEF Put
<1> HIDE DEF w
<1>2. /\ n \in Nat /\ DOMAIN q = 1..n /\ DOMAIN r = 1..(n + 1)
      /\ \A i \in 1..n : r[i] = q[i]
      /\ r[n + 1] = w
  OBVIOUS
<1> HIDE DEF r, n
<1>3. \A i \in DOMAIN r : (i \in DOMAIN q /\ r[i] = q[i]) \/ i = n + 1
  BY <1>2
<1>4. /\ \A i \in DOMAIN r : r[i].reply # "denied"
      /\ \A i \in DOMAIN r : r[i].node = "own" /\ r[i].reply = "ok" => Filed(r[i].id)
  BY <1>1, <1>2, <1>3 DEF QueueFair
<1>5. ASSUME NEW i \in DOMAIN r, r[i].node = "partner", ~Filed(r[i].id)
      PROVE  \E j \in 1..(i - 1) : r[j].node = "own" /\ r[j].id = r[i].id
  <2>1. i \in DOMAIN q /\ r[i] = q[i]
    BY <1>1, <1>2, <1>3, <1>5
  <2>2. PICK j \in 1..(i - 1) : q[j].node = "own" /\ q[j].id = q[i].id
    BY <1>5, <2>1 DEF QueueFair
  <2>3. r[j] = q[j]
    BY <1>2, <2>1, <2>2
  <2> QED
    BY <2>1, <2>2, <2>3
<1>6. QueueFair(r)
  BY <1>4, <1>5 DEF QueueFair
<1> QED
  BY <1>6 DEF r, w

(* A queue stays fair while no key is taken off a list.                    *)
LEMMA FairStays ==
  ASSUME NEW q, QueueFair(q),
         \A i \in DOMAIN q : q[i].node # "mess" /\ Filed(q[i].id) => Filed(q[i].id)'
  PROVE  QueueFair(q)'
BY DEF QueueFair

(* The changes of a send, with its key as a constant.                      *)
LEMMA SendChanges ==
  ASSUME TextInv, NEW u \in Users, Send(u), NEW id, id = Len(texts) + 1
  PROVE  /\ id \in Ids /\ id \notin DOMAIN texts /\ id \notin stored
         /\ \E t \in Text : texts' = Append(texts, t) /\ texts'[id] = t
         /\ DOMAIN texts' = DOMAIN texts \cup {id} /\ Len(texts') = id
         /\ DOMAIN texts = 1..Len(texts) /\ DOMAIN texts' = 1..Len(texts')
         /\ \A x \in DOMAIN texts : texts'[x] = texts[x] /\ texts[x] \in Text
         /\ UNCHANGED <<stored, listed>>
         /\ puts' = [puts EXCEPT ![u] = Append(@, Put(id, "mess"))]
         /\ stored \subseteq DOMAIN texts
<1> DEFINE t == [from |-> u, to |-> partner[u]]
<1>0. /\ texts \in Seq(Text) /\ partner \in [Users -> Users \cup {Nobody}]
      /\ stored \subseteq 1..Len(texts)
  BY DEF TextInv, DeliveryInv, TypeOK
<1>1. /\ texts \in Seq(Text) /\ t \in Text /\ id \in Ids /\ Len(texts) \in Nat
      /\ texts' = Append(texts, t) /\ UNCHANGED <<stored, listed>>
      /\ puts' = [puts EXCEPT ![u] = Append(@, Put(id, "mess"))]
      /\ stored \subseteq 1..Len(texts)
  BY <1>0, BoundAssumption DEF Send, Text, Ids, serverVars
<1> HIDE DEF t
<1>2. /\ DOMAIN texts = 1..Len(texts) /\ DOMAIN texts' = 1..id /\ Len(texts') = id
      /\ \A x \in 1..Len(texts) : texts'[x] = texts[x] /\ texts[x] \in Text
      /\ texts'[id] = t /\ id \notin 1..Len(texts)
  BY <1>1
<1>3. 1..id = 1..Len(texts) \cup {id}
  BY <1>1
<1> QED
  BY <1>1, <1>2, <1>3

(* The other messages stand where they stood, the new one is on no list.   *)
LEMMA SendSparesOthers ==
  ASSUME TextInv, NEW u \in Users, Send(u), NEW id, id = Len(texts) + 1
  PROVE  /\ \A x \in DOMAIN texts : /\ Filed(x)' = Filed(x) /\ Delivered(x)' = Delivered(x)
                                    /\ (x \in Addressed)' = (x \in Addressed)
         /\ (id \in Addressed)' => ~Filed(id)' /\ ~Delivered(id)'
<1>1. /\ \A x \in DOMAIN texts : texts'[x] = texts[x] /\ x \in DOMAIN texts'
      /\ UNCHANGED <<stored, listed>> /\ id \notin stored
  BY SendChanges
<1>2. PICK t \in Text : texts'[id] = t
  BY SendChanges
<1>3. \A x \in DOMAIN texts : /\ Filed(x)' = Filed(x) /\ Delivered(x)' = Delivered(x)
                              /\ (x \in Addressed)' = (x \in Addressed)
  BY <1>1 DEF Filed, Delivered, Addressed
<1>4. ASSUME (id \in Addressed)' PROVE ~Filed(id)' /\ ~Delivered(id)'
  <2>1. t.from \in Users /\ t.to \in Users
    BY <1>2, <1>4 DEF Addressed, Text
  <2>2. id \notin listed[t.from][t.to] /\ id \notin listed[t.to][t.from]
    BY <1>1, <2>1 DEF TextInv, DeliveryInv, ListsSound
  <2> QED
    BY <1>1, <1>2, <2>2 DEF Filed, Delivered
<1> QED
  BY <1>3, <1>4

LEMMA SendFair ==
  ASSUME MailInv, DeliveryInv', NEW u \in Users, Send(u)
  PROVE  MailInv'
<1> TextInv
  BY DEF MailInv
<1>1. PICK id : id = Len(texts) + 1
  OBVIOUS
<1>2. \A v \in Users : QueueFair(puts[v])'
  <2> SUFFICES ASSUME NEW v \in Users PROVE QueueFair(puts[v])'
    OBVIOUS
  <2>1. PICK q : q = puts[v]
    OBVIOUS
  <2>2. q \in Seq(SoundWrites(v)) /\ QueueFair(q) /\ puts \in [Users -> Seq(Write)]
    BY <2>1 DEF MailInv, TextInv, DeliveryInv, PutsSound, TypeOK
  <2>3. \A i \in DOMAIN q : q[i].id \in DOMAIN texts
    <3>1. \A w \in SoundWrites(v) : w.id \in 1..Len(texts)
      BY DEF SoundWrites, Write, Ids, MailInv, TextInv, DeliveryInv, TypeOK
    <3> QED
      BY <1>1, <2>2, <3>1, SendChanges
  <2>4. PICK r : r = puts'[v]
    OBVIOUS
  <2>5. r = q \/ r = Append(q, Put(id, "mess"))
    <3>1. puts' = [puts EXCEPT ![u] = Append(@, Put(id, "mess"))]
      BY <1>1, SendChanges
    <3> QED
      BY <2>1, <2>2, <2>4, <3>1
  <2>6. QueueFair(r)
    BY <2>2, <2>5, AppendFair
  <2>7. \A i \in DOMAIN r : r[i].node # "mess" => r[i].id \in DOMAIN texts
    <3>1. CASE r = Append(q, Put(id, "mess"))
      <4>1. /\ DOMAIN q = 1..Len(q) /\ Len(q) \in Nat /\ DOMAIN r = 1..(Len(q) + 1)
            /\ \A i \in DOMAIN q : r[i] = q[i]
            /\ r[Len(q) + 1] = Put(id, "mess")
        BY <2>2, <3>1
      <4>2. \A i \in DOMAIN r : i \in DOMAIN q \/ i = Len(q) + 1
        BY <4>1
      <4>3. Put(id, "mess").node = "mess"
        BY DEF Put
      <4> QED
        BY <2>3, <4>1, <4>2, <4>3
    <3> QED
      BY <2>3, <2>5, <3>1
  <2>8. \A i \in DOMAIN r : r[i].node # "mess" /\ Filed(r[i].id) => Filed(r[i].id)'
    BY <1>1, <2>7, SendSparesOthers
  <2>9. QueueFair(r)'
    BY <2>6, <2>8, FairStays
  <2> QED
    BY <2>4, <2>9 DEF QueueFair
<1>3. SenderFindsFirst'
  <2> SUFFICES ASSUME NEW x, (x \in Addressed)', Delivered(x)' PROVE Filed(x)'
    BY DEF SenderFindsFirst
  <2>1. x \in DOMAIN texts \/ x = id
    <3>1. DOMAIN texts' = DOMAIN texts \cup {id}
      BY <1>1, SendChanges
    <3> QED
      BY <3>1 DEF Addressed
  <2>2. CASE x = id
    BY <1>1, <2>2, SendSparesOthers
  <2>3. CASE x \in DOMAIN texts
    <3>1. x \in Addressed /\ Delivered(x)
      BY <1>1, <2>3, SendSparesOthers
    <3>2. Filed(x)
      BY <3>1 DEF MailInv, TextInv, SenderFindsFirst
    <3> QED
      BY <1>1, <2>3, <3>2, SendSparesOthers
  <2> QED
    BY <2>1, <2>2, <2>3
<1>4. stored' \subseteq 1..Len(texts')
  BY <1>1, SendChanges
<1> QED
  BY <1>2, <1>3, <1>4 DEF MailInv, TextInv

(* A new text moves from unsent to sent and touches no other.              *)
LEMMA SendMoves ==
  ASSUME TextInv, NEW u \in Users, Send(u)
  PROVE  M!Next
<1>1. PICK id : id = Len(texts) + 1
  OBVIOUS
<1>2. /\ id \in Ids /\ id \notin DOMAIN texts /\ id \notin stored
      /\ id \in DOMAIN texts' /\ stored' = stored
  BY <1>1, SendChanges
<1>3. Stage(id) = "unsent"
  BY <1>2 DEF Stage, Addressed
<1>4. Stage(id)' = "sent"
  <2>1. (id \in Addressed)' => ~Filed(id)' /\ ~Delivered(id)'
    BY <1>1, SendSparesOthers
  <2> QED
    BY <1>2, <2>1 DEF Stage
<1>5. \A x \in Ids \ {id} : Stage(x)' = Stage(x)
  <2> SUFFICES ASSUME NEW x \in Ids, x # id PROVE Stage(x)' = Stage(x)
    OBVIOUS
  <2>1. CASE x \in DOMAIN texts
    <3>1. /\ Filed(x)' = Filed(x) /\ Delivered(x)' = Delivered(x)
          /\ (x \in Addressed)' = (x \in Addressed)
      BY <1>1, <2>1, SendSparesOthers
    <3>2. x \in DOMAIN texts'
      BY <1>1, <2>1, SendChanges
    <3> QED
      BY <1>2, <2>1, <3>1, <3>2 DEF Stage
  <2>2. CASE x \notin DOMAIN texts
    <3>1. x \notin DOMAIN texts' /\ x \notin stored
      BY <1>1, <2>2, SendChanges
    <3> QED
      BY <1>2, <2>2, <3>1 DEF Stage, Addressed
  <2> QED
    BY <2>1, <2>2
<1>6. own' \in {own, own \cup {id}}
  <2>1. /\ DOMAIN texts' = DOMAIN texts \cup {id} /\ id \notin DOMAIN texts
        /\ \A x \in DOMAIN texts : texts'[x] = texts[x]
    BY <1>1, SendChanges
  <2>2. own' = own \cup (IF texts'[id].from = texts'[id].to THEN {id} ELSE {})
    BY <2>1 DEF own
  <2> QED
    BY <2>2
<1>7. M!Move(id, "unsent", "sent")
  BY <1>2, <1>3, <1>4, <1>5, OneMoves
<1>8. M!Send(id)
  BY <1>6, <1>7 DEF M!Send
<1> QED
  BY <1>2, <1>8 DEF M!Next

----------------------------------------------------------------------------
(* The server.                                                             *)

(* What is applied belongs to a text of u.                                 *)
LEMMA AppliedWrite ==
  ASSUME TextInv, NEW u \in Users, NEW i \in DOMAIN puts[u], ServerApplies(u, i),
         NEW w, w = puts[u][i]
  PROVE  /\ w \in SoundWrites(u) /\ w \in Write /\ w.id \in 1..Len(texts)
         /\ w.id \in Ids /\ w.id \in DOMAIN texts /\ texts' = texts
         /\ w.node = "mess" => stored' = stored \cup {w.id} /\ listed' = listed
         /\ w.node # "mess" => stored' = stored
<1>1. puts[u] \in Seq(SoundWrites(u)) /\ texts \in Seq(Text)
  BY DEF TextInv, DeliveryInv, PutsSound, TypeOK
<1>2. w \in SoundWrites(u)
  BY <1>1
<1>3. w \in Write /\ w.id \in 1..Len(texts) /\ w.id \in Ids
  BY <1>1, <1>2 DEF SoundWrites, Write, Ids
<1>4. w.id \in DOMAIN texts
  BY <1>1, <1>3
<1> QED
  BY <1>2, <1>3, <1>4 DEF ServerApplies

(* A key lands on one list and touches no other message.                   *)
LEMMA KeyLands ==
  ASSUME TextInv, NEW u \in Users, NEW i \in DOMAIN puts[u], ServerApplies(u, i),
         NEW w, w = puts[u][i], w.node # "mess", NEW id, id = w.id
  PROVE  /\ id \in Addressed /\ id \in stored
         /\ \A x \in Addressed : x # id => (Filed(x)' <=> Filed(x)) /\ (Delivered(x)' <=> Delivered(x))
         /\ w.node = "own" =>
              /\ Filed(id)'
              /\ (Delivered(id)' <=> Delivered(id) \/ texts[id].from = texts[id].to)
              /\ Filed(id) => listed' = listed
         /\ w.node = "partner" =>
              /\ Delivered(id)'
              /\ (Filed(id)' <=> Filed(id) \/ texts[id].from = texts[id].to)
              /\ Delivered(id) => listed' = listed
<1>1. w \in SoundWrites(u) /\ id \in DOMAIN texts /\ texts' = texts /\ w.node \in {"own", "partner"}
  BY AppliedWrite DEF Write
<1>2. id \in Addressed /\ id \in stored
  BY <1>1, PartnerAssumption DEF SoundWrites, Addressed
<1>3. PICK a, b \in Users : a = texts[id].from /\ b = texts[id].to
  BY <1>2, Sides DEF TextInv, DeliveryInv
<1>4. PICK v, p \in Users : /\ Path(w) = <<v, p>>
                            /\ w.node = "own" => v = a /\ p = b
                            /\ w.node # "own" => v = b /\ p = a
  BY <1>3 DEF Path
<1>5. listed' = [listed EXCEPT ![v][p] = @ \cup {id}]
  BY <1>4 DEF ServerApplies
<1>6. listed \in [Users -> [Users -> SUBSET Ids]]
  BY DEF TextInv, DeliveryInv, TypeOK
<1>7. \A x, y \in Users : listed'[x][y] = IF x = v /\ y = p THEN listed[x][y] \cup {id}
                                          ELSE listed[x][y]
  BY <1>5, <1>6
<1>8. /\ id \in listed'[v][p]
      /\ id \in listed'[p][v] <=> id \in listed[p][v] \/ p = v
  <2>1. listed'[v][p] = listed[v][p] \cup {id}
    BY <1>4, <1>7
  <2>2. p # v => listed'[p][v] = listed[p][v]
    BY <1>4, <1>7
  <2> QED
    BY <2>1, <2>2
<1>9. ASSUME NEW x \in Addressed, x # id
      PROVE  (Filed(x)' <=> Filed(x)) /\ (Delivered(x)' <=> Delivered(x))
  <2>1. texts[x].from \in Users /\ texts[x].to \in Users
    BY Sides DEF TextInv, DeliveryInv
  <2>2. \A y, z \in Users : x \in listed'[y][z] <=> x \in listed[y][z]
    <3> SUFFICES ASSUME NEW y \in Users, NEW z \in Users
                 PROVE  x \in listed'[y][z] <=> x \in listed[y][z]
      OBVIOUS
    <3>1. x # id
      BY <1>9
    <3>2. CASE y = v /\ z = p
      <4>1. listed'[y][z] = listed[y][z] \cup {id}
        BY <1>7, <3>2
      <4> QED
        BY <3>1, <4>1
    <3>3. CASE ~(y = v /\ z = p)
      <4>1. listed'[y][z] = listed[y][z]
        BY <1>7, <3>3
      <4> QED
        BY <4>1
    <3> QED
      BY <3>2, <3>3
  <2> QED
    BY <1>1, <2>1, <2>2 DEF Filed, Delivered
<1>10. id \in listed[v][p] => listed' = listed
  BY <1>5, <1>6
<1>11. /\ (Filed(id) <=> id \in listed[a][b]) /\ (Filed(id)' <=> id \in listed'[a][b])
       /\ (Delivered(id) <=> id \in listed[b][a]) /\ (Delivered(id)' <=> id \in listed'[b][a])
  BY <1>1, <1>3 DEF Filed, Delivered
<1>12. CASE w.node = "own"
  <2>1. v = a /\ p = b
    BY <1>4, <1>12
  <2>2. id \in listed'[a][b] /\ (id \in listed'[b][a] <=> id \in listed[b][a] \/ a = b)
    BY <1>8, <2>1
  <2> QED
    BY <1>2, <1>3, <1>9, <1>10, <1>11, <1>12, <2>1, <2>2
<1>13. CASE w.node = "partner"
  <2>1. v = b /\ p = a
    BY <1>4, <1>13
  <2>2. id \in listed'[b][a] /\ (id \in listed'[a][b] <=> id \in listed[a][b] \/ a = b)
    BY <1>8, <2>1
  <2> QED
    BY <1>2, <1>3, <1>9, <1>10, <1>11, <1>13, <2>1, <2>2
<1> QED
  BY <1>1, <1>12, <1>13

(* The recipient's key is applied after the sender's, which was not        *)
(* refused.                                                                *)
LEMMA SenderIsFirst ==
  ASSUME MailInv, NEW u \in Users, NEW i \in DOMAIN puts[u], NextPut(u, i),
         puts[u][i].node = "partner"
  PROVE  Filed(puts[u][i].id)
<1>1. PICK q : q = puts[u]
  OBVIOUS
<1>2. q \in Seq(SoundWrites(u)) /\ QueueFair(q)
  BY <1>1 DEF MailInv, TextInv, DeliveryInv, PutsSound
<1>3. ASSUME NEW j \in 1..(i - 1), q[j].node = "own", q[j].id = q[i].id
      PROVE  Filed(q[i].id)
  <2>1. j \in DOMAIN q
    BY <1>1, <1>2, <1>3
  <2>2. q[j] \in SoundWrites(u)
    BY <1>2, <2>1
  <2>3. q[j].reply # "none" /\ q[j].reply # "denied" /\ q[j].reply \in {"none", "ok", "denied"}
    BY <1>1, <1>2, <1>3, <2>1, <2>2 DEF NextPut, QueueFair, SoundWrites, Write
  <2> QED
    BY <1>2, <1>3, <2>1, <2>3 DEF QueueFair
<1> QED
  BY <1>1, <1>2, <1>3 DEF QueueFair

LEMMA AppliesFair ==
  ASSUME MailInv, DeliveryInv', NEW u \in Users, NEW i \in DOMAIN puts[u], ServerApplies(u, i)
  PROVE  MailInv'
<1> TextInv
  BY DEF MailInv
<1>1. PICK w, id : w = puts[u][i] /\ id = w.id
  OBVIOUS
<1>2. \A x \in Addressed : Filed(x) => Filed(x)'
  <2>1. CASE w.node = "mess"
    BY <1>1, <2>1, AppliedWrite DEF Filed
  <2>2. CASE w.node # "mess"
    <3>1. w.node \in {"own", "partner"}
      BY <1>1, <2>2, AppliedWrite DEF Write
    <3> QED
      BY <1>1, <2>2, <3>1, KeyLands
  <2> QED
    BY <2>1, <2>2
<1>3. w.node = "own" => Filed(id)'
  BY <1>1, KeyLands
<1>4. \A v \in Users : QueueFair(puts[v])'
  <2> SUFFICES ASSUME NEW v \in Users PROVE QueueFair(puts[v])'
    OBVIOUS
  <2>1. PICK q, r : q = puts[v] /\ r = puts'[v]
    OBVIOUS
  <2>2. q \in Seq(SoundWrites(v)) /\ QueueFair(q) /\ puts \in [Users -> Seq(Write)]
    BY <2>1 DEF MailInv, TextInv, DeliveryInv, PutsSound, TypeOK
  <2>3. \A j \in DOMAIN q : q[j].node # "mess" => q[j].id \in Addressed
    <3>0. texts \in Seq(Text)
      BY DEF MailInv, TextInv, DeliveryInv, TypeOK
    <3>1. \A x \in SoundWrites(v) : x.node # "mess" => x.id \in Addressed
      BY <3>0, PartnerAssumption DEF SoundWrites, Write, Ids, Addressed
    <3> QED
      BY <2>2, <3>1
  <2>4. QueueFair(q)'
    BY <1>2, <2>2, <2>3, FairStays
  <2>5. \/ r = q
        \/ /\ v = u /\ i \in DOMAIN q /\ w = q[i]
           /\ r = [q EXCEPT ![i] = [w EXCEPT !.reply = "ok"]]
    BY <1>1, <2>1, <2>2 DEF ServerApplies
  <2>6. CASE v = u /\ i \in DOMAIN q /\ w = q[i] /\ r = [q EXCEPT ![i] = [w EXCEPT !.reply = "ok"]]
    <3>1. \A j \in DOMAIN q : q[j] \in Write
      BY <2>2 DEF SoundWrites
    <3>2. /\ DOMAIN r = DOMAIN q /\ DOMAIN q = 1..Len(q) /\ Len(q) \in Nat
          /\ \A j \in DOMAIN q : /\ r[j].node = q[j].node /\ r[j].id = q[j].id
                                 /\ r[j].reply = IF j = i THEN "ok" ELSE q[j].reply
      BY <2>2, <2>6, <3>1 DEF Write
    <3>3. QueueFair(r)'
      <4>1. \A j \in DOMAIN r : r[j].reply # "denied"
        BY <2>2, <3>2 DEF QueueFair
      <4>2. ASSUME NEW j \in DOMAIN r, r[j].node = "own", r[j].reply = "ok"
            PROVE  Filed(r[j].id)'
        <5>1. CASE j = i
          BY <1>1, <1>3, <2>6, <3>2, <4>2, <5>1
        <5>2. CASE j # i
          BY <2>4, <3>2, <4>2, <5>2 DEF QueueFair
        <5> QED
          BY <5>1, <5>2
      <4>3. ASSUME NEW j \in DOMAIN r, r[j].node = "partner", ~Filed(r[j].id)'
            PROVE  \E k \in 1..(j - 1) : r[k].node = "own" /\ r[k].id = r[j].id
        <5>1. PICK k \in 1..(j - 1) : q[k].node = "own" /\ q[k].id = q[j].id
          BY <2>4, <3>2, <4>3 DEF QueueFair
        <5>2. k \in DOMAIN q
          BY <3>2, <5>1
        <5> QED
          BY <3>2, <5>1, <5>2
      <4> QED
        BY <4>1, <4>2, <4>3 DEF QueueFair
    <3> QED
      BY <2>1, <3>3 DEF QueueFair
  <2>7. CASE r = q
    BY <2>1, <2>4, <2>7 DEF QueueFair
  <2> QED
    BY <2>5, <2>6, <2>7
<1>5. Addressed' = Addressed
  BY <1>1, AppliedWrite DEF Addressed
<1>6. SenderFindsFirst'
  <2> SUFFICES ASSUME NEW x \in Addressed, Delivered(x)' PROVE Filed(x)'
    BY <1>5 DEF SenderFindsFirst
  <2>1. CASE Delivered(x)
    BY <1>2, <2>1 DEF MailInv, TextInv, SenderFindsFirst
  <2>2. CASE ~Delivered(x)
    <3>1. w.node # "mess"
      BY <1>1, <2>2, AppliedWrite DEF Delivered
    <3>2. x = id
      BY <1>1, <2>2, <3>1, KeyLands
    <3>3. w.node = "partner" => Filed(id)
      BY <1>1, SenderIsFirst DEF ServerApplies
    <3>4. w.node \in {"own", "partner"}
      BY <1>1, <3>1, AppliedWrite DEF Write
    <3> QED
      BY <1>2, <1>3, <3>2, <3>3, <3>4
  <2> QED
    BY <2>1, <2>2
<1>7. stored' \subseteq 1..Len(texts')
  BY <1>1, AppliedWrite DEF MailInv, TextInv
<1> QED
  BY <1>4, <1>6, <1>7 DEF MailInv, TextInv

(* Applying a write moves its message one stage on, or it was there.       *)
LEMMA AppliesMoves ==
  ASSUME RulesInv, NEW u \in Users, NEW i \in DOMAIN puts[u], ServerApplies(u, i)
  PROVE  M!Next \/ UNCHANGED M!vars
<1> TextInv
  BY DEF RulesInv
<1>1. PICK w, id : w = puts[u][i] /\ id = w.id
  OBVIOUS
<1>2. /\ id \in Ids /\ id \in DOMAIN texts /\ texts' = texts
      /\ w.node \in {"mess", "own", "partner"}
  BY <1>1, AppliedWrite DEF Write
<1>3. own' = own /\ Addressed' = Addressed
  BY <1>2 DEF own, Addressed
<1>4. CASE w.node = "mess" /\ id \notin stored
  <2>1. stored' = stored \cup {id} /\ listed' = listed
    BY <1>1, <1>4, AppliedWrite
  <2>2. \A x : Filed(x)' = Filed(x) /\ Delivered(x)' = Delivered(x)
    BY <1>2, <2>1 DEF Filed, Delivered
  <2>3. id \in Addressed => ~Filed(id) /\ ~Delivered(id)
    <3> SUFFICES ASSUME id \in Addressed PROVE ~Filed(id) /\ ~Delivered(id)
      OBVIOUS
    <3>1. texts[id].from \in Users /\ texts[id].to \in Users
      BY Sides DEF TextInv, DeliveryInv
    <3> QED
      BY <1>4, <3>1 DEF Filed, Delivered, TextInv, DeliveryInv, ListsSound
  <2>4. Stage(id) = "sent"
    BY <1>2, <1>4, <2>3 DEF Stage
  <2>5. Stage(id)' = "stored"
    BY <1>2, <1>3, <2>1, <2>2, <2>3 DEF Stage
  <2>6. \A x \in Ids \ {id} : Stage(x)' = Stage(x)
    BY <1>2, <1>3, <2>1, <2>2 DEF Stage
  <2>7. M!Move(id, "sent", "stored")
    BY <1>2, <2>4, <2>5, <2>6, OneMoves
  <2> QED
    BY <1>2, <1>3, <2>7 DEF M!Next, M!Store
<1>5. CASE w.node = "mess" /\ id \in stored
  <2>1. stored' = stored \cup {id} /\ listed' = listed
    BY <1>1, <1>5, AppliedWrite
  <2>2. stored' = stored
    BY <1>5, <2>1
  <2>3. UNCHANGED Content
    BY <1>2, <2>1, <2>2 DEF Content
  <2> QED
    BY <2>3, QuietStutters
<1>6. CASE w.node # "mess"
  <2>1. /\ id \in Addressed /\ id \in stored /\ stored' = stored
        /\ \A x \in Addressed : x # id => (Filed(x)' <=> Filed(x)) /\ (Delivered(x)' <=> Delivered(x))
    BY <1>1, <1>6, AppliedWrite, KeyLands
  <2>2. \A x \in Ids \ {id} : Stage(x)' = Stage(x)
    BY <1>2, <1>3, <2>1 DEF Stage
  <2>3. id \in own <=> texts[id].from = texts[id].to
    BY <1>2 DEF own
  <2>4. texts[id].from = texts[id].to => (Filed(id) <=> Delivered(id))
    BY DEF Filed, Delivered
  <2>5. CASE Stage(id)' = Stage(id)
    <3>1. \A x \in Ids : Stage(x)' = Stage(x)
      BY <2>2, <2>5
    <3> QED
      BY <1>3, <3>1 DEF M!vars, stage
  <2>6. CASE w.node = "own" /\ ~Filed(id)
    <3>1. Filed(id)' /\ (Delivered(id)' <=> Delivered(id) \/ id \in own)
      BY <1>1, <1>6, <2>3, <2>6, KeyLands
    <3>2. CASE Delivered(id)
      <4>1. Stage(id)' = Stage(id)
        BY <1>3, <2>1, <3>1, <3>2 DEF Stage
      <4> QED
        BY <2>5, <4>1
    <3>3. CASE ~Delivered(id) /\ id \in own
      <4>1. Stage(id) = "stored" /\ Stage(id)' = "delivered"
        BY <1>3, <2>1, <2>6, <3>1, <3>3 DEF Stage
      <4>2. M!Move(id, "stored", "delivered")
        BY <1>2, <2>2, <4>1, OneMoves
      <4> QED
        BY <1>2, <1>3, <3>3, <4>2 DEF M!Next, M!Deliver
    <3>4. CASE ~Delivered(id) /\ id \notin own
      <4>1. Stage(id) = "stored" /\ Stage(id)' = "filed"
        BY <1>3, <2>1, <2>6, <3>1, <3>4 DEF Stage
      <4>2. M!Move(id, "stored", "filed")
        BY <1>2, <2>2, <4>1, OneMoves
      <4> QED
        BY <1>2, <1>3, <4>2 DEF M!Next, M!File
    <3> QED
      BY <3>2, <3>3, <3>4
  <2>7. CASE w.node = "partner" /\ ~Delivered(id)
    <3>1. Delivered(id)' /\ Stage(id)' = "delivered"
      BY <1>1, <1>3, <1>6, <2>1, <2>7, KeyLands DEF Stage
    <3>2. CASE Filed(id)
      <4>1. id \notin own
        BY <2>3, <2>4, <2>7, <3>2
      <4>2. Stage(id) = "filed"
        BY <2>1, <2>7, <3>2 DEF Stage
      <4>3. M!Move(id, "filed", "delivered")
        BY <1>2, <2>2, <3>1, <4>2, OneMoves
      <4> QED
        BY <1>2, <1>3, <4>1, <4>3 DEF M!Next, M!Deliver
    <3>3. CASE ~Filed(id)
      <4>1. Denials
        <5> SUFFICES ASSUME ~Denials PROVE FALSE
          OBVIOUS
        <5>1. MailInv
          BY DEF RulesInv
        <5> QED
          BY <1>1, <2>7, <3>3, <5>1, SenderIsFirst DEF ServerApplies
      <4>2. Stage(id) = "stored"
        BY <2>1, <2>7, <3>3 DEF Stage
      <4>3. M!Move(id, "stored", "delivered")
        BY <1>2, <2>2, <3>1, <4>2, OneMoves
      <4> QED
        BY <1>2, <1>3, <4>1, <4>3 DEF M!Next, M!Deliver
    <3> QED
      BY <3>2, <3>3
  <2>8. CASE (w.node = "own" /\ Filed(id)) \/ (w.node = "partner" /\ Delivered(id))
    <3>1. listed' = listed
      BY <1>1, <1>6, <2>8, KeyLands
    <3>2. texts' = texts /\ stored' = stored
      BY <1>2, <2>1
    <3>3. UNCHANGED Content
      BY <3>1, <3>2 DEF Content
    <3> QED
      BY <3>3, QuietStutters
  <2> QED
    BY <1>2, <1>6, <2>6, <2>7, <2>8
<1> QED
  BY <1>4, <1>5, <1>6

----------------------------------------------------------------------------
(* No answer is a refusal, so what is answered is on its list.             *)
LEMMA StepFair ==
  ASSUME ~Denials, MailInv, [Next]_vars
  PROVE  MailInv'
<1>0. DeliveryInv'
  BY StepKeeps DEF MailInv, TextInv
<1>1. CASE UNCHANGED vars
  <2>1. UNCHANGED Content /\ UNCHANGED puts
    BY <1>1 DEF vars, serverVars, Content
  <2> QED
    BY <1>0, <2>1, QuietFair
<1>2. ASSUME NEW u \in Users,
             \/ Kill(u) \/ NoPartnerArrives(u) \/ Relaunch(u) \/ Disconnect(u) \/ Reconnect(u)
             \/ CloseChat(u) \/ \E p \in Users : PartnerArrives(u, p) \/ ChooseUser(u, p)
             \/ Send(u) \/ Server(u) \/ Completion(u) \/ Reading(u)
      PROVE  MailInv'
  <2>1. CASE \/ Relaunch(u) \/ Reconnect(u) \/ CloseChat(u)
             \/ \E p \in Users : PartnerArrives(u, p) \/ ChooseUser(u, p)
             \/ \E p : PartnerAdded(u, p)
             \/ \E e, n : KeyAdded(u, e, n)
             \/ \E a : ValueArrives(u, a)
    <3>1. UNCHANGED Content /\ UNCHANGED puts
      BY <2>1 DEF Relaunch, Reconnect, CloseChat, PartnerArrives, ChooseUser,
                  PartnerAdded, KeyAdded, ValueArrives, serverVars, Content
    <3> QED
      BY <1>0, <3>1, QuietFair
  <2>2. CASE Kill(u) \/ NoPartnerArrives(u) \/ FileKeyForNobody(u) \/ \E a : NoValueArrives(u, a)
    <3>1. Die(u) /\ UNCHANGED Content
      BY <2>2 DEF Kill, NoPartnerArrives, FileKeyForNobody, NoValueArrives, serverVars, Content
    <3> QED
      BY <1>0, <3>1, DieFair
  <2>3. CASE Disconnect(u)
    BY <1>0, <2>3, DisconnectFair
  <2>4. CASE Send(u)
    BY <1>0, <2>4, SendFair
  <2>5. CASE Server(u)
    <3>1. PICK i \in DOMAIN puts[u] : ServerApplies(u, i)
      BY <2>5 DEF Server, ServerDenies
    <3> QED
      BY <1>0, <3>1, AppliesFair
  <2>6. CASE FileKey(u) \/ AckKey(u) \/ RevertKey(u)
    BY <1>0, <2>6, FileKeyFair, AckKeyFair
  <2> QED
    BY <1>2, <2>1, <2>2, <2>3, <2>4, <2>5, <2>6 DEF Completion, Reading
<1> QED
  BY <1>1, <1>2 DEF Next

(* Only a send and an applied write change where messages stand.           *)
LEMMA StepQuiet ==
  ASSUME [Next]_vars
  PROVE  \/ UNCHANGED Content
         \/ \E u \in Users : Send(u) \/ \E i \in DOMAIN puts[u] : ServerApplies(u, i)
<1>1. ASSUME NEW u \in Users,
             \/ Kill(u) \/ NoPartnerArrives(u) \/ Relaunch(u) \/ Disconnect(u) \/ Reconnect(u)
             \/ CloseChat(u) \/ \E p \in Users : PartnerArrives(u, p) \/ ChooseUser(u, p)
             \/ Server(u) \/ Completion(u) \/ Reading(u)
      PROVE  UNCHANGED Content \/ \E i \in DOMAIN puts[u] : ServerApplies(u, i)
  <2>1. CASE \/ Kill(u) \/ NoPartnerArrives(u) \/ Relaunch(u) \/ Disconnect(u) \/ Reconnect(u)
             \/ CloseChat(u) \/ \E p \in Users : PartnerArrives(u, p) \/ ChooseUser(u, p)
    BY <2>1 DEF Kill, NoPartnerArrives, Relaunch, Disconnect, Reconnect, CloseChat, PartnerArrives, ChooseUser,
                serverVars, Content
  <2>2. CASE Server(u)
    BY <2>2 DEF Server, ServerDenies, serverVars, Content
  <2>3. CASE Completion(u) \/ Reading(u)
    BY <2>3 DEF Completion, FileKey, FileKeyForNobody, AckKey, RevertKey, Reading,
                PartnerAdded, KeyAdded, ValueArrives, NoValueArrives, serverVars, Content
  <2> QED
    BY <1>1, <2>1, <2>2, <2>3
<1>2. CASE UNCHANGED vars
  BY <1>2 DEF vars, serverVars, Content
<1> QED
  BY <1>1, <1>2 DEF Next

LEMMA StepImplements ==
  ASSUME RulesInv, [Next]_vars
  PROVE  RulesInv' /\ [M!Next]_M!vars
<1> TextInv
  BY DEF RulesInv
<1>0. DeliveryInv'
  BY StepKeeps DEF TextInv
<1>1. ~Denials => MailInv'
  BY StepFair DEF RulesInv
<1>2. stored' \subseteq 1..Len(texts') /\ [M!Next]_M!vars
  <2>1. CASE UNCHANGED Content
    BY <2>1, QuietStutters DEF TextInv, Content
  <2>2. ASSUME NEW u \in Users, Send(u)
        PROVE  stored' \subseteq 1..Len(texts') /\ M!Next
    <3>1. stored' \subseteq 1..Len(texts')
      BY <2>2, SendChanges
    <3> QED
      BY <2>2, <3>1, SendMoves
  <2>3. ASSUME NEW u \in Users, NEW i \in DOMAIN puts[u], ServerApplies(u, i)
        PROVE  stored' \subseteq 1..Len(texts') /\ [M!Next]_M!vars
    <3>1. PICK w : w = puts[u][i]
      OBVIOUS
    <3>2. stored' \subseteq 1..Len(texts')
      BY <2>3, <3>1, AppliedWrite DEF TextInv
    <3> QED
      BY <2>3, <3>2, AppliesMoves
  <2> QED
    BY <2>1, <2>2, <2>3, StepQuiet
<1> QED
  BY <1>0, <1>1, <1>2 DEF RulesInv, TextInv

LEMMA InitImplements == Init => M!Init
<1> SUFFICES ASSUME Init PROVE M!Init
  OBVIOUS
<1>1. DOMAIN texts = {} /\ stored = {} /\ Addressed = {}
  BY DEF Init, Addressed
<1>2. \A id \in Ids : Stage(id) = "unsent"
  BY <1>1 DEF Stage
<1>3. own = {}
  BY <1>1 DEF own
<1> QED
  BY <1>2, <1>3 DEF M!Init, stage

(* When the rules refuse nothing, the recipient never finds a message that *)
(* its sender cannot find, whenever the sender's app dies or its           *)
(* connection is lost between the two writes of send_mess_to_firebase.     *)
THEOREM SenderFindsFirstAlways == ASSUME ~Denials PROVE Spec => []SenderFindsFirst
<1>1. MailInv /\ [Next]_vars => MailInv'
  BY StepFair
<1>2. MailInv => SenderFindsFirst
  BY DEF MailInv
<1> QED
  BY <1>1, <1>2, InitFair, PTL DEF Spec

(* Sending and reading implements Mail, with rules that refuse writes or   *)
(* not: every step moves at most one message one stage on, in the fixed    *)
(* order stored, filed, delivered, and none is ever withdrawn; only where  *)
(* the sender's list may be refused its key does delivered follow stored.  *)
THEOREM DeliveryImplementsMail == Spec => ImplementsMail
<1>1. Init => RulesInv
  BY InitFair DEF RulesInv, MailInv
<1>2. RulesInv /\ [Next]_vars => RulesInv'
  BY StepImplements
<1>3. RulesInv /\ [Next]_vars => [M!Next]_M!vars
  BY StepImplements
<1> QED
  BY <1>1, <1>2, <1>3, InitImplements, PTL DEF Spec, ImplementsMail, M!Spec
=============================================================================
