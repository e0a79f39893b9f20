---------------------------- MODULE InboxProofs ----------------------------
(***************************************************************************)
(* Inbox for any finite set of partners and cells, any clocks and any      *)
(* bounds: one row for each conversation, the last message of its list in  *)
(* it, and the partner's name in its cell.                                 *)
(***************************************************************************)
EXTENDS Inbox, SequenceTheorems, FiniteSetTheorems, WellFoundedInduction, TLAPS

(* A message whose key was raised.                                         *)
Heard(h, r) == r \in Ref /\ r[2] \in DOMAIN h[r[1]]

HeardOwn == \A p \in Partners : \A i \in DOMAIN heard[p] : heard[p][i] \in Between(p)

(* A listen is for a message of a raised key or for a profile the client   *)
(* has not got, and nothing is listened for twice.                         *)
WireSound ==
  /\ \A i \in DOMAIN wire : wire[i] \in Ref => Heard(heard, wire[i])
  /\ \A i, j \in DOMAIN wire : wire[i] = wire[j] => i = j
  /\ \A u \in known : Profile(u) \notin Asked

RowsSound ==
  /\ \A u \in Users : rows[u] # NoRow => Heard(heard, rows[u])
  /\ \A c \in Cells : shown[c] # NoRow => Heard(heard, shown[c])

Base == TypeOK /\ HeardOwn /\ WireSound /\ RowsSound

----------------------------------------------------------------------------
LEMMA Refs ==
  /\ \A u \in Users : Profile(u) \in Listen /\ Profile(u) \notin Ref /\ Profile(u)[1] = u
  /\ \A r \in Listen : r \notin Ref => r[1] \in Users /\ r = Profile(r[1])
  /\ \A r \in Ref : r[1] \in Partners /\ r[2] \in 1..MaxHeard /\ r \in Listen /\ r # NoRow
  /\ \A p \in Partners : \A i \in 1..MaxHeard : <<p, i>> \in Ref
  /\ NoRow \notin Ref
BY BoundAssumption, NobodyAssumption DEF Ref, Listen, Profile, NoRow, Users

LEMMA PartnerType ==
  ASSUME TypeOK, NEW r, Heard(heard, r)
  PROVE  MessageAt(r) \in Message /\ PartnerId(MessageAt(r)) \in Users
<1>1. r[1] \in Partners /\ heard[r[1]] \in Seq(Message) /\ r[2] \in DOMAIN heard[r[1]]
  BY Refs DEF TypeOK, Heard
<1>2. MessageAt(r) \in Message
  BY <1>1 DEF MessageAt
<1>3. \A m \in Message : m.from \in Users /\ m.to \in Users
  BY DEF Message
<1> QED
  BY <1>2, <1>3 DEF PartnerId

(* While Me is signed in, get_partner_id is the list the key is in.        *)
LEMMA PartnerOwn ==
  ASSUME TypeOK, HeardOwn, NEW r, Heard(heard, r), signedIn
  PROVE  PartnerId(MessageAt(r)) = r[1]
<1>1. MessageAt(r) \in Between(r[1])
  BY Refs DEF Heard, HeardOwn, MessageAt
<1>2. \A m : {m.from, m.to} = {Me, r[1]} => (IF m.from = Me THEN m.to ELSE m.from) = r[1]
  OBVIOUS
<1> QED
  BY <1>1, <1>2 DEF Between, PartnerId

(* A list has room when the bound on raised keys is not reached.           *)
LEMMA Room ==
  ASSUME TypeOK, NEW p \in Partners, TotalHeard < MaxHeard
  PROVE  Len(heard[p]) + 1 \in 1..MaxHeard
<1> DEFINE S == {ref \in Ref : ref[2] \in DOMAIN heard[ref[1]]}
           f == [i \in 1..MaxHeard |-> <<p, i>>]
<1>1. Len(heard[p]) \in Nat /\ Len(heard[p]) <= MaxHeard /\ DOMAIN heard[p] = 1..Len(heard[p])
      /\ MaxHeard \in Nat
  BY BoundAssumption DEF TypeOK
<1>2. IsFiniteSet(S)
  <2>1. IsFiniteSet(1..MaxHeard) /\ IsFiniteSet(Partners)
    BY <1>1, FiniteAssumption, FS_Interval
  <2>2. IsFiniteSet(Ref)
    BY <2>1, FS_Product DEF Ref
  <2> QED
    BY <2>2, FS_Subset
<1>3. ASSUME Len(heard[p]) = MaxHeard PROVE FALSE
  <2>1. \A i \in 1..MaxHeard : f[i] \in S
    BY <1>1, <1>3, Refs
  <2>2. \A i, j \in 1..MaxHeard : f[i] = f[j] => i = j
    OBVIOUS
  <2>3. f \in Injection(1..MaxHeard, S)
    <3>1. f \in [1..MaxHeard -> S]
      BY <2>1
    <3>2. IsInjective(f)
      BY <2>2 DEF IsInjective
    <3> QED
      BY <3>1, <3>2 DEF Injection
  <2>4. Cardinality(1..MaxHeard) <= Cardinality(S)
    <3> HIDE DEF f, S
    <3> QED
      BY <1>2, <2>3, FS_Injection
  <2>5. Cardinality(1..MaxHeard) = MaxHeard
    BY <1>1, FS_Interval
  <2>6. Cardinality(S) \in Nat
    BY <1>2, FS_CardinalityType
  <2>7. Cardinality(S) < MaxHeard
    BY DEF TotalHeard
  <2> HIDE DEF S
  <2> QED
    BY <1>1, <2>4, <2>5, <2>6, <2>7
<1> QED
  BY <1>1, <1>3

----------------------------------------------------------------------------
(* What the steps do to the messages that were raised and to the wire.     *)

LEMMA SameHeard ==
  ASSUME UNCHANGED heard
  PROVE  \A r : Heard(heard', r) = Heard(heard, r) /\ MessageAt(r)' = MessageAt(r)
BY DEF Heard, MessageAt

LEMMA KeyHeard ==
  ASSUME TypeOK, HeardOwn, NEW p \in Partners, NEW m \in Between(p), KeyAdded(p, m),
         NEW n, n = <<p, Len(heard[p]) + 1>>
  PROVE  /\ n \in Ref /\ ~Heard(heard, n) /\ Heard(heard', n)
         /\ \A r : Heard(heard, r) => Heard(heard', r) /\ MessageAt(r)' = MessageAt(r)
         /\ \A r : Heard(heard', r) => Heard(heard, r) \/ r = n
         /\ HeardOwn'
         /\ heard' \in [Partners -> Seq(Message)]
         /\ \A q \in Partners : Len(heard'[q]) <= MaxHeard
         /\ \A q \in Partners : q # p => heard'[q] = heard[q]
         /\ DOMAIN heard'[p] = DOMAIN heard[p] \cup {n[2]}
         /\ \A i \in DOMAIN heard[p] : i < n[2]
<1>0. PICK k : k = Len(heard[p]) + 1
  OBVIOUS
<1>1. /\ heard[p] \in Seq(Message) /\ m \in Message /\ heard \in [Partners -> Seq(Message)]
      /\ heard' = [heard EXCEPT ![p] = Append(heard[p], m)]
      /\ \A q \in Partners : Len(heard[q]) <= MaxHeard
  BY DEF TypeOK, Between, KeyAdded
<1>2. k \in 1..MaxHeard /\ n \in Ref
  BY <1>0, Room, Refs DEF KeyAdded
<1>3. /\ heard'[p] = Append(heard[p], m) /\ heard'[p] \in Seq(Message)
      /\ Len(heard'[p]) = k /\ k \notin DOMAIN heard[p]
      /\ DOMAIN heard'[p] = DOMAIN heard[p] \cup {k}
      /\ \A i \in DOMAIN heard[p] : heard'[p][i] = heard[p][i]
      /\ heard'[p][k] = m
      /\ \A i \in DOMAIN heard[p] : i < k
  BY <1>0, <1>1, AppendProperties
<1>4. \A q \in Partners : q # p => heard'[q] = heard[q]
  BY <1>1
<1>5. heard' \in [Partners -> Seq(Message)]
  BY <1>1
<1>6. \A q \in Partners : Len(heard'[q]) <= MaxHeard
  BY <1>1, <1>2, <1>3, <1>4
<1>7. HeardOwn'
  <2> SUFFICES ASSUME NEW q \in Partners, NEW i \in DOMAIN heard'[q]
               PROVE  heard'[q][i] \in Between(q)
    BY DEF HeardOwn
  <2>1. CASE q = p
    BY <1>3, <2>1 DEF HeardOwn
  <2>2. CASE q # p
    BY <1>4, <2>2 DEF HeardOwn
  <2> QED
    BY <2>1, <2>2
<1>11. n[1] = p /\ n[2] = k
  BY <1>0
<1>8. ~Heard(heard, n) /\ Heard(heard', n)
  BY <1>2, <1>3, <1>11 DEF Heard
<1>9. ASSUME NEW r, Heard(heard, r) PROVE Heard(heard', r) /\ MessageAt(r)' = MessageAt(r)
  <2>1. r \in Ref /\ r[1] \in Partners /\ r[2] \in DOMAIN heard[r[1]]
    BY <1>9, Refs DEF Heard
  <2>2. r[2] \in DOMAIN heard'[r[1]] /\ heard'[r[1]][r[2]] = heard[r[1]][r[2]]
    BY <1>3, <1>4, <2>1
  <2> QED
    BY <2>1, <2>2 DEF Heard, MessageAt
<1>10. ASSUME NEW r, Heard(heard', r) PROVE Heard(heard, r) \/ r = n
  <2>1. r \in Ref /\ r[1] \in Partners /\ r[2] \in DOMAIN heard'[r[1]]
    BY <1>10, Refs DEF Heard
  <2>2. r = <<r[1], r[2]>>
    BY <2>1 DEF Ref
  <2>3. CASE r[1] = p
    BY <1>0, <1>3, <2>1, <2>2, <2>3 DEF Heard
  <2>4. CASE r[1] # p
    BY <1>4, <2>1, <2>4 DEF Heard
  <2> QED
    BY <2>3, <2>4
<1> QED
  BY <1>2, <1>3, <1>4, <1>5, <1>6, <1>7, <1>8, <1>9, <1>10, <1>11

(* Taking the head of the wire, of which nothing is on the wire twice.     *)
LEMMA Taken ==
  ASSUME TypeOK, WireSound, Answered, wire' = Tail(wire)
  PROVE  /\ wire' \in Seq(Listen) /\ Head(wire) \in Asked /\ Head(wire) \in Listen
         /\ Head(wire) = wire[1]
         /\ \A i \in DOMAIN wire' : i + 1 \in DOMAIN wire /\ wire'[i] = wire[i + 1]
         /\ \A i, j \in DOMAIN wire' : wire'[i] = wire'[j] => i = j
         /\ Asked' = Asked \ {Head(wire)}
<1>1. wire \in Seq(Listen) /\ wire # <<>> /\ Len(wire) \in Nat \ {0}
  BY DEF TypeOK, Answered
<1>2. /\ wire' \in Seq(Listen) /\ Head(wire) = wire[1] /\ 1 \in DOMAIN wire
      /\ DOMAIN wire' = 1..Len(wire) - 1 /\ DOMAIN wire = 1..Len(wire)
      /\ \A i \in DOMAIN wire' : i + 1 \in DOMAIN wire /\ wire'[i] = wire[i + 1]
  BY <1>1
<1>3. \A i, j \in DOMAIN wire' : wire'[i] = wire'[j] => i = j
  <2> SUFFICES ASSUME NEW i \in DOMAIN wire', NEW j \in DOMAIN wire', wire'[i] = wire'[j]
               PROVE  i = j
    OBVIOUS
  <2>1. i + 1 = j + 1
    BY <1>2 DEF WireSound
  <2> QED
    BY <1>2, <2>1
<1>4. Asked' = Asked \ {Head(wire)}
  <2>1. ASSUME NEW x \in Asked' PROVE x \in Asked /\ x # Head(wire)
    <3>1. PICK i \in DOMAIN wire' : x = wire'[i]
      BY <2>1 DEF Asked
    <3>2. x = wire[i + 1] /\ i + 1 \in DOMAIN wire /\ i + 1 # 1
      BY <1>2, <3>1
    <3> QED
      BY <1>2, <3>2 DEF Asked, WireSound
  <2>2. ASSUME NEW x \in Asked, x # Head(wire) PROVE x \in Asked'
    <3>1. PICK i \in DOMAIN wire : x = wire[i]
      BY <2>2 DEF Asked
    <3>2. i # 1
      BY <1>2, <2>2, <3>1
    <3>3. i - 1 \in DOMAIN wire' /\ wire'[i - 1] = x
      BY <1>2, <3>1, <3>2
    <3> QED
      BY <3>3 DEF Asked
  <2> QED
    BY <2>1, <2>2
<1>5. Head(wire) \in Listen
  BY <1>1, <1>2
<1>6. Head(wire) \in Asked
  BY <1>2 DEF Asked
<1> QED
  BY <1>2, <1>3, <1>4, <1>5, <1>6

(* Sending listens behind the others.                                      *)
LEMMA Sent ==
  ASSUME TypeOK, NEW t \in Seq(Listen), wire' = wire \o t
  PROVE  /\ wire' \in Seq(Listen)
         /\ \A i \in DOMAIN wire : i \in DOMAIN wire' /\ wire'[i] = wire[i]
         /\ \A i \in DOMAIN wire' : i \notin DOMAIN wire =>
              i - Len(wire) \in DOMAIN t /\ wire'[i] = t[i - Len(wire)] /\ i > Len(wire)
         /\ DOMAIN wire = 1..Len(wire) /\ Len(wire) \in Nat
         /\ Asked' = Asked \cup {t[i] : i \in DOMAIN t}
<1>1. wire \in Seq(Listen) /\ DOMAIN wire = 1..Len(wire) /\ Len(wire) \in Nat /\ Len(t) \in Nat
  BY DEF TypeOK
<1>2. /\ wire' \in Seq(Listen) /\ DOMAIN wire' = 1..Len(wire) + Len(t) /\ DOMAIN t = 1..Len(t)
      /\ \A i \in DOMAIN wire : i \in DOMAIN wire' /\ wire'[i] = wire[i]
      /\ \A i \in DOMAIN t : i + Len(wire) \in DOMAIN wire' /\ wire'[i + Len(wire)] = t[i]
      /\ \A i \in DOMAIN wire' : i \notin DOMAIN wire =>
           i - Len(wire) \in DOMAIN t /\ wire'[i] = t[i - Len(wire)] /\ i > Len(wire)
  BY <1>1, ConcatProperties
<1>3. ASSUME NEW x \in Asked' PROVE x \in Asked \/ \E i \in DOMAIN t : x = t[i]
  <2>1. PICK i \in DOMAIN wire' : x = wire'[i]
    BY <1>3 DEF Asked
  <2> QED
    BY <1>2, <2>1 DEF Asked
<1>4. \A x \in Asked : x \in Asked'
  BY <1>2 DEF Asked
<1>5. ASSUME NEW i \in DOMAIN t PROVE t[i] \in Asked'
  BY <1>2 DEF Asked
<1>6. Asked' = Asked \cup {t[i] : i \in DOMAIN t}
  BY <1>3, <1>4, <1>5
<1> QED
  BY <1>1, <1>2, <1>6

----------------------------------------------------------------------------
(* The steps other than a layout keep the types, and wire, rows and screen *)
(* within what was heard.                                                  *)

LEMMA RowsStay ==
  ASSUME RowsSound, UNCHANGED <<rows, shown>>, \A r : Heard(heard, r) => Heard(heard', r)
  PROVE  RowsSound'
BY DEF RowsSound

LEMMA AccountBase ==
  ASSUME Base, Revoke \/ Disconnect
  PROVE  Base'
<1>1. UNCHANGED <<known, wire, heard, rows, dirty, events, shuffled, shown, watch, name, overtaken>>
  BY DEF Revoke, Disconnect, cellVars
<1>2. alive' = alive /\ drops' \in 0..MaxDrops /\ signedIn' \in BOOLEAN /\ online' \in BOOLEAN
  <2>1. drops \in 0..MaxDrops /\ signedIn \in BOOLEAN /\ online \in BOOLEAN
    BY DEF Base, TypeOK
  <2>2. CASE Revoke
    BY <2>1, <2>2 DEF Revoke
  <2>3. CASE Disconnect
    <3>1. drops < MaxDrops /\ drops' = drops + 1
      BY <2>3 DEF Disconnect
    <3>2. drops' \in 0..MaxDrops
      BY <2>1, <3>1, BoundAssumption
    <3>3. online' = FALSE /\ UNCHANGED <<alive, signedIn>>
      BY <2>3 DEF Disconnect
    <3> QED
      BY <2>1, <3>2, <3>3
  <2> QED
    BY <2>2, <2>3
<1>3. TypeOK'
  BY <1>1, <1>2 DEF Base, TypeOK
<1>4. HeardOwn' /\ RowsSound'
  BY <1>1, SameHeard, RowsStay DEF Base, HeardOwn
<1>5. WireSound'
  BY <1>1 DEF Base, WireSound, Asked, Heard
<1> QED
  BY <1>3, <1>4, <1>5 DEF Base

(* Listens sent again in another order are the same listens.               *)
LEMMA ReconnectWire ==
  ASSUME Base, Reconnect
  PROVE  wire' \in Seq(Listen) /\ WireSound' /\ Asked' = Asked
<1>1. wire \in Seq(Listen) /\ DOMAIN wire = 1..Len(wire) /\ Len(wire) \in Nat
  BY DEF Base, TypeOK
<1>2. PICK f \in Bijection(DOMAIN wire, DOMAIN wire) : wire' = [i \in DOMAIN wire |-> wire[f[i]]]
  BY DEF Reconnect
<1>3. /\ \A i \in DOMAIN wire : f[i] \in DOMAIN wire
      /\ \A i, j \in DOMAIN wire : f[i] = f[j] => i = j
      /\ \A k \in DOMAIN wire : \E i \in DOMAIN wire : f[i] = k
  BY DEF Bijection, Injection, Surjection, IsInjective
<1>4. wire' = [i \in 1..Len(wire) |-> wire[f[i]]] /\ \A i \in 1..Len(wire) : wire[f[i]] \in Listen
  BY <1>1, <1>2, <1>3
<1>5. wire' \in Seq(Listen)
  BY <1>1, <1>4
<1>6. /\ DOMAIN wire' = DOMAIN wire
      /\ \A i \in DOMAIN wire : wire'[i] = wire[f[i]]
  BY <1>2
<1>7. Asked' = Asked
  <2>1. ASSUME NEW x \in Asked' PROVE x \in Asked
    <3>1. PICK i \in DOMAIN wire' : x = wire'[i]
      BY <2>1 DEF Asked
    <3>2. f[i] \in DOMAIN wire /\ x = wire[f[i]]
      BY <1>3, <1>6, <3>1
    <3> QED
      BY <3>2 DEF Asked
  <2>2. ASSUME NEW x \in Asked PROVE x \in Asked'
    <3>1. PICK k \in DOMAIN wire : x = wire[k]
      BY <2>2 DEF Asked
    <3>2. PICK i \in DOMAIN wire : f[i] = k
      BY <1>3
    <3>3. i \in DOMAIN wire' /\ x = wire'[i]
      BY <1>6, <3>1, <3>2
    <3> QED
      BY <3>3 DEF Asked
  <2> QED
    BY <2>1, <2>2
<1>8. \A i, j \in DOMAIN wire' : wire'[i] = wire'[j] => i = j
  <2> SUFFICES ASSUME NEW i \in DOMAIN wire, NEW j \in DOMAIN wire, wire'[i] = wire'[j]
               PROVE  i = j
    BY <1>6
  <2>1. wire[f[i]] = wire[f[j]] /\ f[i] \in DOMAIN wire /\ f[j] \in DOMAIN wire
    BY <1>3, <1>6
  <2>2. f[i] = f[j]
    BY <2>1 DEF Base, WireSound
  <2> QED
    BY <1>3, <2>2
<1>9. UNCHANGED <<heard, known>>
  BY DEF Reconnect
<1>10. \A i \in DOMAIN wire' : wire'[i] \in Ref => Heard(heard', wire'[i])
  <2> SUFFICES ASSUME NEW i \in DOMAIN wire', wire'[i] \in Ref PROVE Heard(heard', wire'[i])
    OBVIOUS
  <2>1. i \in DOMAIN wire /\ f[i] \in DOMAIN wire /\ wire'[i] = wire[f[i]]
    BY <1>3, <1>6
  <2>2. Heard(heard, wire[f[i]])
    BY <2>1 DEF Base, WireSound
  <2> QED
    BY <1>9, <2>1, <2>2 DEF Heard
<1>11. WireSound'
  BY <1>7, <1>8, <1>9, <1>10 DEF Base, WireSound
<1> QED
  BY <1>5, <1>7, <1>11

LEMMA ReconnectBase ==
  ASSUME Base, Reconnect
  PROVE  Base'
<1>1. /\ UNCHANGED <<alive, signedIn, known, drops, heard, rows, dirty, events, shown, watch, name, overtaken>>
      /\ online' \in BOOLEAN
  BY DEF Reconnect, cellVars
<1>2. shuffled' \subseteq Partners
  BY DEF Base, TypeOK, Reconnect
<1>3. TypeOK'
  BY <1>1, <1>2, ReconnectWire DEF Base, TypeOK
<1>4. HeardOwn' /\ RowsSound'
  BY <1>1, SameHeard, RowsStay DEF Base, HeardOwn
<1> QED
  BY <1>3, <1>4, ReconnectWire DEF Base

LEMMA KeyBase ==
  ASSUME Base, NEW p \in Partners, NEW m \in Between(p), KeyAdded(p, m)
  PROVE  Base'
<1> USE DEF Base
<1>1. PICK n : n = <<p, Len(heard[p]) + 1>>
  OBVIOUS
<1>2. /\ n \in Ref /\ ~Heard(heard, n) /\ Heard(heard', n) /\ HeardOwn'
      /\ \A r : Heard(heard, r) => Heard(heard', r)
      /\ heard' \in [Partners -> Seq(Message)]
      /\ \A q \in Partners : Len(heard'[q]) <= MaxHeard
  BY <1>1, KeyHeard
<1>3. /\ UNCHANGED <<alive, signedIn, online, known, drops, rows, dirty, events, shuffled,
                     shown, watch, name, overtaken>>
      /\ wire' = Append(wire, n)
  BY <1>1 DEF KeyAdded, netVars, cellVars
<1>4. n \in Listen /\ n \notin Asked
  BY <1>2, Refs DEF WireSound, Asked
<1>5. /\ wire' \in Seq(Listen) /\ Len(wire) \in Nat
      /\ DOMAIN wire' = DOMAIN wire \cup {Len(wire) + 1} /\ Len(wire) + 1 \notin DOMAIN wire
      /\ \A i \in DOMAIN wire : wire'[i] = wire[i]
      /\ wire'[Len(wire) + 1] = n
  BY <1>3, <1>4, AppendProperties DEF TypeOK
<1>6. TypeOK'
  BY <1>2, <1>3, <1>5 DEF TypeOK
<1>7. \A i, j \in DOMAIN wire' : wire'[i] = wire'[j] => i = j
  BY <1>4, <1>5 DEF WireSound, Asked
<1>8. \A i \in DOMAIN wire' : wire'[i] \in Ref => Heard(heard', wire'[i])
  <2> SUFFICES ASSUME NEW i \in DOMAIN wire', wire'[i] \in Ref PROVE Heard(heard', wire'[i])
    OBVIOUS
  <2>1. CASE i \in DOMAIN wire
    <3>1. wire'[i] = wire[i] /\ Heard(heard, wire[i])
      BY <1>5, <2>1 DEF WireSound
    <3>2. PICK r : r = wire[i]
      OBVIOUS
    <3>3. Heard(heard', r)
      BY <1>2, <3>1, <3>2
    <3> QED
      BY <3>1, <3>2, <3>3 DEF Heard
  <2>2. CASE i = Len(wire) + 1
    <3>1. wire'[i] = n
      BY <1>5, <2>2
    <3> QED
      BY <1>2, <3>1 DEF Heard
  <2> QED
    BY <1>5, <2>1, <2>2
<1>9. \A u \in known' : Profile(u) \notin Asked'
  <2>1. \A x \in Asked' : x \in Asked \/ x = n
    BY <1>5 DEF Asked
  <2>2. \A u \in known : Profile(u) # n
    BY <1>2, Refs DEF TypeOK
  <2> QED
    BY <1>3, <2>1, <2>2 DEF WireSound
<1>10. WireSound'
  BY <1>7, <1>8, <1>9 DEF WireSound
<1>11. RowsSound'
  BY <1>2, <1>3 DEF RowsSound
<1> QED
  BY <1>2, <1>6, <1>10, <1>11

(* An answer that is handed over leaves the rest of the wire.              *)
LEMMA TakenSound ==
  ASSUME Base, Answered, wire' = Tail(wire), UNCHANGED heard,
         \A u \in known' : u \in known \/ Profile(u) = Head(wire)
  PROVE  WireSound'
<1>1. \A i, j \in DOMAIN wire' : wire'[i] = wire'[j] => i = j
  BY Taken DEF Base
<1>2. \A i \in DOMAIN wire' : wire'[i] \in Ref => Heard(heard', wire'[i])
  <2> SUFFICES ASSUME NEW i \in DOMAIN wire', wire'[i] \in Ref PROVE Heard(heard', wire'[i])
    OBVIOUS
  <2>1. i + 1 \in DOMAIN wire /\ wire'[i] = wire[i + 1]
    BY Taken DEF Base
  <2>2. Heard(heard, wire[i + 1])
    BY <2>1 DEF Base, WireSound
  <2> QED
    BY <2>1, <2>2 DEF Heard
<1>3. ASSUME NEW u \in known' PROVE Profile(u) \notin Asked'
  BY <1>3, Taken DEF Base, WireSound
<1> QED
  BY <1>1, <1>2, <1>3 DEF WireSound

(* The message on the wire that the next answer brings.                    *)
LEMMA NextValue ==
  ASSUME Base, Answered, Head(wire) \in Ref
  PROVE  /\ Heard(heard, Head(wire)) /\ Head(wire) # NoRow
         /\ PartnerId(MessageAt(Head(wire))) \in Users
<1>1. Head(wire) = wire[1] /\ 1 \in DOMAIN wire
  BY DEF Base, TypeOK, Answered
<1>2. Heard(heard, wire[1])
  BY <1>1 DEF Base, WireSound
<1>3. Heard(heard, Head(wire))
  BY <1>1, <1>2
<1> QED
  BY <1>3, PartnerType, Refs DEF Base

LEMMA ValueBase ==
  ASSUME Base, ValueArrives
  PROVE  Base'
<1>1. PICK r : r = Head(wire)
  OBVIOUS
<1>2. PICK u : u = PartnerId(MessageAt(r))
  OBVIOUS
<1>3. r \in Ref /\ Heard(heard, r) /\ u \in Users /\ r # NoRow
  BY <1>1, <1>2, NextValue DEF ValueArrives
<1>4. /\ UNCHANGED <<alive, signedIn, online, known, drops, heard, events, shuffled, shown, watch, name,
                     overtaken>>
      /\ rows' = [rows EXCEPT ![u] = r] /\ dirty' = TRUE /\ wire' = Tail(wire) /\ Answered
  BY <1>1, <1>2 DEF ValueArrives, netVars, cellVars
<1>5. wire' \in Seq(Listen)
  BY <1>4, Taken DEF Base
<1>6. rows' \in [Users -> Ref \cup {NoRow}]
  BY <1>3, <1>4 DEF Base, TypeOK
<1>7. TypeOK'
  BY <1>4, <1>5, <1>6 DEF Base, TypeOK
<1>8. WireSound'
  BY <1>4, TakenSound
<1>9. HeardOwn'
  BY <1>4 DEF Base, HeardOwn, Between
<1>10. RowsSound'
  <2>1. ASSUME NEW v \in Users, rows'[v] # NoRow PROVE Heard(heard', rows'[v])
    <3>1. rows'[v] = IF v = u THEN r ELSE rows[v]
      BY <1>3, <1>4 DEF Base, TypeOK
    <3>2. CASE v = u
      BY <1>3, <1>4, <3>1, <3>2 DEF Heard
    <3>3. CASE v # u
      BY <1>4, <2>1, <3>1, <3>3 DEF Base, RowsSound, Heard
    <3> QED
      BY <3>2, <3>3
  <2>2. \A c \in Cells : shown'[c] # NoRow => Heard(heard', shown'[c])
    BY <1>4 DEF Base, RowsSound, Heard
  <2> QED
    BY <2>1, <2>2 DEF RowsSound
<1> QED
  BY <1>7, <1>8, <1>9, <1>10 DEF Base

(* The user whose profile the next answer brings.                          *)
LEMMA NextProfile ==
  ASSUME Base, Answered, Head(wire) \notin Ref, NEW u, u = Head(wire)[1]
  PROVE  u \in Users /\ Head(wire) = Profile(u) /\ Profile(u) \in Asked /\ u \notin known
<1>1. Head(wire) \in Listen /\ Head(wire) \in Asked
  <2>1. wire \in Seq(Listen) /\ wire # <<>>
    BY DEF Base, TypeOK, Answered
  <2>2. 1 \in DOMAIN wire /\ Head(wire) = wire[1] /\ wire[1] \in Listen
    BY <2>1
  <2> QED
    BY <2>2 DEF Asked
<1>2. u \in Users /\ Head(wire) = Profile(u)
  BY <1>1, Refs
<1> QED
  BY <1>1, <1>2 DEF Base, WireSound

LEMMA ProfileBase ==
  ASSUME Base, ProfileArrives
  PROVE  Base'
<1>1. PICK u : u = Head(wire)[1]
  OBVIOUS
<1>2. /\ UNCHANGED <<alive, signedIn, online, drops, heard, rows, dirty, shuffled, shown, watch, name,
                     overtaken>>
      /\ Answered /\ Head(wire) \notin Ref /\ wire' = Tail(wire) /\ known' = known \cup {u}
      /\ events' = [c \in Cells |-> IF u \in watch[c] THEN Append(events[c], u) ELSE events[c]]
  BY <1>1 DEF ProfileArrives, cellVars
<1>3. u \in Users /\ Head(wire) = Profile(u)
  BY <1>1, <1>2, NextProfile
<1>4. wire' \in Seq(Listen)
  BY <1>2, Taken DEF Base
<1>5. events' \in [Cells -> Seq(Users)]
  <2>1. \A c \in Cells : events[c] \in Seq(Users)
    BY DEF Base, TypeOK
  <2>2. \A c \in Cells : Append(events[c], u) \in Seq(Users)
    BY <1>3, <2>1
  <2> QED
    BY <1>2, <2>1, <2>2
<1>6. known' \subseteq Users
  BY <1>2, <1>3 DEF Base, TypeOK
<1>7. TypeOK'
  BY <1>2, <1>4, <1>5, <1>6 DEF Base, TypeOK
<1>8. WireSound'
  BY <1>2, <1>3, TakenSound
<1>9. HeardOwn' /\ RowsSound'
  BY <1>2 DEF Base, HeardOwn, Between, RowsSound, Heard
<1> QED
  BY <1>7, <1>8, <1>9 DEF Base

LEMMA NameBase ==
  ASSUME Base, NEW c \in Cells, NameSet(c)
  PROVE  Base'
<1>1. UNCHANGED <<alive, signedIn, online, known, drops, wire, heard, rows, dirty, shown, watch, shuffled,
                  overtaken>>
  BY DEF NameSet, netVars
<1>2. events[c] \in Seq(Users) /\ events[c] # <<>>
  BY DEF Base, TypeOK, NameSet
<1>3. Head(events[c]) \in Users /\ Tail(events[c]) \in Seq(Users)
  BY <1>2
<1>4. name' \in [Cells -> Users \cup {Nobody}] /\ events' \in [Cells -> Seq(Users)]
  BY <1>3 DEF Base, TypeOK, NameSet
<1>5. TypeOK'
  BY <1>1, <1>4 DEF Base, TypeOK
<1>6. HeardOwn' /\ RowsSound' /\ WireSound'
  BY <1>1 DEF Base, HeardOwn, Between, RowsSound, Heard, WireSound, Asked
<1> QED
  BY <1>5, <1>6 DEF Base

----------------------------------------------------------------------------
(* What a layout chooses: the order of the rows, the cells for the first   *)
(* of them, and the profiles to ask for.                                   *)

(* The partner of the row in place i of the table, and the places whose    *)
(* partner's profile the layout asks for.                                  *)
User(t, i) == PartnerId(MessageAt(rows[t[i]]))
Fresh(t, f) ==
  {i \in DOMAIN f : /\ User(t, i) \notin known /\ Profile(User(t, i)) \notin Asked
                    /\ \A j \in DOMAIN f : j < i => User(t, j) # User(t, i)}

Onto == Placements(Smaller(Cardinality(Filled), Cardinality(Cells)))

LEMMA Least ==
  ASSUME NEW T, T \subseteq Nat, T # {}
  PROVE  \E x \in T : \A y \in T : x <= y
<1>1. \E x \in T : \A y \in T : <<y, x>> \notin OpToRel(<, Nat)
  BY WFMin, NatLessThanWellFounded
<1>2. PICK x \in T : \A y \in T : <<y, x>> \notin OpToRel(<, Nat)
  BY <1>1
<1>3. ASSUME NEW y \in T PROVE x <= y
  <2>1. <<y, x>> \notin OpToRel(<, Nat)
    BY <1>2
  <2>2. y \in Nat /\ x \in Nat
    OBVIOUS
  <2> QED
    BY <2>1, <2>2 DEF OpToRel
<1> QED
  BY <1>3

LEMMA Inverted ==
  ASSUME NEW f, IsInjective(f)
  PROVE  /\ \A i \in DOMAIN f : f[i] \in DOMAIN AntiFunction(f) /\ AntiFunction(f)[f[i]] = i
         /\ \A c \in DOMAIN AntiFunction(f) : \E i \in DOMAIN f : f[i] = c
<1>1. /\ DOMAIN AntiFunction(f) = {f[i] : i \in DOMAIN f}
      /\ \A c \in {f[i] : i \in DOMAIN f} :
           AntiFunction(f)[c] = CHOOSE s \in DOMAIN f : c \in {f[i] : i \in DOMAIN f} => f[s] = c
  BY DEF AntiFunction, Inverse, Range
<1>2. ASSUME NEW i \in DOMAIN f PROVE AntiFunction(f)[f[i]] = i
  <2>1. PICK a : a = AntiFunction(f)[f[i]]
    OBVIOUS
  <2>2. a \in DOMAIN f /\ f[a] = f[i]
    BY <1>1, <2>1
  <2> QED
    BY <2>1, <2>2 DEF IsInjective
<1> QED
  BY <1>1, <1>2

LEMMA Enumerated ==
  ASSUME NEW I, IsFiniteSet(I), NEW t \in Injection(1..Cardinality(I), I)
  PROVE  /\ Cardinality(I) \in Nat /\ DOMAIN t = 1..Cardinality(I)
         /\ \A i \in DOMAIN t : t[i] \in I
         /\ \A i, j \in DOMAIN t : t[i] = t[j] => i = j
         /\ \A x \in I : \E i \in DOMAIN t : t[i] = x
<1>1. Cardinality(I) \in Nat
  BY FS_CardinalityType
<1>2. Cardinality(1..Cardinality(I)) = Cardinality(I)
  BY <1>1, FS_Interval
<1>3. t \in Surjection(1..Cardinality(I), I)
  BY <1>2, FS_Injection
<1>4. t \in [1..Cardinality(I) -> I] /\ IsInjective(t)
  BY DEF Injection
<1> QED
  BY <1>1, <1>3, <1>4 DEF Surjection, IsInjective

LEMMA TableShape ==
  ASSUME Base, NEW t \in Tables
  PROVE  /\ Cardinality(Filled) \in Nat /\ DOMAIN t = 1..Cardinality(Filled)
         /\ \A i \in DOMAIN t : t[i] \in Users /\ rows[t[i]] # NoRow /\ Heard(heard, rows[t[i]])
         /\ \A u \in Users : rows[u] # NoRow => \E i \in DOMAIN t : t[i] = u
         /\ \A i, j \in DOMAIN t :
              i < j => MessageAt(rows[t[i]]).time >= MessageAt(rows[t[j]]).time
         /\ \A i \in DOMAIN t : User(t, i) \in Users
<1>1. IsFiniteSet(Filled)
  <2>1. IsFiniteSet(Users)
    BY FiniteAssumption, FS_AddElement DEF Users
  <2> QED
    BY <2>1, FS_Subset DEF Filled
<1>2. t \in Injection(1..Cardinality(Filled), Filled)
  BY DEF Tables
<1>3. \A i, j \in DOMAIN t :
        i < j => MessageAt(rows[t[i]]).time >= MessageAt(rows[t[j]]).time
  BY DEF Tables
<1>4. /\ Cardinality(Filled) \in Nat /\ DOMAIN t = 1..Cardinality(Filled)
      /\ \A i \in DOMAIN t : t[i] \in Filled
      /\ \A x \in Filled : \E i \in DOMAIN t : t[i] = x
  BY <1>1, <1>2, Enumerated
<1>5. \A i \in DOMAIN t : t[i] \in Users /\ rows[t[i]] # NoRow /\ Heard(heard, rows[t[i]])
  BY <1>4 DEF Filled, Base, RowsSound
<1>6. \A i \in DOMAIN t : User(t, i) \in Users
  BY <1>5, PartnerType DEF User, Base
<1> QED
  BY <1>3, <1>4, <1>5, <1>6 DEF Filled

LEMMA PlacementShape ==
  ASSUME Base, NEW t \in Tables, NEW f \in Onto
  PROVE  /\ DOMAIN f \subseteq DOMAIN t /\ DOMAIN f \subseteq Nat \ {0} /\ IsFiniteSet(DOMAIN f)
         /\ \A i \in DOMAIN t, j \in DOMAIN f : i < j => i \in DOMAIN f
         /\ f \in [DOMAIN f -> Cells] /\ IsInjective(f)
<1>1. PICK n : n = Smaller(Cardinality(Filled), Cardinality(Cells))
  OBVIOUS
<1>2. f \in [1..n -> Cells] /\ IsInjective(f)
  BY <1>1 DEF Onto, Placements, Injection
<1>3. Cardinality(Filled) \in Nat /\ DOMAIN t = 1..Cardinality(Filled)
  BY TableShape
<1>4. Cardinality(Cells) \in Nat
  BY FiniteAssumption, FS_CardinalityType
<1>5. n \in Nat /\ n <= Cardinality(Filled)
  BY <1>1, <1>3, <1>4 DEF Smaller
<1>6. IsFiniteSet(1..n)
  BY <1>5, FS_Interval
<1> QED
  BY <1>2, <1>3, <1>5, <1>6

LEMMA LayoutShape ==
  ASSUME Base, Layout
  PROVE  \E t \in Tables, f \in Onto :
           /\ \A i \in DOMAIN f :
                /\ shown'[f[i]] = rows[t[i]]
                /\ watch'[f[i]] = watch[f[i]] \cup {User(t, i)}
                /\ events'[f[i]] = Raised(f[i], User(t, i))
                /\ f[i] \notin overtaken' => watch[f[i]] \subseteq known \cup {User(t, i)}
           /\ \A c \in Cells : (\A i \in DOMAIN f : f[i] # c) =>
                shown'[c] = NoRow /\ watch'[c] = watch[c] /\ events'[c] = events[c]
           /\ \E s \in InOrder(Fresh(t, f)) :
                wire' = wire \o [i \in DOMAIN s |-> Profile(User(t, s[i]))]
<1> DEFINE At(f) == AntiFunction(f)
           Us(t, f, c) == PartnerId(MessageAt(rows[t[At(f)[c]]]))
           New(t, f) == {i \in DOMAIN f :
                          /\ Us(t, f, f[i]) \notin known /\ Profile(Us(t, f, f[i])) \notin Asked
                          /\ \A j \in DOMAIN f : j < i => Us(t, f, f[j]) # Us(t, f, f[i])}
<1>1. PICK t \in Tables, f \in Onto :
        /\ shown' = [c \in Cells |-> IF c \in DOMAIN At(f) THEN rows[t[At(f)[c]]] ELSE NoRow]
        /\ watch' = [c \in Cells |-> IF c \in DOMAIN At(f) THEN Observes(c, Us(t, f, c)) ELSE watch[c]]
        /\ events' = [c \in Cells |-> IF c \in DOMAIN At(f) THEN Raised(c, Us(t, f, c)) ELSE events[c]]
        /\ \E s \in InOrder(New(t, f)) :
             wire' = wire \o [i \in DOMAIN s |-> Profile(Us(t, f, f[s[i]]))]
        /\ overtaken' = {c \in Cells : IF c \in DOMAIN At(f)
                                       THEN watch[c] \ (known \cup {Us(t, f, c)}) # {}
                                       ELSE c \in overtaken}
  BY DEF Layout, Onto
<1>2. /\ f \in [DOMAIN f -> Cells]
      /\ \A i \in DOMAIN f : f[i] \in DOMAIN At(f) /\ At(f)[f[i]] = i
      /\ \A c \in DOMAIN At(f) : \E i \in DOMAIN f : f[i] = c
  BY PlacementShape, Inverted
<1>3. \A i \in DOMAIN f : f[i] \in Cells /\ Us(t, f, f[i]) = User(t, i)
  BY <1>2 DEF User
<1>4. ASSUME NEW i \in DOMAIN f
      PROVE  /\ shown'[f[i]] = rows[t[i]]
             /\ watch'[f[i]] = watch[f[i]] \cup {User(t, i)}
             /\ events'[f[i]] = Raised(f[i], User(t, i))
             /\ f[i] \notin overtaken' => watch[f[i]] \subseteq known \cup {User(t, i)}
  <2>1. f[i] \in Cells /\ f[i] \in DOMAIN At(f) /\ At(f)[f[i]] = i /\ Us(t, f, f[i]) = User(t, i)
    BY <1>2, <1>3
  <2> HIDE DEF At, Us, New
  <2>2. shown'[f[i]] = rows[t[i]] /\ watch'[f[i]] = watch[f[i]] \cup {User(t, i)}
    BY <1>1, <2>1 DEF Observes
  <2>3. events'[f[i]] = Raised(f[i], User(t, i))
    BY <1>1, <2>1
  <2>4. f[i] \notin overtaken' => watch[f[i]] \subseteq known \cup {User(t, i)}
    BY <1>1, <2>1
  <2> QED
    BY <2>2, <2>3, <2>4
<1>5. ASSUME NEW c \in Cells, \A i \in DOMAIN f : f[i] # c
      PROVE  shown'[c] = NoRow /\ watch'[c] = watch[c] /\ events'[c] = events[c]
  <2>1. c \notin DOMAIN At(f)
    BY <1>2, <1>5
  <2> HIDE DEF At, Us, New
  <2> QED
    BY <1>1, <2>1
<1>6. New(t, f) = Fresh(t, f)
  <2> HIDE DEF At, Us
  <2> QED
    BY <1>3 DEF Fresh
<1>7. PICK s \in InOrder(Fresh(t, f)) :
        wire' = wire \o [i \in DOMAIN s |-> Profile(Us(t, f, f[s[i]]))]
  <2> HIDE DEF At, Us, New
  <2> QED
    BY <1>1, <1>6
<1>8. \A i \in DOMAIN s : s[i] \in DOMAIN f
  BY DEF InOrder, Fresh
<1>9. [i \in DOMAIN s |-> Profile(Us(t, f, f[s[i]]))] = [i \in DOMAIN s |-> Profile(User(t, s[i]))]
  <2> HIDE DEF At, Us
  <2> QED
    BY <1>3, <1>8
<1>10. wire' = wire \o [i \in DOMAIN s |-> Profile(User(t, s[i]))]
  <2> HIDE DEF At, Us
  <2> QED
    BY <1>7, <1>9
<1> HIDE DEF At, Us, New
<1> QED
  BY <1>4, <1>5, <1>10

(* Of the partners in the placed rows whose profile is neither there nor   *)
(* asked for, each has a first row.                                        *)
LEMMA FirstRow ==
  ASSUME Base, NEW t \in Tables, NEW f \in Onto, NEW i \in DOMAIN f,
         User(t, i) \notin known, Profile(User(t, i)) \notin Asked
  PROVE  \E k \in Fresh(t, f) : User(t, k) = User(t, i)
<1> DEFINE Same == {j \in DOMAIN f : User(t, j) = User(t, i)}
<1>1. Same \subseteq Nat /\ Same # {}
  BY PlacementShape
<1>2. PICK k \in Same : \A j \in Same : k <= j
  <2> HIDE DEF Same
  <2> QED
    BY <1>1, Least
<1>3. k \in DOMAIN f /\ User(t, k) = User(t, i)
  BY <1>2
<1>4. ASSUME NEW j \in DOMAIN f, j < k PROVE User(t, j) # User(t, k)
  BY <1>2, <1>4, PlacementShape
<1> QED
  BY <1>3, <1>4 DEF Fresh

(* The listens of a layout: for profiles the client neither has nor waits  *)
(* for, one for each user, and for the partner of every placed row.        *)
LEMMA LayoutWire ==
  ASSUME Base, NEW t \in Tables, NEW f \in Onto, NEW s \in InOrder(Fresh(t, f)),
         wire' = wire \o [i \in DOMAIN s |-> Profile(User(t, s[i]))], UNCHANGED <<heard, known>>
  PROVE  /\ wire' \in Seq(Listen) /\ WireSound'
         /\ Asked \subseteq Asked'
         /\ \A r \in Ref : r \in Asked' => r \in Asked
         /\ \A i \in DOMAIN wire' : wire'[i] \in Ref => i \in DOMAIN wire /\ wire'[i] = wire[i]
         /\ \A i \in DOMAIN f : User(t, i) \notin known => Profile(User(t, i)) \in Asked'
<1>1. PICK new : new = [i \in DOMAIN s |-> Profile(User(t, s[i]))]
  OBVIOUS
<1>2. /\ Fresh(t, f) \subseteq DOMAIN f /\ IsFiniteSet(Fresh(t, f)) /\ Fresh(t, f) \subseteq Nat
      /\ \A i \in DOMAIN f : User(t, i) \in Users
  <2>1. Fresh(t, f) \subseteq DOMAIN f
    BY DEF Fresh
  <2>2. DOMAIN f \subseteq DOMAIN t /\ DOMAIN f \subseteq Nat /\ IsFiniteSet(DOMAIN f)
    BY PlacementShape
  <2> QED
    BY <2>1, <2>2, FS_Subset, TableShape
<1>3. /\ s \in [1..Cardinality(Fresh(t, f)) -> Fresh(t, f)]
      /\ \A i, j \in DOMAIN s : i < j => s[i] < s[j]
  BY DEF InOrder
<1>4. Cardinality(Fresh(t, f)) \in Nat
  BY <1>2, FS_CardinalityType
<1>5. \A i, j \in DOMAIN s : s[i] = s[j] => i = j
  <2> SUFFICES ASSUME NEW i \in DOMAIN s, NEW j \in DOMAIN s, s[i] = s[j], i # j PROVE FALSE
    OBVIOUS
  <2>1. i \in Nat /\ j \in Nat /\ s[i] \in Nat /\ s[j] \in Nat
    BY <1>2, <1>3, <1>4
  <2>2. s[i] < s[j] \/ s[j] < s[i]
    BY <1>3, <2>1
  <2> QED
    BY <2>1, <2>2
<1>6. s \in Injection(1..Cardinality(Fresh(t, f)), Fresh(t, f))
  BY <1>3, <1>5 DEF Injection, IsInjective
<1>7. /\ DOMAIN s = 1..Cardinality(Fresh(t, f)) /\ \A i \in DOMAIN s : s[i] \in Fresh(t, f)
      /\ \A k \in Fresh(t, f) : \E i \in DOMAIN s : s[i] = k
  BY <1>2, <1>6, Enumerated
<1>8. /\ \A i \in DOMAIN s : new[i] = Profile(User(t, s[i])) /\ User(t, s[i]) \in Users
      /\ DOMAIN new = DOMAIN s
  BY <1>1, <1>2, <1>7
<1>9. new \in Seq(Listen)
  <2>1. \A i \in DOMAIN s : Profile(User(t, s[i])) \in Listen
    BY <1>8, Refs
  <2> QED
    BY <1>1, <1>4, <1>7, <2>1
<1>10. /\ wire' \in Seq(Listen)
       /\ \A i \in DOMAIN wire : i \in DOMAIN wire' /\ wire'[i] = wire[i]
       /\ \A i \in DOMAIN wire' : i \notin DOMAIN wire =>
            i - Len(wire) \in DOMAIN new /\ wire'[i] = new[i - Len(wire)] /\ i > Len(wire)
       /\ DOMAIN wire = 1..Len(wire) /\ Len(wire) \in Nat
       /\ Asked' = Asked \cup {new[i] : i \in DOMAIN new}
  BY <1>1, <1>9, Sent DEF Base
<1>11. \A i \in DOMAIN new : new[i] \notin Ref /\ new[i] \notin Asked
  BY <1>7, <1>8, Refs DEF Fresh
<1>12. \A i, j \in DOMAIN new : new[i] = new[j] => i = j
  <2> SUFFICES ASSUME NEW i \in DOMAIN s, NEW j \in DOMAIN s, new[i] = new[j] PROVE i = j
    BY <1>8
  <2>1. User(t, s[i]) = User(t, s[j])
    BY <1>8, Refs
  <2>2. /\ s[i] \in DOMAIN f /\ s[j] \in DOMAIN f /\ s[i] \in Nat /\ s[j] \in Nat
        /\ ~(s[i] < s[j]) /\ ~(s[j] < s[i])
    BY <1>2, <1>7, <2>1 DEF Fresh
  <2>3. s[i] = s[j]
    BY <2>2
  <2> QED
    BY <1>5, <2>3
<1>13. \A i \in DOMAIN wire' : wire'[i] \in Ref => i \in DOMAIN wire /\ wire'[i] = wire[i]
  BY <1>10, <1>11
<1>14. \A i \in DOMAIN wire' : wire'[i] \in Ref => Heard(heard', wire'[i])
  BY <1>13 DEF Base, WireSound, Heard
<1>15. \A i, j \in DOMAIN wire' : wire'[i] = wire'[j] => i = j
  <2> SUFFICES ASSUME NEW i \in DOMAIN wire', NEW j \in DOMAIN wire', wire'[i] = wire'[j]
               PROVE  i = j
    OBVIOUS
  <2>1. CASE i \in DOMAIN wire /\ j \in DOMAIN wire
    BY <1>10, <2>1 DEF Base, WireSound
  <2>2. CASE i \notin DOMAIN wire /\ j \notin DOMAIN wire
    <3>1. i - Len(wire) = j - Len(wire)
      BY <1>10, <1>12, <2>2
    <3>2. i \in Nat /\ j \in Nat
      BY <1>10
    <3> QED
      BY <1>10, <3>1, <3>2
  <2>3. \A k \in DOMAIN wire' : wire'[k] \in Asked <=> k \in DOMAIN wire
    <3>1. \A k \in DOMAIN wire : wire[k] \in Asked
      BY DEF Asked
    <3> QED
      BY <1>10, <1>11, <3>1
  <2> QED
    BY <2>1, <2>2, <2>3
<1>16. \A r \in Asked' : r \in Asked \/ \E i \in DOMAIN s : r = Profile(User(t, s[i]))
  BY <1>8, <1>10
<1>17. ASSUME NEW u \in known' PROVE Profile(u) \notin Asked'
  <2>1. u \in known /\ u \in Users /\ Profile(u) \notin Asked
    BY <1>17 DEF Base, TypeOK, WireSound
  <2>2. ASSUME NEW i \in DOMAIN s PROVE Profile(u) # Profile(User(t, s[i]))
    BY <1>7, <1>8, <2>1, Refs DEF Fresh
  <2> QED
    BY <1>16, <2>1, <2>2
<1>18. WireSound'
  BY <1>14, <1>15, <1>17 DEF WireSound
<1>19. \A r \in Ref : r \in Asked' => r \in Asked
  BY <1>8, <1>16, Refs
<1>20. ASSUME NEW i \in DOMAIN f, User(t, i) \notin known PROVE Profile(User(t, i)) \in Asked'
  <2>1. CASE Profile(User(t, i)) \in Asked
    BY <1>10, <2>1
  <2>2. CASE Profile(User(t, i)) \notin Asked
    <3>1. PICK k \in Fresh(t, f) : User(t, k) = User(t, i)
      BY <1>20, <2>2, FirstRow
    <3>2. PICK j \in DOMAIN s : s[j] = k
      BY <1>7
    <3>3. new[j] = Profile(User(t, i)) /\ j \in DOMAIN new
      BY <1>8, <3>1, <3>2
    <3> QED
      BY <1>10, <3>3
  <2> QED
    BY <2>1, <2>2
<1> QED
  BY <1>10, <1>13, <1>18, <1>19, <1>20

LEMMA LayoutBase ==
  ASSUME Base, Layout
  PROVE  Base'
<1>1. PICK t \in Tables, f \in Onto :
        /\ \A i \in DOMAIN f :
             /\ shown'[f[i]] = rows[t[i]]
             /\ watch'[f[i]] = watch[f[i]] \cup {User(t, i)}
             /\ events'[f[i]] = Raised(f[i], User(t, i))
        /\ \A c \in Cells : (\A i \in DOMAIN f : f[i] # c) =>
             shown'[c] = NoRow /\ watch'[c] = watch[c] /\ events'[c] = events[c]
        /\ \E s \in InOrder(Fresh(t, f)) :
             wire' = wire \o [i \in DOMAIN s |-> Profile(User(t, s[i]))]
  BY LayoutShape
<1>2. /\ UNCHANGED <<alive, signedIn, online, known, drops, heard, rows, name, shuffled>>
      /\ dirty' = FALSE /\ overtaken' \subseteq Cells
      /\ DOMAIN shown' = Cells /\ DOMAIN watch' = Cells /\ DOMAIN events' = Cells
      /\ shown' = [c \in Cells |-> shown'[c]] /\ watch' = [c \in Cells |-> watch'[c]]
      /\ events' = [c \in Cells |-> events'[c]]
  BY DEF Layout, netVars
<1>3. \A i \in DOMAIN f : /\ f[i] \in Cells /\ User(t, i) \in Users
                           /\ rows[t[i]] # NoRow /\ Heard(heard, rows[t[i]]) /\ t[i] \in Users
  BY TableShape, PlacementShape
<1>4. wire' \in Seq(Listen) /\ WireSound'
  BY <1>1, <1>2, LayoutWire
<1>5. ASSUME NEW c \in Cells
      PROVE  /\ shown'[c] \in Ref \cup {NoRow} /\ watch'[c] \in SUBSET Users
             /\ events'[c] \in Seq(Users) /\ (shown'[c] # NoRow => Heard(heard, shown'[c]))
  <2>1. watch[c] \in SUBSET Users /\ events[c] \in Seq(Users) /\ rows \in [Users -> Ref \cup {NoRow}]
    BY DEF Base, TypeOK
  <2>2. CASE \E i \in DOMAIN f : f[i] = c
    <3>1. PICK i \in DOMAIN f : f[i] = c
      BY <2>2
    <3>2. events'[c] \in Seq(Users)
      <4>1. events'[c] = Raised(c, User(t, i)) /\ User(t, i) \in Users
        BY <1>1, <1>3, <3>1
      <4> QED
        BY <2>1, <4>1 DEF Raised
    <3> QED
      BY <1>1, <1>3, <2>1, <3>1, <3>2
  <2>3. CASE \A i \in DOMAIN f : f[i] # c
    BY <1>1, <2>1, <2>3
  <2> QED
    BY <2>2, <2>3
<1>6. /\ shown' \in [Cells -> Ref \cup {NoRow}] /\ watch' \in [Cells -> SUBSET Users]
      /\ events' \in [Cells -> Seq(Users)]
  BY <1>2, <1>5
<1>7. TypeOK'
  BY <1>2, <1>4, <1>6 DEF Base, TypeOK
<1>8. RowsSound'
  BY <1>2, <1>5 DEF Base, RowsSound, Heard
<1>9. HeardOwn'
  BY <1>2 DEF Base, HeardOwn, Between
<1> QED
  BY <1>4, <1>7, <1>8, <1>9 DEF Base

LEMMA BaseInit ==
  ASSUME Init
  PROVE  Base
<1> USE DEF Init
<1>1. TypeOK
  <2>1. <<>> \in Seq(Listen) /\ <<>> \in Seq(Message) /\ <<>> \in Seq(Users) /\ Len(<<>>) = 0
    OBVIOUS
  <2>2. drops \in 0..MaxDrops /\ \A p \in Partners : Len(heard[p]) <= MaxHeard
    BY <2>1, BoundAssumption
  <2>3. signedIn \in BOOLEAN /\ online \in BOOLEAN /\ dirty \in BOOLEAN
    OBVIOUS
  <2> QED
    BY <2>1, <2>2, <2>3, FamiliarAssumption DEF TypeOK
<1>2. \A p \in Partners : DOMAIN heard[p] = {}
  OBVIOUS
<1>3. HeardOwn
  BY <1>2 DEF HeardOwn
<1>4. DOMAIN wire = {}
  OBVIOUS
<1>5. WireSound
  BY <1>4 DEF WireSound, Asked
<1>6. RowsSound
  BY DEF RowsSound
<1> QED
  BY <1>1, <1>3, <1>5, <1>6 DEF Base

LEMMA BaseNext ==
  ASSUME Base, [Next]_vars
  PROVE  Base'
<1>1. CASE Revoke \/ Disconnect
  BY <1>1, AccountBase
<1>2. CASE Reconnect
  BY <1>2, ReconnectBase
<1>3. CASE \E p \in Partners : \E m \in Between(p) : KeyAdded(p, m)
  BY <1>3, KeyBase
<1>4. CASE ValueArrives
  BY <1>4, ValueBase
<1>5. CASE ProfileArrives
  BY <1>5, ProfileBase
<1>6. CASE Layout
  BY <1>6, LayoutBase
<1>7. CASE \E c \in Cells : NameSet(c)
  BY <1>7, NameBase
<1>8. CASE CellFails \/ UNCHANGED vars
  <2>1. /\ UNCHANGED <<signedIn, online, known, drops, wire, heard, rows, dirty, events, shuffled,
                        shown, watch, name, overtaken>>
        /\ alive' = FALSE \/ alive' = alive
    BY <1>8 DEF CellFails, vars, netVars, cellVars
  <2>2. TypeOK'
    BY <2>1 DEF Base, TypeOK
  <2> QED
    BY <2>1, <2>2 DEF Base, HeardOwn, Between, WireSound, RowsSound, Heard, Asked
<1> QED
  BY <1>1, <1>2, <1>3, <1>4, <1>5, <1>6, <1>7, <1>8 DEF Next, Arrives

----------------------------------------------------------------------------
(* The rows.  The listens of a list that no reconnect mixed are answered   *)
(* in the order of the list.                                               *)

SentInOrder(p) ==
  \A i, j \in DOMAIN wire : \A a, b \in 1..MaxHeard :
    i < j /\ wire[i] = <<p, a>> /\ wire[j] = <<p, b>> => a < b

AnsweredFirst(p) ==
  \A i, j \in DOMAIN heard[p] : <<p, i>> \notin Asked /\ <<p, j>> \in Asked => i < j

Ordered == \A p \in Partners \ shuffled : SentInOrder(p) /\ AnsweredFirst(p)

RowInv == Base /\ Ordered /\ OneRowEach /\ RowFollowsList

LEMMA Places ==
  ASSUME TypeOK, NEW p \in Partners, NEW i \in DOMAIN heard[p]
  PROVE  i \in 1..MaxHeard /\ <<p, i>> \in Ref /\ Heard(heard, <<p, i>>)
<1>1. heard[p] \in Seq(Message) /\ Len(heard[p]) <= MaxHeard /\ Len(heard[p]) \in Nat
  BY DEF TypeOK
<1>2. i \in 1..MaxHeard
  BY <1>1, BoundAssumption
<1> QED
  BY <1>2, Refs DEF Heard

LEMMA HeardPlace ==
  ASSUME NEW p \in Partners, NEW a, Heard(heard, <<p, a>>)
  PROVE  a \in DOMAIN heard[p]
BY DEF Heard

(* Steps that neither raise a key nor answer for a message.                *)
LEMMA RowsKept ==
  ASSUME Base, UNCHANGED <<rows, heard>>, signedIn' => signedIn, shuffled \subseteq shuffled',
         \A r \in Ref : r \in Asked' <=> r \in Asked
  PROVE  /\ OneRowEach => OneRowEach'
         /\ RowFollowsList => RowFollowsList'
         /\ \A p \in Partners : AnsweredFirst(p) => AnsweredFirst(p)'
<1>1. \A p \in Partners : \A i \in DOMAIN heard[p] : <<p, i>> \in Asked' <=> <<p, i>> \in Asked
  BY Places DEF Base
<1>2. ASSUME OneRowEach PROVE OneRowEach'
  BY <1>1, <1>2 DEF OneRowEach
<1>3. ASSUME RowFollowsList PROVE RowFollowsList'
  BY <1>1, <1>3 DEF RowFollowsList
<1>4. ASSUME NEW p \in Partners, AnsweredFirst(p) PROVE AnsweredFirst(p)'
  BY <1>1, <1>4 DEF AnsweredFirst
<1> QED
  BY <1>2, <1>3, <1>4

LEMMA StillRows ==
  ASSUME RowInv, UNCHANGED <<rows, heard, wire, shuffled>>, signedIn' => signedIn
  PROVE  Ordered' /\ OneRowEach' /\ RowFollowsList'
<1>1. Asked' = Asked
  BY DEF Asked
<1>2. \A p \in Partners : SentInOrder(p) => SentInOrder(p)'
  BY DEF SentInOrder
<1> QED
  BY <1>1, <1>2, RowsKept DEF RowInv, Ordered

LEMMA ReconnectRows ==
  ASSUME RowInv, Reconnect
  PROVE  Ordered' /\ OneRowEach' /\ RowFollowsList'
<1>1. /\ UNCHANGED <<rows, heard, signedIn>>
      /\ shuffled' = shuffled \cup
           {p \in Partners : \E i, j \in 1..MaxHeard : i # j /\ {<<p, i>>, <<p, j>>} \subseteq Asked}
  BY DEF Reconnect
<1>2. Asked' = Asked /\ WireSound' /\ wire' \in Seq(Listen)
  BY ReconnectWire DEF RowInv
<1>3. ASSUME NEW p \in Partners, p \notin shuffled' PROVE SentInOrder(p)'
  <2> SUFFICES ASSUME NEW i \in DOMAIN wire', NEW j \in DOMAIN wire',
                      NEW a \in 1..MaxHeard, NEW b \in 1..MaxHeard,
                      i < j, wire'[i] = <<p, a>>, wire'[j] = <<p, b>>
               PROVE  FALSE
    BY DEF SentInOrder
  <2>1. i # j
    BY <1>2
  <2>2. a # b
    BY <1>2, <2>1 DEF WireSound
  <2>3. <<p, a>> \in Asked' /\ <<p, b>> \in Asked'
    BY DEF Asked
  <2> QED
    BY <1>1, <1>2, <1>3, <2>2, <2>3
<1> QED
  BY <1>1, <1>2, <1>3, RowsKept DEF RowInv, Ordered

LEMMA KeyRows ==
  ASSUME RowInv, NEW p \in Partners, NEW m \in Between(p), KeyAdded(p, m)
  PROVE  Ordered' /\ OneRowEach' /\ RowFollowsList'
<1> USE DEF RowInv
<1>1. PICK n : n = <<p, Len(heard[p]) + 1>>
  OBVIOUS
<1>2. PICK k : k = n[2]
  OBVIOUS
<1>3. /\ n \in Ref /\ ~Heard(heard, n) /\ n = <<p, k>>
      /\ \A q \in Partners : q # p => heard'[q] = heard[q]
      /\ DOMAIN heard'[p] = DOMAIN heard[p] \cup {k}
      /\ \A i \in DOMAIN heard[p] : i < k
  BY <1>1, <1>2, KeyHeard DEF Base
<1>4. UNCHANGED <<rows, signedIn, shuffled>> /\ wire' = Append(wire, n)
  BY <1>1 DEF KeyAdded, netVars
<1>5. wire \in Seq(Listen) /\ n \in Listen
  BY <1>3, Refs DEF Base, TypeOK
<1>6. /\ DOMAIN wire' = DOMAIN wire \cup {Len(wire) + 1} /\ Len(wire) \in Nat
      /\ DOMAIN wire = 1..Len(wire)
      /\ \A i \in DOMAIN wire : wire'[i] = wire[i]
      /\ wire'[Len(wire) + 1] = n
  BY <1>4, <1>5, AppendProperties
<1>7. Asked' = Asked \cup {n}
  <2>1. ASSUME NEW x \in Asked' PROVE x \in Asked \/ x = n
    BY <1>6 DEF Asked
  <2>2. ASSUME NEW x \in Asked PROVE x \in Asked'
    BY <1>6 DEF Asked
  <2>3. n \in Asked'
    BY <1>6 DEF Asked
  <2> QED
    BY <2>1, <2>2, <2>3
<1>8. n \notin Asked
  BY <1>3 DEF Base, WireSound, Asked
<1>9. \A q \in Partners : \A i \in DOMAIN heard[q] : <<q, i>> \in Asked' <=> <<q, i>> \in Asked
  <2> SUFFICES ASSUME NEW q \in Partners, NEW i \in DOMAIN heard[q] PROVE <<q, i>> # n
    BY <1>7
  <2>1. Heard(heard, <<q, i>>)
    BY Places DEF Base
  <2> QED
    BY <1>3, <2>1
<1>10. ASSUME NEW q \in Partners, SentInOrder(q) PROVE SentInOrder(q)'
  <2> SUFFICES ASSUME NEW i \in DOMAIN wire', NEW j \in DOMAIN wire',
                      NEW a \in 1..MaxHeard, NEW b \in 1..MaxHeard,
                      i < j, wire'[i] = <<q, a>>, wire'[j] = <<q, b>>
               PROVE  a < b
    BY DEF SentInOrder
  <2>1. i \in DOMAIN wire /\ wire[i] = <<q, a>>
    BY <1>6
  <2>2. CASE j \in DOMAIN wire
    BY <1>6, <1>10, <2>1, <2>2 DEF SentInOrder
  <2>3. CASE j = Len(wire) + 1
    <3>1. q = p /\ b = k
      BY <1>3, <1>6, <2>3
    <3>2. <<q, a>> \in Ref /\ Heard(heard, wire[i])
      BY <2>1, Refs DEF Base, WireSound
    <3>3. a \in DOMAIN heard[q]
      BY <2>1, <3>2 DEF Heard
    <3> QED
      BY <1>3, <3>1, <3>3
  <2> QED
    BY <1>6, <2>2, <2>3
<1>11. ASSUME NEW q \in Partners, AnsweredFirst(q) PROVE AnsweredFirst(q)'
  <2> SUFFICES ASSUME NEW i \in DOMAIN heard'[q], NEW j \in DOMAIN heard'[q],
                      <<q, i>> \notin Asked', <<q, j>> \in Asked'
               PROVE  i < j
    BY DEF AnsweredFirst
  <2>1. i \in DOMAIN heard[q]
    BY <1>3, <1>7
  <2>2. CASE j \in DOMAIN heard[q]
    BY <1>9, <1>11, <2>1, <2>2 DEF AnsweredFirst
  <2>3. CASE j \notin DOMAIN heard[q]
    BY <1>3, <2>1, <2>3
  <2> QED
    BY <2>2, <2>3
<1>12. OneRowEach'
  <2> SUFFICES ASSUME signedIn, NEW u \in Users
               PROVE  /\ rows[u] # NoRow => rows[u][1] = u
                      /\ rows[u] # NoRow <=>
                           u \in Partners /\ \E i \in DOMAIN heard'[u] : <<u, i>> \notin Asked'
    BY <1>4 DEF OneRowEach
  <2>1. /\ rows[u] # NoRow => rows[u][1] = u
        /\ rows[u] # NoRow <=>
             u \in Partners /\ \E i \in DOMAIN heard[u] : <<u, i>> \notin Asked
    BY DEF OneRowEach
  <2>2. ASSUME u \in Partners
        PROVE  (\E i \in DOMAIN heard'[u] : <<u, i>> \notin Asked')
                 <=> \E i \in DOMAIN heard[u] : <<u, i>> \notin Asked
    <3>1. ASSUME NEW i \in DOMAIN heard'[u], <<u, i>> \notin Asked'
          PROVE  i \in DOMAIN heard[u] /\ <<u, i>> \notin Asked
      BY <1>3, <1>7, <2>2, <3>1
    <3>2. ASSUME NEW i \in DOMAIN heard[u], <<u, i>> \notin Asked
          PROVE  i \in DOMAIN heard'[u] /\ <<u, i>> \notin Asked'
      BY <1>3, <1>9, <2>2, <3>2
    <3> QED
      BY <3>1, <3>2
  <2> QED
    BY <2>1, <2>2
<1>13. RowFollowsList'
  <2> SUFFICES ASSUME signedIn, NEW q \in Partners \ shuffled, NEW i \in DOMAIN heard'[q],
                      rows[q] # NoRow, <<q, i>> \notin Asked'
               PROVE  i <= rows[q][2]
    BY <1>4 DEF RowFollowsList
  <2>1. i \in DOMAIN heard[q] /\ <<q, i>> \notin Asked
    BY <1>3, <1>7
  <2> QED
    BY <2>1 DEF RowFollowsList
<1> QED
  BY <1>4, <1>10, <1>11, <1>12, <1>13 DEF Ordered

LEMMA TakenOrder ==
  ASSUME Base, Ordered, Answered, wire' = Tail(wire), UNCHANGED <<heard, shuffled>>
  PROVE  Ordered'
<1> SUFFICES ASSUME NEW q \in Partners \ shuffled PROVE SentInOrder(q)' /\ AnsweredFirst(q)'
  BY DEF Ordered
<1>1. SentInOrder(q) /\ AnsweredFirst(q)
  BY DEF Ordered
<1>2. /\ \A i \in DOMAIN wire' : i + 1 \in DOMAIN wire /\ wire'[i] = wire[i + 1]
      /\ Asked' = Asked \ {Head(wire)} /\ Head(wire) = wire[1] /\ wire' \in Seq(Listen)
  BY Taken DEF Base
<1>3. wire \in Seq(Listen) /\ wire # <<>>
  BY DEF Base, TypeOK, Answered
<1>4. SentInOrder(q)'
  <2> SUFFICES ASSUME NEW i \in DOMAIN wire', NEW j \in DOMAIN wire',
                      NEW a \in 1..MaxHeard, NEW b \in 1..MaxHeard,
                      i < j, wire'[i] = <<q, a>>, wire'[j] = <<q, b>>
               PROVE  a < b
    BY DEF SentInOrder
  <2>1. i + 1 \in DOMAIN wire /\ j + 1 \in DOMAIN wire /\ i + 1 < j + 1
    BY <1>2
  <2>2. wire[i + 1] = <<q, a>> /\ wire[j + 1] = <<q, b>>
    BY <1>2
  <2> QED
    BY <1>1, <2>1, <2>2 DEF SentInOrder
<1>5. AnsweredFirst(q)'
  <2> SUFFICES ASSUME NEW i \in DOMAIN heard[q], NEW j \in DOMAIN heard[q],
                      <<q, i>> \notin Asked', <<q, j>> \in Asked'
               PROVE  i < j
    BY DEF AnsweredFirst
  <2>1. <<q, j>> \in Asked /\ <<q, j>> # wire[1]
    BY <1>2
  <2>2. CASE <<q, i>> \notin Asked
    BY <1>1, <2>1, <2>2 DEF AnsweredFirst
  <2>3. CASE <<q, i>> \in Asked
    <3>1. wire[1] = <<q, i>> /\ 1 \in DOMAIN wire
      BY <1>2, <1>3, <2>3
    <3>2. PICK k \in DOMAIN wire : wire[k] = <<q, j>>
      BY <2>1 DEF Asked
    <3>3. 1 < k
      BY <1>3, <2>1, <3>2
    <3>4. i \in 1..MaxHeard /\ j \in 1..MaxHeard
      BY Places DEF Base
    <3> QED
      BY <1>1, <3>1, <3>2, <3>3, <3>4 DEF SentInOrder
  <2> QED
    BY <2>2, <2>3
<1> QED
  BY <1>4, <1>5

LEMMA ValueRows ==
  ASSUME RowInv, ValueArrives
  PROVE  Ordered' /\ OneRowEach' /\ RowFollowsList'
<1> USE DEF RowInv
<1>1. PICK r : r = Head(wire)
  OBVIOUS
<1>2. PICK p, h : r = <<p, h>> /\ p \in Partners /\ r \in Ref
  BY <1>1 DEF ValueArrives, Ref
<1>3. Heard(heard, r) /\ r # NoRow
  BY <1>1, NextValue DEF ValueArrives
<1>4. h \in DOMAIN heard[p] /\ p \in Users
  BY <1>2, <1>3 DEF Heard, Users
<1>5. /\ UNCHANGED <<heard, signedIn, shuffled>> /\ wire' = Tail(wire) /\ Answered
      /\ rows' = [rows EXCEPT ![PartnerId(MessageAt(r))] = r]
  BY <1>1 DEF ValueArrives, netVars
<1>6. Ordered'
  BY <1>5, TakenOrder
<1>7. Asked' = Asked \ {r} /\ r \in Asked
  BY <1>1, <1>5, Taken DEF Base
<1>8. ASSUME signedIn PROVE rows' = [rows EXCEPT ![p] = r]
  <2>1. PartnerId(MessageAt(r)) = r[1]
    BY <1>3, <1>8, PartnerOwn DEF Base
  <2> QED
    BY <1>2, <1>5, <2>1
<1>9. ASSUME signedIn
      PROVE  /\ rows'[p] = r /\ \A u \in Users : u # p => rows'[u] = rows[u]
             /\ \A u \in Users : \A i : u # p => (<<u, i>> \in Asked' <=> <<u, i>> \in Asked)
             /\ <<p, h>> \notin Asked'
  <2>1. rows \in [Users -> Ref \cup {NoRow}]
    BY DEF Base, TypeOK
  <2>2. rows'[p] = r /\ \A u \in Users : u # p => rows'[u] = rows[u]
    BY <1>4, <1>8, <1>9, <2>1
  <2>3. \A u \in Users : \A i : u # p => <<u, i>> # r
    BY <1>2
  <2> QED
    BY <1>2, <1>7, <2>2, <2>3
<1>10. OneRowEach'
  <2> SUFFICES ASSUME signedIn, NEW u \in Users
               PROVE  /\ rows'[u] # NoRow => rows'[u][1] = u
                      /\ rows'[u] # NoRow <=>
                           u \in Partners /\ \E i \in DOMAIN heard[u] : <<u, i>> \notin Asked'
    BY <1>5 DEF OneRowEach
  <2>1. CASE u = p
    <3>1. rows'[u] = r /\ r[1] = u /\ <<u, h>> \notin Asked' /\ h \in DOMAIN heard[u]
      BY <1>2, <1>4, <1>9, <2>1
    <3> QED
      BY <1>2, <1>3, <2>1, <3>1
  <2>2. CASE u # p
    <3>1. rows'[u] = rows[u] /\ \A i : <<u, i>> \in Asked' <=> <<u, i>> \in Asked
      BY <1>9, <2>2
    <3> QED
      BY <3>1 DEF OneRowEach
  <2> QED
    BY <2>1, <2>2
<1>11. RowFollowsList'
  <2> SUFFICES ASSUME signedIn, NEW q \in Partners \ shuffled, NEW i \in DOMAIN heard[q],
                      rows'[q] # NoRow, <<q, i>> \notin Asked'
               PROVE  i <= rows'[q][2]
    BY <1>5 DEF RowFollowsList
  <2>1. CASE q = p
    <3>1. rows'[q][2] = h /\ h \in 1..MaxHeard /\ i \in 1..MaxHeard
      BY <1>2, <1>4, <1>9, <2>1, Places DEF Base
    <3>2. CASE <<q, i>> \in Asked
      <4>1. <<q, i>> = <<p, h>>
        BY <1>2, <1>7, <3>2
      <4> QED
        BY <3>1, <4>1
    <3>3. CASE <<q, i>> \notin Asked
      <4>1. i < h
        BY <1>2, <1>4, <1>7, <2>1, <3>3 DEF Ordered, AnsweredFirst
      <4> QED
        BY <3>1, <4>1
    <3> QED
      BY <3>2, <3>3
  <2>2. CASE q # p
    <3>1. rows'[q] = rows[q] /\ <<q, i>> \notin Asked
      BY <1>9, <2>2 DEF Users
    <3> QED
      BY <3>1 DEF RowFollowsList
  <2> QED
    BY <2>1, <2>2
<1> QED
  BY <1>6, <1>10, <1>11

LEMMA ProfileRows ==
  ASSUME RowInv, ProfileArrives
  PROVE  Ordered' /\ OneRowEach' /\ RowFollowsList'
<1>1. /\ UNCHANGED <<rows, heard, signedIn, shuffled>> /\ wire' = Tail(wire) /\ Answered
      /\ Head(wire) \notin Ref
  BY DEF ProfileArrives
<1>2. Asked' = Asked \ {Head(wire)}
  BY <1>1, Taken DEF RowInv, Base
<1>3. \A r \in Ref : r \in Asked' <=> r \in Asked
  BY <1>1, <1>2
<1> QED
  BY <1>1, <1>3, RowsKept, TakenOrder DEF RowInv

LEMMA LayoutRows ==
  ASSUME RowInv, Layout
  PROVE  Ordered' /\ OneRowEach' /\ RowFollowsList'
<1>1. UNCHANGED <<rows, heard, signedIn, shuffled, known>>
  BY DEF Layout, netVars
<1>2. PICK t \in Tables, f \in Onto : \E s \in InOrder(Fresh(t, f)) :
        wire' = wire \o [i \in DOMAIN s |-> Profile(User(t, s[i]))]
  BY LayoutShape DEF RowInv
<1>3. /\ Asked \subseteq Asked'
      /\ \A r \in Ref : r \in Asked' => r \in Asked
      /\ \A i \in DOMAIN wire' : wire'[i] \in Ref => i \in DOMAIN wire /\ wire'[i] = wire[i]
  BY <1>1, <1>2, LayoutWire DEF RowInv
<1>4. ASSUME NEW p \in Partners, SentInOrder(p) PROVE SentInOrder(p)'
  <2> SUFFICES ASSUME NEW i \in DOMAIN wire', NEW j \in DOMAIN wire',
                      NEW a \in 1..MaxHeard, NEW b \in 1..MaxHeard,
                      i < j, wire'[i] = <<p, a>>, wire'[j] = <<p, b>>
               PROVE  a < b
    BY DEF SentInOrder
  <2>1. i \in DOMAIN wire /\ j \in DOMAIN wire /\ wire[i] = <<p, a>> /\ wire[j] = <<p, b>>
    BY <1>3, Refs
  <2> QED
    BY <1>4, <2>1 DEF SentInOrder
<1> QED
  BY <1>1, <1>3, <1>4, RowsKept DEF RowInv, Ordered

LEMMA RowInvNext ==
  ASSUME RowInv, [Next]_vars
  PROVE  RowInv'
<1>1. Base'
  BY BaseNext DEF RowInv
<1>2. CASE Revoke \/ Disconnect \/ (\E c \in Cells : NameSet(c)) \/ CellFails \/ UNCHANGED vars
  <2>1. UNCHANGED <<rows, heard, wire, shuffled>> /\ (signedIn' => signedIn)
    BY <1>2 DEF Revoke, Disconnect, NameSet, CellFails, vars, netVars
  <2> QED
    BY <1>1, <2>1, StillRows DEF RowInv
<1>3. CASE Reconnect
  BY <1>1, <1>3, ReconnectRows DEF RowInv
<1>4. CASE \E p \in Partners : \E m \in Between(p) : KeyAdded(p, m)
  BY <1>1, <1>4, KeyRows DEF RowInv
<1>5. CASE ValueArrives
  BY <1>1, <1>5, ValueRows DEF RowInv
<1>6. CASE ProfileArrives
  BY <1>1, <1>6, ProfileRows DEF RowInv
<1>7. CASE Layout
  BY <1>1, <1>7, LayoutRows DEF RowInv
<1> QED
  BY <1>2, <1>3, <1>4, <1>5, <1>6, <1>7 DEF Next, Arrives

LEMMA RowInvInit ==
  ASSUME Init
  PROVE  RowInv
<1>1. /\ DOMAIN wire = {} /\ \A p \in Partners : DOMAIN heard[p] = {}
      /\ \A u \in Users : rows[u] = NoRow
  BY DEF Init
<1>2. Ordered
  BY <1>1 DEF Ordered, SentInOrder, AnsweredFirst
<1>3. OneRowEach /\ RowFollowsList
  BY <1>1 DEF OneRowEach, RowFollowsList
<1> QED
  BY <1>2, <1>3, BaseInit DEF RowInv

(* Types are kept: in particular the wire holds listens for what was heard *)
(* and for profiles of users, and no list outgrows its bound.              *)
THEOREM TypeCorrect == Spec => []TypeOK
<1>1. Base /\ [Next]_vars => Base'
  BY BaseNext
<1>2. Base => TypeOK
  BY DEF Base
<1> QED
  BY <1>1, <1>2, BaseInit, PTL DEF Spec

(* While the account is signed in, a conversation has one row, under its   *)
(* partner, from the first of its messages that arrives on.                *)
THEOREM ConversationsHaveOneRow == Spec => []OneRowEach
<1>1. RowInv /\ [Next]_vars => RowInv'
  BY RowInvNext
<1>2. RowInv => OneRowEach
  BY DEF RowInv
<1> QED
  BY <1>1, <1>2, RowInvInit, PTL DEF Spec

(* Unless a reconnect mixed the listens of its list, a row holds the last  *)
(* message of the list among those that arrived.                           *)
THEOREM RowsFollowLists == Spec => []RowFollowsList
<1>1. RowInv /\ [Next]_vars => RowInv'
  BY RowInvNext
<1>2. RowInv => RowFollowsList
  BY DEF RowInv
<1> QED
  BY <1>1, <1>2, RowInvInit, PTL DEF Spec

----------------------------------------------------------------------------
(* The names.  A cell that got its row with no other profile missing has   *)
(* at most its row's profile to come: until then it is asked for, and once *)
(* it is there the last event of the cell, or the name it shows, is its.   *)

NameReady(c, u) ==
  /\ u \in watch[c] /\ watch[c] \subseteq known \cup {u}
  /\ u \notin known => Profile(u) \in Asked
  /\ u \in known => IF events[c] = <<>> THEN name[c] = u ELSE events[c][Len(events[c])] = u

NameInv ==
  signedIn => \A c \in Cells \ overtaken : shown[c] # NoRow => NameReady(c, ShownPartner(c))

LEMMA NameInvGives ==
  ASSUME Base, NameInv
  PROVE  NameMatchesRow
<1> SUFFICES ASSUME signedIn, NEW c \in Cells \ overtaken, shown[c] # NoRow, events[c] = <<>>,
                    Profile(ShownPartner(c)) \notin Asked
             PROVE  name[c] = ShownPartner(c)
  BY DEF NameMatchesRow
<1>1. NameReady(c, ShownPartner(c))
  BY DEF NameInv
<1> QED
  BY <1>1 DEF NameReady

(* The partner of the row in a cell does not change under it.              *)
LEMMA ShownStays ==
  ASSUME Base, UNCHANGED <<shown, signedIn>>, \A r : Heard(heard, r) => MessageAt(r)' = MessageAt(r),
         NEW c \in Cells, shown[c] # NoRow
  PROVE  ShownPartner(c)' = ShownPartner(c) /\ ShownPartner(c) \in Users
<1>1. PICK r : r = shown[c]
  OBVIOUS
<1>2. Heard(heard, r) /\ MessageAt(r)' = MessageAt(r)
  BY <1>1 DEF Base, RowsSound
<1>3. MessageAt(shown[c]) = MessageAt(r) /\ MessageAt(shown[c])' = MessageAt(r)'
  BY <1>1
<1>4. PartnerId(MessageAt(r))' = PartnerId(MessageAt(r)) /\ PartnerId(MessageAt(r)) \in Users
  BY <1>2, PartnerType DEF PartnerId, Base
<1> QED
  BY <1>1, <1>3, <1>4 DEF ShownPartner, PartnerId

(* Steps that change neither the cells nor the profiles.                   *)
LEMMA NamesKept ==
  ASSUME Base, NameInv, UNCHANGED <<shown, watch, events, name, overtaken, known, signedIn>>,
         \A r : Heard(heard, r) => MessageAt(r)' = MessageAt(r),
         \A u \in Users : Profile(u) \in Asked => Profile(u) \in Asked'
  PROVE  NameInv'
<1> SUFFICES ASSUME signedIn, NEW c \in Cells \ overtaken, shown[c] # NoRow
             PROVE  NameReady(c, ShownPartner(c))'
  BY DEF NameInv
<1>1. PICK u : u = ShownPartner(c)
  OBVIOUS
<1>2. ShownPartner(c)' = u /\ u \in Users
  BY <1>1, ShownStays
<1>3. NameReady(c, u)
  BY <1>1 DEF NameInv
<1>4. NameReady(c, u)'
  BY <1>2, <1>3 DEF NameReady
<1> QED
  BY <1>2, <1>4 DEF NameReady

LEMMA ProfileNames ==
  ASSUME Base, NameInv, ProfileArrives
  PROVE  NameInv'
<1>1. PICK v : v = Head(wire)[1]
  OBVIOUS
<1>2. /\ UNCHANGED <<signedIn, heard, shown, watch, name, overtaken>>
      /\ Answered /\ Head(wire) \notin Ref /\ wire' = Tail(wire) /\ known' = known \cup {v}
      /\ events' = [c \in Cells |-> IF v \in watch[c] THEN Append(events[c], v) ELSE events[c]]
  BY <1>1 DEF ProfileArrives, cellVars
<1>3. v \in Users /\ Head(wire) = Profile(v) /\ v \notin known
  BY <1>1, <1>2, NextProfile
<1>4. Asked' = Asked \ {Profile(v)}
  BY <1>2, <1>3, Taken DEF Base
<1> SUFFICES ASSUME signedIn, NEW c \in Cells \ overtaken, shown[c] # NoRow
             PROVE  NameReady(c, ShownPartner(c))'
  BY <1>2 DEF NameInv
<1>5. PICK u : u = ShownPartner(c)
  OBVIOUS
<1>6. ShownPartner(c)' = u /\ u \in Users
  BY <1>2, <1>5, SameHeard, ShownStays
<1>7. NameReady(c, u)
  BY <1>5 DEF NameInv
<1>8. events[c] \in Seq(Users)
  BY DEF Base, TypeOK
<1>9. NameReady(c, u)'
  <2>1. u \in watch'[c] /\ watch'[c] \subseteq known' \cup {u}
    BY <1>2, <1>7 DEF NameReady
  <2>2. ASSUME u \notin known' PROVE Profile(u) \in Asked'
    <3>1. u # v /\ Profile(u) \in Asked
      BY <1>2, <1>7, <2>2 DEF NameReady
    <3>2. Profile(u) # Profile(v)
      BY <3>1 DEF Profile
    <3> QED
      BY <1>4, <3>1, <3>2
  <2>3. ASSUME u \in known'
        PROVE  IF events'[c] = <<>> THEN name'[c] = u ELSE events'[c][Len(events'[c])] = u
    <3>1. CASE u = v
      <4>1. events'[c] = Append(events[c], u)
        BY <1>2, <1>7, <3>1 DEF NameReady
      <4>2. Append(events[c], u) # <<>> /\ Append(events[c], u)[Len(Append(events[c], u))] = u
        BY <1>6, <1>8, AppendProperties
      <4> QED
        BY <4>1, <4>2
    <3>2. CASE u # v
      <4>1. u \in known /\ v \notin watch[c]
        BY <1>2, <1>3, <1>7, <2>3, <3>2 DEF NameReady
      <4>2. events'[c] = events[c] /\ name'[c] = name[c]
        BY <1>2, <4>1
      <4>3. IF events[c] = <<>> THEN name[c] = u ELSE events[c][Len(events[c])] = u
        BY <1>7, <4>1 DEF NameReady
      <4> QED
        BY <4>2, <4>3
    <3> QED
      BY <3>1, <3>2
  <2> QED
    BY <2>1, <2>2, <2>3 DEF NameReady
<1> QED
  BY <1>6, <1>9 DEF NameReady

LEMMA LastOfTail ==
  ASSUME NEW S, NEW q \in Seq(S), q # <<>>, Len(q) # 1
  PROVE  Tail(q) # <<>> /\ Tail(q)[Len(Tail(q))] = q[Len(q)]
<1>1. PICK n : n = Len(Tail(q))
  OBVIOUS
<1>2. Len(q) \in Nat /\ Len(q) # 0
  OBVIOUS
<1>3. n = Len(q) - 1 /\ \A i \in 1..n : Tail(q)[i] = q[i + 1]
  BY <1>1, HeadTailProperties
<1>4. n \in 1..n /\ n + 1 = Len(q) /\ n # 0
  BY <1>2, <1>3
<1>5. Tail(q)[n] = q[Len(q)]
  BY <1>3, <1>4
<1>6. Len(<<>>) = 0
  OBVIOUS
<1> QED
  BY <1>1, <1>4, <1>5, <1>6

LEMMA SetNames ==
  ASSUME Base, NameInv, NEW d \in Cells, NameSet(d)
  PROVE  NameInv'
<1>1. /\ UNCHANGED <<signedIn, known, wire, heard, shown, watch, overtaken>>
      /\ events[d] # <<>> /\ name' = [name EXCEPT ![d] = Head(events[d])]
      /\ events' = [events EXCEPT ![d] = Tail(events[d])]
  BY DEF NameSet, netVars
<1> SUFFICES ASSUME signedIn, NEW c \in Cells \ overtaken, shown[c] # NoRow
             PROVE  NameReady(c, ShownPartner(c))'
  BY <1>1 DEF NameInv
<1>2. PICK u : u = ShownPartner(c)
  OBVIOUS
<1>3. ShownPartner(c)' = u
  BY <1>1, <1>2, SameHeard, ShownStays
<1>4. NameReady(c, u)
  BY <1>2 DEF NameInv
<1>5. events[c] \in Seq(Users) /\ events \in [Cells -> Seq(Users)] /\ name \in [Cells -> Users \cup {Nobody}]
  BY DEF Base, TypeOK
<1>6. ASSUME u \in known
      PROVE  IF events'[c] = <<>> THEN name'[c] = u ELSE events'[c][Len(events'[c])] = u
  <2>1. IF events[c] = <<>> THEN name[c] = u ELSE events[c][Len(events[c])] = u
    BY <1>4, <1>6 DEF NameReady
  <2>2. CASE c # d
    <3>1. events'[c] = events[c] /\ name'[c] = name[c]
      BY <1>1, <1>5, <2>2
    <3> QED
      BY <2>1, <3>1
  <2>3. CASE c = d
    <3>1. events'[c] = Tail(events[c]) /\ name'[c] = Head(events[c]) /\ events[c] # <<>>
      BY <1>1, <1>5, <2>3
    <3>2. events[c][Len(events[c])] = u
      BY <2>1, <3>1
    <3>3. CASE Len(events[c]) = 1
      <4>1. Tail(events[c]) = <<>> /\ Head(events[c]) = u
        BY <1>5, <3>1, <3>2, <3>3
      <4> QED
        BY <3>1, <4>1
    <3>4. CASE Len(events[c]) # 1
      <4>1. /\ Tail(events[c]) # <<>>
            /\ Tail(events[c])[Len(Tail(events[c]))] = events[c][Len(events[c])]
        BY <1>5, <3>1, <3>4, LastOfTail
      <4> QED
        BY <3>1, <3>2, <4>1
    <3> QED
      BY <3>3, <3>4
  <2> QED
    BY <2>2, <2>3
<1>7. Asked' = Asked
  BY <1>1 DEF Asked
<1>8. NameReady(c, u)'
  BY <1>1, <1>4, <1>6, <1>7 DEF NameReady
<1> QED
  BY <1>3, <1>8 DEF NameReady

LEMMA LayoutNames ==
  ASSUME Base, NameInv, Layout
  PROVE  NameInv'
<1>1. PICK t \in Tables, f \in Onto :
        /\ \A i \in DOMAIN f :
             /\ shown'[f[i]] = rows[t[i]]
             /\ watch'[f[i]] = watch[f[i]] \cup {User(t, i)}
             /\ events'[f[i]] = Raised(f[i], User(t, i))
             /\ f[i] \notin overtaken' => watch[f[i]] \subseteq known \cup {User(t, i)}
        /\ \A c \in Cells : (\A i \in DOMAIN f : f[i] # c) => shown'[c] = NoRow
        /\ \E s \in InOrder(Fresh(t, f)) :
             wire' = wire \o [i \in DOMAIN s |-> Profile(User(t, s[i]))]
  BY LayoutShape
<1>2. UNCHANGED <<signedIn, known, heard, rows>>
  BY DEF Layout, netVars
<1>3. \A i \in DOMAIN f : User(t, i) \notin known => Profile(User(t, i)) \in Asked'
  BY <1>1, <1>2, LayoutWire
<1> SUFFICES ASSUME NEW c \in Cells, c \notin overtaken', shown'[c] # NoRow
             PROVE  NameReady(c, ShownPartner(c))'
  BY DEF NameInv
<1>4. PICK i \in DOMAIN f : f[i] = c
  BY <1>1
<1>5. PICK u : u = User(t, i)
  OBVIOUS
<1>6. /\ shown'[c] = rows[t[i]] /\ watch'[c] = watch[c] \cup {u} /\ events'[c] = Raised(c, u)
      /\ watch[c] \subseteq known \cup {u}
  BY <1>1, <1>4, <1>5
<1>7. ShownPartner(c)' = u
  BY <1>2, <1>5, <1>6 DEF ShownPartner, User, PartnerId, MessageAt
<1>8. u \in Users /\ events[c] \in Seq(Users)
  BY <1>5, TableShape, PlacementShape DEF Base, TypeOK
<1>9. ASSUME u \in known PROVE events'[c] # <<>> /\ events'[c][Len(events'[c])] = u
  <2>1. events'[c] = Append(events[c], u)
    BY <1>6, <1>9 DEF Raised
  <2>2. Append(events[c], u) # <<>> /\ Append(events[c], u)[Len(Append(events[c], u))] = u
    BY <1>8, AppendProperties
  <2> QED
    BY <2>1, <2>2
<1>10. u \notin known => Profile(u) \in Asked'
  BY <1>3, <1>4, <1>5
<1>11. NameReady(c, u)'
  BY <1>2, <1>6, <1>9, <1>10 DEF NameReady
<1> QED
  BY <1>7, <1>11 DEF NameReady

LEMMA NameInvNext ==
  ASSUME Base, NameInv, [Next]_vars
  PROVE  NameInv'
<1>1. CASE Revoke
  BY <1>1 DEF Revoke, NameInv
<1>2. CASE Disconnect \/ Reconnect
  <2>1. UNCHANGED <<shown, watch, events, name, overtaken, known, signedIn, heard>>
    BY <1>2 DEF Disconnect, Reconnect, cellVars
  <2>2. Asked' = Asked
    BY <1>2, ReconnectWire DEF Disconnect, Asked
  <2> QED
    BY <2>1, <2>2, SameHeard, NamesKept
<1>3. ASSUME NEW p \in Partners, NEW m \in Between(p), KeyAdded(p, m) PROVE NameInv'
  <2>1. UNCHANGED <<shown, watch, events, name, overtaken, known, signedIn>>
    BY <1>3 DEF KeyAdded, netVars, cellVars
  <2>2. \A r : Heard(heard, r) => MessageAt(r)' = MessageAt(r)
    BY <1>3, KeyHeard DEF Base
  <2>3. PICK n : n = <<p, Len(heard[p]) + 1>>
    OBVIOUS
  <2>4. wire' = Append(wire, n) /\ n \in Ref
    BY <1>3, <2>3, KeyHeard DEF KeyAdded, Base
  <2>5. wire \in Seq(Listen) /\ n \in Listen
    BY <2>4, Refs DEF Base, TypeOK
  <2>6. \A i \in DOMAIN wire : i \in DOMAIN wire' /\ wire'[i] = wire[i]
    BY <2>4, <2>5, AppendProperties
  <2>7. \A u \in Users : Profile(u) \in Asked => Profile(u) \in Asked'
    BY <2>6 DEF Asked
  <2> QED
    BY <2>1, <2>2, <2>7, NamesKept
<1>4. CASE ValueArrives
  <2>1. /\ UNCHANGED <<shown, watch, events, name, overtaken, known, signedIn, heard>>
        /\ Answered /\ Head(wire) \in Ref /\ wire' = Tail(wire)
    BY <1>4 DEF ValueArrives, netVars, cellVars
  <2>2. Asked' = Asked \ {Head(wire)}
    BY <2>1, Taken DEF Base
  <2>3. \A u \in Users : Profile(u) \in Asked => Profile(u) \in Asked'
    BY <2>1, <2>2, Refs
  <2> QED
    BY <2>1, <2>3, SameHeard, NamesKept
<1>5. CASE ProfileArrives
  BY <1>5, ProfileNames
<1>6. CASE Layout
  BY <1>6, LayoutNames
<1>7. CASE \E c \in Cells : NameSet(c)
  BY <1>7, SetNames
<1>8. CASE CellFails \/ UNCHANGED vars
  <2>1. UNCHANGED <<shown, watch, events, name, overtaken, known, signedIn, heard, wire>>
    BY <1>8 DEF CellFails, vars, netVars, cellVars
  <2>2. Asked' = Asked
    BY <2>1 DEF Asked
  <2> QED
    BY <2>1, <2>2, SameHeard, NamesKept
<1> QED
  BY <1>1, <1>2, <1>3, <1>4, <1>5, <1>6, <1>7, <1>8 DEF Next, Arrives

(* While the account is signed in, a cell whose row's profile was answered *)
(* and whose events ran shows the name of the row's partner, unless it got *)
(* the row while the profile of an earlier one was missing.                *)
THEOREM CellsNameTheirRow == Spec => []NameMatchesRow
<1>1. Init => Base /\ NameInv
  <2>1. ASSUME Init PROVE NameInv
    BY <2>1 DEF Init, NameInv
  <2> QED
    BY <2>1, BaseInit
<1>2. Base /\ NameInv /\ [Next]_vars => (Base /\ NameInv)'
  BY BaseNext, NameInvNext
<1>3. Base /\ NameInv => NameMatchesRow
  BY NameInvGives
<1> QED
  BY <1>1, <1>2, <1>3, PTL DEF Spec

----------------------------------------------------------------------------
(* The screen.  Until the next value arrives, each cell shows a row as it  *)
(* is, and the rows that do not fit are not newer.                         *)

ScreenSound ==
  ~dirty =>
    \A c \in Cells : shown[c] # NoRow =>
      /\ \E u \in Users : rows[u] # NoRow /\ shown[c] = rows[u]
      /\ \A u \in Users : rows[u] # NoRow /\ (\A d \in Cells : shown[d] # rows[u]) =>
           MessageAt(shown[c]).time >= MessageAt(rows[u]).time

LEMMA ScreenSoundGives ==
  ASSUME ScreenSound
  PROVE  ScreenShowsNewest
<1> DEFINE onScreen == {shown[c] : c \in Cells} \ {NoRow}
           inTable  == {rows[u] : u \in Filled}
<1> SUFFICES ASSUME ~dirty
             PROVE  /\ onScreen \subseteq inTable
                    /\ \A r \in onScreen, q \in inTable \ onScreen :
                         MessageAt(r).time >= MessageAt(q).time
  BY DEF ScreenShowsNewest
<1>1. onScreen \subseteq inTable
  BY DEF ScreenSound, Filled
<1>2. ASSUME NEW r \in onScreen, NEW q \in inTable \ onScreen
      PROVE  MessageAt(r).time >= MessageAt(q).time
  <2>1. PICK c \in Cells : r = shown[c] /\ shown[c] # NoRow
    BY <1>2
  <2>2. PICK u \in Users : q = rows[u] /\ rows[u] # NoRow
    BY <1>2 DEF Filled
  <2>3. \A d \in Cells : shown[d] # rows[u]
    BY <1>2, <2>2
  <2> QED
    BY <2>1, <2>2, <2>3 DEF ScreenSound
<1> QED
  BY <1>1, <1>2

LEMMA ScreenKept ==
  ASSUME Base, ScreenSound, UNCHANGED <<rows, shown, dirty>>,
         \A r : Heard(heard, r) => MessageAt(r)' = MessageAt(r)
  PROVE  ScreenSound'
<1>1. \A u \in Users : rows[u] # NoRow => MessageAt(rows[u])' = MessageAt(rows[u])
  <2> SUFFICES ASSUME NEW u \in Users, rows[u] # NoRow
               PROVE  MessageAt(rows[u])' = MessageAt(rows[u])
    OBVIOUS
  <2>1. PICK r : r = rows[u]
    OBVIOUS
  <2>2. MessageAt(r)' = MessageAt(r)
    BY <2>1 DEF Base, RowsSound
  <2> QED
    BY <2>1, <2>2 DEF MessageAt
<1>2. \A c \in Cells : shown[c] # NoRow => MessageAt(shown[c])' = MessageAt(shown[c])
  <2> SUFFICES ASSUME NEW c \in Cells, shown[c] # NoRow
               PROVE  MessageAt(shown[c])' = MessageAt(shown[c])
    OBVIOUS
  <2>1. PICK r : r = shown[c]
    OBVIOUS
  <2>2. MessageAt(r)' = MessageAt(r)
    BY <2>1 DEF Base, RowsSound
  <2> QED
    BY <2>1, <2>2 DEF MessageAt
<1> QED
  BY <1>1, <1>2 DEF ScreenSound

LEMMA LayoutScreen ==
  ASSUME Base, Layout
  PROVE  ScreenSound'
<1>1. PICK t \in Tables, f \in Onto :
        /\ \A i \in DOMAIN f : shown'[f[i]] = rows[t[i]]
        /\ \A c \in Cells : (\A i \in DOMAIN f : f[i] # c) => shown'[c] = NoRow
  BY LayoutShape
<1>2. UNCHANGED <<heard, rows>>
  BY DEF Layout
<1> SUFFICES ASSUME NEW c \in Cells, shown'[c] # NoRow
             PROVE  /\ \E u \in Users : rows[u] # NoRow /\ shown'[c] = rows[u]
                    /\ \A u \in Users : rows[u] # NoRow /\ (\A d \in Cells : shown'[d] # rows[u]) =>
                         MessageAt(shown'[c]).time >= MessageAt(rows[u]).time
  BY <1>2 DEF ScreenSound, MessageAt
<1>3. PICK i \in DOMAIN f : f[i] = c
  BY <1>1
<1>4. /\ shown'[c] = rows[t[i]] /\ i \in DOMAIN t /\ t[i] \in Users /\ rows[t[i]] # NoRow
  BY <1>1, <1>3, TableShape, PlacementShape
<1>5. ASSUME NEW u \in Users, rows[u] # NoRow, \A d \in Cells : shown'[d] # rows[u]
      PROVE  MessageAt(shown'[c]).time >= MessageAt(rows[u]).time
  <2>1. PICK j \in DOMAIN t : t[j] = u
    BY <1>5, TableShape
  <2>2. j \notin DOMAIN f
    <3>1. \A k \in DOMAIN f : f[k] \in Cells
      BY PlacementShape
    <3> QED
      BY <1>1, <1>5, <2>1, <3>1
  <2>3. i < j
    <3>1. i \in Nat /\ j \in Nat /\ i # j
      BY <1>4, <2>1, <2>2, TableShape
    <3>2. ~(j < i)
      BY <2>1, <2>2, PlacementShape
    <3> QED
      BY <3>1, <3>2
  <2> QED
    BY <1>4, <2>1, <2>3, TableShape
<1> QED
  BY <1>4, <1>5

LEMMA ScreenNext ==
  ASSUME Base, ScreenSound, [Next]_vars
  PROVE  ScreenSound'
<1>1. CASE Revoke \/ Disconnect \/ Reconnect \/ ProfileArrives \/ (\E c \in Cells : NameSet(c))
           \/ CellFails \/ UNCHANGED vars
  <2>1. UNCHANGED <<rows, shown, dirty, heard>>
    BY <1>1 DEF Revoke, Disconnect, Reconnect, ProfileArrives, NameSet, CellFails, vars, cellVars
  <2> QED
    BY <2>1, SameHeard, ScreenKept
<1>2. ASSUME NEW p \in Partners, NEW m \in Between(p), KeyAdded(p, m) PROVE ScreenSound'
  <2>1. UNCHANGED <<rows, shown, dirty>>
    BY <1>2 DEF KeyAdded, cellVars
  <2>2. \A r : Heard(heard, r) => MessageAt(r)' = MessageAt(r)
    BY <1>2, KeyHeard DEF Base
  <2> QED
    BY <2>1, <2>2, ScreenKept
<1>3. CASE ValueArrives
  BY <1>3 DEF ValueArrives, ScreenSound
<1>4. CASE Layout
  BY <1>4, LayoutScreen
<1> QED
  BY <1>1, <1>2, <1>3, <1>4 DEF Next, Arrives

(* A laid out table shows rows as they are, and none that does not fit is  *)
(* newer than one on the screen, whatever cells the reuse pool hands out.  *)
THEOREM ScreensShowNewest == Spec => []ScreenShowsNewest
<1>1. Init => Base /\ ScreenSound
  <2>1. ASSUME Init PROVE ScreenSound
    BY <2>1 DEF Init, ScreenSound
  <2> QED
    BY <2>1, BaseInit
<1>2. Base /\ ScreenSound /\ [Next]_vars => (Base /\ ScreenSound)'
  BY BaseNext, ScreenNext
<1>3. Base /\ ScreenSound => ScreenShowsNewest
  BY ScreenSoundGives
<1> QED
  BY <1>1, <1>2, <1>3, PTL DEF Spec

----------------------------------------------------------------------------
(* Conversations.  A row holds an answered message, and one of its own     *)
(* partner unless it is the row of Me.                                     *)

RowsPlaced ==
  \A u \in Users : rows[u] # NoRow => rows[u] \notin Asked /\ (u # Me => rows[u][1] = u)

LEMMA PlacedKept ==
  ASSUME Base, RowsPlaced, UNCHANGED rows, \A r \in Asked' : Heard(heard, r) => r \in Asked
  PROVE  RowsPlaced'
BY DEF RowsPlaced, Base, RowsSound

LEMMA ValuePlaced ==
  ASSUME Base, RowsPlaced, ValueArrives
  PROVE  RowsPlaced'
<1>1. PICK r, u : r = Head(wire) /\ u = PartnerId(MessageAt(r))
  OBVIOUS
<1>2. /\ Heard(heard, r) /\ r # NoRow /\ u \in Users
      /\ rows' = [rows EXCEPT ![u] = r] /\ rows \in [Users -> Ref \cup {NoRow}]
  BY <1>1, NextValue DEF ValueArrives, Base, TypeOK
<1>3. Asked' = Asked \ {r}
  BY <1>1, Taken DEF ValueArrives, Base
<1>4. u # Me => r[1] = u
  <2>1. MessageAt(r) \in Between(r[1])
    BY <1>2, Refs DEF Heard, HeardOwn, MessageAt, Base
  <2>2. {MessageAt(r).from, MessageAt(r).to} = {Me, r[1]}
    BY <2>1 DEF Between
  <2> QED
    BY <1>1, <2>2 DEF PartnerId
<1> QED
  BY <1>2, <1>3, <1>4 DEF RowsPlaced

LEMMA PlacedNext ==
  ASSUME Base, RowsPlaced, [Next]_vars
  PROVE  RowsPlaced'
<1>1. CASE Revoke \/ Disconnect \/ (\E c \in Cells : NameSet(c)) \/ CellFails \/ UNCHANGED vars
  <2>1. UNCHANGED <<rows, wire>>
    BY <1>1 DEF Revoke, Disconnect, NameSet, CellFails, vars
  <2> QED
    BY <2>1, PlacedKept DEF Asked
<1>2. CASE Reconnect
  BY <1>2, ReconnectWire, PlacedKept DEF Reconnect
<1>3. ASSUME NEW p \in Partners, NEW m \in Between(p), KeyAdded(p, m) PROVE RowsPlaced'
  <2>1. PICK n : n = <<p, Len(heard[p]) + 1>>
    OBVIOUS
  <2>2. n \in Ref /\ ~Heard(heard, n)
    BY <1>3, <2>1, KeyHeard DEF Base
  <2>3. wire' = Append(wire, n) /\ wire \in Seq(Listen) /\ n \in Listen /\ UNCHANGED rows
    BY <1>3, <2>1, <2>2, Refs DEF KeyAdded, Base, TypeOK
  <2>4. \A i \in DOMAIN wire' : wire'[i] = n \/ (i \in DOMAIN wire /\ wire'[i] = wire[i])
    BY <2>3, AppendProperties
  <2>5. \A x \in Asked' : x = n \/ x \in Asked
    BY <2>4 DEF Asked
  <2> QED
    BY <2>2, <2>3, <2>5, PlacedKept
<1>4. CASE ValueArrives
  BY <1>4, ValuePlaced
<1>5. CASE ProfileArrives
  BY <1>5, Taken, PlacedKept DEF ProfileArrives, Base
<1>6. CASE Layout
  <2>1. PICK t \in Tables, f \in Onto : \E s \in InOrder(Fresh(t, f)) :
          wire' = wire \o [i \in DOMAIN s |-> Profile(User(t, s[i]))]
    BY <1>6, LayoutShape
  <2>2. \A r \in Ref : r \in Asked' => r \in Asked
    BY <1>6, <2>1, LayoutWire DEF Layout, netVars
  <2> QED
    BY <1>6, <2>2, PlacedKept DEF Layout, Heard
<1> QED
  BY <1>1, <1>2, <1>3, <1>4, <1>5, <1>6 DEF Next, Arrives

(* What a conversation has yet to show is ahead of its row, unless mixed.  *)
LEMMA PendingAhead ==
  ASSUME RowInv, RowsPlaced, NEW p \in Partners \ shuffled, NEW i \in 1..MaxHeard,
         <<p, i>> \in Asked
  PROVE  /\ i \in DOMAIN heard[p] /\ i \in 1..said[p] /\ said[p] \in Nat
         /\ row[p] \in Nat /\ row[p] < i
<1>1. /\ said[p] = Len(heard[p]) /\ Len(heard[p]) \in Nat /\ DOMAIN heard[p] = 1..Len(heard[p])
      /\ p \in Users /\ row[p] = IF rows[p][1] = p THEN rows[p][2] ELSE 0
  BY DEF said, row, RowInv, Base, TypeOK, Users
<1>2. i \in DOMAIN heard[p]
  <2>1. PICK x \in DOMAIN wire : wire[x] = <<p, i>>
    BY DEF Asked
  <2>2. <<p, i>> \in Ref
    BY Refs
  <2>3. Heard(heard, <<p, i>>)
    BY <2>1, <2>2 DEF RowInv, Base, WireSound
  <2> QED
    BY <2>3, HeardPlace
<1>3. CASE rows[p][1] = p
  <2>1. rows[p] # NoRow
    BY <1>1, <1>3, NobodyAssumption DEF NoRow
  <2>2. Heard(heard, rows[p]) /\ rows[p] \notin Asked
    BY <1>1, <2>1 DEF RowInv, Base, RowsSound, RowsPlaced
  <2>3. PICK k : rows[p] = <<p, k>>
    BY <1>3, <2>2 DEF Heard, Ref
  <2>4. k \in DOMAIN heard[p] /\ <<p, k>> \notin Asked
    BY <2>2, <2>3, HeardPlace
  <2>5. k < i
    BY <1>2, <2>4 DEF RowInv, Ordered, AnsweredFirst
  <2> QED
    BY <1>1, <1>2, <1>3, <2>3, <2>4, <2>5
<1>4. CASE rows[p][1] # p
  BY <1>1, <1>2, <1>4
<1> QED
  BY <1>3, <1>4

(* While Me is signed in, the message that arrives is the next one.        *)
LEMMA NoneSkipped ==
  ASSUME RowInv, RowsPlaced, Answered, signedIn, NEW p \in Partners \ shuffled, NEW h,
         Head(wire) = <<p, h>>, h \in 1..MaxHeard
  PROVE  h = row[p] + 1
<1>1. /\ wire[1] = <<p, h>> /\ 1 \in DOMAIN wire /\ <<p, h>> \in Asked
      /\ DOMAIN wire = 1..Len(wire)
  <2>1. wire \in Seq(Listen) /\ wire # <<>>
    BY DEF RowInv, Base, TypeOK, Answered
  <2>2. wire[1] = <<p, h>> /\ 1 \in DOMAIN wire /\ DOMAIN wire = 1..Len(wire)
    BY <2>1
  <2> QED
    BY <2>2 DEF Asked
<1>2. /\ h \in DOMAIN heard[p] /\ h \in 1..said[p] /\ said[p] \in Nat
      /\ row[p] \in Nat /\ row[p] < h
  BY <1>1, PendingAhead
<1>3. ASSUME NEW j, j = row[p] + 1, j < h PROVE FALSE
  <2>1. j \in DOMAIN heard[p]
    BY <1>2, <1>3 DEF RowInv, Base, TypeOK, said
  <2>2. j \in 1..MaxHeard
    BY <2>1, Places DEF RowInv, Base
  <2>3. CASE <<p, j>> \in Asked
    <3>1. PICK x \in DOMAIN wire : wire[x] = <<p, j>>
      BY <2>3 DEF Asked
    <3>2. x # 1
      BY <1>1, <1>3, <3>1
    <3>3. 1 < x
      BY <1>1, <3>1, <3>2
    <3>4. h < j
      BY <1>1, <2>2, <3>1, <3>3 DEF RowInv, Ordered, SentInOrder
    <3> QED
      BY <1>2, <1>3, <3>4
  <2>4. CASE <<p, j>> \notin Asked
    <3>1. rows[p] # NoRow /\ rows[p][1] = p
      BY <2>1, <2>4 DEF RowInv, OneRowEach, Users
    <3>2. j <= rows[p][2]
      BY <2>1, <2>4, <3>1 DEF RowInv, RowFollowsList
    <3>3. row[p] = rows[p][2]
      BY <3>1 DEF row
    <3> QED
      BY <1>2, <1>3, <3>2, <3>3
  <2> QED
    BY <2>3, <2>4
<1> QED
  BY <1>2, <1>3

(* The message of a list that was heard of and not answered.               *)
LEMMA ValueMoves ==
  ASSUME RowInv, RowsPlaced, ValueArrives
  PROVE  [C!Next]_C!vars
<1>1. PICK r, u : r = Head(wire) /\ u = PartnerId(MessageAt(r))
  OBVIOUS
<1>2. PICK p, h : r = <<p, h>> /\ p \in Partners /\ h \in 1..MaxHeard
  BY <1>1 DEF ValueArrives, Ref
<1>3. /\ Heard(heard, r) /\ u \in Users
      /\ rows' = [rows EXCEPT ![u] = r] /\ rows \in [Users -> Ref \cup {NoRow}]
      /\ UNCHANGED <<heard, signedIn, shuffled>> /\ Answered
  BY <1>1, NextValue DEF ValueArrives, RowInv, Base, TypeOK, netVars
<1>4. said' = said
  BY <1>3 DEF said
<1>5. h \in 1..said[p]
  BY <1>2, <1>3, HeardPlace DEF said, RowInv, Base, TypeOK
<1>6. \A q \in Users : rows'[q] = IF q = u THEN r ELSE rows[q]
  BY <1>3
<1>7. CASE u = p
  <2>1. row' = [row EXCEPT ![p] = h]
    <3>1. \A q \in Partners : rows'[q] = IF q = p THEN <<p, h>> ELSE rows[q]
      BY <1>2, <1>6, <1>7 DEF Users
    <3>2. \A q \in Partners : row'[q] = IF q = p THEN h ELSE row[q]
      BY <3>1 DEF row
    <3> QED
      BY <3>2 DEF row
  <2>2. \/ h = row[p] + 1 \/ (~signedIn /\ h > row[p]) \/ p \in shuffled
    <3>1. CASE p \notin shuffled /\ signedIn
      BY <1>1, <1>2, <1>3, <3>1, NoneSkipped
    <3>2. CASE p \notin shuffled /\ ~signedIn
      <4>1. <<p, h>> \in Asked
        BY <1>1, <1>2, <1>3, Taken DEF RowInv, Base, ValueArrives
      <4> QED
        BY <3>2, <1>2, <4>1, PendingAhead
    <3> QED
      BY <3>1, <3>2
  <2>3. C!Show(p)
    BY <1>3, <1>4, <1>5, <2>1, <2>2 DEF C!Show
  <2> QED
    BY <1>2, <2>3 DEF C!Next
<1>8. CASE u # p
  <2>1. ~signedIn
    BY <1>1, <1>2, <1>3, <1>8, PartnerOwn DEF RowInv, Base
  <2>2. u = Me
    <3>1. MessageAt(r) \in Between(p)
      BY <1>2, <1>3, HeardPlace DEF HeardOwn, MessageAt, RowInv, Base
    <3>2. {MessageAt(r).from, MessageAt(r).to} = {Me, p}
      BY <3>1 DEF Between
    <3> QED
      BY <1>1, <1>8, <2>1, <3>2 DEF PartnerId
  <2>3. CASE Me \in Partners
    <3>1. row' = [row EXCEPT ![Me] = 0]
      <4>1. \A q \in Partners : rows'[q] = IF q = Me THEN <<p, h>> ELSE rows[q]
        BY <1>2, <1>6, <2>2 DEF Users
      <4>2. \A q \in Partners : row'[q] = IF q = Me THEN 0 ELSE row[q]
        BY <1>8, <2>2, <4>1 DEF row
      <4> QED
        BY <4>2 DEF row
    <3>2. C!Misfile
      BY <1>3, <1>4, <2>1, <2>3, <3>1 DEF C!Misfile
    <3> QED
      BY <3>2 DEF C!Next
  <2>4. CASE Me \notin Partners
    <3>1. row' = row
      BY <1>6, <2>2, <2>4 DEF row, Users
    <3> QED
      BY <1>3, <1>4, <3>1 DEF C!vars
  <2> QED
    BY <2>3, <2>4
<1> QED
  BY <1>7, <1>8

(* What a reconnect mixes has two messages or more yet to show.            *)
LEMMA ReconnectMoves ==
  ASSUME RowInv, RowsPlaced, Reconnect
  PROVE  C!Mix
<1> DEFINE T == {p \in Partners : \E i, j \in 1..MaxHeard : i # j /\ {<<p, i>>, <<p, j>>} \subseteq Asked}
           S == T \ shuffled
<1>1. UNCHANGED <<signedIn, heard, rows>> /\ shuffled' = shuffled \cup T
  BY DEF Reconnect
<1>2. UNCHANGED <<said, row>>
  BY <1>1 DEF said, row
<1>3. ASSUME NEW p \in S PROVE p \in Partners /\ said[p] > row[p] + 1
  <2>1. p \in Partners \ shuffled
    OBVIOUS
  <2>2. PICK i, j \in 1..MaxHeard : i # j /\ <<p, i>> \in Asked /\ <<p, j>> \in Asked
    OBVIOUS
  <2> HIDE DEF S, T
  <2>3. /\ i \in 1..said[p] /\ j \in 1..said[p] /\ said[p] \in Nat /\ row[p] \in Nat
        /\ row[p] < i /\ row[p] < j
    BY <2>1, <2>2, PendingAhead
  <2> QED
    BY <2>1, <2>2, <2>3
<1>4. S \in SUBSET {p \in Partners : said[p] > row[p] + 1} /\ shuffled' = shuffled \cup S
  <2>1. S \subseteq {p \in Partners : said[p] > row[p] + 1}
    <3> HIDE DEF S
    <3> QED
      BY <1>3
  <2>2. shuffled \cup S = shuffled \cup T
    OBVIOUS
  <2> QED
    BY <1>1, <2>1, <2>2
<1> HIDE DEF S, T
<1> QED
  BY <1>1, <1>2, <1>4 DEF C!Mix

LEMMA KeyMoves ==
  ASSUME RowInv, NEW p \in Partners, NEW m \in Between(p), KeyAdded(p, m)
  PROVE  C!Hear(p)
<1>1. /\ heard \in [Partners -> Seq(Message)] /\ m \in Message
      /\ heard' = [heard EXCEPT ![p] = Append(heard[p], m)]
      /\ UNCHANGED <<signedIn, rows, shuffled>>
  BY DEF KeyAdded, netVars, RowInv, Base, TypeOK, Between
<1>2. \A q \in Partners : Len(heard'[q]) = IF q = p THEN Len(heard[p]) + 1 ELSE Len(heard[q])
  <2> SUFFICES ASSUME NEW q \in Partners
               PROVE  Len(heard'[q]) = IF q = p THEN Len(heard[p]) + 1 ELSE Len(heard[q])
    OBVIOUS
  <2>1. heard[p] \in Seq(Message) /\ heard'[q] = IF q = p THEN Append(heard[p], m) ELSE heard[q]
    BY <1>1
  <2> QED
    BY <1>1, <2>1, AppendProperties
<1>3. said' = [said EXCEPT ![p] = @ + 1]
  BY <1>2 DEF said
<1>4. row' = row
  BY <1>1 DEF row
<1> QED
  BY <1>1, <1>3, <1>4 DEF C!Hear

LEMMA StepConverses ==
  ASSUME RowInv, RowsPlaced, [Next]_vars
  PROVE  [C!Next]_C!vars
<1>1. CASE \/ Disconnect \/ ProfileArrives \/ Layout \/ (\E c \in Cells : NameSet(c))
           \/ CellFails \/ UNCHANGED vars
  <2>1. UNCHANGED <<signedIn, heard, rows, shuffled>>
    BY <1>1 DEF Disconnect, ProfileArrives, Layout, NameSet, CellFails, vars, netVars
  <2> QED
    BY <2>1 DEF C!vars, said, row
<1>2. CASE Revoke
  <2>1. signedIn /\ signedIn' = FALSE /\ UNCHANGED <<heard, rows, shuffled>>
    BY <1>2 DEF Revoke
  <2> QED
    BY <2>1 DEF C!Next, C!SignOut, said, row
<1>3. CASE Reconnect
  BY <1>3, ReconnectMoves DEF C!Next
<1>4. ASSUME NEW p \in Partners, NEW m \in Between(p), KeyAdded(p, m) PROVE C!Next
  BY <1>4, KeyMoves DEF C!Next
<1>5. CASE ValueArrives
  BY <1>5, ValueMoves
<1> QED
  BY <1>1, <1>2, <1>3, <1>4, <1>5 DEF Next, Arrives

(* The list of conversations implements Conversations: a row skips no      *)
(* message of its list and never goes back, except for lists a reconnect   *)
(* mixed while two of their messages were on the way; after a forced       *)
(* sign-out only the row of Me with Me can be lost.                        *)
THEOREM InboxImplementsConversations == Spec => ImplementsConversations
<1>1. Init => RowInv /\ RowsPlaced
  <2>1. Init => RowsPlaced
    BY DEF Init, RowsPlaced
  <2> QED
    BY <2>1, RowInvInit
<1>2. Init => C!Init
  <2> SUFFICES ASSUME Init PROVE C!Init
    OBVIOUS
  <2>1. said = [p \in Partners |-> 0]
    BY DEF Init, said
  <2>2. row = [p \in Partners |-> 0]
    BY NobodyAssumption DEF Init, row, NoRow, Users
  <2> QED
    BY <2>1, <2>2 DEF Init, C!Init
<1>3. RowInv /\ RowsPlaced /\ [Next]_vars => (RowInv /\ RowsPlaced)'
  BY RowInvNext, PlacedNext DEF RowInv
<1>4. RowInv /\ RowsPlaced /\ [Next]_vars => [C!Next]_C!vars
  BY StepConverses
<1> QED
  BY <1>1, <1>2, <1>3, <1>4, PTL DEF Spec, ImplementsConversations, C!Spec
=============================================================================
