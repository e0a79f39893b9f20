--------------------------- MODULE PicturesProofs ---------------------------
(***************************************************************************)
(* Pictures for any users, names, views and bounds: what is listed is the  *)
(* picture that was chosen, addressed as it was chosen; views and cache    *)
(* hold nothing else; and only what CrashHasCause names crashes the app.   *)
(***************************************************************************)
EXTENDS Pictures, SequenceTheorems, TLAPS

(* An image that reached the bucket, whatever became of its message.       *)
Placed(i) == pictures[i].step \notin {"uploading", "failed", "lost"}

HasUrl(i) == pictures[i].step \in {"linked", "sent", "filed"}

(* The bucket has some image of the same name for every image placed, and  *)
(* a URL is one of an image of that name.                                  *)
NamesSound ==
  /\ \A n \in Names : storage[n] # Blank =>
       storage[n] \in DOMAIN pictures /\ pictures[storage[n]].name = n
  /\ \A i \in DOMAIN pictures :
       /\ Placed(i) => storage[pictures[i].name] # Blank
       /\ HasUrl(i) => pictures[i].url # Blank
       /\ pictures[i].url # Blank =>
            pictures[i].url \in DOMAIN pictures /\ pictures[pictures[i].url].name = pictures[i].name

(* An image on its way without a change of account belongs to who is       *)
(* signed in, and its message is addressed accordingly.                    *)
AddressesSound ==
  \A i \in DOMAIN pictures \ switched :
    /\ InFlight(i) => pictures[i].by = account
    /\ At(i, "sent") => pictures[i].from = pictures[i].by /\ pictures[i].to \in {pictures[i].chat, None}
    /\ At(i, "filed") => pictures[i].from = pictures[i].by /\ pictures[i].to = pictures[i].chat

(* Only URLs of listed pictures are downloaded.                            *)
LoadsSound ==
  \A k \in DOMAIN loads :
    \E i \in DOMAIN pictures : At(i, "filed") /\ pictures[i].url = loads[k][2]

ViewSound(v) ==
  /\ views[v].item \in Ids => At(views[v].item, "filed")
  /\ views[v].item = Text => views[v].hidden
  /\ v \notin late /\ views[v].item \in Ids =>
       /\ OnTheWay(v) \subseteq {pictures[views[v].item].url}
       /\ OnTheWay(v) = {} => views[v].image = pictures[views[v].item].url
       /\ ~views[v].hidden

ViewsSound == \A v \in Views : ViewSound(v)

PicturesInv ==
  TypeOK /\ NamesSound /\ AddressesSound /\ LoadsSound /\ ViewsSound /\ CacheIsTrue /\ CrashHasCause

----------------------------------------------------------------------------
(* How the list of images changes.                                         *)

(* One image gets another record, of the same name; listed images and      *)
(* those lost in a crash are never touched again.                          *)
Edits(i, r) ==
  /\ i \in DOMAIN pictures /\ r \in Picture
  /\ pictures' = [pictures EXCEPT ![i] = r]
  /\ r.name = pictures[i].name
  /\ pictures[i].step \notin {"filed", "lost"}

Adds(r) ==
  /\ r \in Picture /\ Len(pictures) < MaxPictures
  /\ pictures' = Append(pictures, r)

LEMMA EditFacts ==
  ASSUME TypeOK, NEW i, NEW r, Edits(i, r)
  PROVE  /\ pictures' \in Seq(Picture) /\ Len(pictures') = Len(pictures)
         /\ DOMAIN pictures' = DOMAIN pictures
         /\ pictures'[i] = r
         /\ \A j \in DOMAIN pictures : j # i => pictures'[j] = pictures[j]
BY DEF TypeOK, Edits

LEMMA AddFacts ==
  ASSUME TypeOK, NEW r, Adds(r)
  PROVE  /\ pictures' \in Seq(Picture) /\ Len(pictures') = Len(pictures) + 1
         /\ Len(pictures) + 1 \in Ids
         /\ DOMAIN pictures' = DOMAIN pictures \cup {Len(pictures) + 1}
         /\ Len(pictures) + 1 \notin DOMAIN pictures
         /\ pictures'[Len(pictures) + 1] = r
         /\ \A j \in DOMAIN pictures : pictures'[j] = pictures[j]
BY BoundAssumption DEF TypeOK, Adds, Ids

(* Images are never taken from the list.                                   *)
LEMMA IdsFacts ==
  ASSUME TypeOK
  PROVE  /\ DOMAIN pictures \subseteq Ids
         /\ \A i \in DOMAIN pictures : pictures[i] \in Picture
         /\ NoItem \notin Ids /\ Text \notin Ids /\ Empty \notin Ids /\ Blank \notin Ids
         /\ Loading \notin Ids
BY BoundAssumption DEF TypeOK, Ids, NoItem, Text, Empty, Blank, Loading

(* What each action makes of the record of an image, field by field.       *)
IsPicture(r, name, step, by, chat, url, from, to) ==
  /\ r \in Picture
  /\ r.name = name /\ r.step = step /\ r.by = by /\ r.chat = chat
  /\ r.url = url /\ r.from = from /\ r.to = to

Maybe == Users \cup {None}

LEMMA StepEdit ==
  ASSUME NEW p \in Picture, NEW s \in Steps, NEW r, r = [p EXCEPT !.step = s]
  PROVE  IsPicture(r, p.name, s, p.by, p.chat, p.url, p.from, p.to)
BY DEF Picture, IsPicture

LEMMA UrlEdit ==
  ASSUME NEW p \in Picture, NEW s \in Steps, NEW u \in Ids \cup {Blank},
         NEW r, r = [p EXCEPT !.step = s, !.url = u]
  PROVE  IsPicture(r, p.name, s, p.by, p.chat, u, p.from, p.to)
BY DEF Picture, IsPicture

LEMMA AddressEdit ==
  ASSUME NEW p \in Picture, NEW s \in Steps, NEW f \in Maybe, NEW t \in Maybe,
         NEW r, r = [p EXCEPT !.step = s, !.from = f, !.to = t]
  PROVE  IsPicture(r, p.name, s, p.by, p.chat, p.url, f, t)
BY DEF Picture, IsPicture, Maybe

LEMMA OthersEdit ==
  ASSUME NEW p \in Picture, NEW s \in Steps, NEW u \in Ids \cup {Blank},
         NEW f \in Maybe, NEW t \in Maybe,
         NEW r, r = [p EXCEPT !.step = s, !.url = u, !.by = f, !.chat = t, !.from = f, !.to = t]
  PROVE  IsPicture(r, p.name, s, f, t, u, f, t)
BY DEF Picture, IsPicture, Maybe

Turns(i, s) ==
  LET p == pictures[i] IN
  \E r : Edits(i, r) /\ IsPicture(r, p.name, s, p.by, p.chat, p.url, p.from, p.to)

LEMMA StepTurns ==
  ASSUME TypeOK, NEW i \in DOMAIN pictures, NEW s \in Steps,
         pictures[i].step \notin {"filed", "lost"},
         pictures' = [pictures EXCEPT ![i].step = s]
  PROVE  Turns(i, s)
<1>1. PICK p \in Picture : p = pictures[i]
  BY IdsFacts
<1>2. PICK r : r = [p EXCEPT !.step = s]
  OBVIOUS
<1>3. IsPicture(r, p.name, s, p.by, p.chat, p.url, p.from, p.to)
  BY <1>2, StepEdit
<1>4. pictures' = [pictures EXCEPT ![i] = r]
  BY <1>1, <1>2, Zenon
<1>5. Edits(i, r)
  BY <1>1, <1>3, <1>4 DEF Edits, IsPicture
<1> QED
  BY <1>1, <1>3, <1>5 DEF Turns

LEMMA Edited ==
  ASSUME TypeOK, NEW i \in Ids, NEW p \in Picture, p = pictures[i]
  PROVE  /\ Stored(i) => Turns(i, "stored")
         /\ Fails(i) => Turns(i, "failed")
         /\ Filed(i) => Turns(i, "filed")
         /\ Linked(i) =>
              \E r : Edits(i, r) /\ IsPicture(r, p.name, "linked", p.by, p.chat,
                                              storage[p.name], p.from, p.to)
         /\ \A to \in Partners \cup {None} : Sent(i, to) =>
              \E r : Edits(i, r) /\ IsPicture(r, p.name, "sent", p.by, p.chat, p.url, account, to)
         /\ \A from \in Partners, to \in Accounts : OthersSend(i, from, to) =>
              \E r : Edits(i, r) /\ IsPicture(r, p.name, "filed", from, to,
                                              storage[p.name], from, to)
<1>1. Stored(i) => Turns(i, "stored")
  BY StepTurns DEF Stored, At, Steps
<1>2. Fails(i) => Turns(i, "failed")
  BY StepTurns DEF Fails, At, Steps
<1>3. Filed(i) => Turns(i, "filed")
  BY StepTurns DEF Filed, At, Steps
<1>4. p.name \in Names /\ account \in Maybe
  BY DEF Picture, TypeOK, Maybe, Users
<1>5. storage[p.name] \in Ids \cup {Blank}
  BY <1>4 DEF TypeOK
<1>6. ASSUME Linked(i)
      PROVE  \E r : Edits(i, r) /\ IsPicture(r, p.name, "linked", p.by, p.chat,
                                             storage[p.name], p.from, p.to)
  <2>1. PICK u \in Ids \cup {Blank} : u = storage[p.name]
    BY <1>5
  <2>2. PICK r : r = [p EXCEPT !.step = "linked", !.url = u]
    OBVIOUS
  <2>3. IsPicture(r, p.name, "linked", p.by, p.chat, u, p.from, p.to)
    BY <2>2, UrlEdit DEF Steps
  <2>4. i \in DOMAIN pictures /\ p.step = "stored"
    BY <1>6 DEF Linked, At
  <2>5. pictures' = [pictures EXCEPT ![i].step = "linked", ![i].url = u]
    BY <1>6, <2>1 DEF Linked
  <2>6. pictures' = [pictures EXCEPT ![i] = r]
    BY <2>2, <2>4, <2>5, Zenon
  <2>7. Edits(i, r)
    BY <2>3, <2>4, <2>6 DEF Edits, IsPicture
  <2> QED
    BY <2>1, <2>3, <2>7
<1>7. ASSUME NEW to \in Partners \cup {None}, Sent(i, to)
      PROVE  \E r : Edits(i, r) /\ IsPicture(r, p.name, "sent", p.by, p.chat, p.url, account, to)
  <2>1. PICK f \in Maybe : f = account
    BY <1>4
  <2>2. PICK r : r = [p EXCEPT !.step = "sent", !.from = f, !.to = to]
    OBVIOUS
  <2>3. IsPicture(r, p.name, "sent", p.by, p.chat, p.url, f, to)
    BY <2>2, AddressEdit DEF Steps, Maybe, Users
  <2>4. i \in DOMAIN pictures /\ p.step = "linked"
    BY <1>7 DEF Sent, At
  <2>5. pictures' = [pictures EXCEPT ![i].step = "sent", ![i].from = f, ![i].to = to]
    BY <1>7, <2>1 DEF Sent
  <2>6. pictures' = [pictures EXCEPT ![i] = r]
    BY <2>2, <2>4, <2>5, Zenon
  <2>7. Edits(i, r)
    BY <2>3, <2>4, <2>6 DEF Edits, IsPicture
  <2> QED
    BY <2>1, <2>3, <2>7
<1>8. ASSUME NEW from \in Partners, NEW to \in Accounts, OthersSend(i, from, to)
      PROVE  \E r : Edits(i, r) /\ IsPicture(r, p.name, "filed", from, to,
                                             storage[p.name], from, to)
  <2>1. PICK u \in Ids \cup {Blank} : u = storage[p.name]
    BY <1>5
  <2>2. PICK r : r = [p EXCEPT !.step = "filed", !.url = u, !.by = from, !.chat = to,
                                 !.from = from, !.to = to]
    OBVIOUS
  <2>3. IsPicture(r, p.name, "filed", from, to, u, from, to)
    BY <2>2, OthersEdit DEF Steps, Maybe, Users
  <2>4. i \in DOMAIN pictures /\ p.step = "others"
    BY <1>8 DEF OthersSend, At
  <2>5. pictures' = [pictures EXCEPT ![i].step = "filed", ![i].url = u, ![i].by = from,
                       ![i].chat = to, ![i].from = from, ![i].to = to]
    BY <1>8, <2>1 DEF OthersSend
  <2>6. pictures' = [pictures EXCEPT ![i] = r]
    BY <2>2, <2>4, <2>5, Zenon
  <2>7. Edits(i, r)
    BY <2>3, <2>4, <2>6 DEF Edits, IsPicture
  <2> QED
    BY <2>1, <2>3, <2>7
<1> QED
  BY <1>1, <1>2, <1>3, <1>6, <1>7, <1>8

(* What no step ever undoes.                                               *)
Keeps ==
  /\ pictures' \in Seq(Picture) /\ Len(pictures') <= MaxPictures
  /\ DOMAIN pictures \subseteq DOMAIN pictures'
  /\ \A i \in DOMAIN pictures :
       /\ pictures'[i].name = pictures[i].name
       /\ pictures[i].step \in {"filed", "lost"} => pictures'[i] = pictures[i]

LEMMA EditKeeps ==
  ASSUME TypeOK, NEW i, NEW r, Edits(i, r)
  PROVE  Keeps
<1>1. pictures' \in Seq(Picture) /\ Len(pictures') = Len(pictures)
  BY EditFacts
<1>2. DOMAIN pictures' = DOMAIN pictures /\ pictures'[i] = r
  BY EditFacts
<1>3. \A j \in DOMAIN pictures : j # i => pictures'[j] = pictures[j]
  BY EditFacts
<1>4. r.name = pictures[i].name /\ pictures[i].step \notin {"filed", "lost"}
  BY DEF Edits
<1>5. Len(pictures) <= MaxPictures
  BY DEF TypeOK
<1> QED
  BY <1>1, <1>2, <1>3, <1>4, <1>5 DEF Keeps

LEMMA AddKeeps ==
  ASSUME TypeOK, NEW r, Adds(r)
  PROVE  Keeps
<1>1. Len(pictures) < MaxPictures /\ Len(pictures) \in Nat
  BY DEF Adds, TypeOK
<1> QED
  BY <1>1, AddFacts, BoundAssumption DEF Keeps

(* The steps of uploads, here and on other devices, leave what is shown    *)
(* and who is signed in alone.                                             *)
Uploads ==
  \/ \E n \in Names : OthersStore(n) \/ \E p \in Partners : Choose(p, n)
  \/ \E i \in Ids : \/ Stored(i) \/ Linked(i) \/ Fails(i) \/ Filed(i)
                    \/ \E to \in Partners \cup {None} : Sent(i, to)
                    \/ \E from \in Partners, to \in Accounts : OthersSend(i, from, to)

LEMMA ChosenType ==
  ASSUME NEW n \in Names, NEW s \in Steps, NEW by \in Maybe, NEW chat \in Maybe
  PROVE  IsPicture(Chosen(n, s, by, chat), n, s, by, chat, Blank, None, None)
BY DEF Chosen, IsPicture, Picture, Maybe

LEMMA Added ==
  ASSUME TypeOK, NEW n \in Names
  PROVE  /\ OthersStore(n) =>
              \E r : Adds(r) /\ IsPicture(r, n, "others", None, None, Blank, None, None)
         /\ \A p \in Partners : Choose(p, n) =>
              \E r : Adds(r) /\ IsPicture(r, n, "uploading", reader, p, Blank, None, None)
<1>1. None \in Maybe /\ reader \in Maybe /\ Partners \subseteq Maybe
  BY DEF TypeOK, Maybe, Users
<1>2. {"others", "uploading"} \subseteq Steps
  BY DEF Steps
<1>3. ASSUME OthersStore(n)
      PROVE  \E r : Adds(r) /\ IsPicture(r, n, "others", None, None, Blank, None, None)
  <2>1. PICK r : r = Chosen(n, "others", None, None)
    OBVIOUS
  <2>2. IsPicture(r, n, "others", None, None, Blank, None, None)
    BY <1>1, <1>2, <2>1, ChosenType
  <2>3. Adds(r)
    BY <1>3, <2>1, <2>2 DEF OthersStore, Adds, IsPicture
  <2> QED
    BY <2>2, <2>3
<1>4. ASSUME NEW p \in Partners, Choose(p, n)
      PROVE  \E r : Adds(r) /\ IsPicture(r, n, "uploading", reader, p, Blank, None, None)
  <2>1. PICK r : r = Chosen(n, "uploading", reader, p)
    OBVIOUS
  <2>2. IsPicture(r, n, "uploading", reader, p, Blank, None, None)
    BY <1>1, <1>2, <2>1, ChosenType
  <2>3. Adds(r)
    BY <1>4, <2>1, <2>2 DEF Choose, Adds, IsPicture
  <2> QED
    BY <2>2, <2>3
<1> QED
  BY <1>3, <1>4

LEMMA UploadsKeep ==
  ASSUME TypeOK, Uploads
  PROVE  Keeps /\ UNCHANGED <<alive, account, readVars>>
<1>1. CASE \E n \in Names : OthersStore(n) \/ \E p \in Partners : Choose(p, n)
  <2>1. Keeps
    BY <1>1, Added, AddKeeps
  <2> QED
    BY <1>1, <2>1 DEF OthersStore, Choose
<1>2. ASSUME NEW i \in Ids,
             \/ Stored(i) \/ Linked(i) \/ Fails(i) \/ Filed(i)
             \/ \E to \in Partners \cup {None} : Sent(i, to)
             \/ \E from \in Partners, to \in Accounts : OthersSend(i, from, to)
      PROVE  Keeps /\ UNCHANGED <<alive, account, readVars>>
  <2>1. i \in DOMAIN pictures
    BY <1>2 DEF Stored, Linked, Fails, Filed, Sent, OthersSend, At
  <2>2. PICK p \in Picture : p = pictures[i]
    BY <2>1, IdsFacts
  <2>3. \E r : Edits(i, r)
    BY <1>2, <2>2, Edited DEF Turns
  <2>4. UNCHANGED <<alive, account, readVars>>
    BY <1>2 DEF Stored, Linked, Fails, Filed, Sent, OthersSend
  <2> QED
    BY <2>3, <2>4, EditKeeps
<1> QED
  BY <1>1, <1>2 DEF Uploads

LEMMA DieFacts ==
  ASSUME TypeOK, Die
  PROVE  /\ pictures' \in Seq(Picture) /\ Len(pictures') <= MaxPictures
         /\ DOMAIN pictures' = DOMAIN pictures
         /\ \A i \in DOMAIN pictures : \A p \in Picture : p = pictures[i] =>
              IF InFlight(i)
              THEN IsPicture(pictures'[i], p.name, "lost", p.by, p.chat, p.url, p.from, p.to)
              ELSE pictures'[i] = pictures[i]
<1> DEFINE Lost(i) == IF InFlight(i) THEN [pictures[i] EXCEPT !.step = "lost"] ELSE pictures[i]
<1>1. ASSUME NEW i \in DOMAIN pictures, NEW p \in Picture, p = pictures[i]
      PROVE  IF InFlight(i)
             THEN IsPicture(pictures'[i], p.name, "lost", p.by, p.chat, p.url, p.from, p.to)
             ELSE pictures'[i] = pictures[i]
  <2>1. PICK r : r = [p EXCEPT !.step = "lost"]
    OBVIOUS
  <2>2. IsPicture(r, p.name, "lost", p.by, p.chat, p.url, p.from, p.to)
    BY <2>1, StepEdit DEF Steps
  <2>3. pictures'[i] = IF InFlight(i) THEN [pictures[i] EXCEPT !.step = "lost"] ELSE pictures[i]
    BY DEF Die
  <2>4. pictures'[i] = IF InFlight(i) THEN r ELSE pictures[i]
    BY <1>1, <2>1, <2>3, Zenon
  <2> QED
    BY <2>2, <2>4
<1>2. pictures \in Seq(Picture) /\ Len(pictures) <= MaxPictures
  BY DEF TypeOK
<1>3. \A i \in DOMAIN pictures : pictures'[i] \in Picture
  BY <1>1, IdsFacts DEF IsPicture
<1>4. PICK n \in Nat : n = Len(pictures) /\ DOMAIN pictures = 1..n
  BY <1>2
<1>5. pictures' \in [1..n -> Picture]
  <2>1. pictures' = [i \in 1..n |-> Lost(i)]
    BY <1>4 DEF Die
  <2>2. \A i \in 1..n : Lost(i) \in Picture
    BY <1>3, <1>4, <2>1
  <2> QED
    BY <2>1, <2>2
<1>6. pictures' \in Seq(Picture) /\ Len(pictures') = n /\ DOMAIN pictures' = 1..n
  BY <1>5
<1> QED
  BY <1>1, <1>2, <1>4, <1>6

LEMMA DieKeeps ==
  ASSUME TypeOK, Die
  PROVE  Keeps
<1> SUFFICES ASSUME NEW i \in DOMAIN pictures
             PROVE  /\ pictures'[i].name = pictures[i].name
                    /\ pictures[i].step \in {"filed", "lost"} => pictures'[i] = pictures[i]
  BY DieFacts DEF Keeps
<1>1. PICK p \in Picture : p = pictures[i]
  BY IdsFacts
<1> QED
  BY <1>1, DieFacts DEF IsPicture, InFlight

----------------------------------------------------------------------------
(* Types.                                                                  *)

LEMMA InitTypes == Init => TypeOK
BY BoundAssumption DEF Init, TypeOK, Ids, Picture, View, NewView, Blank, NoItem

(* Downloads are taken off and added one at a time.                        *)
LEMMA RemoveFacts ==
  ASSUME NEW S, NEW s \in Seq(S), NEW k \in DOMAIN s
  PROVE  /\ RemoveAt(s, k) \in Seq(S)
         /\ Len(RemoveAt(s, k)) = Len(s) - 1
         /\ \A j \in DOMAIN RemoveAt(s, k) :
              RemoveAt(s, k)[j] = IF j < k THEN s[j] ELSE s[j + 1]
<1>1. PICK n \in Nat : n = Len(s) /\ DOMAIN s = 1..n /\ \A j \in 1..n : s[j] \in S
  OBVIOUS
<1>2. k \in 1..n /\ k - 1 \in Int /\ k + 1 \in Int
  BY <1>1
<1>3. PICK t : t = SubSeq(s, 1, k - 1)
  OBVIOUS
<1>4. PICK u : u = SubSeq(s, k + 1, n)
  OBVIOUS
<1>5. t \in Seq(S) /\ Len(t) = k - 1 /\ \A j \in 1..(k - 1) : t[j] = s[j]
  <2>1. \A j \in 1..(k - 1) : s[j] \in S
    BY <1>1, <1>2
  <2>2. /\ SubSeq(s, 1, k - 1) \in Seq(S)
        /\ Len(SubSeq(s, 1, k - 1)) = IF 1 <= k - 1 THEN (k - 1) - 1 + 1 ELSE 0
        /\ \A j \in 1..((k - 1) - 1 + 1) : SubSeq(s, 1, k - 1)[j] = s[1 + j - 1]
    BY <1>2, <2>1, SubSeqProperties
  <2>3. /\ t \in Seq(S)
        /\ Len(t) = IF 1 <= k - 1 THEN (k - 1) - 1 + 1 ELSE 0
        /\ \A j \in 1..((k - 1) - 1 + 1) : t[j] = s[1 + j - 1]
    BY <1>3, <2>2
  <2> QED
    BY <1>1, <1>2, <2>3
<1>6. u \in Seq(S) /\ Len(u) = n - k /\ \A j \in 1..(n - k) : u[j] = s[k + j]
  <2>1. \A j \in (k + 1)..n : s[j] \in S
    BY <1>1, <1>2
  <2>2. /\ SubSeq(s, k + 1, n) \in Seq(S)
        /\ Len(SubSeq(s, k + 1, n)) = IF k + 1 <= n THEN n - (k + 1) + 1 ELSE 0
        /\ \A j \in 1..(n - (k + 1) + 1) : SubSeq(s, k + 1, n)[j] = s[(k + 1) + j - 1]
    BY <1>2, <2>1, SubSeqProperties
  <2>3. /\ u \in Seq(S)
        /\ Len(u) = IF k + 1 <= n THEN n - (k + 1) + 1 ELSE 0
        /\ \A j \in 1..(n - (k + 1) + 1) : u[j] = s[(k + 1) + j - 1]
    BY <1>4, <2>2
  <2>4. n - (k + 1) + 1 = n - k /\ n - k \in Nat /\ (k + 1 <= n \/ n - k = 0)
    BY <1>1, <1>2
  <2>5. ASSUME NEW j \in 1..(n - k)
        PROVE  u[j] = s[k + j]
    <3>1. u[j] = s[(k + 1) + j - 1]
      BY <2>3, <2>4
    <3>2. (k + 1) + j - 1 = k + j
      BY <1>1, <1>2
    <3> QED
      BY <3>1, <3>2
  <2>6. Len(u) = n - k
    BY <2>3, <2>4
  <2> QED
    BY <2>3, <2>5, <2>6
<1>7. RemoveAt(s, k) = t \o u
  BY <1>1, <1>3, <1>4 DEF RemoveAt
<1>8. PICK w : w = t \o u
  OBVIOUS
<1>9. /\ w \in Seq(S) /\ Len(w) = Len(t) + Len(u)
      /\ \A j \in 1..(Len(t) + Len(u)) : w[j] = IF j <= Len(t) THEN t[j] ELSE u[j - Len(t)]
  BY <1>5, <1>6, <1>8, ConcatProperties
<1>10. Len(w) = n - 1 /\ DOMAIN w = 1..(n - 1)
  <2>1. Len(w) = (k - 1) + (n - k)
    BY <1>5, <1>6, <1>9
  <2>2. (k - 1) + (n - k) = n - 1
    BY <1>1, <1>2
  <2>3. DOMAIN w = 1..Len(w)
    BY <1>9
  <2> QED
    BY <2>1, <2>2, <2>3
<1>11. ASSUME NEW j \in 1..(n - 1)
       PROVE  w[j] = IF j < k THEN s[j] ELSE s[j + 1]
  <2>1. Len(t) = k - 1 /\ Len(t) + Len(u) = n - 1
    <3>1. Len(t) = k - 1 /\ Len(u) = n - k
      BY <1>5, <1>6
    <3>2. (k - 1) + (n - k) = n - 1
      BY <1>1, <1>2
    <3> QED
      BY <3>1, <3>2
  <2>2. w[j] = IF j <= k - 1 THEN t[j] ELSE u[j - (k - 1)]
    BY <1>9, <2>1
  <2>3. j \in Int /\ 1 <= j /\ j <= n - 1 /\ k \in Int /\ n \in Int
    BY <1>1, <1>2
  <2>4. CASE j < k
    <3>1. j <= k - 1 /\ j \in 1..(k - 1)
      BY <2>3, <2>4
    <3>2. t[j] = s[j]
      BY <1>5, <3>1
    <3> QED
      BY <2>2, <2>4, <3>1, <3>2
  <2>5. CASE ~(j < k)
    <3>1. PICK i \in Int : i = j - (k - 1)
      BY <2>3
    <3>2. ~(j <= k - 1) /\ i \in 1..(n - k) /\ k + i = j + 1
      BY <2>3, <2>5, <3>1
    <3>3. w[j] = u[i]
      BY <2>2, <3>1, <3>2
    <3>4. u[i] = s[j + 1]
      BY <1>6, <3>2
    <3> QED
      BY <2>5, <3>3, <3>4
  <2> QED
    BY <2>4, <2>5
<1> QED
  BY <1>1, <1>7, <1>8, <1>9, <1>10, <1>11

LEMMA NoChatType ==
  ASSUME NoChat
  PROVE  /\ reader' \in Accounts \cup {None}
         /\ views' \in [Views -> View]
         /\ late' \subseteq Views
BY BoundAssumption DEF NoChat, View, NewView, Blank, NoItem

LEMMA StorageEffects ==
  ASSUME TypeOK, Uploads
  PROVE  \/ UNCHANGED <<storage, failures, switched>>
         \/ \E n \in Names : /\ storage' = [storage EXCEPT ![n] = Len(pictures) + 1]
                             /\ Len(pictures) + 1 \in Ids
                             /\ UNCHANGED <<failures, switched>>
         \/ \E i \in Ids : /\ storage' = [storage EXCEPT ![pictures[i].name] = i]
                           /\ UNCHANGED <<failures, switched>>
         \/ \E i \in Ids : /\ \/ UNCHANGED storage
                              \/ storage' = [storage EXCEPT ![pictures[i].name] = i]
                           /\ failures < MaxFailures /\ failures' = failures + 1
                           /\ UNCHANGED switched
         \/ /\ UNCHANGED <<storage, failures>>
            /\ Len(pictures) + 1 \in Ids /\ switched' = switched \cup {Len(pictures) + 1}
<1>1. Len(pictures) < MaxPictures => Len(pictures) + 1 \in Ids
  BY BoundAssumption DEF TypeOK, Ids
<1>2. ASSUME NEW n \in Names, OthersStore(n)
      PROVE  /\ storage' = [storage EXCEPT ![n] = Len(pictures) + 1]
             /\ Len(pictures) + 1 \in Ids
             /\ UNCHANGED <<failures, switched>>
  BY <1>1, <1>2 DEF OthersStore
<1>3. ASSUME NEW n \in Names, NEW p \in Partners, Choose(p, n)
      PROVE  /\ UNCHANGED <<storage, failures>>
             /\ Len(pictures) + 1 \in Ids
             /\ switched' = switched \/ switched' = switched \cup {Len(pictures) + 1}
  BY <1>1, <1>3 DEF Choose
<1>4. ASSUME NEW i \in Ids, Stored(i)
      PROVE  /\ storage' = [storage EXCEPT ![pictures[i].name] = i]
             /\ UNCHANGED <<failures, switched>>
  BY <1>4 DEF Stored
<1>5. ASSUME NEW i \in Ids, Fails(i)
      PROVE  /\ \/ UNCHANGED storage
                \/ storage' = [storage EXCEPT ![pictures[i].name] = i]
             /\ failures < MaxFailures /\ failures' = failures + 1
             /\ UNCHANGED switched
  BY <1>5 DEF Fails
<1>6. ASSUME NEW i \in Ids,
             \/ Linked(i) \/ Filed(i) \/ \E to \in Partners \cup {None} : Sent(i, to)
             \/ \E from \in Partners, to \in Accounts : OthersSend(i, from, to)
      PROVE  UNCHANGED <<storage, failures, switched>>
  BY <1>6 DEF Linked, Filed, Sent, OthersSend
<1> QED
  BY <1>2, <1>3, <1>4, <1>5, <1>6, Zenon DEF Uploads

LEMMA UploadTypes ==
  ASSUME TypeOK, Uploads
  PROVE  TypeOK'
<1>1. Keeps /\ UNCHANGED <<alive, account, readVars>>
  BY UploadsKeep
<1>2. /\ storage' \in [Names -> Ids \cup {Blank}]
      /\ failures' \in 0..MaxFailures
      /\ switched' \subseteq Ids
  BY StorageEffects, BoundAssumption DEF TypeOK
<1> QED
  BY <1>1, <1>2 DEF TypeOK, Keeps, readVars

(* The steps of the screen and of the account.                             *)
Screens ==
  \/ Relaunch \/ OpenChat \/ LeaveChat \/ \E a \in Accounts \cup {None} : SwitchAccount(a)
  \/ \E v \in Views : Configure(v)
  \/ \E k \in DOMAIN loads : LoadEnds(k)
  \/ \E i \in Ids : Evict(i)

LEMMA ScreensQuiet ==
  ASSUME Screens
  PROVE  UNCHANGED <<pictures, storage, failures>>
BY DEF Screens, Relaunch, OpenChat, LeaveChat, SwitchAccount, Configure, ConfigureText,
       ConfigureEmpty, ConfigurePicture, LoadEnds, Evict

LEMMA LoadType ==
  ASSUME TypeOK, NEW k \in DOMAIN loads
  PROVE  /\ loads[k] \in (Views \cup {Gone}) \X Ids
         /\ loads[k][1] \in Views \cup {Gone} /\ loads[k][2] \in Ids
BY DEF TypeOK

(* What a configured cell makes of the record of its view.                 *)
IsView(r, item, image, hidden) ==
  r \in View /\ r.item = item /\ r.image = image /\ r.hidden = hidden

Turned(v, item, image, hidden) ==
  \E r : views' = [views EXCEPT ![v] = r] /\ IsView(r, item, image, hidden)

LEMMA ConfigureFacts ==
  ASSUME TypeOK, NEW v \in Views, NEW q \in View, q = views[v]
  PROVE  /\ ConfigureText(v) => Turned(v, Text, q.image, TRUE)
         /\ ConfigureEmpty(v) => Turned(v, Empty, q.image, q.hidden)
<1>1. ASSUME ConfigureText(v) PROVE Turned(v, Text, q.image, TRUE)
  <2>1. PICK r : r = [q EXCEPT !.item = Text, !.hidden = TRUE]
    OBVIOUS
  <2>2. IsView(r, Text, q.image, TRUE)
    BY <2>1 DEF IsView, View
  <2>3. views' = [views EXCEPT ![v].item = Text, ![v].hidden = TRUE]
    BY <1>1 DEF ConfigureText
  <2>4. views' = [views EXCEPT ![v] = r]
    BY <2>1, <2>3, Zenon DEF TypeOK
  <2> QED
    BY <2>2, <2>4 DEF Turned
<1>2. ASSUME ConfigureEmpty(v) PROVE Turned(v, Empty, q.image, q.hidden)
  <2>1. PICK r : r = [q EXCEPT !.item = Empty]
    OBVIOUS
  <2>2. IsView(r, Empty, q.image, q.hidden)
    BY <2>1 DEF IsView, View
  <2>3. views' = [views EXCEPT ![v].item = Empty]
    BY <1>2 DEF ConfigureEmpty
  <2>4. views' = [views EXCEPT ![v] = r]
    BY <2>1, <2>3, Zenon DEF TypeOK
  <2> QED
    BY <2>2, <2>4 DEF Turned
<1> QED
  BY <1>1, <1>2

LEMMA ConfigurePictureFacts ==
  ASSUME TypeOK, NEW v \in Views, NEW q \in View, q = views[v],
         NEW i \in Ids, ConfigurePicture(v, i), CacheIsTrue,
         NEW u \in Ids, u = pictures[i].url
  PROVE  IF cache[u] # Blank
         THEN Turned(v, i, u, FALSE) /\ loads' = loads
         ELSE /\ Turned(v, i, q.image, FALSE)
              /\ loads' = Append(loads, <<v, u>>) /\ Len(loads) < MaxLoads
<1>1. PICK r : r = [q EXCEPT !.item = i, !.hidden = FALSE]
  OBVIOUS
<1>2. IsView(r, i, q.image, FALSE)
  BY <1>1 DEF IsView, View
<1>3. r = Uncovered(v, i)
  BY <1>1 DEF Uncovered
<1>4. CASE cache[u] # Blank
  <2>1. cache[u] = u
    BY <1>4 DEF CacheIsTrue
  <2>2. PICK t : t = [r EXCEPT !.image = u]
    OBVIOUS
  <2>3. IsView(t, i, u, FALSE)
    BY <1>2, <2>2 DEF IsView, View
  <2>4. /\ views' = [views EXCEPT ![v] = [Uncovered(v, i) EXCEPT !.image = cache[u]]]
        /\ loads' = loads
    BY <1>4 DEF ConfigurePicture
  <2>5. views' = [views EXCEPT ![v] = t]
    BY <1>3, <2>1, <2>2, <2>4, Zenon
  <2> QED
    BY <1>4, <2>3, <2>4, <2>5 DEF Turned
<1>5. CASE cache[u] = Blank
  <2>1. /\ views' = [views EXCEPT ![v] = Uncovered(v, i)]
        /\ loads' = Append(loads, <<v, u>>) /\ Len(loads) < MaxLoads
    BY <1>5 DEF ConfigurePicture
  <2>2. views' = [views EXCEPT ![v] = r]
    BY <1>3, <2>1
  <2> QED
    BY <1>2, <1>5, <2>1, <2>2 DEF Turned
<1> QED
  BY <1>4, <1>5

LEMMA LoadEndsFacts ==
  ASSUME TypeOK, NEW k \in DOMAIN loads, LoadEnds(k),
         NEW v \in Views, v = loads[k][1], NEW u \in Ids, u = loads[k][2],
         NEW q \in View, q = views[v]
  PROVE  Turned(v, q.item, u, q.hidden)
<1>1. PICK r : r = [q EXCEPT !.image = u]
  OBVIOUS
<1>2. IsView(r, q.item, u, q.hidden)
  BY <1>1 DEF IsView, View
<1>3. views' = [views EXCEPT ![v].image = u]
  BY GoneAssumption DEF LoadEnds
<1>4. views' = [views EXCEPT ![v] = r]
  BY <1>1, <1>3, Zenon DEF TypeOK
<1> QED
  BY <1>2, <1>4 DEF Turned

LEMMA TurnedType ==
  ASSUME TypeOK, NEW v \in Views, NEW item, NEW image, NEW hidden,
         Turned(v, item, image, hidden)
  PROVE  /\ views' \in [Views -> View]
         /\ IsView(views'[v], item, image, hidden)
         /\ \A w \in Views : w # v => views'[w] = views[w]
BY DEF Turned, IsView, TypeOK

(* The URL of a listed picture that its reader can open.                   *)
LEMMA ListedFacts ==
  ASSUME TypeOK, NamesSound, NEW i \in Ids, At(i, "filed")
  PROVE  /\ i \in DOMAIN pictures /\ pictures[i].url \in Ids
         /\ pictures[i].url \in DOMAIN pictures
         /\ pictures[pictures[i].url].name = pictures[i].name
<1>1. i \in DOMAIN pictures /\ pictures[i].step = "filed"
  BY DEF At
<1>2. pictures[i].url # Blank
  BY <1>1 DEF NamesSound, HasUrl
<1> QED
  BY <1>1, <1>2, IdsFacts DEF NamesSound

LEMMA ConfiguredFacts ==
  ASSUME PicturesInv, NEW v \in Views, NEW i \in Ids, ConfigurePicture(v, i)
  PROVE  \E q \in View, u \in Ids :
           /\ q = views[v] /\ u = pictures[i].url /\ At(i, "filed")
           /\ IF cache[u] # Blank
              THEN Turned(v, i, u, FALSE) /\ loads' = loads
              ELSE /\ Turned(v, i, q.image, FALSE)
                   /\ loads' = Append(loads, <<v, u>>) /\ Len(loads) < MaxLoads
           /\ late' = IF OnTheWay(v) \subseteq {u} THEN late \ {v} ELSE late \cup {v}
           /\ UNCHANGED <<alive, account, pictures, storage, failures, switched, reader, cache>>
<1>1. PICK q \in View : q = views[v]
  BY DEF PicturesInv, TypeOK
<1>2. At(i, "filed")
  BY DEF ConfigurePicture, Listed
<1>3. PICK u \in Ids : u = pictures[i].url
  BY <1>2, ListedFacts DEF PicturesInv
<1>4. IF cache[u] # Blank
      THEN Turned(v, i, u, FALSE) /\ loads' = loads
      ELSE /\ Turned(v, i, q.image, FALSE)
           /\ loads' = Append(loads, <<v, u>>) /\ Len(loads) < MaxLoads
  BY <1>1, <1>3, ConfigurePictureFacts DEF PicturesInv
<1>5. late' = IF OnTheWay(v) \subseteq {u} THEN late \ {v} ELSE late \cup {v}
  BY <1>3 DEF ConfigurePicture
<1>6. UNCHANGED <<alive, account, pictures, storage, failures, switched, reader, cache>>
  BY DEF ConfigurePicture
<1> QED
  BY <1>1, <1>2, <1>3, <1>4, <1>5, <1>6

LEMMA LoadAdded ==
  ASSUME TypeOK, NEW v \in Views, NEW u \in Ids, loads' = Append(loads, <<v, u>>),
         Len(loads) < MaxLoads
  PROVE  /\ loads' \in Seq((Views \cup {Gone}) \X Ids) /\ Len(loads') <= MaxLoads
         /\ OnTheWay(v)' = OnTheWay(v) \cup {u}
         /\ \A w \in Views : w # v => OnTheWay(w)' = OnTheWay(w)
         /\ \A k \in DOMAIN loads' :
              (k \in DOMAIN loads /\ loads'[k] = loads[k]) \/ loads'[k] = <<v, u>>
<1>1. PICK S : S = (Views \cup {Gone}) \X Ids
  OBVIOUS
<1>2. loads \in Seq(S) /\ <<v, u>> \in S
  BY <1>1 DEF TypeOK
<1>3. PICK e \in S : e = <<v, u>>
  BY <1>2
<1>4. PICK n \in Nat : n = Len(loads)
  BY <1>2
<1>5. loads' \in Seq(S) /\ Len(loads') = n + 1 /\ DOMAIN loads' = 1..(n + 1) /\ DOMAIN loads = 1..n
  BY <1>2, <1>3, <1>4
<1>6. loads'[n + 1] = e /\ \A k \in 1..n : loads'[k] = loads[k]
  BY <1>2, <1>3, <1>4
<1>7. n + 1 <= MaxLoads
  BY <1>4, BoundAssumption
<1>8. ASSUME NEW w \in Views, NEW x
      PROVE  x \in OnTheWay(w)' <=> x \in OnTheWay(w) \/ (w = v /\ x = u)
  <2>1. x \in OnTheWay(w) <=> \E k \in 1..n : loads[k][1] = w /\ x = loads[k][2]
    BY <1>5 DEF OnTheWay
  <2>2. x \in OnTheWay(w)' <=> \E k \in 1..(n + 1) : loads'[k][1] = w /\ x = loads'[k][2]
    BY <1>5 DEF OnTheWay
  <2>3. \A k \in 1..(n + 1) : k \in 1..n \/ k = n + 1
    BY <1>4
  <2>4. n + 1 \in 1..(n + 1) /\ 1..n \subseteq 1..(n + 1)
    BY <1>4
  <2>5. e[1] = v /\ e[2] = u
    BY <1>3
  <2> QED
    BY <1>6, <2>1, <2>2, <2>3, <2>4, <2>5
<1>9. OnTheWay(v)' = OnTheWay(v) \cup {u}
  BY <1>8
<1>10. \A w \in Views : w # v => OnTheWay(w)' = OnTheWay(w)
  BY <1>8
<1>11. \A k \in DOMAIN loads' :
         (k \in DOMAIN loads /\ loads'[k] = loads[k]) \/ loads'[k] = <<v, u>>
  <2>1. \A k \in 1..(n + 1) : k \in 1..n \/ k = n + 1
    BY <1>4
  <2> QED
    BY <1>3, <1>5, <1>6, <2>1
<1> QED
  BY <1>1, <1>4, <1>5, <1>7, <1>9, <1>10, <1>11

LEMMA LoadRemoved ==
  ASSUME TypeOK, NEW k \in DOMAIN loads, loads' = RemoveAt(loads, k)
  PROVE  /\ loads' \in Seq((Views \cup {Gone}) \X Ids) /\ Len(loads') <= MaxLoads
         /\ \A w \in Views : OnTheWay(w)' \subseteq OnTheWay(w)
         /\ \A w \in Views : w # loads[k][1] => OnTheWay(w)' = OnTheWay(w)
         /\ \A j \in DOMAIN loads' : \E i \in DOMAIN loads : loads'[j] = loads[i]
<1>1. PICK S : S = (Views \cup {Gone}) \X Ids
  OBVIOUS
<1>2. loads \in Seq(S) /\ Len(loads) <= MaxLoads
  BY <1>1 DEF TypeOK
<1>3. PICK n \in Nat : n = Len(loads) /\ DOMAIN loads = 1..n
  BY <1>2
<1>4. /\ loads' \in Seq(S) /\ Len(loads') = n - 1
      /\ \A j \in DOMAIN loads' : loads'[j] = IF j < k THEN loads[j] ELSE loads[j + 1]
  <2>1. PICK t : t = RemoveAt(loads, k)
    OBVIOUS
  <2>2. t \in Seq(S) /\ Len(t) = Len(loads) - 1
    BY <1>2, <2>1, RemoveFacts
  <2>3. \A j \in DOMAIN t : t[j] = IF j < k THEN loads[j] ELSE loads[j + 1]
    BY <1>2, <2>1, RemoveFacts
  <2>4. loads' = t
    BY <2>1
  <2> QED
    BY <1>3, <2>2, <2>3, <2>4
<1>5. DOMAIN loads' = 1..(n - 1) /\ n - 1 <= MaxLoads
  BY <1>2, <1>3, <1>4, BoundAssumption
<1>6. \A j \in 1..(n - 1) : \E i \in 1..n : loads'[j] = loads[i]
  <2> SUFFICES ASSUME NEW j \in 1..(n - 1) PROVE \E i \in 1..n : loads'[j] = loads[i]
    OBVIOUS
  <2>1. j \in 1..n /\ j + 1 \in 1..n
    BY <1>3
  <2> QED
    BY <1>4, <1>5, <2>1
<1>7. \A i \in 1..n : i # k => \E j \in 1..(n - 1) : loads'[j] = loads[i]
  <2> SUFFICES ASSUME NEW i \in 1..n, i # k PROVE \E j \in 1..(n - 1) : loads'[j] = loads[i]
    OBVIOUS
  <2>0. k \in 1..n
    BY <1>3
  <2>1. CASE i < k
    <3>1. i \in 1..(n - 1)
      BY <1>3, <2>0, <2>1
    <3> QED
      BY <1>4, <1>5, <2>1, <3>1
  <2>2. CASE i > k
    <3>1. i - 1 \in 1..(n - 1) /\ ~(i - 1 < k) /\ (i - 1) + 1 = i
      BY <1>3, <2>0, <2>2
    <3> QED
      BY <1>4, <1>5, <3>1
  <2> QED
    BY <2>0, <2>1, <2>2
<1>8. ASSUME NEW w \in Views
      PROVE  /\ OnTheWay(w)' \subseteq OnTheWay(w)
             /\ w # loads[k][1] => OnTheWay(w)' = OnTheWay(w)
  <2>1. \A x : x \in OnTheWay(w) <=> \E j \in 1..n : loads[j][1] = w /\ x = loads[j][2]
    BY <1>3 DEF OnTheWay
  <2>2. \A x : x \in OnTheWay(w)' <=> \E j \in 1..(n - 1) : loads'[j][1] = w /\ x = loads'[j][2]
    BY <1>5 DEF OnTheWay
  <2>3. OnTheWay(w)' \subseteq OnTheWay(w)
    BY <1>6, <2>1, <2>2
  <2>4. ASSUME w # loads[k][1] PROVE OnTheWay(w) \subseteq OnTheWay(w)'
    BY <1>7, <2>1, <2>2, <2>4
  <2> QED
    BY <2>3, <2>4
<1> QED
  BY <1>1, <1>3, <1>4, <1>5, <1>6, <1>8

LEMMA ScreenTypes ==
  ASSUME PicturesInv, Screens
  PROVE  TypeOK'
<1> USE DEF PicturesInv
<1>1. CASE Relaunch
  BY <1>1 DEF Relaunch, TypeOK, readVars
<1>2. CASE OpenChat
  BY <1>2 DEF OpenChat, TypeOK
<1>3. CASE LeaveChat
  <2>1. /\ UNCHANGED <<alive, account, pictures, storage, failures, switched, cache>>
        /\ NoChat
        /\ loads' = [k \in DOMAIN loads |-> <<Gone, loads[k][2]>>]
    BY <1>3 DEF LeaveChat
  <2>2. loads' \in Seq((Views \cup {Gone}) \X Ids) /\ Len(loads') <= MaxLoads
    <3>1. PICK n \in Nat : n = Len(loads) /\ DOMAIN loads = 1..n
      BY DEF TypeOK
    <3>2. PICK S : S = (Views \cup {Gone}) \X Ids
      OBVIOUS
    <3>3. \A k \in 1..n : <<Gone, loads[k][2]>> \in S
      BY <3>1, <3>2, LoadType
    <3>4. loads' \in [1..n -> S]
      BY <2>1, <3>1, <3>3
    <3>5. loads' \in Seq(S) /\ Len(loads') = n
      BY <3>1, <3>4
    <3>6. n <= MaxLoads
      BY <3>1 DEF TypeOK
    <3> QED
      BY <3>2, <3>5, <3>6
  <2> QED
    BY <2>1, <2>2, NoChatType DEF TypeOK
<1>4. CASE \E a \in Accounts \cup {None} : SwitchAccount(a)
  <2>1. switched' \subseteq Ids
    BY <1>4, IdsFacts DEF SwitchAccount, TypeOK
  <2> QED
    BY <1>4, <2>1 DEF SwitchAccount, TypeOK, readVars
<1>5. ASSUME NEW v \in Views, ConfigureText(v) \/ ConfigureEmpty(v)
      PROVE  TypeOK'
  <2>1. PICK q \in View : q = views[v]
    BY DEF TypeOK
  <2>2. views' \in [Views -> View]
    BY <1>5, <2>1, ConfigureFacts, TurnedType
  <2> QED
    BY <1>5, <2>2 DEF ConfigureText, ConfigureEmpty, TypeOK
<1>6. ASSUME NEW v \in Views, NEW i \in Ids, ConfigurePicture(v, i)
      PROVE  TypeOK'
  <2>1. PICK q \in View, u \in Ids :
           /\ IF cache[u] # Blank
              THEN Turned(v, i, u, FALSE) /\ loads' = loads
              ELSE /\ Turned(v, i, q.image, FALSE)
                   /\ loads' = Append(loads, <<v, u>>) /\ Len(loads) < MaxLoads
           /\ late' = IF OnTheWay(v) \subseteq {u} THEN late \ {v} ELSE late \cup {v}
           /\ UNCHANGED <<alive, account, pictures, storage, failures, switched, reader, cache>>
    BY <1>6, ConfiguredFacts
  <2>2. views' \in [Views -> View]
    BY <2>1, TurnedType
  <2>3. loads' \in Seq((Views \cup {Gone}) \X Ids) /\ Len(loads') <= MaxLoads
    BY <2>1, LoadAdded DEF TypeOK
  <2>4. late' \subseteq Views
    BY <2>1 DEF TypeOK
  <2> QED
    BY <2>1, <2>2, <2>3, <2>4 DEF TypeOK
<1>7. ASSUME NEW k \in DOMAIN loads, LoadEnds(k)
      PROVE  TypeOK'
  <2>1. PICK u \in Ids : u = loads[k][2]
    BY LoadType
  <2>2. /\ loads' = RemoveAt(loads, k) /\ cache' = [cache EXCEPT ![u] = u]
        /\ UNCHANGED <<alive, account, pictures, storage, failures, switched, reader, late>>
    BY <1>7, <2>1 DEF LoadEnds
  <2>3. loads' \in Seq((Views \cup {Gone}) \X Ids) /\ Len(loads') <= MaxLoads
    BY <2>2, LoadRemoved
  <2>4. views' \in [Views -> View]
    <3>1. CASE loads[k][1] = Gone
      BY <1>7, <3>1 DEF LoadEnds, TypeOK
    <3>2. CASE loads[k][1] # Gone
      <4>1. PICK v \in Views : v = loads[k][1]
        BY <3>2, LoadType
      <4>2. PICK q \in View : q = views[v]
        BY DEF TypeOK
      <4> QED
        BY <1>7, <2>1, <4>1, <4>2, LoadEndsFacts, TurnedType
    <3> QED
      BY <3>1, <3>2
  <2>5. cache' \in [Ids -> Ids \cup {Blank, Loading}]
    BY <2>1, <2>2 DEF TypeOK
  <2> QED
    BY <2>2, <2>3, <2>4, <2>5 DEF TypeOK
<1>8. ASSUME NEW i \in Ids, Evict(i)
      PROVE  TypeOK'
  BY <1>8 DEF Evict, TypeOK
<1> QED
  BY <1>1, <1>2, <1>3, <1>4, <1>5, <1>6, <1>7, <1>8 DEF Screens, Configure

LEMMA DieTypes ==
  ASSUME TypeOK, Die, UNCHANGED <<account, storage, switched>>, failures' \in 0..MaxFailures
  PROVE  TypeOK'
<1>1. pictures' \in Seq(Picture) /\ Len(pictures') <= MaxPictures
  BY DieFacts
<1>2. alive' \in BOOLEAN /\ cache' \in [Ids -> Ids \cup {Blank, Loading}]
  BY DEF Die
<1>3. loads' \in Seq((Views \cup {Gone}) \X Ids) /\ Len(loads') <= MaxLoads
  BY BoundAssumption DEF Die
<1> QED
  BY <1>1, <1>2, <1>3, NoChatType DEF Die, TypeOK

----------------------------------------------------------------------------
(* Names: what is stored and linked belongs to the name it was drawn for.  *)

(* A new record for one image keeps the names sound.                       *)
LEMMA NamesKept ==
  ASSUME TypeOK, NamesSound, NEW i, NEW r, Edits(i, r),
         storage' = storage \/ storage' = [storage EXCEPT ![r.name] = i],
         r.step \notin {"uploading", "failed", "lost"} => storage'[r.name] # Blank,
         r.step \in {"linked", "sent", "filed"} => r.url # Blank,
         r.url \in {pictures[i].url, storage[r.name]}
  PROVE  NamesSound'
<1>1. i \in DOMAIN pictures /\ i \in Ids /\ i # Blank /\ r.name \in Names /\ r.name = pictures[i].name
  BY IdsFacts DEF Edits, Picture
<1>2. DOMAIN pictures' = DOMAIN pictures /\ pictures'[i] = r
  BY EditFacts
<1>3. \A j \in DOMAIN pictures : j # i => pictures'[j] = pictures[j]
  BY EditFacts
<1>4. \A j \in DOMAIN pictures : pictures'[j].name = pictures[j].name
  BY <1>1, <1>2, <1>3
<1>5. \A n \in Names : storage'[n] = storage[n] \/ (n = r.name /\ storage'[n] = i)
  BY <1>1 DEF TypeOK
<1>6. ASSUME NEW n \in Names, storage'[n] # Blank
      PROVE  storage'[n] \in DOMAIN pictures /\ pictures[storage'[n]].name = n
  BY <1>1, <1>5, <1>6 DEF NamesSound
<1>7. ASSUME NEW j \in DOMAIN pictures
      PROVE  /\ pictures'[j].step \notin {"uploading", "failed", "lost"} => storage'[pictures[j].name] # Blank
             /\ pictures'[j].step \in {"linked", "sent", "filed"} => pictures'[j].url # Blank
             /\ pictures'[j].url # Blank =>
                  pictures'[j].url \in DOMAIN pictures /\ pictures[pictures'[j].url].name = pictures[j].name
  <2>1. CASE j = i
    <3>1. r.url # Blank => r.url \in DOMAIN pictures /\ pictures[r.url].name = r.name
      BY <1>1 DEF NamesSound
    <3> QED
      BY <1>1, <1>2, <2>1, <3>1
  <2>2. CASE j # i
    <3>1. pictures'[j] = pictures[j] /\ pictures[j].name \in Names
      BY <1>3, <2>2, IdsFacts DEF Picture
    <3>2. storage[pictures[j].name] # Blank => storage'[pictures[j].name] # Blank
      BY <1>1, <1>5, <3>1
    <3> QED
      BY <3>1, <3>2 DEF NamesSound, Placed, HasUrl
  <2> QED
    BY <2>1, <2>2
<1> QED
  BY <1>2, <1>4, <1>6, <1>7 DEF NamesSound, Placed, HasUrl

LEMMA UploadNames ==
  ASSUME TypeOK, NamesSound, Uploads
  PROVE  NamesSound'
<1>1. ASSUME NEW n \in Names, OthersStore(n) \/ \E p \in Partners : Choose(p, n)
      PROVE  NamesSound'
  <2>1. PICK r : /\ Adds(r) /\ r.name = n /\ r.url = Blank
                 /\ r.step = "others" \/ r.step = "uploading"
                 /\ IF r.step = "others" THEN storage' = [storage EXCEPT ![n] = Len(pictures) + 1]
                                         ELSE storage' = storage
    <3>1. CASE OthersStore(n)
      <4>1. storage' = [storage EXCEPT ![n] = Len(pictures) + 1]
        BY <3>1 DEF OthersStore
      <4> QED
        BY <3>1, <4>1, Added DEF IsPicture
    <3>2. CASE \E p \in Partners : Choose(p, n)
      <4>1. storage' = storage
        BY <3>2 DEF Choose
      <4> QED
        BY <3>2, <4>1, Added DEF IsPicture
    <3> QED
      BY <1>1, <3>1, <3>2
  <2>2. PICK m \in Ids : m = Len(pictures) + 1
    BY <2>1, AddFacts
  <2>3. DOMAIN pictures' = DOMAIN pictures \cup {m} /\ m \notin DOMAIN pictures /\ pictures'[m] = r
    BY <2>1, <2>2, AddFacts
  <2>4. \A j \in DOMAIN pictures : pictures'[j] = pictures[j]
    BY <2>1, AddFacts
  <2>5. \A k \in Names : storage'[k] = storage[k] \/ (k = n /\ r.step = "others" /\ storage'[k] = m)
    BY <2>1, <2>2 DEF TypeOK
  <2>6. m # Blank /\ (r.step = "others" => storage'[n] = m)
    BY <2>1, <2>2, IdsFacts DEF TypeOK
  <2>7. \A j \in DOMAIN pictures : pictures[j].name \in Names
    BY IdsFacts DEF Picture
  <2>8. ASSUME NEW k \in Names, storage'[k] # Blank
        PROVE  storage'[k] \in DOMAIN pictures' /\ pictures'[storage'[k]].name = k
    <3>1. CASE storage'[k] = storage[k]
      BY <2>3, <2>4, <2>8, <3>1 DEF NamesSound
    <3>2. CASE k = n /\ storage'[k] = m
      BY <2>1, <2>3, <3>2
    <3> QED
      BY <2>5, <3>1, <3>2
  <2>9. ASSUME NEW j \in DOMAIN pictures'
        PROVE  /\ Placed(j)' => storage'[pictures'[j].name] # Blank
               /\ HasUrl(j)' => pictures'[j].url # Blank
               /\ pictures'[j].url # Blank =>
                    pictures'[j].url \in DOMAIN pictures' /\ pictures'[pictures'[j].url].name = pictures'[j].name
    <3>1. CASE j = m
      BY <2>1, <2>3, <2>6, <3>1 DEF Placed, HasUrl
    <3>2. CASE j \in DOMAIN pictures
      <4>1. pictures'[j] = pictures[j]
        BY <2>4, <3>2
      <4>2. storage[pictures[j].name] # Blank => storage'[pictures[j].name] # Blank
        BY <2>5, <2>6, <2>7, <3>2
      <4> QED
        BY <2>3, <2>4, <3>2, <4>1, <4>2 DEF NamesSound, Placed, HasUrl
    <3> QED
      BY <2>3, <3>1, <3>2
  <2> QED
    BY <2>8, <2>9 DEF NamesSound
<1>2. ASSUME NEW i \in Ids,
             \/ Stored(i) \/ Linked(i) \/ Fails(i) \/ Filed(i)
             \/ \E to \in Partners \cup {None} : Sent(i, to)
             \/ \E from \in Partners, to \in Accounts : OthersSend(i, from, to)
      PROVE  NamesSound'
  <2>1. i \in DOMAIN pictures /\ i # Blank
    BY <1>2, IdsFacts DEF Stored, Linked, Fails, Filed, Sent, OthersSend, At
  <2>2. PICK p \in Picture : p = pictures[i]
    BY <2>1, IdsFacts
  <2>3. p.name \in Names
    BY DEF Picture
  <2>4. /\ p.step \notin {"uploading", "failed", "lost"} => storage[p.name] # Blank
        /\ p.step \in {"linked", "sent", "filed"} => p.url # Blank
    BY <2>1, <2>2 DEF NamesSound, Placed, HasUrl
  <2>5. CASE Stored(i)
    <3>1. PICK r : Edits(i, r) /\ IsPicture(r, p.name, "stored", p.by, p.chat, p.url, p.from, p.to)
      BY <2>2, <2>5, Edited DEF Turns
    <3>2. storage' = [storage EXCEPT ![r.name] = i] /\ storage'[r.name] = i
      BY <2>2, <2>3, <2>5, <3>1 DEF Stored, IsPicture, TypeOK
    <3> QED
      BY <2>1, <2>2, <3>1, <3>2, NamesKept DEF IsPicture
  <2>6. CASE Fails(i)
    <3>1. PICK r : Edits(i, r) /\ IsPicture(r, p.name, "failed", p.by, p.chat, p.url, p.from, p.to)
      BY <2>2, <2>6, Edited DEF Turns
    <3>2. storage' = storage \/ storage' = [storage EXCEPT ![r.name] = i]
      BY <2>2, <2>6, <3>1 DEF Fails, IsPicture
    <3> QED
      BY <2>2, <3>1, <3>2, NamesKept DEF IsPicture
  <2>7. CASE Filed(i)
    <3>1. PICK r : Edits(i, r) /\ IsPicture(r, p.name, "filed", p.by, p.chat, p.url, p.from, p.to)
      BY <2>2, <2>7, Edited DEF Turns
    <3>2. storage' = storage /\ p.step = "sent"
      BY <2>2, <2>7 DEF Filed, At
    <3> QED
      BY <2>2, <2>4, <3>1, <3>2, NamesKept DEF IsPicture
  <2>8. CASE Linked(i)
    <3>1. PICK r : Edits(i, r) /\ IsPicture(r, p.name, "linked", p.by, p.chat, storage[p.name], p.from, p.to)
      BY <2>2, <2>8, Edited
    <3>2. storage' = storage /\ p.step = "stored"
      BY <2>2, <2>8 DEF Linked, At
    <3> QED
      BY <2>2, <2>4, <3>1, <3>2, NamesKept DEF IsPicture
  <2>9. ASSUME NEW to \in Partners \cup {None}, Sent(i, to)
        PROVE  NamesSound'
    <3>1. PICK r : Edits(i, r) /\ IsPicture(r, p.name, "sent", p.by, p.chat, p.url, account, to)
      BY <2>2, <2>9, Edited
    <3>2. storage' = storage /\ p.step = "linked"
      BY <2>2, <2>9 DEF Sent, At
    <3> QED
      BY <2>2, <2>4, <3>1, <3>2, NamesKept DEF IsPicture
  <2>10. ASSUME NEW from \in Partners, NEW to \in Accounts, OthersSend(i, from, to)
         PROVE  NamesSound'
    <3>1. PICK r : Edits(i, r) /\ IsPicture(r, p.name, "filed", from, to, storage[p.name], from, to)
      BY <2>2, <2>10, Edited
    <3>2. storage' = storage /\ p.step = "others"
      BY <2>2, <2>10 DEF OthersSend, At
    <3> QED
      BY <2>2, <2>4, <3>1, <3>2, NamesKept DEF IsPicture
  <2> QED
    BY <1>2, <2>5, <2>6, <2>7, <2>8, <2>9, <2>10
<1> QED
  BY <1>1, <1>2 DEF Uploads

LEMMA DieNames ==
  ASSUME TypeOK, NamesSound, Die, UNCHANGED storage
  PROVE  NamesSound'
<1>1. DOMAIN pictures' = DOMAIN pictures
  BY DieFacts
<1>2. ASSUME NEW i \in DOMAIN pictures
      PROVE  /\ pictures'[i].name = pictures[i].name /\ pictures'[i].url = pictures[i].url
             /\ Placed(i)' => Placed(i)
             /\ HasUrl(i)' => HasUrl(i)
  <2>1. PICK p \in Picture : p = pictures[i]
    BY IdsFacts
  <2> QED
    BY <2>1, DieFacts DEF IsPicture, InFlight, Placed, HasUrl
<1>3. \A n \in Names : storage[n] # Blank =>
        storage[n] \in DOMAIN pictures /\ pictures'[storage[n]].name = n
  BY <1>2 DEF NamesSound
<1> QED
  BY <1>1, <1>2, <1>3 DEF NamesSound

----------------------------------------------------------------------------
(* Addresses: who is signed in stays who chose the image, or the image is  *)
(* remembered in switched.                                                 *)

AddressSound(i) ==
  /\ InFlight(i) => pictures[i].by = account
  /\ At(i, "sent") => pictures[i].from = pictures[i].by /\ pictures[i].to \in {pictures[i].chat, None}
  /\ At(i, "filed") => pictures[i].from = pictures[i].by /\ pictures[i].to = pictures[i].chat

LEMMA UploadAddresses ==
  ASSUME TypeOK, AddressesSound, Uploads
  PROVE  AddressesSound'
<1>1. \A i \in DOMAIN pictures \ switched : AddressSound(i)
  BY DEF AddressesSound, AddressSound
<1>2. account' = account
  BY UploadsKeep
<1>3. ASSUME NEW n \in Names, OthersStore(n) \/ \E p \in Partners : Choose(p, n)
      PROVE  AddressesSound'
  <2>1. PICK r : /\ Adds(r)
                 /\ \/ r.step = "others" /\ switched' = switched
                    \/ /\ r.step = "uploading" /\ r.by = reader
                       /\ switched' = IF account = reader THEN switched
                                      ELSE switched \cup {Len(pictures) + 1}
    <3>1. CASE OthersStore(n)
      <4>1. switched' = switched
        BY <3>1 DEF OthersStore
      <4> QED
        BY <3>1, <4>1, Added DEF IsPicture
    <3>2. CASE \E p \in Partners : Choose(p, n)
      <4>1. switched' = IF account = reader THEN switched ELSE switched \cup {Len(pictures) + 1}
        BY <3>2 DEF Choose
      <4> QED
        BY <3>2, <4>1, Added DEF IsPicture
    <3> QED
      BY <1>3, <3>1, <3>2
  <2>2. PICK m \in Ids : m = Len(pictures) + 1
    BY <2>1, AddFacts
  <2>3. DOMAIN pictures' = DOMAIN pictures \cup {m} /\ pictures'[m] = r
    BY <2>1, <2>2, AddFacts
  <2>4. \A j \in DOMAIN pictures : pictures'[j] = pictures[j]
    BY <2>1, AddFacts
  <2>5. ASSUME NEW j \in DOMAIN pictures', j \notin switched'
        PROVE  AddressSound(j)'
    <3>1. CASE j = m
      BY <1>2, <2>1, <2>2, <2>3, <2>5, <3>1 DEF AddressSound, InFlight, At
    <3>2. CASE j \in DOMAIN pictures
      <4>1. j \notin switched
        BY <2>1, <2>5
      <4> QED
        BY <1>1, <1>2, <2>3, <2>4, <3>2, <4>1 DEF AddressSound, InFlight, At
    <3> QED
      BY <2>3, <3>1, <3>2
  <2> QED
    BY <2>5 DEF AddressesSound, AddressSound
<1>4. ASSUME NEW i \in Ids,
             \/ Stored(i) \/ Linked(i) \/ Fails(i) \/ Filed(i)
             \/ \E to \in Partners \cup {None} : Sent(i, to)
             \/ \E from \in Partners, to \in Accounts : OthersSend(i, from, to)
      PROVE  AddressesSound'
  <2>1. switched' = switched
    BY <1>4 DEF Stored, Linked, Fails, Filed, Sent, OthersSend
  <2>2. i \in DOMAIN pictures
    BY <1>4 DEF Stored, Linked, Fails, Filed, Sent, OthersSend, At
  <2>3. PICK p \in Picture : p = pictures[i]
    BY <2>2, IdsFacts
  <2>4. i \notin switched =>
          /\ p.step \in {"uploading", "stored", "linked", "sent"} => p.by = account
          /\ p.step = "sent" => p.from = p.by /\ p.to \in {p.chat, None}
    BY <1>1, <2>2, <2>3 DEF AddressSound, InFlight, At
  <2>5. \E r : /\ Edits(i, r)
               /\ i \notin switched =>
                    /\ r.step \in {"uploading", "stored", "linked", "sent"} => r.by = account
                    /\ r.step = "sent" => r.from = r.by /\ r.to \in {r.chat, None}
                    /\ r.step = "filed" => r.from = r.by /\ r.to = r.chat
    <3>1. CASE Stored(i)
      <4>1. PICK r : Edits(i, r) /\ IsPicture(r, p.name, "stored", p.by, p.chat, p.url, p.from, p.to)
        BY <2>3, <3>1, Edited DEF Turns
      <4>2. p.step = "uploading"
        BY <2>3, <3>1 DEF Stored, At
      <4> QED
        BY <2>4, <4>1, <4>2 DEF IsPicture
    <3>2. CASE Fails(i)
      <4>1. PICK r : Edits(i, r) /\ IsPicture(r, p.name, "failed", p.by, p.chat, p.url, p.from, p.to)
        BY <2>3, <3>2, Edited DEF Turns
      <4> QED
        BY <4>1 DEF IsPicture
    <3>3. CASE Filed(i)
      <4>1. PICK r : Edits(i, r) /\ IsPicture(r, p.name, "filed", p.by, p.chat, p.url, p.from, p.to)
        BY <2>3, <3>3, Edited DEF Turns
      <4>2. p.step = "sent" /\ p.to # None
        BY <2>3, <3>3 DEF Filed, At
      <4> QED
        BY <2>4, <4>1, <4>2 DEF IsPicture
    <3>4. CASE Linked(i)
      <4>1. PICK r : Edits(i, r) /\ IsPicture(r, p.name, "linked", p.by, p.chat, storage[p.name], p.from, p.to)
        BY <2>3, <3>4, Edited
      <4>2. p.step = "stored"
        BY <2>3, <3>4 DEF Linked, At
      <4> QED
        BY <2>4, <4>1, <4>2 DEF IsPicture
    <3>5. ASSUME NEW to \in Partners \cup {None}, Sent(i, to)
          PROVE  \E r : /\ Edits(i, r)
                        /\ i \notin switched =>
                             /\ r.step \in {"uploading", "stored", "linked", "sent"} => r.by = account
                             /\ r.step = "sent" => r.from = r.by /\ r.to \in {r.chat, None}
                             /\ r.step = "filed" => r.from = r.by /\ r.to = r.chat
      <4>1. PICK r : Edits(i, r) /\ IsPicture(r, p.name, "sent", p.by, p.chat, p.url, account, to)
        BY <2>3, <3>5, Edited
      <4>2. p.step = "linked" /\ to \in {p.chat, None}
        BY <2>3, <3>5 DEF Sent, At
      <4> QED
        BY <2>4, <4>1, <4>2 DEF IsPicture
    <3>6. ASSUME NEW from \in Partners, NEW to \in Accounts, OthersSend(i, from, to)
          PROVE  \E r : /\ Edits(i, r)
                        /\ i \notin switched =>
                             /\ r.step \in {"uploading", "stored", "linked", "sent"} => r.by = account
                             /\ r.step = "sent" => r.from = r.by /\ r.to \in {r.chat, None}
                             /\ r.step = "filed" => r.from = r.by /\ r.to = r.chat
      <4>1. PICK r : Edits(i, r) /\ IsPicture(r, p.name, "filed", from, to, storage[p.name], from, to)
        BY <2>3, <3>6, Edited
      <4> QED
        BY <4>1 DEF IsPicture
    <3> QED
      BY <1>4, <3>1, <3>2, <3>3, <3>4, <3>5, <3>6
  <2>6. PICK r : /\ Edits(i, r)
                 /\ i \notin switched =>
                      /\ r.step \in {"uploading", "stored", "linked", "sent"} => r.by = account
                      /\ r.step = "sent" => r.from = r.by /\ r.to \in {r.chat, None}
                      /\ r.step = "filed" => r.from = r.by /\ r.to = r.chat
    BY <2>5
  <2>7. DOMAIN pictures' = DOMAIN pictures /\ pictures'[i] = r
    BY <2>6, EditFacts
  <2>8. \A j \in DOMAIN pictures : j # i => pictures'[j] = pictures[j]
    BY <2>6, EditFacts
  <2>9. ASSUME NEW j \in DOMAIN pictures, j \notin switched
        PROVE  AddressSound(j)'
    <3>1. CASE j = i
      BY <1>2, <2>6, <2>7, <2>9, <3>1 DEF AddressSound, InFlight, At
    <3>2. CASE j # i
      BY <1>1, <1>2, <2>7, <2>8, <2>9, <3>2 DEF AddressSound, InFlight, At
    <3> QED
      BY <3>1, <3>2
  <2> QED
    BY <2>1, <2>7, <2>9 DEF AddressesSound, AddressSound
<1> QED
  BY <1>3, <1>4 DEF Uploads

LEMMA ScreenAddresses ==
  ASSUME TypeOK, AddressesSound, Screens
  PROVE  AddressesSound'
<1>1. pictures' = pictures
  BY ScreensQuiet
<1>2. CASE \E a \in Accounts \cup {None} : SwitchAccount(a)
  <2>1. switched' = switched \cup {i \in DOMAIN pictures : InFlight(i)}
    BY <1>2 DEF SwitchAccount
  <2> QED
    BY <1>1, <2>1 DEF AddressesSound, InFlight, At
<1>3. CASE ~\E a \in Accounts \cup {None} : SwitchAccount(a)
  <2>1. UNCHANGED <<account, switched>>
    BY <1>3 DEF Screens, Relaunch, OpenChat, LeaveChat, Configure, ConfigureText,
                ConfigureEmpty, ConfigurePicture, LoadEnds, Evict
  <2> QED
    BY <1>1, <2>1 DEF AddressesSound, InFlight, At
<1> QED
  BY <1>2, <1>3

LEMMA DieAddresses ==
  ASSUME TypeOK, AddressesSound, Die, UNCHANGED <<account, switched>>
  PROVE  AddressesSound'
<1>1. DOMAIN pictures' = DOMAIN pictures
  BY DieFacts
<1>2. ASSUME NEW i \in DOMAIN pictures
      PROVE  ~InFlight(i)' /\ (At(i, "filed")' => pictures'[i] = pictures[i] /\ At(i, "filed"))
  <2>1. PICK p \in Picture : p = pictures[i]
    BY IdsFacts
  <2> QED
    BY <1>1, <2>1, DieFacts DEF IsPicture, InFlight, At
<1> QED
  BY <1>1, <1>2 DEF AddressesSound, InFlight, At

----------------------------------------------------------------------------
(* What is shown.                                                          *)

(* A listed picture stays listed, with its URL.                            *)
LEMMA ListedStays ==
  ASSUME TypeOK, Keeps, NEW i, At(i, "filed")
  PROVE  At(i, "filed")' /\ pictures'[i].url = pictures[i].url
BY DEF At, Keeps

LEMMA UploadShows ==
  ASSUME PicturesInv, Uploads
  PROVE  LoadsSound' /\ ViewsSound' /\ CacheIsTrue'
<1> USE DEF PicturesInv
<1>1. Keeps /\ UNCHANGED <<reader, cache, views, loads, late>>
  BY UploadsKeep DEF readVars
<1>2. LoadsSound'
  <2> SUFFICES ASSUME NEW k \in DOMAIN loads
               PROVE  \E i \in DOMAIN pictures' : At(i, "filed")' /\ pictures'[i].url = loads[k][2]
    BY <1>1 DEF LoadsSound
  <2>1. PICK i \in DOMAIN pictures : At(i, "filed") /\ pictures[i].url = loads[k][2]
    BY DEF LoadsSound
  <2> QED
    BY <1>1, <2>1, ListedStays DEF Keeps
<1>3. ViewsSound'
  <2> SUFFICES ASSUME NEW v \in Views PROVE ViewSound(v)'
    BY DEF ViewsSound
  <2>1. ViewSound(v) /\ OnTheWay(v)' = OnTheWay(v)
    BY <1>1 DEF ViewsSound, OnTheWay
  <2>2. views[v].item \in Ids =>
          At(views[v].item, "filed")' /\ pictures'[views[v].item].url = pictures[views[v].item].url
    BY <1>1, <2>1, ListedStays DEF ViewSound
  <2> QED
    BY <1>1, <2>1, <2>2 DEF ViewSound
<1>4. CacheIsTrue'
  BY <1>1 DEF CacheIsTrue
<1> QED
  BY <1>2, <1>3, <1>4

(* A view that was not touched, whose downloads are what they were.        *)
LEMMA ViewKept ==
  ASSUME NEW v \in Views, ViewSound(v), pictures' = pictures,
         views'[v] = views[v], OnTheWay(v)' = OnTheWay(v), v \in late' <=> v \in late
  PROVE  ViewSound(v)'
BY DEF ViewSound, At

(* A chat that was left has fresh views, and no download is for them.      *)
LEMMA FreshViews ==
  ASSUME NoChat, \A k \in DOMAIN loads' : loads'[k][1] = Gone
  PROVE  ViewsSound'
<1> SUFFICES ASSUME NEW v \in Views PROVE ViewSound(v)'
  BY DEF ViewsSound
<1>1. views'[v].item = NoItem
  BY DEF NoChat, NewView
<1>2. NoItem \notin Ids /\ NoItem # Text
  BY BoundAssumption DEF NoItem, Ids, Text
<1> QED
  BY <1>1, <1>2 DEF ViewSound

LEMMA ConfigureShows ==
  ASSUME PicturesInv, NEW v \in Views,
         ConfigureText(v) \/ ConfigureEmpty(v)
  PROVE  LoadsSound' /\ ViewsSound' /\ CacheIsTrue'
<1> USE DEF PicturesInv
<1>1. UNCHANGED <<pictures, cache, loads, late>>
  BY DEF ConfigureText, ConfigureEmpty
<1>2. LoadsSound' /\ CacheIsTrue'
  BY <1>1 DEF LoadsSound, CacheIsTrue, At
<1>3. PICK q \in View : q = views[v]
  BY DEF TypeOK
<1>4. PICK item, hidden : /\ item \in {Text, Empty} /\ (item = Text => hidden)
                          /\ Turned(v, item, q.image, hidden)
  <2>1. CASE ConfigureText(v)
    BY <1>3, <2>1, ConfigureFacts
  <2>2. CASE ConfigureEmpty(v)
    <3>1. Empty # Text
      BY DEF Empty, Text
    <3> QED
      BY <1>3, <2>2, <3>1, ConfigureFacts
  <2> QED
    BY <2>1, <2>2
<1>5. IsView(views'[v], item, q.image, hidden) /\ \A w \in Views : w # v => views'[w] = views[w]
  BY <1>4, TurnedType
<1>6. ASSUME NEW w \in Views PROVE ViewSound(w)'
  <2>1. CASE w = v
    BY <1>4, <1>5, <2>1, IdsFacts DEF ViewSound, IsView
  <2>2. CASE w # v
    <3>1. ViewSound(w) /\ OnTheWay(w)' = OnTheWay(w)
      BY <1>1 DEF ViewsSound, OnTheWay
    <3> QED
      BY <1>1, <1>5, <2>2, <3>1, ViewKept
  <2> QED
    BY <2>1, <2>2
<1> QED
  BY <1>2, <1>6 DEF ViewsSound

LEMMA ConfigurePictureShows ==
  ASSUME PicturesInv, NEW v \in Views, NEW i \in Ids, ConfigurePicture(v, i)
  PROVE  LoadsSound' /\ ViewsSound' /\ CacheIsTrue'
<1> USE DEF PicturesInv
<1>1. PICK q \in View, u \in Ids :
        /\ q = views[v] /\ u = pictures[i].url /\ At(i, "filed")
        /\ IF cache[u] # Blank
           THEN Turned(v, i, u, FALSE) /\ loads' = loads
           ELSE /\ Turned(v, i, q.image, FALSE)
                /\ loads' = Append(loads, <<v, u>>) /\ Len(loads) < MaxLoads
        /\ late' = IF OnTheWay(v) \subseteq {u} THEN late \ {v} ELSE late \cup {v}
        /\ UNCHANGED <<alive, account, pictures, storage, failures, switched, reader, cache>>
  BY ConfiguredFacts
<1>2. i \in DOMAIN pictures
  BY <1>1 DEF At
<1>3. LoadsSound'
  <2>1. CASE loads' = loads
    BY <1>1, <2>1 DEF LoadsSound, At
  <2>2. CASE loads' = Append(loads, <<v, u>>) /\ Len(loads) < MaxLoads
    <3> SUFFICES ASSUME NEW k \in DOMAIN loads'
                 PROVE  \E j \in DOMAIN pictures : At(j, "filed") /\ pictures[j].url = loads'[k][2]
      BY <1>1 DEF LoadsSound, At
    <3>1. (k \in DOMAIN loads /\ loads'[k] = loads[k]) \/ loads'[k] = <<v, u>>
      BY <2>2, LoadAdded
    <3>2. CASE k \in DOMAIN loads /\ loads'[k] = loads[k]
      BY <3>2 DEF LoadsSound
    <3>3. CASE loads'[k] = <<v, u>>
      BY <1>1, <1>2, <3>3
    <3> QED
      BY <3>1, <3>2, <3>3
  <2> QED
    BY <1>1, <2>1, <2>2
<1>4. ASSUME NEW w \in Views, w # v PROVE ViewSound(w)'
  <2>1. views'[w] = views[w]
    BY <1>1, <1>4, TurnedType
  <2>2. OnTheWay(w)' = OnTheWay(w)
    <3>1. CASE loads' = loads
      BY <3>1 DEF OnTheWay
    <3>2. CASE loads' = Append(loads, <<v, u>>) /\ Len(loads) < MaxLoads
      BY <1>4, <3>2, LoadAdded
    <3> QED
      BY <1>1, <3>1, <3>2
  <2>3. w \in late' <=> w \in late
    BY <1>1, <1>4
  <2>4. ViewSound(w)
    BY DEF ViewsSound
  <2> QED
    BY <1>1, <2>1, <2>2, <2>3, <2>4, ViewKept
<1>5. ViewSound(v)'
  <2>1. i # Text
    BY IdsFacts
  <2>2. /\ views'[v].item = i /\ ~views'[v].hidden
        /\ views'[v].image = u \/ OnTheWay(v)' # {}
        /\ v \notin late' => OnTheWay(v)' \subseteq {u}
    <3>1. CASE cache[u] # Blank
      <4>1. Turned(v, i, u, FALSE) /\ loads' = loads
        BY <1>1, <3>1
      <4>2. IsView(views'[v], i, u, FALSE)
        BY <4>1, TurnedType
      <4>3. OnTheWay(v)' = OnTheWay(v)
        BY <4>1 DEF OnTheWay
      <4> QED
        BY <1>1, <4>2, <4>3 DEF IsView
    <3>2. CASE cache[u] = Blank
      <4>1. Turned(v, i, q.image, FALSE) /\ loads' = Append(loads, <<v, u>>) /\ Len(loads) < MaxLoads
        BY <1>1, <3>2
      <4>2. IsView(views'[v], i, q.image, FALSE)
        BY <4>1, TurnedType
      <4>3. OnTheWay(v)' = OnTheWay(v) \cup {u}
        BY <4>1, LoadAdded
      <4> QED
        BY <1>1, <4>2, <4>3 DEF IsView
    <3> QED
      BY <3>1, <3>2
  <2>3. At(i, "filed")' /\ pictures'[i].url = u
    BY <1>1 DEF At
  <2> QED
    BY <2>1, <2>2, <2>3 DEF ViewSound
<1>6. CacheIsTrue'
  BY <1>1 DEF CacheIsTrue
<1> QED
  BY <1>3, <1>4, <1>5, <1>6 DEF ViewsSound

LEMMA LoadEndsShows ==
  ASSUME PicturesInv, NEW k \in DOMAIN loads, LoadEnds(k)
  PROVE  LoadsSound' /\ ViewsSound' /\ CacheIsTrue'
<1> USE DEF PicturesInv
<1>1. PICK u \in Ids : u = loads[k][2]
  BY LoadType
<1>2. /\ loads' = RemoveAt(loads, k) /\ cache' = [cache EXCEPT ![u] = u]
      /\ UNCHANGED <<pictures, late>>
  BY <1>1 DEF LoadEnds
<1>3. CacheIsTrue'
  BY <1>1, <1>2 DEF CacheIsTrue, TypeOK
<1>4. LoadsSound'
  <2> SUFFICES ASSUME NEW j \in DOMAIN loads'
               PROVE  \E i \in DOMAIN pictures : At(i, "filed") /\ pictures[i].url = loads'[j][2]
    BY <1>2 DEF LoadsSound, At
  <2>1. PICK i \in DOMAIN loads : loads'[j] = loads[i]
    BY <1>2, LoadRemoved
  <2> QED
    BY <2>1 DEF LoadsSound
<1>5. ASSUME NEW w \in Views, w # loads[k][1] PROVE ViewSound(w)'
  <2>1. views'[w] = views[w]
    BY <1>5 DEF LoadEnds, TypeOK
  <2>2. OnTheWay(w)' = OnTheWay(w)
    BY <1>2, <1>5, LoadRemoved
  <2>3. ViewSound(w)
    BY DEF ViewsSound
  <2> QED
    BY <1>2, <2>1, <2>2, <2>3, ViewKept
<1>6. ASSUME NEW w \in Views, w = loads[k][1] PROVE ViewSound(w)'
  <2>1. PICK q \in View : q = views[w]
    BY DEF TypeOK
  <2>2. IsView(views'[w], q.item, u, q.hidden)
    BY <1>1, <1>6, <2>1, LoadEndsFacts, TurnedType
  <2>3. u \in OnTheWay(w) /\ OnTheWay(w)' \subseteq OnTheWay(w)
    BY <1>1, <1>2, <1>6, LoadRemoved DEF OnTheWay
  <2>4. ViewSound(w)
    BY DEF ViewsSound
  <2>5. At(q.item, "filed")' <=> At(q.item, "filed")
    BY <1>2 DEF At
  <2> QED
    BY <1>2, <2>1, <2>2, <2>3, <2>4, <2>5 DEF ViewSound, IsView
<1> QED
  BY <1>3, <1>4, <1>5, <1>6 DEF ViewsSound

LEMMA ScreenShows ==
  ASSUME PicturesInv, Screens
  PROVE  LoadsSound' /\ ViewsSound' /\ CacheIsTrue'
<1> USE DEF PicturesInv
<1>1. pictures' = pictures
  BY ScreensQuiet
<1>2. CASE Relaunch \/ OpenChat \/ \E a \in Accounts \cup {None} : SwitchAccount(a)
  <2>1. UNCHANGED <<cache, views, loads, late>>
    BY <1>2 DEF Relaunch, OpenChat, SwitchAccount, readVars
  <2> QED
    BY <1>1, <2>1 DEF LoadsSound, ViewsSound, ViewSound, OnTheWay, CacheIsTrue, At
<1>3. CASE LeaveChat
  <2>1. loads' = [k \in DOMAIN loads |-> <<Gone, loads[k][2]>>] /\ cache' = cache /\ NoChat
    BY <1>3 DEF LeaveChat
  <2>2. DOMAIN loads' = DOMAIN loads
        /\ \A k \in DOMAIN loads : loads'[k][1] = Gone /\ loads'[k][2] = loads[k][2]
    BY <2>1
  <2>3. LoadsSound'
    BY <1>1, <2>2 DEF LoadsSound, At
  <2>4. CacheIsTrue'
    BY <2>1 DEF CacheIsTrue
  <2> QED
    BY <2>1, <2>2, <2>3, <2>4, FreshViews
<1>4. CASE \E i \in Ids : Evict(i)
  <2>1. UNCHANGED <<views, loads, late>>
    BY <1>4 DEF Evict
  <2>2. CacheIsTrue'
    BY <1>4 DEF Evict, CacheIsTrue, TypeOK
  <2> QED
    BY <1>1, <2>1, <2>2 DEF LoadsSound, ViewsSound, ViewSound, OnTheWay, At
<1> QED
  BY <1>2, <1>3, <1>4, ConfigureShows, ConfigurePictureShows, LoadEndsShows
  DEF Screens, Configure

LEMMA DieShows ==
  ASSUME Die
  PROVE  LoadsSound' /\ ViewsSound' /\ CacheIsTrue'
<1>1. loads' = <<>> /\ DOMAIN loads' = {} /\ cache' = [j \in Ids |-> Blank] /\ NoChat
  BY DEF Die
<1>2. LoadsSound' /\ CacheIsTrue'
  BY <1>1 DEF LoadsSound, CacheIsTrue
<1> QED
  BY <1>1, <1>2, FreshViews

----------------------------------------------------------------------------
(* What crashes the app.                                                   *)

Unaddressed(i) ==
  At(i, "lost") /\ pictures[i].url # Blank /\ None \in {pictures[i].from, pictures[i].to}

LEMMA RedrawnStays ==
  ASSUME Keeps, NEW i \in DOMAIN pictures, Redrawn(i)
  PROVE  i \in DOMAIN pictures' /\ Redrawn(i)'
BY DEF Keeps, Redrawn

(* A cause once there stays there.                                         *)
LEMMA CauseStays ==
  ASSUME TypeOK, Keeps, failures' \in {failures, failures + 1}, CrashHasCause, alive' = alive
  PROVE  CrashHasCause'
<1> SUFFICES ASSUME ~alive
             PROVE  failures' > 0 \/ \E i \in DOMAIN pictures' : Redrawn(i)' \/ Unaddressed(i)'
  BY DEF CrashHasCause, Unaddressed
<1>1. CASE failures > 0
  <2>1. failures \in Nat
    BY BoundAssumption DEF TypeOK
  <2> QED
    BY <1>1, <2>1
<1>2. CASE \E i \in DOMAIN pictures : Redrawn(i)
  BY <1>2, RedrawnStays
<1>3. ASSUME NEW i \in DOMAIN pictures, Unaddressed(i)
      PROVE  i \in DOMAIN pictures' /\ Unaddressed(i)'
  BY <1>3 DEF Keeps, Unaddressed, At
<1>4. CASE \E i \in DOMAIN pictures : Unaddressed(i)
  BY <1>3, <1>4
<1>5. failures > 0 \/ (\E i \in DOMAIN pictures : Redrawn(i)) \/ \E i \in DOMAIN pictures : Unaddressed(i)
  BY DEF CrashHasCause, Unaddressed
<1> QED
  BY <1>1, <1>2, <1>4, <1>5

(* A picture whose name was drawn once is what its URL gives.              *)
LEMMA UniqueSurvives ==
  ASSUME TypeOK, NamesSound, NEW i \in DOMAIN pictures, At(i, "filed"), ~Redrawn(i)
  PROVE  pictures[i].url = i /\ Served(i)
<1>1. pictures[i].step = "filed"
  BY DEF At
<1>2. i \in Ids /\ pictures[i].name \in Names
  BY IdsFacts DEF Picture
<1>3. PICK u \in Ids : u = pictures[i].url
  BY <1>2, ListedFacts
<1>4. u = i
  BY <1>2, <1>3, ListedFacts DEF Redrawn
<1>5. storage[pictures[i].name] # Blank
  BY <1>1 DEF NamesSound, Placed
<1>6. PICK j \in DOMAIN pictures : j = storage[pictures[i].name] /\ pictures[j].name = pictures[i].name
  BY <1>2, <1>5 DEF NamesSound
<1>7. j = i
  BY <1>6 DEF Redrawn
<1> QED
  BY <1>3, <1>4, <1>6, <1>7 DEF Served

LEMMA RefusedWasRedrawn ==
  ASSUME PicturesInv, NEW k \in DOMAIN loads, ~Served(loads[k][2])
  PROVE  \E i \in DOMAIN pictures : Redrawn(i)
<1> USE DEF PicturesInv
<1>1. PICK i \in DOMAIN pictures : At(i, "filed") /\ pictures[i].url = loads[k][2]
  BY DEF LoadsSound
<1>2. ASSUME ~Redrawn(i) PROVE FALSE
  BY <1>1, <1>2, UniqueSurvives
<1> QED
  BY <1>2

LEMMA UploadCrash ==
  ASSUME PicturesInv, Uploads
  PROVE  CrashHasCause'
<1> USE DEF PicturesInv
<1>1. Keeps /\ alive' = alive
  BY UploadsKeep
<1>2. failures' \in {failures, failures + 1}
  BY StorageEffects
<1> QED
  BY <1>1, <1>2, CauseStays

LEMMA ScreenCrash ==
  ASSUME PicturesInv, Screens
  PROVE  CrashHasCause'
<1> USE DEF PicturesInv
<1>1. UNCHANGED <<pictures, failures>>
  BY ScreensQuiet
<1>2. alive' = alive \/ alive' = TRUE
  BY DEF Screens, Relaunch, OpenChat, LeaveChat, SwitchAccount, Configure, ConfigureText,
         ConfigureEmpty, ConfigurePicture, LoadEnds, Evict
<1> QED
  BY <1>1, <1>2 DEF CrashHasCause, Redrawn, At

LEMMA LoadFailsCrash ==
  ASSUME PicturesInv, NEW k \in DOMAIN loads, LoadFails(k)
  PROVE  CrashHasCause'
<1> USE DEF PicturesInv
<1>1. Die /\ Keeps
  BY DieKeeps DEF LoadFails
<1>2. CASE Served(loads[k][2])
  <2>1. failures' = failures + 1 /\ failures \in Nat
    BY <1>2, BoundAssumption DEF LoadFails, TypeOK
  <2> QED
    BY <2>1 DEF CrashHasCause
<1>3. CASE ~Served(loads[k][2])
  <2>1. \E i \in DOMAIN pictures' : Redrawn(i)'
    BY <1>1, <1>3, RefusedWasRedrawn, RedrawnStays
  <2> QED
    BY <2>1 DEF CrashHasCause
<1> QED
  BY <1>2, <1>3

LEMMA FiledForNobodyCrash ==
  ASSUME PicturesInv, NEW i \in Ids, FiledForNobody(i)
  PROVE  CrashHasCause'
<1> USE DEF PicturesInv
<1>1. Die /\ i \in DOMAIN pictures /\ pictures[i].step = "sent" /\ None \in {pictures[i].from, pictures[i].to}
  BY DEF FiledForNobody, At
<1>2. PICK p \in Picture : p = pictures[i]
  BY <1>1, IdsFacts
<1>3. p.url # Blank
  BY <1>1, <1>2 DEF NamesSound, HasUrl
<1>4. IsPicture(pictures'[i], p.name, "lost", p.by, p.chat, p.url, p.from, p.to)
  BY <1>1, <1>2, DieFacts DEF InFlight
<1>5. i \in DOMAIN pictures'
  BY <1>1, DieFacts
<1> QED
  BY <1>1, <1>2, <1>3, <1>4, <1>5 DEF CrashHasCause, IsPicture, At

----------------------------------------------------------------------------
LEMMA InitKeeps == Init => PicturesInv
<1> SUFFICES ASSUME Init PROVE PicturesInv
  OBVIOUS
<1>1. TypeOK
  BY InitTypes
<1>2. pictures = <<>> /\ DOMAIN pictures = {} /\ loads = <<>> /\ DOMAIN loads = {} /\ alive
  BY DEF Init
<1>3. NamesSound
  BY <1>2 DEF Init, NamesSound
<1>4. AddressesSound /\ LoadsSound
  BY <1>2 DEF AddressesSound, LoadsSound
<1>5. ViewsSound
  <2> SUFFICES ASSUME NEW v \in Views PROVE ViewSound(v)
    BY DEF ViewsSound
  <2>1. views[v].item = NoItem /\ NoItem # Text
    BY DEF Init, NewView, NoItem, Text
  <2> QED
    BY <1>1, <2>1, IdsFacts DEF ViewSound
<1>6. CacheIsTrue /\ CrashHasCause
  BY <1>2 DEF Init, CacheIsTrue, CrashHasCause
<1> QED
  BY <1>1, <1>3, <1>4, <1>5, <1>6 DEF PicturesInv

LEMMA DieStepKeeps ==
  ASSUME PicturesInv, NEW k,
         \/ k \in DOMAIN loads /\ LoadFails(k)
         \/ k \in Ids /\ FiledForNobody(k)
  PROVE  PicturesInv'
<1> USE DEF PicturesInv
<1>1. Die /\ UNCHANGED <<account, storage, switched>>
  BY DEF LoadFails, FiledForNobody
<1>2. failures' \in 0..MaxFailures
  BY BoundAssumption DEF LoadFails, FiledForNobody, TypeOK
<1>3. TypeOK'
  BY <1>1, <1>2, DieTypes
<1>4. NamesSound' /\ AddressesSound' /\ LoadsSound' /\ ViewsSound' /\ CacheIsTrue'
  BY <1>1, DieNames, DieAddresses, DieShows
<1>5. CrashHasCause'
  BY LoadFailsCrash, FiledForNobodyCrash
<1> QED
  BY <1>3, <1>4, <1>5

LEMMA StepKeeps == PicturesInv /\ [Next]_vars => PicturesInv'
<1> SUFFICES ASSUME PicturesInv, [Next]_vars PROVE PicturesInv'
  OBVIOUS
<1>1. CASE Uploads
  BY <1>1, UploadTypes, UploadNames, UploadAddresses, UploadShows, UploadCrash DEF PicturesInv
<1>2. CASE Screens
  <2>1. NamesSound'
    <3>1. UNCHANGED <<pictures, storage>>
      BY <1>2, ScreensQuiet
    <3> QED
      BY <3>1 DEF PicturesInv, NamesSound, Placed, HasUrl
  <2> QED
    BY <1>2, <2>1, ScreenTypes, ScreenAddresses, ScreenShows, ScreenCrash DEF PicturesInv
<1>3. CASE \E i \in Ids : FiledForNobody(i)
  BY <1>3, DieStepKeeps
<1>4. CASE \E k \in DOMAIN loads : LoadFails(k)
  BY <1>4, DieStepKeeps
<1>5. CASE UNCHANGED vars
  <2> USE <1>5 DEF vars, readVars, PicturesInv
  <2>1. TypeOK'
    BY DEF TypeOK
  <2>2. NamesSound'
    BY DEF NamesSound, Placed, HasUrl
  <2>3. AddressesSound' /\ LoadsSound'
    BY DEF AddressesSound, LoadsSound, InFlight, At
  <2>4. ViewsSound'
    BY DEF ViewsSound, ViewSound, OnTheWay, At
  <2>5. CacheIsTrue' /\ CrashHasCause'
    BY DEF CacheIsTrue, CrashHasCause, Redrawn, At
  <2> QED
    BY <2>1, <2>2, <2>3, <2>4, <2>5
<1>6. Next => Uploads \/ Screens \/ (\E i \in Ids : FiledForNobody(i)) \/ \E k \in DOMAIN loads : LoadFails(k)
  BY DEF Next, Upload, Load, Uploads, Screens
<1> QED
  BY <1>1, <1>2, <1>3, <1>4, <1>5, <1>6

LEMMA Invariance == Spec => []PicturesInv
<1>1. Init => PicturesInv
  BY InitKeeps
<1>2. PicturesInv /\ [Next]_vars => PicturesInv'
  BY StepKeeps
<1> QED
  BY <1>1, <1>2, PTL DEF Spec

(* The state of uploads, downloads, views and cache stays well-formed.     *)
THEOREM TypeCorrect == Spec => []TypeOK
<1>1. PicturesInv => TypeOK
  BY DEF PicturesInv
<1> QED
  BY <1>1, Invariance, PTL

(* A listed picture whose name nobody drew again stays what its sender     *)
(* chose, and can be downloaded: upload_image_to_firebase asks for the URL *)
(* in a second request, but under a name of its own.                       *)
THEOREM PicturesAlwaysSurvive == Spec => []PicturesSurvive
<1>1. PicturesInv => PicturesSurvive
  BY UniqueSurvives DEF PicturesInv, PicturesSurvive, At
<1> QED
  BY <1>1, Invariance, PTL

(* Unless somebody else is signed in on the way, a picture is listed for   *)
(* the account and the chat it was chosen in.                              *)
THEOREM AlwaysSentAsChosen == Spec => []SentAsChosen
<1>1. PicturesInv => SentAsChosen
  BY DEF PicturesInv, AddressesSound, SentAsChosen, At
<1> QED
  BY <1>1, Invariance, PTL

(* The cache of load_image never has another image for a URL.              *)
THEOREM CacheAlwaysTrue == Spec => []CacheIsTrue
<1>1. PicturesInv => CacheIsTrue
  BY DEF PicturesInv
<1> QED
  BY <1>1, Invariance, PTL

(* A reused image view ends up with the picture of its message, unless it  *)
(* got the message while another picture was on its way.                   *)
THEOREM ViewsShowWanted == Spec => []ViewShowsWanted
<1>1. ASSUME PicturesInv, NEW v \in Views \ late
      PROVE  /\ views[v].item \in Ids /\ OnTheWay(v) = {} =>
                  views[v].image = pictures[views[v].item].url /\ ~views[v].hidden
             /\ views[v].item = Text => views[v].hidden
  BY <1>1 DEF PicturesInv, ViewsSound, ViewSound
<1>2. PicturesInv => ViewShowsWanted
  BY <1>1 DEF ViewShowsWanted
<1> QED
  BY <1>2, Invariance, PTL

(* Only failed requests, names drawn twice and messages without an address *)
(* crash the app.                                                          *)
THEOREM CrashesHaveCause == Spec => []CrashHasCause
<1>1. PicturesInv => CrashHasCause
  BY DEF PicturesInv
<1> QED
  BY <1>1, Invariance, PTL

----------------------------------------------------------------------------
(* What a step does to a view that shows the picture of its message.       *)

Shows(v) == views[v].item \in Ids /\ views[v].image = pictures[views[v].item].url

(* Screens that are set up anew are for no message yet.                    *)
LEMMA NewViewsWantNothing ==
  ASSUME NoChat, NEW v \in Views
  PROVE  views'[v].item \notin Ids
BY BoundAssumption DEF NoChat, NewView, NoItem, Ids

LEMMA ConfigureShowsOn ==
  ASSUME PicturesInv, NEW w \in Views, Configure(w),
         NEW v \in Views \ late, Shows(v), views'[v].item = views[v].item
  PROVE  views'[v].image = views[v].image
<1> USE DEF PicturesInv
<1>1. PICK q \in View : q = views[w]
  BY DEF TypeOK
<1>2. CASE ConfigureText(w) \/ ConfigureEmpty(w)
  <2>1. \E item, hidden : Turned(w, item, q.image, hidden)
    BY <1>1, <1>2, ConfigureFacts
  <2> QED
    BY <1>1, <2>1, TurnedType DEF IsView
<1>3. CASE \E i \in Ids : ConfigurePicture(w, i)
  <2>1. PICK i \in Ids : ConfigurePicture(w, i)
    BY <1>3
  <2>2. PICK u \in Ids : /\ u = pictures[i].url
                         /\ Turned(w, i, u, FALSE) \/ Turned(w, i, q.image, FALSE)
    BY <1>1, <2>1, ConfiguredFacts
  <2>3. CASE w = v
    BY <1>1, <2>2, <2>3, TurnedType DEF IsView, Shows
  <2>4. CASE w # v
    BY <2>2, <2>4, TurnedType
  <2> QED
    BY <2>3, <2>4
<1> QED
  BY <1>2, <1>3 DEF Configure

(* What ends for a view that is not late is what its message wants.        *)
LEMMA LoadEndsShowsOn ==
  ASSUME PicturesInv, NEW k \in DOMAIN loads, LoadEnds(k),
         NEW v \in Views \ late, Shows(v)
  PROVE  views'[v].image = views[v].image
<1> USE DEF PicturesInv
<1>1. CASE loads[k][1] # v
  BY <1>1 DEF LoadEnds, TypeOK
<1>2. CASE loads[k][1] = v
  <2>1. PICK u \in Ids : u = loads[k][2]
    BY LoadType
  <2>2. PICK q \in View : q = views[v]
    BY DEF TypeOK
  <2>3. views'[v].image = u
    BY <1>2, <2>1, <2>2, LoadEndsFacts, TurnedType DEF IsView
  <2>4. u \in OnTheWay(v)
    BY <1>2, <2>1 DEF OnTheWay
  <2>5. OnTheWay(v) \subseteq {pictures[views[v].item].url}
    BY DEF ViewsSound, ViewSound, Shows
  <2> QED
    BY <2>3, <2>4, <2>5 DEF Shows
<1> QED
  BY <1>1, <1>2

LEMMA StepShowsOn ==
  ASSUME PicturesInv, [Next]_vars,
         NEW v \in Views \ late, Shows(v), views'[v].item = views[v].item
  PROVE  views'[v].image = views[v].image
<1>1. CASE Uploads
  BY <1>1, UploadsKeep DEF PicturesInv, readVars
<1>2. CASE Screens
  <2>1. CASE Relaunch \/ OpenChat \/ \E a \in Accounts \cup {None} : SwitchAccount(a)
    BY <2>1 DEF Relaunch, OpenChat, SwitchAccount, readVars
  <2>2. CASE LeaveChat
    BY <2>2, NewViewsWantNothing DEF LeaveChat, Shows
  <2>3. CASE \E i \in Ids : Evict(i)
    BY <2>3 DEF Evict
  <2> QED
    BY <1>2, <2>1, <2>2, <2>3, ConfigureShowsOn, LoadEndsShowsOn DEF Screens
<1>3. CASE (\E i \in Ids : FiledForNobody(i)) \/ \E k \in DOMAIN loads : LoadFails(k)
  <2>1. NoChat
    BY <1>3 DEF FiledForNobody, LoadFails, Die
  <2> QED
    BY <2>1, NewViewsWantNothing DEF Shows
<1>4. CASE UNCHANGED vars
  BY <1>4 DEF vars, readVars
<1>5. Next => Uploads \/ Screens \/ (\E i \in Ids : FiledForNobody(i)) \/ \E k \in DOMAIN loads : LoadFails(k)
  BY DEF Next, Upload, Load, Uploads, Screens
<1> QED
  BY <1>1, <1>2, <1>3, <1>4, <1>5

(* While it keeps its message, a view that shows the picture of it is      *)
(* never given another image by cellForItemAt or by a download of          *)
(* load_image, unless it was late.                                         *)
THEOREM ShownAlwaysStays == Spec => ShownStays
<1>1. PicturesInv /\ [Next]_vars =>
        [\A v \in Views \ late :
           LET i == views[v].item IN
           i \in Ids /\ views[v].image = pictures[i].url /\ views'[v].item = i =>
             views'[v].image = views[v].image]_vars
  BY StepShowsOn DEF Shows
<1> QED
  BY <1>1, Invariance, PTL DEF Spec, ShownStays
=============================================================================
