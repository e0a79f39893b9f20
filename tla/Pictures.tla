------------------------------ MODULE Pictures ------------------------------
(***************************************************************************)
(* Pictures in chats: chat_collect.upload_image_to_firebase stores the     *)
(* chosen image under a name drawn from 0...10000, asks for its URL and    *)
(* sends a message with the URL, each from the completion of the step      *)
(* before; UIImageView.load_image downloads a URL for an image view that   *)
(* may have been given another message meanwhile, through a cache.         *)
(*                                                                         *)
(* Names are shared by all users.  Storing an image under a name that is   *)
(* taken replaces the earlier one, whose URL (path and token) is then      *)
(* refused.  The URL of an image is named by the image.                    *)
(***************************************************************************)
EXTENDS Integers, Sequences, SequencesExt

CONSTANTS
  Accounts,     \* the users who sign in on this device
  Partners,     \* the users they chat with
  None,         \* nobody
  Names,        \* the names an image can be stored under
  Views,        \* the image views of the cells of the chat
  Gone,         \* an image view of a chat that was left
  MaxPictures,  \* bound on images chosen
  MaxFailures,  \* bound on requests the network fails
  MaxLoads      \* bound on downloads under way

Users == Accounts \cup Partners

ASSUME NobodyAssumption == None \notin Users
ASSUME GoneAssumption == Gone \notin Views
ASSUME BoundAssumption == MaxPictures \in Nat /\ MaxFailures \in Nat /\ MaxLoads \in Nat

VARIABLES
  alive,      \* the app runs; it ends only by a crash
  account,    \* who is signed in
  reader,     \* whose chat is on the screen, if any
  pictures,   \* the images chosen so far, here and on other devices
  storage,    \* the image under each name in the storage bucket
  cache,      \* image_cache: what the process has for each URL
  views,      \* what each image view of the chat is for, and shows
  loads,      \* downloads of the process: <<view, URL>>
  failures,   \* requests failed by the network so far
  switched,   \* history: images on their way while somebody else was signed in
  late        \* history: views given a picture while another one was on its way

readVars == <<reader, cache, views, loads, late>>
vars == <<alive, account, pictures, storage, failures, switched, readVars>>

Ids == 1..MaxPictures

(* No image, and the asset that stands in for one.                         *)
Blank   == 0
Loading == -1

(* What a cell can be for, besides pictures.                               *)
NoItem == 0
Text   == -1
Empty  == -2

Steps == {"uploading", "stored", "linked", "sent", "filed", "failed", "lost", "others"}

Picture ==
  [name: Names, step: Steps, by: Users \cup {None}, chat: Users \cup {None},
   url: Ids \cup {Blank}, from: Users \cup {None}, to: Users \cup {None}]

View == [item: Ids \cup {NoItem, Text, Empty}, image: Ids \cup {Blank}, hidden: BOOLEAN]

NewView == [item |-> NoItem, image |-> Blank, hidden |-> FALSE]

TypeOK ==
  /\ alive \in BOOLEAN
  /\ account \in Accounts \cup {None} /\ reader \in Accounts \cup {None}
  /\ pictures \in Seq(Picture) /\ Len(pictures) <= MaxPictures
  /\ storage \in [Names -> Ids \cup {Blank}]
  /\ cache \in [Ids -> Ids \cup {Blank, Loading}]
  /\ views \in [Views -> View]
  /\ loads \in Seq((Views \cup {Gone}) \X Ids) /\ Len(loads) <= MaxLoads
  /\ failures \in 0..MaxFailures
  /\ switched \subseteq Ids /\ late \subseteq Views

Init ==
  /\ alive = TRUE
  /\ account \in Accounts /\ reader = None
  /\ pictures = <<>>
  /\ storage = [n \in Names |-> Blank]
  /\ cache = [i \in Ids |-> Blank]
  /\ views = [v \in Views |-> NewView]
  /\ loads = <<>>
  /\ failures = 0
  /\ switched = {} /\ late = {}

----------------------------------------------------------------------------
(* The process and the account.                                            *)

InFlight(i) == pictures[i].step \in {"uploading", "stored", "linked", "sent"}

(* No chat on the screen; downloads for it go on.                          *)
NoChat ==
  /\ reader' = None
  /\ views' = [v \in Views |-> NewView]
  /\ late' = {}

(* A crash: uploads, downloads and the cache are gone.                     *)
Die ==
  /\ alive' = FALSE
  /\ pictures' = [i \in DOMAIN pictures |->
                    IF InFlight(i) THEN [pictures[i] EXCEPT !.step = "lost"] ELSE pictures[i]]
  /\ cache' = [i \in Ids |-> Blank]
  /\ loads' = <<>>
  /\ NoChat

Relaunch ==
  /\ ~alive
  /\ alive' = TRUE
  /\ UNCHANGED <<account, pictures, storage, failures, switched, readVars>>

(* A sign-out, by the user or by force, or a sign-in.                      *)
SwitchAccount(a) ==
  /\ alive /\ a # account
  /\ account' = a
  /\ switched' = switched \cup {i \in DOMAIN pictures : InFlight(i)}
  /\ UNCHANGED <<alive, pictures, storage, failures, readVars>>

OpenChat ==
  /\ alive /\ reader = None /\ account # None
  /\ reader' = account
  /\ UNCHANGED <<alive, account, pictures, storage, failures, switched, cache, views, loads, late>>

LeaveChat ==
  /\ reader # None
  /\ loads' = [k \in DOMAIN loads |-> <<Gone, loads[k][2]>>]
  /\ NoChat
  /\ UNCHANGED <<alive, account, pictures, storage, failures, switched, cache>>

----------------------------------------------------------------------------
(* Sending: chat_collect.upload_image_to_firebase.                         *)

At(i, step) == i \in DOMAIN pictures /\ pictures[i].step = step

Chosen(n, step, by, p) ==
  [name |-> n, step |-> step, by |-> by, chat |-> p, url |-> Blank, from |-> None, to |-> None]

(* The image picker's answer draws a name and starts the upload.           *)
Choose(p, n) ==
  /\ reader # None /\ Len(pictures) < MaxPictures
  /\ pictures' = Append(pictures, Chosen(n, "uploading", reader, p))
  /\ switched' = IF account = reader THEN switched ELSE switched \cup {Len(pictures) + 1}
  /\ UNCHANGED <<alive, account, storage, failures, readVars>>

(* On another device an image is stored, ...                               *)
OthersStore(n) ==
  /\ Len(pictures) < MaxPictures
  /\ pictures' = Append(pictures, Chosen(n, "others", None, None))
  /\ storage' = [storage EXCEPT ![n] = Len(pictures) + 1]
  /\ UNCHANGED <<alive, account, failures, switched, readVars>>

(* ... and sent.                                                           *)
OthersSend(i, from, to) ==
  /\ At(i, "others")
  /\ pictures' = [pictures EXCEPT ![i].step = "filed", ![i].url = storage[pictures[i].name],
                    ![i].by = from, ![i].chat = to, ![i].from = from, ![i].to = to]
  /\ UNCHANGED <<alive, account, storage, failures, switched, readVars>>

(* One name for all images.                                                *)
StoredOverAll(i) ==
  /\ At(i, "uploading")
  /\ pictures' = [pictures EXCEPT ![i].step = "stored"]
  /\ storage' = [n \in Names |-> i]
  /\ UNCHANGED <<alive, account, failures, switched, readVars>>

(* An upload whose completion does not wait for the image to be stored.    *)
StoredLater(i) ==
  /\ At(i, "uploading")
  /\ pictures' = [pictures EXCEPT ![i].step = "stored"]
  /\ UNCHANGED <<alive, account, storage, failures, switched, readVars>>

(* The server stores the image; its answer reaches the completion.         *)
Stored(i) ==
  /\ At(i, "uploading")
  /\ pictures' = [pictures EXCEPT ![i].step = "stored"]
  /\ storage' = [storage EXCEPT ![pictures[i].name] = i]
  /\ UNCHANGED <<alive, account, failures, switched, readVars>>

(* downloadURL: the path and the token of what is stored there by then.    *)
Linked(i) ==
  /\ At(i, "stored")
  /\ pictures' = [pictures EXCEPT ![i].step = "linked", ![i].url = storage[pictures[i].name]]
  /\ UNCHANGED <<alive, account, storage, failures, switched, readVars>>

(* Every completion returns on an error; the image may be stored all the   *)
(* same, the answer lost.                                                  *)
Fails(i) ==
  /\ At(i, "uploading") \/ At(i, "stored") \/ At(i, "sent")
  /\ failures < MaxFailures /\ failures' = failures + 1
  /\ pictures' = [pictures EXCEPT ![i].step = "failed"]
  /\ \/ UNCHANGED storage
     \/ At(i, "uploading") /\ storage' = [storage EXCEPT ![pictures[i].name] = i]
  /\ UNCHANGED <<alive, account, switched, readVars>>

(* A message addressed the wrong way round.                                *)
SentBack(i, to) ==
  /\ At(i, "linked") /\ to \in {pictures[i].chat, None}
  /\ pictures' = [pictures EXCEPT ![i].step = "sent",
                    ![i].from = to, ![i].to = account]
  /\ UNCHANGED <<alive, account, storage, failures, switched, readVars>>

(* A message that is given up when nobody is signed in.                    *)
SentSignedIn(i, to) ==
  /\ At(i, "linked") /\ to \in {pictures[i].chat, None} /\ account # None
  /\ pictures' = [pictures EXCEPT ![i].step = "sent", ![i].from = account, ![i].to = to]
  /\ UNCHANGED <<alive, account, storage, failures, switched, readVars>>

(* The URL arrives: the message is from whoever is signed in by now, to    *)
(* the chat's user if that has arrived.                                    *)
Sent(i, to) ==
  /\ At(i, "linked") /\ to \in {pictures[i].chat, None}
  /\ pictures' = [pictures EXCEPT ![i].step = "sent",
                    ![i].from = account, ![i].to = to]
  /\ UNCHANGED <<alive, account, storage, failures, switched, readVars>>

(* The message was acknowledged: its key is listed for both sides.         *)
Filed(i) ==
  /\ At(i, "sent") /\ None \notin {pictures[i].from, pictures[i].to}
  /\ pictures' = [pictures EXCEPT ![i].step = "filed"]
  /\ UNCHANGED <<alive, account, storage, failures, switched, readVars>>

(* "fromid!" and "toid!" in that completion.                               *)
FiledForNobody(i) ==
  /\ At(i, "sent") /\ None \in {pictures[i].from, pictures[i].to}
  /\ Die
  /\ UNCHANGED <<account, storage, failures, switched>>

----------------------------------------------------------------------------
(* Showing: cellForItemAt and UIImageView.load_image.                      *)

(* What get_mess_from_firebase brings to the chat of the reader.           *)
Listed(i) == At(i, "filed") /\ reader \in {pictures[i].from, pictures[i].to}

ConfigureText(v) ==
  /\ reader # None
  /\ views' = [views EXCEPT ![v].item = Text, ![v].hidden = TRUE]
  /\ UNCHANGED <<alive, account, pictures, storage, failures, switched, reader, cache, loads, late>>

(* A message with neither text nor picture matches no branch.              *)
ConfigureEmpty(v) ==
  /\ reader # None
  /\ views' = [views EXCEPT ![v].item = Empty]
  /\ UNCHANGED <<alive, account, pictures, storage, failures, switched, reader, cache, loads, late>>

OnTheWay(v) == {loads[k][2] : k \in {j \in DOMAIN loads : loads[j][1] = v}}

(* A picture's cell that does not show its image view again.               *)
StillHidden(v, i) == [views[v] EXCEPT !.item = i]

Uncovered(v, i) == [views[v] EXCEPT !.item = i, !.hidden = FALSE]

(* load_image: from the cache at once, or by a download that captures the  *)
(* view.                                                                   *)
ConfigurePicture(v, i) ==
  LET url == pictures[i].url IN
  /\ reader # None /\ Listed(i)
  /\ IF cache[url] # Blank
     THEN /\ views' = [views EXCEPT ![v] = [Uncovered(v, i) EXCEPT !.image = cache[url]]]
          /\ UNCHANGED loads
     ELSE /\ Len(loads) < MaxLoads
          /\ views' = [views EXCEPT ![v] = Uncovered(v, i)]
          /\ loads' = Append(loads, <<v, url>>)
  /\ late' = IF OnTheWay(v) \subseteq {url} THEN late \ {v} ELSE late \cup {v}
  /\ UNCHANGED <<alive, account, pictures, storage, failures, switched, reader, cache>>

Served(url) == storage[pictures[url].name] = url

(* A download that only fills the cache.                                   *)
LoadEndsUnseen(k) ==
  LET url == loads[k][2] IN
  /\ Served(url)
  /\ cache' = [cache EXCEPT ![url] = url]
  /\ loads' = RemoveAt(loads, k)
  /\ UNCHANGED <<alive, account, pictures, storage, failures, switched, reader, views, late>>

(* Each download has a queue of its own: they end in any order.            *)
LoadEnds(k) ==
  LET v == loads[k][1] IN LET url == loads[k][2] IN
  /\ Served(url)
  /\ cache' = [cache EXCEPT ![url] = url]
  /\ views' = IF v = Gone THEN views ELSE [views EXCEPT ![v].image = url]
  /\ loads' = RemoveAt(loads, k)
  /\ UNCHANGED <<alive, account, pictures, storage, failures, switched, reader, late>>

(* A failed download that shows the placeholder it has just cached.        *)
LoadFailsQuietly(k) ==
  /\ ~Served(loads[k][2]) \/ failures < MaxFailures
  /\ failures' = IF Served(loads[k][2]) THEN failures + 1 ELSE failures
  /\ cache' = [cache EXCEPT ![loads[k][2]] = Loading]
  /\ loads' = RemoveAt(loads, k)
  /\ UNCHANGED <<alive, account, pictures, storage, switched, reader, views, late>>

(* "data!" after a download without data: no network, or a refused URL.    *)
LoadFails(k) ==
  /\ ~Served(loads[k][2]) \/ failures < MaxFailures
  /\ failures' = IF Served(loads[k][2]) THEN failures + 1 ELSE failures
  /\ Die
  /\ UNCHANGED <<account, storage, switched>>

(* NSCache may drop what it holds.                                         *)
Evict(url) ==
  /\ cache[url] # Blank
  /\ cache' = [cache EXCEPT ![url] = Blank]
  /\ UNCHANGED <<alive, account, pictures, storage, failures, switched, reader, views, loads, late>>

----------------------------------------------------------------------------
Upload(i) == Stored(i) \/ Linked(i) \/ Fails(i) \/ Filed(i) \/ FiledForNobody(i)
             \/ \E to \in Partners \cup {None} : Sent(i, to)

Load(v, url) == \E k \in DOMAIN loads : loads[k] = <<v, url>> /\ (LoadEnds(k) \/ LoadFails(k))

Configure(v) == ConfigureText(v) \/ ConfigureEmpty(v) \/ \E i \in Ids : ConfigurePicture(v, i)

Next ==
  \/ Relaunch \/ OpenChat \/ LeaveChat \/ \E a \in Accounts \cup {None} : SwitchAccount(a)
  \/ \E n \in Names : OthersStore(n) \/ \E p \in Partners : Choose(p, n)
  \/ \E i \in Ids : \/ Upload(i) \/ Evict(i)
                    \/ \E from \in Partners, to \in Accounts : OthersSend(i, from, to)
  \/ \E v \in Views : Configure(v)
  \/ \E v \in Views \cup {Gone}, url \in Ids : Load(v, url)

Spec == Init /\ [][Next]_vars

(* Requests end, with an answer or an error; nobody is made to choose an   *)
(* image, to scroll or to sign in or out.                                  *)
FairSpec ==
  /\ Spec
  /\ \A i \in Ids : WF_vars(Upload(i))
  /\ \A v \in Views, url \in Ids : WF_vars(Load(v, url))

----------------------------------------------------------------------------
Redrawn(i) == \E j \in DOMAIN pictures \ {i} : pictures[j].name = pictures[i].name

(* A listed picture stays what its sender chose: its URL is that of the    *)
(* image and the bucket serves it, unless somebody drew the name again.    *)
(* The URL is asked for in a request of its own, after the upload.         *)
PicturesSurvive ==
  \A i \in DOMAIN pictures :
    pictures[i].step = "filed" /\ ~Redrawn(i) => pictures[i].url = i /\ Served(i)

(* A picture is listed for the account in whose chat it was chosen and for *)
(* the user of that chat, unless somebody else, or nobody, was signed in   *)
(* meanwhile: the completion reads currentUser, two requests later.        *)
SentAsChosen ==
  \A i \in DOMAIN pictures \ switched :
    pictures[i].step = "filed" => pictures[i].from = pictures[i].by /\ pictures[i].to = pictures[i].chat

(* The cache of a running app has no placeholder and no other picture for  *)
(* a URL: load_image caches what it got before it looks whether it got     *)
(* something, and only the crash that follows saves the cache.             *)
CacheIsTrue == \A url \in Ids : cache[url] \in {Blank, url}

(* When no download for it is under way, a view shows the picture of its   *)
(* message, or none for a text, whatever it was used for before; except a  *)
(* view that got the message while another picture was on its way, which   *)
(* may keep that one for good.                                             *)
ViewShowsWanted ==
  \A v \in Views \ late :
    LET i == views[v].item IN
    /\ i \in Ids /\ OnTheWay(v) = {} => views[v].image = pictures[i].url /\ ~views[v].hidden
    /\ i = Text => views[v].hidden

(* A view that shows the picture of its message never trades it for        *)
(* another, nor for nothing, while it keeps the message: not when          *)
(* cellForItemAt hands it the message again, whether the cache still has   *)
(* the picture or not, and not when an older download ends behind a newer  *)
(* one.  Late views excepted.                                              *)
ShownStays ==
  [][\A v \in Views \ late :
       LET i == views[v].item IN
       i \in Ids /\ views[v].image = pictures[i].url /\ views'[v].item = i =>
         views'[v].image = views[v].image]_vars

(* The app crashes only where a request failed, where a name was drawn     *)
(* twice, or where a picture was sent with nobody signed in or to a chat   *)
(* whose user had not arrived.                                             *)
CrashHasCause ==
  ~alive =>
    \/ failures > 0
    \/ \E i \in DOMAIN pictures :
         \/ Redrawn(i)
         \/ At(i, "lost") /\ pictures[i].url # Blank /\ None \in {pictures[i].from, pictures[i].to}

(* An upload ends: the picture is listed, a request failed, or the app     *)
(* crashed.                                                                *)
UploadEnds ==
  \A i \in Ids : At(i, "uploading") ~> At(i, "filed") \/ At(i, "failed") \/ At(i, "lost")

(* A view that keeps a picture's message gets to show it, unless another   *)
(* download overtook it or the app crashed.                                *)
WantedIsShown ==
  \A v \in Views, i \in Ids :
    views[v].item = i ~>
      \/ views[v].item # i \/ v \in late
      \/ views[v].image = pictures[i].url
=============================================================================
