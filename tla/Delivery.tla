------------------------------ MODULE Delivery ------------------------------
(***************************************************************************)
(* Sending texts between users, each with the app open on one device: the  *)
(* three writes of chat_collect.send_mess_to_firebase (the message, then,  *)
(* once that is acknowledged, its key under usermess/<from>/<to> and under *)
(* usermess/<to>/<from>), the queue of outstanding writes that the         *)
(* database SDK keeps and sends again after a reconnect, and the nested    *)
(* observers of get_mess_from_firebase that turn keys into bubbles: one on *)
(* usermess/<u>, for each of its events one on usermess/<u>/<p>, for each  *)
(* event of that one on mess/<key>; none is ever removed.                  *)
(*                                                                         *)
(* A message key is the number of its send: childByAutoId never repeats.   *)
(* Writes only merge children in, so one applied twice changes nothing     *)
(* more.  Values under mess never change once written.                     *)
(***************************************************************************)
EXTENDS Integers, Sequences, FiniteSets

CONSTANTS
  Users,        \* the users, each signed in on a device of their own
  Nobody,       \* the partner of a chat whose profile has not arrived
  Denials,      \* TRUE iff the database rules may refuse a write
  MaxMessages,  \* bound on texts sent
  MaxFaults     \* bound on connection losses, process deaths and refusals

ASSUME PartnerAssumption == Nobody \notin Users
ASSUME BoundAssumption == MaxMessages \in Nat /\ MaxFaults \in Nat
ASSUME DenialAssumption == Denials \in BOOLEAN

VARIABLES
  alive,     \* the users whose app runs
  online,    \* the users whose database connection is up
  partner,   \* the user property of each user's chat screen
  texts,     \* the messages sent so far; the key of one is its position
  stored,    \* keys under mess on the server
  listed,    \* usermess/<u>/<p> on the server: sets of keys
  puts,      \* outstandingPuts of each user's SDK, in send order
  known,     \* partners the observer of usermess/<u> has in its view
  inner,     \* [u][p]: the observers of usermess/<u>/<p> in u's chat
  added,     \* <<p, key, n>>: the n-th of them was raised for the key
  asked,     \* <<key, n>>: it observes mess/<key> and waits for the value
  bubbles,   \* array_mess of each user's chat screen
  faults     \* connection losses, process deaths and refusals so far

serverVars == <<stored, listed>>
readVars   == <<known, inner, added, asked, bubbles>>
clientVars == <<partner, readVars>>
vars == <<alive, online, texts, puts, faults, serverVars, clientVars>>

Ids == 1..MaxMessages

Text  == [from: Users, to: Users \cup {Nobody}]
Write == [id: Ids, node: {"mess", "own", "partner"}, reply: {"none", "ok", "denied"}]

Put(id, node) == [id |-> id, node |-> node, reply |-> "none"]

TypeOK ==
  /\ alive \subseteq Users /\ online \subseteq alive
  /\ partner \in [Users -> Users \cup {Nobody}]
  /\ texts \in Seq(Text) /\ Len(texts) <= MaxMessages
  /\ stored \subseteq Ids
  /\ listed \in [Users -> [Users -> SUBSET Ids]]
  /\ puts \in [Users -> Seq(Write)]
  /\ known \in [Users -> SUBSET Users]
  /\ inner \in [Users -> [Users -> Nat]]
  /\ added \in [Users -> SUBSET (Users \X Ids \X Nat)]
  /\ asked \in [Users -> SUBSET (Ids \X Nat)]
  /\ bubbles \in [Users -> Seq(Ids)]
  /\ faults \in 0..MaxFaults

Init ==
  /\ alive = Users /\ online = Users
  /\ partner = [u \in Users |-> Nobody]
  /\ texts = <<>>
  /\ stored = {}
  /\ listed = [u \in Users |-> [p \in Users |-> {}]]
  /\ puts = [u \in Users |-> <<>>]
  /\ known = [u \in Users |-> {}]
  /\ inner = [u \in Users |-> [p \in Users |-> 0]]
  /\ added = [u \in Users |-> {}]
  /\ asked = [u \in Users |-> {}]
  /\ bubbles = [u \in Users |-> <<>>]
  /\ faults = 0

(* Keys listed under the partner of whatever chat is open by then.         *)
PathOfOpenChat(w) ==
  LET u == texts[w.id].from
      p == IF partner[u] = Nobody THEN texts[w.id].to ELSE partner[u]
  IN IF w.node = "own" THEN <<u, p>> ELSE <<p, u>>

(* Where the key of a text is listed by a write.                           *)
Path(w) ==
  LET t == texts[w.id] IN
  IF w.node = "own" THEN <<t.from, t.to>> ELSE <<t.to, t.from>>

----------------------------------------------------------------------------
(* The app and its connection.                                             *)

(* A chat screen that starts with nothing but its partner; no partner also *)
(* stands for no chat screen.                                              *)
NewScreen(u, p) ==
  /\ partner' = [partner EXCEPT ![u] = p]
  /\ known' = [known EXCEPT ![u] = {}]
  /\ inner' = [inner EXCEPT ![u] = [p2 \in Users |-> 0]]
  /\ added' = [added EXCEPT ![u] = {}]
  /\ asked' = [asked EXCEPT ![u] = {}]
  /\ bubbles' = [bubbles EXCEPT ![u] = <<>>]

(* The process dies: outstanding writes and the screen are gone.           *)
Die(u) ==
  /\ alive' = alive \ {u} /\ online' = online \ {u}
  /\ puts' = [puts EXCEPT ![u] = <<>>]
  /\ NewScreen(u, Nobody)

Kill(u) ==
  /\ u \in alive /\ faults < MaxFaults
  /\ faults' = faults + 1
  /\ Die(u)
  /\ UNCHANGED <<texts, serverVars>>

(* message_controller finds no profile of the partner: "as! NSDictionary". *)
NoPartnerArrives(u) == u \in online /\ partner[u] = Nobody /\ Kill(u)

(* The user opens the app and the chat again.                              *)
Relaunch(u) ==
  /\ u \notin alive
  /\ alive' = alive \cup {u} /\ online' = online \cup {u}
  /\ UNCHANGED <<texts, puts, faults, serverVars, clientVars>>

(* A connection loss that cancels what is outstanding.                     *)
DisconnectAndForget(u) ==
  /\ u \in online /\ faults < MaxFaults
  /\ faults' = faults + 1
  /\ online' = online \ {u}
  /\ puts' = [puts EXCEPT ![u] = <<>>]
  /\ UNCHANGED <<alive, texts, serverVars, clientVars>>

(* onDisconnect: replies on their way are lost, every outstanding write    *)
(* will be sent again.                                                     *)
Disconnect(u) ==
  /\ u \in online /\ faults < MaxFaults
  /\ faults' = faults + 1
  /\ online' = online \ {u}
  /\ puts' = [puts EXCEPT ![u] = [i \in DOMAIN puts[u] |-> [puts[u][i] EXCEPT !.reply = "none"]]]
  /\ UNCHANGED <<alive, texts, serverVars, clientVars>>

(* A connection that outlives the app.                                     *)
ReconnectAlways(u) ==
  /\ u \notin online
  /\ online' = online \cup {u}
  /\ UNCHANGED <<alive, texts, puts, faults, serverVars, clientVars>>

(* restoreState sends the outstanding listens and writes again.            *)
Reconnect(u) ==
  /\ u \in alive \ online
  /\ online' = online \cup {u}
  /\ UNCHANGED <<alive, texts, puts, faults, serverVars, clientVars>>

(* message_controller pushes the chat before the observer of the           *)
(* partner's profile has set its user.                                     *)
PartnerArrives(u, p) ==
  /\ u \in online /\ partner[u] = Nobody
  /\ partner' = [partner EXCEPT ![u] = p]
  /\ UNCHANGED <<alive, online, texts, puts, faults, serverVars, readVars>>

(* new_message sets the user before it pushes the chat.                    *)
ChooseUser(u, p) ==
  /\ u \in alive /\ partner[u] = Nobody
  /\ NewScreen(u, p)
  /\ UNCHANGED <<alive, online, texts, puts, faults, serverVars>>

(* Back out of the chat; the next one opened is a new screen.              *)
CloseChat(u) ==
  /\ u \in alive /\ partner[u] # Nobody
  /\ NewScreen(u, Nobody)
  /\ UNCHANGED <<alive, online, texts, puts, faults, serverVars>>

----------------------------------------------------------------------------
(* Sending: chat_collect.send_mess_to_firebase.                            *)

(* A send that does not wait for the message before it lists the key.      *)
SendAllAtOnce(u) ==
  /\ u \in alive /\ Len(texts) < MaxMessages /\ partner[u] # Nobody
  /\ texts' = Append(texts, [from |-> u, to |-> partner[u]])
  /\ puts' = [puts EXCEPT ![u] =
                @ \o <<Put(Len(texts) + 1, "own"), Put(Len(texts) + 1, "mess")>>]
  /\ UNCHANGED <<alive, online, faults, serverVars, clientVars>>

Send(u) ==
  /\ u \in alive /\ Len(texts) < MaxMessages
  /\ texts' = Append(texts, [from |-> u, to |-> partner[u]])
  /\ puts' = [puts EXCEPT ![u] = Append(@, Put(Len(texts) + 1, "mess"))]
  /\ UNCHANGED <<alive, online, faults, serverVars, clientVars>>

(* The server takes the writes of a connection in the order they were      *)
(* sent: all those before the i-th have their reply.                       *)
NextPut(u, i) ==
  /\ u \in online /\ i \in DOMAIN puts[u] /\ puts[u][i].reply = "none"
  /\ \A j \in 1..(i - 1) : puts[u][j].reply # "none"

ServerApplies(u, i) ==
  LET w == puts[u][i] IN
  /\ NextPut(u, i)
  /\ puts' = [puts EXCEPT ![u][i].reply = "ok"]
  /\ IF w.node = "mess"
     THEN stored' = stored \cup {w.id} /\ UNCHANGED listed
     ELSE /\ listed' = [listed EXCEPT ![Path(w)[1]][Path(w)[2]] = @ \cup {w.id}]
          /\ UNCHANGED stored
  /\ UNCHANGED <<alive, online, texts, faults, clientVars>>

ServerDenies(u, i) ==
  /\ Denials /\ NextPut(u, i) /\ faults < MaxFaults
  /\ faults' = faults + 1
  /\ puts' = [puts EXCEPT ![u][i].reply = "denied"]
  /\ UNCHANGED <<alive, online, texts, serverVars, clientVars>>

(* The keys an observer of usermess/<u>/<p> can be told of: those on the   *)
(* server and those its own outstanding writes add.                        *)
Pending(q) == {<<Path(q[i]), q[i].id>> : i \in {j \in DOMAIN q : q[j].node # "mess"}}

OwnView(u, q) == {e \in Users \X Ids : <<<<u, e[1]>>, e[2]>> \in Pending(q)}

View(u, q) == OwnView(u, q) \cup {e \in Users \X Ids : e[2] \in listed[u][e[1]]}

Acked(u) == u \in online /\ puts[u] # <<>> /\ Head(puts[u]).reply # "none"

(* A completion that does not look at the error.                           *)
FileKeyUnchecked(u) ==
  LET id == Head(puts[u]).id IN
  /\ Acked(u) /\ Head(puts[u]).node = "mess" /\ texts[id].to # Nobody
  /\ puts' = [puts EXCEPT ![u] = Tail(@) \o <<Put(id, "own"), Put(id, "partner")>>]
  /\ UNCHANGED <<alive, online, texts, faults, serverVars, clientVars>>

(* A completion that lists the key for the recipient first.                *)
FileKeyForPartnerFirst(u) ==
  LET id == Head(puts[u]).id IN
  /\ Acked(u) /\ Head(puts[u]).node = "mess" /\ texts[id].to # Nobody
  /\ puts' = [puts EXCEPT ![u] = Tail(@) \o <<Put(id, "partner"), Put(id, "own")>>]
  /\ UNCHANGED <<alive, online, texts, faults, serverVars, clientVars>>

(* The completion of the write under mess lists the key for both sides; on *)
(* an error it only prints.                                                *)
FileKey(u) ==
  LET id == Head(puts[u]).id IN
  /\ Acked(u) /\ Head(puts[u]).node = "mess"
  /\ Head(puts[u]).reply = "denied" \/ texts[id].to # Nobody
  /\ puts' = [puts EXCEPT ![u] = Tail(@) \o
                IF Head(@).reply = "ok" THEN <<Put(id, "own"), Put(id, "partner")>> ELSE <<>>]
  /\ UNCHANGED <<alive, online, texts, faults, serverVars, clientVars>>

(* "toid!" when the chat had no user yet as Send was tapped.               *)
FileKeyForNobody(u) ==
  /\ Acked(u) /\ Head(puts[u]).node = "mess" /\ Head(puts[u]).reply = "ok"
  /\ texts[Head(puts[u]).id].to = Nobody
  /\ Die(u)
  /\ UNCHANGED <<texts, faults, serverVars>>

(* A write under usermess has no completion.                               *)
AckKey(u) ==
  /\ Acked(u) /\ Head(puts[u]).node # "mess" /\ Head(puts[u]).reply = "ok"
  /\ puts' = [puts EXCEPT ![u] = Tail(@)]
  /\ UNCHANGED <<alive, online, texts, faults, serverVars, clientVars>>

(* A refused one is reverted: what it added is gone from the views, and    *)
(* with the last key of a partner the partner, unless the device has heard *)
(* of another by then.  Nobody observes a removal.                         *)
RevertKey(u) ==
  LET w    == Head(puts[u])
      q    == Tail(puts[u])
      list == Path(w)
      kept == {a \in added[u] : <<a[1], a[2]>> \in View(u, q)}
  IN
  /\ Acked(u) /\ w.node # "mess" /\ w.reply = "denied"
  /\ puts' = [puts EXCEPT ![u] = q]
  /\ added' = [added EXCEPT ![u] = kept]
  /\ \/ /\ list[1] # u \/ \E e \in View(u, q) : e[1] = list[2]
        /\ UNCHANGED known
     \/ /\ list[1] = u
        /\ \A e \in OwnView(u, q) \cup kept : e[1] # list[2]
        /\ known' = [known EXCEPT ![u] = @ \ {list[2]}]
  /\ UNCHANGED <<alive, online, texts, faults, serverVars, partner, inner, asked, bubbles>>

----------------------------------------------------------------------------
(* Reading: chat_collect.get_mess_from_firebase.                           *)

(* What an observer can be raised for: a write of one's own at once, the   *)
(* server's data with the connection.                                      *)
Heard(u) == IF u \in online THEN View(u, puts[u]) ELSE OwnView(u, puts[u])

(* An outer observer that is raised again for a partner in its view.       *)
PartnerAddedAgain(u, p) ==
  /\ u \in alive /\ \E e \in Heard(u) : e[1] = p
  /\ known' = [known EXCEPT ![u] = @ \cup {p}]
  /\ inner' = [inner EXCEPT ![u][p] = @ + 1]
  /\ UNCHANGED <<alive, online, texts, puts, faults, serverVars,
                 partner, added, asked, bubbles>>

(* childAdded of the partner: one more observer of usermess/<u>/<p>.       *)
PartnerAdded(u, p) ==
  /\ u \in alive /\ p \notin known[u] /\ \E e \in Heard(u) : e[1] = p
  /\ known' = [known EXCEPT ![u] = @ \cup {p}]
  /\ inner' = [inner EXCEPT ![u][p] = @ + 1]
  /\ UNCHANGED <<alive, online, texts, puts, faults, serverVars,
                 partner, added, asked, bubbles>>

(* An inner observer that is raised again for what it was raised for.      *)
KeyAddedAgain(u, e, n) ==
  /\ u \in alive /\ e \in Heard(u)
  /\ asked' = [asked EXCEPT ![u] = @ \cup {<<e[2], n>>}]
  /\ UNCHANGED <<alive, online, texts, puts, faults, serverVars,
                 partner, known, inner, added, bubbles>>

(* childAdded of the key to the n-th observer: observe mess/<key>.         *)
KeyAdded(u, e, n) ==
  /\ u \in alive /\ e \in Heard(u) /\ <<e[1], e[2], n>> \notin added[u]
  /\ added' = [added EXCEPT ![u] = @ \cup {<<e[1], e[2], n>>}]
  /\ asked' = [asked EXCEPT ![u] = @ \cup {<<e[2], n>>}]
  /\ UNCHANGED <<alive, online, texts, puts, faults, serverVars,
                 partner, known, inner, bubbles>>

ValueArrives(u, a) ==
  /\ u \in online /\ a[1] \in stored
  /\ asked' = [asked EXCEPT ![u] = @ \ {a}]
  /\ bubbles' = [bubbles EXCEPT ![u] = Append(@, a[1])]
  /\ UNCHANGED <<alive, online, texts, puts, faults, serverVars,
                 partner, known, inner, added>>

(* "mangtemp!" on the value of a key that mess does not hold.              *)
NoValueArrives(u, a) ==
  /\ u \in online /\ a[1] \notin stored
  /\ Die(u)
  /\ UNCHANGED <<texts, faults, serverVars>>

----------------------------------------------------------------------------
Server(u) == \E i \in DOMAIN puts[u] : ServerApplies(u, i) \/ ServerDenies(u, i)
Completion(u) == FileKey(u) \/ FileKeyForNobody(u) \/ AckKey(u) \/ RevertKey(u)
Reading(u) ==
  \/ \E p \in Users : PartnerAdded(u, p)
  \/ \E e \in View(u, puts[u]) : \E n \in 1..inner[u][e[1]] : KeyAdded(u, e, n)
  \/ \E a \in asked[u] : ValueArrives(u, a) \/ NoValueArrives(u, a)

Next ==
  \E u \in Users :
    \/ Kill(u) \/ NoPartnerArrives(u) \/ Relaunch(u) \/ Disconnect(u) \/ Reconnect(u)
    \/ CloseChat(u) \/ \E p \in Users : PartnerArrives(u, p) \/ ChooseUser(u, p)
    \/ Send(u) \/ Server(u) \/ Completion(u) \/ Reading(u)

Spec == Init /\ [][Next]_vars

(* Connections come back, the server and the callback queues work off what *)
(* they are given.  Nothing makes a user tap or open the app again.        *)
FairSpec ==
  /\ Spec
  /\ \A u \in Users :
       /\ WF_vars(Reconnect(u))
       /\ WF_vars(Server(u))
       /\ WF_vars(Completion(u))
       /\ WF_vars(Reading(u))

----------------------------------------------------------------------------
(* A key is listed, or about to be, only for a message that is stored: the *)
(* two keys are written after the message was acknowledged, and no         *)
(* reconnect, resend, refusal or death in between breaks that order.       *)
NoDanglingKey ==
  /\ \A u, p \in Users : listed[u][p] \subseteq stored
  /\ \A u \in Users : \A i \in DOMAIN puts[u] :
       puts[u][i].node # "mess" => puts[u][i].id \in stored

(* The forced unwrap of a message's value never meets an absent value: a   *)
(* chat only asks for messages that are stored.                            *)
NoValueMissing == \A u \in Users : \A a \in asked[u] : a[1] \in stored

(* Nobody is shown a message they neither sent nor received, although the  *)
(* chat may have moved to another partner between the tap and the          *)
(* acknowledgement.                                                        *)
OnlyOwnTexts ==
  \A u \in Users : \A i \in DOMAIN bubbles[u] :
    u \in {texts[bubbles[u][i]].from, texts[bubbles[u][i]].to}

(* Where the rules refuse nothing, a message appears once in a chat,       *)
(* whatever was sent again or raised first from the local write and then   *)
(* from the server: the outer observer installs one inner observer for     *)
(* each partner.                                                           *)
OneBubbleEach ==
  \A u \in Users :
    /\ \A i, j \in DOMAIN bubbles[u] : bubbles[u][i] = bubbles[u][j] => i = j
    /\ \A i \in DOMAIN bubbles[u] : \A a \in asked[u] : bubbles[u][i] # a[1]

Shown(u, id) == {i \in DOMAIN bubbles[u] : bubbles[u][i] = id}
Asked(u, id) == {a \in asked[u] : a[1] = id}

(* Where a refused first write took a partner out of the list and a later  *)
(* text brings them back, each further observer may draw the message once  *)
(* more, and no observer draws it twice.                                   *)
OneBubblePerObserver ==
  \A u, p \in Users : \A id \in DOMAIN texts :
    {texts[id].from, texts[id].to} = {u, p} =>
      Cardinality(Shown(u, id)) + Cardinality(Asked(u, id)) <= inner[u][p]

(* What Inbox starts from: whatever the observers of usermess/<u>/<p> can  *)
(* be told of, by the server or by u's own writes, is stored and is        *)
(* between u and p.                                                        *)
ListsHoldOwnTexts ==
  \A u \in Users : \A e \in View(u, puts[u]) :
    e[2] \in stored /\ {texts[e[2]].from, texts[e[2]].to} = {u, e[1]}

Delivered(id) == id \in listed[texts[id].to][texts[id].from]
Filed(id)     == id \in listed[texts[id].from][texts[id].to]
Addressed     == {id \in DOMAIN texts : texts[id].to # Nobody}

(* The recipient never finds a message its sender cannot find, whenever    *)
(* the sender's app dies between the two writes; rules that refuse nothing *)
(* assumed.                                                                *)
SenderFindsFirst == \A id \in Addressed : Delivered(id) => Filed(id)

Stage(id) ==
  IF id \in Addressed /\ Delivered(id)  THEN "delivered"
  ELSE IF id \in Addressed /\ Filed(id) THEN "filed"
  ELSE IF id \in stored                 THEN "stored"
  ELSE IF id \in DOMAIN texts           THEN "sent"
  ELSE "unsent"

stage == [id \in Ids |-> Stage(id)]
own   == {id \in DOMAIN texts : texts[id].from = texts[id].to}

(* Delivery implements Mail: each step of the devices and of the server    *)
(* moves at most one message one stage on, none is ever withdrawn, and the *)
(* sender's stage is passed over only where rules may refuse a write.      *)
M == INSTANCE Mail WITH stage <- stage, own <- own
ImplementsMail == M!Spec

Outstanding(id) ==
  id \in Addressed /\ \E i \in DOMAIN puts[texts[id].from] : puts[texts[id].from][i].id = id

(* A text handed to the database reaches the recipient's list unless the   *)
(* sender's app dies first, through any connection losses.                 *)
OutstandingIsDelivered ==
  \A id \in Ids :
    Outstanding(id) ~> id \in Addressed /\ (Delivered(id) \/ texts[id].from \notin alive)

(* A listed text is shown to a recipient who keeps the app running and the *)
(* chat open.                                                              *)
ListedIsShown ==
  \A id \in Ids :
    id \in Addressed /\ Delivered(id)
      ~> /\ id \in Addressed
         /\ \/ texts[id].to \notin alive
            \/ partner[texts[id].to] = Nobody
            \/ Shown(texts[id].to, id) # {}

(* Not kept by the code: a text is sent to the partner whose chat is open. *)
(* message_controller.swift 228 says the partner's data is fetched to pass *)
(* it to chat_collect, but the chat can be used before it has arrived.     *)
SentToSomebody == \A id \in DOMAIN texts : texts[id].to # Nobody
=============================================================================
