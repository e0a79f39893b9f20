------------------------------- MODULE Inbox -------------------------------
(***************************************************************************)
(* The list of conversations of one message_controller and the cells that  *)
(* show it: get_data_table_user_mess_from_firebase observes a key, then    *)
(* the message of the key, and files the message under get_partner_id();   *)
(* each reload hands the rows to reused cells, and a cell observes the     *)
(* profile of every partner whose row it was ever given.                   *)
(*                                                                         *)
(* What is listed under usermess/<Me>/<p> are messages between Me and p    *)
(* (Delivery), in an order of its own: the clocks that set timestamps and  *)
(* keys are those of the senders.  No write of Me's is refused, so each    *)
(* partner has one observer (Delivery).  The client answers listens in     *)
(* the order it sent them, and after a reconnect sends those without an    *)
(* answer again in the order of a dictionary, which is any order.          *)
(***************************************************************************)
EXTENDS Integers, Sequences, FiniteSets, Functions

CONSTANTS
  Me,          \* the user whose inbox this is
  Partners,    \* those they exchange messages with; Me may be one
  Nobody,      \* no user
  Familiar,    \* the users whose profile an earlier screen of the process observes
  Cells,       \* the cells the table view reuses; a row each fits the screen
  MaxHeard,    \* bound on keys raised to the inbox
  MaxTime,     \* bound on timestamps
  MaxDrops     \* bound on connection losses

Users == Partners \cup {Me}

ASSUME NobodyAssumption == Nobody \notin Users
ASSUME FiniteAssumption == IsFiniteSet(Partners) /\ IsFiniteSet(Cells)
ASSUME FamiliarAssumption == Familiar \subseteq Users
ASSUME BoundAssumption == MaxHeard \in Nat /\ MaxTime \in Nat /\ MaxDrops \in Nat

VARIABLES
  alive,       \* the app runs
  signedIn,    \* Me is Auth.auth().currentUser; FALSE after a forced sign-out
  online,      \* the database connection is up
  wire,        \* listens without an answer, in the order they were sent
  heard,       \* messages whose key was raised under usermess/<Me>/<p>, in order
  rows,        \* message_dictionary: the message of each row, by its key
  dirty,       \* reloadData was called and the table not laid out since
  shown,       \* the message each cell was configured with
  watch,       \* the partners whose profile each cell observes
  known,       \* the profiles the client has
  events,      \* profiles on the main queue for each cell, in order
  name,        \* the user whose name each cell shows
  drops,       \* connection losses so far
  shuffled,    \* history: partners with two listens sent again in any order
  overtaken    \* history: cells given a row while an earlier row's profile was missing

netVars  == <<alive, signedIn, online, known, drops>>
cellVars == <<shown, watch, name, overtaken>>
vars == <<netVars, wire, heard, rows, dirty, events, shuffled, cellVars>>

Message == [from: Users, to: Users, time: 1..MaxTime]
Between(p) == {m \in Message : {m.from, m.to} = {Me, p}}

(* A message is named by the list that holds its key and its place there,  *)
(* a listen by the message it asks for, or by a user and 0: the profile.   *)
Ref        == Partners \X (1..MaxHeard)
NoRow      == <<Nobody, 0>>
Profile(u) == <<u, 0>>
Listen     == Ref \cup {Profile(u) : u \in Users}

TypeOK ==
  /\ alive \in BOOLEAN /\ signedIn \in BOOLEAN /\ online \in BOOLEAN /\ dirty \in BOOLEAN
  /\ wire \in Seq(Listen)
  /\ heard \in [Partners -> Seq(Message)]
  /\ \A p \in Partners : Len(heard[p]) <= MaxHeard
  /\ rows \in [Users -> Ref \cup {NoRow}]
  /\ shown \in [Cells -> Ref \cup {NoRow}]
  /\ watch \in [Cells -> SUBSET Users]
  /\ known \subseteq Users
  /\ events \in [Cells -> Seq(Users)]
  /\ name \in [Cells -> Users \cup {Nobody}]
  /\ drops \in 0..MaxDrops
  /\ shuffled \subseteq Partners /\ overtaken \subseteq Cells

Init ==
  /\ alive = TRUE /\ signedIn = TRUE /\ online = TRUE
  /\ wire = <<>>
  /\ heard = [p \in Partners |-> <<>>]
  /\ rows = [u \in Users |-> NoRow]
  /\ dirty = FALSE
  /\ shown = [c \in Cells |-> NoRow]
  /\ watch = [c \in Cells |-> {}]
  /\ known = Familiar
  /\ events = [c \in Cells |-> <<>>]
  /\ name = [c \in Cells |-> Nobody]
  /\ drops = 0
  /\ shuffled = {} /\ overtaken = {}

MessageAt(ref) == heard[ref[1]][ref[2]]

(* Grouping by the recipient.                                              *)
ToId(m) == m.to

(* No partner for those who are signed out.                                *)
PartnerOfSignedIn(m) ==
  IF ~signedIn THEN Nobody ELSE IF m.from = Me THEN m.to ELSE m.from

(* get_partner_id compares with the user who is current when it runs.      *)
PartnerId(m) == IF signedIn /\ m.from = Me THEN m.to ELSE m.from

Asked == {wire[i] : i \in DOMAIN wire}

TotalHeard == Cardinality({ref \in Ref : ref[2] \in DOMAIN heard[ref[1]]})

----------------------------------------------------------------------------
(* The account and the connection.                                         *)

(* A forced sign-out leaves the inbox on the screen.                       *)
Revoke ==
  /\ alive /\ signedIn
  /\ signedIn' = FALSE
  /\ UNCHANGED <<alive, online, known, drops, wire, heard, rows, dirty, events, shuffled, cellVars>>

(* A connection loss that forgets the listens it had no answer for.        *)
DisconnectAndForget ==
  /\ alive /\ online /\ drops < MaxDrops
  /\ online' = FALSE /\ drops' = drops + 1
  /\ wire' = <<>>
  /\ UNCHANGED <<alive, signedIn, known, heard, rows, dirty, events, shuffled, cellVars>>

Disconnect ==
  /\ alive /\ online /\ drops < MaxDrops
  /\ online' = FALSE /\ drops' = drops + 1
  /\ UNCHANGED <<alive, signedIn, known, wire, heard, rows, dirty, events, shuffled, cellVars>>

(* restoreState walks the dictionary of listens.                           *)
Reconnect ==
  /\ alive /\ ~online
  /\ online' = TRUE
  /\ \E f \in Bijection(DOMAIN wire, DOMAIN wire) : wire' = [i \in DOMAIN wire |-> wire[f[i]]]
  /\ shuffled' = shuffled \cup
       {p \in Partners : \E i, j \in 1..MaxHeard : i # j /\ {<<p, i>>, <<p, j>>} \subseteq Asked}
  /\ UNCHANGED <<alive, signedIn, known, drops, heard, rows, dirty, events, cellVars>>

----------------------------------------------------------------------------
(* The rows: get_data_table_user_mess_from_firebase.                       *)

(* A listen that is answered before those sent earlier.                    *)
KeyAddedInFront(p, m) ==
  /\ alive /\ TotalHeard < MaxHeard
  /\ heard' = [heard EXCEPT ![p] = Append(@, m)]
  /\ wire' = <<<<p, Len(heard[p]) + 1>>>> \o wire
  /\ UNCHANGED <<netVars, rows, dirty, events, shuffled, cellVars>>

(* childAdded of a key under usermess/<Me>/<p>: observe its message.       *)
KeyAdded(p, m) ==
  /\ alive /\ TotalHeard < MaxHeard
  /\ heard' = [heard EXCEPT ![p] = Append(@, m)]
  /\ wire' = Append(wire, <<p, Len(heard[p]) + 1>>)
  /\ UNCHANGED <<netVars, rows, dirty, events, shuffled, cellVars>>

Answered == alive /\ online /\ wire # <<>>

(* A row that is not shown before something else reloads the table.        *)
ValueArrivesUnseen ==
  /\ Answered /\ Head(wire) \in Ref
  /\ rows' = [rows EXCEPT ![PartnerId(MessageAt(Head(wire)))] = Head(wire)]
  /\ dirty' = (dirty \/ rows[Head(wire)[1]] = NoRow)
  /\ wire' = Tail(wire)
  /\ UNCHANGED <<netVars, heard, events, shuffled, cellVars>>

(* The observer of mess/<key>: the message takes its partner's row.        *)
ValueArrives ==
  /\ Answered /\ Head(wire) \in Ref
  /\ rows' = [rows EXCEPT ![PartnerId(MessageAt(Head(wire)))] = Head(wire)]
  /\ dirty' = TRUE
  /\ wire' = Tail(wire)
  /\ UNCHANGED <<netVars, heard, events, shuffled, cellVars>>

----------------------------------------------------------------------------
(* The cells: cellForRowAt and cell_message_controller.                    *)

Filled == {u \in Users : rows[u] # NoRow}

(* array_message after the sort: the newest first, equal times in any      *)
(* order.                                                                  *)
Tables ==
  {t \in Injection(1..Cardinality(Filled), Filled) :
     \A i, j \in DOMAIN t : i < j => MessageAt(rows[t[i]]).time >= MessageAt(rows[t[j]]).time}

(* The reuse pool: which cell gets which of the n first rows.              *)
Placements(n) == Injection(1..n, Cells)

Smaller(a, b) == IF a < b THEN a ELSE b

(* Members of a finite set of numbers in increasing order.                 *)
InOrder(I) == {s \in [1..Cardinality(I) -> I] : \A i, j \in DOMAIN s : i < j => s[i] < s[j]}

(* A cell that keeps to its first observer.                                *)
ObservesOnce(c, u) == IF watch[c] = {} THEN {u} ELSE watch[c]

(* No observer is removed when the cell gets another row.                  *)
Observes(c, u) == watch[c] \cup {u}

(* An observer that is only raised by what arrives after it.               *)
RaisedLater(c, u) == events[c]

(* A profile the client has is raised to a new observer at once.           *)
Raised(c, u) == IF u \in known THEN Append(events[c], u) ELSE events[c]

(* Layout hands the rows that fit to cells of the reuse pool.  The         *)
(* profile of a new partner is asked for unless the client has it or waits *)
(* for it.                                                                 *)
Layout ==
  /\ alive /\ dirty
  /\ dirty' = FALSE
  /\ \E t \in Tables : \E f \in Placements(Smaller(Cardinality(Filled), Cardinality(Cells))) :
       LET at     == AntiFunction(f)
           used   == DOMAIN at
           row(c) == rows[t[at[c]]]
           user(c) == PartnerId(MessageAt(row(c)))
           fresh  == {i \in DOMAIN f :
                        /\ user(f[i]) \notin known /\ Profile(user(f[i])) \notin Asked
                        /\ \A j \in DOMAIN f : j < i => user(f[j]) # user(f[i])}
       IN
       /\ shown' = [c \in Cells |-> IF c \in used THEN row(c) ELSE NoRow]
       /\ watch' = [c \in Cells |-> IF c \in used THEN Observes(c, user(c)) ELSE watch[c]]
       /\ events' = [c \in Cells |-> IF c \in used THEN Raised(c, user(c)) ELSE events[c]]
       /\ \E s \in InOrder(fresh) :
            wire' = wire \o [i \in DOMAIN s |-> Profile(user(f[s[i]]))]
       /\ overtaken' = {c \in Cells : IF c \in used THEN watch[c] \ (known \cup {user(c)}) # {}
                                                    ELSE c \in overtaken}
  /\ UNCHANGED <<netVars, heard, rows, name, shuffled>>

(* The profile of a user: an event for each cell that observes it.         *)
ProfileArrives ==
  LET u == Head(wire)[1] IN
  /\ Answered /\ Head(wire) \notin Ref
  /\ known' = known \cup {u}
  /\ events' = [c \in Cells |-> IF u \in watch[c] THEN Append(events[c], u) ELSE events[c]]
  /\ wire' = Tail(wire)
  /\ UNCHANGED <<alive, signedIn, online, drops, heard, rows, dirty, shuffled, cellVars>>

(* The event sets the cell's textLabel, whatever row the cell has by now.  *)
NameSet(c) ==
  /\ alive /\ events[c] # <<>>
  /\ name' = [name EXCEPT ![c] = Head(events[c])]
  /\ events' = [events EXCEPT ![c] = Tail(@)]
  /\ UNCHANGED <<netVars, wire, heard, rows, dirty, shown, watch, shuffled, overtaken>>

(* A cell ends the process: "as!" on a partner without a profile, and, for *)
(* the avatar it loads once it has a name, "url!" on the empty address     *)
(* that Register stores for want of another, "data!" on a failed download. *)
CellFails ==
  /\ \/ Answered /\ Head(wire) \notin Ref
     \/ alive /\ \E c \in Cells : name[c] # Nobody
  /\ alive' = FALSE
  /\ UNCHANGED <<signedIn, online, known, drops, wire, heard, rows, dirty, events, shuffled, cellVars>>

----------------------------------------------------------------------------
Arrives == ValueArrives \/ ProfileArrives

Next ==
  \/ Revoke \/ Disconnect \/ Reconnect
  \/ \E p \in Partners : \E m \in Between(p) : KeyAdded(p, m)
  \/ Arrives \/ Layout \/ CellFails
  \/ \E c \in Cells : NameSet(c)

Spec == Init /\ [][Next]_vars

(* The connection comes back, listens are answered, the main queue runs.   *)
FairSpec ==
  /\ Spec
  /\ WF_vars(Reconnect) /\ WF_vars(Arrives) /\ WF_vars(Layout)
  /\ \A c \in Cells : WF_vars(NameSet(c))

----------------------------------------------------------------------------
(* While Me is signed in, a conversation has one row, under its partner,   *)
(* from the first message that arrives on, whoever wrote the message; no   *)
(* row belongs to anybody else.  get_partner_id looks at the account at    *)
(* that moment, not at the one whose inbox this is.                        *)
OneRowEach ==
  signedIn =>
    \A u \in Users :
      /\ rows[u] # NoRow => rows[u][1] = u
      /\ rows[u] # NoRow <=>
           u \in Partners /\ \E i \in DOMAIN heard[u] : <<u, i>> \notin Asked

(* The row holds the last message of its list among those that arrived, as *)
(* long as no reconnect sent two listens of that list again.  After one it *)
(* may hold an older message for good: the last answer wins.               *)
RowFollowsList ==
  signedIn =>
    \A p \in Partners \ shuffled : \A i \in DOMAIN heard[p] :
      rows[p] # NoRow /\ <<p, i>> \notin Asked => i <= rows[p][2]

ShownPartner(c) == PartnerId(MessageAt(shown[c]))

(* With its profile answered and no event left, a cell shows the name of   *)
(* its row's partner, although it goes on observing the partners of its    *)
(* earlier rows; except a cell that got the row while the profile of an    *)
(* earlier one was missing, which may keep the wrong name for good.        *)
NameMatchesRow ==
  signedIn =>
    \A c \in Cells \ overtaken :
      shown[c] # NoRow /\ events[c] = <<>> /\ Profile(ShownPartner(c)) \notin Asked
        => name[c] = ShownPartner(c)

(* A laid out table shows rows as they are, and none that does not fit is  *)
(* newer than one on the screen.                                           *)
ScreenShowsNewest ==
  ~dirty =>
    LET onScreen == {shown[c] : c \in Cells} \ {NoRow}
        inTable  == {rows[u] : u \in Filled}
    IN /\ onScreen \subseteq inTable
       /\ \A r \in onScreen, q \in inTable \ onScreen : MessageAt(r).time >= MessageAt(q).time

(* Inbox implements Conversations: a row skips no message and never goes   *)
(* back, unless a reconnect mixed messages it had yet to show; after a     *)
(* forced sign-out only the row of Me with Me can be lost.                 *)
said == [p \in Partners |-> Len(heard[p])]
row  == [p \in Partners |-> IF rows[p][1] = p THEN rows[p][2] ELSE 0]

C == INSTANCE Conversations WITH open <- signedIn, said <- said, row <- row, mixed <- shuffled
ImplementsConversations == C!Spec

(* A message whose key was raised gets its partner a row, through any      *)
(* connection losses, unless Me is signed out by force or the app ends.    *)
HeardGetsRow == \A p \in Partners : heard[p] # <<>> ~> rows[p] # NoRow \/ ~signedIn \/ ~alive

(* Every row on the screen gets the name of its partner.                   *)
RowGetsName ==
  \A c \in Cells :
    shown[c] # NoRow ~>
      \/ ~signedIn \/ ~alive \/ shown[c] = NoRow \/ c \in overtaken
      \/ name[c] = ShownPartner(c)
=============================================================================
