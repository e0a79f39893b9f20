# Verification of AppChat_Again

TLA+ models of the iOS chat app under `AppChat_Again/AppChat_Again`, model-checked
with TLC and, in part, proved with TLAPS. Paths below are relative to that
directory unless they start with `Pods/` (`AppChat_Again/Pods`).

The app is small (1.6 k lines of Swift, most of it layout) and has no tests. What
makes it hard is that it keeps almost no state of its own: every screen reacts to
callbacks of the Firebase SDKs, which arrive on queues, in orders and after
changes the code does not look at again. The models therefore put the app's
handlers together with the part of FIRAuth and of the database client that
decides when those handlers run; both are in the repository as CocoaPods.

## 1. Inventory

| component | state | operations | module |
|---|---|---|---|
| Sign-in state, `Pods/FirebaseAuth/.../FIRAuth.m` | user in memory, copy in the keychain, listeners and the user each saw last, blocks dispatched to the main queue | load at start, sign-in, createUser, signOut, forced sign-out, token refresh, notification | `AuthState` |
| Login screen, `Register & Login/login.swift` | one state listener per screen, requests in flight | `logim`, `move_to_register`, `is_logined` | `Session` |
| Register screen, `Register & Login/Register.swift` | progress of the registration, the modal spinner | `register_to_firebase` and its three nested completions; the image picker | `Session` |
| Inbox screen, `mess_controller/message_controller.swift` | uid captured in `viewDidLoad`, whether the Logout button is there, the list of conversations | `get_current_user_from_firebase`, `handle_logout`, `didSelectRowAt`, `get_data_table_user_mess_from_firebase` | `Session` (account, navigation), `Delivery` (`didSelectRowAt`), `Inbox` (the list) |
| Chat screen, `chat_message/chat_collect.swift` | the partner, the bubbles, three levels of observers | `send_mess_to_firebase`, `get_mess_from_firebase`, `upload_image_to_firebase`, cells, zoom | `Delivery` (texts), `Pictures` (images, cells); zoom is not modelled |
| Database client, `Pods/FirebaseDatabase/.../FRepo.m`, `FPersistentConnection.m`, `FSyncTree.m` | outstanding writes, listens, local view of the data | put, acknowledge, disconnect, restore, raise events | `Delivery` (writes), `Inbox` (listens) |
| New-message screen, `New_mesage/new_message.swift` | list of users | observe `user`, open a chat | `Delivery` (opening a chat); the list is not modelled |
| Image views, `Design_UI/UI_View.swift` | process-wide cache, downloads under way | `load_image` | `Pictures` |
| Inbox cell, `Design_UI/cell_message_controller.swift` | one message, profile observers | `didSet`, `get_data_user_from_firebase` | `Inbox` |
| Chat cell, `chat_message/cell_chat_message.swift` | the image view that reuse carries over | zoom delegate | `Pictures` (the image view) |
| Message and user values, `Design_UI/Mess.swift`, `User.swift` | plain values | `get_partner_id` reads the current user | `Inbox` |
| App delegate, storyboard | root of the navigation stack | process start | `AuthState`, `Session` |
| Other pods (Storage, Analytics, leveldb, nanopb, ...) | - | - | not modelled, third party |

**How they interact.** Taps call FIRAuth and the database on the main thread.
FIRAuth changes its state on one serial work queue, appends a notification to the
main queue and, after it, the caller's completion. Each login screen registers a
listener that no screen ever removes; a listener pushes `message_controller`.
Every screen reads `Auth.auth().currentUser` when its callback runs, so what it
gets depends on what else has happened since. The database client applies a write
locally, keeps it in a queue until the server answers, sends the queue again after
each reconnect, and loses it with the process (the app does not enable
persistence). Observers are never removed either: a popped screen keeps running.

**What is hard**, and what correctness means there:

* *One device.* Two requests in flight and a forced sign-out interleave with four
  asynchronous steps of a registration. No listener may miss a change of user;
  what a restart finds in the keychain must be who was signed in; a profile must
  hold the data of its own account; the inbox must be the signed-in user's; the
  forced unwraps of `currentUser` and of the profile node must not meet nil.
* *Several devices.* A message and its two list entries are three writes, the
  last two sent from the completion of the first, with losses, resends, refusals
  and deaths in between. No reader may find a key before its message; the sender
  must find a message before its recipient does; nothing may be shown twice, or to
  a stranger; a text handed to the client must arrive unless the app dies.
* *Lists and reused views.* Rows, names and pictures are written by observers and
  downloads that were started for something else: an earlier row, an earlier
  message, an earlier account, an earlier connection. A row must hold the last
  message of its conversation, a cell the name of its row's partner, an image view
  the picture of its message; a picture must stay what its sender chose and go
  where it was chosen for.

`PROJECT.json` lists the hazards line by line, with the properties that cover
each.

## 2. Modules

### AuthState

The sign-in state machine of one process. Variables are named after the code:
`currentUser` is `_currentUser`, `seen[l]` the `previousUserID` that
`addAuthStateDidChangeListener` (FIRAuth.m 1246) captures for listener `l`,
`mainQ` the blocks given to `dispatch_async(dispatch_get_main_queue())`. One
action is one block of the work queue or of the main queue:

* `LoadUser` - the block `initWithAPIKey` queues first (387-425);
* `UpdateCurrentUser(user, force, saved, next)` - `updateCurrentUser:byForce:` with
  its save to the keychain, which may fail, and what the caller dispatches after
  it; `CompleteSignIn`, `RevokeUser` and `SignOutAndListen` are its callers;
* `RefreshToken` - a refresh posts as well, without a change of user;
* `RunMainQ` - one turn of the main queue: the listener whose turn it is (`Told`)
  compares the user that is current *now* with the one it saw (`Called`). A
  notification stays at the head of the queue until its last listener was told, one
  step each, because each asks the work queue for the current user on its own
  (1278) and the work queue may change it in between. `Telling` says that a
  notification is half told; no other block of the main thread runs then.

`phase` says whether the process is up; `Launch` and `End` start and end it. `End`
puts all memory of the process back to what a new one finds (`FreshProcess`): only
the keychain outlives it. `KeychainFails` lets keychain calls return errors.

### Registry and Session

`Registry` is what registering promises, without screens, queues or requests: an account
is created bare, described by the one registration that created it (`pending`), in the
process it was created in, and its node is then stored, once and for good. `Restart`
forgets a node that was not stored yet, `Refuse` is a server that does not take it;
`GiveUp` is any error on the way. None leaves a way back: a bare account that is not
pending stays bare. `life` and `pending` map
`Session` to it (`ImplementsRegistry`).

`Session` extends `AuthState` with the rest of one device: `nav` is the stack of
the navigation controller, `registration` the step `register_to_firebase` has
reached, `requests` how many sign-ins of each account are in flight,
`profile`/`unsent` the nodes under
`user/` on the server and in this process's outstanding writes, `leaked` the
inboxes that were popped and still observe. Each `@IBAction`, each completion and
each observer is one action; every action of `AuthState` is used in exactly one
way, which is what the refinement theorem rests on. `AuthState` is also its
abstract specification: `Session` implements it under the identity mapping.

`Auth.auth().currentUser` is a getter that waits for the work queue, so every read of
it is an action of its own. A listener that is called, or a registration whose link
has arrived, only pushes an inbox (`RunListener`, `LinkArrives`: `NewInbox` has no
reads); UIKit loads its view later, if nothing but inboxes covers it (`Showable`), and
`viewDidLoad` then reads the user once for the profile that brings the Logout button
(`Bar`, message_controller 74) and once for the list (`List`, 95). `reads` holds what
each found. Between the listener's read and the first of these, and between the two,
the work queue may sign the user out or another one in (`ReadUser`, `Loading`); other
blocks of the main thread wait (`Free`). A read that finds nobody registers no
observer. A third read (151) only sets a title and is left out.

A modal spinner covers all screens while `registration` is not idle
(`Touchable`). The back button of an inbox is there until its profile arrives and
`navigation_setup` puts Logout in its place. The write of a profile can be refused
(`ProfileRefused`): the client takes it back, and nobody looks at the error.

`Patient` chooses between two users. An impatient one taps Log in again, with the
same or another account, while an answer is pending - the button stays enabled.
A patient one waits for each request to settle. Several promises hold only for the
second, and the runs say which.

### Mail and Delivery

`Mail` is what sending a text promises: each message goes through unsent, sent,
stored, filed (its sender finds it), delivered (its recipient finds it), one stage
at a time and never back; it may stop anywhere if the sender's app dies. Rules that
refuse (`Denials`) may keep it out of the sender's list and not of the recipient's.

`Delivery` is how the app does it: `puts[u]` is `outstandingPuts` of u's client in
send order, `stored` the keys under `mess`, `listed[u][p]` the keys under
`usermess/u/p`, `bubbles[u]` is `array_mess`. The three observers of
`get_mess_from_firebase` are nested and none is ever removed: `known[u]` are the
partners the observer of `usermess/u` has in its view, `inner[u][p]` how many
observers of `usermess/u/p` it has installed, `added[u]` which of them was raised for
which key, `asked[u]` which of their `mess/<key>` observers wait (`PartnerAdded`,
`KeyAdded`, `ValueArrives`). A refused write of a list is reverted (`RevertKey`): the
keys only it added leave the views, and with the last key of a partner the partner;
nobody observes removals, so the inner observers stay, and a later text raises the
outer one again, which installs one more. `OneBubbleEach` therefore holds only where
nothing is refused; with refusals a chat draws a message at most once for each inner
observer (`OneBubblePerObserver`). The
server works off one connection's writes in order (`NextPut`), replies are handled
in order (`Acked`), a disconnect loses replies that were not handled
(`Disconnect`) and everything outstanding goes out again (`Reconnect`). `Stage`
maps this state to `Mail`; `ImplementsMail` is the refinement. A user may write to
themselves: the two lists are then one. `ListsHoldOwnTexts` is what `Inbox` starts
from (`Between`): whatever the observers under `usermess/u/p` can be told of, by the
server or by u's own writes, is stored and between u and p.

A chat opened from the inbox starts without its partner, which arrives by an
observer (`PartnerArrives`); one opened from the new-message screen has it from the
start (`ChooseUser`). A partner without a profile ends the process at `as! NSDictionary`
(`NoPartnerArrives`).

Abstractions: message contents, names and timestamps are left out; a message key
is the number of its send, since `childByAutoId` never repeats one. A write only
merges children and `mess` nodes never change, so applying one twice is the same
as once. `updateChildValues` under `usermess` is raised to one's own observers at
once (`OwnView`), the server's data with the connection (`Heard`). `faults` counts
connection losses, process deaths and refusals together. Chats that were left keep their observers in the app; the model
drops them with the screen, since they only add to bubbles nobody sees.

### Conversations and Inbox

`Conversations` is what the list promises, without listens, cells or connections: each
conversation has said so many messages, and its row shows one of them and goes on to
the next, skipping none and never back. The exceptions are actions of their own: `Mix`
lets a conversation that has more than one message yet to show take them in any order
from then on; after `SignOut` messages are passed over (those `Me` wrote are filed
elsewhere) and the row of `Me` with `Me` can be lost (`Misfile`). `Inbox` implements it:
`said[p]` is the length of `heard[p]`, `row[p]` the place in it of the message in
`rows[p]`, `mixed` is `shuffled` (`ImplementsConversations`).

The list of conversations of one account, `Me`, as long as its process lives.
`heard[p]` are the messages whose keys `childAdded` has raised under
`usermess/Me/p`, in order; what may be listed there is what `Delivery` files,
messages between `Me` and `p` (`Between`, proved of `Delivery` as
`ListsHoldOwnTexts`), and `Me` may be a partner of their own.
`wire` are the listens of the database client without an answer, in the order they
were sent: `mess/<key>` for each key heard, `user/<uid>` for each partner a cell
was first configured with. The server answers one connection in order (`Answered`);
a connection loss drops what it had not answered, and `restoreState` sends every
listen again in the order of a dictionary (`Reconnect`).

`ValueArrives` is the innermost observer of
`get_data_table_user_mess_from_firebase`: `rows` is `message_dictionary`,
`Tables` are the arrays its sort may leave (equal timestamps in any order: the
dictionary has none), `dirty` says that `reloadData` was called. `Layout` is the
table view asking for its rows afterwards: it gives the first rows to cells of the
reuse pool (any cell may get any row), and each cell registers one more observer
(`Observes`). `ProfileArrives` raises the profile to each cell that observes it, as
a block of the main queue (`events`), and `NameSet` runs one: it sets `textLabel`
whatever row the cell has by then. `CellFails` ends the process (`alive`): a partner
without a profile, or, for the avatar a cell loads once it has a name, `url!` on the
empty address that `Register` stores when it got no link, or `data!` on a failed
download. Neither of the last two needs anything wrong with the account. `shuffled` and `overtaken` only remember what
the two exceptions of section 5 need.

Abstractions: a message is its sender, recipient and timestamp; a profile that
arrives does not change, since only `register_to_firebase` writes it, once; no write of
`Me`'s is refused, so each partner has one observer, as `Delivery` has it without
refusals; the table shows
as many rows as it has cells and is not scrolled; a tap on a row is
`Delivery.PartnerArrives`. `Familiar` are profiles some other screen of the process
observes already. A forced sign-out (`Revoke`) leaves the inbox on the screen;
a Logout puts a login screen over it, which `Session` models.

### Pictures

`pictures[i]` is the i-th image chosen, by the account `by` in the chat with
`chat`, with the step `upload_image_to_firebase` has reached: uploading, stored,
linked (it has a URL), sent, filed (its key is listed for both sides), or failed or
lost with the process. `storage` is the bucket: the image under each name. A URL
is a path and a token; storing over an object gives it a new token, so a URL is
represented by the image it was made for and is `Served` while that image is the
one stored. One picture at a time may come from another device (`OthersStore`,
`OthersSend`), which matters because names are shared by everybody.

`Choose`, `Stored`, `Linked`, `Sent`, `Filed` are the completion handlers in order,
`Fails` each of their error returns, where the server may have stored the image
all the same, and `FiledForNobody` the forced unwraps of the last one. `Sent`
reads the account of that moment, and the chat's user if the observer of
`Delivery.PartnerArrives` has set it.

`views[v]` is an image view of the chat: the message its cell was configured for,
the image it shows, whether it is hidden. `ConfigureText`, `ConfigureEmpty`,
`ConfigurePicture` are the branches of `cellForItemAt`; `loads` are the downloads
of `load_image`, each on a queue of its own and holding the view it was started
for (`Gone`: its chat was left). `LoadEnds` fills the cache and writes into that
view; `LoadFails` is `data!`, a crash. `alive` is FALSE between a crash and
`Relaunch`; kills from outside add nothing to what a crash does and are left out.

Abstractions: the decoded image, its size and the activity indicator; the write
of the message and of its keys, which is that of a text (`Delivery`), is one step
each here; `load_image` sets an image outside the main thread, which UIKit
does not define: the model takes it to work. Avatars are loaded by the same
function, from cells of other screens.

### MC modules

`MCSession` and `MCDelivery` name the two users `an` and `binh` and declare them
interchangeable. Symmetry is used only in runs that check no liveness and no
refinement.
`MCInbox` and `MCPictures` only name users.

## 3. Runs

| run | question | bounds |
|---|---|---|
| `session` | impatient user, keychain that may fail, forced sign-outs between any two reads of the user: does any listener miss a change, do screens match listeners, what can crash them? | 2 accounts, 3 screens, 1 request and 1 queued block when a tap comes; 3.9 M states |
| `session_patient` | patient user, working keychain, fair queues: does the keychain follow the user, are inbox and profile one's own, can one inbox mix two accounts, does every listener learn of a sign-in, does a restart reopen the inbox, does a registration ever hang, does registering implement `Registry`? | the same; 211 k states without symmetry |
| `delivery` | refusals, self-chats, connection losses, deaths: dangling, misfiled or foreign keys, how often is a bubble drawn? | 2 users, 2 messages, 2 faults of any kind; 3.6 M states |
| `delivery_mail` | nothing refused: does sending implement `Mail`, does the sender find a message first, does a chat draw it once? | 2 users, 2 messages, 1 fault; 1.0 M states without symmetry |
| `delivery_live` | does a text arrive through losses, is it shown? | 1 message, 2 faults; 18 k states |
| `inbox` | does the list implement `Conversations`, does each conversation get one row, with its last message, and the name of its partner, through reordered listens, losses, a forced sign-out, crashes and reused cells? | 2 partners (one is `Me`), 1 cell, 3 keys, 2 timestamps, 2 losses; 740 k states |
| `pictures` | do pictures survive, go where they were chosen for, and appear where they belong; what can crash? | 1 account, 1 partner, 2 names, 2 pictures, 1 failure, 1 view, 2 downloads; 416 k states |
| `mixed_profile`, `moves_twice`, `no_move`, `register_crash`, `nobody` | expected violations, section 5 | |

**Why the bounds are enough.** Two accounts are what it takes for one to stand in
for the other. `MaxScreens`, `MaxQueue` and `MaxRequests` bound only what taps and
refreshes add: a tap needs a stack and a queue below the bound, while listeners,
completions and the registration push regardless, so stacks and queues grow past
them. Three screens are a login screen, an inbox over it and the login screen of its
Logout, or login, register and the inbox the listener pushes, from which taps still go
on; the inbox of the registration and those of two listeners come on top. One sign-in
beside a registration, forced sign-outs and a restart are enough for two requests to
meet; two sign-ins of the same or of different accounts in flight, with two blocks
waiting, are in the runs that look for violations (`MaxQueue` and `MaxRequests` 2),
where the whole space need not be searched. The proofs have no bounds.

Two messages let one overtake the other, share a list, or
go to different partners. With two faults a refusal can take a partner out of a list
and another refusal, loss or death hit what the next text does; the second inner
observer, and the second bubble, do occur (`OneBubbleEach` is violated in the instance
of `delivery`, after 14 steps). In `delivery_mail` the one loss or death falls between
any two of the six writes, and the second loss of the live run can hit the resend.
`Users`, `MaxMessages` and `MaxFaults` are the only bounds of `Delivery`.

In `inbox`, three keys make two of one list, which a reconnect may swap, and one of
another list between them; two timestamps are enough to disagree with the order of
keys; with one cell for two rows the cell is handed over, and the row it loses is
the one that does not fit. Two cells, over three keys and two timestamps (5.4 M
states, before crashes of cells were added), and two cells with a familiar profile
were checked for the invariants outside the listed runs, with the same outcome. In `pictures`, two pictures and two
names give both a name of one's own and a name drawn twice; the account can only be
replaced by nobody in the listed run, and a second account (1.8 M states) was checked
for the invariants with the same outcome. Two downloads overtake each other in one
view; one failure can hit any request.

Deadlock is checked in every run but `inbox`: a tap, a restart or a reconnect is
always possible. In `inbox` everything ends when nobody writes again, which is no
fault.

**Fairness.** `Session.FairSpec`: the main queue and the work queue keep running
while the process does, and a `viewDidLoad` that has begun ends; the SDK's requests of
a registration end in an answer or a time-out. What needs a free main thread, the
first read of the top screen and the link's completion, is enabled again and again
rather than always, as a notification with several listeners runs in between: both are
strongly fair, because the main queue serves in order and each pass of the run loop
lays the top screen out. Taps, kills, restarts, refreshes and forced sign-outs are not
fair: nobody is made to do them. `Delivery.FairSpec`: connections come back (the client retries for ever),
the server and the callback queue work. Nobody is made to type, to open a chat or
to start the app again; the liveness properties excuse a recipient who left.
`Inbox.FairSpec`: connections come back, listens are answered, the table is laid
out and the main queue runs; keys need not come and nobody loses the connection,
the account or the process by obligation. `Pictures.FairSpec`: each upload step and each download
ends, with a result or an error; nobody is made to choose, to scroll, to leave, to
sign in or out.

## 4. Theorems

For every set of users, every stack and every queue:

* `AuthCatchesUp` (`AuthStateProofs`): no listener is left behind. The property
  is not inductive alone: `LoadUser` posts only if it finds a user, so a listener
  that saw one before would be missed. The inductive invariant adds the types
  and `NothingLoadedYet` (nobody is signed in before the keychain is read). Each
  change of user posts a notification, which covers all listeners, also when it
  comes between two listeners of an earlier one; appending to
  the queue keeps what is pending; a turn updates exactly the listener it was for.
* `KeychainFollows`: with `~KeychainFails`, memory and keychain agree after the
  load.
* `TypeCorrect` (`SessionProofs`): types, and the root of the stack stays a login
  screen. `Back` needs the root: only register screens and inboxes are popped.
* `ImplementsAuthState`: `Spec => AuthSpec`, each action of the app mapped to
  an action of FIRAuth or a stutter; one step per action, under the types.
* `SessionCatchesUp`, `SessionKeychainFollows`: both results carried over to the
  whole app by that refinement.

* `ListenersMatchLogins`, `CrashesHaveBareAccount`
  (`AccountProofs`), whatever the user taps and whether the keychain fails or not:
  whoever is signed in, archived, read by an inbox or observed has an account
  (`AccountsKnown`), and from `createUser`'s answer to the link the new account has
  no node at all (`RegistrationFresh`), because the completion is dispatched once
  and only `LinkArrives` writes for it. So a link that arrives signed out points at the
  account it was for, and an observer that is given nothing at the one it observes:
  each without a node, stored or under way. This is about the screens of `Session`;
  the cells of an inbox crash for accounts that lack nothing (`Inbox.CellFails`).
* `PatientProfiles`, `PatientInboxes`, `PatientInboxesOfOneAccount` (`AccountProofs`),
  for a user who lets one
  request settle before the next: a registration has no sign-in beside it
  (`RegistrationAlone`), so the uid read after the upload can only have become
  nobody. Of the inboxes that are on top or can still be loaded, every read found the
  signed-in user, as long as somebody is signed in (`OwnOrNone`). While an answer is
  awaited no inbox is on top and no listener has news (`AwaitedQuietly`): a tap needs
  an empty main queue, where `ListenersCatchUp` says every listener saw the user, and
  later turns then push nothing. So no sign-in falls between a listener's read and
  those of the inbox it pushed, nor between those; a forced sign-out does, and makes
  the later reads find nobody. Inboxes on one another are one account's (`Sound`), so
  `Back` cannot uncover another's. `mixed_profile` shows that patience is needed.
* `PatientRegistryHolds` (`AccountProofs`), for the same user: `Session` refines
  `Registry`. The node written when the link arrives is that of the account `createUser`
  made (`RegistrationAlone`), which has none yet (`RegistrationFresh`), so no node is ever
  stored a second time; one that is under way was not there before (`WrittenOnce`), so a
  restart or a refusal makes its account bare again. `UserCreated` finds nothing pending, because a
  completion that waits belongs to an account that exists. Every other step keeps the
  registration's account or gives it up (`QuietRegisters`). With `NoProfileArrives` this
  is why an account that lost its registration crashes the inbox at every launch.

For every set of users, every number of texts, losses, refusals and deaths:

* `TypeCorrect`, `KeysFollowMessages`, `ValuesArePresent` (`DeliveryProofs`):
  the state is well-formed, no list and no outstanding write names a message that
  is not stored, no chat asks for one. What is needed besides is `PutsSound`: all
  that waits in u's client belongs to a text u sent, a key waits only for a stored
  text with a recipient, and only what is stored was answered "ok". Texts and
  stored messages only grow, so soundness survives steps of others; a disconnect
  makes a write unanswered, which asks less of it; and `FileKey` adds keys for a
  message whose write was answered.
* `SenderFindsFirstAlways` (`MailProofs`, for rules that refuse nothing): the sender
  finds a message first. The strengthening is `QueueFair`: a recipient's key that waits
  has the sender's key before it in the queue unless that is listed, and a sender's key
  answered "ok" is listed. The server takes writes in order, so the sender's was
  answered, hence listed, when the recipient's is applied.
* `DeliveryImplementsMail` (`MailProofs`, whatever the rules refuse): `Delivery` refines
  `Mail`. Applying a write moves its message exactly one stage on, or it was applied
  before a disconnect and the step is a stutter; a send moves one from unsent; nothing
  else changes what the stages are computed from (`Content`). What is stored was sent
  (`TextInv`), and only where nothing is refused the stage between needs `QueueFair`
  (`RulesInv` is the one, and the other unless `Denials`).
* `ListsAlwaysHoldOwnTexts` (`BubbleProofs`): a list names only stored messages between
  its two users (`ListsOwn`), and so does what a client raises from its own writes,
  because a write names the list of one end of its message whatever chat is open
  (`KeyIsOwn`, `ViewIsOwn`). This is the assumption `Inbox` makes of `Delivery`.
* `AlwaysOnlyOwnTexts` (`BubbleProofs`): a bubble's text was sent or received by the
  chat's user; with which partner is not said, since `get_mess_from_firebase` shows
  the messages with everybody. What a chat draws, asks for and was raised for comes
  from such lists (`ScreenOwn`), and texts never change (`TextsStay`).
* `AlwaysOneBubbleEach` (`BubbleProofs`), where the rules refuse nothing: then no view
  loses a partner (`NothingReverts`), so a partner in it has exactly one inner observer
  and one that is not has none; that observer is raised once for a key, and a
  message's key is listed for its two users only, so for one partner (`OnceInv`).
  Whatever is asked for or drawn was raised, hence is not raised again. With refusals
  it is false; `OneBubblePerObserver`, which holds then, counts, and is only
  model-checked.

For every finite set of partners and cells, whatever the clocks (`InboxProofs`):

* `TypeCorrect`: an answer is only awaited for a message that was heard or for a
  profile the client has not got, and for each once (`WireSound`). The layout is
  where this is at risk: it may ask for several profiles at once, and asks once for
  two rows with one partner because the second finds the first outstanding
  (`Fresh`; `FirstRow` finds the row that asks).
* `ConversationsHaveOneRow`: what is filed under a partner comes from that partner's
  list, because both of a message's users are `Me` and the partner (`HeardOwn`).
* `RowsFollowLists`: on a list no reconnect mixed, listens are outstanding in the
  order of the list (`SentInOrder`) and what was answered comes before what was not
  (`AnsweredFirst`), so an answer is never older than the row it replaces.
* `CellsNameTheirRow`: the property says nothing while an event is on the main queue,
  so it is not inductive. `NameReady` adds what is pending: of the profiles a cell
  observes at most its row's is missing, and it is asked for; once it is there, the
  last event of the cell is for it, or none is left and it was the last to set the
  name.
* `ScreensShowNewest`: a table that is laid out is a permutation of the rows
  (`Enumerated`, by counting), and cells get its first places (`PlacementShape`).
* `InboxImplementsConversations`: `Inbox` refines `Conversations`. A row holds an answered
  message of its own partner (`RowsPlaced`). On a list no reconnect mixed, what is
  outstanding is newer than the row (`PendingAhead`, from `AnsweredFirst`) and asked for
  in the order of the list, so while `Me` is signed in the next answer is for the message
  after the row's (`NoneSkipped`): had another been between, it would be outstanding
  before this one. A reconnect adds to `shuffled` only lists with two listens
  outstanding, which is `Mix`; all else hears a message or moves nothing. After a forced
  sign-out `get_partner_id` can put a message only under its sender, so only the row of
  `Me` gets one of another list.

For every set of users, names and views and every bound (`PicturesProofs`):

* `TypeCorrect`, `PicturesAlwaysSurvive`, `AlwaysSentAsChosen`, `CacheAlwaysTrue`,
  `ViewsShowWanted`, `CrashesHaveCause`, all from `PicturesInv`. What the six
  properties need besides themselves:
  * `NamesSound`: an image in the bucket has the name it is stored under, an
    upload that got past `putData` has some image under its name, and a URL is that
    of an image of the same name. So a name drawn once can give nothing but the
    image itself, and a refused URL proves that its name was drawn again;
  * `AddressesSound`: as long as nobody else signs in, an upload on its way belongs
    to the account that is signed in, which is what its completion will read;
  * `LoadsSound`: what is downloaded is the URL of a listed picture. Without it a
    refused download need not have had a redrawn name;
  * `ViewSound`: what is on its way to a view that is not `late` is only the URL of
    its picture, so whichever download ends last leaves the right one. The
    property alone says nothing while a download is under way, so it is not
    inductive.

  * `ShownAlwaysStays`, an action property, from the same invariant: a view that shows
    the picture of its message keeps it while it keeps the message. `cellForItemAt` sets
    the same picture from the cache (`CacheIsTrue`) or leaves it while it downloads
    again, and what ends for the view can only be its picture (`ViewSound`).

  The crashes that end the process put uploads into "lost" and empty the cache,
  which is where `CacheIsTrue` survives the placeholder.

Assumptions: `None` is not a user, `Unset` is neither, `KeychainFails` is a
Boolean; `Nobody` is not a user, `Denials` is a Boolean and false for
`SenderFindsFirstAlways` and `AlwaysOneBubbleEach`, `MaxMessages` and `MaxFaults` are
naturals; `Gone` is not a view, and
the bounds of `Pictures` are naturals; `PatientProfiles`, `PatientInboxes`,
`PatientInboxesOfOneAccount` and `PatientRegistryHolds` assume `Patient`; the partners and cells of `Inbox` are finite sets, its bounds naturals,
`Nobody` no user of it and `Familiar` a set of its users. Every invariant the runs
check is proved except `OneBubblePerObserver`, and so are the four refinements (`AuthSpec`, `Registry`, `Mail`,
`Conversations`) and the two action properties. Only model-checked besides, because liveness under
fairness is out of the prover's reach: the remaining temporal properties
(`SignInReachesListeners`, `LaunchOpensInbox`, `RegistrationStops`,
`OutstandingIsDelivered`, `ListedIsShown`, `HeardGetsRow`, `RowGetsName`, `UploadEnds`,
`WantedIsShown`).

## 5. Where code and comments part

* `mixed_profile` - `register_to_firebase` reads `currentUser` two round trips
  after `createUser`. If a sign-in started earlier on the login screen is answered
  meanwhile, the registered name, e-mail and password overwrite that account's
  profile. `session_patient` shows that it takes two requests in flight.
* `moves_twice` - the listener moves to the inbox on `createUser`, and
  `register_to_firebase` moves again; the comment at login.swift 88 warns of it.
* `no_move` - after Back from a loading inbox, signing in again as the same
  user calls no listener (the uid has not changed), and `logim`'s own move is
  commented out.
* `register_crash` - the listener's inbox unwraps `user/<uid>` before the
  registration has written it. If the process dies there, the account has no
  profile and every later launch crashes in the same place (`ImplementsRegistry`: it never
  gets one). `CrashHasBareAccount` shows that login, register and inbox screen crash
  over nothing but such an account; the cells of the inbox do (below).
* `nobody` - a text sent before the partner's profile arrives has `to_id` "",
  and its completion unwraps nil.

`InboxIsOwn` also needs the patient user: signing in with a second account while
the first inbox opens and going Back shows the first user's inbox. And
when `signOut` throws, `handle_logout` shows the login screen with the user still
signed in; the new listener then moves straight back (`ListenersCatchUp`).

No run of its own, but written into a property as the exception without which it
would not hold:

* an inbox cell crashes the app over accounts that lack nothing: `load_image` unwraps
  the URL of the avatar, which is "" when the registration got no link, and the data
  of a download, which may fail (`HeardGetsRow`, `RowGetsName`: `alive`);
* a chat draws a message twice once a refused write has taken a partner out of the
  list and a later text brought them back (`OneBubblePerObserver`, and `OneBubbleEach`
  only in `delivery_mail`);
* a forced sign-out while an inbox loads leaves it with the buttons of its user and no
  list, or with neither (`InboxOfOneAccount`, `InboxIsOwn`: a read may find nobody);
* every error path of `register_to_firebase` leaves the spinner over the screen
  until the app is killed (`RegistrationStops`: "abandoned");
* after a reconnect that sends two listens of one list again, the row may keep the
  older message until the next one arrives (`RowFollowsList`: `shuffled`). After a
  forced sign-out `get_partner_id` takes every message for one its sender wrote to
  the user, and messages `Me` wrote get a row under `Me` (`OneRowEach`);
* a cell that is given a row while the profile of an earlier row is missing shows
  the name that arrives last, for good (`NameMatchesRow`: `overtaken`);
* the same holds for an image view and its downloads (`ViewShowsWanted`, `ShownStays`:
  `late`);
* a name drawn twice replaces the earlier picture: its URL is refused, and the
  crash on a failed download then hits everybody who opens that chat
  (`PicturesSurvive`, `CrashHasCause`: `Redrawn`). If the second image is stored
  between the first one's upload and its `downloadURL`, the first message links
  the second picture;
* a picture is from whoever is signed in when its URL arrives (`SentAsChosen`:
  `switched`), and crashes the app if that is nobody;
* a download that fails for any reason crashes the app (`CrashHasCause`). The
  placeholder that `load_image` means to show was cached a line earlier; only the
  crash keeps it from being shown for good (`CacheIsTrue`).

## 6. Plan

*Done:* `AuthState`, `Registry`, `Session`, `Mail`, `Delivery`, `Conversations`, `Inbox`,
`Pictures`, and the proofs above: each module's types, every invariant of its runs, the
action properties and the refinements.

*Next:* an abstract specification of what choosing and showing a picture promises, with
`Pictures` shown to implement it.

## 7. Not modelled

* The zoom of a picture, sizes, constraints, titles, wording, date formats: layout
  and animation, with no state another handler depends on.
* The list of the new-message screen: one observer appends to it, nothing removes
  or reorders, and a tap takes what is there. What the tap does is in `Delivery`.
* The image picker, which is taken to hand over one image: a movie, which it also
  offers, ends the process at `as! UIImage` (chat_collect 383) before any state
  changes. Storyboard contents but the root.
* Providers of FIRAuth and features of the database client the app does not use;
  scheduling inside the SDKs below the order of their queues.
* The other pods (`leveldb`, `nanopb`, `GTMSessionFetcher`, `GoogleUtilities`,
  Analytics, ...). They are third-party code, and most of the repository's lines:
  the app's own 1.6 k lines of Swift are a few per cent of it. None of the C and
  C++ in the repository belongs to the app, so none is modelled; a pod appears here
  only where its behaviour decides when a handler of the app runs.
