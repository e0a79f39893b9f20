-------------------------------- MODULE Mail --------------------------------
(***************************************************************************)
(* What sending a text promises, without the database, the connections or  *)
(* the order of the writes: a message goes through fixed stages, one at a  *)
(* time, and never back.  A message may stop for good at any stage before  *)
(* the last, when its sender's app dies.                                   *)
(***************************************************************************)
EXTENDS Integers

CONSTANTS
  Ids,     \* the message keys
  Denials  \* TRUE iff the sender's list may be refused its key

VARIABLES
  stage,  \* how far each message got
  own     \* the messages somebody sent to themselves

vars == <<stage, own>>

Init == stage = [id \in Ids |-> "unsent"] /\ own = {}

Move(id, from, to) == stage[id] = from /\ stage' = [stage EXCEPT ![id] = to]

Send(id) == Move(id, "unsent", "sent") /\ own' \in {own, own \cup {id}}

(* The message itself is in the database.                                  *)
Store(id) == Move(id, "sent", "stored") /\ UNCHANGED own

(* Its sender can find it.                                                 *)
File(id) == Move(id, "stored", "filed") /\ UNCHANGED own

(* Its recipient can find it; to oneself, the two lists are one.  The      *)
(* sender can find it first, unless rules refused the sender's list.       *)
Deliver(id) ==
  /\ \/ id \notin own /\ Move(id, "filed", "delivered")
     \/ (id \in own \/ Denials) /\ Move(id, "stored", "delivered")
  /\ UNCHANGED own

Next == \E id \in Ids : Send(id) \/ Store(id) \/ File(id) \/ Deliver(id)

Spec == Init /\ [][Next]_vars
=============================================================================
