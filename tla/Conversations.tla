---------------------------- MODULE Conversations ----------------------------
(***************************************************************************)
(* What a list of conversations promises, without listens, cells or the    *)
(* connection: the row of a conversation shows one of its messages and     *)
(* goes on to the next, skipping none.  Only what a conversation has yet   *)
(* to show can be mixed, and only the row of Me with Me can be lost, to    *)
(* messages that are filed while nobody is signed in.                      *)
(***************************************************************************)
EXTENDS Integers

CONSTANTS
  Me,       \* the user whose conversations these are
  Partners  \* those they converse with

VARIABLES
  open,  \* Me is signed in
  said,  \* how many messages of each conversation were heard of
  row,   \* which of them its row shows, by its place; 0 for no row
  mixed  \* the conversations that may show their messages in any order

vars == <<open, said, row, mixed>>

Init ==
  /\ open = TRUE
  /\ said = [p \in Partners |-> 0] /\ row = [p \in Partners |-> 0]
  /\ mixed = {}

Hear(p) == said' = [said EXCEPT ![p] = @ + 1] /\ UNCHANGED <<open, row, mixed>>

(* Signed out, messages that Me wrote get no row here and are passed over. *)
Show(p) ==
  /\ \E i \in 1..said[p] :
       /\ i = row[p] + 1 \/ (~open /\ i > row[p]) \/ p \in mixed
       /\ row' = [row EXCEPT ![p] = i]
  /\ UNCHANGED <<open, said, mixed>>

(* A connection is lost with more than one message of each on its way.     *)
Mix ==
  /\ \E S \in SUBSET {p \in Partners : said[p] > row[p] + 1} : mixed' = mixed \cup S
  /\ UNCHANGED <<open, said, row>>

SignOut == open /\ open' = FALSE /\ UNCHANGED <<said, row, mixed>>

Misfile ==
  /\ ~open /\ Me \in Partners
  /\ row' = [row EXCEPT ![Me] = 0]
  /\ UNCHANGED <<open, said, mixed>>

Next ==
  \/ \E p \in Partners : Hear(p) \/ Show(p)
  \/ Mix \/ SignOut \/ Misfile

Spec == Init /\ [][Next]_vars
=============================================================================
