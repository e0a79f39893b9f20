------------------------------ MODULE Registry ------------------------------
(***************************************************************************)
(* What registering promises, without screens, queues or requests: an      *)
(* account is described by the one registration that created it, in the    *)
(* process it was created in, once, and for good.  An account whose        *)
(* registration was given up or cut short stays without a profile for      *)
(* ever: its name is taken, and nothing else writes profiles.              *)
(***************************************************************************)
CONSTANTS
  Users,  \* the users who can have an account
  None    \* nobody

VARIABLES
  life,    \* how far the account of each user got
  pending  \* whose account a registration is still to describe

vars == <<life, pending>>

Init == life \in [Users -> {"none", "whole"}] /\ pending = None

Become(u, from, to) == life[u] = from /\ life' = [life EXCEPT ![u] = to]

(* The account is there; whoever asked for it may never learn that.        *)
Create(u) == Become(u, "none", "bare") /\ pending = None /\ pending' \in {u, None}

Describe(u) == Become(u, "bare", "writing") /\ pending = u /\ pending' = None

Store(u) == Become(u, "writing", "whole") /\ UNCHANGED pending

(* The server refuses the profile, and nobody learns of it.                *)
Refuse(u) == Become(u, "writing", "bare") /\ UNCHANGED pending

GiveUp == pending' = None /\ UNCHANGED life

(* A process that ends forgets what it did not store yet.                  *)
Restart ==
  /\ life' = [u \in Users |-> IF life[u] = "writing" THEN "bare" ELSE life[u]]
  /\ pending' = None

Next ==
  \/ GiveUp \/ Restart
  \/ \E u \in Users : Create(u) \/ Describe(u) \/ Store(u) \/ Refuse(u)

Spec == Init /\ [][Next]_vars
=============================================================================
