------------------------------ MODULE MCInbox ------------------------------
(* An instance of Inbox for TLC.                                           *)
EXTENDS Inbox

CONSTANTS an, binh
=============================================================================
