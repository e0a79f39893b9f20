----------------------------- MODULE MCPictures -----------------------------
(* An instance of Pictures for TLC.                                        *)
EXTENDS Pictures

CONSTANTS an, chi
=============================================================================
