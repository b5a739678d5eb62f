----------------------------- MODULE MCProcess ------------------------------
(***************************************************************************)
(* Process for TLC, with either platform and client and any failures.      *)
(***************************************************************************)
EXTENDS Process

AllSettings == Setting
=============================================================================
