---------------------------- MODULE MCAwaitPath -----------------------------
(***************************************************************************)
(* AwaitPath for TLC, on any file system.                                  *)
(***************************************************************************)
EXTENDS AwaitPath

AllSettings == Setting
=============================================================================
