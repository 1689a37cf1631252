------------------------------ MODULE MCServer ------------------------------
(***************************************************************************)
(* Instances of Server for TLC.  One queue slot and two workers: with      *)
(* three descriptors a connection is queued behind a busy worker while     *)
(* main holds another that the full queue refuses, and a descriptor that   *)
(* was closed is returned by accept again.                                 *)
(***************************************************************************)
EXTENDS Server
=============================================================================
