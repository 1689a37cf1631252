---------------------------- MODULE MCThreadPool ----------------------------
(***************************************************************************)
(* Instances of ThreadPool for TLC.  Two workers and two slots are the     *)
(* smallest pool in which a signal can reach the wrong sleeper, a slot is  *)
(* reused while another is occupied, and one worker drains while another   *)
(* exits; a third worker may sleep meanwhile.  With three descriptors the  *)
(* queue fills while main holds one more.                                  *)
(***************************************************************************)
EXTENDS ThreadPool
=============================================================================
