------------------------------ MODULE MCBPTree ------------------------------
(***************************************************************************)
(* Instances of BPTree for TLC.  Keys are inserted in every order into a  *)
(* tree of the code's order.  The tenth key is the first that can split an *)
(* internal node; with four keys the root leaf is split.                   *)
(***************************************************************************)
EXTENDS BPTree

Keys4 == 1 .. 4
Keys10 == 1 .. 10
=============================================================================
