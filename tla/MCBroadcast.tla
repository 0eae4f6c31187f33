----------------------------- MODULE MCBroadcast -----------------------------
(* Small instances of Broadcast. *)
EXTENDS Broadcast, TLC

BroadcastSymmetry == Permutations(Workers) \cup Permutations(Targets)
=============================================================================
