---------------------------- MODULE MCPlaylists ----------------------------
(* Two users, two goroutines, three lists, two songs, one list a user. *)
EXTENDS Playlists, TLC

CONSTANTS ann, bob, p1, p2, i1, i2, i3, t1, t2

Symmetry == Permutations(Users) \cup Permutations(Procs)
                \cup Permutations(Ids) \cup Permutations(Tracks)
=============================================================================
