---------------------------- MODULE MCGuestMutex ----------------------------
(* Two threads, two mutexes, blocks of two slots: a race needs the second  *)
(* block, slots are given back and taken again, and a mutex is copied over *)
(* one that was destroyed.                                                 *)
EXTENDS GuestMutex, TLC

Symmetries == Permutations(Threads) \cup Permutations(Mutexes)
=============================================================================
