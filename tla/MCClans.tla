------------------------------- MODULE MCClans -------------------------------
(* Two clans of two members at most; the users are interchangeable. *)
EXTENDS Clans, TLC

Users == Permutations(User)
=============================================================================
