------------------------------- MODULE MCFeed -------------------------------
(* Instances of Feed for TLC. *)
EXTENDS Feed, TLC

CONSTANTS u1, u2, c1, c2, t1, t2

\* Tabs of a user are alike.
TabsAlike == Permutations(Tabs)

=============================================================================
