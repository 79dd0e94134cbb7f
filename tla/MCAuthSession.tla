---------------------------- MODULE MCAuthSession ----------------------------
(***************************************************************************)
(* AuthSession for TLC: tabs are interchangeable, and so are requests.     *)
(***************************************************************************)
EXTENDS AuthSession, TLC

Symmetry == Permutations(Tabs) \cup Permutations(Requests)

=============================================================================
