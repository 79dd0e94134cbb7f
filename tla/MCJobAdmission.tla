--------------------------- MODULE MCJobAdmission ---------------------------
(***************************************************************************)
(* JobAdmission for TLC.  Requests are interchangeable, and so are issues. *)
(***************************************************************************)
EXTENDS JobAdmission, TLC

Symmetry == Permutations(Requests) \cup Permutations(Issues)

=============================================================================
