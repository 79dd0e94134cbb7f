---------------------------- MODULE MCEventStream ----------------------------
(***************************************************************************)
(* EventStream for TLC: one viewer stands for all, since viewers change    *)
(* nothing another one sees, and the nodes are interchangeable.            *)
(***************************************************************************)
EXTENDS EventStream, TLC

Symmetry == Permutations(Nodes)

=============================================================================
