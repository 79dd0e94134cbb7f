----------------------------- MODULE OwnerQuota -----------------------------
(***************************************************************************)
(* What admission promises an owner: a job is let in only while fewer than *)
(* Limit jobs hold a slot, and every slot comes back once.  The bookkeeping *)
(* may slip, and each slip (a slot counted free while it is held) lets one *)
(* job more in; nothing else does.                                         *)
(***************************************************************************)
EXTENDS Naturals, FiniteSets

CONSTANTS Jobs, Limit

VARIABLES
    holders,        \* the jobs that hold a slot
    slips           \* slots the bookkeeping has lost sight of

Init == holders = {} /\ slips = 0

Admit(j) ==
    /\ j \notin holders
    /\ Cardinality(holders) < Limit + slips
    /\ holders' = holders \cup {j}
    /\ UNCHANGED slips

Return(j) ==
    /\ j \in holders
    /\ holders' = holders \ {j}
    /\ UNCHANGED slips

Slip ==
    /\ slips' > slips
    /\ UNCHANGED holders

Next == Slip \/ \E j \in Jobs : Admit(j) \/ Return(j)

Spec == Init /\ [][Next]_<<holders, slips>>

=============================================================================
