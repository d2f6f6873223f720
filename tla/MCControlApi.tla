---------------------------- MODULE MCControlApi ----------------------------
(***************************************************************************)
(* ControlApi on a small instance, starting from an empty database.        *)
(***************************************************************************)
EXTENDS ControlApi, TLC

MCExisting == [i \in {} |-> None]
Symmetry == Permutations(Requests) \cup Permutations(Keys)
=============================================================================
