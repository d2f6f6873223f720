--------------------------- MODULE MCControlStore ---------------------------
(***************************************************************************)
(* ControlStore on a small instance: one incident of tenant t1 exists.     *)
(***************************************************************************)
EXTENDS ControlStore, TLC

CONSTANTS t1, i1

MCExisting == i1 :> t1
Symmetry == Permutations(Requests) \cup Permutations(Keys)
              \cup Permutations(ActionDigests)
=============================================================================
