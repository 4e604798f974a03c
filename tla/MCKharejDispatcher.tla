------------------------ MODULE MCKharejDispatcher ------------------------
(* Instances of KharejDispatcher for TLC. *)
EXTENDS KharejDispatcher, TLC

\* Job ids, deliveries and task identities are only compared for equality.
Symmetry == Permutations(Jobs) \cup Permutations(Deliveries) \cup Permutations(Runs)
=============================================================================
