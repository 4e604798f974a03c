---------------------------- MODULE MCUserAccess ----------------------------
(* Instances of UserAccess for TLC.                                        *)
EXTENDS UserAccess, TLC

CONSTANTS alice, bob

\* Slots are interchangeable.
SlotSymmetry == Permutations(Sessions)
=============================================================================
