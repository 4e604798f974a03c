----------------------------- MODULE MCIranJobs -----------------------------
(* Instances of IranJobs for TLC.                                          *)
EXTENDS IranJobs, TLC

CONSTANTS j1, j2, j3, alice, bob, root

VARIABLE way  \* what kind of behaviour this is

\* Three submitters, one of them an admin who is never queued.
MixedOwners == [j \in Jobs |-> IF j = j1 THEN root ELSE IF j = j2 THEN alice ELSE bob]

\* Slots are interchangeable.
SlotSymmetry == Permutations(Sessions)

mcVars == <<vars, way>>

MCInit == Init /\ way \in {"overlapping", "faulty"}

\* Sessions overlap and nothing fails.  Of the two kinds of cancellation, of
\* report that revives a job and of report that ends one, one of each occurs.
OverlappingNext ==
  /\ way = "overlapping"
  /\ \/ \E s \in Sessions, j \in Jobs :
          /\ Arrival(s, j)
          /\ session'[s].op \in {"create", "cancel", "accepted", "failed"}
     \/ \E s \in Sessions : SessionStep(s)
  /\ faults' = 0
  /\ UNCHANGED way

\* One session after the other, over two jobs, and anything may fail.
FaultyNext ==
  /\ way = "faulty"
  /\ Next
  /\ \A s, t \in Sessions : (Open(s) /\ Open(t))' => s = t
  /\ born'[j1] = 0
  /\ UNCHANGED way

MCNext == OverlappingNext \/ FaultyNext

MCSpec == MCInit /\ [][MCNext]_mcVars
=============================================================================
