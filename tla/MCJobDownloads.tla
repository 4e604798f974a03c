--------------------------- MODULE MCJobDownloads ---------------------------
(* Instances of JobDownloads for TLC.                                      *)
EXTENDS JobDownloads

\* An empty, a middling and a large file; with the limit 3 the order in which
\* they arrive decides how many parts there are.
ThreeSizes == <<0, 2, 4>>

\* The parts of an archive and the first track are uploaded in two chunks.
SizeOfKey == [k \in Keys |-> IF k[1] = "part" \/ k[2] = 1 THEN 2 ELSE 1]
=============================================================================
