-------------------------- MODULE ProxyPoolProofs --------------------------
(***************************************************************************)
(* Proofs about ProxyPool, for any lists, hosts, downloads and bounds: the *)
(* pool agrees with its records, and neither it nor its copy on the disk   *)
(* becomes empty again.                                                    *)
(***************************************************************************)
EXTENDS ProxyPool, TLAPS

Counts == 0 .. MaxFailures - 1

\* The pool and the disk hold records of proxies that are not evicted, and a
\* refresh that has begun has found or put a proxy into the pool.
Matched == records \in [working -> Counts]
Stored  == disk \in [DOMAIN disk -> Counts]
Filled  == phase # "none" => working # {}

PoolInv == Matched /\ Stored /\ Filled /\ restarts \in Nat

-----------------------------------------------------------------------------
(* Records.                                                                *)

LEMMA ZeroCounts == 0 \in Counts
BY BoundsAreNat DEF Counts

LEMMA BackupAdded ==
  ASSUME NEW S, NEW recs \in [S -> Counts]
  PROVE  WithBackup(recs) \in [S \cup {Backup} -> Counts]
<1>1. CASE Backup \in S
  <2>1. S \cup {Backup} = S /\ WithBackup(recs) = recs
    BY <1>1 DEF WithBackup
  <2> QED
    BY <2>1
<1>2. CASE Backup \notin S
  BY <1>2, ZeroCounts DEF WithBackup
<1> QED
  BY <1>1, <1>2

LEMMA PoolEnsured ==
  ASSUME Matched, EnsureBackup
  PROVE  Matched' /\ working' # {}
BY BackupAdded DEF Matched, EnsureBackup

\* A function of an inhabited pool is no empty file.
LEMMA NotEmpty ==
  ASSUME NEW S, NEW recs \in [S -> Counts], S # {}
  PROVE  recs # NoRecords
<1>1. DOMAIN recs = S /\ DOMAIN NoRecords = {}
  BY DEF NoRecords
<1> QED
  BY <1>1

\* What a step has to keep; a restart empties the pool where the disk is.
Kept ==
  /\ Matched' /\ Stored' /\ Filled'
  /\ working # {} /\ UNCHANGED restarts => working' # {}
  /\ disk # NoRecords => disk' # NoRecords

LEMMA SavedStored ==
  ASSUME Matched', working' # {}, disk' = records'
  PROVE  Stored' /\ disk' # NoRecords
<1>1. records' \in [working' -> Counts] /\ DOMAIN records' = working'
  BY DEF Matched
<1>2. disk' # NoRecords
  BY <1>1, NotEmpty
<1>3. disk' \in [DOMAIN disk' -> Counts]
  BY <1>1
<1> QED
  BY <1>2, <1>3 DEF Stored

-----------------------------------------------------------------------------
(* The refresh.                                                            *)

LEMMA InitPool == Init => PoolInv
<1> SUFFICES ASSUME Init PROVE PoolInv
  OBVIOUS
<1>1. disk \in [DOMAIN disk -> Counts]
  BY ZeroCounts DEF Init, NoRecords
<1> QED
  BY <1>1 DEF Init, PoolInv, Matched, Stored, Filled

LEMMA ElsewhereKept ==
  ASSUME PoolInv, UNCHANGED <<pool, disk>>, phase' = phase \/ phase' = "none" \/ working # {}
  PROVE  Kept
BY DEF PoolInv, Kept, Matched, Stored, Filled, pool

LEMMA AcquireKeeps ==
  ASSUME PoolInv, NEW r \in Refreshers, Acquire(r)
  PROVE  Kept
<1>1. Matched' /\ working' # {}
  <2>1. CASE working = {}
    BY <2>1, PoolEnsured DEF PoolInv, Acquire
  <2>2. CASE working # {}
    BY <2>2 DEF PoolInv, Acquire, pool, Matched
  <2> QED
    BY <2>1, <2>2
<1>2. (disk' = records') \/ disk' = disk
  BY DEF Acquire
<1>3. Stored' /\ (disk # NoRecords => disk' # NoRecords)
  BY <1>1, <1>2, SavedStored DEF PoolInv, Stored
<1> QED
  BY <1>1, <1>3 DEF Kept, Filled

LEMMA FetchKeeps ==
  ASSUME PoolInv, FetchNothing \/ Fetch
  PROVE  Kept
<1>1. working # {}
  BY DEF PoolInv, Filled, FetchNothing, Fetch
<1>2. UNCHANGED <<pool, disk>>
  BY <1>1 DEF FetchNothing, Fetch, pool
<1> QED
  BY <1>1, <1>2, ElsewhereKept

LEMMA ValidKeeps ==
  ASSUME PoolInv, NEW u \in Public, Valid(u)
  PROVE  Kept
<1> DEFINE recorded == [x \in DOMAIN records \cup {u} |-> IF x = u THEN 0 ELSE records[x]]
<1>1. recorded \in [working \cup {u} -> Counts]
  BY ZeroCounts DEF PoolInv, Matched
<1>2. WithBackup(recorded) \in [(working \cup {u}) \cup {Backup} -> Counts]
  BY <1>1, BackupAdded
<1>3. /\ \/ records' = recorded /\ working' = working \cup {u}
         \/ records' = WithBackup(recorded) /\ working' = working \cup {u, Backup}
      /\ disk' = disk \/ disk' = records'
  BY DEF Valid
<1> HIDE DEF recorded
<1>4. working \cup {u, Backup} = (working \cup {u}) \cup {Backup}
  OBVIOUS
<1>5. Matched' /\ working' # {}
  BY <1>1, <1>2, <1>3, <1>4 DEF Matched
<1>6. Stored' /\ (disk # NoRecords => disk' # NoRecords)
  BY <1>3, <1>5, SavedStored DEF PoolInv, Stored
<1> QED
  BY <1>5, <1>6 DEF Kept, Filled

LEMMA ValidatedKeeps ==
  ASSUME PoolInv, Validated
  PROVE  Kept
<1>1. working # {}
  BY DEF PoolInv, Filled, Validated
<1>2. \/ EnsureBackup /\ (disk' = records' \/ disk' = disk)
      \/ UNCHANGED <<pool, disk>>
  BY DEF Validated
<1>3. Matched' /\ working' # {}
  <2>1. CASE EnsureBackup
    BY <2>1, PoolEnsured DEF PoolInv
  <2>2. CASE UNCHANGED <<pool, disk>>
    BY <1>1, <2>2 DEF PoolInv, Matched, pool
  <2> QED
    BY <1>2, <2>1, <2>2
<1>4. Stored' /\ (disk # NoRecords => disk' # NoRecords)
  BY <1>2, <1>3, SavedStored DEF PoolInv, Stored
<1> QED
  BY <1>3, <1>4 DEF Kept, Filled

\* What the refresh found valid replaces the pool, with the backup.
LEMMA CommitKeeps ==
  ASSUME PoolInv, Commit
  PROVE  Kept
<1> DEFINE new == [u \in valid |-> IF u \in DOMAIN records THEN records[u] ELSE 0]
<1>1. new \in [valid -> Counts]
  BY ZeroCounts DEF PoolInv, Matched
<1>2. WithBackup(new) \in [valid \cup {Backup} -> Counts]
  BY <1>1, BackupAdded
<1>3. records' = WithBackup(new) /\ working' = valid \cup {Backup} /\ disk' = disk
  BY DEF Commit
<1> HIDE DEF new
<1>4. Matched' /\ working' # {}
  BY <1>2, <1>3 DEF Matched
<1> QED
  BY <1>3, <1>4 DEF PoolInv, Kept, Stored, Filled

LEMMA SaveLastKeeps ==
  ASSUME PoolInv, SaveLast
  PROVE  Kept
<1>1. UNCHANGED pool /\ disk' \in {records, disk} /\ working # {}
  BY DEF PoolInv, SaveLast, Filled
<1>2. Matched' /\ working' # {} /\ records' = records
  BY <1>1 DEF PoolInv, Matched, pool
<1>3. Stored' /\ (disk # NoRecords => disk' # NoRecords)
  BY <1>1, <1>2, SavedStored DEF PoolInv, Stored
<1> QED
  BY <1>2, <1>3 DEF Kept, Filled

-----------------------------------------------------------------------------
(* Downloads.                                                              *)

LEMMA ScanKeeps ==
  ASSUME PoolInv, NEW j \in Jobs, ScanStep(j)
  PROVE  Kept
<1>1. CASE ScanEmpty(j)
  <2>1. Matched' /\ working' # {}
    BY <1>1, PoolEnsured DEF PoolInv, ScanEmpty
  <2> QED
    BY <1>1, <2>1 DEF ScanEmpty, PoolInv, Kept, Stored, Filled
<1>2. CASE ScanBackup(j) \/ ScanPublic(j) \/ Rescan(j)
  BY <1>2, ElsewhereKept DEF ScanBackup, ScanPublic, Rescan, refresh
<1> QED
  BY <1>1, <1>2 DEF ScanStep

LEMMA SucceedsKeeps ==
  ASSUME PoolInv, NEW j \in Jobs, Succeeds(j)
  PROVE  Kept
<1>1. records' \in [working -> Counts]
  BY ZeroCounts DEF PoolInv, Matched, Succeeds
<1>2. working' = working /\ disk' = disk /\ phase' = phase
  BY DEF Succeeds, refresh
<1> QED
  BY <1>1, <1>2 DEF PoolInv, Kept, Matched, Stored, Filled

\* A failure counts, or evicts: the backup then takes the place of the last.
LEMMA FailsKeeps ==
  ASSUME PoolInv, NEW j \in Jobs, Fails(j)
  PROVE  Kept
<1> DEFINE u == held[j]
           kept == Restrict(records, DOMAIN records \ {u})
<1>1. records \in [working -> Counts] /\ MaxFailures \in Nat
  BY BoundsAreNat DEF PoolInv, Matched
<1>2. kept \in [working \ {u} -> Counts]
  BY <1>1 DEF Restrict
<1>3. \/ UNCHANGED pool
      \/ /\ u \in working /\ records[u] + 1 < MaxFailures
         /\ records' = [records EXCEPT ![u] = @ + 1] /\ working' = working
      \/ working = {u} /\ records' = WithBackup(kept) /\ working' = {Backup}
      \/ /\ u \in working /\ working # {u}
         /\ records' = kept /\ working' = working \ {u}
  BY DEF Fails, MarkFailed
<1>4. disk' = disk /\ phase' = phase
  BY DEF Fails, refresh
<1> HIDE DEF u, kept
<1>5. CASE UNCHANGED pool
  BY <1>4, <1>5, ElsewhereKept
<1>6. CASE /\ u \in working /\ records[u] + 1 < MaxFailures
           /\ records' = [records EXCEPT ![u] = @ + 1] /\ working' = working
  <2>1. records[u] + 1 \in Counts
    BY <1>1, <1>6 DEF Counts
  <2>2. records' \in [working -> Counts]
    BY <1>1, <1>6, <2>1
  <2> QED
    BY <1>4, <1>6, <2>2 DEF PoolInv, Kept, Matched, Stored, Filled
<1>7. CASE working = {u} /\ records' = WithBackup(kept) /\ working' = {Backup}
  <2>1. records' \in [(working \ {u}) \cup {Backup} -> Counts]
    BY <1>2, <1>7, BackupAdded
  <2>2. (working \ {u}) \cup {Backup} = {Backup}
    BY <1>7
  <2> QED
    BY <1>4, <1>7, <2>1, <2>2 DEF PoolInv, Kept, Matched, Stored, Filled
<1>8. CASE /\ u \in working /\ working # {u}
           /\ records' = kept /\ working' = working \ {u}
  BY <1>2, <1>4, <1>8 DEF PoolInv, Kept, Matched, Stored, Filled
<1> QED
  BY <1>3, <1>5, <1>6, <1>7, <1>8

LEMMA RestartKeeps ==
  ASSUME PoolInv, Restart
  PROVE  Kept
<1>1. restarts' # restarts
  BY DEF Restart, PoolInv
<1> QED
  BY <1>1 DEF Restart, PoolInv, Kept, Matched, Stored, Filled

-----------------------------------------------------------------------------
LEMMA NextKeeps == PoolInv /\ [Next]_vars => Kept
<1> SUFFICES ASSUME PoolInv, [Next]_vars PROVE Kept
  OBVIOUS
<1>1. CASE Start \/ PeriodicDue
  BY <1>1, ElsewhereKept DEF Start, PeriodicDue
<1>2. ASSUME NEW j \in Jobs, Skip(j) \/ Begin(j) PROVE Kept
  BY <1>2, ElsewhereKept DEF Skip, Begin, refresh
<1>3. ASSUME NEW u \in Public, Invalid(u) PROVE Kept
  BY <1>3, ElsewhereKept DEF Invalid
<1>4. CASE UNCHANGED vars
  BY <1>4, ElsewhereKept DEF vars, refresh
<1>5. CASE RefreshStep
  BY <1>3, <1>5, FetchKeeps, ValidatedKeeps, CommitKeeps, SaveLastKeeps, ValidKeeps DEF RefreshStep
<1> QED
  BY <1>1, <1>2, <1>4, <1>5, AcquireKeeps, ScanKeeps, SucceedsKeeps, FailsKeeps, RestartKeeps
  DEF Next

LEMMA RestartsCounted == restarts \in Nat /\ [Next]_vars => restarts' \in Nat
<1> SUFFICES ASSUME restarts \in Nat, [Next]_vars PROVE restarts' \in Nat
  OBVIOUS
<1>1. CASE Start \/ PeriodicDue \/ UNCHANGED vars
  BY <1>1 DEF Start, PeriodicDue, vars
<1>2. CASE RefreshStep
  BY <1>2 DEF RefreshStep, FetchNothing, Fetch, Validated, Commit, SaveLast, Invalid, Valid
<1>3. ASSUME NEW r \in Refreshers, Acquire(r) PROVE restarts' \in Nat
  BY <1>3 DEF Acquire
<1>4. ASSUME NEW j \in Jobs, Skip(j) \/ ScanStep(j) \/ Begin(j) \/ Succeeds(j) \/ Fails(j)
      PROVE  restarts' \in Nat
  BY <1>4 DEF Skip, ScanStep, ScanEmpty, ScanBackup, ScanPublic, Rescan, Begin, Succeeds, Fails
<1>5. CASE Restart
  BY <1>5 DEF Restart
<1> QED
  BY <1>1, <1>2, <1>3, <1>4, <1>5 DEF Next

LEMMA PoolInductive == Spec => []PoolInv
<1>1. PoolInv /\ [Next]_vars => PoolInv'
  BY NextKeeps, RestartsCounted DEF Kept, PoolInv
<1> QED
  BY InitPool, <1>1, PTL DEF Spec

\* Every proxy of the pool has a record and every record a proxy, and no proxy
\* stays that has failed MaxFailures times in a row, whatever refreshes,
\* evictions and restarts come between (proxy_manager.py:970-1117, 1245-1391).
THEOREM PoolCorrect == Spec => []PoolMatchesRecords
<1>1. PoolInv => PoolMatchesRecords
  BY BoundsAreNat DEF PoolInv, Matched, Counts, PoolMatchesRecords
<1> QED
  BY PoolInductive, <1>1, PTL

\* Neither the pool nor its file becomes empty again
\* (proxy_manager.py:1046-1117, 1229-1239, 1344-1376).
THEOREM PoolStaysFilled == Spec => PoolNeverEmpties
<1>1. PoolInv /\ [Next]_vars =>
        [/\ (working # {} /\ UNCHANGED restarts) => working' # {}
         /\ disk # NoRecords => disk' # NoRecords]_vars
  BY NextKeeps DEF Kept
<1> QED
  BY PoolInductive, <1>1, PTL DEF Spec, PoolNeverEmpties
=============================================================================
