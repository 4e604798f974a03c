----------------------------- MODULE ProxyPool -----------------------------
(***************************************************************************)
(* The proxy pool of the worker (kharej/proxy_manager.py) and the downloads *)
(* that borrow from it (kharej/downloaders/*.py).                           *)
(*                                                                         *)
(* Refreshes run in threads, one at a time under _refresh_lock: the         *)
(* periodic one, the background one and those of the downloads that found   *)
(* the pool low and wait for a refresh of their own.  While a refresh       *)
(* fetches and validates, downloads go on taking proxies from the pool and  *)
(* evicting them.  An action is what the code does under _lock, or on the   *)
(* event loop between two awaits.                                           *)
(*                                                                         *)
(* A proxy is a pair <<scheme, host>>.  Of its record only the consecutive  *)
(* failures are kept.  The speed and the counters that weigh the random     *)
(* choice are left out, so any eligible proxy may be chosen, and so is the  *)
(* time of the last validation, so any record may be fresh or stale when it *)
(* is looked at.                                                            *)
(***************************************************************************)
EXTENDS Naturals, FiniteSets, Functions

CONSTANTS
  Hosts,
  Sources,        \* the scraped sources and the raw lists
  Offers,         \* Offers[s]: the <<scheme, host>> entries source s lists
  Jobs,           \* downloads
  Backup,         \* _BACKUP_PROXY_URL
  SocksSupport,   \* PySocks is installed
  MaxFailures,    \* _MAX_CONSECUTIVE_PROXY_FAILURES
  MinHealthy,     \* _MIN_HEALTHY_POOL_SIZE
  MaxCandidates,  \* _MAX_VALIDATE_CANDIDATES
  WriteEvery,     \* _CACHE_WRITE_EVERY_VALID_PROXY
  MaxAttempts,    \* _MAX_PROXY_RETRIES
  MaxRestarts,    \* bound on the restarts of the worker
  None

HttpSchemes  == {"http", "https"}
SocksSchemes == {"socks4", "socks5"}
Public == ({"http"} \cup SocksSchemes) \X Hosts

ASSUME BackupIsLocal == Backup \notin Public
ASSUME BoundsAreNat ==
  /\ {MinHealthy, MaxCandidates, MaxRestarts} \subseteq Nat
  /\ {MaxFailures, WriteEvery, MaxAttempts} \subseteq Nat \ {0}
ASSUME NoneIsNothing == None \notin Public \cup {Backup} \cup Jobs \cup {"periodic", "background"}

VARIABLES
  looping,    \* _task: the periodic refresh loop exists
  working,    \* _working, as a set
  records,    \* _proxy_records: the consecutive failures of each proxy
  disk,       \* state/proxies.json
  waiting,    \* threads that want _refresh_lock
  holder,     \* the thread that has it
  phase,      \* where the refresh of the holder is
  todo,       \* candidates that are not validated yet
  valid,      \* incremental_validated
  unsaved,    \* pending_cache_writes
  broken,     \* a cache write failed in a validation thread
  jpc,        \* jpc[j]: where download j is
  held,       \* held[j]: the proxy of its attempt
  attempt,    \* attempt[j], 0 before the first
  restarts

pool    == <<working, records>>
refresh == <<waiting, holder, phase, todo, valid, unsaved, broken>>
jobs    == <<jpc, held, attempt>>
vars    == <<looping, pool, disk, refresh, jobs, restarts>>

-----------------------------------------------------------------------------
(* Records and lists.                                                      *)

Refreshers == {"periodic", "background"} \cup Jobs
Urls   == Public \cup {Backup}

\* What a source's entries become: https entries are http proxies, and other
\* schemes are dropped.
Normalized(entries) ==
  {<<IF e[1] \in HttpSchemes THEN "http" ELSE e[1], e[2]>> :
     e \in {x \in entries : x[1] \in HttpSchemes \cup SocksSchemes}}

\* The sources that answer within _FETCH_ALL_TIMEOUT, merged.
Fetched(answered) == UNION {Normalized(Offers[s]) : s \in answered}

\* _prepare_validation_candidates: SOCKS entries only with PySocks, http
\* entries first, and at most MaxCandidates of them.
Candidates(urls) ==
  LET http  == {u \in urls : u[1] = "http"}
      socks == IF SocksSupport THEN {u \in urls : u[1] \in SocksSchemes} ELSE {}
  IN {c \in SUBSET (http \cup socks) :
        /\ Cardinality(c) <= MaxCandidates
        /\ Cardinality(c) = MaxCandidates \/ c = http \cup socks
        /\ c \cap socks # {} => http \subseteq c}

WithBackup(recs) == IF Backup \in DOMAIN recs THEN recs
                    ELSE [u \in DOMAIN recs \cup {Backup} |->
                            IF u = Backup THEN 0 ELSE recs[u]]

\* _ensure_backup_proxy_locked
EnsureBackup ==
  /\ records' = WithBackup(records)
  /\ working' = working \cup {Backup}

\* What get_proxy() may draw: a public proxy (from the fresh ones if there
\* are any) and else the backup.
Eligible == IF working \subseteq {Backup} THEN working ELSE working \ {Backup}

\* fresh_working_count(), for any of the proxies being stale.
FreshCounts == 0 .. Cardinality(working)
Healthy == \E n \in FreshCounts : n >= MinHealthy
Low     == \E n \in FreshCounts : n < MinHealthy

NoRecords == [u \in {} |-> 0]

Idle == [j \in Jobs |-> "idle"]

Init ==
  /\ looping = FALSE
  /\ disk \in {NoRecords} \cup {[u \in {p} |-> 0] : p \in Public}
  /\ records = disk
  /\ working = DOMAIN disk
  /\ waiting = {}
  /\ holder = None
  /\ phase = "none"
  /\ todo = {}
  /\ valid = {}
  /\ unsaved = 0
  /\ broken = FALSE
  /\ jpc = Idle
  /\ held = [j \in Jobs |-> None]
  /\ attempt = [j \in Jobs |-> 0]
  /\ restarts = 0

-----------------------------------------------------------------------------
(* The refresh loop.                                                       *)

\* _trigger_background_refresh: a no-op while the task of the last one is
\* not done.
Trigger == waiting' = IF holder = "background" THEN waiting
                      ELSE waiting \cup {"background"}

\* start() does nothing, not even the refresh at startup, when a download
\* has already made the loop.
Start ==
  /\ ~looping
  /\ looping' = TRUE
  /\ Trigger
  /\ UNCHANGED <<pool, disk, holder, phase, todo, valid, unsaved, broken, jobs, restarts>>

\* _refresh_loop wakes up; it waits for its own refresh to end.
PeriodicDue ==
  /\ looping
  /\ holder # "periodic"
  /\ "periodic" \notin waiting
  /\ waiting' = waiting \cup {"periodic"}
  /\ UNCHANGED <<looping, pool, disk, holder, phase, todo, valid, unsaved,
                 broken, jobs, restarts>>

\* The end of a download's attempts.
Over(j) ==
  /\ jpc' = [jpc EXCEPT ![j] = "idle"]
  /\ held' = [held EXCEPT ![j] = None]
  /\ attempt' = [attempt EXCEPT ![j] = 0]

\* Mutant: an exception leaves _refresh_lock taken.
ReleaseOnSuccess(ok) ==
  /\ holder' = IF ok THEN None ELSE holder
  /\ phase' = "none"
  /\ todo' = {}
  /\ valid' = {}
  /\ unsaved' = 0
  /\ broken' = FALSE
  /\ IF holder \notin Jobs THEN UNCHANGED jobs
     ELSE IF ok THEN jpc' = [jpc EXCEPT ![holder] = "refreshed"] /\ UNCHANGED <<held, attempt>>
     ELSE Over(holder)

\* The end of _refresh_locked; ok is FALSE if an exception leaves it,
\* which ends the download that waited for the refresh.
Release(ok) ==
  /\ holder' = None
  /\ phase' = "none"
  /\ todo' = {}
  /\ valid' = {}
  /\ unsaved' = 0
  /\ broken' = FALSE
  /\ IF holder \notin Jobs THEN UNCHANGED jobs
     ELSE IF ok THEN jpc' = [jpc EXCEPT ![holder] = "refreshed"] /\ UNCHANGED <<held, attempt>>
     ELSE Over(holder)

\* _refresh_locked: a download that waited while another refilled the pool
\* goes on at once.
Skip(j) ==
  /\ holder = None
  /\ j \in waiting \cap Jobs
  /\ Healthy
  /\ waiting' = waiting \ {j}
  /\ jpc' = [jpc EXCEPT ![j] = "refreshed"]
  /\ UNCHANGED <<looping, pool, disk, holder, phase, todo, valid, unsaved,
                 broken, held, attempt, restarts>>

\* The lock is taken.  _refresh puts the backup into an empty pool and saves
\* the pool; an error of the disk ends the refresh.
Acquire(r) ==
  /\ holder = None
  /\ r \in waiting
  /\ r \in Jobs => Low
  /\ waiting' = waiting \ {r}
  /\ IF working = {} THEN EnsureBackup ELSE UNCHANGED pool
  /\ \/ /\ disk' = records'
        /\ holder' = r
        /\ phase' = "fetching"
        /\ UNCHANGED jobs
     \/ /\ IF r \in Jobs THEN Over(r) ELSE UNCHANGED jobs
        /\ UNCHANGED <<disk, holder, phase>>
  /\ UNCHANGED <<looping, todo, valid, unsaved, broken, restarts>>

\* Nothing fetched: the refresh ends and the pool stays as it is.  (Its
\* check for an empty pool finds none: the pool never empties.)
FetchNothing ==
  /\ phase = "fetching"
  /\ \E answered \in SUBSET Sources : Fetched(answered) = {}
  /\ IF working = {} THEN EnsureBackup /\ disk' = records' ELSE UNCHANGED <<pool, disk>>
  /\ Release(TRUE)
  /\ UNCHANGED <<looping, waiting, restarts>>

Fetch ==
  /\ phase = "fetching"
  /\ \E answered \in SUBSET Sources :
       /\ Fetched(answered) # {}
       /\ todo' \in Candidates(Fetched(answered))
  /\ phase' = "validating"
  /\ UNCHANGED <<looping, pool, disk, waiting, holder, valid, unsaved, broken,
                 jobs, restarts>>

\* A candidate is too slow, or does not answer.
Invalid(u) ==
  /\ phase = "validating"
  /\ u \in todo
  /\ todo' = todo \ {u}
  /\ UNCHANGED <<looping, pool, disk, waiting, holder, phase, valid, unsaved,
                 broken, jobs, restarts>>

\* _record_valid_proxy: the proxy can be used at once.  Every WriteEvery
\* proxies the backup is ensured and the pool is saved; an error of the disk
\* then ends the refresh when the other checks are done.
Valid(u) ==
  /\ phase = "validating"
  /\ u \in todo
  /\ todo' = todo \ {u}
  /\ valid' = valid \cup {u}
  /\ LET recorded == [x \in DOMAIN records \cup {u} |-> IF x = u THEN 0 ELSE records[x]]
     IN IF unsaved + 1 < WriteEvery
        THEN /\ records' = recorded
             /\ working' = working \cup {u}
             /\ unsaved' = unsaved + 1
             /\ UNCHANGED <<disk, broken>>
        ELSE /\ records' = WithBackup(recorded)
             /\ working' = working \cup {u, Backup}
             /\ \/ disk' = records' /\ unsaved' = 0 /\ UNCHANGED broken
                \/ unsaved' = WriteEvery - 1 /\ broken' = TRUE /\ UNCHANGED disk
  /\ UNCHANGED <<looping, waiting, holder, phase, jobs, restarts>>

\* All candidates are checked, and what is left unsaved is saved.  Without a
\* valid proxy the pool stays as it is.
Validated ==
  /\ phase = "validating"
  /\ todo = {}
  /\ \/ /\ ~broken
        /\ IF unsaved > 0 THEN EnsureBackup /\ disk' = records' ELSE UNCHANGED <<pool, disk>>
        /\ IF valid = {} THEN Release(TRUE)
           ELSE phase' = "committing" /\ UNCHANGED <<holder, todo, valid, unsaved, broken, jobs>>
     \/ /\ broken \/ unsaved > 0
        /\ IF ~broken THEN EnsureBackup ELSE UNCHANGED pool
        /\ Release(FALSE)
        /\ UNCHANGED disk
  /\ UNCHANGED <<looping, waiting, restarts>>

\* Mutant: the new pool is taken from what was validated and the records
\* from what is known.
CommitRecordsOfKnown ==
  /\ phase = "committing"
  /\ records' = WithBackup([u \in valid \cap DOMAIN records |-> records[u]])
  /\ working' = valid \cup {Backup}
  /\ phase' = "saving"
  /\ UNCHANGED <<looping, disk, waiting, holder, todo, valid, unsaved, broken,
                 jobs, restarts>>

\* The pool becomes what this refresh found valid.  A proxy that was evicted
\* since its validation comes back with a new record.
Commit ==
  /\ phase = "committing"
  /\ records' = WithBackup([u \in valid |-> IF u \in DOMAIN records THEN records[u] ELSE 0])
  /\ working' = valid \cup {Backup}
  /\ phase' = "saving"
  /\ UNCHANGED <<looping, disk, waiting, holder, todo, valid, unsaved, broken,
                 jobs, restarts>>

\* The last save is outside _lock: it may meet a download that evicts a
\* proxy, and its errors are only logged.
SaveLast ==
  /\ phase = "saving"
  /\ disk' \in {records, disk}
  /\ Release(TRUE)
  /\ UNCHANGED <<looping, pool, waiting, restarts>>

-----------------------------------------------------------------------------
(* Downloads.                                                              *)

\* The next attempt of a download: the last one uses the backup.
NextAttempt(j) ==
  /\ attempt' = [attempt EXCEPT ![j] = @ + 1]
  /\ IF attempt[j] + 1 = MaxAttempts
     THEN held' = [held EXCEPT ![j] = Backup] /\ jpc' = [jpc EXCEPT ![j] = "downloading"]
     ELSE held' = [held EXCEPT ![j] = None] /\ jpc' = [jpc EXCEPT ![j] = "scanning"]

Begin(j) ==
  /\ jpc[j] = "idle"
  /\ NextAttempt(j)
  /\ UNCHANGED <<looping, pool, disk, refresh, restarts>>

\* scan_and_get_proxy on an empty pool: the backup joins it and is used.  (A
\* refresh may slip in between its get_proxy() and its look at the counts,
\* which matters no more than the age of the records.)
ScanEmpty(j) ==
  /\ jpc[j] = "scanning"
  /\ working = {}
  /\ looping' = TRUE
  /\ EnsureBackup
  /\ held' = [held EXCEPT ![j] = Backup]
  /\ jpc' = [jpc EXCEPT ![j] = "downloading"]
  /\ Trigger
  /\ UNCHANGED <<disk, holder, phase, todo, valid, unsaved, broken, attempt, restarts>>

\* Only the backup is left: it is used at once, and a refresh goes on in the
\* background.
ScanBackup(j) ==
  /\ jpc[j] = "scanning"
  /\ working = {Backup}
  /\ looping' = TRUE
  /\ held' = [held EXCEPT ![j] = Backup]
  /\ jpc' = [jpc EXCEPT ![j] = "downloading"]
  /\ Trigger
  /\ UNCHANGED <<pool, disk, holder, phase, todo, valid, unsaved, broken, attempt, restarts>>

\* A public proxy; if the pool is low, the download first waits for a refresh.
ScanPublic(j) ==
  /\ jpc[j] = "scanning"
  /\ looping' = TRUE
  /\ \E u \in working \ {Backup} : held' = [held EXCEPT ![j] = u]
  /\ \/ Healthy /\ jpc' = [jpc EXCEPT ![j] = "downloading"] /\ UNCHANGED waiting
     \/ Low /\ jpc' = [jpc EXCEPT ![j] = "refreshing"] /\ waiting' = waiting \cup {j}
  /\ UNCHANGED <<pool, disk, holder, phase, todo, valid, unsaved, broken, attempt, restarts>>

\* The refresh that the download waited for is over: it draws again.
Rescan(j) ==
  /\ jpc[j] = "refreshed"
  /\ held' \in {[held EXCEPT ![j] = u] : u \in IF working = {} THEN {held[j]} ELSE Eligible}
  /\ jpc' = [jpc EXCEPT ![j] = "downloading"]
  /\ UNCHANGED <<looping, pool, disk, refresh, attempt, restarts>>

\* mark_proxy_succeeded
Succeeds(j) ==
  /\ jpc[j] = "downloading"
  /\ records' = [u \in DOMAIN records |->
                   IF u = held[j] THEN 0 ELSE records[u]]
  /\ Over(j)
  /\ UNCHANGED <<looping, working, disk, refresh, restarts>>

\* Mutant: the last proxy is evicted and nothing takes its place.
MarkFailedOnly(u) ==
  IF u = Backup \/ u \notin DOMAIN records \/ u \notin working THEN UNCHANGED pool
  ELSE IF records[u] + 1 < MaxFailures
  THEN records' = [records EXCEPT ![u] = @ + 1] /\ UNCHANGED working
  ELSE records' = Restrict(records, DOMAIN records \ {u}) /\ working' = working \ {u}

\* mark_proxy_failed: evicts after MaxFailures failures in a row, but never
\* the backup, and never leaves the pool empty.
MarkFailed(u) ==
  IF u = Backup \/ u \notin DOMAIN records \/ u \notin working THEN UNCHANGED pool
  ELSE IF records[u] + 1 < MaxFailures
  THEN records' = [records EXCEPT ![u] = @ + 1] /\ UNCHANGED working
  ELSE LET kept == Restrict(records, DOMAIN records \ {u})
       IN IF working = {u}
          THEN records' = WithBackup(kept) /\ working' = {Backup}
          ELSE records' = kept /\ working' = working \ {u}

\* The attempt fails; the download tries again, or gives up after the last.
Fails(j) ==
  /\ jpc[j] = "downloading"
  /\ MarkFailed(held[j])
  /\ IF attempt[j] < MaxAttempts THEN NextAttempt(j) ELSE Over(j)
  /\ UNCHANGED <<looping, disk, refresh, restarts>>

\* The worker is killed or stopped, and started again: the pool is loaded
\* from the disk and the downloads are gone.
Restart ==
  /\ restarts < MaxRestarts
  /\ restarts' = restarts + 1
  /\ looping' = FALSE
  /\ records' = disk
  /\ working' = DOMAIN disk
  /\ waiting' = {}
  /\ holder' = None
  /\ phase' = "none"
  /\ todo' = {}
  /\ valid' = {}
  /\ unsaved' = 0
  /\ broken' = FALSE
  /\ jpc' = Idle
  /\ held' = [j \in Jobs |-> None]
  /\ attempt' = [j \in Jobs |-> 0]
  /\ UNCHANGED disk

RefreshStep ==
  \/ FetchNothing \/ Fetch \/ Validated \/ Commit \/ SaveLast
  \/ \E u \in Public : Invalid(u) \/ Valid(u)

ScanStep(j) ==
  ScanEmpty(j) \/ ScanBackup(j) \/ ScanPublic(j) \/ Rescan(j)

Next ==
  \/ Start
  \/ PeriodicDue
  \/ \E r \in Refreshers : Acquire(r)
  \/ \E j \in Jobs : Skip(j)
  \/ RefreshStep
  \/ \E j \in Jobs : ScanStep(j) \/ Begin(j) \/ Succeeds(j) \/ Fails(j)
  \/ Restart

Spec == Init /\ [][Next]_vars

\* Every request of a refresh has a timeout, so a refresh ends.  A free
\* _refresh_lock is not taken from the same waiting thread for ever: the
\* periodic refresh sleeps 15 minutes between two of its own.
FairSpec ==
  /\ Spec
  /\ WF_vars(RefreshStep)
  /\ \A j \in Jobs :
       /\ WF_vars(ScanStep(j))
       /\ SF_vars(Acquire(j) \/ Skip(j))

-----------------------------------------------------------------------------
(* Properties.                                                             *)

\* What the variables hold.
TypeOK ==
  /\ looping \in BOOLEAN /\ broken \in BOOLEAN
  /\ working \subseteq Urls
  /\ \A recs \in {records, disk} :
       /\ DOMAIN recs \subseteq Urls
       /\ recs \in [DOMAIN recs -> 0 .. MaxFailures]
  /\ waiting \subseteq Refreshers
  /\ holder \in Refreshers \cup {None}
  /\ phase \in {"none", "fetching", "validating", "committing", "saving"}
  /\ todo \subseteq Public /\ valid \subseteq Public
  /\ unsaved \in 0 .. WriteEvery - 1
  /\ jpc \in [Jobs -> {"idle", "scanning", "refreshing", "refreshed", "downloading"}]
  /\ held \in [Jobs -> Urls \cup {None}]
  /\ attempt \in [Jobs -> 0 .. MaxAttempts]
  /\ restarts \in 0 .. MaxRestarts

\* "Every proxy in _working always has a corresponding record" (get_proxy),
\* the reverse, and no proxy stays that has failed too often, although
\* refreshes and evictions interleave and both are loaded from the disk.
PoolMatchesRecords ==
  /\ working = DOMAIN records
  /\ \A u \in DOMAIN records : records[u] < MaxFailures

\* The pool and its copy on the disk never become empty again, so a download
\* never goes without a proxy, after a restart either.
PoolNeverEmpties ==
  [][/\ (working # {} /\ UNCHANGED restarts) => working' # {}
     /\ disk # NoRecords => disk' # NoRecords]_vars

\* A download that asks for a proxy gets one or an error: it does not wait
\* for ever behind the refreshes of others.
ScansReturn == \A j \in Jobs : (jpc[j] = "scanning") ~> (jpc[j] \in {"downloading", "idle"})
=============================================================================
