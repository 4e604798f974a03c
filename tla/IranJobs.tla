------------------------------ MODULE IranJobs ------------------------------
(***************************************************************************)
(* The job table of the Iran site and everything that writes a job status: *)
(* the job API (iran/api/jobs.py), the admin's force-cancel                *)
(* (iran/api/admin.py), the handlers of the worker's reports and the       *)
(* one-hour expiry task (iran/main.py).                                    *)
(*                                                                         *)
(* Each of them is a coroutine with a database session of its own.  The    *)
(* database is PostgreSQL at READ COMMITTED: a query sees what others have *)
(* committed and what its own session has flushed; an UPDATE that is       *)
(* flushed locks the row until the session commits; SELECT ... FOR UPDATE  *)
(* SKIP LOCKED locks the row it returns and passes over rows locked by     *)
(* others.  SQLAlchemy keeps the status it loaded, flushes a session's     *)
(* changes before its next query or at commit, and writes the status       *)
(* column only if it differs from the loaded one.  An action is the code   *)
(* from one await (a query, a commit, a Rubika send) to the next.          *)
(*                                                                         *)
(* The worker is the environment: once a job.create of a job is out, any   *)
(* report about the job may come in, in any order and any number of times. *)
(***************************************************************************)
EXTENDS Naturals, FiniteSets

CONSTANTS
  Jobs,       \* ids of the jobs that are ever submitted
  Users,
  Owner,      \* Owner[j]: the user who submits job j
  Admins,     \* users with role "admin"
  Sessions,   \* coroutines that may be active at once; a slot is reused
  Requests,   \* the operations that occur (all of Ops, but for small instances)
  Limit,      \* the setting MAX_CONCURRENT_JOBS; 0 is unlimited
  MaxFaults,  \* bound on failed sends, aborted sessions and restarts together
  Null

ASSUME OwnerIsUser == Owner \in [Jobs -> Users]
ASSUME LimitIsNat == Limit \in Nat
ASSUME MaxFaultsIsNat == MaxFaults \in Nat
ASSUME RequestsAreOps ==
  Requests \subseteq {"create", "cancel", "force", "accepted", "progress",
                      "completed", "failed"}
ASSUME NullIsNothing == Null \notin Jobs \cup Sessions
ASSUME JobsFinite == IsFiniteSet(Jobs)

VARIABLES
  job,      \* job[j]: committed status of the row, "none" if there is no row
  lock,     \* lock[j]: the session that holds the row lock
  session,  \* session[s]: the coroutine in slot s
  born,     \* born[j]: created_at, as the rank of the start of its transaction
  creates,  \* creates[j]: how many job.create of j went out to the worker
  told,     \* told[j]: a job.cancel of j went out to the worker
  ttl,      \* jobs with a pending one-hour expiry task
  faults,   \* how many faults have happened
  stale     \* history: a session committed while another had looked at the job
            \* table and not yet committed

vars == <<job, lock, session, born, creates, told, ttl, faults, stale>>

-----------------------------------------------------------------------------
Dispatched == {"pending", "accepted", "running"}
Active     == Dispatched \cup {"queued"}
Terminal   == {"completed", "failed", "cancelled", "deleted"}
Statuses   == Active \cup Terminal \cup {"none"}

Reports  == {"accepted", "progress", "completed", "failed"}
Ops      == Reports \cup {"create", "cancel", "force", "expire"}
OpenPCs  == {"checking", "counting", "sending", "recalling", "flushing",
             "tallying", "picking", "promoting", "committing"}

\* The status that an operation other than create gives its job.
Target ==
  [cancel |-> "cancelled", force |-> "cancelled", accepted |-> "accepted",
   progress |-> "running", completed |-> "completed", failed |-> "failed",
   expire |-> "deleted"]

\* seen: the status loaded from the row; new: the one the session gives it;
\* picked: the queued job it has locked; promote: its job.create went out.
Idle == [pc |-> "idle", op |-> "none", job |-> Null, seen |-> "none",
         new |-> "none", picked |-> Null, promote |-> FALSE]

Open(s) == session[s].pc # "idle"

Init ==
  /\ job     = [j \in Jobs |-> "none"]
  /\ lock    = [j \in Jobs |-> Null]
  /\ session = [s \in Sessions |-> Idle]
  /\ born    = [j \in Jobs |-> 0]
  /\ creates = [j \in Jobs |-> 0]
  /\ told    = [j \in Jobs |-> FALSE]
  /\ ttl     = {}
  /\ faults  = 0
  /\ stale   = FALSE

-----------------------------------------------------------------------------
(* Helpers.                                                                *)

Start(s, op, j, pc, seen, new) ==
  session' = [session EXCEPT ![s] =
    [pc |-> pc, op |-> op, job |-> j, seen |-> seen, new |-> new,
     picked |-> Null, promote |-> FALSE]]

Goto(s, pc) == session' = [session EXCEPT ![s] =
  [pc |-> pc, op |-> session[s].op, job |-> session[s].job,
   seen |-> session[s].seen, new |-> session[s].new,
   picked |-> session[s].picked, promote |-> session[s].promote]]

Fault == faults < MaxFaults /\ faults' = faults + 1

Transmit(j) == creates' = [creates EXCEPT ![j] = @ + 1]

\* What session s sees in row j after its flush.
View(s, j) ==
  IF j = session[s].job /\ session[s].new # session[s].seen
  THEN session[s].new ELSE job[j]

\* Row j is not locked by a session other than s.
Lockable(s, j) == lock[j] \in {Null, s}

Release(s) == lock' = [j \in Jobs |-> IF lock[j] = s THEN Null ELSE lock[j]]

\* _get_running_job_count: every job dispatched to the worker.
Full(s) ==
  Limit > 0 /\ Cardinality({j \in Jobs : View(s, j) \in Dispatched}) >= Limit

\* The session ends without any of its changes.
Rollback(s) ==
  /\ session' = [session EXCEPT ![s] = Idle]
  /\ Release(s)
  /\ UNCHANGED <<job, born, creates, told, ttl, stale>>

-----------------------------------------------------------------------------
(* POST /jobs.                                                             *)

\* The first statement of the request (get_current_user) starts the
\* transaction, whose start time becomes created_at.
CreateBegin(s, j) ==
  /\ ~Open(s)
  /\ born[j] = 0
  /\ born' = [born EXCEPT ![j] = 1 + Cardinality({k \in Jobs : born[k] > 0})]
  /\ Start(s, "create", j, "checking", "none", "none")
  /\ UNCHANGED <<job, lock, creates, told, ttl, faults, stale>>

\* 429: rate limit, quota, or a job of the user is still active.
CreateRefused(s) ==
  /\ session[s].pc = "checking"
  /\ session' = [session EXCEPT ![s] = Idle]
  /\ UNCHANGED <<job, lock, born, creates, told, ttl, faults, stale>>

\* _check_user_active_job finds nothing; admins are exempt.
CreateAdmitted(s) ==
  LET u == Owner[session[s].job] IN
  /\ session[s].pc = "checking"
  /\ u \notin Admins => \A k \in Jobs : Owner[k] = u => job[k] \notin Active
  /\ Goto(s, "counting")
  /\ UNCHANGED <<job, lock, born, creates, told, ttl, faults, stale>>

\* The global limit decides the initial status; admins are never queued.
CreateDecides(s) ==
  LET j      == session[s].job
      queued == Owner[j] \notin Admins /\ Full(s)
  IN
  /\ session[s].pc = "counting"
  /\ IF queued THEN Start(s, "create", j, "committing", "none", "queued")
               ELSE Start(s, "create", j, "sending", "none", "pending")
  /\ UNCHANGED <<job, lock, born, creates, told, ttl, faults, stale>>

\* job.create goes out; the row is inserted when the request commits.
CreateSent(s) ==
  /\ session[s].pc = "sending"
  /\ Transmit(session[s].job)
  /\ Goto(s, "committing")
  /\ UNCHANGED <<job, lock, born, told, ttl, faults, stale>>

\* The send raises, whether or not the message got through: it is logged and
\* the row inserted all the same.
CreateSendFails(s) ==
  /\ session[s].pc = "sending"
  /\ Fault
  /\ UNCHANGED creates \/ Transmit(session[s].job)
  /\ Goto(s, "committing")
  /\ UNCHANGED <<job, lock, born, told, ttl, stale>>

-----------------------------------------------------------------------------
(* DELETE /jobs/{id} by the owner, DELETE /admin/jobs/{id} by an admin.    *)

\* 409 for what each of them takes for terminal: force_cancel_job forgets
\* "deleted".
Cancellable(op) ==
  IF op = "force" THEN Active \cup {"deleted"} ELSE Active

CancelBegin(s, op, j) ==
  /\ ~Open(s)
  /\ job[j] \in Cancellable(op)
  /\ Start(s, op, j, IF job[j] = "queued" THEN "flushing" ELSE "recalling",
           job[j], Target[op])
  /\ UNCHANGED <<job, lock, born, creates, told, ttl, faults, stale>>

\* Mutant: the worker is told in a background task, which may lag.
CancelSentLater(s) ==
  /\ session[s].pc = "recalling"
  /\ Goto(s, "flushing")
  /\ UNCHANGED <<job, lock, born, creates, told, ttl, faults, stale>>

CancelSent(s) ==
  /\ session[s].pc = "recalling"
  /\ told' = [told EXCEPT ![session[s].job] = TRUE]
  /\ Goto(s, "flushing")
  /\ UNCHANGED <<job, lock, born, creates, ttl, faults, stale>>

\* In force_cancel_job the error leaves the endpoint and rolls back.
ForceSendFails(s) ==
  /\ session[s].pc = "recalling"
  /\ session[s].op = "force"
  /\ Fault
  /\ \/ UNCHANGED told
     \/ told' = [told EXCEPT ![session[s].job] = TRUE]
  /\ session' = [session EXCEPT ![s] = Idle]
  /\ UNCHANGED <<job, lock, born, creates, ttl, stale>>

\* cancel_job logs a failed send and goes on.
CancelSendFails(s) ==
  /\ session[s].pc = "recalling"
  /\ session[s].op = "cancel"
  /\ Fault
  /\ \/ UNCHANGED told
     \/ told' = [told EXCEPT ![session[s].job] = TRUE]
  /\ Goto(s, "flushing")
  /\ UNCHANGED <<job, lock, born, creates, ttl, stale>>

-----------------------------------------------------------------------------
(* Reports of the worker, and the expiry of a completed job.               *)

\* job.accepted and job.progress: session.get, then the commit.  No handler
\* looks at the status it has loaded; a report about a job that has no row
\* (yet) is logged and dropped.
ReportBegin(s, op, j) ==
  /\ ~Open(s)
  /\ creates[j] > 0
  /\ job[j] # "none"
  /\ Start(s, op, j,
           IF op \in {"completed", "failed"} THEN "flushing" ELSE "committing",
           job[j], Target[op])
  /\ UNCHANGED <<job, lock, born, creates, told, ttl, faults, stale>>

\* An hour after job.completed the S2 objects are deleted; then the row is
\* loaded and marked, if it is still completed.
ExpireBegin(s, j) ==
  /\ ~Open(s)
  /\ j \in ttl
  /\ ttl' = ttl \ {j}
  /\ IF job[j] = "completed"
     THEN Start(s, "expire", j, "committing", job[j], Target["expire"])
     ELSE UNCHANGED session
  /\ UNCHANGED <<job, lock, born, creates, told, faults, stale>>

\* The deletion of the S2 objects raises: logged, never tried again.
ExpireFails(j) ==
  /\ j \in ttl
  /\ Fault
  /\ ttl' = ttl \ {j}
  /\ UNCHANGED <<job, lock, session, born, creates, told, stale>>

-----------------------------------------------------------------------------
(* _maybe_dequeue_next_job, run by cancel, force, completed and failed.    *)

\* Mutant: the slot that opens is not handed on.
FlushOnly(s) ==
  LET j == session[s].job IN
  /\ session[s].pc = "flushing"
  /\ Lockable(s, j)
  /\ lock' = [lock EXCEPT ![j] = s]
  /\ Goto(s, "committing")
  /\ UNCHANGED <<job, born, creates, told, ttl, faults, stale>>

\* The first query of the dequeue flushes the UPDATE of the session's own row.
Flush(s) ==
  LET j == session[s].job IN
  /\ session[s].pc = "flushing"
  /\ Lockable(s, j)
  /\ lock' = [lock EXCEPT ![j] = s]
  /\ Goto(s, "tallying")
  /\ UNCHANGED <<job, born, creates, told, ttl, faults, stale>>

\* job.failed repeated: no column changes, so nothing is flushed.
FlushNothing(s) ==
  /\ session[s].pc = "flushing"
  /\ session[s].op = "failed"
  /\ session[s].seen = "failed"
  /\ Goto(s, "tallying")
  /\ UNCHANGED <<job, lock, born, creates, told, ttl, faults, stale>>

Tally(s) ==
  /\ session[s].pc = "tallying"
  /\ Goto(s, IF Full(s) THEN "committing" ELSE "picking")
  /\ UNCHANGED <<job, lock, born, creates, told, ttl, faults, stale>>

\* Rows that the SELECT may return.
Waiting(s) == {j \in Jobs : View(s, j) = "queued" /\ Lockable(s, j)}

PickNone(s) ==
  /\ session[s].pc = "picking"
  /\ Waiting(s) = {}
  /\ Goto(s, "committing")
  /\ UNCHANGED <<job, lock, born, creates, told, ttl, faults, stale>>

Promoting(s, j) == session' = [session EXCEPT ![s] =
  [pc |-> "promoting", op |-> session[s].op, job |-> session[s].job,
   seen |-> session[s].seen, new |-> session[s].new,
   picked |-> j, promote |-> FALSE]]

\* Mutant: plain SELECT, as for SQLite.
PickUnlocked(s, j) ==
  /\ session[s].pc = "picking"
  /\ j \in Waiting(s)
  /\ \A k \in Waiting(s) : born[j] <= born[k]
  /\ Promoting(s, j)
  /\ UNCHANGED <<job, lock, born, creates, told, ttl, faults, stale>>

\* Mutant: ORDER BY created_at DESC.
PickNewest(s, j) ==
  /\ session[s].pc = "picking"
  /\ j \in Waiting(s)
  /\ \A k \in Waiting(s) : born[j] >= born[k]
  /\ lock' = [lock EXCEPT ![j] = s]
  /\ Promoting(s, j)
  /\ UNCHANGED <<job, born, creates, told, ttl, faults, stale>>

\* The oldest queued row that nobody has locked, now locked by s.
Pick(s, j) ==
  /\ session[s].pc = "picking"
  /\ j \in Waiting(s)
  /\ \A k \in Waiting(s) : born[j] <= born[k]
  /\ lock' = [lock EXCEPT ![j] = s]
  /\ Promoting(s, j)
  /\ UNCHANGED <<job, born, creates, told, ttl, faults, stale>>

Promoted(s, sent) == session' = [session EXCEPT ![s] =
  [pc |-> "committing", op |-> session[s].op, job |-> session[s].job,
   seen |-> session[s].seen, new |-> session[s].new,
   picked |-> session[s].picked, promote |-> sent]]

\* Mutant: the status is set before the send and not taken back.
PromoteSendFailsPending(s) ==
  /\ session[s].pc = "promoting"
  /\ Fault
  /\ UNCHANGED creates \/ Transmit(session[s].picked)
  /\ Promoted(s, TRUE)
  /\ UNCHANGED <<job, lock, born, told, ttl, stale>>

\* Mutant: the promotion is forgotten.
PromoteSentUnmarked(s) ==
  /\ session[s].pc = "promoting"
  /\ Transmit(session[s].picked)
  /\ Promoted(s, FALSE)
  /\ UNCHANGED <<job, lock, born, told, ttl, faults, stale>>

PromoteSent(s) ==
  /\ session[s].pc = "promoting"
  /\ Transmit(session[s].picked)
  /\ Promoted(s, TRUE)
  /\ UNCHANGED <<job, lock, born, told, ttl, faults, stale>>

\* The send raises: the job stays queued.
PromoteSendFails(s) ==
  /\ session[s].pc = "promoting"
  /\ Fault
  /\ UNCHANGED creates \/ Transmit(session[s].picked)
  /\ Promoted(s, FALSE)
  /\ UNCHANGED <<job, lock, born, told, ttl, stale>>

-----------------------------------------------------------------------------
\* What the commit writes into row j.
Written(s, j) ==
  IF j = session[s].picked /\ session[s].promote THEN "pending"
  ELSE IF j = session[s].job /\ session[s].new # session[s].seen THEN session[s].new
  ELSE job[j]

\* Session t has loaded or counted the rows that decide what it writes, and has
\* not committed yet.
HasLooked(t) == session[t].pc \in {"picking", "promoting", "committing"}

\* The commit flushes what is left (it waits for the lock of the row), writes,
\* and releases the locks.  on_job_completed then starts the expiry task.
Commit(s) ==
  /\ session[s].pc = "committing"
  /\ Lockable(s, session[s].job)
  /\ job' = [j \in Jobs |-> Written(s, j)]
  /\ Release(s)
  /\ session' = [session EXCEPT ![s] = Idle]
  /\ ttl' = IF session[s].op = "completed" THEN ttl \cup {session[s].job} ELSE ttl
  /\ stale' = (stale \/ \E t \in Sessions \ {s} : HasLooked(t))
  /\ UNCHANGED <<born, creates, told, faults>>

\* The database or, in force_cancel_job, the send raises, the job.create of a
\* promotion cannot be built (total_tracks = 0; it is built outside the try), or
\* the request is cancelled: get_async_session rolls back.
SessionAborts(s) ==
  /\ Open(s)
  /\ Fault
  /\ Rollback(s)

\* The Iran process dies and comes back: open transactions are rolled back,
\* the expiry tasks are gone.
Restart ==
  /\ Fault
  /\ session' = [s \in Sessions |-> Idle]
  /\ lock' = [j \in Jobs |-> Null]
  /\ ttl' = {}
  /\ UNCHANGED <<job, born, creates, told, stale>>

-----------------------------------------------------------------------------
SessionStep(s) ==
  \/ CreateRefused(s)
  \/ CreateAdmitted(s)
  \/ CreateDecides(s)
  \/ CreateSent(s)
  \/ CreateSendFails(s)
  \/ CancelSent(s)
  \/ CancelSendFails(s)
  \/ ForceSendFails(s)
  \/ Flush(s)
  \/ FlushNothing(s)
  \/ Tally(s)
  \/ PickNone(s)
  \/ \E j \in Jobs : Pick(s, j)
  \/ PromoteSent(s)
  \/ PromoteSendFails(s)
  \/ Commit(s)

Arrival(s, j) ==
  \/ "create" \in Requests /\ CreateBegin(s, j)
  \/ \E op \in Requests \cap {"cancel", "force"} : CancelBegin(s, op, j)
  \/ \E op \in Requests \cap Reports : ReportBegin(s, op, j)

Next ==
  \/ \E s \in Sessions, j \in Jobs : Arrival(s, j)
  \/ \E s \in Sessions, j \in Jobs : ExpireBegin(s, j)
  \/ \E s \in Sessions : SessionStep(s)
  \/ \E j \in Jobs : ExpireFails(j)
  \/ \E s \in Sessions : SessionAborts(s)
  \/ Restart

Spec == Init /\ [][Next]_vars

-----------------------------------------------------------------------------
(* Properties.                                                             *)

SessionType ==
  [pc : OpenPCs \cup {"idle"}, op : Ops \cup {"none"}, job : Jobs \cup {Null},
   seen : Statuses, new : Statuses, picked : Jobs \cup {Null}, promote : BOOLEAN]

SessionsTyped ==
  /\ session \in [Sessions -> SessionType]
  /\ \A s \in Sessions : Open(s) => session[s].job \in Jobs
  /\ \A s \in Sessions :
       session[s].pc = "promoting" \/ session[s].promote => session[s].picked \in Jobs

\* Every variable has its type, an open session works on a job, and one that is
\* about to dispatch or has dispatched a queued job has picked it.
TypeOK ==
  /\ job \in [Jobs -> Statuses]
  /\ lock \in [Jobs -> Sessions \cup {Null}]
  /\ SessionsTyped
  /\ born \in [Jobs -> Nat]
  /\ creates \in [Jobs -> Nat]
  /\ told \in [Jobs -> BOOLEAN]
  /\ ttl \subseteq Jobs
  /\ faults \in Nat
  /\ stale \in BOOLEAN

\* Locks and sessions agree: a session holds the lock of the queued job it
\* picked from the SELECT to its commit, and of its own row from the flush
\* on; nobody else holds a lock.
LocksHeld ==
  /\ \A s \in Sessions : session[s].picked # Null => lock[session[s].picked] = s
  /\ \A j \in Jobs : lock[j] # Null =>
       /\ session[lock[j]].pc \in {"tallying", "picking", "promoting", "committing"}
       /\ j \in {session[lock[j]].job, session[lock[j]].picked}

\* The worker is asked to run a job once: each further job.create of it stands
\* for a send, a session or a process that failed.  Two terminal transitions
\* at the same time never dispatch one queued job twice.
CreatesOnlyByFault == \A j \in Jobs : creates[j] <= 1 + faults

\* Without faults the status tells whether the worker has the job: one that
\* counts as dispatched, or was finished by the worker, went out; one that is
\* queued, and not being promoted right now, did not.
StatusMatchesDispatch ==
  faults = 0 => \A j \in Jobs :
    /\ job[j] \in Dispatched \cup {"completed", "failed", "deleted"} => creates[j] > 0
    /\ job[j] = "queued" /\ lock[j] = Null => creates[j] = 0

\* A promotion is committed only for a job that is still queued and whose
\* job.create went out: it never overwrites what the worker or a user has
\* made of the job while the promoter awaited its send.
PromotionFollowsDispatch ==
  [][\A j \in Jobs : job[j] # "pending" /\ job'[j] = "pending" =>
       job[j] = "none" \/ (job[j] = "queued" /\ creates[j] > 0)]_vars

\* "Called whenever a job reaches a terminal state so the next job in line can
\* be sent" (iran/api/jobs.py:248): when nothing is going on and nothing has
\* failed, no job is queued while there is capacity, for nothing would ever look
\* at the queue again.
NoStrandedQueue ==
  (\A s \in Sessions : ~Open(s)) /\ faults = 0 =>
    \A j \in Jobs : job[j] = "queued" =>
      Limit > 0 /\ Cardinality({k \in Jobs : job[k] \in Dispatched}) >= Limit

\* How far that is true of requests that overlap: a job is stranded only where
\* some session's count of the running jobs, or the status it loaded, was
\* overtaken by another session's commit (iran/api/jobs.py:245-268, 479-499).
StrandedOnlyWhenStale == stale \/ NoStrandedQueue

\* "Pick the oldest waiting job (FIFO)" (iran/api/jobs.py:256): a job is promoted
\* past an older one that stays queued only if somebody is cancelling that one,
\* or a session looked at the table while another was changing it.
PromotedInOrder ==
  [][\A j, k \in Jobs :
       /\ job[j] = "queued" /\ job'[j] = "pending"
       /\ job[k] = "queued" /\ job'[k] = "queued"
       /\ faults = 0 /\ ~stale'
       => born[j] < born[k] \/ lock[k] # Null]_vars

\* "Queued jobs were never sent, so there's nothing to cancel on the worker"
\* (iran/api/jobs.py:643): without faults, a cancelled job that the worker was
\* given was recalled.
CancelledAreTold ==
  faults = 0 => \A j \in Jobs : job[j] = "cancelled" /\ creates[j] > 0 => told[j]

\* How far that is true: a job that the worker was given is cancelled without a
\* word to it only by a session that loaded the job as queued and then waited
\* for the promotion that dispatched it (iran/api/jobs.py:637-669).
SilentCancelsAreOvertaken ==
  [][\A j \in Jobs :
       /\ job[j] # "cancelled" /\ job'[j] = "cancelled"
       /\ faults = 0 /\ creates[j] > 0 /\ ~told[j]
       => /\ job[j] # "queued"
          /\ \E s \in Sessions :
               /\ session[s].job = j /\ session[s].op \in {"cancel", "force"}
               /\ session[s].seen = "queued"]_vars

\* No report handler looks at the status it has loaded, so a late job.accepted
\* or job.progress makes a finished job active again.  Nothing else does: no
\* cancellation, promotion or retry brings a finished job back.
RevivedByReports ==
  [][\A j \in Jobs : job[j] \in Terminal /\ job'[j] \in Active =>
       \E s \in Sessions : session[s].job = j /\ session[s].op \in {"accepted", "progress"}]_vars

=============================================================================
