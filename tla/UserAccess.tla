----------------------------- MODULE UserAccess -----------------------------
(***************************************************************************)
(* Who may use the service, decided twice: the user's status in the        *)
(* database of the Iran site (iran/api/auth.py, admin.py, deps.py) and the *)
(* whitelist and blocklist of the worker (kharej/access_control.py), which *)
(* follows by control messages over Rubika.                                *)
(*                                                                         *)
(* An admin's request reads the user, sends the control message, and       *)
(* commits the new status last; requests of several admins interleave at   *)
(* the send.  The worker's handlers run one after the other, each without  *)
(* an await between the check of the list and the rewrite of the state     *)
(* file.  Messages travel in order; one may be lost while the worker is    *)
(* down.  The admin.ack that ends each handler is left out: the site only  *)
(* logs it, and a failed ack undoes nothing.                               *)
(***************************************************************************)
EXTENDS Naturals, Sequences

CONSTANTS
  Users,
  Founders,     \* accounts that were put into the database as active users
  Sessions,     \* admin requests that may be open at once; a slot is reused
  MaxRequests,  \* bound on admin requests
  MaxJobs,      \* bound on jobs
  MaxFaults,    \* bound on failed sends, aborted requests, losses and restarts
  Null

ASSUME FoundersAreUsers == Founders \subseteq Users
ASSUME BoundsAreNat == MaxRequests \in Nat /\ MaxJobs \in Nat /\ MaxFaults \in Nat
ASSUME NullIsNobody == Null \notin Users

VARIABLES
  status,     \* status[u]: users.status as committed, "none" before register
  request,    \* request[s]: the admin request in slot s
  hasJob,     \* users with a job that was admitted and not yet dispatched
  channel,    \* messages on their way to the worker
  lists,      \* the worker's lists in memory
  disk,       \* the lists in access_state.json
  verdict,    \* verdict[u]: check_access for the last job.create of u
  requests, jobs, faults,
  lossy,      \* a message was lost, or the state file could not be written
  disturbed   \* users whose requests overlapped or failed after their send

site   == <<status, request, hasJob>>
worker == <<lists, disk, verdict>>
vars   == <<status, request, hasJob, channel, lists, disk, verdict,
            requests, jobs, faults, lossy, disturbed>>

-----------------------------------------------------------------------------
Statuses  == {"none", "pending_approval", "active", "blocked", "deleted"}
Decisions == {"allow", "block", "not_whitelisted"}

\* patch_user and, last two, patch_registration.
Actions == {"approve", "block", "unblock", "delete", "approve_registration",
            "reject_registration"}

NewStatus ==
  [approve |-> "active", block |-> "blocked", unblock |-> "active",
   delete |-> "deleted", approve_registration |-> "active",
   reject_registration |-> "deleted"]

\* The control message of each action; a rejection sends none.
ControlType ==
  [approve |-> "user.whitelist.add", block |-> "user.block.add",
   unblock |-> "user.whitelist.add", delete |-> "user.whitelist.remove",
   approve_registration |-> "user.whitelist.add"]

\* Deleting a user tells the worker only if the user was active.
Announces(action, seen) ==
  /\ action # "reject_registration"
  /\ action = "delete" => seen = "active"

Idle == [pc |-> "idle", action |-> "none", user |-> Null, seen |-> "none"]

Open(s) == request[s].pc # "idle"

\* overdue: the owner was blocked on the site when the job.create went out.
Message(type, u, overdue) == [type |-> type, user |-> u, overdue |-> overdue]

Empty == [whitelist |-> {}, blocklist |-> {}]

\* Mutant: the whitelist is looked at first.
CheckAccessWhitelistFirst(u) ==
  IF u \in lists.whitelist THEN "allow"
  ELSE IF u \in lists.blocklist THEN "block"
  ELSE IF lists.whitelist # {} THEN "not_whitelisted"
  ELSE "allow"

\* AccessControl.check_access.
CheckAccess(u) ==
  IF u \in lists.blocklist THEN "block"
  ELSE IF lists.whitelist # {} /\ u \notin lists.whitelist THEN "not_whitelisted"
  ELSE "allow"

Init ==
  /\ status    = [u \in Users |-> IF u \in Founders THEN "active" ELSE "none"]
  /\ request   = [s \in Sessions |-> Idle]
  /\ hasJob    = {}
  /\ channel   = <<>>
  /\ lists     = Empty
  /\ disk      = Empty
  /\ verdict   = [u \in Users |-> "none"]
  /\ requests  = 0
  /\ jobs      = 0
  /\ faults    = 0
  /\ lossy     = FALSE
  /\ disturbed = {}

Fault == faults < MaxFaults /\ faults' = faults + 1

-----------------------------------------------------------------------------
(* The site.                                                               *)

\* POST /auth/register: the user and the registration, in one transaction.
Register(u) ==
  /\ status[u] = "none"
  /\ status' = [status EXCEPT ![u] = "pending_approval"]
  /\ UNCHANGED <<request, hasJob, channel, worker, requests, jobs, faults,
                 lossy, disturbed>>

\* Mutant: the status is committed before the control message is sent.
RequestBeginCommits(s, action, u) ==
  /\ ~Open(s)
  /\ requests < MaxRequests
  /\ status[u] # "none"
  /\ requests' = requests + 1
  /\ request' = [request EXCEPT ![s] =
       [pc     |-> IF Announces(action, status[u]) THEN "sending" ELSE "committing",
        action |-> action, user |-> u, seen |-> status[u]]]
  /\ status' = [status EXCEPT ![u] = NewStatus[action]]
  /\ UNCHANGED <<hasJob, channel, worker, jobs, faults, lossy, disturbed>>

\* The request loads the user.  No action looks at the status it finds, but
\* for the message of delete; a registration is there for who registered.
RequestBegin(s, action, u) ==
  /\ ~Open(s)
  /\ requests < MaxRequests
  /\ status[u] # "none"
  /\ action \in {"approve_registration", "reject_registration"} => u \notin Founders
  /\ requests' = requests + 1
  /\ request' = [request EXCEPT ![s] =
       [pc     |-> IF Announces(action, status[u]) THEN "sending" ELSE "committing",
        action |-> action, user |-> u, seen |-> status[u]]]
  /\ disturbed' = IF \E t \in Sessions : request[t].user = u
                  THEN disturbed \cup {u} ELSE disturbed
  /\ UNCHANGED <<status, hasJob, channel, worker, jobs, faults, lossy>>

Transmit(s) ==
  channel' = Append(channel, Message(ControlType[request[s].action], request[s].user, FALSE))

ControlSent(s) ==
  /\ request[s].pc = "sending"
  /\ Transmit(s)
  /\ request' = [request EXCEPT ![s].pc = "committing"]
  /\ UNCHANGED <<status, hasJob, worker, requests, jobs, faults, lossy, disturbed>>

\* RubikaSendError leaves the endpoint, get_async_session rolls back; the
\* message may have got through all the same.
ControlSendFails(s) ==
  /\ request[s].pc = "sending"
  /\ Fault
  /\ UNCHANGED channel \/ Transmit(s)
  /\ request' = [request EXCEPT ![s] = Idle]
  /\ disturbed' = disturbed \cup {request[s].user}
  /\ UNCHANGED <<status, hasJob, worker, requests, jobs, lossy>>

\* The column is written only if it differs from what was loaded.
RequestCommit(s) ==
  LET r == request[s] IN
  /\ r.pc = "committing"
  /\ status' = IF NewStatus[r.action] = r.seen THEN status
               ELSE [status EXCEPT ![r.user] = NewStatus[r.action]]
  /\ request' = [request EXCEPT ![s] = Idle]
  /\ UNCHANGED <<hasJob, channel, worker, requests, jobs, faults, lossy, disturbed>>

\* The commit fails, or the process dies before it: the message is out.
RequestAborts(s) ==
  /\ request[s].pc = "committing"
  /\ Fault
  /\ request' = [request EXCEPT ![s] = Idle]
  /\ disturbed' = disturbed \cup {request[s].user}
  /\ UNCHANGED <<status, hasJob, channel, worker, requests, jobs, lossy>>

\* get_current_user admits an active user's POST /jobs; the user has at most
\* one job at a time.
JobAdmitted(u) ==
  /\ status[u] = "active"
  /\ u \notin hasJob
  /\ jobs < MaxJobs
  /\ jobs' = jobs + 1
  /\ hasJob' = hasJob \cup {u}
  /\ UNCHANGED <<status, request, channel, worker, requests, faults, lossy, disturbed>>

\* job.create goes out, at once or when the job is promoted from the queue:
\* _maybe_dequeue_next_job puts user_status "active" whatever has happened
\* to the owner since.
JobDispatched(u) ==
  /\ u \in hasJob
  /\ hasJob' = hasJob \ {u}
  /\ channel' = Append(channel, Message("job.create", u, status[u] = "blocked"))
  /\ UNCHANGED <<status, request, worker, requests, jobs, faults, lossy, disturbed>>

-----------------------------------------------------------------------------
(* The worker.                                                             *)

\* Mutant: blocking a user only takes the user off the whitelist.
UpdatedBlockUnlists(m) ==
  CASE m.type = "user.whitelist.add"    -> [lists EXCEPT !.whitelist = @ \cup {m.user}]
    [] m.type = "user.whitelist.remove" -> [lists EXCEPT !.whitelist = @ \ {m.user}]
    [] m.type = "user.block.add"        -> [lists EXCEPT !.whitelist = @ \ {m.user}]
    [] m.type = "user.block.remove"     -> [lists EXCEPT !.blocklist = @ \ {m.user}]

\* What the handler of m makes of the lists.
Updated(m) ==
  CASE m.type = "user.whitelist.add"    -> [lists EXCEPT !.whitelist = @ \cup {m.user}]
    [] m.type = "user.whitelist.remove" -> [lists EXCEPT !.whitelist = @ \ {m.user}]
    [] m.type = "user.block.add"        -> [lists EXCEPT !.blocklist = @ \cup {m.user}]
    [] m.type = "user.block.remove"     -> [lists EXCEPT !.blocklist = @ \ {m.user}]

IsControl(m) == m.type # "job.create"

ControlArrives ==
  /\ channel # <<>>
  /\ IsControl(Head(channel))

\* Mutant: only additions are written to the file.
ControlHandledAddsPersist ==
  /\ ControlArrives
  /\ channel' = Tail(channel)
  /\ lists' = Updated(Head(channel))
  /\ disk' = IF Head(channel).type \in {"user.whitelist.add", "user.block.add"}
             THEN lists' ELSE disk
  /\ UNCHANGED <<site, verdict, requests, jobs, faults, lossy, disturbed>>

\* The file is rewritten only when the list changes.
ControlHandled ==
  /\ ControlArrives
  /\ channel' = Tail(channel)
  /\ lists' = Updated(Head(channel))
  /\ disk' = IF lists' = lists THEN disk ELSE lists'
  /\ UNCHANGED <<site, verdict, requests, jobs, faults, lossy, disturbed>>

\* _save_state raises after the list in memory has changed; no ack is sent.
ControlNotPersisted ==
  /\ ControlArrives
  /\ Fault
  /\ Updated(Head(channel)) # lists
  /\ channel' = Tail(channel)
  /\ lists' = Updated(Head(channel))
  /\ lossy' = TRUE
  /\ UNCHANGED <<site, disk, verdict, requests, jobs, disturbed>>

\* Dispatcher.handle_job_create: the access check comes first.
JobChecked ==
  /\ channel # <<>>
  /\ ~IsControl(Head(channel))
  /\ channel' = Tail(channel)
  /\ verdict' = [verdict EXCEPT ![Head(channel).user] = CheckAccess(Head(channel).user)]
  /\ UNCHANGED <<site, lists, disk, requests, jobs, faults, lossy, disturbed>>

\* What is sent to a worker that is down may never be delivered.
MessageLost ==
  /\ channel # <<>>
  /\ Fault
  /\ channel' = Tail(channel)
  /\ lossy' = TRUE
  /\ UNCHANGED <<site, worker, requests, jobs, disturbed>>

\* The worker dies and AccessControl.__init__ loads the file.
WorkerRestarts ==
  /\ Fault
  /\ lists' = disk
  /\ UNCHANGED <<site, channel, disk, verdict, requests, jobs, lossy, disturbed>>

-----------------------------------------------------------------------------
AdminStep(s) ==
  \/ ControlSent(s)
  \/ ControlSendFails(s)
  \/ RequestCommit(s)

WorkerStep == ControlHandled \/ JobChecked

Next ==
  \/ \E u \in Users : Register(u)
  \/ \E s \in Sessions, action \in Actions, u \in Users : RequestBegin(s, action, u)
  \/ \E s \in Sessions : AdminStep(s)
  \/ \E s \in Sessions : RequestAborts(s)
  \/ \E u \in Users : JobAdmitted(u)
  \/ \E u \in Users : JobDispatched(u)
  \/ WorkerStep
  \/ ControlNotPersisted
  \/ MessageLost
  \/ WorkerRestarts

Spec == Init /\ [][Next]_vars

\* An open request goes on and the worker handles what has arrived.  Nobody is
\* obliged to register, to administer or to submit jobs.
Fairness ==
  /\ \A s \in Sessions : WF_vars(AdminStep(s))
  /\ WF_vars(WorkerStep)

FairSpec == Spec /\ Fairness

-----------------------------------------------------------------------------
(* Properties.                                                             *)

RequestType ==
  [pc : {"idle", "sending", "committing"}, action : Actions \cup {"none"},
   user : Users \cup {Null}, seen : Statuses]

ControlTypes == {"user.whitelist.add", "user.whitelist.remove", "user.block.add",
                 "user.block.remove"}

MessageType ==
  [type : ControlTypes \cup {"job.create"}, user : Users, overdue : BOOLEAN]

ListsType == [whitelist : SUBSET Users, blocklist : SUBSET Users]

RequestsTyped ==
  /\ request \in [Sessions -> RequestType]
  /\ \A s \in Sessions : Open(s) => request[s].user \in Users /\ request[s].action \in Actions
  /\ \A s \in Sessions :
       request[s].pc = "sending" => request[s].action # "reject_registration"

\* Every variable has its type; an open request is about a user, and one that
\* is about to send has a message to send.
TypeOK ==
  /\ status \in [Users -> Statuses]
  /\ RequestsTyped
  /\ hasJob \subseteq Users
  /\ channel \in Seq(MessageType)
  /\ lists \in ListsType
  /\ disk \in ListsType
  /\ verdict \in [Users -> Decisions \cup {"none"}]
  /\ requests \in Nat
  /\ jobs \in Nat
  /\ faults \in Nat
  /\ lossy \in BOOLEAN
  /\ disturbed \subseteq Users

\* A control message about u is on its way.
Awaited(u) == \E i \in DOMAIN channel : IsControl(channel[i]) /\ channel[i].user = u

BlockAwaited(u) ==
  \E i \in DOMAIN channel : channel[i].type = "user.block.add" /\ channel[i].user = u

\* An admin works on u.
Handled(u) == \E s \in Sessions : request[s].user = u

\* "Each mutation atomically rewrites access_state.json": what a restart finds
\* is what the worker had decided by, as long as no write has failed.
DiskIsCurrent == ~lossy => disk = lists

\* A user whom the site shows as blocked is on the worker's blocklist, or the
\* message that puts him there is on its way, however the requests of several
\* admins and their failures interleave: the message goes out before the
\* status is committed.
BlockReachesWorker ==
  ~lossy => \A u \in Users :
    status[u] = "blocked" => u \in lists.blocklist \/ BlockAwaited(u)

\* A job whose owner was blocked between its admission and its dispatch, for
\* instance while it was queued, is refused by the worker, although the site
\* dispatches it as the job of an active user.
OverdueJobsRefused ==
  [][JobChecked /\ Head(channel).overdue /\ ~lossy
       => verdict'[Head(channel).user] = "block"]_vars

\* Blocking a user takes effect on the worker in the end.
BlockTakesEffect ==
  \A u \in Users : status[u] = "blocked" ~> CheckAccess(u) = "block" \/ lossy

-----------------------------------------------------------------------------
(* What the documents of the repository say, and the code does not do.     *)

\* "Unblock -> sets status = 'active', sends user.block.remove to Kharej"
\* (webui-spec.md): whom the site shows as active the worker admits.
ActiveIsAdmitted ==
  ~lossy => \A u \in Users \ (Founders \cup disturbed) :
    status[u] = "active" /\ ~Handled(u) /\ ~Awaited(u) => CheckAccess(u) = "allow"

=============================================================================
