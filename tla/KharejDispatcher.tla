-------------------------- MODULE KharejDispatcher --------------------------
(***************************************************************************)
(* The job dispatcher of the Kharej worker (kharej/dispatcher.py) together *)
(* with the three things that surround it in the one asyncio event loop:   *)
(* the handler coroutine that kharej/rubika_client.py starts for every     *)
(* inbound message, the _run_job task of every spawned job, and the main   *)
(* coroutine of kharej/worker.py that drains the jobs on SIGTERM.          *)
(*                                                                         *)
(* A message longer than MAX_MESSAGE_BYTES raises in encode, before its    *)
(* send suspends.  Two messages can be, those whose length is not the      *)
(* worker's to choose: job.completed names every object, and job.failed    *)
(* quotes an exception.                                                    *)
(*                                                                         *)
(* Grain of atomicity: a coroutine runs without interruption from one      *)
(* await to the next, so an action is the code between two awaits.  The    *)
(* only awaits that suspend are a Rubika send and the downloader itself:   *)
(* the lock of the progress reporter is never held across an await.        *)
(*                                                                         *)
(* A job is a job_id.  What a message carries besides (url, quality, user) *)
(* only matters through the verdict of the access check and the downloader *)
(* lookup, which are chosen freely.                                        *)
(***************************************************************************)
EXTENDS Naturals, Sequences, FiniteSets

CONSTANTS
  Jobs,        \* job_ids
  Deliveries,  \* inbound messages; each is handled by a coroutine of its own
  Runs,        \* identities of the asyncio tasks that execute _run_job
  Null         \* no task

ASSUME NullNotARun == Null \notin Runs

VARIABLES
  faulty,     \* may the Rubika connection drop and may sends fail?  Never changes
  connected,  \* transport.connected
  handler,    \* handler[d]: the coroutine handling delivery d
  run,        \* run[r]: the coroutine of task r
  registry,   \* Dispatcher._tasks: job_id -> task
  sent,       \* sent[j]: what reached Rubika about job j, in order
  main,       \* where the main coroutine of worker.run() is
  drain       \* the tasks that shutdown() is waiting for

link == <<faulty, connected>>

vars == <<link, handler, run, registry, sent, main, drain>>

-----------------------------------------------------------------------------
(* Messages to Iran about a job. *)

RefusalCodes == {"blocked", "not_whitelisted"}
RunCodes     == {"timeout", "not_implemented", "error"}
HandlerCodes == RefusalCodes \cup {"unsupported_platform", "duplicate_job"}
FailureCodes == HandlerCodes \cup RunCodes \cup {"cancelled"}

Accepted     == [type |-> "accepted", code |-> "none"]
Completed    == [type |-> "completed", code |-> "none"]
Failed(code) == [type |-> "failed", code |-> code]

Reports == {Accepted, Completed} \cup {Failed(c) : c \in FailureCodes}

HandlerPCs == {"idle", "accepting", "rejecting", "done"}
LivePCs    == {"created", "running", "completing", "failing"}
RunPCs     == LivePCs \cup {"unused", "ended", "stillborn"}
MainPCs    == {"serving", "draining", "gathering", "closing", "disconnecting",
               "closed", "exited"}

\* The code of a task whose job.failed was too long: it ended without a report.
TooLong == "too_long"

\* The transport is closed by the worker itself.
Disconnected == main \in {"disconnecting", "closed", "exited"}

\* What a send that has begun may raise.
SendsMayFail == faulty \/ Disconnected

\* Tasks whose coroutine has not finished: task.done() is false.
LiveRun(r) == run[r].pc \in LivePCs

\* The tasks in the registry: len of it is Dispatcher.in_flight.
Registered == {r \in Runs : \E j \in Jobs : registry[j] = r}

-----------------------------------------------------------------------------
Init ==
  /\ faulty \in BOOLEAN
  /\ connected = TRUE
  /\ handler   = [d \in Deliveries |-> [pc |-> "idle", job |-> Null, code |-> "none"]]
  /\ run       = [r \in Runs |-> [pc |-> "unused", job |-> Null, code |-> "none",
                                  cancel |-> FALSE, asked |-> FALSE]]
  /\ registry  = [j \in Jobs |-> Null]
  /\ sent      = [j \in Jobs |-> <<>>]
  /\ main      = "serving"
  /\ drain     = {}

-----------------------------------------------------------------------------
(* Helpers.                                                                *)

SetHandler(d, pc, j, code) ==
  handler' = [handler EXCEPT ![d] = [pc |-> pc, job |-> j, code |-> code]]

Transmit(j, report) == sent' = [sent EXCEPT ![j] = Append(@, report)]

\* A send that raises, or whose coroutine is cancelled: Rubika may or may not
\* have taken the message.
MayTransmit(j, report) == UNCHANGED sent \/ Transmit(j, report)

\* RubikaClient.send raises at once when the transport is down, otherwise it
\* suspends: the handler is then "rejecting" until the transport answers.
BeginReject(d, j, code) ==
  SetHandler(d, IF connected THEN "rejecting" ELSE "done", j, code)

\* asyncio.Task.cancel(): nothing for a finished task, otherwise the next step
\* of the task raises CancelledError at the await where it is suspended.
\* "asked" remembers that someone asked; it influences no action.
Cancelled(coro) ==
  IF coro.pc \in LivePCs
  THEN [coro EXCEPT !.cancel = TRUE, !.asked = TRUE]
  ELSE coro

\* Task r goes on to its next await, or ends; a cancellation is consumed.
MoveRun(r, pc, code) ==
  run' = [run EXCEPT ![r] = [pc |-> pc, job |-> run[r].job, code |-> code,
                             cancel |-> FALSE, asked |-> run[r].asked]]

\* Mutant: _run_job has no finally clause.
EndRunKeepsEntry(r, code) == MoveRun(r, "ended", code) /\ UNCHANGED registry

\* The finally clause of _run_job, then the end of the task, with the outcome
\* it came to.
EndRun(r, code) ==
  /\ MoveRun(r, "ended", code)
  /\ registry' = [registry EXCEPT ![run[r].job] = Null]

\* An except clause of _run_job that reports failure: when the transport is
\* down report_failed raises there and only the finally clause is left.
BeginFail(r, code) ==
  IF connected
  THEN MoveRun(r, "failing", code) /\ UNCHANGED registry
  ELSE EndRun(r, run[r].code)

-----------------------------------------------------------------------------
(* handle_job_create.                                                      *)

\* rubika.stop() ends the delivery of messages.
Receiving(d) == handler[d].pc = "idle" /\ main \notin {"closed", "exited"}

\* The access check refuses: job.failed and nothing else.
CreateRefused(d, j, code) ==
  /\ Receiving(d)
  /\ BeginReject(d, j, code)
  /\ UNCHANGED <<link, run, registry, sent, main, drain>>

\* The access check allows: report_accepted, before any other check.
CreateAllowed(d, j) ==
  /\ Receiving(d)
  /\ SetHandler(d, IF connected THEN "accepting" ELSE "done", j, "none")
  /\ UNCHANGED <<link, run, registry, sent, main, drain>>

\* Mutant: an unknown platform is only logged.
CreateUnsupportedSilent(d) ==
  /\ handler[d].pc = "accepting"
  /\ Transmit(handler[d].job, Accepted)
  /\ SetHandler(d, "done", handler[d].job, "unsupported_platform")
  /\ UNCHANGED <<link, run, registry, main, drain>>

\* job.accepted went out and no downloader knows the platform.
CreateUnsupported(d) ==
  LET j == handler[d].job IN
  /\ handler[d].pc = "accepting"
  /\ Transmit(j, Accepted)
  /\ BeginReject(d, j, "unsupported_platform")
  /\ UNCHANGED <<link, run, registry, main, drain>>

\* job.accepted went out and the job_id is already in the registry.
CreateDuplicate(d) ==
  LET j == handler[d].job IN
  /\ handler[d].pc = "accepting"
  /\ registry[j] # Null
  /\ Transmit(j, Accepted)
  /\ BeginReject(d, j, "duplicate_job")
  /\ UNCHANGED <<link, run, registry, main, drain>>

NewRun(j) ==
  [pc |-> "created", job |-> j, code |-> "none", cancel |-> FALSE, asked |-> FALSE]

\* Mutant: the duplicate check was made before the await, not after it.
CreateSpawnsUnchecked(d, r) ==
  /\ handler[d].pc = "accepting"
  /\ run[r].pc = "unused"
  /\ Transmit(handler[d].job, Accepted)
  /\ run' = [run EXCEPT ![r] = NewRun(handler[d].job)]
  /\ registry' = [registry EXCEPT ![handler[d].job] = r]
  /\ SetHandler(d, "done", handler[d].job, "none")
  /\ UNCHANGED <<link, main, drain>>

\* Mutant: the acceptance is announced by a task of its own, which may lag.
CreateSpawnsUnannounced(d, r) ==
  /\ handler[d].pc = "accepting"
  /\ registry[handler[d].job] = Null
  /\ run[r].pc = "unused"
  /\ run' = [run EXCEPT ![r] = NewRun(handler[d].job)]
  /\ registry' = [registry EXCEPT ![handler[d].job] = r]
  /\ SetHandler(d, "done", handler[d].job, "none")
  /\ UNCHANGED <<link, sent, main, drain>>

\* job.accepted went out: asyncio.create_task and the registry entry.
CreateSpawns(d, r) ==
  LET j == handler[d].job IN
  /\ handler[d].pc = "accepting"
  /\ registry[j] = Null
  /\ run[r].pc = "unused"
  /\ Transmit(j, Accepted)
  /\ run' = [run EXCEPT ![r] = NewRun(j)]
  /\ registry' = [registry EXCEPT ![j] = r]
  /\ SetHandler(d, "done", j, "none")
  /\ UNCHANGED <<link, main, drain>>

\* The send of job.accepted raises: handle_message swallows it, the job is
\* never looked at again.
AcceptFails(d) ==
  /\ SendsMayFail
  /\ handler[d].pc = "accepting"
  /\ MayTransmit(handler[d].job, Accepted)
  /\ SetHandler(d, "done", handler[d].job, "none")
  /\ UNCHANGED <<link, run, registry, main, drain>>

RejectSent(d) ==
  /\ handler[d].pc = "rejecting"
  /\ Transmit(handler[d].job, Failed(handler[d].code))
  /\ SetHandler(d, "done", handler[d].job, handler[d].code)
  /\ UNCHANGED <<link, run, registry, main, drain>>

RejectFails(d) ==
  /\ SendsMayFail
  /\ handler[d].pc = "rejecting"
  /\ MayTransmit(handler[d].job, Failed(handler[d].code))
  /\ SetHandler(d, "done", handler[d].job, handler[d].code)
  /\ UNCHANGED <<link, run, registry, main, drain>>

-----------------------------------------------------------------------------
(* handle_job_cancel: one step, it never awaits.                           *)

CancelNoop(d, j) ==
  /\ Receiving(d)
  /\ registry[j] = Null
  /\ SetHandler(d, "done", j, "cancel")
  /\ UNCHANGED <<link, run, registry, sent, main, drain>>

CancelTask(d, j) ==
  /\ Receiving(d)
  /\ registry[j] # Null
  /\ run' = [run EXCEPT ![registry[j]] = Cancelled(@)]
  /\ SetHandler(d, "done", j, "cancel")
  /\ UNCHANGED <<link, registry, sent, main, drain>>

-----------------------------------------------------------------------------
(* _run_job.                                                               *)

RunStarts(r) ==
  /\ run[r].pc = "created"
  /\ ~run[r].cancel
  /\ MoveRun(r, "running", "none")
  /\ UNCHANGED <<link, handler, registry, sent, main, drain>>

\* A task cancelled before its first step never enters the coroutine body: no
\* except clause reports, no finally clause removes the registry entry.
RunStillborn(r) ==
  /\ run[r].pc = "created"
  /\ run[r].cancel
  /\ MoveRun(r, "stillborn", "none")
  /\ UNCHANGED <<link, handler, registry, sent, main, drain>>

\* The downloader returns: report_completed.  When the transport is down that
\* raises, "except Exception" tries report_failed, which raises again.  Up to
\* Python 3.11 asyncio.wait_for drops a cancellation that arrives when the
\* download has just finished; from 3.12 on RunCancelled happens then.
DownloadReturns(r) ==
  /\ run[r].pc = "running"
  /\ IF connected
     THEN MoveRun(r, "completing", "none") /\ UNCHANGED registry
     ELSE EndRun(r, run[r].code)
  /\ UNCHANGED <<link, handler, sent, main, drain>>

\* The downloader returns more objects than a job.completed can name: encode
\* raises, and "except Exception" reports that.
CompletedTooLong(r) ==
  /\ run[r].pc = "running"
  /\ BeginFail(r, "error")
  /\ UNCHANGED <<link, handler, sent, main, drain>>

\* Mutant: the failure is logged and not reported.
DownloadFailsSilently(r, code) ==
  /\ run[r].pc = "running"
  /\ ~run[r].cancel
  /\ EndRun(r, run[r].code)
  /\ UNCHANGED <<link, handler, sent, main, drain>>

\* The downloader raises, or wait_for gives up on it.
DownloadFails(r, code) ==
  /\ run[r].pc = "running"
  /\ ~run[r].cancel
  /\ BeginFail(r, code)
  /\ UNCHANGED <<link, handler, sent, main, drain>>

\* The exception's text does not fit into a message: encode raises inside the
\* except clause, and only the finally clause is left.
FailedTooLong(r) ==
  /\ run[r].pc = "running"
  /\ ~run[r].cancel
  /\ connected
  /\ EndRun(r, TooLong)
  /\ UNCHANGED <<link, handler, sent, main, drain>>

DownloadCancelled(r) ==
  /\ run[r].pc = "running"
  /\ run[r].cancel
  /\ BeginFail(r, "cancelled")
  /\ UNCHANGED <<link, handler, sent, main, drain>>

CompletedSent(r) ==
  /\ run[r].pc = "completing"
  /\ ~run[r].cancel
  /\ Transmit(run[r].job, Completed)
  /\ EndRun(r, run[r].code)
  /\ UNCHANGED <<link, handler, main, drain>>

\* The send of job.completed raises: "except Exception" reports a failure.
CompletedSendFails(r) ==
  /\ SendsMayFail
  /\ run[r].pc = "completing"
  /\ ~run[r].cancel
  /\ MayTransmit(run[r].job, Completed)
  /\ BeginFail(r, "error")
  /\ UNCHANGED <<link, handler, main, drain>>

\* A cancellation that lands on the send of job.completed.
CompletedCancelled(r) ==
  /\ run[r].pc = "completing"
  /\ run[r].cancel
  /\ MayTransmit(run[r].job, Completed)
  /\ BeginFail(r, "cancelled")
  /\ UNCHANGED <<link, handler, main, drain>>

FailedSent(r) ==
  /\ run[r].pc = "failing"
  /\ ~run[r].cancel
  /\ Transmit(run[r].job, Failed(run[r].code))
  /\ EndRun(r, run[r].code)
  /\ UNCHANGED <<link, handler, main, drain>>

\* The send of job.failed raises, or a cancellation lands on it: no clause of
\* the try statement catches what is raised inside its except clauses.
FailedSendLost(r) ==
  /\ run[r].pc = "failing"
  /\ SendsMayFail \/ run[r].cancel
  /\ MayTransmit(run[r].job, Failed(run[r].code))
  /\ EndRun(r, run[r].code)
  /\ UNCHANGED <<link, handler, main, drain>>

-----------------------------------------------------------------------------
(* The connection.  The supervisor reconnects for as long as it runs.      *)

Disconnect ==
  /\ faulty
  /\ connected
  /\ connected' = FALSE
  /\ UNCHANGED <<faulty, handler, run, registry, sent, main, drain>>

Reconnect ==
  /\ ~connected
  /\ ~Disconnected
  /\ connected' = TRUE
  /\ UNCHANGED <<faulty, handler, run, registry, sent, main, drain>>

-----------------------------------------------------------------------------
(* worker.run() after the stop signal, and Dispatcher.shutdown().          *)

\* shutdown() looks at the registry once.
StopSignal ==
  /\ main = "serving"
  /\ main' = IF Registered = {} THEN "closing" ELSE "draining"
  /\ drain' = Registered
  /\ UNCHANGED <<link, handler, run, registry, sent>>

\* asyncio.wait returns because every task of the snapshot is done.
DrainFinished ==
  /\ main = "draining"
  /\ \A r \in drain : ~LiveRun(r)
  /\ main' = "closing"
  /\ UNCHANGED <<link, handler, run, registry, sent, drain>>

\* asyncio.wait gives up: cancel what is left and gather it.
DrainTimesOut ==
  /\ main = "draining"
  /\ \E r \in drain : LiveRun(r)
  /\ main' = "gathering"
  /\ drain' = {r \in drain : LiveRun(r)}
  /\ run' = [r \in Runs |-> IF r \in drain THEN Cancelled(run[r]) ELSE run[r]]
  /\ UNCHANGED <<link, handler, registry, sent>>

\* Mutant: shutdown() waits until in_flight is zero.
GatherFinishedByCount ==
  /\ main = "gathering"
  /\ Registered = {}
  /\ main' = "closing"
  /\ UNCHANGED <<link, handler, run, registry, sent, drain>>

GatherFinished ==
  /\ main = "gathering"
  /\ \A r \in drain : ~LiveRun(r)
  /\ main' = "closing"
  /\ UNCHANGED <<link, handler, run, registry, sent, drain>>

\* rubika.stop(): the supervisor is cancelled, so the link does not come back,
\* and the transport gives up its connection.  Handlers, and tasks that were
\* created while the drain went on, live a little longer and see sends fail.
CloseTransport ==
  /\ main = "closing"
  /\ main' = "disconnecting"
  /\ connected' = FALSE
  /\ UNCHANGED <<faulty, handler, run, registry, sent, drain>>

\* The client has disconnected and run() returns: asyncio.run cancels every
\* coroutine that is left.
CancelRest ==
  /\ main = "disconnecting"
  /\ main' = "closed"
  /\ handler' = [d \in Deliveries |->
                   IF handler[d].pc \in {"accepting", "rejecting"}
                   THEN [handler[d] EXCEPT !.pc = "done"] ELSE handler[d]]
  /\ run' = [r \in Runs |-> Cancelled(run[r])]
  /\ UNCHANGED <<link, registry, sent, drain>>

\* asyncio.run has waited for the cancelled tasks; the process ends.
Exit ==
  /\ main = "closed"
  /\ \A r \in Runs : ~LiveRun(r)
  /\ main' = "exited"
  /\ UNCHANGED <<link, handler, run, registry, sent, drain>>

-----------------------------------------------------------------------------
HandlerStep(d) ==
  \/ CreateUnsupported(d)
  \/ CreateDuplicate(d)
  \/ \E r \in Runs : CreateSpawns(d, r)
  \/ AcceptFails(d)
  \/ RejectSent(d)
  \/ RejectFails(d)

RunStep(r) ==
  \/ RunStarts(r)
  \/ RunStillborn(r)
  \/ DownloadReturns(r)
  \/ CompletedTooLong(r)
  \/ \E code \in RunCodes : DownloadFails(r, code)
  \/ FailedTooLong(r)
  \/ DownloadCancelled(r)
  \/ CompletedSent(r)
  \/ CompletedSendFails(r)
  \/ CompletedCancelled(r)
  \/ FailedSent(r)
  \/ FailedSendLost(r)

MainStep ==
  \/ DrainFinished
  \/ DrainTimesOut
  \/ GatherFinished
  \/ CloseTransport
  \/ CancelRest
  \/ Exit

\* What arrives from Iran: any job.create or job.cancel, in any order, as
\* often as there are deliveries.
Arrival(d, j) ==
  \/ \E code \in RefusalCodes : CreateRefused(d, j, code)
  \/ CreateAllowed(d, j)
  \/ CancelNoop(d, j)
  \/ CancelTask(d, j)

Next ==
  \/ \E d \in Deliveries, j \in Jobs : Arrival(d, j)
  \/ \E d \in Deliveries : HandlerStep(d)
  \/ \E r \in Runs : RunStep(r)
  \/ Disconnect
  \/ Reconnect
  \/ StopSignal
  \/ MainStep

Spec == Init /\ [][Next]_vars

\* The event loop resumes every coroutine that can run, a send or a download
\* always comes back (a download at the latest after job_timeout_seconds), and
\* the drain timeout fires.  Nothing obliges messages to arrive, the stop
\* signal to come or the connection to return.
Fairness ==
  /\ \A d \in Deliveries : WF_vars(HandlerStep(d))
  /\ \A r \in Runs : WF_vars(RunStep(r))
  /\ WF_vars(MainStep)

FairSpec == Spec /\ Fairness

-----------------------------------------------------------------------------
(* Properties.                                                             *)

HandlerType ==
  [pc : HandlerPCs, job : Jobs \cup {Null}, code : FailureCodes \cup {"none", "cancel"}]

RunType ==
  [pc : RunPCs, job : Jobs \cup {Null}, code : FailureCodes \cup {"none", TooLong},
   cancel : BOOLEAN, asked : BOOLEAN]

HandlersTyped ==
  /\ handler \in [Deliveries -> HandlerType]
  /\ \A d \in Deliveries : handler[d].pc # "idle" => handler[d].job \in Jobs
  /\ \A d \in Deliveries : handler[d].pc = "rejecting" => handler[d].code \in HandlerCodes

RunsTyped ==
  /\ run \in [Runs -> RunType]
  /\ \A r \in Runs : run[r].pc # "unused" => run[r].job \in Jobs
  /\ \A r \in Runs : run[r].pc = "failing" => run[r].code \in RunCodes \cup {"cancelled"}

\* Every variable has its type; a handler that awaits a send, and a task that
\* was created, have a job, and only a failure in their range to report.
TypeOK ==
  /\ faulty \in BOOLEAN /\ connected \in BOOLEAN
  /\ HandlersTyped
  /\ RunsTyped
  /\ registry \in [Jobs -> Runs \cup {Null}]
  /\ sent \in [Jobs -> Seq(Reports)]
  /\ main \in MainPCs
  /\ drain \subseteq Runs

\* _tasks and the live tasks agree: a task is found under its own job_id from
\* its creation until its finally clause, and what is found there is such a
\* task.  handle_job_cancel, in_flight and shutdown() all rely on it.  The one
\* entry without a live task belongs to a task cancelled before it started.
RegistryAccurate ==
  /\ \A r \in Runs :
       (LiveRun(r) \/ run[r].pc = "stillborn") => registry[run[r].job] = r
  /\ \A j \in Jobs : registry[j] # Null =>
       /\ run[registry[j]].job = j
       /\ LiveRun(registry[j]) \/ run[registry[j]].pc = "stillborn"

\* However often job.create is delivered, and however the handlers of the
\* deliveries interleave at their sends, two tasks never execute one job.
OneRunPerJob ==
  \A r, s \in Runs :
    LiveRun(r) /\ LiveRun(s) /\ run[r].job = run[s].job => r = s

Positions(j, S) == {i \in DOMAIN sent[j] : sent[j][i] \in S}

\* What only a task can report.
Outcomes == {Completed} \cup {Failed(c) : c \in RunCodes \cup {"cancelled"}}

\* Iran never hears of the outcome of a job before it heard job.accepted,
\* although one is sent by a message handler and the other by a task.
AcceptedBeforeOutcome ==
  \A j \in Jobs : \A i \in Positions(j, Outcomes) :
    \E k \in Positions(j, {Accepted}) : k < i

HeardIn(log, report) == \E i \in DOMAIN log : log[i] = report

\* The outcome that a task came to is in the log of its job.
Told(log, coro) ==
  \/ coro.code = "none" /\ HeardIn(log, Completed)
  \/ HeardIn(log, Failed(coro.code))

\* A task that nobody asked to stop, and that ends while the link is up, has
\* sent the outcome it came to, whatever sends failed before.  It ends without
\* a report only when its job.failed is too long for a message, or when on a
\* link that may fail the send of job.failed is what fails
\* (dispatcher.py:641, 662-705).
UncancelledRunsReport ==
  [][\A r \in Runs :
       run[r].pc # "ended" /\ run'[r].pc = "ended" /\ ~run[r].asked /\ connected =>
         \/ Told(sent'[run[r].job], run'[r])
         \/ run'[r].code = TooLong
         \/ faulty /\ run[r].pc = "failing"]_vars

\* A registry entry is only ever removed, never replaced, and only by the task
\* it stands for: pop(job_id) removes by key, so a late finally clause could
\* otherwise drop the entry of a newer task of the same job.
EntryOutlivesRun ==
  [][\A j \in Jobs : registry[j] # Null /\ registry'[j] # registry[j] =>
       /\ registry'[j] = Null
       /\ LiveRun(registry[j])
       /\ run'[registry[j]].pc = "ended"]_vars

\* After SIGTERM the worker exits, although messages keep arriving and jobs
\* keep being spawned while it drains.
StoppedWorkerExits == main # "serving" ~> main = "exited"

\* Where sends work, nobody cancels and the worker is not stopped, a job whose
\* acceptance was announced gets an outcome or a refusal, unless its run ended
\* in a failure whose text is too long for a message.
AcceptedJobsAreSettled ==
  \A j \in Jobs :
    (~faulty /\ Positions(j, {Accepted}) # {})
      ~> \/ Positions(j, Reports \ {Accepted}) # {}
         \/ main # "serving"
         \/ \E r \in Runs : run[r].job = j /\ (run[r].asked \/ run[r].code = TooLong)

-----------------------------------------------------------------------------
(* What the documents of the repository say, and the code does not do.     *)

\* "On any failure: publishes job.failed" (architecture.md:99): where sends
\* work and until the worker disconnects, no task that nobody asked to stop ends
\* in silence.
EveryFailureIsReported ==
  ~faulty /\ ~Disconnected =>
    \A r \in Runs : run[r].pc = "ended" /\ ~run[r].asked => Told(sent[run[r].job], run[r])

=============================================================================
